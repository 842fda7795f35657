----------------------------- MODULE Publication -----------------------------
(***************************************************************************)
(* How transitions and snapshots reach the disk: the single background     *)
(* writer (Publisher of crates/core/src/publication.rs), the files it      *)
(* writes (Store of storage.rs) and the monitor loop that queues the       *)
(* transitions, starts and polls the writer, and finishes it on shutdown   *)
(* (monitor and append of crates/runtime/src/supervise.rs).                *)
(*                                                                         *)
(* A transition is an ordinal.  What matters of a snapshot is which        *)
(* transitions it reflects and which of them its dropped_transitions       *)
(* counts, so it is a pair of sets.  Retention of old files is left out:   *)
(* recorded is what an events file was ever written for, newest is the     *)
(* youngest snapshot file.                                                 *)
(***************************************************************************)
EXTENDS Integers, Sequences

CONSTANTS
    MaxEvents,      \* bound: transitions there are
    MaxBatch,       \* bound: transitions one result or expiry returns
    QueueLimit,     \* 2 * settings.max_findings
    MaxFaults,      \* bound: failing disk operations
    MaxExits,       \* bound: crashes and exits of the process
    Marked,         \* whether the directory already holds a publication
    None

ASSUME ConstantsAssumption ==
    /\ MaxEvents \in Nat
    /\ MaxBatch \in Nat
    /\ QueueLimit \in Nat
    /\ MaxFaults \in Nat
    /\ MaxExits \in Nat
    /\ Marked \in BOOLEAN

Event == 1 .. MaxEvents
Snapshot == [reflects : SUBSET Event, dropped : SUBSET Event]
Blank == [reflects |-> {}, dropped |-> {}]
Step == {"reserve", "snapshot", "events", "report", "latest", "trim", "done", "failed"}
Finished == {"done", "failed"}
Task == [step : Step, snapshot : Snapshot, events : Seq(Event)]
Phase == {"up", "draining", "settling", "closing", "down", "off"}

ASSUME NoneAssumption == None \notin Snapshot \cup Task

VARIABLES
    phase,      \* of monitor(): up, draining, then the two awaits of finish
    monitor,    \* its memory, the publisher included
    newest,     \* the youngest monitor-snapshot file
    recorded,   \* transitions written to a monitor-events file
    latest,     \* monitor-latest.json, the publication marker
    occurred,   \* transitions there have been
    faults,
    exits

vars == <<phase, monitor, newest, recorded, latest, occurred, faults, exits>>
disk == <<newest, recorded, latest>>

Elements(s) == {s[i] : i \in DOMAIN s}
Lesser(a, b) == IF a < b THEN a ELSE b

\* The state of a monitor that starts from a snapshot.
Boot(snapshot) ==
    [snapshot |-> snapshot, fault |-> FALSE, transitions |-> <<>>, task |-> None,
     eventCount |-> 0, requested |-> FALSE, waiting |-> FALSE]

-----------------------------------------------------------------------------
(* The handlers' parts, as functions of the monitor's memory. *)

\* append: beyond the limit transitions are dropped, and counted.
Appended(m, incoming) ==
    LET room == IF Len(m.transitions) < QueueLimit
                THEN QueueLimit - Len(m.transitions) ELSE 0
        kept == Lesser(Len(incoming), room)
        lost == Elements(SubSeq(incoming, kept + 1, Len(incoming)))
    IN  [m EXCEPT !.snapshot = [reflects |-> @.reflects \cup Elements(incoming),
                                dropped |-> @.dropped \cup lost],
                  !.fault = IF Len(incoming) > room THEN TRUE ELSE @,
                  !.transitions = @ \o SubSeq(incoming, 1, kept)]

Requested(m) == [m EXCEPT !.requested = TRUE]

\* Publisher::start: the write captures the snapshot and all queued transitions.
Started(m) ==
    IF m.task # None \/ ~m.requested \/ m.waiting THEN m
    ELSE [m EXCEPT !.requested = FALSE,
                   !.eventCount = Len(m.transitions),
                   !.task = [step |-> "reserve", snapshot |-> m.snapshot,
                             events |-> m.transitions]]

\* Mutant: a successful write acknowledges everything queued by now.
AcknowledgedAll(m) == [m EXCEPT !.task = None, !.waiting = FALSE, !.transitions = <<>>]

\* Publisher::complete after a success, and the drain by its caller.
Acknowledged(m) ==
    LET count == Lesser(m.eventCount, Len(m.transitions))
    IN  [m EXCEPT !.task = None, !.waiting = FALSE,
                  !.transitions = SubSeq(@, count + 1, Len(@))]

\* Publisher::complete after a failure.
Failed(m) == [m EXCEPT !.task = None, !.requested = TRUE, !.waiting = TRUE]

IsFinished(m) == m.task # None /\ m.task.step \in Finished

Completed(m) == IF m.task.step = "done" THEN Acknowledged(m) ELSE Failed(m)

\* Mutant: a failed write is left in place.
PolledOnce(m) ==
    IF IsFinished(m) /\ m.task.step = "done"
    THEN [Acknowledged(m) EXCEPT !.fault = FALSE] ELSE m

\* Publisher::poll, and what the disk tick makes of its answer.
Polled(m) ==
    IF ~IsFinished(m) THEN m
    ELSE IF m.task.step = "done" THEN [Acknowledged(m) EXCEPT !.fault = FALSE]
    ELSE [Failed(m) EXCEPT !.fault = TRUE]

-----------------------------------------------------------------------------
Init ==
    /\ phase = "up"
    /\ latest = (IF Marked THEN Blank ELSE None)
    /\ newest = latest
    /\ recorded = {}
    /\ monitor = Boot(Blank)
    /\ occurred = 0
    /\ faults = 0
    /\ exits = 0

\* The transitions one call returns, none included.
Batch(n) == [i \in 1 .. n |-> occurred + i]
Batches == {n \in 0 .. MaxBatch : occurred + n <= MaxEvents}

\* A result is applied, also while a shutdown drains the scheduler.
Collect ==
    /\ phase \in {"up", "draining"}
    /\ \E n \in Batches \ {0} :
        /\ monitor' = Appended(monitor, Batch(n))
        /\ occurred' = occurred + n
    /\ UNCHANGED <<phase, disk, faults, exits>>

\* The history tick asks for a publication and starts it if it can.
HistoryTick ==
    /\ phase = "up"
    /\ \E n \in Batches :
        /\ monitor' = Started(Requested(Appended(monitor, Batch(n))))
        /\ occurred' = occurred + n
    /\ UNCHANGED <<phase, disk, faults, exits>>

\* The disk tick takes the outcome of a write and starts one that is due.
DiskTick ==
    /\ phase = "up"
    /\ \E n \in Batches :
        /\ monitor' = Started(Polled(Appended(monitor, Batch(n))))
        /\ occurred' = occurred + n
    /\ UNCHANGED <<phase, disk, faults, exits>>

BackoffEnds ==
    /\ phase # "off"
    /\ monitor.waiting
    /\ monitor' = [monitor EXCEPT !.waiting = FALSE]
    /\ UNCHANGED <<phase, disk, occurred, faults, exits>>

-----------------------------------------------------------------------------
(* Shutdown. *)

\* A signal, the end of the duration or another task stops the monitor.
Stop ==
    /\ phase = "up"
    /\ phase' = "draining"
    /\ UNCHANGED <<monitor, disk, occurred, faults, exits>>

\* finish publishes the final state, whatever the backoff.
FinalAsked(m) == [m EXCEPT !.requested = TRUE, !.waiting = FALSE]

\* The scheduler has ended: Publisher::finish settles a write under way, then
\* publishes the final state.
Finish ==
    /\ phase \in {"up", "draining"}
    /\ IF monitor.task # None
       THEN phase' = "settling" /\ UNCHANGED monitor
       ELSE phase' = "closing" /\ monitor' = Started(FinalAsked(monitor))
    /\ UNCHANGED <<disk, occurred, faults, exits>>

\* Mutant: a write under way when finish is called counts as the final one.
SettleFinal ==
    /\ phase = "settling"
    /\ IsFinished(monitor)
    /\ phase' = "down"
    /\ monitor' = Polled(monitor)
    /\ UNCHANGED <<disk, occurred, faults, exits>>

Settle ==
    /\ phase = "settling"
    /\ IsFinished(monitor)
    /\ phase' = "closing"
    /\ monitor' = Started(FinalAsked(Completed(monitor)))
    /\ UNCHANGED <<disk, occurred, faults, exits>>

Close ==
    /\ phase = "closing"
    /\ IsFinished(monitor)
    /\ phase' = "down"
    /\ monitor' = Polled(monitor)
    /\ UNCHANGED <<disk, occurred, faults, exits>>

\* The cleanup deadline passes, before finish or in one of its awaits: a write
\* under way is left to itself.
Timeout ==
    /\ phase \in {"draining", "settling", "closing"}
    /\ phase' = "down"
    /\ monitor' = [monitor EXCEPT !.fault = TRUE]
    /\ UNCHANGED <<disk, occurred, faults, exits>>

-----------------------------------------------------------------------------
(* The blocking write: Store::publish. *)

\* Mutant: the marker is written before the events.
AfterMarkerFirst(step) ==
    CASE step = "reserve" -> "snapshot"
      [] step = "snapshot" -> "latest"
      [] step = "latest" -> "events"
      [] step = "events" -> "report"
      [] step = "report" -> "trim"
      [] step = "trim" -> "done"

After(step) ==
    CASE step = "reserve" -> "snapshot"
      [] step = "snapshot" -> "events"
      [] step = "events" -> "report"
      [] step = "report" -> "latest"
      [] step = "latest" -> "trim"
      [] step = "trim" -> "done"

\* What a step leaves on the disk.
Effect(task) ==
    /\ newest' = (IF task.step = "snapshot" THEN task.snapshot ELSE newest)
    /\ recorded' = (IF task.step = "events" THEN recorded \cup Elements(task.events)
                    ELSE recorded)
    /\ latest' = (IF task.step = "latest" THEN task.snapshot ELSE latest)

Writing == phase # "off" /\ monitor.task # None /\ monitor.task.step \notin Finished

Write ==
    /\ Writing
    /\ Effect(monitor.task)
    /\ monitor' = [monitor EXCEPT !.task.step = After(@)]
    /\ UNCHANGED <<phase, occurred, faults, exits>>

\* A step fails; a rename may be in place all the same.
Fault ==
    /\ Writing
    /\ faults < MaxFaults
    /\ Effect(monitor.task) \/ UNCHANGED disk
    /\ monitor' = [monitor EXCEPT !.task.step = "failed"]
    /\ faults' = faults + 1
    /\ UNCHANGED <<phase, occurred, exits>>

-----------------------------------------------------------------------------
(* The process ends, at any point, and is started again. *)

Exit ==
    /\ phase # "off"
    /\ exits < MaxExits
    /\ phase' = "off"
    /\ monitor' = Boot(Blank)
    /\ exits' = exits + 1
    /\ UNCHANGED <<disk, occurred, faults>>

\* Store::latest: the marker, or without one the youngest snapshot file.
Recovered == IF latest # None THEN latest ELSE IF newest # None THEN newest ELSE Blank

Restart ==
    /\ phase = "off"
    /\ phase' = "up"
    /\ monitor' = Boot(Recovered)
    /\ UNCHANGED <<disk, occurred, faults, exits>>

Next ==
    \/ Collect \/ HistoryTick \/ DiskTick \/ BackoffEnds
    \/ Stop \/ Finish \/ Settle \/ Close \/ Timeout
    \/ Write \/ Fault
    \/ Exit \/ Restart

Spec == Init /\ [][Next]_vars

\* The ticks come round, the writing thread runs and the backoff is finite.
FairSpec ==
    /\ Spec
    /\ WF_vars(HistoryTick)
    /\ WF_vars(DiskTick)
    /\ WF_vars(BackoffEnds)
    /\ WF_vars(Write)

-----------------------------------------------------------------------------
Memory == [snapshot : Snapshot, fault : BOOLEAN, transitions : Seq(Event),
           task : Task \cup {None}, eventCount : Nat, requested : BOOLEAN,
           waiting : BOOLEAN]

\* Memory and disk keep their shape; the queue respects its limit.
TypeOK ==
    /\ phase \in Phase
    /\ monitor \in Memory
    /\ Len(monitor.transitions) <= QueueLimit
    /\ newest \in Snapshot \cup {None}
    /\ latest \in Snapshot \cup {None}
    /\ recorded \subseteq Event
    /\ occurred \in 0 .. MaxEvents
    /\ faults \in 0 .. MaxFaults
    /\ exits \in 0 .. MaxExits

\* "Successful writes acknowledge only their captured prefix; later events
\* remain queued" (publication.rs): a transition the state reflects is still
\* queued, is in an events file, or is counted as dropped.
NothingLost ==
    monitor.snapshot.reflects \subseteq
        Elements(monitor.transitions) \cup recorded \cup monitor.snapshot.dropped

\* When the monitor ends without a persistence fault, the marker is its final
\* state and every transition of it is accounted for (supervise.rs, finish).
CleanEnd ==
    phase = "down" /\ ~monitor.fault =>
        /\ latest = monitor.snapshot
        /\ monitor.transitions = <<>>
        /\ latest.reflects \subseteq recorded \cup latest.dropped

\* What the evidence directory promises a reader: see Evidence.
Kept == INSTANCE Evidence WITH marker <- latest
EvidenceKept == Kept!Spec

\* "The latest snapshot is the publication marker; leave it intact if any
\* earlier write fails" (storage.rs): whatever a restart resumes from, the
\* transitions it reflects were recorded or counted as dropped.
ResumesFromPublished ==
    phase = "off" => Recovered.reflects \subseteq recorded \cup Recovered.dropped

\* Disk faults that end delay a publication and lose nothing: while the monitor
\* runs, what is queued is eventually written and acknowledged.
QueueDrains == monitor.transitions # <<>> ~> (monitor.transitions = <<>> \/ phase # "up")
=============================================================================
