------------------------------ MODULE LogCursor ------------------------------
(***************************************************************************)
(* How a watch reads logs without gaps and without counting a line twice:  *)
(* Router::collect, reload and restore_logs of crates/providers/src keep a *)
(* cursor per target, Window of crates/integrations/src/log_window.rs      *)
(* turns it into the interval to read and the interval that is missing,    *)
(* and Dedupe of log_dedup.rs suppresses what the overlap reads again.     *)
(* The results go to the monitor, whose snapshot is what a restart has.    *)
(*                                                                         *)
(* One target.  A line is the time at which it occurred; it can be read    *)
(* after a delay.  Signatures, counts and the limits that cut a window     *)
(* short are left out: a window is read completely or it is not.           *)
(***************************************************************************)
EXTENDS Integers, Sequences, FiniteSets

CONSTANTS
    Window,         \* the windows of a collection: errors, runtime
    Span,           \* per window, log_window or runtime_window
    Overlap,        \* settings.log_overlap
    Delay,          \* how late a line may become readable
    Line,           \* the times at which lines occur
    Revision,       \* of configurations
    JobOf,          \* what each makes of the log check: its target, windows
    MaxTime,        \* bound on time
    MaxChanges,     \* bound on reloads and restarts
    Capacity,       \* results that wait for the monitor
    Returns,        \* whether a reload may restore a configuration of which a
                    \* collection is still under way
    None

Time == 0 .. MaxTime

ASSUME ConstantsAssumption ==
    /\ IsFiniteSet(Window) /\ Window # {}
    /\ Span \in [Window -> Nat \ {0}]
    /\ Overlap \in Nat
    /\ \A w \in Window : Overlap <= Span[w]      \* limits.rs:12
    /\ Delay \in 0 .. Overlap
    /\ JobOf \in [Revision -> Nat]
    /\ MaxTime \in Nat
    /\ Line \subseteq Time
    /\ MaxChanges \in Nat
    /\ Capacity \in Nat \ {0}
    /\ Returns \in BOOLEAN

ASSUME NoneAssumption == None \notin Int

\* Per window and line, the end of the last window that accepted it.
Table == [Window -> [Line -> Time \cup {None}]]
Nothing == [w \in Window |-> {}]
NoEntries == [w \in Window |-> [l \in Line |-> None]]

\* What a collection says of a window: the lines it counted, and whether it
\* was read to its end.
Report == [counted : SUBSET Line, complete : BOOLEAN]
NoReport == [counted |-> {}, complete |-> FALSE]

\* A collection of logs, from the call of collect to its result.
Task == [rev : Revision, log_start : Time \cup {None}, log_end : Time,
         scope : {"none", "current", "replaced"},   \* whose table it writes to
         table : Table, todo : SUBSET Window, report : [Window -> Report]]

\* What the monitor has applied: the end of the last complete collection,
\* whether nothing incomplete came after it, and, as ghosts, the lines counted,
\* where the last span-limited window began, the lines of complete collections
\* that share a table, and how intervals were skipped that no window reported.
Monitor == [job : {JobOf[rev] : rev \in Revision}, log_end : Time \cup {None}, complete : BOOLEAN,
            seen : [Window -> SUBSET Line], from : [Window -> Int],
            settled : [Window -> SUBSET Line],
            skipped : SUBSET {"with a cursor", "without a cursor"}]

ASSUME TaskAssumption == None \notin Task

VARIABLES
    now,
    readable,       \* the lines a provider returns
    revision,       \* of the router and the monitor
    log_cursor,     \* the target's entry of log_cursors
    table,          \* the fingerprints of the target's scope
    task,           \* the collection under way
    results,        \* finished ones the monitor has not taken
    monitor,
    saved,          \* what of it is on disk
    changes         \* reloads and restarts

vars == <<now, readable, revision, log_cursor, table, task, results, monitor,
          saved, changes>>

Init ==
    /\ now = 0
    /\ readable = {}
    /\ revision \in Revision
    /\ log_cursor = None
    /\ table = NoEntries
    /\ task = None
    /\ results = <<>>
    /\ monitor = [job |-> JobOf[revision], log_end |-> None, complete |-> FALSE,
                  seen |-> Nothing, from |-> [w \in Window |-> 0],
                  settled |-> Nothing, skipped |-> {}]
    /\ saved = monitor
    /\ changes = 0

-----------------------------------------------------------------------------
(* Time and lines. *)

Tick ==
    /\ now < MaxTime
    /\ \A l \in Line : l + Delay <= now => l \in readable
    /\ now' = now + 1
    /\ UNCHANGED <<readable, revision, log_cursor, table, task, results, monitor,
                   saved, changes>>

Ingest(l) ==
    /\ l <= now
    /\ l \notin readable
    /\ readable' = readable \cup {l}
    /\ UNCHANGED <<now, revision, log_cursor, table, task, results, monitor,
                   saved, changes>>

-----------------------------------------------------------------------------
(* A collection. *)

\* collect fixes the end of its windows and takes the cursor.  The clock is finer
\* than a collection: no two of them end their windows at one time.
Start ==
    /\ task = None
    /\ log_cursor # None => log_cursor < now
    /\ Len(results) < Capacity
    /\ task' = [rev |-> revision, log_start |-> log_cursor, log_end |-> now,
                scope |-> "none", table |-> NoEntries, todo |-> Window,
                report |-> [w \in Window |-> NoReport]]
    /\ UNCHANGED <<now, readable, revision, log_cursor, table, results, monitor,
                   saved, changes>>

\* After admission it gets the scope of its revision, and with it the table.
Open ==
    /\ task # None
    /\ task.scope = "none"
    /\ task.rev = revision
    /\ task' = [task EXCEPT !.scope = "current", !.table = table]
    /\ UNCHANGED <<now, readable, revision, log_cursor, table, results, monitor,
                   saved, changes>>

Later(x, y) == IF x >= y THEN x ELSE y

\* Where window w of task t begins without a cursor.
Full(t, w) == t.log_end - Span[w]

\* Where it begins: at the cursor less the overlap, if the span reaches there.
Begins(t, w) ==
    IF t.log_start = None THEN Full(t, w) ELSE Later(Full(t, w), t.log_start - Overlap)

\* Mutant: what is missing is measured to where the overlap begins.
GapToBegin(t, w) ==
    IF t.log_start = None THEN {} ELSE {x \in Time : t.log_start < x /\ x < Full(t, w) - Overlap}

\* The times it reports as missing.
Gap(t, w) ==
    IF t.log_start = None THEN {} ELSE {x \in Time : t.log_start < x /\ x < Full(t, w)}

\* Mutant: a fingerprint suppresses whether or not its batch was committed.
SeenBefore(entry, committed) == entry # None

\* A duplicate: its last batch ended no later than the cursor.
Suppressed(entry, committed) ==
    entry # None /\ committed # None /\ entry <= committed

\* Window w is read, all of it or some of it.
Read(w) ==
    /\ task # None
    /\ task.scope # "none"
    /\ w \in task.todo
    /\ \E rows \in SUBSET {l \in readable : Begins(task, w) <= l /\ l <= task.log_end} :
       \E complete \in BOOLEAN :
        LET counted == {l \in rows : ~Suppressed(task.table[w][l], task.log_start)}
        IN  /\ complete => rows = {l \in readable : Begins(task, w) <= l /\ l <= task.log_end}
            /\ task' = [task EXCEPT
                  !.todo = @ \ {w},
                  !.report[w] = [counted |-> counted, complete |-> complete],
                  !.table[w] = [l \in Line |-> IF l \in counted THEN task.log_end ELSE @[l]]]
    /\ UNCHANGED <<now, readable, revision, log_cursor, table, results, monitor,
                   saved, changes>>

Complete(t) == t.todo = {} /\ \A w \in Window : t.report[w].complete

\* Whether the cursor moves to the end of collection t.
Advances(t) == t.rev = revision /\ Complete(t)

\* The table stays with the scope; a reload may have replaced that meanwhile.
Returned(t) ==
    /\ table' = (IF t.scope = "current" THEN t.table ELSE table)
    /\ task' = None

Finish ==
    /\ task # None
    /\ task.todo = {}
    /\ log_cursor' = (IF Advances(task) THEN task.log_end ELSE log_cursor)
    /\ results' = Append(results, [task EXCEPT !.table = NoEntries])
    /\ Returned(task)
    /\ UNCHANGED <<now, readable, revision, monitor, saved, changes>>

\* The collection fails or is cancelled, before or after some of its reads: its
\* result has no windows.
Fail ==
    /\ task # None
    /\ results' = Append(results, [task EXCEPT !.table = NoEntries, !.todo = Window,
                                              !.report = [w \in Window |-> NoReport]])
    /\ Returned(task)
    /\ UNCHANGED <<now, readable, revision, log_cursor, monitor, saved, changes>>

-----------------------------------------------------------------------------
(* The monitor. *)

\* The times between the last complete collection and window w of r that r does
\* not report.
Unreported(r, w) ==
    IF monitor.log_end = None THEN {}
    ELSE {x \in Time : monitor.log_end < x /\ x < Begins(r, w)} \ Gap(r, w)

\* What the monitor holds after result r.
Applied(r) ==
    LET seen == [w \in Window |-> monitor.seen[w] \cup r.report[w].counted]
    IN  IF ~Complete(r) THEN [monitor EXCEPT !.seen = seen, !.complete = FALSE]
        ELSE [monitor EXCEPT
                !.seen = seen,
                !.complete = TRUE,
                !.log_end = r.log_end,
                !.from = [w \in Window |-> IF Begins(r, w) # Full(r, w) THEN @[w]
                                          ELSE Full(r, w)],
                !.settled = [w \in Window |->
                               IF r.scope = "current" THEN @[w] \cup r.report[w].counted
                               ELSE @[w]],
                !.skipped = @ \cup
                    {IF r.log_start = None THEN "without a cursor" ELSE "with a cursor" :
                        w \in {v \in Window : Unreported(r, v) # {}}}]

\* The monitor takes a result and applies it if it is of its configuration.
Deliver ==
    /\ results # <<>>
    /\ results' = Tail(results)
    /\ monitor' = (IF Head(results).rev = revision THEN Applied(Head(results)) ELSE monitor)
    /\ UNCHANGED <<now, readable, revision, log_cursor, table, task, saved, changes>>

\* What is on disk matters to a restart only.
Persist ==
    /\ changes < MaxChanges
    /\ saved' = monitor
    /\ UNCHANGED <<now, readable, revision, log_cursor, table, task, results, monitor,
                   changes>>

Replaced(t) == IF t.scope = "current" THEN [t EXCEPT !.scope = "replaced"] ELSE t

\* State::reconfigured: a configuration that changes the job makes the monitor
\* forget its result; what is known starts again now.
Reconfigured(m, rev) ==
    IF JobOf[rev] = m.job THEN [m EXCEPT !.settled = Nothing]
    ELSE [m EXCEPT !.job = JobOf[rev], !.log_end = None, !.complete = FALSE,
                   !.from = [w \in Window |-> now], !.seen = Nothing, !.settled = Nothing]

\* Whether a collection with revision rev is under way or its result waits.
InFlight(rev) ==
    (task # None /\ task.rev = rev) \/ \E i \in DOMAIN results : results[i].rev = rev

\* A reload clears the cursors and the scopes.
Reload(rev) ==
    /\ changes < MaxChanges
    /\ rev # revision /\ InFlight(rev) => Returns
    /\ changes' = changes + 1
    /\ revision' = rev
    /\ log_cursor' = None
    /\ table' = NoEntries
    /\ task' = (IF task = None THEN None ELSE Replaced(task))
    /\ results' = [i \in DOMAIN results |-> Replaced(results[i])]
    /\ monitor' = Reconfigured(monitor, rev)
    /\ UNCHANGED <<now, readable, saved>>

\* The process ends and another starts from the disk, perhaps with another
\* configuration: restore_logs takes the cursor from a stored complete result.
Restart(rev) ==
    /\ changes < MaxChanges
    /\ changes' = changes + 1
    /\ revision' = rev
    /\ monitor' = Reconfigured(saved, rev)
    /\ log_cursor' = (IF monitor'.complete THEN monitor'.log_end ELSE None)
    /\ table' = NoEntries
    /\ task' = None
    /\ results' = <<>>
    /\ UNCHANGED <<now, readable, saved>>

Next ==
    \/ Tick
    \/ \E l \in Line : Ingest(l)
    \/ Start \/ Open \/ Finish \/ Fail
    \/ \E w \in Window : Read(w)
    \/ Deliver \/ Persist
    \/ \E rev \in Revision : Reload(rev) \/ Restart(rev)

Spec == Init /\ [][Next]_vars

-----------------------------------------------------------------------------
\* Every part keeps its shape; at most Capacity results wait.
TypeOK ==
    /\ now \in Time
    /\ readable \subseteq Line
    /\ revision \in Revision
    /\ log_cursor \in Time \cup {None}
    /\ table \in Table
    /\ task \in Task \cup {None}
    /\ results \in Seq(Task)
    /\ Len(results) + (IF task = None THEN 0 ELSE 1) <= Capacity
    /\ monitor \in Monitor
    /\ saved \in Monitor
    /\ changes \in 0 .. MaxChanges

\* "Cancellation cannot hide evidence on retry" (design.md): from where the last
\* span-limited window began, every line that had time to become readable was
\* counted in a result the monitor has, whatever was read in part, failed, was
\* dropped or forgotten on the way.
EvidenceCounted ==
    monitor.log_end # None =>
        \A w \in Window : \A l \in Line :
            (monitor.from[w] <= l /\ l < monitor.log_end - Overlap) => l \in monitor.seen[w]

\* The overlap does not count twice: a complete collection that is about to be
\* applied counts no line that an earlier one of the same scope counted.
CountedOnce ==
    (results # <<>> /\ Head(results).rev = revision /\ Head(results).scope = "current"
                    /\ Complete(Head(results))) =>
        \A w \in Window : Head(results).report[w].counted \cap monitor.settled[w] = {}

CountedExactlyOnce == EvidenceCounted /\ CountedOnce

\* An outage longer than a window is reported: a collection that has a cursor
\* reports all that it skips since the last complete one.
OutageReported == "with a cursor" \notin monitor.skipped

\* "Each window reports ... missing history" (docs/architecture/be/design.md:34):
\* no interval after the first complete collection is skipped silently.
MissingReported == monitor.skipped = {}
=============================================================================
