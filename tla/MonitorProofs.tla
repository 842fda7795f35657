---------------------------- MODULE MonitorProofs ----------------------------
(***************************************************************************)
(* The two parts the monitor's process drives.  Nothing is lost between a  *)
(* transition and its events file, and the publication marker keeps what   *)
(* Evidence promises, for every number of transitions, faults and          *)
(* restarts; the directory is one that has been published to (Marked):     *)
(* without a marker a restart may resume from a snapshot whose events were *)
(* never written.  The tasks of the scheduler, the jobs that count as      *)
(* running and the slots that are taken agree, and what a reload removed   *)
(* is cancelled: for every set of jobs and scopes, every sequence of       *)
(* configurations and any number of reloads.                               *)
(***************************************************************************)
EXTENDS Publication, Scheduler, SequenceTheorems, FiniteSetTheorems, FunctionTheorems, TLAPS

-----------------------------------------------------------------------------
(* Publication: between a transition and its events file.                  *)


\* The bookkeeping of the writer: its events are the captured prefix of the
\* queue, and past the events step they are on the disk.
Captured(m, rec) ==
    /\ m.eventCount \in 0 .. Len(m.transitions)
    /\ m.task.events = SubSeq(m.transitions, 1, m.eventCount)
    /\ m.task.snapshot.reflects \subseteq m.snapshot.reflects
    /\ m.task.snapshot.reflects \subseteq
           Elements(m.task.events) \cup rec \cup m.task.snapshot.dropped
    /\ m.task.step \in {"report", "latest", "trim", "done"} =>
           Elements(m.task.events) \subseteq rec

\* What every handler keeps of the monitor's memory.
Kempt(m, rec) ==
    /\ m \in Memory
    /\ m.snapshot.reflects \subseteq
           Elements(m.transitions) \cup rec \cup m.snapshot.dropped
    /\ m.task # None => Captured(m, rec)

\* The marker is behind the memory and the write under way.
Behind(mark, m) ==
    /\ mark.reflects \subseteq m.snapshot.reflects
    /\ m.task # None => mark.reflects \subseteq m.task.snapshot.reflects

DiskInv ==
    /\ latest \in Snapshot
    /\ recorded \subseteq Event
    /\ latest.reflects \subseteq recorded \cup latest.dropped

IInv ==
    /\ occurred \in 0 .. MaxEvents
    /\ DiskInv
    /\ Kempt(monitor, recorded)
    /\ phase # "off" => Behind(latest, monitor)

-----------------------------------------------------------------------------
(* Sequences and their elements. *)

LEMMA ElementsIn == ASSUME NEW S, NEW s \in Seq(S) PROVE Elements(s) \subseteq S
  BY DEF Elements

LEMMA ElementsConcat ==
  ASSUME NEW S, NEW s \in Seq(S), NEW t \in Seq(S)
  PROVE  Elements(s \o t) = Elements(s) \cup Elements(t)
<1>1. Elements(s \o t) \subseteq Elements(s) \cup Elements(t)
  BY DEF Elements
<1>2. Elements(s) \subseteq Elements(s \o t)
  BY DEF Elements
<1>3. ASSUME NEW i \in 1 .. Len(t) PROVE t[i] \in Elements(s \o t)
  <2>1. (s \o t)[Len(s) + i] = t[i] /\ Len(s) + i \in 1 .. Len(s \o t)
    OBVIOUS
  <2> QED BY <2>1 DEF Elements
<1> QED BY <1>1, <1>2, <1>3 DEF Elements

LEMMA ElementsSplit ==
  ASSUME NEW S, NEW s \in Seq(S), NEW k \in 0 .. Len(s)
  PROVE  /\ SubSeq(s, 1, k) \in Seq(S)
         /\ SubSeq(s, k + 1, Len(s)) \in Seq(S)
         /\ Len(SubSeq(s, 1, k)) = k
         /\ Elements(s) = Elements(SubSeq(s, 1, k)) \cup Elements(SubSeq(s, k + 1, Len(s)))
<1> DEFINE a == SubSeq(s, 1, k)
           b == SubSeq(s, k + 1, Len(s))
<1>1. a \in Seq(S) /\ b \in Seq(S) /\ Len(a) = k /\ Len(b) = Len(s) - k
  OBVIOUS
<1>2. /\ \A i \in 1 .. k : a[i] = s[i]
      /\ \A i \in 1 .. Len(s) - k : b[i] = s[k + i]
  OBVIOUS
<1> HIDE DEF a, b
<1>3. s = a \o b
  <2>1. a \o b \in Seq(S) /\ Len(a \o b) = Len(s)
    BY <1>1
  <2>2. ASSUME NEW i \in 1 .. Len(s) PROVE s[i] = (a \o b)[i]
    <3>1. CASE i <= k
      BY <1>1, <1>2, <3>1
    <3>2. CASE ~(i <= k)
      <4>1. PICK j \in 1 .. Len(s) - k : i = k + j
        BY <3>2
      <4>2. (a \o b)[k + j] = b[j]
        BY <1>1, <4>1
      <4>3. b[j] = s[k + j]
        BY <1>2
      <4> QED BY <4>1, <4>2, <4>3
    <3> QED BY <3>1, <3>2
  <2> QED BY <2>1, <2>2, SeqEqual
<1>4. Elements(s) = Elements(a) \cup Elements(b)
  BY <1>1, <1>3, ElementsConcat
<1> QED BY <1>1, <1>4 DEF a, b

LEMMA PrefixOfConcat ==
  ASSUME NEW S, NEW s \in Seq(S), NEW t \in Seq(S), NEW k \in 0 .. Len(s)
  PROVE  SubSeq(s \o t, 1, k) = SubSeq(s, 1, k) /\ k \in 0 .. Len(s \o t)
  OBVIOUS

-----------------------------------------------------------------------------
(* Each part of a handler keeps the memory kempt. *)

LEMMA AppendedKempt ==
  ASSUME NEW m, NEW rec, NEW mark \in Snapshot, Kempt(m, rec), Behind(mark, m),
         NEW new \in Seq(Event)
  PROVE  Kempt(Appended(m, new), rec) /\ Behind(mark, Appended(m, new))
<1> DEFINE room == IF Len(m.transitions) < QueueLimit
                   THEN QueueLimit - Len(m.transitions) ELSE 0
           kept == Lesser(Len(new), room)
           head == SubSeq(new, 1, kept)
           tail == SubSeq(new, kept + 1, Len(new))
           n == Appended(m, new)
<1>1. m \in Memory /\ Len(m.transitions) \in Nat
  BY DEF Kempt, Memory
<1>2. kept \in 0 .. Len(new)
  BY <1>1, ConstantsAssumption DEF Lesser
<1> HIDE DEF kept
<1>3. /\ head \in Seq(Event)
      /\ tail \in Seq(Event)
      /\ Elements(new) = Elements(head) \cup Elements(tail)
  BY <1>2, ElementsSplit
<1> HIDE DEF head, tail
<1>4. /\ n.snapshot = [reflects |-> m.snapshot.reflects \cup Elements(new),
                       dropped |-> m.snapshot.dropped \cup Elements(tail)]
      /\ n.transitions = m.transitions \o head
      /\ n.task = m.task
      /\ n.eventCount = m.eventCount
  BY <1>1 DEF Appended, Memory, kept, head, tail
<1>5. n \in Memory
  <2>1. m.transitions \o head \in Seq(Event)
    BY <1>1, <1>3 DEF Memory
  <2>2. Elements(new) \subseteq Event /\ Elements(tail) \subseteq Event
    BY <1>3, ElementsIn
  <2>3. [reflects |-> m.snapshot.reflects \cup Elements(new),
         dropped |-> m.snapshot.dropped \cup Elements(tail)] \in Snapshot
    BY <1>1, <2>2 DEF Memory, Snapshot
  <2> QED BY <1>1, <2>1, <2>3 DEF Appended, Memory, kept, head, tail
<1>6. Elements(m.transitions \o head) = Elements(m.transitions) \cup Elements(head)
  BY <1>1, <1>3, ElementsConcat DEF Memory
<1>7. n.snapshot.reflects \subseteq Elements(n.transitions) \cup rec \cup n.snapshot.dropped
  BY <1>3, <1>4, <1>6 DEF Kempt
<1>8. ASSUME n.task # None PROVE Captured(n, rec)
  <2>1. Captured(m, rec)
    BY <1>4, <1>8 DEF Kempt
  <2>2. /\ SubSeq(m.transitions \o head, 1, m.eventCount) = SubSeq(m.transitions, 1, m.eventCount)
        /\ m.eventCount \in 0 .. Len(m.transitions \o head)
    BY <1>1, <1>3, <2>1, PrefixOfConcat DEF Memory, Captured
  <2> HIDE DEF n
  <2> QED BY <1>4, <2>1, <2>2 DEF Captured
<1>9. Behind(mark, n)
  BY <1>4 DEF Behind
<1> QED BY <1>5, <1>7, <1>8, <1>9 DEF Kempt

LEMMA StartedKempt ==
  ASSUME NEW m, NEW rec, NEW mark \in Snapshot, Kempt(m, rec), Behind(mark, m)
  PROVE  Kempt(Started(m), rec) /\ Behind(mark, Started(m))
<1>1. CASE m.task # None \/ ~m.requested \/ m.waiting
  BY <1>1 DEF Started
<1>2. CASE ~(m.task # None \/ ~m.requested \/ m.waiting)
  <2> DEFINE task == [step |-> "reserve", snapshot |-> m.snapshot, events |-> m.transitions]
             n == Started(m)
  <2>1. m \in Memory
    BY DEF Kempt
  <2>2. n = [m EXCEPT !.requested = FALSE, !.eventCount = Len(m.transitions), !.task = task]
    BY <1>2 DEF Started
  <2>3. task \in Task
    BY <2>1 DEF Memory, Task, Step
  <2>4. m.transitions = SubSeq(m.transitions, 1, Len(m.transitions))
        /\ Len(m.transitions) \in Nat
    BY <2>1 DEF Memory
  <2> HIDE DEF task
  <2>5. /\ n.task = task
        /\ n.transitions = m.transitions
        /\ n.snapshot = m.snapshot
        /\ n.eventCount = Len(m.transitions)
        /\ n \in Memory
    BY <2>1, <2>2, <2>3, <2>4 DEF Memory
  <2> HIDE DEF n
  <2>6. /\ n.task.step = "reserve"
        /\ n.task.snapshot = m.snapshot
        /\ n.task.events = m.transitions
    BY <2>5 DEF task
  <2>7. Captured(n, rec)
    BY <2>4, <2>5, <2>6 DEF Captured, Kempt
  <2>8. Kempt(n, rec) /\ Behind(mark, n)
    BY <2>5, <2>6, <2>7 DEF Kempt, Behind
  <2> QED BY <2>8 DEF n
<1> QED BY <1>1, <1>2

LEMMA RequestedKempt ==
  ASSUME NEW m, NEW rec, NEW mark \in Snapshot, Kempt(m, rec), Behind(mark, m)
  PROVE  /\ Kempt(Requested(m), rec) /\ Behind(mark, Requested(m))
         /\ Kempt(FinalAsked(m), rec) /\ Behind(mark, FinalAsked(m))
<1>1. m \in Memory
  BY DEF Kempt
<1>2. ASSUME NEW n \in {Requested(m), FinalAsked(m)}
      PROVE  Kempt(n, rec) /\ Behind(mark, n)
  <2>1. /\ n \in Memory
        /\ n.task = m.task
        /\ n.transitions = m.transitions
        /\ n.snapshot = m.snapshot
        /\ n.eventCount = m.eventCount
    BY <1>1, <1>2 DEF Requested, FinalAsked, Memory
  <2> QED BY <2>1 DEF Kempt, Captured, Behind
<1> QED BY <1>2

LEMMA CompletedKempt ==
  ASSUME NEW m, NEW rec, NEW mark \in Snapshot, Kempt(m, rec), Behind(mark, m),
         IsFinished(m)
  PROVE  /\ Kempt(Completed(m), rec) /\ Behind(mark, Completed(m))
         /\ Kempt(Polled(m), rec) /\ Behind(mark, Polled(m))
<1>1. m \in Memory /\ m.task \in Task /\ Captured(m, rec)
  BY DEF Kempt, IsFinished, Memory
<1>2. ASSUME m.task.step = "done",
             NEW n \in {Acknowledged(m), [Acknowledged(m) EXCEPT !.fault = FALSE]}
      PROVE  Kempt(n, rec) /\ Behind(mark, n)
  <2>1. Lesser(m.eventCount, Len(m.transitions)) = m.eventCount
    BY <1>1 DEF Captured, Lesser, Memory
  <2> DEFINE rest == SubSeq(m.transitions, m.eventCount + 1, Len(m.transitions))
  <2>2. /\ rest \in Seq(Event)
        /\ Elements(m.transitions) = Elements(m.task.events) \cup Elements(rest)
    BY <1>1, ElementsSplit DEF Captured, Memory
  <2> HIDE DEF rest
  <2> DEFINE a == [m EXCEPT !.task = None, !.waiting = FALSE, !.transitions = rest]
  <2>3. Acknowledged(m) = a
    BY <2>1 DEF Acknowledged, rest
  <2>4. a \in Memory
    BY <1>1, <2>2 DEF Memory
  <2>5. /\ n \in Memory
        /\ n.task = None
        /\ n.transitions = rest
        /\ n.snapshot = m.snapshot
    BY <1>1, <1>2, <2>2, <2>3, <2>4 DEF Memory
  <2>6. Elements(m.task.events) \subseteq rec
    BY <1>1, <1>2 DEF Captured
  <2> QED BY <2>2, <2>5, <2>6 DEF Kempt, Behind
<1>3. ASSUME NEW n \in {Failed(m), [Failed(m) EXCEPT !.fault = TRUE]}
      PROVE  Kempt(n, rec) /\ Behind(mark, n)
  <2>1. /\ n \in Memory
        /\ n.task = None
        /\ n.transitions = m.transitions
        /\ n.snapshot = m.snapshot
    BY <1>1, <1>3 DEF Failed, Memory
  <2> QED BY <2>1 DEF Kempt, Behind
<1> QED BY <1>2, <1>3 DEF Completed, Polled

LEMMA PolledKempt ==
  ASSUME NEW m, NEW rec, NEW mark \in Snapshot, Kempt(m, rec), Behind(mark, m)
  PROVE  Kempt(Polled(m), rec) /\ Behind(mark, Polled(m))
<1>1. CASE IsFinished(m)
  BY <1>1, CompletedKempt
<1>2. CASE ~IsFinished(m)
  BY <1>2 DEF Polled
<1> QED BY <1>1, <1>2

LEMMA BootKempt ==
  ASSUME NEW s \in Snapshot, NEW rec, s.reflects \subseteq rec \cup s.dropped
  PROVE  Kempt(Boot(s), rec) /\ Behind(s, Boot(s))
  BY DEF Kempt, Boot, Memory, Behind

-----------------------------------------------------------------------------
(* The writer's steps. *)

\* A step of the write, whether it succeeds or fails, keeps the invariant and
\* is a step of Evidence.
LEMMA TaskStep ==
  ASSUME IInv, Writing, NEW next \in Step,
         monitor' = [monitor EXCEPT !.task.step = next],
         Effect(monitor.task) \/ (next = "failed" /\ UNCHANGED disk),
         next = "failed" \/ next = After(monitor.task.step),
         phase' = phase, occurred' = occurred
  PROVE  IInv' /\ [Kept!Next]_(Kept!vars)
<1> DEFINE t == monitor.task
<1>1. /\ monitor \in Memory
      /\ t \in Task
      /\ Captured(monitor, recorded)
      /\ Behind(latest, monitor)
      /\ DiskInv
      /\ latest # None
      /\ t.step \notin Finished
  BY NoneAssumption DEF IInv, Writing, Kempt, Memory, DiskInv
<1>2. Elements(t.events) \subseteq Event
  BY <1>1, ElementsIn DEF Task
<1>3. /\ recorded \subseteq recorded'
      /\ recorded' \subseteq Event
      /\ t.step = "events" /\ next # "failed" => Elements(t.events) \subseteq recorded'
      /\ t.step # "events" => recorded' = recorded
  BY <1>1, <1>2 DEF Effect, disk, DiskInv
<1>4. latest' = latest \/ (t.step = "latest" /\ latest' = t.snapshot)
  BY DEF Effect, disk
<1>5. next \in {"report", "latest", "trim", "done"} => Elements(t.events) \subseteq recorded'
  BY <1>1, <1>3 DEF After, Captured, Finished, Task, Step
<1>6. /\ monitor' \in Memory
      /\ monitor'.task = [t EXCEPT !.step = next]
      /\ monitor'.task \in Task
      /\ monitor'.transitions = monitor.transitions
      /\ monitor'.snapshot = monitor.snapshot
      /\ monitor'.eventCount = monitor.eventCount
  BY <1>1 DEF Memory, Task
<1>7. /\ monitor'.task.step = next
      /\ monitor'.task.events = t.events
      /\ monitor'.task.snapshot = t.snapshot
  BY <1>1, <1>6 DEF Task
<1> HIDE DEF t
<1>8. Kempt(monitor, recorded)'
  <2>1. Captured(monitor, recorded)'
    BY <1>1, <1>3, <1>5, <1>6, <1>7 DEF Captured, t
  <2> QED BY <1>3, <1>6, <2>1 DEF Kempt, IInv
<1>9. t.step = "latest" =>
         /\ t.snapshot.reflects \subseteq recorded \cup t.snapshot.dropped
         /\ t.snapshot \in Snapshot
         /\ recorded' = recorded
         /\ latest.reflects \subseteq t.snapshot.reflects
  BY <1>1, <1>3 DEF Captured, Behind, Task, t, Kempt, Writing
<1>10. DiskInv'
  BY <1>1, <1>3, <1>4, <1>9 DEF DiskInv
<1>11. Behind(latest, monitor)'
  BY <1>1, <1>4, <1>6, <1>7, <1>9 DEF Behind, Captured, t, Writing
<1>12. IInv'
  BY <1>8, <1>10, <1>11 DEF IInv
<1>13. [Kept!Next]_(Kept!vars)
  <2>1. CASE latest' = latest
    BY <1>3, <2>1 DEF Kept!Next, Kept!Record, Kept!vars
  <2>2. CASE t.step = "latest" /\ latest' = t.snapshot
    <3>1. latest' # None
      BY <1>9, <2>2, NoneAssumption
    <3> QED BY <1>1, <1>9, <2>2, <3>1 DEF Kept!Next, Kept!Mark, Kept!Reflects
  <2> QED BY <1>4, <2>1, <2>2
<1> QED BY <1>12, <1>13

-----------------------------------------------------------------------------
(* Every other step leaves the disk alone. *)

LEMMA Batched ==
  ASSUME occurred \in 0 .. MaxEvents, NEW n \in Batches
  PROVE  Batch(n) \in Seq(Event) /\ occurred + n \in 0 .. MaxEvents
<1>1. n \in Nat /\ occurred + n \in 0 .. MaxEvents
  BY ConstantsAssumption DEF Batches
<1>2. \A i \in 1 .. n : occurred + i \in Event
  BY <1>1, ConstantsAssumption DEF Event
<1> QED BY <1>1, <1>2 DEF Batch

LEMMA StepKeeps == IInv /\ [Next]_vars => IInv' /\ [Kept!Next]_(Kept!vars)
<1> SUFFICES ASSUME IInv, [Next]_vars PROVE IInv' /\ [Kept!Next]_(Kept!vars)
  OBVIOUS
<1> DEFINE Keeps(m) == Kempt(m, recorded) /\ Behind(latest, m)
<1>1. latest \in Snapshot /\ occurred \in 0 .. MaxEvents
  BY DEF IInv, DiskInv
\* A handler that keeps the memory kempt keeps the invariant.
<1>2. ASSUME UNCHANGED disk, occurred' \in 0 .. MaxEvents, Keeps(monitor')
      PROVE  IInv' /\ [Kept!Next]_(Kept!vars)
  BY <1>2 DEF IInv, DiskInv, disk, Kept!vars
<1>3. ASSUME phase # "off" PROVE Keeps(monitor)
  BY <1>3 DEF IInv
<1>4. ASSUME NEW m, Keeps(m)
      PROVE  Keeps(Started(m)) /\ Keeps(Polled(m)) /\ Keeps(Requested(m)) /\ Keeps(FinalAsked(m))
  BY <1>1, <1>4, StartedKempt, PolledKempt, RequestedKempt
<1>5. ASSUME NEW n \in Batches, phase # "off" PROVE Keeps(Appended(monitor, Batch(n)))
  BY <1>1, <1>3, <1>5, Batched, AppendedKempt
<1>6. ASSUME NEW n \in Batches PROVE occurred + n \in 0 .. MaxEvents
  BY <1>1, Batched
<1> HIDE DEF Keeps
<1>7. CASE Collect
  BY <1>2, <1>5, <1>6, <1>7 DEF Collect
<1>8. CASE HistoryTick
  BY <1>2, <1>4, <1>5, <1>6, <1>8 DEF HistoryTick
<1>9. CASE DiskTick
  BY <1>2, <1>4, <1>5, <1>6, <1>9 DEF DiskTick
<1>10. CASE BackoffEnds
  <2>1. Keeps(monitor')
    <3>1. /\ monitor' \in Memory
          /\ monitor'.task = monitor.task
          /\ monitor'.transitions = monitor.transitions
          /\ monitor'.snapshot = monitor.snapshot
          /\ monitor'.eventCount = monitor.eventCount
      BY <1>10 DEF BackoffEnds, IInv, Kempt, Memory
    <3> QED BY <1>3, <1>10, <3>1 DEF Keeps, BackoffEnds, Kempt, Captured, Behind
  <2> QED BY <1>1, <1>2, <1>10, <2>1 DEF BackoffEnds
<1>11. CASE Stop
  BY <1>1, <1>2, <1>3, <1>11 DEF Stop
<1>12. CASE Finish
  BY <1>1, <1>2, <1>3, <1>4, <1>12 DEF Finish
<1>13. CASE Settle
  <2>1. Keeps(Completed(monitor))
    BY <1>1, <1>3, <1>13, CompletedKempt DEF Settle, Keeps
  <2> QED BY <1>1, <1>2, <1>4, <1>13, <2>1 DEF Settle
<1>14. CASE Close
  BY <1>1, <1>2, <1>3, <1>4, <1>14 DEF Close
<1>15. CASE Timeout
  <2>1. Keeps(monitor')
    <3>1. /\ monitor' \in Memory
          /\ monitor'.task = monitor.task
          /\ monitor'.transitions = monitor.transitions
          /\ monitor'.snapshot = monitor.snapshot
          /\ monitor'.eventCount = monitor.eventCount
      BY <1>15 DEF Timeout, IInv, Kempt, Memory
    <3> QED BY <1>3, <1>15, <3>1 DEF Keeps, Timeout, Kempt, Captured, Behind
  <2> QED BY <1>1, <1>2, <1>15, <2>1 DEF Timeout
<1>16. CASE Write
  <2>1. monitor.task \in Task /\ monitor.task.step \notin Finished
    BY <1>16 DEF Write, Writing, IInv, Kempt, Memory
  <2>2. After(monitor.task.step) \in Step /\ monitor' = [monitor EXCEPT !.task.step = After(monitor.task.step)]
    BY <1>16, <2>1 DEF Write, After, Step, Task, Finished
  <2> QED BY <1>16, <2>2, TaskStep DEF Write
<1>17. CASE Fault
  <2>1. "failed" \in Step
    BY DEF Step
  <2> QED BY <1>17, <2>1, TaskStep DEF Fault
<1>18. CASE Exit
  <2>1. Blank \in Snapshot
    BY DEF Blank, Snapshot
  <2>2. Kempt(Boot(Blank), recorded)
    BY <2>1, BootKempt DEF Blank
  <2> QED BY <1>18, <2>2 DEF Exit, IInv, DiskInv, disk, Kept!vars
<1>19. CASE Restart
  <2>1. Recovered = latest
    BY <1>1, NoneAssumption DEF Recovered
  <2>2. Keeps(Boot(latest))
    BY <1>1, BootKempt DEF Keeps, IInv, DiskInv
  <2> QED BY <1>1, <1>2, <1>19, <2>1, <2>2 DEF Restart
<1>20. CASE UNCHANGED vars
  BY <1>20 DEF vars, IInv, DiskInv, Kempt, Captured, Behind, Kept!vars
<1> QED BY <1>7, <1>8, <1>9, <1>10, <1>11, <1>12, <1>13, <1>14, <1>15, <1>16,
           <1>17, <1>18, <1>19, <1>20 DEF Next

LEMMA InitKeeps == ASSUME Marked PROVE Init => IInv /\ Kept!Init
<1>1. Blank \in Snapshot
  BY DEF Blank, Snapshot
<1>2. Kempt(Boot(Blank), {}) /\ Behind(Blank, Boot(Blank))
  BY <1>1, BootKempt DEF Blank
<1> QED BY <1>1, <1>2, ConstantsAssumption
        DEF Init, IInv, DiskInv, Blank, Kept!Init, Kept!Reflects

\* A transition the state reflects is still queued, is in an events file or is
\* counted as dropped: no acknowledgement, failed write, overflow, timeout or
\* restart loses one silently.
THEOREM NothingIsLost == ASSUME Marked PROVE Spec => []NothingLost
<1>1. Init => IInv
  BY InitKeeps
<1>2. IInv /\ [Next]_vars => IInv'
  BY StepKeeps
<1>3. IInv => NothingLost
  BY DEF IInv, Kempt, NothingLost
<1> QED BY <1>1, <1>2, <1>3, PTL DEF Spec

\* The files implement what Evidence promises: the marker only moves forward and
\* never ahead of the events.
THEOREM EvidenceIsKept == ASSUME Marked PROVE Spec => EvidenceKept
<1>1. Init => IInv /\ Kept!Init
  BY InitKeeps
<1>2. IInv /\ [Next]_vars => IInv' /\ [Kept!Next]_(Kept!vars)
  BY StepKeeps
<1> QED BY <1>1, <1>2, PTL DEF Spec, EvidenceKept, Kept!Spec

-----------------------------------------------------------------------------
(* The end of a clean run: finish publishes exactly what the monitor has.  *)

\* Past the latest step the marker is what the write captured.
MarkedBy(m) ==
    m.task # None /\ m.task.step \in {"trim", "done"} => latest = m.task.snapshot

\* The final write has captured all there is.
Whole(m) ==
    /\ m.task # None
    /\ m.task.snapshot = m.snapshot
    /\ m.eventCount = Len(m.transitions)

\* What the monitor ends with, unless it ends with a fault.
Ended(m) == m.task = None /\ m.transitions = <<>> /\ latest = m.snapshot

Final ==
    /\ MarkedBy(monitor)
    /\ phase = "closing" => Whole(monitor)
    /\ phase = "down" /\ ~monitor.fault => Ended(monitor)

LEMMA FinalParts ==
  ASSUME NEW m \in Memory, MarkedBy(m)
  PROVE  /\ \A new : MarkedBy(Appended(m, new))
         /\ MarkedBy(Started(m))
         /\ MarkedBy(Requested(m))
         /\ MarkedBy(FinalAsked(m))
         /\ MarkedBy(Polled(m))
<1>1. ASSUME NEW n, n.task = m.task PROVE MarkedBy(n)
  BY <1>1 DEF MarkedBy
<1>2. ASSUME NEW new PROVE MarkedBy(Appended(m, new))
  <2>1. Appended(m, new).task = m.task
    BY DEF Appended, Memory
  <2> HIDE DEF Appended
  <2> QED BY <1>1, <2>1
<1>3. Requested(m).task = m.task /\ FinalAsked(m).task = m.task
  BY DEF Requested, FinalAsked, Memory
<1>4. Polled(m).task \in {m.task, None}
  BY DEF Polled, Acknowledged, Failed, Memory
<1>5. MarkedBy(Started(m))
  <2>1. Started(m) = m \/ Started(m).task.step = "reserve"
    BY DEF Started, Memory
  <2> QED BY <2>1 DEF MarkedBy
<1> QED BY <1>1, <1>2, <1>3, <1>4, <1>5 DEF MarkedBy

\* finish starts its write, whatever was asked for or waited for before.
LEMMA FinalStarts ==
  ASSUME NEW m \in Memory, m.task = None
  PROVE  Whole(Started(FinalAsked(m))) /\ MarkedBy(Started(FinalAsked(m)))
<1> DEFINE f == FinalAsked(m)
           t == [step |-> "reserve", snapshot |-> m.snapshot, events |-> m.transitions]
           n == Started(f)
<1>1. /\ f \in Memory
      /\ f.task = None
      /\ f.requested
      /\ ~f.waiting
      /\ f.snapshot = m.snapshot
      /\ f.transitions = m.transitions
  BY DEF FinalAsked, Memory
<1> HIDE DEF f
<1>2. n = [f EXCEPT !.requested = FALSE, !.eventCount = Len(f.transitions), !.task = t]
  BY <1>1 DEF Started
<1>3. t \in Task
  BY DEF Memory, Task, Step
<1>4. t.snapshot = m.snapshot /\ t.step = "reserve"
  OBVIOUS
<1> HIDE DEF t
<1>5. /\ n.task = t
      /\ n.snapshot = m.snapshot
      /\ n.transitions = m.transitions
      /\ n.eventCount = Len(m.transitions)
  BY <1>1, <1>2 DEF Memory
<1> HIDE DEF n
<1>6. Whole(n) /\ MarkedBy(n)
  BY <1>3, <1>4, <1>5, NoneAssumption DEF Whole, MarkedBy
<1> QED BY <1>6 DEF n, f

\* An acknowledgement of all there is leaves nothing queued.
LEMMA FinalEnds ==
  ASSUME NEW m \in Memory, Whole(m), MarkedBy(m), IsFinished(m), ~Polled(m).fault
  PROVE  Ended(Polled(m))
<1>1. m.task \in Task
  BY DEF Whole, Memory
<1>2. CASE m.task.step = "done"
  <2>1. Polled(m) = [Acknowledged(m) EXCEPT !.fault = FALSE]
    BY <1>2 DEF Polled
  <2>2. Lesser(m.eventCount, Len(m.transitions)) = Len(m.transitions)
    BY DEF Whole, Lesser, Memory
  <2>3. SubSeq(m.transitions, Len(m.transitions) + 1, Len(m.transitions)) = <<>>
    BY DEF Memory
  <2>4. Polled(m).task = None /\ Polled(m).transitions = <<>> /\ Polled(m).snapshot = m.snapshot
    BY <2>1, <2>2, <2>3 DEF Acknowledged, Memory
  <2>5. latest = m.snapshot
    BY <1>2 DEF MarkedBy, Whole
  <2> QED BY <2>4, <2>5 DEF Ended
<1>3. CASE m.task.step # "done"
  <2>1. Polled(m) = [Failed(m) EXCEPT !.fault = TRUE]
    BY <1>3 DEF Polled
  <2>2. Polled(m).fault
    BY <2>1 DEF Failed, Memory
  <2> QED BY <2>2
<1> QED BY <1>2, <1>3

LEMMA FinalHolds == IInv /\ Final /\ [Next]_vars => Final'
<1> SUFFICES ASSUME IInv, Final, [Next]_vars PROVE Final'
  OBVIOUS
<1>1. monitor \in Memory
  BY DEF IInv, Kempt
<1>2. MarkedBy(monitor)
  BY DEF Final
\* While the monitor runs, only what the marker was written by matters.
<1>3. ASSUME latest' = latest, phase' \in {"up", "draining", "settling", "off"},
             MarkedBy(monitor')
      PROVE  Final'
  BY <1>3 DEF Final, MarkedBy
<1>4. ASSUME phase = "up", UNCHANGED <<phase, disk>>, NEW n \in Batches,
             \/ monitor' = Appended(monitor, Batch(n))
             \/ monitor' = Started(Requested(Appended(monitor, Batch(n))))
             \/ monitor' = Started(Polled(Appended(monitor, Batch(n))))
      PROVE  Final'
  <2> DEFINE m == Appended(monitor, Batch(n))
  <2>1. m \in Memory /\ MarkedBy(m)
    <3>1. Kempt(m, recorded)
      BY <1>4, Batched, AppendedKempt DEF IInv, DiskInv
    <3> QED BY <1>1, <1>2, <3>1, FinalParts DEF Kempt
  <2> HIDE DEF m
  <2>2. Requested(m) \in Memory /\ MarkedBy(Requested(m))
    BY <2>1, FinalParts DEF Requested, Memory
  <2>3. Polled(m) \in Memory /\ MarkedBy(Polled(m))
    <3>1. Kempt(Appended(monitor, Batch(n)), recorded) /\ Behind(latest, Appended(monitor, Batch(n)))
      BY <1>4, Batched, AppendedKempt DEF IInv, DiskInv
    <3>2. Kempt(Polled(m), recorded)
      BY <3>1, PolledKempt DEF IInv, DiskInv, m
    <3> QED BY <2>1, <3>2, FinalParts DEF Kempt
  <2>4. MarkedBy(m) /\ MarkedBy(Started(Requested(m))) /\ MarkedBy(Started(Polled(m)))
    BY <2>1, <2>2, <2>3, FinalParts
  <2> QED BY <1>3, <1>4, <2>4 DEF m, disk
<1>5. CASE Collect
  <2>1. PICK n \in Batches \ {0} : monitor' = Appended(monitor, Batch(n))
    BY <1>5 DEF Collect
  <2>2. MarkedBy(monitor')
    BY <1>1, <1>2, <2>1, FinalParts
  <2> QED BY <1>3, <1>5, <2>2 DEF Collect, disk
<1>6. CASE HistoryTick
  BY <1>4, <1>6 DEF HistoryTick
<1>7. CASE DiskTick
  BY <1>4, <1>7 DEF DiskTick
<1>8. CASE BackoffEnds
  <2>1. /\ monitor'.task = monitor.task
        /\ monitor'.transitions = monitor.transitions
        /\ monitor'.snapshot = monitor.snapshot
        /\ monitor'.eventCount = monitor.eventCount
        /\ monitor'.fault = monitor.fault
    BY <1>1, <1>8 DEF BackoffEnds, Memory
  <2>2. phase' = phase /\ latest' = latest
    BY <1>8 DEF BackoffEnds, disk
  <2> QED BY <2>1, <2>2 DEF Final, MarkedBy, Whole, Ended
<1>9. CASE Stop
  BY <1>2, <1>3, <1>9 DEF Stop, disk
<1>10. CASE Finish
  <2>1. CASE monitor.task # None
    BY <1>2, <1>3, <1>10, <2>1 DEF Finish, disk
  <2>2. CASE monitor.task = None
    <3>1. Whole(monitor') /\ MarkedBy(monitor')
      BY <1>1, <1>10, <2>2, FinalStarts DEF Finish
    <3> QED BY <1>10, <2>2, <3>1 DEF Finish, disk, Final, MarkedBy
  <2> QED BY <2>1, <2>2
<1>11. CASE Settle
  <2>1. Completed(monitor) \in Memory /\ Completed(monitor).task = None
    <3>1. Kempt(Completed(monitor), recorded)
      BY <1>11, CompletedKempt DEF Settle, IInv, DiskInv
    <3> QED BY <1>1, <3>1 DEF Completed, Acknowledged, Failed, Memory, Kempt
  <2>2. Whole(monitor') /\ MarkedBy(monitor')
    BY <1>11, <2>1, FinalStarts DEF Settle
  <2> QED BY <1>11, <2>2 DEF Settle, disk, Final, MarkedBy
<1>12. CASE Close
  <2>1. Whole(monitor) /\ IsFinished(monitor) /\ monitor' = Polled(monitor)
        /\ phase' = "down" /\ latest' = latest
    BY <1>12 DEF Close, Final, disk
  <2>2. MarkedBy(Polled(monitor)) /\ (~Polled(monitor).fault => Ended(Polled(monitor)))
    BY <1>1, <1>2, <2>1, FinalParts, FinalEnds
  <2> QED BY <2>1, <2>2 DEF Final, MarkedBy, Ended
<1>13. CASE Timeout
  <2>1. monitor'.task = monitor.task /\ monitor'.fault /\ phase' = "down" /\ latest' = latest
    BY <1>1, <1>13 DEF Timeout, Memory, disk
  <2> QED BY <1>2, <2>1 DEF Final, MarkedBy
<1>14. ASSUME Writing, NEW next \in Step, next = "failed" \/ next = After(monitor.task.step),
              monitor' = [monitor EXCEPT !.task.step = next], phase' = phase,
              Effect(monitor.task) \/ (next = "failed" /\ UNCHANGED disk)
       PROVE  Final'
  <2>1. monitor.task \in Task /\ monitor.task # None /\ monitor.task.step \notin Finished
    BY <1>1, <1>14 DEF Writing, Memory
  <2>2. /\ monitor'.task = [monitor.task EXCEPT !.step = next]
        /\ monitor'.transitions = monitor.transitions
        /\ monitor'.snapshot = monitor.snapshot
        /\ monitor'.eventCount = monitor.eventCount
        /\ monitor'.fault = monitor.fault
    BY <1>1, <1>14, <2>1 DEF Memory
  <2>3. /\ monitor'.task \in Task
        /\ monitor'.task.step = next
        /\ monitor'.task.snapshot = monitor.task.snapshot
        /\ monitor'.task # None
    BY <2>1, <2>2, NoneAssumption DEF Task
  <2>4. next \in {"trim", "done"} =>
           \/ monitor.task.step = "latest" /\ next = "trim" /\ latest' = monitor.task.snapshot
           \/ monitor.task.step = "trim" /\ next = "done" /\ latest' = latest
    BY <1>14, <2>1 DEF After, Effect, Task, Step, Finished
  <2>5. MarkedBy(monitor)'
    BY <1>2, <2>1, <2>3, <2>4 DEF MarkedBy
  <2>6. phase = "closing" => Whole(monitor')
    BY <2>2, <2>3 DEF Final, Whole
  <2>7. phase = "down" => monitor'.fault
    BY <2>1, <2>2, NoneAssumption DEF Final, Ended
  <2> QED BY <1>14, <2>5, <2>6, <2>7 DEF Final
<1>15. CASE Write
  <2>1. monitor.task \in Task /\ monitor.task.step \notin Finished
    BY <1>1, <1>15 DEF Write, Writing, Memory
  <2>2. After(monitor.task.step) \in Step /\ monitor' = [monitor EXCEPT !.task.step = After(monitor.task.step)]
    BY <1>15, <2>1 DEF Write, After, Step, Task, Finished
  <2> QED BY <1>14, <1>15, <2>2 DEF Write
<1>16. CASE Fault
  <2>1. "failed" \in Step
    BY DEF Step
  <2> QED BY <1>14, <1>16, <2>1 DEF Fault
<1>17. CASE Exit
  BY <1>3, <1>17 DEF Exit, Boot, MarkedBy, disk
<1>18. CASE Restart
  BY <1>3, <1>18 DEF Restart, Boot, MarkedBy, disk
<1>19. CASE UNCHANGED vars
  BY <1>19 DEF vars, Final, MarkedBy, Whole, Ended
<1> QED BY <1>5, <1>6, <1>7, <1>8, <1>9, <1>10, <1>11, <1>12, <1>13, <1>15, <1>16, <1>17,
           <1>18, <1>19 DEF Next

\* A monitor that ends without a persistence fault has published its final state:
\* the marker is the snapshot in memory, the queue is empty and every transition is
\* in an events file or counted as dropped, whether or not a write was under way or
\* backed off when it was stopped (supervise.rs, finish; publication.rs, finish).
THEOREM EndIsClean == ASSUME Marked PROVE Spec => []CleanEnd
<1>1. Init => IInv /\ Final
  BY InitKeeps DEF Init, Final, MarkedBy, Boot
<1>2. IInv /\ Final /\ [Next]_vars => IInv' /\ Final'
  BY StepKeeps, FinalHolds
<1>3. IInv /\ Final => CleanEnd
  BY DEF IInv, DiskInv, Final, Ended, CleanEnd
<1> QED BY <1>1, <1>2, <1>3, PTL DEF Spec


-----------------------------------------------------------------------------
(* The loop of the admission goes round all entries, wherever it begins. *)

LEMMA Remainder ==
  ASSUME NEW n \in Nat \ {0}, NEW q \in Int, NEW r \in 0 .. n - 1
  PROVE  (n * q + r) % n = r
  OBVIOUS

LEMMA NextEntry == \A n \in Nat \ {0}, c \in Nat : (c + 1) % n \in Nat
  OBVIOUS

LEMMA EveryEntryComes ==
  ASSUME NEW n \in Nat \ {0}, NEW c \in Nat, NEW j \in 1 .. n
  PROVE  \E i \in 0 .. n - 1 : 1 + ((c + i) % n) = j
<1> DEFINE r == c % n
           q == c \div n
<1>1. q \in Int /\ r \in 0 .. n - 1 /\ c = n * q + r
  OBVIOUS
<1> HIDE DEF r, q
<1>2. CASE j - 1 >= r
  <2>1. (n * q + (j - 1)) % n = j - 1
    BY <1>1, Remainder
  <2>2. c + (j - 1 - r) = n * q + (j - 1) /\ j - 1 - r \in 0 .. n - 1
    BY <1>1, <1>2
  <2>3. (c + (j - 1 - r)) % n = j - 1
    BY <2>1, <2>2
  <2> USE <2>2
  <2> WITNESS j - 1 - r \in 0 .. n - 1
  <2> QED BY <2>3
<1>3. CASE j - 1 < r
  <2>1. (n * (q + 1) + (j - 1)) % n = j - 1
    BY <1>1, Remainder
  <2>2. c + (n + j - 1 - r) = n * (q + 1) + (j - 1) /\ n + j - 1 - r \in 0 .. n - 1
    BY <1>1, <1>3
  <2>3. (c + (n + j - 1 - r)) % n = j - 1
    BY <2>1, <2>2
  <2> USE <2>2
  <2> WITNESS n + j - 1 - r \in 0 .. n - 1
  <2> QED BY <2>3
<1> QED BY <1>1, <1>2, <1>3

-----------------------------------------------------------------------------
(* Slots are counted by the keys of the tasks: what a task becomes while   *)
(* it runs makes no difference to them.                                    *)

KeysIn(ts, s) == {t.key : t \in {u \in ts : u.scope = s}}
Unique(ts) == \A t, u \in ts : t.key = u.key => t = u

\* The tasks of the loop, while it goes round.
Bookkept ==
    place \notin {"cleanup", "done"} =>
        /\ Unique(tasks)
        /\ running = {t.key : t \in tasks}
        /\ \A s \in Scope : used[s] = Cardinality(KeysIn(tasks, s))

\* What is sent is a result.
Typed == SchedulerType /\ (place = "sending" => outbox \in JobTask)

SchedulerInv == Typed /\ Bookkept /\ RemovedAreCancelled

LEMMA KeysCount ==
  ASSUME NEW ts \in SUBSET JobTask, Unique(ts), IsFiniteSet(Key), NEW s \in Scope
  PROVE  Cardinality({t \in ts : t.scope = s}) = Cardinality(KeysIn(ts, s))
<1> DEFINE S == {t \in ts : t.scope = s}
           K == KeysIn(ts, s)
           f == [k \in K |-> CHOOSE t \in S : t.key = k]
<1>1. IsFiniteSet(K)
  BY FS_Subset DEF KeysIn, JobTask
<1>2. \A k \in K : f[k] \in S /\ f[k].key = k
  BY DEF KeysIn
<1>3. \A t \in S : t.key \in K /\ f[t.key] = t
  BY <1>2 DEF KeysIn, Unique
<1> HIDE DEF f, K
<1>4. f \in Bijection(K, S)
  <2>1. f \in [K -> S]
    BY <1>2 DEF f
  <2>2. \A j, k \in K : f[j] = f[k] => j = k
    BY <1>2
  <2>3. \A t \in S : \E k \in K : f[k] = t
    BY <1>3
  <2> HIDE DEF S
  <2> QED BY <2>1, <2>2, <2>3, Fun_IsBij
<1> QED BY <1>1, <1>4, FS_Bijection DEF ExistsBijection, K

-----------------------------------------------------------------------------
(* Types. *)

LEMMA ScopesOf ==
  ASSUME SchedulerConstants, NEW c \in Configs
  PROVE  /\ c.rev \in Nat /\ c.scope \in [Key -> Scope]
         /\ c.jobs \in Seq(Key) /\ Len(c.jobs) \in Nat \ {0}
<1>1. c \in Config /\ c.jobs # <<>>
  BY DEF SchedulerConstants
<1>2. c.rev \in Nat /\ c.scope \in [Key -> Scope] /\ c.jobs \in Seq(Key)
  BY <1>1 DEF Config
<1> QED BY <1>1, <1>2

LEMMA TaskMoves ==
  ASSUME NEW t \in JobTask
  PROVE  /\ t.key \in Key /\ t.scope \in Scope
         /\ \A c \in BOOLEAN : [t EXCEPT !.cancelled = c] \in JobTask
         /\ \A x \in Status : [t EXCEPT !.status = x] \in JobTask
  BY DEF JobTask

LEMMA AdmittedAreNew ==
  ASSUME SchedulerConstants, SchedulerType,
         NEW ks \in SUBSET Jobs(current), IsAdmission(ks)
  PROVE  ks \subseteq Key /\ ks \cap running = {}
<1> DEFINE n == Len(current.jobs)
<1>1. current.jobs \in Seq(Key) /\ n \in Nat \ {0}
  BY ScopesOf DEF SchedulerType
<1>2. ks \subseteq Key
  BY <1>1 DEF Jobs
<1>3. ASSUME NEW k \in ks PROVE k \notin running
  <2>1. PICK j \in 1 .. n : current.jobs[j] = k
    BY <1>1 DEF Jobs
  <2>2. PICK i \in 0 .. n - 1 : 1 + ((cursor + i) % n) = j
    BY <1>1, EveryEntryComes DEF SchedulerType
  <2>3. Nth(i) = k
    BY <2>1, <2>2 DEF Nth
  <2> QED BY <1>3, <2>3 DEF IsAdmission, Fits
<1> QED BY <1>2, <1>3

LEMMA TypeHolds ==
  ASSUME SchedulerConstants, EmptyAssumption, Typed, [SchedulerNext]_schedulerVars
  PROVE  Typed'
<1> USE DEF drive, channels, supervisor
<1>0. SchedulerType /\ (place = "sending" => outbox \in JobTask)
  BY DEF Typed
<1>1. CASE Admit
  <2>1. PICK ks \in SUBSET Jobs(current) : IsAdmission(ks) /\ Spawned(ks)
    BY <1>1 DEF Admit
  <2>2. ks \subseteq Key /\ IsFiniteSet(Key)
    BY <1>0, <2>1, AdmittedAreNew DEF SchedulerConstants
  <2>3. current \in Configs /\ current.rev \in Nat /\ current.scope \in [Key -> Scope]
        /\ Len(current.jobs) \in Nat \ {0}
    BY <1>0, ScopesOf DEF SchedulerType
  <2>4. \A s \in Scope : Cardinality(InScope(ks, s)) \in Nat
    <3> TAKE s \in Scope
    <3>1. InScope(ks, s) \in SUBSET Key
      BY <2>2 DEF InScope
    <3> QED BY <2>2, <3>1, FS_Subset, FS_CardinalityType
  <2>5. used' \in [Scope -> Nat]
    BY <1>0, <2>1, <2>4 DEF Spawned, SchedulerType
  <2>6. \A k \in ks : NewTask(k) \in JobTask
    BY <2>2, <2>3 DEF NewTask, JobTask, Status
  <2>7. tasks' \subseteq JobTask
    BY <1>0, <2>1, <2>6 DEF Spawned, SchedulerType
  <2>8. due' \in [Key -> BOOLEAN] /\ samples' \in [Key -> Nat] /\ running' \subseteq Key
    BY <1>0, <2>1, <2>2 DEF Spawned, SchedulerType
  <2>9. cursor' \in Nat
    <3>1. cursor' = (cursor + 1) % Len(current.jobs) /\ cursor \in Nat
      BY <1>0, <1>1 DEF Admit, SchedulerType
    <3> QED BY <2>3, <3>1, NextEntry
  <2>10. place' \in Place /\ place' # "sending"
    BY <1>1 DEF Admit, Place
  <2> QED BY <1>0, <1>1, <2>5, <2>7, <2>8, <2>9, <2>10 DEF Admit, SchedulerType, Typed
<1>2. CASE EndLoop
  <2>1. tasks' \subseteq JobTask
    BY <1>0, <1>2, TaskMoves DEF EndLoop, Leave, SchedulerType
  <2> QED BY <1>0, <1>2, <2>1 DEF EndLoop, Leave, SchedulerType, Typed, Place
<1>3. CASE Wake
  BY <1>0, <1>3 DEF Wake, SchedulerType, Typed, Place
<1>4. CASE Update
  <2>1. tasks' \subseteq JobTask
    <3>1. ASSUME NEW t \in tasks
          PROVE  [t EXCEPT !.cancelled = @ \/ t.key \notin Jobs(updated)] \in JobTask
      <4>1. t \in JobTask
        BY <1>0 DEF SchedulerType
      <4>2. (t.cancelled \/ t.key \notin Jobs(updated)) \in BOOLEAN
        OBVIOUS
      <4> QED BY <4>1, <4>2, TaskMoves
    <3> QED BY <1>4, <3>1 DEF Update, RemainingTasks
  <2> QED BY <1>0, <1>4, <2>1 DEF Update, SchedulerType, Typed, Place
<1>5. CASE Join
  <2>1. PICK t \in tasks :
           /\ tasks' = tasks \ {t} /\ running' = running \ {t.key} /\ used' = Released(t)
           /\ IF IsCurrent(t, current) THEN place' = "sending" /\ outbox' = t
              ELSE place' = "top" /\ UNCHANGED outbox
    BY <1>5 DEF Join
  <2>2. t \in JobTask /\ used' \in [Scope -> Nat]
    <3>1. t \in JobTask /\ t.scope \in Scope /\ used \in [Scope -> Nat]
      BY <1>0, TaskMoves DEF SchedulerType
    <3>2. used[t.scope] \in Nat
      BY <3>1
    <3>3. (IF used[t.scope] > 0 THEN used[t.scope] - 1 ELSE 0) \in Nat
      BY <3>2
    <3> QED BY <2>1, <3>1, <3>3 DEF Released
  <2>3. place' \in Place /\ outbox' \in JobTask \cup {Empty} /\ (place' = "sending" => outbox' \in JobTask)
    BY <1>0, <2>1, <2>2 DEF Place, SchedulerType
  <2> QED BY <1>0, <1>5, <2>1, <2>2, <2>3 DEF Join, SchedulerType, Typed
<1>6. CASE Send
  <2>1. output' \in Seq(JobTask) /\ Len(output') <= Capacity
    <3>1. outbox \in JobTask /\ output \in Seq(JobTask) /\ Len(output) < Capacity
          /\ output' = Append(output, outbox) /\ Capacity \in Nat
      BY <1>0, <1>6 DEF Send, SchedulerType, SchedulerConstants
    <3> QED BY <3>1
  <2> QED BY <1>0, <1>6, <2>1 DEF Send, SchedulerType, Typed, Place
<1>7. CASE Drain
  <2>1. output' \in Seq(JobTask) /\ Len(output') <= Capacity
    <3>1. PICK t \in tasks : output' = Append(output, t)
      BY <1>7 DEF Drain
    <3>2. t \in JobTask /\ output \in Seq(JobTask) /\ Len(output) < Capacity /\ Capacity \in Nat
      BY <1>0, <1>7, <3>1 DEF Drain, SchedulerType, SchedulerConstants
    <3> QED BY <3>1, <3>2
  <2> QED BY <1>0, <1>7, <2>1 DEF Drain, SchedulerType, Typed
<1>8. CASE End
  BY <1>0, <1>8 DEF End, SchedulerType, Typed, Place
<1>9. CASE Abort
  BY <1>0, <1>9 DEF Abort, SchedulerType, Typed, Place
<1>10. ASSUME NEW t \in tasks, Gather(t) \/ GiveUp(t) PROVE Typed'
  <2>1. tasks' \subseteq JobTask
    BY <1>0, <1>10, TaskMoves DEF Gather, GiveUp, SchedulerType, Status
  <2> QED BY <1>0, <1>10, <2>1 DEF Gather, GiveUp, SchedulerType, Typed
<1>11. ASSUME NEW k \in Key, Elapse(k) PROVE Typed'
  BY <1>0, <1>11 DEF Elapse, SchedulerType, Typed
<1>12. ASSUME NEW c \in Configs, Reload(c) PROVE Typed'
  BY <1>0, <1>12 DEF Reload, SchedulerType, Typed, SchedulerConstants
<1>13. CASE SignalStop
  BY <1>0, <1>13 DEF SignalStop, SchedulerType, Typed
<1>14. CASE Receive
  <2>1. output' \in Seq(JobTask) /\ Len(output') <= Capacity
    <3>1. output \in Seq(JobTask) /\ output # <<>> /\ output' = Tail(output)
          /\ Len(output) <= Capacity /\ Capacity \in Nat
      BY <1>0, <1>14 DEF Receive, SchedulerType, SchedulerConstants
    <3> QED BY <3>1
  <2>2. answered' \in [Key -> Nat]
    <3>1. CASE answered' = answered
      BY <1>0, <3>1 DEF SchedulerType
    <3>2. CASE answered' = [answered EXCEPT ![Head(output).key] = @ + 1]
      <4>1. output \in Seq(JobTask) /\ output # <<>>
        BY <1>0, <1>14 DEF Receive, SchedulerType
      <4>2. Head(output).key \in Key
        BY <4>1, TaskMoves
      <4>3. answered \in [Key -> Nat]
        BY <1>0 DEF SchedulerType
      <4> QED BY <3>2, <4>2, <4>3
    <3> QED BY <1>14, <3>1, <3>2 DEF Receive
  <2> QED BY <1>0, <1>14, <2>1, <2>2 DEF Receive, SchedulerType, Typed
<1>15. CASE UNCHANGED schedulerVars
  BY <1>0, <1>15 DEF schedulerVars, SchedulerType, Typed
<1> QED BY <1>1, <1>2, <1>3, <1>4, <1>5, <1>6, <1>7, <1>8, <1>9, <1>10, <1>11, <1>12, <1>13,
           <1>14, <1>15 DEF SchedulerNext

-----------------------------------------------------------------------------
(* The books. *)

\* What a task becomes leaves the books as they are.
LEMMA SameKeys ==
  ASSUME Bookkept, NEW m, tasks' = {m[t] : t \in tasks}, UNCHANGED <<running, used>>,
         \A t \in tasks : m[t].key = t.key /\ m[t].scope = t.scope,
         place' \notin {"cleanup", "done"} => place \notin {"cleanup", "done"}
  PROVE  Bookkept'
<1> SUFFICES ASSUME place' \notin {"cleanup", "done"}
             PROVE  /\ Unique(tasks')
                    /\ running' = {t.key : t \in tasks'}
                    /\ \A s \in Scope : used'[s] = Cardinality(KeysIn(tasks', s))
  BY DEF Bookkept
<1>1. /\ Unique(tasks)
      /\ running = {t.key : t \in tasks}
      /\ \A s \in Scope : used[s] = Cardinality(KeysIn(tasks, s))
  BY DEF Bookkept
<1>2. Unique(tasks')
  BY <1>1 DEF Unique
<1>3. running' = {t.key : t \in tasks'}
  BY <1>1
<1>4. \A s \in Scope : KeysIn(tasks', s) = KeysIn(tasks, s)
  BY DEF KeysIn
<1> QED BY <1>1, <1>2, <1>3, <1>4

LEMMA BooksHold ==
  ASSUME SchedulerConstants, EmptyAssumption, Typed, Bookkept, [SchedulerNext]_schedulerVars
  PROVE  Bookkept'
<1> USE DEF drive, channels, supervisor
<1>0. SchedulerType /\ IsFiniteSet(Key)
  BY DEF Typed, SchedulerConstants
<1>1. CASE Admit
  <2>1. PICK ks \in SUBSET Jobs(current) : IsAdmission(ks) /\ Spawned(ks)
    BY <1>1 DEF Admit
  <2>2. ks \subseteq Key /\ ks \cap running = {}
    BY <1>0, <2>1, AdmittedAreNew
  <2>3. /\ Unique(tasks)
        /\ running = {t.key : t \in tasks}
        /\ \A s \in Scope : used[s] = Cardinality(KeysIn(tasks, s))
    BY <1>1 DEF Admit, Bookkept
  <2>4. /\ tasks' = tasks \cup {NewTask(k) : k \in ks}
        /\ running' = running \cup ks
        /\ \A k \in ks : NewTask(k).key = k /\ NewTask(k).scope = current.scope[k]
    BY <2>1 DEF Spawned, NewTask
  <2>5. Unique(tasks') /\ running' = {t.key : t \in tasks'}
    BY <2>2, <2>3, <2>4 DEF Unique
  <2>6. ASSUME NEW s \in Scope PROVE used'[s] = Cardinality(KeysIn(tasks', s))
    <3>1. used'[s] = used[s] + Cardinality(InScope(ks, s))
      BY <2>1 DEF Spawned
    <3>2. KeysIn(tasks', s) = KeysIn(tasks, s) \cup InScope(ks, s)
      BY <2>4 DEF KeysIn, InScope
    <3>3. KeysIn(tasks, s) \cap InScope(ks, s) = {}
      BY <2>2, <2>3 DEF KeysIn, InScope
    <3>4. IsFiniteSet(KeysIn(tasks, s)) /\ IsFiniteSet(InScope(ks, s))
      <4>1. KeysIn(tasks, s) \in SUBSET Key /\ InScope(ks, s) \in SUBSET Key
        BY <1>0, <2>2, TaskMoves DEF KeysIn, InScope, SchedulerType
      <4> QED BY <1>0, <4>1, FS_Subset
    <3>5. Cardinality(KeysIn(tasks, s) \cup InScope(ks, s))
            = Cardinality(KeysIn(tasks, s)) + Cardinality(InScope(ks, s))
      <4>1. Cardinality(KeysIn(tasks, s) \cup InScope(ks, s))
              = Cardinality(KeysIn(tasks, s)) + Cardinality(InScope(ks, s))
                - Cardinality(KeysIn(tasks, s) \cap InScope(ks, s))
        BY <3>4, FS_Union
      <4>2. Cardinality(KeysIn(tasks, s) \cap InScope(ks, s)) = 0
        BY <3>3, FS_EmptySet
      <4>3. Cardinality(KeysIn(tasks, s)) \in Nat /\ Cardinality(InScope(ks, s)) \in Nat
        BY <3>4, FS_CardinalityType
      <4> QED BY <4>1, <4>2, <4>3
    <3> QED BY <2>3, <3>1, <3>2, <3>5
  <2> QED BY <2>5, <2>6 DEF Bookkept
<1>2. CASE EndLoop
  BY <1>2 DEF EndLoop, Leave, Bookkept
<1>3. CASE Wake
  BY <1>3 DEF Wake, Bookkept, Unique, KeysIn
<1>4. CASE Update
  <2> DEFINE m == [t \in tasks |-> [t EXCEPT !.cancelled = @ \/ t.key \notin Jobs(updated)]]
  <2>1. tasks' = {m[t] : t \in tasks} /\ UNCHANGED <<running, used>>
        /\ place \notin {"cleanup", "done"}
    BY <1>4 DEF Update, RemainingTasks
  <2>2. \A t \in tasks : m[t].key = t.key /\ m[t].scope = t.scope
    BY <1>0 DEF SchedulerType, JobTask
  <2> HIDE DEF m
  <2> QED BY <2>1, <2>2, SameKeys
<1>5. CASE Join
  <2>1. PICK t \in tasks :
           tasks' = tasks \ {t} /\ running' = running \ {t.key} /\ used' = Released(t)
    BY <1>5 DEF Join
  <2>2. /\ Unique(tasks)
        /\ running = {u.key : u \in tasks}
        /\ \A s \in Scope : used[s] = Cardinality(KeysIn(tasks, s))
    BY <1>5 DEF Join, Bookkept
  <2>3. Unique(tasks') /\ running' = {u.key : u \in tasks'}
    BY <2>1, <2>2 DEF Unique
  <2>4. ASSUME NEW s \in Scope PROVE used'[s] = Cardinality(KeysIn(tasks', s))
    <3>1. KeysIn(tasks, s) \in SUBSET Key
      BY <1>0, TaskMoves DEF KeysIn, SchedulerType
    <3>2. IsFiniteSet(KeysIn(tasks, s)) /\ Cardinality(KeysIn(tasks, s)) \in Nat
      BY <1>0, <3>1, FS_Subset, FS_CardinalityType
    <3>3. t \in JobTask /\ used \in [Scope -> Nat]
      BY <1>0 DEF SchedulerType
    <3>4. CASE t.scope = s
      <4>1. KeysIn(tasks', s) = KeysIn(tasks, s) \ {t.key} /\ t.key \in KeysIn(tasks, s)
        BY <2>1, <2>2, <3>4 DEF KeysIn, Unique
      <4>2. Cardinality(KeysIn(tasks', s)) = Cardinality(KeysIn(tasks, s)) - 1
        BY <3>2, <4>1, FS_RemoveElement
      <4>3. Cardinality(KeysIn(tasks, s)) # 0
        BY <3>2, <4>1, FS_EmptySet
      <4>4. used'[s] = IF used[s] > 0 THEN used[s] - 1 ELSE 0
        BY <2>1, <3>3, <3>4 DEF Released
      <4> QED BY <2>2, <3>2, <4>2, <4>3, <4>4
    <3>5. CASE t.scope # s
      <4>1. KeysIn(tasks', s) = KeysIn(tasks, s)
        BY <2>1, <3>5 DEF KeysIn
      <4>2. used'[s] = used[s]
        BY <2>1, <3>3, <3>5 DEF Released
      <4> QED BY <2>2, <4>1, <4>2
    <3> QED BY <3>4, <3>5
  <2> QED BY <2>3, <2>4 DEF Bookkept
<1>6. CASE Send
  BY <1>6 DEF Send, Bookkept, Unique, KeysIn
<1>7. CASE Drain
  BY <1>7 DEF Drain, Bookkept
<1>8. CASE End
  BY <1>8 DEF End, Bookkept
<1>9. CASE Abort
  BY <1>9 DEF Abort, Bookkept
<1>10. ASSUME NEW t \in tasks, Gather(t) \/ GiveUp(t) PROVE Bookkept'
  <2>1. PICK x \in Status : tasks' = (tasks \ {t}) \cup {[t EXCEPT !.status = x]}
                            /\ UNCHANGED <<running, used, place>>
    BY <1>10 DEF Gather, GiveUp, Status
  <2> DEFINE m == [u \in tasks |-> IF u = t THEN [t EXCEPT !.status = x] ELSE u]
  <2>2. tasks' = {m[u] : u \in tasks}
    BY <2>1
  <2>3. \A u \in tasks : m[u].key = u.key /\ m[u].scope = u.scope
    BY <1>0 DEF SchedulerType, JobTask
  <2> HIDE DEF m
  <2> QED BY <2>1, <2>2, <2>3, SameKeys
<1>11. ASSUME NEW k \in Key, Elapse(k) PROVE Bookkept'
  BY <1>11 DEF Elapse, Bookkept, Unique, KeysIn
<1>12. ASSUME NEW c \in Configs, Reload(c) PROVE Bookkept'
  BY <1>12 DEF Reload, Bookkept, Unique, KeysIn
<1>13. CASE SignalStop
  BY <1>13 DEF SignalStop, Bookkept, Unique, KeysIn
<1>14. CASE Receive
  BY <1>14 DEF Receive, Bookkept, Unique, KeysIn
<1>15. CASE UNCHANGED schedulerVars
  BY <1>15 DEF schedulerVars, Bookkept, Unique, KeysIn
<1> QED BY <1>1, <1>2, <1>3, <1>4, <1>5, <1>6, <1>7, <1>8, <1>9, <1>10, <1>11, <1>12, <1>13,
           <1>14, <1>15 DEF SchedulerNext

-----------------------------------------------------------------------------
(* What a reload removed. *)

LEMMA RemovedHold ==
  ASSUME SchedulerConstants, EmptyAssumption, Typed, RemovedAreCancelled, [SchedulerNext]_schedulerVars
  PROVE  RemovedAreCancelled'
<1> USE DEF drive, channels, supervisor
<1>0. tasks \subseteq JobTask
  BY DEF Typed, SchedulerType
<1>1. CASE Admit
  <2>1. PICK ks \in SUBSET Jobs(current) : Spawned(ks)
    BY <1>1 DEF Admit
  <2>2. \A k \in ks : NewTask(k).key \in Jobs(current)
    BY <2>1 DEF NewTask
  <2>3. tasks' = tasks \cup {NewTask(k) : k \in ks} /\ current' = current
    BY <1>1, <2>1 DEF Admit, Spawned
  <2> QED BY <2>2, <2>3 DEF RemovedAreCancelled, Jobs
<1>2. CASE EndLoop
  <2>1. \A t \in tasks : [t EXCEPT !.cancelled = TRUE].cancelled
    BY <1>0 DEF JobTask
  <2> QED BY <1>2, <2>1 DEF EndLoop, Leave, RemovedAreCancelled
<1>3. CASE Update
  <2> DEFINE m == [t \in tasks |-> [t EXCEPT !.cancelled = @ \/ t.key \notin Jobs(updated)]]
  <2>1. tasks' = {m[t] : t \in tasks} /\ current' = updated
    BY <1>3 DEF Update, RemainingTasks
  <2>2. ASSUME NEW t \in tasks, t.key \notin Jobs(updated) PROVE m[t].cancelled
    <3>1. m[t].cancelled = (t.cancelled \/ t.key \notin Jobs(updated))
      BY <1>0 DEF JobTask
    <3> HIDE DEF m
    <3> QED BY <2>2, <3>1
  <2>3. \A t \in tasks : m[t].key = t.key
    BY <1>0 DEF JobTask
  <2> HIDE DEF m
  <2> SUFFICES ASSUME NEW u \in tasks', u.key \notin Jobs(updated) PROVE u.cancelled
    BY <2>1 DEF RemovedAreCancelled, Jobs
  <2>4. PICK t \in tasks : u = m[t]
    BY <2>1
  <2> QED BY <2>2, <2>3, <2>4
<1>4. ASSUME tasks' \subseteq tasks, current' = current PROVE RemovedAreCancelled'
  BY <1>4 DEF RemovedAreCancelled, Jobs
<1>5. ASSUME NEW t \in tasks, Gather(t) \/ GiveUp(t) PROVE RemovedAreCancelled'
  <2>1. PICK x \in Status : tasks' = (tasks \ {t}) \cup {[t EXCEPT !.status = x]}
                            /\ current' = current
    BY <1>5 DEF Gather, GiveUp, Status
  <2> DEFINE v == [t EXCEPT !.status = x]
  <2>2. v.key = t.key /\ v.cancelled = t.cancelled
    BY <1>0 DEF JobTask
  <2> HIDE DEF v
  <2> SUFFICES ASSUME NEW u \in tasks', u.key \notin Jobs(current) PROVE u.cancelled
    BY <2>1 DEF RemovedAreCancelled, Jobs
  <2>3. \A y \in tasks : y.key \notin Jobs(current) => y.cancelled
    BY DEF RemovedAreCancelled
  <2>4. CASE u \in tasks
    BY <2>3, <2>4
  <2>5. CASE u = v
    BY <2>2, <2>3, <2>5
  <2> QED BY <2>1, <2>4, <2>5 DEF v
<1>6. CASE Join
  BY <1>4, <1>6 DEF Join
<1>7. CASE Drain \/ End \/ Abort
  BY <1>4, <1>7 DEF Drain, End, Abort
<1>8. CASE Wake \/ Send \/ SignalStop \/ Receive
  BY <1>4, <1>8 DEF Wake, Send, SignalStop, Receive
<1>9. ASSUME NEW k \in Key, Elapse(k) PROVE RemovedAreCancelled'
  BY <1>4, <1>9 DEF Elapse
<1>10. ASSUME NEW c \in Configs, Reload(c) PROVE RemovedAreCancelled'
  BY <1>4, <1>10 DEF Reload
<1>11. CASE UNCHANGED schedulerVars
  BY <1>4, <1>11 DEF schedulerVars
<1> QED BY <1>1, <1>2, <1>3, <1>5, <1>6, <1>7, <1>8, <1>9, <1>10, <1>11 DEF SchedulerNext

-----------------------------------------------------------------------------
(* The theorems. *)

LEMMA InitHolds ==
  ASSUME SchedulerConstants, SchedulerInit
  PROVE  SchedulerInv
<1>1. Typed
  <2>1. current \in Configs /\ Capacity \in Nat /\ MaxReloads \in Nat
    BY DEF SchedulerInit, SchedulerConstants
  <2>2. due \in [Key -> BOOLEAN] /\ samples \in [Key -> Nat] /\ used \in [Scope -> Nat]
        /\ answered \in [Key -> Nat]
    BY DEF SchedulerInit
  <2>3. output \in Seq(JobTask) /\ Len(output) <= Capacity /\ reloads \in 0 .. MaxReloads
    BY <2>1 DEF SchedulerInit
  <2> QED BY <2>1, <2>2, <2>3 DEF SchedulerInit, Typed, SchedulerType, Place
<1>2. Bookkept
  <2>1. Unique(tasks) /\ running = {t.key : t \in tasks}
    BY DEF SchedulerInit, Unique
  <2>2. \A s \in Scope : KeysIn(tasks, s) = {}
    BY DEF SchedulerInit, KeysIn
  <2>3. \A s \in Scope : used[s] = Cardinality(KeysIn(tasks, s))
    BY <2>2, FS_EmptySet DEF SchedulerInit
  <2> QED BY <2>1, <2>3 DEF Bookkept
<1>3. RemovedAreCancelled
  BY DEF SchedulerInit, RemovedAreCancelled
<1> QED BY <1>1, <1>2, <1>3 DEF SchedulerInv

LEMMA BooksAgree ==
  ASSUME SchedulerConstants, SchedulerInv
  PROVE  TasksMatchSlots
<1>1. NoOverlap
  BY DEF SchedulerInv, Bookkept, Unique, NoOverlap
<1>2. SlotsMatchTasks
  <2> SUFFICES ASSUME place \notin {"cleanup", "done"}, NEW s \in Scope
               PROVE  used[s] = Cardinality({t \in tasks : t.scope = s})
    BY DEF SlotsMatchTasks
  <2>1. Unique(tasks) /\ used[s] = Cardinality(KeysIn(tasks, s))
    BY DEF SchedulerInv, Bookkept
  <2>2. tasks \in SUBSET JobTask /\ IsFiniteSet(Key)
    BY DEF SchedulerInv, Typed, SchedulerType, SchedulerConstants
  <2> QED BY <2>1, <2>2, KeysCount
<1> QED BY <1>1, <1>2 DEF TasksMatchSlots

\* At any time the loop has at most one task of a job, running names the jobs that have one, and
\* every scope is charged exactly its tasks: for any jobs, scopes, configurations and reloads
\* (scheduler.rs, drive, admit and the joined task's release).
THEOREM TasksAgree ==
  ASSUME SchedulerConstants, EmptyAssumption
  PROVE  SchedulerSpec => []TasksMatchSlots
<1>1. SchedulerInit => SchedulerInv
  BY InitHolds
<1>2. SchedulerInv /\ [SchedulerNext]_schedulerVars => SchedulerInv'
  BY TypeHolds, BooksHold, RemovedHold DEF SchedulerInv
<1>3. SchedulerInv => TasksMatchSlots
  BY BooksAgree
<1> QED BY <1>1, <1>2, <1>3, PTL DEF SchedulerSpec

\* A task of a job that a reload removed is cancelled, however many reloads follow and whatever
\* else was admitted, joined or ended between (scheduler.rs, the update of the entries).
THEOREM RemovedStop ==
  ASSUME SchedulerConstants, EmptyAssumption
  PROVE  SchedulerSpec => []RemovedAreCancelled
<1>1. SchedulerInit => SchedulerInv
  BY InitHolds
<1>2. SchedulerInv /\ [SchedulerNext]_schedulerVars => SchedulerInv'
  BY TypeHolds, BooksHold, RemovedHold DEF SchedulerInv
<1>3. SchedulerInv => RemovedAreCancelled
  BY DEF SchedulerInv
<1> QED BY <1>1, <1>2, <1>3, PTL DEF SchedulerSpec
=============================================================================
