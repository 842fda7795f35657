--------------------------- MODULE LogCursorProofs ---------------------------
(***************************************************************************)
(* Proofs about LogCursor: a collection that has a cursor reports all that *)
(* it skips, every line that had time to become readable is counted in a   *)
(* result the monitor has, and the overlap counts none twice.              *)
(***************************************************************************)
EXTENDS LogCursor, SequenceTheorems, TLAPS

-----------------------------------------------------------------------------
(* Types.                                                                  *)

LEMMA BeginsType ==
    ASSUME NEW t \in Task, NEW w \in Window
    PROVE  Full(t, w) \in Int /\ Begins(t, w) \in Int
<1> USE ConstantsAssumption, NoneAssumption
<1>1. t.log_end \in Int /\ Span[w] \in Int /\ t.log_start \in Time \cup {None}
  BY DEF Task, Time
<1>2. Full(t, w) \in Int
  BY <1>1 DEF Full
<1>3. CASE t.log_start = None
  BY <1>2, <1>3 DEF Begins
<1>4. CASE t.log_start # None
  <2>1. t.log_start - Overlap \in Int
    BY <1>1, <1>4 DEF Time
  <2> QED BY <1>2, <1>4, <2>1 DEF Begins, Later
<1> QED BY <1>2, <1>3, <1>4

LEMMA ReplacedType ==
    ASSUME NEW t \in Task
    PROVE  /\ Replaced(t) \in Task
           /\ Replaced(t).scope # "current"
           /\ \A f \in {"rev", "log_start", "log_end", "table", "todo", "report"} :
                Replaced(t)[f] = t[f]
BY DEF Replaced, Task

LEMMA ReconfiguredType ==
    ASSUME TypeOK, NEW m \in Monitor, NEW rev \in Revision
    PROVE  Reconfigured(m, rev) \in Monitor
<1> USE ConstantsAssumption
<1>1. JobOf[rev] \in {JobOf[r] : r \in Revision}
  OBVIOUS
<1>2. Nothing \in [Window -> SUBSET Line]
  BY DEF Nothing
<1>3. [w \in Window |-> now] \in [Window -> Int]
  BY DEF TypeOK, Time
<1> QED BY <1>1, <1>2, <1>3 DEF Reconfigured, Monitor

LEMMA AppliedType ==
    ASSUME TypeOK, NEW r \in Task
    PROVE  Applied(r) \in Monitor
<1> USE ConstantsAssumption
<1>1. monitor \in Monitor
  BY DEF TypeOK
<1>2. r.report \in [Window -> Report] /\ r.log_end \in Time
  BY DEF Task
<1>3. \A w \in Window : r.report[w].counted \in SUBSET Line
  BY <1>2 DEF Report
<1> DEFINE seen == [w \in Window |-> monitor.seen[w] \cup r.report[w].counted]
           from == [w \in Window |-> IF Begins(r, w) # Full(r, w) THEN monitor.from[w]
                                     ELSE Full(r, w)]
           settled == [w \in Window |->
                         IF r.scope = "current" THEN monitor.settled[w] \cup r.report[w].counted
                         ELSE monitor.settled[w]]
           more == {IF r.log_start = None THEN "without a cursor" ELSE "with a cursor" :
                      w \in {v \in Window : Unreported(r, v) # {}}}
<1>4. seen \in [Window -> SUBSET Line] /\ settled \in [Window -> SUBSET Line]
  BY <1>1, <1>3 DEF Monitor
<1>5. from \in [Window -> Int]
  BY <1>1, BeginsType DEF Monitor
<1>6. more \subseteq {"with a cursor", "without a cursor"}
  OBVIOUS
<1>7. Applied(r) = IF ~Complete(r) THEN [monitor EXCEPT !.seen = seen, !.complete = FALSE]
        ELSE [monitor EXCEPT !.seen = seen, !.complete = TRUE, !.log_end = r.log_end,
                !.from = from, !.settled = settled, !.skipped = @ \cup more]
  BY <1>1 DEF Applied, Monitor
<1> HIDE DEF seen, from, settled, more
<1>8. [monitor EXCEPT !.seen = seen, !.complete = FALSE] \in Monitor
  BY <1>1, <1>4 DEF Monitor
<1>9. [monitor EXCEPT !.seen = seen, !.complete = TRUE, !.log_end = r.log_end,
                !.from = from, !.settled = settled, !.skipped = @ \cup more] \in Monitor
  BY <1>1, <1>2, <1>4, <1>5, <1>6 DEF Monitor
<1> QED BY <1>7, <1>8, <1>9

LEMMA InitType == Init => TypeOK
<1> SUFFICES ASSUME Init PROVE TypeOK
  OBVIOUS
<1> USE ConstantsAssumption
<1>1. 0 \in Time
  BY DEF Time
<1>2. NoEntries \in Table
  BY DEF NoEntries, Table
<1>3. monitor \in Monitor
  BY DEF Init, Monitor, Nothing
<1> QED BY <1>1, <1>2, <1>3 DEF Init, TypeOK

\* What Finish and Fail make of a collection.
Finished(t) == [t EXCEPT !.table = NoEntries]
Failed(t) == [t EXCEPT !.table = NoEntries, !.todo = Window,
                       !.report = [w \in Window |-> NoReport]]

LEMMA KeptType ==
    ASSUME NEW t \in Task
    PROVE  /\ Finished(t) \in Task /\ Failed(t) \in Task
           /\ \A f \in {"rev", "log_start", "log_end", "scope"} :
                Finished(t)[f] = t[f] /\ Failed(t)[f] = t[f]
           /\ Finished(t).todo = t.todo /\ Finished(t).report = t.report
           /\ ~Complete(Failed(t))
           /\ \A w \in Window : Failed(t).report[w].counted = {}
<1>1. NoEntries \in Table /\ NoReport \in Report
  BY DEF NoEntries, Table, NoReport, Report
<1>2. Finished(t) \in Task /\ Failed(t) \in Task
  BY <1>1 DEF Task, Finished, Failed
<1>3. Failed(t).todo = Window /\ \A w \in Window : Failed(t).report[w].counted = {}
  BY DEF Failed, Task, NoReport
<1>4. ~Complete(Failed(t))
  BY <1>3, ConstantsAssumption DEF Complete
<1> QED BY <1>2, <1>3, <1>4 DEF Task, Finished, Failed

LEMMA Kept ==
    ASSUME TypeOK, Finish \/ Fail
    PROVE  /\ task \in Task /\ task # None /\ task' = None
           /\ results \in Seq(Task) /\ Len(results) \in Nat
           /\ Len(results) + 1 <= Capacity
           /\ table' \in Table
           /\ table' = (IF task.scope = "current" THEN task.table ELSE table)
           /\ Finish => results' = Append(results, Finished(task))
           /\ Fail => results' = Append(results, Failed(task))
<1>1. task \in Task /\ task # None /\ results \in Seq(Task) /\ table \in Table
  BY DEF TypeOK, Finish, Fail
<1>2. task.table \in Table
  BY <1>1 DEF Task
<1>3. Len(results) \in Nat /\ Len(results) + 1 <= Capacity
  BY <1>1 DEF TypeOK
<1>4. task' = None /\ table' = (IF task.scope = "current" THEN task.table ELSE table)
  BY DEF Finish, Fail, Returned
<1>5. /\ Finish => results' = Append(results, Finished(task))
      /\ Fail => results' = Append(results, Failed(task))
  BY DEF Finish, Fail, Finished, Failed
<1> QED BY <1>1, <1>2, <1>3, <1>4, <1>5

LEMMA ReadType ==
    ASSUME TypeOK, task # None, NEW w \in Window,
           NEW counted \in SUBSET Line, NEW complete \in BOOLEAN
    PROVE  [task EXCEPT
              !.todo = @ \ {w},
              !.report[w] = [counted |-> counted, complete |-> complete],
              !.table[w] = [l \in Line |-> IF l \in counted THEN task.log_end ELSE @[l]]]
              \in Task
<1>1. task \in Task
  BY DEF TypeOK
<1>2. task.table \in [Window -> [Line -> Time \cup {None}]] /\ task.log_end \in Time
      /\ task.report \in [Window -> Report] /\ task.todo \subseteq Window
  BY <1>1 DEF Task, Table
<1> DEFINE row == [l \in Line |-> IF l \in counted THEN task.log_end ELSE task.table[w][l]]
<1>3. row \in [Line -> Time \cup {None}]
  BY <1>2
<1>4. [counted |-> counted, complete |-> complete] \in Report
  BY DEF Report
<1>5. [task EXCEPT
              !.todo = @ \ {w},
              !.report[w] = [counted |-> counted, complete |-> complete],
              !.table[w] = [l \in Line |-> IF l \in counted THEN task.log_end ELSE @[l]]]
      = [task EXCEPT !.todo = task.todo \ {w},
              !.report = [task.report EXCEPT ![w] = [counted |-> counted, complete |-> complete]],
              !.table = [task.table EXCEPT ![w] = row]]
  BY <1>1, <1>2 DEF Task
<1>6. [task.table EXCEPT ![w] = row] \in Table
  BY <1>2, <1>3 DEF Table
<1>7. [task.report EXCEPT ![w] = [counted |-> counted, complete |-> complete]] \in [Window -> Report]
  BY <1>2, <1>4
<1> HIDE DEF row
<1> QED BY <1>1, <1>2, <1>5, <1>6, <1>7 DEF Task

LEMMA TypeStep == TypeOK /\ [Next]_vars => TypeOK'
<1> SUFFICES ASSUME TypeOK, [Next]_vars PROVE TypeOK'
  OBVIOUS
<1> USE ConstantsAssumption, NoneAssumption, TaskAssumption
<1>0. NoEntries \in Table
  BY DEF NoEntries, Table
<1>1. CASE Tick
  <2>1. now' \in Time
    BY <1>1 DEF Tick, TypeOK, Time
  <2> QED BY <1>1, <2>1 DEF Tick, TypeOK
<1>2. ASSUME NEW l \in Line, Ingest(l) PROVE TypeOK'
  BY <1>2 DEF Ingest, TypeOK
<1>3. CASE Start
  <2>1. NoReport \in Report
    BY DEF NoReport, Report
  <2>2. task' \in Task
    BY <1>0, <1>3, <2>1 DEF Start, TypeOK, Task
  <2> QED BY <1>3, <2>2 DEF Start, TypeOK
<1>4. CASE Open
  <2>1. task' \in Task
    BY <1>4 DEF Open, TypeOK, Task
  <2> QED BY <1>4, <2>1 DEF Open, TypeOK
<1>5. ASSUME NEW w \in Window, Read(w) PROVE TypeOK'
  <2>1. PICK rows \in SUBSET {l \in readable : Begins(task, w) <= l /\ l <= task.log_end} :
        \E complete \in BOOLEAN :
          task' = [task EXCEPT
              !.todo = @ \ {w},
              !.report[w] = [counted |-> {l \in rows : ~Suppressed(task.table[w][l], task.log_start)},
                             complete |-> complete],
              !.table[w] = [l \in Line |->
                 IF l \in {k \in rows : ~Suppressed(task.table[w][k], task.log_start)}
                 THEN task.log_end ELSE @[l]]]
    BY <1>5 DEF Read
  <2>2. {l \in rows : ~Suppressed(task.table[w][l], task.log_start)} \subseteq Line
    BY DEF TypeOK
  <2> DEFINE counted == {l \in rows : ~Suppressed(task.table[w][l], task.log_start)}
  <2>a. PICK complete \in BOOLEAN :
          task' = [task EXCEPT
              !.todo = @ \ {w},
              !.report[w] = [counted |-> counted, complete |-> complete],
              !.table[w] = [l \in Line |-> IF l \in counted THEN task.log_end ELSE @[l]]]
    BY <2>1
  <2>b. counted \in SUBSET Line /\ task # None
    BY <1>5, <2>2 DEF Read
  <2>3. task' \in Task
    <3> HIDE DEF counted
    <3> QED BY <2>a, <2>b, ReadType
  <2> QED BY <1>5, <2>3 DEF Read, TypeOK
<1>6. CASE Finish \/ Fail
  <2>1. /\ task \in Task /\ task' = None /\ table' \in Table
        /\ results \in Seq(Task) /\ Len(results) \in Nat /\ Len(results) + 1 <= Capacity
    BY <1>6, Kept
  <2>2. \E r \in Task : results' = Append(results, r)
    BY <1>6, <2>1, Kept, KeptType
  <2>3. results' \in Seq(Task) /\ Len(results') <= Capacity
    BY <2>1, <2>2
  <2>4. log_cursor' \in Time \cup {None}
    BY <1>6, <2>1 DEF Finish, Fail, TypeOK, Task
  <2> QED BY <1>6, <2>1, <2>3, <2>4 DEF Finish, Fail, TypeOK
<1>8. CASE Deliver
  <2>1. Head(results) \in Task /\ results' \in Seq(Task) /\ Len(results') <= Capacity
    BY <1>8 DEF Deliver, TypeOK
  <2>2. monitor' \in Monitor
    BY <1>8, <2>1, AppliedType DEF Deliver, TypeOK
  <2> QED BY <1>8, <2>1, <2>2 DEF Deliver, TypeOK
<1>9. CASE Persist
  BY <1>9 DEF Persist, TypeOK
<1>10. ASSUME NEW rev \in Revision, Reload(rev) PROVE TypeOK'
  <2>1. task' \in Task \cup {None}
    BY <1>10, ReplacedType DEF Reload, TypeOK
  <2>2. results' \in Seq(Task) /\ Len(results') = Len(results)
    <3>1. results \in Seq(Task) /\ results' = [i \in 1..Len(results) |-> Replaced(results[i])]
      BY <1>10 DEF Reload, TypeOK
    <3>2. \A i \in 1..Len(results) : Replaced(results[i]) \in Task
      BY <3>1, ReplacedType
    <3>3. Len(results) \in Nat
      BY <3>1
    <3> QED BY <3>1, <3>2, <3>3
  <2>3. monitor' \in Monitor
    BY <1>10, ReconfiguredType DEF Reload, TypeOK
  <2> QED BY <1>0, <1>10, <2>1, <2>2, <2>3 DEF Reload, TypeOK
<1>11. ASSUME NEW rev \in Revision, Restart(rev) PROVE TypeOK'
  <2>1. monitor' \in Monitor
    BY <1>11, ReconfiguredType DEF Restart, TypeOK
  <2>2. log_cursor' \in Time \cup {None}
    BY <1>11, <2>1 DEF Restart, Monitor
  <2> QED BY <1>0, <1>11, <2>1, <2>2 DEF Restart, TypeOK
<1>12. CASE UNCHANGED vars
  BY <1>12 DEF vars, TypeOK
<1> QED BY <1>1, <1>2, <1>3, <1>4, <1>5, <1>6, <1>8, <1>9, <1>10, <1>11, <1>12 DEF Next

\* The windows, the channel and the monitor keep their shape, whatever is reloaded or lost.
THEOREM TypeCorrect == Spec => []TypeOK
<1>1. Init => TypeOK
  BY InitType
<1>2. TypeOK /\ [Next]_vars => TypeOK'
  BY TypeStep
<1> QED BY <1>1, <1>2, PTL DEF Spec

-----------------------------------------------------------------------------
(* What a step makes of the results that wait.                             *)

LEMMA Appending ==
    ASSUME TypeOK, Finish \/ Fail
    PROVE  \E r \in Task :
             /\ r = (IF Finish THEN Finished(task) ELSE Failed(task))
             /\ \A f \in {"rev", "log_start", "log_end", "scope"} : r[f] = task[f]
             /\ Len(results) \in Nat /\ Len(results') = Len(results) + 1
             /\ DOMAIN results = 1..Len(results) /\ DOMAIN results' = 1..(Len(results) + 1)
             /\ results'[Len(results) + 1] = r
             /\ \A i \in 1..Len(results) : results[i] \in Task /\ results'[i] = results[i]
<1> DEFINE r == IF Finish THEN Finished(task) ELSE Failed(task)
<1>1. task \in Task /\ results \in Seq(Task) /\ Len(results) \in Nat
  BY Kept
<1>2. r \in Task /\ \A f \in {"rev", "log_start", "log_end", "scope"} : r[f] = task[f]
  BY <1>1, KeptType
<1>3. results' = Append(results, r)
  BY Kept
<1> HIDE DEF r
<1>4. /\ Len(results') = Len(results) + 1
      /\ DOMAIN results = 1..Len(results) /\ DOMAIN results' = 1..(Len(results) + 1)
      /\ results'[Len(results) + 1] = r
      /\ \A i \in 1..Len(results) : results[i] \in Task /\ results'[i] = results[i]
  BY <1>1, <1>2, <1>3
<1> QED BY <1>1, <1>2, <1>4 DEF r

LEMMA Taking ==
    ASSUME TypeOK, Deliver
    PROVE  /\ Len(results) \in Nat \ {0} /\ Len(results') = Len(results) - 1
           /\ DOMAIN results = 1..Len(results) /\ DOMAIN results' = 1..(Len(results) - 1)
           /\ \A i \in 1..Len(results) : results[i] \in Task
           /\ \A i \in 1..(Len(results) - 1) : results'[i] = results[i + 1]
           /\ Head(results) = results[1] /\ results[1] \in Task
<1>1. results \in Seq(Task) /\ results # <<>> /\ results' = Tail(results)
  BY DEF Deliver, TypeOK
<1> QED BY <1>1

LEMMA Reloading ==
    ASSUME TypeOK, NEW rev \in Revision, Reload(rev)
    PROVE  /\ Len(results) \in Nat /\ Len(results') = Len(results)
           /\ DOMAIN results = 1..Len(results) /\ DOMAIN results' = 1..Len(results)
           /\ \A i \in 1..Len(results) :
                /\ results[i] \in Task /\ results'[i] = Replaced(results[i])
                /\ results'[i].scope # "current"
                /\ \A f \in {"rev", "log_start", "log_end", "table", "todo", "report"} :
                     results'[i][f] = results[i][f]
<1>1. results \in Seq(Task) /\ results' = [i \in 1..Len(results) |-> Replaced(results[i])]
  BY DEF Reload, TypeOK
<1>2. \A i \in 1..Len(results) : results[i] \in Task
  BY <1>1
<1>3. Len(results) \in Nat /\ DOMAIN results = 1..Len(results)
  BY <1>1
<1>4. DOMAIN results' = 1..Len(results) /\ Len(results') = Len(results)
  <2>1. \A i \in 1..Len(results) : Replaced(results[i]) \in Task
    BY <1>2, ReplacedType
  <2>2. results' \in Seq(Task)
    BY <1>1, <1>3, <2>1
  <2> QED BY <1>1, <1>3, <2>2
<1> QED BY <1>1, <1>2, <1>3, <1>4, ReplacedType

\* What a reload leaves of the collection under way.
LEMMA ReloadedTask ==
    ASSUME TypeOK, NEW rev \in Revision, Reload(rev), task' # None
    PROVE  /\ task # None /\ task \in Task /\ task' \in Task
           /\ task'.scope # "current"
           /\ task'.scope = "none" => task.scope = "none"
           /\ \A f \in {"rev", "log_start", "log_end", "table", "todo", "report"} :
                task'[f] = task[f]
<1>1. task # None /\ task' = Replaced(task) /\ task \in Task
  BY DEF Reload, TypeOK
<1>2. Replaced(task).scope = "none" => task.scope = "none"
  BY <1>1 DEF Replaced, Task
<1> QED BY <1>1, <1>2, ReplacedType

\* What a read leaves of the collection, and what it adds.
LEMMA Reading ==
    ASSUME TypeOK, NEW w \in Window, Read(w)
    PROVE  /\ task # None /\ task \in Task /\ task' \in Task /\ task' # None
           /\ task.scope # "none" /\ w \in task.todo
           /\ \A f \in {"rev", "log_start", "log_end", "scope"} : task'[f] = task[f]
           /\ task'.todo = task.todo \ {w}
           /\ \A v \in Window \ {w} : task'.report[v] = task.report[v] /\ task'.table[v] = task.table[v]
           /\ \A l \in Line :
                /\ l \in task'.report[w].counted =>
                     /\ l \in readable /\ Begins(task, w) <= l /\ l <= task.log_end
                     /\ ~Suppressed(task.table[w][l], task.log_start)
                     /\ task'.table[w][l] = task.log_end
                /\ l \notin task'.report[w].counted => task'.table[w][l] = task.table[w][l]
                /\ (task'.report[w].complete /\ l \in readable /\ Begins(task, w) <= l /\ l <= task.log_end
                      /\ ~Suppressed(task.table[w][l], task.log_start)) =>
                     l \in task'.report[w].counted
<1> USE ConstantsAssumption, NoneAssumption, TaskAssumption
<1>0. task # None /\ task \in Task /\ readable \subseteq Line
  BY DEF Read, TypeOK
<1>2. task.scope # "none" /\ w \in task.todo
  BY DEF Read
<1>3. PICK rows \in SUBSET {l \in readable : Begins(task, w) <= l /\ l <= task.log_end} :
        \E complete \in BOOLEAN :
          /\ complete => rows = {l \in readable : Begins(task, w) <= l /\ l <= task.log_end}
          /\ task' = [task EXCEPT
              !.todo = @ \ {w},
              !.report[w] = [counted |-> {l \in rows : ~Suppressed(task.table[w][l], task.log_start)},
                             complete |-> complete],
              !.table[w] = [l \in Line |->
                 IF l \in {k \in rows : ~Suppressed(task.table[w][k], task.log_start)}
                 THEN task.log_end ELSE @[l]]]
  BY DEF Read
<1> DEFINE counted == {l \in rows : ~Suppressed(task.table[w][l], task.log_start)}
<1>4. PICK complete \in BOOLEAN :
          /\ complete => rows = {l \in readable : Begins(task, w) <= l /\ l <= task.log_end}
          /\ task' = [task EXCEPT
              !.todo = @ \ {w},
              !.report[w] = [counted |-> counted, complete |-> complete],
              !.table[w] = [l \in Line |-> IF l \in counted THEN task.log_end ELSE @[l]]]
  BY <1>3
<1>5. /\ \A l \in counted : /\ l \in readable /\ Begins(task, w) <= l /\ l <= task.log_end
                            /\ ~Suppressed(task.table[w][l], task.log_start)
      /\ complete => \A l \in readable :
           (Begins(task, w) <= l /\ l <= task.log_end /\ ~Suppressed(task.table[w][l], task.log_start))
             => l \in counted
  BY <1>3, <1>4
<1>1. task # None /\ task \in Task /\ task' \in Task /\ task' # None
  <2>1. counted \in SUBSET Line
    BY <1>0
  <2> HIDE DEF counted
  <2>2. task' \in Task
    BY <1>0, <1>4, <2>1, ReadType
  <2> QED BY <1>0, <2>2
<1> HIDE DEF counted
<1>6. task.table \in [Window -> [Line -> Time \cup {None}]] /\ task.report \in [Window -> Report]
  BY <1>1 DEF Task, Table
<1>7. /\ \A f \in {"rev", "log_start", "log_end", "scope"} : task'[f] = task[f]
      /\ task'.todo = task.todo \ {w}
      /\ task'.report = [task.report EXCEPT ![w] = [counted |-> counted, complete |-> complete]]
      /\ task'.table = [task.table EXCEPT ![w] =
             [l \in Line |-> IF l \in counted THEN task.log_end ELSE task.table[w][l]]]
  BY <1>1, <1>4, <1>6 DEF Task
<1>8. /\ task'.report[w].counted = counted /\ task'.report[w].complete = complete
      /\ \A l \in Line : task'.table[w][l] = IF l \in counted THEN task.log_end ELSE task.table[w][l]
      /\ \A v \in Window \ {w} : task'.report[v] = task.report[v] /\ task'.table[v] = task.table[v]
  BY <1>6, <1>7
<1> QED BY <1>1, <1>2, <1>5, <1>7, <1>8

-----------------------------------------------------------------------------
(* Collections end in the order in which they are applied.                 *)

AtMost(x, y) == x = None \/ x <= y

Past == AtMost(monitor.log_end, now) /\ AtMost(saved.log_end, now) /\ AtMost(log_cursor, now)

\* Result i ends after those before it and after what was applied.
Ordered(i) ==
    /\ results[i].log_end <= now
    /\ AtMost(results[i].log_start, results[i].log_end)
    /\ AtMost(monitor.log_end, results[i].log_end)
    /\ \A j \in 1..i : results[j].log_end <= results[i].log_end

Latest ==
    task # None =>
        /\ task.log_end <= now
        /\ task.log_start # None => task.log_start < task.log_end
        /\ log_cursor \in {None, task.log_start}
        /\ AtMost(monitor.log_end, task.log_end)
        /\ \A i \in DOMAIN results : results[i].log_end <= task.log_end

\* Only what is of the present revision writes to the present table.
Scoped ==
    /\ monitor.job = JobOf[revision]
    /\ task # None => /\ task.scope = "current" => task.rev = revision
                      /\ task.scope = "none" => task.todo = Window
                      /\ task.scope = "replaced" => table = NoEntries
    /\ \A i \in DOMAIN results : results[i].scope = "current" => results[i].rev = revision

Order == Past /\ (\A i \in DOMAIN results : Ordered(i)) /\ Latest /\ Scoped

LEMMA InitOrder == Init => Order
BY DEF Init, Order, Past, AtMost, Latest, Scoped

\* What is applied ends when the result does, or nothing changes.
LEMMA AppliedEnd ==
    ASSUME TypeOK, NEW r \in Task
    PROVE  /\ Applied(r).log_end = IF Complete(r) THEN r.log_end ELSE monitor.log_end
           /\ Applied(r).job = monitor.job
           /\ \A w \in Window : Applied(r).seen[w] = monitor.seen[w] \cup r.report[w].counted
           /\ Applied(r).from = IF ~Complete(r) THEN monitor.from ELSE
                [w \in Window |-> IF Begins(r, w) # Full(r, w) THEN monitor.from[w] ELSE Full(r, w)]
           /\ \A w \in Window : Applied(r).settled[w] =
                IF Complete(r) /\ r.scope = "current" THEN monitor.settled[w] \cup r.report[w].counted
                ELSE monitor.settled[w]
           /\ Applied(r).skipped = monitor.skipped \cup
                IF ~Complete(r) THEN {} ELSE
                {IF r.log_start = None THEN "without a cursor" ELSE "with a cursor" :
                        w \in {v \in Window : Unreported(r, v) # {}}}
<1>1. monitor \in Monitor
  BY DEF TypeOK
<1>2. CASE Complete(r)
  BY <1>1, <1>2 DEF Applied, Monitor
<1>3. CASE ~Complete(r)
  BY <1>1, <1>3 DEF Applied, Monitor
<1> QED BY <1>2, <1>3

LEMMA ReconfiguredEnd ==
    ASSUME NEW m \in Monitor, NEW rev \in Revision
    PROVE  LET n == Reconfigured(m, rev) IN
           /\ n.job = JobOf[rev]
           /\ n.log_end = IF JobOf[rev] = m.job THEN m.log_end ELSE None
           /\ JobOf[rev] = m.job => n.seen = m.seen /\ n.from = m.from
           /\ n.settled = Nothing /\ n.skipped = m.skipped
           /\ JobOf[rev] # m.job => ~n.complete
<1>1. CASE JobOf[rev] = m.job
  BY <1>1 DEF Reconfigured, Monitor
<1>2. CASE JobOf[rev] # m.job
  BY <1>2 DEF Reconfigured, Monitor
<1> QED BY <1>1, <1>2

LEMMA OrderStep == TypeOK /\ Order /\ [Next]_vars => Order'
<1> SUFFICES ASSUME TypeOK, Order, [Next]_vars PROVE Order'
  OBVIOUS
<1> USE ConstantsAssumption, NoneAssumption, TaskAssumption
<1>0. /\ now \in Nat /\ monitor.log_end \in Nat \cup {None} /\ saved.log_end \in Nat \cup {None}
      /\ log_cursor \in Nat \cup {None} /\ None \notin Nat
      /\ results \in Seq(Task) /\ Len(results) \in Nat /\ DOMAIN results = 1..Len(results)
      /\ \A i \in 1..Len(results) : results[i] \in Task
      /\ \A t \in Task : t.log_end \in Nat /\ t.log_start \in Nat \cup {None}
      /\ task \in Task \cup {None}
  <2>1. Time \subseteq Nat /\ None \notin Nat
    BY DEF Time
  <2>2. /\ now \in Time /\ monitor \in Monitor /\ saved \in Monitor /\ results \in Seq(Task)
        /\ log_cursor \in Time \cup {None} /\ task \in Task \cup {None}
    BY DEF TypeOK
  <2>3. \A t \in Task : t.log_end \in Nat /\ t.log_start \in Nat \cup {None}
    BY <2>1 DEF Task
  <2>4. Len(results) \in Nat /\ DOMAIN results = 1..Len(results)
        /\ \A i \in 1..Len(results) : results[i] \in Task
    BY <2>2
  <2> QED BY <2>1, <2>2, <2>3, <2>4 DEF Monitor
<1>1. CASE Tick
  BY <1>0, <1>1 DEF Tick, Order, Past, AtMost, Ordered, Latest, Scoped
<1>2. ASSUME NEW l \in Line, Ingest(l) PROVE Order'
  BY <1>2 DEF Ingest, Order, Past, AtMost, Ordered, Latest, Scoped
<1>3. CASE Start
  <2>1. /\ task' # None => /\ task'.log_end = now /\ task'.log_start = log_cursor
                           /\ task'.scope = "none" /\ task'.todo = Window
    BY <1>3 DEF Start
  <2>2. Past' /\ \A i \in DOMAIN results' : Ordered(i)'
    BY <1>3 DEF Start, Order, Past, AtMost, Ordered
  <2>3. Latest'
    BY <1>0, <1>3, <2>1 DEF Start, Order, Past, AtMost, Ordered, Latest
  <2>4. Scoped'
    BY <1>3, <2>1 DEF Start, Order, Scoped
  <2> QED BY <2>2, <2>3, <2>4 DEF Order
<1>4. CASE Open
  <2>1. /\ task'.log_end = task.log_end /\ task'.log_start = task.log_start
        /\ task'.scope = "current" /\ task'.rev = revision /\ task # None
    BY <1>0, <1>4 DEF Open, Task
  <2> QED BY <1>4, <2>1 DEF Open, Order, Past, AtMost, Ordered, Latest, Scoped
<1>5. ASSUME NEW w \in Window, Read(w) PROVE Order'
  <2>1. /\ task'.log_end = task.log_end /\ task'.log_start = task.log_start
        /\ task'.scope = task.scope /\ task'.rev = task.rev /\ task # None /\ task.scope # "none"
    BY <1>5, Reading
  <2> QED BY <1>5, <2>1 DEF Read, Order, Past, AtMost, Ordered, Latest, Scoped
<1>6. CASE Finish \/ Fail
  <2>1. PICK r \in Task :
             /\ \A f \in {"rev", "log_start", "log_end", "scope"} : r[f] = task[f]
             /\ DOMAIN results' = 1..(Len(results) + 1)
             /\ results'[Len(results) + 1] = r
             /\ \A i \in 1..Len(results) : results'[i] = results[i]
    BY <1>6, Appending
  <2>2. /\ task # None /\ task \in Task /\ task' = None /\ log_cursor' \in {log_cursor, task.log_end}
        /\ UNCHANGED <<now, revision, monitor, saved>>
    BY <1>6, Kept DEF Finish, Fail
  <2>3. Past'
    BY <1>0, <2>2 DEF Order, Past, AtMost, Latest
  <2>4. ASSUME NEW i \in DOMAIN results' PROVE Ordered(i)'
    <3>1. CASE i \in 1..Len(results)
      BY <1>0, <2>1, <2>2, <3>1 DEF Order, Ordered, AtMost
    <3>2. CASE i = Len(results) + 1
      <4>1. /\ r.log_end = task.log_end /\ r.log_start = task.log_start /\ results'[i] = r
            /\ \A j \in 1..Len(results) : results'[j] = results[j]
        BY <2>1, <3>2
      <4>2. /\ r.log_end <= now /\ AtMost(r.log_start, r.log_end)
            /\ AtMost(monitor.log_end, r.log_end)
        BY <1>0, <2>2, <4>1 DEF Order, Latest, AtMost
      <4>3. \A j \in 1..Len(results) : results'[j].log_end <= r.log_end
        BY <1>0, <2>2, <4>1 DEF Order, Latest
      <4> QED BY <1>0, <2>2, <3>2, <4>1, <4>2, <4>3 DEF Ordered, AtMost
    <3> QED BY <1>0, <2>1, <2>4, <3>1, <3>2
  <2>5. Latest'
    BY <2>2 DEF Latest
  <2>6. Scoped'
    BY <1>0, <2>1, <2>2 DEF Order, Scoped
  <2> QED BY <2>3, <2>4, <2>5, <2>6 DEF Order
<1>7. CASE Deliver
  <2> DEFINE h == results[1]
  <2>1. /\ Len(results) \in Nat \ {0} /\ h \in Task
        /\ DOMAIN results' = 1..(Len(results) - 1)
        /\ \A i \in 1..(Len(results) - 1) : results'[i] = results[i + 1]
        /\ UNCHANGED <<now, revision, log_cursor, table, task, saved>>
    BY <1>7, Taking DEF Deliver
  <2>2. /\ monitor'.log_end \in {monitor.log_end, h.log_end} /\ monitor'.job = monitor.job
    BY <1>7, <2>1, Taking, AppliedEnd DEF Deliver
  <2>3. h.log_end <= now /\ \A i \in 1..Len(results) : h.log_end <= results[i].log_end
    <3>1. 1 \in 1..Len(results) /\ \A i \in 1..Len(results) : 1 \in 1..i
      BY <2>1
    <3> QED BY <1>0, <3>1 DEF Order, Ordered
  <2>4. task # None => h.log_end <= task.log_end
    BY <1>0, <2>1 DEF Order, Latest
  <2>a. h.log_end \in Nat
    BY <1>0, <2>1
  <2> HIDE DEF h
  <2>5. Past'
    BY <1>0, <2>1, <2>2, <2>3, <2>a DEF Order, Past, AtMost
  <2>6. ASSUME NEW i \in DOMAIN results' PROVE Ordered(i)'
    <3>1. i \in 1..(Len(results) - 1) /\ i + 1 \in 1..Len(results) /\ results'[i] = results[i + 1]
      BY <2>1
    <3>2. Ordered(i + 1)
      BY <1>0, <3>1 DEF Order
    <3>3. \A j \in 1..i : results'[j] = results[j + 1] /\ j + 1 \in 1..(i + 1)
      BY <2>1, <3>1
    <3>4. \A j \in 1..i : results'[j].log_end <= results'[i].log_end
      BY <3>1, <3>2, <3>3 DEF Ordered
    <3>5. AtMost(monitor'.log_end, results'[i].log_end)
      BY <1>0, <2>2, <2>3, <3>1, <3>2 DEF Ordered, AtMost
    <3> QED BY <2>1, <3>1, <3>2, <3>4, <3>5 DEF Ordered
  <2>7. Latest'
    <3>1. \A i \in DOMAIN results' : i + 1 \in DOMAIN results /\ results'[i] = results[i + 1]
      BY <1>0, <2>1
    <3> QED BY <2>1, <2>2, <2>4, <3>1 DEF Order, Latest, AtMost
  <2>8. Scoped'
    <3>1. \A i \in DOMAIN results' : i + 1 \in DOMAIN results /\ results'[i] = results[i + 1]
      BY <1>0, <2>1
    <3> QED BY <2>1, <2>2, <3>1 DEF Order, Scoped
  <2> QED BY <2>5, <2>6, <2>7, <2>8 DEF Order
<1>8. CASE Persist
  BY <1>8 DEF Persist, Order, Past, AtMost, Ordered, Latest, Scoped
<1>9. ASSUME NEW rev \in Revision, Reload(rev) PROVE Order'
  <2>1. /\ DOMAIN results' = 1..Len(results)
        /\ \A i \in 1..Len(results) :
             /\ results'[i].log_end = results[i].log_end /\ results'[i].log_start = results[i].log_start
             /\ results'[i].scope # "current"
    BY <1>9, Reloading
  <2>2. /\ log_cursor' = None /\ UNCHANGED <<now, saved>> /\ revision' = rev
        /\ monitor' = Reconfigured(monitor, rev) /\ monitor \in Monitor
    BY <1>9 DEF Reload, TypeOK
  <2>3. monitor'.log_end \in {monitor.log_end, None} /\ monitor'.job = JobOf[rev]
    BY <2>2, ReconfiguredEnd
  <2>4. task' # None => /\ task # None /\ task'.log_end = task.log_end
                        /\ task'.log_start = task.log_start /\ task'.todo = task.todo
                        /\ task'.scope # "current" /\ (task'.scope = "none" => task.scope = "none")
    BY <1>9, ReloadedTask
  <2>5. Past'
    BY <2>2, <2>3 DEF Order, Past, AtMost
  <2>6. \A i \in DOMAIN results' : Ordered(i)'
    <3> SUFFICES ASSUME NEW i \in DOMAIN results' PROVE Ordered(i)'
      OBVIOUS
    <3>1. i \in 1..Len(results) /\ Ordered(i)
      BY <1>0, <2>1 DEF Order
    <3>2. /\ results'[i].log_end = results[i].log_end
          /\ results'[i].log_start = results[i].log_start
          /\ \A j \in 1..i : results'[j].log_end = results[j].log_end
      BY <1>0, <2>1, <3>1
    <3>3. results'[i].log_end <= now' /\ AtMost(results'[i].log_start, results'[i].log_end)
      BY <2>2, <3>1, <3>2 DEF Ordered, AtMost
    <3>4. AtMost(monitor'.log_end, results'[i].log_end)
      BY <2>3, <3>1, <3>2 DEF Ordered, AtMost
    <3>5. \A j \in 1..i : results'[j].log_end <= results'[i].log_end
      BY <3>1, <3>2 DEF Ordered
    <3> QED BY <3>3, <3>4, <3>5 DEF Ordered, AtMost
  <2>7. Latest'
    BY <1>0, <2>1, <2>2, <2>3, <2>4 DEF Order, Latest, AtMost
  <2>8. Scoped'
    <3>1. table' = NoEntries
      BY <1>9 DEF Reload
    <3> QED BY <2>1, <2>2, <2>3, <2>4, <3>1 DEF Order, Scoped
  <2> QED BY <2>5, <2>6, <2>7, <2>8 DEF Order
<1>10. ASSUME NEW rev \in Revision, Restart(rev) PROVE Order'
  <2>1. /\ task' = None /\ results' = <<>> /\ UNCHANGED <<now, saved>> /\ revision' = rev
        /\ monitor' = Reconfigured(saved, rev) /\ saved \in Monitor
        /\ log_cursor' \in {None, monitor'.log_end}
    BY <1>10 DEF Restart, TypeOK
  <2>2. monitor'.log_end \in {saved.log_end, None} /\ monitor'.job = JobOf[rev]
    BY <2>1, ReconfiguredEnd
  <2> QED BY <2>1, <2>2 DEF Order, Past, AtMost, Ordered, Latest, Scoped
<1>11. CASE UNCHANGED vars
  BY <1>11 DEF vars, Order, Past, AtMost, Ordered, Latest, Scoped
<1> QED BY <1>1, <1>2, <1>3, <1>4, <1>5, <1>6, <1>7, <1>8, <1>9, <1>10, <1>11 DEF Next

-----------------------------------------------------------------------------
(* Where a cursor stands, something that is applied or will be reaches.    *)

Reached(s, n) ==
    s # None =>
        \/ monitor.log_end # None /\ s <= monitor.log_end
        \/ \E i \in 1..n : /\ results[i].rev = revision /\ Complete(results[i])
                           /\ s <= results[i].log_end

Reaching ==
    /\ Reached(log_cursor, Len(results))
    /\ task # None /\ task.rev = revision => Reached(task.log_start, Len(results))
    /\ \A i \in DOMAIN results : results[i].rev = revision => Reached(results[i].log_start, i - 1)

LEMMA InitReaching == Init => Reaching
BY DEF Init, Reaching, Reached

LEMMA SameWindows ==
    ASSUME NEW s, NEW t, s.todo = t.todo, s.report = t.report
    PROVE  Complete(s) <=> Complete(t)
BY DEF Complete

LEMMA Numbers ==
    TypeOK =>
      /\ now \in Nat /\ monitor.log_end \in Nat \cup {None} /\ log_cursor \in Nat \cup {None}
      /\ None \notin Nat /\ Overlap \in Nat
      /\ monitor \in Monitor /\ saved \in Monitor /\ table \in Table /\ readable \subseteq Line
      /\ results \in Seq(Task) /\ Len(results) \in Nat /\ DOMAIN results = 1..Len(results)
      /\ \A i \in 1..Len(results) : results[i] \in Task
      /\ task \in Task \cup {None} /\ Line \subseteq Nat
<1> SUFFICES ASSUME TypeOK
             PROVE  /\ now \in Nat /\ monitor.log_end \in Nat \cup {None} /\ log_cursor \in Nat \cup {None}
                    /\ None \notin Nat /\ Overlap \in Nat
                    /\ monitor \in Monitor /\ saved \in Monitor /\ table \in Table
                    /\ readable \subseteq Line
                    /\ results \in Seq(Task) /\ Len(results) \in Nat /\ DOMAIN results = 1..Len(results)
                    /\ \A i \in 1..Len(results) : results[i] \in Task
                    /\ task \in Task \cup {None} /\ Line \subseteq Nat
  OBVIOUS
<1>1. Time \subseteq Nat /\ None \notin Nat /\ Overlap \in Nat /\ Line \subseteq Nat
  BY ConstantsAssumption, NoneAssumption DEF Time
<1>2. /\ now \in Time /\ monitor \in Monitor /\ saved \in Monitor /\ results \in Seq(Task)
      /\ log_cursor \in Time \cup {None} /\ task \in Task \cup {None} /\ table \in Table
      /\ readable \subseteq Line
  BY DEF TypeOK
<1>3. Len(results) \in Nat /\ DOMAIN results = 1..Len(results)
      /\ \A i \in 1..Len(results) : results[i] \in Task
  BY <1>2
<1> QED BY <1>1, <1>2, <1>3 DEF Monitor

LEMMA TaskNumbers ==
    ASSUME NEW t \in Task
    PROVE  t.log_end \in Nat /\ t.log_start \in Nat \cup {None}
BY DEF Task, Time

\* A result that is appended takes nothing away.
LEMMA ReachedStays ==
    ASSUME TypeOK, Finish \/ Fail, NEW s, NEW n \in 0..Len(results), Reached(s, n)
    PROVE  Reached(s, n)'
<1>1. \A i \in 1..n : i \in 1..Len(results)
  BY Numbers
<1>2. \A i \in 1..n : results'[i] = results[i]
  BY <1>1, Appending
<1>3. monitor' = monitor /\ revision' = revision
  BY DEF Finish, Fail
<1> QED BY <1>2, <1>3 DEF Reached

LEMMA ReachedMore ==
    ASSUME NEW s, NEW n \in Nat, NEW m \in Nat, n <= m, Reached(s, n)
    PROVE  Reached(s, m)
BY DEF Reached

\* Nor does the one that is taken: it is applied, or was of no use.
LEMMA ReachedTaken ==
    ASSUME TypeOK, Order, Deliver, NEW s \in Nat \cup {None}, NEW n \in 1..Len(results), Reached(s, n)
    PROVE  Reached(s, n - 1)'
<1> SUFFICES ASSUME s # None PROVE Reached(s, n - 1)'
  BY DEF Reached
<1>0. /\ Len(results) \in Nat \ {0} /\ results[1] \in Task
      /\ \A i \in 1..Len(results) : results[i] \in Task
      /\ \A i \in 1..(Len(results) - 1) : results'[i] = results[i + 1]
      /\ revision' = revision
      /\ monitor' = IF results[1].rev = revision THEN Applied(results[1]) ELSE monitor
  BY Taking DEF Deliver
<1>1. monitor'.log_end = IF results[1].rev = revision /\ Complete(results[1]) THEN results[1].log_end
                         ELSE monitor.log_end
  BY <1>0, AppliedEnd
<1>2. AtMost(monitor.log_end, results[1].log_end)
  <2>1. 1 \in DOMAIN results
    BY <1>0, Numbers
  <2> QED BY <2>1 DEF Order, Ordered
<1>3. results[1].log_end \in Nat /\ monitor.log_end \in Nat \cup {None} /\ None \notin Nat
  BY <1>0, Numbers, TaskNumbers
<1>4. CASE monitor.log_end # None /\ s <= monitor.log_end
  <2>1. monitor'.log_end # None /\ s <= monitor'.log_end
    BY <1>1, <1>2, <1>3, <1>4 DEF AtMost
  <2> QED BY <2>1 DEF Reached
<1>5. ASSUME NEW i \in 1..n, results[i].rev = revision, Complete(results[i]), s <= results[i].log_end
      PROVE  Reached(s, n - 1)'
  <2>1. CASE i = 1
    <3>1. monitor'.log_end # None /\ s <= monitor'.log_end
      BY <1>1, <1>3, <1>5, <2>1
    <3> QED BY <3>1 DEF Reached
  <2>2. CASE i # 1
    <3>1. i - 1 \in 1..(n - 1) /\ i - 1 \in 1..(Len(results) - 1) /\ (i - 1) + 1 = i
      BY <1>0, <2>2
    <3>2. results'[i - 1] = results[i]
      BY <1>0, <3>1
    <3> QED BY <1>0, <1>5, <3>1, <3>2 DEF Reached
  <2> QED BY <2>1, <2>2
<1> QED BY <1>4, <1>5 DEF Reached

\* A reload keeps it for what is still of the revision.
LEMMA ReachedReloaded ==
    ASSUME TypeOK, Order, NEW rev \in Revision, Reload(rev), rev = revision,
           NEW s, NEW n \in 0..Len(results), Reached(s, n)
    PROVE  Reached(s, n)'
<1>1. \A i \in 1..n : i \in 1..Len(results)
  BY Numbers
<1>2. \A i \in 1..n : /\ results'[i].rev = results[i].rev /\ results'[i].log_end = results[i].log_end
                      /\ Complete(results[i]) => Complete(results'[i])
  BY <1>1, Reloading DEF Complete
<1>3. monitor' = Reconfigured(monitor, rev) /\ monitor \in Monitor /\ JobOf[rev] = monitor.job
      /\ revision' = revision
  BY DEF Reload, TypeOK, Order, Scoped
<1>4. monitor'.log_end = monitor.log_end
  BY <1>3, ReconfiguredEnd
<1> QED BY <1>2, <1>3, <1>4 DEF Reached

\* Of another revision nothing is under way.
LEMMA NothingReturns ==
    ASSUME TypeOK, ~Returns, NEW rev \in Revision, Reload(rev), rev # revision
    PROVE  /\ ~(task' # None /\ task'.rev = revision')
           /\ \A i \in DOMAIN results' : results'[i].rev # revision'
<1>1. ~InFlight(rev) /\ revision' = rev
  BY DEF Reload
<1>2. task' # None => task # None /\ task'.rev = task.rev
  BY ReloadedTask
<1>3. \A i \in DOMAIN results' : i \in DOMAIN results /\ results'[i].rev = results[i].rev
  BY Reloading
<1> QED BY <1>1, <1>2, <1>3 DEF InFlight

LEMMA ReachingStep == ~Returns /\ TypeOK /\ Order /\ Reaching /\ [Next]_vars => Reaching'
<1> SUFFICES ASSUME ~Returns, TypeOK, Order, Reaching, [Next]_vars PROVE Reaching'
  OBVIOUS
<1>1. CASE Tick
  BY <1>1 DEF Tick, Reaching, Reached
<1>2. ASSUME NEW l \in Line, Ingest(l) PROVE Reaching'
  BY <1>2 DEF Ingest, Reaching, Reached
<1>3. CASE Start
  <2>1. task' # None => task'.log_start = log_cursor
    BY <1>3 DEF Start
  <2> QED BY <1>3, <2>1 DEF Start, Reaching, Reached
<1>4. CASE Open
  <2>1. task # None /\ task'.log_start = task.log_start /\ task'.rev = task.rev
    BY <1>4, Numbers DEF Open, Task
  <2> QED BY <1>4, <2>1 DEF Open, Reaching, Reached
<1>5. ASSUME NEW w \in Window, Read(w) PROVE Reaching'
  <2>1. task # None /\ task'.log_start = task.log_start /\ task'.rev = task.rev
    BY <1>5, Reading
  <2> QED BY <1>5, <2>1 DEF Read, Reaching, Reached
<1>6. CASE Finish \/ Fail
  <2>1. PICK r \in Task :
             /\ r = (IF Finish THEN Finished(task) ELSE Failed(task))
             /\ \A f \in {"rev", "log_start", "log_end", "scope"} : r[f] = task[f]
             /\ Len(results) \in Nat /\ Len(results') = Len(results) + 1
             /\ DOMAIN results = 1..Len(results) /\ DOMAIN results' = 1..(Len(results) + 1)
             /\ results'[Len(results) + 1] = r
             /\ \A i \in 1..Len(results) : results[i] \in Task /\ results'[i] = results[i]
    BY <1>6, Appending
  <2>2. task # None /\ task \in Task /\ task' = None /\ revision' = revision
    BY <1>6, Kept DEF Finish, Fail
  <2>3. ASSUME NEW s, Reached(s, Len(results)) PROVE Reached(s, Len(results))'
    <3>a. Len(results) \in 0..Len(results)
      BY <2>1
    <3>1. PICK n \in 0..Len(results) : n = Len(results)
      BY <3>a
    <3>2. Reached(s, n)
      BY <2>3, <3>1
    <3>3. Reached(s, n)'
      BY <1>6, <3>2, ReachedStays
    <3> QED BY <2>1, <3>1, <3>3 DEF Reached
  <2>4. Reached(log_cursor, Len(results))'
    <3>1. CASE log_cursor' = log_cursor
      BY <2>1, <2>3, <3>1 DEF Reaching, Reached
    <3>2. CASE log_cursor' # log_cursor
      <4>1. Finish /\ Advances(task) /\ log_cursor' = task.log_end
        BY <1>6, <3>2 DEF Finish, Fail
      <4>2. r.todo = task.todo /\ r.report = task.report
        BY <2>1, <2>2, <4>1, KeptType
      <4>3. Complete(r) /\ r.rev = revision
        BY <2>1, <4>1, <4>2, SameWindows DEF Advances
      <4>4. task.log_end <= r.log_end
        BY <2>1, <2>2, TaskNumbers
      <4> QED BY <2>1, <2>2, <4>1, <4>3, <4>4 DEF Reached
    <3> QED BY <3>1, <3>2
  <2>5. ASSUME NEW i \in DOMAIN results', results'[i].rev = revision'
        PROVE  Reached(results[i].log_start, i - 1)'
    <3>1. CASE i \in 1..Len(results)
      <4>1. Reached(results[i].log_start, i - 1) /\ i - 1 \in 0..Len(results)
        BY <2>1, <2>2, <2>5, <3>1 DEF Reaching
      <4>2. ASSUME NEW s, NEW n \in 0..Len(results), Reached(s, n) PROVE Reached(s, n)'
        BY <1>6, <4>2, ReachedStays
      <4>3. results'[i] = results[i]
        BY <2>1, <3>1
      <4> QED BY <4>1, <4>2, <4>3 DEF Reached
    <3>2. CASE i = Len(results) + 1
      <4>1. Reached(task.log_start, Len(results))
        BY <2>1, <2>2, <2>5, <3>2 DEF Reaching
      <4>2. ASSUME NEW s, NEW n \in 0..Len(results), Reached(s, n) PROVE Reached(s, n)'
        BY <1>6, <4>2, ReachedStays
      <4>3. results'[i].log_start = task.log_start /\ i - 1 = Len(results) /\ i - 1 \in 0..Len(results)
        BY <2>1, <3>2
      <4> QED BY <4>1, <4>2, <4>3 DEF Reached
    <3> QED BY <2>1, <2>5, <3>1, <3>2
  <2> QED BY <2>2, <2>4, <2>5 DEF Reaching
<1>7. CASE Deliver
  <2>1. /\ Len(results) \in Nat \ {0} /\ Len(results') = Len(results) - 1
        /\ DOMAIN results' = 1..(Len(results) - 1)
        /\ \A i \in 1..(Len(results) - 1) : results'[i] = results[i + 1] /\ i + 1 \in 1..Len(results)
        /\ UNCHANGED <<revision, log_cursor, task>>
    BY <1>7, Taking DEF Deliver
  <2>2. ASSUME NEW s \in Nat \cup {None}, NEW n \in 1..Len(results), Reached(s, n)
        PROVE  Reached(s, n - 1)'
    BY <1>7, <2>2, ReachedTaken
  <2>3. Len(results) \in 1..Len(results)
    BY <2>1
  <2>4. Reached(log_cursor, Len(results))'
    BY <2>1, <2>2, <2>3, Numbers DEF Reaching, Reached
  <2>5. task' # None /\ task'.rev = revision' => Reached(task.log_start, Len(results))'
    <3>1. task # None => task.log_start \in Nat \cup {None}
      BY Numbers, TaskNumbers
    <3> QED BY <2>1, <2>2, <2>3, <3>1 DEF Reaching, Reached
  <2>6. ASSUME NEW i \in DOMAIN results', results'[i].rev = revision'
        PROVE  Reached(results[i].log_start, i - 1)'
    <3>1. i + 1 \in DOMAIN results /\ results'[i] = results[i + 1] /\ i \in 1..Len(results)
          /\ (i + 1) - 1 = i
      BY <2>1, <2>6, Numbers
    <3>2. Reached(results[i + 1].log_start, i)
      BY <2>1, <2>6, <3>1 DEF Reaching
    <3>3. results[i + 1].log_start \in Nat \cup {None}
      BY <3>1, Numbers, TaskNumbers
    <3> QED BY <2>2, <3>1, <3>2, <3>3 DEF Reached
  <2> QED BY <2>4, <2>5, <2>6 DEF Reaching
<1>8. CASE Persist
  BY <1>8 DEF Persist, Reaching, Reached
<1>9. ASSUME NEW rev \in Revision, Reload(rev) PROVE Reaching'
  <2>1. /\ DOMAIN results' = 1..Len(results) /\ Len(results') = Len(results) /\ Len(results) \in Nat
        /\ DOMAIN results = 1..Len(results)
        /\ \A i \in 1..Len(results) : results'[i].log_start = results[i].log_start
                                       /\ results'[i].rev = results[i].rev
    BY <1>9, Reloading
  <2>2. Reached(log_cursor, Len(results))'
    BY <1>9 DEF Reload, Reached
  <2>3. CASE rev # revision
    BY <1>9, <2>2, <2>3, NothingReturns DEF Reaching
  <2>4. CASE rev = revision
    <3>1. ASSUME NEW s, NEW n \in 0..Len(results), Reached(s, n) PROVE Reached(s, n)'
      BY <1>9, <2>4, <3>1, ReachedReloaded
    <3>2. task' # None => task # None /\ task'.log_start = task.log_start /\ task'.rev = task.rev
      BY <1>9, ReloadedTask
    <3>3. revision' = revision /\ Len(results) \in 0..Len(results)
      BY <1>9, <2>1, <2>4 DEF Reload
    <3>4. task' # None /\ task'.rev = revision' => Reached(task.log_start, Len(results))'
      BY <2>1, <3>1, <3>2, <3>3 DEF Reaching, Reached
    <3>5. ASSUME NEW i \in DOMAIN results', results'[i].rev = revision'
          PROVE  Reached(results[i].log_start, i - 1)'
      <4>1. Reached(results[i].log_start, i - 1) /\ i - 1 \in 0..Len(results)
            /\ results'[i].log_start = results[i].log_start
        BY <2>1, <3>3, <3>5 DEF Reaching
      <4> QED BY <3>1, <4>1 DEF Reached
    <3> QED BY <2>2, <3>4, <3>5 DEF Reaching
  <2> QED BY <2>3, <2>4
<1>10. ASSUME NEW rev \in Revision, Restart(rev) PROVE Reaching'
  <2>1. task' = None /\ results' = <<>> /\ monitor' \in Monitor
        /\ log_cursor' \in {None, monitor'.log_end}
    BY <1>10, TypeStep DEF Restart, TypeOK, Next
  <2>2. monitor'.log_end # None => monitor'.log_end <= monitor'.log_end
    <3>1. monitor'.log_end \in Time \cup {None}
      BY <2>1 DEF Monitor
    <3>2. \A x \in Time : x <= x
      BY DEF Time
    <3> QED BY <3>1, <3>2
  <2> QED BY <2>1, <2>2 DEF Reaching, Reached
<1>11. CASE UNCHANGED vars
  BY <1>11 DEF vars, Reaching, Reached
<1> QED BY <1>1, <1>2, <1>3, <1>4, <1>5, <1>6, <1>7, <1>8, <1>9, <1>10, <1>11 DEF Next

-----------------------------------------------------------------------------
(* A collection that has a cursor reports what it skips.                   *)

NoSilence == "with a cursor" \notin monitor.skipped /\ "with a cursor" \notin saved.skipped

\* The result that is next began no later than what is applied ends.
LEMMA NextFollows ==
    ASSUME TypeOK, Order, Reaching, Deliver, results[1].rev = revision, results[1].log_start # None
    PROVE  /\ results[1] \in Task
           /\ monitor.log_end \in Nat /\ results[1].log_start \in Nat /\ results[1].log_end \in Nat
           /\ results[1].log_start <= monitor.log_end
           /\ monitor.log_end <= results[1].log_end
<1>1. 1 \in DOMAIN results /\ results[1] \in Task
  BY Taking, Numbers
<1>2. Reached(results[1].log_start, 0)
  BY <1>1 DEF Reaching
<1>3. monitor.log_end # None /\ results[1].log_start <= monitor.log_end
  BY <1>2 DEF Reached
<1>4. AtMost(monitor.log_end, results[1].log_end)
  BY <1>1 DEF Order, Ordered
<1>5. monitor.log_end \in Nat /\ results[1].log_start \in Nat /\ results[1].log_end \in Nat
  BY <1>1, <1>3, Numbers, TaskNumbers
<1> QED BY <1>1, <1>3, <1>4, <1>5 DEF AtMost

LEMMA NothingSkipped ==
    ASSUME TypeOK, Order, Reaching, Deliver, results[1].rev = revision, results[1].log_start # None,
           NEW w \in Window
    PROVE  Unreported(results[1], w) = {}
<1> DEFINE r == results[1]
<1>1. /\ r \in Task /\ monitor.log_end \in Nat /\ r.log_start \in Nat
      /\ r.log_start <= monitor.log_end /\ r.log_start # None /\ monitor.log_end # None
  BY NextFollows, Numbers
<1> HIDE DEF r
<1>2. Full(r, w) \in Int /\ Overlap \in Nat
  BY <1>1, BeginsType, Numbers
<1>3. ASSUME NEW x \in Time, monitor.log_end < x, x < Begins(r, w) PROVE x \in Gap(r, w)
  <2>0. x \in Nat
    BY DEF Time
  <2>1. x < Full(r, w) \/ x < r.log_start - Overlap
    BY <1>1, <1>2, <1>3 DEF Begins, Later
  <2>2. r.log_start < x /\ x < Full(r, w)
    BY <1>1, <1>2, <1>3, <2>0, <2>1
  <2> QED BY <1>1, <2>2 DEF Gap
<1>4. Unreported(r, w) = {}
  BY <1>1, <1>3 DEF Unreported
<1> QED BY <1>4 DEF r

LEMMA NoSilenceStep == TypeOK /\ Order /\ Reaching /\ NoSilence /\ [Next]_vars => NoSilence'
<1> SUFFICES ASSUME TypeOK, Order, Reaching, NoSilence, [Next]_vars PROVE NoSilence'
  OBVIOUS
<1>1. CASE Deliver
  <2>1. results[1] \in Task /\ saved' = saved
        /\ monitor' = IF results[1].rev = revision THEN Applied(results[1]) ELSE monitor
    BY <1>1, Taking DEF Deliver
  <2>2. CASE results[1].rev # revision
    BY <2>1, <2>2 DEF NoSilence
  <2>3. CASE results[1].rev = revision
    <3> DEFINE more == {IF results[1].log_start = None THEN "without a cursor" ELSE "with a cursor" :
                          w \in {v \in Window : Unreported(results[1], v) # {}}}
    <3>1. monitor'.skipped = monitor.skipped \cup IF ~Complete(results[1]) THEN {} ELSE more
      BY <2>1, <2>3, AppliedEnd
    <3>2. "with a cursor" \notin more
      <4>1. CASE results[1].log_start = None
        BY <4>1
      <4>2. CASE results[1].log_start # None
        <5>1. \A v \in Window : Unreported(results[1], v) = {}
          BY <1>1, <2>3, <4>2, NothingSkipped
        <5> QED BY <5>1
      <4> QED BY <4>1, <4>2
    <3> HIDE DEF more
    <3> QED BY <2>1, <3>1, <3>2 DEF NoSilence
  <2> QED BY <2>2, <2>3
<1>2. ASSUME NEW rev \in Revision, Reload(rev) \/ Restart(rev) PROVE NoSilence'
  <2>1. monitor \in Monitor /\ saved \in Monitor /\ saved' = saved
        /\ (monitor' = Reconfigured(monitor, rev) \/ monitor' = Reconfigured(saved, rev))
    BY <1>2, Numbers DEF Reload, Restart
  <2>2. monitor'.skipped \in {monitor.skipped, saved.skipped}
    BY <2>1, ReconfiguredEnd
  <2> QED BY <2>1, <2>2 DEF NoSilence
<1>3. CASE Tick \/ (\E l \in Line : Ingest(l)) \/ Start \/ Open \/ Finish \/ Fail \/ UNCHANGED vars
           \/ (\E w \in Window : Read(w)) \/ Persist
  BY <1>3 DEF Tick, Ingest, Start, Open, Finish, Fail, Read, Persist, vars, NoSilence
<1> QED BY <1>1, <1>2, <1>3 DEF Next

-----------------------------------------------------------------------------
(* What is known of the lines.                                             *)

\* The lines counted in a result that is applied, or will be before result n.
Known(w, n) ==
    monitor.seen[w] \cup
    {l \in Line : \E i \in 1..n : results[i].rev = revision /\ l \in results[i].report[w].counted}

LEMMA KnownMore ==
    ASSUME NEW w, NEW n \in Nat, NEW m \in Nat, n <= m
    PROVE  Known(w, n) \subseteq Known(w, m)
BY DEF Known

\* A result that is appended takes nothing away, and adds what it counted.
LEMMA KnownStays ==
    ASSUME TypeOK, Finish \/ Fail, NEW w \in Window, NEW n \in 0..Len(results)
    PROVE  Known(w, n)' = Known(w, n)
<1>1. \A i \in 1..n : i \in 1..Len(results)
  BY Numbers
<1>2. \A i \in 1..n : results'[i] = results[i]
  BY <1>1, Appending
<1>3. monitor' = monitor /\ revision' = revision
  BY DEF Finish, Fail
<1> QED BY <1>2, <1>3 DEF Known

LEMMA KnownAppended ==
    ASSUME TypeOK, Finish \/ Fail, NEW w \in Window
    PROVE  Known(w, Len(results)) \subseteq Known(w, Len(results))'
<1>1. Len(results) \in 0..Len(results) /\ Len(results') = Len(results) + 1 /\ Len(results) \in Nat
  BY Numbers, Appending
<1>2. PICK n \in 0..Len(results) : n = Len(results)
  BY <1>1
<1>3. Known(w, n)' = Known(w, n)
  BY KnownStays
<1> QED BY <1>1, <1>2, <1>3 DEF Known

\* The one that is taken is applied, if it is of the revision.
LEMMA KnownTaken ==
    ASSUME TypeOK, Deliver, NEW w \in Window, NEW n \in 1..Len(results)
    PROVE  Known(w, n - 1)' = Known(w, n)
<1>0. /\ Len(results) \in Nat \ {0} /\ results[1] \in Task
      /\ \A i \in 1..(Len(results) - 1) : results'[i] = results[i + 1]
      /\ revision' = revision
      /\ monitor' = IF results[1].rev = revision THEN Applied(results[1]) ELSE monitor
  BY Taking DEF Deliver
<1>1. monitor'.seen[w] = monitor.seen[w] \cup
        IF results[1].rev = revision THEN results[1].report[w].counted ELSE {}
  BY <1>0, AppliedEnd
<1>2. results[1].report[w].counted \subseteq Line
  BY <1>0 DEF Task, Report
<1>3. ASSUME NEW l, l \in Known(w, n) PROVE l \in Known(w, n - 1)'
  <2>1. CASE l \in monitor.seen[w]
    BY <1>1, <2>1 DEF Known
  <2>2. ASSUME NEW i \in 1..n, results[i].rev = revision, l \in results[i].report[w].counted, l \in Line
        PROVE  l \in Known(w, n - 1)'
    <3>1. CASE i = 1
      BY <1>1, <2>2, <3>1 DEF Known
    <3>2. CASE i # 1
      <4>1. i - 1 \in 1..(n - 1) /\ i - 1 \in 1..(Len(results) - 1) /\ (i - 1) + 1 = i
        BY <1>0, <3>2
      <4>2. results'[i - 1] = results[i]
        BY <1>0, <4>1
      <4> QED BY <1>0, <2>2, <4>1, <4>2 DEF Known
    <3> QED BY <3>1, <3>2
  <2> QED BY <1>3, <2>1, <2>2 DEF Known
<1>4. ASSUME NEW l, l \in Known(w, n - 1)' PROVE l \in Known(w, n)
  <2>0. 1 \in 1..n
    BY <1>0
  <2>1. CASE l \in monitor'.seen[w]
    BY <1>1, <1>2, <2>0, <2>1 DEF Known
  <2>2. ASSUME NEW i \in 1..(n - 1), results'[i].rev = revision, l \in results'[i].report[w].counted,
               l \in Line
        PROVE  l \in Known(w, n)
    <3>1. i + 1 \in 1..n /\ i \in 1..(Len(results) - 1)
      BY <1>0
    <3> QED BY <1>0, <2>2, <3>1 DEF Known
  <2> QED BY <1>0, <1>4, <2>1, <2>2 DEF Known
<1> QED BY <1>3, <1>4

LEMMA KnownReloaded ==
    ASSUME TypeOK, Order, NEW rev \in Revision, Reload(rev), rev = revision,
           NEW w \in Window, NEW n \in 0..Len(results)
    PROVE  Known(w, n)' = Known(w, n)
<1>1. \A i \in 1..n : i \in 1..Len(results)
  BY Numbers
<1>2. \A i \in 1..n : results'[i].rev = results[i].rev /\ results'[i].report = results[i].report
  BY <1>1, Reloading
<1>3. monitor' = Reconfigured(monitor, rev) /\ monitor \in Monitor /\ JobOf[rev] = monitor.job
      /\ revision' = revision
  BY DEF Reload, TypeOK, Order, Scoped
<1>4. monitor'.seen = monitor.seen
  BY <1>3, ReconfiguredEnd
<1> QED BY <1>2, <1>3, <1>4 DEF Known

-----------------------------------------------------------------------------
(* A fingerprint that suppresses a line vouches for it.                    *)

ReadInTime == \A l \in Line : l + Delay < now => l \in readable

\* A table's entries are of lines that were read, in windows that end by end.
Entries(t, end) ==
    \A w \in Window : \A l \in Line : t[w][l] # None =>
        l \in readable /\ l <= t[w][l] /\ t[w][l] <= end

\* What table t suppresses in the overlap of cursor c is counted.
Trusted(t, c) ==
    \A w \in Window : \A l \in Line :
        (t[w][l] # None /\ c # None /\ t[w][l] <= c /\ c - Overlap <= l)
            => l \in Known(w, Len(results))

Fingerprints ==
    /\ Entries(table, now)
    /\ Trusted(table, log_cursor)
    /\ task # None =>
        /\ Entries(table, task.log_end)
        /\ Trusted(table, task.log_start)
        /\ Entries(task.table, task.log_end)
        /\ task.rev = revision => Trusted(task.table, task.log_start)

\* What window w of the collection under way, read to its end, left uncounted is
\* known: the lines that had time to become readable, and those with an entry.
WholeTask ==
    task # None /\ task.rev = revision =>
        \A w \in Window \ task.todo : task.report[w].complete =>
            \A l \in Line :
                (/\ Begins(task, w) <= l
                 /\ l < task.log_end - Overlap \/ task.table[w][l] # None)
                    => l \in task.report[w].counted \cup Known(w, Len(results))

\* So it is of result i.
WholeResult(i) ==
    results[i].rev = revision /\ Complete(results[i]) =>
        \A w \in Window : \A l \in Line :
            (Begins(results[i], w) <= l /\ l < results[i].log_end - Overlap)
                => l \in results[i].report[w].counted \cup Known(w, i - 1)

Sound == ReadInTime /\ Fingerprints /\ WholeTask /\ \A i \in DOMAIN results : WholeResult(i)

LEMMA EmptyTable ==
    ASSUME NEW c
    PROVE  Entries(NoEntries, c) /\ Trusted(NoEntries, c)
BY DEF Entries, Trusted, NoEntries

LEMMA InitSound == Init => Sound
<1> SUFFICES ASSUME Init PROVE Sound
  OBVIOUS
<1>1. ReadInTime
  BY ConstantsAssumption DEF Init, ReadInTime, Time
<1>2. Fingerprints
  BY EmptyTable DEF Init, Fingerprints
<1> QED BY <1>1, <1>2 DEF Init, Sound, WholeTask

\* A step that leaves the monitor, the results and the revision alone leaves what
\* is known.
LEMMA KnownUnchanged ==
    ASSUME UNCHANGED <<monitor, results, revision>>
    PROVE  /\ \A w \in Window, n \in Nat : Known(w, n)' = Known(w, n)
           /\ \A t, c : Trusted(t, c) => Trusted(t, c)'
           /\ \A i \in DOMAIN results' : WholeResult(i) => WholeResult(i)'
BY DEF Known, Trusted, WholeResult, Begins, Full, Complete

LEMMA SoundTick == TypeOK /\ Order /\ Sound /\ Tick => Sound'
<1> SUFFICES ASSUME TypeOK, Order, Sound, Tick PROVE Sound'
  OBVIOUS
<1>1. now \in Nat /\ now' = now + 1 /\ now' \in Nat /\ table \in Table
      /\ UNCHANGED <<readable, revision, log_cursor, table, task, results, monitor>>
  BY Numbers DEF Tick
<1>2. ReadInTime'
  <2>1. \A l \in Line : l \in Nat
    BY Numbers
  <2>2. Delay \in Nat
    BY ConstantsAssumption
  <2> QED BY <1>1, <2>1, <2>2 DEF Tick, ReadInTime
<1>3. Entries(table, now)'
  <2>1. \A w \in Window : \A l \in Line : table[w][l] # None => table[w][l] \in Nat
    BY <1>1 DEF Table, Time
  <2>2. ASSUME NEW w \in Window, NEW l \in Line, table[w][l] # None
        PROVE  l \in readable /\ l <= table[w][l] /\ table[w][l] <= now + 1
    BY <1>1, <2>1, <2>2 DEF Sound, Fingerprints, Entries
  <2> QED BY <1>1, <2>2 DEF Entries
<1>4. Fingerprints'
  BY <1>1, <1>3, KnownUnchanged DEF Sound, Fingerprints, Entries, Trusted, Known
<1> QED BY <1>1, <1>2, <1>4, KnownUnchanged DEF Sound, WholeTask, Known, WholeResult, Begins, Full, Complete

LEMMA SoundIngest ==
    ASSUME TypeOK, Order, Sound, NEW k \in Line, Ingest(k)
    PROVE  Sound'
<1>1. readable' = readable \cup {k}
      /\ UNCHANGED <<now, revision, log_cursor, table, task, results, monitor>>
  BY DEF Ingest
<1>2. ReadInTime'
  BY <1>1 DEF Sound, ReadInTime
<1>3. Fingerprints'
  BY <1>1 DEF Sound, Fingerprints, Entries, Trusted, Known
<1> QED BY <1>1, <1>2, <1>3 DEF Sound, WholeTask, Known, WholeResult, Begins, Full, Complete

LEMMA SoundStart == TypeOK /\ Order /\ Sound /\ Start => Sound'
<1> SUFFICES ASSUME TypeOK, Order, Sound, Start PROVE Sound'
  OBVIOUS
<1>1. /\ task'.log_end = now /\ task'.log_start = log_cursor /\ task'.todo = Window
      /\ task'.table = NoEntries
      /\ UNCHANGED <<now, readable, revision, log_cursor, table, results, monitor>>
  BY DEF Start
<1>2. Entries(NoEntries, now)' /\ Trusted(NoEntries, log_cursor)'
  BY DEF Entries, Trusted, NoEntries
<1>3. Fingerprints'
  BY <1>1, <1>2 DEF Sound, Fingerprints, Entries, Trusted, Known
<1> QED BY <1>1, <1>3 DEF Sound, ReadInTime, WholeTask, Known, WholeResult, Begins, Full, Complete

LEMMA SoundOpen == TypeOK /\ Order /\ Sound /\ Open => Sound'
<1> SUFFICES ASSUME TypeOK, Order, Sound, Open PROVE Sound'
  OBVIOUS
<1>1. /\ task # None /\ task' = [task EXCEPT !.scope = "current", !.table = table] /\ task \in Task
      /\ UNCHANGED <<now, readable, revision, log_cursor, table, results, monitor>>
  BY Numbers DEF Open
<1>2. /\ task'.log_end = task.log_end /\ task'.log_start = task.log_start /\ task'.todo = task.todo
      /\ task'.table = table /\ task'.rev = task.rev
  BY <1>1 DEF Task
<1>3. task.todo = Window
  BY <1>1 DEF Open, Order, Scoped
<1>4. Fingerprints'
  BY <1>1, <1>2 DEF Sound, Fingerprints, Entries, Trusted, Known
<1> QED BY <1>1, <1>2, <1>3, <1>4 DEF Sound, ReadInTime, WholeTask, Known, WholeResult, Begins, Full, Complete

\* A window begins within what the cursor and the span reach.
LEMMA BeginsWithin ==
    ASSUME TypeOK, NEW t \in Task, NEW w \in Window, t.log_start # None => t.log_start <= t.log_end
    PROVE  /\ Begins(t, w) <= t.log_end - Overlap
           /\ t.log_start # None => t.log_start - Overlap <= Begins(t, w)
<1>1. /\ t.log_end \in Nat /\ t.log_start \in Nat \cup {None}
      /\ Overlap \in Nat /\ Span[w] \in Nat /\ Overlap <= Span[w]
  BY TaskNumbers, ConstantsAssumption
<1>2. Full(t, w) \in Int /\ Full(t, w) <= t.log_end - Overlap
  BY <1>1 DEF Full
<1>3. CASE t.log_start = None
  BY <1>2, <1>3 DEF Begins
<1>4. CASE t.log_start # None
  <2>1. t.log_start \in Nat /\ t.log_start <= t.log_end
    BY <1>1, <1>4
  <2>2. Begins(t, w) = Later(Full(t, w), t.log_start - Overlap)
    BY <1>4 DEF Begins
  <2> QED BY <1>1, <1>2, <2>1, <2>2 DEF Later
<1> QED BY <1>3, <1>4

LEMMA SoundRead ==
    ASSUME TypeOK, Order, Sound, NEW w \in Window, Read(w)
    PROVE  Sound'
<1> USE NoneAssumption
<1>1. /\ task # None /\ task \in Task /\ task' \in Task
      /\ task.scope # "none" /\ w \in task.todo
      /\ task'.rev = task.rev /\ task'.log_start = task.log_start /\ task'.log_end = task.log_end
      /\ task'.todo = task.todo \ {w}
      /\ \A v \in Window \ {w} : task'.report[v] = task.report[v] /\ task'.table[v] = task.table[v]
      /\ \A l \in Line :
           /\ l \in task'.report[w].counted =>
                /\ l \in readable /\ l <= task.log_end
                /\ task'.table[w][l] = task.log_end
           /\ l \notin task'.report[w].counted => task'.table[w][l] = task.table[w][l]
  BY Reading
<1>2. UNCHANGED <<now, readable, revision, log_cursor, table, results, monitor>>
  BY DEF Read
<1>3. /\ now \in Nat /\ task.log_end \in Nat /\ task.log_start \in Nat \cup {None} /\ None \notin Nat
      /\ task.log_end <= now /\ (task.log_start # None => task.log_start < task.log_end)
      /\ Overlap \in Nat /\ Delay \in Nat /\ Delay <= Overlap
  BY <1>1, Numbers, TaskNumbers, ConstantsAssumption DEF Order, Latest
<1>4. \A v \in Window, l \in Line : l \in Nat /\ task.table[v][l] \in Nat \cup {None}
  BY <1>1, Numbers DEF Task, Table, Time
<1>5. \A v \in Window : Known(v, Len(results))' = Known(v, Len(results))
  BY <1>2 DEF Known
<1>6. Entries(task.table, task.log_end)'
  <2> SUFFICES ASSUME NEW v \in Window, NEW l \in Line, task'.table[v][l] # None
               PROVE  l \in readable /\ l <= task'.table[v][l] /\ task'.table[v][l] <= task.log_end
    BY <1>1, <1>2 DEF Entries
  <2>1. CASE v = w /\ l \in task'.report[w].counted
    BY <1>1, <1>3, <2>1
  <2>2. CASE ~(v = w /\ l \in task'.report[w].counted)
    <3>1. task'.table[v][l] = task.table[v][l]
      BY <1>1, <2>2
    <3> QED BY <1>1, <3>1 DEF Sound, Fingerprints, Entries
  <2> QED BY <2>1, <2>2
<1>7. ASSUME task.rev = revision PROVE Trusted(task.table, task.log_start)'
  <2> SUFFICES ASSUME NEW v \in Window, NEW l \in Line, task'.table[v][l] # None,
                      task.log_start # None, task'.table[v][l] <= task.log_start,
                      task.log_start - Overlap <= l
               PROVE  l \in Known(v, Len(results))
    BY <1>1, <1>5 DEF Trusted
  <2>1. CASE v = w /\ l \in task'.report[w].counted
    BY <1>1, <1>3, <2>1
  <2>2. CASE ~(v = w /\ l \in task'.report[w].counted)
    <3>1. task'.table[v][l] = task.table[v][l]
      BY <1>1, <2>2
    <3> QED BY <1>1, <1>7, <3>1 DEF Sound, Fingerprints, Trusted
  <2> QED BY <2>1, <2>2
<1>8. Fingerprints'
  <2>1. Entries(table, now)' /\ Entries(table, task.log_end)'
    BY <1>1, <1>2 DEF Sound, Fingerprints, Entries
  <2>2. Trusted(table, log_cursor)' /\ Trusted(table, task.log_start)'
    BY <1>1, <1>2, <1>5 DEF Sound, Fingerprints, Trusted
  <2> QED BY <1>1, <1>2, <1>6, <1>7, <2>1, <2>2 DEF Fingerprints
<1>9. WholeTask'
  <2> SUFFICES ASSUME task.rev = revision, NEW v \in Window \ task'.todo, task'.report[v].complete,
                      NEW l \in Line, Begins(task, v) <= l,
                      l < task.log_end - Overlap \/ task'.table[v][l] # None
               PROVE  l \in task'.report[v].counted \cup Known(v, Len(results))
    BY <1>1, <1>2, <1>5 DEF WholeTask, Begins, Full
  <2>1. CASE v # w
    BY <1>1, <2>1 DEF Sound, WholeTask
  <2>2. CASE v = w /\ l \notin task'.report[w].counted
    <3>1. task'.table[w][l] = task.table[w][l]
      BY <1>1, <2>2
    <3>2. l \in readable /\ l <= task.log_end
      <4>1. CASE l < task.log_end - Overlap
        <5>1. l + Delay < now /\ l <= task.log_end
          BY <1>3, <1>4, <4>1
        <5> QED BY <5>1 DEF Sound, ReadInTime
      <4>2. CASE task.table[w][l] # None
        <5>1. l \in readable /\ l <= task.table[w][l] /\ task.table[w][l] <= task.log_end
          BY <1>1, <4>2 DEF Sound, Fingerprints, Entries
        <5> QED BY <1>3, <1>4, <4>2, <5>1
      <4> QED BY <2>2, <3>1, <4>1, <4>2
    <3>3. Suppressed(task.table[w][l], task.log_start)
      BY <2>2, <3>2, Reading
    <3>4. task.log_start - Overlap <= l
      <4>1. task.log_start # None
        BY <3>3 DEF Suppressed
      <4>2. task.log_start - Overlap <= Begins(task, w) /\ Begins(task, w) \in Int
        BY <1>1, <1>3, <4>1, BeginsWithin, BeginsType
      <4> QED BY <1>3, <1>4, <2>2, <4>1, <4>2
    <3> QED BY <1>1, <2>2, <3>3, <3>4 DEF Suppressed, Sound, Fingerprints, Trusted
  <2> QED BY <2>1, <2>2
<1> QED BY <1>2, <1>8, <1>9 DEF Sound, ReadInTime, Known, WholeResult, Begins, Full, Complete

LEMMA SoundKeep == TypeOK /\ Order /\ Sound /\ (Finish \/ Fail) => Sound'
<1> SUFFICES ASSUME TypeOK, Order, Sound, Finish \/ Fail PROVE Sound'
  OBVIOUS
<1> USE NoneAssumption
<1>1. PICK r \in Task :
             /\ r = (IF Finish THEN Finished(task) ELSE Failed(task))
             /\ \A f \in {"rev", "log_start", "log_end", "scope"} : r[f] = task[f]
             /\ Len(results) \in Nat /\ Len(results') = Len(results) + 1
             /\ DOMAIN results = 1..Len(results) /\ DOMAIN results' = 1..(Len(results) + 1)
             /\ results'[Len(results) + 1] = r
             /\ \A i \in 1..Len(results) : results[i] \in Task /\ results'[i] = results[i]
  BY Appending
<1>2. /\ task # None /\ task \in Task /\ task' = None
      /\ UNCHANGED <<now, readable, revision, monitor>>
      /\ table' = IF task.scope = "current" THEN task.table ELSE table
      /\ log_cursor' = IF Finish /\ Advances(task) THEN task.log_end ELSE log_cursor
  BY Kept DEF Finish, Fail
<1>3. /\ now \in Nat /\ task.log_end \in Nat /\ task.log_start \in Nat \cup {None} /\ None \notin Nat
      /\ task.log_end <= now /\ (task.log_start # None => task.log_start < task.log_end)
      /\ log_cursor \in {None, task.log_start}
      /\ Overlap \in Nat
  BY <1>2, Numbers, TaskNumbers, ConstantsAssumption DEF Order, Latest
<1>4. \A v \in Window : Known(v, Len(results)) \subseteq Known(v, Len(results))'
  BY KnownAppended
<1>5. Entries(table, now)'
  <2>1. \A v \in Window, l \in Line : l \in Nat /\ task.table[v][l] \in Nat \cup {None}
    BY <1>2, Numbers DEF Task, Table, Time
  <2>2. Entries(task.table, now)
    BY <1>2, <1>3, <2>1 DEF Sound, Fingerprints, Entries
  <2> QED BY <1>2, <2>2 DEF Sound, Fingerprints, Entries
<1>6. ASSUME Finish, Advances(task) PROVE Trusted(table, log_cursor)'
  <2>1. Complete(task) /\ task.rev = revision /\ log_cursor' = task.log_end
    BY <1>2, <1>6 DEF Advances
  <2>2. CASE task.scope = "current"
    <3> SUFFICES ASSUME NEW v \in Window, NEW l \in Line, task.table[v][l] # None,
                        task.log_end - Overlap <= l
                 PROVE  l \in Known(v, Len(results))'
      BY <1>2, <2>1, <2>2 DEF Trusted
    <3>1. v \in Window \ task.todo /\ task.report[v].complete
      BY <2>1 DEF Complete
    <3>2. Begins(task, v) <= l
      <4>1. Begins(task, v) <= task.log_end - Overlap /\ Begins(task, v) \in Int
        BY <1>2, <1>3, BeginsWithin, BeginsType
      <4>2. l \in Nat
        BY Numbers
      <4> QED BY <1>3, <4>1, <4>2
    <3>3. l \in task.report[v].counted \cup Known(v, Len(results))
      BY <1>2, <2>1, <3>1, <3>2 DEF Sound, WholeTask
    <3>4. ASSUME l \in task.report[v].counted PROVE l \in Known(v, Len(results))'
      <4>1. r.report = task.report /\ r.rev = revision
        BY <1>1, <1>2, <1>6, <2>1, KeptType
      <4>2. Len(results) + 1 \in 1..Len(results')
        BY <1>1
      <4> QED BY <1>1, <1>2, <3>4, <4>1, <4>2 DEF Known
    <3> QED BY <1>4, <3>3, <3>4
  <2>3. CASE task.scope # "current"
    <3>1. task.scope = "replaced"
      <4>1. task.todo # Window
        BY <2>1, ConstantsAssumption DEF Complete
      <4> QED BY <1>2, <2>3, <4>1 DEF Order, Scoped, Task
    <3>2. table' = NoEntries
      BY <1>2, <3>1 DEF Order, Scoped
    <3> QED BY <3>2 DEF Trusted, NoEntries
  <2> QED BY <2>2, <2>3
<1>7. ASSUME ~(Finish /\ Advances(task)) PROVE Trusted(table, log_cursor)'
  <2>1. log_cursor' = log_cursor
    BY <1>2, <1>7
  <2>2. CASE task.scope = "current"
    <3>1. Trusted(task.table, task.log_start)
      BY <1>2, <2>2 DEF Sound, Fingerprints, Order, Scoped
    <3> QED BY <1>2, <1>3, <1>4, <2>1, <2>2, <3>1 DEF Trusted
  <2>3. CASE task.scope # "current"
    BY <1>2, <1>4, <2>1, <2>3 DEF Sound, Fingerprints, Trusted
  <2> QED BY <2>2, <2>3
<1>8. Fingerprints'
  BY <1>2, <1>5, <1>6, <1>7 DEF Fingerprints
<1>9. ASSUME NEW i \in DOMAIN results' PROVE WholeResult(i)'
  <2>1. CASE i \in 1..Len(results)
    <3>1. i - 1 \in 0..Len(results) /\ results'[i] = results[i] /\ WholeResult(i)
      BY <1>1, <2>1 DEF Sound
    <3>2. \A w \in Window : Known(w, i - 1)' = Known(w, i - 1)
      BY <3>1, KnownStays
    <3> QED BY <1>2, <3>1, <3>2 DEF WholeResult, Begins, Full, Complete
  <2>2. CASE i = Len(results) + 1
    <3> SUFFICES ASSUME r.rev = revision, Complete(r), NEW w \in Window, NEW l \in Line,
                        Begins(r, w) <= l, l < r.log_end - Overlap
                 PROVE  l \in r.report[w].counted \cup Known(w, i - 1)'
      BY <1>1, <1>2, <2>2 DEF WholeResult, Begins, Full, Complete
    <3>1. Finish /\ r.todo = task.todo /\ r.report = task.report
      BY <1>1, <1>2, KeptType
    <3>2. /\ task.rev = revision /\ w \in Window \ task.todo /\ task.report[w].complete
          /\ Begins(task, w) <= l /\ l < task.log_end - Overlap
      BY <1>1, <3>1 DEF Complete, Begins, Full
    <3>3. l \in task.report[w].counted \cup Known(w, Len(results))
      BY <1>2, <3>2 DEF Sound, WholeTask
    <3>4. i - 1 = Len(results) /\ i - 1 \in 0..Len(results)
      BY <1>1, <2>2
    <3>5. Known(w, i - 1)' = Known(w, i - 1)
      BY <3>4, KnownStays
    <3> QED BY <3>1, <3>3, <3>4, <3>5
  <2> QED BY <1>1, <1>9, <2>1, <2>2
<1> QED BY <1>2, <1>8, <1>9 DEF Sound, ReadInTime, WholeTask

LEMMA SoundDeliver == TypeOK /\ Order /\ Sound /\ Deliver => Sound'
<1> SUFFICES ASSUME TypeOK, Order, Sound, Deliver PROVE Sound'
  OBVIOUS
<1>1. /\ Len(results) \in Nat \ {0} /\ Len(results') = Len(results) - 1
      /\ DOMAIN results = 1..Len(results) /\ DOMAIN results' = 1..(Len(results) - 1)
      /\ \A i \in 1..(Len(results) - 1) : results'[i] = results[i + 1]
      /\ UNCHANGED <<now, readable, revision, log_cursor, table, task>>
  BY Taking DEF Deliver
<1>2. \A w \in Window, n \in 1..Len(results) : Known(w, n - 1)' = Known(w, n)
  BY KnownTaken
<1>3. \A w \in Window : Known(w, Len(results))' = Known(w, Len(results))
  <2>1. PICK n \in 1..Len(results) : n = Len(results)
    <3>1. Len(results) \in 1..Len(results)
      BY <1>1
    <3> QED BY <3>1
  <2> QED BY <1>1, <1>2, <2>1 DEF Known
<1>4. Fingerprints'
  BY <1>1, <1>3 DEF Sound, Fingerprints, Entries, Trusted
<1>5. WholeTask'
  BY <1>1, <1>3 DEF Sound, WholeTask, Begins, Full
<1>6. ASSUME NEW i \in DOMAIN results' PROVE WholeResult(i)'
  <2>1. i + 1 \in DOMAIN results /\ results'[i] = results[i + 1] /\ (i + 1) - 1 = i /\ i \in 1..Len(results)
    BY <1>1
  <2>2. \A w \in Window : Known(w, i - 1)' = Known(w, i)
    BY <1>2, <2>1
  <2>3. WholeResult(i + 1)
    BY <2>1 DEF Sound
  <2> QED BY <1>1, <2>1, <2>2, <2>3 DEF WholeResult, Begins, Full, Complete
<1> QED BY <1>1, <1>4, <1>5, <1>6 DEF Sound, ReadInTime

LEMMA SoundReload ==
    ASSUME ~Returns, TypeOK, Order, Sound, NEW rev \in Revision, Reload(rev)
    PROVE  Sound'
<1>1. /\ DOMAIN results' = 1..Len(results) /\ Len(results') = Len(results) /\ Len(results) \in Nat
      /\ DOMAIN results = 1..Len(results)
      /\ \A i \in 1..Len(results) :
           /\ results'[i].rev = results[i].rev /\ results'[i].log_start = results[i].log_start
           /\ results'[i].log_end = results[i].log_end /\ results'[i].todo = results[i].todo
           /\ results'[i].report = results[i].report
  BY Reloading
<1>2. /\ table' = NoEntries /\ log_cursor' = None /\ UNCHANGED <<now, readable>>
  BY DEF Reload
<1>3. task' # None => /\ task # None /\ task'.log_end = task.log_end /\ task'.rev = task.rev
                      /\ task'.log_start = task.log_start /\ task'.todo = task.todo
                      /\ task'.table = task.table /\ task'.report = task.report
  BY ReloadedTask
<1>4. /\ Entries(table, now)' /\ Trusted(table, log_cursor)'
      /\ task' # None => Entries(table, task.log_end)' /\ Trusted(table, task.log_start)'
  BY <1>2 DEF Entries, Trusted, NoEntries
<1>5. task' # None => Entries(task.table, task.log_end)'
  BY <1>2, <1>3 DEF Sound, Fingerprints, Entries
<1>6. CASE rev # revision
  <2>1. /\ ~(task' # None /\ task'.rev = revision')
        /\ \A i \in DOMAIN results' : results'[i].rev # revision'
    BY <1>6, NothingReturns
  <2> QED BY <1>2, <1>4, <1>5, <2>1 DEF Sound, ReadInTime, Fingerprints, WholeTask, WholeResult
<1>7. CASE rev = revision
  <2>1. revision' = revision
    BY <1>7 DEF Reload
  <2>2. \A w \in Window, n \in 0..Len(results) : Known(w, n)' = Known(w, n)
    BY <1>7, KnownReloaded
  <2>3. \A w \in Window : Known(w, Len(results))' = Known(w, Len(results))
    <3>1. PICK n \in 0..Len(results) : n = Len(results)
      <4>1. Len(results) \in 0..Len(results)
        BY <1>1
      <4> QED BY <4>1
    <3> QED BY <1>1, <2>2, <3>1 DEF Known
  <2>4. task' # None /\ task'.rev = revision' => Trusted(task.table, task.log_start)'
    BY <1>3, <2>1, <2>3 DEF Sound, Fingerprints, Trusted
  <2>5. Fingerprints'
    BY <1>4, <1>5, <2>4 DEF Fingerprints
  <2>6. WholeTask'
    BY <1>3, <2>1, <2>3 DEF Sound, WholeTask, Begins, Full
  <2>7. ASSUME NEW i \in DOMAIN results' PROVE WholeResult(i)'
    <3>1. i - 1 \in 0..Len(results) /\ i \in DOMAIN results
      BY <1>1
    <3>2. \A w \in Window : Known(w, i - 1)' = Known(w, i - 1)
      BY <2>2, <3>1
    <3>3. WholeResult(i)
      BY <3>1 DEF Sound
    <3> QED BY <1>1, <2>1, <3>1, <3>2, <3>3 DEF WholeResult, Begins, Full, Complete
  <2> QED BY <1>2, <2>5, <2>6, <2>7 DEF Sound, ReadInTime
<1> QED BY <1>6, <1>7

LEMMA SoundStep == ~Returns /\ TypeOK /\ Order /\ Sound /\ [Next]_vars => Sound'
<1> SUFFICES ASSUME ~Returns, TypeOK, Order, Sound, [Next]_vars PROVE Sound'
  OBVIOUS
<1>1. CASE Persist \/ UNCHANGED vars
  <2>1. UNCHANGED <<now, readable, revision, log_cursor, table, task, results, monitor>>
    BY <1>1 DEF Persist, vars
  <2> QED BY <2>1 DEF Sound, ReadInTime, Fingerprints, Entries, Trusted, Known, WholeTask,
                      WholeResult, Begins, Full, Complete
<1>2. ASSUME NEW rev \in Revision, Restart(rev) PROVE Sound'
  <2>1. /\ table' = NoEntries /\ task' = None /\ results' = <<>> /\ UNCHANGED <<now, readable>>
    BY <1>2 DEF Restart
  <2>2. Entries(table, now)' /\ Trusted(table, log_cursor)'
    BY <2>1 DEF Entries, Trusted, NoEntries
  <2> QED BY <2>1, <2>2 DEF Sound, ReadInTime, Fingerprints, WholeTask
<1> QED BY <1>1, <1>2, SoundTick, SoundIngest, SoundStart, SoundOpen, SoundRead, SoundKeep,
           SoundDeliver, SoundReload DEF Next

-----------------------------------------------------------------------------
(* Every line that had time to become readable is counted.                 *)

Evidence(m) ==
    m.log_end # None =>
        \A w \in Window : \A l \in Line :
            (m.from[w] <= l /\ l < m.log_end - Overlap) => l \in m.seen[w]

LEMMA EvidenceApplied ==
    ASSUME TypeOK, Order, Reaching, Sound, Evidence(monitor), Deliver, results[1].rev = revision
    PROVE  Evidence(Applied(results[1]))
<1> DEFINE r == results[1]
           m == Applied(r)
<1>1. r \in Task /\ monitor \in Monitor /\ 1 \in DOMAIN results /\ m \in Monitor
  BY Taking, Numbers, AppliedType
<1>2. /\ m.log_end = IF Complete(r) THEN r.log_end ELSE monitor.log_end
      /\ \A w \in Window : m.seen[w] = monitor.seen[w] \cup r.report[w].counted
      /\ m.from = IF ~Complete(r) THEN monitor.from ELSE
           [w \in Window |-> IF Begins(r, w) # Full(r, w) THEN monitor.from[w] ELSE Full(r, w)]
  BY <1>1, AppliedEnd
<1>3. CASE ~Complete(r)
  BY <1>2, <1>3 DEF Evidence
<1>4. CASE Complete(r)
  <2> SUFFICES ASSUME NEW w \in Window, NEW l \in Line, m.from[w] <= l, l < r.log_end - Overlap
               PROVE  l \in m.seen[w]
    BY <1>2, <1>4 DEF Evidence
  <2>1. ASSUME Begins(r, w) <= l PROVE l \in m.seen[w]
    <3>1. Known(w, 1 - 1) = monitor.seen[w]
      BY DEF Known
    <3>2. WholeResult(1)
      BY <1>1 DEF Sound
    <3> QED BY <1>2, <1>4, <2>1, <3>1, <3>2 DEF WholeResult
  <2>2. CASE Begins(r, w) = Full(r, w)
    <3>1. m.from[w] = Full(r, w)
      BY <1>2, <1>4, <2>2
    <3> QED BY <2>1, <2>2, <3>1
  <2>3. CASE Begins(r, w) # Full(r, w)
    <3>1. m.from[w] = monitor.from[w]
      BY <1>2, <1>4, <2>3
    <3>2. r.log_start # None /\ Begins(r, w) = r.log_start - Overlap
      BY <2>3 DEF Begins, Later
    <3>3. /\ monitor.log_end \in Nat /\ r.log_start \in Nat /\ r.log_start <= monitor.log_end
          /\ Overlap \in Nat /\ l \in Nat /\ monitor.log_end # None
      BY <3>2, NextFollows, Numbers
    <3>4. CASE l < monitor.log_end - Overlap
      BY <1>2, <3>1, <3>3, <3>4 DEF Evidence
    <3>5. CASE ~(l < monitor.log_end - Overlap)
      <4>1. Begins(r, w) <= l
        BY <3>2, <3>3, <3>5
      <4> QED BY <2>1, <4>1
    <3> QED BY <3>4, <3>5
  <2> QED BY <2>2, <2>3
<1> QED BY <1>3, <1>4

LEMMA EvidenceReconfigured ==
    ASSUME NEW m \in Monitor, NEW rev \in Revision, Evidence(m)
    PROVE  Evidence(Reconfigured(m, rev))
<1>1. CASE JobOf[rev] = m.job
  BY <1>1, ReconfiguredEnd DEF Evidence
<1>2. CASE JobOf[rev] # m.job
  BY <1>2, ReconfiguredEnd DEF Evidence
<1> QED BY <1>1, <1>2

Evident == Evidence(monitor) /\ Evidence(saved)

LEMMA EvidentStep == TypeOK /\ Order /\ Reaching /\ Sound /\ Evident /\ [Next]_vars => Evident'
<1> SUFFICES ASSUME TypeOK, Order, Reaching, Sound, Evident, [Next]_vars PROVE Evident'
  OBVIOUS
<1>1. CASE Deliver
  <2>1. /\ monitor' = IF results[1].rev = revision THEN Applied(results[1]) ELSE monitor
        /\ saved' = saved
    BY <1>1, Taking DEF Deliver
  <2>2. results[1].rev = revision => Evidence(Applied(results[1]))
    BY <1>1, EvidenceApplied DEF Evident
  <2>3. Evidence(monitor)' /\ Evidence(saved)'
    BY <2>1, <2>2 DEF Evident, Evidence
  <2> QED BY <2>3 DEF Evident
<1>2. ASSUME NEW rev \in Revision, Reload(rev) \/ Restart(rev) PROVE Evident'
  <2>1. monitor \in Monitor /\ saved \in Monitor /\ saved' = saved
        /\ (monitor' = Reconfigured(monitor, rev) \/ monitor' = Reconfigured(saved, rev))
    BY <1>2, Numbers DEF Reload, Restart
  <2>2. Evidence(Reconfigured(monitor, rev)) /\ Evidence(Reconfigured(saved, rev))
    BY <2>1, EvidenceReconfigured DEF Evident
  <2>3. Evidence(monitor)' /\ Evidence(saved)'
    BY <2>1, <2>2 DEF Evident, Evidence
  <2> QED BY <2>3 DEF Evident
<1>3. CASE Tick \/ (\E l \in Line : Ingest(l)) \/ Start \/ Open \/ Finish \/ Fail \/ UNCHANGED vars
           \/ (\E w \in Window : Read(w)) \/ Persist
  BY <1>3 DEF Tick, Ingest, Start, Open, Finish, Fail, Read, Persist, vars, Evident, Evidence
<1> QED BY <1>1, <1>2, <1>3 DEF Next

-----------------------------------------------------------------------------
(* No line is counted twice by collections of one scope.                   *)

\* The lines that complete collections of the present scope counted: those that are
\* applied and those that will be before result n.
Settled(w, n) ==
    monitor.settled[w] \cup
    {l \in Line : \E i \in 1..n : /\ results[i].scope = "current" /\ Complete(results[i])
                                  /\ l \in results[i].report[w].counted}

\* Result i counts none of them.
Fresh(i) ==
    results[i].scope = "current" /\ Complete(results[i]) =>
        \A w \in Window : results[i].report[w].counted \cap Settled(w, i - 1) = {}

\* Table t suppresses them from cursor c on.
Suppressing(t, c) ==
    \A w \in Window : \A l \in Settled(w, Len(results)) : Suppressed(t[w][l], c)

\* So does the collection under way, and what it counts is new.
FreshTask ==
    task # None /\ task.scope = "current" =>
        /\ Suppressing(task.table, task.log_start)
        /\ \A w \in Window \ task.todo : \A l \in task.report[w].counted :
              task.table[w][l] = task.log_end /\ l \notin Settled(w, Len(results))

Once == (\A i \in DOMAIN results : Fresh(i)) /\ Suppressing(table, log_cursor) /\ FreshTask

LEMMA NothingSettled ==
    ASSUME monitor.settled = Nothing, \A i \in DOMAIN results : results[i].scope # "current",
           DOMAIN results = 1..Len(results), Len(results) \in Nat,
           task # None => task.scope # "current"
    PROVE  Once
<1>1. \A w \in Window : Settled(w, Len(results)) = {}
  BY DEF Settled, Nothing
<1> QED BY <1>1 DEF Once, Fresh, Suppressing, FreshTask

LEMMA InitOnce == Init => Once
BY NothingSettled DEF Init

LEMMA SettledUnchanged ==
    ASSUME UNCHANGED <<monitor, results>>
    PROVE  /\ \A w, n : Settled(w, n)' = Settled(w, n)
           /\ \A i \in DOMAIN results' : Fresh(i) => Fresh(i)'
           /\ \A t, c : Suppressing(t, c) => Suppressing(t, c)'
BY DEF Settled, Fresh, Suppressing, Complete

LEMMA SettledStays ==
    ASSUME TypeOK, Finish \/ Fail, NEW w \in Window, NEW n \in 0..Len(results)
    PROVE  Settled(w, n)' = Settled(w, n)
<1>1. \A i \in 1..n : i \in 1..Len(results)
  BY Numbers
<1>2. \A i \in 1..n : results'[i] = results[i]
  BY <1>1, Appending
<1>3. monitor' = monitor
  BY DEF Finish, Fail
<1> QED BY <1>2, <1>3 DEF Settled, Complete

LEMMA SettledTaken ==
    ASSUME TypeOK, Order, Deliver, NEW w \in Window, NEW n \in 1..Len(results)
    PROVE  Settled(w, n - 1)' = Settled(w, n)
<1> DEFINE Adds(i) == results[i].scope = "current" /\ Complete(results[i])
<1>0. /\ Len(results) \in Nat \ {0} /\ results[1] \in Task /\ 1 \in DOMAIN results
      /\ \A i \in 1..(Len(results) - 1) : results'[i] = results[i + 1]
      /\ monitor' = IF results[1].rev = revision THEN Applied(results[1]) ELSE monitor
  BY Taking, Numbers DEF Deliver
<1>1. monitor'.settled[w] = monitor.settled[w] \cup
        IF Adds(1) THEN results[1].report[w].counted ELSE {}
  <2>1. results[1].scope = "current" => results[1].rev = revision
    BY <1>0 DEF Order, Scoped
  <2> QED BY <1>0, <2>1, AppliedEnd
<1>2. results[1].report[w].counted \subseteq Line
  BY <1>0 DEF Task, Report
<1>3. ASSUME NEW l, l \in Settled(w, n) PROVE l \in Settled(w, n - 1)'
  <2>1. CASE l \in monitor.settled[w]
    BY <1>1, <2>1 DEF Settled
  <2>2. ASSUME NEW i \in 1..n, Adds(i), l \in results[i].report[w].counted, l \in Line
        PROVE  l \in Settled(w, n - 1)'
    <3>1. CASE i = 1
      BY <1>1, <2>2, <3>1 DEF Settled
    <3>2. CASE i # 1
      <4>1. i - 1 \in 1..(n - 1) /\ i - 1 \in 1..(Len(results) - 1) /\ (i - 1) + 1 = i
        BY <1>0, <3>2
      <4>2. results'[i - 1] = results[i]
        BY <1>0, <4>1
      <4> QED BY <1>0, <2>2, <4>1, <4>2 DEF Settled, Complete
    <3> QED BY <3>1, <3>2
  <2> QED BY <1>3, <2>1, <2>2 DEF Settled
<1>4. ASSUME NEW l, l \in Settled(w, n - 1)' PROVE l \in Settled(w, n)
  <2>0. 1 \in 1..n
    BY <1>0
  <2>1. CASE l \in monitor'.settled[w]
    BY <1>1, <1>2, <2>0, <2>1 DEF Settled
  <2>2. ASSUME NEW i \in 1..(n - 1), results'[i].scope = "current", Complete(results'[i]),
               l \in results'[i].report[w].counted, l \in Line
        PROVE  l \in Settled(w, n)
    <3>1. i + 1 \in 1..n /\ i \in 1..(Len(results) - 1)
      BY <1>0
    <3> QED BY <1>0, <2>2, <3>1 DEF Settled
  <2> QED BY <1>0, <1>4, <2>1, <2>2 DEF Settled, Complete
<1> QED BY <1>3, <1>4

LEMMA OnceRead ==
    ASSUME TypeOK, Order, Once, NEW w \in Window, Read(w)
    PROVE  Once'
<1>1. /\ task # None /\ task \in Task /\ task' \in Task /\ w \in task.todo
      /\ task'.scope = task.scope /\ task'.log_start = task.log_start /\ task'.log_end = task.log_end
      /\ task'.todo = task.todo \ {w}
      /\ \A v \in Window \ {w} : task'.report[v] = task.report[v] /\ task'.table[v] = task.table[v]
      /\ \A l \in Line :
           /\ l \in task'.report[w].counted =>
                /\ ~Suppressed(task.table[w][l], task.log_start)
                /\ task'.table[w][l] = task.log_end
           /\ l \notin task'.report[w].counted => task'.table[w][l] = task.table[w][l]
  BY Reading
<1>2. UNCHANGED <<log_cursor, table, results, monitor>>
  BY DEF Read
<1>3. \A v \in Window : Settled(v, Len(results))' = Settled(v, Len(results))
      /\ Settled(v, Len(results)) \subseteq Line
  <2>1. monitor \in Monitor
    BY Numbers
  <2> QED BY <1>2, <2>1 DEF Settled, Complete, Monitor
<1>4. ASSUME task.scope = "current" PROVE FreshTask'
  <2>1. \A l \in Settled(w, Len(results)) : l \notin task'.report[w].counted
    BY <1>1, <1>3, <1>4 DEF Once, FreshTask, Suppressing
  <2>2. Suppressing(task.table, task.log_start)'
    <3> SUFFICES ASSUME NEW v \in Window, NEW l \in Settled(v, Len(results))
                 PROVE  Suppressed(task'.table[v][l], task.log_start)
      BY <1>1, <1>3 DEF Suppressing
    <3>1. task'.table[v][l] = task.table[v][l]
      BY <1>1, <1>3, <2>1
    <3> QED BY <1>1, <1>4, <3>1 DEF Once, FreshTask, Suppressing
  <2>3. ASSUME NEW v \in Window \ task'.todo, NEW l \in task'.report[v].counted
        PROVE  task'.table[v][l] = task.log_end /\ l \notin Settled(v, Len(results))
    <3>1. CASE v = w
      <4>1. l \in Line
        BY <1>1, <2>3 DEF Task, Report
      <4> QED BY <1>1, <2>1, <2>3, <3>1, <4>1
    <3>2. CASE v # w
      BY <1>1, <1>4, <2>3, <3>2 DEF Once, FreshTask
    <3> QED BY <3>1, <3>2
  <2> QED BY <1>1, <1>3, <2>2, <2>3 DEF FreshTask
<1>5. FreshTask'
  BY <1>1, <1>4 DEF FreshTask
<1>6. Suppressing(table, log_cursor)'
  BY <1>2, <1>3 DEF Once, Suppressing
<1>7. \A i \in DOMAIN results' : Fresh(i)'
  BY <1>2, SettledUnchanged DEF Once
<1> QED BY <1>5, <1>6, <1>7 DEF Once

LEMMA OnceKeep == TypeOK /\ Order /\ Once /\ (Finish \/ Fail) => Once'
<1> SUFFICES ASSUME TypeOK, Order, Once, Finish \/ Fail PROVE Once'
  OBVIOUS
<1> USE NoneAssumption
<1>1. PICK r \in Task :
             /\ r = (IF Finish THEN Finished(task) ELSE Failed(task))
             /\ \A f \in {"rev", "log_start", "log_end", "scope"} : r[f] = task[f]
             /\ Len(results) \in Nat /\ Len(results') = Len(results) + 1
             /\ DOMAIN results = 1..Len(results) /\ DOMAIN results' = 1..(Len(results) + 1)
             /\ results'[Len(results) + 1] = r
             /\ \A i \in 1..Len(results) : results[i] \in Task /\ results'[i] = results[i]
  BY Appending
<1>2. /\ task # None /\ task \in Task /\ task' = None
      /\ UNCHANGED <<revision, monitor>>
      /\ table' = IF task.scope = "current" THEN task.table ELSE table
      /\ log_cursor' = IF Finish /\ Advances(task) THEN task.log_end ELSE log_cursor
  BY Kept DEF Finish, Fail
<1>3. /\ task.log_end \in Nat /\ task.log_start \in Nat \cup {None} /\ None \notin Nat
      /\ (task.log_start # None => task.log_start < task.log_end)
      /\ log_cursor \in {None, task.log_start}
  BY <1>2, Numbers, TaskNumbers DEF Order, Latest
<1>4. PICK n \in 0..Len(results) : n = Len(results)
  <2>1. Len(results) \in 0..Len(results)
    BY <1>1
  <2> QED BY <2>1
\* The finished collection adds what it counted, if it is complete.
<1> DEFINE adds == Finish /\ Complete(task) /\ task.scope = "current"
<1>5. adds => r.report = task.report /\ Advances(task)
  BY <1>1, <1>2, KeptType DEF Order, Scoped, Advances
<1>6. ASSUME r.scope = "current", Complete(r) PROVE adds
  <2>1. Finish /\ r.todo = task.todo /\ r.report = task.report
    BY <1>1, <1>2, <1>6, KeptType
  <2> QED BY <1>1, <1>6, <2>1, SameWindows
<1>7. ASSUME NEW w \in Window, NEW l \in Settled(w, Len(results))'
      PROVE  l \in Settled(w, Len(results)) \/ (adds /\ l \in task.report[w].counted)
  <2>1. Settled(w, n)' = Settled(w, n)
    BY SettledStays
  <2>2. CASE l \in Settled(w, n)'
    BY <1>4, <2>1, <2>2
  <2>3. CASE l \notin Settled(w, n)'
    <3>1. r.scope = "current" /\ Complete(r) /\ l \in r.report[w].counted
      <4>1. PICK i \in 1..Len(results') : /\ results'[i].scope = "current" /\ Complete(results'[i])
                                          /\ l \in results'[i].report[w].counted
        BY <1>7, <2>3 DEF Settled, Complete
      <4>2. i \notin 1..n
        BY <1>7, <2>3, <4>1 DEF Settled, Complete
      <4>3. i = Len(results) + 1
        BY <1>1, <1>4, <4>1, <4>2
      <4> QED BY <1>1, <4>1, <4>3
    <3> QED BY <1>5, <1>6, <3>1
  <2> QED BY <2>2, <2>3
<1>8. Suppressing(table, log_cursor)'
  <2> SUFFICES ASSUME NEW w \in Window, NEW l \in Settled(w, Len(results))'
               PROVE  Suppressed(table'[w][l], log_cursor')
    BY DEF Suppressing
  <2>1. CASE adds /\ l \in task.report[w].counted
    <3>1. table' = task.table /\ log_cursor' = task.log_end /\ w \in Window \ task.todo
      BY <1>2, <1>5, <2>1 DEF Complete
    <3>2. task.table[w][l] = task.log_end
      BY <1>2, <2>1, <3>1 DEF Once, FreshTask
    <3> QED BY <1>3, <3>1, <3>2 DEF Suppressed
  <2>2. CASE l \in Settled(w, Len(results))
    <3>1. Suppressed(table[w][l], log_cursor)
      BY <2>2 DEF Once, Suppressing
    <3>2. log_cursor # None /\ log_cursor = task.log_start
      BY <1>3, <3>1 DEF Suppressed
    <3>3. Suppressed(table'[w][l], task.log_start)
      BY <1>2, <2>2, <3>1, <3>2 DEF Once, FreshTask, Suppressing
    <3>4. log_cursor' \in Nat /\ task.log_start <= log_cursor'
      BY <1>2, <1>3, <3>2
    <3>5. table'[w][l] \in Nat \cup {None}
      <4>1. table' \in Table
        BY Kept
      <4>2. l \in Line
        <5>1. monitor \in Monitor
          BY Numbers
        <5> QED BY <2>2, <5>1 DEF Settled, Monitor
      <4> QED BY <4>1, <4>2 DEF Table, Time
    <3> QED BY <1>3, <3>2, <3>3, <3>4, <3>5 DEF Suppressed
  <2> QED BY <1>7, <2>1, <2>2
<1>9. ASSUME NEW i \in DOMAIN results' PROVE Fresh(i)'
  <2>1. i - 1 \in 0..Len(results) /\ i \in 1..(Len(results) + 1)
    BY <1>1
  <2>2. \A w \in Window : Settled(w, i - 1)' = Settled(w, i - 1)
    BY <2>1, SettledStays
  <2>3. CASE i \in 1..Len(results)
    <3>1. results'[i] = results[i] /\ Fresh(i)
      BY <1>1, <2>3 DEF Once
    <3> QED BY <2>2, <3>1 DEF Fresh, Complete
  <2>4. CASE i = Len(results) + 1
    <3> SUFFICES ASSUME r.scope = "current", Complete(r), NEW w \in Window
                 PROVE  r.report[w].counted \cap Settled(w, Len(results)) = {}
      <4>1. i - 1 = Len(results) /\ results'[i] = r
        BY <1>1, <2>4
      <4> QED BY <2>2, <4>1 DEF Fresh, Complete
    <3>1. adds /\ r.report = task.report /\ w \in Window \ task.todo
      BY <1>5, <1>6 DEF Complete
    <3> QED BY <1>2, <3>1 DEF Once, FreshTask
  <2> QED BY <1>1, <2>1, <2>3, <2>4
<1>10. FreshTask'
  BY <1>2 DEF FreshTask
<1> QED BY <1>8, <1>9, <1>10 DEF Once

LEMMA OnceDeliver == TypeOK /\ Order /\ Once /\ Deliver => Once'
<1> SUFFICES ASSUME TypeOK, Order, Once, Deliver PROVE Once'
  OBVIOUS
<1>1. /\ Len(results) \in Nat \ {0} /\ Len(results') = Len(results) - 1
      /\ DOMAIN results = 1..Len(results) /\ DOMAIN results' = 1..(Len(results) - 1)
      /\ \A i \in 1..(Len(results) - 1) : results'[i] = results[i + 1]
      /\ UNCHANGED <<log_cursor, table, task>>
  BY Taking DEF Deliver
<1>2. \A w \in Window, n \in 1..Len(results) : Settled(w, n - 1)' = Settled(w, n)
  BY SettledTaken
<1>3. ASSUME NEW w \in Window PROVE Settled(w, Len(results))' = Settled(w, Len(results))
  <2>1. PICK n \in 1..Len(results) : n = Len(results)
    <3>1. Len(results) \in 1..Len(results)
      BY <1>1
    <3> QED BY <3>1
  <2>2. Settled(w, n - 1)' = Settled(w, n) /\ n - 1 = Len(results')
    BY <1>1, <1>2, <2>1
  <2> QED BY <2>1, <2>2 DEF Settled
<1>4. Suppressing(table, log_cursor)' /\ FreshTask'
  BY <1>1, <1>3 DEF Once, Suppressing, FreshTask
<1>5. ASSUME NEW i \in DOMAIN results' PROVE Fresh(i)'
  <2>1. i + 1 \in DOMAIN results /\ results'[i] = results[i + 1] /\ (i + 1) - 1 = i /\ i \in 1..Len(results)
    BY <1>1
  <2>2. \A w \in Window : Settled(w, i - 1)' = Settled(w, i)
    BY <1>2, <2>1
  <2>3. Fresh(i + 1)
    BY <2>1 DEF Once
  <2> QED BY <2>1, <2>2, <2>3 DEF Fresh, Complete
<1> QED BY <1>4, <1>5 DEF Once

LEMMA OnceStep == TypeOK /\ Order /\ Once /\ [Next]_vars => Once'
<1> SUFFICES ASSUME TypeOK, Order, Once, [Next]_vars PROVE Once'
  OBVIOUS
<1>1. CASE Tick \/ (\E l \in Line : Ingest(l)) \/ Persist \/ UNCHANGED vars
  <2>1. UNCHANGED <<log_cursor, table, task, results, monitor>>
    BY <1>1 DEF Tick, Ingest, Persist, vars
  <2> QED BY <2>1 DEF Once, Fresh, Suppressing, FreshTask, Settled, Complete
<1>2. CASE Start
  <2>1. UNCHANGED <<log_cursor, table, results, monitor>> /\ task'.scope = "none"
    BY <1>2 DEF Start
  <2> QED BY <2>1 DEF Once, Fresh, Suppressing, FreshTask, Settled, Complete
<1>3. CASE Open
  <2>1. /\ task # None /\ task \in Task /\ task' = [task EXCEPT !.scope = "current", !.table = table]
        /\ task.scope = "none" /\ UNCHANGED <<log_cursor, table, results, monitor>>
    BY <1>3, Numbers DEF Open
  <2>2. /\ task'.log_start = task.log_start /\ task'.todo = Window /\ task'.table = table
    BY <2>1 DEF Task, Order, Scoped
  <2>3. Suppressing(table, task.log_start)
    <3>1. log_cursor \in {None, task.log_start}
      BY <2>1 DEF Order, Latest
    <3> QED BY <3>1 DEF Once, Suppressing, Suppressed
  <2>4. FreshTask'
    BY <2>1, <2>2, <2>3 DEF FreshTask, Suppressing, Settled, Complete
  <2> QED BY <2>1, <2>4 DEF Once, Fresh, Suppressing, Settled, Complete
<1>4. ASSUME NEW rev \in Revision, Reload(rev) PROVE Once'
  <2>1. /\ DOMAIN results' = 1..Len(results') /\ Len(results') \in Nat
        /\ \A i \in DOMAIN results' : results'[i].scope # "current"
    BY <1>4, Reloading
  <2>2. task' # None => task'.scope # "current"
    BY <1>4, ReloadedTask
  <2>3. monitor'.settled = Nothing
    BY <1>4, Numbers, ReconfiguredEnd DEF Reload
  <2> QED BY <2>1, <2>2, <2>3, NothingSettled DEF Once, Fresh, Suppressing, FreshTask, Settled, Nothing
<1>5. ASSUME NEW rev \in Revision, Restart(rev) PROVE Once'
  <2>1. /\ results' = <<>> /\ task' = None
    BY <1>5 DEF Restart
  <2>2. monitor'.settled = Nothing
    BY <1>5, Numbers, ReconfiguredEnd DEF Restart
  <2> QED BY <2>1, <2>2 DEF Once, Fresh, Suppressing, FreshTask, Settled, Nothing
<1> QED BY <1>1, <1>2, <1>3, <1>4, <1>5, OnceRead, OnceKeep, OnceDeliver DEF Next

-----------------------------------------------------------------------------
(* The theorems.  A reload that restores a configuration while a collection*)
(* of it is under way is excluded: the monitor has dropped results whose   *)
(* lines such a collection skips.                                          *)

IInv == /\ TypeOK /\ Order /\ Once
        /\ ~Returns => Reaching /\ NoSilence /\ Sound /\ Evident

LEMMA InitIInv == Init => IInv
<1> SUFFICES ASSUME Init PROVE IInv
  OBVIOUS
<1>1. NoSilence /\ Evident
  BY DEF Init, NoSilence, Evident, Evidence
<1> QED BY <1>1, InitType, InitOrder, InitOnce, InitReaching, InitSound DEF IInv

LEMMA StepIInv == IInv /\ [Next]_vars => IInv'
BY TypeStep, OrderStep, OnceStep, ReachingStep, NoSilenceStep, SoundStep, EvidentStep DEF IInv

\* An outage longer than a window is reported, whatever is dropped, cancelled or
\* repeated: what lies between the last complete collection and the next window of
\* a target with a cursor is in the interval that Window::plan reports as missing.
THEOREM OutageIsReported == Spec => [](~Returns => OutageReported)
<1>1. Init => IInv
  BY InitIInv
<1>2. IInv /\ [Next]_vars => IInv'
  BY StepIInv
<1>3. IInv => (~Returns => OutageReported)
  BY DEF IInv, NoSilence, OutageReported
<1> QED BY <1>1, <1>2, <1>3, PTL DEF Spec

\* The overlap of two windows counts no line twice (Dedupe), whatever is reloaded.
THEOREM NoLineTwice == Spec => []CountedOnce
<1>1. Init => IInv
  BY InitIInv
<1>2. IInv /\ [Next]_vars => IInv'
  BY StepIInv
<1>3. IInv => CountedOnce
  <2> SUFFICES ASSUME IInv, results # <<>>, Head(results).scope = "current",
                      Complete(Head(results)), NEW w \in Window
               PROVE  Head(results).report[w].counted \cap monitor.settled[w] = {}
    BY DEF CountedOnce
  <2>1. Head(results) = results[1] /\ 1 \in DOMAIN results
    BY DEF IInv, TypeOK
  <2>2. Fresh(1)
    BY <2>1 DEF IInv, Once
  <2>3. monitor.settled[w] \subseteq Settled(w, 1 - 1)
    BY DEF Settled
  <2> QED BY <2>1, <2>2, <2>3 DEF Fresh
<1> QED BY <1>1, <1>2, <1>3, PTL DEF Spec

\* Every line that had time to become readable is in a result the monitor has, and
\* is counted once.
THEOREM LinesAreCounted == Spec => [](~Returns => CountedExactlyOnce)
<1>1. Init => IInv
  BY InitIInv
<1>2. IInv /\ [Next]_vars => IInv'
  BY StepIInv
<1>3. IInv => (~Returns => EvidenceCounted)
  BY DEF IInv, Evident, Evidence, EvidenceCounted
<1>4. CountedOnce /\ (~Returns => EvidenceCounted) => (~Returns => CountedExactlyOnce)
  BY DEF CountedExactlyOnce
<1> QED BY <1>1, <1>2, <1>3, <1>4, NoLineTwice, PTL DEF Spec
=============================================================================
