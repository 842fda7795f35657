------------------------------- MODULE MCMonitor -------------------------------
(***************************************************************************)
(* The process of the monitor for TLC: the writer of its publications      *)
(* (Publication) and the scheduler of its collections (Scheduler).  Each   *)
(* behaviour is one of the part it belongs to, and the other stays as it   *)
(* began.                                                                  *)
(***************************************************************************)
EXTENDS Publication, Scheduler

CONSTANTS a, b, east, west

VARIABLE part

Plain == [rev |-> 1, jobs |-> <<a, b>>, scope |-> [k \in {a, b} |-> east],
          limit |-> 2, scopeLimit |-> [s \in {east, west} |-> 1]]

\* One scope of its own for each job, of which one is removed, one moves to the other's scope
\* and the ceilings fall.
Reloads == LET apart == [Plain EXCEPT !.scope = [k \in {a, b} |-> IF k = a THEN east ELSE west]]
           IN  {apart, [Plain EXCEPT !.rev = 2],
                [apart EXCEPT !.rev = 3, !.jobs = <<b>>, !.limit = 1]}

ASSUME SchedulerAssumption == SchedulerConstants /\ EmptyAssumption

-----------------------------------------------------------------------------
SuiteInit ==
    /\ part \in {"publication", "scheduler"}
    /\ Init /\ SchedulerInit
    /\ part = "publication" => ~once /\ current = [Plain EXCEPT !.rev = 2]

SuiteNext ==
    \/ part = "publication" /\ Next /\ UNCHANGED <<part, schedulerVars>>
    \/ part = "scheduler" /\ SchedulerNext /\ UNCHANGED <<part, vars>>

\* Each part's fairness, asked for in its own behaviours only.
P == part = "publication"
S == part = "scheduler"
SuiteFairness ==
    /\ WF_vars(P /\ HistoryTick) /\ WF_vars(P /\ DiskTick) /\ WF_vars(P /\ BackoffEnds)
    /\ WF_vars(P /\ Write)
    /\ WF_schedulerVars(S /\ Admit) /\ WF_schedulerVars(S /\ Wake)
    /\ WF_schedulerVars(S /\ Send) /\ WF_schedulerVars(S /\ Drain) /\ WF_schedulerVars(S /\ End)
    /\ WF_schedulerVars(S /\ stopped /\ EndLoop)
    /\ SF_schedulerVars(S /\ Join) /\ SF_schedulerVars(S /\ Update)
    /\ WF_schedulerVars(S /\ Receive)
    /\ WF_schedulerVars(S /\ \E t \in tasks : Gather(t))
    /\ \A k \in Key : WF_schedulerVars(S /\ Elapse(k))

SuiteSpec == SuiteInit /\ [][SuiteNext]_<<part, vars, schedulerVars>> /\ SuiteFairness

-----------------------------------------------------------------------------
\* Scheduler: stop and reload get through, and a one-off run ends.
SignalsReached == S => SignalsArrive /\ OnceEnds
===============================================================================
