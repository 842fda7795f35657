------------------------------ MODULE MCServices ------------------------------
(***************************************************************************)
(* Billing, and what the parts of the process share, for TLC: the budgets  *)
(* of the requests (Admission), the clients and listings of a target       *)
(* (Caches), the responses of the server (Reads).  Each behaviour is one   *)
(* of the part it belongs to, and the others stay as they began.           *)
(***************************************************************************)
EXTENDS Costs, TLC

CONSTANTS
    \* The constants of Admission, Caches and Reads, which share None with Costs.
    Caller, Scope, ScopeOf, Helper, Stuck, Attempts, Limits, MaxReloads,
    Check, Rev, Expired, MaxRenewals, MaxRotations,
    Reader, MaxGen, MaxMarks, MaxEntries,
    c1, c2, c3, s1, s2

VARIABLES
    part,
    \* Admission
    budget, scopes, pc, held, home, attempt, pending, reloads, removals, joined,
    \* Caches
    kube, current, scope, revision, renewals, collection, valid, refused,
    \* Reads
    generation, view, changed, seen, marks, cache, requests

admissionVars == <<budget, scopes, pc, held, home, attempt, pending, reloads, removals, joined>>
cachesVars == <<kube, current, scope, revision, renewals, collection, valid, refused>>
readsVars == <<generation, view, changed, seen, marks, cache, requests>>

A == INSTANCE Admission
C == INSTANCE Caches WITH reloads <- renewals, MaxReloads <- MaxRenewals
R == INSTANCE Reads WITH Request <- Reader, request <- requests

ASSUME PartsAssumption == A!ConstantsAssumption /\ C!ConstantsAssumption /\ R!ConstantsAssumption

\* A scope that is removed, one whose provider hangs, and a helper command.
Homes == (c1 :> s1) @@ (c2 :> s1) @@ (c3 :> s2)
Ceilings ==
    {[global |-> 2, process |-> 1, scope |-> (s1 :> n) @@ (s2 :> 1)] : n \in {0, 1}}
        \cup {[global |-> 3, process |-> 1, scope |-> (s1 :> 1) @@ (s2 :> 2)]}

-----------------------------------------------------------------------------
\* Where a part may begin in several ways, the others see it begin in one.
SuiteInit ==
    /\ part \in {"costs", "admission", "caches", "reads"}
    /\ Init /\ A!Init /\ C!Init /\ R!Init
    /\ part # "admission" => budget[A!Global].limit = 2
    /\ part # "caches" => ~kube
    /\ part # "costs" => kind = "aws" /\ size = 1

SuiteNext ==
    \/ /\ part = "costs" /\ Next
       /\ UNCHANGED <<part, admissionVars, cachesVars, readsVars>>
    \/ /\ part = "admission" /\ A!Next
       /\ UNCHANGED <<part, costs, cachesVars, readsVars>>
    \/ /\ part = "caches" /\ C!Next
       /\ UNCHANGED <<part, costs, admissionVars, readsVars>>
    \/ /\ part = "reads" /\ R!Next
       /\ UNCHANGED <<part, costs, admissionVars, cachesVars>>

suite == <<part, costs, admissionVars, cachesVars, readsVars>>

\* Each part's fairness, asked for in its own behaviours only.
V == part = "admission"
AdmissionFairness ==
    /\ WF_admissionVars(V /\ A!Replace)
    /\ \A c \in Caller :
        /\ WF_admissionVars(V /\ A!Take(c))
        /\ WF_admissionVars(V /\ A!Overtaken(c) /\ A!Leave(c))
        /\ WF_admissionVars(V /\ c \in Helper /\ (A!Answer(c) \/ A!Retry(c)))

W == part = "caches"
CachesFairness ==
    \A c \in Check :
        /\ WF_cachesVars(W /\ \E r \in Rev : C!Start(c, r))
        /\ WF_cachesVars(W /\ C!Loaded(c)) /\ WF_cachesVars(W /\ C!Answers(c))
        /\ SF_cachesVars(W /\ C!Client(c))
        /\ SF_cachesVars(W /\ C!Take(c)) /\ SF_cachesVars(W /\ C!Finish(c))

X == part = "costs"
CostsFairness == WF_costs(X /\ Worker) /\ \A i \in Id : WF_costs(X /\ JobEnds(i))

SuiteSpec ==
    SuiteInit /\ [][SuiteNext]_suite /\ AdmissionFairness /\ CachesFairness /\ CostsFairness

-----------------------------------------------------------------------------
\* The properties of the parts are stated and explained in their modules.

ScopeCeiling == A!ScopeCeiling

\* Caches: what checks share is handed to each once, and belongs to the current scope.
SharedIsSound == C!HandedOnce /\ C!ClientIsCurrent

\* Reads: what a reader sees, and what is announced to it, never goes back.
ReadersGoForward == R!HitsAreCurrent /\ R!AnnouncedIsReadable

\* Admission, Caches: a scope that hangs holds up no other, and a renewed credential is used.
OthersProceed == A!OthersProceed /\ C!Recovers
=============================================================================
