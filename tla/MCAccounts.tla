------------------------------ MODULE MCAccounts ------------------------------
(***************************************************************************)
(* The two counters, the journal's and the budget's, for TLC: each         *)
(* behaviour is one of the part it belongs to.                             *)
(***************************************************************************)
EXTENDS Journal, Budget, TLC

CONSTANTS p1, p2, p3

VARIABLE part

\* One of the three asks for two units and does not wait.
Amounts == [p \in {p1, p2, p3} |-> IF p = p3 THEN 2 ELSE 1]

ASSUME BudgetAssumption == BudgetConstants

\* The part that does not move begins in one way only.
SuiteInit ==
    /\ part \in {"journal", "budget"}
    /\ Init /\ BudgetInit
    /\ part = "journal" => limit = 1

SuiteNext ==
    \/ part = "journal" /\ Next /\ UNCHANGED <<part, budgetVars>>
    \/ part = "budget" /\ BudgetNext /\ UNCHANGED <<part, vars>>

\* What the initial state enables is asked for in the part's own behaviours only.
J == part = "journal"
SuiteFairness ==
    /\ WF_vars(J /\ Send) /\ WF_vars(J /\ Start) /\ WF_vars(J /\ Rest) /\ WF_vars(J /\ Gather)
    /\ WF_vars(J /\ Swap) /\ WF_vars(J /\ Write) /\ SF_vars(J /\ Receive)
    /\ BudgetFairness

SuiteSpec == SuiteInit /\ [][SuiteNext]_<<part, vars, budgetVars>> /\ SuiteFairness
=============================================================================
