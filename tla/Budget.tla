------------------------------- MODULE Budget -------------------------------
(***************************************************************************)
(* The resizable reservation counter of crates/core/src/budget.rs, one     *)
(* atomic operation at a time.  It has no semaphore inside: a caller loads *)
(* used, compares with limit, swaps, and compares again, because the limit *)
(* may have been lowered in between; whoever gives capacity back notifies  *)
(* the waiters after the fact.                                             *)
(*                                                                         *)
(* Waiters call acquire(), which takes a FIFO turn and tries again after   *)
(* each notification; the other callers call try_acquire_many_owned() for  *)
(* their amount and take no for an answer.                                 *)
(***************************************************************************)
EXTENDS Integers, Sequences, FiniteSets

CONSTANTS
    Proc,           \* the callers
    Waiter,         \* those that call acquire()
    Amount,         \* what each asks for
    Limits,         \* limits a reload may set
    MaxResizes      \* bound on reloads

BudgetConstants ==
    /\ IsFiniteSet(Proc)
    /\ Waiter \subseteq Proc
    /\ Amount \in [Proc -> Nat \ {0}]
    /\ \A p \in Waiter : Amount[p] = 1
    /\ Limits \subseteq Nat
    /\ MaxResizes \in Nat

VARIABLES
    limit,
    used,
    pc,         \* where each caller is
    seen,       \* the value of used it last read
    turns,      \* the admission mutex: its holder, then who waits for it
    woken,      \* waiters whose Notified has been notified
    resizing,   \* a resize has stored its limit and not notified yet
    resizes,
    settled     \* auxiliary: callers charged after the last resize

budgetVars == <<limit, used, pc, seen, turns, woken, resizing, resizes, settled>>

Charging == {"charged", "over", "held"}
Trying == {"armed", "loaded", "allowed", "charged", "over", "undone"}
Location == Trying \cup {"idle", "queued", "parked", "held", "released"}

Go(p, l) == pc' = [pc EXCEPT ![p] = l]

\* Mutant: a Notified counts only once its owner awaits it.
EnabledWhenParked == {p \in Waiter : pc[p] = "parked"}

\* The waiters a notification reaches: those whose Notified is enabled.
Enabled == {p \in Waiter : pc[p] \in Trying \cup {"parked"}}

BudgetInit ==
    /\ limit \in Limits
    /\ used = 0
    /\ pc = [p \in Proc |-> "idle"]
    /\ seen = [p \in Proc |-> 0]
    /\ turns = <<>>
    /\ woken = {}
    /\ resizing = FALSE
    /\ resizes = 0
    /\ settled = {}

-----------------------------------------------------------------------------
(* acquire. *)

\* admission.lock(): first come, first served.
Enqueue(p) ==
    /\ p \in Waiter
    /\ pc[p] = "idle"
    /\ Go(p, "queued")
    /\ turns' = Append(turns, p)
    /\ UNCHANGED <<limit, used, seen, woken, resizing, resizes, settled>>

\* notified() and enable(), on the waiter's turn and after each notification.
Arm(p) ==
    /\ p \in Waiter
    /\ \/ pc[p] = "queued" /\ Head(turns) = p
       \/ pc[p] = "parked" /\ p \in woken
    /\ Go(p, "armed")
    /\ woken' = woken \ {p}
    /\ UNCHANGED <<limit, used, seen, turns, resizing, resizes, settled>>

\* The future is dropped where it waits: a timeout or a cancelled check.
Cancel(p) ==
    /\ p \in Waiter
    /\ pc[p] \in {"queued", "parked"}
    /\ Go(p, "idle")
    /\ turns' = SelectSeq(turns, LAMBDA q : q # p)
    /\ woken' = woken \ {p}
    /\ UNCHANGED <<limit, used, seen, resizing, resizes, settled>>

-----------------------------------------------------------------------------
(* try_acquire_many_owned, which acquire calls too. *)

Load(p) ==
    /\ pc[p] = (IF p \in Waiter THEN "armed" ELSE "idle")
    /\ seen' = [seen EXCEPT ![p] = used]
    /\ Go(p, "loaded")
    /\ UNCHANGED <<limit, used, turns, woken, resizing, resizes, settled>>

\* What an error means to the caller.
Refused(p) == Go(p, IF p \in Waiter THEN "parked" ELSE "idle")

Compare(p) ==
    /\ pc[p] = "loaded"
    /\ IF seen[p] + Amount[p] > limit THEN Refused(p) ELSE Go(p, "allowed")
    /\ UNCHANGED <<limit, used, seen, turns, woken, resizing, resizes, settled>>

\* compare_exchange_weak: it fails when used has changed, and may fail anyway.
Exchange(p) ==
    /\ pc[p] = "allowed"
    /\ \/ /\ used = seen[p]
          /\ used' = used + Amount[p]
          /\ settled' = settled \cup {p}
          /\ Go(p, "charged")
          /\ UNCHANGED seen
       \/ /\ seen' = [seen EXCEPT ![p] = used]
          /\ Go(p, "loaded")
          /\ UNCHANGED <<used, settled>>
    /\ UNCHANGED <<limit, turns, woken, resizing, resizes>>

StillFits(p) == seen[p] + Amount[p] <= limit

\* The limit is read again: a permit, or the charge is taken back.
Recheck(p) ==
    /\ pc[p] = "charged"
    /\ IF StillFits(p)
       THEN /\ Go(p, "held")
            /\ turns' = IF p \in Waiter THEN Tail(turns) ELSE turns
            /\ woken' = woken \ {p}
       ELSE Go(p, "over") /\ UNCHANGED <<turns, woken>>
    /\ UNCHANGED <<limit, used, seen, resizing, resizes, settled>>

\* Mutant: a permit gives back one unit, whatever it holds.
RefundOne(p) == used' = used - 1

\* fetch_sub of what was charged.
Refund(p) == used' = used - Amount[p]

TakeBack(p) ==
    /\ pc[p] = "over"
    /\ Refund(p)
    /\ Go(p, "undone")
    /\ settled' = settled \ {p}
    /\ UNCHANGED <<limit, seen, turns, woken, resizing, resizes>>

Refuse(p) ==
    /\ pc[p] = "undone"
    /\ woken' = woken \cup Enabled
    /\ Refused(p)
    /\ UNCHANGED <<limit, used, seen, turns, resizing, resizes, settled>>

-----------------------------------------------------------------------------
(* Drop for Permit, and resize. *)

Release(p) ==
    /\ pc[p] = "held"
    /\ Refund(p)
    /\ Go(p, "released")
    /\ settled' = settled \ {p}
    /\ UNCHANGED <<limit, seen, turns, woken, resizing, resizes>>

Return(p) ==
    /\ pc[p] = "released"
    /\ woken' = woken \cup Enabled
    /\ Go(p, "idle")
    /\ UNCHANGED <<limit, used, seen, turns, resizing, resizes, settled>>

Store(n) ==
    /\ ~resizing
    /\ resizes < MaxResizes
    /\ limit' = n
    /\ resizing' = TRUE
    /\ resizes' = resizes + 1
    /\ settled' = {}
    /\ UNCHANGED <<used, pc, seen, turns, woken>>

Announce ==
    /\ resizing
    /\ woken' = woken \cup Enabled
    /\ resizing' = FALSE
    /\ UNCHANGED <<limit, used, pc, seen, turns, resizes, settled>>

Attempt(p) == Load(p) \/ Compare(p) \/ Exchange(p) \/ Recheck(p) \/ TakeBack(p) \/ Refuse(p)

BudgetNext ==
    \/ \E p \in Proc :
        \/ Enqueue(p) \/ Arm(p) \/ Cancel(p)
        \/ Attempt(p)
        \/ Release(p) \/ Return(p)
    \/ \E n \in Limits : Store(n)
    \/ Announce

BudgetSpec == BudgetInit /\ [][BudgetNext]_budgetVars

\* Callers run, permits are dropped when their operation ends, a swap does not
\* fail for no reason for ever.
BudgetFairness ==
    /\ WF_budgetVars(Announce)
    /\ \A p \in Proc :
        /\ WF_budgetVars(Arm(p))
        /\ WF_budgetVars(pc[p] # "idle" /\ Attempt(p))
        /\ SF_budgetVars(Exchange(p) /\ used' # used)
        /\ WF_budgetVars(Release(p))
        /\ WF_budgetVars(Return(p))

FairBudget == BudgetSpec /\ BudgetFairness

-----------------------------------------------------------------------------
\* Every part keeps its shape, and the turns are held by who asks for them.
BudgetType ==
    /\ limit \in Limits
    /\ used \in Nat
    /\ pc \in [Proc -> Location]
    /\ seen \in [Proc -> Nat]
    /\ turns \in Seq(Waiter)
    /\ Len(turns) <= Cardinality(Waiter)
    /\ woken \subseteq Waiter
    /\ resizing \in BOOLEAN
    /\ resizes \in 0 .. MaxResizes
    /\ settled \subseteq Proc

\* The units the callers ps ask for.
Units(ps) == UNION {{p} \X (1 .. Amount[p]) : p \in ps}
Sum(ps) == Cardinality(Units(ps))
In(ls) == {p \in Proc : pc[p] \in ls}

\* used is what the permits and the attempts in their window have charged:
\* neither a swap, a rollback, a release nor a resize loses a unit.
Accounted == used = Sum(In(Charging))

\* "Existing reservations retain their charge; new admissions wait until they
\* fit": a permit whose charge came after the last resize is granted only when
\* all permits together fit the limit.
GrantFits(p) ==
    pc[p] = "charged" /\ pc'[p] = "held" /\ p \in settled =>
        Sum({q \in Proc : pc'[q] = "held"}) <= limit

\* Charges are neither lost nor granted beyond the limit.
PermitsAccounted == [][Accounted' /\ \A p \in Proc : GrantFits(p)]_budgetVars

\* Once callers that do not wait no longer take what is given back, every waiter
\* gets its permit, unless it is cancelled.
AcquireEnds ==
    <>[](\A p \in Proc \ Waiter : pc[p] = "idle")
        => \A p \in Waiter : []<>(pc[p] \in {"held", "idle"})
=============================================================================
