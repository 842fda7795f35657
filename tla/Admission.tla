------------------------------ MODULE Admission ------------------------------
(***************************************************************************)
(* What a request to a provider passes through: the budget of its scope,   *)
(* the budget of the process, for a helper command a subprocess slot       *)
(* (integrations/src/admission.rs, process.rs), and the retry loop around  *)
(* it (transport.rs).  Each budget is one of module Budget, here with its  *)
(* promise only: a FIFO of waiters, and no grant beyond the limit.         *)
(*                                                                         *)
(* A collection captures its budgets once (Context) and issues requests    *)
(* one after the other; a reload replaces the map of scopes meanwhile.     *)
(***************************************************************************)
EXTENDS Naturals, Sequences, FiniteSets, SequencesExt

CONSTANTS
    Caller,         \* collections, one request of each at a time
    Scope,
    ScopeOf,        \* the scope of each
    Helper,         \* callers whose request runs a helper command
    Stuck,          \* scopes whose provider may never answer
    Attempts,       \* settings.attempts
    Limits,         \* [global, process, scope] a configuration may ask for;
                    \* a scope with limit 0 has no job
    MaxReloads,     \* bound on reloads
    None

ConstantsAssumption ==
    /\ IsFiniteSet(Caller)
    /\ ScopeOf \in [Caller -> Scope]
    /\ "global" \notin Scope /\ "process" \notin Scope
    /\ Attempts \in Nat \ {0}
    /\ \A l \in Limits : l \in [global : Nat, process : Nat, scope : [Scope -> Nat]]
    /\ MaxReloads \in Nat
    /\ None \notin Limits /\ \A s \in Scope, n \in 0..MaxReloads : None # <<s, n>>

VARIABLES
    budget,         \* limit, used and waiters of every budget ever made
    scopes,         \* Limits::scopes: the budget each configured scope has now
    pc,             \* where a caller is
    held,           \* how many budgets of its path its request holds
    home,           \* the scope budget in its context
    attempt,
    pending,        \* a reload between its resize and its new map
    reloads,
    removals,       \* auxiliary: how often a scope was removed
    joined          \* auxiliary: that number when the caller took its context

avars == <<budget, scopes, pc, held, home, attempt, pending, reloads, removals, joined>>

Global == <<"global", 0>>
Process == <<"process", 0>>
Budgets == {Global, Process} \cup (Scope \X (0..MaxReloads))
Fresh(n) == [limit |-> n, used |-> 0, waiters |-> <<>>]

\* Mutant: the shared capacity first, then the scope's own.
PathGlobalFirst(c) == <<Global, home[c]>> \o (IF c \in Helper THEN <<Process>> ELSE <<>>)

\* The order in which a request takes its budgets.
Path(c) == <<home[c], Global>> \o (IF c \in Helper THEN <<Process>> ELSE <<>>)

Init ==
    /\ \E l \in Limits :
        /\ \A s \in Scope : l.scope[s] > 0
        /\ scopes = [s \in Scope |-> <<s, 0>>]
        /\ budget = [b \in Budgets |->
                        Fresh(IF b = Global THEN l.global
                              ELSE IF b = Process THEN l.process ELSE l.scope[b[1]])]
    /\ pc = [c \in Caller |-> "out"]
    /\ held = [c \in Caller |-> 0]
    /\ home = [c \in Caller |-> None]
    /\ attempt = [c \in Caller |-> 0]
    /\ pending = None
    /\ reloads = 0
    /\ removals = [s \in Scope |-> 0]
    /\ joined = [c \in Caller |-> 0]

-----------------------------------------------------------------------------
\* Collections.

\* A job of a scope that is gone fails with Cancelled and changes nothing.
Context(c) ==
    /\ pc[c] = "out"
    /\ scopes[ScopeOf[c]] # None
    /\ pc' = [pc EXCEPT ![c] = "idle"]
    /\ home' = [home EXCEPT ![c] = scopes[ScopeOf[c]]]
    /\ joined' = [joined EXCEPT ![c] = removals[ScopeOf[c]]]
    /\ UNCHANGED <<budget, scopes, held, attempt, pending, reloads, removals>>

Joins(b, c) == [budget EXCEPT ![b].waiters = Append(@, c)]

\* response() and, after a delay, its next attempt.
Request(c) ==
    /\ pc[c] \in {"idle", "delayed"}
    /\ pc' = [pc EXCEPT ![c] = "waiting"]
    /\ budget' = Joins(Path(c)[1], c)
    /\ UNCHANGED <<scopes, held, home, attempt, pending, reloads, removals, joined>>

\* The head of the queue gets its permit, and asks for the next one at once.
Take(c) ==
    /\ pc[c] = "waiting"
    /\ LET b == Path(c)[held[c] + 1]
           granted == [budget EXCEPT ![b].used = @ + 1, ![b].waiters = Tail(@)]
           last == held[c] + 1 = Len(Path(c))
       IN  /\ Head(budget[b].waiters) = c
           /\ budget[b].used < budget[b].limit
           /\ budget' = IF last THEN granted
                        ELSE [granted EXCEPT ![Path(c)[held[c] + 2]].waiters = Append(@, c)]
           /\ pc' = IF last THEN [pc EXCEPT ![c] = "working"] ELSE pc
    /\ held' = [held EXCEPT ![c] = @ + 1]
    /\ UNCHANGED <<scopes, home, attempt, pending, reloads, removals, joined>>

\* Everything a request holds is dropped, its place in a queue included.
Dropped(c) ==
    [b \in Budgets |->
        [budget[b] EXCEPT !.used = IF \E i \in 1..held[c] : Path(c)[i] = b THEN @ - 1 ELSE @,
                          !.waiters = SelectSeq(@, LAMBDA d : d # c)]]

\* The provider answered, or failed for good.
Answer(c) ==
    /\ pc[c] = "working"
    /\ budget' = Dropped(c)
    /\ pc' = [pc EXCEPT ![c] = "idle"]
    /\ held' = [held EXCEPT ![c] = 0]
    /\ attempt' = [attempt EXCEPT ![c] = 0]
    /\ UNCHANGED <<scopes, home, pending, reloads, removals, joined>>

\* A retryable failure: throttling is waited out after the permits are dropped.
Retry(c) ==
    /\ pc[c] = "working" /\ c \notin Helper
    /\ attempt[c] + 1 < Attempts
    /\ budget' = Dropped(c)
    /\ pc' = [pc EXCEPT ![c] = "delayed"]
    /\ held' = [held EXCEPT ![c] = 0]
    /\ attempt' = [attempt EXCEPT ![c] = @ + 1]
    /\ UNCHANGED <<scopes, home, pending, reloads, removals, joined>>

\* The deadline of the operation passes in a queue, at the provider or in a delay.
\* What attempts are left are polled once and time out as well.
Deadline(c) ==
    /\ pc[c] \in {"waiting", "working", "delayed"}
    /\ budget' = Dropped(c)
    /\ pc' = [pc EXCEPT ![c] = "idle"]
    /\ held' = [held EXCEPT ![c] = 0]
    /\ attempt' = [attempt EXCEPT ![c] = 0]
    /\ UNCHANGED <<scopes, home, pending, reloads, removals, joined>>

\* The collection ends, or its task is cancelled at any await.
Leave(c) ==
    /\ pc[c] # "out"
    /\ budget' = Dropped(c)
    /\ pc' = [pc EXCEPT ![c] = "out"]
    /\ held' = [held EXCEPT ![c] = 0]
    /\ home' = [home EXCEPT ![c] = None]
    /\ attempt' = [attempt EXCEPT ![c] = 0]
    /\ joined' = [joined EXCEPT ![c] = 0]
    /\ UNCHANGED <<scopes, pending, reloads, removals>>

-----------------------------------------------------------------------------
\* Reload: the global limit, then under the write lock the map; then the slots.

Resize(l) ==
    /\ pending = None /\ reloads < MaxReloads
    /\ budget' = [budget EXCEPT ![Global].limit = l.global]
    /\ pending' = l
    /\ reloads' = reloads + 1
    /\ UNCHANGED <<scopes, pc, held, home, attempt, removals, joined>>

\* Mutant: every reload makes new budgets.
NextMapFresh(l) == [s \in Scope |-> IF l.scope[s] = 0 THEN None ELSE <<s, reloads>>]

\* A scope that is configured keeps its budget; one that was not gets a new one.
NextMap(l) ==
    [s \in Scope |-> IF l.scope[s] = 0 THEN None
                     ELSE IF scopes[s] # None THEN scopes[s] ELSE <<s, reloads>>]

Replace ==
    /\ pending # None
    /\ LET next == NextMap(pending)
       IN  /\ scopes' = next
           /\ budget' = [b \in Budgets |->
                IF b = Process THEN [budget[b] EXCEPT !.limit = pending.process]
                ELSE IF b # Global /\ next[b[1]] = b
                     THEN [budget[b] EXCEPT !.limit = pending.scope[b[1]]] ELSE budget[b]]
    /\ removals' = [s \in Scope |->
            removals[s] + (IF scopes[s] # None /\ pending.scope[s] = 0 THEN 1 ELSE 0)]
    /\ pending' = None
    /\ UNCHANGED <<pc, held, home, attempt, reloads, joined>>

Next ==
    \/ \E c \in Caller : Context(c) \/ Request(c) \/ Take(c) \/ Answer(c) \/ Retry(c)
                            \/ Deadline(c) \/ Leave(c)
    \/ \E l \in Limits : Resize(l)
    \/ Replace

\* The scheduler cancels the tasks of a job that a reload removed.
Overtaken(c) == pc[c] # "out" /\ joined[c] # removals[ScopeOf[c]]

\* Queues move, a reload ends, a provider that is not stuck answers, a delay passes.
Fairness ==
    /\ WF_avars(Replace)
    /\ \A c \in Caller :
        /\ WF_avars(Take(c)) /\ WF_avars(Overtaken(c) /\ Leave(c))
        /\ WF_avars(ScopeOf[c] \notin Stuck /\ (Answer(c) \/ Retry(c)))

Spec == Init /\ [][Next]_avars /\ Fairness

-----------------------------------------------------------------------------
Place == {"out", "idle", "waiting", "working", "delayed"}

\* Type invariant: budgets, callers and the reload keep their shapes; a caller waits in
\* the queue of the next budget of its path, and nobody else is in a queue.
TypeOK ==
    /\ \A b \in Budgets :
        /\ budget[b].used \in 0..Cardinality(Caller)
        /\ \A c \in Range(budget[b].waiters) : pc[c] = "waiting" /\ Path(c)[held[c] + 1] = b
    /\ pc \in [Caller -> Place]
    /\ held \in [Caller -> 0..3]
    /\ \A c \in Caller : pc[c] = "waiting" => Contains(budget[Path(c)[held[c] + 1]].waiters, c)
    /\ attempt \in [Caller -> 0..(Attempts - 1)]
    /\ pending \in Limits \cup {None} /\ reloads \in 0..MaxReloads

\* Requests of a scope that hold one of its units, among those whose collection began
\* after the scope was last added.
Charged(s) == {c \in Caller : ScopeOf[c] = s /\ held[c] > 0 /\ joined[c] = removals[s]}

\* admission.rs:41: a request is admitted to a scope only while fewer requests than its
\* limit are charged to it, however often reloads came between; requests of a
\* scope that was removed in between are not counted.
ScopeCeiling ==
    [][\A s \in Scope :
        scopes[s] # None /\ Cardinality(Charged(s)') > Cardinality(Charged(s))
            => Cardinality(Charged(s)') <= budget[scopes[s]].limit]_avars

\* A request is served or ends though another scope's provider never answers, and
\* though requests take up to three budgets: no scope holds what another needs, and
\* no two wait for each other.
OthersProceed ==
    \A c \in Caller : ScopeOf[c] \notin Stuck => []<>(pc[c] # "waiting")
=============================================================================
