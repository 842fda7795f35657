--------------------------------- MODULE Fanout --------------------------------
(***************************************************************************)
(* One collection of an inventory: branches that each read an endpoint run *)
(* at the same time, what they read asks for further endpoints, and three  *)
(* limits cut it: the budget all branches charge while they read, the      *)
(* budget of the merged result, and the queue of further endpoints.        *)
(***************************************************************************)
EXTENDS Naturals, Sequences, FiniteSets, SequencesExt, Functions

CONSTANTS
    Endpoint,       \* what can be asked for, one operation each
    Offered,        \* the sequence of endpoints a collection begins with
    Follow,         \* the endpoints the rows of an endpoint ask for, a row each
    Settings        \* width (branches at the same time), assets (max_assets: endpoints asked,
                    \* and operations merged), queue (ready_queue, or its bytes), read (rows
                    \* all branches may read), merged (rows and operations of the result)

ConstantsAssumption ==
    /\ IsFiniteSet(Endpoint)
    /\ Offered \in Seq(Endpoint)
    /\ Follow \in [Endpoint -> Seq(Endpoint)]
    /\ Settings \subseteq [width : Nat, assets : Nat, queue : Nat, read : Nat, merged : Nat]

VARIABLES
    settings,
    initial,        \* endpoints of the beginning that were not taken yet
    pending,        \* further endpoints
    visited,        \* endpoints that were taken
    running,        \* branches: rows read, and the coverage once it ended
    used,           \* the charge of the collection
    spent,          \* the charge of the result
    ops,            \* the operations of the result and their coverage
    kept,           \* endpoints whose rows the result holds, all of them
    limited,        \* mark_limited
    cancelled,
    phase           \* "launch", "await" or "done"

vars == <<settings, initial, pending, visited, running, used, spent, ops, kept, limited,
          cancelled, phase>>

Rows(e) == Len(Follow[e])
Read(e) == running[e].read
Ended(e) == running[e].coverage # "reading"
Put(f, x, v) == [y \in DOMAIN f \cup {x} |-> IF y = x THEN v ELSE f[y]]

-----------------------------------------------------------------------------
Init ==
    /\ settings \in Settings
    /\ initial = Offered /\ pending = <<>> /\ visited = {}
    /\ running = <<>> /\ used = 0 /\ spent = 0 /\ ops = <<>> /\ kept = {}
    /\ limited = FALSE /\ cancelled = FALSE /\ phase = "launch"

Exhausted == spent >= settings.merged \/ Cardinality(DOMAIN ops) >= settings.assets
Waiting == pending \o initial
Launchable == Cardinality(DOMAIN running) < settings.width /\ ~Exhausted /\ Waiting # <<>>

\* One turn of the inner loop; an endpoint that was taken before is not asked again, and one
\* beyond max_assets not at all.
Take ==
    /\ phase = "launch" /\ Launchable
    /\ LET e == Head(Waiting)
           fresh == e \notin visited
           over == fresh /\ Cardinality(visited) >= settings.assets
       IN  /\ IF pending # <<>> THEN pending' = Tail(pending) /\ UNCHANGED initial
              ELSE initial' = Tail(initial) /\ UNCHANGED pending
           /\ visited' = visited \cup {e}
           /\ running' = IF fresh /\ ~over
                         THEN Put(running, e, [read |-> 0, coverage |->
                                    IF cancelled THEN "cancelled" ELSE "reading"])
                         ELSE running
           /\ limited' = (limited \/ over)
           /\ phase' = IF over THEN "await" ELSE phase
    /\ UNCHANGED <<settings, used, spent, ops, kept, cancelled>>

Await ==
    /\ phase = "launch" /\ ~Launchable
    /\ phase' = "await"
    /\ UNCHANGED <<settings, initial, pending, visited, running, used, spent, ops, kept, limited,
                   cancelled>>

\* A branch reads a row and charges it to the collection.
Charge(e) ==
    /\ phase = "await" /\ e \in DOMAIN running /\ ~Ended(e) /\ Read(e) < Rows(e)
    /\ IF used < settings.read
       THEN /\ used' = used + 1
            /\ running' = [running EXCEPT ![e].read = @ + 1]
       ELSE /\ running' = [running EXCEPT ![e].coverage = "truncated"]
            /\ UNCHANGED used
    /\ UNCHANGED <<settings, initial, pending, visited, spent, ops, kept, limited,
                   cancelled, phase>>

\* It has read everything, or an answer was an error.
End(e) ==
    /\ phase = "await" /\ e \in DOMAIN running /\ ~Ended(e)
    /\ \E c \in {"denied"} \cup (IF Read(e) = Rows(e) THEN {"complete"} ELSE {})
                           \cup (IF cancelled THEN {"cancelled"} ELSE {}) :
            running' = [running EXCEPT ![e].coverage = c]
    /\ UNCHANGED <<settings, initial, pending, visited, used, spent, ops, kept, limited,
                   cancelled, phase>>

\* Mutant: an operation is what its branch says it is, though what it asks for does not fit the
\* queue.
CoverageBlindly(e, room) == running[e].coverage

Coverage(e, room) == IF Read(e) > room THEN "truncated" ELSE running[e].coverage

\* Limit::merge: the operation first, then rows while they fit.
Merged(coverage, fits) == IF ~fits /\ coverage = "complete" THEN "truncated" ELSE coverage

Merge(e) ==
    /\ phase = "await" /\ e \in DOMAIN running /\ Ended(e)
    /\ LET room == settings.queue - Len(pending)
           asked == SubSeq(Follow[e], 1, Read(e))
           takes == spent < settings.merged /\ Cardinality(DOMAIN ops) < settings.assets
           left == settings.merged - spent - (IF takes THEN 1 ELSE 0)
           fits == Read(e) <= left
       IN  /\ pending' = pending \o SubSeq(asked, 1, IF Read(e) > room THEN room ELSE Read(e))
           /\ ops' = IF takes THEN Put(ops, e, Merged(Coverage(e, room), fits)) ELSE ops
           /\ kept' = IF fits /\ Read(e) = Rows(e) THEN kept \cup {e} ELSE kept
           /\ spent' = IF fits THEN settings.merged - left + Read(e) ELSE settings.merged
           /\ limited' = (limited \/ ~takes \/ ~fits)
    /\ running' = Restrict(running, DOMAIN running \ {e})
    /\ phase' = "launch"
    /\ UNCHANGED <<settings, initial, visited, used, cancelled>>

\* Nothing runs any more; what still waits is left out.
Finish ==
    /\ phase = "await" /\ DOMAIN running = {}
    /\ limited' = (limited \/ Waiting # <<>>)
    /\ phase' = "done"
    /\ UNCHANGED <<settings, initial, pending, visited, running, used, spent, ops, kept,
                   cancelled>>

Cancel ==
    /\ ~cancelled /\ phase = "await"
    /\ cancelled' = TRUE
    /\ UNCHANGED <<settings, initial, pending, visited, running, used, spent, ops, kept,
                   limited, phase>>

Next ==
    \/ Take \/ Await \/ Finish \/ Cancel
    \/ \E e \in Endpoint : Charge(e) \/ End(e) \/ Merge(e)

-----------------------------------------------------------------------------
\* What a collection that nothing cuts would ask for: what it begins with, and what the rows
\* of that ask for, and so on.
Closed(S) == ToSet(Offered) \subseteq S /\ \A e \in S : ToSet(Follow[e]) \subseteq S
Reachable == {e \in Endpoint : \A S \in SUBSET Endpoint : Closed(S) => e \in S}

\* finish adds an operation of its own, collection-budget, when something was cut.
Complete == ~limited /\ \A e \in DOMAIN ops : ops[e] = "complete"

\* A collection whose operations are all complete has asked for everything it could learn of,
\* and holds every row of it (common_parallel.rs:70-88, collection_budget.rs:96-126).
NothingOmitted ==
    phase = "done" /\ Complete => DOMAIN ops = Reachable /\ kept = DOMAIN ops
===============================================================================
