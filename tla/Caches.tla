------------------------------- MODULE Caches -------------------------------
(***************************************************************************)
(* The clients and listings that the collections of one target share       *)
(* (providers/src/router.rs, router_lifecycle.rs, inventory_cache.rs): a   *)
(* scope per configuration, in it one client per kind of check, loaded     *)
(* once, and one listing per kind, fetched once for all checks.            *)
(*                                                                         *)
(* One listing and its client are followed, of either kind.                *)
(* The inventory cache asks for its client first, keeps complete listings  *)
(* only and is keyed by revision; the Kubernetes cache asks for its client *)
(* with the cache locked and keeps whatever it got.                        *)
(***************************************************************************)
EXTENDS Naturals, FiniteSets

CONSTANTS
    Check,          \* checks of the target
    Rev,            \* revisions of the configuration
    Expired,        \* the coverage Unauthenticated
    MaxReloads,     \* bounds on reloads and on credentials that run out
    MaxRotations,
    None

ConstantsAssumption == MaxReloads \in Nat /\ None \notin 0..MaxReloads

VARIABLES
    kube,           \* whether the listing is that of Kubernetes
    current,        \* the scope the router's map holds, or None
    scope,          \* every scope made: client, locks and listing
    revision,       \* Router::revision
    reloads,
    collection,     \* per check: where it is, its job's revision, its scope and client
    valid,          \* the credential generation the provider accepts
    refused         \* auxiliary: checks whose last answer was without authentication

cvars == <<kube, current, scope, revision, reloads, collection, valid, refused>>

NoScope == [client |-> None, loader |-> None, holder |-> None, entry |-> None]
Outside == [at |-> "out", rev |-> None, in |-> None, client |-> None]

Init ==
    /\ kube \in BOOLEAN
    /\ current = None
    /\ scope = [i \in 0..MaxReloads |-> NoScope]
    /\ revision \in {CHOOSE r \in Rev : TRUE}
    /\ reloads = 0
    /\ collection = [c \in Check |-> Outside]
    /\ valid = 0
    /\ refused = {}

Answered(c, expired) == refused' = IF expired THEN refused \cup {c} ELSE refused \ {c}

\* Scopes that neither the map nor a collection refers to are gone.
Live(scopes, map, col) ==
    [i \in 0..MaxReloads |->
        IF i = map \/ \E c \in Check : col[c].in = i THEN scopes[i] ELSE NoScope]

\* Router::scope: an obsolete job is refused under the configuration lock.
Admitted(r) == r = revision

\* collect: the first job after a reload makes the scope.
Start(c, r) ==
    LET i == IF current = None THEN reloads ELSE current
    IN  /\ collection[c].at = "out"
        /\ Admitted(r)
        /\ current' = i
        /\ collection' = [collection EXCEPT ![c] =
                [at |-> IF kube THEN "slot" ELSE "client",
                 rev |-> r, in |-> i, client |-> None]]
        /\ UNCHANGED <<kube, scope, revision, reloads, valid, refused>>

\* After its client an inventory check wants the listing; a Kubernetes check has it.
Onward == IF kube THEN "fetching" ELSE "slot"

\* Router::auth and the client of kube: shared, or loaded with the lock held; kube
\* keeps that lock until its listing is there.
Client(c) ==
    LET i == collection[c].in  loaded == scope[i].client
    IN  /\ collection[c].at = "client"
        /\ scope[i].loader = None
        /\ scope' = IF loaded # None /\ ~kube THEN scope
                    ELSE [scope EXCEPT ![i].loader = c]
        /\ collection' = [collection EXCEPT
                ![c].at = IF loaded # None THEN Onward ELSE "loading",
                ![c].client = IF loaded # None THEN loaded ELSE [gen |-> valid, rev |-> revision]]
        /\ UNCHANGED <<kube, current, revision, reloads, valid, refused>>

\* What was read of the configuration and of the credential when loading began.
Loaded(c) ==
    LET i == collection[c].in
    IN  /\ collection[c].at = "loading"
        /\ scope' = [scope EXCEPT ![i].client = collection[c].client,
                                  ![i].loader = IF kube THEN @ ELSE None]
        /\ collection' = [collection EXCEPT ![c].at = Onward]
        /\ UNCHANGED <<kube, current, revision, reloads, valid, refused>>

\* Mutant: the check that fetched is not counted.
ConsumersNone(c) == {}

\* The checks a new listing counts as handed to.
Consumers(c) == {c}

\* A listing that may be handed to c: fresh, of its revision, and not handed before.
Usable(e, c) == e # None /\ e.fresh /\ c \notin e.consumers /\ e.rev = collection[c].rev

\* load and kube with the lock: a cached listing is handed out if it fits the memory
\* of the scan, otherwise the answer is cut short and the listing stays for the check.
Take(c) ==
    LET i == collection[c].in  e == scope[i].entry
    IN  /\ collection[c].at = "slot"
        /\ scope[i].holder = None
        /\ IF Usable(e, c)
           THEN /\ \/ /\ scope' = [scope EXCEPT
                            ![i].entry = [e EXCEPT !.consumers = @ \cup {c}, !.handed[c] = @ + 1]]
                      /\ Answered(c, e.expired)
                   \/ /\ ~kube
                      /\ Answered(c, FALSE)
                      /\ UNCHANGED scope
                /\ collection' = [collection EXCEPT ![c].at = "done"]
           ELSE /\ scope' = [scope EXCEPT ![i].holder = c,
                                ![i].entry = IF kube THEN @ ELSE None]
                /\ collection' = [collection EXCEPT ![c].at =
                                        IF kube THEN "client" ELSE "fetching"]
                /\ UNCHANGED refused
        /\ UNCHANGED <<kube, current, revision, reloads, valid>>

\* Complete listings are kept, of Kubernetes any; if the cache has memory for it.
Keeps(got) == kube \/ got = "complete"

Fetched(c, got, room) ==
    LET i == collection[c].in
    IN  /\ collection[c].at = "fetching"
        /\ (got = Expired) <=> (collection[c].client.gen # valid)
        /\ scope' = [scope EXCEPT ![i].holder = None,
                ![i].loader = IF @ = c THEN None ELSE @,
                ![i].entry = IF room /\ Keeps(got)
                                THEN [consumers |-> Consumers(c), fresh |-> TRUE, expired |-> got = Expired,
                                      rev |-> collection[c].rev,
                                      handed |-> [d \in Check |-> IF d = c THEN 1 ELSE 0]]
                                ELSE None]
        /\ Answered(c, got = Expired)
        /\ collection' = [collection EXCEPT ![c].at = "done"]
        /\ UNCHANGED <<kube, current, revision, reloads, valid>>

\* Mutant: the client is kept.
ForgetsNever(c) == FALSE

\* collect: after an answer without authentication the client of the scope that is
\* current now is forgotten, if its revision is the job's.
Forgets(c) == c \in refused /\ current # None /\ revision = collection[c].rev

Finish(c) ==
    /\ collection[c].at = "done"
    /\ Forgets(c) => scope[current].loader = None
    /\ collection' = [collection EXCEPT ![c] = Outside]
    /\ scope' = Live(IF Forgets(c) THEN [scope EXCEPT ![current].client = None] ELSE scope,
                     current, collection')
    /\ UNCHANGED <<kube, current, revision, reloads, valid, refused>>

Unlocked(c, i) ==
    [scope EXCEPT ![i].loader = IF @ = c THEN None ELSE @, ![i].holder = IF @ = c THEN None ELSE @]

\* Cancellation, a timeout or a failed load drop the future with the locks it holds.
Drop(c) ==
    LET i == collection[c].in
    IN  /\ collection[c].at \in {"client", "loading", "slot", "fetching"}
        /\ collection' = [collection EXCEPT ![c] = Outside]
        /\ scope' = Live(Unlocked(c, i), current, collection')
        /\ Answered(c, FALSE)
        /\ UNCHANGED <<kube, current, revision, reloads, valid>>

\* The interval of a listing passes.
Age(i) ==
    /\ scope[i].entry # None /\ scope[i].entry.fresh
    /\ scope' = [scope EXCEPT ![i].entry.fresh = FALSE]
    /\ UNCHANGED <<kube, current, revision, reloads, collection, valid, refused>>

\* Router::reload empties the map; whoever holds the old scope keeps it.
Emptied == None

Reload(r) ==
    /\ reloads < MaxReloads
    /\ reloads' = reloads + 1
    /\ revision' = r
    /\ current' = Emptied
    /\ scope' = Live(scope, current', collection)
    /\ UNCHANGED <<kube, collection, valid, refused>>

\* The operator renews a credential; clients loaded before are refused from now on.
Rotate ==
    /\ valid < MaxRotations
    /\ valid' = valid + 1
    /\ UNCHANGED <<kube, current, scope, revision, reloads, collection, refused>>

Answers(c) ==
    \E got \in {"complete", "partial", Expired}, room \in BOOLEAN : Fetched(c, got, room)

Next ==
    \/ \E c \in Check, r \in Rev : Start(c, r)
    \/ \E c \in Check : Client(c) \/ Loaded(c) \/ Take(c) \/ Answers(c) \/ Finish(c) \/ Drop(c)
    \/ \E i \in 0..MaxReloads : Age(i)
    \/ \E r \in Rev : Reload(r)
    \/ Rotate

\* Checks come due, answers come, and the locks are tokio mutexes, which are FIFO.
Fairness ==
    \A c \in Check :
        /\ WF_cvars(\E r \in Rev : Start(c, r)) /\ WF_cvars(Loaded(c))
        /\ WF_cvars(Answers(c))
        /\ SF_cvars(Client(c)) /\ SF_cvars(Take(c)) /\ SF_cvars(Finish(c))

Spec == Init /\ [][Next]_cvars /\ Fairness

-----------------------------------------------------------------------------
Place == {"out", "client", "loading", "slot", "fetching", "done"}

\* Type invariant: only a collection in the right place holds a lock, and at most one
\* scope is current.
TypeOK ==
    /\ current \in {None, reloads}
    /\ \A c \in Check : collection[c].at \in Place
    /\ \A i \in 0..MaxReloads :
        /\ scope[i].holder # None =>
                LET c == collection[scope[i].holder]
                IN  c.in = i /\ c.at \in {"client", "loading", "fetching"}
        /\ scope[i].loader # None =>
                LET c == collection[scope[i].loader]
                IN  c.in = i /\ c.at \in {"loading", "fetching"}

\* inventory_cache.rs:46: a listing is handed to each check at most once, however
\* fetches, expiry and cancellations interleave; a check that asks again gets a new one.
HandedOnce ==
    \A i \in 0..MaxReloads :
        scope[i].entry # None => \A c \in Check : scope[i].entry.handed[c] <= 1

\* router_lifecycle.rs:24: a collection in the current scope uses a client that was loaded
\* under the current configuration: no work from before a reload puts its own there.
ClientIsCurrent ==
    \A c \in Check : collection[c].in = current /\ collection[c].client # None
                            => collection[c].client.rev = revision

\* Once credentials stay valid, answers without authentication end without a restart or
\* a login, though stale clients are shared, loaded late, or cached in a listing.
Recovers == <>[](refused = {})
=============================================================================
