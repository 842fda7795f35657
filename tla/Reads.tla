--------------------------------- MODULE Reads --------------------------------
(***************************************************************************)
(* What readers of the server see of a monitor that goes on publishing:    *)
(* the view and its announcement (server/src/bus.rs, events.rs), and the   *)
(* scope endpoint with its cache of responses (scope_api.rs,               *)
(* scope_cache.rs), whose responses say what the journal has written and   *)
(* lost (query_api.rs).                                                    *)
(*                                                                         *)
(* A response is the generation it shows and the marks of the journal it   *)
(* was made with: the counters of losses and the time of the last write,   *)
(* one number here.  One filter is asked for, any entry may expire, and    *)
(* the flags of the key, which can only split keys further, are left out.  *)
(***************************************************************************)
EXTENDS Naturals, Sequences, FiniteSets, SequencesExt

CONSTANTS
    Request,
    MaxGen,         \* bound on publications
    MaxMarks,       \* bound on writes and losses of the journal
    MaxEntries,     \* scope_cache::MAX_ENTRIES, of responses and of flights
    None

ConstantsAssumption == MaxEntries \in Nat \ {0} /\ None \notin [gen : Nat, marks : Nat]

VARIABLES
    generation,     \* Bus.generation
    view,           \* Bus.views: the generation of the current view
    changed,        \* Bus.changed
    seen,           \* the last revision an event stream announced
    marks,          \* Journal::health
    cache,          \* scope_cache State.entries, oldest first
    request         \* where each request is, its key and what it got

dvars == <<generation, view, changed, seen, marks, cache, request>>

\* Mutant: the response of one generation serves the next.
CacheKeyUngenerated == [gen |-> 0, marks |-> marks]
CacheKey == [gen |-> view, marks |-> marks]

\* asked: the generation and the marks when it was asked for.
Away == [at |-> "out", key |-> None, asked |-> None, got |-> None]

Init ==
    /\ generation = 1
    /\ view = 1
    /\ changed = 1
    /\ seen = 1
    /\ marks = 0
    /\ cache = <<>>
    /\ request = [r \in Request |-> Away]

-----------------------------------------------------------------------------
(* The monitor: Bus::update. *)

\* The new generation; its records go to the journal before the view is stored.
Build ==
    /\ generation = view /\ changed = view
    /\ generation < MaxGen
    /\ generation' = generation + 1
    /\ UNCHANGED <<view, changed, seen, marks, cache, request>>

Store ==
    /\ view < generation
    /\ view' = generation
    /\ UNCHANGED <<generation, changed, seen, marks, cache, request>>

Announce ==
    /\ changed < view
    /\ changed' = generation
    /\ UNCHANGED <<generation, view, seen, marks, cache, request>>

\* An event stream takes the latest revision, by its change or after five seconds.
Stream ==
    /\ seen' = changed
    /\ seen # seen'
    /\ UNCHANGED <<generation, view, changed, marks, cache, request>>

\* The journal writes a batch, or loses records.
Mark ==
    /\ marks < MaxMarks
    /\ marks' = marks + 1
    /\ UNCHANGED <<generation, view, changed, seen, cache, request>>

-----------------------------------------------------------------------------
(* A request for scopes. *)

Hits(k) == {i \in DOMAIN cache : cache[i].key = k}
Promoted(i) == Append(RemoveAt(cache, i), cache[i])
Flights == {request[r].key : r \in {q \in Request : request[q].at \in {"waiting", "loading", "read"}}}

\* Cache::get.
Hit(r, k, asked) ==
    \E i \in Hits(k) :
        /\ cache' = Promoted(i)
        /\ request' = [request EXCEPT ![r] =
                [at |-> "hit", key |-> k, asked |-> asked, got |-> cache[i].got]]

\* The key, a first look, and Cache::flight, which refuses more keys than it has room for.
Ask(r) ==
    /\ request[r].at \in {"out", "hit", "miss"}
    /\ LET k == CacheKey
           asked == [gen |-> view, marks |-> marks]
       IN  \/ Hit(r, k, asked)
           \/ /\ Hits(k) = {}
              /\ k \in Flights \/ Cardinality(Flights) < MaxEntries
              /\ request' = [request EXCEPT ![r] =
                    [at |-> "waiting", key |-> k, asked |-> asked, got |-> None]]
              /\ UNCHANGED cache
    /\ UNCHANGED <<generation, view, changed, seen, marks>>

\* With the flight's lock: a second look, then the load.
Lock(r) ==
    /\ request[r].at = "waiting"
    /\ \A q \in Request : request[q].at \in {"loading", "read"}
                                => request[q].key # request[r].key
    /\ \/ Hit(r, request[r].key, request[r].asked)
       \/ /\ Hits(request[r].key) = {}
          /\ request' = [request EXCEPT ![r].at = "loading"]
          /\ UNCHANGED cache
    /\ UNCHANGED <<generation, view, changed, seen, marks>>

\* assemble: the health of the journal; the database may have failed to answer by then.
Read(r) ==
    /\ request[r].at = "loading"
    /\ request' = [request EXCEPT ![r].at = "read", ![r].got = [gen |-> 0, marks |-> marks]]
    /\ UNCHANGED <<generation, view, changed, seen, marks, cache>>

\* Cache::insert makes room by dropping the oldest.
Evicted(s) == IF Len(s) >= MaxEntries THEN Tail(s) ELSE s

\* insert takes the entry of its key out; a key has one at most.
Others(k) == IF Hits(k) = {} THEN cache ELSE RemoveAt(cache, CHOOSE i \in Hits(k) : TRUE)

\* project reads the view, and the response is cached under the key of the request.
Respond(r) ==
    /\ request[r].at = "read"
    /\ LET entry == [key |-> request[r].key, got |-> [request[r].got EXCEPT !.gen = view]]
       IN  /\ cache' = Append(Evicted(Others(entry.key)), entry)
           /\ request' = [request EXCEPT ![r].at = "miss", ![r].got = entry.got]
    /\ UNCHANGED <<generation, view, changed, seen, marks>>

\* The lock took three seconds, or the client went away.
Leave(r) ==
    /\ request[r].at \in {"waiting", "loading", "read"}
    /\ request' = [request EXCEPT ![r] = Away]
    /\ UNCHANGED <<generation, view, changed, seen, marks, cache>>

Expire ==
    /\ \E i \in DOMAIN cache : cache' = RemoveAt(cache, i)
    /\ UNCHANGED <<generation, view, changed, seen, marks, request>>

Next ==
    \/ Build \/ Store \/ Announce \/ Stream \/ Mark
    \/ \E r \in Request : Ask(r) \/ Lock(r) \/ Read(r) \/ Respond(r) \/ Leave(r)
    \/ Expire

Spec == Init /\ [][Next]_dvars

-----------------------------------------------------------------------------
Answered == {r \in Request : request[r].at \in {"hit", "miss"}}

\* Type invariant: the cache holds one response of a key, and no more than it may.
TypeOK ==
    /\ Len(cache) <= MaxEntries
    /\ \A i, j \in DOMAIN cache : cache[i].key = cache[j].key => i = j
    /\ \A r \in Request : (request[r].key = None) = (request[r].at = "out")

\* scope_api.rs:22 and scope_cache.rs:86: a reader never goes back: a response shows the
\* view and the losses that were known when it was asked for, or later ones, however loads
\* for older keys end and are shared.
HitsAreCurrent ==
    \A r \in Answered : /\ request[r].got.gen >= request[r].asked.gen
                        /\ request[r].got.marks >= request[r].asked.marks

\* bus.rs:109: a revision is announced when it can be read, so a dashboard that fetches
\* on an announcement does not stay a revision behind.
AnnouncedIsReadable == seen <= view
=============================================================================
