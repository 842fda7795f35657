--------------------------------- MODULE Pages ---------------------------------
(***************************************************************************)
(* Reading a list page by page while it changes (server: pages, lists,     *)
(* checks_api, query_cursor, query_api, history_api; history: query,       *)
(* query_read, query_latest, query_scopes, cost_read).  A cursor is the key *)
(* of a row that was shown; the server keeps nothing between requests.     *)
(* The lists of the view are walked both ways, those of the history from   *)
(* the newest row on, latest records and scopes by identity, and costs from*)
(* the largest on.  One snapshot, or one transaction, answers a request.   *)
(***************************************************************************)
EXTENDS Naturals, Sequences, FiniteSets, SequencesExt

CONSTANTS
    Id,             \* identities, in their order
    MaxTime,
    MaxChanges,     \* of the rows, during one walk
    None

VARIABLES
    kind,           \* the list that is walked
    forward,        \* direction = next
    rows,           \* identity -> what orders and selects it, for those that exist
    now,
    changes,
    cursor,         \* what the last answer gave for this direction
    back,           \* and for the other one
    got,            \* the identities shown in this walk
    asked,          \* the filters it was asked with
    due,            \* rows that were selected from the first request on, in one place
    phase

vars == <<kind, forward, rows, now, changes, cursor, back, got, asked, due, phase>>

Cursor == [key : Nat \X Id, filter : {"all", "some"}, revision : Nat]

ConstantsAssumption ==
    /\ IsFiniteSet(Id) /\ Id \subseteq Nat
    /\ MaxTime \in Nat /\ MaxChanges \in Nat
    /\ None \notin (Nat \X Id) \cup Cursor

View == {"resources", "findings", "checks", "operations"}
Stored == {"records", "events", "latest", "scopes", "costs"}
\* The cursor names its endpoint and filter.
Bound == {"resources", "findings", "records", "scopes", "costs"}

\* rank: severity, completeness or the time of the row; until: the last time it is valid, or
\* was observed.
Row == [rank : 0..1, until : 0..MaxTime]
Filter == {"all", "some"}
Lists == UNION {[S -> Row] : S \in SUBSET Id}

-----------------------------------------------------------------------------
(* What is listed, and in which order, at one time. *)

\* current_health: what has expired is not known to be healthy.
HealthyNow(r, t) == r.rank = 1 /\ t <= r.until

\* A check that has expired is stale, and counts as incomplete.
CompleteNow(r, t) == r.rank = 1 /\ r.until >= t

Key(k, i, r, t) ==
    CASE k \in {"findings", "operations", "events", "records"} -> <<r.rank, i>>
      [] k = "checks" -> <<IF CompleteNow(r, t) THEN 1 ELSE 0, i>>
      [] k = "costs" -> <<1 - r.rank, i>>           \* the largest amount first
      [] OTHER -> <<0, i>>

SelectedResource(r, f, t) == f = "some" => HealthyNow(r, t)
SelectedFinding(r, f) == f = "some" => r.rank = 0
SelectedCheck(r, f, t) == f = "some" => ~CompleteNow(r, t)          \* needs_attention
\* Events and runs that are older than the retention are there until it removes them.
SelectedEvent(r, f, t) == r.until >= t /\ (f = "some" => r.rank = 0)
\* The window is the one the cursor was made with.
SelectedRecord(r, f) == f = "some" => r.until >= 1
SelectedCost(r, f) == f = "some" => r.rank = 1

Selected(k, r, f, t) ==
    CASE k = "resources" -> SelectedResource(r, f, t)
      [] k = "findings" -> SelectedFinding(r, f)
      [] k = "checks" -> SelectedCheck(r, f, t)
      [] k = "events" -> SelectedEvent(r, f, t)
      [] k \in {"records", "latest", "scopes"} -> SelectedRecord(r, f)
      [] k = "costs" -> SelectedCost(r, f)
      [] OTHER -> TRUE

Less(p, q) == p[1] < q[1] \/ (p[1] = q[1] /\ p[2] < q[2])
Ahead(k, p, q) == IF k \in {"events", "records"} THEN Less(q, p) ELSE Less(p, q)

Keys(k, list, f, t) == {Key(k, i, list[i], t) : i \in {j \in DOMAIN list : Selected(k, list[j], f, t)}}

-----------------------------------------------------------------------------
(* One page. *)

\* Mutant: the row of the cursor itself is the first of the next page.
PassedAgain(k, keys, c) == {p \in keys : Ahead(k, p, c.key)}

\* The rows a request for the next page leaves out.
Passed(k, keys, c) == {p \in keys : p = c.key \/ Ahead(k, p, c.key)}

\* The n-th row that is listed has n - 1 ahead of it.
InOrder(k, keys) ==
    [n \in 1..Cardinality(keys) |->
        CHOOSE p \in keys : Cardinality({q \in keys : Ahead(k, q, p)}) = n - 1]

\* pages::select: the rows that are listed are those between start and end.
Slice(k, keys, c, next, limit) ==
    LET sorted == InOrder(k, keys)
        total == Len(sorted)
        reached == IF c = None THEN 0
                   ELSE IF next THEN Cardinality(Passed(k, keys, c))
                   ELSE Cardinality({p \in keys : Ahead(k, p, c.key)})
        turned == ~next /\ c # None
        start == IF ~turned THEN reached ELSE IF reached > limit THEN reached - limit ELSE 0
        end == IF turned THEN reached ELSE IF start + limit < total THEN start + limit ELSE total
        items == SubSeq(sorted, start + 1, end)
    IN  [items |-> items,
         next |-> IF end < total /\ items # <<>> THEN Last(items) ELSE None,
         previous |-> IF start > 0 /\ items # <<>> THEN Head(items) ELSE None]

\* query_page, events, query_latest: one row more than the page is fetched, to know of more.
Fetched(k, keys, c, limit) ==
    LET rest == IF c = None THEN keys ELSE keys \ Passed(k, keys, c)
        sorted == InOrder(k, rest)
        more == Len(sorted) > limit
        items == SubSeq(sorted, 1, IF more THEN limit ELSE Len(sorted))
    IN  [items |-> items, next |-> IF more THEN Last(items) ELSE None, previous |-> None]

Answer(limit, f) ==
    LET keys == Keys(kind, rows, f, now)
    IN  IF kind \in View THEN Slice(kind, keys, cursor, forward, limit)
        ELSE Fetched(kind, keys, cursor, limit)

-----------------------------------------------------------------------------
(* Actions. *)

Init ==
    /\ kind \in View \cup Stored /\ forward = TRUE
    /\ rows \in Lists
    /\ now = 0 /\ changes = 0
    /\ cursor = None /\ back = None /\ got = <<>> /\ asked = {} /\ due = {} /\ phase = "walking"

Name(key, f) == IF key = None THEN None ELSE [key |-> key, filter |-> f, revision |-> changes]

\* decode_cursor: amounts are ordered within one publication, so a cursor of another is refused.
Superseded == kind = "costs" /\ cursor.revision # changes

\* resolve, select_scoped: a cursor of another filter is refused where it is bound to one.
Refuse(f) ==
    /\ phase = "walking" /\ kind \in Bound /\ cursor # None
    /\ cursor.filter # f \/ Superseded
    /\ phase' = "refused"
    /\ UNCHANGED <<kind, forward, rows, now, changes, cursor, back, got, asked, due>>

Ask(limit, f) ==
    /\ phase = "walking"
    /\ kind \in Bound /\ cursor # None => cursor.filter = f /\ ~Superseded
    /\ LET page == Answer(limit, f)
           ahead == IF forward THEN page.next ELSE page.previous
           other == IF forward THEN page.previous ELSE page.next
           here == {i \in DOMAIN rows : Selected(kind, rows[i], f, now)}
       IN  /\ got' = got \o [n \in DOMAIN page.items |-> page.items[n][2]]
           /\ asked' = asked \cup {f}
           /\ due' = IF asked = {} THEN
                        {i \in here : cursor = None \/ Ahead(kind, Key(kind, i, rows[i], now), cursor.key)}
                     ELSE due \cap here
           /\ cursor' = Name(ahead, f) /\ back' = Name(other, f)
           /\ phase' = IF ahead = None THEN "over" ELSE "walking"
    /\ UNCHANGED <<kind, forward, rows, now, changes>>

\* The reader goes back from the last page it has seen.
Turn ==
    /\ phase \in {"walking", "over"} /\ forward /\ back # None
    /\ forward' = FALSE /\ phase' = "walking"
    /\ cursor' = back /\ back' = None /\ got' = <<>> /\ asked' = {} /\ due' = {}
    /\ UNCHANGED <<kind, rows, now, changes>>

\* Of the rows that are due, those that another state of the list still has in their place.
Kept(list, t) ==
    {i \in due : /\ i \in DOMAIN list
                 /\ Key(kind, i, list[i], t) = Key(kind, i, rows[i], now)
                 /\ \A f \in asked : Selected(kind, list[i], f, t)}

\* A publication, an insertion, an update or a removal between two requests.
Change ==
    /\ phase = "walking" /\ asked # {} /\ changes < MaxChanges
    /\ \E i \in Id :
        \/ \E r \in Row :
            /\ rows' = [j \in DOMAIN rows \cup {i} |-> IF j = i THEN r ELSE rows[j]]
            /\ rows' # rows
        \/ /\ i \in DOMAIN rows
           /\ rows' = [j \in DOMAIN rows \ {i} |-> rows[j]]
    /\ due' = Kept(rows', now)
    /\ changes' = changes + 1
    /\ UNCHANGED <<kind, forward, now, cursor, back, got, asked, phase>>

Tick ==
    /\ phase = "walking" /\ now < MaxTime
    /\ now' = now + 1
    /\ due' = Kept(rows, now + 1)
    /\ UNCHANGED <<kind, forward, rows, changes, cursor, back, got, asked, phase>>

Next ==
    \/ \E f \in Filter : Refuse(f) \/ \E limit \in 1..2 : Ask(limit, f)
    \/ Turn
    \/ Change
    \/ Tick

Spec == Init /\ [][Next]_vars

-----------------------------------------------------------------------------
\* "Stable keyset cursors survive insertions and removals between page requests" (pages.rs:1):
\* a walk that has come to its end has shown every row that stayed where it was, once,
\* whatever came, went, moved or expired beside it.
WalksAreWhole ==
    phase = "over" => \A i \in due : Cardinality({n \in DOMAIN got : got[n] = i}) = 1

\* "Cursors bind selection" (query_cursor.rs:1, pages.rs:68): one walk is of one filter.
WalksAreBound == kind \in Bound => Cardinality(asked) <= 1
===============================================================================
