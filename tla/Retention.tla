------------------------------- MODULE Retention -------------------------------
(***************************************************************************)
(* What the history keeps (history: write, query_write, retention,         *)
(* query_read).  One writer at a time inserts a batch in one transaction,  *)
(* between two trims of the tables of events, runs, gaps and               *)
(* configurations, which behave alike (events here), and then retains      *)
(* diagnostic records in three statements of which each is committed by    *)
(* itself.  A window that calls itself complete relies on the watermark.   *)
(***************************************************************************)
EXTENDS Integers, Sequences, FiniteSets, FiniteSetsExt

CONSTANTS
    Id,             \* of diagnostic records
    Keep,           \* retention
    EventCap,       \* event_rows and the like
    Cap,            \* diagnostic_rows
    Pass,           \* what one statement deletes at most (2048)
    Passes,         \* of a trim (8)
    MaxBatch,       \* events of one batch
    MaxTime,
    None

ConstantsAssumption ==
    /\ IsFiniteSet(Id)
    /\ Keep \in Nat /\ EventCap \in Nat /\ Cap \in Nat /\ Passes \in Nat /\ MaxBatch \in Nat
    /\ MaxTime \in Nat /\ Pass \in Nat \ {0}

VARIABLES
    now,
    events,         \* when each happened, the oldest first
    records,        \* identity -> [from, to], of those that are stored
    evicted,        \* query_watermark_evicted_through, 0 when nothing was evicted
    step,           \* of the writer
    back,           \* where it goes on when the diagnostic records are retained
    pass,
    chosen,         \* records selected for deletion
    known,          \* identity -> the interval it was last written with, stored or not
    behind          \* a record that ended before the watermark has been written

vars == <<now, events, records, evicted, step, back, pass, chosen, known, behind>>

Interval == {i \in [from : 0..MaxTime, to : 0..MaxTime] : i.from <= i.to}
Count == Len(events)
Cutoff == IF now > Keep THEN now - Keep ELSE 0

TypeOK ==
    /\ now \in 0..MaxTime /\ evicted \in 0..MaxTime /\ pass \in 0..Passes
    /\ DOMAIN records \subseteq DOMAIN known /\ chosen \subseteq DOMAIN records

Init ==
    /\ now = 0
    /\ events = <<>>
    /\ records = [i \in {} |-> None] /\ known = [i \in {} |-> None]
    /\ evicted = 0 /\ step = "idle" /\ back = "idle" /\ pass = 0 /\ chosen = {} /\ behind = FALSE

Without(f, S) == [x \in DOMAIN f \ S |-> f[x]]

\* Sets of at most n of the oldest of S.
Oldest(S, n) ==
    {T \in SUBSET S : /\ Cardinality(T) = Min({n, Cardinality(S)})
                      /\ \A i \in T, j \in S \ T : records[i].to <= records[j].to}

-----------------------------------------------------------------------------
(* trim!: what has expired goes first, then what is too much, each in one bounded statement. *)

\* Without the n oldest.
Younger(es, n) == SubSeq(es, n + 1, Len(es))

Trimmed(es) ==
    LET expired == Cardinality({n \in DOMAIN es : es[n] < Cutoff})
        left == Younger(es, Min({expired, Pass}))
        excess == IF Len(left) > EventCap THEN Len(left) - EventCap ELSE 0
    IN  Younger(left, Min({excess, Pass}))

\* ensure_retention, before and after the batch: passes until every table fits, and no more
\* than there may be.  After the last of them the diagnostic records are retained once more.
Fits ==
    /\ step \in {"before", "after"} /\ Count <= EventCap
    /\ step' = IF step = "before" THEN "insert" ELSE "expire"
    /\ back' = "idle" /\ pass' = 0
    /\ UNCHANGED <<now, events, records, evicted, chosen, known, behind>>

\* retain: every table once, and then the diagnostic records.
Trim ==
    /\ step \in {"before", "after"} /\ Count > EventCap /\ pass < Passes
    /\ events' = Trimmed(events)
    /\ pass' = pass + 1 /\ step' = "expire" /\ back' = step
    /\ UNCHANGED <<now, records, evicted, chosen, known, behind>>

\* Error::Capacity: nothing more is written, and the batch is tried again later.
NoRoom ==
    /\ step \in {"before", "after"} /\ Count > EventCap /\ pass = Passes
    /\ step' = "idle" /\ pass' = 0
    /\ UNCHANGED <<now, events, records, evicted, back, chosen, known, behind>>

\* Every half a minute, between two batches.
Maintain ==
    /\ step = "idle"
    /\ events' = Trimmed(events)
    /\ step' = "expire" /\ back' = "idle"
    /\ UNCHANGED <<now, records, evicted, pass, chosen, known, behind>>

-----------------------------------------------------------------------------
(* write_queries. *)

Begin ==
    /\ step = "idle"
    /\ step' = "before"
    /\ UNCHANGED <<now, events, records, evicted, back, pass, chosen, known, behind>>

\* query_write::write: an interval that goes on is stored again with its new end.
Insert(n, i, interval) ==
    /\ step = "insert" /\ interval.to <= now
    /\ i \in DOMAIN known => interval.from = known[i].from /\ interval.to >= known[i].to
    /\ events' = events \o [k \in 1..n |-> now]
    /\ records' = [j \in DOMAIN records \cup {i} |-> IF j = i THEN interval ELSE records[j]]
    /\ known' = [j \in DOMAIN known \cup {i} |-> IF j = i THEN interval ELSE known[j]]
    /\ behind' = (behind \/ interval.to < evicted)
    /\ step' = "after"
    /\ UNCHANGED <<now, evicted, back, pass, chosen>>

-----------------------------------------------------------------------------
(* retain_queries. *)

Expire ==
    /\ step = "expire"
    /\ \E S \in Oldest({i \in DOMAIN records : records[i].to < Cutoff}, Pass) :
          records' = Without(records, S)
    /\ step' = "mark"
    /\ UNCHANGED <<now, events, evicted, back, pass, chosen, known, behind>>

\* Those that are too many.  The watermark is set before anything is deleted.
Excess == Cardinality(DOMAIN records) - Cap

\* Mutant: the watermark is the end of the first record that goes, not of the last.
MarkFirst(S) ==
    /\ step = "mark" /\ Cardinality(DOMAIN records) > Cap
    /\ S \in Oldest(DOMAIN records, Min({Excess, Pass}))
    /\ evicted' = Min({records[i].to : i \in S})
    /\ chosen' = S /\ step' = "delete"
    /\ UNCHANGED <<now, events, records, back, pass, known, behind>>

Mark(S) ==
    /\ step = "mark" /\ Cardinality(DOMAIN records) > Cap
    /\ S \in Oldest(DOMAIN records, Min({Excess, Pass}))
    /\ evicted' = Max({records[i].to : i \in S})
    /\ chosen' = S /\ step' = "delete"
    /\ UNCHANGED <<now, events, records, back, pass, known, behind>>

Delete ==
    /\ \/ step = "delete"
       \/ step = "mark" /\ Cardinality(DOMAIN records) <= Cap
    /\ records' = Without(records, chosen)
    /\ chosen' = {} /\ step' = back
    /\ UNCHANGED <<now, events, evicted, back, pass, known, behind>>

\* The writer stops or its connection is lost, between two statements.
Stop ==
    /\ step # "idle"
    /\ step' = "idle" /\ pass' = 0 /\ chosen' = {}
    /\ UNCHANGED <<now, events, records, evicted, back, known, behind>>

Tick ==
    /\ now < MaxTime
    /\ now' = now + 1
    /\ UNCHANGED <<events, records, evicted, step, back, pass, chosen, known, behind>>

Next ==
    \/ Begin \/ Maintain
    \/ Fits \/ Trim \/ NoRoom
    \/ \E n \in 0..MaxBatch, i \in Id, interval \in Interval : Insert(n, i, interval)
    \/ Expire \/ (\E S \in SUBSET Id : Mark(S)) \/ Delete
    \/ Stop
    \/ Tick

Spec == Init /\ [][Next]_vars

-----------------------------------------------------------------------------
\* query_availability: from when on a window that ends now calls itself complete.
Since == Max({evicted, Cutoff})

\* "Every historical answer declares its evidence boundary" (response.rs:1): nothing that was
\* recorded and reaches into a window that begins after the boundary is missing from it, however
\* the writer was interrupted.  Not so once a record was written that had ended before the
\* watermark: evicting it next moves the watermark back.
BoundaryHolds ==
    ~behind =>
        \A i \in DOMAIN known \ DOMAIN records :
            known[i].to < Since \/ known[i].to = evicted

\* A batch is only taken in when the tables fit, so they exceed their bound by one batch at most.
TablesBounded == Count <= EventCap + MaxBatch /\ (step = "insert" => Count <= EventCap)
===============================================================================
