------------------------------- MODULE Recorder -------------------------------
(***************************************************************************)
(* The query history of findings: each publication of the monitor passes   *)
(* through the recorder (server/src/query_recorder.rs, query_publish.rs),  *)
(* which turns unchanged findings into one interval, and through the       *)
(* journal (module Journal, here a queue of batches that may lose records) *)
(* into the rows of query_record (history/src/query_write.rs).             *)
(*                                                                         *)
(* An interval is a row: the finding, the fingerprint of its details, when *)
(* it began (together its key), and how it ended; when it was last         *)
(* observed is left out.  The clock is snapshot.captured_at.               *)
(***************************************************************************)
EXTENDS Naturals, Sequences, FiniteSets, Functions, SequencesExt

CONSTANTS
    Finding,
    Content,        \* fingerprints of a finding's details
    MaxTime,        \* bound on publications
    QueueBatches,   \* config.queue_batches
    MaxRestarts,    \* bound on restarts
    None

ConstantsAssumption ==
    /\ None \notin Content /\ None \notin {"changed", "ended", "superseded"}
    /\ None \notin Finding \X Content \X Nat

VARIABLES
    now,            \* snapshot.captured_at
    open,           \* snapshot.findings: content of each open finding
    saved,          \* the snapshot a restart restores: [now, open]
    active,         \* Recorder.active: the version each finding is in
    queue,          \* batches on their way to the database
    rows,           \* query_record, by key
    astray,         \* auxiliary: findings of which a record was lost, or which
                    \* left the snapshot without a transition
    restarts

rvars == <<now, open, saved, active, queue, rows, astray, restarts>>

End == {None, "changed", "ended"}
Row(key, end) == [key |-> key, closed |-> end]

Init ==
    /\ now = 0
    /\ open = [f \in Finding |-> None]
    /\ saved = [now |-> 0, open |-> open]
    /\ active = [f \in Finding |-> None]
    /\ queue = <<>>
    /\ rows = <<>>
    /\ astray = {}
    /\ restarts = 0

-----------------------------------------------------------------------------
\* Recorder::capture of content c of finding f, in version v (its key): the new version
\* and the rows to write.  A version that goes on is written when newly observed.
Same(v, c) == v # None /\ v[2] = c

NewVersion(f, c) == <<f, c, now'>>

Captured(v, f, c) == IF Same(v, c) THEN v ELSE NewVersion(f, c)

CapturedRows(v, f, c, fresh) ==
    IF Same(v, c) THEN IF fresh THEN {Row(v, None)} ELSE {}
    ELSE {Row(NewVersion(f, c), None)} \cup {Row(w, "changed") : w \in {v} \ {None}}

\* Recorder::close on a transition: an unknown finding has nothing to close.
ClosedRows(v) == {Row(w, "ended") : w \in {v} \ {None}}

Full == Len(queue) >= QueueBatches

\* Bus::update of a snapshot with findings "after", of which "fresh" were newly observed;
\* ends are those with a transition, refused those for which the recorder has no room,
\* dropped the kinds of rows for which the journal has none.
Update(after, fresh, ends, refused, dropped) ==
    LET Observed == {f \in Finding : after[f] # None}
        rs == [f \in Finding |->
                IF f \in refused THEN {}
                ELSE IF f \in Observed THEN CapturedRows(active[f], f, after[f], f \in fresh)
                ELSE IF f \in ends THEN ClosedRows(active[f])
                ELSE {}]
        batch == {r \in UNION {rs[f] : f \in Finding} : r.closed \notin dropped}
        lost == {f \in Finding : f \in refused \/ (~(rs[f] \subseteq batch))}
        silent == {f \in Finding : open[f] # None /\ f \notin Observed \cup ends}
        mended == {f \in Finding : rs[f] # {} /\ rs[f] \subseteq batch}
    IN  /\ open' = after
        /\ active' = [f \in Finding |->
                        IF f \in refused THEN active[f]
                        ELSE IF f \in Observed THEN Captured(active[f], f, after[f])
                        ELSE IF f \in ends THEN None ELSE active[f]]
        /\ IF Full \/ batch = {}
           THEN UNCHANGED queue /\ astray' = astray \cup lost \cup silent
                                        \cup {f \in Finding : rs[f] # {}}
           ELSE queue' = Append(queue, batch)
                /\ astray' = (astray \ mended) \cup lost \cup silent

\* Bus::update after a result or an expiry: every finding that leaves has a transition,
\* a finding may be one observed before, and either bound may refuse a record.
Publish ==
    /\ now < MaxTime
    /\ now' = now + 1
    /\ \E after \in [Finding -> Content \cup {None}], fresh, refused \in SUBSET Finding,
          dropped \in SUBSET End :
        LET ended == {f \in Finding : open[f] # None /\ after[f] = None}
        IN  /\ \A f \in refused : after[f] # None
            /\ Update(after, fresh, ended, refused, dropped)
    /\ UNCHANGED <<saved, rows, restarts>>

\* A reload drops findings that are out of scope, with no transition.
Reload ==
    /\ now < MaxTime
    /\ now' = now + 1
    /\ \E gone \in SUBSET {f \in Finding : open[f] # None} \ {{}} :
        Update([f \in Finding |-> IF f \in gone THEN None ELSE open[f]], {}, {}, {}, {})
    /\ UNCHANGED <<saved, rows, restarts>>

-----------------------------------------------------------------------------
\* query_write::write: rows of a finding the batch does not name are closed, if open; then
\* the batch is written over what is there.
Continuing(batch) == {r.key[1] : r \in batch}

\* Mutant: rows of an earlier version are left as they are.
SupersededNever(batch) == rows

Superseded(batch) ==
    [k \in DOMAIN rows |->
        IF k[1] \in Continuing(batch) /\ rows[k].closed = None
        THEN [rows[k] EXCEPT !.closed = "superseded"] ELSE rows[k]]

Write ==
    /\ queue # <<>>
    /\ LET batch == Head(queue)
           keys == {r.key : r \in batch}
       IN  rows' = [k \in keys \cup DOMAIN rows |->
                        IF k \in keys THEN CHOOSE r \in batch : r.key = k
                        ELSE Superseded(batch)[k]]
    /\ queue' = Tail(queue)
    /\ UNCHANGED <<now, open, saved, active, astray, restarts>>

\* The publisher of module Publication writes the snapshot.
Save ==
    /\ saved' = [now |-> now, open |-> open]
    /\ saved # saved'
    /\ UNCHANGED <<now, open, active, queue, rows, astray, restarts>>

\* The process ends, and starts from the saved snapshot with an empty recorder; its first
\* update shows every open finding anew.
Restart ==
    /\ restarts < MaxRestarts
    /\ restarts' = restarts + 1
    /\ now' = saved.now
    /\ open' = saved.open
    /\ LET Again == {f \in Finding : saved.open[f] # None}
           batch == {Row(NewVersion(f, saved.open[f]), None) : f \in Again}
       IN  /\ active' = [f \in Finding |->
                            IF f \in Again THEN NewVersion(f, saved.open[f]) ELSE None]
           /\ queue' = IF batch = {} THEN <<>> ELSE <<batch>>
           /\ astray' = {f \in Finding \ Again :
                            \/ f \in astray
                            \/ \E i \in DOMAIN queue : \E r \in queue[i] : r.key[1] = f
                            \/ \E k \in DOMAIN rows : k[1] = f /\ rows[k].closed = None}
    /\ UNCHANGED <<saved, rows>>

Next == Publish \/ Reload \/ Write \/ Save \/ Restart

Spec == Init /\ [][Next]_rvars

-----------------------------------------------------------------------------
OpenRows(f) == {k \in DOMAIN rows : k[1] = f /\ rows[k].closed = None}

\* Type invariant: a version belongs to the finding it is kept for, in the recorder and in
\* the batches.
TypeOK ==
    /\ \A f \in Finding : active[f] # None =>
            active[f] \in {f} \X Content \X (0..now)
    /\ Len(queue) <= QueueBatches
    /\ \A k \in DOMAIN rows : rows[k].key = k

\* query_write.rs:30 "Close superseded versions in one query": the history never shows a
\* finding in two intervals at once, though closing rows may be lost, a restart begins new
\* intervals, and what a batch leaves out is closed by the next.
OneOpenInterval == \A f \in Finding : Cardinality(OpenRows(f)) <= 1

\* Once the journal is written, the history of a finding shows it open with the details it
\* has, or closed, unless a record of it was lost or a reload or a restart took it away
\* silently; each of these ends with the next record of that finding.
HistoryAgrees ==
    queue = <<>> =>
        \A f \in Finding \ astray :
            {k[2] : k \in OpenRows(f)} = {open[f]} \ {None}

=============================================================================
