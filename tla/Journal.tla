------------------------------ MODULE Journal ------------------------------
(***************************************************************************)
(* The database journal of crates/history: what the dashboard's Bus        *)
(* submits (journal.rs), the one worker that writes it (journal_worker.rs) *)
(* and the flush that ends a server (crates/server/src/serve.rs).  Nothing *)
(* here may block the monitor: what does not fit is dropped, counted, and  *)
(* reported to the database as a gap when it answers again.                *)
(*                                                                         *)
(* Runs, events and query records are alike here, and so are the counters  *)
(* kept for each: a record is an ordinal, and each pair of counters is one *)
(* number.  The threads share only these counters and the channel, so each *)
(* atomic operation another thread could come between is an action.        *)
(***************************************************************************)
EXTENDS Integers, Sequences, FiniteSets, FiniteSetsExt

CONSTANTS
    MaxRecords,     \* bound: records there are
    MaxBatch,       \* bound: records one update submits
    QueueBatches,   \* config.queue_batches
    QueueBytes,     \* config.queue_bytes, in records
    MaxFaults,      \* bound: failing database operations
    MaxRejects,     \* bound: batches the database rejects for good
    GapsRejected,   \* whether it may reject a batch of nothing but a gap
    None

ASSUME ConstantsAssumption ==
    /\ MaxRecords \in Nat
    /\ MaxBatch \in Nat
    /\ QueueBatches \in Nat \ {0}
    /\ QueueBytes \in Nat
    /\ MaxFaults \in Nat
    /\ MaxRejects \in Nat
    /\ GapsRejected \in BOOLEAN

Record == 1 .. MaxRecords
\* gap: losses to be reported with the batch; written: it was committed.
Batch == [records : SUBSET Record, gap : Nat, written : BOOLEAN]
Worker == {"starting", "top", "waiting", "taken", "writing", "ended"}
Flusher == {"off", "asking", "half", "clean", "late"}

ASSUME NoneAssumption == None \notin Batch

VARIABLES
    submitted,      \* records handed to submit
    draft,          \* the batch submit is making
    queue,          \* the channel
    outstanding,    \* status.outstanding
    pending,        \* status.pending_events and pending_runs
    dropped,        \* status.dropped_events and dropped_runs
    worker,
    batch,          \* the batch the worker holds
    known,          \* whether it has a last_revision
    stopped,        \* journal_stop
    flusher,        \* where flush is
    stored,         \* records in the database
    reported,       \* losses in its history_gap rows
    faults,
    rejects

counters == <<outstanding, pending, dropped>>
database == <<stored, reported>>
bounds == <<faults, rejects>>
vars == <<submitted, draft, queue, counters, worker, batch, known, stopped,
          flusher, database, bounds>>

BatchOf(rs) == [records |-> rs, gap |-> 0, written |-> FALSE]

\* Batches that exist, each with its Pending and its charges.
Held == {b \in {draft, batch} : b # None}
Charged ==
    MapThenSumSet(LAMBDA b : Cardinality(b.records), Held)
    + MapThenSumSet(LAMBDA i : Cardinality(queue[i].records), DOMAIN queue)

\* Status::drop_records.
Drop(n) == pending' = pending + n /\ dropped' = dropped + n

-----------------------------------------------------------------------------
Init ==
    /\ submitted = 0
    /\ draft = None
    /\ queue = <<>>
    /\ outstanding = 0
    /\ pending = 0
    /\ dropped = 0
    /\ worker = "starting"
    /\ batch = None
    /\ known = FALSE
    /\ stopped = FALSE
    /\ flusher = "off"
    /\ stored = {}
    /\ reported = 0
    /\ faults = 0
    /\ rejects = 0

-----------------------------------------------------------------------------
(* Journal::submit_queries, called by the monitor's task alone. *)

\* The records of an update: invalid ones and those the budget has no room for
\* are dropped one by one, the others go into a batch.
Admit(n) ==
    /\ flusher = "off"
    /\ draft = None
    /\ submitted + n <= MaxRecords
    /\ \E valid \in SUBSET (submitted + 1 .. submitted + n) :
        LET room == QueueBytes - Charged
            refused == {r \in valid : Cardinality({s \in valid : s <= r}) > room}
        IN  /\ draft' = BatchOf(valid \ refused)
            /\ Drop(n - Cardinality(valid \ refused))
    /\ submitted' = submitted + n
    /\ outstanding' = outstanding + 1
    /\ UNCHANGED <<queue, worker, batch, known, stopped, flusher, database, bounds>>

\* Mutant: an update that leaves nothing to write sends nothing.
IdleAlone(b) == b.records = {}

\* An empty batch is only worth sending to carry a gap.
Idle(b) == b.records = {} /\ pending = 0

Send ==
    /\ draft # None
    /\ IF ~Idle(draft) /\ worker # "ended" /\ Len(queue) < QueueBatches
       THEN /\ queue' = Append(queue, draft)
            /\ UNCHANGED counters
       ELSE /\ UNCHANGED queue
            /\ outstanding' = outstanding - 1
            /\ IF Idle(draft) THEN UNCHANGED <<pending, dropped>>
               ELSE Drop(Cardinality(draft.records))
    /\ draft' = None
    /\ UNCHANGED <<submitted, worker, batch, known, stopped, flusher, database, bounds>>

-----------------------------------------------------------------------------
(* journal_worker::run. *)

\* The database answers for the first time.
Start ==
    /\ worker = "starting"
    /\ worker' = "top"
    /\ UNCHANGED <<submitted, draft, queue, counters, batch, known, stopped,
                   flusher, database, bounds>>

\* With nothing lost, or no revision to report it under, wait for a batch.
Rest ==
    /\ worker = "top"
    /\ pending = 0 \/ ~known
    /\ worker' = "waiting"
    /\ UNCHANGED <<submitted, draft, queue, counters, batch, known, stopped,
                   flusher, database, bounds>>

\* The maintenance tick.
Maintain ==
    /\ worker = "waiting"
    /\ worker' = "top"
    /\ UNCHANGED <<submitted, draft, queue, counters, batch, known, stopped,
                   flusher, database, bounds>>

\* A batch of its own for what was lost.
Gather ==
    /\ worker = "top"
    /\ pending # 0 /\ known
    /\ batch' = BatchOf({})
    /\ outstanding' = outstanding + 1
    /\ worker' = "taken"
    /\ UNCHANGED <<submitted, draft, queue, pending, dropped, known, stopped,
                   flusher, database, bounds>>

\* Mutant: a batch is no longer outstanding once it has left the queue.
ReceiveUncounted ==
    /\ worker = "waiting"
    /\ queue # <<>>
    /\ batch' = Head(queue)
    /\ queue' = Tail(queue)
    /\ known' = TRUE
    /\ outstanding' = outstanding - 1
    /\ worker' = "taken"
    /\ UNCHANGED <<submitted, draft, pending, dropped, stopped, flusher, database, bounds>>

Receive ==
    /\ worker = "waiting"
    /\ queue # <<>>
    /\ batch' = Head(queue)
    /\ queue' = Tail(queue)
    /\ known' = TRUE
    /\ worker' = "taken"
    /\ UNCHANGED <<submitted, draft, counters, stopped, flusher, database, bounds>>

\* What was lost so far goes with the batch as a gap.
Swap ==
    /\ worker = "taken"
    /\ batch' = [batch EXCEPT !.gap = pending]
    /\ pending' = 0
    /\ worker' = "writing"
    /\ UNCHANGED <<submitted, draft, queue, outstanding, dropped, known, stopped,
                   flusher, database, bounds>>

\* The transaction; every key makes a second one do nothing.
Commit(b) ==
    /\ stored' = stored \cup b.records
    /\ reported' = reported + IF b.written THEN 0 ELSE b.gap

Write ==
    /\ worker = "writing"
    /\ Commit(batch)
    /\ batch' = None
    /\ outstanding' = outstanding - 1
    /\ worker' = "top"
    /\ UNCHANGED <<submitted, draft, queue, pending, dropped, known, stopped,
                   flusher, bounds>>

\* A write fails and will be tried again; it may have been committed.
Fault ==
    /\ worker = "writing"
    /\ faults < MaxFaults
    /\ faults' = faults + 1
    /\ \/ UNCHANGED <<batch, database>>
       \/ Commit(batch) /\ batch' = [batch EXCEPT !.written = TRUE]
    /\ UNCHANGED <<submitted, draft, queue, counters, worker, known, stopped,
                   flusher, rejects>>

\* Mutant: the gap that came with a rejected batch is forgotten.
RestoredNot(b) == Cardinality(b.records)

\* What a rejected batch leaves to report: its records and its gap.
Restored(b) == Cardinality(b.records) + b.gap

\* The database rejects the records for good.
Reject ==
    /\ worker = "writing"
    /\ ~batch.written /\ batch.records # {}
    /\ rejects < MaxRejects
    /\ rejects' = rejects + 1
    /\ dropped' = dropped + Cardinality(batch.records)
    /\ pending' = pending + Restored(batch)
    /\ outstanding' = outstanding - 1
    /\ batch' = None
    /\ worker' = "top"
    /\ UNCHANGED <<submitted, draft, queue, known, stopped, flusher, database, faults>>

\* The worker returns: what it holds and what is queued is dropped.
Leave ==
    /\ worker' = "ended"
    /\ batch' = None
    /\ queue' = <<>>
    /\ outstanding' = outstanding - Len(queue) - IF batch # None THEN 1 ELSE 0

\* It rejects a mere gap: the worker gives up.
GiveUp ==
    /\ GapsRejected
    /\ worker = "writing"
    /\ ~batch.written /\ batch.records = {}
    /\ rejects < MaxRejects
    /\ rejects' = rejects + 1
    /\ Leave
    /\ UNCHANGED <<submitted, draft, pending, dropped, known, stopped, flusher,
                   database, faults>>

\* The stop token is seen, also in the middle of a write.
End ==
    /\ stopped
    /\ worker \in {"starting", "waiting", "writing"}
    /\ Leave
    /\ UNCHANGED database \/ (batch # None /\ Commit(batch))
    /\ UNCHANGED <<submitted, draft, pending, dropped, known, stopped, flusher, bounds>>

-----------------------------------------------------------------------------
(* Journal::flush and the end of serve. *)

\* The monitor has ended; nothing is submitted any more.
Ask ==
    /\ flusher = "off"
    /\ draft = None
    /\ flusher' = "asking"
    /\ UNCHANGED <<submitted, draft, queue, counters, worker, batch, known, stopped,
                   database, bounds>>

\* The first of its loads ...
Count ==
    /\ flusher = "asking"
    /\ outstanding = 0
    /\ flusher' = "half"
    /\ UNCHANGED <<submitted, draft, queue, counters, worker, batch, known, stopped,
                   database, bounds>>

\* ... and the others.
Decide ==
    /\ flusher = "half"
    /\ flusher' = (IF pending = 0 THEN "clean" ELSE "asking")
    /\ UNCHANGED <<submitted, draft, queue, counters, worker, batch, known, stopped,
                   database, bounds>>

\* The deadline of the shutdown passes.
Expire ==
    /\ flusher = "asking"
    /\ flusher' = "late"
    /\ UNCHANGED <<submitted, draft, queue, counters, worker, batch, known, stopped,
                   database, bounds>>

Stop ==
    /\ flusher \in {"clean", "late"}
    /\ ~stopped
    /\ stopped' = TRUE
    /\ UNCHANGED <<submitted, draft, queue, counters, worker, batch, known, flusher,
                   database, bounds>>

Next ==
    \/ \E n \in 0 .. MaxBatch : Admit(n)
    \/ Send
    \/ Start \/ Rest \/ Maintain \/ Gather \/ Receive \/ Swap
    \/ Write \/ Fault \/ Reject \/ GiveUp \/ End
    \/ Ask \/ Count \/ Decide \/ Expire \/ Stop

Spec == Init /\ [][Next]_vars

\* The worker's task is polled, a ready channel comes before the next
\* maintenance tick often enough, and the database answers in the end.
Fairness ==
    /\ WF_vars(Send)
    /\ WF_vars(Start) /\ WF_vars(Rest) /\ WF_vars(Gather) /\ WF_vars(Swap) /\ WF_vars(Write)
    /\ SF_vars(Receive)

FairSpec == Spec /\ Fairness

-----------------------------------------------------------------------------
\* Every part keeps its shape; what is charged fits the budget of the queue, and
\* outstanding counts the batches there are, wherever they are.
TypeOK ==
    /\ submitted \in 0 .. MaxRecords
    /\ draft \in Batch \cup {None}
    /\ queue \in Seq(Batch)
    /\ Len(queue) <= QueueBatches
    /\ Charged <= QueueBytes
    /\ pending \in Nat
    /\ dropped \in Nat
    /\ worker \in Worker
    /\ batch \in Batch \cup {None}
    /\ known \in BOOLEAN
    /\ stopped \in BOOLEAN
    /\ flusher \in Flusher
    /\ stored \subseteq Record
    /\ reported \in Nat
    /\ outstanding = Len(queue) + (IF draft # None THEN 1 ELSE 0)
                                + (IF batch # None THEN 1 ELSE 0)

InHand ==
    (UNION {b.records : b \in Held}) \cup (UNION {queue[i].records : i \in DOMAIN queue})

\* While the worker lives, every record submitted is in the database, on its way
\* there, or counted in the dropped counters the dashboard shows, and no record
\* is counted twice (journal.rs, drop_records); and "Count queued and in-flight work
\* together so shutdown cannot race a dequeue": a flush that succeeds leaves no record
\* behind.
EveryRecordAccounted ==
    worker # "ended" =>
        /\ Cardinality(stored \cup InHand) + dropped = submitted
        /\ flusher = "clean" => Cardinality(stored) + dropped = submitted

\* "Dropped records increment visible counters and are recorded as delivery gaps
\* when storage recovers": what the counters show is what the gaps report or
\* will, each loss once, through retries and rejected batches.
LossesReported ==
    worker # "ended" =>
        dropped = reported + pending
                  + IF batch = None \/ batch.written THEN 0 ELSE batch.gap

\* No loss escapes the counters, and no counter counts what was not lost.
LossesAccounted == EveryRecordAccounted /\ LossesReported

\* Flush also waits for the gaps (journal.rs:31): after a flush that
\* succeeded the database has every loss.
FlushedGaps ==
    flusher = "clean" /\ worker = "ended" => reported = dropped

\* When storage recovers, what was lost is reported, even if every later update
\* has nothing to write.
GapsAreReported == []<>(pending = 0 \/ worker = "ended")
=============================================================================
