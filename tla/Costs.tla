-------------------------------- MODULE Costs --------------------------------
(***************************************************************************)
(* Billing imports of one source: the worker (server/src/cost_worker.rs,   *)
(* cost_reader.rs), the store (history/src/cost_write.rs, cost_schedule.rs,*)
(* cost_accounting.rs), the paid query job it starts (providers/src/       *)
(* billing_gcp.rs), and a dashboard request (cost_read.rs,                 *)
(* cost_response.rs) that reads the store meanwhile.                       *)
(*                                                                         *)
(* An import reads a period, one page of rows per day here.  A day is      *)
(* visible through its partition, which names the import whose rows count. *)
(***************************************************************************)
EXTENDS Integers, FiniteSets, FiniteSetsExt

CONSTANTS
    Kinds,          \* "gcp" has jobs; "azure" and "aws" answer a query at once
    First, Last,    \* bounds on the day
    Backfill, Retention,
    Week,           \* days of one import, 7 in cost_schedule.rs
    Revisit,        \* after which a partition is read again, 30 in cost_schedule.rs
    Daily,          \* config.daily_bytes()
    Sizes,          \* config.query_bytes() of the configurations there are
    Due,            \* {FALSE} when the interval is a day, BOOLEAN when it is shorter
    MayFail,        \* whether the job of a period that is over can end with an error
    MaxFaults,      \* bound on crashes, timeouts and failed requests
    None

ASSUME ConstantsAssumption ==
    /\ {First, Last, Backfill, Retention, Week, Revisit} \subseteq Nat
    /\ First <= Last
    /\ Daily \in Nat
    /\ Sizes \subseteq Nat \ {0}
    /\ Due \subseteq BOOLEAN
    /\ MayFail \in BOOLEAN
    /\ MaxFaults \in Nat

\* A row of cost_import, with the auxiliary number of jobs that were paid for.
Import == [from : Int, to : Int, reserved : Nat, billed : Nat \cup {None},
           started : First..Last, published : (First..Last) \cup {None}, paid : Nat]

ASSUME NoneAssumption == None \notin Int /\ None \notin BOOLEAN /\ None \notin Import

VARIABLES
    kind,
    today,
    imports,        \* cost_import
    rows,           \* cost_daily: the days staged per import
    partition,      \* cost_partition: the import of each visible day
    source,         \* cost_source: [revision, fault]
    job,            \* external: the job of each import, and the bytes it may scan or scanned
    size,           \* config.query_bytes()
    worker,
    attempted,      \* an aws query was made within a day
    reader,         \* a request: the status it read (None once outdated), and whether
                    \* its statements read different partitions
    faults

costs == <<kind, today, imports, rows, partition, source, job, size, worker, attempted, reader, faults>>
request == <<reader>>
store == <<imports, rows, partition, source>>

Day == (First - Retention)..(Last + 1)
Id == 1..(Retention + Last - First + 3)
Idle == [at |-> "idle", id |-> None, next |-> None]
NoJob == [state |-> "none", bytes |-> 0]
NoRead == [at |-> "out", status |-> None, mixed |-> FALSE]
Days(i) == imports[i].from..(imports[i].to - 1)

Init ==
    /\ kind \in Kinds
    /\ today = First
    /\ imports = [i \in Id |-> None]
    /\ rows = [i \in Id |-> {}]
    /\ partition = [d \in Day |-> None]
    /\ source = [revision |-> None, fault |-> FALSE]
    /\ job = [i \in Id |-> NoJob]
    /\ size \in Sizes
    /\ worker = Idle
    /\ attempted = FALSE
    /\ reader = NoRead
    /\ faults = 0

-----------------------------------------------------------------------------
(* cost_next_period. *)

To == today + 1
Visible(d) == d >= To - Retention /\ partition[d] # None
Window(end) == [from |-> IF kind = "aws" THEN To - Backfill ELSE Max({end - Week, To - Backfill}),
                to |-> end]
Missing == {d \in (To - Backfill)..today : ~Visible(d)}
Aged == {d \in Day : Visible(d) /\ today - imports[partition[d]].published >= Revisit}

\* The current window first, then the newest missing day, then what was read long ago.
\* "due": the interval since the import of today's partition has passed.
NextPeriod(due) ==
    IF ~Visible(today) \/ due THEN Window(To)
    ELSE IF Missing # {} THEN Window(Max(Missing) + 1)
    ELSE IF Aged # {}
         THEN LET d == CHOOSE d \in Aged : \A e \in Aged :
                            imports[partition[d]].published <= imports[partition[e]].published
              IN  [from |-> d, to |-> d + 1]
    ELSE None

-----------------------------------------------------------------------------
(* cost_begin: one transaction. *)

Reservation == IF kind = "gcp" THEN size ELSE 1

Pending == {i \in Id : imports[i] # None /\ imports[i].published = None}

\* What reserve() counts: imports of today, and unpublished ones of any day, each with
\* what it was billed or else has reserved.  The sum is the number of their units.
Counted == {i \in Id : imports[i] # None
                        /\ (imports[i].started = today \/ imports[i].published = None)}
Amount(i) == IF imports[i].billed = None THEN imports[i].reserved ELSE imports[i].billed
Units == UNION {{i} \X (1..Amount(i)) : i \in Counted}
Charged == Cardinality(Units)

\* Mutant: an import that is resumed keeps its reservation though its query may scan more.
IncreaseNever(i) == 0
Increase(i) == Max({Reservation - imports[i].reserved, 0})

Free == {i \in Id : imports[i] = None}

\* The import that goes on, or a new one.
Begin(due) ==
    LET period == NextPeriod(due)
        id == IF Pending # {} THEN Max(Pending) ELSE CHOOSE i \in Free : TRUE
        more == IF Pending # {} THEN Increase(id) ELSE Reservation
    IN  /\ worker.at = "idle"
        /\ Pending # {} \/ Free # {}       \* Id bounds the imports kept at a time
        /\ kind = "aws" => ~attempted
        /\ period # None
        /\ Charged + more <= Daily
        /\ imports' = [imports EXCEPT ![id] =
                IF Pending # {} THEN [@ EXCEPT !.reserved = imports[id].reserved + more]
                ELSE [from |-> period.from, to |-> period.to, reserved |-> more,
                      billed |-> None, started |-> today, published |-> None, paid |-> 0]]
        /\ rows' = [rows EXCEPT ![id] = {}]
        /\ job' = IF Pending # {} THEN job ELSE [job EXCEPT ![id] = NoJob]
        /\ worker' = [at |-> IF kind = "gcp" THEN "start" ELSE "settle", id |-> id, next |-> None]
        /\ attempted' = TRUE
        /\ UNCHANGED <<kind, today, partition, source, size, request, faults>>

\* The allowance of the day is used up.
Refused(due) ==
    /\ worker.at = "idle"
    /\ NextPeriod(due) # None /\ (kind = "aws" => ~attempted)
    /\ LET more == IF Pending # {} THEN Increase(Max(Pending)) ELSE Reservation
       IN  Charged + more > Daily
    /\ source' = [source EXCEPT !.fault = TRUE]
    /\ UNCHANGED <<kind, today, imports, rows, partition, job, size, worker, attempted, request, faults>>

-----------------------------------------------------------------------------
(* Reader::start of billing_gcp. *)

\* Mutant: a job that is there already is an error.
ResumesNever(i) == FALSE
Resumes(i) == TRUE

\* GET says missing; the dry run fits; POST. Its answer may be lost (Fault).
Submit ==
    /\ worker.at = "start"
    /\ job[worker.id] = NoJob
    /\ job' = [job EXCEPT ![worker.id] = [state |-> "running", bytes |-> size]]
    /\ imports' = [imports EXCEPT ![worker.id].paid = @ + 1]
    /\ worker' = [worker EXCEPT !.at = "poll"]
    /\ UNCHANGED <<kind, today, rows, partition, source, size, attempted, request, faults>>

Existing ==
    /\ worker.at = "start"
    /\ job[worker.id] # NoJob /\ Resumes(worker.id)
    /\ worker' = [worker EXCEPT !.at = "poll"]
    /\ UNCHANGED <<kind, today, store, job, size, attempted, request, faults>>

\* External.
JobEnds(i) ==
    /\ job[i].state = "running"
    /\ \E b \in 0..job[i].bytes :
        \/ job' = [job EXCEPT ![i] = [state |-> "done", bytes |-> b]]
        \/ /\ MayFail /\ imports[i].to <= today
           /\ job' = [job EXCEPT ![i] = [state |-> "failed", bytes |-> b]]
    /\ UNCHANGED <<kind, today, store, size, worker, attempted, request, faults>>

Polled ==
    /\ worker.at = "poll"
    /\ job[worker.id].state = "done"
    /\ worker' = [worker EXCEPT !.at = "settle"]
    /\ UNCHANGED <<kind, today, store, job, size, attempted, request, faults>>

\* An error result is a fault of the source like any other.
PolledError ==
    /\ worker.at = "poll"
    /\ job[worker.id].state = "failed"
    /\ source' = [source EXCEPT !.fault = TRUE]
    /\ worker' = Idle
    /\ UNCHANGED <<kind, today, imports, rows, partition, job, size, attempted, request, faults>>

-----------------------------------------------------------------------------
(* Pages, publication and cleanup. *)

Settle ==
    /\ worker.at = "settle"
    /\ imports' = [imports EXCEPT ![worker.id].billed = job[worker.id].bytes]
    /\ worker' = [worker EXCEPT !.at = "page", !.next = imports[worker.id].from]
    /\ UNCHANGED <<kind, today, rows, partition, source, job, size, attempted, request, faults>>

Stage ==
    /\ worker.at = "page"
    /\ worker.next < imports[worker.id].to
    /\ rows' = [rows EXCEPT ![worker.id] = @ \cup {worker.next}]
    /\ worker' = [worker EXCEPT !.next = @ + 1]
    /\ UNCHANGED <<kind, today, imports, partition, source, job, size, attempted, request, faults>>

Complete(i) == worker.next = imports[i].to /\ rows[i] = Days(i)

Publish ==
    LET i == worker.id
    IN  /\ worker.at = "page"
        /\ Complete(i)
        /\ partition' = [d \in Day |-> IF d < today - Retention THEN None
                                       ELSE IF d \in Days(i) THEN i ELSE partition[d]]
        /\ imports' = [imports EXCEPT ![i].published = today]
        /\ source' = [revision |-> i, fault |-> FALSE]
        /\ worker' = [Idle EXCEPT !.at = "cleanup"]
        /\ reader' = [reader EXCEPT !.status = None, !.mixed = @ \/ reader.at = "second"]
        /\ UNCHANGED <<kind, today, rows, job, size, attempted, faults>>

Referred == {partition[d] : d \in Day} \cup {source.revision}

\* Mutant: every published import but the newest is obsolete.
ObsoleteOld == {i \in Id \ {source.revision} : imports[i] # None /\ imports[i].published # None}
Obsolete == {i \in Id \ Referred : imports[i] # None /\ imports[i].published # None}

Cleanup ==
    /\ worker.at = "cleanup"
    /\ imports' = [i \in Id |-> IF i \in Obsolete THEN None ELSE imports[i]]
    /\ rows' = [i \in Id |-> IF i \in Obsolete THEN {}
                             ELSE IF i \in Pending THEN rows[i]
                             ELSE {d \in rows[i] : partition[d] = i}]
    /\ worker' = Idle
    /\ UNCHANGED <<kind, today, partition, source, job, size, attempted, request, faults>>

-----------------------------------------------------------------------------
(* Faults, and time. *)

\* A request or a write fails, an answer is lost, or the 300 seconds are over.
Fault ==
    /\ worker.at # "idle"
    /\ faults < MaxFaults
    /\ faults' = faults + 1
    /\ worker' = Idle
    /\ source' = IF worker.at = "cleanup" THEN source ELSE [source EXCEPT !.fault = TRUE]
    /\ UNCHANGED <<kind, today, imports, rows, partition, job, size, attempted, request>>

\* The process ends anywhere and starts with a configuration that may differ.
Restart ==
    /\ faults < MaxFaults
    /\ faults' = faults + 1
    /\ worker' = Idle
    /\ size' \in Sizes
    /\ reader' = NoRead
    /\ UNCHANGED <<kind, today, store, job, attempted>>

Tick ==
    /\ today < Last
    /\ today' = today + 1
    /\ attempted' = FALSE
    /\ UNCHANGED <<kind, store, job, size, worker, request, faults>>

-----------------------------------------------------------------------------
(* cost_view: the status, the rows in several statements, the status again. *)

\* Of the status of a source, its fault; that its revision and the time of the import
\* change with every publication is in Publish.
ReadStatus ==
    /\ reader.at = "out"
    /\ reader' = [NoRead EXCEPT !.at = "first", !.status = source.fault]
    /\ UNCHANGED <<kind, today, store, job, size, worker, attempted, faults>>

ReadRows ==
    /\ reader.at \in {"first", "second"}
    /\ reader' = [reader EXCEPT !.at = IF @ = "first" THEN "second" ELSE "check"]
    /\ UNCHANGED <<kind, today, store, job, size, worker, attempted, faults>>

\* Mutant: the response goes out as it is.
UnchangedAlways == TRUE
Unchanged == reader.status = source.fault

Respond ==
    /\ reader.at = "check"
    /\ reader' = IF Unchanged THEN [reader EXCEPT !.at = "answered"] ELSE NoRead
    /\ UNCHANGED <<kind, today, store, job, size, worker, attempted, faults>>

Received ==
    /\ reader.at = "answered"
    /\ reader' = NoRead
    /\ UNCHANGED <<kind, today, store, job, size, worker, attempted, faults>>

-----------------------------------------------------------------------------
Worker == (\E due \in Due : Begin(due)) \/ Submit \/ Existing \/ Polled \/ PolledError
            \/ Settle \/ Stage \/ Publish \/ Cleanup

Next ==
    \/ Worker \/ Fault \/ Restart \/ Tick
    \/ \E due \in Due : Refused(due)
    \/ \E i \in Id : JobEnds(i)
    \/ ReadStatus \/ ReadRows \/ Respond \/ Received

\* The worker goes on, and jobs end.
Fairness == WF_costs(Worker) /\ \A i \in Id : WF_costs(JobEnds(i))

Spec == Init /\ [][Next]_costs /\ Fairness

-----------------------------------------------------------------------------
\* Type invariant: one import at most is under way, and the worker has it.
TypeOK ==
    /\ kind \in Kinds
    /\ today \in First..Last
    /\ imports \in [Id -> Import \cup {None}]
    /\ rows \in [Id -> SUBSET Int]
    /\ partition \in [Day -> Id \cup {None}]
    /\ source \in [revision : Id \cup {None}, fault : BOOLEAN]
    /\ job \in [Id -> [state : {"none", "running", "done", "failed"}, bytes : Nat]]
    /\ size \in Sizes
    /\ worker \in [at : {"idle", "start", "poll", "settle", "page", "cleanup"},
                   id : Id \cup {None}, next : Int \cup {None}]
    /\ attempted \in BOOLEAN
    /\ reader \in [at : {"out", "first", "second", "check", "answered"},
                   status : BOOLEAN \cup {None}, mixed : BOOLEAN]
    /\ faults \in 0..MaxFaults
    /\ \A i, j \in Pending : i = j
    /\ worker.at \in {"start", "poll", "settle", "page"} => worker.id \in Pending
    /\ worker.at = "page" => worker.next \in Int /\ imports[worker.id].from <= worker.next
    /\ \A i \in Id : imports[i] # None => rows[i] \subseteq Days(i)

\* "A stopped or malformed import cannot replace the previous published partitions"
\* (dashboard-billing-operations.md:64): every visible day has the rows of one import that
\* was read to its end, whatever was cleaned up, resumed or staged again since.
NeverPartial ==
    \A d \in Day : partition[d] # None =>
        /\ imports[partition[d]] # None
        /\ imports[partition[d]].published # None
        /\ d \in rows[partition[d]]

\* billing_gcp.rs:122 "Resume a named job after timeout rather than submitting a second
\* paid query", and cost_accounting.rs:1: one paid job per import, and what today's and the
\* unfinished imports may scan stays within the daily allowance, across restarts
\* that change the size of a query.
SpendBounded ==
    /\ \A i \in Id : imports[i] # None => imports[i].paid <= 1
    /\ worker.at = "start" => imports[worker.id].reserved >= Reservation
    /\ Charged <= Daily

\* cost_response.rs:90 "Do not mix new partitions into a response": what an answered
\* request read in its statements is of one publication.
ResponseUnmixed == reader.at = "answered" => ~reader.mixed

\* "GCP and Azure backfill ... prioritize the current period"
\* (dashboard-billing-operations.md:66): once faults end, the current day is imported.
CurrentImported == <>[](kind = "aws" \/ partition[today] # None)
=============================================================================
