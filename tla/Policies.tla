-------------------------------- MODULE Policies ------------------------------
(***************************************************************************)
(* The health policy: what one observation says of its resource            *)
(* (core/src/policy.rs and the policies it calls), and the joins of a      *)
(* result's observations that come before it (schedule_policy::correlate,  *)
(* recovery::consolidate, log_recovery::reconcile).                        *)
(*                                                                         *)
(* An observation is a record: data, active (expected is Active), at, and  *)
(* the fields of its kind.  Times are integers, a time that is not known   *)
(* is Never, as Option orders it, and any other field that is not known is *)
(* None; so is a number that is not finite or not in its range.            *)
(***************************************************************************)
EXTENDS Integers, Sequences, FiniteSets, SequencesExt

CONSTANTS
    None,
    Settings        \* record of the thresholds, graces and windows of a check

Never == -1

\* A configuration resolves every threshold; four of them may be left open.
ConstantsAssumption ==
    /\ None \notin Int \cup {TRUE}
    /\ Settings \in
        [freshness : Nat, runtime_window : Nat, node_grace : Nat, rollout_grace : Nat,
         certificate_warning : Nat, recovery_age : Nat \cup {None}, operation_timeout : Nat,
         burn_rate : Nat \cup {None}, latency : Nat \cup {None}, capacity_warning : Nat,
         capacity_error : Nat, capacity_sustain : Nat, queue_age : Nat \cup {None}]

Quiet(health) == [health |-> health, rule |-> None]
Unknown == Quiet("unknown")
Healthy == Quiet("healthy")
Inactive == Quiet("inactive")

\* A fault's severity decides the health, and its rule the finding.
Error(rule) == [health |-> "unhealthy", rule |-> rule]
Warning(rule) == [health |-> "degraded", rule |-> rule]

\* An age that is not known, or lies in the future, is neither young nor old.
AgeKnown(at, now) == at # Never /\ at <= now
Older(at, now, n) == AgeKnown(at, now) /\ now - at > n
Younger(at, now, n) == AgeKnown(at, now) /\ now - at < n

\* The prior observation counts if it is of the same thing and recent.
Usable(prior, o) ==
    /\ prior # None
    /\ prior.active = o.active /\ prior.at < o.at
    /\ o.at - prior.at <= Settings.freshness

\* An optional threshold is exceeded by a value that is known.
Exceeds(value, limit) == limit # None /\ value # None /\ value > limit

-----------------------------------------------------------------------------
(* One policy for each kind of data. *)

JobHealth(o, now) ==
    IF o.complete THEN IF o.failed THEN Unknown ELSE Healthy
    ELSE IF o.failed /\ o.active /\ ~Older(o.created, now, Settings.runtime_window)
         THEN Error("job-failed")
    ELSE IF o.active THEN Unknown ELSE Inactive

Workload(o, now) ==
    LET grace == IF o.node THEN Settings.node_grace ELSE Settings.rollout_grace
    IN  IF o.draining \/ o.desired = 0 THEN Inactive
        ELSE IF o.ready >= o.desired THEN Healthy
        ELSE IF Younger(o.created, now, grace) THEN Unknown
        ELSE IF ~o.active THEN Inactive
        ELSE Error(IF o.node THEN "node-not-ready" ELSE "replicas-not-ready")

Pod(o, prior, now) ==
    LET restarting == /\ prior # None
                      /\ prior.uid = o.uid
                      /\ o.restarts - prior.restarts >= 3
    IN  IF ~o.active THEN Inactive
        ELSE IF o.crash_loop THEN Error("container-crash-loop")
        ELSE IF ~o.ready /\ ~Younger(o.created, now, Settings.rollout_grace)
             THEN Error("pod-not-ready")
        ELSE IF restarting THEN Warning("container-restarting")
        ELSE IF o.ready THEN Healthy ELSE Unknown

\* Mutant: a certificate of which only one half is known is in order.
CertificateHalf(o, now) ==
    IF ~o.active THEN Inactive
    ELSE IF o.issued = FALSE \/ (o.expires # Never /\ o.expires <= now)
         THEN Error("certificate-invalid")
    ELSE IF o.expires # Never /\ o.expires - now < Settings.certificate_warning
         THEN Warning("certificate-expiring")
    ELSE IF o.issued = None /\ o.expires = Never THEN Unknown ELSE Healthy

Certificate(o, now) ==
    IF ~o.active THEN Inactive
    ELSE IF o.issued = FALSE \/ (o.expires # Never /\ o.expires <= now)
         THEN Error("certificate-invalid")
    ELSE IF o.expires # Never /\ o.expires - now < Settings.certificate_warning
         THEN Warning("certificate-expiring")
    ELSE IF o.issued = None \/ o.expires = Never THEN Unknown ELSE Healthy

Recovery(o, now) ==
    IF ~o.active THEN Inactive
    ELSE IF o.enabled = FALSE THEN Warning("backup-disabled")
    ELSE IF o.state = "failed" THEN Warning("backup-failed")
    ELSE IF Settings.recovery_age = None \/ o.last_success = Never THEN Unknown
    ELSE IF now - o.last_success > Settings.recovery_age THEN Error("recovery-point-too-old")
    ELSE Healthy

Build(o, now) ==
    IF o.state = "failed" /\ ~o.superseded
    THEN IF o.created = Never THEN Unknown
         ELSE IF Older(o.created, now, Settings.runtime_window) THEN Inactive
         ELSE Warning(IF o.target THEN "deployment-blocked" ELSE "build-failed")
    ELSE IF o.state = "ready" \/ o.superseded THEN Healthy ELSE Unknown

Log(o) ==
    IF o.signature # "warning" /\ o.count > 0 THEN Warning("runtime-failure-sample")
    ELSE IF o.count = 0 /\ ~o.sampled THEN Healthy ELSE Unknown

Condition(o) ==
    IF o.healthy = None THEN Unknown ELSE IF o.healthy THEN Healthy ELSE Error(o.rule)

\* synchronization::evaluate.
Synchronization(o, now) ==
    IF ~o.active THEN Inactive
    ELSE IF o.ready = FALSE THEN Error("externalsecrets-not-ready")
    ELSE IF o.ready = None THEN Unknown
    ELSE IF o.interval = None THEN Healthy
    ELSE IF ~AgeKnown(o.last_sync, now) THEN Unknown
    ELSE IF now - o.last_sync > 2 * o.interval + Settings.operation_timeout
         THEN Warning("externalsecret-sync-stale")
    ELSE Healthy

\* slo_policy::evaluate; goal and compliance may lie out of their range; a budget below
\* zero is one that is spent.
Slo(o) ==
    IF ~o.active THEN Inactive
    ELSE IF o.malformed THEN Unknown
    ELSE IF /\ Settings.burn_rate # None /\ o.burn_rate # None
            /\ o.burn_rate >= Settings.burn_rate
         THEN Error("slo-burn-rate")
    ELSE IF (o.compliance # None /\ o.compliance < o.goal) \/ o.spent = TRUE
         THEN Warning("slo-compliance")
    ELSE IF o.compliance # None THEN Healthy ELSE Unknown

\* endpoint_policy::evaluate; a status is accepted by the list, or below 500 without one.
Endpoint(o, now) ==
    IF ~o.dns \/ ~o.tls \/ o.accepted # TRUE
    THEN IF o.active THEN Error("endpoint-unreachable") ELSE Inactive
    ELSE IF o.expires # Never /\ o.expires - now < Settings.certificate_warning
         THEN Warning("certificate-expiring")
    ELSE IF Exceeds(o.latency, Settings.latency) THEN Error("endpoint-latency")
    ELSE Healthy

\* resource_policy::evaluate, of a managed service.
Service(o) ==
    IF ~o.active /\ o.state = "stopped" THEN Inactive
    ELSE IF o.state \in {"failed", "stopped"} THEN Error("service-unavailable")
    ELSE IF o.state \in {"starting", "unknown"} THEN Unknown
    ELSE IF o.encrypted = FALSE THEN Warning("encryption-disabled")
    ELSE IF o.backup_enabled = FALSE THEN Warning("backup-disabled")
    ELSE Healthy

\* resource_policy::evaluate, of a metric: a share of its capacity where that is known,
\* with the thresholds of the settings where it names none; a capacity reading that is
\* not sustained decides nothing (see module Signals).
Metric(o) ==
    LET share == o.capacity # None /\ o.capacity > 0
        Default(t, d) == IF t = None /\ share THEN d ELSE t
        warn == Default(o.warning, Settings.capacity_warning)
        err == Default(o.error, Settings.capacity_error)
        Over(t) == t # None /\ IF share THEN o.value * 100 >= t * o.capacity ELSE o.value >= t
    IN  IF ~o.active THEN Inactive
        ELSE IF o.value = None \/ (warn = None /\ err = None) THEN Unknown
        ELSE IF /\ o.capacity # None /\ o.window < Settings.capacity_sustain
                /\ Over(warn) \/ Over(err)
             THEN Unknown
        ELSE IF Over(err) THEN Error("metric-threshold")
        ELSE IF Over(warn) THEN Warning("metric-threshold")
        ELSE Healthy

\* queue_policy::evaluate: demand above the activation threshold needs a consumer.
Queue(o, prior) ==
    IF o.backlog = None THEN Unknown
    ELSE IF ~o.active THEN Inactive
    ELSE IF Exceeds(o.dead_letters, 0) THEN Warning("dead-letter-backlog")
    ELSE IF o.backlog <= o.activation THEN Healthy
    ELSE IF o.crash_loop /\ o.ready = 0 THEN Error("queued-work-crash-looping-consumer")
    ELSE IF ~o.scaler_ready THEN Error("queued-work-scaler-not-ready")
    ELSE IF Exceeds(o.age, Settings.queue_age) THEN Error("queue-age")
    ELSE IF o.ready > 0 THEN Healthy
    ELSE IF prior # None /\ prior.backlog # None /\ prior.backlog > o.activation /\ prior.ready = 0
         THEN Warning("persistent-queued-work-consumer-starting")
    ELSE Unknown

\* schedule_policy::evaluate.  occurrences are the times the cron expression names, or
\* None if it or its timezone cannot be read; a starting deadline is a day at most.
Schedule(o, now) ==
    LET grace == IF o.deadline > Settings.rollout_grace THEN o.deadline
                 ELSE Settings.rollout_grace
        before == {t \in o.occurrences : t <= now - grace}
        due == CHOOSE t \in before : \A u \in before : u <= t
    IN  IF o.suspended \/ ~o.active THEN Inactive
        ELSE IF o.running /\ o.forbid_overlap THEN Unknown
        ELSE IF /\ o.last_schedule > o.last_success /\ ~o.running
                /\ now - o.last_schedule > Settings.rollout_grace
             THEN Warning("latest-schedule-not-successful")
        ELSE IF o.occurrences = None THEN Unknown
        ELSE IF before = {} \/ (o.created # Never /\ due < o.created) THEN Unknown
        ELSE IF o.last_schedule < due
             THEN IF o.created = Never /\ o.last_schedule = Never THEN Unknown
                  ELSE Warning("schedule-missed")
        ELSE IF o.last_success >= due THEN Healthy ELSE Unknown

\* evaluate: freshness first, then the policy of the data; evidence that is no health
\* evidence says nothing.
Evaluate(o, earlier, now) ==
    LET prior == IF Usable(earlier, o) THEN earlier ELSE None
    IN  IF ~AgeKnown(o.at, now) \/ Older(o.at, now, Settings.freshness) THEN Unknown
        ELSE CASE o.data = "job" -> JobHealth(o, now)
               [] o.data = "workload" -> Workload(o, now)
               [] o.data = "pod" -> Pod(o, prior, now)
               [] o.data = "certificate" -> Certificate(o, now)
               [] o.data = "recovery" -> Recovery(o, now)
               [] o.data = "build" -> Build(o, now)
               [] o.data = "log" -> Log(o)
               [] o.data = "condition" -> Condition(o)
               [] o.data = "synchronization" -> Synchronization(o, now)
               [] o.data = "slo" -> Slo(o)
               [] o.data = "endpoint" -> Endpoint(o, now)
               [] o.data = "service" -> Service(o)
               [] o.data = "metric" -> Metric(o)
               [] o.data = "queue" -> Queue(o, prior)
               [] o.data = "schedule" -> Schedule(o, now)
               [] o.data = "identity" -> Healthy
               [] o.data = "progress" -> IF o.state = "unhealthy" THEN Error("flow-stalled") ELSE Quiet(o.state)
               [] OTHER -> Unknown

-----------------------------------------------------------------------------
(* Joins within one result. *)

Latest(S) == IF S = {} THEN Never ELSE CHOOSE t \in S : \A u \in S : u <= t

\* correlate: a schedule takes the newest completion of the jobs its own UID owns, where
\* the operations that found them are complete.
Correlated(o, owners, jobs) ==
    LET mine == {q \in owners : q.resource = o.resource /\ q.complete}
        uids == {q.uid : q \in mine}
        done == {j \in jobs : /\ j.complete /\ j.succeeded /\ j.completed # Never
                              /\ \E q \in owners : /\ q.resource = j.resource /\ q.complete
                                                   /\ q.owner \in uids}
    IN  [o EXCEPT !.last_success = Latest({@} \cup {j.completed : j \in done}),
                  !.last_schedule = Latest({@} \cup {j.scheduled : j \in done})]

\* consolidate: a resource's recovery points become one, in the place of the first.
Consolidated(points) ==
    LET Merged(old, p) ==
            [IF p.last_attempt > old.last_attempt THEN p ELSE old
                EXCEPT !.last_success = Latest({old.last_success, p.last_success})]
        Add(out, p) ==
            IF \E i \in DOMAIN out : out[i].resource = p.resource
            THEN [i \in DOMAIN out |->
                    IF out[i].resource = p.resource THEN Merged(out[i], p) ELSE out[i]]
            ELSE Append(out, p)
    IN  FoldLeft(Add, <<>>, points)

\* reconcile: the log findings, in the order of their ids, that a complete window without
\* a gap clears because it ends after them and does not show them any more, while there is
\* room for the observations that say so.
Reconciled(findings, seen, windows, room) ==
    LET Clears(f) == /\ f.resource \notin seen
                     /\ \E w \in windows : /\ w.operation = f.operation /\ w.complete
                                           /\ w.gap = 0 /\ w.end > f.observed_at
        Add(out, f) == IF Clears(f) /\ Len(out) < room THEN Append(out, f) ELSE out
    IN  FoldLeft(Add, <<>>, findings)

-----------------------------------------------------------------------------
Rank(verdict) ==
    CASE verdict.health \in {"healthy", "inactive"} -> 0
      [] verdict.health = "unknown" -> 1
      [] verdict.health = "degraded" -> 2
      [] verdict.health = "unhealthy" -> 3

\* The measurements of a kind of data of which less, or more, is worse, and those without
\* which nothing can be said to be in order.
LessIsWorse(data) ==
    CASE data = "workload" -> {"ready"} [] data = "certificate" -> {"expires"}
      [] data \in {"recovery", "schedule"} -> {"last_success"}
      [] data = "synchronization" -> {"last_sync"} [] data = "slo" -> {"compliance"}
      [] OTHER -> {}
MoreIsWorse(data) ==
    CASE data = "pod" -> {"restarts"} [] data = "queue" -> {"backlog", "age"}
      [] data = "metric" -> {"value"} [] data = "slo" -> {"burn_rate"}
      [] data = "endpoint" -> {"latency"} [] data = "log" -> {"count"}
      [] OTHER -> {}
Decisive(data) ==
    CASE data = "certificate" -> {<<"issued", None>>, <<"expires", Never>>}
      [] data \in {"recovery", "schedule"} -> {<<"last_success", Never>>}
      [] data = "slo" -> {<<"compliance", None>>} [] data = "condition" -> {<<"healthy", None>>}
      [] data = "endpoint" -> {<<"accepted", None>>} [] data = "metric" -> {<<"value", None>>}
      [] data = "synchronization" -> {<<"ready", None>>}
      [] data = "queue" -> {<<"backlog", None>>} [] data = "service" -> {<<"state", "unknown">>}
      [] OTHER -> {}

With(o, field, v) == [f \in DOMAIN o |-> IF f = field THEN v ELSE o[f]]

\* A worse measurement never makes a better verdict, and an observation that lacks the
\* measurement its policy decides by is never healthy (policy.rs, evaluate), through the
\* order in which the policy looks at its fields.
VerdictsFollowEvidence(o, earlier, now) ==
    /\ \A f \in LessIsWorse(o.data) : o[f] # None =>
            \A v \in 0..(o[f] - 1) :
                Rank(Evaluate(With(o, f, v), earlier, now)) >= Rank(Evaluate(o, earlier, now))
    /\ \A f \in MoreIsWorse(o.data) : o[f] # None =>
            \A v \in 0..(o[f] - 1) :
                Rank(Evaluate(With(o, f, v), earlier, now)) <= Rank(Evaluate(o, earlier, now))
    /\ \A d \in Decisive(o.data) : Evaluate(With(o, d[1], d[2]), earlier, now).health # "healthy"

\* "A recreated controller cannot inherit a successful Job owned by its previous UID": what
\* is said of a schedule does not change with jobs it does not own, or that an incomplete
\* operation found (schedule_policy.rs).
NothingInherited(o, owners, jobs, now) ==
    LET own == {q.uid : q \in {q \in owners : q.resource = o.resource /\ q.complete}}
        trusted == {q.resource : q \in {q \in owners : q.owner \in own /\ q.complete}}
    IN  \A j \in jobs : ~(j.resource \in trusted /\ j.complete) =>
            Schedule(Correlated(o, owners, jobs), now)
                = Schedule(Correlated(o, owners, jobs \ {j}), now)

\* "Preserving the latest attempt and latest success": whatever the order in which a
\* resource's recovery points come, it is shown once, with its newest attempt's state and
\* its newest success (recovery.rs).
PointsConsolidated(points) ==
    LET out == Consolidated(points)
        Of(r) == {p \in ToSet(points) : p.resource = r}
    IN  /\ \A i, j \in DOMAIN out : out[i].resource = out[j].resource => i = j
        /\ {p.resource : p \in ToSet(out)} = {p.resource : p \in ToSet(points)}
        /\ \A p \in ToSet(out) :
            /\ p.last_success = Latest({q.last_success : q \in Of(p.resource)})
            /\ p.last_attempt = Latest({q.last_attempt : q \in Of(p.resource)})
            /\ \E q \in Of(p.resource) : q.last_attempt = p.last_attempt /\ q.state = p.state
\* "Clear historical diagnostic findings only with distinct, complete replacement windows":
\* what stays open is shown still, or no such window has come, or there is no room.
ClearedWhenReplaced(findings, seen, windows, room) ==
    LET cleared == ToSet(Reconciled(findings, seen, windows, room))
    IN  /\ Cardinality(cleared) <= room
        /\ \A f \in ToSet(findings) \ cleared :
            \/ f.resource \in seen \/ Cardinality(cleared) = room
            \/ \A w \in windows : w.operation = f.operation =>
                    ~w.complete \/ w.gap > 0 \/ w.end <= f.observed_at
===============================================================================
