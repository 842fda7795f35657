------------------------------ MODULE Findings ------------------------------
(***************************************************************************)
(* The comparison state of the monitor: State::apply, expire,              *)
(* reconfigured / retain_scope and begin_run of crates/core, with the      *)
(* evaluation index, the retention of earlier evidence and the bounds they *)
(* call.  The jobs are the checks of one target.  A finding is identified  *)
(* by the resource and the rule it is about.                               *)
(*                                                                         *)
(* What a provider returned and what the health policy says of each        *)
(* observation are inputs of Apply; the module keeps what the code decides *)
(* from them: which findings open, worsen, go stale, recover or are        *)
(* removed, and on which evidence.                                         *)
(***************************************************************************)
EXTENDS Integers, FiniteSets

CONSTANTS
    Job,                    \* the checks configured for the target
    Resource,
    Rule,
    Op,                     \* collection operations (one API listing each)
    OpOf,                   \* the operation a resource is listed by
    OpsOf,                  \* the operations a job's collection runs
    InventoryJob,           \* jobs whose check is Inventory or Kubernetes
    MaxSeverity,            \* severities are 1 .. MaxSeverity
    Freshness,              \* settings.freshness()
    RecoverConfirmations,   \* settings.recover_confirmations
    RemovalConfirmations,   \* settings.removal_confirmations
    Configs,                \* the effective configurations that may be loaded
    MayTruncate,            \* whether memory and asset budgets may cut a result
    IncompleteCopies,       \* whether a cache hands out incomplete listings too
    OneOff,                 \* whether runs are one-off (Mode::Once)
    MaxTime,                \* bound on the clock
    None

\* What a configuration decides here: the selected jobs, those of them with
\* assess_health, the resources the target's selectors match and max_findings.
Config == [selected : SUBSET Job, assessed : SUBSET Job,
           observes : [Job -> Nat], scope : SUBSET Resource, limit : Nat]

ASSUME ConstantsAssumption ==
    /\ IsFiniteSet(Resource) /\ IsFiniteSet(Rule)
    /\ InventoryJob \subseteq Job
    /\ OpOf \in [Resource -> Op]
    /\ OpsOf \in [Job -> SUBSET Op]
    /\ MaxSeverity \in Nat
    /\ Freshness \in Nat
    /\ RecoverConfirmations \in Nat \ {0}
    /\ RemovalConfirmations \in Nat \ {0}
    /\ Configs \subseteq Config
    /\ MayTruncate \in BOOLEAN
    /\ IncompleteCopies \in BOOLEAN
    /\ OneOff \in BOOLEAN
    /\ MaxTime \in Nat

Id == Resource \X Rule
Time == 0 .. MaxTime

\* An operation's coverage and its observed_at.
Reading == [complete : BOOLEAN, at : Time]
Finding == [severity : 1 .. MaxSeverity, at : Time, until : Nat,
            stale : BOOLEAN, clears : Nat, job : Job]
Confirmation == [count : Nat, lastAt : Time]
Kind == {"new", "worsened", "recovered", "stale", "removed", "reappeared"}
Health == {"healthy", "unhealthy", "unknown"}
\* The health policy's answer for one observation; a fault has severity > 0.
Verdict == {v \in [clear : BOOLEAN, faults : [Rule -> 0 .. MaxSeverity]] :
               v.clear => \A u \in Rule : v.faults[u] = 0}

ASSUME NoneAssumption ==
    /\ None \notin Reading \cup Finding \cup Confirmation
    /\ None \notin Nat \cup Health \cup Kind

VARIABLES
    now,
    config,         \* the effective configuration
    results,        \* snapshot.results: per job, its operations and observations
    findings,       \* snapshot.findings
    health,         \* snapshot.health
    retired,        \* snapshot.retired: when the finding was recovered or removed
    confirmations,  \* snapshot.confirmations
    emitted,        \* the transitions the last step returned
    history         \* auxiliary: the evidence behind each open finding

vars == <<now, config, results, findings, health, retired, confirmations,
          emitted, history>>

Empty == [ops |-> [o \in Op |-> None], obs |-> [r \in Resource |-> None]]
\* The time of the last fault, the times of the healthy readings after it and,
\* per job, the times of the readings that no longer listed the resource.
NoHistory == [fault |-> 0, clean |-> {}, absent |-> [j \in Job |-> {}]]
Quiet == [id \in Id |-> None]
Open == {id \in Id : findings[id] # None}
Retired == {id \in Id : retired[id] # None}

Degraded(op) == [op EXCEPT !.complete = FALSE]
Complete(ops, o) == ops[o] # None /\ ops[o].complete
Aged(at) == now - at > Freshness

-----------------------------------------------------------------------------
(* The pipeline a result goes through before it is compared. *)

\* Earlier observations an incomplete result keeps: partial_results::retain.
Carried(j, ops, whole, seen) ==
    IF whole THEN {}
    ELSE {r \in Resource \ seen : /\ results[j].obs[r] # None
                                  /\ ~Complete(ops, OpOf[r])}

MergedObs(j, ops, seen, kept) ==
    [r \in Resource |-> CASE r \notin kept -> None
                          [] r \in kept \cap seen -> ops[OpOf[r]].at
                          [] OTHER -> results[j].obs[r]]

\* Mutant: a listing that a budget cut short stays complete.
MergedOpsUncut(j, ops, obs, carried, truncated) ==
    [o \in Op |->
        IF ops[o] # None THEN ops[o]
        ELSE IF \E r \in carried : OpOf[r] = o THEN results[j].ops[o] ELSE None]

\* Operations after retain, bounds::truncate and bounds::validate_source.
MergedOps(j, ops, obs, carried, truncated) ==
    [o \in Op |->
        LET of == {r \in Resource : OpOf[r] = o}
        IN  IF ops[o] # None
            THEN IF truncated \/ \E r \in of : obs[r] # None /\ Aged(obs[r])
                 THEN Degraded(ops[o]) ELSE ops[o]
            ELSE IF carried \cap of # {} /\ results[j].ops[o] # None
                 THEN Degraded(results[j].ops[o]) ELSE None]

-----------------------------------------------------------------------------
(* The comparison of one result with the snapshot.  c.job reported the     *)
(* operations c.ops and the resources c.seen; c.obs and c.merged are what  *)
(* the pipeline, which may have truncated it, left of the result;          *)
(* c.verdict is what the policy says of each observation left, c.admitted  *)
(* the new faults that max_findings let in.                                *)

\* Mutant: a rule the policy did not raise counts as a fault.
FaultyAll(verdict) == {id \in Id : id[1] \in DOMAIN verdict /\ ~verdict[id[1]].clear}

Faulty(verdict) ==
    {id \in Id : id[1] \in DOMAIN verdict /\ verdict[id[1]].faults[id[2]] > 0}

\* New faults are admitted in the order they are listed, which may be any.
Admissible(faulty) ==
    LET fresh == faulty \ Open
        room == config.limit - Cardinality(Open)
        n == IF room < 0 THEN 0
             ELSE IF Cardinality(fresh) < room THEN Cardinality(fresh) ELSE room
    IN  {a \in SUBSET fresh : Cardinality(a) = n}

Overflow(c) == Faulty(c.verdict) \ Open # c.admitted
Asserted(c) == (Faulty(c.verdict) \cap Open) \cup c.admitted

\* Mutant: an overflow of max_findings leaves the listings complete.
TrustedAnyway(c, o) == Complete(c.merged, o)

\* Index::reconcile: an overflow of max_findings leaves nothing complete.
Trusted(c, o) == ~Overflow(c) /\ Complete(c.merged, o)

\* Mutant: the same reading, served twice, counts twice.
ClearedAgain(c, id) ==
    /\ findings[id] # None
    /\ id[1] \in DOMAIN c.verdict
    /\ c.verdict[id[1]].clear
    /\ Trusted(c, OpOf[id[1]])

Cleared(c, id) ==
    /\ findings[id] # None
    /\ id[1] \in DOMAIN c.verdict
    /\ c.verdict[id[1]].clear
    /\ Trusted(c, OpOf[id[1]])
    /\ c.obs[id[1]] > findings[id].at

Absent(c, id) ==
    /\ findings[id] # None
    /\ c.job \in InventoryJob
    /\ Trusted(c, OpOf[id[1]])
    /\ \/ results[c.job].obs[id[1]] # None
       \/ confirmations[<<c.job, id>>] # None
    /\ id[1] \notin DOMAIN c.verdict

\* Mutant: the same inventory, served twice, confirms twice.
ConfirmedAgain(c, id) ==
    LET held == confirmations[<<c.job, id>>]
    IN  [count |-> 1 + IF held # None THEN held.count ELSE 0,
         lastAt |-> c.merged[OpOf[id[1]]].at]

\* The removal confirmation after one more inventory without the resource.
Confirmed(c, id) ==
    LET held == confirmations[<<c.job, id>>]
        old == IF held # None THEN held ELSE [count |-> 0, lastAt |-> findings[id].at]
        at == c.merged[OpOf[id[1]]].at
    IN  IF at > old.lastAt THEN [count |-> old.count + 1, lastAt |-> at] ELSE old

Recovered(c) ==
    {id \in Id : Cleared(c, id) /\ findings[id].clears + 1 >= RecoverConfirmations}

Removed(c) ==
    {id \in Id : Absent(c, id) /\ Confirmed(c, id).count >= RemovalConfirmations}

Raised(c, id) ==
    [severity |-> c.verdict[id[1]].faults[id[2]], at |-> c.obs[id[1]],
     until |-> c.obs[id[1]] + Freshness, stale |-> FALSE, clears |-> 0,
     job |-> c.job]

Refreshed(f, at) ==
    [severity |-> f.severity, at |-> at, until |-> at + Freshness,
     stale |-> FALSE, clears |-> f.clears + 1, job |-> f.job]

Compared(c, id) ==
    CASE id \in Asserted(c) -> Raised(c, id)
      [] id \in Recovered(c) \cup Removed(c) -> None
      [] Cleared(c, id) /\ id \notin Recovered(c) ->
            Refreshed(findings[id], c.obs[id[1]])
      [] OTHER -> findings[id]

\* Mutant: a fault that was not open is always new.
OpeningNew(c, id) ==
    IF findings[id] = None THEN "new"
    ELSE IF findings[id].stale THEN "reappeared"
    ELSE IF Raised(c, id).severity > findings[id].severity THEN "worsened" ELSE None

\* The transition a raised fault returns.
Opening(c, id) ==
    LET f == findings[id]
    IN  CASE f = None /\ retired[id] # None -> "reappeared"
          [] f = None /\ retired[id] = None -> "new"
          [] f # None /\ f.stale -> "reappeared"
          [] f # None /\ ~f.stale /\ Raised(c, id).severity > f.severity -> "worsened"
          [] OTHER -> None

Judged(c, r) ==
    LET clear == c.verdict[r].clear
    IN  CASE r \in DOMAIN c.verdict /\ c.job \in config.assessed /\ clear ->
                IF Trusted(c, OpOf[r]) THEN "healthy" ELSE "unknown"
          [] r \in DOMAIN c.verdict /\ c.job \in config.assessed /\ ~clear ->
                IF \E u \in Rule : <<r, u>> \in Faulty(c.verdict)
                THEN "unhealthy" ELSE "unknown"
          [] r \in DOMAIN c.verdict /\ c.job \notin config.assessed
                /\ ~Trusted(c, OpOf[r]) /\ health[r] = "healthy" -> "unknown"
          [] OTHER -> health[r]

Stored(c) ==
    [ops |-> [o \in Op |-> IF c.merged[o] # None /\ Overflow(c)
                           THEN Degraded(c.merged[o]) ELSE c.merged[o]],
     obs |-> c.obs]

-----------------------------------------------------------------------------
(* State::expire over the values a step has produced so far. *)

Overdue(f) == f # None /\ ~f.stale /\ now > f.until

ExpiredFinding(f) == IF Overdue(f) THEN [f EXCEPT !.stale = TRUE] ELSE f

ExpiredHealth(res, hlth) ==
    [r \in Resource |->
        IF hlth[r] # None
           /\ \E j \in Job : res[j].obs[r] # None /\ Aged(res[j].obs[r])
        THEN "unknown" ELSE hlth[r]]

ExpiredOps(res, hlth) ==
    [o \in Op |->
        IF /\ Complete(res.ops, o)
           /\ \/ Aged(res.ops[o].at)
              \/ \E r \in Resource : /\ OpOf[r] = o
                                     /\ hlth[r] # None
                                     /\ res.obs[r] # None
                                     /\ Aged(res.obs[r])
        THEN Degraded(res.ops[o]) ELSE res.ops[o]]

ExpiredResults(res, hlth) ==
    [j \in Job |-> [ops |-> ExpiredOps(res[j], hlth), obs |-> res[j].obs]]

\* trim_retired: the oldest entries beyond the limit are forgotten.
Forgettable(ret, n) ==
    LET held == {id \in Id : ret[id] # None}
        excess == Cardinality(held) - n
    IN  {d \in SUBSET held :
            /\ Cardinality(d) = IF excess > 0 THEN excess ELSE 0
            /\ \A x \in d, y \in held \ d : ret[x] <= ret[y]}

Forget(ret, d) == [id \in Id |-> IF id \in d THEN None ELSE ret[id]]

Observed(res, jobs) == {r \in Resource : \E j \in jobs : res[j].obs[r] # None}

HealthOf(hlth, rs) == [r \in Resource |-> IF r \in rs THEN hlth[r] ELSE None]

-----------------------------------------------------------------------------
Init ==
    /\ now = 0
    /\ config \in Configs
    /\ results = [j \in Job |-> Empty]
    /\ findings = Quiet
    /\ health = [r \in Resource |-> None]
    /\ retired = Quiet
    /\ confirmations = [k \in Job \X Id |-> None]
    /\ emitted = Quiet
    /\ history = [id \in Id |-> NoHistory]

\* Evidence as the providers gave it, kept apart from what the code counted:
\* a reading counts when nothing of its result was cut off.
Recorded(c, id) ==
    LET r == id[1]
        h == history[id]
        read == ~c.truncated /\ ~Overflow(c) /\ Complete(c.ops, OpOf[r])
        healthy == read /\ r \in c.seen /\ c.verdict[r].clear
                   /\ c.ops[OpOf[r]].at > h.fault
        missing == read /\ r \notin c.seen
    IN  CASE id \in Asserted(c) ->
                [fault |-> c.obs[r], clean |-> {},
                 absent |-> IF id \in Open THEN [h.absent EXCEPT ![c.job] = {}]
                            ELSE NoHistory.absent]
          [] id \notin Asserted(c) /\ findings[id] # None ->
                [fault |-> h.fault,
                 clean |-> h.clean \cup IF healthy THEN {c.ops[OpOf[r]].at} ELSE {},
                 absent |-> [h.absent EXCEPT ![c.job] =
                                IF r \in DOMAIN c.verdict THEN {}
                                ELSE @ \cup IF missing THEN {c.ops[OpOf[r]].at} ELSE {}]]
          [] OTHER -> NoHistory

-----------------------------------------------------------------------------
(* State::apply. *)

Apply(c) ==
    LET updated == [results EXCEPT ![c.job] = Stored(c)]
        judged == HealthOf([r \in Resource |-> Judged(c, r)], Observed(updated, Job))
        ended == Recovered(c) \cup Removed(c)
        closed == [id \in Id |-> CASE id \in Asserted(c) -> None
                                   [] id \in ended -> now
                                   [] OTHER -> retired[id]]
    IN  /\ results' = ExpiredResults(updated, judged)
        /\ health' = ExpiredHealth(updated, judged)
        /\ findings' = [id \in Id |-> ExpiredFinding(Compared(c, id))]
        /\ confirmations' = [k \in Job \X Id |->
                CASE k[2] \in ended \/ (k[1] = c.job /\ k[2][1] \in DOMAIN c.verdict) -> None
                  [] k[2] \notin ended /\ k[1] = c.job /\ Absent(c, k[2]) -> Confirmed(c, k[2])
                  [] OTHER -> confirmations[k]]
        /\ \E d \in Forgettable(closed, config.limit) : retired' = Forget(closed, d)
        /\ emitted' = [id \in Id |->
                CASE id \in Recovered(c) -> "recovered"
                  [] id \in Removed(c) -> "removed"
                  [] id \in Asserted(c) -> Opening(c, id)
                  [] OTHER -> IF Overdue(Compared(c, id)) THEN "stale" ELSE None]
        /\ history' = [id \in Id |-> Recorded(c, id)]
        /\ UNCHANGED <<now, config>>

\* The memory and asset budgets may cut a list of observations short.
Surviving(all) == IF MayTruncate THEN SUBSET all ELSE {all}

\* What one collection can return: an operation is not reported, complete or
\* not, read now or taken from a copy no older than the job's last one.  The
\* inventory cache keeps complete listings only, the Kubernetes one any.
Reported(j) ==
    {ops \in [Op -> Reading \cup {None}] :
        \A o \in Op : ops[o] # None =>
            /\ o \in OpsOf[j]
            /\ ops[o].at <= now
            /\ ops[o].complete \/ IncompleteCopies \/ ops[o].at = now
            /\ results[j].ops[o] # None => ops[o].at >= results[j].ops[o].at}

Verdicts(j, obs) ==
    {v \in [{r \in Resource : obs[r] # None} -> Verdict] :
        \A r \in DOMAIN v : (j \notin config.assessed \/ Aged(obs[r])) =>
            ~v[r].clear /\ \A u \in Rule : v[r].faults[u] = 0}

\* The result goes through the pipeline and is compared.
Compare(j, ops, seen, carried, kept) ==
    LET truncated == kept # seen \cup carried
    IN  \E obs \in {MergedObs(j, ops, seen, kept)} :
        \E merged \in {MergedOps(j, ops, obs, carried, truncated)} :
        \E verdict \in Verdicts(j, obs) :
        \E admitted \in Admissible(Faulty(verdict)) :
            Apply([job |-> j, ops |-> ops, seen |-> seen, obs |-> obs,
                   merged |-> merged, truncated |-> truncated,
                   verdict |-> verdict, admitted |-> admitted])

\* whole: every operation of the result is complete, also those outside Op.
Check(j) ==
    \E ops \in Reported(j), whole \in BOOLEAN :
        /\ whole => \A o \in Op : ops[o] # None => ops[o].complete
        /\ \E seen \in SUBSET {r \in config.scope : ops[OpOf[r]] # None} :
            \E carried \in Surviving(Carried(j, ops, whole, seen)) :
            \E kept \in Surviving(seen \cup carried) :
                Compare(j, ops, seen, carried, kept)

Tick ==
    /\ now < MaxTime
    /\ now' = now + 1
    /\ emitted' = Quiet
    /\ UNCHANGED <<config, results, findings, health, retired, confirmations, history>>

\* State::expire, which the supervisor calls on every disk and history tick.
Expire ==
    /\ results' = ExpiredResults(results, health)
    /\ health' = ExpiredHealth(results, health)
    /\ findings' = [id \in Id |-> ExpiredFinding(findings[id])]
    /\ emitted' = [id \in Id |-> IF Overdue(findings[id]) THEN "stale" ELSE None]
    /\ UNCHANGED <<now, config, retired, confirmations, history>>

\* Mutant: a reload to a smaller limit is always accepted.
FitsAlways(open, n) == TRUE

\* A reload is refused when its limit cannot hold what is still open.
Fits(open, n) == Cardinality(open) <= n

Pending(open) ==
    [k \in Job \X Id |-> IF k[2] \in open THEN confirmations[k] ELSE None]

\* State::reconfigured, on a reload and on start: a job whose observation scope
\* changed, or that was not selected, loses its results and its findings.
Reconfigure(c) ==
    LET rescoped == {j \in c.selected : \/ j \notin config.selected
                                        \/ c.observes[j] # config.observes[j]}
        dropped == (Job \ c.selected) \cup rescoped
                   \cup (IF c.scope # config.scope THEN Job ELSE {})
        kept == [j \in Job |-> IF j \in dropped THEN Empty ELSE results[j]]
        open == {id \in Open : /\ findings[id].job \in c.assessed \cap c.selected
                               /\ findings[id].job \notin rescoped
                               /\ id[1] \in c.scope}
        remembered == IF rescoped = {} THEN retired ELSE Quiet
    IN  /\ c.selected # {}
        /\ Fits(open, c.limit)
        /\ config' = c
        /\ results' = kept
        /\ health' = HealthOf(health, Observed(kept, c.selected \cap c.assessed))
        /\ findings' = [id \in Id |-> IF id \in open THEN findings[id] ELSE None]
        /\ \E d \in Forgettable(remembered, c.limit) : retired' = Forget(remembered, d)
        /\ confirmations' = Pending(open)
        /\ emitted' = Quiet
        /\ history' = [id \in Id |-> IF id \in open THEN history[id] ELSE NoHistory]
        /\ UNCHANGED now

\* State::begin_run: a one-off run keeps what is open and samples afresh.
BeginRun ==
    /\ OneOff
    /\ results' = [j \in Job |-> Empty]
    /\ health' = [r \in Resource |-> None]
    /\ confirmations' = [k \in Job \X Id |-> None]
    /\ emitted' = Quiet
    /\ UNCHANGED <<now, config, findings, retired, history>>

Next ==
    \/ \E j \in config.selected : Check(j)
    \/ Tick
    \/ Expire
    \/ \E c \in Configs : Reconfigure(c)
    \/ BeginRun

Spec == Init /\ [][Next]_vars

-----------------------------------------------------------------------------
Result == [ops : [Op -> Reading \cup {None}], obs : [Resource -> Time \cup {None}]]

\* Every part of the snapshot keeps its shape.
TypeOK ==
    /\ now \in Time
    /\ config \in Configs
    /\ results \in [Job -> Result]
    /\ findings \in [Id -> Finding \cup {None}]
    /\ health \in [Resource -> Health \cup {None}]
    /\ retired \in [Id -> Time \cup {None}]
    /\ confirmations \in [Job \X Id -> Confirmation \cup {None}]
    /\ emitted \in [Id -> Kind \cup {None}]
    /\ history \in [Id -> [fault : Time, clean : SUBSET Time,
                           absent : [Job -> SUBSET Time]]]

\* However a reading is shared, cached and served again, it counts once: the
\* confirmations a finding has collected are distinct healthy readings, each later
\* than its last fault and none newer than its own observed_at (state.rs,
\* clear_count), and those of a removal are distinct absences, per inventory job.
ClearsAreEvidence ==
    \A id \in Open :
        /\ history[id].fault <= findings[id].at
        /\ findings[id].clears <=
               Cardinality({t \in history[id].clean : t <= findings[id].at})

AbsencesAreEvidence ==
    \A j \in Job, id \in Id :
        confirmations[<<j, id>>] # None =>
            /\ id \in Open
            /\ j \in InventoryJob
            /\ confirmations[<<j, id>>].count <=
                   Cardinality({t \in history[id].absent[j] :
                                   t <= confirmations[<<j, id>>].lastAt})

CountsAreEvidence == ClearsAreEvidence /\ AbsencesAreEvidence

\* "Failed and truncated operations cannot clear findings": when a recovery is
\* announced, as many distinct complete healthy readings taken after the last
\* fault stand behind it as recover_confirmations asks for (state.rs, apply).
RecoveryConfirmed ==
    \A id \in Id : emitted[id] = "recovered" =>
        Cardinality(history[id].clean) >= RecoverConfirmations

\* "Failed and truncated operations cannot ... imply removals": a removal is
\* announced only after removal_confirmations distinct complete inventories of
\* one job that did not list the resource.
RemovalConfirmed ==
    \A id \in Id : emitted[id] = "removed" =>
        \E j \in InventoryJob :
            Cardinality(history[id].absent[j]) >= RemovalConfirmations

\* "A reload cannot silently discard unresolved evidence to satisfy a smaller
\* budget": whatever the sequence of results and reloads, max_findings bounds
\* the open findings and the retired ones.
WithinLimit ==
    /\ Cardinality(Open) <= config.limit
    /\ Cardinality(Retired) <= config.limit

\* A resource is shown healthy only while some result holds a complete reading
\* that lists it.
HealthySupported ==
    \A r \in Resource : health[r] = "healthy" =>
        \E j \in Job : results[j].obs[r] # None /\ Complete(results[j].ops, OpOf[r])

\* The transitions apply, expire and reconfigured return tell each finding's
\* story as Episodes requires of them.
Told ==
    [id \in Id |-> CASE findings[id] # None /\ findings[id].stale -> "stale"
                     [] findings[id] # None /\ ~findings[id].stale -> "open"
                     [] findings[id] = None /\ retired[id] # None -> "retired"
                     [] OTHER -> "absent"]
Story == INSTANCE Episodes WITH phase <- Told
StoryTold == Story!Spec
=============================================================================
