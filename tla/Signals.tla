-------------------------------- MODULE Signals -------------------------------
(***************************************************************************)
(* The two judgements the monitor makes over several readings and not from *)
(* one: sustained capacity pressure (core/src/capacity.rs) and the         *)
(* progress of a stage of a flow (core/src/flows.rs).  State::apply keeps  *)
(* one Pressure per resource and one Progress per stage in the snapshot;   *)
(* one of them is followed here.                                           *)
(*                                                                         *)
(* A capacity value is 0, 1 or 2 and a threshold one of these.  log is a   *)
(* history variable: the run of usable readings the judgement was given    *)
(* last, oldest first, each once.                                          *)
(***************************************************************************)
EXTENDS Naturals, Sequences, FiniteSets, FiniteSetsExt

CONSTANTS
    None,
    Freshness,      \* Settings::freshness
    Sustain,        \* capacity_sustain, or idle_after of a flow
    Thresholds,     \* the pairs <<warning, error>> a configuration may give
    MaxTime         \* bound on the clock

ConstantsAssumption ==
    /\ Freshness \in Nat /\ Sustain \in Nat /\ MaxTime \in Nat
    /\ Thresholds \subseteq Nat \X Nat
    /\ None \notin {"unhealthy", "degraded"}
    /\ None \notin [value : Nat, last_seen : Nat, established : BOOLEAN, last_progress : Nat]

VARIABLES
    kind,           \* "capacity", or the mode of a stage: "counter" or "rate"
    now,
    limits,         \* the thresholds in force
    kept,           \* the Pressure or the Progress
    verdict,        \* the health the last evaluation gave
    log

svars == <<kind, now, limits, kept, verdict, log>>

Time == 0..MaxTime
Recent(at) == at <= now /\ now - at <= Freshness

Init ==
    /\ kind \in {"capacity", "counter", "rate"}
    /\ now = 0
    /\ limits \in Thresholds
    /\ kept = None
    /\ verdict = None
    /\ log = <<>>

\* A reading that follows what the log holds, or was its last, judged again.
Logged(v, at) ==
    LET entry == [at |-> at, value |-> v, limits |-> limits]
    IN  IF kept = None \/ at > kept.last_seen THEN Append(log, entry)
        ELSE IF kind = "capacity" THEN [log EXCEPT ![Len(log)] = entry] ELSE log

\* A reading served again says what it said.
Consistent(v, at) == log # <<>> /\ log[Len(log)].at = at => log[Len(log)].value = v

-----------------------------------------------------------------------------
(* capacity::evaluate. *)

\* Mutant: the clocks run on through a gap.
BrokenByLimits(p, at) == <<p.warning, p.error>> # limits

\* The clocks start again after a gap and when a threshold changed.
Broken(p, at) == at - p.last_seen > Freshness \/ <<p.warning, p.error>> # limits

\* get_or_insert: a clock that runs keeps its beginning.
Clock(since, over, at) == IF ~over THEN None ELSE IF since = None THEN at ELSE since

\* The Pressure after a reading of value v taken at time at.
Pressed(p, v, at) ==
    LET fresh == p = None \/ Broken(p, at)
    IN  [last_seen |-> at, warning |-> limits[1], error |-> limits[2],
         warning_since |-> Clock(IF fresh THEN None ELSE p.warning_since, v >= limits[1], at),
         error_since |-> Clock(IF fresh THEN None ELSE p.error_since, v >= limits[2], at)]

Lasting(since, at) == since # None /\ at - since >= Sustain

PressureVerdict(p, v, at) ==
    CASE Lasting(p.error_since, at) -> "unhealthy"
      [] ~Lasting(p.error_since, at) /\ Lasting(p.warning_since, at) -> "degraded"
      [] OTHER -> IF v < limits[1] THEN "healthy" ELSE "unknown"

\* sound: the metric's operation is complete, the target active and the value a number.
\* full: max_assets resources are followed already.
Judge(v, at, sound, full) ==
    IF ~sound \/ ~Recent(at)
    THEN kept' = None /\ verdict' = "unknown" /\ log' = <<>>
    ELSE IF (kept = None /\ full) \/ (kept # None /\ at < kept.last_seen)
    THEN verdict' = "unknown" /\ UNCHANGED <<kept, log>>
    ELSE /\ kept' = Pressed(kept, v, at)
         /\ verdict' = PressureVerdict(kept', v, at)
         /\ log' = Logged(v, at)

-----------------------------------------------------------------------------
(* flows::evaluate. *)

\* The youngest current reading a selector finds, unless it finds two resources.
Signal(readings) ==
    LET found == {r \in readings : r.complete /\ Recent(r.at)}
    IN  IF Cardinality({r.resource : r \in found}) # 1 THEN None
        ELSE CHOOSE r \in found : \A q \in found : r.at >= q.at

\* Nothing can be said across a gap, or when a counter went back.
Discontinuous(p, v, at) ==
    at - p.last_seen > Freshness \/ (kind = "counter" /\ v < p.value)

Advanced(p, v, at) ==
    LET moves == IF kind = "counter" THEN v > p.value ELSE v > 0
    IN  [value |-> v, last_seen |-> at, established |-> ~Discontinuous(p, v, at),
         last_progress |-> IF Discontinuous(p, v, at) \/ moves THEN at ELSE p.last_progress]

ProgressVerdict(p, at) ==
    IF ~p.established THEN "unknown"
    ELSE IF at >= p.last_progress + Sustain THEN "unhealthy" ELSE "healthy"

\* demand and done: what is known of the demand and of the stage's progress; known: its
\* workload, if one is named, is observed; full: max_findings stages are followed.
Advance(demand, done, known, full) ==
    IF demand # None /\ demand.value = 0
    THEN kept' = None /\ verdict' = "inactive" /\ log' = <<>>
    ELSE IF demand = None \/ done = None
    THEN verdict' = "unknown" /\ UNCHANGED <<kept, log>>
    ELSE LET at == Min({demand.at, done.at})
             first == [value |-> done.value, last_seen |-> at, last_progress |-> at,
                       established |-> FALSE]
         IN  /\ kept' = (CASE kept = None -> IF full THEN None ELSE first
                           [] kept # None /\ at > kept.last_seen -> Advanced(kept, done.value, at)
                           [] kept # None /\ at <= kept.last_seen -> kept)
             /\ verdict' = (IF ~known THEN "unknown"
                            ELSE IF kept # None THEN ProgressVerdict(kept', at)
                            ELSE IF kind = "rate" /\ done.value > 0 /\ ~full THEN "healthy"
                            ELSE "unknown")
             /\ log' = IF kept' = None THEN log ELSE Logged(done.value, at)

-----------------------------------------------------------------------------
\* The readings the results of the target may hold: current ones and one just too old.
Reading ==
    LET around == {t \in Time : t <= now /\ now - t <= Freshness + 1}
    IN  [resource : {"x", "y"}, at : around, value : {0, 1}, complete : BOOLEAN]

\* What one selector may find in them.
Signals == {Signal({pair[1], pair[2]}) : pair \in Reading \X Reading}

Evaluate ==
    /\ IF kind = "capacity"
       THEN \E v \in 0..2, at \in 0..now, sound, full \in BOOLEAN :
                Consistent(v, at) /\ Judge(v, at, sound, full)
       ELSE \E demand, done \in Signals, known, full \in BOOLEAN :
                Advance(demand, done, known, full)
    /\ UNCHANGED <<kind, now, limits>>

Tick ==
    /\ now < MaxTime
    /\ now' = now + 1
    /\ UNCHANGED <<kind, limits, kept, verdict, log>>

\* A metric brings its own thresholds, if the configuration names them.
Retune ==
    /\ kind = "capacity"
    /\ limits' \in Thresholds \ {limits}
    /\ verdict' = None
    /\ UNCHANGED <<kind, now, kept, log>>

\* A reload to another configuration, or a one-off run, forgets both (retain_scope,
\* begin_run), as does a result without the resource.
Forget ==
    /\ kept # None
    /\ kept' = None
    /\ verdict' = None
    /\ log' = <<>>
    /\ UNCHANGED <<kind, now, limits>>

Next == Evaluate \/ Tick \/ Retune \/ Forget

Spec == Init /\ [][Next]_svars

-----------------------------------------------------------------------------
\* "Idle input is expected inactivity; missing telemetry, counter resets, and observation
\* gaps remain unknown" (design.md:26): what is announced as sustained has, in the readings
\* the monitor was given last, an unbroken run of the required length in which every one
\* shows it: at or above the threshold in force, or without a step of the counter.
FaultsAreSustained ==
    verdict \in {"unhealthy", "degraded"} =>
        \E i \in DOMAIN log :
            LET Shows(e) == CASE kind = "capacity" ->
                                   /\ e.limits = limits
                                   /\ e.value >= limits[IF verdict = "unhealthy" THEN 2 ELSE 1]
                              [] kind = "counter" -> e.value = log[i].value
                              [] kind = "rate" -> e = log[i] \/ e.value = 0
            IN  /\ log[Len(log)].at - log[i].at >= Sustain
                /\ \A j \in i..Len(log) :
                    /\ Shows(log[j])
                    /\ j > i => log[j].at - log[j - 1].at <= Freshness
===============================================================================
