-------------------------------- MODULE MCRules -------------------------------
(***************************************************************************)
(* Inputs for the rules that are functions of their arguments, for TLC:    *)
(* the state is one input, and nothing moves.                              *)
(***************************************************************************)
EXTENDS Integers, Sequences, FiniteSets

CONSTANTS
    None,
    RuleSettings    \* the settings of the policies

VARIABLE input

-----------------------------------------------------------------------------
(* Policies, at time 10. *)

P == INSTANCE Policies WITH Settings <- RuleSettings

Now == 10
Ago == {-1, 5, 8, 9, 11}
Opt == {None, TRUE, FALSE}

\* The observations of one kind: its fields, and when and of what they were made.
Of(kind, fields) ==
    {[x \in {"data", "active", "at"} \cup DOMAIN f |->
        IF x = "data" THEN kind
        ELSE IF x = "active" THEN act
        ELSE IF x = "at" THEN at ELSE f[x]] :
            f \in fields, act \in BOOLEAN, at \in {5, 9}}

Pods == Of("pod", [uid : {1, 2}, ready : BOOLEAN, restarts : {0, 3, 4}, crash_loop : BOOLEAN,
                   created : Ago])
Queues == Of("queue", [backlog : {None, 0, 1, 3}, activation : {1}, ready : {0, 1},
                       crash_loop : BOOLEAN, scaler_ready : BOOLEAN, age : {None, 1, 3},
                       dead_letters : {None, 0, 1}])

Observations ==
    Of("job", [complete : BOOLEAN, failed : BOOLEAN, created : Ago])
    \cup Of("workload", [desired : {0, 2}, ready : 0..2, created : Ago, draining : BOOLEAN,
                         node : BOOLEAN])
    \cup Of("certificate", [issued : Opt, expires : {-1, 9, 10, 12, 14}])
    \cup Of("recovery", [enabled : Opt, state : {"ready", "failed"}, last_success : Ago])
    \cup Of("build", [state : {"ready", "failed", "starting"}, superseded : BOOLEAN,
                      created : Ago, target : BOOLEAN])
    \cup Of("log", [signature : {"warning", "panic"}, count : 0..2, sampled : BOOLEAN])
    \cup Of("condition", [rule : {"ready"}, healthy : Opt])
    \cup Of("synchronization", [ready : Opt, last_sync : {-1, 3, 8, 10}, interval : {None, 2}])
    \cup Of("slo", [goal : {2}, compliance : {None, 1, 2, 3}, spent : Opt, burn_rate : {None, 1, 3},
                    malformed : BOOLEAN])
    \cup Of("endpoint", [dns : BOOLEAN, tls : BOOLEAN, accepted : Opt, expires : {-1, 11, 15},
                         latency : 1..3])
    \cup Of("identity", [uid : {1}]) \cup Of("progress", [state : {"healthy", "unknown", "unhealthy"}])
    \cup Of("service", [state : {"ready", "failed", "stopped", "starting", "unknown"},
                        encrypted : Opt, backup_enabled : Opt])
    \cup Of("metric", [value : {None, 1, 5, 9}, capacity : {None, 0, 10}, warning : {None, 4, 40},
                       error : {None, 8, 80}, window : {1, 2}])
    \cup Of("schedule", [occurrences : {None, {}, {4, 7}}, deadline : {0, 3},
                         suspended : BOOLEAN, running : BOOLEAN, forbid_overlap : BOOLEAN,
                         last_schedule : {-1, 4, 7}, last_success : {-1, 5, 8}, created : {-1, 5}])

PolicyInputs ==
    {[part |-> "policy", o |-> o, prior |-> None] : o \in Observations}
    \cup {[part |-> "policy", o |-> q[1], prior |-> q[2]] :
            q \in {p \in Pods \X Pods : p[1].at = 9 /\ p[2].at = 5 /\ p[2].created = -1}
                \cup {p \in Queues \X Queues : /\ p[1].at = 9 /\ p[2].at = 5 /\ p[2].age = None
                                               /\ p[2].dead_letters = None /\ p[2].scaler_ready}}

\* A schedule c of one controller, its jobs, and who owns them.
Nightly(success) ==
    [data |-> "schedule", active |-> TRUE, at |-> 9, resource |-> "c", occurrences |-> {4, 7},
     deadline |-> 0, suspended |-> FALSE, running |-> FALSE, forbid_overlap |-> FALSE,
     last_schedule |-> 7, last_success |-> success, created |-> -1]
OwnerInputs ==
    {[part |-> "owners", o |-> Nightly(s), owners |-> {c, j}, jobs |-> {k}] :
        s \in {-1, 5},
        c \in [resource : {"c"}, uid : {1, 2}, owner : {0}, complete : BOOLEAN],
        j \in [resource : {"j"}, uid : {3}, owner : {1, 2}, complete : BOOLEAN],
        k \in [resource : {"j"}, complete : BOOLEAN, succeeded : BOOLEAN,
               completed : {-1, 8}, scheduled : {7}]}

PointInputs ==
    LET point == [resource : {1, 2}, last_attempt : {-1, 1, 2}, last_success : {-1, 1},
                  state : {"ready", "failed"}]
    IN  {[part |-> "points", points |-> <<p, q, r>>] :
            p \in {p \in point : p.resource = 1}, q, r \in point}

Open(id) == [id : {id}, resource : {1, 2}, operation : {1, 2}, observed_at : {1, 2}]
ClearInputs ==
    {[part |-> "clears", findings |-> fs, seen |-> seen, windows |-> {w}, room |-> n] :
        fs \in {<<f, g>> : f \in Open(1), g \in Open(2)},
        seen \in SUBSET {1}, n \in 0..2,
        w \in [operation : {1}, complete : BOOLEAN, gap : 0..1, end : {1, 2, 3}]}

EvidenceDecides ==
    /\ input.part = "policy" => P!VerdictsFollowEvidence(input.o, input.prior, Now)
    /\ input.part = "owners" => P!NothingInherited(input.o, input.owners, input.jobs, Now)
    /\ input.part = "clears" =>
            P!ClearedWhenReplaced(input.findings, input.seen, input.windows, input.room)
    /\ input.part = "points" => P!PointsConsolidated(input.points)

-----------------------------------------------------------------------------
Init == input \in PolicyInputs \cup OwnerInputs \cup PointInputs \cup ClearInputs
===============================================================================
