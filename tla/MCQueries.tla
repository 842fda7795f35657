------------------------------- MODULE MCQueries -------------------------------
(***************************************************************************)
(* Inputs for what the server makes of its view and of the history, for    *)
(* TLC: the state is one input, and nothing moves.                         *)
(***************************************************************************)
EXTENDS Naturals, FiniteSets

CONSTANT None

VARIABLE input

-----------------------------------------------------------------------------
(* Assessment: in each family one kind of evidence varies, and the rest is as it should be. *)

A == INSTANCE Assessment

Check(id, target, required, finished) ==
    [id |-> id, target |-> target, required |-> required, finished |-> finished]
Checks == {Check("c1", "t1", TRUE, TRUE), Check("c2", "t2", TRUE, TRUE), Check("c3", "t1", FALSE, TRUE)}
Fine == [history |-> TRUE, persisted |-> TRUE, since |-> 0, lost |-> {}, queued |-> FALSE,
         running |-> TRUE, resources |-> [r \in {"r1"} |-> "t1"], checks |-> Checks]

Good == A!Run("c1", "t1", 2, 3, 2, TRUE, 0, FALSE, 5)
Other == A!Run("c2", "t2", 2, 3, None, TRUE, 0, FALSE, 5)
Of(target, resource) == A!Place(target, resource)

Asked(records, added, turn, now, expected, filter, world) ==
    [before |-> records, added |-> added, turn |-> turn, now |-> now,
     expected |-> expected, filter |-> filter, world |-> world]

\* A run with one defect at most.
Runs == {A!Run("c1", "t1", s, f,
               IF flaw = "old" THEN 1 ELSE IF flaw = "seen" THEN s ELSE None,
               flaw # "incomplete", IF flaw = "pending" THEN 1 ELSE 0, flaw = "cut",
               IF flaw = "expired" THEN f ELSE 5) :
            s \in 1..3, f \in 1..4,
            flaw \in {"none", "old", "seen", "incomplete", "pending", "cut", "expired"}}
Ran == {r \in Runs : r.started <= r.from}
ByRuns ==
    \E r \in Ran, o \in {x \in Ran : x.from = 3 /\ x.started > 1}, turn \in {1, 4}, now \in {3, 4} :
        input = Asked({r}, {o}, turn, now, None, Of("t1", None), Fine)

Seen(severity, from, to, closed, first) ==
    A!Finding("f1", severity, from, to, closed, first,
              IF closed = None THEN "active" ELSE "recovered")
Found == {Seen(sev, from, to, closed, first) :
            sev \in {1, 2}, from \in 1..4, to \in 1..4, closed \in {None, 2, 4}, first \in {None, 1, 2}}
Findings == {f \in Found : /\ f.from <= f.to
                           /\ f.closed # None => f.to <= f.closed
                           /\ f.first # None => f.first <= f.from}
Earlier == {{}} \cup {{Seen(sev, 0, 0, closed, None)} : sev \in {1, 2}, closed \in {None, 1, 2}}
ByFindings ==
    \E e \in Earlier, f \in Findings, turn \in {1, 6, 8}, now \in {3, 4} :
        input = Asked({Good} \cup e, {f}, turn, now, None, f.place, Fine)

Released == {A!Release("i1", at, until, content, verified, waiting) :
                at \in {1, 3, 4}, until \in {3, 5}, content \in {"same", "other", "missing"},
                verified \in BOOLEAN, waiting \in BOOLEAN}
ByReleases ==
    \E r \in Released, again \in {"i1", "i2"}, turn \in {1, 8}, now \in {3, 4},
       expected \in {"revision", "digest"},
       o \in {[content |-> "same", verified |-> TRUE], [content |-> "other", verified |-> FALSE]} :
        input = Asked({Good, r}, {A!Release(again, 3, 5, o.content, o.verified, FALSE)}, turn,
                      now, expected, Of("t1", None), Fine)

\* What can be wrong with the history or the monitor.
Worlds == {Fine, [Fine EXCEPT !.history = FALSE], [Fine EXCEPT !.persisted = FALSE],
           [Fine EXCEPT !.since = 1], [Fine EXCEPT !.since = 3], [Fine EXCEPT !.queued = TRUE],
           [Fine EXCEPT !.running = FALSE], [Fine EXCEPT !.resources = [r \in {} |-> None]],
           [Fine EXCEPT !.checks = {Check("c1", "t1", TRUE, FALSE)}]}
          \cup {[Fine EXCEPT !.lost = {at}] : at \in {0, 3, 4}}
Sooner == {A!Run(id, IF id = "c1" THEN "t1" ELSE "t2", 0, at, None, complete, 0, FALSE, until) :
              id \in {"c1", "c2"}, at \in {0, 1}, complete \in BOOLEAN,
              until \in 2..4}
ByCoverage ==
    \E rs \in {{}, {Other}} \cup {{r, Other} : r \in Sooner}, now \in {3, 4},
       f \in {Of("t1", None), Of(None, "r1"), Of(None, None)}, w \in Worlds :
        input = Asked(rs, {Good}, 1, now, None, f, w)

AssessmentInit == ByRuns \/ ByFindings \/ ByReleases \/ ByCoverage
VerdictsAreObserved ==
    A!PassingIsObserved /\ A!FailingIsObserved /\ A!BlameIsFair /\ A!CompleteIsCovered

-----------------------------------------------------------------------------
(* View: one target with two checks, seen at each time; and many findings at once. *)

V == INSTANCE View

Watch(target, check, freshness) == [target |-> target, check |-> check, freshness |-> freshness]
Two == [j \in {1, 2} |-> Watch("t1", IF j = 1 THEN "inventory" ELSE "metrics", 3 - j)]
Observation(resource, kind, at, until) ==
    [resource |-> resource, operation |-> "list", kind |-> kind, at |-> at, until |-> until]
Result(finished, complete, observations) ==
    [finished |-> finished, complete |-> complete, observations |-> observations]
Fault(resource, target, rule, severity, diagnosed, until) ==
    [resource |-> resource, target |-> target, rule |-> rule, check |-> "inventory",
     severity |-> severity, diagnosed |-> diagnosed, first |-> 1, last |-> 1, stale |-> FALSE,
     until |-> until]
Looked(jobs, results, findings, healths, now) ==
    [jobs |-> jobs, results |-> results, findings |-> findings, health |-> healths, now |-> now]

ByEvidence ==
    \E seen \in SUBSET {"r1", "r2"}, kind \in {"state", "owner"}, at \in 1..2, again \in 1..2,
       until \in {None, 2}, complete \in BOOLEAN, late \in BOOLEAN, now \in 2..4,
       of \in {"healthy", "inactive", "degraded", "unknown"},
       findings \in {{}, {Fault("r2", "t1", "down", 2, TRUE, None)}, {Fault("r1", "t1", "slow", 1, FALSE, 1)}} :
        input = Looked(Two,
            [j \in {1, 2} |->
                IF j = 1 THEN Result(at, complete, {Observation(r, "state", at, None) : r \in seen})
                ELSE IF late THEN None
                ELSE Result(again, TRUE, {Observation("r1", kind, again, until)})],
            findings, [r \in {"r1", "r2"} |-> IF r = "r1" THEN of ELSE "healthy"], now)

\* Six rules, one of them on two resources, and a second target.
Rules == {"a", "b", "c", "d", "e", "f"}
ByProblems ==
    \E grade \in [Rules -> 1..3], other \in 1..3 :
        input = Looked([j \in {1} |-> Watch("t1", "inventory", 2)], [j \in {1} |-> None],
            {Fault(IF r \in {"a", "b", "c"} THEN "r1" ELSE "r2", "t1", r, grade[r], TRUE, None) : r \in Rules}
            \cup {Fault("r3", "t1", "a", other, FALSE, 1), Fault("r4", "t2", "a", other, TRUE, None)},
            [r \in {} |-> None], 2)

ViewInit == ByEvidence \/ ByProblems
ViewIsHonest == V!WellIsKnown /\ V!NothingOverlooked /\ V!WorstIsShown
===============================================================================
