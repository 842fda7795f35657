------------------------------ MODULE MCReleases ------------------------------
(***************************************************************************)
(* Inputs of Releases for TLC: a deployment "web" with a replica set and   *)
(* two pods, the rows of its registry and its builds, and the commits of   *)
(* another target.  In each family one part of the evidence varies.        *)
(***************************************************************************)
EXTENDS Naturals, Sequences, TLC

CONSTANT None

VARIABLE input

L == INSTANCE Releases WITH Depth <- 2, MaxDigests <- 2

Grace == 1
a1 == <<"a", "1">>
a2 == <<"a", "2">>
b1 == <<"b", "1">>
Check == [target |-> "dev", grace |-> Grace, freshness |-> 3, workloads |-> {"workloads", "pods"},
        owned |-> {"app"},
        served |-> [i \in {"app"} |-> "shop"], repositories |-> [p \in {"main"} |-> "code"]]

Release == <<"release", "a">>
Plain == <<"v1">>
Tagged == L!Reference("app", Release, None)
Row(digest, tags, media, created) ==
    [image |-> "app", digest |-> digest, tags |-> tags, media |-> media, created |-> created]
Index(digest, children) == [image |-> "app", digest |-> digest, children |-> children]
Made(digest, revision, repository, created) ==
    [image |-> "app", digest |-> digest, state |-> "ready", pipeline |-> "other", for |-> "cart",
     revision |-> revision, repository |-> repository, created |-> created]
Committed(repository, revision) == [kind |-> "commit", repository |-> repository, revision |-> revision]
Owner(base, uid, owner) == [kind |-> "owner", base |-> base, uid |-> uid, owner |-> owner]

Operation(complete, at) == [complete |-> complete, at |-> at]
Named(target, op, at, datas) == {L!Observation(target, op, d, at, d) : d \in datas}

\* What the pods, the deployment, the registry, the builds and the commits are seen as.
Workloads(ref, desired, active) ==
    {L!Image("web", "c", ref, None, active), Owner("web", "d", None), Owner("set", "s", "d"),
     [kind |-> "workload", base |-> "web", desired |-> desired, created |-> 0]}
Pods(ref, digests) ==
    UNION {{L!Image(p, "c", ref, digests[p], TRUE), Owner(p, p, "s")} : p \in DOMAIN digests}
Both == [p \in {"p1", "p2"} |-> "x"]
InRegistry == L!Registry(Row("x", {Release}, "image", 0))
FromBuilds == L!Built(Check, Made("x", a1, "code", 0))
InGit == {Committed("code", a1)}

Result(target, ops, observations) == [target |-> target, operations |-> ops, observations |-> observations]
Known(workloads, pods, registry, builds, commits) ==
    [k \in {"kube", "releases", "git"} |->
        IF k = "kube" THEN
            Result("dev", [o \in {"workloads", "pods"} |-> Operation(TRUE, 3)],
                   Named("dev", "workloads", 3, workloads) \cup Named("dev", "pods", 3, pods))
        ELSE IF k = "releases" THEN
            Result("dev", [o \in {"registry", "builds"} |-> Operation(TRUE, 3)],
                   Named("dev", "registry", 3, registry) \cup Named("dev", "builds", 3, builds))
        ELSE Result("source", [o \in {"commits"} |-> Operation(TRUE, 3)], Named("source", "commits", 3, commits))]
Fine == Known(Workloads(Tagged, 2, TRUE), Pods(Tagged, Both), InRegistry, FromBuilds, InGit)

Asked(results, now, freshness) ==
    [job |-> Check, results |-> results, now |-> now, freshness |-> freshness]
Fresh == [k \in {"kube", "releases"} |-> 3]

\* Another check has listed something at another time, or the check itself has.
Moved(S, at) == {[o EXCEPT !.at = at] : o \in S}
ByReadings ==
    \E op \in {"pods", "workloads", "registry", "builds"}, at \in 1..4, again \in 1..4,
       complete \in BOOLEAN, too \in BOOLEAN, now \in 4..6, freshness \in {Fresh, [k \in {"kube"} |-> 2]} :
        LET k == IF op \in {"pods", "workloads"} THEN "kube" ELSE "releases"
            of == {o \in Fine[k].observations : o.operation = op}
            kept == (Fine[k].observations \ of) \cup Moved(of, at)
        IN  input = Asked([j \in DOMAIN Fine \cup {"inventory"} |->
                    IF j = k THEN [Fine[k] EXCEPT !.observations = kept, !.operations[op] = Operation(complete, at)]
                    ELSE IF j = "inventory" THEN Result("dev", [o \in {op} |-> Operation(too, again)],
                                                        IF too THEN Moved(of, again) ELSE {})
                    ELSE Fine[j]], now, freshness)

\* Digests that run, and what the registry has of them.
ByDigests ==
    \E ref \in {Tagged, L!Reference("app", Plain, None), L!Reference("app", None, "x"),
                L!Reference(None, Plain, None), L!Reference("tool", Plain, None)},
       one \in {"x", "y", None}, two \in {"x", "y", "z"}, media \in {"image", "index", "unknown"},
       children \in SUBSET {"y", "z"}, other \in {{}, {Release}, {Plain}}, created \in {0, 3},
       first \in {"x", "z"}, again \in {a1, None} :
        input = Asked(Known(Workloads(ref, 2, TRUE),
                            Pods(ref, [p \in {"p1", "p2"} |-> IF p = "p1" THEN one ELSE two]),
                            L!Registry(Row("x", {Release, Plain}, media, created))
                            \cup L!Registry(Row("y", other, "image", 0))
                            \cup (IF media = "index" THEN L!Manifest(Index("x", children)) ELSE {}),
                            L!Built(Check, Made(first, a1, "code", 0))
                            \cup L!Built(Check, Made("y", again, None, 0)), InGit), 3, Fresh)

\* Builds and commits.
ByRevisions ==
    \E tag \in {Release, Plain}, first \in {a1, b1, None}, again \in {a1, a2, b1},
       mapped \in {"none", "ready", "failed"}, pipeline \in {"main", "other"},
       commits \in SUBSET {Committed("code", a1), Committed("fork", a1), Committed("code", b1)} :
        LET ref == L!Reference("app", tag, None)
            run == [Made("x", again, None, 0) EXCEPT !.pipeline = pipeline, !.for = "shop", !.state = mapped]
        IN  input = Asked(Known(Workloads(ref, 2, TRUE), Pods(ref, Both),
                                L!Registry(Row("x", {tag}, "image", 0)),
                                L!Built(Check, Made("x", first, "code", 0))
                                \cup (IF mapped = "none" THEN {} ELSE {L!Build(run)})
                                \cup (IF mapped = "failed" THEN {L!Build([run EXCEPT !.state = "ready", !.created = 1,
                                                                             !.revision = a1])} ELSE {}),
                                commits), 3, Fresh)

\* Who owns whom, what is wanted, and manifests with children that Azure lists with their rows.
ByOwners ==
    \E owner \in {None, "d", "s", "set"}, parent \in {None, "d", "p1"}, desired \in {0, 2},
       active \in BOOLEAN, ran \in {"x", "y"}, children \in {{}, {"y"}, {"y", None}} :
        LET row == [Row("x", {Release}, "image", 0) @@ [children |-> children] EXCEPT !.image = "app"]
            pods == {L!Image("p1", "c", Tagged, ran, TRUE), Owner("p1", "p1", owner)}
            works == (Workloads(Tagged, desired, active) \ {Owner("set", "s", "d")}) \cup {Owner("set", "s", parent)}
        IN  input = Asked([Known(works, pods, IF L!AcrValid(row) THEN L!Acr(row) ELSE {}, FromBuilds, InGit)
                              EXCEPT !["releases"].operations["registry"].complete = L!AcrValid(row)],
                          3, Fresh)

ReleasesInit == ByReadings \/ ByDigests \/ ByRevisions \/ ByOwners
OriginsAreEvidenced ==
    L!VerifiedIsEvidenced /\ L!DriftIsEvidenced /\ L!HealthExpires /\ L!RetriesHideNothing
===============================================================================
