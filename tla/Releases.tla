------------------------------- MODULE Releases -------------------------------
(***************************************************************************)
(* What is running, and where it came from (core: releases,                *)
(* release_evidence, images, provenance; providers: artifact_projection,   *)
(* registry_manifests, azure_registry; integrations: kube_images).  The    *)
(* rows of registries, builds and pods become observations, and of each    *)
(* image in use they are joined: the digests that run, the digest the      *)
(* registry has for the reference, the build that made it and the commit   *)
(* it was built from.  All of it is a function of the results and the time.*)
(***************************************************************************)
EXTENDS Integers, Sequences, FiniteSets, FiniteSetsExt, SequencesExt

CONSTANTS
    Depth,          \* how far owners are followed (64)
    MaxDigests,     \* of one image (16)
    None

\* What is said of an image is a verdict or nothing.
ConstantsAssumption == None \notin {"unknown", "inactive", "fault", "healthy"}

VARIABLE input

Check == input.job              \* the check of releases: target, scope, grace, freshness, ...
Results == input.results        \* check -> [target, operations: id -> [complete, at], observations]
Now == input.now

-----------------------------------------------------------------------------
(* Images.  A reference names an image by tag or by digest; a tag is the sequence of its parts, and
   a revision that of its digits, of which a tag may hold the first. *)

Reference(image, tag, digest) == [image |-> image, tag |-> tag, digest |-> digest]

\* image_parts: the tag of a release ends with a revision.
RevisionIn(ref) ==
    IF ref.tag # None /\ Head(ref.tag) \in {"release", "sha"} THEN Tail(ref.tag) ELSE None

RevisionMatches(short, full) == short # <<>> /\ IsPrefix(short, full)

-----------------------------------------------------------------------------
(* From rows to observations. *)

Observation(target, operation, name, at, data) ==
    [target |-> target, operation |-> operation, resource |-> <<target, operation, name>>,
     at |-> at, data |-> data]

Artifact(image, digest, tags, kind, children, built, revision, repository, created) ==
    [kind |-> "artifact", image |-> image, digest |-> digest, tags |-> tags, manifest |-> kind,
     children |-> children, built |-> built, revision |-> revision, repository |-> repository,
     created |-> created]

\* artifact_projection::registry: what cannot be named is no artifact.
Registry(row) ==
    IF None \in {row.image, row.digest} THEN {}
    ELSE {Artifact(row.image, row.digest, row.tags, row.media, {}, FALSE, None, None, row.created)}

\* registry_manifests: an index is read only when each of its children can be named.
ManifestValid(row) == row.children # None /\ None \notin row.children
Manifest(row) ==
    {Artifact(row.image, row.digest, {}, "index", row.children, FALSE, None, None, None)}

\* azure_registry: children make an index.
AcrValid(row) == row.digest # None /\ None \notin row.children
Acr(row) ==
    {Artifact(row.image, row.digest, row.tags,
              IF row.children # {} THEN "index" ELSE IF row.media = "image" THEN "image" ELSE "unknown",
              row.children, FALSE, None, None, row.created)}

\* artifact_projection::built and build: what a build has made, and that it was run.
Repository(job, row) ==
    IF row.pipeline \in DOMAIN job.repositories THEN job.repositories[row.pipeline] ELSE row.repository
Built(job, row) ==
    IF row.state # "ready" \/ None \in {row.image, row.digest} THEN {}
    ELSE {Artifact(row.image, row.digest, {}, "unknown", {}, TRUE, row.revision, Repository(job, row),
                   row.created)}
Build(row) ==
    [kind |-> "build", pipeline |-> row.pipeline, revision |-> row.revision, for |-> row.for,
     state |-> row.state, created |-> row.created]

\* kube_images::images: of a pod the digest that runs is known too.
Image(base, container, ref, observed, active) ==
    [kind |-> "image", base |-> base, container |-> container, desired |-> ref,
     observed |-> observed, revision |-> RevisionIn(ref), active |-> active]

-----------------------------------------------------------------------------
(* Evidence: what is known now, of all checks. *)

\* source_limit: workloads are as fresh as the check that lists them.
Limit(k, o) ==
    LET own == IF k \in DOMAIN input.freshness THEN input.freshness[k] ELSE Check.freshness
    IN  IF o.operation \notin Check.workloads THEN own
        ELSE IF "kube" \in DOMAIN input.freshness THEN input.freshness["kube"] ELSE Min({own, 150})

Newest(target, op) ==
    Max({Results[k].operations[op].at :
            k \in {r \in DOMAIN Results : Results[r].target = target /\ op \in DOMAIN Results[r].operations}})

Reported(k, o) ==
    /\ o.operation \in DOMAIN Results[k].operations
    /\ Results[k].operations[o.operation].complete

\* Mutant: a complete copy is good as long as it is fresh.
UsableCopy(k, o) == o.at <= Now /\ Now - o.at <= Limit(k, o) /\ Reported(k, o)

\* A fact comes from the newest reading of its list, by whichever check, and that was complete.
Usable(k, o) ==
    /\ o.at <= Now /\ Now - o.at <= Limit(k, o)
    /\ Reported(k, o)
    /\ Results[k].operations[o.operation].at = Newest(Results[k].target, o.operation)

Observed == UNION {{<<k, o>> : o \in Results[k].observations} : k \in DOMAIN Results}
Youngest(S) == {o \in S : \A p \in S : p.resource = o.resource => p.at <= o.at}
Facts == Youngest({x[2] : x \in {y \in Observed : Usable(y[1], y[2])}})

\* The last word of any check on the resource counts.
Expires(o) == Max({x[2].at + Limit(x[1], x[2]) : x \in {y \in Observed : y[2].resource = o.resource}})

\* images: each that is known, fresh or not.
Candidates == {o \in Youngest({x[2] : x \in {y \in Observed : y[2].data.kind = "image"}}) :
                  o.target = Check.target}

-----------------------------------------------------------------------------
(* Workloads, and the pods that belong to them. *)

Of(facts, kind) == {f \in facts : f.data.kind = kind}
Owner(facts, base) == {f.data : f \in {g \in Of(facts, "owner") : g.target = Check.target /\ g.data.base = base}}

\* The owners of a resource, as far as they are followed.
Above(facts, base) ==
    LET parents(uid) == {f.data.owner : f \in {g \in Of(facts, "owner") :
                                                    g.target = Check.target /\ g.data.uid = uid}}
        reached[n \in 1..Depth] ==
            IF n = 1 THEN {o.owner : o \in Owner(facts, base)} \ {None}
            ELSE reached[n - 1] \cup (UNION {parents(u) : u \in reached[n - 1]} \ {None})
    IN  reached[Depth]

\* runtime_images: of the pods below the workload.
Below(facts, image) ==
    {f \in Of(facts, "image") :
        /\ f.target = image.target /\ f.data.observed # None
        /\ f.data.container = image.data.container
        /\ \E w \in Owner(facts, image.data.base) : w.uid \in Above(facts, f.data.base)}

Inactive(facts, image) ==
    \/ ~image.data.active
    \/ \E f \in Of(facts, "workload") :
          f.target = image.target /\ f.data.base = image.data.base /\ f.data.desired = 0

\* grace: the workload, or its pod, is young.
Young(at) == at # None /\ Now >= at /\ Now - at < Check.grace
InGrace(facts, image) ==
    \E f \in Of(facts, "workload") \cup Of(facts, "pod") :
        f.target = image.target /\ f.data.base = image.data.base /\ Young(f.data.created)

-----------------------------------------------------------------------------
(* releases::enrich, for one image. *)

TheOne(S) == IF Cardinality(S) = 1 THEN CHOOSE x \in S : TRUE ELSE None

\* Builds that do not say what they made, but for which service and of which revision.
Mapped(facts, image) ==
    {f \in Of(facts, "build") :
        /\ f.target = Check.target /\ f.data.state = "ready"
        /\ image.desired.image \in DOMAIN Check.served
        /\ Check.served[image.desired.image] = f.data.for
        /\ image.revision # None /\ f.data.revision # None
        /\ RevisionMatches(image.revision, f.data.revision)}

\* What the registry has for a reference, and what that contains.
Expected(rows, ref) ==
    IF ref.digest # None THEN {ref.digest}
    ELSE {r.digest : r \in {q \in rows : ref.tag \in q.tags}}
ChildrenOf(rows, digest) ==
    UNION {r.children : r \in {q \in rows : q.digest = digest /\ q.manifest = "index"}}

\* A build has made each digest, or the index that has it.
AllBuilt(digests, builds, wanted, children) ==
    \A d \in digests : \E f \in builds :
        f.data.digest = d \/ (f.data.digest = wanted /\ d \in children)

Trace(facts, image) ==
    LET own == image.data
        artifacts == {f \in Of(facts, "artifact") : f.data.image = own.desired.image}
        runtime == {f \in IF own.observed # None /\ image \in facts THEN {image} ELSE Below(facts, image) :
                       f.data.desired.image = own.desired.image}
        digests == {f.data.observed : f \in runtime}
        registries == {f \in artifacts : ~f.data.built}
        rows == {f.data : f \in registries}
        wanted == TheOne(Expected(rows, own.desired))
        children == ChildrenOf(rows, wanted)
        pending == InGrace(facts, image) \/ \E r \in rows : r.digest = wanted /\ Young(r.created)
        \* Only of a single image, or of an index whose children are known, it can be said what
        \* is not it.
        comparable == children # {} \/ \E r \in rows : r.digest = wanted /\ r.manifest = "image"
        apart == {d \in digests : d # wanted /\ d \notin children}
        builds == {f \in artifacts : /\ f.data.built
                                     /\ f.data.digest \in digests \/ (f.data.digest = wanted /\ children # {})}
        mapped == Mapped(facts, own)
        revision == TheOne({f.data.revision : f \in builds \cup mapped} \ {None})
        repositories == ({f.data.repository : f \in builds}
                         \cup {Repository(Check, [pipeline |-> f.data.pipeline, repository |-> None]) : f \in mapped})
                        \ {None}
        commits == {f \in Of(facts, "commit") :
                       f.data.revision = revision /\ (repositories = {} \/ f.data.repository \in repositories)}
        sources == runtime \cup registries \cup builds \cup mapped \cup commits
    IN  [digests |-> digests, wanted |-> wanted, children |-> children, pending |-> pending,
         runtime |-> runtime, builds |-> builds, commits |-> commits, revision |-> revision,
         tracked |-> \/ own.revision # None \/ own.desired.image \in Check.owned \cup DOMAIN Check.served
                     \/ artifacts # {},
         inactive |-> Inactive(facts, image),
         registry |-> /\ digests # {} /\ wanted # None /\ apart = {}
                      /\ \A d \in digests : d \in children \/ \E r \in rows : r.digest = d,
         build |-> /\ revision # None /\ digests # {}
                   /\ mapped # {} \/ AllBuilt(digests, builds, wanted, children),
         commit |-> Cardinality({f.data.repository : f \in commits}) = 1,
         mismatch |-> /\ ~pending
                      /\ \/ comparable /\ wanted # None /\ apart # {}
                         \/ own.revision # None /\ revision # None /\ ~RevisionMatches(own.revision, revision),
         until |-> IF sources = {} THEN Expires(image) ELSE Min({Expires(f) : f \in sources})]

Verified(t) == t.registry /\ t.build /\ t.commit

Coverage(image, t) ==
    IF image.data.desired.image = None THEN "malformed"
    ELSE IF ~t.tracked /\ ~t.inactive THEN "inventory_only"
    ELSE IF Cardinality(t.digests) > MaxDigests THEN "truncated"
    ELSE IF t.inactive \/ t.pending \/ Verified(t) THEN "complete" ELSE "missing"

\* evaluate, at a time when the verdict is asked for again.
Verdict(image, t, at) ==
    IF Coverage(image, t) \in {"malformed", "inventory_only"} THEN None
    ELSE IF t.until < at THEN "unknown"
    ELSE IF t.inactive THEN "inactive"
    ELSE IF t.mismatch THEN "fault"
    ELSE IF Verified(t) THEN "healthy"
    ELSE "unknown"

-----------------------------------------------------------------------------
(* provenance::mark_retries: a failure that a later run of the same has made good. *)

Superseded(b, listed) ==
    /\ b.data.kind = "build" /\ b.data.state = "failed" /\ b.data.created # None
    /\ \E s \in listed :
          /\ s.data.kind = "build" /\ s.operation = b.operation
          /\ s.data.state = "ready" /\ s.data.created # None /\ s.data.created > b.data.created
          /\ None \notin {s.data.pipeline, s.data.revision, s.data.for}
          /\ <<s.data.pipeline, s.data.revision, s.data.for>> = <<b.data.pipeline, b.data.revision, b.data.for>>

-----------------------------------------------------------------------------
\* The observation is in date, and no check has tried since to read its list.
Vouched(k, o) ==
    /\ Now - o.at <= Limit(k, o)
    /\ \A j \in DOMAIN Results :
          Results[j].target = Results[k].target /\ o.operation \in DOMAIN Results[j].operations =>
              \/ Results[j].operations[o.operation].at < Results[k].operations[o.operation].at
              \/ Results[j].operations[o.operation].at = Results[k].operations[o.operation].at
                 /\ Results[k].operations[o.operation].complete

\* "a tag alone is insufficient ... Newer failed reads supersede older complete copies"
\* (docs/architecture/be/design.md:28): what is called healthy runs;
\* for each digest of it there is a row of the registry that has it or contains it, and a
\* successful build, of the one revision that builds of the image name, or of none that is named;
\* and a repository has that revision, which is the one that was asked for.
VerifiedIsEvidenced ==
    LET facts == Facts
        standing == {x[2] : x \in {y \in Observed : Vouched(y[1], y[2])}}
        artifacts == {f.data : f \in Of(standing, "artifact")}
        commits == {f.data : f \in Of(standing, "commit")}
    IN  \A image \in Candidates :
        LET t == Trace(facts, image)
            own == {a \in artifacts : a.image = image.data.desired.image}
        IN  Verdict(image, t, Now) = "healthy" => \E revision \in {c.revision : c \in commits} :
            /\ image.data.revision # None /\ ~t.pending => RevisionMatches(image.data.revision, revision)
            /\ t.digests # {}
            /\ \A d \in t.digests :
                  /\ \E f \in Of(standing, "image") : f.data.observed = d /\ f.target = Check.target
                  /\ \E a \in own : ~a.built /\ d \in {a.digest} \cup a.children
                  /\ \/ \E a \in own : /\ a.built /\ a.revision \in {revision, None}
                                       /\ \/ a.digest = d
                                          \/ \E g \in own : g.digest = a.digest /\ d \in g.children
                     \/ \E f \in Of(standing, "build") : f.data.state = "ready" /\ f.data.revision = revision
            /\ \E c \in commits : c.revision = revision

\* "Index manifests need explicit child relationships to distinguish platform selection from
\* revision drift" (design.md:28): drift is announced of what runs and is none of the digests the
\* registry names, or was built from another revision than the tag says, and never of a rollout
\* that may still be under way.
DriftIsEvidenced ==
    LET facts == Facts
        artifacts == {f.data : f \in Of(facts, "artifact")}
    IN  \A image \in Candidates :
        LET t == Trace(facts, image)
            ref == image.data.desired
            own == {a \in artifacts : a.image = ref.image}
            listed == {a \in own : ~a.built}
        IN  Verdict(image, t, Now) = "fault" =>
            /\ ~InGrace(facts, image)
            /\ \/ \E d \in t.digests, a \in listed :
                     /\ a.digest # d
                     /\ a.manifest = "image" \/ (a.children # {} /\ d \notin a.children)
                     /\ ref.digest = None => ~\E g \in listed : g.digest = d /\ ref.tag \in g.tags
               \/ \E a \in own : /\ a.built /\ None \notin {a.revision, image.data.revision}
                                  /\ ~RevisionMatches(image.data.revision, a.revision)

\* A fresh word on each digest, its build and its commit stands behind what is still called
\* healthy later on.
HealthExpires ==
    LET facts == Facts
    IN  \A image \in Candidates :
        LET t == Trace(facts, image)
        IN  \A at \in Now..(Now + 4) : Verdict(image, t, at) = "healthy" =>
                \A f \in t.runtime \cup t.builds \cup t.commits :
                    \E x \in Observed : x[2].resource = f.resource /\ x[2].at + Limit(x[1], x[2]) >= at

\* "later success supersedes only matching pipeline/revision/target/scope; unrelated revisions
\* cannot hide failure" (docs/plans/2026-09-05-monitor-verification.md:15).
RetriesHideNothing ==
    \A k \in DOMAIN Results : \A b \in Results[k].observations : Superseded(b, Results[k].observations) =>
        \E s \in Results[k].observations :
            /\ s.data.kind = "build" /\ s.data.state = "ready" /\ s.data.created > b.data.created
            /\ s.data.revision = b.data.revision /\ s.data.revision # None
===============================================================================
