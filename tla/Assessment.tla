------------------------------ MODULE Assessment ------------------------------
(***************************************************************************)
(* The verdict on a deployment (query: assessment, release_assessment,     *)
(* filter, matching; server: query_deployment, query_deployment_pages,     *)
(* query_availability, query_api, query_projection; history: query_read,   *)
(* query_latest, query_gaps and the view it reads).  The handler reads in  *)
(* seven statements, and records may be written between two of them; the   *)
(* verdict is a function of what the statements see.  Records are as the   *)
(* projections write them; every recorded run is of a required check.      *)
(***************************************************************************)
EXTENDS Naturals, FiniteSets, FiniteSetsExt

CONSTANT None

VARIABLE input

Target == {"t1", "t2"}

\* Window::from and to of a deployment at 2 that is watched for 2, and the baseline before it.
Watched == [from |-> 2, to |-> 4]
Baseline == [from |-> Watched.from - (Watched.to - Watched.from), to |-> Watched.from]
Until(now) == IF now < Watched.to THEN now ELSE Watched.to
Observed(now) == [from |-> Baseline.from, to |-> Until(now)]

-----------------------------------------------------------------------------
(* Records. *)

Place(target, resource) == [target |-> target, resource |-> resource]

\* query_projection::result.  A run is recorded at the time it finished.
Run(id, target, started, finished, oldest, complete, pending, truncated, until) ==
    [category |-> "check", id |-> id, place |-> Place(target, None), started |-> started,
     from |-> finished, to |-> finished, closed |-> None, oldest |-> oldest,
     complete |-> complete, pending |-> pending, truncated |-> truncated, until |-> until]

\* query_projection::finding.
Finding(id, severity, from, to, closed, first, state) ==
    [category |-> "finding", id |-> id, place |-> Place("t1", "r1"), severity |-> severity,
     from |-> from, to |-> to, closed |-> closed, first |-> first, state |-> state]

\* query_observations::observation: of an image nothing is verified.
Release(id, at, until, content, verified, waiting) ==
    [category |-> "release", id |-> id, place |-> Place("t1", "r1"), from |-> at, to |-> at,
     closed |-> None, until |-> until, content |-> content, verified |-> verified,
     pending |-> waiting]

\* matching::scope and record.
Matches(f, place) ==
    /\ f.target \in {None, place.target}
    /\ f.resource \in {None, place.resource}

Overlaps(r, w) ==
    /\ r.from < w.to
    /\ r.to >= w.from \/ (r.category = "finding" /\ (r.closed = None \/ r.closed >= w.from))

Selection(records, f, w, category) ==
    {r \in records : r.category = category /\ Matches(f, r.place) /\ Overlaps(r, w)}

\* query_latest: of every identity the record that begins last.
LatestOf(rows) == {r \in rows : \A o \in rows : o.id = r.id => o.from <= r.from}

-----------------------------------------------------------------------------
(* The statements of query_deployment::deployment, in their order.  The k-th sees what was
   written before the turn-th. *)

Seen(k) == IF k < input.turn THEN input.before ELSE input.before \cup input.added

World == input.world
Now == input.now

\* query_api::availability with History::query_availability.
Available(w) ==
    /\ World.history /\ World.persisted
    /\ w.from >= World.since
    /\ ~\E at \in World.lost : at >= w.from /\ at < w.to
    /\ ~World.queued /\ World.running

\* Checks are of targets: what selects a part of one selects the checks of all of it.
CheckFilter ==
    LET q == input.filter
    IN  [target |-> IF q.resource \in DOMAIN World.resources THEN World.resources[q.resource]
                    ELSE q.target,
         resource |-> None]

\* query_gap: from the end of what a run vouches for, or from a run that was not complete, to
\* the next run of the check, or until now.  Before its first run nothing is expected of it.
GapFrom(r) == IF r.complete THEN r.until ELSE r.from
GapTo(r, records) ==
    LET later == {o.from : o \in {x \in records : /\ x.category = "check" /\ x.id = r.id
                                                  /\ x.from > r.from}}
    IN  IF later = {} THEN Now ELSE Min(later)

\* query_gap_count.
GapsIn(records, f, w) ==
    {r \in records : /\ r.category = "check" /\ f.target \in {None, r.place.target}
                     /\ GapFrom(r) < GapTo(r, records)
                     /\ GapFrom(r) < w.to /\ GapTo(r, records) > w.from}

Required == {c \in World.checks : c.required /\ Matches(CheckFilter, Place(c.target, None))}

AvailableThroughout ==
    Available(Observed(Now)) /\ GapsIn(Seen(2), CheckFilter, Observed(Now)) = {}

\* query_deployment_pages::checks.
Runs == {r \in LatestOf(Selection(Seen(3), CheckFilter, Observed(Now), "check")) :
            \E c \in Required : c.id = r.id}

Releases == LatestOf(Selection(Seen(4), input.filter, Watched, "release"))

Findings == Selection(Seen(5), input.filter, [Watched EXCEPT !.to = Until(Now)], "finding")

Before == LatestOf({r \in Selection(Seen(5), input.filter, Baseline, "finding") :
                        \E f \in Findings : f.id = r.id})

Errors == {r.id : r \in {f \in Selection(Seen(6), input.filter, Watched, "finding") :
                            f.severity = 2}}

FailedRuns == {r.id : r \in {c \in Selection(Seen(7), CheckFilter, Watched, "check") :
                                ~c.complete}}

-----------------------------------------------------------------------------
(* assessment::evaluate. *)

\* Mutant: a run that began before the deployment speaks for it.
SoundAnyway(r) ==
    /\ r.complete /\ ~r.truncated /\ r.pending = 0
    /\ r.from >= Watched.from
    /\ r.oldest = None \/ r.oldest >= Watched.from
    /\ r.until >= Until(Now)

\* A run that speaks for what was deployed.
Sound(r) ==
    /\ r.complete /\ ~r.truncated /\ r.pending = 0
    /\ r.started >= Watched.from /\ r.from >= Watched.from
    /\ r.oldest = None \/ r.oldest >= Watched.from
    /\ r.until >= Until(Now)

Outstanding == {c \in Required : ~\E r \in Runs : r.id = c.id /\ Sound(r)}

\* ReleaseAssessment::observe.
FreshReleases ==
    {r \in Releases : r.to >= Watched.from /\ r.from < Watched.to /\ r.until >= Until(Now)}
Deviating(r) ==
    /\ r.content = "other"
    /\ input.expected = "revision" => r.verified
ReleaseReasons ==
    \/ FreshReleases = {}
    \/ \E r \in FreshReleases :
        \/ r.pending
        \/ r.content = "missing"
        \/ (input.expected = "revision" /\ ~r.verified)

Mismatch == input.expected # None /\ \E r \in FreshReleases : Deviating(r)

Reasons ==
    \/ Required = {} \/ Outstanding # {}
    \/ FailedRuns # {}
    \/ (input.expected # None /\ ReleaseReasons)
    \/ Errors # {}

Outcome ==
    IF Errors # {} \/ (Mismatch /\ Now >= Watched.to) THEN "failing"
    ELSE IF Now < Watched.to THEN "pending"
    ELSE IF ~AvailableThroughout \/ Reasons THEN "incomplete" ELSE "passing"

\* What a finding of the window is to the deployment.
Class(f) ==
    LET open == {r \in Before : r.id = f.id /\ (r.closed = None \/ r.closed >= Watched.from)}
        earlier == {r.severity : r \in open}
    IN  IF f.first # None /\ f.first >= Watched.from /\ f.first < Watched.to THEN "new"
        ELSE IF earlier # {} /\ f.severity > Max(earlier) THEN "worsened"
        ELSE IF earlier # {} \/ (f.first # None /\ f.first < Watched.from) THEN "pre-existing"
        ELSE "unclassified"

-----------------------------------------------------------------------------
(* query_availability::scoped: what every other historical answer says of itself. *)

Covered(f, w) ==
    LET target == IF f.target = None /\ f.resource \in DOMAIN World.resources
                  THEN World.resources[f.resource] ELSE f.target
        probe == [target |-> target, resource |-> None]
    IN  /\ Available(w)
        /\ Selection(Seen(1), probe, [from |-> 0, to |-> w.to], "check") # {}
        /\ w.to >= Now => ~\E c \in World.checks :
                c.required /\ ~c.finished /\ Matches(probe, Place(c.target, None))
        /\ GapsIn(Seen(1), [f EXCEPT !.target = target], w) = {}

-----------------------------------------------------------------------------
(* What an answer promises, stated over the records and not over the way they are read. *)

All == input.before \cup input.added
InScope(target) == LET f == CheckFilter IN f.target \in {None, target}

\* The finding was seen, or not known to be over, at a time of the window.
Lived(f) == \E t \in Watched.from..(Watched.to - 1) :
                f.from <= t /\ (t <= f.to \/ f.closed = None \/ t <= f.closed)

\* The last time the check ran before the end of the window it saw only what was deployed, all
\* of it, and its word still holds at the end.
Vouched(c, records) ==
    LET own == {r \in records : r.category = "check" /\ r.id = c.id /\ r.from < Watched.to}
    IN  \E r \in own : /\ \A o \in own : o.from <= r.from
                       /\ r.complete /\ ~r.truncated /\ r.pending = 0
                       /\ r.started >= Watched.from
                       /\ r.oldest # None => r.oldest >= Watched.from
                       /\ r.until >= Watched.to

\* From t on, and until it runs again, there is no word of a check that has run before.
Unwatched(c, t, records) ==
    LET past == {r \in records : r.category = "check" /\ r.id = c /\ r.from <= t}
    IN  past # {} /\ \E r \in past : /\ \A o \in past : o.from <= r.from
                                     /\ ~r.complete \/ r.until <= t

\* "Deployment verdicts require observed post-deployment evidence, never successful collection
\* alone" (assessment.rs:1): a deployment passes when its window is over, nothing of the window
\* or the baseline is missing, every required check has vouched for it, what runs is what was
\* expected, and nothing that was recorded when the question was asked speaks against it.
PassingIsObserved ==
    Outcome = "passing" =>
        /\ Now >= Watched.to
        /\ World.history /\ World.running /\ World.since <= Baseline.from
        /\ \A at \in World.lost : at >= Watched.to
        /\ \A c \in {r.id : r \in {x \in input.before : x.category = "check" /\ InScope(x.place.target)}},
              t \in Baseline.from..(Watched.to - 1) : ~Unwatched(c, t, input.before) \/ ~Unwatched(c, t, All)
        /\ \E c \in World.checks : c.required /\ InScope(c.target)
        /\ \A c \in World.checks : c.required /\ InScope(c.target) =>
              Vouched(c, input.before) \/ Vouched(c, All)
        /\ ~\E r \in input.before :
              /\ InScope(r.place.target) /\ r.category = "check"
              /\ ~r.complete /\ r.from \in Watched.from..(Watched.to - 1)
        /\ ~\E f \in input.before :
              f.category = "finding" /\ Matches(input.filter, f.place) /\ f.severity = 2 /\ Lived(f)
        /\ input.expected # None =>
              \E r \in All : /\ r.category = "release" /\ Matches(input.filter, r.place)
                                     /\ r.from \in Watched.from..(Watched.to - 1)
                                     /\ r.content = "same" /\ ~r.pending
                                     /\ input.expected = "revision" => r.verified

\* A verdict against the deployment names what was seen: an error that lived in its window, or,
\* when the window is over, another release in the place of the expected one.
FailingIsObserved ==
    Outcome = "failing" =>
        \/ \E f \in All : /\ f.category = "finding" /\ Matches(input.filter, f.place)
                                  /\ f.severity = 2 /\ Lived(f)
        \/ /\ Now >= Watched.to /\ input.expected # None
           /\ \E r \in All : r.category = "release" /\ r.content = "other"
                                     /\ r.from \in Watched.from..(Watched.to - 1)

\* What began in the window is not passed off as older, and what got worse in it, or is not
\* known to be older, not as unchanged.
BlameIsFair ==
    \A f \in Findings :
        Class(f) = "pre-existing" =>
            /\ f.first = None \/ f.first \notin Watched.from..(Watched.to - 1)
            /\ \/ (f.first # None /\ f.first < Watched.from)
               \/ \E b \in All : b.category = "finding" /\ b.id = f.id
                                         /\ b.from < Watched.from /\ b.severity >= f.severity

\* An answer that calls itself complete covers what was asked: checks have run there, none of
\* those that must has yet to, and nothing was missed or lost in the time.
CompleteIsCovered ==
    LET w == [from |-> Watched.from, to |-> Until(Now)]
    IN  Covered(input.filter, w) =>
            /\ World.history /\ World.running /\ ~World.queued /\ World.since <= w.from
            /\ \E r \in All : r.category = "check" /\ r.from < w.to
            /\ \A r \in input.before : r.category = "check" /\ InScope(r.place.target) =>
                  \A t \in w.from..(w.to - 1) :
                      ~Unwatched(r.id, t, input.before) \/ ~Unwatched(r.id, t, All)
===============================================================================
