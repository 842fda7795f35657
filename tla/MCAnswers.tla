------------------------------ MODULE MCAnswers ------------------------------
(***************************************************************************)
(* Parts with safety properties alone, for TLC: two resources under one    *)
(* limit of findings (Findings), and what is answered and with what: lists *)
(* that are walked (Pages), the tables they are read from (Retention),     *)
(* what is kept until it expires (Credentials), and what is a function of  *)
(* its input: assessments and views (MCQueries), releases (MCReleases),    *)
(* readers of lists and measurements (MCReading).                          *)
(* Each behaviour is one of the part it belongs to, and the others stay as *)
(* they began.                                                             *)
(***************************************************************************)
EXTENDS MCFindings

CONSTANTS
    \* The constants of the parts, which share None with Findings: of Pages and Retention,
    \* Retention, Credentials, and MCReading.
    Ident, WalkTime, MaxChanges,
    Retained, EventCap, Cap, Pass, Passes, MaxBatch, TableTime,
    Transport, Kid, Margin, Valid, Pause, FetchTime, KeyTime, MaxRotations,
    Limits

VARIABLES
    part, clock,
    \* Pages; back also Retention, asked also Credentials
    kind, forward, rows, changes, cursor, back, got, asked, due, phase,
    \* Retention
    events, records, evicted, step, pass, chosen, known, behind,
    \* Credentials
    style, busy, since, cached, client, after, published, offers, ended, rotations, last,
    \* MCQueries, MCReleases, MCReading
    input

pageVars == <<kind, forward, rows, changes, cursor, got, due, phase>>
retentionVars == <<events, records, evicted, step, pass, chosen, known, behind>>
credentialVars == <<style, busy, since, cached, client, after, published, offers, ended,
                    rotations, last>>
otherVars == <<clock, back, asked, pageVars, retentionVars, credentialVars>>

P == INSTANCE Pages WITH Id <- Ident, now <- clock, MaxTime <- WalkTime
R == INSTANCE Retention WITH Id <- Ident, Keep <- Retained, now <- clock, MaxTime <- TableTime
K == INSTANCE Credentials WITH now <- clock, MaxTime <- KeyTime

Q == INSTANCE MCQueries
L == INSTANCE MCReleases
Y == INSTANCE MCReading

ASSUME PartsAssumption ==
    /\ P!ConstantsAssumption /\ R!ConstantsAssumption /\ K!ConstantsAssumption
    /\ L!L!ConstantsAssumption /\ Y!ListsAssumption

\* The limits of the readers of lists.
FewRows == [pages |-> 3, assets |-> 3, series |-> 3, queue |-> 1, size |-> 2, window |-> 4]

\* What does not move begins in one way only.
NoWalk ==
    /\ kind = None /\ forward = None /\ rows = None /\ changes = None /\ cursor = None
    /\ got = None /\ due = None /\ phase = None

NoTables ==
    /\ events = None /\ records = None /\ evicted = None /\ step = None /\ pass = None
    /\ chosen = None /\ known = None /\ behind = None

NoCredentials ==
    /\ style = None /\ busy = None /\ since = None /\ cached = None /\ client = None
    /\ after = None /\ published = None /\ offers = None /\ ended = None /\ rotations = None
    /\ last = None

SuiteInit ==
    /\ part \in {"findings", "pages", "retention", "credentials", "assessment", "view",
                 "releases", "reading", "measures"}
    /\ Init
    /\ IF part = "pages" THEN P!Init ELSE NoWalk
    /\ IF part = "retention" THEN R!Init ELSE NoTables
    /\ IF part = "credentials" THEN K!Init ELSE NoCredentials
    /\ clock = 0
    /\ part \notin {"pages", "retention"} => back = None
    /\ part \notin {"pages", "credentials"} => asked = None
    /\ CASE part = "assessment" -> Q!AssessmentInit
         [] part = "view" -> Q!ViewInit
         [] part = "releases" -> L!ReleasesInit
         [] part = "reading" -> Y!ReadingInit
         [] part = "measures" -> Y!MeasuresInit
         [] OTHER -> input = None

SuiteNext ==
    /\ UNCHANGED <<part, input>>
    /\ \/ /\ part = "findings" /\ Next
          /\ UNCHANGED otherVars
       \/ /\ part = "pages" /\ P!Next
          /\ UNCHANGED <<vars, retentionVars, credentialVars>>
       \/ /\ part = "retention" /\ R!Next
          /\ UNCHANGED <<vars, asked, pageVars, credentialVars>>
       \/ /\ part = "credentials" /\ K!Next
          /\ UNCHANGED <<vars, back, pageVars, retentionVars>>

SuiteSpec == SuiteInit /\ [][SuiteNext]_<<part, vars, otherVars, input>>

-----------------------------------------------------------------------------
\* The properties of the parts are stated and explained in their modules.

\* Pages: a walk shows what was there throughout, once, under the filters it began with.
WalksHold == part = "pages" => P!WalksAreWhole /\ P!WalksAreBound

\* Retention: what is answered as complete is there, and the tables stay within their bounds.
RetentionHolds == part = "retention" => R!TypeOK /\ R!BoundaryHolds /\ R!TablesBounded

\* Credentials: what is used again is valid, and the latest there is.
CredentialsHold == part = "credentials" => K!CredentialsHold

\* MCQueries: an assessment and a view say no more than was observed.
AnswersAreObserved ==
    (part = "assessment" => Q!VerdictsAreObserved) /\ (part = "view" => Q!ViewIsHonest)

\* MCReleases: an origin is taken as verified, and a release as deviating, on evidence.
OriginsAreEvidenced == part = "releases" => L!OriginsAreEvidenced

\* MCReading: a list that is reported as complete was read to its end, and nothing that was
\* selected is missing, and what is reported as measured was answered, all of it.
CompleteMeansRead ==
    /\ part = "reading" => Y!CompleteMeansRead
    /\ part = "measures" => Y!MeasuresAnswered
==============================================================================
