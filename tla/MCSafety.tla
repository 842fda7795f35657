------------------------------- MODULE MCSafety -------------------------------
(***************************************************************************)
(* Parts with safety properties alone, for TLC: the story of a finding in  *)
(* the monitor (Findings, Episodes) and in the history (Recorder), the     *)
(* connector (Connector), the judgements over several readings (Signals),  *)
(* the calls of a collection (Fanout, Calls, Helpers), and the rules, a    *)
(* function of their input (MCRules).  Every behaviour is one of the part  *)
(* it belongs to, and the others stay as they began.                       *)
(***************************************************************************)
EXTENDS MCFindings

CONSTANTS
    \* The constants of the parts, which share None with Findings: of Recorder, Connector,
    \* Signals, Calls and Fanout.
    Followed, Content, MaxPublications, QueueBatches, MaxRestarts,
    Call, MaxCalls, Tries, MaxTokens, MaxFaults,
    Fresh, Sustain, Thresholds, MaxHour,
    Attempts, AttemptTime, OperationTime, Cooldown,
    Endpoints, Offered, Follow, Settings,
    RuleSettings    \* of MCRules

VARIABLES
    part,
    \* Recorder
    clock, open, saved, active, queue, rows, astray, restarts,
    \* Connector
    store, granted, refreshes, token, ids, barred, holder, call, logout, meddled, faults,
    \* Signals
    kind, hour, limits, kept, verdict, log,
    \* Fanout, Calls and Helpers share phase, permit, outcome and cancelled
    settings, initial, pending, visited, running, used, spent, ops, held, limited, phase, cancelled,
    style, attempt, time, since, permit, answers, outcome,
    child, status, others, streams, killed, late,
    \* MCRules
    input

recorderVars == <<clock, open, saved, active, queue, rows, astray, restarts>>
connectorVars == <<store, granted, refreshes, token, ids, barred, holder, call, logout,
                   meddled, faults>>
signalVars == <<kind, hour, limits, kept, verdict, log>>
fanoutVars == <<settings, initial, pending, visited, running, used, spent, ops, held, limited>>
callVars == <<style, attempt, time, since, answers>>
helperVars == <<child, status, others, streams, killed, late>>
sharedVars == <<phase, permit, outcome, cancelled>>
workVars == <<fanoutVars, callVars, helperVars, sharedVars>>

R == INSTANCE Recorder WITH now <- clock, Finding <- Followed, MaxTime <- MaxPublications
K == INSTANCE Connector
S == INSTANCE Signals WITH now <- hour, Freshness <- Fresh, MaxTime <- MaxHour
F == INSTANCE Fanout WITH Endpoint <- Endpoints, kept <- held
C == INSTANCE Calls
H == INSTANCE Helpers

X == INSTANCE MCRules

ASSUME PartsAssumption ==
    /\ R!ConstantsAssumption /\ K!ConstantsAssumption /\ S!ConstantsAssumption
    /\ C!ConstantsAssumption /\ F!ConstantsAssumption /\ X!P!ConstantsAssumption

\* Two of three endpoints ask for others; each limit binds in one of the settings.
Beginning == <<"a", "b", "a">>
Links == [a |-> <<"b", "c">>, b |-> <<"a">>, c |-> <<>>]
Cut(width, assets, waiting, read, merged) ==
    [width |-> width, assets |-> assets, queue |-> waiting, read |-> read, merged |-> merged]
Cuts == {Cut(2, 3, 2, 3, 6), Cut(2, 2, 2, 3, 6), Cut(1, 3, 1, 3, 6), Cut(2, 3, 2, 2, 6),
         Cut(2, 3, 2, 3, 5), Cut(2, 3, 2, 3, 3), Cut(3, 3, 3, 3, 6)}
Levels == {<<1, 2>>, <<2, 2>>}
StoryRules ==
    [freshness |-> 4, runtime_window |-> 3, node_grace |-> 2, rollout_grace |-> 2,
     certificate_warning |-> 3, recovery_age |-> 4, operation_timeout |-> 1,
     burn_rate |-> 2, latency |-> 2, capacity_warning |-> 50, capacity_error |-> 90,
     capacity_sustain |-> 2, queue_age |-> 2]

\* What does not move begins in one way only.
SuiteInit ==
    /\ part \in {"findings", "recorder", "connector", "signals", "fanout", "calls",
                 "helpers", "rules"}
    /\ Init /\ R!Init /\ K!Init /\ S!Init
    /\ part # "findings" => config = CHOOSE c \in Configs : TRUE
    /\ part # "signals" => kind = "rate" /\ limits = <<1, 2>>
    /\ CASE part = "fanout" -> F!Init /\ permit = None /\ outcome = None
         [] part = "calls" -> C!Init
         [] part = "helpers" -> H!Init
         [] OTHER -> phase = None /\ permit = None /\ outcome = None /\ cancelled = None
    /\ part # "fanout" => /\ settings = None /\ initial = None /\ pending = None /\ visited = None
                          /\ running = None /\ used = None /\ spent = None /\ ops = None
                          /\ held = None /\ limited = None
    /\ part # "calls" => /\ style = None /\ attempt = None /\ time = None /\ since = None
                         /\ answers = None
    /\ part # "helpers" => /\ child = None /\ status = None /\ others = None /\ streams = None
                           /\ killed = None /\ late = None
    /\ IF part = "rules" THEN X!Init ELSE input = None

SuiteNext ==
    /\ UNCHANGED <<part, input>>
    /\ \/ /\ part = "findings" /\ Next
          /\ UNCHANGED <<recorderVars, connectorVars, signalVars, workVars>>
       \/ /\ part = "recorder" /\ R!Next
          /\ UNCHANGED <<vars, connectorVars, signalVars, workVars>>
       \/ /\ part = "connector" /\ K!Next
          /\ UNCHANGED <<vars, recorderVars, signalVars, workVars>>
       \/ /\ part = "signals" /\ S!Next
          /\ UNCHANGED <<vars, recorderVars, connectorVars, workVars>>
       \/ /\ part = "fanout" /\ F!Next
          /\ UNCHANGED <<vars, recorderVars, connectorVars, signalVars, callVars,
                         helperVars, permit, outcome>>
       \/ /\ part = "calls" /\ C!Next
          /\ UNCHANGED <<vars, recorderVars, connectorVars, signalVars, fanoutVars,
                         helperVars>>
       \/ /\ part = "helpers" /\ H!Next
          /\ UNCHANGED <<vars, recorderVars, connectorVars, signalVars, fanoutVars,
                         callVars>>

SuiteSpec ==
    /\ SuiteInit
    /\ [][SuiteNext]_<<part, vars, recorderVars, connectorVars, signalVars, workVars,
                       input>>

-----------------------------------------------------------------------------
\* The properties of the parts are stated and explained in their modules.

\* Recorder: the history shows a finding in one interval at most, the one it is in.
HistoryAgrees == R!OneOpenInterval /\ R!HistoryAgrees

LoginOnlyWhenNeeded == K!LoginOnlyWhenNeeded

\* Signals: what is announced as sustained was seen for as long.
FaultsAreSustained == S!FaultsAreSustained

\* Fanout: a collection that is reported as complete has asked for everything it learned of.
NothingOmitted == part = "fanout" => F!NothingOmitted

\* Calls, Helpers: a call keeps its permit, its attempts and its deadline, and leaves nothing
\* running.
CallsAreOrderly == (part = "calls" => C!OrderlyCall) /\ (part = "helpers" => H!NothingOutlives)

\* MCRules: a worse measurement makes no better verdict, and nothing is taken from evidence
\* that does not count.
EvidenceDecides == part = "rules" => X!EvidenceDecides
=============================================================================
