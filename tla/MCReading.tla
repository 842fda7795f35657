------------------------------- MODULE MCReading ------------------------------
(***************************************************************************)
(* Inputs for the readers of lists, for the measurements that are made of  *)
(* several answers, and for the two together, for TLC: the state is one    *)
(* input, and nothing moves.                                               *)
(***************************************************************************)
EXTENDS Integers, Sequences, FiniteSets

CONSTANT Limits

VARIABLE input

-----------------------------------------------------------------------------
(* Reading: three answers, of two rows at most. *)

L == INSTANCE Reading

\* A list has three answers, which is as many as there are requests, or more.
ListsAssumption == L!ConstantsAssumption /\ Limits.pages <= 3

Plain(next) == [fault |-> "ok", form |-> "rows", rows |-> <<"wanted">>, next |-> next,
                link |-> "own", cut |-> FALSE]
Full(next) == [Plain(next) EXCEPT !.rows = <<"wanted", "wanted">>]

\* The rows a reader tells apart, and what else its answers may show.
Kinds(reader) ==
    CASE reader = "endpoint" -> {"wanted", "detail", "other", "bad"}
      [] reader = "kube" -> {"wanted", "other"}
      [] reader \in {"roots", "projects", "github"} -> {"wanted", "bad"}
      [] reader = "commits" -> {"wanted", "bad", "again"}
      [] reader \in {"series", "metrics", "groups"} -> {"wanted", "other", "bad"}
      [] reader = "lines" -> {"wanted", "other", "bad", "late", "again"}
      [] reader = "table" -> {"wanted", "bad", "late", "again"}

Given(reader) == {<<>>} \cup {<<r>> : r \in Kinds(reader)}
                 \cup {<<r, q>> : r, q \in Kinds(reader)}
Nexts(reader) ==
    CASE reader \in {"github", "commits", "table"} -> {""}
      [] reader = "endpoint" -> {"", "a", "b", L!Odd}
      [] OTHER -> {"", "a", "b"}
Links(reader) == IF reader \in {"endpoint", "roots"} THEN {"own", "foreign"} ELSE {"own"}
Cuts(reader) ==
    IF reader \in {"endpoint", "series", "table", "github"} THEN BOOLEAN ELSE {FALSE}

Read(reader) ==
    {[fault |-> "ok", form |-> "rows", rows |-> r, next |-> n, link |-> l, cut |-> c] :
        r \in Given(reader), n \in Nexts(reader), l \in Links(reader), c \in Cuts(reader)}
Unread(reader) ==
    {[Plain("") EXCEPT !.rows = <<>>, !.form = f] :
        f \in IF reader = "metrics" THEN {} ELSE {"none", "wrong"}}    \* typed by the SDK
Answers(reader) == Read(reader) \cup Unread(reader) \cup {[Plain("") EXCEPT !.fault = "denied"]}

\* One answer of every kind, at each place among ordinary ones.
Numbered(reader) == reader \in {"github", "commits"}
Some(reader) ==
    IF Numbered(reader) THEN {Plain(""), Full("")} ELSE {Plain(""), Plain("a"), Plain("b")}
More(reader) == IF Numbered(reader) THEN {Full("")} ELSE {Plain("a"), Full("a")}

Lists(reader) ==
    {<<p, q, r>> : p \in Answers(reader), q \in Some(reader), r \in Some(reader)}
    \cup {<<p, q, r>> : p \in More(reader), q \in Answers(reader), r \in Some(reader)}
    \cup {<<p, q, r>> : p \in More(reader), q \in Some(reader), r \in Answers(reader)}

-----------------------------------------------------------------------------
CompleteMeansRead ==
    input.part = "reading" =>
        L!CompleteMeansRead(input.reader, input.answers, input.room, input.alone)

ReadingInit ==
    \E reader \in L!Readers : \E list \in Lists(reader) :
        \E room \in IF reader \in {"lines", "table"} THEN {0, 1, 3} ELSE {0} :
            \E alone \in IF reader \in {"lines", "table"} THEN BOOLEAN ELSE {FALSE} :
                input = [part |-> "reading", reader |-> reader, answers |-> list, room |-> room,
                         alone |-> alone]

-----------------------------------------------------------------------------
(* Measures: what is asked for is two or three things, and the limits fall   *)
(* below, at and above them.                                                 *)

M == INSTANCE Measures

UpTo(S, n) == UNION {[1..k -> S] : k \in 0..n}

-----------------------------------------------------------------------------
Row(index, status, points, uneven) ==
    [index |-> index, status |-> status, points |-> points, uneven |-> uneven]
PlainRow(i) == Row(i, "Complete", <<"good">>, FALSE)
Rows == {Row(i, s, p, FALSE) : i \in {1, 2}, s \in {"Complete", "PartialData", "Forbidden"},
                               p \in UpTo({"good"}, 2) \cup {<<"bad", "good">>}}
        \cup {PlainRow(3), [PlainRow(1) EXCEPT !.uneven = TRUE]}
PageOf(rows, next, fault) == [rows |-> rows, next |-> next, fault |-> fault]

Batches ==
    {[part |-> "batch", pages |-> <<PageOf(<<PlainRow(1), r>>, n, "ok"), p>>, limit |-> l] :
        r \in Rows, n \in {"", "a"}, l \in {2, 3},
        p \in {PageOf(<<q>>, m, "ok") : q \in Rows, m \in {"", "a", "b"}}
             \cup {PageOf(<<>>, "", "denied")}}

Allotments ==
    {[part |-> "allotted", sizes |-> s, answered |-> a, limit |-> l] :
        s \in [1..2 -> 0..2], a \in [1..2 -> 0..2], l \in 0..4}

Registrations ==
    {[part |-> "registered", family |-> f, ops |-> o, records |-> r,
      kinds |-> IF r = 0 THEN {} ELSE k] :
        f \in {"load-balancers"}, o \in UpTo({"complete", "denied"}, 2), r \in 0..2,
        k \in SUBSET {"app", "net"}}

Windows ==
    {[part |-> "window", points |-> p, aggregation |-> a] :
        p \in UNION {[at -> 0..2] : at \in SUBSET (0..5) \ {{}}},
        a \in {"minimum", "maximum", "sum", "latest"}}

-----------------------------------------------------------------------------
Definitions ==
    {[part |-> "definitions", limit |-> l,
      resources |-> <<[fault |-> f, rows |-> r], [fault |-> "ok", rows |-> q]>>] :
        r \in UpTo({"wanted", "other", "odd", "nameless"}, 3),
        q \in UpTo({"wanted", "other", "odd", "nameless"}, 1), f \in {"ok", "denied"}, l \in 1..5}

AzureAnswers ==
    {[form |-> "ok", series |-> s] : s \in UpTo({"good", "empty", "wrong", "long"}, 2)}
    \cup {[form |-> f, series |-> <<>>] : f \in {"missing", "malformed"}}
AzureBatches ==
    {[part |-> "azure", fault |-> f, answers |-> <<a, b>>, limit |-> l] :
        a \in AzureAnswers, b \in AzureAnswers, f \in {"ok", "throttled"}, l \in 1..4}

Details ==
    [fault : {"ok"}, form : {"rows"}, rows : UNION {[S -> 0..2] : S \in SUBSET {1, 2}}]
    \cup [fault : {"ok"}, form : {"wrong"}, rows : {<<>>}]
    \cup [fault : {"denied"}, form : {"rows"}, rows : {<<>>}]
DetailRequests ==
    {[part |-> "details", requested |-> r, room |-> q, answer |-> a] :
        r \in {<<>>, <<1>>, <<1, 2>>, <<2, 1>>}, q \in 0..3, a \in Details}

Backlogs ==
    {[part |-> "demand", states |-> s, answers |-> a, workers |-> w, limit |-> l] :
        s \in {<<"complete">>, <<"denied">>},
        a \in UpTo({"backlog", "none", "negative", "denied", "cancelled"}, 3),
        w \in [1..3 -> BOOLEAN], l \in 0..3}

Stream == [fault : BOOLEAN, selected : BOOLEAN, gone : {FALSE},
           consumers : UpTo({"one", "error"}, 2)]
          \cup {[fault |-> FALSE, selected |-> TRUE, gone |-> TRUE, consumers |-> <<"one">>]}
JetStreams ==
    {[part |-> "streams", streams |-> s, limit |-> l, fits |-> TRUE] :
        s \in UpTo(Stream, 2), l \in {1, 9, 24}}
    \cup {[part |-> "streams", streams |-> <<>>, limit |-> 9, fits |-> FALSE]}

-----------------------------------------------------------------------------
Snapshots ==
    [fault : {"ok"}, urls : UpTo({"u", "v", "w"}, 2),
     routing : {<<>>, <<"complete">>, <<"denied">>}]
    \cup {[fault |-> "timeout", urls |-> <<>>, routing |-> <<>>]}
Edges ==
    {[part |-> "edge", configured |-> c, snapshots |-> <<k, l>>, limit |-> n] :
        c \in {{}, {"u"}}, k \in Snapshots, l \in Snapshots, n \in 1..3}

Changes ==
    UNION {{[part |-> "changes", paths |-> p, manifests |-> m, cut |-> c, limit |-> l] :
                p \in [1..n -> {"unmapped", "outside", "api"}], c \in BOOLEAN, l \in 1..3,
                m \in [1..n -> {"job", "other", "error", "unreadable"}]} : n \in 0..3}

\* What is reported as measured was answered, and all of it.
MeasuresAnswered ==
    LET i == input
    IN  CASE i.part = "batch" -> M!BatchMeasured(2, i.pages, i.limit, 2)
          [] i.part = "allotted" -> M!EveryMetricAnswers(i.sizes, i.answered, i.limit)
          [] i.part = "registered" -> M!RegisteredWhenActive(i.family, i.ops, i.records, i.kinds)
          [] i.part = "window" -> M!WindowSustained(i.points, i.aggregation)
          [] i.part = "definitions" -> M!DiscoveredOrSaid(i.resources, i.limit)
          [] i.part = "azure" -> M!AzureMeasured(i.fault, i.answers, i.limit)
          [] i.part = "details" -> M!DetailsAnswered(i.requested, i.answer, i.room)
          [] i.part = "demand" -> M!DemandKnown(i.states, i.answers, i.workers, i.limit)
          [] i.part = "streams" -> M!StreamsMeasured(i.fits, i.streams, i.limit)
          [] i.part = "edge" -> M!EveryEndpointProbed(i.configured, i.snapshots, i.limit)
          [] i.part = "changes" -> M!ChangeResolved(i.paths, i.manifests, i.cut, i.limit)

MeasuresInit ==
    \/ input \in Batches \/ input \in Allotments \/ input \in Registrations
    \/ input \in Windows \/ input \in Definitions \/ input \in AzureBatches
    \/ input \in DetailRequests \/ input \in Backlogs \/ input \in JetStreams
    \/ input \in Edges \/ input \in Changes

-----------------------------------------------------------------------------
(* The inventory of a service (Reading) decides whether its metrics are      *)
(* collected (Measures): aws_metric_inventory::register.                     *)

ManyRows == [pages |-> 3, assets |-> 6, series |-> 6, queue |-> 2, size |-> 2, window |-> 9]

InventoryPage ==
    [fault : {"ok", "denied"}, form : {"rows"}, rows : {<<>>, <<"wanted">>, <<"wanted", "wanted">>},
     next : {"", "a", "b"}, link : {"own"}, cut : {FALSE}]

InventorySpec == input \in [1..3 -> InventoryPage] /\ [][FALSE]_input

\* "Successful empty inventories suppress unused namespaces; active services require
\* telemetry" (aws_metric_inventory.rs:1): the metrics of a service that has a resource are
\* collected.
ActiveServicesMeasured ==
    \A fetched \in {L!Result("endpoint", input, 0, FALSE)} :
        LET op == IF fetched.outcome = "ok" THEN "complete" ELSE fetched.outcome
        IN  fetched.kept > 0 => M!Registered("sqs", <<op>>, fetched.count, {}) # {}
===============================================================================
