-------------------------------- MODULE Measures -------------------------------
(***************************************************************************)
(* Measurements that are made of several answers: batches of metrics,      *)
(* metrics found by their definitions, batches of resource details, the    *)
(* demand of queues, JetStream, the endpoints to probe and the workloads a *)
(* change affects.  Each operator is the whole of a function of the code,  *)
(* from the answers to the operations it reports and what it keeps.        *)
(*                                                                         *)
(* Operations are sequences of coverages, and counts stand for what is     *)
(* kept.                                                                   *)
(***************************************************************************)
EXTENDS Integers, Sequences, FiniteSets, SequencesExt, FiniteSetsExt

Complete(ops) == \A i \in DOMAIN ops : ops[i] = "complete"
Lesser(m, n) == IF m < n THEN m ELSE n
Count(seq, x) == Cardinality({i \in DOMAIN seq : seq[i] = x})

-----------------------------------------------------------------------------
(* CloudWatch: aws_metric_batch, aws_metrics, aws_metric_inventory. *)

Sticky == {"truncated", "malformed", "denied", "unavailable"}

StatusCoverage(status) ==
    CASE status = "Complete" -> "complete" [] status = "Forbidden" -> "denied"
      [] status = "InternalError" -> "unavailable" [] status = "PartialData" -> "missing"
      [] OTHER -> "malformed"

\* Series::record.  What an earlier page spoiled stays so; partial data may be completed.
Record(series, row, limit) ==
    LET said == IF series.coverage \in Sticky THEN series.coverage ELSE StatusCoverage(row.status)
        begun == [coverage |-> IF row.uneven THEN "malformed" ELSE said, points |-> series.points,
                  over |-> FALSE]
        Point(s, p) ==
            IF s.over THEN s
            ELSE IF s.points >= limit THEN [s EXCEPT !.coverage = "truncated", !.over = TRUE]
            ELSE IF p = "bad" THEN [s EXCEPT !.coverage = "malformed"]
            ELSE [s EXCEPT !.points = @ + 1]
        t == FoldLeft(Point, begun, row.points)
    IN  [coverage |-> t.coverage, points |-> t.points]

\* collect: n metrics are asked for together, a page after another.
Batch(n, pages, limit, maxPages) ==
    LET Row(b, row) ==
            IF row.index \in 1..n
            THEN [b EXCEPT !.series[row.index] = Record(@, row, limit)]
            ELSE [b EXCEPT !.odd = TRUE]
        Page(b, p) ==
            IF b.over THEN b
            ELSE IF p.fault # "ok" THEN [b EXCEPT !.fault = p.fault, !.over = TRUE, !.pages = @ + 1]
            ELSE LET t == [FoldLeft(Row, b, p.rows) EXCEPT !.pages = @ + 1]
                 IN  IF p.next = "" THEN [t EXCEPT !.over = TRUE]
                     ELSE IF \/ p.next = t.token \/ t.pages = maxPages
                             \/ \A i \in 1..n : t.series[i].coverage = "truncated"
                     THEN [t EXCEPT !.fault = "truncated", !.over = TRUE]
                     ELSE [t EXCEPT !.token = p.next]
    IN  FoldLeft(Page, [series |-> [i \in 1..n |-> [coverage |-> "missing", points |-> 0]],
                        pages |-> 0, token |-> "", fault |-> "ok", odd |-> FALSE, over |-> FALSE],
                 pages)

\* The operation of a metric: an error of the batch is an error of each; a series without
\* points is missing.  Mutant: a metric that answered before the batch failed is complete.
MeasuredEarly(b, i) ==
    IF b.series[i].coverage = "complete" /\ b.series[i].points = 0 THEN "missing"
    ELSE b.series[i].coverage

Measured(b, i) ==
    IF b.fault # "ok" THEN b.fault
    ELSE IF b.series[i].coverage = "complete" /\ b.series[i].points = 0 THEN "missing"
    ELSE b.series[i].coverage

\* A metric is complete if the batch was read to its end, and everything that was said of it
\* is good and was kept.
BatchMeasured(n, pages, limit, maxPages) ==
    LET b == Batch(n, pages, limit, maxPages)
        read == SubSeq(pages, 1, b.pages)
        rows == FlattenSeq([p \in DOMAIN read |-> read[p].rows])
    IN  \A i \in 1..n : Measured(b, i) = "complete" =>
            LET own == SelectSeq(rows, LAMBDA r : r.index = i)
            IN  /\ own # <<>> /\ Last(own).status = "Complete" /\ Last(read).next = ""
                /\ \A k \in DOMAIN own : ~own[k].uneven /\ Count(own[k].points, "bad") = 0
                /\ b.series[i].points = FoldLeft(LAMBDA s, r : s + Len(r.points), 0, own)

\* with_namespaces: the metrics of every region in batches, while max_series has room; each
\* answers with some of what it was asked, and has an operation.
Allotted(sizes, answered, maxSeries) ==
    LET Take(s, k) ==
            LET take == Lesser(maxSeries - s.kept, sizes[k])
                got == Lesser(take, answered[k])
            IN  [kept |-> s.kept + got, asked |-> s.asked + take,
                 limited |-> s.limited + sizes[k] - take]
    IN  FoldLeft(Take, [kept |-> 0, asked |-> 0, limited |-> 0], [k \in DOMAIN sizes |-> k])

EveryMetricAnswers(sizes, answered, maxSeries) ==
    LET s == Allotted(sizes, answered, maxSeries)
    IN  /\ s.kept <= maxSeries
        /\ s.asked + s.limited = FoldLeft(LAMBDA n, k : n + k, 0, sizes)
        /\ s.limited > 0 => \E k \in DOMAIN sizes : sizes[k] > 0 /\ maxSeries - s.kept < sizes[k]

\* register_endpoint: the namespaces of a service whose inventory is complete and empty are
\* not measured; of load balancers, only those of the kinds there are.
Registered(family, ops, records, kinds) ==
    IF Complete(ops) /\ records = 0 THEN {}
    ELSE IF family # "load-balancers" THEN {family}
    ELSE IF Complete(ops) /\ kinds # {} THEN kinds ELSE {"app", "net"}

RegisteredWhenActive(family, ops, records, kinds) ==
    \A k \in kinds :
        (Complete(ops) /\ records = 0) \/ k \in Registered(family, ops, records, kinds)

-----------------------------------------------------------------------------
(* The window of a metric: metric_window::project.  Points are a function  *)
(* from the minutes that have one to its value.                            *)

Projected(points, aggregation) ==
    LET at == DOMAIN points
        values == {points[t] : t \in at}
        continuous == \A t \in at : t = Max(at) \/ \E u \in at : t < u /\ u <= t + 2
    IN  [observed |-> Max(at),
         value |-> CASE aggregation = "minimum" -> Min(values)
                     [] aggregation = "maximum" -> Max(values)
                     [] aggregation = "sum" -> MapThenSumSet(LAMBDA t : points[t], at)
                     [] aggregation = "latest" -> points[Max(at)],
         window |-> IF continuous /\ aggregation = "minimum" THEN Max(at) - Min(at) ELSE 0]

\* A window says that the value was reached all along it, with no gap beyond two minutes.
WindowSustained(points, aggregation) ==
    LET m == Projected(points, aggregation)
    IN  m.window > 0 =>
            \A t \in m.observed - m.window .. m.observed :
                \E u \in DOMAIN points \cap (t - 1 .. t + 1) : points[u] >= m.value

-----------------------------------------------------------------------------
(* Azure: metric definitions and batches. *)

\* definitions: a name that cannot be asked for is malformed, a metric without an aggregation
\* is left out.
Definitions(rows, limit) ==
    LET Row(s, r) ==
            IF s.over \/ r = "other" THEN s
            ELSE IF r = "nameless" THEN [s EXCEPT !.outcome = "malformed", !.over = TRUE]
            ELSE IF s.found >= limit THEN [s EXCEPT !.outcome = "truncated", !.over = TRUE]
            ELSE IF r = "odd" THEN [s EXCEPT !.outcome = "malformed", !.over = TRUE]
            ELSE IF r = "unknown" THEN s ELSE [s EXCEPT !.found = @ + 1]
    IN  FoldLeft(Row, [found |-> 0, outcome |-> "complete", over |-> FALSE], rows)

\* discover, after the listing of the resources: the definitions of each in turn, with its part
\* of max_series.
Discovered(resources, maxSeries) ==
    LET share == Lesser(32, Max({1, maxSeries \div Max({1, Len(resources)})}))
        Group(s, k) ==
            IF s.over THEN s
            ELSE IF s.queries >= maxSeries \/ k > maxSeries
            THEN [s EXCEPT !.ops = Append(@, "truncated"), !.over = TRUE]
            ELSE LET d == Definitions(resources[k].rows, Lesser(share, maxSeries - s.queries))
                     fault == resources[k].fault
                     kept == IF fault = "ok" /\ d.outcome # "malformed" THEN d.found ELSE 0
                 IN  [s EXCEPT !.queries = @ + kept,
                               !.ops = Append(@, IF fault # "ok" THEN fault
                                                 ELSE IF d.outcome = "complete" /\ d.found = 0
                                                 THEN "missing" ELSE d.outcome)]
    IN  FoldLeft(Group, [queries |-> 0, ops |-> <<>>, over |-> FALSE],
                 [k \in DOMAIN resources |-> k])

DiscoveredOrSaid(resources, maxSeries) ==
    LET s == Discovered(resources, maxSeries)
    IN  /\ s.queries <= maxSeries
        /\ Complete(s.ops) =>
            s.queries = FoldLeft(LAMBDA n, r : n + Count(r.rows, "wanted"), 0, resources)

\* project: the series of one metric of a batch, so many at most.
AzureSeries(answer, limit) ==
    LET Series(s, d) ==
            IF s.over THEN s
            ELSE IF d = "wrong" THEN [s EXCEPT !.outcome = "malformed", !.over = TRUE]
            ELSE IF d = "long" THEN [s EXCEPT !.outcome = "truncated", !.over = TRUE]
            ELSE IF d = "empty" THEN [s EXCEPT !.missing = TRUE] ELSE [s EXCEPT !.kept = @ + 1]
        begun == [kept |-> 0, missing |-> FALSE, outcome |-> "complete", over |-> FALSE]
        t == FoldLeft(Series, begun, SubSeq(answer.series, 1, Lesser(limit, Len(answer.series))))
    IN  IF answer.form # "ok" THEN [kept |-> 0, outcome |-> answer.form]
        ELSE [kept |-> t.kept, outcome |->
                IF t.over THEN t.outcome ELSE IF Len(answer.series) > limit THEN "truncated"
                ELSE IF t.kept = 0 \/ t.missing THEN "missing" ELSE "complete"]

\* collect_from: metrics of one resource are asked for together; what they keep counts
\* against max_series.
AzureBatch(fault, answers, maxSeries) ==
    LET Query(s, a) ==
            LET p == AzureSeries(a, maxSeries - s.kept)
            IN  [kept |-> s.kept + p.kept, ops |-> Append(s.ops, p.outcome)]
    IN  IF fault # "ok" THEN [kept |-> 0, ops |-> [k \in DOMAIN answers |-> fault]]
        ELSE FoldLeft(Query, [kept |-> 0, ops |-> <<>>], answers)

AzureMeasured(fault, answers, maxSeries) ==
    LET s == AzureBatch(fault, answers, maxSeries)
    IN  /\ s.kept <= maxSeries /\ Len(s.ops) = Len(answers)
        /\ Complete(s.ops) => s.kept = FoldLeft(LAMBDA n, a : n + Len(a.series), 0, answers)

-----------------------------------------------------------------------------
(* Details of resources in batches: aws_batches::fetch. *)

\* Each resource that was asked for has an outcome of its own; a row is found by the
\* resource's name, and asks for further details while the queue has room.
Detail(answer, id, room) ==
    IF answer.fault # "ok" THEN answer.fault
    ELSE IF id \in DOMAIN answer.rows
         THEN IF answer.rows[id] <= room THEN "complete" ELSE "truncated"
    ELSE IF answer.form = "wrong" THEN "malformed" ELSE "missing"

Details(requested, answer, queue) ==
    LET One(s, id) ==
            LET found == answer.fault = "ok" /\ id \in DOMAIN answer.rows
                asks == IF found THEN answer.rows[id] ELSE 0
            IN  [ops |-> Append(s.ops, Detail(answer, id, queue - s.queued)),
                 queued |-> Lesser(queue, s.queued + asks)]
    IN  IF requested = <<>> THEN [ops |-> <<"malformed">>, queued |-> 0]
        ELSE FoldLeft(One, [ops |-> <<>>, queued |-> 0], requested)

DetailsAnswered(requested, answer, queue) ==
    LET s == Details(requested, answer, queue)
    IN  Complete(s.ops) =>
            /\ requested # <<>> /\ ToSet(requested) \subseteq DOMAIN answer.rows
            /\ s.queued = FoldLeft(LAMBDA n, id : n + answer.rows[id], 0, requested)

-----------------------------------------------------------------------------
(* The demand of queues: queues::collect and demand. *)

\* A backlog is a number that is not negative; without the worker's state it is a metric.
Demand(answer, worker) ==
    CASE answer = "cancelled" -> [op |-> "cancelled", data |-> "none"]
      [] answer = "denied" -> [op |-> "denied", data |-> "none"]
      [] answer \in {"none", "negative"} -> [op |-> "malformed", data |-> "none"]
      [] ~worker -> [op |-> "missing", data |-> "metric"]
      [] OTHER -> [op |-> "complete", data |-> "queue"]

\* After the operations of the workloads' inventory.
Demands(states, answers, workers, room) ==
    LET One(s, k) ==
            LET d == Demand(answers[k], workers[k])
                fits == d.data = "none" \/ s.kept < room
            IN  [kept |-> s.kept + (IF fits /\ d.data # "none" THEN 1 ELSE 0),
                 limited |-> s.limited \/ ~fits,
                 ops |-> Append(s.ops, IF ~fits /\ d.op = "complete" THEN "truncated" ELSE d.op)]
        begun == [kept |-> 0, limited |-> FALSE, ops |-> states]
        t == FoldLeft(One, begun, [k \in DOMAIN answers |-> k])
    IN  IF answers = <<>> THEN [t EXCEPT !.ops = Append(@, "unavailable")]
        ELSE IF t.limited THEN [t EXCEPT !.ops = Append(@, "truncated")] ELSE t

DemandKnown(states, answers, workers, room) ==
    LET s == Demands(states, answers, workers, room)
    IN  Complete(s.ops) => /\ Complete(states) /\ answers # <<>> /\ s.kept = Len(answers)
                           /\ \A k \in DOMAIN answers : answers[k] = "backlog" /\ workers[k]

-----------------------------------------------------------------------------
(* JetStream: nats_collect::collect.  A stream keeps two observations and  *)
(* a consumer five; nothing is kept of a stream that is not selected.  A   *)
(* cancellation is left out: what is collected then is not used.           *)

Consumers(s, stream, maxSeries) ==
    LET One(q, c) ==
            IF q.stop THEN q
            ELSE IF c = "error" \/ q.kept + 5 > maxSeries
            THEN [q EXCEPT !.stop = TRUE,
                           !.ops = Append(@, IF c = "error" THEN "unavailable" ELSE "truncated")]
            ELSE [q EXCEPT !.kept = @ + 5, !.ops = Append(@, "complete")]
    IN  [FoldLeft(One, s, stream.consumers) EXCEPT !.stop = FALSE]

\* A server whose messages may be larger than an answer is not read.
Streams(fits, streams, maxSeries) ==
    LET One(s, stream) ==
            IF s.over THEN s
            ELSE IF stream.fault THEN [s EXCEPT !.ops = Append(@, "unavailable"), !.over = TRUE]
            ELSE IF ~stream.selected THEN s
            ELSE IF s.kept + 2 > maxSeries
            THEN [s EXCEPT !.ops = Append(@, "truncated"), !.over = TRUE]
            ELSE LET t == [s EXCEPT !.kept = @ + 2, !.ops = Append(@, "complete")]
                 IN  IF stream.gone THEN [t EXCEPT !.ops = Append(@, "unavailable")]
                     ELSE Consumers(t, stream, maxSeries)
        t == FoldLeft(One, [kept |-> 0, ops |-> <<>>, stop |-> FALSE, over |-> FALSE], streams)
    IN  IF ~fits THEN [t EXCEPT !.kept = 0, !.ops = <<"truncated">>]
        ELSE IF t.ops = <<>> THEN [t EXCEPT !.ops = <<"complete">>] ELSE t

StreamsMeasured(fits, streams, maxSeries) ==
    LET s == Streams(fits, streams, maxSeries)
        selected == SelectSeq(streams, LAMBDA x : x.selected)
    IN  /\ s.kept <= maxSeries
        /\ Complete(s.ops) =>
            s.kept = FoldLeft(LAMBDA n, x : n + 2 + 5 * Len(x.consumers), 0, selected)

-----------------------------------------------------------------------------
(* Endpoints to probe (routing_edge) and workloads a change affects.       *)

\* append, for the snapshots of the cluster and of the cloud: an endpoint that is known is
\* not added again, and operations that do not route are left out.
Advertised(configured, snapshots, max) ==
    LET Url(s, u) ==
            IF s.full \/ u \in s.urls THEN s
            ELSE IF Cardinality(s.urls) >= max
            THEN [s EXCEPT !.ops = Append(@, "truncated"), !.full = TRUE]
            ELSE [s EXCEPT !.urls = @ \cup {u}]
        Snapshot(s, p) ==
            IF p.fault # "ok" THEN [s EXCEPT !.ops = Append(@, p.fault)]
            ELSE LET t == FoldLeft(Url, s, p.urls)
                 IN  [t EXCEPT !.ops = @ \o p.routing, !.full = FALSE]
        t == FoldLeft(Snapshot, [urls |-> configured, ops |-> <<>>, full |-> FALSE], snapshots)
    IN  [urls |-> t.urls, ops |-> Append(t.ops, IF t.urls = {} THEN "missing" ELSE "complete")]

EveryEndpointProbed(configured, snapshots, max) ==
    LET s == Advertised(configured, snapshots, max)
    IN  Complete(s.ops) =>
            s.urls = configured \cup UNION {ToSet(snapshots[k].urls) : k \in DOMAIN snapshots}

\* affected and collect of changes.rs: a path of the scope is a workload by its mapping (that of
\* the longest prefix), or by the manifest it is; the provider lists 300 files at most, and
\* max_series paths without a mapping are asked for.
Affected(paths, manifests, cut, maxSeries) ==
    LET rest == {p \in DOMAIN paths : paths[p] = "unmapped"}
        mapped == {p \in DOMAIN paths \ rest : paths[p] # "outside"}
        asked == {p \in rest : Cardinality({q \in rest : q <= p}) <= maxSeries}
        found == {p \in asked : manifests[p] \notin {"other", "error", "unreadable"}}
    IN  [workloads |-> {paths[p] : p \in mapped} \cup {manifests[p] : p \in found},
         outcome |-> IF cut \/ found # asked THEN "truncated" ELSE "complete"]

\* Paths beyond max_series are left out without a word; all others are resolved, or the
\* operation says so.
ChangeResolved(paths, manifests, cut, maxSeries) ==
    LET s == Affected(paths, manifests, cut, maxSeries)
        rest == {p \in DOMAIN paths : paths[p] = "unmapped"}
    IN  s.outcome = "complete" /\ Cardinality(rest) <= maxSeries =>
            /\ ~cut
            /\ \A p \in DOMAIN paths : paths[p] # "outside" =>
                (IF p \in rest THEN manifests[p] ELSE paths[p]) \in s.workloads
===============================================================================
