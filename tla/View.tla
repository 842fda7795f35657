--------------------------------- MODULE View ---------------------------------
(***************************************************************************)
(* What the dashboard is shown of one snapshot (server: build_view,        *)
(* build_resources, resource_evidence, overview, problem_groups,           *)
(* resource_rows, view): the resources with the evidence of every check,   *)
(* the health of a target, and summaries of findings.  All of it is a      *)
(* function of the snapshot and of the time at which it is looked at.      *)
(***************************************************************************)
EXTENDS Naturals, FiniteSets, FiniteSetsExt

CONSTANT None

VARIABLE input

Jobs == input.jobs                 \* key -> [target, check, freshness, ...], in effect
Results == input.results           \* key -> its published result, or None
Findings == input.findings
Now == input.now

-----------------------------------------------------------------------------
(* Resources. *)

\* Owners and scalers are links between resources and no evidence of their own.
Observed == UNION {{<<j, o>> : o \in {x \in Results[j].observations : x.kind # "owner"}} :
                      j \in {k \in DOMAIN Jobs : Results[k] # None}}

\* The evidence of one check, operation and kind of data; the word of a registry has its own end.
Evidence(j, o) ==
    [check |-> Jobs[j].check, operation |-> o.operation, kind |-> o.kind, at |-> o.at,
     expires |-> Min({o.at + Jobs[j].freshness} \cup (IF o.until = None THEN {} ELSE {o.until}))]

SameSource(e, f) == e.check = f.check /\ e.operation = f.operation /\ e.kind = f.kind

\* attach: an observation replaces an older one of the same source only.
Attached(rows) == {e \in rows : \A f \in rows : SameSource(e, f) => f.at <= e.at}

Row(r) ==
    LET own == {x \in Observed : x[2].resource = r}
        rows == {Evidence(x[1], x[2]) : x \in own}
        newest == CHOOSE e \in rows : \A f \in rows : f.at <= e.at
    IN  [id |-> r, target |-> Jobs[(CHOOSE x \in own : TRUE)[1]].target,
         health |-> IF r \in DOMAIN input.health THEN input.health[r] ELSE "unknown",
         at |-> newest.at, expires |-> newest.expires, evidence |-> Attached(rows)]

\* A finding can outlive the listing that held its resource.
Carriers(f) == {j \in DOMAIN Jobs : Jobs[j].check = f.check /\ Jobs[j].target = f.target}
Absent(f) ==
    /\ f.diagnosed /\ Carriers(f) # {}
    /\ f.resource \notin {x[2].resource : x \in Observed}
AbsentRow(f) ==
    LET job == Jobs[CHOOSE j \in Carriers(f) : TRUE]
        e == [check |-> f.check, operation |-> "triggered", kind |-> "state", at |-> f.last,
              expires |-> f.last + job.freshness]
    IN  [id |-> f.resource, target |-> f.target, health |-> "unknown", at |-> e.at,
         expires |-> e.expires, evidence |-> {e}]

Resources ==
    {Row(r) : r \in {x[2].resource : x \in Observed}}
    \cup {AbsentRow(CHOOSE f \in Findings : f.resource = r /\ Absent(f)) :
              r \in {f.resource : f \in {g \in Findings : Absent(g)}}}

\* current_health.
CurrentHealth(row) == IF Now > row.expires THEN "unknown" ELSE row.health

-----------------------------------------------------------------------------
(* Targets. *)

\* build_view and overview: a check is as complete as its result, while that is fresh.
Complete(j) ==
    Results[j] # None /\ Results[j].complete /\ Now <= Results[j].finished + Jobs[j].freshness

Count(t, severity) == Cardinality({f \in Findings : f.target = t /\ f.severity = severity})

HealthOf(t) ==
    LET own == {j \in DOMAIN Jobs : Jobs[j].target = t}
        shown == {CurrentHealth(r) : r \in {x \in Resources : x.target = t}}
    IN  IF Count(t, 3) > 0 \/ "unhealthy" \in shown THEN "unhealthy"
        ELSE IF Count(t, 2) > 0 \/ "degraded" \in shown THEN "degraded"
        ELSE IF own = {} \/ shown = {} \/ "unknown" \in shown \/ \E j \in own : ~Complete(j)
             THEN "unknown"
        ELSE IF shown = {"inactive"} THEN "inactive" ELSE "healthy"

-----------------------------------------------------------------------------
(* Summaries of findings. *)

Stale(f) == f.stale \/ (f.until # None /\ Now > f.until)

\* problem_groups::groups: the worst five, and how many there are.
Groups == {<<f.target, f.rule>> : f \in Findings}
Members(g) == {f \in Findings : f.target = g[1] /\ f.rule = g[2]}
Severity(g) == Max({f.severity : f \in Members(g)})
Width(g) == Cardinality({f.resource : f \in Members(g)})
Group(g) ==
    [severity |-> Severity(g), resources |-> Width(g), findings |-> Cardinality(Members(g)),
     first |-> IF \E f \in Members(g) : f.first = None THEN None
               ELSE Min({f.first : f \in Members(g)}),
     last |-> Max({f.last : f \in Members(g)}), stale |-> \E f \in Members(g) : Stale(f)]
Worse(g, h) ==
    \/ Severity(g) > Severity(h)
    \/ Severity(g) = Severity(h) /\ Width(g) > Width(h)
\* The worst n of a set, those that are alike in any order.
Worst(n, set, Before(_, _)) ==
    CHOOSE top \in kSubset(Min({n, Cardinality(set)}), set) :
        \A x \in top, y \in set \ top : ~Before(y, x)
Problems == Worst(5, Groups, Worse)

\* resource_rows::with_findings: of those that come one after the other the two worst are kept.
Preview(rows, f) == Worst(2, rows \cup {f}, LAMBDA g, h : g.severity > h.severity)
Previews(r) == FoldSet(LAMBDA f, rows : Preview(rows, f), {}, {f \in Findings : f.resource = r})
Counted(r) == Cardinality({f \in Findings : f.resource = r})

-----------------------------------------------------------------------------
\* "Overview health is computed independently of coverage and database availability"
\* (overview.rs:1), and yet a target is called well only on evidence: each of its checks has
\* completed and not yet expired, of each of its resources something was seen that is still
\* valid, and no error or warning is known of it.
WellIsKnown ==
    \A t \in {Jobs[j].target : j \in DOMAIN Jobs} : HealthOf(t) \in {"healthy", "inactive"} =>
        /\ \A j \in DOMAIN Jobs : Jobs[j].target = t =>
              /\ Results[j] # None /\ Results[j].complete
              /\ Now <= Results[j].finished + Jobs[j].freshness
        /\ \A x \in Observed : Jobs[x[1]].target = t =>
              /\ x[2].resource \in DOMAIN input.health
              /\ input.health[x[2].resource] \in {"healthy", "inactive"}
              /\ \E y \in Observed : /\ y[2].resource = x[2].resource
                                     /\ Now <= Evidence(y[1], y[2]).expires
        /\ \A f \in Findings : f.target = t => f.severity = 1

\* A resource keeps the newest word of every check and operation that saw it, even when another
\* has seen it since ("even if a different source is newer", resource_evidence.rs:91), and a
\* finding whose resource is in no listing any more still has a row to be found at.
NothingOverlooked ==
    /\ \A x \in Observed : \E row \in Resources : /\ row.id = x[2].resource
            /\ \E e \in row.evidence : SameSource(e, Evidence(x[1], x[2])) /\ e.at >= x[2].at
    /\ \A f \in Findings : f.diagnosed /\ Carriers(f) # {} =>
            \E row \in Resources : row.id = f.resource
    /\ \A row, other \in Resources : row.id = other.id => row = other

\* What is left out of a summary is never worse than what is in it, and it is counted.
WorstIsShown ==
    /\ \A g \in Groups \ Problems : Cardinality(Problems) = 5 /\ \A h \in Problems : ~Worse(g, h)
    /\ \A f \in Findings :
          /\ f \notin Previews(f.resource) =>
                /\ Counted(f.resource) > 2
                /\ \A p \in Previews(f.resource) : p.severity >= f.severity
          /\ LET g == Group(<<f.target, f.rule>>)
             IN  g.severity >= f.severity /\ g.findings >= 1 /\ (Stale(f) => g.stale)
===============================================================================
