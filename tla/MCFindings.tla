----------------------------- MODULE MCFindings -----------------------------
(* Instances of Findings for TLC. *)
EXTENDS Findings, TLC

CONSTANTS
    o1,     \* the one listing every job runs
    k1,     \* a job with removal authority
    k2      \* a second check that shares its listing

OneOp == [r \in Resource |-> o1]
OneOpEach == [j \in Job |-> {o1}]

ConfigOf(jobs, assess, rs, n) ==
    [selected |-> jobs, assessed |-> assess, observes |-> [j \in Job |-> 0],
     scope |-> rs, limit |-> n]

\* A limit below the number of faults there can be.
TightConfig == {ConfigOf(Job, Job, Resource, 1)}

\* A reload that deselects one of two checks, or selects it again.
Reloads == LET base == ConfigOf(Job, Job, Resource, 1)
           IN  {base, [base EXCEPT !.selected = {k1}, !.assessed = {k1}]}

\* Reloads of a single check: no findings, no health, no resource, another scope.
Replacements == LET base == ConfigOf(Job, Job, Resource, 1)
                IN  {base, [base EXCEPT !.limit = 0], [base EXCEPT !.assessed = {}],
                     [base EXCEPT !.scope = {}], [base EXCEPT !.observes = [j \in Job |-> 1]]}

Symmetry == Permutations(Resource) \cup Permutations(Job)
=============================================================================
