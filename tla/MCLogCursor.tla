---------------------------- MODULE MCLogCursor ----------------------------
(* Instances of LogCursor for TLC. *)
EXTENDS LogCursor, TLC

CONSTANTS errors, runtime, r1, r2, r3

\* The windows of the two kinds differ in length.
Spans == [w \in Window |-> IF w = errors THEN 1 ELSE 2]

\* One configuration changes what the job observes, another something else.
Jobs == [rev \in Revision |-> IF rev = r3 THEN 1 ELSE 0]

\* r1 and r2 make the same of the log check and are not told apart.
Alike == Permutations({r1, r2})
=============================================================================
