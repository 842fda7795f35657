------------------------------ MODULE Evidence ------------------------------
(***************************************************************************)
(* What the evidence directory promises a reader: monitor-latest.json      *)
(* moves only forward, and by the time a transition shows in it the        *)
(* transition is in an events file or is counted as dropped.               *)
(***************************************************************************)
CONSTANTS Event, None

VARIABLES
    marker,     \* the latest snapshot, None before the first publication
    recorded    \* the transitions in events files

vars == <<marker, recorded>>

Reflects(m) == IF m = None THEN {} ELSE m.reflects

Init ==
    /\ Reflects(marker) = {}
    /\ recorded = {}

Record ==
    /\ recorded' \in SUBSET Event
    /\ recorded \subseteq recorded'
    /\ UNCHANGED marker

Mark ==
    /\ marker' # None
    /\ Reflects(marker) \subseteq Reflects(marker')
    /\ Reflects(marker') \subseteq recorded \cup marker'.dropped
    /\ UNCHANGED recorded

Next == Record \/ Mark

Spec == Init /\ [][Next]_vars
=============================================================================
