------------------------------ MODULE Episodes ------------------------------
(***************************************************************************)
(* What the transitions of a finding promise whoever reads them (the event *)
(* stream, the dashboard, the journal): read in order they tell the        *)
(* finding's story.  An episode opens with "new" the first time and with   *)
(* "reappeared" after a remembered end or after staleness; it closes with  *)
(* exactly one of "recovered" and "removed"; nothing closes without saying *)
(* so unless the operator changed what is observed.                        *)
(***************************************************************************)
CONSTANTS Id, None

VARIABLES
    phase,      \* where each finding is in its story
    emitted     \* the transition the last step announced for it, or None

Phase == {"absent", "open", "stale", "retired"}
vars == <<phase, emitted>>

\* One finding's step: from phase p, announcing k, to phase q.
Allowed(p, k, q) ==
    \/ k = None /\ q = p
    \/ k = None /\ p = "stale" /\ q = "open"        \* seen again, healthy
    \/ k = None /\ p = "retired" /\ q = "absent"    \* forgotten
    \/ k = "new" /\ p = "absent" /\ q = "open"
    \/ k = "reappeared" /\ p \in {"retired", "stale"} /\ q = "open"
    \/ k = "worsened" /\ p = "open" /\ q = "open"
    \/ k = "stale" /\ p = "open" /\ q = "stale"
    \/ /\ k \in {"recovered", "removed"}
       /\ p \in {"open", "stale"}
       /\ q \in {"retired", "absent"}

Init ==
    /\ phase = [id \in Id |-> "absent"]
    /\ emitted = [id \in Id |-> None]

Report ==
    /\ phase' \in [Id -> Phase]
    /\ DOMAIN emitted' = Id
    /\ \A id \in Id : Allowed(phase[id], emitted'[id], phase'[id])

Rescope ==
    /\ phase' \in [Id -> Phase]
    /\ \A id \in Id : phase'[id] \in {phase[id], "absent"}
    /\ emitted' = [id \in Id |-> None]

Next == Report \/ Rescope

Spec == Init /\ [][Next]_vars
=============================================================================
