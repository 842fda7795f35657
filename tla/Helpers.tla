--------------------------------- MODULE Helpers --------------------------------
(***************************************************************************)
(* One run of a helper command: a permit of the process budget, a child in *)
(* a process group of its own, its two streams that are read up to a       *)
(* limit, and the ways it ends: its exit, the limit, the deadline, a       *)
(* cancellation, or that the caller drops the future.  A descendant may    *)
(* hold the streams open after the child has gone.                         *)
(***************************************************************************)
EXTENDS Naturals

VARIABLES
    phase,          \* "permit", "running", "ending" or "done"
    permit,
    child,          \* "none", "alive", "exited" or "reaped" (its PID may be used again)
    status,         \* the exit status: "ok" or "failed"
    others,         \* descendants in the group: "none", "quiet" or "holding" the streams
    streams,        \* "open", "closed" or "over" the limit
    killed,         \* what the child was when the group was killed, or "never"
    outcome,
    cancelled, late

vars == <<phase, permit, child, status, others, streams, killed, outcome, cancelled, late>>

Init ==
    /\ phase = "permit" /\ permit = FALSE /\ child = "none" /\ status = "ok" /\ others = "none"
    /\ streams = "open" /\ killed = "never" /\ outcome = "none"
    /\ cancelled = FALSE /\ late = FALSE

-----------------------------------------------------------------------------
(* The world: the child runs, leaves a descendant behind and exits; a      *)
(* cancellation and the deadline.                                          *)

Exit(s) ==
    /\ child = "alive"
    /\ child' = "exited" /\ status' = s
    /\ UNCHANGED <<phase, permit, others, streams, killed, outcome, cancelled, late>>

Fork ==
    /\ child = "alive" /\ others = "none"
    /\ others' = "holding"
    /\ UNCHANGED <<phase, permit, child, status, streams, killed, outcome, cancelled, late>>

Leave ==
    /\ others # "none"
    /\ others' \in IF others = "holding" THEN {"quiet", "none"} ELSE {"none"}
    /\ UNCHANGED <<phase, permit, child, status, streams, killed, outcome, cancelled, late>>

Cancel ==
    /\ ~cancelled /\ cancelled' = TRUE
    /\ UNCHANGED <<phase, permit, child, status, others, streams, killed, outcome, late>>

Late ==
    /\ ~late /\ late' = TRUE
    /\ UNCHANGED <<phase, permit, child, status, others, streams, killed, outcome, cancelled>>

-----------------------------------------------------------------------------
(* run_command. *)

Acquire ==
    /\ phase = "permit"
    /\ \/ /\ phase' = "running" /\ permit' = TRUE /\ child' = "alive"
          /\ UNCHANGED outcome
       \/ /\ phase' = "done" /\ outcome' \in {"unavailable"} \cup (IF cancelled THEN {"cancelled"} ELSE {})
                                              \cup (IF late THEN {"timeout"} ELSE {})
          /\ UNCHANGED <<permit, child>>
    /\ UNCHANGED <<status, others, streams, killed, cancelled, late>>

\* The three parts that are awaited together: either stream, and the child.
Drain ==
    /\ phase = "running" /\ streams = "open"
    /\ \/ streams' = "over"
       \/ child # "alive" /\ others # "holding" /\ streams' = "closed"
    /\ UNCHANGED <<phase, permit, child, status, others, killed, outcome, cancelled, late>>

Wait ==
    /\ phase = "running" /\ child = "exited"
    /\ child' = "reaped"
    /\ UNCHANGED <<phase, permit, status, others, streams, killed, outcome, cancelled, late>>

\* What the three come to, or what is selected instead.
Outcomes ==
    (IF streams = "over" THEN {"limit"} ELSE {})
    \cup (IF streams = "closed" /\ child = "reaped"
          THEN {IF status = "ok" THEN "ok" ELSE "authentication"} ELSE {})
    \cup (IF cancelled THEN {"cancelled"} ELSE {}) \cup (IF late THEN {"timeout"} ELSE {})

\* Group::terminate.
Kill == killed' = child /\ others' = "none" /\ child' = IF child = "alive" THEN "exited" ELSE child

Finish ==
    /\ phase = "running"
    /\ \E o \in Outcomes :
        /\ outcome' = o
        /\ IF o = "ok"
           THEN /\ phase' = "done" /\ permit' = FALSE
                /\ UNCHANGED <<child, others, killed>>
           ELSE /\ phase' = "ending" /\ Kill
                /\ UNCHANGED permit
    /\ UNCHANGED <<status, streams, cancelled, late>>

\* The permit is dropped when the child has been waited for.
Return ==
    /\ phase = "ending"
    /\ phase' = "done" /\ child' = "reaped" /\ permit' = FALSE
    /\ UNCHANGED <<status, others, streams, killed, outcome, cancelled, late>>

\* The caller drops the future: the group is killed, the child is reaped in its own time.
Dropped ==
    /\ phase \in {"running", "ending"}
    /\ IF phase = "running" THEN Kill ELSE UNCHANGED <<killed, others, child>>
    /\ phase' = "done" /\ permit' = FALSE /\ outcome' = "dropped"
    /\ UNCHANGED <<status, streams, cancelled, late>>

Next ==
    \/ \E s \in {"ok", "failed"} : Exit(s)
    \/ Fork \/ Leave \/ Cancel \/ Late \/ Acquire \/ Drain \/ Wait \/ Finish \/ Return \/ Dropped

Spec == Init /\ [][Next]_vars

-----------------------------------------------------------------------------
\* Without its permit nothing of a helper runs any more that could be read from, unless it
\* ended well; a result is what the whole command said (process.rs:140-153).
NothingOutlives ==
    /\ ~permit => child # "alive" /\ others # "holding"
    /\ outcome \notin {"none", "ok"} => others = "none"
    /\ outcome = "ok" => streams = "closed" /\ child = "reaped" /\ status = "ok" /\ killed = "never"

\* "Kill while the group leader is still owned, before its PID can be reused." (process.rs:38)
KilledWhileOwned == killed # "reaped"
===============================================================================
