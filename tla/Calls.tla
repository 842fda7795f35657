---------------------------------- MODULE Calls ---------------------------------
(***************************************************************************)
(* One call of a provider's API and its attempts: through the transport    *)
(* ("http") or through the session of a cluster ("kube").  An attempt      *)
(* takes a permit of the admission budget, an answer that may pass is      *)
(* asked for again after a pause, and the whole ends at a deadline.  Time  *)
(* passes only while no timer is due.                                      *)
(***************************************************************************)
EXTENDS Integers, Sequences, SequencesExt

CONSTANTS
    Attempts, AttemptTime, OperationTime,   \* settings.attempts and the two timeouts
    Cooldown                                \* the seconds of Retry-After

ConstantsAssumption ==
    /\ Attempts \in Nat \ {0} /\ AttemptTime \in Nat
    /\ OperationTime \in Nat /\ Cooldown \in Nat

VARIABLES
    style, attempt, time, since,    \* since: when this phase began
    phase,                          \* "permit", "sent", "cooldown", "pause" or "done"
    permit, answers, outcome, cancelled

vars == <<style, attempt, time, since, phase, permit, answers, outcome, cancelled>>

\* Error::retryable.
Retryable == {"unavailable", "throttled", "timeout"}

\* What an attempt may get: a body, one beyond response_bytes or that is no JSON, and refusals
\* with a status and a code in their body.
Answer ==
    [body : {"ok", "limit", "malformed", "unavailable"}]
    \cup [status : {401, 403, 404, 429, 500, 418},
          code : {"", "expired", "denied", "throttling", "unsupported"}]

\* status.
Status(status) ==
    CASE status = 401 -> "authentication" [] status = 403 -> "denied" [] status = 429 -> "throttled"
      [] status \in {404, 410, 501} \cup 500..599 -> "unavailable"
      [] OTHER -> "malformed"

\* response_error: the code in the body decides before the status does, except that a 429 is
\* not read; the session reads no body of a refusal.
Refusal(a) ==
    IF a.status = 429 \/ style = "kube" THEN Status(a.status)
    ELSE CASE a.code = "expired" -> "authentication" [] a.code = "denied" -> "denied"
           [] a.code = "throttling" -> "throttled" [] a.code = "unsupported" -> "unavailable"
           [] OTHER -> Status(a.status)

Meaning(a) == IF "body" \in DOMAIN a THEN a.body ELSE Refusal(a)

-----------------------------------------------------------------------------
Init ==
    /\ style \in {"http", "kube"} /\ attempt = 0 /\ time = 0 /\ since = 0 /\ phase = "permit"
    /\ permit = FALSE /\ answers = <<>> /\ outcome = "none" /\ cancelled = FALSE

Done(o) ==
    /\ phase' = "done" /\ outcome' = o /\ permit' = FALSE
    /\ UNCHANGED <<style, attempt, time, since, answers, cancelled>>

\* 200 ms, doubled each time; the transport's pause ends with the operation.
Backoff == 2 ^ attempt
Pause ==
    IF style = "http" /\ since + Backoff > OperationTime THEN OperationTime - since ELSE Backoff

\* An error ends the call or an attempt.  Mutant: every error is worth another attempt.
AgainAlways(error) == attempt + 1 < Attempts

Again(error) == error \in Retryable /\ attempt + 1 < Attempts

Ends(o) ==
    IF Again(o)
    THEN /\ phase' = "pause" /\ since' = time /\ permit' = FALSE
         /\ UNCHANGED <<style, attempt, time, outcome, cancelled>>
    ELSE /\ phase' = "done" /\ outcome' = o /\ permit' = FALSE
         /\ UNCHANGED <<style, attempt, time, since, cancelled>>

\* admission::acquire, whose budget may be exhausted for as long as it takes.
Acquire ==
    /\ phase = "permit"
    /\ phase' = "sent" /\ permit' = TRUE
    /\ since' = IF style = "http" THEN time ELSE since
    /\ UNCHANGED <<style, attempt, time, answers, outcome, cancelled>>

\* The transport waits out a 429 that has Retry-After, without its permit, and only then calls
\* it an error.
Answered(a, retryAfter) ==
    /\ phase = "sent"
    /\ answers' = Append(answers, Meaning(a))
    /\ IF "status" \in DOMAIN a /\ a.status = 429 /\ retryAfter /\ style = "http"
       THEN /\ phase' = "cooldown" /\ since' = time /\ permit' = FALSE
            /\ UNCHANGED <<style, attempt, time, outcome, cancelled>>
       ELSE Ends(Meaning(a))

\* The attempt's own timeout: the transport's counts from when it is sent, the session's from
\* when it asked for the permit.
Expires ==
    /\ phase = "sent" \/ (phase = "permit" /\ style = "kube")
    /\ time - since >= AttemptTime
    /\ answers' = Append(answers, "timeout")
    /\ Ends("timeout")

Cooled ==
    /\ phase = "cooldown" /\ time - since >= Cooldown
    /\ Ends("throttled") /\ UNCHANGED answers

Resume ==
    /\ phase = "pause" /\ time - since >= Pause
    /\ phase' = "permit" /\ attempt' = attempt + 1 /\ since' = time
    /\ UNCHANGED <<style, time, permit, answers, outcome, cancelled>>

\* The deadline of the transport ends an attempt as a timeout, of which there may be more; that
\* of the session ends the call.
Deadline ==
    /\ phase # "done" /\ time >= OperationTime
    /\ IF style = "http" THEN phase # "pause" /\ Ends("timeout") /\ UNCHANGED answers
       ELSE Done("timeout")

Cancel ==
    /\ ~cancelled /\ phase # "done"
    /\ cancelled' = TRUE
    /\ UNCHANGED <<style, attempt, time, since, phase, permit, answers, outcome>>

Stop == cancelled /\ phase # "done" /\ Done("cancelled")

\* A deadline is noticed when it is due; so is a cancellation.
Due ==
    \/ time >= OperationTime \/ cancelled
    \/ phase = "cooldown" /\ time - since >= Cooldown
    \/ phase = "pause" /\ time - since >= Pause
    \/ (phase = "sent" \/ (phase = "permit" /\ style = "kube")) /\ time - since >= AttemptTime

Tick ==
    /\ phase # "done" /\ ~Due
    /\ time' = time + 1
    /\ UNCHANGED <<style, attempt, since, phase, permit, answers, outcome, cancelled>>

Next ==
    \/ Acquire \/ Expires \/ Cooled \/ Resume \/ Deadline \/ Cancel \/ Stop \/ Tick
    \/ \E a \in Answer, retryAfter \in BOOLEAN : Answered(a, retryAfter)

-----------------------------------------------------------------------------
\* "Provider cooldowns release admission capacity and remain inside the operation deadline"
\* (retry_delay.rs:1): only an attempt in flight holds a permit, and the call is over by its
\* deadline.  A conclusive answer is the last and is what the call returns; what may pass is
\* returned only if attempts or time have run out.
OrderlyCall ==
    /\ permit => phase = "sent"
    /\ time <= OperationTime
    /\ \A i \in DOMAIN answers :
        answers[i] \notin Retryable => i = Len(answers) /\ outcome = answers[i]
    /\ outcome \in Retryable => attempt + 1 = Attempts \/ time = OperationTime
    /\ outcome = "ok" => Last(answers) = "ok"
===============================================================================
