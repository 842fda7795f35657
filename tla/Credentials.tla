------------------------------ MODULE Credentials ------------------------------
(***************************************************************************)
(* What is kept until it expires, behind a mutex that is held while it is  *)
(* fetched: tokens of a provider (azure_auth.rs, aws_credential_cache.rs,  *)
(* aws_credential_process.rs), the client of a cluster with the credential *)
(* its plugin printed (kube_auth.rs, kube_legacy_auth.rs), and the keys    *)
(* that sign the requests to the server (iap.rs).  Time passes while       *)
(* something is fetched, and the caller may be cancelled.                  *)
(***************************************************************************)
EXTENDS Naturals, FiniteSets

CONSTANTS
    Transport,      \* timeouts a job asks for
    Kid,            \* keys that may be published
    Margin,         \* of a credential that is used again, 60 or 30 s
    Valid,          \* how long keys are kept, 3600 s
    Pause,          \* between two requests for keys, 60 s
    FetchTime,      \* of such a request at most, 5 s
    MaxTime,
    MaxRotations,   \* of the published keys
    None

ConstantsAssumption ==
    /\ Margin \in Nat /\ Valid \in Nat /\ Pause \in Nat /\ FetchTime \in Nat /\ MaxTime \in Nat
    /\ None \notin [until : Nat, good : BOOLEAN]

VARIABLES
    style,          \* "token", "session" or "keys"
    now,
    busy,           \* a caller holds the mutex across an await; the others wait
    since,          \* when that caller read the clock
    asked,          \* the transport or the key it asks for
    cached,         \* the token, the credential in the configuration, or the keys
    client,         \* of a session: the credential it was built with, and for which transport
    after,          \* refresh_after
    published,      \* the keys there are
    offers,         \* the sets of keys that were published since the request began
    ended,          \* key -> when it was published last
    rotations,
    last            \* what was handed out last

vars == <<style, now, busy, since, asked, cached, client, after, published, offers, ended,
          rotations, last>>
keyVars == <<after, published, offers, ended, rotations>>

Never == MaxTime + Margin + 1
Credential(until, good) == [until |-> until, good |-> good]
Keys(kids, until) == [kids |-> kids, until |-> until]
Handed(what, reused) == [what |-> what, at |-> now, reused |-> reused]

Init ==
    /\ style \in {"token", "session", "keys"}
    /\ now = 0 /\ busy = FALSE /\ since = 0 /\ asked = None /\ client = None /\ after = 0
    /\ cached = IF style = "keys" THEN Keys({}, 0) ELSE None
    /\ IF style = "keys" THEN published \in {S \in SUBSET Kid : Cardinality(S) = 1} ELSE published = {}
    /\ offers = {} /\ ended = [k \in Kid |-> 0] /\ rotations = 0 /\ last = None

Release == busy' = FALSE /\ since' = 0 /\ asked' = None
Take(what) == ~busy /\ busy' = TRUE /\ since' = now /\ asked' = what

\* What does not expire within the margin is used again.
Outlives(c) == c # None /\ c.until > now + Margin

-----------------------------------------------------------------------------
(* A token. *)

\* The lock is free, or comes free with what another caller fetched.
Reuse ==
    /\ style = "token" /\ ~busy /\ Outlives(cached)
    /\ last' = Handed(cached, TRUE)
    /\ UNCHANGED <<style, now, busy, since, asked, cached, client, keyVars>>

Request ==
    /\ style = "token" /\ ~Outlives(cached)
    /\ Take(None)
    /\ UNCHANGED <<style, now, cached, client, keyVars, last>>

\* An answer that had expired when the caller asked is refused, and the earlier one stays;
\* aws_credential_process.rs reads the clock again, as in Printed.
Answered(until) ==
    /\ style = "token" /\ busy
    /\ IF until > since
       THEN /\ cached' = Credential(until, TRUE)
            /\ last' = Handed(cached', FALSE)
       ELSE UNCHANGED <<cached, last>>
    /\ Release
    /\ UNCHANGED <<style, now, client, keyVars>>

-----------------------------------------------------------------------------
(* The client of a cluster. *)

\* kube::Client::try_from: what it cannot use leaves the client there was.
Build(credential, t) ==
    IF credential.good
    THEN /\ client' = [of |-> credential, transport |-> t]
         /\ last' = Handed(credential, FALSE)
    ELSE UNCHANGED <<client, last>>

\* The expiry is that of the configuration, not of the client.
Fresh == client # None /\ Outlives(cached)

SameClient(t) ==
    /\ style = "session" /\ ~busy /\ Fresh /\ client.transport = t
    /\ last' = Handed(client.of, TRUE)
    /\ UNCHANGED <<style, now, busy, since, asked, cached, client, keyVars>>

OtherTransport(t) ==
    /\ style = "session" /\ ~busy /\ Fresh /\ client.transport # t
    /\ Build(cached, t)
    /\ UNCHANGED <<style, now, busy, since, asked, cached, keyVars>>

RunPlugin(t) ==
    /\ style = "session" /\ ~Fresh
    /\ Take(t)
    /\ UNCHANGED <<style, now, cached, client, keyVars, last>>

\* parse reads the clock again; what it takes goes into the configuration before the client is
\* built.
Printed(until, good) ==
    /\ style = "session" /\ busy
    /\ IF until > now
       THEN cached' = Credential(until, good) /\ Build(cached', asked)
       ELSE UNCHANGED <<cached, client, last>>
    /\ Release
    /\ UNCHANGED <<style, now, keyVars>>

-----------------------------------------------------------------------------
(* The keys of requests. *)

Rotate(S) ==
    /\ style = "keys" /\ rotations < MaxRotations /\ S # {} /\ S # published
    /\ published' = S /\ rotations' = rotations + 1
    /\ offers' = IF ~busy THEN {} ELSE offers \cup {S}
    /\ ended' = [k \in Kid |-> IF k \in S \cup published THEN now ELSE ended[k]]
    /\ UNCHANGED <<style, now, busy, since, asked, cached, client, after, last>>

\* What the request is told.
Decide(keys, kid) ==
    IF now < keys.until /\ kid \in keys.kids THEN last' = Handed(kid, TRUE) ELSE UNCHANGED last

Stale(kid) == (now >= cached.until \/ kid \notin cached.kids) /\ now >= after

Authorized(kid) ==
    /\ style = "keys" /\ ~busy /\ ~Stale(kid)
    /\ Decide(cached, kid)
    /\ UNCHANGED <<style, now, busy, since, asked, cached, client, keyVars>>

\* refresh_after is set before the request.
Refresh(kid) ==
    /\ style = "keys" /\ Stale(kid)
    /\ Take(kid)
    /\ after' = now + Pause /\ offers' = {published}
    /\ UNCHANGED <<style, now, cached, client, published, ended, rotations, last>>

\* A mutant that adds to the keys it has.
Added(S) == Keys(S \cup cached.kids, now + Valid)
\* The set is replaced as a whole.
Replaced(S) == Keys(S, now + Valid)

Refreshed(S) ==
    /\ style = "keys" /\ busy /\ S \in offers
    /\ cached' = Replaced(S)
    /\ Decide(cached', asked)
    /\ Release /\ offers' = {}
    /\ UNCHANGED <<style, now, client, after, published, ended, rotations>>

-----------------------------------------------------------------------------
\* The fetch fails or times out, or its caller is cancelled; a request with a known key is
\* decided by the keys there are.
Failed ==
    /\ busy
    /\ \/ style = "keys" /\ Decide(cached, asked)
       \/ UNCHANGED last
    /\ Release /\ offers' = {}
    /\ UNCHANGED <<style, now, cached, client, after, published, ended, rotations>>

Tick ==
    /\ now < MaxTime
    /\ style = "keys" /\ busy => now < since + FetchTime
    /\ now' = now + 1
    /\ ended' = [k \in Kid |-> IF k \in published THEN now + 1 ELSE ended[k]]
    /\ UNCHANGED <<style, busy, since, asked, cached, client, after, published, offers, rotations,
                   last>>

Next ==
    \/ Reuse \/ Request \/ Failed \/ Tick
    \/ \E until \in 0..MaxTime \cup {Never} : Answered(until) \/ \E good \in BOOLEAN : Printed(until, good)
    \/ \E t \in Transport : SameClient(t) \/ OtherTransport(t) \/ RunPlugin(t)
    \/ \E S \in SUBSET Kid : Rotate(S) \/ Refreshed(S)
    \/ \E k \in Kid : Authorized(k) \/ Refresh(k)

Spec == Init /\ [][Next]_vars

-----------------------------------------------------------------------------
\* A token that was not asked for anew outlives its use, whichever caller fetched it, how long that
\* took and what failed since (azure_auth.rs:50, aws_credential_cache.rs:22).
TokensLive == style = "token" /\ last # None /\ last.reused => last.what.until > last.at

\* A session's client carries the credential that was acquired last, unless a client could not be
\* built with it (kube_auth.rs:41).
ClientsAreLatest == client # None /\ cached.good => client.of = cached

\* A request is accepted only with a key that was published within the time keys are kept, and a
\* request for them (iap.rs:65).
KeysAreCurrent ==
    style = "keys" /\ last # None => last.at < ended[last.what] + Valid + FetchTime

CredentialsHold == TokensLive /\ ClientsAreLatest /\ KeysAreCurrent
===============================================================================
