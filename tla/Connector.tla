------------------------------- MODULE Connector ------------------------------
(***************************************************************************)
(* The workstation connector (crates/connect): tool calls that share one   *)
(* ID token and refresh it under a lock (client.rs, auth.rs), while other  *)
(* processes of the same user log in and out (login.rs, client.rs) with    *)
(* the same credential store (credentials.rs).                             *)
(*                                                                         *)
(* Google, the identity-aware proxy and the monitor are the environment: a *)
(* refresh token is granted or not, and may be rotated when it is used; an *)
(* ID token is accepted or not.                                            *)
(***************************************************************************)
EXTENDS Naturals, FiniteSets

CONSTANTS
    Call,           \* tool calls of the process, at most four at a time
    MaxCalls,       \* Client.requests
    Tries,          \* attempts of one call: 3 in client.rs
    MaxTokens,      \* bound on tokens of either kind
    MaxFaults,      \* bound on failures of the network and the monitor
    None

ConstantsAssumption ==
    /\ Tries \in Nat \ {0}
    /\ None \notin Nat /\ None \notin Call

VARIABLES
    store,          \* the refresh token in the credential store
    granted,        \* refresh tokens Google accepts
    refreshes,      \* refresh tokens issued so far
    token,          \* Auth.token: the ID token of the process
    ids,            \* ID tokens issued so far
    barred,         \* ID tokens up to this one are refused by the proxy
    holder,         \* who holds Client.auth
    call,           \* where each call is: what it holds and its attempt
    logout,         \* a logout of another process, and the token it revokes
    meddled,        \* auxiliary: another process or a fault changed what is stored
    faults

kvars == <<store, granted, refreshes, token, ids, barred, holder, call, logout, meddled, faults>>
world == <<barred, logout>>

Away == [at |-> "out", attempt |-> 0, refreshed |-> FALSE, used |-> None]

\* The process starts on a machine where the operator has logged in.
Init ==
    /\ store = 1
    /\ granted = {1}
    /\ refreshes = 1
    /\ token = None
    /\ ids = 0
    /\ barred = 0
    /\ holder = None
    /\ call = [c \in Call |-> Away]
    /\ logout = [at |-> "out", used |-> None]
    /\ meddled = FALSE
    /\ faults = 0

Move(c, to) == call' = [call EXCEPT ![c].at = to]
Fails(c, why) == call' = [call EXCEPT ![c] = [Away EXCEPT !.at = why]]
Over == {"out", "done", "login", "failed"}

-----------------------------------------------------------------------------
(* Client::get. *)

Begin(c) ==
    /\ call[c].at \in Over
    /\ Cardinality({d \in Call : call[d].at \notin Over}) < MaxCalls
    /\ call' = [call EXCEPT ![c] = [Away EXCEPT !.at = "token"]]
    /\ UNCHANGED <<store, granted, refreshes, token, ids, world, holder, meddled, faults>>

\* The loop goes on, or its attempts are used up.
Again(c, refreshed) ==
    call' = [call EXCEPT ![c] =
        IF @.attempt + 1 < Tries
        THEN [at |-> "token", attempt |-> @.attempt + 1, refreshed |-> refreshed, used |-> None]
        ELSE [Away EXCEPT !.at = "failed"]]

Send(c) ==
    /\ call[c].at = "send"
    /\ IF call[c].used <= barred
       THEN IF call[c].refreshed THEN Fails(c, "login") ELSE Move(c, "clear")
       ELSE Fails(c, "done")
    /\ UNCHANGED <<store, granted, refreshes, token, ids, world, holder, meddled, faults>>

\* The network or the monitor fails: retried after a delay.
SendFails(c) ==
    /\ call[c].at = "send"
    /\ faults < MaxFaults
    /\ faults' = faults + 1
    /\ Again(c, call[c].refreshed)
    /\ UNCHANGED <<store, granted, refreshes, token, ids, world, holder, meddled>>

\* Mutant: the token that was refused stays.
ClearedNever == token
Cleared == None

\* The first refusal drops the token of the process, whichever it is by now.
Clear(c) ==
    /\ call[c].at = "clear" /\ holder = None
    /\ token' = Cleared
    /\ Again(c, TRUE)
    /\ UNCHANGED <<store, granted, refreshes, ids, world, holder, meddled, faults>>

-----------------------------------------------------------------------------
(* Client::token, which holds the lock to its end. *)

Locked(c) == c

Token(c) ==
    /\ call[c].at = "token" /\ holder = None
    /\ IF token # None
       THEN /\ call' = [call EXCEPT ![c].at = "send", ![c].used = token]
            /\ UNCHANGED holder
       ELSE Move(c, "load") /\ holder' = Locked(c)
    /\ UNCHANGED <<store, granted, refreshes, token, ids, world, meddled, faults>>

\* CredentialsStore::load: no entry, or one of another client, asks for a login.
Load(c) ==
    /\ call[c].at = "load"
    /\ IF store = None
       THEN Fails(c, "login") /\ holder' = None
       ELSE /\ call' = [call EXCEPT ![c].at = "exchange", ![c].used = store]
            /\ UNCHANGED holder
    /\ UNCHANGED <<store, granted, refreshes, token, ids, world, meddled, faults>>

\* exchange and verify: Google may answer with another refresh token, and may refuse the
\* one that was used from then on.
Exchange(c) ==
    /\ call[c].at = "exchange"
    /\ IF call[c].used \notin granted
       THEN /\ Fails(c, "login")
            /\ holder' = None
            /\ UNCHANGED <<granted, refreshes, ids>>
       ELSE /\ ids < MaxTokens
            /\ ids' = ids + 1
            /\ UNCHANGED holder
            /\ \/ Move(c, "keep") /\ UNCHANGED <<granted, refreshes>>
               \/ /\ refreshes < MaxTokens
                  /\ refreshes' = refreshes + 1
                  /\ \E old \in {{}, {call[c].used}} :
                        granted' = (granted \ old) \cup {refreshes + 1}
                  /\ call' = [call EXCEPT ![c].at = "save", ![c].used = refreshes + 1]
    /\ UNCHANGED <<store, token, world, meddled, faults>>

Saved(c) == call[c].used

Save(c) ==
    /\ call[c].at = "save"
    /\ store' = Saved(c)
    /\ Move(c, "keep")
    /\ UNCHANGED <<granted, refreshes, token, ids, world, holder, meddled, faults>>

\* The token is kept for the calls that follow.
Keep(c) ==
    /\ call[c].at = "keep"
    /\ token' = ids
    /\ holder' = None
    /\ call' = [call EXCEPT ![c].at = "send", ![c].used = ids]
    /\ UNCHANGED <<store, granted, refreshes, ids, world, meddled, faults>>

\* Network or store fail while the lock is held: the call ends, without a retry; an answer
\* that is lost may have rotated the token.
TokenFails(c) ==
    /\ call[c].at \in {"load", "exchange", "save"}
    /\ faults < MaxFaults
    /\ faults' = faults + 1
    /\ Fails(c, "failed")
    /\ holder' = None
    /\ \/ UNCHANGED granted
       \/ call[c].at = "exchange" /\ granted' = granted \ {call[c].used}
    /\ meddled' = (meddled \/ call[c].at # "load")
    /\ UNCHANGED <<store, refreshes, token, ids, world>>

-----------------------------------------------------------------------------
(* Time, the proxy, and other processes of the user. *)

\* Less than a minute is left of the token.
Lapse ==
    /\ token # None /\ holder = None
    /\ token' = None
    /\ UNCHANGED <<store, granted, refreshes, ids, world, holder, call, meddled, faults>>

\* The proxy stops accepting the tokens there are.
Bar ==
    /\ barred = 0 /\ ids > 0
    /\ barred' = ids
    /\ UNCHANGED <<store, granted, refreshes, token, ids, holder, call, logout, meddled, faults>>

\* login of another process: exchange, then save.
Login ==
    /\ refreshes < MaxTokens
    /\ refreshes' = refreshes + 1
    /\ granted' = granted \cup {refreshes + 1}
    /\ store' = refreshes + 1
    /\ meddled' = TRUE
    /\ UNCHANGED <<token, ids, world, holder, call, faults>>

LogoutLoad ==
    /\ logout.at = "out" /\ store # None
    /\ logout' = [at |-> "revoke", used |-> store]
    /\ UNCHANGED <<store, granted, refreshes, token, ids, barred, holder, call, meddled, faults>>

\* Google confirms, or does not answer though it may have revoked.
Revoke ==
    /\ logout.at = "revoke"
    /\ \/ /\ granted' = granted \ {logout.used}
          /\ logout' = [logout EXCEPT !.at = "delete"]
          /\ UNCHANGED faults
       \/ /\ faults < MaxFaults
          /\ faults' = faults + 1
          /\ granted' \in {granted, granted \ {logout.used}}
          /\ logout' = [at |-> "out", used |-> None]
    /\ meddled' = TRUE
    /\ UNCHANGED <<store, refreshes, token, ids, barred, holder, call>>

LogoutDelete ==
    /\ logout.at = "delete"
    /\ store' = None
    /\ logout' = [at |-> "out", used |-> None]
    /\ UNCHANGED <<granted, refreshes, token, ids, barred, holder, call, meddled, faults>>

Step(c) ==
    \/ Send(c) \/ Clear(c) \/ Token(c) \/ Load(c) \/ Exchange(c) \/ Save(c) \/ Keep(c)

Next ==
    \/ \E c \in Call : Begin(c) \/ Step(c) \/ SendFails(c) \/ TokenFails(c)
    \/ Lapse \/ Bar \/ Login \/ LogoutLoad \/ Revoke \/ LogoutDelete

Spec == Init /\ [][Next]_kvars

-----------------------------------------------------------------------------
\* Type invariant: the lock is held exactly while tokens are exchanged.
TypeOK ==
    /\ store \in {None} \cup 1..refreshes
    /\ token \in {None} \cup 1..ids
    /\ \A c \in Call :
        /\ call[c].attempt < Tries
        /\ (call[c].at \in {"load", "exchange", "save", "keep"}) = (holder = c)

\* auth.rs:1 "Serialize refreshes per connection profile": a call asks for a login only if
\* another process, a lost save or a logout took the credential away, never because another
\* call rotated it or because the proxy refused the token they shared.
LoginOnlyWhenNeeded == (\E c \in Call : call[c].at = "login") => meddled

=============================================================================
