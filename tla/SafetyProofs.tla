---------------------------- MODULE SafetyProofs ----------------------------
(***************************************************************************)
(* Parts of the monitor that stand by themselves, for any bounds of theirs *)
(* and any interleaving.  The connector asks for a login only when another *)
(* took the credential away (Connector); the history shows what the        *)
(* findings are (Recorder); calls and helper processes end in order (Calls,*)
(* Helpers); a complete collection left nothing out (Fanout); and what is  *)
(* announced as sustained was seen for as long (Signals).  The calls       *)
(* and the collection share variables and so are theorems of the suite.    *)
(* Last, what the rules say of an observation follows from what it         *)
(* measured (Policies), by induction over the data where they fold it.     *)
(***************************************************************************)
EXTENDS MCSafety, Sequences, FiniteSetTheorems, WellFoundedInduction, TLAPS

-----------------------------------------------------------------------------
(* Connector: calls that share a token.                                    *)

Place == {"out", "token", "send", "clear", "load", "exchange", "save", "keep",
          "done", "login", "failed"}

CallState == [at : Place, attempt : Nat, refreshed : BOOLEAN, used : Nat \cup {None}]

ConnectorType ==
    /\ store \in Nat \cup {None}
    /\ refreshes \in Nat
    /\ ids \in Nat
    /\ token \in (1..ids) \cup {None}
    /\ barred \in 0..ids
    /\ call \in [Call -> CallState]

\* The lock is held exactly while tokens are exchanged, and what a call uses is known.
Held(c) ==
    /\ call[c].at \in {"load", "exchange", "save", "keep"} <=> holder = c
    /\ call[c].at \in {"send", "clear"} => call[c].used \in 1..ids
    /\ call[c].at \in {"exchange", "save"} => call[c].used \in Nat
    /\ call[c].at = "clear" => call[c].used <= barred
    /\ call[c].at \in {"save", "keep"} => ids > 0

Holding == \A c \in Call : Held(c)

\* Once a call had a token refused, the process has only tokens that were issued since.
Renewed ==
    \A c \in Call : call[c].refreshed =>
        /\ barred > 0
        /\ token # None => token > barred
        /\ \A d \in Call : call[d].at \in {"save", "keep"} => ids > barred
        /\ call[c].at = "send" => call[c].used > barred

\* What is stored is granted, or is about to be replaced by what is.
Intact ==
    /\ logout.at = "delete" => meddled
    /\ ~meddled =>
        /\ store # None
        /\ \A c \in Call : /\ call[c].at # "login"
                           /\ call[c].at = "exchange" => call[c].used = store
                           /\ call[c].at = "save" => call[c].used \in granted
        /\ (\A c \in Call : call[c].at # "save") => store \in granted

ConnectorInv == ConnectorType /\ Holding /\ Renewed /\ Intact

LEMMA ConnectorStarts == K!ConstantsAssumption /\ K!Init => ConnectorInv
<1> SUFFICES ASSUME K!ConstantsAssumption, K!Init PROVE ConnectorInv
  OBVIOUS
<1>1. K!Away \in CallState /\ K!Away.at = "out" /\ ~K!Away.refreshed
  BY DEF K!Away, CallState, Place
<1>2. ConnectorType /\ \A c \in Call : call[c] = K!Away
  BY <1>1 DEF K!Init, ConnectorType
<1>3. Holding /\ Renewed
  BY <1>1, <1>2 DEF K!ConstantsAssumption, K!Init, Holding, Held, Renewed
<1>4. Intact
  BY <1>1, <1>2 DEF K!ConstantsAssumption, K!Init, Intact
<1> QED BY <1>2, <1>3, <1>4 DEF ConnectorInv

\* A call moves on, and the others stay where they are.
Others(c) == \A d \in Call \ {c} : call'[d] = call[d]

LEMMA Moves ==
  ASSUME call \in [Call -> CallState], NEW c \in Call, NEW to \in Place, K!Move(c, to)
  PROVE  /\ call' \in [Call -> CallState] /\ Others(c)
         /\ call'[c].at = to /\ call'[c].used = call[c].used
         /\ call'[c].refreshed = call[c].refreshed
<1>1. LET next == [call[c] EXCEPT !.at = to]
      IN  /\ next \in CallState /\ next.at = to /\ next.used = call[c].used
          /\ next.refreshed = call[c].refreshed
  BY DEF CallState
<1>2. call' = [call EXCEPT ![c] = [call[c] EXCEPT !.at = to]]
  BY DEF K!Move
<1> QED BY <1>1, <1>2 DEF Others

LEMMA Proceeds ==
  ASSUME call \in [Call -> CallState], NEW c \in Call, NEW to \in Place,
         NEW v \in Nat \cup {None}, call' = [call EXCEPT ![c].at = to, ![c].used = v]
  PROVE  /\ call' \in [Call -> CallState] /\ Others(c)
         /\ call'[c].at = to /\ call'[c].used = v /\ call'[c].refreshed = call[c].refreshed
<1>1. LET next == [call[c] EXCEPT !.at = to, !.used = v]
      IN  /\ next \in CallState /\ next.at = to /\ next.used = v
          /\ next.refreshed = call[c].refreshed
  BY DEF CallState
<1>2. call' = [call EXCEPT ![c] = [call[c] EXCEPT !.at = to, !.used = v]]
  OBVIOUS
<1> QED BY <1>1, <1>2 DEF Others

LEMMA Ending ==
  ASSUME call \in [Call -> CallState], NEW c \in Call, NEW why \in Place, K!Fails(c, why)
  PROVE  /\ call' \in [Call -> CallState] /\ Others(c)
         /\ call'[c].at = why /\ ~call'[c].refreshed
<1>1. [K!Away EXCEPT !.at = why] \in CallState
  BY DEF CallState, K!Away
<1>2. [K!Away EXCEPT !.at = why].at = why /\ ~[K!Away EXCEPT !.at = why].refreshed
  BY DEF K!Away
<1>3. call' = [call EXCEPT ![c] = [K!Away EXCEPT !.at = why]]
  BY DEF K!Fails
<1> QED BY <1>1, <1>2, <1>3 DEF Others

LEMMA Retrying ==
  ASSUME K!ConstantsAssumption, call \in [Call -> CallState], NEW c \in Call,
         NEW refreshed \in BOOLEAN, K!Again(c, refreshed)
  PROVE  /\ call' \in [Call -> CallState] /\ Others(c)
         /\ call'[c].at \in {"token", "failed"}
         /\ call'[c].refreshed => refreshed
<1> DEFINE next == IF call[c].attempt + 1 < Tries
                   THEN [at |-> "token", attempt |-> call[c].attempt + 1,
                         refreshed |-> refreshed, used |-> None]
                   ELSE [K!Away EXCEPT !.at = "failed"]
<1>1. call' = [call EXCEPT ![c] = next]
  BY DEF K!Again
<1>2. next \in CallState /\ next.at \in {"token", "failed"} /\ (next.refreshed => refreshed)
  <2>1. call[c].attempt + 1 \in Nat
    BY DEF CallState
  <2>2. CASE call[c].attempt + 1 < Tries
    BY <2>1, <2>2 DEF CallState, Place
  <2>3. CASE ~(call[c].attempt + 1 < Tries)
    BY <2>3 DEF CallState, Place, K!Away
  <2> QED BY <2>2, <2>3
<1> HIDE DEF next
<1> QED BY <1>1, <1>2 DEF Others

LEMMA ConnectorStep ==
  K!ConstantsAssumption /\ ConnectorInv /\ [K!Next]_K!kvars => ConnectorInv'
<1> SUFFICES ASSUME K!ConstantsAssumption, ConnectorInv, [K!Next]_K!kvars
             PROVE  ConnectorInv'
  OBVIOUS
<1> USE DEF K!ConstantsAssumption
<1>1. ASSUME NEW c \in Call, K!Begin(c) PROVE ConnectorInv'
  <2>1. /\ call' \in [Call -> CallState] /\ Others(c)
        /\ call'[c].at = "token" /\ ~call'[c].refreshed
    <3>1. K!Fails(c, "token") /\ "token" \in Place
      BY <1>1 DEF K!Begin, K!Fails, Place
    <3> QED BY <3>1, Ending DEF ConnectorInv, ConnectorType
  <2>2. /\ UNCHANGED <<store, granted, refreshes, token, ids, barred, logout, holder, meddled>>
        /\ call[c].at \in {"out", "done", "login", "failed"}
    BY <1>1 DEF K!Begin, K!world, K!Over
  <2>3. ConnectorType'
    BY <2>1, <2>2 DEF ConnectorInv, ConnectorType
  <2>4. Holding'
    BY <2>1, <2>2 DEF ConnectorInv, ConnectorType, Holding, Held, Others
  <2>5. Renewed'
    BY <2>1, <2>2 DEF ConnectorInv, ConnectorType, Holding, Held, Renewed, Others
  <2>6. Intact'
    BY <2>1, <2>2 DEF ConnectorInv, ConnectorType, Holding, Held, Renewed, Intact, Others
  <2> QED BY <2>3, <2>4, <2>5, <2>6 DEF ConnectorInv
<1>2. ASSUME NEW c \in Call, K!Send(c) PROVE ConnectorInv'
  <2>1. /\ call' \in [Call -> CallState] /\ Others(c)
        /\ \/ call'[c].at = "done" /\ ~call'[c].refreshed
           \/ /\ call[c].used <= barred /\ call[c].refreshed
              /\ call'[c].at = "login" /\ ~call'[c].refreshed
           \/ /\ call[c].used <= barred /\ ~call[c].refreshed /\ call'[c].at = "clear"
              /\ call'[c].used = call[c].used /\ call'[c].refreshed = call[c].refreshed
    <3>1. {"done", "login", "clear"} \subseteq Place /\ call \in [Call -> CallState]
      BY DEF ConnectorInv, ConnectorType, Place
    <3> QED BY <1>2, <3>1, Ending, Moves DEF K!Send
  <2>2. /\ UNCHANGED <<store, granted, refreshes, token, ids, barred, logout, holder, meddled>>
        /\ call[c].at = "send"
    BY <1>2 DEF K!Send, K!world
  <2>3. ConnectorType'
    BY <2>1, <2>2 DEF ConnectorInv, ConnectorType
  <2>4. Holding'
    BY <2>1, <2>2 DEF ConnectorInv, ConnectorType, Holding, Held, Others
  <2>5. Renewed'
    BY <2>1, <2>2 DEF ConnectorInv, ConnectorType, Holding, Held, Renewed, Others
  <2>6. Intact'
    BY <2>1, <2>2 DEF ConnectorInv, ConnectorType, Holding, Held, Renewed, Intact, Others
  <2> QED BY <2>3, <2>4, <2>5, <2>6 DEF ConnectorInv
<1>3. ASSUME NEW c \in Call, K!SendFails(c) PROVE ConnectorInv'
  <2>1. /\ call' \in [Call -> CallState] /\ Others(c)
        /\ call'[c].at \in {"token", "failed"} /\ (call'[c].refreshed => call[c].refreshed)
    <3>1. call \in [Call -> CallState] /\ call[c].refreshed \in BOOLEAN
      BY DEF ConnectorInv, ConnectorType, CallState
    <3> QED BY <1>3, <3>1, Retrying DEF K!SendFails
  <2>2. /\ UNCHANGED <<store, granted, refreshes, token, ids, barred, logout, holder, meddled>>
        /\ call[c].at = "send"
    BY <1>3 DEF K!SendFails, K!world
  <2>3. ConnectorType'
    BY <2>1, <2>2 DEF ConnectorInv, ConnectorType
  <2>4. Holding'
    BY <2>1, <2>2 DEF ConnectorInv, ConnectorType, Holding, Held, Others
  <2>5. Renewed'
    BY <2>1, <2>2 DEF ConnectorInv, ConnectorType, Holding, Held, Renewed, Others
  <2>6. Intact'
    BY <2>1, <2>2 DEF ConnectorInv, ConnectorType, Holding, Held, Renewed, Intact, Others
  <2> QED BY <2>3, <2>4, <2>5, <2>6 DEF ConnectorInv
<1>4. ASSUME NEW c \in Call, K!Clear(c) PROVE ConnectorInv'
  <2>1. /\ call' \in [Call -> CallState] /\ Others(c)
        /\ call'[c].at \in {"token", "failed"}
    BY <1>4, Retrying DEF K!Clear, ConnectorInv, ConnectorType
  <2>2. /\ UNCHANGED <<store, granted, refreshes, ids, barred, logout, holder, meddled>>
        /\ call[c].at = "clear" /\ holder = None /\ token' = None
    BY <1>4 DEF K!Clear, K!world, K!Cleared
  <2>3. ConnectorType'
    BY <2>1, <2>2 DEF ConnectorInv, ConnectorType
  <2>4. Holding'
    BY <2>1, <2>2 DEF ConnectorInv, ConnectorType, Holding, Held, Others
  <2>5. Renewed'
    BY <2>1, <2>2 DEF ConnectorInv, ConnectorType, Holding, Held, Renewed, Others
  <2>6. Intact'
    BY <2>1, <2>2 DEF ConnectorInv, ConnectorType, Holding, Held, Renewed, Intact, Others
  <2> QED BY <2>3, <2>4, <2>5, <2>6 DEF ConnectorInv
<1>5. ASSUME NEW c \in Call, K!Token(c) PROVE ConnectorInv'
  <2>1. /\ call' \in [Call -> CallState] /\ Others(c)
        /\ call'[c].refreshed = call[c].refreshed
        /\ \/ token # None /\ call'[c].at = "send" /\ call'[c].used = token /\ holder' = holder
           \/ /\ token = None /\ call'[c].at = "load" /\ call'[c].used = call[c].used
              /\ holder' = c
    <3>1. {"send", "load"} \subseteq Place /\ call \in [Call -> CallState]
          /\ token \in Nat \cup {None}
      BY DEF ConnectorInv, ConnectorType, Place
    <3> QED BY <1>5, <3>1, Proceeds, Moves DEF K!Token, K!Locked
  <2>2. /\ UNCHANGED <<store, granted, refreshes, token, ids, barred, logout, meddled>>
        /\ call[c].at = "token" /\ holder = None
    BY <1>5 DEF K!Token, K!world
  <2>3. ConnectorType'
    BY <2>1, <2>2 DEF ConnectorInv, ConnectorType
  <2>4. Holding'
    BY <2>1, <2>2 DEF ConnectorInv, ConnectorType, Holding, Held, Others
  <2>5. Renewed'
    BY <2>1, <2>2 DEF ConnectorInv, ConnectorType, Holding, Held, Renewed, Others
  <2>6. Intact'
    BY <2>1, <2>2 DEF ConnectorInv, ConnectorType, Holding, Held, Renewed, Intact, Others
  <2> QED BY <2>3, <2>4, <2>5, <2>6 DEF ConnectorInv
<1>6. ASSUME NEW c \in Call, K!Load(c) PROVE ConnectorInv'
  <2>1. /\ call' \in [Call -> CallState] /\ Others(c)
        /\ \/ /\ store = None /\ call'[c].at = "login" /\ ~call'[c].refreshed
              /\ holder' = None
           \/ /\ store # None /\ call'[c].at = "exchange" /\ call'[c].used = store
              /\ call'[c].refreshed = call[c].refreshed /\ holder' = holder
    <3>1. {"login", "exchange"} \subseteq Place /\ call \in [Call -> CallState]
          /\ store \in Nat \cup {None}
      BY DEF ConnectorInv, ConnectorType, Place
    <3>2. CASE store = None
      BY <1>6, <3>1, <3>2, Ending DEF K!Load
    <3>3. CASE store # None
      BY <1>6, <3>1, <3>3, Proceeds DEF K!Load
    <3> QED BY <3>2, <3>3
  <2>2. /\ UNCHANGED <<store, granted, refreshes, token, ids, barred, logout, meddled>>
        /\ call[c].at = "load"
    BY <1>6 DEF K!Load, K!world
  <2>3. ConnectorType'
    BY <2>1, <2>2 DEF ConnectorInv, ConnectorType
  <2>4. Holding'
    BY <2>1, <2>2 DEF ConnectorInv, ConnectorType, Holding, Held, Others
  <2>5. Renewed'
    BY <2>1, <2>2 DEF ConnectorInv, ConnectorType, Holding, Held, Renewed, Others
  <2>6. Intact'
    BY <2>1, <2>2 DEF ConnectorInv, ConnectorType, Holding, Held, Renewed, Intact, Others
  <2> QED BY <2>3, <2>4, <2>5, <2>6 DEF ConnectorInv
<1>7. ASSUME NEW c \in Call, K!Exchange(c) PROVE ConnectorInv'
  <2>1. /\ call' \in [Call -> CallState] /\ Others(c)
        /\ \/ /\ call[c].used \notin granted /\ holder' = None
              /\ call'[c].at = "login" /\ ~call'[c].refreshed
              /\ UNCHANGED <<granted, refreshes, ids>>
           \/ /\ call[c].used \in granted /\ holder' = holder /\ ids' = ids + 1
              /\ call'[c].refreshed = call[c].refreshed
              /\ \/ call'[c].at = "keep" /\ UNCHANGED <<granted, refreshes>>
                 \/ /\ call'[c].at = "save" /\ call'[c].used = refreshes + 1
                    /\ refreshes' = refreshes + 1 /\ refreshes + 1 \in granted'
    <3>1. {"login", "keep", "save"} \subseteq Place /\ call \in [Call -> CallState]
          /\ refreshes + 1 \in Nat \cup {None}
      BY DEF ConnectorInv, ConnectorType, Place
    <3>2. CASE call[c].used \notin granted
      BY <1>7, <3>1, <3>2, Ending DEF K!Exchange
    <3>3. CASE call[c].used \in granted /\ K!Move(c, "keep")
      <4>1. call'[c].at = "keep"
        BY <3>1, <3>3, Moves
      <4>2. UNCHANGED <<granted, refreshes>>
        BY <1>7, <3>1, <3>3, <4>1, Proceeds DEF K!Exchange
      <4> QED BY <1>7, <3>1, <3>3, <4>2, Moves DEF K!Exchange
    <3>4. CASE call[c].used \in granted /\ ~K!Move(c, "keep")
      <4>1. /\ refreshes' = refreshes + 1 /\ holder' = holder /\ ids' = ids + 1
            /\ refreshes + 1 \in granted'
            /\ call' = [call EXCEPT ![c].at = "save", ![c].used = refreshes + 1]
        BY <1>7, <3>4 DEF K!Exchange
      <4> QED BY <3>1, <3>4, <4>1, Proceeds
    <3> QED BY <3>2, <3>3, <3>4
  <2>2. UNCHANGED <<store, token, barred, logout, meddled>> /\ call[c].at = "exchange"
    BY <1>7 DEF K!Exchange, K!world
  <2>3. ConnectorType'
    <3>1. ids' \in Nat /\ ids <= ids' /\ refreshes' \in Nat
      BY <2>1 DEF ConnectorInv, ConnectorType
    <3>2. barred \in 0..ids' /\ token \in (1..ids') \cup {None}
      BY <3>1 DEF ConnectorInv, ConnectorType
    <3> QED BY <2>1, <2>2, <3>1, <3>2 DEF ConnectorInv, ConnectorType
  <2>4. Holding'
    <3>1. ids \in Nat /\ barred \in Nat /\ holder = c /\ None # c /\ refreshes + 1 \in Nat
      BY <2>2 DEF ConnectorInv, ConnectorType, Holding, Held
    <3>2. ASSUME NEW d \in Call, d # c
          PROVE  /\ call'[d] = call[d] /\ call[d].at \notin {"load", "exchange", "save", "keep"}
                 /\ call[d].at \in {"send", "clear"} => call[d].used \in 1..ids'
                 /\ call[d].at = "clear" => call[d].used <= barred
      BY <2>1, <3>1, <3>2 DEF ConnectorInv, Holding, Held, Others
    <3>3. call'[c].at \in {"save", "keep"} => ids' > 0
      BY <2>1, <3>1
    <3>4. ASSUME NEW d \in Call PROVE Held(d)'
      <4>1. CASE d = c
        BY <2>1, <2>2, <3>1, <3>3, <4>1 DEF Held
      <4>2. CASE d # c
        BY <2>1, <2>2, <3>1, <3>2, <4>2 DEF Held
      <4> QED BY <4>1, <4>2
    <3> QED BY <3>4 DEF Holding
  <2>5. Renewed'
    BY <2>1, <2>2 DEF ConnectorInv, ConnectorType, Holding, Held, Renewed, Others
  <2>6. Intact'
    BY <2>1, <2>2 DEF ConnectorInv, ConnectorType, Holding, Held, Renewed, Intact, Others
  <2> QED BY <2>3, <2>4, <2>5, <2>6 DEF ConnectorInv
<1>8. ASSUME NEW c \in Call, K!Save(c) PROVE ConnectorInv'
  <2>1. /\ call' \in [Call -> CallState] /\ Others(c) /\ call'[c].at = "keep"
        /\ call'[c].refreshed = call[c].refreshed
    <3>1. call \in [Call -> CallState] /\ "keep" \in Place
      BY DEF ConnectorInv, ConnectorType, Place
    <3> QED BY <1>8, <3>1, Moves DEF K!Save
  <2>2. /\ UNCHANGED <<granted, refreshes, token, ids, barred, logout, holder, meddled>>
        /\ call[c].at = "save" /\ store' = call[c].used
    BY <1>8 DEF K!Save, K!world, K!Saved
  <2>3. ConnectorType'
    <3>1. store' \in Nat
      BY <2>2 DEF ConnectorInv, Holding, Held
    <3>2. /\ refreshes' \in Nat /\ ids' \in Nat /\ barred' \in 0..ids'
          /\ token' \in (1..ids') \cup {None}
      BY <2>2 DEF ConnectorInv, ConnectorType
    <3> QED BY <2>1, <3>1, <3>2 DEF ConnectorType
  <2>4. Holding'
    BY <2>1, <2>2 DEF ConnectorInv, ConnectorType, Holding, Held, Others
  <2>5. Renewed'
    BY <2>1, <2>2 DEF ConnectorInv, ConnectorType, Holding, Held, Renewed, Others
  <2>6. Intact'
    BY <2>1, <2>2 DEF ConnectorInv, ConnectorType, Holding, Held, Renewed, Intact, Others
  <2> QED BY <2>3, <2>4, <2>5, <2>6 DEF ConnectorInv
<1>9. ASSUME NEW c \in Call, K!Keep(c) PROVE ConnectorInv'
  <2>1. /\ call' \in [Call -> CallState] /\ Others(c)
        /\ call'[c].at = "send" /\ call'[c].used = ids
        /\ call'[c].refreshed = call[c].refreshed
    <3>1. "send" \in Place /\ call \in [Call -> CallState] /\ ids \in Nat \cup {None}
      BY DEF ConnectorInv, ConnectorType, Place
    <3>2. call' = [call EXCEPT ![c].at = "send", ![c].used = ids]
      BY <1>9 DEF K!Keep
    <3> QED BY <3>1, <3>2, Proceeds
  <2>2. /\ UNCHANGED <<store, granted, refreshes, ids, barred, logout, meddled>>
        /\ call[c].at = "keep" /\ token' = ids /\ holder' = None
    BY <1>9 DEF K!Keep, K!world
  <2>3. ConnectorType'
    BY <2>1, <2>2 DEF ConnectorInv, ConnectorType, Holding, Held
  <2>4. Holding'
    BY <2>1, <2>2 DEF ConnectorInv, ConnectorType, Holding, Held, Others
  <2>5. Renewed'
    BY <2>1, <2>2 DEF ConnectorInv, ConnectorType, Holding, Held, Renewed, Others
  <2>6. Intact'
    BY <2>1, <2>2 DEF ConnectorInv, ConnectorType, Holding, Held, Renewed, Intact, Others
  <2> QED BY <2>3, <2>4, <2>5, <2>6 DEF ConnectorInv
<1>10. ASSUME NEW c \in Call, K!TokenFails(c) PROVE ConnectorInv'
  <2>1. /\ call' \in [Call -> CallState] /\ Others(c)
        /\ call'[c].at = "failed" /\ ~call'[c].refreshed
    BY <1>10, Ending DEF K!TokenFails, ConnectorInv, ConnectorType, Place
  <2>2. /\ UNCHANGED <<store, refreshes, token, ids, barred, logout>> /\ holder' = None
        /\ call[c].at \in {"load", "exchange", "save"}
        /\ meddled' = (meddled \/ call[c].at # "load")
        /\ call[c].at = "load" => granted' = granted
    BY <1>10 DEF K!TokenFails, K!world
  <2>3. ConnectorType'
    BY <2>1, <2>2 DEF ConnectorInv, ConnectorType
  <2>4. Holding'
    BY <2>1, <2>2 DEF ConnectorInv, ConnectorType, Holding, Held, Others
  <2>5. Renewed'
    BY <2>1, <2>2 DEF ConnectorInv, ConnectorType, Holding, Held, Renewed, Others
  <2>6. Intact'
    BY <2>1, <2>2 DEF ConnectorInv, ConnectorType, Holding, Held, Renewed, Intact, Others
  <2> QED BY <2>3, <2>4, <2>5, <2>6 DEF ConnectorInv
<1>11. ASSUME K!Lapse \/ K!Bar PROVE ConnectorInv'
  BY <1>11 DEF K!Lapse, K!Bar, K!world, ConnectorInv, ConnectorType, Holding, Held, Renewed, Intact
<1>12. ASSUME K!Login \/ K!LogoutLoad \/ K!Revoke \/ K!LogoutDelete PROVE ConnectorInv'
  BY <1>12 DEF K!Login, K!LogoutLoad, K!Revoke, K!LogoutDelete, K!world, ConnectorInv,
               ConnectorType, Holding, Held, Renewed, Intact
<1>13. CASE UNCHANGED K!kvars
  BY <1>13 DEF K!kvars, ConnectorInv, ConnectorType, Holding, Held, Renewed, Intact
<1> QED BY <1>1, <1>2, <1>3, <1>4, <1>5, <1>6, <1>7, <1>8, <1>9, <1>10, <1>11, <1>12, <1>13
        DEF K!Next, K!Step

\* No call of the connector asks for a login unless another process, a logout or a lost answer
\* changed what is stored: neither a refresh by another call, nor a rotated credential, nor a
\* token that the proxy refuses, for any number of calls (auth.rs, client.rs).
THEOREM LoginIsNeeded ==
  ASSUME K!ConstantsAssumption
  PROVE  K!Spec => []LoginOnlyWhenNeeded
<1>1. K!Init => ConnectorInv
  BY ConnectorStarts
<1>2. ConnectorInv /\ [K!Next]_K!kvars => ConnectorInv'
  BY ConnectorStep
<1>3. ConnectorInv => LoginOnlyWhenNeeded
  BY DEF ConnectorInv, Intact, LoginOnlyWhenNeeded, K!LoginOnlyWhenNeeded
<1> QED BY <1>1, <1>2, <1>3, PTL DEF K!Spec

-----------------------------------------------------------------------------
(* Recorder: what the history shows.                                       *)

Version == Followed \X Content \X Nat
Versions(f) == {v \in Version : v[1] = f}
Entries == [key : Version, closed : R!End]

Names(batch, f) == \E r \in batch : r.key[1] = f
OpenIn(batch, f) == {r \in batch : r.key[1] = f /\ r.closed = None}
Shown(batch, f) == {r.key[2] : r \in OpenIn(batch, f)}

\* A batch says one thing of a version, and has one open version of a finding.
Sound(batch) ==
    /\ \A r, q \in batch : r.key = q.key => r = q
    /\ \A r, q \in batch : r.key[1] = q.key[1] /\ r.closed = None /\ q.closed = None => r = q

Snapshots == [Followed -> Content \cup {None}]

RecorderType ==
    /\ clock \in Nat
    /\ open \in Snapshots
    /\ saved \in [now : Nat, open : Snapshots]
    /\ active \in [Followed -> Version \cup {None}]
    /\ \A f \in Followed : active[f] # None => active[f] \in Versions(f)
    /\ queue \in Seq(SUBSET Entries)
    /\ \A i \in DOMAIN queue : Sound(queue[i])
    /\ DOMAIN rows \subseteq Version
    /\ \A k \in DOMAIN rows : rows[k] \in [key : Version, closed : R!End \cup {"superseded"}]

OneOpen ==
    \A k, l \in DOMAIN rows :
        k[1] = l[1] /\ rows[k].closed = None /\ rows[l].closed = None => k = l

\* What is shown of a finding once a queue is written: what its last batch that names the
\* finding has, or what is there.
Tells(q, have, f, want) ==
    /\ (\A i \in DOMAIN q : ~Names(q[i], f)) => have = want
    /\ \A i \in DOMAIN q :
            Names(q[i], f) /\ (\A j \in DOMAIN q : j > i => ~Names(q[j], f)) =>
                Shown(q[i], f) = want

\* The recorder keeps the version a finding is in, and the history shows it or will.
Follows(f) ==
    /\ active[f] = None <=> open[f] = None
    /\ active[f] # None => active[f][2] = open[f]
    /\ Tells(queue, {k[2] : k \in R!OpenRows(f)}, f, {open[f]} \ {None})

RecorderInv == RecorderType /\ OneOpen /\ \A f \in Followed \ astray : Follows(f)

LEMMA RecorderStarts == R!ConstantsAssumption /\ R!Init => RecorderInv
<1> SUFFICES ASSUME R!ConstantsAssumption, R!Init PROVE RecorderInv
  OBVIOUS
<1>1. open \in Snapshots /\ saved \in [now : Nat, open : Snapshots]
  BY DEF R!Init, Snapshots
<1>2. RecorderType
  BY <1>1 DEF R!Init, RecorderType
<1>3. OneOpen
  BY DEF R!Init, OneOpen
<1>4. ASSUME NEW f \in Followed PROVE Follows(f)
  BY DEF R!Init, Follows, Tells, R!OpenRows
<1> QED BY <1>2, <1>3, <1>4 DEF RecorderInv

LEMMA ShownOne ==
  ASSUME NEW batch, NEW f, NEW v, OpenIn(batch, f) = {[key |-> v, closed |-> None]}
  PROVE  Shown(batch, f) = {v[2]}
<1> DEFINE r == [key |-> v, closed |-> None]
<1>1. r.key = v
  OBVIOUS
<1> HIDE DEF r
<1>2. Shown(batch, f) = {r.key[2]}
  BY DEF Shown, r
<1> QED BY <1>1, <1>2

\* The rows of a version that goes on, begins or ends.
LEMMA CapturedIs ==
  ASSUME R!ConstantsAssumption, NEW f \in Followed, NEW v \in Versions(f) \cup {None},
         NEW c \in Content, NEW fresh \in BOOLEAN, clock' \in Nat
  PROVE  LET rs == R!CapturedRows(v, f, c, fresh)
         IN  /\ rs \in SUBSET Entries /\ Sound(rs)
             /\ \A r \in rs : r.key[1] = f
             /\ rs # {} => Shown(rs, f) = {c}
             /\ rs = {} => R!Same(v, c)
             /\ R!Captured(v, f, c) \in Versions(f)
             /\ R!Captured(v, f, c)[2] = c
             /\ R!Captured(v, f, c) # None
<1> DEFINE n == <<f, c, clock'>>
<1>1. n \in Version /\ n[1] = f /\ n[2] = c /\ n # None /\ R!NewVersion(f, c) = n
  BY DEF Version, R!NewVersion, R!ConstantsAssumption
<1>2. /\ "changed" # None /\ {None, "changed", "ended"} = R!End
      /\ v # None => v \in Version /\ v[1] = f
  BY DEF R!ConstantsAssumption, R!End, Versions
<1> HIDE DEF n
<1> DEFINE rs == R!CapturedRows(v, f, c, fresh)
           Right == /\ rs \in SUBSET Entries /\ Sound(rs)
                    /\ \A r \in rs : r.key[1] = f
                    /\ rs # {} => Shown(rs, f) = {c}
                    /\ rs = {} => R!Same(v, c)
<1>3. CASE R!Same(v, c)
  <2>1. v # None /\ v[2] = c /\ R!Captured(v, f, c) = v
    BY <1>3 DEF R!Same, R!Captured
  <2>2. CASE fresh
    <3>1. R!CapturedRows(v, f, c, fresh) = {[key |-> v, closed |-> None]}
      BY <1>3, <2>2 DEF R!CapturedRows, R!Row
    <3>2. [key |-> v, closed |-> None] \in Entries
      BY <1>2, <2>1 DEF Entries
    <3>3. OpenIn(rs, f) = rs
      BY <1>2, <2>1, <3>1 DEF OpenIn
    <3>4. Shown(rs, f) = {c}
      <4>1. OpenIn(rs, f) = {[key |-> v, closed |-> None]}
        BY <3>1, <3>3
      <4> HIDE DEF rs
      <4>2. Shown(rs, f) = {v[2]}
        BY <4>1, ShownOne
      <4> QED BY <2>1, <4>2
    <3>5. Right
      BY <1>2, <1>3, <2>1, <3>1, <3>2, <3>4 DEF Sound
    <3> QED BY <1>2, <2>1, <3>5 DEF Versions
  <2>3. CASE ~fresh
    <3>1. R!CapturedRows(v, f, c, fresh) = {}
      BY <1>3, <2>3 DEF R!CapturedRows
    <3> QED BY <1>2, <1>3, <2>1, <3>1 DEF Sound, Versions
  <2> QED BY <2>2, <2>3
<1>4. CASE ~R!Same(v, c)
  <2>1. R!Captured(v, f, c) = n
    BY <1>1, <1>4 DEF R!Captured
  <2>2. CASE v = None
    <3>1. R!CapturedRows(v, f, c, fresh) = {[key |-> n, closed |-> None]}
      BY <1>1, <1>4, <2>2 DEF R!CapturedRows, R!Row
    <3>2. [key |-> n, closed |-> None] \in Entries
      BY <1>1, <1>2 DEF Entries
    <3>3. OpenIn(rs, f) = rs
      BY <1>1, <3>1 DEF OpenIn
    <3>4. Shown(rs, f) = {c}
      <4>1. OpenIn(rs, f) = {[key |-> n, closed |-> None]}
        BY <3>1, <3>3
      <4> HIDE DEF rs
      <4>2. Shown(rs, f) = {n[2]}
        BY <4>1, ShownOne
      <4> QED BY <1>1, <4>2
    <3>5. Right
      <4>1. rs \in SUBSET Entries /\ rs # {} /\ \A r \in rs : r.key[1] = f
        BY <1>1, <3>1, <3>2
      <4>2. Sound(rs)
        BY <3>1 DEF Sound
      <4> HIDE DEF rs
      <4> QED BY <3>4, <4>1, <4>2
    <3> QED BY <1>1, <2>1, <3>5 DEF Versions
  <2>3. CASE v # None
    <3>1. R!CapturedRows(v, f, c, fresh) =
              {[key |-> n, closed |-> None], [key |-> v, closed |-> "changed"]}
      BY <1>1, <1>4, <2>3 DEF R!CapturedRows, R!Row
    <3>2. v # n
      BY <1>1, <1>4, <2>3 DEF R!Same
    <3>3. /\ [key |-> n, closed |-> None] \in Entries
          /\ [key |-> v, closed |-> "changed"] \in Entries
      BY <1>1, <1>2, <2>3 DEF Entries
    <3>4. OpenIn(rs, f) = {[key |-> n, closed |-> None]}
      BY <1>1, <1>2, <3>1 DEF OpenIn
    <3>5. Shown(rs, f) = {c}
      <4> HIDE DEF rs
      <4>2. Shown(rs, f) = {n[2]}
        BY <3>4, ShownOne
      <4> QED BY <1>1, <4>2
    <3>6. Sound(rs)
      BY <1>2, <3>1, <3>2 DEF Sound
    <3>7. Right
      <4>1. rs \in SUBSET Entries /\ rs # {}
        BY <3>1, <3>3
      <4>2. \A r \in rs : r.key[1] = f
        BY <1>1, <1>2, <2>3, <3>1
      <4> HIDE DEF rs
      <4> QED BY <3>5, <3>6, <4>1, <4>2
    <3> QED BY <1>1, <2>1, <3>7 DEF Versions
  <2> QED BY <2>2, <2>3
<1> QED BY <1>3, <1>4

LEMMA ClosedIs ==
  ASSUME R!ConstantsAssumption, NEW f \in Followed, NEW v \in Versions(f) \cup {None}
  PROVE  LET rs == R!ClosedRows(v)
         IN  /\ rs \in SUBSET Entries /\ Sound(rs) /\ Shown(rs, f) = {}
             /\ \A r \in rs : r.key[1] = f
             /\ rs = {} => v = None
<1>1. "ended" # None /\ "ended" \in R!End
  BY DEF R!ConstantsAssumption, R!End
<1>2. CASE v = None
  BY <1>2 DEF R!ClosedRows, Sound, Shown, OpenIn
<1>3. CASE v # None
  <2>1. R!ClosedRows(v) = {[key |-> v, closed |-> "ended"]} /\ v \in Version /\ v[1] = f
    BY <1>3 DEF R!ClosedRows, R!Row, Versions
  <2>2. [key |-> v, closed |-> "ended"] \in Entries
    BY <1>1, <2>1 DEF Entries
  <2>3. OpenIn(R!ClosedRows(v), f) = {}
    BY <1>1, <2>1 DEF OpenIn
  <2>4. Shown(R!ClosedRows(v), f) = {}
    BY <2>3 DEF Shown
  <2> QED BY <2>1, <2>2, <2>4 DEF Sound
<1> QED BY <1>2, <1>3

LEMMA AppendTells ==
  ASSUME NEW T, NEW q \in Seq(T), NEW batch \in T, NEW f, NEW have, NEW want,
         IF Names(batch, f) THEN Shown(batch, f) = want ELSE Tells(q, have, f, want)
  PROVE  Tells(Append(q, batch), have, f, want)
<1> DEFINE n == Len(q) + 1
           b == Append(q, batch)
<1>1. /\ DOMAIN b = 1..n /\ DOMAIN q = 1..Len(q) /\ Len(q) \in Nat
      /\ b[n] = batch /\ \A i \in 1..Len(q) : b[i] = q[i]
  OBVIOUS
<1> HIDE DEF b
<1>2. CASE Names(batch, f)
  <2>1. ASSUME NEW i \in DOMAIN b, \A j \in DOMAIN b : j > i => ~Names(b[j], f)
        PROVE  i = n
    BY <1>1, <1>2, <2>1
  <2> QED BY <1>1, <1>2, <2>1 DEF Tells, b
<1>3. CASE ~Names(batch, f)
  <2>1. (\A i \in DOMAIN b : ~Names(b[i], f)) => have = want
    BY <1>1, <1>3 DEF Tells
  <2>2. ASSUME NEW i \in DOMAIN b, Names(b[i], f), \A j \in DOMAIN b : j > i => ~Names(b[j], f)
        PROVE  Shown(b[i], f) = want
    <3>1. i \in DOMAIN q /\ b[i] = q[i]
      BY <1>1, <1>3, <2>2
    <3>2. \A j \in DOMAIN q : j > i => ~Names(q[j], f)
      BY <1>1, <2>2
    <3> QED BY <1>3, <2>2, <3>1, <3>2 DEF Tells
  <2> QED BY <2>1, <2>2 DEF Tells, b
<1> QED BY <1>2, <1>3

LEMMA TailTells ==
  ASSUME NEW T, NEW q \in Seq(T), q # <<>>, NEW f, NEW have, NEW want, NEW told,
         Tells(q, have, f, want),
         told = IF Names(Head(q), f) THEN Shown(Head(q), f) ELSE have
  PROVE  Tells(Tail(q), told, f, want)
<1> DEFINE t == Tail(q)
<1>1. /\ DOMAIN q = 1..Len(q) /\ Len(q) \in Nat /\ Len(q) > 0
      /\ DOMAIN t = 1..(Len(q) - 1) /\ Head(q) = q[1]
      /\ \A i \in 1..(Len(q) - 1) : t[i] = q[i + 1]
  OBVIOUS
<1> HIDE DEF t
<1>2. ASSUME \A i \in DOMAIN t : ~Names(t[i], f) PROVE told = want
  <2>1. ASSUME NEW j \in DOMAIN q, j > 1 PROVE ~Names(q[j], f)
    <3>1. j - 1 \in DOMAIN t /\ t[j - 1] = q[(j - 1) + 1] /\ (j - 1) + 1 = j
      BY <1>1, <2>1
    <3> QED BY <1>2, <3>1
  <2>2. 1 \in DOMAIN q /\ \A j \in DOMAIN q : j = 1 \/ j > 1
    BY <1>1
  <2> QED BY <1>1, <2>1, <2>2 DEF Tells
<1>3. ASSUME NEW i \in DOMAIN t, Names(t[i], f), \A j \in DOMAIN t : j > i => ~Names(t[j], f)
      PROVE  Shown(t[i], f) = want
  <2>1. i + 1 \in DOMAIN q /\ t[i] = q[i + 1]
    BY <1>1
  <2>2. ASSUME NEW j \in DOMAIN q, j > i + 1 PROVE ~Names(q[j], f)
    <3>1. j - 1 \in DOMAIN t /\ t[j - 1] = q[(j - 1) + 1] /\ (j - 1) + 1 = j /\ j - 1 > i
      BY <1>1, <2>2
    <3> QED BY <1>3, <3>1
  <2> QED BY <1>3, <2>1, <2>2 DEF Tells
<1> QED BY <1>2, <1>3 DEF Tells, t

\* What an update of the snapshot writes of a finding, and the version it leaves it in.
Written(after, fresh, ends, refused) ==
    [f \in Followed |->
        IF f \in refused THEN {}
        ELSE IF after[f] # None THEN R!CapturedRows(active[f], f, after[f], f \in fresh)
        ELSE IF f \in ends THEN R!ClosedRows(active[f])
        ELSE {}]

Left(after, ends, refused) ==
    [f \in Followed |->
        IF f \in refused THEN active[f]
        ELSE IF after[f] # None THEN R!Captured(active[f], f, after[f])
        ELSE IF f \in ends THEN None ELSE active[f]]

\* Its rows are of the finding, and show what it now has; where there are none, nothing changed.
Explains(f, rs, v, after, ends, refused) ==
    /\ rs \in SUBSET Entries /\ Sound(rs)
    /\ \A r \in rs : r.key[1] = f
    /\ v \in Versions(f) \cup {None}
    /\ rs # {} => /\ Shown(rs, f) = {after[f]} \ {None}
                  /\ v = None <=> after[f] = None
                  /\ v # None => v[2] = after[f]
    /\ rs = {} /\ f \notin refused =>
            \/ v = active[f] /\ R!Same(active[f], after[f]) /\ after[f] # None
            \/ v = active[f] /\ after[f] = None /\ f \notin ends
            \/ v = None /\ active[f] = None /\ after[f] = None

LEMMA WrittenIs ==
  ASSUME R!ConstantsAssumption, RecorderType, NEW f \in Followed, NEW after \in Snapshots,
         NEW fresh, NEW ends, NEW refused, clock' \in Nat,
         refused \subseteq {g \in Followed : after[g] # None},
         ends \subseteq {g \in Followed : after[g] = None}
  PROVE  Explains(f, Written(after, fresh, ends, refused)[f], Left(after, ends, refused)[f],
              after, ends, refused)
<1> DEFINE rs == Written(after, fresh, ends, refused)[f]
           v == Left(after, ends, refused)[f]
           Right == Explains(f, rs, v, after, ends, refused)
<1>1. active[f] \in Versions(f) \cup {None} /\ after[f] \in Content \cup {None}
  BY DEF RecorderType, Snapshots
<1>2. Sound({})
  BY DEF Sound
<1>3. ASSUME f \in refused PROVE Right
  BY <1>1, <1>2, <1>3 DEF Written, Left, Explains
<1>4. ASSUME f \notin refused, after[f] # None PROVE Right
  <2>1. /\ rs = R!CapturedRows(active[f], f, after[f], f \in fresh)
        /\ v = R!Captured(active[f], f, after[f])
    BY <1>4 DEF Written, Left
  <2>2. {after[f]} = {after[f]} \ {None}
    BY <1>4
  <2>3. PICK b \in BOOLEAN : rs = R!CapturedRows(active[f], f, after[f], b)
    <3>1. CASE f \in fresh
      <4>1. rs = R!CapturedRows(active[f], f, after[f], TRUE)
        BY <2>1, <3>1 DEF R!CapturedRows
      <4> HIDE DEF rs
      <4> QED BY <4>1
    <3>2. CASE f \notin fresh
      <4>1. rs = R!CapturedRows(active[f], f, after[f], FALSE)
        BY <2>1, <3>2 DEF R!CapturedRows
      <4> HIDE DEF rs
      <4> QED BY <4>1
    <3> QED BY <3>1, <3>2
  <2>4. R!Same(active[f], after[f]) => v = active[f]
    BY <2>1 DEF R!Captured
  <2> HIDE DEF rs, v
  <2>5. /\ rs \in SUBSET Entries /\ Sound(rs) /\ \A r \in rs : r.key[1] = f
        /\ rs # {} => Shown(rs, f) = {after[f]} \ {None}
    BY <1>1, <1>4, <2>2, <2>3, CapturedIs
  <2>6. /\ v \in Versions(f) /\ v # None /\ v[2] = after[f]
        /\ rs = {} => R!Same(active[f], after[f])
    BY <1>1, <1>4, <2>1, <2>3, CapturedIs
  <2> QED BY <1>4, <2>4, <2>5, <2>6 DEF Explains
<1>5. ASSUME f \notin refused, after[f] = None, f \in ends PROVE Right
  <2>1. rs = R!ClosedRows(active[f]) /\ v = None
    BY <1>5 DEF Written, Left
  <2>2. {} = {after[f]} \ {None}
    BY <1>5
  <2> HIDE DEF rs, v
  <2>3. /\ rs \in SUBSET Entries /\ Sound(rs) /\ \A r \in rs : r.key[1] = f
        /\ Shown(rs, f) = {after[f]} \ {None} /\ (rs = {} => active[f] = None)
    BY <1>1, <2>1, <2>2, ClosedIs
  <2> QED BY <1>5, <2>1, <2>3 DEF Explains
<1>6. ASSUME f \notin refused, after[f] = None, f \notin ends PROVE Right
  BY <1>1, <1>2, <1>6 DEF Written, Left, Explains
<1> QED BY <1>3, <1>4, <1>5, <1>6

LEMMA UpdateHolds ==
  ASSUME R!ConstantsAssumption, RecorderInv, NEW after \in Snapshots,
         NEW fresh, NEW ends, NEW refused, NEW dropped, clock' \in Nat,
         refused \subseteq {f \in Followed : after[f] # None},
         ends \subseteq {f \in Followed : after[f] = None},
         R!Update(after, fresh, ends, refused, dropped), UNCHANGED <<saved, rows>>
  PROVE  RecorderInv'
<1> DEFINE rs == Written(after, fresh, ends, refused)
           left == Left(after, ends, refused)
           batch == {r \in UNION {rs[f] : f \in Followed} : r.closed \notin dropped}
           lost == {f \in Followed : f \in refused \/ (~(rs[f] \subseteq batch))}
           silent == {f \in Followed : open[f] # None /\
                                     f \notin {g \in Followed : after[g] # None} \cup ends}
           mended == {f \in Followed : rs[f] # {} /\ rs[f] \subseteq batch}
<1>1. open' = after /\ active' = left
  BY DEF R!Update, Left
<1>2. \/ /\ queue' = queue
         /\ astray' = astray \cup lost \cup silent \cup {f \in Followed : rs[f] # {}}
      \/ /\ queue' = Append(queue, batch)
         /\ astray' = (astray \ mended) \cup lost \cup silent
  <2> DEFINE present == {f \in Followed : after[f] # None}
  <2> DEFINE each == [f \in Followed |->
                        IF f \in refused THEN {}
                        ELSE IF f \in present
                             THEN R!CapturedRows(active[f], f, after[f], f \in fresh)
                        ELSE IF f \in ends THEN R!ClosedRows(active[f])
                        ELSE {}]
             some == {r \in UNION {each[f] : f \in Followed} : r.closed \notin dropped}
  <2>1. IF R!Full \/ some = {}
        THEN /\ UNCHANGED queue
             /\ astray' = astray \cup {f \in Followed : f \in refused \/ (~(each[f] \subseteq some))}
                               \cup {f \in Followed : open[f] # None /\ f \notin present \cup ends}
                               \cup {f \in Followed : each[f] # {}}
        ELSE /\ queue' = Append(queue, some)
             /\ astray' = (astray \ {f \in Followed : each[f] # {} /\ each[f] \subseteq some})
                            \cup {f \in Followed : f \in refused \/ (~(each[f] \subseteq some))}
                            \cup {f \in Followed : open[f] # None /\ f \notin present \cup ends}
    BY DEF R!Update
  <2>2. each = rs
    BY DEF Written
  <2> HIDE DEF rs, each
  <2> QED BY <2>1, <2>2
<1>3. ASSUME NEW f \in Followed PROVE Explains(f, rs[f], left[f], after, ends, refused)
  BY WrittenIs DEF RecorderInv
<1>0. DOMAIN left = Followed /\ left = [f \in Followed |-> left[f]]
  BY DEF Left
<1> HIDE DEF rs, left
<1>4. batch \in SUBSET Entries
  BY <1>3 DEF Explains
<1>5. Sound(batch)
  <2>1. ASSUME NEW r \in batch PROVE r.key[1] \in Followed /\ r \in rs[r.key[1]]
    BY <1>3 DEF Explains
  <2>2. ASSUME NEW r \in batch, NEW q \in batch, r.key[1] = q.key[1]
        PROVE  /\ r.key = q.key => r = q
               /\ r.closed = None /\ q.closed = None => r = q
    <3> DEFINE f == r.key[1]
    <3>1. r \in rs[f] /\ q \in rs[f] /\ f \in Followed
      BY <2>1, <2>2
    <3>2. Sound(rs[f])
      BY <1>3, <3>1 DEF Explains
    <3> QED BY <2>2, <3>1, <3>2 DEF Sound
  <2> QED BY <2>2 DEF Sound
<1>6. RecorderType'
  <2>1. left \in [Followed -> Version \cup {None}]
    BY <1>0, <1>3 DEF Explains, Versions
  <2>2. \A f \in Followed : left[f] # None => left[f] \in Versions(f)
    BY <1>3 DEF Explains
  <2>3. queue' \in Seq(SUBSET Entries) /\ \A i \in DOMAIN queue' : Sound(queue'[i])
    <3>1. /\ queue \in Seq(SUBSET Entries) /\ batch \in SUBSET Entries
          /\ \A i \in DOMAIN queue : Sound(queue[i])
      BY <1>4 DEF RecorderInv, RecorderType
    <3> HIDE DEF batch
    <3> QED BY <1>2, <1>5, <3>1
  <2> QED BY <1>1, <2>1, <2>2, <2>3 DEF RecorderInv, RecorderType
<1>7. OneOpen'
  BY DEF RecorderInv, OneOpen
<1>8. ASSUME NEW f \in Followed, f \notin astray' PROVE Follows(f)'
  <2> DEFINE have == {k[2] : k \in R!OpenRows(f)}
  <2>1. have' = have
    BY DEF R!OpenRows
  <2>2. CASE rs[f] = {}
    <3>1. f \notin refused /\ f \notin silent /\ Follows(f)
      BY <1>2, <1>8, <2>2 DEF RecorderInv
    <3>2. left[f] = active[f] /\ after[f] = open[f]
      BY <1>3, <2>2, <3>1 DEF Explains, Follows, R!Same
    <3>3. ~Names(batch, f)
      BY <1>3, <2>2 DEF Explains, Names
    <3>4. Tells(queue, have, f, {after[f]} \ {None})
      BY <3>1, <3>2 DEF Follows
    <3>5. Tells(Append(queue, batch), have, f, {after[f]} \ {None})
      <4> HIDE DEF batch, have
      <4> QED BY <1>4, <3>3, <3>4, AppendTells DEF RecorderInv, RecorderType
    <3>6. Tells(queue', have', f, {open'[f]} \ {None})
      BY <1>1, <1>2, <2>1, <3>4, <3>5
    <3> HIDE DEF have
    <3> QED BY <1>1, <3>1, <3>2, <3>6 DEF Follows, have
  <2>3. CASE rs[f] # {}
    <3>1. queue' = Append(queue, batch) /\ rs[f] \subseteq batch
      BY <1>2, <1>8, <2>3
    <3>2. OpenIn(batch, f) = OpenIn(rs[f], f) /\ Names(batch, f)
      BY <1>3, <2>3, <3>1 DEF Explains, OpenIn, Names
    <3>3. Shown(batch, f) = {after[f]} \ {None}
      <4>1. Shown(rs[f], f) = {after[f]} \ {None}
        BY <1>3, <2>3 DEF Explains
      <4> HIDE DEF batch
      <4> QED BY <3>2, <4>1 DEF Shown
    <3>4. Tells(Append(queue, batch), have, f, {after[f]} \ {None})
      <4> HIDE DEF batch, have
      <4> QED BY <1>4, <3>2, <3>3, AppendTells DEF RecorderInv, RecorderType
    <3>5. Tells(queue', have', f, {open'[f]} \ {None})
      BY <1>1, <2>1, <3>1, <3>4
    <3>6. /\ active'[f] = None <=> open'[f] = None
          /\ active'[f] # None => active'[f][2] = open'[f]
      <4>1. /\ left[f] = None <=> after[f] = None
            /\ left[f] # None => left[f][2] = after[f]
        BY <1>3, <2>3 DEF Explains
      <4> QED BY <1>1, <4>1
    <3> HIDE DEF have
    <3> QED BY <3>5, <3>6 DEF Follows, have
  <2> QED BY <2>2, <2>3
<1> QED BY <1>6, <1>7, <1>8 DEF RecorderInv

LEMMA WriteHolds ==
  ASSUME R!ConstantsAssumption, RecorderInv, R!Write
  PROVE  RecorderInv'
<1> DEFINE batch == Head(queue)
           keys == {r.key : r \in batch}
<1>1. /\ queue # <<>> /\ queue' = Tail(queue)
      /\ rows' = [k \in keys \cup DOMAIN rows |->
                    IF k \in keys THEN CHOOSE r \in batch : r.key = k
                    ELSE R!Superseded(batch)[k]]
      /\ UNCHANGED <<clock, open, saved, active, astray>>
  BY DEF R!Write
<1>2. /\ queue \in Seq(SUBSET Entries) /\ DOMAIN rows \subseteq Version
      /\ \A k \in DOMAIN rows : rows[k] \in [key : Version, closed : R!End \cup {"superseded"}]
      /\ \A i \in DOMAIN queue : Sound(queue[i])
  BY DEF RecorderInv, RecorderType
<1>3. batch \in SUBSET Entries /\ Sound(batch)
  BY <1>1, <1>2
<1> HIDE DEF batch
<1>4. /\ \A r \in batch : r.key \in Version /\ r.closed \in R!End
      /\ keys \subseteq Version
  BY <1>3 DEF Entries
<1>5. /\ DOMAIN rows' = keys \cup DOMAIN rows
      /\ \A k \in keys : rows'[k] = CHOOSE r \in batch : r.key = k
      /\ \A k \in DOMAIN rows \ keys : rows'[k] = R!Superseded(batch)[k]
  BY <1>1
<1>6. ASSUME NEW k \in keys PROVE rows'[k] \in batch /\ rows'[k].key = k
  <2>1. \E r \in batch : r.key = k
    OBVIOUS
  <2>2. (CHOOSE r \in batch : r.key = k) \in batch /\ (CHOOSE r \in batch : r.key = k).key = k
    BY <2>1
  <2> QED BY <1>5, <2>2
<1>7. ASSUME NEW k \in DOMAIN rows \ keys
      PROVE  /\ rows'[k] \in [key : Version, closed : R!End \cup {"superseded"}]
             /\ rows'[k].closed = None <=> rows[k].closed = None /\ ~Names(batch, k[1])
  <2>1. Names(batch, k[1]) <=> k[1] \in R!Continuing(batch)
    BY DEF Names, R!Continuing
  <2>2. /\ rows[k] \in [key : Version, closed : R!End \cup {"superseded"}]
        /\ rows'[k] = IF k[1] \in R!Continuing(batch) /\ rows[k].closed = None
                      THEN [rows[k] EXCEPT !.closed = "superseded"] ELSE rows[k]
    BY <1>2, <1>5 DEF R!Superseded
  <2>3. "superseded" # None
    BY DEF R!ConstantsAssumption
  <2> QED BY <2>1, <2>2, <2>3
<1>8. ASSUME NEW k \in keys
      PROVE  /\ rows'[k] \in batch /\ rows'[k].key = k /\ Names(batch, k[1])
             /\ rows'[k] \in [key : Version, closed : R!End \cup {"superseded"}]
  <2>1. rows'[k] \in batch /\ rows'[k].key = k
    BY <1>6
  <2> QED BY <1>3, <2>1 DEF Names, Entries
<1>9. ASSUME NEW k \in DOMAIN rows', rows'[k].closed = None
      PROVE  IF Names(batch, k[1]) THEN k \in keys
             ELSE k \in DOMAIN rows /\ rows[k].closed = None
  <2>1. CASE k \in keys
    BY <1>8, <2>1
  <2>2. CASE k \notin keys
    BY <1>5, <1>7, <1>9, <2>2
  <2> QED BY <2>1, <2>2
<1>10. RecorderType'
  <2>1. queue' \in Seq(SUBSET Entries) /\ \A i \in DOMAIN queue' : Sound(queue'[i])
    BY <1>1, <1>2
  <2>2. /\ DOMAIN rows' \subseteq Version
        /\ \A k \in DOMAIN rows' :
                rows'[k] \in [key : Version, closed : R!End \cup {"superseded"}]
    <3> HIDE DEF keys
    <3> QED BY <1>2, <1>4, <1>5, <1>7, <1>8
  <2> QED BY <1>1, <2>1, <2>2 DEF RecorderInv, RecorderType
<1>11. OneOpen'
  <2>1. ASSUME NEW k \in DOMAIN rows', NEW l \in DOMAIN rows', k[1] = l[1],
               rows'[k].closed = None, rows'[l].closed = None
        PROVE  k = l
    <3>1. CASE Names(batch, k[1])
      <4>1. k \in keys /\ l \in keys
        BY <1>9, <2>1, <3>1
      <4>2. rows'[k] = rows'[l]
        BY <1>3, <1>8, <2>1, <4>1 DEF Sound
      <4> QED BY <1>8, <4>1, <4>2
    <3>2. CASE ~Names(batch, k[1])
      BY <1>9, <2>1, <3>2 DEF RecorderInv, OneOpen
    <3> QED BY <3>1, <3>2
  <2> QED BY <2>1 DEF OneOpen
<1>12. ASSUME NEW f \in Followed, f \notin astray' PROVE Follows(f)'
  <2> DEFINE have == {k[2] : k \in R!OpenRows(f)}
  <2>1. Follows(f)
    BY <1>1, <1>12 DEF RecorderInv
  <2>2. ASSUME Names(batch, f) PROVE have' = Shown(batch, f)
    <3>1. R!OpenRows(f)' = {r.key : r \in OpenIn(batch, f)}
      <4>1. ASSUME NEW k \in R!OpenRows(f)' PROVE \E r \in OpenIn(batch, f) : k = r.key
        <5>1. k \in DOMAIN rows' /\ k[1] = f /\ rows'[k].closed = None
          BY <4>1 DEF R!OpenRows
        <5>2. rows'[k] \in batch /\ rows'[k].key = k
          BY <1>8, <1>9, <2>2, <5>1
        <5> QED BY <5>1, <5>2 DEF OpenIn
      <4>2. ASSUME NEW r \in OpenIn(batch, f) PROVE r.key \in R!OpenRows(f)'
        <5>1. r \in batch /\ r.key[1] = f /\ r.closed = None /\ r.key \in keys
          BY <4>2 DEF OpenIn
        <5>2. rows'[r.key] \in batch /\ rows'[r.key].key = r.key
          BY <1>8, <5>1
        <5>3. rows'[r.key] = r /\ r.key \in DOMAIN rows'
          BY <1>3, <1>5, <5>1, <5>2 DEF Sound
        <5> QED BY <5>1, <5>3 DEF R!OpenRows
      <4> QED BY <4>1, <4>2
    <3> QED BY <3>1 DEF Shown
  <2>3. ASSUME ~Names(batch, f) PROVE have' = have
    <3>1. R!OpenRows(f)' = R!OpenRows(f)
      <4>1. ASSUME NEW k \in keys PROVE k[1] # f
        BY <1>8, <2>3
      <4>2. ASSUME NEW k \in DOMAIN rows', k[1] = f
            PROVE  k \in DOMAIN rows /\ (rows'[k].closed = None <=> rows[k].closed = None)
        <5>1. k \in DOMAIN rows \ keys
          BY <1>5, <4>1, <4>2
        <5> QED BY <1>7, <2>3, <4>2, <5>1
      <4>3. DOMAIN rows \subseteq DOMAIN rows'
        BY <1>5
      <4> QED BY <4>2, <4>3 DEF R!OpenRows
    <3> QED BY <3>1
  <2>4. Tells(queue', have', f, {open[f]} \ {None})
    <3>1. /\ queue \in Seq(SUBSET Entries) /\ queue # <<>>
          /\ Tells(queue, have, f, {open[f]} \ {None})
      BY <1>1, <1>2, <2>1 DEF Follows
    <3>2. have' = IF Names(Head(queue), f) THEN Shown(Head(queue), f) ELSE have
      BY <2>2, <2>3 DEF batch
    <3> HIDE DEF have
    <3> QED BY <1>1, <3>1, <3>2, TailTells
  <2> HIDE DEF have
  <2> QED BY <1>1, <2>1, <2>4 DEF Follows, have
<1> QED BY <1>10, <1>11, <1>12 DEF RecorderInv

LEMMA RestartHolds ==
  ASSUME R!ConstantsAssumption, RecorderInv, R!Restart
  PROVE  RecorderInv'
<1> DEFINE Resumed == {f \in Followed : saved.open[f] # None}
           version(f) == <<f, saved.open[f], clock'>>
           batch == {[key |-> version(f), closed |-> None] : f \in Resumed}
<1>1. /\ saved.open \in Snapshots /\ saved.now \in Nat /\ queue \in Seq(SUBSET Entries)
  BY DEF RecorderInv, RecorderType
<1>2. /\ clock' = saved.now /\ open' = saved.open /\ UNCHANGED <<saved, rows>>
      /\ active' = [f \in Followed |-> IF f \in Resumed THEN version(f) ELSE None]
      /\ queue' = IF batch = {} THEN <<>> ELSE <<batch>>
      /\ \A f \in Followed \ Resumed : f \notin astray' => R!OpenRows(f) = {}
  <2>1. /\ clock' = saved.now /\ open' = saved.open /\ UNCHANGED <<saved, rows>>
        /\ active' = [f \in Followed |-> IF f \in Resumed THEN version(f) ELSE None]
    BY DEF R!Restart, R!NewVersion
  <2>2. queue' = IF batch = {} THEN <<>> ELSE <<batch>>
    BY DEF R!Restart, R!NewVersion, R!Row
  <2>3. ASSUME NEW f \in Followed \ Resumed, f \notin astray' PROVE R!OpenRows(f) = {}
    <3>1. ~\E k \in DOMAIN rows : k[1] = f /\ rows[k].closed = None
      BY <2>3 DEF R!Restart
    <3> QED BY <3>1 DEF R!OpenRows
  <2> QED BY <2>1, <2>2, <2>3
<1>3. ASSUME NEW f \in Resumed
      PROVE  /\ version(f) \in Version /\ version(f)[1] = f /\ version(f)[2] = saved.open[f]
             /\ version(f) \in Versions(f) /\ version(f) # None
  BY <1>1, <1>2 DEF Version, Versions, Snapshots, R!ConstantsAssumption
<1> HIDE DEF version
<1>4. ASSUME NEW f \in Resumed
      PROVE  LET r == [key |-> version(f), closed |-> None]
             IN  r \in Entries /\ r.key = version(f)
  BY <1>3 DEF Entries, R!End
<1>5. batch \in SUBSET Entries /\ Sound(batch)
  <2>1. batch \in SUBSET Entries
    BY <1>4
  <2>2. ASSUME NEW r \in batch, NEW q \in batch, r.key[1] = q.key[1] PROVE r = q
    <3>1. PICK f \in Resumed : r = [key |-> version(f), closed |-> None]
      OBVIOUS
    <3>2. PICK g \in Resumed : q = [key |-> version(g), closed |-> None]
      OBVIOUS
    <3>3. f = g
      BY <1>3, <2>2, <3>1, <3>2
    <3> QED BY <3>1, <3>2, <3>3
  <2> QED BY <2>1, <2>2 DEF Sound
<1>6. ASSUME NEW f \in Resumed
      PROVE  Names(batch, f) /\ Shown(batch, f) = {saved.open[f]}
  <2>1. Names(batch, f)
    <3>1. \E r \in batch : r.key = version(f)
      BY <1>4
    <3> QED BY <1>3, <3>1 DEF Names
  <2>2. OpenIn(batch, f) = {[key |-> version(f), closed |-> None]}
    BY <1>3 DEF OpenIn
  <2>3. Shown(batch, f) = {version(f)[2]}
    <3> HIDE DEF batch
    <3> QED BY <2>2, ShownOne
  <2> QED BY <1>3, <2>1, <2>3
<1>7. ASSUME NEW f \in Followed \ Resumed PROVE ~Names(batch, f)
  BY <1>3 DEF Names
<1> HIDE DEF batch
<1>8. RecorderType'
  <2>1. active' \in [Followed -> Version \cup {None}]
    BY <1>2, <1>3
  <2>2. \A f \in Followed : active'[f] # None => active'[f] \in Versions(f)
    BY <1>2, <1>3
  <2>3. queue' \in Seq(SUBSET Entries) /\ \A i \in DOMAIN queue' : Sound(queue'[i])
    <3>1. CASE batch = {}
      BY <1>2, <3>1
    <3>2. CASE batch # {}
      <4>1. queue' = <<batch>>
        BY <1>2, <3>2
      <4> QED BY <1>5, <4>1
    <3> QED BY <3>1, <3>2
  <2> QED BY <1>1, <1>2, <2>1, <2>2, <2>3 DEF RecorderInv, RecorderType
<1>9. OneOpen'
  BY <1>2 DEF RecorderInv, OneOpen
<1>10. ASSUME NEW f \in Followed, f \notin astray' PROVE Follows(f)'
  <2> DEFINE have == {k[2] : k \in R!OpenRows(f)}
  <2>1. CASE f \in Resumed
    <3>1. queue' = <<batch>>
      BY <1>2, <1>6, <2>1 DEF Names
    <3>2. {saved.open[f]} \ {None} = {saved.open[f]}
      BY <2>1
    <3>3. Tells(<<batch>>, have', f, {saved.open[f]})
      BY <1>6, <2>1 DEF Tells
    <3>4. active'[f] # None /\ active'[f][2] = saved.open[f] /\ saved.open[f] # None
      BY <1>2, <1>3, <2>1
    <3> HIDE DEF have
    <3> QED BY <1>2, <3>1, <3>2, <3>3, <3>4 DEF Follows, have
  <2>2. CASE f \notin Resumed
    <3>1. have' = {}
      <4>1. R!OpenRows(f)' = R!OpenRows(f)
        BY <1>2 DEF R!OpenRows
      <4> QED BY <1>2, <1>10, <2>2, <4>1
    <3>2. \A i \in DOMAIN queue' : ~Names(queue'[i], f)
      BY <1>2, <1>7, <2>2
    <3>3. Tells(queue', {}, f, {})
      BY <3>2 DEF Tells
    <3>4. saved.open[f] = None /\ active'[f] = None
      BY <1>2, <2>2
    <3> HIDE DEF have
    <3> QED BY <1>2, <3>1, <3>3, <3>4 DEF Follows, have
  <2> QED BY <2>1, <2>2
<1> QED BY <1>8, <1>9, <1>10 DEF RecorderInv

LEMMA RecorderStep ==
  R!ConstantsAssumption /\ RecorderInv /\ [R!Next]_R!rvars => RecorderInv'
<1> SUFFICES ASSUME R!ConstantsAssumption, RecorderInv, [R!Next]_R!rvars
             PROVE  RecorderInv'
  OBVIOUS
<1>1. clock \in Nat /\ open \in Snapshots
  BY DEF RecorderInv, RecorderType
<1>2. ASSUME R!Publish PROVE RecorderInv'
  <2>1. PICK after \in Snapshots, fresh \in SUBSET Followed, refused \in SUBSET Followed,
             dropped \in SUBSET R!End :
          /\ \A f \in refused : after[f] # None
          /\ R!Update(after, fresh, {f \in Followed : open[f] # None /\ after[f] = None},
                      refused, dropped)
    BY <1>2 DEF R!Publish, Snapshots
  <2>2. clock' \in Nat /\ UNCHANGED <<saved, rows>>
    BY <1>1, <1>2 DEF R!Publish
  <2> QED BY <2>1, <2>2, UpdateHolds
<1>3. ASSUME R!Reload PROVE RecorderInv'
  <2>1. PICK gone \in SUBSET Followed :
          R!Update([f \in Followed |-> IF f \in gone THEN None ELSE open[f]], {}, {}, {}, {})
    BY <1>3 DEF R!Reload
  <2>2. [f \in Followed |-> IF f \in gone THEN None ELSE open[f]] \in Snapshots
    BY <1>1 DEF Snapshots
  <2>3. clock' \in Nat /\ UNCHANGED <<saved, rows>>
    BY <1>1, <1>3 DEF R!Reload
  <2> QED BY <2>1, <2>2, <2>3, UpdateHolds
<1>4. ASSUME R!Save \/ UNCHANGED R!rvars PROVE RecorderInv'
  <2>1. /\ UNCHANGED <<clock, open, active, queue, rows, astray>>
        /\ saved' = saved \/ saved' = [now |-> clock, open |-> open]
    BY <1>4 DEF R!Save, R!rvars
  <2>2. saved' \in [now : Nat, open : Snapshots]
    BY <1>1, <2>1 DEF RecorderInv, RecorderType
  <2>3. RecorderType'
    BY <2>1, <2>2 DEF RecorderInv, RecorderType
  <2>4. OneOpen' /\ \A f \in Followed \ astray' : Follows(f)'
    BY <2>1 DEF RecorderInv, OneOpen, Follows, R!OpenRows
  <2> QED BY <2>3, <2>4 DEF RecorderInv
<1> QED BY <1>2, <1>3, <1>4, WriteHolds, RestartHolds DEF R!Next

\* Once the journal is written the history shows of each finding one interval, with the
\* details it has, or none when it is closed, unless a record of it was lost or it left
\* without a transition: for any findings, batches, losses, reloads and restarts
\* (query_recorder.rs, query_publish.rs, query_write.rs).
THEOREM HistoryIsTrue ==
  ASSUME R!ConstantsAssumption
  PROVE  R!Spec => []HistoryAgrees
<1>1. R!Init => RecorderInv
  BY RecorderStarts
<1>2. RecorderInv /\ [R!Next]_R!rvars => RecorderInv'
  BY RecorderStep
<1>3. RecorderInv => HistoryAgrees
  <2> SUFFICES ASSUME RecorderInv PROVE HistoryAgrees
    OBVIOUS
  <2>1. R!OneOpenInterval
    <3>1. ASSUME NEW f \in Followed PROVE R!Cardinality(R!OpenRows(f)) <= 1
      <4>1. \A k, l \in R!OpenRows(f) : k = l
        BY DEF RecorderInv, OneOpen, R!OpenRows
      <4>2. R!OpenRows(f) = {} \/ \E k : R!OpenRows(f) = {k}
        BY <4>1
      <4>3. Cardinality(R!OpenRows(f)) <= 1
        <5>1. CASE R!OpenRows(f) = {}
          BY <5>1, FS_EmptySet
        <5>2. CASE \E k : R!OpenRows(f) = {k}
          <6>1. PICK k : R!OpenRows(f) = {k}
            BY <5>2
          <6>2. Cardinality({k}) = 1
            BY FS_Singleton
          <6> QED BY <6>1, <6>2
        <5> QED BY <4>2, <5>1, <5>2
      <4> QED BY <4>3 DEF Cardinality, R!Cardinality
    <3> QED BY <3>1 DEF R!OneOpenInterval
  <2>2. R!HistoryAgrees
    BY DEF RecorderInv, Follows, Tells, R!HistoryAgrees
  <2> QED BY <2>1, <2>2 DEF HistoryAgrees
<1> QED BY <1>1, <1>2, <1>3, PTL DEF R!Spec

-----------------------------------------------------------------------------
(* Calls: one call and its attempts.                                       *)

\* What an attempt comes to.
Reply == {"ok", "limit", "malformed", "authentication", "denied"} \cup C!Retryable

Conclusive(i) == answers[i] \notin C!Retryable

CallInv ==
    /\ style \in {"http", "kube"}
    /\ time \in 0..OperationTime
    /\ attempt \in 0..(Attempts - 1)
    /\ answers \in Seq(Reply)
    /\ phase = "pause" => attempt + 1 < Attempts
    /\ permit => phase = "sent"
    /\ phase # "done" => outcome = "none" /\ \A i \in DOMAIN answers : ~Conclusive(i)
    /\ C!OrderlyCall

\* The way a call goes on or ends after an error.
LEMMA EndsHolds ==
  ASSUME C!ConstantsAssumption, CallInv, phase # "done", NEW o \in Reply, o # "ok",
         C!Ends(o), UNCHANGED answers, o \in C!Retryable
  PROVE  CallInv'
<1>1. CASE C!Again(o)
  BY <1>1 DEF C!Ends, C!Again, CallInv, Conclusive, C!OrderlyCall, C!Retryable, C!ConstantsAssumption
<1>2. CASE ~C!Again(o)
  BY <1>2 DEF C!Ends, C!Again, CallInv, Conclusive, C!OrderlyCall, C!Retryable, C!ConstantsAssumption
<1> QED BY <1>1, <1>2

LEMMA AnswerEnds ==
  ASSUME C!ConstantsAssumption, CallInv, phase # "done", NEW o \in Reply,
         answers' = Append(answers, o),
         \/ C!Ends(o)
         \/ /\ o \in C!Retryable /\ phase' = "cooldown" /\ permit' = FALSE
            /\ UNCHANGED <<style, attempt, time, outcome>>
  PROVE  CallInv'
<1>1. /\ answers \in Seq(Reply) /\ \A i \in DOMAIN answers : ~Conclusive(i)
      /\ outcome = "none"
  BY DEF CallInv
<1>2. /\ answers' \in Seq(Reply) /\ Len(answers') = Len(answers) + 1
      /\ DOMAIN answers' = 1..(Len(answers) + 1) /\ Len(answers) \in Nat
      /\ answers'[Len(answers) + 1] = o
      /\ \A i \in DOMAIN answers' : i # Len(answers) + 1 => answers'[i] \in C!Retryable
  BY <1>1 DEF Conclusive
<1>3. C!Last(answers') = o
  BY <1>2 DEF C!Last
<1>4. CASE C!Ends(o) /\ ~C!Again(o)
  <2>1. phase' = "done" /\ outcome' = o /\ permit' = FALSE /\ UNCHANGED <<style, attempt, time>>
    BY <1>4 DEF C!Ends
  <2>2. o \in C!Retryable => attempt + 1 = Attempts
    BY <1>4 DEF C!Again, CallInv, C!ConstantsAssumption
  <2>3. C!OrderlyCall'
    BY <1>2, <1>3, <2>1, <2>2 DEF CallInv, C!OrderlyCall
  <2> QED BY <1>2, <2>1, <2>3 DEF CallInv
<1>5. ASSUME ~(C!Ends(o) /\ ~C!Again(o)) PROVE CallInv'
  <2>1. /\ o \in C!Retryable /\ phase' # "done" /\ permit' = FALSE
        /\ UNCHANGED <<style, attempt, time, outcome>>
        /\ phase' = "pause" => attempt + 1 < Attempts
    BY <1>5 DEF C!Ends, C!Again
  <2>2. \A i \in DOMAIN answers' : answers'[i] \in C!Retryable
    BY <1>2, <2>1
  <2>3. C!OrderlyCall'
    BY <1>1, <2>1, <2>2 DEF CallInv, C!OrderlyCall, C!Retryable
  <2> QED BY <1>1, <1>2, <2>1, <2>2, <2>3 DEF CallInv, Conclusive
<1> QED BY <1>4, <1>5

LEMMA CallStep ==
  C!ConstantsAssumption /\ CallInv /\ [C!Next]_C!vars => CallInv'
<1> SUFFICES ASSUME C!ConstantsAssumption, CallInv, [C!Next]_C!vars PROVE CallInv'
  OBVIOUS
<1>1. ASSUME C!Acquire PROVE CallInv'
  BY <1>1 DEF C!Acquire, CallInv, Conclusive, C!OrderlyCall
<1>2. ASSUME C!Expires PROVE CallInv'
  <2>1. phase # "done" /\ answers' = Append(answers, "timeout") /\ C!Ends("timeout")
    BY <1>2 DEF C!Expires
  <2>2. PICK o \in Reply : o = "timeout"
    BY DEF Reply, C!Retryable
  <2>3. answers' = Append(answers, o) /\ C!Ends(o)
    BY <2>1, <2>2
  <2> QED BY <2>1, <2>3, AnswerEnds
<1>3. ASSUME C!Cooled PROVE CallInv'
  <2>1. phase # "done" /\ UNCHANGED answers /\ C!Ends("throttled")
    BY <1>3 DEF C!Cooled
  <2>2. PICK o \in Reply : o = "throttled"
    BY DEF Reply, C!Retryable
  <2>3. C!Ends(o) /\ o \in C!Retryable /\ o # "ok"
    BY <2>1, <2>2 DEF C!Retryable
  <2> QED BY <2>1, <2>3, EndsHolds
<1>4. ASSUME C!Resume PROVE CallInv'
  BY <1>4 DEF C!Resume, CallInv, Conclusive, C!OrderlyCall, C!ConstantsAssumption, C!Retryable
<1>5. ASSUME C!Deadline PROVE CallInv'
  <2>1. CASE style = "http"
    <3>1. phase # "done" /\ UNCHANGED answers /\ C!Ends("timeout")
      BY <1>5, <2>1 DEF C!Deadline
    <3>2. PICK o \in Reply : o = "timeout"
      BY DEF Reply, C!Retryable
    <3>3. C!Ends(o) /\ o \in C!Retryable /\ o # "ok"
      BY <3>1, <3>2 DEF C!Retryable
    <3> QED BY <3>1, <3>3, EndsHolds
  <2>2. CASE style # "http"
    <3>1. phase # "done" /\ time >= OperationTime /\ C!Done("timeout")
      BY <1>5, <2>2 DEF C!Deadline
    <3>2. time = OperationTime
      BY <3>1 DEF CallInv, C!ConstantsAssumption
    <3> QED BY <3>1, <3>2 DEF C!Done, CallInv, Conclusive, C!OrderlyCall, C!Retryable
  <2> QED BY <2>1, <2>2
<1>6. ASSUME C!Cancel PROVE CallInv'
  BY <1>6 DEF C!Cancel, CallInv, Conclusive, C!OrderlyCall
<1>7. ASSUME C!Stop PROVE CallInv'
  BY <1>7 DEF C!Stop, C!Done, CallInv, Conclusive, C!OrderlyCall, C!Retryable
<1>8. ASSUME C!Tick PROVE CallInv'
  <2>1. time < OperationTime
    BY <1>8 DEF C!Tick, C!Due, CallInv, C!ConstantsAssumption
  <2>2. time' \in 0..OperationTime /\ phase # "done"
        /\ UNCHANGED <<style, attempt, phase, permit, answers, outcome>>
    BY <1>8, <2>1 DEF C!Tick, CallInv, C!ConstantsAssumption
  <2> QED BY <2>2 DEF CallInv, Conclusive, C!OrderlyCall, C!Retryable, C!ConstantsAssumption
<1>9. ASSUME NEW a \in C!Answer, NEW retryAfter \in BOOLEAN, C!Answered(a, retryAfter)
      PROVE  CallInv'
  <2> DEFINE o == C!Meaning(a)
  <2>1. o \in Reply /\ ("status" \in DOMAIN a /\ a.status = 429 => o = "throttled")
    <3>1. CASE a \in [body : {"ok", "limit", "malformed", "unavailable"}]
      <4>1. DOMAIN a = {"body"} /\ a.body \in {"ok", "limit", "malformed", "unavailable"}
        BY <3>1
      <4>2. a.body \in Reply
        BY <4>1 DEF Reply, C!Retryable
      <4> QED BY <4>1, <4>2 DEF C!Meaning
    <3> DEFINE statuses == {401, 403, 404, 429, 500, 418}
               codes == {"", "expired", "denied", "throttling", "unsupported"}
    <3>2. CASE a \in [status : statuses, code : codes]
      <4>1. DOMAIN a = {"status", "code"} /\ a.status \in statuses
        <5> HIDE DEF statuses, codes
        <5> QED BY <3>2
      <4>2. C!Meaning(a) = C!Refusal(a)
        BY <4>1 DEF C!Meaning
      <4>3. C!Status(a.status) \in Reply /\ C!Status(429) = "throttled"
        BY <4>1 DEF C!Status, Reply, C!Retryable
      <4>4. C!Refusal(a) \in Reply /\ (a.status = 429 => C!Refusal(a) = "throttled")
        BY <4>3 DEF C!Refusal, Reply, C!Retryable
      <4> HIDE DEF statuses, codes
      <4> HIDE <3>2
      <4> QED BY <4>2, <4>4
    <3> QED BY <3>1, <3>2 DEF C!Answer
  <2>3. /\ phase # "done" /\ answers' = Append(answers, o)
        /\ \/ C!Ends(o)
           \/ /\ o = "throttled" /\ phase' = "cooldown" /\ permit' = FALSE
              /\ UNCHANGED <<style, attempt, time, outcome>>
    BY <1>9, <2>1 DEF C!Answered
  <2> HIDE DEF o
  <2> QED BY <2>1, <2>3, AnswerEnds DEF C!Retryable
<1>10. CASE UNCHANGED C!vars
  BY <1>10 DEF C!vars, CallInv, Conclusive, C!OrderlyCall
<1> QED BY <1>1, <1>2, <1>3, <1>4, <1>5, <1>6, <1>7, <1>8, <1>9, <1>10 DEF C!Next

LEMMA CallStarts == C!ConstantsAssumption /\ C!Init => CallInv
  BY DEF C!ConstantsAssumption, C!Init, C!Retryable, CallInv, C!OrderlyCall

(* Helpers: one run of a helper command.                                   *)

HelperInv ==
    /\ phase \in {"permit", "running", "ending", "done"}
    /\ child \in {"none", "alive", "exited", "reaped"}
    /\ others \in {"none", "quiet", "holding"}
    /\ permit <=> phase \in {"running", "ending"}
    /\ phase = "permit" => child = "none" /\ others = "none"
    /\ phase = "running" => child # "none"
    /\ phase \in {"permit", "running"} => killed = "never"
    /\ phase \in {"permit", "running"} => outcome = "none"
    /\ phase = "ending" => child # "alive" /\ others = "none" /\ outcome \notin {"none", "ok"}
    /\ streams = "closed" => child \in {"exited", "reaped"} /\ others # "holding"
    /\ H!NothingOutlives

LEMMA HelperStarts == H!Init => HelperInv
  BY DEF H!Init, HelperInv, H!NothingOutlives

LEMMA HelperStep == HelperInv /\ [H!Next]_H!vars => HelperInv'
<1> SUFFICES ASSUME HelperInv, [H!Next]_H!vars PROVE HelperInv'
  OBVIOUS
<1> USE DEF HelperInv, H!NothingOutlives
<1>1. ASSUME H!Fork \/ H!Leave \/ H!Cancel \/ H!Late \/ \E s \in {"ok", "failed"} : H!Exit(s)
      PROVE  HelperInv'
  BY <1>1 DEF H!Fork, H!Leave, H!Cancel, H!Late, H!Exit
<1>2. ASSUME H!Acquire PROVE HelperInv'
  <2>1. /\ phase = "permit" /\ ~permit /\ child = "none" /\ others = "none"
        /\ outcome = "none" /\ streams # "closed"
        /\ UNCHANGED <<status, others, streams, killed>>
    BY <1>2 DEF H!Acquire
  <2>2. CASE phase' = "running" /\ permit' = TRUE /\ child' = "alive" /\ UNCHANGED outcome
    BY <2>1, <2>2
  <2>3. CASE /\ phase' = "done" /\ outcome' \in {"unavailable", "cancelled", "timeout"}
             /\ UNCHANGED <<permit, child>>
    BY <2>1, <2>3
  <2> QED BY <1>2, <2>2, <2>3 DEF H!Acquire
<1>3. ASSUME H!Drain \/ H!Wait PROVE HelperInv'
  BY <1>3 DEF H!Drain, H!Wait
<1>4. ASSUME H!Finish PROVE HelperInv'
  <2>1. PICK o \in H!Outcomes :
            /\ phase = "running" /\ outcome' = o /\ UNCHANGED <<status, streams, cancelled, late>>
            /\ IF o = "ok"
               THEN /\ phase' = "done" /\ permit' = FALSE
                    /\ UNCHANGED <<child, others, killed>>
               ELSE /\ phase' = "ending" /\ H!Kill
                    /\ UNCHANGED permit
    BY <1>4 DEF H!Finish
  <2>2. /\ o # "none"
        /\ o = "ok" => streams = "closed" /\ child = "reaped" /\ status = "ok"
    BY DEF H!Outcomes
  <2>3. CASE o = "ok"
    BY <2>1, <2>2, <2>3
  <2>4. CASE o # "ok"
    BY <2>1, <2>2, <2>4 DEF H!Kill
  <2> QED BY <2>3, <2>4
<1>5. ASSUME H!Return \/ H!Dropped PROVE HelperInv'
  BY <1>5 DEF H!Return, H!Dropped, H!Kill
<1>6. CASE UNCHANGED H!vars
  BY <1>6 DEF H!vars
<1> QED BY <1>1, <1>2, <1>3, <1>4, <1>5, <1>6 DEF H!Next

\* A call returns its first conclusive answer, or an error that may pass once attempts or time
\* have run out, is over by its deadline, and holds a permit only while an attempt is in
\* flight; a helper without its permit has nothing running.  For any attempts, timeouts and
\* answers (transport.rs, retry_delay.rs, kube_session.rs, process.rs).
THEOREM CallsStayOrderly ==
  ASSUME C!ConstantsAssumption
  PROVE  SuiteSpec => []CallsAreOrderly
<1> DEFINE Orderly == (part = "calls" => CallInv) /\ (part = "helpers" => HelperInv)
<1>1. SuiteInit => Orderly
  BY CallStarts, HelperStarts DEF SuiteInit
<1>2. ASSUME Orderly,
             [SuiteNext]_<<part, vars, recorderVars, connectorVars, signalVars, workVars, input>>
      PROVE  Orderly'
  <2>1. part' = part
    BY <1>2 DEF SuiteNext
  <2>2. part = "calls" => [C!Next]_C!vars
    BY <1>2 DEF SuiteNext, workVars, callVars, sharedVars, C!vars
  <2>3. part = "helpers" => [H!Next]_H!vars
    BY <1>2 DEF SuiteNext, workVars, helperVars, sharedVars, H!vars
  <2> QED BY <1>2, <2>1, <2>2, <2>3, CallStep, HelperStep
<1>3. Orderly => CallsAreOrderly
  BY DEF CallsAreOrderly, CallInv, HelperInv
<1> QED BY <1>1, <1>2, <1>3, PTL DEF SuiteSpec

-----------------------------------------------------------------------------
(* Fanout: one collection of an inventory.                                 *)

LEMMA HeadAndTail ==
  ASSUME NEW T, NEW s \in Seq(T), s # <<>>
  PROVE  /\ Head(s) \in T /\ Tail(s) \in Seq(T) /\ Len(Tail(s)) <= Len(s)
         /\ F!ToSet(s) = {Head(s)} \cup F!ToSet(Tail(s))
<1>1. /\ DOMAIN s = 1..Len(s) /\ Len(s) \in Nat \ {0} /\ Head(s) = s[1]
      /\ Tail(s) \in Seq(T) /\ DOMAIN Tail(s) = 1..(Len(s) - 1) /\ Len(Tail(s)) = Len(s) - 1
      /\ \A i \in 1..(Len(s) - 1) : Tail(s)[i] = s[i + 1]
  OBVIOUS
<1>2. ASSUME NEW i \in DOMAIN s PROVE s[i] \in {Head(s)} \cup F!ToSet(Tail(s))
  <2>1. CASE i = 1
    BY <1>1, <2>1
  <2>2. CASE i # 1
    <3>1. i - 1 \in DOMAIN Tail(s) /\ Tail(s)[i - 1] = s[(i - 1) + 1] /\ (i - 1) + 1 = i
      BY <1>1, <2>2
    <3> QED BY <3>1 DEF F!ToSet
  <2> QED BY <2>1, <2>2
<1>3. ASSUME NEW i \in DOMAIN Tail(s) PROVE Tail(s)[i] \in F!ToSet(s)
  <2>1. i + 1 \in DOMAIN s /\ Tail(s)[i] = s[i + 1]
    BY <1>1
  <2> QED BY <2>1 DEF F!ToSet
<1>4. F!ToSet(s) \subseteq {Head(s)} \cup F!ToSet(Tail(s))
  <2>1. \A x \in F!ToSet(s) : \E i \in DOMAIN s : x = s[i]
    BY DEF F!ToSet
  <2> QED BY <1>2, <2>1
<1>5. {Head(s)} \cup F!ToSet(Tail(s)) \subseteq F!ToSet(s)
  <2>1. \A x \in F!ToSet(Tail(s)) : \E i \in DOMAIN Tail(s) : x = Tail(s)[i]
    BY DEF F!ToSet
  <2>2. Head(s) \in F!ToSet(s)
    BY <1>1 DEF F!ToSet
  <2> QED BY <1>3, <2>1, <2>2
<1>6. Head(s) \in T
  BY <1>1
<1> QED BY <1>1, <1>4, <1>5, <1>6

LEMMA JoinedSets ==
  ASSUME NEW T, NEW s \in Seq(T), NEW t \in Seq(T)
  PROVE  /\ s \o t \in Seq(T) /\ Len(s \o t) = Len(s) + Len(t)
         /\ F!ToSet(s \o t) = F!ToSet(s) \cup F!ToSet(t)
<1> DEFINE b == s \o t
<1>1. /\ b \in Seq(T) /\ Len(b) = Len(s) + Len(t) /\ Len(s) \in Nat /\ Len(t) \in Nat
      /\ DOMAIN s = 1..Len(s) /\ DOMAIN t = 1..Len(t) /\ DOMAIN b = 1..(Len(s) + Len(t))
  OBVIOUS
<1>2. /\ \A i \in 1..Len(s) : b[i] = s[i]
      /\ \A i \in 1..Len(t) : b[Len(s) + i] = t[i]
  BY <1>1
<1> HIDE DEF b
<1>3. ASSUME NEW x \in F!ToSet(b) PROVE x \in F!ToSet(s) \cup F!ToSet(t)
  <2>1. PICK i \in DOMAIN b : x = b[i]
    BY DEF F!ToSet
  <2>2. CASE i <= Len(s)
    <3>1. i \in DOMAIN s /\ x = s[i]
      BY <1>1, <1>2, <2>1, <2>2
    <3> QED BY <3>1 DEF F!ToSet
  <2>3. CASE ~(i <= Len(s))
    <3>1. i - Len(s) \in DOMAIN t /\ Len(s) + (i - Len(s)) = i
      BY <1>1, <2>3
    <3>2. x = t[i - Len(s)]
      BY <1>1, <1>2, <2>1, <3>1
    <3> QED BY <3>1, <3>2 DEF F!ToSet
  <2> QED BY <2>2, <2>3
<1>4. ASSUME NEW x \in F!ToSet(s) PROVE x \in F!ToSet(b)
  <2>1. PICK i \in DOMAIN s : x = s[i]
    BY DEF F!ToSet
  <2>2. i \in DOMAIN b /\ x = b[i]
    BY <1>1, <1>2, <2>1
  <2> QED BY <2>2 DEF F!ToSet
<1>5. ASSUME NEW x \in F!ToSet(t) PROVE x \in F!ToSet(b)
  <2>1. PICK i \in DOMAIN t : x = t[i]
    BY DEF F!ToSet
  <2>2. Len(s) + i \in DOMAIN b /\ x = b[Len(s) + i]
    BY <1>1, <1>2, <2>1
  <2> QED BY <2>2 DEF F!ToSet
<1> QED BY <1>1, <1>3, <1>4, <1>5 DEF b

LEMMA PrefixSets ==
  ASSUME NEW T, NEW s \in Seq(T), NEW n \in Int, n <= Len(s)
  PROVE  LET b == SubSeq(s, 1, n)
         IN  /\ b \in Seq(T) /\ F!ToSet(b) \subseteq F!ToSet(s)
             /\ n >= 0 => Len(b) = n
             /\ n = Len(s) => b = s
<1> DEFINE b == SubSeq(s, 1, n)
<1>1. Len(s) \in Nat /\ DOMAIN s = 1..Len(s)
  OBVIOUS
<1>2. /\ DOMAIN b = 1..n /\ \A i \in 1..n : b[i] = s[i]
      /\ b \in Seq(T) /\ (n >= 0 => Len(b) = n)
  BY <1>1
<1>3. n = Len(s) => b = s
  BY <1>1, <1>2
<1> HIDE DEF b
<1>4. ASSUME NEW x \in F!ToSet(b) PROVE x \in F!ToSet(s)
  <2>1. PICK i \in DOMAIN b : x = b[i]
    BY DEF F!ToSet
  <2>2. i \in DOMAIN s /\ x = s[i]
    BY <1>1, <1>2, <2>1
  <2> QED BY <2>2 DEF F!ToSet
<1> QED BY <1>2, <1>3, <1>4 DEF b

\* What can be learned of is the least set that holds the beginning and what its members ask for.
LEMMA ReachableIs ==
  ASSUME F!ConstantsAssumption
  PROVE  /\ F!Reachable \subseteq Endpoints
         /\ F!ToSet(Offered) \subseteq F!Reachable
         /\ \A e \in F!Reachable : F!ToSet(Follow[e]) \subseteq F!Reachable
         /\ \A T \in SUBSET Endpoints : F!Closed(T) => F!Reachable \subseteq T
<1>1. ASSUME NEW s \in Seq(Endpoints) PROVE F!ToSet(s) \subseteq Endpoints
  BY DEF F!ToSet
<1>2. Offered \in Seq(Endpoints) /\ \A e \in Endpoints : Follow[e] \in Seq(Endpoints)
  BY DEF F!ConstantsAssumption
<1>3. F!ToSet(Offered) \subseteq F!Reachable
  BY <1>1, <1>2 DEF F!Reachable, F!Closed
<1>4. ASSUME NEW e \in F!Reachable, NEW x \in F!ToSet(Follow[e]) PROVE x \in F!Reachable
  <2>1. e \in Endpoints /\ x \in Endpoints
    BY <1>1, <1>2, <1>4 DEF F!Reachable
  <2>2. ASSUME NEW T \in SUBSET Endpoints, F!Closed(T) PROVE x \in T
    BY <1>4, <2>2 DEF F!Reachable, F!Closed
  <2> QED BY <2>1, <2>2 DEF F!Reachable
<1> QED BY <1>3, <1>4 DEF F!Reachable

Branch == [read : Nat, coverage : {"reading", "cancelled", "truncated", "denied", "complete"}]

FanoutType ==
    /\ settings \in Settings
    /\ initial \in Seq(Endpoints) /\ pending \in Seq(Endpoints)
    /\ Len(pending) <= settings.queue
    /\ visited \subseteq Endpoints
    /\ DOMAIN running \subseteq visited
    /\ \A e \in DOMAIN running : running[e] \in Branch
    /\ spent \in Nat /\ limited \in BOOLEAN

\* A branch that ended well has read its endpoint to the end.
ReadInFull(e) ==
    /\ running[e].read <= F!Rows(e)
    /\ running[e].coverage = "complete" => running[e].read = F!Rows(e)

\* Nothing is asked for that no row asked for.
Learned == visited \cup F!ToSet(pending) \cup F!ToSet(initial) \subseteq F!Reachable

\* An operation that is complete has its rows in the result, and all they ask for was taken or
\* waits.
FollowedUp(e) == e \in held /\ F!ToSet(Follow[e]) \subseteq visited \cup F!ToSet(pending)

\* While nothing was cut, everything that was taken is an operation or a branch.
Uncut ==
    /\ visited = DOMAIN ops \cup DOMAIN running
    /\ F!ToSet(Offered) \subseteq visited \cup F!ToSet(initial)
    /\ held \subseteq DOMAIN ops
    /\ \A e \in DOMAIN ops : ops[e] = "complete" => FollowedUp(e)
    /\ phase = "done" => pending = <<>> /\ initial = <<>>

FanoutInv ==
    /\ FanoutType
    /\ \A e \in DOMAIN running : ReadInFull(e)
    /\ Learned
    /\ ~limited => Uncut
    /\ phase = "done" => DOMAIN running = {}

LEMMA FanoutStarts == F!ConstantsAssumption /\ F!Init => FanoutInv
<1> SUFFICES ASSUME F!ConstantsAssumption, F!Init PROVE FanoutInv
  OBVIOUS
<1>1. /\ settings \in [width : Nat, assets : Nat, queue : Nat, read : Nat, merged : Nat]
      /\ Offered \in Seq(Endpoints) /\ settings \in Settings
  BY DEF F!Init, F!ConstantsAssumption
<1>2. /\ initial = Offered /\ pending = <<>> /\ visited = {} /\ running = <<>> /\ spent = 0
      /\ ops = <<>> /\ held = {} /\ limited = FALSE /\ phase = "launch"
  BY DEF F!Init
<1>3. DOMAIN running = {} /\ DOMAIN ops = {} /\ F!ToSet(pending) = {}
  BY <1>2 DEF F!ToSet
<1>4. FanoutType
  <2>1. Len(pending) <= settings.queue /\ pending \in Seq(Endpoints)
    BY <1>1, <1>2
  <2> QED BY <1>1, <1>2, <1>3, <2>1 DEF FanoutType
<1>5. Learned
  BY <1>2, <1>3, ReachableIs DEF Learned
<1>6. Uncut
  BY <1>2, <1>3 DEF Uncut
<1> QED BY <1>2, <1>3, <1>4, <1>5, <1>6 DEF FanoutInv

LEMMA TakeHolds ==
  ASSUME F!ConstantsAssumption, FanoutInv, F!Take
  PROVE  FanoutInv'
<1> DEFINE e == Head(F!Waiting)
<1>1. /\ phase' \in {"launch", "await"} /\ phase = "launch" /\ F!Waiting # <<>>
      /\ IF pending # <<>> THEN pending' = Tail(pending) /\ UNCHANGED initial
         ELSE initial' = Tail(initial) /\ UNCHANGED pending
      /\ visited' = visited \cup {e}
      /\ limited' \in BOOLEAN /\ (limited => limited')
      /\ UNCHANGED <<settings, spent, ops, held>>
  <2>1. limited \in BOOLEAN
    BY DEF FanoutInv, FanoutType
  <2> QED BY <2>1 DEF F!Take, F!Launchable
<1>2. /\ e \in visited => running' = running
      /\ e \notin visited =>
            \/ running' = running /\ limited'
            \/ running' = F!Put(running, e, [read |-> 0, coverage |->
                                 IF cancelled THEN "cancelled" ELSE "reading"])
  BY DEF F!Take
<1>3. pending \in Seq(Endpoints) /\ initial \in Seq(Endpoints)
  BY DEF FanoutInv, FanoutType
<1>4. /\ e \in Endpoints /\ pending' \in Seq(Endpoints) /\ initial' \in Seq(Endpoints)
      /\ Len(pending') <= Len(pending)
      /\ {e} \cup F!ToSet(pending') \cup F!ToSet(initial') = F!ToSet(pending) \cup F!ToSet(initial)
      /\ F!ToSet(pending) \subseteq {e} \cup F!ToSet(pending')
      /\ F!ToSet(initial) \subseteq {e} \cup F!ToSet(initial')
  <2>1. CASE pending # <<>>
    <3>1. e = Head(pending) /\ pending' = Tail(pending) /\ initial' = initial
      BY <1>1, <1>3, <2>1 DEF F!Waiting
    <3> HIDE DEF e
    <3> QED BY <1>3, <2>1, <3>1, HeadAndTail
  <2>2. CASE pending = <<>>
    <3>1. /\ e = Head(initial) /\ initial' = Tail(initial) /\ pending' = pending
          /\ initial # <<>>
      BY <1>1, <1>3, <2>2 DEF F!Waiting
    <3>2. F!ToSet(pending) = {} /\ Len(pending) \in Nat
      BY <2>2 DEF F!ToSet
    <3> HIDE DEF e
    <3> QED BY <1>3, <3>1, <3>2, HeadAndTail
  <2> QED BY <2>1, <2>2
<1> HIDE DEF e
<1>5. /\ DOMAIN running' \subseteq DOMAIN running \cup {e}
      /\ \A d \in DOMAIN running' : running'[d] \in Branch /\ ReadInFull(d)'
      /\ limited' \/ DOMAIN running' = DOMAIN running \cup ({e} \ visited)
  <2>1. ASSUME NEW d \in DOMAIN running PROVE running[d] \in Branch /\ ReadInFull(d)
    BY DEF FanoutInv, FanoutType
  <2>2. CASE running' = running /\ (e \in visited \/ limited')
    <3>1. \A d \in DOMAIN running' : running'[d] \in Branch /\ ReadInFull(d)'
      BY <2>1, <2>2 DEF ReadInFull
    <3>2. e \in visited => {e} \ visited = {}
      OBVIOUS
    <3> QED BY <2>2, <3>1, <3>2
  <2>3. CASE ~(running' = running /\ (e \in visited \/ limited'))
    <3> DEFINE b == [read |-> 0, coverage |-> IF cancelled THEN "cancelled" ELSE "reading"]
    <3>1. running' = F!Put(running, e, b) /\ e \notin visited
      BY <1>2, <2>3
    <3>2. b \in Branch /\ b.read = 0 /\ b.coverage # "complete"
      BY DEF Branch
    <3> HIDE DEF b
    <3>3. /\ DOMAIN running' = DOMAIN running \cup {e} /\ running'[e] = b
          /\ \A d \in DOMAIN running \ {e} : running'[d] = running[d]
      BY <3>1 DEF F!Put
    <3>4. F!Rows(e) \in Nat
      BY <1>4 DEF F!Rows, F!ConstantsAssumption
    <3>5. ASSUME NEW d \in DOMAIN running' PROVE running'[d] \in Branch /\ ReadInFull(d)'
      BY <2>1, <3>2, <3>3, <3>4 DEF ReadInFull
    <3> QED BY <3>1, <3>3, <3>5
  <2> QED BY <2>2, <2>3
<1>6. FanoutType'
  <2>1. Len(pending') <= settings.queue
    <3>1. /\ Len(pending) \in Nat /\ Len(pending') \in Nat /\ Len(pending) <= settings.queue
          /\ settings.queue \in Nat
      BY <1>3, <1>4 DEF FanoutInv, FanoutType, F!ConstantsAssumption
    <3> QED BY <1>4, <3>1
  <2> QED BY <1>1, <1>4, <1>5, <2>1 DEF FanoutInv, FanoutType
<1>7. Learned'
  BY <1>1, <1>4 DEF FanoutInv, Learned
<1>8. ~limited' => Uncut'
  <2> SUFFICES ASSUME ~limited' PROVE Uncut'
    OBVIOUS
  <2>1. Uncut
    BY <1>1 DEF FanoutInv
  <2>2. visited' = DOMAIN ops' \cup DOMAIN running'
    BY <1>1, <1>5, <2>1 DEF Uncut
  <2>3. \A d \in DOMAIN ops' : ops'[d] = "complete" => FollowedUp(d)'
    BY <1>1, <1>4, <2>1 DEF Uncut, FollowedUp
  <2> QED BY <1>1, <1>4, <2>1, <2>2, <2>3 DEF Uncut
<1> QED BY <1>1, <1>5, <1>6, <1>7, <1>8 DEF FanoutInv

\* A branch that goes on or ends.
LEMMA BranchHolds ==
  ASSUME FanoutInv, NEW e \in DOMAIN running, NEW b \in Branch, b.read <= F!Rows(e),
         b.coverage = "complete" => b.read = F!Rows(e), phase = "await",
         running' = [running EXCEPT ![e] = b],
         UNCHANGED <<settings, initial, pending, visited, spent, ops, held, limited, phase>>
  PROVE  FanoutInv'
<1>1. /\ DOMAIN running' = DOMAIN running /\ running'[e] = b
      /\ \A d \in DOMAIN running \ {e} : running'[d] = running[d]
  OBVIOUS
<1>2. FanoutType' /\ Learned' /\ (~limited' => Uncut')
  BY <1>1 DEF FanoutInv, FanoutType, Learned, Uncut, FollowedUp
<1>3. \A d \in DOMAIN running' : ReadInFull(d)'
  BY <1>1 DEF FanoutInv, ReadInFull
<1> QED BY <1>2, <1>3 DEF FanoutInv

LEMMA MergeHolds ==
  ASSUME F!ConstantsAssumption, FanoutInv, NEW e \in Endpoints, F!Merge(e)
  PROVE  FanoutInv'
<1> DEFINE room == settings.queue - Len(pending)
           read == running[e].read
           asked == SubSeq(Follow[e], 1, read)
           taken == SubSeq(asked, 1, IF read > room THEN room ELSE read)
           takes == spent < settings.merged /\ F!Cardinality(DOMAIN ops) < settings.assets
           left == settings.merged - spent - (IF takes THEN 1 ELSE 0)
           fits == read <= left
           said == F!Merged(F!Coverage(e, room), fits)
<1>1. /\ e \in DOMAIN running /\ phase = "await" /\ phase' = "launch"
      /\ pending' = pending \o taken
      /\ ops' = IF takes THEN F!Put(ops, e, said) ELSE ops
      /\ held' = IF fits /\ read = F!Rows(e) THEN held \cup {e} ELSE held
      /\ spent' = IF fits THEN settings.merged - left + read ELSE settings.merged
      /\ limited' = (limited \/ ~takes \/ ~fits)
      /\ running' = F!Restrict(running, DOMAIN running \ {e})
      /\ UNCHANGED <<settings, initial, visited>>
  BY DEF F!Merge, F!Read
<1>2. /\ settings.queue \in Nat /\ settings.merged \in Nat /\ spent \in Nat
      /\ Follow[e] \in Seq(Endpoints) /\ pending \in Seq(Endpoints) /\ Len(pending) \in Nat
      /\ room \in Nat /\ read \in Nat /\ read <= Len(Follow[e])
      /\ running[e].coverage = "complete" => read = Len(Follow[e])
  <2>1. settings.queue \in Nat /\ settings.merged \in Nat /\ Follow[e] \in Seq(Endpoints)
    BY DEF FanoutInv, FanoutType, F!ConstantsAssumption
  <2>2. pending \in Seq(Endpoints) /\ Len(pending) \in Nat /\ Len(pending) <= settings.queue
    BY DEF FanoutInv, FanoutType
  <2>3. running[e] \in Branch /\ ReadInFull(e)
    BY <1>1 DEF FanoutInv, FanoutType
  <2>4. /\ read \in Nat /\ read <= Len(Follow[e])
        /\ running[e].coverage = "complete" => read = Len(Follow[e])
    BY <2>3 DEF Branch, ReadInFull, F!Rows
  <2>5. spent \in Nat
    BY DEF FanoutInv, FanoutType
  <2> QED BY <2>1, <2>2, <2>4, <2>5
<1>3. /\ DOMAIN running' = DOMAIN running \ {e}
      /\ \A d \in DOMAIN running' : running'[d] = running[d]
  BY <1>1 DEF F!Restrict
<1>4. /\ asked \in Seq(Endpoints) /\ Len(asked) = read
      /\ F!ToSet(asked) \subseteq F!ToSet(Follow[e])
      /\ read = Len(Follow[e]) => asked = Follow[e]
  BY <1>2, PrefixSets
<1>5. /\ taken \in Seq(Endpoints) /\ Len(taken) <= room
      /\ F!ToSet(taken) \subseteq F!ToSet(Follow[e])
      /\ read <= room => taken = asked
  <2> DEFINE n == IF read > room THEN room ELSE read
  <2>1. /\ n \in Nat /\ n <= Len(asked) /\ n <= room
        /\ read <= room => n = Len(asked)
    BY <1>2, <1>4
  <2>2. taken = SubSeq(asked, 1, n)
    OBVIOUS
  <2>3. n \in Int /\ room \in Nat
    BY <1>2, <2>1
  <2> HIDE DEF n, asked, room, taken
  <2>4. /\ taken \in Seq(Endpoints) /\ Len(taken) = n
        /\ F!ToSet(taken) \subseteq F!ToSet(asked)
        /\ n = Len(asked) => taken = asked
    BY <1>4, <2>1, <2>2, <2>3, PrefixSets
  <2> QED BY <1>4, <2>1, <2>4
<1>6. said = "complete" => fits /\ read <= room /\ running[e].coverage = "complete"
  BY <1>2 DEF F!Merged, F!Coverage, F!Read
<1>7. spent' \in Nat
  <2>1. CASE fits
    <3>1. left <= settings.merged /\ left \in Int /\ settings.merged - left \in Nat
      <4>1. CASE takes
        <5>1. left = settings.merged - spent - 1
          BY <4>1
        <5> QED BY <1>2, <5>1
      <4>2. CASE ~takes
        <5>1. left = settings.merged - spent - 0
          BY <4>2
        <5> QED BY <1>2, <5>1
      <4> QED BY <4>1, <4>2
    <3>2. spent' = (settings.merged - left) + read
      BY <1>1, <2>1
    <3>3. read \in Nat
      BY <1>2
    <3> HIDE DEF left, read
    <3> QED BY <3>1, <3>2, <3>3
  <2>2. CASE ~fits
    BY <1>1, <1>2, <2>2
  <2> QED BY <2>1, <2>2
<1> HIDE DEF takes, left, fits, said, taken, asked, room, read
<1>8. /\ pending' \in Seq(Endpoints) /\ Len(pending') <= settings.queue
      /\ F!ToSet(pending') = F!ToSet(pending) \cup F!ToSet(taken)
  <2>1. /\ pending' \in Seq(Endpoints) /\ Len(pending') = Len(pending) + Len(taken)
        /\ F!ToSet(pending') = F!ToSet(pending) \cup F!ToSet(taken)
    BY <1>1, <1>2, <1>5, JoinedSets
  <2>2. Len(taken) \in Nat
    BY <1>5
  <2> QED BY <1>2, <1>5, <2>1, <2>2 DEF room
<1>9. FanoutType'
  <2>1. limited' \in BOOLEAN
    BY <1>1
  <2> QED BY <1>1, <1>3, <1>7, <1>8, <2>1 DEF FanoutInv, FanoutType
<1>10. \A d \in DOMAIN running' : ReadInFull(d)'
  BY <1>3 DEF FanoutInv, ReadInFull
<1>11. Learned'
  <2>1. e \in F!Reachable
    BY <1>1 DEF FanoutInv, FanoutType, Learned
  <2>2. F!ToSet(taken) \subseteq F!Reachable
    BY <1>5, <2>1, ReachableIs
  <2> QED BY <1>1, <1>8, <2>2 DEF FanoutInv, Learned
<1>12. ASSUME ~limited' PROVE Uncut'
  <2>1. takes /\ fits /\ Uncut
    BY <1>1, <1>12 DEF FanoutInv
  <2>2. /\ ops' = F!Put(ops, e, said) /\ held' \subseteq held \cup {e} /\ held \subseteq held'
        /\ read = F!Rows(e) => e \in held'
    BY <1>1, <2>1
  <2>3. /\ DOMAIN ops' = DOMAIN ops \cup {e} /\ ops'[e] = said
        /\ \A d \in DOMAIN ops \ {e} : ops'[d] = ops[d]
    BY <2>2 DEF F!Put
  <2>4. visited' = DOMAIN ops' \cup DOMAIN running'
    BY <1>1, <1>3, <2>1, <2>3 DEF Uncut
  <2>5. ASSUME NEW d \in DOMAIN ops', ops'[d] = "complete" PROVE FollowedUp(d)'
    <3>1. CASE d = e
      <4>1. read <= room /\ read = Len(Follow[e])
        BY <1>2, <1>6, <2>3, <2>5, <3>1
      <4>2. taken = Follow[e] /\ e \in held'
        BY <1>4, <1>5, <2>2, <4>1 DEF F!Rows
      <4> QED BY <1>1, <1>8, <3>1, <4>2 DEF FollowedUp
    <3>2. CASE d # e
      <4>1. FollowedUp(d)
        BY <2>1, <2>3, <2>5, <3>2 DEF Uncut
      <4> QED BY <1>1, <1>8, <2>2, <4>1 DEF FollowedUp
    <3> QED BY <3>1, <3>2
  <2>6. held' \subseteq DOMAIN ops'
    BY <2>1, <2>2, <2>3 DEF Uncut
  <2>7. F!ToSet(Offered) \subseteq visited' \cup F!ToSet(initial)'
    BY <1>1, <2>1 DEF Uncut
  <2>8. phase' # "done"
    BY <1>1
  <2> QED BY <2>4, <2>5, <2>6, <2>7, <2>8 DEF Uncut
<1> QED BY <1>1, <1>9, <1>10, <1>11, <1>12 DEF FanoutInv

LEMMA FanoutStep ==
  F!ConstantsAssumption /\ FanoutInv /\ [F!Next]_F!vars => FanoutInv'
<1> SUFFICES ASSUME F!ConstantsAssumption, FanoutInv, [F!Next]_F!vars PROVE FanoutInv'
  OBVIOUS
<1>1. ASSUME NEW e \in Endpoints, F!Charge(e) \/ F!End(e) PROVE FanoutInv'
  <2> DEFINE r == running[e]
  <2>1. /\ e \in DOMAIN running /\ phase = "await"
        /\ UNCHANGED <<settings, initial, pending, visited, spent, ops, held, limited, phase>>
    BY <1>1 DEF F!Charge, F!End
  <2>2. r \in Branch /\ r.read \in Nat /\ r.read <= F!Rows(e) /\ r.coverage \in
            {"reading", "cancelled", "truncated", "denied", "complete"}
    BY <2>1 DEF FanoutInv, FanoutType, ReadInFull, Branch
  <2>3. F!Rows(e) \in Nat
    BY DEF F!Rows, F!ConstantsAssumption
  <2>4. PICK b \in Branch :
            /\ b.read <= F!Rows(e) /\ (b.coverage = "complete" => b.read = F!Rows(e))
            /\ running' = [running EXCEPT ![e] = b]
    <3>1. ASSUME running' = [running EXCEPT ![e].read = @ + 1],
                 r.coverage = "reading", r.read < F!Rows(e)
          PROVE  \E b \in Branch :
                    /\ b.read <= F!Rows(e) /\ (b.coverage = "complete" => b.read = F!Rows(e))
                    /\ running' = [running EXCEPT ![e] = b]
      <4> DEFINE b == [r EXCEPT !.read = r.read + 1]
      <4>1. b \in Branch /\ b.read = r.read + 1 /\ b.coverage = "reading"
        BY <2>2, <3>1 DEF Branch
      <4>2. b.read <= F!Rows(e) /\ b.coverage # "complete"
        BY <2>2, <2>3, <3>1, <4>1
      <4>3. running' = [running EXCEPT ![e] = b]
        BY <3>1
      <4> QED BY <4>1, <4>2, <4>3
    <3>2. ASSUME NEW c \in {"cancelled", "truncated", "denied", "complete"},
                 running' = [running EXCEPT ![e].coverage = c],
                 c = "complete" => r.read = F!Rows(e)
          PROVE  \E b \in Branch :
                    /\ b.read <= F!Rows(e) /\ (b.coverage = "complete" => b.read = F!Rows(e))
                    /\ running' = [running EXCEPT ![e] = b]
      <4> DEFINE b == [r EXCEPT !.coverage = c]
      <4>1. b \in Branch /\ b.read = r.read /\ b.coverage = c
        BY <2>2 DEF Branch
      <4>2. running' = [running EXCEPT ![e] = b]
        BY <3>2
      <4> QED BY <2>2, <3>2, <4>1, <4>2
    <3>3. CASE F!Charge(e)
      <4>1. r.coverage = "reading" /\ r.read < F!Rows(e)
        BY <3>3 DEF F!Charge, F!Ended, F!Read
      <4>2. \/ running' = [running EXCEPT ![e].read = @ + 1]
            \/ running' = [running EXCEPT ![e].coverage = "truncated"]
        BY <3>3 DEF F!Charge
      <4> QED BY <3>1, <3>2, <4>1, <4>2
    <3>4. CASE F!End(e)
      <4>1. PICK c \in {"denied"} \cup (IF F!Read(e) = F!Rows(e) THEN {"complete"} ELSE {})
                                 \cup (IF cancelled THEN {"cancelled"} ELSE {}) :
                running' = [running EXCEPT ![e].coverage = c]
        BY <3>4 DEF F!End
      <4>2. c \in {"cancelled", "truncated", "denied", "complete"} /\
            (c = "complete" => r.read = F!Rows(e))
        BY <4>1 DEF F!Read
      <4> QED BY <3>2, <4>1, <4>2
    <3> QED BY <1>1, <3>3, <3>4
  <2> QED BY <2>1, <2>4, BranchHolds
<1>2. ASSUME F!Await \/ F!Cancel \/ UNCHANGED F!vars PROVE FanoutInv'
  <2>1. /\ UNCHANGED <<settings, initial, pending, visited, running, spent, ops, held, limited>>
        /\ phase' = phase \/ phase' = "await"
    BY <1>2 DEF F!Await, F!Cancel, F!vars
  <2> QED BY <2>1 DEF FanoutInv, FanoutType, ReadInFull, Learned, Uncut, FollowedUp
<1>3. ASSUME F!Finish PROVE FanoutInv'
  <2>1. /\ UNCHANGED <<settings, initial, pending, visited, running, spent, ops, held>>
        /\ DOMAIN running = {} /\ limited' = (limited \/ F!Waiting # <<>>)
    BY <1>3 DEF F!Finish
  <2>2. initial \in Seq(Endpoints) /\ pending \in Seq(Endpoints) /\ limited \in BOOLEAN
    BY DEF FanoutInv, FanoutType
  <2>3. ~limited' => ~limited /\ pending = <<>> /\ initial = <<>>
    <3>1. ASSUME ~limited' PROVE pending = <<>> /\ initial = <<>>
      <4>1. pending \o initial = <<>>
        BY <2>1, <3>1 DEF F!Waiting
      <4>2. Len(pending \o initial) = Len(pending) + Len(initial)
        BY <2>2
      <4>3. Len(pending) = 0 /\ Len(initial) = 0
        BY <2>2, <4>1, <4>2
      <4> QED BY <2>2, <4>3
    <3> QED BY <2>1, <3>1
  <2>4. FanoutType' /\ Learned' /\ \A e \in DOMAIN running' : ReadInFull(e)'
    BY <2>1, <2>2 DEF FanoutInv, FanoutType, Learned, ReadInFull
  <2>5. ~limited' => Uncut'
    BY <2>1, <2>3 DEF FanoutInv, Uncut, FollowedUp
  <2> QED BY <2>1, <2>4, <2>5 DEF FanoutInv
<1> QED BY <1>1, <1>2, <1>3, TakeHolds, MergeHolds DEF F!Next

\* A collection of which every operation is complete has asked for all it could learn of, and
\* for nothing else, and its result holds every row: for any endpoints, what their rows ask
\* for, and limits (common_parallel.rs, collection_budget.rs, cloud_branch.rs).
THEOREM CompleteIsWhole ==
  ASSUME F!ConstantsAssumption
  PROVE  SuiteSpec => []NothingOmitted
<1> DEFINE Whole == part = "fanout" => FanoutInv
<1>1. SuiteInit => Whole
  BY FanoutStarts DEF SuiteInit
<1>2. ASSUME Whole,
             [SuiteNext]_<<part, vars, recorderVars, connectorVars, signalVars, workVars, input>>
      PROVE  Whole'
  <2>1. part' = part
    BY <1>2 DEF SuiteNext
  <2>2. part = "fanout" => [F!Next]_F!vars
    BY <1>2 DEF SuiteNext, workVars, fanoutVars, sharedVars, F!vars
  <2> QED BY <1>2, <2>1, <2>2, FanoutStep
<1>3. Whole => NothingOmitted
  <2> SUFFICES ASSUME FanoutInv, phase = "done", F!Complete
               PROVE  DOMAIN ops = F!Reachable /\ held = DOMAIN ops
    BY DEF NothingOmitted, F!NothingOmitted
  <2>1. /\ Uncut /\ DOMAIN running = {} /\ pending = <<>> /\ initial = <<>>
        /\ \A e \in DOMAIN ops : FollowedUp(e)
    BY DEF FanoutInv, F!Complete, Uncut
  <2>2. F!ToSet(pending) = {} /\ F!ToSet(initial) = {}
    BY <2>1 DEF F!ToSet
  <2>3. visited = DOMAIN ops /\ held = DOMAIN ops
    BY <2>1 DEF Uncut, FollowedUp
  <2>4. F!Closed(visited) /\ visited \in SUBSET Endpoints
    BY <2>1, <2>2, <2>3 DEF Uncut, FollowedUp, F!Closed, FanoutInv, FanoutType
  <2>5. visited \subseteq F!Reachable
    BY DEF FanoutInv, Learned
  <2> QED BY <2>3, <2>4, <2>5, ReachableIs
<1> QED BY <1>1, <1>2, <1>3, PTL DEF SuiteSpec

-----------------------------------------------------------------------------
(* Signals: judgements over several readings.                              *)

Entry == [at : Nat, value : Nat, limits : Nat \X Nat]

Pressure == [last_seen : Nat, warning : Nat, error : Nat,
             warning_since : Nat \cup {None}, error_since : Nat \cup {None}]
Progress == [value : Nat, last_seen : Nat, established : BOOLEAN, last_progress : Nat]

\* The readings since a time: the first of them in A, the others in P, and no gap between them.
Run(l, begun, A, P) ==
    \E i \in DOMAIN l :
        /\ l[i].at = begun /\ l[i] \in A
        /\ \A j \in (i + 1)..Len(l) : l[j] \in P /\ l[j].at - l[j - 1].at <= Fresh

Above(thresholds, n) == {e \in Entry : e.limits = thresholds /\ e.value >= thresholds[n]}
Still(v) == {e \in Entry : e.value = v}

\* A clock that runs began with a run of readings that lasts.
Tracked(p) ==
    IF kind = "capacity"
    THEN /\ p \in Pressure
         /\ p.warning_since # None =>
                Run(log, p.warning_since, Above(<<p.warning, p.error>>, 1),
                                          Above(<<p.warning, p.error>>, 1))
         /\ p.error_since # None =>
                Run(log, p.error_since, Above(<<p.warning, p.error>>, 2),
                                        Above(<<p.warning, p.error>>, 2))
    ELSE /\ p \in Progress /\ p.value = log[Len(log)].value
         /\ kind = "counter" => Run(log, p.last_progress, Still(p.value), Still(p.value))
         /\ kind = "rate" => Run(log, p.last_progress, Entry, Still(0))

\* What S!FaultsAreSustained asks for, of a log.
Shows(k, thresholds, v, first, e) ==
    CASE k = "capacity" -> /\ e.limits = thresholds
                           /\ e.value >= thresholds[IF v = "unhealthy" THEN 2 ELSE 1]
      [] k = "counter" -> e.value = first.value
      [] k = "rate" -> e = first \/ e.value = 0

Lasts(k, thresholds, v, l) ==
    \E i \in DOMAIN l :
        /\ l[Len(l)].at - l[i].at >= Sustain
        /\ \A j \in i..Len(l) : /\ Shows(k, thresholds, v, l[i], l[j])
                                /\ j > i => l[j].at - l[j - 1].at <= Fresh

SignalInv ==
    /\ kind \in {"capacity", "counter", "rate"}
    /\ hour \in Nat
    /\ limits \in Thresholds
    /\ log \in Seq(Entry)
    /\ kept # None => /\ log # <<>> /\ kept.last_seen = log[Len(log)].at
                      /\ Tracked(kept)
    /\ verdict \in {"unhealthy", "degraded"} => Lasts(kind, limits, verdict, log)

LEMMA SustainedIs == SignalInv => S!FaultsAreSustained
  BY DEF SignalInv, Lasts, Shows, S!FaultsAreSustained

LEMMA RunBegins ==
  ASSUME NEW l \in Seq(Entry), l # <<>>, NEW A, NEW P, l[Len(l)] \in A
  PROVE  Run(l, l[Len(l)].at, A, P)
<1>1. Len(l) \in Nat /\ Len(l) \in DOMAIN l
  OBVIOUS
<1>2. (Len(l) + 1)..Len(l) = {}
  BY <1>1
<1> QED BY <1>1, <1>2 DEF Run

LEMMA RunGoesOn ==
  ASSUME NEW l \in Seq(Entry), l # <<>>, NEW A, NEW P, NEW begun, Run(l, begun, A, P),
         NEW e \in Entry, e \in P, e.at - l[Len(l)].at <= Fresh
  PROVE  Run(Append(l, e), begun, A, P)
<1> DEFINE n == Append(l, e)
<1>1. /\ Len(l) \in Nat \ {0} /\ DOMAIN l = 1..Len(l) /\ DOMAIN n = 1..(Len(l) + 1)
      /\ Len(n) = Len(l) + 1 /\ n[Len(l) + 1] = e /\ \A i \in 1..Len(l) : n[i] = l[i]
  OBVIOUS
<1> HIDE DEF n
<1>2. PICK i \in DOMAIN l :
        /\ l[i].at = begun /\ l[i] \in A
        /\ \A j \in (i + 1)..Len(l) : l[j] \in P /\ l[j].at - l[j - 1].at <= Fresh
  BY DEF Run
<1>3. ASSUME NEW j \in (i + 1)..Len(n) PROVE n[j] \in P /\ n[j].at - n[j - 1].at <= Fresh
  <2>1. CASE j = Len(l) + 1
    <3>1. j - 1 = Len(l) /\ n[j - 1] = l[Len(l)] /\ n[j] = e
      BY <1>1, <2>1
    <3> QED BY <3>1
  <2>2. CASE j # Len(l) + 1
    <3>1. j \in (i + 1)..Len(l) /\ j - 1 \in 1..Len(l) /\ j \in 1..Len(l)
      BY <1>1, <1>2, <2>2
    <3>2. n[j] = l[j] /\ n[j - 1] = l[j - 1]
      BY <1>1, <3>1
    <3> QED BY <1>2, <3>1, <3>2
  <2> QED BY <2>1, <2>2
<1>4. i \in DOMAIN n /\ n[i] = l[i]
  BY <1>1, <1>2
<1> QED BY <1>2, <1>3, <1>4 DEF Run, n

LEMMA RunJudgedAgain ==
  ASSUME NEW l \in Seq(Entry), l # <<>>, NEW A, NEW P, NEW begun, Run(l, begun, A, P),
         NEW e \in Entry, e \in A, e \in P, e.at = l[Len(l)].at
  PROVE  Run([l EXCEPT ![Len(l)] = e], begun, A, P)
<1> DEFINE n == [l EXCEPT ![Len(l)] = e]
<1>1. /\ Len(l) \in Nat \ {0} /\ DOMAIN l = 1..Len(l) /\ DOMAIN n = 1..Len(l)
      /\ Len(n) = Len(l) /\ n[Len(l)] = e /\ \A i \in 1..(Len(l) - 1) : n[i] = l[i]
      /\ \A i \in 1..Len(l) : n[i].at = l[i].at
  OBVIOUS
<1> HIDE DEF n
<1>2. PICK i \in DOMAIN l :
        /\ l[i].at = begun /\ l[i] \in A
        /\ \A j \in (i + 1)..Len(l) : l[j] \in P /\ l[j].at - l[j - 1].at <= Fresh
  BY DEF Run
<1>3. ASSUME NEW j \in (i + 1)..Len(n) PROVE n[j] \in P /\ n[j].at - n[j - 1].at <= Fresh
  <2>1. j \in (i + 1)..Len(l) /\ j - 1 \in 1..Len(l) /\ j \in 1..Len(l)
    BY <1>1, <1>2
  <2>2. n[j].at = l[j].at /\ n[j - 1].at = l[j - 1].at /\ n[j] \in {e, l[j]}
    BY <1>1, <2>1
  <2> QED BY <1>2, <2>1, <2>2
<1>4. i \in DOMAIN n /\ n[i] \in A /\ n[i].at = begun
  BY <1>1, <1>2
<1> QED BY <1>3, <1>4 DEF Run, n

\* A run that has lasted shows what was announced.
LEMMA RunShows ==
  ASSUME S!ConstantsAssumption, NEW l \in Seq(Entry), NEW A, NEW P, NEW begun \in Nat,
         NEW k, NEW thresholds, NEW v, Run(l, begun, A, P), l[Len(l)].at - begun >= Sustain,
         \/ /\ k = "capacity" /\ A = P
            /\ v = "unhealthy" /\ P = Above(thresholds, 2)
         \/ /\ k = "capacity" /\ A = P
            /\ v = "degraded" /\ P = Above(thresholds, 1)
         \/ k = "counter" /\ A = P /\ \E x : P = Still(x)
         \/ k = "rate" /\ P = Still(0)
  PROVE  Lasts(k, thresholds, v, l)
<1>1. PICK i \in DOMAIN l :
        /\ l[i].at = begun /\ l[i] \in A
        /\ \A j \in (i + 1)..Len(l) : l[j] \in P /\ l[j].at - l[j - 1].at <= Fresh
  BY DEF Run
<1>2. DOMAIN l = 1..Len(l) /\ Len(l) \in Nat
  OBVIOUS
<1>3. ASSUME NEW j \in i..Len(l)
      PROVE  Shows(k, thresholds, v, l[i], l[j]) /\ (j > i => l[j].at - l[j - 1].at <= Fresh)
  <2>1. j > i => j \in (i + 1)..Len(l)
    BY <1>2
  <2>2. j > i \/ j = i
    BY <1>2
  <2>3. /\ j > i => l[j] \in P
        /\ j = i => l[j] \in A /\ l[j] = l[i]
        /\ A = P => l[j] \in P
    BY <1>1, <2>1, <2>2
  <2>4. Shows(k, thresholds, v, l[i], l[j])
    <3>1. CASE k = "capacity"
      <4>1. l[j] \in P
        BY <2>3, <3>1
      <4>2. l[j].limits = thresholds
        BY <3>1, <4>1 DEF Above
      <4>3. l[j].value >= thresholds[IF v = "unhealthy" THEN 2 ELSE 1]
        BY <3>1, <4>1 DEF Above
      <4> QED BY <3>1, <4>2, <4>3 DEF Shows
    <3>2. CASE k = "counter"
      <4>1. l[j] \in P /\ l[i] \in P /\ \E x : P = Still(x)
        BY <1>1, <2>3, <3>2
      <4>2. l[j].value = l[i].value
        BY <4>1 DEF Still
      <4> QED BY <3>2, <4>2 DEF Shows
    <3>3. CASE k = "rate"
      <4>1. l[j] = l[i] \/ l[j].value = 0
        BY <2>2, <2>3, <3>3 DEF Still
      <4> QED BY <3>3, <4>1 DEF Shows
    <3> QED BY <3>1, <3>2, <3>3
  <2> QED BY <1>1, <2>1, <2>4
<1> QED BY <1>1, <1>3 DEF Lasts

LEMMA JudgeHolds ==
  ASSUME S!ConstantsAssumption, SignalInv, kind = "capacity",
         NEW v \in Nat, NEW at \in Nat, NEW sound \in BOOLEAN, NEW full \in BOOLEAN,
         S!Consistent(v, at), S!Judge(v, at, sound, full), UNCHANGED <<kind, hour, limits>>
  PROVE  SignalInv'
<1>1. /\ limits \in Nat \X Nat /\ limits[1] \in Nat /\ limits[2] \in Nat
      /\ limits = <<limits[1], limits[2]>> /\ log \in Seq(Entry)
  BY DEF S!ConstantsAssumption, SignalInv
<1>2. CASE ~sound \/ ~S!Recent(at)
  <2>1. kept' = None /\ verdict' = "unknown" /\ log' = <<>>
    BY <1>2 DEF S!Judge
  <2> QED BY <2>1 DEF SignalInv
<1>3. CASE /\ sound /\ S!Recent(at)
           /\ (kept = None /\ full) \/ (kept # None /\ at < kept.last_seen)
  <2>1. UNCHANGED <<kept, log>> /\ verdict' = "unknown"
    BY <1>3 DEF S!Judge
  <2> QED BY <2>1 DEF SignalInv, Tracked
<1>4. CASE /\ sound /\ S!Recent(at)
           /\ ~((kept = None /\ full) \/ (kept # None /\ at < kept.last_seen))
  <2> DEFINE p == S!Pressed(kept, v, at)
             entry == [at |-> at, value |-> v, limits |-> limits]
  <2>1. kept' = p /\ verdict' = S!PressureVerdict(p, v, at) /\ log' = S!Logged(v, at)
    BY <1>4 DEF S!Judge
  <2>2. entry \in Entry /\ entry.at = at /\ entry.value = v /\ entry.limits = limits
    BY <1>1 DEF Entry
  <2>3. kept # None => /\ log # <<>> /\ kept.last_seen = log[Len(log)].at
                       /\ kept \in Pressure /\ at >= kept.last_seen
    BY <1>4 DEF SignalInv, Tracked, Pressure
  <2>4. /\ log' \in Seq(Entry) /\ log' # <<>> /\ log'[Len(log')] = entry
        /\ log' = Append(log, entry) \/ (log # <<>> /\ log' = [log EXCEPT ![Len(log)] = entry])
        /\ kept # None => IF at > kept.last_seen THEN log' = Append(log, entry)
                          ELSE log' = [log EXCEPT ![Len(log)] = entry]
    <3>1. CASE kept = None \/ at > kept.last_seen
      <4>1. log' = Append(log, entry)
        BY <2>1, <3>1 DEF S!Logged
      <4> HIDE DEF entry
      <4> QED BY <1>1, <2>2, <3>1, <4>1
    <3>2. CASE ~(kept = None \/ at > kept.last_seen)
      <4>1. log' = [log EXCEPT ![Len(log)] = entry] /\ log # <<>>
        BY <2>1, <2>3, <3>2 DEF S!Logged
      <4> HIDE DEF entry
      <4> QED BY <1>1, <2>2, <3>2, <4>1
    <3> QED BY <3>1, <3>2
  <2> DEFINE started == kept = None \/ S!Broken(kept, at)
             w == S!Clock(IF started THEN None ELSE kept.warning_since, v >= limits[1], at)
             x == S!Clock(IF started THEN None ELSE kept.error_since, v >= limits[2], at)
  <2>5. /\ p \in Pressure /\ p.last_seen = at /\ p.warning_since = w /\ p.error_since = x
        /\ <<p.warning, p.error>> = limits
    <3>1. p = [last_seen |-> at, warning |-> limits[1], error |-> limits[2],
               warning_since |-> w, error_since |-> x]
      BY DEF S!Pressed
    <3>2. w \in Nat \cup {None} /\ x \in Nat \cup {None}
      BY <2>3 DEF S!Clock, Pressure
    <3> HIDE DEF p, w, x
    <3> QED BY <1>1, <3>1, <3>2 DEF Pressure
  <2>6. ASSUME NEW n \in {1, 2}, NEW begun,
               NEW old, started => old = None,
               ~started /\ old # None => Run(log, old, Above(limits, n), Above(limits, n)),
               begun = S!Clock(old, v >= limits[n], at), begun # None
        PROVE  Run(log', begun, Above(limits, n), Above(limits, n))
    <3>1. v >= limits[n] /\ entry \in Above(limits, n)
      BY <1>1, <2>2, <2>6 DEF S!Clock, Above
    <3>2. CASE old = None
      <4>1. begun = at
        BY <2>6, <3>1, <3>2 DEF S!Clock
      <4>2. PICK l \in Seq(Entry) : l = log'
        BY <2>4
      <4>3. l # <<>> /\ l[Len(l)] \in Above(limits, n) /\ l[Len(l)].at = begun
        BY <2>2, <2>4, <3>1, <4>1, <4>2
      <4>4. Run(l, begun, Above(limits, n), Above(limits, n))
        BY <4>3, RunBegins
      <4> QED BY <4>2, <4>4
    <3>3. CASE old # None
      <4>1. begun = old /\ ~started /\ kept # None /\ Run(log, old, Above(limits, n), Above(limits, n))
        BY <2>6, <3>1, <3>3 DEF S!Clock
      <4>2. CASE at > kept.last_seen
        <5>1. entry.at - log[Len(log)].at <= Fresh
          BY <2>2, <2>3, <4>1, <4>2 DEF S!Broken, S!ConstantsAssumption, Pressure
        <5>2. log' = Append(log, entry) /\ log # <<>>
          BY <2>3, <2>4, <4>1, <4>2
        <5> HIDE DEF entry, started
        <5>3. Run(Append(log, entry), old, Above(limits, n), Above(limits, n))
          BY <1>1, <2>2, <3>1, <4>1, <5>1, <5>2, RunGoesOn
        <5> QED BY <4>1, <5>2, <5>3
      <4>3. CASE ~(at > kept.last_seen)
        <5>1. entry.at = log[Len(log)].at
          BY <2>2, <2>3, <4>1, <4>3 DEF Pressure
        <5> HIDE DEF entry, started
        <5> QED BY <1>1, <2>2, <2>3, <2>4, <3>1, <4>1, <4>3, <5>1, RunJudgedAgain
      <4> QED BY <4>2, <4>3
    <3> QED BY <3>2, <3>3
  <2>7. ~started => /\ kept # None /\ <<kept.warning, kept.error>> = limits
                    /\ kept.warning_since # None => Run(log, kept.warning_since, Above(limits, 1), Above(limits, 1))
                    /\ kept.error_since # None => Run(log, kept.error_since, Above(limits, 2), Above(limits, 2))
    BY DEF S!Broken, SignalInv, Tracked
  <2>8. p.warning_since # None => Run(log', p.warning_since, Above(limits, 1), Above(limits, 1))
    <3> DEFINE old == IF started THEN None ELSE kept.warning_since
    <3>1. /\ started => old = None
          /\ ~started /\ old # None => Run(log, old, Above(limits, 1), Above(limits, 1))
          /\ p.warning_since = S!Clock(old, v >= limits[1], at)
      BY <2>5, <2>7
    <3> HIDE DEF old, started, p, w, x
    <3> QED BY <2>6, <3>1
  <2>9. p.error_since # None => Run(log', p.error_since, Above(limits, 2), Above(limits, 2))
    <3> DEFINE old == IF started THEN None ELSE kept.error_since
    <3>1. /\ started => old = None
          /\ ~started /\ old # None => Run(log, old, Above(limits, 2), Above(limits, 2))
          /\ p.error_since = S!Clock(old, v >= limits[2], at)
      BY <2>5, <2>7
    <3> HIDE DEF old, started, p, w, x
    <3> QED BY <2>6, <3>1
  <2> HIDE DEF p, started, w, x
  <2>10. ASSUME verdict' \in {"unhealthy", "degraded"} PROVE Lasts(kind, limits, verdict', log')
    <3>1. PICK l \in Seq(Entry) : l = log'
      BY <2>4
    <3>2. l[Len(l)].at = at
      BY <2>2, <2>4, <3>1
    <3>3. CASE verdict' = "unhealthy"
      <4>1. p.error_since # None /\ at - p.error_since >= Sustain /\ p.error_since \in Nat
        BY <2>1, <2>5, <3>3 DEF S!PressureVerdict, S!Lasting, Pressure
      <4>2. Run(l, p.error_since, Above(limits, 2), Above(limits, 2))
        BY <2>9, <3>1, <4>1
      <4>3. Lasts(kind, limits, "unhealthy", l)
        BY <3>2, <4>1, <4>2, RunShows
      <4> QED BY <3>1, <3>3, <4>3
    <3>4. CASE verdict' = "degraded"
      <4>1. p.warning_since # None /\ at - p.warning_since >= Sustain /\ p.warning_since \in Nat
        BY <2>1, <2>5, <3>4 DEF S!PressureVerdict, S!Lasting, Pressure
      <4>2. Run(l, p.warning_since, Above(limits, 1), Above(limits, 1))
        BY <2>8, <3>1, <4>1
      <4>3. Lasts(kind, limits, "degraded", l)
        BY <3>2, <4>1, <4>2, RunShows
      <4> QED BY <3>1, <3>4, <4>3
    <3> QED BY <2>10, <3>3, <3>4
  <2> QED BY <1>1, <2>1, <2>2, <2>4, <2>5, <2>8, <2>9, <2>10 DEF SignalInv, Tracked
<1> QED BY <1>2, <1>3, <1>4

\* What is known of a stage: nothing, or a reading.
Known(s) == s # None => s.at \in Nat /\ s.value \in Nat

LEMMA SignalsAreKnown == \A s \in S!Signals : Known(s)
<1> SUFFICES ASSUME NEW s \in S!Signals, s # None PROVE s.at \in Nat /\ s.value \in Nat
  BY DEF Known
<1>0. PICK pair \in S!Reading \X S!Reading : s = S!Signal({pair[1], pair[2]})
  BY DEF S!Signals
<1>1. PICK r \in S!Reading, q \in S!Reading : s = S!Signal({r, q})
  BY <1>0
<1> DEFINE found == {o \in {r, q} : o.complete /\ S!Recent(o.at)}
<1>2. /\ r.at \in Nat /\ q.at \in Nat /\ r.value \in Nat /\ q.value \in Nat
  BY DEF S!Reading, S!Time
<1>3. /\ S!Cardinality({o.resource : o \in found}) = 1
      /\ s = CHOOSE o \in found : \A d \in found : o.at >= d.at
  BY <1>1 DEF S!Signal
<1>4. found # {}
  <2>1. ASSUME found = {} PROVE FALSE
    <3>1. {o.resource : o \in found} = {}
      BY <2>1
    <3>2. S!Cardinality({}) = 1
      BY <1>3, <3>1
    <3>3. Cardinality({}) = 1
      BY <3>2 DEF Cardinality, S!Cardinality
    <3> QED BY <3>3, FS_EmptySet
  <2> QED BY <2>1
<1>5. \E o \in found : \A d \in found : o.at >= d.at
  <2>1. found \subseteq {r, q} /\ (r \in found \/ q \in found)
    BY <1>4
  <2> HIDE DEF found
  <2>2. CASE r \in found /\ q \in found
    <3>1. r.at >= q.at \/ q.at >= r.at
      BY <1>2
    <3> QED BY <1>2, <2>1, <2>2, <3>1
  <2>3. CASE r \notin found \/ q \notin found
    BY <1>2, <2>1, <2>3
  <2> QED BY <2>2, <2>3
<1>6. s \in found
  <2> HIDE DEF found
  <2> QED BY <1>3, <1>5
<1> QED BY <1>2, <1>6

LEMMA AdvanceHolds ==
  ASSUME S!ConstantsAssumption, SignalInv, kind # "capacity",
         NEW demand, NEW done, Known(demand), Known(done), NEW known \in BOOLEAN,
         NEW full \in BOOLEAN, S!Advance(demand, done, known, full), UNCHANGED <<kind, hour, limits>>
  PROVE  SignalInv'
<1>1. CASE demand # None /\ demand.value = 0
  <2>1. kept' = None /\ verdict' = "inactive" /\ log' = <<>>
    BY <1>1 DEF S!Advance
  <2> QED BY <2>1 DEF SignalInv
<1>2. CASE ~(demand # None /\ demand.value = 0) /\ (demand = None \/ done = None)
  <2>1. UNCHANGED <<kept, log>> /\ verdict' = "unknown"
    BY <1>2 DEF S!Advance
  <2> QED BY <2>1 DEF SignalInv, Tracked
<1>3. CASE ~(demand # None /\ demand.value = 0) /\ ~(demand = None \/ done = None)
  <2> DEFINE at == S!Min({demand.at, done.at})
             v == done.value
             first == [value |-> v, last_seen |-> at, last_progress |-> at, established |-> FALSE]
             entry == [at |-> at, value |-> v, limits |-> limits]
             next == S!Advanced(kept, v, at)
  <2>0. None \notin Progress
    BY DEF Progress, S!ConstantsAssumption
  <2>1. at \in Nat /\ v \in Nat
    <3>1. demand.at \in Nat /\ done.at \in Nat /\ v \in Nat
      BY <1>3 DEF Known
    <3>2. \E m \in {demand.at, done.at} : \A n \in {demand.at, done.at} : m <= n
      <4>1. demand.at <= done.at \/ done.at <= demand.at
        BY <3>1
      <4> QED BY <3>1, <4>1
    <3>3. at \in {demand.at, done.at}
      BY <3>2 DEF S!Min
    <3> QED BY <3>1, <3>3
  <2>2. /\ kept' = (CASE kept = None -> IF full THEN None ELSE first
                      [] kept # None /\ at > kept.last_seen -> next
                      [] kept # None /\ at <= kept.last_seen -> kept)
        /\ verdict' = (IF ~known THEN "unknown"
                       ELSE IF kept # None THEN S!ProgressVerdict(kept', at)
                       ELSE IF kind = "rate" /\ v > 0 /\ ~full THEN "healthy"
                       ELSE "unknown")
        /\ log' = IF kept' = None THEN log ELSE S!Logged(v, at)
    BY <1>3 DEF S!Advance
  <2>3. /\ log \in Seq(Entry) /\ entry \in Entry /\ entry.at = at /\ entry.value = v
        /\ kind \in {"counter", "rate"} /\ hour \in Nat /\ limits \in Thresholds
    BY <2>1 DEF Entry, SignalInv, S!ConstantsAssumption
  <2> HIDE DEF at, v
  <2>4. CASE kept = None
    <3>1. verdict' \in {"unknown", "healthy"}
      BY <2>2, <2>4
    <3>2. CASE full
      <4>1. kept' = None /\ log' = log
        BY <2>2, <2>4, <3>2
      <4> QED BY <2>3, <3>1, <4>1 DEF SignalInv
    <3>3. CASE ~full
      <4>0. first \in Progress
        BY <2>1 DEF Progress
      <4>1. first \in Progress /\ first # None
        BY <2>0, <4>0
      <4>2. kept' = first /\ first.last_seen = at /\ first.value = v /\ first.last_progress = at
        BY <2>2, <2>4, <3>3
      <4> HIDE DEF first
      <4>3. log' = Append(log, entry)
        BY <2>2, <2>4, <4>1, <4>2 DEF S!Logged
      <4> HIDE DEF entry
      <4>4. PICK l \in Seq(Entry) : l = log' /\ l # <<>> /\ l[Len(l)] = entry
        BY <2>3, <4>3
      <4>5. entry \in Still(v)
        BY <2>3 DEF Still
      <4>6. Run(l, at, Still(v), Still(v)) /\ Run(l, at, Entry, Still(0))
        BY <2>3, <4>4, <4>5, RunBegins
      <4>7. Tracked(first)'
        BY <2>3, <4>1, <4>2, <4>4, <4>6 DEF Tracked
      <4> QED BY <2>3, <3>1, <4>1, <4>2, <4>4, <4>7 DEF SignalInv, Tracked
    <3> QED BY <3>2, <3>3
  <2>5. ASSUME kept # None PROVE SignalInv'
    <3>1. /\ kept \in Progress /\ kept.value = log[Len(log)].value /\ log # <<>>
          /\ kept.last_seen = log[Len(log)].at /\ kept.last_seen \in Nat
          /\ kept.last_progress \in Nat /\ kept.value \in Nat
          /\ kind = "counter" => Run(log, kept.last_progress, Still(kept.value), Still(kept.value))
          /\ kind = "rate" => Run(log, kept.last_progress, Entry, Still(0))
      BY <2>5 DEF SignalInv, Tracked, Progress
    <3>2. /\ kept' \in Progress /\ log' \in Seq(Entry) /\ log' # <<>>
          /\ kept'.last_seen = log'[Len(log')].at /\ kept'.value = log'[Len(log')].value
          /\ kind = "counter" => Run(log', kept'.last_progress, Still(kept'.value), Still(kept'.value))
          /\ kind = "rate" => Run(log', kept'.last_progress, Entry, Still(0))
          /\ at <= kept'.last_seen
      <4>1. CASE ~(at > kept.last_seen)
        <5>1. kept' = kept /\ at <= kept.last_seen
          BY <2>1, <2>2, <2>5, <3>1, <4>1
        <5>2. log' = log
          BY <2>2, <2>3, <2>5, <4>1, <5>1 DEF S!Logged
        <5> QED BY <2>3, <3>1, <5>1, <5>2
      <4>2. CASE at > kept.last_seen
        <5>1. kept' = next
          BY <2>1, <2>2, <2>5, <3>1, <4>2
        <5>2. /\ next \in Progress /\ next.value = v /\ next.last_seen = at /\ next # None
              /\ \/ next.last_progress = at
                 \/ /\ next.last_progress = kept.last_progress
                    /\ at - kept.last_seen <= Fresh
                    /\ kind = "counter" => v = kept.value
                    /\ kind = "rate" => v = 0
          <6> DEFINE moves == IF kind = "counter" THEN v > kept.value ELSE v > 0
                     lost == S!Discontinuous(kept, v, at)
                     begun == IF lost \/ moves THEN at ELSE kept.last_progress
          <6>1. next = [value |-> v, last_seen |-> at, established |-> ~lost,
                        last_progress |-> begun]
            BY DEF S!Advanced
          <6>2. lost \in BOOLEAN /\ begun \in Nat
            BY <2>1, <3>1 DEF S!Discontinuous
          <6>3. \/ begun = at
                \/ /\ begun = kept.last_progress
                   /\ at - kept.last_seen <= Fresh
                   /\ kind = "counter" => v = kept.value
                   /\ kind = "rate" => v = 0
            BY <2>1, <3>1 DEF S!Discontinuous, S!ConstantsAssumption
          <6> HIDE DEF lost, begun, next
          <6>4. next \in Progress
            BY <2>1, <6>1, <6>2 DEF Progress
          <6>5. next # None
            BY <2>0, <6>4
          <6>6. next.value = v /\ next.last_seen = at /\ next.last_progress = begun
            BY <6>1
          <6> QED BY <6>3, <6>4, <6>5, <6>6
        <5> HIDE DEF next
        <5>3. log' = Append(log, entry)
          BY <2>2, <2>5, <4>2, <5>1, <5>2 DEF S!Logged
        <5> HIDE DEF entry
        <5>4. PICK l \in Seq(Entry) : l = log' /\ l # <<>> /\ l[Len(l)] = entry
          BY <2>3, <5>3
        <5>5. entry \in Still(v)
          BY <2>3 DEF Still
        <5>6. CASE next.last_progress = at
          <6>1. Run(l, at, Still(v), Still(v)) /\ Run(l, at, Entry, Still(0))
            BY <2>3, <5>4, <5>5, RunBegins
          <6> QED BY <2>1, <2>3, <5>1, <5>2, <5>4, <5>6, <6>1
        <5>7. CASE next.last_progress # at
          <6>1. entry.at - log[Len(log)].at <= Fresh
            BY <2>3, <3>1, <5>2, <5>7
          <6>2. CASE kind = "counter"
            <7>1. v = kept.value /\ next.last_progress = kept.last_progress
              BY <5>2, <5>7, <6>2
            <7>2. Run(Append(log, entry), kept.last_progress, Still(v), Still(v))
              BY <2>3, <3>1, <5>5, <6>1, <6>2, <7>1, RunGoesOn
            <7> QED BY <2>1, <2>3, <5>1, <5>2, <5>3, <5>4, <6>2, <7>1, <7>2
          <6>3. CASE kind = "rate"
            <7>1. v = 0 /\ next.last_progress = kept.last_progress
              BY <5>2, <5>7, <6>3
            <7>2. Run(Append(log, entry), kept.last_progress, Entry, Still(0))
              BY <2>3, <3>1, <5>5, <6>1, <6>3, <7>1, RunGoesOn
            <7> QED BY <2>1, <2>3, <5>1, <5>2, <5>3, <5>4, <6>3, <7>1, <7>2
          <6> QED BY <2>3, <6>2, <6>3
        <5> QED BY <5>6, <5>7
      <4> QED BY <4>1, <4>2
    <3>3. verdict' \in {"unknown", "unhealthy", "healthy"}
          /\ (verdict' = "unhealthy" => at >= kept'.last_progress + Sustain)
      BY <2>2, <2>5 DEF S!ProgressVerdict
    <3>4. ASSUME verdict' = "unhealthy" PROVE Lasts(kind, limits, verdict', log')
      <4>1. PICK l \in Seq(Entry) : l = log'
        BY <3>2
      <4>2. /\ kept'.last_progress \in Nat /\ kept'.last_seen \in Nat
            /\ l[Len(l)].at - kept'.last_progress >= Sustain
        <5>1. /\ kept'.last_progress \in Nat /\ kept'.last_seen \in Nat
              /\ l[Len(l)].at = kept'.last_seen /\ at <= kept'.last_seen
              /\ at >= kept'.last_progress + Sustain
          BY <3>2, <3>3, <3>4, <4>1 DEF Progress
        <5> QED BY <2>1, <5>1 DEF S!ConstantsAssumption
      <4>3. PICK begun \in Nat, x \in Nat : begun = kept'.last_progress /\ x = kept'.value
        BY <3>2 DEF Progress
      <4>4. CASE kind = "counter"
        <5>1. Run(l, begun, Still(x), Still(x))
          BY <3>2, <4>1, <4>3, <4>4
        <5>2. Lasts(kind, limits, "unhealthy", l)
          BY <4>2, <4>3, <4>4, <5>1, RunShows
        <5> QED BY <3>4, <4>1, <5>2
      <4>5. CASE kind = "rate"
        <5>1. Run(l, begun, Entry, Still(0))
          BY <3>2, <4>1, <4>3, <4>5
        <5>2. Lasts(kind, limits, "unhealthy", l)
          BY <4>2, <4>3, <4>5, <5>1, RunShows
        <5> QED BY <3>4, <4>1, <5>2
      <4> QED BY <2>3, <4>4, <4>5
    <3>5. verdict' \in {"unhealthy", "degraded"} => Lasts(kind, limits, verdict', log')
      BY <3>3, <3>4
    <3> QED BY <2>3, <3>2, <3>5 DEF SignalInv, Tracked
  <2> QED BY <2>4, <2>5
<1> QED BY <1>1, <1>2, <1>3

LEMMA SignalStep ==
  S!ConstantsAssumption /\ SignalInv /\ [S!Next]_S!svars => SignalInv'
<1> SUFFICES ASSUME S!ConstantsAssumption, SignalInv, [S!Next]_S!svars PROVE SignalInv'
  OBVIOUS
<1>1. hour \in Nat
  BY DEF SignalInv
<1>2. ASSUME S!Evaluate PROVE SignalInv'
  <2>1. UNCHANGED <<kind, hour, limits>>
    BY <1>2 DEF S!Evaluate
  <2>2. CASE kind = "capacity"
    <3>1. PICK v \in 0..2, at \in 0..hour, sound \in BOOLEAN, full \in BOOLEAN :
              S!Consistent(v, at) /\ S!Judge(v, at, sound, full)
      BY <1>2, <2>2 DEF S!Evaluate
    <3>2. v \in Nat /\ at \in Nat
      BY <1>1
    <3> QED BY <2>1, <2>2, <3>1, <3>2, JudgeHolds
  <2>3. CASE kind # "capacity"
    <3>1. PICK demand \in S!Signals, done \in S!Signals, known \in BOOLEAN, full \in BOOLEAN :
              S!Advance(demand, done, known, full)
      BY <1>2, <2>3 DEF S!Evaluate
    <3>2. Known(demand) /\ Known(done)
      BY SignalsAreKnown
    <3> QED BY <2>1, <2>3, <3>1, <3>2, AdvanceHolds
  <2> QED BY <2>2, <2>3
<1>3. ASSUME S!Tick PROVE SignalInv'
  <2>1. hour' \in Nat /\ UNCHANGED <<kind, limits, kept, verdict, log>>
    BY <1>1, <1>3 DEF S!Tick
  <2>2. Tracked(kept)' = Tracked(kept)
    BY <2>1 DEF Tracked
  <2> QED BY <2>1, <2>2 DEF SignalInv
<1>4. ASSUME S!Retune PROVE SignalInv'
  <2>1. limits' \in Thresholds /\ verdict' = None /\ UNCHANGED <<kind, hour, kept, log>>
    BY <1>4 DEF S!Retune
  <2>2. verdict' \notin {"unhealthy", "degraded"}
    BY <2>1 DEF S!ConstantsAssumption
  <2>3. Tracked(kept)' = Tracked(kept)
    BY <2>1 DEF Tracked
  <2> QED BY <2>1, <2>2, <2>3 DEF SignalInv
<1>5. ASSUME S!Forget PROVE SignalInv'
  <2>1. kept' = None /\ verdict' = None /\ log' = <<>> /\ UNCHANGED <<kind, hour, limits>>
    BY <1>5 DEF S!Forget
  <2>2. verdict' \notin {"unhealthy", "degraded"}
    BY <2>1 DEF S!ConstantsAssumption
  <2> QED BY <2>1, <2>2 DEF SignalInv
<1>6. CASE UNCHANGED S!svars
  BY <1>6 DEF S!svars, SignalInv, Tracked
<1> QED BY <1>2, <1>3, <1>4, <1>5, <1>6 DEF S!Next

\* What is announced as sustained pressure or as an idle stage was shown by every reading of an
\* unbroken run of the required length: for any thresholds, lengths and order of readings,
\* retuning, gaps and reloads (capacity.rs, flows.rs).
THEOREM AnnouncedIsSustained ==
  ASSUME S!ConstantsAssumption
  PROVE  S!Spec => []FaultsAreSustained
<1>1. S!Init => SignalInv
  <2> SUFFICES ASSUME S!Init PROVE SignalInv
    OBVIOUS
  <2>1. verdict \notin {"unhealthy", "degraded"}
    BY DEF S!Init, S!ConstantsAssumption
  <2> QED BY <2>1 DEF S!Init, SignalInv
<1>2. SignalInv /\ [S!Next]_S!svars => SignalInv'
  BY SignalStep
<1>3. SignalInv => FaultsAreSustained
  BY SustainedIs DEF FaultsAreSustained
<1> QED BY <1>1, <1>2, <1>3, PTL DEF S!Spec

-----------------------------------------------------------------------------
(* Policies: what one observation says of its resource, for any settings.  *)

Moment == Nat \cup {X!P!Never}
Optional(values) == values \cup {None}

\* An observation has its time, and the fields of its kind.
Observes(o, fields) ==
    /\ {"data", "active", "at"} \cup fields \subseteq DOMAIN o
    /\ o.active \in BOOLEAN /\ o.at \in Moment

\* What the policies decide by, where there is more and less of it.
WorkloadSeen(o) ==
    /\ Observes(o, {"desired", "ready", "created", "draining", "node"})
    /\ o.desired \in Nat /\ o.ready \in Nat /\ o.created \in Moment
PodSeen(o) ==
    /\ Observes(o, {"uid", "ready", "restarts", "crash_loop", "created"})
    /\ o.restarts \in Nat /\ o.created \in Moment
CertificateSeen(o) == Observes(o, {"issued", "expires"}) /\ o.expires \in Moment
RecoverySeen(o) ==
    Observes(o, {"enabled", "state", "last_success"}) /\ o.last_success \in Moment
LogSeen(o) == Observes(o, {"signature", "count", "sampled"}) /\ o.count \in Nat
ConditionSeen(o) == Observes(o, {"healthy", "rule"})
SynchronizationSeen(o, instant) ==
    /\ Observes(o, {"ready", "last_sync", "interval"})
    /\ o.last_sync \in Moment /\ o.last_sync <= instant /\ o.interval \in Optional(Nat)
SloSeen(o) ==
    /\ Observes(o, {"goal", "compliance", "spent", "burn_rate", "malformed"})
    /\ o.goal \in Nat /\ o.compliance \in Optional(Nat) /\ o.burn_rate \in Optional(Nat)
EndpointSeen(o) ==
    /\ Observes(o, {"dns", "tls", "accepted", "expires", "latency"})
    /\ o.expires \in Moment /\ o.latency \in Optional(Nat)
ServiceSeen(o) == Observes(o, {"state", "encrypted", "backup_enabled"})
MetricSeen(o) ==
    /\ Observes(o, {"value", "capacity", "warning", "error", "window"})
    /\ o.value \in Optional(Nat) /\ o.capacity \in Optional(Nat) /\ o.window \in Nat
    /\ o.warning \in Optional(Nat) /\ o.error \in Optional(Nat)
QueueSeen(o) ==
    /\ Observes(o, {"backlog", "activation", "ready", "crash_loop", "scaler_ready", "age",
                 "dead_letters"})
    /\ o.backlog \in Optional(Nat) /\ o.activation \in Nat /\ o.ready \in Nat
    /\ o.age \in Optional(Nat) /\ o.dead_letters \in Optional(Nat)

LEMMA RankOf ==
    /\ X!P!Rank(X!P!Healthy) = 0 /\ X!P!Rank(X!P!Inactive) = 0 /\ X!P!Rank(X!P!Unknown) = 1
    /\ \A r : X!P!Rank(X!P!Warning(r)) = 2 /\ X!P!Rank(X!P!Error(r)) = 3
BY DEF X!P!Rank, X!P!Healthy, X!P!Inactive, X!P!Unknown, X!P!Warning, X!P!Error, X!P!Quiet

LEMMA OnlyHealthyIs ==
    /\ X!P!Inactive.health # "healthy" /\ X!P!Unknown.health # "healthy"
    /\ \A r : X!P!Warning(r).health # "healthy" /\ X!P!Error(r).health # "healthy"
BY DEF X!P!Inactive, X!P!Unknown, X!P!Warning, X!P!Error, X!P!Quiet

\* Another value of one field leaves the age, and what counts as prior, and the other fields.
LEMMA RestKept ==
    ASSUME NEW o, NEW fields, Observes(o, fields), NEW f, f \notin {"data", "active", "at"},
           NEW v, NEW w, w = X!P!With(o, f, v)
    PROVE  /\ w.data = o.data /\ w.active = o.active /\ w.at = o.at
           /\ \A e : X!P!Usable(e, w) <=> X!P!Usable(e, o)
<1>1. w.data = o.data /\ w.active = o.active /\ w.at = o.at
    BY DEF X!P!With, Observes
<1> QED  BY <1>1 DEF X!P!Usable

LEMMA FieldChanged ==
    ASSUME NEW o, NEW fields, Observes(o, fields), NEW f \in fields, f \notin {"data", "active", "at"},
           NEW v, NEW w, w = X!P!With(o, f, v)
    PROVE  /\ w[f] = v /\ \A g \in fields \ {f} : w[g] = o[g]
           /\ w.data = o.data /\ w.active = o.active /\ w.at = o.at
           /\ \A e : X!P!Usable(e, w) <=> X!P!Usable(e, o)
<1>1. /\ w[f] = v /\ \A g \in fields \ {f} : w[g] = o[g]
      /\ w.data = o.data /\ w.active = o.active /\ w.at = o.at
    BY DEF X!P!With, Observes
<1> QED  BY <1>1 DEF X!P!Usable

\* One policy at a time: a worse measurement makes no better verdict.
LEMMA WorkloadOrdered ==
    ASSUME X!P!ConstantsAssumption, NEW o, WorkloadSeen(o), NEW instant \in Nat,
           NEW v \in 0..(o.ready - 1), NEW w, w = X!P!With(o, "ready", v)
    PROVE  X!P!Rank(X!P!Workload(w, instant)) >= X!P!Rank(X!P!Workload(o, instant))
<1>1. PICK fields : fields = {"desired", "ready", "created", "draining", "node"}
    OBVIOUS
<1>2. PICK f : f = "ready"
    OBVIOUS
<1>3. Observes(o, fields) /\ w = X!P!With(o, f, v)
    BY <1>1, <1>2 DEF WorkloadSeen
<1>4. f \in fields /\ f \notin {"data", "active", "at"}
    BY <1>1, <1>2
<1>5. w[f] = v /\ (\A g \in fields \ {f} : w[g] = o[g]) /\ w.active = o.active
    BY <1>3, <1>4, FieldChanged
<1>6. /\ w.ready = v /\ w.desired = o.desired /\ w.created = o.created /\ w.active = o.active
      /\ w.draining = o.draining /\ w.node = o.node
    BY <1>1, <1>2, <1>5
<1> QED  BY <1>6, RankOf DEF WorkloadSeen, X!P!Workload

LEMMA PodOrdered ==
    ASSUME X!P!ConstantsAssumption, NEW o, PodSeen(o), NEW instant \in Nat,
           NEW e, e = None \/ e.restarts \in Nat,
           NEW v \in 0..(o.restarts - 1), NEW w, w = X!P!With(o, "restarts", v)
    PROVE  X!P!Rank(X!P!Pod(w, e, instant)) <= X!P!Rank(X!P!Pod(o, e, instant))
<1>1. /\ w.restarts = v /\ w.uid = o.uid /\ w.ready = o.ready /\ w.active = o.active
      /\ w.crash_loop = o.crash_loop /\ w.created = o.created
    BY FieldChanged DEF PodSeen
<1> QED  BY <1>1, RankOf DEF PodSeen, X!P!Pod

LEMMA CertificateOrdered ==
    ASSUME X!P!ConstantsAssumption, NEW o, CertificateSeen(o), NEW instant \in Nat,
           NEW v \in 0..(o.expires - 1), NEW w, w = X!P!With(o, "expires", v)
    PROVE  X!P!Rank(X!P!Certificate(w, instant)) >= X!P!Rank(X!P!Certificate(o, instant))
<1>1. w.expires = v /\ w.issued = o.issued /\ w.active = o.active
    BY FieldChanged DEF CertificateSeen
<1>2. X!P!Never = -1 /\ RuleSettings.certificate_warning \in Nat
    BY DEF X!P!Never, X!P!ConstantsAssumption
<1> QED  BY <1>1, <1>2, RankOf DEF CertificateSeen, Moment, X!P!Certificate

LEMMA RecoveryOrdered ==
    ASSUME X!P!ConstantsAssumption, NEW o, RecoverySeen(o), NEW instant \in Nat,
           NEW v \in 0..(o.last_success - 1), NEW w, w = X!P!With(o, "last_success", v)
    PROVE  X!P!Rank(X!P!Recovery(w, instant)) >= X!P!Rank(X!P!Recovery(o, instant))
<1>1. /\ w.last_success = v /\ w.enabled = o.enabled /\ w.state = o.state /\ w.active = o.active
    BY FieldChanged DEF RecoverySeen
<1>2. X!P!Never = -1 /\ RuleSettings.recovery_age \in Nat \cup {None}
    BY DEF X!P!Never, X!P!ConstantsAssumption
<1> QED  BY <1>1, <1>2, RankOf DEF RecoverySeen, Moment, X!P!Recovery

LEMMA SynchronizationOrdered ==
    ASSUME X!P!ConstantsAssumption, NEW o, NEW instant \in Nat, SynchronizationSeen(o, instant),
           NEW v \in 0..(o.last_sync - 1), NEW w, w = X!P!With(o, "last_sync", v)
    PROVE  X!P!Rank(X!P!Synchronization(w, instant)) >= X!P!Rank(X!P!Synchronization(o, instant))
<1>1. /\ w.last_sync = v /\ w.ready = o.ready /\ w.interval = o.interval /\ w.active = o.active
    BY FieldChanged DEF SynchronizationSeen
<1>2. X!P!Never = -1 /\ RuleSettings.operation_timeout \in Nat /\ None \notin Int
    BY DEF X!P!Never, X!P!ConstantsAssumption
<1> QED
    BY <1>1, <1>2, RankOf DEF SynchronizationSeen, Moment, Optional, X!P!Synchronization, X!P!AgeKnown

LEMMA SloOrdered ==
    ASSUME X!P!ConstantsAssumption, NEW o, SloSeen(o), NEW v \in Nat, NEW w
    PROVE  /\ w = X!P!With(o, "compliance", v) /\ o.compliance # None /\ v < o.compliance =>
                X!P!Rank(X!P!Slo(w)) >= X!P!Rank(X!P!Slo(o))
           /\ w = X!P!With(o, "burn_rate", v) /\ o.burn_rate # None /\ v < o.burn_rate =>
                X!P!Rank(X!P!Slo(w)) <= X!P!Rank(X!P!Slo(o))
<1>1. RuleSettings.burn_rate \in Nat \cup {None} /\ None \notin Int
    BY DEF X!P!ConstantsAssumption
<1>2. ASSUME w = X!P!With(o, "compliance", v), o.compliance # None, v < o.compliance
      PROVE  X!P!Rank(X!P!Slo(w)) >= X!P!Rank(X!P!Slo(o))
    <2>1. /\ w.compliance = v /\ w.goal = o.goal /\ w.spent = o.spent
          /\ w.burn_rate = o.burn_rate /\ w.malformed = o.malformed /\ w.active = o.active
        BY <1>2, FieldChanged DEF SloSeen
    <2> QED  BY <1>1, <1>2, <2>1, RankOf DEF SloSeen, Optional, X!P!Slo
<1>3. ASSUME w = X!P!With(o, "burn_rate", v), o.burn_rate # None, v < o.burn_rate
      PROVE  X!P!Rank(X!P!Slo(w)) <= X!P!Rank(X!P!Slo(o))
    <2>1. /\ w.burn_rate = v /\ w.goal = o.goal /\ w.spent = o.spent
          /\ w.compliance = o.compliance /\ w.malformed = o.malformed /\ w.active = o.active
        BY <1>3, FieldChanged DEF SloSeen
    <2> QED  BY <1>1, <1>3, <2>1, RankOf DEF SloSeen, Optional, X!P!Slo
<1> QED  BY <1>2, <1>3

LEMMA EndpointOrdered ==
    ASSUME X!P!ConstantsAssumption, NEW o, EndpointSeen(o), NEW instant \in Nat, o.latency # None,
           NEW v \in 0..(o.latency - 1), NEW w, w = X!P!With(o, "latency", v)
    PROVE  X!P!Rank(X!P!Endpoint(w, instant)) <= X!P!Rank(X!P!Endpoint(o, instant))
<1> DEFINE up == o.dns /\ o.tls /\ o.accepted = TRUE
           ending == o.expires # X!P!Never /\ o.expires - instant < RuleSettings.certificate_warning
<1>1. /\ w.latency = v /\ w.dns = o.dns /\ w.tls = o.tls /\ w.accepted = o.accepted
      /\ w.active = o.active /\ w.expires = o.expires
    BY FieldChanged DEF EndpointSeen
<1>2. ASSUME NEW x \in {o, w}
      PROVE  X!P!Endpoint(x, instant) =
                IF ~up THEN IF o.active THEN X!P!Error("endpoint-unreachable") ELSE X!P!Inactive
                ELSE IF ending THEN X!P!Warning("certificate-expiring")
                ELSE IF X!P!Exceeds(x.latency, RuleSettings.latency)
                     THEN X!P!Error("endpoint-latency")
                ELSE X!P!Healthy
    <2>1. CASE x = o  BY <2>1 DEF X!P!Endpoint
    <2>2. CASE x = w  BY <2>2, <1>1 DEF X!P!Endpoint
    <2> QED  BY <2>1, <2>2
<1>3. X!P!Exceeds(w.latency, RuleSettings.latency) => X!P!Exceeds(o.latency, RuleSettings.latency)
    BY <1>1 DEF EndpointSeen, Optional, X!P!Exceeds, X!P!ConstantsAssumption
<1> HIDE DEF up, ending
<1> QED  BY <1>2, <1>3, RankOf

LEMMA LogOrdered ==
    ASSUME NEW o, LogSeen(o), NEW v \in 0..(o.count - 1), NEW w, w = X!P!With(o, "count", v)
    PROVE  X!P!Rank(X!P!Log(w)) <= X!P!Rank(X!P!Log(o))
<1>1. w.count = v /\ w.signature = o.signature /\ w.sampled = o.sampled
    BY FieldChanged DEF LogSeen
<1> QED  BY <1>1, RankOf DEF LogSeen, X!P!Log

LEMMA QueueOrdered ==
    ASSUME X!P!ConstantsAssumption, NEW o, QueueSeen(o), NEW e, NEW v \in Nat, NEW w
    PROVE  /\ w = X!P!With(o, "backlog", v) /\ o.backlog # None /\ v < o.backlog =>
                X!P!Rank(X!P!Queue(w, e)) <= X!P!Rank(X!P!Queue(o, e))
           /\ w = X!P!With(o, "age", v) /\ o.age # None /\ v < o.age =>
                X!P!Rank(X!P!Queue(w, e)) <= X!P!Rank(X!P!Queue(o, e))
<1>1. RuleSettings.queue_age \in Nat \cup {None} /\ None \notin Int
    BY DEF X!P!ConstantsAssumption
<1>2. ASSUME w = X!P!With(o, "backlog", v), o.backlog # None, v < o.backlog
      PROVE  X!P!Rank(X!P!Queue(w, e)) <= X!P!Rank(X!P!Queue(o, e))
    <2>1. /\ w.backlog = v /\ w.activation = o.activation /\ w.ready = o.ready /\ w.age = o.age
          /\ w.crash_loop = o.crash_loop /\ w.scaler_ready = o.scaler_ready
          /\ w.dead_letters = o.dead_letters /\ w.active = o.active
        BY <1>2, FieldChanged DEF QueueSeen
    <2> QED  BY <1>1, <1>2, <2>1, RankOf DEF QueueSeen, Optional, X!P!Queue, X!P!Exceeds
<1>3. ASSUME w = X!P!With(o, "age", v), o.age # None, v < o.age
      PROVE  X!P!Rank(X!P!Queue(w, e)) <= X!P!Rank(X!P!Queue(o, e))
    <2>1. /\ w.age = v /\ w.activation = o.activation /\ w.ready = o.ready
          /\ w.backlog = o.backlog /\ w.crash_loop = o.crash_loop
          /\ w.scaler_ready = o.scaler_ready /\ w.dead_letters = o.dead_letters
          /\ w.active = o.active
        BY <1>3, FieldChanged DEF QueueSeen
    <2> QED  BY <1>1, <1>3, <2>1, RankOf DEF QueueSeen, Optional, X!P!Queue, X!P!Exceeds
<1> QED  BY <1>2, <1>3

LEMMA MetricOrdered ==
    ASSUME X!P!ConstantsAssumption, NEW o, MetricSeen(o), o.value # None,
           NEW v \in 0..(o.value - 1), NEW w, w = X!P!With(o, "value", v)
    PROVE  X!P!Rank(X!P!Metric(w)) <= X!P!Rank(X!P!Metric(o))
<1>1. /\ w.value = v /\ w.capacity = o.capacity /\ w.warning = o.warning /\ w.error = o.error
      /\ w.window = o.window /\ w.active = o.active
    BY FieldChanged DEF MetricSeen
<1>2. /\ None \notin Int /\ RuleSettings.capacity_warning \in Nat
      /\ RuleSettings.capacity_error \in Nat /\ RuleSettings.capacity_sustain \in Nat
    BY DEF X!P!ConstantsAssumption
<1> QED  BY <1>1, <1>2, RankOf DEF MetricSeen, Optional, X!P!Metric

\* The numbers below any are well-founded: a set of them has a least.
LEMMA LeastIs ==
    ASSUME NEW T, T \subseteq Nat, T # {}
    PROVE  \E n \in T : \A m \in T : n <= m
<1> DEFINE Below == {pair \in Nat \X Nat : pair[1] < pair[2]}
<1>1. IsWellFoundedOn(Below, Nat)
    BY NatLessThanWellFounded DEF OpToRel
<1>2. PICK n \in T : \A m \in T : <<m, n>> \notin Below
    <2> HIDE DEF Below
    <2> QED  BY <1>1, WFMin
<1>3. \A m \in T : ~(m < n)
    BY <1>2
<1> QED  BY <1>3

LEMMA LatestIs ==
    ASSUME NEW T, T \subseteq Nat, T # {}, NEW b \in Nat, \A t \in T : t <= b
    PROVE  \E t \in T : \A u \in T : u <= t
<1>1. PICK n \in {m \in Nat : \A t \in T : t <= m} :
            \A m \in {m \in Nat : \A t \in T : t <= m} : n <= m
    <2> DEFINE D == {m \in Nat : \A t \in T : t <= m}
    <2>1. D \subseteq Nat /\ D # {}
        OBVIOUS
    <2>2. \E n \in D : \A m \in D : n <= m
        <3> HIDE DEF D
        <3> QED  BY <2>1, LeastIs
    <2> QED  BY <2>2
<1>2. SUFFICES ASSUME n \notin T  PROVE FALSE
    BY <1>1
<1>3. \A t \in T : t <= n - 1
    BY <1>1, <1>2
<1>4. n - 1 \in Nat
    <2>1. PICK t \in T : TRUE
        OBVIOUS
    <2> QED  BY <1>1, <1>3, <2>1
<1> QED  BY <1>1, <1>3, <1>4

\* A schedule names no time before the first.
ScheduleSeen(o) ==
    /\ Observes(o, {"occurrences", "deadline", "suspended", "running", "forbid_overlap",
                 "last_schedule", "last_success", "created"})
    /\ o.deadline \in Nat /\ o.last_schedule \in Moment /\ o.last_success \in Moment
    /\ o.created \in Moment
    /\ o.occurrences # None => o.occurrences \subseteq Nat

LEMMA ScheduleOrdered ==
    ASSUME X!P!ConstantsAssumption, NEW o, ScheduleSeen(o), NEW instant \in Nat,
           NEW v \in Moment, NEW w, w = X!P!With(o, "last_success", v)
    PROVE  /\ v < o.last_success =>
                X!P!Rank(X!P!Schedule(w, instant)) >= X!P!Rank(X!P!Schedule(o, instant))
           /\ v = X!P!Never => X!P!Schedule(w, instant).health # "healthy"
<1> DEFINE grace == IF o.deadline > RuleSettings.rollout_grace THEN o.deadline
                    ELSE RuleSettings.rollout_grace
           before == {t \in o.occurrences : t <= instant - grace}
           due == CHOOSE t \in before : \A u \in before : u <= t
           missed(x) == /\ o.last_schedule > x.last_success /\ ~o.running
                        /\ instant - o.last_schedule > RuleSettings.rollout_grace
           early == before = {} \/ (o.created # X!P!Never /\ due < o.created)
           unseen == o.created = X!P!Never /\ o.last_schedule = X!P!Never
<1>1. /\ w.last_success = v /\ w.occurrences = o.occurrences /\ w.deadline = o.deadline
      /\ w.suspended = o.suspended /\ w.running = o.running /\ w.created = o.created
      /\ w.forbid_overlap = o.forbid_overlap /\ w.last_schedule = o.last_schedule
      /\ w.active = o.active
    BY FieldChanged DEF ScheduleSeen
<1>2. ASSUME NEW x \in {o, w}
      PROVE  X!P!Schedule(x, instant) =
                IF o.suspended \/ ~o.active THEN X!P!Inactive
                ELSE IF o.running /\ o.forbid_overlap THEN X!P!Unknown
                ELSE IF missed(x) THEN X!P!Warning("latest-schedule-not-successful")
                ELSE IF o.occurrences = None THEN X!P!Unknown
                ELSE IF early THEN X!P!Unknown
                ELSE IF o.last_schedule < due
                     THEN IF unseen THEN X!P!Unknown ELSE X!P!Warning("schedule-missed")
                ELSE IF x.last_success >= due THEN X!P!Healthy ELSE X!P!Unknown
    <2>1. CASE x = o  BY <2>1 DEF X!P!Schedule
    <2>2. CASE x = w  BY <2>2, <1>1 DEF X!P!Schedule
    <2> QED  BY <2>1, <2>2
<1>3. v < o.last_success /\ missed(o) => missed(w)
    BY <1>1 DEF ScheduleSeen, Moment, X!P!Never
<1>4. ~early /\ o.occurrences # None => due \in Nat
    <2> SUFFICES ASSUME ~early, o.occurrences # None  PROVE due \in Nat
        OBVIOUS
    <2>1. before \subseteq Nat /\ before # {} /\ \A t \in before : t <= instant
        BY DEF ScheduleSeen, X!P!ConstantsAssumption
    <2> HIDE DEF before
    <2>2. \E t \in before : \A u \in before : u <= t
        BY <2>1, LatestIs
    <2> QED  BY <2>1, <2>2
<1>5. due \in Nat /\ w.last_success >= due =>
            /\ v # X!P!Never
            /\ v < o.last_success => o.last_success >= due
    BY <1>1 DEF ScheduleSeen, Moment, X!P!Never
<1> HIDE DEF grace, before, due, missed, early, unseen
<1> QED  BY <1>2, <1>3, <1>4, <1>5, RankOf, OnlyHealthyIs

-----------------------------------------------------------------------------
Prior(e, o) == IF X!P!Usable(e, o) THEN e ELSE None

\* Freshness decides before any policy does.
Dated(o, instant, found) ==
    IF ~X!P!AgeKnown(o.at, instant) \/ X!P!Older(o.at, instant, RuleSettings.freshness)
    THEN X!P!Unknown ELSE found

LEMMA EvaluateIs ==
    ASSUME NEW o, NEW e, NEW instant
    PROVE
           /\ o.data = "workload" =>
                X!P!Evaluate(o, e, instant) = Dated(o, instant, X!P!Workload(o, instant))
           /\ o.data = "pod" =>
                X!P!Evaluate(o, e, instant) = Dated(o, instant, X!P!Pod(o, Prior(e, o), instant))
           /\ o.data = "certificate" =>
                X!P!Evaluate(o, e, instant) = Dated(o, instant, X!P!Certificate(o, instant))
           /\ o.data = "recovery" =>
                X!P!Evaluate(o, e, instant) = Dated(o, instant, X!P!Recovery(o, instant))
           /\ o.data = "log" =>
                X!P!Evaluate(o, e, instant) = Dated(o, instant, X!P!Log(o))
           /\ o.data = "condition" =>
                X!P!Evaluate(o, e, instant) = Dated(o, instant, X!P!Condition(o))
           /\ o.data = "synchronization" =>
                X!P!Evaluate(o, e, instant) = Dated(o, instant, X!P!Synchronization(o, instant))
           /\ o.data = "slo" =>
                X!P!Evaluate(o, e, instant) = Dated(o, instant, X!P!Slo(o))
           /\ o.data = "endpoint" =>
                X!P!Evaluate(o, e, instant) = Dated(o, instant, X!P!Endpoint(o, instant))
           /\ o.data = "service" =>
                X!P!Evaluate(o, e, instant) = Dated(o, instant, X!P!Service(o))
           /\ o.data = "metric" =>
                X!P!Evaluate(o, e, instant) = Dated(o, instant, X!P!Metric(o))
           /\ o.data = "queue" =>
                X!P!Evaluate(o, e, instant) = Dated(o, instant, X!P!Queue(o, Prior(e, o)))
           /\ o.data = "schedule" =>
                X!P!Evaluate(o, e, instant) = Dated(o, instant, X!P!Schedule(o, instant))
BY DEF X!P!Evaluate, Dated, Prior


LEMMA DatedKeeps ==
    ASSUME NEW o, NEW w, w.at = o.at, NEW instant, NEW x, NEW y
    PROVE  /\ X!P!Rank(x) >= X!P!Rank(y) =>
                X!P!Rank(Dated(w, instant, x)) >= X!P!Rank(Dated(o, instant, y))
           /\ X!P!Rank(x) <= X!P!Rank(y) =>
                X!P!Rank(Dated(w, instant, x)) <= X!P!Rank(Dated(o, instant, y))
           /\ x.health # "healthy" => Dated(w, instant, x).health # "healthy"
BY RankOf, OnlyHealthyIs DEF Dated

\* What is measured, and what decides, of each kind.
LEMMA Lesser ==
    /\ X!P!LessIsWorse("workload") = {"ready"} /\ X!P!LessIsWorse("certificate") = {"expires"}
    /\ X!P!LessIsWorse("recovery") = {"last_success"}
    /\ X!P!LessIsWorse("schedule") = {"last_success"}
    /\ X!P!LessIsWorse("synchronization") = {"last_sync"} /\ X!P!LessIsWorse("slo") = {"compliance"}
    /\ \A k : k \notin {"workload", "certificate", "recovery", "schedule", "synchronization", "slo"} =>
            X!P!LessIsWorse(k) = {}
BY DEF X!P!LessIsWorse

LEMMA Greater ==
    /\ X!P!MoreIsWorse("pod") = {"restarts"} /\ X!P!MoreIsWorse("queue") = {"backlog", "age"}
    /\ X!P!MoreIsWorse("metric") = {"value"} /\ X!P!MoreIsWorse("slo") = {"burn_rate"}
    /\ X!P!MoreIsWorse("endpoint") = {"latency"} /\ X!P!MoreIsWorse("log") = {"count"}
    /\ \A k : k \notin {"pod", "queue", "metric", "slo", "endpoint", "log"} =>
            X!P!MoreIsWorse(k) = {}
BY DEF X!P!MoreIsWorse

LEMMA Decisive ==
    /\ X!P!Decisive("certificate") = {<<"issued", None>>, <<"expires", X!P!Never>>}
    /\ X!P!Decisive("recovery") = {<<"last_success", X!P!Never>>}
    /\ X!P!Decisive("schedule") = {<<"last_success", X!P!Never>>}
    /\ X!P!Decisive("slo") = {<<"compliance", None>>}
    /\ X!P!Decisive("condition") = {<<"healthy", None>>}
    /\ X!P!Decisive("endpoint") = {<<"accepted", None>>}
    /\ X!P!Decisive("metric") = {<<"value", None>>}
    /\ X!P!Decisive("synchronization") = {<<"ready", None>>}
    /\ X!P!Decisive("queue") = {<<"backlog", None>>}
    /\ X!P!Decisive("service") = {<<"state", "unknown">>}
    /\ \A k : k \notin {"certificate", "recovery", "schedule", "slo", "condition", "endpoint",
                        "metric", "synchronization", "queue", "service"} => X!P!Decisive(k) = {}
BY DEF X!P!Decisive

LEMMA WorkloadDecides ==
    ASSUME X!P!ConstantsAssumption, NEW o, o.data = "workload", NEW instant \in Nat, WorkloadSeen(o),
           NEW e
    PROVE  X!P!VerdictsFollowEvidence(o, e, instant)
<1>1. ASSUME o.ready # None, NEW v \in 0..(o.ready - 1), NEW w, w = X!P!With(o, "ready", v)
      PROVE  X!P!Rank(X!P!Evaluate(w, e, instant)) >= X!P!Rank(X!P!Evaluate(o, e, instant))
    <2>1. w.data = o.data /\ w.at = o.at
        BY <1>1, RestKept DEF WorkloadSeen
    <2>2. X!P!Rank(X!P!Workload(w, instant)) >= X!P!Rank(X!P!Workload(o, instant))
        BY <1>1, WorkloadOrdered
    <2> QED  BY <2>1, <2>2, EvaluateIs, DatedKeeps
<1> QED
    BY <1>1, Lesser, Greater, Decisive DEF X!P!VerdictsFollowEvidence, WorkloadSeen, Observes

LEMMA PodDecides ==
    ASSUME X!P!ConstantsAssumption, NEW o, o.data = "pod", NEW instant \in Nat, PodSeen(o),
           NEW e, e = None \/ e.restarts \in Nat
    PROVE  X!P!VerdictsFollowEvidence(o, e, instant)
<1>1. ASSUME o.restarts # None, NEW v \in 0..(o.restarts - 1), NEW w, w = X!P!With(o, "restarts", v)
      PROVE  X!P!Rank(X!P!Evaluate(w, e, instant)) <= X!P!Rank(X!P!Evaluate(o, e, instant))
    <2>1. w.data = o.data /\ w.at = o.at /\ (X!P!Usable(e, w) <=> X!P!Usable(e, o))
        BY <1>1, RestKept DEF PodSeen
    <2>2. Prior(e, w) = Prior(e, o)
        BY <2>1 DEF Prior
    <2>3. X!P!Rank(X!P!Pod(w, Prior(e, o), instant)) <= X!P!Rank(X!P!Pod(o, Prior(e, o), instant))
        BY <1>1, PodOrdered DEF Prior
    <2> QED  BY <2>1, <2>2, <2>3, EvaluateIs, DatedKeeps
<1> QED
    BY <1>1, Lesser, Greater, Decisive DEF X!P!VerdictsFollowEvidence, PodSeen, Observes

LEMMA CertificateDecides ==
    ASSUME X!P!ConstantsAssumption, NEW o, o.data = "certificate", NEW instant \in Nat, CertificateSeen(o),
           NEW e
    PROVE  X!P!VerdictsFollowEvidence(o, e, instant)
<1>1. ASSUME o.expires # None, NEW v \in 0..(o.expires - 1), NEW w, w = X!P!With(o, "expires", v)
      PROVE  X!P!Rank(X!P!Evaluate(w, e, instant)) >= X!P!Rank(X!P!Evaluate(o, e, instant))
    <2>1. w.data = o.data /\ w.at = o.at
        BY <1>1, RestKept DEF CertificateSeen
    <2>2. X!P!Rank(X!P!Certificate(w, instant)) >= X!P!Rank(X!P!Certificate(o, instant))
        BY <1>1, CertificateOrdered
    <2> QED  BY <2>1, <2>2, EvaluateIs, DatedKeeps
<1>2. ASSUME NEW w, w = X!P!With(o, "issued", None)
      PROVE  X!P!Evaluate(w, e, instant).health # "healthy"
    <2>1. w.data = o.data /\ w.at = o.at /\ w.active = o.active /\ w.issued = None
        BY <1>2, FieldChanged DEF CertificateSeen
    <2>2. X!P!Certificate(w, instant).health # "healthy"
        BY <2>1, OnlyHealthyIs DEF X!P!Certificate, X!P!ConstantsAssumption
    <2> QED  BY <2>1, <2>2, EvaluateIs, DatedKeeps
<1>3. ASSUME NEW w, w = X!P!With(o, "expires", X!P!Never)
      PROVE  X!P!Evaluate(w, e, instant).health # "healthy"
    <2>1. w.data = o.data /\ w.at = o.at /\ w.active = o.active /\ w.expires = X!P!Never
        BY <1>3, FieldChanged DEF CertificateSeen
    <2>2. X!P!Certificate(w, instant).health # "healthy"
        BY <2>1, OnlyHealthyIs DEF X!P!Certificate, X!P!ConstantsAssumption
    <2> QED  BY <2>1, <2>2, EvaluateIs, DatedKeeps
<1> QED
    BY <1>1, <1>2, <1>3, Lesser, Greater, Decisive DEF X!P!VerdictsFollowEvidence, CertificateSeen, Observes

LEMMA RecoveryDecides ==
    ASSUME X!P!ConstantsAssumption, NEW o, o.data = "recovery", NEW instant \in Nat, RecoverySeen(o),
           NEW e
    PROVE  X!P!VerdictsFollowEvidence(o, e, instant)
<1>1. ASSUME o.last_success # None, NEW v \in 0..(o.last_success - 1), NEW w, w = X!P!With(o, "last_success", v)
      PROVE  X!P!Rank(X!P!Evaluate(w, e, instant)) >= X!P!Rank(X!P!Evaluate(o, e, instant))
    <2>1. w.data = o.data /\ w.at = o.at
        BY <1>1, RestKept DEF RecoverySeen
    <2>2. X!P!Rank(X!P!Recovery(w, instant)) >= X!P!Rank(X!P!Recovery(o, instant))
        BY <1>1, RecoveryOrdered
    <2> QED  BY <2>1, <2>2, EvaluateIs, DatedKeeps
<1>2. ASSUME NEW w, w = X!P!With(o, "last_success", X!P!Never)
      PROVE  X!P!Evaluate(w, e, instant).health # "healthy"
    <2>1. w.data = o.data /\ w.at = o.at /\ w.active = o.active /\ w.last_success = X!P!Never
        BY <1>2, FieldChanged DEF RecoverySeen
    <2>2. X!P!Recovery(w, instant).health # "healthy"
        BY <2>1, OnlyHealthyIs DEF X!P!Recovery, X!P!ConstantsAssumption
    <2> QED  BY <2>1, <2>2, EvaluateIs, DatedKeeps
<1> QED
    BY <1>1, <1>2, Lesser, Greater, Decisive DEF X!P!VerdictsFollowEvidence, RecoverySeen, Observes

LEMMA LogDecides ==
    ASSUME X!P!ConstantsAssumption, NEW o, o.data = "log", NEW instant \in Nat, LogSeen(o),
           NEW e
    PROVE  X!P!VerdictsFollowEvidence(o, e, instant)
<1>1. ASSUME o.count # None, NEW v \in 0..(o.count - 1), NEW w, w = X!P!With(o, "count", v)
      PROVE  X!P!Rank(X!P!Evaluate(w, e, instant)) <= X!P!Rank(X!P!Evaluate(o, e, instant))
    <2>1. w.data = o.data /\ w.at = o.at
        BY <1>1, RestKept DEF LogSeen
    <2>2. X!P!Rank(X!P!Log(w)) <= X!P!Rank(X!P!Log(o))
        BY <1>1, LogOrdered
    <2> QED  BY <2>1, <2>2, EvaluateIs, DatedKeeps
<1> QED
    BY <1>1, Lesser, Greater, Decisive DEF X!P!VerdictsFollowEvidence, LogSeen, Observes

LEMMA ConditionDecides ==
    ASSUME X!P!ConstantsAssumption, NEW o, o.data = "condition", NEW instant \in Nat, ConditionSeen(o),
           NEW e
    PROVE  X!P!VerdictsFollowEvidence(o, e, instant)
<1>1. ASSUME NEW w, w = X!P!With(o, "healthy", None)
      PROVE  X!P!Evaluate(w, e, instant).health # "healthy"
    <2>1. w.data = o.data /\ w.at = o.at /\ w.active = o.active /\ w.healthy = None
        BY <1>1, FieldChanged DEF ConditionSeen
    <2>2. X!P!Condition(w).health # "healthy"
        BY <2>1, OnlyHealthyIs DEF X!P!Condition, X!P!ConstantsAssumption
    <2> QED  BY <2>1, <2>2, EvaluateIs, DatedKeeps
<1> QED
    BY <1>1, Lesser, Greater, Decisive DEF X!P!VerdictsFollowEvidence, ConditionSeen, Observes

LEMMA SynchronizationDecides ==
    ASSUME X!P!ConstantsAssumption, NEW o, o.data = "synchronization", NEW instant \in Nat, SynchronizationSeen(o, instant),
           NEW e
    PROVE  X!P!VerdictsFollowEvidence(o, e, instant)
<1>1. ASSUME o.last_sync # None, NEW v \in 0..(o.last_sync - 1), NEW w, w = X!P!With(o, "last_sync", v)
      PROVE  X!P!Rank(X!P!Evaluate(w, e, instant)) >= X!P!Rank(X!P!Evaluate(o, e, instant))
    <2>1. w.data = o.data /\ w.at = o.at
        BY <1>1, RestKept DEF SynchronizationSeen
    <2>2. X!P!Rank(X!P!Synchronization(w, instant)) >= X!P!Rank(X!P!Synchronization(o, instant))
        BY <1>1, SynchronizationOrdered
    <2> QED  BY <2>1, <2>2, EvaluateIs, DatedKeeps
<1>2. ASSUME NEW w, w = X!P!With(o, "ready", None)
      PROVE  X!P!Evaluate(w, e, instant).health # "healthy"
    <2>1. w.data = o.data /\ w.at = o.at /\ w.active = o.active /\ w.ready = None
        BY <1>2, FieldChanged DEF SynchronizationSeen
    <2>2. X!P!Synchronization(w, instant).health # "healthy"
        BY <2>1, OnlyHealthyIs DEF X!P!Synchronization, X!P!ConstantsAssumption
    <2> QED  BY <2>1, <2>2, EvaluateIs, DatedKeeps
<1> QED
    BY <1>1, <1>2, Lesser, Greater, Decisive DEF X!P!VerdictsFollowEvidence, SynchronizationSeen, Observes

LEMMA SloDecides ==
    ASSUME X!P!ConstantsAssumption, NEW o, o.data = "slo", NEW instant \in Nat, SloSeen(o),
           NEW e
    PROVE  X!P!VerdictsFollowEvidence(o, e, instant)
<1>1. ASSUME o.compliance # None, NEW v \in 0..(o.compliance - 1), NEW w, w = X!P!With(o, "compliance", v)
      PROVE  X!P!Rank(X!P!Evaluate(w, e, instant)) >= X!P!Rank(X!P!Evaluate(o, e, instant))
    <2>1. w.data = o.data /\ w.at = o.at
        BY <1>1, RestKept DEF SloSeen
    <2>2. X!P!Rank(X!P!Slo(w)) >= X!P!Rank(X!P!Slo(o))
        BY <1>1, SloOrdered DEF SloSeen, Optional
    <2> QED  BY <2>1, <2>2, EvaluateIs, DatedKeeps
<1>2. ASSUME o.burn_rate # None, NEW v \in 0..(o.burn_rate - 1), NEW w, w = X!P!With(o, "burn_rate", v)
      PROVE  X!P!Rank(X!P!Evaluate(w, e, instant)) <= X!P!Rank(X!P!Evaluate(o, e, instant))
    <2>1. w.data = o.data /\ w.at = o.at
        BY <1>2, RestKept DEF SloSeen
    <2>2. X!P!Rank(X!P!Slo(w)) <= X!P!Rank(X!P!Slo(o))
        BY <1>2, SloOrdered DEF SloSeen, Optional
    <2> QED  BY <2>1, <2>2, EvaluateIs, DatedKeeps
<1>3. ASSUME NEW w, w = X!P!With(o, "compliance", None)
      PROVE  X!P!Evaluate(w, e, instant).health # "healthy"
    <2>1. w.data = o.data /\ w.at = o.at /\ w.active = o.active /\ w.compliance = None
        BY <1>3, FieldChanged DEF SloSeen
    <2>2. X!P!Slo(w).health # "healthy"
        BY <2>1, OnlyHealthyIs DEF X!P!Slo, X!P!ConstantsAssumption
    <2> QED  BY <2>1, <2>2, EvaluateIs, DatedKeeps
<1> QED
    BY <1>1, <1>2, <1>3, Lesser, Greater, Decisive DEF X!P!VerdictsFollowEvidence, SloSeen, Observes

LEMMA EndpointDecides ==
    ASSUME X!P!ConstantsAssumption, NEW o, o.data = "endpoint", NEW instant \in Nat, EndpointSeen(o),
           NEW e
    PROVE  X!P!VerdictsFollowEvidence(o, e, instant)
<1>1. ASSUME o.latency # None, NEW v \in 0..(o.latency - 1), NEW w, w = X!P!With(o, "latency", v)
      PROVE  X!P!Rank(X!P!Evaluate(w, e, instant)) <= X!P!Rank(X!P!Evaluate(o, e, instant))
    <2>1. w.data = o.data /\ w.at = o.at
        BY <1>1, RestKept DEF EndpointSeen
    <2>2. X!P!Rank(X!P!Endpoint(w, instant)) <= X!P!Rank(X!P!Endpoint(o, instant))
        BY <1>1, EndpointOrdered
    <2> QED  BY <2>1, <2>2, EvaluateIs, DatedKeeps
<1>2. ASSUME NEW w, w = X!P!With(o, "accepted", None)
      PROVE  X!P!Evaluate(w, e, instant).health # "healthy"
    <2>1. w.data = o.data /\ w.at = o.at /\ w.active = o.active /\ w.accepted = None
        BY <1>2, FieldChanged DEF EndpointSeen
    <2>2. X!P!Endpoint(w, instant).health # "healthy"
        BY <2>1, OnlyHealthyIs DEF X!P!Endpoint, X!P!ConstantsAssumption
    <2> QED  BY <2>1, <2>2, EvaluateIs, DatedKeeps
<1> QED
    BY <1>1, <1>2, Lesser, Greater, Decisive DEF X!P!VerdictsFollowEvidence, EndpointSeen, Observes

LEMMA ServiceDecides ==
    ASSUME X!P!ConstantsAssumption, NEW o, o.data = "service", NEW instant \in Nat, ServiceSeen(o),
           NEW e
    PROVE  X!P!VerdictsFollowEvidence(o, e, instant)
<1>1. ASSUME NEW w, w = X!P!With(o, "state", "unknown")
      PROVE  X!P!Evaluate(w, e, instant).health # "healthy"
    <2>1. w.data = o.data /\ w.at = o.at /\ w.active = o.active /\ w.state = "unknown"
        BY <1>1, FieldChanged DEF ServiceSeen
    <2>2. X!P!Service(w).health # "healthy"
        BY <2>1, OnlyHealthyIs DEF X!P!Service, X!P!ConstantsAssumption
    <2> QED  BY <2>1, <2>2, EvaluateIs, DatedKeeps
<1> QED
    BY <1>1, Lesser, Greater, Decisive DEF X!P!VerdictsFollowEvidence, ServiceSeen, Observes

LEMMA MetricDecides ==
    ASSUME X!P!ConstantsAssumption, NEW o, o.data = "metric", NEW instant \in Nat, MetricSeen(o),
           NEW e
    PROVE  X!P!VerdictsFollowEvidence(o, e, instant)
<1>1. ASSUME o.value # None, NEW v \in 0..(o.value - 1), NEW w, w = X!P!With(o, "value", v)
      PROVE  X!P!Rank(X!P!Evaluate(w, e, instant)) <= X!P!Rank(X!P!Evaluate(o, e, instant))
    <2>1. w.data = o.data /\ w.at = o.at
        BY <1>1, RestKept DEF MetricSeen
    <2>2. X!P!Rank(X!P!Metric(w)) <= X!P!Rank(X!P!Metric(o))
        BY <1>1, MetricOrdered
    <2> QED  BY <2>1, <2>2, EvaluateIs, DatedKeeps
<1>2. ASSUME NEW w, w = X!P!With(o, "value", None)
      PROVE  X!P!Evaluate(w, e, instant).health # "healthy"
    <2>1. w.data = o.data /\ w.at = o.at /\ w.active = o.active /\ w.value = None
        BY <1>2, FieldChanged DEF MetricSeen
    <2>2. X!P!Metric(w).health # "healthy"
        BY <2>1, OnlyHealthyIs DEF X!P!Metric, X!P!ConstantsAssumption
    <2> QED  BY <2>1, <2>2, EvaluateIs, DatedKeeps
<1> QED
    BY <1>1, <1>2, Lesser, Greater, Decisive DEF X!P!VerdictsFollowEvidence, MetricSeen, Observes

LEMMA QueueDecides ==
    ASSUME X!P!ConstantsAssumption, NEW o, o.data = "queue", NEW instant \in Nat, QueueSeen(o),
           NEW e
    PROVE  X!P!VerdictsFollowEvidence(o, e, instant)
<1>1. ASSUME o.backlog # None, NEW v \in 0..(o.backlog - 1), NEW w, w = X!P!With(o, "backlog", v)
      PROVE  X!P!Rank(X!P!Evaluate(w, e, instant)) <= X!P!Rank(X!P!Evaluate(o, e, instant))
    <2>1. w.data = o.data /\ w.at = o.at /\ (X!P!Usable(e, w) <=> X!P!Usable(e, o))
        BY <1>1, RestKept DEF QueueSeen
    <2>2. Prior(e, w) = Prior(e, o)
        BY <2>1 DEF Prior
    <2>3. X!P!Rank(X!P!Queue(w, Prior(e, o))) <= X!P!Rank(X!P!Queue(o, Prior(e, o)))
        BY <1>1, QueueOrdered DEF QueueSeen, Optional
    <2> QED  BY <2>1, <2>2, <2>3, EvaluateIs, DatedKeeps
<1>2. ASSUME o.age # None, NEW v \in 0..(o.age - 1), NEW w, w = X!P!With(o, "age", v)
      PROVE  X!P!Rank(X!P!Evaluate(w, e, instant)) <= X!P!Rank(X!P!Evaluate(o, e, instant))
    <2>1. w.data = o.data /\ w.at = o.at /\ (X!P!Usable(e, w) <=> X!P!Usable(e, o))
        BY <1>2, RestKept DEF QueueSeen
    <2>2. Prior(e, w) = Prior(e, o)
        BY <2>1 DEF Prior
    <2>3. X!P!Rank(X!P!Queue(w, Prior(e, o))) <= X!P!Rank(X!P!Queue(o, Prior(e, o)))
        BY <1>2, QueueOrdered DEF QueueSeen, Optional
    <2> QED  BY <2>1, <2>2, <2>3, EvaluateIs, DatedKeeps
<1>3. ASSUME NEW w, w = X!P!With(o, "backlog", None)
      PROVE  X!P!Evaluate(w, e, instant).health # "healthy"
    <2>1. w.data = o.data /\ w.at = o.at /\ w.active = o.active /\ w.backlog = None /\ (X!P!Usable(e, w) <=> X!P!Usable(e, o))
        BY <1>3, FieldChanged DEF QueueSeen
    <2>2. Prior(e, w) = Prior(e, o)
        BY <2>1 DEF Prior
    <2>3. X!P!Queue(w, Prior(e, o)).health # "healthy"
        BY <2>1, OnlyHealthyIs DEF X!P!Queue, X!P!ConstantsAssumption
    <2> QED  BY <2>1, <2>2, <2>3, EvaluateIs, DatedKeeps
<1> QED
    BY <1>1, <1>2, <1>3, Lesser, Greater, Decisive DEF X!P!VerdictsFollowEvidence, QueueSeen, Observes

LEMMA ScheduleDecides ==
    ASSUME X!P!ConstantsAssumption, NEW o, o.data = "schedule", NEW instant \in Nat, ScheduleSeen(o),
           NEW e
    PROVE  X!P!VerdictsFollowEvidence(o, e, instant)
<1>1. ASSUME o.last_success # None, NEW v \in 0..(o.last_success - 1), NEW w, w = X!P!With(o, "last_success", v)
      PROVE  X!P!Rank(X!P!Evaluate(w, e, instant)) >= X!P!Rank(X!P!Evaluate(o, e, instant))
    <2>1. w.data = o.data /\ w.at = o.at
        BY <1>1, RestKept DEF ScheduleSeen
    <2>2. X!P!Rank(X!P!Schedule(w, instant)) >= X!P!Rank(X!P!Schedule(o, instant))
        BY <1>1, ScheduleOrdered DEF ScheduleSeen, Moment, X!P!Never
    <2> QED  BY <2>1, <2>2, EvaluateIs, DatedKeeps
<1>2. ASSUME NEW w, w = X!P!With(o, "last_success", X!P!Never)
      PROVE  X!P!Evaluate(w, e, instant).health # "healthy"
    <2>1. w.data = o.data /\ w.at = o.at /\ w.active = o.active /\ w.last_success = X!P!Never
        BY <1>2, FieldChanged DEF ScheduleSeen
    <2>2. X!P!Schedule(w, instant).health # "healthy"
        BY <1>2, ScheduleOrdered DEF Moment
    <2> QED  BY <2>1, <2>2, EvaluateIs, DatedKeeps
<1> QED
    BY <1>1, <1>2, Lesser, Greater, Decisive DEF X!P!VerdictsFollowEvidence, ScheduleSeen, Observes

\* What a collection hands to the policies: of the kinds that are measured, the fields they
\* have, and a synchronization that is not in the future.
Sighting(o, instant) ==
    /\ o.data = "workload" => WorkloadSeen(o)
    /\ o.data = "pod" => PodSeen(o)
    /\ o.data = "certificate" => CertificateSeen(o)
    /\ o.data = "recovery" => RecoverySeen(o)
    /\ o.data = "log" => LogSeen(o)
    /\ o.data = "condition" => ConditionSeen(o)
    /\ o.data = "synchronization" => SynchronizationSeen(o, instant)
    /\ o.data = "slo" => SloSeen(o)
    /\ o.data = "endpoint" => EndpointSeen(o)
    /\ o.data = "service" => ServiceSeen(o)
    /\ o.data = "metric" => MetricSeen(o)
    /\ o.data = "queue" => QueueSeen(o)
    /\ o.data = "schedule" => ScheduleSeen(o)

\* For any settings and any prior observation, a worse measurement never makes a better
\* verdict, and without the measurement a policy decides by nothing is healthy (policy.rs,
\* evaluate, and the policies it calls).
THEOREM VerdictsAreOrdered ==
    ASSUME X!P!ConstantsAssumption, NEW instant \in Nat, NEW o, Sighting(o, instant),
           NEW e, o.data = "pod" => e = None \/ e.restarts \in Nat
    PROVE  X!P!VerdictsFollowEvidence(o, e, instant)
<1> USE DEF Sighting
<1>1. CASE o.data = "workload"  BY <1>1, WorkloadDecides
<1>2. CASE o.data = "pod"  BY <1>2, PodDecides
<1>3. CASE o.data = "certificate"  BY <1>3, CertificateDecides
<1>4. CASE o.data = "recovery"  BY <1>4, RecoveryDecides
<1>5. CASE o.data = "log"  BY <1>5, LogDecides
<1>6. CASE o.data = "condition"  BY <1>6, ConditionDecides
<1>7. CASE o.data = "synchronization"  BY <1>7, SynchronizationDecides
<1>8. CASE o.data = "slo"  BY <1>8, SloDecides
<1>9. CASE o.data = "endpoint"  BY <1>9, EndpointDecides
<1>10. CASE o.data = "service"  BY <1>10, ServiceDecides
<1>11. CASE o.data = "metric"  BY <1>11, MetricDecides
<1>12. CASE o.data = "queue"  BY <1>12, QueueDecides
<1>13. CASE o.data = "schedule"  BY <1>13, ScheduleDecides
<1>14. CASE o.data \notin {"workload", "pod", "certificate", "recovery", "log", "condition",
                           "synchronization", "slo", "endpoint", "service", "metric", "queue",
                           "schedule"}
    BY <1>14, Lesser, Greater, Decisive DEF X!P!VerdictsFollowEvidence
<1> QED
    BY <1>1, <1>2, <1>3, <1>4, <1>5, <1>6, <1>7, <1>8, <1>9, <1>10, <1>11, <1>12, <1>13, <1>14

\* A job that is not trusted is no part of what a schedule takes from its jobs.
LEMMA OwnersDecide ==
    ASSUME NEW o, NEW owners, NEW jobs, NEW instant
    PROVE  X!P!NothingInherited(o, owners, jobs, instant)
<1> DEFINE uids == {q.uid : q \in {q \in owners : q.resource = o.resource /\ q.complete}}
           Done(found) == {j \in found : /\ j.complete /\ j.succeeded /\ j.completed # X!P!Never
                                 /\ \E q \in owners : /\ q.resource = j.resource /\ q.complete
                                                      /\ q.owner \in uids}
<1>1. \A found : X!P!Correlated(o, owners, found) =
                [o EXCEPT !.last_success = X!P!Latest({@} \cup {j.completed : j \in Done(found)}),
                          !.last_schedule = X!P!Latest({@} \cup {j.scheduled : j \in Done(found)})]
    BY DEF X!P!Correlated
<1>2. ASSUME NEW j \in jobs, Done(jobs \ {j}) # Done(jobs)
      PROVE  /\ j.resource \in {q.resource : q \in {q \in owners : q.owner \in uids /\ q.complete}}
             /\ j.complete
    BY <1>2
<1> QED  BY <1>1, <1>2 DEF X!P!NothingInherited

\* What is said of a resource by its points, as the fold over them has it so far.
Merging(old, p) ==
    [IF p.last_attempt > old.last_attempt THEN p ELSE old
        EXCEPT !.last_success = X!P!Latest({old.last_success, p.last_success})]
Joining(out, p) ==
    IF \E i \in DOMAIN out : out[i].resource = p.resource
    THEN [i \in DOMAIN out |->
            IF out[i].resource = p.resource THEN Merging(out[i], p) ELSE out[i]]
    ELSE Append(out, p)

\* What is cleared of the findings, as the fold over them has it so far.
Clearable(c, f) ==
    /\ f.resource \notin c.seen
    /\ \E w \in c.windows : /\ w.operation = f.operation /\ w.complete
                           /\ w.gap = 0 /\ w.end > f.observed_at
Clearing(c, out, f) ==
    IF Clearable(c, f) /\ Len(out) < c.room THEN Append(out, f) ELSE out

\* One step of either fold, and the fold c as a function of the indices it has gone over.
Adding(c, out, x) == IF c.of = "points" THEN Joining(out, x) ELSE Clearing(c, out, x)

Folding(c, g, items, n) ==
    g = [s \in SUBSET (1..n) |->
            IF s = {} THEN <<>> ELSE Adding(c, g[s \ {X!P!Max(s)}], items[X!P!Max(s)])]

LEMMA HighestIs ==
    ASSUME NEW n \in Nat, NEW s \in SUBSET (1..n), NEW h \in s, \A m \in s : m <= h
    PROVE  X!P!Max(s) = h
<1>1. X!P!Max(s) \in s /\ \A m \in s : X!P!Max(s) >= m
    BY DEF X!P!Max
<1>2. s \subseteq Nat
    OBVIOUS
<1>3. PICK x \in s : x = X!P!Max(s) /\ \A m \in s : x >= m
    BY <1>1
<1> QED  BY <1>2, <1>3

LEMMA HighestIn ==
    ASSUME NEW n \in Nat, NEW s \in SUBSET (1..n), s # {}
    PROVE  X!P!Max(s) \in s
<1>1. PICK h \in s : \A m \in s : m <= h
    <2>1. s \subseteq Nat /\ \A m \in s : m <= n
        OBVIOUS
    <2> QED  BY <2>1, LatestIs
<1> QED  BY <1>1, HighestIs

\* The fold is defined for any number of items.
LEMMA FoldExists ==
    ASSUME NEW c, NEW items, NEW n \in Nat
    PROVE  \E g : Folding(c, g, items, n)
<1> DEFINE T == {m \in Nat : ~\E g : Folding(c, g, items, m)}
<1>1. SUFFICES ASSUME T # {}  PROVE FALSE
    OBVIOUS
<1>2. PICK m \in T : \A k \in T : m <= k
    <2>1. T \subseteq Nat
        OBVIOUS
    <2> HIDE DEF T
    <2> QED  BY <1>1, <2>1, LeastIs
<1>3. CASE m = 0
    <2> DEFINE g == [s \in SUBSET (1..0) |-> <<>>]
    <2>1. \A s \in SUBSET (1..0) : s = {}
        OBVIOUS
    <2>2. Folding(c, g, items, 0)
        BY <2>1 DEF Folding
    <2> QED  BY <1>2, <1>3, <2>2
<1>4. CASE m # 0
    <2> DEFINE b == m - 1
    <2>1. b \in Nat /\ b < m /\ m \in Nat /\ m \in 1..m
        BY <1>2, <1>4
    <2>2. PICK g : Folding(c, g, items, b)
        BY <1>2, <2>1
    <2> DEFINE h == [s \in SUBSET (1..m) |->
                        IF m \in s THEN Adding(c, g[s \ {m}], items[m]) ELSE g[s]]
    <2>3. ASSUME NEW s \in SUBSET (1..m)
          PROVE  h[s] = IF s = {} THEN <<>>
                        ELSE Adding(c, h[s \ {X!P!Max(s)}], items[X!P!Max(s)])
        <3>1. CASE m \in s
            <4>1. X!P!Max(s) = m
                <5>1. m \in Nat /\ \A k \in s : k <= m
                    BY <2>1
                <5> QED  BY <3>1, <5>1, HighestIs
            <4>2. s \ {m} \in SUBSET (1..m) /\ m \notin s \ {m}
                OBVIOUS
            <4>3. h[s \ {m}] = g[s \ {m}]
                BY <4>2
            <4> QED  BY <3>1, <4>1, <4>3
        <3>2. CASE m \notin s
            <4>1. s \in SUBSET (1..b)
                BY <2>1, <3>2
            <4>2. g[s] = IF s = {} THEN <<>>
                         ELSE Adding(c, g[s \ {X!P!Max(s)}], items[X!P!Max(s)])
                BY <2>2, <4>1 DEF Folding
            <4>3. s \ {X!P!Max(s)} \in SUBSET (1..m) /\ m \notin s \ {X!P!Max(s)}
                BY <3>2
            <4>4. h[s \ {X!P!Max(s)}] = g[s \ {X!P!Max(s)}]
                BY <4>3
            <4> QED  BY <3>2, <4>2, <4>4
        <3> QED  BY <3>1, <3>2
    <2>4. Folding(c, h, items, m)
        <3>1. h = [s \in SUBSET (1..m) |-> h[s]]
            OBVIOUS
        <3> HIDE DEF h
        <3> QED  BY <2>3, <3>1 DEF Folding
    <2> HIDE DEF h
    <2> QED  BY <1>2, <2>4
<1> QED  BY <1>3, <1>4

\* One item after the other.
LEMMA FoldIsInOrder ==
    ASSUME NEW c, NEW T, NEW items \in Seq(T), NEW g, Folding(c, g, items, Len(items))
    PROVE  /\ g[1..0] = <<>>
           /\ \A k \in 1..Len(items) : g[1..k] = Adding(c, g[1..(k - 1)], items[k])
<1> DEFINE n == Len(items)
<1>1. n \in Nat /\ DOMAIN items = 1..n
    OBVIOUS
<1>2. Folding(c, g, items, n)
    OBVIOUS
<1>4. g[1..0] = <<>>
    <2>1. 1..0 = {} /\ {} \in SUBSET (1..n)
        OBVIOUS
    <2> HIDE DEF n
    <2>2. g[{}] = <<>>
        BY <1>2, <2>1 DEF Folding
    <2> QED  BY <2>1, <2>2
<1>5. ASSUME NEW k \in 1..n  PROVE g[1..k] = Adding(c, g[1..(k - 1)], items[k])
    <2> DEFINE s == 1..k
    <2>1. s \in SUBSET (1..n) /\ s # {} /\ k \in s /\ \A m \in s : m <= k
        <3>1. k \in Nat /\ 1 <= k /\ k <= n
            BY <1>1
        <3> HIDE DEF n
        <3>2. \A m \in s : m \in 1..n /\ m <= k
            BY <1>1, <3>1
        <3>3. k \in s
            BY <3>1
        <3> QED  BY <3>2, <3>3
    <2>2. X!P!Max(s) = k
        <3> HIDE DEF s, n
        <3> QED  BY <1>1, <2>1, HighestIs
    <2>3. s \ {k} = 1..(k - 1)
        BY <1>1
    <2>4. g[s] = Adding(c, g[s \ {X!P!Max(s)}], items[X!P!Max(s)])
        <3> HIDE DEF s, n
        <3> QED  BY <1>2, <2>1 DEF Folding
    <2> QED  BY <2>2, <2>3, <2>4
<1> QED  BY <1>4, <1>5

LEMMA PointsFold ==
    ASSUME NEW T, NEW points \in Seq(T), NEW c, c.of = "points"
    PROVE  \E g : /\ Folding(c, g, points, Len(points))
                  /\ X!P!Consolidated(points) = g[1..Len(points)]
<1> DEFINE n == Len(points)
           Body(g) == [s \in SUBSET (1..n) |->
                        IF s = {} THEN <<>>
                        ELSE Joining(g[s \ {X!P!Max(s)}], points[X!P!Max(s)])]
           whole == CHOOSE g : g = Body(g)
<1>1. n \in Nat /\ DOMAIN points = 1..n
    OBVIOUS
<1>2. X!P!Consolidated(points) = whole[1..n]
    BY <1>1 DEF X!P!Consolidated, X!P!FoldLeft, X!P!MapThenFoldSet, Joining, Merging
<1>3. \A g : Folding(c, g, points, n) <=> g = Body(g)
    BY DEF Folding, Adding
<1>4. \E g : g = Body(g)
    <2> HIDE DEF Body, n
    <2> QED  BY <1>1, <1>3, FoldExists
<1>5. whole = Body(whole)
    <2> HIDE DEF Body
    <2> QED  BY <1>4
<1> HIDE DEF whole, Body
<1> QED  BY <1>2, <1>3, <1>5

LEMMA ClearsFold ==
    ASSUME NEW T, NEW alerts \in Seq(T), NEW c, c.of # "points",
           NEW seen, NEW windows, NEW room,
           c.seen = seen, c.windows = windows, c.room = room
    PROVE  \E g : /\ Folding(c, g, alerts, Len(alerts))
                  /\ X!P!Reconciled(alerts, seen, windows, room) = g[1..Len(alerts)]
<1> DEFINE n == Len(alerts)
           Body(g) == [s \in SUBSET (1..n) |->
                        IF s = {} THEN <<>>
                        ELSE LET out == g[s \ {X!P!Max(s)}]
                                 f == alerts[X!P!Max(s)]
                             IN  IF /\ f.resource \notin seen
                                    /\ \E w \in windows :
                                        /\ w.operation = f.operation /\ w.complete
                                        /\ w.gap = 0 /\ w.end > f.observed_at
                                    /\ Len(out) < room
                                 THEN Append(out, f) ELSE out]
           whole == CHOOSE g : g = Body(g)
<1>1. n \in Nat /\ DOMAIN alerts = 1..n
    OBVIOUS
<1>2. X!P!Reconciled(alerts, seen, windows, room) = whole[1..n]
    BY <1>1 DEF X!P!Reconciled, X!P!FoldLeft, X!P!MapThenFoldSet
<1>3. \A g : Folding(c, g, alerts, n) <=> g = Body(g)
    BY DEF Folding, Adding, Clearing, Clearable
<1>4. \E g : g = Body(g)
    <2> HIDE DEF Body, n
    <2> QED  BY <1>1, <1>3, FoldExists
<1>5. whole = Body(whole)
    <2> HIDE DEF Body
    <2> QED  BY <1>4
<1> HIDE DEF whole, Body
<1> QED  BY <1>2, <1>3, <1>5

\* A recovery point, whatever its resources and states are.
Point(resources, states) ==
    [resource : resources, last_attempt : Moment, last_success : Moment, state : states]

LEMMA LatestOfTwo ==
    ASSUME NEW a \in Moment, NEW b \in Moment
    PROVE  X!P!Latest({a, b}) = IF a > b THEN a ELSE b
<1>1. PICK t \in {a, b} : t = (IF a > b THEN a ELSE b)
    OBVIOUS
<1>2. Moment \subseteq Int
    BY DEF Moment, X!P!Never
<1>3. \A u \in {a, b} : u <= t
    BY <1>1, <1>2
<1>4. PICK x \in {a, b} : x = X!P!Latest({a, b}) /\ \A u \in {a, b} : u <= x
    BY <1>3 DEF X!P!Latest
<1> QED  BY <1>1, <1>2, <1>3, <1>4

LEMMA LatestIn ==
    ASSUME NEW found, found \subseteq Moment, NEW t \in found, \A u \in found : u <= t
    PROVE  X!P!Latest(found) = t
<1>1. PICK x \in found : x = X!P!Latest(found) /\ \A u \in found : u <= x
    BY DEF X!P!Latest
<1>2. Moment \subseteq Int
    BY DEF Moment, X!P!Never
<1> QED  BY <1>1, <1>2

LEMMA MergingIs ==
    ASSUME NEW Rs, NEW Ss, NEW old \in Point(Rs, Ss), NEW p \in Point(Rs, Ss),
           old.resource = p.resource
    PROVE  /\ Merging(old, p) \in Point(Rs, Ss)
           /\ Merging(old, p).resource = p.resource
           /\ Merging(old, p).last_success >= old.last_success
           /\ Merging(old, p).last_success >= p.last_success
           /\ Merging(old, p).last_success \in {old.last_success, p.last_success}
           /\ Merging(old, p).last_attempt >= old.last_attempt
           /\ Merging(old, p).last_attempt >= p.last_attempt
           /\ \E q \in {old, p} : /\ Merging(old, p).last_attempt = q.last_attempt
                                  /\ Merging(old, p).state = q.state
<1> DEFINE newer == IF p.last_attempt > old.last_attempt THEN p ELSE old
           success == X!P!Latest({old.last_success, p.last_success})
<1>1. /\ old.last_attempt \in Moment /\ p.last_attempt \in Moment
      /\ old.last_success \in Moment /\ p.last_success \in Moment
    BY DEF Point
<1>2. Moment \subseteq Int
    BY DEF Moment, X!P!Never
<1>3. success = IF old.last_success > p.last_success THEN old.last_success ELSE p.last_success
    BY <1>1, LatestOfTwo
<1>4. newer \in Point(Rs, Ss) /\ newer \in {old, p} /\ newer.resource = p.resource
    OBVIOUS
<1>5. /\ newer.last_attempt >= old.last_attempt
      /\ newer.last_attempt >= p.last_attempt
    <2>1. p.last_attempt \in Int /\ old.last_attempt \in Int
        BY <1>1, <1>2
    <2>2. CASE p.last_attempt > old.last_attempt
        <3>1. newer = p
            BY <2>2
        <3> QED  BY <2>1, <2>2, <3>1
    <2>3. CASE ~(p.last_attempt > old.last_attempt)
        <3>1. newer = old
            BY <2>3
        <3> QED  BY <2>1, <2>3, <3>1
    <2> QED  BY <2>2, <2>3
<1>6. success \in Moment
    BY <1>1, <1>3
<1>7. Merging(old, p) = [newer EXCEPT !.last_success = success]
    BY DEF Merging
<1> HIDE DEF newer, success
<1>8. /\ Merging(old, p) \in Point(Rs, Ss)
      /\ Merging(old, p).resource = newer.resource
      /\ Merging(old, p).last_success = success
      /\ Merging(old, p).last_attempt = newer.last_attempt
      /\ Merging(old, p).state = newer.state
    BY <1>4, <1>6, <1>7 DEF Point
<1>9. old.last_success \in Int /\ p.last_success \in Int
    BY <1>1, <1>2
<1>10. /\ success >= old.last_success /\ success >= p.last_success
       /\ success \in {old.last_success, p.last_success}
    BY <1>3, <1>9
<1> QED  BY <1>4, <1>5, <1>8, <1>10

\* What the first k points say, consolidated: each resource once, with its newest success
\* and its newest attempt.
ShownSoFar(out, points, k) ==
    /\ \A i, j \in DOMAIN out : out[i].resource = out[j].resource => i = j
    /\ \A j \in 1..k : \E i \in DOMAIN out : out[i].resource = points[j].resource
    /\ \A i \in DOMAIN out :
        /\ \A j \in 1..k : points[j].resource = out[i].resource =>
                /\ points[j].last_success <= out[i].last_success
                /\ points[j].last_attempt <= out[i].last_attempt
        /\ \E j \in 1..k : /\ points[j].resource = out[i].resource
                           /\ points[j].last_success = out[i].last_success
        /\ \E j \in 1..k : /\ points[j].resource = out[i].resource
                           /\ points[j].last_attempt = out[i].last_attempt
                           /\ points[j].state = out[i].state

LEMMA JoiningKeeps ==
    ASSUME NEW Rs, NEW Ss, NEW points \in Seq(Point(Rs, Ss)), NEW k \in 1..Len(points),
           NEW out \in Seq(Point(Rs, Ss)), ShownSoFar(out, points, k - 1)
    PROVE  /\ Joining(out, points[k]) \in Seq(Point(Rs, Ss))
           /\ ShownSoFar(Joining(out, points[k]), points, k)
<1> DEFINE p == points[k]
           new == Joining(out, p)
<1>1. /\ p \in Point(Rs, Ss) /\ k \in Nat /\ k >= 1
      /\ \A j \in 1..k : j \in 1..(k - 1) \/ j = k
      /\ \A j \in 1..(k - 1) : j \in 1..k
      /\ k \in 1..k
    OBVIOUS
<1>2. Moment \subseteq Int
    BY DEF Moment, X!P!Never
<1>3. /\ \A j \in 1..k : points[j] \in Point(Rs, Ss)
      /\ \A i \in DOMAIN out : out[i] \in Point(Rs, Ss)
    OBVIOUS
<1>4. \A x \in Point(Rs, Ss) : x.last_success \in Int /\ x.last_attempt \in Int
    BY <1>2 DEF Point
<1>5. CASE \E i \in DOMAIN out : out[i].resource = p.resource
    <2>1. new = [i \in DOMAIN out |->
                    IF out[i].resource = p.resource THEN Merging(out[i], p) ELSE out[i]]
        BY <1>5 DEF Joining
    <2>2. DOMAIN new = DOMAIN out
        BY <2>1
    <2>3. ASSUME NEW i \in DOMAIN out
          PROVE  /\ new[i] \in Point(Rs, Ss)
                 /\ new[i].resource = out[i].resource
                 /\ out[i].resource # p.resource => new[i] = out[i]
        BY <1>1, <1>3, <2>1, MergingIs
    <2>4. new \in Seq(Point(Rs, Ss))
        <3>1. PICK l \in Nat : DOMAIN out = 1..l
            OBVIOUS
        <3>2. new \in [1..l -> Point(Rs, Ss)]
            BY <2>1, <2>3, <3>1
        <3> QED  BY <3>2
    <2>5. ASSUME NEW i \in DOMAIN out, out[i].resource = p.resource
          PROVE  /\ new[i].last_success >= out[i].last_success
                 /\ new[i].last_success >= p.last_success
                 /\ new[i].last_success \in {out[i].last_success, p.last_success}
                 /\ new[i].last_attempt >= out[i].last_attempt
                 /\ new[i].last_attempt >= p.last_attempt
                 /\ \E q \in {out[i], p} : /\ new[i].last_attempt = q.last_attempt
                                           /\ new[i].state = q.state
        <3>1. new[i] = Merging(out[i], p)
            BY <2>1, <2>5
        <3> HIDE DEF new, p
        <3> QED  BY <1>1, <1>3, <2>5, <3>1, MergingIs
    <2> HIDE DEF new
    <2>6. \A i, j \in DOMAIN new : new[i].resource = new[j].resource => i = j
        BY <2>2, <2>3 DEF ShownSoFar
    <2>7. \A j \in 1..k : \E i \in DOMAIN new : new[i].resource = points[j].resource
        BY <1>1, <1>5, <2>2, <2>3 DEF ShownSoFar
    <2>8. ASSUME NEW i \in DOMAIN new
          PROVE  /\ \A j \in 1..k : points[j].resource = new[i].resource =>
                        /\ points[j].last_success <= new[i].last_success
                        /\ points[j].last_attempt <= new[i].last_attempt
                 /\ \E j \in 1..k : /\ points[j].resource = new[i].resource
                                    /\ points[j].last_success = new[i].last_success
                 /\ \E j \in 1..k : /\ points[j].resource = new[i].resource
                                    /\ points[j].last_attempt = new[i].last_attempt
                                    /\ points[j].state = new[i].state
        <3> USE <2>8
        <3>1. CASE out[i].resource # p.resource
            <4>1. i \in DOMAIN out /\ new[i] = out[i]
                BY <2>2, <2>3, <3>1
            <4>2. /\ \A j \in 1..(k - 1) : points[j].resource = out[i].resource =>
                        /\ points[j].last_success <= out[i].last_success
                        /\ points[j].last_attempt <= out[i].last_attempt
                  /\ \E j \in 1..(k - 1) : /\ points[j].resource = out[i].resource
                                           /\ points[j].last_success = out[i].last_success
                  /\ \E j \in 1..(k - 1) : /\ points[j].resource = out[i].resource
                                           /\ points[j].last_attempt = out[i].last_attempt
                                           /\ points[j].state = out[i].state
                BY <4>1 DEF ShownSoFar
            <4>3. /\ \A j \in 1..k : points[j].resource = out[i].resource => j \in 1..(k - 1)
                  /\ \A j \in 1..(k - 1) : j \in 1..k
                BY <1>1, <3>1
            <4> HIDE <2>8
            <4> QED  BY <4>1, <4>2, <4>3
        <3>2. CASE out[i].resource = p.resource
            <4>1. ASSUME NEW j \in 1..k, points[j].resource = new[i].resource
                  PROVE  /\ points[j].last_success <= new[i].last_success
                         /\ points[j].last_attempt <= new[i].last_attempt
                <5>1. /\ new[i].last_success \in Int /\ new[i].last_attempt \in Int
                      /\ out[i].last_success \in Int /\ out[i].last_attempt \in Int
                      /\ points[j].last_success \in Int /\ points[j].last_attempt \in Int
                    BY <1>3, <1>4, <2>2, <2>3
                <5>2. CASE j = k
                    BY <2>2, <2>5, <3>2, <5>1, <5>2
                <5>3. CASE j \in 1..(k - 1)
                    <6>1. /\ points[j].last_success <= out[i].last_success
                          /\ points[j].last_attempt <= out[i].last_attempt
                        BY <2>2, <2>3, <4>1, <5>3 DEF ShownSoFar
                    <6>2. /\ new[i].last_success >= out[i].last_success
                          /\ new[i].last_attempt >= out[i].last_attempt
                        BY <2>2, <2>5, <3>2
                    <6> QED  BY <5>1, <6>1, <6>2
                <5> QED  BY <1>1, <5>2, <5>3
            <4>2. \E j \in 1..k : /\ points[j].resource = new[i].resource
                                  /\ points[j].last_success = new[i].last_success
                <5>1. CASE new[i].last_success = p.last_success
                    BY <1>1, <2>2, <2>3, <3>2, <5>1
                <5>2. CASE new[i].last_success = out[i].last_success
                    BY <1>1, <2>2, <2>3, <5>2 DEF ShownSoFar
                <5> QED  BY <2>2, <2>5, <3>2, <5>1, <5>2
            <4>3. \E j \in 1..k : /\ points[j].resource = new[i].resource
                                  /\ points[j].last_attempt = new[i].last_attempt
                                  /\ points[j].state = new[i].state
                <5>1. CASE new[i].last_attempt = p.last_attempt /\ new[i].state = p.state
                    BY <1>1, <2>2, <2>3, <3>2, <5>1
                <5>2. CASE new[i].last_attempt = out[i].last_attempt /\ new[i].state = out[i].state
                    BY <1>1, <2>2, <2>3, <5>2 DEF ShownSoFar
                <5> QED  BY <2>2, <2>5, <3>2, <5>1, <5>2
            <4> QED  BY <4>1, <4>2, <4>3
        <3> QED  BY <3>1, <3>2
    <2>9. ShownSoFar(new, points, k)
        BY <2>6, <2>7, <2>8 DEF ShownSoFar
    <2> QED  BY <2>4, <2>9 DEF new
<1>6. CASE ~\E i \in DOMAIN out : out[i].resource = p.resource
    <2>1. new = Append(out, p)
        BY <1>6 DEF Joining
    <2>2. PICK l \in Nat : l = Len(out) /\ DOMAIN out = 1..l
        OBVIOUS
    <2>3. /\ new \in Seq(Point(Rs, Ss))
          /\ DOMAIN new = 1..(l + 1)
          /\ new[l + 1] = p
          /\ \A i \in 1..l : new[i] = out[i]
        <3> HIDE DEF p, new
        <3> QED  BY <1>1, <2>1, <2>2
    <2> HIDE DEF new
    <2>4. \A i \in DOMAIN new : i \in DOMAIN out \/ i = l + 1
        BY <2>2, <2>3
    <2>5. l + 1 \in DOMAIN new /\ \A i \in DOMAIN out : i \in DOMAIN new
        BY <2>2, <2>3
    <2>6. ASSUME NEW i \in DOMAIN new, NEW j \in DOMAIN new, new[i].resource = new[j].resource
          PROVE  i = j
        <3>1. CASE i \in DOMAIN out /\ j \in DOMAIN out
            BY <2>2, <2>3, <2>6, <3>1 DEF ShownSoFar
        <3>2. CASE i = l + 1 /\ j \in DOMAIN out
            BY <1>6, <2>2, <2>3, <2>6, <3>2
        <3>3. CASE i \in DOMAIN out /\ j = l + 1
            BY <1>6, <2>2, <2>3, <2>6, <3>3
        <3> QED  BY <2>4, <3>1, <3>2, <3>3
    <2>7. ASSUME NEW j \in 1..k
          PROVE  \E i \in DOMAIN new : new[i].resource = points[j].resource
        <3>1. CASE j = k
            BY <2>3, <2>5, <3>1
        <3>2. CASE j \in 1..(k - 1)
            <4>1. PICK i \in DOMAIN out : out[i].resource = points[j].resource
                BY <3>2 DEF ShownSoFar
            <4> QED  BY <2>2, <2>3, <2>5, <4>1
        <3> QED  BY <1>1, <3>1, <3>2
    <2>8. ASSUME NEW i \in DOMAIN new
          PROVE  /\ \A j \in 1..k : points[j].resource = new[i].resource =>
                        /\ points[j].last_success <= new[i].last_success
                        /\ points[j].last_attempt <= new[i].last_attempt
                 /\ \E j \in 1..k : /\ points[j].resource = new[i].resource
                                    /\ points[j].last_success = new[i].last_success
                 /\ \E j \in 1..k : /\ points[j].resource = new[i].resource
                                    /\ points[j].last_attempt = new[i].last_attempt
                                    /\ points[j].state = new[i].state
        <3>1. CASE i \in DOMAIN out
            <4>1. new[i] = out[i] /\ out[i].resource # p.resource
                BY <1>6, <2>2, <2>3, <3>1
            <4>2. \A j \in 1..k : points[j].resource = new[i].resource => j \in 1..(k - 1)
                BY <1>1, <4>1
            <4> HIDE DEF p
            <4>3. \A j \in 1..k : points[j].resource = new[i].resource =>
                        /\ points[j].last_success <= new[i].last_success
                        /\ points[j].last_attempt <= new[i].last_attempt
                BY <3>1, <4>1, <4>2 DEF ShownSoFar
            <4>4. \E j \in 1..k : /\ points[j].resource = new[i].resource
                                  /\ points[j].last_success = new[i].last_success
                <5>1. \E j \in 1..(k - 1) : /\ points[j].resource = out[i].resource
                                            /\ points[j].last_success = out[i].last_success
                    BY <3>1 DEF ShownSoFar
                <5>2. \A j \in 1..(k - 1) : j \in 1..k
                    BY <1>1
                <5> QED  BY <4>1, <5>1, <5>2
            <4>5. \E j \in 1..k : /\ points[j].resource = new[i].resource
                                  /\ points[j].last_attempt = new[i].last_attempt
                                  /\ points[j].state = new[i].state
                <5>1. \E j \in 1..(k - 1) : /\ points[j].resource = out[i].resource
                                            /\ points[j].last_attempt = out[i].last_attempt
                                            /\ points[j].state = out[i].state
                    BY <3>1 DEF ShownSoFar
                <5>2. \A j \in 1..(k - 1) : j \in 1..k
                    BY <1>1
                <5> QED  BY <4>1, <5>1, <5>2
            <4> QED  BY <4>3, <4>4, <4>5
        <3>2. CASE i = l + 1
            <4>1. new[i] = p
                BY <2>3, <3>2
            <4>2. \A j \in 1..(k - 1) : points[j].resource # p.resource
                BY <1>6 DEF ShownSoFar
            <4>3. p.last_success <= p.last_success /\ p.last_attempt <= p.last_attempt
                BY <1>1, <1>4
            <4>4. \A j \in 1..k : points[j].resource = p.resource => points[j] = p
                <5> HIDE DEF p
                <5> QED  BY <1>1, <4>2 DEF p
            <4> HIDE DEF p
            <4>5. k \in 1..k /\ points[k] = p
                BY <1>1 DEF p
            <4>6. \A j \in 1..k : points[j].resource = new[i].resource =>
                        /\ points[j].last_success <= new[i].last_success
                        /\ points[j].last_attempt <= new[i].last_attempt
                BY <4>1, <4>3, <4>4
            <4>7. \E j \in 1..k : points[j] = new[i]
                BY <4>1, <4>5
            <4> QED  BY <4>6, <4>7
        <3> QED  BY <2>4, <2>8, <3>1, <3>2
    <2>9. ShownSoFar(new, points, k)
        BY <2>6, <2>7, <2>8 DEF ShownSoFar
    <2> QED  BY <2>3, <2>9 DEF new
<1> QED  BY <1>5, <1>6

\* Whatever the number and the order of a resource's recovery points, it is shown once, with
\* its newest attempt's state and its newest success (recovery.rs, consolidate).
THEOREM PointsJoin ==
    ASSUME NEW Rs, NEW Ss, NEW points \in Seq(Point(Rs, Ss))
    PROVE  X!P!PointsConsolidated(points)
<1> DEFINE out == X!P!Consolidated(points)
           n == Len(points)
<1>1. n \in Nat /\ DOMAIN points = 1..n
    OBVIOUS
<1>2. PICK g : /\ out = g[1..n] /\ g[1..0] = <<>>
               /\ \A k \in 1..n : g[1..k] = Joining(g[1..(k - 1)], points[k])
    <2> DEFINE c == [of |-> "points"]
    <2>1. PICK g : Folding(c, g, points, n) /\ out = g[1..n]
        BY PointsFold
    <2>2. \A o, x : Adding(c, o, x) = Joining(o, x)
        BY DEF Adding
    <2> HIDE DEF c
    <2> QED  BY <2>1, <2>2, FoldIsInOrder
<1> DEFINE Good(k) == g[1..k] \in Seq(Point(Rs, Ss)) /\ ShownSoFar(g[1..k], points, k)
           Bad == {k \in Nat : k <= n /\ ~Good(k)}
<1>3. Good(0)
    <2>1. <<>> \in Seq(Point(Rs, Ss)) /\ ShownSoFar(<<>>, points, 0)
        BY DEF ShownSoFar
    <2> QED  BY <1>2, <2>1
<1>4. ASSUME NEW k \in 1..n, Good(k - 1)  PROVE Good(k)
    <2> DEFINE old == g[1..(k - 1)]
    <2>1. old \in Seq(Point(Rs, Ss)) /\ ShownSoFar(old, points, k - 1)
        BY <1>4
    <2>2. g[1..k] = Joining(old, points[k])
        BY <1>2
    <2>3. /\ Joining(old, points[k]) \in Seq(Point(Rs, Ss))
          /\ ShownSoFar(Joining(old, points[k]), points, k)
        <3> HIDE DEF old
        <3> QED  BY <2>1, JoiningKeeps
    <2> QED  BY <2>2, <2>3
<1>5. Good(n)
    <2>1. SUFFICES ASSUME Bad # {}  PROVE FALSE
        BY <1>1
    <2>2. PICK k \in Bad : \A m \in Bad : k <= m
        <3>1. Bad \subseteq Nat
            OBVIOUS
        <3> HIDE DEF Bad
        <3> QED  BY <2>1, <3>1, LeastIs
    <2>3. k \in Nat /\ k <= n /\ ~Good(k)
        OBVIOUS
    <2> HIDE DEF Good
    <2>4. k # 0
        BY <1>3, <2>3
    <2>5. k \in 1..n /\ k - 1 \in Nat /\ k - 1 <= n /\ ~(k <= k - 1)
        BY <1>1, <2>3, <2>4
    <2>6. k - 1 \notin Bad
        BY <2>2, <2>5
    <2>7. Good(k - 1)
        BY <2>5, <2>6
    <2> QED  BY <1>4, <2>3, <2>5, <2>7
<1>6. out \in Seq(Point(Rs, Ss)) /\ ShownSoFar(out, points, n)
    BY <1>2, <1>5
<1> HIDE DEF out
<1>7. /\ X!P!ToSet(out) = {out[i] : i \in DOMAIN out}
      /\ X!P!ToSet(points) = {points[j] : j \in 1..n}
    BY <1>1 DEF X!P!ToSet
<1> DEFINE Of(r) == {p \in X!P!ToSet(points) : p.resource = r}
<1>8. {p.resource : p \in X!P!ToSet(out)} = {p.resource : p \in X!P!ToSet(points)}
    <2>1. \A i \in DOMAIN out : \E j \in 1..n : points[j].resource = out[i].resource
        BY <1>6 DEF ShownSoFar
    <2>2. \A j \in 1..n : \E i \in DOMAIN out : out[i].resource = points[j].resource
        BY <1>6 DEF ShownSoFar
    <2> HIDE DEF n
    <2> QED  BY <1>7, <2>1, <2>2
<1>9. ASSUME NEW p \in X!P!ToSet(out)
      PROVE  /\ p.last_success = X!P!Latest({q.last_success : q \in Of(p.resource)})
             /\ p.last_attempt = X!P!Latest({q.last_attempt : q \in Of(p.resource)})
             /\ \E q \in Of(p.resource) : q.last_attempt = p.last_attempt /\ q.state = p.state
    <2>1. PICK i \in DOMAIN out : p = out[i]
        BY <1>7
    <2>2. /\ \A j \in 1..n : points[j].resource = p.resource =>
                /\ points[j].last_success <= p.last_success
                /\ points[j].last_attempt <= p.last_attempt
          /\ \E j \in 1..n : /\ points[j].resource = p.resource
                             /\ points[j].last_success = p.last_success
          /\ \E j \in 1..n : /\ points[j].resource = p.resource
                             /\ points[j].last_attempt = p.last_attempt
                             /\ points[j].state = p.state
        BY <1>6, <2>1 DEF ShownSoFar
    <2>3. \A q \in Of(p.resource) : /\ q.last_success <= p.last_success
                                    /\ q.last_attempt <= p.last_attempt
        BY <1>7, <2>2
    <2>4. \E q \in Of(p.resource) : q.last_success = p.last_success
        BY <1>7, <2>2
    <2>5. \E q \in Of(p.resource) : q.last_attempt = p.last_attempt /\ q.state = p.state
        BY <1>7, <2>2
    <2>6. \A q \in Of(p.resource) : q.last_success \in Moment /\ q.last_attempt \in Moment
        <3>1. \A j \in 1..n : points[j] \in Point(Rs, Ss)
            BY <1>1
        <3>2. \A q \in Point(Rs, Ss) : q.last_success \in Moment /\ q.last_attempt \in Moment
            BY DEF Point
        <3> HIDE DEF n
        <3>3. \A q \in X!P!ToSet(points) : q \in Point(Rs, Ss)
            BY <1>7, <3>1
        <3> QED  BY <3>2, <3>3
    <2> DEFINE successes == {q.last_success : q \in Of(p.resource)}
               attempts == {q.last_attempt : q \in Of(p.resource)}
    <2>7. /\ successes \subseteq Moment /\ p.last_success \in successes
          /\ \A u \in successes : u <= p.last_success
        <3> HIDE DEF Of
        <3> QED  BY <2>3, <2>4, <2>6
    <2>8. /\ attempts \subseteq Moment /\ p.last_attempt \in attempts
          /\ \A u \in attempts : u <= p.last_attempt
        <3> HIDE DEF Of
        <3> QED  BY <2>3, <2>5, <2>6
    <2>9. p.last_success = X!P!Latest(successes) /\ p.last_attempt = X!P!Latest(attempts)
        <3> HIDE DEF successes, attempts
        <3> QED  BY <2>7, <2>8, LatestIn
    <2> QED  BY <2>5, <2>9
<1>10. \A i, j \in DOMAIN out : out[i].resource = out[j].resource => i = j
    BY <1>6 DEF ShownSoFar
<1> QED  BY <1>8, <1>9, <1>10 DEF X!P!PointsConsolidated, out

LEMMA SizeOfPrefix ==
    ASSUME NEW T, NEW out \in Seq(T), \A i, j \in DOMAIN out : out[i] = out[j] => i = j
    PROVE  X!P!Cardinality({out[i] : i \in DOMAIN out}) = Len(out)
<1> DEFINE found == {out[i] : i \in DOMAIN out}
           n == Len(out)
<1>1. n \in Nat /\ DOMAIN out = 1..n /\ out \in [1..n -> found]
    OBVIOUS
<1>2. ExistsBijection(1..n, found)
    <2>1. out \in Bijection(1..n, found)
        BY <1>1 DEF Bijection, Injection, Surjection, IsInjective
    <2> QED  BY <2>1 DEF ExistsBijection
<1>3. IsFiniteSet(1..n) /\ Cardinality(1..n) = n
    <2> HIDE DEF n
    <2> QED  BY <1>1, FS_Interval
<1>4. Cardinality(found) = n
    <2> HIDE DEF n, found
    <2> QED  BY <1>2, <1>3, FS_Bijection
<1> QED  BY <1>4 DEF X!P!Cardinality, Cardinality

\* What the first k findings leave: none twice, no more than there is room for, and what is
\* not cleared could not be, unless there is no room left.
ClearedSoFar(c, out, alerts, k) ==
    /\ Len(out) <= c.room
    /\ \A i \in DOMAIN out : \E j \in 1..k : out[i] = alerts[j]
    /\ \A i, j \in DOMAIN out : out[i] = out[j] => i = j
    /\ \A j \in 1..k : \/ \E i \in DOMAIN out : out[i] = alerts[j]
                       \/ ~Clearable(c, alerts[j])
                       \/ Len(out) = c.room

LEMMA ClearingKeeps ==
    ASSUME NEW T, NEW alerts \in Seq(T), \A i, j \in DOMAIN alerts : alerts[i] = alerts[j] => i = j,
           NEW c, c.room \in Nat, NEW k \in 1..Len(alerts),
           NEW out \in Seq(T), ClearedSoFar(c, out, alerts, k - 1)
    PROVE  /\ Clearing(c, out, alerts[k]) \in Seq(T)
           /\ ClearedSoFar(c, Clearing(c, out, alerts[k]), alerts, k)
<1> DEFINE f == alerts[k]
           new == Clearing(c, out, f)
<1>1. /\ f \in T /\ k \in Nat /\ k >= 1 /\ DOMAIN alerts = 1..Len(alerts)
      /\ \A j \in 1..k : j \in 1..(k - 1) \/ j = k
      /\ \A j \in 1..(k - 1) : j \in 1..k /\ j # k /\ j \in DOMAIN alerts
      /\ k \in 1..k /\ k \in DOMAIN alerts
    OBVIOUS
<1>2. PICK l \in Nat : l = Len(out) /\ DOMAIN out = 1..l
    OBVIOUS
<1>3. \A j \in 1..(k - 1) : alerts[j] # f
    BY <1>1
<1>4. CASE ~(Clearable(c, f) /\ Len(out) < c.room)
    <2>1. new = out
        BY <1>4 DEF Clearing
    <2>2. ~Clearable(c, f) \/ Len(out) = c.room
        BY <1>2, <1>4 DEF ClearedSoFar
    <2> HIDE DEF f, new
    <2>3. \A i \in DOMAIN out : \E j \in 1..k : out[i] = alerts[j]
        BY <1>1 DEF ClearedSoFar
    <2>4. \A j \in 1..k : \/ \E i \in DOMAIN out : out[i] = alerts[j]
                          \/ ~Clearable(c, alerts[j])
                          \/ Len(out) = c.room
        BY <1>1, <2>2 DEF ClearedSoFar, f
    <2> QED  BY <2>1, <2>3, <2>4 DEF ClearedSoFar, f, new
<1>5. CASE Clearable(c, f) /\ Len(out) < c.room
    <2>1. new = Append(out, f)
        BY <1>5 DEF Clearing
    <2>2. /\ new \in Seq(T) /\ Len(new) = l + 1
          /\ DOMAIN new = 1..(l + 1)
          /\ new[l + 1] = f
          /\ \A i \in 1..l : new[i] = out[i]
        <3> HIDE DEF f, new
        <3> QED  BY <1>1, <1>2, <2>1
    <2>3. Len(new) <= c.room
        BY <1>2, <1>5, <2>2
    <2> HIDE DEF f, new
    <2>4. /\ \A i \in DOMAIN new : i \in DOMAIN out \/ i = l + 1
          /\ \A i \in DOMAIN out : i \in DOMAIN new /\ new[i] = out[i]
          /\ l + 1 \in DOMAIN new
        BY <1>2, <2>2
    <2>5. \A i \in DOMAIN out : out[i] # f
        BY <1>3 DEF ClearedSoFar
    <2>6. \A i \in DOMAIN new : \E j \in 1..k : new[i] = alerts[j]
        <3>1. \A i \in DOMAIN out : \E j \in 1..(k - 1) : out[i] = alerts[j]
            BY DEF ClearedSoFar
        <3>2. \A i \in DOMAIN out : \E j \in 1..k : new[i] = alerts[j]
            BY <1>1, <2>4, <3>1
        <3>3. \E j \in 1..k : new[l + 1] = alerts[j]
            BY <1>1, <2>2 DEF f
        <3> QED  BY <2>4, <3>2, <3>3
    <2>7. \A i, j \in DOMAIN new : new[i] = new[j] => i = j
        BY <2>2, <2>4, <2>5 DEF ClearedSoFar
    <2>8. ASSUME NEW j \in 1..k
          PROVE  \/ \E i \in DOMAIN new : new[i] = alerts[j]
                 \/ ~Clearable(c, alerts[j])
                 \/ Len(new) = c.room
        <3>1. CASE j = k
            BY <2>2, <2>4, <3>1 DEF f
        <3>2. CASE j \in 1..(k - 1)
            <4>1. \/ \E i \in DOMAIN out : out[i] = alerts[j]
                  \/ ~Clearable(c, alerts[j])
                BY <1>2, <1>5, <3>2 DEF ClearedSoFar
            <4> QED  BY <2>4, <4>1
        <3> QED  BY <1>1, <3>1, <3>2
    <2> QED  BY <2>2, <2>3, <2>6, <2>7, <2>8 DEF ClearedSoFar, f, new
<1> QED  BY <1>4, <1>5

\* Of any number of log findings, those stay open that are shown still, that no complete and
\* later window replaces, or for which there is no room (log_recovery.rs, reconcile).
THEOREM AlertsClear ==
    ASSUME NEW T, NEW alerts \in Seq(T), \A i, j \in DOMAIN alerts : alerts[i] = alerts[j] => i = j,
           \A f \in T : f.observed_at \in Nat,
           NEW seen, NEW room \in Nat,
           NEW windows, \A w \in windows : w.gap \in Nat /\ w.end \in Nat
    PROVE  X!P!ClearedWhenReplaced(alerts, seen, windows, room)
<1> DEFINE out == X!P!Reconciled(alerts, seen, windows, room)
           n == Len(alerts)
<1>1. n \in Nat /\ DOMAIN alerts = 1..n
    OBVIOUS
<1>2. PICK c : /\ c = [of |-> "findings", seen |-> seen, windows |-> windows, room |-> room]
    OBVIOUS
<1>3. c.of # "points" /\ c.seen = seen /\ c.windows = windows /\ c.room = room
    BY <1>2
<1>4. PICK g : Folding(c, g, alerts, n) /\ out = g[1..n]
    BY <1>3, ClearsFold
<1>5. \A o, x : Adding(c, o, x) = Clearing(c, o, x)
    BY <1>3 DEF Adding
<1>6. /\ g[1..0] = <<>>
      /\ \A k \in 1..n : g[1..k] = Clearing(c, g[1..(k - 1)], alerts[k])
    BY <1>4, <1>5, FoldIsInOrder
<1> DEFINE Good(k) == g[1..k] \in Seq(T) /\ ClearedSoFar(c, g[1..k], alerts, k)
           Bad == {k \in Nat : k <= n /\ ~Good(k)}
<1>7. Good(0)
    <2>1. <<>> \in Seq(T) /\ ClearedSoFar(c, <<>>, alerts, 0)
        BY <1>3 DEF ClearedSoFar
    <2> QED  BY <1>6, <2>1
<1>8. ASSUME NEW k \in 1..n, Good(k - 1)  PROVE Good(k)
    <2> DEFINE old == g[1..(k - 1)]
    <2>1. old \in Seq(T) /\ ClearedSoFar(c, old, alerts, k - 1)
        BY <1>8
    <2>2. g[1..k] = Clearing(c, old, alerts[k])
        BY <1>6
    <2>3. /\ Clearing(c, old, alerts[k]) \in Seq(T)
          /\ ClearedSoFar(c, Clearing(c, old, alerts[k]), alerts, k)
        <3> HIDE DEF old
        <3> QED  BY <1>3, <2>1, ClearingKeeps
    <2> QED  BY <2>2, <2>3
<1>9. Good(n)
    <2>1. SUFFICES ASSUME Bad # {}  PROVE FALSE
        BY <1>1
    <2>2. PICK k \in Bad : \A m \in Bad : k <= m
        <3>1. Bad \subseteq Nat
            OBVIOUS
        <3> HIDE DEF Bad
        <3> QED  BY <2>1, <3>1, LeastIs
    <2>3. k \in Nat /\ k <= n /\ ~Good(k)
        OBVIOUS
    <2> HIDE DEF Good
    <2>4. k # 0
        BY <1>7, <2>3
    <2>5. k \in 1..n /\ k - 1 \in Nat /\ k - 1 <= n /\ ~(k <= k - 1)
        BY <1>1, <2>3, <2>4
    <2>6. k - 1 \notin Bad
        BY <2>2, <2>5
    <2>7. Good(k - 1)
        BY <2>5, <2>6
    <2> QED  BY <1>8, <2>3, <2>5, <2>7
<1>10. out \in Seq(T) /\ ClearedSoFar(c, out, alerts, n)
    BY <1>4, <1>9
<1> HIDE DEF out
<1> DEFINE cleared == X!P!ToSet(out)
<1>11. /\ cleared = {out[i] : i \in DOMAIN out}
       /\ X!P!ToSet(alerts) = {alerts[j] : j \in 1..n}
    BY <1>1 DEF X!P!ToSet
<1>12. X!P!Cardinality(cleared) = Len(out)
    BY <1>10, <1>11, SizeOfPrefix DEF ClearedSoFar
<1>13. X!P!Cardinality(cleared) <= room
    BY <1>3, <1>10, <1>12 DEF ClearedSoFar
<1>14. ASSUME NEW f \in X!P!ToSet(alerts) \ cleared
       PROVE  \/ f.resource \in seen \/ X!P!Cardinality(cleared) = room
              \/ \A w \in windows : w.operation = f.operation =>
                    ~w.complete \/ w.gap > 0 \/ w.end <= f.observed_at
    <2>1. PICK j \in 1..n : f = alerts[j]
        BY <1>11
    <2>2. ~Clearable(c, f) \/ Len(out) = room
        BY <1>3, <1>10, <1>11, <2>1 DEF ClearedSoFar
    <2>3. f.observed_at \in Nat
        BY <1>1, <2>1
    <2>4. \A w \in windows : ~(w.gap = 0) => w.gap > 0
        OBVIOUS
    <2>5. \A w \in windows : ~(w.end > f.observed_at) => w.end <= f.observed_at
        BY <2>3
    <2> QED  BY <1>3, <1>12, <2>2, <2>4, <2>5 DEF Clearable
<1> QED  BY <1>13, <1>14 DEF X!P!ClearedWhenReplaced, out

\* The inputs the rules are run on are ones of these.
Bears(o, sort, f) ==
    /\ o.data = sort /\ o.active \in BOOLEAN /\ o.at \in {5, 9}
    /\ DOMAIN o = {"data", "active", "at"} \cup DOMAIN f
    /\ \A x \in DOMAIN f \ {"data", "active", "at"} : o[x] = f[x]

LEMMA OfIs ==
    ASSUME NEW sort, NEW fields, NEW o \in X!Of(sort, fields)
    PROVE  \E f \in fields : Bears(o, sort, f)
<1>1. PICK f \in fields, act \in BOOLEAN, at \in {5, 9} :
        o = [x \in {"data", "active", "at"} \cup DOMAIN f |->
                IF x = "data" THEN sort
                ELSE IF x = "active" THEN act
                ELSE IF x = "at" THEN at ELSE f[x]]
    BY DEF X!Of
<1>2. /\ o["data"] = sort /\ o["active"] = act /\ o["at"] = at
      /\ DOMAIN o = {"data", "active", "at"} \cup DOMAIN f
    BY <1>1
<1>3. \A x \in DOMAIN f \ {"data", "active", "at"} : o[x] = f[x]
    BY <1>1
<1>4. act \in BOOLEAN /\ at \in {5, 9}
    OBVIOUS
<1> QED  BY <1>2, <1>3, <1>4 DEF Bears

LEMMA InputsAreSeen ==
    ASSUME NEW o \in X!Observations, NEW instant \in Nat, instant = 10
    PROVE  Sighting(o, instant)
<1> DEFINE fields1 == [complete : BOOLEAN, failed : BOOLEAN, created : X!Ago]
           fields2 == [desired : {0, 2}, ready : 0..2, created : X!Ago,
                        draining : BOOLEAN, node : BOOLEAN]
           fields3 == [issued : X!Opt, expires : {-1, 9, 10, 12, 14}]
           fields4 == [enabled : X!Opt, state : {"ready", "failed"}, last_success : X!Ago]
           fields5 == [state : {"ready", "failed", "starting"}, superseded : BOOLEAN,
                        created : X!Ago, target : BOOLEAN]
           fields6 == [signature : {"warning", "panic"}, count : 0..2, sampled : BOOLEAN]
           fields7 == [rule : {"ready"}, healthy : X!Opt]
           fields8 == [ready : X!Opt, last_sync : {-1, 3, 8, 10}, interval : {None, 2}]
           fields9 == [goal : {2}, compliance : {None, 1, 2, 3}, spent : X!Opt,
                        burn_rate : {None, 1, 3}, malformed : BOOLEAN]
           fields10 == [dns : BOOLEAN, tls : BOOLEAN, accepted : X!Opt, expires : {-1, 11,
                         15}, latency : 1..3]
           fields11 == [uid : {1}]
           fields12 == [state : {"healthy", "unknown", "unhealthy"}]
           fields13 == [state : {"ready", "failed", "stopped", "starting", "unknown"},
                         encrypted : X!Opt, backup_enabled : X!Opt]
           fields14 == [value : {None, 1, 5, 9}, capacity : {None, 0, 10},
                         warning : {None, 4, 40}, error : {None, 8, 80}, window : {1, 2}]
           fields15 == [occurrences : {None, {}, {4, 7}}, deadline : {0, 3},
                         suspended : BOOLEAN, running : BOOLEAN, forbid_overlap : BOOLEAN,
                         last_schedule : {-1, 4, 7}, last_success : {-1, 5, 8},
                         created : {-1, 5}]
<1>0. \/ o \in X!Of("job", fields1)
      \/ o \in X!Of("workload", fields2)
      \/ o \in X!Of("certificate", fields3)
      \/ o \in X!Of("recovery", fields4)
      \/ o \in X!Of("build", fields5)
      \/ o \in X!Of("log", fields6)
      \/ o \in X!Of("condition", fields7)
      \/ o \in X!Of("synchronization", fields8)
      \/ o \in X!Of("slo", fields9)
      \/ o \in X!Of("endpoint", fields10)
      \/ o \in X!Of("identity", fields11)
      \/ o \in X!Of("progress", fields12)
      \/ o \in X!Of("service", fields13)
      \/ o \in X!Of("metric", fields14)
      \/ o \in X!Of("schedule", fields15)
    BY DEF X!Observations
<1>1. CASE o \in X!Of("job", fields1)
    <2>1. o.data = "job"
        <3> HIDE DEF fields1
        <3> QED  BY <1>1, OfIs DEF Bears
    <2> QED  BY <2>1 DEF Sighting
<1>2. CASE o \in X!Of("workload", fields2)
    <2>1. PICK f \in fields2 : Bears(o, "workload", f)
        <3> HIDE DEF fields2
        <3> QED  BY <1>2, OfIs
    <2>2. DOMAIN f = {"desired", "ready", "created", "draining", "node"}
        OBVIOUS
    <2>3. /\ o.desired = f.desired /\ o.ready = f.ready /\ o.created = f.created
          /\ o.draining = f.draining /\ o.node = f.node
        BY <2>1, <2>2 DEF Bears
    <2> QED  BY <2>1, <2>2, <2>3 DEF Bears, Sighting, WorkloadSeen, Observes, Optional, Moment, X!P!Never, X!Ago
<1>3. CASE o \in X!Of("certificate", fields3)
    <2>1. PICK f \in fields3 : Bears(o, "certificate", f)
        <3> HIDE DEF fields3
        <3> QED  BY <1>3, OfIs
    <2>2. DOMAIN f = {"issued", "expires"}
        OBVIOUS
    <2>3. /\ o.issued = f.issued /\ o.expires = f.expires
        BY <2>1, <2>2 DEF Bears
    <2> QED  BY <2>1, <2>2, <2>3 DEF Bears, Sighting, CertificateSeen, Observes, Optional, Moment, X!P!Never, X!Ago
<1>4. CASE o \in X!Of("recovery", fields4)
    <2>1. PICK f \in fields4 : Bears(o, "recovery", f)
        <3> HIDE DEF fields4
        <3> QED  BY <1>4, OfIs
    <2>2. DOMAIN f = {"enabled", "state", "last_success"}
        OBVIOUS
    <2>3. /\ o.enabled = f.enabled /\ o.state = f.state /\ o.last_success = f.last_success
        BY <2>1, <2>2 DEF Bears
    <2> QED  BY <2>1, <2>2, <2>3 DEF Bears, Sighting, RecoverySeen, Observes, Optional, Moment, X!P!Never, X!Ago
<1>5. CASE o \in X!Of("build", fields5)
    <2>1. o.data = "build"
        <3> HIDE DEF fields5
        <3> QED  BY <1>5, OfIs DEF Bears
    <2> QED  BY <2>1 DEF Sighting
<1>6. CASE o \in X!Of("log", fields6)
    <2>1. PICK f \in fields6 : Bears(o, "log", f)
        <3> HIDE DEF fields6
        <3> QED  BY <1>6, OfIs
    <2>2. DOMAIN f = {"signature", "count", "sampled"}
        OBVIOUS
    <2>3. /\ o.signature = f.signature /\ o.count = f.count /\ o.sampled = f.sampled
        BY <2>1, <2>2 DEF Bears
    <2> QED  BY <2>1, <2>2, <2>3 DEF Bears, Sighting, LogSeen, Observes, Optional, Moment, X!P!Never, X!Ago
<1>7. CASE o \in X!Of("condition", fields7)
    <2>1. PICK f \in fields7 : Bears(o, "condition", f)
        <3> HIDE DEF fields7
        <3> QED  BY <1>7, OfIs
    <2>2. DOMAIN f = {"rule", "healthy"}
        OBVIOUS
    <2>3. /\ o.rule = f.rule /\ o.healthy = f.healthy
        BY <2>1, <2>2 DEF Bears
    <2> QED  BY <2>1, <2>2, <2>3 DEF Bears, Sighting, ConditionSeen, Observes, Optional, Moment, X!P!Never, X!Ago
<1>8. CASE o \in X!Of("synchronization", fields8)
    <2>1. PICK f \in fields8 : Bears(o, "synchronization", f)
        <3> HIDE DEF fields8
        <3> QED  BY <1>8, OfIs
    <2>2. DOMAIN f = {"ready", "last_sync", "interval"}
        OBVIOUS
    <2>3. /\ o.ready = f.ready /\ o.last_sync = f.last_sync /\ o.interval = f.interval
        BY <2>1, <2>2 DEF Bears
    <2> QED  BY <2>1, <2>2, <2>3 DEF Bears, Sighting, SynchronizationSeen, Observes, Optional, Moment, X!P!Never, X!Ago
<1>9. CASE o \in X!Of("slo", fields9)
    <2>1. PICK f \in fields9 : Bears(o, "slo", f)
        <3> HIDE DEF fields9
        <3> QED  BY <1>9, OfIs
    <2>2. DOMAIN f = {"goal", "compliance", "spent", "burn_rate", "malformed"}
        OBVIOUS
    <2>3. /\ o.goal = f.goal /\ o.compliance = f.compliance /\ o.spent = f.spent
          /\ o.burn_rate = f.burn_rate /\ o.malformed = f.malformed
        BY <2>1, <2>2 DEF Bears
    <2> QED  BY <2>1, <2>2, <2>3 DEF Bears, Sighting, SloSeen, Observes, Optional, Moment, X!P!Never, X!Ago
<1>10. CASE o \in X!Of("endpoint", fields10)
    <2>1. PICK f \in fields10 : Bears(o, "endpoint", f)
        <3> HIDE DEF fields10
        <3> QED  BY <1>10, OfIs
    <2>2. DOMAIN f = {"dns", "tls", "accepted", "expires", "latency"}
        OBVIOUS
    <2>3. /\ o.dns = f.dns /\ o.tls = f.tls /\ o.accepted = f.accepted
          /\ o.expires = f.expires /\ o.latency = f.latency
        BY <2>1, <2>2 DEF Bears
    <2> QED  BY <2>1, <2>2, <2>3 DEF Bears, Sighting, EndpointSeen, Observes, Optional, Moment, X!P!Never, X!Ago
<1>11. CASE o \in X!Of("identity", fields11)
    <2>1. o.data = "identity"
        <3> HIDE DEF fields11
        <3> QED  BY <1>11, OfIs DEF Bears
    <2> QED  BY <2>1 DEF Sighting
<1>12. CASE o \in X!Of("progress", fields12)
    <2>1. o.data = "progress"
        <3> HIDE DEF fields12
        <3> QED  BY <1>12, OfIs DEF Bears
    <2> QED  BY <2>1 DEF Sighting
<1>13. CASE o \in X!Of("service", fields13)
    <2>1. PICK f \in fields13 : Bears(o, "service", f)
        <3> HIDE DEF fields13
        <3> QED  BY <1>13, OfIs
    <2>2. DOMAIN f = {"state", "encrypted", "backup_enabled"}
        OBVIOUS
    <2>3. /\ o.state = f.state /\ o.encrypted = f.encrypted /\ o.backup_enabled = f.backup_enabled
        BY <2>1, <2>2 DEF Bears
    <2> QED  BY <2>1, <2>2, <2>3 DEF Bears, Sighting, ServiceSeen, Observes, Optional, Moment, X!P!Never, X!Ago
<1>14. CASE o \in X!Of("metric", fields14)
    <2>1. PICK f \in fields14 : Bears(o, "metric", f)
        <3> HIDE DEF fields14
        <3> QED  BY <1>14, OfIs
    <2>2. DOMAIN f = {"value", "capacity", "warning", "error", "window"}
        OBVIOUS
    <2>3. /\ o.value = f.value /\ o.capacity = f.capacity /\ o.warning = f.warning
          /\ o.error = f.error /\ o.window = f.window
        BY <2>1, <2>2 DEF Bears
    <2> QED  BY <2>1, <2>2, <2>3 DEF Bears, Sighting, MetricSeen, Observes, Optional, Moment, X!P!Never, X!Ago
<1>15. CASE o \in X!Of("schedule", fields15)
    <2>1. PICK f \in fields15 : Bears(o, "schedule", f)
        <3> HIDE DEF fields15
        <3> QED  BY <1>15, OfIs
    <2>2. DOMAIN f = {"occurrences", "deadline", "suspended", "running", "forbid_overlap", "last_schedule", "last_success", "created"}
        OBVIOUS
    <2>3. /\ o.occurrences = f.occurrences /\ o.deadline = f.deadline /\ o.suspended = f.suspended
          /\ o.running = f.running /\ o.forbid_overlap = f.forbid_overlap /\ o.last_schedule = f.last_schedule
          /\ o.last_success = f.last_success /\ o.created = f.created
        BY <2>1, <2>2 DEF Bears
    <2> QED  BY <2>1, <2>2, <2>3 DEF Bears, Sighting, ScheduleSeen, Observes, Optional, Moment, X!P!Never, X!Ago
<1> QED  BY <1>0, <1>1, <1>2, <1>3, <1>4, <1>5, <1>6, <1>7, <1>8, <1>9, <1>10, <1>11, <1>12, <1>13, <1>14, <1>15

LEMMA PriorsAreSeen ==
    ASSUME NEW o, o \in X!Pods \/ o \in X!Queues, NEW instant \in Nat, instant = 10
    PROVE  /\ Sighting(o, instant)
           /\ o \in X!Pods => o.data = "pod" /\ o.restarts \in Nat
           /\ o \in X!Queues => o.data = "queue"
<1> DEFINE pods == [uid : {1, 2}, ready : BOOLEAN, restarts : {0, 3, 4}, crash_loop : BOOLEAN,
                    created : X!Ago]
           queues == [backlog : {None, 0, 1, 3}, activation : {1}, ready : {0, 1},
                      crash_loop : BOOLEAN, scaler_ready : BOOLEAN, age : {None, 1, 3},
                      dead_letters : {None, 0, 1}]
<1>1. CASE o \in X!Pods
    <2>1. o \in X!Of("pod", pods)
        BY <1>1 DEF X!Pods
    <2>2. PICK f \in pods : Bears(o, "pod", f)
        <3> HIDE DEF pods
        <3> QED  BY <2>1, OfIs
    <2>3. DOMAIN f = {"uid", "ready", "restarts", "crash_loop", "created"}
        OBVIOUS
    <2>4. o.restarts = f.restarts /\ o.created = f.created
        BY <2>2, <2>3 DEF Bears
    <2>5. o.data # "queue"
        BY <2>2 DEF Bears
    <2>6. o \notin X!Queues
        <3> HIDE DEF queues
        <3>1. \A q \in X!Of("queue", queues) : q.data = "queue"
            BY OfIs DEF Bears
        <3> QED  BY <2>5, <3>1 DEF X!Queues, queues
    <2> QED  BY <2>2, <2>3, <2>4, <2>6
             DEF Bears, Sighting, PodSeen, Observes, Moment, X!P!Never, X!Ago
<1>2. CASE o \in X!Queues
    <2>1. o \in X!Of("queue", queues)
        BY <1>2 DEF X!Queues
    <2>2. PICK f \in queues : Bears(o, "queue", f)
        <3> HIDE DEF queues
        <3> QED  BY <2>1, OfIs
    <2>3. DOMAIN f = {"backlog", "activation", "ready", "crash_loop", "scaler_ready", "age",
                      "dead_letters"}
        OBVIOUS
    <2>4. /\ o.backlog = f.backlog /\ o.activation = f.activation /\ o.ready = f.ready
          /\ o.age = f.age /\ o.dead_letters = f.dead_letters
        BY <2>2, <2>3 DEF Bears
    <2>5. o.data # "pod"
        BY <2>2 DEF Bears
    <2>6. o \notin X!Pods
        <3> HIDE DEF pods
        <3>1. \A q \in X!Of("pod", pods) : q.data = "pod"
            BY OfIs DEF Bears
        <3> QED  BY <2>5, <3>1 DEF X!Pods, pods
    <2> QED  BY <2>2, <2>3, <2>4, <2>6
             DEF Bears, Sighting, QueueSeen, Observes, Optional, Moment, X!P!Never
<1> QED  BY <1>1, <1>2

LEMMA RulesHold == X!P!ConstantsAssumption /\ X!Init => X!EvidenceDecides
<1> SUFFICES ASSUME X!P!ConstantsAssumption, X!Init  PROVE X!EvidenceDecides
    OBVIOUS
<1>1. PICK instant \in Nat : instant = 10 /\ instant = X!Now
    BY DEF X!Now
<1>2. ASSUME input.part = "policy"
      PROVE  X!P!VerdictsFollowEvidence(input.o, input.prior, X!Now)
    <2>1. input \in X!PolicyInputs
        BY <1>2 DEF X!Init, X!OwnerInputs, X!PointInputs, X!ClearInputs
    <2>2. \/ input.o \in X!Observations /\ input.prior = None
          \/ input.o \in X!Pods /\ input.prior \in X!Pods
          \/ input.o \in X!Queues /\ input.prior \in X!Queues
        BY <2>1 DEF X!PolicyInputs
    <2>3. CASE input.o \in X!Observations /\ input.prior = None
        BY <1>1, <2>3, InputsAreSeen, VerdictsAreOrdered
    <2>4. CASE input.o \in X!Pods /\ input.prior \in X!Pods
        BY <1>1, <2>4, PriorsAreSeen, VerdictsAreOrdered
    <2>5. CASE input.o \in X!Queues /\ input.prior \in X!Queues
        BY <1>1, <2>5, PriorsAreSeen, VerdictsAreOrdered
    <2> QED  BY <2>2, <2>3, <2>4, <2>5
<1>3. ASSUME input.part = "clears"
      PROVE  X!P!ClearedWhenReplaced(input.findings, input.seen, input.windows, input.room)
    <2>1. input \in X!ClearInputs
        BY <1>3 DEF X!Init, X!PolicyInputs, X!OwnerInputs, X!PointInputs
    <2> DEFINE alert == [id : {1, 2}, resource : {1, 2}, operation : {1, 2}, observed_at : {1, 2}]
    <2>2. PICK f \in alert, g \in alert : input.findings = <<f, g>> /\ f.id # g.id
        BY <2>1 DEF X!ClearInputs, X!Open
    <2>3. /\ input.findings \in Seq(alert)
          /\ \A i, j \in DOMAIN input.findings : input.findings[i] = input.findings[j] => i = j
        BY <2>2
    <2>4. input.room \in Nat /\ \A w \in input.windows : w.gap \in Nat /\ w.end \in Nat
        BY <2>1 DEF X!ClearInputs
    <2>5. \A a \in alert : a.observed_at \in Nat
        OBVIOUS
    <2> HIDE DEF alert
    <2> QED  BY <2>3, <2>4, <2>5, AlertsClear
<1>4. ASSUME input.part = "points"
      PROVE  X!P!PointsConsolidated(input.points)
    <2>1. input \in X!PointInputs
        BY <1>4 DEF X!Init, X!PolicyInputs, X!OwnerInputs, X!ClearInputs
    <2> DEFINE point == [resource : {1, 2}, last_attempt : {-1, 1, 2}, last_success : {-1, 1},
                         state : {"ready", "failed"}]
    <2>2. PICK p \in point, q \in point, r \in point : input.points = <<p, q, r>>
        BY <2>1 DEF X!PointInputs
    <2>3. point \subseteq Point({1, 2}, {"ready", "failed"})
        BY DEF Point, Moment, X!P!Never
    <2>4. input.points \in Seq(Point({1, 2}, {"ready", "failed"}))
        <3> HIDE DEF point
        <3> QED  BY <2>2, <2>3
    <2> QED  BY <2>4, PointsJoin
<1> QED  BY <1>2, <1>3, <1>4, OwnersDecide DEF X!EvidenceDecides

\* The rules decide by their evidence on every input they are run on, for any settings
\* (policy.rs, schedule_policy.rs, recovery.rs, log_recovery.rs).
THEOREM EvidenceAlwaysDecides == SuiteSpec => []EvidenceDecides
<1> DEFINE suite == <<part, vars, recorderVars, connectorVars, signalVars, workVars, input>>
<1>1. SuiteInit => EvidenceDecides
    BY PartsAssumption, RulesHold DEF SuiteInit, EvidenceDecides
<1>2. EvidenceDecides /\ [SuiteNext]_suite => EvidenceDecides'
    BY DEF EvidenceDecides, X!EvidenceDecides, SuiteNext
<1> QED  BY <1>1, <1>2, PTL DEF SuiteSpec
=============================================================================
