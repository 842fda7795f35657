---------------------------- MODULE AnswersProofs ----------------------------
(***************************************************************************)
(* What is answered, and with what, for any bounds and interleaving: what  *)
(* is used again is valid and the latest there is (Credentials), what is   *)
(* said to be complete is still in the tables (Retention), a list that is  *)
(* read page by page while it changes is shown whole (Pages), verdicts and *)
(* views say no more than the records show (Assessment, View), where an    *)
(* image came from is said on evidence (Releases), and a list that is      *)
(* reported as complete was read to its end (Reading).                     *)
(***************************************************************************)
EXTENDS MCAnswers, Sequences, FiniteSetTheorems, WellFoundedInduction, TLAPS

suiteVars == <<part, vars, otherVars, input>>

-----------------------------------------------------------------------------
(* Credentials: what is kept until it expires.                             *)

Credential == [until : Nat, good : BOOLEAN]

CredentialType ==
    /\ style \in {"token", "session", "keys"}
    /\ clock \in Nat
    /\ style # "keys" => cached \in Credential \cup {None}
    /\ style # "session" => client = None
    /\ style = "keys" => cached.kids \in SUBSET Kid /\ cached.until \in Nat
                         /\ ended \in [Kid -> Nat]
    /\ style = "keys" /\ busy => asked \in Kid

\* While keys are asked for, those that may be answered were published since, and the answer
\* comes within the time it has.
Asking ==
    busy => /\ since \in Nat /\ since <= clock /\ clock <= since + FetchTime
            /\ \A S \in offers : \A k \in S : ended[k] >= since

\* A key is kept no longer than it may be, counted from when it was published last.
Kept(k) == cached.until <= ended[k] + Valid + FetchTime

KeyInv ==
    /\ published \in SUBSET Kid
    /\ \A k \in Kid : ended[k] <= clock
    /\ \A k \in published : ended[k] = clock
    /\ offers \subseteq SUBSET Kid
    /\ Asking
    /\ \A k \in cached.kids : Kept(k)
    /\ last # None => last.what \in Kid /\ last.at \in Nat

CredentialInv == CredentialType /\ (style = "keys" => KeyInv) /\ K!CredentialsHold

LEMMA CredentialsStart == K!ConstantsAssumption /\ K!Init => CredentialInv
<1> SUFFICES ASSUME K!ConstantsAssumption, K!Init PROVE CredentialInv
  OBVIOUS
<1>1. CredentialType
  BY DEF K!Init, K!Keys, CredentialType
<1>2. style = "keys" => KeyInv
  BY DEF K!Init, K!Keys, KeyInv, Asking
<1>3. K!CredentialsHold
  BY DEF K!Init, K!CredentialsHold, K!TokensLive, K!ClientsAreLatest, K!KeysAreCurrent
<1> QED BY <1>1, <1>2, <1>3 DEF CredentialInv

\* A token, or the client of a cluster.
LEMMA SecretsStep ==
  ASSUME K!ConstantsAssumption, CredentialInv, style # "keys", [K!Next]_K!vars
  PROVE  CredentialInv'
<1> SUFFICES (CredentialType /\ K!CredentialsHold)' /\ style' = style
  BY DEF CredentialInv
<1> USE DEF CredentialInv, CredentialType, K!CredentialsHold, K!TokensLive, K!ClientsAreLatest,
            K!KeysAreCurrent
<1>1. CASE K!Reuse
  <2>1. /\ last' = [what |-> cached, at |-> clock, reused |-> TRUE]
        /\ UNCHANGED <<style, clock, busy, since, asked, cached, client, K!keyVars>>
        /\ style = "token" /\ cached # None /\ cached.until > clock + Margin
    BY <1>1 DEF K!Reuse, K!Handed, K!Outlives
  <2>2. cached.until > clock
    BY <2>1 DEF Credential, K!ConstantsAssumption
  <2> QED BY <2>1, <2>2
<1>2. CASE K!Request \/ \E t \in Transport : K!RunPlugin(t)
  <2>1. UNCHANGED <<style, clock, cached, client, K!keyVars, last>>
    BY <1>2 DEF K!Request, K!RunPlugin
  <2> QED BY <2>1
<1>3. ASSUME NEW until \in 0..KeyTime \cup {K!Never}, K!Answered(until)
      PROVE  (CredentialType /\ K!CredentialsHold)' /\ style' = style
  <2>1. UNCHANGED <<style, clock, client, K!keyVars>> /\ style = "token"
    BY <1>3 DEF K!Answered
  <2>2. \/ UNCHANGED <<cached, last>>
        \/ /\ cached' = [until |-> until, good |-> TRUE]
           /\ last' = [what |-> cached', at |-> clock, reused |-> FALSE]
    BY <1>3 DEF K!Answered, K!Credential, K!Handed
  <2>3. until \in Nat
    BY DEF K!Never, K!ConstantsAssumption
  <2>4. [until |-> until, good |-> TRUE] \in Credential
    BY <2>3 DEF Credential
  <2>5. cached' \in Credential \cup {None}
    BY <2>2, <2>4
  <2> QED BY <2>1, <2>2, <2>5
<1>4. ASSUME NEW until \in 0..KeyTime \cup {K!Never}, NEW good \in BOOLEAN, K!Printed(until, good)
      PROVE  (CredentialType /\ K!CredentialsHold)' /\ style' = style
  <2>1. UNCHANGED <<style, clock, K!keyVars>> /\ style = "session"
    BY <1>4 DEF K!Printed
  <2>2. CASE until > clock
    <3> DEFINE new == [until |-> until, good |-> good]
    <3>1. cached' = new /\ K!Build(new, asked)
      BY <1>4, <2>2 DEF K!Printed, K!Credential
    <3>2. until \in Nat
      BY DEF K!Never, K!ConstantsAssumption
    <3>3. new \in Credential /\ new.good = good
      BY <3>2 DEF Credential
    <3> HIDE DEF new
    <3>4. good => client'.of = new
      BY <3>1, <3>3 DEF K!Build
    <3> QED BY <2>1, <3>1, <3>3, <3>4
  <2>3. CASE ~(until > clock)
    <3>1. UNCHANGED <<cached, client, last>>
      BY <1>4, <2>3 DEF K!Printed
    <3> QED BY <2>1, <3>1
  <2> QED BY <2>2, <2>3
<1>5. ASSUME NEW t \in Transport, K!SameClient(t) \/ K!OtherTransport(t)
      PROVE  (CredentialType /\ K!CredentialsHold)' /\ style' = style
  <2>1. UNCHANGED <<style, clock, busy, asked, cached, K!keyVars>> /\ style = "session"
    BY <1>5 DEF K!SameClient, K!OtherTransport
  <2>2. CASE K!SameClient(t)
    <3>1. client' = client /\ client # None /\ UNCHANGED cached
      BY <2>2 DEF K!SameClient, K!Fresh
    <3> QED BY <2>1, <3>1
  <2>3. CASE K!OtherTransport(t)
    <3>1. K!Build(cached, t) /\ cached # None
      BY <2>3 DEF K!OtherTransport, K!Fresh, K!Outlives
    <3>2. IF cached.good THEN client' = [of |-> cached, transport |-> t] ELSE client' = client
      BY <3>1 DEF K!Build
    <3>3. cached.good => client'.of = cached
      BY <3>2
    <3> QED BY <2>1, <3>3
  <2> QED BY <1>5, <2>2, <2>3
<1>6. CASE K!Failed
  <2>1. UNCHANGED <<style, clock, cached, client, after, published, ended, rotations, last>>
    BY <1>6 DEF K!Failed
  <2> QED BY <2>1
<1>7. CASE K!Tick
  <2>1. UNCHANGED <<style, cached, client, last>> /\ clock' = clock + 1
    BY <1>7 DEF K!Tick
  <2> QED BY <2>1
<1>8. CASE UNCHANGED K!vars
  BY <1>8 DEF K!vars
<1>9. ASSUME NEW S, NEW k,
             K!Rotate(S) \/ K!Refreshed(S) \/ K!Authorized(k) \/ K!Refresh(k)
      PROVE  FALSE
  BY <1>9 DEF K!Rotate, K!Refreshed, K!Authorized, K!Refresh
<1> QED BY <1>1, <1>2, <1>3, <1>4, <1>5, <1>6, <1>7, <1>8, <1>9 DEF K!Next

\* What was handed out last was a key that was current then.
Current(l) ==
    l # None => /\ l.what \in Kid /\ l.at \in Nat
                /\ l.at < ended[l.what] + Valid + FetchTime

LEMMA DecideHolds ==
  ASSUME K!ConstantsAssumption, clock \in Nat, Current(last), NEW keys, NEW kid,
         keys.kids \in SUBSET Kid, keys.until \in Nat, ended \in [Kid -> Nat],
         \A k \in keys.kids : keys.until <= ended[k] + Valid + FetchTime,
         K!Decide(keys, kid) \/ UNCHANGED last
  PROVE  Current(last')
<1>1. CASE clock < keys.until /\ kid \in keys.kids /\ K!Decide(keys, kid)
  <2>1. last' = [what |-> kid, at |-> clock, reused |-> TRUE]
    BY <1>1 DEF K!Decide, K!Handed
  <2>2. kid \in Kid /\ ended[kid] \in Nat
    BY <1>1
  <2>3. clock < ended[kid] + Valid + FetchTime
    BY <1>1, <2>2 DEF K!ConstantsAssumption
  <2>4. last'.what = kid /\ last'.at = clock
    BY <2>1
  <2> QED BY <2>2, <2>3, <2>4 DEF Current
<1>2. CASE ~(clock < keys.until /\ kid \in keys.kids /\ K!Decide(keys, kid))
  <2>1. last' = last
    BY <1>2 DEF K!Decide
  <2> QED BY <2>1 DEF Current
<1> QED BY <1>1, <1>2

LEMMA KeysStep ==
  ASSUME K!ConstantsAssumption, CredentialInv, style = "keys", [K!Next]_K!vars
  PROVE  CredentialInv'
<1> DEFINE Typed == /\ clock \in Nat /\ cached.kids \in SUBSET Kid /\ cached.until \in Nat
                    /\ ended \in [Kid -> Nat]
                    /\ busy => asked \in Kid
           Dated == /\ published \in SUBSET Kid /\ offers \subseteq SUBSET Kid
                    /\ \A k \in Kid : ended[k] <= clock
                    /\ \A k \in published : ended[k] = clock
           Lent == \A k \in cached.kids : Kept(k)
<1>1. Typed /\ Dated /\ Asking /\ Lent /\ Current(last) /\ client = None
  BY DEF CredentialInv, CredentialType, KeyInv, K!CredentialsHold, K!KeysAreCurrent, Current
<1>2. SUFFICES (Typed /\ Dated /\ Asking /\ Lent /\ Current(last))' /\ UNCHANGED <<style, client>>
  BY <1>1 DEF CredentialInv, CredentialType, KeyInv, K!CredentialsHold, K!TokensLive,
              K!ClientsAreLatest, K!KeysAreCurrent, Current
<1>3. Valid \in Nat /\ FetchTime \in Nat /\ Pause \in Nat
  BY DEF K!ConstantsAssumption
<1>4. ASSUME NEW T \in SUBSET Kid, K!Rotate(T)
      PROVE  (Typed /\ Dated /\ Asking /\ Lent /\ Current(last))' /\ UNCHANGED <<style, client>>
  <2>1. /\ UNCHANGED <<style, clock, busy, since, asked, cached, client, last>>
        /\ published' = T
        /\ offers' = {} \/ (busy /\ offers' = offers \cup {T})
        /\ ended' = [k \in Kid |-> IF k \in T \cup published THEN clock ELSE ended[k]]
    BY <1>4 DEF K!Rotate
  <2>2. /\ ended' \in [Kid -> Nat]
        /\ \A k \in Kid : ended[k] <= ended'[k] /\ ended'[k] <= clock
        /\ \A k \in T : ended'[k] = clock
    BY <1>1, <2>1
  <2>3. Typed' /\ Dated'
    BY <1>1, <2>1, <2>2
  <2>4. Asking'
    BY <1>1, <2>1, <2>2 DEF Asking
  <2>5. Lent'
    BY <1>1, <1>3, <2>1, <2>2 DEF Kept
  <2>6. Current(last)'
    BY <1>1, <1>3, <2>1, <2>2 DEF Current
  <2> QED BY <2>1, <2>3, <2>4, <2>5, <2>6
<1>5. ASSUME NEW kid \in Kid, K!Authorized(kid)
      PROVE  (Typed /\ Dated /\ Asking /\ Lent /\ Current(last))' /\ UNCHANGED <<style, client>>
  <2>1. /\ K!Decide(cached, kid)
        /\ UNCHANGED <<style, clock, busy, since, asked, cached, client, published, offers, ended>>
    BY <1>5 DEF K!Authorized, K!keyVars
  <2>2. Current(last')
    BY <1>1, <2>1, DecideHolds DEF Kept
  <2> QED BY <1>1, <2>1, <2>2 DEF Asking, Kept, Current
<1>6. ASSUME NEW kid \in Kid, K!Refresh(kid)
      PROVE  (Typed /\ Dated /\ Asking /\ Lent /\ Current(last))' /\ UNCHANGED <<style, client>>
  <2>1. /\ since' = clock /\ asked' = kid /\ offers' = {published}
        /\ UNCHANGED <<style, clock, cached, client, published, ended, last>>
    BY <1>6 DEF K!Refresh, K!Take
  <2>2. Typed' /\ Dated'
    BY <1>1, <2>1
  <2>3. Asking'
    BY <1>1, <1>3, <2>1 DEF Asking
  <2>4. Lent' /\ Current(last)'
    BY <1>1, <2>1 DEF Kept, Current
  <2> QED BY <2>1, <2>2, <2>3, <2>4
<1>7. ASSUME NEW T \in SUBSET Kid, K!Refreshed(T)
      PROVE  (Typed /\ Dated /\ Asking /\ Lent /\ Current(last))' /\ UNCHANGED <<style, client>>
  <2>1. /\ busy /\ T \in offers /\ K!Decide(cached', asked) /\ ~busy' /\ offers' = {}
        /\ cached' = [kids |-> T, until |-> clock + Valid]
        /\ UNCHANGED <<style, clock, client, published, ended>>
    BY <1>7 DEF K!Refreshed, K!Replaced, K!Keys, K!Release
  <2>2. cached'.kids = T /\ cached'.until = clock + Valid /\ cached'.until \in Nat
    BY <1>1, <1>3, <2>1
  <2>3. Typed' /\ Dated' /\ Asking'
    BY <1>1, <2>1, <2>2 DEF Asking
  <2>4. \A k \in T : cached'.until <= ended[k] + Valid + FetchTime
    BY <1>1, <1>3, <2>1, <2>2 DEF Asking
  <2>5. Lent'
    BY <2>1, <2>2, <2>4 DEF Kept
  <2>6. PICK keys : keys = cached'
    OBVIOUS
  <2>7. Current(last')
    BY <1>1, <2>1, <2>2, <2>4, <2>6, DecideHolds
  <2> QED BY <2>1, <2>3, <2>5, <2>7 DEF Current
<1>8. ASSUME K!Failed
      PROVE  (Typed /\ Dated /\ Asking /\ Lent /\ Current(last))' /\ UNCHANGED <<style, client>>
  <2>1. /\ K!Decide(cached, asked) \/ UNCHANGED last
        /\ ~busy' /\ offers' = {}
        /\ UNCHANGED <<style, clock, cached, client, published, ended>>
    BY <1>8 DEF K!Failed, K!Release
  <2>2. Current(last')
    BY <1>1, <2>1, DecideHolds DEF Kept
  <2> QED BY <1>1, <2>1, <2>2 DEF Asking, Kept, Current
<1>9. ASSUME K!Tick
      PROVE  (Typed /\ Dated /\ Asking /\ Lent /\ Current(last))' /\ UNCHANGED <<style, client>>
  <2>1. /\ busy => clock < since + FetchTime
        /\ clock' = clock + 1
        /\ ended' = [k \in Kid |-> IF k \in published THEN clock + 1 ELSE ended[k]]
        /\ UNCHANGED <<style, busy, since, asked, cached, client, published, offers, last>>
    BY <1>9 DEF K!Tick
  <2>2. /\ ended' \in [Kid -> Nat] /\ clock' \in Nat
        /\ \A k \in Kid : ended[k] <= ended'[k] /\ ended'[k] <= clock'
        /\ \A k \in published : ended'[k] = clock'
    BY <1>1, <2>1
  <2>3. Typed' /\ Dated'
    BY <1>1, <2>1, <2>2
  <2>4. Asking'
    BY <1>1, <1>3, <2>1, <2>2 DEF Asking
  <2>5. Lent'
    BY <1>1, <1>3, <2>1, <2>2 DEF Kept
  <2>6. Current(last)'
    BY <1>1, <1>3, <2>1, <2>2 DEF Current
  <2> QED BY <2>1, <2>3, <2>4, <2>5, <2>6
<1>10. CASE UNCHANGED K!vars
  BY <1>1, <1>10 DEF K!vars, K!keyVars, Asking, Kept, Current
<1>11. ASSUME NEW until, NEW good, NEW t,
              \/ K!Reuse \/ K!Request \/ K!Answered(until) \/ K!Printed(until, good)
              \/ K!SameClient(t) \/ K!OtherTransport(t) \/ K!RunPlugin(t)
       PROVE  FALSE
  BY <1>11 DEF K!Reuse, K!Request, K!Answered, K!Printed, K!SameClient, K!OtherTransport,
               K!RunPlugin
<1> QED BY <1>4, <1>5, <1>6, <1>7, <1>8, <1>9, <1>10, <1>11 DEF K!Next

\* A token that is used again outlives its use, a client carries the latest credential one could
\* be built with, and a request is accepted only with a key that is published or was until the
\* last keys were asked for: for any times of validity and fetching, rotations, failures and
\* cancellations (azure_auth.rs, aws_credential_cache.rs, kube_auth.rs, iap.rs).
THEOREM CredentialsAreSound ==
  ASSUME K!ConstantsAssumption
  PROVE  SuiteSpec => []CredentialsHold
<1> DEFINE Sound == part = "credentials" => CredentialInv
<1>1. SuiteInit => Sound
  BY CredentialsStart DEF SuiteInit
<1>2. Sound /\ [SuiteNext]_suiteVars => Sound'
  <2> SUFFICES ASSUME Sound, [SuiteNext]_suiteVars PROVE Sound'
    OBVIOUS
  <2>1. part' = part
    BY DEF SuiteNext, suiteVars
  <2>2. part = "credentials" => [K!Next]_K!vars
    BY DEF SuiteNext, suiteVars, otherVars, credentialVars, K!vars
  <2> QED BY <2>1, <2>2, SecretsStep, KeysStep
<1>3. Sound => CredentialsHold
  BY DEF CredentialInv, CredentialsHold
<1> QED BY <1>1, <1>2, <1>3, PTL DEF SuiteSpec, suiteVars

-----------------------------------------------------------------------------
(* Retention: the tables, and what a window may call complete.             *)

\* What is bounded has a greatest element.
LEMMA Greatest ==
  ASSUME NEW T, T \subseteq Nat, T # {}, NEW b \in Nat, \A x \in T : x <= b
  PROVE  \E x \in T : \A y \in T : x >= y
<1> DEFINE D == {n \in Nat : b - n \in T}
           Less == {ss \in Nat \X Nat : ss[1] < ss[2]}
<1>1. IsWellFoundedOn(Less, Nat)
  BY NatLessThanWellFounded DEF OpToRel
<1>2. D \subseteq Nat /\ D # {}
  <2>1. PICK x \in T : TRUE
    OBVIOUS
  <2>2. b - x \in Nat /\ b - (b - x) = x
    BY <2>1
  <2> QED BY <2>1, <2>2
<1>3. PICK n \in D : \A m \in D : <<m, n>> \notin Less
  <2> HIDE DEF Less, D
  <2> QED BY <1>1, <1>2, WFMin
<1>4. \A m \in D : ~(m < n)
  BY <1>3
<1>5. ASSUME NEW y \in T PROVE b - n >= y
  <2>1. b - y \in Nat /\ b - (b - y) = y
    OBVIOUS
  <2>2. b - y \in D
    BY <2>1
  <2>3. n \in Nat /\ ~(b - y < n)
    BY <1>3, <1>4, <2>2
  <2> QED BY <2>3
<1> QED BY <1>3, <1>5

LEMMA MaxIs ==
  ASSUME NEW T, T \subseteq Nat, T # {}, NEW b \in Nat, \A x \in T : x <= b
  PROVE  R!Max(T) \in T /\ \A y \in T : y <= R!Max(T)
<1>1. \E x \in T : \A y \in T : x >= y
  BY Greatest
<1> QED BY <1>1 DEF R!Max

LEMMA SizeIs == \A T : R!Cardinality(T) = Cardinality(T)
  BY DEF R!Cardinality, Cardinality

\* A trim takes events away.
LEMMA TrimmedIs ==
  ASSUME R!ConstantsAssumption, NEW es \in Seq(Nat)
  PROVE  R!Trimmed(es) \in Seq(Nat) /\ Len(R!Trimmed(es)) <= Len(es)
<1>1. ASSUME NEW q \in Seq(Nat), NEW n \in Nat
      PROVE  R!Younger(q, n) \in Seq(Nat) /\ Len(R!Younger(q, n)) <= Len(q)
  BY DEF R!Younger
<1>2. ASSUME NEW m \in Nat PROVE R!Min({m, Pass}) \in Nat
  <2>1. Pass \in Nat /\ (m <= Pass \/ Pass <= m)
    BY DEF R!ConstantsAssumption
  <2>2. \E x \in {m, Pass} : \A y \in {m, Pass} : x <= y
    BY <2>1
  <2>3. R!Min({m, Pass}) \in {m, Pass}
    BY <2>2 DEF R!Min
  <2> QED BY <2>1, <2>3
<1> DEFINE expired == R!Cardinality({n \in DOMAIN es : es[n] < R!Cutoff})
           left == R!Younger(es, R!Min({expired, Pass}))
           excess == IF Len(left) > EventCap THEN Len(left) - EventCap ELSE 0
<1>3. expired \in Nat
  <2>1. IsFiniteSet(1..Len(es)) /\ DOMAIN es = 1..Len(es)
    BY FS_Interval
  <2>2. IsFiniteSet({n \in DOMAIN es : es[n] < R!Cutoff})
    BY <2>1, FS_Subset
  <2> QED BY <2>2, FS_CardinalityType, SizeIs
<1> HIDE DEF expired
<1>4. left \in Seq(Nat) /\ Len(left) <= Len(es)
  BY <1>1, <1>2, <1>3
<1> HIDE DEF left
<1>5. excess \in Nat
  BY <1>4 DEF R!ConstantsAssumption
<1> HIDE DEF excess
<1>6. R!Trimmed(es) = R!Younger(left, R!Min({excess, Pass}))
  BY DEF R!Trimmed, expired, left, excess
<1>7. R!Younger(left, R!Min({excess, Pass})) \in Seq(Nat)
      /\ Len(R!Younger(left, R!Min({excess, Pass}))) <= Len(left)
  BY <1>1, <1>2, <1>4, <1>5
<1> QED BY <1>4, <1>6, <1>7

TableType ==
    /\ clock \in 0..TableTime /\ evicted \in 0..TableTime /\ pass \in 0..Passes
    /\ events \in Seq(Nat)
    /\ DOMAIN known \subseteq Ident /\ DOMAIN records \subseteq DOMAIN known
    /\ \A i \in DOMAIN known : known[i].to \in 0..TableTime
    /\ \A i \in DOMAIN records : records[i] = known[i]
    /\ chosen \subseteq DOMAIN records /\ back \in {"idle", "before", "after"}
    /\ behind \in BOOLEAN

\* What is chosen are the records that ended first, and the watermark has passed them.
Chosen ==
    /\ step # "delete" => chosen = {}
    /\ \A i \in chosen : /\ known[i].to <= evicted
                         /\ \A j \in DOMAIN records \ chosen : known[i].to <= known[j].to

\* What is gone has expired, or ended before the watermark and before all that is left.
Gone(i) ==
    \/ known[i].to < R!Cutoff
    \/ known[i].to <= evicted /\ \A j \in DOMAIN records : known[i].to <= known[j].to

Missing == DOMAIN known \ DOMAIN records

TableInv ==
    /\ TableType /\ Chosen /\ R!TablesBounded
    /\ ~behind => \A i \in Missing : Gone(i)

LEMMA CutoffIs ==
  ASSUME R!ConstantsAssumption, clock \in Nat
  PROVE  /\ R!Cutoff \in Nat
         /\ clock' = clock => R!Cutoff' = R!Cutoff
         /\ clock' = clock + 1 => R!Cutoff' \in Nat /\ R!Cutoff' >= R!Cutoff
<1>1. Retained \in Nat
  BY DEF R!ConstantsAssumption
<1>2. R!Cutoff \in Nat
  BY <1>1 DEF R!Cutoff
<1>3. ASSUME clock' = clock + 1 PROVE R!Cutoff' \in Nat /\ R!Cutoff' >= R!Cutoff
  BY <1>1, <1>3 DEF R!Cutoff
<1>4. clock' = clock => R!Cutoff' = R!Cutoff
  BY DEF R!Cutoff
<1> QED BY <1>2, <1>3, <1>4

LEMMA TablesAreSound == R!ConstantsAssumption /\ TableInv =>
                            R!TypeOK /\ R!BoundaryHolds /\ R!TablesBounded
<1> SUFFICES ASSUME R!ConstantsAssumption, TableInv PROVE R!TypeOK /\ R!BoundaryHolds
  BY DEF TableInv
<1>1. R!TypeOK
  BY DEF R!TypeOK, TableInv, TableType
<1>2. clock \in Nat /\ evicted \in Nat /\ R!Cutoff \in Nat
  BY CutoffIs DEF TableInv, TableType, R!ConstantsAssumption
<1>3. R!Since >= evicted /\ R!Since >= R!Cutoff
  <2>1. evicted >= R!Cutoff \/ R!Cutoff >= evicted
    BY <1>2
  <2>2. \E x \in {evicted, R!Cutoff} : \A y \in {evicted, R!Cutoff} : x >= y
    BY <1>2, <2>1
  <2> QED BY <1>2, <2>2 DEF R!Since, R!Max
<1>4. ASSUME ~behind, NEW i \in Missing PROVE known[i].to < R!Since \/ known[i].to = evicted
  <2>1. Gone(i) /\ known[i].to \in Nat
    BY <1>4 DEF TableInv, TableType, Missing, R!ConstantsAssumption
  <2>2. R!Since \in {evicted, R!Cutoff}
    <3>1. evicted >= R!Cutoff \/ R!Cutoff >= evicted
      BY <1>2
    <3>2. \E x \in {evicted, R!Cutoff} : \A y \in {evicted, R!Cutoff} : x >= y
      BY <1>2, <3>1
    <3> QED BY <3>2 DEF R!Since, R!Max
  <2> QED BY <1>2, <1>3, <2>1, <2>2 DEF Gone
<1> QED BY <1>1, <1>4 DEF R!BoundaryHolds, Missing

LEMMA TablesStart == R!ConstantsAssumption /\ R!Init => TableInv
<1> SUFFICES ASSUME R!ConstantsAssumption, R!Init PROVE TableInv
  OBVIOUS
<1>1. DOMAIN known = {} /\ DOMAIN records = {} /\ chosen = {} /\ events = <<>>
  BY DEF R!Init
<1>2. Chosen
  BY <1>1 DEF Chosen
<1>4. TableType
  <2>1. <<>> \in Seq(Nat)
    OBVIOUS
  <2>2. /\ clock = 0 /\ evicted = 0 /\ pass = 0 /\ back = "idle" /\ behind = FALSE
        /\ 0 \in 0..TableTime /\ 0 \in 0..Passes
    BY DEF R!Init, R!ConstantsAssumption
  <2> QED BY <1>1, <2>1, <2>2 DEF TableType
<1>3. R!TablesBounded
  BY <1>1 DEF R!Init, R!ConstantsAssumption, R!TablesBounded, R!Count
<1> QED BY <1>1, <1>2, <1>3, <1>4 DEF TableInv, Missing

\* What leaves the records alone keeps what was said of them.
LEMMA RecordsStay ==
  ASSUME R!ConstantsAssumption, TableInv, UNCHANGED <<records, known, evicted, behind>>,
         clock' = clock \/ clock' = clock + 1, chosen' \in {{}, chosen},
         step' # "delete" => chosen' = {}
  PROVE  Chosen' /\ (~behind => \A i \in Missing : Gone(i))'
<1>1. Chosen'
  BY DEF TableInv, Chosen
<1>2. clock \in Nat /\ R!Cutoff \in Nat /\ R!Cutoff' \in Nat /\ R!Cutoff' >= R!Cutoff
  <2>1. clock \in Nat
    BY DEF TableInv, TableType, R!ConstantsAssumption
  <2> QED BY <2>1, CutoffIs
<1>3. ASSUME ~behind', NEW i \in Missing' PROVE Gone(i)'
  <2>1. Gone(i) /\ known[i].to \in Nat
    BY <1>3 DEF TableInv, TableType, Missing, R!ConstantsAssumption
  <2> QED BY <1>2, <2>1 DEF Gone
<1> QED BY <1>1, <1>3

\* The steps that touch the events only, or nothing.
LEMMA OthersHold ==
  ASSUME R!ConstantsAssumption, TableInv,
         \/ R!Begin \/ R!Maintain \/ R!Fits \/ R!Trim \/ R!NoRoom \/ R!Stop \/ R!Tick
         \/ UNCHANGED R!vars
  PROVE  TableInv'
<1>1. /\ UNCHANGED <<records, known, evicted, behind>>
      /\ clock' = clock \/ clock' = clock + 1
      /\ chosen' \in {{}, chosen}
      /\ step' # "delete" => chosen' = {}
  BY DEF R!Begin, R!Maintain, R!Fits, R!Trim, R!NoRoom, R!Stop, R!Tick, R!vars, TableInv, Chosen
<1>2. /\ clock' \in 0..TableTime /\ pass' \in 0..Passes /\ back' \in {"idle", "before", "after"}
      /\ events' \in {events, R!Trimmed(events)}
  BY DEF R!Begin, R!Maintain, R!Fits, R!Trim, R!NoRoom, R!Stop, R!Tick, R!vars, TableInv, TableType,
         R!ConstantsAssumption
<1>3. /\ events \in Seq(Nat) /\ R!Trimmed(events) \in Seq(Nat)
      /\ Len(R!Trimmed(events)) <= Len(events)
  BY TrimmedIs DEF TableInv, TableType
<1>4. TableType'
  <2>1. events' \in Seq(Nat)
    BY <1>2, <1>3
  <2>2. chosen' \subseteq DOMAIN records
    <3>1. chosen \subseteq DOMAIN records
      BY DEF TableInv, TableType
    <3> QED BY <1>1, <3>1
  <2> QED BY <1>1, <1>2, <2>1, <2>2 DEF TableInv, TableType
<1>5. R!TablesBounded'
  <2>1. Len(events') <= Len(events) /\ Len(events') \in Nat /\ Len(events) \in Nat
    BY <1>2, <1>3
  <2>2. step' = "insert" => step = "insert" \/ Len(events) <= EventCap
    BY DEF R!Begin, R!Maintain, R!Fits, R!Trim, R!NoRoom, R!Stop, R!Tick, R!vars, R!Count
  <2> QED BY <2>1, <2>2 DEF TableInv, R!TablesBounded, R!Count, R!ConstantsAssumption
<1>6. Chosen' /\ (~behind => \A i \in Missing : Gone(i))'
  BY <1>1, RecordsStay
<1> QED BY <1>4, <1>5, <1>6 DEF TableInv

LEMMA InsertHolds ==
  ASSUME R!ConstantsAssumption, TableInv, NEW n \in 0..MaxBatch, NEW i \in Ident,
         NEW interval \in R!Interval, R!Insert(n, i, interval)
  PROVE  TableInv'
<1>1. /\ step = "insert" /\ step' = "after" /\ UNCHANGED <<clock, evicted, back, pass, chosen>>
      /\ interval.to \in 0..TableTime
      /\ i \in DOMAIN known => interval.to >= known[i].to
      /\ events' = events \o [k \in 1..n |-> clock]
      /\ behind' = (behind \/ interval.to < evicted)
  BY DEF R!Insert, R!Interval
<1>2. /\ DOMAIN records' = DOMAIN records \cup {i} /\ DOMAIN known' = DOMAIN known \cup {i}
      /\ \A j \in DOMAIN records' : records'[j] = IF j = i THEN interval ELSE records[j]
      /\ \A j \in DOMAIN known' : known'[j] = IF j = i THEN interval ELSE known[j]
  BY DEF R!Insert
<1>3. /\ events' \in Seq(Nat) /\ Len(events') = Len(events) + n
      /\ Len(events) \in Nat /\ n \in Nat /\ clock \in Nat
  <2>1. events \in Seq(Nat) /\ clock \in Nat /\ n \in Nat
    BY DEF TableInv, TableType, R!ConstantsAssumption
  <2> DEFINE new == [k \in 1..n |-> clock]
  <2>2. new \in Seq(Nat) /\ Len(new) = n
    BY <2>1
  <2>3. events' = events \o new
    BY <1>1
  <2>4. \A q, r \in Seq(Nat) : q \o r \in Seq(Nat) /\ Len(q \o r) = Len(q) + Len(r)
    OBVIOUS
  <2> HIDE DEF new
  <2>5. events' \in Seq(Nat) /\ Len(events') = Len(events) + n
    BY <2>1, <2>2, <2>3, <2>4
  <2>6. Len(events) \in Nat
    BY <2>1
  <2> QED BY <2>1, <2>5, <2>6
<1>4. TableType'
  <2>1. /\ \A j \in DOMAIN known' : known'[j].to \in 0..TableTime
        /\ \A j \in DOMAIN records' : records'[j] = known'[j]
    BY <1>1, <1>2 DEF TableInv, TableType
  <2> QED BY <1>1, <1>2, <1>3, <2>1 DEF TableInv, TableType
<1>5. chosen' = {}
  BY <1>1 DEF TableInv, Chosen
<1>6. R!TablesBounded'
  BY <1>1, <1>3 DEF TableInv, R!TablesBounded, R!Count, R!ConstantsAssumption
<1>7. ASSUME ~behind', NEW j \in Missing' PROVE Gone(j)'
  <2>1. ~behind /\ interval.to >= evicted /\ evicted \in Nat /\ interval.to \in Nat
    <3>1. ~behind /\ ~(interval.to < evicted)
      BY <1>1, <1>7
    <3>2. evicted \in Nat /\ interval.to \in Nat
      BY <1>1 DEF TableInv, TableType, R!ConstantsAssumption
    <3> QED BY <3>1, <3>2
  <2>2. j # i /\ j \in Missing /\ known'[j] = known[j] /\ known[j].to \in Nat
    BY <1>2, <1>7 DEF Missing, TableInv, TableType, R!ConstantsAssumption
  <2>3. Gone(j)
    BY <2>1, <2>2 DEF TableInv
  <2>4. CASE known[j].to < R!Cutoff
    <3>1. R!Cutoff' = R!Cutoff
      BY <1>1 DEF R!Cutoff
    <3> QED BY <2>2, <2>4, <3>1 DEF Gone
  <2>5. CASE known[j].to <= evicted /\ \A k \in DOMAIN records : known[j].to <= known[k].to
    <3>1. ASSUME NEW k \in DOMAIN records' PROVE known'[j].to <= known'[k].to
      <4>1. CASE k = i
        <5>1. known'[k].to = interval.to
          BY <1>2, <4>1
        <5> QED BY <2>1, <2>2, <2>5, <5>1
      <4>2. CASE k # i
        <5>1. k \in DOMAIN records /\ k \in DOMAIN known'
          BY <1>2, <4>2 DEF TableInv, TableType
        <5> QED BY <1>2, <2>2, <2>5, <4>2, <5>1
      <4> QED BY <4>1, <4>2
    <3> QED BY <1>1, <2>2, <2>5, <3>1 DEF Gone
  <2> QED BY <2>3, <2>4, <2>5 DEF Gone
<1> QED BY <1>1, <1>4, <1>5, <1>6, <1>7 DEF TableInv, Chosen

\* Records go, and what was said of the others and of those that had gone stays true.
LEMMA RecordsGo ==
  ASSUME R!ConstantsAssumption, TableInv, NEW T, T \subseteq DOMAIN records,
         records' = R!Without(records, T), chosen' = {}, step' # "insert", step' # "delete",
         UNCHANGED <<clock, events, evicted, known, behind>>,
         pass' \in 0..Passes, back' \in {"idle", "before", "after"},
         \A i \in T : \/ known[i].to < R!Cutoff
                      \/ /\ known[i].to <= evicted
                         /\ \A j \in DOMAIN records \ T : known[i].to <= known[j].to
  PROVE  TableInv'
<1>1. /\ DOMAIN records' = DOMAIN records \ T
      /\ \A i \in DOMAIN records' : records'[i] = records[i]
  BY DEF R!Without
<1>2. TableType' /\ Chosen'
  BY <1>1 DEF TableInv, TableType, Chosen
<1>3. R!TablesBounded'
  BY DEF TableInv, R!TablesBounded, R!Count
<1>4. R!Cutoff' = R!Cutoff
  BY DEF R!Cutoff
<1>5. ASSUME ~behind', NEW i \in Missing' PROVE Gone(i)'
  <2>1. CASE i \in T
    BY <1>1, <1>4, <2>1 DEF Gone
  <2>2. CASE i \notin T
    <3>1. i \in Missing
      BY <1>1, <1>5, <2>2 DEF Missing
    <3>2. Gone(i)
      BY <1>5, <3>1 DEF TableInv
    <3> QED BY <1>1, <1>4, <3>2 DEF Gone
  <2> QED BY <2>1, <2>2
<1> QED BY <1>2, <1>3, <1>5 DEF TableInv

LEMMA MarkHolds ==
  ASSUME R!ConstantsAssumption, TableInv, NEW T, R!Mark(T)
  PROVE  TableInv'
<1>1. /\ step = "mark" /\ step' = "delete" /\ chosen' = T
      /\ T \in R!Oldest(DOMAIN records, R!Min({R!Excess, Pass}))
      /\ R!Cardinality(DOMAIN records) > Cap
      /\ evicted' = R!Max({records[i].to : i \in T})
      /\ UNCHANGED <<clock, events, records, back, pass, known, behind>>
  BY DEF R!Mark
<1>2. /\ T \subseteq DOMAIN records
      /\ R!Cardinality(T) = R!Min({R!Min({R!Excess, Pass}), R!Cardinality(DOMAIN records)})
      /\ \A i \in T, j \in DOMAIN records \ T : records[i].to <= records[j].to
  BY <1>1 DEF R!Oldest
<1>3. /\ DOMAIN records \subseteq DOMAIN known
      /\ \A i \in DOMAIN records : records[i] = known[i] /\ known[i].to \in 0..TableTime
      /\ TableTime \in Nat
  BY DEF TableInv, TableType, R!ConstantsAssumption
<1>4. T # {}
  <2>1. ASSUME NEW x \in Nat, NEW y \in Nat PROVE R!Min({x, y}) \in {x, y}
    <3>1. x <= y \/ y <= x
      BY <2>1
    <3>2. \E m \in {x, y} : \A n \in {x, y} : m <= n
      BY <3>1
    <3> QED BY <3>2 DEF R!Min
  <2>2. R!Cardinality(DOMAIN records) \in Nat
    <3>1. IsFiniteSet(Ident) /\ DOMAIN records \subseteq Ident
      BY DEF R!ConstantsAssumption, R!IsFiniteSet, IsFiniteSet, TableInv, TableType
    <3> QED BY <3>1, FS_Subset, FS_CardinalityType, SizeIs
  <2>3. R!Excess \in Nat \ {0} /\ Pass \in Nat \ {0} /\ R!Cardinality(DOMAIN records) # 0
    BY <1>1, <2>2 DEF R!Excess, R!ConstantsAssumption
  <2>4. R!Min({R!Excess, Pass}) \in Nat \ {0}
    BY <2>1, <2>3
  <2>5. R!Cardinality(T) # 0
    BY <1>2, <2>1, <2>2, <2>3, <2>4
  <2>6. Cardinality({}) = 0
    BY FS_EmptySet
  <2> QED BY <2>5, <2>6, SizeIs
<1> DEFINE ends == {records[i].to : i \in T}
<1>5. evicted' \in ends /\ \A y \in ends : y <= evicted'
  <2>1. ends \subseteq Nat /\ ends # {} /\ \A x \in ends : x <= TableTime
    BY <1>2, <1>3, <1>4
  <2>2. PICK E : E = ends
    OBVIOUS
  <2> HIDE DEF ends
  <2>3. R!Max(E) \in E /\ \A y \in E : y <= R!Max(E)
    BY <1>3, <2>1, <2>2, MaxIs
  <2> QED BY <1>1, <2>2, <2>3 DEF ends
<1>6. evicted' \in 0..TableTime /\ \A i \in T : known[i].to <= evicted'
  BY <1>2, <1>3, <1>5
<1>7. TableType'
  BY <1>1, <1>2, <1>6 DEF TableInv, TableType
<1>8. Chosen'
  <2>1. \A i \in T, j \in DOMAIN records \ T : known[i].to <= known[j].to
    BY <1>2, <1>3
  <2> QED BY <1>1, <1>6, <2>1 DEF Chosen
<1>9. R!TablesBounded'
  BY <1>1 DEF TableInv, R!TablesBounded, R!Count
<1>10. ASSUME ~behind', NEW i \in Missing' PROVE Gone(i)'
  <2>1. i \in Missing /\ Gone(i) /\ known[i].to \in Nat
    BY <1>1, <1>3, <1>10 DEF TableInv, TableType, Missing
  <2>2. CASE known[i].to < R!Cutoff
    <3>1. R!Cutoff' = R!Cutoff
      BY <1>1 DEF R!Cutoff
    <3> QED BY <1>1, <2>2, <3>1 DEF Gone
  <2>3. CASE \A j \in DOMAIN records : known[i].to <= known[j].to
    <3>1. PICK j \in T : evicted' = known[j].to
      BY <1>2, <1>3, <1>5
    <3>2. known[i].to <= evicted'
      BY <1>2, <2>3, <3>1
    <3> QED BY <1>1, <2>3, <3>2 DEF Gone
  <2> QED BY <2>1, <2>2, <2>3 DEF Gone
<1> QED BY <1>7, <1>8, <1>9, <1>10 DEF TableInv

LEMMA TablesStep ==
  R!ConstantsAssumption /\ TableInv /\ [R!Next]_R!vars => TableInv'
<1> SUFFICES ASSUME R!ConstantsAssumption, TableInv, [R!Next]_R!vars PROVE TableInv'
  OBVIOUS
<1>1. \A i \in DOMAIN records : records[i] = known[i]
  BY DEF TableInv, TableType
<1>2. ASSUME R!Expire PROVE TableInv'
  <2>1. PICK T \in R!Oldest({i \in DOMAIN records : records[i].to < R!Cutoff}, Pass) :
            records' = R!Without(records, T)
    BY <1>2 DEF R!Expire
  <2>2. T \subseteq DOMAIN records /\ \A i \in T : known[i].to < R!Cutoff
    BY <1>1 DEF R!Oldest
  <2>3. /\ step = "expire" /\ step' = "mark"
        /\ UNCHANGED <<clock, events, evicted, back, pass, chosen, known, behind>>
    BY <1>2 DEF R!Expire
  <2>4. chosen' = {} /\ pass' \in 0..Passes /\ back' \in {"idle", "before", "after"}
    BY <2>3 DEF TableInv, TableType, Chosen
  <2> QED BY <2>1, <2>2, <2>3, <2>4, RecordsGo
<1>3. ASSUME R!Delete PROVE TableInv'
  <2>1. /\ records' = R!Without(records, chosen) /\ chosen' = {} /\ step' = back
        /\ UNCHANGED <<clock, events, evicted, back, pass, known, behind>>
    BY <1>3 DEF R!Delete
  <2>2. /\ chosen \subseteq DOMAIN records /\ pass' \in 0..Passes
        /\ back' \in {"idle", "before", "after"} /\ step' # "insert" /\ step' # "delete"
    BY <2>1 DEF TableInv, TableType
  <2>3. \A i \in chosen : /\ known[i].to <= evicted
                          /\ \A j \in DOMAIN records \ chosen : known[i].to <= known[j].to
    BY DEF TableInv, Chosen
  <2> QED BY <2>1, <2>2, <2>3, RecordsGo
<1>4. ASSUME NEW n \in 0..MaxBatch, NEW i \in Ident, NEW interval \in R!Interval,
             R!Insert(n, i, interval)
      PROVE  TableInv'
  BY <1>4, InsertHolds
<1>5. ASSUME NEW T, R!Mark(T) PROVE TableInv'
  BY <1>5, MarkHolds
<1>6. CASE \/ R!Begin \/ R!Maintain \/ R!Fits \/ R!Trim \/ R!NoRoom \/ R!Stop \/ R!Tick
           \/ UNCHANGED R!vars
  BY <1>6, OthersHold
<1> QED BY <1>2, <1>3, <1>4, <1>5, <1>6 DEF R!Next

\* A window of the history that calls itself complete misses nothing that was recorded and
\* reaches into it, and the tables exceed their bounds by one batch at most, wherever the writer
\* is interrupted: for any caps, batches and records, unless a record was written that had ended
\* before the watermark (retention.rs, query_write.rs, query_read.rs).
THEOREM BoundaryIsHonest ==
  ASSUME R!ConstantsAssumption
  PROVE  SuiteSpec => []RetentionHolds
<1> DEFINE Sound == part = "retention" => TableInv
<1>1. SuiteInit => Sound
  BY TablesStart DEF SuiteInit
<1>2. Sound /\ [SuiteNext]_suiteVars => Sound'
  <2> SUFFICES ASSUME Sound, [SuiteNext]_suiteVars PROVE Sound'
    OBVIOUS
  <2>1. part' = part
    BY DEF SuiteNext, suiteVars
  <2>2. part = "retention" => [R!Next]_R!vars
    BY DEF SuiteNext, suiteVars, otherVars, retentionVars, R!vars
  <2> QED BY <2>1, <2>2, TablesStep
<1>3. Sound => RetentionHolds
  BY TablesAreSound DEF RetentionHolds
<1> QED BY <1>1, <1>2, <1>3, PTL DEF SuiteSpec, suiteVars

-----------------------------------------------------------------------------
(* Pages: a list that is walked while it changes.  Its rows are ordered by *)
(* their places, and an answer holds those of the next ranks.              *)

PlaceSet == (0..1) \X Ident

LEMMA SizeOf == \A T : P!Cardinality(T) = Cardinality(T)
  BY DEF P!Cardinality, Cardinality

\* Places are listed in a strict order, one way or the other.
LEMMA PlacesOrdered ==
  ASSUME P!ConstantsAssumption, NEW k,
         NEW p \in PlaceSet, NEW q \in PlaceSet, NEW r \in PlaceSet
  PROVE  /\ ~P!Ahead(k, p, p)
         /\ P!Ahead(k, p, q) => ~P!Ahead(k, q, p)
         /\ P!Ahead(k, p, q) /\ P!Ahead(k, q, r) => P!Ahead(k, p, r)
         /\ p # q => P!Ahead(k, p, q) \/ P!Ahead(k, q, p)
<1>0. \A x \in PlaceSet : x[1] \in Nat /\ x[2] \in Nat /\ x = <<x[1], x[2]>>
  <2>1. Ident \subseteq Nat
    BY DEF P!ConstantsAssumption
  <2>2. ASSUME NEW x \in PlaceSet
        PROVE  x[1] \in Nat /\ x[2] \in Nat /\ x = <<x[1], x[2]>>
    <3>1. PICK a \in 0..1, b \in Ident : x = <<a, b>>
      BY DEF PlaceSet
    <3> QED BY <2>1, <3>1
  <2> QED BY <2>2
<1>1. /\ p[1] \in Nat /\ p[2] \in Nat /\ p = <<p[1], p[2]>>
      /\ q[1] \in Nat /\ q[2] \in Nat /\ q = <<q[1], q[2]>>
      /\ r[1] \in Nat /\ r[2] \in Nat /\ r = <<r[1], r[2]>>
  BY <1>0
<1>2. p # q => p[1] # q[1] \/ p[2] # q[2]
  BY <1>1
<1> QED BY <1>1, <1>2 DEF P!Ahead, P!Less

\* How many of them are listed before one.
RankIn(k, S, p) == P!Cardinality({q \in S : P!Ahead(k, q, p)})

LEMMA RankIs ==
  ASSUME P!ConstantsAssumption, NEW k, NEW S \in SUBSET PlaceSet, IsFiniteSet(S),
         NEW p \in S, NEW q \in S
  PROVE  /\ RankIn(k, S, p) \in 0 .. Cardinality(S) - 1
         /\ P!Ahead(k, p, q) => RankIn(k, S, p) < RankIn(k, S, q)
         /\ RankIn(k, S, p) = RankIn(k, S, q) => p = q
<1> DEFINE front(x) == {y \in S : P!Ahead(k, y, x)}
<1>1. ASSUME NEW x \in S
      PROVE  /\ IsFiniteSet(front(x)) /\ Cardinality(front(x)) \in Nat
             /\ Cardinality(front(x)) < Cardinality(S)
  <2>1. front(x) \in SUBSET S /\ x \notin front(x)
    BY PlacesOrdered
  <2>2. IsFiniteSet(front(x)) /\ Cardinality(front(x)) <= Cardinality(S)
        /\ Cardinality(front(x)) # Cardinality(S)
    BY <2>1, FS_Subset
  <2>3. Cardinality(front(x)) \in Nat /\ Cardinality(S) \in Nat
    BY <2>2, FS_CardinalityType
  <2> QED BY <2>2, <2>3
<1>2. ASSUME NEW x \in S, NEW y \in S, P!Ahead(k, x, y)
      PROVE  Cardinality(front(x)) < Cardinality(front(y))
  <2>1. front(x) \subseteq front(y)
    BY <1>2, PlacesOrdered
  <2>2. x \in front(y) /\ x \notin front(x)
    BY <1>2, PlacesOrdered
  <2>3. Cardinality(front(x)) <= Cardinality(front(y))
        /\ Cardinality(front(x)) # Cardinality(front(y))
    <3>1. IsFiniteSet(front(y)) /\ front(x) \in SUBSET front(y) /\ front(x) # front(y)
      BY <1>1, <2>1, <2>2
    <3> HIDE DEF front
    <3> QED BY <3>1, FS_Subset
  <2>4. Cardinality(front(x)) \in Nat /\ Cardinality(front(y)) \in Nat
    BY <1>1
  <2> HIDE DEF front
  <2> QED BY <2>3, <2>4
<1>3. RankIn(k, S, p) = Cardinality(front(p)) /\ RankIn(k, S, q) = Cardinality(front(q))
  BY SizeOf DEF RankIn
<1>4. Cardinality(S) \in Nat
  BY FS_CardinalityType
<1> HIDE DEF front
<1>5. ASSUME RankIn(k, S, p) = RankIn(k, S, q) PROVE p = q
  <2>1. Cardinality(front(p)) \in Nat /\ Cardinality(front(q)) \in Nat
    BY <1>1
  <2>2. ~P!Ahead(k, p, q) /\ ~P!Ahead(k, q, p)
    <3>1. P!Ahead(k, p, q) => Cardinality(front(p)) < Cardinality(front(q))
      BY <1>2
    <3>2. P!Ahead(k, q, p) => Cardinality(front(q)) < Cardinality(front(p))
      BY <1>2
    <3> QED BY <1>3, <1>5, <2>1, <3>1, <3>2
  <2> QED BY <2>2, PlacesOrdered
<1> QED BY <1>1, <1>2, <1>3, <1>4, <1>5

\* What is listed in order holds each once, and where it belongs.
LEMMA InOrderIs ==
  ASSUME P!ConstantsAssumption, NEW k, NEW S \in SUBSET PlaceSet, IsFiniteSet(S)
  PROVE  /\ P!InOrder(k, S) \in [1 .. Cardinality(S) -> S]
         /\ P!InOrder(k, S) \in Seq(S) /\ Len(P!InOrder(k, S)) = Cardinality(S)
         /\ Cardinality(S) \in Nat
         /\ \A n \in 1 .. Cardinality(S) : RankIn(k, S, P!InOrder(k, S)[n]) = n - 1
         /\ \A p \in S : \E n \in 1 .. Cardinality(S) : P!InOrder(k, S)[n] = p
<1> DEFINE N == Cardinality(S)
<1>0. N \in Nat
  BY FS_CardinalityType
<1>1. ASSUME NEW n \in 1 .. N
      PROVE  \E p \in S : RankIn(k, S, p) = n - 1
  <2> SUFFICES ASSUME \A p \in S : RankIn(k, S, p) # n - 1
               PROVE  FALSE
    OBVIOUS
  <2> DEFINE T == (0 .. N - 1) \ {n - 1}
             f == [p \in S |-> RankIn(k, S, p)]
           all == 0 .. N - 1
  <2>1. IsFiniteSet(all) /\ Cardinality(all) = N
    <3>1. PICK a \in Int, b \in Int : a = 0 /\ b = N - 1 /\ a <= b + 1 /\ b - a + 1 = N
      BY <1>0
    <3>2. IsFiniteSet(a .. b) /\ Cardinality(a .. b) = IF a > b THEN 0 ELSE b - a + 1
      BY FS_Interval
    <3>3. Cardinality(a .. b) = N
      BY <1>0, <3>1, <3>2
    <3> QED BY <3>1, <3>2, <3>3
  <2>2. IsFiniteSet(T) /\ Cardinality(T) = N - 1
    <3>1. n - 1 \in all
      BY <1>0
    <3> HIDE DEF all
    <3>2. PICK m : m = n - 1
      OBVIOUS
    <3>3. IsFiniteSet(all \ {m}) /\ Cardinality(all \ {m}) = N - 1
      BY <2>1, <3>1, <3>2, FS_RemoveElement
    <3>4. T = all \ {m}
      BY <3>2 DEF all
    <3> QED BY <3>3, <3>4
  <2>3. f \in [S -> T]
    BY RankIs
  <2>4. Cardinality(T) < Cardinality(S)
    BY <1>0, <2>2
  <2> HIDE DEF T, f
  <2>5. PICK x \in S, y \in S : x # y /\ f[x] = f[y]
    BY <2>2, <2>3, <2>4, FS_PigeonHole
  <2>6. RankIn(k, S, x) = RankIn(k, S, y)
    BY <2>5 DEF f
  <2> QED BY <2>5, <2>6, RankIs
<1> DEFINE s == P!InOrder(k, S)
<1>2. s = [n \in 1 .. N |-> CHOOSE p \in S : RankIn(k, S, p) = n - 1]
  <2>1. P!Cardinality(S) = N
    BY SizeOf
  <2> QED BY <2>1 DEF P!InOrder, RankIn
<1>3. ASSUME NEW n \in 1 .. N
      PROVE  s[n] \in S /\ RankIn(k, S, s[n]) = n - 1
  <2>1. s[n] = CHOOSE p \in S : RankIn(k, S, p) = n - 1
    BY <1>2
  <2> QED BY <1>1, <2>1
<1>4. s \in [1 .. N -> S]
  BY <1>2, <1>3
<1> HIDE DEF s
<1>5. s \in Seq(S) /\ Len(s) = N
  BY <1>0, <1>4
<1>6. ASSUME NEW p \in S
      PROVE  \E n \in 1 .. N : s[n] = p
  <2>1. RankIn(k, S, p) \in 0 .. N - 1
    BY RankIs
  <2>2. RankIn(k, S, p) + 1 \in 1 .. N
    BY <1>0, <2>1
  <2>3. RankIn(k, S, s[RankIn(k, S, p) + 1]) = RankIn(k, S, p)
        /\ s[RankIn(k, S, p) + 1] \in S
    BY <1>3, <2>1, <2>2
  <2>4. s[RankIn(k, S, p) + 1] = p
    BY <2>3, RankIs
  <2> QED BY <2>2, <2>4
<1> QED BY <1>0, <1>3, <1>4, <1>5, <1>6 DEF s

\* The rows up to some place come first.
LEMMA FirstAre ==
  ASSUME P!ConstantsAssumption, NEW k, NEW S \in SUBSET PlaceSet, IsFiniteSet(S),
         NEW D \in SUBSET S, NEW d, d = P!Cardinality(D),
         \A p \in D : \A q \in S : P!Ahead(k, q, p) => q \in D
  PROVE  /\ d \in 0 .. Cardinality(S)
         /\ \A p \in S : p \in D <=> RankIn(k, S, p) < d
<1>1. IsFiniteSet(D) /\ Cardinality(D) <= Cardinality(S)
  BY FS_Subset
<1>2. Cardinality(D) \in Nat /\ Cardinality(S) \in Nat /\ d = Cardinality(D)
  BY <1>1, FS_CardinalityType, SizeOf
<1>3. ASSUME NEW p \in S
      PROVE  p \in D <=> RankIn(k, S, p) < d
  <2> DEFINE front == {q \in S : P!Ahead(k, q, p)}
  <2>1. RankIn(k, S, p) = Cardinality(front)
    BY SizeOf DEF RankIn
  <2>2. IsFiniteSet(front) /\ Cardinality(front) \in Nat
    BY FS_Subset, FS_CardinalityType
  <2>3. p \notin front
    BY PlacesOrdered
  <2>4. ASSUME p \in D PROVE Cardinality(front) < d
    <3>0. front \cup {p} \subseteq D
      BY <2>4
    <3> HIDE DEF front
    <3>1. IsFiniteSet(front \cup {p})
      BY <2>2, FS_AddElement
    <3>2. Cardinality(front \cup {p}) = Cardinality(front) + 1
      BY <2>2, <2>3, FS_AddElement
    <3>3. Cardinality(front \cup {p}) <= Cardinality(D)
      BY <1>1, <3>0, FS_Subset
    <3> QED BY <1>2, <2>2, <3>2, <3>3
  <2>5. ASSUME p \notin D PROVE ~(Cardinality(front) < d)
    <3>1. D \subseteq front
      BY <2>5, PlacesOrdered
    <3> HIDE DEF front
    <3>2. Cardinality(D) <= Cardinality(front)
      BY <2>2, <3>1, FS_Subset
    <3> QED BY <1>2, <2>2, <3>2
  <2> QED BY <2>1, <2>4, <2>5
<1> QED BY <1>1, <1>2, <1>3

\* A part of the list holds the rows of its ranks.
Part(s, k, S, a, b) ==
    /\ s \in Seq(S) /\ Len(s) = b - a
    /\ \A m, n \in DOMAIN s : s[m] = s[n] => m = n
    /\ \A p \in S : (\E n \in DOMAIN s : s[n] = p)
                        <=> a <= RankIn(k, S, p) /\ RankIn(k, S, p) < b
    /\ \A n \in DOMAIN s : RankIn(k, S, s[n]) = a + n - 1

LEMMA PartIs ==
  ASSUME P!ConstantsAssumption, NEW k, NEW S \in SUBSET PlaceSet, IsFiniteSet(S),
         NEW a \in Nat, NEW b \in Nat, a <= b, b <= Cardinality(S),
         NEW s, s = SubSeq(P!InOrder(k, S), a + 1, b)
  PROVE  Part(s, k, S, a, b)
<1> DEFINE all == P!InOrder(k, S)
           N == Cardinality(S)
<1>1. /\ all \in Seq(S) /\ Len(all) = N /\ N \in Nat
      /\ \A n \in 1 .. N : all[n] \in S /\ RankIn(k, S, all[n]) = n - 1
      /\ \A p \in S : \E n \in 1 .. N : all[n] = p
  BY InOrderIs
<1> HIDE DEF all, N
<1>2. s \in Seq(S) /\ Len(s) = b - a /\ DOMAIN s = 1 .. b - a
  BY <1>1 DEF all, N
<1>3. \A n \in 1 .. b - a : a + n \in 1 .. N /\ s[n] = all[a + n]
  BY <1>1 DEF all, N
<1>4. ASSUME NEW n \in DOMAIN s  PROVE RankIn(k, S, s[n]) = a + n - 1
  <2>1. PICK m : m = a + n
    OBVIOUS
  <2>2. m \in 1 .. N /\ s[n] = all[m]
    BY <1>2, <1>3, <2>1
  <2>3. RankIn(k, S, all[m]) = m - 1
    BY <1>1, <2>2
  <2> QED  BY <2>1, <2>2, <2>3
<1>5. \A m, n \in DOMAIN s : s[m] = s[n] => m = n
  BY <1>2, <1>4
<1>6. ASSUME NEW p \in S, a <= RankIn(k, S, p), RankIn(k, S, p) < b
      PROVE  \E n \in DOMAIN s : s[n] = p
  <2>1. PICK n \in 1 .. N : all[n] = p
    BY <1>1
  <2>2. RankIn(k, S, p) = n - 1
    BY <1>1, <2>1
  <2>3. n - a \in 1 .. b - a /\ a + (n - a) = n
    BY <1>6, <2>2
  <2>4. s[n - a] = p
    BY <1>3, <2>1, <2>3
  <2> QED BY <1>2, <2>3, <2>4
<1>7. ASSUME NEW p \in S, NEW n \in DOMAIN s, s[n] = p
      PROVE  a <= RankIn(k, S, p) /\ RankIn(k, S, p) < b
  BY <1>2, <1>4, <1>7
<1> QED BY <1>2, <1>4, <1>5, <1>6, <1>7 DEF Part

-----------------------------------------------------------------------------
(* The walk: what was shown, and what is still ahead of its cursor.        *)

Place(i) == P!Key(kind, i, rows[i], clock)

\* Of two places, the one that the walk comes to first.
Before(p, q) == IF forward THEN P!Ahead(kind, p, q) ELSE P!Ahead(kind, q, p)
Reached(p) == p = cursor.key \/ Before(p, cursor.key)

Never(s, i) == \A n \in DOMAIN s : s[n] # i
Once(s, i) == \E n \in DOMAIN s : \A m \in DOMAIN s : s[m] = i <=> m = n

WalkType ==
    /\ kind \in P!View \cup P!Stored
    /\ forward \in BOOLEAN
    /\ rows \in P!Lists
    /\ clock \in Nat /\ changes \in Nat
    /\ cursor \in [key : PlaceSet, filter : P!Filter, revision : Nat] \cup {None}
    /\ back \in [key : PlaceSet, filter : P!Filter, revision : Nat] \cup {None}
    /\ got \in Seq(Ident)
    /\ asked \subseteq P!Filter
    /\ due \subseteq DOMAIN rows
    /\ phase \in {"walking", "over", "refused"}

\* Where a walk begins and ends, and the filter it is of.
Begun ==
    /\ kind \in P!Stored => forward /\ back = None
    /\ asked = {} => got = <<>> /\ due = {}
    /\ phase = "walking" => (cursor = None <=> asked = {} /\ forward)
    /\ phase = "over" => cursor = None
    /\ kind \in P!Bound => \E f \in P!Filter : /\ asked \subseteq {f}
                                               /\ cursor # None /\ asked # {} => cursor.filter = f

\* What is due was shown once when the walk has come past its place, and not before.
Shown ==
    /\ phase = "walking" /\ asked # {} =>
          \A i \in due : IF Reached(Place(i)) THEN Once(got, i) ELSE Never(got, i)
    /\ phase = "over" => \A i \in due : Once(got, i)

WalkInv == WalkType /\ Begun /\ Shown

\* What is still to come, of what is listed now.
Rest(keys) == {p \in keys : cursor = None \/ Before(cursor.key, p)}

\* One answer continues the walk: its rows come next, each once, and the cursor it gives is the
\* last of them, unless there is nothing after them.
Continues(page, keys) ==
    LET ahead == IF forward THEN page.next ELSE page.previous
        other == IF forward THEN page.previous ELSE page.next
    IN  /\ page.items \in Seq(keys)
        /\ \A m, n \in DOMAIN page.items : page.items[m] = page.items[n] => m = n
        /\ \A n \in DOMAIN page.items : page.items[n] \in Rest(keys)
        /\ ahead \in Rest(keys) \cup {None} /\ other \in keys \cup {None}
        /\ \A p \in Rest(keys) : (\E n \in DOMAIN page.items : page.items[n] = p)
                                    <=> ahead = None \/ p = ahead \/ Before(p, ahead)

CursorOk == cursor = None \/ (cursor # None /\ cursor.key \in PlaceSet)

LEMMA SliceContinues ==
  ASSUME P!ConstantsAssumption, CursorOk, forward \in BOOLEAN, ~forward => cursor # None,
         NEW limit \in Nat \ {0}, NEW keys \in SUBSET PlaceSet, IsFiniteSet(keys),
         NEW page, page = P!Slice(kind, keys, cursor, forward, limit)
  PROVE  Continues(page, keys)
<1> DEFINE N == Cardinality(keys)
           all == P!InOrder(kind, keys)
           rank(p) == RankIn(kind, keys, p)
           D == IF cursor = None THEN {}
                ELSE IF forward THEN P!Passed(kind, keys, cursor)
                ELSE {p \in keys : P!Ahead(kind, p, cursor.key)}
<1>1. PICK d : d = P!Cardinality(D)
  OBVIOUS
<1>2. D \in SUBSET keys /\ \A p \in D : \A q \in keys : P!Ahead(kind, q, p) => q \in D
  <2>1. CASE cursor = None
    BY <2>1
  <2>2. CASE cursor # None /\ forward
    <3>1. D = {p \in keys : p = cursor.key \/ P!Ahead(kind, p, cursor.key)}
      BY <2>2 DEF P!Passed
    <3>2. cursor.key \in PlaceSet
      BY <2>2 DEF CursorOk
    <3> HIDE DEF D
    <3> QED BY <3>1, <3>2, PlacesOrdered
  <2>3. CASE cursor # None /\ ~forward
    <3>1. D = {p \in keys : P!Ahead(kind, p, cursor.key)}
      BY <2>3
    <3>2. cursor.key \in PlaceSet
      BY <2>3 DEF CursorOk
    <3> HIDE DEF D
    <3> QED BY <3>1, <3>2, PlacesOrdered
  <2> QED BY <2>1, <2>2, <2>3
<1>3. d \in 0 .. N /\ \A p \in keys : p \in D <=> rank(p) < d
  <2> HIDE DEF D
  <2> QED BY <1>1, <1>2, FirstAre
<1>4. N \in Nat /\ Len(all) = N
  BY InOrderIs
<1>5. cursor = None => d = 0
  BY <1>1, SizeOf, FS_EmptySet
<1>6. /\ cursor # None /\ forward => d = P!Cardinality(P!Passed(kind, keys, cursor))
      /\ cursor # None /\ ~forward => d = P!Cardinality({p \in keys : P!Ahead(kind, p, cursor.key)})
  BY <1>1
<1>7. \A p \in keys : p \in Rest(keys) <=> IF forward THEN d <= rank(p) ELSE rank(p) < d
  <2> TAKE p \in keys
  <2>0. rank(p) \in Nat /\ d \in Nat
    BY <1>3, RankIs
  <2>1. CASE cursor = None
    BY <1>5, <2>0, <2>1 DEF Rest
  <2>2. CASE cursor # None /\ forward
    <3>1. cursor.key \in PlaceSet /\ p \in PlaceSet
      BY <2>2 DEF CursorOk
    <3>2. p \in D <=> p = cursor.key \/ P!Ahead(kind, p, cursor.key)
      BY <2>2 DEF P!Passed
    <3>3. p \in Rest(keys) <=> P!Ahead(kind, cursor.key, p)
      BY <2>2 DEF Rest, Before
    <3>4. P!Ahead(kind, cursor.key, p) <=> p \notin D
      <4> HIDE DEF D
      <4> QED BY <3>1, <3>2, PlacesOrdered
    <3> HIDE DEF D, rank
    <3> QED BY <1>3, <2>0, <2>2, <3>3, <3>4
  <2>3. CASE cursor # None /\ ~forward
    <3>1. p \in D <=> P!Ahead(kind, p, cursor.key)
      BY <2>3
    <3>2. p \in Rest(keys) <=> P!Ahead(kind, p, cursor.key)
      BY <2>3 DEF Rest, Before
    <3> HIDE DEF D, rank
    <3> QED BY <1>3, <2>3, <3>1, <3>2
  <2> QED BY <2>1, <2>2, <2>3
<1> HIDE DEF D
<1>8. ASSUME NEW a \in Nat, NEW b \in Nat, a <= b, b <= N,
             page.items = SubSeq(all, a + 1, b)
      PROVE  /\ page.items \in Seq(keys) /\ Len(page.items) = b - a
             /\ DOMAIN page.items = 1 .. b - a
             /\ \A m, n \in DOMAIN page.items : page.items[m] = page.items[n] => m = n
             /\ \A p \in keys : (\E n \in DOMAIN page.items : page.items[n] = p)
                                    <=> a <= rank(p) /\ rank(p) < b
             /\ \A n \in DOMAIN page.items : page.items[n] \in keys /\ rank(page.items[n]) = a + n - 1
  <2>1. PICK s : s = page.items
    OBVIOUS
  <2>2. s = SubSeq(P!InOrder(kind, keys), a + 1, b) /\ b <= Cardinality(keys) /\ a <= b
    BY <1>8, <2>1
  <2> HIDE DEF N, all
  <2>3. Part(s, kind, keys, a, b)
    BY <2>2, PartIs
  <2>4. DOMAIN s = 1 .. b - a /\ \A n \in DOMAIN s : s[n] \in keys
    BY <2>3 DEF Part
  <2> QED BY <2>1, <2>3, <2>4 DEF Part
<1>9. \A p, q \in keys : (p = q \/ P!Ahead(kind, p, q)) <=> rank(p) <= rank(q)
  <2> TAKE p, q \in keys
  <2>1. rank(p) \in Nat /\ rank(q) \in Nat
    BY RankIs
  <2>2. P!Ahead(kind, p, q) => rank(p) < rank(q)
    BY RankIs
  <2>3. P!Ahead(kind, q, p) => rank(q) < rank(p)
    BY RankIs
  <2>4. p = q \/ P!Ahead(kind, p, q) \/ P!Ahead(kind, q, p)
    BY PlacesOrdered
  <2> HIDE DEF rank
  <2> QED BY <2>1, <2>2, <2>3, <2>4
<1>10. None \notin keys
  BY DEF P!ConstantsAssumption, PlaceSet
<1>11. CASE forward
  <2> DEFINE b == IF d + limit < N THEN d + limit ELSE N
  <2>1. /\ page.items = SubSeq(all, d + 1, b)
        /\ page.next = IF b < N /\ page.items # <<>> THEN page.items[Len(page.items)] ELSE None
        /\ page.previous \in {Head(page.items), None}
        /\ page.previous # None => page.items # <<>>
    BY <1>4, <1>5, <1>6, <1>11, SizeOf DEF P!Slice, P!Last
  <2>2. b \in Nat /\ d \in Nat /\ d <= b /\ b <= N /\ (b < N => d < b)
    BY <1>3, <1>4
  <2>3. /\ page.items \in Seq(keys) /\ Len(page.items) = b - d
        /\ DOMAIN page.items = 1 .. b - d
        /\ \A m, n \in DOMAIN page.items : page.items[m] = page.items[n] => m = n
        /\ \A p \in keys : (\E n \in DOMAIN page.items : page.items[n] = p)
                               <=> d <= rank(p) /\ rank(p) < b
        /\ \A n \in DOMAIN page.items : page.items[n] \in keys /\ rank(page.items[n]) = d + n - 1
    <3> HIDE DEF all, rank, b
    <3> QED BY <1>8, <2>1, <2>2
  <2> HIDE DEF all, rank, b
  <2>4. page.items # <<>> <=> d < b
    BY <2>2, <2>3
  <2>5. page.previous \in keys \cup {None}
    <3>1. ASSUME d < b PROVE Head(page.items) \in keys
      BY <2>2, <2>3, <2>4, <3>1
    <3> QED BY <2>1, <2>4, <3>1
  <2>6. CASE b < N
    <3>1. page.next = page.items[b - d] /\ b - d \in DOMAIN page.items
      <4>1. page.next = page.items[Len(page.items)]
        BY <2>1, <2>2, <2>4, <2>6
      <4>2. Len(page.items) = b - d /\ b - d \in DOMAIN page.items
        BY <2>2, <2>3, <2>6
      <4> QED BY <4>1, <4>2
    <3>2. page.next \in keys /\ rank(page.next) = b - 1
      BY <2>2, <2>3, <3>1
    <3>3. \A p \in keys : (p = page.next \/ Before(p, page.next)) <=> rank(p) <= b - 1
      BY <1>9, <1>11, <3>2 DEF Before
    <3>4. \A p \in keys : rank(p) \in Nat
      BY RankIs DEF rank
    <3>5. \A p \in Rest(keys) : p \in keys /\ d <= rank(p)
      BY <1>7, <1>11 DEF Rest
    <3>6. \A n \in DOMAIN page.items : page.items[n] \in Rest(keys)
      BY <1>7, <1>11, <2>2, <2>3
    <3>7. \A p \in Rest(keys) : (\E n \in DOMAIN page.items : page.items[n] = p)
                                  <=> page.next = None \/ p = page.next \/ Before(p, page.next)
      <4>1. page.next # None
        BY <1>10, <3>2
      <4>2. \A p \in Rest(keys) : (\E n \in DOMAIN page.items : page.items[n] = p)
                                    <=> rank(p) <= b - 1
        BY <2>2, <2>3, <3>4, <3>5
      <4> QED BY <3>3, <3>5, <4>1, <4>2
    <3>8. page.next \in Rest(keys)
      BY <3>1, <3>6
    <3> QED BY <1>11, <2>3, <2>5, <3>6, <3>7, <3>8 DEF Continues
  <2>7. CASE ~(b < N)
    <3>1. page.next = None
      BY <2>1, <2>7
    <3>2. \A p \in keys : rank(p) \in Nat /\ rank(p) < N
      BY <1>4, RankIs DEF rank
    <3>3. \A p \in Rest(keys) : p \in keys /\ d <= rank(p) /\ rank(p) < b
      BY <1>4, <1>7, <1>11, <2>2, <2>7, <3>2 DEF Rest
    <3>4. \A n \in DOMAIN page.items : page.items[n] \in Rest(keys)
      BY <1>7, <1>11, <2>2, <2>3
    <3>5. \A p \in Rest(keys) : \E n \in DOMAIN page.items : page.items[n] = p
      BY <2>3, <3>3
    <3> QED BY <1>11, <2>3, <2>5, <3>1, <3>4, <3>5 DEF Continues
  <2> QED BY <2>6, <2>7
<1>12. CASE ~forward
  <2> DEFINE a == IF d > limit THEN d - limit ELSE 0
  <2>0. cursor # None
    BY <1>12
  <2>1. /\ page.items = SubSeq(all, a + 1, d)
        /\ page.previous = IF a > 0 /\ page.items # <<>> THEN Head(page.items) ELSE None
        /\ page.next \in {page.items[Len(page.items)], None}
        /\ page.next # None => page.items # <<>>
    BY <1>4, <1>6, <1>12, <2>0, SizeOf DEF P!Slice, P!Last
  <2>2. a \in Nat /\ d \in Nat /\ a <= d /\ d <= N /\ (a > 0 => a < d)
    BY <1>3, <1>4
  <2>3. /\ page.items \in Seq(keys) /\ Len(page.items) = d - a
        /\ DOMAIN page.items = 1 .. d - a
        /\ \A m, n \in DOMAIN page.items : page.items[m] = page.items[n] => m = n
        /\ \A p \in keys : (\E n \in DOMAIN page.items : page.items[n] = p)
                               <=> a <= rank(p) /\ rank(p) < d
        /\ \A n \in DOMAIN page.items : page.items[n] \in keys /\ rank(page.items[n]) = a + n - 1
    <3> HIDE DEF all, rank, a
    <3> QED BY <1>8, <2>1, <2>2
  <2> HIDE DEF all, rank, a
  <2>4. page.items # <<>> <=> a < d
    BY <2>2, <2>3
  <2>5. page.next \in keys \cup {None}
    <3>1. ASSUME a < d PROVE page.items[Len(page.items)] \in keys
      BY <2>2, <2>3, <3>1
    <3> QED BY <2>1, <2>4, <3>1
  <2>6. \A p \in keys : rank(p) \in Nat
    BY RankIs DEF rank
  <2>7. \A p \in Rest(keys) : p \in keys /\ rank(p) < d
    BY <1>7, <1>12 DEF Rest
  <2>8. \A n \in DOMAIN page.items : page.items[n] \in Rest(keys)
    BY <1>7, <1>12, <2>2, <2>3
  <2>9. CASE a > 0
    <3>1. page.previous = page.items[1] /\ 1 \in DOMAIN page.items
      BY <2>1, <2>2, <2>3, <2>4, <2>9
    <3>2. page.previous \in keys /\ rank(page.previous) = a
      BY <2>2, <2>3, <3>1
    <3>3. \A p \in keys : (p = page.previous \/ Before(p, page.previous)) <=> a <= rank(p)
      BY <1>9, <1>12, <3>2 DEF Before
    <3>4. \A p \in Rest(keys) : (\E n \in DOMAIN page.items : page.items[n] = p)
                 <=> page.previous = None \/ p = page.previous \/ Before(p, page.previous)
      BY <1>10, <2>2, <2>3, <2>6, <2>7, <3>2, <3>3
    <3>5. page.previous \in Rest(keys)
      BY <2>8, <3>1
    <3> QED BY <1>12, <2>3, <2>5, <2>8, <3>4, <3>5 DEF Continues
  <2>10. CASE ~(a > 0)
    <3>1. page.previous = None
      BY <2>1, <2>10
    <3>2. \A p \in Rest(keys) : \E n \in DOMAIN page.items : page.items[n] = p
      BY <2>2, <2>3, <2>6, <2>7, <2>10
    <3> QED BY <1>12, <2>3, <2>5, <2>8, <3>1, <3>2 DEF Continues
  <2> QED BY <2>9, <2>10
<1> QED BY <1>11, <1>12

LEMMA FetchedContinues ==
  ASSUME P!ConstantsAssumption, CursorOk, forward = TRUE,
         NEW limit \in Nat \ {0}, NEW keys \in SUBSET PlaceSet, IsFiniteSet(keys),
         NEW page, page = P!Fetched(kind, keys, cursor, limit)
  PROVE  Continues(page, keys)
<1> DEFINE rest == IF cursor = None THEN keys ELSE keys \ P!Passed(kind, keys, cursor)
           N == Cardinality(rest)
           all == P!InOrder(kind, rest)
           rank(p) == RankIn(kind, rest, p)
           b == IF N > limit THEN limit ELSE N
<1>1. rest = Rest(keys)
  <2>1. CASE cursor = None
    BY <2>1 DEF Rest
  <2>2. CASE cursor # None
    <3>1. cursor.key \in PlaceSet
      BY <2>2 DEF CursorOk
    <3>2. rest = {p \in keys : ~(p = cursor.key \/ P!Ahead(kind, p, cursor.key))}
      BY <2>2 DEF P!Passed
    <3>3. Rest(keys) = {p \in keys : P!Ahead(kind, cursor.key, p)}
      BY <2>2 DEF Rest, Before
    <3> HIDE DEF rest
    <3> QED BY <3>1, <3>2, <3>3, PlacesOrdered
  <2> QED BY <2>1, <2>2
<1>2. page.items = SubSeq(all, 1, IF Len(all) > limit THEN limit ELSE Len(all))
      /\ page.next = (IF Len(all) > limit THEN page.items[Len(page.items)] ELSE None)
      /\ page.previous = None
  BY DEF P!Fetched, P!Last
<1> HIDE DEF rest
<1>3. rest \in SUBSET PlaceSet /\ IsFiniteSet(rest) /\ rest \subseteq keys
  BY <1>1, FS_Subset DEF Rest
<1>4. N \in Nat /\ Len(all) = N
  BY <1>3, InOrderIs
<1>5. b \in Nat /\ b <= N
  BY <1>4
<1>6. page.items = SubSeq(all, 0 + 1, b)
  BY <1>2, <1>4
<1>7. Part(page.items, kind, rest, 0, b)
  <2> HIDE DEF b
  <2>1. PICK s : s = page.items
    OBVIOUS
  <2>2. s = SubSeq(P!InOrder(kind, rest), 0 + 1, b) /\ b <= Cardinality(rest) /\ 0 <= b
    BY <1>5, <1>6, <2>1
  <2> HIDE DEF N, all
  <2>3. PICK a \in Nat : a = 0
    OBVIOUS
  <2>4. Part(s, kind, rest, a, b)
    BY <1>3, <1>5, <2>2, <2>3, PartIs
  <2> QED BY <2>1, <2>3, <2>4
<1>8. \A p \in rest : rank(p) \in Nat /\ rank(p) < N
  BY <1>3, <1>4, RankIs
<1>9. \A p, q \in rest : (p = q \/ P!Ahead(kind, p, q)) <=> rank(p) <= rank(q)
  <2> TAKE p, q \in rest
  <2>1. rank(p) \in Nat /\ rank(q) \in Nat
    BY <1>8
  <2>2. P!Ahead(kind, p, q) => rank(p) < rank(q)
    BY <1>3, RankIs
  <2>3. P!Ahead(kind, q, p) => rank(q) < rank(p)
    BY <1>3, RankIs
  <2>4. p = q \/ P!Ahead(kind, p, q) \/ P!Ahead(kind, q, p)
    BY <1>3, PlacesOrdered
  <2> HIDE DEF rank
  <2> QED BY <2>1, <2>2, <2>3, <2>4
<1>10. /\ page.items \in Seq(rest) /\ Len(page.items) = b /\ DOMAIN page.items = 1 .. b
       /\ \A m, n \in DOMAIN page.items : page.items[m] = page.items[n] => m = n
       /\ \A p \in rest : (\E n \in DOMAIN page.items : page.items[n] = p) <=> rank(p) < b
       /\ \A n \in DOMAIN page.items : page.items[n] \in rest /\ rank(page.items[n]) = n - 1
  <2>1. /\ page.items \in Seq(rest) /\ Len(page.items) = b - 0
        /\ \A m, n \in DOMAIN page.items : page.items[m] = page.items[n] => m = n
        /\ \A p \in rest : (\E n \in DOMAIN page.items : page.items[n] = p)
                              <=> 0 <= rank(p) /\ rank(p) < b
        /\ \A n \in DOMAIN page.items : rank(page.items[n]) = 0 + n - 1
    BY <1>7 DEF Part
  <2> HIDE DEF b, N, all, rank
  <2>2. Len(page.items) = b /\ DOMAIN page.items = 1 .. b
    BY <1>5, <2>1
  <2>3. \A n \in DOMAIN page.items : page.items[n] \in rest
    BY <2>1
  <2>4. \A n \in DOMAIN page.items : rank(page.items[n]) = n - 1
    BY <2>1, <2>2
  <2>5. \A p \in rest : (\E n \in DOMAIN page.items : page.items[n] = p) <=> rank(p) < b
    BY <1>8, <2>1
  <2> QED BY <2>1, <2>2, <2>3, <2>4, <2>5
<1>11. None \notin rest /\ page.items \in Seq(keys)
  BY <1>3, <1>10 DEF P!ConstantsAssumption, PlaceSet
<1>12. CASE N > limit
  <2>1. b = limit /\ limit \in DOMAIN page.items
    BY <1>4, <1>10, <1>12
  <2>2. page.next = page.items[limit]
    BY <1>2, <1>4, <1>10, <1>12, <2>1
  <2> HIDE DEF b, N, all, rank
  <2>3. page.next \in rest /\ rank(page.next) = limit - 1
    BY <1>10, <2>1, <2>2
  <2>4. \A p \in rest : (p = page.next \/ Before(p, page.next)) <=> rank(p) <= limit - 1
    BY <1>9, <2>3 DEF Before
  <2>5. page.next # None
    BY <1>11, <2>3
  <2>6. \A p \in rest : (\E n \in DOMAIN page.items : page.items[n] = p) <=> rank(p) <= limit - 1
    BY <1>8, <1>10, <2>1
  <2> QED BY <1>1, <1>2, <1>3, <1>10, <1>11, <2>3, <2>4, <2>5, <2>6 DEF Continues
<1>13. CASE ~(N > limit)
  <2>1. b = N /\ page.next = None
    BY <1>2, <1>4, <1>13
  <2> HIDE DEF b, N, all, rank
  <2>2. \A p \in rest : \E n \in DOMAIN page.items : page.items[n] = p
    BY <1>8, <1>10, <2>1
  <2> QED BY <1>1, <1>2, <1>10, <1>11, <2>1, <2>2 DEF Continues
<1> QED BY <1>12, <1>13

\* A row is listed at its place, and a place is of one row.
LEMMA KeyIs ==
  ASSUME P!ConstantsAssumption, NEW k, NEW i \in Ident, NEW r \in P!Row, NEW t
  PROVE  P!Key(k, i, r, t) \in PlaceSet /\ P!Key(k, i, r, t)[2] = i
<1>1. r.rank \in 0..1 /\ 1 - r.rank \in 0..1
  BY DEF P!Row
<1> QED BY <1>1 DEF P!Key, PlaceSet

LEMMA AnswerContinues ==
  ASSUME P!ConstantsAssumption, WalkType, Begun, phase = "walking",
         NEW limit \in 1..2, NEW f,
         NEW keys, keys = P!Keys(kind, rows, f, clock),
         NEW page, page = P!Answer(limit, f)
  PROVE  /\ keys \in SUBSET PlaceSet
         /\ \A i \in DOMAIN rows : P!Selected(kind, rows[i], f, clock) =>
                                    Place(i) \in keys /\ Place(i)[2] = i
         /\ \A p \in keys : /\ p[2] \in DOMAIN rows /\ p = Place(p[2])
                            /\ P!Selected(kind, rows[p[2]], f, clock)
         /\ Continues(page, keys)
<1>1. DOMAIN rows \subseteq Ident /\ \A i \in DOMAIN rows : rows[i] \in P!Row
  BY DEF WalkType, P!Lists
<1>2. \A i \in DOMAIN rows : Place(i) \in PlaceSet /\ Place(i)[2] = i
  BY <1>1, KeyIs DEF Place
<1>3. keys = {Place(i) : i \in {j \in DOMAIN rows : P!Selected(kind, rows[j], f, clock)}}
  BY DEF P!Keys, Place
<1>4. keys \in SUBSET PlaceSet
  BY <1>2, <1>3
<1>5. IsFiniteSet(keys)
  <2>1. IsFiniteSet(PlaceSet)
    <3>1. IsFiniteSet(0..1) /\ IsFiniteSet(Ident)
      <4>1. P!IsFiniteSet(Ident)
        BY DEF P!ConstantsAssumption
      <4>2. IsFiniteSet(Ident)
        BY <4>1 DEF P!IsFiniteSet, IsFiniteSet
      <4>3. IsFiniteSet(0..1)
        <5>1. PICK a \in Int, b \in Int : a = 0 /\ b = 1
          OBVIOUS
        <5> QED BY <5>1, FS_Interval
      <4> QED BY <4>2, <4>3
    <3> QED BY <3>1, FS_Product DEF PlaceSet
  <2> QED BY <1>4, <2>1, FS_Subset
<1>6. CursorOk /\ (~forward => cursor # None /\ kind \in P!View) /\ forward \in BOOLEAN
      /\ limit \in Nat \ {0}
  BY DEF CursorOk, WalkType, Begun, P!View, P!Stored
<1>7. Continues(page, keys)
  <2>1. CASE kind \in P!View
    <3>1. page = P!Slice(kind, keys, cursor, forward, limit)
      BY <2>1 DEF P!Answer
    <3> QED BY <1>4, <1>5, <1>6, <3>1, SliceContinues
  <2>2. CASE kind \notin P!View
    <3>1. page = P!Fetched(kind, keys, cursor, limit)
      BY <2>2 DEF P!Answer
    <3> QED BY <1>4, <1>5, <1>6, <2>2, <3>1, FetchedContinues
  <2> QED BY <2>1, <2>2
<1> QED BY <1>2, <1>3, <1>4, <1>7

\* Two parts of a walk, of which one has a row.
LEMMA ShownOnce ==
  ASSUME NEW s \in Seq(Ident), NEW t \in Seq(Ident), NEW i \in Ident
  PROVE  /\ Never(s, i) /\ Never(t, i) => Never(s \o t, i)
         /\ Once(s, i) /\ Never(t, i) => Once(s \o t, i)
         /\ Never(s, i) /\ Once(t, i) => Once(s \o t, i)
<1> DEFINE all == s \o t
<1>1. /\ DOMAIN s = 1 .. Len(s) /\ DOMAIN t = 1 .. Len(t) /\ DOMAIN all = 1 .. Len(s) + Len(t)
      /\ \A n \in 1 .. Len(s) : all[n] = s[n]
      /\ \A n \in 1 .. Len(t) : all[Len(s) + n] = t[n]
      /\ Len(s) \in Nat /\ Len(t) \in Nat
  OBVIOUS
<1> HIDE DEF all
<1>2. \A n \in DOMAIN all : n \in DOMAIN s \/ (n - Len(s) \in DOMAIN t /\ Len(s) + (n - Len(s)) = n)
  BY <1>1
<1>3. ASSUME Never(s, i), Never(t, i) PROVE Never(all, i)
  BY <1>1, <1>2, <1>3 DEF Never
<1>4. ASSUME Once(s, i), Never(t, i) PROVE Once(all, i)
  <2>1. PICK n \in DOMAIN s : \A m \in DOMAIN s : s[m] = i <=> m = n
    BY <1>4 DEF Once
  <2>2. ASSUME NEW m \in DOMAIN all PROVE all[m] = i <=> m = n
    <3>1. CASE m \in DOMAIN s
      BY <1>1, <2>1, <3>1
    <3>2. CASE m \notin DOMAIN s
      <4>1. m - Len(s) \in DOMAIN t /\ Len(s) + (m - Len(s)) = m
        BY <1>2, <3>2
      <4>2. all[m] = t[m - Len(s)]
        BY <1>1, <4>1
      <4> QED BY <1>4, <2>1, <3>2, <4>1, <4>2 DEF Never
    <3> QED BY <3>1, <3>2
  <2>3. n \in DOMAIN all
    BY <1>1, <2>1
  <2> QED BY <2>2, <2>3 DEF Once
<1>5. ASSUME Never(s, i), Once(t, i) PROVE Once(all, i)
  <2>1. PICK n \in DOMAIN t : \A m \in DOMAIN t : t[m] = i <=> m = n
    BY <1>5 DEF Once
  <2>2. ASSUME NEW m \in DOMAIN all PROVE all[m] = i <=> m = Len(s) + n
    <3>1. CASE m \in DOMAIN s
      BY <1>1, <1>5, <2>1, <3>1 DEF Never
    <3>2. CASE m \notin DOMAIN s
      <4>1. m - Len(s) \in DOMAIN t /\ Len(s) + (m - Len(s)) = m
        BY <1>2, <3>2
      <4>2. all[m] = t[m - Len(s)]
        BY <1>1, <4>1
      <4>3. m - Len(s) = n <=> m = Len(s) + n
        BY <1>1, <2>1, <2>2, <4>1
      <4> QED BY <2>1, <4>1, <4>2, <4>3
    <3> QED BY <3>1, <3>2
  <2>3. Len(s) + n \in DOMAIN all
    BY <1>1, <2>1
  <2> QED BY <2>2, <2>3 DEF Once
<1> QED BY <1>3, <1>4, <1>5 DEF all

LEMMA OnceIsOne ==
  ASSUME NEW s \in Seq(Ident), NEW i, Once(s, i)
  PROVE  P!Cardinality({n \in DOMAIN s : s[n] = i}) = 1
<1>1. PICK n \in DOMAIN s : \A m \in DOMAIN s : s[m] = i <=> m = n
  BY DEF Once
<1>2. {m \in DOMAIN s : s[m] = i} = {n}
  BY <1>1
<1> QED BY <1>2, SizeOf, FS_Singleton

\* A request that is answered.
LEMMA AskHolds ==
  ASSUME P!ConstantsAssumption, WalkInv, NEW limit \in 1..2, NEW f \in P!Filter, P!Ask(limit, f)
  PROVE  WalkInv'
<1> USE DEF WalkInv
<1> DEFINE here == {i \in DOMAIN rows : P!Selected(kind, rows[i], f, clock)}
<1>0. phase = "walking" /\ UNCHANGED <<kind, forward, rows, clock, changes>>
  BY DEF P!Ask
<1>1. PICK keys, page : keys = P!Keys(kind, rows, f, clock) /\ page = P!Answer(limit, f)
  OBVIOUS
<1>2. /\ keys \in SUBSET PlaceSet
      /\ \A i \in here : Place(i) \in keys /\ Place(i)[2] = i
      /\ \A p \in keys : p[2] \in here /\ p = Place(p[2])
      /\ Continues(page, keys)
  BY <1>0, <1>1, AnswerContinues
<1>3. PICK ahead, other : /\ ahead = IF forward THEN page.next ELSE page.previous
                          /\ other = IF forward THEN page.previous ELSE page.next
  OBVIOUS
<1>4. PICK ids : ids = [n \in DOMAIN page.items |-> page.items[n][2]]
  OBVIOUS
<1>5. /\ got' = got \o ids
      /\ asked' = asked \cup {f}
      /\ due' = IF asked = {} THEN
                   {i \in here : cursor = None \/ P!Ahead(kind, Place(i), cursor.key)}
                ELSE due \cap here
      /\ cursor' = P!Name(ahead, f) /\ back' = P!Name(other, f)
      /\ phase' = IF ahead = None THEN "over" ELSE "walking"
      /\ kind \in P!Bound /\ cursor # None => cursor.filter = f
  BY <1>1, <1>3, <1>4 DEF P!Ask, Place
<1>6. /\ page.items \in Seq(keys)
      /\ \A m, n \in DOMAIN page.items : page.items[m] = page.items[n] => m = n
      /\ \A n \in DOMAIN page.items : page.items[n] \in Rest(keys)
      /\ ahead \in Rest(keys) \cup {None} /\ ahead \in keys \cup {None}
      /\ other \in keys \cup {None}
      /\ \A p \in Rest(keys) : (\E n \in DOMAIN page.items : page.items[n] = p)
                                  <=> ahead = None \/ p = ahead \/ Before(p, ahead)
  BY <1>2, <1>3 DEF Continues, Rest
<1>7. here \subseteq Ident /\ DOMAIN rows \subseteq Ident
  BY DEF WalkType, P!Lists
<1>8. /\ DOMAIN ids = DOMAIN page.items /\ ids \in Seq(Ident)
      /\ \A n \in DOMAIN ids : ids[n] \in here /\ page.items[n] = Place(ids[n])
  BY <1>2, <1>4, <1>6, <1>7
<1>9. ASSUME NEW i \in here
      PROVE  /\ (\E n \in DOMAIN page.items : page.items[n] = Place(i)) => Once(ids, i)
             /\ ~(\E n \in DOMAIN page.items : page.items[n] = Place(i)) => Never(ids, i)
  <2>1. \A n \in DOMAIN ids : ids[n] = i <=> page.items[n] = Place(i)
    BY <1>2, <1>4, <1>8
  <2>2. ASSUME NEW n \in DOMAIN page.items, page.items[n] = Place(i)
        PROVE  Once(ids, i)
    <3>1. \A m \in DOMAIN ids : page.items[m] = Place(i) <=> m = n
      BY <1>6, <1>8, <2>2
    <3> QED BY <1>8, <2>1, <3>1 DEF Once
  <2>3. ASSUME \A n \in DOMAIN page.items : page.items[n] # Place(i)
        PROVE  Never(ids, i)
    BY <1>8, <2>1, <2>3 DEF Never
  <2> QED BY <2>2, <2>3
<1> HIDE DEF here
<1>10. \A key \in keys \cup {None} :
          P!Name(key, f) = IF key = None THEN None
                           ELSE [key |-> key, filter |-> f, revision |-> changes]
  BY DEF P!Name
<1>11. /\ None \notin keys
       /\ ahead # None => cursor' # None /\ cursor'.key = ahead /\ cursor'.filter = f
       /\ ahead = None => cursor' = None
  <2>1. None \notin keys /\ keys \subseteq Nat \X Ident
    BY <1>2 DEF P!ConstantsAssumption, PlaceSet
  <2>2. ASSUME ahead # None
        PROVE  cursor' # None /\ cursor'.key = ahead /\ cursor'.filter = f
    <3>1. cursor' = [key |-> ahead, filter |-> f, revision |-> changes]
      BY <1>5, <1>6, <1>10, <2>2
    <3>2. cursor' \in P!Cursor
      BY <1>6, <2>1, <2>2, <3>1 DEF P!Cursor, P!Filter, WalkType
    <3> QED BY <3>1, <3>2 DEF P!ConstantsAssumption
  <2> QED BY <1>5, <1>6, <1>10, <2>1, <2>2
<1>12. WalkType'
  <2>1. \A key \in keys \cup {None} : P!Name(key, f) \in
           [key : PlaceSet, filter : P!Filter, revision : Nat] \cup {None}
    BY <1>2, <1>10 DEF WalkType
  <2>2. got' \in Seq(Ident)
    BY <1>5, <1>8 DEF WalkType
  <2>3. due' \subseteq DOMAIN rows'
    BY <1>0, <1>5 DEF WalkType, here
  <2> QED BY <1>0, <1>5, <1>6, <2>1, <2>2, <2>3 DEF WalkType
<1>13. Begun'
  <2>1. kind' \in P!Stored => forward' /\ back' = None
    <3>1. ASSUME kind \in P!Stored PROVE forward /\ page.previous = None
      BY <1>1, <3>1 DEF Begun, P!Answer, P!View, P!Stored, P!Fetched
    <3> QED BY <1>0, <1>3, <1>5, <1>6, <1>10, <3>1
  <2>2. asked' # {} /\ f \in asked'
    BY <1>5
  <2>3. kind' \in P!Bound => \E g \in P!Filter : /\ asked' \subseteq {g}
                              /\ cursor' # None /\ asked' # {} => cursor'.filter = g
    <3> SUFFICES ASSUME kind \in P!Bound
                 PROVE  asked' \subseteq {f} /\ (cursor' # None => cursor'.filter = f)
      BY <1>0
    <3>1. asked \subseteq {f}
      <4>1. CASE asked = {}
        BY <4>1
      <4>2. CASE asked # {}
        <5>1. cursor # None
          BY <1>0, <4>2 DEF Begun
        <5> QED BY <1>5, <4>2, <5>1 DEF Begun
      <4> QED BY <4>1, <4>2
    <3> QED BY <1>5, <1>11, <3>1
  <2> QED BY <1>0, <1>5, <1>11, <2>1, <2>2, <2>3 DEF Begun
<1>14. \A p, q : Before(p, q)' <=> Before(p, q)
  BY <1>0 DEF Before, P!Ahead, P!Less
<1>15. \A i : Place(i)' = Place(i)
  BY <1>0 DEF Place
<1>16. ASSUME NEW i \in due'
       PROVE  /\ i \in here /\ Place(i) \in keys
              /\ Place(i) \in Rest(keys) => Never(got, i)
              /\ Place(i) \notin Rest(keys) => Once(got, i) /\ asked # {} /\ Reached(Place(i))
  <2>1. i \in here /\ Place(i) \in keys
    BY <1>2, <1>5
  <2>2. CASE asked = {}
    <3>1. Never(got, i)
      BY <2>2 DEF Begun, Never
    <3>2. Place(i) \in Rest(keys)
      <4>1. cursor = None <=> forward
        BY <1>0, <2>2 DEF Begun
      <4> QED BY <1>5, <2>1, <2>2, <4>1 DEF Rest, Before
    <3> QED BY <2>1, <3>1, <3>2
  <2>3. CASE asked # {}
    <3>1. i \in due /\ cursor # None
      BY <1>0, <1>5, <2>3 DEF Begun
    <3>2. IF Reached(Place(i)) THEN Once(got, i) ELSE Never(got, i)
      BY <1>0, <2>3, <3>1 DEF Shown
    <3>3. Reached(Place(i)) <=> Place(i) \notin Rest(keys)
      <4>1. Place(i) \in PlaceSet /\ cursor.key \in PlaceSet
        BY <1>2, <2>1, <3>1 DEF WalkType
      <4> QED BY <2>1, <3>1, <4>1, PlacesOrdered DEF Reached, Rest, Before
    <3> QED BY <2>1, <2>3, <3>2, <3>3
  <2> QED BY <2>2, <2>3
<1>17. ASSUME NEW i \in due'
       PROVE  IF ahead = None \/ Place(i) = ahead \/ Before(Place(i), ahead)
              THEN Once(got', i) ELSE Never(got', i)
  <2>0. i \in Ident /\ got \in Seq(Ident) /\ ids \in Seq(Ident) /\ got' = got \o ids
    BY <1>5, <1>7, <1>8, <1>16 DEF WalkType
  <2>1. CASE Place(i) \in Rest(keys)
    <3>1. Never(got, i)
      BY <1>16, <2>1
    <3>2. IF ahead = None \/ Place(i) = ahead \/ Before(Place(i), ahead)
          THEN Once(ids, i) ELSE Never(ids, i)
      BY <1>6, <1>9, <1>16, <2>1
    <3> QED BY <2>0, <3>1, <3>2, ShownOnce
  <2>2. CASE Place(i) \notin Rest(keys)
    <3>1. Once(got, i) /\ Reached(Place(i)) /\ asked # {}
      BY <1>16, <2>2
    <3>2. Never(ids, i)
      BY <1>6, <1>9, <1>16, <2>2
    <3>3. Once(got', i)
      BY <2>0, <3>1, <3>2, ShownOnce
    <3>4. ASSUME ahead # None PROVE Before(Place(i), ahead)
      <4>1. cursor # None
        BY <1>0, <3>1 DEF Begun
      <4>2. ahead \in keys /\ Before(cursor.key, ahead)
        BY <1>6, <3>4, <4>1 DEF Rest
      <4>3. Place(i) \in PlaceSet /\ cursor.key \in PlaceSet /\ ahead \in PlaceSet
        BY <1>2, <1>16, <4>1, <4>2 DEF WalkType
      <4> QED BY <3>1, <4>2, <4>3, PlacesOrdered DEF Reached, Before
    <3> QED BY <3>3, <3>4
  <2> QED BY <2>1, <2>2
<1>18. Shown'
  <2>1. phase' = "walking" /\ asked' # {} =>
           \A i \in due' : IF Reached(Place(i))' THEN Once(got, i)' ELSE Never(got, i)'
    <3> SUFFICES ASSUME phase' = "walking", NEW i \in due'
                 PROVE  IF Reached(Place(i))' THEN Once(got, i)' ELSE Never(got, i)'
      OBVIOUS
    <3>1. ahead # None /\ cursor'.key = ahead
      BY <1>5, <1>11
    <3>2. Reached(Place(i))' <=> Place(i) = ahead \/ Before(Place(i), ahead)
      BY <1>14, <1>15, <3>1 DEF Reached
    <3> QED BY <1>17, <3>1, <3>2 DEF Once, Never
  <2>2. phase' = "over" => \A i \in due' : Once(got, i)'
    BY <1>5, <1>17 DEF Once
  <2> QED BY <2>1, <2>2 DEF Shown
<1> QED BY <1>12, <1>13, <1>18

\* What changes or expires beside a walk leaves what is due in its place.
LEMMA BesideHolds ==
  ASSUME WalkInv, phase = "walking", rows' \in P!Lists, clock' \in Nat, changes' \in Nat,
         due' = P!Kept(rows', clock'),
         UNCHANGED <<kind, forward, cursor, back, got, asked, phase>>
  PROVE  WalkInv'
<1>1. due' = {i \in due : /\ i \in DOMAIN rows'
                          /\ P!Key(kind, i, rows'[i], clock') = P!Key(kind, i, rows[i], clock)
                          /\ \A f \in asked : P!Selected(kind, rows'[i], f, clock')}
  BY DEF P!Kept
<1>2. due' \subseteq due /\ due' \subseteq DOMAIN rows'
  BY <1>1
<1>3. \A i \in due' : Place(i)' = Place(i)
  BY <1>1 DEF Place
<1>4. \A p, q : Before(p, q)' <=> Before(p, q)
  BY DEF Before, P!Ahead, P!Less
<1>5. WalkType'
  BY <1>2 DEF WalkInv, WalkType
<1>6. Begun'
  BY <1>2 DEF WalkInv, Begun
<1>7. Shown'
  <2> SUFFICES ASSUME asked # {}, NEW i \in due'
               PROVE  IF Reached(Place(i))' THEN Once(got, i)' ELSE Never(got, i)'
    BY DEF Shown
  <2>1. Reached(Place(i))' <=> Reached(Place(i))
    BY <1>3, <1>4 DEF Reached
  <2>2. IF Reached(Place(i)) THEN Once(got, i) ELSE Never(got, i)
    BY <1>2 DEF WalkInv, Shown
  <2> QED BY <2>1, <2>2 DEF Once, Never
<1> QED BY <1>5, <1>6, <1>7 DEF WalkInv

LEMMA WalkStart == P!ConstantsAssumption /\ P!Init => WalkInv
<1> SUFFICES ASSUME P!ConstantsAssumption, P!Init PROVE WalkInv
  OBVIOUS
<1>1. /\ kind \in P!View \cup P!Stored /\ forward = TRUE /\ rows \in P!Lists
      /\ clock = 0 /\ changes = 0 /\ cursor = None /\ back = None /\ got = <<>>
      /\ asked = {} /\ due = {} /\ phase = "walking"
  BY DEF P!Init
<1>2. WalkType
  BY <1>1 DEF WalkType
<1>3. Begun /\ Shown
  BY <1>1 DEF Begun, Shown, P!Filter
<1> QED BY <1>2, <1>3 DEF WalkInv

LEMMA WalkStep == P!ConstantsAssumption /\ WalkInv /\ [P!Next]_P!vars => WalkInv'
<1> SUFFICES ASSUME P!ConstantsAssumption, WalkInv, [P!Next]_P!vars PROVE WalkInv'
  OBVIOUS
<1>0. WalkType /\ Begun /\ Shown
  BY DEF WalkInv
<1>1. ASSUME NEW f \in P!Filter, P!Refuse(f) PROVE WalkInv'
  <2>1. phase = "walking" /\ phase' = "refused"
        /\ UNCHANGED <<kind, forward, rows, clock, changes, cursor, back, got, asked, due>>
    BY <1>1 DEF P!Refuse
  <2>2. WalkType'
    BY <1>0, <2>1 DEF WalkType
  <2>3. Begun' /\ Shown'
    BY <1>0, <2>1 DEF Begun, Shown
  <2> QED BY <2>2, <2>3 DEF WalkInv
<1>2. ASSUME NEW f \in P!Filter, NEW limit \in 1..2, P!Ask(limit, f) PROVE WalkInv'
  BY <1>2, AskHolds
<1>3. CASE P!Turn
  <2>1. /\ forward /\ back # None /\ forward' = FALSE /\ phase' = "walking"
        /\ cursor' = back /\ back' = None /\ got' = <<>> /\ asked' = {} /\ due' = {}
        /\ UNCHANGED <<kind, rows, clock, changes>>
    BY <1>3 DEF P!Turn
  <2>2. WalkType'
    <3>1. got' \in Seq(Ident) /\ asked' \subseteq P!Filter /\ due' \subseteq DOMAIN rows'
      BY <2>1
    <3> QED BY <1>0, <2>1, <3>1 DEF WalkType
  <2>3. Begun'
    BY <1>0, <2>1 DEF Begun, P!Filter
  <2>4. Shown'
    BY <2>1 DEF Shown
  <2> QED BY <2>2, <2>3, <2>4 DEF WalkInv
<1>4. CASE P!Change
  <2>1. /\ phase = "walking" /\ due' = P!Kept(rows', clock) /\ changes' = changes + 1
        /\ UNCHANGED <<kind, forward, clock, cursor, back, got, asked, phase>>
    BY <1>4 DEF P!Change
  <2>2. rows' \in P!Lists
    <3>1. PICK S \in SUBSET Ident : rows \in [S -> P!Row] /\ DOMAIN rows = S
      BY <1>0 DEF WalkType, P!Lists
    <3>2. PICK i \in Ident :
             \/ \E r \in P!Row : rows' = [j \in S \cup {i} |-> IF j = i THEN r ELSE rows[j]]
             \/ rows' = [j \in S \ {i} |-> rows[j]]
      BY <1>4, <3>1 DEF P!Change
    <3>3. rows' \in [S \cup {i} -> P!Row] \/ rows' \in [S \ {i} -> P!Row]
      BY <3>1, <3>2
    <3>4. S \cup {i} \in SUBSET Ident /\ S \ {i} \in SUBSET Ident
      OBVIOUS
    <3> QED BY <3>3, <3>4 DEF P!Lists
  <2>3. clock' \in Nat /\ changes' \in Nat /\ due' = P!Kept(rows', clock')
    BY <1>0, <2>1 DEF WalkType
  <2> QED BY <2>1, <2>2, <2>3, BesideHolds
<1>5. CASE P!Tick
  <2>1. /\ phase = "walking" /\ clock' = clock + 1 /\ due' = P!Kept(rows, clock + 1)
        /\ UNCHANGED <<kind, forward, rows, changes, cursor, back, got, asked, phase>>
    BY <1>5 DEF P!Tick
  <2>2. rows' \in P!Lists /\ clock' \in Nat /\ changes' \in Nat /\ due' = P!Kept(rows', clock')
    BY <1>0, <2>1 DEF WalkType
  <2> QED BY <2>1, <2>2, BesideHolds
<1>6. CASE UNCHANGED P!vars
  <2>1. UNCHANGED <<kind, forward, rows, clock, changes, cursor, back, got, asked, due, phase>>
    BY <1>6 DEF P!vars
  <2>2. WalkType' /\ Begun'
    BY <1>0, <2>1 DEF WalkType, Begun
  <2>3. Shown'
    BY <1>0, <2>1 DEF Shown, Place, Reached, Before, P!Ahead, P!Less, Once, Never
  <2> QED BY <2>2, <2>3 DEF WalkInv
<1> QED BY <1>1, <1>2, <1>3, <1>4, <1>5, <1>6 DEF P!Next

\* A walk through a list, page by page and back again, comes to every row that stays in its
\* place, once, and is of one filter: for any number of rows, any page limits, and whatever is
\* inserted, moved, removed or expires between the requests (pages.rs, query_read.rs,
\* query_cursor.rs).
THEOREM WalksComeToAll ==
  ASSUME P!ConstantsAssumption
  PROVE  SuiteSpec => []WalksHold
<1> DEFINE Walking == part = "pages" => WalkInv
<1>1. SuiteInit => Walking
  BY WalkStart DEF SuiteInit
<1>2. Walking /\ [SuiteNext]_suiteVars => Walking'
  <2> SUFFICES ASSUME Walking, [SuiteNext]_suiteVars PROVE Walking'
    OBVIOUS
  <2>1. part' = part
    BY DEF SuiteNext, suiteVars
  <2>2. part = "pages" => [P!Next]_P!vars
    BY DEF SuiteNext, suiteVars, otherVars, pageVars, P!vars
  <2> QED BY <2>1, <2>2, WalkStep
<1>3. Walking => WalksHold
  <2> SUFFICES ASSUME WalkInv PROVE P!WalksAreWhole /\ P!WalksAreBound
    BY DEF WalksHold
  <2>1. P!WalksAreWhole
    BY OnceIsOne DEF WalkInv, WalkType, Shown, P!WalksAreWhole
  <2>2. ASSUME kind \in P!Bound PROVE P!Cardinality(asked) <= 1
    <3>1. PICK f : asked \subseteq {f}
      BY <2>2 DEF WalkInv, Begun
    <3>2. asked = {} \/ asked = {f}
      BY <3>1
    <3>3. Cardinality({}) = 0 /\ Cardinality({f}) = 1
      BY FS_EmptySet, FS_Singleton
    <3> QED BY <3>2, <3>3, SizeOf
  <2> QED BY <2>1, <2>2 DEF P!WalksAreBound
<1> QED BY <1>1, <1>2, <1>3, PTL DEF SuiteSpec, suiteVars

-----------------------------------------------------------------------------
(* Assessment: the verdict on a deployment, for any records.               *)

\* Records as the projections write them: a run and a release are of the time they are
\* recorded at, a finding lasts, and all runs of a check are of one target.
RecordSane(r) ==
    /\ r.from \in Nat /\ r.to \in Nat /\ r.from <= r.to
    /\ r.category = "check" => /\ r.from = r.to /\ r.started \in Nat /\ r.until \in Nat
    /\ r.category = "release" => r.from = r.to /\ r.content \in {"same", "other", "missing"}
    /\ r.category = "finding" => /\ r.severity \in 1..3 /\ r.first \in Nat \cup {None}
                                 /\ r.closed # None => r.closed \in Nat /\ r.to <= r.closed

\* A filter that names a target and a resource names a resource of that target.
Coherent ==
    /\ input.now \in Nat /\ input.world.since \in Nat /\ input.world.lost \subseteq Nat
    /\ \A r \in Q!A!All : RecordSane(r)
    /\ \A r, o \in Q!A!All : r.category = "check" /\ o.category = "check" /\ r.id = o.id
                                => r.place.target = o.place.target
    /\ DOMAIN input.filter = {"target", "resource"}
    /\ input.filter.resource \in DOMAIN input.world.resources =>
            input.filter.target \in {None, input.world.resources[input.filter.resource]}

LEMMA FirstIs ==
    ASSUME NEW T, T \subseteq Nat, T # {}
    PROVE  \E n \in T : \A m \in T : n <= m
<1> DEFINE Below == {pair \in Nat \X Nat : pair[1] < pair[2]}
<1>1. IsWellFoundedOn(Below, Nat)
    BY NatLessThanWellFounded DEF OpToRel
<1>2. PICK n \in T : \A m \in T : <<m, n>> \notin Below
    <2> HIDE DEF Below
    <2> QED  BY <1>1, WFMin
<1>3. \A m \in T : ~(m < n)
    BY <1>2
<1> QED  BY <1>3

LEMMA WindowsAre ==
    /\ Q!A!Watched.from = 2 /\ Q!A!Watched.to = 4
    /\ Q!A!Baseline.from = 0 /\ Q!A!Baseline.to = 2
    /\ \A n : Q!A!Until(n) = IF n < 4 THEN n ELSE 4
    /\ \A n : Q!A!Observed(n).from = 0 /\ Q!A!Observed(n).to = Q!A!Until(n)
    BY DEF Q!A!Watched, Q!A!Baseline, Q!A!Until, Q!A!Observed

LEMMA SeenIs ==
    \A k : /\ Q!A!Seen(k) \in {input.before, Q!A!All}
           /\ input.before \subseteq Q!A!Seen(k) /\ Q!A!Seen(k) \subseteq Q!A!All
    BY DEF Q!A!Seen, Q!A!All

\* What is not watched is a gap.
LEMMA GapIs ==
    ASSUME Coherent, NEW seen, seen \subseteq Q!A!All, NEW c, NEW t \in Nat,
           t < input.now, Q!A!Unwatched(c, t, seen)
    PROVE  \E r \in seen : /\ r.category = "check" /\ r.id = c
                              /\ Q!A!GapFrom(r) <= t /\ Q!A!GapTo(r, seen) > t
                              /\ Q!A!GapFrom(r) < Q!A!GapTo(r, seen)
                              /\ Q!A!GapFrom(r) \in Nat /\ Q!A!GapTo(r, seen) \in Nat
<1> DEFINE past == {r \in seen : r.category = "check" /\ r.id = c /\ r.from <= t}
<1>1. PICK r \in past : /\ \A o \in past : o.from <= r.from
                        /\ ~r.complete \/ r.until <= t
    BY DEF Q!A!Unwatched
<1>2. /\ r \in seen /\ r.category = "check" /\ r.id = c /\ r.from <= t
      /\ r.from \in Nat /\ r.until \in Nat
    BY DEF Coherent, RecordSane
<1>3. Q!A!GapFrom(r) <= t /\ Q!A!GapFrom(r) \in Nat
    BY <1>1, <1>2 DEF Q!A!GapFrom
<1> DEFINE later == {o.from : o \in {x \in seen : /\ x.category = "check" /\ x.id = r.id
                                                     /\ x.from > r.from}}
<1>4. later \subseteq Nat /\ \A n \in later : n > t
    <2>1. ASSUME NEW o \in seen, o.category = "check", o.id = r.id, o.from > r.from
          PROVE  o.from \in Nat /\ o.from > t
        <3>1. o.from \in Nat
            BY <2>1 DEF Coherent, RecordSane
        <3>2. o \notin past
            BY <1>1, <1>2, <2>1, <3>1
        <3> QED  BY <1>2, <2>1, <3>1, <3>2
    <2> QED  BY <2>1
<1>5. Q!A!GapTo(r, seen) \in Nat /\ Q!A!GapTo(r, seen) > t
    <2>1. CASE later = {}
        BY <2>1 DEF Q!A!GapTo, Q!A!Now, Coherent
    <2>2. CASE later # {}
        <3>1. \E n \in later : \A m \in later : n <= m
            <4> HIDE DEF later
            <4> QED  BY <1>4, <2>2, FirstIs
        <3>2. Q!A!Min(later) \in later
            BY <3>1 DEF Q!A!Min
        <3> QED  BY <1>4, <2>2, <3>2 DEF Q!A!GapTo
    <2> QED  BY <2>1, <2>2
<1> HIDE DEF later
<1> QED  BY <1>2, <1>3, <1>5

\* Where the answer finds no gap, nothing was unwatched.
LEMMA NoGapIs ==
    ASSUME Coherent, NEW seen, seen \subseteq Q!A!All, NEW f, NEW w,
           w.from \in Nat, w.to \in Nat, w.to <= input.now,
           Q!A!GapsIn(seen, f, w) = {},
           NEW c, NEW x \in Q!A!All, x.category = "check", x.id = c,
           f.target \in {None, x.place.target}, NEW t \in w.from..(w.to - 1)
    PROVE  ~Q!A!Unwatched(c, t, seen)
<1>1. SUFFICES ASSUME Q!A!Unwatched(c, t, seen)  PROVE FALSE
    OBVIOUS
<1>2. t \in Nat /\ w.from <= t /\ t < w.to /\ t < input.now
    BY DEF Coherent
<1>3. PICK r \in seen : /\ r.category = "check" /\ r.id = c
                           /\ Q!A!GapFrom(r) <= t /\ Q!A!GapTo(r, seen) > t
                           /\ Q!A!GapFrom(r) < Q!A!GapTo(r, seen)
                           /\ Q!A!GapFrom(r) \in Nat /\ Q!A!GapTo(r, seen) \in Nat
    BY <1>1, <1>2, GapIs
<1>4. r.place.target = x.place.target
    BY <1>3 DEF Coherent
<1>5. Q!A!GapFrom(r) < w.to /\ Q!A!GapTo(r, seen) > w.from
    BY <1>2, <1>3
<1> QED  BY <1>3, <1>4, <1>5 DEF Q!A!GapsIn

\* What each statement promises of what it reads.
LEMMA RequiredIs ==
    ASSUME NEW c
    PROVE  c \in Q!A!Required <=> c \in input.world.checks /\ c.required /\ Q!A!InScope(c.target)
    BY DEF Q!A!Required, Q!A!Matches, Q!A!CheckFilter, Q!A!Place, Q!A!InScope, Q!A!World

LEMMA ChecksMatch ==
    ASSUME NEW r, Q!A!InScope(r.place.target)
    PROVE  Q!A!Matches(Q!A!CheckFilter, r.place)
    BY DEF Q!A!Matches, Q!A!CheckFilter, Q!A!InScope

\* A finding that lived in the window is one that is read for it, and the other way round.
LEMMA LivedIs ==
    ASSUME NEW r, RecordSane(r), r.category = "finding"
    PROVE  Q!A!Overlaps(r, Q!A!Watched) <=> Q!A!Lived(r)
<1>1. /\ r.from \in Nat /\ r.to \in Nat /\ r.from <= r.to
      /\ r.closed # None => r.closed \in Nat /\ r.to <= r.closed
    BY DEF RecordSane
<1>2. Q!A!Overlaps(r, Q!A!Watched) <=> r.from < 4 /\ (r.to >= 2 \/ r.closed = None \/ r.closed >= 2)
    BY WindowsAre DEF Q!A!Overlaps
<1>3. Q!A!Lived(r) <=> \E t \in 2..3 : r.from <= t /\ (t <= r.to \/ r.closed = None \/ t <= r.closed)
    BY WindowsAre DEF Q!A!Lived
<1>4. ASSUME Q!A!Overlaps(r, Q!A!Watched)  PROVE Q!A!Lived(r)
    <2>1. PICK t \in 2..3 : t = IF r.from < 2 THEN 2 ELSE r.from
        BY <1>1, <1>2, <1>4
    <2> QED  BY <1>1, <1>2, <1>3, <1>4, <2>1
<1>5. ASSUME Q!A!Lived(r)  PROVE Q!A!Overlaps(r, Q!A!Watched)
    BY <1>1, <1>2, <1>3, <1>5
<1> QED  BY <1>4, <1>5

LEMMA ErrorsAre ==
    ASSUME Coherent
    PROVE  /\ Q!A!Errors = {} =>
                ~\E f \in input.before : /\ f.category = "finding" /\ f.severity = 2
                                         /\ Q!A!Matches(input.filter, f.place) /\ Q!A!Lived(f)
           /\ Q!A!Errors # {} =>
                \E f \in Q!A!All : /\ f.category = "finding" /\ f.severity = 2
                                   /\ Q!A!Matches(input.filter, f.place) /\ Q!A!Lived(f)
<1> DEFINE found == {f \in Q!A!Seen(6) : /\ f.category = "finding" /\ f.severity = 2
                                         /\ Q!A!Matches(input.filter, f.place)
                                         /\ Q!A!Overlaps(f, Q!A!Watched)}
<1>1. Q!A!Errors = {r.id : r \in found}
    BY DEF Q!A!Errors, Q!A!Selection
<1>2. \A f \in Q!A!All : f.category = "finding" => (Q!A!Overlaps(f, Q!A!Watched) <=> Q!A!Lived(f))
    BY LivedIs DEF Coherent
<1>3. input.before \subseteq Q!A!Seen(6) /\ Q!A!Seen(6) \subseteq Q!A!All
    BY SeenIs
<1>4. Q!A!Errors = {} => found = {}
    BY <1>1
<1>5. Q!A!Errors # {} => found # {}
    BY <1>1
<1> HIDE <1>1
<1> QED  BY <1>2, <1>3, <1>4, <1>5

LEMMA OutcomeIs ==
    /\ Q!A!Outcome = "failing" <=> Q!A!Errors # {} \/ (Q!A!Mismatch /\ input.now >= 4)
    /\ Q!A!Outcome = "passing" <=> /\ Q!A!Errors = {} /\ ~(Q!A!Mismatch /\ input.now >= 4)
                                   /\ ~(input.now < 4) /\ Q!A!AvailableThroughout
                                   /\ ~Q!A!Reasons
    BY WindowsAre DEF Q!A!Outcome, Q!A!Now

\* A run that every statement agrees is the last is the one a check is judged by.
LEMMA RunsVouch ==
    ASSUME Coherent, input.now >= 4, Q!A!Outstanding = {},
           NEW c \in input.world.checks, c.required, Q!A!InScope(c.target)
    PROVE  Q!A!Vouched(c, input.before) \/ Q!A!Vouched(c, Q!A!All)
<1> DEFINE seen == Q!A!Seen(3)
<1>1. seen \in {input.before, Q!A!All} /\ seen \subseteq Q!A!All
    BY SeenIs
<1>2. c \in Q!A!Required
    BY RequiredIs
<1>3. PICK r \in Q!A!Runs : r.id = c.id /\ Q!A!Sound(r)
    BY <1>2 DEF Q!A!Outstanding
<1> DEFINE selected == Q!A!Selection(seen, Q!A!CheckFilter, Q!A!Observed(input.now), "check")
<1>4. r \in Q!A!LatestOf(selected)
    BY <1>3 DEF Q!A!Runs, Q!A!Now
<1>5. r \in selected /\ \A o \in selected : o.id = r.id => o.from <= r.from
    BY <1>4 DEF Q!A!LatestOf
<1>6. Q!A!Observed(input.now).from = 0 /\ Q!A!Observed(input.now).to = 4 /\ Q!A!Until(input.now) = 4
    BY WindowsAre DEF Coherent
<1>7. /\ r \in seen /\ r.category = "check" /\ Q!A!Matches(Q!A!CheckFilter, r.place)
      /\ r.from < 4
    BY <1>5, <1>6 DEF Q!A!Selection, Q!A!Overlaps
<1>8. ASSUME NEW o \in seen, o.category = "check", o.id = c.id, o.from < 4
      PROVE  o.from <= r.from
    <2>1. o.place.target = r.place.target
        BY <1>1, <1>3, <1>7, <1>8 DEF Coherent
    <2>2. Q!A!Matches(Q!A!CheckFilter, o.place)
        BY <1>7, <2>1 DEF Q!A!Matches, Q!A!CheckFilter
    <2>3. o.to \in Nat
        BY <1>1, <1>8 DEF Coherent, RecordSane
    <2>4. o \in selected
        BY <1>6, <1>8, <2>2, <2>3 DEF Q!A!Selection, Q!A!Overlaps
    <2> QED  BY <1>3, <1>5, <1>8, <2>4
<1>9. /\ r.complete /\ ~r.truncated /\ r.pending = 0 /\ r.started >= 2
      /\ r.oldest = None \/ r.oldest >= 2
      /\ r.until >= 4
    BY <1>3, <1>6, WindowsAre DEF Q!A!Sound, Q!A!Now
<1>10. Q!A!Vouched(c, seen)
    BY <1>3, <1>7, <1>8, <1>9, WindowsAre DEF Q!A!Vouched
<1> QED  BY <1>1, <1>10

LEMMA ReleaseIs ==
    ASSUME Coherent, input.now >= 4, input.expected # None, ~Q!A!ReleaseReasons, ~Q!A!Mismatch
    PROVE  \E r \in Q!A!All : /\ r.category = "release" /\ Q!A!Matches(input.filter, r.place)
                              /\ r.from \in 2..3 /\ r.content = "same" /\ ~r.pending
                              /\ input.expected = "revision" => r.verified
<1>1. PICK r \in Q!A!FreshReleases : TRUE
    BY DEF Q!A!ReleaseReasons
<1>2. r \in Q!A!Releases /\ r.to >= 2 /\ r.from < 4
    BY WindowsAre DEF Q!A!FreshReleases
<1>3. /\ r \in Q!A!Seen(4) /\ r.category = "release" /\ Q!A!Matches(input.filter, r.place)
    BY <1>2 DEF Q!A!Releases, Q!A!LatestOf, Q!A!Selection
<1>4. r \in Q!A!All
    BY <1>3, SeenIs
<1>5. r.from \in Nat /\ r.to = r.from /\ r.content \in {"same", "other", "missing"}
    BY <1>3, <1>4 DEF Coherent, RecordSane
<1>6. r.from \in 2..3
    BY <1>2, <1>5
<1>7. ~r.pending /\ r.content # "missing" /\ (input.expected = "revision" => r.verified)
    BY <1>1 DEF Q!A!ReleaseReasons
<1>8. r.content # "other"
    BY <1>1, <1>7 DEF Q!A!Mismatch, Q!A!Deviating
<1> QED  BY <1>3, <1>4, <1>5, <1>6, <1>7, <1>8

LEMMA PassingIs == ASSUME Coherent  PROVE Q!A!PassingIsObserved
<1>1. SUFFICES ASSUME Q!A!Outcome = "passing"  PROVE Q!A!PassingIsObserved
    BY DEF Q!A!PassingIsObserved
<1>2. /\ input.now \in Nat /\ input.now >= 4 /\ Q!A!Errors = {} /\ ~Q!A!Mismatch
      /\ Q!A!AvailableThroughout /\ ~Q!A!Reasons
    BY <1>1, OutcomeIs DEF Coherent
<1>3. Q!A!Observed(input.now).from = 0 /\ Q!A!Observed(input.now).to = 4
    BY <1>2, WindowsAre
<1>4. /\ input.world.history /\ input.world.running /\ input.world.since <= 0
      /\ \A at \in input.world.lost : at >= 4
    BY <1>2, <1>3 DEF Q!A!AvailableThroughout, Q!A!Available, Q!A!World, Q!A!Now, Coherent
<1>5. ASSUME NEW c \in {r.id : r \in {x \in input.before : /\ x.category = "check"
                                                           /\ Q!A!InScope(x.place.target)}},
             NEW t \in 0..3
      PROVE  ~Q!A!Unwatched(c, t, input.before) \/ ~Q!A!Unwatched(c, t, Q!A!All)
    <2>1. PICK x \in input.before : x.category = "check" /\ x.id = c /\ Q!A!InScope(x.place.target)
        OBVIOUS
    <2>2. Q!A!Seen(2) \in {input.before, Q!A!All} /\ Q!A!Seen(2) \subseteq Q!A!All
        BY SeenIs
    <2>3. Q!A!GapsIn(Q!A!Seen(2), Q!A!CheckFilter, Q!A!Observed(input.now)) = {}
        BY <1>2 DEF Q!A!AvailableThroughout, Q!A!Now
    <2>4. x \in Q!A!All /\ Q!A!CheckFilter.target \in {None, x.place.target}
        BY <2>1 DEF Q!A!All, Q!A!InScope
    <2> DEFINE w == Q!A!Observed(input.now)
    <2>5. w.from \in Nat /\ w.to \in Nat /\ w.to <= input.now /\ t \in w.from..(w.to - 1)
        BY <1>2, <1>3
    <2> HIDE DEF w
    <2>6. ~Q!A!Unwatched(c, t, Q!A!Seen(2))
        BY <2>1, <2>2, <2>3, <2>4, <2>5, NoGapIs DEF w
    <2> QED  BY <2>2, <2>6
<1>6. Q!A!Required # {} /\ Q!A!Outstanding = {} /\ Q!A!FailedRuns = {}
      /\ (input.expected # None => ~Q!A!ReleaseReasons)
    BY <1>2 DEF Q!A!Reasons
<1>7. \E c \in input.world.checks : c.required /\ Q!A!InScope(c.target)
    BY <1>6, RequiredIs
<1>8. \A c \in input.world.checks : c.required /\ Q!A!InScope(c.target) =>
            Q!A!Vouched(c, input.before) \/ Q!A!Vouched(c, Q!A!All)
    BY <1>2, <1>6, RunsVouch
<1>9. ASSUME NEW r \in input.before, Q!A!InScope(r.place.target), r.category = "check",
             ~r.complete, r.from \in 2..3
      PROVE  FALSE
    <2>1. r \in Q!A!Seen(7) /\ r \in Q!A!All
        BY SeenIs
    <2>2. r.to = r.from
        BY <1>9, <2>1 DEF Coherent, RecordSane
    <2>3. Q!A!Overlaps(r, Q!A!Watched)
        BY <1>9, <2>2, WindowsAre DEF Q!A!Overlaps
    <2>4. Q!A!Matches(Q!A!CheckFilter, r.place)
        BY <1>9, ChecksMatch
    <2>5. r.id \in Q!A!FailedRuns
        BY <1>9, <2>1, <2>3, <2>4 DEF Q!A!FailedRuns, Q!A!Selection
    <2> QED  BY <1>6, <2>5
<1>10. ~\E f \in input.before :
            f.category = "finding" /\ Q!A!Matches(input.filter, f.place) /\ f.severity = 2 /\ Q!A!Lived(f)
    BY <1>2, ErrorsAre
<1>11. input.expected # None =>
            \E r \in Q!A!All : /\ r.category = "release" /\ Q!A!Matches(input.filter, r.place)
                               /\ r.from \in 2..3 /\ r.content = "same" /\ ~r.pending
                               /\ input.expected = "revision" => r.verified
    BY <1>2, <1>6, ReleaseIs
<1>12. 4 - 1 = 3
    OBVIOUS
<1> QED  BY <1>2, <1>4, <1>5, <1>7, <1>8, <1>9, <1>10, <1>11, <1>12, WindowsAre
         DEF Q!A!PassingIsObserved, Q!A!Now, Q!A!World

LEMMA FailingIs == ASSUME Coherent  PROVE Q!A!FailingIsObserved
<1>1. SUFFICES ASSUME Q!A!Outcome = "failing", Q!A!Errors = {}  PROVE Q!A!FailingIsObserved
    BY ErrorsAre DEF Q!A!FailingIsObserved
<1>2. Q!A!Mismatch /\ input.now >= 4
    BY <1>1, OutcomeIs
<1>3. PICK r \in Q!A!FreshReleases : Q!A!Deviating(r)
    BY <1>2 DEF Q!A!Mismatch
<1>4. r \in Q!A!Releases /\ r.to >= 2 /\ r.from < 4
    BY WindowsAre DEF Q!A!FreshReleases
<1>5. r \in Q!A!Seen(4) /\ r.category = "release"
    BY <1>4 DEF Q!A!Releases, Q!A!LatestOf, Q!A!Selection
<1>6. r \in Q!A!All
    BY <1>5, SeenIs
<1>7. r.from \in Nat /\ r.to = r.from
    BY <1>5, <1>6 DEF Coherent, RecordSane
<1>8. r.from \in 2..(4 - 1)
    BY <1>4, <1>7
<1> QED  BY <1>2, <1>3, <1>5, <1>6, <1>8, WindowsAre
         DEF Q!A!FailingIsObserved, Q!A!Mismatch, Q!A!Deviating, Q!A!Now

LEMMA BlameIs == ASSUME Coherent  PROVE Q!A!BlameIsFair
<1>1. SUFFICES ASSUME NEW f \in Q!A!Findings, Q!A!Class(f) = "pre-existing"
      PROVE  /\ f.first = None \/ f.first \notin 2..3
             /\ \/ (f.first # None /\ f.first < 2)
                \/ \E b \in Q!A!All : /\ b.category = "finding" /\ b.id = f.id
                                      /\ b.from < 2 /\ b.severity >= f.severity
    <2>1. 4 - 1 = 3
        OBVIOUS
    <2> QED  BY <1>1, <2>1, WindowsAre DEF Q!A!BlameIsFair
<1>2. f \in Q!A!Seen(5) /\ f.category = "finding"
    BY DEF Q!A!Findings, Q!A!Selection
<1>3. f \in Q!A!All
    BY <1>2, SeenIs
<1>4. f.severity \in 1..3
    BY <1>2, <1>3 DEF Coherent, RecordSane
<1> DEFINE unclosed == {r \in Q!A!Before : r.id = f.id /\ (r.closed = None \/ r.closed >= 2)}
           earlier == {r.severity : r \in unclosed}
           fresh == f.first # None /\ f.first >= 2 /\ f.first < 4
<1>5. ~fresh /\ (earlier # {} => ~(f.severity > Q!A!Max(earlier)))
      /\ (earlier # {} \/ (f.first # None /\ f.first < 2))
    BY <1>1, WindowsAre DEF Q!A!Class
<1>6. f.first = None \/ f.first \notin 2..3
    BY <1>5
<1>7. CASE earlier = {}
    BY <1>5, <1>6, <1>7
<1>8. CASE earlier # {}
    <2>1. \A b \in unclosed : /\ b \in Q!A!All /\ b.category = "finding" /\ b.id = f.id /\ b.from < 2
                           /\ b.severity \in 1..3
        <3> SUFFICES ASSUME NEW b \in unclosed
                     PROVE  /\ b \in Q!A!All /\ b.category = "finding" /\ b.id = f.id /\ b.from < 2
                            /\ b.severity \in 1..3
            OBVIOUS
        <3>1. b \in Q!A!Before /\ b.id = f.id
            OBVIOUS
        <3>2. b \in Q!A!Seen(5) /\ b.category = "finding" /\ b.from < 2
            BY <3>1, WindowsAre DEF Q!A!Before, Q!A!LatestOf, Q!A!Selection, Q!A!Overlaps
        <3>3. b \in Q!A!All
            BY <3>2, SeenIs
        <3> QED  BY <3>1, <3>2, <3>3 DEF Coherent, RecordSane
    <2>2. earlier \subseteq Nat /\ \A s \in earlier : s <= 3
        BY <2>1
    <2>3. \E s \in earlier : \A o \in earlier : s >= o
        <3> HIDE DEF earlier
        <3> QED  BY <1>8, <2>2, Greatest
    <2>4. Q!A!Max(earlier) \in earlier
        BY <2>3 DEF Q!A!Max
    <2>5. PICK b \in unclosed : b.severity = Q!A!Max(earlier)
        BY <2>4
    <2>6. b.severity >= f.severity
        BY <1>4, <1>5, <1>8, <2>1, <2>5
    <2> QED  BY <1>6, <2>1, <2>5, <2>6
<1> QED  BY <1>7, <1>8

LEMMA CompleteIs == ASSUME Coherent  PROVE Q!A!CompleteIsCovered
<1> DEFINE w == [from |-> Q!A!Watched.from, to |-> Q!A!Until(input.now)]
           q == input.filter
           target == IF q.target = None /\ q.resource \in DOMAIN input.world.resources
                     THEN input.world.resources[q.resource] ELSE q.target
           probe == [target |-> target, resource |-> None]
<1>1. SUFFICES ASSUME Q!A!Covered(q, w)
      PROVE  /\ input.world.history /\ input.world.running /\ ~input.world.queued
             /\ input.world.since <= w.from
             /\ \E r \in Q!A!All : r.category = "check" /\ r.from < w.to
             /\ \A r \in input.before : r.category = "check" /\ Q!A!InScope(r.place.target) =>
                    \A t \in w.from..(w.to - 1) :
                        ~Q!A!Unwatched(r.id, t, input.before) \/ ~Q!A!Unwatched(r.id, t, Q!A!All)
    BY DEF Q!A!CompleteIsCovered, Q!A!World, Q!A!Now
<1>2. w.from = 2 /\ w.to = (IF input.now < 4 THEN input.now ELSE 4) /\ input.now \in Nat
    BY WindowsAre DEF Coherent
<1>3. target = Q!A!CheckFilter.target
    BY DEF Coherent, Q!A!CheckFilter, Q!A!World
<1>4. /\ Q!A!Available(w)
      /\ Q!A!Selection(Q!A!Seen(1), probe, [from |-> 0, to |-> w.to], "check") # {}
      /\ Q!A!GapsIn(Q!A!Seen(1), [q EXCEPT !.target = target], w) = {}
    BY <1>1 DEF Q!A!Covered, Q!A!World
<1>5. /\ input.world.history /\ input.world.running /\ ~input.world.queued
      /\ input.world.since <= w.from
    BY <1>2, <1>4 DEF Q!A!Available, Q!A!World, Coherent
<1>6. Q!A!Seen(1) \in {input.before, Q!A!All} /\ Q!A!Seen(1) \subseteq Q!A!All
    BY SeenIs
<1>7. \E r \in Q!A!All : r.category = "check" /\ r.from < w.to
    <2> HIDE DEF w, probe
    <2> QED  BY <1>4, <1>6 DEF Q!A!Selection, Q!A!Overlaps
<1>8. ASSUME NEW r \in input.before, r.category = "check", Q!A!InScope(r.place.target),
             NEW t \in w.from..(w.to - 1)
      PROVE  ~Q!A!Unwatched(r.id, t, input.before) \/ ~Q!A!Unwatched(r.id, t, Q!A!All)
    <2> DEFINE f == [q EXCEPT !.target = target]
    <2>1. f.target = target
        BY DEF Coherent
    <2>2. f.target \in {None, r.place.target}
        BY <1>3, <1>8, <2>1 DEF Q!A!InScope
    <2>3. w.from \in Nat /\ w.to \in Nat /\ w.to <= input.now
        BY <1>2
    <2>4. r \in Q!A!All
        BY DEF Q!A!All
    <2> HIDE DEF f, w, target, q
    <2>5. ~Q!A!Unwatched(r.id, t, Q!A!Seen(1))
        BY <1>4, <1>6, <1>8, <2>2, <2>3, <2>4, NoGapIs DEF f
    <2> QED  BY <1>6, <2>5
<1> QED  BY <1>5, <1>7, <1>8

\* What is said of a deployment is observed, whatever the records are and whenever they are
\* written while it is asked (assessment.rs, query_deployment.rs, query_availability.rs).
THEOREM AssessmentIsObserved == ASSUME Coherent  PROVE Q!VerdictsAreObserved
    BY PassingIs, FailingIs, BlameIs, CompleteIs DEF Q!VerdictsAreObserved

\* The records that the assessment is run on are such ones.
Plausible(r) ==
    /\ RecordSane(r)
    /\ r.category = "check" => r.place.target = IF r.id = "c1" THEN "t1" ELSE "t2"
WorldSane(world) ==
    /\ world.since \in Nat /\ world.lost \subseteq Nat
    /\ \A x \in DOMAIN world.resources : world.resources[x] = "t1"
FilterSane(filter) == DOMAIN filter = {"target", "resource"} /\ filter.target \in {None, "t1"}

LEMMA InputIs ==
    ASSUME NEW before, NEW added, NEW turn, NEW instant \in Nat, NEW expected, NEW filter, NEW world,
           input = Q!Asked(before, added, turn, instant, expected, filter, world),
           \A r \in before \cup added : Plausible(r), FilterSane(filter), WorldSane(world)
    PROVE  Coherent
<1>1. /\ input.before = before /\ input.added = added /\ input.now = instant
      /\ input.filter = filter /\ input.world = world
    BY DEF Q!Asked
<1>2. \A r \in Q!A!All : Plausible(r)
    BY <1>1 DEF Q!A!All
<1>3. \A r \in Q!A!All : RecordSane(r)
    BY <1>2 DEF Plausible
<1>4. ASSUME NEW r \in Q!A!All, NEW o \in Q!A!All, r.category = "check", o.category = "check",
             r.id = o.id
      PROVE  r.place.target = o.place.target
    BY <1>2, <1>4 DEF Plausible
<1>5. input.now \in Nat
    BY <1>1
<1>6. /\ input.world.since \in Nat /\ input.world.lost \subseteq Nat
      /\ \A x \in DOMAIN input.world.resources : input.world.resources[x] = "t1"
    BY <1>1 DEF WorldSane
<1>7. DOMAIN input.filter = {"target", "resource"} /\ input.filter.target \in {None, "t1"}
    BY <1>1 DEF FilterSane
<1>8. ASSUME input.filter.resource \in DOMAIN input.world.resources
      PROVE  input.filter.target \in {None, input.world.resources[input.filter.resource]}
    BY <1>6, <1>7, <1>8
<1>9. \A r, o \in Q!A!All : r.category = "check" /\ o.category = "check" /\ r.id = o.id
                                => r.place.target = o.place.target
    BY <1>4
<1> QED  BY Zenon, <1>3, <1>5, <1>6, <1>7, <1>8, <1>9 DEF Coherent

LEMMA RunIs ==
    ASSUME NEW id \in {"c1", "c2"}, NEW begun \in Nat, NEW finished \in Nat, NEW oldest,
           NEW complete, NEW pending, NEW truncated, NEW until \in Nat,
           NEW target, target = IF id = "c1" THEN "t1" ELSE "t2"
    PROVE  Plausible(Q!A!Run(id, target, begun, finished, oldest, complete, pending, truncated, until))
    BY DEF Plausible, RecordSane, Q!A!Run, Q!A!Place

LEMMA FindingIs ==
    ASSUME NEW severity \in 1..3, NEW from \in Nat, NEW to \in Nat, from <= to,
           NEW closed, closed # None => closed \in Nat /\ to <= closed,
           NEW first \in Nat \cup {None}
    PROVE  Plausible(Q!Seen(severity, from, to, closed, first))
    BY DEF Plausible, RecordSane, Q!Seen, Q!A!Finding

LEMMA ReleasedIs ==
    ASSUME NEW id, NEW at \in Nat, NEW until, NEW content \in {"same", "other", "missing"},
           NEW verified, NEW waiting
    PROVE  Plausible(Q!A!Release(id, at, until, content, verified, waiting))
    BY DEF Plausible, RecordSane, Q!A!Release

LEMMA GoodIs == Plausible(Q!Good) /\ Plausible(Q!Other)
    BY RunIs DEF Q!Good, Q!Other

LEMMA FineIs == WorldSane(Q!Fine)
    BY DEF WorldSane, Q!Fine

LEMMA PlacesAre ==
    ASSUME NEW target \in {None, "t1"}, NEW resource
    PROVE  FilterSane(Q!Of(target, resource))
    BY DEF FilterSane, Q!Of, Q!A!Place

LEMMA ByRunsIs == Q!ByRuns => Coherent
<1> SUFFICES ASSUME Q!ByRuns  PROVE Coherent
    OBVIOUS
<1>1. \A r \in Q!Ran : Plausible(r)
    <2> SUFFICES ASSUME NEW r \in Q!Runs  PROVE Plausible(r)
        BY DEF Q!Ran
    <2>1. PICK s \in 1..3, f \in 1..4,
               flaw \in {"none", "old", "seen", "incomplete", "pending", "cut", "expired"} :
            r = Q!A!Run("c1", "t1", s, f,
                        IF flaw = "old" THEN 1 ELSE IF flaw = "seen" THEN s ELSE None,
                        flaw # "incomplete", IF flaw = "pending" THEN 1 ELSE 0, flaw = "cut",
                        IF flaw = "expired" THEN f ELSE 5)
        BY DEF Q!Runs
    <2>2. (IF flaw = "expired" THEN f ELSE 5) \in Nat /\ s \in Nat /\ f \in Nat
        OBVIOUS
    <2> QED  BY <2>1, <2>2, RunIs
<1>2. PICK r \in Q!Ran, o \in Q!Ran, turn \in {1, 4}, instant \in {3, 4} :
        input = Q!Asked({r}, {o}, turn, instant, None, Q!Of("t1", None), Q!Fine)
    BY DEF Q!ByRuns
<1>3. FilterSane(Q!Of("t1", None))
    BY PlacesAre
<1> QED  BY <1>1, <1>2, <1>3, FineIs, InputIs

LEMMA ByFindingsIs == Q!ByFindings => Coherent
<1> SUFFICES ASSUME Q!ByFindings  PROVE Coherent
    OBVIOUS
<1>1. ASSUME NEW f \in Q!Findings  PROVE Plausible(f) /\ FilterSane(f.place)
    <2>1. PICK sev \in {1, 2}, from \in 1..4, to \in 1..4, closed \in {None, 2, 4}, first \in {None, 1, 2} :
            f = Q!Seen(sev, from, to, closed, first)
        BY DEF Q!Findings, Q!Found
    <2>2. f.from = from /\ f.to = to /\ f.closed = closed /\ f.place = Q!A!Place("t1", "r1")
        BY <2>1 DEF Q!Seen, Q!A!Finding
    <2>3. from <= to /\ (closed # None => to <= closed)
        BY <2>2 DEF Q!Findings
    <2>4. /\ sev \in 1..3 /\ from \in Nat /\ to \in Nat
          /\ closed # None => closed \in Nat
          /\ first \in Nat \cup {None}
        OBVIOUS
    <2>6. Plausible(f)
        BY <2>1, <2>3, <2>4, FindingIs
    <2>5. FilterSane(f.place)
        BY <2>2 DEF FilterSane, Q!A!Place
    <2> QED  BY <2>6, <2>5
<1>2. ASSUME NEW e \in Q!Earlier, NEW r \in e  PROVE Plausible(r)
    <2>1. PICK sev \in {1, 2}, closed \in {None, 1, 2} : r = Q!Seen(sev, 0, 0, closed, None)
        BY <1>2 DEF Q!Earlier
    <2>2. PICK zero \in Nat : zero = 0
        OBVIOUS
    <2>3. r = Q!Seen(sev, zero, zero, closed, None)
        BY <2>1, <2>2
    <2>4. /\ sev \in 1..3 /\ zero <= zero
          /\ closed # None => closed \in Nat /\ zero <= closed
        BY <2>2
    <2> HIDE <2>2
    <2> QED  BY <2>3, <2>4, FindingIs
<1>3. PICK e \in Q!Earlier, f \in Q!Findings, turn \in {1, 6, 8}, instant \in {3, 4} :
        input = Q!Asked({Q!Good} \cup e, {f}, turn, instant, None, f.place, Q!Fine)
    BY DEF Q!ByFindings
<1>4. \A r \in ({Q!Good} \cup e) \cup {f} : Plausible(r)
    BY <1>1, <1>2, GoodIs
<1> QED  BY <1>1, <1>3, <1>4, FineIs, InputIs

LEMMA ByReleasesIs == Q!ByReleases => Coherent
<1> SUFFICES ASSUME Q!ByReleases  PROVE Coherent
    OBVIOUS
<1>1. \A r \in Q!Released : Plausible(r)
    <2> SUFFICES ASSUME NEW r \in Q!Released  PROVE Plausible(r)
        OBVIOUS
    <2>1. PICK at \in {1, 3, 4}, until \in {3, 5}, content \in {"same", "other", "missing"},
               verified \in BOOLEAN, waiting \in BOOLEAN :
            r = Q!A!Release("i1", at, until, content, verified, waiting)
        BY DEF Q!Released
    <2> QED  BY <2>1, ReleasedIs
<1>2. PICK r \in Q!Released, again \in {"i1", "i2"}, turn \in {1, 8}, instant \in {3, 4},
           expected \in {"revision", "digest"},
           o \in {[content |-> "same", verified |-> TRUE], [content |-> "other", verified |-> FALSE]} :
        input = Q!Asked({Q!Good, r}, {Q!A!Release(again, 3, 5, o.content, o.verified, FALSE)}, turn,
                        instant, expected, Q!Of("t1", None), Q!Fine)
    BY DEF Q!ByReleases
<1>3. Plausible(Q!A!Release(again, 3, 5, o.content, o.verified, FALSE))
    <2>1. PICK three \in Nat, five \in Nat : three = 3 /\ five = 5
        OBVIOUS
    <2>2. o.content \in {"same", "other", "missing"}
        OBVIOUS
    <2>3. Plausible(Q!A!Release(again, three, five, o.content, o.verified, FALSE))
        BY <2>2, ReleasedIs
    <2> QED  BY <2>1, <2>3
<1>4. FilterSane(Q!Of("t1", None))
    BY PlacesAre
<1>5. \A x \in {Q!Good, r} \cup {Q!A!Release(again, 3, 5, o.content, o.verified, FALSE)} : Plausible(x)
    BY <1>1, <1>3, GoodIs
<1>6. instant \in Nat
    OBVIOUS
<1> HIDE <1>3
<1> QED  BY <1>2, <1>4, <1>5, <1>6, FineIs, InputIs

LEMMA WorldsAre == \A world \in Q!Worlds : WorldSane(world)
<1> SUFFICES ASSUME NEW world \in Q!Worlds  PROVE WorldSane(world)
    OBVIOUS
<1> DEFINE fine == Q!Fine
<1>1. /\ fine.since = 0 /\ fine.lost = {} /\ fine.resources = [r \in {"r1"} |-> "t1"]
      /\ DOMAIN fine = {"history", "persisted", "since", "lost", "queued", "running", "resources",
                        "checks"}
    BY DEF Q!Fine
<1>2. \/ world \in {fine, [fine EXCEPT !.history = FALSE], [fine EXCEPT !.persisted = FALSE],
                    [fine EXCEPT !.since = 1], [fine EXCEPT !.since = 3],
                    [fine EXCEPT !.queued = TRUE], [fine EXCEPT !.running = FALSE],
                    [fine EXCEPT !.resources = [r \in {} |-> None]],
                    [fine EXCEPT !.checks = {Q!Check("c1", "t1", TRUE, FALSE)}]}
      \/ \E at \in {0, 3, 4} : world = [fine EXCEPT !.lost = {at}]
    BY DEF Q!Worlds
<1>3. \/ world = fine \/ world = [fine EXCEPT !.history = FALSE]
      \/ world = [fine EXCEPT !.persisted = FALSE]
      \/ world = [fine EXCEPT !.queued = TRUE] \/ world = [fine EXCEPT !.running = FALSE]
      \/ world = [fine EXCEPT !.checks = {Q!Check("c1", "t1", TRUE, FALSE)}]
      \/ world = [fine EXCEPT !.since = 1] \/ world = [fine EXCEPT !.since = 3]
      \/ world = [fine EXCEPT !.resources = [r \in {} |-> None]]
      \/ \E at \in {0, 3, 4} : world = [fine EXCEPT !.lost = {at}]
    BY <1>2
<1> HIDE DEF fine
<1>4. CASE world = fine \/ world = [fine EXCEPT !.history = FALSE]
           \/ world = [fine EXCEPT !.persisted = FALSE]
           \/ world = [fine EXCEPT !.queued = TRUE] \/ world = [fine EXCEPT !.running = FALSE]
           \/ world = [fine EXCEPT !.checks = {Q!Check("c1", "t1", TRUE, FALSE)}]
    <2>1. world.since = 0 /\ world.lost = {} /\ world.resources = [r \in {"r1"} |-> "t1"]
        BY <1>1, <1>4
    <2> QED  BY <2>1 DEF WorldSane
<1>5. CASE world = [fine EXCEPT !.since = 1] \/ world = [fine EXCEPT !.since = 3]
    <2>1. /\ world.since \in Nat /\ world.lost = {}
          /\ world.resources = [r \in {"r1"} |-> "t1"]
        BY <1>1, <1>5
    <2> QED  BY <2>1 DEF WorldSane
<1>6. CASE world = [fine EXCEPT !.resources = [r \in {} |-> None]]
    <2>1. world.since = 0 /\ world.lost = {} /\ world.resources = [r \in {} |-> None]
        BY <1>1, <1>6
    <2> QED  BY <2>1 DEF WorldSane
<1>7. ASSUME NEW at \in {0, 3, 4}, world = [fine EXCEPT !.lost = {at}]  PROVE WorldSane(world)
    <2>1. world.since = 0 /\ world.lost = {at} /\ world.resources = [r \in {"r1"} |-> "t1"]
        BY <1>1, <1>7
    <2> QED  BY <2>1 DEF WorldSane
<1> QED  BY <1>3, <1>4, <1>5, <1>6, <1>7

LEMMA ByCoverageIs == Q!ByCoverage => Coherent
<1> SUFFICES ASSUME Q!ByCoverage  PROVE Coherent
    OBVIOUS
<1>1. \A r \in Q!Sooner : Plausible(r)
    <2> SUFFICES ASSUME NEW r \in Q!Sooner  PROVE Plausible(r)
        OBVIOUS
    <2> DEFINE home(id) == IF id = "c1" THEN "t1" ELSE "t2"
               run(id, at, complete, until) ==
                   Q!A!Run(id, home(id), 0, at, None, complete, 0, FALSE, until)
    <2>6. Q!Sooner = {run(id, at, complete, until) : id \in {"c1", "c2"}, at \in {0, 1},
                                                     complete \in BOOLEAN, until \in 2..4}
        BY DEF Q!Sooner
    <2> HIDE DEF run
    <2>7. PICK id \in {"c1", "c2"}, at \in {0, 1}, complete \in BOOLEAN, until \in 2..4 :
            r = run(id, at, complete, until)
        BY <2>6
    <2>1. r = Q!A!Run(id, IF id = "c1" THEN "t1" ELSE "t2", 0, at, None, complete, 0, FALSE, until)
        BY <2>7 DEF run
    <2>2. PICK zero \in Nat : zero = 0
        OBVIOUS
    <2>3. PICK target : target = IF id = "c1" THEN "t1" ELSE "t2"
        OBVIOUS
    <2>4. r = Q!A!Run(id, target, zero, at, None, complete, zero, FALSE, until)
        BY <2>1, <2>2, <2>3
    <2>5. at \in Nat /\ until \in Nat
        OBVIOUS
    <2> HIDE <2>2
    <2> QED  BY <2>3, <2>4, <2>5, RunIs
<1>2. PICK rs \in {{}, {Q!Other}} \cup {{r, Q!Other} : r \in Q!Sooner}, instant \in {3, 4},
           f \in {Q!Of("t1", None), Q!Of(None, "r1"), Q!Of(None, None)}, world \in Q!Worlds :
        input = Q!Asked(rs, {Q!Good}, 1, instant, None, f, world)
    BY DEF Q!ByCoverage
<1>3. FilterSane(f)
    BY PlacesAre
<1>4. \A r \in rs \cup {Q!Good} : Plausible(r)
    BY <1>1, GoodIs
<1>5. instant \in Nat
    OBVIOUS
<1> QED  BY <1>2, <1>3, <1>4, <1>5, WorldsAre, InputIs


-----------------------------------------------------------------------------
(* Views: what the dashboard is shown of one snapshot.                     *)

LEMMA ViewSize == \A T : Q!V!Cardinality(T) = Cardinality(T)
    BY DEF Q!V!Cardinality, Cardinality

\* Of any set that can be counted, the best of any number are there to be taken.
LEMMA TopExists ==
    ASSUME NEW T, IsFiniteSet(T), NEW score \in [T -> Nat], NEW b \in Nat,
           \A x \in T : score[x] <= b, NEW n \in 0..Cardinality(T)
    PROVE  \E top \in SUBSET T :
              Cardinality(top) = n /\ \A x \in top, y \in T \ top : score[y] <= score[x]
<1> DEFINE Best(m, top) ==
               Cardinality(top) = m /\ \A x \in top, y \in T \ top : score[y] <= score[x]
           Wrong == {m \in 0..Cardinality(T) : ~\E top \in SUBSET T : Best(m, top)}
<1>1. Cardinality(T) \in Nat
    BY FS_CardinalityType
<1>2. SUFFICES ASSUME Wrong # {}  PROVE FALSE
    OBVIOUS
<1>3. PICK m \in Wrong : \A k \in Wrong : m <= k
    <2>1. Wrong \subseteq Nat
        BY <1>1
    <2> HIDE DEF Wrong
    <2> QED  BY <1>2, <2>1, FirstIs
<1>4. m # 0
    <2>1. Best(0, {}) /\ {} \in SUBSET T
        BY FS_EmptySet
    <2> QED  BY <1>3, <2>1
<1>5. m - 1 \in 0..Cardinality(T) /\ m - 1 < m /\ m \in Nat /\ m <= Cardinality(T)
    BY <1>1, <1>3, <1>4
<1>6. PICK top \in SUBSET T : Best(m - 1, top)
    <2>1. m - 1 \notin Wrong
        BY <1>3, <1>5
    <2> QED  BY <1>5, <2>1
<1>7. T \ top # {}
    <2>1. T \ top = {} => top = T
        OBVIOUS
    <2> QED  BY <1>1, <1>5, <1>6, <2>1
<1>8. PICK x \in T \ top : \A y \in T \ top : score[y] <= score[x]
    <2> DEFINE Scores == {score[y] : y \in T \ top}
    <2>1. Scores \subseteq Nat /\ Scores # {} /\ \A v \in Scores : v <= b
        BY <1>7
    <2>2. PICK v \in Scores : \A u \in Scores : v >= u
        <3> HIDE DEF Scores
        <3> QED  BY <2>1, Greatest
    <2>3. PICK x \in T \ top : v = score[x]
        OBVIOUS
    <2>4. ASSUME NEW y \in T \ top  PROVE score[y] <= score[x]
        <3>1. score[y] \in Scores
            OBVIOUS
        <3> QED  BY <2>2, <2>3, <3>1
    <2> QED  BY <2>4
<1>9. IsFiniteSet(top)
    BY FS_Subset
<1>10. Cardinality(top \cup {x}) = m
    <2>1. x \notin top
        BY <1>8
    <2>2. Cardinality(top \cup {x}) = Cardinality(top) + 1
        <3> HIDE <1>6
        <3> QED  BY <1>9, <2>1, FS_AddElement
    <2> QED  BY <1>5, <1>6, <2>2
<1>11. Best(m, top \cup {x})
    <2>1. ASSUME NEW p \in top \cup {x}, NEW y \in T \ (top \cup {x})  PROVE score[y] <= score[p]
        BY <1>6, <1>8
    <2> QED  BY <1>10, <2>1
<1> HIDE DEF Best
<1> QED  BY <1>3, <1>8, <1>11

LEMMA LowerIs ==
    ASSUME NEW m \in Nat, NEW n \in Nat
    PROVE  Q!V!Min({m, n}) = IF n < m THEN n ELSE m
<1>1. PICK v \in {m, n} : v = IF n < m THEN n ELSE m
    OBVIOUS
<1>2. \A u \in {m, n} : v <= u
    BY <1>1
<1>3. \A u \in {m, n} : (\A w \in {m, n} : u <= w) => u = v
    BY <1>1
<1> QED  BY <1>1, <1>2, <1>3 DEF Q!V!Min

LEMMA SubsetsOf ==
    ASSUME NEW n, NEW T
    PROVE  Q!V!kSubset(n, T) = {top \in SUBSET T : Cardinality(top) = n}
    BY ViewSize DEF Q!V!kSubset

\* The two worst, once another comes to them.
LEMMA PreviewIs ==
    ASSUME NEW kept, NEW f, IsFiniteSet(kept \cup {f}),
           \A g \in kept \cup {f} : g.severity \in 1..3,
           NEW top, top = Q!V!Preview(kept, f)
    PROVE  /\ top \subseteq kept \cup {f}
           /\ Cardinality(top) = IF Cardinality(kept \cup {f}) < 2 THEN Cardinality(kept \cup {f})
                                 ELSE 2
           /\ \A x \in top, y \in (kept \cup {f}) \ top : y.severity <= x.severity
<1> DEFINE T == kept \cup {f}
           n == IF Cardinality(T) < 2 THEN Cardinality(T) ELSE 2
           score == [g \in T |-> g.severity]
<1>1. Cardinality(T) \in Nat
    BY FS_CardinalityType
<1>2. PICK best \in SUBSET T :
        Cardinality(best) = n /\ \A x \in best, y \in T \ best : score[y] <= score[x]
    <2>1. score \in [T -> Nat] /\ \A g \in T : score[g] <= 3
        OBVIOUS
    <2>2. n \in 0..Cardinality(T)
        BY <1>1
    <2>3. PICK b \in Nat : b = 3
        OBVIOUS
    <2> HIDE DEF T, n, score
    <2> QED  BY <2>1, <2>2, <2>3, TopExists DEF T
<1>3. Q!V!Min({2, Cardinality(T)}) = n
    <2>1. PICK two \in Nat : two = 2
        OBVIOUS
    <2>2. Q!V!Min({two, Cardinality(T)}) = IF Cardinality(T) < two THEN Cardinality(T) ELSE two
        <3> HIDE DEF T
        <3> QED  BY <1>1, LowerIs
    <2> QED  BY <2>1, <2>2
<1>4. top = CHOOSE s \in Q!V!kSubset(n, T) : \A x \in s, y \in T \ s : ~(y.severity > x.severity)
    BY <1>3, ViewSize DEF Q!V!Preview, Q!V!Worst
<1>5. best \in Q!V!kSubset(n, T) /\ \A x \in best, y \in T \ best : ~(y.severity > x.severity)
    <2>1. best \in Q!V!kSubset(n, T)
        <3> HIDE DEF T, n, score
        <3> QED  BY <1>2, SubsetsOf
    <2>2. ASSUME NEW x \in best, NEW y \in T \ best  PROVE ~(y.severity > x.severity)
        <3>1. x \in T /\ y \in T
            BY <1>2
        <3>2. score[y] = y.severity /\ score[x] = x.severity
            BY <3>1
        <3>3. score[y] <= score[x] /\ x.severity \in 1..3 /\ y.severity \in 1..3
            BY <1>2, <3>1
        <3> QED  BY <3>2, <3>3
    <2> QED  BY <2>1, <2>2
<1>6. top \in Q!V!kSubset(n, T) /\ \A x \in top, y \in T \ top : ~(y.severity > x.severity)
    <2> HIDE DEF T, n, score
    <2> QED  BY <1>4, <1>5
<1>7. top \in SUBSET T /\ Cardinality(top) = n
    <2> HIDE DEF T, n, score
    <2> QED  BY <1>6, SubsetsOf
<1>8. ASSUME NEW x \in top, NEW y \in T \ top  PROVE y.severity <= x.severity
    BY <1>6, <1>7
<1> QED  BY <1>7, <1>8

\* What is kept of a set of findings: all of it while there are two at most, and then two of which
\* none is milder than one that is left out.
Shortened(all, kept) ==
    /\ kept \subseteq all
    /\ Cardinality(all) <= 2 => kept = all
    /\ Cardinality(all) > 2 => /\ Cardinality(kept) = 2
                               /\ \A f \in all \ kept, p \in kept : f.severity <= p.severity

LEMMA ShortenedStep ==
    ASSUME NEW all, IsFiniteSet(all), \A g \in all : g.severity \in 1..3, NEW x \in all,
           NEW kept, Shortened(all \ {x}, kept), NEW top, top = Q!V!Preview(kept, x)
    PROVE  Shortened(all, top)
<1> DEFINE less == all \ {x}
           T == kept \cup {x}
<1>1. /\ IsFiniteSet(less) /\ Cardinality(less) = Cardinality(all) - 1
      /\ Cardinality(all) \in Nat /\ Cardinality(less) \in Nat
    BY FS_RemoveElement, FS_CardinalityType
<1>2. T \subseteq all /\ kept \subseteq less /\ x \notin kept
    BY DEF Shortened
<1>3. IsFiniteSet(kept) /\ IsFiniteSet(T) /\ Cardinality(T) = Cardinality(kept) + 1
    <2>1. IsFiniteSet(kept)
        BY <1>1, <1>2, FS_Subset
    <2> QED  BY <1>2, <2>1, FS_AddElement
<1>4. Cardinality(kept) \in Nat /\ Cardinality(T) \in Nat
    BY <1>3, FS_CardinalityType
<1>5. \A g \in T : g.severity \in 1..3
    BY <1>2
<1>6. /\ top \subseteq T
      /\ Cardinality(top) = IF Cardinality(T) < 2 THEN Cardinality(T) ELSE 2
      /\ \A p \in top, y \in T \ top : y.severity <= p.severity
    BY <1>3, <1>5, PreviewIs
<1>7. top \subseteq all
    BY <1>2, <1>6
<1>8. CASE Cardinality(less) <= 2
    <2>1. kept = less /\ T = all
        BY <1>8 DEF Shortened
    <2>2. Cardinality(all) <= 2 => top = all
        <3> SUFFICES ASSUME Cardinality(all) <= 2  PROVE top = all
            OBVIOUS
        <3>1. Cardinality(top) = Cardinality(all)
            BY <1>1, <1>6, <2>1
        <3> QED  BY <1>7, <3>1, FS_Subset
    <2>3. Cardinality(all) > 2 => /\ Cardinality(top) = 2
                                  /\ \A f \in all \ top, p \in top : f.severity <= p.severity
        <3> SUFFICES ASSUME Cardinality(all) > 2
                     PROVE  /\ Cardinality(top) = 2
                            /\ \A f \in all \ top, p \in top : f.severity <= p.severity
            OBVIOUS
        <3>2. Cardinality(T) = Cardinality(all)
            BY <2>1
        <3>1. Cardinality(top) = 2
            <4> HIDE DEF T
            <4> QED  BY <1>1, <1>6, <3>2
        <3> QED  BY <1>6, <2>1, <3>1
    <2> QED  BY <1>7, <2>2, <2>3 DEF Shortened
<1>9. CASE ~(Cardinality(less) <= 2)
    <2>1. Cardinality(less) > 2 /\ Cardinality(all) > 2
        BY <1>1, <1>9
    <2>2. /\ Cardinality(kept) = 2
          /\ \A f \in less \ kept, p \in kept : f.severity <= p.severity
        BY <2>1 DEF Shortened
    <2>3. Cardinality(T) = 3 /\ Cardinality(top) = 2
        BY <1>3, <1>6, <2>2
    <2>4. PICK y \in T : y \notin top
        <3>1. T # top
            BY <2>3
        <3> QED  BY <1>6, <3>1
    <2>5. ASSUME NEW f \in all \ top, NEW p \in top  PROVE f.severity <= p.severity
        <3>1. CASE f \in T
            BY <1>6, <2>5, <3>1
        <3>2. CASE f \notin T /\ p \in kept
            BY <2>2, <3>2
        <3>3. CASE f \notin T /\ p = x
            <4>1. y \in kept /\ f \in less \ kept
                BY <2>4, <2>5, <3>3
            <4>2. f.severity <= y.severity
                BY <2>2, <4>1
            <4>3. y.severity <= p.severity
                BY <1>6, <2>4, <2>5
            <4>4. f.severity \in 1..3 /\ y.severity \in 1..3 /\ p.severity \in 1..3
                BY <1>2, <1>7, <4>1
            <4> QED  BY <4>2, <4>3, <4>4
        <3> QED  BY <1>6, <3>1, <3>2, <3>3
    <2> HIDE DEF less, T
    <2>6. ~(Cardinality(all) <= 2)
        BY <1>1, <2>1
    <2> QED  BY <1>7, <2>3, <2>5, <2>6 DEF Shortened
<1> QED  BY <1>8, <1>9

\* The findings of a resource are taken one by one: what is kept of those that were taken, as a
\* function of which they are.
OneOf(s) == CHOOSE x \in s : TRUE
Showing(g, T, n) ==
    /\ g = [s \in SUBSET T |-> g[s]]
    /\ \A s \in SUBSET T : Cardinality(s) <= n =>
            g[s] = IF s = {} THEN {} ELSE Q!V!Preview(g[s \ {OneOf(s)}], OneOf(s))

LEMMA OneOfIs == ASSUME NEW s, s # {}  PROVE OneOf(s) \in s
    BY DEF OneOf

LEMMA ShowingExists ==
    ASSUME NEW T, IsFiniteSet(T), NEW n \in Nat
    PROVE  \E g : Showing(g, T, n)
<1> DEFINE Wrong == {m \in Nat : ~\E g : Showing(g, T, m)}
<1>1. SUFFICES ASSUME Wrong # {}  PROVE FALSE
    OBVIOUS
<1>2. PICK m \in Wrong : \A k \in Wrong : m <= k
    <2>1. Wrong \subseteq Nat
        OBVIOUS
    <2> HIDE DEF Wrong
    <2> QED  BY <1>1, <2>1, FirstIs
<1>3. \A s \in SUBSET T : IsFiniteSet(s) /\ Cardinality(s) \in Nat /\ (Cardinality(s) = 0 <=> s = {})
    BY FS_Subset, FS_CardinalityType, FS_EmptySet
<1>4. CASE m = 0
    <2> DEFINE g == [s \in SUBSET T |-> {}]
    <2>1. ASSUME NEW s \in SUBSET T, Cardinality(s) <= 0  PROVE s = {}
        BY <1>3, <2>1
    <2>2. g = [s \in SUBSET T |-> g[s]] /\ \A s \in SUBSET T : g[s] = {}
        OBVIOUS
    <2>3. Showing(g, T, 0)
        <3> HIDE DEF g
        <3> QED  BY <2>1, <2>2 DEF Showing
    <2> QED  BY <1>2, <1>4, <2>3
<1>5. CASE m # 0
    <2>1. m - 1 \in Nat /\ m - 1 < m /\ m \in Nat
        BY <1>2, <1>5
    <2>2. PICK g : Showing(g, T, m - 1)
        BY <1>2, <2>1
    <2> DEFINE h == [s \in SUBSET T |->
                        IF Cardinality(s) <= m - 1 THEN g[s]
                        ELSE Q!V!Preview(g[s \ {OneOf(s)}], OneOf(s))]
    <2>3. ASSUME NEW s \in SUBSET T, Cardinality(s) <= m
          PROVE  h[s] = IF s = {} THEN {} ELSE Q!V!Preview(h[s \ {OneOf(s)}], OneOf(s))
        <3> DEFINE less == s \ {OneOf(s)}
        <3>1. CASE s = {}
            <4>1. Cardinality(s) <= m - 1
                BY <1>3, <2>1, <3>1
            <4> QED  BY <2>2, <3>1, <4>1 DEF Showing
        <3>2. CASE s # {}
            <4>1. OneOf(s) \in s
                BY <3>2, OneOfIs
            <4>2. Cardinality(less) = Cardinality(s) - 1 /\ less \in SUBSET T
                BY <1>3, <4>1, FS_RemoveElement
            <4>3. Cardinality(less) <= m - 1
                BY <1>3, <2>1, <2>3, <4>2
            <4>4. h[less] = g[less]
                BY <4>2, <4>3
            <4>5. h[s] = Q!V!Preview(g[less], OneOf(s))
                <5>1. CASE Cardinality(s) <= m - 1
                    BY <2>2, <3>2, <5>1 DEF Showing
                <5>2. CASE ~(Cardinality(s) <= m - 1)
                    BY <5>2
                <5> QED  BY <5>1, <5>2
            <4> HIDE DEF h
            <4> QED  BY <3>2, <4>4, <4>5
        <3> QED  BY <3>1, <3>2
    <2>4. Showing(h, T, m)
        <3>1. h = [s \in SUBSET T |-> h[s]]
            OBVIOUS
        <3> HIDE DEF h
        <3> QED  BY <2>3, <3>1 DEF Showing
    <2> HIDE DEF h
    <2> QED  BY <1>2, <2>4
<1> QED  BY <1>4, <1>5

LEMMA ShowingShortens ==
    ASSUME NEW T, IsFiniteSet(T), \A g \in T : g.severity \in 1..3,
           NEW g, Showing(g, T, Cardinality(T))
    PROVE  Shortened(T, g[T])
<1> DEFINE Wrong == {Cardinality(s) : s \in {u \in SUBSET T : ~Shortened(u, g[u])}}
<1>1. SUFFICES ASSUME ~Shortened(T, g[T])  PROVE FALSE
    OBVIOUS
<1>2. \A s \in SUBSET T : /\ IsFiniteSet(s) /\ Cardinality(s) \in Nat
                          /\ Cardinality(s) <= Cardinality(T)
    BY FS_Subset, FS_CardinalityType
<1>3. PICK m \in Wrong : \A k \in Wrong : m <= k
    <2>1. Wrong \subseteq Nat /\ Wrong # {}
        BY <1>1, <1>2
    <2> HIDE DEF Wrong
    <2> QED  BY <2>1, FirstIs
<1>4. PICK s \in SUBSET T : m = Cardinality(s) /\ ~Shortened(s, g[s])
    OBVIOUS
<1>5. g[s] = IF s = {} THEN {} ELSE Q!V!Preview(g[s \ {OneOf(s)}], OneOf(s))
    BY <1>2 DEF Showing
<1>6. CASE s = {}
    <2>1. Shortened({}, {})
        BY FS_EmptySet DEF Shortened
    <2> QED  BY <1>4, <1>5, <1>6, <2>1
<1>7. CASE s # {}
    <2>1. OneOf(s) \in s
        BY <1>7, OneOfIs
    <2> DEFINE less == s \ {OneOf(s)}
    <2>2. Cardinality(less) = Cardinality(s) - 1 /\ less \in SUBSET T /\ Cardinality(less) \in Nat
        BY <1>2, <2>1, FS_RemoveElement
    <2>3. Shortened(less, g[less])
        <3> SUFFICES ASSUME ~Shortened(less, g[less])  PROVE FALSE
            OBVIOUS
        <3>1. Cardinality(less) \in Wrong
            BY <2>2
        <3> HIDE DEF Wrong
        <3>2. m <= Cardinality(less) /\ m = Cardinality(s) /\ Cardinality(s) \in Nat
            BY <1>2, <1>3, <1>4, <3>1
        <3> QED  BY <2>2, <3>2
    <2>4. g[s] = Q!V!Preview(g[less], OneOf(s))
        BY <1>5, <1>7
    <2>5. Shortened(s, g[s])
        <3>1. IsFiniteSet(s) /\ \A f \in s : f.severity \in 1..3
            BY <1>2
        <3> HIDE DEF Wrong
        <3> QED  BY <2>1, <2>3, <2>4, <3>1, ShortenedStep
    <2> QED  BY <1>4, <2>5
<1> QED  BY <1>6, <1>7

LEMMA PreviewsAre ==
    ASSUME NEW r, IsFiniteSet(input.findings), \A f \in input.findings : f.severity \in 1..3
    PROVE  Shortened({f \in input.findings : f.resource = r}, Q!V!Previews(r))
<1> DEFINE T == {f \in input.findings : f.resource = r}
           Body(g) == [s \in SUBSET T |->
                        IF s = {} THEN {} ELSE Q!V!Preview(g[s \ {OneOf(s)}], OneOf(s))]
           whole == CHOOSE g : g = Body(g)
<1>1. IsFiniteSet(T) /\ Cardinality(T) \in Nat /\ \A f \in T : f.severity \in 1..3
    BY FS_Subset, FS_CardinalityType
<1>2. Q!V!Previews(r) = whole[T]
    BY DEF Q!V!Previews, Q!V!FoldSet, Q!V!MapThenFoldSet, OneOf, Q!V!Findings
<1>3. \A g : Showing(g, T, Cardinality(T)) <=> g = Body(g)
    <2>1. \A s \in SUBSET T : Cardinality(s) <= Cardinality(T)
        BY <1>1, FS_Subset
    <2> HIDE DEF T
    <2> QED  BY <2>1 DEF Showing
<1>4. \E g : g = Body(g)
    <2> HIDE DEF Body, T
    <2> QED  BY <1>1, <1>3, ShowingExists
<1>5. whole = Body(whole)
    <2> HIDE DEF Body
    <2> QED  BY <1>4
<1> HIDE DEF whole, Body, T
<1> QED  BY <1>1, <1>2, <1>3, <1>5, ShowingShortens DEF T

\* A snapshot that the monitor can publish: findings that can be counted, times that do not go on
\* without end, and each resource of one target.
Snapshot ==
    /\ input.now \in Nat
    /\ IsFiniteSet(input.findings) /\ \A f \in input.findings : f.severity \in 1..3
    /\ \A j \in DOMAIN input.jobs : input.jobs[j].freshness \in Nat
    /\ \A x \in Q!V!Observed : x[2].at \in Nat /\ x[2].until \in Nat \cup {None}
    /\ \E horizon \in Nat : \A x \in Q!V!Observed : x[2].at <= horizon
    /\ \A x, y \in Q!V!Observed : x[2].resource = y[2].resource
            => input.jobs[x[1]].target = input.jobs[y[1]].target
    /\ \A r \in DOMAIN input.health :
            input.health[r] \in {"healthy", "inactive", "degraded", "unhealthy", "unknown"}

LEMMA ObservedOf == \A x \in Q!V!Observed : x[1] \in DOMAIN input.jobs
    BY DEF Q!V!Observed, Q!V!Jobs

LEMMA EvidenceIs ==
    ASSUME Snapshot, NEW x \in Q!V!Observed, NEW e, e = Q!V!Evidence(x[1], x[2])
    PROVE  e.at = x[2].at /\ e.at \in Nat /\ e.expires \in Nat
<1> DEFINE end == x[2].at + input.jobs[x[1]].freshness
           ends == {end} \cup (IF x[2].until = None THEN {} ELSE {x[2].until})
<1>1. x[2].at \in Nat /\ x[2].until \in Nat \cup {None} /\ end \in Nat
    BY ObservedOf DEF Snapshot
<1>2. e.at = x[2].at /\ e.expires = Q!V!Min(ends)
    BY DEF Q!V!Evidence, Q!V!Jobs
<1>3. CASE x[2].until = None
    <2>1. ends = {end, end}
        BY <1>3
    <2> HIDE DEF end, ends
    <2>2. Q!V!Min(ends) \in Nat
        BY <1>1, <2>1, LowerIs
    <2> QED  BY <1>1, <1>2, <2>2
<1>4. CASE x[2].until # None
    <2>1. ends = {end, x[2].until} /\ x[2].until \in Nat
        BY <1>1, <1>4
    <2> HIDE DEF end, ends
    <2>2. Q!V!Min(ends) \in Nat
        BY <1>1, <2>1, LowerIs
    <2> QED  BY <1>1, <1>2, <2>2
<1> QED  BY <1>3, <1>4

\* Of evidence there is a newest.
LEMMA NewestIs ==
    ASSUME Snapshot, NEW T, T # {},
           \A e \in T : \E y \in Q!V!Observed : e = Q!V!Evidence(y[1], y[2])
    PROVE  \E e \in T : \A f \in T : f.at <= e.at
<1> DEFINE Times == {e.at : e \in T}
<1>1. PICK horizon \in Nat : \A x \in Q!V!Observed : x[2].at <= horizon
    BY DEF Snapshot
<1>2. \A e \in T : e.at \in Nat /\ e.at <= horizon
    BY <1>1, EvidenceIs
<1>3. Times \subseteq Nat /\ Times # {} /\ \A t \in Times : t <= horizon
    BY <1>2
<1>4. PICK t \in Times : \A u \in Times : t >= u
    <2> HIDE DEF Times
    <2> QED  BY <1>3, Greatest
<1>5. PICK e \in T : t = e.at
    OBVIOUS
<1>6. ASSUME NEW f \in T  PROVE f.at <= e.at
    <2>1. f.at \in Times
        OBVIOUS
    <2> HIDE DEF Times
    <2>2. t >= f.at /\ t \in Nat /\ f.at \in Nat
        BY <1>2, <1>3, <1>4, <2>1
    <2> QED  BY <1>5, <2>2
<1> QED  BY <1>6

\* The row of a resource that was observed.
LEMMA RowIs ==
    ASSUME Snapshot, NEW x \in Q!V!Observed, NEW r, r = x[2].resource, NEW row, row = Q!V!Row(r)
    PROVE  /\ row.id = r /\ row.target = input.jobs[x[1]].target
           /\ row.health = IF r \in DOMAIN input.health THEN input.health[r] ELSE "unknown"
           /\ row.expires \in Nat
           /\ \E y \in Q!V!Observed : /\ y[2].resource = r
                                      /\ row.expires = Q!V!Evidence(y[1], y[2]).expires
           /\ \E e \in row.evidence : /\ Q!V!SameSource(e, Q!V!Evidence(x[1], x[2]))
                                      /\ e.at >= x[2].at
<1> DEFINE own == {y \in Q!V!Observed : y[2].resource = r}
           all == {Q!V!Evidence(y[1], y[2]) : y \in own}
           newest == CHOOSE e \in all : \A f \in all : f.at <= e.at
           some == CHOOSE y \in own : TRUE
           this == Q!V!Evidence(x[1], x[2])
<1>1. /\ row.id = r /\ row.target = input.jobs[some[1]].target
      /\ row.health = IF r \in DOMAIN input.health THEN input.health[r] ELSE "unknown"
      /\ row.expires = newest.expires /\ row.evidence = Q!V!Attached(all)
    BY DEF Q!V!Row, Q!V!Jobs
<1>2. x \in own /\ this \in all
    OBVIOUS
<1>3. some \in Q!V!Observed /\ some[2].resource = x[2].resource
    <2>1. some \in own
        <3> HIDE DEF own
        <3> QED  BY <1>2
    <2> QED  BY <2>1
<1>4. row.target = input.jobs[x[1]].target
    <2> HIDE DEF some
    <2> QED  BY <1>1, <1>3 DEF Snapshot
<1>5. \A e \in all : \E y \in Q!V!Observed : y[2].resource = r /\ e = Q!V!Evidence(y[1], y[2])
    OBVIOUS
<1>6. newest \in all
    <2>1. \E e \in all : \A f \in all : f.at <= e.at
        <3> HIDE DEF all
        <3> QED  BY <1>2, <1>5, NewestIs
    <2> HIDE DEF all
    <2> QED  BY <2>1
<1>7. PICK y \in Q!V!Observed : y[2].resource = r /\ newest = Q!V!Evidence(y[1], y[2])
    BY <1>6
<1>8. newest.expires \in Nat
    <2> HIDE DEF newest
    <2> QED  BY <1>7, EvidenceIs
<1>9. PICK e \in all : /\ Q!V!SameSource(e, this)
                       /\ \A f \in all : Q!V!SameSource(f, this) => f.at <= e.at
    <2> DEFINE alike == {f \in all : Q!V!SameSource(f, this)}
    <2>1. this \in alike
        BY <1>2 DEF Q!V!SameSource
    <2>2. \A f \in alike : \E z \in Q!V!Observed : f = Q!V!Evidence(z[1], z[2])
        BY <1>5
    <2>3. PICK e \in alike : \A f \in alike : f.at <= e.at
        <3> HIDE DEF alike
        <3> QED  BY <2>1, <2>2, NewestIs
    <2> HIDE DEF all, this
    <2> QED  BY <2>3
<1>10. e.at >= x[2].at
    <2>1. Q!V!SameSource(this, this)
        BY DEF Q!V!SameSource
    <2>2. this.at <= e.at
        <3> HIDE DEF all, this
        <3> QED  BY <1>2, <1>9, <2>1
    <2>3. this.at = x[2].at /\ this.at \in Nat
        <3>1. PICK u : u = this
            OBVIOUS
        <3>2. u.at = x[2].at /\ u.at \in Nat
            BY <3>1, EvidenceIs
        <3> QED  BY <3>1, <3>2
    <2>4. e.at \in Nat
        <3> HIDE DEF all
        <3> QED  BY <1>5, EvidenceIs
    <2> HIDE DEF this
    <2> QED  BY <2>2, <2>3, <2>4
<1>11. e \in row.evidence
    <2>1. \A f \in all : Q!V!SameSource(e, f) => Q!V!SameSource(f, this)
        <3> HIDE DEF all, this
        <3> QED  BY <1>9 DEF Q!V!SameSource
    <2> HIDE DEF all, this
    <2> QED  BY <1>1, <1>9, <2>1 DEF Q!V!Attached
<1> HIDE DEF all, own, newest, some, this
<1>12. \E z \in Q!V!Observed : z[2].resource = r /\ row.expires = Q!V!Evidence(z[1], z[2]).expires
    BY <1>1, <1>7
<1>13. \E d \in row.evidence : Q!V!SameSource(d, Q!V!Evidence(x[1], x[2])) /\ d.at >= x[2].at
    BY <1>9, <1>10, <1>11 DEF this
<1> QED  BY <1>1, <1>4, <1>8, <1>12, <1>13

LEMMA CountIs ==
    ASSUME Snapshot, NEW t, NEW severity
    PROVE  /\ Q!V!Count(t, severity) \in Nat
           /\ Q!V!Count(t, severity) = 0
                => \A f \in input.findings : f.target = t => f.severity # severity
<1> DEFINE T == {f \in input.findings : f.target = t /\ f.severity = severity}
<1>1. Q!V!Count(t, severity) = Cardinality(T)
    BY ViewSize DEF Q!V!Count, Q!V!Findings
<1>2. IsFiniteSet(T)
    BY FS_Subset DEF Snapshot
<1>3. Cardinality(T) \in Nat /\ (Cardinality(T) = 0 => T = {})
    <2> HIDE DEF T
    <2> QED  BY <1>2, FS_CardinalityType, FS_EmptySet
<1> QED  BY <1>1, <1>3

\* What it takes to call a target well.
LEMMA WellIs ==
    ASSUME NEW t, Q!V!HealthOf(t) \in {"healthy", "inactive"},
           NEW shown, shown = {Q!V!CurrentHealth(r) : r \in {x \in Q!V!Resources : x.target = t}}
    PROVE  /\ ~(Q!V!Count(t, 3) > 0) /\ ~(Q!V!Count(t, 2) > 0)
           /\ "unhealthy" \notin shown /\ "degraded" \notin shown /\ "unknown" \notin shown
           /\ \A j \in DOMAIN input.jobs : input.jobs[j].target = t => Q!V!Complete(j)
<1> DEFINE own == {j \in DOMAIN input.jobs : input.jobs[j].target = t}
<1>1. Q!V!HealthOf(t) =
        IF Q!V!Count(t, 3) > 0 \/ "unhealthy" \in shown THEN "unhealthy"
        ELSE IF Q!V!Count(t, 2) > 0 \/ "degraded" \in shown THEN "degraded"
        ELSE IF own = {} \/ shown = {} \/ "unknown" \in shown \/ \E j \in own : ~Q!V!Complete(j)
             THEN "unknown"
        ELSE IF shown = {"inactive"} THEN "inactive" ELSE "healthy"
    BY DEF Q!V!HealthOf, Q!V!Jobs
<1>2. /\ ~(Q!V!Count(t, 3) > 0 \/ "unhealthy" \in shown)
      /\ ~(Q!V!Count(t, 2) > 0 \/ "degraded" \in shown)
      /\ ~("unknown" \in shown \/ \E j \in own : ~Q!V!Complete(j))
    <2> HIDE DEF own
    <2> QED  BY <1>1
<1> QED  BY <1>2

LEMMA WellHolds == ASSUME Snapshot  PROVE Q!V!WellIsKnown
<1> SUFFICES ASSUME NEW t \in {input.jobs[j].target : j \in DOMAIN input.jobs},
                    Q!V!HealthOf(t) \in {"healthy", "inactive"}
             PROVE  /\ \A j \in DOMAIN input.jobs : input.jobs[j].target = t =>
                          /\ input.results[j] # None /\ input.results[j].complete
                          /\ input.now <= input.results[j].finished + input.jobs[j].freshness
                    /\ \A x \in Q!V!Observed : input.jobs[x[1]].target = t =>
                          /\ x[2].resource \in DOMAIN input.health
                          /\ input.health[x[2].resource] \in {"healthy", "inactive"}
                          /\ \E y \in Q!V!Observed : /\ y[2].resource = x[2].resource
                                                 /\ input.now <= Q!V!Evidence(y[1], y[2]).expires
                    /\ \A f \in input.findings : f.target = t => f.severity = 1
    BY DEF Q!V!WellIsKnown, Q!V!Jobs, Q!V!Results, Q!V!Now, Q!V!Findings
<1>1. PICK shown : shown = {Q!V!CurrentHealth(r) : r \in {x \in Q!V!Resources : x.target = t}}
    OBVIOUS
<1>2. /\ ~(Q!V!Count(t, 3) > 0) /\ ~(Q!V!Count(t, 2) > 0)
      /\ "unhealthy" \notin shown /\ "degraded" \notin shown /\ "unknown" \notin shown
      /\ \A j \in DOMAIN input.jobs : input.jobs[j].target = t => Q!V!Complete(j)
    BY <1>1, WellIs
<1>3. ASSUME NEW j \in DOMAIN input.jobs, input.jobs[j].target = t
      PROVE  /\ input.results[j] # None /\ input.results[j].complete
             /\ input.now <= input.results[j].finished + input.jobs[j].freshness
    BY <1>2, <1>3 DEF Q!V!Complete, Q!V!Results, Q!V!Now, Q!V!Jobs
<1>4. ASSUME NEW f \in input.findings, f.target = t  PROVE f.severity = 1
    <2>1. PICK two \in Nat, three \in Nat : two = 2 /\ three = 3
        OBVIOUS
    <2>2. Q!V!Count(t, two) = 0 /\ Q!V!Count(t, three) = 0
        <3>1. Q!V!Count(t, two) \in Nat /\ Q!V!Count(t, three) \in Nat
            BY CountIs
        <3> QED  BY <1>2, <2>1, <3>1
    <2>3. f.severity # two /\ f.severity # three
        BY <1>4, <2>2, CountIs
    <2> QED  BY <2>1, <2>3 DEF Snapshot
<1>5. ASSUME NEW x \in Q!V!Observed, input.jobs[x[1]].target = t
      PROVE  /\ x[2].resource \in DOMAIN input.health
             /\ input.health[x[2].resource] \in {"healthy", "inactive"}
             /\ \E y \in Q!V!Observed : /\ y[2].resource = x[2].resource
                                        /\ input.now <= Q!V!Evidence(y[1], y[2]).expires
    <2>1. PICK r, row : r = x[2].resource /\ row = Q!V!Row(r)
        OBVIOUS
    <2>2. /\ row.target = t /\ row.expires \in Nat
          /\ row.health = IF r \in DOMAIN input.health THEN input.health[r] ELSE "unknown"
          /\ \E y \in Q!V!Observed : /\ y[2].resource = r
                                     /\ row.expires = Q!V!Evidence(y[1], y[2]).expires
        BY <1>5, <2>1, RowIs
    <2>3. row \in Q!V!Resources
        BY <2>1 DEF Q!V!Resources
    <2>4. Q!V!CurrentHealth(row) \in shown
        BY <1>1, <2>2, <2>3
    <2>5. Q!V!CurrentHealth(row) = IF input.now > row.expires THEN "unknown" ELSE row.health
        BY DEF Q!V!CurrentHealth, Q!V!Now
    <2>6. /\ ~(input.now > row.expires)
          /\ row.health # "unhealthy" /\ row.health # "degraded" /\ row.health # "unknown"
        <3>1. Q!V!CurrentHealth(row) \notin {"unhealthy", "degraded", "unknown"}
            BY <1>2, <2>4
        <3> QED  BY <2>5, <3>1
    <2>7. r \in DOMAIN input.health /\ row.health = input.health[r]
        BY <2>2, <2>6
    <2>8. input.health[r] \in {"healthy", "inactive"}
        BY <2>6, <2>7 DEF Snapshot
    <2>9. input.now <= row.expires
        BY <2>2, <2>6 DEF Snapshot
    <2> QED  BY <2>1, <2>2, <2>7, <2>8, <2>9
<1> QED  BY <1>3, <1>4, <1>5

\* The row of a resource that only a finding knows of.
LEMMA AbsentIs ==
    ASSUME NEW f \in input.findings, Q!V!Absent(f), NEW r, r = f.resource
    PROVE  /\ r \notin {x[2].resource : x \in Q!V!Observed}
           /\ Q!V!AbsentRow(CHOOSE g \in Q!V!Findings : g.resource = r /\ Q!V!Absent(g)).id = r
<1>1. r \notin {x[2].resource : x \in Q!V!Observed}
    BY DEF Q!V!Absent
<1>2. PICK g : g = CHOOSE h \in Q!V!Findings : h.resource = r /\ Q!V!Absent(h)
    OBVIOUS
<1>3. g.resource = r
    BY <1>2 DEF Q!V!Findings
<1>4. Q!V!AbsentRow(g).id = g.resource
    BY DEF Q!V!AbsentRow
<1> QED  BY <1>1, <1>2, <1>3, <1>4

LEMMA OverlookedHolds == ASSUME Snapshot  PROVE Q!V!NothingOverlooked
<1> DEFINE seen == {x[2].resource : x \in Q!V!Observed}
           absent == {f.resource : f \in {g \in Q!V!Findings : Q!V!Absent(g)}}
           Lost(r) == Q!V!AbsentRow(CHOOSE f \in Q!V!Findings : f.resource = r /\ Q!V!Absent(f))
<1>1. Q!V!Resources = {Q!V!Row(r) : r \in seen} \cup {Lost(r) : r \in absent}
    BY DEF Q!V!Resources
<1>2. ASSUME NEW x \in Q!V!Observed
      PROVE  \E row \in Q!V!Resources : /\ row.id = x[2].resource
                /\ \E e \in row.evidence : /\ Q!V!SameSource(e, Q!V!Evidence(x[1], x[2]))
                                           /\ e.at >= x[2].at
    <2>1. PICK r, row : r = x[2].resource /\ row = Q!V!Row(r)
        OBVIOUS
    <2>2. /\ row.id = r
          /\ \E e \in row.evidence : /\ Q!V!SameSource(e, Q!V!Evidence(x[1], x[2]))
                                     /\ e.at >= x[2].at
        BY <2>1, RowIs
    <2>3. row \in Q!V!Resources
        BY <1>1, <2>1
    <2> QED  BY <2>1, <2>2, <2>3
<1>3. \A r \in seen : Q!V!Row(r).id = r
    BY DEF Q!V!Row
<1>4. \A r \in absent : r \notin seen /\ Lost(r).id = r
    <2> SUFFICES ASSUME NEW r \in absent  PROVE r \notin seen /\ Lost(r).id = r
        OBVIOUS
    <2>1. PICK f \in input.findings : Q!V!Absent(f) /\ r = f.resource
        BY DEF Q!V!Findings
    <2> QED  BY <2>1, AbsentIs
<1>5. ASSUME NEW f \in input.findings, f.diagnosed, Q!V!Carriers(f) # {}
      PROVE  \E row \in Q!V!Resources : row.id = f.resource
    <2>1. CASE f.resource \in seen
        <3> HIDE DEF seen, absent, Lost
        <3> QED  BY <1>1, <1>3, <2>1
    <2>2. CASE f.resource \notin seen
        <3>1. f.resource \in absent
            BY <1>5, <2>2 DEF Q!V!Absent, Q!V!Findings
        <3> HIDE DEF seen, absent, Lost
        <3> QED  BY <1>1, <1>4, <3>1
    <2> QED  BY <2>1, <2>2
<1>6. ASSUME NEW row \in Q!V!Resources, NEW other \in Q!V!Resources, row.id = other.id
      PROVE  row = other
    <2> HIDE DEF seen, absent, Lost
    <2> QED  BY <1>1, <1>3, <1>4, <1>6
<1> QED  BY <1>2, <1>5, <1>6 DEF Q!V!NothingOverlooked, Q!V!Findings

\* The findings of one rule about one target, where there is one of them at least.
LEMMA MembersAre ==
    ASSUME Snapshot, NEW g \in Q!V!Groups
    PROVE  /\ Q!V!Members(g) \subseteq input.findings /\ Q!V!Members(g) # {}
           /\ IsFiniteSet(Q!V!Members(g))
           /\ Cardinality(Q!V!Members(g)) <= Cardinality(input.findings)
<1>1. PICK f \in input.findings : g = <<f.target, f.rule>>
    BY DEF Q!V!Groups, Q!V!Findings
<1>2. Q!V!Members(g) \subseteq input.findings /\ f \in Q!V!Members(g)
    BY <1>1 DEF Q!V!Members, Q!V!Findings
<1>3. IsFiniteSet(input.findings)
    BY DEF Snapshot
<1> QED  BY <1>2, <1>3, FS_Subset

LEMMA SeverityIs ==
    ASSUME Snapshot, NEW g \in Q!V!Groups
    PROVE  /\ Q!V!Severity(g) \in 1..3
           /\ \A f \in Q!V!Members(g) : f.severity <= Q!V!Severity(g)
<1> DEFINE T == {f.severity : f \in Q!V!Members(g)}
<1>1. T \subseteq 1..3 /\ T # {}
    BY MembersAre DEF Snapshot
<1>2. PICK m \in T : \A k \in T : m >= k
    <2>1. PICK b \in Nat : b = 3
        OBVIOUS
    <2>2. T \subseteq Nat /\ \A k \in T : k <= b
        BY <1>1, <2>1
    <2> HIDE DEF T
    <2> QED  BY <1>1, <2>2, Greatest
<1>3. Q!V!Max(T) \in T /\ \A k \in T : Q!V!Max(T) >= k
    <2> HIDE DEF T
    <2> QED  BY <1>2 DEF Q!V!Max
<1>4. Q!V!Severity(g) = Q!V!Max(T)
    BY DEF Q!V!Severity
<1>5. ASSUME NEW f \in Q!V!Members(g)  PROVE f.severity <= Q!V!Severity(g)
    <2>1. f.severity \in T
        OBVIOUS
    <2> HIDE DEF T
    <2>2. Q!V!Max(T) >= f.severity /\ f.severity \in 1..3 /\ Q!V!Max(T) \in 1..3
        BY <1>1, <1>3, <2>1
    <2> QED  BY <1>4, <2>2
<1> HIDE DEF T
<1> QED  BY <1>1, <1>3, <1>4, <1>5

LEMMA WidthIs ==
    ASSUME Snapshot, NEW g \in Q!V!Groups
    PROVE  Q!V!Width(g) \in Nat /\ Q!V!Width(g) <= Cardinality(input.findings)
<1> DEFINE M == Q!V!Members(g)
           T == {f.resource : f \in M}
           image == [f \in M |-> f.resource]
<1>1. image \in Surjection(M, T)
    BY DEF Surjection
<1>2. IsFiniteSet(T) /\ Cardinality(T) <= Cardinality(M)
    <2>1. IsFiniteSet(M)
        BY MembersAre
    <2> HIDE DEF image, T, M
    <2> QED  BY <1>1, <2>1, FS_Surjection
<1>3. Q!V!Width(g) = Cardinality(T)
    BY ViewSize DEF Q!V!Width
<1>4. /\ Cardinality(T) \in Nat /\ Cardinality(M) \in Nat /\ Cardinality(input.findings) \in Nat
      /\ Cardinality(M) <= Cardinality(input.findings)
    <2>1. /\ IsFiniteSet(M) /\ IsFiniteSet(input.findings)
          /\ Cardinality(M) <= Cardinality(input.findings)
        BY MembersAre DEF Snapshot
    <2> HIDE DEF M, T
    <2> QED  BY <1>2, <2>1, FS_CardinalityType
<1> HIDE DEF M, T
<1> QED  BY <1>2, <1>3, <1>4

\* Which group is worse is an order: how severe it is counts more than how many it concerns.
LEMMA ProblemsAre ==
    ASSUME Snapshot
    PROVE  /\ Q!V!Problems \subseteq Q!V!Groups /\ IsFiniteSet(Q!V!Groups)
           /\ Cardinality(Q!V!Problems) = IF Cardinality(Q!V!Groups) < 5
                                          THEN Cardinality(Q!V!Groups) ELSE 5
           /\ \A x \in Q!V!Problems, y \in Q!V!Groups \ Q!V!Problems : ~Q!V!Worse(y, x)
<1> DEFINE T == Q!V!Groups
           n == IF Cardinality(T) < 5 THEN Cardinality(T) ELSE 5
           N == Cardinality(input.findings)
           Score(g) == IF Q!V!Severity(g) = 1 THEN Q!V!Width(g)
                       ELSE IF Q!V!Severity(g) = 2 THEN Q!V!Width(g) + N + 1
                       ELSE Q!V!Width(g) + N + N + 2
           score == [g \in T |-> Score(g)]
<1>1. IsFiniteSet(T) /\ N \in Nat
    <2> DEFINE image == [f \in input.findings |-> <<f.target, f.rule>>]
    <2>1. image \in Surjection(input.findings, T)
        BY DEF Surjection, Q!V!Groups, Q!V!Findings
    <2>2. IsFiniteSet(input.findings)
        BY DEF Snapshot
    <2> HIDE DEF image, T
    <2> QED  BY <2>1, <2>2, FS_Surjection, FS_CardinalityType
<1>2. Cardinality(T) \in Nat
    <2> HIDE DEF T
    <2> QED  BY <1>1, FS_CardinalityType
<1>3. \A g \in T : Q!V!Severity(g) \in 1..3 /\ Q!V!Width(g) \in 0..N
    BY <1>1, SeverityIs, WidthIs
<1>4. \A g \in T : Score(g) \in Nat /\ Score(g) <= N + N + N + 2
    <2> HIDE DEF T, N
    <2> QED  BY <1>1, <1>3
<1>5. ASSUME NEW x \in T, NEW y \in T, Score(y) <= Score(x)  PROVE ~Q!V!Worse(y, x)
    <2> HIDE DEF T, N
    <2> QED  BY <1>1, <1>3, <1>5 DEF Q!V!Worse
<1>6. PICK best \in SUBSET T :
        Cardinality(best) = n /\ \A x \in best, y \in T \ best : score[y] <= score[x]
    <2>1. n \in 0..Cardinality(T)
        BY <1>2
    <2>2. score \in [T -> Nat] /\ \A g \in T : score[g] <= N + N + N + 2
        <3> HIDE DEF T, N, Score
        <3> QED  BY <1>4
    <2>3. PICK b \in Nat : b = N + N + N + 2
        BY <1>1
    <2> HIDE DEF T, N, n, score
    <2> QED  BY <1>1, <2>1, <2>2, <2>3, TopExists
<1>7. Q!V!Min({5, Cardinality(T)}) = n
    <2>1. PICK five \in Nat : five = 5
        OBVIOUS
    <2>2. Q!V!Min({five, Cardinality(T)}) = IF Cardinality(T) < five THEN Cardinality(T) ELSE five
        <3> HIDE DEF T
        <3> QED  BY <1>2, LowerIs
    <2> QED  BY <2>1, <2>2
<1>8. Q!V!Problems = CHOOSE s \in Q!V!kSubset(n, T) : \A x \in s, y \in T \ s : ~Q!V!Worse(y, x)
    BY <1>7, ViewSize DEF Q!V!Problems, Q!V!Worst
<1>9. best \in Q!V!kSubset(n, T) /\ \A x \in best, y \in T \ best : ~Q!V!Worse(y, x)
    <2>1. best \in Q!V!kSubset(n, T)
        <3> HIDE DEF T, n, score
        <3> QED  BY <1>6, SubsetsOf
    <2>2. ASSUME NEW x \in best, NEW y \in T \ best  PROVE ~Q!V!Worse(y, x)
        <3>1. x \in T /\ y \in T /\ score[y] <= score[x]
            <4> HIDE DEF T, n, score
            <4> QED  BY <1>6
        <3>2. score[x] = Score(x) /\ score[y] = Score(y)
            <4> HIDE DEF T, Score
            <4> QED  BY <3>1
        <3> HIDE DEF T, Score, score
        <3> QED  BY <1>5, <3>1, <3>2
    <2> QED  BY <2>1, <2>2
<1>10. /\ Q!V!Problems \in Q!V!kSubset(n, T)
       /\ \A x \in Q!V!Problems, y \in T \ Q!V!Problems : ~Q!V!Worse(y, x)
    <2> HIDE DEF T, n, score
    <2> QED  BY <1>8, <1>9
<1>11. Q!V!Problems \in SUBSET T /\ Cardinality(Q!V!Problems) = n
    <2> HIDE DEF T, n, score
    <2> QED  BY <1>10, SubsetsOf
<1> HIDE DEF score, Score, N
<1> QED  BY <1>1, <1>10, <1>11

LEMMA WorstHolds == ASSUME Snapshot  PROVE Q!V!WorstIsShown
<1>1. ASSUME NEW g \in Q!V!Groups \ Q!V!Problems
      PROVE  Q!V!Cardinality(Q!V!Problems) = 5 /\ \A h \in Q!V!Problems : ~Q!V!Worse(g, h)
    <2> DEFINE T == Q!V!Groups
               S == Q!V!Problems
    <2>1. /\ S \subseteq T /\ IsFiniteSet(T)
          /\ Cardinality(S) = IF Cardinality(T) < 5 THEN Cardinality(T) ELSE 5
          /\ \A x \in S, y \in T \ S : ~Q!V!Worse(y, x)
        BY ProblemsAre
    <2>2. Cardinality(S) # Cardinality(T)
        <3> HIDE DEF S, T
        <3>1. S # T
            BY <1>1 DEF S, T
        <3> QED  BY <2>1, <3>1, FS_Subset
    <2>3. Q!V!Cardinality(S) = Cardinality(S)
        BY ViewSize
    <2> HIDE DEF S, T
    <2> QED  BY <1>1, <2>1, <2>2, <2>3 DEF S, T
<1>2. ASSUME NEW f \in input.findings, f \notin Q!V!Previews(f.resource)
      PROVE  /\ Q!V!Counted(f.resource) > 2
             /\ \A p \in Q!V!Previews(f.resource) : p.severity >= f.severity
    <2> DEFINE all == {x \in input.findings : x.resource = f.resource}
    <2>1. PICK kept : kept = Q!V!Previews(f.resource)
        OBVIOUS
    <2>2. Shortened(all, kept)
        BY <2>1, PreviewsAre DEF Snapshot
    <2>3. Q!V!Counted(f.resource) = Cardinality(all)
        BY ViewSize DEF Q!V!Counted, Q!V!Findings
    <2>4. IsFiniteSet(all)
        BY FS_Subset DEF Snapshot
    <2>5. f \in all /\ f \notin kept /\ \A x \in all : x.severity \in 1..3
        BY <1>2, <2>1 DEF Snapshot
    <2> HIDE DEF all
    <2>6. Cardinality(all) > 2 /\ kept \subseteq all
        BY <2>2, <2>4, <2>5, FS_CardinalityType DEF Shortened
    <2>7. ASSUME NEW p \in kept  PROVE p.severity >= f.severity
        <3>1. f.severity <= p.severity /\ p \in all
            BY <2>2, <2>5, <2>6 DEF Shortened
        <3> QED  BY <2>5, <3>1
    <2> QED  BY <2>1, <2>3, <2>6, <2>7
<1>3. ASSUME NEW f \in input.findings
      PROVE  LET g == Q!V!Group(<<f.target, f.rule>>)
             IN  g.severity >= f.severity /\ g.findings >= 1 /\ (Q!V!Stale(f) => g.stale)
    <2>1. PICK id : id = <<f.target, f.rule>>
        OBVIOUS
    <2>2. id \in Q!V!Groups /\ f \in Q!V!Members(id)
        BY <2>1 DEF Q!V!Groups, Q!V!Members, Q!V!Findings
    <2>3. PICK g : g = Q!V!Group(id)
        OBVIOUS
    <2>4. /\ g.severity = Q!V!Severity(id) /\ g.findings = Q!V!Cardinality(Q!V!Members(id))
          /\ g.stale = \E x \in Q!V!Members(id) : Q!V!Stale(x)
        BY <2>3 DEF Q!V!Group
    <2>5. Q!V!Severity(id) >= f.severity
        <3>1. Q!V!Severity(id) \in 1..3 /\ f.severity <= Q!V!Severity(id) /\ f.severity \in 1..3
            BY <2>2, SeverityIs DEF Snapshot
        <3> QED  BY <3>1
    <2>6. Cardinality(Q!V!Members(id)) >= 1
        <3>1. IsFiniteSet(Q!V!Members(id)) /\ Q!V!Members(id) # {}
            BY <2>2, MembersAre
        <3>2. Cardinality(Q!V!Members(id)) \in Nat /\ Cardinality(Q!V!Members(id)) # 0
            BY <3>1, FS_CardinalityType, FS_EmptySet
        <3> QED  BY <3>2
    <2>7. g.severity >= f.severity /\ g.findings >= 1 /\ (Q!V!Stale(f) => g.stale)
        BY <2>2, <2>4, <2>5, <2>6, ViewSize
    <2> QED  BY <2>1, <2>3, <2>7
<1> QED  BY <1>1, <1>2, <1>3 DEF Q!V!WorstIsShown, Q!V!Findings

\* Of every snapshot: what it says of a target is known, and what it leaves out is no worse than
\* what it shows.
THEOREM ViewIsObserved == ASSUME Snapshot  PROVE Q!ViewIsHonest
    BY WellHolds, OverlookedHolds, WorstHolds DEF Q!ViewIsHonest

\* The snapshots that a view is made of are such ones.
LEMMA SnapshotIs ==
    ASSUME NEW jobs, NEW given, NEW found, NEW healths, NEW instant \in Nat,
           input = Q!Looked(jobs, given, found, healths, instant),
           IsFiniteSet(found), \A f \in found : f.severity \in 1..3,
           \A j \in DOMAIN jobs : jobs[j].freshness \in Nat /\ jobs[j].target = "t1",
           \A j \in DOMAIN jobs : given[j] # None =>
                \A o \in given[j].observations : o.at \in 1..2 /\ o.until \in {None, 2},
           \A r \in DOMAIN healths : healths[r] \in {"healthy", "inactive", "degraded", "unknown"}
    PROVE  Snapshot
<1>1. /\ input.jobs = jobs /\ input.results = given /\ input.findings = found
      /\ input.health = healths /\ input.now = instant
    BY DEF Q!Looked
<1>2. ASSUME NEW x \in Q!V!Observed
      PROVE  x[2].at \in 1..2 /\ x[2].until \in {None, 2} /\ x[1] \in DOMAIN jobs
    <2>1. PICK j \in DOMAIN jobs :
            given[j] # None /\ \E o \in given[j].observations : x = <<j, o>>
        BY <1>1 DEF Q!V!Observed, Q!V!Jobs, Q!V!Results
    <2>2. PICK o \in given[j].observations : x = <<j, o>>
        BY <2>1
    <2>3. x[1] = j /\ x[2] = o
        BY <2>2
    <2> QED  BY <2>1, <2>3
<1>3. \A x \in Q!V!Observed : x[2].at \in Nat /\ x[2].until \in Nat \cup {None}
    BY <1>2
<1>4. \E horizon \in Nat : \A x \in Q!V!Observed : x[2].at <= horizon
    <2>1. PICK horizon \in Nat : horizon = 2
        OBVIOUS
    <2>2. \A x \in Q!V!Observed : x[2].at <= horizon
        BY <1>2, <2>1
    <2> QED  BY <2>2
<1>5. \A x, y \in Q!V!Observed : input.jobs[x[1]].target = input.jobs[y[1]].target
    BY <1>1, <1>2
<1>6. \A r \in DOMAIN input.health :
            input.health[r] \in {"healthy", "inactive", "degraded", "unhealthy", "unknown"}
    BY <1>1
<1>7. /\ input.now \in Nat
      /\ IsFiniteSet(input.findings) /\ \A f \in input.findings : f.severity \in 1..3
      /\ \A j \in DOMAIN input.jobs : input.jobs[j].freshness \in Nat
    BY <1>1
<1> QED  BY <1>3, <1>4, <1>5, <1>6, <1>7 DEF Snapshot

LEMMA ByEvidenceIs == Q!ByEvidence => Snapshot
<1> SUFFICES ASSUME Q!ByEvidence  PROVE Snapshot
    OBVIOUS
<1>1. PICK seen \in SUBSET {"r1", "r2"}, sort \in {"state", "owner"}, at \in 1..2, again \in 1..2,
           until \in {None, 2}, complete \in BOOLEAN, late \in BOOLEAN, instant \in 2..4,
           of \in {"healthy", "inactive", "degraded", "unknown"},
           found \in {{}, {Q!Fault("r2", "t1", "down", 2, TRUE, None)},
                      {Q!Fault("r1", "t1", "slow", 1, FALSE, 1)}} :
        input = Q!Looked(Q!Two,
            [j \in {1, 2} |->
                IF j = 1 THEN Q!Result(at, complete,
                                       {Q!Observation(r, "state", at, None) : r \in seen})
                ELSE IF late THEN None
                ELSE Q!Result(again, TRUE, {Q!Observation("r1", sort, again, until)})],
            found, [r \in {"r1", "r2"} |-> IF r = "r1" THEN of ELSE "healthy"], instant)
    BY DEF Q!ByEvidence
<1> DEFINE given == [j \in {1, 2} |->
                        IF j = 1 THEN Q!Result(at, complete,
                                               {Q!Observation(r, "state", at, None) : r \in seen})
                        ELSE IF late THEN None
                        ELSE Q!Result(again, TRUE, {Q!Observation("r1", sort, again, until)})]
           healths == [r \in {"r1", "r2"} |-> IF r = "r1" THEN of ELSE "healthy"]
<1>2. IsFiniteSet(found)
    <2>1. PICK a, b : /\ a = Q!Fault("r2", "t1", "down", 2, TRUE, None)
                      /\ b = Q!Fault("r1", "t1", "slow", 1, FALSE, 1)
        OBVIOUS
    <2>2. found = {} \/ found = {a} \/ found = {b}
        BY <2>1
    <2>3. IsFiniteSet({}) /\ IsFiniteSet({a}) /\ IsFiniteSet({b})
        BY FS_EmptySet, FS_Singleton
    <2> QED  BY <2>2, <2>3
<1>3. \A f \in found : f.severity \in 1..3
    BY DEF Q!Fault
<1>4. /\ DOMAIN Q!Two = {1, 2}
      /\ \A j \in {1, 2} : Q!Two[j].freshness \in Nat /\ Q!Two[j].target = "t1"
    BY DEF Q!Two, Q!Watch
<1>5. ASSUME NEW j \in {1, 2}, given[j] # None, NEW o \in given[j].observations
      PROVE  o.at \in 1..2 /\ o.until \in {None, 2}
    <2>1. CASE j = 1
        <3>1. given[j].observations = {Q!Observation(r, "state", at, None) : r \in seen}
            BY <2>1 DEF Q!Result
        <3>2. PICK r \in seen : o = Q!Observation(r, "state", at, None)
            BY <1>5, <3>1
        <3> QED  BY <3>2 DEF Q!Observation
    <2>2. CASE j # 1
        <3>1. given[j].observations = {Q!Observation("r1", sort, again, until)}
            BY <1>5, <2>2 DEF Q!Result
        <3>2. o = Q!Observation("r1", sort, again, until)
            BY <1>5, <3>1
        <3> QED  BY <3>2 DEF Q!Observation
    <2> QED  BY <2>1, <2>2
<1>6. \A r \in DOMAIN healths : healths[r] \in {"healthy", "inactive", "degraded", "unknown"}
    OBVIOUS
<1>7. input = Q!Looked(Q!Two, given, found, healths, instant) /\ instant \in Nat
    BY <1>1
<1> HIDE DEF given, healths
<1> QED  BY <1>2, <1>3, <1>4, <1>5, <1>6, <1>7, SnapshotIs

LEMMA ByProblemsIs == Q!ByProblems => Snapshot
<1> SUFFICES ASSUME Q!ByProblems  PROVE Snapshot
    OBVIOUS
<1> DEFINE Of(grade, r) == Q!Fault(IF r \in {"a", "b", "c"} THEN "r1" ELSE "r2", "t1", r, grade[r],
                                   TRUE, None)
<1>1. PICK grade \in [Q!Rules -> 1..3], other \in 1..3 :
        input = Q!Looked([j \in {1} |-> Q!Watch("t1", "inventory", 2)], [j \in {1} |-> None],
            {Of(grade, r) : r \in Q!Rules}
            \cup {Q!Fault("r3", "t1", "a", other, FALSE, 1),
                  Q!Fault("r4", "t2", "a", other, TRUE, None)},
            [r \in {} |-> None], 2)
    BY DEF Q!ByProblems
<1> DEFINE many == {Of(grade, r) : r \in Q!Rules}
           more == {Q!Fault("r3", "t1", "a", other, FALSE, 1),
                    Q!Fault("r4", "t2", "a", other, TRUE, None)}
           jobs == [j \in {1} |-> Q!Watch("t1", "inventory", 2)]
           given == [j \in {1} |-> None]
           healths == [r \in {} |-> None]
<1>2. IsFiniteSet(Q!Rules)
    <2>1. Q!Rules = (({"a"} \cup {"b"}) \cup ({"c"} \cup {"d"})) \cup ({"e"} \cup {"f"})
        BY DEF Q!Rules
    <2>2. \A a, b : IsFiniteSet({a} \cup {b})
        BY FS_Singleton, FS_Union
    <2>3. \A a, b : IsFiniteSet(a) /\ IsFiniteSet(b) => IsFiniteSet(a \cup b)
        BY FS_Union
    <2> QED  BY <2>1, <2>2, <2>3
<1>3. IsFiniteSet(many \cup more)
    <2> DEFINE image == [r \in Q!Rules |-> Of(grade, r)]
    <2>1. image \in Surjection(Q!Rules, many)
        BY DEF Surjection
    <2>2. IsFiniteSet(many)
        <3> HIDE DEF image, many
        <3> QED  BY <1>2, <2>1, FS_Surjection
    <2>3. IsFiniteSet(more)
        <3>1. \A a, b : IsFiniteSet({a} \cup {b})
            BY FS_Singleton, FS_Union
        <3>2. PICK a, b : /\ a = Q!Fault("r3", "t1", "a", other, FALSE, 1)
                          /\ b = Q!Fault("r4", "t2", "a", other, TRUE, None)
            OBVIOUS
        <3>3. more = {a} \cup {b}
            BY <3>2
        <3> HIDE DEF more
        <3> QED  BY <3>1, <3>3
    <2> HIDE DEF many, more
    <2> QED  BY <2>2, <2>3, FS_Union
<1>4. ASSUME NEW f \in many \cup more  PROVE f.severity \in 1..3
    <2>1. CASE f \in many
        <3>1. PICK r \in Q!Rules : f = Of(grade, r)
            BY <2>1
        <3>2. f.severity = grade[r]
            BY <3>1 DEF Q!Fault
        <3> QED  BY <3>2
    <2>2. CASE f \in more
        BY <2>2 DEF Q!Fault
    <2> QED  BY <2>1, <2>2
<1>5. \A j \in DOMAIN jobs : jobs[j].freshness \in Nat /\ jobs[j].target = "t1" /\ given[j] = None
    BY DEF Q!Watch
<1>6. PICK instant \in Nat : instant = 2
    OBVIOUS
<1>7. input = Q!Looked(jobs, given, many \cup more, healths, instant)
    BY <1>1, <1>6
<1>8. DOMAIN healths = {} /\ DOMAIN jobs = {1}
    OBVIOUS
<1>9. PICK found : found = many \cup more
    OBVIOUS
<1> HIDE DEF jobs, given, many, more, healths
<1>10. /\ input = Q!Looked(jobs, given, found, healths, instant)
       /\ IsFiniteSet(found) /\ \A f \in found : f.severity \in 1..3
    BY <1>3, <1>4, <1>7, <1>9
<1>11. /\ \A j \in DOMAIN jobs : jobs[j].freshness \in Nat /\ jobs[j].target = "t1"
       /\ \A j \in DOMAIN jobs : given[j] # None =>
                \A o \in given[j].observations : o.at \in 1..2 /\ o.until \in {None, 2}
       /\ \A r \in DOMAIN healths : healths[r] \in {"healthy", "inactive", "degraded", "unknown"}
    BY <1>5, <1>8
<1> QED  BY <1>10, <1>11, SnapshotIs

-----------------------------------------------------------------------------
\* What an assessment and a view are made of stays as it is.
Answerable == (part = "assessment" => Coherent) /\ (part = "view" => Snapshot)

LEMMA InputsAre == SuiteInit => Answerable
<1> SUFFICES ASSUME SuiteInit  PROVE Answerable
    OBVIOUS
<1>1. ASSUME part = "assessment"  PROVE Coherent
    <2>1. Q!AssessmentInit
        BY Zenon, <1>1 DEF SuiteInit
    <2> QED  BY <2>1, ByRunsIs, ByFindingsIs, ByReleasesIs, ByCoverageIs DEF Q!AssessmentInit
<1>2. ASSUME part = "view"  PROVE Snapshot
    <2>1. Q!ViewInit
        BY Zenon, <1>2 DEF SuiteInit
    <2> QED  BY <2>1, ByEvidenceIs, ByProblemsIs DEF Q!ViewInit
<1> QED  BY <1>1, <1>2 DEF Answerable

LEMMA InputsStay == Answerable /\ [SuiteNext]_suiteVars => Answerable'
<1> SUFFICES ASSUME Answerable, [SuiteNext]_suiteVars  PROVE Answerable'
    OBVIOUS
<1>1. part' = part /\ input' = input
    BY DEF SuiteNext, suiteVars
<1>2. Coherent <=> Coherent'
    BY <1>1 DEF Coherent, RecordSane, Q!A!All
<1>3. Snapshot <=> Snapshot'
    <2>1. Q!V!Observed' = Q!V!Observed
        BY <1>1 DEF Q!V!Observed, Q!V!Jobs, Q!V!Results
    <2> QED  BY <1>1, <2>1 DEF Snapshot
<1> QED  BY <1>1, <1>2, <1>3 DEF Answerable

\* An assessment and a view say no more than was observed: a deployment is passed, failed or
\* called complete on records that show it (assessment.rs), and the dashboard calls a target well
\* on evidence that is valid and leaves out nothing that is worse than what it shows (overview.rs,
\* problem_groups.rs, resource_rows.rs).
THEOREM AnswersStayObserved == SuiteSpec => []AnswersAreObserved
<1>1. Answerable => AnswersAreObserved
    BY AssessmentIsObserved, ViewIsObserved DEF Answerable, AnswersAreObserved
<1> QED  BY <1>1, InputsAre, InputsStay, PTL DEF SuiteSpec, suiteVars

-----------------------------------------------------------------------------
(* Releases: where what runs came from.                                    *)

LEMMA OriginSize == \A T : L!L!Cardinality(T) = Cardinality(T)
    BY DEF L!L!Cardinality, Cardinality

\* Of a set that can be counted there is a greatest and a least number.
LEMMA BoundIs ==
    ASSUME NEW T, IsFiniteSet(T), T \subseteq Nat
    PROVE  \E b \in Nat : \A x \in T : x <= b
<1> DEFINE Bounded(s) == \E b \in Nat : \A x \in s : x <= b
           Wrong == {Cardinality(s) : s \in {u \in SUBSET T : ~Bounded(u)}}
<1>1. SUFFICES ASSUME ~Bounded(T)  PROVE FALSE
    OBVIOUS
<1>2. \A s \in SUBSET T : IsFiniteSet(s) /\ Cardinality(s) \in Nat
    BY FS_Subset, FS_CardinalityType
<1>3. PICK m \in Wrong : \A k \in Wrong : m <= k
    <2>1. Wrong \subseteq Nat /\ Wrong # {}
        BY <1>1, <1>2
    <2> HIDE DEF Wrong
    <2> QED  BY <2>1, FirstIs
<1>4. PICK s \in SUBSET T : m = Cardinality(s) /\ ~Bounded(s)
    OBVIOUS
<1>5. PICK x \in s : TRUE
    <2>1. Bounded({})
        OBVIOUS
    <2> QED  BY <1>4, <2>1
<1>6. Bounded(s \ {x})
    <2>1. Cardinality(s \ {x}) = Cardinality(s) - 1 /\ s \ {x} \in SUBSET T
        BY <1>2, FS_RemoveElement
    <2>2. SUFFICES ASSUME ~Bounded(s \ {x})  PROVE FALSE
        OBVIOUS
    <2>3. Cardinality(s \ {x}) \in Wrong
        BY <2>1, <2>2
    <2> HIDE DEF Wrong, Bounded
    <2>4. m <= Cardinality(s \ {x}) /\ Cardinality(s) \in Nat
        BY <1>2, <1>3, <2>3
    <2> QED  BY <1>4, <2>1, <2>4
<1>7. PICK b \in Nat : \A y \in s \ {x} : y <= b
    BY <1>6
<1>8. PICK c \in Nat : c >= b /\ c >= x
    <2>1. x \in Nat
        BY <1>4
    <2>2. CASE b >= x
        BY <2>2
    <2>3. CASE ~(b >= x)
        BY <2>1, <2>3
    <2> QED  BY <2>2, <2>3
<1>9. \A y \in s : y <= c
    <2> SUFFICES ASSUME NEW y \in s  PROVE y <= c
        OBVIOUS
    <2>1. y \in Nat /\ (y = x \/ y \in s \ {x})
        BY <1>4
    <2> QED  BY <1>7, <1>8, <2>1
<1> QED  BY <1>4, <1>9

LEMMA LatestIs ==
    ASSUME NEW T, IsFiniteSet(T), T \subseteq Nat, T # {}
    PROVE  L!L!Max(T) \in T /\ \A x \in T : x <= L!L!Max(T)
<1>1. PICK b \in Nat : \A x \in T : x <= b
    BY BoundIs
<1>2. PICK t \in T : \A x \in T : t >= x
    BY <1>1, Greatest
<1>3. L!L!Max(T) \in T /\ \A x \in T : L!L!Max(T) >= x
    BY <1>2 DEF L!L!Max
<1>4. ASSUME NEW x \in T  PROVE x <= L!L!Max(T)
    <2>1. L!L!Max(T) >= x /\ L!L!Max(T) \in Nat /\ x \in Nat
        BY <1>3
    <2> QED  BY <2>1
<1> QED  BY <1>3, <1>4

LEMMA EarliestIs ==
    ASSUME NEW T, T \subseteq Nat, T # {}
    PROVE  L!L!Min(T) \in T /\ \A x \in T : L!L!Min(T) <= x
    BY FirstIs DEF L!L!Min

\* Results as checks publish them: lists that end, and times and limits that are numbers.
Published ==
    /\ input.now \in Nat /\ input.job.freshness \in Nat
    /\ \A k \in DOMAIN input.freshness : input.freshness[k] \in Nat
    /\ IsFiniteSet(DOMAIN input.results)
    /\ \A k \in DOMAIN input.results :
          /\ IsFiniteSet(input.results[k].observations)
          /\ \A o \in input.results[k].observations : o.at \in Nat
          /\ \A op \in DOMAIN input.results[k].operations :
                input.results[k].operations[op].at \in Nat

\* The pairs of a check and what it has seen.
LEMMA PairsAre ==
    /\ \A x \in L!L!Observed : /\ x[1] \in DOMAIN input.results
                               /\ x[2] \in input.results[x[1]].observations /\ x = <<x[1], x[2]>>
    /\ \A k \in DOMAIN input.results : \A o \in input.results[k].observations :
            <<k, o>> \in L!L!Observed
<1>1. ASSUME NEW x \in L!L!Observed
      PROVE  /\ x[1] \in DOMAIN input.results
             /\ x[2] \in input.results[x[1]].observations /\ x = <<x[1], x[2]>>
    <2>1. PICK k \in DOMAIN input.results : \E o \in input.results[k].observations : x = <<k, o>>
        BY DEF L!L!Observed, L!L!Results
    <2>2. PICK o \in input.results[k].observations : x = <<k, o>>
        BY <2>1
    <2> QED  BY <2>1, <2>2
<1>2. ASSUME NEW k \in DOMAIN input.results, NEW o \in input.results[k].observations
      PROVE  <<k, o>> \in L!L!Observed
    BY DEF L!L!Observed, L!L!Results
<1> QED  BY <1>1, <1>2

LEMMA ObservedFinite == ASSUME Published  PROVE IsFiniteSet(L!L!Observed)
<1> DEFINE Of(k) == {<<k, o>> : o \in input.results[k].observations}
           parts == {Of(k) : k \in DOMAIN input.results}
           take == [k \in DOMAIN input.results |-> Of(k)]
<1>1. L!L!Observed = UNION parts
    BY DEF L!L!Observed, L!L!Results
<1>2. IsFiniteSet(parts)
    <2>1. take \in Surjection(DOMAIN input.results, parts)
        BY DEF Surjection
    <2>2. IsFiniteSet(DOMAIN input.results)
        BY DEF Published
    <2> HIDE DEF take, parts
    <2> QED  BY <2>1, <2>2, FS_Surjection
<1>3. ASSUME NEW T \in parts  PROVE IsFiniteSet(T)
    <2>1. PICK k \in DOMAIN input.results : T = Of(k)
        OBVIOUS
    <2> DEFINE S == input.results[k].observations
               pair == [o \in S |-> <<k, o>>]
    <2>2. pair \in Surjection(S, T)
        BY <2>1 DEF Surjection
    <2>3. IsFiniteSet(S)
        BY DEF Published
    <2> HIDE DEF pair, S
    <2> QED  BY <2>2, <2>3, FS_Surjection
<1> HIDE DEF parts
<1> QED  BY <1>1, <1>2, <1>3, FS_UNION

LEMMA LimitIs ==
    ASSUME Published, NEW k, NEW o
    PROVE  L!L!Limit(k, o) \in Nat
<1> DEFINE own == IF k \in DOMAIN input.freshness THEN input.freshness[k] ELSE input.job.freshness
           bound == {own, 150}
<1>1. own \in Nat
    BY DEF Published
<1>2. L!L!Min(bound) \in Nat
    <2>1. bound \subseteq Nat /\ bound # {}
        BY <1>1
    <2> HIDE DEF bound
    <2> QED  BY <2>1, EarliestIs
<1>3. L!L!Limit(k, o) \in {own, input.freshness["kube"], L!L!Min(bound)}
      /\ (L!L!Limit(k, o) \in {own, L!L!Min(bound)} \/ "kube" \in DOMAIN input.freshness)
    <2> HIDE DEF bound
    <2> QED  BY DEF L!L!Limit, L!L!Check, bound
<1> HIDE DEF bound, own
<1> QED  BY <1>1, <1>2, <1>3 DEF Published

\* What is known as a fact is what was observed, and no check has since failed to read it.
LEMMA FactIs ==
    ASSUME Published, NEW f \in L!L!Facts
    PROVE  /\ \E x \in L!L!Observed : f = x[2] /\ L!L!Vouched(x[1], x[2])
           /\ f.at \in Nat
<1>1. PICK x \in L!L!Observed : f = x[2] /\ L!L!Usable(x[1], x[2])
    BY DEF L!L!Facts, L!L!Youngest
<1>2. PICK k, o : k = x[1] /\ o = x[2]
    OBVIOUS
<1>3. k \in DOMAIN input.results /\ o \in input.results[k].observations /\ f = o
    BY <1>1, <1>2, PairsAre
<1>4. /\ input.now - o.at <= L!L!Limit(k, o)
      /\ o.operation \in DOMAIN input.results[k].operations
      /\ input.results[k].operations[o.operation].complete
      /\ input.results[k].operations[o.operation].at = L!L!Newest(input.results[k].target, o.operation)
    BY <1>1, <1>2 DEF L!L!Usable, L!L!Reported, L!L!Now, L!L!Results
<1>5. ASSUME NEW j \in DOMAIN input.results,
             input.results[j].target = input.results[k].target,
             o.operation \in DOMAIN input.results[j].operations
      PROVE  input.results[j].operations[o.operation].at
                <= input.results[k].operations[o.operation].at
    <2> DEFINE own == {r \in DOMAIN input.results :
                          /\ input.results[r].target = input.results[k].target
                          /\ o.operation \in DOMAIN input.results[r].operations}
               T == {input.results[r].operations[o.operation].at : r \in own}
               take == [r \in own |-> input.results[r].operations[o.operation].at]
    <2>1. IsFiniteSet(T)
        <3>1. take \in Surjection(own, T)
            BY DEF Surjection
        <3>2. IsFiniteSet(own)
            BY FS_Subset DEF Published
        <3> HIDE DEF take, own, T
        <3> QED  BY <3>1, <3>2, FS_Surjection
    <2>2. T \subseteq Nat /\ input.results[j].operations[o.operation].at \in T
        BY <1>5 DEF Published
    <2>3. L!L!Newest(input.results[k].target, o.operation) = L!L!Max(T)
        BY DEF L!L!Newest, L!L!Results
    <2> HIDE DEF T
    <2> QED  BY <1>4, <2>1, <2>2, <2>3, LatestIs
<1>6. L!L!Vouched(k, o)
    <2> SUFFICES ASSUME NEW j \in DOMAIN input.results,
                        input.results[j].target = input.results[k].target,
                        o.operation \in DOMAIN input.results[j].operations
                 PROVE  \/ input.results[j].operations[o.operation].at
                                < input.results[k].operations[o.operation].at
                        \/ /\ input.results[j].operations[o.operation].at
                                = input.results[k].operations[o.operation].at
                           /\ input.results[k].operations[o.operation].complete
        BY <1>4 DEF L!L!Vouched, L!L!Results, L!L!Now
    <2>1. /\ input.results[j].operations[o.operation].at \in Nat
          /\ input.results[k].operations[o.operation].at \in Nat
        BY <1>3, <1>4 DEF Published
    <2> QED  BY <1>4, <1>5, <2>1
<1>7. f.at \in Nat
    BY <1>3 DEF Published
<1> QED  BY <1>1, <1>2, <1>3, <1>6, <1>7

LEMMA FactsFinite == ASSUME Published  PROVE IsFiniteSet(L!L!Facts)
<1> DEFINE all == {x[2] : x \in L!L!Observed}
           take == [x \in L!L!Observed |-> x[2]]
<1>1. IsFiniteSet(all)
    <2>1. take \in Surjection(L!L!Observed, all)
        BY DEF Surjection
    <2> HIDE DEF take, all
    <2> QED  BY <2>1, ObservedFinite, FS_Surjection
<1>2. L!L!Facts \subseteq all
    BY DEF L!L!Facts, L!L!Youngest
<1> HIDE DEF all
<1> QED  BY <1>1, <1>2, FS_Subset

LEMMA RetriesHold == L!L!RetriesHideNothing
<1> SUFFICES ASSUME NEW k \in DOMAIN input.results, NEW b \in input.results[k].observations,
                    L!L!Superseded(b, input.results[k].observations)
             PROVE  \E s \in input.results[k].observations :
                        /\ s.data.kind = "build" /\ s.data.state = "ready"
                        /\ s.data.created > b.data.created
                        /\ s.data.revision = b.data.revision /\ s.data.revision # None
    BY DEF L!L!RetriesHideNothing, L!L!Results
<1>1. PICK s \in input.results[k].observations :
        /\ s.data.kind = "build" /\ s.data.state = "ready" /\ s.data.created > b.data.created
        /\ None \notin {s.data.pipeline, s.data.revision, s.data.for}
        /\ <<s.data.pipeline, s.data.revision, s.data.for>>
              = <<b.data.pipeline, b.data.revision, b.data.for>>
    BY DEF L!L!Superseded
<1>2. s.data.revision = b.data.revision /\ s.data.revision # None
    BY <1>1
<1> QED  BY <1>1, <1>2

\* Of one thing it can be said which it is.
LEMMA OneIs ==
    ASSUME NEW T, IsFiniteSet(T), L!L!TheOne(T) # None
    PROVE  T = {L!L!TheOne(T)}
<1>1. Cardinality(T) = 1
    BY OriginSize DEF L!L!TheOne
<1>2. PICK x : T = {x}
    BY <1>1, FS_Singleton
<1>3. L!L!TheOne(T) = CHOOSE y \in T : TRUE
    BY <1>1, OriginSize DEF L!L!TheOne
<1> QED  BY <1>2, <1>3

\* What is said of an image, part by part.
Artifacts(facts, image) ==
    {f \in L!L!Of(facts, "artifact") : f.data.image = image.data.desired.image}
Registries(facts, image) == {f \in Artifacts(facts, image) : ~f.data.built}
Entries(facts, image) == {f.data : f \in Registries(facts, image)}

Apart(t) == {d \in t.digests : d # t.wanted /\ d \notin t.children}

LEMMA RuntimeIs ==
    ASSUME NEW facts, NEW image, NEW t, t = L!L!Trace(facts, image)
    PROVE  t.runtime = {f \in IF image.data.observed # None /\ image \in facts THEN {image}
                                  ELSE L!L!Below(facts, image) :
                               f.data.desired.image = image.data.desired.image}
BY DEF L!L!Trace

LEMMA DigestsIs ==
    ASSUME NEW facts, NEW image, NEW t, t = L!L!Trace(facts, image)
    PROVE  t.digests = {f.data.observed : f \in t.runtime}
BY DEF L!L!Trace

LEMMA WantedIs ==
    ASSUME NEW facts, NEW image, NEW t, t = L!L!Trace(facts, image)
    PROVE  t.wanted = L!L!TheOne(L!L!Expected(Entries(facts, image), image.data.desired))
BY DEF L!L!Trace, Entries, Registries, Artifacts, Apart

LEMMA ChildrenAre ==
    ASSUME NEW facts, NEW image, NEW t, t = L!L!Trace(facts, image)
    PROVE  t.children = L!L!ChildrenOf(Entries(facts, image), t.wanted)
BY DEF L!L!Trace, Entries, Registries, Artifacts, Apart

LEMMA GraceIs ==
    ASSUME NEW facts, NEW image, NEW t, t = L!L!Trace(facts, image)
    PROVE  L!L!InGrace(facts, image) => t.pending
BY DEF L!L!Trace

LEMMA BuildsAre ==
    ASSUME NEW facts, NEW image, NEW t, t = L!L!Trace(facts, image)
    PROVE  t.builds = {f \in Artifacts(facts, image) :
                         /\ f.data.built
                         /\ \/ f.data.digest \in t.digests
                            \/ f.data.digest = t.wanted /\ t.children # {}}
BY DEF L!L!Trace, Artifacts

LEMMA RevisionOf ==
    ASSUME NEW facts, NEW image, NEW t, t = L!L!Trace(facts, image)
    PROVE  t.revision = L!L!TheOne({f.data.revision : f \in t.builds \cup L!L!Mapped(facts, image.data)} \ {None})
BY DEF L!L!Trace

LEMMA CommitsAre ==
    ASSUME NEW facts, NEW image, NEW t, t = L!L!Trace(facts, image)
    PROVE  \A f \in t.commits : f \in L!L!Of(facts, "commit") /\ f.data.revision = t.revision
BY DEF L!L!Trace

LEMMA RegistryIs ==
    ASSUME NEW facts, NEW image, NEW t, t = L!L!Trace(facts, image)
    PROVE  t.registry <=> /\ t.digests # {} /\ t.wanted # None /\ Apart(t) = {}
                          /\ \A d \in t.digests :
                                d \in t.children \/ \E r \in Entries(facts, image) : r.digest = d
BY DEF L!L!Trace, Entries, Registries, Artifacts, Apart

LEMMA BuildIs ==
    ASSUME NEW facts, NEW image, NEW t, t = L!L!Trace(facts, image)
    PROVE  t.build <=> /\ t.revision # None /\ t.digests # {}
                       /\ \/ L!L!Mapped(facts, image.data) # {}
                          \/ \A d \in t.digests : \E f \in t.builds :
                                \/ f.data.digest = d
                                \/ f.data.digest = t.wanted /\ d \in t.children
<1>1. t.build = (/\ t.revision # None /\ t.digests # {}
                 /\ \/ L!L!Mapped(facts, image.data) # {}
                    \/ L!L!AllBuilt(t.digests, t.builds, t.wanted, t.children))
    BY Zenon DEF L!L!Trace
<1> QED  BY <1>1 DEF L!L!AllBuilt

LEMMA CommitIs ==
    ASSUME NEW facts, NEW image, NEW t, t = L!L!Trace(facts, image)
    PROVE  t.commit <=> Cardinality({f.data.repository : f \in t.commits}) = 1
BY OriginSize DEF L!L!Trace

LEMMA MismatchIs ==
    ASSUME NEW facts, NEW image, NEW t, t = L!L!Trace(facts, image)
    PROVE  t.mismatch <=> /\ ~t.pending
                          /\ \/ /\ \/ t.children # {}
                                   \/ \E r \in Entries(facts, image) : r.digest = t.wanted /\ r.manifest = "image"
                                /\ t.wanted # None /\ Apart(t) # {}
                             \/ /\ image.data.revision # None /\ t.revision # None
                                /\ ~L!L!RevisionMatches(image.data.revision, t.revision)
BY DEF L!L!Trace, Entries, Registries, Artifacts, Apart

Sources(facts, image, t) ==
    t.runtime \cup Registries(facts, image) \cup t.builds \cup L!L!Mapped(facts, image.data)
        \cup t.commits

LEMMA UntilIs ==
    ASSUME NEW facts, NEW image, NEW t, t = L!L!Trace(facts, image), Sources(facts, image, t) # {}
    PROVE  t.until = L!L!Min({L!L!Expires(f) : f \in Sources(facts, image, t)})
BY DEF L!L!Trace, Registries, Artifacts, Sources

\* What the parts are of.
LEMMA PartsAre ==
    ASSUME Published, NEW image \in L!L!Candidates, NEW facts, facts = L!L!Facts,
           NEW t, t = L!L!Trace(facts, image),
           NEW mapped, mapped = L!L!Mapped(facts, image.data)
    PROVE  /\ \A f \in t.runtime : /\ f \in facts /\ f.data.kind = "image"
                                   /\ f.target = input.job.target
           /\ t.builds \subseteq Artifacts(facts, image)
           /\ Artifacts(facts, image) \subseteq facts /\ t.commits \subseteq facts
           /\ \A f \in mapped : /\ f \in L!L!Of(facts, "build") /\ f.data.state = "ready"
                                /\ f.data.revision # None /\ image.data.revision # None
                                /\ L!L!RevisionMatches(image.data.revision, f.data.revision)
           /\ IsFiniteSet(t.builds) /\ IsFiniteSet(mapped) /\ IsFiniteSet(t.commits)
<1>1. image.target = input.job.target /\ image.data.kind = "image"
    BY DEF L!L!Candidates, L!L!Youngest, L!L!Check
<1>2. t.runtime = {f \in IF image.data.observed # None /\ image \in facts THEN {image}
                             ELSE L!L!Below(facts, image) :
                          f.data.desired.image = image.data.desired.image}
    BY RuntimeIs
<1>3. ASSUME NEW f \in t.runtime
      PROVE  f \in facts /\ f.data.kind = "image" /\ f.target = input.job.target
    <2>1. (f = image /\ image \in facts) \/ f \in L!L!Below(facts, image)
        BY <1>2
    <2> QED  BY <1>1, <2>1 DEF L!L!Below, L!L!Of
<1>4. t.builds \subseteq Artifacts(facts, image) /\ \A f \in t.commits : f \in L!L!Of(facts, "commit")
    BY BuildsAre, CommitsAre
<1>5. Artifacts(facts, image) \subseteq facts /\ t.commits \subseteq facts
    BY <1>4 DEF Artifacts, L!L!Of
<1>6. \A f \in mapped : /\ f \in L!L!Of(facts, "build") /\ f.data.state = "ready"
                        /\ f.data.revision # None /\ image.data.revision # None
                        /\ L!L!RevisionMatches(image.data.revision, f.data.revision)
    BY DEF L!L!Mapped
<1>7. IsFiniteSet(facts)
    BY FactsFinite
<1>8. t.builds \subseteq facts /\ mapped \subseteq facts
    BY <1>4, <1>5, <1>6 DEF L!L!Of
<1> HIDE <1>2
<1> QED  BY <1>3, <1>4, <1>5, <1>6, <1>7, <1>8, FS_Subset

\* The revisions of the builds, when there is one.
LEMMA RevisionIs ==
    ASSUME Published, NEW image \in L!L!Candidates, NEW facts, facts = L!L!Facts,
           NEW t, t = L!L!Trace(facts, image), t.revision # None
    PROVE  {f.data.revision : f \in t.builds \cup L!L!Mapped(facts, image.data)} \ {None}
                = {t.revision}
<1> DEFINE mapped == L!L!Mapped(facts, image.data)
           named == t.builds \cup mapped
           all == {f.data.revision : f \in named}
           take == [f \in named |-> f.data.revision]
<1>1. IsFiniteSet(named)
    <2>1. IsFiniteSet(t.builds) /\ IsFiniteSet(mapped)
        BY PartsAre
    <2> QED  BY <2>1, FS_Union
<1>2. IsFiniteSet(all)
    <2>1. take \in Surjection(named, all)
        BY DEF Surjection
    <2> HIDE DEF take, named, all
    <2> QED  BY <1>1, <2>1, FS_Surjection
<1>3. IsFiniteSet(all \ {None})
    <2> HIDE DEF all
    <2> QED  BY <1>2, FS_Subset
<1>4. t.revision = L!L!TheOne(all \ {None})
    <2>1. t.revision = L!L!TheOne({f.data.revision : f \in t.builds \cup L!L!Mapped(facts, image.data)} \ {None})
        BY RevisionOf
    <2> QED  BY <2>1
<1> HIDE DEF all
<1>5. all \ {None} = {t.revision}
    BY <1>3, <1>4, OneIs
<1> QED  BY <1>5 DEF all

\* What stands behind an image that is called healthy.
Standing == {x[2] : x \in {y \in L!L!Observed : L!L!Vouched(y[1], y[2])}}
Commits == {f.data : f \in L!L!Of(Standing, "commit")}
Listings(image) ==
    {a \in {f.data : f \in L!L!Of(Standing, "artifact")} : a.image = image.data.desired.image}
Vindicated(image, t) == \E revision \in {c.revision : c \in Commits} :
    /\ image.data.revision # None /\ ~t.pending
            => L!L!RevisionMatches(image.data.revision, revision)
    /\ t.digests # {}
    /\ \A d \in t.digests :
          /\ \E f \in L!L!Of(Standing, "image") : f.data.observed = d /\ f.target = input.job.target
          /\ \E a \in Listings(image) : ~a.built /\ d \in {a.digest} \cup a.children
          /\ \/ \E a \in Listings(image) :
                    /\ a.built /\ a.revision \in {revision, None}
                    /\ \/ a.digest = d
                       \/ \E g \in Listings(image) : g.digest = a.digest /\ d \in g.children
             \/ \E f \in L!L!Of(Standing, "build") :
                    f.data.state = "ready" /\ f.data.revision = revision
    /\ \E c \in Commits : c.revision = revision

LEMMA VerifiedOne ==
    ASSUME Published, L!L!ConstantsAssumption, NEW image \in L!L!Candidates,
           NEW facts, facts = L!L!Facts, NEW t, t = L!L!Trace(facts, image),
           L!L!Verdict(image, t, input.now) = "healthy"
    PROVE  Vindicated(image, t)
<1>a. PICK standing : standing = Standing
    OBVIOUS
<1>b. PICK commits : commits = Commits
    OBVIOUS
<1>c. PICK own : own = Listings(image)
    OBVIOUS
<1>1. PICK entries : entries = Entries(facts, image)
    OBVIOUS
<1>2. PICK mapped : mapped = L!L!Mapped(facts, image.data)
    OBVIOUS
<1>3. PICK apart : apart = Apart(t)
    OBVIOUS
<1>4. t.registry /\ t.build /\ t.commit /\ ~t.mismatch
    <2>1. None # "healthy"
        BY DEF L!L!ConstantsAssumption
    <2>2. L!L!Verified(t) /\ ~t.mismatch
        BY <2>1 DEF L!L!Verdict
    <2> QED  BY <2>2 DEF L!L!Verified
<1>5. /\ t.digests # {} /\ t.wanted # None /\ apart = {}
      /\ \A d \in t.digests : d \in t.children \/ \E r \in entries : r.digest = d
    BY <1>1, <1>3, <1>4, RegistryIs
<1>6. /\ t.revision # None
      /\ \/ mapped # {}
         \/ \A d \in t.digests : \E f \in t.builds :
               \/ f.data.digest = d
               \/ f.data.digest = t.wanted /\ d \in t.children
    BY <1>2, <1>4, BuildIs
<1>7. {f.data.revision : f \in t.builds \cup mapped} \ {None} = {t.revision}
    <2>1. {f.data.revision : f \in t.builds \cup L!L!Mapped(facts, image.data)} \ {None} = {t.revision}
        BY <1>6, RevisionIs
    <2> QED  BY <1>2, <2>1
<1>8. \A f \in facts : f \in standing
    BY FactIs, <1>a DEF Standing
<1>9. /\ \A f \in t.runtime : f \in facts /\ f.data.kind = "image" /\ f.target = input.job.target
      /\ t.builds \subseteq Artifacts(facts, image)
      /\ Artifacts(facts, image) \subseteq facts /\ t.commits \subseteq facts
      /\ \A f \in mapped : f \in L!L!Of(facts, "build") /\ f.data.state = "ready"
      /\ IsFiniteSet(t.commits)
    BY <1>2, PartsAre
<1>10. \A f \in Artifacts(facts, image) : f.data \in own
    BY <1>8, <1>9, <1>a, <1>c DEF Artifacts, Listings, L!L!Of
<1>11. \A r \in entries : r \in own /\ ~r.built
    BY <1>1, <1>10 DEF Entries, Registries
<1>12. t.children = L!L!ChildrenOf(entries, t.wanted)
    BY <1>1, ChildrenAre
<1>13. \A d \in t.children : \E r \in entries : r.digest = t.wanted /\ d \in r.children
    BY <1>12 DEF L!L!ChildrenOf
<1>14. ASSUME image.data.revision # None, ~t.pending
       PROVE  L!L!RevisionMatches(image.data.revision, t.revision)
    <2>1. ~(/\ ~t.pending
            /\ \/ /\ \/ t.children # {}
                     \/ \E r \in entries : r.digest = t.wanted /\ r.manifest = "image"
                  /\ t.wanted # None /\ apart # {}
               \/ /\ image.data.revision # None /\ t.revision # None
                  /\ ~L!L!RevisionMatches(image.data.revision, t.revision))
        BY <1>1, <1>3, <1>4, MismatchIs
    <2> QED  BY <1>6, <1>14, <2>1
<1>15. \E c \in commits : c.revision = t.revision
    <2>1. Cardinality({f.data.repository : f \in t.commits}) = 1
        BY <1>4, CommitIs
    <2>2. t.commits # {}
        <3> SUFFICES ASSUME t.commits = {}  PROVE FALSE
            OBVIOUS
        <3>1. PICK repositories : repositories = {f.data.repository : f \in t.commits}
            OBVIOUS
        <3>2. repositories = {}
            BY <3>1
        <3>3. Cardinality(repositories) = 0
            BY <3>2, FS_EmptySet
        <3> QED  BY <2>1, <3>1, <3>3
    <2>3. PICK f \in t.commits : TRUE
        BY <2>2
    <2>4. f \in L!L!Of(facts, "commit") /\ f.data.revision = t.revision
        BY CommitsAre
    <2>5. f \in L!L!Of(standing, "commit")
        BY <1>8, <2>4 DEF L!L!Of
    <2> QED  BY <2>4, <2>5, <1>a, <1>b DEF Commits
<1>16. ASSUME NEW d \in t.digests
       PROVE  \E f \in L!L!Of(standing, "image") : f.data.observed = d /\ f.target = input.job.target
    <2>1. PICK f \in t.runtime : d = f.data.observed
        <3>1. t.digests = {f.data.observed : f \in t.runtime}
            BY DigestsIs
        <3> QED  BY <3>1
    <2>2. f \in L!L!Of(standing, "image")
        BY <1>8, <1>9 DEF L!L!Of
    <2> QED  BY <1>9, <2>1, <2>2
<1>17. ASSUME NEW d \in t.digests
       PROVE  \E a \in own : ~a.built /\ d \in {a.digest} \cup a.children
    <2>1. \E r \in entries : d = r.digest \/ d \in r.children
        BY <1>5, <1>13
    <2> QED  BY <1>11, <2>1
<1>18. ASSUME NEW d \in t.digests
       PROVE  \/ \E a \in own : /\ a.built /\ a.revision \in {t.revision, None}
                                /\ \/ a.digest = d
                                   \/ \E g \in own : g.digest = a.digest /\ d \in g.children
              \/ \E f \in L!L!Of(standing, "build") :
                     f.data.state = "ready" /\ f.data.revision = t.revision
    <2>1. CASE mapped # {}
        <3>1. PICK f \in mapped : TRUE
            BY <2>1
        <3>2. f.data.revision \in {x.data.revision : x \in t.builds \cup mapped} /\ f.data.revision # None
            BY <1>2, PartsAre
        <3>3. f.data.revision = t.revision
            BY <1>7, <3>2
        <3>4. f \in L!L!Of(standing, "build") /\ f.data.state = "ready"
            BY <1>8, <1>9 DEF L!L!Of
        <3> QED  BY <3>3, <3>4
    <2>2. CASE mapped = {}
        <3>1. PICK f \in t.builds : f.data.digest = d \/ (f.data.digest = t.wanted /\ d \in t.children)
            BY <1>6, <2>2
        <3>2. f.data \in own /\ f.data.built
            <4>1. f.data.built
                BY BuildsAre
            <4> QED  BY <1>9, <1>10, <4>1
        <3>3. f.data.revision \in {t.revision, None}
            <4>1. f.data.revision \in {x.data.revision : x \in t.builds \cup mapped}
                OBVIOUS
            <4> QED  BY <1>7, <4>1
        <3>4. f.data.digest = d \/ \E g \in own : g.digest = f.data.digest /\ d \in g.children
            BY <1>11, <1>13, <3>1
        <3> QED  BY <3>2, <3>3, <3>4
    <2> QED  BY <2>1, <2>2
<1>19. t.revision \in {c.revision : c \in commits}
    BY <1>15
<1>20. ASSUME NEW d \in t.digests
       PROVE  /\ \E f \in L!L!Of(Standing, "image") :
                    f.data.observed = d /\ f.target = input.job.target
              /\ \E a \in Listings(image) : ~a.built /\ d \in {a.digest} \cup a.children
              /\ \/ \E a \in Listings(image) :
                        /\ a.built /\ a.revision \in {t.revision, None}
                        /\ \/ a.digest = d
                           \/ \E g \in Listings(image) : g.digest = a.digest /\ d \in g.children
                 \/ \E f \in L!L!Of(Standing, "build") :
                        f.data.state = "ready" /\ f.data.revision = t.revision
    BY <1>16, <1>17, <1>18, <1>a, <1>c
<1>21. t.revision \in {c.revision : c \in Commits} /\ \E c \in Commits : c.revision = t.revision
    BY <1>15, <1>19, <1>b
<1> QED  BY <1>5, <1>14, <1>20, <1>21 DEF Vindicated

LEMMA VerifiedHolds == ASSUME Published, L!L!ConstantsAssumption  PROVE L!L!VerifiedIsEvidenced
<1>1. \A image \in L!L!Candidates :
        L!L!Verdict(image, L!L!Trace(L!L!Facts, image), input.now) = "healthy"
            => Vindicated(image, L!L!Trace(L!L!Facts, image))
    BY VerifiedOne
<1> QED
    BY <1>1, Zenon
    DEF L!L!VerifiedIsEvidenced, L!L!Now, L!L!Check, Vindicated, Standing, Commits, Listings

\* What is called drift.
LEMMA DriftOne ==
    ASSUME Published, L!L!ConstantsAssumption, NEW image \in L!L!Candidates,
           NEW facts, facts = L!L!Facts, NEW t, t = L!L!Trace(facts, image),
           L!L!Verdict(image, t, input.now) = "fault",
           NEW entries, entries = Entries(facts, image),
           NEW ref, ref = image.data.desired
    PROVE  /\ ~L!L!InGrace(facts, image)
           /\ \/ \E d \in t.digests, r \in entries :
                    /\ r.digest # d
                    /\ r.manifest = "image" \/ (r.children # {} /\ d \notin r.children)
                    /\ ref.digest = None => ~\E g \in entries : g.digest = d /\ ref.tag \in g.tags
              \/ \E f \in Artifacts(facts, image) :
                    /\ f.data.built /\ f.data.revision # None /\ image.data.revision # None
                    /\ ~L!L!RevisionMatches(image.data.revision, f.data.revision)
<1>1. t.mismatch
    <2>1. None # "fault"
        BY DEF L!L!ConstantsAssumption
    <2> QED  BY <2>1 DEF L!L!Verdict
<1>2. /\ ~t.pending
      /\ \/ /\ t.children # {} \/ \E r \in entries : r.digest = t.wanted /\ r.manifest = "image"
            /\ t.wanted # None /\ Apart(t) # {}
         \/ /\ image.data.revision # None /\ t.revision # None
            /\ ~L!L!RevisionMatches(image.data.revision, t.revision)
    BY <1>1, MismatchIs
<1>3. ~L!L!InGrace(facts, image)
    BY <1>2, GraceIs
<1>4. CASE /\ t.children # {} \/ \E r \in entries : r.digest = t.wanted /\ r.manifest = "image"
           /\ t.wanted # None /\ Apart(t) # {}
    <2>1. PICK d \in t.digests : d # t.wanted /\ d \notin t.children
        BY <1>4 DEF Apart
    <2>2. t.children = L!L!ChildrenOf(entries, t.wanted)
        BY ChildrenAre
    <2>3. PICK r \in entries : /\ r.digest = t.wanted
                               /\ r.manifest = "image" \/ (r.children # {} /\ r.children \subseteq t.children)
        <3>1. CASE t.children # {}
            <4>1. PICK c : c \in t.children
                BY <3>1
            <4>2. PICK r \in entries : r.digest = t.wanted /\ r.manifest = "index" /\ c \in r.children
                BY <2>2, <4>1 DEF L!L!ChildrenOf
            <4>3. r.children \subseteq t.children
                BY <2>2, <4>2 DEF L!L!ChildrenOf
            <4> QED  BY <4>2, <4>3
        <3> QED  BY <1>4, <3>1
    <2>4. ASSUME ref.digest = None, NEW g \in entries, g.digest = d, ref.tag \in g.tags  PROVE FALSE
        <3>1. PICK tagged : tagged = L!L!Expected(entries, ref)
            OBVIOUS
        <3>2. tagged = {q.digest : q \in {p \in entries : ref.tag \in p.tags}}
            BY <2>4, <3>1 DEF L!L!Expected
        <3>3. IsFiniteSet(tagged)
            <4> DEFINE named == {f \in Registries(facts, image) : ref.tag \in f.data.tags}
                       take == [f \in named |-> f.data.digest]
            <4>1. IsFiniteSet(named)
                <5>1. named \subseteq facts
                    BY DEF Registries, Artifacts, L!L!Of
                <5>2. IsFiniteSet(facts)
                    BY FactsFinite
                <5> HIDE DEF named
                <5> QED  BY <5>1, <5>2, FS_Subset
            <4>2. take \in Surjection(named, tagged)
                <5>1. tagged = {f.data.digest : f \in named}
                    BY <3>2 DEF Entries
                <5> HIDE DEF named
                <5> QED  BY <5>1 DEF Surjection
            <4> HIDE DEF named, take
            <4> QED  BY <4>1, <4>2, FS_Surjection
        <3>4. t.wanted = L!L!TheOne(tagged)
            <4>1. t.wanted = L!L!TheOne(L!L!Expected(Entries(facts, image), image.data.desired))
                BY WantedIs
            <4> QED  BY <3>1, <4>1
        <3>5. tagged = {t.wanted}
            BY <1>4, <3>3, <3>4, OneIs
        <3>6. d \in tagged
            BY <2>4, <3>2
        <3> QED  BY <2>1, <3>5, <3>6
    <2>5. r.digest # d /\ (r.manifest = "image" \/ (r.children # {} /\ d \notin r.children))
        BY <2>1, <2>3
    <2> QED  BY <1>3, <2>4, <2>5
<1>5. CASE /\ image.data.revision # None /\ t.revision # None
           /\ ~L!L!RevisionMatches(image.data.revision, t.revision)
    <2>1. PICK mapped : mapped = L!L!Mapped(facts, image.data)
        OBVIOUS
    <2>2. {f.data.revision : f \in t.builds \cup mapped} \ {None} = {t.revision}
        <3>1. {f.data.revision : f \in t.builds \cup L!L!Mapped(facts, image.data)} \ {None} = {t.revision}
            BY <1>5, RevisionIs
        <3> QED  BY <2>1, <3>1
    <2>3. PICK f \in t.builds \cup mapped : f.data.revision = t.revision
        BY <2>2
    <2>4. f \notin mapped
        <3>1. \A b \in mapped : L!L!RevisionMatches(image.data.revision, b.data.revision)
            BY <2>1, PartsAre
        <3> QED  BY <1>5, <2>3, <3>1
    <2>5. f \in Artifacts(facts, image) /\ f.data.built
        BY <2>3, <2>4, BuildsAre
    <2> QED  BY <1>3, <1>5, <2>3, <2>5
<1> QED  BY <1>2, <1>4, <1>5

LEMMA DriftHolds == ASSUME Published, L!L!ConstantsAssumption  PROVE L!L!DriftIsEvidenced
<1> SUFFICES ASSUME NEW image \in L!L!Candidates,
                    L!L!Verdict(image, L!L!Trace(L!L!Facts, image), input.now) = "fault"
    PROVE
        LET artifacts == {f.data : f \in L!L!Of(L!L!Facts, "artifact")}
            t == L!L!Trace(L!L!Facts, image)
            ref == image.data.desired
            own == {a \in artifacts : a.image = ref.image}
            listed == {a \in own : ~a.built}
        IN  /\ ~L!L!InGrace(L!L!Facts, image)
            /\ \/ \E d \in t.digests, a \in listed :
                     /\ a.digest # d
                     /\ a.manifest = "image" \/ (a.children # {} /\ d \notin a.children)
                     /\ ref.digest = None => ~\E g \in listed : g.digest = d /\ ref.tag \in g.tags
               \/ \E a \in own : /\ a.built /\ None \notin {a.revision, image.data.revision}
                                 /\ ~L!L!RevisionMatches(image.data.revision, a.revision)
    BY Zenon DEF L!L!DriftIsEvidenced, L!L!Now
<1>1. PICK facts : facts = L!L!Facts
    OBVIOUS
<1>2. PICK t : t = L!L!Trace(facts, image)
    OBVIOUS
<1>3. PICK entries : entries = Entries(facts, image)
    OBVIOUS
<1>4. PICK ref : ref = image.data.desired
    OBVIOUS
<1>5. PICK own : own = {a \in {f.data : f \in L!L!Of(facts, "artifact")} : a.image = ref.image}
    OBVIOUS
<1>6. entries = {a \in own : ~a.built}
    BY <1>3, <1>4, <1>5 DEF Entries, Registries, Artifacts
<1>7. \A f \in Artifacts(facts, image) : f.data \in own
    BY <1>4, <1>5 DEF Artifacts
<1>8. L!L!Verdict(image, t, input.now) = "fault"
    BY <1>1, <1>2
<1>9. /\ ~L!L!InGrace(facts, image)
      /\ \/ \E d \in t.digests, r \in entries :
               /\ r.digest # d
               /\ r.manifest = "image" \/ (r.children # {} /\ d \notin r.children)
               /\ ref.digest = None => ~\E g \in entries : g.digest = d /\ ref.tag \in g.tags
         \/ \E f \in Artifacts(facts, image) :
               /\ f.data.built /\ f.data.revision # None /\ image.data.revision # None
               /\ ~L!L!RevisionMatches(image.data.revision, f.data.revision)
    BY <1>1, <1>2, <1>3, <1>4, <1>8, DriftOne
<1>10. \/ \E d \in t.digests, r \in entries :
               /\ r.digest # d
               /\ r.manifest = "image" \/ (r.children # {} /\ d \notin r.children)
               /\ ref.digest = None => ~\E g \in entries : g.digest = d /\ ref.tag \in g.tags
       \/ \E a \in own : /\ a.built /\ None \notin {a.revision, image.data.revision}
                         /\ ~L!L!RevisionMatches(image.data.revision, a.revision)
    BY <1>7, <1>9
<1> QED  BY <1>1, <1>2, <1>4, <1>5, <1>6, <1>9, <1>10

\* How long a fact holds: as long as the last word on its resource does.
LEMMA ExpiresIs ==
    ASSUME Published, NEW f \in L!L!Facts
    PROVE  /\ L!L!Expires(f) \in Nat
           /\ \E x \in L!L!Observed : /\ x[2].resource = f.resource
                                      /\ x[2].at + L!L!Limit(x[1], x[2]) = L!L!Expires(f)
<1> DEFINE own == {y \in L!L!Observed : y[2].resource = f.resource}
           ends == {x[2].at + L!L!Limit(x[1], x[2]) : x \in own}
           take == [x \in own |-> x[2].at + L!L!Limit(x[1], x[2])]
<1>1. IsFiniteSet(own)
    BY ObservedFinite, FS_Subset
<1>2. IsFiniteSet(ends)
    <2>1. take \in Surjection(own, ends)
        BY DEF Surjection
    <2> HIDE DEF take, ends, own
    <2> QED  BY <1>1, <2>1, FS_Surjection
<1>3. \A x \in own : x[2].at + L!L!Limit(x[1], x[2]) \in Nat
    <2>1. SUFFICES ASSUME NEW x \in own  PROVE x[2].at + L!L!Limit(x[1], x[2]) \in Nat
        OBVIOUS
    <2>2. x[2].at \in Nat
        BY PairsAre DEF Published
    <2>3. L!L!Limit(x[1], x[2]) \in Nat
        BY LimitIs
    <2> QED  BY <2>2, <2>3
<1>4. ends \subseteq Nat
    BY <1>3
<1>5. ends # {}
    <2>1. PICK x \in L!L!Observed : f = x[2]
        BY FactIs
    <2>2. x \in own
        BY <2>1
    <2> QED  BY <2>2
<1>6. L!L!Expires(f) = L!L!Max(ends)
    BY DEF L!L!Expires
<1>7. L!L!Max(ends) \in ends
    <2> HIDE DEF ends
    <2> QED  BY <1>2, <1>4, <1>5, LatestIs
<1>8. PICK x \in own : x[2].at + L!L!Limit(x[1], x[2]) = L!L!Max(ends)
    BY <1>7
<1> QED  BY <1>4, <1>6, <1>7, <1>8

LEMMA ExpiresOne ==
    ASSUME Published, L!L!ConstantsAssumption, NEW image \in L!L!Candidates,
           NEW facts, facts = L!L!Facts, NEW t, t = L!L!Trace(facts, image),
           NEW at \in input.now..(input.now + 4), L!L!Verdict(image, t, at) = "healthy",
           NEW f \in t.runtime \cup t.builds \cup t.commits
    PROVE  \E x \in L!L!Observed : /\ x[2].resource = f.resource
                                   /\ x[2].at + L!L!Limit(x[1], x[2]) >= at
<1>1. PICK sources : sources = Sources(facts, image, t)
    OBVIOUS
<1>2. sources \subseteq facts
    <2>1. t.runtime \subseteq facts /\ t.builds \subseteq facts /\ t.commits \subseteq facts
        BY PartsAre
    <2>2. Registries(facts, image) \subseteq facts /\ L!L!Mapped(facts, image.data) \subseteq facts
        BY DEF Registries, Artifacts, L!L!Mapped, L!L!Of
    <2> QED  BY <1>1, <2>1, <2>2 DEF Sources
<1>3. f \in sources /\ f \in L!L!Facts
    BY <1>1, <1>2 DEF Sources
<1>4. ~(t.until < at)
    <2>1. None # "healthy"
        BY DEF L!L!ConstantsAssumption
    <2> QED  BY <2>1 DEF L!L!Verdict
<1>5. PICK ends : ends = {L!L!Expires(g) : g \in sources}
    OBVIOUS
<1>6. ends \subseteq Nat /\ L!L!Expires(f) \in ends
    <2>1. \A g \in sources : L!L!Expires(g) \in Nat
        BY <1>2, ExpiresIs
    <2> QED  BY <1>3, <1>5, <2>1
<1>7. t.until = L!L!Min(ends)
    <2>1. t.until = L!L!Min({L!L!Expires(g) : g \in Sources(facts, image, t)})
        BY <1>1, <1>3, UntilIs
    <2> QED  BY <1>1, <1>5, <2>1
<1>8. L!L!Min(ends) \in ends /\ \A x \in ends : L!L!Min(ends) <= x
    BY <1>6, EarliestIs
<1>9. t.until \in Nat /\ t.until <= L!L!Expires(f) /\ L!L!Expires(f) \in Nat
    BY <1>6, <1>7, <1>8
<1>10. at \in Int
    BY DEF Published
<1>11. L!L!Expires(f) >= at
    BY <1>4, <1>9, <1>10
<1> QED  BY <1>3, <1>11, ExpiresIs

LEMMA ExpiresHold == ASSUME Published, L!L!ConstantsAssumption  PROVE L!L!HealthExpires
<1>1. \A image \in L!L!Candidates : \A at \in input.now..(input.now + 4) :
        L!L!Verdict(image, L!L!Trace(L!L!Facts, image), at) = "healthy" =>
            \A f \in L!L!Trace(L!L!Facts, image).runtime \cup L!L!Trace(L!L!Facts, image).builds
                        \cup L!L!Trace(L!L!Facts, image).commits :
                \E x \in L!L!Observed : /\ x[2].resource = f.resource
                                        /\ x[2].at + L!L!Limit(x[1], x[2]) >= at
    BY ExpiresOne
<1> QED  BY <1>1, Zenon DEF L!L!HealthExpires, L!L!Now

-----------------------------------------------------------------------------
\* Every family of inputs is one of results that were published.
Sound(seen) == IsFiniteSet(seen) /\ \A o \in seen : "at" \in DOMAIN o /\ o.at \in Nat
Timely(tried) == \A op \in DOMAIN tried : "at" \in DOMAIN tried[op] /\ tried[op].at \in Nat
Posted(r) == Sound(r.observations) /\ Timely(r.operations)

LEMMA FewAre ==
    /\ IsFiniteSet({}) /\ \A a : IsFiniteSet({a}) /\ \A b : IsFiniteSet({a, b})
    /\ \A a, b, c, d : IsFiniteSet({a, b, c, d})
<1>1. IsFiniteSet({}) /\ \A a : IsFiniteSet({a})
    BY FS_EmptySet, FS_Singleton
<1>2. \A a, b : IsFiniteSet({a, b})
    <2>1. SUFFICES ASSUME NEW a, NEW b  PROVE IsFiniteSet({a, b})
        OBVIOUS
    <2>2. PICK one, two : one = {a} /\ two = {b}
        OBVIOUS
    <2>3. IsFiniteSet(one) /\ IsFiniteSet(two)
        BY <1>1, <2>2
    <2>4. IsFiniteSet(one \cup two)
        BY <2>3, FS_Union
    <2>5. {a, b} = one \cup two
        BY <2>2
    <2> QED  BY <2>4, <2>5
<1>3. \A a, b, c, d : IsFiniteSet({a, b, c, d})
    <2>1. SUFFICES ASSUME NEW a, NEW b, NEW c, NEW d  PROVE IsFiniteSet({a, b, c, d})
        OBVIOUS
    <2>2. {a, b, c, d} = {a, b} \cup {c, d}
        OBVIOUS
    <2>3. IsFiniteSet({a, b} \cup {c, d})
        <3>1. PICK one, two : one = {a, b} /\ two = {c, d}
            OBVIOUS
        <3>2. IsFiniteSet(one) /\ IsFiniteSet(two)
            BY <1>2, <3>1
        <3>3. IsFiniteSet(one \cup two)
            BY <3>2, FS_Union
        <3> QED  BY <3>1, <3>3
    <2> QED  BY <2>2, <2>3
<1> QED  BY <1>1, <1>2, <1>3

LEMMA NamedIs ==
    ASSUME NEW target, NEW op, NEW at \in Nat, NEW datas, IsFiniteSet(datas)
    PROVE  Sound(L!Named(target, op, at, datas))
<1> DEFINE Of(d) == L!L!Observation(target, op, d, at, d)
           seen == {Of(d) : d \in datas}
           take == [d \in datas |-> Of(d)]
<1>1. L!Named(target, op, at, datas) = seen
    BY DEF L!Named
<1>2. take \in Surjection(datas, seen)
    BY DEF Surjection
<1>3. IsFiniteSet(seen)
    <2> HIDE DEF take, seen
    <2> QED  BY <1>2, FS_Surjection
<1>4. \A o \in seen : "at" \in DOMAIN o /\ o.at \in Nat
    BY DEF L!L!Observation
<1> QED  BY <1>1, <1>3, <1>4 DEF Sound

LEMMA SoundTogether ==
    ASSUME NEW s1, NEW s2, Sound(s1), Sound(s2)
    PROVE  Sound(s1 \cup s2)
<1>1. IsFiniteSet(s1 \cup s2)
    BY FS_Union DEF Sound
<1> QED  BY <1>1 DEF Sound

LEMMA MovedIs ==
    ASSUME NEW seen, Sound(seen), NEW at \in Nat
    PROVE  Sound(L!Moved(seen, at))
<1> DEFINE Of(o) == [o EXCEPT !.at = at]
           take == [o \in seen |-> Of(o)]
           moved == {Of(o) : o \in seen}
<1>1. L!Moved(seen, at) = moved
    BY DEF L!Moved
<1>2. take \in Surjection(seen, moved)
    BY DEF Surjection
<1>3. IsFiniteSet(moved)
    <2> HIDE DEF take, moved
    <2> QED  BY <1>2, FS_Surjection DEF Sound
<1>4. \A o \in moved : "at" \in DOMAIN o /\ o.at \in Nat
    BY DEF Sound
<1> QED  BY <1>1, <1>3, <1>4 DEF Sound

LEMMA PartOfSound == ASSUME NEW seen, Sound(seen), NEW part1, part1 \subseteq seen  PROVE Sound(part1)
    BY FS_Subset DEF Sound

LEMMA KnownIs ==
    ASSUME NEW workloads, NEW pods, NEW registry, NEW builds, NEW commits,
           IsFiniteSet(workloads), IsFiniteSet(pods), IsFiniteSet(registry), IsFiniteSet(builds),
           IsFiniteSet(commits),
           NEW lists, lists = L!Known(workloads, pods, registry, builds, commits)
    PROVE  /\ DOMAIN lists = {"kube", "releases", "git"}
           /\ \A k \in DOMAIN lists : /\ DOMAIN lists[k] = {"target", "operations", "observations"}
                                      /\ lists[k] = [x \in DOMAIN lists[k] |-> lists[k][x]]
                                      /\ Posted(lists[k])
           /\ lists = [k \in DOMAIN lists |-> lists[k]]
           /\ DOMAIN lists["kube"].operations = {"workloads", "pods"}
           /\ DOMAIN lists["releases"].operations = {"registry", "builds"}
           /\ \A k \in DOMAIN lists : \A op \in DOMAIN lists[k].operations :
                    DOMAIN lists[k].operations[op] = {"complete", "at"}
<1>1. PICK three \in Nat : three = 3
    OBVIOUS
<1>2. /\ Sound(L!Named("dev", "workloads", three, workloads))
      /\ Sound(L!Named("dev", "pods", three, pods))
      /\ Sound(L!Named("dev", "registry", three, registry))
      /\ Sound(L!Named("dev", "builds", three, builds))
      /\ Sound(L!Named("source", "commits", three, commits))
    BY NamedIs
<1>3. PICK s1, s2, s3 :
        /\ s1 = L!Named("dev", "workloads", 3, workloads) \cup L!Named("dev", "pods", 3, pods)
        /\ s2 = L!Named("dev", "registry", 3, registry) \cup L!Named("dev", "builds", 3, builds)
        /\ s3 = L!Named("source", "commits", 3, commits)
    OBVIOUS
<1>4. Sound(s1) /\ Sound(s2) /\ Sound(s3)
    BY <1>1, <1>2, <1>3, SoundTogether
<1>5. PICK r1, r2, r3 :
        /\ r1 = L!Result("dev", [o \in {"workloads", "pods"} |-> L!Operation(TRUE, 3)], s1)
        /\ r2 = L!Result("dev", [o \in {"registry", "builds"} |-> L!Operation(TRUE, 3)], s2)
        /\ r3 = L!Result("source", [o \in {"commits"} |-> L!Operation(TRUE, 3)], s3)
    OBVIOUS
<1>6. lists = [k \in {"kube", "releases", "git"} |->
                    IF k = "kube" THEN r1 ELSE IF k = "releases" THEN r2 ELSE r3]
    BY <1>3, <1>5 DEF L!Known
<1>7. /\ r1.observations = s1 /\ r2.observations = s2 /\ r3.observations = s3
      /\ r1.operations = [o \in {"workloads", "pods"} |-> L!Operation(TRUE, 3)]
      /\ r2.operations = [o \in {"registry", "builds"} |-> L!Operation(TRUE, 3)]
      /\ r3.operations = [o \in {"commits"} |-> L!Operation(TRUE, 3)]
      /\ \A r \in {r1, r2, r3} : /\ DOMAIN r = {"target", "operations", "observations"}
                                 /\ r = [x \in DOMAIN r |-> r[x]]
    BY <1>5 DEF L!Result
<1>8. Timely(r1.operations) /\ Timely(r2.operations) /\ Timely(r3.operations)
    BY <1>7 DEF Timely, L!Operation
<1>9. /\ Posted(r1) /\ Posted(r2) /\ Posted(r3)
      /\ \A op \in DOMAIN r1.operations : DOMAIN r1.operations[op] = {"complete", "at"}
      /\ \A op \in DOMAIN r2.operations : DOMAIN r2.operations[op] = {"complete", "at"}
      /\ \A op \in DOMAIN r3.operations : DOMAIN r3.operations[op] = {"complete", "at"}
    <2>1. Posted(r1) /\ Posted(r2) /\ Posted(r3)
        BY <1>4, <1>7, <1>8 DEF Posted
    <2>2. DOMAIN L!Operation(TRUE, 3) = {"complete", "at"}
        BY DEF L!Operation
    <2> QED  BY <1>7, <2>1, <2>2
<1>10. DOMAIN lists = {"kube", "releases", "git"} /\ lists["kube"] = r1 /\ lists["releases"] = r2
    BY <1>6
<1>11. \A k \in DOMAIN lists : lists[k] = r1 \/ lists[k] = r2 \/ lists[k] = r3
    BY <1>6
<1>12. lists = [k \in DOMAIN lists |-> lists[k]]
    BY <1>6
<1>13. \A k \in DOMAIN lists : Posted(lists[k])
    BY <1>9, <1>11
<1>14. \A k \in DOMAIN lists : /\ DOMAIN lists[k] = {"target", "operations", "observations"}
                               /\ lists[k] = [x \in DOMAIN lists[k] |-> lists[k][x]]
    BY <1>7, <1>11
<1>15. \A k \in DOMAIN lists : \A op \in DOMAIN lists[k].operations :
            DOMAIN lists[k].operations[op] = {"complete", "at"}
    BY <1>9, <1>11
<1>16. /\ DOMAIN lists["kube"].operations = {"workloads", "pods"}
       /\ DOMAIN lists["releases"].operations = {"registry", "builds"}
    BY <1>7, <1>10
<1> QED  BY <1>10, <1>12, <1>13, <1>14, <1>15, <1>16

LEMMA AskedIs ==
    ASSUME NEW lists, IsFiniteSet(DOMAIN lists), \A k \in DOMAIN lists : Posted(lists[k]),
           NEW instant \in Nat, NEW fresh, \A k \in DOMAIN fresh : fresh[k] \in Nat,
           input = L!Asked(lists, instant, fresh)
    PROVE  Published
<1>1. /\ input.now = instant /\ input.job = L!Check /\ input.freshness = fresh
      /\ input.results = lists
    BY DEF L!Asked
<1>2. input.job.freshness = 3
    BY <1>1 DEF L!Check
<1> QED  BY <1>1, <1>2 DEF Published, Posted, Sound, Timely

LEMMA FreshIs == \A k \in DOMAIN L!Fresh : L!Fresh[k] \in Nat
BY DEF L!Fresh

LEMMA PiecesAre ==
    /\ \A ref, desired, active : IsFiniteSet(L!Workloads(ref, desired, active))
    /\ \A ref, digests : DOMAIN digests = {"p1", "p2"} => IsFiniteSet(L!Pods(ref, digests))
    /\ \A row : IsFiniteSet(L!L!Registry(row)) /\ IsFiniteSet(L!L!Manifest(row))
                /\ IsFiniteSet(L!L!Acr(row))
    /\ \A job, row : IsFiniteSet(L!L!Built(job, row))
    /\ IsFiniteSet(L!InRegistry) /\ IsFiniteSet(L!FromBuilds) /\ IsFiniteSet(L!InGit)
<1>1. ASSUME NEW ref, NEW desired, NEW active  PROVE IsFiniteSet(L!Workloads(ref, desired, active))
    BY FewAre DEF L!Workloads
<1>2. ASSUME NEW ref, NEW digests, DOMAIN digests = {"p1", "p2"}
      PROVE  IsFiniteSet(L!Pods(ref, digests))
    <2> DEFINE Of(p) == {L!L!Image(p, "c", ref, digests[p], TRUE), L!Owner(p, p, "s")}
    <2>1. L!Pods(ref, digests) = Of("p1") \cup Of("p2")
        BY <1>2 DEF L!Pods
    <2>2. IsFiniteSet(Of("p1")) /\ IsFiniteSet(Of("p2"))
        BY FewAre
    <2> HIDE DEF Of
    <2> QED  BY <2>1, <2>2, FS_Union
<1>3. \A row : IsFiniteSet(L!L!Registry(row))
    BY FewAre DEF L!L!Registry
<1>4. \A row : IsFiniteSet(L!L!Manifest(row)) /\ IsFiniteSet(L!L!Acr(row))
    BY FewAre DEF L!L!Manifest, L!L!Acr
<1>5. \A job, row : IsFiniteSet(L!L!Built(job, row))
    BY FewAre DEF L!L!Built
<1>6. IsFiniteSet(L!InGit)
    BY FewAre DEF L!InGit
<1>7. IsFiniteSet(L!InRegistry) /\ IsFiniteSet(L!FromBuilds)
    BY <1>3, <1>5 DEF L!InRegistry, L!FromBuilds
<1> QED  BY <1>1, <1>2, <1>3, <1>4, <1>5, <1>6, <1>7

LEMMA ThreeFinite ==
    /\ IsFiniteSet({"kube", "releases", "git"})
    /\ IsFiniteSet({"kube", "releases", "git"} \cup {"inventory"})
<1>1. PICK a, b, c, d : a = "kube" /\ b = "releases" /\ c = "git" /\ d = "inventory"
    OBVIOUS
<1>2. IsFiniteSet({a, b, c, a}) /\ IsFiniteSet({a, b, c, d})
    BY FewAre
<1>3. /\ {"kube", "releases", "git"} = {a, b, c, a}
      /\ {"kube", "releases", "git"} \cup {"inventory"} = {a, b, c, d}
    BY <1>1
<1> QED  BY <1>2, <1>3

LEMMA ByDigestsIs == L!ByDigests => Published
<1> SUFFICES ASSUME L!ByDigests  PROVE Published
    OBVIOUS
<1>1. PICK ref \in {L!Tagged, L!L!Reference("app", L!Plain, None), L!L!Reference("app", None, "x"),
                    L!L!Reference(None, L!Plain, None), L!L!Reference("tool", L!Plain, None)},
           one \in {"x", "y", None}, two \in {"x", "y", "z"}, media \in {"image", "index", "unknown"},
           children \in SUBSET {"y", "z"}, other \in {{}, {L!Release}, {L!Plain}}, created \in {0, 3},
           first \in {"x", "z"}, again \in {L!a1, None} :
        input = L!Asked(L!Known(L!Workloads(ref, 2, TRUE),
                    L!Pods(ref, [p \in {"p1", "p2"} |-> IF p = "p1" THEN one ELSE two]),
                    L!L!Registry(L!Row("x", {L!Release, L!Plain}, media, created))
                    \cup L!L!Registry(L!Row("y", other, "image", 0))
                    \cup (IF media = "index" THEN L!L!Manifest(L!Index("x", children)) ELSE {}),
                    L!L!Built(L!Check, L!Made(first, L!a1, "code", 0))
                    \cup L!L!Built(L!Check, L!Made("y", again, None, 0)), L!InGit), 3, L!Fresh)
    BY DEF L!ByDigests
<1>2. PICK digests : digests = [p \in {"p1", "p2"} |-> IF p = "p1" THEN one ELSE two]
    OBVIOUS
<1>3. PICK rows1, rows2, rows3, builds1, builds2 :
        /\ rows1 = L!L!Registry(L!Row("x", {L!Release, L!Plain}, media, created))
        /\ rows2 = L!L!Registry(L!Row("y", other, "image", 0))
        /\ rows3 = IF media = "index" THEN L!L!Manifest(L!Index("x", children)) ELSE {}
        /\ builds1 = L!L!Built(L!Check, L!Made(first, L!a1, "code", 0))
        /\ builds2 = L!L!Built(L!Check, L!Made("y", again, None, 0))
    OBVIOUS
<1>4. PICK works, pods, artifacts, builds :
        /\ works = L!Workloads(ref, 2, TRUE) /\ pods = L!Pods(ref, digests)
        /\ artifacts = rows1 \cup rows2 \cup rows3 /\ builds = builds1 \cup builds2
    OBVIOUS
<1>5. IsFiniteSet(works) /\ IsFiniteSet(pods)
    BY <1>2, <1>4, PiecesAre
<1>6. /\ IsFiniteSet(rows1) /\ IsFiniteSet(rows2) /\ IsFiniteSet(rows3)
      /\ IsFiniteSet(builds1) /\ IsFiniteSet(builds2)
    BY <1>3, PiecesAre, FewAre
<1>7. IsFiniteSet(artifacts) /\ IsFiniteSet(builds)
    BY <1>4, <1>6, FS_Union
<1>8. PICK lists : lists = L!Known(works, pods, artifacts, builds, L!InGit)
    OBVIOUS
<1>9. /\ DOMAIN lists = {"kube", "releases", "git"} /\ \A k \in DOMAIN lists : Posted(lists[k])
    BY <1>5, <1>7, <1>8, PiecesAre, KnownIs
<1>10. PICK instant \in Nat : instant = 3
    OBVIOUS
<1>11. input = L!Asked(lists, instant, L!Fresh)
    BY <1>1, <1>2, <1>3, <1>4, <1>8, <1>10
<1> QED  BY <1>9, <1>11, ThreeFinite, FreshIs, AskedIs

LEMMA ByRevisionsIs == L!ByRevisions => Published
<1> SUFFICES ASSUME L!ByRevisions  PROVE Published
    OBVIOUS
<1> DEFINE Ref(tag) == L!L!Reference("app", tag, None)
           Run(again, pipeline, mapped) ==
                [L!Made("x", again, None, 0) EXCEPT !.pipeline = pipeline, !.for = "shop", !.state = mapped]
<1>1. PICK tag \in {L!Release, L!Plain}, first \in {L!a1, L!b1, None}, again \in {L!a1, L!a2, L!b1},
           mapped \in {"none", "ready", "failed"}, pipeline \in {"main", "other"},
           commits \in SUBSET {L!Committed("code", L!a1), L!Committed("fork", L!a1),
                               L!Committed("code", L!b1)} :
        input = L!Asked(L!Known(L!Workloads(Ref(tag), 2, TRUE), L!Pods(Ref(tag), L!Both),
                    L!L!Registry(L!Row("x", {tag}, "image", 0)),
                    L!L!Built(L!Check, L!Made("x", first, "code", 0))
                    \cup (IF mapped = "none" THEN {} ELSE {L!L!Build(Run(again, pipeline, mapped))})
                    \cup (IF mapped = "failed"
                          THEN {L!L!Build([Run(again, pipeline, mapped) EXCEPT
                                              !.state = "ready", !.created = 1, !.revision = L!a1])}
                          ELSE {}),
                    commits), 3, L!Fresh)
    BY DEF L!ByRevisions
<1>2. PICK ref, run : ref = Ref(tag) /\ run = Run(again, pipeline, mapped)
    OBVIOUS
<1>3. PICK builds1, builds2, builds3 :
        /\ builds1 = L!L!Built(L!Check, L!Made("x", first, "code", 0))
        /\ builds2 = IF mapped = "none" THEN {} ELSE {L!L!Build(run)}
        /\ builds3 = IF mapped = "failed"
                     THEN {L!L!Build([run EXCEPT !.state = "ready", !.created = 1, !.revision = L!a1])}
                     ELSE {}
    OBVIOUS
<1>4. PICK works, pods, artifacts, builds :
        /\ works = L!Workloads(ref, 2, TRUE) /\ pods = L!Pods(ref, L!Both)
        /\ artifacts = L!L!Registry(L!Row("x", {tag}, "image", 0))
        /\ builds = builds1 \cup builds2 \cup builds3
    OBVIOUS
<1>5. IsFiniteSet(works) /\ IsFiniteSet(pods) /\ IsFiniteSet(artifacts)
    BY <1>4, PiecesAre DEF L!Both
<1>6. IsFiniteSet(builds1) /\ IsFiniteSet(builds2) /\ IsFiniteSet(builds3)
    BY <1>3, PiecesAre, FewAre
<1>7. IsFiniteSet(builds)
    BY <1>4, <1>6, FS_Union
<1>8. IsFiniteSet(commits)
    <2>1. PICK all : all = {L!Committed("code", L!a1), L!Committed("fork", L!a1), L!Committed("code", L!b1)}
        OBVIOUS
    <2>2. all = {L!Committed("code", L!a1), L!Committed("fork", L!a1), L!Committed("code", L!b1),
                 L!Committed("code", L!b1)}
        BY <2>1
    <2>3. IsFiniteSet(all)
        BY <2>2, FewAre
    <2> QED  BY <2>1, <2>3, FS_Subset
<1>9. PICK lists : lists = L!Known(works, pods, artifacts, builds, commits)
    OBVIOUS
<1>10. /\ DOMAIN lists = {"kube", "releases", "git"} /\ \A k \in DOMAIN lists : Posted(lists[k])
    BY <1>5, <1>7, <1>8, <1>9, KnownIs
<1>11. PICK instant \in Nat : instant = 3
    OBVIOUS
<1> HIDE DEF Ref, Run
<1>12. input = L!Asked(lists, instant, L!Fresh)
    BY <1>1, <1>2, <1>3, <1>4, <1>9, <1>11
<1> QED  BY <1>10, <1>12, ThreeFinite, FreshIs, AskedIs

LEMMA AllFineIs ==
    ASSUME NEW lists, lists = L!Fine
    PROVE  /\ DOMAIN lists = {"kube", "releases", "git"}
           /\ \A k \in DOMAIN lists : /\ DOMAIN lists[k] = {"target", "operations", "observations"}
                                      /\ lists[k] = [x \in DOMAIN lists[k] |-> lists[k][x]]
                                      /\ Posted(lists[k])
           /\ DOMAIN lists["kube"].operations = {"workloads", "pods"}
           /\ DOMAIN lists["releases"].operations = {"registry", "builds"}
<1>1. PICK works, pods :
        works = L!Workloads(L!Tagged, 2, TRUE) /\ pods = L!Pods(L!Tagged, L!Both)
    OBVIOUS
<1>2. IsFiniteSet(works) /\ IsFiniteSet(pods)
    BY <1>1, PiecesAre DEF L!Both
<1>3. lists = L!Known(works, pods, L!InRegistry, L!FromBuilds, L!InGit)
    BY <1>1 DEF L!Fine
<1> QED  BY <1>2, <1>3, PiecesAre, KnownIs

LEMMA ByReadingsIs == L!ByReadings => Published
<1> SUFFICES ASSUME L!ByReadings  PROVE Published
    OBVIOUS
<1> DEFINE Key(op) == IF op \in {"pods", "workloads"} THEN "kube" ELSE "releases"
           Listed(op) == {o \in L!Fine[Key(op)].observations : o.operation = op}
           Remade(op, at) == (L!Fine[Key(op)].observations \ Listed(op)) \cup L!Moved(Listed(op), at)
<1>1. PICK op \in {"pods", "workloads", "registry", "builds"}, at \in 1..4, again \in 1..4,
           complete \in BOOLEAN, too \in BOOLEAN, instant \in 4..6,
           freshness \in {L!Fresh, [k \in {"kube"} |-> 2]} :
        input = L!Asked([j \in DOMAIN L!Fine \cup {"inventory"} |->
                    IF j = Key(op)
                    THEN [L!Fine[Key(op)] EXCEPT !.observations = Remade(op, at),
                                               !.operations[op] = L!Operation(complete, at)]
                    ELSE IF j = "inventory"
                    THEN L!Result("dev", [o \in {op} |-> L!Operation(too, again)],
                                  IF too THEN L!Moved(Listed(op), again) ELSE {})
                    ELSE L!Fine[j]], instant, freshness)
    BY Zenon DEF L!ByReadings
<1>2. PICK fine : fine = L!Fine
    OBVIOUS
<1>3. PICK key : key = Key(op)
    OBVIOUS
<1>4. PICK old : old = fine[key]
    OBVIOUS
<1>5. PICK listed : listed = {o \in old.observations : o.operation = op}
    OBVIOUS
<1>6. PICK kept : kept = (old.observations \ listed) \cup L!Moved(listed, at)
    OBVIOUS
<1>7. PICK new : new = [old EXCEPT !.observations = kept, !.operations[op] = L!Operation(complete, at)]
    OBVIOUS
<1>8. PICK seen : seen = IF too THEN L!Moved(listed, again) ELSE {}
    OBVIOUS
<1>9. PICK other : other = L!Result("dev", [o \in {op} |-> L!Operation(too, again)], seen)
    OBVIOUS
<1>10. PICK lists : lists = [j \in DOMAIN fine \cup {"inventory"} |->
                                IF j = key THEN new ELSE IF j = "inventory" THEN other ELSE fine[j]]
    OBVIOUS
<1>11. input = L!Asked(lists, instant, freshness)
    <2>1. L!Fine[Key(op)] = old /\ Listed(op) = listed /\ Remade(op, at) = kept
        BY <1>2, <1>3, <1>4, <1>5, <1>6
    <2> HIDE DEF Key, Listed, Remade
    <2>2. lists = [j \in DOMAIN L!Fine \cup {"inventory"} |->
                    IF j = Key(op)
                    THEN [L!Fine[Key(op)] EXCEPT !.observations = Remade(op, at),
                                               !.operations[op] = L!Operation(complete, at)]
                    ELSE IF j = "inventory"
                    THEN L!Result("dev", [o \in {op} |-> L!Operation(too, again)],
                                  IF too THEN L!Moved(Listed(op), again) ELSE {})
                    ELSE L!Fine[j]]
        BY <1>2, <1>3, <1>7, <1>8, <1>9, <1>10, <2>1
    <2> QED  BY <1>1, <2>2
<1>12. key \in {"kube", "releases"}
    BY <1>3
<1>13. op \in DOMAIN old.operations
    BY <1>2, <1>3, <1>4, AllFineIs
<1> HIDE DEF Key, Listed, Remade
<1>14. /\ DOMAIN fine = {"kube", "releases", "git"}
       /\ \A k \in DOMAIN fine : Posted(fine[k])
       /\ Posted(old) /\ DOMAIN old = {"target", "operations", "observations"}
    BY <1>2, <1>4, <1>12, AllFineIs
<1>15. Sound(listed) /\ Sound(old.observations \ listed)
    <2>1. Sound(old.observations)
        BY <1>14 DEF Posted
    <2>2. listed \subseteq old.observations
        BY <1>5
    <2> QED  BY <2>1, <2>2, PartOfSound
<1>16. Sound(kept)
    <2>1. Sound(L!Moved(listed, at))
        BY <1>15, MovedIs
    <2> QED  BY <1>6, <1>15, <2>1, SoundTogether
<1>17. Sound(seen)
    <2>1. again \in Nat
        OBVIOUS
    <2>2. Sound(L!Moved(listed, again))
        BY <1>15, <2>1, MovedIs
    <2>3. Sound({})
        BY FewAre DEF Sound
    <2> QED  BY <1>8, <2>2, <2>3
<1>18. Posted(new)
    <2>1. /\ new.observations = kept
          /\ new.operations = [old.operations EXCEPT ![op] = L!Operation(complete, at)]
        BY <1>7, <1>14
    <2>2. Timely(old.operations)
        BY <1>14 DEF Posted
    <2>3. \A x \in DOMAIN new.operations :
            new.operations[x] = IF x = op THEN L!Operation(complete, at) ELSE old.operations[x]
        BY <2>1
    <2>4. DOMAIN new.operations = DOMAIN old.operations
        BY <2>1
    <2>5. "at" \in DOMAIN L!Operation(complete, at) /\ L!Operation(complete, at).at \in Nat
        BY DEF L!Operation
    <2>6. Timely(new.operations)
        BY <2>2, <2>3, <2>4, <2>5 DEF Timely
    <2> QED  BY <1>16, <2>1, <2>6 DEF Posted
<1>19. Posted(other)
    <2>1. other.observations = seen /\ other.operations = [o \in {op} |-> L!Operation(too, again)]
        BY <1>9 DEF L!Result
    <2>2. Timely(other.operations)
        BY <2>1 DEF Timely, L!Operation
    <2> QED  BY <1>17, <2>1, <2>2 DEF Posted
<1>20. DOMAIN lists = DOMAIN fine \cup {"inventory"}
    BY <1>10
<1>21. \A k \in DOMAIN lists : Posted(lists[k])
    BY <1>10, <1>14, <1>18, <1>19, <1>20
<1>22. IsFiniteSet(DOMAIN lists)
    BY <1>14, <1>20, ThreeFinite
<1>23. \A k \in DOMAIN freshness : freshness[k] \in Nat
    BY FreshIs
<1>24. instant \in Nat
    OBVIOUS
<1> QED  BY <1>11, <1>21, <1>22, <1>23, <1>24, AskedIs

LEMMA ByOwnersIs == L!ByOwners => Published
<1> SUFFICES ASSUME L!ByOwners  PROVE Published
    OBVIOUS
<1> DEFINE Entry(children) ==
                [L!Row("x", {L!Release}, "image", 0) @@ [children |-> children] EXCEPT !.image = "app"]
           Owned(ran, owner) == {L!L!Image("p1", "c", L!Tagged, ran, TRUE), L!Owner("p1", "p1", owner)}
           Works(desired, active, parent) ==
                (L!Workloads(L!Tagged, desired, active) \ {L!Owner("set", "s", "d")})
                \cup {L!Owner("set", "s", parent)}
<1>1. PICK owner \in {None, "d", "s", "set"}, parent \in {None, "d", "p1"}, desired \in {0, 2},
           active \in BOOLEAN, ran \in {"x", "y"}, children \in {{}, {"y"}, {"y", None}} :
        input = L!Asked([L!Known(Works(desired, active, parent), Owned(ran, owner),
                            IF L!L!AcrValid(Entry(children)) THEN L!L!Acr(Entry(children)) ELSE {},
                            L!FromBuilds, L!InGit)
                          EXCEPT !["releases"].operations["registry"].complete
                                    = L!L!AcrValid(Entry(children))], 3, L!Fresh)
    BY DEF L!ByOwners
<1>2. PICK valid : valid = L!L!AcrValid(Entry(children))
    OBVIOUS
<1>3. PICK works, pods, artifacts :
        /\ works = Works(desired, active, parent) /\ pods = Owned(ran, owner)
        /\ artifacts = IF valid THEN L!L!Acr(Entry(children)) ELSE {}
    OBVIOUS
<1>4. IsFiniteSet(works)
    <2>1. PICK all, one, two : /\ all = L!Workloads(L!Tagged, desired, active)
                               /\ one = {L!Owner("set", "s", "d")}
                               /\ two = {L!Owner("set", "s", parent)}
        OBVIOUS
    <2>2. IsFiniteSet(all) /\ IsFiniteSet(two)
        BY <2>1, PiecesAre, FewAre
    <2>3. works = (all \ one) \cup two
        BY <1>3, <2>1
    <2>4. IsFiniteSet(all \ one)
        BY <2>2, FS_Subset
    <2> QED  BY <2>2, <2>3, <2>4, FS_Union
<1>5. IsFiniteSet(pods) /\ IsFiniteSet(artifacts)
    BY <1>3, PiecesAre, FewAre
<1>6. PICK base : base = L!Known(works, pods, artifacts, L!FromBuilds, L!InGit)
    OBVIOUS
<1>7. PICK lists : lists = [base EXCEPT !["releases"].operations["registry"].complete = valid]
    OBVIOUS
<1> HIDE DEF Entry, Owned, Works
<1>8. PICK instant \in Nat : instant = 3
    OBVIOUS
<1>9. input = L!Asked(lists, instant, L!Fresh)
    BY <1>1, <1>2, <1>3, <1>6, <1>7, <1>8
<1>10. /\ DOMAIN base = {"kube", "releases", "git"}
       /\ \A k \in DOMAIN base : Posted(base[k])
       /\ DOMAIN base["releases"] = {"target", "operations", "observations"}
       /\ DOMAIN base["releases"].operations = {"registry", "builds"}
       /\ DOMAIN base["releases"].operations["registry"] = {"complete", "at"}
    BY <1>4, <1>5, <1>6, PiecesAre, KnownIs
<1>11. PICK old, new : /\ old = base["releases"]
                       /\ new = [old EXCEPT !.operations["registry"].complete = valid]
    OBVIOUS
<1>12. lists = [base EXCEPT !["releases"] = new]
    BY <1>7, <1>11
<1>13. Posted(new)
    <2>1. PICK was, is : /\ was = old.operations
                         /\ is = [was EXCEPT !["registry"].complete = valid]
        OBVIOUS
    <2>2. new.observations = old.observations /\ new.operations = is
        BY <1>10, <1>11, <2>1
    <2>3. Timely(was) /\ Sound(old.observations)
        BY <1>10, <1>11, <2>1 DEF Posted
    <2>4. DOMAIN is = DOMAIN was
        BY <2>1
    <2>5. \A x \in DOMAIN was : is[x] = IF x = "registry" THEN [was["registry"] EXCEPT !.complete = valid]
                                        ELSE was[x]
        BY <2>1
    <2>6. PICK entry : entry = [was["registry"] EXCEPT !.complete = valid]
        OBVIOUS
    <2>7. "at" \in DOMAIN entry /\ entry.at \in Nat
        BY <1>10, <1>11, <2>1, <2>3, <2>6 DEF Timely
    <2>8. Timely(is)
        BY <2>3, <2>4, <2>5, <2>6, <2>7 DEF Timely
    <2> QED  BY <2>2, <2>3, <2>8 DEF Posted
<1>14. DOMAIN lists = {"kube", "releases", "git"}
    BY <1>10, <1>12
<1>15. \A k \in DOMAIN lists : Posted(lists[k])
    BY <1>10, <1>12, <1>13
<1> QED  BY <1>9, <1>14, <1>15, ThreeFinite, FreshIs, AskedIs

\* An origin is taken as verified, drift is announced, and health is kept, on evidence, and a
\* retry hides no failure but its own (releases.rs, release_evidence.rs, provenance.rs): of all
\* results that checks can publish.
THEOREM OriginIsEvidenced == ASSUME Published, L!L!ConstantsAssumption  PROVE L!OriginsAreEvidenced
BY VerifiedHolds, DriftHolds, ExpiresHold, RetriesHold DEF L!OriginsAreEvidenced

\* What an origin is a conclusion from stays as it is.
Traceable == part = "releases" => Published

LEMMA OriginsAre == SuiteInit => Traceable
<1> SUFFICES ASSUME SuiteInit, part = "releases"  PROVE Published
    BY DEF Traceable
<1>1. L!ReleasesInit
    BY Zenon DEF SuiteInit
<1> QED  BY <1>1, ByReadingsIs, ByDigestsIs, ByRevisionsIs, ByOwnersIs DEF L!ReleasesInit

LEMMA OriginsStay == Traceable /\ [SuiteNext]_suiteVars => Traceable'
<1> SUFFICES ASSUME Traceable, [SuiteNext]_suiteVars  PROVE Traceable'
    OBVIOUS
<1>1. part' = part /\ input' = input
    BY DEF SuiteNext, suiteVars
<1>2. Published <=> Published'
    BY <1>1 DEF Published
<1> QED  BY <1>1, <1>2 DEF Traceable

\* Of every behaviour of the parts: what is said of an origin is said on evidence (releases.rs).
THEOREM OriginsStayEvidenced == SuiteSpec => []OriginsAreEvidenced
<1>1. Traceable => OriginsAreEvidenced
    BY OriginIsEvidenced, PartsAssumption DEF Traceable, OriginsAreEvidenced, PartsAssumption
<1> QED  BY <1>1, OriginsAre, OriginsStay, PTL DEF SuiteSpec, suiteVars

-----------------------------------------------------------------------------
(* Folds over a sequence, whatever is done with each item.                   *)

\* What holds before the first, and after each that follows one it held of, holds of all.
LEMMA AllReached ==
    ASSUME NEW n \in Nat, NEW S, 0 \in S, \A k \in 1..n : k - 1 \in S => k \in S
    PROVE  \A k \in 0..n : k \in S
<1> DEFINE T == {k \in 0..n : k \notin S}
<1> SUFFICES ASSUME T # {}  PROVE FALSE
    OBVIOUS
<1>1. T \subseteq Nat
    OBVIOUS
<1>2. PICK k \in T : \A m \in T : k <= m
    <2> HIDE DEF T
    <2> QED  BY <1>1, FirstIs
<1>3. k \in 1..n
    BY <1>2
<1>4. k - 1 \in 0..n /\ ~(k <= k - 1)
    BY <1>3
<1>5. k - 1 \in S
    BY <1>2, <1>4
<1> QED  BY <1>2, <1>3, <1>5

\* One step of a fold that is told by c, which it starts from, as a function of the indices it
\* has gone over.
Stepping(c, out, x) ==
    IF c.of = "rows" THEN Y!L!Taken(c.reader, out, x, c.room)
    ELSE IF c.of = "pages" THEN Y!L!Request(c.reader, out, x, c.room)
    ELSE IF c.of = "selected" THEN out + Y!L!Selected(x)
    ELSE out

Folding(c, g, items, n) ==
    g = [s \in SUBSET (1..n) |->
            IF s = {} THEN c.base ELSE Stepping(c, g[s \ {Y!L!Max(s)}], items[Y!L!Max(s)])]

LEMMA HighestIs ==
    ASSUME NEW n \in Nat, NEW s \in SUBSET (1..n), NEW h \in s, \A m \in s : m <= h
    PROVE  Y!L!Max(s) = h
<1>1. Y!L!Max(s) \in s /\ \A m \in s : Y!L!Max(s) >= m
    BY DEF Y!L!Max
<1>2. s \subseteq Nat
    OBVIOUS
<1>3. PICK x \in s : x = Y!L!Max(s) /\ \A m \in s : x >= m
    BY <1>1
<1> QED  BY <1>2, <1>3

\* The fold is defined for any number of items.
LEMMA FoldExists ==
    ASSUME NEW c, NEW items, NEW n \in Nat
    PROVE  \E g : Folding(c, g, items, n)
<1> DEFINE S == {m \in Nat : \E g : Folding(c, g, items, m)}
<1>1. 0 \in S
    <2> DEFINE g == [s \in SUBSET (1..0) |-> c.base]
    <2>1. \A s \in SUBSET (1..0) : s = {}
        OBVIOUS
    <2>2. Folding(c, g, items, 0)
        BY <2>1 DEF Folding
    <2> QED  BY <2>2
<1>2. ASSUME NEW m \in 1..n, m - 1 \in S  PROVE m \in S
    <2> DEFINE b == m - 1
    <2>1. b \in Nat /\ b < m /\ m \in Nat /\ m \in 1..m
        BY <1>2
    <2>2. PICK g : Folding(c, g, items, b)
        BY <1>2, <2>1
    <2> DEFINE h == [s \in SUBSET (1..m) |->
                        IF m \in s THEN Stepping(c, g[s \ {m}], items[m]) ELSE g[s]]
    <2>3. ASSUME NEW s \in SUBSET (1..m)
          PROVE  h[s] = IF s = {} THEN c.base
                        ELSE Stepping(c, h[s \ {Y!L!Max(s)}], items[Y!L!Max(s)])
        <3>1. CASE m \in s
            <4>1. Y!L!Max(s) = m
                <5>1. m \in Nat /\ \A k \in s : k <= m
                    BY <2>1
                <5> QED  BY <3>1, <5>1, HighestIs
            <4>2. s \ {m} \in SUBSET (1..m) /\ m \notin s \ {m}
                OBVIOUS
            <4>3. h[s \ {m}] = g[s \ {m}]
                BY <4>2
            <4> QED  BY <3>1, <4>1, <4>3
        <3>2. CASE m \notin s
            <4>1. s \in SUBSET (1..b)
                BY <2>1, <3>2
            <4>2. g[s] = IF s = {} THEN c.base
                         ELSE Stepping(c, g[s \ {Y!L!Max(s)}], items[Y!L!Max(s)])
                BY <2>2, <4>1 DEF Folding
            <4>3. s \ {Y!L!Max(s)} \in SUBSET (1..m) /\ m \notin s \ {Y!L!Max(s)}
                BY <3>2
            <4>4. h[s \ {Y!L!Max(s)}] = g[s \ {Y!L!Max(s)}]
                BY <4>3
            <4> QED  BY <3>2, <4>2, <4>4
        <3> QED  BY <3>1, <3>2
    <2>4. Folding(c, h, items, m)
        <3>1. h = [s \in SUBSET (1..m) |-> h[s]]
            OBVIOUS
        <3> HIDE DEF h
        <3> QED  BY <2>3, <3>1 DEF Folding
    <2> HIDE DEF h
    <2> QED  BY <2>1, <2>4
<1>3. n \in 0..n
    OBVIOUS
<1>4. n \in S
    <2> HIDE DEF S
    <2> QED  BY <1>1, <1>2, <1>3, AllReached
<1> QED  BY <1>4

\* One item after the other.
InOrder(c, h, items, n) ==
    /\ h[0] = c.base
    /\ \A k \in 1..n : h[k] = Stepping(c, h[k - 1], items[k])

LEMMA FoldIsInOrder ==
    ASSUME NEW c, NEW items, NEW n \in Nat, NEW g, Folding(c, g, items, n)
    PROVE  \E h : InOrder(c, h, items, n) /\ h[n] = g[1..n]
<1> DEFINE h == [k \in 0..n |-> g[1..k]]
<1>1. h[0] = c.base
    <2>1. 1..0 = {} /\ {} \in SUBSET (1..n) /\ 0 \in 0..n
        OBVIOUS
    <2>2. g[{}] = c.base
        BY <2>1 DEF Folding
    <2> QED  BY <2>1, <2>2
<1>2. ASSUME NEW k \in 1..n  PROVE h[k] = Stepping(c, h[k - 1], items[k])
    <2> DEFINE s == 1..k
    <2>1. s \in SUBSET (1..n) /\ s # {} /\ k \in s /\ \A m \in s : m <= k
        OBVIOUS
    <2>2. Y!L!Max(s) = k
        <3> HIDE DEF s
        <3> QED  BY <2>1, HighestIs
    <2>3. s \ {k} = 1..(k - 1) /\ k \in 0..n /\ k - 1 \in 0..n
        OBVIOUS
    <2>4. g[s] = Stepping(c, g[s \ {Y!L!Max(s)}], items[Y!L!Max(s)])
        <3> HIDE DEF s
        <3> QED  BY <2>1 DEF Folding
    <2> QED  BY <2>2, <2>3, <2>4
<1>3. h[n] = g[1..n]
    OBVIOUS
<1> HIDE DEF h
<1> QED  BY <1>1, <1>2, <1>3 DEF InOrder

-----------------------------------------------------------------------------
(* Lists, page by page.                                                      *)

LEMMA RowsFold ==
    ASSUME NEW T, NEW given \in Seq(T), NEW reader, NEW s, NEW room
    PROVE  \E h : /\ h[0] = s
                  /\ \A k \in 1..Len(given) :
                        h[k] = Y!L!Taken(reader, h[k - 1], given[k], room)
                  /\ Y!L!Rows(reader, s, given, room) = Y!L!Spoiled(h[Len(given)])
<1> DEFINE n == Len(given)
           Body(g) == [x \in SUBSET (1..n) |->
                        IF x = {} THEN s
                        ELSE Y!L!Taken(reader, g[x \ {Y!L!Max(x)}], given[Y!L!Max(x)], room)]
           whole == CHOOSE g : g = Body(g)
<1>1. PICK c : c = [of |-> "rows", base |-> s, reader |-> reader, room |-> room]
    OBVIOUS
<1>2. n \in Nat /\ DOMAIN given = 1..n
    OBVIOUS
<1>3. Y!L!Rows(reader, s, given, room) = Y!L!Spoiled(whole[1..n])
    BY <1>2 DEF Y!L!Rows, Y!L!FoldLeft, Y!L!MapThenFoldSet
<1>4. \A g : Folding(c, g, given, n) <=> g = Body(g)
    BY <1>1 DEF Folding, Stepping
<1>5. \E g : g = Body(g)
    <2> HIDE DEF Body, n
    <2> QED  BY <1>2, <1>4, FoldExists
<1>6. whole = Body(whole)
    <2> HIDE DEF Body
    <2> QED  BY <1>5
<1> HIDE DEF whole, Body
<1>7. Folding(c, whole, given, n)
    BY <1>4, <1>6
<1>8. PICK h : InOrder(c, h, given, n) /\ h[n] = whole[1..n]
    <2> HIDE DEF n
    <2> QED  BY <1>2, <1>7, FoldIsInOrder
<1>9. h[0] = s /\ \A k \in 1..n : h[k] = Y!L!Taken(reader, h[k - 1], given[k], room)
    BY <1>1, <1>8 DEF InOrder, Stepping
<1> QED  BY <1>3, <1>8, <1>9

\* The answers there are requests for.
Asked(answers) == SubSeq(answers, 1, Limits.pages)

LEMMA PagesFold ==
    ASSUME NEW T, NEW answers, Asked(answers) \in Seq(T), NEW reader, NEW room
    PROVE  \E h : /\ h[0] = Y!L!Start
                  /\ \A k \in 1..Len(Asked(answers)) :
                        h[k] = Y!L!Request(reader, h[k - 1], Asked(answers)[k], room)
                  /\ Y!L!Read(reader, answers, room) = h[Len(Asked(answers))]
<1>0. PICK list \in Seq(T) : list = Asked(answers)
    OBVIOUS
<1> DEFINE n == Len(list)
           Body(g) == [x \in SUBSET (1..n) |->
                        IF x = {} THEN Y!L!Start
                        ELSE Y!L!Request(reader, g[x \ {Y!L!Max(x)}], list[Y!L!Max(x)], room)]
           whole == CHOOSE g : g = Body(g)
<1>1. PICK c : c = [of |-> "pages", base |-> Y!L!Start, reader |-> reader, room |-> room]
    OBVIOUS
<1>2. n \in Nat /\ DOMAIN list = 1..n
    OBVIOUS
<1>3. Y!L!Read(reader, answers, room) = whole[1..n]
    BY <1>0, <1>2 DEF Asked, Y!L!Read, Y!L!FoldLeft, Y!L!MapThenFoldSet
<1>4. \A g : Folding(c, g, list, n) <=> g = Body(g)
    BY <1>1 DEF Folding, Stepping
<1>5. \E g : g = Body(g)
    <2> HIDE DEF Body, n
    <2> QED  BY <1>2, <1>4, FoldExists
<1>6. whole = Body(whole)
    <2> HIDE DEF Body
    <2> QED  BY <1>5
<1> HIDE DEF whole, Body
<1>7. Folding(c, whole, list, n)
    BY <1>4, <1>6
<1>8. PICK h : InOrder(c, h, list, n) /\ h[n] = whole[1..n]
    <2> HIDE DEF n
    <2> QED  BY <1>2, <1>7, FoldIsInOrder
<1>9. h[0] = Y!L!Start /\ \A k \in 1..n : h[k] = Y!L!Request(reader, h[k - 1], list[k], room)
    BY <1>1, <1>8 DEF InOrder, Stepping
<1> QED  BY <1>0, <1>3, <1>8, <1>9

LEMMA SelectedFold ==
    ASSUME NEW T, NEW list \in Seq(T)
    PROVE  \E h : /\ h[0] = 0
                  /\ \A k \in 1..Len(list) : h[k] = h[k - 1] + Y!L!Selected(list[k])
                  /\ Y!L!Total(list) = h[Len(list)]
<1> DEFINE n == Len(list)
           Body(g) == [x \in SUBSET (1..n) |->
                        IF x = {} THEN 0
                        ELSE g[x \ {Y!L!Max(x)}] + Y!L!Selected(list[Y!L!Max(x)])]
           whole == CHOOSE g : g = Body(g)
<1>1. PICK c : c = [of |-> "selected", base |-> 0]
    OBVIOUS
<1>2. n \in Nat /\ DOMAIN list = 1..n
    OBVIOUS
<1>3. Y!L!Total(list) = whole[1..n]
    BY <1>2 DEF Y!L!Total, Y!L!FoldLeft, Y!L!MapThenFoldSet
<1>4. \A g : Folding(c, g, list, n) <=> g = Body(g)
    BY <1>1 DEF Folding, Stepping
<1>5. \E g : g = Body(g)
    <2> HIDE DEF Body, n
    <2> QED  BY <1>2, <1>4, FoldExists
<1>6. whole = Body(whole)
    <2> HIDE DEF Body
    <2> QED  BY <1>5
<1> HIDE DEF whole, Body
<1>7. Folding(c, whole, list, n)
    BY <1>4, <1>6
<1>8. PICK h : InOrder(c, h, list, n) /\ h[n] = whole[1..n]
    <2> HIDE DEF n
    <2> QED  BY <1>2, <1>7, FoldIsInOrder
<1>9. h[0] = 0 /\ \A k \in 1..n : h[k] = h[k - 1] + Y!L!Selected(list[k])
    BY <1>1, <1>8 DEF InOrder, Stepping
<1> QED  BY <1>3, <1>8, <1>9

\* What is selected of one answer more is what was selected before and of that answer.
LEMMA TotalGrows ==
    ASSUME NEW T, NEW list \in Seq(T), NEW m \in 1..Len(list)
    PROVE  Y!L!Total(SubSeq(list, 1, m))
              = Y!L!Total(SubSeq(list, 1, m - 1)) + Y!L!Selected(list[m])
<1> DEFINE most == SubSeq(list, 1, m)
           less == SubSeq(list, 1, m - 1)
<1>1. /\ most \in Seq(T) /\ Len(most) = m /\ less \in Seq(T) /\ Len(less) = m - 1
      /\ \A k \in 1..m : most[k] = list[k]
      /\ \A k \in 1..(m - 1) : less[k] = list[k]
    OBVIOUS
<1> HIDE DEF most, less
<1>2. PICK h : /\ h[0] = 0 /\ \A k \in 1..m : h[k] = h[k - 1] + Y!L!Selected(list[k])
               /\ Y!L!Total(most) = h[m]
    BY <1>1, SelectedFold
<1>3. PICK g : /\ g[0] = 0 /\ \A k \in 1..(m - 1) : g[k] = g[k - 1] + Y!L!Selected(list[k])
               /\ Y!L!Total(less) = g[m - 1]
    BY <1>1, SelectedFold
<1> DEFINE S == {k \in 0..m : k < m => h[k] = g[k]}
<1>4. 0 \in S
    BY <1>2, <1>3
<1>5. ASSUME NEW k \in 1..(m - 1), k - 1 \in S  PROVE k \in S
    BY <1>2, <1>3, <1>5
<1>6. m - 1 \in Nat /\ m - 1 \in 0..(m - 1)
    OBVIOUS
<1>7. m - 1 \in S
    <2> HIDE DEF S
    <2> QED  BY <1>4, <1>5, <1>6, AllReached
<1>8. h[m] = h[m - 1] + Y!L!Selected(list[m])
    BY <1>2
<1> QED  BY <1>2, <1>3, <1>7, <1>8 DEF most, less

LEMMA TotalStarts == ASSUME NEW T, NEW list \in Seq(T)  PROVE Y!L!Total(SubSeq(list, 1, 0)) = 0
<1>1. PICK none : none = SubSeq(list, 1, 0)
    OBVIOUS
<1>2. none \in Seq(T) /\ Len(none) = 0
    BY <1>1
<1>3. Y!L!Total(none) = 0
    BY <1>2, SelectedFold
<1> QED  BY <1>1, <1>3

\* What is known while a list is read, whatever faults and cursors there are.
Errors == {"ok", "limit", "malformed", "missing", "unavailable", "forbidden"}

Progress(Fault, Cursor) ==
    [outcome : Errors \cup Fault, pages : Nat, tokens : Seq(Cursor), count : Nat, kept : Nat,
     queued : Nat, over : BOOLEAN]

Wanted == {"wanted", "detail"}

\* A row that is taken without an error is kept if it was selected.
RowTaken(Fault, Cursor, reader, s, r, t) ==
    /\ t \in Progress(Fault, Cursor) /\ t.pages = s.pages
    /\ t.outcome = "ok" =>
        /\ s.outcome = "ok" /\ ~t.over
        /\ r = "bad" => "bad" \in Y!L!Skipped(reader)
        /\ t.kept = s.kept + (IF r \in Wanted THEN 1 ELSE 0)

\* What happens to a row: it ends the reading, spoils it, is kept or is left out.
LEMMA Failing ==
    ASSUME NEW Fault, NEW Cursor, NEW s \in Progress(Fault, Cursor), NEW reader, NEW r,
           NEW e \in Errors \cup Fault, e # "ok"
    PROVE  RowTaken(Fault, Cursor, reader, s, r, Y!L!Fail(s, e))
BY DEF RowTaken, Progress, Y!L!Fail

LEMMA Marking ==
    ASSUME NEW Fault, NEW Cursor, NEW s \in Progress(Fault, Cursor), NEW reader, NEW r,
           NEW e \in Errors \cup Fault, e # "ok"
    PROVE  RowTaken(Fault, Cursor, reader, s, r, [s EXCEPT !.outcome = e])
BY DEF RowTaken, Progress

LEMMA Keeping ==
    ASSUME NEW Fault, NEW Cursor, NEW s \in Progress(Fault, Cursor), ~s.over, NEW reader,
           NEW r \in Wanted
    PROVE  /\ RowTaken(Fault, Cursor, reader, s, r, Y!L!Keep(s))
           /\ RowTaken(Fault, Cursor, reader, s, r, [s EXCEPT !.kept = @ + 1])
           /\ RowTaken(Fault, Cursor, reader, s, r, [s EXCEPT !.kept = @ + 1, !.queued = @ + 1])
<1>1. r # "bad"
    BY DEF Wanted
<1>2. RowTaken(Fault, Cursor, reader, s, r, Y!L!Keep(s))
    <2>1. PICK t : t = Y!L!Keep(s)
        OBVIOUS
    <2>2. t \in Progress(Fault, Cursor)
        <3>1. PICK u : u = [s EXCEPT !.count = @ + 1]
            OBVIOUS
        <3>2. u \in Progress(Fault, Cursor) /\ t = [u EXCEPT !.kept = @ + 1]
            BY <2>1, <3>1 DEF Progress, Y!L!Keep
        <3> QED  BY <3>2 DEF Progress
    <2>3. /\ t.pages = s.pages /\ t.outcome = s.outcome /\ ~t.over
          /\ t.kept = s.kept + 1
        BY <2>1 DEF Progress, Y!L!Keep
    <2> QED  BY <1>1, <2>1, <2>2, <2>3 DEF RowTaken
<1>3. RowTaken(Fault, Cursor, reader, s, r, [s EXCEPT !.kept = @ + 1])
    BY <1>1 DEF RowTaken, Progress
<1>4. RowTaken(Fault, Cursor, reader, s, r, [s EXCEPT !.kept = @ + 1, !.queued = @ + 1])
    <2>1. PICK t : t = [s EXCEPT !.kept = @ + 1, !.queued = @ + 1]
        OBVIOUS
    <2>2. t \in Progress(Fault, Cursor)
        <3>1. PICK u : u = [s EXCEPT !.kept = @ + 1]
            OBVIOUS
        <3>2. u \in Progress(Fault, Cursor) /\ t = [u EXCEPT !.queued = @ + 1]
            BY <2>1, <3>1 DEF Progress
        <3>3. u.queued \in Nat /\ u.queued + 1 \in Nat
            BY <3>2 DEF Progress
        <3> QED  BY <3>2, <3>3 DEF Progress
    <2>3. /\ t.pages = s.pages /\ t.outcome = s.outcome /\ ~t.over
          /\ t.kept = s.kept + 1
        BY <2>1 DEF Progress
    <2> QED  BY <1>1, <2>1, <2>2, <2>3 DEF RowTaken
<1> QED  BY <1>2, <1>3, <1>4

LEMMA Leaving ==
    ASSUME NEW Fault, NEW Cursor, NEW s \in Progress(Fault, Cursor), ~s.over, NEW reader,
           NEW r, r \notin Wanted, r = "bad" => "bad" \in Y!L!Skipped(reader)
    PROVE  /\ RowTaken(Fault, Cursor, reader, s, r, s)
           /\ RowTaken(Fault, Cursor, reader, s, r, [s EXCEPT !.count = @ + 1])
BY DEF RowTaken, Progress

LEMMA SkippedIs ==
    /\ \A reader \in {"roots", "github", "metrics"} : Y!L!Skipped(reader) = {"bad"}
    /\ \A reader \in Y!L!Readers \ {"roots", "github", "metrics"} : Y!L!Skipped(reader) = {}
BY Zenon DEF Y!L!Skipped, Y!L!Readers

LEMMA KindsAre ==
    /\ Y!Kinds("endpoint") = {"wanted", "detail", "other", "bad"}
    /\ Y!Kinds("kube") = {"wanted", "other"}
    /\ \A reader \in {"roots", "projects", "github"} : Y!Kinds(reader) = {"wanted", "bad"}
    /\ Y!Kinds("commits") = {"wanted", "bad", "again"}
    /\ \A reader \in {"series", "metrics", "groups"} :
          Y!Kinds(reader) = {"wanted", "other", "bad"}
    /\ Y!Kinds("lines") = {"wanted", "other", "bad", "late", "again"}
    /\ Y!Kinds("table") = {"wanted", "bad", "late", "again"}
BY Zenon DEF Y!Kinds

LEMMA RecordIsTaken ==
    ASSUME NEW Fault, NEW Cursor, NEW s \in Progress(Fault, Cursor), ~s.over, NEW reader,
           NEW r \in {"wanted", "late", "again"}, NEW room
    PROVE  RowTaken(Fault, Cursor, reader, s, r, Y!L!Record(s, r, room))
<1>1. PICK u : u = [s EXCEPT !.count = @ + 1]
    OBVIOUS
<1>2. u \in Progress(Fault, Cursor) /\ u.pages = s.pages
    BY <1>1 DEF Progress
<1>3. RowTaken(Fault, Cursor, reader, s, r, Y!L!Fail(u, "malformed"))
    BY <1>2 DEF RowTaken, Progress, Errors, Y!L!Fail
<1>4. RowTaken(Fault, Cursor, reader, s, r, Y!L!Fail(s, "limit"))
    BY Failing DEF Errors
<1>5. r = "wanted" => RowTaken(Fault, Cursor, reader, s, r, Y!L!Keep(s))
    BY Keeping DEF Wanted
<1>6. r = "again" => RowTaken(Fault, Cursor, reader, s, r, u)
    BY <1>1, Leaving DEF Wanted
<1> QED  BY Zenon, <1>1, <1>3, <1>4, <1>5, <1>6 DEF Y!L!Record

LEMMA RowIsTaken ==
    ASSUME NEW Fault, NEW Cursor, NEW s \in Progress(Fault, Cursor), ~s.over,
           NEW reader \in Y!L!Readers, NEW r \in Y!Kinds(reader),
           reader = "projects" => r # "bad", NEW room
    PROVE  RowTaken(Fault, Cursor, reader, s, r, Y!L!Row(reader, s, r, room))
<1> DEFINE Good(t) == RowTaken(Fault, Cursor, reader, s, r, t)
<1>1. /\ Good(Y!L!Fail(s, "limit")) /\ Good(Y!L!Fail(s, "malformed"))
      /\ Good([s EXCEPT !.outcome = "malformed"]) /\ Good([s EXCEPT !.outcome = "missing"])
    BY Failing, Marking DEF Errors
<1>2. r \in Wanted => Good(Y!L!Keep(s)) /\ Good([s EXCEPT !.kept = @ + 1])
                      /\ Good([s EXCEPT !.kept = @ + 1, !.queued = @ + 1])
    BY Keeping
<1>3. r \notin Wanted /\ r # "bad" => Good(s)
    BY Leaving
<1>4. r = "bad" /\ reader \in {"roots", "github", "metrics"} => Good(s)
    BY Leaving, SkippedIs DEF Wanted
<1>5. CASE reader = "endpoint"
    <2>1. PICK u : u = [s EXCEPT !.kept = @ + 1]
        OBVIOUS
    <2>2. u \in Progress(Fault, Cursor) /\ u.pages = s.pages
        BY <2>1 DEF Progress
    <2>3. Good(Y!L!Fail(u, "limit"))
        BY <2>2 DEF RowTaken, Progress, Errors, Y!L!Fail
    <2> HIDE DEF Good
    <2>4. Y!L!Row(reader, s, r, room) = Y!L!AssetRow(s, r)
        BY Zenon, <1>5 DEF Y!L!Row
    <2>5. r \in {"wanted", "detail", "other", "bad"}
        BY <1>5, KindsAre
    <2>6. /\ r \in {"wanted", "detail"} => r \in Wanted
          /\ r = "other" => r \notin Wanted /\ r # "bad"
        BY DEF Wanted
    <2>7. Good(Y!L!AssetRow(s, r))
        BY Zenon, <1>1, <1>2, <1>3, <2>1, <2>3, <2>5, <2>6 DEF Y!L!AssetRow
    <2> QED  BY <2>4, <2>7 DEF Good
<1>6. CASE reader = "kube"
    <2>1. Y!L!Row(reader, s, r, room) = Y!L!KubeRow(s, r)
        BY Zenon, <1>6 DEF Y!L!Row
    <2>2. r \in {"wanted", "other"}
        BY <1>6, KindsAre
    <2>3. /\ r = "wanted" => r \in Wanted
          /\ r \in {"other", "late", "again"} => r \notin Wanted /\ r # "bad"
        BY DEF Wanted
    <2> HIDE DEF Good
    <2>5. Good(Y!L!KubeRow(s, r))
        BY Zenon, <1>1, <1>2, <1>3, <1>4, <1>6, <2>2, <2>3 DEF Y!L!KubeRow
    <2> QED  BY <2>1, <2>5 DEF Good
<1>7. CASE reader \in {"roots", "projects"}
    <2>1. Y!L!Row(reader, s, r, room) = Y!L!RootRow(s, r)
        BY Zenon, <1>7 DEF Y!L!Row
    <2>2. r \in {"wanted", "bad"}
        BY <1>7, KindsAre
    <2>3. /\ r = "wanted" => r \in Wanted
          /\ r \in {"other", "late", "again"} => r \notin Wanted /\ r # "bad"
        BY DEF Wanted
    <2> HIDE DEF Good
    <2>5. Good(Y!L!RootRow(s, r))
        BY Zenon, <1>1, <1>2, <1>3, <1>4, <1>7, <2>2, <2>3 DEF Y!L!RootRow
    <2> QED  BY <2>1, <2>5 DEF Good
<1>8. CASE reader = "github"
    <2>1. Y!L!Row(reader, s, r, room) = Y!L!GithubRow(s, r)
        BY Zenon, <1>8 DEF Y!L!Row
    <2>2. r \in {"wanted", "bad"}
        BY <1>8, KindsAre
    <2>3. /\ r = "wanted" => r \in Wanted
          /\ r \in {"other", "late", "again"} => r \notin Wanted /\ r # "bad"
        BY DEF Wanted
    <2> HIDE DEF Good
    <2>5. Good(Y!L!GithubRow(s, r))
        BY Zenon, <1>1, <1>2, <1>3, <1>4, <1>8, <2>2, <2>3 DEF Y!L!GithubRow
    <2> QED  BY <2>1, <2>5 DEF Good
<1>9. CASE reader = "commits"
    <2>1. Y!L!Row(reader, s, r, room) = Y!L!CommitRow(s, r)
        BY Zenon, <1>9 DEF Y!L!Row
    <2>2. r \in {"wanted", "bad", "again"}
        BY <1>9, KindsAre
    <2>3. /\ r = "wanted" => r \in Wanted
          /\ r \in {"other", "late", "again"} => r \notin Wanted /\ r # "bad"
        BY DEF Wanted
    <2> HIDE DEF Good
    <2>5. Good(Y!L!CommitRow(s, r))
        BY Zenon, <1>1, <1>2, <1>3, <1>4, <1>9, <2>2, <2>3 DEF Y!L!CommitRow
    <2> QED  BY <2>1, <2>5 DEF Good
<1>10. CASE reader = "series"
    <2>1. Y!L!Row(reader, s, r, room) = Y!L!SeriesRow(s, r)
        BY Zenon, <1>10 DEF Y!L!Row
    <2>2. r \in {"wanted", "other", "bad"}
        BY <1>10, KindsAre
    <2>3. /\ r = "wanted" => r \in Wanted
          /\ r \in {"other", "late", "again"} => r \notin Wanted /\ r # "bad"
        BY DEF Wanted
    <2> HIDE DEF Good
    <2>5. Good(Y!L!SeriesRow(s, r))
        BY Zenon, <1>1, <1>2, <1>3, <1>4, <1>10, <2>2, <2>3 DEF Y!L!SeriesRow
    <2> QED  BY <2>1, <2>5 DEF Good
<1>11. CASE reader = "metrics"
    <2>1. Y!L!Row(reader, s, r, room) = Y!L!MetricRow(s, r)
        BY Zenon, <1>11 DEF Y!L!Row
    <2>2. r \in {"wanted", "other", "bad"}
        BY <1>11, KindsAre
    <2>3. /\ r = "wanted" => r \in Wanted
          /\ r \in {"other", "late", "again"} => r \notin Wanted /\ r # "bad"
        BY DEF Wanted
    <2> HIDE DEF Good
    <2>5. Good(Y!L!MetricRow(s, r))
        BY Zenon, <1>1, <1>2, <1>3, <1>4, <1>11, <2>2, <2>3 DEF Y!L!MetricRow
    <2> QED  BY <2>1, <2>5 DEF Good
<1>12. CASE reader = "groups"
    <2>1. Y!L!Row(reader, s, r, room) = Y!L!GroupRow(s, r)
        BY Zenon, <1>12 DEF Y!L!Row
    <2>2. r \in {"wanted", "other", "bad"}
        BY <1>12, KindsAre
    <2>3. /\ r = "wanted" => r \in Wanted
          /\ r \in {"other", "late", "again"} => r \notin Wanted /\ r # "bad"
        BY DEF Wanted
    <2> HIDE DEF Good
    <2>5. Good(Y!L!GroupRow(s, r))
        BY Zenon, <1>1, <1>2, <1>3, <1>4, <1>12, <2>2, <2>3 DEF Y!L!GroupRow
    <2> QED  BY <2>1, <2>5 DEF Good
<1>13. CASE reader = "lines"
    <2>1. Y!L!Row(reader, s, r, room) = Y!L!LineRow(s, r, room)
        BY Zenon, <1>13 DEF Y!L!Row
    <2>2. r \in {"wanted", "other", "bad", "late", "again"}
        BY <1>13, KindsAre
    <2>3. /\ r = "wanted" => r \in Wanted
          /\ r \in {"other", "late", "again"} => r \notin Wanted /\ r # "bad"
        BY DEF Wanted
    <2>4. r \in {"wanted", "late", "again"} => Good(Y!L!Record(s, r, room))
        BY RecordIsTaken
    <2> HIDE DEF Good
    <2>5. Good(Y!L!LineRow(s, r, room))
        BY Zenon, <1>1, <1>2, <1>3, <1>4, <1>13, <2>2, <2>3, <2>4 DEF Y!L!LineRow
    <2> QED  BY <2>1, <2>5 DEF Good
<1>14. CASE reader = "table"
    <2>1. Y!L!Row(reader, s, r, room) = Y!L!TableRow(s, r, room)
        BY Zenon, <1>14 DEF Y!L!Row
    <2>2. r \in {"wanted", "bad", "late", "again"}
        BY <1>14, KindsAre
    <2>3. /\ r = "wanted" => r \in Wanted
          /\ r \in {"other", "late", "again"} => r \notin Wanted /\ r # "bad"
        BY DEF Wanted
    <2>4. r \in {"wanted", "late", "again"} => Good(Y!L!Record(s, r, room))
        BY RecordIsTaken
    <2> HIDE DEF Good
    <2>5. Good(Y!L!TableRow(s, r, room))
        BY Zenon, <1>1, <1>2, <1>3, <1>4, <1>14, <2>2, <2>3, <2>4 DEF Y!L!TableRow
    <2> QED  BY <2>1, <2>5 DEF Good
<1> QED  BY <1>5, <1>6, <1>7, <1>8, <1>9, <1>10, <1>11, <1>12, <1>13, <1>14 DEF Y!L!Readers

\* How many of the first rows were selected.
SelectedIn(given, k) == Cardinality({i \in 1..k : given[i] \in Wanted})

LEMMA ChosenGrows ==
    ASSUME NEW given
    PROVE  /\ SelectedIn(given, 0) = 0
           /\ \A k \in Nat : SelectedIn(given, k) \in Nat
           /\ \A k \in Nat \ {0} :
                SelectedIn(given, k) = SelectedIn(given, k - 1) + (IF given[k] \in Wanted THEN 1 ELSE 0)
<1> DEFINE Of(k) == {i \in 1..k : given[i] \in Wanted}
<1>1. \A k \in Nat : IsFiniteSet(Of(k)) /\ Cardinality(Of(k)) \in Nat
    <2> TAKE k \in Nat
    <2>1. IsFiniteSet(1..k)
        BY FS_Interval
    <2> QED  BY <2>1, FS_Subset, FS_CardinalityType
<1>2. Of(0) = {}
    OBVIOUS
<1>3. ASSUME NEW k \in Nat \ {0}
      PROVE  Cardinality(Of(k)) = Cardinality(Of(k - 1)) + (IF given[k] \in Wanted THEN 1 ELSE 0)
    <2>1. k - 1 \in Nat /\ k \notin Of(k - 1)
        OBVIOUS
    <2>2. Of(k) = IF given[k] \in Wanted THEN Of(k - 1) \cup {k} ELSE Of(k - 1)
        OBVIOUS
    <2> HIDE DEF Of
    <2>3. Cardinality(Of(k - 1) \cup {k}) = Cardinality(Of(k - 1)) + 1
        BY <1>1, <2>1, FS_AddElement
    <2> QED  BY <1>1, <2>1, <2>2, <2>3
<1>4. Cardinality(Of(0)) = 0
    BY <1>2, FS_EmptySet
<1> QED  BY <1>1, <1>3, <1>4 DEF SelectedIn

LEMMA SelectedIs ==
    ASSUME NEW T, NEW p, p.rows \in Seq(T)
    PROVE  Y!L!Selected(p) = SelectedIn(p.rows, Len(p.rows))
<1>1. \A S : Y!L!Cardinality(S) = Cardinality(S)
    BY DEF Y!L!Cardinality, Cardinality
<1>2. DOMAIN p.rows = 1..Len(p.rows)
    OBVIOUS
<1> QED  BY <1>1, <1>2 DEF Y!L!Selected, SelectedIn, Wanted

\* The rows that are taken without an error are all of the page, and those selected are kept.
RowsTaken(Fault, Cursor, reader, s, given, t) ==
    /\ t \in Progress(Fault, Cursor) /\ t.pages = s.pages
    /\ t.outcome # "ok" => t.over
    /\ t.outcome = "ok" =>
        /\ ~t.over
        /\ \A i \in DOMAIN given : given[i] = "bad" => "bad" \in Y!L!Skipped(reader)
        /\ t.kept = s.kept + SelectedIn(given, Len(given))

LEMMA RowsAreTaken ==
    ASSUME NEW Fault, NEW Cursor, NEW s \in Progress(Fault, Cursor), ~s.over, s.outcome = "ok",
           NEW reader \in Y!L!Readers, NEW given \in Seq(Y!Kinds(reader)),
           reader = "projects" => \A i \in DOMAIN given : given[i] # "bad", NEW room
    PROVE  RowsTaken(Fault, Cursor, reader, s, given, Y!L!Rows(reader, s, given, room))
<1>1. PICK h : /\ h[0] = s
               /\ \A k \in 1..Len(given) : h[k] = Y!L!Taken(reader, h[k - 1], given[k], room)
               /\ Y!L!Rows(reader, s, given, room) = Y!L!Spoiled(h[Len(given)])
    BY RowsFold
<1> DEFINE n == Len(given)
           Holds(k) ==
              /\ h[k] \in Progress(Fault, Cursor) /\ h[k].pages = s.pages
              /\ h[k].outcome = "ok" =>
                    /\ ~h[k].over
                    /\ \A i \in 1..k : given[i] = "bad" => "bad" \in Y!L!Skipped(reader)
                    /\ h[k].kept = s.kept + SelectedIn(given, k)
           S == {k \in 0..n : Holds(k)}
<1>2. n \in Nat /\ DOMAIN given = 1..n /\ s.kept \in Nat
    BY DEF Progress
<1>3. 0 \in S
    <2>1. SelectedIn(given, 0) = 0
        BY ChosenGrows
    <2> QED  BY <1>1, <1>2, <2>1
<1>4. ASSUME NEW k \in 1..n, k - 1 \in S  PROVE k \in S
    <2>1. Holds(k - 1) /\ k \in 0..n /\ k \in Nat \ {0} /\ k - 1 \in Nat
        BY <1>4
    <2>2. SelectedIn(given, k) = SelectedIn(given, k - 1) + (IF given[k] \in Wanted THEN 1 ELSE 0)
          /\ SelectedIn(given, k - 1) \in Nat
        BY <2>1, ChosenGrows
    <2>3. h[k] = Y!L!Taken(reader, h[k - 1], given[k], room)
        BY <1>1, <1>4
    <2>4. CASE h[k - 1].over
        <3>1. h[k] = h[k - 1]
            BY <2>3, <2>4 DEF Y!L!Taken
        <3> QED  BY <2>1, <2>4, <3>1
    <2>5. CASE ~h[k - 1].over
        <3>1. PICK q : q = h[k - 1]
            OBVIOUS
        <3>2. PICK r : r = given[k]
            OBVIOUS
        <3>3. /\ q \in Progress(Fault, Cursor) /\ ~q.over /\ r \in Y!Kinds(reader)
              /\ reader = "projects" => r # "bad"
            BY <1>2, <2>1, <2>5, <3>1, <3>2
        <3>4. RowTaken(Fault, Cursor, reader, q, r, Y!L!Row(reader, q, r, room))
            BY <3>3, RowIsTaken
        <3>5. h[k] = Y!L!Row(reader, q, r, room)
            BY <2>3, <2>5, <3>1, <3>2 DEF Y!L!Taken
        <3>6. /\ h[k] \in Progress(Fault, Cursor) /\ h[k].pages = q.pages
              /\ h[k].outcome = "ok" =>
                    /\ q.outcome = "ok" /\ ~h[k].over
                    /\ r = "bad" => "bad" \in Y!L!Skipped(reader)
                    /\ h[k].kept = q.kept + (IF r \in Wanted THEN 1 ELSE 0)
            BY <3>4, <3>5 DEF RowTaken
        <3>7. h[k].outcome = "ok" =>
                /\ \A i \in 1..k : given[i] = "bad" => "bad" \in Y!L!Skipped(reader)
                /\ h[k].kept = s.kept + SelectedIn(given, k)
            BY <1>2, <2>1, <2>2, <3>1, <3>2, <3>6
        <3> QED  BY <2>1, <3>1, <3>6, <3>7
    <2> QED  BY <2>4, <2>5
<1>5. n \in S
    <2>1. n \in 0..n
        BY <1>2
    <2> HIDE DEF S, n
    <2> QED  BY <1>2, <1>3, <1>4, <2>1, AllReached
<1>6. PICK t : t = h[n]
    OBVIOUS
<1>7. /\ t \in Progress(Fault, Cursor) /\ t.pages = s.pages
      /\ t.outcome = "ok" =>
            /\ ~t.over
            /\ \A i \in DOMAIN given : given[i] = "bad" => "bad" \in Y!L!Skipped(reader)
            /\ t.kept = s.kept + SelectedIn(given, n)
    BY <1>2, <1>5, <1>6
<1>8. RowsTaken(Fault, Cursor, reader, s, given, Y!L!Spoiled(t))
    BY <1>7 DEF RowsTaken, Y!L!Spoiled, Y!L!End, Progress
<1> QED  BY <1>1, <1>6, <1>8

\* An answer as a reader finds it.
Answer(Fault, Cursor, reader, p) ==
    /\ p.fault \in {"ok"} \cup Fault /\ p.rows \in Seq(Y!Kinds(reader)) /\ p.next \in Cursor
    /\ p.cut \in BOOLEAN
    /\ reader = "metrics" => p.form # "wrong"

\* A page that ends the list says so.
Ends(reader, p) ==
    /\ IF reader \in {"github", "commits"} THEN Len(p.rows) < Limits.size
       ELSE reader # "table" => p.next = ""
    /\ reader \in {"endpoint", "series", "table"} => ~p.cut

Unspoiled(reader, p) ==
    /\ p.form # "wrong"
    /\ \A i \in DOMAIN p.rows : p.rows[i] = "bad" => "bad" \in Y!L!Skipped(reader)

\* A page that is taken without an error is taken whole; it ends the list, or there is another
\* request to make.
PageTaken(Fault, Cursor, reader, s, p, t) ==
    /\ t \in Progress(Fault, Cursor) /\ t.pages = s.pages
    /\ t.outcome # "ok" => t.over
    /\ t.outcome = "ok" =>
        /\ Unspoiled(reader, p) /\ t.kept = s.kept + Y!L!Selected(p)
        /\ ~t.over => s.pages # Limits.pages
        /\ t.over => Ends(reader, p)

\* An error, and nothing else.
Failed(Fault, Cursor, s, t) ==
    t \in Progress(Fault, Cursor) /\ t.pages = s.pages /\ t.outcome # "ok" /\ t.over

LEMMA FailedIs ==
    ASSUME NEW Fault, NEW Cursor, NEW s \in Progress(Fault, Cursor),
           NEW e \in Errors \cup Fault, e # "ok"
    PROVE  Failed(Fault, Cursor, s, Y!L!Fail(s, e))
BY DEF Failed, Progress, Y!L!Fail

Turned(Fault, Cursor, u, p, t) ==
    /\ t \in Progress(Fault, Cursor) /\ t.pages = u.pages
    /\ (u.outcome # "ok" => u.over) => (t.outcome # "ok" => t.over)
    /\ t.outcome = "ok" =>
        /\ u.outcome = "ok" /\ t.kept = u.kept
        /\ ~t.over => u.pages # Limits.pages
        /\ t.over => u.over \/ p.next = ""

LEMMA TurnIs ==
    ASSUME NEW Fault, NEW Cursor, NEW u \in Progress(Fault, Cursor), NEW p, p.next \in Cursor,
           NEW repeated, NEW full
    PROVE  Turned(Fault, Cursor, u, p, Y!L!Turn(u, p, repeated, full))
<1> PICK t : t = Y!L!Turn(u, p, repeated, full)
    OBVIOUS
<1>1. CASE u.over \/ p.next = ""
    <2>1. t = [u EXCEPT !.over = TRUE]
        BY <1>1 DEF Y!L!Turn, Y!L!End
    <2> QED  BY <1>1, <2>1 DEF Progress, Turned
<1>2. CASE ~(u.over \/ p.next = "") /\ (repeated \/ u.pages = Limits.pages \/ full)
    <2>1. t = Y!L!Fail(u, "limit")
        BY <1>2 DEF Y!L!Turn
    <2>2. Failed(Fault, Cursor, u, Y!L!Fail(u, "limit"))
        BY FailedIs DEF Errors
    <2> QED  BY <2>1, <2>2 DEF Failed, Turned
<1>3. CASE ~(u.over \/ p.next = "") /\ ~(repeated \/ u.pages = Limits.pages \/ full)
    <2>1. t = [u EXCEPT !.tokens = Append(@, p.next)]
        BY <1>3 DEF Y!L!Turn
    <2>2. u.tokens \in Seq(Cursor) /\ Append(u.tokens, p.next) \in Seq(Cursor)
        BY DEF Progress
    <2>3. t \in Progress(Fault, Cursor)
        BY <2>1, <2>2 DEF Progress
    <2>4. t.pages = u.pages /\ t.outcome = u.outcome /\ t.kept = u.kept /\ ~t.over
        BY <1>3, <2>1 DEF Progress
    <2> QED  BY <1>3, <2>3, <2>4 DEF Turned
<1> QED  BY <1>1, <1>2, <1>3

\* The page of a reader that keeps the cursor.
LEMMA TurnTakes ==
    ASSUME NEW Fault, NEW Cursor, NEW s \in Progress(Fault, Cursor), NEW reader, NEW p,
           p.next \in Cursor, p.form # "wrong", p.rows \in Seq(Y!Kinds(reader)),
           reader \notin {"github", "commits", "table"},
           NEW u, RowsTaken(Fault, Cursor, reader, s, p.rows, u), NEW repeated, NEW full
    PROVE  /\ reader \notin {"endpoint", "series"} \/ ~p.cut =>
                PageTaken(Fault, Cursor, reader, s, p, Y!L!Turn(u, p, repeated, full))
           /\ Failed(Fault, Cursor, s, Y!L!Turn(Y!L!Fail(u, "unavailable"), p, repeated, full))
<1>1. /\ u \in Progress(Fault, Cursor) /\ u.pages = s.pages
      /\ u.outcome # "ok" => u.over
      /\ u.outcome = "ok" => ~u.over /\ u.kept = s.kept + SelectedIn(p.rows, Len(p.rows))
    BY DEF RowsTaken
<1>2. u.outcome = "ok" => Unspoiled(reader, p)
    BY DEF RowsTaken, Unspoiled
<1>3. Y!L!Selected(p) = SelectedIn(p.rows, Len(p.rows))
    BY SelectedIs
<1>4. PICK t : t = Y!L!Turn(u, p, repeated, full)
    OBVIOUS
<1>5. Turned(Fault, Cursor, u, p, t)
    BY <1>1, <1>4, TurnIs
<1>6. ASSUME reader \notin {"endpoint", "series"} \/ ~p.cut
      PROVE  PageTaken(Fault, Cursor, reader, s, p, t)
    BY <1>1, <1>2, <1>3, <1>5, <1>6 DEF PageTaken, Ends, Turned
<1>7. PICK v : v = Y!L!Fail(u, "unavailable")
    OBVIOUS
<1>8. v \in Progress(Fault, Cursor) /\ v.pages = s.pages /\ v.outcome # "ok" /\ v.over
    BY <1>1, <1>7 DEF Progress, Errors, Y!L!Fail
<1>9. PICK w : w = Y!L!Turn(v, p, repeated, full)
    OBVIOUS
<1>10. Failed(Fault, Cursor, s, w)
    <2>1. Turned(Fault, Cursor, v, p, w)
        BY <1>8, <1>9, TurnIs
    <2> QED  BY <1>8, <2>1 DEF Failed, Turned
<1> QED  BY <1>4, <1>6, <1>7, <1>9, <1>10

\* The page of a list with numbered pages.
LEMMA NumberedTakes ==
    ASSUME NEW Fault, NEW Cursor, NEW s \in Progress(Fault, Cursor),
           NEW reader \in {"github", "commits"}, NEW p,
           p.form # "wrong", p.rows \in Seq(Y!Kinds(reader)),
           NEW u, RowsTaken(Fault, Cursor, reader, s, p.rows, u)
    PROVE  PageTaken(Fault, Cursor, reader, s, p, Y!L!Numbered(u, p))
<1>1. /\ u \in Progress(Fault, Cursor) /\ u.pages = s.pages
      /\ u.outcome # "ok" => u.over
      /\ u.outcome = "ok" => ~u.over /\ u.kept = s.kept + SelectedIn(p.rows, Len(p.rows))
    BY DEF RowsTaken
<1>2. u.outcome = "ok" => Unspoiled(reader, p)
    BY DEF RowsTaken, Unspoiled
<1>3. Y!L!Selected(p) = SelectedIn(p.rows, Len(p.rows))
    BY SelectedIs
<1>4. PICK t : t = Y!L!Numbered(u, p)
    OBVIOUS
<1>5. CASE u.over \/ Len(p.rows) < Limits.size
    <2>1. t = [u EXCEPT !.over = TRUE]
        BY <1>4, <1>5 DEF Y!L!Numbered, Y!L!End
    <2>2. /\ t \in Progress(Fault, Cursor) /\ t.pages = u.pages /\ t.outcome = u.outcome
          /\ t.kept = u.kept /\ t.over
        BY <1>1, <2>1 DEF Progress
    <2> QED  BY <1>1, <1>2, <1>3, <1>4, <1>5, <2>2 DEF PageTaken, Ends
<1>6. CASE ~(u.over \/ Len(p.rows) < Limits.size) /\ u.pages = Limits.pages
    <2>1. t = Y!L!Fail(u, "limit")
        BY <1>4, <1>6 DEF Y!L!Numbered
    <2>2. Failed(Fault, Cursor, u, t)
        BY <1>1, <2>1, FailedIs DEF Errors
    <2> QED  BY <1>1, <1>4, <2>2 DEF Failed, PageTaken
<1>7. CASE ~(u.over \/ Len(p.rows) < Limits.size) /\ u.pages # Limits.pages
    <2>1. t = u
        BY <1>4, <1>7 DEF Y!L!Numbered
    <2> QED  BY <1>1, <1>2, <1>3, <1>4, <1>7, <2>1 DEF PageTaken
<1> QED  BY <1>5, <1>6, <1>7

\* The page of the endpoint scan.
LEMMA AdvanceTakes ==
    ASSUME Y!L!ConstantsAssumption,
           NEW Fault, NEW Cursor, NEW s \in Progress(Fault, Cursor), NEW p,
           p.next \in Cursor, p.cut \in BOOLEAN, p.form # "wrong", p.rows \in Seq(Y!Kinds("endpoint")),
           NEW u, RowsTaken(Fault, Cursor, "endpoint", s, p.rows, u)
    PROVE  PageTaken(Fault, Cursor, "endpoint", s, p, Y!L!Counted(u, p))
<1>1. /\ u \in Progress(Fault, Cursor) /\ u.pages = s.pages
      /\ u.outcome # "ok" => u.over
      /\ u.outcome = "ok" => ~u.over /\ u.kept = s.kept + SelectedIn(p.rows, Len(p.rows))
    BY DEF RowsTaken
<1>2. u.outcome = "ok" => Unspoiled("endpoint", p)
    BY DEF RowsTaken, Unspoiled
<1>3. Y!L!Selected(p) = SelectedIn(p.rows, Len(p.rows))
    BY SelectedIs
<1>4. CASE u.over
    <2>1. Y!L!Counted(u, p) = u
        BY <1>4 DEF Y!L!Counted
    <2> QED  BY <1>1, <1>4, <2>1 DEF PageTaken
<1>5. CASE ~u.over
    <2>1. PICK n : n = IF p.rows = <<>> THEN 0 ELSE u.count + Len(p.rows)
        OBVIOUS
    <2>2. n \in Nat
        BY <1>1, <2>1 DEF Progress
    <2>3. PICK v : v = [u EXCEPT !.count = n]
        OBVIOUS
    <2>4. /\ v \in Progress(Fault, Cursor) /\ v.pages = u.pages /\ v.outcome = u.outcome
          /\ v.kept = u.kept /\ ~v.over
        BY <1>1, <1>5, <2>2, <2>3 DEF Progress
    <2>5. Y!L!Counted(u, p) = Y!L!Advance(v, p)
        BY <1>1, <1>5, <2>1, <2>3 DEF Y!L!Counted, Progress
    <2>6. PICK t : t = Y!L!Advance(v, p)
        OBVIOUS
    <2>7. \/ \E e \in {"malformed", "limit", "forbidden"} : t = Y!L!Fail(v, e)
          \/ p.next = "" /\ ~p.cut /\ t = Y!L!End(v)
          \/ ~(v.pages >= Limits.pages) /\ t = [v EXCEPT !.tokens = Append(@, p.next)]
        BY <2>6 DEF Y!L!Advance
    <2>8. ASSUME NEW e \in {"malformed", "limit", "forbidden"}, t = Y!L!Fail(v, e)
          PROVE  PageTaken(Fault, Cursor, "endpoint", s, p, t)
        <3>1. Failed(Fault, Cursor, v, t)
            BY <2>4, <2>8, FailedIs DEF Errors
        <3> QED  BY <1>1, <2>4, <3>1 DEF Failed, PageTaken
    <2>9. CASE p.next = "" /\ ~p.cut /\ t = Y!L!End(v)
        <3>1. /\ t \in Progress(Fault, Cursor) /\ t.pages = v.pages /\ t.outcome = v.outcome
              /\ t.kept = v.kept /\ t.over
            BY <2>4, <2>9 DEF Progress, Y!L!End
        <3> QED  BY <1>1, <1>2, <1>3, <2>4, <2>5, <2>6, <2>9, <3>1 DEF PageTaken, Ends
    <2>10. CASE ~(v.pages >= Limits.pages) /\ t = [v EXCEPT !.tokens = Append(@, p.next)]
        <3>1. v.tokens \in Seq(Cursor) /\ Append(v.tokens, p.next) \in Seq(Cursor)
            BY <2>4 DEF Progress
        <3>2. t \in Progress(Fault, Cursor)
            BY <2>4, <2>10, <3>1 DEF Progress
        <3>3. t.pages = v.pages /\ t.outcome = v.outcome /\ t.kept = v.kept /\ ~t.over
            BY <2>4, <2>10 DEF Progress
        <3>4. s.pages # Limits.pages
            <4>1. v.pages \in Nat /\ Limits.pages \in Nat
                BY <2>4 DEF Progress, Y!L!ConstantsAssumption
            <4> QED  BY <1>1, <2>4, <2>10, <4>1
        <3>5. t.outcome # "ok" => t.over
            BY <1>1, <1>5, <2>4, <3>3
        <3> QED  BY <1>1, <1>2, <1>3, <2>4, <2>5, <2>6, <3>2, <3>3, <3>4, <3>5 DEF PageTaken
    <2> QED  BY <2>5, <2>6, <2>7, <2>8, <2>9, <2>10
<1> QED  BY <1>4, <1>5

LEMMA PageIsTaken ==
    ASSUME Y!L!ConstantsAssumption,
           NEW Fault, NEW Cursor, NEW s \in Progress(Fault, Cursor), ~s.over, s.outcome = "ok",
           NEW reader \in Y!L!Readers, NEW p, Answer(Fault, Cursor, reader, p), NEW room \in Nat
    PROVE  PageTaken(Fault, Cursor, reader, s, p, Y!L!Page(reader, s, p, room))
<1>1. /\ p.rows \in Seq(Y!Kinds(reader)) /\ p.next \in Cursor /\ p.cut \in BOOLEAN
      /\ reader = "metrics" => p.form # "wrong"
    BY DEF Answer
<1> DEFINE Good(t) == PageTaken(Fault, Cursor, reader, s, p, t)
<1>2. Good(Y!L!Fail(s, "malformed"))
    <2>1. Failed(Fault, Cursor, s, Y!L!Fail(s, "malformed"))
        BY FailedIs DEF Errors
    <2> QED  BY <2>1 DEF Failed, PageTaken
<1>3. ASSUME NEW seats, reader = "projects" => \A i \in DOMAIN p.rows : p.rows[i] # "bad"
      PROVE  RowsTaken(Fault, Cursor, reader, s, p.rows, Y!L!Rows(reader, s, p.rows, seats))
    BY <1>1, <1>3, RowsAreTaken
<1>4. ASSUME p.form # "wrong", reader \notin {"github", "commits", "table"},
             reader \notin {"endpoint", "series"} \/ ~p.cut,
             NEW u, RowsTaken(Fault, Cursor, reader, s, p.rows, u), NEW repeated, NEW full
      PROVE  Good(Y!L!Turn(u, p, repeated, full))
    BY <1>1, <1>4, TurnTakes
<1>5. CASE reader = "kube"
    <2>1. Y!L!Page(reader, s, p, room) = Y!L!KubePage(s, p)
        BY Zenon, <1>5 DEF Y!L!Page
    <2>2. PICK u : u = Y!L!Rows(reader, s, p.rows, 0)
        OBVIOUS
    <2>3. RowsTaken(Fault, Cursor, reader, s, p.rows, u)
        BY <1>3, <1>5, <2>2
    <2>4. p.form # "wrong" => Good(Y!L!Onward(u, p))
        BY <1>4, <1>5, <2>3 DEF Y!L!Onward
    <2> QED  BY <1>1, <1>2, <1>5, <2>1, <2>2, <2>4 DEF Y!L!KubePage
<1>6. CASE reader = "groups"
    <2>1. Y!L!Page(reader, s, p, room) = Y!L!GroupPage(s, p)
        BY Zenon, <1>6 DEF Y!L!Page
    <2>2. PICK u : u = Y!L!Rows(reader, s, p.rows, 0)
        OBVIOUS
    <2>3. RowsTaken(Fault, Cursor, reader, s, p.rows, u)
        BY <1>3, <1>6, <2>2
    <2>4. p.form # "wrong" => Good(Y!L!Onward(u, p))
        BY <1>4, <1>6, <2>3 DEF Y!L!Onward
    <2> QED  BY <1>1, <1>2, <1>6, <2>1, <2>2, <2>4 DEF Y!L!GroupPage
<1>7. CASE reader = "metrics"
    <2>1. Y!L!Page(reader, s, p, room) = Y!L!MetricPage(s, p)
        BY Zenon, <1>7 DEF Y!L!Page
    <2>2. PICK u : u = Y!L!Rows(reader, s, p.rows, 0)
        OBVIOUS
    <2>3. RowsTaken(Fault, Cursor, reader, s, p.rows, u)
        BY <1>3, <1>7, <2>2
    <2>4. p.form # "wrong" => Good(Y!L!Onward(u, p))
        BY <1>4, <1>7, <2>3 DEF Y!L!Onward
    <2> QED  BY <1>1, <1>2, <1>7, <2>1, <2>2, <2>4 DEF Y!L!MetricPage
<1>8. CASE reader = "lines"
    <2>1. Y!L!Page(reader, s, p, room) = Y!L!LinePage(s, p, room)
        BY Zenon, <1>8 DEF Y!L!Page
    <2>2. PICK u : u = Y!L!Rows(reader, s, p.rows, room)
        OBVIOUS
    <2>3. RowsTaken(Fault, Cursor, reader, s, p.rows, u)
        BY <1>3, <1>8, <2>2
    <2>4. p.form # "wrong" => Good(Y!L!Filled(u, p, room))
        BY <1>4, <1>8, <2>3 DEF Y!L!Filled
    <2> QED  BY <1>1, <1>2, <1>8, <2>1, <2>2, <2>4 DEF Y!L!LinePage
<1>9. CASE reader = "github"
    <2>1. Y!L!Page(reader, s, p, room) = Y!L!GithubPage(s, p)
        BY Zenon, <1>9 DEF Y!L!Page
    <2>2. PICK u : u = Y!L!Rows(reader, s, p.rows, 0)
        OBVIOUS
    <2>3. RowsTaken(Fault, Cursor, reader, s, p.rows, u)
        BY <1>3, <1>9, <2>2
    <2>4. p.form # "wrong" => Good(Y!L!Numbered(u, p))
        BY <1>1, <1>9, <2>3, NumberedTakes
    <2>5. Good(Y!L!Fail(u, "limit"))
        <3>1. u \in Progress(Fault, Cursor) /\ u.pages = s.pages
            BY <2>3 DEF RowsTaken
        <3>2. Failed(Fault, Cursor, u, Y!L!Fail(u, "limit"))
            BY <3>1, FailedIs DEF Errors
        <3> QED  BY <3>1, <3>2 DEF Failed, PageTaken
    <2>6. p.form # "wrong" => Good(Y!L!Shown(u, p))
        <3> HIDE DEF Good
        <3> QED  BY Zenon, <2>4, <2>5 DEF Y!L!Shown
    <2> QED  BY <1>2, <1>9, <2>1, <2>2, <2>6 DEF Y!L!GithubPage
<1>10. CASE reader = "commits"
    <2>1. Y!L!Page(reader, s, p, room) = Y!L!CommitPage(s, p)
        BY Zenon, <1>10 DEF Y!L!Page
    <2>2. PICK u : u = Y!L!Rows(reader, s, p.rows, 0)
        OBVIOUS
    <2>3. RowsTaken(Fault, Cursor, reader, s, p.rows, u)
        BY <1>3, <1>10, <2>2
    <2>4. p.form # "wrong" => Good(Y!L!Numbered(u, p))
        BY <1>1, <1>10, <2>3, NumberedTakes
    <2> QED  BY <1>2, <1>10, <2>1, <2>2, <2>4 DEF Y!L!CommitPage
<1>11. CASE reader = "endpoint"
    <2>1. Y!L!Page(reader, s, p, room) = Y!L!EndpointPage(s, p)
        BY Zenon, <1>11 DEF Y!L!Page
    <2>2. PICK u : u = Y!L!Rows(reader, s, p.rows, 0)
        OBVIOUS
    <2>3. RowsTaken(Fault, Cursor, reader, s, p.rows, u)
        BY <1>3, <1>11, <2>2
    <2>4. p.form # "wrong" => Good(Y!L!Counted(u, p))
        BY <1>1, <1>11, <2>3, AdvanceTakes
    <2> QED  BY <1>2, <1>11, <2>1, <2>2, <2>4 DEF Y!L!EndpointPage
<1>12. CASE reader = "series"
    <2>1. Y!L!Page(reader, s, p, room) = Y!L!SeriesPage(s, p)
        BY Zenon, <1>12 DEF Y!L!Page
    <2>2. PICK u : u = Y!L!Rows(reader, s, p.rows, 0)
        OBVIOUS
    <2>3. RowsTaken(Fault, Cursor, reader, s, p.rows, u)
        BY <1>3, <1>12, <2>2
    <2>4. p.form # "wrong" /\ ~p.cut => Good(Y!L!Onward(u, p))
        BY <1>4, <1>12, <2>3 DEF Y!L!Onward
    <2>5. PICK v : v = Y!L!Fail(u, "unavailable")
        OBVIOUS
    <2>6. p.form # "wrong" => Good(Y!L!Onward(v, p))
        <3>1. p.form # "wrong" => Failed(Fault, Cursor, s, Y!L!Turn(v, p, Y!L!Repeated(v, p), FALSE))
            BY <1>1, <1>12, <2>3, <2>5, TurnTakes
        <3> QED  BY <3>1 DEF Failed, PageTaken, Y!L!Onward
    <2>7. p.form # "wrong" => Good(Y!L!Onward(Y!L!Executed(u, p), p))
        <3> HIDE DEF Good
        <3> QED  BY <2>4, <2>5, <2>6 DEF Y!L!Executed
    <2> QED  BY <1>2, <1>12, <2>1, <2>2, <2>7 DEF Y!L!SeriesPage
<1>13. CASE reader \in {"roots", "projects"}
    <2>1. Y!L!Page(reader, s, p, room) = Y!L!RootPage(reader, s, p)
        BY Zenon, <1>13 DEF Y!L!Page
    <2>2. CASE p.form # "rows" \/ (reader = "projects" /\ "bad" \in Y!L!ToSet(p.rows))
        BY <1>2, <2>1, <2>2 DEF Y!L!RootPage
    <2>3. CASE ~(p.form # "rows" \/ (reader = "projects" /\ "bad" \in Y!L!ToSet(p.rows)))
        <3>1. PICK u : u = Y!L!Rows(reader, s, p.rows, 0)
            OBVIOUS
        <3>2. reader = "projects" => \A i \in DOMAIN p.rows : p.rows[i] # "bad"
            BY <2>3 DEF Y!L!ToSet
        <3>3. RowsTaken(Fault, Cursor, reader, s, p.rows, u)
            BY <1>3, <3>1, <3>2
        <3>4. PICK t : t = Y!L!OnwardUnseen(u, p)
            OBVIOUS
        <3>5. Good(t)
            BY <1>4, <1>13, <2>3, <3>3, <3>4 DEF Y!L!OnwardUnseen
        <3>6. Good(Y!L!Fail(t, "forbidden"))
            <4>1. t \in Progress(Fault, Cursor) /\ t.pages = s.pages
                BY <3>5 DEF PageTaken
            <4>2. Failed(Fault, Cursor, t, Y!L!Fail(t, "forbidden"))
                BY <4>1, FailedIs DEF Errors
            <4> QED  BY <4>1, <4>2 DEF Failed, PageTaken
        <3>7. Y!L!Page(reader, s, p, room) = Y!L!Owned(t, p)
            BY <2>1, <2>3, <3>1, <3>4 DEF Y!L!RootPage
        <3> HIDE DEF Good
        <3>8. Good(Y!L!Owned(t, p))
            BY Zenon, <3>5, <3>6 DEF Y!L!Owned
        <3> QED  BY <3>7, <3>8 DEF Good
    <2> QED  BY <2>2, <2>3
<1>14. CASE reader = "table"
    <2>1. Y!L!Page(reader, s, p, room) = Y!L!TableRows(s, p, room)
        BY Zenon, <1>14 DEF Y!L!Page
    <2>2. PICK first : first = SubSeq(p.rows, 1, IF Len(p.rows) < room THEN Len(p.rows) ELSE room)
        OBVIOUS
    <2>3. first \in Seq(Y!Kinds(reader)) /\ (Len(p.rows) <= room => first = p.rows)
        BY <1>1, <2>2
    <2>4. PICK u : u = Y!L!Rows(reader, s, first, room)
        OBVIOUS
    <2>5. RowsTaken(Fault, Cursor, reader, s, first, u)
        BY <1>14, <2>3, <2>4, RowsAreTaken
    <2>6. /\ u \in Progress(Fault, Cursor) /\ u.pages = s.pages
          /\ u.outcome # "ok" => u.over
          /\ u.outcome = "ok" => ~u.over
          /\ u.outcome = "ok" /\ first = p.rows => u.kept = s.kept + SelectedIn(p.rows, Len(p.rows))
        BY <2>5 DEF RowsTaken
    <2>7. p.form # "wrong" /\ u.outcome = "ok" /\ first = p.rows => Unspoiled(reader, p)
        BY <2>5 DEF RowsTaken, Unspoiled
    <2>8. Y!L!Selected(p) = SelectedIn(p.rows, Len(p.rows))
        BY <1>1, SelectedIs
    <2>9. \A e \in {"limit", "unavailable"} : Good(Y!L!Fail(u, e))
        <3> TAKE e \in {"limit", "unavailable"}
        <3>1. Failed(Fault, Cursor, u, Y!L!Fail(u, e))
            BY <2>6, FailedIs DEF Errors
        <3> QED  BY <2>6, <3>1 DEF Failed, PageTaken
    <2>10. u.over => Good(u)
        BY <2>6 DEF PageTaken
    <2>11. p.form # "wrong" /\ ~u.over /\ ~(Len(p.rows) > room) /\ ~p.cut => Good(Y!L!End(u))
        <3>1. PICK t : t = Y!L!End(u)
            OBVIOUS
        <3>2. /\ t \in Progress(Fault, Cursor) /\ t.pages = u.pages /\ t.outcome = u.outcome
              /\ t.kept = u.kept /\ t.over
            BY <2>6, <3>1 DEF Progress, Y!L!End
        <3> QED  BY <1>1, <1>14, <2>3, <2>6, <2>7, <2>8, <3>1, <3>2 DEF PageTaken, Ends
    <2>12. p.form # "wrong" => Good(Y!L!Tabled(u, p, room))
        <3> HIDE DEF Good
        <3> QED  BY Zenon, <2>9, <2>10, <2>11 DEF Y!L!Tabled
    <2> QED  BY <1>2, <1>14, <2>1, <2>2, <2>4, <2>12 DEF Y!L!TableRows
<1> QED  BY <1>5, <1>6, <1>7, <1>8, <1>9, <1>10, <1>11, <1>12, <1>13, <1>14 DEF Y!L!Readers

\* What is asked for when a request has been answered, or answered with a fault.
LEMMA RequestIs ==
    ASSUME Y!L!ConstantsAssumption,
           NEW Fault, "ok" \notin Fault, NEW Cursor,
           NEW s \in Progress(Fault, Cursor), ~s.over, s.outcome = "ok",
           NEW reader \in Y!L!Readers, NEW p, Answer(Fault, Cursor, reader, p), NEW room \in Nat
    PROVE  \E t : /\ t = Y!L!Request(reader, s, p, room)
                  /\ t \in Progress(Fault, Cursor) /\ t.pages = s.pages + 1
                  /\ t.outcome # "ok" => t.over
                  /\ t.outcome = "ok" =>
                        /\ p.fault = "ok" /\ Unspoiled(reader, p)
                        /\ t.kept = s.kept + Y!L!Selected(p)
                        /\ ~t.over => s.pages + 1 # Limits.pages
                        /\ t.over => Ends(reader, p)
<1>1. PICK u : u = [s EXCEPT !.pages = @ + 1]
    OBVIOUS
<1>2. /\ u \in Progress(Fault, Cursor) /\ u.pages = s.pages + 1 /\ u.outcome = "ok" /\ ~u.over
      /\ u.kept = s.kept
    BY <1>1 DEF Progress
<1>3. PICK t : t = Y!L!Request(reader, s, p, room)
    OBVIOUS
<1>4. CASE p.fault = "ok"
    <2>1. t = Y!L!Page(reader, u, p, room)
        BY <1>1, <1>3, <1>4 DEF Y!L!Request
    <2>2. PageTaken(Fault, Cursor, reader, u, p, t)
        BY <1>2, <2>1, PageIsTaken
    <2> QED  BY <1>2, <1>3, <1>4, <2>2 DEF PageTaken
<1>5. CASE p.fault # "ok"
    <2>1. t = Y!L!Fail(u, p.fault)
        BY <1>1, <1>3, <1>5 DEF Y!L!Request
    <2>2. p.fault \in Errors \cup Fault
        BY <1>5 DEF Answer
    <2>3. Failed(Fault, Cursor, u, t)
        BY <1>2, <1>5, <2>1, <2>2, FailedIs
    <2> QED  BY <1>2, <1>3, <2>3 DEF Failed
<1> QED  BY <1>4, <1>5

\* A list of which every request is answered.
Answered(Fault, Cursor, reader, answers) ==
    /\ \E T : answers \in Seq(T)
    /\ Len(answers) >= Limits.pages
    /\ \A i \in DOMAIN answers : Answer(Fault, Cursor, reader, answers[i])

LEMMA ReadIsWhole ==
    ASSUME Y!L!ConstantsAssumption,
           NEW Fault, "ok" \notin Fault, NEW Cursor, NEW reader \in Y!L!Readers, NEW answers,
           Answered(Fault, Cursor, reader, answers), NEW room \in Nat
    PROVE  \E s \in Progress(Fault, Cursor) :
              /\ s = Y!L!Read(reader, answers, room)
              /\ s.outcome = "ok" => Y!L!Whole(reader, s, SubSeq(answers, 1, s.pages))
<1>1. PICK T : answers \in Seq(T)
    BY DEF Answered
<1>2. PICK list : list = Asked(answers)
    OBVIOUS
<1> DEFINE n == Limits.pages
<1>3. n \in Nat \ {0}
    BY DEF Y!L!ConstantsAssumption
<1>4. n <= Len(answers) /\ \A i \in 1..Len(answers) : Answer(Fault, Cursor, reader, answers[i])
    BY <1>1 DEF Answered
<1>5. /\ list \in Seq(T) /\ Len(list) = n
      /\ \A k \in 1..n : list[k] = answers[k] /\ k \in 1..Len(answers)
    BY <1>1, <1>2, <1>3, <1>4 DEF Asked
<1>6. PICK h : /\ h[0] = Y!L!Start
               /\ \A k \in 1..n : h[k] = Y!L!Request(reader, h[k - 1], list[k], room)
               /\ Y!L!Read(reader, answers, room) = h[n]
    <2>1. Asked(answers) \in Seq(T)
        BY <1>2, <1>5
    <2>2. PICK h : /\ h[0] = Y!L!Start
                   /\ \A k \in 1..Len(Asked(answers)) :
                        h[k] = Y!L!Request(reader, h[k - 1], Asked(answers)[k], room)
                   /\ Y!L!Read(reader, answers, room) = h[Len(Asked(answers))]
        BY <2>1, PagesFold
    <2> QED  BY <1>2, <1>5, <2>2
<1> DEFINE Fine(i) == answers[i].fault = "ok" /\ Unspoiled(reader, answers[i])
           Holds(k) ==
              /\ h[k] \in Progress(Fault, Cursor)
              /\ h[k].outcome # "ok" => h[k].over
              /\ h[k].outcome = "ok" =>
                    /\ h[k].pages \in 0..k
                    /\ \A i \in 1..h[k].pages : Fine(i)
                    /\ h[k].kept = Y!L!Total(SubSeq(answers, 1, h[k].pages))
                    /\ ~h[k].over => h[k].pages = k /\ k # n
                    /\ h[k].over => h[k].pages > 0 /\ Ends(reader, answers[h[k].pages])
           S == {k \in 0..n : Holds(k)}
<1>7. 0 \in S
    <2>1. Y!L!Start \in Progress(Fault, Cursor)
        BY DEF Y!L!Start, Progress, Errors
    <2>2. Y!L!Start.outcome = "ok" /\ Y!L!Start.pages = 0 /\ Y!L!Start.kept = 0 /\ ~Y!L!Start.over
        BY DEF Y!L!Start
    <2>3. Y!L!Total(SubSeq(answers, 1, 0)) = 0
        BY <1>1, TotalStarts
    <2> QED  BY <1>3, <1>6, <2>1, <2>2, <2>3
<1>8. ASSUME NEW k \in 1..n, k - 1 \in S  PROVE k \in S
    <2>1. Holds(k - 1) /\ k \in 0..n /\ k \in Nat \ {0}
        BY <1>3, <1>8
    <2>2. h[k] = Y!L!Request(reader, h[k - 1], answers[k], room)
        BY <1>5, <1>6, <1>8
    <2>3. PICK q : q = h[k - 1]
        OBVIOUS
    <2>4. q \in Progress(Fault, Cursor)
        BY <2>1, <2>3
    <2>5. CASE q.over
        <3>1. h[k] = q
            BY <2>2, <2>3, <2>5 DEF Y!L!Request
        <3> QED  BY <2>1, <2>3, <2>5, <3>1
    <2>6. CASE ~q.over /\ q.outcome = "ok"
        <3>1. q.pages = k - 1
            BY <2>1, <2>3, <2>6
        <3>2. PICK p : p = answers[k]
            OBVIOUS
        <3>3. Answer(Fault, Cursor, reader, p)
            BY <1>4, <1>5, <1>8, <3>2
        <3>4. PICK t : /\ t = Y!L!Request(reader, q, p, room)
                       /\ t \in Progress(Fault, Cursor) /\ t.pages = q.pages + 1
                       /\ t.outcome # "ok" => t.over
                       /\ t.outcome = "ok" =>
                            /\ p.fault = "ok" /\ Unspoiled(reader, p)
                            /\ t.kept = q.kept + Y!L!Selected(p)
                            /\ ~t.over => q.pages + 1 # Limits.pages
                            /\ t.over => Ends(reader, p)
            BY <2>4, <2>6, <3>3, RequestIs
        <3>5. h[k] = t
            BY <2>2, <2>3, <3>2, <3>4
        <3>6. t.pages = k
            BY <2>1, <3>1, <3>4
        <3>7. Y!L!Total(SubSeq(answers, 1, k))
                = Y!L!Total(SubSeq(answers, 1, k - 1)) + Y!L!Selected(answers[k])
            BY <1>1, <1>5, <1>8, TotalGrows
        <3>8. t.outcome = "ok" =>
                /\ \A i \in 1..k : Fine(i)
                /\ t.kept = Y!L!Total(SubSeq(answers, 1, k))
            BY <2>1, <2>3, <2>6, <3>1, <3>2, <3>4, <3>7
        <3>9. /\ t.outcome = "ok" /\ ~t.over => k # n
              /\ t.outcome = "ok" /\ t.over => Ends(reader, answers[k])
            BY <2>1, <3>1, <3>2, <3>4
        <3> QED  BY <2>1, <3>4, <3>5, <3>6, <3>8, <3>9
    <2> QED  BY <2>1, <2>3, <2>5, <2>6
<1>9. n \in S
    <2>1. n \in 0..n
        BY <1>3
    <2> HIDE DEF S, n
    <2> QED  BY <1>3, <1>7, <1>8, <2>1, AllReached
<1>10. PICK s : s = h[n]
    OBVIOUS
<1>11. PICK read : read = SubSeq(answers, 1, s.pages)
    OBVIOUS
<1>12. ASSUME s.outcome = "ok"  PROVE Y!L!Whole(reader, s, read)
    <2>1. /\ s.pages \in 1..n /\ Ends(reader, answers[s.pages])
          /\ \A i \in 1..s.pages : Fine(i)
          /\ s.kept = Y!L!Total(read)
        <3>1. Holds(n)
            BY <1>9
        <3>2. h[n].over
            BY <1>10, <1>12, <3>1
        <3> QED  BY <1>3, <1>10, <1>11, <1>12, <3>1, <3>2
    <2>2. /\ read \in Seq(T) /\ Len(read) = s.pages /\ DOMAIN read = 1..s.pages /\ read # <<>>
          /\ \A i \in 1..s.pages : read[i] = answers[i]
        BY <1>1, <1>3, <1>4, <1>11, <2>1
    <2>3. Y!L!Last(read) = answers[s.pages]
        BY <1>3, <2>1, <2>2 DEF Y!L!Last
    <2>4. IF reader \in {"github", "commits"} THEN Len(Y!L!Last(read).rows) < Limits.size
          ELSE reader # "table" => Y!L!Last(read).next = ""
        BY <2>1, <2>3 DEF Ends
    <2>5. reader \in {"endpoint", "series", "table"} => ~Y!L!Last(read).cut
        BY <2>1, <2>3 DEF Ends
    <2>6. ASSUME NEW i \in DOMAIN read
          PROVE  /\ read[i].fault = "ok" /\ read[i].form # "wrong"
                 /\ "bad" \in Y!L!ToSet(read[i].rows) => "bad" \in Y!L!Skipped(reader)
        <3>1. i \in 1..s.pages /\ read[i] = answers[i]
            BY <2>2
        <3> QED  BY <2>1, <3>1 DEF Unspoiled, Y!L!ToSet
    <2> QED  BY <2>1, <2>2, <2>4, <2>5, <2>6 DEF Y!L!Whole
<1>13. s \in Progress(Fault, Cursor)
    BY <1>9, <1>10
<1> QED  BY <1>6, <1>10, <1>11, <1>12, <1>13

\* "Truncated results remain explicit coverage outcomes" (monitor-operations.md:94): whatever the
\* answers and the limits are, a list that is reported as complete was read to its end, and all
\* that was selected of it is kept (endpoint_scan.rs, kube_collect.rs, discovery.rs, github.rs,
\* gcp_metric_pages.rs, aws_logs.rs and others).
THEOREM ListsAreWhole ==
    ASSUME Y!L!ConstantsAssumption,
           NEW Fault, "ok" \notin Fault, NEW Cursor, NEW reader \in Y!L!Readers, NEW answers,
           Answered(Fault, Cursor, reader, answers), NEW room \in Nat, NEW alone \in BOOLEAN
    PROVE  Y!L!CompleteMeansRead(reader, answers, room, alone)
<1>1. PICK s \in Progress(Fault, Cursor) :
            /\ s = Y!L!Read(reader, answers, room)
            /\ s.outcome = "ok" => Y!L!Whole(reader, s, SubSeq(answers, 1, s.pages))
    BY ReadIsWhole
<1>2. PICK begun : begun = Y!L!Fail(Y!L!Start, "limit")
    OBVIOUS
<1>3. begun \in Progress(Fault, Cursor) /\ begun.outcome # "ok"
    <2>1. Y!L!Start \in Progress(Fault, Cursor)
        BY DEF Y!L!Start, Progress, Errors
    <2>2. Failed(Fault, Cursor, Y!L!Start, begun)
        BY <1>2, <2>1, FailedIs DEF Errors
    <2> QED  BY <2>2 DEF Failed
<1>4. PICK q \in {s, begun} : q = IF reader \in {"lines", "table"} /\ room = 0 THEN begun ELSE s
    OBVIOUS
<1>5. PICK t : t = Y!L!Finished(reader, q, alone)
    OBVIOUS
<1>6. t = Y!L!Result(reader, answers, room, alone)
    BY <1>1, <1>2, <1>4, <1>5 DEF Y!L!Result
<1>7. t = q \/ t = Y!L!Fail(q, "missing") \/ t = Y!L!Fail(q, "limit")
    BY Zenon, <1>5 DEF Y!L!Finished, Y!L!Series, Y!L!Window
<1>8. t = q \/ t.outcome # "ok"
    <2>1. q \in Progress(Fault, Cursor)
        BY <1>3, <1>4
    <2>2. \A e \in {"missing", "limit"} : Failed(Fault, Cursor, q, Y!L!Fail(q, e))
        BY <2>1, FailedIs DEF Errors
    <2> QED  BY <1>7, <2>2 DEF Failed
<1>9. ASSUME t.outcome = "ok"  PROVE Y!L!Whole(reader, t, SubSeq(answers, 1, t.pages))
    <2>1. t = s
        BY <1>3, <1>4, <1>8, <1>9
    <2> QED  BY <1>1, <1>9, <2>1
<1> QED  BY <1>6, <1>9 DEF Y!L!CompleteMeansRead

-----------------------------------------------------------------------------
\* The inputs of the readers are lists of which every request is answered.
Cursors == {"", "a", "b", Y!L!Odd}

LEMMA RowsAre ==
    ASSUME NEW T, NEW given,
           given \in {<<>>} \cup {<<r>> : r \in T} \cup {<<r, q>> : r, q \in T}
    PROVE  given \in Seq(T)
<1>1. ASSUME NEW r \in T, given = <<r>>  PROVE given \in Seq(T)
    BY <1>1
<1>2. ASSUME NEW r \in T, NEW q \in T, given = <<r, q>>  PROVE given \in Seq(T)
    BY <1>2
<1>3. CASE given = <<>>
    BY <1>3
<1> QED  BY <1>1, <1>2, <1>3

LEMMA PlainIs ==
    ASSUME NEW reader \in Y!L!Readers, NEW next \in Cursors
    PROVE  /\ Answer({"denied"}, Cursors, reader, Y!Plain(next))
           /\ Answer({"denied"}, Cursors, reader, Y!Full(next))
<1>1. "wanted" \in Y!Kinds(reader)
    BY KindsAre DEF Y!L!Readers
<1>2. <<"wanted">> \in Seq(Y!Kinds(reader)) /\ <<"wanted", "wanted">> \in Seq(Y!Kinds(reader))
    BY <1>1
<1>3. Answer({"denied"}, Cursors, reader, Y!Plain(next))
    BY <1>2 DEF Answer, Y!Plain
<1>4. Answer({"denied"}, Cursors, reader, Y!Full(next))
    BY <1>2 DEF Answer, Y!Plain, Y!Full
<1> QED  BY <1>3, <1>4

LEMMA AnswersAre ==
    ASSUME NEW reader \in Y!L!Readers, NEW p \in Y!Answers(reader)
    PROVE  Answer({"denied"}, Cursors, reader, p)
<1> DEFINE kinds == Y!Kinds(reader)
           given == {<<>>} \cup {<<r>> : r \in kinds} \cup {<<r, q>> : r, q \in kinds}
<1>0. /\ Y!Given(reader) = given
      /\ Y!Nexts(reader) \subseteq Cursors /\ Y!Links(reader) \subseteq {"own", "foreign"}
      /\ Y!Cuts(reader) \subseteq BOOLEAN
    <2>1. Y!Given(reader) = given
        BY DEF Y!Given
    <2>2. Y!Nexts(reader) \subseteq Cursors
        BY ZenonT(30) DEF Y!Nexts, Cursors
    <2>3. Y!Links(reader) \subseteq {"own", "foreign"}
        BY DEF Y!Links
    <2>4. Y!Cuts(reader) \subseteq BOOLEAN
        BY DEF Y!Cuts
    <2> QED  BY <2>1, <2>2, <2>3, <2>4
<1>1. \/ \E r \in given, n \in Cursors, l \in {"own", "foreign"}, c \in BOOLEAN :
            p = [fault |-> "ok", form |-> "rows", rows |-> r, next |-> n, link |-> l, cut |-> c]
      \/ \E f \in {"none", "wrong"} :
            reader # "metrics" /\ p = [Y!Plain("") EXCEPT !.rows = <<>>, !.form = f]
      \/ p = [Y!Plain("") EXCEPT !.fault = "denied"]
    <2> HIDE DEF given
    <2>1. CASE p \in Y!Read(reader)
        <3>1. PICK r \in Y!Given(reader), n \in Y!Nexts(reader), l \in Y!Links(reader),
                   c \in Y!Cuts(reader) :
                    p = [fault |-> "ok", form |-> "rows", rows |-> r, next |-> n, link |-> l,
                         cut |-> c]
            BY <2>1 DEF Y!Read
        <3> QED  BY <1>0, <3>1
    <2>2. CASE p \in Y!Unread(reader)
        <3>1. PICK f \in IF reader = "metrics" THEN {} ELSE {"none", "wrong"} :
                    p = [Y!Plain("") EXCEPT !.rows = <<>>, !.form = f]
            BY <2>2 DEF Y!Unread
        <3> QED  BY <3>1
    <2> QED  BY <2>1, <2>2 DEF Y!Answers
<1>2. ASSUME NEW r \in given, NEW n \in Cursors, NEW l \in {"own", "foreign"}, NEW c \in BOOLEAN,
             p = [fault |-> "ok", form |-> "rows", rows |-> r, next |-> n, link |-> l, cut |-> c]
      PROVE  Answer({"denied"}, Cursors, reader, p)
    <2>1. r \in Seq(kinds)
        <3> HIDE DEF kinds
        <3> QED  BY RowsAre
    <2> QED  BY <1>2, <2>1 DEF Answer
<1>3. ASSUME NEW f \in {"none", "wrong"}, reader # "metrics",
             p = [Y!Plain("") EXCEPT !.rows = <<>>, !.form = f]
      PROVE  Answer({"denied"}, Cursors, reader, p)
    <2>1. <<>> \in Seq(kinds) /\ "" \in Cursors
        BY DEF Cursors
    <2> QED  BY <1>3, <2>1 DEF Answer, Y!Plain
<1>4. CASE p = [Y!Plain("") EXCEPT !.fault = "denied"]
    <2>1. "wanted" \in kinds
        BY KindsAre DEF Y!L!Readers
    <2>2. <<"wanted">> \in Seq(kinds) /\ "" \in Cursors
        BY <2>1 DEF Cursors
    <2> QED  BY <1>4, <2>2 DEF Answer, Y!Plain
<1>5. CASE \E r \in given, n \in Cursors, l \in {"own", "foreign"}, c \in BOOLEAN :
            p = [fault |-> "ok", form |-> "rows", rows |-> r, next |-> n, link |-> l, cut |-> c]
    <2> HIDE DEF given
    <2> QED  BY <1>5, <1>2
<1>6. CASE \E f \in {"none", "wrong"} :
            reader # "metrics" /\ p = [Y!Plain("") EXCEPT !.rows = <<>>, !.form = f]
    BY <1>6, <1>3
<1> QED
    <2> HIDE DEF given
    <2> QED  BY <1>1, <1>4, <1>5, <1>6

LEMMA ReadingIs ==
    ASSUME Y!ListsAssumption, Y!ReadingInit
    PROVE  /\ input.part = "reading" /\ input.reader \in Y!L!Readers
           /\ Answered({"denied"}, Cursors, input.reader, input.answers)
           /\ input.room \in Nat /\ input.alone \in BOOLEAN
<1>0. PICK reader \in Y!L!Readers :
            \E list \in Y!Lists(reader), room \in {0, 1, 3}, alone \in BOOLEAN :
                input = [part |-> "reading", reader |-> reader, answers |-> list, room |-> room,
                         alone |-> alone]
    BY DEF Y!ReadingInit
<1>1. PICK list \in Y!Lists(reader), room \in {0, 1, 3}, alone \in BOOLEAN :
            input = [part |-> "reading", reader |-> reader, answers |-> list, room |-> room,
                     alone |-> alone]
    BY <1>0
<1> DEFINE Good(p) == Answer({"denied"}, Cursors, reader, p)
           plain == {Y!Plain(next) : next \in Cursors} \cup {Y!Full(next) : next \in Cursors}
<1>2. \A p \in plain \cup Y!Answers(reader) : Good(p)
    BY PlainIs, AnswersAre
<1>3. PICK p, q, r \in plain \cup Y!Answers(reader) : list = <<p, q, r>>
    <2>1. Y!Some(reader) \subseteq plain /\ Y!More(reader) \subseteq plain
        BY DEF Cursors, Y!Some, Y!More
    <2> HIDE DEF plain
    <2>2. PICK p, q, r \in Y!Some(reader) \cup Y!More(reader) \cup Y!Answers(reader) :
            list = <<p, q, r>>
        BY DEF Y!Lists
    <2> QED  BY <2>1, <2>2
<1>4. /\ list \in Seq(plain \cup Y!Answers(reader)) /\ Len(list) = 3 /\ DOMAIN list = 1..3
      /\ \A i \in DOMAIN list : Good(list[i])
    <2> HIDE DEF Good, plain
    <2> QED  BY <1>2, <1>3
<1>5. Limits.pages <= 3
    BY DEF Y!ListsAssumption
<1>6. Answered({"denied"}, Cursors, reader, list)
    <2> HIDE DEF plain
    <2> QED  BY <1>4, <1>5 DEF Answered
<1> QED  BY <1>1, <1>6

\* The input of a reader stays what it is.
Listed ==
    part = "reading" =>
        /\ input.part = "reading" /\ input.reader \in Y!L!Readers
        /\ Answered({"denied"}, Cursors, input.reader, input.answers)
        /\ input.room \in Nat /\ input.alone \in BOOLEAN

LEMMA ListsBegin == SuiteInit => Listed
<1> SUFFICES ASSUME SuiteInit, part = "reading"
             PROVE  /\ input.part = "reading" /\ input.reader \in Y!L!Readers
                    /\ Answered({"denied"}, Cursors, input.reader, input.answers)
                    /\ input.room \in Nat /\ input.alone \in BOOLEAN
    BY DEF Listed
<1>1. Y!ReadingInit
    BY Zenon DEF SuiteInit
<1> QED  BY <1>1, ReadingIs, PartsAssumption DEF PartsAssumption

LEMMA ListsStay == Listed /\ [SuiteNext]_suiteVars => Listed'
<1> SUFFICES ASSUME Listed, [SuiteNext]_suiteVars  PROVE Listed'
    OBVIOUS
<1>1. part' = part /\ input' = input
    BY DEF SuiteNext, suiteVars
<1>2. Answered({"denied"}, Cursors, input.reader, input.answers)
      <=> Answered({"denied"}, Cursors, input.reader, input.answers)'
    BY <1>1 DEF Answered
<1> QED  BY <1>1, <1>2 DEF Listed

\* Of every behaviour of the parts: a list that is reported as complete was read to its end
\* (endpoint_scan.rs, kube_collect.rs, discovery.rs, github.rs, aws_logs.rs and others).
THEOREM ListsStayWhole == SuiteSpec => [](part = "reading" => Y!CompleteMeansRead)
<1>1. Listed => (part = "reading" => Y!CompleteMeansRead)
    <2> SUFFICES ASSUME Listed, part = "reading"
                 PROVE  Y!L!CompleteMeansRead(input.reader, input.answers, input.room, input.alone)
        BY DEF Y!CompleteMeansRead
    <2>1. Y!L!ConstantsAssumption
        BY PartsAssumption DEF PartsAssumption, Y!ListsAssumption
    <2>2. /\ input.reader \in Y!L!Readers
          /\ Answered({"denied"}, Cursors, input.reader, input.answers)
          /\ input.room \in Nat /\ input.alone \in BOOLEAN
        BY DEF Listed
    <2>3. "ok" \notin {"denied"}
        OBVIOUS
    <2> QED  BY <2>1, <2>2, <2>3, ListsAreWhole
<1> QED  BY <1>1, ListsBegin, ListsStay, PTL DEF SuiteSpec, suiteVars
=============================================================================
