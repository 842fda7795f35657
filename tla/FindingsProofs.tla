--------------------------- MODULE FindingsProofs ---------------------------
(***************************************************************************)
(* Proofs about Findings, for every set of jobs, resources, rules and      *)
(* operations, every configuration and every number of confirmations: the  *)
(* shape of the snapshot; a recovery is announced only on as many distinct *)
(* complete healthy readings as the settings ask for, and a removal only   *)
(* on as many distinct complete inventories; max_findings bounds what is   *)
(* kept; the transitions tell each finding's story as Episodes requires;   *)
(* and what one check shows as healthy rests on a complete reading.        *)
(***************************************************************************)
EXTENDS Findings, FiniteSetTheorems, TLAPS

\* What Check hands to Apply: a typed comparison in which an operation that is
\* still complete was reported complete, cut nowhere, and listed what is left.
Input(c) ==
    /\ c.job \in Job
    /\ c.ops \in [Op -> Reading \cup {None}]
    /\ c.merged \in [Op -> Reading \cup {None}]
    /\ c.obs \in [Resource -> Time \cup {None}]
    /\ DOMAIN c.verdict \subseteq Resource
    /\ c.verdict \in [DOMAIN c.verdict -> Verdict]
    /\ c.admitted \subseteq Faulty(c.verdict) \ Open
    /\ \A r \in DOMAIN c.verdict :
          /\ c.obs[r] # None
          /\ Complete(c.merged, OpOf[r]) =>
                /\ Complete(c.ops, OpOf[r])
                /\ ~c.truncated
                /\ r \in c.seen
                /\ c.obs[r] = c.ops[OpOf[r]].at

\* And what it may count on: faults are admitted as the limit allows, an operation
\* that is still complete was so when it was read, nothing that was listed is left
\* out unless something was cut, what is left has a verdict, and what is too old has none
\* that decides.
Faithful(c) ==
    /\ c.admitted \in Admissible(Faulty(c.verdict))
    /\ \A o \in Op : Complete(c.merged, o) =>
          /\ Complete(c.ops, o)
          /\ ~c.truncated
          /\ c.merged[o].at = c.ops[o].at
    /\ \A r \in c.seen : c.truncated \/ r \in DOMAIN c.verdict
    /\ \A r \in Resource : c.obs[r] # None => r \in DOMAIN c.verdict
    /\ \A r \in DOMAIN c.verdict : Aged(c.obs[r]) =>
          ~c.verdict[r].clear /\ \A u \in Rule : c.verdict[r].faults[u] = 0

\* Check is Apply of such a comparison.
LEMMA CheckInput ==
    ASSUME TypeOK, NEW j \in config.selected, Check(j)
    PROVE  \E c : Input(c) /\ Faithful(c) /\ Apply(c)
<1>0. j \in Job
  BY ConstantsAssumption DEF TypeOK, Config
<1>1. PICK ops \in Reported(j), whole \in BOOLEAN :
        \E seen \in SUBSET {r \in config.scope : ops[OpOf[r]] # None} :
        \E carried \in Surviving(Carried(j, ops, whole, seen)) :
        \E kept \in Surviving(seen \cup carried) : Compare(j, ops, seen, carried, kept)
  BY DEF Check
<1>2. PICK seen \in SUBSET {r \in config.scope : ops[OpOf[r]] # None} :
        \E carried \in Surviving(Carried(j, ops, whole, seen)) :
        \E kept \in Surviving(seen \cup carried) : Compare(j, ops, seen, carried, kept)
  BY <1>1
<1>2a. PICK carried \in Surviving(Carried(j, ops, whole, seen)) :
        \E kept \in Surviving(seen \cup carried) : Compare(j, ops, seen, carried, kept)
  BY <1>2
<1>2b. PICK kept \in Surviving(seen \cup carried) : Compare(j, ops, seen, carried, kept)
  BY <1>2a
<1>2x. PICK truncated \in BOOLEAN : truncated = (kept # seen \cup carried)
  OBVIOUS
<1>2c. PICK obs \in {MergedObs(j, ops, seen, kept)} :
       \E merged \in {MergedOps(j, ops, obs, carried, truncated)} :
       \E verdict \in Verdicts(j, obs) :
       \E admitted \in Admissible(Faulty(verdict)) :
         Apply([job |-> j, ops |-> ops, seen |-> seen, obs |-> obs,
                merged |-> merged, truncated |-> truncated,
                verdict |-> verdict, admitted |-> admitted])
  BY <1>2b, <1>2x DEF Compare
<1>2d. PICK merged \in {MergedOps(j, ops, obs, carried, truncated)} :
       \E verdict \in Verdicts(j, obs) :
       \E admitted \in Admissible(Faulty(verdict)) :
         Apply([job |-> j, ops |-> ops, seen |-> seen, obs |-> obs,
                merged |-> merged, truncated |-> truncated,
                verdict |-> verdict, admitted |-> admitted])
  BY <1>2c
<1>3a. PICK verdict \in Verdicts(j, obs) :
       \E admitted \in Admissible(Faulty(verdict)) :
         Apply([job |-> j, ops |-> ops, seen |-> seen, obs |-> obs,
                merged |-> merged, truncated |-> truncated,
                verdict |-> verdict, admitted |-> admitted])
  BY <1>2d
<1>3. PICK admitted \in Admissible(Faulty(verdict)) :
        Apply([job |-> j, ops |-> ops, seen |-> seen, obs |-> obs,
               merged |-> merged, truncated |-> truncated,
               verdict |-> verdict, admitted |-> admitted])
  BY <1>3a
<1> DEFINE c == [job |-> j, ops |-> ops, seen |-> seen, obs |-> obs,
                 merged |-> merged, truncated |-> truncated,
                 verdict |-> verdict, admitted |-> admitted]
<1>4. /\ ops \in [Op -> Reading \cup {None}]
      /\ seen \subseteq Resource
      /\ \A r \in seen : ops[OpOf[r]] # None
      /\ carried \subseteq Carried(j, ops, whole, seen)
      /\ kept \subseteq seen \cup carried
      /\ truncated \in BOOLEAN
      /\ ~truncated => seen \subseteq kept
  <2>1. config.scope \subseteq Resource
    BY ConstantsAssumption DEF TypeOK, Config
  <2>2. ~truncated => seen \subseteq kept
    BY <1>2x
  <2> QED BY <2>1, <2>2 DEF Reported, Surviving
<1>5. /\ obs \in [Resource -> Time \cup {None}]
      /\ \A r \in Resource : obs[r] # None <=> r \in kept
      /\ merged \in [Op -> Reading \cup {None}]
      /\ \A r \in kept : Complete(merged, OpOf[r]) =>
            /\ Complete(ops, OpOf[r])
            /\ ~truncated
            /\ r \in seen
            /\ obs[r] = ops[OpOf[r]].at
      /\ \A o \in Op : Complete(merged, o) =>
            Complete(ops, o) /\ ~truncated /\ merged[o].at = ops[o].at
  <2> USE <1>0, <1>4
  <2>0. obs = MergedObs(j, ops, seen, kept)
        /\ merged = MergedOps(j, ops, obs, carried, truncated)
    OBVIOUS
  <2>a. OpOf \in [Resource -> Op]
    BY ConstantsAssumption
  <2>b. results[j].ops \in [Op -> Reading \cup {None}]
        /\ results[j].obs \in [Resource -> Time \cup {None}]
    BY DEF TypeOK, Result
  <2>c. None \notin Time
    BY NoneAssumption DEF Time
  <2>1. carried \subseteq Resource /\ \A r \in carried : /\ results[j].obs[r] \in Time
                                                         /\ ~Complete(ops, OpOf[r])
    BY <2>b DEF Carried
  <2>2. \A r \in seen : ops[OpOf[r]] \in Reading
    BY <2>a
  <2>3. ASSUME NEW r \in Resource
        PROVE  /\ obs[r] \in Time \cup {None}
               /\ obs[r] # None <=> r \in kept
               /\ r \in kept \cap seen => obs[r] = ops[OpOf[r]].at
    BY <2>1, <2>2, <2>c DEF MergedObs, Reading
  <2>4. obs \in [Resource -> Time \cup {None}]
    BY <2>3 DEF MergedObs
  <2>5. ASSUME NEW o \in Op
        PROVE  /\ merged[o] \in Reading \cup {None}
               /\ Complete(merged, o) =>
                     Complete(ops, o) /\ ~truncated /\ merged[o].at = ops[o].at
    <3> DEFINE of == {r \in Resource : OpOf[r] = o}
    <3>1. CASE ops[o] # None
      <4>1. (merged[o] = ops[o] /\ ~truncated) \/ merged[o] = Degraded(ops[o])
        BY <3>1 DEF MergedOps
      <4>2. ops[o] \in Reading
        BY <3>1
      <4>3. /\ Degraded(ops[o]) \in Reading
            /\ Degraded(ops[o]).complete = FALSE
        BY <4>2 DEF Reading, Degraded
      <4> QED BY <4>1, <4>2, <4>3, <3>1 DEF Complete
    <3>2. CASE ops[o] = None
      <4>1. CASE carried \cap of # {} /\ results[j].ops[o] # None
        <5>1. merged[o] = Degraded(results[j].ops[o])
          BY <3>2, <4>1 DEF MergedOps
        <5>2. results[j].ops[o] \in Reading
          BY <4>1, <2>b
        <5>3. merged[o] \in Reading /\ merged[o].complete = FALSE
          BY <5>1, <5>2 DEF Reading, Degraded
        <5> QED BY <5>3 DEF Complete
      <4>2. CASE ~(carried \cap of # {} /\ results[j].ops[o] # None)
        <5>1. merged[o] = None
          BY <3>2, <4>2 DEF MergedOps
        <5> QED BY <5>1 DEF Complete
      <4> QED BY <4>1, <4>2
    <3> QED BY <3>1, <3>2
  <2>6. merged \in [Op -> Reading \cup {None}]
    BY <2>5 DEF MergedOps
  <2>7. ASSUME NEW r \in kept, Complete(merged, OpOf[r])
        PROVE  Complete(ops, OpOf[r]) /\ ~truncated /\ r \in seen
               /\ obs[r] = ops[OpOf[r]].at
    <3>1. r \in Resource
      BY <2>1
    <3>2. Complete(ops, OpOf[r]) /\ ~truncated
      BY <2>5, <2>7, <2>a, <3>1
    <3>3. r \in seen
      BY <3>2, <2>1
    <3> QED BY <3>1, <3>2, <3>3, <2>3
  <2> QED BY <2>3, <2>4, <2>5, <2>6, <2>7
<1>6. /\ DOMAIN verdict = {r \in Resource : obs[r] # None}
      /\ verdict \in [DOMAIN verdict -> Verdict]
  BY DEF Verdicts
<1>7. admitted \subseteq Faulty(verdict) \ Open
  BY DEF Admissible
<1>8. Input(c)
  BY <1>0, <1>4, <1>5, <1>6, <1>7 DEF Input
<1>9. Faithful(c)
  <2>1. admitted \in Admissible(Faulty(verdict))
    OBVIOUS
  <2>2. \A r \in seen : truncated \/ r \in DOMAIN verdict
    BY <1>4, <1>5, <1>6
  <2>3. \A r \in DOMAIN verdict : Aged(obs[r]) =>
          ~verdict[r].clear /\ \A u \in Rule : verdict[r].faults[u] = 0
    BY DEF Verdicts
  <2> QED BY <1>5, <1>6, <2>1, <2>2, <2>3 DEF Faithful
<1> QED BY <1>3, <1>8, <1>9

-----------------------------------------------------------------------------
(* The shape of the snapshot. *)

HistoryType == [fault : Time, clean : SUBSET Time, absent : [Job -> SUBSET Time]]

\* State::expire keeps the shape of what it degrades.
LEMMA ExpiredType ==
    ASSUME NEW res \in [Job -> Result], NEW hlth \in [Resource -> Health \cup {None}]
    PROVE  /\ ExpiredResults(res, hlth) \in [Job -> Result]
           /\ ExpiredHealth(res, hlth) \in [Resource -> Health \cup {None}]
<1>1. ASSUME NEW j \in Job
      PROVE  ExpiredOps(res[j], hlth) \in [Op -> Reading \cup {None}]
  <2>1. res[j].ops \in [Op -> Reading \cup {None}]
    BY DEF Result
  <2>2. ASSUME NEW o \in Op, Complete(res[j].ops, o)
        PROVE  Degraded(res[j].ops[o]) \in Reading
    <3>1. res[j].ops[o] \in Reading
      BY <2>1, <2>2 DEF Complete
    <3> QED BY <3>1 DEF Degraded, Reading
  <2> QED BY <2>1, <2>2 DEF ExpiredOps
<1>2. ASSUME NEW j \in Job
      PROVE  [ops |-> ExpiredOps(res[j], hlth), obs |-> res[j].obs] \in Result
  <2>1. res[j].obs \in [Resource -> Time \cup {None}]
    BY DEF Result
  <2> QED BY <1>1, <2>1 DEF Result
<1>3. ExpiredResults(res, hlth) \in [Job -> Result]
  BY <1>2 DEF ExpiredResults
<1>4. ExpiredHealth(res, hlth) \in [Resource -> Health \cup {None}]
  BY DEF ExpiredHealth, Health
<1> QED BY <1>3, <1>4

LEMMA ExpiredFindingType ==
    ASSUME NEW f \in Finding \cup {None}
    PROVE  /\ ExpiredFinding(f) \in Finding \cup {None}
           /\ ExpiredFinding(f) = None <=> f = None
           /\ f # None => /\ ExpiredFinding(f).clears = f.clears
                          /\ ExpiredFinding(f).at = f.at
BY NoneAssumption DEF ExpiredFinding, Overdue, Finding

LEMMA ForgetType ==
    ASSUME NEW ret \in [Id -> Time \cup {None}], NEW d
    PROVE  Forget(ret, d) \in [Id -> Time \cup {None}]
BY DEF Forget

\* What an input fixes about a raised fault and a clean reading.
LEMMA FaultFacts ==
    ASSUME TypeOK, NEW c, Input(c), NEW id \in Asserted(c)
    PROVE  /\ id \in Id
           /\ id[1] \in DOMAIN c.verdict
           /\ ~c.verdict[id[1]].clear
           /\ c.obs[id[1]] \in Time
           /\ Raised(c, id) \in Finding
<1>1. id \in Faulty(c.verdict)
  BY DEF Asserted, Input
<1>2. id \in Id /\ id[1] \in DOMAIN c.verdict /\ c.verdict[id[1]].faults[id[2]] > 0
  BY <1>1 DEF Faulty
<1>3. id[1] \in Resource /\ id[2] \in Rule
  BY <1>2 DEF Id
<1>4. c.verdict[id[1]] \in Verdict
  BY <1>2 DEF Input
<1>5. /\ c.verdict[id[1]].faults[id[2]] \in 0 .. MaxSeverity
      /\ ~c.verdict[id[1]].clear
  BY <1>2, <1>3, <1>4 DEF Verdict
<1>6. c.obs[id[1]] \in Time
  BY <1>2, <1>3 DEF Input
<1>7. c.obs[id[1]] + Freshness \in Nat
  BY <1>6, ConstantsAssumption DEF Time
<1>8. Raised(c, id) \in Finding
  BY <1>2, <1>5, <1>6, <1>7, ConstantsAssumption DEF Raised, Finding, Input
<1> QED BY <1>2, <1>5, <1>6, <1>8

LEMMA RefreshedType ==
    ASSUME NEW f \in Finding, NEW at \in Time
    PROVE  /\ Refreshed(f, at) \in Finding
           /\ Refreshed(f, at).clears = f.clears + 1
           /\ Refreshed(f, at).at = at
<1>1. at + Freshness \in Nat /\ f.clears + 1 \in Nat
  BY ConstantsAssumption DEF Time, Finding
<1> QED BY <1>1 DEF Finding, Refreshed

LEMMA ClearedFacts ==
    ASSUME TypeOK, NEW c, Input(c), NEW id \in Id, Cleared(c, id)
    PROVE  /\ id \notin Asserted(c)
           /\ id \notin Removed(c)
           /\ findings[id] \in Finding
           /\ c.obs[id[1]] \in Time
           /\ Refreshed(findings[id], c.obs[id[1]]) \in Finding
<1>1. id \notin Asserted(c)
  BY FaultFacts DEF Cleared
<1>2. id \notin Removed(c)
  BY DEF Cleared, Removed, Absent
<1>3. findings[id] \in Finding
  BY DEF TypeOK, Cleared
<1>4. c.obs[id[1]] \in Time
  BY DEF Id, Cleared, Input
<1> QED BY <1>1, <1>2, <1>3, <1>4, RefreshedType

\* The four cases of the comparison are disjoint.
LEMMA ComparedCases ==
    ASSUME TypeOK, NEW c, Input(c), NEW id \in Id
    PROVE  /\ id \in Asserted(c) => Compared(c, id) = Raised(c, id)
           /\ id \in Recovered(c) \cup Removed(c) => Compared(c, id) = None
           /\ Cleared(c, id) /\ id \notin Recovered(c) =>
                 Compared(c, id) = Refreshed(findings[id], c.obs[id[1]])
           /\ id \notin Asserted(c) \cup Recovered(c) \cup Removed(c) /\ ~Cleared(c, id) =>
                 Compared(c, id) = findings[id]
           /\ Compared(c, id) \in Finding \cup {None}
<1>1. id \in Asserted(c) => id \notin Recovered(c) \cup Removed(c) /\ ~Cleared(c, id)
  BY FaultFacts, ClearedFacts DEF Recovered, Removed, Absent
<1>2. id \in Removed(c) => ~Cleared(c, id)
  BY ClearedFacts
<1>3. findings[id] \in Finding \cup {None}
  BY DEF TypeOK
<1> QED BY <1>1, <1>2, <1>3, FaultFacts, ClearedFacts DEF Compared

LEMMA ConfirmedType ==
    ASSUME TypeOK, NEW c, Input(c), NEW id \in Id, Absent(c, id)
    PROVE  Confirmed(c, id) \in Confirmation
<1>1. <<c.job, id>> \in Job \X Id /\ findings[id] \in Finding
  BY DEF Input, Absent, TypeOK
<1>2. confirmations[<<c.job, id>>] \in Confirmation \cup {None}
  BY <1>1 DEF TypeOK
<1>3. c.merged[OpOf[id[1]]] \in Reading
  BY ConstantsAssumption DEF Input, Absent, Trusted, Complete, Id
<1>4. c.merged[OpOf[id[1]]].at \in Time /\ findings[id].at \in Time
  BY <1>1, <1>3 DEF Reading, Finding
<1> DEFINE held == confirmations[<<c.job, id>>]
           old == IF held # None THEN held ELSE [count |-> 0, lastAt |-> findings[id].at]
<1>5. old \in Confirmation
  BY <1>2, <1>4 DEF Confirmation
<1>6. old.count + 1 \in Nat
  BY <1>5 DEF Confirmation
<1> QED BY <1>4, <1>5, <1>6 DEF Confirmed, Confirmation

LEMMA RecordedType ==
    ASSUME TypeOK, NEW c, Input(c), NEW id \in Id
    PROVE  Recorded(c, id) \in HistoryType
<1> DEFINE r == id[1]
           h == history[id]
           read == ~c.truncated /\ ~Overflow(c) /\ Complete(c.ops, OpOf[r])
           healthy == read /\ r \in c.seen /\ c.verdict[r].clear /\ c.ops[OpOf[r]].at > h.fault
           missing == read /\ r \notin c.seen
           clean == h.clean \cup IF healthy THEN {c.ops[OpOf[r]].at} ELSE {}
           gone == [h.absent EXCEPT ![c.job] =
                      IF r \in DOMAIN c.verdict THEN {}
                      ELSE @ \cup IF missing THEN {c.ops[OpOf[r]].at} ELSE {}]
<1>1. h \in HistoryType /\ NoHistory \in HistoryType
  BY ConstantsAssumption DEF TypeOK, HistoryType, NoHistory, Time
<1>2. read => c.ops[OpOf[r]].at \in Time
  BY ConstantsAssumption DEF Input, Complete, Id, Reading
<1>3. clean \in SUBSET Time
  BY <1>1, <1>2 DEF HistoryType
<1>4. gone \in [Job -> SUBSET Time]
  BY <1>1, <1>2 DEF HistoryType
<1>5. CASE id \in Asserted(c)
  <2>1. Recorded(c, id) =
            [fault |-> c.obs[r], clean |-> {},
             absent |-> IF id \in Open THEN [h.absent EXCEPT ![c.job] = {}]
                        ELSE NoHistory.absent]
    BY <1>5 DEF Recorded
  <2>2. [h.absent EXCEPT ![c.job] = {}] \in [Job -> SUBSET Time]
    BY <1>1 DEF HistoryType
  <2> QED BY <2>1, <2>2, <1>1, <1>5, FaultFacts DEF HistoryType
<1>6. CASE id \notin Asserted(c) /\ findings[id] # None
  <2>1. Recorded(c, id) = [fault |-> h.fault, clean |-> clean, absent |-> gone]
    BY <1>6 DEF Recorded
  <2> QED BY <2>1, <1>1, <1>3, <1>4 DEF HistoryType
<1>7. CASE id \notin Asserted(c) /\ findings[id] = None
  BY <1>7, <1>1 DEF Recorded
<1> QED BY <1>5, <1>6, <1>7

LEMMA ApplyType ==
    ASSUME TypeOK, NEW c, Input(c), Apply(c)
    PROVE  TypeOK'
<1> DEFINE updated == [results EXCEPT ![c.job] = Stored(c)]
           judged == HealthOf([r \in Resource |-> Judged(c, r)], Observed(updated, Job))
           ended == Recovered(c) \cup Removed(c)
           closed == [id \in Id |-> CASE id \in Asserted(c) -> None
                                      [] id \in ended -> now
                                      [] OTHER -> retired[id]]
<1>1. Stored(c) \in Result
  <2>1. ASSUME NEW o \in Op, c.merged[o] # None
        PROVE  Degraded(c.merged[o]) \in Reading
    <3>1. c.merged[o] \in Reading
      BY <2>1 DEF Input
    <3> QED BY <3>1 DEF Degraded, Reading
  <2> QED BY <2>1 DEF Stored, Result, Input
<1>2. updated \in [Job -> Result]
  BY <1>1 DEF TypeOK
<1>3. judged \in [Resource -> Health \cup {None}]
  <2>1. ASSUME NEW r \in Resource
        PROVE  Judged(c, r) \in Health \cup {None}
    BY DEF Judged, TypeOK, Health
  <2> QED BY <2>1 DEF HealthOf
<1>4. ASSUME NEW id \in Id
      PROVE  closed[id] \in Time \cup {None}
  BY FaultFacts, ClearedFacts DEF TypeOK
<1>5. closed \in [Id -> Time \cup {None}]
  BY <1>4
<1> HIDE DEF updated, judged, closed
<1>6. /\ results' \in [Job -> Result]
      /\ health' \in [Resource -> Health \cup {None}]
  BY <1>2, <1>3, ExpiredType DEF Apply, updated, judged
<1>7. findings' \in [Id -> Finding \cup {None}]
  <2>1. findings' = [id \in Id |-> ExpiredFinding(Compared(c, id))]
    BY DEF Apply
  <2> QED BY <2>1, ComparedCases, ExpiredFindingType
<1>8. confirmations' \in [Job \X Id -> Confirmation \cup {None}]
  <2>1. confirmations' = [k \in Job \X Id |->
                CASE k[2] \in ended \/ (k[1] = c.job /\ k[2][1] \in DOMAIN c.verdict) -> None
                  [] k[2] \notin ended /\ k[1] = c.job /\ Absent(c, k[2]) -> Confirmed(c, k[2])
                  [] OTHER -> confirmations[k]]
    BY DEF Apply
  <2>2. ASSUME NEW k \in Job \X Id
        PROVE  confirmations'[k] \in Confirmation \cup {None}
    <3>1. k[2] \in Id /\ confirmations[k] \in Confirmation \cup {None}
      BY DEF TypeOK
    <3>2. Absent(c, k[2]) => k[2][1] \notin DOMAIN c.verdict
      BY DEF Absent
    <3>3. Absent(c, k[2]) => Confirmed(c, k[2]) \in Confirmation
      BY <3>1, ConfirmedType
    <3> HIDE DEF ended
    <3> QED BY <2>1, <3>1, <3>2, <3>3
  <2> QED BY <2>1, <2>2
<1>9. retired' \in [Id -> Time \cup {None}]
  BY <1>5, ForgetType DEF Apply, closed
<1>10. emitted' \in [Id -> Kind \cup {None}]
  <2>1. emitted' = [id \in Id |->
                CASE id \in Recovered(c) -> "recovered"
                  [] id \in Removed(c) -> "removed"
                  [] id \in Asserted(c) -> Opening(c, id)
                  [] OTHER -> IF Overdue(Compared(c, id)) THEN "stale" ELSE None]
    BY DEF Apply
  <2>2. ASSUME NEW id \in Id
        PROVE  Opening(c, id) \in Kind \cup {None}
    BY DEF Opening, Kind
  <2> QED BY <2>1, <2>2 DEF Kind
<1>11. history' \in [Id -> HistoryType]
  BY RecordedType DEF Apply
<1>12. now' = now /\ config' = config
  BY DEF Apply
<1> QED BY <1>6, <1>7, <1>8, <1>9, <1>10, <1>11, <1>12 DEF TypeOK, HistoryType

LEMMA InitType == ASSUME Init PROVE TypeOK
<1>1. Empty \in Result
  BY DEF Empty, Result
<1>2. NoHistory \in HistoryType
  BY ConstantsAssumption DEF NoHistory, HistoryType, Time
<1> QED BY <1>1, <1>2, ConstantsAssumption DEF Init, TypeOK, Quiet, Time, HistoryType

LEMMA NextType == ASSUME TypeOK, [Next]_vars PROVE TypeOK'
<1>1. ASSUME NEW j \in config.selected, Check(j) PROVE TypeOK'
  BY <1>1, CheckInput, ApplyType
<1>2. CASE Tick
  <2>1. now' \in Time
    BY <1>2, ConstantsAssumption DEF Tick, TypeOK, Time
  <2> QED BY <1>2, <2>1 DEF Tick, TypeOK, Quiet
<1>3. CASE Expire
  <2>1. /\ results' \in [Job -> Result]
        /\ health' \in [Resource -> Health \cup {None}]
    BY <1>3, ExpiredType DEF Expire, TypeOK
  <2>2. findings' \in [Id -> Finding \cup {None}]
    BY <1>3, ExpiredFindingType DEF Expire, TypeOK
  <2>3. emitted' \in [Id -> Kind \cup {None}]
    BY <1>3 DEF Expire, Kind
  <2> QED BY <1>3, <2>1, <2>2, <2>3 DEF Expire, TypeOK
<1>4. ASSUME NEW cfg \in Configs, Reconfigure(cfg) PROVE TypeOK'
  <2>1. Empty \in Result
    BY DEF Empty, Result
  <2>2. results' \in [Job -> Result]
    BY <1>4, <2>1 DEF Reconfigure, TypeOK
  <2>3. health' \in [Resource -> Health \cup {None}]
    BY <1>4 DEF Reconfigure, TypeOK, HealthOf
  <2>4. retired' \in [Id -> Time \cup {None}]
    <3>1. Quiet \in [Id -> Time \cup {None}]
      BY DEF Quiet
    <3>2. PICK ret \in {retired, Quiet} : \E d : retired' = Forget(ret, d)
      BY <1>4 DEF Reconfigure
    <3>3. ret \in [Id -> Time \cup {None}]
      BY <3>1, <3>2 DEF TypeOK
    <3> QED BY <3>2, <3>3, ForgetType
  <2>5. NoHistory \in HistoryType
    BY ConstantsAssumption DEF NoHistory, HistoryType, Time
  <2>6. /\ findings' \in [Id -> Finding \cup {None}]
        /\ confirmations' \in [Job \X Id -> Confirmation \cup {None}]
        /\ history' \in [Id -> HistoryType]
    BY <1>4, <2>5 DEF Reconfigure, Pending, TypeOK, HistoryType
  <2>7. now' = now /\ config' \in Configs /\ emitted' = Quiet
    BY <1>4 DEF Reconfigure
  <2> QED BY <2>2, <2>3, <2>4, <2>6, <2>7 DEF TypeOK, Quiet, HistoryType
<1>5. CASE BeginRun
  <2>1. Empty \in Result
    BY DEF Empty, Result
  <2> QED BY <1>5, <2>1 DEF BeginRun, TypeOK, Quiet
<1>6. CASE UNCHANGED vars
  BY <1>6 DEF vars, TypeOK
<1> QED BY <1>1, <1>2, <1>3, <1>4, <1>5, <1>6 DEF Next

\* Every reachable snapshot has the shape TypeOK gives it.
THEOREM TypeCorrect == Spec => []TypeOK
<1>1. Init => TypeOK
  BY InitType
<1>2. TypeOK /\ [Next]_vars => TypeOK'
  BY NextType
<1> QED BY <1>1, <1>2, PTL DEF Spec

-----------------------------------------------------------------------------
(* Recovery: the confirmations counted are distinct healthy readings. *)

Counted(id) == {t \in history[id].clean : t <= findings[id].at}

LEMMA Counting ==
    ASSUME NEW S \in SUBSET Time, NEW T \in SUBSET Time, S \subseteq T
    PROVE  /\ Cardinality(S) \in Nat
           /\ Cardinality(T) \in Nat
           /\ Cardinality(S) <= Cardinality(T)
           /\ \A x \in T \ S : Cardinality(S) + 1 <= Cardinality(T)
<1>1. IsFiniteSet(Time)
  BY FS_Interval, ConstantsAssumption DEF Time
<1>2. IsFiniteSet(S) /\ IsFiniteSet(T)
  BY <1>1, FS_Subset
<1>3. /\ Cardinality(S) \in Nat
      /\ Cardinality(T) \in Nat
      /\ Cardinality(S) <= Cardinality(T)
  BY <1>2, FS_CardinalityType, FS_Subset
<1>4. ASSUME NEW x \in T \ S
      PROVE  Cardinality(S) + 1 <= Cardinality(T)
  <2>1. /\ IsFiniteSet(S \cup {x})
        /\ Cardinality(S \cup {x}) = Cardinality(S) + 1
    BY <1>2, FS_AddElement
  <2> QED BY <2>1, <1>2, FS_Subset
<1> QED BY <1>3, <1>4

\* What the history keeps of a comparison.
LEMMA RecordedFields ==
    ASSUME NEW c, NEW id \in Id
    PROVE  /\ id \in Asserted(c) => /\ Recorded(c, id).fault = c.obs[id[1]]
                                    /\ Recorded(c, id).clean = {}
           /\ id \notin Asserted(c) /\ findings[id] # None =>
                 /\ Recorded(c, id).fault = history[id].fault
                 /\ history[id].clean \subseteq Recorded(c, id).clean
<1> DEFINE r == id[1]
           h == history[id]
           read == ~c.truncated /\ ~Overflow(c) /\ Complete(c.ops, OpOf[r])
           healthy == read /\ r \in c.seen /\ c.verdict[r].clear /\ c.ops[OpOf[r]].at > h.fault
           missing == read /\ r \notin c.seen
           clean == h.clean \cup IF healthy THEN {c.ops[OpOf[r]].at} ELSE {}
           gone == [h.absent EXCEPT ![c.job] =
                      IF r \in DOMAIN c.verdict THEN {}
                      ELSE @ \cup IF missing THEN {c.ops[OpOf[r]].at} ELSE {}]
           none == IF id \in Open THEN [h.absent EXCEPT ![c.job] = {}] ELSE NoHistory.absent
<1>1. ASSUME id \in Asserted(c)
      PROVE  Recorded(c, id) = [fault |-> c.obs[r], clean |-> {}, absent |-> none]
  BY <1>1 DEF Recorded
<1>2. ASSUME id \notin Asserted(c), findings[id] # None
      PROVE  Recorded(c, id) = [fault |-> h.fault, clean |-> clean, absent |-> gone]
  BY <1>2 DEF Recorded
<1> HIDE DEF gone, none
<1> QED BY <1>1, <1>2

\* A healthy reading that counts is complete, was listed, belongs to a result
\* that nothing was cut from, and is later than the last fault.
LEMMA ClearedReading ==
    ASSUME TypeOK, ClearsAreEvidence, NEW c, Input(c), NEW id \in Id, Cleared(c, id)
    PROVE  /\ Recorded(c, id).fault = history[id].fault
           /\ Recorded(c, id).clean = history[id].clean \cup {c.obs[id[1]]}
<1>1. id \notin Asserted(c) /\ findings[id] \in Finding /\ c.obs[id[1]] \in Time
  BY ClearedFacts
<1>2. /\ ~Overflow(c)
      /\ Complete(c.ops, OpOf[id[1]])
      /\ ~c.truncated
      /\ id[1] \in c.seen
      /\ c.obs[id[1]] = c.ops[OpOf[id[1]]].at
      /\ c.verdict[id[1]].clear
  BY DEF Cleared, Trusted, Input
<1>3. c.obs[id[1]] > history[id].fault
  <2>1. id \in Open
    BY DEF Open, Cleared
  <2>2. history[id].fault <= findings[id].at /\ c.obs[id[1]] > findings[id].at
    BY <2>1 DEF ClearsAreEvidence, Cleared
  <2>3. history[id].fault \in Int /\ findings[id].at \in Int /\ c.obs[id[1]] \in Int
    BY <1>1 DEF TypeOK, Finding, Time
  <2> QED BY <2>2, <2>3
<1>4. findings[id] # None
  BY DEF Cleared
<1> QED BY <1>1, <1>2, <1>3, <1>4 DEF Recorded

\* One comparison keeps every counted confirmation backed by a reading, and
\* announces a recovery only on enough of them.
LEMMA ApplyEvidence ==
    ASSUME TypeOK, TypeOK', ClearsAreEvidence, NEW c, Input(c), Apply(c)
    PROVE  ClearsAreEvidence' /\ RecoveryConfirmed'
<1>1. ASSUME NEW id \in Id
      PROVE  /\ findings'[id] = ExpiredFinding(Compared(c, id))
             /\ history'[id] = Recorded(c, id)
  BY DEF Apply
<1>2. ASSUME NEW id \in Id, Cleared(c, id)
      PROVE  findings[id].clears + 1 <=
                Cardinality({t \in history'[id].clean : t <= c.obs[id[1]]})
  <2> DEFINE S == Counted(id)
             T == {t \in history'[id].clean : t <= c.obs[id[1]]}
  <2>1. /\ findings[id] \in Finding /\ c.obs[id[1]] \in Time
        /\ c.obs[id[1]] > findings[id].at
    BY <1>2, ClearedFacts DEF Cleared
  <2>2. history'[id].clean = history[id].clean \cup {c.obs[id[1]]}
    BY <1>1, <1>2, ClearedReading
  <2>3. history[id].clean \in SUBSET Time
    BY DEF TypeOK
  <2>4. findings[id].at \in Int /\ c.obs[id[1]] \in Int /\ Time \subseteq Int
    BY <2>1 DEF Finding, Time
  <2>5. /\ S \in SUBSET Time /\ T \in SUBSET Time /\ S \subseteq T
        /\ c.obs[id[1]] \in T \ S
    <3>1. c.obs[id[1]] \in T
      BY <2>2, <2>4
    <3>2. c.obs[id[1]] \notin S
      BY <2>1, <2>4 DEF Counted
    <3>3. S \in SUBSET Time /\ T \in SUBSET Time
      BY <2>1, <2>2, <2>3 DEF Counted
    <3>4. ASSUME NEW t \in S PROVE t \in T
      <4>1. t \in Int /\ t <= findings[id].at /\ t \in history'[id].clean
        BY <2>2, <2>3, <2>4 DEF Counted
      <4> QED BY <4>1, <2>1, <2>4
    <3> QED BY <3>1, <3>2, <3>3, <3>4
  <2>6. findings[id].clears <= Cardinality(S) /\ findings[id].clears \in Nat
    BY <1>2, <2>1 DEF ClearsAreEvidence, Counted, Open, Cleared, Finding
  <2>7. /\ Cardinality(S) \in Nat /\ Cardinality(T) \in Nat
        /\ Cardinality(S) + 1 <= Cardinality(T)
    BY <2>5, Counting
  <2> HIDE DEF S, T
  <2>8. findings[id].clears + 1 <= Cardinality(T)
    BY <2>6, <2>7
  <2> QED BY <2>8 DEF T
<1>3. ASSUME NEW id \in Id, findings'[id] # None
      PROVE  /\ history'[id].fault <= findings'[id].at
             /\ findings'[id].clears <=
                    Cardinality({t \in history'[id].clean : t <= findings'[id].at})
  <2>1. /\ Compared(c, id) \in Finding
        /\ findings'[id].at = Compared(c, id).at
        /\ findings'[id].clears = Compared(c, id).clears
    BY <1>1, <1>3, ComparedCases, ExpiredFindingType
  <2>2. CASE id \in Asserted(c)
    <3>1. Compared(c, id) = Raised(c, id)
      BY <2>2, ComparedCases
    <3>2. history'[id].fault = c.obs[id[1]] /\ history'[id].clean = {}
      BY <1>1, <2>2, RecordedFields
    <3>3. c.obs[id[1]] \in Time
      BY <2>2, FaultFacts
    <3>4. {t \in history'[id].clean : t <= findings'[id].at} = {}
      BY <3>2
    <3>5. Cardinality({}) = 0
      BY FS_EmptySet
    <3> QED BY <2>1, <3>1, <3>2, <3>3, <3>4, <3>5 DEF Raised, Time
  <2>3. CASE Cleared(c, id)
    <3>1. id \notin Recovered(c)
      BY <1>3, <1>1, ComparedCases, ExpiredFindingType
    <3>2. /\ findings[id] \in Finding /\ c.obs[id[1]] \in Time
          /\ Compared(c, id) = Refreshed(findings[id], c.obs[id[1]])
      BY <2>3, <3>1, ComparedCases, ClearedFacts
    <3>3. findings'[id].at = c.obs[id[1]] /\ findings'[id].clears = findings[id].clears + 1
      BY <2>1, <3>2, RefreshedType
    <3>4. history'[id].fault = history[id].fault
      BY <1>1, <2>3, ClearedReading
    <3>5. history[id].fault <= findings[id].at /\ c.obs[id[1]] > findings[id].at
      BY <2>3 DEF ClearsAreEvidence, Open, Cleared
    <3>6. history[id].fault \in Int /\ findings[id].at \in Int /\ c.obs[id[1]] \in Int
      BY <3>2 DEF TypeOK, Finding, Time
    <3> QED BY <1>2, <2>3, <3>3, <3>4, <3>5, <3>6
  <2>4. CASE id \notin Asserted(c) /\ ~Cleared(c, id)
    <3>1. Compared(c, id) = findings[id] /\ findings[id] # None
      BY <1>1, <1>3, <2>4, ComparedCases, ExpiredFindingType DEF Recovered
    <3>2. history'[id].fault = history[id].fault
          /\ history[id].clean \subseteq history'[id].clean
      BY <1>1, <2>4, <3>1, RecordedFields
    <3>3. history[id].clean \in SUBSET Time /\ history'[id].clean \in SUBSET Time
      BY DEF TypeOK
    <3>4. history[id].fault <= findings[id].at
          /\ findings[id].clears <= Cardinality(Counted(id))
      BY <3>1 DEF ClearsAreEvidence, Open, Counted
    <3> DEFINE T == {t \in history'[id].clean : t <= findings'[id].at}
    <3>5. Counted(id) \in SUBSET Time /\ T \in SUBSET Time /\ Counted(id) \subseteq T
      BY <2>1, <3>1, <3>2, <3>3 DEF Counted
    <3>6. /\ Cardinality(Counted(id)) \in Nat /\ Cardinality(T) \in Nat
          /\ Cardinality(Counted(id)) <= Cardinality(T)
      BY <3>5, Counting
    <3>7. findings[id].clears \in Nat
      BY <2>1, <3>1 DEF Finding
    <3> HIDE DEF T
    <3>8. findings'[id].clears <= Cardinality(T)
      BY <2>1, <3>1, <3>4, <3>6, <3>7
    <3> QED BY <2>1, <3>1, <3>2, <3>4, <3>8 DEF T
  <2> QED BY <2>2, <2>3, <2>4
<1>4. ClearsAreEvidence'
  BY <1>3 DEF ClearsAreEvidence, Open
<1>5. ASSUME NEW id \in Id, emitted'[id] = "recovered"
      PROVE  Cardinality(history'[id].clean) >= RecoverConfirmations
  <2>1. id \in Recovered(c)
    <3>1. emitted'[id] = CASE id \in Recovered(c) -> "recovered"
                           [] id \in Removed(c) -> "removed"
                           [] id \in Asserted(c) -> Opening(c, id)
                           [] OTHER -> IF Overdue(Compared(c, id)) THEN "stale" ELSE None
      BY DEF Apply
    <3>2. None # "recovered"
      BY NoneAssumption DEF Kind
    <3>3. Opening(c, id) # "recovered"
      BY <3>2 DEF Opening
    <3> QED BY <1>5, <3>1, <3>2, <3>3
  <2>2. Cleared(c, id) /\ findings[id].clears + 1 >= RecoverConfirmations
    BY <2>1 DEF Recovered
  <2> DEFINE S == {t \in history'[id].clean : t <= c.obs[id[1]]}
             T == history'[id].clean
  <2>3. T \in SUBSET Time /\ S \in SUBSET Time /\ S \subseteq T
    BY DEF TypeOK
  <2>4. Cardinality(S) \in Nat /\ Cardinality(T) \in Nat /\ Cardinality(S) <= Cardinality(T)
    BY <2>3, Counting
  <2>5. findings[id].clears + 1 <= Cardinality(S)
    BY <1>2, <2>2
  <2>6. findings[id].clears \in Nat /\ RecoverConfirmations \in Nat
    BY <2>2, ClearedFacts, ConstantsAssumption DEF Finding
  <2> HIDE DEF S, T
  <2>7. Cardinality(T) >= RecoverConfirmations
    BY <2>2, <2>4, <2>5, <2>6
  <2> QED BY <2>7 DEF T
<1> QED BY <1>4, <1>5 DEF RecoveryConfirmed

\* A step that leaves the readings, the confirmations and the time of every
\* finding it keeps, and announces no recovery, keeps the evidence.
LEMMA QuietEvidence ==
    ASSUME TypeOK, ClearsAreEvidence,
           \A id \in Id : findings'[id] # None =>
              /\ findings[id] # None
              /\ findings'[id].at = findings[id].at
              /\ findings'[id].clears = findings[id].clears
              /\ history'[id] = history[id],
           \A id \in Id : emitted'[id] # "recovered"
    PROVE  ClearsAreEvidence' /\ RecoveryConfirmed'
<1>1. ASSUME NEW id \in Id, findings'[id] # None
      PROVE  /\ history'[id].fault <= findings'[id].at
             /\ findings'[id].clears <=
                    Cardinality({t \in history'[id].clean : t <= findings'[id].at})
  BY <1>1 DEF ClearsAreEvidence, Open
<1> QED BY <1>1 DEF ClearsAreEvidence, Open, RecoveryConfirmed

\* A recovery is never announced on fewer distinct complete healthy readings
\* after the last fault than recover_confirmations: not by an incomplete, a
\* truncated or an overflowing result, nor by one cached reading seen twice.
THEOREM RecoveryIsConfirmed == Spec => [](ClearsAreEvidence /\ RecoveryConfirmed)
<1> DEFINE IInv == TypeOK /\ ClearsAreEvidence /\ RecoveryConfirmed
<1>1. Init => IInv
  <2> SUFFICES ASSUME Init PROVE IInv
    OBVIOUS
  <2>1. None # "recovered"
    BY NoneAssumption DEF Kind
  <2>2. Init => TypeOK
    BY InitType
  <2> QED BY <2>1, <2>2 DEF Init, Quiet, ClearsAreEvidence, RecoveryConfirmed, Open
<1>2. IInv /\ [Next]_vars => IInv'
  <2> SUFFICES ASSUME IInv, [Next]_vars PROVE IInv'
    OBVIOUS
  <2>0. TypeOK'
    BY NextType
  <2>n. None # "recovered"
    BY NoneAssumption DEF Kind
  <2>1. ASSUME NEW j \in config.selected, Check(j) PROVE IInv'
    BY <2>0, <2>1, CheckInput, ApplyEvidence
  <2>2. CASE Tick
    BY <2>0, <2>2, <2>n, QuietEvidence DEF Tick, Quiet
  <2>3. CASE Expire
    <3>1. ASSUME NEW id \in Id
          PROVE  /\ findings'[id] = ExpiredFinding(findings[id])
                 /\ findings[id] \in Finding \cup {None}
                 /\ emitted'[id] # "recovered"
      BY <2>3, <2>n DEF Expire, TypeOK
    <3>2. history' = history
      BY <2>3 DEF Expire
    <3> QED BY <2>0, <3>1, <3>2, ExpiredFindingType, QuietEvidence
  <2>4. ASSUME NEW cfg \in Configs, Reconfigure(cfg) PROVE IInv'
    <3>1. \E open \in SUBSET Open :
             /\ findings' = [id \in Id |-> IF id \in open THEN findings[id] ELSE None]
             /\ history' = [id \in Id |-> IF id \in open THEN history[id] ELSE NoHistory]
      BY <2>4 DEF Reconfigure
    <3>2. emitted' = Quiet
      BY <2>4 DEF Reconfigure
    <3> QED BY <2>0, <3>1, <3>2, <2>n, QuietEvidence DEF Quiet
  <2>5. CASE BeginRun
    BY <2>0, <2>5, <2>n, QuietEvidence DEF BeginRun, Quiet
  <2>6. CASE UNCHANGED vars
    BY <2>0, <2>6 DEF vars, ClearsAreEvidence, RecoveryConfirmed, Open
  <2> QED BY <2>1, <2>2, <2>3, <2>4, <2>5, <2>6 DEF Next
<1> QED BY <1>1, <1>2, PTL DEF Spec

-----------------------------------------------------------------------------
(* The limit. *)

LEMMA IdFinite == IsFiniteSet(Id)
<1>1. IsFiniteSet(Resource) /\ IsFiniteSet(Rule)
  BY ConstantsAssumption
<1> QED BY <1>1, FS_Product DEF Id

LEMMA LimitIsNatural ==
  ASSUME TypeOK
  PROVE  config.limit \in Nat
  BY ConstantsAssumption DEF TypeOK, Config

\* What trim_retired leaves fits the limit.
LEMMA ForgetLimit ==
  ASSUME NEW ret \in [Id -> Time \cup {None}], NEW n \in Nat, NEW d \in Forgettable(ret, n)
  PROVE  Cardinality({id \in Id : Forget(ret, d)[id] # None}) <= n
<1> DEFINE held == {id \in Id : ret[id] # None}
           left == {id \in Id : Forget(ret, d)[id] # None}
<1>1. IsFiniteSet(held) /\ Cardinality(held) \in Nat
  <2>1. held \in SUBSET Id
    OBVIOUS
  <2> HIDE DEF held
  <2> QED BY <2>1, IdFinite, FS_Subset, FS_CardinalityType
<1>2. d \in SUBSET held
      /\ Cardinality(d) = IF Cardinality(held) - n > 0 THEN Cardinality(held) - n ELSE 0
  BY DEF Forgettable
<1>3. left = held \ d
  BY DEF Forget
<1>4. held \cap d = d
  BY <1>2
<1> HIDE DEF held, left
<1>5. Cardinality(held \ d) = Cardinality(held) - Cardinality(held \cap d)
  BY <1>1, FS_Difference
<1>6. Cardinality(left) = Cardinality(held) - Cardinality(d)
  BY <1>3, <1>4, <1>5
<1>7. Cardinality(left) <= n
  BY <1>1, <1>2, <1>6
<1> QED BY <1>7 DEF left

\* Nothing is open after a comparison but what was open or was admitted.
LEMMA OpenAfter ==
  ASSUME TypeOK, NEW c, Input(c), Apply(c)
  PROVE  Open' \subseteq Open \cup c.admitted
<1> SUFFICES ASSUME NEW id \in Id, findings'[id] # None
             PROVE  id \in Open \cup c.admitted
  BY DEF Open
<1>1. findings'[id] = ExpiredFinding(Compared(c, id)) /\ Compared(c, id) \in Finding \cup {None}
  BY ComparedCases DEF Apply
<1>2. Compared(c, id) # None
  BY <1>1, ExpiredFindingType
<1>3. CASE id \in Asserted(c)
  BY <1>3 DEF Asserted
<1>4. CASE id \notin Asserted(c) /\ findings[id] = None
  <2>1. ~Cleared(c, id) /\ id \notin Recovered(c) \cup Removed(c)
    BY <1>4 DEF Cleared, Recovered, Removed, Absent
  <2>2. Compared(c, id) = None
    BY <1>4, <2>1, ComparedCases
  <2> QED BY <1>2, <2>2
<1>5. CASE findings[id] # None
  BY <1>5 DEF Open
<1> QED BY <1>3, <1>4, <1>5

LEMMA ApplyLimit ==
  ASSUME TypeOK, TypeOK', WithinLimit, NEW c, Input(c), Faithful(c), Apply(c)
  PROVE  WithinLimit'
<1>1. config' = config /\ config.limit \in Nat
  BY LimitIsNatural DEF Apply
<1>2. Cardinality(Open') <= config.limit
  <2>1. Open \in SUBSET Id /\ c.admitted \in SUBSET Id
    BY DEF Open, Input, Faulty
  <2>2. IsFiniteSet(Open) /\ IsFiniteSet(c.admitted)
    BY <2>1, IdFinite, FS_Subset
  <2>3. Cardinality(Open) \in Nat /\ Cardinality(c.admitted) \in Nat
    BY <2>2, FS_CardinalityType
  <2>4. Cardinality(c.admitted) <= config.limit - Cardinality(Open)
    <3> DEFINE fresh == Faulty(c.verdict) \ Open
               room == config.limit - Cardinality(Open)
    <3>1. Cardinality(c.admitted)
            = IF room < 0 THEN 0 ELSE IF Cardinality(fresh) < room THEN Cardinality(fresh) ELSE room
      BY DEF Faithful, Admissible
    <3>2. fresh \in SUBSET Id
      BY DEF Faulty
    <3> HIDE DEF fresh
    <3>3. Cardinality(fresh) \in Nat
      BY <3>2, IdFinite, FS_Subset, FS_CardinalityType
    <3> QED BY <1>1, <2>3, <3>1, <3>3 DEF WithinLimit
  <2>5. Open \cap c.admitted = {}
    BY DEF Input
  <2>6. Cardinality(Open \cup c.admitted)
          = Cardinality(Open) + Cardinality(c.admitted) - Cardinality(Open \cap c.admitted)
        /\ IsFiniteSet(Open \cup c.admitted)
    BY <2>2, FS_Union
  <2>7. Cardinality(Open \cap c.admitted) = 0
    BY <2>5, FS_EmptySet
  <2>8. IsFiniteSet(Open') /\ Cardinality(Open') <= Cardinality(Open \cup c.admitted)
    BY <2>6, OpenAfter, FS_Subset
  <2>9. Cardinality(Open') \in Nat
    BY <2>8, FS_CardinalityType
  <2> QED BY <1>1, <2>3, <2>4, <2>6, <2>7, <2>8, <2>9
<1>3. Cardinality(Retired') <= config.limit
  <2> DEFINE ended == Recovered(c) \cup Removed(c)
             closed == [id \in Id |-> CASE id \in Asserted(c) -> None
                                        [] id \in ended -> now
                                        [] OTHER -> retired[id]]
  <2>1. PICK d \in Forgettable(closed, config.limit) : retired' = Forget(closed, d)
    BY DEF Apply
  <2>2. closed \in [Id -> Time \cup {None}]
    <3>1. Asserted(c) \cap ended = {}
      BY FaultFacts, ClearedFacts DEF Recovered, Removed, Absent
    <3> HIDE DEF ended
    <3> QED BY <3>1 DEF TypeOK
  <2> HIDE DEF closed
  <2>3. Cardinality({id \in Id : Forget(closed, d)[id] # None}) <= config.limit
    BY <1>1, <2>2, ForgetLimit
  <2> QED BY <2>1, <2>3 DEF Retired
<1> QED BY <1>1, <1>2, <1>3 DEF WithinLimit

\* However results and reloads follow one another, max_findings bounds the findings that are open
\* and those that are remembered: a comparison admits new faults as far as there is room, and a
\* reload to a limit that the open findings exceed is refused (state.rs, apply and trim_retired;
\* state_lifecycle.rs, reconfigured).
THEOREM LimitHolds == Spec => []WithinLimit
<1> DEFINE IInv == TypeOK /\ WithinLimit
<1>1. Init => IInv
  <2> SUFFICES ASSUME Init PROVE WithinLimit
    BY InitType
  <2>1. Open = {} /\ Retired = {}
    BY DEF Init, Open, Retired, Quiet
  <2>2. config.limit \in Nat
    BY InitType, LimitIsNatural
  <2> QED BY <2>1, <2>2, FS_EmptySet DEF WithinLimit
<1>2. IInv /\ [Next]_vars => IInv'
  <2> SUFFICES ASSUME IInv, [Next]_vars PROVE WithinLimit'
    BY NextType
  <2>0. TypeOK' /\ config.limit \in Nat
    BY NextType, LimitIsNatural
  <2>1. ASSUME NEW j \in config.selected, Check(j) PROVE WithinLimit'
    BY <2>0, <2>1, CheckInput, ApplyLimit
  <2>2. CASE Expire
    <3>1. Open' = Open
      <4>1. \A id \in Id : findings'[id] = None <=> findings[id] = None
        BY <2>2, ExpiredFindingType DEF Expire, TypeOK
      <4> QED BY <4>1 DEF Open
    <3> QED BY <2>2, <3>1 DEF Expire, WithinLimit, Retired
  <2>3. ASSUME NEW cfg \in Configs, Reconfigure(cfg) PROVE WithinLimit'
    <3>1. PICK open \in SUBSET Open :
             /\ Fits(open, cfg.limit) /\ config' = cfg
             /\ findings' = [id \in Id |-> IF id \in open THEN findings[id] ELSE None]
      BY <2>3 DEF Reconfigure
    <3>2. Open' = open
      BY <3>1 DEF Open
    <3>a. PICK ret \in {retired, Quiet} :
             \E d \in Forgettable(ret, cfg.limit) : retired' = Forget(ret, d)
      BY <2>3 DEF Reconfigure
    <3>3. PICK d \in Forgettable(ret, cfg.limit) : retired' = Forget(ret, d)
      BY <3>a
    <3>4. ret \in [Id -> Time \cup {None}] /\ cfg.limit \in Nat
      BY <3>a, ConstantsAssumption DEF TypeOK, Quiet, Config
    <3>5. Cardinality({id \in Id : Forget(ret, d)[id] # None}) <= cfg.limit
      BY <3>4, ForgetLimit
    <3> QED BY <3>1, <3>2, <3>3, <3>5 DEF WithinLimit, Retired, Fits
  <2>4. CASE Tick \/ BeginRun \/ UNCHANGED vars
    BY <2>4 DEF Tick, BeginRun, vars, WithinLimit, Open, Retired
  <2> QED BY <2>1, <2>2, <2>3, <2>4 DEF Next
<1> QED BY <1>1, <1>2, PTL DEF Spec

-----------------------------------------------------------------------------
(* Removals. *)

\* What the history keeps of the inventories that no longer listed a resource.
LEMMA RecordedAbsent ==
  ASSUME TypeOK, NEW c, Input(c), NEW id \in Id, findings[id] # None, NEW j \in Job
  PROVE  /\ j # c.job => Recorded(c, id).absent[j] = history[id].absent[j]
         /\ id[1] \notin DOMAIN c.verdict =>
               history[id].absent[j] \subseteq Recorded(c, id).absent[j]
         /\ id[1] \notin DOMAIN c.verdict /\ j = c.job /\ ~c.truncated /\ ~Overflow(c)
               /\ Complete(c.ops, OpOf[id[1]]) /\ id[1] \notin c.seen =>
               Recorded(c, id).absent[j]
                  = history[id].absent[j] \cup {c.ops[OpOf[id[1]]].at}
<1> DEFINE r == id[1]
           h == history[id]
           read == ~c.truncated /\ ~Overflow(c) /\ Complete(c.ops, OpOf[r])
           missing == read /\ r \notin c.seen
           healthy == read /\ r \in c.seen /\ c.verdict[r].clear /\ c.ops[OpOf[r]].at > h.fault
           clean == h.clean \cup IF healthy THEN {c.ops[OpOf[r]].at} ELSE {}
           gone == [h.absent EXCEPT ![c.job] =
                      IF r \in DOMAIN c.verdict THEN {}
                      ELSE @ \cup IF missing THEN {c.ops[OpOf[r]].at} ELSE {}]
           reset == [h.absent EXCEPT ![c.job] = {}]
<1>1. h.absent \in [Job -> SUBSET Time] /\ c.job \in Job /\ id \in Open
  BY DEF TypeOK, Input, Open
<1>2. CASE id \in Asserted(c)
  <2>1. Recorded(c, id) = [fault |-> c.obs[r], clean |-> {},
                           absent |-> IF id \in Open THEN reset ELSE NoHistory.absent]
    BY <1>2 DEF Recorded
  <2>2. Recorded(c, id).absent = reset
    BY <1>1, <2>1
  <2>3. r \in DOMAIN c.verdict
    BY <1>2, FaultFacts
  <2> QED BY <1>1, <2>2, <2>3
<1>3. CASE id \notin Asserted(c)
  <2> HIDE DEF clean
  <2>1. Recorded(c, id) = [fault |-> h.fault, clean |-> clean, absent |-> gone]
    BY <1>3 DEF Recorded, clean
  <2>2. Recorded(c, id).absent = gone
    BY <2>1
  <2> QED BY <1>1, <2>2
<1> QED BY <1>2, <1>3

\* An inventory without the resource that the code counts was complete, cut nowhere, and is
\* among those the history keeps.
LEMMA AbsenceCounts ==
  ASSUME TypeOK, AbsencesAreEvidence, NEW c, Input(c), Faithful(c), NEW id \in Id, Absent(c, id)
  PROVE  /\ id \notin Asserted(c) /\ c.job \in InventoryJob /\ id \in Open
         /\ Recorded(c, id).absent[c.job] \in SUBSET Time
         /\ Confirmed(c, id).count <=
               Cardinality({t \in Recorded(c, id).absent[c.job] : t <= Confirmed(c, id).lastAt})
<1> DEFINE o == OpOf[id[1]]
           was == history[id].absent[c.job]
           is == Recorded(c, id).absent[c.job]
           at == c.merged[o].at
           held == confirmations[<<c.job, id>>]
           old == IF held # None THEN held ELSE [count |-> 0, lastAt |-> findings[id].at]
<1>1. /\ id \in Open /\ findings[id] \in Finding /\ c.job \in InventoryJob /\ c.job \in Job
      /\ id[1] \in Resource /\ o \in Op /\ id[1] \notin DOMAIN c.verdict /\ ~Overflow(c)
      /\ Complete(c.merged, o)
  BY ConstantsAssumption DEF Absent, Open, TypeOK, Id, Input, Trusted
<1>2. id \notin Asserted(c)
  BY <1>1, FaultFacts
<1>3. Complete(c.ops, o) /\ ~c.truncated /\ at = c.ops[o].at /\ id[1] \notin c.seen
  BY <1>1 DEF Faithful
<1>4. is = was \cup {at}
  BY <1>1, <1>3, RecordedAbsent DEF Open
<1>5. was \in SUBSET Time /\ at \in Time /\ is \in SUBSET Time
  <2>1. c.merged[o] \in Reading
    BY <1>1 DEF Input, Complete
  <2>2. was \in SUBSET Time /\ at \in Time
    BY <1>1, <2>1 DEF TypeOK, Reading
  <2> HIDE DEF is, was, at
  <2> QED BY <1>4, <2>2
<1>6. old \in Confirmation
  <2>1. held \in Confirmation \cup {None}
    BY <1>1 DEF TypeOK
  <2>2. findings[id].at \in Time
    BY <1>1 DEF Finding
  <2> QED BY <2>1, <2>2 DEF Confirmation
<1>7. old.count <= Cardinality({t \in was : t <= old.lastAt})
  <2>1. CASE held # None
    BY <1>1, <2>1 DEF AbsencesAreEvidence
  <2>2. CASE held = None
    <3>1. {t \in was : t <= old.lastAt} \in SUBSET Time
      BY <1>5
    <3>2. Cardinality({t \in was : t <= old.lastAt}) \in Nat
      BY <3>1, Counting
    <3> QED BY <2>2, <3>2
  <2> QED BY <2>1, <2>2
<1>8. Confirmed(c, id) = IF at > old.lastAt THEN [count |-> old.count + 1, lastAt |-> at] ELSE old
  BY DEF Confirmed
<1>9. old.count \in Nat /\ old.lastAt \in Int /\ at \in Int /\ Time \subseteq Int
  BY <1>5, <1>6 DEF Confirmation, Time
<1> HIDE DEF is, was, at, old
<1>10. Confirmed(c, id).count <= Cardinality({t \in is : t <= Confirmed(c, id).lastAt})
  <2> DEFINE S == {t \in was : t <= old.lastAt}
             T == {t \in is : t <= Confirmed(c, id).lastAt}
  <2>1. S \in SUBSET Time /\ T \in SUBSET Time
    BY <1>5
  <2>2. CASE at > old.lastAt
    <3>1. Confirmed(c, id).count = old.count + 1 /\ Confirmed(c, id).lastAt = at
      BY <1>8, <2>2
    <3>2. S \subseteq T /\ at \in T \ S
      <4>1. at \in T /\ at \notin S
        BY <1>4, <1>9, <2>2, <3>1
      <4>2. ASSUME NEW t \in S PROVE t \in T
        <5>1. t \in was /\ t <= old.lastAt /\ t \in Int
          BY <1>5, <1>9
        <5> QED BY <1>4, <1>9, <2>2, <3>1, <5>1
      <4> QED BY <4>1, <4>2
    <3>3. Cardinality(S) \in Nat /\ Cardinality(T) \in Nat /\ Cardinality(S) + 1 <= Cardinality(T)
      BY <2>1, <3>2, Counting
    <3> HIDE DEF S, T
    <3>4. old.count + 1 <= Cardinality(T)
      BY <1>7, <1>9, <3>3 DEF S
    <3> QED BY <3>1, <3>4 DEF T
  <2>3. CASE ~(at > old.lastAt)
    <3>1. Confirmed(c, id) = old
      BY <1>8, <2>3
    <3>2. S \subseteq T
      BY <1>4, <3>1
    <3>3. Cardinality(S) \in Nat /\ Cardinality(T) \in Nat /\ Cardinality(S) <= Cardinality(T)
      BY <2>1, <3>2, Counting
    <3> HIDE DEF S, T
    <3>4. old.count <= Cardinality(T)
      BY <1>7, <1>9, <3>3 DEF S
    <3> QED BY <3>1, <3>4 DEF T
  <2> QED BY <2>2, <2>3
<1> QED BY <1>1, <1>2, <1>5, <1>10 DEF is

LEMMA ApplyAbsences ==
  ASSUME TypeOK, TypeOK', AbsencesAreEvidence, NEW c, Input(c), Faithful(c), Apply(c)
  PROVE  AbsencesAreEvidence' /\ RemovalConfirmed'
<1>0. /\ \A id \in Id : findings'[id] = ExpiredFinding(Compared(c, id))
      /\ \A id \in Id : history'[id] = Recorded(c, id)
  BY DEF Apply
<1>1. ASSUME NEW j \in Job, NEW id \in Id, confirmations'[<<j, id>>] # None
      PROVE  /\ id \in Open'
             /\ j \in InventoryJob
             /\ confirmations'[<<j, id>>].count <=
                   Cardinality({t \in history'[id].absent[j] :
                                   t <= confirmations'[<<j, id>>].lastAt})
  <2> DEFINE ended == Recovered(c) \cup Removed(c)
  <2>1. confirmations'[<<j, id>>] =
           CASE id \in ended \/ (j = c.job /\ id[1] \in DOMAIN c.verdict) -> None
             [] id \notin ended /\ j = c.job /\ Absent(c, id) -> Confirmed(c, id)
             [] OTHER -> confirmations[<<j, id>>]
    <3> DEFINE k == <<j, id>>
    <3>1. k \in Job \X Id /\ k[1] = j /\ k[2] = id
      OBVIOUS
    <3>2. confirmations'[k] =
           CASE k[2] \in ended \/ (k[1] = c.job /\ k[2][1] \in DOMAIN c.verdict) -> None
             [] k[2] \notin ended /\ k[1] = c.job /\ Absent(c, k[2]) -> Confirmed(c, k[2])
             [] OTHER -> confirmations[k]
      BY <3>1 DEF Apply
    <3> QED BY <3>1, <3>2
  <2>2. id \notin ended /\ ~(j = c.job /\ id[1] \in DOMAIN c.verdict)
    <3> SUFFICES ASSUME id \in ended \/ (j = c.job /\ id[1] \in DOMAIN c.verdict) PROVE FALSE
      OBVIOUS
    <3> HIDE DEF ended
    <3>1. confirmations'[<<j, id>>] = None
      BY <2>1 DEF Absent
    <3> QED BY <1>1, <3>1
  <2>3. ASSUME findings[id] # None PROVE id \in Open'
    <3>1. Compared(c, id) \in Finding
      <4>1. findings[id] \in Finding /\ id \notin Recovered(c)
        BY <2>2, <2>3 DEF TypeOK
      <4>2. CASE id \in Asserted(c)
        BY <4>2, ComparedCases, FaultFacts
      <4>3. CASE Cleared(c, id)
        BY <4>1, <4>3, ComparedCases, ClearedFacts
      <4>4. CASE id \notin Asserted(c) /\ ~Cleared(c, id)
        BY <2>2, <4>1, <4>4, ComparedCases
      <4> QED BY <4>2, <4>3, <4>4
    <3>2. Compared(c, id) # None
      BY <3>1, NoneAssumption
    <3> QED BY <1>0, <3>1, <3>2, ExpiredFindingType DEF Open
  <2>4. CASE j = c.job /\ Absent(c, id)
    <3>1. confirmations'[<<j, id>>] = Confirmed(c, id)
      BY <2>1, <2>2, <2>4
    <3> QED BY <1>0, <2>3, <2>4, <3>1, AbsenceCounts DEF Absent
  <2>5. CASE ~(j = c.job /\ Absent(c, id))
    <3>1. confirmations'[<<j, id>>] = confirmations[<<j, id>>]
      BY <2>1, <2>2, <2>5
    <3> DEFINE n == confirmations[<<j, id>>]
               S == {t \in history[id].absent[j] : t <= n.lastAt}
               T == {t \in history'[id].absent[j] : t <= n.lastAt}
    <3>2. id \in Open /\ j \in InventoryJob /\ n.count <= Cardinality(S) /\ n \in Confirmation
      BY <1>1, <3>1 DEF AbsencesAreEvidence, TypeOK
    <3>3. history[id].absent[j] \subseteq history'[id].absent[j]
      BY <1>0, <2>2, <3>2, RecordedAbsent DEF Open
    <3>4. S \in SUBSET Time /\ T \in SUBSET Time /\ S \subseteq T
      BY <3>3 DEF TypeOK
    <3>5. Cardinality(S) \in Nat /\ Cardinality(T) \in Nat /\ Cardinality(S) <= Cardinality(T)
      BY <3>4, Counting
    <3>6. n.count \in Nat
      BY <3>2 DEF Confirmation
    <3> HIDE DEF S, T
    <3>7. n.count <= Cardinality(T)
      BY <3>2, <3>5, <3>6
    <3> QED BY <2>3, <3>1, <3>2, <3>7 DEF T, Open
  <2> QED BY <2>4, <2>5
<1>2. ASSUME NEW id \in Id, emitted'[id] = "removed"
      PROVE  \E j \in InventoryJob : Cardinality(history'[id].absent[j]) >= RemovalConfirmations
  <2>1. id \in Removed(c)
    <3>1. emitted'[id] = CASE id \in Recovered(c) -> "recovered"
                           [] id \in Removed(c) -> "removed"
                           [] id \in Asserted(c) -> Opening(c, id)
                           [] OTHER -> IF Overdue(Compared(c, id)) THEN "stale" ELSE None
      BY DEF Apply
    <3>2. None # "removed"
      BY NoneAssumption DEF Kind
    <3>3. Opening(c, id) # "removed"
      BY <3>2 DEF Opening
    <3> QED BY <1>2, <3>1, <3>2, <3>3
  <2>2. Absent(c, id) /\ Confirmed(c, id).count >= RemovalConfirmations
    BY <2>1 DEF Removed
  <2> DEFINE T == history'[id].absent[c.job]
             S == {t \in T : t <= Confirmed(c, id).lastAt}
  <2>3. c.job \in InventoryJob /\ T \in SUBSET Time /\ Confirmed(c, id).count <= Cardinality(S)
    BY <1>0, <2>2, AbsenceCounts
  <2>4. S \in SUBSET Time /\ S \subseteq T
    BY <2>3
  <2>5. Cardinality(S) \in Nat /\ Cardinality(T) \in Nat /\ Cardinality(S) <= Cardinality(T)
    BY <2>3, <2>4, Counting
  <2>6. Confirmed(c, id).count \in Nat /\ RemovalConfirmations \in Nat
    BY <2>2, ConfirmedType, ConstantsAssumption DEF Confirmation
  <2> HIDE DEF S, T
  <2>7. Cardinality(T) >= RemovalConfirmations
    BY <2>2, <2>3, <2>5, <2>6
  <2> QED BY <2>3, <2>7 DEF T
<1> QED BY <1>1, <1>2 DEF AbsencesAreEvidence, RemovalConfirmed

\* A step that keeps the evidence of every finding it keeps, and announces no removal.
LEMMA QuietAbsences ==
  ASSUME AbsencesAreEvidence,
         \A j \in Job, id \in Id : confirmations'[<<j, id>>] # None =>
            /\ confirmations'[<<j, id>>] = confirmations[<<j, id>>]
            /\ history'[id] = history[id]
            /\ id \in Open => id \in Open',
         \A id \in Id : emitted'[id] # "removed"
  PROVE  AbsencesAreEvidence' /\ RemovalConfirmed'
<1>1. ASSUME NEW j \in Job, NEW id \in Id, confirmations'[<<j, id>>] # None
      PROVE  /\ id \in Open'
             /\ j \in InventoryJob
             /\ confirmations'[<<j, id>>].count <=
                   Cardinality({t \in history'[id].absent[j] :
                                   t <= confirmations'[<<j, id>>].lastAt})
  BY <1>1 DEF AbsencesAreEvidence
<1> QED BY <1>1 DEF AbsencesAreEvidence, RemovalConfirmed

\* A removal is never announced on fewer distinct complete inventories of one job without the
\* resource than removal_confirmations: neither an incomplete, truncated or overflowing result
\* nor one cached inventory seen twice counts (state.rs, apply and the removal confirmations).
THEOREM RemovalIsConfirmed == Spec => [](AbsencesAreEvidence /\ RemovalConfirmed)
<1> DEFINE IInv == TypeOK /\ AbsencesAreEvidence /\ RemovalConfirmed
<1>n. None # "removed"
  BY NoneAssumption DEF Kind
<1>1. Init => IInv
  <2> SUFFICES ASSUME Init PROVE AbsencesAreEvidence /\ RemovalConfirmed
    BY InitType
  <2> QED BY <1>n DEF Init, Quiet, AbsencesAreEvidence, RemovalConfirmed
<1>2. IInv /\ [Next]_vars => IInv'
  <2> SUFFICES ASSUME IInv, [Next]_vars PROVE AbsencesAreEvidence' /\ RemovalConfirmed'
    BY NextType
  <2>0. TypeOK'
    BY NextType
  <2>1. ASSUME NEW j \in config.selected, Check(j)
        PROVE  AbsencesAreEvidence' /\ RemovalConfirmed'
    BY <2>0, <2>1, CheckInput, ApplyAbsences
  <2>2. CASE Tick
    BY <2>2, <1>n, QuietAbsences DEF Tick, Quiet, Open
  <2>3. CASE Expire
    <3>1. Open' = Open
      <4>1. \A id \in Id : findings'[id] = None <=> findings[id] = None
        BY <2>3, ExpiredFindingType DEF Expire, TypeOK
      <4> QED BY <4>1 DEF Open
    <3>2. \A id \in Id : emitted'[id] # "removed"
      BY <2>3, <1>n DEF Expire
    <3> QED BY <2>3, <3>1, <3>2, QuietAbsences DEF Expire
  <2>4. ASSUME NEW cfg \in Configs, Reconfigure(cfg)
        PROVE  AbsencesAreEvidence' /\ RemovalConfirmed'
    <3>1. PICK open \in SUBSET Open :
             /\ findings' = [id \in Id |-> IF id \in open THEN findings[id] ELSE None]
             /\ history' = [id \in Id |-> IF id \in open THEN history[id] ELSE NoHistory]
             /\ confirmations' = Pending(open)
             /\ emitted' = Quiet
      BY <2>4 DEF Reconfigure
    <3>2. \A j \in Job, id \in Id :
             confirmations'[<<j, id>>] = IF id \in open THEN confirmations[<<j, id>>] ELSE None
      BY <3>1 DEF Pending
    <3>3. \A id \in open : id \in Open' /\ history'[id] = history[id]
      BY <3>1 DEF Open
    <3>4. \A id \in Id : emitted'[id] # "removed"
      BY <3>1, <1>n DEF Quiet
    <3> QED BY <3>2, <3>3, <3>4, QuietAbsences
  <2>5. CASE BeginRun
    <3>1. \A j \in Job, id \in Id : confirmations'[<<j, id>>] = None
      BY <2>5 DEF BeginRun
    <3> QED BY <2>5, <3>1, <1>n, QuietAbsences DEF BeginRun, Quiet
  <2>6. CASE UNCHANGED vars
    BY <2>6 DEF vars, AbsencesAreEvidence, RemovalConfirmed, Open
  <2> QED BY <2>1, <2>2, <2>3, <2>4, <2>5, <2>6 DEF Next
<1> QED BY <1>1, <1>2, PTL DEF Spec
\* What apply has counted towards a recovery or a removal is never more than the distinct
\* observations that were applied: the counters are evidence at every moment, before any
\* transition is announced (state.rs, the confirmations of Finding).
THEOREM CountersAreEvidence == Spec => []CountsAreEvidence
BY RecoveryIsConfirmed, RemovalIsConfirmed, PTL DEF CountsAreEvidence

-----------------------------------------------------------------------------
(* The story. *)

\* What is open is not remembered as ended.
Apart == \A id \in Id : findings[id] # None => retired[id] = None

\* Told, of one finding and of the time it ended.
PhaseOf(f, r) ==
  IF f = None THEN IF r = None THEN "absent" ELSE "retired"
  ELSE IF f.stale THEN "stale" ELSE "open"

LEMMA ToldIs ==
  /\ \A id \in Id : Told[id] = PhaseOf(findings[id], retired[id])
  /\ Told \in [Id -> Story!Phase]
<1>1. \A id \in Id : Told[id] = PhaseOf(findings[id], retired[id])
  BY DEF Told, PhaseOf
<1>2. \A id \in Id : Told[id] \in Story!Phase
  BY <1>1 DEF PhaseOf, Story!Phase
<1> QED BY <1>1, <1>2 DEF Told

LEMMA ToldIsThen ==
  /\ \A id \in Id : Told'[id] = PhaseOf(findings'[id], retired'[id])
  /\ Told' \in [Id -> Story!Phase]
<1>1. \A id \in Id : Told'[id] = PhaseOf(findings'[id], retired'[id])
  BY DEF Told, PhaseOf
<1>2. \A id \in Id : Told'[id] \in Story!Phase
  BY <1>1 DEF PhaseOf, Story!Phase
<1> QED BY <1>1, <1>2 DEF Told

\* What expire makes of a finding and announces of it.
LEMMA ExpireTold ==
  ASSUME NEW f \in Finding
  PROVE  /\ Overdue(f) => /\ PhaseOf(f, None) = "open"
                          /\ PhaseOf(ExpiredFinding(f), None) = "stale"
         /\ ~Overdue(f) => ExpiredFinding(f) = f
<1>1. f # None /\ f.stale \in BOOLEAN
  BY NoneAssumption DEF Finding
<1>2. ASSUME Overdue(f) PROVE ExpiredFinding(f).stale = TRUE
  BY <1>2 DEF ExpiredFinding, Finding
<1>3. ExpiredFinding(f) # None
  BY ExpiredFindingType, <1>1
<1> QED BY <1>1, <1>2, <1>3 DEF PhaseOf, Overdue, ExpiredFinding

\* A verdict is given only on an observation that is not too old, so that what it opens or
\* refreshes is not overdue in the same step.
LEMMA JudgedInTime ==
  ASSUME TypeOK, NEW c, Input(c), Faithful(c), NEW id \in Id
  PROVE  /\ id \in Asserted(c) => ~Overdue(Raised(c, id)) /\ Raised(c, id).stale = FALSE
         /\ Cleared(c, id) => /\ ~Overdue(Refreshed(findings[id], c.obs[id[1]]))
                              /\ Refreshed(findings[id], c.obs[id[1]]).stale = FALSE
<1> DEFINE at == c.obs[id[1]]
<1>0. now \in Int /\ Freshness \in Int
  BY ConstantsAssumption DEF TypeOK, Time
<1>1. ASSUME at \in Time, ~Aged(at) PROVE ~(now > at + Freshness)
  BY <1>0, <1>1 DEF Aged, Time
<1>2. ASSUME id \in Asserted(c)
      PROVE  ~Overdue(Raised(c, id)) /\ Raised(c, id).stale = FALSE
  <2>1. at \in Time /\ id \in Faulty(c.verdict)
    BY <1>2, FaultFacts DEF Asserted, Input
  <2>2. id[1] \in DOMAIN c.verdict /\ id[2] \in Rule /\ c.verdict[id[1]].faults[id[2]] > 0
    BY <2>1 DEF Faulty, Id
  <2>3. ~Aged(at)
    BY <2>2 DEF Faithful
  <2>4. Raised(c, id).until = at + Freshness /\ Raised(c, id).stale = FALSE
    BY DEF Raised
  <2> QED BY <1>1, <2>1, <2>3, <2>4 DEF Overdue
<1>3. ASSUME Cleared(c, id)
      PROVE  /\ ~Overdue(Refreshed(findings[id], at))
             /\ Refreshed(findings[id], at).stale = FALSE
  <2>1. at \in Time /\ id[1] \in DOMAIN c.verdict /\ c.verdict[id[1]].clear
    BY <1>3, ClearedFacts DEF Cleared
  <2>2. ~Aged(at)
    BY <2>1 DEF Faithful
  <2>3. Refreshed(findings[id], at).until = at + Freshness
        /\ Refreshed(findings[id], at).stale = FALSE
    BY DEF Refreshed
  <2> QED BY <1>1, <2>1, <2>2, <2>3 DEF Overdue
<1> QED BY <1>2, <1>3

\* One comparison, as Episodes sees each finding.
LEMMA ApplyTold ==
  ASSUME TypeOK, Apart, NEW c, Input(c), Faithful(c), Apply(c), NEW id \in Id
  PROVE  /\ Story!Allowed(Told[id], emitted'[id], Told'[id])
         /\ findings'[id] # None => retired'[id] = None
<1> DEFINE ended == Recovered(c) \cup Removed(c)
           f == findings[id]
           g == Compared(c, id)
           closed == [i \in Id |-> CASE i \in Asserted(c) -> None
                                     [] i \in ended -> now
                                     [] OTHER -> retired[i]]
<1>1. findings'[id] = ExpiredFinding(g) /\ g \in Finding \cup {None}
  BY ComparedCases DEF Apply
<1>2. emitted'[id] = CASE id \in Recovered(c) -> "recovered"
                       [] id \in Removed(c) -> "removed"
                       [] id \in Asserted(c) -> Opening(c, id)
                       [] OTHER -> IF Overdue(g) THEN "stale" ELSE None
  BY DEF Apply
<1>3. PICK d \in Forgettable(closed, config.limit) : retired' = Forget(closed, d)
  BY DEF Apply
<1>4. retired'[id] = None \/ retired'[id] = closed[id]
  BY <1>3 DEF Forget
<1>5. closed[id] = CASE id \in Asserted(c) -> None [] id \in ended -> now [] OTHER -> retired[id]
  OBVIOUS
<1>6. f \in Finding \cup {None} /\ now # None /\ None \notin Kind /\ None \notin Finding
  BY NoneAssumption DEF TypeOK, Time
<1>7. Told[id] = PhaseOf(f, retired[id]) /\ Told'[id] = PhaseOf(findings'[id], retired'[id])
  BY ToldIs, ToldIsThen
<1>8. id \in Asserted(c) => id \notin Recovered(c) /\ id \notin Removed(c)
  BY FaultFacts, ClearedFacts DEF Recovered, Removed, Absent
<1>9. id \in Recovered(c) => id \notin Removed(c)
  BY ClearedFacts DEF Recovered
<1> HIDE DEF closed
<1>10. CASE id \in ended
  <2>1. g = None /\ findings'[id] = None
    BY <1>1, <1>10, ComparedCases, ExpiredFindingType
  <2>2. f # None
    BY <1>10 DEF Recovered, Removed, Cleared, Absent
  <2>3. emitted'[id] \in {"recovered", "removed"}
    <3>1. CASE id \in Recovered(c)
      BY <1>2, <1>8, <1>9, <3>1
    <3>2. CASE id \notin Recovered(c)
      <4>1. id \in Removed(c) /\ id \notin Asserted(c)
        BY <1>8, <1>10, <3>2
      <4>2. emitted'[id] = "removed"
        BY <1>2, <3>2, <4>1
      <4> QED BY <4>2
    <3> QED BY <3>1, <3>2
  <2>4. Told[id] \in {"open", "stale"} /\ Told'[id] \in {"retired", "absent"}
    BY <1>7, <2>1, <2>2 DEF PhaseOf
  <2> QED BY <2>1, <2>3, <2>4 DEF Story!Allowed
<1>11. CASE id \in Asserted(c)
  <2>1. g = Raised(c, id) /\ findings'[id] = g /\ g # None /\ g.stale = FALSE
    <3>1. g = Raised(c, id) /\ Raised(c, id) \in Finding
      BY <1>11, ComparedCases, FaultFacts
    <3>2. ~Overdue(Raised(c, id)) /\ Raised(c, id).stale = FALSE
      BY <1>11, JudgedInTime
    <3> HIDE DEF g
    <3> QED BY <1>1, <1>6, <3>1, <3>2, ExpireTold
  <2>2. retired'[id] = None
    BY <1>4, <1>5, <1>8, <1>11
  <2>3. Told'[id] = "open"
    BY <1>7, <2>1 DEF PhaseOf
  <2>4. emitted'[id] = Opening(c, id)
    BY <1>2, <1>8, <1>11
  <2>5. CASE f = None
    <3>1. CASE retired[id] = None
      BY <1>7, <2>2, <2>3, <2>4, <2>5, <3>1 DEF PhaseOf, Opening, Story!Allowed
    <3>2. CASE retired[id] # None
      BY <1>7, <2>2, <2>3, <2>4, <2>5, <3>2 DEF PhaseOf, Opening, Story!Allowed
    <3> QED BY <3>1, <3>2
  <2>6. CASE f # None /\ f.stale
    <3>1. Told[id] = "stale"
      BY <1>7, <2>6 DEF PhaseOf
    <3>2. Opening(c, id) = "reappeared"
      BY <2>6 DEF Opening
    <3> QED BY <2>2, <2>3, <2>4, <3>1, <3>2 DEF Story!Allowed
  <2>7. CASE f # None /\ ~f.stale
    <3>1. Told[id] = "open"
      BY <1>7, <2>7 DEF PhaseOf
    <3>2. Opening(c, id) \in {"worsened", None}
      BY <2>7 DEF Opening
    <3> QED BY <2>2, <2>3, <2>4, <3>1, <3>2 DEF Story!Allowed
  <2> QED BY <2>2, <2>5, <2>6, <2>7
<1>12. CASE id \notin Asserted(c) /\ id \notin ended /\ Cleared(c, id)
  <2>1. g = Refreshed(f, c.obs[id[1]]) /\ findings'[id] = g /\ g # None /\ g.stale = FALSE
        /\ ~Overdue(g)
    <3>1. g = Refreshed(f, c.obs[id[1]]) /\ Refreshed(f, c.obs[id[1]]) \in Finding
      BY <1>12, ComparedCases, ClearedFacts
    <3>2. ~Overdue(Refreshed(f, c.obs[id[1]])) /\ Refreshed(f, c.obs[id[1]]).stale = FALSE
      BY <1>12, JudgedInTime
    <3> HIDE DEF g
    <3> QED BY <1>1, <1>6, <3>1, <3>2, ExpireTold
  <2>2. emitted'[id] = None
    BY <1>2, <1>12, <2>1
  <2>3. f # None
    BY <1>12 DEF Cleared
  <2>4. retired'[id] = None
    BY <1>4, <1>5, <1>12, <2>3 DEF Apart
  <2>5. Told'[id] = "open" /\ Told[id] \in {"open", "stale"}
    BY <1>7, <2>1, <2>3 DEF PhaseOf
  <2> QED BY <2>2, <2>4, <2>5 DEF Story!Allowed
<1>13. CASE id \notin Asserted(c) /\ id \notin ended /\ ~Cleared(c, id)
  <2>1. g = f /\ closed[id] = retired[id]
    BY <1>5, <1>13, ComparedCases
  <2>2. emitted'[id] = IF Overdue(f) THEN "stale" ELSE None
    BY <1>2, <1>13, <2>1
  <2>3. CASE f = None
    <3>1. findings'[id] = None /\ emitted'[id] = None
      BY <1>1, <2>1, <2>2, <2>3 DEF ExpiredFinding, Overdue
    <3> QED BY <1>4, <1>7, <2>1, <2>3, <3>1 DEF PhaseOf, Story!Allowed
  <2>4. CASE f # None
    <3>1. f \in Finding /\ retired[id] = None /\ retired'[id] = None
      BY <1>4, <1>6, <2>1, <2>4 DEF Apart
    <3>2. CASE Overdue(f)
      BY <1>1, <1>7, <2>1, <2>2, <3>1, <3>2, ExpireTold DEF Story!Allowed
    <3>3. CASE ~Overdue(f)
      BY <1>1, <1>7, <2>1, <2>2, <3>1, <3>3, ExpireTold DEF Story!Allowed
    <3> QED BY <3>1, <3>2, <3>3
  <2> QED BY <2>3, <2>4
<1> QED BY <1>10, <1>11, <1>12, <1>13

\* The transitions apply, expire and a reload return, read in order, tell each finding's story:
\* an episode opens once, as "new" or "reappeared", goes stale or worsens only while it is open,
\* and closes with exactly one of "recovered" and "removed", however results, time and reloads
\* interleave (state.rs, apply and expire; state_lifecycle.rs, reconfigured and begin_run).
THEOREM StoryIsTold == Spec => StoryTold
<1> DEFINE IInv == TypeOK /\ Apart
<1>1. Init => IInv /\ Story!Init
  <2> SUFFICES ASSUME Init PROVE Apart /\ Story!Init
    BY InitType
  <2>1. findings = Quiet /\ retired = Quiet /\ emitted = Quiet
    BY DEF Init
  <2>2. \A id \in Id : Told[id] = "absent"
    BY <2>1, ToldIs DEF PhaseOf, Quiet
  <2>3. Told = [id \in Id |-> "absent"]
    BY <2>2 DEF Told
  <2> QED BY <2>1, <2>3 DEF Apart, Quiet, Story!Init
<1>2. IInv /\ [Next]_vars => IInv' /\ [Story!Next]_Story!vars
  <2> SUFFICES ASSUME IInv, [Next]_vars PROVE Apart' /\ [Story!Next]_Story!vars
    BY NextType
  <2>0. TypeOK' /\ Told \in [Id -> Story!Phase] /\ Told' \in [Id -> Story!Phase]
    BY NextType, ToldIs, ToldIsThen
  <2>1. ASSUME NEW j \in config.selected, Check(j)
        PROVE  Apart' /\ Story!Next
    <3>1. PICK c : Input(c) /\ Faithful(c) /\ Apply(c)
      BY <2>1, CheckInput
    <3>2. DOMAIN emitted' = Id
      BY <2>0 DEF TypeOK
    <3> QED BY <2>0, <3>1, <3>2, ApplyTold DEF Apart, Story!Next, Story!Report
  <2>2. CASE Expire
    <3>1. ASSUME NEW id \in Id
          PROVE  /\ Story!Allowed(Told[id], emitted'[id], Told'[id])
                 /\ findings'[id] # None => retired'[id] = None
      <4>1. /\ findings'[id] = ExpiredFinding(findings[id])
            /\ emitted'[id] = IF Overdue(findings[id]) THEN "stale" ELSE None
            /\ retired'[id] = retired[id]
        BY <2>2 DEF Expire
      <4>2. Told[id] = PhaseOf(findings[id], retired[id])
            /\ Told'[id] = PhaseOf(findings'[id], retired'[id])
        BY ToldIs, ToldIsThen
      <4>3. CASE findings[id] = None
        BY <4>1, <4>2, <4>3 DEF ExpiredFinding, Overdue, Story!Allowed
      <4>4. CASE findings[id] # None
        <5>1. findings[id] \in Finding /\ retired[id] = None /\ retired'[id] = None
          BY <4>1, <4>4 DEF Apart, TypeOK
        <5>2. CASE Overdue(findings[id])
          BY <4>1, <4>2, <5>1, <5>2, ExpireTold DEF Story!Allowed
        <5>3. CASE ~Overdue(findings[id])
          BY <4>1, <4>2, <5>1, <5>3, ExpireTold DEF Story!Allowed
        <5> QED BY <5>1, <5>2, <5>3
      <4> QED BY <4>3, <4>4
    <3>2. DOMAIN emitted' = Id
      BY <2>2 DEF Expire
    <3> QED BY <2>0, <3>1, <3>2 DEF Apart, Story!Next, Story!Report
  <2>3. ASSUME NEW cfg \in Configs, Reconfigure(cfg)
        PROVE  Apart' /\ Story!Next
    <3>1. PICK open \in SUBSET Open :
             /\ findings' = [id \in Id |-> IF id \in open THEN findings[id] ELSE None]
             /\ emitted' = Quiet
      BY <2>3 DEF Reconfigure
    <3>2. PICK ret \in {retired, Quiet} :
             \E d \in Forgettable(ret, cfg.limit) : retired' = Forget(ret, d)
      BY <2>3 DEF Reconfigure
    <3>3. ASSUME NEW id \in Id
          PROVE  /\ Told'[id] \in {Told[id], "absent"}
                 /\ findings'[id] # None => retired'[id] = None
      <4>1. findings'[id] = None \/ findings'[id] = findings[id]
        BY <3>1
      <4>2. retired'[id] = None \/ retired'[id] = retired[id]
        BY <3>2 DEF Forget, Quiet
      <4>3. Told[id] = PhaseOf(findings[id], retired[id])
            /\ Told'[id] = PhaseOf(findings'[id], retired'[id])
        BY ToldIs, ToldIsThen
      <4>4. findings[id] # None => retired[id] = None
        BY DEF Apart
      <4> QED BY <4>1, <4>2, <4>3, <4>4 DEF PhaseOf
    <3> QED BY <2>0, <3>1, <3>3 DEF Apart, Quiet, Story!Next, Story!Rescope
  <2>4. CASE Tick \/ BeginRun
    <3>1. findings' = findings /\ retired' = retired /\ emitted' = Quiet
      BY <2>4 DEF Tick, BeginRun
    <3>2. Told' = Told
      BY <3>1 DEF Told
    <3>3. \A id \in Id : emitted'[id] = None
      BY <3>1 DEF Quiet
    <3>4. DOMAIN emitted' = Id
      BY <3>1 DEF Quiet
    <3> QED BY <2>0, <3>1, <3>2, <3>3, <3>4 DEF Apart, Story!Next, Story!Report, Story!Allowed
  <2>5. CASE UNCHANGED vars
    BY <2>5 DEF vars, Apart, Told, Story!vars
  <2> QED BY <2>1, <2>2, <2>3, <2>4, <2>5 DEF Next
<1> QED BY <1>1, <1>2, PTL DEF Spec, StoryTold, Story!Spec

-----------------------------------------------------------------------------
(* Health.  Between the results of one check, "healthy" rests on a complete *)
(* reading that lists the resource.                                        *)

\* What a complete operation lists was read with it.
Dated(res) ==
    \A j \in Job, r \in Resource :
        res[j].obs[r] # None /\ Complete(res[j].ops, OpOf[r]) =>
            res[j].obs[r] = res[j].ops[OpOf[r]].at

Supported(res, hlth) ==
    \A r \in Resource : hlth[r] = "healthy" =>
        \E j \in Job : res[j].obs[r] # None /\ Complete(res[j].ops, OpOf[r])

\* State::expire degrades an operation no later than what is healthy by it.
LEMMA ExpirySupported ==
  ASSUME NEW res \in [Job -> Result], NEW hlth \in [Resource -> Health \cup {None}],
         now \in Time, Dated(res), Supported(res, hlth)
  PROVE  /\ Dated(ExpiredResults(res, hlth))
         /\ Supported(ExpiredResults(res, hlth), ExpiredHealth(res, hlth))
<1> DEFINE ops(j) == ExpiredOps(res[j], hlth)
           after == ExpiredResults(res, hlth)
<1>0. OpOf \in [Resource -> Op]
  BY ConstantsAssumption
<1>1. ASSUME NEW j \in Job
      PROVE  after[j].ops = ops(j) /\ after[j].obs = res[j].obs
  BY DEF ExpiredResults
<1>2. ASSUME NEW j \in Job, NEW o \in Op, Complete(ops(j), o)
      PROVE  Complete(res[j].ops, o) /\ ops(j)[o] = res[j].ops[o]
  <2>1. res[j].ops[o] \in Reading \cup {None}
    BY DEF Result
  <2>2. Complete(res[j].ops, o) => Degraded(res[j].ops[o]).complete = FALSE
    BY <2>1 DEF Degraded, Reading, Complete
  <2> QED BY <1>2, <2>1, <2>2 DEF ExpiredOps, Complete
<1>3. Dated(after)
  <2> SUFFICES ASSUME NEW j \in Job, NEW r \in Resource,
                      after[j].obs[r] # None, Complete(after[j].ops, OpOf[r])
               PROVE  after[j].obs[r] = after[j].ops[OpOf[r]].at
    BY DEF Dated
  <2>1. OpOf[r] \in Op
    BY <1>0
  <2> QED BY <1>1, <1>2, <2>1 DEF Dated
<1>4. Supported(after, ExpiredHealth(res, hlth))
  <2> SUFFICES ASSUME NEW r \in Resource, ExpiredHealth(res, hlth)[r] = "healthy"
               PROVE  \E j \in Job : after[j].obs[r] # None /\ Complete(after[j].ops, OpOf[r])
    BY DEF Supported
  <2> DEFINE old == \E j \in Job : res[j].obs[r] # None /\ Aged(res[j].obs[r])
  <2>0. ExpiredHealth(res, hlth)[r] =
           IF hlth[r] # None /\ old THEN "unknown" ELSE hlth[r]
    BY DEF ExpiredHealth
  <2>1. hlth[r] = "healthy" /\ ~old
    <3> HIDE DEF old
    <3> QED BY <2>0, NoneAssumption DEF Health
  <2>2. PICK j \in Job : res[j].obs[r] # None /\ Complete(res[j].ops, OpOf[r])
    BY <2>1 DEF Supported
  <2>3. OpOf[r] \in Op
    BY <1>0
  <2>4. res[j].ops[OpOf[r]].at = res[j].obs[r] /\ ~Aged(res[j].obs[r])
    BY <2>1, <2>2 DEF Dated
  <2>5. ASSUME NEW q \in Resource, OpOf[q] = OpOf[r], res[j].obs[q] # None
        PROVE  ~Aged(res[j].obs[q])
    BY <2>2, <2>4, <2>5 DEF Dated
  <2>6. ops(j)[OpOf[r]] = res[j].ops[OpOf[r]]
    BY <2>3, <2>4, <2>5 DEF ExpiredOps
  <2>7. Complete(after[j].ops, OpOf[r])
    BY <1>1, <2>2, <2>6 DEF Complete
  <2> QED BY <1>1, <2>2, <2>7
<1> QED BY <1>3, <1>4

\* One comparison, of the only check.
LEMMA ApplySupported ==
  ASSUME \A j, k \in Job : j = k, TypeOK, NEW c, Input(c), Faithful(c), Apply(c),
         Dated(results)
  PROVE  Dated(results)' /\ Supported(results, health)'
<1> DEFINE updated == [results EXCEPT ![c.job] = Stored(c)]
           judged == HealthOf([r \in Resource |-> Judged(c, r)], Observed(updated, Job))
<1>0. OpOf \in [Resource -> Op] /\ c.job \in Job /\ \A j \in Job : j = c.job
  BY ConstantsAssumption DEF Input
<1>1. Stored(c) \in Result
  <2>1. ASSUME NEW o \in Op, c.merged[o] # None
        PROVE  Degraded(c.merged[o]) \in Reading
    <3>1. c.merged[o] \in Reading
      BY <2>1 DEF Input
    <3> QED BY <3>1 DEF Degraded, Reading
  <2> QED BY <2>1 DEF Stored, Result, Input
<1>2. updated \in [Job -> Result] /\ updated[c.job] = Stored(c)
  BY <1>0, <1>1 DEF TypeOK
<1>3. judged \in [Resource -> Health \cup {None}]
  <2>1. ASSUME NEW r \in Resource
        PROVE  Judged(c, r) \in Health \cup {None}
    BY DEF Judged, TypeOK, Health
  <2> QED BY <2>1 DEF HealthOf
<1>4. ASSUME NEW o \in Op
      PROVE  /\ Complete(Stored(c).ops, o) => Trusted(c, o)
             /\ Trusted(c, o) => /\ Complete(Stored(c).ops, o)
                                /\ Stored(c).ops[o] = c.merged[o]
  <2>1. c.merged[o] \in Reading \cup {None}
    BY DEF Input
  <2>2. c.merged[o] # None => Degraded(c.merged[o]).complete = FALSE
    BY <2>1 DEF Degraded, Reading
  <2> QED BY <2>1, <2>2 DEF Stored, Complete, Trusted
<1>5. Stored(c).obs = c.obs
  BY DEF Stored
<1>6. Dated(updated)
  <2> SUFFICES ASSUME NEW r \in Resource, c.obs[r] # None, Complete(Stored(c).ops, OpOf[r])
               PROVE  c.obs[r] = Stored(c).ops[OpOf[r]].at
    BY <1>0, <1>2, <1>5 DEF Dated
  <2>1. OpOf[r] \in Op /\ r \in DOMAIN c.verdict
    BY <1>0 DEF Faithful
  <2>2. Complete(c.merged, OpOf[r]) /\ Stored(c).ops[OpOf[r]] = c.merged[OpOf[r]]
    BY <1>4, <2>1 DEF Trusted
  <2> QED BY <2>1, <2>2 DEF Input, Faithful
<1>7. Supported(updated, judged)
  <2> SUFFICES ASSUME NEW r \in Resource, judged[r] = "healthy"
               PROVE  c.obs[r] # None /\ Complete(Stored(c).ops, OpOf[r])
    BY <1>0, <1>2, <1>5 DEF Supported
  <2>1. r \in Observed(updated, Job) /\ Judged(c, r) = "healthy"
    BY NoneAssumption DEF HealthOf, Health
  <2>2. c.obs[r] # None
    BY <1>0, <1>2, <1>5, <2>1 DEF Observed
  <2>3. r \in DOMAIN c.verdict
    BY <2>2 DEF Faithful
  <2>4. Trusted(c, OpOf[r])
    BY <2>1, <2>3 DEF Judged
  <2> QED BY <1>0, <1>4, <2>2, <2>4
<1>8. results' = ExpiredResults(updated, judged) /\ health' = ExpiredHealth(updated, judged)
  BY DEF Apply
<1> HIDE DEF updated, judged
<1>9. now \in Time
  BY DEF TypeOK
<1>10. /\ Dated(ExpiredResults(updated, judged))
       /\ Supported(ExpiredResults(updated, judged), ExpiredHealth(updated, judged))
  BY <1>2, <1>3, <1>6, <1>7, <1>9, ExpirySupported
<1> QED BY <1>8, <1>10 DEF Dated, Supported

\* A resource of a target with one check is shown healthy only while the result holds a
\* complete reading that lists it, through withdrawals, expiry and reloads.
THEOREM HealthIsSupported ==
  ASSUME \A j, k \in Job : j = k
  PROVE  Spec => []HealthySupported
<1> DEFINE IInv == TypeOK /\ Dated(results) /\ Supported(results, health)
<1>0. \A j, k \in Job : j = k
  OBVIOUS
<1>1. Init => IInv
  BY InitType, NoneAssumption DEF Init, Empty, Dated, Supported, Health
<1>2. IInv /\ [Next]_vars => IInv'
  <2> SUFFICES ASSUME IInv, [Next]_vars PROVE Dated(results)' /\ Supported(results, health)'
    BY NextType
  <2>1. ASSUME NEW j \in config.selected, Check(j)
        PROVE  Dated(results)' /\ Supported(results, health)'
    <3>1. PICK c : Input(c) /\ Faithful(c) /\ Apply(c)
      BY <2>1, CheckInput
    <3> QED BY <1>0, <3>1, ApplySupported
  <2>2. CASE Expire
    <3>1. results' = ExpiredResults(results, health) /\ health' = ExpiredHealth(results, health)
      BY <2>2 DEF Expire
    <3>2. /\ Dated(ExpiredResults(results, health))
          /\ Supported(ExpiredResults(results, health), ExpiredHealth(results, health))
      BY ExpirySupported DEF TypeOK
    <3> QED BY <3>1, <3>2 DEF Dated, Supported
  <2>3. ASSUME NEW cfg \in Configs, Reconfigure(cfg)
        PROVE  Dated(results)' /\ Supported(results, health)'
    <3>1. PICK dropped \in SUBSET Job, rs \in SUBSET Resource :
             /\ results' = [j \in Job |-> IF j \in dropped THEN Empty ELSE results[j]]
             /\ health' = HealthOf(health, rs)
             /\ \A r \in rs : \E j \in Job : results'[j].obs[r] # None
      <4> DEFINE gone == (Job \ cfg.selected)
                        \cup {j \in cfg.selected : \/ j \notin config.selected
                                                    \/ cfg.observes[j] # config.observes[j]}
                        \cup (IF cfg.scope # config.scope THEN Job ELSE {})
                 kept == [j \in Job |-> IF j \in gone THEN Empty ELSE results[j]]
                 sight == Observed(kept, cfg.selected \cap cfg.assessed)
      <4>1. cfg.selected \subseteq Job
        BY ConstantsAssumption DEF Config
      <4>2. gone \subseteq Job /\ sight \subseteq Resource
        BY <4>1 DEF Observed
      <4>3. results' = kept /\ health' = HealthOf(health, sight)
        BY <2>3 DEF Reconfigure
      <4>4. \A r \in sight : \E j \in Job : results'[j].obs[r] # None
        BY <4>1, <4>3 DEF Observed
      <4> HIDE DEF gone, sight
      <4> QED BY <4>2, <4>3, <4>4
    <3>2. \A j \in Job : results'[j] = Empty \/ results'[j] = results[j]
      BY <3>1
    <3>3. \A r \in Resource : Empty.obs[r] = None
      BY DEF Empty
    <3>4. Dated(results)'
      BY <3>2, <3>3 DEF Dated
    <3>5. Supported(results, health)'
      <4> SUFFICES ASSUME NEW r \in Resource, health'[r] = "healthy"
                   PROVE  \E j \in Job : /\ results'[j].obs[r] # None
                                         /\ Complete(results'[j].ops, OpOf[r])
        BY DEF Supported
      <4>1. r \in rs /\ health[r] = "healthy"
        BY <3>1, NoneAssumption DEF HealthOf, Health
      <4>2. PICK j \in Job : results'[j].obs[r] # None
        BY <3>1, <4>1
      <4>3. results'[j] = results[j]
        BY <3>2, <3>3, <4>2
      <4>4. PICK k \in Job : results[k].obs[r] # None /\ Complete(results[k].ops, OpOf[r])
        BY <4>1 DEF Supported
      <4>5. k = j
        BY <1>0
      <4> QED BY <4>2, <4>3, <4>4, <4>5
    <3> QED BY <3>4, <3>5
  <2>4. CASE BeginRun
    <3>1. /\ results' = [j \in Job |-> Empty]
          /\ health' = [r \in Resource |-> None]
      BY <2>4 DEF BeginRun
    <3> QED BY <3>1, NoneAssumption DEF Empty, Dated, Supported, Health
  <2>5. CASE Tick \/ UNCHANGED vars
    BY <2>5 DEF Tick, vars, Dated, Supported
  <2> QED BY <2>1, <2>2, <2>3, <2>4, <2>5 DEF Next
<1>3. IInv => HealthySupported
  BY DEF Supported, HealthySupported
<1> QED BY <1>1, <1>2, <1>3, PTL DEF Spec
=============================================================================
