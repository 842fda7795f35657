--------------------------- MODULE AccountsProofs ---------------------------
(***************************************************************************)
(* The two counters.                                                       *)
(*                                                                         *)
(* The journal accounts for every record and reports every loss once, as   *)
(* long as its worker lives: for any number of records, any sizes of the   *)
(* queue, and any number of failures, commits of unknown outcome and       *)
(* rejected batches.                                                       *)
(*                                                                         *)
(* A record is in one place only - the draft, the queue, the worker's      *)
(* batch or the database - except that a batch whose commit has not been   *)
(* confirmed may be in the database already.                               *)
(***************************************************************************)
EXTENDS Journal, Budget, FiniteSetTheorems, FunctionTheorems, SequenceTheorems, TLAPS

-----------------------------------------------------------------------------
(* Where records are. *)

Hold(b) == IF b = None THEN {} ELSE b.records
Records(q) == UNION {q[i].records : i \in DOMAIN q}
Distinct(q) == \A i, j \in DOMAIN q : i # j => q[i].records \cap q[j].records = {}
Fresh(b) == b # None => b.gap = 0 /\ ~b.written

All == stored \cup Hold(draft) \cup Hold(batch) \cup Records(queue)

Shape ==
    /\ submitted \in 0 .. MaxRecords
    /\ draft \in Batch \cup {None}
    /\ batch \in Batch \cup {None}
    /\ queue \in Seq(Batch)
    /\ pending \in Nat /\ dropped \in Nat /\ reported \in Nat
    /\ worker \in Worker
    /\ flusher \in Flusher
    /\ stored \subseteq Record

\* outstanding counts the batches there are.
Outstanding ==
    outstanding = Len(queue) + (IF draft # None THEN 1 ELSE 0) + (IF batch # None THEN 1 ELSE 0)

\* Where the worker has a batch.
Located ==
    /\ worker \in {"starting", "top", "waiting"} => batch = None
    /\ worker \in {"taken", "writing"} => batch # None

\* What has not been tried carries no gap yet and is not written.
Untried ==
    /\ worker = "taken" => Fresh(batch)
    /\ Fresh(draft)
    /\ \A i \in DOMAIN queue : Fresh(queue[i])

\* Nothing is in two places.
Apart ==
    /\ Hold(draft) \cap Hold(batch) = {}
    /\ Hold(draft) \cap Records(queue) = {}
    /\ Hold(batch) \cap Records(queue) = {}
    /\ stored \cap (Hold(draft) \cup Records(queue)) = {}
    /\ batch # None /\ ~batch.written => stored \cap Hold(batch) = {}
    /\ Distinct(queue)

\* Everything submitted is somewhere, or dropped.
Counted ==
    /\ All \subseteq 1 .. submitted
    /\ Cardinality(All) + dropped = submitted

\* A flush that counted nothing outstanding leaves nothing to write.
Flushed ==
    /\ flusher # "off" => draft = None
    /\ flusher \in {"half", "clean"} => queue = <<>> /\ Hold(batch) = {}

Books == worker # "ended" => Untried /\ Apart /\ Counted /\ LossesReported /\ Flushed

IInv == Shape /\ Outstanding /\ Located /\ Books

-----------------------------------------------------------------------------
(* Sets and queues. *)

LEMMA Together ==
  ASSUME NEW S, NEW T, IsFiniteSet(S), IsFiniteSet(T), S \cap T = {}
  PROVE  /\ Cardinality(S \cup T) = Cardinality(S) + Cardinality(T)
         /\ Cardinality(S) \in Nat /\ Cardinality(T) \in Nat
<1>1. Cardinality(S \cup T) = Cardinality(S) + Cardinality(T) - Cardinality(S \cap T)
  BY FS_Union
<1>2. Cardinality(S \cap T) = 0
  BY FS_EmptySet
<1>3. Cardinality(S) \in Nat /\ Cardinality(T) \in Nat
  BY FS_CardinalityType
<1> QED BY <1>1, <1>2, <1>3

LEMMA Appended ==
  ASSUME NEW q \in Seq(Batch), NEW b \in Batch
  PROVE  /\ Append(q, b) \in Seq(Batch)
         /\ Len(Append(q, b)) = Len(q) + 1
         /\ Records(Append(q, b)) = Records(q) \cup b.records
         /\ Distinct(q) /\ Records(q) \cap b.records = {} => Distinct(Append(q, b))
         /\ \A i \in DOMAIN Append(q, b) : (i \in DOMAIN q /\ Append(q, b)[i] = q[i])
                                            \/ Append(q, b)[i] = b
<1> DEFINE p == Append(q, b)
           n == Len(q)
<1>1. /\ p \in Seq(Batch) /\ Len(p) = n + 1
      /\ \A i \in 1 .. n : p[i] = q[i]
      /\ p[n + 1] = b
  BY AppendProperties
<1>2. DOMAIN q = 1 .. n /\ DOMAIN p = 1 .. n + 1 /\ n \in Nat
  BY <1>1, LenProperties
<1> HIDE DEF p, n
<1>3. \A i \in DOMAIN p : (i \in DOMAIN q /\ p[i] = q[i]) \/ (i = n + 1 /\ p[i] = b)
  BY <1>1, <1>2
<1>4. Records(p) = Records(q) \cup b.records
  <2>1. \A i \in DOMAIN q : i \in DOMAIN p /\ p[i] = q[i]
    BY <1>1, <1>2
  <2>2. n + 1 \in DOMAIN p /\ p[n + 1] = b
    BY <1>1, <1>2
  <2> QED BY <1>3, <2>1, <2>2 DEF Records
<1>5. ASSUME Distinct(q), Records(q) \cap b.records = {} PROVE Distinct(p)
  <2>1. \A i \in DOMAIN q : q[i].records \cap b.records = {}
    BY <1>5 DEF Records
  <2> QED BY <1>3, <1>5, <2>1 DEF Distinct
<1> QED BY <1>1, <1>3, <1>4, <1>5 DEF p, n

LEMMA Taken ==
  ASSUME NEW q \in Seq(Batch), q # <<>>
  PROVE  /\ Head(q) \in Batch
         /\ Tail(q) \in Seq(Batch)
         /\ Len(Tail(q)) = Len(q) - 1
         /\ Records(q) = Head(q).records \cup Records(Tail(q))
         /\ Distinct(q) => Head(q).records \cap Records(Tail(q)) = {} /\ Distinct(Tail(q))
         /\ 1 \in DOMAIN q /\ Head(q) = q[1]
         /\ \A i \in DOMAIN Tail(q) : i + 1 \in DOMAIN q /\ Tail(q)[i] = q[i + 1]
<1> DEFINE t == Tail(q)
           n == Len(q)
<1>1. /\ Head(q) \in Batch /\ t \in Seq(Batch) /\ Len(t) = n - 1
      /\ \A i \in 1 .. Len(t) : t[i] = q[i + 1]
  BY HeadTailProperties
<1>2. n \in Nat \ {0} /\ DOMAIN q = 1 .. n /\ DOMAIN t = 1 .. n - 1 /\ Head(q) = q[1]
  BY <1>1, LenProperties, EmptySeq
<1> HIDE DEF t, n
<1>3. \A i \in DOMAIN t : i + 1 \in DOMAIN q /\ i + 1 # 1 /\ t[i] = q[i + 1]
  BY <1>1, <1>2
<1>4. \A i \in DOMAIN q : i = 1 \/ (i - 1 \in DOMAIN t /\ q[i] = t[i - 1])
  BY <1>1, <1>2
<1>5. 1 \in DOMAIN q
  BY <1>2
<1>6. Records(q) = Head(q).records \cup Records(t)
  <2>1. Records(t) \subseteq Records(q) /\ Head(q).records \subseteq Records(q)
    BY <1>2, <1>3, <1>5 DEF Records
  <2>2. Records(q) \subseteq Head(q).records \cup Records(t)
    BY <1>2, <1>4 DEF Records
  <2> QED BY <2>1, <2>2
<1>7. ASSUME Distinct(q) PROVE Head(q).records \cap Records(t) = {} /\ Distinct(t)
  <2>1. Head(q).records \cap Records(t) = {}
    BY <1>2, <1>3, <1>5, <1>7 DEF Distinct, Records
  <2>2. ASSUME NEW i \in DOMAIN t, NEW j \in DOMAIN t, i # j
        PROVE  t[i].records \cap t[j].records = {}
    <3>1. i + 1 # j + 1 /\ i + 1 \in DOMAIN q /\ j + 1 \in DOMAIN q
      BY <1>2, <1>3, <2>2
    <3> QED BY <1>3, <1>7, <3>1 DEF Distinct
  <2> QED BY <2>1, <2>2 DEF Distinct
<1> QED BY <1>1, <1>2, <1>3, <1>5, <1>6, <1>7 DEF t, n

LEMMA InHandIs ==
  ASSUME Shape
  PROVE  stored \cup InHand = All
<1> DEFINE h == UNION {b.records : b \in Held}
<1>1. h = Hold(draft) \cup Hold(batch)
  BY DEF Held, Hold
<1>2. InHand = h \cup Records(queue)
  BY Zenon DEF InHand, Records
<1> HIDE DEF h
<1> QED BY <1>1, <1>2 DEF All

LEMMA AllFinite ==
  ASSUME Shape
  PROVE  /\ IsFiniteSet(stored) /\ IsFiniteSet(Hold(draft)) /\ IsFiniteSet(Hold(batch))
         /\ IsFiniteSet(Records(queue)) /\ IsFiniteSet(All)
         /\ stored \subseteq Record /\ Hold(draft) \subseteq Record
         /\ Hold(batch) \subseteq Record /\ Records(queue) \subseteq Record
<1>1. IsFiniteSet(Record)
  BY ConstantsAssumption, FS_Interval DEF Record
<1>2. stored \in SUBSET Record /\ Hold(draft) \in SUBSET Record /\ Hold(batch) \in SUBSET Record
  BY DEF Shape, Hold, Batch
<1>3. Records(queue) \in SUBSET Record
  <2>1. \A i \in DOMAIN queue : queue[i] \in Batch
    BY LenProperties, ElementOfSeq DEF Shape
  <2> QED BY <2>1 DEF Records, Batch
<1>4. All \in SUBSET Record
  BY <1>2, <1>3 DEF All
<1> QED BY <1>1, <1>2, <1>3, <1>4, FS_Subset

\* What an update leaves in the draft, and what it counts as lost.
LEMMA AdmitFacts ==
  ASSUME Shape, NEW n \in 0 .. MaxBatch, Admit(n)
  PROVE  \E new \in SUBSET (submitted + 1 .. submitted + n) :
            /\ draft' = BatchOf(new)
            /\ IsFiniteSet(new) /\ Cardinality(new) \in Nat /\ n - Cardinality(new) \in Nat
            /\ pending' = pending + (n - Cardinality(new))
            /\ dropped' = dropped + (n - Cardinality(new))
<1>1. PICK valid, refused :
         /\ valid \subseteq submitted + 1 .. submitted + n
         /\ draft' = BatchOf(valid \ refused)
         /\ Drop(n - Cardinality(valid \ refused))
  BY DEF Admit
<1> DEFINE new == valid \ refused
<1>2. submitted \in Int /\ n \in Nat /\ new \in SUBSET (submitted + 1 .. submitted + n)
  <2>1. submitted \in Int /\ n \in Nat
    BY ConstantsAssumption DEF Shape
  <2>2. valid \subseteq submitted + 1 .. submitted + n
    BY <1>1
  <2> QED BY <2>1, <2>2
<1>3. IsFiniteSet(submitted + 1 .. submitted + n)
      /\ Cardinality(submitted + 1 .. submitted + n) = n
  <2>1. submitted + 1 \in Int /\ submitted + n \in Int
    BY <1>2
  <2>2. Cardinality(submitted + 1 .. submitted + n)
          = IF submitted + 1 > submitted + n THEN 0
            ELSE (submitted + n) - (submitted + 1) + 1
    BY <2>1, FS_Interval
  <2> QED BY <1>2, <2>1, <2>2, FS_Interval
<1>4. IsFiniteSet(new) /\ Cardinality(new) <= n
  <2> HIDE DEF new
  <2>1. IsFiniteSet(new)
        /\ Cardinality(new) <= Cardinality(submitted + 1 .. submitted + n)
    BY <1>2, <1>3, FS_Subset
  <2> QED BY <1>3, <2>1
<1>5. Cardinality(new) \in Nat
  BY <1>4, FS_CardinalityType
<1>6. n - Cardinality(new) \in Nat
  BY <1>2, <1>4, <1>5
<1> HIDE DEF new
<1>7. draft' = BatchOf(new) /\ Drop(n - Cardinality(new))
  BY <1>1 DEF new
<1> QED BY <1>2, <1>4, <1>5, <1>6, <1>7 DEF Drop

LEMMA Sizes ==
  ASSUME Shape, NEW b \in Batch
  PROVE  Cardinality(b.records) \in Nat /\ b.gap \in Nat
<1>1. b.records \in SUBSET Record /\ b.gap \in Nat
  BY DEF Batch
<1>2. IsFiniteSet(Record)
  BY ConstantsAssumption, FS_Interval DEF Record
<1>3. IsFiniteSet(b.records)
  BY <1>1, <1>2, FS_Subset
<1> QED BY <1>1, <1>3, FS_CardinalityType

LEMMA BatchOfIs ==
  ASSUME NEW rs \in SUBSET Record
  PROVE  BatchOf(rs) \in Batch /\ BatchOf(rs) # None
<1>1. BatchOf(rs) \in Batch
  BY DEF BatchOf, Batch
<1> QED BY <1>1, NoneAssumption

-----------------------------------------------------------------------------
(* Shapes, and the batches there are. *)

LEMMA ShapeHolds ==
  ASSUME Shape, Outstanding, Located, [Next]_vars
  PROVE  Shape' /\ Outstanding'
<1> USE DEF counters, database, bounds
<1>0. /\ Len(queue) \in Nat /\ (draft # None => draft \in Batch) /\ (batch # None => batch \in Batch)
      /\ worker \in {"starting", "top", "waiting"} => batch = None
      /\ worker \in {"taken", "writing"} => batch # None
  BY DEF Shape, Located
<1>1. ASSUME NEW n \in 0 .. MaxBatch, Admit(n) PROVE Shape' /\ Outstanding'
  <2>1. PICK new \in SUBSET (submitted + 1 .. submitted + n) :
            /\ draft' = BatchOf(new) /\ n - Cardinality(new) \in Nat
            /\ pending' = pending + (n - Cardinality(new))
            /\ dropped' = dropped + (n - Cardinality(new))
    BY <1>1, AdmitFacts
  <2>2. submitted' \in 0 .. MaxRecords /\ new \subseteq Record
    BY <1>1, <2>1, ConstantsAssumption DEF Admit, Shape, Record
  <2>3. draft' \in Batch /\ draft' # None
    BY <2>1, <2>2, BatchOfIs
  <2>4. pending' \in Nat /\ dropped' \in Nat
    BY <2>1 DEF Shape
  <2>5. draft' # None /\ draft = None /\ outstanding' = outstanding + 1
    BY <1>1, <2>3 DEF Admit
  <2> QED BY <1>0, <1>1, <2>2, <2>3, <2>4, <2>5 DEF Admit, Shape, Outstanding
<1>2. CASE Send
  <2>1. draft \in Batch /\ draft # None /\ draft' = None
    BY <1>0, <1>2 DEF Send
  <2>2. CASE queue' = Append(queue, draft) /\ UNCHANGED counters
    <3>1. queue' \in Seq(Batch) /\ Len(queue') = Len(queue) + 1
      BY <2>1, <2>2, Appended DEF Shape
    <3> QED BY <1>0, <1>2, <2>1, <2>2, <3>1 DEF Send, Shape, Outstanding
  <2>3. CASE /\ UNCHANGED queue /\ outstanding' = outstanding - 1
             /\ UNCHANGED <<pending, dropped>> \/ Drop(Cardinality(draft.records))
    <3>1. pending' \in Nat /\ dropped' \in Nat
      BY <2>1, <2>3, Sizes DEF Shape, Drop
    <3> QED BY <1>0, <1>2, <2>1, <2>3, <3>1 DEF Send, Shape, Outstanding
  <2> QED BY <1>2, <2>2, <2>3 DEF Send
<1>3. CASE Start \/ Rest \/ Maintain
  BY <1>3 DEF Start, Rest, Maintain, Shape, Outstanding, Worker
<1>4. CASE Gather
  <2>1. batch' \in Batch /\ batch' # None
    <3>1. {} \in SUBSET Record
      OBVIOUS
    <3> QED BY <1>4, <3>1, BatchOfIs DEF Gather
  <2> QED BY <1>0, <1>4, <2>1 DEF Gather, Shape, Outstanding, Worker
<1>5. CASE Receive
  <2>1. batch' \in Batch /\ batch' # None /\ queue' \in Seq(Batch) /\ Len(queue') = Len(queue) - 1
    BY <1>5, Taken, NoneAssumption DEF Receive, Shape
  <2>2. /\ worker' = "taken" /\ batch = None
        /\ UNCHANGED <<submitted, draft, pending, dropped, reported, stored, flusher, outstanding>>
    BY <1>0, <1>5 DEF Receive
  <2> QED BY <1>0, <2>1, <2>2 DEF Shape, Outstanding, Worker
<1>6. CASE Swap
  <2>1. batch \in Batch /\ pending \in Nat
    BY <1>0, <1>6 DEF Swap, Shape
  <2>2. batch' \in Batch /\ batch' # None /\ batch # None
    BY <1>6, <2>1, NoneAssumption DEF Swap, Batch
  <2> QED BY <1>0, <1>6, <2>2 DEF Swap, Shape, Outstanding, Worker
<1>7. ASSUME batch \in Batch, Commit(batch) PROVE stored' \subseteq Record /\ reported' \in Nat
  BY <1>7 DEF Commit, Shape, Batch
<1>8. CASE Write
  <2>1. batch \in Batch /\ batch # None
    BY <1>0, <1>8 DEF Write
  <2> QED BY <1>0, <1>7, <1>8, <2>1 DEF Write, Shape, Outstanding, Worker
<1>9. CASE Fault
  <2>1. batch \in Batch /\ batch # None
    BY <1>0, <1>9 DEF Fault
  <2>2. batch' \in Batch /\ batch' # None /\ stored' \subseteq Record /\ reported' \in Nat
    <3>1. CASE UNCHANGED <<batch, database>>
      BY <2>1, <3>1 DEF Shape
    <3>2. CASE Commit(batch) /\ batch' = [batch EXCEPT !.written = TRUE]
      BY <1>7, <2>1, <3>2, NoneAssumption DEF Batch
    <3> QED BY <1>9, <3>1, <3>2 DEF Fault
  <2> QED BY <1>0, <1>9, <2>1, <2>2 DEF Fault, Shape, Outstanding
<1>10. CASE Reject
  <2>1. batch \in Batch /\ batch # None
    BY <1>0, <1>10 DEF Reject
  <2>2. pending' \in Nat /\ dropped' \in Nat
    <3>1. Cardinality(batch.records) \in Nat
      BY <2>1, Sizes
    <3>2. dropped' \in Nat
      BY <1>10, <3>1 DEF Reject, Shape
    <3>3. pending' \in Nat
      BY <1>10, <2>1, <3>1 DEF Reject, Restored, Shape, Batch
    <3> QED BY <3>2, <3>3
  <2> QED BY <1>0, <1>10, <2>1, <2>2 DEF Reject, Shape, Outstanding, Worker
<1>11. ASSUME Leave, draft' = draft PROVE Outstanding' /\ queue' \in Seq(Batch) /\ batch' = None
                                          /\ worker' \in Worker
  <2>1. queue' \in Seq(Batch) /\ Len(queue') = 0 /\ batch' = None /\ worker' \in Worker
    BY <1>11, EmptySeq DEF Leave, Worker
  <2>2. outstanding' = (IF draft # None THEN 1 ELSE 0)
    <3> DEFINE d == IF draft # None THEN 1 ELSE 0
               b == IF batch # None THEN 1 ELSE 0
    <3>1. d \in Nat /\ b \in Nat
      OBVIOUS
    <3>2. outstanding = Len(queue) + d + b /\ outstanding' = outstanding - Len(queue) - b
      BY <1>11 DEF Leave, Outstanding
    <3> HIDE DEF d, b
    <3>3. outstanding' = d
      BY <1>0, <3>1, <3>2
    <3> QED BY <3>3 DEF d
  <2> QED BY <1>11, <2>1, <2>2 DEF Outstanding
<1>12. CASE GiveUp
  BY <1>11, <1>12 DEF GiveUp, Shape
<1>13. CASE End
  <2>1. stored' \subseteq Record /\ reported' \in Nat
    BY <1>0, <1>7, <1>13 DEF End, Shape
  <2> QED BY <1>11, <1>13, <2>1 DEF End, Shape
<1>14. CASE Ask \/ Count \/ Decide \/ Expire \/ Stop
  BY <1>14 DEF Ask, Count, Decide, Expire, Stop, Shape, Outstanding, Flusher
<1>15. CASE UNCHANGED vars
  BY <1>15 DEF vars, Shape, Outstanding
<1> QED BY <1>1, <1>2, <1>3, <1>4, <1>5, <1>6, <1>8, <1>9, <1>10, <1>12, <1>13, <1>14, <1>15
        DEF Next

LEMMA LocatedHolds ==
  ASSUME Shape, Located, [Next]_vars
  PROVE  Located'
<1> USE DEF counters, database, bounds, Located
<1>1. ASSUME NEW n \in 0 .. MaxBatch, Admit(n) PROVE Located'
  BY <1>1 DEF Admit
<1>2. CASE Send
  BY <1>2 DEF Send
<1>3. CASE Start \/ Rest \/ Maintain
  BY <1>3 DEF Start, Rest, Maintain
<1>4. CASE Gather
  <2>1. batch' # None
    <3>1. {} \in SUBSET Record
      OBVIOUS
    <3> QED BY <1>4, <3>1, BatchOfIs DEF Gather
  <2> QED BY <1>4, <2>1 DEF Gather
<1>5. CASE Receive
  <2>1. batch' # None
    BY <1>5, Taken, NoneAssumption DEF Receive, Shape
  <2> QED BY <1>5, <2>1 DEF Receive
<1>6. CASE Swap
  <2>1. batch' # None
    BY <1>6, NoneAssumption DEF Swap, Shape, Batch
  <2> QED BY <1>6, <2>1 DEF Swap
<1>7. CASE Write \/ Reject \/ GiveUp \/ End
  BY <1>7 DEF Write, Reject, GiveUp, End, Leave
<1>8. CASE Fault
  <2>1. batch' # None
    BY <1>8, NoneAssumption DEF Fault, Shape, Batch
  <2> QED BY <1>8, <2>1 DEF Fault
<1>9. CASE Ask \/ Count \/ Decide \/ Expire \/ Stop
  BY <1>9 DEF Ask, Count, Decide, Expire, Stop
<1>10. CASE UNCHANGED vars
  BY <1>10 DEF vars
<1> QED BY <1>1, <1>2, <1>3, <1>4, <1>5, <1>6, <1>7, <1>8, <1>9, <1>10 DEF Next

-----------------------------------------------------------------------------
(* The books. *)

\* What leaves without being stored is counted as dropped.
LEMMA CountedLess ==
  ASSUME Shape, Counted, NEW S, All' \cup S = All, All' \cap S = {},
         dropped' = dropped + Cardinality(S), submitted' = submitted
  PROVE  Counted'
<1>1. IsFiniteSet(All) /\ All' \in SUBSET All /\ S \in SUBSET All
  BY AllFinite
<1>2. IsFiniteSet(All') /\ IsFiniteSet(S)
  BY <1>1, FS_Subset
<1>3. Cardinality(All' \cup S) = Cardinality(All') + Cardinality(S)
      /\ Cardinality(All') \in Nat /\ Cardinality(S) \in Nat
  BY <1>2, Together
<1>4. Cardinality(All) = Cardinality(All') + Cardinality(S)
  BY <1>3
<1>5. dropped \in Nat /\ submitted \in Int
  BY ConstantsAssumption DEF Shape
<1>6. Cardinality(All') + dropped' = submitted'
  BY <1>3, <1>4, <1>5 DEF Counted
<1>7. All' \subseteq 1 .. submitted'
  BY <1>1 DEF Counted
<1> QED BY <1>6, <1>7 DEF Counted

LEMMA AdmitBooks ==
  ASSUME Shape, Located, Untried, Apart, Counted, LossesReported, Flushed,
         NEW n \in 0 .. MaxBatch, Admit(n)
  PROVE  Untried' /\ Apart' /\ Counted' /\ LossesReported' /\ Flushed'
<1> USE DEF counters, database, bounds
<1>1. PICK new \in SUBSET (submitted + 1 .. submitted + n) :
            /\ draft' = BatchOf(new)
            /\ IsFiniteSet(new) /\ Cardinality(new) \in Nat /\ n - Cardinality(new) \in Nat
            /\ pending' = pending + (n - Cardinality(new))
            /\ dropped' = dropped + (n - Cardinality(new))
  BY AdmitFacts
<1>2. /\ draft = None /\ flusher = "off" /\ submitted' = submitted + n
      /\ UNCHANGED <<queue, worker, batch, flusher, stored, reported>>
  BY DEF Admit
<1>3. submitted \in Int /\ n \in Int /\ submitted + n <= MaxRecords /\ MaxRecords \in Int
      /\ submitted >= 0
  BY ConstantsAssumption DEF Shape, Admit
<1>4. new \in SUBSET Record
  BY <1>3 DEF Record
<1>5. draft' # None /\ draft'.records = new /\ Fresh(draft')
  BY <1>1, <1>4, BatchOfIs DEF BatchOf, Fresh
<1>6. Hold(draft) = {} /\ Hold(draft)' = new /\ Hold(batch)' = Hold(batch)
      /\ Records(queue)' = Records(queue)
  BY <1>2, <1>5 DEF Hold
<1>7. All' = All \cup new
  BY <1>2, <1>6 DEF All
<1>8. All \cap new = {}
  BY <1>3 DEF Counted
<1>9. Untried' /\ Flushed'
  BY <1>2, <1>5, <1>6 DEF Untried, Flushed
<1>10. Apart'
  <2>1. stored \cap new = {} /\ Hold(batch) \cap new = {} /\ Records(queue) \cap new = {}
    BY <1>8 DEF All
  <2>2. batch # None /\ ~batch.written => stored \cap Hold(batch) = {}
    BY DEF Apart
  <2> QED BY <1>2, <1>6, <2>1, <2>2 DEF Apart
<1>11. Counted'
  <2>1. Cardinality(All \cup new) = Cardinality(All) + Cardinality(new)
        /\ Cardinality(All) \in Nat
    BY <1>1, <1>8, AllFinite, Together
  <2>2. All' \subseteq 1 .. submitted'
    BY <1>2, <1>3, <1>7 DEF Counted
  <2>3. dropped \in Nat
    BY DEF Shape
  <2>4. Cardinality(All') + dropped' = submitted'
    BY <1>1, <1>2, <1>3, <1>7, <2>1, <2>3 DEF Counted
  <2> QED BY <2>2, <2>4 DEF Counted
<1>12. LossesReported'
  <2> DEFINE g == IF batch = None \/ batch.written THEN 0 ELSE batch.gap
  <2>1. g \in Nat /\ reported \in Nat /\ pending \in Nat
    BY DEF Shape, Batch
  <2>2. worker # "ended" => dropped = reported + pending + g
    BY DEF LossesReported
  <2> HIDE DEF g
  <2>3. worker # "ended" => dropped' = reported + pending' + g
    BY <1>1, <2>1, <2>2
  <2>4. worker' = worker /\ reported' = reported /\ g' = g
    BY <1>2 DEF g
  <2> QED BY <2>3, <2>4 DEF LossesReported, g
<1> QED BY <1>9, <1>10, <1>11, <1>12

LEMMA SendBooks ==
  ASSUME Shape, Located, Untried, Apart, Counted, LossesReported, Flushed, Send
  PROVE  Untried' /\ Apart' /\ Counted' /\ LossesReported' /\ Flushed'
<1> USE DEF counters, database, bounds
<1>1. /\ draft # None /\ draft \in Batch /\ draft' = None /\ Hold(draft)' = {}
      /\ Hold(draft) = draft.records /\ Fresh(draft)
      /\ UNCHANGED <<submitted, worker, batch, flusher, stored, reported>>
      /\ Hold(batch)' = Hold(batch)
  BY DEF Send, Hold, Shape, Untried
<1>2. flusher = "off"
  BY <1>1 DEF Flushed
<1>3. CASE queue' = Append(queue, draft) /\ UNCHANGED counters
  <2>1. /\ Records(queue') = Records(queue) \cup Hold(draft)
        /\ Distinct(queue')
        /\ \A i \in DOMAIN queue' : (i \in DOMAIN queue /\ queue'[i] = queue[i]) \/ queue'[i] = draft
    <3>1. queue \in Seq(Batch) /\ Distinct(queue) /\ Records(queue) \cap draft.records = {}
      BY <1>1 DEF Shape, Apart
    <3> QED BY <1>1, <1>3, <3>1, Appended
  <2>2. All' = All
    BY <1>1, <2>1 DEF All
  <2>3. Untried'
    BY <1>1, <2>1 DEF Untried, Fresh
  <2>4. Apart'
    BY <1>1, <2>1 DEF Apart
  <2>5. Counted' /\ LossesReported' /\ Flushed'
    BY <1>1, <1>2, <1>3, <2>2 DEF Counted, LossesReported, Flushed
  <2> QED BY <2>3, <2>4, <2>5
<1>4. CASE UNCHANGED queue /\ \/ draft.records = {} /\ UNCHANGED <<pending, dropped>>
                              \/ Drop(Cardinality(draft.records))
  <2>1. Records(queue)' = Records(queue)
    BY <1>4
  <2>2. Untried' /\ Apart' /\ Flushed'
    BY <1>1, <1>2, <1>4, <2>1 DEF Untried, Apart, Flushed, Fresh
  <2>3. All' \cup Hold(draft) = All /\ All' \cap Hold(draft) = {}
    BY <1>1, <2>1 DEF All, Apart
  <2>4. CASE draft.records = {} /\ UNCHANGED <<pending, dropped>>
    <3>1. All' = All
      BY <1>1, <2>3, <2>4
    <3> QED BY <1>1, <2>2, <2>4, <3>1 DEF Counted, LossesReported
  <2>5. CASE Drop(Cardinality(draft.records))
    <3>1. Counted'
      BY <1>1, <2>3, <2>5, CountedLess DEF Drop
    <3>2. LossesReported'
      <4> DEFINE g == IF batch = None \/ batch.written THEN 0 ELSE batch.gap
      <4>1. g \in Nat /\ reported \in Nat /\ pending \in Nat /\ Cardinality(draft.records) \in Nat
        BY <1>1, Sizes DEF Shape, Batch
      <4>2. worker # "ended" => dropped = reported + pending + g
        BY DEF LossesReported
      <4>3. g' = g
        BY <1>1
      <4> HIDE DEF g
      <4>4. worker # "ended" => dropped' = reported + pending' + g
        BY <2>5, <4>1, <4>2 DEF Drop
      <4> QED BY <1>1, <4>3, <4>4 DEF LossesReported, g
    <3> QED BY <2>2, <3>1, <3>2
  <2> QED BY <1>4, <2>4, <2>5
<1> QED BY <1>3, <1>4 DEF Send, Idle

LEMMA ReceiveBooks ==
  ASSUME Shape, Located, Untried, Apart, Counted, LossesReported, Flushed, Receive
  PROVE  Untried' /\ Apart' /\ Counted' /\ LossesReported' /\ Flushed'
<1> USE DEF counters, database, bounds
<1>1. /\ batch = None /\ Hold(batch) = {} /\ queue \in Seq(Batch) /\ queue # <<>>
      /\ batch' = Head(queue) /\ queue' = Tail(queue) /\ worker' = "taken"
      /\ UNCHANGED <<submitted, draft, counters, flusher, database>>
      /\ Hold(draft)' = Hold(draft)
  BY DEF Receive, Located, Hold, Shape
<1>2. /\ Head(queue) \in Batch
      /\ Records(queue) = Head(queue).records \cup Records(Tail(queue))
      /\ Head(queue).records \cap Records(Tail(queue)) = {} /\ Distinct(Tail(queue))
      /\ 1 \in DOMAIN queue /\ Head(queue) = queue[1]
      /\ \A i \in DOMAIN Tail(queue) : i + 1 \in DOMAIN queue /\ Tail(queue)[i] = queue[i + 1]
  BY <1>1, Taken DEF Apart
<1>3. Fresh(batch') /\ \A i \in DOMAIN queue' : Fresh(queue'[i])
  BY <1>1, <1>2 DEF Untried
<1>4. batch' # None /\ batch'.gap = 0 /\ ~batch'.written /\ Hold(batch)' = Head(queue).records
  BY <1>1, <1>2, <1>3, NoneAssumption DEF Fresh, Hold
<1>5. Untried'
  BY <1>1, <1>3 DEF Untried
<1>6. All' = All
  BY <1>1, <1>2, <1>4 DEF All
<1>7. Apart'
  BY <1>1, <1>2, <1>4 DEF Apart
<1>8. Counted' /\ Flushed'
  BY <1>1, <1>6 DEF Counted, Flushed
<1>9. LossesReported'
  <2>1. worker # "ended" /\ dropped = reported + pending + 0
    BY <1>1 DEF LossesReported, Receive
  <2> QED BY <1>1, <1>4, <2>1 DEF LossesReported
<1> QED BY <1>5, <1>7, <1>8, <1>9

LEMMA GapBooks ==
  ASSUME Shape, Located, Untried, Apart, Counted, LossesReported, Flushed, Gather \/ Swap
  PROVE  Untried' /\ Apart' /\ Counted' /\ LossesReported' /\ Flushed'
<1> USE DEF counters, database, bounds
<1>1. CASE Gather
  <2>1. /\ batch = None /\ Hold(batch) = {} /\ worker' = "taken" /\ worker # "ended"
        /\ UNCHANGED <<submitted, draft, queue, pending, dropped, flusher, database>>
        /\ Hold(draft)' = Hold(draft) /\ Records(queue)' = Records(queue)
    BY <1>1 DEF Gather, Located, Hold
  <2>2. batch' # None /\ batch'.gap = 0 /\ ~batch'.written /\ batch'.records = {}
    <3>1. {} \in SUBSET Record
      OBVIOUS
    <3>2. BatchOf({}) # None /\ batch' = BatchOf({})
      BY <1>1, <3>1, BatchOfIs DEF Gather
    <3> QED BY <3>2 DEF BatchOf
  <2>3. Hold(batch)' = {}
    BY <2>2 DEF Hold
  <2>4. Untried' /\ Apart' /\ Flushed'
    BY <2>1, <2>2, <2>3 DEF Untried, Apart, Flushed, Fresh
  <2>5. All' = All
    BY <2>1, <2>3 DEF All
  <2>6. Counted'
    BY <2>1, <2>5 DEF Counted
  <2>7. LossesReported'
    BY <2>1, <2>2 DEF LossesReported
  <2> QED BY <2>4, <2>6, <2>7
<1>2. CASE Swap
  <2>1. /\ batch # None /\ batch \in Batch /\ batch.gap = 0 /\ ~batch.written /\ worker # "ended"
        /\ worker' = "writing" /\ batch' = [batch EXCEPT !.gap = pending] /\ pending' = 0
        /\ UNCHANGED <<submitted, draft, queue, dropped, flusher, database>>
        /\ Hold(draft)' = Hold(draft) /\ Records(queue)' = Records(queue)
    BY <1>2 DEF Swap, Located, Untried, Fresh, Shape, Hold
  <2>2. batch'.gap = pending /\ batch'.written = batch.written /\ batch'.records = batch.records
        /\ batch' # None
    <3>1. batch' \in Batch
      BY <2>1 DEF Batch, Shape
    <3> QED BY <2>1, <3>1, NoneAssumption DEF Batch
  <2>3. Hold(batch)' = Hold(batch)
    BY <2>1, <2>2 DEF Hold
  <2>4. Untried' /\ Apart' /\ Flushed'
    BY <2>1, <2>2, <2>3 DEF Untried, Apart, Flushed, Fresh
  <2>5. All' = All
    BY <2>1, <2>3 DEF All
  <2>6. Counted'
    BY <2>1, <2>5 DEF Counted
  <2>7. LossesReported'
    <3>1. dropped = reported + pending + 0 /\ reported \in Nat /\ pending \in Nat
      BY <2>1 DEF LossesReported, Shape
    <3>2. dropped' = reported' + pending' + batch'.gap
      BY <2>1, <2>2, <3>1
    <3> QED BY <2>1, <2>2, <3>2 DEF LossesReported
  <2> QED BY <2>4, <2>6, <2>7
<1> QED BY <1>1, <1>2

\* A commit puts the batch into the database, where it stays even if that is not known.
LEMMA CommitBooks ==
  ASSUME Shape, Located, Untried, Apart, Counted, LossesReported, Flushed,
         worker = "writing", worker' \in {"top", "writing"}, Commit(batch),
         batch' = None \/ batch' = [batch EXCEPT !.written = TRUE],
         UNCHANGED <<submitted, draft, queue, pending, dropped, flusher>>
  PROVE  Untried' /\ Apart' /\ Counted' /\ LossesReported' /\ Flushed'
<1>1. /\ batch # None /\ batch \in Batch /\ Hold(batch) = batch.records
      /\ Hold(draft)' = Hold(draft) /\ Records(queue)' = Records(queue)
      /\ stored' = stored \cup Hold(batch)
  BY DEF Located, Shape, Hold, Commit
<1>2. batch' # None => batch'.written /\ batch'.records = batch.records
  BY <1>1 DEF Batch
<1>3. Hold(batch)' \subseteq Hold(batch) /\ (batch' = None => Hold(batch)' = {})
      /\ (batch' # None => Hold(batch)' = Hold(batch))
  BY <1>1, <1>2 DEF Hold
<1>4. Untried'
  BY DEF Untried
<1>5. Apart'
  <2>1. stored' \cap (Hold(draft) \cup Records(queue)) = {}
    BY <1>1 DEF Apart
  <2> QED BY <1>1, <1>2, <1>3, <2>1 DEF Apart
<1>6. All' = All
  BY <1>1, <1>3 DEF All
<1>7. Counted' /\ Flushed'
  BY <1>1, <1>3, <1>6 DEF Counted, Flushed
<1>8. LossesReported'
  <2>1. batch.gap \in Nat /\ reported \in Nat /\ pending \in Nat
    BY <1>1, Sizes DEF Shape
  <2>2. batch' = None \/ batch'.written
    BY <1>2
  <2>3. dropped = reported + pending + (IF batch.written THEN 0 ELSE batch.gap)
    BY <1>1 DEF LossesReported
  <2>4. reported' = reported + (IF batch.written THEN 0 ELSE batch.gap)
    BY DEF Commit
  <2>5. dropped = reported' + pending
    BY <2>1, <2>3, <2>4
  <2>6. dropped' = reported' + pending' + 0
    BY <2>1, <2>4, <2>5
  <2> QED BY <2>2, <2>6 DEF LossesReported
<1> QED BY <1>4, <1>5, <1>7, <1>8

LEMMA RejectBooks ==
  ASSUME Shape, Located, Untried, Apart, Counted, LossesReported, Flushed, Reject
  PROVE  Untried' /\ Apart' /\ Counted' /\ LossesReported' /\ Flushed'
<1> USE DEF counters, database, bounds
<1>1. /\ batch # None /\ batch \in Batch /\ ~batch.written /\ batch' = None /\ worker' = "top"
      /\ UNCHANGED <<submitted, draft, queue, flusher, stored, reported>>
      /\ Hold(draft)' = Hold(draft) /\ Records(queue)' = Records(queue)
      /\ Hold(batch) = batch.records /\ Hold(batch)' = {}
      /\ worker # "ended"
  BY DEF Reject, Located, Shape, Hold
<1>2. /\ dropped' = dropped + Cardinality(batch.records)
      /\ pending' = pending + (Cardinality(batch.records) + batch.gap)
  BY DEF Reject, Restored
<1>3. Untried' /\ Apart' /\ Flushed'
  BY <1>1 DEF Untried, Apart, Flushed, Fresh
<1>4. All' \cup Hold(batch) = All /\ All' \cap Hold(batch) = {}
  BY <1>1 DEF All, Apart
<1>5. Counted'
  BY <1>1, <1>2, <1>4, CountedLess
<1>6. LossesReported'
  <2>1. batch.gap \in Nat /\ Cardinality(batch.records) \in Nat /\ reported \in Nat /\ pending \in Nat
    BY <1>1, Sizes DEF Shape
  <2>2. dropped = reported + pending + batch.gap
    BY <1>1 DEF LossesReported
  <2>3. dropped' = reported' + pending' + 0
    BY <1>1, <1>2, <2>1, <2>2
  <2> QED BY <1>1, <2>3 DEF LossesReported
<1> QED BY <1>3, <1>5, <1>6

\* Waiting, ticking and flushing move nothing; a flush counts what is outstanding.
LEMMA IdleBooks ==
  ASSUME Shape, Outstanding, Located, Untried, Apart, Counted, LossesReported, Flushed,
         Start \/ Rest \/ Maintain \/ Ask \/ Count \/ Decide \/ Expire \/ Stop \/ UNCHANGED vars
  PROVE  Untried' /\ Apart' /\ Counted' /\ LossesReported' /\ Flushed'
<1> USE DEF counters, database, bounds
<1>1. /\ UNCHANGED <<submitted, draft, queue, batch, pending, dropped, stored, reported>>
      /\ worker' = worker \/ (worker # "ended" /\ worker' \in {"top", "waiting"})
  BY DEF Start, Rest, Maintain, Ask, Count, Decide, Expire, Stop, vars
<1>2. /\ Hold(draft)' = Hold(draft) /\ Hold(batch)' = Hold(batch)
      /\ Records(queue)' = Records(queue) /\ All' = All
  BY <1>1 DEF Hold, Records, All
<1>3. Untried' /\ Apart' /\ Counted' /\ LossesReported'
  BY <1>1, <1>2 DEF Untried, Apart, Counted, LossesReported
<1>4. Flushed'
  <2>1. CASE Ask
    BY <1>1, <1>2, <2>1 DEF Ask, Flushed
  <2>2. CASE Count
    <3>1. queue = <<>> /\ batch = None
      <4>1. outstanding = 0 /\ Len(queue) \in Nat
        BY <2>2 DEF Count, Shape
      <4>2. Len(queue) = 0 /\ batch = None
        <5> DEFINE d == IF draft # None THEN 1 ELSE 0
                   b == IF batch # None THEN 1 ELSE 0
        <5>1. d \in Nat /\ b \in Nat /\ (batch # None => b = 1)
          OBVIOUS
        <5>2. 0 = Len(queue) + d + b
          BY <4>1 DEF Outstanding
        <5> HIDE DEF d, b
        <5> QED BY <4>1, <5>1, <5>2
      <4> QED BY <4>2, EmptySeq DEF Shape
    <3> QED BY <1>1, <1>2, <2>2, <3>1 DEF Count, Flushed, Hold
  <2>3. CASE Decide
    BY <1>1, <1>2, <2>3 DEF Decide, Flushed
  <2>4. CASE Expire
    BY <1>1, <1>2, <2>4 DEF Expire, Flushed
  <2>5. CASE UNCHANGED flusher
    BY <1>1, <1>2, <2>5 DEF Flushed
  <2> QED BY <2>1, <2>2, <2>3, <2>4, <2>5 DEF Start, Rest, Maintain, Stop, vars
<1> QED BY <1>3, <1>4

LEMMA BooksHold ==
  ASSUME IInv, [Next]_vars
  PROVE  Books'
<1> USE DEF counters, database, bounds
<1> SUFFICES ASSUME worker' # "ended"
             PROVE  Untried' /\ Apart' /\ Counted' /\ LossesReported' /\ Flushed'
  BY DEF Books
<1>1. Shape /\ Outstanding /\ Located
  BY DEF IInv
<1>2. worker # "ended"
  BY DEF Next, Admit, Send, Start, Rest, Maintain, Gather, Receive, Swap, Write, Fault, Reject,
         GiveUp, End, Leave, Ask, Count, Decide, Expire, Stop, vars
<1>3. Untried /\ Apart /\ Counted /\ LossesReported /\ Flushed
  BY <1>2 DEF IInv, Books
<1>4. ASSUME NEW n \in 0 .. MaxBatch, Admit(n)
      PROVE  Untried' /\ Apart' /\ Counted' /\ LossesReported' /\ Flushed'
  BY <1>1, <1>3, <1>4, AdmitBooks
<1>5. CASE Send
  BY <1>1, <1>3, <1>5, SendBooks
<1>6. CASE Receive
  BY <1>1, <1>3, <1>6, ReceiveBooks
<1>7. CASE Gather \/ Swap
  BY <1>1, <1>3, <1>7, GapBooks
<1>8. CASE Write
  <2>1. worker = "writing" /\ worker' = "top" /\ Commit(batch) /\ batch' = None
        /\ UNCHANGED <<submitted, draft, queue, pending, dropped, flusher>>
    BY <1>8 DEF Write
  <2> QED BY <1>1, <1>3, <2>1, CommitBooks
<1>9. CASE Fault
  <2>1. CASE UNCHANGED <<batch, database>>
    BY <1>3, <1>9, <2>1 DEF Fault, Untried, Apart, Counted, LossesReported, Flushed, All, Hold
  <2>2. CASE Commit(batch) /\ batch' = [batch EXCEPT !.written = TRUE]
    <3>1. worker = "writing" /\ worker' = "writing"
          /\ UNCHANGED <<submitted, draft, queue, pending, dropped, flusher>>
      BY <1>9 DEF Fault
    <3> QED BY <1>1, <1>3, <2>2, <3>1, CommitBooks
  <2> QED BY <1>9, <2>1, <2>2 DEF Fault
<1>10. CASE Reject
  BY <1>1, <1>3, <1>10, RejectBooks
<1>11. CASE GiveUp \/ End
  BY <1>11 DEF GiveUp, End, Leave
<1>12. CASE Start \/ Rest \/ Maintain \/ Ask \/ Count \/ Decide \/ Expire \/ Stop \/ UNCHANGED vars
  BY <1>1, <1>3, <1>12, IdleBooks
<1> QED BY <1>4, <1>5, <1>6, <1>7, <1>8, <1>9, <1>10, <1>11, <1>12 DEF Next

LEMMA InitHolds == Init => IInv
<1> SUFFICES ASSUME Init PROVE IInv
  OBVIOUS
<1> USE DEF Init
<1>1. queue \in Seq(Batch) /\ Len(queue) = 0 /\ DOMAIN queue = {}
  BY EmptySeq
<1>2. Shape
  BY <1>1, ConstantsAssumption DEF Shape, Worker, Flusher
<1>3. Outstanding /\ Located
  BY <1>1 DEF Outstanding, Located
<1>4. All = {} /\ Cardinality(All) = 0
  BY <1>1, FS_EmptySet DEF All, Hold, Records
<1>5. Untried /\ Apart /\ LossesReported /\ Flushed
  BY <1>1 DEF Untried, Apart, LossesReported, Flushed, Fresh, Hold, Records, Distinct
<1>6. Counted
  BY <1>4 DEF Counted
<1> QED BY <1>2, <1>3, <1>5, <1>6 DEF IInv, Books

\* While the worker lives, every record handed to the journal is in the database, on its way there
\* or counted as dropped, and what the counters show is what the gaps report or will: for any
\* number of records, queue sizes, failed or unconfirmed commits and rejected batches; and a flush
\* that succeeds leaves no record behind (journal.rs, submit_queries and flush; journal_worker.rs).
THEOREM NothingEscapes == Spec => []LossesAccounted
<1>1. IInv /\ [Next]_vars => IInv'
  <2> SUFFICES ASSUME IInv, [Next]_vars PROVE IInv'
    OBVIOUS
  <2>1. Shape' /\ Outstanding'
    BY ShapeHolds DEF IInv
  <2>2. Located'
    BY LocatedHolds DEF IInv
  <2>3. Books'
    BY BooksHold
  <2> QED BY <2>1, <2>2, <2>3 DEF IInv
<1>2. IInv => LossesAccounted
  <2> SUFFICES ASSUME IInv PROVE LossesAccounted
    OBVIOUS
  <2>1. LossesReported
    BY DEF IInv, Books, LossesReported
  <2>2. EveryRecordAccounted
    <3> SUFFICES ASSUME worker # "ended"
                 PROVE  /\ Cardinality(stored \cup InHand) + dropped = submitted
                        /\ flusher = "clean" => Cardinality(stored) + dropped = submitted
      BY DEF EveryRecordAccounted
    <3>1. Shape /\ Counted /\ Flushed
      BY DEF IInv, Books
    <3>2. stored \cup InHand = All
      BY <3>1, InHandIs
    <3>3. flusher = "clean" => All = stored
      <4> SUFFICES ASSUME flusher = "clean" PROVE All = stored
        OBVIOUS
      <4>1. draft = None /\ queue = <<>> /\ Hold(batch) = {}
        BY <3>1 DEF Flushed
      <4>2. Records(queue) = {}
        BY <4>1 DEF Records
      <4> QED BY <4>1, <4>2 DEF All, Hold
    <3> QED BY <3>1, <3>2, <3>3 DEF Counted
  <2> QED BY <2>1, <2>2 DEF LossesAccounted
<1> QED BY <1>1, <1>2, InitHolds, PTL DEF Spec

(***************************************************************************)
(* The reservation counter loses no unit and grants none beyond the limit: *)
(* for any callers, amounts, limits and number of resizes, although no     *)
(* lock covers the load, the comparisons and the exchange.                 *)
(*                                                                         *)
(* The argument for the limit is about who came last.  Of any callers that *)
(* are charged, one of them charged after the last resize, the last to     *)
(* exchange read a counter that held all the others: so together they ask  *)
(* for no more than what that one compares with the limit.                 *)
(***************************************************************************)

-----------------------------------------------------------------------------
(* Units. *)

LEMMA UnitsFinite ==
  ASSUME BudgetConstants, NEW ps \in SUBSET Proc
  PROVE  IsFiniteSet(Units(ps)) /\ Sum(ps) \in Nat
<1> DEFINE U == {{p} \X (1 .. Amount[p]) : p \in ps}
           f == [p \in ps |-> {p} \X (1 .. Amount[p])]
<1>1. IsFiniteSet(ps)
  BY FS_Subset DEF BudgetConstants
<1>2. f \in Surjection(ps, U)
  BY Fun_IsSurj
<1>3. IsFiniteSet(U)
  <2> HIDE DEF f, U
  <2> QED BY <1>1, <1>2, FS_Surjection
<1>4. ASSUME NEW p \in ps PROVE IsFiniteSet({p} \X (1 .. Amount[p]))
  <2>1. Amount[p] \in Int
    BY DEF BudgetConstants
  <2>2. IsFiniteSet({p})
    BY FS_Singleton
  <2>3. IsFiniteSet(1 .. Amount[p])
    BY <2>1, FS_Interval
  <2> QED BY <2>2, <2>3, FS_Product
<1>5. \A T \in U : IsFiniteSet(T)
  BY <1>4
<1>6. IsFiniteSet(Units(ps))
  <2>1. IsFiniteSet(UNION U)
    <3> HIDE DEF U
    <3> QED BY <1>3, <1>5, FS_UNION
  <2> QED BY <2>1 DEF Units
<1> QED BY <1>6, FS_CardinalityType DEF Sum

LEMMA SumsGrow ==
  ASSUME BudgetConstants, NEW ps \in SUBSET Proc, NEW qs \in SUBSET ps
  PROVE  Sum(qs) <= Sum(ps)
<1>1. Units(qs) \in SUBSET Units(ps)
  BY DEF Units
<1> QED BY <1>1, UnitsFinite, FS_Subset DEF Sum

LEMMA OneMore ==
  ASSUME BudgetConstants, NEW ps \in SUBSET Proc, NEW p \in Proc \ ps
  PROVE  Sum(ps \cup {p}) = Sum(ps) + Amount[p]
<1> DEFINE V == {p} \X (1 .. Amount[p])
<1>1. Amount[p] \in Nat
  BY DEF BudgetConstants
<1>2. IsFiniteSet(V) /\ Cardinality(V) = Amount[p]
  <2>1. IsFiniteSet({p}) /\ Cardinality({p}) = 1
    BY FS_Singleton
  <2>2. IsFiniteSet(1 .. Amount[p]) /\ Cardinality(1 .. Amount[p]) = Amount[p]
    BY <1>1, FS_Interval
  <2>3. IsFiniteSet(V) /\ Cardinality(V) = Cardinality({p}) * Cardinality(1 .. Amount[p])
    BY <2>1, <2>2, FS_Product
  <2> QED BY <1>1, <2>1, <2>2, <2>3
<1>3. Units(ps \cup {p}) = Units(ps) \cup V
  BY DEF Units
<1>4. Units(ps) \cap V = {}
  BY DEF Units
<1>5. IsFiniteSet(Units(ps)) /\ Cardinality(Units(ps)) \in Nat
  BY UnitsFinite DEF Sum
<1>6. Cardinality(Units(ps) \cup V)
        = Cardinality(Units(ps)) + Cardinality(V) - Cardinality(Units(ps) \cap V)
  BY <1>2, <1>5, FS_Union
<1>7. Cardinality(Units(ps) \cap V) = 0
  BY <1>4, FS_EmptySet
<1> HIDE DEF V
<1>8. Cardinality(Units(ps) \cup V) = Cardinality(Units(ps)) + Amount[p]
  BY <1>1, <1>2, <1>5, <1>6, <1>7
<1> QED BY <1>3, <1>8 DEF Sum

LEMMA OneLess ==
  ASSUME BudgetConstants, NEW ps \in SUBSET Proc, NEW p \in ps
  PROVE  Sum(ps \ {p}) = Sum(ps) - Amount[p]
<1> DEFINE qs == ps \ {p}
<1>1. Sum(qs \cup {p}) = Sum(qs) + Amount[p]
  BY OneMore
<1>2. qs \cup {p} = ps
  OBVIOUS
<1>3. Sum(qs) \in Nat /\ Amount[p] \in Nat
  BY UnitsFinite DEF BudgetConstants
<1> HIDE DEF qs
<1>4. Sum(ps) = Sum(qs) + Amount[p]
  BY <1>1, <1>2
<1>5. Sum(qs) = Sum(ps) - Amount[p]
  BY <1>3, <1>4
<1> QED BY <1>5 DEF qs

-----------------------------------------------------------------------------
(* The invariant. *)

BudgetShape ==
    /\ limit \in Limits
    /\ used \in Nat
    /\ pc \in [Proc -> Location]
    /\ seen \in [Proc -> Nat]
    /\ settled \subseteq In(Charging)

\* Of charged callers, one of them charged since the last resize, the last to come saw the others.
LastSaw ==
    \A ps \in SUBSET In(Charging) : ps \cap settled # {} =>
        \E z \in ps \cap settled : Sum(ps) <= seen[z] + Amount[z]

\* A permit charged since the last resize was compared with the limit there is.
Compared == \A z \in settled : pc[z] = "held" => seen[z] + Amount[z] <= limit

BudgetIInv == BudgetShape /\ Accounted /\ LastSaw /\ Compared

LEMMA BudgetNumbers ==
  ASSUME BudgetConstants, BudgetShape, NEW p \in Proc
  PROVE  limit \in Nat /\ used \in Nat /\ seen[p] \in Nat /\ Amount[p] \in Nat
  BY DEF BudgetConstants, BudgetShape

\* A caller that is not charged goes on, and is not charged.
LEMMA BudgetAside ==
  ASSUME BudgetConstants, BudgetIInv, NEW p \in Proc, NEW l \in Location,
         pc[p] \notin Charging, l \notin Charging, Go(p, l),
         seen' = seen \/ seen' = [seen EXCEPT ![p] = used],
         UNCHANGED <<limit, used, settled>>
  PROVE  BudgetIInv'
<1>1. BudgetShape
  BY DEF BudgetIInv
<1>2. pc' = [pc EXCEPT ![p] = l] /\ pc' \in [Proc -> Location] /\ seen' \in [Proc -> Nat]
  BY <1>1 DEF Go, BudgetShape
<1>3. In(Charging)' = In(Charging)
  BY <1>1, <1>2 DEF In, BudgetShape
<1>4. \A q \in In(Charging) : seen'[q] = seen[q] /\ pc'[q] = pc[q]
  BY <1>1, <1>2 DEF In, BudgetShape
<1>5. BudgetShape' /\ Accounted'
  BY <1>1, <1>2, <1>3 DEF BudgetIInv, BudgetShape, Accounted
<1>6. LastSaw'
  <2> SUFFICES ASSUME NEW ps \in SUBSET In(Charging), ps \cap settled # {}
               PROVE  \E z \in ps \cap settled : Sum(ps) <= seen'[z] + Amount[z]
    BY <1>3 DEF LastSaw
  <2>1. PICK z \in ps \cap settled : Sum(ps) <= seen[z] + Amount[z]
    BY DEF BudgetIInv, LastSaw
  <2> QED BY <1>4, <2>1
<1>7. Compared'
  BY <1>1, <1>4 DEF BudgetIInv, Compared, BudgetShape
<1> QED BY <1>5, <1>6, <1>7 DEF BudgetIInv

\* A charge is taken back.
LEMMA Uncharged ==
  ASSUME BudgetConstants, BudgetIInv, NEW p \in Proc, NEW l \in Location,
         pc[p] \in Charging, l \notin Charging, Go(p, l), Refund(p),
         settled' = settled \ {p}, UNCHANGED <<limit, seen>>
  PROVE  BudgetIInv'
<1>1. BudgetShape
  BY DEF BudgetIInv
<1>2. pc' = [pc EXCEPT ![p] = l] /\ pc' \in [Proc -> Location] /\ p \in In(Charging)
  BY <1>1 DEF Go, BudgetShape, In
<1>3. In(Charging)' = In(Charging) \ {p}
  BY <1>1, <1>2 DEF In, BudgetShape
<1>4. In(Charging) \in SUBSET Proc /\ In(Charging)' \in SUBSET Proc
  BY <1>3 DEF In
<1>5. used' = Sum(In(Charging)') /\ used' \in Nat
  <2>1. used' = used - Amount[p] /\ used = Sum(In(Charging))
    BY DEF Refund, BudgetIInv, Accounted
  <2>2. Sum(In(Charging)') = Sum(In(Charging)) - Amount[p]
    BY <1>2, <1>3, <1>4, OneLess
  <2>3. Sum(In(Charging)') \in Nat
    BY <1>4, UnitsFinite
  <2> QED BY <2>1, <2>2, <2>3
<1>6. BudgetShape' /\ Accounted'
  BY <1>1, <1>2, <1>3, <1>5 DEF BudgetShape, Accounted
<1>7. LastSaw'
  <2> SUFFICES ASSUME NEW ps \in SUBSET (In(Charging) \ {p}), ps \cap settled' # {}
               PROVE  \E z \in ps \cap settled' : Sum(ps) <= seen[z] + Amount[z]
    BY <1>3 DEF LastSaw
  <2>1. ps \cap settled' = ps \cap settled
    OBVIOUS
  <2> QED BY <2>1 DEF BudgetIInv, LastSaw
<1>8. Compared'
  BY <1>1, <1>2 DEF BudgetIInv, Compared, BudgetShape
<1> QED BY <1>6, <1>7, <1>8 DEF BudgetIInv

\* A swap succeeds: the caller saw all that is charged.
LEMMA BudgetCharged ==
  ASSUME BudgetConstants, BudgetIInv, NEW p \in Proc, pc[p] = "allowed", Go(p, "charged"),
         used = seen[p], used' = used + Amount[p], settled' = settled \cup {p},
         UNCHANGED <<limit, seen>>
  PROVE  BudgetIInv'
<1>1. BudgetShape
  BY DEF BudgetIInv
<1>2. pc' = [pc EXCEPT ![p] = "charged"] /\ pc' \in [Proc -> Location] /\ p \notin In(Charging)
  BY <1>1 DEF Go, BudgetShape, In, Charging, Location, Trying
<1>3. In(Charging)' = In(Charging) \cup {p}
  BY <1>1, <1>2 DEF In, BudgetShape, Charging
<1>4. In(Charging) \in SUBSET Proc /\ In(Charging)' \in SUBSET Proc
  BY <1>3 DEF In
<1>5. used = Sum(In(Charging)) /\ used \in Nat /\ Amount[p] \in Nat
  BY <1>1, BudgetNumbers DEF BudgetIInv, Accounted
<1>6. used' = Sum(In(Charging)')
  <2>1. Sum(In(Charging) \cup {p}) = Sum(In(Charging)) + Amount[p]
    BY <1>2, <1>4, OneMore
  <2> QED BY <1>3, <1>5, <2>1
<1>7. BudgetShape' /\ Accounted'
  BY <1>1, <1>2, <1>3, <1>5, <1>6 DEF BudgetShape, Accounted
<1>8. LastSaw'
  <2> SUFFICES ASSUME NEW ps \in SUBSET In(Charging)', ps \cap settled' # {}
               PROVE  \E z \in ps \cap settled' : Sum(ps) <= seen[z] + Amount[z]
    BY DEF LastSaw
  <2>1. CASE p \in ps
    <3>1. Sum(ps \ {p}) <= Sum(In(Charging)) /\ Sum(ps \ {p}) \in Nat
      <4>1. ps \ {p} \in SUBSET In(Charging) /\ ps \ {p} \in SUBSET Proc
        BY <1>3, <1>4
      <4> QED BY <1>4, <4>1, SumsGrow, UnitsFinite
    <3>2. Sum(ps \ {p}) = Sum(ps) - Amount[p] /\ Sum(ps) \in Nat
      BY <1>4, <2>1, OneLess, UnitsFinite
    <3>3. Sum(ps) <= seen[p] + Amount[p]
      BY <1>5, <3>1, <3>2
    <3> QED BY <2>1, <3>3
  <2>2. CASE p \notin ps
    <3>1. ps \in SUBSET In(Charging) /\ ps \cap settled' = ps \cap settled
      BY <1>3, <2>2
    <3> QED BY <3>1 DEF BudgetIInv, LastSaw
  <2> QED BY <2>1, <2>2
<1>9. Compared'
  BY <1>1, <1>2 DEF BudgetIInv, Compared, BudgetShape
<1> QED BY <1>7, <1>8, <1>9 DEF BudgetIInv

\* The limit is compared again: the charge stays, for now.
LEMMA Judged ==
  ASSUME BudgetConstants, BudgetIInv, NEW p \in Proc, Recheck(p)
  PROVE  BudgetIInv'
<1>1. BudgetShape /\ pc[p] = "charged" /\ UNCHANGED <<limit, used, seen, settled>>
  BY DEF BudgetIInv, Recheck
<1>2. PICK l \in {"held", "over"} : Go(p, l) /\ (l = "held" => StillFits(p))
  BY DEF Recheck
<1>3. pc' = [pc EXCEPT ![p] = l] /\ pc' \in [Proc -> Location]
  BY <1>1, <1>2 DEF Go, BudgetShape, Location, Trying
<1>4. In(Charging)' = In(Charging)
  BY <1>1, <1>3 DEF In, BudgetShape, Charging
<1>5. BudgetShape' /\ Accounted' /\ LastSaw'
  BY <1>1, <1>3, <1>4 DEF BudgetIInv, BudgetShape, Accounted, LastSaw
<1>6. Compared'
  BY <1>1, <1>2, <1>3 DEF BudgetIInv, Compared, BudgetShape, StillFits
<1> QED BY <1>5, <1>6 DEF BudgetIInv

LEMMA BudgetStepHolds ==
  ASSUME BudgetConstants, BudgetIInv, [BudgetNext]_budgetVars
  PROVE  BudgetIInv'
<1>0. BudgetShape /\ (\A q \in Proc : pc[q] \in Location)
  BY DEF BudgetIInv, BudgetShape
<1>1. ASSUME NEW p \in Proc, Enqueue(p) \/ Arm(p) \/ Cancel(p) \/ Load(p) \/ Compare(p)
                             \/ Refuse(p) \/ Return(p)
      PROVE  BudgetIInv'
  <2> USE <1>0 DEF Location, Trying, Charging
  <2>1. CASE Enqueue(p)
    BY <2>1, BudgetAside DEF Enqueue
  <2>2. CASE Arm(p)
    BY <2>2, BudgetAside DEF Arm
  <2>3. CASE Cancel(p)
    BY <2>3, BudgetAside DEF Cancel
  <2>4. CASE Load(p)
    BY <2>4, BudgetAside DEF Load
  <2>5. CASE Compare(p)
    BY <2>5, BudgetAside DEF Compare, Refused
  <2>6. CASE Refuse(p)
    BY <2>6, BudgetAside DEF Refuse, Refused
  <2>7. CASE Return(p)
    BY <2>7, BudgetAside DEF Return
  <2> QED BY <1>1, <2>1, <2>2, <2>3, <2>4, <2>5, <2>6, <2>7
<1>2. ASSUME NEW p \in Proc, Exchange(p) PROVE BudgetIInv'
  <2>1. CASE /\ used = seen[p] /\ used' = used + Amount[p] /\ settled' = settled \cup {p}
             /\ Go(p, "charged") /\ UNCHANGED seen
    BY <1>2, <2>1, BudgetCharged DEF Exchange
  <2>2. CASE /\ seen' = [seen EXCEPT ![p] = used] /\ Go(p, "loaded")
             /\ UNCHANGED <<used, settled>>
    BY <1>2, <2>2, BudgetAside DEF Exchange, Location, Trying, Charging
  <2> QED BY <1>2, <2>1, <2>2 DEF Exchange
<1>3. ASSUME NEW p \in Proc, Recheck(p) PROVE BudgetIInv'
  BY <1>3, Judged
<1>4. ASSUME NEW p \in Proc, TakeBack(p) \/ Release(p) PROVE BudgetIInv'
  BY <1>4, Uncharged DEF TakeBack, Release, Location, Trying, Charging
<1>5. ASSUME NEW n \in Limits, Store(n) PROVE BudgetIInv'
  BY <1>5 DEF Store, BudgetIInv, BudgetShape, Accounted, LastSaw, Compared, In
<1>6. CASE Announce
  BY <1>6 DEF Announce, BudgetIInv, BudgetShape, Accounted, LastSaw, Compared, In
<1>7. CASE UNCHANGED budgetVars
  BY <1>7 DEF budgetVars, BudgetIInv, BudgetShape, Accounted, LastSaw, Compared, In
<1> QED BY <1>1, <1>2, <1>3, <1>4, <1>5, <1>6, <1>7 DEF BudgetNext, Attempt

-----------------------------------------------------------------------------
(* What a grant finds. *)

LEMMA OnlyRecheckGrants ==
  ASSUME BudgetShape, BudgetNext, NEW p \in Proc, pc[p] = "charged", pc'[p] = "held"
  PROVE  Recheck(p) /\ StillFits(p)
<1>1. \A q \in Proc, l \in Location : Go(q, l) => (q = p /\ l = "held")
  BY DEF Go, BudgetShape
<1> USE DEF Location, Trying
<1>2. ASSUME NEW q \in Proc, Enqueue(q) \/ Arm(q) \/ Cancel(q) PROVE FALSE
  BY <1>1, <1>2 DEF Enqueue, Arm, Cancel
<1>3. ASSUME NEW q \in Proc, Release(q) \/ Return(q) PROVE FALSE
  BY <1>1, <1>3 DEF Release, Return
<1>4. ASSUME NEW q \in Proc, Load(q) \/ Compare(q) PROVE FALSE
  BY <1>1, <1>4 DEF Load, Compare, Refused
<1>5. ASSUME NEW q \in Proc, Exchange(q) \/ TakeBack(q) \/ Refuse(q) PROVE FALSE
  BY <1>1, <1>5 DEF Exchange, TakeBack, Refuse, Refused
<1>6. ASSUME NEW q \in Proc, Recheck(q) PROVE q = p /\ StillFits(p)
  <2>1. CASE Go(q, "held") /\ StillFits(q)
    BY <1>1, <2>1
  <2>2. CASE Go(q, "over")
    BY <1>1, <2>2
  <2> QED BY <1>6, <2>1, <2>2 DEF Recheck
<1>7. (\E n \in Limits : Store(n)) \/ Announce => FALSE
  BY DEF Store, Announce
<1> QED BY <1>2, <1>3, <1>4, <1>5, <1>6, <1>7 DEF BudgetNext, Attempt

LEMMA GrantsFit ==
  ASSUME BudgetConstants, BudgetIInv, BudgetNext, NEW p \in Proc
  PROVE  GrantFits(p)
<1> SUFFICES ASSUME pc[p] = "charged", pc'[p] = "held", p \in settled
             PROVE  Sum({q \in Proc : pc'[q] = "held"}) <= limit
  BY DEF GrantFits
<1> DEFINE H == {q \in Proc : pc'[q] = "held"}
<1>1. BudgetShape
  BY DEF BudgetIInv
<1>2. Recheck(p) /\ StillFits(p) /\ pc' = [pc EXCEPT ![p] = "held"]
  BY <1>1, OnlyRecheckGrants DEF Recheck, Go
<1>3. \A q \in H : q = p \/ pc[q] = "held"
  BY <1>1, <1>2 DEF BudgetShape
<1>4. H \in SUBSET In(Charging) /\ p \in H \cap settled
  BY <1>3 DEF In, Charging
<1> HIDE DEF H
<1>5. PICK z \in H \cap settled : Sum(H) <= seen[z] + Amount[z]
  BY <1>4 DEF BudgetIInv, LastSaw
<1>6. z \in Proc /\ seen[z] + Amount[z] <= limit
  <2>1. z \in Proc
    BY <1>4 DEF In
  <2>2. CASE z = p
    BY <1>2, <2>2 DEF StillFits
  <2>3. CASE z # p
    BY <1>3, <1>5, <2>1, <2>3 DEF BudgetIInv, Compared
  <2> QED BY <2>1, <2>2, <2>3
<1>7. Sum(H) \in Nat /\ seen[z] + Amount[z] \in Nat /\ limit \in Nat
  BY <1>1, <1>4, <1>6, UnitsFinite, BudgetNumbers DEF In
<1>8. Sum(H) <= limit
  BY <1>5, <1>6, <1>7
<1> QED BY <1>8 DEF H

\* Neither a swap, a rollback, a release nor a resize loses a unit, and a permit charged after the
\* last resize is granted only when all permits together fit the limit: for any callers, amounts,
\* limits and interleaving of the atomic operations (budget.rs, try_acquire_many_owned, Drop for
\* Permit, resize).
THEOREM PermitsFit ==
  ASSUME BudgetConstants
  PROVE  BudgetSpec => PermitsAccounted
<1>1. BudgetInit => BudgetIInv
  <2> SUFFICES ASSUME BudgetInit PROVE BudgetIInv
    OBVIOUS
  <2>1. In(Charging) = {}
    BY DEF BudgetInit, In, Charging
  <2>2. Units({}) = {}
    BY DEF Units
  <2>3. used = Sum(In(Charging))
    BY <2>1, <2>2, FS_EmptySet DEF BudgetInit, Sum
  <2>4. BudgetShape
    BY <2>1 DEF BudgetInit, BudgetShape, Location
  <2>5. LastSaw /\ Compared
    BY DEF BudgetInit, LastSaw, Compared
  <2> QED BY <2>3, <2>4, <2>5 DEF BudgetIInv, Accounted
<1>2. BudgetIInv /\ [BudgetNext]_budgetVars => BudgetIInv'
  BY BudgetStepHolds
<1>3. BudgetIInv /\ [BudgetNext]_budgetVars => [Accounted' /\ \A p \in Proc : GrantFits(p)]_budgetVars
  <2> SUFFICES ASSUME BudgetIInv, BudgetNext PROVE Accounted' /\ \A p \in Proc : GrantFits(p)
    OBVIOUS
  <2>1. BudgetIInv'
    BY BudgetStepHolds
  <2> QED BY <2>1, GrantsFit DEF BudgetIInv
<1> QED BY <1>1, <1>2, <1>3, PTL DEF BudgetSpec, PermitsAccounted
=============================================================================
