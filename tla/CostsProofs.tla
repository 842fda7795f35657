----------------------------- MODULE CostsProofs -----------------------------
(***************************************************************************)
(* Proofs about Costs: what a partition shows is whole, no query is paid   *)
(* for twice nor beyond the allowance, and a response is of one            *)
(* publication.                                                            *)
(***************************************************************************)
EXTENDS Costs, FiniteSetTheorems, WellFoundedInduction, TLAPS

-----------------------------------------------------------------------------
(* The greatest and the least of a set.                                    *)

LEMMA Least ==
    ASSUME NEW S, S \subseteq Nat, S # {}
    PROVE  \E x \in S : \A y \in S : x <= y
<1> DEFINE R == {ss \in Nat \X Nat : ss[1] < ss[2]}
<1>1. IsWellFoundedOn(R, Nat)
  BY NatLessThanWellFounded DEF OpToRel
<1>2. PICK x \in S : \A y \in S : ~(<<y, x>> \in R)
  <2> HIDE DEF R
  <2> QED BY <1>1, WFMin
<1>3. \A y \in S : ~(y < x)
  BY <1>2
<1> QED BY <1>3

\* The same for integers above some bound.
LEMMA LeastAbove ==
    ASSUME NEW b \in Int, NEW S, S \subseteq Int, \A x \in S : b <= x, S # {}
    PROVE  \E x \in S : \A y \in S : x <= y
<1> DEFINE T == {n \in Nat : n + b \in S}
<1>1. T # {}
  <2>1. PICK x \in S : TRUE
    OBVIOUS
  <2>2. x - b \in Nat /\ (x - b) + b = x
    BY <2>1
  <2> QED BY <2>1, <2>2
<1>2. PICK n \in T : \A m \in T : n <= m
  BY <1>1, Least
<1>3. n + b \in S
  BY <1>2
<1>4. ASSUME NEW y \in S PROVE n + b <= y
  <2>1. y - b \in T
    BY <1>4
  <2> QED BY <1>2, <1>4, <2>1
<1> QED BY <1>3, <1>4

LEMMA GreatestBelow ==
    ASSUME NEW b \in Int, NEW S, S \subseteq Int, \A x \in S : x <= b, S # {}
    PROVE  Max(S) \in S
<1> DEFINE T == {x \in Int : -x \in S}
<1>1. PICK x \in S : TRUE
  OBVIOUS
<1>2. -x \in T
  <2>1. -x \in Int /\ -(-x) = x
    BY <1>1
  <2> QED BY <2>1
<1>3. T \subseteq Int /\ T # {} /\ -b \in Int /\ \A y \in T : -b <= y
  BY <1>2
<1>4. PICK z \in T : \A y \in T : z <= y
  <2> HIDE DEF T
  <2> QED BY <1>3, LeastAbove
<1>5. -z \in S /\ \A y \in S : -z >= y
  <2>1. ASSUME NEW y \in S PROVE -z >= y
    <3>1. -y \in T
      BY <2>1
    <3> QED BY <1>4, <2>1, <3>1
  <2> QED BY <1>4, <2>1
<1> QED BY <1>5 DEF Max

LEMMA GreatestOfTwo ==
    ASSUME NEW a \in Int, NEW b \in Int
    PROVE  /\ Max({a, b}) \in {a, b}
           /\ Max({a, b}) >= a /\ Max({a, b}) >= b
<1>1. \E x \in {a, b} : \A y \in {a, b} : x >= y
  <2>1. CASE a >= b
    BY <2>1
  <2>2. CASE ~(a >= b)
    BY <2>2
  <2> QED BY <2>1, <2>2
<1> QED BY <1>1 DEF Max

LEMMA AtLeastZero ==
    ASSUME NEW r \in Int
    PROVE  Max({r, 0}) \in Nat /\ Max({r, 0}) >= r
<1>1. Max({r, 0}) \in {r, 0} /\ Max({r, 0}) >= r /\ Max({r, 0}) >= 0
  BY GreatestOfTwo
<1> QED BY <1>1

-----------------------------------------------------------------------------
(* What is due is a period, and what is begun is one import of the table.  *)

LEMMA PeriodType ==
    ASSUME TypeOK, NeverPartial, NEW due, NextPeriod(due) # None
    PROVE  NextPeriod(due) \in [from : Int, to : Int]
<1> USE ConstantsAssumption
<1>1. today \in Int /\ To \in Int
  BY DEF TypeOK, To
<1>2. ASSUME NEW end \in Int PROVE Window(end) \in [from : Int, to : Int]
  <2>1. end - Week \in Int /\ To - Backfill \in Int
    BY <1>1, <1>2
  <2>2. Max({end - Week, To - Backfill}) \in Int
    BY <2>1, GreatestOfTwo
  <2> QED BY <1>1, <1>2, <2>1, <2>2 DEF Window
<1>3. Missing \subseteq Int /\ (Missing # {} => Max(Missing) \in Missing)
  <2>1. Missing \subseteq Int /\ \A x \in Missing : x <= today
    BY <1>1 DEF Missing
  <2> QED BY <1>1, <2>1, GreatestBelow
<1>4. ASSUME Aged # {}
      PROVE  \E d \in Aged : \A e \in Aged :
                imports[partition[d]].published <= imports[partition[e]].published
  <2> DEFINE P == {imports[partition[d]].published : d \in Aged}
  <2>1. \A d \in Aged : imports[partition[d]].published \in First..Last
    BY DEF Aged, Visible, NeverPartial, TypeOK, Import, Day
  <2>2. P \subseteq Int /\ First \in Int /\ P # {} /\ \A x \in P : First <= x
    BY <1>4, <2>1
  <2>3. PICK x \in P : \A y \in P : x <= y
    <3> HIDE DEF P
    <3> QED BY <2>2, LeastAbove
  <2> QED BY <2>3
<1>5. CASE ~Visible(today) \/ due
  BY <1>1, <1>2, <1>5 DEF NextPeriod
<1>6. CASE ~(~Visible(today) \/ due) /\ Missing # {}
  <2>1. NextPeriod(due) = Window(Max(Missing) + 1)
    BY <1>6 DEF NextPeriod
  <2>2. Max(Missing) + 1 \in Int
    <3>1. PICK m : m = Max(Missing)
      OBVIOUS
    <3>2. m \in Missing /\ Missing \subseteq Int
      BY <1>3, <1>6, <3>1
    <3>3. m + 1 \in Int
      BY <3>2
    <3> QED BY <3>1, <3>3
  <2> HIDE DEF Missing
  <2> QED BY <1>2, <2>1, <2>2
<1>7. CASE ~(~Visible(today) \/ due) /\ Missing = {}
  <2> DEFINE Oldest(d) == \A e \in Aged :
                imports[partition[d]].published <= imports[partition[e]].published
             d0 == CHOOSE d \in Aged : Oldest(d)
  <2>1. Aged # {} /\ NextPeriod(due) = [from |-> d0, to |-> d0 + 1]
    BY <1>7 DEF NextPeriod
  <2>2. \E d \in Aged : Oldest(d)
    BY <1>4, <2>1
  <2>3. d0 \in Aged
    <3> HIDE DEF Oldest
    <3> QED BY <2>2
  <2>4. d0 \in Int
    <3>1. Aged \subseteq Int
      BY DEF Aged, Day
    <3> HIDE DEF d0
    <3> QED BY <2>3, <3>1
  <2> HIDE DEF d0
  <2> QED BY <2>1, <2>4
<1> QED BY <1>5, <1>6, <1>7

LEMMA Underway ==
    ASSUME TypeOK, Pending # {}
    PROVE  Max(Pending) \in Pending /\ Pending = {Max(Pending)}
<1>1. Pending \subseteq Int
  BY DEF Pending, Id
<1>2. PICK i \in Pending : TRUE
  OBVIOUS
<1>3. Pending = {i}
  BY <1>2 DEF TypeOK
<1>4. Max(Pending) = i
  BY <1>1, <1>2, <1>3, GreatestOfTwo DEF Max
<1> QED BY <1>3, <1>4

-----------------------------------------------------------------------------
(* The invariant.                                                          *)

\* An import was begun by today, and has paid for the job it has, once.  It has reserved
\* what its job may scan, and was billed what a job that ended has scanned.
PaidFor(i) ==
    /\ imports[i].started <= today
    /\ imports[i].paid <= 1
    /\ job[i] = NoJob => imports[i].paid = 0
    /\ job[i].bytes <= imports[i].reserved
    /\ imports[i].billed # None =>
        /\ imports[i].billed = job[i].bytes
        /\ kind = "gcp" => job[i].state = "done"

Paid ==
    /\ \A i \in Id : imports[i] # None => PaidFor(i)
    /\ kind # "gcp" => /\ \A i \in Id : job[i] = NoJob
                       /\ worker.at \notin {"start", "poll"}
    /\ kind = "gcp" /\ worker.at = "settle" => job[worker.id].state = "done"
    /\ worker.at = "start" => imports[worker.id].reserved >= Reservation

Allowed == Paid /\ IsFiniteSet(Units) /\ Charged <= Daily

\* A request that read two publications knows the status it read to be outdated.
Noticed == reader.mixed => reader.at \in {"second", "check"} /\ reader.status = None

IInv == TypeOK /\ NeverPartial /\ Allowed /\ Noticed

LEMMA InitIInv == Init => IInv
<1> USE ConstantsAssumption, NoneAssumption
<1> SUFFICES ASSUME Init PROVE IInv
  OBVIOUS
<1>1. TypeOK
  <2>1. Pending = {}
    BY DEF Init, Pending
  <2>2. today \in First..Last /\ faults \in 0..MaxFaults
    BY DEF Init
  <2>3. /\ imports \in [Id -> Import \cup {None}] /\ rows \in [Id -> SUBSET Int]
        /\ partition \in [Day -> Id \cup {None}] /\ kind \in Kinds /\ size \in Sizes
        /\ attempted \in BOOLEAN
        /\ \A i \in Id : imports[i] # None => rows[i] \subseteq Days(i)
    BY DEF Init
  <2>4. /\ source \in [revision : Id \cup {None}, fault : BOOLEAN]
        /\ job \in [Id -> [state : {"none", "running", "done", "failed"}, bytes : Nat]]
    BY DEF Init, NoJob
  <2>5. /\ worker \in [at : {"idle", "start", "poll", "settle", "page", "cleanup"},
                       id : Id \cup {None}, next : Int \cup {None}]
        /\ worker.at = "idle"
    BY DEF Init, Idle
  <2>6. reader \in [at : {"out", "first", "second", "check", "answered"},
                    status : BOOLEAN \cup {None}, mixed : BOOLEAN]
    BY DEF Init, NoRead
  <2> QED BY <2>1, <2>2, <2>3, <2>4, <2>5, <2>6 DEF TypeOK
<1>2. NeverPartial /\ Noticed
  BY DEF Init, NeverPartial, Noticed, NoRead
<1>3. Paid
  BY DEF Init, Paid, PaidFor, Idle, NoJob
<1>4. Units = {}
  BY DEF Init, Units, Counted
<1>5. IsFiniteSet(Units) /\ Charged = 0
  BY <1>4, FS_EmptySet DEF Charged
<1> QED BY <1>1, <1>2, <1>3, <1>5 DEF IInv, Allowed

-----------------------------------------------------------------------------
(* What Begin writes: it resumes the import under way or adds one.         *)

Resumed(id, more) ==
    /\ Pending = {id} /\ imports[id] # None
    /\ imports[id].reserved + more >= Reservation
    /\ imports' = [imports EXCEPT ![id] = [@ EXCEPT !.reserved = imports[id].reserved + more]]
    /\ job' = job

Added(id, more) ==
    /\ Pending = {} /\ imports[id] = None
    /\ more = Reservation
    /\ \E from \in Int : \E to \in Int :
        imports' = [imports EXCEPT ![id] =
            [from |-> from, to |-> to, reserved |-> more, billed |-> None, started |-> today,
             published |-> None, paid |-> 0]]
    /\ job' = [job EXCEPT ![id] = NoJob]

Begun(id, more) ==
    /\ Resumed(id, more) \/ Added(id, more)
    /\ Charged + more <= Daily
    /\ rows' = [rows EXCEPT ![id] = {}]
    /\ worker' = [at |-> IF kind = "gcp" THEN "start" ELSE "settle", id |-> id, next |-> None]
    /\ attempted' = TRUE
    /\ UNCHANGED <<kind, today, partition, source, size, request, faults>>

LEMMA Reserves ==
    ASSUME TypeOK
    PROVE  Reservation \in Nat
BY ConstantsAssumption DEF TypeOK, Reservation

LEMMA Begins ==
    ASSUME TypeOK, NeverPartial, NEW due, Begin(due)
    PROVE  \E id \in Id : \E more \in Nat : Begun(id, more)
<1> USE ConstantsAssumption, NoneAssumption
<1>1. Reservation \in Nat
  BY Reserves
<1>2. CASE Pending # {}
  <2> DEFINE id == Max(Pending)
             more == Increase(id)
  <2>1. id \in Id /\ Pending = {id} /\ imports[id] # None
    BY <1>2, Underway DEF Pending
  <2>2. imports[id] \in Import /\ imports[id].reserved \in Int
    BY <2>1 DEF TypeOK, Import
  <2>3. Reservation - imports[id].reserved \in Int
    BY <1>1, <2>2
  <2>4. more \in Nat /\ more >= Reservation - imports[id].reserved
    BY <2>3, AtLeastZero DEF Increase
  <2>5. imports[id].reserved + more >= Reservation
    <3> HIDE DEF more, id
    <3> QED BY <1>1, <2>2, <2>4
  <2>6. Resumed(id, more)
    <3>1. imports' = [imports EXCEPT ![id] = [@ EXCEPT !.reserved = imports[id].reserved + more]] /\ job' = job
      BY <1>2 DEF Begin
    <3> HIDE DEF more, id
    <3> QED BY <2>1, <2>5, <3>1 DEF Resumed
  <2>7. Begun(id, more)
    BY <1>2, <2>6 DEF Begin, Begun
  <2> QED BY <2>1, <2>4, <2>7
<1>3. CASE Pending = {}
  <2> DEFINE id == CHOOSE i \in Free : TRUE
  <2>1. id \in Free
    BY <1>3 DEF Begin
  <2>2. id \in Id /\ imports[id] = None
    BY <2>1 DEF Free
  <2>3. NextPeriod(due) # None
    BY DEF Begin
  <2>4. NextPeriod(due).from \in Int /\ NextPeriod(due).to \in Int
    BY <2>3, PeriodType
  <2>5. Added(id, Reservation)
    <3>1. /\ imports' = [imports EXCEPT ![id] =
                [from |-> NextPeriod(due).from, to |-> NextPeriod(due).to,
                 reserved |-> Reservation, billed |-> None, started |-> today,
                 published |-> None, paid |-> 0]]
          /\ job' = [job EXCEPT ![id] = NoJob]
      BY <1>3 DEF Begin
    <3> QED BY <1>3, <2>2, <2>4, <3>1 DEF Added
  <2>6. Begun(id, Reservation)
    BY <1>3, <2>5 DEF Begin, Begun
  <2> QED BY <1>1, <2>2, <2>6
<1> QED BY <1>2, <1>3

-----------------------------------------------------------------------------
(* Types.                                                                  *)

\* What the type of the imports means for one that there is.
LEMMA ImportType ==
    ASSUME TypeOK, NEW i \in Id, imports[i] # None
    PROVE  /\ imports[i] \in Import
           /\ imports[i].reserved \in Nat /\ imports[i].started \in Int
           /\ imports[i].from \in Int /\ imports[i].to \in Int /\ imports[i].paid \in Nat
           /\ imports[i].billed \in Nat \cup {None}
           /\ Amount(i) \in Nat
BY ConstantsAssumption, NoneAssumption DEF TypeOK, Import, Amount

\* The same after a step.
LEMMA ImportTypeThen ==
    ASSUME TypeOK', NEW i \in Id, imports'[i] # None
    PROVE  Amount(i)' \in Nat
BY ConstantsAssumption, NoneAssumption DEF TypeOK, Import, Amount

LEMMA BeginType ==
    ASSUME TypeOK, NEW id \in Id, NEW more \in Nat, Begun(id, more)
    PROVE  TypeOK'
<1> USE ConstantsAssumption, NoneAssumption
<1>1. /\ Pending' = {id} /\ imports'[id] \in Import
      /\ imports' \in [Id -> Import \cup {None}]
  <2>1. CASE Resumed(id, more)
    <3>1. imports[id] \in Import /\ imports[id].reserved + more \in Nat /\ imports[id].published = None
      BY <2>1, ImportType DEF Resumed, Pending
    <3>2. imports'[id] = [imports[id] EXCEPT !.reserved = imports[id].reserved + more]
      BY <2>1 DEF Resumed, TypeOK
    <3>3. imports'[id] \in Import /\ imports'[id].published = None /\ imports'[id] # None
      BY <3>1, <3>2 DEF Import
    <3>4. imports' \in [Id -> Import \cup {None}] /\ \A i \in Id \ {id} : imports'[i] = imports[i]
      BY <2>1, <3>2, <3>3 DEF Resumed, TypeOK
    <3>5. Pending = {id}
      BY <2>1 DEF Resumed
    <3> QED BY <3>3, <3>4, <3>5 DEF Pending
  <2>2. CASE Added(id, more)
    <3>1. PICK from \in Int : \E to \in Int :
            imports' = [imports EXCEPT ![id] =
                [from |-> from, to |-> to, reserved |-> more, billed |-> None, started |-> today,
                 published |-> None, paid |-> 0]]
      BY <2>2 DEF Added
    <3>2. PICK to \in Int :
            imports' = [imports EXCEPT ![id] =
                [from |-> from, to |-> to, reserved |-> more, billed |-> None, started |-> today,
                 published |-> None, paid |-> 0]]
      BY <3>1
    <3>3. imports'[id] \in Import /\ imports'[id].published = None /\ imports'[id] # None
      BY <3>2 DEF Import, TypeOK
    <3>4. imports' \in [Id -> Import \cup {None}] /\ \A i \in Id \ {id} : imports'[i] = imports[i]
      BY <3>2, <3>3 DEF TypeOK
    <3>5. Pending = {}
      BY <2>2 DEF Added
    <3> QED BY <3>3, <3>4, <3>5 DEF Pending
  <2> QED BY <2>1, <2>2 DEF Begun
<1>2. job' \in [Id -> [state : {"none", "running", "done", "failed"}, bytes : Nat]]
  BY DEF TypeOK, Begun, Resumed, Added, NoJob
<1>3. rows' \in [Id -> SUBSET Int] /\ rows'[id] = {} /\ \A i \in Id \ {id} : rows'[i] = rows[i]
  BY DEF TypeOK, Begun
<1>4. \A i \in Id : imports'[i] # None => rows'[i] \subseteq Days(i)'
  <2>1. ASSUME NEW i \in Id \ {id} PROVE imports'[i] = imports[i]
    BY <2>1 DEF Begun, Resumed, Added, TypeOK
  <2> QED BY <1>3, <2>1 DEF TypeOK, Days
<1>5. worker' \in [at : {"idle", "start", "poll", "settle", "page", "cleanup"},
                   id : Id \cup {None}, next : Int \cup {None}] /\ worker'.id = id
  BY DEF Begun
<1> QED BY <1>1, <1>2, <1>3, <1>4, <1>5 DEF TypeOK, Begun, request

\* Of the imports, the steps of an import change what it paid, was billed or when it was
\* published, and Publish alone ends its being under way.
LEMMA WorkerType ==
    ASSUME TypeOK, Submit \/ Existing \/ Polled \/ PolledError \/ Settle \/ Stage
    PROVE  TypeOK'
<1> USE ConstantsAssumption, NoneAssumption
<1> DEFINE w == worker.id
<1>1. w \in Pending /\ w \in Id /\ imports[w] # None /\ imports[w] \in Import
  BY ImportType DEF TypeOK, Submit, Existing, Polled, PolledError, Settle, Stage, Pending
<1>2. imports[w].published = None
  BY <1>1 DEF Pending
<1>3. ASSUME NEW new, new \in Import, new.published = None, new.from = imports[w].from,
             new.to = imports[w].to, imports' = [imports EXCEPT ![w] = new], rows' = rows
      PROVE  /\ imports' \in [Id -> Import \cup {None}] /\ Pending' = Pending
             /\ \A i \in Id : imports'[i] # None => rows'[i] \subseteq Days(i)'
  <2>1. imports' \in [Id -> Import \cup {None}]
    BY <1>3 DEF TypeOK
  <2>2. imports'[w] = new /\ \A i \in Id \ {w} : imports'[i] = imports[i]
    BY <1>1, <1>3 DEF TypeOK
  <2>3. Pending' = Pending
    BY <1>1, <1>2, <1>3, <2>2 DEF Pending
  <2>4. \A i \in Id : imports'[i] # None => rows'[i] \subseteq Days(i)'
    BY <1>1, <1>3, <2>2 DEF TypeOK, Days
  <2> QED BY <2>1, <2>3, <2>4
<1>4. CASE Submit
  <2> DEFINE new == [imports[w] EXCEPT !.paid = @ + 1]
  <2>1. new \in Import /\ new.published = None /\ new.from = imports[w].from
                       /\ new.to = imports[w].to
    BY <1>1, <1>2 DEF Import
  <2>2. imports' = [imports EXCEPT ![w] = new] /\ rows' = rows
    BY <1>4 DEF Submit
  <2>3. /\ imports' \in [Id -> Import \cup {None}] /\ Pending' = Pending
        /\ \A i \in Id : imports'[i] # None => rows'[i] \subseteq Days(i)'
    <3> HIDE DEF new
    <3> QED BY <1>3, <2>1, <2>2
  <2>4. job' \in [Id -> [state : {"none", "running", "done", "failed"}, bytes : Nat]]
    BY <1>4 DEF Submit, TypeOK
  <2> QED BY <1>1, <1>4, <2>3, <2>4 DEF Submit, TypeOK, request
<1>5. CASE Settle
  <2> DEFINE new == [imports[w] EXCEPT !.billed = job[w].bytes]
  <2>1. new \in Import /\ new.published = None /\ new.from = imports[w].from
                       /\ new.to = imports[w].to
    BY <1>1, <1>2 DEF Import, TypeOK
  <2>2. imports' = [imports EXCEPT ![w] = new] /\ rows' = rows
    BY <1>5 DEF Settle
  <2>3. /\ imports' \in [Id -> Import \cup {None}] /\ Pending' = Pending
        /\ \A i \in Id : imports'[i] # None => rows'[i] \subseteq Days(i)'
    <3> HIDE DEF new
    <3> QED BY <1>3, <2>1, <2>2
  <2>4. imports[w].from \in Int /\ imports'[w].from = imports[w].from
    <3>1. imports'[w] = new
      BY <1>1, <2>2 DEF TypeOK
    <3> QED BY <1>1, <2>1, <3>1 DEF Import
  <2>5. /\ worker' \in [at : {"idle", "start", "poll", "settle", "page", "cleanup"},
                         id : Id \cup {None}, next : Int \cup {None}]
        /\ worker'.id = w /\ worker'.next = imports[w].from
    BY <1>5, <2>4 DEF Settle, TypeOK
  <2>6. UNCHANGED <<kind, today, rows, partition, source, job, size, attempted, reader, faults>>
    BY <1>5 DEF Settle, request
  <2>7. worker'.next \in Int /\ imports'[w].from <= worker'.next
    BY <2>4, <2>5
  <2>8. \A i, j \in Pending' : i = j
    BY <2>3 DEF TypeOK
  <2> HIDE DEF w
  <2> QED BY <1>1, <2>3, <2>5, <2>6, <2>7, <2>8 DEF TypeOK
<1>6. CASE Stage
  <2>1. /\ worker.next \in Int /\ imports[w].from <= worker.next /\ worker.next < imports[w].to
        /\ imports[w].from \in Int /\ imports[w].to \in Int
    BY <1>1, <1>6 DEF Stage, TypeOK, Import
  <2>2. worker.next \in Days(w)
    BY <2>1 DEF Days
  <2>3. rows' \in [Id -> SUBSET Int]
    BY <1>1, <1>6, <2>1 DEF Stage, TypeOK
  <2>4. \A i \in Id : imports'[i] # None => rows'[i] \subseteq Days(i)'
    BY <1>1, <1>6, <2>2 DEF Stage, TypeOK, Days
  <2>5. /\ worker' \in [at : {"idle", "start", "poll", "settle", "page", "cleanup"},
                         id : Id \cup {None}, next : Int \cup {None}]
        /\ worker'.at = "page" /\ worker'.id = w
        /\ worker'.next \in Int /\ imports[w].from <= worker'.next
    BY <1>6, <2>1 DEF Stage, TypeOK
  <2>6. Pending' = Pending
    BY <1>6 DEF Stage, Pending
  <2> QED BY <1>1, <1>6, <2>3, <2>4, <2>5, <2>6 DEF Stage, TypeOK, request
<1>7. CASE Existing \/ Polled
  <2>1. Pending' = Pending /\ \A i \in Id : Days(i)' = Days(i)
    BY <1>7 DEF Existing, Polled, store, Pending, Days
  <2>2. /\ worker' \in [at : {"idle", "start", "poll", "settle", "page", "cleanup"},
                         id : Id \cup {None}, next : Int \cup {None}]
        /\ worker'.id = w /\ worker'.at # "page"
    BY <1>7 DEF Existing, Polled, TypeOK
  <2>3. UNCHANGED <<imports, rows, partition, source, kind, today, job, size, attempted, reader,
                    faults>>
    BY <1>7 DEF Existing, Polled, store, request
  <2>4. \A i \in Id : imports'[i] # None => rows'[i] \subseteq Days(i)'
    BY <2>1, <2>3 DEF TypeOK
  <2>5. \A i, j \in Pending' : i = j
    BY <2>1 DEF TypeOK
  <2> HIDE DEF w
  <2> QED BY <1>1, <2>1, <2>2, <2>3, <2>4, <2>5 DEF TypeOK
<1>8. CASE PolledError
  <2>1. Pending' = Pending /\ \A i \in Id : Days(i)' = Days(i)
    BY <1>8 DEF PolledError, Pending, Days
  <2>2. worker' = Idle /\ source' \in [revision : Id \cup {None}, fault : BOOLEAN]
    BY <1>8 DEF PolledError, TypeOK
  <2> QED BY <1>8, <2>1, <2>2 DEF PolledError, request, TypeOK, Idle
<1> QED BY <1>4, <1>5, <1>6, <1>7, <1>8

LEMMA PublishType ==
    ASSUME TypeOK, Publish
    PROVE  TypeOK'
<1> USE ConstantsAssumption, NoneAssumption
<1> DEFINE w == worker.id
<1>1. w \in Pending /\ w \in Id /\ imports[w] # None /\ imports[w] \in Import
  BY ImportType DEF TypeOK, Publish, Pending
<1> DEFINE new == [imports[w] EXCEPT !.published = today]
<1>2. /\ new \in Import /\ new.published # None /\ new.from = imports[w].from
      /\ new.to = imports[w].to
  BY <1>1 DEF Import, TypeOK
<1>3. imports' = [imports EXCEPT ![w] = new]
  BY DEF Publish
<1> HIDE DEF new
<1>4. imports' \in [Id -> Import \cup {None}]
  BY <1>2, <1>3 DEF TypeOK
<1>5. imports'[w] = new /\ \A i \in Id \ {w} : imports'[i] = imports[i]
  BY <1>1, <1>3 DEF TypeOK
<1>6. Pending' \subseteq Pending
  BY <1>1, <1>2, <1>5 DEF Pending
<1>7. \A i \in Id : imports'[i] # None => rows'[i] \subseteq Days(i)'
  BY <1>1, <1>2, <1>5 DEF TypeOK, Days, Publish
<1>8. partition' \in [Day -> Id \cup {None}]
  BY <1>1 DEF Publish, TypeOK
<1>9. reader' \in [at : {"out", "first", "second", "check", "answered"},
                  status : BOOLEAN \cup {None}, mixed : BOOLEAN]
  <2>1. reader' = [reader EXCEPT !.status = None, !.mixed = @ \/ reader.at = "second"]
    BY DEF Publish
  <2>2. (reader.mixed \/ reader.at = "second") \in BOOLEAN
    OBVIOUS
  <2> QED BY <2>1, <2>2 DEF TypeOK
<1> QED BY <1>1, <1>4, <1>6, <1>7, <1>8, <1>9 DEF Publish, TypeOK, Idle

LEMMA CleanupType ==
    ASSUME TypeOK, Cleanup
    PROVE  TypeOK'
<1> USE ConstantsAssumption, NoneAssumption
<1>1. \A i \in Id : imports'[i] = None \/ imports'[i] = imports[i]
  BY DEF Cleanup
<1>2. imports' \in [Id -> Import \cup {None}]
  BY DEF Cleanup, TypeOK
<1>3. Pending' \subseteq Pending
  BY <1>1 DEF Pending
<1>4. rows' \in [Id -> SUBSET Int] /\ \A i \in Id : rows'[i] \subseteq rows[i]
  BY DEF Cleanup, TypeOK
<1>5. \A i \in Id : imports'[i] # None => rows'[i] \subseteq Days(i)'
  BY <1>1, <1>4 DEF TypeOK, Days
<1> QED BY <1>2, <1>3, <1>4, <1>5 DEF Cleanup, TypeOK, Idle, request

\* What the worker does not do leaves the imports alone.
Progress ==
    /\ \A i, j \in Pending : i = j
    /\ worker.at \in {"start", "poll", "settle", "page"} => worker.id \in Pending
    /\ worker.at = "page" => worker.next \in Int /\ imports[worker.id].from <= worker.next
    /\ \A i \in Id : imports[i] # None => rows[i] \subseteq Days(i)

LEMMA Unmoved ==
    ASSUME TypeOK, UNCHANGED <<imports, rows>>, worker' = worker \/ worker'.at = "idle"
    PROVE  Progress'
<1>1. Pending' = Pending /\ \A i \in Id : Days(i)' = Days(i)
  BY DEF Pending, Days
<1> QED BY <1>1 DEF TypeOK, Progress

LEMMA OtherType ==
    ASSUME TypeOK,
           \/ Fault \/ Restart \/ Tick \/ \E due \in Due : Refused(due)
           \/ \E i \in Id : JobEnds(i)
           \/ ReadStatus \/ ReadRows \/ Respond \/ Received
    PROVE  TypeOK'
<1> USE ConstantsAssumption, NoneAssumption
<1>1. /\ kind \in Kinds /\ today \in First..Last
      /\ imports \in [Id -> Import \cup {None}] /\ rows \in [Id -> SUBSET Int]
      /\ partition \in [Day -> Id \cup {None}] /\ size \in Sizes
      /\ attempted \in BOOLEAN /\ faults \in 0..MaxFaults
      /\ source \in [revision : Id \cup {None}, fault : BOOLEAN]
      /\ job \in [Id -> [state : {"none", "running", "done", "failed"}, bytes : Nat]]
      /\ worker \in [at : {"idle", "start", "poll", "settle", "page", "cleanup"},
                     id : Id \cup {None}, next : Int \cup {None}]
      /\ reader \in [at : {"out", "first", "second", "check", "answered"},
                     status : BOOLEAN \cup {None}, mixed : BOOLEAN]
  BY DEF TypeOK
<1>2. CASE Fault
  <2>1. Progress'
    BY <1>2, Unmoved DEF Fault, Idle
  <2>2. faults' \in 0..MaxFaults
    BY <1>1, <1>2 DEF Fault
  <2>3. source' \in [revision : Id \cup {None}, fault : BOOLEAN]
    BY <1>1, <1>2 DEF Fault
  <2> QED BY <1>1, <1>2, <2>1, <2>2, <2>3 DEF Fault, TypeOK, Progress, Idle, request
<1>3. CASE Restart
  <2>1. Progress'
    BY <1>3, Unmoved DEF Restart, Idle, store
  <2>2. faults' \in 0..MaxFaults
    BY <1>1, <1>3 DEF Restart
  <2>3. /\ worker' \in [at : {"idle", "start", "poll", "settle", "page", "cleanup"},
                         id : Id \cup {None}, next : Int \cup {None}]
        /\ reader' \in [at : {"out", "first", "second", "check", "answered"},
                        status : BOOLEAN \cup {None}, mixed : BOOLEAN]
    BY <1>3 DEF Restart, Idle, NoRead
  <2>4. UNCHANGED <<kind, today, imports, rows, partition, source, job, attempted>>
        /\ size' \in Sizes
    BY <1>3 DEF Restart, store
  <2> QED BY <1>1, <2>1, <2>2, <2>3, <2>4 DEF TypeOK, Progress
<1>4. CASE Tick
  <2>1. Progress'
    BY <1>4, Unmoved DEF Tick, store
  <2>2. today' \in First..Last /\ attempted' \in BOOLEAN
    <3>1. today \in First..Last /\ today < Last /\ today' = today + 1 /\ attempted' = FALSE
      BY <1>1, <1>4 DEF Tick
    <3>2. First \in Int /\ Last \in Int
      OBVIOUS
    <3>3. today' \in First..Last
      BY <3>1, <3>2
    <3>4. attempted' \in BOOLEAN
      BY <3>1
    <3> QED BY <3>3, <3>4
  <2>3. UNCHANGED <<kind, imports, rows, partition, source, size, job, worker, reader, faults>>
    BY <1>4 DEF Tick, store, request
  <2> QED BY <1>1, <2>1, <2>2, <2>3 DEF TypeOK, Progress
<1>5. ASSUME NEW due \in Due, Refused(due) PROVE TypeOK'
  <2>1. Progress'
    BY <1>5, Unmoved DEF Refused
  <2>2. source' \in [revision : Id \cup {None}, fault : BOOLEAN]
    BY <1>1, <1>5 DEF Refused
  <2> QED BY <1>1, <1>5, <2>1, <2>2 DEF Refused, TypeOK, Progress, request
<1>6. ASSUME NEW i \in Id, JobEnds(i) PROVE TypeOK'
  <2>1. Progress'
    BY <1>6, Unmoved DEF JobEnds, store
  <2>2. PICK b \in 0..job[i].bytes :
            \/ job' = [job EXCEPT ![i] = [state |-> "done", bytes |-> b]]
            \/ job' = [job EXCEPT ![i] = [state |-> "failed", bytes |-> b]]
    BY <1>6 DEF JobEnds
  <2>3. b \in Nat
    BY <1>1, <2>2
  <2>4. job' \in [Id -> [state : {"none", "running", "done", "failed"}, bytes : Nat]]
    BY <1>1, <2>2, <2>3
  <2>5. UNCHANGED <<kind, today, imports, rows, partition, source, size, worker, attempted, reader,
                    faults>>
    BY <1>6 DEF JobEnds, store, request
  <2> QED BY <1>1, <2>1, <2>4, <2>5 DEF TypeOK, Progress
<1>7. CASE ReadStatus \/ ReadRows \/ Respond \/ Received
  <2>1. Progress'
    BY <1>7, Unmoved DEF ReadStatus, ReadRows, Respond, Received, store
  <2>2. reader' \in [at : {"out", "first", "second", "check", "answered"},
                     status : BOOLEAN \cup {None}, mixed : BOOLEAN]
    <3>1. CASE ReadStatus
      <4>1. reader' = [at |-> "first", status |-> source.fault, mixed |-> FALSE]
        BY <3>1 DEF ReadStatus, NoRead
      <4>2. source.fault \in BOOLEAN
        BY <1>1
      <4> QED BY <4>1, <4>2
    <3>2. CASE ReadRows
      <4>1. reader' = [reader EXCEPT !.at = IF reader.at = "first" THEN "second" ELSE "check"]
        BY <3>2 DEF ReadRows
      <4> QED BY <1>1, <4>1
    <3>3. CASE Respond
      BY <1>1, <3>3 DEF Respond, NoRead
    <3>4. CASE Received
      BY <3>4 DEF Received, NoRead
    <3> QED BY <1>7, <3>1, <3>2, <3>3, <3>4
  <2> QED BY <1>1, <1>7, <2>1, <2>2
          DEF ReadStatus, ReadRows, Respond, Received, TypeOK, Progress, store
<1> QED BY <1>2, <1>3, <1>4, <1>5, <1>6, <1>7

-----------------------------------------------------------------------------
(* What is visible stays whole.                                            *)

\* A step that leaves what was published alone leaves what is visible whole.
LEMMA StaysWhole ==
    ASSUME TypeOK, NeverPartial, partition' = partition,
           \A i \in Id : imports[i] # None /\ imports[i].published # None
                            /\ (\E d \in Day : partition[d] = i) =>
                /\ imports'[i] # None /\ imports'[i].published # None
                /\ \A d \in rows[i] : partition[d] = i => d \in rows'[i]
    PROVE  NeverPartial'
<1> SUFFICES ASSUME NEW d \in Day, partition[d] # None
             PROVE  /\ imports'[partition[d]] # None
                    /\ imports'[partition[d]].published # None
                    /\ d \in rows'[partition[d]]
  BY DEF NeverPartial
<1>1. partition[d] \in Id
  BY DEF TypeOK
<1> QED BY <1>1 DEF NeverPartial

LEMMA WholeStep ==
    ASSUME TypeOK, NeverPartial, [Next]_costs
    PROVE  NeverPartial'
<1> USE ConstantsAssumption, NoneAssumption
<1>1. ASSUME NEW due \in Due, Begin(due) PROVE NeverPartial'
  <2>1. PICK id \in Id : \E more \in Nat : Begun(id, more)
    BY <1>1, Begins
  <2>2. PICK more \in Nat : Begun(id, more)
    BY <2>1
  <2>3. imports[id] = None \/ imports[id].published = None
    BY <2>2 DEF Begun, Resumed, Added, Pending
  <2>4. \A i \in Id \ {id} : imports'[i] = imports[i] /\ rows'[i] = rows[i]
    BY <2>2 DEF Begun, Resumed, Added, TypeOK
  <2>5. partition' = partition
    BY <2>2 DEF Begun
  <2> QED BY <2>3, <2>4, <2>5, StaysWhole
<1>2. CASE Submit \/ Settle \/ Stage
  <2> DEFINE w == worker.id
  <2>1. w \in Id /\ imports[w].published = None
    BY <1>2 DEF Submit, Settle, Stage, TypeOK, Pending
  <2>2. \A i \in Id \ {w} : imports'[i] = imports[i] /\ rows'[i] = rows[i]
    BY <1>2 DEF Submit, Settle, Stage, TypeOK
  <2>3. partition' = partition
    BY <1>2 DEF Submit, Settle, Stage
  <2> QED BY <2>1, <2>2, <2>3, StaysWhole
<1>3. CASE Publish
  <2> DEFINE w == worker.id
  <2>1. w \in Id /\ imports[w].published = None /\ imports[w] # None /\ imports[w] \in Import
    BY <1>3, ImportType DEF Publish, TypeOK, Pending
  <2>2. rows' = rows /\ rows[w] = Days(w)
    BY <1>3 DEF Publish, Complete
  <2>3. \A i \in Id \ {w} : imports'[i] = imports[i]
    BY <1>3 DEF Publish, TypeOK
  <2>4. imports'[w] = [imports[w] EXCEPT !.published = today]
    BY <1>3, <2>1 DEF Publish, TypeOK
  <2>5. imports'[w] # None /\ imports'[w].published # None
    <3>1. [imports[w] EXCEPT !.published = today] \in Import
      BY <2>1 DEF TypeOK, Import
    <3>2. [imports[w] EXCEPT !.published = today].published = today
      BY <2>1 DEF Import
    <3>3. today # None
      BY DEF TypeOK
    <3> QED BY <2>4, <3>1, <3>2, <3>3
  <2> SUFFICES ASSUME NEW d \in Day, partition'[d] # None
               PROVE  /\ imports'[partition'[d]] # None
                      /\ imports'[partition'[d]].published # None
                      /\ d \in rows'[partition'[d]]
    BY DEF NeverPartial
  <2>6. (d \in Days(w) /\ partition'[d] = w) \/ partition'[d] = partition[d]
    BY <1>3 DEF Publish
  <2>7. CASE d \in Days(w) /\ partition'[d] = w
    BY <2>2, <2>5, <2>7
  <2>8. CASE partition'[d] = partition[d]
    <3>1. partition[d] \in Id /\ imports[partition[d]] # None /\ d \in rows[partition[d]]
            /\ imports[partition[d]].published # None
      BY <2>8 DEF TypeOK, NeverPartial
    <3>2. partition[d] # w
      BY <2>1, <3>1
    <3> QED BY <2>2, <2>3, <2>8, <3>1, <3>2
  <2> QED BY <2>6, <2>7, <2>8
<1>4. CASE Cleanup
  <2>1. ASSUME NEW i \in Id, NEW d \in Day, partition[d] = i
        PROVE  imports'[i] = imports[i] /\ \A e \in rows[i] : partition[e] = i => e \in rows'[i]
    BY <1>4, <2>1 DEF Cleanup, Obsolete, Referred
  <2>2. partition' = partition
    BY <1>4 DEF Cleanup
  <2> QED BY <2>1, <2>2, StaysWhole
<1>5. CASE UNCHANGED <<imports, rows, partition>>
  BY <1>5 DEF NeverPartial
<1> QED BY <1>1, <1>2, <1>3, <1>4, <1>5
        DEF Next, Worker, Existing, Polled, PolledError, Fault, Restart, Tick, Refused, JobEnds,
            ReadStatus, ReadRows, Respond, Received, store, costs

-----------------------------------------------------------------------------
(* A request that read two publications knows.                             *)

LEMMA NoticedStep ==
    ASSUME TypeOK, Noticed, [Next]_costs
    PROVE  Noticed'
<1> USE ConstantsAssumption, NoneAssumption
<1>1. CASE Publish
  <2>1. reader'.at = reader.at /\ reader'.status = None
        /\ reader'.mixed = (reader.mixed \/ reader.at = "second")
    BY <1>1 DEF Publish, TypeOK
  <2>2. reader'.mixed => reader.mixed \/ reader.at = "second"
    BY <2>1
  <2>3. reader'.mixed => reader.at \in {"second", "check"}
    BY <2>2 DEF Noticed
  <2> QED BY <2>1, <2>3 DEF Noticed
<1>2. CASE ReadStatus \/ Restart \/ Received
  <2>1. reader' = NoRead \/ reader' = [at |-> "first", status |-> source.fault, mixed |-> FALSE]
    BY <1>2 DEF ReadStatus, Restart, Received, NoRead
  <2>2. ~reader'.mixed
    BY <2>1 DEF NoRead
  <2> QED BY <2>2 DEF Noticed
<1>3. CASE ReadRows
  BY <1>3 DEF ReadRows, Noticed, TypeOK
<1>4. CASE Respond
  <2>1. source.fault # None
    BY DEF TypeOK
  <2>2. CASE reader.mixed
    <3>1. ~Unchanged
      BY <2>1, <2>2 DEF Noticed, Unchanged
    <3>2. reader' = NoRead
      BY <1>4, <3>1 DEF Respond
    <3> QED BY <3>2 DEF Noticed, NoRead
  <2>3. CASE ~reader.mixed
    <3>1. reader' = NoRead \/ reader' = [reader EXCEPT !.at = "answered"]
      BY <1>4 DEF Respond
    <3>2. ~reader'.mixed
      BY <2>3, <3>1 DEF TypeOK, NoRead
    <3> QED BY <3>2 DEF Noticed
  <2> QED BY <2>2, <2>3
<1>5. CASE reader' = reader
  BY <1>5 DEF Noticed
<1>6. ASSUME NEW due \in Due, Begin(due) PROVE reader' = reader
  BY <1>6 DEF Begin, request
<1> QED BY <1>1, <1>2, <1>3, <1>4, <1>5, <1>6
        DEF Next, Worker, Submit, Settle, Stage, Cleanup, Existing, Polled, PolledError, Fault,
            Tick, Refused, JobEnds, request, costs

-----------------------------------------------------------------------------
(* What is paid.                                                           *)

\* A step that adds no import to those that count, nor to the amount of one.
LEMMA NoMore ==
    ASSUME IsFiniteSet(Units), Charged <= Daily,
           \A i \in Counted' : /\ i \in Counted
                               /\ Amount(i) \in Nat /\ Amount(i)' \in Nat
                               /\ Amount(i)' <= Amount(i)
    PROVE  IsFiniteSet(Units)' /\ Charged' <= Daily
<1>1. Units' \subseteq Units
  <2> SUFFICES ASSUME NEW i \in Counted', NEW n \in 1..Amount(i)'
               PROVE  <<i, n>> \in Units
    BY DEF Units
  <2>1. i \in Counted /\ n \in 1..Amount(i)
    OBVIOUS
  <2> QED BY <2>1 DEF Units
<1>2. IsFiniteSet(Units)' /\ Cardinality(Units)' <= Cardinality(Units)
  BY <1>1, FS_Subset
<1>3. Cardinality(Units) \in Nat /\ Cardinality(Units)' \in Nat
  BY <1>2, FS_CardinalityType
<1> QED BY <1>2, <1>3, ConstantsAssumption DEF Charged

\* What Begin adds was allowed.
LEMMA SomeMore ==
    ASSUME TypeOK, Paid, IsFiniteSet(Units), Charged <= Daily,
           NEW id \in Id, NEW more \in Nat, Begun(id, more)
    PROVE  IsFiniteSet(Units)' /\ Charged' <= Daily
<1> USE ConstantsAssumption, NoneAssumption
<1> DEFINE had == IF imports[id] = None THEN 0 ELSE imports[id].reserved
           New == {id} \X ((had + 1)..(had + more))
<1>1. had \in Nat
  BY ImportType
<1>2. \A i \in Id \ {id} : imports'[i] = imports[i]
  BY DEF Begun, Resumed, Added, TypeOK
<1>3. today' = today
  BY DEF Begun
<1>4. \A i \in Counted' \ {id} : i \in Counted /\ Amount(i)' = Amount(i)
  BY <1>2, <1>3 DEF Counted, Amount
<1>5. ASSUME NEW n \in 1..Amount(id)' PROVE <<id, n>> \in Units \cup New
  <2>1. CASE Resumed(id, more)
    <3>1. id \in Counted /\ imports[id] \in Import /\ imports[id] # None
      BY <2>1, ImportType DEF Resumed, Counted, Pending
    <3>2. imports'[id] = [imports[id] EXCEPT !.reserved = imports[id].reserved + more]
      BY <2>1 DEF Resumed, TypeOK
    <3>3. /\ imports'[id].billed = imports[id].billed
          /\ imports'[id].reserved = imports[id].reserved + more
      BY <3>1, <3>2 DEF Import
    <3>4. CASE n \in 1..Amount(id)
      BY <3>1, <3>4 DEF Units
    <3>5. CASE n \notin 1..Amount(id)
      <4>1. imports[id].billed = None
        BY <3>3, <3>5, <1>5 DEF Amount
      <4>2. n \in 1..(had + more) /\ n \notin 1..had
        BY <1>5, <3>1, <3>3, <3>5, <4>1 DEF Amount
      <4>3. n \in (had + 1)..(had + more)
        <5> HIDE DEF had
        <5> QED BY <1>1, <4>2
      <4> QED BY <4>3
    <3> QED BY <3>4, <3>5
  <2>2. CASE Added(id, more)
    <3>1. imports'[id].billed = None /\ imports'[id].reserved = more /\ had = 0
      BY <2>2 DEF Added, TypeOK
    <3>2. n \in 1..more
      BY <1>5, <3>1 DEF Amount
    <3> QED BY <3>1, <3>2
  <2> QED BY <2>1, <2>2 DEF Begun
<1>6. Units' \subseteq Units \cup New
  <2> SUFFICES ASSUME NEW i \in Counted', NEW n \in 1..Amount(i)'
               PROVE  <<i, n>> \in Units \cup New
    BY DEF Units
  <2>1. CASE i = id
    BY <1>5, <2>1
  <2>2. CASE i # id
    BY <1>4, <2>2 DEF Units
  <2> QED BY <2>1, <2>2
<1>7. IsFiniteSet(New) /\ Cardinality(New) = more
  <2> DEFINE I == (had + 1)..(had + more)
  <2>1. IsFiniteSet(I) /\ Cardinality(I) = more
    <3> HIDE DEF had
    <3>1. had + 1 \in Int /\ had + more \in Int
      BY <1>1
    <3>2. /\ IsFiniteSet((had + 1)..(had + more))
          /\ Cardinality((had + 1)..(had + more))
                = IF had + 1 > had + more THEN 0 ELSE (had + more) - (had + 1) + 1
      BY <3>1, FS_Interval
    <3> QED BY <1>1, <3>2
  <2>2. IsFiniteSet({id}) /\ Cardinality({id}) = 1
    BY FS_Singleton
  <2>3. IsFiniteSet({id} \X I) /\ Cardinality({id} \X I) = 1 * more
    <3> HIDE DEF I
    <3> QED BY <2>1, <2>2, FS_Product
  <2> QED BY <2>3
<1> HIDE DEF New
<1>8. /\ IsFiniteSet(Units \cup New)
      /\ Cardinality(Units \cup New)
            = Cardinality(Units) + Cardinality(New) - Cardinality(Units \cap New)
  BY <1>7, FS_Union
<1>9. IsFiniteSet(Units \cap New)
  BY <1>7, FS_Intersection
<1>10. IsFiniteSet(Units)' /\ Cardinality(Units)' <= Cardinality(Units \cup New)
  BY <1>6, <1>8, FS_Subset
<1>11. /\ Cardinality(Units) \in Nat /\ Cardinality(Units)' \in Nat
       /\ Cardinality(Units \cap New) \in Nat /\ Cardinality(Units \cup New) \in Nat
  BY <1>8, <1>9, <1>10, FS_CardinalityType
<1>12. Charged + more <= Daily
  BY DEF Begun
<1> QED BY <1>7, <1>8, <1>10, <1>11, <1>12 DEF Charged

LEMMA PaidBegin ==
    ASSUME TypeOK, TypeOK', Paid, NEW id \in Id, NEW more \in Nat, Begun(id, more)
    PROVE  Paid'
<1> USE ConstantsAssumption, NoneAssumption
<1>1. kind' = kind /\ Reservation' = Reservation /\ today' = today
  BY DEF Begun, Reservation
<1>2. \A i \in Id \ {id} : imports'[i] = imports[i] /\ job'[i] = job[i]
  BY DEF Begun, Resumed, Added, TypeOK
<1>3. Reservation \in Nat
  BY Reserves
<1>4. /\ imports'[id].started <= today
      /\ imports'[id].paid <= 1
      /\ job'[id] = NoJob => imports'[id].paid = 0
      /\ job'[id].bytes <= imports'[id].reserved
      /\ imports'[id].billed # None => /\ imports'[id].billed = job'[id].bytes
                                       /\ kind = "gcp" => job'[id].state = "done"
      /\ imports'[id].reserved >= Reservation
      /\ kind # "gcp" => job'[id] = NoJob
  <2>1. CASE Resumed(id, more)
    <3>1. imports[id] \in Import /\ imports[id] # None /\ imports[id].reserved \in Nat
      BY <2>1, ImportType DEF Resumed
    <3>2. imports'[id] = [imports[id] EXCEPT !.reserved = imports[id].reserved + more]
      BY <2>1 DEF Resumed, TypeOK
    <3>3. /\ imports'[id].billed = imports[id].billed /\ imports'[id].paid = imports[id].paid
          /\ imports'[id].started = imports[id].started
          /\ imports'[id].reserved = imports[id].reserved + more
      BY <3>1, <3>2 DEF Import
    <3>4. job' = job /\ imports[id].reserved + more >= Reservation /\ job[id].bytes \in Nat
      BY <2>1 DEF Resumed, TypeOK
    <3> QED BY <3>1, <3>3, <3>4 DEF Paid, PaidFor
  <2>2. CASE Added(id, more)
    <3>1. /\ imports'[id].billed = None /\ imports'[id].paid = 0
          /\ imports'[id].started = today /\ imports'[id].reserved = Reservation
      BY <2>2 DEF Added, TypeOK
    <3>2. job'[id] = NoJob /\ NoJob.bytes = 0
      BY <2>2 DEF Added, TypeOK, NoJob
    <3> QED BY <1>3, <3>1, <3>2 DEF TypeOK
  <2> QED BY <2>1, <2>2 DEF Begun
<1>5. worker'.id = id /\ (kind = "gcp" => worker'.at = "start") /\ (kind # "gcp" => worker'.at = "settle")
  BY DEF Begun
<1> QED BY <1>1, <1>2, <1>4, <1>5 DEF Paid, PaidFor

\* The steps of an import under way.
LEMMA PaidWork ==
    ASSUME TypeOK, TypeOK', Paid,
           Submit \/ Existing \/ Polled \/ PolledError \/ Settle \/ Stage
    PROVE  /\ Paid'
           /\ \A i \in Counted' : i \in Counted /\ Amount(i)' <= Amount(i)
<1> USE ConstantsAssumption, NoneAssumption
<1>0. PICK w : w = worker.id
  OBVIOUS
<1>1. w \in Id /\ imports[w] # None /\ imports[w] \in Import /\ w \in Counted
  BY <1>0, ImportType DEF TypeOK, Submit, Existing, Polled, PolledError, Settle, Stage, Pending, Counted
<1>2. kind' = kind /\ Reservation' = Reservation /\ today' = today
  BY DEF Submit, Existing, Polled, PolledError, Settle, Stage, Reservation
<1>3. CASE Submit
  <2>10. PaidFor(w) /\ kind = "gcp" /\ job[w] = NoJob /\ imports[w].reserved >= Reservation
    BY <1>0, <1>1, <1>3 DEF Submit, Paid
  <2>11. Reservation = size /\ size \in Nat /\ imports[w].reserved \in Nat
    BY <1>1, <2>10, ImportType DEF Reservation, TypeOK
  <2>12. imports[w].paid = 0 /\ imports[w].billed = None
    BY <2>10 DEF PaidFor, NoJob
  <2>1. kind = "gcp" /\ Reservation = size /\ job[w] = NoJob /\ imports[w].paid = 0
        /\ imports[w].billed = None /\ size <= imports[w].reserved
    BY <2>10, <2>11, <2>12
  <2>2. /\ imports'[w] = [imports[w] EXCEPT !.paid = @ + 1]
        /\ job'[w] = [state |-> "running", bytes |-> size]
        /\ \A i \in Id \ {w} : imports'[i] = imports[i] /\ job'[i] = job[i]
    BY <1>0, <1>1, <1>3 DEF Submit, TypeOK
  <2>3. /\ imports'[w].paid = 1 /\ imports'[w].billed = None
        /\ imports'[w].reserved = imports[w].reserved /\ imports'[w].started = imports[w].started
        /\ imports'[w].published = imports[w].published
    BY <1>1, <2>1, <2>2 DEF Import
  <2>4. worker'.at = "poll"
    BY <1>0, <1>3 DEF Submit, TypeOK
  <2>5. Paid'
    <3>1. PaidFor(w)'
      BY <1>1, <1>2, <2>1, <2>2, <2>3 DEF Paid, PaidFor, NoJob
    <3>2. \A i \in Id \ {w} : imports'[i] # None => PaidFor(i)'
      BY <1>2, <2>2 DEF Paid, PaidFor
    <3>3. \A i \in Id : imports'[i] # None => PaidFor(i)'
      BY <3>1, <3>2
    <3> QED BY <1>2, <2>1, <2>4, <3>3 DEF Paid
  <2>6. \A i \in Counted' : i \in Counted /\ Amount(i)' = Amount(i)
    BY <1>1, <1>2, <2>1, <2>2, <2>3 DEF Counted, Amount
  <2> QED BY <2>5, <2>6, ImportType DEF Counted
<1>4. CASE Settle
  <2>1. /\ imports'[w] = [imports[w] EXCEPT !.billed = job[w].bytes]
        /\ \A i \in Id \ {w} : imports'[i] = imports[i]
        /\ job' = job
    BY <1>0, <1>1, <1>4 DEF Settle, TypeOK
  <2>2. job[w].bytes \in Nat /\ job[w].bytes <= imports[w].reserved /\ job[w].bytes # None
    BY <1>1 DEF TypeOK, Paid, PaidFor
  <2>3. /\ imports'[w].billed = job[w].bytes /\ imports'[w].paid = imports[w].paid
        /\ imports'[w].reserved = imports[w].reserved /\ imports'[w].started = imports[w].started
        /\ imports'[w].published = imports[w].published
    BY <1>1, <2>1 DEF Import
  <2>4. worker'.at = "page"
    BY <1>0, <1>4 DEF Settle, TypeOK
  <2>5. kind = "gcp" => job[w].state = "done"
    BY <1>0, <1>4 DEF Settle, Paid, PaidFor
  <2>6. Paid'
    <3>1. PaidFor(w)'
      BY <1>1, <1>2, <2>1, <2>2, <2>3, <2>5 DEF Paid, PaidFor
    <3>2. \A i \in Id \ {w} : imports'[i] # None => PaidFor(i)'
      BY <1>2, <2>1 DEF Paid, PaidFor
    <3>3. \A i \in Id : imports'[i] # None => PaidFor(i)'
      BY <3>1, <3>2
    <3> QED BY <1>2, <2>1, <2>4, <3>3 DEF Paid
  <2>7. Amount(w)' <= Amount(w)
    BY <1>1, <2>2, <2>3 DEF Amount, Paid, PaidFor
  <2>8. \A i \in Counted' \ {w} : i \in Counted /\ Amount(i)' = Amount(i)
    BY <1>1, <1>2, <2>1 DEF Counted, Amount
  <2> QED BY <1>1, <2>6, <2>7, <2>8, ImportType DEF Counted
<1>5. CASE Existing \/ Polled \/ PolledError \/ Stage
  <2>1. imports' = imports /\ job' = job
    BY <1>0, <1>5 DEF Existing, Polled, PolledError, Stage, store
  <2>2. Counted' = Counted /\ \A i \in Counted : Amount(i)' = Amount(i)
    BY <1>2, <2>1 DEF Counted, Amount
  <2>3. /\ worker'.at # "start" /\ (worker'.at = "poll" => worker.at = "start")
        /\ worker'.at = "settle" => worker'.id = w /\ job[w].state = "done"
    BY <1>0, <1>5 DEF Existing, Polled, PolledError, Stage, Idle, TypeOK
  <2>4. Paid'
    BY <1>0, <1>2, <2>1, <2>3 DEF Paid, PaidFor
  <2> QED BY <2>2, <2>4, ImportType DEF Counted
<1> QED BY <1>3, <1>4, <1>5

\* The steps that end an import, or are not of one.
LEMMA PaidOther ==
    ASSUME TypeOK, TypeOK', Paid,
           \/ Publish \/ Cleanup \/ Fault \/ Restart \/ Tick \/ \E due \in Due : Refused(due)
           \/ \E i \in Id : JobEnds(i)
           \/ ReadStatus \/ ReadRows \/ Respond \/ Received
    PROVE  /\ Paid'
           /\ \A i \in Counted' : i \in Counted /\ Amount(i)' <= Amount(i)
<1> USE ConstantsAssumption, NoneAssumption
<1>1. kind' = kind
  BY DEF Publish, Cleanup, Fault, Restart, Tick, Refused, JobEnds, ReadStatus, ReadRows, Respond,
         Received
<1>2. ASSUME NEW i \in Id, imports'[i] # None
      PROVE  /\ imports[i] # None
             /\ imports'[i].paid = imports[i].paid /\ imports'[i].billed = imports[i].billed
             /\ imports'[i].reserved = imports[i].reserved
             /\ imports'[i].started = imports[i].started
             /\ imports'[i].published = None => imports[i].published = None
             /\ today' = today \/ (today' = today + 1 /\ imports' = imports)
  <2>1. CASE Publish
    <3>1. PICK w : w = worker.id
      OBVIOUS
    <3>2. w \in Id /\ imports[w] # None /\ imports[w] \in Import /\ imports[w].published = None
      BY <2>1, <3>1, ImportType DEF Publish, TypeOK, Pending
    <3>3. /\ imports' = [imports EXCEPT ![w] = [imports[w] EXCEPT !.published = today]]
          /\ today' = today
      BY <2>1, <3>1 DEF Publish
    <3> QED BY <1>2, <3>2, <3>3 DEF TypeOK, Import
  <2>2. CASE Cleanup
    BY <1>2, <2>2 DEF Cleanup
  <2>3. CASE Tick
    BY <1>2, <2>3 DEF Tick, store
  <2>4. CASE imports' = imports /\ today' = today
    BY <1>2, <2>4
  <2> QED BY <2>1, <2>2, <2>3, <2>4
          DEF Fault, Restart, Refused, JobEnds, ReadStatus, ReadRows, Respond, Received, store
<1>3. \A i \in Counted' : i \in Counted /\ Amount(i)' <= Amount(i)
  <2> SUFFICES ASSUME NEW i \in Counted' PROVE i \in Counted /\ Amount(i)' <= Amount(i)
    OBVIOUS
  <2>1. i \in Id /\ imports'[i] # None /\ (imports'[i].started = today' \/ imports'[i].published = None)
    BY DEF Counted
  <2>2. imports[i] # None /\ imports[i].started <= today /\ imports[i].started \in Int /\ today \in Int
    BY <1>2, <2>1, ImportType DEF Paid, PaidFor, TypeOK
  <2>3. i \in Counted
    BY <1>2, <2>1, <2>2 DEF Counted
  <2>4. Amount(i)' = Amount(i) /\ Amount(i) \in Nat
    BY <1>2, <2>1, <2>2, ImportType DEF Amount
  <2> QED BY <2>3, <2>4
<1>4. ASSUME NEW i \in Id, imports'[i] # None PROVE PaidFor(i)'
  <2>1. PaidFor(i) /\ imports[i].started \in Int /\ today \in Int /\ imports[i].reserved \in Nat
    BY <1>2, <1>4, ImportType DEF Paid, TypeOK
  <2>2. CASE job' = job
    BY <1>1, <1>2, <1>4, <2>1, <2>2 DEF PaidFor
  <2>3. ASSUME NEW j \in Id, JobEnds(j) PROVE PaidFor(i)'
    <3>1. PICK b \in 0..job[j].bytes :
            \/ job' = [job EXCEPT ![j] = [state |-> "done", bytes |-> b]]
            \/ job' = [job EXCEPT ![j] = [state |-> "failed", bytes |-> b]]
      BY <2>3 DEF JobEnds
    <3>2. job[j].state = "running" /\ kind = "gcp"
      BY <2>3 DEF JobEnds, Paid, NoJob
    <3>3. CASE i # j
      <4>1. job'[i] = job[i]
        BY <3>1, <3>3 DEF TypeOK
      <4> QED BY <1>1, <1>2, <1>4, <2>1, <4>1 DEF PaidFor
    <3>4. CASE i = j
      <4>1. imports[i].billed = None
        BY <2>1, <3>2, <3>4 DEF PaidFor
      <4>2. job'[i].bytes \in Nat /\ job'[i].bytes <= job[i].bytes /\ job[i].bytes \in Nat
              /\ job'[i].state # "none"
        BY <3>1, <3>4 DEF TypeOK
      <4>3. job'[i] # NoJob
        BY <4>2 DEF NoJob
      <4> QED BY <1>1, <1>2, <1>4, <2>1, <4>1, <4>2, <4>3 DEF PaidFor
    <3> QED BY <3>3, <3>4
  <2> QED BY <2>2, <2>3
          DEF Publish, Cleanup, Fault, Restart, Tick, Refused, ReadStatus, ReadRows, Respond,
              Received, store
<1>5. \/ worker'.at \in {"idle", "cleanup"}
      \/ worker' = worker /\ imports' = imports /\ size' = size
  BY DEF Publish, Cleanup, Fault, Restart, Tick, Refused, JobEnds, ReadStatus, ReadRows, Respond,
         Received, store, Idle
<1>6. kind # "gcp" => \A i \in Id : job'[i] = NoJob
  <2>1. CASE job' = job
    BY <2>1 DEF Paid
  <2>2. ASSUME NEW j \in Id, JobEnds(j) PROVE kind = "gcp"
    BY <2>2 DEF JobEnds, Paid, NoJob
  <2> QED BY <2>1, <2>2
          DEF Publish, Cleanup, Fault, Restart, Tick, Refused, ReadStatus, ReadRows, Respond,
              Received, store
<1>7. kind = "gcp" /\ worker'.at = "settle" => job'[worker'.id].state = "done"
  <2>1. CASE worker'.at \in {"idle", "cleanup"}
    BY <2>1
  <2>2. CASE worker' = worker /\ job' = job
    BY <2>2 DEF Paid
  <2>3. ASSUME NEW j \in Id, JobEnds(j), worker.at = "settle", kind = "gcp"
        PROVE  job'[worker.id].state = "done"
    <3>1. job[worker.id].state = "done" /\ job[j].state = "running"
      BY <2>3 DEF Paid, JobEnds
    <3>2. worker.id \in Id
      BY <2>3 DEF TypeOK, Pending
    <3>3. job'[worker.id] = job[worker.id]
      BY <2>3, <3>1, <3>2 DEF JobEnds, TypeOK
    <3> QED BY <3>1, <3>3
  <2> QED BY <1>5, <2>1, <2>2, <2>3
          DEF Publish, Cleanup, Fault, Restart, Tick, Refused, JobEnds, ReadStatus, ReadRows,
              Respond, Received, store
<1>8. worker'.at = "start" => imports'[worker'.id].reserved >= Reservation'
  BY <1>1, <1>5 DEF Paid, Reservation
<1>9. Paid'
  BY <1>1, <1>4, <1>5, <1>6, <1>7, <1>8 DEF Paid
<1> QED BY <1>3, <1>9

LEMMA TypeStep ==
    ASSUME TypeOK, NeverPartial, [Next]_costs
    PROVE  TypeOK'
<1>1. ASSUME NEW due \in Due, Begin(due) PROVE TypeOK'
  <2>1. PICK id \in Id : \E more \in Nat : Begun(id, more)
    BY <1>1, Begins
  <2>2. PICK more \in Nat : Begun(id, more)
    BY <2>1
  <2> QED BY <2>2, BeginType
<1>2. CASE UNCHANGED costs
  BY <1>2 DEF costs, TypeOK, Pending, Days
<1> QED BY <1>1, <1>2, WorkerType, PublishType, CleanupType, OtherType DEF Next, Worker

LEMMA AllowedStep ==
    ASSUME TypeOK, TypeOK', NeverPartial, Allowed, [Next]_costs
    PROVE  Allowed'
<1>1. ASSUME NEW due \in Due, Begin(due) PROVE Allowed'
  <2>1. PICK id \in Id : \E more \in Nat : Begun(id, more)
    BY <1>1, Begins
  <2>2. PICK more \in Nat : Begun(id, more)
    BY <2>1
  <2> QED BY <2>2, PaidBegin, SomeMore DEF Allowed
<1>2. ASSUME Paid', \A i \in Counted' : i \in Counted /\ Amount(i)' <= Amount(i)
      PROVE  Allowed'
  <2>1. \A i \in Counted' : Amount(i)' \in Nat
    <3>1. \A i \in Id : imports'[i] # None => Amount(i)' \in Nat
      BY ImportTypeThen
    <3> QED BY <3>1 DEF Counted
  <2>2. \A i \in Counted : Amount(i) \in Nat
    BY ImportType DEF Counted
  <2> QED BY <1>2, <2>1, <2>2, NoMore DEF Allowed
<1>3. CASE Submit \/ Existing \/ Polled \/ PolledError \/ Settle \/ Stage
  BY <1>2, <1>3, PaidWork DEF Allowed
<1>4. CASE \/ Publish \/ Cleanup \/ Fault \/ Restart \/ Tick \/ \E due \in Due : Refused(due)
           \/ \E i \in Id : JobEnds(i)
           \/ ReadStatus \/ ReadRows \/ Respond \/ Received
  BY <1>2, <1>4, PaidOther DEF Allowed
<1>5. CASE UNCHANGED costs
  BY <1>5 DEF costs, Allowed, Paid, PaidFor, Units, Counted, Amount, Charged, Reservation
<1> QED BY <1>1, <1>3, <1>4, <1>5 DEF Next, Worker

LEMMA InvStep == IInv /\ [Next]_costs => IInv'
<1> SUFFICES ASSUME IInv, [Next]_costs PROVE IInv'
  OBVIOUS
<1>1. TypeOK /\ NeverPartial /\ Allowed /\ Noticed
  BY DEF IInv
<1>2. TypeOK'
  BY <1>1, TypeStep
<1> QED BY <1>1, <1>2, WholeStep, AllowedStep, NoticedStep DEF IInv

-----------------------------------------------------------------------------
\* A visible day has the rows of one import that was read to its end and is still there,
\* whatever was begun, resumed, staged or cleaned up since.
THEOREM PartitionsAreWhole == Spec => []NeverPartial
<1>1. IInv => NeverPartial
  BY DEF IInv
<1> QED BY <1>1, InitIInv, InvStep, PTL DEF Spec

\* No import pays for two jobs, a query starts with as much reserved as it may scan, and
\* what counts for today never exceeds the allowance, through restarts, faults, midnight
\* and changed query sizes.
THEOREM SpendIsBounded == Spec => []SpendBounded
<1>1. IInv => SpendBounded
  BY DEF IInv, Allowed, Paid, PaidFor, SpendBounded
<1> QED BY <1>1, InitIInv, InvStep, PTL DEF Spec

\* No answered request has read rows of two publications.
THEOREM ResponsesAreUnmixed == Spec => []ResponseUnmixed
<1>1. IInv => ResponseUnmixed
  BY DEF IInv, Noticed, ResponseUnmixed
<1> QED BY <1>1, InitIInv, InvStep, PTL DEF Spec
=============================================================================
