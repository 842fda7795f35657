---------------------------- MODULE SharingProofs ----------------------------
(***************************************************************************)
(* What the parts of the process share keeps its promise to each of them,  *)
(* for any number of users and any interleaving: the budgets of the        *)
(* requests (Admission), the clients and listings of a target (Caches),    *)
(* the responses of the server (Reads).                                    *)
(***************************************************************************)
EXTENDS MCServices, Sequences, FiniteSetTheorems, TLAPS

\* The modules have the sets of FiniteSets by names of their own.
LEMMA SameSets == \A S : (A!IsFiniteSet(S) <=> IsFiniteSet(S)) /\ A!Cardinality(S) = Cardinality(S)
  BY DEF A!IsFiniteSet, IsFiniteSet, A!Cardinality, Cardinality

-----------------------------------------------------------------------------
(* Admission: a budget is charged for exactly the requests that hold it.   *)

Inside(c) == pc[c] # "out"

\* The requests that hold a unit of a budget.
Holders(b) == {c \in Caller : \E i \in 1..held[c] : A!Path(c)[i] = b}

IsBudget(r) ==
    /\ r = [limit |-> r.limit, used |-> r.used, waiters |-> r.waiters]
    /\ r.limit \in Nat
    /\ r.used \in Nat

AdmissionType ==
    /\ DOMAIN budget = A!Budgets
    /\ \A b \in A!Budgets : IsBudget(budget[b])
    /\ pc \in [Caller -> A!Place]
    /\ held \in [Caller -> Nat]
    /\ DOMAIN home = Caller
    /\ DOMAIN scopes = Scope
    /\ \A s \in Scope : scopes[s] \in {None} \cup ({s} \X (0..MaxReloads))
    /\ pending \in Limits \cup {None}
    /\ reloads \in 0..MaxReloads
    /\ removals \in [Scope -> Nat]
    /\ joined \in [Caller -> Nat]

\* What a caller holds, by where it is.
Position ==
    \A c \in Caller :
        /\ pc[c] \in {"out", "idle", "delayed"} => held[c] = 0
        /\ pc[c] = "waiting" => held[c] < Len(A!Path(c))
        /\ held[c] <= Len(A!Path(c))

\* The budget in a context is the one its scope has, unless the scope was removed since.
AtHome ==
    \A c \in Caller :
        Inside(c) =>
            /\ home[c] \in {ScopeOf[c]} \X (0..MaxReloads)
            /\ joined[c] <= removals[ScopeOf[c]]
            /\ joined[c] = removals[ScopeOf[c]] => scopes[ScopeOf[c]] = home[c]

Accounted == \A b \in A!Budgets : budget[b].used = Cardinality(Holders(b))

AdmissionInv == AdmissionType /\ Position /\ AtHome /\ Accounted

LEMMA CallersFinite ==
  ASSUME A!ConstantsAssumption
  PROVE  \A S \in SUBSET Caller : IsFiniteSet(S) /\ Cardinality(S) \in Nat
<1>1. IsFiniteSet(Caller)
  BY SameSets DEF A!ConstantsAssumption
<1>2. \A S \in SUBSET Caller : IsFiniteSet(S)
  BY <1>1, FS_Subset
<1> QED BY <1>2, FS_CardinalityType

LEMMA Three ==
  ASSUME NEW S, NEW x \in S, NEW y \in S, NEW z \in S
  PROVE  LET t == <<x, y>> \o <<z>>
         IN  t \in Seq(S) /\ Len(t) = 3 /\ t[1] = x /\ t[2] = y /\ t[3] = z
  OBVIOUS

\* A request never takes a budget twice.
LEMMA Paths ==
  ASSUME A!ConstantsAssumption, NEW c \in Caller, home[c] \in Scope \X (0..MaxReloads)
  PROVE  /\ A!Path(c) \in Seq(A!Budgets)
         /\ Len(A!Path(c)) \in Nat
         /\ Len(A!Path(c)) > 0
         /\ A!Path(c)[1] = home[c]
         /\ \A i, j \in 1..Len(A!Path(c)) : A!Path(c)[i] = A!Path(c)[j] => i = j
<1>1. home[c] \in A!Budgets /\ A!Global \in A!Budgets /\ A!Process \in A!Budgets
  BY DEF A!Budgets
<1>2. home[c] # A!Global /\ home[c] # A!Process /\ A!Global # A!Process
  BY DEF A!ConstantsAssumption, A!Global, A!Process
<1> DEFINE h == home[c]
<1> HIDE DEF A!Global, A!Process, A!Budgets, h
<1>3. CASE c \in Helper
  <2>1. A!Path(c) = <<h, A!Global>> \o <<A!Process>>
    BY <1>3 DEF A!Path, h
  <2>2. /\ A!Path(c) \in Seq(A!Budgets)
        /\ Len(A!Path(c)) = 3
        /\ A!Path(c)[1] = h /\ A!Path(c)[2] = A!Global /\ A!Path(c)[3] = A!Process
    BY <1>1, <2>1, Three DEF h
  <2> QED BY <1>2, <2>2 DEF h
<1>4. CASE c \notin Helper
  <2>1. A!Path(c) = <<h, A!Global>> \o <<>>
    BY <1>4 DEF A!Path, h
  <2>2. <<h, A!Global>> \o <<>> = <<h, A!Global>>
    OBVIOUS
  <2>3. A!Path(c) = <<h, A!Global>>
    BY <2>1, <2>2
  <2> QED BY <1>1, <1>2, <2>3 DEF h
<1> QED BY <1>3, <1>4

LEMMA PathsThen ==
  ASSUME A!ConstantsAssumption, NEW c \in Caller, home'[c] \in Scope \X (0..MaxReloads)
  PROVE  Len(A!Path(c)') \in Nat /\ Len(A!Path(c)') > 0
<1>1. A!Path(c)' = <<home'[c], A!Global>> \o (IF c \in Helper THEN <<A!Process>> ELSE <<>>)
  BY DEF A!Path, A!Global, A!Process
<1> QED BY <1>1

LEMMA PathSame ==
  ASSUME NEW c, home'[c] = home[c]
  PROVE  A!Path(c)' = A!Path(c)
  BY DEF A!Path, A!Global, A!Process

LEMMA HoldersSame ==
  ASSUME AdmissionType, held' = held, \A c \in Caller : held[c] > 0 => home'[c] = home[c]
  PROVE  \A b : Holders(b)' = Holders(b)
<1>1. \A c \in Caller : held[c] > 0 => A!Path(c)' = A!Path(c)
  BY PathSame
<1>2. \A c \in Caller : ~(held[c] > 0) => 1..held[c] = {}
  BY DEF AdmissionType
<1> QED BY <1>1, <1>2 DEF Holders

\* The step of a budget that is not charged or released.
LEMMA Uncharged ==
  ASSUME A!ConstantsAssumption, AdmissionInv, held' = held,
         \A c \in Caller : held[c] > 0 => home'[c] = home[c],
         \A b \in A!Budgets : budget'[b].used = budget[b].used
  PROVE  Accounted'
<1>1. \A b : Holders(b)' = Holders(b)
  BY HoldersSame DEF AdmissionInv
<1>2. A!Budgets' = A!Budgets
  BY DEF A!Budgets, A!Global, A!Process
<1> HIDE DEF A!Budgets
<1> QED BY <1>1, <1>2 DEF Accounted, AdmissionInv

CeilingStep ==
    \A s \in Scope :
        scopes[s] # None /\ A!Cardinality(A!Charged(s)') > A!Cardinality(A!Charged(s))
            => A!Cardinality(A!Charged(s)') <= budget[scopes[s]].limit

\* Nothing is admitted that was not charged before.
LEMMA NoneAdmitted ==
  ASSUME A!ConstantsAssumption, AdmissionType, AdmissionType',
         \A s \in Scope, c \in Caller :
            ScopeOf[c] = s /\ held'[c] > 0 /\ joined'[c] = removals'[s]
                => held[c] > 0 /\ joined[c] = removals[s]
  PROVE  CeilingStep
<1> SUFFICES ASSUME NEW s \in Scope
             PROVE  ~(A!Cardinality(A!Charged(s)') > A!Cardinality(A!Charged(s)))
  BY DEF CeilingStep
<1>1. A!Charged(s)' \subseteq A!Charged(s) /\ A!Charged(s) \in SUBSET Caller
      /\ A!Charged(s)' \in SUBSET Caller
  BY DEF A!Charged
<1>2. IsFiniteSet(A!Charged(s))
  BY <1>1, CallersFinite
<1>3. Cardinality(A!Charged(s)') <= Cardinality(A!Charged(s))
  BY <1>1, <1>2, FS_Subset
<1>4. Cardinality(A!Charged(s)') \in Nat /\ Cardinality(A!Charged(s)) \in Nat
  BY <1>1, CallersFinite
<1> QED BY <1>3, <1>4, SameSets

\* A request that ends drops what it holds.
LEMMA DropStep ==
  ASSUME A!ConstantsAssumption, AdmissionInv, NEW c \in Caller, Inside(c),
         budget' = A!Dropped(c), held' = [held EXCEPT ![c] = 0],
         \A d \in Caller \ {c} : home'[d] = home[d]
  PROVE  /\ \A b \in A!Budgets : IsBudget(budget'[b]) /\ budget'[b].limit = budget[b].limit
         /\ DOMAIN budget' = A!Budgets
         /\ Accounted'
<1>1. ASSUME NEW b \in A!Budgets
      PROVE  /\ IsBudget(budget'[b])
             /\ budget'[b].limit = budget[b].limit
             /\ budget'[b].used = Cardinality(Holders(b)')
  <2> DEFINE q == SelectSeq(budget[b].waiters, LAMBDA d : d # c)
             n == IF c \in Holders(b) THEN budget[b].used - 1 ELSE budget[b].used
  <2>1. IsBudget(budget[b]) /\ budget[b].used = Cardinality(Holders(b))
    BY DEF AdmissionInv, AdmissionType, Accounted
  <2>2. c \in Holders(b) <=> \E i \in 1..held[c] : A!Path(c)[i] = b
    BY DEF Holders
  <2>3. Holders(b)' = Holders(b) \ {c}
    <3>1. \A d \in Caller \ {c} : held'[d] = held[d] /\ A!Path(d)' = A!Path(d)
      BY PathSame DEF AdmissionInv, AdmissionType
    <3>2. 1..held'[c] = {}
      BY DEF AdmissionInv, AdmissionType
    <3> QED BY <3>1, <3>2 DEF Holders
  <2>4. Holders(b) \in SUBSET Caller
    BY DEF Holders
  <2>5. /\ c \in Holders(b) => Cardinality(Holders(b) \ {c}) = Cardinality(Holders(b)) - 1
        /\ c \notin Holders(b) => Holders(b) \ {c} = Holders(b)
    BY <2>4, CallersFinite, FS_RemoveElement
  <2>6. Cardinality(Holders(b)') \in Nat
    BY <2>3, <2>4, CallersFinite
  <2>7. n = Cardinality(Holders(b)')
    BY <2>1, <2>3, <2>5
  <2>8. budget'[b] = [budget[b] EXCEPT !.used = IF \E i \in 1..held[c] : A!Path(c)[i] = b
                                                THEN @ - 1 ELSE @,
                                       !.waiters = SelectSeq(@, LAMBDA d : d # c)]
    BY DEF A!Dropped
  <2>9. budget'[b] = [limit |-> budget[b].limit, used |-> n, waiters |-> q]
    BY <2>1, <2>2, <2>8 DEF IsBudget
  <2> HIDE DEF n, q
  <2> QED BY <2>1, <2>6, <2>7, <2>9 DEF IsBudget
<1>2. DOMAIN budget' = A!Budgets
  BY DEF A!Dropped
<1>3. A!Budgets' = A!Budgets
  BY DEF A!Budgets, A!Global, A!Process
<1> QED BY <1>1, <1>2, <1>3 DEF Accounted

LEMMA BudgetsSame == A!Budgets' = A!Budgets
  BY DEF A!Budgets, A!Global, A!Process

LEMMA ContextStep ==
  ASSUME A!ConstantsAssumption, AdmissionInv, NEW c \in Caller, A!Context(c)
  PROVE  AdmissionInv' /\ CeilingStep
<1>1. /\ held' = held /\ budget' = budget /\ scopes' = scopes /\ removals' = removals
      /\ pending' = pending /\ reloads' = reloads
      /\ pc' = [pc EXCEPT ![c] = "idle"]
      /\ home' = [home EXCEPT ![c] = scopes[ScopeOf[c]]]
      /\ joined' = [joined EXCEPT ![c] = removals[ScopeOf[c]]]
      /\ pc[c] = "out" /\ scopes[ScopeOf[c]] # None
  BY DEF A!Context
<1>2. ScopeOf[c] \in Scope /\ removals[ScopeOf[c]] \in Nat
  BY DEF A!ConstantsAssumption, AdmissionInv, AdmissionType
<1>3. AdmissionType'
  BY <1>1, <1>2, BudgetsSame DEF AdmissionInv, AdmissionType, A!Place, IsBudget
<1>4. held[c] = 0
  BY <1>1 DEF AdmissionInv, Position
<1>5. \A d \in Caller : held[d] > 0 => home'[d] = home[d]
  BY <1>1, <1>4 DEF AdmissionInv, AdmissionType
<1>6. Position'
  <2>1. scopes[ScopeOf[c]] \in Scope \X (0..MaxReloads) /\ home'[c] = scopes[ScopeOf[c]]
    BY <1>1, <1>2 DEF AdmissionInv, AdmissionType
  <2>2. Len(A!Path(c)') > 0 /\ Len(A!Path(c)') \in Nat
    <3>1. home'[c] \in Scope \X (0..MaxReloads)
      BY <2>1
    <3> QED BY <3>1, PathsThen
  <2>3. \A d \in Caller \ {c} : A!Path(d)' = A!Path(d)
    BY <1>1, PathSame DEF AdmissionInv, AdmissionType
  <2> QED BY <1>1, <1>4, <2>2, <2>3 DEF AdmissionInv, AdmissionType, Position
<1>7. AtHome'
  BY <1>1, <1>2 DEF AdmissionInv, AdmissionType, AtHome, Inside
<1>8. Accounted'
  BY <1>1, <1>5, Uncharged
<1>9. CeilingStep
  <2>1. \A s \in Scope, d \in Caller :
            ScopeOf[d] = s /\ held'[d] > 0 /\ joined'[d] = removals'[s]
                => held[d] > 0 /\ joined[d] = removals[s]
    BY <1>1, <1>4 DEF AdmissionInv, AdmissionType
  <2> QED BY <1>3, <2>1, NoneAdmitted DEF AdmissionInv
<1> QED BY <1>3, <1>6, <1>7, <1>8, <1>9 DEF AdmissionInv

LEMMA RequestStep ==
  ASSUME A!ConstantsAssumption, AdmissionInv, NEW c \in Caller, A!Request(c)
  PROVE  AdmissionInv' /\ CeilingStep
<1>1. /\ held' = held /\ home' = home /\ scopes' = scopes /\ removals' = removals
      /\ pending' = pending /\ reloads' = reloads /\ joined' = joined
      /\ pc' = [pc EXCEPT ![c] = "waiting"]
      /\ pc[c] \in {"idle", "delayed"}
      /\ budget' = A!Joins(A!Path(c)[1], c)
  BY DEF A!Request
<1>2. held[c] = 0 /\ home[c] \in Scope \X (0..MaxReloads)
  <2>1. Inside(c)
    BY <1>1 DEF Inside
  <2> QED BY <1>1, <2>1 DEF AdmissionInv, Position, AtHome, A!ConstantsAssumption
<1>3. Len(A!Path(c)) > 0 /\ Len(A!Path(c)) \in Nat
  BY <1>2, Paths
<1>4. \A d \in Caller : A!Path(d)' = A!Path(d)
  BY <1>1, PathSame
<1>5. /\ DOMAIN budget' = A!Budgets
      /\ \A b \in A!Budgets :
            IsBudget(budget'[b]) /\ budget'[b].limit = budget[b].limit
                                 /\ budget'[b].used = budget[b].used
  <2> DEFINE p == A!Path(c)[1]
  <2>1. budget' = [budget EXCEPT ![p].waiters = Append(@, c)]
    BY <1>1 DEF A!Joins
  <2>2. DOMAIN budget' = DOMAIN budget
    BY <2>1
  <2>3. ASSUME NEW b \in A!Budgets
        PROVE  /\ IsBudget(budget'[b])
               /\ budget'[b].limit = budget[b].limit
               /\ budget'[b].used = budget[b].used
    <3> DEFINE w == IF b = p THEN Append(budget[b].waiters, c) ELSE budget[b].waiters
               r == budget[b]
    <3>1. IsBudget(r) /\ b \in DOMAIN budget
      BY DEF AdmissionInv, AdmissionType
    <3>2. budget'[b] = IF b = p THEN [r EXCEPT !.waiters = Append(@, c)] ELSE r
      BY <2>1, <3>1
    <3>3. budget'[b] = [limit |-> r.limit, used |-> r.used, waiters |-> w]
      BY <3>1, <3>2 DEF IsBudget
    <3> HIDE DEF w, r
    <3>4. IsBudget(budget'[b]) /\ budget'[b].limit = r.limit /\ budget'[b].used = r.used
      BY <3>1, <3>3 DEF IsBudget
    <3> QED BY <3>4 DEF r
  <2> QED BY <2>2, <2>3 DEF AdmissionInv, AdmissionType
<1>6. AdmissionType'
  BY <1>1, <1>5, BudgetsSame DEF AdmissionInv, AdmissionType, A!Place
<1>7. Position'
  BY <1>1, <1>2, <1>3, <1>4 DEF AdmissionInv, AdmissionType, Position
<1>8. AtHome'
  BY <1>1 DEF AdmissionInv, AdmissionType, AtHome, Inside
<1>9. Accounted'
  BY <1>1, <1>5, Uncharged
<1>10. CeilingStep
  BY <1>1, <1>6, NoneAdmitted DEF AdmissionInv
<1> QED BY <1>6, <1>7, <1>8, <1>9, <1>10 DEF AdmissionInv

\* Answer, Retry, Deadline and Leave: what a request ends with.
LEMMA EndStep ==
  ASSUME A!ConstantsAssumption, AdmissionInv, NEW c \in Caller,
         A!Answer(c) \/ A!Retry(c) \/ A!Deadline(c) \/ A!Leave(c)
  PROVE  AdmissionInv' /\ CeilingStep
<1>1. /\ held' = [held EXCEPT ![c] = 0] /\ scopes' = scopes /\ removals' = removals
      /\ pending' = pending /\ reloads' = reloads
      /\ budget' = A!Dropped(c)
      /\ Inside(c)
      /\ \/ /\ \E p \in {"idle", "delayed"} : pc' = [pc EXCEPT ![c] = p]
            /\ home' = home /\ joined' = joined
         \/ /\ pc' = [pc EXCEPT ![c] = "out"]
            /\ home' = [home EXCEPT ![c] = None] /\ joined' = [joined EXCEPT ![c] = 0]
  BY DEF A!Answer, A!Retry, A!Deadline, A!Leave, Inside
<1>2. /\ DOMAIN home' = Caller
      /\ pc' \in [Caller -> A!Place]
      /\ held' \in [Caller -> Nat]
      /\ joined' \in [Caller -> Nat]
      /\ held'[c] = 0
      /\ pc'[c] \in {"out", "idle", "delayed"}
      /\ \A d \in Caller \ {c} : /\ home'[d] = home[d]
                                 /\ pc'[d] = pc[d]
                                 /\ held'[d] = held[d]
                                 /\ joined'[d] = joined[d]
      /\ pc'[c] # "out" => home'[c] = home[c] /\ joined'[c] = joined[c]
  BY <1>1 DEF AdmissionInv, AdmissionType, A!Place
<1>3. /\ \A b \in A!Budgets : IsBudget(budget'[b]) /\ budget'[b].limit = budget[b].limit
      /\ DOMAIN budget' = A!Budgets
      /\ Accounted'
  BY <1>1, <1>2, DropStep
<1>4. AdmissionType'
  BY <1>1, <1>2, <1>3, BudgetsSame DEF AdmissionInv, AdmissionType
<1>5. Position'
  <2>1. \A d \in Caller \ {c} : A!Path(d)' = A!Path(d)
    BY <1>2, PathSame
  <2>2. Len(A!Path(c)') >= 0
    <3>1. A!Path(c)' = <<home'[c], A!Global>> \o (IF c \in Helper THEN <<A!Process>> ELSE <<>>)
      BY DEF A!Path, A!Global, A!Process
    <3> QED BY <3>1
  <2> QED BY <1>2, <2>1, <2>2 DEF AdmissionInv, Position
<1>6. AtHome'
  BY <1>1, <1>2 DEF AdmissionInv, AtHome, Inside
<1>7. CeilingStep
  BY <1>1, <1>2, <1>4, NoneAdmitted DEF AdmissionInv
<1> QED BY <1>3, <1>4, <1>5, <1>6, <1>7 DEF AdmissionInv

\* A grant: the only step that charges, and the one that compares.
LEMMA TakeStep ==
  ASSUME A!ConstantsAssumption, AdmissionInv, NEW c \in Caller, A!Take(c)
  PROVE  AdmissionInv' /\ CeilingStep
<1>k. PICK k : k = held[c] + 1
  OBVIOUS
<1>b. PICK b : b = A!Path(c)[k]
  OBVIOUS
<1> DEFINE last == k = Len(A!Path(c))
<1>1. /\ home' = home /\ scopes' = scopes /\ removals' = removals /\ joined' = joined
      /\ pending' = pending /\ reloads' = reloads
      /\ held' = [held EXCEPT ![c] = k]
      /\ pc' = IF last THEN [pc EXCEPT ![c] = "working"] ELSE pc
      /\ pc[c] = "waiting"
      /\ budget[b].used < budget[b].limit
  BY <1>k, <1>b DEF A!Take
<1>2. budget' = LET granted == [budget EXCEPT ![b].used = @ + 1, ![b].waiters = Tail(@)]
                IN  IF last THEN granted
                    ELSE [granted EXCEPT ![A!Path(c)[held[c] + 2]].waiters = Append(@, c)]
  <2> DEFINE p == A!Path(c)
             old == p[held[c] + 1]
             full == [budget EXCEPT ![old].used = @ + 1, ![old].waiters = Tail(@)]
  <2>1. budget' = IF held[c] + 1 = Len(p) THEN full
                  ELSE [full EXCEPT ![p[held[c] + 2]].waiters = Append(@, c)]
    BY DEF A!Take
  <2>2. old = b
    BY <1>k, <1>b
  <2> QED BY <1>k, <2>1, <2>2
<1>3. Inside(c) /\ home[c] \in Scope \X (0..MaxReloads) /\ held[c] \in Nat
  <2>1. Inside(c)
    BY <1>1 DEF Inside
  <2> QED BY <2>1 DEF AdmissionInv, AtHome, AdmissionType, A!ConstantsAssumption
<1>4. /\ A!Path(c) \in Seq(A!Budgets)
      /\ Len(A!Path(c)) \in Nat
      /\ A!Path(c)[1] = home[c]
      /\ \A i, j \in 1..Len(A!Path(c)) : A!Path(c)[i] = A!Path(c)[j] => i = j
  BY <1>3, Paths
<1>5. k \in 1..Len(A!Path(c)) /\ k \in Nat /\ k = held[c] + 1
  BY <1>k, <1>1, <1>3, <1>4 DEF AdmissionInv, Position
<1>6. b \in A!Budgets
  BY <1>b, <1>4, <1>5
<1>7. \A d \in Caller : A!Path(d)' = A!Path(d)
  BY <1>1, PathSame
<1>8. /\ held'[c] = k
      /\ held' \in [Caller -> Nat]
      /\ \A d \in Caller \ {c} : held'[d] = held[d]
  BY <1>1, <1>5 DEF AdmissionInv, AdmissionType
\* The budget is charged for the request, and no other is.
<1>9. Holders(b)' = Holders(b) \cup {c} /\ c \notin Holders(b)
  <2>1. ASSUME c \in Holders(b) PROVE FALSE
    <3>1. PICK i \in 1..held[c] : A!Path(c)[i] = b
      BY <2>1 DEF Holders
    <3>2. i \in 1..Len(A!Path(c)) /\ i # k
      BY <1>3, <1>4, <1>5, <3>1
    <3> QED BY <1>b, <1>4, <1>5, <3>1, <3>2
  <2>2. \E i \in 1..held'[c] : A!Path(c)[i] = b
    BY <1>b, <1>5, <1>8
  <2> QED BY <1>7, <1>8, <2>1, <2>2 DEF Holders
<1>10. ASSUME NEW o \in A!Budgets, o # b PROVE Holders(o)' = Holders(o)
  <2>1. (\E i \in 1..held'[c] : A!Path(c)[i] = o) <=> (\E i \in 1..held[c] : A!Path(c)[i] = o)
    <3>1. 1..held'[c] = 1..held[c] \cup {k}
      BY <1>3, <1>5, <1>8
    <3> QED BY <1>b, <1>10, <3>1
  <2> QED BY <1>7, <1>8, <2>1 DEF Holders
<1>11. Cardinality(Holders(b)') = Cardinality(Holders(b)) + 1
  <2>1. IsFiniteSet(Holders(b))
    BY CallersFinite DEF Holders
  <2> QED BY <1>9, <2>1, FS_AddElement
<1>12. /\ DOMAIN budget' = A!Budgets
       /\ \A o \in A!Budgets :
            /\ IsBudget(budget'[o])
            /\ budget'[o].limit = budget[o].limit
            /\ budget'[o].used = IF o = b THEN budget[o].used + 1 ELSE budget[o].used
  <2> DEFINE g == [budget EXCEPT ![b].used = @ + 1, ![b].waiters = Tail(@)]
             m == A!Path(c)[held[c] + 2]
  <2>1. budget' = IF last THEN g ELSE [g EXCEPT ![m].waiters = Append(@, c)]
    BY <1>2
  <2>2. ASSUME NEW o \in A!Budgets
        PROVE  /\ IsBudget(g[o])
               /\ g[o].limit = budget[o].limit
               /\ g[o].used = IF o = b THEN budget[o].used + 1 ELSE budget[o].used
    <3> DEFINE r == budget[o]
               u == IF o = b THEN r.used + 1 ELSE r.used
               w == IF o = b THEN Tail(r.waiters) ELSE r.waiters
    <3>1. IsBudget(r) /\ o \in DOMAIN budget
      BY DEF AdmissionInv, AdmissionType
    <3>2. g[o] = IF o = b THEN [r EXCEPT !.used = @ + 1, !.waiters = Tail(@)] ELSE r
      BY <3>1
    <3>3. g[o] = [limit |-> r.limit, used |-> u, waiters |-> w]
      BY <3>1, <3>2 DEF IsBudget
    <3>4. u \in Nat
      BY <3>1 DEF IsBudget
    <3> HIDE DEF w, r, u, g
    <3>5. IsBudget(g[o]) /\ g[o].limit = r.limit /\ g[o].used = u
      BY <3>1, <3>3, <3>4 DEF IsBudget
    <3> QED BY <3>5 DEF r, u
  <2>3. DOMAIN g = DOMAIN budget
    OBVIOUS
  <2> HIDE DEF g, m, last
  <2>4. ASSUME NEW o \in A!Budgets
        PROVE  /\ IsBudget(budget'[o])
               /\ budget'[o].limit = g[o].limit
               /\ budget'[o].used = g[o].used
    <3> DEFINE r == g[o]
               w == IF ~last /\ o = m THEN Append(r.waiters, c) ELSE r.waiters
    <3>1. IsBudget(r) /\ o \in DOMAIN g
      BY <2>2, <2>3 DEF AdmissionInv, AdmissionType
    <3>2. budget'[o] = IF ~last /\ o = m THEN [r EXCEPT !.waiters = Append(@, c)] ELSE r
      BY <2>1, <3>1
    <3>3. budget'[o] = [limit |-> r.limit, used |-> r.used, waiters |-> w]
      BY <3>1, <3>2 DEF IsBudget
    <3> HIDE DEF w, r
    <3>4. IsBudget(budget'[o]) /\ budget'[o].limit = r.limit /\ budget'[o].used = r.used
      BY <3>1, <3>3 DEF IsBudget
    <3> QED BY <3>4 DEF r
  <2>5. DOMAIN budget' = DOMAIN g
    BY <2>1
  <2> QED BY <2>2, <2>3, <2>4, <2>5 DEF AdmissionInv, AdmissionType
<1> HIDE DEF last
<1>13. AdmissionType'
  BY <1>1, <1>8, <1>12, BudgetsSame DEF AdmissionInv, AdmissionType, A!Place
<1>14. Position'
  <2>1. pc'[c] = "waiting" => k < Len(A!Path(c))
    BY <1>1, <1>4, <1>5 DEF AdmissionInv, AdmissionType, last
  <2>2. pc'[c] \in {"waiting", "working"}
    BY <1>1 DEF AdmissionInv, AdmissionType
  <2>3. \A d \in Caller \ {c} : pc'[d] = pc[d]
    BY <1>1 DEF AdmissionInv, AdmissionType
  <2> QED BY <1>5, <1>7, <1>8, <2>1, <2>2, <2>3 DEF AdmissionInv, Position
<1>15. AtHome'
  <2>1. \A d \in Caller : Inside(d)' => Inside(d)
    BY <1>1 DEF AdmissionInv, AdmissionType, Inside
  <2> QED BY <1>1, <2>1 DEF AdmissionInv, AtHome
<1>16. Accounted'
  <2>1. ASSUME NEW o \in A!Budgets PROVE budget'[o].used = Cardinality(Holders(o)')
    <3>1. budget[o].used = Cardinality(Holders(o))
      BY DEF AdmissionInv, Accounted
    <3>2. CASE o = b
      BY <1>11, <1>12, <3>1, <3>2
    <3>3. CASE o # b
      BY <1>10, <1>12, <3>1, <3>3
    <3> QED BY <3>2, <3>3
  <2> QED BY <2>1, BudgetsSame DEF Accounted
<1>17. CeilingStep
  <2>1. ASSUME NEW s \in Scope, scopes[s] # None,
               A!Cardinality(A!Charged(s)') > A!Cardinality(A!Charged(s))
        PROVE  A!Cardinality(A!Charged(s)') <= budget[scopes[s]].limit
    <3>1. c \in A!Charged(s)' /\ c \notin A!Charged(s)
      <4>1. c \notin A!Charged(s)' \/ c \in A!Charged(s) => A!Charged(s)' \subseteq A!Charged(s)
        BY <1>1, <1>8 DEF A!Charged
      <4>2. A!Charged(s) \in SUBSET Caller /\ A!Charged(s)' \in SUBSET Caller
        BY DEF A!Charged
      <4>3. A!Charged(s)' \subseteq A!Charged(s)
                => Cardinality(A!Charged(s)') <= Cardinality(A!Charged(s))
        BY <4>2, CallersFinite, FS_Subset
      <4>4. Cardinality(A!Charged(s)') \in Nat /\ Cardinality(A!Charged(s)) \in Nat
        BY <4>2, CallersFinite
      <4> QED BY <2>1, <4>1, <4>3, <4>4, SameSets
    <3>2. held[c] = 0 /\ ScopeOf[c] = s /\ joined[c] = removals[s]
      BY <1>1, <1>3, <3>1 DEF A!Charged
    <3>3. b = scopes[s]
      BY <1>b, <1>k, <1>3, <1>4, <1>5, <3>2 DEF AdmissionInv, AtHome
    <3>4. A!Charged(s)' \subseteq Holders(b)'
      <4>1. ASSUME NEW d \in A!Charged(s)' PROVE d \in Holders(b)'
        <5>1. d \in Caller /\ ScopeOf[d] = s /\ held'[d] > 0 /\ joined'[d] = removals'[s]
          BY <4>1 DEF A!Charged
        <5>2. Inside(d)'
          BY <1>14, <5>1 DEF Position, Inside
        <5>3. home'[d] = scopes'[s] /\ home'[d] \in Scope \X (0..MaxReloads)
          BY <1>15, <5>1, <5>2 DEF AtHome, A!ConstantsAssumption
        <5>4. home[d] = b /\ home[d] \in Scope \X (0..MaxReloads)
          BY <1>1, <3>3, <5>3
        <5>5. A!Path(d)'[1] = b
          BY <1>7, <5>1, <5>4, Paths
        <5>6. 1 \in 1..held'[d]
          BY <1>8, <5>1
        <5> QED BY <5>1, <5>5, <5>6 DEF Holders
      <4> QED BY <4>1
    <3>5. Cardinality(A!Charged(s)') <= Cardinality(Holders(b)')
      <4>1. Holders(b)' \in SUBSET Caller
        BY DEF Holders
      <4> QED BY <3>4, <4>1, CallersFinite, FS_Subset
    <3>6. Cardinality(Holders(b)') <= budget[b].limit
      <4>1. budget[b].used = Cardinality(Holders(b)) /\ IsBudget(budget[b])
        BY <1>6 DEF AdmissionInv, Accounted, AdmissionType
      <4> QED BY <1>1, <1>11, <4>1 DEF IsBudget
    <3>7. Cardinality(A!Charged(s)') \in Nat /\ Cardinality(Holders(b)') \in Nat
          /\ budget[b].limit \in Nat
      <4>1. A!Charged(s)' \in SUBSET Caller /\ Holders(b)' \in SUBSET Caller
        BY DEF A!Charged, Holders
      <4> QED BY <1>6, <4>1, CallersFinite DEF AdmissionInv, AdmissionType, IsBudget
    <3> QED BY <3>3, <3>5, <3>6, <3>7, SameSets
  <2> QED BY <2>1 DEF CeilingStep
<1> QED BY <1>13, <1>14, <1>15, <1>16, <1>17 DEF AdmissionInv

LEMMA ResizeStep ==
  ASSUME A!ConstantsAssumption, AdmissionInv, NEW l \in Limits, A!Resize(l)
  PROVE  AdmissionInv' /\ CeilingStep
<1>1. /\ held' = held /\ home' = home /\ scopes' = scopes /\ removals' = removals
      /\ joined' = joined /\ pc' = pc /\ pending' = l
      /\ reloads < MaxReloads /\ reloads' = reloads + 1
      /\ budget' = [budget EXCEPT ![A!Global].limit = l.global]
  BY DEF A!Resize
<1>2. l.global \in Nat /\ A!Global \in A!Budgets
  BY DEF A!ConstantsAssumption, A!Budgets
<1>3. /\ DOMAIN budget' = A!Budgets
      /\ \A b \in A!Budgets : IsBudget(budget'[b]) /\ budget'[b].used = budget[b].used
  <2>1. ASSUME NEW b \in A!Budgets
        PROVE  IsBudget(budget'[b]) /\ budget'[b].used = budget[b].used
    <3> DEFINE r == budget[b]
               m == IF b = A!Global THEN l.global ELSE r.limit
    <3>1. IsBudget(r) /\ b \in DOMAIN budget
      BY DEF AdmissionInv, AdmissionType
    <3>2. budget'[b] = [limit |-> m, used |-> r.used, waiters |-> r.waiters]
      BY <1>1, <3>1 DEF IsBudget
    <3>3. m \in Nat
      BY <1>2, <3>1 DEF IsBudget
    <3> HIDE DEF m, r
    <3>4. IsBudget(budget'[b]) /\ budget'[b].used = r.used
      BY <3>1, <3>2, <3>3 DEF IsBudget
    <3> QED BY <3>4 DEF r
  <2> QED BY <1>1, <2>1 DEF AdmissionInv, AdmissionType
<1>4. AdmissionType'
  BY <1>1, <1>3, BudgetsSame DEF AdmissionInv, AdmissionType, A!ConstantsAssumption
<1>5. \A d \in Caller : A!Path(d)' = A!Path(d)
  BY <1>1, PathSame
<1>6. Position' /\ AtHome'
  BY <1>1, <1>5 DEF AdmissionInv, Position, AtHome, Inside
<1>7. Accounted'
  BY <1>1, <1>3, Uncharged
<1>8. CeilingStep
  BY <1>1, <1>4, NoneAdmitted DEF AdmissionInv
<1> QED BY <1>4, <1>6, <1>7, <1>8 DEF AdmissionInv

\* The new map keeps the budget of every scope that stays, and charges nobody.
LEMMA ReplaceStep ==
  ASSUME A!ConstantsAssumption, AdmissionInv, A!Replace
  PROVE  AdmissionInv' /\ CeilingStep
<1> DEFINE next == A!NextMap(pending)
           gone(s) == scopes[s] # None /\ pending.scope[s] = 0
<1>1. /\ held' = held /\ home' = home /\ joined' = joined /\ pc' = pc
      /\ reloads' = reloads /\ pending' = None
      /\ pending # None
      /\ scopes' = next
      /\ removals' = [s \in Scope |-> removals[s] + (IF gone(s) THEN 1 ELSE 0)]
      /\ budget' = [b \in A!Budgets |->
                IF b = A!Process THEN [budget[b] EXCEPT !.limit = pending.process]
                ELSE IF b # A!Global /\ next[b[1]] = b
                     THEN [budget[b] EXCEPT !.limit = pending.scope[b[1]]] ELSE budget[b]]
  BY DEF A!Replace
<1>2. pending \in [global : Nat, process : Nat, scope : [Scope -> Nat]]
  BY <1>1 DEF A!ConstantsAssumption, AdmissionInv, AdmissionType
<1>3. ASSUME NEW s \in Scope
      PROVE  /\ next[s] \in {None} \cup ({s} \X (0..MaxReloads))
             /\ scopes[s] # None => next[s] = scopes[s] \/ gone(s)
             /\ removals'[s] \in Nat
             /\ removals'[s] >= removals[s]
             /\ gone(s) => removals'[s] > removals[s]
  BY <1>1 DEF A!NextMap, AdmissionInv, AdmissionType
<1>4. DOMAIN next = Scope
  BY DEF A!NextMap
<1>5. ASSUME NEW b \in A!Budgets
      PROVE  IsBudget(budget'[b]) /\ budget'[b].used = budget[b].used
  <2>1. IsBudget(budget[b])
    BY DEF AdmissionInv, AdmissionType
  <2>2. b # A!Process /\ b # A!Global => b[1] \in Scope
    BY DEF A!Budgets
  <2>3. PICK m \in Nat : budget'[b] = [budget[b] EXCEPT !.limit = m]
    <3>1. CASE b = A!Process
      BY <1>1, <1>2, <3>1
    <3>2. CASE b # A!Process /\ b # A!Global /\ next[b[1]] = b
      <4>1. pending.scope[b[1]] \in Nat
        BY <1>2, <2>2, <3>2
      <4>2. budget'[b] = [budget[b] EXCEPT !.limit = pending.scope[b[1]]]
        BY <1>1, <3>2
      <4> QED BY <4>1, <4>2
    <3>3. CASE b # A!Process /\ ~(b # A!Global /\ next[b[1]] = b)
      <4>1. budget'[b] = budget[b]
        BY <1>1, <3>3
      <4>2. budget[b] = [budget[b] EXCEPT !.limit = budget[b].limit] /\ budget[b].limit \in Nat
        BY <2>1 DEF IsBudget
      <4> QED BY <4>1, <4>2
    <3> QED BY <3>1, <3>2, <3>3
  <2> DEFINE r == budget[b]
  <2>4. budget'[b] = [limit |-> m, used |-> r.used, waiters |-> r.waiters]
    BY <2>1, <2>3 DEF IsBudget
  <2>5. r.used \in Nat
    BY <2>1 DEF IsBudget
  <2> HIDE DEF r
  <2>6. IsBudget(budget'[b]) /\ budget'[b].used = r.used
    BY <2>4, <2>5 DEF IsBudget
  <2> QED BY <2>6 DEF r
<1>6. DOMAIN budget' = A!Budgets
  BY <1>1
<1> HIDE DEF next, gone
<1>7. AdmissionType'
  <2>1. removals' \in [Scope -> Nat]
    BY <1>1, <1>3
  <2>2. \A s \in Scope : scopes'[s] \in {None} \cup ({s} \X (0..MaxReloads))
    BY <1>1, <1>3
  <2> QED BY <1>1, <1>4, <1>5, <1>6, <2>1, <2>2, BudgetsSame DEF AdmissionInv, AdmissionType
<1>8. \A d \in Caller : A!Path(d)' = A!Path(d)
  BY <1>1, PathSame
<1>9. Position'
  BY <1>1, <1>8 DEF AdmissionInv, Position
<1>10. AtHome'
  <2>1. ASSUME NEW c \in Caller, Inside(c)
        PROVE  /\ joined[c] <= removals'[ScopeOf[c]]
               /\ joined[c] = removals'[ScopeOf[c]] => scopes'[ScopeOf[c]] = home[c]
    <3> DEFINE s == ScopeOf[c]
    <3>1. s \in Scope /\ removals[s] \in Nat /\ joined[c] \in Nat
      BY DEF A!ConstantsAssumption, AdmissionInv, AdmissionType
    <3>2. /\ joined[c] <= removals[s]
          /\ joined[c] = removals[s] => scopes[s] = home[c]
          /\ home[c] \in {s} \X (0..MaxReloads)
      BY <2>1 DEF AdmissionInv, AtHome
    <3>3. home[c] # None
      BY <3>1, <3>2 DEF A!ConstantsAssumption
    <3> HIDE DEF s
    <3>4. joined[c] <= removals'[s]
      BY <1>3, <3>1, <3>2
    <3>5. joined[c] = removals'[s] => scopes'[s] = home[c]
      BY <1>1, <1>3, <3>1, <3>2, <3>3
    <3> QED BY <3>4, <3>5 DEF s
  <2> QED BY <1>1, <2>1 DEF AdmissionInv, AtHome, Inside
<1>11. Accounted'
  BY <1>1, <1>5, Uncharged
<1>12. CeilingStep
  <2>1. ASSUME NEW s \in Scope, NEW c \in Caller, ScopeOf[c] = s, held'[c] > 0,
               joined'[c] = removals'[s]
        PROVE  held[c] > 0 /\ joined[c] = removals[s]
    <3>1. Inside(c)
      BY <1>1, <2>1 DEF AdmissionInv, Position, Inside
    <3>2. joined[c] <= removals[s] /\ removals[s] \in Nat /\ joined[c] \in Nat
      BY <2>1, <3>1 DEF AdmissionInv, AtHome, AdmissionType
    <3> QED BY <1>1, <1>3, <2>1, <3>2
  <2> QED BY <1>7, <2>1, NoneAdmitted DEF AdmissionInv
<1> QED BY <1>7, <1>9, <1>10, <1>11, <1>12 DEF AdmissionInv

LEMMA AdmissionBegins == ASSUME A!ConstantsAssumption, A!Init PROVE AdmissionInv
<1>1. PICK l \in Limits :
        /\ scopes = [s \in Scope |-> <<s, 0>>]
        /\ budget = [b \in A!Budgets |->
                        A!Fresh(IF b = A!Global THEN l.global
                                ELSE IF b = A!Process THEN l.process ELSE l.scope[b[1]])]
  BY DEF A!Init
<1>2. l \in [global : Nat, process : Nat, scope : [Scope -> Nat]]
  BY DEF A!ConstantsAssumption
<1>3. \A c \in Caller : held[c] = 0 /\ 1..held[c] = {} /\ pc[c] = "out"
  BY DEF A!Init
<1>4. ASSUME NEW b \in A!Budgets PROVE IsBudget(budget[b]) /\ budget[b].used = 0
  <2>1. b \in {A!Global, A!Process} \/ b[1] \in Scope
    BY DEF A!Budgets
  <2>2. PICK n \in Nat : budget[b] = A!Fresh(n)
    BY <1>1, <1>2, <2>1
  <2> QED BY <2>2 DEF A!Fresh, IsBudget
<1>5. AdmissionType
  <2>1. DOMAIN budget = A!Budgets
    BY <1>1
  <2>2. 0 \in 0..MaxReloads
    BY DEF A!ConstantsAssumption
  <2> QED BY <1>1, <1>4, <2>1, <2>2 DEF AdmissionType, A!Init, A!Place
<1>6. Accounted
  <2>1. \A b : Holders(b) = {}
    BY <1>3 DEF Holders
  <2> QED BY <1>4, <2>1, FS_EmptySet DEF Accounted
<1>7. Position
  <2>1. \A c \in Caller : Len(A!Path(c)) >= 0
    <3>1. \A c \in Caller : \A x : Len(<<x, A!Global>> \o (IF c \in Helper THEN <<A!Process>> ELSE <<>>)) >= 0
      OBVIOUS
    <3> QED BY <3>1 DEF A!Path
  <2> QED BY <1>3, <2>1 DEF Position
<1> QED BY <1>3, <1>5, <1>6, <1>7 DEF AdmissionInv, AtHome, Inside

\* A request is admitted to a scope only while fewer requests than its limit are charged to
\* it, for any callers, scopes, limits and number of reloads between, and however retries,
\* deadlines and cancellations drop what requests hold (admission.rs, permit; budget.rs).
THEOREM CeilingHolds == ASSUME A!ConstantsAssumption PROVE A!Spec => ScopeCeiling
<1>1. A!Init => AdmissionInv
  BY AdmissionBegins
<1>2. AdmissionInv /\ [A!Next]_(A!avars) => AdmissionInv' /\ [CeilingStep]_(A!avars)
  <2> SUFFICES ASSUME AdmissionInv, [A!Next]_(A!avars)
               PROVE  AdmissionInv' /\ [CeilingStep]_(A!avars)
    OBVIOUS
  <2>1. ASSUME NEW c \in Caller,
               \/ A!Context(c) \/ A!Request(c) \/ A!Take(c) \/ A!Answer(c) \/ A!Retry(c)
               \/ A!Deadline(c) \/ A!Leave(c)
        PROVE  AdmissionInv' /\ CeilingStep
    BY <2>1, ContextStep, RequestStep, TakeStep, EndStep
  <2>2. ASSUME NEW l \in Limits, A!Resize(l) PROVE AdmissionInv' /\ CeilingStep
    BY <2>2, ResizeStep
  <2>3. CASE A!Replace
    BY <2>3, ReplaceStep
  <2>4. CASE UNCHANGED A!avars
    <3>1. \A c \in Caller : A!Path(c)' = A!Path(c)
      BY <2>4, PathSame DEF A!avars
    <3>2. AdmissionType' /\ Position' /\ AtHome'
      BY <2>4, <3>1, BudgetsSame
      DEF A!avars, AdmissionInv, AdmissionType, Position, AtHome, Inside
    <3>3. Accounted'
      BY <2>4, Uncharged DEF A!avars
    <3> QED BY <2>4, <3>2, <3>3 DEF AdmissionInv
  <2> QED BY <2>1, <2>2, <2>3, <2>4 DEF A!Next
<1>3. [CeilingStep]_(A!avars) =>
        [\A s \in Scope :
            scopes[s] # None /\ A!Cardinality(A!Charged(s)') > A!Cardinality(A!Charged(s))
                => A!Cardinality(A!Charged(s)') <= budget[scopes[s]].limit]_(A!avars)
  BY DEF CeilingStep
<1> QED BY <1>1, <1>2, <1>3, PTL DEF A!Spec, ScopeCeiling, A!ScopeCeiling

-----------------------------------------------------------------------------
(* Caches: who holds the scope of an earlier configuration keeps to it.    *)

IsScope(s) == s = [client |-> s.client, loader |-> s.loader,
                   holder |-> s.holder, entry |-> s.entry]

IsCollection(k) == k = [at |-> k.at, rev |-> k.rev, in |-> k.in, client |-> k.client]

\* A listing was handed once to the checks that count as its consumers.
IsEntry(e) ==
    e # None =>
        /\ e = [consumers |-> e.consumers, fresh |-> e.fresh, expired |-> e.expired,
                rev |-> e.rev, handed |-> e.handed]
        /\ e.handed \in [Check -> Nat]
        /\ \A c \in Check : e.handed[c] <= IF c \in e.consumers THEN 1 ELSE 0

\* The scopes that were ever in the map.
Made(i) == i \in 0..renewals /\ (i = renewals => current # None)

\* A client in a scope that is current was loaded under the current configuration.
Rightful(i, client) == client # None => Made(i) /\ (i = current => client.rev = revision)

CachesInv ==
    /\ renewals \in 0..MaxRenewals
    /\ current \in {None, renewals}
    /\ DOMAIN scope = 0..MaxRenewals
    /\ \A i \in 0..MaxRenewals :
        /\ IsScope(scope[i])
        /\ IsEntry(scope[i].entry)
        /\ Rightful(i, scope[i].client)
    /\ DOMAIN collection = Check
    /\ \A c \in Check :
        /\ IsCollection(collection[c])
        /\ Rightful(collection[c].in, collection[c].client)
        /\ collection[c].at # "out" => Made(collection[c].in)

\* A step under one configuration, which leaves each scope one of its own.
LEMMA SameConfiguration ==
  ASSUME C!ConstantsAssumption, CachesInv, renewals' = renewals, current' = current, revision' = revision,
         DOMAIN scope' = 0..MaxRenewals, DOMAIN collection' = Check,
         \A i \in 0..MaxRenewals :
            /\ IsScope(scope'[i]) /\ IsEntry(scope'[i].entry)
            /\ \/ scope'[i].client \in {None, scope[i].client}
               \/ \E c \in Check : collection[c].in = i /\ scope'[i].client = collection[c].client,
         \A c \in Check :
            /\ IsCollection(collection'[c])
            /\ collection'[c].at # "out" =>
                    collection[c].at # "out" /\ collection'[c].in = collection[c].in
            /\ \/ collection'[c].client = None
               \/ /\ collection'[c].in = collection[c].in
                  /\ collection'[c].client = collection[c].client
               \/ /\ collection[c].at # "out" /\ collection'[c].in = collection[c].in
                  /\ \/ collection'[c].client = scope[collection[c].in].client
                     \/ collection'[c].client.rev = revision
  PROVE  CachesInv'
<1>1. \A i : Made(i)' = Made(i)
  BY DEF Made
<1>2. ASSUME NEW i \in 0..MaxRenewals PROVE Rightful(i, scope'[i].client)
  BY DEF CachesInv, Rightful
<1>3. ASSUME NEW c \in Check PROVE Rightful(collection'[c].in, collection'[c].client)
  <2>1. CASE /\ collection[c].at # "out" /\ collection'[c].in = collection[c].in
             /\ collection'[c].client = scope[collection[c].in].client
    <3>1. collection[c].in \in 0..MaxRenewals
      BY <2>1 DEF CachesInv, Made, C!ConstantsAssumption
    <3> QED BY <2>1, <3>1 DEF CachesInv
  <2>2. CASE /\ collection[c].at # "out" /\ collection'[c].in = collection[c].in
             /\ collection'[c].client.rev = revision
    BY <2>2 DEF CachesInv, Rightful
  <2>3. CASE /\ collection'[c].in = collection[c].in
             /\ collection'[c].client = collection[c].client
    BY <2>3 DEF CachesInv
  <2>4. CASE collection'[c].client = None
    BY <2>4 DEF Rightful
  <2> QED BY <2>1, <2>2, <2>3, <2>4
<1>4. \A i \in 0..MaxRenewals : Rightful(i, scope[i].client)'
  BY <1>1, <1>2 DEF Rightful
<1>5. \A c \in Check : Rightful(collection[c].in, collection[c].client)'
  BY <1>1, <1>3 DEF Rightful
<1>6. \A i \in 0..MaxRenewals : IsScope(scope[i])' /\ IsEntry(scope[i].entry)'
  BY DEF IsScope, IsEntry
<1>7. \A c \in Check : IsCollection(collection[c])'
                       /\ (collection[c].at # "out" => Made(collection[c].in))'
  BY <1>1 DEF IsCollection, CachesInv
<1> QED BY <1>4, <1>5, <1>6, <1>7 DEF CachesInv

LEMMA EmptyScope ==
  IsScope(C!NoScope) /\ IsEntry(C!NoScope.entry) /\ C!NoScope.client = None
  BY DEF C!NoScope, IsScope, IsEntry

LEMMA OutsideIs ==
  IsCollection(C!Outside) /\ C!Outside.at = "out" /\ C!Outside.client = None
  BY DEF C!Outside, IsCollection

\* What an assignment to a field leaves alone.
LEMMA ScopeLoader ==
  ASSUME NEW s, IsScope(s), NEW x, NEW t, t = [s EXCEPT !.loader = x]
  PROVE  IsScope(t) /\ t.client = s.client /\ t.entry = s.entry /\ t.holder = s.holder
                    /\ t.loader = x
<1>1. t = [client |-> s.client, loader |-> x, holder |-> s.holder, entry |-> s.entry]
  BY DEF IsScope
<1> QED BY <1>1 DEF IsScope

LEMMA ScopeClient ==
  ASSUME NEW s, IsScope(s), NEW x, NEW t, t = [s EXCEPT !.client = x]
  PROVE  IsScope(t) /\ t.client = x /\ t.entry = s.entry /\ t.holder = s.holder
                    /\ t.loader = s.loader
<1>1. t = [client |-> x, loader |-> s.loader, holder |-> s.holder, entry |-> s.entry]
  BY DEF IsScope
<1> QED BY <1>1 DEF IsScope

LEMMA ScopeHolder ==
  ASSUME NEW s, IsScope(s), NEW x, NEW t, t = [s EXCEPT !.holder = x]
  PROVE  IsScope(t) /\ t.client = s.client /\ t.entry = s.entry /\ t.holder = x
                    /\ t.loader = s.loader
<1>1. t = [client |-> s.client, loader |-> s.loader, holder |-> x, entry |-> s.entry]
  BY DEF IsScope
<1> QED BY <1>1 DEF IsScope

LEMMA ScopeEntry ==
  ASSUME NEW s, IsScope(s), NEW x, NEW t, t = [s EXCEPT !.entry = x]
  PROVE  IsScope(t) /\ t.client = s.client /\ t.entry = x /\ t.holder = s.holder
                    /\ t.loader = s.loader
<1>1. t = [client |-> s.client, loader |-> s.loader, holder |-> s.holder, entry |-> x]
  BY DEF IsScope
<1> QED BY <1>1 DEF IsScope

LEMMA CollectionAt ==
  ASSUME NEW k, IsCollection(k), NEW x, NEW t, t = [k EXCEPT !.at = x]
  PROVE  IsCollection(t) /\ t.at = x /\ t.in = k.in /\ t.client = k.client
<1>1. t = [at |-> x, rev |-> k.rev, in |-> k.in, client |-> k.client]
  BY DEF IsCollection
<1> QED BY <1>1 DEF IsCollection

LEMMA CollectionClient ==
  ASSUME NEW k, IsCollection(k), NEW x, NEW t, t = [k EXCEPT !.client = x]
  PROVE  IsCollection(t) /\ t.at = k.at /\ t.in = k.in /\ t.client = x
<1>1. t = [at |-> k.at, rev |-> k.rev, in |-> k.in, client |-> x]
  BY DEF IsCollection
<1> QED BY <1>1 DEF IsCollection

LEMMA CollectStep ==
  ASSUME C!ConstantsAssumption, CachesInv, NEW c \in Check,
         \/ C!Client(c) \/ C!Loaded(c)
  PROVE  CachesInv'
<1> DEFINE i == collection[c].in
           k == collection[c]
           s == scope[i]
<1>1. /\ renewals' = renewals /\ current' = current /\ revision' = revision
      /\ k.at # "out"
  BY DEF C!Client, C!Loaded
<1>2. i \in 0..MaxRenewals
  BY <1>1 DEF CachesInv, Made, C!ConstantsAssumption
<1>3. IsScope(s) /\ IsEntry(s.entry) /\ IsCollection(k)
  BY <1>2 DEF CachesInv
<1>4. /\ DOMAIN scope' = DOMAIN scope
      /\ \A j \in 0..MaxRenewals : j # i => scope'[j] = scope[j]
      /\ IsScope(scope'[i])
      /\ scope'[i].entry = s.entry
      /\ scope'[i].client \in {s.client, k.client}
  <2>0. i \in DOMAIN scope
    BY <1>2 DEF CachesInv
  <2>1. CASE C!Client(c) /\ scope' = scope
    BY <1>3, <2>1
  <2>2. CASE C!Client(c) /\ scope' = [scope EXCEPT ![i].loader = c]
    <3>1. scope'[i] = [s EXCEPT !.loader = c]
      BY <2>0, <2>2
    <3>2. DOMAIN scope' = DOMAIN scope /\ \A j \in 0..MaxRenewals : j # i => scope'[j] = scope[j]
      BY <2>2 DEF CachesInv
    <3> HIDE DEF s
    <3> QED BY <1>3, <3>1, <3>2, ScopeLoader
  <2>3. CASE C!Loaded(c)
    <3>1. scope' = [scope EXCEPT ![i].client = k.client,
                                 ![i].loader = IF kube THEN @ ELSE None]
      BY <2>3 DEF C!Loaded
    <3>2. scope'[i] = [s EXCEPT !.client = k.client, !.loader = IF kube THEN s.loader ELSE None]
      BY <2>0, <3>1
    <3>3. DOMAIN scope' = DOMAIN scope /\ \A j \in 0..MaxRenewals : j # i => scope'[j] = scope[j]
      BY <3>1 DEF CachesInv
    <3>v. PICK v : v = [s EXCEPT !.client = k.client]
      OBVIOUS
    <3>4. scope'[i] = [v EXCEPT !.loader = IF kube THEN s.loader ELSE None]
      BY <3>2, <3>v
    <3>5. IsScope(v) /\ v.client = k.client /\ v.entry = s.entry
      <4> HIDE DEF s, k
      <4> QED BY <1>3, <3>v, ScopeClient
    <3> HIDE DEF s
    <3> QED BY <3>3, <3>4, <3>5, ScopeLoader
  <2> QED BY <2>1, <2>2, <2>3 DEF C!Client, C!Loaded
<1>5. /\ DOMAIN collection' = DOMAIN collection
      /\ \A d \in Check : d # c => collection'[d] = collection[d]
      /\ IsCollection(collection'[c])
      /\ collection'[c].in = i
      /\ \/ collection'[c].client \in {k.client, s.client}
         \/ collection'[c].client.rev = revision
  <2>0. c \in DOMAIN collection
    BY DEF CachesInv
  <2>1. CASE C!Client(c)
    <3> DEFINE a == IF s.client # None THEN C!Onward ELSE "loading"
               b == IF s.client # None THEN s.client ELSE [gen |-> valid, rev |-> revision]
    <3>1. collection' = [collection EXCEPT ![c].at = a, ![c].client = b]
      BY <2>1 DEF C!Client
    <3>2. collection'[c] = [k EXCEPT !.at = a, !.client = b]
      BY <2>0, <3>1
    <3>3. b = s.client \/ b.rev = revision
      OBVIOUS
    <3>4. DOMAIN collection' = DOMAIN collection
          /\ \A d \in Check : d # c => collection'[d] = collection[d]
      BY <3>1 DEF CachesInv
    <3> DEFINE v == [k EXCEPT !.at = a]
    <3>5. collection'[c] = [v EXCEPT !.client = b]
      BY <3>2
    <3> HIDE DEF a, b, k
    <3>6. IsCollection(v) /\ v.in = k.in
      BY <1>3, CollectionAt
    <3> HIDE DEF v
    <3>7. IsCollection(collection'[c]) /\ collection'[c].in = k.in /\ collection'[c].client = b
      BY <3>5, <3>6, CollectionClient
    <3> QED BY <3>3, <3>4, <3>7 DEF k
  <2>2. CASE C!Loaded(c)
    <3>1. collection' = [collection EXCEPT ![c].at = C!Onward]
      BY <2>2 DEF C!Loaded
    <3>2. collection'[c] = [k EXCEPT !.at = C!Onward]
      BY <2>0, <3>1
    <3>3. DOMAIN collection' = DOMAIN collection
          /\ \A d \in Check : d # c => collection'[d] = collection[d]
      BY <3>1 DEF CachesInv
    <3> HIDE DEF k
    <3>4. /\ IsCollection(collection'[c])
          /\ collection'[c].in = k.in
          /\ collection'[c].client = k.client
      BY <1>3, <3>2, CollectionAt
    <3> QED BY <3>3, <3>4 DEF k
  <2> QED BY <2>1, <2>2
<1> HIDE DEF s, k, i
<1>6. /\ DOMAIN scope' = 0..MaxRenewals
      /\ \A j \in 0..MaxRenewals :
            /\ IsScope(scope'[j]) /\ IsEntry(scope'[j].entry)
            /\ \/ scope'[j].client \in {None, scope[j].client}
               \/ \E d \in Check : collection[d].in = j /\ scope'[j].client = collection[d].client
  <2>1. ASSUME NEW j \in 0..MaxRenewals
        PROVE  /\ IsScope(scope'[j]) /\ IsEntry(scope'[j].entry)
               /\ \/ scope'[j].client \in {None, scope[j].client}
                  \/ \E d \in Check : collection[d].in = j /\ scope'[j].client = collection[d].client
    <3>1. CASE j = i
      BY <1>3, <1>4, <3>1 DEF s, k, i
    <3>2. CASE j # i
      <4>1. scope'[j] = scope[j]
        BY <1>4, <3>2 DEF CachesInv
      <4> QED BY <4>1 DEF CachesInv
    <3> QED BY <3>1, <3>2
  <2> QED BY <1>4, <2>1 DEF CachesInv
<1>7. /\ DOMAIN collection' = Check
      /\ \A d \in Check :
            /\ IsCollection(collection'[d])
            /\ collection'[d].at # "out" =>
                    collection[d].at # "out" /\ collection'[d].in = collection[d].in
            /\ \/ collection'[d].client = None
               \/ /\ collection'[d].in = collection[d].in
                  /\ collection'[d].client = collection[d].client
               \/ /\ collection[d].at # "out" /\ collection'[d].in = collection[d].in
                  /\ \/ collection'[d].client = scope[collection[d].in].client
                     \/ collection'[d].client.rev = revision
  <2>1. ASSUME NEW d \in Check, d # c PROVE collection'[d] = collection[d]
    BY <1>5, <2>1 DEF CachesInv
  <2>4. collection[c].at # "out" /\ collection[c].in = i /\ collection[c].client = k.client
        /\ scope[collection[c].in].client = s.client
    BY <1>1 DEF k, i, s
  <2> QED BY <1>5, <2>1, <2>4 DEF CachesInv
<1> QED BY <1>1, <1>6, <1>7, SameConfiguration

\* A step of a check that loads no client.
LEMMA Moved ==
  ASSUME C!ConstantsAssumption, CachesInv, NEW c \in Check, NEW p,
         renewals' = renewals, current' = current, revision' = revision,
         DOMAIN scope' = 0..MaxRenewals,
         \A i \in 0..MaxRenewals :
            /\ IsScope(scope'[i]) /\ IsEntry(scope'[i].entry)
            /\ scope'[i].client \in {None, scope[i].client},
         \/ collection[c].at # "out" /\ collection' = [collection EXCEPT ![c].at = p]
         \/ collection' = [collection EXCEPT ![c] = C!Outside]
         \/ collection' = collection
  PROVE  CachesInv'
<1>1. /\ DOMAIN collection' = Check
      /\ \A d \in Check : d # c => collection'[d] = collection[d]
  BY DEF CachesInv
<1>2. CASE collection[c].at # "out" /\ collection' = [collection EXCEPT ![c].at = p]
  <2> DEFINE k == collection[c]
  <2>1. collection'[c] = [k EXCEPT !.at = p]
    BY <1>2 DEF CachesInv
  <2>2. IsCollection(k)
    BY DEF CachesInv
  <2> HIDE DEF k
  <2>3. /\ IsCollection(collection'[c])
        /\ collection'[c].in = k.in
        /\ collection'[c].client = k.client
    BY <2>1, <2>2, CollectionAt
  <2> QED BY <1>1, <1>2, <2>3, SameConfiguration DEF CachesInv, k
<1>3. CASE collection' = [collection EXCEPT ![c] = C!Outside]
  <2>1. collection'[c] = C!Outside
    BY <1>3 DEF CachesInv
  <2> QED BY <1>1, <2>1, OutsideIs, SameConfiguration DEF CachesInv
<1>4. CASE collection' = collection
  BY <1>1, <1>4, SameConfiguration DEF CachesInv
<1> QED BY <1>2, <1>3, <1>4

LEMMA NewEntry ==
  ASSUME NEW cs, NEW fr, NEW ex, NEW rv, NEW h \in [Check -> Nat],
         \A d \in Check : h[d] <= IF d \in cs THEN 1 ELSE 0
  PROVE  IsEntry([consumers |-> cs, fresh |-> fr, expired |-> ex, rev |-> rv, handed |-> h])
  BY DEF IsEntry

\* The entry that is handed to a check it was not handed to.
LEMMA HandedOn ==
  ASSUME NEW e, IsEntry(e), e # None, NEW c \in Check, c \notin e.consumers,
         NEW f, f = [e EXCEPT !.consumers = @ \cup {c}, !.handed[c] = @ + 1]
  PROVE  IsEntry(f)
<1> DEFINE h == [e.handed EXCEPT ![c] = @ + 1]
           s == e.consumers \cup {c}
<1>1. f = [consumers |-> s, fresh |-> e.fresh, expired |-> e.expired, rev |-> e.rev,
           handed |-> h]
  BY DEF IsEntry
<1>2. h \in [Check -> Nat]
  BY DEF IsEntry
<1>3. \A d \in Check : h[d] <= IF d \in s THEN 1 ELSE 0
  <2>1. e.handed[c] = 0
    BY DEF IsEntry
  <2> QED BY <2>1 DEF IsEntry
<1> HIDE DEF h, s
<1>4. IsEntry([consumers |-> s, fresh |-> e.fresh, expired |-> e.expired, rev |-> e.rev,
               handed |-> h])
  BY <1>2, <1>3, NewEntry
<1> QED BY <1>1, <1>4, Zenon

LEMMA TakeListing ==
  ASSUME C!ConstantsAssumption, CachesInv, NEW c \in Check, C!Take(c)
  PROVE  CachesInv'
<1> DEFINE i == collection[c].in
           s == scope[i]
           e == s.entry
<1>1. /\ renewals' = renewals /\ current' = current /\ revision' = revision
      /\ collection[c].at # "out"
  BY DEF C!Take
<1>2. i \in 0..MaxRenewals /\ i \in DOMAIN scope /\ IsScope(s) /\ IsEntry(e)
  BY <1>1 DEF CachesInv, Made, C!ConstantsAssumption
<1>3. \E p : collection' = [collection EXCEPT ![c].at = p]
  BY DEF C!Take
<1>4. /\ DOMAIN scope' = 0..MaxRenewals
      /\ \A j \in 0..MaxRenewals : j # i => scope'[j] = scope[j]
      /\ IsScope(scope'[i]) /\ IsEntry(scope'[i].entry)
      /\ scope'[i].client = s.client
  <2>1. CASE scope' = scope
    BY <1>2, <2>1 DEF CachesInv
  <2>2. CASE /\ C!Usable(e, c)
             /\ scope' = [scope EXCEPT
                    ![i].entry = [e EXCEPT !.consumers = @ \cup {c}, !.handed[c] = @ + 1]]
    <3> DEFINE f == [e EXCEPT !.consumers = @ \cup {c}, !.handed[c] = @ + 1]
    <3>1. IsEntry(f)
      BY <1>2, <2>2, HandedOn DEF C!Usable
    <3>2. scope'[i] = [s EXCEPT !.entry = f]
      BY <1>2, <2>2
    <3>3. DOMAIN scope' = 0..MaxRenewals /\ \A j \in 0..MaxRenewals : j # i => scope'[j] = scope[j]
      BY <2>2 DEF CachesInv
    <3> HIDE DEF f, e, s
    <3> QED BY <1>2, <3>1, <3>2, <3>3, ScopeEntry
  <2>3. CASE scope' = [scope EXCEPT ![i].holder = c, ![i].entry = IF kube THEN @ ELSE None]
    <3> DEFINE v == [s EXCEPT !.holder = c]
               f == IF kube THEN e ELSE None
    <3>1. IsEntry(f)
      BY <1>2 DEF IsEntry
    <3>2. scope'[i] = [v EXCEPT !.entry = f]
      BY <1>2, <2>3
    <3>3. DOMAIN scope' = 0..MaxRenewals /\ \A j \in 0..MaxRenewals : j # i => scope'[j] = scope[j]
      BY <2>3 DEF CachesInv
    <3> HIDE DEF f, e, s
    <3>4. IsScope(v) /\ v.client = s.client
      BY <1>2, ScopeHolder
    <3> HIDE DEF v
    <3> QED BY <3>1, <3>2, <3>3, <3>4, ScopeEntry
  <2> QED BY <2>1, <2>2, <2>3 DEF C!Take
<1>5. \A j \in 0..MaxRenewals :
        /\ IsScope(scope'[j]) /\ IsEntry(scope'[j].entry)
        /\ scope'[j].client \in {None, scope[j].client}
  BY <1>4 DEF CachesInv
<1> QED BY <1>1, <1>3, <1>4, <1>5, Moved

LEMMA AnswersStep ==
  ASSUME C!ConstantsAssumption, CachesInv, NEW c \in Check, C!Answers(c)
  PROVE  CachesInv'
<1> DEFINE i == collection[c].in
           s == scope[i]
<1>1. PICK got, room : C!Fetched(c, got, room)
  BY DEF C!Answers
<1>2. /\ renewals' = renewals /\ current' = current /\ revision' = revision
      /\ collection[c].at # "out"
      /\ collection' = [collection EXCEPT ![c].at = "done"]
  BY <1>1 DEF C!Fetched
<1>3. i \in 0..MaxRenewals /\ i \in DOMAIN scope /\ IsScope(s)
  BY <1>2 DEF CachesInv, Made, C!ConstantsAssumption
<1> DEFINE h == [d \in Check |-> IF d = c THEN 1 ELSE 0]
           new == [consumers |-> C!Consumers(c), fresh |-> TRUE, expired |-> got = Expired,
                   rev |-> collection[c].rev, handed |-> h]
           f == IF room /\ C!Keeps(got) THEN new ELSE None
<1>4. IsEntry(f)
  <2>1. h \in [Check -> Nat] /\ \A d \in Check : h[d] <= IF d \in {c} THEN 1 ELSE 0
    OBVIOUS
  <2>2. C!Consumers(c) = {c}
    BY DEF C!Consumers
  <2> HIDE DEF h
  <2>3. IsEntry(new)
    BY <2>1, <2>2 DEF IsEntry
  <2> HIDE DEF new
  <2> QED BY <2>3 DEF IsEntry
<1>5. scope' = [scope EXCEPT ![i].holder = None,
                             ![i].loader = IF @ = c THEN None ELSE @,
                             ![i].entry = f]
  BY <1>1 DEF C!Fetched
<1> HIDE DEF f
<1>v. PICK v : v = [s EXCEPT !.holder = None]
  OBVIOUS
<1>w. PICK w : w = [v EXCEPT !.loader = IF s.loader = c THEN None ELSE s.loader]
  OBVIOUS
<1>6. scope'[i] = [w EXCEPT !.entry = f]
  BY <1>3, <1>5, <1>v, <1>w
<1>7. DOMAIN scope' = 0..MaxRenewals /\ \A j \in 0..MaxRenewals : j # i => scope'[j] = scope[j]
  BY <1>5 DEF CachesInv
<1>8. IsScope(v) /\ v.client = s.client
  <2> HIDE DEF s
  <2> QED BY <1>3, <1>v, ScopeHolder
<1>9. IsScope(w) /\ w.client = s.client
  <2>1. PICK l : l = IF s.loader = c THEN None ELSE s.loader
    OBVIOUS
  <2>2. w = [v EXCEPT !.loader = l]
    BY <1>w, <2>1
  <2> HIDE DEF s
  <2> QED BY <1>8, <2>2, ScopeLoader
<1>10. IsScope(scope'[i]) /\ scope'[i].client = s.client /\ scope'[i].entry = f
  <2> HIDE DEF s
  <2> QED BY <1>6, <1>9, ScopeEntry
<1>11. \A j \in 0..MaxRenewals :
        /\ IsScope(scope'[j]) /\ IsEntry(scope'[j].entry)
        /\ scope'[j].client \in {None, scope[j].client}
  BY <1>4, <1>7, <1>10 DEF CachesInv
<1> QED BY <1>2, <1>7, <1>11, Moved

\* Releasing locks and forgetting a client.
LEMMA ReleaseStep ==
  ASSUME C!ConstantsAssumption, CachesInv, NEW c \in Check, C!Finish(c) \/ C!Drop(c)
  PROVE  CachesInv'
<1>1. /\ renewals' = renewals /\ current' = current /\ revision' = revision
      /\ collection[c].at # "out"
      /\ collection' = [collection EXCEPT ![c] = C!Outside]
  BY DEF C!Finish, C!Drop
<1>2. PICK t : /\ DOMAIN t = 0..MaxRenewals
               /\ \A j \in 0..MaxRenewals :
                    IsScope(t[j]) /\ IsEntry(t[j].entry) /\ t[j].client \in {None, scope[j].client}
               /\ scope' = C!Live(t, current, collection')
  <2>1. CASE C!Finish(c) /\ ~C!Forgets(c)
    <3>1. scope' = C!Live(scope, current, collection')
      BY <2>1 DEF C!Finish
    <3> QED BY <3>1 DEF CachesInv
  <2>2. CASE C!Finish(c) /\ C!Forgets(c)
    <3> DEFINE t == [scope EXCEPT ![current].client = None]
    <3>1. scope' = C!Live(t, current, collection')
      BY <2>2 DEF C!Finish
    <3>2. current \in 0..MaxRenewals
      BY <2>2 DEF C!Forgets, CachesInv
    <3>3. t[current] = [scope[current] EXCEPT !.client = None]
      BY <3>2 DEF CachesInv
    <3>4. DOMAIN t = 0..MaxRenewals /\ \A j \in 0..MaxRenewals : j # current => t[j] = scope[j]
      BY DEF CachesInv
    <3>5. IsScope(scope[current]) /\ IsEntry(scope[current].entry)
      BY <3>2 DEF CachesInv
    <3> HIDE DEF t
    <3>6. IsScope(t[current]) /\ t[current].client = None /\ t[current].entry = scope[current].entry
      BY <3>3, <3>5, ScopeClient
    <3> QED BY <3>1, <3>4, <3>5, <3>6 DEF CachesInv
  <2>3. CASE C!Drop(c)
    <3> DEFINE i == collection[c].in
               s == scope[i]
               t == C!Unlocked(c, i)
               v == [s EXCEPT !.loader = IF s.loader = c THEN None ELSE s.loader]
    <3>1. scope' = C!Live(t, current, collection')
      BY <2>3 DEF C!Drop
    <3>2. i \in 0..MaxRenewals /\ i \in DOMAIN scope /\ IsScope(s) /\ IsEntry(s.entry)
      BY <1>1 DEF CachesInv, Made, C!ConstantsAssumption
    <3>3. t[i] = [v EXCEPT !.holder = IF s.holder = c THEN None ELSE s.holder]
      BY <3>2 DEF C!Unlocked
    <3>4. DOMAIN t = 0..MaxRenewals /\ \A j \in 0..MaxRenewals : j # i => t[j] = scope[j]
      BY DEF C!Unlocked, CachesInv
    <3>5. IsScope(v) /\ v.client = s.client /\ v.entry = s.entry
      <4> HIDE DEF s
      <4> QED BY <3>2, ScopeLoader
    <3>6. IsScope(t[i]) /\ t[i].client = s.client /\ t[i].entry = s.entry
      <4> HIDE DEF v, s, t
      <4> QED BY <3>3, <3>5, ScopeHolder
    <3> HIDE DEF t
    <3> QED BY <3>1, <3>2, <3>4, <3>6 DEF CachesInv
  <2> QED BY <2>1, <2>2, <2>3
<1>3. /\ DOMAIN scope' = 0..MaxRenewals
      /\ \A j \in 0..MaxRenewals :
            /\ IsScope(scope'[j]) /\ IsEntry(scope'[j].entry)
            /\ scope'[j].client \in {None, scope[j].client}
  <2>1. DOMAIN scope' = 0..MaxRenewals
        /\ \A j \in 0..MaxRenewals : scope'[j] \in {t[j], C!NoScope}
    BY <1>2 DEF C!Live
  <2> QED BY <1>2, <2>1, EmptyScope
<1> QED BY <1>1, <1>3, Moved

LEMMA StartStep ==
  ASSUME C!ConstantsAssumption, CachesInv, NEW c \in Check, NEW r \in Rev, C!Start(c, r)
  PROVE  CachesInv'
<1> DEFINE k == [at |-> IF kube THEN "slot" ELSE "client", rev |-> r,
                 in |-> IF current = None THEN renewals ELSE current, client |-> None]
<1>1. /\ current' = renewals /\ renewals' = renewals /\ revision' = revision /\ scope' = scope
      /\ collection' = [collection EXCEPT ![c] = k]
      /\ k.in = renewals
  BY DEF C!Start, CachesInv
<1>2. IsCollection(k) /\ k.client = None
  BY DEF IsCollection
<1> HIDE DEF k
<1>3. current' # None /\ renewals \in 0..MaxRenewals
  BY <1>1 DEF CachesInv, C!ConstantsAssumption
<1>4. ASSUME NEW i, Made(i) PROVE Made(i)'
  BY <1>1, <1>3, <1>4 DEF Made
<1>5. ASSUME NEW i, NEW client, Rightful(i, client)
      PROVE  client # None => Made(i)' /\ (i = current' => client.rev = revision')
  BY <1>1, <1>4, <1>5 DEF Rightful, Made, CachesInv
<1>6. \A i \in 0..MaxRenewals :
        /\ IsScope(scope'[i]) /\ IsEntry(scope'[i].entry)
        /\ Rightful(i, scope[i].client)'
  <2>1. ASSUME NEW i \in 0..MaxRenewals PROVE Rightful(i, scope[i].client)'
    <3>1. Rightful(i, scope[i].client)
      BY DEF CachesInv
    <3> QED BY <1>1, <1>5, <3>1 DEF Rightful
  <2> QED BY <1>1, <2>1 DEF CachesInv
<1>7. ASSUME NEW d \in Check
      PROVE  /\ IsCollection(collection'[d])
             /\ Rightful(collection[d].in, collection[d].client)'
             /\ collection'[d].at # "out" => Made(collection[d].in)'
  <2>1. CASE d = c
    <3>1. collection'[d] = k
      BY <1>1, <2>1 DEF CachesInv
    <3>2. Made(renewals)'
      BY <1>1, <1>3 DEF Made
    <3> QED BY <1>1, <1>2, <3>1, <3>2 DEF Rightful, Made
  <2>2. CASE d # c
    <3>1. collection'[d] = collection[d]
      BY <1>1, <2>2 DEF CachesInv
    <3>2. IsCollection(collection[d]) /\ Rightful(collection[d].in, collection[d].client)
          /\ (collection[d].at # "out" => Made(collection[d].in))
      BY DEF CachesInv
    <3>3. Rightful(collection[d].in, collection[d].client)'
      BY <1>5, <3>1, <3>2 DEF Rightful
    <3>4. collection[d].at # "out" => Made(collection[d].in)'
      <4>1. ASSUME Made(collection[d].in) PROVE Made(collection[d].in)'
        BY <1>1, <1>3, <3>1, <4>1 DEF Made
      <4> QED BY <3>2, <4>1
    <3> QED BY <3>1, <3>2, <3>3, <3>4
  <2> QED BY <2>1, <2>2
<1>8. DOMAIN collection' = Check /\ DOMAIN scope' = 0..MaxRenewals
  BY <1>1 DEF CachesInv
<1> QED BY <1>1, <1>3, <1>6, <1>7, <1>8 DEF CachesInv, IsScope, IsEntry, IsCollection

LEMMA GrownOlder ==
  ASSUME NEW e, IsEntry(e), e # None, NEW f, f = [e EXCEPT !.fresh = FALSE]
  PROVE  IsEntry(f)
<1>1. f = [consumers |-> e.consumers, fresh |-> FALSE, expired |-> e.expired, rev |-> e.rev,
           handed |-> e.handed]
  BY DEF IsEntry
<1>2. e.handed \in [Check -> Nat]
      /\ \A d \in Check : e.handed[d] <= IF d \in e.consumers THEN 1 ELSE 0
  BY DEF IsEntry
<1>3. IsEntry([consumers |-> e.consumers, fresh |-> FALSE, expired |-> e.expired,
               rev |-> e.rev, handed |-> e.handed])
  BY <1>2, NewEntry
<1> QED BY <1>1, <1>3, Zenon

LEMMA AgeStep ==
  ASSUME C!ConstantsAssumption, CachesInv, NEW i \in 0..MaxRenewals, C!Age(i)
  PROVE  CachesInv'
<1> DEFINE s == scope[i]
           e == s.entry
           f == [e EXCEPT !.fresh = FALSE]
<1>1. /\ renewals' = renewals /\ current' = current /\ revision' = revision
      /\ collection' = collection /\ e # None
      /\ scope' = [scope EXCEPT ![i].entry.fresh = FALSE]
  BY DEF C!Age
<1>2. IsScope(s) /\ IsEntry(e)
  BY DEF CachesInv
<1>3. IsEntry(f)
  <2> HIDE DEF e
  <2> QED BY <1>1, <1>2, GrownOlder
<1>4. scope'[i] = [s EXCEPT !.entry = f]
  BY <1>1 DEF CachesInv
<1>5. DOMAIN scope' = 0..MaxRenewals /\ \A j \in 0..MaxRenewals : j # i => scope'[j] = scope[j]
  BY <1>1 DEF CachesInv
<1>6. IsScope(scope'[i]) /\ scope'[i].client = s.client /\ scope'[i].entry = f
  <2> HIDE DEF f, s
  <2> QED BY <1>2, <1>4, ScopeEntry
<1> HIDE DEF f, e
<1>7. \A j \in 0..MaxRenewals :
        /\ IsScope(scope'[j]) /\ IsEntry(scope'[j].entry)
        /\ scope'[j].client \in {None, scope[j].client}
  BY <1>3, <1>5, <1>6 DEF CachesInv
<1>8. \A c \in Check :
        /\ IsCollection(collection'[c])
        /\ collection'[c] = collection[c]
  BY <1>1 DEF CachesInv
<1>9. DOMAIN collection' = Check
  BY <1>1 DEF CachesInv
<1> QED BY <1>1, <1>5, <1>7, <1>8, <1>9, SameConfiguration

\* The new configuration has no scope yet, whatever collections hold.
LEMMA ReloadStep ==
  ASSUME C!ConstantsAssumption, CachesInv, NEW r \in Rev, C!Reload(r)
  PROVE  CachesInv'
<1>1. /\ renewals < MaxRenewals /\ renewals' = renewals + 1 /\ current' = None
      /\ collection' = collection
      /\ scope' = C!Live(scope, current', collection)
  BY DEF C!Reload, C!Emptied
<1>2. renewals \in 0..MaxRenewals /\ MaxRenewals \in Nat /\ None \notin 0..MaxRenewals
  BY DEF CachesInv, C!ConstantsAssumption
<1>3. ASSUME NEW i, Made(i) PROVE Made(i)' /\ i # None
  BY <1>1, <1>2, <1>3 DEF Made
<1>4. ASSUME NEW i, NEW client, Rightful(i, client)
      PROVE  client # None => Made(i)' /\ (i = current' => client.rev = revision')
  BY <1>1, <1>3, <1>4 DEF Rightful
<1>5. /\ DOMAIN scope' = 0..MaxRenewals
      /\ \A i \in 0..MaxRenewals : scope'[i] \in {scope[i], C!NoScope}
  BY <1>1 DEF C!Live
<1>6. ASSUME NEW i \in 0..MaxRenewals
      PROVE  /\ IsScope(scope'[i]) /\ IsEntry(scope'[i].entry)
             /\ Rightful(i, scope[i].client)'
  <2>1. IsScope(scope[i]) /\ IsEntry(scope[i].entry) /\ Rightful(i, scope[i].client)
    BY DEF CachesInv
  <2>2. CASE scope'[i] = scope[i]
    BY <1>4, <2>1, <2>2 DEF Rightful
  <2>3. CASE scope'[i] = C!NoScope
    BY <2>3, EmptyScope DEF Rightful
  <2> QED BY <1>5, <2>2, <2>3
<1>7. ASSUME NEW d \in Check
      PROVE  /\ IsCollection(collection'[d])
             /\ Rightful(collection[d].in, collection[d].client)'
             /\ collection'[d].at # "out" => Made(collection[d].in)'
  <2>1. IsCollection(collection[d]) /\ Rightful(collection[d].in, collection[d].client)
        /\ (collection[d].at # "out" => Made(collection[d].in))
    BY DEF CachesInv
  <2>2. Rightful(collection[d].in, collection[d].client)'
    BY <1>1, <1>4, <2>1 DEF Rightful
  <2>3. collection[d].at # "out" => Made(collection[d].in)'
    <3>1. ASSUME Made(collection[d].in) PROVE Made(collection[d].in)'
      BY <1>1, <1>2, <3>1 DEF Made
    <3> QED BY <2>1, <3>1
  <2> QED BY <1>1, <2>1, <2>2, <2>3
<1>8. DOMAIN collection' = Check /\ renewals' \in 0..MaxRenewals
  BY <1>1, <1>2 DEF CachesInv
<1> QED BY <1>1, <1>5, <1>6, <1>7, <1>8 DEF CachesInv, IsScope, IsEntry, IsCollection

LEMMA CachesBegin == ASSUME C!ConstantsAssumption, C!Init PROVE CachesInv
<1>1. \A i \in 0..MaxRenewals : scope[i] = C!NoScope
  BY DEF C!Init
<1>2. \A c \in Check : collection[c] = C!Outside
  BY DEF C!Init
<1>3. renewals = 0 /\ current = None /\ DOMAIN scope = 0..MaxRenewals /\ DOMAIN collection = Check
      /\ 0 \in 0..MaxRenewals
  BY DEF C!Init, C!ConstantsAssumption
<1> QED BY <1>1, <1>2, <1>3, EmptyScope, OutsideIs DEF CachesInv, Rightful

\* A listing is handed to each check at most once, and a collection in the current scope works
\* with a client of the current configuration: for any checks, revisions, reloads and rotations,
\* and wherever a collection is cancelled (inventory_cache.rs, load; router.rs, scope and auth;
\* router_lifecycle.rs, reload).
THEOREM SharingIsSound ==
  ASSUME C!ConstantsAssumption
  PROVE  C!Spec => []SharedIsSound
<1>1. C!Init => CachesInv
  BY CachesBegin
<1>2. CachesInv /\ [C!Next]_(C!cvars) => CachesInv'
  <2> SUFFICES ASSUME CachesInv, [C!Next]_(C!cvars) PROVE CachesInv'
    OBVIOUS
  <2>1. ASSUME NEW c \in Check, NEW r \in Rev, C!Start(c, r) PROVE CachesInv'
    BY <2>1, StartStep
  <2>2. ASSUME NEW c \in Check, C!Client(c) \/ C!Loaded(c) PROVE CachesInv'
    BY <2>2, CollectStep
  <2>3. ASSUME NEW c \in Check, C!Take(c) PROVE CachesInv'
    BY <2>3, TakeListing
  <2>4. ASSUME NEW c \in Check, C!Answers(c) PROVE CachesInv'
    BY <2>4, AnswersStep
  <2>5. ASSUME NEW c \in Check, C!Finish(c) \/ C!Drop(c) PROVE CachesInv'
    BY <2>5, ReleaseStep
  <2>6. ASSUME NEW i \in 0..MaxRenewals, C!Age(i) PROVE CachesInv'
    BY <2>6, AgeStep
  <2>7. ASSUME NEW r \in Rev, C!Reload(r) PROVE CachesInv'
    BY <2>7, ReloadStep
  <2>8. CASE C!Rotate \/ UNCHANGED C!cvars
    <3>1. /\ scope' = scope /\ collection' = collection /\ current' = current
          /\ renewals' = renewals /\ revision' = revision
      BY <2>8 DEF C!Rotate, C!cvars
    <3> QED BY <3>1 DEF CachesInv, IsScope, IsEntry, IsCollection, Rightful, Made
  <2> QED BY <2>1, <2>2, <2>3, <2>4, <2>5, <2>6, <2>7, <2>8 DEF C!Next
<1>3. CachesInv => SharedIsSound
  <2> SUFFICES ASSUME CachesInv PROVE SharedIsSound
    OBVIOUS
  <2>1. ASSUME NEW i \in 0..MaxRenewals, scope[i].entry # None, NEW c \in Check
        PROVE  scope[i].entry.handed[c] <= 1
    <3>1. IsEntry(scope[i].entry)
      BY DEF CachesInv
    <3> DEFINE e == scope[i].entry
    <3>2. e.handed[c] <= (IF c \in e.consumers THEN 1 ELSE 0) /\ e.handed[c] \in Nat
      BY <2>1, <3>1 DEF IsEntry
    <3> QED BY <3>2
  <2>2. C!ClientIsCurrent
    BY DEF C!ClientIsCurrent, CachesInv, Rightful
  <2> QED BY <2>1, <2>2 DEF SharedIsSound, C!HandedOnce
<1> QED BY <1>1, <1>2, <1>3, PTL DEF C!Spec

-----------------------------------------------------------------------------
(* Reads: a shared response is never older than what its key says.         *)

Point == [gen : Nat, marks : Nat]
NotBefore(p, q) == p.gen >= q.gen /\ p.marks >= q.marks

\* A response under a key.
Entry == {e \in [key : Point, got : Point] : NotBefore(e.got, e.key)}

IsRequest(q) == q = [at |-> q.at, key |-> q.key, asked |-> q.asked, got |-> q.got]

\* Where the publication is: built, then stored, then announced.
Published ==
    /\ generation \in Nat /\ view \in Nat /\ changed \in Nat /\ seen \in Nat /\ marks \in Nat
    /\ view <= generation /\ changed <= view /\ seen <= changed
    /\ changed < view => generation = view

\* What a request waits for was asked for, and is not before what it asked for.
Promised(q) ==
    /\ IsRequest(q)
    /\ q.at \in {"waiting", "loading", "read"} =>
            q.key \in Point /\ q.asked = q.key /\ q.key.gen <= view /\ q.key.marks <= marks
    /\ q.at = "read" => /\ q.got = [gen |-> 0, marks |-> q.got.marks]
                        /\ q.got.marks \in Nat /\ q.got.marks >= q.key.marks
    /\ q.at \in {"hit", "miss"} => q.asked \in Point /\ q.got \in Point /\ NotBefore(q.got, q.asked)

ReadsInv ==
    /\ Published
    /\ cache \in Seq(Entry)
    /\ DOMAIN requests = Reader
    /\ \A r \in Reader : Promised(requests[r])

\* A step of the monitor or of the cache leaves the requests as they are.
LEMMA Onwards ==
  ASSUME ReadsInv, Published', cache' \in Seq(Entry), requests' = requests,
         view' >= view, marks' >= marks
  PROVE  ReadsInv'
<1>1. ASSUME NEW r \in Reader PROVE Promised(requests[r])'
  <2> DEFINE q == requests[r]
  <2>1. Promised(q) /\ q = requests'[r]
    BY DEF ReadsInv
  <2>2. q.at \in {"waiting", "loading", "read"} => q.key.gen <= view' /\ q.key.marks <= marks'
    BY <2>1 DEF Promised, Point, ReadsInv, Published
  <2> HIDE DEF q
  <2> QED BY <2>1, <2>2 DEF Promised, IsRequest, NotBefore, Point
<1> QED BY <1>1 DEF ReadsInv

\* A step of one request.
LEMMA OneRequest ==
  ASSUME ReadsInv, NEW r \in Reader, NEW q, Promised(q), cache' \in Seq(Entry),
         requests' = [requests EXCEPT ![r] = q],
         UNCHANGED <<generation, view, changed, seen, marks>>
  PROVE  ReadsInv'
<1>1. Published'
  BY DEF ReadsInv, Published
<1>2. DOMAIN requests' = Reader /\ requests'[r] = q
      /\ \A p \in Reader : p # r => requests'[p] = requests[p]
  BY DEF ReadsInv
<1>3. \A p \in Reader : Promised(requests'[p])
  BY <1>2 DEF ReadsInv
<1>4. \A p \in Reader : Promised(requests[p])'
  BY <1>3 DEF Promised, IsRequest, NotBefore, Point
<1> QED BY <1>1, <1>2, <1>4 DEF ReadsInv

LEMMA Removed ==
  ASSUME NEW S, NEW s \in Seq(S), NEW i \in DOMAIN s
  PROVE  R!RemoveAt(s, i) \in Seq(S)
<1>1. i \in 1..Len(s)
  OBVIOUS
<1>2. SubSeq(s, 1, i - 1) \in Seq(S)
  BY <1>1
<1>3. SubSeq(s, i + 1, Len(s)) \in Seq(S)
  BY <1>1
<1> QED BY <1>2, <1>3 DEF R!RemoveAt

LEMMA HitStep ==
  ASSUME ReadsInv, NEW r \in Reader, NEW k \in Point, R!Hit(r, k, k),
         UNCHANGED <<generation, view, changed, seen, marks>>
  PROVE  ReadsInv'
<1>1. PICK i \in R!Hits(k) :
        /\ cache' = R!Promoted(i)
        /\ requests' = [requests EXCEPT ![r] =
                [at |-> "hit", key |-> k, asked |-> k, got |-> cache[i].got]]
  BY DEF R!Hit
<1>2. i \in DOMAIN cache /\ cache[i] \in Entry /\ cache[i].key = k
  BY <1>1 DEF R!Hits, ReadsInv
<1>3. cache' \in Seq(Entry)
  BY <1>1, <1>2, Removed DEF R!Promoted, ReadsInv
<1> DEFINE q == [at |-> "hit", key |-> k, asked |-> k, got |-> cache[i].got]
<1>4. Promised(q)
  BY <1>2 DEF Promised, IsRequest, Entry
<1> HIDE DEF q
<1>5. requests' = [requests EXCEPT ![r] = q]
  BY <1>1 DEF q
<1> QED BY <1>3, <1>4, <1>5, OneRequest

\* A change of place that keeps the rest of what the request is.
LEMMA RequestAt ==
  ASSUME ReadsInv, NEW r \in Reader, NEW place
  PROVE  [requests EXCEPT ![r].at = place] =
           [requests EXCEPT ![r] = [at |-> place, key |-> requests[r].key,
                                   asked |-> requests[r].asked, got |-> requests[r].got]]
<1> DEFINE q == requests[r]
           n == [at |-> place, key |-> q.key, asked |-> q.asked, got |-> q.got]
<1>1. q = [at |-> q.at, key |-> q.key, asked |-> q.asked, got |-> q.got]
  BY DEF ReadsInv, Promised, IsRequest
<1>2. [q EXCEPT !.at = place] = n
  BY <1>1
<1> QED BY <1>2

LEMMA AskStep == ASSUME ReadsInv, NEW r \in Reader, R!Ask(r) PROVE ReadsInv'
<1> DEFINE k == [gen |-> view, marks |-> marks]
<1>1. k \in Point
  BY DEF ReadsInv, Published, Point
<1>2. UNCHANGED <<generation, view, changed, seen, marks>>
  BY DEF R!Ask
<1>3. CASE R!Hit(r, k, k)
  <2> HIDE DEF k
  <2> QED BY <1>1, <1>2, <1>3, HitStep
<1>4. CASE /\ requests' = [requests EXCEPT ![r] =
                 [at |-> "waiting", key |-> k, asked |-> k, got |-> None]]
           /\ UNCHANGED cache
  <2> DEFINE q == [at |-> "waiting", key |-> k, asked |-> k, got |-> None]
  <2>1. k.gen <= view /\ k.marks <= marks
    BY DEF ReadsInv, Published
  <2>2. Promised(q)
    BY <1>1, <2>1 DEF Promised, IsRequest
  <2>3. requests' = [requests EXCEPT ![r] = q] /\ cache' \in Seq(Entry)
    BY <1>4 DEF ReadsInv
  <2> HIDE DEF q
  <2> QED BY <1>2, <2>2, <2>3, OneRequest
<1> QED BY <1>3, <1>4 DEF R!Ask, R!CacheKey

LEMMA LockStep == ASSUME ReadsInv, NEW r \in Reader, R!Lock(r) PROVE ReadsInv'
<1> DEFINE k == requests[r].key
<1>1. Promised(requests[r]) /\ requests[r].at = "waiting"
  BY DEF ReadsInv, R!Lock
<1>2. k \in Point /\ requests[r].asked = k /\ k.gen <= view /\ k.marks <= marks
  BY <1>1 DEF Promised
<1>3. UNCHANGED <<generation, view, changed, seen, marks>>
  BY DEF R!Lock
<1>4. CASE R!Hit(r, k, k)
  <2> HIDE DEF k
  <2> QED BY <1>2, <1>3, <1>4, HitStep
<1>5. CASE requests' = [requests EXCEPT ![r].at = "loading"] /\ UNCHANGED cache
  <2> DEFINE q == [at |-> "loading", key |-> requests[r].key,
                   asked |-> requests[r].asked, got |-> requests[r].got]
  <2>1. Promised(q)
    BY <1>2 DEF Promised, IsRequest
  <2>2. requests' = [requests EXCEPT ![r] = q] /\ cache' \in Seq(Entry)
    BY <1>5, RequestAt DEF ReadsInv
  <2> HIDE DEF q
  <2> QED BY <1>3, <2>1, <2>2, OneRequest
<1> QED BY <1>2, <1>4, <1>5 DEF R!Lock

LEMMA ReadStep == ASSUME ReadsInv, NEW r \in Reader, R!Read(r) PROVE ReadsInv'
<1> DEFINE p == requests[r]
           g == [gen |-> 0, marks |-> marks]
           q == [at |-> "read", key |-> p.key, asked |-> p.asked, got |-> g]
<1>1. Promised(p) /\ p.at = "loading" /\ marks \in Nat
  BY DEF ReadsInv, Published, R!Read
<1>2. Promised(q)
  BY <1>1 DEF Promised, IsRequest
<1>3. p = [at |-> p.at, key |-> p.key, asked |-> p.asked, got |-> p.got]
  BY <1>1 DEF Promised, IsRequest
<1> DEFINE n == [p EXCEPT !.at = "read"]
<1>4. [n EXCEPT !.got = g] = q
  <2>1. n = [at |-> "read", key |-> p.key, asked |-> p.asked, got |-> p.got]
    BY <1>3
  <2> HIDE DEF n, g
  <2> QED BY <2>1
<1>5. requests' = [requests EXCEPT ![r] = q]
  <2>1. requests' = [requests EXCEPT ![r].at = "read", ![r].got = g]
    BY DEF R!Read
  <2>2. requests' = [requests EXCEPT ![r] = [n EXCEPT !.got = g]]
    BY <2>1 DEF ReadsInv
  <2> QED BY <2>2, <1>4
<1>6. cache' \in Seq(Entry) /\ UNCHANGED <<generation, view, changed, seen, marks>>
  BY DEF R!Read, ReadsInv
<1> HIDE DEF q
<1> QED BY <1>2, <1>5, <1>6, OneRequest

\* What a load got is not before what its key says, which no later load shows less of.
LEMMA RespondStep ==
  ASSUME R!ConstantsAssumption, ReadsInv, NEW r \in Reader, R!Respond(r)
  PROVE  ReadsInv'
<1> DEFINE p == requests[r]
           g == [p.got EXCEPT !.gen = view]
           entry == [key |-> p.key, got |-> g]
           q == [at |-> "miss", key |-> p.key, asked |-> p.asked, got |-> g]
           rest == R!Others(p.key)
<1>1. /\ Promised(p) /\ p.at = "read" /\ view \in Nat /\ cache \in Seq(Entry)
      /\ UNCHANGED <<generation, view, changed, seen, marks>>
  BY DEF ReadsInv, Published, R!Respond
<1>2. p.got = [gen |-> 0, marks |-> p.got.marks] /\ p.got.marks \in Nat
      /\ p.got.marks >= p.key.marks /\ p.key.gen <= view /\ p.key \in Point /\ p.asked = p.key
  BY <1>1 DEF Promised
<1>3. g = [gen |-> view, marks |-> p.got.marks]
  BY <1>2
<1>4. g \in Point /\ NotBefore(g, p.key)
  BY <1>1, <1>2, <1>3 DEF Point, NotBefore
<1>5. entry \in Entry
  BY <1>2, <1>4 DEF Entry
<1>6. Promised(q)
  BY <1>2, <1>4 DEF Promised, IsRequest
<1>7. rest \in Seq(Entry)
  <2>1. CASE R!Hits(p.key) = {}
    BY <1>1, <2>1 DEF R!Others
  <2>2. CASE R!Hits(p.key) # {}
    <3>1. PICK i : i = CHOOSE j \in R!Hits(p.key) : TRUE
      OBVIOUS
    <3>2. i \in R!Hits(p.key)
      BY <2>2, <3>1
    <3>3. i \in DOMAIN cache
      BY <3>2 DEF R!Hits
    <3>4. rest = R!RemoveAt(cache, i)
      BY <2>2, <3>1 DEF R!Others
    <3> HIDE DEF rest
    <3> QED BY <1>1, <3>3, <3>4, Removed
  <2> QED BY <2>1, <2>2
<1>8. R!Evicted(rest) \in Seq(Entry)
  <2> HIDE DEF rest
  <2>1. CASE Len(rest) >= MaxEntries
    <3>1. rest # <<>>
      BY <1>7, <2>1 DEF R!ConstantsAssumption
    <3> QED BY <1>7, <2>1, <3>1 DEF R!Evicted
  <2> QED BY <1>7, <2>1 DEF R!Evicted
<1>9. cache' = Append(R!Evicted(rest), entry)
      /\ requests' = [requests EXCEPT ![r].at = "miss", ![r].got = g]
  BY DEF R!Respond
<1>10. cache' \in Seq(Entry)
  <2> HIDE DEF rest, entry
  <2> QED BY <1>5, <1>8, <1>9
<1>11. requests' = [requests EXCEPT ![r] = q]
  <2>1. p = [at |-> p.at, key |-> p.key, asked |-> p.asked, got |-> p.got]
    BY <1>1 DEF Promised, IsRequest
  <2> DEFINE n == [p EXCEPT !.at = "miss"]
  <2>2. [n EXCEPT !.got = g] = q
    <3>1. n = [at |-> "miss", key |-> p.key, asked |-> p.asked, got |-> p.got]
      BY <2>1
    <3> HIDE DEF n, g
    <3> QED BY <3>1
  <2>3. requests' = [requests EXCEPT ![r] = [n EXCEPT !.got = g]]
    BY <1>9 DEF ReadsInv
  <2> QED BY <2>2, <2>3
<1> HIDE DEF q
<1> QED BY <1>1, <1>6, <1>10, <1>11, OneRequest

LEMMA LeaveStep == ASSUME ReadsInv, NEW r \in Reader, R!Leave(r) PROVE ReadsInv'
<1> DEFINE q == R!Away
<1>1. Promised(q)
  BY DEF Promised, IsRequest, R!Away
<1>2. /\ requests' = [requests EXCEPT ![r] = q] /\ cache' \in Seq(Entry)
      /\ UNCHANGED <<generation, view, changed, seen, marks>>
  BY DEF R!Leave, ReadsInv
<1> HIDE DEF q
<1> QED BY <1>1, <1>2, OneRequest

\* No reader goes back: a response is as recent as the view and the losses were when it was
\* asked for, whoever loaded it and for which key, and a revision is announced when it can be
\* read (scope_api.rs, scopes; scope_cache.rs, get, flight and insert; bus.rs, update).
THEOREM ReadersNeverGoBack ==
  ASSUME R!ConstantsAssumption
  PROVE  R!Spec => []ReadersGoForward
<1>1. R!Init => ReadsInv
  <2> SUFFICES ASSUME R!Init PROVE ReadsInv
    OBVIOUS
  <2>1. Published
    BY DEF R!Init, Published
  <2>2. cache \in Seq(Entry)
    BY DEF R!Init
  <2>3. DOMAIN requests = Reader /\ \A r \in Reader : Promised(requests[r])
    BY DEF R!Init, Promised, IsRequest, R!Away
  <2> QED BY <2>1, <2>2, <2>3 DEF ReadsInv
<1>2. ReadsInv /\ [R!Next]_(R!dvars) => ReadsInv'
  <2> SUFFICES ASSUME ReadsInv, [R!Next]_(R!dvars) PROVE ReadsInv'
    OBVIOUS
  <2>1. ASSUME NEW r \in Reader, R!Ask(r) \/ R!Lock(r) \/ R!Read(r) \/ R!Respond(r) \/ R!Leave(r)
        PROVE  ReadsInv'
    BY <2>1, AskStep, LockStep, ReadStep, RespondStep, LeaveStep
  <2>2. CASE R!Build \/ R!Store \/ R!Announce \/ R!Stream \/ R!Mark
    <3>1. Published'
      BY <2>2 DEF ReadsInv, Published, R!Build, R!Store, R!Announce, R!Stream, R!Mark
    <3>2. requests' = requests /\ cache' \in Seq(Entry) /\ view' >= view /\ marks' >= marks
      BY <2>2 DEF ReadsInv, Published, R!Build, R!Store, R!Announce, R!Stream, R!Mark
    <3> QED BY <3>1, <3>2, Onwards
  <2>3. CASE R!Expire
    <3>1. Published' /\ requests' = requests /\ view' >= view /\ marks' >= marks
      BY <2>3 DEF ReadsInv, Published, R!Expire
    <3>2. cache' \in Seq(Entry)
      BY <2>3, Removed DEF ReadsInv, R!Expire
    <3> QED BY <3>1, <3>2, Onwards
  <2>4. CASE UNCHANGED R!dvars
    <3>1. Published' /\ cache' \in Seq(Entry) /\ requests' = requests /\ view' >= view /\ marks' >= marks
      BY <2>4 DEF ReadsInv, Published, R!dvars
    <3> QED BY <3>1, Onwards
  <2> QED BY <2>1, <2>2, <2>3, <2>4 DEF R!Next
<1>3. ReadsInv => ReadersGoForward
  <2> SUFFICES ASSUME ReadsInv PROVE ReadersGoForward
    OBVIOUS
  <2>1. seen <= view
    BY DEF ReadsInv, Published
  <2>2. ASSUME NEW r \in R!Answered
        PROVE  /\ requests[r].got.gen >= requests[r].asked.gen
               /\ requests[r].got.marks >= requests[r].asked.marks
    <3>1. Promised(requests[r]) /\ requests[r].at \in {"hit", "miss"}
      BY <2>2 DEF R!Answered, ReadsInv
    <3> QED BY <3>1 DEF Promised, NotBefore
  <2> QED BY <2>1, <2>2 DEF ReadersGoForward, R!HitsAreCurrent, R!AnnouncedIsReadable
<1> QED BY <1>1, <1>2, <1>3, PTL DEF R!Spec
=============================================================================
