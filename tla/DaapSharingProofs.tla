------------------------------ MODULE DaapSharingProofs ------------------------------
(***************************************************************************)
(* However many services come and go, Servent knows those there are when   *)
(* all replies are read, and the address it is told for a record has the   *)
(* port of that record, unless a query is answered twice.  However much is *)
(* written and wherever it is cut, a DAAP session through a peer hands     *)
(* over what a Pipe does.                                                  *)
(***************************************************************************)
EXTENDS DaapSharing, FiniteSetTheorems, TLAPS, NaturalsInduction, WellFoundedInduction

(* What one query can be in the middle of, if none was answered twice:       *)
(* not answered yet, being looked up, or told and waiting for its cleanup.   *)
(* Only with nothing under way can the resolver take up another record.      *)
Unanswered == lookups = <<>> /\ cleanups = 0 /\ answers = 0
LookedUp == lookups = <<bonjourPort>> /\ cleanups = 0 /\ answers = 1 /\ resolveRef # None
Told == lookups = <<>> /\ cleanups = 1 /\ answers = 1 /\ resolveRef # None

BInv ==
    /\ twice \in BOOLEAN
    /\ twice \/ Unanswered \/ LookedUp \/ Told
    /\ ResolvedRight

LEMMA InitBInv == Init => BInv
BY DEF Init, InitBonjour, BInv, ResolvedRight, Unanswered

(* Reading the only lookup there is leaves none. *)
LEMMA OnlyLookup ==
    ASSUME NEW r, NEW i \in DOMAIN <<r>>
    PROVE  <<r>>[i] = r /\ RemoveAt(<<r>>, i) = <<>>
<1>1. i = 1
  OBVIOUS
<1>2. SubSeq(<<r>>, 1, 0) = <<>> /\ SubSeq(<<r>>, 2, 1) = <<>>
  OBVIOUS
<1>3. Len(<<r>>) = 1 /\ <<r>>[1] = r
  OBVIOUS
<1> QED BY <1>1, <1>2, <1>3 DEF RemoveAt

(* A query that is under way is not replaced, nor its answers forgotten. *)
LEMMA BrowsedBInv == BInv /\ Browsed => BInv'
<1> SUFFICES ASSUME BInv, Browsed
             PROVE  BInv'
  OBVIOUS
<1>1. UNCHANGED <<bonjourPort, lookups, cleanups, resolved, twice>>
  BY DEF Browsed
<1>2. \/ UNCHANGED <<resolveRef, answers>>
      \/ answers = 0 /\ answers' = 0
      \/ resolveRef # None /\ UNCHANGED <<resolveRef, answers>>
      \/ twice \/ (answers # 0 /\ resolveRef = None)
  BY DEF Browsed, UpdateBonjourRecords, Asks, BInv, Unanswered, LookedUp, Told
<1> QED BY <1>1, <1>2 DEF BInv, ResolvedRight, Unanswered, LookedUp, Told

LEMMA ResolveReplyBInv == BInv /\ ResolveReply => BInv'
<1> SUFFICES ASSUME BInv, ResolveReply
             PROVE  BInv'
  OBVIOUS
<1>1. UNCHANGED <<resolveRef, cleanups, resolved>> /\ resolveRef # None
  BY DEF ResolveReply
<1>2. CASE UNCHANGED <<bonjourPort, lookups, answers, twice>>
  BY <1>1, <1>2 DEF BInv, ResolvedRight, Unanswered, LookedUp, Told
<1>3. CASE /\ bonjourPort' = resolveRef /\ lookups' = Append(lookups, resolveRef)
           /\ answers' = answers + 1 /\ twice' = (twice \/ answers > 0)
  <2>1. CASE twice
    BY <1>1, <1>3, <2>1 DEF BInv, ResolvedRight
  <2>2. CASE ~twice /\ Unanswered
    <3>1. lookups' = <<resolveRef>>
      BY <1>3, <2>2 DEF Unanswered
    <3>2. LookedUp'
      <4>1. answers' = 1 /\ cleanups' = 0
        BY <1>1, <1>3, <2>2 DEF Unanswered
      <4> QED BY <1>1, <1>3, <3>1, <4>1 DEF LookedUp
    <3>3. ~(answers > 0)
      BY <2>2 DEF Unanswered
    <3>4. twice' \in BOOLEAN
      BY <1>3, <3>3, Zenon DEF BInv
    <3> QED BY <1>1, <2>2, <3>2, <3>4, Zenon DEF BInv, ResolvedRight
  <2>3. CASE ~twice /\ (LookedUp \/ Told)
    <3>1. answers > 0
      BY <2>3 DEF LookedUp, Told
    <3>2. twice' = TRUE
      BY <1>3, <3>1, Zenon
    <3> QED BY <3>2 DEF BInv, ResolvedRight
  <2> QED BY <2>1, <2>2, <2>3 DEF BInv
<1> QED BY <1>2, <1>3 DEF ResolveReply

LEMMA FinishConnectBInv == BInv /\ FinishConnect => BInv'
<1> SUFFICES ASSUME BInv, FinishConnect
             PROVE  BInv'
  OBVIOUS
<1>1. UNCHANGED <<resolveRef, answers, twice>> /\ cleanups' = cleanups + 1
  BY DEF FinishConnect
<1>2. PICK i \in DOMAIN lookups :
         /\ resolved' = resolved \cup {[host |-> lookups[i], port |-> bonjourPort]}
         /\ lookups' = RemoveAt(lookups, i)
  BY DEF FinishConnect
<1>3. CASE twice
  BY <1>1, <1>3 DEF BInv, ResolvedRight
<1>4. CASE ~twice
  <2>1. LookedUp
    BY <1>2, <1>4 DEF BInv, Unanswered, Told
  <2>2. lookups[i] = bonjourPort /\ lookups' = <<>>
    BY <1>2, <2>1, OnlyLookup DEF LookedUp
  <2>3. Told'
    BY <1>1, <2>1, <2>2 DEF LookedUp, Told
  <2>4. ResolvedRight'
    BY <1>1, <1>2, <1>4, <2>2 DEF BInv, ResolvedRight
  <2> QED BY <1>1, <2>3, <2>4 DEF BInv
<1> QED BY <1>3, <1>4 DEF BInv

LEMMA CleanupBInv == BInv /\ CleanupResolve => BInv'
<1> SUFFICES ASSUME BInv, CleanupResolve
             PROVE  BInv'
  OBVIOUS
<1>1. UNCHANGED <<lookups, resolved, twice>> /\ answers' = 0 /\ cleanups > 0
      /\ cleanups' = cleanups - 1
  BY DEF CleanupResolve
<1>2. twice \/ Unanswered'
  BY <1>1 DEF BInv, Unanswered, LookedUp, Told
<1> QED BY <1>1, <1>2 DEF BInv, ResolvedRight

(* What the resolver works with is touched by BonjourStep alone. *)
LEMMA NextBInv == BInv /\ [Next]_vars => BInv'
<1> SUFFICES ASSUME BInv, [Next]_vars
             PROVE  BInv'
  OBVIOUS
<1>1. ASSUME UNCHANGED <<resolveRef, answers, bonjourPort, lookups, cleanups, resolved, twice>>
      PROVE  BInv'
  BY <1>1 DEF BInv, ResolvedRight, Unanswered, LookedUp, Told
<1>2. CASE UNCHANGED vars
  BY <1>1, <1>2 DEF vars, bonjourVars
<1>3. ASSUME NEW o \in Offers, CreateDaapListener(o) \/ ListenerShutdown(o)
      PROVE  BInv'
  BY <1>1, <1>3 DEF CreateDaapListener, ListenerShutdown, bonjourVars
<1>4. CASE Accept \/ RelayStep \/ DisturbStep
  BY <1>1, <1>4 DEF Accept, RelayStep, DisturbStep, bonjourVars
<1>5. CASE BonjourStep
  <2>1. CASE LanChanges
    BY <1>1, <2>1 DEF LanChanges
  <2> QED BY <1>5, <2>1, BrowsedBInv, ResolveReplyBInv, FinishConnectBInv, CleanupBInv
          DEF BonjourStep
<1> QED BY <1>2, <1>3, <1>4, <1>5 DEF Next

(* finishConnect() emits the port that was answered last, and the cleanup is  *)
(* queued behind it: with one answer to a query it is the query's own port   *)
(* (bonjourserviceresolver.cpp:55-112).                                      *)
THEOREM PortOfItsRecord == Spec => []ResolvedRight
<1>1. BInv => ResolvedRight
  BY DEF BInv
<1> QED BY <1>1, InitBInv, NextBInv, PTL DEF Spec

-----------------------------------------------------------------------------
(* Recursion over the places of a sequence *)

(* Every set of numbers has a least one. *)
LEMMA Least ==
  ASSUME NEW T \in SUBSET Nat, T # {}
  PROVE  \E x \in T : \A y \in T : x <= y
<1> DEFINE R == {p \in Nat \X Nat : p[1] < p[2]}
<1>1. IsWellFoundedOn(OpToRel(<, Nat), Nat)
  BY NatLessThanWellFounded
<1>2. OpToRel(<, Nat) = R
  BY DEF OpToRel
<1>3. IsWellFoundedOn(R, Nat)
  BY <1>1, <1>2
<1>4. \E x \in T : \A y \in T : ~(<<y, x>> \in R)
  <2> HIDE DEF R
  <2> QED BY <1>3, WFMin
<1>5. ASSUME NEW x \in T, NEW y \in T, ~(<<y, x>> \in R)
      PROVE  x <= y
  <2>1. x \in Nat /\ y \in Nat /\ <<y, x>> \in Nat \X Nat
    OBVIOUS
  <2>2. ~(y < x)
    BY <1>5, <2>1
  <2> QED BY <2>1, <2>2
<1> HIDE DEF R
<1> QED BY <1>4, <1>5

(* What holds of 0 and goes from each number to the next holds up to n. *)
LEMMA UpTo ==
  ASSUME NEW n \in Nat, NEW T \in SUBSET (0..n), 0 \in T, \A k \in T : k < n => k + 1 \in T
  PROVE  T = 0..n
<1> SUFFICES ASSUME T # 0..n
             PROVE  FALSE
  OBVIOUS
<1>1. PICK k \in (0..n) \ T : \A j \in (0..n) \ T : k <= j
  <2>1. (0..n) \ T \in SUBSET Nat
    OBVIOUS
  <2>2. (0..n) \ T # {}
    BY Zenon
  <2> QED BY <2>1, <2>2, Least
<1>2. k - 1 \in T /\ k - 1 < n
  BY <1>1
<1> QED BY <1>1, <1>2

(* FoldLeft takes the places of a sequence from the last to the first. *)
LEMMA MaxUpTo ==
  ASSUME NEW k \in Nat, NEW s \in SUBSET (1..(k + 1)), k + 1 \in s
  PROVE  Max(s) = k + 1
<1>1. \A y \in s : k + 1 >= y
  OBVIOUS
<1>2. \A x \in s : (\A y \in s : x >= y) => x = k + 1
  BY <1>1
<1>3. \E x \in s : \A y \in s : x >= y
  BY <1>1
<1> QED BY <1>2, <1>3, Zenon DEF Max

LEMMA MaxIn ==
  ASSUME NEW k \in Nat, NEW s \in SUBSET (1..k), s # {}
  PROVE  Max(s) \in s
<1> DEFINE D == {k - x : x \in s}
<1>0. \A x \in s : x \in Nat /\ x <= k
  OBVIOUS
<1>1. PICK m \in D : \A y \in D : m <= y
  <2>1. D \in SUBSET Nat
    BY <1>0
  <2>2. D # {}
    OBVIOUS
  <2> QED BY <2>1, <2>2, Least
<1>2. PICK x \in s : m = k - x
  OBVIOUS
<1>3. \A y \in s : x >= y
  <2> TAKE y \in s
  <2>1. k - x <= k - y
    BY <1>1, <1>2
  <2> QED BY <1>0, <2>1
<1> QED BY <1>3, Zenon DEF Max

IsFold(h, n, base, step) == \A s \in SUBSET (1..n) :
    h[s] = IF s = {} THEN base ELSE step[<<h[s \ {Max(s)}], Max(s)>>]

(* A fold over n places is defined: step says what each makes of what the     *)
(* earlier ones made.                                                        *)
LEMMA FoldExists ==
  ASSUME NEW n \in Nat, NEW A, NEW base \in A, NEW step \in [A \X (1..n) -> A]
  PROVE  \E h \in [SUBSET (1..n) -> A] : IsFold(h, n, base, step)
<1> DEFINE Folds(k, h) == \A s \in SUBSET (1..k) :
              h[s] = IF s = {} THEN base ELSE step[<<h[s \ {Max(s)}], Max(s)>>]
           T == {k \in 0..n : \E h \in [SUBSET (1..k) -> A] : Folds(k, h)}
<1>1. 0 \in T
  <2> DEFINE g == [s \in SUBSET (1..0) |-> base]
  <2>1. g \in [SUBSET (1..0) -> A]
    OBVIOUS
  <2>2. \A s \in SUBSET (1..0) : s = {}
    OBVIOUS
  <2>3. Folds(0, g)
    BY <2>2
  <2> HIDE DEF g
  <2>4. \E h \in [SUBSET (1..0) -> A] : Folds(0, h)
    BY <2>1, <2>3
  <2>5. 0 \in 0..n
    OBVIOUS
  <2> HIDE DEF Folds
  <2> QED BY <2>4, <2>5, Zenon
<1>2. ASSUME NEW k \in T, k < n
      PROVE  k + 1 \in T
  <2>0. k \in Nat /\ k + 1 \in 1..n /\ k + 1 \in 0..n /\ 1..k \subseteq 1..(k + 1) /\ k + 1 \notin 1..k
    BY <1>2
  <2>1. PICK h \in [SUBSET (1..k) -> A] : Folds(k, h)
    OBVIOUS
  <2> DEFINE g == [s \in SUBSET (1..(k + 1)) |->
                     IF k + 1 \in s THEN step[<<h[s \ {k + 1}], k + 1>>] ELSE h[s]]
  <2>2. ASSUME NEW s \in SUBSET (1..(k + 1))
        PROVE  /\ s \ {k + 1} \in SUBSET (1..k)
               /\ k + 1 \notin s => s \in SUBSET (1..k)
    BY <2>0
  <2>3. g \in [SUBSET (1..(k + 1)) -> A]
    <3> SUFFICES ASSUME NEW s \in SUBSET (1..(k + 1))
                 PROVE  (IF k + 1 \in s THEN step[<<h[s \ {k + 1}], k + 1>>] ELSE h[s]) \in A
      OBVIOUS
    <3>1. h[s \ {k + 1}] \in A /\ (k + 1 \notin s => h[s] \in A)
      BY <2>2
    <3> QED BY <2>0, <3>1
  <2>4. Folds(k + 1, g)
    <3> SUFFICES ASSUME NEW s \in SUBSET (1..(k + 1))
                 PROVE  g[s] = IF s = {} THEN base ELSE step[<<g[s \ {Max(s)}], Max(s)>>]
      OBVIOUS
    <3>1. CASE k + 1 \in s
      <4>1. Max(s) = k + 1
        BY <2>0, <3>1, MaxUpTo
      <4>2. g[s \ {k + 1}] = h[s \ {k + 1}]
        BY <2>2
      <4>3. g[s] = step[<<h[s \ {k + 1}], k + 1>>]
        BY <3>1
      <4> HIDE DEF g
      <4> QED BY <3>1, <4>1, <4>2, <4>3
    <3>2. CASE k + 1 \notin s
      <4>1. s \in SUBSET (1..k) /\ s \ {Max(s)} \in SUBSET (1..k) /\ s \ {Max(s)} \in SUBSET (1..(k + 1))
        BY <2>0, <2>2, <3>2
      <4>2. g[s] = h[s] /\ g[s \ {Max(s)}] = h[s \ {Max(s)}]
        BY <2>0, <3>2, <4>1
      <4>3. h[s] = IF s = {} THEN base ELSE step[<<h[s \ {Max(s)}], Max(s)>>]
        BY <2>1, <4>1
      <4> HIDE DEF g
      <4> QED BY <4>2, <4>3
    <3> QED BY <3>1, <3>2
  <2> HIDE DEF g
  <2>5. \E x \in [SUBSET (1..(k + 1)) -> A] : Folds(k + 1, x)
    BY <2>3, <2>4
  <2> QED BY <2>0, <2>5
<1>3. T \in SUBSET (0..n)
  OBVIOUS
<1>4. n \in T
  <2> HIDE DEF T
  <2> QED BY <1>1, <1>2, <1>3, UpTo
<1> QED BY <1>4 DEF IsFold

-----------------------------------------------------------------------------
(* The browser's list *)

LEMMA RangeAppend ==
  ASSUME NEW S, NEW s \in Seq(S), NEW x \in S
  PROVE  Range(Append(s, x)) = Range(s) \cup {x}
<1> DEFINE b == Append(s, x)
<1>1. b \in Seq(S) /\ DOMAIN b = 1..(Len(s) + 1) /\ DOMAIN s = 1..Len(s) /\ Len(s) \in Nat
      /\ b[Len(s) + 1] = x /\ \A i \in 1..Len(s) : b[i] = s[i]
  OBVIOUS
<1> HIDE DEF b
<1>2. \A i \in DOMAIN b : i \in DOMAIN s \/ i = Len(s) + 1
  BY <1>1
<1>3. \A i \in DOMAIN s : i \in DOMAIN b
  BY <1>1
<1>4. Len(s) + 1 \in DOMAIN b
  BY <1>1
<1> QED BY <1>1, <1>2, <1>3, <1>4 DEF Range, b

(* removeAll leaves the others, and makes no duplicate. *)
LEMMA WithoutOne ==
  ASSUME NEW S, NEW list \in Seq(S), NEW record
  PROVE  LET rest == Without(list, record) IN
         /\ rest \in Seq(S)
         /\ Range(rest) = Range(list) \ {record}
         /\ IsInjective(list) => IsInjective(rest)
<1> DEFINE n == Len(list)
           step == [p \in Seq(S) \X (1..n) |->
                      IF list[p[2]] = record THEN p[1] ELSE Append(p[1], list[p[2]])]
           Is(f) == f = [s \in SUBSET (1..n) |->
                           IF s = {} THEN <<>>
                           ELSE IF list[Max(s)] = record THEN f[s \ {Max(s)}]
                                ELSE Append(f[s \ {Max(s)}], list[Max(s)])]
           f == CHOOSE f : Is(f)
           Seen(k) == {list[i] : i \in 1..k} \ {record}
           Q(k) == /\ f[1..k] \in Seq(S)
                   /\ Range(f[1..k]) = Seen(k)
                   /\ IsInjective(list) => IsInjective(f[1..k])
           T == {k \in 0..n : Q(k)}
<1>1. n \in Nat /\ DOMAIN list = 1..n /\ \A i \in 1..n : list[i] \in S
  OBVIOUS
<1>2. \E g : Is(g)
  <2>1. step \in [Seq(S) \X (1..n) -> Seq(S)]
    BY <1>1
  <2>2. <<>> \in Seq(S)
    OBVIOUS
  <2>3. PICK h \in [SUBSET (1..n) -> Seq(S)] : IsFold(h, n, <<>>, step)
    <3> HIDE DEF step, n
    <3> QED BY <1>1, <2>1, <2>2, FoldExists
  <2>4. ASSUME NEW s \in SUBSET (1..n), s # {}
        PROVE  step[<<h[s \ {Max(s)}], Max(s)>>] =
                 IF list[Max(s)] = record THEN h[s \ {Max(s)}]
                 ELSE Append(h[s \ {Max(s)}], list[Max(s)])
    <3>1. Max(s) \in 1..n
      <4> HIDE DEF n
      <4> QED BY <1>1, <2>4, MaxIn
    <3>2. h[s \ {Max(s)}] \in Seq(S)
      OBVIOUS
    <3> QED BY <3>1, <3>2
  <2> HIDE DEF step, n
  <2>5. Is(h)
    BY <2>3, <2>4 DEF IsFold
  <2> QED BY <2>5
<1>3. Is(f)
  <2> HIDE DEF Is
  <2> QED BY <1>2
<1>4. f[{}] = <<>>
  BY <1>3
<1>5. ASSUME NEW k \in 0..(n - 1)
      PROVE  f[1..(k + 1)] = IF list[k + 1] = record THEN f[1..k] ELSE Append(f[1..k], list[k + 1])
  <2>1. 1..(k + 1) \in SUBSET (1..n) /\ 1..(k + 1) # {} /\ k + 1 \in 1..(k + 1) /\ k \in Nat
        /\ 1..k = (1..(k + 1)) \ {k + 1}
    BY <1>1
  <2>2. Max(1..(k + 1)) = k + 1
    BY <2>1, MaxUpTo
  <2> HIDE DEF n, f
  <2> QED BY <1>3, <2>1, <2>2
<1> HIDE DEF f, Is
<1>6. T \in SUBSET (0..n) /\ 0 \in T
  <2>1. 1..0 = {} /\ 0 \in 0..n
    BY <1>1
  <2>2. Q(0)
    <3>1. f[1..0] = <<>>
      BY <1>4, <2>1, Zenon
    <3>2. Range(<<>>) = {} /\ IsInjective(<<>>)
      BY DEF Range, IsInjective
    <3>3. Seen(0) = {}
      BY <2>1
    <3>4. <<>> \in Seq(S)
      OBVIOUS
    <3> HIDE DEF Seen
    <3> QED BY <3>1, <3>2, <3>3, <3>4, Zenon
  <2> QED BY <2>1, <2>2
<1>7. ASSUME NEW k \in T, k < n
      PROVE  k + 1 \in T
  <2>1. k \in 0..(n - 1) /\ k + 1 \in 0..n /\ k + 1 \in 1..n /\ k \in Nat
    BY <1>1, <1>7
  <2>2. 1..(k + 1) = (1..k) \cup {k + 1}
    BY <2>1
  <2>3. Q(k)
    OBVIOUS
  <2>4. CASE list[k + 1] = record
    <3>1. f[1..(k + 1)] = f[1..k]
      BY <1>5, <2>1, <2>4
    <3>2. Seen(k + 1) = Seen(k)
      BY <2>2, <2>4
    <3> HIDE DEF Seen
    <3> QED BY <2>1, <2>3, <3>1, <3>2
  <2>5. CASE list[k + 1] # record
    <3> DEFINE a == f[1..k]
               b == Append(a, list[k + 1])
    <3>1. f[1..(k + 1)] = b
      BY <1>5, <2>1, <2>5
    <3>2. Seen(k + 1) = Seen(k) \cup {list[k + 1]}
      BY <2>2, <2>5
    <3>3. list[k + 1] \in S /\ a \in Seq(S) /\ b \in Seq(S)
      BY <1>1, <2>1, <2>3
    <3>4. Range(b) = Range(a) \cup {list[k + 1]}
      BY <2>3, <3>3, RangeAppend
    <3>5. IsInjective(list) => IsInjective(b)
      <4> SUFFICES ASSUME IsInjective(list)
                   PROVE  IsInjective(b)
        OBVIOUS
      <4>1. list[k + 1] \notin Seen(k)
        <5> SUFFICES ASSUME NEW i \in 1..k, list[i] = list[k + 1]
                     PROVE  FALSE
          OBVIOUS
        <5> QED BY <1>1, <2>1 DEF IsInjective
      <4>2. \A i \in 1..Len(a) : a[i] # list[k + 1]
        <5>1. \A i \in 1..Len(a) : a[i] \in Range(a)
          BY <3>3 DEF Range
        <5> HIDE DEF Seen, a
        <5> QED BY <2>3, <4>1, <5>1 DEF a
      <4>3. IsInjective(a)
        BY <2>3
      <4> HIDE DEF a
      <4> QED BY <3>3, <4>2, <4>3 DEF IsInjective
    <3>6. Q(k + 1)
      <4>1. Range(b) = Seen(k + 1)
        BY <2>3, <3>2, <3>4
      <4> HIDE DEF Seen, b
      <4> QED BY <3>1, <3>3, <3>5, <4>1
    <3> QED BY <2>1, <3>6
  <2> QED BY <2>4, <2>5
<1>8. n \in T
  <2> HIDE DEF T, n
  <2>1. T = 0..n
    BY <1>1, <1>6, <1>7, UpTo
  <2> QED BY <1>1, <2>1
<1>9. Seen(n) = Range(list) \ {record}
  BY <1>1 DEF Range
<1>10. Without(list, record) = f[1..n]
  BY <1>1 DEF Without, FoldLeft, MapThenFoldSet, f, Is
<1> HIDE DEF Seen, n
<1> QED BY <1>8, <1>9, <1>10

Reply == [add : BOOLEAN, record : Services]

(* One reply adds or removes the service it is about. *)
LEMMA EnteredOne ==
  ASSUME NEW list \in Seq(Services), IsInjective(list), NEW t \in Reply
  PROVE  LET l == Entered(list, t) IN
         /\ l \in Seq(Services) /\ IsInjective(l)
         /\ Range(l) = IF t.add THEN Range(list) \cup {t.record} ELSE Range(list) \ {t.record}
<1>1. t.add \in BOOLEAN /\ t.record \in Services
  BY DEF Reply
<1>2. CASE ~t.add
  BY <1>2, WithoutOne DEF Entered
<1>3. CASE t.add /\ Contains(list, t.record)
  <2>1. t.record \in Range(list)
    BY <1>3 DEF Contains, Range
  <2> QED BY <1>3, <2>1 DEF Entered
<1>4. CASE t.add /\ ~Contains(list, t.record)
  <2> DEFINE l == Append(list, t.record)
  <2>1. Entered(list, t) = l
    BY <1>4 DEF Entered
  <2>2. l \in Seq(Services) /\ Range(l) = Range(list) \cup {t.record}
    BY <1>1, RangeAppend
  <2>3. \A i \in 1..Len(list) : list[i] # t.record
    BY <1>4 DEF Contains
  <2>4. IsInjective(l)
    BY <1>1, <2>2, <2>3 DEF IsInjective
  <2> QED BY <1>4, <2>1, <2>2, <2>4
<1> QED BY <1>1, <1>2, <1>3, <1>4

(* The list agrees with the network but for what replies from the k-th on say. *)
Agrees(list, k) == \A s \in Services :
    (\A i \in k..Len(told) : told[i].record # s) => (s \in lan <=> s \in Range(list))

(* The last reply about a service says whether it is there. *)
LastTrue == \A i \in DOMAIN told :
    (\A j \in (i + 1)..Len(told) : told[j].record # told[i].record)
       => told[i].add = (told[i].record \in lan)

(* Reading the first n replies leaves the others to say what has changed. *)
LEMMA BrowsedAgrees ==
  ASSUME lan \in SUBSET Services, told \in Seq(Reply), LastTrue,
         NEW list \in Seq(Services), IsInjective(list), Agrees(list, 1), NEW n \in 0..Len(told)
  PROVE  LET l == FoldLeft(Entered, list, SubSeq(told, 1, n)) IN
         l \in Seq(Services) /\ IsInjective(l) /\ Agrees(l, n + 1)
<1> DEFINE S == {l \in Seq(Services) : IsInjective(l)}
           q == SubSeq(told, 1, n)
           step == [p \in S \X (1..n) |-> Entered(p[1], q[p[2]])]
           Is(f) == f = [s \in SUBSET (1..n) |->
                           IF s = {} THEN list ELSE Entered(f[s \ {Max(s)}], q[Max(s)])]
           f == CHOOSE f : Is(f)
           Q(k) == f[1..k] \in S /\ Agrees(f[1..k], k + 1)
           T == {k \in 0..n : Q(k)}
<1>1. /\ n \in Nat /\ q \in Seq(Reply) /\ DOMAIN q = 1..n /\ \A i \in 1..n : q[i] \in Reply /\ q[i] = told[i]
      /\ Len(told) \in Nat /\ n <= Len(told) /\ DOMAIN told = 1..Len(told)
  OBVIOUS
<1> HIDE DEF q
<1>2. \A l \in S, i \in 1..n : Entered(l, q[i]) \in S
  BY <1>1, EnteredOne
<1>3. \E g : Is(g)
  <2>1. step \in [S \X (1..n) -> S]
    BY <1>2
  <2>2. list \in S
    OBVIOUS
  <2>3. PICK h \in [SUBSET (1..n) -> S] : IsFold(h, n, list, step)
    <3> HIDE DEF step, S
    <3> QED BY <1>1, <2>1, <2>2, FoldExists
  <2>4. ASSUME NEW s \in SUBSET (1..n), s # {}
        PROVE  step[<<h[s \ {Max(s)}], Max(s)>>] = Entered(h[s \ {Max(s)}], q[Max(s)])
    <3>1. Max(s) \in 1..n
      BY <1>1, <2>4, MaxIn
    <3>2. h[s \ {Max(s)}] \in S
      <4> HIDE DEF S
      <4> QED OBVIOUS
    <3> HIDE DEF S
    <3> QED BY <3>1, <3>2
  <2> HIDE DEF step, S
  <2>5. Is(h)
    BY <2>3, <2>4 DEF IsFold
  <2> QED BY <2>5
<1>4. Is(f)
  <2> HIDE DEF Is
  <2> QED BY <1>3
<1>5. f[{}] = list
  BY <1>4
<1>6. ASSUME NEW k \in 0..(n - 1)
      PROVE  f[1..(k + 1)] = Entered(f[1..k], q[k + 1])
  <2>1. 1..(k + 1) \in SUBSET (1..n) /\ 1..(k + 1) # {} /\ k + 1 \in 1..(k + 1) /\ k \in Nat
        /\ 1..k = (1..(k + 1)) \ {k + 1}
    <3>1. n \in Nat /\ k + 1 <= n /\ k \in Nat
      BY <1>1
    <3>2. 1..(k + 1) \in SUBSET (1..n) /\ k + 1 \in 1..(k + 1)
      BY <3>1
    <3>3. 1..k = (1..(k + 1)) \ {k + 1}
      BY <3>1
    <3> QED BY <3>1, <3>2, <3>3
  <2>2. Max(1..(k + 1)) = k + 1
    BY <2>1, MaxUpTo
  <2> HIDE DEF f
  <2> QED BY <1>4, <2>1, <2>2
<1> HIDE DEF f, Is
<1>7. T \in SUBSET (0..n) /\ 0 \in T
  <2>1. 1..0 = {} /\ 0 \in 0..n
    BY <1>1
  <2>2. f[1..0] = list
    BY <1>5, <2>1, Zenon
  <2> QED BY <2>1, <2>2
<1>8. ASSUME NEW k \in T, k < n
      PROVE  k + 1 \in T
  <2>1. k \in 0..(n - 1) /\ k + 1 \in 0..n /\ k + 1 \in 1..n /\ k \in Nat /\ k + 1 \in 1..Len(told)
    BY <1>1, <1>8
  <2> DEFINE l == f[1..k]
             m == Entered(l, q[k + 1])
             t == told[k + 1]
  <2>2. l \in Seq(Services) /\ IsInjective(l) /\ Agrees(l, k + 1)
    OBVIOUS
  <2>3. t \in Reply /\ q[k + 1] = t
    BY <1>1, <2>1
  <2>4. /\ m \in Seq(Services) /\ IsInjective(m)
        /\ Range(m) = IF t.add THEN Range(l) \cup {t.record} ELSE Range(l) \ {t.record}
    BY <2>2, <2>3, EnteredOne
  <2>5. f[1..(k + 1)] = m
    BY <1>6, <2>1
  <2> HIDE DEF l, m
  <2>6. Agrees(m, k + 2)
    <3> SUFFICES ASSUME NEW s \in Services, \A i \in (k + 2)..Len(told) : told[i].record # s
                 PROVE  s \in lan <=> s \in Range(m)
      BY DEF Agrees
    <3>1. CASE t.record = s
      <4>1. t.add = (s \in lan)
        BY <1>1, <2>1, <3>1 DEF LastTrue
      <4> QED BY <2>4, <3>1, <4>1
    <3>2. CASE t.record # s
      <4>1. \A i \in (k + 1)..Len(told) : told[i].record # s
        <5> TAKE i \in (k + 1)..Len(told)
        <5>1. i = k + 1 \/ i \in (k + 2)..Len(told)
          BY <1>1, <2>1
        <5> QED BY <3>2, <5>1
      <4>2. s \in lan <=> s \in Range(l)
        BY <2>2, <4>1 DEF Agrees
      <4> QED BY <2>3, <2>4, <3>2, <4>2
    <3> QED BY <3>1, <3>2
  <2>7. Q(k + 1)
    <3>1. (k + 1) + 1 = k + 2
      BY <2>1
    <3> QED BY <2>4, <2>5, <2>6, <3>1
  <2> QED BY <2>1, <2>7
<1>9. n \in T
  <2> HIDE DEF T
  <2>1. T = 0..n
    BY <1>1, <1>7, <1>8, UpTo
  <2> QED BY <1>1, <2>1
<1>10. FoldLeft(Entered, list, q) = f[1..n]
  BY <1>1 DEF FoldLeft, MapThenFoldSet, f, Is
<1> QED BY <1>9, <1>10 DEF q

(* What has not been read yet makes up for what the list lacks. *)
KInv ==
    /\ lan \in SUBSET Services /\ told \in Seq(Reply) /\ LastTrue
    /\ bonjourRecords \in Seq(Services) /\ IsInjective(bonjourRecords) /\ Agrees(bonjourRecords, 1)
    /\ m_bonjourrecords = Range(bonjourRecords)

LEMMA InitKInv == Init => KInv
<1> SUFFICES ASSUME Init
             PROVE  KInv
  OBVIOUS
<1>1. lan = {} /\ told = <<>> /\ bonjourRecords = <<>> /\ m_bonjourrecords = {}
  BY DEF Init, InitBonjour
<1>2. Range(<<>>) = {} /\ IsInjective(<<>>)
  BY DEF Range, IsInjective
<1> QED BY <1>1, <1>2 DEF KInv, LastTrue, Agrees

LEMMA LanChangesKInv == KInv /\ LanChanges => KInv'
<1> SUFFICES ASSUME KInv, LanChanges
             PROVE  KInv'
  OBVIOUS
<1>1. PICK s \in Services :
         /\ lan' = IF s \in lan THEN lan \ {s} ELSE lan \cup {s}
         /\ told' = Append(told, [add |-> s \notin lan, record |-> s])
  BY DEF LanChanges
<1>2. UNCHANGED <<bonjourRecords, m_bonjourrecords>>
  BY DEF LanChanges
<1> DEFINE t == [add |-> s \notin lan, record |-> s]
           n == Len(told)
<1>3. t \in Reply /\ t.record = s /\ t.add = (s \notin lan)
  BY DEF Reply
<1> HIDE DEF t
<1>4. /\ told' \in Seq(Reply) /\ n \in Nat /\ Len(told') = n + 1
      /\ told'[n + 1] = t /\ \A i \in 1..n : told'[i] = told[i]
      /\ DOMAIN told = 1..n /\ DOMAIN told' = 1..(n + 1)
  BY <1>1, <1>3 DEF KInv, t
<1> HIDE DEF n
<1>5. lan' \in SUBSET Services /\ (s \in lan' <=> s \notin lan)
      /\ \A r \in Services \ {s} : r \in lan' <=> r \in lan
  BY <1>1 DEF KInv
<1>6. LastTrue'
  <2> SUFFICES ASSUME NEW i \in 1..(n + 1), \A j \in (i + 1)..(n + 1) : told'[j].record # told'[i].record
               PROVE  told'[i].add = (told'[i].record \in lan')
    BY <1>4 DEF LastTrue
  <2>1. CASE i = n + 1
    BY <1>3, <1>4, <1>5, <2>1
  <2>2. CASE i \in 1..n
    <3>1. told'[i] = told[i] /\ told[i] \in Reply
      BY <1>4, <2>2 DEF KInv
    <3>2. told[i].record # s
      <4>1. n + 1 \in (i + 1)..(n + 1)
        BY <1>4, <2>2
      <4> QED BY <1>3, <1>4, <3>1, <4>1
    <3>3. \A j \in (i + 1)..n : told[j].record # told[i].record
      <4> TAKE j \in (i + 1)..n
      <4>1. j \in (i + 1)..(n + 1) /\ j \in 1..n
        BY <1>4, <2>2
      <4> QED BY <1>4, <3>1, <4>1
    <3>4. told[i].add = (told[i].record \in lan)
      BY <1>4, <2>2, <3>3 DEF KInv, LastTrue, n
    <3>5. told[i].record \in Services
      BY <3>1 DEF Reply
    <3> QED BY <1>5, <3>1, <3>2, <3>4, <3>5
  <2> QED BY <1>4, <2>1, <2>2
<1>7. Agrees(bonjourRecords, 1)'
  <2> SUFFICES ASSUME NEW r \in Services, \A i \in 1..(n + 1) : told'[i].record # r
               PROVE  r \in lan' <=> r \in Range(bonjourRecords)
    BY <1>2, <1>4 DEF Agrees
  <2>1. r # s
    <3>1. n + 1 \in 1..(n + 1)
      BY <1>4
    <3> QED BY <1>3, <1>4, <3>1
  <2>2. \A i \in 1..n : told[i].record # r
    <3> TAKE i \in 1..n
    <3>1. i \in 1..(n + 1)
      BY <1>4
    <3> QED BY <1>4, <3>1
  <2>3. r \in lan <=> r \in Range(bonjourRecords)
    BY <2>2 DEF KInv, Agrees, n
  <2> QED BY <1>5, <2>1, <2>3
<1> QED BY <1>2, <1>4, <1>5, <1>6, <1>7 DEF KInv

LEMMA BrowsedKInv == KInv /\ Browsed => KInv'
<1> SUFFICES ASSUME KInv, Browsed
             PROVE  KInv'
  OBVIOUS
<1>1. PICK n \in 1..Len(told) :
          /\ bonjourRecords' = FoldLeft(Entered, bonjourRecords, SubSeq(told, 1, n))
          /\ told' = SubSeq(told, n + 1, Len(told))
          /\ UpdateBonjourRecords(bonjourRecords')
  BY DEF Browsed
<1>2. lan' = lan /\ m_bonjourrecords' = Range(bonjourRecords')
  BY <1>1 DEF Browsed, UpdateBonjourRecords, Found
<1>3. /\ bonjourRecords' \in Seq(Services) /\ IsInjective(bonjourRecords')
      /\ Agrees(bonjourRecords', n + 1)
  <2>1. n \in 0..Len(told)
    OBVIOUS
  <2> QED BY <1>1, <2>1, BrowsedAgrees DEF KInv
<1> DEFINE N == Len(told)
<1>4. /\ told' \in Seq(Reply) /\ N \in Nat /\ n \in 1..N /\ Len(told') = N - n
      /\ \A i \in 1..(N - n) : told'[i] = told[i + n]
      /\ DOMAIN told = 1..N /\ DOMAIN told' = 1..(N - n)
  BY <1>1 DEF KInv
<1> HIDE DEF N
<1>5. LastTrue'
  <2> SUFFICES ASSUME NEW i \in 1..(N - n), \A j \in (i + 1)..(N - n) : told'[j].record # told'[i].record
               PROVE  told'[i].add = (told'[i].record \in lan)
    BY <1>2, <1>4 DEF LastTrue
  <2>1. i + n \in 1..N /\ told'[i] = told[i + n]
    BY <1>4
  <2>2. \A j \in ((i + n) + 1)..N : told[j].record # told[i + n].record
    <3> TAKE j \in ((i + n) + 1)..N
    <3>1. j - n \in (i + 1)..(N - n) /\ j - n \in 1..(N - n) /\ (j - n) + n = j
      BY <1>4
    <3> QED BY <1>4, <2>1, <3>1
  <2> QED BY <1>4, <2>1, <2>2 DEF KInv, LastTrue, N
<1>6. Agrees(bonjourRecords, 1)'
  <2> SUFFICES ASSUME NEW r \in Services, \A i \in 1..(N - n) : told'[i].record # r
               PROVE  r \in lan <=> r \in Range(bonjourRecords')
    BY <1>2, <1>4 DEF Agrees
  <2>1. \A i \in (n + 1)..N : told[i].record # r
    <3> TAKE i \in (n + 1)..N
    <3>1. i - n \in 1..(N - n) /\ (i - n) + n = i
      BY <1>4
    <3> QED BY <1>4, <3>1
  <2> QED BY <1>3, <2>1 DEF Agrees, N
<1> QED BY <1>2, <1>3, <1>4, <1>5, <1>6 DEF KInv

LEMMA NextKInv == KInv /\ [Next]_vars => KInv'
<1> SUFFICES ASSUME KInv, [Next]_vars
             PROVE  KInv'
  OBVIOUS
<1>1. ASSUME UNCHANGED <<lan, told, bonjourRecords, m_bonjourrecords>>
      PROVE  KInv'
  BY <1>1 DEF KInv, LastTrue, Agrees
<1>2. CASE UNCHANGED vars
  BY <1>1, <1>2 DEF vars, bonjourVars
<1>3. ASSUME NEW o \in Offers, CreateDaapListener(o) \/ ListenerShutdown(o)
      PROVE  KInv'
  BY <1>1, <1>3 DEF CreateDaapListener, ListenerShutdown, bonjourVars
<1>4. CASE Accept \/ RelayStep \/ DisturbStep
  BY <1>1, <1>4 DEF Accept, RelayStep, DisturbStep, bonjourVars
<1>5. CASE BonjourStep
  <2>1. CASE ResolveReply \/ FinishConnect \/ CleanupResolve
    BY <1>1, <2>1 DEF ResolveReply, FinishConnect, CleanupResolve
  <2> QED BY <1>5, <2>1, LanChangesKInv, BrowsedKInv DEF BonjourStep
<1> QED BY <1>2, <1>3, <1>4, <1>5 DEF Next

(* A list without duplicates is as long as the set of its members is large. *)
LEMMA LenInjective ==
  ASSUME NEW S, NEW s \in Seq(S), IsInjective(s)
  PROVE  Len(s) = Cardinality(Range(s))
<1> DEFINE n == Len(s)
<1>1. n \in Nat /\ DOMAIN s = 1..n /\ s \in [1..n -> S]
  OBVIOUS
<1>2. s \in Surjection(1..n, Range(s)) /\ s \in Injection(1..n, Range(s))
  <2>1. s \in [1..n -> Range(s)]
    BY <1>1 DEF Range
  <2>2. \A y \in Range(s) : \E i \in 1..n : s[i] = y
    BY <1>1 DEF Range
  <2>3. \A i, j \in 1..n : s[i] = s[j] => i = j
    BY <1>1 DEF IsInjective
  <2> HIDE DEF n
  <2> QED BY <2>1, <2>2, <2>3 DEF Surjection, Injection, IsInjective
<1>3. IsFiniteSet(1..n) /\ Cardinality(1..n) = n
  <2> HIDE DEF n
  <2> QED BY <1>1, FS_Interval
<1> HIDE DEF n
<1>4. Cardinality(Range(s)) = Cardinality(1..n)
  BY <1>2, <1>3, FS_Surjection
<1> QED BY <1>3, <1>4 DEF n

LEMMA KInvKnown == KInv => KnownIsThere
<1> SUFFICES ASSUME KInv, told = <<>>
             PROVE  m_bonjourrecords = lan /\ Len(bonjourRecords) = Cardinality(lan)
  BY DEF KnownIsThere
<1>1. \A s \in Services : s \in lan <=> s \in Range(bonjourRecords)
  <2>1. \A i \in 1..Len(told) : FALSE
    OBVIOUS
  <2> QED BY <2>1 DEF KInv, Agrees
<1>2. Range(bonjourRecords) \in SUBSET Services
  BY DEF KInv, Range
<1>3. Range(bonjourRecords) = lan
  BY <1>1, <1>2 DEF KInv
<1> QED BY <1>3, LenInjective DEF KInv

(* However many services come and go, and however the daemon's replies are     *)
(* cut into reads, Servent's records are the services there are as soon as     *)
(* all is read, each listed once (bonjourBrowseReply, updateBonjourRecords).   *)
THEOREM ServicesKnown == Spec => []KnownIsThere
BY InitKInv, NextKInv, KInvKnown, PTL DEF Spec

-----------------------------------------------------------------------------
(* Runs of bytes, cut into pieces *)

(* The bytes a + 1 .. b: what is written between the a-th and the b-th.      *)
Run(a, b) == [i \in 1..b - a |-> a + i]
Cuts(c, q, a, b) ==
    /\ c[0] = a /\ c[Len(q)] = b
    /\ \A i, j \in 0..Len(q) : i <= j => c[i] <= c[j]
    /\ \A i \in 1..Len(q) : q[i] = Run(c[i - 1], c[i])
Pieces(q, a, b) == \E c \in [0..Len(q) -> Nat] : Cuts(c, q, a, b)

LEMMA RunIs ==
    ASSUME NEW a \in Nat, NEW b \in Nat, a <= b
    PROVE  Run(a, b) \in Seq(Nat) /\ Len(Run(a, b)) = b - a /\ DOMAIN Run(a, b) = 1..b - a
           /\ \A i \in 1..b - a : Run(a, b)[i] = a + i
<1>1. b - a \in Nat
  OBVIOUS
<1>2. \A i \in 1..b - a : a + i \in Nat
  OBVIOUS
<1> QED BY <1>1, <1>2 DEF Run

LEMMA RunEmpty ==
    ASSUME NEW a \in Nat, NEW b \in Nat, a <= b
    PROVE  Run(a, b) = <<>> <=> a = b
<1>1. a = b => Run(a, b) = <<>>
  <2> SUFFICES ASSUME a = b PROVE Run(a, b) = <<>>
    OBVIOUS
  <2>1. Len(Run(a, b)) = 0 /\ Run(a, b) \in Seq(Nat)
    BY RunIs
  <2> QED BY <2>1
<1>2. Run(a, b) = <<>> => a = b
  <2>1. Len(Run(a, b)) = b - a
    BY RunIs
  <2> QED BY <2>1
<1> QED BY <1>1, <1>2

(* What has the length and the members of a run is one. *)
LEMMA RunSame ==
    ASSUME NEW s \in Seq(Nat), NEW a \in Nat, NEW b \in Nat, a <= b, Len(s) = b - a,
           \A i \in 1..b - a : s[i] = a + i
    PROVE  s = Run(a, b)
<1>1. Run(a, b) \in Seq(Nat) /\ Len(Run(a, b)) = Len(s)
  BY RunIs
<1>2. \A i \in 1..Len(s) : s[i] = Run(a, b)[i]
  BY RunIs
<1> QED BY <1>1, <1>2

(* Runs are joined, split and extended at their ends. *)
LEMMA RunConcat ==
    ASSUME NEW a \in Nat, NEW b \in Nat, NEW c \in Nat, a <= b, b <= c
    PROVE  Run(a, b) \o Run(b, c) = Run(a, c)
<1> DEFINE s == Run(a, b) \o Run(b, c)
<1>1. Run(a, b) \in Seq(Nat) /\ Run(b, c) \in Seq(Nat) /\ Len(Run(a, b)) = b - a /\ Len(Run(b, c)) = c - b
  BY RunIs
<1>2. s \in Seq(Nat) /\ Len(s) = c - a
  BY <1>1
<1>3. ASSUME NEW i \in 1..c - a
      PROVE  s[i] = a + i
  <2>1. CASE i <= b - a
    <3>1. i \in 1..b - a /\ i \in 1..Len(Run(a, b))
      BY <1>1, <2>1
    <3>2. s[i] = Run(a, b)[i]
      BY <1>1, <3>1
    <3> QED BY <3>1, <3>2, RunIs
  <2>2. CASE ~(i <= b - a)
    <3>1. i - (b - a) \in 1..c - b
      BY <2>2
    <3>2. s[i] = Run(b, c)[i - (b - a)]
      BY <1>1, <2>2
    <3>3. Run(b, c)[i - (b - a)] = b + (i - (b - a))
      BY <3>1, RunIs
    <3> QED BY <3>2, <3>3
  <2> QED BY <2>1, <2>2
<1> HIDE DEF s
<1>4. s = Run(a, c)
  BY <1>2, <1>3, RunSame
<1> QED BY <1>4 DEF s

LEMMA RunSplit ==
    ASSUME NEW a \in Nat, NEW b \in Nat, NEW c \in Nat, a <= b, b <= c
    PROVE  SubSeq(Run(a, c), 1, b - a) = Run(a, b)
           /\ SubSeq(Run(a, c), b - a + 1, Len(Run(a, c))) = Run(b, c)
<1>1. Run(a, c) \in Seq(Nat) /\ Len(Run(a, c)) = c - a /\ \A i \in 1..c - a : Run(a, c)[i] = a + i
  BY RunIs
<1>2. b - a \in Nat /\ c - b \in Nat /\ c - a \in Nat /\ b - a <= c - a
  OBVIOUS
<1>3. SubSeq(Run(a, c), 1, b - a) = Run(a, b)
  <2> DEFINE s == SubSeq(Run(a, c), 1, b - a)
  <2>1. s \in Seq(Nat) /\ Len(s) = b - a
    BY <1>1, <1>2
  <2>2. \A i \in 1..b - a : s[i] = Run(a, c)[i] /\ i \in 1..c - a
    BY <1>1, <1>2
  <2>3. \A i \in 1..b - a : s[i] = a + i
    BY <1>1, <2>2
  <2> HIDE DEF s
  <2>4. s = Run(a, b)
    BY <2>1, <2>3, RunSame
  <2> QED BY <2>4 DEF s
<1>4. SubSeq(Run(a, c), b - a + 1, Len(Run(a, c))) = Run(b, c)
  <2> DEFINE s == SubSeq(Run(a, c), b - a + 1, c - a)
  <2>1. s \in Seq(Nat) /\ Len(s) = c - b
    BY <1>1, <1>2
  <2>2. \A i \in 1..c - b : s[i] = Run(a, c)[b - a + i] /\ b - a + i \in 1..c - a
    BY <1>1, <1>2
  <2>3. \A i \in 1..c - b : s[i] = b + i
    BY <1>1, <2>2
  <2> HIDE DEF s
  <2>4. s = Run(b, c)
    BY <2>1, <2>3, RunSame
  <2> QED BY <1>1, <2>4 DEF s
<1> QED BY <1>3, <1>4

LEMMA RunAppend ==
    ASSUME NEW a \in Nat, NEW b \in Nat, a <= b
    PROVE  Append(Run(a, b), b + 1) = Run(a, b + 1)
<1> DEFINE s == Append(Run(a, b), b + 1)
<1>1. Run(a, b) \in Seq(Nat) /\ Len(Run(a, b)) = b - a /\ \A i \in 1..b - a : Run(a, b)[i] = a + i
  BY RunIs
<1>2. s \in Seq(Nat) /\ Len(s) = b + 1 - a
  BY <1>1
<1>3. \A i \in 1..b + 1 - a : s[i] = a + i
  BY <1>1
<1> HIDE DEF s
<1>4. s = Run(a, b + 1)
  BY <1>2, <1>3, RunSame
<1> QED BY <1>4 DEF s

(* Pieces are taken from the front and put at the end. *)
LEMMA PiecesOrder ==
    ASSUME NEW A, NEW q \in Seq(A), NEW a, NEW b, Pieces(q, a, b)
    PROVE  a \in Nat /\ b \in Nat /\ a <= b
<1>1. PICK c \in [0..Len(q) -> Nat] : Cuts(c, q, a, b)
  BY DEF Pieces
<1>2. 0 \in 0..Len(q) /\ Len(q) \in 0..Len(q) /\ 0 <= Len(q)
  OBVIOUS
<1> QED BY <1>1, <1>2 DEF Cuts

LEMMA PiecesNil ==
    ASSUME NEW a \in Nat, NEW b
    PROVE  Pieces(<<>>, a, b) <=> a = b
<1>1. Len(<<>>) = 0
  OBVIOUS
<1>2. ASSUME a = b PROVE Pieces(<<>>, a, b)
  <2> DEFINE c == [i \in 0..0 |-> a]
  <2>1. c \in [0..0 -> Nat] /\ c[0] = a
    OBVIOUS
  <2> HIDE DEF c
  <2>2. \A i, j \in 0..0 : c[i] <= c[j]
    <3>1. \A i \in 0..0 : i = 0
      OBVIOUS
    <3> QED BY <2>1, <3>1
  <2>3. \A i \in 1..0 : FALSE
    OBVIOUS
  <2> QED BY <1>1, <1>2, <2>1, <2>2, <2>3 DEF Pieces, Cuts
<1> QED BY <1>1, <1>2 DEF Pieces, Cuts

LEMMA PiecesTail ==
    ASSUME NEW A, NEW q \in Seq(A), q # <<>>, NEW a, NEW b, Pieces(q, a, b)
    PROVE  \E m \in Nat : a \in Nat /\ b \in Nat /\ a <= m /\ m <= b /\ Head(q) = Run(a, m) /\ Pieces(Tail(q), m, b)
<1>1. PICK c \in [0..Len(q) -> Nat] : Cuts(c, q, a, b)
  BY DEF Pieces
<1>2. Len(q) \in Nat /\ Len(q) # 0 /\ Len(Tail(q)) = Len(q) - 1 /\ Head(q) = q[1]
      /\ \A i \in 1..Len(q) - 1 : Tail(q)[i] = q[i + 1]
  OBVIOUS
<1> DEFINE n == Len(q)
           d == [i \in 0..n - 1 |-> c[i + 1]]
<1>3. n \in Nat /\ 0 \in 0..n /\ 1 \in 0..n /\ n \in 0..n /\ 1 \in 1..n /\ n - 1 + 1 = n /\ n - 1 \in 0..n - 1 /\ 0 \in 0..n - 1
  BY <1>2
<1>4. a \in Nat /\ b \in Nat /\ a <= c[1] /\ c[1] <= b /\ c[1] \in Nat
  BY <1>1, <1>3 DEF Cuts
<1>5. Head(q) = Run(a, c[1])
  BY <1>1, <1>2, <1>3 DEF Cuts
<1>6. Pieces(Tail(q), c[1], b)
  <2>1. \A i \in 0..n - 1 : i + 1 \in 0..n /\ i + 1 \in 1..n
    BY <1>3
  <2>2. d \in [0..n - 1 -> Nat] /\ d[0] = c[1] /\ d[n - 1] = b
    BY <1>1, <1>3, <2>1 DEF Cuts
  <2>3. ASSUME NEW i \in 0..n - 1, NEW j \in 0..n - 1, i <= j
        PROVE  d[i] <= d[j]
    BY <1>1, <2>1, <2>3 DEF Cuts
  <2>4. ASSUME NEW i \in 1..n - 1
        PROVE  Tail(q)[i] = Run(d[i - 1], d[i])
    <3>1. i - 1 \in 0..n - 1 /\ i \in 0..n - 1 /\ i + 1 \in 1..n /\ (i - 1) + 1 = i /\ (i + 1) - 1 = i
      BY <1>3
    <3>2. d[i - 1] = c[i] /\ d[i] = c[i + 1]
      BY <3>1
    <3>3. q[i + 1] = Run(c[(i + 1) - 1], c[i + 1])
      BY <1>1, <3>1 DEF Cuts
    <3> QED BY <1>2, <3>1, <3>2, <3>3
  <2> HIDE DEF d
  <2> QED BY <1>2, <2>2, <2>3, <2>4 DEF Pieces, Cuts
<1> QED BY <1>4, <1>5, <1>6

LEMMA PiecesConcat ==
    ASSUME NEW A, NEW q \in Seq(A), NEW r \in Seq(A), NEW a, NEW b, NEW e, Pieces(q, a, b), Pieces(r, b, e)
    PROVE  Pieces(q \o r, a, e)
<1>1. PICK c \in [0..Len(q) -> Nat] : Cuts(c, q, a, b)
  BY DEF Pieces
<1>2. PICK d \in [0..Len(r) -> Nat] : Cuts(d, r, b, e)
  BY DEF Pieces
<1> DEFINE m == Len(q)
           n == Len(r)
           f == [i \in 0..m + n |-> IF i <= m THEN c[i] ELSE d[i - m]]
<1>3. m \in Nat /\ n \in Nat /\ Len(q \o r) = m + n
      /\ (\A i \in 1..m : (q \o r)[i] = q[i])
      /\ (\A i \in 1..m + n : ~(i <= m) => (q \o r)[i] = r[i - m])
  OBVIOUS
<1>4. c[0] = a /\ c[m] = b /\ d[0] = b /\ d[n] = e
  BY <1>1, <1>2 DEF Cuts
<1> HIDE DEF m, n
<1>5. \A i \in 0..m + n : /\ i <= m => i \in 0..m
                          /\ ~(i <= m) => i - m \in 0..n /\ i - m \in 1..n
  BY <1>3
<1>6. f \in [0..m + n -> Nat]
  BY <1>3, <1>5 DEF m, n
<1>7. f[0] = a
  BY <1>3, <1>4
<1>8. f[m + n] = e
  <2>1. CASE n = 0
    BY <1>3, <1>4, <2>1
  <2>2. CASE n # 0
    <3>1. ~(m + n <= m) /\ m + n \in 0..m + n /\ (m + n) - m = n
      BY <1>3, <2>2
    <3> QED BY <1>4, <3>1
  <2> QED BY <2>1, <2>2
<1>9. ASSUME NEW i \in 0..m + n, NEW j \in 0..m + n, i <= j
      PROVE  f[i] <= f[j]
  <2>0. 0 \in 0..n /\ m \in 0..m /\ \A x \in 0..m : c[x] \in Nat
    BY <1>3 DEF m
  <2>1. CASE j <= m
    <3>1. i \in 0..m /\ j \in 0..m /\ i <= m
      BY <1>3, <1>9, <2>1
    <3> QED BY <1>1, <1>9, <2>1, <3>1 DEF Cuts, m
  <2>2. CASE ~(i <= m)
    <3>1. ~(j <= m) /\ i - m \in 0..n /\ j - m \in 0..n /\ i - m <= j - m
      BY <1>3, <1>5, <1>9, <2>2
    <3> QED BY <1>2, <2>2, <3>1 DEF Cuts, n
  <2>3. CASE i <= m /\ ~(j <= m)
    <3>1. i \in 0..m /\ j - m \in 0..n /\ 0 <= j - m /\ i <= m
      BY <1>3, <1>5, <2>3
    <3>2. c[i] <= c[m]
      BY <1>1, <2>0, <3>1 DEF Cuts, m
    <3>3. d[0] <= d[j - m] /\ d[0] \in Nat /\ d[j - m] \in Nat
      BY <1>2, <2>0, <3>1 DEF Cuts, n
    <3>4. c[i] \in Nat /\ c[m] \in Nat
      BY <2>0, <3>1
    <3>5. f[i] = c[i] /\ f[j] = d[j - m]
      BY <2>3
    <3> QED BY <1>4, <3>2, <3>3, <3>4, <3>5
  <2> QED BY <2>1, <2>2, <2>3
<1>10. ASSUME NEW i \in 1..m + n
       PROVE  (q \o r)[i] = Run(f[i - 1], f[i])
  <2>1. CASE i <= m
    <3>1. i \in 1..m /\ i - 1 \in 0..m + n /\ i \in 0..m + n /\ i - 1 <= m
      BY <1>3, <2>1
    <3>2. q[i] = Run(c[i - 1], c[i])
      BY <1>1, <3>1 DEF Cuts, m
    <3>3. f[i - 1] = c[i - 1] /\ f[i] = c[i]
      BY <2>1, <3>1
    <3> QED BY <1>3, <3>1, <3>2, <3>3
  <2>2. CASE ~(i <= m)
    <3>1. i - m \in 1..n /\ i - 1 \in 0..m + n /\ i \in 0..m + n /\ (i - m) - 1 = (i - 1) - m
      BY <1>3, <2>2
    <3>2. r[i - m] = Run(d[(i - 1) - m], d[i - m])
      BY <1>2, <3>1 DEF Cuts, n
    <3>3. f[i] = d[i - m]
      BY <2>2, <3>1
    <3>4. f[i - 1] = d[(i - 1) - m]
      <4>1. CASE i - 1 <= m
        <5>1. i - 1 = m /\ (i - 1) - m = 0
          BY <1>3, <2>2, <4>1
        <5> QED BY <1>4, <3>1, <4>1, <5>1
      <4>2. CASE ~(i - 1 <= m)
        BY <3>1, <4>2
      <4> QED BY <4>1, <4>2
    <3> QED BY <1>3, <2>2, <3>2, <3>3, <3>4
  <2> QED BY <2>1, <2>2
<1> HIDE DEF f
<1> QED BY <1>3, <1>6, <1>7, <1>8, <1>9, <1>10 DEF Pieces, Cuts

LEMMA PiecesOne ==
    ASSUME NEW a \in Nat, NEW b \in Nat, a <= b
    PROVE  Pieces(<<Run(a, b)>>, a, b)
<1> DEFINE q == <<Run(a, b)>>
           c == [i \in 0..1 |-> IF i = 0 THEN a ELSE b]
<1>1. Len(q) = 1 /\ q[1] = Run(a, b)
  OBVIOUS
<1>2. c \in [0..1 -> Nat] /\ c[0] = a /\ c[1] = b
  OBVIOUS
<1> HIDE DEF q, c
<1>3. \A i, j \in 0..1 : i <= j => c[i] <= c[j]
  <2>1. \A i \in 0..1 : i = 0 \/ i = 1
    OBVIOUS
  <2> QED BY <1>2, <2>1
<1>4. \A i \in 1..1 : q[i] = Run(c[i - 1], c[i])
  <2>1. \A i \in 1..1 : i = 1 /\ i - 1 = 0
    OBVIOUS
  <2> QED BY <1>1, <1>2, <2>1
<1>5. Pieces(q, a, b)
  BY <1>1, <1>2, <1>3, <1>4 DEF Pieces, Cuts
<1> QED BY <1>5 DEF q

LEMMA PiecesAppend ==
    ASSUME NEW A, NEW q \in Seq(A), NEW a, NEW b, NEW e \in Nat, Pieces(q, a, b), b <= e, Run(b, e) \in A
    PROVE  Pieces(Append(q, Run(b, e)), a, e)
<1>1. a \in Nat /\ b \in Nat
  BY PiecesOrder
<1>2. Pieces(<<Run(b, e)>>, b, e)
  BY <1>1, PiecesOne
<1>3. \A x \in A : Append(q, x) = q \o <<x>> /\ <<x>> \in Seq(A)
  OBVIOUS
<1>4. Pieces(q \o <<Run(b, e)>>, a, e)
  BY <1>2, <1>3, PiecesConcat
<1> QED BY <1>3, <1>4

(* The function that FlattenSeq is defined by, for the first n of q. *)
Flattens(g, n, q) == g = [i \in 1..n |-> IF i = 1 THEN q[i] ELSE g[i - 1] \o q[i]]

(* There is one, *)
LEMMA FlattensExists ==
  ASSUME NEW n \in Nat, NEW q
  PROVE  \E g : Flattens(g, n, q)
<1> DEFINE T == {k \in 0..n : \E g : Flattens(g, k, q)}
<1>1. 0 \in T
  <2> DEFINE e == [i \in 1..0 |-> <<>>]
  <2>1. Flattens(e, 0, q)
    BY DEF Flattens
  <2>2. 0 \in 0..n
    OBVIOUS
  <2> QED BY <2>1, <2>2
<1>2. ASSUME NEW k \in T, k < n
      PROVE  k + 1 \in T
  <2>0. k \in Nat /\ k + 1 \in 0..n
    BY <1>2
  <2>1. PICK h : Flattens(h, k, q)
    OBVIOUS
  <2> DEFINE g == [i \in 1..(k + 1) |-> IF i = 1 THEN q[i] ELSE h[i - 1] \o q[i]]
  <2>2. \A i \in 1..(k + 1) : i # 1 => i - 1 \in 1..k /\ i - 1 \in 1..(k + 1)
    BY <2>0
  <2>3. \A i \in 1..k : h[i] = g[i]
    <3> TAKE i \in 1..k
    <3>1. i \in 1..(k + 1)
      BY <2>0
    <3>2. h[i] = IF i = 1 THEN q[i] ELSE h[i - 1] \o q[i]
      BY <2>1 DEF Flattens
    <3> QED BY <3>1, <3>2
  <2>4. \A i \in 1..(k + 1) : i # 1 => g[i - 1] = h[i - 1]
    <3> HIDE DEF g
    <3> QED BY <2>2, <2>3
  <2>5. g = [i \in 1..(k + 1) |-> IF i = 1 THEN q[i] ELSE g[i - 1] \o q[i]]
    BY <2>4
  <2> HIDE DEF g
  <2>6. Flattens(g, k + 1, q)
    BY <2>5 DEF Flattens
  <2> QED BY <2>0, <2>6
<1>3. T \in SUBSET (0..n)
  OBVIOUS
<1>4. n \in T
  <2> HIDE DEF T
  <2>1. T = 0..n
    BY <1>1, <1>2, <1>3, UpTo
  <2> QED BY <2>1
<1> QED BY <1>4

(* Put together, pieces are the run they were cut from. *)
LEMMA FlattenPieces ==
    ASSUME NEW q \in Seq(Seq(Nat)), NEW a, NEW b, Pieces(q, a, b)
    PROVE  FlattenSeq(q) = Run(a, b)
<1>0. PICK c \in [0..Len(q) -> Nat] : Cuts(c, q, a, b)
  BY DEF Pieces
<1> DEFINE n == Len(q)
           Is(g) == g = [i \in 1..n |-> IF i = 1 THEN q[i] ELSE g[i - 1] \o q[i]]
           f == CHOOSE g : Is(g)
           T == {k \in 0..n : k = 0 \/ f[k] = Run(a, c[k])}
<1>1. n \in Nat /\ a \in Nat /\ b \in Nat /\ a <= b
  BY PiecesOrder
<1>2. CASE n = 0
  <2>1. a = b /\ q = <<>>
    BY <1>0, <1>2 DEF Cuts
  <2>2. FlattenSeq(q) = q
    BY <1>2 DEF FlattenSeq
  <2> QED BY <1>1, <2>1, <2>2, RunEmpty
<1>3. CASE n # 0
  <2>1. Is(f)
    <3>1. \E g : Is(g)
      <4> HIDE DEF n
      <4> QED BY <1>1, FlattensExists DEF Flattens
    <3> HIDE DEF Is
    <3> QED BY <3>1
  <2>2. FlattenSeq(q) = f[n]
    BY <1>3 DEF FlattenSeq
  <2> HIDE DEF f
  <2>3. f[1] = q[1] /\ \A i \in 2..n : f[i] = f[i - 1] \o q[i]
    <3> HIDE DEF n
    <3>1. 1 \in 1..n /\ \A i \in 2..n : i \in 1..n /\ i # 1
      BY <1>1, <1>3
    <3> QED BY <2>1, <3>1
  <2> HIDE DEF Is
  <2>4. c[0] = a /\ c[n] = b /\ (\A i, j \in 0..n : i <= j => c[i] <= c[j])
        /\ \A i \in 1..n : q[i] = Run(c[i - 1], c[i])
    BY <1>0 DEF Cuts
  <2>5. \A i \in 0..n : c[i] \in Nat
    OBVIOUS
  <2> HIDE DEF n
  <2>6. T = 0..n
    <3>1. T \in SUBSET (0..n) /\ 0 \in T
      BY <1>1
    <3>2. ASSUME NEW k \in T, k < n
          PROVE  k + 1 \in T
      <4>1. k \in 0..n /\ k + 1 \in 0..n /\ k + 1 \in 1..n /\ (k = 0 \/ k + 1 \in 2..n) /\ (k + 1) - 1 = k /\ k \in Nat /\ 0 \in 0..n
        BY <1>1, <3>2
      <4>2. q[k + 1] = Run(c[k], c[k + 1])
        BY <2>4, <4>1
      <4>3. CASE k = 0
        BY <2>3, <2>4, <4>1, <4>2, <4>3
      <4>4. CASE k # 0
        <5>1. f[k + 1] = f[k] \o q[k + 1]
          BY <2>3, <4>1, <4>4
        <5>2. f[k] = Run(a, c[k])
          BY <4>4
        <5>3. a <= c[k] /\ c[k] <= c[k + 1] /\ c[k] \in Nat /\ c[k + 1] \in Nat
          <6>1. 0 <= k /\ k <= k + 1
            BY <4>1
          <6> QED BY <2>4, <2>5, <4>1, <6>1
        <5>4. Run(a, c[k]) \o Run(c[k], c[k + 1]) = Run(a, c[k + 1])
          BY <1>1, <5>3, RunConcat
        <5> QED BY <4>1, <4>2, <5>1, <5>2, <5>4
      <4> QED BY <4>3, <4>4
    <3> HIDE DEF T
    <3> QED BY <1>1, <3>1, <3>2, UpTo
  <2>7. n \in T
    <3>1. n \in 0..n
      BY <1>1
    <3> HIDE DEF T
    <3> QED BY <2>6, <3>1
  <2> QED BY <1>3, <2>2, <2>4, <2>7
<1> QED BY <1>2, <1>3

-----------------------------------------------------------------------------
(* A DAAP session *)

payloads(w) == [i \in DOMAIN w |-> w[i].data]

Reads == Seq(Nat) \ {<<>>}
Types == {"first", "ready", "ready2", "data"}
Messages == {m \in [type : Types, data : Seq(Nat)] : m.type = "data" <=> m.data # <<>>}
AtValues == {"none", "unset", "linked", "ready", "finished", "failed", "deleted"}

TypesRight ==
    /\ dialler \in Sides /\ at \in [Sides -> AtValues]
    /\ link \in {"none", "up", "broken"} /\ wire \in [Sides -> Seq(Messages)]
    /\ m_psock \in {"none", "open", "closed"}
    /\ m_proxysocket \in {"none", "connecting", "open", "closed"}
    /\ m_buf \in Seq(Reads) /\ m_sendbuffer \in Seq(Reads)
    /\ fromClient \in Seq(Nat) /\ fromServer \in Seq(Nat)
    /\ m_dead \in BOOLEAN /\ crashed \in BOOLEAN
    /\ sent \in [{"client", "server"} -> Seq(Nat)] /\ got \in [{"client", "server"} -> Seq(Nat)]

IsReady(m) == m.type \in {"ready", "ready2"}
NoReady(w) == \A i \in DOMAIN w : ~IsReady(w[i])
NoData(w) == \A i \in DOMAIN w : w[i].type # "data"
OneReady(w) == \A i, j \in DOMAIN w : IsReady(w[i]) /\ IsReady(w[j]) => i = j

(* Which end may have got how far.  An end is told "ready" once, and P dials *)
(* its server then.                                                          *)
Before(e) == at[e] \in {"none", "unset"}
Steps ==
    /\ at["L"] = "none" <=> at["P"] = "none"
    /\ at["L"] = "none" <=> m_psock = "none"
    /\ link = "none" => \A e \in Sides : Before(e) /\ wire[e] = <<>>
    /\ m_dead => m_proxysocket = "closed"
    /\ Before("P") => m_proxysocket = "none" /\ NoReady(wire["L"]) /\ at["L"] # "ready" /\ NoData(wire["P"])
    /\ Before("L") \/ (dialler = "L" /\ at["L"] = "linked")
          => NoReady(wire["P"]) /\ m_proxysocket = "none"
    /\ OneReady(wire["P"]) /\ (m_proxysocket # "none" => NoReady(wire["P"]))

(* Of the client's n bytes L has read f; w of them it has sent, P has h and   *)
(* the server g, all in order.  While the link lives and L is ready, L sends *)
(* what it reads; before that it keeps it.                                   *)
ToServerAt(n, f, w, h, g) ==
    /\ g <= h /\ h <= w /\ w <= f /\ f <= n
    /\ sent["client"] = Run(0, n) /\ fromClient = Run(f, n) /\ got["server"] = Run(0, g)
    /\ m_proxysocket # "closed" => Pieces(m_sendbuffer, g, h) /\ Pieces(payloads(wire["P"]), h, w)
    /\ m_proxysocket = "open" => m_sendbuffer = <<>>
    /\ at["L"] \in {"none", "unset", "linked"} => w = 0 /\ Pieces(m_buf, 0, f)
    /\ at["L"] = "ready" /\ link = "up" => w = f
ToServer == \E n, f, w, h, g \in Nat : ToServerAt(n, f, w, h, g)

(* The same of the server's bytes, which nobody has to keep. *)
ToClientAt(n, f, w, g) ==
    /\ g <= w /\ w <= f /\ f <= n
    /\ sent["server"] = Run(0, n) /\ fromServer = Run(f, n) /\ got["client"] = Run(0, g)
    /\ m_psock # "closed" => Pieces(payloads(wire["L"]), g, w)
    /\ m_proxysocket \in {"none", "connecting"} => n = 0
    /\ m_proxysocket = "open" /\ link = "up" /\ at["P"] \in {"linked", "ready"} => w = f
ToClient == \E n, f, w, g \in Nat : ToClientAt(n, f, w, g)

PInv == TypesRight /\ Steps /\ ToServer /\ ToClient

LEMMA SameSeq ==
    ASSUME NEW A, NEW s \in Seq(A), NEW t \in Seq(A), Len(s) = Len(t), \A i \in 1..Len(s) : s[i] = t[i]
    PROVE  s = t
OBVIOUS

LEMMA ConcatIs ==
    ASSUME NEW A, NEW s \in Seq(A), NEW t \in Seq(A)
    PROVE  /\ s \o t \in Seq(A) /\ Len(s \o t) = Len(s) + Len(t)
           /\ \A i \in 1..Len(s) : (s \o t)[i] = s[i]
           /\ \A i \in 1..Len(s) + Len(t) : ~(i <= Len(s)) => (s \o t)[i] = t[i - Len(s)]
OBVIOUS

(* The payloads of what is under way *)
LEMMA PayloadsAre ==
    ASSUME NEW w \in Seq(Messages)
    PROVE  payloads(w) \in Seq(Seq(Nat)) /\ Len(payloads(w)) = Len(w)
           /\ \A i \in 1..Len(w) : payloads(w)[i] = w[i].data
<1>1. \A m \in Messages : m.data \in Seq(Nat)
  BY DEF Messages
<1>2. DOMAIN w = 1..Len(w) /\ Len(w) \in Nat /\ \A i \in 1..Len(w) : w[i] \in Messages
  OBVIOUS
<1>3. \A i \in 1..Len(w) : w[i].data \in Seq(Nat)
  BY <1>1, <1>2
<1> QED BY <1>2, <1>3 DEF payloads

(* A message read, and some more sent *)
LEMMA TailMessages ==
    ASSUME NEW w \in Seq(Messages), w # <<>>
    PROVE  /\ Head(w) \in Messages /\ Tail(w) \in Seq(Messages)
           /\ NoReady(w) => NoReady(Tail(w)) /\ ~IsReady(Head(w))
           /\ NoData(w) => NoData(Tail(w)) /\ Head(w).type # "data"
           /\ OneReady(w) => OneReady(Tail(w))
           /\ OneReady(w) /\ IsReady(Head(w)) => NoReady(Tail(w))
<1> DEFINE t == Tail(w)
<1>1. t \in Seq(Messages) /\ DOMAIN t = 1..Len(w) - 1 /\ DOMAIN w = 1..Len(w) /\ Len(w) \in Nat /\ Len(w) # 0
      /\ Head(w) = w[1] /\ w[1] \in Messages
      /\ \A i \in 1..Len(w) - 1 : t[i] = w[i + 1]
  OBVIOUS
<1>2. 1 \in DOMAIN w /\ \A i \in DOMAIN t : t[i] = w[i + 1] /\ i + 1 \in DOMAIN w /\ i + 1 # 1 /\ i \in Nat
  BY <1>1
<1> HIDE DEF t
<1>3. (NoReady(w) => NoReady(t) /\ ~IsReady(Head(w))) /\ (NoData(w) => NoData(t) /\ Head(w).type # "data")
  BY <1>1, <1>2 DEF NoReady, NoData
<1>4. OneReady(w) => OneReady(t)
  <2>1. \A i, j \in DOMAIN t : i + 1 = j + 1 => i = j
    BY <1>2
  <2> QED BY <1>2, <2>1 DEF OneReady
<1>5. OneReady(w) /\ IsReady(Head(w)) => NoReady(t)
  BY <1>1, <1>2 DEF OneReady, NoReady
<1> QED BY <1>1, <1>3, <1>4, <1>5 DEF t

LEMMA ConcatMessages ==
    ASSUME NEW w \in Seq(Messages), NEW v \in Seq(Messages)
    PROVE  /\ w \o v \in Seq(Messages)
           /\ NoReady(w) /\ NoReady(v) => NoReady(w \o v)
           /\ NoData(w) /\ NoData(v) => NoData(w \o v)
           /\ OneReady(w) /\ NoReady(v) => OneReady(w \o v)
           /\ NoReady(w) /\ OneReady(v) => OneReady(w \o v)
<1> DEFINE c == w \o v
           m == Len(w)
<1>1. c \in Seq(Messages) /\ DOMAIN c = 1..m + Len(v) /\ DOMAIN w = 1..m /\ DOMAIN v = 1..Len(v)
      /\ m \in Nat /\ Len(v) \in Nat
      /\ (\A i \in 1..m : c[i] = w[i])
      /\ (\A i \in 1..m + Len(v) : ~(i <= m) => c[i] = v[i - m])
  OBVIOUS
<1> HIDE DEF c, m
<1>2. \A i \in DOMAIN c : \/ i \in DOMAIN w /\ c[i] = w[i]
                          \/ i - m \in DOMAIN v /\ c[i] = v[i - m]
  BY <1>1
<1>3. \A i, j \in DOMAIN c : i - m = j - m => i = j
  BY <1>1
<1>4. (NoReady(w) /\ NoReady(v) => NoReady(c)) /\ (NoData(w) /\ NoData(v) => NoData(c))
  BY <1>2 DEF NoReady, NoData
<1>5. OneReady(w) /\ NoReady(v) => OneReady(c)
  BY <1>2 DEF NoReady, OneReady
<1>6. NoReady(w) /\ OneReady(v) => OneReady(c)
  BY <1>2, <1>3 DEF NoReady, OneReady
<1> QED BY <1>1, <1>4, <1>5, <1>6 DEF c

LEMMA TailPieces ==
    ASSUME NEW w \in Seq(Messages), w # <<>>, NEW a, NEW b, Pieces(payloads(w), a, b)
    PROVE  \E m \in Nat : a \in Nat /\ b \in Nat /\ a <= m /\ m <= b
                /\ Head(w).data = Run(a, m) /\ Pieces(payloads(Tail(w)), m, b)
<1>1. payloads(w) \in Seq(Seq(Nat)) /\ Len(payloads(w)) = Len(w) /\ \A i \in 1..Len(w) : payloads(w)[i] = w[i].data
  BY PayloadsAre
<1>2. Len(w) \in Nat /\ Len(w) # 0 /\ 1 \in 1..Len(w) /\ Head(w) = w[1] /\ Tail(w) \in Seq(Messages)
      /\ Len(Tail(w)) = Len(w) - 1 /\ \A i \in 1..Len(w) - 1 : Tail(w)[i] = w[i + 1] /\ i + 1 \in 1..Len(w)
  OBVIOUS
<1>3. payloads(w) # <<>> /\ Head(payloads(w)) = Head(w).data
  BY <1>1, <1>2
<1>4. payloads(Tail(w)) = Tail(payloads(w))
  <2>1. payloads(Tail(w)) \in Seq(Seq(Nat)) /\ Len(payloads(Tail(w))) = Len(w) - 1
        /\ \A i \in 1..Len(w) - 1 : payloads(Tail(w))[i] = Tail(w)[i].data
    BY <1>2, PayloadsAre
  <2>2. Tail(payloads(w)) \in Seq(Seq(Nat)) /\ Len(Tail(payloads(w))) = Len(w) - 1
        /\ \A i \in 1..Len(w) - 1 : Tail(payloads(w))[i] = payloads(w)[i + 1]
    BY <1>1, <1>2, <1>3
  <2>3. \A i \in 1..Len(w) - 1 : payloads(Tail(w))[i] = Tail(payloads(w))[i]
    BY <1>1, <1>2, <2>1, <2>2
  <2> QED BY <2>1, <2>2, <2>3, SameSeq
<1>5. PICK m \in Nat : a \in Nat /\ b \in Nat /\ a <= m /\ m <= b /\ Head(payloads(w)) = Run(a, m)
                       /\ Pieces(Tail(payloads(w)), m, b)
  BY <1>1, <1>3, PiecesTail
<1> QED BY <1>3, <1>4, <1>5

LEMMA ConcatPieces ==
    ASSUME NEW w \in Seq(Messages), NEW v \in Seq(Messages), NEW a, NEW b, NEW e,
           Pieces(payloads(w), a, b), Pieces(payloads(v), b, e)
    PROVE  Pieces(payloads(w \o v), a, e)
<1>1. payloads(w) \in Seq(Seq(Nat)) /\ Len(payloads(w)) = Len(w) /\ \A i \in 1..Len(w) : payloads(w)[i] = w[i].data
  BY PayloadsAre
<1>2. payloads(v) \in Seq(Seq(Nat)) /\ Len(payloads(v)) = Len(v) /\ \A i \in 1..Len(v) : payloads(v)[i] = v[i].data
  BY PayloadsAre
<1> DEFINE m == Len(w)
           n == Len(v)
<1>3. w \o v \in Seq(Messages) /\ Len(w \o v) = m + n /\ m \in Nat /\ n \in Nat
      /\ (\A i \in 1..m : (w \o v)[i] = w[i])
      /\ (\A i \in 1..m + n : ~(i <= m) => (w \o v)[i] = v[i - m])
  OBVIOUS
<1>4. payloads(w \o v) \in Seq(Seq(Nat)) /\ Len(payloads(w \o v)) = m + n
      /\ \A i \in 1..m + n : payloads(w \o v)[i] = (w \o v)[i].data
  BY <1>3, PayloadsAre
<1> DEFINE p == payloads(w) \o payloads(v)
<1>5. p \in Seq(Seq(Nat)) /\ Len(p) = m + n
      /\ (\A i \in 1..m : p[i] = payloads(w)[i])
      /\ (\A i \in 1..m + n : ~(i <= m) => p[i] = payloads(v)[i - m])
  <2>1. /\ p \in Seq(Seq(Nat)) /\ Len(p) = Len(payloads(w)) + Len(payloads(v))
        /\ \A i \in 1..Len(payloads(w)) : p[i] = payloads(w)[i]
        /\ \A i \in 1..Len(payloads(w)) + Len(payloads(v)) :
              ~(i <= Len(payloads(w))) => p[i] = payloads(v)[i - Len(payloads(w))]
    <3>1. payloads(w) \in Seq(Seq(Nat)) /\ payloads(v) \in Seq(Seq(Nat))
      BY <1>1, <1>2
    <3> HIDE DEF m, n
    <3> QED BY ONLY <3>1, ConcatIs
  <2> QED BY <1>1, <1>2, <2>1
<1> HIDE DEF p, m, n
<1>6. \A i \in 1..m + n : payloads(w \o v)[i] = p[i]
  <2> TAKE i \in 1..m + n
  <2>1. (i <= m => i \in 1..m) /\ (~(i <= m) => i - m \in 1..n)
    BY <1>3
  <2> QED BY <1>1, <1>2, <1>3, <1>4, <1>5, <2>1 DEF m, n
<1>7. payloads(w \o v) = p
  BY <1>4, <1>5, <1>6
<1> QED BY <1>1, <1>2, <1>7, PiecesConcat DEF p

(* A message of no data *)
LEMMA QuietMessage ==
    ASSUME NEW m \in Messages, m.data = <<>>
    PROVE  /\ <<m>> \in Seq(Messages) /\ NoData(<<m>>) /\ OneReady(<<m>>) /\ (~IsReady(m) => NoReady(<<m>>))
           /\ \A a \in Nat : Pieces(payloads(<<m>>), a, a)
<1>1. <<m>> \in Seq(Messages) /\ DOMAIN <<m>> = 1..1 /\ Len(<<m>>) = 1 /\ <<m>>[1] = m
  OBVIOUS
<1>2. \A i \in 1..1 : i = 1
  OBVIOUS
<1>3. NoData(<<m>>) /\ OneReady(<<m>>) /\ (~IsReady(m) => NoReady(<<m>>))
  BY <1>1, <1>2 DEF NoData, OneReady, NoReady, Messages
<1>4. ASSUME NEW a \in Nat
      PROVE  Pieces(payloads(<<m>>), a, a)
  <2>0. 1 \in 1..1
    OBVIOUS
  <2>1. payloads(<<m>>) \in Seq(Seq(Nat)) /\ Len(payloads(<<m>>)) = 1 /\ payloads(<<m>>)[1] = <<>>
    BY <1>1, <2>0, PayloadsAre, Zenon
  <2>2. Run(a, a) = <<>>
    BY RunEmpty
  <2>3. payloads(<<m>>) = <<Run(a, a)>>
    BY <2>1, <2>2
  <2> QED BY <2>3, PiecesOne
<1> QED BY <1>1, <1>3, <1>4

LEMMA DataMessage ==
    ASSUME NEW a \in Nat, NEW b \in Nat, a < b
    PROVE  /\ <<Data(Run(a, b))>> \in Seq(Messages) /\ NoReady(<<Data(Run(a, b))>>)
           /\ Pieces(payloads(<<Data(Run(a, b))>>), a, b)
<1> DEFINE m == Data(Run(a, b))
<1>1. Run(a, b) \in Seq(Nat) /\ Run(a, b) # <<>>
  BY RunIs, RunEmpty
<1>2. m \in Messages /\ m.data = Run(a, b) /\ m.type = "data"
  BY <1>1 DEF Data, Messages, Types
<1> HIDE DEF m
<1>3. <<m>> \in Seq(Messages) /\ DOMAIN <<m>> = 1..1 /\ Len(<<m>>) = 1 /\ <<m>>[1] = m
  BY <1>2
<1>4. NoReady(<<m>>)
  <2>1. \A i \in 1..1 : i = 1
    OBVIOUS
  <2> QED BY <1>2, <1>3, <2>1 DEF NoReady, IsReady
<1>5. payloads(<<m>>) \in Seq(Seq(Nat)) /\ Len(payloads(<<m>>)) = 1 /\ payloads(<<m>>)[1] = Run(a, b)
  <2>1. 1 \in 1..1
    OBVIOUS
  <2> QED BY <1>2, <1>3, <2>1, PayloadsAre, Zenon
<1>6. payloads(<<m>>) = <<Run(a, b)>>
  BY <1>5
<1>7. Pieces(payloads(<<m>>), a, b)
  BY <1>6, PiecesOne
<1> QED BY <1>3, <1>4, <1>7 DEF m

(* flushBuffer sends what is kept *)
LEMMA FlushMessages ==
    ASSUME NEW q \in Seq(Reads), NEW f, f = [i \in DOMAIN q |-> Data(q[i])]
    PROVE  f \in Seq(Messages) /\ NoReady(f) /\ payloads(f) = q
<1>1. DOMAIN q = 1..Len(q) /\ Len(q) \in Nat /\ \A i \in 1..Len(q) : q[i] \in Reads
  OBVIOUS
<1>2. ASSUME NEW r \in Reads
      PROVE  Data(r) \in Messages /\ ~IsReady(Data(r)) /\ Data(r).data = r
  BY DEF Data, Messages, Reads, Types, IsReady
<1>3. DOMAIN f = 1..Len(q) /\ \A i \in 1..Len(q) : f[i] = Data(q[i]) /\ f[i] \in Messages /\ ~IsReady(f[i]) /\ f[i].data = q[i]
  BY <1>1, <1>2
<1>4. f \in Seq(Messages) /\ Len(f) = Len(q)
  BY <1>1, <1>2
<1>5. NoReady(f)
  BY <1>3 DEF NoReady
<1>6. payloads(f) \in Seq(Seq(Nat)) /\ Len(payloads(f)) = Len(q) /\ \A i \in 1..Len(q) : payloads(f)[i] = q[i]
  BY <1>3, <1>4, PayloadsAre
<1>7. q \in Seq(Seq(Nat))
  <2>1. \A r \in Reads : r \in Seq(Nat)
    BY DEF Reads
  <2> QED BY <1>1, <2>1
<1>8. payloads(f) = q
  BY <1>6, <1>7, SameSeq
<1> QED BY <1>4, <1>5, <1>8

(* What carries no data moves no bytes. *)
LEMMA QuietTail ==
    ASSUME NEW w \in Seq(Messages), w # <<>>, Head(w).type # "data", NEW a, NEW b, Pieces(payloads(w), a, b)
    PROVE  Pieces(payloads(Tail(w)), a, b)
<1>1. PICK m \in Nat : a \in Nat /\ b \in Nat /\ a <= m /\ m <= b
                /\ Head(w).data = Run(a, m) /\ Pieces(payloads(Tail(w)), m, b)
  BY TailPieces
<1>2. Head(w).data = <<>>
  BY TailMessages DEF Messages
<1> QED BY <1>1, <1>2, RunEmpty

LEMMA QuietConcat ==
    ASSUME NEW w \in Seq(Messages), NEW v \in Seq(Messages), \A a \in Nat : Pieces(payloads(v), a, a),
           NEW a, NEW b, Pieces(payloads(w), a, b)
    PROVE  Pieces(payloads(w \o v), a, b)
<1>1. b \in Nat
  BY PayloadsAre, PiecesOrder
<1> QED BY <1>1, ConcatPieces

(* L keeps what it reads. *)
Early == {"none", "unset", "linked"}

(* A step that moves none of the client's bytes *)
LEMMA ServerCalm ==
    ASSUME TypesRight, ToServer, UNCHANGED <<fromClient, m_sendbuffer, m_buf>>,
           (sent["client"])' = sent["client"], (got["server"])' = got["server"],
           \A a, b : Pieces(payloads(wire["P"]), a, b) => Pieces(payloads((wire["P"])'), a, b),
           m_proxysocket = "closed" => m_proxysocket' = "closed",
           m_proxysocket' = "open" => m_proxysocket = "open",
           (at["L"])' \in Early => at["L"] \in Early,
           (at["L"])' = "ready" /\ link' = "up" => at["L"] = "ready" /\ link = "up"
    PROVE  ToServer'
<1>1. PICK n, f, w, h, g \in Nat : ToServerAt(n, f, w, h, g)
  BY DEF ToServer
<1>2. /\ g <= h /\ h <= w /\ w <= f /\ f <= n
      /\ (sent["client"])' = Run(0, n) /\ fromClient' = Run(f, n) /\ (got["server"])' = Run(0, g)
  BY <1>1 DEF ToServerAt
<1>3. m_proxysocket' # "closed" => Pieces(m_sendbuffer', g, h) /\ Pieces(payloads(wire["P"])', h, w)
  BY <1>1 DEF ToServerAt, payloads
<1>4. m_proxysocket' = "open" => m_sendbuffer' = <<>>
  BY <1>1 DEF ToServerAt
<1>5. (at["L"])' \in {"none", "unset", "linked"} => w = 0 /\ Pieces(m_buf', 0, f)
  BY <1>1 DEF ToServerAt, Early
<1>6. (at["L"])' = "ready" /\ link' = "up" => w = f
  BY <1>1 DEF ToServerAt
<1>7. ToServerAt(n, f, w, h, g)'
  BY <1>2, <1>3, <1>4, <1>5, <1>6 DEF ToServerAt
<1> QED BY <1>7 DEF ToServer

(* P sends what it reads. *)
Open == m_proxysocket = "open" /\ link = "up" /\ at["P"] \in {"linked", "ready"}

(* or none of the server's *)
LEMMA ClientCalm ==
    ASSUME TypesRight, ToClient, UNCHANGED fromServer,
           (sent["server"])' = sent["server"], (got["client"])' = got["client"],
           \A a, b : m_psock # "closed" /\ Pieces(payloads(wire["L"]), a, b)
                => Pieces(payloads((wire["L"])'), a, b),
           m_psock = "closed" => m_psock' = "closed",
           m_proxysocket' \in {"none", "connecting"} => m_proxysocket \in {"none", "connecting"},
           Open' => Open \/ m_proxysocket \in {"none", "connecting"}
    PROVE  ToClient'
<1>1. PICK n, f, w, g \in Nat : ToClientAt(n, f, w, g)
  BY DEF ToClient
<1>2. /\ g <= w /\ w <= f /\ f <= n
      /\ (sent["server"])' = Run(0, n) /\ fromServer' = Run(f, n) /\ (got["client"])' = Run(0, g)
  BY <1>1 DEF ToClientAt
<1>3. m_psock' # "closed" => Pieces(payloads(wire["L"])', g, w)
  BY <1>1 DEF ToClientAt, payloads
<1>4. m_proxysocket' \in {"none", "connecting"} => n = 0
  BY <1>1 DEF ToClientAt
<1>5. Open' => w = f
  <2>1. CASE Open
    BY <1>1, <2>1 DEF ToClientAt, Open
  <2>2. CASE m_proxysocket \in {"none", "connecting"}
    <3>1. n = 0
      BY <1>1, <2>2 DEF ToClientAt
    <3> QED BY <1>2, <3>1
  <2> QED BY <2>1, <2>2
<1>6. ToClientAt(n, f, w, g)'
  BY <1>2, <1>3, <1>4, <1>5 DEF ToClientAt, Open
<1> QED BY <1>6 DEF ToClient

LEMMA InitPInv == Init => PInv
<1> SUFFICES ASSUME Init PROVE PInv
  OBVIOUS
<1>0. InitProxy
  BY DEF Init
<1>1. TypesRight
  <2>1. <<>> \in Seq(Nat) /\ <<>> \in Seq(Messages) /\ <<>> \in Seq(Reads)
    OBVIOUS
  <2>2. /\ sent \in [{"client", "server"} -> Seq(Nat)] /\ got \in [{"client", "server"} -> Seq(Nat)]
        /\ wire \in [Sides -> Seq(Messages)]
    BY <1>0, <2>1 DEF InitProxy
  <2> QED BY <1>0, <2>1, <2>2 DEF InitProxy, TypesRight, Sides, AtValues
<1>2. Steps
  BY <1>0 DEF InitProxy, Steps, Sides, Before, NoReady, NoData, OneReady
<1>3. Run(0, 0) = <<>> /\ Pieces(<<>>, 0, 0)
  BY RunEmpty, PiecesNil
<1>4. payloads(<<>>) = <<>>
  BY DEF payloads
<1>5. wire["P"] = <<>> /\ wire["L"] = <<>> /\ sent["client"] = <<>> /\ got["server"] = <<>>
      /\ sent["server"] = <<>> /\ got["client"] = <<>> /\ m_sendbuffer = <<>> /\ m_buf = <<>>
      /\ fromClient = <<>> /\ fromServer = <<>> /\ at["L"] = "none" /\ link = "none" /\ m_proxysocket = "none"
  BY <1>0 DEF InitProxy, Sides
<1>6. ToServerAt(0, 0, 0, 0, 0)
  BY <1>3, <1>4, <1>5 DEF ToServerAt
<1>7. ToClientAt(0, 0, 0, 0)
  BY <1>3, <1>4, <1>5 DEF ToClientAt
<1>8. 0 \in Nat
  OBVIOUS
<1> QED BY <1>1, <1>2, <1>6, <1>7, <1>8 DEF PInv, ToServer, ToClient

(* Steps that leave the two wires and the bytes alone *)
LEMMA CalmPInv ==
    ASSUME PInv,
           \/ IncomingClient \/ SocketError \/ BreakLink \/ ProxyRefused \/ ServerCloses \/ ClientLeaves
           \/ \E e \in Sides : Disconnected(e) \/ DeferredDelete(e)
    PROVE  PInv'
<1>0. TypesRight /\ Steps /\ ToServer /\ ToClient
  BY DEF PInv
<1>1. UNCHANGED <<dialler, wire, m_buf, fromClient, m_sendbuffer, fromServer, sent, got>>
  BY DEF IncomingClient, SocketError, BreakLink, ProxyRefused, ServerCloses, ClientLeaves, Disconnected,
         DeferredDelete, clientVars, serverVars
<1>2. /\ at' \in [Sides -> AtValues] /\ link' \in {"none", "up", "broken"}
      /\ m_psock' \in {"none", "open", "closed"} /\ m_proxysocket' \in {"none", "connecting", "open", "closed"}
      /\ m_dead' \in BOOLEAN /\ crashed' \in BOOLEAN
  <2>1. at' \in [Sides -> AtValues]
    BY <1>0 DEF IncomingClient, SocketError, BreakLink, ProxyRefused, ServerCloses, ClientLeaves, Disconnected,
           DeferredDelete, clientVars, serverVars, TypesRight, Sides, AtValues, Closes
  <2>2. link' \in {"none", "up", "broken"} /\ m_psock' \in {"none", "open", "closed"}
    BY <1>0 DEF IncomingClient, SocketError, BreakLink, ProxyRefused, ServerCloses, ClientLeaves, Disconnected,
           DeferredDelete, clientVars, serverVars, TypesRight, Sides, AtValues, Closes
  <2>3. m_proxysocket' \in {"none", "connecting", "open", "closed"}
    BY <1>0 DEF IncomingClient, SocketError, BreakLink, ProxyRefused, ServerCloses, ClientLeaves, Disconnected,
           DeferredDelete, clientVars, serverVars, TypesRight, Sides, AtValues, Closes
  <2>4. m_dead' \in BOOLEAN
    BY <1>0 DEF IncomingClient, SocketError, BreakLink, ProxyRefused, ServerCloses, ClientLeaves, Disconnected,
           DeferredDelete, clientVars, serverVars, TypesRight, Sides, AtValues, Closes
  <2>5. crashed' \in BOOLEAN
    BY <1>0 DEF IncomingClient, SocketError, BreakLink, ProxyRefused, ServerCloses, ClientLeaves, Disconnected,
           DeferredDelete, clientVars, serverVars, TypesRight, Sides, AtValues, Closes
  <2> QED BY <2>1, <2>2, <2>3, <2>4, <2>5
<1>3. TypesRight'
  BY <1>0, <1>1, <1>2 DEF TypesRight
<1>4. /\ (at["L"])' = "none" <=> (at["P"])' = "none"
      /\ (at["L"])' = "none" <=> m_psock' = "none"
      /\ link' = "none" => link = "none"
      /\ m_dead' => m_proxysocket' = "closed"
  BY <1>0 DEF IncomingClient, SocketError, BreakLink, ProxyRefused, ServerCloses, ClientLeaves, Disconnected,
         DeferredDelete, clientVars, serverVars, TypesRight, Sides, AtValues, Closes, Steps, Before
<1>5. /\ \A e \in Sides : Before(e)' => Before(e)
      /\ (link' = "none" => \A e \in Sides : Before(e)')
      /\ (at["L"])' \in {"linked", "ready"} => (at["L"])' = at["L"]
      /\ (at["P"])' \in {"linked", "ready"} => (at["P"])' = at["P"]
  BY <1>0 DEF IncomingClient, SocketError, BreakLink, ProxyRefused, ServerCloses, ClientLeaves, Disconnected,
         DeferredDelete, clientVars, serverVars, TypesRight, Sides, AtValues, Steps, Before
<1>6. /\ m_proxysocket = "none" <=> m_proxysocket' = "none"
      /\ m_proxysocket' \in {"connecting", "open"} => m_proxysocket' = m_proxysocket
      /\ m_psock = "closed" => m_psock' = "closed"
      /\ link' = "up" => link = "up"
  BY <1>0 DEF IncomingClient, SocketError, BreakLink, ProxyRefused, ServerCloses, ClientLeaves, Disconnected,
         DeferredDelete, clientVars, serverVars, TypesRight, Sides, AtValues, Closes, Steps
<1>7. Steps'
  <2>1. (link' = "none" => \A e \in Sides : Before(e)' /\ (wire[e])' = <<>>)
    BY <1>0, <1>1, <1>4, <1>5 DEF Steps
  <2>2. Before("P")' => /\ m_proxysocket' = "none" /\ NoReady(wire["L"])' /\ (at["L"])' # "ready"
                        /\ NoData(wire["P"])'
    BY <1>0, <1>1, <1>5, <1>6 DEF Steps, Sides, NoReady, NoData
  <2>3. (Before("L") \/ (dialler = "L" /\ at["L"] = "linked"))' => NoReady(wire["P"])' /\ m_proxysocket' = "none"
    BY <1>0, <1>1, <1>5, <1>6 DEF Steps, Sides, NoReady
  <2>4. OneReady(wire["P"])' /\ (m_proxysocket' # "none" => NoReady(wire["P"])')
    BY <1>0, <1>1, <1>6 DEF Steps, NoReady, OneReady
  <2> QED BY <1>4, <2>1, <2>2, <2>3, <2>4 DEF Steps
<1>8. ToServer'
  <2>1. (at["L"])' \in Early => at["L"] \in Early
    BY <1>5 DEF Early, Before, Sides
  <2>2. (at["L"])' = "ready" /\ link' = "up" => at["L"] = "ready" /\ link = "up"
    BY <1>5, <1>6
  <2>3. m_proxysocket = "closed" => m_proxysocket' = "closed"
    BY <1>0, <1>6, <1>2
  <2>4. m_proxysocket' = "open" => m_proxysocket = "open"
    BY <1>6
  <2> QED BY <1>0, <1>1, <2>1, <2>2, <2>3, <2>4, ServerCalm
<1>9. ToClient'
  <2>1. m_proxysocket' \in {"none", "connecting"} => m_proxysocket \in {"none", "connecting"}
    BY <1>6
  <2>2. Open' => Open
    BY <1>5, <1>6 DEF Open
  <2> QED BY <1>0, <1>1, <1>6, <2>1, <2>2, ClientCalm
<1> QED BY <1>3, <1>7, <1>8, <1>9 DEF PInv

(* A step on ends that stay what they are *)
LEMMA StepsKept ==
    ASSUME TypesRight, Steps, UNCHANGED <<dialler, at, link, m_psock, m_dead>>,
           m_proxysocket = "closed" => m_proxysocket' = "closed",
           m_proxysocket' = "none" <=> m_proxysocket = "none",
           \A e \in Sides : NoReady(wire[e]) => NoReady((wire[e])'),
           OneReady(wire["P"]) => OneReady((wire["P"])'),
           Before("P") /\ NoData(wire["P"]) => NoData((wire["P"])'),
           link = "none" => wire' = wire
    PROVE  Steps'
<1>1. (at["L"])' = at["L"] /\ (at["P"])' = at["P"] /\ \A e \in Sides : Before(e)' = Before(e)
  BY DEF Before
<1>2. "L" \in Sides /\ "P" \in Sides
  BY DEF Sides
<1>3. /\ (at["L"])' = "none" <=> (at["P"])' = "none"
      /\ (at["L"])' = "none" <=> m_psock' = "none"
      /\ m_dead' => m_proxysocket' = "closed"
  BY <1>1 DEF Steps
<1>4. link' = "none" => \A e \in Sides : Before(e)' /\ (wire[e])' = <<>>
  BY <1>1 DEF Steps
<1>5. Before("P")' => /\ m_proxysocket' = "none" /\ NoReady(wire["L"])' /\ (at["L"])' # "ready"
                      /\ NoData(wire["P"])'
  BY <1>1, <1>2 DEF Steps, NoReady, NoData
<1>6. (Before("L") \/ (dialler = "L" /\ at["L"] = "linked"))' => NoReady(wire["P"])' /\ m_proxysocket' = "none"
  BY <1>1, <1>2 DEF Steps, NoReady
<1>7. OneReady(wire["P"])' /\ (m_proxysocket' # "none" => NoReady(wire["P"])')
  BY <1>2 DEF Steps, NoReady, OneReady
<1> QED BY <1>3, <1>4, <1>5, <1>6, <1>7 DEF Steps

LEMMA ClientWritesPInv ==
    ASSUME PInv, ClientWrites
    PROVE  PInv'
<1>0. TypesRight /\ Steps /\ ToServer /\ ToClient
  BY DEF PInv
<1>1. /\ UNCHANGED <<dialler, at, link, wire, m_psock, m_buf, serverVars, got, crashed>>
      /\ m_psock = "open"
      /\ sent' = [sent EXCEPT !["client"] = Append(@, Len(sent["client"]) + 1)]
      /\ fromClient' = Append(fromClient, Len(sent["client"]) + 1)
  BY DEF ClientWrites
<1>2. /\ UNCHANGED <<m_proxysocket, m_sendbuffer, m_dead, fromServer>>
      /\ (sent["client"])' = Append(sent["client"], Len(sent["client"]) + 1)
      /\ (sent["server"])' = sent["server"]
  BY <1>0, <1>1 DEF serverVars, TypesRight
<1>3. TypesRight'
  <2>1. \A s \in Seq(Nat) : Len(s) + 1 \in Nat /\ \A b \in Nat : Append(s, b) \in Seq(Nat)
    OBVIOUS
  <2>2. fromClient' \in Seq(Nat) /\ sent' \in [{"client", "server"} -> Seq(Nat)]
    BY <1>0, <1>1, <2>1 DEF TypesRight
  <2> QED BY <1>0, <1>1, <1>2, <2>2 DEF TypesRight
<1>4. Steps'
  BY <1>0, <1>1, <1>2, StepsKept
<1>5. ToServer'
  <2>1. PICK n, f, w, h, g \in Nat : ToServerAt(n, f, w, h, g)
    BY <1>0 DEF ToServer
  <2>2. g <= h /\ h <= w /\ w <= f /\ f <= n /\ sent["client"] = Run(0, n) /\ fromClient = Run(f, n)
        /\ got["server"] = Run(0, g)
    BY <2>1 DEF ToServerAt
  <2>3. Len(sent["client"]) + 1 = n + 1 /\ n + 1 \in Nat /\ f <= n + 1
    <3>1. 0 \in Nat /\ 0 <= n
      OBVIOUS
    <3>2. Len(Run(0, n)) = n - 0
      BY <3>1, RunIs
    <3> QED BY <2>2, <3>2
  <2>4. (sent["client"])' = Run(0, n + 1) /\ fromClient' = Run(f, n + 1)
    <3>1. 0 \in Nat /\ 0 <= n
      OBVIOUS
    <3>2. Append(Run(0, n), n + 1) = Run(0, n + 1) /\ Append(Run(f, n), n + 1) = Run(f, n + 1)
      BY <2>2, <3>1, RunAppend
    <3> QED BY <1>1, <1>2, <2>2, <2>3, <3>2
  <2>5. ToServerAt(n + 1, f, w, h, g)'
    BY <1>1, <1>2, <2>1, <2>3, <2>4 DEF ToServerAt, payloads
  <2> QED BY <2>3, <2>5 DEF ToServer
<1>6. ToClient'
  <2>1. Open' => Open
    BY <1>1, <1>2 DEF Open
  <2> QED BY <1>0, <1>1, <1>2, <2>1, ClientCalm
<1> QED BY <1>3, <1>4, <1>5, <1>6 DEF PInv

LEMMA ServerWritesPInv ==
    ASSUME PInv, ServerWrites
    PROVE  PInv'
<1>0. TypesRight /\ Steps /\ ToServer /\ ToClient
  BY DEF PInv
<1>1. /\ UNCHANGED <<dialler, at, link, wire, clientVars, m_proxysocket, m_sendbuffer, m_dead, got, crashed>>
      /\ m_proxysocket = "open"
      /\ sent' = [sent EXCEPT !["server"] = Append(@, Len(sent["server"]) + 1)]
      /\ fromServer' = Append(fromServer, Len(sent["server"]) + 1)
  BY DEF ServerWrites
<1>2. /\ UNCHANGED <<m_psock, m_buf, fromClient>>
      /\ (sent["server"])' = Append(sent["server"], Len(sent["server"]) + 1)
      /\ (sent["client"])' = sent["client"]
  BY <1>0, <1>1 DEF clientVars, TypesRight
<1>3. TypesRight'
  <2>1. \A s \in Seq(Nat) : Len(s) + 1 \in Nat /\ \A b \in Nat : Append(s, b) \in Seq(Nat)
    OBVIOUS
  <2>2. fromServer' \in Seq(Nat) /\ sent' \in [{"client", "server"} -> Seq(Nat)]
    BY <1>0, <1>1, <2>1 DEF TypesRight
  <2> QED BY <1>0, <1>1, <1>2, <2>2 DEF TypesRight
<1>4. Steps'
  BY <1>0, <1>1, <1>2, StepsKept
<1>5. ToClient'
  <2>1. PICK n, f, w, g \in Nat : ToClientAt(n, f, w, g)
    BY <1>0 DEF ToClient
  <2>2. g <= w /\ w <= f /\ f <= n /\ sent["server"] = Run(0, n) /\ fromServer = Run(f, n)
        /\ got["client"] = Run(0, g)
    BY <2>1 DEF ToClientAt
  <2>3. Len(sent["server"]) + 1 = n + 1 /\ n + 1 \in Nat /\ f <= n + 1
    <3>1. 0 \in Nat /\ 0 <= n
      OBVIOUS
    <3>2. Len(Run(0, n)) = n - 0
      BY <3>1, RunIs
    <3> QED BY <2>2, <3>2
  <2>4. (sent["server"])' = Run(0, n + 1) /\ fromServer' = Run(f, n + 1)
    <3>1. 0 \in Nat /\ 0 <= n
      OBVIOUS
    <3>2. Append(Run(0, n), n + 1) = Run(0, n + 1) /\ Append(Run(f, n), n + 1) = Run(f, n + 1)
      BY <2>2, <3>1, RunAppend
    <3> QED BY <1>1, <1>2, <2>2, <2>3, <3>2
  <2>5. ToClientAt(n + 1, f, w, g)'
    BY <1>1, <1>2, <2>1, <2>3, <2>4 DEF ToClientAt, payloads
  <2> QED BY <2>3, <2>5 DEF ToClient
<1>6. ToServer'
  BY <1>0, <1>1, <1>2, ServerCalm
<1> QED BY <1>3, <1>4, <1>5, <1>6 DEF PInv

LEMMA ProxyConnectedPInv ==
    ASSUME PInv, ProxyConnected
    PROVE  PInv'
<1>0. TypesRight /\ Steps /\ ToServer /\ ToClient
  BY DEF PInv
<1>1. /\ UNCHANGED <<dialler, at, link, wire, clientVars, m_dead, fromServer, sent, crashed>>
      /\ m_proxysocket = "connecting" /\ m_proxysocket' = "open" /\ m_sendbuffer' = <<>>
      /\ got' = [got EXCEPT !["server"] = @ \o FlattenSeq(m_sendbuffer)]
  BY DEF ProxyConnected
<1>2. /\ UNCHANGED <<m_psock, m_buf, fromClient>>
      /\ (got["server"])' = got["server"] \o FlattenSeq(m_sendbuffer)
      /\ (got["client"])' = got["client"]
  BY <1>0, <1>1 DEF clientVars, TypesRight
<1>3. PICK n, f, w, h, g \in Nat : ToServerAt(n, f, w, h, g)
  BY <1>0 DEF ToServer
<1>4. /\ g <= h /\ h <= w /\ w <= f /\ f <= n /\ sent["client"] = Run(0, n) /\ fromClient = Run(f, n)
      /\ got["server"] = Run(0, g) /\ Pieces(m_sendbuffer, g, h) /\ Pieces(payloads(wire["P"]), h, w)
  BY <1>1, <1>3 DEF ToServerAt
<1>5. (got["server"])' = Run(0, h)
  <2>1. m_sendbuffer \in Seq(Seq(Nat))
    <3>1. \A r \in Reads : r \in Seq(Nat)
      BY DEF Reads
    <3>2. m_sendbuffer \in Seq(Reads)
      BY <1>0 DEF TypesRight
    <3> QED BY <3>1, <3>2
  <2>2. FlattenSeq(m_sendbuffer) = Run(g, h)
    BY <1>4, <2>1, FlattenPieces
  <2>3. Run(0, g) \o Run(g, h) = Run(0, h)
    <3>1. 0 \in Nat /\ 0 <= g
      OBVIOUS
    <3> QED BY <1>4, <3>1, RunConcat
  <2> QED BY <1>2, <1>4, <2>2, <2>3
<1>6. TypesRight'
  <2>1. Run(0, h) \in Seq(Nat) /\ <<>> \in Seq(Reads)
    BY RunIs
  <2>2. got' \in [{"client", "server"} -> Seq(Nat)]
    BY <1>0, <1>1, <1>2, <1>5, <2>1 DEF TypesRight
  <2> QED BY <1>0, <1>1, <1>2, <2>1, <2>2 DEF TypesRight
<1>7. Steps'
  BY <1>0, <1>1, <1>2, StepsKept
<1>8. ToServer'
  <2>1. Pieces(m_sendbuffer', h, h)
    BY <1>1, PiecesNil
  <2>2. ToServerAt(n, f, w, h, h)'
    BY <1>1, <1>2, <1>3, <1>4, <1>5, <2>1 DEF ToServerAt, payloads
  <2> QED BY <2>2 DEF ToServer
<1>9. ToClient'
  <2>1. Open' => m_proxysocket \in {"none", "connecting"}
    BY <1>1
  <2> QED BY <1>0, <1>1, <1>2, <2>1, ClientCalm
<1> QED BY <1>6, <1>7, <1>8, <1>9 DEF PInv

(* Writing to one wire leaves the other *)
LEMMA WireIs ==
    ASSUME TypesRight
    PROVE  /\ wire["L"] \in Seq(Messages) /\ wire["P"] \in Seq(Messages)
           /\ \A v \in Seq(Messages), e \in Sides :
                 wire' = [wire EXCEPT ![e] = v] =>
                    /\ (wire[e])' = v /\ wire' \in [Sides -> Seq(Messages)]
                    /\ \A d \in Sides : d # e => (wire[d])' = wire[d]
BY DEF TypesRight, Sides

LEMMA HandleMsgLPInv ==
    ASSUME PInv, HandleMsgL
    PROVE  PInv'
<1>0. TypesRight /\ Steps /\ ToServer /\ ToClient
  BY DEF PInv
<1> DEFINE w0 == wire["L"]
<1>1. /\ UNCHANGED <<dialler, at, link, m_psock, m_buf, fromClient, m_proxysocket, m_sendbuffer, m_dead, fromServer,
                     sent, crashed>>
      /\ w0 # <<>> /\ at["L"] \in {"ready", "finished"} /\ wire' = [wire EXCEPT !["L"] = Tail(w0)]
      /\ got' = IF m_psock = "open" THEN [got EXCEPT !["client"] = @ \o Head(w0).data] ELSE got
  BY DEF HandleMsgL, clientVars, serverVars
<1>2. w0 \in Seq(Messages) /\ Tail(w0) \in Seq(Messages) /\ Head(w0).data \in Seq(Nat)
  BY <1>0, <1>1, WireIs, TailMessages DEF Messages
<1>3. (wire["L"])' = Tail(w0) /\ (wire["P"])' = wire["P"] /\ wire' \in [Sides -> Seq(Messages)]
  BY <1>0, <1>1, <1>2, WireIs DEF Sides
<1> HIDE DEF w0
<1>4. /\ (got["server"])' = got["server"] /\ got' \in [{"client", "server"} -> Seq(Nat)]
      /\ (got["client"])' = IF m_psock = "open" THEN got["client"] \o Head(w0).data ELSE got["client"]
  BY <1>0, <1>1, <1>2 DEF TypesRight
<1>5. TypesRight'
  BY <1>0, <1>1, <1>3, <1>4 DEF TypesRight
<1>6. Steps'
  <2>1. NoReady(w0) => NoReady(Tail(w0))
    BY <1>1, <1>2, TailMessages
  <2>2. \A e \in Sides : NoReady(wire[e]) => NoReady((wire[e])')
    BY <1>3, <2>1 DEF Sides, w0
  <2>3. link # "none"
    BY <1>0, <1>1 DEF Steps, Sides, w0
  <2> QED BY <1>0, <1>1, <1>3, <2>2, <2>3, StepsKept
<1>7. ToServer'
  BY <1>0, <1>1, <1>3, <1>4, ServerCalm
<1>8. ToClient'
  <2>1. PICK n, f, w, g \in Nat : ToClientAt(n, f, w, g)
    BY <1>0 DEF ToClient
  <2>2. g <= w /\ w <= f /\ f <= n /\ sent["server"] = Run(0, n) /\ fromServer = Run(f, n)
        /\ got["client"] = Run(0, g)
    BY <2>1 DEF ToClientAt
  <2>3. CASE m_psock = "open"
    <3>1. Pieces(payloads(w0), g, w)
      BY <2>1, <2>3 DEF ToClientAt, w0
    <3>2. PICK m \in Nat : g <= m /\ m <= w /\ Head(w0).data = Run(g, m) /\ Pieces(payloads(Tail(w0)), m, w)
      BY <1>1, <1>2, <3>1, TailPieces
    <3>3. Run(0, g) \o Run(g, m) = Run(0, m)
      <4>1. 0 \in Nat /\ 0 <= g
        OBVIOUS
      <4> QED BY <3>2, <4>1, RunConcat
    <3>4. (got["client"])' = Run(0, m)
      BY <1>4, <2>2, <2>3, <3>2, <3>3
    <3>5. Pieces(payloads(wire["L"])', m, w)
      BY <1>3, <3>2 DEF payloads
    <3>6. ToClientAt(n, f, w, m)'
      BY <1>1, <2>1, <3>2, <3>4, <3>5 DEF ToClientAt
    <3> QED BY <3>6 DEF ToClient
  <2>4. CASE m_psock # "open"
    <3>1. m_psock = "closed"
      BY <1>0, <1>1, <2>4 DEF Steps, TypesRight
    <3>2. ToClientAt(n, f, w, g)'
      BY <1>1, <1>4, <2>1, <3>1 DEF ToClientAt
    <3> QED BY <3>2 DEF ToClient
  <2> QED BY <2>3, <2>4
<1> QED BY <1>5, <1>6, <1>7, <1>8 DEF PInv

LEMMA HandleMsgPPInv ==
    ASSUME PInv, HandleMsgP
    PROVE  PInv'
<1>0. TypesRight /\ Steps /\ ToServer /\ ToClient
  BY DEF PInv
<1> DEFINE w0 == wire["P"]
<1>1. /\ UNCHANGED <<dialler, m_psock, m_buf, fromClient, m_proxysocket, m_dead, fromServer, sent, crashed>>
      /\ w0 # <<>> /\ at["P"] \in {"ready", "finished"} /\ wire' = [wire EXCEPT !["P"] = Tail(w0)]
      /\ Head(w0).type = "data"
      /\ at' = IF m_dead THEN [at EXCEPT !["P"] = "finished"] ELSE at
      /\ link' = IF m_dead THEN "broken" ELSE link
      /\ \/ /\ m_proxysocket = "open"
            /\ got' = [got EXCEPT !["server"] = @ \o Head(w0).data] /\ UNCHANGED m_sendbuffer
         \/ /\ m_proxysocket # "open"
            /\ m_sendbuffer' = Append(m_sendbuffer, Head(w0).data) /\ UNCHANGED got
  BY DEF HandleMsgP, clientVars
<1>2. w0 \in Seq(Messages) /\ Tail(w0) \in Seq(Messages) /\ Head(w0).data \in Seq(Nat) /\ Head(w0).data \in Reads
  BY <1>0, <1>1, WireIs, TailMessages DEF Messages, Reads
<1>3. (wire["P"])' = Tail(w0) /\ (wire["L"])' = wire["L"] /\ wire' \in [Sides -> Seq(Messages)]
  BY <1>0, <1>1, <1>2, WireIs DEF Sides
<1> HIDE DEF w0
<1>4. /\ (at["L"])' = at["L"] /\ ((at["P"])' = "finished" \/ (at["P"])' = at["P"])
      /\ at' \in [Sides -> AtValues] /\ (link' = "broken" \/ link' = link)
      /\ (at["P"])' \notin {"none", "unset"} /\ at["P"] \notin {"none", "unset"}
  BY <1>0, <1>1 DEF TypesRight, Sides, AtValues
<1>5. /\ (got["client"])' = got["client"] /\ got' \in [{"client", "server"} -> Seq(Nat)]
      /\ m_sendbuffer' \in Seq(Reads)
  <2>1. \A q \in Seq(Reads), r \in Reads : Append(q, r) \in Seq(Reads)
    OBVIOUS
  <2>2. m_sendbuffer' \in Seq(Reads)
    BY <1>0, <1>1, <1>2, <2>1 DEF TypesRight
  <2>3. \A s, t \in Seq(Nat) : s \o t \in Seq(Nat)
    OBVIOUS
  <2>4. (got["client"])' = got["client"] /\ got' \in [{"client", "server"} -> Seq(Nat)]
    <3>1. got["server"] \o Head(w0).data \in Seq(Nat)
      BY <1>0, <1>2, <2>3 DEF TypesRight
    <3>2. got' = got \/ got' = [got EXCEPT !["server"] = got["server"] \o Head(w0).data]
      BY <1>1
    <3> QED BY <1>0, <3>1, <3>2 DEF TypesRight
  <2> QED BY <2>2, <2>4
<1>6. TypesRight'
  BY <1>0, <1>1, <1>3, <1>4, <1>5 DEF TypesRight
<1>7. Steps'
  <2>1. (NoReady(w0) => NoReady(Tail(w0))) /\ (OneReady(w0) => OneReady(Tail(w0)))
    BY <1>1, <1>2, TailMessages
  <2>2. link # "none" /\ link' # "none"
    BY <1>0, <1>1, <1>4 DEF Steps, Sides, w0
  <2>3. (at["L"])' = "none" <=> (at["P"])' = "none"
    BY <1>0, <1>4 DEF Steps
  <2>4. (at["L"])' = "none" <=> m_psock' = "none"
    BY <1>0, <1>1, <1>4 DEF Steps
  <2>5. m_dead' => m_proxysocket' = "closed"
    BY <1>0, <1>1 DEF Steps
  <2>6. ~Before("P")'
    BY <1>4 DEF Before
  <2>7. (Before("L") \/ (dialler = "L" /\ at["L"] = "linked"))' => NoReady(wire["P"])' /\ m_proxysocket' = "none"
    BY <1>0, <1>1, <1>3, <1>4, <2>1 DEF Steps, Before, w0, NoReady
  <2>8. OneReady(wire["P"])' /\ (m_proxysocket' # "none" => NoReady(wire["P"])')
    BY <1>0, <1>1, <1>3, <2>1 DEF Steps, w0, NoReady, OneReady
  <2> QED BY <2>2, <2>3, <2>4, <2>5, <2>6, <2>7, <2>8 DEF Steps
<1>8. ToServer'
  <2>1. PICK n, f, w, h, g \in Nat : ToServerAt(n, f, w, h, g)
    BY <1>0 DEF ToServer
  <2>2. /\ g <= h /\ h <= w /\ w <= f /\ f <= n /\ sent["client"] = Run(0, n) /\ fromClient = Run(f, n)
        /\ got["server"] = Run(0, g)
        /\ (m_proxysocket # "closed" => Pieces(m_sendbuffer, g, h) /\ Pieces(payloads(w0), h, w))
        /\ (m_proxysocket = "open" => m_sendbuffer = <<>>)
        /\ (at["L"] \in {"none", "unset", "linked"} => w = 0 /\ Pieces(m_buf, 0, f))
        /\ (at["L"] = "ready" /\ link = "up" => w = f)
    BY <2>1 DEF ToServerAt, w0
  <2>3. (at["L"])' = "ready" /\ link' = "up" => w = f
    BY <1>4, <2>2
  <2>4. CASE m_proxysocket = "closed"
    <3>1. ToServerAt(n, f, w, h, g)'
      BY <1>1, <1>4, <2>2, <2>3, <2>4 DEF ToServerAt
    <3> QED BY <3>1 DEF ToServer
  <2>5. CASE m_proxysocket # "closed"
    <3>1. PICK m \in Nat : h <= m /\ m <= w /\ Head(w0).data = Run(h, m) /\ Pieces(payloads(Tail(w0)), m, w)
      BY <1>1, <1>2, <2>2, <2>5, TailPieces
    <3>2. Pieces(payloads(wire["P"])', m, w)
      BY <1>3, <3>1 DEF payloads
    <3>3. CASE m_proxysocket = "open"
      <4>1. g = h
        BY <2>2, <2>5, <3>3, PiecesNil
      <4>2. Run(0, g) \o Run(g, m) = Run(0, m)
        <5>1. 0 \in Nat /\ 0 <= g /\ g <= m
          BY <3>1, <4>1
        <5> QED BY <5>1, RunConcat
      <4>3. (got["server"])' = got["server"] \o Run(g, m) /\ m_sendbuffer' = <<>>
        BY <1>0, <1>1, <2>2, <3>1, <3>3, <4>1 DEF TypesRight
      <4>4. Pieces(m_sendbuffer', m, m)
        BY <4>3, PiecesNil
      <4>5. (got["server"])' = Run(0, m)
        BY <2>2, <4>2, <4>3
      <4>6. ToServerAt(n, f, w, m, m)'
        BY <1>1, <1>4, <2>2, <2>3, <3>1, <3>2, <4>3, <4>4, <4>5 DEF ToServerAt
      <4> QED BY <4>6 DEF ToServer
    <3>4. CASE m_proxysocket # "open"
      <4>1. m_sendbuffer' = Append(m_sendbuffer, Run(h, m)) /\ (got["server"])' = got["server"]
        BY <1>1, <3>1, <3>4
      <4>2. Pieces(m_sendbuffer', g, m)
        <5>1. m_sendbuffer \in Seq(Reads) /\ Run(h, m) \in Reads
          BY <1>0, <1>2, <3>1 DEF TypesRight
        <5> QED BY <2>2, <2>5, <3>1, <4>1, <5>1, PiecesAppend
      <4>3. ToServerAt(n, f, w, m, g)'
        BY <1>1, <1>4, <2>2, <2>3, <3>1, <3>2, <3>4, <4>1, <4>2 DEF ToServerAt
      <4> QED BY <4>3 DEF ToServer
    <3> QED BY <3>3, <3>4
  <2> QED BY <2>4, <2>5
<1>9. ToClient'
  <2>1. Open' => Open
    BY <1>1, <1>4 DEF Open
  <2> QED BY <1>0, <1>1, <1>3, <1>5, <2>1, ClientCalm
<1> QED BY <1>6, <1>7, <1>8, <1>9 DEF PInv

LEMMA SocketConnectedPInv ==
    ASSUME PInv, SocketConnected
    PROVE  PInv'
<1>0. TypesRight /\ Steps /\ ToServer /\ ToClient
  BY DEF PInv
<1> DEFINE first == <<Msg("first")>>
<1>1. /\ UNCHANGED <<dialler, m_psock, m_buf, fromClient, m_proxysocket, m_sendbuffer, m_dead, fromServer,
                     sent, got, crashed>>
      /\ link = "none" /\ link' = "up" /\ at[dialler] = "unset"
      /\ at' = [at EXCEPT ![dialler] = "linked"] /\ wire' = [wire EXCEPT ![Peer(dialler)] = first]
  BY DEF SocketConnected, clientVars, serverVars
<1>2. /\ first \in Seq(Messages) /\ NoData(first) /\ NoReady(first)
      /\ \A a \in Nat : Pieces(payloads(first), a, a)
  <2>1. Msg("first") \in Messages /\ Msg("first").data = <<>> /\ ~IsReady(Msg("first"))
    BY DEF Msg, Messages, Types, IsReady
  <2> QED BY <2>1, QuietMessage
<1> HIDE DEF first
<1>3. /\ wire["L"] = <<>> /\ wire["P"] = <<>> /\ Before("L") /\ Before("P")
      /\ wire' \in [Sides -> Seq(Messages)]
      /\ (wire["L"])' \in {<<>>, first} /\ (wire["P"])' \in {<<>>, first}
  BY <1>0, <1>1, <1>2 DEF Steps, TypesRight, Sides, Peer
<1>4. /\ at' \in [Sides -> AtValues] /\ (at["L"])' \in {at["L"], "linked"} /\ (at["P"])' \in {at["P"], "linked"}
      /\ at["L"] = "unset" /\ at["P"] = "unset" /\ (dialler # "L" => (at["L"])' = at["L"])
  BY <1>0, <1>1, <1>3 DEF Steps, TypesRight, Sides, AtValues, Before
<1>5. NoData(<<>>) /\ NoReady(<<>>)
  BY DEF NoData, NoReady
<1>6. (NoReady(wire["L"]) /\ NoReady(wire["P"]) /\ NoData(wire["P"]))'
  BY <1>2, <1>3, <1>5 DEF NoReady, NoData
<1>7. TypesRight'
  BY <1>0, <1>1, <1>3, <1>4 DEF TypesRight
<1>8. m_proxysocket = "none"
  BY <1>0, <1>3 DEF Steps
<1>9. Steps'
  <2>1. (at["L"])' # "none" /\ (at["P"])' # "none" /\ (at["L"])' # "ready"
    BY <1>4
  <2>2. m_psock' # "none"
    BY <1>0, <1>1, <1>4 DEF Steps
  <2>3. ~m_dead'
    BY <1>0, <1>1, <1>8 DEF Steps
  <2>4. OneReady(wire["P"])'
    BY <1>6 DEF NoReady, OneReady
  <2> QED BY <1>1, <1>6, <1>8, <2>1, <2>2, <2>3, <2>4 DEF Steps
<1>10. \A a, b : /\ Pieces(payloads(wire["P"]), a, b) => Pieces(payloads((wire["P"])'), a, b)
                 /\ Pieces(payloads(wire["L"]), a, b) => Pieces(payloads((wire["L"])'), a, b)
  <2> SUFFICES ASSUME NEW a, NEW b, Pieces(payloads(<<>>), a, b)
               PROVE  Pieces(payloads(first), a, b)
    BY <1>3
  <2>1. payloads(<<>>) = <<>> /\ <<>> \in Seq(Seq(Nat))
    BY DEF payloads
  <2>2. a \in Nat /\ a = b
    BY <2>1, PiecesOrder, PiecesNil
  <2> QED BY <1>2, <2>2
<1>11. ToServer'
  <2>1. at["L"] \in Early /\ (at["L"])' # "ready"
    BY <1>4 DEF Early
  <2> QED BY <1>0, <1>1, <1>10, <2>1, ServerCalm
<1>12. ToClient'
  <2>1. ~Open'
    BY <1>1, <1>8 DEF Open
  <2> QED BY <1>0, <1>1, <1>10, <2>1, ClientCalm
<1> QED BY <1>7, <1>9, <1>11, <1>12 DEF PInv

LEMMA TakeSocketPInv ==
    ASSUME PInv, TakeSocket
    PROVE  PInv'
<1>0. TypesRight /\ Steps /\ ToServer /\ ToClient
  BY DEF PInv
<1>a. PICK e \in Sides : e = Peer(dialler)
  BY <1>0 DEF TypesRight, Sides, Peer
<1> DEFINE ready == <<Msg("ready")>>
           more == IF link = "up" THEN ready ELSE <<>>
<1>1. /\ UNCHANGED <<dialler, link, m_psock, m_buf, fromClient, m_proxysocket, m_sendbuffer, m_dead, fromServer,
                     sent, got, crashed>>
      /\ at[e] = "unset" /\ wire[e] # <<>> /\ at' = [at EXCEPT ![e] = "linked"]
      /\ wire' = [wire EXCEPT ![e] = Tail(@), ![dialler] = IF link = "up" THEN Append(@, Msg("ready")) ELSE @]
  BY <1>a DEF TakeSocket, clientVars, serverVars
<1>2. /\ ready \in Seq(Messages) /\ NoData(ready) /\ OneReady(ready)
      /\ \A a \in Nat : Pieces(payloads(ready), a, a)
  <2>1. Msg("ready") \in Messages /\ Msg("ready").data = <<>>
    BY DEF Msg, Messages, Types
  <2> QED BY <2>1, QuietMessage
<1>3. e \in Sides /\ dialler \in Sides /\ e # dialler /\ (e = "L" <=> dialler = "P") /\ (e = "P" <=> dialler = "L")
  BY <1>0, <1>a DEF TypesRight, Sides, Peer
<1> HIDE DEF ready, more
<1>4. wire[e] \in Seq(Messages) /\ wire[dialler] \in Seq(Messages)
  BY <1>0, <1>3 DEF TypesRight
<1>5. /\ Tail(wire[e]) \in Seq(Messages)
      /\ NoReady(wire[e]) => NoReady(Tail(wire[e])) /\ ~IsReady(Head(wire[e]))
      /\ NoData(wire[e]) => NoData(Tail(wire[e])) /\ Head(wire[e]).type # "data"
  BY <1>1, <1>4, TailMessages
<1>6. /\ more \in Seq(Messages) /\ NoData(more) /\ OneReady(more) /\ \A a \in Nat : Pieces(payloads(more), a, a)
  <2>1. <<>> \in Seq(Messages) /\ NoData(<<>>) /\ OneReady(<<>>)
    BY DEF NoData, OneReady
  <2>2. payloads(<<>>) = <<>>
    BY DEF payloads
  <2> QED BY <1>2, <2>1, <2>2, PiecesNil DEF more
<1>7. /\ wire' \in [Sides -> Seq(Messages)] /\ (wire[e])' = Tail(wire[e])
      /\ (wire[dialler])' = wire[dialler] \o more
  <2>1. \A w \in Seq(Messages) : Append(w, Msg("ready")) = w \o ready /\ w = w \o <<>>
    BY DEF ready
  <2>2. (IF link = "up" THEN Append(wire[dialler], Msg("ready")) ELSE wire[dialler]) = wire[dialler] \o more
    BY <1>4, <2>1 DEF more
  <2>3. wire[dialler] \o more \in Seq(Messages)
    BY <1>4, <1>6
  <2> QED BY <1>0, <1>1, <1>3, <1>5, <2>2, <2>3 DEF TypesRight
<1>8. /\ at' \in [Sides -> AtValues] /\ (at[e])' = "linked" /\ (at[dialler])' = at[dialler]
  BY <1>0, <1>1, <1>3 DEF TypesRight, AtValues
<1>9. TypesRight'
  BY <1>0, <1>1, <1>7, <1>8 DEF TypesRight
<1>10. /\ at["L"] # "none" /\ at["P"] # "none" /\ m_psock # "none" /\ link # "none" /\ Before(e)
       /\ (at["L"])' # "none" /\ (at["P"])' # "none"
  BY <1>0, <1>1, <1>3, <1>8 DEF Steps, Sides, Before
<1>11. m_proxysocket = "none"
  <2>1. CASE e = "P"
    BY <1>0, <1>10, <2>1 DEF Steps
  <2>2. CASE e = "L"
    BY <1>0, <1>10, <2>2 DEF Steps
  <2> QED BY <1>3, <2>1, <2>2 DEF Sides
<1>12. ~m_dead
  BY <1>0, <1>11 DEF Steps
<1>13. CASE e = "P"
  <2>1. (wire["P"])' = Tail(wire["P"]) /\ (at["P"])' = "linked" /\ (at["L"])' = at["L"] /\ dialler = "L"
        /\ wire["P"] \in Seq(Messages) /\ wire["P"] # <<>> /\ (wire["L"])' = wire["L"] \o more
    BY <1>1, <1>3, <1>4, <1>7, <1>8, <1>13
  <2>2. Before("P") /\ NoData(wire["P"])
    BY <1>0, <1>10, <1>13 DEF Steps
  <2>3. OneReady(Tail(wire["P"])) /\ Head(wire["P"]).type # "data"
    BY <1>0, <2>1, <2>2, TailMessages DEF Steps
  <2>4. Steps'
    <3>1. ~Before("P")'
      BY <2>1 DEF Before
    <3>2. OneReady(wire["P"])'
      BY <2>1, <2>3 DEF OneReady
    <3>3. (Before("L") \/ (dialler = "L" /\ at["L"] = "linked"))' => NoReady(wire["P"])'
      <4>1. (Before("L") \/ (dialler = "L" /\ at["L"] = "linked"))' => NoReady(wire["P"])
        BY <1>0, <1>1, <2>1 DEF Steps, Before
      <4>2. NoReady(wire["P"]) => NoReady(Tail(wire["P"]))
        BY <2>1, TailMessages
      <4> QED BY <2>1, <4>1, <4>2 DEF NoReady
    <3> QED BY <1>1, <1>10, <1>11, <1>12, <3>1, <3>2, <3>3 DEF Steps
  <2>5. \A a, b : Pieces(payloads(wire["P"]), a, b) => Pieces(payloads((wire["P"])'), a, b)
    BY <2>1, <2>3, QuietTail
  <2>6. \A a, b : Pieces(payloads(wire["L"]), a, b) => Pieces(payloads((wire["L"])'), a, b)
    BY <1>3, <1>4, <1>6, <2>1, QuietConcat
  <2>7. ToServer'
    BY <1>0, <1>1, <2>1, <2>5, ServerCalm
  <2>8. ToClient'
    BY <1>0, <1>1, <1>11, <2>6, ClientCalm
  <2> QED BY <1>9, <2>4, <2>7, <2>8 DEF PInv
<1>14. CASE e = "L"
  <2>1. (wire["L"])' = Tail(wire["L"]) /\ (at["L"])' = "linked" /\ (at["P"])' = at["P"] /\ dialler = "P"
        /\ wire["L"] \in Seq(Messages) /\ wire["L"] # <<>> /\ (wire["P"])' = wire["P"] \o more
        /\ wire["P"] \in Seq(Messages)
    BY <1>1, <1>3, <1>4, <1>7, <1>8, <1>14
  <2>2. Before("L") /\ NoReady(wire["P"])
    BY <1>0, <1>10, <1>14 DEF Steps
  <2>3. OneReady((wire["P"])')
    BY <1>6, <2>1, <2>2, ConcatMessages
  <2>4. Steps'
    <3>1. Before("P")' => NoReady(wire["L"])' /\ NoData(wire["P"])'
      <4>1. Before("P")' => NoReady(wire["L"]) /\ NoData(wire["P"])
        BY <1>0, <2>1 DEF Steps, Before
      <4>2. (NoReady(wire["L"]) => NoReady(Tail(wire["L"]))) /\ (NoData(wire["P"]) => NoData(wire["P"] \o more))
        BY <1>6, <2>1, TailMessages, ConcatMessages
      <4> QED BY <2>1, <4>1, <4>2 DEF NoReady, NoData
    <3>2. ~(Before("L") \/ (dialler = "L" /\ at["L"] = "linked"))'
      BY <1>1, <2>1 DEF Before
    <3>3. OneReady(wire["P"])'
      BY <2>3 DEF OneReady
    <3> QED BY <1>1, <1>10, <1>11, <1>12, <2>1, <3>1, <3>2, <3>3 DEF Steps
  <2>5. \A a, b : Pieces(payloads(wire["P"]), a, b) => Pieces(payloads((wire["P"])'), a, b)
    BY <1>6, <2>1, QuietConcat
  <2>6. \A a, b : m_psock # "closed" /\ Pieces(payloads(wire["L"]), a, b)
                => Pieces(payloads((wire["L"])'), a, b)
    <3> SUFFICES ASSUME NEW a, NEW b, m_psock # "closed", Pieces(payloads(wire["L"]), a, b)
                 PROVE  Pieces(payloads((wire["L"])'), a, b)
      OBVIOUS
    <3>1. PICK n, f, w, g \in Nat : ToClientAt(n, f, w, g)
      BY <1>0 DEF ToClient
    <3>2. g <= w /\ w <= f /\ f <= n /\ n = 0 /\ Pieces(payloads(wire["L"]), g, w)
      BY <1>11, <3>1 DEF ToClientAt
    <3>3. PICK m \in Nat : g <= m /\ m <= w /\ Head(wire["L"]).data = Run(g, m)
      BY <2>1, <3>2, TailPieces
    <3>4. Head(wire["L"]).data = <<>>
      <4>1. g = m /\ g <= m
        BY <3>2, <3>3
      <4> QED BY <3>3, <4>1, RunEmpty
    <3>5. Head(wire["L"]).type # "data"
      BY <2>1, <3>4, TailMessages DEF Messages
    <3> QED BY <2>1, <3>5, QuietTail
  <2>7. ToServer'
    <3>1. at["L"] \in Early
      BY <1>1, <1>14 DEF Early
    <3> QED BY <1>0, <1>1, <2>1, <2>5, <3>1, ServerCalm
  <2>8. ToClient'
    BY <1>0, <1>1, <1>11, <2>6, ClientCalm
  <2> QED BY <1>9, <2>4, <2>7, <2>8 DEF PInv
<1> QED BY <1>3, <1>13, <1>14 DEF Sides

(* Reading k bytes *)
LEMMA RunTake ==
    ASSUME NEW f \in Nat, NEW n \in Nat, NEW k \in Nat, f + k <= n
    PROVE  SubSeq(Run(f, n), 1, k) = Run(f, f + k)
           /\ SubSeq(Run(f, n), k + 1, Len(Run(f, n))) = Run(f + k, n)
<1>1. PICK b \in Nat : b = f + k
  OBVIOUS
<1>2. b - f = k /\ f <= b /\ b <= n
  BY <1>1
<1>3. SubSeq(Run(f, n), 1, b - f) = Run(f, b)
      /\ SubSeq(Run(f, n), b - f + 1, Len(Run(f, n))) = Run(b, n)
  BY <1>2, RunSplit
<1> QED BY <1>1, <1>2, <1>3

(* What an end sends, if it can *)
LEMMA SendsIs ==
    ASSUME TypesRight, NEW e \in Sides, NEW w \in Seq(Messages), NEW v \in Seq(Messages)
    PROVE  \/ link = "up" /\ at[e] \in {"linked", "ready"} /\ Sends(e, w, v) = w \o v
           \/ ~(link = "up" /\ at[e] \in {"linked", "ready"}) /\ Sends(e, w, v) = w
BY DEF Sends

LEMMA ProxyReadyReadPPInv ==
    ASSUME PInv, ProxyReadyReadP
    PROVE  PInv'
<1>0. TypesRight /\ Steps /\ ToServer /\ ToClient
  BY DEF PInv
<1>1. /\ UNCHANGED <<dialler, at, link, m_psock, m_buf, fromClient, m_proxysocket, m_sendbuffer, m_dead, sent, got,
                     crashed>>
      /\ m_proxysocket = "open" /\ at["P"] # "deleted"
  BY DEF ProxyReadyReadP, clientVars
<1>2. PICK k \in 1..Len(fromServer) :
          /\ fromServer' = SubSeq(fromServer, k + 1, Len(fromServer))
          /\ wire' = [wire EXCEPT !["L"] = Sends("P", wire["L"], <<Data(SubSeq(fromServer, 1, k))>>)]
  BY DEF ProxyReadyReadP
<1>3. PICK n, f, w, g \in Nat : ToClientAt(n, f, w, g)
  BY <1>0 DEF ToClient
<1>4. /\ g <= w /\ w <= f /\ f <= n /\ sent["server"] = Run(0, n) /\ fromServer = Run(f, n)
      /\ got["client"] = Run(0, g)
      /\ (m_psock # "closed" => Pieces(payloads(wire["L"]), g, w))
      /\ (Open => w = f)
  BY <1>3 DEF ToClientAt, Open
<1>5. Len(fromServer) = n - f
  BY <1>4, RunIs
<1>6. f + k \in Nat /\ f < f + k /\ f <= f + k /\ f + k <= n /\ (f + k) - f = k
  BY <1>2, <1>5
<1>7. SubSeq(fromServer, 1, k) = Run(f, f + k) /\ fromServer' = Run(f + k, n)
  <2>1. k \in Nat
    BY <1>2
  <2>2. /\ SubSeq(Run(f, n), 1, k) = Run(f, f + k)
        /\ SubSeq(Run(f, n), k + 1, Len(Run(f, n))) = Run(f + k, n)
    BY <1>6, <2>1, RunTake
  <2> QED BY <1>2, <1>4, <2>2
<1>8. PICK v : v = <<Data(Run(f, f + k))>>
  OBVIOUS
<1>9. v \in Seq(Messages) /\ NoReady(v) /\ Pieces(payloads(v), f, f + k)
  BY <1>6, <1>8, DataMessage
<1>10. wire["L"] \in Seq(Messages) /\ wire["P"] \in Seq(Messages)
  BY <1>0, WireIs
<1>11. PICK u : u = Sends("P", wire["L"], v)
  OBVIOUS
<1>12. \/ link = "up" /\ at["P"] \in {"linked", "ready"} /\ u = wire["L"] \o v
       \/ ~(link = "up" /\ at["P"] \in {"linked", "ready"}) /\ u = wire["L"]
  BY <1>0, <1>9, <1>10, <1>11, SendsIs DEF Sides
<1>13. u \in Seq(Messages) /\ (NoReady(wire["L"]) => NoReady(u))
  BY <1>9, <1>10, <1>12, ConcatMessages
<1>14. wire' \in [Sides -> Seq(Messages)] /\ (wire["L"])' = u /\ (wire["P"])' = wire["P"]
  <2>1. wire' = [wire EXCEPT !["L"] = u]
    BY <1>2, <1>7, <1>8, <1>11
  <2> QED BY <1>0, <1>13, <2>1, WireIs DEF Sides
<1>15. TypesRight'
  <2>1. fromServer' \in Seq(Nat)
    BY <1>6, <1>7, RunIs
  <2> QED BY <1>0, <1>1, <1>14, <2>1 DEF TypesRight
<1>16. Steps'
  <2>1. \A e \in Sides : NoReady(wire[e]) => NoReady((wire[e])')
    BY <1>13, <1>14 DEF Sides
  <2>2. link # "none"
    BY <1>0, <1>1 DEF Steps, Sides
  <2> QED BY <1>0, <1>1, <1>14, <2>1, <2>2, StepsKept
<1>17. ToServer'
  BY <1>0, <1>1, <1>14, ServerCalm
<1>18. ToClient'
  <2>1. CASE Open
    <3>1. m_psock # "closed" => Pieces(payloads(u), g, f + k)
      <4>1. u = wire["L"] \o v
        BY <1>12, <2>1 DEF Open
      <4> QED BY <1>4, <1>9, <1>10, <2>1, <4>1, ConcatPieces
    <3>2. m_psock' # "closed" => Pieces(payloads(wire["L"])', g, f + k)
      BY <1>1, <1>14, <3>1 DEF payloads
    <3>3. ToClientAt(n, f + k, f + k, g)'
      BY <1>1, <1>4, <1>6, <1>7, <3>2, <2>1 DEF ToClientAt
    <3> QED BY <1>6, <3>3 DEF ToClient
  <2>2. CASE ~Open
    <3>1. u = wire["L"]
      BY <1>1, <1>12, <2>2 DEF Open
    <3>2. m_psock' # "closed" => Pieces(payloads(wire["L"])', g, w)
      BY <1>1, <1>4, <1>14, <3>1 DEF payloads
    <3>3. w <= f + k
      BY <1>4, <1>6
    <3>4. ~Open'
      BY <1>1, <2>2 DEF Open
    <3>5. ToClientAt(n, f + k, w, g)'
      BY <1>1, <1>4, <1>6, <1>7, <3>2, <3>3, <3>4 DEF ToClientAt, Open
    <3> QED BY <1>6, <3>5 DEF ToClient
  <2> QED BY <2>1, <2>2
<1> QED BY <1>15, <1>16, <1>17, <1>18 DEF PInv

LEMMA ProxyReadyReadLPInv ==
    ASSUME PInv, ProxyReadyReadL
    PROVE  PInv'
<1>0. TypesRight /\ Steps /\ ToServer /\ ToClient
  BY DEF PInv
<1>1. /\ UNCHANGED <<dialler, at, link, m_psock, m_proxysocket, m_sendbuffer, m_dead, fromServer, sent, got,
                     crashed>>
      /\ m_psock = "open" /\ at["L"] # "deleted"
  BY DEF ProxyReadyReadL, serverVars
<1>2. PICK k \in 1..Len(fromClient) :
          /\ fromClient' = SubSeq(fromClient, k + 1, Len(fromClient))
          /\ \/ /\ at["L"] = "ready" /\ UNCHANGED m_buf
                /\ wire' = [wire EXCEPT !["P"] = Sends("L", wire["P"], <<Data(SubSeq(fromClient, 1, k))>>)]
             \/ at["L"] # "ready" /\ m_buf' = Append(m_buf, SubSeq(fromClient, 1, k)) /\ UNCHANGED wire
  BY DEF ProxyReadyReadL
<1>3. PICK n, f, w, h, g \in Nat : ToServerAt(n, f, w, h, g)
  BY <1>0 DEF ToServer
<1>4. /\ g <= h /\ h <= w /\ w <= f /\ f <= n /\ sent["client"] = Run(0, n) /\ fromClient = Run(f, n)
      /\ got["server"] = Run(0, g)
      /\ (m_proxysocket # "closed" => Pieces(m_sendbuffer, g, h) /\ Pieces(payloads(wire["P"]), h, w))
      /\ (m_proxysocket = "open" => m_sendbuffer = <<>>)
      /\ (at["L"] \in Early => w = 0 /\ Pieces(m_buf, 0, f))
      /\ (at["L"] = "ready" /\ link = "up" => w = f)
  BY <1>3 DEF ToServerAt, Early
<1>5. Len(fromClient) = n - f
  BY <1>4, RunIs
<1>6. f + k \in Nat /\ f < f + k /\ f <= f + k /\ f + k <= n /\ (f + k) - f = k
  BY <1>2, <1>5
<1>7. SubSeq(fromClient, 1, k) = Run(f, f + k) /\ fromClient' = Run(f + k, n)
  <2>1. k \in Nat
    BY <1>2
  <2>2. /\ SubSeq(Run(f, n), 1, k) = Run(f, f + k)
        /\ SubSeq(Run(f, n), k + 1, Len(Run(f, n))) = Run(f + k, n)
    BY <1>6, <2>1, RunTake
  <2> QED BY <1>2, <1>4, <2>2
<1>8. fromClient' \in Seq(Nat)
  BY <1>6, <1>7, RunIs
<1>9. w <= f + k
  BY <1>4, <1>6
<1>10. CASE at["L"] # "ready"
  <2>1. m_buf' = Append(m_buf, Run(f, f + k)) /\ UNCHANGED wire
    BY <1>2, <1>7, <1>10
  <2>2. Run(f, f + k) \in Reads
    <3>1. Run(f, f + k) \in Seq(Nat)
      BY <1>6, RunIs
    <3>2. Run(f, f + k) # <<>>
      BY <1>6, RunEmpty
    <3> QED BY <3>1, <3>2 DEF Reads
  <2>3. m_buf \in Seq(Reads) /\ m_buf' \in Seq(Reads)
    <3>1. \A q \in Seq(Reads), r \in Reads : Append(q, r) \in Seq(Reads)
      OBVIOUS
    <3>2. m_buf \in Seq(Reads)
      BY <1>0 DEF TypesRight
    <3> QED BY <2>1, <2>2, <3>1, <3>2
  <2>4. at["L"] \in Early => Pieces(m_buf', 0, f + k)
    BY <1>4, <1>6, <2>1, <2>2, <2>3, PiecesAppend
  <2>5. TypesRight'
    BY <1>0, <1>1, <1>8, <2>1, <2>3 DEF TypesRight
  <2>6. Steps'
    BY <1>0, <1>1, <2>1, StepsKept
  <2>7. ToServerAt(n, f + k, w, h, g)'
    BY <1>1, <1>4, <1>6, <1>7, <1>9, <1>10, <2>1, <2>4 DEF ToServerAt, Early, payloads
  <2>8. ToServer'
    BY <1>6, <2>7 DEF ToServer
  <2>9. ToClient'
    <3>1. Open' => Open
      BY <1>1 DEF Open
    <3> QED BY <1>0, <1>1, <2>1, <3>1, ClientCalm
  <2> QED BY <2>5, <2>6, <2>8, <2>9 DEF PInv
<1>11. CASE at["L"] = "ready"
  <2>1. PICK v : v = <<Data(Run(f, f + k))>>
    OBVIOUS
  <2>2. v \in Seq(Messages) /\ NoReady(v) /\ Pieces(payloads(v), f, f + k)
    BY <1>6, <2>1, DataMessage
  <2>3. wire["L"] \in Seq(Messages) /\ wire["P"] \in Seq(Messages)
    BY <1>0, WireIs
  <2>4. PICK u : u = Sends("L", wire["P"], v)
    OBVIOUS
  <2>5. \/ link = "up" /\ u = wire["P"] \o v
        \/ link # "up" /\ u = wire["P"]
    BY <1>0, <1>11, <2>2, <2>3, <2>4, SendsIs DEF Sides
  <2>6. u \in Seq(Messages) /\ (NoReady(wire["P"]) => NoReady(u)) /\ (OneReady(wire["P"]) => OneReady(u))
    BY <2>2, <2>3, <2>5, ConcatMessages
  <2>7. wire' \in [Sides -> Seq(Messages)] /\ (wire["P"])' = u /\ (wire["L"])' = wire["L"] /\ UNCHANGED m_buf
    <3>1. wire' = [wire EXCEPT !["P"] = u] /\ UNCHANGED m_buf
      BY <1>2, <1>7, <1>11, <2>1, <2>4
    <3> QED BY <1>0, <2>6, <3>1, WireIs DEF Sides
  <2>8. TypesRight'
    BY <1>0, <1>1, <1>8, <2>7 DEF TypesRight
  <2>9. Steps'
    <3>1. \A e \in Sides : NoReady(wire[e]) => NoReady((wire[e])')
      BY <2>6, <2>7 DEF Sides
    <3>2. link # "none" /\ ~Before("P")
      BY <1>0, <1>11 DEF Steps, Sides, Before
    <3> QED BY <1>0, <1>1, <2>6, <2>7, <3>1, <3>2, StepsKept
  <2>10. ToClient'
    <3>1. Open' => Open
      BY <1>1 DEF Open
    <3> QED BY <1>0, <1>1, <2>7, <3>1, ClientCalm
  <2>11. ToServer'
    <3>1. CASE link = "up"
      <4>1. m_proxysocket # "closed" => Pieces(payloads(u), h, f + k)
        BY <1>4, <1>11, <2>2, <2>3, <2>5, <3>1, ConcatPieces
      <4>2. m_proxysocket' # "closed" => Pieces(m_sendbuffer', g, h) /\ Pieces(payloads(wire["P"])', h, f + k)
        BY <1>1, <1>4, <2>7, <4>1 DEF payloads
      <4>3. h <= f + k
        BY <1>4, <1>6
      <4>4. ToServerAt(n, f + k, f + k, h, g)'
        BY <1>1, <1>4, <1>6, <1>7, <1>11, <4>2, <4>3 DEF ToServerAt
      <4> QED BY <1>6, <4>4 DEF ToServer
    <3>2. CASE link # "up"
      <4>1. m_proxysocket' # "closed" => Pieces(m_sendbuffer', g, h) /\ Pieces(payloads(wire["P"])', h, w)
        BY <1>1, <1>4, <2>5, <2>7, <3>2 DEF payloads
      <4>2. ToServerAt(n, f + k, w, h, g)'
        BY <1>1, <1>4, <1>6, <1>7, <1>9, <1>11, <3>2, <4>1 DEF ToServerAt
      <4> QED BY <1>6, <4>2 DEF ToServer
    <3> QED BY <3>1, <3>2
  <2> QED BY <2>8, <2>9, <2>10, <2>11 DEF PInv
<1> QED BY <1>10, <1>11

(* What an end answers when told "ready" *)
LEMMA ReplyIs ==
    ASSUME NEW e, NEW r, r = IF e = dialler THEN <<Msg("ready2")>> ELSE <<>>
    PROVE  /\ r \in Seq(Messages) /\ NoData(r) /\ OneReady(r) /\ (e # dialler => NoReady(r))
           /\ \A a \in Nat : Pieces(payloads(r), a, a)
<1>1. CASE e = dialler
  <2>1. Msg("ready2") \in Messages /\ Msg("ready2").data = <<>>
    BY DEF Msg, Messages, Types
  <2> QED BY <1>1, <2>1, QuietMessage
<1>2. CASE e # dialler
  <2>1. r = <<>>
    BY <1>2
  <2>2. <<>> \in Seq(Messages) /\ NoData(<<>>) /\ OneReady(<<>>) /\ NoReady(<<>>) /\ payloads(<<>>) = <<>>
    BY DEF NoData, OneReady, NoReady, payloads
  <2> QED BY <2>1, <2>2, PiecesNil
<1> QED BY <1>1, <1>2

(* The two wires after an end read one message and sent v *)
LEMMA ReadAndSent ==
    ASSUME TypesRight, NEW e \in Sides, NEW d \in Sides, d = Peer(e), wire[e] # <<>>, NEW v \in Seq(Messages),
           wire' = [wire EXCEPT ![e] = Tail(@), ![d] = Sends(e, @, v)]
    PROVE  /\ wire' \in [Sides -> Seq(Messages)] /\ wire[e] \in Seq(Messages) /\ wire[d] \in Seq(Messages)
           /\ (wire[e])' = Tail(wire[e]) /\ d # e
           /\ \/ link = "up" /\ at[e] \in {"linked", "ready"} /\ (wire[d])' = wire[d] \o v
              \/ ~(link = "up" /\ at[e] \in {"linked", "ready"}) /\ (wire[d])' = wire[d]
<1>1. wire[e] \in Seq(Messages) /\ wire[d] \in Seq(Messages) /\ d # e
  BY DEF TypesRight, Sides, Peer
<1>2. Tail(wire[e]) \in Seq(Messages)
  BY <1>1, TailMessages
<1>3. PICK u : u = Sends(e, wire[d], v)
  OBVIOUS
<1>4. \/ link = "up" /\ at[e] \in {"linked", "ready"} /\ u = wire[d] \o v
      \/ ~(link = "up" /\ at[e] \in {"linked", "ready"}) /\ u = wire[d]
  BY <1>1, <1>3, SendsIs
<1>5. u \in Seq(Messages)
  BY <1>1, <1>4, ConcatMessages
<1>6. wire' \in [Sides -> Seq(Messages)] /\ (wire[e])' = Tail(wire[e]) /\ (wire[d])' = u
  BY <1>1, <1>2, <1>3, <1>5 DEF TypesRight
<1> QED BY <1>1, <1>4, <1>6

LEMMA BecomeReadyPPInv ==
    ASSUME PInv, BecomeReady("P")
    PROVE  PInv'
<1>0. TypesRight /\ Steps /\ ToServer /\ ToClient
  BY DEF PInv
<1>1. /\ UNCHANGED <<dialler, link, m_psock, m_buf, fromClient, m_sendbuffer, m_dead, fromServer, sent, got, crashed>>
      /\ wire["P"] # <<>> /\ IsReady(Head(wire["P"])) /\ at["P"] \in {"linked", "finished"}
      /\ at' = [at EXCEPT !["P"] = IF @ = "linked" THEN "ready" ELSE @]
      /\ m_proxysocket' = "connecting"
  BY DEF BecomeReady, clientVars, IsReady
<1>2. PICK r : r = IF "P" = dialler THEN <<Msg("ready2")>> ELSE <<>>
  OBVIOUS
<1>3. /\ r \in Seq(Messages) /\ NoData(r) /\ OneReady(r) /\ \A a \in Nat : Pieces(payloads(r), a, a)
  BY <1>2, ReplyIs
<1>4. wire' = [wire EXCEPT !["P"] = Tail(@), !["L"] = Sends("P", @, r)]
  <2>1. r \o <<>> = r
    BY <1>3
  <2> QED BY <1>2, <2>1 DEF BecomeReady, Peer
<1>5. /\ wire' \in [Sides -> Seq(Messages)] /\ wire["P"] \in Seq(Messages) /\ wire["L"] \in Seq(Messages)
      /\ (wire["P"])' = Tail(wire["P"])
      /\ (wire["L"])' = wire["L"] \o r \/ (wire["L"])' = wire["L"]
  BY <1>0, <1>1, <1>3, <1>4, ReadAndSent DEF Sides, Peer
<1>6. /\ at' \in [Sides -> AtValues] /\ (at["L"])' = at["L"] /\ (at["P"])' \in {"ready", "finished"}
  BY <1>0, <1>1 DEF TypesRight, Sides, AtValues
<1>7. m_proxysocket = "none" /\ ~m_dead /\ NoReady(Tail(wire["P"]))
  <2>1. ~NoReady(wire["P"])
    BY <1>1, <1>5, TailMessages
  <2>2. m_proxysocket = "none" /\ OneReady(wire["P"])
    BY <1>0, <2>1 DEF Steps
  <2>3. ~m_dead
    BY <1>0, <2>2 DEF Steps
  <2>4. NoReady(Tail(wire["P"]))
    BY <1>1, <1>5, <2>2, TailMessages
  <2> QED BY <2>2, <2>3, <2>4
<1>8. TypesRight'
  BY <1>0, <1>1, <1>5, <1>6 DEF TypesRight
<1>9. Steps'
  <2>1. ~Before("P")' /\ link' # "none" /\ ~m_dead'
    BY <1>0, <1>1, <1>6, <1>7 DEF Before, Steps, Sides
  <2>2. ~(Before("L") \/ (dialler = "L" /\ at["L"] = "linked"))'
    <3>1. ~NoReady(wire["P"])
      BY <1>1, <1>5, TailMessages
    <3> QED BY <1>0, <1>1, <1>6, <3>1 DEF Steps, Before
  <2>3. NoReady(wire["P"])' /\ OneReady(wire["P"])'
    BY <1>5, <1>7 DEF NoReady, OneReady
  <2>4. (at["L"])' # "none" /\ (at["P"])' # "none" /\ m_psock' # "none"
    BY <1>0, <1>1, <1>6 DEF Steps
  <2> QED BY <2>1, <2>2, <2>3, <2>4 DEF Steps
<1>10. ToServer'
  <2>1. Head(wire["P"]).type # "data"
    BY <1>1 DEF IsReady
  <2>2. \A a, b : Pieces(payloads(wire["P"]), a, b) => Pieces(payloads((wire["P"])'), a, b)
    BY <1>1, <1>5, <2>1, QuietTail
  <2> QED BY <1>0, <1>1, <1>6, <1>7, <2>2, ServerCalm
<1>11. ToClient'
  <2>1. \A a, b : Pieces(payloads(wire["L"]), a, b) => Pieces(payloads((wire["L"])'), a, b)
    BY <1>3, <1>5, QuietConcat
  <2>2. ~Open'
    BY <1>1 DEF Open
  <2> QED BY <1>0, <1>1, <1>7, <2>1, <2>2, ClientCalm
<1> QED BY <1>8, <1>9, <1>10, <1>11 DEF PInv

LEMMA BecomeReadyLPInv ==
    ASSUME PInv, BecomeReady("L")
    PROVE  PInv'
<1>0. TypesRight /\ Steps /\ ToServer /\ ToClient
  BY DEF PInv
<1>1. /\ UNCHANGED <<dialler, link, m_psock, m_buf, fromClient, m_sendbuffer, m_dead, fromServer, sent, got, crashed>>
      /\ wire["L"] # <<>> /\ IsReady(Head(wire["L"])) /\ at["L"] \in {"linked", "finished"}
      /\ at' = [at EXCEPT !["L"] = IF @ = "linked" THEN "ready" ELSE @]
      /\ UNCHANGED m_proxysocket
  BY DEF BecomeReady, clientVars, IsReady
<1>2. PICK r : r = IF "L" = dialler THEN <<Msg("ready2")>> ELSE <<>>
  OBVIOUS
<1>3. PICK k : k = [i \in DOMAIN m_buf |-> Data(m_buf[i])]
  OBVIOUS
<1>4. r \in Seq(Messages) /\ OneReady(r) /\ ("L" # dialler => NoReady(r)) /\ \A a \in Nat : Pieces(payloads(r), a, a)
  BY <1>2, ReplyIs
<1>5. k \in Seq(Messages) /\ NoReady(k) /\ payloads(k) = m_buf
  <2>1. m_buf \in Seq(Reads)
    BY <1>0 DEF TypesRight
  <2> QED BY <1>3, <2>1, FlushMessages
<1>6. PICK v : v = r \o k
  OBVIOUS
<1>7. v \in Seq(Messages) /\ OneReady(v) /\ ("L" # dialler => NoReady(v))
  BY <1>4, <1>5, <1>6, ConcatMessages
<1>8. wire' = [wire EXCEPT !["L"] = Tail(@), !["P"] = Sends("L", @, v)]
  BY <1>2, <1>3, <1>6 DEF BecomeReady, Peer, Flushed
<1>9. /\ wire' \in [Sides -> Seq(Messages)] /\ wire["L"] \in Seq(Messages) /\ wire["P"] \in Seq(Messages)
      /\ (wire["L"])' = Tail(wire["L"])
      /\ \/ link = "up" /\ at["L"] = "linked" /\ (wire["P"])' = wire["P"] \o v
         \/ ~(link = "up" /\ at["L"] = "linked") /\ (wire["P"])' = wire["P"]
  <2>1. at["L"] # "ready"
    BY <1>1
  <2> QED BY <1>0, <1>1, <1>7, <1>8, <2>1, ReadAndSent DEF Sides, Peer
<1>10. /\ at' \in [Sides -> AtValues] /\ (at["P"])' = at["P"]
       /\ (at["L"])' = IF at["L"] = "linked" THEN "ready" ELSE "finished"
  BY <1>0, <1>1 DEF TypesRight, Sides, AtValues
<1>11. TypesRight'
  BY <1>0, <1>1, <1>9, <1>10 DEF TypesRight
<1>12. Steps'
  <2>1. ~Before("P")'
    <3>1. ~NoReady(wire["L"])
      BY <1>1, <1>9, TailMessages
    <3> QED BY <1>0, <1>10, <3>1 DEF Steps, Before
  <2>2. ~(Before("L") \/ (dialler = "L" /\ at["L"] = "linked"))'
    BY <1>10 DEF Before
  <2>3. link' # "none" /\ (at["L"])' # "none" /\ (at["P"])' # "none" /\ m_psock' # "none"
        /\ (m_dead' => m_proxysocket' = "closed")
    BY <1>0, <1>1, <1>10 DEF Steps, Sides
  <2>4. OneReady((wire["P"])') /\ (m_proxysocket # "none" => NoReady((wire["P"])'))
    <3>1. OneReady(wire["P"]) /\ (m_proxysocket # "none" => NoReady(wire["P"]))
      BY <1>0 DEF Steps
    <3>2. CASE (wire["P"])' = wire["P"]
      BY <3>1, <3>2
    <3>3. CASE at["L"] = "linked" /\ (wire["P"])' = wire["P"] \o v
      <4>1. CASE dialler = "L"
        <5>1. NoReady(wire["P"]) /\ m_proxysocket = "none"
          BY <1>0, <3>3, <4>1 DEF Steps
        <5> QED BY <1>7, <1>9, <3>3, <5>1, ConcatMessages
      <4>2. CASE dialler # "L"
        BY <1>7, <1>9, <3>1, <3>3, <4>2, ConcatMessages
      <4> QED BY <4>1, <4>2
    <3> QED BY <1>9, <3>2, <3>3
  <2>5. OneReady(wire["P"])' /\ (m_proxysocket' # "none" => NoReady(wire["P"])')
    BY <1>1, <2>4 DEF OneReady, NoReady
  <2> QED BY <2>1, <2>2, <2>3, <2>5 DEF Steps
<1>13. ToServer'
  <2>1. CASE link = "up" /\ at["L"] = "linked"
    <3>1. PICK n, f, w, h, g \in Nat : ToServerAt(n, f, w, h, g)
      BY <1>0 DEF ToServer
    <3>2. /\ g <= h /\ h <= w /\ w <= f /\ f <= n /\ sent["client"] = Run(0, n) /\ fromClient = Run(f, n)
          /\ got["server"] = Run(0, g) /\ w = 0 /\ Pieces(m_buf, 0, f)
          /\ (m_proxysocket # "closed" => Pieces(m_sendbuffer, g, h) /\ Pieces(payloads(wire["P"]), h, w))
          /\ (m_proxysocket = "open" => m_sendbuffer = <<>>)
      BY <2>1, <3>1 DEF ToServerAt
    <3>3. Pieces(payloads(v), 0, f)
      <4>1. 0 \in Nat
        OBVIOUS
      <4>2. Pieces(payloads(r), 0, 0) /\ Pieces(payloads(k), 0, f)
        BY <1>4, <1>5, <3>2, <4>1
      <4> QED BY <1>4, <1>5, <1>6, <4>2, ConcatPieces
    <3>4. (wire["P"])' = wire["P"] \o v
      BY <1>9, <2>1
    <3>5. m_proxysocket # "closed" => Pieces(payloads(wire["P"] \o v), h, f)
      BY <1>7, <1>9, <3>2, <3>3, ConcatPieces
    <3>6. m_proxysocket' # "closed" => Pieces(m_sendbuffer', g, h) /\ Pieces(payloads(wire["P"])', h, f)
      BY <1>1, <3>2, <3>4, <3>5 DEF payloads
    <3>7. h <= f /\ (at["L"])' = "ready"
      BY <1>10, <2>1, <3>2
    <3>8. ToServerAt(n, f, f, h, g)'
      BY <1>1, <3>2, <3>6, <3>7 DEF ToServerAt
    <3> QED BY <3>8 DEF ToServer
  <2>2. CASE ~(link = "up" /\ at["L"] = "linked")
    <3>1. (wire["P"])' = wire["P"]
      BY <1>9, <2>2
    <3>2. (at["L"])' \notin Early /\ ((at["L"])' = "ready" => link' # "up")
      BY <1>1, <1>10, <2>2 DEF Early
    <3> QED BY <1>0, <1>1, <3>1, <3>2, ServerCalm
  <2> QED BY <2>1, <2>2
<1>14. ToClient'
  <2>1. Head(wire["L"]).type # "data"
    BY <1>1 DEF IsReady
  <2>2. \A a, b : Pieces(payloads(wire["L"]), a, b) => Pieces(payloads((wire["L"])'), a, b)
    BY <1>1, <1>9, <2>1, QuietTail
  <2>3. Open' => Open
    BY <1>1, <1>10 DEF Open
  <2> QED BY <1>0, <1>1, <2>2, <2>3, ClientCalm
<1> QED BY <1>11, <1>12, <1>13, <1>14 DEF PInv

LEMMA NextPInv ==
    ASSUME PInv, [Next]_vars
    PROVE  PInv'
<1>1. CASE UNCHANGED proxyVars
  <2>1. UNCHANGED <<dialler, at, link, wire, m_psock, m_buf, fromClient, m_proxysocket, m_sendbuffer, m_dead,
                    fromServer, sent, got, crashed>>
    BY <1>1 DEF proxyVars, clientVars, serverVars
  <2>2. TypesRight /\ Steps /\ ToServer /\ ToClient
    BY DEF PInv
  <2>3. TypesRight'
    BY <2>1, <2>2 DEF TypesRight
  <2>4. Steps'
    BY <2>1, <2>2, StepsKept
  <2>5. ToServer'
    BY <2>1, <2>2, ServerCalm
  <2>6. ToClient'
    <3>1. Open' => Open
      BY <2>1 DEF Open
    <3> QED BY <2>1, <2>2, <3>1, ClientCalm
  <2> QED BY <2>3, <2>4, <2>5, <2>6 DEF PInv
<1>2. CASE Relays
  <2>1. ASSUME NEW e \in Sides, BecomeReady(e) PROVE PInv'
    <3>1. e = "L" \/ e = "P"
      BY DEF Sides
    <3> QED BY <2>1, <3>1, BecomeReadyLPInv, BecomeReadyPPInv
  <2> QED BY <1>2, <2>1, SocketConnectedPInv, TakeSocketPInv, HandleMsgLPInv, HandleMsgPPInv, ProxyReadyReadLPInv,
             ProxyReadyReadPPInv, ProxyConnectedPInv, CalmPInv DEF Relays
<1>3. CASE Disturbs
  BY <1>3, ClientWritesPInv, ServerWritesPInv, CalmPInv DEF Disturbs
<1>4. CASE IncomingClient
  BY <1>4, CalmPInv
<1> QED BY <1>1, <1>2, <1>3, <1>4 DEF Next, vars, CreateDaapListener, ListenerShutdown, Accept, RelayStep, DisturbStep, BonjourStep

LEMMA SessionHolds == Spec => []PInv
BY InitPInv, NextPInv, PTL DEF Spec

(* L and P together do only what a Pipe does, for TunnelIsPipe but its     *)
(* fairness.                                                                 *)
TunnelSafe == Tunnel!Init /\ [][Tunnel!Next]_(Tunnel!vars)

(* Each end has got the first bytes of what the other wrote. *)
Due(e, d) == \E g, n \in Nat : g <= n /\ got[e] = Run(0, g) /\ sent[d] = Run(0, n)
LEMMA PInvDue == PInv => Due("server", "client") /\ Due("client", "server")
<1> SUFFICES ASSUME PInv
             PROVE  Due("server", "client") /\ Due("client", "server")
  OBVIOUS
<1>1. Due("server", "client")
  <2>1. PICK n, f, w, h, g \in Nat : ToServerAt(n, f, w, h, g)
    BY DEF PInv, ToServer
  <2>2. g <= n /\ got["server"] = Run(0, g) /\ sent["client"] = Run(0, n)
    BY <2>1 DEF ToServerAt
  <2> QED BY <2>2 DEF Due
<1>2. Due("client", "server")
  <2>1. PICK n, f, w, g \in Nat : ToClientAt(n, f, w, g)
    BY DEF PInv, ToClient
  <2>2. g <= n /\ got["client"] = Run(0, g) /\ sent["server"] = Run(0, n)
    BY <2>1 DEF ToClientAt
  <2> QED BY <2>2 DEF Due
<1> QED BY <1>1, <1>2

(* Handing over some bytes is to read what is due. *)
LEMMA ReadStep ==
    ASSUME TypesRight, NEW e \in {"client", "server"}, NEW d \in {"client", "server"}, d = Tunnel!Other(e),
           Due(e, d), Due(e, d)', NEW b \in Seq(Nat), b # <<>>,
           got' = [got EXCEPT ![e] = @ \o b], UNCHANGED <<sent, Healthy>>
    PROVE  Tunnel!Read(e)
<1>1. PICK g, n \in Nat : g <= n /\ got[e] = Run(0, g) /\ sent[d] = Run(0, n)
  BY DEF Due
<1>2. PICK h, m \in Nat : h <= m /\ (got[e])' = Run(0, h) /\ (sent[d])' = Run(0, m)
  BY DEF Due
<1>3. 0 \in Nat /\ 0 <= g /\ 0 <= n /\ 0 <= h /\ 0 <= m
  OBVIOUS
<1>4. /\ Len(Run(0, g)) = g /\ Len(Run(0, n)) = n /\ Len(Run(0, h)) = h /\ Len(Run(0, m)) = m
      /\ Run(0, g) \in Seq(Nat)
  <2>1. Len(Run(0, g)) = g - 0 /\ Len(Run(0, n)) = n - 0 /\ Len(Run(0, h)) = h - 0 /\ Len(Run(0, m)) = m - 0
    BY <1>3, RunIs
  <2>2. Run(0, g) \in Seq(Nat)
    BY <1>3, RunIs
  <2> QED BY <2>1, <2>2
<1>5. m = n
  <2>1. (sent[d])' = sent[d]
    OBVIOUS
  <2> QED BY <1>1, <1>2, <1>4, <2>1
<1>6. (got[e])' = got[e] \o b
  BY DEF TypesRight
<1>7. g < h
  <2>1. \A s, t \in Seq(Nat) : Len(s \o t) = Len(s) + Len(t) /\ (t # <<>> => Len(t) \in Nat /\ Len(t) > 0)
    OBVIOUS
  <2>2. Len((got[e])') = g + Len(b) /\ Len(b) \in Nat /\ Len(b) > 0
    BY <1>1, <1>4, <1>6, <2>1
  <2>3. Len((got[e])') = h
    BY <1>2, <1>4
  <2> QED BY <2>2, <2>3
<1>8. SubSeq(sent[d], 1, h) = Run(0, h)
  <2>1. 0 + h <= n /\ 0 + h = h
    BY <1>2, <1>5
  <2>2. SubSeq(Run(0, n), 1, h) = Run(0, 0 + h)
    BY <1>3, <2>1, RunTake
  <2> QED BY <1>1, <2>1, <2>2
<1>9. h \in Len(got[e]) + 1 .. Len(sent[d])
  BY <1>1, <1>2, <1>4, <1>5, <1>7
<1>10. got' = [got EXCEPT ![e] = SubSeq(sent[d], 1, h)]
  <2>1. got[e] \o b = SubSeq(sent[d], 1, h)
    BY <1>2, <1>6, <1>8
  <2> QED BY <2>1
<1> QED BY <1>9, <1>10 DEF Tunnel!Read

(* A step of no end is nothing, or the break. *)
LEMMA BreakStep ==
    ASSUME UNCHANGED <<sent, got>>, Healthy' => Healthy
    PROVE  [Tunnel!Next]_(Tunnel!vars)
<1>1. CASE Healthy /\ ~Healthy'
  <2>1. Healthy' = FALSE
    BY <1>1
  <2> QED BY <1>1, <2>1 DEF Tunnel!Next, Tunnel!Break
<1>2. CASE ~(Healthy /\ ~Healthy')
  <2>1. Healthy' = Healthy
    BY <1>2 DEF Healthy
  <2> QED BY <2>1 DEF Tunnel!vars
<1> QED BY <1>1, <1>2

LEMMA RelaysTunnel ==
    ASSUME PInv, PInv', Relays
    PROVE  [Tunnel!Next]_(Tunnel!vars)
<1>0. /\ TypesRight /\ Due("server", "client") /\ Due("client", "server")
      /\ Due("server", "client")' /\ Due("client", "server")'
  <2>1. Due("server", "client") /\ Due("client", "server")
    BY PInvDue
  <2>2. (Due("server", "client") /\ Due("client", "server"))'
    BY PInvDue, PTL
  <2> QED BY <2>1, <2>2 DEF PInv
<1>1. CASE \/ SocketConnected \/ TakeSocket \/ ProxyReadyReadL \/ ProxyReadyReadP
           \/ \E e \in Sides : BecomeReady(e) \/ Disconnected(e) \/ DeferredDelete(e)
  <2>1. UNCHANGED <<sent, got>>
    BY <1>1 DEF SocketConnected, TakeSocket, ProxyReadyReadL, ProxyReadyReadP, BecomeReady, Disconnected, DeferredDelete
  <2>2. UNCHANGED crashed
    BY <1>1 DEF SocketConnected, TakeSocket, ProxyReadyReadL, ProxyReadyReadP, BecomeReady, Disconnected, DeferredDelete
  <2>3. (m_psock = "closed" => m_psock' = "closed") /\ (link = "broken" => link' = "broken")
    BY <1>1 DEF SocketConnected, TakeSocket, ProxyReadyReadL, ProxyReadyReadP, BecomeReady, Disconnected, DeferredDelete,
                Closes, clientVars
  <2>4. m_proxysocket = "closed" => m_proxysocket' = "closed"
    <3>1. ASSUME BecomeReady("P"), m_proxysocket = "closed" PROVE FALSE
      <4>1. wire["P"] \in Seq(Messages) /\ wire["P"] # <<>> /\ IsReady(Head(wire["P"]))
        BY <1>0, <3>1, WireIs DEF BecomeReady, IsReady
      <4>2. ~NoReady(wire["P"])
        BY <4>1, TailMessages
      <4> QED BY <3>1, <4>2 DEF PInv, Steps
    <3> QED BY <1>1, <3>1 DEF SocketConnected, TakeSocket, ProxyReadyReadL, ProxyReadyReadP, BecomeReady, Disconnected,
                    DeferredDelete, Closes, serverVars
  <2>5. Healthy' => Healthy
    BY <2>2, <2>3, <2>4 DEF Healthy
  <2> QED BY <2>1, <2>5, BreakStep
<1>2. CASE HandleMsgL
  <2>1. UNCHANGED <<sent, Healthy>>
    BY <1>2 DEF HandleMsgL, clientVars, serverVars, Healthy
  <2>2. wire["L"] \in Seq(Messages) /\ wire["L"] # <<>> /\ Head(wire["L"]).type = "data"
    BY <1>0, <1>2, WireIs DEF HandleMsgL
  <2>3. Head(wire["L"]).data \in Seq(Nat) /\ Head(wire["L"]).data # <<>>
    BY <2>2, TailMessages DEF Messages
  <2>4. CASE m_psock = "open"
    <3>1. got' = [got EXCEPT !["client"] = @ \o Head(wire["L"]).data]
      BY <1>2, <2>4 DEF HandleMsgL
    <3>2. Tunnel!Read("client")
      BY <1>0, <2>1, <2>3, <3>1, ReadStep DEF Tunnel!Other
    <3> QED BY <3>2 DEF Tunnel!Next, Tunnel!Ends
  <2>5. CASE m_psock # "open"
    <3>1. got' = got
      BY <1>2, <2>5 DEF HandleMsgL
    <3> QED BY <2>1, <3>1 DEF Tunnel!vars
  <2> QED BY <2>4, <2>5
<1>3. CASE HandleMsgP
  <2>1. UNCHANGED sent
    BY <1>3 DEF HandleMsgP
  <2>2. wire["P"] \in Seq(Messages) /\ wire["P"] # <<>> /\ Head(wire["P"]).type = "data"
    BY <1>0, <1>3, WireIs DEF HandleMsgP
  <2>3. Head(wire["P"]).data \in Seq(Nat) /\ Head(wire["P"]).data # <<>>
    BY <2>2, TailMessages DEF Messages
  <2>4. CASE m_proxysocket = "open"
    <3>1. got' = [got EXCEPT !["server"] = @ \o Head(wire["P"]).data]
      BY <1>3, <2>4 DEF HandleMsgP
    <3>2. ~m_dead
      BY <2>4 DEF PInv, Steps
    <3>3. UNCHANGED Healthy
      BY <1>3, <3>2 DEF HandleMsgP, clientVars, Healthy
    <3>4. Tunnel!Read("server")
      BY <1>0, <2>1, <2>3, <3>1, <3>3, ReadStep DEF Tunnel!Other
    <3> QED BY <3>4 DEF Tunnel!Next, Tunnel!Ends
  <2>5. CASE m_proxysocket # "open"
    <3>1. got' = got
      BY <1>3, <2>5 DEF HandleMsgP
    <3>2. Healthy' => Healthy
      BY <1>3 DEF HandleMsgP, clientVars, Healthy
    <3> QED BY <2>1, <3>1, <3>2, BreakStep
  <2> QED BY <2>4, <2>5
<1>4. CASE ProxyConnected
  <2>1. UNCHANGED <<sent, Healthy>>
    BY <1>4 DEF ProxyConnected, clientVars, Healthy
  <2>2. PICK b : b = FlattenSeq(m_sendbuffer)
    OBVIOUS
  <2>3. got' = [got EXCEPT !["server"] = @ \o b]
    BY <1>4, <2>2 DEF ProxyConnected
  <2>4. b \in Seq(Nat)
    <3>1. PICK n, f, w, h, g \in Nat : ToServerAt(n, f, w, h, g)
      BY DEF PInv, ToServer
    <3>2. g <= h /\ Pieces(m_sendbuffer, g, h)
      BY <1>4, <3>1 DEF ToServerAt, ProxyConnected
    <3>3. m_sendbuffer \in Seq(Seq(Nat))
      <4>1. \A r \in Reads : r \in Seq(Nat)
        BY DEF Reads
      <4>2. m_sendbuffer \in Seq(Reads)
        BY <1>0 DEF TypesRight
      <4> QED BY <4>1, <4>2
    <3> QED BY <2>2, <3>2, <3>3, FlattenPieces, RunIs
  <2>5. CASE b # <<>>
    <3>1. Tunnel!Read("server")
      BY <1>0, <2>1, <2>3, <2>4, <2>5, ReadStep DEF Tunnel!Other
    <3> QED BY <3>1 DEF Tunnel!Next, Tunnel!Ends
  <2>6. CASE b = <<>>
    <3>1. \A s \in Seq(Nat) : s \o <<>> = s
      OBVIOUS
    <3>2. got["server"] \o b = got["server"]
      BY <1>0, <2>6, <3>1 DEF TypesRight
    <3>3. got' = got
      BY <1>0, <2>3, <3>2 DEF TypesRight
    <3> QED BY <2>1, <3>3 DEF Tunnel!vars
  <2> QED BY <2>5, <2>6
<1> QED BY <1>1, <1>2, <1>3, <1>4 DEF Relays

LEMMA DisturbsTunnel ==
    ASSUME PInv, Disturbs
    PROVE  [Tunnel!Next]_(Tunnel!vars)
<1>1. CASE \/ ClientLeaves \/ ServerCloses \/ SocketError \/ BreakLink \/ ProxyRefused
  <2>1. UNCHANGED <<sent, got>>
    BY <1>1 DEF ClientLeaves, ServerCloses, SocketError, BreakLink, ProxyRefused
  <2>2. Healthy' => Healthy
    BY <1>1 DEF ClientLeaves, ServerCloses, SocketError, BreakLink, ProxyRefused, Healthy, clientVars, serverVars, Disturbs
  <2> QED BY <2>1, <2>2, BreakStep
<1>2. ASSUME NEW e \in {"client", "server"}, Len(sent[e]) < MaxSent, UNCHANGED <<got, Healthy>>,
             sent' = [sent EXCEPT ![e] = Append(@, Len(sent[e]) + 1)]
      PROVE  [Tunnel!Next]_(Tunnel!vars)
  <2>1. Len(sent[e]) \in Nat
    BY DEF PInv, TypesRight
  <2>2. Len(sent[e]) + 1 \in 1..MaxSent
    BY <1>2, <2>1, ProxyAssumption
  <2>3. Tunnel!Write(e)
    BY <1>2, <2>2 DEF Tunnel!Write
  <2> QED BY <2>3 DEF Tunnel!Next, Tunnel!Ends
<1>3. CASE ClientWrites
  <2>1. UNCHANGED <<got, Healthy>> /\ Len(sent["client"]) < MaxSent
        /\ sent' = [sent EXCEPT !["client"] = Append(@, Len(sent["client"]) + 1)]
    BY <1>3 DEF ClientWrites, serverVars, Healthy
  <2> QED BY <1>2, <2>1
<1>4. CASE ServerWrites
  <2>1. UNCHANGED <<got, Healthy>> /\ Len(sent["server"]) < MaxSent
        /\ sent' = [sent EXCEPT !["server"] = Append(@, Len(sent["server"]) + 1)]
    BY <1>4 DEF ServerWrites, clientVars, Healthy
  <2> QED BY <1>2, <2>1
<1> QED BY <1>1, <1>3, <1>4 DEF Disturbs

LEMMA NextTunnel == PInv /\ PInv' /\ [Next]_vars => [Tunnel!Next]_(Tunnel!vars)
<1> SUFFICES ASSUME PInv, PInv', [Next]_vars PROVE [Tunnel!Next]_(Tunnel!vars)
  OBVIOUS
<1>1. CASE UNCHANGED proxyVars
  <2>1. UNCHANGED <<sent, got, Healthy>>
    BY <1>1 DEF proxyVars, clientVars, serverVars, Healthy
  <2> QED BY <2>1 DEF Tunnel!vars
<1>2. CASE IncomingClient
  <2>1. m_psock = "none"
    BY <1>2 DEF IncomingClient, PInv, Steps
  <2>2. UNCHANGED <<sent, got, Healthy>>
    BY <1>2, <2>1 DEF IncomingClient, serverVars, Healthy
  <2> QED BY <2>2 DEF Tunnel!vars
<1>3. CASE Relays
  BY <1>3, RelaysTunnel
<1>4. CASE Disturbs
  BY <1>4, DisturbsTunnel
<1> QED BY <1>1, <1>2, <1>3, <1>4 DEF Next, vars, CreateDaapListener, ListenerShutdown, Accept, RelayStep, DisturbStep, BonjourStep

LEMMA InitTunnel == Init => Tunnel!Init
<1> SUFFICES ASSUME Init PROVE Tunnel!Init
  OBVIOUS
<1>1. InitProxy
  BY DEF Init
<1>2. Healthy = TRUE
  BY <1>1 DEF InitProxy, Healthy
<1> QED BY <1>1, <1>2 DEF InitProxy, Tunnel!Init, Tunnel!Ends

(* However much client and server write, wherever it is cut into reads and     *)
(* whenever something fails, each gets what the other wrote, in order and once *)
(* (ProxyConnectionListener::proxyReadyRead and flushBuffer keep and send what *)
(* came early, ProxyConnection::handleMsg and proxyConnected likewise), and    *)
(* what broke stays broken.                                                  *)
THEOREM TunnelRelays == Spec => TunnelSafe
BY InitTunnel, NextTunnel, SessionHolds, PTL DEF Spec, TunnelSafe
=============================================================================
