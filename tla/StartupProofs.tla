----------------------------- MODULE StartupProofs -----------------------------
(***************************************************************************)
(* That the command line means what GetOpt::parse leaves of it, that       *)
(* conjist::setup makes a host visible only as its gateway forwards, and   *)
(* that its login is in order.                                             *)
(*                                                                         *)
(* The first part shows that the recursive functions Spread and the one    *)
(* in FlattenSeq are what they are defined as: for arguments attached to   *)
(* each other to any depth, and command lines of any length.  The second   *)
(* has the invariant OInv of the parser, the third GInv of the choice of   *)
(* the gateway and what setup() makes of the two, and the last XInv of     *)
(* the login, element by element of each read.                             *)
(***************************************************************************)
EXTENDS Startup, FiniteSetTheorems, TLAPS, NaturalsInduction, WellFoundedInduction

(* Every set of numbers has a least one. *)
LEMMA Least ==
  ASSUME NEW T \in SUBSET Nat, T # {}
  PROVE  \E x \in T : \A y \in T : x <= y
<1> DEFINE R == {p \in Nat \X Nat : p[1] < p[2]}
<1>1. IsWellFoundedOn(OpToRel(<, Nat), Nat)
  BY NatLessThanWellFounded
<1>2. OpToRel(<, Nat) = R
  BY DEF OpToRel
<1>3. IsWellFoundedOn(R, Nat)
  BY <1>1, <1>2
<1>4. \E x \in T : \A y \in T : ~(<<y, x>> \in R)
  <2> HIDE DEF R
  <2> QED BY <1>3, WFMin
<1>5. ASSUME NEW x \in T, NEW y \in T, ~(<<y, x>> \in R)
      PROVE  x <= y
  <2>1. x \in Nat /\ y \in Nat /\ <<y, x>> \in Nat \X Nat
    OBVIOUS
  <2>2. ~(y < x)
    BY <1>5, <2>1
  <2> QED BY <2>1, <2>2
<1> HIDE DEF R
<1> QED BY <1>4, <1>5

(* What holds of 0 and goes from each number to the next holds up to n. *)
LEMMA UpTo ==
  ASSUME NEW n \in Nat, NEW T \in SUBSET (0..n), 0 \in T, \A k \in T : k < n => k + 1 \in T
  PROVE  T = 0..n
<1> SUFFICES ASSUME T # 0..n
             PROVE  FALSE
  OBVIOUS
<1>1. PICK k \in (0..n) \ T : \A j \in (0..n) \ T : k <= j
  <2>1. (0..n) \ T \in SUBSET Nat
    OBVIOUS
  <2>2. (0..n) \ T # {}
    BY Zenon
  <2> QED BY <2>1, <2>2, Least
<1>2. k - 1 \in T /\ k - 1 < n
  BY <1>1
<1> QED BY <1>1, <1>2


-----------------------------------------------------------------------------
(* Spread and Flat are defined *)

(* Spread, for arguments shorter than k; g is one such function. *)
Shorter(k) == {a \in Arguments : Length(a) < k}
Spreads(g, k) ==
    g = [a \in Shorter(k) |-> IF a.more = None THEN <<a>> ELSE <<a>> \o g[a.more]]

(* There is one for each length, *)
LEMMA SpreadsExists ==
  ASSUME NEW k \in Nat
  PROVE  \E g : Spreads(g, k)
<1> DEFINE T == {i \in Nat : ~\E g : Spreads(g, i)}
<1> SUFFICES ASSUME T # {}
             PROVE  FALSE
  OBVIOUS
<1>1. PICK i \in T : \A j \in T : i <= j
  <2>1. T \in SUBSET Nat
    OBVIOUS
  <2> HIDE DEF T
  <2> QED BY <2>1, Least
<1>2. CASE i = 0
  <2>1. Shorter(0) = {}
    BY OptionsAssumption DEF Shorter
  <2> DEFINE e == [a \in Shorter(0) |-> <<>>]
  <2>2. Spreads(e, 0)
    BY <2>1 DEF Spreads
  <2> QED BY <1>2, <2>2
<1>3. CASE i # 0
  <2>1. i - 1 \in Nat /\ i - 1 \notin T
    BY <1>1, <1>3
  <2>2. PICK h : Spreads(h, i - 1)
    BY <2>1
  <2> DEFINE g == [a \in Shorter(i) |-> IF a.more = None THEN <<a>> ELSE <<a>> \o h[a.more]]
  <2>3. ASSUME NEW a \in Shorter(i), a.more # None
        PROVE  a.more \in Shorter(i - 1) /\ a.more \in Shorter(i)
    BY <2>1, <2>3, OptionsAssumption DEF Shorter
  <2>4. ASSUME NEW a \in Shorter(i - 1)
        PROVE  a \in Shorter(i) /\ h[a] = g[a]
    <3>1. a \in Shorter(i)
      BY <2>1, OptionsAssumption DEF Shorter
    <3>2. h[a] = IF a.more = None THEN <<a>> ELSE <<a>> \o h[a.more]
      BY <2>2 DEF Spreads
    <3> QED BY <3>1, <3>2
  <2>5. \A a \in Shorter(i) : a.more # None => g[a.more] = h[a.more]
    <3> HIDE DEF g
    <3> QED BY <2>3, <2>4
  <2>6. g = [a \in Shorter(i) |-> IF a.more = None THEN <<a>> ELSE <<a>> \o g[a.more]]
    BY <2>5
  <2> HIDE DEF g
  <2>7. Spreads(g, i)
    BY <2>6 DEF Spreads
  <2> QED BY <2>7
<1> QED BY <1>2, <1>3

(* and any two agree. *)
LEMMA SpreadsUnique ==
  ASSUME NEW k \in Nat, NEW m \in Nat, NEW g, NEW h, Spreads(g, k), Spreads(h, m),
         NEW a \in Shorter(k), a \in Shorter(m)
  PROVE  g[a] = h[a]
<1> DEFINE D == {b \in Shorter(k) \cap Shorter(m) : g[b] # h[b]}
           L == {Length(b) : b \in D}
<1> SUFFICES ASSUME D # {}
             PROVE  FALSE
  OBVIOUS
<1>1. PICK b \in D : \A c \in D : Length(b) <= Length(c)
  <2>1. L \in SUBSET Nat /\ L # {}
    BY OptionsAssumption DEF Shorter
  <2>2. PICK x \in L : \A y \in L : x <= y
    <3> HIDE DEF L
    <3> QED BY <2>1, Least
  <2> QED BY <2>2
<1>2. b \in Arguments /\ g[b] # h[b]
      /\ g[b] = (IF b.more = None THEN <<b>> ELSE <<b>> \o g[b.more])
      /\ h[b] = (IF b.more = None THEN <<b>> ELSE <<b>> \o h[b.more])
  BY DEF Spreads, Shorter
<1>3. b.more # None /\ b.more \in Arguments /\ Length(b.more) < Length(b) /\ Length(b.more) \in Nat
      /\ Length(b) \in Nat
  BY <1>2, OptionsAssumption
<1>4. b.more \in Shorter(k) \cap Shorter(m)
  BY <1>3 DEF Shorter
<1>5. b.more \notin D
  BY <1>1, <1>3
<1> QED BY <1>2, <1>3, <1>4, <1>5

(* So Spread is defined by its own equation. *)
LEMMA SpreadIs ==
  ASSUME NEW a \in Arguments
  PROVE  Spread[a] = IF a.more = None THEN <<a>> ELSE <<a>> \o Spread[a.more]
<1> DEFINE G(b) == CHOOSE g : Spreads(g, Length(b) + 1)
           s == [b \in Arguments |-> G(b)[b]]
           Is(f) == f = [b \in Arguments |-> IF b.more = None THEN <<b>> ELSE <<b>> \o f[b.more]]
<1>1. ASSUME NEW b \in Arguments
      PROVE  /\ Length(b) + 1 \in Nat /\ Spreads(G(b), Length(b) + 1)
             /\ b \in Shorter(Length(b) + 1)
  <2>1. Length(b) + 1 \in Nat /\ b \in Shorter(Length(b) + 1)
    BY OptionsAssumption DEF Shorter
  <2> QED BY <2>1, SpreadsExists
<1>2. ASSUME NEW b \in Arguments
      PROVE  s[b] = IF b.more = None THEN <<b>> ELSE <<b>> \o s[b.more]
  <2>1. s[b] = IF b.more = None THEN <<b>> ELSE <<b>> \o G(b)[b.more]
    <3> HIDE DEF G
    <3>1. G(b)[b] = IF b.more = None THEN <<b>> ELSE <<b>> \o G(b)[b.more]
      BY <1>1 DEF Spreads
    <3> QED BY <3>1
  <2>2. ASSUME b.more # None
        PROVE  G(b)[b.more] = s[b.more]
    <3>1. b.more \in Arguments /\ b.more \in Shorter(Length(b) + 1)
      BY <2>2, OptionsAssumption DEF Shorter
    <3> HIDE DEF G
    <3>2. G(b)[b.more] = G(b.more)[b.more]
      BY <1>1, <3>1, SpreadsUnique
    <3> QED BY <3>1, <3>2
  <2> HIDE DEF s, G
  <2> QED BY <2>1, <2>2
<1>3. Is(s)
  <2>1. s = [b \in Arguments |-> s[b]]
    OBVIOUS
  <2> HIDE DEF s
  <2> QED BY <1>2, <2>1
<1>4. Is(CHOOSE f : Is(f))
  <2> HIDE DEF Is, s
  <2> QED BY <1>3
<1>5. Spread = CHOOSE f : Is(f)
  BY DEF Spread
<1>6. Is(Spread)
  <2> HIDE DEF Is
  <2> QED BY <1>4, <1>5
<1> QED BY <1>6

(* An argument spreads to arguments. *)
LEMMA SpreadType ==
  ASSUME NEW a \in Arguments
  PROVE  Spread[a] \in Seq(Arguments)
<1> DEFINE D == {b \in Arguments : Spread[b] \notin Seq(Arguments)}
           L == {Length(b) : b \in D}
<1> SUFFICES ASSUME D # {}
             PROVE  FALSE
  OBVIOUS
<1>1. PICK b \in D : \A c \in D : Length(b) <= Length(c)
  <2>1. L \in SUBSET Nat /\ L # {}
    BY OptionsAssumption
  <2>2. PICK x \in L : \A y \in L : x <= y
    <3> HIDE DEF L
    <3> QED BY <2>1, Least
  <2> QED BY <2>2
<1>2. Spread[b] = IF b.more = None THEN <<b>> ELSE <<b>> \o Spread[b.more]
  BY SpreadIs
<1>3. CASE b.more = None
  <2>1. <<b>> \in Seq(Arguments)
    OBVIOUS
  <2> QED BY <1>2, <1>3, <2>1
<1>4. CASE b.more # None
  <2>1. b.more \in Arguments /\ Length(b.more) < Length(b) /\ Length(b.more) \in Nat /\ Length(b) \in Nat
    BY <1>4, OptionsAssumption
  <2>2. Spread[b.more] \in Seq(Arguments)
    BY <1>1, <2>1
  <2>3. <<b>> \o Spread[b.more] \in Seq(Arguments)
    BY <2>2
  <2> QED BY <1>2, <1>4, <2>3
<1> QED BY <1>3, <1>4

(* The function that FlattenSeq is defined by, for the first n of q. *)
Flattens(g, n, q) == g = [i \in 1..n |-> IF i = 1 THEN q[i] ELSE g[i - 1] \o q[i]]

(* There is one, *)
LEMMA FlattensExists ==
  ASSUME NEW n \in Nat, NEW q
  PROVE  \E g : Flattens(g, n, q)
<1> DEFINE T == {k \in 0..n : \E g : Flattens(g, k, q)}
<1>1. 0 \in T
  <2> DEFINE e == [i \in 1..0 |-> <<>>]
  <2>1. Flattens(e, 0, q)
    BY DEF Flattens
  <2>2. 0 \in 0..n
    OBVIOUS
  <2> QED BY <2>1, <2>2
<1>2. ASSUME NEW k \in T, k < n
      PROVE  k + 1 \in T
  <2>0. k \in Nat /\ k + 1 \in 0..n
    BY <1>2
  <2>1. PICK h : Flattens(h, k, q)
    OBVIOUS
  <2> DEFINE g == [i \in 1..(k + 1) |-> IF i = 1 THEN q[i] ELSE h[i - 1] \o q[i]]
  <2>2. \A i \in 1..(k + 1) : i # 1 => i - 1 \in 1..k /\ i - 1 \in 1..(k + 1)
    BY <2>0
  <2>3. \A i \in 1..k : h[i] = g[i]
    <3> TAKE i \in 1..k
    <3>1. i \in 1..(k + 1)
      BY <2>0
    <3>2. h[i] = IF i = 1 THEN q[i] ELSE h[i - 1] \o q[i]
      BY <2>1 DEF Flattens
    <3> QED BY <3>1, <3>2
  <2>4. \A i \in 1..(k + 1) : i # 1 => g[i - 1] = h[i - 1]
    <3> HIDE DEF g
    <3> QED BY <2>2, <2>3
  <2>5. g = [i \in 1..(k + 1) |-> IF i = 1 THEN q[i] ELSE g[i - 1] \o q[i]]
    BY <2>4
  <2> HIDE DEF g
  <2>6. Flattens(g, k + 1, q)
    BY <2>5 DEF Flattens
  <2> QED BY <2>0, <2>6
<1>3. T \in SUBSET (0..n)
  OBVIOUS
<1>4. n \in T
  <2> HIDE DEF T
  <2>1. T = 0..n
    BY <1>1, <1>2, <1>3, UpTo
  <2> QED BY <2>1
<1> QED BY <1>4

(* and FlattenSeq is what it comes to at the end. *)
LEMMA FlattenSeqIs ==
  ASSUME NEW A, NEW q \in Seq(Seq(A)), Len(q) # 0
  PROVE  \E f : /\ FlattenSeq(q) = f[Len(q)] /\ f[1] = q[1]
                /\ \A i \in 2..Len(q) : f[i] = f[i - 1] \o q[i]
                /\ \A i \in 1..Len(q) : f[i] \in Seq(A)
<1> DEFINE n == Len(q)
           Is(g) == g = [i \in 1..n |-> IF i = 1 THEN q[i] ELSE g[i - 1] \o q[i]]
           f == CHOOSE g : Is(g)
           T == {k \in 0..n : k = 0 \/ f[k] \in Seq(A)}
<1>1. n \in Nat /\ n # 0 /\ \A i \in 1..n : q[i] \in Seq(A)
  OBVIOUS
<1>2. Is(f)
  <2>1. \E g : Is(g)
    <3> HIDE DEF n
    <3> QED BY <1>1, FlattensExists DEF Flattens
  <2> HIDE DEF Is
  <2> QED BY <2>1
<1>3. FlattenSeq(q) = f[n]
  BY <1>1 DEF FlattenSeq
<1> HIDE DEF f
<1>4. f[1] = q[1] /\ \A i \in 2..n : f[i] = f[i - 1] \o q[i]
  <2> HIDE DEF n
  <2>1. 1 \in 1..n /\ \A i \in 2..n : i \in 1..n /\ i # 1
    BY <1>1
  <2> QED BY <1>2, <2>1
<1> HIDE DEF Is
<1>5. T = 0..n
  <2>1. T \in SUBSET (0..n) /\ 0 \in T
    BY <1>1
  <2>2. ASSUME NEW k \in T, k < n
        PROVE  k + 1 \in T
    <3> HIDE DEF n
    <3>1. k + 1 \in 0..n /\ k + 1 \in 1..n /\ (k = 0 \/ k + 1 \in 2..n) /\ (k + 1) - 1 = k /\ k \in Nat
      BY <1>1, <2>2
    <3>2. f[k + 1] \in Seq(A)
      <4>1. CASE k = 0
        BY <1>1, <1>4, <3>1, <4>1
      <4>2. CASE k # 0
        <5>1. f[k + 1] = f[k] \o q[k + 1]
          BY <1>4, <3>1, <4>2
        <5>2. f[k] \in Seq(A) /\ q[k + 1] \in Seq(A)
          BY <1>1, <3>1, <4>2
        <5> QED BY <5>1, <5>2
      <4> QED BY <4>1, <4>2
    <3> QED BY <3>1, <3>2
  <2> HIDE DEF T, n
  <2> QED BY <1>1, <2>1, <2>2, UpTo
<1>6. \A i \in 1..n : f[i] \in Seq(A)
  <2> TAKE i \in 1..n
  <2>1. i \in 0..n /\ i # 0
    BY <1>1
  <2>2. i \in T
    <3> HIDE DEF T, n
    <3> QED BY <1>5, <2>1
  <2> QED BY <2>1, <2>2
<1> QED BY <1>3, <1>4, <1>6

LEMMA ConcatAssociative ==
  ASSUME NEW A, NEW x \in Seq(A), NEW y \in Seq(A), NEW z \in Seq(A)
  PROVE  (x \o y) \o z = x \o (y \o z)
OBVIOUS

(* What is put in front of q comes in front of what q is flattened to. *)
LEMMA FlattenCons ==
  ASSUME NEW A, NEW x \in Seq(A), NEW q \in Seq(Seq(A))
  PROVE  /\ FlattenSeq(<<x>> \o q) = x \o FlattenSeq(q)
         /\ FlattenSeq(q) \in Seq(A)
<1> DEFINE p == <<x>> \o q
           n == Len(q)
<1>1. /\ p \in Seq(Seq(A)) /\ n \in Nat /\ Len(p) = n + 1 /\ p[1] = x
      /\ \A i \in 1..n : p[i + 1] = q[i] /\ q[i] \in Seq(A)
  OBVIOUS
<1> HIDE DEF p
<1>2. PICK f : /\ FlattenSeq(p) = f[n + 1] /\ f[1] = x
               /\ \A i \in 2..(n + 1) : f[i] = f[i - 1] \o p[i]
               /\ \A i \in 1..(n + 1) : f[i] \in Seq(A)
  <2>1. Len(p) # 0
    BY <1>1
  <2>2. PICK f : /\ FlattenSeq(p) = f[Len(p)] /\ f[1] = p[1]
                 /\ \A i \in 2..Len(p) : f[i] = f[i - 1] \o p[i]
                 /\ \A i \in 1..Len(p) : f[i] \in Seq(A)
    BY <1>1, <2>1, FlattenSeqIs
  <2> HIDE DEF n
  <2>3. Len(p) = n + 1 /\ p[1] = x
    BY <1>1
  <2> QED BY <2>2, <2>3
<1>3. CASE n = 0
  <2>1. q = <<>> /\ FlattenSeq(q) = <<>>
    BY <1>3 DEF FlattenSeq
  <2>2. n + 1 = 1
    BY <1>3
  <2>3. FlattenSeq(p) = x
    BY <1>2, <2>2
  <2>4. x \o <<>> = x /\ <<>> \in Seq(A)
    OBVIOUS
  <2> HIDE DEF n
  <2> QED BY <2>1, <2>3, <2>4 DEF p
<1>4. CASE n # 0
  <2>1. PICK g : /\ FlattenSeq(q) = g[n] /\ g[1] = q[1]
                 /\ \A i \in 2..n : g[i] = g[i - 1] \o q[i]
                 /\ \A i \in 1..n : g[i] \in Seq(A)
    BY <1>4, FlattenSeqIs
  <2> DEFINE T == {k \in 0..n : k = 0 \/ f[k + 1] = x \o g[k]}
  <2> HIDE DEF n
  <2>2. T \in SUBSET (0..n) /\ 0 \in T
    BY <1>1
  <2>3. ASSUME NEW k \in T, k < n
        PROVE  k + 1 \in T
    <3>1. /\ k \in Nat /\ k + 1 \in 0..n /\ k + 1 \in 1..n /\ (k + 1) + 1 \in 2..(n + 1)
          /\ ((k + 1) + 1) - 1 = k + 1 /\ (k + 1) - 1 = k
      BY <1>1, <2>3
    <3>2. f[(k + 1) + 1] = f[k + 1] \o q[k + 1]
      BY <1>1, <1>2, <3>1
    <3>3. f[(k + 1) + 1] = x \o g[k + 1]
      <4>1. CASE k = 0
        <5>1. k + 1 = 1
          BY <4>1
        <5>2. f[(k + 1) + 1] = f[1] \o q[1]
          BY <3>2, <5>1
        <5> QED BY <1>2, <2>1, <5>1, <5>2
      <4>2. CASE k # 0
        <5>1. k + 1 \in 2..n /\ k \in 1..n
          BY <1>1, <3>1, <4>2
        <5>2. g[k + 1] = g[k] \o q[k + 1] /\ f[k + 1] = x \o g[k]
          BY <2>1, <3>1, <4>2, <5>1
        <5>3. g[k] \in Seq(A) /\ q[k + 1] \in Seq(A)
          BY <1>1, <2>1, <3>1, <5>1
        <5>4. (x \o g[k]) \o q[k + 1] = x \o (g[k] \o q[k + 1])
          <6>1. \A y, z \in Seq(A) : (x \o y) \o z = x \o (y \o z)
            BY ConcatAssociative
          <6> QED BY <5>3, <6>1
        <5> QED BY <3>2, <5>2, <5>4
      <4> QED BY <4>1, <4>2
    <3> QED BY <3>1, <3>3
  <2>4. T = 0..n
    <3> HIDE DEF T
    <3> QED BY <1>1, <2>2, <2>3, UpTo
  <2>5. f[n + 1] = x \o g[n] /\ g[n] \in Seq(A)
    <3>1. n \in 0..n /\ n \in 1..n
      BY <1>1, <1>4
    <3>2. n \in T
      BY <2>4, <3>1
    <3> QED BY <1>4, <2>1, <3>1, <3>2
  <2> QED BY <1>2, <2>1, <2>5 DEF p
<1> QED BY <1>3, <1>4

(* The same of Flat. *)
LEMMA FlatNil == Flat(<<>>) = <<>>
<1> DEFINE q == [i \in DOMAIN <<>> |-> Spread[(<<>>)[i]]]
<1>1. q = <<>>
  OBVIOUS
<1>2. FlattenSeq(<<>>) = <<>>
  BY DEF FlattenSeq
<1> HIDE DEF q
<1>3. FlattenSeq(q) = <<>>
  BY <1>1, <1>2
<1> QED BY <1>3 DEF Flat, q

LEMMA FlatCons ==
  ASSUME NEW a \in Arguments, NEW list \in Seq(Arguments)
  PROVE  /\ Flat(<<a>> \o list) = Spread[a] \o Flat(list)
         /\ Flat(list) \in Seq(Arguments)
<1> DEFINE x == Spread[a]
           q == [i \in DOMAIN list |-> Spread[list[i]]]
           l == <<a>> \o list
           p == [i \in DOMAIN l |-> Spread[l[i]]]
           n == Len(list)
<1>1. /\ DOMAIN list = 1..n /\ DOMAIN l = 1..(n + 1) /\ n \in Nat /\ l[1] = a
      /\ \A i \in 1..n : list[i] \in Arguments /\ l[i + 1] = list[i]
  OBVIOUS
<1> HIDE DEF l, n
<1>2. x \in Seq(Arguments)
  BY SpreadType
<1>3. q \in Seq(Seq(Arguments)) /\ Len(q) = n
  <2>1. \A i \in 1..n : Spread[list[i]] \in Seq(Arguments)
    BY <1>1, SpreadType
  <2> QED BY <1>1, <2>1
<1>4. p = <<x>> \o q
  <2> DEFINE r == <<x>> \o q
  <2>1. /\ DOMAIN r = 1..(n + 1) /\ r[1] = x /\ \A i \in 1..n : r[i + 1] = q[i]
        /\ r = [i \in 1..(n + 1) |-> r[i]]
    <3> HIDE DEF x, q
    <3> QED BY <1>1, <1>2, <1>3
  <2> HIDE DEF r
  <2>2. \A i \in 1..(n + 1) : r[i] = p[i]
    <3> TAKE i \in 1..(n + 1)
    <3>1. CASE i = 1
      BY <1>1, <2>1, <3>1
    <3>2. CASE i # 1
      <4>1. i - 1 \in 1..n /\ (i - 1) + 1 = i
        BY <1>1, <3>2
      <4>2. r[i] = Spread[list[i - 1]] /\ l[i] = list[i - 1]
        BY <1>1, <2>1, <4>1
      <4> QED BY <1>1, <4>2
    <3> QED BY <3>1, <3>2
  <2>3. p = [i \in 1..(n + 1) |-> p[i]]
    BY <1>1
  <2> HIDE DEF p
  <2>4. p = r
    BY <2>1, <2>2, <2>3
  <2> QED BY <2>4 DEF r
<1> HIDE DEF x, q
<1>5. FlattenSeq(<<x>> \o q) = x \o FlattenSeq(q) /\ FlattenSeq(q) \in Seq(Arguments)
  BY <1>2, <1>3, FlattenCons
<1>6. Flat(l) = FlattenSeq(p) /\ Flat(list) = FlattenSeq(q)
  BY DEF Flat, q
<1> QED BY <1>4, <1>5, <1>6 DEF l, x

-----------------------------------------------------------------------------
(* The command line *)

(* Lexing an argument leaves just what spreads to the words after its own. *)
LEMMA Lexed ==
  ASSUME stack \in Seq(Arguments), stack # <<>>
  PROVE  LET a == Head(stack) IN
         /\ a \in Arguments /\ Rest(a) \in Seq(Arguments) /\ Flat(Rest(a)) \in Seq(Arguments)
         /\ Flat(stack) = <<a>> \o Flat(Rest(a))
         /\ a.kind = "text" => Rest(a) = Tail(stack)
<1> DEFINE a == Head(stack)
           t == Tail(stack)
<1>1. a \in Arguments /\ t \in Seq(Arguments) /\ stack = <<a>> \o t
  OBVIOUS
<1> HIDE DEF a, t
<1>2. Flat(stack) = Spread[a] \o Flat(t) /\ Flat(t) \in Seq(Arguments)
  BY <1>1, FlatCons
<1>3. CASE a.more = None
  <2>1. Rest(a) = t
    BY <1>1, <1>3 DEF Rest, Pushed, t
  <2>2. Spread[a] = <<a>>
    BY <1>1, <1>3, SpreadIs
  <2> QED BY <1>1, <1>2, <2>1, <2>2 DEF a, t
<1>4. CASE a.more # None
  <2> DEFINE b == a.more
  <2>1. Rest(a) = <<b>> \o t
    BY <1>4 DEF Rest, Pushed, t
  <2>2. b \in Arguments /\ a.kind # "text"
    BY <1>1, <1>4, OptionsAssumption
  <2>3. Spread[a] = <<a>> \o Spread[b]
    BY <1>1, <1>4, SpreadIs
  <2> HIDE DEF b
  <2>4. Flat(Rest(a)) = Spread[b] \o Flat(t)
    BY <1>1, <2>1, <2>2, FlatCons
  <2>5. Spread[b] \in Seq(Arguments) /\ <<a>> \in Seq(Arguments)
    BY <1>1, <2>2, SpreadType
  <2>6. (<<a>> \o Spread[b]) \o Flat(t) = <<a>> \o (Spread[b] \o Flat(t))
    <3>1. \A x, y, z \in Seq(Arguments) : (x \o y) \o z = x \o (y \o z)
      BY ConcatAssociative
    <3> QED BY <1>2, <2>5, <3>1
  <2>7. Rest(a) \in Seq(Arguments) /\ Flat(Rest(a)) \in Seq(Arguments)
    <3>1. <<b>> \o t \in Seq(Arguments)
      BY <1>1, <2>2
    <3>2. Spread[b] \o Flat(t) \in Seq(Arguments)
      BY <1>2, <2>5
    <3> QED BY <2>1, <2>4, <3>1, <3>2
  <2> QED BY <1>1, <1>2, <2>2, <2>3, <2>4, <2>6, <2>7 DEF a
<1> QED BY <1>3, <1>4

(* An argument names a known option or none. *)
LEMMA NamedType ==
  ASSUME NEW a
  PROVE  /\ Named(a) \in Known \cup {None}
         /\ a.kind \in {"text", "end"} => Named(a) = None
BY OptionsAssumption DEF Named

(* p words are lexed, the stack spreads to the others, and each option has   *)
(* the value that those words give it.                                       *)
Lexes(p) ==
    /\ p \in 0..Len(Words) /\ Len(Flat(stack)) = Len(Words) - p
    /\ \A i \in 1..(Len(Words) - p) : Flat(stack)[i] = Words[p + i]
Accepts(p) ==
    /\ \A i \in 1..p : Words[i].kind = "text" \/ Named(Words[i]) # None
    /\ \A i \in 1..p : Named(Words[i]) \in Valued => i = p \/ Words[i + 1].kind = "text"
Expects(p) ==
    expecting = IF p > 0 /\ Named(Words[p]) \in Valued THEN Named(Words[p]) ELSE None
Values(p) ==
    /\ value = [o \in Known |-> value[o]]
    /\ \A o \in Switches : /\ (\E i \in 1..p : Named(Words[i]) = o) => value[o] = TRUE
                           /\ (\A i \in 1..p : Named(Words[i]) # o) => value[o] = FALSE
    /\ \A o \in Valued : /\ (\A i \in 1..(p - 1) : Named(Words[i]) # o) => value[o] = None
                         /\ \A i \in 1..(p - 1) :
                               Named(Words[i]) = o /\ (\A j \in (i + 1)..(p - 1) : Named(Words[j]) # o)
                                  => value[o] = Words[i + 1].name

(* The invariant of the parser. *)
OInv ==
    /\ args \in Seq(Arguments) /\ stack \in Seq(Arguments)
    /\ parsed = "no" => \E p \in Nat : Lexes(p) /\ Accepts(p) /\ Expects(p) /\ Values(p)
    /\ OptionsMeant

(* A command line spreads to arguments. *)
LEMMA WordsType == args \in Seq(Arguments) => Words \in Seq(Arguments)
<1> SUFFICES ASSUME args \in Seq(Arguments)
             PROVE  Words \in Seq(Arguments)
  OBVIOUS
<1>1. CASE args = <<>>
  BY <1>1, FlatNil DEF Words
<1>2. CASE args # <<>>
  <2>1. Head(args) \in Arguments
    BY <1>2
  <2> QED BY <2>1, FlatCons DEF Words
<1> QED BY <1>1, <1>2

(* No word is lexed when parse() begins. *)
LEMMA InitOInv == Init => OInv
<1> SUFFICES ASSUME NEW s \in Starts, InitOptions(s.line)
             PROVE  OInv
  BY DEF Init
<1>1. args \in Seq(Arguments) /\ stack = args /\ expecting = None /\ parsed = "no"
      /\ value = [o \in Known |-> IF o \in Switches THEN FALSE ELSE None]
  BY StartsAssumption DEF InitOptions
<1>2. Words \in Seq(Arguments) /\ Flat(stack) = Words
  BY <1>1, WordsType DEF Words
<1>3. Len(Words) \in Nat
  BY <1>2
<1>4. Lexes(0) /\ Accepts(0) /\ Expects(0)
  BY <1>1, <1>2, <1>3 DEF Lexes, Accepts, Expects
<1>5. Values(0)
  <2>1. value = [o \in Known |-> value[o]]
    BY <1>1
  <2>2. \A o \in Switches : o \in Known /\ value[o] = FALSE
    BY <1>1 DEF Known
  <2>3. \A o \in Valued : o \in Known /\ o \notin Switches /\ value[o] = None
    BY <1>1, OptionsAssumption DEF Known
  <2> QED BY <2>1, <2>2, <2>3 DEF Values
<1> QED BY <1>1, <1>4, <1>5 DEF OInv, OptionsMeant

(* The next word is the top of the stack. *)
LEMMA NextWord ==
  ASSUME OInv, NEW p \in Nat, Lexes(p), stack # <<>>
  PROVE  LET a == Head(stack) IN
         /\ a \in Arguments /\ p < Len(Words) /\ Words[p + 1] = a /\ Len(Words) \in Nat
         /\ Rest(a) \in Seq(Arguments)
         /\ a.kind = "text" => Rest(a) = Tail(stack)
         /\ stack' = Rest(a) /\ args' = args => Lexes(p + 1)'
<1> DEFINE a == Head(stack)
           r == Rest(a)
           n == Len(Words)
<1>1. /\ a \in Arguments /\ r \in Seq(Arguments) /\ Flat(r) \in Seq(Arguments)
      /\ Flat(stack) = <<a>> \o Flat(r) /\ (a.kind = "text" => r = Tail(stack))
  BY Lexed DEF OInv
<1>2. n \in Nat
  BY WordsType DEF OInv
<1> HIDE DEF a, r, n
<1>3. Len(Flat(stack)) = Len(Flat(r)) + 1 /\ Flat(stack)[1] = a /\ Len(Flat(r)) \in Nat
      /\ \A i \in 1..Len(Flat(r)) : Flat(stack)[i + 1] = Flat(r)[i]
  BY <1>1
<1>4. Len(Flat(stack)) = n - p /\ \A i \in 1..(n - p) : Flat(stack)[i] = Words[p + i]
  BY DEF Lexes, n
<1>5. p < n /\ Words[p + 1] = a /\ Len(Flat(r)) = n - (p + 1)
  <2> DEFINE k == Len(Flat(r))
  <2>1. k \in Nat /\ k + 1 = n - p
    BY <1>3, <1>4
  <2> HIDE DEF k
  <2>2. 1 \in 1..(n - p) /\ p < n /\ k = n - (p + 1)
    BY <1>2, <2>1
  <2>3. Words[p + 1] = a
    BY <1>3, <1>4, <2>2
  <2> QED BY <2>2, <2>3 DEF k
<1>6. \A i \in 1..(n - (p + 1)) : Flat(r)[i] = Words[(p + 1) + i]
  <2> TAKE i \in 1..(n - (p + 1))
  <2>1. i + 1 \in 1..(n - p) /\ p + (i + 1) = (p + 1) + i /\ i \in 1..Len(Flat(r))
    BY <1>2, <1>5
  <2> QED BY <1>3, <1>4, <2>1
<1>7. ASSUME stack' = r, args' = args
      PROVE  Lexes(p + 1)'
  <2>1. Words' = Words /\ Flat(stack)' = Flat(r)
    BY <1>7 DEF Words, Flat
  <2>2. p + 1 \in 0..n
    BY <1>2, <1>5
  <2> QED BY <1>5, <1>6, <2>1, <2>2 DEF Lexes, n
<1> QED BY <1>1, <1>2, <1>5, <1>7 DEF a, r, n

(* A word that is no option with a value, or a value, decides nothing that     *)
(* earlier words had left open.                                              *)
LEMMA AcceptsNext ==
  ASSUME NEW p \in Nat, Accepts(p), UNCHANGED args,
         Words[p + 1].kind = "text" \/ Named(Words[p + 1]) # None,
         expecting = None \/ Words[p + 1].kind = "text", Expects(p)
  PROVE  Accepts(p + 1)'
<1>1. Words' = Words
  BY DEF Words, Flat
<1>2. \A i \in 1..(p + 1) : Words[i].kind = "text" \/ Named(Words[i]) # None
  <2> TAKE i \in 1..(p + 1)
  <2>1. i \in 1..p \/ i = p + 1
    OBVIOUS
  <2> QED BY <2>1 DEF Accepts
<1>3. \A i \in 1..(p + 1) : Named(Words[i]) \in Valued => i = p + 1 \/ Words[i + 1].kind = "text"
  <2> SUFFICES ASSUME NEW i \in 1..(p + 1), Named(Words[i]) \in Valued, i # p + 1
               PROVE  Words[i + 1].kind = "text"
    OBVIOUS
  <2>1. i \in 1..p
    OBVIOUS
  <2>2. CASE i = p
    <3>1. expecting = Named(Words[p]) /\ Named(Words[p]) # None
      BY <2>1, <2>2, OptionsAssumption DEF Expects, Known
    <3> QED BY <2>2, <3>1
  <2>3. CASE i # p
    BY <2>1, <2>3 DEF Accepts
  <2> QED BY <2>2, <2>3
<1> QED BY <1>1, <1>2, <1>3 DEF Accepts

(* A switch is on from now on. *)
LEMMA SwitchOInv == OInv /\ parsed = "no" /\ ParseSwitch => OInv'
<1> SUFFICES ASSUME OInv, parsed = "no", ParseSwitch
             PROVE  OInv'
  OBVIOUS
<1> DEFINE a == Head(stack)
<1>1. PICK p \in Nat : Lexes(p) /\ Accepts(p) /\ Expects(p) /\ Values(p)
  BY DEF OInv
<1>2. /\ stack # <<>> /\ expecting = None /\ Named(a) \in Switches
      /\ value' = [value EXCEPT ![Named(a)] = TRUE]
      /\ stack' = Rest(a) /\ UNCHANGED <<args, expecting, parsed>>
  BY DEF ParseSwitch
<1>3. Words[p + 1] = a /\ stack' \in Seq(Arguments) /\ Lexes(p + 1)'
  BY <1>1, <1>2, NextWord
<1> HIDE DEF a
<1>4. Words' = Words
  BY <1>2 DEF Words, Flat
<1>5. Named(a) # None /\ Named(a) \notin Valued /\ Named(a) \in Known
  BY <1>2, OptionsAssumption DEF Known
<1>6. Accepts(p + 1)'
  BY <1>1, <1>2, <1>3, <1>5, AcceptsNext
<1>7. Expects(p + 1)'
  BY <1>2, <1>3, <1>4, <1>5 DEF Expects
<1>8. p > 0 => Named(Words[p]) \notin Valued
  BY <1>1, <1>2, OptionsAssumption DEF Expects, Known
<1>9. Values(p + 1)'
  <2>1. value' = [o \in Known |-> value'[o]]
    BY <1>1, <1>2, <1>5 DEF Values
  <2>2. value'[Named(a)] = TRUE /\ \A o \in Known : o # Named(a) => value'[o] = value[o]
    BY <1>1, <1>2, <1>5 DEF Values
  <2>3. ASSUME NEW o \in Switches
        PROVE  /\ (\E i \in 1..(p + 1) : Named(Words[i]) = o) => value'[o] = TRUE
               /\ (\A i \in 1..(p + 1) : Named(Words[i]) # o) => value'[o] = FALSE
    <3>1. p + 1 \in 1..(p + 1) /\ \A i \in 1..p : i \in 1..(p + 1)
      OBVIOUS
    <3>2. \A i \in 1..(p + 1) : i = p + 1 \/ i \in 1..p
      OBVIOUS
    <3>3. CASE o = Named(a)
      BY <1>3, <2>2, <3>1, <3>3
    <3>4. CASE o # Named(a)
      <4>1. value'[o] = value[o]
        BY <2>2, <3>4 DEF Known
      <4> QED BY <1>1, <1>3, <3>1, <3>2, <3>4, <4>1 DEF Values
    <3> QED BY <3>3, <3>4
  <2>4. ASSUME NEW o \in Valued
        PROVE  /\ (\A i \in 1..p : Named(Words[i]) # o) => value'[o] = None
               /\ \A i \in 1..p :
                     Named(Words[i]) = o /\ (\A j \in (i + 1)..p : Named(Words[j]) # o)
                        => value'[o] = Words[i + 1].name
    <3>1. value'[o] = value[o]
      BY <1>5, <2>2 DEF Known
    <3>2. \A i \in 1..(p - 1) : i \in 1..p
      OBVIOUS
    <3>3. ASSUME NEW i \in 1..p, Named(Words[i]) = o
          PROVE  i \in 1..(p - 1) /\ \A j \in (i + 1)..(p - 1) : j \in (i + 1)..p
      BY <1>8, <3>3
    <3> QED BY <1>1, <3>1, <3>2, <3>3 DEF Values
  <2>5. (p + 1) - 1 = p
    OBVIOUS
  <2>6. \A o \in Switches : /\ (\E i \in 1..(p + 1) : Named(Words'[i]) = o) => value'[o] = TRUE
                            /\ (\A i \in 1..(p + 1) : Named(Words'[i]) # o) => value'[o] = FALSE
    BY <1>4, <2>3
  <2>7. \A o \in Valued : /\ (\A i \in 1..((p + 1) - 1) : Named(Words'[i]) # o) => value'[o] = None
                          /\ \A i \in 1..((p + 1) - 1) :
                                Named(Words'[i]) = o
                                /\ (\A j \in (i + 1)..((p + 1) - 1) : Named(Words'[j]) # o)
                                   => value'[o] = Words'[i + 1].name
    BY <1>4, <2>4, <2>5
  <2> QED BY <2>1, <2>6, <2>7, Zenon DEF Values
<1> QED BY <1>2, <1>3, <1>6, <1>7, <1>9 DEF OInv, OptionsMeant

(* An option expects the word after it, *)
LEMMA OptionOInv == OInv /\ parsed = "no" /\ ParseOption => OInv'
<1> SUFFICES ASSUME OInv, parsed = "no", ParseOption
             PROVE  OInv'
  OBVIOUS
<1> DEFINE a == Head(stack)
<1>1. PICK p \in Nat : Lexes(p) /\ Accepts(p) /\ Expects(p) /\ Values(p)
  BY DEF OInv
<1>2. /\ stack # <<>> /\ expecting = None /\ Named(a) \in Valued /\ expecting' = Named(a)
      /\ stack' = Rest(a) /\ UNCHANGED <<args, value, parsed>>
  BY DEF ParseOption
<1>3. Words[p + 1] = a /\ stack' \in Seq(Arguments) /\ Lexes(p + 1)'
  BY <1>1, <1>2, NextWord
<1> HIDE DEF a
<1>4. Words' = Words
  BY <1>2 DEF Words, Flat
<1>5. Named(a) # None /\ Named(a) \notin Switches
  BY <1>2, OptionsAssumption DEF Known
<1>6. Accepts(p + 1)'
  BY <1>1, <1>2, <1>3, <1>5, AcceptsNext
<1>7. Expects(p + 1)'
  BY <1>2, <1>3, <1>4, <1>5 DEF Expects
<1>8. p > 0 => Named(Words[p]) \notin Valued
  BY <1>1, <1>2, OptionsAssumption DEF Expects, Known
<1>9. Values(p + 1)'
  <2>1. value' = [o \in Known |-> value'[o]]
    BY <1>1, <1>2 DEF Values
  <2>3. ASSUME NEW o \in Switches
        PROVE  /\ (\E i \in 1..(p + 1) : Named(Words[i]) = o) => value'[o] = TRUE
               /\ (\A i \in 1..(p + 1) : Named(Words[i]) # o) => value'[o] = FALSE
    <3>1. \A i \in 1..p : i \in 1..(p + 1)
      OBVIOUS
    <3>2. \A i \in 1..(p + 1) : i = p + 1 \/ i \in 1..p
      OBVIOUS
    <3> QED BY <1>1, <1>2, <1>3, <1>5, <3>1, <3>2 DEF Values
  <2>4. ASSUME NEW o \in Valued
        PROVE  /\ (\A i \in 1..p : Named(Words[i]) # o) => value'[o] = None
               /\ \A i \in 1..p :
                     Named(Words[i]) = o /\ (\A j \in (i + 1)..p : Named(Words[j]) # o)
                        => value'[o] = Words[i + 1].name
    <3>2. \A i \in 1..(p - 1) : i \in 1..p
      OBVIOUS
    <3>3. ASSUME NEW i \in 1..p, Named(Words[i]) = o
          PROVE  i \in 1..(p - 1) /\ \A j \in (i + 1)..(p - 1) : j \in (i + 1)..p
      BY <1>8, <3>3
    <3> QED BY <1>1, <1>2, <3>2, <3>3 DEF Values
  <2>5. (p + 1) - 1 = p
    OBVIOUS
  <2>6. \A o \in Switches : /\ (\E i \in 1..(p + 1) : Named(Words'[i]) = o) => value'[o] = TRUE
                            /\ (\A i \in 1..(p + 1) : Named(Words'[i]) # o) => value'[o] = FALSE
    BY <1>4, <2>3
  <2>7. \A o \in Valued : /\ (\A i \in 1..((p + 1) - 1) : Named(Words'[i]) # o) => value'[o] = None
                          /\ \A i \in 1..((p + 1) - 1) :
                                Named(Words'[i]) = o
                                /\ (\A j \in (i + 1)..((p + 1) - 1) : Named(Words'[j]) # o)
                                   => value'[o] = Words'[i + 1].name
    BY <1>4, <2>4, <2>5
  <2> QED BY <2>1, <2>6, <2>7, Zenon DEF Values
<1> QED BY <1>2, <1>3, <1>6, <1>7, <1>9 DEF OInv, OptionsMeant

(* and gets it. *)
LEMMA TextOInv == OInv /\ parsed = "no" /\ ParseText => OInv'
<1> SUFFICES ASSUME OInv, parsed = "no", ParseText
             PROVE  OInv'
  OBVIOUS
<1> DEFINE a == Head(stack)
<1>1. PICK p \in Nat : Lexes(p) /\ Accepts(p) /\ Expects(p) /\ Values(p)
  BY DEF OInv
<1>2. /\ stack # <<>> /\ a.kind = "text" /\ expecting' = None
      /\ value' = (IF expecting = None THEN value ELSE [value EXCEPT ![expecting] = a.name])
      /\ stack' = Tail(stack) /\ UNCHANGED <<args, parsed>>
  BY DEF ParseText
<1>3. Words[p + 1] = a /\ stack' \in Seq(Arguments) /\ Lexes(p + 1)'
  BY <1>1, <1>2, NextWord
<1> HIDE DEF a
<1>4. Words' = Words
  BY <1>2 DEF Words, Flat
<1>5. Named(a) = None /\ None \notin Valued /\ None \notin Switches
  BY <1>2, NamedType, OptionsAssumption DEF Known
<1>6. Accepts(p + 1)'
  BY <1>1, <1>2, <1>3, AcceptsNext
<1>7. Expects(p + 1)'
  BY <1>2, <1>3, <1>4, <1>5 DEF Expects
<1>8. IF p > 0 /\ Named(Words[p]) \in Valued
      THEN expecting = Named(Words[p]) /\ expecting # None ELSE expecting = None
  BY <1>1, <1>5 DEF Expects
<1>9. Values(p + 1)'
  <2>1. value' = [o \in Known |-> value'[o]]
    BY <1>1, <1>2 DEF Values
  <2>2. /\ expecting \in Valued \cup {None}
        /\ expecting # None => value'[expecting] = a.name
        /\ \A o \in Known : o # expecting => value'[o] = value[o]
    BY <1>1, <1>2, <1>8 DEF Values, Known
  <2>3. ASSUME NEW o \in Switches
        PROVE  /\ (\E i \in 1..(p + 1) : Named(Words[i]) = o) => value'[o] = TRUE
               /\ (\A i \in 1..(p + 1) : Named(Words[i]) # o) => value'[o] = FALSE
    <3>1. \A i \in 1..p : i \in 1..(p + 1)
      OBVIOUS
    <3>2. \A i \in 1..(p + 1) : i = p + 1 \/ i \in 1..p
      OBVIOUS
    <3>3. value'[o] = value[o]
      BY <1>5, <2>2, OptionsAssumption DEF Known
    <3>4. Named(Words[p + 1]) # o
      BY <1>3, <1>5
    <3>5. /\ (\E i \in 1..p : Named(Words[i]) = o) => value[o] = TRUE
          /\ (\A i \in 1..p : Named(Words[i]) # o) => value[o] = FALSE
      BY <1>1 DEF Values
    <3> QED BY <3>1, <3>2, <3>3, <3>4, <3>5
  <2>4. ASSUME NEW o \in Valued
        PROVE  /\ (\A i \in 1..p : Named(Words[i]) # o) => value'[o] = None
               /\ \A i \in 1..p :
                     Named(Words[i]) = o /\ (\A j \in (i + 1)..p : Named(Words[j]) # o)
                        => value'[o] = Words[i + 1].name
    <3>2. \A i \in 1..(p - 1) : i \in 1..p
      OBVIOUS
    <3>3. ASSUME NEW i \in 1..p, i # p
          PROVE  i \in 1..(p - 1) /\ p \in (i + 1)..p /\ \A j \in (i + 1)..(p - 1) : j \in (i + 1)..p
      BY <3>3
    <3>4. CASE o = expecting
      <4>1. p \in 1..p /\ p > 0 /\ Named(Words[p]) = o /\ value'[o] = Words[p + 1].name
        BY <1>3, <1>5, <1>8, <2>2, <3>4
      <4> QED BY <3>3, <4>1
    <3>5. CASE o # expecting
      <4>1. value'[o] = value[o]
        BY <2>2, <3>5 DEF Known
      <4>2. p > 0 => Named(Words[p]) # o
        BY <1>8, <3>5
      <4>3. \A i \in 1..p : Named(Words[i]) = o => i # p
        BY <4>2
      <4> QED BY <1>1, <3>2, <3>3, <4>1, <4>3 DEF Values
    <3> QED BY <3>4, <3>5
  <2>5. (p + 1) - 1 = p
    OBVIOUS
  <2>6. \A o \in Switches : /\ (\E i \in 1..(p + 1) : Named(Words'[i]) = o) => value'[o] = TRUE
                            /\ (\A i \in 1..(p + 1) : Named(Words'[i]) # o) => value'[o] = FALSE
    BY <1>4, <2>3
  <2>7. \A o \in Valued : /\ (\A i \in 1..((p + 1) - 1) : Named(Words'[i]) # o) => value'[o] = None
                          /\ \A i \in 1..((p + 1) - 1) :
                                Named(Words'[i]) = o
                                /\ (\A j \in (i + 1)..((p + 1) - 1) : Named(Words'[j]) # o)
                                   => value'[o] = Words'[i + 1].name
    BY <1>4, <2>4, <2>5
  <2> QED BY <2>1, <2>6, <2>7, Zenon DEF Values
<1> QED BY <1>2, <1>3, <1>6, <1>7, <1>9 DEF OInv, OptionsMeant

(* A nonempty set of numbers up to n has a greatest. *)
LEMMA Greatest ==
  ASSUME NEW n \in Nat, NEW S \in SUBSET (1..n), S # {}
  PROVE  \E i \in S : \A j \in S : j <= i
<1> DEFINE D == {n - x : x \in S}
<1>1. \A x \in S : x \in Nat /\ x <= n
  OBVIOUS
<1>2. PICK m \in D : \A y \in D : m <= y
  <2>1. D \in SUBSET Nat
    BY <1>1
  <2>2. D # {}
    OBVIOUS
  <2> HIDE DEF D
  <2> QED BY <2>1, <2>2, Least
<1>3. PICK x \in S : m = n - x
  OBVIOUS
<1>4. \A y \in S : y <= x
  <2> TAKE y \in S
  <2>1. n - x <= n - y
    BY <1>2, <1>3
  <2> QED BY <1>1, <2>1
<1> QED BY <1>4

(* At the end all words are lexed: the last value given is the one there is.  *)
LEMMA EndOInv == OInv /\ parsed = "no" /\ ParseEnd => OInv'
<1> SUFFICES ASSUME OInv, parsed = "no", ParseEnd
             PROVE  OInv'
  OBVIOUS
<1>1. PICK p \in Nat : Lexes(p) /\ Accepts(p) /\ Expects(p) /\ Values(p)
  BY DEF OInv
<1> DEFINE n == Len(Words)
<1>2. stack = <<>> /\ parsed' = (IF expecting = None THEN "ok" ELSE "bad")
      /\ UNCHANGED <<args, stack, expecting, value>>
  BY DEF ParseEnd
<1>3. Words' = Words
  BY <1>2 DEF Words, Flat
<1>4. Words \in Seq(Arguments) /\ n \in Nat /\ DOMAIN Words = 1..n
  BY WordsType DEF OInv
<1>5. p = n
  <2>1. Len(Flat(stack)) = 0
    BY <1>2, FlatNil
  <2>2. 0 = n - p
    BY <1>1, <2>1 DEF Lexes
  <2> HIDE DEF n
  <2> QED BY <1>4, <2>2
<1> HIDE DEF n
<1>6. CASE expecting # None
  <2>1. n > 0 /\ Named(Words[n]) \in Valued
    BY <1>1, <1>5, <1>6 DEF Expects
  <2>2. n \in 1..n /\ ~(n < n)
    BY <1>4, <2>1
  <2>3. ~Accepted(Words)
    BY <1>4, <2>1, <2>2 DEF Accepted, n
  <2> QED BY <1>2, <1>3, <1>6, <2>3 DEF OInv, OptionsMeant
<1>7. CASE expecting = None
  <2>1. n > 0 => Named(Words[n]) \notin Valued
    BY <1>1, <1>5, <1>7, OptionsAssumption DEF Expects, Known
  <2>2. \A i \in 1..n : Named(Words[i]) \in Valued => i < n /\ i \in 1..(n - 1)
    BY <1>4, <2>1
  <2>3. Accepted(Words)
    <3>1. ASSUME NEW i \in 1..n
          PROVE  /\ Words[i].kind = "text" \/ Named(Words[i]) # None
                 /\ Named(Words[i]) \in Valued => i < n /\ Words[i + 1].kind = "text"
      <4>1. Named(Words[i]) \in Valued => i < n /\ i # n
        BY <1>4, <2>2
      <4> QED BY <1>1, <1>5, <4>1 DEF Accepts
    <3> QED BY <1>4, <3>1 DEF Accepted, n
  <2>4. ASSUME NEW o \in Switches
        PROVE  value[o] = Meant(Words, o)
    <3>1. Meant(Words, o) = ({i \in 1..n : Named(Words[i]) = o} # {})
      BY <1>4 DEF Meant
    <3>2. CASE \E i \in 1..n : Named(Words[i]) = o
      <4>1. value[o] = TRUE
        BY <1>1, <1>5, <3>2 DEF Values
      <4>2. ({i \in 1..n : Named(Words[i]) = o} # {}) = TRUE
        BY <3>2
      <4> QED BY <3>1, <4>1, <4>2
    <3>3. CASE \A i \in 1..n : Named(Words[i]) # o
      <4>1. value[o] = FALSE
        BY <1>1, <1>5, <3>3 DEF Values
      <4>2. ({i \in 1..n : Named(Words[i]) = o} # {}) = FALSE
        BY <3>3
      <4> QED BY <3>1, <4>1, <4>2
    <3> QED BY <3>2, <3>3
  <2>5. ASSUME NEW o \in Valued
        PROVE  value[o] = Meant(Words, o)
    <3> DEFINE given == {i \in 1..n : Named(Words[i]) = o}
    <3>1. Meant(Words, o) = IF given = {} THEN None
                            ELSE Words[1 + CHOOSE i \in given : \A j \in given : j <= i].name
      BY <1>4, OptionsAssumption DEF Meant
    <3>2. given \in SUBSET (1..(n - 1))
      BY <2>2
    <3>3. CASE given = {}
      <4>1. \A i \in 1..(n - 1) : Named(Words[i]) # o
        BY <1>4, <3>3
      <4>2. value[o] = None
        BY <1>1, <1>5, <4>1 DEF Values
      <4> QED BY <3>1, <3>3, <4>2
    <3>4. CASE given # {}
      <4> DEFINE g == CHOOSE i \in given : \A j \in given : j <= i
      <4>0. given \in SUBSET (1..n)
        OBVIOUS
      <4>1. g \in given /\ \A j \in given : j <= g
        <5> HIDE DEF given
        <5>1. \E i \in given : \A j \in given : j <= i
          BY <1>4, <3>4, <4>0, Greatest
        <5> QED BY <5>1
      <4> HIDE DEF g
      <4>2. g \in 1..(n - 1) /\ Named(Words[g]) = o
        BY <3>2, <4>1
      <4>3. \A j \in (g + 1)..(n - 1) : Named(Words[j]) # o
        <5> TAKE j \in (g + 1)..(n - 1)
        <5>1. ~(j <= g) /\ j \in 1..n
          BY <1>4, <4>2
        <5> QED BY <4>1, <5>1
      <4>4. value[o] = Words[g + 1].name
        BY <1>1, <1>5, <4>2, <4>3 DEF Values
      <4>5. 1 + g = g + 1
        BY <4>2
      <4>6. Meant(Words, o) = Words[1 + g].name
        BY <3>1, <3>4 DEF g
      <4> QED BY <4>4, <4>5, <4>6
    <3> QED BY <3>3, <3>4
  <2>6. \A o \in Known : value[o] = Meant(Words, o)
    BY <2>4, <2>5 DEF Known
  <2>7. \A o \in Known : (value[o] = Meant(Words, o))'
    <3> TAKE o \in Known
    <3>1. Meant(Words, o)' = Meant(Words, o)
      BY <1>3 DEF Meant
    <3> QED BY <1>2, <2>6, <3>1
  <2>8. Accepted(Words)'
    BY <1>3, <2>3 DEF Accepted
  <2>9. parsed' = "ok"
    BY <1>2, <1>7
  <2>10. OptionsMeant'
    BY <2>7, <2>8, <2>9 DEF OptionsMeant
  <2> QED BY <1>2, <2>9, <2>10 DEF OInv
<1> QED BY <1>6, <1>7

(* No command line with the words lexed so far is acceptable. *)
LEMMA FailsOInv == OInv /\ parsed = "no" /\ ParseFails => OInv'
<1> SUFFICES ASSUME OInv, parsed = "no", ParseFails
             PROVE  OInv'
  OBVIOUS
<1> DEFINE a == Head(stack)
           n == Len(Words)
<1>1. PICK p \in Nat : Lexes(p) /\ Accepts(p) /\ Expects(p) /\ Values(p)
  BY DEF OInv
<1>2. /\ stack # <<>> /\ UNCHANGED <<args, stack>> /\ parsed' \in {"exit", "bad"}
      /\ \/ a.kind = "end"
         \/ a.kind # "text" /\ (Named(a) = None \/ expecting # None)
  BY DEF ParseFails, Fails
<1>3. Words' = Words
  BY <1>2 DEF Words, Flat
<1>4. Words \in Seq(Arguments) /\ n \in Nat /\ DOMAIN Words = 1..n
  BY WordsType DEF OInv
<1>5. p < n /\ Words[p + 1] = a
  BY <1>1, <1>2, NextWord
<1> HIDE DEF a, n
<1>6. p + 1 \in 1..n
  BY <1>4, <1>5
<1>7. a.kind # "text"
  BY <1>2
<1>8. ~Accepted(Words)
  <2>1. CASE Named(a) = None
    BY <1>4, <1>5, <1>6, <1>7, <2>1 DEF Accepted
  <2>2. CASE expecting # None
    <3>1. p > 0 /\ Named(Words[p]) \in Valued /\ p \in 1..n
      BY <1>1, <1>4, <1>5, <2>2 DEF Expects
    <3> QED BY <1>4, <1>5, <1>7, <3>1 DEF Accepted
  <2>3. CASE a.kind = "end"
    BY <2>1, <2>3, NamedType
  <2> QED BY <1>2, <2>1, <2>2, <2>3
<1>9. OptionsMeant'
  BY <1>2, <1>3, <1>8 DEF OptionsMeant
<1> QED BY <1>2, <1>9 DEF OInv

(* The rest of setup() leaves the options alone. *)
LEMMA NextOInv == OInv /\ [Next]_vars => OInv'
<1> SUFFICES ASSUME OInv, [Next]_vars
             PROVE  OInv'
  OBVIOUS
<1>1. CASE ParseStep
  BY <1>1, SwitchOInv, OptionOInv, TextOInv, EndOInv, FailsOInv DEF ParseStep, Parse
<1>2. ASSUME UNCHANGED optionVars
      PROVE  OInv'
  <2>1. UNCHANGED <<args, stack, expecting, value, parsed>> /\ Words' = Words
    BY <1>2 DEF optionVars, Words, Flat
  <2>2. OptionsMeant'
    <3>1. Accepted(Words)' <=> Accepted(Words)
      BY <2>1 DEF Accepted
    <3>2. \A o : Meant(Words, o)' = Meant(Words, o)
      BY <2>1 DEF Meant
    <3>3. OptionsMeant
      BY DEF OInv
    <3> QED BY <2>1, <3>1, <3>2, <3>3 DEF OptionsMeant
  <2>3. ASSUME NEW p \in Nat, Lexes(p), Accepts(p), Expects(p), Values(p)
        PROVE  (Lexes(p) /\ Accepts(p) /\ Expects(p) /\ Values(p))'
    <3>1. Flat(stack)' = Flat(stack)
      BY <2>1 DEF Flat
    <3>2. Lexes(p)'
      BY <2>1, <2>3, <3>1 DEF Lexes
    <3>3. Accepts(p)'
      BY <2>1, <2>3 DEF Accepts
    <3>4. Expects(p)'
      BY <2>1, <2>3 DEF Expects
    <3>5. Values(p)'
      BY <2>1, <2>3, Zenon DEF Values
    <3> QED BY <3>2, <3>3, <3>4, <3>5
  <2> QED BY <2>1, <2>2, <2>3 DEF OInv
<1>3. CASE Reject \/ Connect \/ ForwardStep \/ StartServent \/ StreamStep \/ Environment \/ UNCHANGED vars
  BY <1>2, <1>3 DEF Reject, Connect, ForwardStep, StartServent, StreamStep, Environment, vars
<1> QED BY <1>1, <1>3 DEF Next, Runs

(* parse() accepts a command line just if all its options are known and those *)
(* with a value have one, and leaves each option the last value given,        *)
(* however deep "=" and short names push arguments back (GetOpt::parse).      *)
THEOREM CommandLineMeant == Spec => []OptionsMeant
<1>1. OInv => OptionsMeant
  BY DEF OInv
<1> QED BY <1>1, InitOInv, NextOInv, PTL DEF Spec

-----------------------------------------------------------------------------
(* The gateway *)

(* What a search may enter in devlist. *)
Found == [dev : Devices, st : {deviceList[i] : i \in Int}]

(* The replies to it are devices. *)
LEMMA AsListType ==
  ASSUME NEW i \in Int, NEW s \in Seq(Devices)
  PROVE  AsList(i, s) \in Seq(Found)
<1>1. DOMAIN s = 1..Len(s) /\ Len(s) \in Nat /\ \A k \in 1..Len(s) : s[k] \in Devices
  OBVIOUS
<1>2. \A k \in 1..Len(s) : [dev |-> s[k], st |-> deviceList[i]] \in Found
  BY <1>1 DEF Found
<1>3. AsList(i, s) = [k \in 1..Len(s) |-> [dev |-> s[k], st |-> deviceList[i]]]
  BY <1>1 DEF AsList
<1> QED BY <1>1, <1>2, <1>3

LEMMA PermutationType ==
  ASSUME NEW S \in SUBSET Devices, NEW s \in SetToAllKPermutations(S)
  PROVE  s \in Seq(Devices)
<1>1. PICK t \in SUBSET S : s \in SetToSeqs(t)
  BY DEF SetToAllKPermutations
<1>2. Cardinality(t) \in Nat
  <2>1. IsFiniteSet(t)
    BY IgdAssumption, FS_Subset
  <2> QED BY <2>1, FS_CardinalityType
<1>3. s \in [1..Cardinality(t) -> t]
  BY <1>1 DEF SetToSeqs
<1> QED BY <1>2, <1>3

(* The one named is read. *)
LEMMA OneValue ==
  ASSUME NEW name, NEW v
  PROVE  GetValue(<< <<name, v>> >>, name) = v
<1> DEFINE r == << <<name, v>> >>
           is == {i \in DOMAIN r : r[i][1] = name}
<1>1. is = {1} /\ r[1][2] = v
  OBVIOUS
<1> HIDE DEF r
<1>2. GetValue(r, name) = r[CHOOSE i \in is : \A j \in is : j <= i][2]
  BY <1>1 DEF GetValue
<1>3. (CHOOSE i \in is : \A j \in is : j <= i) = 1
  BY <1>1
<1> QED BY <1>1, <1>2, <1>3 DEF r

(* What is not there is not read. *)
LEMMA NoValue == \A name : GetValue(<<>>, name) = NULL
BY DEF GetValue

(* While no request has failed: in round state no device described so far is  *)
(* good enough for it, nor any for an earlier one.                           *)
DevAt(i) == devlist[i].dev
Early == {"ssdpd", "send", "receive", "describe"}
Done == {"status", "inited", "added", "failed"}
Searched ==
    /\ faults \in Nat /\ deviceIndex \in Int /\ devlist \in Seq(Found)
    /\ \A d \in Devices : NULL \notin net[d].online
    /\ portfwd \in Early \cup {"valid", "crashed"} \cup Done
    /\ portfwd \in Early => urls = NULL
    /\ portfwd \in {"describe", "valid"} => devlist # <<>>
    /\ portfwd = "valid" => state \in 1..3 /\ nth \in 1..Len(devlist)
NoneYet == faults = 0 /\ portfwd = "valid" =>
    /\ \A i \in Described : Rank(DevAt(i)) >= state /\ (i < nth => Rank(DevAt(i)) > state)
    /\ Described = {} => urls = NULL
(* b is described, and none before it is as good, none after it better. *)
IsBest(b) ==
    /\ b \in Described
    /\ \A j \in Described : \/ Rank(DevAt(b)) < Rank(DevAt(j))
                            \/ Rank(DevAt(b)) = Rank(DevAt(j)) /\ b <= j
(* Once init() is past its choice, the best is taken, with its own address, *)
Took == faults = 0 /\ portfwd \in Done =>
    \/ Described = {} /\ urls = NULL /\ portfwd # "added"
    \/ \E b \in Described : IsBest(b) /\ urls.dev = DevAt(b) /\ lanaddr = net[DevAt(b)].lan
(* and what is said to be added is a mapping of that gateway to this host. *)
Mapped == faults = 0 /\ portfwd = "added" /\ urls.url # NULL =>
    \E m \in mappings : m.dev = urls.dev /\ m.to = lanaddr /\ m.port = m_port % Port16

(* The invariant of the port forward. *)
GInv == Searched /\ NoneYet /\ Took /\ Mapped

(* There is one best device. *)
LEMMA BestIs ==
  ASSUME Searched, NEW b \in Described, IsBest(b)
  PROVE  Best = b
<1> DEFINE P(i) == \A j \in Described : LET r == Rank(DevAt(i)) s == Rank(DevAt(j))
                                        IN  r < s \/ (r = s /\ i <= j)
<1>1. \A i \in Described : i \in Nat /\ Rank(DevAt(i)) \in Nat
  BY DEF Described, Searched, Rank
<1>2. P(b)
  BY DEF IsBest
<1>3. \A i \in Described : P(i) => i = b
  <2> SUFFICES ASSUME NEW i \in Described, P(i)
               PROVE  i = b
    OBVIOUS
  <2> DEFINE r == Rank(DevAt(i))
             s == Rank(DevAt(b))
  <2>1. (r < s \/ (r = s /\ i <= b)) /\ (s < r \/ (s = r /\ b <= i))
    BY <1>2
  <2>2. r \in Nat /\ s \in Nat /\ i \in Nat /\ b \in Nat
    BY <1>1
  <2> HIDE DEF r, s
  <2> QED BY <2>1, <2>2
<1>4. Best = CHOOSE i \in Described : P(i)
  BY DEF Best, DevAt
<1> HIDE DEF P
<1> QED BY <1>2, <1>3, <1>4

(* GInv is what GatewayRight says, and more. *)
LEMMA GatewayTaken == GInv => GatewayRight
<1> SUFFICES ASSUME GInv, portfwd \in {"inited", "added", "failed"}, Described # {}, faults = 0
             PROVE  /\ urls.dev = devlist[Best].dev /\ lanaddr = net[urls.dev].lan
                    /\ portfwd = "added" /\ urls.url # NULL =>
                          \E m \in mappings : m.dev = urls.dev /\ m.to = lanaddr
  BY DEF GatewayRight
<1>1. PICK b \in Described : IsBest(b) /\ urls.dev = DevAt(b) /\ lanaddr = net[DevAt(b)].lan
  BY DEF GInv, Took, Done
<1>2. Best = b
  BY <1>1, BestIs DEF GInv
<1> QED BY <1>1, <1>2 DEF GInv, Mapped, DevAt

(* Nothing is searched for when the process starts. *)
LEMMA InitGInv == Init => GInv
<1> SUFFICES ASSUME NEW s \in Starts, InitIgd(s.net)
             PROVE  GInv
  BY DEF Init
<1> QED BY StartsAssumption DEF InitIgd, GInv, Searched, NoneYet, Took, Mapped, Early, Done

(* Before a device is described, nothing is chosen: what is searched may      *)
(* change.                                                                   *)
LEMMA SearchingGInv ==
  ASSUME GInv, portfwd \in Early, UNCHANGED <<net, urls>>, faults' \in Nat, deviceIndex' \in Int,
         devlist' \in Seq(Found),
         \/ portfwd' \in {"ssdpd", "send", "receive"}
         \/ portfwd' = "describe" /\ devlist' # <<>>
         \/ portfwd' = "failed" /\ devlist' = <<>>
  PROVE  GInv'
<1>1. portfwd' \in Early \cup {"failed"} /\ urls' = NULL /\ portfwd' # "valid"
  BY DEF GInv, Searched, Early
<1>2. Searched'
  BY <1>1 DEF GInv, Searched, Early, Done
<1>3. Took'
  <2>1. CASE portfwd' = "failed"
    <3>1. devlist' = <<>>
      BY <2>1
    <3>2. Described' = {}
      BY <3>1 DEF Described
    <3> QED BY <1>1, <2>1, <3>2 DEF Took
  <2> QED BY <1>1, <2>1 DEF Took, Early, Done
<1> QED BY <1>1, <1>2, <1>3 DEF GInv, NoneYet, Mapped, Early

(* What was found is what is described next, if anything was. *)
LEMMA DiscoveredAs ==
  ASSUME NEW list, Discovered(list)
  PROVE  /\ devlist' = list
         /\ \/ portfwd' = "describe" /\ devlist' # <<>>
            \/ portfwd' = "failed" /\ devlist' = <<>>
BY DEF Discovered

(* The search, *)
LEMMA DiscoverGInv == GInv /\ (AskDaemon \/ Search \/ Reply \/ Silence) => GInv'
<1> SUFFICES ASSUME GInv, AskDaemon \/ Search \/ Reply \/ Silence
             PROVE  GInv'
  OBVIOUS
<1>0. faults \in Nat /\ deviceIndex \in Int /\ devlist \in Seq(Found) /\ faults + 1 \in Nat
  BY DEF GInv, Searched
<1>1. CASE AskDaemon
  <2>1. PICK s \in SetToAllKPermutations(Answering(deviceIndex)) :
          LET last == deviceIndex = Len(deviceList) IN
          /\ devlist' = AsList(deviceIndex, s)
          /\ deviceIndex' = IF s # <<>> \/ last THEN 1 ELSE deviceIndex + 1
          /\ portfwd' = IF s # <<>> /\ ~last THEN "describe" ELSE IF last THEN "send" ELSE "ssdpd"
    BY <1>1 DEF AskDaemon
  <2>2. s \in Seq(Devices)
    BY PermutationType DEF Answering
  <2>3. devlist' \in Seq(Found) /\ deviceIndex' \in Int
    BY <1>0, <2>1, <2>2, AsListType
  <2>4. s # <<>> => devlist' # <<>>
    BY <2>1, <2>2 DEF AsList
  <2> QED BY <1>0, <1>1, <2>1, <2>3, <2>4, SearchingGInv DEF AskDaemon, Early
<1>2. CASE Search
  <2>1. portfwd = "send" /\ UNCHANGED <<net, urls>> /\ faults' \in Nat /\ deviceIndex' \in Int
    BY <1>0, <1>2 DEF Search, Fine, Fault
  <2>2. /\ devlist' \in Seq(Found)
        /\ \/ portfwd' = "receive"
           \/ portfwd' = "describe" /\ devlist' # <<>>
           \/ portfwd' = "failed" /\ devlist' = <<>>
    <3>1. CASE portfwd' = "receive" /\ UNCHANGED devlist
      BY <1>0, <3>1
    <3>2. CASE Discovered(devlist)
      BY <1>0, <3>2, DiscoveredAs
    <3>3. CASE Discovered(<<>>)
      <4>1. <<>> \in Seq(Found)
        OBVIOUS
      <4> QED BY <3>3, <4>1, DiscoveredAs
    <3> QED BY <1>2, <3>1, <3>2, <3>3 DEF Search
  <2> QED BY <2>1, <2>2, SearchingGInv DEF Early
<1>3. CASE Reply
  <2>0. PICK i \in 1..(deviceIndex - 1) :
           \E d \in Answering(i) : devlist' = AsList(i, <<d>>) \o devlist
    BY <1>3 DEF Reply
  <2>1. PICK d \in Answering(i) : devlist' = AsList(i, <<d>>) \o devlist
    BY <2>0
  <2>2. devlist' \in Seq(Found)
    <3>1. <<d>> \in Seq(Devices) /\ i \in Int
      BY <1>0 DEF Answering
    <3>2. AsList(i, <<d>>) \in Seq(Found)
      BY <3>1, AsListType
    <3> QED BY <1>0, <2>1, <3>2
  <2> QED BY <1>0, <1>3, <2>2, SearchingGInv DEF Reply, Early
<1>4. CASE Silence
  <2>1. portfwd = "receive" /\ UNCHANGED <<net, urls, deviceIndex>> /\ faults' \in Nat
    BY <1>0, <1>4 DEF Silence, Fine, Fault
  <2>2. /\ devlist' \in Seq(Found)
        /\ \/ portfwd' = "send"
           \/ portfwd' = "describe" /\ devlist' # <<>>
           \/ portfwd' = "failed" /\ devlist' = <<>>
    BY <1>0, <1>4, DiscoveredAs DEF Silence
  <2> QED BY <1>0, <2>1, <2>2, SearchingGInv DEF Early
<1> QED BY <1>1, <1>2, <1>3, <1>4

(* Every device has its round. *)
LEMMA RankType == \A d : Rank(d) \in 1..3
BY DEF Rank

(* the descriptions, which the first round begins with, *)
LEMMA DescribeGInv == GInv /\ Describe => GInv'
<1> SUFFICES ASSUME GInv, Describe
             PROVE  GInv'
  OBVIOUS
<1> DEFINE gateways == {i \in DOMAIN devlist : devlist[i].st = "InternetGatewayDevice"}
           i == IF gateways = {} THEN 1 ELSE CHOOSE j \in gateways : \A k \in gateways : j <= k
           dev == devlist[i].dev
<1>1. /\ portfwd = "describe" /\ portfwd' = "valid" /\ state' = 1 /\ nth' = 1
      /\ UNCHANGED <<net, devlist, deviceIndex>>
      /\ \/ Fetches(dev)
         \/ FetchFails(dev) /\ UNCHANGED urls
  BY DEF Describe
<1>2. /\ faults \in Nat /\ devlist \in Seq(Found) /\ devlist # <<>> /\ urls = NULL
      /\ DOMAIN devlist = 1..Len(devlist) /\ Len(devlist) \in Nat /\ Len(devlist) > 0
  BY <1>1 DEF GInv, Searched, Early
<1>3. i \in DOMAIN devlist
  <2>1. CASE gateways = {}
    BY <1>2, <2>1
  <2>2. CASE gateways # {}
    <3>1. \E j \in gateways : \A k \in gateways : j <= k
      <4>1. gateways \in SUBSET Nat
        BY <1>2
      <4> HIDE DEF gateways
      <4> QED BY <2>2, <4>1, Least
    <3>2. i \in gateways
      <4> HIDE DEF gateways
      <4> QED BY <2>2, <3>1
    <3> QED BY <3>2
  <2> QED BY <2>1, <2>2
<1> HIDE DEF i
<1>4. faults' \in Nat /\ (faults' = 0 => faults = 0)
  BY <1>1, <1>2 DEF Fetches, FetchFails, Fine, Fault
<1>5. Described' = Described
  BY <1>1 DEF Described
<1>6. Searched'
  BY <1>1, <1>2, <1>4 DEF GInv, Searched, Early, Done
<1>7. NoneYet'
  <2> SUFFICES ASSUME faults' = 0
               PROVE  /\ \A k \in Described : Rank(DevAt(k))' >= 1 /\ ~(k < 1)
                      /\ Described = {} => urls' = NULL
    <3>1. \A k \in Described : (k < nth)' = (k < 1)
      BY <1>1
    <3> QED BY <1>1, <1>5, <3>1 DEF NoneYet
  <2>1. \A k \in Described : Rank(DevAt(k))' >= 1 /\ ~(k < 1)
    <3> TAKE k \in Described
    <3>1. k \in 1..Len(devlist)
      BY <1>2 DEF Described
    <3>2. Rank(DevAt(k))' \in 1..3
      BY DEF Rank
    <3> QED BY <1>2, <3>1, <3>2
  <2>2. ASSUME Described = {}
        PROVE  urls' = NULL
    <3>1. ~net[dev].served
      BY <1>3, <2>2 DEF Described
    <3> QED BY <1>1, <1>2, <3>1 DEF Fetches
  <2> QED BY <2>1, <2>2
<1> QED BY <1>1, <1>6, <1>7 DEF GInv, Took, Mapped, Done

(* The next device of the round, if the one looked at is not good enough. *)
LEMMA NextDeviceGInv ==
  ASSUME GInv, portfwd = "valid", NextDevice, UNCHANGED <<net, devlist, deviceIndex>>,
         faults' \in Nat, faults' = 0 => faults = 0,
         faults' = 0 =>
            /\ nth \in Described => Rank(DevAt(nth)) > state
            /\ urls' = urls \/ urls' = NULL
  PROVE  GInv'
<1> DEFINE n == Len(devlist)
           r(i) == Rank(DevAt(i))
<1>1. /\ devlist \in Seq(Found) /\ n \in Nat /\ n > 0 /\ DOMAIN devlist = 1..n
      /\ state \in 1..3 /\ nth \in 1..n
  BY DEF GInv, Searched
<1> HIDE DEF n
<1>2. \/ nth < n /\ portfwd' = "valid" /\ nth' = nth + 1 /\ state' = state
      \/ nth = n /\ state < 3 /\ portfwd' = "valid" /\ nth' = 1 /\ state' = state + 1
      \/ nth = n /\ state = 3 /\ portfwd' = "status"
  <2>1. n = Len(devlist) /\ n \in Nat /\ nth \in 1..n /\ state \in 1..3
    BY <1>1 DEF n
  <2>2. CASE nth < n
    BY <2>1, <2>2 DEF NextDevice
  <2>3. CASE ~(nth < n) /\ state < 3
    BY <2>1, <2>3 DEF NextDevice
  <2>4. CASE ~(nth < n) /\ ~(state < 3)
    BY <2>1, <2>4 DEF NextDevice
  <2> QED BY <2>2, <2>3, <2>4
<1>3. Described' = Described /\ \A i : r(i)' = r(i)
  BY DEF Described, Rank, DevAt
<1>4. \A i \in Described : i \in 1..n /\ r(i) \in 1..3
  BY <1>1, RankType DEF Described
<1>5. Searched'
  <2>1. portfwd' = "valid" => state' \in 1..3 /\ nth' \in 1..Len(devlist')
    <3>1. n = Len(devlist') /\ n \in Nat /\ nth \in 1..n /\ state \in 1..3
      BY <1>1 DEF n
    <3> QED BY <1>2, <3>1
  <2>2. portfwd' \in {"valid", "status"} /\ devlist # <<>>
    BY <1>2 DEF GInv, Searched
  <2> QED BY <2>1, <2>2 DEF GInv, Searched, Early, Done
<1> SUFFICES ASSUME faults' = 0
             PROVE  NoneYet' /\ Took'
  BY <1>2, <1>5 DEF GInv, NoneYet, Took, Mapped
<1>6. \A i \in Described : r(i) >= state /\ (i <= nth => r(i) > state)
  <2> TAKE i \in Described
  <2>1. r(i) >= state /\ (i < nth => r(i) > state)
    BY DEF GInv, NoneYet
  <2> QED BY <1>1, <1>4, <2>1
<1>7. Described = {} => urls' = NULL
  BY DEF GInv, NoneYet
<1> HIDE DEF r
<1>8. CASE nth < n /\ portfwd' = "valid" /\ nth' = nth + 1 /\ state' = state
  <2>1. \A i \in Described : r(i) >= state' /\ (i < nth' => r(i) > state')
    BY <1>1, <1>4, <1>6, <1>8
  <2> QED BY <1>3, <1>7, <1>8, <2>1 DEF NoneYet, Took, Done, r
<1>9. CASE nth = n /\ state < 3 /\ portfwd' = "valid" /\ nth' = 1 /\ state' = state + 1
  <2>1. \A i \in Described : r(i) >= state' /\ (i < nth' => r(i) > state')
    BY <1>1, <1>4, <1>6, <1>9
  <2> QED BY <1>3, <1>7, <1>9, <2>1 DEF NoneYet, Took, Done, r
<1>10. CASE nth = n /\ state = 3 /\ portfwd' = "status"
  <2>1. Described = {}
    BY <1>1, <1>4, <1>6, <1>10
  <2> QED BY <1>3, <1>7, <1>10, <2>1 DEF NoneYet, Took
<1> QED BY <1>2, <1>8, <1>9, <1>10

(* A command does what it says, or there is one more fault. *)
LEMMA Commanded ==
  ASSUME NEW v, NEW answer, NEW read, NEW done, Command(v, answer, read, done)
  PROVE  \/ faults' = faults /\ read = (IF v.url = NULL THEN <<>> ELSE answer) /\ done = (v.url # NULL)
         \/ faults' = faults + 1
BY Zenon DEF Command, Fine, Fault

(* In the round whose number is its rank, and in no earlier one, a device is   *)
(* taken.                                                                    *)
LEMMA TakenGInv ==
  ASSUME GInv, portfwd = "valid", UNCHANGED <<net, devlist, deviceIndex>>,
         faults' \in Nat, faults' = 0 => faults = 0 /\ nth \in Described /\ Rank(DevAt(nth)) = state,
         portfwd' = "status", lanaddr' = net[DevAt(nth)].lan, urls'.dev = DevAt(nth)
  PROVE  GInv'
<1>1. Described' = Described /\ \A i : Rank(DevAt(i))' = Rank(DevAt(i)) /\ DevAt(i)' = DevAt(i)
  BY DEF Described, Rank, DevAt
<1>2. Searched'
  BY DEF GInv, Searched, Early, Done
<1>3. ASSUME faults' = 0
      PROVE  IsBest(nth)
  <2>1. faults = 0 /\ nth \in Described /\ Rank(DevAt(nth)) = state
    BY <1>3
  <2> SUFFICES ASSUME NEW j \in Described
               PROVE  \/ Rank(DevAt(nth)) < Rank(DevAt(j))
                      \/ Rank(DevAt(nth)) = Rank(DevAt(j)) /\ nth <= j
    BY <2>1 DEF IsBest
  <2>2. Rank(DevAt(j)) >= state /\ (j < nth => Rank(DevAt(j)) > state)
    BY <2>1 DEF GInv, NoneYet
  <2>3. Rank(DevAt(j)) \in 1..3 /\ state \in 1..3 /\ j \in Nat /\ nth \in Nat
    BY RankType DEF GInv, Searched, Described
  <2> QED BY <2>1, <2>2, <2>3
<1>4. Took'
  <2> SUFFICES ASSUME faults' = 0
               PROVE  \E b \in Described' : IsBest(b)' /\ urls'.dev = DevAt(b)' /\ lanaddr' = (net[DevAt(b)].lan)'
    BY DEF Took
  <2>1. PICK b \in Described : b = nth /\ IsBest(b)
    BY <1>3
  <2>2. IsBest(b)'
    BY <1>1, <2>1 DEF IsBest
  <2>3. urls'.dev = DevAt(b)' /\ lanaddr' = (net[DevAt(b)].lan)'
    BY <1>1, <2>1
  <2> QED BY <1>1, <2>2, <2>3
<1> QED BY <1>2, <1>4 DEF GInv, NoneYet, Mapped

(* a device looked at in the three rounds, *)
LEMMA TryGInv == GInv /\ Try => GInv'
<1> SUFFICES ASSUME GInv, Try
             PROVE  GInv'
  OBVIOUS
<1> DEFINE dev == devlist[nth].dev
           d == parserootdesc(net[dev].xml, NoData)
           u == GetUPNPUrls(dev, d)
           Taken(connected) ==
              /\ lanaddr' = net[dev].lan
              /\ IF Usable(d) /\ Suffices(connected)
                 THEN urls' = u /\ data' = d /\ portfwd' = "status" /\ UNCHANGED <<nth, state>>
                 ELSE urls' = NULL /\ data' = NoData /\ NextDevice
<1>1. portfwd = "valid" /\ UNCHANGED <<net, deviceIndex, devlist>>
  BY DEF Try
<1>2. \/ net[dev].served /\ (~Usable(d) \/ state >= 2) /\ Fine /\ Taken(TRUE)
      \/ /\ net[dev].served /\ Usable(d) /\ state = 1
         /\ \E read \in Reads(StatusReply(u)), done \in BOOLEAN :
               /\ Command(u, StatusReply(u), read, done)
               /\ Taken(UPNPIGD_IsConnected(read))
      \/ /\ FetchFails(dev) /\ NextDevice
         /\ lanaddr' \in {NULL, net[dev].lan}
         /\ UNCHANGED <<urls, data>>
  BY DEF Try
<1>3. /\ faults \in Nat /\ state \in 1..3 /\ nth \in DOMAIN devlist /\ dev \in Devices
      /\ NULL \notin net[dev].online
  <2>1. devlist \in Seq(Found) /\ nth \in 1..Len(devlist) /\ DOMAIN devlist = 1..Len(devlist)
    BY <1>1 DEF GInv, Searched
  <2>2. devlist[nth] \in Found
    BY <2>1
  <2> QED BY <1>1, <2>1, <2>2 DEF GInv, Searched, Found
<1>4. (nth \in Described <=> net[dev].served) /\ dev = DevAt(nth)
  BY <1>3 DEF Described, DevAt
<1>5. Rank(dev) = IF d.cif # CIF THEN 3 ELSE IF d.url \in net[dev].online THEN 1 ELSE 2
  BY DEF Rank
<1>6. u.dev = dev /\ u.url = d.url
  BY DEF GetUPNPUrls
<1>7. Rank(dev) >= state \/ ~(nth \in Described) \/ faults # 0
  BY <1>1, <1>4 DEF GInv, NoneYet
<1> HIDE DEF d, u, dev
<1>8. ASSUME NEW connected, Taken(connected), net[dev].served, faults' \in Nat, faults' = 0 => faults = 0,
             faults' = 0 => (Usable(d) /\ Suffices(connected) <=> Rank(dev) = state)
      PROVE  GInv'
  <2>1. CASE Usable(d) /\ Suffices(connected)
    BY <1>1, <1>4, <1>6, <1>8, <2>1, TakenGInv
  <2>2. CASE ~(Usable(d) /\ Suffices(connected))
    <3>1. NextDevice /\ urls' = NULL
      BY <1>8, <2>2
    <3>2. faults' = 0 => Rank(dev) > state
      <4>1. Rank(dev) \in 1..3
        BY RankType
      <4> QED BY <1>3, <1>4, <1>7, <1>8, <2>2, <4>1
    <3> QED BY <1>1, <1>4, <1>8, <3>1, <3>2, NextDeviceGInv
  <2> QED BY <2>1, <2>2
<1>9. CASE net[dev].served /\ (~Usable(d) \/ state >= 2) /\ Fine /\ Taken(TRUE)
  <2>1. faults' = 0 => (Usable(d) /\ Suffices(TRUE) <=> Rank(dev) = state)
    BY <1>3, <1>4, <1>5, <1>7, <1>9 DEF Usable, Suffices, Fine
  <2> QED BY <1>3, <1>8, <1>9, <2>1 DEF Fine
<1>10. ASSUME net[dev].served, Usable(d), state = 1,
              NEW read, NEW done, Command(u, StatusReply(u), read, done), Taken(UPNPIGD_IsConnected(read))
       PROVE  GInv'
  <2>1. faults' \in Nat /\ (faults' = 0 => faults = 0)
    BY <1>3, <1>10, Commanded
  <2>2. ASSUME faults' = 0
        PROVE  Usable(d) /\ Suffices(UPNPIGD_IsConnected(read)) <=> Rank(dev) = state
    <3>1. read = IF u.url = NULL THEN <<>> ELSE StatusReply(u)
      <4>1. faults' # faults + 1
        BY <1>3, <2>2
      <4> QED BY <1>10, <4>1, Commanded
    <3>2. d.cif = CIF
      BY <1>10 DEF Usable
    <3>3. UPNPIGD_IsConnected(read) <=> d.url \in net[dev].online
      <4>1. CASE u.url = NULL
        <5>1. GetValue(read, "NewConnectionStatus") = NULL
          BY <3>1, <4>1, NoValue
        <5> QED BY <1>3, <1>6, <4>1, <5>1, IgdAssumption DEF UPNPIGD_IsConnected
      <4>2. CASE u.url # NULL
        <5>1. GetValue(read, "NewConnectionStatus") =
                IF d.url \in net[dev].online THEN "Connected" ELSE "Disconnected"
          BY <1>6, <3>1, <4>2, OneValue DEF StatusReply
        <5> QED BY <5>1 DEF UPNPIGD_IsConnected
      <4> QED BY <4>1, <4>2
    <3> QED BY <1>5, <1>10, <3>2, <3>3 DEF Suffices
  <2> QED BY <1>8, <1>10, <2>1, <2>2
<1>11. CASE FetchFails(dev) /\ NextDevice /\ UNCHANGED urls
  <2>1. faults' \in Nat /\ (faults' = 0 => faults = 0 /\ ~net[dev].served)
    BY <1>3, <1>11 DEF FetchFails, Fine, Fault
  <2> QED BY <1>1, <1>4, <1>11, <2>1, NextDeviceGInv
<1> HIDE DEF Taken
<1> QED BY <1>2, <1>9, <1>10, <1>11

(* and what the gateway is asked of its address. *)
LEMMA StatusGInv == GInv /\ GetStatus => GInv'
<1> SUFFICES ASSUME GInv, GetStatus
             PROVE  GInv'
  OBVIOUS
<1>1. portfwd = "status" /\ portfwd' = "inited"
      /\ UNCHANGED <<net, deviceIndex, devlist, state, nth, urls, lanaddr, mappings>>
  BY DEF GetStatus
<1>2. faults' = faults \/ faults' = faults + 1
  <2>1. CASE urls = NULL
    BY <2>1 DEF GetStatus, Fine
  <2>2. CASE urls # NULL
    <3>1. PICK read, done : Command(urls, AddressReply(urls), read, done)
      BY <2>2 DEF GetStatus
    <3> QED BY <3>1, Commanded
  <2> QED BY <2>1, <2>2
<1>3. faults' \in Nat /\ (faults' = 0 => faults = 0)
  BY <1>2 DEF GInv, Searched
<1>4. Described' = Described /\ \A b : IsBest(b)' = IsBest(b) /\ DevAt(b)' = DevAt(b)
  BY <1>1 DEF Described, IsBest, Rank, DevAt
<1>5. Searched'
  BY <1>1, <1>3 DEF GInv, Searched, Early, Done
<1>6. Took'
  BY <1>1, <1>3, <1>4 DEF GInv, Took, Done
<1> QED BY <1>1, <1>5, <1>6 DEF GInv, NoneYet, Mapped

(* Without a fault, what says that the port is added is the gateway that has  *)
(* added it.                                                                 *)
LEMMA AddGInv == GInv /\ Add(m_port % Port16) /\ UNCHANGED m_port => GInv'
<1> SUFFICES ASSUME GInv, Add(m_port % Port16), UNCHANGED m_port
             PROVE  GInv'
  OBVIOUS
<1> DEFINE port == m_port % Port16
           m == [dev |-> urls.dev, port |-> port, to |-> lanaddr]
<1>1. portfwd = "inited" /\ UNCHANGED <<net, deviceIndex, devlist, state, nth, urls, lanaddr>>
  BY DEF Add
<1>2. Described' = Described /\ \A b : IsBest(b)' = IsBest(b) /\ DevAt(b)' = DevAt(b)
  BY <1>1 DEF Described, IsBest, Rank, DevAt
<1>3. CASE urls = NULL
  <2>1. faults' = faults /\ portfwd' = "crashed"
    BY <1>3 DEF Add, Fine
  <2> QED BY <1>1, <2>1 DEF GInv, Searched, NoneYet, Took, Mapped, Early, Done
<1>4. CASE urls # NULL
  <2> HIDE DEF port
  <2>1. PICK read, done :
           /\ Command(urls, MappingReply(urls), read, done)
           /\ mappings' = IF done /\ ~net[urls.dev].refuses THEN mappings \cup {m} ELSE mappings
           /\ portfwd' = IF Added(read) THEN "added" ELSE "failed"
    BY <1>4 DEF Add, port
  <2>2. /\ faults' \in Nat /\ (faults' = 0 => faults = 0)
        /\ faults' = 0 => read = (IF urls.url = NULL THEN <<>> ELSE MappingReply(urls)) /\ done = (urls.url # NULL)
    <3>1. faults \in Nat
      BY DEF GInv, Searched
    <3>2. faults' = faults + 1 => faults' \in Nat /\ faults' # 0
      BY <3>1
    <3> QED BY <2>1, <3>1, <3>2, Commanded, Zenon
  <2>3. portfwd' \in {"added", "failed"}
    BY <2>1
  <2>4. Searched'
    BY <1>1, <2>2, <2>3 DEF GInv, Searched, Early, Done
  <2>5. Took'
    BY <1>1, <1>2, <1>4, <2>2, <2>3 DEF GInv, Took, Done
  <2>6. Mapped'
    <3> SUFFICES ASSUME faults' = 0, portfwd' = "added", urls.url # NULL
                 PROVE  \E x \in mappings' : x.dev = urls.dev /\ x.to = lanaddr /\ x.port = port
      BY <1>1 DEF Mapped, port
    <3>1. done /\ read = MappingReply(urls)
      BY <2>2, Zenon
    <3>2. GetValue(read, "errorCode") = NULL
      BY <2>1 DEF Added
    <3>3. ~net[urls.dev].refuses
      <4> SUFFICES ASSUME net[urls.dev].refuses
                   PROVE  FALSE
        OBVIOUS
      <4>1. GetValue(read, "errorCode") = 718
        BY <3>1, OneValue DEF MappingReply, Refusal
      <4> QED BY <3>2, <4>1, IgdAssumption
    <3>4. mappings' = mappings \cup {m}
      BY <2>1, <3>1, <3>3
    <3>5. m \in mappings' /\ m.dev = urls.dev /\ m.to = lanaddr /\ m.port = port
      BY <3>4
    <3> HIDE DEF m
    <3> QED BY <3>5
  <2> QED BY <2>3, <2>4, <2>5, <2>6 DEF GInv, NoneYet
<1> QED BY <1>3, <1>4

-----------------------------------------------------------------------------
(* setup() as a whole *)

(* A host serves with what parse() and the port forward came to. *)
Set ==
    /\ at \in {"parse", "exited", "forward", "serving"}
    /\ at = "parse" => portfwd = "ssdpd"
    /\ at \in {"forward", "serving"} => parsed = "ok" /\ Detailed
    /\ at = "serving" /\ external # None =>
          /\ ~value["noupnp"] /\ portfwd = "added"
          /\ external.address = m_externalip /\ external.port = m_port

SInv == OInv /\ GInv /\ Set

LEMMA InitSInv == Init => SInv
<1> SUFFICES ASSUME Init
             PROVE  SInv
  OBVIOUS
<1>1. at = "parse" /\ portfwd = "ssdpd"
  BY DEF Init, InitIgd
<1> QED BY <1>1, InitOInv, InitGInv DEF SInv, Set

(* Nothing but the port forward touches what it works with. *)
LEMMA SameGInv == GInv /\ UNCHANGED igdVars /\ (portfwd # "added" \/ UNCHANGED m_port) => GInv'
<1> SUFFICES ASSUME GInv, UNCHANGED igdVars, portfwd # "added" \/ UNCHANGED m_port
             PROVE  GInv'
  OBVIOUS
<1>1. UNCHANGED <<net, portfwd, deviceIndex, devlist, state, nth, urls, lanaddr, mappings, faults>>
  BY DEF igdVars
<1>2. Described' = Described /\ \A b : IsBest(b)' = IsBest(b) /\ DevAt(b)' = DevAt(b)
      /\ Rank(DevAt(b))' = Rank(DevAt(b))
  BY <1>1 DEF Described, IsBest, Rank, DevAt
<1>3. Searched'
  BY <1>1 DEF GInv, Searched
<1>4. NoneYet'
  BY <1>1, <1>2 DEF GInv, NoneYet
<1>5. Took'
  BY <1>1, <1>2 DEF GInv, Took
<1>6. Mapped'
  BY <1>1 DEF GInv, Mapped
<1> QED BY <1>3, <1>4, <1>5, <1>6 DEF GInv

LEMMA ForwardGInv == GInv /\ ForwardStep => GInv'
BY DiscoverGInv, DescribeGInv, TryGInv, StatusGInv, AddGInv DEF ForwardStep, Forwards

(* Each step of setup() keeps all three. *)
LEMMA NextSInv == SInv /\ [Next]_vars => SInv'
<1> SUFFICES ASSUME SInv, [Next]_vars
             PROVE  SInv'
  OBVIOUS
<1>0. OInv'
  BY NextOInv DEF SInv
<1>1. CASE ParseStep
  <2>1. GInv'
    BY <1>1, SameGInv DEF ParseStep, SInv
  <2>2. Set'
    BY <1>1 DEF ParseStep, SInv, Set, igdVars
  <2> QED BY <1>0, <2>1, <2>2 DEF SInv
<1>2. CASE Reject
  <2>1. GInv'
    BY <1>2, SameGInv DEF Reject, SInv
  <2>2. Set'
    BY <1>2 DEF Reject, SInv, Set
  <2> QED BY <1>0, <2>1, <2>2 DEF SInv
<1>3. CASE Connect
  <2>1. portfwd = "ssdpd" /\ UNCHANGED <<optionVars, igdVars>>
    BY <1>3 DEF Connect, SInv, Set
  <2>2. GInv'
    BY <2>1, SameGInv DEF SInv
  <2>3. at' = "forward" /\ parsed' = "ok" /\ Detailed'
    BY <1>3 DEF Connect, Detailed, optionVars
  <2> QED BY <1>0, <2>2, <2>3 DEF SInv, Set
<1>4. CASE ForwardStep
  <2>1. GInv'
    BY <1>4, ForwardGInv DEF SInv
  <2>2. at = "forward" /\ at' = at /\ UNCHANGED optionVars
    BY <1>4 DEF ForwardStep
  <2>3. Set'
    BY <2>2 DEF SInv, Set, Detailed, optionVars
  <2> QED BY <1>0, <2>1, <2>3 DEF SInv
<1>5. CASE StartServent
  <2>1. GInv'
    BY <1>5, SameGInv DEF StartServent, SInv
  <2>2. /\ at = "forward" /\ at' = "serving" /\ UNCHANGED <<optionVars, igdVars, m_port>>
        /\ external' = IF ~value["noupnp"] /\ portfwd = "added"
                       THEN [address |-> m_externalip, port |-> m_port] ELSE None
    BY <1>5 DEF StartServent
  <2>3. Set'
    BY <2>2 DEF SInv, Set, Detailed, optionVars, igdVars
  <2> QED BY <1>0, <2>1, <2>3 DEF SInv
<1>6. CASE StreamStep \/ Environment \/ UNCHANGED vars
  <2>1. UNCHANGED <<optionVars, igdVars, at, m_port, external>>
    BY <1>6 DEF StreamStep, Environment, vars
  <2>2. GInv'
    BY <2>1, SameGInv DEF SInv
  <2>3. Set'
    BY <2>1 DEF SInv, Set, Detailed, optionVars, igdVars
  <2> QED BY <1>0, <2>2, <2>3 DEF SInv
<1> QED BY <1>1, <1>2, <1>3, <1>4, <1>5, <1>6 DEF Next, Runs

(* The three together say what VisibleRight does. *)
LEMMA SInvVisible == SInv => VisibleRight
<1> SUFFICES ASSUME SInv
             PROVE  VisibleRight
  OBVIOUS
<1>1. GatewayRight
  BY GatewayTaken DEF SInv
<1>2. ASSUME at = "serving", NEW o \in Known
      PROVE  Meant(Words, o) = value[o]
  <2>1. parsed = "ok" /\ OptionsMeant
    BY <1>2 DEF SInv, Set, OInv
  <2> QED BY <2>1 DEF OptionsMeant
<1>3. at = "serving" => \A o \in {"user", "pass", "domain"} : Meant(Words, o) \notin {None, ""}
  BY <1>2, StartsAssumption DEF SInv, Set, Detailed, Known
<1>4. ASSUME at = "serving", external # None
      PROVE  /\ ~Meant(Words, "noupnp") /\ external.address = m_externalip
             /\ faults = 0 /\ urls.url # NULL =>
                   \E m \in mappings : /\ m.dev = urls.dev /\ m.to = net[urls.dev].lan
                                       /\ m.port = external.port % Port16
  <2>1. /\ ~value["noupnp"] /\ portfwd = "added" /\ external.address = m_externalip
        /\ external.port = m_port
    BY <1>4 DEF SInv, Set
  <2>2. "noupnp" \in Known
    BY StartsAssumption DEF Known
  <2>3. ~Meant(Words, "noupnp")
    BY <1>2, <1>4, <2>1, <2>2
  <2>4. ASSUME faults = 0, urls.url # NULL
        PROVE  \E m \in mappings : /\ m.dev = urls.dev /\ m.to = net[urls.dev].lan
                                   /\ m.port = external.port % Port16
    <3>1. lanaddr = net[urls.dev].lan
      BY <2>1, <2>4 DEF SInv, GInv, Took, Done
    <3> QED BY <2>1, <2>4, <3>1 DEF SInv, GInv, Mapped
  <2> QED BY <2>1, <2>3, <2>4
<1> QED BY <1>1, <1>3, <1>4 DEF VisibleRight

(* While no request fails, the gateway chosen is the best of those described, *)
(* and a host that is visible externally has its details, has not asked for  *)
(* no UPnP, and has its port, as a port number, mapped to it by that gateway *)
(* (UPNP_GetValidIGD, Portfwd::init and add, conjist::startServent).         *)
THEOREM HostVisibleAsForwarded == Spec => []VisibleRight
BY InitSInv, NextSInv, SInvVisible, PTL DEF Spec

-----------------------------------------------------------------------------
(* The login *)

(* What is written, and the states of the stream. *)
Messages == Own \cup {"iq error", "iq result", "subscribe", "subscribed"}
Parts == Kinds \cup Contacts
Sockets == {"none", "connecting", "open", "encrypting", "encrypted", "lost"}
Logins == [offers : Offers, binds : Binds, accepts : BOOLEAN,
           at : {"new", "encrypted", "authenticated", "bound"}]
Entries == [Contacts -> {"unknown", "from", "both"}]

(* What the server answers, and the client, with something of the login.  A   *)
(* password that was sent before starttls is refused, and starttls answered. *)
Asks == {"stream", "starttls", "auth", "bind", "session"}
Prompts == Offers \cup Binds \cup
           {<<"proceed">>, <<"success">>, <<"bind result">>, <<"session result">>}
Elements == Prompts \cup {<<p>> : p \in Parts}
Eager(s, i) == s[i] = "auth" /\ \E j \in DOMAIN s : j > i /\ s[j] = "starttls"
Asked(s) == {i \in DOMAIN s : s[i] \in Asks /\ ~Eager(s, i)}
Prompted(s) == {i \in DOMAIN s : s[i] \in Prompts}

(* The login begins with b messages for the encryption.  Of t, k messages are *)
(* the client's own: the first k of the plan.                                *)
Begins == {0, 2, 3}
Prelude(b) == IF b = 0 THEN <<>>
              ELSE IF b = 2 THEN <<"stream", "starttls">> ELSE <<"stream", "auth", "starttls">>
Before(v) == Len(Encrypts(v.offers))
Plan(b) == Prelude(b) \o Login
Owned(t, i) == {j \in 1..i : t[j] \in Own}
Planned(t, b) == \A i \in DOMAIN t : t[i] \in Own =>
    /\ Cardinality(Owned(t, i)) <= Len(Plan(b))
    /\ t[i] = Plan(b)[Cardinality(Owned(t, i))]
Goes(t, b, k) ==
    /\ b \in Begins /\ k \in 0..Len(Plan(b)) /\ k = Cardinality(Owned(t, Len(t)))
    /\ Planned(t, b)

(* How far the login and the server v are while a message is under way, *)
Encrypted(v, b, k) == b # 0 /\ k = b /\ v.at = "encrypted"
SentDue(v, m, b, k) ==
    \/ m = "stream" /\ k = 1 /\ v.at = "new"
    \/ m = "stream" /\ k = b + 1 /\ v.at = "encrypted"
    \/ m = "stream" /\ k = b + 3 /\ v.at = "authenticated"
    \/ m = "starttls" /\ b # 0 /\ k = b /\ v.at = "new"
    \/ m = "auth" /\ k = b + 2
    \/ m = "bind" /\ k = b + 4
    \/ m = "session" /\ k = b + 5
(* and an element. *)
WireDue(v, e, b, k) ==
    \/ e = v.offers /\ k = 1 /\ v.at = "new"
    \/ e = <<"mechanisms">> /\ k = b + 1
    \/ e = <<"proceed">> /\ Encrypted(v, b, k)
    \/ e = <<"success">> /\ k = b + 2 /\ v.at = "authenticated"
    \/ e \in Binds /\ k = b + 3
    \/ e = <<"bind result">> /\ k = b + 4
    \/ e = <<"session result">> /\ k = b + 5

(* No two are under way at once. *)
AsksDue(v, s, b, k) ==
    /\ \A i, j \in Asked(s) : i = j
    /\ \A i \in Asked(s) : SentDue(v, s[i], b, k)
PromptsDue(v, s, b, k) ==
    /\ \A i, j \in Prompted(s) : i = j
    /\ \A i \in Prompted(s) : WireDue(v, s[i], b, k)
SocketDue(v, sock, b, k) ==
    /\ sock \in {"none", "connecting"} => k = 0 /\ v.at = "new"
    /\ sock = "encrypting" => Encrypted(v, b, k)

(* At most one message, element or new socket is under way that the login    *)
(* goes on with.                                                             *)
XTypes ==
    /\ server \in Logins /\ sent \in Seq(Messages) /\ told \in Seq(Messages)
    /\ wire \in Seq(Elements) /\ socket \in Sockets /\ m_sessionAvaliable \in BOOLEAN
    /\ roster \in Entries
    /\ at \in {"parse", "exited"} => socket = "none"
    /\ socket \in {"none", "connecting", "encrypting"} => Asked(sent) = {} /\ Prompted(wire) = {}
    /\ Asked(sent) = {} \/ Prompted(wire) = {}
Progress(b, k) ==
    /\ b = Before(server)
    /\ Goes(told, b, k) /\ AsksDue(server, sent, b, k)
    /\ PromptsDue(server, wire, b, k) /\ SocketDue(server, socket, b, k)
(* The invariant of the login. *)
XInv == XTypes /\ \E b \in Begins, k \in 0..10 : Progress(b, k)

(* What the client writes of its own. *)
LEMMA OwnIs == Own = {"stream", "starttls", "auth", "bind", "session", "roster", "presence"}
<1>1. DOMAIN Login = 1..7
  BY DEF Login
<1>2. Range(Login) = {Login[i] : i \in 1..7}
  BY <1>1 DEF Range
<1>3. Range(Login) = {Login[1], Login[2], Login[3], Login[4], Login[5], Login[6], Login[7]}
  BY <1>2
<1> QED BY <1>3 DEF Own, Login

(* What is where in two sequences one after the other. *)
LEMMA ConcatAt ==
  ASSUME NEW A, NEW x \in Seq(A), NEW y \in Seq(A)
  PROVE  /\ x \o y \in Seq(A) /\ Len(x \o y) = Len(x) + Len(y)
         /\ \A i \in 1..Len(x) : (x \o y)[i] = x[i]
         /\ \A i \in 1..Len(y) : (x \o y)[Len(x) + i] = y[i]
OBVIOUS

(* The plans, message by message. *)
LEMMA PlanIs ==
  \A b \in Begins :
     /\ Plan(b)[1] = "stream" /\ (b # 0 => Plan(b)[b] = "starttls") /\ (b = 3 => Plan(b)[2] = "auth")
     /\ Plan(b)[b + 1] = "stream" /\ Plan(b)[b + 2] = "auth"
     /\ Plan(b)[b + 3] = "stream" /\ Plan(b)[b + 4] = "bind"
     /\ Plan(b)[b + 5] = "session" /\ Plan(b)[b + 6] = "roster"
     /\ Plan(b)[b + 7] = "presence" /\ Len(Plan(b)) = b + 7
<1> DEFINE S == {"stream", "starttls", "auth", "bind", "session", "roster", "presence"}
<1>1. Login \in Seq(S) /\ Len(Login) = 7
  <2>1. <<"stream", "auth", "stream", "bind", "session", "roster", "presence">> \in Seq(S)
    OBVIOUS
  <2>2. Len(<<"stream", "auth", "stream", "bind", "session", "roster", "presence">>) = 7
    OBVIOUS
  <2> HIDE DEF S
  <2> QED BY <2>1, <2>2 DEF Login
<1>2. /\ Login[1] = "stream" /\ Login[2] = "auth" /\ Login[3] = "stream" /\ Login[4] = "bind"
      /\ Login[5] = "session" /\ Login[6] = "roster" /\ Login[7] = "presence"
  BY DEF Login
<1>3. ASSUME NEW b \in Begins
      PROVE  /\ Prelude(b) \in Seq(S) /\ Len(Prelude(b)) = b
             /\ b # 0 => Prelude(b)[1] = "stream" /\ Prelude(b)[b] = "starttls"
             /\ b = 3 => Prelude(b)[2] = "auth"
  <2>1. <<"stream", "starttls">> \in Seq(S) /\ <<"stream", "auth", "starttls">> \in Seq(S)
        /\ <<>> \in Seq(S)
    OBVIOUS
  <2> HIDE DEF S
  <2>2. CASE b = 0
    BY <2>1, <2>2 DEF Prelude
  <2>3. CASE b = 2
    BY <2>1, <2>3 DEF Prelude
  <2>4. CASE b = 3
    BY <2>1, <2>4 DEF Prelude
  <2> QED BY <2>2, <2>3, <2>4 DEF Begins
<1> HIDE DEF S
<1> SUFFICES ASSUME NEW b \in Begins
             PROVE  /\ Plan(b)[1] = "stream" /\ (b # 0 => Plan(b)[b] = "starttls")
                    /\ (b = 3 => Plan(b)[2] = "auth")
                    /\ Plan(b)[b + 1] = "stream" /\ Plan(b)[b + 2] = "auth"
                    /\ Plan(b)[b + 3] = "stream" /\ Plan(b)[b + 4] = "bind"
                    /\ Plan(b)[b + 5] = "session" /\ Plan(b)[b + 6] = "roster"
                    /\ Plan(b)[b + 7] = "presence" /\ Len(Plan(b)) = b + 7
  OBVIOUS
<1> DEFINE x == Prelude(b)
           p == Plan(b)
<1>4. /\ Len(p) = b + 7 /\ \A i \in 1..b : p[i] = x[i]
      /\ \A i \in 1..7 : p[b + i] = Login[i]
  <2>1. x \in Seq(S) /\ Len(x) = b
    BY <1>3
  <2> HIDE DEF x
  <2>2. p = x \o Login
    BY DEF Plan, x
  <2> HIDE DEF p
  <2>3. /\ Len(x \o Login) = Len(x) + Len(Login)
        /\ \A i \in 1..Len(x) : (x \o Login)[i] = x[i]
        /\ \A i \in 1..Len(Login) : (x \o Login)[Len(x) + i] = Login[i]
    <3>1. x \in Seq(S) /\ Login \in Seq(S)
      BY <1>1, <2>1
    <3>2. Len(x \o Login) = Len(x) + Len(Login)
      BY <3>1
    <3>3. \A i \in 1..Len(x) : (x \o Login)[i] = x[i]
      BY <3>1
    <3>4. \A i \in 1..Len(Login) : (x \o Login)[Len(x) + i] = Login[i]
      BY <3>1
    <3> QED BY <3>2, <3>3, <3>4
  <2> QED BY <1>1, <2>1, <2>2, <2>3
<1>5. b \in {0, 2, 3}
  BY DEF Begins
<1>6. /\ p[b + 1] = "stream" /\ p[b + 2] = "auth" /\ p[b + 3] = "stream" /\ p[b + 4] = "bind"
      /\ p[b + 5] = "session" /\ p[b + 6] = "roster" /\ p[b + 7] = "presence"
  <2> HIDE DEF p
  <2> QED BY <1>2, <1>4
<1>7. p[1] = "stream" /\ (b # 0 => p[b] = "starttls") /\ (b = 3 => p[2] = "auth")
  <2>1. CASE b = 0
    BY <1>6, <2>1
  <2>2. CASE b # 0
    <3>1. 1 \in 1..b /\ b \in 1..b /\ (b = 3 => 2 \in 1..b)
      BY <1>5, <2>2
    <3> HIDE DEF p, x
    <3>2. x[1] = "stream" /\ x[b] = "starttls" /\ (b = 3 => x[2] = "auth")
      BY <1>3, <2>2 DEF x
    <3> QED BY <1>4, <2>2, <3>1, <3>2
  <2> QED BY <2>1, <2>2
<1> QED BY <1>4, <1>6, <1>7

(* What each of the server's offers begins the login with. *)
LEMMA OffersAre ==
  /\ Encrypts(<<"mechanisms">>) = Prelude(0)
  /\ Encrypts(<<"starttls">>) = Prelude(2)
  /\ Encrypts(<<"starttls", "mechanisms">>) = Prelude(2)
  /\ Encrypts(<<"mechanisms", "starttls">>) = Prelude(3)
  /\ Len(Prelude(0)) = 0 /\ Len(Prelude(2)) = 2 /\ Len(Prelude(3)) = 3
  /\ <<"starttls", "mechanisms">> # <<"mechanisms", "starttls">>
<1>1. /\ <<"starttls">> # <<"mechanisms">> /\ <<"starttls", "mechanisms">> # <<"mechanisms">>
      /\ <<"mechanisms", "starttls">> # <<"mechanisms">>
      /\ <<"starttls">> # <<"mechanisms", "starttls">>
      /\ <<"starttls", "mechanisms">> # <<"mechanisms", "starttls">>
  <2>1. /\ <<"starttls">>[1] # <<"mechanisms">>[1]
        /\ <<"starttls", "mechanisms">>[1] # <<"mechanisms">>[1]
        /\ Len(<<"mechanisms", "starttls">>) # Len(<<"mechanisms">>)
        /\ Len(<<"starttls">>) # Len(<<"mechanisms", "starttls">>)
        /\ <<"starttls", "mechanisms">>[1] # <<"mechanisms", "starttls">>[1]
    OBVIOUS
  <2> QED BY <2>1
<1> QED BY <1>1 DEF Encrypts, Prelude

(* A login that begins with the encryption is one that requires it. *)
LEMMA BeginsIs ==
  ASSUME NEW v \in Logins
  PROVE  /\ Before(v) \in Begins /\ Encrypts(v.offers) = Prelude(Before(v))
         /\ Before(v) # 0 => "starttls" \in Range(v.offers)
<1>1. v.offers \in Offers
  BY DEF Logins
<1>2. /\ "starttls" \in Range(<<"starttls">>) /\ "starttls" \in Range(<<"starttls", "mechanisms">>)
      /\ "starttls" \in Range(<<"mechanisms", "starttls">>)
  <2>1. /\ 1 \in DOMAIN <<"starttls">> /\ <<"starttls">>[1] = "starttls"
        /\ 1 \in DOMAIN <<"starttls", "mechanisms">> /\ <<"starttls", "mechanisms">>[1] = "starttls"
        /\ 2 \in DOMAIN <<"mechanisms", "starttls">> /\ <<"mechanisms", "starttls">>[2] = "starttls"
    OBVIOUS
  <2> QED BY <2>1 DEF Range
<1>3. CASE v.offers = <<"mechanisms">>
  BY <1>3, OffersAre DEF Before, Begins
<1>4. CASE v.offers \in {<<"starttls">>, <<"starttls", "mechanisms">>}
  BY <1>2, <1>4, OffersAre DEF Before, Begins
<1>5. CASE v.offers = <<"mechanisms", "starttls">>
  BY <1>2, <1>5, OffersAre DEF Before, Begins
<1> QED BY <1>1, <1>3, <1>4, <1>5 DEF Offers

(* The own messages up to a place: finite, unchanged by later ones, growing. *)
LEMMA OwnedIs ==
  ASSUME NEW t \in Seq(Messages), NEW i \in 0..Len(t)
  PROVE  /\ IsFiniteSet(Owned(t, i)) /\ Cardinality(Owned(t, i)) \in Nat
         /\ \A m \in Messages : Owned(Append(t, m), i) = Owned(t, i)
         /\ \A j \in 0..i : Cardinality(Owned(t, j)) <= Cardinality(Owned(t, i))
<1>1. ASSUME NEW j \in 0..Len(t)
      PROVE  IsFiniteSet(Owned(t, j)) /\ Cardinality(Owned(t, j)) \in Nat
  <2>1. IsFiniteSet(1..j)
    BY FS_Interval
  <2> QED BY <2>1, FS_Subset, FS_CardinalityType DEF Owned
<1>2. \A m \in Messages : Owned(Append(t, m), i) = Owned(t, i)
  <2> TAKE m \in Messages
  <2>1. \A j \in 1..i : Append(t, m)[j] = t[j]
    OBVIOUS
  <2> QED BY <2>1 DEF Owned
<1>3. ASSUME NEW j \in 0..i
      PROVE  Cardinality(Owned(t, j)) <= Cardinality(Owned(t, i))
  <2>1. Owned(t, j) \subseteq Owned(t, i)
    BY DEF Owned
  <2> QED BY <1>1, <2>1, FS_Subset
<1> QED BY <1>1, <1>2, <1>3

(* One more message: not the client's own, or the next of the plan. *)
LEMMA GoesOn ==
  ASSUME NEW t \in Seq(Messages), NEW m \in Messages, NEW b, NEW k, Goes(t, b, k),
         m \in Own => k < Len(Plan(b)) /\ m = Plan(b)[k + 1]
  PROVE  Goes(Append(t, m), b, IF m \in Own THEN k + 1 ELSE k)
<1> DEFINE u == Append(t, m)
           n == Len(t)
<1>1. /\ n \in Nat /\ u \in Seq(Messages) /\ Len(u) = n + 1 /\ u[n + 1] = m
      /\ DOMAIN t = 1..n /\ DOMAIN u = 1..(n + 1) /\ \A i \in 1..n : u[i] = t[i]
  OBVIOUS
<1>2. Len(Plan(b)) \in Nat /\ k \in Nat /\ b \in Begins /\ b \in Nat /\ k <= Len(Plan(b))
  <2>1. b \in Begins /\ k \in 0..Len(Plan(b))
    BY DEF Goes
  <2>2. Len(Plan(b)) = b + 7
    BY <2>1, PlanIs
  <2>3. b \in Nat
    BY <2>1 DEF Begins
  <2> QED BY <2>1, <2>2, <2>3
<1>3. \A i \in 0..n : Owned(u, i) = Owned(t, i)
  BY OwnedIs
<1>4. IsFiniteSet(Owned(t, n)) /\ Cardinality(Owned(t, n)) = k /\ n + 1 \notin Owned(t, n)
  <2>1. n \in 0..Len(t)
    BY <1>1
  <2>2. IsFiniteSet(Owned(t, n))
    BY <2>1, OwnedIs
  <2>3. Owned(t, n) \subseteq 1..n
    BY DEF Owned
  <2> QED BY <1>1, <2>2, <2>3 DEF Goes
<1>5. Owned(u, n + 1) = IF m \in Own THEN Owned(t, n) \cup {n + 1} ELSE Owned(t, n)
  BY <1>1 DEF Owned
<1>6. Cardinality(Owned(u, n + 1)) = IF m \in Own THEN k + 1 ELSE k
  BY <1>4, <1>5, FS_AddElement
<1> HIDE DEF u, n
<1>7. ASSUME NEW i \in DOMAIN u, u[i] \in Own
      PROVE  Cardinality(Owned(u, i)) <= Len(Plan(b)) /\ u[i] = Plan(b)[Cardinality(Owned(u, i))]
  <2>1. CASE i = n + 1
    BY <1>1, <1>2, <1>6, <1>7, <2>1
  <2>2. CASE i \in 1..n
    <3>1. u[i] = t[i] /\ i \in DOMAIN t /\ Owned(u, i) = Owned(t, i)
      BY <1>1, <1>3, <2>2
    <3> QED BY <1>7, <3>1 DEF Goes, Planned
  <2> QED BY <1>1, <2>1, <2>2
<1>8. Planned(u, b)
  BY <1>7 DEF Planned
<1>9. (IF m \in Own THEN k + 1 ELSE k) \in 0..Len(Plan(b))
  BY <1>2
<1> QED BY <1>1, <1>2, <1>6, <1>8, <1>9 DEF Goes, u

(* What one more message, or an element less, does to what is under way. *)
LEMMA AskedAppend ==
  ASSUME NEW s \in Seq(Messages), NEW m \in Messages, NEW v, NEW b, NEW k
  PROVE  /\ m \notin Asks => /\ Asked(Append(s, m)) = Asked(s)
                             /\ AsksDue(v, s, b, k) => AsksDue(v, Append(s, m), b, k)
         /\ Asked(s) = {} /\ SentDue(v, m, b, k) => AsksDue(v, Append(s, m), b, k)
<1> DEFINE u == Append(s, m)
           n == Len(s)
<1>1. /\ n \in Nat /\ DOMAIN s = 1..n /\ DOMAIN u = 1..(n + 1) /\ u[n + 1] = m
      /\ \A i \in 1..n : u[i] = s[i]
  OBVIOUS
<1> HIDE DEF u, n
<1>2. ASSUME m \notin Asks
      PROVE  Asked(u) = Asked(s)
  <2>1. m # "starttls"
    BY <1>2 DEF Asks
  <2>2. \A i \in 1..n : Eager(u, i) <=> Eager(s, i)
    BY <1>1, <2>1 DEF Eager
  <2>3. \A i \in 1..(n + 1) : i = n + 1 \/ i \in 1..n
    BY <1>1
  <2> QED BY <1>1, <1>2, <2>2, <2>3 DEF Asked
<1>3. \A i \in Asked(s) : u[i] = s[i]
  BY <1>1 DEF Asked
<1>4. ASSUME Asked(s) = {}, SentDue(v, m, b, k)
      PROVE  AsksDue(v, u, b, k)
  <2>1. \A i \in Asked(u) : i = n + 1
    <3> TAKE i \in Asked(u)
    <3>1. i \in 1..(n + 1) /\ u[i] \in Asks
      BY <1>1 DEF Asked
    <3>2. i \notin 1..n
      BY <1>1, <1>4, <3>1 DEF Asked, Eager
    <3> QED BY <1>1, <3>1, <3>2
  <2> QED BY <1>1, <1>4, <2>1 DEF AsksDue
<1> QED BY <1>2, <1>3, <1>4 DEF AsksDue, u

(* A password before starttls is not asked with, starttls is. *)
LEMMA AskedBoth ==
  ASSUME NEW s \in Seq(Messages), NEW v, NEW b, NEW k, Asked(s) = {}, SentDue(v, "starttls", b, k)
  PROVE  AsksDue(v, Append(Append(s, "auth"), "starttls"), b, k)
<1> DEFINE u == Append(Append(s, "auth"), "starttls")
           n == Len(s)
<1>1. /\ n \in Nat /\ DOMAIN s = 1..n /\ DOMAIN u = 1..(n + 2)
      /\ u[n + 1] = "auth" /\ u[n + 2] = "starttls" /\ \A i \in 1..n : u[i] = s[i] /\ i \in 1..(n + 2)
  OBVIOUS
<1> HIDE DEF u, n
<1>2. \A i \in Asked(u) : i = n + 2
  <2> TAKE i \in Asked(u)
  <2>1. i \in 1..(n + 2) /\ u[i] \in Asks /\ ~Eager(u, i)
    BY <1>1 DEF Asked
  <2>2. i # n + 1
    BY <1>1, <2>1 DEF Eager
  <2>3. i \notin 1..n
    <3> SUFFICES ASSUME i \in 1..n
                 PROVE  FALSE
      OBVIOUS
    <3>1. Eager(s, i) => Eager(u, i)
      BY <1>1 DEF Eager
    <3> QED BY <1>1, <2>1, <3>1 DEF Asked
  <2> QED BY <1>1, <2>1, <2>2, <2>3
<1> QED BY <1>1, <1>2 DEF AsksDue, u

(* Of two parts one at most asks for something. *)
LEMMA AskedConcat ==
  ASSUME NEW s \in Seq(Messages), NEW t \in Seq(Messages), NEW v, NEW b, NEW k
  PROVE  /\ Asked(s) = {} /\ AsksDue(v, t, b, k) => AsksDue(v, s \o t, b, k)
         /\ Asked(t) = {} /\ AsksDue(v, s, b, k) => AsksDue(v, s \o t, b, k)
         /\ Asked(s) = {} /\ Asked(t) = {} => Asked(s \o t) = {}
<1> DEFINE u == s \o t
           n == Len(s)
           m == Len(t)
<1>1. /\ n \in Nat /\ m \in Nat /\ DOMAIN s = 1..n /\ DOMAIN t = 1..m /\ DOMAIN u = 1..(n + m)
      /\ \A i \in 1..n : u[i] = s[i]
      /\ \A i \in (n + 1)..(n + m) : i - n \in 1..m /\ u[i] = t[i - n]
  OBVIOUS
<1> HIDE DEF u, n, m
<1>2. \A i \in Asked(u) : /\ i \in 1..n => i \in Asked(s) /\ u[i] = s[i]
                          /\ i \notin 1..n => i - n \in Asked(t) /\ u[i] = t[i - n] /\ i \in Int
  <2> TAKE i \in Asked(u)
  <2>1. i \in 1..(n + m) /\ u[i] \in Asks /\ ~Eager(u, i)
    BY <1>1 DEF Asked
  <2>2. CASE i \in 1..n
    <3>1. ~Eager(s, i)
      BY <1>1, <2>1, <2>2 DEF Eager
    <3> QED BY <1>1, <2>1, <2>2, <3>1 DEF Asked
  <2>3. CASE i \in (n + 1)..(n + m)
    <3>1. i - n \in 1..m /\ u[i] = t[i - n]
      BY <1>1, <2>3
    <3>2. ASSUME NEW j \in 1..m, j > i - n, t[j] = "starttls"
          PROVE  Eager(u, i) \/ t[i - n] # "auth"
      <4>1. n + j \in (n + 1)..(n + m) /\ n + j > i /\ (n + j) - n = j /\ n + j \in 1..(n + m)
        BY <1>1, <2>3, <3>2
      <4>2. u[n + j] = "starttls"
        BY <1>1, <3>2, <4>1
      <4> QED BY <1>1, <3>1, <4>1, <4>2 DEF Eager
    <3>3. ~Eager(t, i - n)
      BY <1>1, <2>1, <3>2 DEF Eager
    <3> QED BY <1>1, <2>1, <2>3, <3>1, <3>3 DEF Asked
  <2> QED BY <1>1, <2>1, <2>2, <2>3
<1>3. ASSUME Asked(s) = {}, AsksDue(v, t, b, k)
      PROVE  AsksDue(v, u, b, k)
  <2>1. \A i \in Asked(u) : i - n \in Asked(t) /\ u[i] = t[i - n] /\ i \in Int
    BY <1>2, <1>3
  <2>2. \A i, j \in Asked(u) : i - n = j - n /\ i \in Int /\ j \in Int
    BY <1>3, <2>1 DEF AsksDue
  <2>3. \A i, j \in Asked(u) : i = j
    BY <1>1, <2>2
  <2> QED BY <1>3, <2>1, <2>3 DEF AsksDue
<1>4. ASSUME Asked(t) = {}, AsksDue(v, s, b, k)
      PROVE  AsksDue(v, u, b, k)
  BY <1>2, <1>4 DEF AsksDue
<1>5. Asked(s) = {} /\ Asked(t) = {} => Asked(u) = {}
  BY <1>2
<1> QED BY <1>3, <1>4, <1>5 DEF u

(* What is read first, or the rest, asks for something. *)
LEMMA AskedTail ==
  ASSUME NEW s \in Seq(Messages), s # <<>>, NEW v, NEW b, NEW k, AsksDue(v, s, b, k)
  PROVE  /\ Tail(s) \in Seq(Messages) /\ AsksDue(v, Tail(s), b, k) /\ Head(s) \in Messages
         /\ Head(s) \in Asks => (\/ Asked(Tail(s)) = {} /\ SentDue(v, Head(s), b, k) /\ Asked(s) # {}
                                 \/ Head(s) = "auth" /\ b # 0 /\ v.at = "new" /\ Asked(s) # {})
         /\ Asked(s) = {} => Head(s) \notin Asks /\ Asked(Tail(s)) = {}
<1> DEFINE t == Tail(s)
           n == Len(s)
<1>1. /\ n \in Nat /\ 1 \in 1..n /\ DOMAIN s = 1..n /\ DOMAIN t = 1..(n - 1) /\ Head(s) = s[1]
      /\ t \in Seq(Messages) /\ s[1] \in Messages
      /\ \A i \in 1..(n - 1) : i + 1 \in 1..n /\ t[i] = s[i + 1] /\ i \in Int /\ i + 1 # 1
  OBVIOUS
<1> HIDE DEF t, n
<1>2. ASSUME NEW i \in Asked(t)
      PROVE  i + 1 \in Asked(s) /\ t[i] = s[i + 1] /\ i \in Int /\ i + 1 # 1
  <2>1. i \in 1..(n - 1) /\ t[i] \in Asks /\ ~Eager(t, i)
    BY <1>1 DEF Asked
  <2>2. i + 1 \in 1..n /\ t[i] = s[i + 1] /\ i \in Int /\ i + 1 # 1
    BY <1>1, <2>1
  <2>3. ASSUME NEW j \in 1..n, j > i + 1, s[j] = "starttls", s[i + 1] = "auth"
        PROVE  Eager(t, i)
    <3>1. j - 1 \in 1..(n - 1) /\ j - 1 > i /\ (j - 1) + 1 = j
      BY <1>1, <2>1, <2>3
    <3>2. t[j - 1] = "starttls"
      BY <1>1, <2>3, <3>1
    <3> QED BY <1>1, <2>2, <2>3, <3>1, <3>2 DEF Eager
  <2>4. ~Eager(s, i + 1)
    BY <1>1, <2>1, <2>3 DEF Eager
  <2> QED BY <1>1, <2>1, <2>2, <2>4 DEF Asked
<1>3. \A i, j \in Asked(t) : i = j
  <2>1. \A i, j \in Asked(t) : i + 1 = j + 1 /\ i \in Int /\ j \in Int
    BY <1>2 DEF AsksDue
  <2> QED BY <2>1
<1>4. s[1] \in Asks => 1 \in Asked(s) \/ Eager(s, 1)
  BY <1>1 DEF Asked
<1>5. 1 \in Asked(s) => Asked(t) = {} /\ SentDue(v, s[1], b, k)
  BY <1>2 DEF AsksDue
<1>6. ASSUME Eager(s, 1)
      PROVE  s[1] = "auth" /\ b # 0 /\ v.at = "new" /\ Asked(s) # {}
  <2>1. PICK j \in 1..n : s[j] = "starttls" /\ s[1] = "auth"
    BY <1>1, <1>6 DEF Eager
  <2>2. j \in Asked(s)
    BY <1>1, <2>1 DEF Asked, Asks, Eager
  <2>3. SentDue(v, "starttls", b, k)
    BY <2>1, <2>2 DEF AsksDue
  <2> QED BY <2>1, <2>2, <2>3 DEF SentDue
<1>7. AsksDue(v, t, b, k)
  BY <1>2, <1>3 DEF AsksDue
<1>8. Asked(s) = {} => s[1] \notin Asks /\ Asked(t) = {}
  BY <1>2, <1>4, <1>6
<1> QED BY <1>1, <1>4, <1>5, <1>6, <1>7, <1>8 DEF t

(* The same of the elements. *)
LEMMA PromptedConcat ==
  ASSUME NEW s \in Seq(Elements), NEW t \in Seq(Elements), NEW v, NEW b, NEW k
  PROVE  /\ Prompted(s) = {} /\ PromptsDue(v, t, b, k) => PromptsDue(v, s \o t, b, k)
         /\ Prompted(t) = {} /\ PromptsDue(v, s, b, k) => PromptsDue(v, s \o t, b, k)
         /\ Prompted(s) = {} /\ Prompted(t) = {} => Prompted(s \o t) = {}
<1> DEFINE u == s \o t
           n == Len(s)
           m == Len(t)
<1>1. /\ n \in Nat /\ m \in Nat /\ DOMAIN s = 1..n /\ DOMAIN t = 1..m /\ DOMAIN u = 1..(n + m)
      /\ \A i \in 1..n : u[i] = s[i]
      /\ \A i \in (n + 1)..(n + m) : i - n \in 1..m /\ u[i] = t[i - n]
  OBVIOUS
<1> HIDE DEF u, n, m
<1>2. \A i \in Prompted(u) : /\ i \in 1..n => i \in Prompted(s) /\ u[i] = s[i]
                             /\ i \notin 1..n => i - n \in Prompted(t) /\ u[i] = t[i - n] /\ i \in Int
  <2> TAKE i \in Prompted(u)
  <2>1. i \in 1..(n + m) /\ u[i] \in Prompts
    BY <1>1 DEF Prompted
  <2>2. CASE i \in 1..n
    BY <1>1, <2>1, <2>2 DEF Prompted
  <2>3. CASE i \in (n + 1)..(n + m)
    BY <1>1, <2>1, <2>3 DEF Prompted
  <2> QED BY <1>1, <2>1, <2>2, <2>3
<1>3. ASSUME Prompted(s) = {}, PromptsDue(v, t, b, k)
      PROVE  PromptsDue(v, u, b, k)
  <2>1. \A i \in Prompted(u) : i - n \in Prompted(t) /\ u[i] = t[i - n] /\ i \in Int
    BY <1>2, <1>3
  <2>2. \A i, j \in Prompted(u) : i - n = j - n /\ i \in Int /\ j \in Int
    BY <1>3, <2>1 DEF PromptsDue
  <2>3. \A i, j \in Prompted(u) : i = j
    BY <1>1, <2>2
  <2> QED BY <1>3, <2>1, <2>3 DEF PromptsDue
<1>4. ASSUME Prompted(t) = {}, PromptsDue(v, s, b, k)
      PROVE  PromptsDue(v, u, b, k)
  BY <1>2, <1>4 DEF PromptsDue
<1>5. Prompted(s) = {} /\ Prompted(t) = {} => Prompted(u) = {}
  BY <1>2
<1> QED BY <1>3, <1>4, <1>5 DEF u

(* The elements before and after one place: only one part holds a prompt. *)
LEMMA PromptedRest ==
  ASSUME NEW s \in Seq(Elements), NEW n \in 0..Len(s), NEW v, NEW b, NEW k, PromptsDue(v, s, b, k)
  PROVE  LET q == SubSeq(s, 1, n)
             r == SubSeq(s, n + 1, Len(s)) IN
         /\ q \in Seq(Elements) /\ r \in Seq(Elements)
         /\ PromptsDue(v, q, b, k) /\ PromptsDue(v, r, b, k)
         /\ Prompted(q) # {} => Prompted(r) = {}
         /\ Prompted(s) = {} => Prompted(q) = {} /\ Prompted(r) = {}
<1> DEFINE q == SubSeq(s, 1, n)
           r == SubSeq(s, n + 1, Len(s))
           m == Len(s)
<1>1. /\ n \in Nat /\ m \in Nat /\ n <= m /\ DOMAIN s = 1..m /\ DOMAIN q = 1..n /\ DOMAIN r = 1..(m - n)
      /\ q \in Seq(Elements) /\ r \in Seq(Elements)
      /\ \A i \in 1..n : q[i] = s[i] /\ i \in 1..m
      /\ \A i \in 1..(m - n) : r[i] = s[n + i] /\ n + i \in 1..m /\ n + i \notin 1..n /\ i \in Int
  <2>1. /\ n \in Nat /\ m \in Nat /\ n <= m /\ DOMAIN s = 1..m
        /\ q \in Seq(Elements) /\ r \in Seq(Elements)
    OBVIOUS
  <2>2. DOMAIN q = 1..n /\ \A i \in 1..n : q[i] = s[i] /\ i \in 1..m
    OBVIOUS
  <2>3. /\ DOMAIN r = 1..(m - n)
        /\ \A i \in 1..(m - n) : r[i] = s[(n + 1) + i - 1]
    <3>1. n + 1 \in 1..(m + 1) /\ m - (n + 1) + 1 = m - n
      BY <2>1
    <3> QED BY <2>1, <3>1
  <2>4. \A i \in 1..(m - n) : (n + 1) + i - 1 = n + i /\ n + i \in 1..m /\ n + i \notin 1..n /\ i \in Int
    BY <2>1
  <2> HIDE DEF q, r, m
  <2> QED BY <2>1, <2>2, <2>3, <2>4
<1> HIDE DEF q, r, m
<1>2. \A i \in Prompted(q) : i \in Prompted(s) /\ q[i] = s[i] /\ i \in 1..n
  BY <1>1 DEF Prompted
<1>3. \A i \in Prompted(r) : n + i \in Prompted(s) /\ r[i] = s[n + i] /\ n + i \notin 1..n /\ i \in Int
  BY <1>1 DEF Prompted
<1>4. \A i, j \in Prompted(r) : i = j
  <2>1. \A i, j \in Prompted(r) : n + i = n + j /\ i \in Int /\ j \in Int
    BY <1>3 DEF PromptsDue
  <2> QED BY <1>1, <2>1
<1>5. PromptsDue(v, q, b, k) /\ PromptsDue(v, r, b, k)
  BY <1>2, <1>3, <1>4 DEF PromptsDue
<1>6. Prompted(q) # {} => Prompted(r) = {}
  BY <1>2, <1>3 DEF PromptsDue
<1>7. Prompted(s) = {} => Prompted(q) = {} /\ Prompted(r) = {}
  BY <1>2, <1>3
<1> QED BY <1>1, <1>5, <1>6, <1>7 DEF q, r

(* FoldLeft takes the places of a sequence from the last to the first. *)
LEMMA MaxUpTo ==
  ASSUME NEW k \in Nat, NEW s \in SUBSET (1..(k + 1)), k + 1 \in s
  PROVE  Max(s) = k + 1
<1>1. \A y \in s : k + 1 >= y
  OBVIOUS
<1>2. \A x \in s : (\A y \in s : x >= y) => x = k + 1
  BY <1>1
<1>3. \E x \in s : \A y \in s : x >= y
  BY <1>1
<1> QED BY <1>2, <1>3, Zenon DEF Max

(* The last of them is one of them. *)
LEMMA MaxIn ==
  ASSUME NEW k \in Nat, NEW s \in SUBSET (1..k), s # {}
  PROVE  Max(s) \in s
<1> DEFINE D == {k - x : x \in s}
<1>0. \A x \in s : x \in Nat /\ x <= k
  OBVIOUS
<1>1. PICK m \in D : \A y \in D : m <= y
  <2>1. D \in SUBSET Nat
    BY <1>0
  <2>2. D # {}
    OBVIOUS
  <2> QED BY <2>1, <2>2, Least
<1>2. PICK x \in s : m = k - x
  OBVIOUS
<1>3. \A y \in s : x >= y
  <2> TAKE y \in s
  <2>1. k - x <= k - y
    BY <1>1, <1>2
  <2> QED BY <1>0, <2>1
<1> QED BY <1>3, Zenon DEF Max

(* What a fold has come to after each set of places. *)
IsFold(h, n, base, step) == \A s \in SUBSET (1..n) :
    h[s] = IF s = {} THEN base ELSE step[<<h[s \ {Max(s)}], Max(s)>>]

(* A fold over n places is defined: step says what each makes of what the     *)
(* earlier ones made.                                                        *)
LEMMA FoldExists ==
  ASSUME NEW n \in Nat, NEW A, NEW base \in A, NEW step \in [A \X (1..n) -> A]
  PROVE  \E h \in [SUBSET (1..n) -> A] : IsFold(h, n, base, step)
<1> DEFINE Folds(k, h) == \A s \in SUBSET (1..k) :
              h[s] = IF s = {} THEN base ELSE step[<<h[s \ {Max(s)}], Max(s)>>]
           T == {k \in 0..n : \E h \in [SUBSET (1..k) -> A] : Folds(k, h)}
<1>1. 0 \in T
  <2> DEFINE g == [s \in SUBSET (1..0) |-> base]
  <2>1. g \in [SUBSET (1..0) -> A]
    OBVIOUS
  <2>2. \A s \in SUBSET (1..0) : s = {}
    OBVIOUS
  <2>3. Folds(0, g)
    BY <2>2
  <2> HIDE DEF g
  <2>4. \E h \in [SUBSET (1..0) -> A] : Folds(0, h)
    BY <2>1, <2>3
  <2>5. 0 \in 0..n
    OBVIOUS
  <2> HIDE DEF Folds
  <2> QED BY <2>4, <2>5, Zenon
<1>2. ASSUME NEW k \in T, k < n
      PROVE  k + 1 \in T
  <2>0. k \in Nat /\ k + 1 \in 1..n /\ k + 1 \in 0..n /\ 1..k \subseteq 1..(k + 1) /\ k + 1 \notin 1..k
    BY <1>2
  <2>1. PICK h \in [SUBSET (1..k) -> A] : Folds(k, h)
    OBVIOUS
  <2> DEFINE g == [s \in SUBSET (1..(k + 1)) |->
                     IF k + 1 \in s THEN step[<<h[s \ {k + 1}], k + 1>>] ELSE h[s]]
  <2>2. ASSUME NEW s \in SUBSET (1..(k + 1))
        PROVE  /\ s \ {k + 1} \in SUBSET (1..k)
               /\ k + 1 \notin s => s \in SUBSET (1..k)
    BY <2>0
  <2>3. g \in [SUBSET (1..(k + 1)) -> A]
    <3> SUFFICES ASSUME NEW s \in SUBSET (1..(k + 1))
                 PROVE  (IF k + 1 \in s THEN step[<<h[s \ {k + 1}], k + 1>>] ELSE h[s]) \in A
      OBVIOUS
    <3>1. h[s \ {k + 1}] \in A /\ (k + 1 \notin s => h[s] \in A)
      BY <2>2
    <3> QED BY <2>0, <3>1
  <2>4. Folds(k + 1, g)
    <3> SUFFICES ASSUME NEW s \in SUBSET (1..(k + 1))
                 PROVE  g[s] = IF s = {} THEN base ELSE step[<<g[s \ {Max(s)}], Max(s)>>]
      OBVIOUS
    <3>1. CASE k + 1 \in s
      <4>1. Max(s) = k + 1
        BY <2>0, <3>1, MaxUpTo
      <4>2. g[s \ {k + 1}] = h[s \ {k + 1}]
        BY <2>2
      <4>3. g[s] = step[<<h[s \ {k + 1}], k + 1>>]
        BY <3>1
      <4> HIDE DEF g
      <4> QED BY <3>1, <4>1, <4>2, <4>3
    <3>2. CASE k + 1 \notin s
      <4>1. s \in SUBSET (1..k) /\ s \ {Max(s)} \in SUBSET (1..k) /\ s \ {Max(s)} \in SUBSET (1..(k + 1))
        BY <2>0, <2>2, <3>2
      <4>2. g[s] = h[s] /\ g[s \ {Max(s)}] = h[s \ {Max(s)}]
        BY <2>0, <3>2, <4>1
      <4>3. h[s] = IF s = {} THEN base ELSE step[<<h[s \ {Max(s)}], Max(s)>>]
        BY <2>1, <4>1
      <4> HIDE DEF g
      <4> QED BY <4>2, <4>3
    <3> QED BY <3>1, <3>2
  <2> HIDE DEF g
  <2>5. \E x \in [SUBSET (1..(k + 1)) -> A] : Folds(k + 1, x)
    BY <2>3, <2>4
  <2> QED BY <2>0, <2>5
<1>3. T \in SUBSET (0..n)
  OBVIOUS
<1>4. n \in T
  <2> HIDE DEF T
  <2> QED BY <1>1, <1>2, <1>3, UpTo
<1> QED BY <1>4 DEF IsFold

(* What the client makes of one part of an element. *)
Reading == [out : Seq(Messages), session : BOOLEAN, roster : Entries, socket : Sockets, over : BOOLEAN]

(* The kinds of part differ from each other and from all contacts. *)
LEMMA PartIs ==
  ASSUME NEW x \in Reading, NEW p \in Parts
  PROVE  /\ x.over => Part(x, p) = x
         /\ ~x.over =>
            /\ p = "starttls" => Part(x, p) = Required(x)
            /\ p = "mechanisms" => Part(x, p) = Out(x, <<"auth">>)
            /\ p = "bind" => Part(x, p) = Out(x, <<"bind">>)
            /\ p = "session" => Part(x, p) = [x EXCEPT !.session = TRUE]
            /\ p = "proceed" => Part(x, p) = [x EXCEPT !.socket = "encrypting", !.over = TRUE]
            /\ p = "success" => Part(x, p) = Out(x, <<"stream">>)
            /\ p = "session result" => Part(x, p) = Out(x, <<"roster", "presence">>)
            /\ p = "bind result" => Part(x, p) = BindReply(x)
            /\ p = "roster result" =>
                  Part(x, p) = rosterIqReceived(x, [c \in Contacts |-> "both"], <<>>)
            /\ p \in Contacts => Part(x, p) = RosterPush(x, p)
            /\ p = "ping" => Part(x, p) = Out(x, <<"iq error">>)
            /\ p = "subscribe" => Part(x, p) = Subscribe(x)
            /\ p \in {"header", "failure", "presence", "message"} => Part(x, p) = x
<1>1. \A c \in Contacts : c \notin Kinds
  BY ContactsAssumption
<1>2. CASE p \in Contacts
  BY <1>1, <1>2 DEF Part, Kinds
<1>3. CASE p \notin Contacts
  BY <1>1, <1>3 DEF Part, Kinds, Parts
<1> QED BY <1>2, <1>3

(* Writing changes nothing else. *)
LEMMA OutIs ==
  ASSUME NEW x \in Reading, NEW w \in Seq(Messages)
  PROVE  /\ Out(x, w) \in Reading
         /\ Out(x, w).out = x.out \o w /\ Out(x, w).session = x.session
         /\ Out(x, w).socket = x.socket /\ Out(x, w).over = x.over /\ Out(x, w).roster = x.roster
<1>1. x.out \o w \in Seq(Messages)
  BY DEF Reading
<1> QED BY <1>1 DEF Out, Reading

(* Nor does the roster. *)
LEMMA RosterIs ==
  ASSUME NEW x \in Reading, NEW w \in Seq(Messages), NEW entries, NEW y,
         y = rosterIqReceived(x, entries, w),
         \A c \in DOMAIN entries : entries[c] \in {"unknown", "from", "both"}
  PROVE  y \in Reading /\ y.out = x.out \o w /\ y.socket = x.socket /\ y.over = x.over
<1> DEFINE z == Out(x, w)
           new == [c \in Contacts |-> IF c \in DOMAIN entries THEN entries[c] ELSE z.roster[c]]
<1>1. z \in Reading /\ z.out = x.out \o w /\ z.socket = x.socket /\ z.over = x.over
  BY OutIs
<1>2. y = [z EXCEPT !.roster = new]
  BY DEF rosterIqReceived
<1>3. new \in Entries
  BY <1>1 DEF Reading, Entries
<1> HIDE DEF z, new
<1> QED BY <1>1, <1>2, <1>3 DEF Reading

(* The messages that are the client's own, and those that are not. *)
LEMMA MessagesIn ==
  /\ Asks \subseteq Messages /\ {"roster", "presence"} \subseteq Messages
  /\ {"iq error", "iq result", "subscribe", "subscribed"} \subseteq Messages
  /\ {"iq error", "iq result", "subscribe", "subscribed"} \cap (Own \cup Asks) = {}
  /\ Asks \subseteq Own /\ {"roster", "presence"} \subseteq Own \ Asks
BY OwnIs DEF Messages, Asks

(* They are written one or two at a time. *)
LEMMA ShortIn ==
  /\ \A m \in Messages : <<m>> \in Seq(Messages)
  /\ \A m, n \in Messages : <<m, n>> \in Seq(Messages)
  /\ <<>> \in Seq(Messages)
OBVIOUS

(* A message is appended to what was written. *)
LEMMA Appends ==
  ASSUME NEW o \in Seq(Messages), NEW m \in Messages, NEW n \in Messages
  PROVE  /\ o \o <<m>> = Append(o, m) /\ Append(o, m) \in Seq(Messages) /\ o \o <<>> = o
         /\ o \o <<m, n>> = Append(Append(o, m), n) /\ Append(Append(o, m), n) \in Seq(Messages)
OBVIOUS

(* The same after t. *)
LEMMA ConcatAppend ==
  ASSUME NEW t \in Seq(Messages), NEW o \in Seq(Messages), NEW m \in Messages
  PROVE  Append(t \o o, m) = t \o Append(o, m) /\ t \o o \in Seq(Messages)
OBVIOUS

(* No part of the login comes of these, *)
Asides == {<<>>, <<"iq error">>, <<"iq result", "subscribe">>, <<"subscribed">>}
Leads == {"starttls", "mechanisms", "bind", "proceed", "success", "bind result", "session result"}
(* Such a part leaves all else as it was. *)
LEMMA QuietPart ==
  ASSUME NEW x \in Reading, NEW e \in Parts, e \notin Leads \/ x.over
  PROVE  LET y == Part(x, e) IN
         /\ y \in Reading /\ y.socket = x.socket /\ y.over = x.over
         /\ \E w \in Asides : y.out = x.out \o w
<1> DEFINE y == Part(x, e)
<1>0. \A w \in Asides : w \in Seq(Messages)
  BY ShortIn, MessagesIn DEF Asides
<1>a. ASSUME y = x
      PROVE  /\ y \in Reading /\ y.socket = x.socket /\ y.over = x.over
             /\ \E w \in Asides : y.out = x.out \o w
  <2>1. x.out \o <<>> = x.out /\ <<>> \in Asides
    BY DEF Reading, Asides
  <2> QED BY <1>a, <2>1
<1>1. CASE x.over
  BY <1>1, <1>a, PartIs
<1>2. CASE ~x.over /\ e \in {"header", "failure", "presence", "message"}
  BY <1>2, <1>a, PartIs
<1>3. CASE ~x.over /\ e = "ping"
  <2> DEFINE w == <<"iq error">>
  <2>1. y = Out(x, w) /\ w \in Asides
    BY <1>3, PartIs DEF Asides
  <2> HIDE DEF y, w
  <2>2. y \in Reading /\ y.socket = x.socket /\ y.over = x.over /\ y.out = x.out \o w
    BY <1>0, <2>1, OutIs
  <2> QED BY <2>1, <2>2 DEF y
<1>4. CASE ~x.over /\ e = "subscribe"
  <2> DEFINE w == <<"subscribed">>
  <2>1. y = Out(x, w) /\ w \in Asides
    BY <1>4, PartIs DEF Asides, Subscribe
  <2> HIDE DEF y, w
  <2>2. y \in Reading /\ y.socket = x.socket /\ y.over = x.over /\ y.out = x.out \o w
    BY <1>0, <2>1, OutIs
  <2> QED BY <2>1, <2>2 DEF y
<1>5. CASE ~x.over /\ e = "roster result"
  <2> DEFINE entries == [c \in Contacts |-> "both"]
  <2>1. y = rosterIqReceived(x, entries, <<>>) /\ <<>> \in Asides
    BY <1>5, PartIs DEF Asides
  <2>2. \A c \in DOMAIN entries : entries[c] \in {"unknown", "from", "both"}
    OBVIOUS
  <2> HIDE DEF y, entries
  <2> QED BY <1>0, <2>1, <2>2, RosterIs DEF y
<1>6. CASE ~x.over /\ e \in Contacts
  <2> DEFINE entries == [d \in {e} |-> "from"]
             z == rosterIqReceived(x, entries, <<"iq result">>)
  <2>1. y = Out(z, <<"subscribe">>) /\ <<"iq result">> \in Seq(Messages) /\ <<"subscribe">> \in Seq(Messages)
    BY <1>6, PartIs, ShortIn, MessagesIn DEF RosterPush
  <2>2. \A c \in DOMAIN entries : entries[c] \in {"unknown", "from", "both"}
    OBVIOUS
  <2> HIDE DEF y, entries
  <2>3. z \in Reading /\ z.out = x.out \o <<"iq result">> /\ z.socket = x.socket /\ z.over = x.over
    BY <2>1, <2>2, RosterIs
  <2> HIDE DEF z
  <2>4. y \in Reading /\ y.out = z.out \o <<"subscribe">> /\ y.socket = z.socket /\ y.over = z.over
    BY <2>1, <2>3, OutIs
  <2>5. (x.out \o <<"iq result">>) \o <<"subscribe">> = x.out \o <<"iq result", "subscribe">>
    <3>1. x.out \in Seq(Messages)
      BY DEF Reading
    <3>2. "iq result" \in Messages /\ "subscribe" \in Messages
      BY MessagesIn
    <3>3. /\ x.out \o <<"iq result">> = Append(x.out, "iq result")
          /\ Append(x.out, "iq result") \in Seq(Messages)
          /\ x.out \o <<"iq result", "subscribe">> = Append(Append(x.out, "iq result"), "subscribe")
      BY <3>1, <3>2, Appends
    <3>4. Append(x.out, "iq result") \o <<"subscribe">> = Append(Append(x.out, "iq result"), "subscribe")
      BY <3>2, <3>3, Appends
    <3> QED BY <3>3, <3>4
  <2>6. <<"iq result", "subscribe">> \in Asides
    BY DEF Asides
  <2> QED BY <2>3, <2>4, <2>5, <2>6 DEF y
<1>7. CASE ~x.over /\ e = "session"
  <2>1. y = [x EXCEPT !.session = TRUE] /\ x.out \o <<>> = x.out /\ <<>> \in Asides
    <3>1. y = [x EXCEPT !.session = TRUE]
      BY <1>7, PartIs
    <3>2. x.out \o <<>> = x.out /\ <<>> \in Asides
      BY DEF Reading, Asides
    <3> HIDE DEF y
    <3> QED BY <3>1, <3>2
  <2> HIDE DEF y
  <2>2. y \in Reading /\ y.socket = x.socket /\ y.over = x.over /\ y.out = x.out
    BY <2>1 DEF Reading
  <2> QED BY <2>1, <2>2 DEF y
<1>8. ~x.over => e \in {"header", "failure", "presence", "message", "ping", "subscribe", "roster result",
                        "session"} \cup Contacts
  BY DEF Parts, Kinds, Leads
<1> QED BY <1>1, <1>2, <1>3, <1>4, <1>5, <1>6, <1>7, <1>8

(* but it goes on with these. *)
LEMMA LeadPart ==
  ASSUME NEW x \in Reading, NEW p \in Leads, ~x.over
  PROVE  LET y == Part(x, p) IN
         /\ y \in Reading
         /\ p = "starttls" => y.out = x.out \o <<"starttls">> /\ y.socket = x.socket /\ y.over
         /\ p = "mechanisms" => y.out = x.out \o <<"auth">> /\ y.socket = x.socket /\ ~y.over
         /\ p = "bind" => y.out = x.out \o <<"bind">> /\ y.socket = x.socket /\ ~y.over
         /\ p = "success" => y.out = x.out \o <<"stream">> /\ y.socket = x.socket
         /\ p = "session result" => y.out = x.out \o <<"roster", "presence">> /\ y.socket = x.socket
         /\ p = "bind result" => /\ y.out = x.out \o <<"session">> \/ y.out = x.out
                                 /\ y.socket = x.socket
         /\ p = "proceed" => y.out = x.out /\ y.socket = "encrypting"
<1> DEFINE y == Part(x, p)
<1>0. p \in Parts
  BY DEF Leads, Parts, Kinds
<1>1. CASE p = "starttls"
  <2>1. y = [Out(x, <<"starttls">>) EXCEPT !.over = TRUE] /\ <<"starttls">> \in Seq(Messages)
    BY <1>0, <1>1, PartIs, ShortIn, MessagesIn DEF Required, Asks
  <2> DEFINE z == Out(x, <<"starttls">>)
  <2>2. z \in Reading /\ z.out = x.out \o <<"starttls">> /\ z.socket = x.socket
    BY <2>1, OutIs
  <2> HIDE DEF z, y
  <2>3. y = [z EXCEPT !.over = TRUE]
    BY <2>1 DEF z
  <2>4. y \in Reading /\ y.out = z.out /\ y.socket = z.socket /\ y.over
    BY <2>2, <2>3 DEF Reading
  <2> QED BY <1>1, <2>2, <2>4 DEF y
<1>2. ASSUME NEW w \in Seq(Messages), y = Out(x, w)
      PROVE  y \in Reading /\ y.out = x.out \o w /\ y.socket = x.socket /\ ~y.over
  <2> HIDE DEF y
  <2> QED BY <1>2, OutIs
<1>3. CASE p = "mechanisms"
  <2>1. y = Out(x, <<"auth">>) /\ <<"auth">> \in Seq(Messages)
    BY <1>0, <1>3, PartIs, ShortIn, MessagesIn DEF Asks
  <2> QED BY <1>2, <1>3, <2>1
<1>4. CASE p = "bind"
  <2>1. y = Out(x, <<"bind">>) /\ <<"bind">> \in Seq(Messages)
    BY <1>0, <1>4, PartIs, ShortIn, MessagesIn DEF Asks
  <2> QED BY <1>2, <1>4, <2>1
<1>5. CASE p = "success"
  <2>1. y = Out(x, <<"stream">>) /\ <<"stream">> \in Seq(Messages)
    BY <1>0, <1>5, PartIs, ShortIn, MessagesIn DEF Asks
  <2> QED BY <1>2, <1>5, <2>1
<1>6. CASE p = "session result"
  <2>1. y = Out(x, <<"roster", "presence">>) /\ <<"roster", "presence">> \in Seq(Messages)
    BY <1>0, <1>6, PartIs, ShortIn, MessagesIn
  <2> QED BY <1>2, <1>6, <2>1
<1>7. CASE p = "bind result"
  <2>1. y = BindReply(x)
    BY <1>0, <1>7, PartIs
  <2>2. <<"session">> \in Seq(Messages)
    BY ShortIn, MessagesIn DEF Asks
  <2>3. CASE x.session
    <3>1. y = Out(x, <<"session">>)
      BY <2>1, <2>3 DEF BindReply
    <3> QED BY <1>2, <1>7, <2>2, <3>1
  <2>4. CASE ~x.session
    <3>1. y = x
      BY <2>1, <2>4 DEF BindReply
    <3> QED BY <1>7, <3>1
  <2> QED BY <2>3, <2>4
<1>8. CASE p = "proceed"
  <2>1. y = [x EXCEPT !.socket = "encrypting", !.over = TRUE]
    BY <1>0, <1>8, PartIs
  <2> HIDE DEF y
  <2>2. y \in Reading /\ y.out = x.out /\ y.socket = "encrypting"
    BY <2>1 DEF Reading, Sockets
  <2> QED BY <1>8, <2>2 DEF y
<1> QED BY <1>1, <1>3, <1>4, <1>5, <1>6, <1>7, <1>8 DEF Leads

(* Either way it is a reading. *)
LEMMA PartType == \A x \in Reading, p \in Parts : Part(x, p) \in Reading
<1> TAKE x \in Reading, p \in Parts
<1>1. CASE p \notin Leads \/ x.over
  BY <1>1, QuietPart
<1>2. CASE p \in Leads /\ ~x.over
  BY <1>2, LeadPart
<1> QED BY <1>1, <1>2

(* An element of one part, or of two. *)
LEMMA ElementOf ==
  ASSUME NEW x \in Reading, NEW e \in Seq(Parts), Len(e) \in {1, 2}
  PROVE  Element(x, e) = IF Len(e) = 1 THEN Part(x, e[1]) ELSE Part(Part(x, e[1]), e[2])
<1> DEFINE n == Len(e)
           step == [p \in Reading \X (1..n) |-> Part(p[1], e[p[2]])]
           Is(f) == f = [s \in SUBSET (1..n) |->
                           IF s = {} THEN x ELSE Part(f[s \ {Max(s)}], e[Max(s)])]
           f == CHOOSE f : Is(f)
<1>1. n \in Nat /\ DOMAIN e = 1..n /\ \A i \in 1..n : e[i] \in Parts
  OBVIOUS
<1>2. n \in {1, 2}
  OBVIOUS
<1> HIDE DEF n
<1>3. \E g : Is(g)
  <2>1. step \in [Reading \X (1..n) -> Reading]
    BY <1>1, PartType
  <2>3. PICK h \in [SUBSET (1..n) -> Reading] : IsFold(h, n, x, step)
    <3> HIDE DEF step
    <3> QED BY <1>1, <2>1, FoldExists
  <2>4. ASSUME NEW s \in SUBSET (1..n), s # {}
        PROVE  step[<<h[s \ {Max(s)}], Max(s)>>] = Part(h[s \ {Max(s)}], e[Max(s)])
    <3>1. Max(s) \in 1..n
      BY <1>1, <2>4, MaxIn
    <3>2. h[s \ {Max(s)}] \in Reading
      OBVIOUS
    <3> QED BY <3>1, <3>2
  <2> HIDE DEF step
  <2>5. Is(h)
    BY <2>3, <2>4 DEF IsFold
  <2> QED BY <2>5
<1>4. Is(f)
  <2> HIDE DEF Is
  <2> QED BY <1>3
<1>5. f[{}] = x
  BY <1>4
<1>6. ASSUME NEW i \in 0..1, i < n
      PROVE  f[1..(i + 1)] = Part(f[1..i], e[i + 1])
  <2>1. 1..(i + 1) \in SUBSET (1..n) /\ 1..(i + 1) # {} /\ i + 1 \in 1..(i + 1) /\ i \in Nat
        /\ 1..i = (1..(i + 1)) \ {i + 1}
    <3>1. n \in Nat /\ i + 1 <= n /\ i \in Nat
      BY <1>1, <1>6
    <3>2. 1..(i + 1) \in SUBSET (1..n) /\ i + 1 \in 1..(i + 1)
      BY <3>1
    <3>3. 1..i = (1..(i + 1)) \ {i + 1}
      BY <3>1
    <3> QED BY <3>1, <3>2, <3>3
  <2>2. Max(1..(i + 1)) = i + 1
    BY <2>1, MaxUpTo
  <2> HIDE DEF f
  <2> QED BY <1>4, <2>1, <2>2
<1> HIDE DEF f, Is
<1>7. f[1..1] = Part(x, e[1])
  <2>1. 1..0 = {} /\ 0 \in 0..1 /\ 0 < n /\ 0 + 1 = 1
    BY <1>2
  <2>2. f[1..(0 + 1)] = Part(f[1..0], e[0 + 1])
    BY <1>6, <2>1
  <2>3. f[1..0] = x
    BY <1>5, <2>1, Zenon
  <2> QED BY <2>1, <2>2, <2>3
<1>8. n = 2 => f[1..2] = Part(Part(x, e[1]), e[2])
  <2> SUFFICES ASSUME n = 2
               PROVE  f[1..2] = Part(Part(x, e[1]), e[2])
    OBVIOUS
  <2>1. 1 \in 0..1 /\ 1 < n /\ 1 + 1 = 2
    OBVIOUS
  <2>2. f[1..(1 + 1)] = Part(f[1..1], e[1 + 1])
    BY <1>6, <2>1
  <2> QED BY <1>7, <2>1, <2>2
<1>9. Element(x, e) = f[1..n]
  BY <1>1 DEF Element, FoldLeft, MapThenFoldSet, f, Is
<1>10. Element(x, e) = IF n = 1 THEN Part(x, e[1]) ELSE Part(Part(x, e[1]), e[2])
  BY <1>2, <1>7, <1>8, <1>9
<1> QED BY <1>10 DEF n

(* The same, with the parts named. *)
LEMMA ElementIs ==
  ASSUME NEW x \in Reading, NEW p \in Parts, NEW q \in Parts
  PROVE  /\ Element(x, <<p>>) = Part(x, p)
         /\ Element(x, <<p, q>>) = Part(Part(x, p), q)
<1>1. <<p>> \in Seq(Parts) /\ Len(<<p>>) = 1 /\ <<p>>[1] = p
  OBVIOUS
<1>2. <<p, q>> \in Seq(Parts) /\ Len(<<p, q>>) = 2 /\ <<p, q>>[1] = p /\ <<p, q>>[2] = q
  OBVIOUS
<1>3. Element(x, <<p>>) = Part(x, p)
  <2> DEFINE e == <<p>>
  <2>1. e \in Seq(Parts) /\ Len(e) = 1 /\ e[1] = p
    BY <1>1
  <2> HIDE DEF e
  <2>2. Element(x, e) = Part(x, p)
    BY <2>1, ElementOf
  <2> QED BY <2>2 DEF e
<1>4. Element(x, <<p, q>>) = Part(Part(x, p), q)
  <2> DEFINE e == <<p, q>>
  <2>1. e \in Seq(Parts) /\ Len(e) = 2 /\ e[1] = p /\ e[2] = q
    BY <1>2
  <2> HIDE DEF e
  <2>2. Element(x, e) = Part(Part(x, p), q)
    BY <2>1, ElementOf
  <2> QED BY <2>2 DEF e
<1> QED BY <1>3, <1>4

(* What is no part of the login, and what an element is. *)
LEMMA Plain ==
  /\ \A p \in Parts : <<p>> \in Elements
  /\ \A p \in {"header", "failure", "roster result", "presence", "ping", "message", "subscribe"}
              \cup Contacts : <<p>> \in Elements /\ <<p>> \notin Prompts
<1>1. \A p \in Parts : <<p>> \in Elements
  BY DEF Elements
<1>3. ASSUME NEW e \in Prompts
      PROVE  e[1] \in Leads \cup {"session"}
  <2>1. CASE e \in Offers
    <3>1. e[1] \in {"mechanisms", "starttls"}
      BY <2>1 DEF Offers
    <3> QED BY <3>1 DEF Leads
  <2>2. CASE e \in Binds
    <3>1. e[1] \in {"bind", "session"}
      BY <2>2 DEF Binds
    <3> QED BY <3>1 DEF Leads
  <2>3. CASE e \in {<<"proceed">>, <<"success">>, <<"bind result">>, <<"session result">>}
    <3>1. e[1] \in {"proceed", "success", "bind result", "session result"}
      <4>1. CASE e = <<"proceed">>
        BY <4>1
      <4>2. CASE e = <<"success">>
        BY <4>2
      <4>3. CASE e = <<"bind result">>
        BY <4>3
      <4>4. CASE e = <<"session result">>
        BY <4>4
      <4> QED BY <2>3, <4>1, <4>2, <4>3, <4>4
    <3> QED BY <3>1 DEF Leads
  <2> QED BY <2>1, <2>2, <2>3 DEF Prompts
<1>4. ASSUME NEW p \in {"header", "failure", "roster result", "presence", "ping", "message", "subscribe"}
                       \cup Contacts
      PROVE  <<p>> \in Elements /\ <<p>> \notin Prompts
  <2>1. p \in Parts
    BY DEF Parts, Kinds
  <2>2. p \notin Leads \cup {"session"}
    BY ContactsAssumption DEF Leads, Kinds
  <2>3. <<p>>[1] = p
    OBVIOUS
  <2> QED BY <1>1, <1>3, <2>1, <2>2, <2>3
<1> QED BY <1>1, <1>4

(* Nothing of the login comes of an element that is none of the prompts, nor  *)
(* of any when the read is over.                                             *)
LEMMA Quiet ==
  ASSUME NEW x \in Reading, NEW e \in Elements, e \notin Prompts \/ x.over
  PROVE  LET y == Element(x, e) IN
         /\ y \in Reading /\ y.socket = x.socket /\ y.over = x.over
         /\ \E w \in Asides : y.out = x.out \o w
<1>1. CASE e \notin Prompts
  <2>1. PICK p \in Parts : e = <<p>>
    BY <1>1 DEF Elements
  <2>2. p \notin Leads
    BY <1>1, <2>1 DEF Leads, Prompts, Offers, Binds
  <2>3. Element(x, e) = Part(x, p)
    BY <2>1, ElementIs
  <2> QED BY <2>2, <2>3, QuietPart
<1>2. CASE x.over
  <2>1. \E p, q \in Parts : e = <<p>> \/ e = <<p, q>>
    <3>1. {"starttls", "mechanisms", "bind", "session", "proceed", "success", "bind result",
           "session result"} \subseteq Parts
      BY DEF Parts, Kinds
    <3> QED BY <3>1 DEF Elements, Prompts, Offers, Binds
  <2>2. PICK p \in Parts, q \in Parts : e = <<p>> \/ e = <<p, q>>
    BY <2>1
  <2>3. Part(x, p) = x /\ Part(x, q) = x
    BY <1>2, PartIs
  <2>4. Element(x, e) = x
    BY <2>2, <2>3, ElementIs
  <2>5. x.out \o <<>> = x.out /\ <<>> \in Asides
    BY DEF Reading, Asides
  <2> QED BY <2>4, <2>5
<1> QED BY <1>1, <1>2

(* What the prompts are answered with. *)
LEMMA Replies ==
  ASSUME NEW x \in Reading, NEW e \in Prompts, ~x.over
  PROVE  LET y == Element(x, e) IN
         /\ y \in Reading
         /\ e \in {<<"starttls">>, <<"starttls", "mechanisms">>} =>
               y.out = x.out \o <<"starttls">> /\ y.socket = x.socket
         /\ e = <<"mechanisms", "starttls">> =>
               y.out = (x.out \o <<"auth">>) \o <<"starttls">> /\ y.socket = x.socket
         /\ e = <<"mechanisms">> => y.out = x.out \o <<"auth">> /\ y.socket = x.socket
         /\ e \in Binds => y.out = x.out \o <<"bind">> /\ y.socket = x.socket
         /\ e = <<"success">> => y.out = x.out \o <<"stream">> /\ y.socket = x.socket
         /\ e = <<"session result">> => y.out = x.out \o <<"roster", "presence">> /\ y.socket = x.socket
         /\ e = <<"bind result">> => /\ y.out = x.out \o <<"session">> \/ y.out = x.out
                                     /\ y.socket = x.socket
         /\ e = <<"proceed">> => y.out = x.out /\ y.socket = "encrypting"
<1>1. /\ Leads \subseteq Parts /\ "session" \in Parts /\ "session" \notin Leads
      /\ "starttls" \in Leads /\ "mechanisms" \in Leads /\ "bind" \in Leads
      /\ "starttls" \in Parts /\ "mechanisms" \in Parts /\ "bind" \in Parts
  BY DEF Leads, Parts, Kinds
<1>2. \A p \in Leads : Element(x, <<p>>) = Part(x, p)
  BY <1>1, ElementIs
<1>3. ASSUME NEW p \in Leads
      PROVE  LET y == Element(x, <<p>>) IN
             /\ y \in Reading
             /\ p = "starttls" => y.out = x.out \o <<"starttls">> /\ y.socket = x.socket
             /\ p = "mechanisms" => y.out = x.out \o <<"auth">> /\ y.socket = x.socket
             /\ p = "bind" => y.out = x.out \o <<"bind">> /\ y.socket = x.socket
             /\ p = "success" => y.out = x.out \o <<"stream">> /\ y.socket = x.socket
             /\ p = "session result" => y.out = x.out \o <<"roster", "presence">> /\ y.socket = x.socket
             /\ p = "bind result" => /\ y.out = x.out \o <<"session">> \/ y.out = x.out
                                     /\ y.socket = x.socket
             /\ p = "proceed" => y.out = x.out /\ y.socket = "encrypting"
  <2>1. Element(x, <<p>>) = Part(x, p)
    BY <1>2
  <2> DEFINE z == Part(x, p)
  <2>2. /\ z \in Reading
        /\ p = "starttls" => z.out = x.out \o <<"starttls">> /\ z.socket = x.socket
        /\ p = "mechanisms" => z.out = x.out \o <<"auth">> /\ z.socket = x.socket
        /\ p = "bind" => z.out = x.out \o <<"bind">> /\ z.socket = x.socket
        /\ p = "success" => z.out = x.out \o <<"stream">> /\ z.socket = x.socket
        /\ p = "session result" => z.out = x.out \o <<"roster", "presence">> /\ z.socket = x.socket
        /\ p = "bind result" => (z.out = x.out \o <<"session">> \/ z.out = x.out) /\ z.socket = x.socket
        /\ p = "proceed" => z.out = x.out /\ z.socket = "encrypting"
    BY LeadPart
  <2> HIDE DEF z
  <2>3. Element(x, <<p>>) = z
    BY <2>1 DEF z
  <2> QED BY <2>2, <2>3
<1>4. LET y == Element(x, <<"starttls", "mechanisms">>) IN
      y \in Reading /\ y.out = x.out \o <<"starttls">> /\ y.socket = x.socket
  <2> DEFINE z == Part(x, "starttls")
  <2>1. z \in Reading /\ z.out = x.out \o <<"starttls">> /\ z.socket = x.socket /\ z.over
    BY <1>1, LeadPart
  <2>2. Element(x, <<"starttls", "mechanisms">>) = Part(z, "mechanisms")
    BY <1>1, ElementIs
  <2> HIDE DEF z
  <2>3. Part(z, "mechanisms") = z
    BY <1>1, <2>1, PartIs
  <2> QED BY <2>1, <2>2, <2>3
<1>5. LET y == Element(x, <<"mechanisms", "starttls">>) IN
      y \in Reading /\ y.out = (x.out \o <<"auth">>) \o <<"starttls">> /\ y.socket = x.socket
  <2> DEFINE z == Part(x, "mechanisms")
  <2>1. z \in Reading /\ z.out = x.out \o <<"auth">> /\ z.socket = x.socket /\ ~z.over
    BY <1>1, LeadPart
  <2>2. Element(x, <<"mechanisms", "starttls">>) = Part(z, "starttls")
    BY <1>1, ElementIs
  <2> HIDE DEF z
  <2>3. "starttls" \in Leads
    BY <1>1
  <2>4. LET y == Part(z, "starttls") IN
        y \in Reading /\ y.out = z.out \o <<"starttls">> /\ y.socket = z.socket
    BY <2>1, <2>3, LeadPart
  <2> QED BY <2>1, <2>2, <2>4
<1>6. LET y == Element(x, <<"bind", "session">>) IN
      y \in Reading /\ y.out = x.out \o <<"bind">> /\ y.socket = x.socket
  <2> DEFINE z == Part(x, "bind")
  <2>1. z \in Reading /\ z.out = x.out \o <<"bind">> /\ z.socket = x.socket /\ ~z.over
    BY <1>1, LeadPart
  <2>2. Element(x, <<"bind", "session">>) = Part(z, "session")
    BY <1>1, ElementIs
  <2> HIDE DEF z
  <2>3. Part(z, "session") = [z EXCEPT !.session = TRUE]
    BY <1>1, <2>1, PartIs
  <2> QED BY <2>1, <2>2, <2>3 DEF Reading
<1>7. LET y == Element(x, <<"session", "bind">>) IN
      y \in Reading /\ y.out = x.out \o <<"bind">> /\ y.socket = x.socket
  <2> DEFINE z == Part(x, "session")
  <2>1. z = [x EXCEPT !.session = TRUE]
    BY <1>1, PartIs
  <2> HIDE DEF z
  <2>2. z \in Reading /\ z.out = x.out /\ z.socket = x.socket /\ ~z.over
    BY <2>1 DEF Reading
  <2>3. Element(x, <<"session", "bind">>) = Part(z, "bind")
    BY <1>1, ElementIs DEF z
  <2>4. "bind" \in Leads
    BY <1>1
  <2>5. LET y == Part(z, "bind") IN y \in Reading /\ y.out = z.out \o <<"bind">> /\ y.socket = z.socket
    BY <2>2, <2>4, LeadPart
  <2> QED BY <2>2, <2>3, <2>5
<1>8. CASE e \in {<<p>> : p \in Leads}
  <2>1. PICK p \in Leads : e = <<p>>
    BY <1>8
  <2>2. e[1] = p /\ Len(e) = 1
    BY <2>1
  <2>3. e \notin {<<"starttls", "mechanisms">>, <<"mechanisms", "starttls">>, <<"bind", "session">>,
                  <<"session", "bind">>}
    BY <2>2
  <2>4. /\ e = <<"starttls">> => p = "starttls"
        /\ e = <<"mechanisms">> => p = "mechanisms"
        /\ e = <<"success">> => p = "success"
        /\ e = <<"session result">> => p = "session result"
        /\ e = <<"bind result">> => p = "bind result"
        /\ e = <<"proceed">> => p = "proceed"
        /\ e = <<"bind">> => p = "bind"
    <3>1. \A c : <<c>>[1] = c
      OBVIOUS
    <3>2. \A c : e = <<c>> => p = c
      BY <2>2, <3>1
    <3> QED BY <3>2
  <2>5. e \in Binds => p = "bind"
    BY <2>3, <2>4 DEF Binds
  <2> DEFINE y == Element(x, e)
  <2>6. /\ y \in Reading
        /\ p = "starttls" => y.out = x.out \o <<"starttls">> /\ y.socket = x.socket
        /\ p = "mechanisms" => y.out = x.out \o <<"auth">> /\ y.socket = x.socket
        /\ p = "bind" => y.out = x.out \o <<"bind">> /\ y.socket = x.socket
        /\ p = "success" => y.out = x.out \o <<"stream">> /\ y.socket = x.socket
        /\ p = "session result" => y.out = x.out \o <<"roster", "presence">> /\ y.socket = x.socket
        /\ p = "bind result" => (y.out = x.out \o <<"session">> \/ y.out = x.out) /\ y.socket = x.socket
        /\ p = "proceed" => y.out = x.out /\ y.socket = "encrypting"
    BY <1>3, <2>1
  <2> HIDE DEF y
  <2> QED BY <2>3, <2>4, <2>5, <2>6 DEF y
<1>9. CASE e \in {<<"starttls", "mechanisms">>, <<"mechanisms", "starttls">>, <<"bind", "session">>,
                  <<"session", "bind">>}
  <2>1. Len(e) = 2
    BY <1>9
  <2>2. e \notin {<<"starttls">>, <<"mechanisms">>, <<"success">>, <<"session result">>,
                  <<"bind result">>, <<"proceed">>}
    <3>1. \A c : Len(<<c>>) = 1
      OBVIOUS
    <3>2. \A c : e # <<c>>
      BY <2>1, <3>1
    <3> QED BY <3>2
  <2>3. CASE e \in {<<"starttls", "mechanisms">>, <<"mechanisms", "starttls">>}
    <3>1. e[1] \in {"starttls", "mechanisms"}
      BY <2>3
    <3>2. \A d \in Binds : d[1] \in {"bind", "session"}
      BY DEF Binds
    <3>3. e \notin Binds
      BY <3>1, <3>2
    <3>4. <<"starttls", "mechanisms">> # <<"mechanisms", "starttls">>
      BY OffersAre
    <3>5. CASE e = <<"starttls", "mechanisms">>
      BY <1>4, <2>2, <3>3, <3>4, <3>5
    <3>6. CASE e = <<"mechanisms", "starttls">>
      BY <1>5, <2>2, <3>3, <3>4, <3>6
    <3> QED BY <2>3, <3>5, <3>6
  <2>4. CASE e \in {<<"bind", "session">>, <<"session", "bind">>}
    <3>1. e[1] \in {"bind", "session"}
      BY <2>4
    <3>2. <<"starttls", "mechanisms">>[1] = "starttls" /\ <<"mechanisms", "starttls">>[1] = "mechanisms"
      OBVIOUS
    <3>3. e # <<"starttls", "mechanisms">> /\ e # <<"mechanisms", "starttls">>
      BY <3>1, <3>2
    <3>4. LET y == Element(x, e) IN y \in Reading /\ y.out = x.out \o <<"bind">> /\ y.socket = x.socket
      BY <1>6, <1>7, <2>4
    <3> QED BY <2>2, <3>3, <3>4
  <2> QED BY <1>9, <2>3, <2>4
<1>10. e \in {<<p>> : p \in Leads} \cup {<<"starttls", "mechanisms">>, <<"mechanisms", "starttls">>,
             <<"bind", "session">>, <<"session", "bind">>}
  BY DEF Leads, Prompts, Offers, Binds
<1> QED BY <1>8, <1>9, <1>10

(* What a read has come to while nothing of the login was in it, and after. *)
Same(t, sock, b, k, x) ==
    ~x.over /\ x.socket = sock /\ Goes(t \o x.out, b, k) /\ Asked(x.out) = {}
After(v, t, sock, b, x) == \E k \in 0..10 :
    /\ Goes(t \o x.out, b, k) /\ AsksDue(v, x.out, b, k)
    /\ x.socket = sock \/ (x.socket = "encrypting" /\ Encrypted(v, b, k) /\ Asked(x.out) = {})

(* Other messages do not disturb the plan. *)
LEMMA AsideGoes ==
  ASSUME NEW t \in Seq(Messages), NEW o \in Seq(Messages), NEW w \in Asides, NEW v, NEW b, NEW k,
         Goes(t \o o, b, k)
  PROVE  /\ Goes(t \o (o \o w), b, k) /\ Asked(o \o w) = Asked(o)
         /\ AsksDue(v, o, b, k) => AsksDue(v, o \o w, b, k)
<1>1. ASSUME NEW m \in {"iq error", "iq result", "subscribe", "subscribed"}, NEW p \in Seq(Messages),
             Goes(t \o p, b, k)
      PROVE  /\ Goes(t \o Append(p, m), b, k) /\ Asked(Append(p, m)) = Asked(p)
             /\ AsksDue(v, p, b, k) => AsksDue(v, Append(p, m), b, k)
  <2>1. m \in Messages /\ m \notin Own /\ m \notin Asks
    BY MessagesIn
  <2>2. Append(t \o p, m) = t \o Append(p, m) /\ t \o p \in Seq(Messages)
    BY <2>1, ConcatAppend
  <2>3. Goes(Append(t \o p, m), b, k)
    BY <1>1, <2>1, <2>2, GoesOn
  <2> QED BY <2>1, <2>2, <2>3, AskedAppend
<1>2. \A m \in {"iq error", "iq result", "subscribe", "subscribed"} :
         m \in Messages /\ o \o <<m>> = Append(o, m) /\ Append(o, m) \in Seq(Messages)
  BY MessagesIn, Appends
<1>3. CASE w = <<>>
  <2>1. o \o w = o
    BY <1>3
  <2> QED BY <2>1
<1>4. CASE w = <<"iq error">>
  BY <1>1, <1>2, <1>4
<1>5. CASE w = <<"subscribed">>
  BY <1>1, <1>2, <1>5
<1>6. CASE w = <<"iq result", "subscribe">>
  <2> DEFINE p == Append(o, "iq result")
  <2>4. "iq result" \in Messages /\ "subscribe" \in Messages
    BY <1>2
  <2>5. o \o <<"iq result", "subscribe">> = Append(Append(o, "iq result"), "subscribe")
    BY <2>4, Appends
  <2>1. o \o w = Append(p, "subscribe") /\ p \in Seq(Messages)
    BY <1>2, <1>6, <2>5
  <2>2. /\ Goes(t \o p, b, k) /\ Asked(p) = Asked(o)
        /\ AsksDue(v, o, b, k) => AsksDue(v, p, b, k)
    BY <1>1
  <2> HIDE DEF p
  <2>3. /\ Goes(t \o Append(p, "subscribe"), b, k) /\ Asked(Append(p, "subscribe")) = Asked(p)
        /\ AsksDue(v, p, b, k) => AsksDue(v, Append(p, "subscribe"), b, k)
    BY <1>1, <2>1, <2>2
  <2> QED BY <2>1, <2>2, <2>3
<1> QED BY <1>3, <1>4, <1>5, <1>6 DEF Asides

(* Nor does an element that they answer. *)
LEMMA QuietKeeps ==
  ASSUME NEW t \in Seq(Messages), NEW sock, NEW v, NEW b, NEW k,
         NEW x \in Reading, NEW e \in Elements, e \notin Prompts \/ x.over
  PROVE  LET y == Element(x, e) IN
         /\ Same(t, sock, b, k, x) => Same(t, sock, b, k, y)
         /\ After(v, t, sock, b, x) => After(v, t, sock, b, y)
<1> DEFINE y == Element(x, e)
<1>1. PICK w \in Asides : y.out = x.out \o w
  BY Quiet
<1>2. y.socket = x.socket /\ y.over = x.over /\ x.out \in Seq(Messages)
  BY Quiet DEF Reading
<1> HIDE DEF y
<1>3. Same(t, sock, b, k, x) => Same(t, sock, b, k, y)
  BY <1>1, <1>2, AsideGoes DEF Same
<1>4. ASSUME NEW l \in 0..10, Goes(t \o x.out, b, l), AsksDue(v, x.out, b, l),
             x.socket = sock \/ (x.socket = "encrypting" /\ Encrypted(v, b, l) /\ Asked(x.out) = {})
      PROVE  After(v, t, sock, b, y)
  <2>1. Goes(t \o y.out, b, l) /\ AsksDue(v, y.out, b, l) /\ Asked(y.out) = Asked(x.out)
    BY <1>1, <1>2, <1>4, AsideGoes
  <2> QED BY <1>2, <1>4, <2>1 DEF After
<1>5. After(v, t, sock, b, x) => After(v, t, sock, b, y)
  BY <1>4 DEF After
<1> QED BY <1>3, <1>5 DEF y

(* The next message of the plan is what may come next. *)
LEMMA SaysOne ==
  ASSUME NEW t \in Seq(Messages), NEW o \in Seq(Messages), NEW m \in Own, NEW v, NEW b, NEW k \in Nat,
         Goes(t \o o, b, k), Asked(o) = {}, k < Len(Plan(b)), m = Plan(b)[k + 1],
         m \in Asks => SentDue(v, m, b, k + 1)
  PROVE  /\ Goes(t \o (o \o <<m>>), b, k + 1) /\ AsksDue(v, o \o <<m>>, b, k + 1)
         /\ o \o <<m>> \in Seq(Messages) /\ (m \notin Asks => Asked(o \o <<m>>) = {})
<1>1. m \in Messages
  BY DEF Messages
<1>2. Append(t \o o, m) = t \o Append(o, m) /\ o \o <<m>> = Append(o, m) /\ t \o o \in Seq(Messages)
      /\ Append(o, m) \in Seq(Messages)
  <2>1. Append(t \o o, m) = t \o Append(o, m) /\ t \o o \in Seq(Messages)
    BY <1>1, ConcatAppend
  <2>2. o \o <<m>> = Append(o, m) /\ Append(o, m) \in Seq(Messages)
    BY <1>1, Appends
  <2> QED BY <2>1, <2>2
<1>3. Goes(Append(t \o o, m), b, k + 1)
  BY <1>1, <1>2, GoesOn
<1>4. AsksDue(v, o, b, k + 1)
  BY DEF AsksDue
<1>5. AsksDue(v, Append(o, m), b, k + 1) /\ (m \notin Asks => Asked(Append(o, m)) = {})
  BY <1>1, <1>4, AskedAppend
<1> QED BY <1>2, <1>3, <1>5

(* Each prompt is answered with what comes next. *)
LEMMA ReplyAfter ==
  ASSUME NEW t \in Seq(Messages), NEW sock, NEW v \in Logins, NEW b, NEW k, b = Before(v),
         NEW x \in Reading, NEW e \in Prompts, Same(t, sock, b, k, x), WireDue(v, e, b, k)
  PROVE  After(v, t, sock, b, Element(x, e))
<1> DEFINE y == Element(x, e)
           o == x.out
<1>1. /\ o \in Seq(Messages) /\ ~x.over
      /\ Goes(t \o o, b, k) /\ Asked(o) = {} /\ x.socket = sock /\ b \in {0, 2, 3} /\ b \in Begins
      /\ k \in Nat /\ k <= Len(Plan(b)) /\ Len(Plan(b)) = b + 7
  <2>1. Goes(t \o o, b, k) /\ Asked(o) = {} /\ x.socket = sock /\ o \in Seq(Messages) /\ ~x.over
    BY DEF Same, Reading
  <2>2. b \in Begins /\ k \in 0..Len(Plan(b))
    BY <2>1 DEF Goes
  <2>3. Len(Plan(b)) = b + 7 /\ b \in {0, 2, 3}
    BY <2>2, PlanIs DEF Begins
  <2> QED BY <2>1, <2>2, <2>3
<1>2. /\ y \in Reading
      /\ e \in {<<"starttls">>, <<"starttls", "mechanisms">>} =>
            y.out = o \o <<"starttls">> /\ y.socket = sock
      /\ e = <<"mechanisms", "starttls">> =>
            y.out = (o \o <<"auth">>) \o <<"starttls">> /\ y.socket = sock
      /\ e = <<"mechanisms">> => y.out = o \o <<"auth">> /\ y.socket = sock
      /\ e \in Binds => y.out = o \o <<"bind">> /\ y.socket = sock
      /\ e = <<"success">> => y.out = o \o <<"stream">> /\ y.socket = sock
      /\ e = <<"session result">> => y.out = o \o <<"roster", "presence">> /\ y.socket = sock
      /\ e = <<"bind result">> => (y.out = o \o <<"session">> \/ y.out = o) /\ y.socket = sock
      /\ e = <<"proceed">> => y.out = o /\ y.socket = "encrypting"
  <2>1. x.socket = sock /\ ~x.over
    BY <1>1
  <2> QED BY <2>1, Replies
<1> HIDE DEF y, o
<1>3. ASSUME NEW m \in Own, k < b + 7, m = Plan(b)[k + 1], m \in Asks => SentDue(v, m, b, k + 1),
             y.out = o \o <<m>>, y.socket = sock
      PROVE  After(v, t, sock, b, y)
  <2>1. Goes(t \o (o \o <<m>>), b, k + 1) /\ AsksDue(v, o \o <<m>>, b, k + 1)
    BY <1>1, <1>3, SaysOne
  <2>2. k + 1 \in 0..10
    BY <1>1, <1>3
  <2> QED BY <1>3, <2>1, <2>2 DEF After
<1>4. ASSUME y.out = o, y.socket = sock
      PROVE  After(v, t, sock, b, y)
  <2>1. k \in 0..10 /\ AsksDue(v, o, b, k)
    BY <1>1 DEF AsksDue
  <2> QED BY <1>1, <1>4, <2>1 DEF After
<1>5. CASE e = v.offers /\ k = 1 /\ v.at = "new"
  <2>0. v.offers \in Offers /\ (k + 1 = 2)
    BY <1>5 DEF Logins
  <2>1. CASE e = <<"mechanisms">>
    <3>1. b = 0
      BY <1>5, <2>1, OffersAre DEF Before
    <3>2. "auth" \in Own /\ "auth" = Plan(b)[k + 1] /\ SentDue(v, "auth", b, k + 1) /\ k < b + 7
      <4>1. k + 1 = b + 2 /\ k < b + 7
        BY <1>5, <3>1
      <4> QED BY <1>1, <4>1, OwnIs, PlanIs DEF SentDue
    <3> QED BY <1>2, <1>3, <2>1, <3>2 DEF y
  <2>2. CASE e \in {<<"starttls">>, <<"starttls", "mechanisms">>}
    <3>1. b = 2
      BY <1>5, <2>2, OffersAre DEF Before
    <3>2. "starttls" \in Own /\ "starttls" = Plan(b)[k + 1] /\ SentDue(v, "starttls", b, k + 1)
          /\ k < b + 7
      <4>1. k + 1 = b /\ k < b + 7 /\ b # 0
        BY <1>5, <3>1
      <4> QED BY <1>1, <1>5, <4>1, OwnIs, PlanIs DEF SentDue
    <3> QED BY <1>2, <1>3, <2>2, <3>2 DEF y
  <2>3. CASE e = <<"mechanisms", "starttls">>
    <3>1. b = 3
      BY <1>5, <2>3, OffersAre DEF Before
    <3> DEFINE p == Append(o, "auth")
               q == Append(p, "starttls")
    <3>2. /\ o \o <<"auth">> = p /\ p \in Seq(Messages) /\ p \o <<"starttls">> = q /\ q \in Seq(Messages)
          /\ "auth" \in Messages /\ "starttls" \in Messages /\ "auth" \in Own /\ "starttls" \in Own
      <4>1. "auth" \in Messages /\ "starttls" \in Messages /\ "auth" \in Own /\ "starttls" \in Own
        BY OwnIs DEF Messages
      <4>2. o \o <<"auth">> = p /\ p \in Seq(Messages)
        BY <1>1, <4>1, Appends
      <4> HIDE DEF p
      <4>3. p \o <<"starttls">> = q /\ q \in Seq(Messages)
        BY <4>1, <4>2, Appends
      <4> QED BY <4>1, <4>2, <4>3
    <3>3. AsksDue(v, q, b, 3)
      <4>1. SentDue(v, "starttls", b, 3)
        BY <1>5, <3>1 DEF SentDue
      <4> QED BY <1>1, <4>1, AskedBoth
    <3>4. Append(t \o o, "auth") = t \o p /\ t \o o \in Seq(Messages) /\ t \o p \in Seq(Messages)
      BY <1>1, <3>2, ConcatAppend
    <3>5. Append(t \o p, "starttls") = t \o q
      <4> HIDE DEF p
      <4> QED BY <3>2, ConcatAppend
    <3>6. Plan(b)[1 + 1] = "auth" /\ Plan(b)[2 + 1] = "starttls" /\ 1 < Len(Plan(b)) /\ 2 < Len(Plan(b))
      <4>1. 1 + 1 = 2 /\ 2 + 1 = b
        BY <3>1
      <4>2. Plan(b)[2] = "auth" /\ Plan(b)[b] = "starttls"
        BY <1>1, <3>1, PlanIs
      <4>3. 1 < Len(Plan(b)) /\ 2 < Len(Plan(b))
        BY <1>1, <3>1
      <4> QED BY <4>1, <4>2, <4>3
    <3> HIDE DEF p, q
    <3>7. Goes(t \o o, b, 1)
      BY <1>1, <1>5
    <3>8. Goes(Append(t \o o, "auth"), b, 1 + 1)
      BY <3>2, <3>4, <3>6, <3>7, GoesOn
    <3>0. 1 + 1 = 2 /\ 2 + 1 = 3
      OBVIOUS
    <3>9. Goes(t \o p, b, 2)
      BY <3>0, <3>4, <3>8
    <3>10. Goes(Append(t \o p, "starttls"), b, 2 + 1)
      BY <3>2, <3>4, <3>6, <3>9, GoesOn
    <3>11. Goes(t \o q, b, 3)
      BY <3>0, <3>5, <3>10
    <3>12. y.out = q /\ y.socket = sock
      BY <1>2, <2>3, <3>2
    <3> QED BY <3>3, <3>11, <3>12 DEF After, y
  <2> QED BY <1>5, <2>0, <2>1, <2>2, <2>3 DEF Offers
<1>6. CASE e = <<"mechanisms">> /\ k = b + 1
  <2>1. k + 1 = b + 2 /\ k < b + 7
    BY <1>1, <1>6
  <2>2. "auth" \in Own /\ "auth" = Plan(b)[k + 1] /\ SentDue(v, "auth", b, k + 1)
    BY <1>1, <2>1, OwnIs, PlanIs DEF SentDue
  <2> QED BY <1>2, <1>3, <1>6, <2>1, <2>2 DEF y
<1>7. CASE e \in Binds /\ k = b + 3
  <2>1. k + 1 = b + 4 /\ k < b + 7
    BY <1>1, <1>7
  <2>2. "bind" \in Own /\ "bind" = Plan(b)[k + 1] /\ SentDue(v, "bind", b, k + 1)
    BY <1>1, <2>1, OwnIs, PlanIs DEF SentDue
  <2> QED BY <1>2, <1>3, <1>7, <2>1, <2>2 DEF y
<1>8. CASE e = <<"success">> /\ k = b + 2 /\ v.at = "authenticated"
  <2>1. k + 1 = b + 3 /\ k < b + 7
    BY <1>1, <1>8
  <2>2. "stream" \in Own /\ "stream" = Plan(b)[k + 1] /\ SentDue(v, "stream", b, k + 1)
    BY <1>1, <1>8, <2>1, OwnIs, PlanIs DEF SentDue
  <2> QED BY <1>2, <1>3, <1>8, <2>1, <2>2 DEF y
<1>9. CASE e = <<"bind result">> /\ k = b + 4
  <2>0. k = b + 4 /\ b \in {0, 2, 3}
    BY <1>1, <1>9
  <2>1. k + 1 = b + 5 /\ k < b + 7
    BY <2>0
  <2>2. "session" \in Own /\ "session" = Plan(b)[k + 1] /\ SentDue(v, "session", b, k + 1)
    BY <1>1, <2>1, OwnIs, PlanIs DEF SentDue
  <2>3. y.socket = sock /\ (y.out = o \/ y.out = o \o <<"session">>)
    BY <1>2, <1>9
  <2> QED BY <1>3, <1>4, <2>1, <2>2, <2>3 DEF y
<1>10. CASE e = <<"session result">> /\ k = b + 5
  <2>0. k = b + 5 /\ b \in {0, 2, 3} /\ Len(Plan(b)) = b + 7
    BY <1>1, <1>10
  <2>2. k + 1 = b + 6 /\ (k + 1) + 1 = b + 7 /\ (k + 1) + 1 \in 0..10 /\ k \in Nat /\ k + 1 \in Nat
        /\ k < Len(Plan(b)) /\ k + 1 < Len(Plan(b))
    <3>1. k + 1 = b + 6 /\ (k + 1) + 1 = b + 7 /\ (k + 1) + 1 \in 0..10 /\ k \in Nat /\ k + 1 \in Nat
          /\ k < b + 7 /\ k + 1 < b + 7
      BY <2>0
    <3> QED BY <2>0, <3>1
  <2>3. /\ "roster" \in Own /\ "roster" \notin Asks /\ "roster" = Plan(b)[k + 1]
        /\ "presence" \in Own /\ "presence" \notin Asks /\ "presence" = Plan(b)[(k + 1) + 1]
        /\ "roster" \in Messages /\ "presence" \in Messages
    <3>1. Plan(b)[b + 6] = "roster" /\ Plan(b)[b + 7] = "presence"
      BY <1>1, PlanIs
    <3>2. Plan(b)[k + 1] = "roster" /\ Plan(b)[(k + 1) + 1] = "presence"
      BY <2>2, <3>1
    <3> QED BY <3>2, MessagesIn
  <2> DEFINE p == o \o <<"roster">>
  <2>4. Goes(t \o p, b, k + 1) /\ p \in Seq(Messages) /\ Asked(p) = {}
    <3> DEFINE m == "roster"
    <3>1. m \in Own /\ m = Plan(b)[k + 1] /\ (m \in Asks => SentDue(v, m, b, k + 1)) /\ m \notin Asks
      BY <2>3
    <3> HIDE DEF m
    <3> QED BY <1>1, <2>2, <3>1, SaysOne DEF m
  <2>5. o \o <<"roster", "presence">> = p \o <<"presence">>
    <3>1. p = Append(o, "roster") /\ o \o <<"roster", "presence">> = Append(Append(o, "roster"), "presence")
      BY <1>1, <2>3, Appends
    <3>2. p \o <<"presence">> = Append(p, "presence")
      BY <2>3, <2>4, Appends
    <3> QED BY <3>1, <3>2
  <2> HIDE DEF p
  <2>6. Goes(t \o (p \o <<"presence">>), b, (k + 1) + 1) /\ AsksDue(v, p \o <<"presence">>, b, (k + 1) + 1)
    <3> DEFINE m == "presence"
               l == k + 1
    <3>1. m \in Own /\ m = Plan(b)[l + 1] /\ (m \in Asks => SentDue(v, m, b, l + 1)) /\ l \in Nat
          /\ l < Len(Plan(b)) /\ Goes(t \o p, b, l)
      BY <2>2, <2>3, <2>4
    <3> HIDE DEF m, l
    <3> QED BY <2>4, <3>1, SaysOne DEF m, l
  <2>7. y.out = p \o <<"presence">> /\ y.socket = sock
    BY <1>2, <1>10, <2>5
  <2> QED BY <2>2, <2>6, <2>7 DEF After, y
<1>11. CASE e = <<"proceed">> /\ Encrypted(v, b, k)
  <2>1. y.socket = "encrypting" /\ y.out = o
    BY <1>2, <1>11
  <2>2. k \in 0..10 /\ AsksDue(v, o, b, k)
    BY <1>1, <1>11 DEF AsksDue, Encrypted
  <2> QED BY <1>1, <1>11, <2>1, <2>2 DEF After, y
<1> QED BY <1>5, <1>6, <1>7, <1>8, <1>9, <1>10, <1>11 DEF WireDue, y

(* A read as a whole: place by place of what was read. *)
LEMMA ReadAfter ==
  ASSUME NEW t \in Seq(Messages), NEW q \in Seq(Elements), NEW base \in Reading, NEW sock, NEW v,
         NEW b, NEW k, Same(t, sock, b, k, base), PromptsDue(v, q, b, k), v \in Logins, b = Before(v)
  PROVE  LET x == FoldLeft(Element, base, q) IN
         /\ x \in Reading
         /\ Prompted(q) = {} => Same(t, sock, b, k, x)
         /\ Prompted(q) # {} => After(v, t, sock, b, x)
<1> DEFINE n == Len(q)
           step == [p \in Reading \X (1..n) |-> Element(p[1], q[p[2]])]
           Is(f) == f = [s \in SUBSET (1..n) |->
                           IF s = {} THEN base ELSE Element(f[s \ {Max(s)}], q[Max(s)])]
           f == CHOOSE f : Is(f)
           P(i) == Prompted(q) \cap (1..i)
           Q(i) == /\ f[1..i] \in Reading
                   /\ P(i) = {} => Same(t, sock, b, k, f[1..i])
                   /\ P(i) # {} => After(v, t, sock, b, f[1..i])
           T == {i \in 0..n : Q(i)}
<1>1. n \in Nat /\ DOMAIN q = 1..n /\ \A i \in 1..n : q[i] \in Elements
  OBVIOUS
<1> HIDE DEF n
<1>2. \A x \in Reading, e \in Elements : Element(x, e) \in Reading
  <2> TAKE x \in Reading, e \in Elements
  <2>1. CASE e \notin Prompts \/ x.over
    BY <2>1, Quiet
  <2>2. CASE e \in Prompts /\ ~x.over
    BY <2>2, Replies
  <2> QED BY <2>1, <2>2
<1>3. \E g : Is(g)
  <2>1. step \in [Reading \X (1..n) -> Reading]
    BY <1>1, <1>2
  <2>3. PICK h \in [SUBSET (1..n) -> Reading] : IsFold(h, n, base, step)
    <3> HIDE DEF step
    <3> QED BY <1>1, <2>1, FoldExists
  <2>4. ASSUME NEW s \in SUBSET (1..n), s # {}
        PROVE  step[<<h[s \ {Max(s)}], Max(s)>>] = Element(h[s \ {Max(s)}], q[Max(s)])
    <3>1. Max(s) \in 1..n
      BY <1>1, <2>4, MaxIn
    <3>2. h[s \ {Max(s)}] \in Reading
      OBVIOUS
    <3> QED BY <3>1, <3>2
  <2> HIDE DEF step
  <2>5. Is(h)
    BY <2>3, <2>4 DEF IsFold
  <2> QED BY <2>5
<1>4. Is(f)
  <2> HIDE DEF Is
  <2> QED BY <1>3
<1>5. f[{}] = base
  BY <1>4
<1>6. ASSUME NEW i \in 0..(n - 1)
      PROVE  f[1..(i + 1)] = Element(f[1..i], q[i + 1])
  <2>1. 1..(i + 1) \in SUBSET (1..n) /\ 1..(i + 1) # {} /\ i + 1 \in 1..(i + 1) /\ i \in Nat
        /\ 1..i = (1..(i + 1)) \ {i + 1}
    <3>1. n \in Nat /\ i + 1 <= n /\ i \in Nat
      BY <1>1
    <3>2. 1..(i + 1) \in SUBSET (1..n) /\ i + 1 \in 1..(i + 1)
      BY <3>1
    <3>3. 1..i = (1..(i + 1)) \ {i + 1}
      BY <3>1
    <3> QED BY <3>1, <3>2, <3>3
  <2>2. Max(1..(i + 1)) = i + 1
    BY <2>1, MaxUpTo
  <2> HIDE DEF f
  <2> QED BY <1>4, <2>1, <2>2
<1> HIDE DEF f, Is
<1>7. T \in SUBSET (0..n) /\ 0 \in T
  <2>1. 1..0 = {} /\ 0 \in 0..n
    BY <1>1
  <2>2. f[1..0] = base /\ P(0) = {}
    BY <1>5, <2>1, Zenon
  <2> QED BY <2>1, <2>2
<1>8. ASSUME NEW i \in T, i < n
      PROVE  i + 1 \in T
  <2>1. i \in 0..(n - 1) /\ i + 1 \in 0..n /\ i + 1 \in 1..n /\ i \in Nat
    BY <1>1, <1>8
  <2> DEFINE x == f[1..i]
             e == q[i + 1]
             y == Element(x, e)
  <2>2. x \in Reading /\ e \in Elements /\ f[1..(i + 1)] = y
    BY <1>1, <1>6, <2>1
  <2>3. P(i) = {} => Same(t, sock, b, k, x)
    OBVIOUS
  <2>4. P(i) # {} => After(v, t, sock, b, x)
    OBVIOUS
  <2>5. P(i + 1) = IF e \in Prompts THEN P(i) \cup {i + 1} ELSE P(i)
    BY <1>1, <2>1 DEF Prompted
  <2>6. y \in Reading
    BY <1>2, <2>2
  <2> HIDE DEF x
  <2>7. CASE e \notin Prompts
    <3>1. P(i + 1) = P(i)
      BY <2>5, <2>7
    <3>2. /\ Same(t, sock, b, k, x) => Same(t, sock, b, k, y)
          /\ After(v, t, sock, b, x) => After(v, t, sock, b, y)
      BY <2>2, <2>7, QuietKeeps
    <3>3. Q(i + 1)
      <4> HIDE DEF y, e, P
      <4> QED BY <2>2, <2>3, <2>4, <2>6, <3>1, <3>2
    <3> QED BY <2>1, <3>3
  <2>8. CASE e \in Prompts
    <3>1. i + 1 \in Prompted(q) /\ P(i + 1) # {}
      BY <1>1, <2>1, <2>5, <2>8 DEF Prompted
    <3>2. P(i) = {}
      <4>1. \A j \in P(i) : j \in Prompted(q) /\ j # i + 1
        BY <2>1
      <4> QED BY <3>1, <4>1 DEF PromptsDue
    <3>3. WireDue(v, e, b, k)
      BY <3>1 DEF PromptsDue
    <3>4. After(v, t, sock, b, y)
      <4> HIDE DEF e, P
      <4> QED BY <2>2, <2>3, <2>8, <3>2, <3>3, ReplyAfter
    <3>5. Q(i + 1)
      <4> HIDE DEF y, e, P
      <4> QED BY <2>2, <2>6, <3>1, <3>4
    <3> QED BY <2>1, <3>5
  <2> QED BY <2>7, <2>8
<1>9. Q(n)
  <2> HIDE DEF Q
  <2>1. T = 0..n
    <3> HIDE DEF T
    <3> QED BY <1>1, <1>7, <1>8, UpTo
  <2> QED BY <1>1, <2>1
<1>10. FoldLeft(Element, base, q) = f[1..n]
  BY <1>1 DEF FoldLeft, MapThenFoldSet, f, Is
<1>11. P(n) = Prompted(q)
  BY <1>1 DEF Prompted
<1> QED BY <1>9, <1>10, <1>11

-----------------------------------------------------------------------------
(* Nothing is written when the process starts. *)
LEMMA InitXInv == Init => XInv
<1> SUFFICES ASSUME Init
             PROVE  XInv
  OBVIOUS
<1>1. PICK s \in Starts : InitXmpp(s.server)
  BY DEF Init
<1>2. /\ server \in Logins /\ server.at = "new"
      /\ sent = <<>> /\ wire = <<>> /\ told = <<>> /\ socket = "none" /\ m_sessionAvaliable = FALSE
      /\ roster = [c \in Contacts |-> "unknown"]
  BY <1>1, StartsAssumption DEF InitXmpp, Logins
<1>3. Asked(<<>>) = {} /\ Prompted(<<>>) = {} /\ <<>> \in Seq(Messages) /\ <<>> \in Seq(Elements)
  BY DEF Asked, Prompted
<1>4. roster \in Entries
  BY <1>2 DEF Entries
<1>5. XTypes
  BY <1>2, <1>3, <1>4 DEF XTypes, Sockets
<1> DEFINE b == Before(server)
<1>6. b \in Begins /\ Goes(<<>>, b, 0)
  <2>1. Len(<<>>) = 0 /\ DOMAIN <<>> = {} /\ Owned(<<>>, 0) = {}
    BY DEF Owned
  <2>2. b \in Begins
    BY <1>2, BeginsIs
  <2>3. Cardinality({}) = 0 /\ 0 \in 0..Len(Plan(b))
    BY <2>2, FS_EmptySet, PlanIs DEF Begins
  <2> QED BY <2>1, <2>2, <2>3 DEF Goes, Planned
<1>7. Progress(b, 0)
  <2>1. b = Before(server)
    OBVIOUS
  <2> HIDE DEF b
  <2> QED BY <1>2, <1>3, <1>6, <2>1 DEF Progress, AsksDue, PromptsDue, SocketDue
<1> QED
  <2>1. 0 \in 0..10
    OBVIOUS
  <2> HIDE DEF b
  <2> QED BY <1>5, <1>6, <1>7, <2>1 DEF XInv

(* Most of setup() leaves the stream alone. *)
LEMMA SameXInv ==
  XInv /\ UNCHANGED <<server, sent, told, wire, socket, m_sessionAvaliable, roster>>
       /\ (at' \in {"parse", "exited"} => at \in {"parse", "exited"}) => XInv'
BY DEF XInv, XTypes, Progress

(* The socket is the first that the login goes on with. *)
LEMMA ConnectXInv == XInv /\ Connect => XInv'
<1> SUFFICES ASSUME XInv, Connect
             PROVE  XInv'
  OBVIOUS
<1>1. /\ UNCHANGED <<server, sent, told, wire, m_sessionAvaliable, roster>>
      /\ socket = "none" /\ socket' = "connecting" /\ at' = "forward"
  BY DEF Connect, XInv, XTypes
<1>2. PICK b \in Begins, k \in 0..10 : Progress(b, k)
  BY DEF XInv
<1>3. Progress(b, k)'
  BY <1>1, <1>2 DEF Progress, SocketDue
<1>4. XTypes'
  BY <1>1 DEF XInv, XTypes, Sockets
<1> QED BY <1>3, <1>4 DEF XInv

(* A lost connection only ends it. *)
LEMMA DisconnectedXInv == XInv /\ Disconnected /\ at' = at /\ at \notin {"parse", "exited"} => XInv'
<1> SUFFICES ASSUME XInv, Disconnected, at' = at, at \notin {"parse", "exited"}
             PROVE  XInv'
  OBVIOUS
<1>1. UNCHANGED <<server, sent, told, wire, m_sessionAvaliable, roster>> /\ socket' = "lost"
  BY DEF Disconnected
<1>2. PICK b \in Begins, k \in 0..10 : Progress(b, k)
  BY DEF XInv
<1>3. Progress(b, k)'
  BY <1>1, <1>2 DEF Progress, SocketDue
<1>4. XTypes'
  BY <1>1 DEF XInv, XTypes, Sockets
<1> QED BY <1>3, <1>4 DEF XInv

(* A stream is opened where the plan has one. *)
LEMMA OpenedXInv == XInv /\ Opened /\ at' = at /\ at \notin {"parse", "exited"} => XInv'
<1> SUFFICES ASSUME XInv, Opened, at' = at, at \notin {"parse", "exited"}
             PROVE  XInv'
  OBVIOUS
<1>1. /\ \/ socket = "connecting" /\ socket' = "open"
         \/ socket = "encrypting" /\ socket' = "encrypted"
      /\ UNCHANGED <<server, wire, m_sessionAvaliable, roster>>
      /\ sent' = sent \o <<"stream">> /\ told' = told \o <<"stream">>
  <2>1. Writes(<<"stream">>) /\ UNCHANGED <<server, wire, m_sessionAvaliable, roster>>
    BY DEF Opened
  <2>2. sent' = sent \o <<"stream">> /\ told' = told \o <<"stream">>
    BY <2>1 DEF Writes
  <2>3. \/ socket = "connecting" /\ socket' = "open"
        \/ socket = "encrypting" /\ socket' = "encrypted"
    BY DEF Opened
  <2> QED BY <2>1, <2>2, <2>3
<1>2. PICK b \in Begins, k \in 0..10 : Progress(b, k)
  BY DEF XInv
<1>3. Asked(sent) = {} /\ Prompted(wire) = {} /\ sent \in Seq(Messages) /\ told \in Seq(Messages)
  BY <1>1 DEF XInv, XTypes
<1>4. "stream" \in Messages /\ "stream" \in Own
  BY OwnIs DEF Messages
<1>5. sent' = Append(sent, "stream") /\ told' = Append(told, "stream")
      /\ sent' \in Seq(Messages) /\ told' \in Seq(Messages)
  BY <1>1, <1>3, <1>4, Appends
<1>6. \/ k = 0 /\ server.at = "new"
      \/ k = b /\ server.at = "encrypted"
  BY <1>1, <1>2 DEF Progress, SocketDue, Encrypted
<1>7. k + 1 \in {1, b + 1} /\ k < b + 7 /\ k + 1 \in 0..10
  BY <1>6 DEF Begins
<1>8. "stream" = Plan(b)[k + 1] /\ k < Len(Plan(b))
  BY <1>7, PlanIs
<1>9. Goes(told', b, k + 1)
  BY <1>2, <1>3, <1>4, <1>5, <1>8, GoesOn DEF Progress
<1>10. AsksDue(server', sent', b, k + 1)
  <2>1. SentDue(server, "stream", b, k + 1)
    BY <1>6, <1>7 DEF SentDue
  <2>2. AsksDue(server, Append(sent, "stream"), b, k + 1)
    BY <1>3, <1>4, <2>1, AskedAppend
  <2> QED BY <1>1, <1>5, <2>2
<1>11. PromptsDue(server', wire', b, k + 1) /\ SocketDue(server', socket', b, k + 1)
  BY <1>1, <1>3 DEF PromptsDue, SocketDue
<1>12. XTypes'
  BY <1>1, <1>3, <1>5 DEF XInv, XTypes, Sockets
<1>13. Progress(b, k + 1)'
  BY <1>1, <1>2, <1>9, <1>10, <1>11 DEF Progress
<1> QED BY <1>7, <1>12, <1>13 DEF XInv

(* One element, alone or behind a header. *)
LEMMA PromptOne ==
  ASSUME NEW e \in Elements, NEW v, NEW b, NEW k
  PROVE  /\ WireDue(v, e, b, k) => PromptsDue(v, <<e>>, b, k) /\ PromptsDue(v, <<<<"header">>, e>>, b, k)
         /\ e \notin Prompts => Prompted(<<e>>) = {}
         /\ <<e>> \in Seq(Elements) /\ <<<<"header">>, e>> \in Seq(Elements)
         /\ Prompted(<<>>) = {} /\ <<>> \in Seq(Elements)
<1> DEFINE o == <<e>>
           h == <<"header">>
           d == <<h, e>>
<1> HIDE DEF h
<1>1. DOMAIN o = {1} /\ o[1] = e /\ DOMAIN d = {1, 2} /\ d[1] = h /\ d[2] = e
  OBVIOUS
<1>0. h \in Elements /\ h \notin Prompts
  BY Plain DEF h
<1>2. o \in Seq(Elements) /\ d \in Seq(Elements)
  BY <1>0
<1> HIDE DEF o, d
<1>3. WireDue(v, e, b, k) => PromptsDue(v, o, b, k)
  BY <1>1 DEF PromptsDue, Prompted
<1>4. WireDue(v, e, b, k) => PromptsDue(v, d, b, k)
  <2>1. \A i \in Prompted(d) : i = 2
    BY <1>0, <1>1 DEF Prompted
  <2> QED BY <1>1, <2>1 DEF PromptsDue
<1>5. e \notin Prompts => Prompted(o) = {}
  BY <1>1 DEF Prompted
<1>6. Prompted(<<>>) = {} /\ <<>> \in Seq(Elements)
  BY DEF Prompted
<1> QED BY <1>2, <1>3, <1>4, <1>5, <1>6 DEF o, d, h

(* The server answers what it is asked with what is due. *)
LEMMA AnswerDue ==
  ASSUME XInv, ServerReads, NEW b \in Begins, NEW k \in 0..10, Progress(b, k),
         Head(sent) \in Asks, SentDue(server, Head(sent), b, k)
  PROVE  /\ server' \in Logins /\ Answer(Head(sent)) \in Seq(Elements)
         /\ PromptsDue(server', Answer(Head(sent)), b, k)
<1> DEFINE m == Head(sent)
           a == Answer(m)
<1>1. SentDue(server, m, b, k) /\ server \in Logins
  BY DEF XInv, XTypes
<1>2. Prompts \subseteq Elements /\ <<"failure">> \in Elements /\ <<"failure">> \notin Prompts
  BY Plain DEF Elements
<1>3. ASSUME NEW e \in Elements, a = <<e>>, WireDue(server', e, b, k) \/ e \notin Prompts
      PROVE  a \in Seq(Elements) /\ PromptsDue(server', a, b, k)
  BY <1>3, PromptOne DEF PromptsDue
<1>4. CASE m = "stream"
  <2>1. a = <<<<"header">>, Features>> /\ server' = server
    BY <1>4 DEF Answer, ServerReads
  <2>2. \/ k = 1 /\ server.at = "new"
        \/ k = b + 1 /\ server.at = "encrypted"
        \/ k = b + 3 /\ server.at = "authenticated"
    BY <1>1, <1>4 DEF SentDue
  <2>3. Features \in Prompts /\ WireDue(server, Features, b, k)
    <3>1. CASE k = 1 /\ server.at = "new"
      <4>1. Features = server.offers /\ server.offers \in Offers
        BY <1>1, <3>1 DEF Features, Logins
      <4> QED BY <3>1, <4>1 DEF Prompts, WireDue
    <3>2. CASE k = b + 1 /\ server.at = "encrypted"
      <4>1. Features = <<"mechanisms">>
        BY <3>2 DEF Features
      <4> QED BY <3>2, <4>1 DEF Prompts, Offers, WireDue
    <3>3. CASE k = b + 3 /\ server.at = "authenticated"
      <4>1. Features = server.binds /\ server.binds \in Binds
        BY <1>1, <3>3 DEF Features, Logins
      <4> QED BY <3>3, <4>1 DEF Prompts, WireDue
    <3> QED BY <2>2, <3>1, <3>2, <3>3
  <2> HIDE DEF a
  <2>4. a \in Seq(Elements) /\ PromptsDue(server', a, b, k)
    BY <1>2, <2>1, <2>3, PromptOne
  <2> QED BY <1>1, <2>1, <2>4 DEF a
<1>5. CASE m = "starttls"
  <2>1. a = <<<<"proceed">>>> /\ server' = [server EXCEPT !.at = "encrypted"]
    BY <1>5 DEF Answer, ServerReads
  <2>2. server' \in Logins /\ WireDue(server', <<"proceed">>, b, k)
    <3>1. server' \in Logins /\ server'.at = "encrypted"
      BY <1>1, <2>1 DEF Logins
    <3>2. b # 0 /\ k = b
      BY <1>1, <1>5 DEF SentDue
    <3> QED BY <3>1, <3>2 DEF WireDue, Encrypted
  <2>3. <<"proceed">> \in Elements
    BY <1>2 DEF Prompts
  <2> HIDE DEF a
  <2> QED BY <1>3, <2>1, <2>2, <2>3 DEF a
<1>6. CASE m = "auth" /\ LetsIn
  <2>1. a = <<<<"success">>>> /\ server' = [server EXCEPT !.at = "authenticated"]
    BY <1>6 DEF Answer, ServerReads
  <2>2. server' \in Logins /\ WireDue(server', <<"success">>, b, k)
    <3>1. server' \in Logins /\ server'.at = "authenticated"
      BY <1>1, <2>1 DEF Logins
    <3>2. k = b + 2
      BY <1>1, <1>6 DEF SentDue
    <3> QED BY <3>1, <3>2 DEF WireDue
  <2>3. <<"success">> \in Elements
    BY <1>2 DEF Prompts
  <2> HIDE DEF a
  <2> QED BY <1>3, <2>1, <2>2, <2>3 DEF a
<1>7. CASE m = "auth" /\ ~LetsIn
  <2>1. a = <<<<"failure">>>> /\ server' = server
    BY <1>7 DEF Answer, ServerReads
  <2> HIDE DEF a
  <2> QED BY <1>1, <1>2, <1>3, <2>1 DEF a
<1>8. CASE m = "bind"
  <2>1. a = <<<<"bind result">>>> /\ server' = [server EXCEPT !.at = "bound"]
    BY <1>8 DEF Answer, ServerReads
  <2>2. server' \in Logins /\ WireDue(server', <<"bind result">>, b, k)
    <3>1. server' \in Logins
      BY <1>1, <2>1 DEF Logins
    <3>2. k = b + 4
      BY <1>1, <1>8 DEF SentDue
    <3> QED BY <3>1, <3>2 DEF WireDue
  <2>3. <<"bind result">> \in Elements
    BY <1>2 DEF Prompts
  <2> HIDE DEF a
  <2> QED BY <1>3, <2>1, <2>2, <2>3 DEF a
<1>9. CASE m = "session"
  <2>1. a = <<<<"session result">>>> /\ server' = server
    BY <1>9 DEF Answer, ServerReads
  <2>2. WireDue(server', <<"session result">>, b, k)
    <3>1. k = b + 5
      BY <1>1, <1>9 DEF SentDue
    <3> QED BY <3>1 DEF WireDue
  <2>3. <<"session result">> \in Elements
    BY <1>2 DEF Prompts
  <2> HIDE DEF a
  <2> QED BY <1>1, <1>3, <2>1, <2>2, <2>3 DEF a
<1> QED BY <1>4, <1>5, <1>6, <1>7, <1>8, <1>9 DEF Asks

(* What it reads is what it was asked, or nothing of the login. *)
LEMMA ServerReadsXInv == XInv /\ ServerReads /\ at' = at /\ at \notin {"parse", "exited"} => XInv'
<1> SUFFICES ASSUME XInv, ServerReads, at' = at, at \notin {"parse", "exited"}
             PROVE  XInv'
  OBVIOUS
<1> DEFINE m == Head(sent)
           a == Answer(m)
<1>1. /\ sent' = Tail(sent) /\ wire' = wire \o a /\ sent # <<>> /\ socket # "lost"
      /\ UNCHANGED <<socket, m_sessionAvaliable, roster, told>>
  BY DEF ServerReads
<1>2. PICK b \in Begins, k \in 0..10 : Progress(b, k)
  BY DEF XInv
<1>3. /\ sent \in Seq(Messages) /\ wire \in Seq(Elements) /\ server \in Logins
      /\ Asked(sent) = {} \/ Prompted(wire) = {}
  BY DEF XInv, XTypes
<1>4. /\ Tail(sent) \in Seq(Messages) /\ AsksDue(server, Tail(sent), b, k) /\ m \in Messages
      /\ m \in Asks => (\/ Asked(Tail(sent)) = {} /\ SentDue(server, m, b, k) /\ Asked(sent) # {}
                        \/ m = "auth" /\ b # 0 /\ server.at = "new")
      /\ Asked(sent) = {} => m \notin Asks /\ Asked(Tail(sent)) = {}
  BY <1>1, <1>2, <1>3, AskedTail DEF Progress
<1>5. CASE m \in Asks /\ SentDue(server, m, b, k) /\ Asked(Tail(sent)) = {} /\ Asked(sent) # {}
  <2>1. server' \in Logins /\ a \in Seq(Elements) /\ PromptsDue(server', a, b, k)
    BY <1>2, <1>5, AnswerDue
  <2>2. Asked(sent) # {} /\ Prompted(wire) = {} /\ Asked(sent') = {}
    BY <1>1, <1>3, <1>4, <1>5
  <2>3. socket \notin {"none", "connecting", "encrypting"}
    BY <2>2 DEF XInv, XTypes
  <2> HIDE DEF a
  <2>4. wire \o a \in Seq(Elements) /\ PromptsDue(server', wire \o a, b, k)
    BY <1>3, <2>1, <2>2, PromptedConcat
  <2>5. AsksDue(server', sent', b, k) /\ SocketDue(server', socket', b, k)
    BY <1>1, <2>2, <2>3 DEF AsksDue, SocketDue
  <2>8. server'.offers = server.offers
    BY <1>3 DEF ServerReads, Logins
  <2>6. Progress(b, k)'
    BY <1>1, <1>2, <2>4, <2>5, <2>8 DEF Progress, Before
  <2>7. XTypes'
    BY <1>1, <1>4, <2>1, <2>2, <2>3, <2>4 DEF XInv, XTypes
  <2> QED BY <2>6, <2>7 DEF XInv
<1>6. ASSUME m \notin Asks \/ (m = "auth" /\ b # 0 /\ server.at = "new")
      PROVE  XInv'
  <2>1. server' = server /\ a \in {<<<<"failure">>>>, <<<<"roster result">>>>, <<<<"presence">>>>, <<>>}
    <3>1. CASE m \notin Asks
      <4>1. m \notin {"starttls", "auth", "bind", "stream", "session"}
        BY <3>1 DEF Asks
      <4>2. server' = server
        BY <4>1 DEF ServerReads
      <4>3. a \in {<<<<"roster result">>>>, <<<<"presence">>>>, <<>>}
        <5>1. CASE m = "roster"
          BY <5>1 DEF Answer
        <5>2. CASE m = "presence"
          BY <5>2 DEF Answer
        <5>3. CASE m \notin {"roster", "presence"}
          BY <4>1, <5>3 DEF Answer
        <5> QED BY <5>1, <5>2, <5>3
      <4> HIDE DEF a
      <4> QED BY <4>2, <4>3
    <3>2. CASE m = "auth" /\ b # 0 /\ server.at = "new"
      <4>1. b = Before(server)
        BY <1>2 DEF Progress
      <4>2. Requires /\ ~LetsIn
        BY <1>3, <3>2, <4>1, BeginsIs DEF Requires, LetsIn
      <4>3. server' = server
        BY <3>2, <4>2 DEF ServerReads
      <4>4. a = <<<<"failure">>>>
        BY <3>2, <4>2 DEF Answer
      <4> HIDE DEF a
      <4> QED BY <4>3, <4>4
    <3> QED BY <1>6, <3>1, <3>2
  <2>2. a \in Seq(Elements) /\ Prompted(a) = {}
    <3>1. {<<"failure">>, <<"roster result">>, <<"presence">>} \subseteq Elements \ Prompts
      BY Plain
    <3> HIDE DEF a
    <3> QED BY <2>1, <3>1, PromptOne
  <2> HIDE DEF a
  <2>3. /\ wire \o a \in Seq(Elements) /\ PromptsDue(server, wire \o a, b, k)
        /\ Prompted(wire) = {} => Prompted(wire \o a) = {}
    BY <1>2, <1>3, <2>2, PromptedConcat DEF Progress
  <2>4. Asked(sent) = {} => Asked(sent') = {}
    BY <1>1, <1>4
  <2>5. Progress(b, k)'
    BY <1>1, <1>2, <1>4, <2>1, <2>3 DEF Progress
  <2>6. XTypes'
    BY <1>1, <1>3, <1>4, <2>1, <2>3, <2>4 DEF XInv, XTypes
  <2> QED BY <2>5, <2>6 DEF XInv
<1> QED BY <1>4, <1>5, <1>6

(* What it pushes is nothing of the login. *)
LEMMA ServerPushesXInv == XInv /\ ServerPushes /\ at' = at /\ at \notin {"parse", "exited"} => XInv'
<1> SUFFICES ASSUME XInv, ServerPushes, at' = at, at \notin {"parse", "exited"}
             PROVE  XInv'
  OBVIOUS
<1>1. PICK c \in Unasked : wire' = Append(wire, <<c>>)
  BY DEF ServerPushes
<1> DEFINE e == <<c>>
<1>2. UNCHANGED <<server, sent, socket, m_sessionAvaliable, roster, told>>
  BY DEF ServerPushes
<1>3. e \in Elements /\ e \notin Prompts
  BY Plain DEF Unasked
<1> HIDE DEF e
<1>4. PICK b \in Begins, k \in 0..10 : Progress(b, k)
  BY DEF XInv
<1>5. wire \in Seq(Elements) /\ wire' = wire \o <<e>>
  <2>1. wire' = Append(wire, e) /\ wire \in Seq(Elements)
    BY <1>1 DEF XInv, XTypes, e
  <2> QED BY <1>3, <2>1
<1>6. <<e>> \in Seq(Elements) /\ Prompted(<<e>>) = {}
  BY <1>3, PromptOne
<1>7. wire' \in Seq(Elements) /\ PromptsDue(server, wire', b, k) /\ (Prompted(wire) = {} => Prompted(wire') = {})
  <2>1. wire \o <<e>> \in Seq(Elements)
    BY <1>5, <1>6
  <2>2. PromptsDue(server, wire \o <<e>>, b, k) /\ (Prompted(wire) = {} => Prompted(wire \o <<e>>) = {})
    BY <1>4, <1>5, <1>6, PromptedConcat DEF Progress
  <2> QED BY <1>5, <2>1, <2>2
<1>8. Progress(b, k)'
  BY <1>2, <1>4, <1>7 DEF Progress
<1>9. XTypes'
  BY <1>2, <1>7 DEF XInv, XTypes
<1> QED BY <1>8, <1>9 DEF XInv

(* A read takes what is due, and writes what is due next; or drops it. *)
LEMMA ReadXInv == XInv /\ Read /\ at' = at /\ at \notin {"parse", "exited"} => XInv'
<1> SUFFICES ASSUME XInv, Read, at' = at, at \notin {"parse", "exited"}
             PROVE  XInv'
  OBVIOUS
<1>1. PICK n \in 0..Len(wire), half \in BOOLEAN :
         /\ wire' = SubSeq(wire, n + 1, Len(wire))
         /\ IF cut \/ half
            THEN /\ dropped' = TRUE
                 /\ UNCHANGED <<sent, told, socket, m_sessionAvaliable, roster>>
            ELSE LET x == FoldLeft(Element,
                             [out |-> <<>>, session |-> m_sessionAvaliable,
                              roster |-> roster, socket |-> socket, over |-> FALSE],
                             SubSeq(wire, 1, n))
                 IN  /\ Writes(x.out) /\ m_sessionAvaliable' = x.session
                     /\ roster' = x.roster /\ socket' = x.socket /\ UNCHANGED dropped
  BY DEF Read
<1>2. server' = server /\ socket \in {"open", "encrypted"}
  BY DEF Read
<1>3. PICK b \in Begins, k \in 0..10 : Progress(b, k)
  BY DEF XInv
<1>4. /\ sent \in Seq(Messages) /\ told \in Seq(Messages) /\ wire \in Seq(Elements) /\ server \in Logins
      /\ m_sessionAvaliable \in BOOLEAN /\ roster \in Entries
      /\ Asked(sent) = {} \/ Prompted(wire) = {}
  BY DEF XInv, XTypes
<1> DEFINE q == SubSeq(wire, 1, n)
           r == SubSeq(wire, n + 1, Len(wire))
<1>5. /\ q \in Seq(Elements) /\ r \in Seq(Elements)
      /\ PromptsDue(server, q, b, k) /\ PromptsDue(server, r, b, k)
      /\ Prompted(q) # {} => Prompted(r) = {}
      /\ Prompted(wire) = {} => Prompted(q) = {} /\ Prompted(r) = {}
  BY <1>3, <1>4, PromptedRest DEF Progress
<1> HIDE DEF q, r
<1>6. wire' = r
  BY <1>1 DEF r
<1>7. CASE cut \/ half
  <2>1. UNCHANGED <<sent, told, socket, m_sessionAvaliable, roster>>
    BY <1>1, <1>7
  <2>2. Progress(b, k)'
    BY <1>2, <1>3, <1>5, <1>6, <2>1 DEF Progress
  <2>3. XTypes'
    BY <1>2, <1>4, <1>5, <1>6, <2>1 DEF XInv, XTypes
  <2> QED BY <2>2, <2>3 DEF XInv
<1>8. CASE ~(cut \/ half)
  <2> DEFINE base == [out |-> <<>>, session |-> m_sessionAvaliable,
                      roster |-> roster, socket |-> socket, over |-> FALSE]
             x == FoldLeft(Element, base, q)
  <2>1. /\ Writes(x.out) /\ m_sessionAvaliable' = x.session
        /\ roster' = x.roster /\ socket' = x.socket
    BY <1>1, <1>8 DEF q
  <2>2. sent' = sent \o x.out /\ told' = told \o x.out
    BY <2>1 DEF Writes
  <2>3. base \in Reading /\ base.out = <<>> /\ base.socket = socket /\ base.over = FALSE
    <3>1. <<>> \in Seq(Messages) /\ socket \in Sockets
      BY DEF XInv, XTypes
    <3> QED BY <1>4, <3>1 DEF Reading
  <2> HIDE DEF base
  <2>4. Same(told, socket, b, k, base)
    <3>1. told \o <<>> = told
      BY <1>4
    <3>2. Asked(<<>>) = {}
      BY DEF Asked
    <3> QED BY <1>3, <2>3, <3>1, <3>2 DEF Same, Progress
  <2>5. /\ x \in Reading
        /\ Prompted(q) = {} => Same(told, socket, b, k, x)
        /\ Prompted(q) # {} => After(server, told, socket, b, x)
    <3>1. b = Before(server)
      BY <1>3 DEF Progress
    <3> QED BY <1>4, <1>5, <2>3, <2>4, <3>1, ReadAfter
  <2> HIDE DEF x
  <2>6. x.out \in Seq(Messages) /\ x.session \in BOOLEAN /\ x.roster \in Entries /\ x.socket \in Sockets
    BY <2>5 DEF Reading
  <2>7. sent' \in Seq(Messages) /\ told' \in Seq(Messages)
    BY <1>4, <2>2, <2>6
  <2>8. CASE Prompted(q) = {}
    <3>1. Asked(x.out) = {} /\ x.socket = socket /\ Goes(told', b, k)
      BY <2>2, <2>5, <2>8 DEF Same
    <3>2. AsksDue(server, sent', b, k) /\ (Asked(sent) = {} => Asked(sent') = {})
      BY <1>3, <1>4, <2>2, <2>6, <3>1, AskedConcat DEF Progress
    <3>3. Progress(b, k)'
      BY <1>2, <1>3, <1>5, <1>6, <2>1, <3>1, <3>2 DEF Progress
    <3>4. XTypes'
      BY <1>2, <1>4, <1>5, <1>6, <2>1, <2>6, <2>7, <3>1, <3>2 DEF XTypes
    <3> QED BY <3>3, <3>4 DEF XInv
  <2>9. CASE Prompted(q) # {}
    <3>1. Prompted(wire') = {} /\ Asked(sent) = {}
      BY <1>4, <1>5, <1>6, <2>9
    <3>2. PICK l \in 0..10 :
             /\ Goes(told \o x.out, b, l) /\ AsksDue(server, x.out, b, l)
             /\ x.socket = socket \/ (x.socket = "encrypting" /\ Encrypted(server, b, l) /\ Asked(x.out) = {})
      BY <2>5, <2>9 DEF After
    <3>3. AsksDue(server, sent', b, l) /\ (Asked(x.out) = {} => Asked(sent') = {})
      BY <1>4, <2>2, <2>6, <3>1, <3>2, AskedConcat
    <3>4. PromptsDue(server, wire', b, l)
      BY <3>1 DEF PromptsDue
    <3>5. SocketDue(server, socket', b, l)
      BY <1>2, <2>1, <3>2 DEF SocketDue
    <3>6. Progress(b, l)'
      BY <1>2, <1>3, <2>2, <3>2, <3>3, <3>4, <3>5 DEF Progress
    <3>7. socket' \in {"none", "connecting", "encrypting"} => Asked(sent') = {}
      BY <1>2, <2>1, <3>2, <3>3
    <3>8. XTypes'
      BY <1>2, <1>4, <1>5, <1>6, <2>1, <2>6, <2>7, <3>1, <3>7 DEF XTypes
    <3> QED BY <3>6, <3>8 DEF XInv
  <2> QED BY <2>8, <2>9
<1> QED BY <1>7, <1>8

(* All other steps leave the stream alone, but for Connect. *)
LEMMA NextXInv == XInv /\ [Next]_vars => XInv'
<1> SUFFICES ASSUME XInv, [Next]_vars
             PROVE  XInv'
  OBVIOUS
<1>1. CASE Connect
  BY <1>1, ConnectXInv
<1>2. CASE StreamStep \/ Environment
  <2>1. at' = at /\ at \notin {"parse", "exited"}
    BY <1>2 DEF StreamStep, Environment
  <2>2. ServerReads \/ Read \/ Opened \/ ServerPushes \/ Disconnected
    BY <1>2 DEF StreamStep, Environment, Streams
  <2> QED BY <2>1, <2>2, ServerReadsXInv, ReadXInv, OpenedXInv, ServerPushesXInv, DisconnectedXInv
<1>3. CASE ParseStep \/ Reject \/ ForwardStep \/ StartServent \/ UNCHANGED vars
  <2>1. UNCHANGED xmppVars /\ (at' \in {"parse", "exited"} => at \in {"parse", "exited"})
    BY <1>3 DEF ParseStep, Reject, ForwardStep, StartServent, vars
  <2>2. UNCHANGED <<server, sent, told, wire, socket, m_sessionAvaliable, roster>>
    BY <2>1 DEF xmppVars
  <2> QED BY <2>1, <2>2, SameXInv
<1> QED BY <1>1, <1>2, <1>3 DEF Next, Runs

(* What goes by a plan is in order. *)
LEMMA XInvInOrder == XInv => LoginInOrder
<1> SUFFICES ASSUME XInv
             PROVE  LoginInOrder
  OBVIOUS
<1>1. PICK b \in Begins, k \in 0..10 : Goes(told, b, k) /\ b = Before(server)
  BY DEF XInv, Progress
<1>2. Plan(b) = Encrypts(server.offers) \o Login
  <2>1. server \in Logins
    BY DEF XInv, XTypes
  <2> QED BY <1>1, <2>1, BeginsIs DEF Plan
<1>3. \A i \in DOMAIN told : told[i] \in Own =>
         Cardinality({j \in 1..i : told[j] \in Own}) <= Len(Plan(b))
         /\ told[i] = Plan(b)[Cardinality({j \in 1..i : told[j] \in Own})]
  BY <1>1 DEF Goes, Planned, Owned
<1> QED BY <1>2, <1>3 DEF LoginInOrder

(* Whatever the features of the server, in whatever order, and whatever it     *)
(* pushes, and however what it writes is cut into reads: what the client     *)
(* writes of its own is the login, in order and once, after the encryption if *)
(* that is required; the password goes before it, too, to a server that      *)
(* names its mechanisms before starttls (QXmppStream::parser).               *)
THEOREM LoginGoesInOrder == Spec => []LoginInOrder
BY InitXInv, NextXInv, XInvInOrder, PTL DEF Spec

================================================================================
