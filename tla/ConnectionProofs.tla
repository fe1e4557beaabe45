--------------------------- MODULE ConnectionProofs ---------------------------
(***************************************************************************)
(* However TCP cuts the byte stream and whenever the link breaks, a        *)
(* Connection hands over what the other end sent, whole and in order, and  *)
(* leaves no message behind in its buffer: for any handshake messages, any *)
(* payloads and any bounds.                                                *)
(***************************************************************************)
EXTENDS Connection, SequenceTheorems, TLAPS

Messages == {m \in Seq(Byte) : IsMessage(m)}
Bytes == Seq(Byte)

-----------------------------------------------------------------------------
(* Frames *)

LEMMA BigEndianBytes ==
  ASSUME NEW n \in Nat, n <= MaxInt
  PROVE  /\ BigEndian(n) \in Bytes /\ Len(BigEndian(n)) = HdrLen
         /\ FromBigEndian(BigEndian(n)) = n
<1> DEFINE q1 == n \div 256
           q2 == q1 \div 256
           q3 == q2 \div 256
<1>1. BigEndian(n) = <<q3, q2 % 256, q1 % 256, n % 256>>
  <2>1. n \div (256 * 256 * 256) = q3 /\ n \div (256 * 256) = q2
    BY SMT
  <2> QED BY <2>1 DEF BigEndian
<1>2. q3 <= 255
  <2>1. n <= 2147483647
    BY DEF MaxInt
  <2> QED BY <2>1, SMT
<1>3. /\ q1 \in Nat /\ q2 \in Nat /\ q3 \in Nat
      /\ n % 256 \in Byte /\ q1 % 256 \in Byte /\ q2 % 256 \in Byte
  BY SMT DEF Byte
<1>4. /\ n = q1 * 256 + (n % 256) /\ q1 = q2 * 256 + (q1 % 256)
      /\ q2 = q3 * 256 + (q2 % 256)
  BY <1>3, SMT
<1> HIDE DEF q1, q2, q3
<1>5. /\ <<q3, q2 % 256, q1 % 256, n % 256>> \in Bytes
      /\ Len(<<q3, q2 % 256, q1 % 256, n % 256>>) = HdrLen
  BY <1>2, <1>3 DEF Bytes, Byte, HdrLen
<1>6. FromBigEndian(BigEndian(n)) = n
  BY <1>1, <1>3, <1>4 DEF FromBigEndian
<1> QED BY <1>1, <1>5, <1>6

(* Four bytes are the length they were made from. *)
LEMMA LengthOfHeader ==
  ASSUME NEW n \in Nat, n <= MaxInt, NEW q,
         \A j \in 1..HdrLen : q[j] = BigEndian(n)[j]
  PROVE  FromBigEndian(q) = n
<1>1. q[1] = BigEndian(n)[1] /\ q[2] = BigEndian(n)[2]
      /\ q[3] = BigEndian(n)[3] /\ q[4] = BigEndian(n)[4]
  BY DEF HdrLen
<1>2. FromBigEndian(q) = FromBigEndian(BigEndian(n))
  BY <1>1 DEF FromBigEndian
<1> QED BY <1>2, BigEndianBytes

LEMMA MessageFacts ==
  ASSUME NEW m \in Messages
  PROVE  /\ m \in Bytes /\ Len(m) \in Nat \ {0} /\ Len(m) <= MaxInt
         /\ Frame(m) \in Bytes /\ Len(Frame(m)) = HdrLen + Len(m)
         /\ Frame(m) = BigEndian(Len(m)) \o m
         /\ \A j \in 1..HdrLen : Frame(m)[j] = BigEndian(Len(m))[j]
         /\ \A j \in 1..Len(m) : Frame(m)[HdrLen + j] = m[j]
<1>1. m \in Bytes /\ Len(m) \in Nat \ {0} /\ Len(m) <= MaxInt
  <2>1. m \in Bytes /\ m # <<>> /\ Len(m) <= MaxInt
    BY DEF Messages, IsMessage, Bytes
  <2> QED BY <2>1 DEF Bytes
<1>2. BigEndian(Len(m)) \in Bytes /\ Len(BigEndian(Len(m))) = HdrLen
  BY <1>1, BigEndianBytes
<1> DEFINE h == BigEndian(Len(m))
<1> HIDE DEF h
<1>3. /\ h \o m \in Bytes /\ Len(h \o m) = HdrLen + Len(m)
      /\ \A j \in 1..HdrLen : (h \o m)[j] = h[j]
      /\ \A j \in 1..Len(m) : (h \o m)[HdrLen + j] = m[j]
  <2>1. h \in Bytes /\ Len(h) = HdrLen /\ HdrLen = 4
    BY <1>2 DEF h, HdrLen
  <2>2. /\ h \o m \in Bytes /\ Len(h \o m) = Len(h) + Len(m)
        /\ \A i \in 1..(Len(h) + Len(m)) :
              (h \o m)[i] = IF i <= Len(h) THEN h[i] ELSE m[i - Len(h)]
    BY <1>1, <2>1, ConcatProperties DEF Bytes
  <2> HIDE DEF h
  <2>3. \A j \in 1..Len(m) : (HdrLen + j) - HdrLen = j /\ ~(HdrLen + j <= HdrLen)
                             /\ HdrLen + j \in 1..(HdrLen + Len(m))
    BY <1>1, <2>1
  <2> QED BY <1>1, <2>1, <2>2, <2>3
<1> QED BY <1>1, <1>3 DEF Frame, h

(* The bytes b are the frames of the messages ms, one after the other: the   *)
(* i-th ends at pos[i].                                                      *)
Cuts(b, ms, pos) ==
    /\ pos \in [0..Len(ms) -> 0..Len(b)]
    /\ pos[0] = 0 /\ pos[Len(ms)] = Len(b)
    /\ \A i, j \in 0..Len(ms) : i <= j => pos[i] <= pos[j]
    /\ \A i \in 1..Len(ms) :
          /\ pos[i] = pos[i - 1] + Len(Frame(ms[i]))
          /\ \A j \in 1..Len(Frame(ms[i])) : b[pos[i - 1] + j] = Frame(ms[i])[j]

IsStream(b, ms) == \E pos : Cuts(b, ms, pos)

LEMMA EmptyStream ==
  /\ IsStream(<<>>, <<>>)
  /\ \A b \in Bytes : IsStream(b, <<>>) => b = <<>>
<1>1. Cuts(<<>>, <<>>, [i \in 0..0 |-> 0])
  BY DEF Cuts
<1>2. ASSUME NEW b \in Bytes, NEW pos, Cuts(b, <<>>, pos)
      PROVE  b = <<>>
  <2>1. Len(<<>>) = 0
    OBVIOUS
  <2>2. Len(b) = 0
    BY <1>2, <2>1 DEF Cuts
  <2> QED BY <2>2 DEF Bytes
<1> QED BY <1>1, <1>2 DEF IsStream

(* Writing a frame behind a stream. *)
LEMMA StreamGrows ==
  ASSUME NEW b \in Bytes, NEW ms \in Seq(Messages), IsStream(b, ms),
         NEW m \in Messages
  PROVE  IsStream(b \o Frame(m), Append(ms, m))
<1>1. PICK pos : Cuts(b, ms, pos)
  BY DEF IsStream
<1> DEFINE f == Frame(m)
           k == Len(ms)
           new == [i \in 0..(k + 1) |-> IF i <= k THEN pos[i] ELSE Len(b) + Len(f)]
           c == b \o f
           ns == Append(ms, m)
<1>2. f \in Bytes /\ Len(f) \in Nat /\ k \in Nat /\ Len(b) \in Nat
  BY MessageFacts DEF Bytes
<1>3. Len(ns) = k + 1 /\ ns[k + 1] = m /\ \A i \in 1..k : ns[i] = ms[i]
  OBVIOUS
<1>4. /\ Len(c) = Len(b) + Len(f)
      /\ \A i \in 1..Len(b) : c[i] = b[i]
      /\ \A i \in 1..Len(f) : c[Len(b) + i] = f[i]
  <2> HIDE DEF f
  <2> QED BY <1>2 DEF Bytes
<1>5. /\ pos \in [0..k -> 0..Len(b)] /\ pos[0] = 0 /\ pos[k] = Len(b)
      /\ \A i, j \in 0..k : i <= j => pos[i] <= pos[j]
      /\ \A i \in 1..k :
            /\ pos[i] = pos[i - 1] + Len(Frame(ms[i]))
            /\ \A j \in 1..Len(Frame(ms[i])) : b[pos[i - 1] + j] = Frame(ms[i])[j]
  BY <1>1 DEF Cuts
<1> HIDE DEF f, k, c, ns
<1>6. /\ new \in [0..(k + 1) -> 0..(Len(b) + Len(f))]
      /\ \A i \in 0..k : new[i] = pos[i]
      /\ new[k + 1] = Len(b) + Len(f)
  BY <1>2, <1>5
<1> HIDE DEF new
<1>7. \A i, j \in 0..(k + 1) : i <= j => new[i] <= new[j]
  <2> SUFFICES ASSUME NEW i \in 0..(k + 1), NEW j \in 0..(k + 1), i <= j
               PROVE  new[i] <= new[j]
    OBVIOUS
  <2>1. CASE j <= k
    <3>1. i \in 0..k /\ j \in 0..k
      BY <1>2, <2>1
    <3> QED BY <1>5, <1>6, <3>1
  <2>2. CASE j = k + 1
    BY <1>2, <1>6, <2>2
  <2> QED BY <1>2, <2>1, <2>2
<1>8. ASSUME NEW i \in 1..(k + 1)
      PROVE  /\ new[i] = new[i - 1] + Len(Frame(ns[i]))
             /\ \A j \in 1..Len(Frame(ns[i])) : c[new[i - 1] + j] = Frame(ns[i])[j]
  <2>1. CASE i = k + 1
    <3>1. ns[i] = m /\ new[i - 1] = Len(b) /\ new[i] = Len(b) + Len(f)
      BY <1>2, <1>3, <1>5, <1>6, <2>1
    <3> QED BY <1>4, <3>1 DEF f
  <2>2. CASE i # k + 1
    <3>0. i \in 1..k /\ i - 1 \in 0..k /\ i \in 0..k
      BY <1>2, <2>2
    <3>1. /\ i \in 1..k /\ i - 1 \in 0..k /\ i \in 0..k /\ ns[i] = ms[i]
          /\ new[i - 1] = pos[i - 1] /\ new[i] = pos[i]
      BY <1>3, <1>6, <3>0
    <3>2. pos[i] = pos[i - 1] + Len(Frame(ms[i]))
      BY <1>5, <3>1
    <3>3. pos[i] \in 0..Len(b) /\ pos[i - 1] \in 0..Len(b)
      BY <1>2, <1>5, <3>1
    <3>4. ASSUME NEW j \in 1..Len(Frame(ms[i]))
          PROVE  c[pos[i - 1] + j] = Frame(ms[i])[j]
      <4>1. ms[i] \in Messages
        BY <3>1 DEF k
      <4>2. Len(Frame(ms[i])) \in Nat
        BY <4>1, MessageFacts DEF Bytes
      <4>3. pos[i - 1] + j \in 1..Len(b)
        BY <1>2, <3>2, <3>3, <4>2
      <4> QED BY <1>4, <1>5, <3>1, <4>3
    <3> QED BY <3>1, <3>2, <3>4
  <2> QED BY <2>1, <2>2
<1>9. Cuts(c, ns, new)
  <2>1. 0 \in 0..k
    BY <1>2
  <2> QED BY <1>3, <1>4, <1>5, <1>6, <1>7, <1>8, <2>1 DEF Cuts
<1> QED BY <1>9 DEF IsStream, c, ns, f

(* Taking the first frame off a stream that has bytes. *)
LEMMA StreamShrinks ==
  ASSUME NEW b \in Bytes, b # <<>>, NEW ms \in Seq(Messages), IsStream(b, ms)
  PROVE  /\ ms # <<>>
         /\ LET n == Len(Frame(ms[1])) IN
               /\ n <= Len(b)
               /\ \A j \in 1..n : b[j] = Frame(ms[1])[j]
               /\ IsStream(SubSeq(b, n + 1, Len(b)), Tail(ms))
<1>0. ms # <<>>
  BY EmptyStream
<1>1. PICK pos : Cuts(b, ms, pos)
  BY DEF IsStream
<1> DEFINE n == Len(Frame(ms[1]))
           k == Len(ms)
           c == SubSeq(b, n + 1, Len(b))
           ns == Tail(ms)
           new == [i \in 0..(k - 1) |-> pos[i + 1] - n]
<1>2. k \in Nat \ {0} /\ Len(b) \in Nat /\ ms[1] \in Messages
  BY <1>0 DEF Bytes
<1>3. n \in Nat
  BY <1>2, MessageFacts DEF Bytes
<1>4. /\ pos \in [0..k -> 0..Len(b)] /\ pos[0] = 0 /\ pos[k] = Len(b)
      /\ \A i, j \in 0..k : i <= j => pos[i] <= pos[j]
      /\ \A i \in 1..k :
            /\ pos[i] = pos[i - 1] + Len(Frame(ms[i]))
            /\ \A j \in 1..Len(Frame(ms[i])) : b[pos[i - 1] + j] = Frame(ms[i])[j]
  BY <1>1 DEF Cuts
<1>5. /\ Len(ns) = k - 1 /\ \A i \in 1..(k - 1) : ns[i] = ms[i + 1]
      /\ \A i \in 1..k : ms[i] \in Messages
  BY <1>0
<1> HIDE DEF k, ns
<1>6. pos[1] = n /\ \A j \in 1..n : b[j] = Frame(ms[1])[j]
  <2>1. 1 \in 1..k /\ 1 - 1 = 0
    BY <1>2
  <2>2. /\ pos[1] = pos[0] + Len(Frame(ms[1]))
        /\ \A j \in 1..Len(Frame(ms[1])) : b[pos[0] + j] = Frame(ms[1])[j]
    BY <1>4, <2>1
  <2>3. \A j \in 1..n : 0 + j = j
    BY <1>3
  <2> QED BY <1>3, <1>4, <2>2, <2>3
<1> HIDE DEF n
<1>7. n <= Len(b)
  BY <1>2, <1>4, <1>6
<1>8. /\ c \in Bytes /\ Len(c) = Len(b) - n
      /\ \A j \in 1..(Len(b) - n) : c[j] = b[n + j]
  BY <1>2, <1>3, <1>7 DEF Bytes
<1> HIDE DEF c
<1>9. /\ new \in [0..(k - 1) -> 0..Len(c)]
      /\ \A i \in 0..(k - 1) : new[i] = pos[i + 1] - n
  <2>1. ASSUME NEW i \in 0..(k - 1)
        PROVE  pos[i + 1] - n \in 0..(Len(b) - n)
    <3>1. i + 1 \in 0..k /\ 1 \in 0..k /\ 1 <= i + 1
      BY <1>2
    <3>2. pos[1] <= pos[i + 1] /\ pos[i + 1] \in 0..Len(b)
      BY <1>4, <3>1
    <3> QED BY <1>2, <1>3, <1>6, <3>2
  <2> QED BY <1>8, <2>1
<1> HIDE DEF new
<1>10. \A i, j \in 0..(k - 1) : i <= j => new[i] <= new[j]
  <2> SUFFICES ASSUME NEW i \in 0..(k - 1), NEW j \in 0..(k - 1), i <= j
               PROVE  new[i] <= new[j]
    OBVIOUS
  <2>1. i + 1 \in 0..k /\ j + 1 \in 0..k /\ i + 1 <= j + 1
    BY <1>2
  <2>2. /\ pos[i + 1] <= pos[j + 1] /\ pos[i + 1] \in 0..Len(b)
        /\ pos[j + 1] \in 0..Len(b)
    BY <1>4, <2>1
  <2> QED BY <1>2, <1>3, <1>9, <2>2
<1>11. new[0] = 0 /\ new[k - 1] = Len(c)
  <2>1. 0 \in 0..(k - 1) /\ k - 1 \in 0..(k - 1) /\ 0 + 1 = 1 /\ (k - 1) + 1 = k
    BY <1>2
  <2>2. new[0] = pos[1] - n /\ new[k - 1] = pos[k] - n
    BY <1>9, <2>1
  <2> QED BY <1>2, <1>3, <1>4, <1>6, <1>8, <2>2
<1>12. ASSUME NEW i \in 1..(k - 1)
       PROVE  /\ new[i] = new[i - 1] + Len(Frame(ns[i]))
              /\ \A j \in 1..Len(Frame(ns[i])) : c[new[i - 1] + j] = Frame(ns[i])[j]
  <2>1. /\ i + 1 \in 1..k /\ (i + 1) - 1 = i /\ (i - 1) + 1 = i
        /\ i \in 0..(k - 1) /\ i - 1 \in 0..(k - 1) /\ i \in 0..k /\ i + 1 \in 0..k
    BY <1>2
  <2>2. /\ pos[i + 1] = pos[i] + Len(Frame(ms[i + 1]))
        /\ \A j \in 1..Len(Frame(ms[i + 1])) : b[pos[i] + j] = Frame(ms[i + 1])[j]
    BY <1>4, <2>1
  <2>3. ns[i] = ms[i + 1] /\ new[i] = pos[i + 1] - n /\ new[i - 1] = pos[i] - n
    BY <1>5, <1>9, <2>1
  <2>4. pos[i] \in 0..Len(b) /\ pos[i + 1] \in 0..Len(b)
    BY <1>4, <2>1
  <2>5. Len(Frame(ms[i + 1])) \in Nat
    BY <1>5, <2>1, MessageFacts DEF Bytes
  <2>6. n <= pos[i]
    <3>1. 1 \in 0..k /\ 1 <= i
      BY <1>2
    <3> QED BY <1>4, <1>6, <2>1, <3>1
  <2>7. ASSUME NEW j \in 1..Len(Frame(ms[i + 1]))
        PROVE  c[new[i - 1] + j] = Frame(ms[i + 1])[j]
    <3> DEFINE p == pos[i]
               q == pos[i + 1]
               l == Len(b)
               f == Len(Frame(ms[i + 1]))
    <3>2. /\ p \in Nat /\ q \in Nat /\ l \in Nat /\ f \in Nat /\ n \in Nat
          /\ q = p + f /\ q <= l /\ n <= p /\ new[i - 1] = p - n /\ j \in 1..f
      BY <1>2, <1>3, <2>2, <2>3, <2>4, <2>5, <2>6
    <3> HIDE DEF p, q, l, f
    <3>3. (p - n) + j \in 1..(l - n) /\ n + ((p - n) + j) = p + j
      BY <3>2
    <3>1. new[i - 1] + j \in 1..(Len(b) - n) /\ n + (new[i - 1] + j) = pos[i] + j
      BY <3>2, <3>3, Zenon DEF p, l
    <3> QED BY <1>8, <2>2, <3>1
  <2>8. new[i] = new[i - 1] + Len(Frame(ms[i + 1]))
    BY <1>3, <2>2, <2>3, <2>4, <2>5
  <2> QED BY <2>3, <2>7, <2>8
<1>13. Cuts(c, ns, new)
  BY <1>5, <1>9, <1>10, <1>11, <1>12 DEF Cuts
<1> QED BY <1>0, <1>6, <1>7, <1>13 DEF IsStream, c, ns, n

LEMMA Drop ==
  ASSUME NEW b \in Bytes, NEW n \in Nat, n <= Len(b)
  PROVE  /\ SubSeq(b, n + 1, Len(b)) \in Bytes
         /\ Len(SubSeq(b, n + 1, Len(b))) = Len(b) - n
         /\ \A i \in 1..(Len(b) - n) : SubSeq(b, n + 1, Len(b))[i] = b[n + i]
  BY DEF Bytes

(* A header read before is the start of what is left to read. *)
Header(h) == IF h = 0 THEN <<>> ELSE BigEndian(h)

LEMMA FirstMessage ==
  ASSUME NEW r \in Bytes, NEW w \in Bytes, NEW need \in Nat, need <= MaxInt,
         NEW ms \in Seq(Messages), IsStream(BigEndian(need) \o (r \o w), ms)
  PROVE  /\ ms # <<>> /\ ms[1] \in Messages /\ Len(ms[1]) = need
         /\ Len(r) >= need =>
               /\ SubSeq(r, 1, need) = ms[1]
               /\ SubSeq(r, need + 1, Len(r)) \in Bytes
               /\ IsStream(SubSeq(r, need + 1, Len(r)) \o w, Tail(ms))
<1> DEFINE h == BigEndian(need)
           s == r \o w
           b == h \o s
           n == Len(Frame(ms[1]))
<1>1. h \in Bytes /\ Len(h) = HdrLen /\ HdrLen = 4
  BY BigEndianBytes DEF HdrLen
<1> HIDE DEF h
<1>2. /\ s \in Bytes /\ Len(s) = Len(r) + Len(w)
      /\ \A i \in 1..(Len(r) + Len(w)) : s[i] = IF i <= Len(r) THEN r[i] ELSE w[i - Len(r)]
  BY ConcatProperties DEF Bytes
<1> HIDE DEF s
<1>3. /\ b \in Bytes /\ Len(b) = Len(h) + Len(s)
      /\ \A i \in 1..(Len(h) + Len(s)) : b[i] = IF i <= Len(h) THEN h[i] ELSE s[i - Len(h)]
  <2>1. h \in Seq(Byte) /\ s \in Seq(Byte)
    BY <1>1, <1>2 DEF Bytes
  <2> QED BY <2>1, ConcatProperties, Zenon DEF Bytes
<1>4. Len(r) \in Nat /\ Len(w) \in Nat /\ Len(s) \in Nat /\ Len(b) \in Nat
  BY <1>2, <1>3 DEF Bytes
<1>5. IsStream(b, ms)
  BY DEF b, s, h
<1> HIDE DEF b
<1>6. b # <<>>
  <2>1. Len(b) # 0
    BY <1>1, <1>3, <1>4
  <2> QED BY <2>1
<1>7. /\ ms # <<>> /\ n <= Len(b) /\ \A j \in 1..n : b[j] = Frame(ms[1])[j]
      /\ IsStream(SubSeq(b, n + 1, Len(b)), Tail(ms))
  BY <1>3, <1>5, <1>6, StreamShrinks
<1>8. ms[1] \in Messages
  BY <1>7
<1> DEFINE m == ms[1]
<1> HIDE DEF m
<1>9. /\ m \in Bytes /\ Len(m) \in Nat \ {0} /\ Len(m) <= MaxInt
      /\ n = HdrLen + Len(m)
      /\ \A j \in 1..HdrLen : Frame(m)[j] = BigEndian(Len(m))[j]
      /\ \A j \in 1..Len(m) : Frame(m)[HdrLen + j] = m[j]
  BY <1>8, MessageFacts DEF m
<1> HIDE DEF n
<1>10. Len(m) = need
  <2>1. ASSUME NEW j \in 1..HdrLen
        PROVE  BigEndian(need)[j] = BigEndian(Len(m))[j]
    <3>1. j \in 1..n /\ j \in 1..(Len(h) + Len(s)) /\ j <= Len(h)
      BY <1>1, <1>4, <1>9
    <3>2. b[j] = h[j] /\ b[j] = Frame(m)[j]
      BY <1>3, <1>7, <3>1 DEF m
    <3> QED BY <1>9, <3>2 DEF h
  <2>2. FromBigEndian(BigEndian(need)) = Len(m)
    BY <1>9, <2>1, LengthOfHeader
  <2> QED BY <2>2, BigEndianBytes
<1>11. ASSUME Len(r) >= need
       PROVE  /\ SubSeq(r, 1, need) = m
              /\ SubSeq(r, need + 1, Len(r)) \in Bytes
              /\ SubSeq(b, n + 1, Len(b)) = SubSeq(r, need + 1, Len(r)) \o w
  <2> DEFINE u == SubSeq(r, 1, need)
             v == SubSeq(r, need + 1, Len(r))
             x == SubSeq(b, n + 1, Len(b))
  <2>1. /\ u \in Bytes /\ Len(u) = need /\ \A i \in 1..need : u[i] = r[i]
        /\ v \in Bytes /\ Len(v) = Len(r) - need
        /\ \A i \in 1..(Len(r) - need) : v[i] = r[need + i]
    BY <1>4, <1>11 DEF Bytes
  <2>2. /\ x \in Bytes /\ Len(x) = Len(b) - n
        /\ \A i \in 1..(Len(b) - n) : x[i] = b[n + i]
    <3>1. n \in Nat /\ n <= Len(b)
      BY <1>1, <1>7, <1>9
    <3> QED BY <1>3, <3>1, Drop
  <2>3. /\ v \o w \in Bytes /\ Len(v \o w) = Len(v) + Len(w)
        /\ \A i \in 1..(Len(v) + Len(w)) :
              (v \o w)[i] = IF i <= Len(v) THEN v[i] ELSE w[i - Len(v)]
    BY <2>1, ConcatProperties DEF Bytes
  <2> HIDE DEF u, v, x
  <2>4. u = m
    <3>1. ASSUME NEW i \in 1..need
          PROVE  u[i] = m[i]
      <4>1. /\ HdrLen + i \in 1..n /\ HdrLen + i \in 1..(Len(h) + Len(s))
            /\ ~(HdrLen + i <= Len(h)) /\ (HdrLen + i) - Len(h) = i
            /\ i \in 1..(Len(r) + Len(w)) /\ i <= Len(r)
        BY <1>1, <1>2, <1>4, <1>9, <1>10, <1>11
      <4>2. b[HdrLen + i] = s[i] /\ s[i] = r[i]
        BY <1>2, <1>3, <4>1
      <4>3. b[HdrLen + i] = Frame(m)[HdrLen + i]
        BY <1>7, <4>1 DEF m
      <4>4. Frame(m)[HdrLen + i] = m[i]
        BY <1>9, <1>10
      <4> QED BY <2>1, <4>2, <4>3, <4>4
    <3> QED BY <1>9, <1>10, <2>1, <3>1, SeqEqual DEF Bytes
  <2>5. x = v \o w
    <3>1. Len(x) = Len(v \o w)
      BY <1>1, <1>2, <1>3, <1>4, <1>9, <1>10, <2>1, <2>2, <2>3
    <3>2. ASSUME NEW i \in 1..Len(x)
          PROVE  x[i] = (v \o w)[i]
      <4>1. /\ i \in 1..(Len(b) - n) /\ i \in 1..(Len(v) + Len(w))
            /\ n + i \in 1..(Len(h) + Len(s)) /\ ~(n + i <= Len(h))
            /\ (n + i) - Len(h) = need + i /\ need + i \in 1..(Len(r) + Len(w))
        BY <1>1, <1>2, <1>3, <1>4, <1>9, <1>10, <2>1, <2>2, <2>3, <3>1
      <4>2. x[i] = s[need + i]
        BY <1>3, <2>2, <4>1
      <4>3. CASE i <= Len(v)
        <5>1. need + i <= Len(r) /\ i \in 1..(Len(r) - need)
          BY <1>4, <1>11, <2>1, <4>1, <4>3
        <5> QED BY <1>2, <2>1, <2>3, <4>1, <4>2, <4>3, <5>1
      <4>4. CASE ~(i <= Len(v))
        <5>1. ~(need + i <= Len(r)) /\ (need + i) - Len(r) = i - Len(v)
          BY <1>4, <1>11, <2>1, <4>1, <4>4
        <5> QED BY <1>2, <2>3, <4>1, <4>2, <4>4, <5>1
      <4> QED BY <4>3, <4>4
    <3> QED BY <2>2, <2>3, <3>1, <3>2, SeqEqual DEF Bytes
  <2> QED BY <2>1, <2>4, <2>5 DEF u, v, x
<1> QED BY <1>7, <1>8, <1>10, <1>11 DEF m

(* One run of a readyRead slot on the bytes b of a stream, w being still     *)
(* under way: it either leaves everything to be read and has too few bytes   *)
(* to act on, or takes exactly the first message.                            *)
LEMMA ReadFrameReads ==
  ASSUME NEW b \in Bytes, NEW w \in Bytes, NEW h \in Nat, h <= MaxInt,
         NEW ms \in Seq(Messages), IsStream(Header(h) \o (b \o w), ms)
  PROVE  LET f == ReadFrame(b, h) IN
         /\ f.buf \in Bytes /\ f.bs \in Nat /\ f.bs <= MaxInt
         /\ \/ /\ f.msgs = <<>>
               /\ IsStream(Header(f.bs) \o (f.buf \o w), ms)
               /\ Len(f.buf) < IF f.bs = 0 THEN HdrLen ELSE f.bs
            \/ /\ ms # <<>> /\ ms[1] \in Messages /\ f.msgs = <<ms[1]>> /\ f.bs = 0
               /\ IsStream(Header(0) \o (f.buf \o w), Tail(ms))
<1> DEFINE f == ReadFrame(b, h)
<1>0. HdrLen = 4 /\ Len(b) \in Nat
  BY DEF HdrLen, Bytes
<1>1. CASE h = 0 /\ Len(b) < HdrLen
  <2>1. f = [buf |-> b, bs |-> 0, msgs |-> <<>>]
    BY <1>0, <1>1 DEF ReadFrame, Unread
  <2> QED BY <1>1, <2>1 DEF MaxInt
(* What is left to do once the length of the message is known. *)
<1>2. ASSUME NEW rest \in Bytes, NEW need \in Nat, need <= MaxInt,
             IsStream(BigEndian(need) \o (rest \o w), ms),
             f = [buf |-> IF Len(rest) >= need THEN SubSeq(rest, need + 1, Len(rest))
                                               ELSE rest,
                  bs |-> IF Len(rest) >= need THEN AfterMessage(need) ELSE Unread(need),
                  msgs |-> IF Len(rest) >= need THEN <<SubSeq(rest, 1, need)>> ELSE <<>>]
      PROVE  /\ f.buf \in Bytes /\ f.bs \in Nat /\ f.bs <= MaxInt
             /\ \/ /\ f.msgs = <<>>
                   /\ IsStream(Header(f.bs) \o (f.buf \o w), ms)
                   /\ Len(f.buf) < IF f.bs = 0 THEN HdrLen ELSE f.bs
                \/ /\ ms # <<>> /\ ms[1] \in Messages /\ f.msgs = <<ms[1]>> /\ f.bs = 0
                   /\ IsStream(Header(0) \o (f.buf \o w), Tail(ms))
  <2>1. /\ ms # <<>> /\ ms[1] \in Messages /\ Len(ms[1]) = need
        /\ Len(rest) >= need =>
              /\ SubSeq(rest, 1, need) = ms[1]
              /\ SubSeq(rest, need + 1, Len(rest)) \in Bytes
              /\ IsStream(SubSeq(rest, need + 1, Len(rest)) \o w, Tail(ms))
    BY <1>2, FirstMessage
  <2>2. need # 0 /\ Len(rest) \in Nat
    BY <2>1, MessageFacts DEF Bytes
  <2>3. CASE Len(rest) >= need
    <3> DEFINE rem == SubSeq(rest, need + 1, Len(rest))
    <3>1. f.buf = rem /\ f.bs = 0 /\ f.msgs = <<ms[1]>>
      BY <1>2, <2>1, <2>3 DEF AfterMessage
    <3>2. rem \in Bytes /\ IsStream(rem \o w, Tail(ms))
      BY <2>1, <2>3
    <3> HIDE DEF rem, f
    <3>3. Header(0) \o (rem \o w) = rem \o w
      <4>1. rem \o w \in Bytes
        BY <3>2, ConcatProperties DEF Bytes
      <4> QED BY <4>1, ConcatEmptySeq DEF Header, Bytes
    <3>4. 0 <= MaxInt
      BY SMT DEF MaxInt
    <3>5. IsStream(Header(0) \o (f.buf \o w), Tail(ms))
      BY <3>1, <3>2, <3>3
    <3> QED BY <2>1, <3>1, <3>2, <3>4, <3>5
  <2>4. CASE ~(Len(rest) >= need)
    <3>1. f.buf = rest /\ f.bs = need /\ f.msgs = <<>>
      BY <1>2, <2>4 DEF Unread
    <3> HIDE DEF f
    <3>2. Header(need) = BigEndian(need)
      BY <2>2 DEF Header
    <3> QED BY <1>2, <2>2, <2>4, <3>1, <3>2
  <2> QED BY <2>3, <2>4
<1>3. CASE h # 0
  <2>1. Header(h) = BigEndian(h)
    BY <1>3 DEF Header
  <2>2. f = [buf |-> IF Len(b) >= h THEN SubSeq(b, h + 1, Len(b)) ELSE b,
             bs |-> IF Len(b) >= h THEN AfterMessage(h) ELSE Unread(h),
             msgs |-> IF Len(b) >= h THEN <<SubSeq(b, 1, h)>> ELSE <<>>]
    BY <1>3 DEF ReadFrame
  <2> HIDE DEF f
  <2> QED BY <1>2, <2>1, <2>2 DEF f
<1>4. CASE h = 0 /\ Len(b) >= HdrLen
  <2> DEFINE s == b \o w
             rest == SubSeq(b, HdrLen + 1, Len(b))
             need == Len(ms[1])
  <2>1. /\ s \in Bytes /\ Len(s) = Len(b) + Len(w) /\ Len(w) \in Nat
        /\ \A i \in 1..(Len(b) + Len(w)) : s[i] = IF i <= Len(b) THEN b[i] ELSE w[i - Len(b)]
    BY ConcatProperties DEF Bytes
  <2>2. IsStream(s, ms)
    <3>1. Header(h) \o s = s
      BY <1>4, <2>1, ConcatEmptySeq DEF Header, Bytes
    <3> QED BY <3>1
  <2> HIDE DEF s
  <2>3. s # <<>>
    <3>1. Len(s) # 0
      BY <1>0, <1>4, <2>1
    <3> QED BY <3>1
  <2>4. /\ ms # <<>> /\ \A j \in 1..Len(Frame(ms[1])) : s[j] = Frame(ms[1])[j]
    BY <2>1, <2>2, <2>3, StreamShrinks
  <2>5. /\ ms[1] \in Messages /\ need \in Nat /\ need <= MaxInt
        /\ Len(Frame(ms[1])) = HdrLen + need
        /\ \A j \in 1..HdrLen : Frame(ms[1])[j] = BigEndian(need)[j]
    BY <2>4, MessageFacts
  <2> HIDE DEF need
  <2>6. ASSUME NEW j \in 1..HdrLen
        PROVE  b[j] = BigEndian(need)[j]
    <3>1. j \in 1..(HdrLen + need) /\ j \in 1..(Len(b) + Len(w)) /\ j <= Len(b)
      BY <1>0, <1>4, <2>1, <2>5
    <3>2. s[j] = b[j] /\ s[j] = Frame(ms[1])[j]
      BY <2>1, <2>4, <2>5, <3>1
    <3> QED BY <2>5, <3>2
  <2>7. FromBigEndian(b) = need
    BY <2>5, <2>6, LengthOfHeader
  <2>8. BigEndian(need) \in Bytes /\ Len(BigEndian(need)) = HdrLen
    BY <2>5, BigEndianBytes
  <2>9. /\ rest \in Bytes /\ Len(rest) = Len(b) - HdrLen
        /\ \A i \in 1..(Len(b) - HdrLen) : rest[i] = b[HdrLen + i]
    <3>1. HdrLen \in Nat /\ HdrLen <= Len(b)
      BY <1>0, <1>4
    <3> QED BY <3>1, Drop
  <2>10. f = [buf |-> IF Len(rest) >= need THEN SubSeq(rest, need + 1, Len(rest)) ELSE rest,
              bs |-> IF Len(rest) >= need THEN AfterMessage(need) ELSE Unread(need),
              msgs |-> IF Len(rest) >= need THEN <<SubSeq(rest, 1, need)>> ELSE <<>>]
    BY <1>4, <2>7 DEF ReadFrame
  <2> DEFINE g == BigEndian(need)
  <2> HIDE DEF f, rest, g
  <2>11. b = g \o rest
    <3>1. /\ g \o rest \in Bytes /\ Len(g \o rest) = Len(g) + Len(rest)
          /\ \A i \in 1..(Len(g) + Len(rest)) :
                (g \o rest)[i] = IF i <= Len(g) THEN g[i] ELSE rest[i - Len(g)]
      BY <2>8, <2>9, ConcatProperties DEF Bytes, g
    <3>2. Len(b) = Len(g \o rest) /\ Len(g) = HdrLen
      BY <1>0, <2>8, <2>9, <3>1 DEF g
    <3>3. ASSUME NEW i \in 1..Len(b)
          PROVE  b[i] = (g \o rest)[i]
      <4>1. CASE i <= HdrLen
        <5>1. i \in 1..HdrLen /\ i \in 1..(Len(g) + Len(rest))
          BY <1>0, <3>1, <3>2, <4>1
        <5> QED BY <2>6, <3>1, <3>2, <4>1, <5>1 DEF g
      <4>2. CASE ~(i <= HdrLen)
        <5>1. /\ i - HdrLen \in 1..(Len(b) - HdrLen) /\ HdrLen + (i - HdrLen) = i
              /\ i \in 1..(Len(g) + Len(rest))
          BY <1>0, <2>9, <3>1, <3>2, <4>2
        <5> QED BY <2>9, <3>1, <3>2, <4>2, <5>1
      <4> QED BY <4>1, <4>2
    <3> QED BY <3>1, <3>2, <3>3, SeqEqual DEF Bytes
  <2>12. s = g \o (rest \o w)
    BY <2>8, <2>9, <2>11, ConcatAssociative DEF Bytes, s, g
  <2>13. IsStream(BigEndian(need) \o (rest \o w), ms)
    BY <2>2, <2>12 DEF g
  <2> QED BY <1>2, <2>5, <2>9, <2>10, <2>13 DEF f
<1>5. (h = 0 /\ Len(b) < HdrLen) \/ h # 0 \/ (h = 0 /\ Len(b) >= HdrLen)
  BY <1>0
<1> QED BY <1>1, <1>3, <1>4, <1>5
-----------------------------------------------------------------------------
(* What one direction of the connection carries *)

(* The bytes b are what is left to read of the messages wrote, of which got  *)
(* have been read; some of the last ones are missing unless whole.           *)
Carries(b, got, wrote, whole) ==
    \E ms, gone \in Seq(Messages) :
        /\ IsStream(b, ms)
        /\ wrote = got \o (ms \o gone)
        /\ whole => gone = <<>>

LEMMA MessagesAssociate ==
  \A a, b, c \in Seq(Messages) : (a \o b) \o c = a \o (b \o c)
  BY ConcatAssociative

LEMMA CarriesNothing == \A whole : Carries(<<>>, <<>>, <<>>, whole)
<1>1. <<>> \in Seq(Messages) /\ IsStream(<<>>, <<>>) /\ <<>> = <<>> \o (<<>> \o <<>>)
  BY EmptyStream
<1> QED BY <1>1 DEF Carries

LEMMA CarriesLess ==
  ASSUME NEW b, NEW got, NEW wrote, NEW whole, Carries(b, got, wrote, whole)
  PROVE  Carries(b, got, wrote, FALSE)
  BY DEF Carries

LEMMA CarriesMore ==
  ASSUME NEW b \in Bytes, NEW got \in Seq(Messages), NEW wrote, NEW m \in Messages,
         NEW whole \in BOOLEAN, Carries(b, got, wrote, whole)
  PROVE  Carries(IF whole THEN b \o Frame(m) ELSE b, got, Append(wrote, m), whole)
<1>1. PICK ms \in Seq(Messages), gone \in Seq(Messages) :
         /\ IsStream(b, ms) /\ wrote = got \o (ms \o gone)
         /\ whole => gone = <<>>
  BY DEF Carries
<1>2. PICK one : one = <<m>>
  OBVIOUS
<1>3. /\ one \in Seq(Messages)
      /\ \A q \in Seq(Messages) : Append(q, m) = q \o one
  BY <1>2
<1>4. \A p, q \in Seq(Messages) : p \o q \in Seq(Messages)
  BY ConcatProperties
<1>5. \A p, q, r \in Seq(Messages) : (p \o q) \o r = p \o (q \o r)
  BY ConcatAssociative
<1>6. <<>> \in Seq(Messages) /\ \A q \in Seq(Messages) : q \o <<>> = q
  BY ConcatEmptySeq
<1>7. CASE whole
  <2>1. wrote = got \o ms /\ wrote \in Seq(Messages)
    BY <1>1, <1>4, <1>6, <1>7
  <2>2. Append(wrote, m) = got \o ((ms \o one) \o <<>>)
    <3>1. Append(wrote, m) = (got \o ms) \o one
      BY <1>3, <2>1, Zenon
    <3>2. (got \o ms) \o one = got \o (ms \o one)
      BY <1>3, <1>5, Zenon
    <3>3. (ms \o one) \o <<>> = ms \o one
      BY <1>3, <1>4, <1>6, Zenon
    <3> QED BY <3>1, <3>2, <3>3
  <2>3. IsStream(b \o Frame(m), ms \o one)
    BY <1>1, <1>3, StreamGrows
  <2>4. ms \o one \in Seq(Messages)
    BY <1>3, <1>4
  <2> QED BY <1>6, <1>7, <2>2, <2>3, <2>4 DEF Carries
<1>8. CASE ~whole
  <2>1. Append(wrote, m) = got \o (ms \o (gone \o one))
    <3>1. Append(wrote, m) = (got \o (ms \o gone)) \o one
      BY <1>1, <1>3, <1>4, Zenon
    <3>2. (got \o (ms \o gone)) \o one = got \o ((ms \o gone) \o one)
      <4>1. ms \o gone \in Seq(Messages)
        BY <1>4, Zenon
      <4> QED BY <1>3, <1>5, <4>1, Zenon
    <3>3. (ms \o gone) \o one = ms \o (gone \o one)
      BY <1>3, <1>5, Zenon
    <3> QED BY <3>1, <3>2, <3>3
  <2>2. gone \o one \in Seq(Messages)
    BY <1>3, <1>4
  <2> QED BY <1>1, <1>8, <2>1, <2>2 DEF Carries
<1> QED BY <1>7, <1>8

LEMMA CarriesNoMore ==
  ASSUME NEW b \in Bytes, NEW got \in Seq(Messages), NEW whole,
         Carries(b, got, got, whole)
  PROVE  b = <<>>
<1>1. PICK ms \in Seq(Messages), gone \in Seq(Messages) :
         IsStream(b, ms) /\ got = got \o (ms \o gone)
  BY DEF Carries
<1>2. ms = <<>>
  <2>1. /\ Len(ms \o gone) = Len(ms) + Len(gone) /\ Len(gone) \in Nat /\ Len(ms) \in Nat
        /\ ms \o gone \in Seq(Messages)
    OBVIOUS
  <2>2. Len(got) = Len(got) + Len(ms \o gone) /\ Len(got) \in Nat
    BY <1>1, <2>1
  <2> QED BY <2>1, <2>2
<1> QED BY <1>1, <1>2, EmptyStream

(* A run of a readyRead slot takes nothing, or the next message written. *)
LEMMA CarriesRead ==
  ASSUME NEW b \in Bytes, NEW w \in Bytes, NEW h \in Nat, h <= MaxInt,
         NEW got \in Seq(Messages), NEW wrote, NEW whole,
         Carries(Header(h) \o (b \o w), got, wrote, whole)
  PROVE  LET f == ReadFrame(b, h)
             m == wrote[Len(got) + 1]
         IN
         /\ f.buf \in Bytes /\ f.bs \in Nat /\ f.bs <= MaxInt
         /\ \/ /\ f.msgs = <<>>
               /\ Carries(Header(f.bs) \o (f.buf \o w), got, wrote, whole)
               /\ Len(f.buf) < IF f.bs = 0 THEN HdrLen ELSE f.bs
            \/ /\ Len(got) < Len(wrote) /\ f.msgs = <<m>> /\ f.bs = 0
               /\ m \in Messages
               /\ Carries(Header(f.bs) \o (f.buf \o w), Append(got, m), wrote, whole)
<1> DEFINE f == ReadFrame(b, h)
           m == wrote[Len(got) + 1]
<1>1. PICK ms \in Seq(Messages), gone \in Seq(Messages) :
         /\ IsStream(Header(h) \o (b \o w), ms)
         /\ wrote = got \o (ms \o gone) /\ (whole => gone = <<>>)
  BY DEF Carries
<1>2. /\ f.buf \in Bytes /\ f.bs \in Nat /\ f.bs <= MaxInt
      /\ \/ /\ f.msgs = <<>>
            /\ IsStream(Header(f.bs) \o (f.buf \o w), ms)
            /\ Len(f.buf) < IF f.bs = 0 THEN HdrLen ELSE f.bs
         \/ /\ ms # <<>> /\ ms[1] \in Messages /\ f.msgs = <<ms[1]>> /\ f.bs = 0
            /\ IsStream(Header(0) \o (f.buf \o w), Tail(ms))
  BY <1>1, ReadFrameReads
<1> HIDE DEF f
<1>3. CASE /\ f.msgs = <<>>
           /\ IsStream(Header(f.bs) \o (f.buf \o w), ms)
           /\ Len(f.buf) < IF f.bs = 0 THEN HdrLen ELSE f.bs
  <2>1. Carries(Header(f.bs) \o (f.buf \o w), got, wrote, whole)
    BY <1>1, <1>3 DEF Carries
  <2> QED BY <1>2, <1>3, <2>1 DEF f
<1>4. CASE /\ ms # <<>> /\ ms[1] \in Messages /\ f.msgs = <<ms[1]>> /\ f.bs = 0
           /\ IsStream(Header(0) \o (f.buf \o w), Tail(ms))
  <2>1. /\ Tail(ms) \in Seq(Messages) /\ ms = <<ms[1]>> \o Tail(ms)
        /\ <<ms[1]>> \in Seq(Messages) /\ Append(got, ms[1]) = got \o <<ms[1]>>
        /\ got \o <<ms[1]>> \in Seq(Messages)
    BY <1>4
  <2>2. wrote = Append(got, ms[1]) \o (Tail(ms) \o gone)
    <3>1. ms \o gone = <<ms[1]>> \o (Tail(ms) \o gone)
      BY <2>1, ConcatAssociative
    <3>2. Tail(ms) \o gone \in Seq(Messages)
      BY <2>1, ConcatProperties
    <3> DEFINE u == <<ms[1]>>
               v == Tail(ms) \o gone
    <3>4. u \in Seq(Messages) /\ v \in Seq(Messages)
      BY <2>1, <3>2
    <3> HIDE DEF u, v
    <3>3. got \o (u \o v) = (got \o u) \o v
      BY <1>1, <3>4, MessagesAssociate, Zenon
    <3> QED BY <1>1, <2>1, <3>1, <3>3 DEF u, v
  <2>3. Len(got) < Len(wrote) /\ m = ms[1]
    <3>1. /\ Append(got, ms[1]) \in Seq(Messages)
          /\ Len(Append(got, ms[1])) = Len(got) + 1
          /\ Append(got, ms[1])[Len(got) + 1] = ms[1]
      BY <1>4
    <3>2. Tail(ms) \o gone \in Seq(Messages)
      BY <2>1, ConcatProperties
    <3> DEFINE u == Append(got, ms[1])
               v == Tail(ms) \o gone
    <3> HIDE DEF u, v
    <3>3. /\ Len(u \o v) = Len(u) + Len(v) /\ Len(v) \in Nat /\ Len(got) \in Nat
          /\ \A i \in 1..Len(u) : (u \o v)[i] = u[i]
      BY <3>1, <3>2 DEF u, v
    <3>4. wrote = u \o v /\ Len(u) = Len(got) + 1 /\ u[Len(got) + 1] = ms[1]
      BY <2>2, <3>1 DEF u, v
    <3>5. Len(got) + 1 \in 1..Len(u)
      BY <3>3, <3>4
    <3>6. wrote[Len(got) + 1] = ms[1]
      BY <3>3, <3>4, <3>5
    <3> QED BY <3>3, <3>4, <3>6
  <2> HIDE DEF m
  <2>4. Carries(Header(f.bs) \o (f.buf \o w), Append(got, m), wrote, whole)
    BY <1>1, <1>4, <2>1, <2>2, <2>3 DEF Carries
  <2> QED BY <1>2, <1>4, <2>3, <2>4 DEF f, m
<1> QED BY <1>2, <1>3, <1>4
-----------------------------------------------------------------------------
(* The inductive invariant *)

TypeOK ==
    /\ wire \in [Ends -> Bytes] /\ rbuf \in [Ends -> Bytes]
    /\ bs \in [Ends -> Nat] /\ \A e \in Ends : bs[e] <= MaxInt
    /\ timers \in [Ends -> Nat]
    /\ owner \in [Ends -> Owners]
    /\ ready \in [Ends -> BOOLEAN]
    /\ sent \in [Ends -> Seq(Payloads)] /\ handled \in [Ends -> Seq(Payloads)]
    /\ linkUp \in BOOLEAN

HandedOver == owner["in"] \notin {"none", "servent"}

(* The dialling end is ready only after the accepted socket was handed to a  *)
(* Connection, and the accepting end only after the dialling one.            *)
Phases ==
    /\ \A e \in Ends : owner[e] = "none" => rbuf[e] = <<>> /\ bs[e] = 0 /\ timers[e] = 0
    /\ \A e \in Ends : ~ready[e] => sent[e] = <<>> /\ handled[e] = <<>>
    /\ owner["out"] # "servent" /\ (owner["out"] = "none" => ~ready["out"])
    /\ ~HandedOver => timers["in"] = 0 /\ ~ready["in"] /\ ~ready["out"]
    /\ ready["in"] => ready["out"]

(* All the messages written to end e, and those its reader has taken. *)
Wrote(e) ==
    IF e = "in"
    THEN IF owner["out"] = "none" THEN <<>>
         ELSE IF ready["out"] THEN <<First, Ready2>> \o sent["out"] ELSE <<First>>
    ELSE IF HandedOver THEN <<Ready>> \o sent["in"] ELSE <<>>

Got(e) ==
    IF e = "in"
    THEN IF ~HandedOver THEN <<>>
         ELSE IF ready["in"] THEN <<First, Ready2>> \o handled["in"] ELSE <<First>>
    ELSE IF ready["out"] THEN <<Ready>> \o handled["out"] ELSE <<>>

(* What end e has still to read, with the header it has read already. *)
Pending(e) == Header(bs[e]) \o (rbuf[e] \o wire[e])

Flow(e) == owner[e] # "deleted" => Carries(Pending(e), Got(e), Wrote(e), linkUp)

Flows == \A e \in Ends : Flow(e)

CInv == TypeOK /\ Phases /\ Flows /\ PayloadsInOrder /\ NothingStranded

-----------------------------------------------------------------------------
(* Lemmas *)

LEMMA HandshakeMessages ==
  /\ First \in Messages /\ Ready \in Messages /\ Ready2 \in Messages
  /\ Payloads \subseteq Messages
  /\ Ready # Ready2 /\ Ready \notin Payloads /\ Ready2 \notin Payloads
<1>1. \A m : IsMessage(m) => m \in Messages
  BY DEF Messages, IsMessage
<1> QED BY <1>1, HandshakeAssumption, Zenon

LEMMA PayloadSeqs == Seq(Payloads) \subseteq Seq(Messages)
  BY HandshakeMessages, SeqMonotonic

(* What writing m behind p \o q, with p the handshake, comes to. *)
LEMMA Behind ==
  ASSUME NEW p \in Seq(Messages), NEW q \in Seq(Messages), NEW m \in Messages
  PROVE  /\ p \o q \in Seq(Messages) /\ Len(p \o q) = Len(p) + Len(q)
         /\ \A i \in 1..Len(q) : (p \o q)[Len(p) + i] = q[i]
         /\ Append(p \o q, m) = p \o Append(q, m)
<1>1. p \o q \in Seq(Messages) /\ Len(p \o q) = Len(p) + Len(q)
  BY ConcatProperties
<1>2. \A i \in 1..Len(q) : (p \o q)[Len(p) + i] = q[i]
  OBVIOUS
<1>3. PICK one : one = <<m>>
  OBVIOUS
<1>4. one \in Seq(Messages) /\ \A r \in Seq(Messages) : Append(r, m) = r \o one
  BY <1>3
<1>5. \A r, s, t \in Seq(Messages) : (r \o s) \o t = r \o (s \o t)
  BY ConcatAssociative
<1>6. Append(p \o q, m) = (p \o q) \o one
  BY <1>1, <1>4, Zenon
<1>7. (p \o q) \o one = p \o (q \o one)
  BY <1>4, <1>5, Zenon
<1>8. q \o one = Append(q, m)
  BY <1>4, Zenon
<1>9. Append(p \o q, m) = p \o Append(q, m)
  BY <1>6, <1>7, <1>8, Zenon
<1> QED BY <1>1, <1>2, <1>9

LEMMA HeaderType == \A h \in Nat : h <= MaxInt => Header(h) \in Bytes
<1>1. <<>> \in Bytes
  BY DEF Bytes
<1> QED BY <1>1, BigEndianBytes DEF Header

(* The types of what is written and read. *)
LEMMA FlowTypes ==
  ASSUME TypeOK, NEW e \in Ends
  PROVE  /\ Wrote(e) \in Seq(Messages) /\ Got(e) \in Seq(Messages)
         /\ Pending(e) \in Bytes
<1>1. /\ sent["in"] \in Seq(Messages) /\ sent["out"] \in Seq(Messages)
      /\ handled["in"] \in Seq(Messages) /\ handled["out"] \in Seq(Messages)
  BY PayloadSeqs DEF TypeOK, Ends
<1>2. /\ <<First, Ready2>> \in Seq(Messages) /\ <<First>> \in Seq(Messages)
      /\ <<Ready>> \in Seq(Messages) /\ <<>> \in Seq(Messages)
  BY HandshakeMessages
<1>3. \A p, q \in Seq(Messages) : p \o q \in Seq(Messages)
  BY ConcatProperties
<1>4. Pending(e) \in Bytes
  <2>1. Header(bs[e]) \in Bytes /\ rbuf[e] \in Bytes /\ wire[e] \in Bytes
    BY HeaderType DEF TypeOK
  <2>2. \A p, q \in Bytes : p \o q \in Bytes
    BY ConcatProperties DEF Bytes
  <2> QED BY <2>1, <2>2 DEF Pending
<1> QED BY <1>1, <1>2, <1>3, <1>4 DEF Wrote, Got

(* sendMsg writes one more message. *)
LEMMA WritesMore ==
  ASSUME TypeOK, NEW e \in Ends, NEW m \in Messages, NEW got \in Seq(Messages),
         NEW wrote, Carries(Pending(e), got, wrote, linkUp)
  PROVE  Carries(Header(bs[e]) \o (rbuf[e] \o Written(wire[e], m)),
                 got, Append(wrote, m), linkUp)
<1>1. Header(bs[e]) \in Bytes /\ rbuf[e] \in Bytes /\ wire[e] \in Bytes
  BY HeaderType DEF TypeOK
<1>2. Frame(m) \in Bytes
  BY MessageFacts
<1> DEFINE h == Header(bs[e])
           r == rbuf[e]
           x == wire[e]
           y == Frame(m)
<1> HIDE DEF h, r, x, y
<1>3. /\ \A p, q \in Bytes : p \o q \in Bytes
      /\ \A p, q, s \in Bytes : (p \o q) \o s = p \o (q \o s)
  BY ConcatProperties, ConcatAssociative DEF Bytes
<1>4. (h \o (r \o x)) \o y = h \o (r \o (x \o y))
  <2>1. h \in Bytes /\ r \in Bytes /\ x \in Bytes /\ y \in Bytes
    BY <1>1, <1>2 DEF h, r, x, y
  <2>2. r \o x \in Bytes
    BY <1>3, <2>1, Zenon
  <2>3. (h \o (r \o x)) \o y = h \o ((r \o x) \o y)
    <3> DEFINE z == r \o x
    <3> HIDE DEF z
    <3>1. z \in Bytes
      BY <2>2 DEF z
    <3>2. \A p, q, t \in Bytes : (p \o q) \o t = p \o (q \o t)
      BY <1>3
    <3>3. (h \o z) \o y = h \o (z \o y)
      BY <2>1, <3>1, <3>2, Zenon
    <3> QED BY <3>3 DEF z
  <2>4. (r \o x) \o y = r \o (x \o y)
    BY <1>3, <2>1, Zenon
  <2> QED BY <2>3, <2>4
<1>5. Pending(e) = h \o (r \o x) /\ Pending(e) \in Bytes
  BY FlowTypes DEF Pending, h, r, x
<1>6. Carries(IF linkUp THEN Pending(e) \o y ELSE Pending(e), got, Append(wrote, m), linkUp)
  BY <1>5, CarriesMore DEF TypeOK, y
<1>7. linkUp \in BOOLEAN
  BY DEF TypeOK
<1>8. CASE linkUp
  BY <1>4, <1>5, <1>6, <1>8 DEF Written, h, r, x, y
<1>9. CASE ~linkUp
  BY <1>5, <1>6, <1>9 DEF Written, h, r, x
<1> QED BY <1>7, <1>8, <1>9

LEMMA WrittenType ==
  ASSUME TypeOK, NEW e \in Ends, NEW m \in Messages
  PROVE  Written(wire[e], m) \in Bytes
<1>1. wire[e] \in Bytes /\ Frame(m) \in Bytes
  BY MessageFacts DEF TypeOK
<1>2. wire[e] \o Frame(m) \in Bytes
  BY <1>1, ConcatProperties DEF Bytes
<1> QED BY <1>1, <1>2 DEF Written

(* A slot of end e runs on the bytes b, with w still on the wire. *)
Reading(e, w, b) ==
    /\ owner[e] \in {"servent", "conn", "finished"}
    /\ w \in Bytes /\ b \in Bytes /\ b \o w = rbuf[e] \o wire[e]

LEMMA ArriveReads ==
  ASSUME TypeOK, NEW e \in Ends, NEW n \in 1..Len(wire[e]),
         owner[e] \in {"servent", "conn"}
  PROVE  Reading(e, SubSeq(wire[e], n + 1, Len(wire[e])), rbuf[e] \o SubSeq(wire[e], 1, n))
<1> DEFINE x == wire[e]
           r == rbuf[e]
           u == SubSeq(x, 1, n)
           v == SubSeq(x, n + 1, Len(x))
<1>1. x \in Bytes /\ r \in Bytes /\ Len(x) \in Nat
  BY DEF TypeOK, Bytes
<1>2. u \in Bytes /\ v \in Bytes /\ u \o v = x
  <2>1. n \in Nat /\ n <= Len(x)
    BY <1>1
  <2> HIDE DEF x
  <2>2. v \in Bytes
    BY <1>1, <2>1, Drop
  <2>3. u \in Bytes
    BY <1>1, <2>1 DEF Bytes
  <2>4. /\ 1 \in 1..(Len(x) + 1) /\ n \in (1 - 1)..Len(x) /\ Len(x) \in n..Len(x)
    BY <1>1, <2>1
  <2>5. u \o v = SubSeq(x, 1, Len(x))
    BY <1>1, <2>4, ConcatAdjacentSubSeq DEF Bytes
  <2>6. SubSeq(x, 1, Len(x)) = x
    BY <1>1, SubSeqFull DEF Bytes
  <2> QED BY <2>2, <2>3, <2>5, <2>6
<1> HIDE DEF x, r, u, v
<1>3. (r \o u) \o v = r \o x /\ r \o u \in Bytes
  <2>1. r \in Seq(Byte) /\ u \in Seq(Byte) /\ v \in Seq(Byte) /\ u \o v = x
    BY <1>1, <1>2 DEF Bytes
  <2>2. (r \o u) \o v = r \o (u \o v)
    <3>1. \A p, q, t \in Seq(Byte) : (p \o q) \o t = p \o (q \o t)
      BY ConcatAssociative
    <3> QED BY <2>1, <3>1, Zenon
  <2>3. r \o u \in Seq(Byte)
    BY <2>1, ConcatProperties
  <2> QED BY <2>1, <2>2, <2>3 DEF Bytes
<1> QED BY <1>2, <1>3 DEF Reading, x, r, u, v

LEMMA SlotReads ==
  ASSUME CInv, NEW e \in Ends, NEW w, NEW b, Reading(e, w, b)
  PROVE  LET f == ReadFrame(b, bs[e])
             m == Wrote(e)[Len(Got(e)) + 1]
         IN
         /\ f.buf \in Bytes /\ f.bs \in Nat /\ f.bs <= MaxInt
         /\ \/ /\ f.msgs = <<>>
               /\ Carries(Header(f.bs) \o (f.buf \o w), Got(e), Wrote(e), linkUp)
               /\ Len(f.buf) < IF f.bs = 0 THEN HdrLen ELSE f.bs
            \/ /\ Len(Got(e)) < Len(Wrote(e)) /\ f.msgs = <<m>> /\ f.bs = 0
               /\ m \in Messages
               /\ Carries(Header(f.bs) \o (f.buf \o w), Append(Got(e), m), Wrote(e), linkUp)
<1>1. Carries(Pending(e), Got(e), Wrote(e), linkUp)
  BY DEF CInv, Flows, Flow, Reading
<1>2. Pending(e) = Header(bs[e]) \o (b \o w) /\ b \in Bytes /\ w \in Bytes
  BY DEF Pending, Reading
<1>3. bs[e] \in Nat /\ bs[e] <= MaxInt /\ Got(e) \in Seq(Messages)
  BY FlowTypes DEF CInv, TypeOK
<1> QED BY <1>1, <1>2, <1>3, CarriesRead

(* What Connection::readyRead makes of the message m it read at end e.       *)
Took(e, w, m) ==
    /\ HandedOver /\ owner["out"] # "none"
    /\ \/ /\ e = "in" /\ m = Ready2 /\ ~ready["in"] /\ ready["out"]
          /\ ready' = [ready EXCEPT !["in"] = TRUE]
          /\ wire' = [wire EXCEPT !["in"] = w]
          /\ handled' = handled
       \/ /\ e = "out" /\ m = Ready /\ ~ready["out"]
          /\ ready' = [ready EXCEPT !["out"] = TRUE]
          /\ wire' = [wire EXCEPT !["out"] = w, !["in"] = Written(@, Ready2)]
          /\ handled' = handled
       \/ /\ ready[e] /\ ready["out"]
          /\ m \in Payloads /\ Len(handled[e]) < Len(sent[Peer(e)])
          /\ m = sent[Peer(e)][Len(handled[e]) + 1]
          /\ handled' = [handled EXCEPT ![e] = Append(@, m)]
          /\ wire' = [wire EXCEPT ![e] = w]
          /\ ready' = ready

LEMMA NextPayload ==
  ASSUME TypeOK, NEW p \in Seq(Messages), NEW d \in Ends, NEW e \in Ends,
         Len(p \o handled[e]) < Len(p \o sent[d])
  PROVE  LET m == (p \o sent[d])[Len(p \o handled[e]) + 1] IN
         /\ m \in Payloads /\ Len(handled[e]) < Len(sent[d])
         /\ m = sent[d][Len(handled[e]) + 1]
<1> DEFINE q == sent[d]
           g == handled[e]
           k == Len(g) + 1
<1>1. q \in Seq(Payloads) /\ g \in Seq(Payloads)
  BY DEF TypeOK
<1>2. q \in Seq(Messages) /\ g \in Seq(Messages)
  BY <1>1, PayloadSeqs
<1> HIDE DEF q, g
<1>3. PICK m : m \in Messages
  BY HandshakeMessages
<1>4. /\ Len(p \o q) = Len(p) + Len(q) /\ Len(p \o g) = Len(p) + Len(g)
      /\ \A i \in 1..Len(q) : (p \o q)[Len(p) + i] = q[i]
  BY <1>2, <1>3, Behind
<1>5. Len(p) \in Nat /\ Len(q) \in Nat /\ Len(g) \in Nat
  BY <1>1
<1>6. Len(g) < Len(q) /\ k \in 1..Len(q) /\ Len(p \o g) + 1 = Len(p) + k
  <2>1. Len(p \o g) < Len(p \o q)
    BY DEF q, g
  <2> QED BY <1>4, <1>5, <2>1
<1> HIDE DEF k
<1>7. (p \o q)[Len(p \o g) + 1] = q[k]
  BY <1>4, <1>6
<1>8. q[k] \in Payloads
  BY <1>1, <1>6
<1> QED BY <1>6, <1>7, <1>8 DEF q, g, k

(* The next message to read, in each phase of the handshake. *)
LEMMA NextMessage ==
  ASSUME CInv, NEW e \in Ends, owner[e] \in {"conn", "finished"},
         Len(Got(e)) < Len(Wrote(e))
  PROVE  LET m == Wrote(e)[Len(Got(e)) + 1] IN
         /\ HandedOver /\ owner["out"] # "none"
         /\ ~ready[e] => IF e = "in" THEN m = Ready2 /\ ready["out"] ELSE m = Ready
         /\ ready[e] => /\ ready["out"] /\ m \in Payloads
                        /\ Len(handled[e]) < Len(sent[Peer(e)])
                        /\ m = sent[Peer(e)][Len(handled[e]) + 1]
<1>1. /\ sent \in [Ends -> Seq(Payloads)] /\ handled \in [Ends -> Seq(Payloads)]
      /\ Phases
  BY DEF CInv, TypeOK
<1>2. /\ <<First, Ready2>> \in Seq(Messages) /\ <<First>> \in Seq(Messages)
      /\ <<Ready>> \in Seq(Messages) /\ <<>> \in Seq(Messages)
      /\ Len(<<First, Ready2>>) = 2 /\ Len(<<First>>) = 1 /\ Len(<<Ready>>) = 1
      /\ Len(<<>>) = 0
  BY HandshakeMessages
<1>4. "in" \in Ends /\ "out" \in Ends
  BY DEF Ends
<1>5. CASE e = "in"
  <2>1. HandedOver /\ Peer(e) = "out"
    BY <1>5 DEF HandedOver, Peer
  <2>2. CASE ready["in"]
    <3>1. ready["out"] /\ owner["out"] # "none"
      BY <1>1, <2>2 DEF Phases
    <3>2. /\ Got(e) = <<First, Ready2>> \o handled["in"]
          /\ Wrote(e) = <<First, Ready2>> \o sent["out"]
      BY <1>5, <2>1, <2>2, <3>1 DEF Got, Wrote
    <3> DEFINE p == <<First, Ready2>>
    <3>3. p \in Seq(Messages)
      BY <1>2
    <3> HIDE DEF p
    <3>4. /\ Wrote(e)[Len(Got(e)) + 1] \in Payloads
          /\ Len(handled["in"]) < Len(sent["out"])
          /\ Wrote(e)[Len(Got(e)) + 1] = sent["out"][Len(handled["in"]) + 1]
      BY <1>1, <1>4, <3>2, <3>3, NextPayload DEF p, CInv
    <3> QED BY <1>5, <2>1, <2>2, <3>1, <3>4
  <2>3. CASE ~ready["in"]
    <3>1. Got(e) = <<First>>
      BY <1>5, <2>1, <2>3 DEF Got
    <3>2. owner["out"] # "none" /\ ready["out"]
      BY <1>2, <1>5, <3>1 DEF Wrote
    <3>3. Wrote(e) = <<First, Ready2>> \o sent["out"] /\ sent["out"] \in Seq(Messages)
      BY <1>1, <1>4, <1>5, <3>2, PayloadSeqs DEF Wrote
    <3>4. (<<First, Ready2>> \o sent["out"])[2] = Ready2
      BY <1>2, <3>3
    <3>5. Len(Got(e)) + 1 = 2
      BY <1>2, <3>1
    <3>6. Wrote(e)[Len(Got(e)) + 1] = Ready2
      BY <3>3, <3>4, <3>5, Zenon
    <3> QED BY <1>5, <2>1, <2>3, <3>2, <3>6
  <2> QED BY <2>2, <2>3
<1>6. CASE e = "out"
  <2>1. owner["out"] # "none" /\ Peer(e) = "in"
    BY <1>6 DEF Peer
  <2>2. CASE ready["out"]
    <3>1. HandedOver
      BY <1>1, <2>2 DEF Phases
    <3>2. /\ Got(e) = <<Ready>> \o handled["out"]
          /\ Wrote(e) = <<Ready>> \o sent["in"]
      BY <1>6, <2>1, <2>2, <3>1 DEF Got, Wrote
    <3> DEFINE p == <<Ready>>
    <3>3. p \in Seq(Messages)
      BY <1>2
    <3> HIDE DEF p
    <3>4. /\ Wrote(e)[Len(Got(e)) + 1] \in Payloads
          /\ Len(handled["out"]) < Len(sent["in"])
          /\ Wrote(e)[Len(Got(e)) + 1] = sent["in"][Len(handled["out"]) + 1]
      BY <1>1, <1>4, <3>2, <3>3, NextPayload DEF p, CInv
    <3> QED BY <1>6, <2>1, <2>2, <3>1, <3>4
  <2>3. CASE ~ready["out"]
    <3>1. Got(e) = <<>>
      BY <1>6, <2>3 DEF Got
    <3>2. HandedOver
      BY <1>2, <1>6, <3>1 DEF Wrote
    <3>3. Wrote(e) = <<Ready>> \o sent["in"] /\ sent["in"] \in Seq(Messages)
      BY <1>1, <1>4, <1>6, <3>2, PayloadSeqs DEF Wrote
    <3>4. (<<Ready>> \o sent["in"])[1] = Ready
      BY <1>2, <3>3
    <3> QED BY <1>2, <1>6, <2>1, <2>3, <3>1, <3>2, <3>3, <3>4
  <2> QED BY <2>2, <2>3
<1> QED BY <1>5, <1>6 DEF Ends

(* One run of Connection::readyRead. *)
LEMMA ConnReads ==
  ASSUME CInv, NEW e \in Ends, NEW w, NEW b, NEW t,
         Reading(e, w, b), owner[e] \in {"conn", "finished"}, ConnReadyRead(e, w, b, t)
  PROVE  LET f == ReadFrame(b, bs[e])
             m == Wrote(e)[Len(Got(e)) + 1]
         IN
         /\ f.buf \in Bytes /\ f.bs \in Nat /\ f.bs <= MaxInt
         /\ \/ /\ f.msgs = <<>>
               /\ Carries(Header(f.bs) \o (f.buf \o w), Got(e), Wrote(e), linkUp)
               /\ Len(f.buf) < IF f.bs = 0 THEN HdrLen ELSE f.bs
               /\ wire' = [wire EXCEPT ![e] = w]
               /\ UNCHANGED <<ready, handled>>
            \/ /\ f.msgs # <<>> /\ f.bs = 0 /\ m \in Messages
               /\ Carries(Header(f.bs) \o (f.buf \o w), Append(Got(e), m), Wrote(e), linkUp)
               /\ Took(e, w, m)
<1> DEFINE f == ReadFrame(b, bs[e])
           m == Wrote(e)[Len(Got(e)) + 1]
<1>1. /\ f.buf \in Bytes /\ f.bs \in Nat /\ f.bs <= MaxInt
      /\ \/ /\ f.msgs = <<>>
            /\ Carries(Header(f.bs) \o (f.buf \o w), Got(e), Wrote(e), linkUp)
            /\ Len(f.buf) < IF f.bs = 0 THEN HdrLen ELSE f.bs
         \/ /\ Len(Got(e)) < Len(Wrote(e)) /\ f.msgs = <<m>> /\ f.bs = 0
            /\ m \in Messages
            /\ Carries(Header(f.bs) \o (f.buf \o w), Append(Got(e), m), Wrote(e), linkUp)
  BY SlotReads
<1>2. \/ /\ f.msgs = <<>>
         /\ wire' = [wire EXCEPT ![e] = w]
         /\ UNCHANGED <<ready, handled>>
      \/ \E x \in Range(f.msgs) :
            \/ /\ IsReady2At(e, x)
               /\ ready' = [ready EXCEPT ![e] = TRUE]
               /\ wire' = [wire EXCEPT ![e] = w]
               /\ UNCHANGED handled
            \/ /\ IsReadyAt(e, x)
               /\ ready' = [ready EXCEPT ![e] = TRUE]
               /\ wire' = [wire EXCEPT ![e] = w, ![Peer(e)] = Written(@, Ready2)]
               /\ UNCHANGED handled
            \/ /\ ~IsReady2At(e, x) /\ ~IsReadyAt(e, x)
               /\ handled' = [handled EXCEPT ![e] = Append(@, x)]
               /\ wire' = [wire EXCEPT ![e] = w]
               /\ UNCHANGED ready
  BY DEF ConnReadyRead
<1> HIDE DEF f
<1>3. CASE f.msgs = <<>>
  <2>1. wire' = [wire EXCEPT ![e] = w] /\ UNCHANGED <<ready, handled>>
    BY <1>2, <1>3 DEF Range
  <2>2. <<>> # <<m>>
    OBVIOUS
  <2> QED BY <1>1, <1>3, <2>1, <2>2 DEF f
<1>4. CASE f.msgs # <<>>
  <2>1. /\ Len(Got(e)) < Len(Wrote(e)) /\ f.msgs = <<m>> /\ f.bs = 0
        /\ m \in Messages
        /\ Carries(Header(f.bs) \o (f.buf \o w), Append(Got(e), m), Wrote(e), linkUp)
    BY <1>1, <1>4
  <2>2. Range(f.msgs) = {m}
    BY <2>1 DEF Range
  <2>3. /\ HandedOver /\ owner["out"] # "none"
        /\ ~ready[e] => IF e = "in" THEN m = Ready2 /\ ready["out"] ELSE m = Ready
        /\ ready[e] => /\ ready["out"] /\ m \in Payloads
                       /\ Len(handled[e]) < Len(sent[Peer(e)])
                       /\ m = sent[Peer(e)][Len(handled[e]) + 1]
    BY <2>1, NextMessage
  <2> HIDE DEF m
  <2>4. \/ /\ IsReady2At(e, m)
           /\ ready' = [ready EXCEPT ![e] = TRUE]
           /\ wire' = [wire EXCEPT ![e] = w]
           /\ UNCHANGED handled
        \/ /\ IsReadyAt(e, m)
           /\ ready' = [ready EXCEPT ![e] = TRUE]
           /\ wire' = [wire EXCEPT ![e] = w, ![Peer(e)] = Written(@, Ready2)]
           /\ UNCHANGED handled
        \/ /\ ~IsReady2At(e, m) /\ ~IsReadyAt(e, m)
           /\ handled' = [handled EXCEPT ![e] = Append(@, m)]
           /\ wire' = [wire EXCEPT ![e] = w]
           /\ UNCHANGED ready
    BY <1>2, <1>4, <2>2
  <2>5. Ready # Ready2 /\ Ready \notin Payloads /\ Ready2 \notin Payloads
    BY HandshakeMessages
  <2>6. e = "in" \/ e = "out"
    BY DEF Ends
  <2>7. Took(e, w, m)
    BY <2>3, <2>4, <2>5, <2>6 DEF IsReady2At, IsReadyAt, Peer, Took
  <2> QED BY <1>1, <1>4, <2>1, <2>7 DEF f, m
<1> QED BY <1>3, <1>4

(* Prefixes, element by element. *)
LEMMA PrefixPointwise ==
  ASSUME NEW S, NEW s \in Seq(S), NEW t \in Seq(S)
  PROVE  IsPrefix(s, t) <=> /\ Len(s) <= Len(t)
                            /\ \A i \in 1..Len(s) : s[i] = t[i]
<1> DEFINE u == SubSeq(t, 1, Len(s))
<1>1. Len(s) \in Nat /\ Len(t) \in Nat /\ SubSeq(s, 1, Len(s)) = s
  BY SubSeqFull
<1>2. Len(s) <= Len(t) => /\ u \in Seq(S) /\ Len(u) = Len(s)
                          /\ \A i \in 1..Len(s) : u[i] = t[i]
  BY <1>1
<1> HIDE DEF u
<1>3. Len(s) <= Len(t) => ((s = u) <=> \A i \in 1..Len(s) : s[i] = t[i])
  <2> SUFFICES ASSUME Len(s) <= Len(t), \A i \in 1..Len(s) : s[i] = t[i]
               PROVE  s = u
    BY <1>2
  <2>1. \A i \in 1..Len(s) : s[i] = u[i]
    BY <1>2
  <2>2. u \in Seq(S) /\ Len(u) = Len(s)
    BY <1>2
  <2> QED BY <2>1, <2>2, SeqEqual
<1>4. IsPrefix(s, t) <=> Len(s) <= Len(t) /\ s = u
  BY <1>1 DEF IsPrefix, u
<1> QED BY <1>3, <1>4

LEMMA PrefixGrows ==
  ASSUME NEW S, NEW s \in Seq(S), NEW t \in Seq(S), IsPrefix(s, t)
  PROVE  /\ \A m \in S : IsPrefix(s, Append(t, m))
         /\ Len(s) < Len(t) => IsPrefix(Append(s, t[Len(s) + 1]), t)
<1>1. Len(s) <= Len(t) /\ \A i \in 1..Len(s) : s[i] = t[i]
  BY PrefixPointwise
<1>2. ASSUME NEW m \in S PROVE IsPrefix(s, Append(t, m))
  <2> DEFINE u == Append(t, m)
  <2>1. /\ u \in Seq(S) /\ Len(u) = Len(t) + 1
        /\ \A i \in 1..Len(t) : u[i] = t[i]
    OBVIOUS
  <2> HIDE DEF u
  <2>2. Len(s) <= Len(u) /\ \A i \in 1..Len(s) : s[i] = u[i]
    BY <1>1, <2>1
  <2>3. IsPrefix(s, u)
    BY <2>1, <2>2, PrefixPointwise
  <2> QED BY <2>3 DEF u
<1>3. ASSUME Len(s) < Len(t) PROVE IsPrefix(Append(s, t[Len(s) + 1]), t)
  <2> DEFINE u == Append(s, t[Len(s) + 1])
  <2>1. t[Len(s) + 1] \in S
    BY <1>3
  <2>2. /\ u \in Seq(S) /\ Len(u) = Len(s) + 1 /\ u[Len(s) + 1] = t[Len(s) + 1]
        /\ \A i \in 1..Len(s) : u[i] = s[i]
    BY <2>1
  <2> HIDE DEF u
  <2>3. Len(u) <= Len(t) /\ \A i \in 1..Len(u) : u[i] = t[i]
    BY <1>1, <1>3, <2>2
  <2>4. IsPrefix(u, t)
    BY <2>2, <2>3, PrefixPointwise
  <2> QED BY <2>4 DEF u
<1> QED BY <1>2, <1>3

LEMMA EmptyPrefix == \A t \in Seq(Payloads) : IsPrefix(<<>>, t)
<1> SUFFICES ASSUME NEW t \in Seq(Payloads) PROVE IsPrefix(<<>>, t)
  OBVIOUS
<1> DEFINE z == <<>>
<1>1. z \in Seq(Payloads) /\ Len(z) = 0 /\ Len(t) \in Nat
  OBVIOUS
<1> HIDE DEF z
<1>2. Len(z) <= Len(t) /\ \A i \in 1..Len(z) : z[i] = t[i]
  BY <1>1
<1>3. IsPrefix(z, t)
  BY <1>1, <1>2, PrefixPointwise
<1> QED BY <1>3 DEF z
-----------------------------------------------------------------------------
(* Every step keeps the invariant *)

LEMMA InitCInv == Init => CInv
<1> SUFFICES ASSUME Init PROVE CInv
  OBVIOUS
<1>1. <<>> \in Bytes /\ 0 <= MaxInt
  BY SMT DEF Bytes, MaxInt
<1>2. TypeOK
  BY <1>1 DEF Init, TypeOK, Owners
<1>3. Phases
  BY DEF Init, Phases, Ends, HandedOver
<1>4. ASSUME NEW e \in Ends PROVE Flow(e)
  <2>1. Wrote(e) = <<>> /\ Got(e) = <<>>
    BY DEF Init, Wrote, Got, HandedOver, Ends
  <2>2. Pending(e) = <<>>
    <3>1. Header(bs[e]) = <<>> /\ rbuf[e] = <<>> /\ wire[e] = <<>>
      BY DEF Init, Header
    <3> QED BY <3>1 DEF Pending
  <2> QED BY <2>1, <2>2, CarriesNothing DEF Flow
<1>5. PayloadsInOrder
  <2>1. \A e \in Ends : handled[e] = <<>> /\ sent[Peer(e)] = <<>>
    BY DEF Init, Ends, Peer
  <2>2. <<>> \in Seq(Payloads)
    OBVIOUS
  <2> QED BY <2>1, <2>2, EmptyPrefix DEF PayloadsInOrder
<1>6. NothingStranded
  BY DEF Init, NothingStranded
<1> QED BY <1>2, <1>3, <1>4, <1>5, <1>6 DEF CInv, Flows

(* A direction no step touches. *)
LEMMA FlowKept ==
  ASSUME NEW e \in Ends, Flow(e), owner[e] = "deleted" => owner'[e] = "deleted",
         Pending(e)' = Pending(e), Wrote(e)' = Wrote(e), Got(e)' = Got(e),
         linkUp' = linkUp
  PROVE  Flow(e)'
  BY DEF Flow

(* A run of Connection::readyRead, after a signal or from a timer. *)
LEMMA ConnKeeps ==
  ASSUME CInv, NEW e \in Ends, NEW w, NEW b, NEW t \in Nat,
         Reading(e, w, b), owner[e] \in {"conn", "finished"}, ConnReadyRead(e, w, b, t)
  PROVE  CInv'
<1> DEFINE f == ReadFrame(b, bs[e])
           m == Wrote(e)[Len(Got(e)) + 1]
           g == Peer(e)
<1>1. TypeOK /\ Phases /\ Flows /\ PayloadsInOrder /\ NothingStranded
  BY DEF CInv
<1>2. /\ f.buf \in Bytes /\ f.bs \in Nat /\ f.bs <= MaxInt
      /\ \/ /\ f.msgs = <<>>
            /\ Carries(Header(f.bs) \o (f.buf \o w), Got(e), Wrote(e), linkUp)
            /\ Len(f.buf) < IF f.bs = 0 THEN HdrLen ELSE f.bs
            /\ wire' = [wire EXCEPT ![e] = w]
            /\ UNCHANGED <<ready, handled>>
         \/ /\ f.msgs # <<>> /\ f.bs = 0 /\ m \in Messages
            /\ Carries(Header(f.bs) \o (f.buf \o w), Append(Got(e), m), Wrote(e), linkUp)
            /\ Took(e, w, m)
  BY ConnReads
<1>3. /\ rbuf' = [rbuf EXCEPT ![e] = f.buf] /\ bs' = [bs EXCEPT ![e] = f.bs]
      /\ timers' = [timers EXCEPT ![e] = Rescheduled(f, t)]
      /\ owner' = owner /\ sent' = sent /\ linkUp' = linkUp
  BY DEF ConnReadyRead
<1>4. /\ w \in Bytes /\ g \in Ends /\ g # e /\ Peer(g) = e /\ Ends = {e, g}
      /\ (e = "in" /\ g = "out") \/ (e = "out" /\ g = "in")
  BY DEF Reading, Ends, Peer
<1>5. /\ Rescheduled(f, t) \in Nat
      /\ Rescheduled(f, t) = 0 => f.msgs = <<>> \/ f.buf = <<>>
  BY DEF Rescheduled
<1> HIDE DEF f, m
<1>6. HandedOver' = HandedOver
  BY <1>3 DEF HandedOver
<1>7. /\ \A d \in Ends : d # e => rbuf'[d] = rbuf[d] /\ bs'[d] = bs[d] /\ timers'[d] = timers[d]
      /\ rbuf'[e] = f.buf /\ bs'[e] = f.bs /\ timers'[e] = Rescheduled(f, t)
      /\ rbuf' \in [Ends -> Bytes] /\ bs' \in [Ends -> Nat] /\ \A d \in Ends : bs'[d] <= MaxInt
      /\ timers' \in [Ends -> Nat]
  BY <1>1, <1>2, <1>3, <1>5 DEF TypeOK
<1>8. NothingStranded'
  <2>1. ASSUME NEW d \in Ends, owner'[d] \in {"servent", "conn"}, timers'[d] = 0
        PROVE  Len(rbuf'[d]) < IF bs'[d] = 0 THEN HdrLen ELSE bs'[d]
    <3>1. CASE d # e
      BY <1>1, <1>3, <1>7, <2>1, <3>1 DEF NothingStranded
    <3>2. CASE d = e
      <4>1. f.msgs = <<>> => Len(f.buf) < IF f.bs = 0 THEN HdrLen ELSE f.bs
        BY <1>2
      <4>2. f.msgs # <<>> => f.bs = 0 /\ f.buf = <<>>
        BY <1>2, <1>5, <1>7, <2>1, <3>2
      <4>3. Len(<<>>) < HdrLen
        BY DEF HdrLen
      <4> QED BY <1>7, <3>2, <4>1, <4>2, <4>3
    <3> QED BY <3>1, <3>2
  <2> QED BY <2>1 DEF NothingStranded
(* It waits for more bytes. *)
<1>9. CASE /\ f.msgs = <<>>
           /\ Carries(Header(f.bs) \o (f.buf \o w), Got(e), Wrote(e), linkUp)
           /\ wire' = [wire EXCEPT ![e] = w]
           /\ UNCHANGED <<ready, handled>>
  <2>1. wire' \in [Ends -> Bytes] /\ wire'[e] = w /\ wire'[g] = wire[g]
    BY <1>1, <1>4, <1>9 DEF TypeOK
  <2>2. TypeOK'
    BY <1>1, <1>3, <1>7, <1>9, <2>1 DEF TypeOK
  <2>3. Phases'
    <3>1. \A d \in Ends : owner'[d] = "none" =>
              rbuf'[d] = <<>> /\ bs'[d] = 0 /\ timers'[d] = 0
      BY <1>1, <1>3, <1>7 DEF Phases
    <3>2. ~HandedOver => timers'["in"] = 0
      BY <1>1, <1>4, <1>7 DEF Phases, HandedOver
    <3> QED BY <1>1, <1>3, <1>6, <1>9, <3>1, <3>2 DEF Phases
  <2>4. \A d \in Ends : Wrote(d)' = Wrote(d) /\ Got(d)' = Got(d)
    BY <1>3, <1>6, <1>9 DEF Wrote, Got
  <2>5. Flow(e)'
    BY <1>3, <1>7, <1>9, <2>1, <2>4 DEF Flow, Pending
  <2>6. Flow(g)'
    <3>1. Pending(g)' = Pending(g)
      BY <1>4, <1>7, <2>1 DEF Pending
    <3> QED BY <1>1, <1>3, <1>4, <2>4, <3>1, FlowKept DEF Flows
  <2>7. PayloadsInOrder'
    BY <1>1, <1>3, <1>9 DEF PayloadsInOrder
  <2> QED BY <1>4, <1>8, <2>2, <2>3, <2>5, <2>6, <2>7 DEF CInv, Flows
(* It takes the next message. *)
<1>10. CASE /\ f.bs = 0 /\ m \in Messages
            /\ Carries(Header(f.bs) \o (f.buf \o w), Append(Got(e), m), Wrote(e), linkUp)
            /\ Took(e, w, m)
  <2>1. HandedOver /\ owner["out"] # "none"
    BY <1>10 DEF Took
  <2>2. wire'[e] = w
    BY <1>1, <1>4, <1>10 DEF Took, TypeOK
  <2>3. Phases' <=>
          /\ \A d \in Ends : owner'[d] = "none" => rbuf'[d] = <<>> /\ bs'[d] = 0 /\ timers'[d] = 0
          /\ \A d \in Ends : ~ready'[d] => sent'[d] = <<>> /\ handled'[d] = <<>>
          /\ owner'["out"] # "servent" /\ (owner'["out"] = "none" => ~ready'["out"])
          /\ ready'["in"] => ready'["out"]
    BY <1>6, <2>1 DEF Phases
  <2>4. \A d \in Ends : owner'[d] = "none" => rbuf'[d] = <<>> /\ bs'[d] = 0 /\ timers'[d] = 0
    BY <1>1, <1>3, <1>7 DEF Phases
  <2>5. /\ First \in Messages /\ Ready \in Messages /\ Ready2 \in Messages
        /\ <<First, Ready2>> \in Seq(Messages) /\ <<Ready>> \in Seq(Messages)
        /\ <<First, Ready2>> \o <<>> = <<First, Ready2>> /\ <<Ready>> \o <<>> = <<Ready>>
        /\ Append(<<First>>, Ready2) = <<First, Ready2>> /\ Append(<<>>, Ready) = <<Ready>>
    <3>1. First \in Messages /\ Ready \in Messages /\ Ready2 \in Messages
      BY HandshakeMessages
    <3>2. <<First, Ready2>> \in Seq(Messages) /\ <<Ready>> \in Seq(Messages)
      BY <3>1
    <3>3. <<First, Ready2>> \o <<>> = <<First, Ready2>> /\ <<Ready>> \o <<>> = <<Ready>>
      BY <3>2, ConcatEmptySeq
    <3>4. Append(<<First>>, Ready2) = <<First, Ready2>>
      <4>1. <<First>> \in Seq(Messages)
        BY <3>1
      <4> DEFINE u == Append(<<First>>, Ready2)
      <4>2. u \in Seq(Messages) /\ Len(u) = 2 /\ u[1] = First /\ u[2] = Ready2
        BY <3>1, <4>1
      <4>3. Len(<<First, Ready2>>) = 2 /\ <<First, Ready2>>[1] = First
            /\ <<First, Ready2>>[2] = Ready2
        OBVIOUS
      <4> HIDE DEF u
      <4>4. u = <<First, Ready2>>
        BY <4>2, <4>3
      <4> QED BY <4>4 DEF u
    <3>5. Append(<<>>, Ready) = <<Ready>>
      OBVIOUS
    <3> QED BY <3>1, <3>2, <3>3, <3>4, <3>5
  <2>6. CASE /\ e = "in" /\ m = Ready2 /\ ~ready["in"] /\ ready["out"]
             /\ ready' = [ready EXCEPT !["in"] = TRUE]
             /\ wire' = [wire EXCEPT !["in"] = w]
             /\ handled' = handled
    <3>1. ready'["in"] /\ ready'["out"] /\ ready' \in [Ends -> BOOLEAN]
      BY <1>1, <2>6 DEF TypeOK, Ends
    <3>2. wire' \in [Ends -> Bytes] /\ wire'[g] = wire[g]
      BY <1>1, <1>4, <2>6 DEF TypeOK
    <3>3. TypeOK'
      BY <1>1, <1>3, <1>7, <2>6, <3>1, <3>2 DEF TypeOK
    <3>4. Phases'
      BY <1>1, <1>3, <2>1, <2>3, <2>4, <3>1 DEF Phases, Ends
    <3>5. Got("in")' = Append(Got("in"), m)
      BY <1>1, <1>6, <2>1, <2>5, <2>6, <3>1 DEF Got, Phases, Ends
    <3>6. Wrote("in")' = Wrote("in") /\ Wrote("out")' = Wrote("out") /\ Got("out")' = Got("out")
      BY <1>3, <1>6, <2>6, <3>1 DEF Wrote, Got
    <3>7. Flow(e)'
      BY <1>3, <1>7, <1>10, <2>2, <2>6, <3>5, <3>6 DEF Flow, Pending
    <3>8. Flow(g)'
      <4>1. Pending(g)' = Pending(g)
        BY <1>4, <1>7, <3>2 DEF Pending
      <4> QED BY <1>1, <1>3, <1>4, <2>6, <3>6, <4>1, FlowKept DEF Flows
    <3>9. PayloadsInOrder'
      BY <1>1, <1>3, <2>6 DEF PayloadsInOrder
    <3> QED BY <1>4, <1>8, <3>3, <3>4, <3>7, <3>8, <3>9 DEF CInv, Flows
  <2>7. CASE /\ e = "out" /\ m = Ready /\ ~ready["out"]
             /\ ready' = [ready EXCEPT !["out"] = TRUE]
             /\ wire' = [wire EXCEPT !["out"] = w, !["in"] = Written(@, Ready2)]
             /\ handled' = handled
    <3>1. ready'["out"] /\ ready'["in"] = ready["in"] /\ ready' \in [Ends -> BOOLEAN]
      BY <1>1, <2>7 DEF TypeOK, Ends
    <3>2. wire' \in [Ends -> Bytes] /\ wire'["in"] = Written(wire["in"], Ready2)
      <4>1. Written(wire["in"], Ready2) \in Bytes
        BY <1>1, <2>5, WrittenType DEF Ends
      <4> QED BY <1>1, <1>4, <2>7, <4>1 DEF TypeOK
    <3>3. TypeOK'
      BY <1>1, <1>3, <1>7, <2>7, <3>1, <3>2 DEF TypeOK
    <3>4. Phases'
      BY <1>1, <1>3, <2>1, <2>3, <2>4, <2>7, <3>1 DEF Phases, Ends
    <3>5. sent["out"] = <<>> /\ handled["out"] = <<>> /\ ~ready["in"]
      BY <1>1, <2>7 DEF Phases, Ends, TypeOK
    <3>6. Got("out")' = Append(Got("out"), m) /\ Wrote("out")' = Wrote("out")
      BY <1>3, <1>6, <2>5, <2>7, <3>1, <3>5 DEF Got, Wrote
    <3>7. Wrote("in")' = Append(Wrote("in"), Ready2) /\ Got("in")' = Got("in")
      BY <1>3, <1>6, <2>1, <2>5, <2>7, <3>1, <3>5 DEF Got, Wrote
    <3>8. Flow(e)'
      BY <1>3, <1>7, <1>10, <2>2, <2>7, <3>6 DEF Flow, Pending
    <3>9. Flow(g)'
      <4>1. g = "in" /\ Got("in") \in Seq(Messages)
        BY <1>1, <1>4, <2>7, FlowTypes
      <4>2. ASSUME owner[g] # "deleted"
            PROVE  Carries(Pending(g)', Got(g)', Wrote(g)', linkUp')
        <5>1. Carries(Pending(g), Got(g), Wrote(g), linkUp)
          BY <1>1, <1>4, <4>2 DEF Flows, Flow
        <5>2. Carries(Header(bs[g]) \o (rbuf[g] \o Written(wire[g], Ready2)),
                      Got(g), Append(Wrote(g), Ready2), linkUp)
          BY <1>1, <1>4, <2>5, <4>1, <5>1, WritesMore
        <5>3. Pending(g)' = Header(bs[g]) \o (rbuf[g] \o Written(wire[g], Ready2))
          BY <1>4, <1>7, <3>2, <4>1 DEF Pending
        <5> QED BY <1>3, <3>7, <4>1, <5>2, <5>3
      <4> QED BY <1>3, <4>2 DEF Flow
    <3>10. PayloadsInOrder'
      BY <1>1, <1>3, <2>7 DEF PayloadsInOrder
    <3> QED BY <1>4, <1>8, <3>3, <3>4, <3>8, <3>9, <3>10 DEF CInv, Flows
  <2>8. CASE /\ ready[e] /\ ready["out"]
             /\ m \in Payloads /\ Len(handled[e]) < Len(sent[Peer(e)])
             /\ m = sent[Peer(e)][Len(handled[e]) + 1]
             /\ handled' = [handled EXCEPT ![e] = Append(@, m)]
             /\ wire' = [wire EXCEPT ![e] = w]
             /\ ready' = ready
    <3>1. /\ handled[e] \in Seq(Payloads) /\ sent[g] \in Seq(Payloads)
          /\ Append(handled[e], m) \in Seq(Payloads)
      BY <1>1, <1>4, <2>8 DEF TypeOK
    <3>2. /\ wire' \in [Ends -> Bytes] /\ wire'[g] = wire[g]
          /\ handled' \in [Ends -> Seq(Payloads)] /\ handled'[g] = handled[g]
          /\ handled'[e] = Append(handled[e], m)
      BY <1>1, <1>4, <2>8, <3>1 DEF TypeOK
    <3>3. TypeOK'
      BY <1>1, <1>3, <1>7, <2>8, <3>2 DEF TypeOK
    <3>4. Phases'
      BY <1>1, <1>3, <1>4, <2>1, <2>3, <2>4, <2>8, <3>2 DEF Phases
    <3>5. Got(e)' = Append(Got(e), m)
      <4>1. /\ handled[e] \in Seq(Messages) /\ <<First, Ready2>> \in Seq(Messages)
            /\ <<Ready>> \in Seq(Messages) /\ m \in Messages
        BY <1>10, <2>5, <3>1, PayloadSeqs
      <4>2. /\ Append(<<First, Ready2>> \o handled[e], m) = <<First, Ready2>> \o Append(handled[e], m)
            /\ Append(<<Ready>> \o handled[e], m) = <<Ready>> \o Append(handled[e], m)
        BY <4>1, Behind
      <4> QED BY <1>4, <1>6, <2>1, <2>8, <3>2, <4>2 DEF Got
    <3>6. Got(g)' = Got(g) /\ Wrote(g)' = Wrote(g) /\ Wrote(e)' = Wrote(e)
      BY <1>3, <1>4, <1>6, <2>8, <3>2 DEF Got, Wrote
    <3>7. Flow(e)'
      BY <1>3, <1>7, <1>10, <2>2, <3>5, <3>6 DEF Flow, Pending
    <3>8. Flow(g)'
      <4>1. Pending(g)' = Pending(g)
        BY <1>4, <1>7, <3>2 DEF Pending
      <4> QED BY <1>1, <1>3, <1>4, <3>6, <4>1, FlowKept DEF Flows
    <3>9. PayloadsInOrder'
      <4>1. IsPrefix(Append(handled[e], m), sent[g])
        BY <1>1, <2>8, <3>1, PrefixGrows DEF PayloadsInOrder
      <4> QED BY <1>1, <1>3, <1>4, <3>2, <4>1 DEF PayloadsInOrder
    <3> QED BY <1>4, <1>8, <3>3, <3>4, <3>7, <3>8, <3>9 DEF CInv, Flows
  <2> QED BY <1>10, <2>6, <2>7, <2>8 DEF Took
<1> QED BY <1>2, <1>9, <1>10

(* Servent::readyRead: the accepted socket waits for the whole first message *)
(* and then has nothing behind it, for the dialler answers "ready" only.     *)
LEMMA ServentKeeps ==
  ASSUME CInv, NEW w, NEW b, Reading("in", w, b), owner["in"] = "servent",
         ServentReadyRead(w, b)
  PROVE  CInv'
<1> DEFINE f == ReadFrame(b, bs["in"])
           m == Wrote("in")[Len(Got("in")) + 1]
<1>1. TypeOK /\ Phases /\ Flows /\ PayloadsInOrder /\ NothingStranded
  BY DEF CInv
<1>2. "in" \in Ends /\ "out" \in Ends
  BY DEF Ends
<1>3. /\ f.buf \in Bytes /\ f.bs \in Nat /\ f.bs <= MaxInt
      /\ \/ /\ f.msgs = <<>>
            /\ Carries(Header(f.bs) \o (f.buf \o w), Got("in"), Wrote("in"), linkUp)
            /\ Len(f.buf) < IF f.bs = 0 THEN HdrLen ELSE f.bs
         \/ /\ Len(Got("in")) < Len(Wrote("in")) /\ f.msgs = <<m>> /\ f.bs = 0
            /\ m \in Messages
            /\ Carries(Header(f.bs) \o (f.buf \o w), Append(Got("in"), m), Wrote("in"), linkUp)
  BY <1>2, SlotReads
<1>4. /\ rbuf' = [rbuf EXCEPT !["in"] = f.buf] /\ bs' = [bs EXCEPT !["in"] = f.bs]
      /\ timers' = timers /\ ready' = ready /\ sent' = sent /\ handled' = handled
      /\ linkUp' = linkUp
      /\ \/ /\ f.msgs = <<>>
            /\ wire' = [wire EXCEPT !["in"] = w]
            /\ owner' = owner
         \/ /\ f.msgs # <<>>
            /\ wire' = [wire EXCEPT !["in"] = w, !["out"] = Written(@, Ready)]
            /\ owner' = [owner EXCEPT !["in"] = "conn"]
  BY DEF ServentReadyRead
<1>5. w \in Bytes
  BY DEF Reading
<1> HIDE DEF f, m
<1>6. /\ ~HandedOver /\ ~ready["in"] /\ ~ready["out"] /\ timers["in"] = 0
      /\ sent["in"] = <<>> /\ sent["out"] = <<>>
  BY <1>1, <1>2 DEF HandedOver, Phases, TypeOK
<1>7. /\ Got("in") = <<>> /\ Got("out") = <<>> /\ Wrote("out") = <<>>
      /\ Wrote("in") = IF owner["out"] = "none" THEN <<>> ELSE <<First>>
  BY <1>6 DEF Got, Wrote
<1>8. /\ rbuf'["in"] = f.buf /\ rbuf'["out"] = rbuf["out"]
      /\ bs'["in"] = f.bs /\ bs'["out"] = bs["out"]
      /\ rbuf' \in [Ends -> Bytes] /\ bs' \in [Ends -> Nat] /\ \A d \in Ends : bs'[d] <= MaxInt
  BY <1>1, <1>2, <1>3, <1>4 DEF TypeOK
<1>9. PayloadsInOrder'
  BY <1>1, <1>4 DEF PayloadsInOrder
<1>10. \A d \in Ends : d = "in" \/ d = "out"
  BY DEF Ends
<1>11. CASE /\ f.msgs = <<>>
            /\ Carries(Header(f.bs) \o (f.buf \o w), Got("in"), Wrote("in"), linkUp)
            /\ Len(f.buf) < IF f.bs = 0 THEN HdrLen ELSE f.bs
  <2>1. wire' = [wire EXCEPT !["in"] = w] /\ owner' = owner
    BY <1>4, <1>11
  <2>2. wire' \in [Ends -> Bytes] /\ wire'["in"] = w /\ wire'["out"] = wire["out"]
    BY <1>1, <1>2, <1>5, <2>1 DEF TypeOK
  <2>3. TypeOK'
    BY <1>1, <1>4, <1>8, <2>1, <2>2 DEF TypeOK
  <2>4. HandedOver' = HandedOver
    BY <2>1 DEF HandedOver
  <2>5. Phases'
    <3>1. \A d \in Ends : owner'[d] = "none" =>
              rbuf'[d] = <<>> /\ bs'[d] = 0 /\ timers'[d] = 0
      BY <1>1, <1>4, <1>8, <1>10, <2>1 DEF Phases
    <3> QED BY <1>1, <1>4, <2>1, <2>4, <3>1 DEF Phases
  <2>6. \A d \in Ends : Wrote(d)' = Wrote(d) /\ Got(d)' = Got(d)
    BY <1>4, <2>1, <2>4 DEF Wrote, Got
  <2>7. Flow("in")'
    BY <1>2, <1>4, <1>8, <1>11, <2>2, <2>6 DEF Flow, Pending
  <2>8. Flow("out")'
    <3>1. Pending("out")' = Pending("out")
      BY <1>8, <2>2 DEF Pending
    <3> QED BY <1>1, <1>2, <1>4, <2>1, <2>6, <3>1, FlowKept DEF Flows
  <2>9. NothingStranded'
    BY <1>1, <1>4, <1>8, <1>10, <1>11, <2>1 DEF NothingStranded
  <2> QED BY <1>9, <1>10, <2>3, <2>5, <2>7, <2>8, <2>9 DEF CInv, Flows
<1>12. CASE /\ Len(Got("in")) < Len(Wrote("in")) /\ f.msgs = <<m>> /\ f.bs = 0
            /\ m \in Messages
            /\ Carries(Header(f.bs) \o (f.buf \o w), Append(Got("in"), m), Wrote("in"), linkUp)
  <2>0. First \in Messages /\ Ready \in Messages /\ <<First>> \in Seq(Messages)
        /\ <<Ready>> \in Seq(Messages) /\ <<Ready>> \o <<>> = <<Ready>>
    <3>1. First \in Messages /\ Ready \in Messages
      BY HandshakeMessages
    <3>2. <<First>> \in Seq(Messages) /\ <<Ready>> \in Seq(Messages)
      BY <3>1
    <3> QED BY <3>1, <3>2, ConcatEmptySeq
  <2>1. /\ owner["out"] # "none" /\ Wrote("in") = <<First>> /\ m = First
        /\ Append(Got("in"), m) = <<First>>
    <3>1. Len(<<>>) = 0 /\ <<First>>[1] = First /\ Len(<<First>>) = 1
      OBVIOUS
    <3>2. owner["out"] # "none" /\ Wrote("in") = <<First>>
      BY <1>7, <1>12, <3>1
    <3>3. Len(Got("in")) + 1 = 1
      BY <1>7, <3>1
    <3>4. m = First
      BY <3>1, <3>2, <3>3 DEF m
    <3>5. Append(<<>>, First) = <<First>>
      OBVIOUS
    <3> QED BY <1>7, <3>2, <3>4, <3>5
  <2>2. /\ wire' = [wire EXCEPT !["in"] = w, !["out"] = Written(@, Ready)]
        /\ owner' = [owner EXCEPT !["in"] = "conn"]
    <3>1. f.msgs # <<>>
      <4>1. <<m>> # <<>>
        OBVIOUS
      <4> QED BY <1>12, <4>1
    <3> QED BY <1>4, <3>1
  <2>3. f.buf = <<>>
    <3>1. f.buf \o w \in Bytes
      BY <1>3, <1>5, ConcatProperties DEF Bytes
    <3>2. Header(f.bs) \o (f.buf \o w) = f.buf \o w
      BY <1>12, <3>1, ConcatEmptySeq DEF Header, Bytes
    <3>3. Carries(f.buf \o w, <<First>>, <<First>>, linkUp)
      BY <1>12, <2>1, <3>2
    <3>4. f.buf \o w = <<>>
      BY <2>0, <3>1, <3>3, CarriesNoMore
    <3>5. Len(f.buf \o w) = Len(f.buf) + Len(w) /\ Len(f.buf) \in Nat /\ Len(w) \in Nat
      BY <1>3, <1>5 DEF Bytes
    <3>6. Len(f.buf) = 0
      BY <3>4, <3>5
    <3> QED BY <1>3, <3>6 DEF Bytes
  <2>4. wire' \in [Ends -> Bytes] /\ wire'["in"] = w /\ wire'["out"] = Written(wire["out"], Ready)
    <3>1. Written(wire["out"], Ready) \in Bytes
      BY <1>1, <1>2, <2>0, WrittenType
    <3> QED BY <1>1, <1>2, <1>5, <2>2, <3>1 DEF TypeOK
  <2>5. /\ owner' \in [Ends -> Owners] /\ owner'["in"] = "conn" /\ owner'["out"] = owner["out"]
    BY <1>1, <1>2, <2>2 DEF TypeOK, Owners
  <2>6. TypeOK'
    BY <1>1, <1>4, <1>8, <2>4, <2>5 DEF TypeOK
  <2>7. HandedOver'
    BY <2>5 DEF HandedOver
  <2>8. Phases'
    <3>1. \A d \in Ends : owner'[d] = "none" =>
              rbuf'[d] = <<>> /\ bs'[d] = 0 /\ timers'[d] = 0
      BY <1>1, <1>4, <1>8, <1>10, <2>5 DEF Phases
    <3> QED BY <1>1, <1>4, <1>6, <2>5, <2>7, <3>1 DEF Phases
  <2>9. /\ Got("in")' = <<First>> /\ Wrote("in")' = Wrote("in")
        /\ Got("out")' = Got("out") /\ Wrote("out")' = <<Ready>>
    BY <1>4, <1>6, <1>7, <2>0, <2>1, <2>5, <2>7 DEF Got, Wrote
  <2>10. Flow("in")'
    BY <1>4, <1>8, <1>12, <2>1, <2>4, <2>9 DEF Flow, Pending
  <2>11. Flow("out")'
    <3>1. ASSUME owner["out"] # "deleted"
          PROVE  Carries(Pending("out")', Got("out")', Wrote("out")', linkUp')
      <4>1. Carries(Pending("out"), Got("out"), Wrote("out"), linkUp)
        BY <1>1, <1>2, <3>1 DEF Flows, Flow
      <4>2. Got("out") \in Seq(Messages)
        BY <1>1, <1>2, FlowTypes
      <4>3. Carries(Header(bs["out"]) \o (rbuf["out"] \o Written(wire["out"], Ready)),
                    Got("out"), Append(Wrote("out"), Ready), linkUp)
        BY <1>1, <1>2, <2>0, <4>1, <4>2, WritesMore
      <4>4. Append(Wrote("out"), Ready) = Wrote("out")'
        <5>1. Append(<<>>, Ready) = <<Ready>>
          OBVIOUS
        <5> QED BY <1>7, <2>9, <5>1
      <4>5. Pending("out")' = Header(bs["out"]) \o (rbuf["out"] \o Written(wire["out"], Ready))
        BY <1>8, <2>4 DEF Pending
      <4> QED BY <1>4, <2>9, <4>3, <4>4, <4>5
    <3> QED BY <2>5, <3>1 DEF Flow
  <2>12. NothingStranded'
    <3>1. Len(<<>>) < HdrLen
      BY DEF HdrLen
    <3> QED BY <1>1, <1>4, <1>8, <1>10, <1>12, <2>3, <2>5, <3>1 DEF NothingStranded
  <2> QED BY <1>9, <1>10, <2>6, <2>8, <2>10, <2>11, <2>12 DEF CInv, Flows
<1> QED BY <1>3, <1>11, <1>12

LEMMA SocketConnectedKeeps == CInv /\ SocketConnected => CInv'
<1> SUFFICES ASSUME CInv, SocketConnected PROVE CInv'
  OBVIOUS
<1>1. TypeOK /\ Phases /\ Flows /\ PayloadsInOrder /\ NothingStranded
  BY DEF CInv
<1>2. "in" \in Ends /\ "out" \in Ends /\ \A d \in Ends : d = "in" \/ d = "out"
  BY DEF Ends
<1>3. First \in Messages
  BY HandshakeMessages
<1>4. /\ wire' \in [Ends -> Bytes] /\ wire'["in"] = Written(wire["in"], First)
      /\ wire'["out"] = wire["out"]
  <2>1. Written(wire["in"], First) \in Bytes
    BY <1>1, <1>2, <1>3, WrittenType
  <2> QED BY <1>1, <1>2, <2>1 DEF TypeOK, SocketConnected
<1>5. /\ owner' \in [Ends -> Owners] /\ owner'["out"] = "conn" /\ owner'["in"] = owner["in"]
      /\ owner["out"] = "none" /\ HandedOver' = HandedOver
  BY <1>1, <1>2 DEF TypeOK, Owners, SocketConnected, HandedOver
<1>6. UNCHANGED <<rbuf, bs, timers, ready, sent, handled, linkUp>>
  BY DEF SocketConnected
<1>7. TypeOK' /\ Phases'
  BY <1>1, <1>2, <1>4, <1>5, <1>6 DEF TypeOK, Phases
<1>8. /\ Wrote("in") = <<>> /\ Wrote("in")' = <<First>> /\ Wrote("out")' = Wrote("out")
      /\ Got("in")' = Got("in") /\ Got("out")' = Got("out")
  BY <1>1, <1>5, <1>6 DEF Wrote, Got, Phases
<1>9. Flow("in")'
  <2>1. ASSUME owner["in"] # "deleted"
        PROVE  Carries(Pending("in")', Got("in")', Wrote("in")', linkUp')
    <3>1. Carries(Pending("in"), Got("in"), Wrote("in"), linkUp)
      BY <1>1, <1>2, <2>1 DEF Flows, Flow
    <3>2. Got("in") \in Seq(Messages)
      BY <1>1, <1>2, FlowTypes
    <3>3. Carries(Header(bs["in"]) \o (rbuf["in"] \o Written(wire["in"], First)),
                  Got("in"), Append(Wrote("in"), First), linkUp)
      BY <1>1, <1>2, <1>3, <3>1, <3>2, WritesMore
    <3>4. Append(Wrote("in"), First) = Wrote("in")'
      <4>1. Append(<<>>, First) = <<First>>
        OBVIOUS
      <4> QED BY <1>8, <4>1
    <3>5. Pending("in")' = Header(bs["in"]) \o (rbuf["in"] \o Written(wire["in"], First))
      BY <1>4, <1>6 DEF Pending
    <3> QED BY <1>6, <1>8, <3>3, <3>4, <3>5
  <2> QED BY <1>5, <2>1 DEF Flow
<1>10. Flow("out")'
  <2>1. Pending("out")' = Pending("out")
    BY <1>4, <1>6 DEF Pending
  <2> QED BY <1>1, <1>2, <1>5, <1>6, <1>8, <2>1, FlowKept DEF Flows
<1>11. PayloadsInOrder'
  BY <1>1, <1>6 DEF PayloadsInOrder
<1>12. NothingStranded'
  <2>1. rbuf["out"] = <<>> /\ bs["out"] = 0
    BY <1>1, <1>2, <1>5 DEF Phases
  <2>2. Len(<<>>) < HdrLen
    BY DEF HdrLen
  <2> QED BY <1>1, <1>2, <1>5, <1>6, <2>1, <2>2 DEF NothingStranded
<1> QED BY <1>2, <1>7, <1>9, <1>10, <1>11, <1>12 DEF CInv, Flows

LEMMA IncomingConnectionKeeps == CInv /\ IncomingConnection => CInv'
<1> SUFFICES ASSUME CInv, IncomingConnection PROVE CInv'
  OBVIOUS
<1>1. TypeOK /\ Phases /\ Flows /\ PayloadsInOrder /\ NothingStranded
  BY DEF CInv
<1>2. "in" \in Ends /\ "out" \in Ends /\ \A d \in Ends : d = "in" \/ d = "out"
  BY DEF Ends
<1>3. /\ owner' \in [Ends -> Owners] /\ owner'["in"] = "servent" /\ owner'["out"] = owner["out"]
      /\ owner["in"] = "none" /\ HandedOver' = HandedOver
  BY <1>1, <1>2 DEF TypeOK, Owners, IncomingConnection, HandedOver
<1>4. UNCHANGED <<wire, rbuf, bs, timers, ready, sent, handled, linkUp>>
  BY DEF IncomingConnection
<1>5. TypeOK' /\ Phases'
  BY <1>1, <1>2, <1>3, <1>4 DEF TypeOK, Phases
<1>6. \A d \in Ends : Wrote(d)' = Wrote(d) /\ Got(d)' = Got(d) /\ Pending(d)' = Pending(d)
  BY <1>3, <1>4 DEF Wrote, Got, Pending
<1>7. Flows'
  <2>1. \A d \in Ends : owner[d] = "deleted" => owner'[d] = "deleted"
    BY <1>2, <1>3
  <2> QED BY <1>1, <1>4, <1>6, <2>1, FlowKept DEF Flows
<1>8. PayloadsInOrder'
  BY <1>1, <1>4 DEF PayloadsInOrder
<1>9. NothingStranded'
  <2>1. rbuf["in"] = <<>> /\ bs["in"] = 0
    BY <1>1, <1>2, <1>3 DEF Phases
  <2>2. Len(<<>>) < HdrLen
    BY DEF HdrLen
  <2> QED BY <1>1, <1>2, <1>3, <1>4, <2>1, <2>2 DEF NothingStranded
<1> QED BY <1>5, <1>7, <1>8, <1>9 DEF CInv

LEMMA ArriveKeeps ==
  ASSUME CInv, NEW e \in Ends, Arrive(e)
  PROVE  CInv'
<1>1. PICK n \in 1..Len(wire[e]) :
        LET w == SubSeq(wire[e], n + 1, Len(wire[e]))
            b == rbuf[e] \o SubSeq(wire[e], 1, n)
        IN  \/ owner[e] = "conn" /\ ConnReadyRead(e, w, b, timers[e])
            \/ owner[e] = "servent" /\ ServentReadyRead(w, b)
  BY DEF Arrive
<1> DEFINE w == SubSeq(wire[e], n + 1, Len(wire[e]))
           b == rbuf[e] \o SubSeq(wire[e], 1, n)
<1>2. owner[e] \in {"servent", "conn"}
  BY <1>1
<1>3. Reading(e, w, b)
  BY <1>2, ArriveReads DEF CInv
<1>4. timers[e] \in Nat
  BY DEF CInv, TypeOK
<1>5. \/ owner[e] = "conn" /\ ConnReadyRead(e, w, b, timers[e])
      \/ owner[e] = "servent" /\ ServentReadyRead(w, b)
  BY <1>1
<1> HIDE DEF w, b
<1>6. CASE owner[e] = "conn" /\ ConnReadyRead(e, w, b, timers[e])
  BY <1>3, <1>4, <1>6, ConnKeeps
<1>7. CASE owner[e] = "servent" /\ ServentReadyRead(w, b)
  <2>1. e = "in"
    BY <1>7 DEF CInv, Phases, Ends
  <2> QED BY <1>3, <1>7, <2>1, ServentKeeps
<1> QED BY <1>5, <1>6, <1>7

LEMMA TimeoutReads ==
  ASSUME CInv, NEW e \in Ends, Timeout(e)
  PROVE  /\ Reading(e, wire[e], rbuf[e]) /\ owner[e] \in {"conn", "finished"}
         /\ timers[e] - 1 \in Nat
         /\ ConnReadyRead(e, wire[e], rbuf[e], timers[e] - 1)
<1>1. /\ timers[e] \in Nat /\ timers[e] > 0 /\ wire[e] \in Bytes /\ rbuf[e] \in Bytes
      /\ owner[e] \in {"conn", "finished"}
      /\ ConnReadyRead(e, wire[e], rbuf[e], timers[e] - 1)
  BY DEF CInv, TypeOK, Timeout
<1> QED BY <1>1 DEF Reading

LEMMA SendKeeps ==
  ASSUME CInv, NEW e \in Ends, Send(e)
  PROVE  CInv'
<1> DEFINE g == Peer(e)
<1>1. TypeOK /\ Phases /\ Flows /\ PayloadsInOrder /\ NothingStranded
  BY DEF CInv
<1>2. PICK m \in Payloads : /\ sent' = [sent EXCEPT ![e] = Append(@, m)]
                            /\ wire' = [wire EXCEPT ![g] = Written(@, m)]
  BY DEF Send
<1>3. /\ ready[e] /\ owner[e] = "conn"
      /\ UNCHANGED <<rbuf, bs, timers, owner, ready, handled, linkUp>>
  BY DEF Send
<1>4. /\ g \in Ends /\ g # e /\ Peer(g) = e /\ (\A d \in Ends : d = e \/ d = g)
      /\ (e = "in" /\ g = "out") \/ (e = "out" /\ g = "in")
  BY DEF Ends, Peer
<1> HIDE DEF g
<1>5. m \in Messages /\ Written(wire[g], m) \in Bytes
  BY <1>1, <1>4, HandshakeMessages, WrittenType
<1>6. /\ wire' \in [Ends -> Bytes] /\ wire'[g] = Written(wire[g], m) /\ wire'[e] = wire[e]
      /\ sent' \in [Ends -> Seq(Payloads)] /\ sent'[e] = Append(sent[e], m)
      /\ sent'[g] = sent[g]
  BY <1>1, <1>2, <1>4, <1>5 DEF TypeOK
<1>7. HandedOver' = HandedOver
  BY <1>3 DEF HandedOver
<1>8. TypeOK' /\ Phases'
  <2>1. TypeOK'
    BY <1>1, <1>3, <1>6 DEF TypeOK
  <2>2. \A d \in Ends : ~ready'[d] => sent'[d] = <<>> /\ handled'[d] = <<>>
    BY <1>1, <1>3, <1>4, <1>6 DEF Phases
  <2> QED BY <1>1, <1>3, <1>7, <2>1, <2>2 DEF Phases
<1>9. Wrote(g)' = Append(Wrote(g), m)
  <2>1. /\ sent[e] \in Seq(Messages) /\ <<First, Ready2>> \in Seq(Messages)
        /\ <<Ready>> \in Seq(Messages)
    <3>1. sent[e] \in Seq(Payloads)
      BY <1>1 DEF TypeOK
    <3> QED BY <3>1, HandshakeMessages, PayloadSeqs
  <2>2. /\ Append(<<First, Ready2>> \o sent[e], m) = <<First, Ready2>> \o Append(sent[e], m)
        /\ Append(<<Ready>> \o sent[e], m) = <<Ready>> \o Append(sent[e], m)
    BY <1>5, <2>1, Behind
  <2>3. CASE e = "out"
    <3>1. owner["out"] # "none" /\ ready["out"]
      BY <1>3, <2>3
    <3> QED BY <1>3, <1>4, <1>6, <2>2, <2>3, <3>1 DEF Wrote
  <2>4. CASE e = "in"
    <3>1. HandedOver
      BY <1>3, <2>4 DEF HandedOver
    <3> QED BY <1>4, <1>6, <1>7, <2>2, <2>4, <3>1 DEF Wrote
  <2> QED BY <1>4, <2>3, <2>4
<1>10. Wrote(e)' = Wrote(e) /\ Got(e)' = Got(e) /\ Got(g)' = Got(g)
  BY <1>3, <1>4, <1>6, <1>7 DEF Wrote, Got
<1>11. Flow(e)'
  <2>1. Pending(e)' = Pending(e)
    BY <1>3, <1>6 DEF Pending
  <2> QED BY <1>1, <1>3, <1>10, <2>1, FlowKept DEF Flows
<1>12. Flow(g)'
  <2>1. ASSUME owner[g] # "deleted"
        PROVE  Carries(Pending(g)', Got(g)', Wrote(g)', linkUp')
    <3>1. Carries(Pending(g), Got(g), Wrote(g), linkUp)
      BY <1>1, <1>4, <2>1 DEF Flows, Flow
    <3>2. Got(g) \in Seq(Messages)
      BY <1>1, <1>4, FlowTypes
    <3>3. Carries(Header(bs[g]) \o (rbuf[g] \o Written(wire[g], m)),
                  Got(g), Append(Wrote(g), m), linkUp)
      BY <1>1, <1>4, <1>5, <3>1, <3>2, WritesMore
    <3>4. Pending(g)' = Header(bs[g]) \o (rbuf[g] \o Written(wire[g], m))
      BY <1>3, <1>6 DEF Pending
    <3> QED BY <1>3, <1>9, <1>10, <3>3, <3>4
  <2> QED BY <1>3, <2>1 DEF Flow
<1>13. PayloadsInOrder'
  <2>1. handled[g] \in Seq(Payloads) /\ sent[e] \in Seq(Payloads)
    BY <1>1, <1>4 DEF TypeOK
  <2>2. IsPrefix(handled[g], Append(sent[e], m))
    BY <1>1, <1>4, <2>1, PrefixGrows DEF PayloadsInOrder
  <2>3. IsPrefix(handled[e], sent[g])
    BY <1>1, <1>4 DEF PayloadsInOrder, g
  <2> QED BY <1>3, <1>4, <1>6, <2>2, <2>3 DEF PayloadsInOrder, g
<1>14. NothingStranded'
  BY <1>1, <1>3 DEF NothingStranded
<1> QED BY <1>4, <1>8, <1>11, <1>12, <1>13, <1>14 DEF CInv, Flows

LEMMA BreakKeeps == CInv /\ Break => CInv'
<1> SUFFICES ASSUME CInv, Break PROVE CInv'
  OBVIOUS
<1>1. TypeOK /\ Phases /\ Flows /\ PayloadsInOrder /\ NothingStranded
  BY DEF CInv
<1>2. /\ linkUp' = FALSE
      /\ UNCHANGED <<wire, rbuf, bs, timers, owner, ready, sent, handled>>
  BY DEF Break
<1>3. TypeOK'
  BY <1>1, <1>2 DEF TypeOK
<1>4. HandedOver' = HandedOver
  BY <1>2 DEF HandedOver
<1>5. Phases'
  BY <1>1, <1>2, <1>4 DEF Phases
<1>6. ASSUME NEW d \in Ends PROVE Flow(d)'
  <2>1. Wrote(d)' = Wrote(d) /\ Got(d)' = Got(d) /\ Pending(d)' = Pending(d)
    BY <1>2, <1>4 DEF Wrote, Got, Pending
  <2>2. ASSUME owner[d] # "deleted" PROVE Carries(Pending(d), Got(d), Wrote(d), FALSE)
    BY <1>1, <2>2, CarriesLess DEF Flows, Flow
  <2> QED BY <1>2, <2>1, <2>2 DEF Flow
<1>7. PayloadsInOrder' /\ NothingStranded'
  BY <1>1, <1>2 DEF PayloadsInOrder, NothingStranded
<1> QED BY <1>3, <1>5, <1>6, <1>7 DEF CInv, Flows

LEMMA DisconnectedKeeps ==
  ASSUME CInv, NEW e \in Ends, Disconnected(e)
  PROVE  CInv'
<1>1. TypeOK /\ Phases /\ Flows /\ PayloadsInOrder /\ NothingStranded
  BY DEF CInv
<1>2. /\ ~linkUp
      /\ UNCHANGED <<wire, rbuf, bs, timers, ready, sent, handled, linkUp>>
      /\ \/ owner[e] = "conn" /\ owner' = [owner EXCEPT ![e] = "finished"]
         \/ owner[e] = "servent" /\ owner' = [owner EXCEPT ![e] = "deleted"]
  BY DEF Disconnected, ShutsDown
<1>3. "in" \in Ends /\ "out" \in Ends /\ \A d \in Ends : d = "in" \/ d = "out"
  BY DEF Ends
<1>4. TypeOK'
  BY <1>1, <1>2 DEF TypeOK, Owners
<1>5. PayloadsInOrder' /\ NothingStranded'
  <2>1. \A d \in Ends : owner'[d] \in {"servent", "conn"} => owner'[d] = owner[d]
    BY <1>1, <1>2 DEF TypeOK
  <2> QED BY <1>1, <1>2, <2>1 DEF PayloadsInOrder, NothingStranded
<1>6. \A d \in Ends : Pending(d)' = Pending(d)
  BY <1>2 DEF Pending
<1>7. CASE owner[e] = "conn" /\ owner' = [owner EXCEPT ![e] = "finished"]
  <2>1. /\ HandedOver' = HandedOver /\ (owner'["out"] = "none" <=> owner["out"] = "none")
        /\ \A d \in Ends : owner[d] = "deleted" => owner'[d] = "deleted"
        /\ \A d \in Ends : owner'[d] = "none" => owner[d] = "none"
        /\ owner'["out"] # "servent"
    BY <1>1, <1>3, <1>7 DEF TypeOK, HandedOver, Phases
  <2>2. Phases'
    BY <1>1, <1>2, <2>1 DEF Phases
  <2>3. \A d \in Ends : Wrote(d)' = Wrote(d) /\ Got(d)' = Got(d)
    BY <1>2, <2>1 DEF Wrote, Got
  <2>4. Flows'
    BY <1>1, <1>2, <1>6, <2>1, <2>3, FlowKept DEF Flows
  <2> QED BY <1>4, <1>5, <2>2, <2>4 DEF CInv
(* The accepted socket dies before its first message is whole. *)
<1>8. CASE owner[e] = "servent" /\ owner' = [owner EXCEPT ![e] = "deleted"]
  <2>1. e = "in"
    BY <1>1, <1>3, <1>8 DEF Phases
  <2>2. /\ owner'["in"] = "deleted" /\ owner'["out"] = owner["out"]
        /\ ~HandedOver /\ HandedOver'
    BY <1>1, <1>3, <1>8, <2>1 DEF TypeOK, HandedOver
  <2>3. ~ready["in"] /\ ~ready["out"] /\ sent["in"] = <<>>
    BY <1>1, <1>3, <2>2 DEF Phases, TypeOK
  <2>4. Phases'
    BY <1>1, <1>2, <1>3, <2>2, <2>3 DEF Phases
  <2>5. Flow("in")'
    BY <2>2 DEF Flow
  <2>6. Flow("out")'
    <3>1. <<Ready>> \o <<>> = Append(<<>>, Ready) /\ Ready \in Messages
      <4>1. Ready \in Messages
        BY HandshakeMessages
      <4>2. <<Ready>> \in Seq(Messages)
        BY <4>1
      <4>3. Append(<<>>, Ready) = <<Ready>>
        OBVIOUS
      <4> QED BY <4>1, <4>2, <4>3, ConcatEmptySeq
    <3>2. Wrote("out")' = Append(Wrote("out"), Ready) /\ Got("out")' = Got("out")
      BY <1>2, <2>2, <2>3, <3>1 DEF Wrote, Got
    <3>3. ASSUME owner["out"] # "deleted"
          PROVE  Carries(Pending("out"), Got("out"), Append(Wrote("out"), Ready), FALSE)
      <4>1. Carries(Pending("out"), Got("out"), Wrote("out"), FALSE)
        BY <1>1, <1>2, <1>3, <3>3, CarriesLess DEF Flows, Flow
      <4>2. Pending("out") \in Bytes /\ Got("out") \in Seq(Messages)
        BY <1>1, <1>3, FlowTypes
      <4>3. Carries(IF FALSE THEN Pending("out") \o Frame(Ready) ELSE Pending("out"),
                    Got("out"), Append(Wrote("out"), Ready), FALSE)
        BY <3>1, <4>1, <4>2, CarriesMore
      <4> QED BY <4>3
    <3>4. linkUp' = FALSE
      BY <1>1, <1>2 DEF TypeOK
    <3> QED BY <1>3, <1>6, <2>2, <3>2, <3>3, <3>4 DEF Flow
  <2> QED BY <1>3, <1>4, <1>5, <2>4, <2>5, <2>6 DEF CInv, Flows
<1> QED BY <1>2, <1>7, <1>8

LEMMA DeferredDeleteKeeps ==
  ASSUME CInv, NEW e \in Ends, DeferredDelete(e)
  PROVE  CInv'
<1>1. TypeOK /\ Phases /\ Flows /\ PayloadsInOrder /\ NothingStranded
  BY DEF CInv
<1>2. /\ owner[e] = "finished" /\ owner' = [owner EXCEPT ![e] = "deleted"]
      /\ timers' = [timers EXCEPT ![e] = 0]
      /\ UNCHANGED <<wire, rbuf, bs, ready, sent, handled, linkUp>>
  BY DEF DeferredDelete
<1>3. "in" \in Ends /\ "out" \in Ends
  BY DEF Ends
<1>4. TypeOK'
  BY <1>1, <1>2 DEF TypeOK, Owners
<1>5. /\ HandedOver' = HandedOver /\ (owner'["out"] = "none" <=> owner["out"] = "none")
      /\ \A d \in Ends : owner[d] = "deleted" => owner'[d] = "deleted"
      /\ \A d \in Ends : owner'[d] # "deleted" => owner'[d] = owner[d] /\ timers'[d] = timers[d]
      /\ owner'["out"] # "servent"
      /\ \A d \in Ends : timers[d] = 0 => timers'[d] = 0
  BY <1>1, <1>2, <1>3 DEF TypeOK, HandedOver, Phases
<1>6. Phases'
  BY <1>1, <1>2, <1>3, <1>5 DEF Phases
<1>7. Flows'
  <2>1. \A d \in Ends : Wrote(d)' = Wrote(d) /\ Got(d)' = Got(d) /\ Pending(d)' = Pending(d)
    BY <1>2, <1>5 DEF Wrote, Got, Pending
  <2> QED BY <1>1, <1>2, <1>5, <2>1, FlowKept DEF Flows
<1>8. PayloadsInOrder' /\ NothingStranded'
  BY <1>1, <1>2, <1>5 DEF PayloadsInOrder, NothingStranded
<1> QED BY <1>4, <1>6, <1>7, <1>8 DEF CInv

LEMMA NextCInv == CInv /\ [Next]_vars => CInv'
<1> SUFFICES ASSUME CInv, [Next]_vars PROVE CInv'
  OBVIOUS
<1>1. CASE SocketConnected
  BY <1>1, SocketConnectedKeeps
<1>2. CASE IncomingConnection
  BY <1>2, IncomingConnectionKeeps
<1>3. CASE Break
  BY <1>3, BreakKeeps
<1>4. ASSUME NEW e \in Ends, Arrive(e) PROVE CInv'
  BY <1>4, ArriveKeeps
<1>5. ASSUME NEW e \in Ends, Timeout(e) PROVE CInv'
  BY <1>5, TimeoutReads, ConnKeeps
<1>6. ASSUME NEW e \in Ends, Send(e) PROVE CInv'
  BY <1>6, SendKeeps
<1>7. ASSUME NEW e \in Ends, Disconnected(e) PROVE CInv'
  BY <1>7, DisconnectedKeeps
<1>8. ASSUME NEW e \in Ends, DeferredDelete(e) PROVE CInv'
  BY <1>8, DeferredDeleteKeeps
<1>9. CASE UNCHANGED vars
  <2>1. UNCHANGED <<wire, rbuf, bs, timers, owner, ready, sent, handled, linkUp>>
    BY <1>9 DEF vars
  <2>2. TypeOK' /\ PayloadsInOrder' /\ NothingStranded'
    BY <2>1 DEF CInv, TypeOK, PayloadsInOrder, NothingStranded
  <2>3. HandedOver' = HandedOver
    BY <2>1 DEF HandedOver
  <2>4. Phases'
    BY <2>1, <2>3 DEF CInv, Phases
  <2>5. \A d \in Ends : Wrote(d)' = Wrote(d) /\ Got(d)' = Got(d) /\ Pending(d)' = Pending(d)
    BY <2>1, <2>3 DEF Wrote, Got, Pending
  <2>6. Flows'
    BY <2>1, <2>5, FlowKept DEF CInv, Flows
  <2> QED BY <2>2, <2>4, <2>6 DEF CInv
<1> QED BY <1>1, <1>2, <1>3, <1>4, <1>5, <1>6, <1>7, <1>8, <1>9 DEF Next

-----------------------------------------------------------------------------
(* Theorems *)

LEMMA Invariant == Spec => []CInv
  BY InitCInv, NextCInv, PTL DEF Spec

(* Whatever way TCP cuts the byte stream, whichever messages the handshake   *)
(* and the upper layer use, and wherever the link breaks, handleMsg is given *)
(* a prefix of the payloads the other end sent (connection.cpp:80-123).      *)
THEOREM InOrder == Spec => []PayloadsInOrder
<1>1. CInv => PayloadsInOrder
  BY DEF CInv
<1> QED BY Invariant, <1>1, PTL

(* No readyRead slot goes to sleep on a message it could already act on,     *)
(* even the one that hands the accepted socket over with its buffer unread   *)
(* (connection.cpp:121-122, servent.cpp:163-171).                            *)
THEOREM NotStranded == Spec => []NothingStranded
<1>1. CInv => NothingStranded
  BY DEF CInv
<1> QED BY Invariant, <1>1, PTL

(* The ReadyLink a Connection is, liveness aside. *)
SafeLink == Link!Init /\ [][Link!Next]_(Link!vars)

(* A run of Connection::readyRead is a step of the ReadyLink, or none. *)
LEMMA ConnRefines ==
  ASSUME CInv, NEW e \in Ends, NEW w, NEW b, NEW t \in Nat,
         Reading(e, w, b), owner[e] \in {"conn", "finished"}, ConnReadyRead(e, w, b, t)
  PROVE  [Link!Next]_(Link!vars)
<1> DEFINE f == ReadFrame(b, bs[e])
           m == Wrote(e)[Len(Got(e)) + 1]
<1>1. sent' = sent /\ linkUp' = linkUp
  BY DEF ConnReadyRead
<1>2. UNCHANGED <<ready, handled>> \/ Took(e, w, m)
  BY ConnReads
<1> HIDE DEF m
<1>3. CASE UNCHANGED <<ready, handled>>
  BY <1>1, <1>3 DEF Link!vars
<1>4. CASE Took(e, w, m)
  <2>1. CASE /\ e = "in" /\ m = Ready2 /\ ~ready["in"] /\ ready["out"]
             /\ ready' = [ready EXCEPT !["in"] = TRUE]
             /\ wire' = [wire EXCEPT !["in"] = w]
             /\ handled' = handled
    <3>1. Link!BecomeReady("in")
      BY <1>1, <2>1 DEF Link!BecomeReady
    <3> QED BY <3>1 DEF Link!Next, Link!Ends
  <2>2. CASE /\ e = "out" /\ m = Ready /\ ~ready["out"]
             /\ ready' = [ready EXCEPT !["out"] = TRUE]
             /\ wire' = [wire EXCEPT !["out"] = w, !["in"] = Written(@, Ready2)]
             /\ handled' = handled
    <3>1. Link!BecomeReady("out")
      BY <1>1, <2>2 DEF Link!BecomeReady
    <3> QED BY <3>1 DEF Link!Next, Link!Ends
  <2>3. CASE /\ ready[e] /\ ready["out"]
             /\ m \in Payloads /\ Len(handled[e]) < Len(sent[Peer(e)])
             /\ m = sent[Peer(e)][Len(handled[e]) + 1]
             /\ handled' = [handled EXCEPT ![e] = Append(@, m)]
             /\ wire' = [wire EXCEPT ![e] = w]
             /\ ready' = ready
    <3>1. handled' = [handled EXCEPT ![e] = Append(@, sent[Peer(e)][Len(@) + 1])]
      BY <2>3 DEF CInv, TypeOK
    <3>2. Link!Peer(e) = Peer(e)
      BY DEF Link!Peer, Peer
    <3>3. Link!HandOver(e)
      BY <1>1, <2>3, <3>1, <3>2 DEF Link!HandOver
    <3> QED BY <3>3 DEF Link!Next, Link!Ends, Ends
  <2> QED BY <1>4, <2>1, <2>2, <2>3 DEF Took
<1> QED BY <1>2, <1>3, <1>4

LEMMA StepRefines == CInv /\ [Next]_vars => [Link!Next]_(Link!vars)
<1> SUFFICES ASSUME CInv, [Next]_vars PROVE [Link!Next]_(Link!vars)
  OBVIOUS
<1>1. CASE UNCHANGED <<ready, sent, handled, linkUp>>
  BY <1>1 DEF Link!vars
<1>2. CASE SocketConnected \/ IncomingConnection
  BY <1>1, <1>2 DEF SocketConnected, IncomingConnection
<1>3. CASE Break
  <2>1. Link!Break
    BY <1>3 DEF Break, Link!Break
  <2> QED BY <2>1 DEF Link!Next
<1>4. ASSUME NEW e \in Ends, Arrive(e) PROVE [Link!Next]_(Link!vars)
  <2>1. PICK n \in 1..Len(wire[e]) :
          LET w == SubSeq(wire[e], n + 1, Len(wire[e]))
              b == rbuf[e] \o SubSeq(wire[e], 1, n)
          IN  \/ owner[e] = "conn" /\ ConnReadyRead(e, w, b, timers[e])
              \/ owner[e] = "servent" /\ ServentReadyRead(w, b)
    BY <1>4 DEF Arrive
  <2> DEFINE w == SubSeq(wire[e], n + 1, Len(wire[e]))
             b == rbuf[e] \o SubSeq(wire[e], 1, n)
  <2>2. owner[e] \in {"servent", "conn"} /\ timers[e] \in Nat
    BY <2>1 DEF CInv, TypeOK
  <2>3. Reading(e, w, b)
    BY <2>2, ArriveReads DEF CInv
  <2>4. \/ owner[e] = "conn" /\ ConnReadyRead(e, w, b, timers[e])
        \/ owner[e] = "servent" /\ ServentReadyRead(w, b)
    BY <2>1
  <2> HIDE DEF w, b
  <2>5. CASE ServentReadyRead(w, b)
    BY <1>1, <2>5 DEF ServentReadyRead
  <2> QED BY <2>2, <2>3, <2>4, <2>5, ConnRefines
<1>5. ASSUME NEW e \in Ends, Timeout(e) PROVE [Link!Next]_(Link!vars)
  BY <1>5, TimeoutReads, ConnRefines
<1>6. ASSUME NEW e \in Ends, Send(e) PROVE [Link!Next]_(Link!vars)
  <2>1. Link!Send(e)
    BY <1>6 DEF Send, Link!Send
  <2> QED BY <2>1 DEF Link!Next, Link!Ends, Ends
<1>7. ASSUME NEW e \in Ends, Disconnected(e) PROVE [Link!Next]_(Link!vars)
  BY <1>1, <1>7 DEF Disconnected
<1>8. ASSUME NEW e \in Ends, DeferredDelete(e) PROVE [Link!Next]_(Link!vars)
  BY <1>1, <1>8 DEF DeferredDelete
<1>9. CASE UNCHANGED vars
  BY <1>1, <1>9 DEF vars
<1> QED BY <1>2, <1>3, <1>4, <1>5, <1>6, <1>7, <1>8, <1>9 DEF Next

(* A Connection is a ReadyLink: each end becomes ready once, the dialling    *)
(* end first, only a ready end sends or is handed a payload, and what it is  *)
(* handed next is the next thing the other end sent.  The run "connection"   *)
(* checks this together with the liveness of the ReadyLink.                  *)
THEOREM Refinement == Spec => SafeLink
<1>1. Init => Link!Init
  BY DEF Init, Link!Init, Ends, Link!Ends
<1> QED BY <1>1, Invariant, StepRefines, PTL DEF Spec, SafeLink
=============================================================================
