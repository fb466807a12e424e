-------------------------- MODULE TraceViewProofs --------------------------
(***************************************************************************)
(* Proofs about the viewer and the bytes it gets its events from: for      *)
(* bytes of any size from 4 values up (a real one has 256), any addresses, *)
(* lengths of names and stacks, widths, scroll positions and bounds.       *)
(***************************************************************************)
EXTENDS TraceView, SumTheorems

-----------------------------------------------------------------------------
(* Numbers.                                                                *)

(* The powers of a byte.                                                   *)
LEMMA Powers ==
    /\ Power[0] = 1
    /\ \A n \in 1..8 : Power[n] = Base * Power[n - 1]
<1> DEFINE IsPower(f) == f = [n \in 0..8 |-> IF n = 0 THEN 1 ELSE Base * f[n - 1]]
           Bad == {k \in Nat : ~\E f : f = [n \in 0..k |-> IF n = 0 THEN 1 ELSE Base * f[n - 1]]}
<1>1. ASSUME Bad # {} PROVE FALSE
  <2>1. PICK k \in Bad : \A j \in Bad : k <= j
    BY <1>1, LeastNatural
  <2>2. CASE k = 0
    <3> DEFINE f == [n \in 0..0 |-> 1]
    <3>1. f = [n \in 0..0 |-> IF n = 0 THEN 1 ELSE Base * f[n - 1]]
      OBVIOUS
    <3> QED
      BY <2>1, <2>2, <3>1
  <2>3. CASE k # 0
    <3>0. k \in Nat /\ k - 1 \in Nat /\ ~(k <= k - 1)
      BY <2>3
    <3>1. k \in Nat /\ k - 1 \in Nat /\ k - 1 \notin Bad
      <4> HIDE DEF Bad
      <4> QED
        BY <2>1, <3>0
    <3>2. PICK f : f = [n \in 0..(k - 1) |-> IF n = 0 THEN 1 ELSE Base * f[n - 1]]
      BY <3>1
    <3> DEFINE g == [n \in 0..k |-> IF n = k THEN Base * f[k - 1] ELSE f[n]]
    <3>3. \A n \in 0..(k - 1) : f[n] = IF n = 0 THEN 1 ELSE Base * f[n - 1]
      BY <3>2
    <3>4. ASSUME NEW n \in 0..k
          PROVE  g[n] = IF n = 0 THEN 1 ELSE Base * g[n - 1]
      <4>1. CASE n = k
        <5>1. g[k] = Base * f[k - 1] /\ g[k - 1] = f[k - 1]
          BY <3>1
        <5> QED
          BY <2>3, <4>1, <5>1
      <4>2. CASE n # k /\ n # 0
        <5>1. n \in 0..(k - 1) /\ n - 1 \in 0..(k - 1) /\ n - 1 \in 0..k /\ n - 1 # k
          BY <3>1, <4>2
        <5>2. g[n] = f[n] /\ g[n - 1] = f[n - 1]
          BY <4>2, <5>1
        <5> QED
          BY <3>3, <4>2, <5>1, <5>2
      <4>3. CASE n = 0
        <5>1. g[0] = f[0] /\ f[0] = 1
          BY <2>3, <3>1, <3>3
        <5> QED
          BY <4>3, <5>1
      <4> QED
        BY <4>1, <4>2, <4>3
    <3>5. g = [n \in 0..k |-> IF n = 0 THEN 1 ELSE Base * g[n - 1]]
      <4>1. g = [n \in 0..k |-> g[n]]
        OBVIOUS
      <4> HIDE DEF g
      <4> QED
        BY <3>4, <4>1
    <3> QED
      BY <2>1, <3>5
  <2> QED
    BY <2>2, <2>3
<1>2. 8 \notin Bad
  BY <1>1
<1>3. \E f : IsPower(f)
  BY <1>2
<1>4. Power = CHOOSE f : IsPower(f)
  BY DEF Power
<1>5. IsPower(Power)
  BY <1>3, <1>4
<1> QED
  BY <1>5

(* They are positive numbers.                                              *)
LEMMA PowerNat ==
    ASSUME NEW n \in 0..8
    PROVE  Power[n] \in Nat \ {0}
<1> DEFINE Bad == {k \in 0..8 : Power[k] \notin Nat \ {0}}
<1>1. ASSUME Bad # {} PROVE FALSE
  <2>1. PICK k \in Bad : \A j \in Bad : k <= j
    BY <1>1, LeastNatural
  <2>2. k # 0
    BY <2>1, Powers
  <2>3. k \in 1..8 /\ k - 1 \in 0..8 /\ k - 1 \notin Bad
    BY <2>1, <2>2
  <2>4. Power[k - 1] \in Nat \ {0} /\ Power[k] = Base * Power[k - 1]
    BY <2>3, Powers
  <2>5. \A x \in Nat \ {0}, y \in Nat \ {0} : x * y \in Nat \ {0}
    OBVIOUS
  <2>6. Base \in Nat \ {0}
    BY BaseAssumption
  <2> QED
    BY <2>1, <2>4, <2>5, <2>6
<1> QED
  BY <1>1

(* The function low of ReadFixed.                                          *)
IsLow(f, buf, p, n) ==
    f = [i \in 0..n |-> IF i = 0 THEN 0 ELSE f[i - 1] + buf[p + i] * Power[i - 1]]

(* There is such a function.                                               *)
LEMMA LowExists ==
    ASSUME NEW buf, NEW p, NEW n \in Nat
    PROVE  \E f : IsLow(f, buf, p, n)
<1> DEFINE Bad == {k \in Nat : ~\E f : IsLow(f, buf, p, k)}
<1>1. ASSUME Bad # {} PROVE FALSE
  <2>1. PICK k \in Bad : \A j \in Bad : k <= j
    BY <1>1, LeastNatural
  <2>2. CASE k = 0
    <3> DEFINE f == [i \in 0..0 |-> 0]
    <3>1. IsLow(f, buf, p, 0)
      BY DEF IsLow
    <3> QED
      BY <2>1, <2>2, <3>1
  <2>3. CASE k # 0
    <3>1. k \in Nat /\ k - 1 \in Nat /\ ~(k <= k - 1)
      BY <2>3
    <3>2. k - 1 \notin Bad
      <4> HIDE DEF Bad
      <4> QED
        BY <2>1, <3>1
    <3>3. PICK f : IsLow(f, buf, p, k - 1)
      BY <3>1, <3>2
    <3>4. \A i \in 0..(k - 1) : f[i] = IF i = 0 THEN 0 ELSE f[i - 1] + buf[p + i] * Power[i - 1]
      BY <3>3 DEF IsLow
    <3> DEFINE g == [i \in 0..k |-> IF i = k THEN f[k - 1] + buf[p + k] * Power[k - 1] ELSE f[i]]
    <3>5. ASSUME NEW i \in 0..k
          PROVE  g[i] = IF i = 0 THEN 0 ELSE g[i - 1] + buf[p + i] * Power[i - 1]
      <4>1. CASE i = k
        <5>1. g[k] = f[k - 1] + buf[p + k] * Power[k - 1] /\ g[k - 1] = f[k - 1]
          BY <3>1
        <5> QED
          BY <2>3, <4>1, <5>1
      <4>2. CASE i # k /\ i # 0
        <5>1. i \in 0..(k - 1) /\ i - 1 \in 0..k /\ i - 1 # k
          BY <3>1, <4>2
        <5>2. g[i] = f[i] /\ g[i - 1] = f[i - 1]
          BY <4>2, <5>1
        <5> QED
          BY <3>4, <4>2, <5>1, <5>2
      <4>3. CASE i = 0
        <5>1. g[0] = f[0] /\ f[0] = 0
          BY <2>3, <3>1, <3>4
        <5> QED
          BY <4>3, <5>1
      <4> QED
        BY <4>1, <4>2, <4>3
    <3>6. IsLow(g, buf, p, k)
      <4>1. g = [i \in 0..k |-> g[i]]
        OBVIOUS
      <4> HIDE DEF g
      <4> QED
        BY <3>5, <4>1 DEF IsLow
    <3> QED
      BY <2>1, <3>6
  <2> QED
    BY <2>2, <2>3
<1> QED
  BY <1>1

(* The remainder of a division.                                            *)
LEMMA Remainder ==
    ASSUME NEW v \in Nat, NEW p \in Nat \ {0}, NEW q \in Nat, NEW r \in 0..(p - 1),
           v = q * p + r
    PROVE  v % p = r
OBVIOUS

(* The digit in place P adds itself to what is below it.                   *)
LEMMA AddDigit ==
    ASSUME NEW v \in Nat, NEW P \in Nat \ {0}, NEW B \in Nat \ {0}
    PROVE  v % (B * P) = (v % P) + ((v \div P) % B) * P
<1> DEFINE q == v \div P
           r == v % P
           t == q \div B
           d == q % B
<1>1. v = q * P + r /\ r \in 0..(P - 1) /\ q \in Nat
  OBVIOUS
<1>2. q = t * B + d /\ d \in 0..(B - 1) /\ t \in Nat
  <2> HIDE DEF q
  <2> QED
    BY <1>1
<1> HIDE DEF q, r, t, d
<1>3. B * P \in Nat \ {0}
  OBVIOUS
<1>4. v = t * (B * P) + (r + d * P)
  <2>1. q * P = (t * B) * P + d * P
    BY <1>1, <1>2
  <2>2. (t * B) * P = t * (B * P)
    BY <1>2
  <2>3. (t * B) * P \in Nat /\ d * P \in Nat /\ q * P \in Nat
    BY <1>1, <1>2
  <2> QED
    BY <1>1, <1>2, <2>1, <2>2, <2>3
<1>5. r + d * P \in 0..(B * P - 1)
  <2>1. d * P <= (B - 1) * P
    BY <1>2
  <2>2. (B - 1) * P = B * P - P
    OBVIOUS
  <2>3. d * P \in Nat
    BY <1>2
  <2> QED
    BY <1>1, <1>3, <2>1, <2>2, <2>3
<1>6. v % (B * P) = r + d * P
  <2> DEFINE Q == B * P
             c == r + d * P
  <2>1. Q \in Nat \ {0} /\ v = t * Q + c /\ c \in 0..(Q - 1) /\ t \in Nat
    BY <1>2, <1>3, <1>4, <1>5
  <2> HIDE DEF Q, c
  <2>2. v % Q = c
    BY <2>1, Remainder
  <2> QED
    BY <2>2 DEF Q, c
<1> QED
  BY <1>6 DEF q, r, t, d

(* memory_reader::read returns the number memory_writer::write has put     *)
(* into n bytes that hold it.                                              *)
LEMMA FixedRead ==
    ASSUME NEW buf, NEW p \in Nat, NEW n \in 1..8, NEW v \in Nat, v < Power[n],
           Len(buf) \in Nat, p + n <= Len(buf),
           \A i \in 1..n : buf[p + i] = Fixed(v, n)[i]
    PROVE  ReadFixed(buf, p, n) = [ok |-> TRUE, value |-> v, pos |-> p + n]
<1> DEFINE low == CHOOSE f : IsLow(f, buf, p, n)
<1>1. IsLow(low, buf, p, n)
  BY LowExists
<1>2. ~(p + n > Len(buf))
  OBVIOUS
<1>3. ReadFixed(buf, p, n) = [ok |-> TRUE, value |-> low[n], pos |-> p + n]
  BY <1>2 DEF ReadFixed, IsLow
<1> HIDE DEF low
<1>4. /\ low[0] = 0
      /\ \A i \in 1..n : low[i] = low[i - 1] + buf[p + i] * Power[i - 1]
  BY <1>1 DEF IsLow
<1> DEFINE Bad == {k \in 0..n : low[k] # v % Power[k]}
<1>5. ASSUME Bad # {} PROVE FALSE
  <2>0. Bad \subseteq Nat
    OBVIOUS
  <2>1. PICK k \in Bad : \A j \in Bad : k <= j
    <3> HIDE DEF Bad
    <3> QED
      BY <1>5, <2>0, LeastNatural
  <2>2. k # 0
    BY <2>1, <1>4, Powers
  <2>3. k \in 1..n /\ k \in 1..8 /\ k - 1 \in 0..n /\ k - 1 \in 0..8 /\ k - 1 \notin Bad
    BY <2>1, <2>2
  <2> DEFINE P == Power[k - 1]
  <2>4. P \in Nat \ {0} /\ Power[k] = Base * P /\ low[k - 1] = v % P
    BY <2>3, Powers, PowerNat
  <2>5. buf[p + k] = (v \div P) % Base
    BY <2>3 DEF Fixed
  <2>6. low[k] = low[k - 1] + buf[p + k] * P
    BY <1>4, <2>3
  <2>7. low[k] # v % Power[k]
    BY <2>1
  <2> HIDE DEF P
  <2>8. Base \in Nat \ {0}
    BY BaseAssumption
  <2>9. v % (Base * P) = (v % P) + ((v \div P) % Base) * P
    BY <2>4, <2>8, AddDigit
  <2> QED
    BY <2>4, <2>5, <2>6, <2>7, <2>9
<1>6. low[n] = v % Power[n]
  BY <1>5
<1>7. v % Power[n] = v
  <2> DEFINE P == Power[n]
  <2>0. P \in Nat \ {0} /\ v < P
    <3>1. n \in 0..8
      OBVIOUS
    <3> QED
      BY <3>1, PowerNat
  <2> HIDE DEF P
  <2>1. P \in Nat \ {0} /\ v \in 0..(P - 1) /\ v = 0 * P + v
    BY <2>0
  <2>2. v % P = v
    BY <2>1, Remainder
  <2> QED
    BY <2>2 DEF P
<1> QED
  BY <1>3, <1>6, <1>7

(* A number is n bytes.                                                    *)
LEMMA FixedType ==
    ASSUME NEW v \in Nat, NEW n \in 1..8
    PROVE  Fixed(v, n) \in Seq(Int) /\ Len(Fixed(v, n)) = n
<1>1. \A i \in 1..n : (v \div Power[i - 1]) % Base \in Int
  <2> TAKE i \in 1..n
  <2> DEFINE P == Power[i - 1]
  <2>1. P \in Nat \ {0} /\ Base \in Nat \ {0}
    BY PowerNat, BaseAssumption
  <2> HIDE DEF P
  <2>2. v \div P \in Nat
    BY <2>1
  <2>3. (v \div P) % Base \in Int
    BY <2>1, <2>2
  <2> QED
    BY <2>3 DEF P
<1>2. Fixed(v, n) \in [1..n -> Int]
  BY <1>1 DEF Fixed
<1> QED
  BY <1>2

(* One byte is read as it is.                                              *)
LEMMA ByteRead ==
    ASSUME NEW buf, NEW p \in Nat, NEW b \in 0..(Base - 1), Len(buf) \in Nat, p + 1 <= Len(buf),
           buf[p + 1] = b
    PROVE  ReadFixed(buf, p, 1) = [ok |-> TRUE, value |-> b, pos |-> p + 1]
<1>1. Base \in Nat \ {0} /\ b \in Nat
  BY BaseAssumption
<1>2. Power[0] = 1 /\ Power[1] = Base
  BY <1>1, Powers
<1>3. b \div 1 = b /\ b % Base = b
  BY <1>1
<1>4. \A i \in 1..1 : buf[p + i] = Fixed(b, 1)[i]
  BY <1>2, <1>3 DEF Fixed
<1>5. b < Power[1]
  BY <1>1, <1>2
<1> QED
  BY <1>1, <1>4, <1>5, FixedRead

(* A marker in front of a number.                                          *)
LEMMA Prefixed ==
    ASSUME NEW b \in Int, NEW s \in Seq(Int)
    PROVE  /\ <<b>> \o s \in Seq(Int) /\ Len(<<b>> \o s) = 1 + Len(s)
           /\ (<<b>> \o s)[1] = b /\ \A i \in 1..Len(s) : (<<b>> \o s)[1 + i] = s[i]
OBVIOUS

(* The limits of the encodings.                                            *)
LEMMA Limits ==
    /\ OneByte \in Nat /\ TwoBytes \in Nat /\ FourBytes \in Nat
    /\ Base \in Nat /\ Base >= 4 /\ OneByte = Base - 3
    /\ TwoBytes < Power[2] /\ FourBytes < Power[4]
    /\ OneByte <= TwoBytes
<1>1. Base \in Nat /\ Base >= 4
  BY BaseAssumption
<1>2. Power[0] = 1 /\ Power[1] = Base /\ Power[2] = Base * Base
  BY <1>1, Powers
<1>3. Base * Base >= Base
  BY <1>1
<1>4. Power[2] \in Nat \ {0} /\ Power[4] \in Nat \ {0}
  BY PowerNat
<1> QED
  BY <1>1, <1>2, <1>3, <1>4 DEF OneByte, TwoBytes, FourBytes

(* Which marker stands in front of how many bytes.                         *)
Marks(b, n) ==
    (n = 2 /\ b = Base - 3) \/ (n = 4 /\ b = Base - 2) \/ (n = 8 /\ b = Base - 1)

(* The buffer buf has the bytes of s after position p.                     *)
Holds(buf, p, s) ==
    /\ Len(buf) \in Nat /\ p \in Nat /\ p + Len(s) <= Len(buf)
    /\ \A i \in 1..Len(s) : buf[p + i] = s[i]

(* A number of a message is read from where it is.                         *)
LEMMA NumberRead ==
    ASSUME NEW v \in Nat, NEW n \in 1..8, v < Power[n], NEW buf, NEW p, Holds(buf, p, Fixed(v, n))
    PROVE  ReadFixed(buf, p, n) = [ok |-> TRUE, value |-> v, pos |-> p + n]
<1>1. Len(Fixed(v, n)) = n
  BY FixedType
<1> DEFINE s == Fixed(v, n)
<1>2. Len(s) = n /\ Holds(buf, p, s)
  BY <1>1
<1>3. /\ Len(buf) \in Nat /\ p \in Nat /\ p + n <= Len(buf)
      /\ \A i \in 1..n : buf[p + i] = s[i]
  <2> HIDE DEF s
  <2> QED
    BY <1>2 DEF Holds
<1> QED
  BY <1>3, FixedRead

(* A number behind a marker is read.                                       *)
LEMMA MarkedRead ==
    ASSUME NEW buf, NEW p \in Nat, NEW n, NEW b, NEW v \in Nat, Marks(b, n), v < Power[n],
           Holds(buf, p, <<b>> \o Fixed(v, n))
    PROVE  ReadVarint(buf, p) = [ok |-> TRUE, value |-> v, pos |-> p + (1 + n)]
<1>1. Base \in Nat /\ Base >= 4 /\ b \in 0..(Base - 1) /\ n \in 1..8 /\ b \in Int
  BY BaseAssumption DEF Marks
<1>2. Fixed(v, n) \in Seq(Int) /\ Len(Fixed(v, n)) = n
  BY <1>1, FixedType
<1>3. /\ Len(buf) \in Nat /\ p \in Nat /\ p + (1 + n) <= Len(buf)
      /\ buf[p + 1] = b
      /\ \A i \in 1..n : buf[p + (1 + i)] = Fixed(v, n)[i]
  <2> DEFINE s == Fixed(v, n)
             t == <<b>> \o s
  <2>1. Holds(buf, p, t) /\ s \in Seq(Int) /\ Len(s) = n
    BY <1>2
  <2> HIDE DEF s
  <2>2. t[1] = b /\ Len(t) = 1 + n /\ \A i \in 1..n : t[1 + i] = s[i]
    BY <1>1, <2>1, Prefixed
  <2> HIDE DEF t
  <2>3. /\ Len(buf) \in Nat /\ p \in Nat /\ p + (1 + n) <= Len(buf)
        /\ \A i \in 1..(1 + n) : buf[p + i] = t[i]
    BY <2>1, <2>2 DEF Holds
  <2>4. 1 \in 1..(1 + n) /\ \A i \in 1..n : 1 + i \in 1..(1 + n)
    BY <1>1
  <2> QED
    BY <2>2, <2>3, <2>4 DEF s
<1> DEFINE first == [ok |-> TRUE, value |-> b, pos |-> p + 1]
<1>4. ReadFixed(buf, p, 1) = first
  <2>1. p + 1 <= Len(buf)
    BY <1>1, <1>3
  <2> QED
    BY <1>1, <1>3, <2>1, ByteRead
<1>5. Holds(buf, p + 1, Fixed(v, n))
  <2> DEFINE s == Fixed(v, n)
  <2>1. p + 1 \in Nat /\ (p + 1) + n <= Len(buf) /\ Len(s) = n
    BY <1>1, <1>2, <1>3
  <2>2. \A i \in 1..n : buf[(p + 1) + i] = s[i]
    <3> TAKE i \in 1..n
    <3>1. p + (1 + i) = (p + 1) + i
      BY <1>1
    <3> QED
      BY <1>3, <3>1
  <2> HIDE DEF s
  <2>3. Holds(buf, p + 1, s)
    BY <1>3, <2>1, <2>2 DEF Holds
  <2> QED
    BY <2>3 DEF s
<1>6. ReadFixed(buf, p + 1, n) = [ok |-> TRUE, value |-> v, pos |-> (p + 1) + n]
  BY <1>1, <1>5, NumberRead
<1>7. ~(b < OneByte)
  BY <1>1 DEF OneByte, Marks
<1>8. Marked(buf, first) = ReadFixed(buf, p + 1, n)
  <2>1. Marked(buf, first) = ReadFixed(buf, p + 1, CASE b = Base - 3 -> 2
                                                     [] b = Base - 2 -> 4
                                                     [] b = Base - 1 -> 8)
    BY <1>7 DEF Marked
  <2>2. (CASE b = Base - 3 -> 2 [] b = Base - 2 -> 4 [] b = Base - 1 -> 8) = n
    BY <1>1 DEF Marks
  <2> QED
    BY <2>1, <2>2
<1>9. (p + 1) + n = p + (1 + n)
  BY <1>1
<1> QED
  BY <1>4, <1>6, <1>8, <1>9 DEF ReadVarint

(* Which encoding write_varint chooses, and that it fits.                  *)
LEMMA VarintForm ==
    ASSUME NEW v \in Nat, v < Power[8]
    PROVE  \/ v \in 0..(OneByte - 1) /\ Varint(v) = <<v>>
           \/ \E n, b : Marks(b, n) /\ v < Power[n] /\ Varint(v) = <<b>> \o Fixed(v, n)
<1>1. CASE IsShort(v)
  <2>1. ~(v >= TwoBytes) /\ v < OneByte
    BY <1>1, Limits DEF IsShort
  <2> QED
    BY <1>1, <2>1, Limits DEF Varint
<1>2. CASE ~IsShort(v) /\ v < TwoBytes
  <2>1. ~(v >= TwoBytes) /\ v < Power[2]
    BY <1>2, Limits, PowerNat
  <2>2. Varint(v) = <<Base - 3>> \o Fixed(v, 2)
    BY <1>2, <2>1 DEF Varint
  <2>3. Marks(Base - 3, 2)
    BY DEF Marks
  <2> QED
    BY <2>1, <2>2, <2>3
<1>3. CASE v >= TwoBytes /\ v < FourBytes
  <2>1. ~(v < TwoBytes) /\ ~IsShort(v) /\ v < Power[4]
    BY <1>3, Limits, PowerNat DEF IsShort
  <2>2. Varint(v) = <<Base - 2>> \o Fixed(v, 4)
    BY <1>3, <2>1 DEF Varint
  <2>3. Marks(Base - 2, 4)
    BY DEF Marks
  <2> QED
    BY <2>1, <2>2, <2>3
<1>4. CASE v >= TwoBytes /\ ~(v < FourBytes)
  <2>1. ~(v < TwoBytes) /\ ~IsShort(v)
    BY <1>4, Limits DEF IsShort
  <2>2. Varint(v) = <<Base - 1>> \o Fixed(v, 8)
    BY <1>4, <2>1 DEF Varint
  <2>3. Marks(Base - 1, 8)
    BY DEF Marks
  <2> QED
    BY <2>2, <2>3
<1>5. v < TwoBytes \/ v >= TwoBytes
  BY Limits
<1> QED
  BY <1>1, <1>2, <1>3, <1>4, <1>5

(* read_varint returns what write_varint has written.                      *)
LEMMA VarintRead ==
    ASSUME NEW v \in Nat, v < Power[8], NEW buf, NEW p, Holds(buf, p, Varint(v))
    PROVE  ReadVarint(buf, p) = [ok |-> TRUE, value |-> v, pos |-> p + Len(Varint(v))]
<1>1. p \in Nat /\ Len(buf) \in Nat
  BY DEF Holds
<1>2. CASE v \in 0..(OneByte - 1) /\ Varint(v) = <<v>>
  <2>1. v \in 0..(Base - 1) /\ v < OneByte
    BY <1>2, Limits
  <2>2. p + 1 <= Len(buf) /\ buf[p + 1] = v /\ Len(Varint(v)) = 1
    BY <1>2 DEF Holds
  <2>3. ReadFixed(buf, p, 1) = [ok |-> TRUE, value |-> v, pos |-> p + 1]
    BY <1>1, <2>1, <2>2, ByteRead
  <2> DEFINE first == [ok |-> TRUE, value |-> v, pos |-> p + 1]
  <2>4. Marked(buf, first) = first
    BY <2>1 DEF Marked
  <2>5. ReadVarint(buf, p) = first
    BY <2>3, <2>4 DEF ReadVarint
  <2> QED
    BY <2>2, <2>5
<1>3. CASE \E n, b : Marks(b, n) /\ v < Power[n] /\ Varint(v) = <<b>> \o Fixed(v, n)
  <2>1. PICK n, b : Marks(b, n) /\ v < Power[n] /\ Varint(v) = <<b>> \o Fixed(v, n)
    BY <1>3
  <2>2. n \in 1..8 /\ b \in Int
    BY <2>1, Limits DEF Marks
  <2>3. Fixed(v, n) \in Seq(Int) /\ Len(Fixed(v, n)) = n
    BY <2>2, FixedType
  <2>4. Len(Varint(v)) = 1 + n
    BY <2>1, <2>2, <2>3, Prefixed
  <2>5. Holds(buf, p, <<b>> \o Fixed(v, n))
    BY <2>1
  <2>6. ReadVarint(buf, p) = [ok |-> TRUE, value |-> v, pos |-> p + (1 + n)]
    BY <1>1, <2>1, <2>5, MarkedRead
  <2> QED
    BY <2>4, <2>6
<1> QED
  BY <1>2, <1>3, VarintForm

(* Bytes after bytes are bytes.                                            *)
LEMMA Concatenated ==
    ASSUME NEW s \in Seq(Int), NEW t \in Seq(Int)
    PROVE  s \o t \in Seq(Int) /\ Len(s \o t) = Len(s) + Len(t)
OBVIOUS

(* A buffer that holds one string of bytes after another holds both.       *)
LEMMA HoldsParts ==
    ASSUME NEW buf, NEW p, NEW s \in Seq(Int), NEW t \in Seq(Int), Holds(buf, p, s \o t),
           NEW q, q = p + Len(s)
    PROVE  Holds(buf, p, s) /\ Holds(buf, q, t)
<1>1. Len(s \o t) = Len(s) + Len(t) /\ Len(s) \in Nat /\ Len(t) \in Nat
  OBVIOUS
<1>2. p \in Nat /\ Len(buf) \in Nat /\ p + (Len(s) + Len(t)) <= Len(buf)
  BY <1>1 DEF Holds
<1>3. \A i \in 1..(Len(s) + Len(t)) : buf[p + i] = (s \o t)[i]
  BY <1>1 DEF Holds
<1>4. ASSUME NEW i \in 1..Len(s) PROVE buf[p + i] = s[i]
  <2>1. i \in 1..(Len(s) + Len(t)) /\ (s \o t)[i] = s[i]
    BY <1>1
  <2> QED
    BY <1>3, <2>1
<1>5. ASSUME NEW i \in 1..Len(t) PROVE buf[(p + Len(s)) + i] = t[i]
  <2>1. Len(s) + i \in 1..(Len(s) + Len(t)) /\ p + (Len(s) + i) = (p + Len(s)) + i
    BY <1>1, <1>2
  <2>2. (s \o t)[Len(s) + i] = t[i]
    BY <1>1
  <2> QED
    BY <1>3, <2>1, <2>2
<1> QED
  BY <1>1, <1>2, <1>4, <1>5 DEF Holds

(* write_varint writes bytes.                                              *)
LEMMA VarintType ==
    ASSUME NEW v \in Nat, v < Power[8]
    PROVE  Varint(v) \in Seq(Int)
<1>1. CASE v \in 0..(OneByte - 1) /\ Varint(v) = <<v>>
  BY <1>1
<1>2. CASE \E n, b : Marks(b, n) /\ v < Power[n] /\ Varint(v) = <<b>> \o Fixed(v, n)
  <2>1. PICK n, b : Marks(b, n) /\ v < Power[n] /\ Varint(v) = <<b>> \o Fixed(v, n)
    BY <1>2
  <2>2. n \in 1..8 /\ b \in Int
    BY <2>1, Limits DEF Marks
  <2> QED
    BY <2>1, <2>2, FixedType, Prefixed
<1> QED
  BY <1>1, <1>2, VarintForm

(* read_string returns the length of the string that write_string has      *)
(* written, and leaves it behind.                                          *)
LEMMA TextRead ==
    ASSUME NEW v \in Nat, v < Power[8], NEW buf, NEW p, Holds(buf, p, Text(v))
    PROVE  ReadText(buf, p) = [ok |-> TRUE, value |-> v, pos |-> p + Len(Text(v))]
<1> DEFINE s == Varint(v)
           t == [i \in 1..v |-> 0]
<1>1. s \in Seq(Int) /\ t \in Seq(Int) /\ Len(t) = v
  BY VarintType
<1>2. Text(v) = s \o t
  BY DEF Text
<1>3. Len(buf) \in Nat /\ p \in Nat /\ p + Len(Text(v)) <= Len(buf)
  BY DEF Holds
<1>4. Holds(buf, p, s)
  <2> HIDE DEF s, t
  <2> QED
    BY <1>1, <1>2, HoldsParts
<1>5. ReadVarint(buf, p) = [ok |-> TRUE, value |-> v, pos |-> p + Len(s)]
  BY <1>4, VarintRead
<1> HIDE DEF s, t
<1>6. Len(Text(v)) = Len(s) + v /\ Len(s) \in Nat
  <2>1. Len(s \o t) = Len(s) + Len(t) /\ Len(s) \in Nat
    BY <1>1
  <2> QED
    BY <1>1, <1>2, <2>1
<1> DEFINE len == [ok |-> TRUE, value |-> v, pos |-> p + Len(s)]
<1>7. (p + Len(s)) + v = p + Len(Text(v)) /\ ~((p + Len(s)) + v > Len(buf))
  BY <1>3, <1>6
<1>8. Characters(buf, len) = [ok |-> TRUE, value |-> v, pos |-> (p + Len(s)) + v]
  BY <1>7 DEF Characters
<1> QED
  BY <1>5, <1>7, <1>8 DEF ReadText

-----------------------------------------------------------------------------
(* Messages.                                                               *)

(* The function read of Decode.                                            *)
IsRead(f, fields, buf, n) ==
    f = [i \in 0..n |-> IF i = 0 THEN NotRead(0) ELSE ReadField(fields[i], buf, f[i - 1].pos)]

(* There is such a function.                                               *)
LEMMA ReadExists ==
    ASSUME NEW fields, NEW buf, NEW n \in Nat
    PROVE  \E f : IsRead(f, fields, buf, n)
<1> DEFINE Bad == {k \in Nat : ~\E f : IsRead(f, fields, buf, k)}
<1>1. ASSUME Bad # {} PROVE FALSE
  <2>1. PICK k \in Bad : \A j \in Bad : k <= j
    BY <1>1, LeastNatural
  <2>2. CASE k = 0
    <3> DEFINE f == [i \in 0..0 |-> NotRead(0)]
    <3>1. IsRead(f, fields, buf, 0)
      BY DEF IsRead
    <3> QED
      BY <2>1, <2>2, <3>1
  <2>3. CASE k # 0
    <3>1. k \in Nat /\ k - 1 \in Nat /\ ~(k <= k - 1)
      BY <2>3
    <3>2. k - 1 \notin Bad
      <4> HIDE DEF Bad
      <4> QED
        BY <2>1, <3>1
    <3>3. PICK f : IsRead(f, fields, buf, k - 1)
      BY <3>1, <3>2
    <3>4. \A i \in 0..(k - 1) :
              f[i] = IF i = 0 THEN NotRead(0) ELSE ReadField(fields[i], buf, f[i - 1].pos)
      BY <3>3 DEF IsRead
    <3> DEFINE g == [i \in 0..k |-> IF i = k THEN ReadField(fields[k], buf, f[k - 1].pos)
                                             ELSE f[i]]
    <3>5. ASSUME NEW i \in 0..k
          PROVE  g[i] = IF i = 0 THEN NotRead(0) ELSE ReadField(fields[i], buf, g[i - 1].pos)
      <4>1. CASE i = k
        <5>1. g[k] = ReadField(fields[k], buf, f[k - 1].pos) /\ g[k - 1] = f[k - 1]
          BY <3>1
        <5> QED
          BY <2>3, <4>1, <5>1
      <4>2. CASE i # k /\ i # 0
        <5>1. i \in 0..(k - 1) /\ i - 1 \in 0..k /\ i - 1 # k
          BY <3>1, <4>2
        <5>2. g[i] = f[i] /\ g[i - 1] = f[i - 1]
          BY <4>2, <5>1
        <5> QED
          BY <3>4, <4>2, <5>1, <5>2
      <4>3. CASE i = 0
        <5>1. g[0] = f[0] /\ f[0] = NotRead(0)
          BY <2>3, <3>1, <3>4
        <5> QED
          BY <4>3, <5>1
      <4> QED
        BY <4>1, <4>2, <4>3
    <3>6. IsRead(g, fields, buf, k)
      <4>1. g = [i \in 0..k |-> g[i]]
        OBVIOUS
      <4> HIDE DEF g
      <4> QED
        BY <3>5, <4>1 DEF IsRead
    <3> QED
      BY <2>1, <3>6
  <2> QED
    BY <2>2, <2>3
<1> QED
  BY <1>1

(* An event whose numbers have their width.                                *)
Fits(e) ==
    /\ e = [kind |-> e.kind, frame |-> e.frame, addr |-> e.addr, size |-> e.size,
            name |-> e.name, stack |-> e.stack]
    /\ e.kind \in {"alloc", "free"}
    /\ e.frame \in Nat /\ e.frame < Power[8] /\ e.addr \in Nat /\ e.addr < Power[8]
    /\ e.size \in Nat /\ e.size < Power[4]
    /\ e.name \in Nat /\ e.name < Power[8] /\ e.stack \in Nat /\ e.stack < Power[8]
    /\ e.kind = "free" => e.name = 0 /\ e.stack = 0

(* write_string writes bytes.                                              *)
LEMMA TextType ==
    ASSUME NEW v \in Nat, v < Power[8]
    PROVE  Text(v) \in Seq(Int)
<1>1. Varint(v) \in Seq(Int) /\ [i \in 1..v |-> 0] \in Seq(Int)
  BY VarintType
<1> QED
  BY <1>1 DEF Text

(* Where the numbers of a message are, and what is after them.             *)
LEMMA Layout ==
    ASSUME NEW e, Fits(e)
    PROVE  LET buf == Encode(e)
           IN  /\ Holds(buf, 0, Fixed(e.frame, 8)) /\ Holds(buf, 8, Fixed(e.addr, 8))
               /\ Holds(buf, 16, Fixed(e.size, 4))
               /\ e.kind = "alloc" => /\ Holds(buf, 20, Text(e.name))
                                      /\ Holds(buf, 20 + Len(Text(e.name)), Text(e.stack))
<1> DEFINE A == Fixed(e.frame, 8)
           B == Fixed(e.addr, 8)
           C == Fixed(e.size, 4)
           T == Text(e.name)
           U == Text(e.stack)
           D == IF e.kind = "alloc" THEN T \o U ELSE << >>
           buf == Encode(e)
<1>1. /\ A \in Seq(Int) /\ Len(A) = 8 /\ B \in Seq(Int) /\ Len(B) = 8
      /\ C \in Seq(Int) /\ Len(C) = 4
  BY FixedType DEF Fits
<1>2. T \in Seq(Int) /\ U \in Seq(Int)
  BY TextType DEF Fits
<1>3. buf = ((A \o B) \o C) \o D
  BY DEF Encode
<1>4. e.kind = "alloc" => D = T \o U
  OBVIOUS
<1>5. D \in Seq(Int)
  <2> HIDE DEF T, U
  <2> QED
    BY <1>2
<1> HIDE DEF A, B, C, D, T, U, buf
<1> DEFINE AB == A \o B
           ABC == AB \o C
<1>6. AB \in Seq(Int) /\ Len(AB) = 16
  <2>1. AB \in Seq(Int) /\ Len(AB) = Len(A) + Len(B)
    BY <1>1, Concatenated
  <2> QED
    BY <1>1, <2>1
<1> HIDE DEF AB
<1>7. ABC \in Seq(Int) /\ Len(ABC) = 20
  <2>1. ABC \in Seq(Int) /\ Len(ABC) = Len(AB) + Len(C)
    BY <1>1, <1>6, Concatenated
  <2> QED
    BY <1>1, <1>6, <2>1
<1> HIDE DEF ABC
<1>8. Holds(buf, 0, ABC \o D)
  <2>1. buf = ABC \o D
    BY <1>3 DEF AB, ABC
  <2>2. buf \in Seq(Int)
    BY <1>5, <1>7, <2>1, Concatenated
  <2>3. Holds(buf, 0, buf)
    BY <2>2 DEF Holds
  <2> QED
    BY <2>1, <2>3
<1>9. Holds(buf, 0, ABC) /\ Holds(buf, 20, D)
  <2>1. 20 = 0 + Len(ABC)
    BY <1>7
  <2> QED
    BY <1>5, <1>7, <1>8, <2>1, HoldsParts
<1>10. Holds(buf, 0, AB) /\ Holds(buf, 16, C)
  <2>1. 16 = 0 + Len(AB) /\ Holds(buf, 0, AB \o C)
    BY <1>6, <1>9 DEF ABC
  <2> QED
    BY <1>1, <1>6, <2>1, HoldsParts
<1>11. Holds(buf, 0, A) /\ Holds(buf, 8, B)
  <2>1. 8 = 0 + Len(A) /\ Holds(buf, 0, A \o B)
    BY <1>1, <1>10 DEF AB
  <2> QED
    BY <1>1, <2>1, HoldsParts
<1>12. ASSUME e.kind = "alloc" PROVE Holds(buf, 20, T) /\ Holds(buf, 20 + Len(T), U)
  <2>1. Holds(buf, 20, T \o U)
    BY <1>4, <1>9, <1>12
  <2> QED
    BY <1>2, <2>1, HoldsParts
<1> QED
  BY <1>9, <1>10, <1>11, <1>12 DEF A, B, C, T, U, buf

(* Which read a field takes.                                               *)
LEMMA FieldRead ==
    ASSUME NEW buf, NEW p
    PROVE  /\ ReadField("u64", buf, p) = ReadFixed(buf, p, 8)
           /\ ReadField("u32", buf, p) = ReadFixed(buf, p, 4)
           /\ ReadField("text", buf, p) = ReadText(buf, p)
BY DEF ReadField

(* process_messages reads the event that the server has written.           *)
LEMMA RoundTrip ==
    ASSUME NEW e, Fits(e)
    PROVE  Decode(e.kind, Encode(e)) = [ok |-> TRUE, event |-> e]
<1> DEFINE buf == Encode(e)
           fields == Fields(e.kind)
           read == CHOOSE f : IsRead(f, fields, buf, Len(fields))
           value == [i \in 1..5 |-> IF i \in DOMAIN fields THEN read[i].value ELSE 0]
<1>1. /\ Holds(buf, 0, Fixed(e.frame, 8)) /\ Holds(buf, 8, Fixed(e.addr, 8))
      /\ Holds(buf, 16, Fixed(e.size, 4))
      /\ e.kind = "alloc" => /\ Holds(buf, 20, Text(e.name))
                             /\ Holds(buf, 20 + Len(Text(e.name)), Text(e.stack))
  BY Layout
<1> HIDE DEF buf
<1>2. /\ ReadFixed(buf, 0, 8) = [ok |-> TRUE, value |-> e.frame, pos |-> 8]
      /\ ReadFixed(buf, 8, 8) = [ok |-> TRUE, value |-> e.addr, pos |-> 16]
      /\ ReadFixed(buf, 16, 4) = [ok |-> TRUE, value |-> e.size, pos |-> 20]
  <2>1. /\ ReadFixed(buf, 0, 8) = [ok |-> TRUE, value |-> e.frame, pos |-> 0 + 8]
        /\ ReadFixed(buf, 8, 8) = [ok |-> TRUE, value |-> e.addr, pos |-> 8 + 8]
        /\ ReadFixed(buf, 16, 4) = [ok |-> TRUE, value |-> e.size, pos |-> 16 + 4]
    BY <1>1, NumberRead DEF Fits
  <2> QED
    BY <2>1
<1> DEFINE q == 20 + Len(Text(e.name))
<1>3. ASSUME e.kind = "alloc"
      PROVE  /\ ReadText(buf, 20) = [ok |-> TRUE, value |-> e.name, pos |-> q]
             /\ ReadText(buf, q) = [ok |-> TRUE, value |-> e.stack, pos |-> q + Len(Text(e.stack))]
  BY <1>1, <1>3, TextRead DEF Fits
<1> HIDE DEF q
<1>4. Decode(e.kind, Encode(e)) =
        [ok    |-> \A i \in DOMAIN fields : read[i].ok \/ (e.kind = "free" /\ i > 1),
         event |-> [kind |-> e.kind, frame |-> value[1], addr |-> value[2], size |-> value[3],
                    name |-> value[4], stack |-> value[5]]]
  BY DEF Decode, IsRead, buf
<1>5. /\ Len(fields) \in Nat /\ DOMAIN fields = 1..Len(fields)
      /\ Len(fields) >= 3 /\ fields[1] = "u64" /\ fields[2] = "u64" /\ fields[3] = "u32"
      /\ e.kind = "alloc" => Len(fields) = 5 /\ fields[4] = "text" /\ fields[5] = "text"
      /\ e.kind = "free" => Len(fields) = 3
  BY DEF Fields
<1> HIDE DEF fields
<1>6. IsRead(read, fields, buf, Len(fields))
  BY <1>5, ReadExists
<1> HIDE DEF read
<1>7. /\ read[0] = NotRead(0)
      /\ \A i \in 1..Len(fields) : read[i] = ReadField(fields[i], buf, read[i - 1].pos)
  BY <1>5, <1>6 DEF IsRead
<1>8. read[1] = [ok |-> TRUE, value |-> e.frame, pos |-> 8]
  <2>1. read[0].pos = 0 /\ 1 \in 1..Len(fields) /\ 1 - 1 = 0
    BY <1>5, <1>7 DEF NotRead
  <2>2. read[1] = ReadField("u64", buf, 0)
    BY <1>5, <1>7, <2>1
  <2> QED
    BY <1>2, <2>2, FieldRead
<1>9. read[2] = [ok |-> TRUE, value |-> e.addr, pos |-> 16]
  <2>1. read[1].pos = 8 /\ 2 \in 1..Len(fields) /\ 2 - 1 = 1
    BY <1>5, <1>8
  <2>2. read[2] = ReadField("u64", buf, 8)
    BY <1>5, <1>7, <2>1
  <2> QED
    BY <1>2, <2>2, FieldRead
<1>10. read[3] = [ok |-> TRUE, value |-> e.size, pos |-> 20]
  <2>1. read[2].pos = 16 /\ 3 \in 1..Len(fields) /\ 3 - 1 = 2
    BY <1>5, <1>9
  <2>2. read[3] = ReadField("u32", buf, 16)
    BY <1>5, <1>7, <2>1
  <2> QED
    BY <1>2, <2>2, FieldRead
<1>11. ASSUME e.kind = "alloc"
       PROVE  /\ read[4].ok = TRUE /\ read[4].value = e.name
              /\ read[5].ok = TRUE /\ read[5].value = e.stack
  <2>1. read[3].pos = 20 /\ 4 \in 1..Len(fields) /\ 4 - 1 = 3
    BY <1>5, <1>10, <1>11
  <2>2. read[4] = ReadField("text", buf, 20)
    BY <1>5, <1>7, <1>11, <2>1
  <2>3. read[4] = [ok |-> TRUE, value |-> e.name, pos |-> q]
    BY <1>3, <1>11, <2>2, FieldRead
  <2>4. read[4].pos = q /\ 5 \in 1..Len(fields) /\ 5 - 1 = 4
    BY <1>5, <1>11, <2>3
  <2>5. read[5] = ReadField("text", buf, q)
    BY <1>5, <1>7, <1>11, <2>4
  <2>6. read[5] = [ok |-> TRUE, value |-> e.stack, pos |-> q + Len(Text(e.stack))]
    BY <1>3, <1>11, <2>5, FieldRead
  <2> QED
    BY <2>3, <2>6
<1>12. /\ value[1] = e.frame /\ value[2] = e.addr /\ value[3] = e.size
       /\ value[4] = e.name /\ value[5] = e.stack
  <2>1. value[1] = e.frame /\ value[2] = e.addr /\ value[3] = e.size
    BY <1>5, <1>8, <1>9, <1>10
  <2>2. CASE e.kind = "alloc"
    BY <1>5, <1>11, <2>1, <2>2
  <2>3. CASE e.kind = "free"
    BY <1>5, <2>1, <2>3 DEF Fits
  <2> QED
    BY <2>2, <2>3 DEF Fits
<1>13. ASSUME NEW i \in DOMAIN fields PROVE read[i].ok \/ (e.kind = "free" /\ i > 1)
  <2>1. CASE e.kind = "alloc"
    <3>1. i \in {1, 2, 3, 4, 5}
      BY <1>5, <2>1
    <3>2. read[1].ok /\ read[2].ok /\ read[3].ok
      BY <1>8, <1>9, <1>10
    <3>3. read[4].ok /\ read[5].ok
      BY <1>11, <2>1
    <3> QED
      BY <3>1, <3>2, <3>3
  <2>2. CASE e.kind = "free"
    <3>1. i \in {1, 2, 3}
      BY <1>5, <2>2
    <3> QED
      BY <1>8, <2>2, <3>1
  <2> QED
    BY <2>1, <2>2 DEF Fits
<1> DEFINE all == \A i \in DOMAIN fields : read[i].ok \/ (e.kind = "free" /\ i > 1)
<1>14. all = TRUE
  BY <1>13
<1>15. [kind |-> e.kind, frame |-> value[1], addr |-> value[2], size |-> value[3],
        name |-> value[4], stack |-> value[5]] = e
  <2> HIDE DEF value
  <2> QED
    BY <1>12 DEF Fits
<1> HIDE DEF all, value
<1> QED
  BY <1>4, <1>14, <1>15 DEF all

-----------------------------------------------------------------------------
(* The graphs and bounds.                                                  *)

(* graphs_data keeps the range it was given.                               *)
LEMMA Region ==
    ASSUME NEW f, NEW t, NEW m
    PROVE  LET r == UpdateRegion(f, t, m)
           IN  /\ r = [from |-> f, to |-> t, max |-> m,
                       allocs |-> r.allocs, frees |-> r.frees, sizes |-> r.sizes]
               /\ r.from = f /\ r.to = t /\ r.max = m
BY DEF UpdateRegion

(* The larger of two numbers.                                              *)
LEMMA MaxOfTwo ==
    ASSUME NEW a \in Int, NEW b \in Int
    PROVE  Max({a, b}) \in {a, b} /\ Max({a, b}) >= a /\ Max({a, b}) >= b
<1>1. \E x \in {a, b} : \A y \in {a, b} : x >= y
  OBVIOUS
<1> QED
  BY <1>1 DEF Max

-----------------------------------------------------------------------------
(* The state.                                                              *)

(* What the server reports of an object.                                   *)
Reported(kind, a, n, f) ==
    [kind |-> kind, addr |-> a, size |-> 1, frame |-> f, name |-> n,
     stack |-> IF kind = "alloc" THEN Stack ELSE 0]
EventSet ==
    {Reported("alloc", a, n, f) : a \in Addrs, n \in Lengths, f \in 0..MaxFrame} \cup
    {Reported("free", a, 0, f) : a \in Addrs, f \in 0..MaxFrame}

(* The server reports an event.                                            *)
Reports ==
    \E a \in Addrs, f \in Frames :
        (\E n \in Lengths : Receive("alloc", a, n, f)) \/ Receive("free", a, 0, f)

(* An event that waits is the last one sent; otherwise the client has      *)
(* processed all that were.                                                *)
SentInv ==
    /\ events \in Seq(EventSet)
    /\ pend = NoEvent => sent = events
    /\ pend # NoEvent => pend \in EventSet /\ sent = Append(events, pend)
    /\ pend # NoEvent => saving
    /\ saving => events # << >>

(* The graphs and the search.                                              *)
ViewInv ==
    /\ view = [from   |-> view.from, to |-> view.to, max |-> view.max,
               allocs |-> view.allocs, frees |-> view.frees, sizes |-> view.sizes]
    /\ view.max \in 0..MaxFrame
SearchInv ==
    /\ worker = [state |-> worker.state, at |-> worker.at, old |-> worker.old, map |-> worker.map]
    /\ worker.at \in Nat /\ worker.old \in 0..saved

ViewerInv == TypeOK /\ SentInv /\ ViewInv /\ SearchInv

(* An event that is reported fits the messages.                            *)
LEMMA EventFits ==
    ASSUME NEW e \in EventSet
    PROVE  /\ Fits(e) /\ e.frame \in 0..MaxFrame /\ e.addr \in Addrs
           /\ e.kind \in {"alloc", "free"} /\ e # NoEvent
<1>1. PICK kind \in {"alloc", "free"}, a \in Addrs, n \in Lengths \cup {0}, f \in 0..MaxFrame :
           e = Reported(kind, a, n, f) /\ (kind = "alloc" => n \in Lengths)
                                      /\ (kind = "free" => n = 0)
  BY DEF EventSet
<1>2. /\ e.kind = kind /\ e.addr = a /\ e.size = 1 /\ e.frame = f /\ e.name = n
      /\ e.stack = (IF kind = "alloc" THEN Stack ELSE 0)
  BY <1>1 DEF Reported
<1>3. /\ a \in Nat /\ a < Power[8] /\ (n \in Lengths => n \in Nat /\ n < Power[8])
      /\ Stack \in Nat /\ Stack < Power[8] /\ MaxFrame \in Nat /\ MaxFrame < Power[8]
  BY TraceViewAssumption, WidthAssumption
<1>4. Power[8] \in Nat \ {0} /\ 1 < Power[4]
  <2>1. Power[8] \in Nat \ {0} /\ Power[3] \in Nat \ {0} /\ Power[4] = Base * Power[3]
    BY Powers, PowerNat
  <2>2. \A x \in Nat \ {0} : Base * x > 1
    BY BaseAssumption
  <2> QED
    BY <2>1, <2>2
<1>5. /\ e.frame \in Nat /\ e.frame < Power[8]
      /\ e.name \in Nat /\ e.name < Power[8] /\ e.stack \in Nat /\ e.stack < Power[8]
  BY <1>1, <1>2, <1>3, <1>4
<1>6. e = [kind |-> e.kind, frame |-> e.frame, addr |-> e.addr, size |-> e.size,
           name |-> e.name, stack |-> e.stack]
  BY <1>1 DEF Reported
<1>7. e # NoEvent
  BY <1>2 DEF NoEvent
<1> QED
  BY <1>1, <1>2, <1>3, <1>4, <1>5, <1>6, <1>7 DEF Fits

(* What process_messages makes of the message of an event.                 *)
LEMMA MessageRead ==
    ASSUME NEW e \in EventSet
    PROVE  LET r == Decode(e.kind, Encode(e)) IN r.ok /\ r.event = e
<1>1. Fits(e)
  BY EventFits
<1>2. Decode(e.kind, Encode(e)) = [ok |-> TRUE, event |-> e]
  BY <1>1, RoundTrip
<1> QED
  BY <1>2

(* The frame of the last event.                                            *)
LEMMA LastFrame ==
    ASSUME SentInv
    PROVE  PrevFrame \in 0..MaxFrame
<1>1. CASE events = << >>
  BY <1>1, TraceViewAssumption DEF PrevFrame
<1>2. CASE events # << >>
  <2>1. Last(events) \in EventSet
    BY <1>2 DEF SentInv, Last
  <2> QED
    BY <1>2, <2>1, EventFits DEF PrevFrame
<1> QED
  BY <1>1, <1>2

(* The message that is received is that of a reported event, which is      *)
(* added to the frame or ends it.                                          *)
LEMMA Received ==
    ASSUME SentInv, Reports
    PROVE  \E e \in EventSet :
              /\ sent' = Append(sent, e) /\ sent = events /\ ~saving /\ pend = NoEvent
              /\ \/ /\ events' = Append(events, e) /\ pend' = pend
                    /\ bounds' = IF events # << >> THEN bounds
                                 ELSE [min |-> e.frame, max |-> Max({bounds.max, e.frame})]
                    /\ saving' = (Len(events) + 1 - saved > FlushLimit)
                 \/ /\ events # << >> /\ events' = events
                    /\ bounds' = [bounds EXCEPT !.max = Max({bounds.max, e.frame})]
                    /\ saving' = TRUE /\ pend' = e
<1>1. PICK kind \in {"alloc", "free"}, a \in Addrs, n \in Lengths \cup {0}, f \in Frames :
           Receive(kind, a, n, f) /\ (kind = "alloc" => n \in Lengths) /\ (kind = "free" => n = 0)
  BY DEF Reports
<1> DEFINE e == Reported(kind, a, n, f)
           r == Decode(kind, Encode(e))
<1>2. ~saving /\ sent' = Append(sent, e) /\ Process(r)
  BY <1>1 DEF Receive, Reported
<1>3. e.kind = kind
  BY DEF Reported
<1>4. e \in EventSet
  <2>1. f \in 0..MaxFrame
    BY TraceViewAssumption
  <2> QED
    BY <1>1, <2>1 DEF EventSet
<1> HIDE DEF e
<1>5. r.ok /\ r.event = e
  BY <1>3, <1>4, MessageRead
<1> HIDE DEF r
<1>6. pend = NoEvent /\ sent = events
  BY <1>2 DEF SentInv
<1>7. \/ /\ events' = Append(events, e) /\ pend' = pend
         /\ bounds' = IF events # << >> THEN bounds
                      ELSE [min |-> e.frame, max |-> Max({bounds.max, e.frame})]
         /\ saving' = (Len(events) + 1 - saved > FlushLimit)
      \/ /\ events # << >> /\ events' = events
         /\ bounds' = [bounds EXCEPT !.max = Max({bounds.max, e.frame})]
         /\ saving' = TRUE /\ pend' = e
  BY <1>2, <1>5 DEF Process
<1> QED
  BY <1>2, <1>4, <1>6, <1>7

(* Every action keeps the events in the order in which they were sent.     *)
LEMMA SentStep ==
    ASSUME ViewerInv, Next
    PROVE  SentInv'
<1> USE DEF recording, graphs, search
<1>1. SentInv
  BY DEF ViewerInv
<1>2. CASE Reports
  <2>1. PICK e \in EventSet :
              /\ sent' = Append(sent, e) /\ sent = events /\ ~saving /\ pend = NoEvent
              /\ \/ events' = Append(events, e) /\ pend' = pend
                 \/ events # << >> /\ events' = events /\ saving' = TRUE /\ pend' = e
    BY <1>1, <1>2, Received
  <2>2. e # NoEvent
    BY EventFits
  <2>3. Append(events, e) \in Seq(EventSet) /\ Append(events, e) # << >>
    BY <1>1 DEF SentInv
  <2> QED
    BY <1>1, <2>1, <2>2, <2>3 DEF SentInv
<1>3. CASE InsertStats
  <2>1. /\ events' = (IF pend = NoEvent THEN events ELSE Append(events, pend))
        /\ pend' = NoEvent /\ saving' = FALSE /\ sent' = sent
    BY <1>3 DEF InsertStats
  <2>2. CASE pend = NoEvent
    BY <1>1, <2>1, <2>2 DEF SentInv
  <2>3. CASE pend # NoEvent
    BY <1>1, <2>1, <2>3 DEF SentInv
  <2> QED
    BY <2>2, <2>3
<1>4. CASE InsertEvent
  BY <1>1, <1>4 DEF SentInv, InsertEvent
<1>5. CASE \/ \E w \in Widths : SetZoom(w)
           \/ \E p \in Points : Scroll(p)
           \/ Timer \/ Pick \/ StartSearch \/ EndSearch \/ \E i \in 1..MaxEvents : VisitRow(i)
  <2>1. UNCHANGED <<sent, events, pend, saving>>
    BY <1>5 DEF SetZoom, Scroll, Timer, Pick, StartSearch, EndSearch, VisitRow
  <2> QED
    BY <1>1, <2>1 DEF SentInv
<1> QED
  BY <1>2, <1>3, <1>4, <1>5 DEF Reports, Next

(* The conjuncts of the type invariant, one for each part of the state.    *)
RecordingOK ==
    /\ saved \in 0..Len(events) /\ saving \in BOOLEAN
    /\ \A f \in DOMAIN stats : f \in 0..MaxFrame /\ stats[f].allocs + stats[f].frees > 0
    /\ bounds \in [min : 0..MaxFrame, max : 0..MaxFrame]
GraphsOK ==
    pos \in 0..MaxFrame /\ width \in Widths /\ view.from = pos /\ view.to = pos + width
SearchOK ==
    /\ worker.state \in {"none", "start", "rows", "done"} /\ worker.at <= saved
    /\ DOMAIN worker.map \subseteq Addrs
    /\ asks \in 0..MaxAsks

(* Together they are the type invariant.                                   *)
LEMMA TypeParts == TypeOK <=> RecordingOK /\ GraphsOK /\ SearchOK
BY DEF TypeOK, RecordingOK, GraphsOK, SearchOK

(* Bounds are widened by a frame.                                          *)
LEMMA BoundsAdd ==
    ASSUME NEW b \in [min : 0..MaxFrame, max : 0..MaxFrame], NEW f \in 0..MaxFrame
    PROVE  /\ [b EXCEPT !.max = Max({b.max, f})] \in [min : 0..MaxFrame, max : 0..MaxFrame]
           /\ [min |-> f, max |-> Max({b.max, f})] \in [min : 0..MaxFrame, max : 0..MaxFrame]
<1>1. b.max \in 0..MaxFrame
  OBVIOUS
<1>2. Max({b.max, f}) \in {b.max, f}
  <2>1. b.max \in Int /\ f \in Int
    BY <1>1
  <2> QED
    BY <2>1, MaxOfTwo
<1>3. Max({b.max, f}) \in 0..MaxFrame
  BY <1>1, <1>2
<1> QED
  BY <1>3

(* A frame that is saved has events.                                       *)
LEMMA FrameCounted ==
    ASSUME SentInv, events # << >>
    PROVE  Of("alloc", PrevFrame) + Of("free", PrevFrame) > 0
<1> DEFINE n == Len(events)
           S(kind) == {i \in DOMAIN events : /\ events[i].kind = kind
                                            /\ \A j \in i..n : events[j].frame = PrevFrame}
<1>1. n \in Nat /\ n \in DOMAIN events /\ events[n] \in EventSet /\ DOMAIN events = 1..n
  BY DEF SentInv
<1>2. events[n].frame = PrevFrame /\ events[n].kind \in {"alloc", "free"}
  BY <1>1, EventFits DEF PrevFrame, Last
<1>3. ASSUME NEW kind
      PROVE  IsFiniteSet(S(kind)) /\ Cardinality(S(kind)) \in Nat
  <2>1. IsFiniteSet(1..n)
    BY <1>1, FS_Interval
  <2>2. S(kind) \subseteq 1..n
    BY <1>1
  <2>3. IsFiniteSet(S(kind))
    BY <2>1, <2>2, FS_Subset
  <2> QED
    BY <2>3, FS_CardinalityType
<1>4. ASSUME NEW kind, events[n].kind = kind
      PROVE  Cardinality(S(kind)) # 0
  <2>0. \A k \in Nat : \A j \in k..k : j = k
    OBVIOUS
  <2>1. \A j \in n..n : j = n
    BY <1>1, <2>0
  <2>2. n \in S(kind)
    BY <1>1, <1>2, <1>4, <2>1
  <2> QED
    BY <1>3, <2>2, FS_EmptySet
<1>5. Of("alloc", PrevFrame) = Cardinality(S("alloc")) /\ Of("free", PrevFrame) = Cardinality(S("free"))
  BY DEF Of
<1> HIDE DEF S
<1>6. Cardinality(S("alloc")) \in Nat /\ Cardinality(S("free")) \in Nat
  BY <1>3
<1>7. Cardinality(S("alloc")) # 0 \/ Cardinality(S("free")) # 0
  BY <1>2, <1>4
<1> QED
  BY <1>5, <1>6, <1>7

(* Every action keeps what is recorded.                                    *)
LEMMA RecordingStep ==
    ASSUME ViewerInv, Next
    PROVE  RecordingOK'
<1> USE DEF recording, graphs, search
<1>1. RecordingOK /\ SentInv /\ events \in Seq(EventSet)
  BY TypeParts DEF ViewerInv, SentInv
<1>2. CASE Reports
  <2>1. PICK e \in EventSet :
              \/ /\ events' = Append(events, e)
                 /\ bounds' = IF events # << >> THEN bounds
                              ELSE [min |-> e.frame, max |-> Max({bounds.max, e.frame})]
                 /\ saving' = (Len(events) + 1 - saved > FlushLimit)
              \/ /\ events' = events
                 /\ bounds' = [bounds EXCEPT !.max = Max({bounds.max, e.frame})]
                 /\ saving' = TRUE
    BY <1>1, <1>2, Received
  <2>2. e.frame \in 0..MaxFrame /\ bounds \in [min : 0..MaxFrame, max : 0..MaxFrame]
    BY <1>1, EventFits DEF RecordingOK
  <2>3. bounds' \in [min : 0..MaxFrame, max : 0..MaxFrame]
    <3>1. /\ [bounds EXCEPT !.max = Max({bounds.max, e.frame})] \in
                [min : 0..MaxFrame, max : 0..MaxFrame]
          /\ [min |-> e.frame, max |-> Max({bounds.max, e.frame})] \in
                [min : 0..MaxFrame, max : 0..MaxFrame]
      BY <2>2, BoundsAdd
    <3> QED
      BY <2>1, <2>2, <3>1
  <2>4. Len(events') >= Len(events) /\ Len(events) \in Nat /\ Len(events') \in Nat
    BY <1>1, <2>1
  <2>5. saved' = saved /\ stats' = stats /\ saving' \in BOOLEAN
    <3>1. saved' = saved /\ stats' = stats
      BY <1>2 DEF Reports, Receive
    <3>2. (Len(events) + 1 - saved > FlushLimit) \in BOOLEAN
      OBVIOUS
    <3>3. saving' = (Len(events) + 1 - saved > FlushLimit) \/ saving' = TRUE
      BY <2>1, Zenon
    <3>4. saving' \in BOOLEAN
      BY <3>2, <3>3, Zenon
    <3> QED
      BY <3>1, <3>4
  <2>6. saved' \in 0..Len(events')
    BY <1>1, <2>4, <2>5 DEF RecordingOK
  <2> QED
    BY <1>1, <2>3, <2>5, <2>6 DEF RecordingOK
<1>3. CASE InsertEvent
  <2>1. /\ saved' = saved + 1 /\ saved < Len(events)
        /\ UNCHANGED <<events, saving, stats, bounds>>
    BY <1>3 DEF InsertEvent
  <2>2. saved' \in 0..Len(events')
    BY <1>1, <2>1 DEF RecordingOK
  <2> QED
    BY <1>1, <2>1, <2>2 DEF RecordingOK
<1>4. CASE InsertStats
  <2> DEFINE row == [allocs |-> Of("alloc", PrevFrame), frees |-> Of("free", PrevFrame),
                     size   |-> Total]
  <2>1. /\ stats' = [f \in DOMAIN stats \cup {PrevFrame} |->
                       IF f = PrevFrame THEN row ELSE stats[f]]
        /\ saving /\ saved = Len(events) /\ saving' = FALSE /\ UNCHANGED <<saved, bounds>>
        /\ events' = (IF pend = NoEvent THEN events ELSE Append(events, pend))
    BY <1>4 DEF InsertStats
  <2>2. PrevFrame \in 0..MaxFrame
    BY <1>1, LastFrame
  <2>3. row.allocs + row.frees > 0
    <3>1. events # << >>
      BY <1>1, <2>1 DEF SentInv
    <3>2. row.allocs = Of("alloc", PrevFrame) /\ row.frees = Of("free", PrevFrame)
      OBVIOUS
    <3> QED
      BY <1>1, <3>1, <3>2, FrameCounted
  <2>4. Len(events') >= Len(events) /\ Len(events) \in Nat /\ Len(events') \in Nat
    BY <1>1, <2>1 DEF SentInv
  <2>5. saved' \in 0..Len(events')
    BY <1>1, <2>1, <2>4 DEF RecordingOK
  <2> HIDE DEF row
  <2>6. \A f \in DOMAIN stats' : f \in 0..MaxFrame /\ stats'[f].allocs + stats'[f].frees > 0
    BY <1>1, <2>1, <2>2, <2>3 DEF RecordingOK
  <2> QED
    BY <1>1, <2>1, <2>5, <2>6 DEF RecordingOK
<1>5. CASE \/ \E w \in Widths : SetZoom(w)
           \/ \E p \in Points : Scroll(p)
           \/ Timer \/ Pick \/ StartSearch \/ EndSearch \/ \E i \in 1..MaxEvents : VisitRow(i)
  <2>1. UNCHANGED <<events, saved, saving, stats, bounds>>
    BY <1>5 DEF SetZoom, Scroll, Timer, Pick, StartSearch, EndSearch, VisitRow
  <2> QED
    BY <1>1, <2>1 DEF RecordingOK
<1> QED
  BY <1>2, <1>3, <1>4, <1>5 DEF Reports, Next

(* What a tick of the timer does with the range shown.                     *)
LEMMA TimerEffect ==
    ASSUME ViewerInv, Timer
    PROVE  /\ pos' \in 0..MaxFrame /\ view'.from = pos' /\ view'.to = pos' + width
           /\ view'.max = bounds.max /\ ViewInv' /\ width' = width
           /\ view.to >= view.max => view'.to >= view'.max
<1> DEFINE max == bounds.max
           bar == Max({pos, bounds.min})
           v   == IF bar = pos THEN [view EXCEPT !.max = max]
                               ELSE UpdateRegion(bar, bar + width, max)
           edge == EdgeVisible(view, max)
<1>1. /\ pos \in 0..MaxFrame /\ width \in Nat /\ MaxFrame \in Nat
      /\ view.from = pos /\ view.to = pos + width
      /\ bounds.min \in 0..MaxFrame /\ max \in 0..MaxFrame /\ view.max \in 0..MaxFrame
  BY TraceViewAssumption DEF ViewerInv, TypeOK, ViewInv
<1>2. bar \in {pos, bounds.min}
  <2>1. pos \in Int /\ bounds.min \in Int
    BY <1>1
  <2> QED
    BY <2>1, MaxOfTwo
<1>3. bar \in 0..MaxFrame
  BY <1>1, <1>2
<1>4. /\ v.from = bar /\ v.to = bar + width /\ v.max = max
      /\ v = [from |-> v.from, to |-> v.to, max |-> v.max,
              allocs |-> v.allocs, frees |-> v.frees, sizes |-> v.sizes]
  <2>1. CASE bar = pos
    <3>1. v = [view EXCEPT !.max = max]
      BY <2>1
    <3>2. view = [from   |-> view.from, to |-> view.to, max |-> view.max,
                  allocs |-> view.allocs, frees |-> view.frees, sizes |-> view.sizes]
      BY DEF ViewerInv, ViewInv
    <3>3. [view EXCEPT !.max = max] =
             [from   |-> view.from, to |-> view.to, max |-> max,
              allocs |-> view.allocs, frees |-> view.frees, sizes |-> view.sizes]
      BY <3>2
    <3> HIDE DEF v, bar, max
    <3> QED
      BY <1>1, <2>1, <3>1, <3>3
  <2>2. CASE bar # pos
    <3>1. v = UpdateRegion(bar, bar + width, max)
      BY <2>2
    <3> HIDE DEF v, bar, max
    <3> QED
      BY <3>1, Region
  <2> QED
    BY <2>1, <2>2
<1>5. edge <=> view.to >= view.max
  BY DEF EdgeVisible
<1>6. /\ \/ /\ edge /\ v.to < max
            /\ pos' = max - width
            /\ view' = UpdateRegion(pos', max, max)
         \/ /\ ~(edge /\ v.to < max)
            /\ pos' = bar
            /\ view' = IF v.to >= max \/ v.to = 0 THEN UpdateRegion(v.from, v.to, max) ELSE v
      /\ width' = width
  BY DEF Timer, Scrolls
<1> HIDE DEF v, bar, max, edge
<1>7. CASE edge /\ v.to < max /\ pos' = max - width /\ view' = UpdateRegion(pos', max, max)
  <2>1. view'.from = pos' /\ view'.to = max /\ view'.max = max /\ pos' = max - width
    BY <1>7, Region
  <2>2. pos' \in 0..MaxFrame /\ max = pos' + width
    BY <1>1, <1>3, <1>4, <1>7
  <2>3. ViewInv'
    BY <1>1, <1>7, <2>1, Region DEF ViewInv
  <2> QED
    BY <1>1, <1>6, <2>1, <2>2, <2>3 DEF max
<1>8. CASE /\ ~(edge /\ v.to < max) /\ pos' = bar
           /\ view' = IF v.to >= max \/ v.to = 0 THEN UpdateRegion(v.from, v.to, max) ELSE v
  <2>1. view'.from = v.from /\ view'.to = v.to /\ view'.max = max
    BY <1>4, <1>8, Region
  <2>2. ViewInv'
    BY <1>1, <1>4, <1>8, <2>1, Region DEF ViewInv
  <2>3. edge => v.to >= max
    BY <1>1, <1>3, <1>4, <1>8
  <2> QED
    BY <1>1, <1>3, <1>4, <1>5, <1>6, <1>8, <2>1, <2>2, <2>3 DEF max
<1> QED
  BY <1>6, <1>7, <1>8

(* Every action keeps the range shown and the position together.           *)
LEMMA GraphsStep ==
    ASSUME ViewerInv, Next
    PROVE  GraphsOK' /\ ViewInv'
<1> USE DEF recording, graphs, search
<1>1. GraphsOK /\ ViewInv /\ bounds.min \in 0..MaxFrame
  BY TypeParts DEF ViewerInv, TypeOK
<1>2. CASE \E w \in Widths : SetZoom(w)
  <2>1. PICK w \in Widths : /\ width' = w /\ pos' = pos
                            /\ view' = UpdateRegion(pos, pos + w, view.max)
    BY <1>2 DEF SetZoom
  <2>2. view'.from = pos /\ view'.to = pos + w /\ view'.max = view.max
    BY <2>1, Region
  <2>3. ViewInv'
    BY <1>1, <2>1, <2>2, Region DEF ViewInv
  <2> QED
    BY <1>1, <2>1, <2>2, <2>3 DEF GraphsOK
<1>3. CASE \E p \in Points : Scroll(p)
  <2>1. PICK p \in Points : /\ width' = width /\ pos' = p /\ p <= view.max
                            /\ view' = UpdateRegion(p, p + width, view.max)
    BY <1>3 DEF Scroll
  <2>2. view'.from = p /\ view'.to = p + width /\ view'.max = view.max
    BY <2>1, Region
  <2>3. ViewInv'
    BY <1>1, <2>1, <2>2, Region DEF ViewInv
  <2>4. p \in 0..MaxFrame
    <3>1. p \in Nat /\ MaxFrame \in Nat /\ view.max \in 0..MaxFrame
      BY <1>1, TraceViewAssumption DEF ViewInv
    <3> QED
      BY <2>1, <3>1
  <2> QED
    BY <1>1, <2>1, <2>2, <2>3, <2>4 DEF GraphsOK
<1>4. CASE Timer
  BY <1>1, <1>4, TimerEffect DEF GraphsOK
<1>5. CASE \/ Reports
           \/ InsertEvent \/ InsertStats \/ Pick \/ StartSearch \/ EndSearch
           \/ \E i \in 1..MaxEvents : VisitRow(i)
  <2>1. UNCHANGED <<pos, width, view>>
    BY <1>5 DEF Reports, Receive, InsertEvent, InsertStats, Pick, StartSearch, EndSearch, VisitRow
  <2> QED
    BY <1>1, <2>1 DEF GraphsOK, ViewInv
<1> QED
  BY <1>2, <1>3, <1>4, <1>5 DEF Reports, Next

(* What a row does to the objects found.                                   *)
LEMMA VisitEffect ==
    ASSUME ViewerInv, NEW i \in 1..MaxEvents, VisitRow(i)
    PROVE  /\ worker.state = "rows" /\ i \in Rows(worker.at, saved)
           /\ i \in 1..Len(events) /\ i <= saved /\ events[i] \in EventSet
           /\ worker' = [state |-> "rows", at |-> i, old |-> worker.old, map |-> worker'.map]
           /\ DOMAIN worker'.map = IF events[i].kind = "alloc"
                                   THEN DOMAIN worker.map \cup {events[i].addr}
                                   ELSE DOMAIN worker.map \ {events[i].addr}
<1> DEFINE m == IF events[i].kind = "alloc" THEN Found(worker.map, events[i])
                                            ELSE Freed(worker.map, events[i].addr)
<1>1. /\ worker.state = "rows" /\ i \in Rows(worker.at, saved)
      /\ worker' = [worker EXCEPT !.at = i, !.map = m]
  BY DEF VisitRow
<1>2. worker = [state |-> worker.state, at |-> worker.at, old |-> worker.old, map |-> worker.map]
  BY DEF ViewerInv, SearchInv
<1>3. /\ worker.at \in Nat /\ saved \in 0..Len(events) /\ events \in Seq(EventSet)
  BY DEF ViewerInv, SearchInv, TypeOK, SentInv
<1>4. i <= saved /\ i \in 1..Len(events)
  BY <1>1, <1>3 DEF Rows
<1>5. events[i] \in EventSet
  BY <1>3, <1>4
<1>6. DOMAIN m = IF events[i].kind = "alloc" THEN DOMAIN worker.map \cup {events[i].addr}
                                             ELSE DOMAIN worker.map \ {events[i].addr}
  BY DEF Found, Freed
<1> HIDE DEF m
<1>7. worker' = [state |-> "rows", at |-> i, old |-> worker.old, map |-> m]
  BY <1>1, <1>2
<1>8. worker'.map = m
  BY <1>7
<1> QED
  BY <1>1, <1>4, <1>5, <1>6, <1>7, <1>8

(* Every action keeps the search within the events saved.                  *)
LEMMA SearchStep ==
    ASSUME ViewerInv, Next
    PROVE  SearchOK' /\ SearchInv'
<1> USE DEF recording, graphs, search
<1>1. SearchOK /\ SearchInv /\ saved \in Nat /\ MaxAsks \in Nat /\ worker.at \in Nat
  BY TypeParts, TraceViewAssumption DEF ViewerInv, TypeOK, SentInv, SearchInv
<1>2. worker = [state |-> worker.state, at |-> worker.at, old |-> worker.old, map |-> worker.map]
  BY <1>1 DEF SearchInv
<1>3. CASE \/ Reports
           \/ InsertEvent \/ InsertStats \/ Timer
  <2>1. UNCHANGED <<worker, asks>> /\ saved' \in {saved, saved + 1}
    BY <1>3 DEF Reports, Receive, InsertEvent, InsertStats, Timer
  <2> QED
    BY <1>1, <2>1 DEF SearchOK, SearchInv
<1>4. CASE \/ \E w \in Widths : SetZoom(w)
           \/ \E p \in Points : Scroll(p)
  <2>1. UNCHANGED <<worker, saved>> /\ asks' = asks + 1 /\ asks < MaxAsks
    BY <1>4 DEF SetZoom, Scroll, Ask
  <2>2. asks' \in 0..MaxAsks
    BY <1>1, <2>1 DEF SearchOK
  <2> QED
    BY <1>1, <2>1, <2>2 DEF SearchOK, SearchInv
<1>5. CASE Pick
  <2>1. /\ worker' = [state |-> "start", at |-> 0, old |-> 0, map |-> << >>] /\ saved' = saved
        /\ asks' = asks + 1 /\ asks < MaxAsks
    BY <1>5 DEF Pick, Ask
  <2>2. asks' \in 0..MaxAsks
    BY <1>1, <2>1 DEF SearchOK
  <2>3. worker'.state = "start" /\ worker'.at = 0 /\ worker'.old = 0 /\ worker'.map = << >>
    BY <2>1
  <2>4. SearchInv'
    BY <1>1, <2>1, <2>3 DEF SearchInv
  <2> QED
    BY <1>1, <2>1, <2>2, <2>3, <2>4 DEF SearchOK
<1>6. CASE StartSearch \/ EndSearch
  <2>1. /\ \/ worker' = [worker EXCEPT !.state = "rows", !.old = saved]
           \/ worker' = [worker EXCEPT !.state = "done"]
        /\ UNCHANGED <<saved, asks>>
    BY <1>6 DEF StartSearch, EndSearch
  <2>2. \/ worker' = [state |-> "rows", at |-> worker.at, old |-> saved, map |-> worker.map]
        \/ worker' = [state |-> "done", at |-> worker.at, old |-> worker.old, map |-> worker.map]
    BY <1>2, <2>1
  <2>3. CASE worker' = [state |-> "rows", at |-> worker.at, old |-> saved, map |-> worker.map]
    <3>1. /\ worker'.state = "rows" /\ worker'.at = worker.at /\ worker'.old = saved
          /\ worker'.map = worker.map
      BY <2>3
    <3> QED
      BY <1>1, <2>1, <2>3, <3>1 DEF SearchOK, SearchInv
  <2>4. CASE worker' = [state |-> "done", at |-> worker.at, old |-> worker.old,
                        map |-> worker.map]
    <3>1. /\ worker'.state = "done" /\ worker'.at = worker.at /\ worker'.old = worker.old
          /\ worker'.map = worker.map
      BY <2>4
    <3> QED
      BY <1>1, <2>1, <2>4, <3>1 DEF SearchOK, SearchInv
  <2> QED
    BY <2>2, <2>3, <2>4
<1>7. CASE \E i \in 1..MaxEvents : VisitRow(i)
  <2>1. PICK i \in 1..MaxEvents : VisitRow(i)
    BY <1>7
  <2>2. /\ i <= saved /\ events[i].addr \in Addrs
        /\ worker' = [state |-> "rows", at |-> i, old |-> worker.old, map |-> worker'.map]
        /\ DOMAIN worker'.map \subseteq DOMAIN worker.map \cup {events[i].addr}
    BY <2>1, VisitEffect, EventFits
  <2>3. worker'.state = "rows" /\ worker'.at = i /\ worker'.old = worker.old
    BY <2>2
  <2>4. UNCHANGED <<saved, asks>>
    BY <2>1 DEF VisitRow
  <2> QED
    BY <1>1, <2>2, <2>3, <2>4 DEF SearchOK, SearchInv
<1> QED
  BY <1>3, <1>4, <1>5, <1>6, <1>7 DEF Reports, Next

(* The viewer starts in this state.                                        *)
LEMMA ViewerInit == Init => ViewerInv
<1> SUFFICES ASSUME Init PROVE ViewerInv
  OBVIOUS
<1>1. SentInv
  BY DEF Init, SentInv
<1>2. /\ bounds = [min |-> 0, max |-> OldMax] /\ OldMax \in 0..MaxFrame /\ MaxFrame \in Nat
      /\ width \in Nat /\ MaxAsks \in Nat
  BY TraceViewAssumption DEF Init
<1>3. bounds \in [min : 0..MaxFrame, max : 0..MaxFrame] /\ bounds.max = OldMax
  BY <1>2
<1>4. RecordingOK
  <2>1. events = << >> /\ saved = 0 /\ saving = FALSE /\ stats = << >>
    BY DEF Init
  <2>2. saved \in 0..Len(events) /\ DOMAIN stats = {}
    BY <2>1
  <2> QED
    BY <1>3, <2>1, <2>2 DEF RecordingOK
<1>5. view = [from |-> 0, to |-> width, max |-> OldMax,
              allocs |-> << >>, frees |-> << >>, sizes |-> << >>]
  BY <1>3 DEF Init
<1>6. /\ view.from = 0 /\ view.to = width /\ view.max = OldMax
      /\ view.allocs = << >> /\ view.frees = << >> /\ view.sizes = << >>
  BY <1>5
<1>7. GraphsOK /\ ViewInv
  BY <1>2, <1>5, <1>6 DEF Init, GraphsOK, ViewInv
<1>8. worker = [state |-> "none", at |-> 0, old |-> 0, map |-> << >>] /\ saved = 0 /\ asks = 0
  BY DEF Init
<1>9. worker.state = "none" /\ worker.at = 0 /\ worker.old = 0 /\ worker.map = << >>
  BY <1>8
<1>10. SearchOK /\ SearchInv
  BY <1>2, <1>8, <1>9 DEF SearchOK, SearchInv
<1> QED
  BY <1>1, <1>4, <1>7, <1>10, TypeParts DEF ViewerInv

(* And stays in it.                                                        *)
LEMMA ViewerStep == ViewerInv /\ [Next]_vars => ViewerInv'
<1>1. ASSUME ViewerInv, Next PROVE ViewerInv'
  <2>1. SentInv' /\ RecordingOK' /\ GraphsOK' /\ ViewInv' /\ SearchOK' /\ SearchInv'
    BY <1>1, SentStep, RecordingStep, GraphsStep, SearchStep
  <2> QED
    BY <2>1 DEF ViewerInv, TypeOK, RecordingOK, GraphsOK, SearchOK
<1>2. ASSUME ViewerInv, UNCHANGED vars PROVE ViewerInv'
  BY <1>2 DEF ViewerInv, TypeOK, SentInv, ViewInv, SearchInv, vars, recording, graphs, search
<1> QED
  BY <1>1, <1>2

(* The inductive invariant of the viewer.                                  *)
THEOREM ViewerInvariant == Spec => []ViewerInv
BY ViewerInit, ViewerStep, PTL DEF Spec

(* The parts of the viewer keep their types: a stored row has events, the  *)
(* range shown is where the scroll bar is, the search is within the rows.  *)
THEOREM ViewerTypeCorrect == Spec => []TypeOK
<1>1. ViewerInv => TypeOK
  BY DEF ViewerInv
<1> QED
  BY <1>1, ViewerInvariant, PTL

(* Whatever their lengths and numbers, process_messages reads the events   *)
(* that report_alloc and report_free have written, one after another.      *)
THEOREM EventsDecodedAsSent == Spec => []DecodedAsSent
<1>1. ViewerInv => DecodedAsSent
  BY DEF ViewerInv, SentInv, DecodedAsSent
<1> QED
  BY <1>1, ViewerInvariant, PTL

(* timerEvent follows the last frame as long as it was visible.            *)
THEOREM EdgeIsFollowed == Spec => EdgeFollowed
<1> DEFINE Follows == view'.max # view.max /\ view.to >= view.max => view'.to >= view'.max
<1>1. ASSUME ViewerInv, Next PROVE Follows
  <2>1. CASE Timer
    BY <1>1, <2>1, TimerEffect
  <2>2. CASE \/ \E w \in Widths : SetZoom(w)
             \/ \E p \in Points : Scroll(p)
    <3>1. view'.max = view.max
      BY <2>2, Region DEF SetZoom, Scroll
    <3> QED
      BY <3>1
  <2>3. CASE \/ Reports
             \/ InsertEvent \/ InsertStats \/ Pick \/ StartSearch \/ EndSearch
             \/ \E i \in 1..MaxEvents : VisitRow(i)
    <3>1. view' = view
      BY <2>3 DEF Reports, Receive, InsertEvent, InsertStats, Pick, StartSearch, EndSearch, VisitRow,
         graphs
    <3> QED
      BY <3>1
  <2> QED
    BY <1>1, <2>1, <2>2, <2>3 DEF Reports, Next
<1>2. ViewerInv /\ [Next]_vars => [Follows]_vars
  BY <1>1
<1> QED
  BY <1>2, ViewerInvariant, PTL DEF Spec, EdgeFollowed

-----------------------------------------------------------------------------
(* Snapping.                                                               *)

(* A set of numbers with a bound has a largest one.                        *)
LEMMA MaxOfBounded ==
    ASSUME NEW S, S \subseteq Nat, S # {}, NEW x \in Nat, \A s \in S : s <= x
    PROVE  Max(S) \in S /\ \A s \in S : Max(S) >= s
<1> DEFINE D == {x - s : s \in S}
<1>1. D \subseteq Nat /\ D # {}
  <2>1. \A s \in S : x - s \in Nat
    OBVIOUS
  <2> QED
    BY <2>1
<1>2. PICK d \in D : \A c \in D : d <= c
  <2> HIDE DEF D
  <2> QED
    BY <1>1, LeastNatural
<1>3. PICK m \in S : d = x - m
  BY <1>2
<1>4. ASSUME NEW s \in S PROVE m >= s
  <2>1. d <= x - s
    BY <1>2
  <2> QED
    BY <1>3, <2>1
<1> QED
  BY <1>3, <1>4 DEF Max

(* A set of numbers has a smallest one.                                    *)
LEMMA MinOfNaturals ==
    ASSUME NEW S, S \subseteq Nat, S # {}
    PROVE  Min(S) \in S /\ \A s \in S : Min(S) <= s
BY LeastNatural DEF Min

(* get_closest_gc_frame returns the nearest of the frames of collections   *)
(* strictly between the edges.                                             *)
LEMMA Snapped ==
    ASSUME NEW x \in (view.from + 1)..(view.to - 1), view.from \in Nat, view.to \in Nat
    PROVE  Closest(x, ClosestGcFrame(x, GcFrames))
<1> DEFINE below == {f \in GcFrames : view.from < f /\ f <= x}
           above == {f \in GcFrames : x <= f /\ f < view.to}
           lo == Max(below)
           hi == Min(above)
           y == ClosestGcFrame(x, GcFrames)
<1>0. SUFFICES ASSUME InnerGcs # {}
               PROVE  y \in InnerGcs /\ \A f \in InnerGcs : Distance(x, y) <= Distance(x, f)
  BY DEF Closest
<1>1. \A f \in GcFrames : f \in Nat /\ view.from <= f /\ f <= view.to
  BY DEF GcFrames
<1>2. x \in Nat /\ ~(x <= view.from) /\ ~(x >= view.to)
  OBVIOUS
<1>3. below \subseteq Nat /\ above \subseteq Nat
  BY <1>1, <1>2
<1>4. InnerGcs = below \cup above
  <2>1. ASSUME NEW f \in GcFrames
        PROVE  f \notin {view.from, view.to} <=> f \in below \/ f \in above
    BY <1>1, <1>2, <2>1
  <2> QED
    BY <2>1 DEF InnerGcs
<1>5. below # {} => lo \in below /\ \A f \in below : lo >= f
  <2>1. \A f \in below : f <= x
    OBVIOUS
  <2> HIDE DEF below
  <2> QED
    BY <1>2, <1>3, <2>1, MaxOfBounded
<1>6. above # {} => hi \in above /\ \A f \in above : hi <= f
  <2> HIDE DEF above
  <2> QED
    BY <1>3, MinOfNaturals
<1>7. /\ above = {} => y = lo
      /\ above # {} /\ below = {} => y = hi
      /\ above # {} /\ below # {} => y = IF x - lo > hi - x THEN hi ELSE lo
  <2>1. y = IF above = {} THEN lo ELSE IF below = {} THEN hi ELSE Nearer(x, lo, hi)
    BY <1>0, <1>2, <1>4 DEF ClosestGcFrame
  <2> QED
    BY <2>1 DEF Nearer
<1>8. /\ \A f \in below : f \in Nat /\ f <= x
      /\ \A f \in above : f \in Nat /\ x <= f
  BY <1>3
<1> HIDE DEF below, above, lo, hi, y
<1>9. CASE above = {}
  <2>1. y \in below /\ \A f \in below : y >= f
    BY <1>0, <1>4, <1>5, <1>7, <1>9
  <2> QED
    BY <1>2, <1>4, <1>8, <1>9, <2>1 DEF Distance
<1>10. CASE above # {} /\ below = {}
  <2>1. y \in above /\ \A f \in above : y <= f
    BY <1>6, <1>7, <1>10
  <2> QED
    BY <1>2, <1>4, <1>8, <1>10, <2>1 DEF Distance
<1>11. CASE above # {} /\ below # {}
  <2>1. /\ lo \in below /\ lo \in Nat /\ lo <= x /\ \A f \in below : lo >= f
        /\ hi \in above /\ hi \in Nat /\ x <= hi /\ \A f \in above : hi <= f
    BY <1>5, <1>6, <1>8, <1>11
  <2>2. y = (IF x - lo > hi - x THEN hi ELSE lo)
    BY <1>7, <1>11
  <2>3. /\ \A f \in below : Distance(x, f) = x - f
        /\ \A f \in above : Distance(x, f) = f - x
    BY <1>2, <1>8 DEF Distance
  <2>4. y \in InnerGcs
    BY <1>4, <2>1, <2>2
  <2>5. Distance(x, y) <= x - lo /\ Distance(x, y) <= hi - x
    BY <1>2, <2>1, <2>2, <2>3
  <2>6. Distance(x, y) \in Int
    BY <1>2, <2>1, <2>2, <2>3
  <2>7. ASSUME NEW f \in below PROVE Distance(x, y) <= Distance(x, f)
    BY <1>2, <1>8, <2>1, <2>3, <2>5, <2>6
  <2>8. ASSUME NEW f \in above PROVE Distance(x, y) <= Distance(x, f)
    BY <1>2, <1>8, <2>1, <2>3, <2>5, <2>6
  <2> QED
    BY <1>4, <2>4, <2>7, <2>8
<1> QED
  BY <1>9, <1>10, <1>11

(* Snapping takes the nearest collection shown.                            *)
THEOREM SnapsToNearest == Spec => []SnapsToClosestGc
<1>1. ViewerInv => SnapsToClosestGc
  <2> SUFFICES ASSUME ViewerInv PROVE SnapsToClosestGc
    OBVIOUS
  <2>1. view.from \in Nat /\ view.to \in Nat
    <3>1. pos \in Nat /\ width \in Nat /\ view.from = pos /\ view.to = pos + width
      BY TraceViewAssumption DEF ViewerInv, TypeOK
    <3> QED
      BY <3>1
  <2> QED
    BY <2>1, Snapped DEF SnapsToClosestGc
<1> QED
  BY <1>1, ViewerInvariant, PTL

-----------------------------------------------------------------------------
(* Live objects.                                                           *)

(* The rows of the frames pk among the first n that come after the cursor  *)
(* at in the order of frames; those of address a; those visited.           *)
Earlier(ev, i, j) ==
    \/ ev[i].frame < ev[j].frame
    \/ ev[i].frame = ev[j].frame /\ i < j
Picked(ev, pk, i) == pk.from <= ev[i].frame /\ ev[i].frame <= pk.to
RowsOf(ev, pk, at, n) == {i \in 1..n : Picked(ev, pk, i) /\ (at # 0 => Earlier(ev, at, i))}
MineOf(ev, pk, a, n) == {i \in RowsOf(ev, pk, 0, n) : ev[i].addr = a}
Visited(ev, pk, a, at, n) == MineOf(ev, pk, a, n) \ RowsOf(ev, pk, at, n)

(* The rows S came in order of frames; those after which no row frees;     *)
(* the map m has the object of the first of them.                          *)
Ordered(ev, S) == \A i, j \in S : i < j => ev[i].frame <= ev[j].frame
LiveOf(ev, S) == {i \in S : \A j \in S : j >= i => ev[j].kind = "alloc"}
Listed(ev, m, a, S) ==
    /\ a \in DOMAIN m <=> LiveOf(ev, S) # {}
    /\ a \in DOMAIN m =>
          \E i \in LiveOf(ev, S) : (\A j \in LiveOf(ev, S) : i <= j) /\ m[a] = ev[i]

(* No row of the address may be missed, and they came in order of frames.  *)
Settled(ev, pk, a, n, old) ==
    (\A i \in MineOf(ev, pk, a, n) : i <= old) /\ Ordered(ev, MineOf(ev, pk, a, n))

(* While rows are visited, the map has the objects alive after the rows    *)
(* visited, for every address that is settled.                             *)
LiveInv ==
    /\ worker.state = "start" => worker.at = 0 /\ worker.map = << >>
    /\ worker.state \in {"rows", "done"} =>
          \A a \in Addrs :
              Settled(events, picked, a, saved, worker.old) =>
                  Listed(events, worker.map, a, Visited(events, picked, a, worker.at, saved))
    /\ worker.state = "done" =>
          RowsOf(events, picked, worker.at, worker.old) = {} /\ types = Grouped(worker.map)

(* The rows of the query are these.                                        *)
LEMMA RowsAre ==
    ASSUME NEW at, NEW n
    PROVE  Rows(at, n) = RowsOf(events, picked, at, n)
BY DEF Rows, InRange, Before, RowsOf, Picked, Earlier

(* An object found is listed under its type, and under no other.           *)
LEMMA GroupedFacts ==
    ASSUME NEW m, NEW a
    PROVE  {t \in DOMAIN Grouped(m) : a \in Grouped(m)[t].addresses} =
              IF a \in DOMAIN m THEN {m[a].name} ELSE {}
<1>1. DOMAIN Grouped(m) = {m[b].name : b \in DOMAIN m}
  BY DEF Grouped
<1>2. ASSUME NEW t \in DOMAIN Grouped(m)
      PROVE  Grouped(m)[t].addresses = {b \in DOMAIN m : m[b].name = t}
  BY <1>1 DEF Grouped
<1> QED
  BY <1>1, <1>2

(* Rows that are added later are not among the first n.                    *)
LEMMA RowsSame ==
    ASSUME NEW ev, NEW ew, NEW pk, NEW n \in Nat, NEW k \in Nat, n <= k, NEW at \in 0..n,
           \A i \in 1..n : ew[i] = ev[i]
    PROVE  /\ \A i \in 1..n : i \in RowsOf(ew, pk, at, k) <=> i \in RowsOf(ev, pk, at, n)
           /\ RowsOf(ew, pk, at, n) = RowsOf(ev, pk, at, n)
<1>1. \A i \in 1..n : i \in 1..k
  OBVIOUS
<1>2. at # 0 => at \in 1..n
  OBVIOUS
<1> QED
  BY <1>1, <1>2 DEF RowsOf, Picked, Earlier

(* What was found among the first rows stays as it is.                     *)
LEMMA SettledSame ==
    ASSUME NEW ev, NEW ew, NEW pk, NEW n \in Nat, NEW k \in Nat, n <= k, NEW at \in 0..n,
           \A i \in 1..n : ew[i] = ev[i], NEW old \in 0..n, NEW a,
           Settled(ew, pk, a, k, old)
    PROVE  /\ Settled(ev, pk, a, n, old)
           /\ Visited(ew, pk, a, at, k) = Visited(ev, pk, a, at, n)
           /\ LiveOf(ew, Visited(ew, pk, a, at, k)) = LiveOf(ev, Visited(ev, pk, a, at, n))
           /\ \A i \in Visited(ev, pk, a, at, n) : ew[i] = ev[i]
<1>1. /\ \A i \in 1..n : i \in RowsOf(ew, pk, at, k) <=> i \in RowsOf(ev, pk, at, n)
      /\ \A i \in 1..n : i \in RowsOf(ew, pk, 0, k) <=> i \in RowsOf(ev, pk, 0, n)
  <2>1. 0 \in 0..n
    OBVIOUS
  <2> QED
    BY <2>1, RowsSame
<1>2. MineOf(ew, pk, a, k) \subseteq 1..n /\ MineOf(ev, pk, a, n) \subseteq 1..n
  <2>1. MineOf(ew, pk, a, k) \subseteq 1..k /\ MineOf(ev, pk, a, n) \subseteq 1..n
    BY DEF MineOf, RowsOf
  <2>2. \A i \in MineOf(ew, pk, a, k) : i <= old
    BY DEF Settled
  <2> QED
    BY <2>1, <2>2
<1>3. MineOf(ew, pk, a, k) = MineOf(ev, pk, a, n)
  BY <1>1, <1>2 DEF MineOf
<1>4. Visited(ew, pk, a, at, k) = Visited(ev, pk, a, at, n)
  BY <1>1, <1>2, <1>3 DEF Visited
<1>5. \A i \in MineOf(ev, pk, a, n) : ew[i] = ev[i]
  BY <1>2
<1>6. Settled(ev, pk, a, n, old)
  BY <1>3, <1>5 DEF Settled, Ordered
<1>7. \A i \in Visited(ev, pk, a, at, n) : ew[i] = ev[i]
  BY <1>5 DEF Visited
<1> QED
  BY <1>4, <1>6, <1>7 DEF LiveOf

(* The recording thread only adds events and saves more of them.           *)
LEMMA RecordingEffect ==
    ASSUME ViewerInv, Reports \/ InsertEvent \/ InsertStats
    PROVE  /\ \A i \in 1..saved : events'[i] = events[i]
           /\ saved' \in {saved, saved + 1} /\ UNCHANGED <<picked, worker, types>>
<1>1. saved' \in {saved, saved + 1} /\ UNCHANGED <<picked, worker, types>>
  BY DEF Reports, Receive, InsertEvent, InsertStats, search
<1>2. events' = events \/ \E e : events' = Append(events, e)
  <2>1. CASE Reports
    BY <2>1, Received DEF ViewerInv
  <2>2. CASE InsertEvent \/ InsertStats
    BY <2>2 DEF InsertEvent, InsertStats
  <2> QED
    BY <2>1, <2>2
<1>3. events \in Seq(EventSet) /\ saved \in 0..Len(events)
  BY DEF ViewerInv, SentInv, TypeOK
<1>4. ASSUME NEW i \in 1..saved PROVE events'[i] = events[i]
  <2>1. i \in 1..Len(events)
    BY <1>3
  <2>2. \A e : Append(events, e)[i] = events[i]
    BY <1>3, <2>1
  <2> QED
    BY <1>2, <2>2
<1> QED
  BY <1>1, <1>4

(* A row that is visited is, for an address that is settled, the only one  *)
(* after those visited before.                                             *)
LEMMA VisitMine ==
    ASSUME NEW ev, NEW pk, NEW a, NEW n \in Nat, NEW old \in 0..n, NEW at \in 0..n,
           \A i \in 1..n : ev[i].frame \in Nat,
           Settled(ev, pk, a, n, old), NEW i \in RowsOf(ev, pk, at, n),
           \A j \in RowsOf(ev, pk, at, old) : ~Earlier(ev, j, i)
    PROVE  /\ ev[i].addr # a => Visited(ev, pk, a, i, n) = Visited(ev, pk, a, at, n)
           /\ ev[i].addr = a => /\ Visited(ev, pk, a, i, n) = Visited(ev, pk, a, at, n) \cup {i}
                                /\ \A k \in Visited(ev, pk, a, at, n) : k < i
<1> DEFINE M == MineOf(ev, pk, a, n)
           V == Visited(ev, pk, a, at, n)
<1>1. M \subseteq 1..n /\ i \in 1..n /\ i # 0 /\ (at # 0 => at \in 1..n /\ Earlier(ev, at, i))
  BY DEF MineOf, RowsOf
<1>2. \A k \in M : Picked(ev, pk, k) /\ ev[k].addr = a
  BY DEF MineOf, RowsOf
<1>3. ASSUME NEW k \in M, k \notin V, k # i PROVE k \notin Visited(ev, pk, a, i, n)
  <2>1. k \in RowsOf(ev, pk, at, n)
    BY <1>3 DEF Visited
  <2>2. k <= old
    BY DEF Settled
  <2>3. k \in RowsOf(ev, pk, at, old)
    BY <1>1, <2>1, <2>2 DEF RowsOf
  <2>4. ~Earlier(ev, k, i)
    BY <2>3
  <2>5. Earlier(ev, i, k)
    BY <1>1, <1>3, <2>4 DEF Earlier
  <2>6. k \in RowsOf(ev, pk, i, n)
    BY <1>1, <1>2, <2>5 DEF RowsOf
  <2> QED
    BY <2>6 DEF Visited
<1>4. ASSUME NEW k \in V PROVE k \in M /\ k \in 1..n /\ Earlier(ev, k, i)
  <2>1. k \in M /\ k \in 1..n /\ k \notin RowsOf(ev, pk, at, n)
    BY <1>1 DEF Visited
  <2>2. at # 0 /\ ~Earlier(ev, at, k)
    BY <1>1, <1>2, <2>1 DEF RowsOf
  <2> QED
    BY <1>1, <2>1, <2>2 DEF Earlier
<1>5. ASSUME NEW k \in V PROVE k \in Visited(ev, pk, a, i, n)
  <2>1. ~Earlier(ev, i, k)
    BY <1>1, <1>4 DEF Earlier
  <2>2. k \notin RowsOf(ev, pk, i, n)
    BY <1>1, <2>1 DEF RowsOf
  <2> QED
    BY <1>4, <2>2 DEF Visited
<1>6. ev[i].addr = a => i \in Visited(ev, pk, a, i, n)
  <2>1. ~Earlier(ev, i, i)
    BY <1>1 DEF Earlier
  <2>2. i \notin RowsOf(ev, pk, i, n)
    BY <1>1, <2>1 DEF RowsOf
  <2>3. ev[i].addr = a => i \in M
    BY DEF MineOf, RowsOf
  <2> QED
    BY <2>2, <2>3 DEF Visited
<1>7. Visited(ev, pk, a, i, n) \subseteq M
  BY DEF Visited
<1>8. ASSUME ev[i].addr = a, NEW k \in V PROVE k < i
  <2>1. i \in M
    BY <1>6, <1>7, <1>8
  <2>2. ~(i < k /\ ev[k].frame < ev[i].frame)
    BY <1>1, <1>4, <2>1 DEF Settled, Ordered
  <2>3. k # i
    BY <1>1, <1>4 DEF Earlier
  <2> QED
    BY <1>1, <1>4, <2>2, <2>3 DEF Earlier
<1> HIDE DEF V, M
<1>9. ev[i].addr # a => Visited(ev, pk, a, i, n) = V
  BY <1>2, <1>3, <1>5, <1>7
<1>10. ev[i].addr = a => Visited(ev, pk, a, i, n) = V \cup {i}
  BY <1>3, <1>5, <1>6, <1>7
<1> QED
  BY <1>8, <1>9, <1>10 DEF V

(* A row after all others leaves them alive, with itself, or frees them.   *)
LEMMA LiveAdded ==
    ASSUME NEW ev, NEW S, S \subseteq Nat, NEW i \in Nat, \A k \in S : k < i
    PROVE  LiveOf(ev, S \cup {i}) = IF ev[i].kind = "alloc" THEN LiveOf(ev, S) \cup {i} ELSE {}
<1>1. \A k \in S : i >= k /\ ~(k >= i)
  OBVIOUS
<1>2. i >= i
  OBVIOUS
<1> QED
  BY <1>1, <1>2 DEF LiveOf

(* So the map still has what is alive.                                     *)
LEMMA ListedAdded ==
    ASSUME NEW ev, NEW m, NEW S, S \subseteq Nat, NEW i \in Nat, \A k \in S : k < i,
           NEW a, ev[i].addr = a, Listed(ev, m, a, S)
    PROVE  Listed(ev, IF ev[i].kind = "alloc" THEN Found(m, ev[i]) ELSE Freed(m, ev[i].addr),
                  a, S \cup {i})
<1> DEFINE T == S \cup {i}
<1>1. LiveOf(ev, T) = IF ev[i].kind = "alloc" THEN LiveOf(ev, S) \cup {i} ELSE {}
  BY LiveAdded
<1>2. LiveOf(ev, S) \subseteq S
  BY DEF LiveOf
<1> HIDE DEF T
<1>3. CASE ev[i].kind = "alloc" /\ a \in DOMAIN m
  <2>1. Found(m, ev[i]) = m
    BY <1>3 DEF Found
  <2>2. PICK l \in LiveOf(ev, S) : (\A j \in LiveOf(ev, S) : l <= j) /\ m[a] = ev[l]
    BY <1>3 DEF Listed
  <2>3. l < i /\ l \in Nat
    BY <1>2, <2>2
  <2>4. l \in LiveOf(ev, T) /\ \A j \in LiveOf(ev, T) : l <= j
    BY <1>1, <1>3, <2>2, <2>3
  <2> QED
    BY <1>3, <2>1, <2>2, <2>4 DEF Listed, T
<1>4. CASE ev[i].kind = "alloc" /\ a \notin DOMAIN m
  <2>1. Found(m, ev[i]) = [b \in DOMAIN m \cup {a} |-> IF b = a THEN ev[i] ELSE m[b]]
    BY <1>4 DEF Found
  <2>2. a \in DOMAIN Found(m, ev[i]) /\ Found(m, ev[i])[a] = ev[i]
    BY <2>1
  <2>3. LiveOf(ev, S) = {}
    BY <1>4 DEF Listed
  <2>4. LiveOf(ev, T) = {i} /\ i <= i
    BY <1>1, <1>4, <2>3
  <2> QED
    BY <1>4, <2>2, <2>4 DEF Listed, T
<1>5. CASE ev[i].kind # "alloc"
  <2>1. a \notin DOMAIN Freed(m, ev[i].addr)
    BY DEF Freed
  <2> QED
    BY <1>1, <1>5, <2>1 DEF Listed, T
<1> QED
  BY <1>3, <1>4, <1>5

(* A row of another address leaves the object of this one as it is.        *)
LEMMA ListedAside ==
    ASSUME NEW ev, NEW m, NEW S, NEW e, NEW a, e.addr # a, Listed(ev, m, a, S)
    PROVE  Listed(ev, IF e.kind = "alloc" THEN Found(m, e) ELSE Freed(m, e.addr), a, S)
<1> DEFINE w == IF e.kind = "alloc" THEN Found(m, e) ELSE Freed(m, e.addr)
<1>1. (a \in DOMAIN w <=> a \in DOMAIN m) /\ (a \in DOMAIN m => w[a] = m[a])
  BY DEF Found, Freed
<1> HIDE DEF w
<1>2. Listed(ev, w, a, S)
  BY <1>1 DEF Listed
<1> QED
  BY <1>2 DEF w

(* What the query does with a row.                                         *)
LEMMA RowListed ==
    ASSUME ViewerInv, LiveInv, NEW i \in 1..MaxEvents, VisitRow(i), NEW a \in Addrs,
           Settled(events, picked, a, saved, worker.old)
    PROVE  Listed(events, worker'.map, a, Visited(events, picked, a, i, saved))
<1> DEFINE V == Visited(events, picked, a, worker.at, saved)
           m == IF events[i].kind = "alloc" THEN Found(worker.map, events[i])
                                            ELSE Freed(worker.map, events[i].addr)
<1>1. /\ saved \in Nat /\ worker.at \in 0..saved /\ worker.old \in 0..saved
      /\ events \in Seq(EventSet) /\ saved <= Len(events)
      /\ worker = [state |-> worker.state, at |-> worker.at, old |-> worker.old,
                   map |-> worker.map]
  BY DEF ViewerInv, SearchInv, TypeOK, SentInv
<1>2. \A j \in 1..saved : events[j].frame \in Nat
  <2>1. ASSUME NEW j \in 1..saved PROVE events[j].frame \in Nat
    <3>1. events[j] \in EventSet
      BY <1>1
    <3> QED
      BY <3>1, EventFits
  <2> QED
    BY <2>1
<1>3. /\ worker.state = "rows" /\ i \in RowsOf(events, picked, worker.at, saved)
      /\ \A j \in RowsOf(events, picked, worker.at, worker.old) : ~Earlier(events, j, i)
      /\ worker' = [worker EXCEPT !.at = i, !.map = m]
  BY RowsAre DEF VisitRow, Before, Earlier
<1>4. Listed(events, worker.map, a, V)
  BY <1>3 DEF LiveInv
<1>5. /\ events[i].addr # a => Visited(events, picked, a, i, saved) = V
      /\ events[i].addr = a => /\ Visited(events, picked, a, i, saved) = V \cup {i}
                               /\ \A k \in V : k < i
  BY <1>1, <1>2, <1>3, VisitMine
<1>6. V \subseteq Nat
  BY DEF Visited, MineOf, RowsOf
<1> HIDE DEF V
<1>7. Listed(events, m, a, Visited(events, picked, a, i, saved))
  <2>1. CASE events[i].addr = a
    <3>1. i \in Nat /\ \A k \in V : k < i
      BY <1>5, <2>1
    <3>2. Listed(events, m, a, V \cup {i})
      BY <1>4, <1>6, <2>1, <3>1, ListedAdded DEF m
    <3> QED
      BY <1>5, <2>1, <3>2
  <2>2. CASE events[i].addr # a
    BY <1>4, <1>5, <2>2, ListedAside DEF m
  <2> QED
    BY <2>1, <2>2
<1> HIDE DEF m
<1>8. worker' = [state |-> worker.state, at |-> i, old |-> worker.old, map |-> m]
  BY <1>1, <1>3
<1>9. worker'.map = m
  BY <1>8
<1> QED
  BY <1>7, <1>9

(* Every action keeps the objects found.                                   *)
LEMMA LiveStep ==
    ASSUME ViewerInv, LiveInv, Next
    PROVE  LiveInv'
<1> USE DEF recording, graphs, search
<1>1. /\ saved \in Nat /\ worker.at \in 0..saved /\ worker.old \in 0..saved
      /\ worker = [state |-> worker.state, at |-> worker.at, old |-> worker.old,
                   map |-> worker.map]
  BY DEF ViewerInv, SearchInv, TypeOK, SentInv
<1>2. CASE Reports \/ InsertEvent \/ InsertStats
  <2>1. /\ \A i \in 1..saved : events'[i] = events[i]
        /\ saved' \in {saved, saved + 1} /\ UNCHANGED <<picked, worker, types>>
    BY <1>2, RecordingEffect
  <2>2. saved' \in Nat /\ saved <= saved'
    BY <1>1, <2>1
  <2>3. ASSUME NEW a \in Addrs, worker.state \in {"rows", "done"},
               Settled(events', picked, a, saved', worker.old)
        PROVE  Listed(events', worker.map, a, Visited(events', picked, a, worker.at, saved'))
    <3> DEFINE V == Visited(events, picked, a, worker.at, saved)
               W == Visited(events', picked, a, worker.at, saved')
    <3>1. /\ Settled(events, picked, a, saved, worker.old)
          /\ LiveOf(events', W) = LiveOf(events, V)
          /\ W = V /\ \A i \in V : events'[i] = events[i]
      BY <1>1, <2>1, <2>2, <2>3, SettledSame
    <3>2. Listed(events, worker.map, a, V)
      BY <2>3, <3>1 DEF LiveInv
    <3>3. \A i \in LiveOf(events, V) : events'[i] = events[i]
      BY <3>1 DEF LiveOf
    <3> HIDE DEF V, W
    <3>4. Listed(events', worker.map, a, W)
      BY <3>1, <3>2, <3>3 DEF Listed
    <3> QED
      BY <3>4 DEF W
  <2>4. worker.state = "done" => RowsOf(events', picked, worker.at, worker.old) = {}
    <3>1. SUFFICES ASSUME worker.state = "done", NEW i \in 1..worker.old
                   PROVE  i \notin RowsOf(events', picked, worker.at, worker.old)
      BY DEF RowsOf
    <3>2. i \notin RowsOf(events, picked, worker.at, worker.old)
      BY <3>1 DEF LiveInv
    <3>3. i \in 1..saved /\ (worker.at # 0 => worker.at \in 1..saved)
      BY <1>1
    <3> QED
      BY <2>1, <3>2, <3>3 DEF RowsOf, Picked, Earlier
  <2> QED
    BY <2>1, <2>3, <2>4 DEF LiveInv
<1>3. CASE \/ \E w \in Widths : SetZoom(w)
           \/ \E p \in Points : Scroll(p)
           \/ Timer
  <2>1. UNCHANGED <<events, saved, picked, worker, types>>
    BY <1>3 DEF SetZoom, Scroll, Timer
  <2> QED
    BY <2>1 DEF LiveInv
<1>4. CASE Pick
  <2>1. worker' = [state |-> "start", at |-> 0, old |-> 0, map |-> << >>]
    BY <1>4 DEF Pick
  <2>2. worker'.state = "start" /\ worker'.at = 0 /\ worker'.map = << >>
    BY <2>1
  <2> QED
    BY <2>2 DEF LiveInv
<1>5. CASE StartSearch
  <2>1. /\ worker.state = "start" /\ worker' = [worker EXCEPT !.state = "rows", !.old = saved]
        /\ UNCHANGED <<events, picked, saved>>
    BY <1>5 DEF StartSearch
  <2>2. worker.at = 0 /\ worker.map = << >>
    BY <2>1 DEF LiveInv
  <2>3. worker' = [state |-> "rows", at |-> 0, old |-> saved, map |-> << >>]
    BY <1>1, <2>1, <2>2
  <2>4. worker'.state = "rows" /\ worker'.at = 0 /\ worker'.map = << >> /\ worker'.old = saved
    BY <2>3
  <2>5. \A a : Visited(events, picked, a, 0, saved) = {}
    BY DEF Visited, MineOf
  <2>6. \A a : Listed(events, << >>, a, {})
    BY DEF Listed, LiveOf
  <2> QED
    BY <2>1, <2>4, <2>5, <2>6 DEF LiveInv
<1>6. CASE EndSearch
  <2>1. /\ worker.state = "rows" /\ worker' = [worker EXCEPT !.state = "done"]
        /\ types' = Grouped(worker.map) /\ Rows(worker.at, worker.old) = {}
        /\ UNCHANGED <<events, picked, saved>>
    BY <1>6 DEF EndSearch
  <2>2. worker' = [state |-> "done", at |-> worker.at, old |-> worker.old, map |-> worker.map]
    BY <1>1, <2>1
  <2>3. /\ worker'.state = "done" /\ worker'.at = worker.at /\ worker'.old = worker.old
        /\ worker'.map = worker.map
    BY <2>2
  <2>4. RowsOf(events, picked, worker.at, worker.old) = {}
    BY <2>1, RowsAre
  <2> QED
    BY <2>1, <2>3, <2>4 DEF LiveInv
<1>7. CASE \E i \in 1..MaxEvents : VisitRow(i)
  <2>1. PICK i \in 1..MaxEvents : VisitRow(i)
    BY <1>7
  <2>2. /\ worker.state = "rows"
        /\ worker' = [state |-> "rows", at |-> i, old |-> worker.old, map |-> worker'.map]
    BY <2>1, VisitEffect
  <2>3. worker'.state = "rows" /\ worker'.at = i /\ worker'.old = worker.old
    BY <2>2
  <2>4. UNCHANGED <<events, picked, saved>>
    BY <2>1 DEF VisitRow
  <2>5. ASSUME NEW a \in Addrs, Settled(events, picked, a, saved, worker.old)
        PROVE  Listed(events, worker'.map, a, Visited(events, picked, a, i, saved))
    BY <2>1, <2>5, RowListed
  <2> QED
    BY <2>3, <2>4, <2>5 DEF LiveInv
<1> QED
  BY <1>2, <1>3, <1>4, <1>5, <1>6, <1>7 DEF Reports, Next

(* The objects listed when a search has ended are those alive in the       *)
(* frames picked, each under its type, for every address whose events came *)
(* in order of frames and were saved when the query started.               *)
THEOREM LiveObjectsAreExact == Spec => []LiveObjectsExact
<1>1. Init => LiveInv
  <2> SUFFICES ASSUME Init PROVE LiveInv
    OBVIOUS
  <2>1. worker.state = "none"
    BY DEF Init
  <2> QED
    BY <2>1 DEF LiveInv
<1>2. ViewerInv /\ LiveInv /\ [Next]_vars => LiveInv'
  <2>1. ASSUME LiveInv, UNCHANGED vars PROVE LiveInv'
    BY <2>1 DEF LiveInv, vars, recording, graphs, search
  <2> QED
    BY <2>1, LiveStep
<1>3. ViewerInv /\ LiveInv => LiveObjectsExact
  <2> SUFFICES ASSUME ViewerInv, LiveInv, worker.state = "done", NEW a \in Addrs,
                      \A i \in Mine(a) : i <= worker.old, InOrder(Mine(a))
               PROVE  {t \in DOMAIN types : a \in types[t].addresses} =
                         IF Live(Mine(a)) = {} THEN {} ELSE {events[Min(Live(Mine(a)))].name}
    BY DEF LiveObjectsExact
  <2> DEFINE M == MineOf(events, picked, a, saved)
             l == LiveOf(events, M)
  <2>1. Mine(a) = M
    BY RowsAre DEF Mine, MineOf
  <2>2. Live(Mine(a)) = l
    BY <2>1 DEF Live, LiveOf
  <2>3. Settled(events, picked, a, saved, worker.old)
    BY <2>1 DEF Settled, InOrder, Ordered
  <2>4. Visited(events, picked, a, worker.at, saved) = M
    <3>1. ASSUME NEW i \in M PROVE i \notin RowsOf(events, picked, worker.at, saved)
      <4>1. i \in 1..saved /\ i <= worker.old /\ worker.old \in Nat
        BY <2>1 DEF MineOf, RowsOf, ViewerInv, SearchInv, TypeOK, SentInv
      <4>2. i \notin RowsOf(events, picked, worker.at, worker.old)
        BY DEF LiveInv
      <4> QED
        BY <4>1, <4>2 DEF RowsOf
    <3> QED
      BY <3>1 DEF Visited
  <2>5. Listed(events, worker.map, a, M)
    BY <2>3, <2>4 DEF LiveInv
  <2>6. {t \in DOMAIN types : a \in types[t].addresses} =
           IF a \in DOMAIN worker.map THEN {worker.map[a].name} ELSE {}
    BY GroupedFacts DEF LiveInv
  <2>7. l \subseteq Nat
    BY DEF MineOf, RowsOf, LiveOf
  <2>8. /\ a \in DOMAIN worker.map <=> l # {}
        /\ a \in DOMAIN worker.map =>
              \E i \in l : (\A j \in l : i <= j) /\ worker.map[a] = events[i]
    BY <2>5 DEF Listed
  <2> HIDE DEF M, l
  <2>9. l # {} => worker.map[a] = events[Min(l)]
    <3> SUFFICES ASSUME l # {} PROVE worker.map[a] = events[Min(l)]
      OBVIOUS
    <3>1. PICK i \in l : (\A j \in l : i <= j) /\ worker.map[a] = events[i]
      BY <2>8
    <3>2. Min(l) \in l /\ \A j \in l : Min(l) <= j
      BY <2>7, MinOfNaturals
    <3>3. i \in Nat /\ Min(l) \in Nat /\ i <= Min(l) /\ Min(l) <= i
      BY <2>7, <3>1, <3>2
    <3>4. i = Min(l)
      BY <3>3
    <3> QED
      BY <3>1, <3>4
  <2> QED
    BY <2>2, <2>6, <2>8, <2>9
<1> QED
  BY <1>1, <1>2, <1>3, ViewerInvariant, PTL DEF Spec
=============================================================================
