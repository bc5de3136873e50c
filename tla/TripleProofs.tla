---------------------------- MODULE TripleProofs ----------------------------
(***************************************************************************)
(* Theorems about BitTriples, for any calls in any order, all methods,     *)
(* packings and offsets, and all random bits.                              *)
(***************************************************************************)
EXTENDS BitTriples, Powers, TLAPS

BitArrays(n) == [Slots(n) -> Bit]

\* What a call leaves in memory.
Arrays(c, a, b, r) == [ai |-> Stored(c, a), bi |-> Stored(c, b), ci |-> Stored(c, r)]

\* The a bits of the correlated method are the same offset apart.
Correlated(c, a) ==
  c.method = "8KKOT" =>
    \A i \in Slots(c.num) : (i \div c.offset) % 2 = 0 =>
      i + c.offset \in Slots(c.num) /\ a[i + c.offset] = a[i]

\* How many messages a call sends.
Width(c) == IF c.num = 0 THEN 0 ELSE IF c.method = "Ideal" THEN 3 ELSE 1

\* Which messages these are, from place o of w on, and that ALICE has filled
\* her arrays t with what they go with.
IdealDealt(c, t, w, o, ai, bi, ci, a, b) ==
  LET n == c.num IN
  /\ t = Arrays(c, ai, bi, ci)
  /\ w[o + 1] = PackedBytes(XorOn(n, a, ai), n)
  /\ w[o + 2] = PackedBytes(XorOn(n, b, bi), n)
  /\ w[o + 3] = PackedBytes(XorOn(n, [i \in Slots(n) |-> And(a[i], b[i])], ci), n)
OTDealt(c, t, w, o, a, b, r) ==
  /\ t = Arrays(c, a, b, r) /\ Correlated(c, a)
  /\ w[o + 1] = [m \in Slots(c.num \div 2) |->
                   [j \in Selections(c) |-> Offered(c, a, b, r, m, j)]]
Dealt(c, t, w, o) ==
  /\ c.num > 0 /\ c.method = "Ideal" =>
       \E ai, bi, ci, a, b \in BitArrays(c.num) : IdealDealt(c, t, w, o, ai, bi, ci, a, b)
  /\ c.num > 0 /\ c.method # "Ideal" =>
       \E a, b, r \in BitArrays(c.num) : OTDealt(c, t, w, o, a, b, r)

LocalInv ==
  /\ program \in Programs
  /\ at \in [Party -> Nat \ {0}]
  /\ \A p \in Party : at[p] <= Len(program) + 1
  /\ triples = [p \in Party |-> triples[p]]
  /\ \A p \in Party : IsList(triples[p], at[p] - 1)
  /\ mine # Nothing =>
       /\ IsOT(BOB)
       /\ \E a, b \in BitArrays(Call(BOB).num) : mine = <<a, b>> /\ Correlated(Call(BOB), a)

\* Where the messages of the first calls start, counted from the first call, when
\* ALICE is in call i.
Starts(start, prog, i) ==
  /\ start \in [1..i -> Nat]
  /\ \A k \in 1..(i - 1) : start[k + 1] = start[k] + Width(prog[k])
  /\ \A j, k \in 1..i : j <= k => start[j] <= start[k]

\* The n messages w under way are those of the calls that ALICE has made and BOB,
\* who is in call b, has not, in order, and ALICE has arrays ta that go with them.
\* BOB gets ahead in empty calls only.
UnderWay(start, n, prog, i, b, ta, w) ==
  /\ IsList(w, n)
  /\ b <= i => /\ n = start[i] - start[b]
               /\ \A k \in b..(i - 1) : Dealt(prog[k], ta[k], w, start[k] - start[b])
  /\ i < b => n = 0 /\ \A k \in i..(b - 1) : prog[k].num = 0

WireInv ==
  \E start : \E n \in Nat :
    /\ Starts(start, program, at[ALICE])
    /\ UnderWay(start, n, program, at[ALICE], at[BOB], triples[ALICE], wire)

IInv == LocalInv /\ WireInv /\ TriplesCorrect /\ SharedFactor

------------------------------------------------------------------------------
(* Bytes.                                                                  *)

LEMMA ByteFacts ==
  ASSUME NEW n \in Nat, NEW i \in Slots(n)
  PROVE  /\ i \div 8 \in Slots(NumBytes(n)) /\ i % 8 \in 0..7
         /\ 8 * (i \div 8) + (i % 8) = i
  <1>1. i \in Nat /\ i < n
    BY DEF Slots
  <1>2. PICK q \in Nat, t \in Nat : q = i \div 8 /\ t = i % 8 /\ t < 8 /\ i = 8 * q + t
    BY <1>1, DivMod
  <1>3. PICK x \in Nat : x = n + 8 - 1
    OBVIOUS
  <1>4. PICK z \in Nat, u \in Nat : z = x \div 8 /\ u < 8 /\ x = 8 * z + u
    BY DivMod
  <1>5. q < z
    BY <1>1, <1>2, <1>3, <1>4
  <1>6. NumBytes(n) = z
    BY <1>3, <1>4 DEF NumBytes, CeilDiv
  <1>7. q \in 0..(z - 1) /\ t \in 0..7
    BY <1>2, <1>5
  <1> QED
    BY <1>2, <1>6, <1>7 DEF Slots

LEMMA PackedBit ==
  ASSUME NEW n \in Nat, NEW f, NEW i \in Slots(n)
  PROVE  PackedBytes(f, n)[i \div 8][i % 8] = f[i]
  <1>1. i \in Nat /\ i < n
    BY DEF Slots
  <1>2. PICK q \in Slots(NumBytes(n)) : \E t \in 0..7 : q = i \div 8 /\ t = i % 8 /\ 8 * q + t = i
    BY ByteFacts, Zenon
  <1>3. PICK t \in 0..7 : q = i \div 8 /\ t = i % 8 /\ 8 * q + t = i
    BY <1>2
  <1>4. PackedBytes(f, n)[q][t] = IF 8 * q + t < n THEN f[8 * q + t] ELSE 0
    BY DEF PackedBytes
  <1> QED
    BY <1>1, <1>3, <1>4

\* Packing and unpacking, the last byte full or not.
LEMMA UnpackedPacked ==
  ASSUME NEW n \in Nat, NEW f \in BitArrays(n)
  PROVE  Unpacked(PackedBytes(f, n), n) = f
  <1>1. \A i \in Slots(n) : PackedBytes(f, n)[i \div 8][i % 8] = f[i]
    BY PackedBit
  <1>2. Unpacked(PackedBytes(f, n), n) = [i \in Slots(n) |-> f[i]]
    BY <1>1 DEF Unpacked
  <1> QED
    BY <1>2 DEF BitArrays

LEMMA StoredBit ==
  ASSUME NEW c, c.num \in Nat, NEW f, NEW i \in Slots(c.num)
  PROVE  BitAt(c, Stored(c, f), i) = f[i]
  BY PackedBit DEF BitAt, Stored

------------------------------------------------------------------------------
(* Layout.                                                                 *)

\* The two triples of an OT and the OT of a triple, when they are neighbours.
LEMMA NeighbourLayout ==
  ASSUME NEW c \in Calls, IsCall(c), c.method = "16KKOT_to_4OT", NEW i \in Slots(c.num)
  PROVE  \E m \in Slots(c.num \div 2) : \E x, y \in Slots(c.num) :
           /\ m = OtOf(c, i) /\ x = First(c, m) /\ y = Second(c, m)
           /\ x # y /\ i \in {x, y}
  <1>1. PICK n \in Nat : n = c.num /\ n % 2 = 0 /\ i \in Nat /\ i < n
    BY DEF IsCall, Calls, Slots
  <1>2. PICK z \in Nat : z = n \div 2 /\ n = 2 * z
    BY <1>1
  <1>3. PICK m \in Nat, t \in Nat : m = i \div 2 /\ t < 2 /\ i = 2 * m + t
    BY <1>1, DivMod
  <1>4. m < z
    BY <1>1, <1>2, <1>3
  <1>5. OtOf(c, i) = m /\ First(c, m) = 2 * m /\ Second(c, m) = 2 * m + 1
    BY <1>3 DEF OtOf, First, Second
  <1>6. 2 * m \in Slots(n) /\ 2 * m + 1 \in Slots(n) /\ m \in Slots(z) /\ 2 * m # 2 * m + 1
    <2>1. 2 * m \in 0..(n - 1) /\ 2 * m + 1 \in 0..(n - 1) /\ m \in 0..(z - 1)
      BY <1>1, <1>2, <1>4
    <2> QED
      BY <2>1 DEF Slots
  <1>7. i \in {2 * m, 2 * m + 1}
    BY <1>3
  <1> QED
    BY <1>1, <1>2, <1>5, <1>6, <1>7

\* And when they are offset apart, in blocks of twice offset: the OT m of triple
\* i, and its first triple x, which is in the first half of its block.
InBlock(n, off, i, m, x, q, t) ==
  /\ m = off * (i \div (2 * off)) + (i % off) /\ m < n \div 2
  /\ x = 2 * off * (m \div off) + (m % off) /\ x + off < n
  /\ i \in {x, x + off}
  /\ x = off * (2 * q) + t /\ t < off /\ x \div off = 2 * q
  /\ i = x + off => i \div off = 2 * q + 1

LEMMA BlockLayout ==
  ASSUME NEW n \in Nat, NEW off \in Nat, off > 0, n % (2 * off) = 0, NEW i \in Nat, i < n
  PROVE  \E m, x, q, t \in Nat : InBlock(n, off, i, m, x, q, t)
  <1>1. PICK d \in Nat : d = 2 * off /\ d > 0
    OBVIOUS
  <1>2. PICK z \in Nat, u \in Nat : z = n \div d /\ u = n % d /\ n = d * z + u
    BY <1>1, DivMod
  <1>3. PICK q \in Nat, s \in Nat : q = i \div d /\ s = i % d /\ s < d /\ i = d * q + s
    BY <1>1, DivMod
  <1>4. u = 0
    BY <1>1, <1>2
  <1>5. q < z
    <2>1. i < d * z
      BY <1>2, <1>4
    <2> QED
      BY <1>1, <1>3, <2>1, DivBound
  <1>6. PICK t \in Nat : t < off /\ (s = t \/ s = t + off)
    <2>1. CASE s < off
      BY <2>1
    <2>2. CASE ~(s < off)
      <3>1. s - off \in Nat /\ s - off < off /\ s = s - off + off
        BY <1>1, <1>3, <2>2
      <3> QED
        BY <3>1
    <2> QED
      BY <2>1, <2>2
  <1>7. PICK p \in Nat : p = off * q /\ d * q = 2 * p /\ 2 * off * q = 2 * p
    BY <1>1
  <1>8. PICK v \in Nat : v = off * z /\ d * z = 2 * v
    BY <1>1
  <1>9. p + off <= v
    <2>1. PICK e \in Nat : z = q + 1 + e
      <3>1. z - q - 1 \in Nat /\ z = q + 1 + (z - q - 1)
        BY <1>5
      <3> QED
        BY <3>1
    <2>2. off * z = off * q + off + off * e /\ off * e \in Nat
      BY <2>1
    <2> QED
      BY <1>7, <1>8, <2>2
  <1>10. n \div 2 = v
    <2>1. n = 2 * v + 0
      BY <1>2, <1>4, <1>8
    <2> QED
      BY <2>1, DivUnique
  <1>11. (p + t) \div off = q /\ (p + t) % off = t
    BY <1>6, <1>7, DivUnique
  <1>12. (2 * p + t) \div off = 2 * q
    <2>1. 2 * p + t = off * (2 * q) + t
      BY <1>7
    <2> QED
      BY <1>6, <2>1, DivUnique
  <1>13. i % off = t /\ (s = t + off => i \div off = 2 * q + 1)
    <2>1. CASE s = t
      <3>1. i = off * (2 * q) + t
        BY <1>3, <1>7, <2>1
      <3> QED
        BY <1>6, <2>1, <3>1, DivUnique
    <2>2. CASE s = t + off
      <3>1. i = off * (2 * q + 1) + t
        BY <1>3, <1>7, <2>2
      <3> QED
        BY <1>6, <3>1, DivUnique
    <2> QED
      BY <1>6, <2>1, <2>2
  <1>14. i = 2 * p + s
    BY <1>3, <1>7
  <1>15. PICK m \in Nat, x \in Nat : m = p + t /\ x = 2 * p + t
    OBVIOUS
  <1>16. /\ m < n \div 2 /\ x + off < n
    BY <1>2, <1>4, <1>6, <1>8, <1>9, <1>10, <1>15
  <1>17. i \in {x, x + off} /\ (i = x + off => s = t + off)
    BY <1>6, <1>14, <1>15
  <1>18. m = off * (i \div (2 * off)) + (i % off)
    BY <1>1, <1>3, <1>7, <1>13, <1>15
  <1>19. x = 2 * off * (m \div off) + (m % off)
    BY <1>7, <1>11, <1>15
  <1>20. x = off * (2 * q) + t /\ x \div off = 2 * q
    BY <1>7, <1>12, <1>15
  <1>21. i = x + off => i \div off = 2 * q + 1
    BY <1>13, <1>17
  <1>22. InBlock(n, off, i, m, x, q, t)
    BY <1>6, <1>16, <1>17, <1>18, <1>19, <1>20, <1>21, Zenon DEF InBlock
  <1> QED
    BY <1>22

LEMMA OTLayout ==
  ASSUME NEW c \in Calls, IsCall(c), c.method # "Ideal", NEW i \in Slots(c.num)
  PROVE  \E m \in Slots(c.num \div 2) : \E x, y \in Slots(c.num) :
           /\ m = OtOf(c, i) /\ x = First(c, m) /\ y = Second(c, m)
           /\ x # y /\ i \in {x, y}
           /\ c.method = "8KKOT" => (x \div c.offset) % 2 = 0 /\ y = x + c.offset
  <1>1. CASE c.method = "16KKOT_to_4OT"
    BY <1>1, NeighbourLayout
  <1>2. CASE c.method = "8KKOT"
    <2>1. PICK n \in Nat, off \in Nat : n = c.num /\ off = c.offset /\ off > 0 /\ n % (2 * off) = 0
      BY <1>2 DEF IsCall, Calls
    <2>2. i \in Nat /\ i < n
      BY <2>1 DEF Slots
    <2>3. PICK m, x, q, t \in Nat : InBlock(n, off, i, m, x, q, t)
      BY <2>1, <2>2, BlockLayout
    <2>4. OtOf(c, i) = m /\ First(c, m) = x /\ Second(c, m) = x + off
      BY <1>2, <2>1, <2>3 DEF OtOf, First, Second, InBlock
    <2>5. m \in Slots(n \div 2) /\ x \in Slots(n) /\ x + off \in Slots(n)
      <3>1. PICK h \in Int : h = n \div 2
        BY <2>1
      <3>2. m < h /\ x + off < n
        BY <2>3, <3>1, Zenon DEF InBlock
      <3>3. m \in 0..(h - 1) /\ x \in 0..(n - 1) /\ x + off \in 0..(n - 1)
        BY <2>1, <3>2
      <3> QED
        BY <3>1, <3>3 DEF Slots
    <2>6. (x \div off) % 2 = 0 /\ x # x + off /\ i \in {x, x + off}
      <3>1. x \div off = 2 * q
        BY <2>3 DEF InBlock
      <3>2. (2 * q) % 2 = 0
        OBVIOUS
      <3>3. x # x + off /\ i \in {x, x + off}
        BY <2>1, <2>3 DEF InBlock
      <3> QED
        BY <3>1, <3>2, <3>3
    <2> QED
      BY <2>1, <2>3, <2>4, <2>5, <2>6
  <1> QED
    BY <1>1, <1>2 DEF Calls, Methods

\* What the parties draw in a call: bits, correlated where they have to be.
LEMMA Drawn ==
  ASSUME TripleAssumption, NEW prog \in Programs, NEW k \in DOMAIN prog
  PROVE  /\ prog[k] \in Calls /\ IsCall(prog[k])
         /\ Draw(prog[k].num) \subseteq BitArrays(prog[k].num)
         /\ \A a \in DrawA(prog[k]) : a \in BitArrays(prog[k].num) /\ Correlated(prog[k], a)
  <1> DEFINE c == prog[k]
  <1>1. c \in Calls /\ IsCall(c)
    <2>1. prog \in Seq(Calls) /\ IsCall(c)
      BY DEF TripleAssumption
    <2> HIDE DEF Calls
    <2> QED
      BY <2>1
  <1>2. PICK n \in Nat : n = c.num
    BY <1>1 DEF Calls
  <1>3. ASSUME NEW f \in Patterns, NEW i \in Slots(n)
        PROVE  f[i] \in Bit
    <2>1. PICK z \in Int : z = 8 * CeilDiv(n, 8) /\ n <= z
      <3>1. PICK y \in Nat, u \in Nat : y = (n + 8 - 1) \div 8 /\ u < 8 /\ n + 8 - 1 = 8 * y + u
        BY DivMod
      <3> QED
        BY <3>1 DEF CeilDiv
    <2>2. i \in 0..(8 * CeilDiv(n, 8) - 1)
      <3>1. i \in 0..(z - 1)
        BY <2>1 DEF Slots
      <3> QED
        BY <2>1, <3>1
    <2> QED
      BY <1>2, <2>2 DEF TripleAssumption
  <1>4. Draw(n) \subseteq BitArrays(n)
    BY <1>3 DEF Draw, BitArrays
  <1>5. ASSUME NEW a \in DrawA(c)
        PROVE  a \in BitArrays(n) /\ Correlated(c, a)
    <2>1. CASE c.method # "8KKOT"
      BY <1>2, <1>4, <2>1 DEF DrawA, Correlated
    <2>2. CASE c.method = "8KKOT"
      <3>1. PICK off \in Nat : off = c.offset /\ off > 0 /\ n % (2 * off) = 0
        BY <1>1, <1>2, <2>2 DEF IsCall, Calls
      <3>2. PICK f \in BitArrays(n) :
              a = [i \in Slots(n) |-> IF (i \div off) % 2 = 0 THEN f[i] ELSE f[i - off]]
        BY <1>2, <1>4, <2>2, <3>1 DEF DrawA
      <3>3. ASSUME NEW i \in Slots(n)
            PROVE  /\ (i \div off) % 2 = 0 => /\ i + off \in Slots(n) /\ i + off - off = i
                                              /\ ((i + off) \div off) % 2 # 0
                   /\ (i \div off) % 2 # 0 => i - off \in Slots(n)
        <4>1. i \in Nat /\ i < n
          BY DEF Slots
        <4>2. PICK m, x, q, t \in Nat : InBlock(n, off, i, m, x, q, t)
          BY <3>1, <4>1, BlockLayout
        <4>3. x + off < n /\ i \in {x, x + off} /\ x = off * (2 * q) + t
          BY <4>2 DEF InBlock
        <4>4. (2 * q) % 2 = 0 /\ (2 * q + 1) % 2 = 1 /\ t < off
          BY <4>2 DEF InBlock
        <4>5. CASE i = x
          <5>1. x + off = off * (2 * q + 1) + t
            BY <4>3
          <5>2. (x + off) \div off = 2 * q + 1
            <6>1. PICK z \in Nat, h \in Nat : z = x + off /\ h = 2 * q + 1 /\ z = off * h + t
              BY <3>1, <5>1
            <6>2. z \div off = h
              BY <3>1, <4>4, <6>1, DivUnique, Zenon
            <6> QED
              BY <6>1, <6>2
          <5>3. i \div off = 2 * q
            BY <4>2, <4>5 DEF InBlock
          <5>4. i + off \in 0..(n - 1) /\ i + off - off = i
            BY <4>1, <4>3, <4>5
          <5>5. ((i + off) \div off) % 2 # 0 /\ (i \div off) % 2 = 0
            BY <4>4, <4>5, <5>2, <5>3
          <5> QED
            BY <5>4, <5>5 DEF Slots
        <4>6. CASE i = x + off
          <5>1. i \div off = 2 * q + 1
            BY <4>2, <4>6 DEF InBlock
          <5>2. i - off \in 0..(n - 1)
            BY <3>1, <4>1, <4>3, <4>6
          <5>3. (i \div off) % 2 # 0
            BY <4>4, <5>1
          <5> QED
            BY <5>2, <5>3 DEF Slots
        <4> QED
          BY <4>3, <4>5, <4>6
      <3>4. ASSUME NEW i \in Slots(n)
            PROVE  a[i] \in Bit
        BY <3>2, <3>3 DEF BitArrays
      <3>5. ASSUME NEW i \in Slots(n), (i \div off) % 2 = 0
            PROVE  i + off \in Slots(n) /\ a[i + off] = a[i]
        <4>1. i + off \in Slots(n) /\ i + off - off = i /\ ((i + off) \div off) % 2 # 0
          BY <3>3, <3>5
        <4>2. a[i] = f[i]
          BY <3>2, <3>5
        <4>3. a[i + off] = f[i + off - off]
          <5>1. PICK d \in Slots(n) : d = i + off
            BY <4>1
          <5>2. (d \div off) % 2 # 0
            BY <4>1, <5>1
          <5>3. a[d] = f[d - off]
            BY <3>2, <5>2
          <5> QED
            BY <5>1, <5>3
        <4>4. a[i + off] = f[i]
          BY <4>1, <4>3
        <4> QED
          BY <4>1, <4>2, <4>4
      <3>6. a \in BitArrays(n)
        BY <3>2, <3>4 DEF BitArrays
      <3>7. Correlated(c, a)
        BY <1>2, <3>1, <3>5 DEF Correlated
      <3> QED
        BY <3>6, <3>7
    <2> QED
      BY <2>1, <2>2
  <1> QED
    BY <1>1, <1>2, <1>4, <1>5

\* One message of an OT completes the shares of a product.
LEMMA ProductShares ==
  ASSUME NEW a \in Bit, NEW b \in Bit, NEW r \in Bit, NEW ja \in Bit, NEW jb \in Bit
  PROVE  Xor(r, Product(a, b, r, ja, jb)) = And(Xor(a, ja), Xor(b, jb))
  BY DEF Bit, Xor, And, Product

LEMMA IdealShares ==
  ASSUME NEW a \in Bit, NEW b \in Bit, NEW ai \in Bit, NEW bi \in Bit, NEW ci \in Bit
  PROVE  Xor(ci, Xor(And(a, b), ci)) = And(Xor(ai, Xor(a, ai)), Xor(bi, Xor(b, bi)))
  BY DEF Bit, Xor, And

------------------------------------------------------------------------------
(* What a call makes of its messages.                                      *)

\* Arrays x and y are shares of triples.
PairCorrect(c, x, y) ==
  \A i \in Slots(c.num) :
    Xor(BitAt(c, x.ci, i), BitAt(c, y.ci, i)) =
      And(Xor(BitAt(c, x.ai, i), BitAt(c, y.ai, i)),
          Xor(BitAt(c, x.bi, i), BitAt(c, y.bi, i)))

\* Triples of x offset apart share their first factor.
FactorShared(c, x) ==
  c.method = "8KKOT" =>
    \A i \in Slots(c.num) : (i \div c.offset) % 2 = 0 =>
      BitAt(c, x.ai, i) = BitAt(c, x.ai, i + c.offset)

LEMMA ArraysBits ==
  ASSUME NEW c \in Calls, NEW a, NEW b, NEW r, NEW i \in Slots(c.num)
  PROVE  /\ BitAt(c, Arrays(c, a, b, r).ai, i) = a[i]
         /\ BitAt(c, Arrays(c, a, b, r).bi, i) = b[i]
         /\ BitAt(c, Arrays(c, a, b, r).ci, i) = r[i]
  <1>1. c.num \in Nat
    BY DEF Calls
  <1>2. BitAt(c, Stored(c, a), i) = a[i] /\ BitAt(c, Stored(c, b), i) = b[i]
        /\ BitAt(c, Stored(c, r), i) = r[i]
    BY <1>1, StoredBit
  <1> HIDE DEF BitAt, Stored
  <1> QED
    BY <1>2 DEF Arrays

LEMMA PairFromBits ==
  ASSUME NEW c \in Calls, NEW a, NEW b, NEW r, NEW aa, NEW bb, NEW rr,
         \A i \in Slots(c.num) : Xor(r[i], rr[i]) = And(Xor(a[i], aa[i]), Xor(b[i], bb[i]))
  PROVE  PairCorrect(c, Arrays(c, a, b, r), Arrays(c, aa, bb, rr))
  <1> SUFFICES ASSUME NEW i \in Slots(c.num)
               PROVE  Xor(BitAt(c, Arrays(c, a, b, r).ci, i), BitAt(c, Arrays(c, aa, bb, rr).ci, i)) =
                        And(Xor(BitAt(c, Arrays(c, a, b, r).ai, i),
                                BitAt(c, Arrays(c, aa, bb, rr).ai, i)),
                            Xor(BitAt(c, Arrays(c, a, b, r).bi, i),
                                BitAt(c, Arrays(c, aa, bb, rr).bi, i)))
    BY Zenon DEF PairCorrect
  <1>1. /\ BitAt(c, Arrays(c, a, b, r).ai, i) = a[i]
        /\ BitAt(c, Arrays(c, a, b, r).bi, i) = b[i]
        /\ BitAt(c, Arrays(c, a, b, r).ci, i) = r[i]
    BY ArraysBits
  <1>2. /\ BitAt(c, Arrays(c, aa, bb, rr).ai, i) = aa[i]
        /\ BitAt(c, Arrays(c, aa, bb, rr).bi, i) = bb[i]
        /\ BitAt(c, Arrays(c, aa, bb, rr).ci, i) = rr[i]
    BY ArraysBits
  <1> QED
    BY <1>1, <1>2

LEMMA FactorFromBits ==
  ASSUME NEW c \in Calls, NEW a, NEW b, NEW r, Correlated(c, a)
  PROVE  FactorShared(c, Arrays(c, a, b, r))
  <1> SUFFICES ASSUME c.method = "8KKOT", NEW i \in Slots(c.num), (i \div c.offset) % 2 = 0
               PROVE  BitAt(c, Arrays(c, a, b, r).ai, i)
                        = BitAt(c, Arrays(c, a, b, r).ai, i + c.offset)
    BY DEF FactorShared
  <1>1. i + c.offset \in Slots(c.num) /\ a[i + c.offset] = a[i]
    BY DEF Correlated
  <1>2. PICK j \in Slots(c.num) : j = i + c.offset
    BY <1>1
  <1>3. BitAt(c, Arrays(c, a, b, r).ai, i) = a[i]
    BY ArraysBits
  <1>4. BitAt(c, Arrays(c, a, b, r).ai, j) = a[j]
    BY ArraysBits
  <1> QED
    BY <1>1, <1>2, <1>3, <1>4

LEMMA IdealPair ==
  ASSUME NEW c \in Calls, NEW t, NEW w, c.num > 0, c.method = "Ideal", Dealt(c, t, w, 0)
  PROVE  PairCorrect(c, t, Arrays(c, Unpacked(w[1], c.num), Unpacked(w[2], c.num),
                                  Unpacked(w[3], c.num)))
  <1>1. PICK n \in Nat : n = c.num
    BY DEF Calls
  <1>2. PICK ai, bi, ci, a, b \in BitArrays(n) : IdealDealt(c, t, w, 0, ai, bi, ci, a, b)
    BY <1>1 DEF Dealt
  <1> DEFINE ab == [i \in Slots(n) |-> And(a[i], b[i])]
  <1>3. \A f, g \in BitArrays(n) : XorOn(n, f, g) \in BitArrays(n)
    BY DEF XorOn, BitArrays, Bit, Xor
  <1>4. ab \in BitArrays(n)
    BY DEF BitArrays, Bit, And
  <1>5. /\ Unpacked(w[1], n) = XorOn(n, a, ai) /\ Unpacked(w[2], n) = XorOn(n, b, bi)
        /\ Unpacked(w[3], n) = XorOn(n, ab, ci)
    <2>1. /\ w[1] = PackedBytes(XorOn(n, a, ai), n) /\ w[2] = PackedBytes(XorOn(n, b, bi), n)
          /\ w[3] = PackedBytes(XorOn(n, ab, ci), n)
      BY <1>1, <1>2 DEF IdealDealt
    <2>2. /\ XorOn(n, a, ai) \in BitArrays(n) /\ XorOn(n, b, bi) \in BitArrays(n)
          /\ XorOn(n, ab, ci) \in BitArrays(n)
      <3> HIDE DEF ab
      <3> QED
        BY <1>3, <1>4
    <2> HIDE DEF ab
    <2> QED
      BY <2>1, <2>2, UnpackedPacked
  <1>6. ASSUME NEW i \in Slots(n)
        PROVE  Xor(ci[i], XorOn(n, ab, ci)[i])
                 = And(Xor(ai[i], XorOn(n, a, ai)[i]), Xor(bi[i], XorOn(n, b, bi)[i]))
    <2>1. a[i] \in Bit /\ b[i] \in Bit /\ ai[i] \in Bit /\ bi[i] \in Bit /\ ci[i] \in Bit
      BY DEF BitArrays
    <2>2. /\ XorOn(n, ab, ci)[i] = Xor(And(a[i], b[i]), ci[i])
          /\ XorOn(n, a, ai)[i] = Xor(a[i], ai[i]) /\ XorOn(n, b, bi)[i] = Xor(b[i], bi[i])
      BY DEF XorOn
    <2>3. Xor(ci[i], Xor(And(a[i], b[i]), ci[i]))
            = And(Xor(ai[i], Xor(a[i], ai[i])), Xor(bi[i], Xor(b[i], bi[i])))
      <3>1. PICK p, q, u, v, r \in Bit :
              p = a[i] /\ q = b[i] /\ u = ai[i] /\ v = bi[i] /\ r = ci[i]
        BY <2>1
      <3>2. Xor(r, Xor(And(p, q), r)) = And(Xor(u, Xor(p, u)), Xor(v, Xor(q, v)))
        BY DEF Bit, Xor, And
      <3> QED
        BY <3>1, <3>2
    <2> HIDE DEF ab
    <2> QED
      BY <2>2, <2>3
  <1> HIDE DEF ab
  <1>7. PairCorrect(c, Arrays(c, ai, bi, ci),
                    Arrays(c, XorOn(n, a, ai), XorOn(n, b, bi), XorOn(n, ab, ci)))
    BY <1>1, <1>6, PairFromBits
  <1> QED
    BY <1>1, <1>2, <1>5, <1>7 DEF IdealDealt

LEMMA OTPair ==
  ASSUME NEW c \in Calls, IsCall(c), NEW t, NEW w, c.num > 0, c.method # "Ideal",
         Dealt(c, t, w, 0),
         NEW aa \in BitArrays(c.num), NEW bb \in BitArrays(c.num), Correlated(c, aa)
  PROVE  PairCorrect(c, t,
           Arrays(c, aa, bb,
             [i \in Slots(c.num) |->
                w[1][OtOf(c, i)][Selection(c, aa, bb, OtOf(c, i))]
                  [IF i = First(c, OtOf(c, i)) THEN 1 ELSE 2]]))
  <1>1. PICK n \in Nat : n = c.num
    BY DEF Calls
  <1>2. PICK a, b, r \in BitArrays(n) : OTDealt(c, t, w, 0, a, b, r)
    BY <1>1 DEF Dealt
  <1> DEFINE rr == [i \in Slots(c.num) |->
                      w[1][OtOf(c, i)][Selection(c, aa, bb, OtOf(c, i))]
                        [IF i = First(c, OtOf(c, i)) THEN 1 ELSE 2]]
  <1>3. ASSUME NEW i \in Slots(n)
        PROVE  Xor(r[i], rr[i]) = And(Xor(a[i], aa[i]), Xor(b[i], bb[i]))
    <2>1. PICK m \in Slots(n \div 2) : \E x, y \in Slots(n) :
            /\ m = OtOf(c, i) /\ x = First(c, m) /\ y = Second(c, m)
            /\ x # y /\ i \in {x, y}
            /\ c.method = "8KKOT" => (x \div c.offset) % 2 = 0 /\ y = x + c.offset
      BY <1>1, OTLayout
    <2>2. PICK x, y \in Slots(n) :
            /\ m = OtOf(c, i) /\ x = First(c, m) /\ y = Second(c, m)
            /\ x # y /\ i \in {x, y}
            /\ c.method = "8KKOT" => (x \div c.offset) % 2 = 0 /\ y = x + c.offset
      BY <2>1
    <2>3. /\ a[x] \in Bit /\ b[x] \in Bit /\ r[x] \in Bit /\ aa[x] \in Bit /\ bb[x] \in Bit
          /\ a[y] \in Bit /\ b[y] \in Bit /\ r[y] \in Bit /\ aa[y] \in Bit /\ bb[y] \in Bit
      BY <1>1 DEF BitArrays
    <2>4. PICK j : j = Selection(c, aa, bb, m)
      OBVIOUS
    <2>5. /\ j \in Selections(c) /\ j[1] = aa[x] /\ j[2] = bb[x]
          /\ c.method = "8KKOT" => j[1] = aa[y] /\ j[3] = bb[y]
          /\ c.method # "8KKOT" => j[3] = aa[y] /\ j[4] = bb[y]
      <3>1. CASE c.method = "8KKOT"
        <4>1. j = <<aa[x], bb[x], bb[y]>>
          BY <2>2, <2>4, <3>1 DEF Selection
        <4>2. aa[y] = aa[x]
          BY <1>1, <2>2, <3>1 DEF Correlated
        <4> QED
          BY <2>3, <3>1, <4>1, <4>2 DEF Selections
      <3>2. CASE c.method # "8KKOT"
        <4>1. j = <<aa[x], bb[x], aa[y], bb[y]>>
          BY <2>2, <2>4, <3>2 DEF Selection
        <4> QED
          BY <2>3, <3>2, <4>1 DEF Selections
      <3> QED
        BY <3>1, <3>2
    <2>6. w[1][m][j] = Offered(c, a, b, r, m, j)
      BY <1>1, <1>2, <2>5 DEF OTDealt
    <2>7. Offered(c, a, b, r, m, j) = <<Product(a[x], b[x], r[x], aa[x], bb[x]),
                                        Product(a[y], b[y], r[y], aa[y], bb[y])>>
      BY <2>2, <2>5 DEF Offered
    <2>8. rr[i] = w[1][m][j][IF i = x THEN 1 ELSE 2]
      BY <1>1, <2>2, <2>4
    <2> HIDE DEF rr
    <2>9. CASE i = x
      <3>1. rr[i] = Product(a[x], b[x], r[x], aa[x], bb[x])
        BY <2>6, <2>7, <2>8, <2>9
      <3>2. Xor(r[x], Product(a[x], b[x], r[x], aa[x], bb[x]))
              = And(Xor(a[x], aa[x]), Xor(b[x], bb[x]))
        <4>1. PICK p, q, s, u, v \in Bit :
                p = a[x] /\ q = b[x] /\ s = r[x] /\ u = aa[x] /\ v = bb[x]
          BY <2>3
        <4>2. Xor(s, Product(p, q, s, u, v)) = And(Xor(p, u), Xor(q, v))
          BY ProductShares
        <4> QED
          BY <4>1, <4>2
      <3> QED
        BY <2>9, <3>1, <3>2
    <2>10. CASE i = y
      <3>1. rr[i] = Product(a[y], b[y], r[y], aa[y], bb[y])
        BY <2>2, <2>6, <2>7, <2>8, <2>10
      <3>2. Xor(r[y], Product(a[y], b[y], r[y], aa[y], bb[y]))
              = And(Xor(a[y], aa[y]), Xor(b[y], bb[y]))
        <4>1. PICK p, q, s, u, v \in Bit :
                p = a[y] /\ q = b[y] /\ s = r[y] /\ u = aa[y] /\ v = bb[y]
          BY <2>3
        <4>2. Xor(s, Product(p, q, s, u, v)) = And(Xor(p, u), Xor(q, v))
          BY ProductShares
        <4> QED
          BY <4>1, <4>2
      <3> QED
        BY <2>10, <3>1, <3>2
    <2> QED
      BY <2>2, <2>9, <2>10
  <1> HIDE DEF rr
  <1>4. PairCorrect(c, Arrays(c, a, b, r), Arrays(c, aa, bb, rr))
    BY <1>1, <1>3, PairFromBits
  <1> QED
    BY <1>2, <1>4 DEF rr, OTDealt

------------------------------------------------------------------------------
(* The arrays of a party.                                                  *)

\* What Filled and ReturnEmpty do: party p has arrays t of the call it was in.
Adds(p, t) ==
  /\ triples' = [triples EXCEPT ![p] = Append(@, t)]
  /\ at' = [at EXCEPT ![p] = @ + 1]

LEMMA Parties ==
  Party = {ALICE, BOB} /\ ALICE # BOB /\ ALICE \in Party /\ BOB \in Party
  BY DEF Party, ALICE, BOB

LEMMA CallFacts ==
  ASSUME TripleAssumption, LocalInv
  PROVE  /\ Len(program) \in Nat
         /\ \A k \in 1..Len(program) : /\ program[k] \in Calls /\ IsCall(program[k])
                                       /\ program[k].num \in Nat /\ Width(program[k]) \in Nat
         /\ \A p \in Party : /\ at[p] \in Nat \ {0} /\ at[p] <= Len(program) + 1
                             /\ Active(p) => at[p] \in 1..Len(program)
  <1>1. program \in Seq(Calls) /\ program \in Programs
    BY DEF TripleAssumption, LocalInv
  <1>2. Len(program) \in Nat /\ DOMAIN program = 1..Len(program)
    <2> HIDE DEF Calls
    <2> QED
      BY <1>1
  <1>3. ASSUME NEW k \in 1..Len(program)
        PROVE  /\ program[k] \in Calls /\ IsCall(program[k])
               /\ program[k].num \in Nat /\ Width(program[k]) \in Nat
    <2>1. program[k] \in Calls /\ IsCall(program[k])
      BY <1>1, <1>2, Drawn
    <2>2. program[k].num \in Nat
      BY <2>1 DEF Calls
    <2> QED
      BY <2>1, <2>2 DEF Width
  <1>4. \A p \in Party : /\ at[p] \in Nat \ {0} /\ at[p] <= Len(program) + 1
                         /\ Active(p) => at[p] \in 1..Len(program)
    BY <1>2 DEF LocalInv, Active
  <1> QED
    BY <1>2, <1>3, <1>4

LEMMA Added ==
  ASSUME TripleAssumption, LocalInv, NEW p \in Party, NEW t, Active(p), Adds(p, t)
  PROVE  /\ at' \in [Party -> Nat \ {0}]
         /\ \A q \in Party : at'[q] <= Len(program) + 1
         /\ triples' = [q \in Party |-> triples'[q]]
         /\ \A q \in Party : IsList(triples'[q], at'[q] - 1)
         /\ at'[p] = at[p] + 1
         /\ triples'[p][at[p]] = t
         /\ \A k \in 1..(at[p] - 1) : triples'[p][k] = triples[p][k]
         /\ \A q \in Party : q # p => at'[q] = at[q] /\ triples'[q] = triples[q]
  <1>1. PICK m \in Nat : at[p] = m + 1 /\ IsList(triples[p], m) /\ at[p] - 1 = m
    <2>1. at[p] - 1 \in Nat /\ at[p] = at[p] - 1 + 1
      BY CallFacts
    <2>2. IsList(triples[p], at[p] - 1)
      BY DEF LocalInv
    <2> QED
      BY <2>1, <2>2
  <1>2. PICK u : IsAppend(u, triples[p], t)
    BY DEF IsAppend
  <1>21. IsList(u, m + 1) /\ u[m + 1] = t /\ \A k \in 1..m : u[k] = triples[p][k]
    <2>1. PICK s : s = triples[p]
      OBVIOUS
    <2>2. IsList(s, m) /\ IsAppend(u, s, t)
      BY <1>1, <1>2, <2>1
    <2>3. IsList(u, m + 1) /\ u[m + 1] = t /\ \A k \in 1..m : u[k] = s[k]
      BY <2>2, AppendedList
    <2> QED
      BY <2>1, <2>3
  <1>3. /\ triples'[p] = u /\ at'[p] = at[p] + 1
        /\ \A q \in Party : q # p => at'[q] = at[q] /\ triples'[q] = triples[q]
        /\ triples' = [q \in Party |-> triples'[q]]
    BY <1>2 DEF Adds, LocalInv, IsAppend
  <1>4. at' \in [Party -> Nat \ {0}]
    <2>1. at[p] + 1 \in Nat \ {0}
      BY <1>1
    <2> QED
      BY <2>1 DEF Adds, LocalInv
  <1>5. ASSUME NEW q \in Party
        PROVE  at'[q] <= Len(program) + 1 /\ IsList(triples'[q], at'[q] - 1)
    <2>1. CASE q = p
      <3>1. at'[p] - 1 = m + 1 /\ at'[p] <= Len(program) + 1
        BY <1>1, <1>3, CallFacts DEF Active
      <3> QED
        BY <1>21, <1>3, <2>1, <3>1
    <2>2. CASE q # p
      BY <1>3, <2>2 DEF LocalInv
    <2> QED
      BY <2>1, <2>2
  <1> QED
    BY <1>1, <1>21, <1>3, <1>4, <1>5

LEMMA LocalStep ==
  ASSUME TripleAssumption, LocalInv, NEW p \in Party, NEW t, Active(p), Adds(p, t),
         program' = program, p = ALICE => mine' = mine, p = BOB => mine' = Nothing
  PROVE  LocalInv'
  <1>1. /\ program' \in Programs
        /\ at' \in [Party -> Nat \ {0}]
        /\ \A q \in Party : at'[q] <= Len(program') + 1
        /\ triples' = [q \in Party |-> triples'[q]]
        /\ \A q \in Party : IsList(triples'[q], at'[q] - 1)
    BY Added DEF LocalInv
  <1>2. ASSUME mine' # Nothing
        PROVE  /\ IsOT(BOB)'
               /\ \E a, b \in BitArrays(Call(BOB).num)' :
                    mine' = <<a, b>> /\ Correlated(Call(BOB), a)'
    <2>1. p = ALICE /\ at'[BOB] = at[BOB] /\ mine' = mine
      BY <1>2, Added, Parties
    <2> QED
      BY <1>2, <2>1 DEF LocalInv, IsOT, Active, Call, Correlated, BitArrays
  <1> QED
    BY <1>1, <1>2 DEF LocalInv, Nothing

\* The two properties of the arrays, by call.
LEMMA Reads ==
  ASSUME TripleAssumption, LocalInv
  PROVE  /\ DOMAIN triples[ALICE] \cap DOMAIN triples[BOB]
              = {k \in Nat \ {0} : k < at[ALICE] /\ k < at[BOB]}
         /\ \A p \in Party : DOMAIN triples[p] = {k \in Nat \ {0} : k < at[p]}
  <1>1. ASSUME NEW p \in Party
        PROVE  DOMAIN triples[p] = {k \in Nat \ {0} : k < at[p]}
    <2>1. at[p] \in Nat \ {0} /\ at[p] - 1 \in Nat /\ IsList(triples[p], at[p] - 1)
      BY CallFacts DEF LocalInv
    <2>2. DOMAIN triples[p] = 1..(at[p] - 1)
      BY <2>1, ListFacts
    <2> QED
      BY <2>1, <2>2
  <1> QED
    BY <1>1, Parties

LEMMA ArraysStep ==
  ASSUME TripleAssumption, LocalInv, TriplesCorrect, SharedFactor,
         NEW p \in Party, NEW t, Active(p), Adds(p, t), program' = program, LocalInv',
         FactorShared(Call(p), t),
         p = ALICE /\ at[ALICE] < at[BOB] =>
           PairCorrect(program[at[ALICE]], t, triples[BOB][at[ALICE]]),
         p = BOB /\ at[BOB] < at[ALICE] =>
           PairCorrect(program[at[BOB]], triples[ALICE][at[BOB]], t)
  PROVE  TriplesCorrect' /\ SharedFactor'
  <1> DEFINE both == DOMAIN triples[ALICE] \cap DOMAIN triples[BOB]
  <1>1. /\ both = {k \in Nat \ {0} : k < at[ALICE] /\ k < at[BOB]}
        /\ both' = {k \in Nat \ {0} : k < at'[ALICE] /\ k < at'[BOB]}
        /\ \A q \in Party : DOMAIN triples[q] = {k \in Nat \ {0} : k < at[q]}
        /\ \A q \in Party : DOMAIN triples'[q] = {k \in Nat \ {0} : k < at'[q]}
    <2>1. ASSUME NEW q \in Party
          PROVE  DOMAIN triples'[q] = {k \in Nat \ {0} : k < at'[q]}
      <3>1. PICK s : s = triples'[q]
        OBVIOUS
      <3>2. PICK m \in Nat : at'[q] = m + 1 /\ at'[q] - 1 = m
        <4>1. at'[q] \in Nat \ {0}
          BY DEF LocalInv
        <4>2. at'[q] - 1 \in Nat /\ at'[q] = at'[q] - 1 + 1
          BY <4>1
        <4> QED
          BY <4>2
      <3>3. IsList(s, m)
        BY <3>1, <3>2 DEF LocalInv
      <3>4. DOMAIN s = 1..m
        BY <3>3, ListFacts
      <3> QED
        BY <3>1, <3>2, <3>4
    <2>2. both' = {k \in Nat \ {0} : k < at'[ALICE] /\ k < at'[BOB]}
      BY <2>1, Parties
    <2> QED
      BY <2>1, <2>2, Reads
  <1>2. /\ at'[p] = at[p] + 1 /\ triples'[p][at[p]] = t
        /\ \A k \in 1..(at[p] - 1) : triples'[p][k] = triples[p][k]
        /\ \A q \in Party : q # p => at'[q] = at[q] /\ triples'[q] = triples[q]
    BY Added
  <1>3. \A q \in Party : at[q] \in Nat \ {0} /\ at'[q] \in Nat \ {0}
    BY DEF LocalInv
  <1>4. ASSUME NEW q \in Party, NEW k \in DOMAIN triples'[q]
        PROVE  \/ k \in DOMAIN triples[q] /\ triples'[q][k] = triples[q][k]
               \/ q = p /\ k = at[p] /\ triples'[q][k] = t
    <2>1. k \in Nat \ {0} /\ k < at'[q]
      BY <1>1
    <2>2. CASE q # p
      BY <1>1, <1>2, <2>1, <2>2
    <2>3. CASE q = p /\ k # at[p]
      <3>1. k < at[p] /\ k \in 1..(at[p] - 1)
        BY <1>2, <1>3, <2>1, <2>3
      <3> QED
        BY <1>1, <1>2, <2>1, <2>3, <3>1
    <2> QED
      BY <1>2, <2>2, <2>3
  <1>5. ASSUME NEW k \in both'
        PROVE  PairCorrect(program[k], triples'[ALICE][k], triples'[BOB][k])
    <2>1. k \in Nat \ {0} /\ k < at'[ALICE] /\ k < at'[BOB]
      BY <1>1
    <2>2. CASE k \in both
      <3>1. k # at[p]
        BY <1>1, <1>3, <2>2, Parties
      <3>2. triples'[ALICE][k] = triples[ALICE][k] /\ triples'[BOB][k] = triples[BOB][k]
        BY <1>4, <3>1, Parties
      <3> QED
        BY <2>2, <3>2 DEF TriplesCorrect, PairCorrect
    <2>3. CASE k \notin both
      <3>1. k = at[p]
        BY <1>1, <1>2, <1>3, <2>1, <2>3, Parties
      <3>2. CASE p = ALICE
        BY <1>2, <2>1, <3>1, <3>2, Parties
      <3>3. CASE p = BOB
        BY <1>2, <2>1, <3>1, <3>3, Parties
      <3> QED
        BY <3>2, <3>3, Parties
    <2> QED
      BY <2>2, <2>3
  <1>6. ASSUME NEW q \in Party, NEW k \in DOMAIN triples'[q]
        PROVE  FactorShared(program[k], triples'[q][k])
    <2>1. CASE k \in DOMAIN triples[q] /\ triples'[q][k] = triples[q][k]
      BY <2>1 DEF SharedFactor, FactorShared
    <2>2. CASE q = p /\ k = at[p] /\ triples'[q][k] = t
      BY <2>2 DEF Call
    <2> QED
      BY <1>4, <2>1, <2>2
  <1>7. TriplesCorrect'
    BY <1>5 DEF TriplesCorrect, PairCorrect
  <1>8. SharedFactor'
    BY <1>6 DEF SharedFactor, FactorShared
  <1> QED
    BY <1>7, <1>8

------------------------------------------------------------------------------
(* The messages under way.                                                 *)

LEMMA DealtMoved ==
  ASSUME NEW c \in Calls, NEW t, NEW w1, NEW o1, NEW w2, NEW o2,
         \A d \in 1..Width(c) : w2[o2 + d] = w1[o1 + d], Dealt(c, t, w1, o1)
  PROVE  Dealt(c, t, w2, o2)
  <1>1. c.num \in Nat
    BY DEF Calls
  <1>2. ASSUME c.num > 0, c.method = "Ideal"
        PROVE  \E ai, bi, ci, a, b \in BitArrays(c.num) : IdealDealt(c, t, w2, o2, ai, bi, ci, a, b)
    <2>1. PICK ai, bi, ci, a, b \in BitArrays(c.num) : IdealDealt(c, t, w1, o1, ai, bi, ci, a, b)
      BY <1>2 DEF Dealt
    <2>2. w2[o2 + 1] = w1[o1 + 1] /\ w2[o2 + 2] = w1[o1 + 2] /\ w2[o2 + 3] = w1[o1 + 3]
      <3>1. Width(c) = 3 /\ 1 \in 1..3 /\ 2 \in 1..3 /\ 3 \in 1..3
        BY <1>2 DEF Width
      <3> QED
        BY <3>1
    <2>3. IdealDealt(c, t, w2, o2, ai, bi, ci, a, b)
      BY <2>1, <2>2 DEF IdealDealt
    <2> QED
      BY <2>3
  <1>3. ASSUME c.num > 0, c.method # "Ideal"
        PROVE  \E a, b, r \in BitArrays(c.num) : OTDealt(c, t, w2, o2, a, b, r)
    <2>1. PICK a, b, r \in BitArrays(c.num) : OTDealt(c, t, w1, o1, a, b, r)
      BY <1>3 DEF Dealt
    <2>2. w2[o2 + 1] = w1[o1 + 1]
      <3>1. Width(c) = 1 /\ 1 \in 1..1
        BY <1>3 DEF Width
      <3> QED
        BY <3>1
    <2>3. OTDealt(c, t, w2, o2, a, b, r)
      BY <2>1, <2>2 DEF OTDealt
    <2> QED
      BY <2>3
  <1> QED
    BY <1>2, <1>3 DEF Dealt

\* Sequence start is long enough for call k of those before call i.
LEMMA CallPlace ==
  ASSUME NEW start, NEW prog, NEW i \in Nat \ {0}, NEW b \in Nat \ {0}, b <= i,
         Starts(start, prog, i), NEW k \in b..(i - 1), Width(prog[k]) \in Nat,
         NEW d \in 1..Width(prog[k])
  PROVE  /\ start[k] \in Nat /\ start[b] \in Nat /\ start[i] \in Nat
         /\ start[k] - start[b] + d \in 1..(start[i] - start[b])
         /\ start[b] <= start[k]
  <1>1. k \in 1..(i - 1) /\ k \in 1..i /\ k + 1 \in 1..i /\ b \in 1..i /\ i \in 1..i
    OBVIOUS
  <1>2. start[k] \in Nat /\ start[b] \in Nat /\ start[i] \in Nat /\ start[k + 1] \in Nat
    BY <1>1 DEF Starts
  <1>3. start[b] <= start[k] /\ start[k + 1] <= start[i]
    BY <1>1 DEF Starts
  <1>4. start[k + 1] = start[k] + Width(prog[k])
    BY <1>1 DEF Starts
  <1> QED
    BY <1>2, <1>3, <1>4

LEMMA AliceSends ==
  ASSUME NEW prog, NEW i \in Nat \ {0}, NEW b \in Nat \ {0}, NEW ta, NEW tb, NEW w, NEW v, NEW new,
         \A k \in 1..i : prog[k] \in Calls /\ Width(prog[k]) \in Nat,
         \A k \in 1..(i - 1) : tb[k] = ta[k],
         NEW start, NEW n \in Nat,
         Starts(start, prog, i), UnderWay(start, n, prog, i, b, ta, w),
         IsList(new, Width(prog[i])), IsJoin(v, w, new), Dealt(prog[i], tb[i], new, 0)
  PROVE  \E s : \E m \in Nat : Starts(s, prog, i + 1) /\ UnderWay(s, m, prog, i + 1, b, tb, v)
  <1>1. PICK z \in Nat : z = Width(prog[i])
    OBVIOUS
  <1>2. PICK s : s = [k \in 1..(i + 1) |-> IF k <= i THEN start[k] ELSE start[i] + z]
    OBVIOUS
  <1>3. /\ \A k \in 1..i : start[k] \in Nat /\ s[k] = start[k]
        /\ s[i + 1] = start[i] + z /\ i \in 1..i
    BY <1>2 DEF Starts
  <1>4. Starts(s, prog, i + 1)
    <2>1. s \in [1..(i + 1) -> Nat]
      <3>1. ASSUME NEW k \in 1..(i + 1)
            PROVE  (IF k <= i THEN start[k] ELSE start[i] + z) \in Nat
        <4>1. start[i] + z \in Nat
          BY <1>3
        <4>2. k <= i => k \in 1..i
          OBVIOUS
        <4> QED
          BY <1>3, <4>1, <4>2
      <3> QED
        BY <1>2, <3>1
    <2>2. ASSUME NEW k \in 1..(i + 1 - 1)
          PROVE  s[k + 1] = s[k] + Width(prog[k])
      <3>1. CASE k = i
        BY <1>1, <1>3, <3>1
      <3>2. CASE k # i
        <4>1. k \in 1..(i - 1) /\ k \in 1..i /\ k + 1 \in 1..i
          BY <3>2
        <4> QED
          BY <1>3, <4>1 DEF Starts
      <3> QED
        BY <3>1, <3>2
    <2>3. ASSUME NEW j \in 1..(i + 1), NEW k \in 1..(i + 1), j <= k
          PROVE  s[j] <= s[k]
      <3>1. CASE k \in 1..i
        <4>1. j \in 1..i
          BY <2>3, <3>1
        <4> QED
          BY <1>3, <2>3, <3>1, <4>1 DEF Starts
      <3>2. CASE k = i + 1 /\ j \in 1..i
        <4>1. start[j] <= start[i]
          BY <1>3, <3>2 DEF Starts
        <4> QED
          BY <1>1, <1>3, <3>2, <4>1
      <3>3. CASE k = i + 1 /\ j = i + 1
        BY <1>1, <1>3, <3>3
      <3> QED
        BY <2>3, <3>1, <3>2, <3>3
    <2> QED
      BY <2>1, <2>2, <2>3 DEF Starts
  <1>5. /\ IsList(v, n + z) /\ \A k \in 1..n : v[k] = w[k]
        /\ \A k \in 1..z : v[n + k] = new[k]
    <2>1. IsList(w, n) /\ IsList(new, z)
      BY <1>1 DEF UnderWay
    <2> QED
      BY <2>1, JoinedList
  <1>6. CASE b <= i
    <2>1. /\ n = start[i] - start[b] /\ b \in 1..i
          /\ \A k \in b..(i - 1) : Dealt(prog[k], ta[k], w, start[k] - start[b])
      BY <1>6 DEF UnderWay
    <2>2. n + z = s[i + 1] - s[b]
      BY <1>1, <1>3, <2>1
    <2>3. ASSUME NEW k \in b..(i + 1 - 1)
          PROVE  Dealt(prog[k], tb[k], v, s[k] - s[b])
      <3>1. k \in 1..i /\ prog[k] \in Calls
        OBVIOUS
      <3>2. CASE k = i
        <4>1. s[k] - s[b] = n
          BY <1>3, <2>1, <3>2
        <4>2. ASSUME NEW d \in 1..Width(prog[i])
              PROVE  v[n + d] = new[0 + d]
          BY <1>1, <1>5
        <4>3. Dealt(prog[i], tb[i], v, n)
          <5>1. PICK c \in Calls : c = prog[i]
            BY <3>1, <3>2
          <5>2. Dealt(c, tb[i], v, n)
            BY <4>2, <5>1, DealtMoved
          <5> QED
            BY <5>1, <5>2
        <4> QED
          BY <3>2, <4>1, <4>3
      <3>3. CASE k # i
        <4>1. k \in b..(i - 1) /\ k \in 1..(i - 1)
          BY <3>3
        <4>2. PICK o \in Int : o = start[k] - start[b] /\ o = s[k] - s[b]
          BY <1>3, <2>1, <3>1
        <4>3. ASSUME NEW d \in 1..Width(prog[k])
              PROVE  v[o + d] = w[o + d]
          <5>1. o + d \in 1..n
            BY <1>6, <2>1, <3>1, <4>1, <4>2, CallPlace
          <5> QED
            BY <1>5, <5>1
        <4>4. Dealt(prog[k], ta[k], w, o)
          BY <2>1, <4>1, <4>2
        <4>5. Dealt(prog[k], ta[k], v, o)
          BY <3>1, <4>3, <4>4, DealtMoved
        <4> QED
          BY <4>1, <4>2, <4>5
      <3> QED
        BY <3>2, <3>3
    <2>4. UnderWay(s, n + z, prog, i + 1, b, tb, v)
      BY <1>5, <1>6, <2>2, <2>3 DEF UnderWay
    <2> QED
      BY <1>4, <2>4
  <1>7. CASE i < b
    <2>1. n = 0 /\ \A k \in i..(b - 1) : prog[k].num = 0
      BY <1>7 DEF UnderWay
    <2>2. z = 0
      BY <1>1, <1>7, <2>1 DEF Width
    <2>3. UnderWay(s, n + z, prog, i + 1, b, tb, v)
      <3>1. i + 1 <= b
        BY <1>7
      <3>2. CASE i + 1 = b
        <4>1. n + z = s[i + 1] - s[b] /\ ~(i + 1 < b)
          BY <1>3, <2>1, <2>2, <3>2
        <4>2. b..(i + 1 - 1) = {}
          BY <3>2
        <4> QED
          BY <1>5, <4>1, <4>2 DEF UnderWay
      <3>3. CASE i + 1 < b
        BY <1>5, <2>1, <2>2, <3>3 DEF UnderWay
      <3> QED
        BY <3>1, <3>2, <3>3
    <2> QED
      BY <1>4, <2>3
  <1> QED
    BY <1>6, <1>7

LEMMA BobTakes ==
  ASSUME NEW prog, NEW i \in Nat \ {0}, NEW b \in Nat \ {0}, NEW ta, NEW w, NEW v,
         \A k \in 1..b : prog[k] \in Calls /\ Width(prog[k]) \in Nat,
         \A k \in 1..(i - 1) : prog[k] \in Calls /\ Width(prog[k]) \in Nat,
         NEW start, NEW n \in Nat,
         Starts(start, prog, i), UnderWay(start, n, prog, i, b, ta, w),
         NEW m \in Nat, n = m + Width(prog[b]), IsList(v, m),
         \A k \in 1..m : v[k] = w[k + Width(prog[b])]
  PROVE  UnderWay(start, m, prog, i, b + 1, ta, v)
  <1>1. PICK z \in Nat : z = Width(prog[b])
    OBVIOUS
  <1>2. CASE b < i
    <2>1. /\ n = start[i] - start[b]
          /\ \A k \in b..(i - 1) : Dealt(prog[k], ta[k], w, start[k] - start[b])
      BY <1>2 DEF UnderWay
    <2>2. /\ start[b + 1] = start[b] + z /\ b + 1 \in 1..i /\ b \in 1..i /\ i \in 1..i
          /\ start[b] \in Nat /\ start[i] \in Nat /\ start[b + 1] \in Nat
      <3>1. b \in 1..(i - 1) /\ b + 1 \in 1..i /\ b \in 1..i /\ i \in 1..i
        BY <1>2
      <3> QED
        BY <1>1, <3>1 DEF Starts
    <2>3. m = start[i] - start[b + 1]
      BY <1>1, <2>1, <2>2
    <2>4. ASSUME NEW k \in (b + 1)..(i - 1)
          PROVE  Dealt(prog[k], ta[k], v, start[k] - start[b + 1])
      <3>1. k \in b..(i - 1) /\ k \in 1..(i - 1) /\ k \in 1..i /\ prog[k] \in Calls /\ Width(prog[k]) \in Nat
        OBVIOUS
      <3>2. start[k] \in Nat
        BY <3>1 DEF Starts
      <3>3. PICK o \in Int, p \in Int : o = start[k] - start[b + 1] /\ p = start[k] - start[b] /\ p = o + z
        <4>1. start[k] - start[b + 1] \in Int /\ start[k] - start[b] \in Int
          BY <2>2, <3>2
        <4>2. start[k] - start[b] = start[k] - start[b + 1] + z
          BY <2>2, <3>2
        <4> QED
          BY <4>1, <4>2
      <3>4. ASSUME NEW d \in 1..Width(prog[k])
            PROVE  v[o + d] = w[p + d]
        <4>1. b + 1 \in Nat \ {0} /\ b + 1 <= i
          BY <1>2
        <4>2. o + d \in 1..m
          BY <2>3, <3>1, <3>3, <4>1, CallPlace
        <4>3. o + d + z = p + d
          BY <3>1, <3>3
        <4> QED
          BY <1>1, <4>2, <4>3
      <3>5. Dealt(prog[k], ta[k], w, p)
        BY <2>1, <3>1, <3>3
      <3>6. Dealt(prog[k], ta[k], v, o)
        BY <3>1, <3>4, <3>5, DealtMoved
      <3> QED
        BY <3>3, <3>6
    <2> QED
      BY <1>2, <2>3, <2>4 DEF UnderWay
  <1>3. CASE b >= i
    <2>1. n = 0 /\ \A k \in i..(b - 1) : prog[k].num = 0
      <3>1. CASE b = i
        <4>1. n = start[i] - start[i] /\ i \in 1..i
          BY <3>1 DEF UnderWay
        <4>2. n = 0
          BY <4>1 DEF Starts
        <4> QED
          BY <3>1, <4>2
      <3>2. CASE i < b
        BY <3>2 DEF UnderWay
      <3> QED
        BY <1>3, <3>1, <3>2
    <2>2. z = 0 /\ m = 0
      BY <1>1, <2>1
    <2>3. prog[b].num = 0
      <3>1. prog[b] \in Calls
        OBVIOUS
      <3> QED
        BY <1>1, <2>2, <3>1 DEF Width, Calls
    <2>4. \A k \in i..(b + 1 - 1) : prog[k].num = 0
      BY <2>1, <2>3
    <2> QED
      BY <1>3, <2>2, <2>4 DEF UnderWay
  <1> QED
    BY <1>2, <1>3

\* What BOB finds first is of the call he is in.
LEMMA HeadDealt ==
  ASSUME NEW prog, NEW i \in Nat \ {0}, NEW b \in Nat \ {0}, NEW ta, NEW w,
         NEW start, NEW n \in Nat, n > 0, \A k \in 1..(i - 1) : Width(prog[k]) \in Nat,
         Starts(start, prog, i), UnderWay(start, n, prog, i, b, ta, w)
  PROVE  b < i /\ Dealt(prog[b], ta[b], w, 0) /\ Width(prog[b]) <= n
  <1>1. b <= i /\ n = start[i] - start[b]
    BY DEF UnderWay
  <1>2. b < i
    <2>1. SUFFICES ASSUME b = i PROVE FALSE
      BY <1>1
    <2>2. i \in 1..i
      OBVIOUS
    <2>3. n = 0
      BY <1>1, <2>1, <2>2 DEF Starts
    <2> QED
      BY <2>3
  <1>3. b \in 1..(i - 1) /\ b \in 1..i /\ b + 1 \in 1..i /\ i \in 1..i /\ b \in b..(i - 1)
    BY <1>2
  <1>4. start[b] \in Nat /\ start[i] \in Nat /\ start[b + 1] \in Nat
    BY <1>3 DEF Starts
  <1>5. start[b + 1] = start[b] + Width(prog[b]) /\ start[b + 1] <= start[i]
    <2>1. b + 1 <= i
      BY <1>2
    <2> QED
      BY <1>3, <2>1 DEF Starts
  <1>6. Dealt(prog[b], ta[b], w, start[b] - start[b])
    BY <1>1, <1>3 DEF UnderWay
  <1>7. start[b] - start[b] = 0 /\ Width(prog[b]) <= n
    BY <1>1, <1>3, <1>4, <1>5
  <1> QED
    BY <1>2, <1>6, <1>7

------------------------------------------------------------------------------
(* The steps.                                                              *)

LEMMA AliceWire ==
  ASSUME TripleAssumption, LocalInv, WireInv, NEW t, Active(ALICE), Adds(ALICE, t),
         program' = program, NEW new, IsList(new, Width(Call(ALICE))),
         Dealt(Call(ALICE), t, new, 0), IsJoin(wire', wire, new)
  PROVE  WireInv'
  <1>0. PICK prog, ta, tb, w, v :
          /\ prog = program /\ ta = triples[ALICE] /\ tb = triples'[ALICE]
          /\ w = wire /\ v = wire'
    OBVIOUS
  <1>1. PICK i \in Nat \ {0}, b \in Nat \ {0} : i = at[ALICE] /\ b = at[BOB]
    BY CallFacts, Parties
  <1>2. /\ \A k \in 1..i : prog[k] \in Calls /\ Width(prog[k]) \in Nat
        /\ prog[i] = Call(ALICE)
    <2>1. i \in 1..Len(program) /\ Len(program) \in Nat
      BY <1>0, <1>1, CallFacts, Parties
    <2>2. 1..i \subseteq 1..Len(program)
      BY <2>1
    <2> QED
      BY <1>0, <1>1, <2>2, CallFacts DEF Call
  <1>3. /\ at'[ALICE] = i + 1 /\ at'[BOB] = b /\ tb[i] = t
        /\ \A k \in 1..(i - 1) : tb[k] = ta[k]
    BY <1>0, <1>1, Added, Parties
  <1>4. PICK start : \E n \in Nat :
          Starts(start, prog, i) /\ UnderWay(start, n, prog, i, b, ta, w)
    BY <1>0, <1>1 DEF WireInv
  <1>40. PICK n \in Nat : Starts(start, prog, i) /\ UnderWay(start, n, prog, i, b, ta, w)
    BY <1>4
  <1>5. /\ IsList(new, Width(prog[i])) /\ Dealt(prog[i], tb[i], new, 0) /\ IsJoin(v, w, new)
    BY <1>0, <1>1, <1>2, <1>3
  <1>6. \E s : \E m \in Nat : Starts(s, prog, i + 1) /\ UnderWay(s, m, prog, i + 1, b, tb, v)
    BY <1>2, <1>3, <1>40, <1>5, AliceSends
  <1> QED
    BY <1>0, <1>1, <1>3, <1>6 DEF WireInv

LEMMA BobWire ==
  ASSUME TripleAssumption, LocalInv, WireInv, NEW t, Active(BOB), Adds(BOB, t),
         program' = program, NEW m \in Nat, NEW z \in Nat, z = Width(Call(BOB)),
         IsList(wire, m + z), IsList(wire', m), \A k \in 1..m : wire'[k] = wire[k + z]
  PROVE  WireInv'
  <1>0. PICK prog, ta, w, v :
          prog = program /\ ta = triples[ALICE] /\ w = wire /\ v = wire'
    OBVIOUS
  <1>1. PICK i \in Nat \ {0}, b \in Nat \ {0} : i = at[ALICE] /\ b = at[BOB]
    BY CallFacts, Parties
  <1>2. /\ \A k \in 1..b : prog[k] \in Calls /\ Width(prog[k]) \in Nat
        /\ \A k \in 1..(i - 1) : prog[k] \in Calls /\ Width(prog[k]) \in Nat
        /\ prog[b] = Call(BOB)
    <2>1. b \in 1..Len(program) /\ Len(program) \in Nat /\ i <= Len(program) + 1
      BY <1>0, <1>1, CallFacts, Parties
    <2>2. 1..b \subseteq 1..Len(program) /\ 1..(i - 1) \subseteq 1..Len(program)
      BY <2>1
    <2> QED
      BY <1>0, <1>1, <2>2, CallFacts DEF Call
  <1>3. at'[ALICE] = i /\ at'[BOB] = b + 1 /\ triples'[ALICE] = ta
    BY <1>0, <1>1, Added, Parties
  <1>4. PICK start : \E n \in Nat :
          Starts(start, prog, i) /\ UnderWay(start, n, prog, i, b, ta, w)
    BY <1>0, <1>1 DEF WireInv
  <1>40. PICK n \in Nat : Starts(start, prog, i) /\ UnderWay(start, n, prog, i, b, ta, w)
    BY <1>4
  <1>5. n = m + z
    <2>1. IsList(w, n) /\ IsList(w, m + z) /\ m + z \in Nat
      BY <1>0, <1>1, <1>40 DEF UnderWay
    <2> QED
      BY <2>1, ListFacts
  <1>6. UnderWay(start, m, prog, i, b + 1, ta, v)
    <2>1. z = Width(prog[b]) /\ IsList(v, m) /\ \A k \in 1..m : v[k] = w[k + z]
      BY <1>0, <1>1, <1>2
    <2> QED
      BY <1>2, <1>40, <1>5, <2>1, BobTakes
  <1> QED
    BY <1>0, <1>1, <1>3, <1>40, <1>6 DEF WireInv

\* A party that finds messages of an answer to its call.
LEMMA BobFinds ==
  ASSUME TripleAssumption, LocalInv, WireInv, wire # <<>>
  PROVE  /\ at[BOB] < at[ALICE] /\ Dealt(Call(BOB), triples[ALICE][at[BOB]], wire, 0)
         /\ \E n \in Nat : IsList(wire, n) /\ Width(Call(BOB)) <= n
  <1>0. PICK prog, ta, w : prog = program /\ ta = triples[ALICE] /\ w = wire
    OBVIOUS
  <1>1. PICK i \in Nat \ {0}, b \in Nat \ {0} : i = at[ALICE] /\ b = at[BOB]
    BY CallFacts, Parties
  <1>2. \A k \in 1..(i - 1) : Width(prog[k]) \in Nat
    <2>1. Len(program) \in Nat /\ i <= Len(program) + 1
      BY <1>0, <1>1, CallFacts, Parties
    <2>2. 1..(i - 1) \subseteq 1..Len(program)
      BY <2>1
    <2> QED
      BY <1>0, <1>1, <2>2, CallFacts
  <1>3. PICK start : \E n \in Nat :
          Starts(start, prog, i) /\ UnderWay(start, n, prog, i, b, ta, w)
    BY <1>0, <1>1 DEF WireInv
  <1>30. PICK n \in Nat : Starts(start, prog, i) /\ UnderWay(start, n, prog, i, b, ta, w)
    BY <1>3
  <1>4. IsList(w, n)
    BY <1>30 DEF UnderWay
  <1>5. n > 0
    <2>1. SUFFICES ASSUME n = 0 PROVE FALSE
      OBVIOUS
    <2>2. DOMAIN w = 1..0 /\ Len(w) = 0 /\ w \in Seq({w[k] : k \in 1..0})
      BY <1>4, <2>1, ListFacts
    <2>3. w = <<>>
      BY <2>2
    <2> QED
      BY <1>0, <1>1, <2>3
  <1>6. b < i /\ Dealt(prog[b], ta[b], w, 0) /\ Width(prog[b]) <= n
    BY <1>2, <1>30, <1>5, HeadDealt
  <1> QED
    BY <1>0, <1>1, <1>4, <1>6 DEF Call

\* ALICE fills her arrays of a call and sends what goes with them.
LEMMA AliceStep ==
  ASSUME TripleAssumption, IInv, NEW t, Active(ALICE), Adds(ALICE, t),
         UNCHANGED <<program, mine>>, NEW new, IsList(new, Width(Call(ALICE))),
         Dealt(Call(ALICE), t, new, 0), IsJoin(wire', wire, new),
         FactorShared(Call(ALICE), t)
  PROVE  IInv'
  <1>1. LocalInv /\ WireInv /\ TriplesCorrect /\ SharedFactor
    BY DEF IInv
  <1>2. LocalInv'
    BY <1>1, LocalStep, Parties
  <1>3. WireInv'
    BY <1>1, AliceWire
  <1>4. ASSUME at[ALICE] < at[BOB]
        PROVE  PairCorrect(program[at[ALICE]], t, triples[BOB][at[ALICE]])
    <2>1. at[ALICE] \in Nat /\ at[BOB] \in Nat
      BY <1>1, CallFacts, Parties
    <2>2. program[at[ALICE]].num = 0
      BY <1>1, <1>4, <2>1 DEF WireInv, UnderWay
    <2>3. Slots(program[at[ALICE]].num) = {}
      BY <2>2 DEF Slots
    <2> QED
      BY <2>3 DEF PairCorrect
  <1>5. TriplesCorrect' /\ SharedFactor'
    BY <1>1, <1>2, <1>4, ArraysStep, Parties
  <1> QED
    BY <1>2, <1>3, <1>5 DEF IInv

\* BOB fills his arrays of a call from the first messages under way.
LEMMA BobStep ==
  ASSUME TripleAssumption, IInv, NEW t, Active(BOB), Adds(BOB, t),
         program' = program, mine' = Nothing,
         NEW m \in Nat, NEW z \in Nat, z = Width(Call(BOB)),
         IsList(wire, m + z), IsList(wire', m), \A k \in 1..m : wire'[k] = wire[k + z],
         FactorShared(Call(BOB), t),
         at[BOB] < at[ALICE] => PairCorrect(Call(BOB), triples[ALICE][at[BOB]], t)
  PROVE  IInv'
  <1>1. LocalInv /\ WireInv /\ TriplesCorrect /\ SharedFactor
    BY DEF IInv
  <1>2. LocalInv'
    BY <1>1, LocalStep, Parties
  <1>3. WireInv'
    BY <1>1, BobWire
  <1>4. TriplesCorrect' /\ SharedFactor'
    BY <1>1, <1>2, ArraysStep, Parties DEF Call
  <1> QED
    BY <1>2, <1>3, <1>4 DEF IInv

LEMMA NothingIsCorrect ==
  ASSUME NEW c, c.num = 0, NEW x, NEW y
  PROVE  PairCorrect(c, x, y) /\ FactorShared(c, x)
  <1>1. Slots(c.num) = {}
    BY DEF Slots
  <1> QED
    BY <1>1 DEF PairCorrect, FactorShared

LEMMA StepEmptyAlice ==
  ASSUME TripleAssumption, IInv, ReturnEmpty(ALICE)
  PROVE  IInv'
  <1>1. PICK t : Adds(ALICE, t) /\ Active(ALICE) /\ Call(ALICE).num = 0
    BY DEF ReturnEmpty, Adds
  <1>2. UNCHANGED <<program, mine, wire>>
    BY DEF ReturnEmpty
  <1>3. IsList(<<>>, 0) /\ Width(Call(ALICE)) = 0 /\ Dealt(Call(ALICE), t, <<>>, 0)
    <2>1. Width(Call(ALICE)) = 0 /\ ~(Call(ALICE).num > 0)
      BY <1>1 DEF Width
    <2>2. IsList(<<>>, 0)
      BY DEF IsList
    <2> QED
      BY <2>1, <2>2 DEF Dealt
  <1>4. IsJoin(wire', wire, <<>>)
    <2>0. PICK n \in Nat : IsList(wire, n)
      BY DEF IInv, WireInv, UnderWay
    <2>1. PICK w : w = wire /\ IsList(w, n)
      BY <2>0
    <2>2. w \in Seq({w[k] : k \in 1..n})
      BY <2>1, ListFacts
    <2>3. w \o <<>> = w
      BY <2>2, ConcatEmptySeq
    <2> QED
      BY <1>2, <2>1, <2>3 DEF IsJoin
  <1> QED
    BY <1>1, <1>2, <1>3, <1>4, NothingIsCorrect, AliceStep

LEMMA StepEmptyBob ==
  ASSUME TripleAssumption, IInv, ReturnEmpty(BOB)
  PROVE  IInv'
  <1>1. PICK t : Adds(BOB, t) /\ Active(BOB) /\ Call(BOB).num = 0
    BY DEF ReturnEmpty, Adds
  <1>2. UNCHANGED <<program, mine, wire>>
    BY DEF ReturnEmpty
  <1>3. mine = Nothing
    BY <1>1 DEF IInv, LocalInv, IsOT
  <1>4. PICK n \in Nat : IsList(wire, n)
    BY DEF IInv, WireInv, UnderWay
  <1>5. /\ Width(Call(BOB)) = 0 /\ IsList(wire, n + 0) /\ IsList(wire', n)
        /\ \A k \in 1..n : wire'[k] = wire[k + 0]
    <2>1. n + 0 = n /\ \A k \in 1..n : k + 0 = k
      OBVIOUS
    <2> QED
      BY <1>1, <1>2, <1>4, <2>1 DEF Width
  <1>6. /\ FactorShared(Call(BOB), t)
        /\ PairCorrect(Call(BOB), triples[ALICE][at[BOB]], t)
    BY <1>1, NothingIsCorrect
  <1> QED
    BY <1>1, <1>2, <1>3, <1>5, <1>6, BobStep

LEMMA StepDealIdeal ==
  ASSUME TripleAssumption, IInv, DealIdeal
  PROVE  IInv'
  <1>1. PICK c : c = Call(ALICE) /\ Active(ALICE) /\ c.num > 0 /\ c.method = "Ideal"
    BY DEF DealIdeal
  <1>2. PICK ai, bi, ci, a, b \in Draw(c.num) :
          LET cc == [i \in Slots(c.num) |-> And(a[i], b[i])]
          IN  /\ wire' = wire \o <<PackedBytes(XorOn(c.num, a, ai), c.num),
                                   PackedBytes(XorOn(c.num, b, bi), c.num),
                                   PackedBytes(XorOn(c.num, cc, ci), c.num)>>
              /\ Filled(ALICE, ai, bi, ci)
    BY <1>1, Zenon DEF DealIdeal
  <1>3. c \in Calls /\ Draw(c.num) \subseteq BitArrays(c.num)
    <2>1. LocalInv /\ program \in Programs /\ DOMAIN program = 1..Len(program)
      <3>1. LocalInv
        BY DEF IInv
      <3>2. program \in Programs /\ program \in Seq(Calls)
        BY <3>1 DEF LocalInv, TripleAssumption
      <3> HIDE DEF Calls
      <3> QED
        BY <3>1, <3>2
    <2>2. at[ALICE] \in DOMAIN program
      BY <1>1, <2>1, CallFacts, Parties
    <2> QED
      BY <1>1, <2>1, <2>2, Drawn DEF Call
  <1> DEFINE t == Arrays(c, ai, bi, ci)
             x == PackedBytes(XorOn(c.num, a, ai), c.num)
             y == PackedBytes(XorOn(c.num, b, bi), c.num)
             z == PackedBytes(XorOn(c.num, [i \in Slots(c.num) |-> And(a[i], b[i])], ci), c.num)
             new == <<x, y, z>>
  <1>4. Adds(ALICE, t)
    BY <1>1, <1>2 DEF Filled, Adds, Arrays
  <1>5. IsJoin(wire', wire, new)
    BY <1>2 DEF IsJoin
  <1>6. new[0 + 1] = x /\ new[0 + 2] = y /\ new[0 + 3] = z /\ IsList(new, 3)
    <2> HIDE DEF x, y, z
    <2> QED
      BY DEF IsList
  <1>7. IdealDealt(c, t, new, 0, ai, bi, ci, a, b)
    <2> HIDE DEF new
    <2> QED
      BY <1>6 DEF IdealDealt
  <1>8. Dealt(c, t, new, 0) /\ Width(c) = 3
    <2>1. /\ ai \in BitArrays(c.num) /\ bi \in BitArrays(c.num) /\ ci \in BitArrays(c.num)
          /\ a \in BitArrays(c.num) /\ b \in BitArrays(c.num)
      BY <1>3
    <2>2. Width(c) = 3
      BY <1>1, <1>3 DEF Width, Calls
    <2> HIDE DEF t, new
    <2>3. Dealt(c, t, new, 0)
      BY <1>1, <1>7, <2>1, Zenon DEF Dealt
    <2> QED
      BY <2>2, <2>3
  <1>9. FactorShared(c, t)
    BY <1>1 DEF FactorShared
  <1>10. UNCHANGED <<program, mine>>
    BY DEF DealIdeal
  <1> HIDE DEF t, new
  <1> QED
    BY <1>1, <1>4, <1>5, <1>6, <1>8, <1>9, <1>10, AliceStep

LEMMA StepOfferOTs ==
  ASSUME TripleAssumption, IInv, OfferOTs
  PROVE  IInv'
  <1>1. PICK c : c = Call(ALICE) /\ Active(ALICE) /\ c.num > 0 /\ c.method # "Ideal"
    BY DEF OfferOTs, IsOT
  <1>2. PICK a \in DrawA(c), b \in Draw(c.num), r \in Draw(c.num) :
          /\ wire' = Append(wire,
               [m \in Slots(c.num \div 2) |->
                  [j \in Selections(c) |-> Offered(c, a, b, r, m, j)]])
          /\ Filled(ALICE, a, b, r)
    BY <1>1 DEF OfferOTs
  <1>3. /\ c \in Calls /\ a \in BitArrays(c.num) /\ b \in BitArrays(c.num)
        /\ r \in BitArrays(c.num) /\ Correlated(c, a)
    <2>1. LocalInv /\ program \in Programs /\ DOMAIN program = 1..Len(program)
      <3>1. LocalInv
        BY DEF IInv
      <3>2. program \in Programs /\ program \in Seq(Calls)
        BY <3>1 DEF LocalInv, TripleAssumption
      <3> HIDE DEF Calls
      <3> QED
        BY <3>1, <3>2
    <2>2. at[ALICE] \in DOMAIN program
      BY <1>1, <2>1, CallFacts, Parties
    <2> QED
      BY <1>1, <2>1, <2>2, Drawn DEF Call
  <1> DEFINE t == Arrays(c, a, b, r)
             x == [m \in Slots(c.num \div 2) |->
                     [j \in Selections(c) |-> Offered(c, a, b, r, m, j)]]
             new == <<x>>
  <1>4. Adds(ALICE, t)
    BY <1>1, <1>2 DEF Filled, Adds, Arrays
  <1>5. wire' = Append(wire, x)
    BY <1>2
  <1>6. new[0 + 1] = x /\ IsList(new, 1)
    <2> HIDE DEF x
    <2> QED
      BY DEF IsList
  <1>7. OTDealt(c, t, new, 0, a, b, r)
    <2> HIDE DEF new
    <2> QED
      BY <1>3, <1>6 DEF OTDealt
  <1>8. Dealt(c, t, new, 0) /\ Width(c) = 1
    <2>1. Width(c) = 1
      BY <1>1, <1>3 DEF Width, Calls
    <2> HIDE DEF t, new
    <2>2. Dealt(c, t, new, 0)
      BY <1>1, <1>3, <1>7, Zenon DEF Dealt
    <2> QED
      BY <2>1, <2>2
  <1>9. FactorShared(c, t)
    BY <1>3, FactorFromBits
  <1>10. IsJoin(wire', wire, new)
    <2> HIDE DEF x
    <2>0. PICK n \in Nat : IsList(wire, n)
      BY DEF IInv, WireInv, UnderWay
    <2>1. PICK w : w = wire /\ IsList(w, n)
      BY <2>0
    <2>2. w \in Seq({w[k] : k \in 1..n})
      BY <2>1, ListFacts
    <2>3. Append(w, x) = w \o <<x>>
      BY <2>2, AppendIsConcat
    <2> QED
      BY <1>5, <2>1, <2>3 DEF IsJoin
  <1>11. UNCHANGED <<program, mine>>
    BY DEF OfferOTs
  <1> HIDE DEF t, new
  <1> QED
    BY <1>1, <1>4, <1>6, <1>8, <1>9, <1>10, <1>11, AliceStep

LEMMA StepReceiveIdeal ==
  ASSUME TripleAssumption, IInv, ReceiveIdeal
  PROVE  IInv'
  <1>1. PICK c : c = Call(BOB) /\ Active(BOB) /\ c.num > 0 /\ c.method = "Ideal"
    BY DEF ReceiveIdeal
  <1>2. LocalInv /\ WireInv
    BY DEF IInv
  <1>3. c \in Calls /\ Width(c) = 3
    <2>1. c \in Calls
      BY <1>1, <1>2, CallFacts, Parties DEF Call
    <2> QED
      BY <1>1, <2>1 DEF Width, Calls
  <1>4. wire # <<>>
    <2>1. PICK n \in Nat : IsList(wire, n)
      BY <1>2 DEF WireInv, UnderWay
    <2>2. Len(wire) >= 3
      BY DEF ReceiveIdeal
    <2> QED
      BY <2>2
  <1>5. PICK w, v, x : w = wire /\ v = wire' /\ x = triples[ALICE][at[BOB]]
    OBVIOUS
  <1>6. /\ Dealt(c, x, w, 0)
        /\ \E n \in Nat : IsList(w, n) /\ 3 <= n
    <2>1. /\ Dealt(Call(BOB), triples[ALICE][at[BOB]], wire, 0)
          /\ \E n \in Nat : IsList(wire, n) /\ Width(Call(BOB)) <= n
      BY <1>2, <1>4, BobFinds
    <2> QED
      BY <1>1, <1>3, <1>5, <2>1
  <1>7. PICK n \in Nat : IsList(w, n) /\ 3 <= n
    BY <1>6
  <1>8. PICK m \in Nat : n = m + 3
    <2>1. n - 3 \in Nat /\ n = n - 3 + 3
      BY <1>7
    <2> QED
      BY <2>1
  <1>9. IsRest(v, w, 3)
    <2>1. v = SubSeq(w, 4, Len(w))
      BY <1>5 DEF ReceiveIdeal
    <2>2. 3 + 1 = 4
      OBVIOUS
    <2> QED
      BY <2>1, <2>2 DEF IsRest
  <1>10. IsList(v, m) /\ \A k \in 1..m : v[k] = w[k + 3]
    <2>1. IsList(v, n - 3) /\ \A k \in 1..(n - 3) : v[k] = w[k + 3]
      BY <1>7, <1>9, RestOfList
    <2>2. n - 3 = m
      BY <1>8
    <2> QED
      BY <2>1, <2>2
  <1> DEFINE t == Arrays(c, Unpacked(w[1], c.num), Unpacked(w[2], c.num), Unpacked(w[3], c.num))
  <1>11. Adds(BOB, t) /\ UNCHANGED <<program, mine>>
    BY <1>1, <1>5 DEF ReceiveIdeal, Filled, Adds, Arrays
  <1>12. PairCorrect(c, x, t)
    BY <1>1, <1>3, <1>6, IdealPair
  <1>13. FactorShared(c, t)
    BY <1>1 DEF FactorShared
  <1>14. mine' = Nothing
    BY <1>1, <1>2, <1>11 DEF LocalInv, IsOT
  <1> HIDE DEF t
  <1>15. IsList(wire, m + 3) /\ IsList(wire', m) /\ \A k \in 1..m : wire'[k] = wire[k + 3]
    BY <1>5, <1>7, <1>8, <1>10
  <1>16. /\ FactorShared(Call(BOB), t) /\ PairCorrect(Call(BOB), triples[ALICE][at[BOB]], t)
         /\ Width(Call(BOB)) = 3
    BY <1>1, <1>3, <1>5, <1>12, <1>13
  <1> QED
    BY <1>1, <1>11, <1>14, <1>15, <1>16, BobStep

LEMMA StepPickOTs ==
  ASSUME TripleAssumption, IInv, PickOTs
  PROVE  IInv'
  <1>1. PICK c : c = Call(BOB) /\ Active(BOB) /\ c.num > 0 /\ c.method # "Ideal"
    BY DEF PickOTs, IsOT
  <1>2. LocalInv /\ WireInv
    BY DEF IInv
  <1>3. c \in Calls /\ IsCall(c) /\ Width(c) = 1
    <2>1. c \in Calls /\ IsCall(c)
      BY <1>1, <1>2, CallFacts, Parties DEF Call
    <2> QED
      BY <1>1, <2>1 DEF Width, Calls
  <1>4. wire # <<>> /\ mine # Nothing
    BY DEF PickOTs
  <1>5. PICK w, v, x : w = wire /\ v = wire' /\ x = triples[ALICE][at[BOB]]
    OBVIOUS
  <1>6. /\ Dealt(c, x, w, 0)
        /\ \E n \in Nat : IsList(w, n) /\ 1 <= n
    <2>1. /\ Dealt(Call(BOB), triples[ALICE][at[BOB]], wire, 0)
          /\ \E n \in Nat : IsList(wire, n) /\ Width(Call(BOB)) <= n
      BY <1>2, <1>4, BobFinds
    <2> QED
      BY <1>1, <1>3, <1>5, <2>1
  <1>7. PICK n \in Nat : IsList(w, n) /\ 1 <= n
    BY <1>6
  <1>8. PICK m \in Nat : n = m + 1
    <2>1. n - 1 \in Nat /\ n = n - 1 + 1
      BY <1>7
    <2> QED
      BY <2>1
  <1>9. IsTail(v, w)
    BY <1>5 DEF PickOTs, IsTail
  <1>10. IsList(v, m) /\ \A k \in 1..m : v[k] = w[k + 1]
    <2>1. IsList(v, n - 1) /\ \A k \in 1..(n - 1) : v[k] = w[k + 1]
      BY <1>7, <1>9, TailOfList
    <2>2. n - 1 = m
      BY <1>8
    <2> QED
      BY <2>1, <2>2
  <1>11. PICK a, b \in BitArrays(c.num) : mine = <<a, b>> /\ Correlated(c, a)
    BY <1>1, <1>2, <1>4 DEF LocalInv
  <1> DEFINE r == [i \in Slots(c.num) |->
                     w[1][OtOf(c, i)][Selection(c, a, b, OtOf(c, i))]
                       [IF i = First(c, OtOf(c, i)) THEN 1 ELSE 2]]
             t == Arrays(c, a, b, r)
  <1>12. Adds(BOB, t) /\ program' = program /\ mine' = Nothing
    <2>1. mine[1] = a /\ mine[2] = b
      BY <1>11
    <2>2. Filled(BOB, a, b, r)
      BY <1>1, <1>5, <2>1 DEF PickOTs
    <2> HIDE DEF r
    <2> QED
      BY <1>1, <2>2 DEF PickOTs, Filled, Adds, Arrays
  <1>13. PairCorrect(c, x, t)
    BY <1>1, <1>3, <1>6, <1>11, OTPair
  <1> HIDE DEF r
  <1>14. FactorShared(c, t)
    BY <1>3, <1>11, FactorFromBits
  <1> HIDE DEF t
  <1>15. IsList(wire, m + 1) /\ IsList(wire', m) /\ \A k \in 1..m : wire'[k] = wire[k + 1]
    BY <1>5, <1>7, <1>8, <1>10
  <1>16. /\ FactorShared(Call(BOB), t) /\ PairCorrect(Call(BOB), triples[ALICE][at[BOB]], t)
         /\ Width(Call(BOB)) = 1
    BY <1>1, <1>3, <1>5, <1>13, <1>14
  <1> QED
    BY <1>1, <1>12, <1>15, <1>16, BobStep

LEMMA StepDrawBob ==
  ASSUME TripleAssumption, IInv, DrawBob
  PROVE  IInv'
  <1>1. LocalInv /\ WireInv /\ TriplesCorrect /\ SharedFactor
    BY DEF IInv
  <1>2. PICK c : c = Call(BOB) /\ Active(BOB)
    BY DEF DrawBob, IsOT
  <1>3. PICK a \in DrawA(c), b \in Draw(c.num) : mine' = <<a, b>>
    BY <1>2 DEF DrawBob
  <1>4. a \in BitArrays(c.num) /\ b \in BitArrays(c.num) /\ Correlated(c, a)
    <2>1. program \in Programs /\ program \in Seq(Calls)
      BY <1>1 DEF LocalInv, TripleAssumption
    <2>2. DOMAIN program = 1..Len(program)
      <3> HIDE DEF Calls
      <3> QED
        BY <2>1
    <2>3. at[BOB] \in DOMAIN program
      BY <1>1, <1>2, <2>2, CallFacts, Parties
    <2> QED
      BY <1>2, <1>3, <2>1, <2>3, Drawn DEF Call
  <1>5. UNCHANGED <<program, at, triples, wire>> /\ IsOT(BOB)
    BY DEF DrawBob
  <1>6. Call(BOB)' = c /\ IsOT(BOB)'
    BY <1>2, <1>5 DEF Call, IsOT, Active
  <1>7. LocalInv'
    <2>1. \E a_1, b_1 \in BitArrays(c.num) : mine' = <<a_1, b_1>> /\ Correlated(c, a_1)
      BY <1>3, <1>4
    <2>2. /\ program \in Programs /\ at \in [Party -> Nat \ {0}]
          /\ \A p \in Party : at[p] <= Len(program) + 1
          /\ triples = [p \in Party |-> triples[p]]
          /\ \A p \in Party : IsList(triples[p], at[p] - 1)
      BY <1>1 DEF LocalInv
    <2> QED
      BY <1>5, <1>6, <2>1, <2>2 DEF LocalInv
  <1>8. WireInv' /\ TriplesCorrect' /\ SharedFactor'
    BY <1>1, <1>5 DEF WireInv, TriplesCorrect, SharedFactor
  <1> QED
    BY <1>7, <1>8 DEF IInv

LEMMA Initial ==
  ASSUME TripleAssumption, Init
  PROVE  IInv
  <1>1. /\ program \in Programs /\ at = [p \in Party |-> 1] /\ mine = Nothing
        /\ triples = [p \in Party |-> <<>>] /\ wire = <<>>
    BY DEF Init
  <1>2. Len(program) \in Nat
    <2>1. program \in Seq(Calls)
      BY <1>1 DEF TripleAssumption
    <2> HIDE DEF Calls
    <2> QED
      BY <2>1
  <1>3. IsList(<<>>, 0)
    BY DEF IsList
  <1>4. LocalInv
    <2>1. \A p \in Party : at[p] = 1 /\ triples[p] = <<>> /\ 1 - 1 = 0
      BY <1>1
    <2>2. \A p \in Party : at[p] <= Len(program) + 1 /\ IsList(triples[p], at[p] - 1)
      BY <1>2, <1>3, <2>1
    <2>3. at \in [Party -> Nat \ {0}] /\ triples = [p \in Party |-> triples[p]]
      BY <1>1
    <2> QED
      BY <1>1, <2>2, <2>3 DEF LocalInv
  <1>5. WireInv
    <2>1. at[ALICE] = 1 /\ at[BOB] = 1
      BY <1>1, Parties
    <2>2. PICK s : s = [k \in 1..1 |-> 0]
      OBVIOUS
    <2>3. Starts(s, program, 1)
      BY <2>2 DEF Starts
    <2>4. UnderWay(s, 0, program, 1, 1, triples[ALICE], wire)
      BY <1>1, <1>3, <2>2 DEF UnderWay
    <2> QED
      BY <2>1, <2>3, <2>4 DEF WireInv
  <1>6. \A p \in Party : DOMAIN triples[p] = {}
    BY <1>1
  <1>7. TriplesCorrect /\ SharedFactor
    BY <1>6, Parties DEF TriplesCorrect, SharedFactor
  <1> QED
    BY <1>4, <1>5, <1>7 DEF IInv

LEMMA Inductive ==
  ASSUME TripleAssumption
  PROVE  Spec => []IInv
  <1>1. Init => IInv
    BY Initial
  <1>2. IInv /\ [Next]_vars => IInv'
    <2> SUFFICES ASSUME IInv, [Next]_vars PROVE IInv'
      OBVIOUS
    <2>1. CASE DealIdeal
      BY <2>1, StepDealIdeal
    <2>2. CASE OfferOTs
      BY <2>2, StepOfferOTs
    <2>3. CASE ReturnEmpty(ALICE)
      BY <2>3, StepEmptyAlice
    <2>4. CASE ReceiveIdeal
      BY <2>4, StepReceiveIdeal
    <2>5. CASE DrawBob
      BY <2>5, StepDrawBob
    <2>6. CASE PickOTs
      BY <2>6, StepPickOTs
    <2>7. CASE ReturnEmpty(BOB)
      BY <2>7, StepEmptyBob
    <2>8. CASE UNCHANGED vars
      BY <2>8 DEF vars, IInv, LocalInv, WireInv, TriplesCorrect, SharedFactor, IsOT, Active, Call
    <2> QED
      BY <2>1, <2>2, <2>3, <2>4, <2>5, <2>6, <2>7, <2>8 DEF Next, Alice, Bob
  <1> QED
    BY <1>1, <1>2, PTL DEF Spec

------------------------------------------------------------------------------
(* The theorems.                                                           *)

\* Whatever calls the two parties make, in whatever interleaving, and whatever
\* they draw: the arrays that TripleGenerator::generate leaves them for a call are
\* shares of triples, index by index, for each method, packing and offset.
THEOREM GeneratesTriples ==
  ASSUME TripleAssumption
  PROVE  Spec => []TriplesCorrect
  <1>1. IInv => TriplesCorrect
    BY DEF IInv
  <1> QED
    BY <1>1, Inductive, PTL

\* The correlated method gives triples offset apart a common first factor, on both
\* sides: what lets AND_step_1 open it once for two products.
THEOREM SharesFactor ==
  ASSUME TripleAssumption
  PROVE  Spec => []SharedFactor
  <1>1. IInv => SharedFactor
    BY DEF IInv
  <1> QED
    BY <1>1, Inductive, PTL
=============================================================================
