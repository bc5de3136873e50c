------------------------------- MODULE Powers -------------------------------
(***************************************************************************)
(* The facts about natural numbers that the digits of a number need: the   *)
(* least element of a set of naturals, and the powers of two, which the    *)
(* provers know nothing about; and lists, sequences of whatever members.   *)
(***************************************************************************)
EXTENDS Integers, Sequences, FiniteSetTheorems, FunctionTheorems, SequenceTheorems, TLAPS

\* Induction in the form the provers can use: a set of naturals has a least
\* element, so a statement that fails somewhere fails first at some number.
LEMMA LeastElement ==
  ASSUME NEW T, T \subseteq Nat, T # {}
  PROVE  \E x \in T : \A y \in T : x <= y
  <1>1. PICK x \in T : \A y \in T : ~(<<y, x>> \in OpToRel(<, Nat))
    BY NatLessThanWellFounded, WFMin
  <1>2. ASSUME NEW y \in T
        PROVE  x <= y
    <2>1. x \in Nat /\ y \in Nat
      OBVIOUS
    <2>2. ~(y < x)
      BY <1>1, <2>1 DEF OpToRel
    <2> QED
      BY <2>1, <2>2
  <1> QED
    BY <1>2

\* n steps of a function, from a on, that do not leave S.
IsStep(step, n, S) == step \in [1..n -> [S -> S]]
Recurs(g, n, S, a, step) ==
  /\ g \in [0..n -> S]
  /\ g[0] = a
  /\ \A c \in 1..n : g[c] = step[c][g[c - 1]]

\* A function that is defined from its value before exists, when every step of
\* it stays within a set.
LEMMA Recursion ==
  ASSUME NEW n \in Nat, NEW S, NEW a \in S, NEW step, IsStep(step, n, S)
  PROVE  \E g : Recurs(g, n, S, a, step)
  <1> USE DEF IsStep, Recurs
  <1> DEFINE IsUpTo(g, m) == Recurs(g, m, S, a, step)
             Bad == {m \in 0..n : \A g : ~IsUpTo(g, m)}
  <1>1. ASSUME Bad # {}
        PROVE  FALSE
    <2>1. PICK m \in Bad : \A x \in Bad : m <= x
      <3>1. Bad \subseteq Nat
        OBVIOUS
      <3> HIDE DEF Bad
      <3> QED
        BY <1>1, <3>1, LeastElement
    <2>2. m \in 0..n /\ \A g : ~IsUpTo(g, m)
      OBVIOUS
    <2>3. m # 0
      <3>1. IsUpTo([c \in 0..0 |-> a], 0)
        OBVIOUS
      <3> QED
        BY <2>2, <3>1
    <2>4. PICK l \in Nat : m = l + 1
      <3>1. m - 1 \in Nat /\ m = (m - 1) + 1
        BY <2>2, <2>3
      <3> QED
        BY <3>1
    <2>5. l \notin Bad /\ l \in 0..n
      <3> HIDE DEF Bad
      <3> QED
        BY <2>1, <2>2, <2>4
    <2>6. PICK g : IsUpTo(g, l)
      BY <2>5
    <2> DEFINE h == [c \in 0..m |-> IF c = m THEN step[m][g[l]] ELSE g[c]]
    <2>7. step[m][g[l]] \in S
      BY <2>2, <2>4, <2>6
    <2>8. h \in [0..m -> S] /\ h[0] = a /\ h[m] = step[m][g[l]] /\ \A c \in 0..l : h[c] = g[c]
      BY <2>2, <2>4, <2>6, <2>7
    <2>9. ASSUME NEW c \in 1..m
          PROVE  h[c] = step[c][h[c - 1]]
      <3> HIDE DEF h
      <3>1. CASE c = m
        <4>1. c - 1 = l /\ l \in 0..l
          BY <2>4, <3>1
        <4> QED
          BY <2>8, <3>1, <4>1
      <3>2. CASE c # m
        <4>1. c \in 1..l /\ c \in 0..l /\ c - 1 \in 0..l
          BY <2>4, <3>2
        <4> QED
          BY <2>6, <2>8, <4>1
      <3> QED
        BY <3>1, <3>2
    <2>10. IsUpTo(h, m)
      <3> HIDE DEF h
      <3> QED
        BY <2>8, <2>9
    <2> QED
      BY <2>2, <2>10
  <1>2. n \notin Bad
    BY <1>1
  <1> QED
    BY <1>2

\* Two functions agree that start alike and of which each step keeps them alike.
StepsAlike(g, h, n) == g[0] = h[0] /\ \A c \in 1..n : g[c - 1] = h[c - 1] => g[c] = h[c]

LEMMA AlikeStepwise ==
  ASSUME NEW n \in Nat, NEW g, NEW h, StepsAlike(g, h, n)
  PROVE  \A c \in 0..n : g[c] = h[c]
  <1> USE DEF StepsAlike
  <1> DEFINE Bad == {c \in 0..n : g[c] # h[c]}
  <1>1. ASSUME Bad # {}
        PROVE  FALSE
    <2>1. PICK c \in Bad : \A d \in Bad : c <= d
      <3>1. Bad \subseteq Nat
        OBVIOUS
      <3> HIDE DEF Bad
      <3> QED
        BY <1>1, <3>1, LeastElement
    <2>2. c \in 0..n /\ g[c] # h[c] /\ c # 0
      OBVIOUS
    <2>3. c \in 1..n /\ c - 1 \in 0..n
      BY <2>2
    <2>4. c - 1 \notin Bad
      <3> HIDE DEF Bad
      <3> QED
        BY <2>1, <2>3
    <2> QED
      BY <2>2, <2>3, <2>4
  <1> QED
    BY <1>1

\* The subsets of n + 1 elements are those of n, without and with the last.
LEMMA PowerDouble ==
  ASSUME NEW n \in Nat
  PROVE  2^n \in Nat /\ 2^n > 0 /\ 2^(n + 1) = 2 * 2^n
  <1> DEFINE S == 1..n
             S1 == 1..(n + 1)
             W == {X \cup {n + 1} : X \in SUBSET S}
  <1>1. /\ IsFiniteSet(S) /\ Cardinality(S) = n
        /\ IsFiniteSet(S1) /\ Cardinality(S1) = n + 1
    BY FS_Interval
  <1>2. /\ IsFiniteSet(SUBSET S) /\ Cardinality(SUBSET S) = 2^n
        /\ IsFiniteSet(SUBSET S1) /\ Cardinality(SUBSET S1) = 2^(n + 1)
    BY <1>1, FS_SUBSET
  <1>3. 2^n \in Nat /\ 2^n > 0
    <2>1. 2^n \in Nat
      BY <1>2, FS_CardinalityType
    <2>2. {} \in SUBSET S /\ SUBSET S # {}
      OBVIOUS
    <2>3. Cardinality(SUBSET S) # 0
      BY <1>2, <2>2, FS_EmptySet
    <2> QED
      BY <1>2, <2>1, <2>3
  <1>4. ExistsBijection(SUBSET S, W)
    <2> DEFINE f == [X \in SUBSET S |-> X \cup {n + 1}]
    <2>1. f \in [SUBSET S -> W]
      OBVIOUS
    <2>2. \A w \in W : \E X \in SUBSET S : f[X] = w
      OBVIOUS
    <2>3. ASSUME NEW X \in SUBSET S, NEW Y \in SUBSET S, f[X] = f[Y]
          PROVE  X = Y
      <3>1. n + 1 \notin X /\ n + 1 \notin Y
        OBVIOUS
      <3> QED
        BY <2>3, <3>1
    <2> QED
      BY <2>1, <2>2, <2>3, Fun_IsBij, Fun_ExistsBij
  <1>5. IsFiniteSet(W) /\ Cardinality(W) = 2^n
    BY <1>2, <1>4, FS_Bijection
  <1>6. SUBSET S1 = (SUBSET S) \cup W
    <2>1. ASSUME NEW X \in SUBSET S1
          PROVE  X \in (SUBSET S) \cup W
      <3>1. CASE n + 1 \in X
        <4>1. X \ {n + 1} \in SUBSET S /\ X = (X \ {n + 1}) \cup {n + 1}
          BY <3>1
        <4> QED
          BY <4>1
      <3>2. CASE n + 1 \notin X
        <4>1. X \in SUBSET S
          BY <3>2
        <4> QED
          BY <4>1
      <3> QED
        BY <3>1, <3>2
    <2>2. S \subseteq S1 /\ n + 1 \in S1
      OBVIOUS
    <2> QED
      BY <2>1, <2>2
  <1>7. (SUBSET S) \cap W = {}
    <2>1. \A w \in W : n + 1 \in w
      OBVIOUS
    <2>2. \A X \in SUBSET S : n + 1 \notin X
      OBVIOUS
    <2> QED
      BY <2>1, <2>2
  <1>8. PICK A, B, c, d : A = SUBSET S /\ B = SUBSET S1 /\ c = 2^n /\ d = 2^(n + 1)
    OBVIOUS
  <1>9. /\ IsFiniteSet(A) /\ Cardinality(A) = c /\ IsFiniteSet(W) /\ Cardinality(W) = c
        /\ B = A \cup W /\ A \cap W = {} /\ Cardinality(B) = d /\ c \in Nat
    BY <1>2, <1>3, <1>5, <1>6, <1>7, <1>8
  <1> HIDE DEF W
  <1>10. Cardinality(A \cap W) = 0
    BY <1>9, FS_EmptySet
  <1>11. d = c + c - 0
    BY <1>9, <1>10, FS_Union
  <1>12. d = 2 * c
    BY <1>9, <1>11
  <1> QED
    BY <1>3, <1>8, <1>12

LEMMA PowerSum ==
  ASSUME NEW a \in Nat, NEW b \in Nat
  PROVE  2^(a + b) = 2^a * 2^b
  <1> DEFINE Bad == {n \in Nat : 2^(a + n) # 2^a * 2^n}
  <1>1. 2^0 = 1 /\ a + 0 = a /\ 2^a \in Nat
    BY PowerDouble
  <1>2. 0 \notin Bad
    BY <1>1
  <1>3. ASSUME Bad # {}
        PROVE  FALSE
    <2>1. PICK n \in Bad : \A m \in Bad : n <= m
      <3>1. Bad \subseteq Nat
        OBVIOUS
      <3> HIDE DEF Bad
      <3> QED
        BY <1>3, <3>1, LeastElement
    <2>2. n \in Nat /\ n # 0 /\ 2^(a + n) # 2^a * 2^n
      BY <1>2
    <2>3. PICK m \in Nat : n = m + 1
      <3>1. n - 1 \in Nat /\ n = (n - 1) + 1
        BY <2>2
      <3> QED
        BY <3>1
    <2>4. m \notin Bad
      <3> HIDE DEF Bad
      <3> QED
        BY <2>1, <2>2, <2>3
    <2>5. 2^(a + m) = 2^a * 2^m
      BY <2>4
    <2>6. a + m \in Nat /\ a + n = (a + m) + 1
      BY <2>2, <2>3
    <2>7. PICK x, y, z, u, v : /\ x = 2^a /\ y = 2^m /\ z = 2^(a + m)
                               /\ u = 2^n /\ v = 2^(a + n)
      OBVIOUS
    <2>8. x \in Nat /\ y \in Nat /\ z \in Nat /\ u = 2 * y /\ v = 2 * z
      BY <2>3, <2>6, <2>7, PowerDouble
    <2>9. z = x * y /\ v # x * u
      BY <2>2, <2>5, <2>7
    <2>10. x * (2 * y) = 2 * (x * y)
      BY <2>8
    <2> QED
      BY <2>8, <2>9, <2>10
  <1> QED
    BY <1>3

------------------------------------------------------------------------------
(* Division.                                                                *)

LEMMA DivMod ==
  ASSUME NEW x \in Nat, NEW d \in Nat, d > 0
  PROVE  \E q \in Nat, r \in Nat :
           q = x \div d /\ r = x % d /\ r < d /\ x = d * q + r
  <1>1. PICK q \in Int, r \in Int : q = x \div d /\ r = x % d /\ x = d * q + r
    OBVIOUS
  <1>2. r >= 0 /\ r < d
    BY <1>1
  <1>3. ~(q < 0)
    <2>1. ASSUME q < 0
          PROVE  d * q <= -d
      <3>1. PICK k \in Nat : q = -1 - k
        <4>1. -1 - q \in Nat /\ q = -1 - (-1 - q)
          BY <2>1
        <4> QED
          BY <4>1
      <3>2. d * q = -d - d * k /\ d * k >= 0
        BY <3>1
      <3> QED
        BY <3>2
    <2> QED
      BY <1>1, <1>2, <2>1
  <1> QED
    BY <1>1, <1>2, <1>3

LEMMA DivUnique ==
  ASSUME NEW x \in Nat, NEW d \in Nat, d > 0, NEW q \in Nat, NEW r \in Nat,
         r < d, x = d * q + r
  PROVE  x \div d = q /\ x % d = r
  <1>1. PICK p \in Nat, s \in Nat : p = x \div d /\ s = x % d /\ s < d /\ x = d * p + s
    BY DivMod
  <1>2. p = q
    <2>1. ~(p < q)
      <3>1. ASSUME p + 1 <= q
            PROVE  d * p + d <= d * q
        <4>1. PICK k \in Nat : q = p + 1 + k
          <5>1. q - p - 1 \in Nat /\ q = p + 1 + (q - p - 1)
            BY <3>1
          <5> QED
            BY <5>1
        <4>2. d * q = d * p + d + d * k /\ d * k >= 0
          BY <4>1
        <4> QED
          BY <4>2
      <3> QED
        BY <1>1, <3>1
    <2>2. ~(q < p)
      <3>1. ASSUME q + 1 <= p
            PROVE  d * q + d <= d * p
        <4>1. PICK k \in Nat : p = q + 1 + k
          <5>1. p - q - 1 \in Nat /\ p = q + 1 + (p - q - 1)
            BY <3>1
          <5> QED
            BY <5>1
        <4>2. d * p = d * q + d + d * k /\ d * k >= 0
          BY <4>1
        <4> QED
          BY <4>2
      <3> QED
        BY <1>1, <3>1
    <2> QED
      BY <2>1, <2>2
  <1> QED
    BY <1>1, <1>2

LEMMA DivDiv ==
  ASSUME NEW x \in Nat, NEW a \in Nat, NEW b \in Nat, a > 0, b > 0
  PROVE  x \div (a * b) = (x \div a) \div b
  <1>1. PICK q \in Nat, r \in Nat : q = x \div a /\ r < a /\ x = a * q + r
    BY DivMod
  <1>2. PICK p \in Nat, t \in Nat : p = q \div b /\ t < b /\ q = b * p + t
    BY DivMod
  <1>3. PICK k \in Nat : b = t + 1 + k
    <2>1. b - t - 1 \in Nat /\ b = t + 1 + (b - t - 1)
      BY <1>2
    <2> QED
      BY <2>1
  <1>4. PICK d \in Nat, u \in Nat : d = a * b /\ u = a * t + r
    OBVIOUS
  <1>5. a * b = a * t + a + a * k /\ a * k >= 0
    BY <1>3
  <1>6. d > 0 /\ u < d
    BY <1>1, <1>4, <1>5
  <1>7. x = d * p + u
    <2>1. a * (b * p + t) = (a * b) * p + a * t
      OBVIOUS
    <2> QED
      BY <1>1, <1>2, <1>4, <2>1
  <1> QED
    BY <1>1, <1>2, <1>4, <1>6, <1>7, DivUnique

LEMMA DivBound ==
  ASSUME NEW x \in Nat, NEW a \in Nat, NEW b \in Nat, a > 0, x < a * b
  PROVE  x \div a < b
  <1>1. PICK q \in Nat, r \in Nat : q = x \div a /\ r < a /\ x = a * q + r
    BY DivMod
  <1>2. ASSUME b <= q
        PROVE  FALSE
    <2>1. PICK k \in Nat : q = b + k
      <3>1. q - b \in Nat /\ q = b + (q - b)
        BY <1>2
      <3> QED
        BY <3>1
    <2>2. a * q = a * b + a * k /\ a * k >= 0
      BY <2>1
    <2> QED
      BY <1>1, <2>2
  <1> QED
    BY <1>1, <1>2

\* Two numbers compare as their quotients, or as their remainders where the
\* quotients are equal.
LEMMA DivOrder ==
  ASSUME NEW x \in Nat, NEW y \in Nat, NEW b \in Nat, b > 0
  PROVE  /\ x = y <=> x \div b = y \div b /\ x % b = y % b
         /\ x < y <=> \/ x \div b < y \div b
                      \/ x \div b = y \div b /\ x % b < y % b
  <1>1. PICK p \in Nat, r \in Nat : p = x \div b /\ r = x % b /\ r < b /\ x = b * p + r
    BY DivMod
  <1>2. PICK q \in Nat, s \in Nat : q = y \div b /\ s = y % b /\ s < b /\ y = b * q + s
    BY DivMod
  <1>3. ASSUME NEW m \in Nat, NEW n \in Nat, m < n
        PROVE  b * m + b <= b * n
    <2>1. PICK k \in Nat : n = m + 1 + k
      <3>1. n - m - 1 \in Nat /\ n = m + 1 + (n - m - 1)
        BY <1>3
      <3> QED
        BY <3>1
    <2>2. b * n = b * m + b + b * k /\ b * k >= 0
      BY <2>1
    <2> QED
      BY <2>2
  <1>4. /\ p < q => b * p + b <= b * q
        /\ q < p => b * q + b <= b * p
        /\ p < q \/ p = q \/ q < p
    BY <1>3
  <1>5. PICK u \in Nat, v \in Nat : u = b * p /\ v = b * q
    OBVIOUS
  <1>6. /\ x = y <=> p = q /\ r = s
        /\ x < y <=> p < q \/ (p = q /\ r < s)
    BY <1>1, <1>2, <1>4, <1>5
  <1> QED
    BY <1>1, <1>2, <1>6

------------------------------------------------------------------------------
(* Lists.                                                                  *)

\* A sequence with n members, whatever they are.
IsList(s, n) == s = [k \in 1..n |-> s[k]]

LEMMA ListFacts ==
  ASSUME NEW s, NEW n \in Nat, IsList(s, n)
  PROVE  DOMAIN s = 1..n /\ Len(s) = n /\ s \in Seq({s[k] : k \in 1..n})
  <1> DEFINE T == {s[k] : k \in 1..n}
  <1>1. DOMAIN s = 1..n
    BY DEF IsList
  <1>2. s \in [1..n -> T]
    BY DEF IsList
  <1> HIDE DEF T
  <1>3. s \in Seq(T)
    BY <1>2
  <1>4. Len(s) = n
    BY <1>1, <1>3
  <1> QED
    BY <1>1, <1>3, <1>4 DEF T

LEMMA SeqIsList ==
  ASSUME NEW T, NEW s \in Seq(T)
  PROVE  Len(s) \in Nat /\ IsList(s, Len(s))
  BY DEF IsList

\* u is a list made of others.
IsJoin(u, s, t) == u = s \o t
IsAppend(u, s, e) == u = Append(s, e)
IsRest(u, s, m) == u = SubSeq(s, m + 1, Len(s))
IsTail(u, s) == u = Tail(s)

LEMMA JoinedList ==
  ASSUME NEW s, NEW n \in Nat, IsList(s, n), NEW t, NEW m \in Nat, IsList(t, m),
         NEW u, IsJoin(u, s, t)
  PROVE  /\ IsList(u, n + m)
         /\ \A k \in 1..n : u[k] = s[k]
         /\ \A k \in 1..m : u[n + k] = t[k]
  <1> DEFINE T == {s[k] : k \in 1..n} \cup {t[k] : k \in 1..m}
  <1>1. /\ DOMAIN s = 1..n /\ Len(s) = n /\ DOMAIN t = 1..m /\ Len(t) = m
    BY ListFacts
  <1>2. s \in [1..n -> T] /\ t \in [1..m -> T]
    BY DEF IsList
  <1> HIDE DEF T
  <1>3. s \in Seq(T) /\ t \in Seq(T)
    BY <1>2
  <1>4. /\ s \o t \in Seq(T) /\ Len(s \o t) = n + m
        /\ \A k \in 1..(n + m) : (s \o t)[k] = IF k <= n THEN s[k] ELSE t[k - n]
    BY <1>1, <1>3, ConcatProperties
  <1>41. /\ u \in Seq(T) /\ Len(u) = n + m
         /\ \A k \in 1..(n + m) : u[k] = IF k <= n THEN s[k] ELSE t[k - n]
    BY <1>4, Zenon DEF IsJoin
  <1>5. IsList(u, n + m)
    BY <1>41, SeqIsList
  <1>6. ASSUME NEW k \in 1..m
        PROVE  u[n + k] = t[k]
    <2>1. n + k \in 1..(n + m) /\ ~(n + k <= n) /\ n + k - n = k
      OBVIOUS
    <2> QED
      BY <1>41, <2>1
  <1>7. ASSUME NEW k \in 1..n
        PROVE  u[k] = s[k]
    <2>1. k \in 1..(n + m) /\ k <= n
      OBVIOUS
    <2> QED
      BY <1>41, <2>1
  <1> QED
    BY <1>5, <1>6, <1>7

LEMMA AppendedList ==
  ASSUME NEW s, NEW n \in Nat, IsList(s, n), NEW e, NEW u, IsAppend(u, s, e)
  PROVE  IsList(u, n + 1) /\ u[n + 1] = e /\ \A k \in 1..n : u[k] = s[k]
  <1> DEFINE T == {s[k] : k \in 1..n} \cup {e}
  <1>1. DOMAIN s = 1..n /\ Len(s) = n
    BY ListFacts
  <1>2. s \in [1..n -> T] /\ e \in T
    BY DEF IsList
  <1> HIDE DEF T
  <1>3. s \in Seq(T)
    BY <1>2
  <1>4. /\ Append(s, e) \in Seq(T) /\ Len(Append(s, e)) = n + 1
        /\ \A k \in 1..n : Append(s, e)[k] = s[k]
        /\ Append(s, e)[n + 1] = e
    BY <1>1, <1>2, <1>3, AppendProperties
  <1>5. /\ u \in Seq(T) /\ Len(u) = n + 1 /\ u[n + 1] = e
        /\ \A k \in 1..n : u[k] = s[k]
    BY <1>4, Zenon DEF IsAppend
  <1> QED
    BY <1>5, SeqIsList

\* What is left of a list after its first m members.
LEMMA RestOfList ==
  ASSUME NEW s, NEW n \in Nat, IsList(s, n), NEW m \in Nat, m <= n,
         NEW t, IsRest(t, s, m)
  PROVE  IsList(t, n - m) /\ \A k \in 1..(n - m) : t[k] = s[k + m]
  <1> DEFINE T == {s[k] : k \in 1..n}
  <1>1. \A k \in (m + 1)..n : s[k] \in T
    OBVIOUS
  <1> HIDE DEF T
  <1>2. /\ t \in Seq(T) /\ Len(t) = (IF m + 1 <= n THEN n - (m + 1) + 1 ELSE 0)
        /\ \A k \in 1..(n - (m + 1) + 1) : t[k] = s[m + 1 + k - 1]
    <2>1. LET u == SubSeq(s, m + 1, n)
          IN  /\ u \in Seq(T) /\ Len(u) = (IF m + 1 <= n THEN n - (m + 1) + 1 ELSE 0)
              /\ \A k \in 1..(n - (m + 1) + 1) : u[k] = s[m + 1 + k - 1]
      BY <1>1, SubSeqProperties
    <2>2. Len(s) = n
      BY ListFacts
    <2> QED
      BY <2>1, <2>2, Zenon DEF IsRest
  <1>3. Len(t) = n - m
    BY <1>2
  <1>4. IsList(t, n - m)
    BY <1>2, <1>3, SeqIsList
  <1>5. ASSUME NEW k \in 1..(n - m)
        PROVE  t[k] = s[k + m]
    <2>1. k \in 1..(n - (m + 1) + 1) /\ m + 1 + k - 1 = k + m
      OBVIOUS
    <2> QED
      BY <1>2, <2>1
  <1> QED
    BY <1>4, <1>5

LEMMA TailOfList ==
  ASSUME NEW s, NEW n \in Nat, IsList(s, n), n > 0, NEW t, IsTail(t, s)
  PROVE  IsList(t, n - 1) /\ \A k \in 1..(n - 1) : t[k] = s[k + 1]
  <1> DEFINE T == {s[k] : k \in 1..n}
  <1>1. s \in Seq(T) /\ Len(s) = n
    BY ListFacts
  <1> HIDE DEF T
  <1>2. s # <<>>
    BY <1>1
  <1>3. /\ Tail(s) \in Seq(T) /\ Len(Tail(s)) = n - 1
        /\ \A k \in 1..(n - 1) : Tail(s)[k] = s[k + 1]
    BY <1>1, <1>2, HeadTailProperties
  <1>4. /\ t \in Seq(T) /\ Len(t) = n - 1
        /\ \A k \in 1..(n - 1) : t[k] = s[k + 1]
    BY <1>3, Zenon DEF IsTail
  <1> QED
    BY <1>4, SeqIsList
=============================================================================
