-------------------------- MODULE ExpansionProofs --------------------------
(***************************************************************************)
(* Theorems about SilentOT, for any command lines, batches of trees, code  *)
(* and blocks, any sequence of set-ups and calls and any interleaving of   *)
(* the parties: keys sent once, sizes, what both hold; and ExConvModd's,   *)
(* for any sizes of its buffer, seeds, moduli and mixing.                  *)
(***************************************************************************)
EXTENDS SilentOT, Powers, FiniteSetTheorems, SequenceTheorems, TLAPS

\* The parties are configured for some number of trees.
ConfigInv ==
  /\ cmd \in Commands
  /\ sender = Unconfigured \/ \E parts \in Nat \ {0} : sender = Configured(parts)

\* The keys of the sender carry the number of their set-up.  What has been sent
\* under keys that the sender still has, the call that is under way sent.
KeysInv ==
  /\ calls \in Nat
  /\ pc = "expand" => base # <<>>
  /\ base # <<>> => base[0][0][1] \in 0..(calls - 1)
  /\ \A a \in wire : a = <<a[1], a[2]>> /\ a[1] \in 0..(calls - 1)
  /\ KeysOnce
  /\ \A a \in wire :
       base # <<>> /\ a[1] = base[0][0][1] => pc = "expand" /\ op \in Online /\ a[2] = seed

------------------------------------------------------------------------------
(* The sizes.                                                              *)

LEMMA PowerExceeds ==
  ASSUME NEW n \in Nat
  PROVE  2^n > n
  <1> DEFINE Bad == {m \in Nat : ~(2^m > m)}
  <1>1. ASSUME Bad # {}
        PROVE  FALSE
    <2>1. PICK m \in Bad : \A x \in Bad : m <= x
      <3>1. Bad \subseteq Nat
        OBVIOUS
      <3> HIDE DEF Bad
      <3> QED
        BY <1>1, <3>1, LeastElement
    <2>2. m \in Nat /\ ~(2^m > m) /\ 2^0 > 0
      BY PowerDouble
    <2>3. PICK l \in Nat : m = l + 1
      <3>1. m # 0
        BY <2>2
      <3>2. m - 1 \in Nat /\ m = (m - 1) + 1
        BY <2>2, <3>1
      <3> QED
        BY <3>2
    <2>4. l \notin Bad
      <3> HIDE DEF Bad
      <3> QED
        BY <2>1, <2>2, <2>3
    <2>5. 2^l > l
      BY <2>4
    <2>6. PICK x \in Nat, y \in Nat : x = 2^l /\ y = 2^m /\ y = 2 * x
      BY <2>2, <2>3, PowerDouble
    <2> QED
      BY <2>2, <2>3, <2>5, <2>6
  <1>2. n \notin Bad
    BY <1>1
  <1> QED
    BY <1>2, PowerDouble

LEMMA Log2Ceil ==
  ASSUME NEW x \in Nat
  PROVE  log2ceil(x) \in Nat /\ 2^(log2ceil(x)) >= x
  <1> DEFINE Room == {e \in Nat : 2^e >= x}
  <1>1. x \in Room
    BY PowerExceeds, PowerDouble
  <1>2. PICK e \in Room : \A f \in Room : e <= f
    <2>1. Room \subseteq Nat
      OBVIOUS
    <2> HIDE DEF Room
    <2> QED
      BY <1>1, <2>1, LeastElement
  <1>3. e \in 0..x /\ 2^e >= x
    BY <1>1, <1>2
  <1>4. ASSUME NEW f \in 0..(e - 1)
        PROVE  2^f < x
    <2>1. f \in Nat /\ f \notin Room
      <3> HIDE DEF Room
      <3> QED
        BY <1>2, <1>3
    <2> QED
      BY <2>1, PowerDouble
  <1>5. \E d \in 0..x : 2^d >= x /\ \A f \in 0..(d - 1) : 2^f < x
    BY <1>3, <1>4
  <1> QED
    BY <1>5 DEF log2ceil

\* divCeil.
LEMMA CeilDivCovers ==
  ASSUME NEW a \in Nat, NEW b \in Nat, b > 0
  PROVE  CeilDiv(a, b) \in Nat /\ b * CeilDiv(a, b) >= a
  <1>1. PICK x \in Nat : x = a + b - 1
    OBVIOUS
  <1>2. PICK q \in Nat, r \in Nat : q = x \div b /\ r < b /\ x = b * q + r
    BY DivMod
  <1>3. PICK p \in Nat : p = b * q
    OBVIOUS
  <1>4. p >= a
    BY <1>1, <1>2, <1>3
  <1> QED
    BY <1>1, <1>2, <1>3, <1>4 DEF CeilDiv

LEMMA Asked ==
  ASSUME SilentOTAssumption, NEW c \in Commands
  PROVE  NumOTs(c) \in Nat
  <1>1. /\ DefaultNn \in Nat /\ FlagNn \in Nat
        /\ c.nn \in Nat \cup {NotSet} /\ c.n \in Nat
    BY DEF SilentOTAssumption
  <1>2. 2^DefaultNn \in Nat /\ 2^FlagNn \in Nat /\ (c.nn # NotSet => 2^(c.nn) \in Nat)
    BY <1>1, PowerDouble
  <1> QED
    BY <1>1, <1>2 DEF NumOTs

\* A tree has an even number of leaves, its depth has room for them, and all
\* trees together have those of the code.
LEMMA Sizes ==
  ASSUME SilentOTAssumption, cmd \in Commands, NEW parts \in Nat \ {0}
  PROVE  /\ SizePer(parts) \in Nat /\ SizePer(parts) >= 4 /\ SizePer(parts) % 2 = 0
         /\ parts * SizePer(parts) >= numOTs * scaler
         /\ log2ceil(SizePer(parts)) \in Nat /\ log2ceil(SizePer(parts)) > 0
         /\ SizePer(parts) <= 2^(log2ceil(SizePer(parts)))
  <1>1. PICK n \in Nat : n = numOTs /\ numOTs * scaler = n * 2
    BY Asked DEF numOTs, scaler
  <1>2. PICK leaves \in Nat : leaves = LeavesOf(parts) /\ parts * leaves >= n * 2
    BY <1>1, CeilDivCovers DEF LeavesOf
  <1>3. PICK half \in Nat : half = CeilDiv(leaves, 2) /\ 2 * half >= leaves
    BY CeilDivCovers
  <1>4. PICK size \in Nat : size = SizePer(parts)
                           /\ size >= 4 /\ size >= leaves /\ size = 2 * (IF 2 * half < 4 THEN 2 ELSE half)
    <2>1. SizePer(parts) = IF 2 * half < 4 THEN 4 ELSE 2 * half
      BY <1>2, <1>3 DEF SizePer
    <2> QED
      BY <1>3, <2>1
  <1>5. size % 2 = 0
    <2>1. PICK h \in Nat : size = 2 * h + 0
      BY <1>3, <1>4
    <2> QED
      BY <2>1, DivUnique
  <1>6. parts * size >= n * 2
    <2>1. PICK d \in Nat : size = leaves + d
      <3>1. size - leaves \in Nat /\ size = leaves + (size - leaves)
        BY <1>4
      <3> QED
        BY <3>1
    <2>2. parts * size = parts * leaves + parts * d /\ parts * d >= 0
      BY <2>1
    <2> QED
      BY <1>2, <2>2
  <1>7. PICK e \in Nat : e = log2ceil(size) /\ 2^e >= size
    BY Log2Ceil
  <1>8. e > 0
    <2>1. ASSUME e = 0
          PROVE  FALSE
      <3>1. PICK p : p = 2^e /\ p = 2^0
        BY <2>1
      <3>2. p = 1
        BY <3>1
      <3> QED
        BY <1>4, <1>7, <3>1, <3>2
    <2> QED
      BY <2>1
  <1>9. 2^e \in Nat
    BY PowerDouble
  <1> QED
    BY <1>1, <1>4, <1>5, <1>6, <1>7, <1>8, <1>9

\* The numbers of partitions that a set-up may have.
LEMMA PartsType ==
  ASSUME SilentOTAssumption, NEW c \in Commands
  PROVE  PartsOf(c) \subseteq Nat
  <1>1. RegNoiseWeight(NumOTs(c) * scaler) \in Nat
    BY DEF SilentOTAssumption
  <1>2. PICK d \in Nat : d = 2^GgmDepth(c) /\ d > 0
    <2>1. GgmDepth(c) \in Nat
      BY DEF SilentOTAssumption, GgmDepth
    <2> QED
      BY <2>1, PowerDouble
  <1>3. PICK n \in Nat : n = NumOTs(c) * scaler
    BY Asked DEF scaler
  <1>4. PICK q \in Nat : q = n \div d
    BY <1>2, DivMod
  <1> QED
    BY <1>1, <1>2, <1>3, <1>4 DEF PartsOf, Partitions

\* A set-up has a base OT at least.
LEMMA FirstBase ==
  ASSUME SilentOTAssumption, cmd \in Commands, NEW parts \in Nat \ {0}
  PROVE  0 \in 0..(Configured(parts).depth * parts - 1)
  <1>1. PICK e \in Nat : e = Configured(parts).depth /\ e > 0
    BY Sizes DEF Configured
  <1>2. PICK l \in Nat : e = l + 1
    <2>1. e - 1 \in Nat /\ e = (e - 1) + 1
      BY <1>1
    <2> QED
      BY <2>1
  <1>3. e * parts = l * parts + parts /\ l * parts \in Nat
    BY <1>2
  <1> QED
    BY <1>1, <1>3

------------------------------------------------------------------------------
(* The steps.                                                              *)

LEMMA Starts ==
  ASSUME Init
  PROVE  ConfigInv /\ KeysInv
  <1>1. ConfigInv
    BY DEF Init, ConfigInv
  <1>2. KeysInv
    BY DEF Init, KeysInv, KeysOnce
  <1> QED
    BY <1>1, <1>2

\* The steps that write leaves, without the leaves.
LEMMA Expanded ==
  ASSUME ExpandTrees
  PROVE  /\ pc = "expand"
         /\ UNCHANGED <<cmd, sender, base, op, pc, seed, calls>>
         /\ wire' = IF op \in Online THEN wire \cup {<<base[0][0][1], seed>>} ELSE wire
  BY DEF ExpandTrees, WithLeaves

LEMMA Received ==
  ASSUME ReceiveTrees
  PROVE  UNCHANGED <<cmd, sender, base, op, pc, seed, calls, wire>>
  BY DEF ReceiveTrees, WithLeaves

LEMMA ConfigStep ==
  ASSUME SilentOTAssumption, ConfigInv, [Next]_vars
  PROVE  ConfigInv'
  <1>1. CASE SetUp
    <2>1. PICK parts \in PartsOf(cmd) \ {0} :
            sender' = Configured(parts) /\ cmd' = cmd
      BY <1>1 DEF SetUp
    <2>2. parts \in Nat \ {0}
      BY PartsType DEF ConfigInv
    <2>3. sender' = Configured(parts)'
      BY <2>1 DEF Configured, numOTs, SizePer, LeavesOf
    <2> QED
      BY <2>1, <2>2, <2>3 DEF ConfigInv
  <1>2. CASE SetUpSender
    <2>1. PICK parts \in Nat \ {0} :
            parts = pprf_num_partitions /\ sender' = Configured(parts) /\ cmd' = cmd
      BY <1>2, PartsType DEF SetUpSender, ConfigInv, pprf_num_partitions, PartsOf
    <2>2. sender' = Configured(parts)'
      BY <2>1 DEF Configured, numOTs, SizePer, LeavesOf
    <2> QED
      BY <2>1, <2>2 DEF ConfigInv
  <1>3. CASE cmd' = cmd /\ sender' \in {sender, Unconfigured}
    <2>1. ASSUME NEW parts \in Nat \ {0}, sender = Configured(parts), sender' = sender
          PROVE  sender' = Configured(parts)'
      BY <1>3, <2>1 DEF Configured, numOTs, SizePer, LeavesOf
    <2> QED
      BY <1>3, <2>1 DEF ConfigInv
  <1>4. ASSUME Next, ~SetUp, ~SetUpSender
        PROVE  cmd' = cmd /\ sender' \in {sender, Unconfigured}
    <2>1. DivideByZero \/ (\E o, count : Call(o, count)) => cmd' = cmd /\ sender' = sender
      BY DEF DivideByZero, Call
    <2>2. ExpandTrees => cmd' = cmd /\ sender' = sender
      BY Expanded
    <2>3. EndExpand \/ Compress => cmd' = cmd /\ sender' = sender
      BY DEF EndExpand, Compress
    <2>4. HashAndClear => cmd' = cmd /\ sender' = Unconfigured
      BY DEF HashAndClear
    <2>5. ReceiveTrees \/ Receive => cmd' = cmd /\ sender' = sender
      BY Received DEF Receive
    <2> QED
      BY <1>4, <2>1, <2>2, <2>3, <2>4, <2>5 DEF Next, Caller, Sender, Receiver
  <1>5. UNCHANGED vars => cmd' = cmd /\ sender' \in {sender, Unconfigured}
    BY DEF vars
  <1> QED
    BY <1>1, <1>2, <1>3, <1>4, <1>5

\* New keys carry a number that none has had before.
LEMMA NewKeys ==
  ASSUME KeysInv, pc = "idle", pc' = pc, wire' = wire, calls' = calls + 1,
         base'[0][0][1] = calls
  PROVE  KeysInv'
  <1>1. calls' \in Nat /\ calls \in 0..(calls' - 1)
    BY DEF KeysInv
  <1>2. \A a \in wire : a = <<a[1], a[2]>> /\ a[1] \in 0..(calls - 1) /\ a[1] \in 0..(calls' - 1) /\ a[1] # calls
    BY DEF KeysInv
  <1>3. KeysOnce'
    BY DEF KeysInv, KeysOnce
  <1> QED
    BY <1>1, <1>2, <1>3 DEF KeysInv

LEMMA SetUpKeys ==
  ASSUME SilentOTAssumption, ConfigInv, KeysInv, SetUp
  PROVE  KeysInv'
  <1>1. PICK parts \in PartsOf(cmd) \ {0} :
          \E points : base' = BaseOTs(points, Configured(parts).depth, parts)
    BY DEF SetUp
  <1>2. parts \in Nat \ {0}
    BY PartsType DEF ConfigInv
  <1>3. PICK known : base'[0][0] = Key(0, known)
    BY <1>1, <1>2, FirstBase DEF BaseOTs, ConfigInv
  <1>4. base'[0][0][1] = calls
    BY <1>3 DEF Key
  <1> QED
    BY <1>4, NewKeys DEF SetUp

LEMMA SetUpSenderKeys ==
  ASSUME SilentOTAssumption, ConfigInv, KeysInv, SetUpSender
  PROVE  KeysInv'
  <1>1. PICK parts \in Nat \ {0} : parts = pprf_num_partitions
    BY PartsType DEF ConfigInv, SetUpSender, pprf_num_partitions, PartsOf
  <1>2. base' = [i \in 0..(Configured(parts).depth * parts - 1) |-> [b \in {0, 1} |-> Key(i, FALSE)]]
    BY <1>1 DEF SetUpSender, Configured
  <1>3. base'[0][0] = Key(0, FALSE)
    BY <1>2, FirstBase DEF ConfigInv
  <1>4. base'[0][0][1] = calls
    BY <1>3 DEF Key
  <1> QED
    BY <1>4, NewKeys DEF SetUpSender

\* A call starts with nothing sent under the keys that it takes.
LEMMA CallKeys ==
  ASSUME KeysInv, NEW o, NEW count, Call(o, count)
  PROVE  KeysInv'
  <1>1. calls \in Nat /\ calls' = calls + 1 /\ base' = base /\ wire' = wire /\ pc = "idle" /\ base # <<>>
    BY DEF KeysInv, Call, Accepted, hasSilentBaseOts
  <1>2. calls' \in Nat /\ 0..(calls - 1) \subseteq 0..(calls' - 1)
    BY <1>1
  <1>3. \A a \in wire : a[1] # base[0][0][1]
    BY <1>1 DEF KeysInv
  <1>4. KeysOnce'
    BY <1>1 DEF KeysInv, KeysOnce
  <1> QED
    BY <1>1, <1>2, <1>3, <1>4 DEF KeysInv

\* The batches of a call send under one seed, and nothing else was sent under
\* its keys.
LEMMA ExpandKeys ==
  ASSUME KeysInv, ExpandTrees
  PROVE  KeysInv'
  <1>1. /\ pc = "expand" /\ base # <<>> /\ calls' = calls /\ base' = base /\ pc' = pc
        /\ op' = op /\ seed' = seed
    BY Expanded DEF KeysInv
  <1>2. CASE op \in Online
    <2>1. PICK new : new = <<base[0][0][1], seed>>
      OBVIOUS
    <2>2. wire' = wire \cup {new} /\ new[1] = base[0][0][1] /\ new[2] = seed /\ new = <<new[1], new[2]>>
      BY <1>2, <2>1, Expanded
    <2>3. new[1] \in 0..(calls - 1)
      BY <1>1, <2>2 DEF KeysInv
    <2>4. \A a \in wire : a[1] = new[1] => a = new
      BY <1>1, <2>2, Zenon DEF KeysInv
    <2>5. KeysOnce'
      BY <2>2, <2>4 DEF KeysInv, KeysOnce
    <2>6. \A a \in wire' : a = <<a[1], a[2]>> /\ a[1] \in 0..(calls - 1)
      BY <2>2, <2>3 DEF KeysInv
    <2>7. \A a \in wire' : a[1] = base[0][0][1] => a[2] = seed
      BY <1>1, <2>2 DEF KeysInv
    <2> QED
      BY <1>1, <1>2, <2>5, <2>6, <2>7 DEF KeysInv
  <1>3. CASE op \notin Online
    <2>1. wire' = wire
      BY <1>3, Expanded
    <2> QED
      BY <1>1, <2>1 DEF KeysInv, KeysOnce
  <1> QED
    BY <1>2, <1>3

\* A call that has sent gives its keys up at its end.
LEMMA EndKeys ==
  ASSUME KeysInv, EndExpand
  PROVE  KeysInv'
  <1>1. /\ pc = "expand" /\ pc' = "compress" /\ calls' = calls /\ wire' = wire /\ op' = op /\ seed' = seed
        /\ base' = IF op = "offline2" THEN base ELSE <<>>
    BY DEF EndExpand, BaseAfter
  <1>2. KeysOnce'
    BY <1>1 DEF KeysInv, KeysOnce
  <1>3. base' # <<>> => op \notin Online /\ base' = base
    BY <1>1 DEF Online
  <1> QED
    BY <1>1, <1>2, <1>3 DEF KeysInv

\* The other steps leave the keys or drop them.
LEMMA OtherKeys ==
  ASSUME KeysInv, wire' = wire, calls' = calls,
         \/ base' = base /\ pc # "expand" /\ pc' # "expand"
         \/ base' = base /\ pc' = pc /\ op' = op /\ seed' = seed
         \/ base' = <<>> /\ pc' # "expand"
  PROVE  KeysInv'
  <1>1. KeysOnce'
    BY DEF KeysInv, KeysOnce
  <1> QED
    BY <1>1 DEF KeysInv

LEMMA KeysStep ==
  ASSUME SilentOTAssumption, ConfigInv, KeysInv, [Next]_vars
  PROVE  KeysInv'
  <1>1. CASE Caller
    <2>1. DivideByZero => KeysInv'
      BY OtherKeys DEF DivideByZero
    <2> QED
      BY <1>1, <2>1, SetUpKeys, SetUpSenderKeys, CallKeys DEF Caller
  <1>2. CASE Sender
    <2>1. Compress => KeysInv'
      BY OtherKeys DEF Compress
    <2>2. HashAndClear => KeysInv'
      BY OtherKeys DEF HashAndClear
    <2> QED
      BY <1>2, <2>1, <2>2, ExpandKeys, EndKeys DEF Sender
  <1>3. CASE Receiver
    <2>1. ReceiveTrees => KeysInv'
      BY OtherKeys, Received
    <2>2. Receive => KeysInv'
      BY OtherKeys DEF Receive
    <2> QED
      BY <1>3, <2>1, <2>2 DEF Receiver
  <1>4. CASE UNCHANGED vars
    BY <1>4, OtherKeys DEF vars
  <1> QED
    BY <1>1, <1>2, <1>3, <1>4 DEF Next

LEMMA Inductive ==
  ASSUME SilentOTAssumption
  PROVE  Spec => [](ConfigInv /\ KeysInv)
  <1>1. Init => ConfigInv /\ KeysInv
    BY Starts
  <1>2. ConfigInv /\ KeysInv /\ [Next]_vars => (ConfigInv /\ KeysInv)'
    BY ConfigStep, KeysStep
  <1> QED
    BY <1>1, <1>2, PTL DEF Spec

------------------------------------------------------------------------------
\* The sums of one expansion at most are sent under the keys of a set-up, in any
\* order of set-ups, online and offline calls: a call that sends gives its keys
\* up, and the offline call that keeps them sends nothing
\* (silentOTutils.h:261).
THEOREM SendsKeysOnce ==
  ASSUME SilentOTAssumption
  PROVE  Spec => []KeysOnce
  <1>1. KeysInv => KeysOnce
    BY DEF KeysInv
  <1> QED
    BY <1>1, Inductive, PTL

\* A leaf lies within its batch, and all batches within the trees' leaves.
LEMMA LeafInside ==
  ASSUME SilentOTAssumption, NEW c, c.parts \in Nat, c.sizePer \in Nat,
         NEW tree \in 0..(c.parts - 1), NEW x \in 0..(c.sizePer - 1)
  PROVE  LeafAt(c, tree, x) \in 0..(c.sizePer * c.parts - 1)
  <1>0. PICK b \in Nat : b = TreeBatch /\ b > 0
    BY DEF SilentOTAssumption
  <1>1. PICK q \in Nat, t \in Nat : q = tree \div b /\ t < b /\ tree = b * q + t
    BY <1>0, DivMod
  <1>2. PICK first \in Nat : first = (tree \div TreeBatch) * TreeBatch /\ tree = first + t
    BY <1>0, <1>1
  <1>3. PICK w \in Nat : w = Width(c, first) /\ t < w /\ first + w <= c.parts
    BY <1>0, <1>1, <1>2 DEF Width, Smaller
  <1>4. LeafAt(c, tree, x) = first * c.sizePer + x * w + t
    <2>1. LeafAt(c, tree, x) = first * c.sizePer + x * w + (tree - first)
      BY <1>2, <1>3, Zenon DEF LeafAt
    <2>2. PICK d : d = tree - first /\ d = t
      BY <1>2
    <2> QED
      BY <2>1, <2>2, Zenon
  <1>5. PICK rest \in Nat, size \in Nat : size = c.sizePer /\ c.parts = first + w + rest
    <2>1. c.parts - (first + w) \in Nat /\ c.parts = first + w + (c.parts - (first + w))
      BY <1>3
    <2> QED
      BY <2>1
  <1>6. PICK more \in Nat : size = x + 1 + more
    <2>1. size - x - 1 \in Nat /\ size = x + 1 + (size - x - 1)
      BY <1>5
    <2> QED
      BY <2>1
  <1>7. size * (first + w + rest) = first * size + size * w + size * rest
    BY <1>5
  <1>8. size * w = x * w + w + more * w
    BY <1>6
  <1>9. PICK fs \in Nat, xw \in Nat, mw \in Nat, sr \in Nat :
          fs = first * size /\ xw = x * w /\ mw = more * w /\ sr = size * rest
    OBVIOUS
  <1>10. c.sizePer * c.parts = fs + xw + w + mw + sr
    BY <1>5, <1>7, <1>8, <1>9
  <1>11. LeafAt(c, tree, x) = fs + xw + t
    BY <1>4, <1>5, <1>9
  <1> QED
    BY <1>1, <1>3, <1>9, <1>10, <1>11

\* However many OTs are asked for and however many trees they are cut into, the
\* trees have the leaves of the code, a tree has the depth for its leaves, and
\* the interleaving of a batch, also of the last, stays inside the array
\* (silentOTutils.h:505).
THEOREM CoversLeaves ==
  ASSUME SilentOTAssumption
  PROVE  Spec => []Covers
  <1>1. ASSUME ConfigInv
        PROVE  Covers
    <2> SUFFICES ASSUME isConfigured
                 PROVE  Covers
      BY DEF Covers
    <2>1. PICK parts \in Nat \ {0} : sender = Configured(parts)
      BY <1>1 DEF ConfigInv, isConfigured, Unconfigured
    <2>2. /\ sender.n = numOTs /\ sender.parts = parts /\ sender.sizePer = SizePer(parts)
          /\ sender.depth = log2ceil(SizePer(parts))
      BY <2>1 DEF Configured
    <2>3. PICK size \in Nat : /\ size = SizePer(parts) /\ size % 2 = 0
                             /\ parts * size >= numOTs * scaler /\ size <= 2^(log2ceil(size))
      BY <1>1, Sizes DEF ConfigInv
    <2>4. noiseVecSize(sender) >= scaler * sender.n
      <3>1. PICK n \in Nat : n = numOTs
        BY <1>1, Asked DEF ConfigInv, numOTs
      <3>2. size * parts = parts * size /\ n * 2 = 2 * n
        BY <3>1
      <3> QED
        BY <2>2, <2>3, <3>1, <3>2 DEF noiseVecSize, scaler
    <2>5. sender.sizePer <= 2^(sender.depth) /\ sender.sizePer % 2 = 0
      BY <2>2, <2>3
    <2>6. ASSUME NEW tree \in 0..(sender.parts - 1), NEW x \in 0..(sender.sizePer - 1)
          PROVE  LeafAt(sender, tree, x) \in 0..(noiseVecSize(sender) - 1)
      BY <2>2, <2>3, LeafInside DEF noiseVecSize
    <2> QED
      BY <2>4, <2>5, <2>6 DEF Covers
  <1> QED
    BY <1>1, Inductive, PTL

------------------------------------------------------------------------------
(* Where the leaves lie.                                                   *)

\* A configuration that a set-up makes: what is drawn for it lies in it.
Fit(c) ==
  /\ c.n \in Nat /\ c.parts \in Nat \ {0} /\ c.sizePer \in Nat \ {0} /\ c.depth \in Nat \ {0}
  /\ Points(c.parts, c.sizePer) \subseteq [0..(c.parts - 1) -> 0..(c.sizePer - 1)]
  /\ \A s \in 1..MaxCalls, t \in 0..(c.parts - 1), x \in 0..(c.sizePer - 1) : Expand(s, t, x) \in Elements

\* The tree and the leaf that lie at p.
Place(c, p) ==
  LET first == (p \div (TreeBatch * c.sizePer)) * TreeBatch
      rest == p % (TreeBatch * c.sizePer)
  IN  <<first + (rest % Width(c, first)), rest \div Width(c, first)>>

LEMMA FitType ==
  ASSUME SilentOTAssumption, NEW c, Fit(c)
  PROVE  /\ TreeBatch \in Nat /\ TreeBatch > 0
         /\ c.n \in Nat
         /\ c.parts \in Nat /\ c.parts > 0
         /\ c.sizePer \in Nat /\ c.sizePer > 0
         /\ c.depth \in Nat /\ c.depth > 0
  <1>1. TreeBatch \in Nat \ {0}
    BY DEF SilentOTAssumption
  <1>2. c.n \in Nat /\ c.parts \in Nat \ {0} /\ c.sizePer \in Nat \ {0} /\ c.depth \in Nat \ {0}
    BY DEF Fit
  <1> QED
    BY <1>1, <1>2

\* A product grows with its factors.
LEMMA Grows ==
  ASSUME NEW a \in Nat, NEW b \in Nat, NEW m \in Nat, a <= b
  PROVE  m * a <= m * b /\ (m > 0 /\ a < b => m * a + m <= m * b)
  <1>1. PICK d \in Nat : b = a + d
    <2>1. b - a \in Nat /\ b = a + (b - a)
      OBVIOUS
    <2> QED
      BY <2>1
  <1>2. m * b = m * a + m * d
    BY <1>1
  <1>3. PICK e \in Nat, f \in Nat, g \in Nat : e = m * a /\ f = m * b /\ g = m * d
    OBVIOUS
  <1>4. a < b => g >= m
    <2>1. ASSUME a < b
          PROVE  g >= m
      <3>1. PICK k \in Nat : d = k + 1
        <4>1. d - 1 \in Nat /\ d = (d - 1) + 1
          BY <1>1, <2>1
        <4> QED
          BY <4>1
      <3>2. m * (k + 1) = m * k + m /\ m * k \in Nat
        OBVIOUS
      <3> QED
        BY <1>3, <3>1, <3>2
    <2> QED
      BY <2>1
  <1> QED
    BY <1>2, <1>3, <1>4

LEMMA PlaceInside ==
  ASSUME SilentOTAssumption, NEW c, Fit(c), NEW p \in 0..(noiseVecSize(c) - 1)
  PROVE  /\ Place(c, p)[1] \in 0..(c.parts - 1) /\ Place(c, p)[2] \in 0..(c.sizePer - 1)
         /\ LeafAt(c, Place(c, p)[1], Place(c, p)[2]) = p
  <1>0. PICK b \in Nat, parts \in Nat, size \in Nat :
          b = TreeBatch /\ b > 0 /\ parts = c.parts /\ parts > 0 /\ size = c.sizePer /\ size > 0
    BY FitType
  <1>1. PICK row \in Nat : row = b * size /\ row > 0
    <2>1. b * size \in Nat /\ b * 1 <= b * size /\ b * 1 = b
      BY <1>0, Grows
    <2> QED
      BY <1>0, <2>1
  <1>2. PICK all \in Nat : all = size * parts /\ p \in Nat /\ p < all
    <2>1. size * parts \in Nat /\ noiseVecSize(c) = size * parts
      BY <1>0 DEF noiseVecSize
    <2> QED
      BY <2>1
  <1>3. PICK k \in Nat, r \in Nat : k = p \div row /\ r = p % row /\ r < row /\ p = row * k + r
    BY <1>1, <1>2, DivMod
  <1>4. PICK first \in Nat : first = k * b
    BY <1>0
  <1>5. size * first = row * k
    <2>1. size * (k * b) = (b * size) * k
      BY <1>0
    <2> QED
      BY <1>1, <1>4, <2>1
  <1>6. PICK done \in Nat : done = size * first /\ p = done + r
    BY <1>0, <1>3, <1>4, <1>5
  <1>7. first < parts
    <2>1. ASSUME parts <= first
          PROVE  FALSE
      <3>1. size * parts <= size * first
        BY <1>0, <1>4, <2>1, Grows
      <3> QED
        BY <1>2, <1>6, <3>1
    <2> QED
      BY <1>0, <1>4, <2>1
  <1>8. PICK w \in Nat : /\ w = Width(c, first) /\ w > 0 /\ w <= b /\ first + w <= parts
                         /\ (w = b \/ w = parts - first)
    BY <1>0, <1>4, <1>7 DEF Width, Smaller
  <1>9. r < w * size
    <2>1. CASE w = b
      BY <1>1, <1>3, <2>1
    <2>2. CASE w = parts - first
      <3>1. size * parts = size * first + w * size
        <4>1. size * (first + w) = size * first + w * size /\ parts = first + w
          BY <1>0, <1>4, <1>8, <2>2
        <4> QED
          BY <4>1
      <3>2. PICK ws \in Nat : ws = w * size
        BY <1>0, <1>8
      <3> QED
        BY <1>2, <1>3, <1>6, <3>1, <3>2
    <2> QED
      BY <1>8, <2>1, <2>2
  <1>10. PICK x \in Nat, t \in Nat : x = r \div w /\ t = r % w /\ t < w /\ r = w * x + t
    <2>1. w \in Nat /\ w > 0 /\ r \in Nat
      BY <1>3, <1>8
    <2> QED
      BY <2>1, DivMod
  <1>11. t \in Nat /\ t < w /\ w <= b /\ first + w <= parts /\ w \in Nat /\ first \in Nat
    BY <1>4, <1>8, <1>10
  <1>12. x < size
    BY <1>0, <1>3, <1>8, <1>9, <1>10, DivBound
  <1>13. Place(c, p) = <<first + t, x>>
    BY <1>0, <1>1, <1>3, <1>4, <1>8, <1>10 DEF Place
  <1>14. (first + t) \div b = k
    <2>1. first + t = b * k + t /\ t < b /\ first + t \in Nat
      <3>1. k * b = b * k
        BY <1>0, <1>3
      <3> QED
        BY <1>4, <1>11, <3>1
    <2> QED
      BY <1>0, <2>1, DivUnique
  <1>15. LeafAt(c, first + t, x) = p
    <2>1. LeafAt(c, first + t, x) = first * size + x * w + (first + t - first)
      <3>1. first = ((first + t) \div TreeBatch) * TreeBatch
        BY <1>0, <1>4, <1>14
      <3> QED
        <4>1. size = c.sizePer /\ w = Width(c, first)
          BY <1>0, <1>8
        <4>2. PICK tree : tree = first + t
          OBVIOUS
        <4>3. LeafAt(c, tree, x) = first * c.sizePer + x * w + (tree - first)
          BY <3>1, <4>1, <4>2, Zenon DEF LeafAt
        <4> QED
          BY <4>1, <4>2, <4>3
    <2>2. first + t - first = t
      BY <1>11
    <2>3. PICK fs \in Nat, xw \in Nat : fs = first * size /\ xw = x * w /\ fs = done /\ w * x = xw
      <3>1. first * size = size * first /\ x * w = w * x /\ x * w \in Nat
        <4>1. size \in Nat /\ x \in Nat
          BY <1>0, <1>10
        <4> QED
          BY <1>11, <4>1
      <3> QED
        BY <1>6, <3>1
    <2> QED
      BY <1>6, <1>10, <1>11, <2>1, <2>3, <2>2
  <1>16. first + t \in 0..(c.parts - 1) /\ x \in 0..(c.sizePer - 1)
    <2>1. first + t < parts /\ first + t \in Nat
      BY <1>11
    <2> QED
      BY <1>0, <1>10, <1>12, <2>1
  <1> QED
    BY <1>13, <1>15, <1>16

LEMMA PlaceOfLeaf ==
  ASSUME SilentOTAssumption, NEW c, Fit(c),
         NEW tree \in 0..(c.parts - 1), NEW x \in 0..(c.sizePer - 1)
  PROVE  /\ LeafAt(c, tree, x) \in 0..(noiseVecSize(c) - 1)
         /\ Place(c, LeafAt(c, tree, x)) = <<tree, x>>
  <1>0. PICK b \in Nat, parts \in Nat, size \in Nat :
          b = TreeBatch /\ b > 0 /\ parts = c.parts /\ parts > 0 /\ size = c.sizePer /\ size > 0
    BY FitType
  <1>1. LeafAt(c, tree, x) \in 0..(noiseVecSize(c) - 1)
    BY <1>0, LeafInside DEF noiseVecSize
  <1>2. PICK row \in Nat : row = b * size /\ row > 0
    <2>1. b * size \in Nat /\ b * 1 <= b * size /\ b * 1 = b
      BY <1>0, Grows
    <2> QED
      BY <1>0, <2>1
  <1>3. PICK k \in Nat, t \in Nat : k = tree \div b /\ t < b /\ tree = b * k + t
    BY <1>0, DivMod
  <1>4. PICK first \in Nat : first = k * b /\ tree = first + t
    BY <1>0, <1>3
  <1>5. PICK w \in Nat : w = Width(c, first) /\ t < w /\ w <= b
    BY <1>0, <1>3, <1>4 DEF Width, Smaller
  <1>6. PICK r \in Nat : r = w * x + t
    BY <1>3, <1>5
  <1>7. r < row
    <2>1. x < size /\ x \in Nat
      BY <1>0
    <2>2. w * x + w <= w * size
      BY <1>0, <1>5, <2>1, Grows
    <2>3. size * w <= size * b /\ size * w = w * size /\ size * b = row
      BY <1>0, <1>2, <1>5, Grows
    <2>4. PICK wx \in Nat, ws \in Nat : wx = w * x /\ ws = w * size
      BY <1>0, <1>5, <2>1
    <2> QED
      BY <1>2, <1>5, <1>6, <2>2, <2>3, <2>4
  <1>8. PICK p \in Nat : p = row * k + r /\ p = LeafAt(c, tree, x)
    <2>1. LeafAt(c, tree, x) = first * size + x * w + (tree - first)
      BY <1>0, <1>3, <1>4, <1>5 DEF LeafAt
    <2>2. first * size = row * k
      <3>1. (k * b) * size = (b * size) * k
        BY <1>0
      <3> QED
        BY <1>2, <1>4, <3>1
    <2>3. PICK fs \in Nat, xw \in Nat : fs = first * size /\ xw = x * w /\ w * x = xw /\ fs = row * k
      BY <1>0, <1>2, <1>4, <1>5, <2>2
    <2>4. fs + xw + (tree - first) = row * k + r
      BY <1>3, <1>4, <1>6, <2>3
    <2>5. row * k + r \in Nat
      BY <1>2
    <2> QED
      BY <2>1, <2>3, <2>4, <2>5
  <1>9. p \div row = k /\ p % row = r
    BY <1>2, <1>3, <1>7, <1>8, DivUnique
  <1>10. r \div w = x /\ r % w = t
    <2>1. w \in Nat /\ w > 0 /\ r \in Nat /\ x \in Nat /\ t \in Nat /\ t < w
      BY <1>0, <1>3, <1>5, <1>6
    <2> QED
      BY <1>6, <2>1, DivUnique
  <1>11. Place(c, p) = <<first + t, x>>
    BY <1>0, <1>2, <1>4, <1>5, <1>9, <1>10 DEF Place
  <1> QED
    BY <1>1, <1>4, <1>8, <1>11

\* A batch writes the leaves that lie in its trees and leaves the others.
Placed(c, first, p) == Place(c, p)[1] \in first..(first + Width(c, first) - 1)

LEMMA Here ==
  ASSUME SilentOTAssumption, NEW c, Fit(c), NEW first \in Nat, first < c.parts,
         NEW p \in 0..(noiseVecSize(c) - 1), NEW here,
         here = {q \in (first..(first + Width(c, first) - 1)) \X (0..(c.sizePer - 1)) : LeafAt(c, q[1], q[2]) = p}
  PROVE  here = IF Placed(c, first, p) THEN {Place(c, p)} ELSE {}
  <1>0. /\ \A t \in first..(first + Width(c, first) - 1) : t \in 0..(c.parts - 1)
        /\ Place(c, p)[1] \in 0..(c.parts - 1) /\ Place(c, p)[2] \in 0..(c.sizePer - 1)
        /\ LeafAt(c, Place(c, p)[1], Place(c, p)[2]) = p
    <2>1. PICK b \in Nat, parts \in Nat : b = TreeBatch /\ b > 0 /\ parts = c.parts
      BY FitType
    <2>2. Width(c, first) \in Nat /\ first + Width(c, first) <= parts
      BY <2>1 DEF Width, Smaller
    <2> QED
      BY <2>1, <2>2, PlaceInside
  <1>1. Place(c, p) = <<Place(c, p)[1], Place(c, p)[2]>>
    BY DEF Place
  <1>2. ASSUME NEW q \in here
        PROVE  q = Place(c, p) /\ Placed(c, first, p)
    <2>1. q[1] \in 0..(c.parts - 1) /\ q[2] \in 0..(c.sizePer - 1) /\ q = <<q[1], q[2]>> /\ LeafAt(c, q[1], q[2]) = p
          /\ q[1] \in first..(first + Width(c, first) - 1)
      BY <1>0
    <2>2. Place(c, p) = <<q[1], q[2]>>
      BY <2>1, PlaceOfLeaf
    <2> QED
      BY <2>1, <2>2 DEF Placed
  <1>3. Placed(c, first, p) => Place(c, p) \in here
    <2>1. PICK u, v : u = Place(c, p)[1] /\ v = Place(c, p)[2] /\ Place(c, p) = <<u, v>>
      BY <1>1
    <2> QED
      BY <1>0, <2>1 DEF Placed
  <1> QED
    BY <1>2, <1>3

------------------------------------------------------------------------------
(* Sums of blocks.                                                         *)

LEMMA Sums ==
  ASSUME SilentOTAssumption, NEW a \in Elements, NEW v \in Elements, NEW d \in Elements
  PROVE  /\ Plus(a, v) \in Elements
         /\ Plus(a, Zero) = a /\ Plus(a, a) = Zero /\ Zero \in Elements
         /\ Plus(a, Plus(v, d)) = Plus(Plus(a, v), d)
         /\ Plus(Plus(a, d), v) = Plus(Plus(a, v), d)
         /\ Plus(Plus(a, d), Plus(v, d)) = Plus(a, v)
         /\ d # Zero => Plus(a, d) # a
  <1>1. /\ Zero \in Elements
        /\ \A x, y \in Elements : Plus(x, y) \in Elements /\ Plus(x, y) = Plus(y, x)
        /\ \A x, y, z \in Elements : Plus(Plus(x, y), z) = Plus(x, Plus(y, z))
        /\ \A x \in Elements : Plus(x, Zero) = x /\ Plus(x, x) = Zero
    BY DEF SilentOTAssumption
  <1>2. Plus(Plus(a, d), v) = Plus(Plus(a, v), d)
    <2>1. Plus(Plus(a, d), v) = Plus(a, Plus(d, v)) /\ Plus(d, v) = Plus(v, d)
      BY <1>1
    <2> QED
      BY <1>1, <2>1
  <1>3. Plus(Plus(a, d), Plus(v, d)) = Plus(a, v)
    <2>1. Plus(Plus(a, d), Plus(v, d)) = Plus(a, Plus(d, Plus(v, d)))
      BY <1>1
    <2>2. Plus(d, Plus(v, d)) = Plus(Plus(v, d), d)
      BY <1>1
    <2>3. Plus(Plus(v, d), d) = Plus(v, Plus(d, d))
      BY <1>1
    <2>4. Plus(d, d) = Zero /\ Plus(v, Zero) = v
      BY <1>1
    <2> QED
      BY <2>1, <2>2, <2>3, <2>4
  <1>4. ASSUME Plus(a, d) = a
        PROVE  d = Zero
    <2>1. Plus(a, Plus(a, d)) = Plus(Plus(a, a), d) /\ Plus(a, a) = Zero
      BY <1>1
    <2>2. Plus(Zero, d) = Plus(d, Zero) /\ Plus(d, Zero) = d
      BY <1>1
    <2> QED
      BY <1>4, <2>1, <2>2
  <1> QED
    BY <1>1, <1>2, <1>3, <1>4

IsSum(g, v, set, n) ==
  /\ g \in [0..n -> Elements]
  /\ g[0] = Zero
  /\ \A m \in 1..n : g[m] = IF m - 1 \in set THEN Plus(g[m - 1], v[m - 1]) ELSE g[m - 1]

\* A row's sum is made of its partial sums.
LEMMA Summed ==
  ASSUME SilentOTAssumption, NEW n \in Nat, NEW v \in [0..(n - 1) -> Elements], NEW set
  PROVE  \E g : IsSum(g, v, set, n) /\ SumOf(v, set) = g[n]
  <1> DEFINE add(m, x) == IF m - 1 \in set THEN Plus(x, v[m - 1]) ELSE x
             step == [m \in 1..n |-> [x \in Elements |-> add(m, x)]]
             g[m \in 0..n] == IF m = 0 THEN Zero ELSE IF m - 1 \in set THEN Plus(g[m - 1], v[m - 1]) ELSE g[m - 1]
  <1>1. Zero \in Elements /\ \A m \in 1..n, x \in Elements : add(m, x) \in Elements
    <2>1. ASSUME NEW m \in 1..n, NEW x \in Elements
          PROVE  add(m, x) \in Elements
      <3>1. v[m - 1] \in Elements
        OBVIOUS
      <3> QED
        BY <3>1, Sums
    <2>2. Zero \in Elements
      BY DEF SilentOTAssumption
    <2> QED
      BY <2>1, <2>2
  <1>2. SumOf(v, set) = g[n]
    <2>1. DOMAIN v = 0..(n - 1)
      OBVIOUS
    <2>2. Cardinality(0..(n - 1)) = n
      BY FS_Interval
    <2> QED
      BY <2>1, <2>2 DEF SumOf
  <1>3. IsStep(step, n, Elements)
    <2> HIDE DEF add
    <2> QED
      BY <1>1 DEF IsStep
  <1>4. PICK h : Recurs(h, n, Elements, Zero, step)
    <2> HIDE DEF step
    <2> QED
      BY <1>1, <1>3, Recursion
  <1>5. ASSUME NEW c \in 1..n
        PROVE  h[c] = IF c - 1 \in set THEN Plus(h[c - 1], v[c - 1]) ELSE h[c - 1]
    <2>1. h[c] = step[c][h[c - 1]] /\ h[c - 1] \in Elements
      <3> HIDE DEF step
      <3> QED
        BY <1>4 DEF Recurs
    <2>2. h[c] = add(c, h[c - 1])
      <3> HIDE DEF add
      <3> QED
        BY <2>1
    <2> QED
      BY <2>2
  <1> HIDE DEF step, add
  <1>6. h = [m \in 0..n |-> IF m = 0 THEN Zero ELSE IF m - 1 \in set THEN Plus(h[m - 1], v[m - 1]) ELSE h[m - 1]]
    <2>1. h \in [0..n -> Elements] /\ h[0] = Zero
      BY <1>4 DEF Recurs
    <2>2. \A m \in 0..n : m = 0 \/ m \in 1..n
      OBVIOUS
    <2> QED
      BY <1>5, <2>1, <2>2
  <1>7. g = [m \in 0..n |-> IF m = 0 THEN Zero ELSE IF m - 1 \in set THEN Plus(g[m - 1], v[m - 1]) ELSE g[m - 1]]
    BY <1>6, Zenon
  <1> HIDE DEF g
  <1>8. g[0] = Zero /\ \A c \in 1..n : g[c] = IF c - 1 \in set THEN Plus(g[c - 1], v[c - 1]) ELSE g[c - 1]
    BY <1>7
  <1>9. \A c \in 0..n : h[c] = g[c]
    <2>1. h[0] = g[0]
      BY <1>6, <1>8
    <2>2. \A c \in 1..n : h[c - 1] = g[c - 1] => h[c] = g[c]
      BY <1>5, <1>8
    <2>3. StepsAlike(h, g, n)
      BY <2>1, <2>2 DEF StepsAlike
    <2> QED
      BY <2>3, AlikeStepwise
  <1>10. IsSum(h, v, set, n)
    BY <1>4, <1>5 DEF IsSum, Recurs
  <1> QED
    BY <1>2, <1>9, <1>10

\* The members of a set below the next number.
LEMMA CountNext ==
  ASSUME NEW X, NEW l \in Nat
  PROVE  /\ Cardinality(X \cap 0..(l - 1)) \in Nat
         /\ Cardinality(X \cap 0..l) = Cardinality(X \cap 0..(l - 1)) + (IF l \in X THEN 1 ELSE 0)
  <1>1. IsFiniteSet(X \cap 0..(l - 1))
    <2>1. IsFiniteSet(0..(l - 1)) /\ X \cap 0..(l - 1) \subseteq 0..(l - 1)
      BY FS_Interval
    <2> QED
      BY <2>1, FS_Subset
  <1>2. Cardinality(X \cap 0..(l - 1)) \in Nat
    BY <1>1, FS_CardinalityType
  <1>3. CASE l \in X
    <2>1. X \cap 0..l = (X \cap 0..(l - 1)) \cup {l} /\ l \notin X \cap 0..(l - 1)
      BY <1>3
    <2> QED
      <3>1. PICK S : S = X \cap 0..(l - 1) /\ IsFiniteSet(S) /\ l \notin S /\ X \cap 0..l = S \cup {l}
        BY <1>1, <2>1
      <3>2. Cardinality(S \cup {l}) = IF l \in S THEN Cardinality(S) ELSE Cardinality(S) + 1
        BY <3>1, FS_AddElement
      <3> QED
        BY <1>2, <1>3, <3>1, <3>2
  <1>4. CASE l \notin X
    <2>1. X \cap 0..l = X \cap 0..(l - 1)
      BY <1>4
    <2> QED
      BY <1>2, <1>4, <2>1
  <1> QED
    BY <1>2, <1>3, <1>4

\* Vectors that differ by d where there is noise.
ShiftedAt(n, v, w, d, noise) ==
  /\ n \in Nat /\ v \in [0..(n - 1) -> Elements] /\ w \in [0..(n - 1) -> Elements]
  /\ noise \in SUBSET (0..(n - 1))
  /\ \A p \in 0..(n - 1) : w[p] = IF p \in noise THEN Plus(v[p], d) ELSE v[p]

Parity(set, noise) == Cardinality(set \cap noise) % 2

\* The sum of a row shifts by d as often as there is noise in it.
LEMMA Shifted ==
  ASSUME SilentOTAssumption, NEW n, NEW v, NEW w, NEW set, NEW d \in Elements, NEW noise,
         ShiftedAt(n, v, w, d, noise)
  PROVE  /\ SumOf(v, set) \in Elements
         /\ Parity(set, noise) \in {0, 1}
         /\ SumOf(w, set) = IF Parity(set, noise) = 1 THEN Plus(SumOf(v, set), d) ELSE SumOf(v, set)
  <1>0. /\ n \in Nat /\ v \in [0..(n - 1) -> Elements] /\ w \in [0..(n - 1) -> Elements]
        /\ noise \in SUBSET (0..(n - 1))
        /\ \A p \in 0..(n - 1) : w[p] = IF p \in noise THEN Plus(v[p], d) ELSE v[p]
    BY DEF ShiftedAt
  <1> USE <1>0
  <1>1. PICK g : IsSum(g, v, set, n) /\ SumOf(v, set) = g[n]
    BY Summed
  <1>2. PICK h : IsSum(h, w, set, n) /\ SumOf(w, set) = h[n]
    BY Summed
  <1> DEFINE X == set \cap noise
             cnt(m) == Cardinality(X \cap 0..(m - 1))
             f == [m \in 0..n |-> IF cnt(m) % 2 = 1 THEN Plus(g[m], d) ELSE g[m]]
  <1>3. g \in [0..n -> Elements] /\ h \in [0..n -> Elements] /\ g[0] = Zero /\ h[0] = Zero
    BY <1>1, <1>2 DEF IsSum
  <1>4. h[0] = f[0]
    <2>1. X \cap 0..(0 - 1) = {}
      OBVIOUS
    <2>2. cnt(0) = 0
      BY <2>1, FS_EmptySet
    <2>3. ~(cnt(0) % 2 = 1)
      BY <2>2
    <2> HIDE DEF cnt
    <2> QED
      BY <1>3, <2>3
  <1>5. ASSUME NEW m \in 1..n, h[m - 1] = f[m - 1]
        PROVE  h[m] = f[m]
    <2>1. PICK l \in 0..(n - 1) : l = m - 1 /\ m = l + 1 /\ l \in 0..n /\ m \in 0..n /\ l \in Nat /\ l + 1 - 1 = l
      <3>1. m - 1 \in 0..(n - 1) /\ m = m - 1 + 1 /\ m - 1 \in 0..n /\ m \in 0..n /\ m - 1 \in Nat
        OBVIOUS
      <3> QED
        BY <3>1
    <2>2. PICK c \in Nat : c = cnt(l) /\ cnt(m) = c + (IF l \in X THEN 1 ELSE 0)
      <3>1. cnt(l) \in Nat /\ cnt(l + 1) = cnt(l) + (IF l \in X THEN 1 ELSE 0)
        <4>1. Cardinality(X \cap 0..(l + 1 - 1)) = Cardinality(X \cap 0..l)
          BY <2>1
        <4>2. /\ Cardinality(X \cap 0..(l - 1)) \in Nat
              /\ Cardinality(X \cap 0..l) = Cardinality(X \cap 0..(l - 1)) + (IF l \in X THEN 1 ELSE 0)
          <5> HIDE DEF X
          <5>1. l \in Nat
            BY <2>1
          <5> QED
            BY <5>1, CountNext, Zenon
        <4> HIDE DEF X
        <4> QED
          BY <4>1, <4>2
      <3> QED
        BY <2>1, <3>1
    <2>3. c % 2 \in {0, 1} /\ (c + 1) % 2 = 1 - (c % 2)
      OBVIOUS
    <2>4. /\ g[m] = IF l \in set THEN Plus(g[l], v[l]) ELSE g[l]
          /\ h[m] = IF l \in set THEN Plus(h[l], w[l]) ELSE h[l]
      BY <1>1, <1>2, <2>1 DEF IsSum
    <2>5. h[l] = IF c % 2 = 1 THEN Plus(g[l], d) ELSE g[l]
      <3> HIDE DEF cnt
      <3> QED
        BY <1>5, <2>1, <2>2
    <2>6. f[m] = IF cnt(m) % 2 = 1 THEN Plus(g[m], d) ELSE g[m]
      <3> HIDE DEF cnt
      <3> QED
        BY <2>1
    <2>7. w[l] = IF l \in noise THEN Plus(v[l], d) ELSE v[l]
      BY <2>1
    <2>8. g[l] \in Elements /\ v[l] \in Elements
      BY <1>3, <2>1
    <2>9. l \in X <=> l \in set /\ l \in noise
      OBVIOUS
    <2> HIDE DEF cnt, f, X
    <2>10. CASE l \in X
      <3>1. cnt(m) % 2 = 1 - (c % 2)
        BY <2>2, <2>3, <2>10
      <3>2. g[m] = Plus(g[l], v[l]) /\ h[m] = Plus(h[l], Plus(v[l], d))
        BY <2>4, <2>7, <2>9, <2>10
      <3>3. CASE c % 2 = 1
        <4>1. cnt(m) % 2 = 0
          BY <3>1, <3>3
        <4>2. f[m] = g[m]
          BY <2>6, <4>1
        <4>3. h[m] = Plus(Plus(g[l], d), Plus(v[l], d))
          BY <2>5, <3>2, <3>3
        <4> QED
          BY <2>8, <3>2, <4>2, <4>3, Sums
      <3>4. CASE c % 2 = 0
        <4>1. cnt(m) % 2 = 1
          BY <3>1, <3>4
        <4>2. f[m] = Plus(Plus(g[l], v[l]), d)
          BY <2>6, <3>2, <4>1
        <4>3. h[m] = Plus(g[l], Plus(v[l], d))
          BY <2>5, <3>2, <3>4
        <4> QED
          BY <2>8, <4>2, <4>3, Sums
      <3> QED
        BY <2>3, <3>3, <3>4
    <2>11. CASE l \notin X
      <3>1. cnt(m) = c
        BY <2>2, <2>11
      <3>2. CASE l \in set
        <4>1. g[m] = Plus(g[l], v[l]) /\ h[m] = Plus(h[l], v[l])
          BY <2>4, <2>7, <2>9, <2>11, <3>2
        <4>2. Plus(Plus(g[l], d), v[l]) = Plus(Plus(g[l], v[l]), d)
          BY <2>8, Sums
        <4> QED
          BY <2>5, <2>6, <3>1, <4>1, <4>2
      <3>3. CASE l \notin set
        BY <2>4, <2>5, <2>6, <3>1, <3>3
      <3> QED
        BY <3>2, <3>3
    <2> QED
      BY <2>10, <2>11
  <1>6. h[n] = f[n]
    <2> HIDE DEF f
    <2>1. StepsAlike(h, f, n)
      BY <1>4, <1>5 DEF StepsAlike
    <2> QED
      BY <2>1, AlikeStepwise
  <1>7. cnt(n) = Cardinality(set \cap noise)
    <2>1. X \cap 0..(n - 1) = set \cap noise
      OBVIOUS
    <2> QED
      BY <2>1
  <1>8. cnt(n) \in Nat
    BY CountNext
  <1> HIDE DEF cnt
  <1>9. f[n] = IF cnt(n) % 2 = 1 THEN Plus(g[n], d) ELSE g[n]
    OBVIOUS
  <1>10. cnt(n) % 2 \in {0, 1}
    BY <1>8
  <1>11. Parity(set, noise) = cnt(n) % 2
    BY <1>7 DEF Parity
  <1> HIDE DEF f
  <1> QED
    BY <1>1, <1>2, <1>3, <1>6, <1>9, <1>10, <1>11

------------------------------------------------------------------------------
(* What the trees hold.                                                    *)

\* The vector when the trees before k are on it, of the sender and of the
\* receiver, which has delta added where the points are.
LeafOf(c, s, p) == Expand(s, Place(c, p)[1], Place(c, p)[2])
LeavesTo(c, s, k) ==
  [p \in 0..(noiseVecSize(c) - 1) |-> IF Place(c, p)[1] < k THEN LeafOf(c, s, p) ELSE Zero]
Noise(c, points) == {LeafAt(c, t, points[t]) : t \in 0..(c.parts - 1)}
PuncturedLeaf(c, points, s, d, p) ==
  IF p \in Noise(c, points) THEN Plus(LeafOf(c, s, p), d) ELSE LeafOf(c, s, p)
PuncturedTo(c, points, s, d, k) ==
  [p \in 0..(noiseVecSize(c) - 1) |->
     IF Place(c, p)[1] < k THEN PuncturedLeaf(c, points, s, d, p) ELSE Zero]

\* The code word of all leaves of all trees, and what a test call hashes of it.
CodeOf(c, s) == Encoded(c, LeavesTo(c, s, c.parts))
Hashes(c, s, d) ==
  [i \in 0..(c.n - 1) |->
     [b \in {0, 1} |-> Hash(IF b = 0 THEN CodeOf(c, s)[i] ELSE Plus(CodeOf(c, s)[i], d), i)]]

\* The base OTs of set-up k for these points, the keys that the receiver has of
\* them, and the messages of an expansion under them.
Dealt(c, points, k) ==
  [i \in 0..(c.depth * c.parts - 1) |-> [b \in {0, 1} |-> <<k, i, b = BaseChoice(points, c.depth, i)>>]]
Given(c, k) == [i \in 0..(c.depth * c.parts - 1) |-> <<k, i, TRUE>>]
Offers(c, points, k, s, d) ==
  {[first |-> f, seed |-> s, delta |-> d, base |-> Dealt(c, points, k)] : f \in Nat}

\* How far the sender's call is.
Busy == pc \in {"expand", "compress", "hash"}
CallInv ==
  /\ sender = Unconfigured \/ Fit(sender)
  /\ calls \in 0..MaxCalls /\ seed \in 0..calls /\ treeIndex \in Nat
  /\ Busy => isConfigured /\ seed = calls /\ seed # 0 /\ op \in Online \cup Offline
  /\ pc = "hash" => op = "test"
  /\ pc = "expand" => mB = LeavesTo(sender, seed, treeIndex)
  /\ pc = "compress" => mB = LeavesTo(sender, seed, sender.parts)
  /\ pc = "hash" \/ (pc = "idle" /\ op \in Offline \cup {"inplace"} /\ seed = calls) =>
       isConfigured /\ mB = CodeOf(sender, seed)

\* A receiver that waits for a call has its keys of the base OTs that the sender
\* has, unless an offline call has used them.
ReadyInv ==
  LET c == recver.c IN
  /\ Fit(c) /\ recver.points \in Points(c.parts, c.sizePer) /\ sender = c
  /\ recver.tree = 0 /\ DOMAIN recver.mC = {} /\ chl = <<>>
  /\ Busy => op \in Offline
  /\ \E k : recver.keys = Given(c, k) /\ base \in {<<>>, Dealt(c, recver.points, k)}

\* What the sender still has of the call that the receiver has, or had last, with
\* delta d.
SenderSide(d) ==
  LET c == recver.c IN
  /\ Fit(c) /\ c.n > 0 /\ recver.points \in Points(c.parts, c.sizePer)
  /\ seed = calls /\ seed # 0 /\ op \in Online
  /\ Busy \/ (pc = "idle" /\ op = "inplace") => sender = c /\ delta = d
  /\ pc = "idle" /\ op = "test" => messages = Hashes(c, seed, d)
  /\ pc # "expand" => base = <<>>

\* While the receiver expands, it can open all that is under way.
Expanding(d) ==
  LET c == recver.c IN
  /\ recver.tree \in Nat /\ DOMAIN recver.mC = {}
  /\ recver.mA = PuncturedTo(c, recver.points, seed, d, recver.tree)
  /\ \E k : /\ recver.keys = Given(c, k) /\ chl \in Seq(Offers(c, recver.points, k, seed, d))
            /\ pc = "expand" => base = Dealt(c, recver.points, k)

\* What it has in the end.
Held(d) ==
  LET c == recver.c
      plain == Encoded(c, PuncturedTo(c, recver.points, seed, d, c.parts))
  IN  /\ recver.mA = [r \in 0..(c.n - 1) |-> IF op = "test" THEN Hash(plain[r], r) ELSE plain[r]]
      /\ recver.mC = [r \in 0..(c.n - 1) |-> ChoiceOf(r)]

Session(d) ==
  /\ SenderSide(d)
  /\ recver.pc = "expand" => Expanding(d)
  /\ recver.pc # "expand" => Held(d)

ReceiverInv ==
  /\ DOMAIN recver = {"pc", "c", "points", "keys", "tree", "mA", "mC"}
  /\ recver.pc \in {"idle", "ready", "expand"}
  /\ recver.pc = "ready" => ReadyInv
  /\ recver.pc = "expand" \/ DOMAIN recver.mC # {} => \E d \in Elements \ {Zero} : Session(d)

------------------------------------------------------------------------------
(* The leaves that a batch writes.                                         *)

LEMMA PlacedIn ==
  ASSUME SilentOTAssumption, NEW c, Fit(c), NEW first \in Nat, first < c.parts,
         NEW p \in 0..(noiseVecSize(c) - 1)
  PROVE  Placed(c, first, p) <=> first <= Place(c, p)[1] /\ Place(c, p)[1] < first + TreeBatch
  <1>1. PICK b \in Nat, parts \in Nat : b = TreeBatch /\ b > 0 /\ parts = c.parts
    BY FitType
  <1>2. PICK t \in Nat : t = Place(c, p)[1] /\ t < parts
    <2>1. Place(c, p)[1] \in 0..(c.parts - 1)
      BY PlaceInside
    <2> QED
      BY <1>1, <2>1
  <1>3. Placed(c, first, p) <=> t \in first..(first + Width(c, first) - 1)
    BY <1>2 DEF Placed
  <1>4. Width(c, first) = IF b <= parts - first THEN b ELSE parts - first
    BY <1>1 DEF Width, Smaller
  <1> QED
    BY <1>1, <1>2, <1>3, <1>4

LEMMA ExpandWrites ==
  ASSUME SilentOTAssumption, Fit(sender), treeIndex \in Nat, mB = LeavesTo(sender, seed, treeIndex), ExpandTrees
  PROVE  mB' = LeavesTo(sender, seed, treeIndex + TreeBatch)
  <1> DEFINE c == sender
             here(p) == {q \in (treeIndex..(treeIndex + Width(c, treeIndex) - 1)) \X (0..(c.sizePer - 1)) :
                           LeafAt(c, q[1], q[2]) = p}
             one(p) == CHOOSE q \in here(p) : TRUE
             N == 0..(noiseVecSize(c) - 1)
  <1>1. treeIndex < c.parts
    BY DEF ExpandTrees, MoreTrees, WithLeaves
  <1>2. DOMAIN mB = N /\ \A p \in N : mB[p] = IF Place(c, p)[1] < treeIndex THEN LeafOf(c, seed, p) ELSE Zero
    BY DEF LeavesTo
  <1>3. mB' = [p \in DOMAIN mB |-> IF here(p) = {} THEN mB[p] ELSE Expand(seed, one(p)[1], one(p)[2])]
    BY DEF ExpandTrees, WithLeaves
  <1>4. ASSUME NEW p \in N
        PROVE  mB'[p] = IF Place(c, p)[1] < treeIndex + TreeBatch THEN LeafOf(c, seed, p) ELSE Zero
    <2>1. here(p) = IF Placed(c, treeIndex, p) THEN {Place(c, p)} ELSE {}
      <3> HIDE DEF c
      <3>1. PICK h : h = here(p)
        OBVIOUS
      <3> QED
        BY <1>1, <3>1, Here DEF c
    <2>2. mB'[p] = IF here(p) = {} THEN mB[p] ELSE Expand(seed, one(p)[1], one(p)[2])
      <3> HIDE DEF here, one
      <3> QED
        BY <1>2, <1>3
    <2>3. Placed(c, treeIndex, p) => mB'[p] = LeafOf(c, seed, p)
      <3>1. ASSUME here(p) = {Place(c, p)}
            PROVE  one(p) = Place(c, p)
        <4> HIDE DEF here
        <4> QED
          BY <3>1
      <3> HIDE DEF here, one
      <3> QED
        BY <2>1, <2>2, <3>1 DEF LeafOf
    <2>4. ~Placed(c, treeIndex, p) => mB'[p] = mB[p]
      <3> HIDE DEF here, one
      <3> QED
        BY <2>1, <2>2
    <2>5. PICK t \in Nat, b \in Nat : t = Place(c, p)[1] /\ b = TreeBatch
      <3>1. Place(c, p)[1] \in 0..(c.parts - 1) /\ TreeBatch \in Nat
        BY PlaceInside, FitType
      <3> QED
        BY <3>1
    <2>6. Placed(c, treeIndex, p) <=> treeIndex <= t /\ t < treeIndex + b
      BY <1>1, <2>5, PlacedIn
    <2> HIDE DEF c, here, one
    <2> QED
      BY <1>2, <2>3, <2>4, <2>5, <2>6
  <1> HIDE DEF here, one
  <1>5. mB' = [p \in N |-> mB'[p]]
    BY <1>2, <1>3
  <1> QED
    BY <1>4, <1>5 DEF LeavesTo

\* The leaf that a punctured point is.
LEMMA NoiseAt ==
  ASSUME SilentOTAssumption, NEW c, Fit(c), NEW points \in Points(c.parts, c.sizePer),
         NEW p \in 0..(noiseVecSize(c) - 1)
  PROVE  p \in Noise(c, points) <=> Place(c, p)[2] = points[Place(c, p)[1]]
  <1>1. points \in [0..(c.parts - 1) -> 0..(c.sizePer - 1)]
    BY DEF Fit
  <1>2. PICK t \in 0..(c.parts - 1), x \in 0..(c.sizePer - 1) :
          t = Place(c, p)[1] /\ x = Place(c, p)[2] /\ LeafAt(c, t, x) = p
    BY PlaceInside
  <1>3. ASSUME p \in Noise(c, points)
        PROVE  x = points[t]
    <2>1. PICK u \in 0..(c.parts - 1) : p = LeafAt(c, u, points[u])
      BY <1>3 DEF Noise
    <2>2. points[u] \in 0..(c.sizePer - 1)
      BY <1>1
    <2>3. Place(c, p) = <<u, points[u]>>
      BY <2>1, <2>2, PlaceOfLeaf
    <2> QED
      BY <1>2, <2>3
  <1>4. ASSUME x = points[t]
        PROVE  p \in Noise(c, points)
    BY <1>2, <1>4 DEF Noise
  <1> QED
    BY <1>2, <1>3, <1>4

------------------------------------------------------------------------------
(* The sender's call.                                                      *)

\* No tree has more leaves than all trees together need, but for the roundings.
LEMMA LeavesBound ==
  ASSUME SilentOTAssumption, cmd \in Commands, NEW parts \in Nat \ {0}
  PROVE  SizePer(parts) <= MostLeaves(cmd)
  <1>1. PICK n \in Nat : n = numOTs /\ numOTs * scaler = n * 2 /\ MostLeaves(cmd) = n * 2 + 4
    BY Asked DEF numOTs, scaler, MostLeaves
  <1>2. PICK leaves \in Nat : leaves = LeavesOf(parts)
    BY <1>1, CeilDivCovers DEF LeavesOf
  <1>3. leaves <= n * 2
    <2>1. leaves = (n * 2 + parts - 1) \div parts
      BY <1>1, <1>2 DEF LeavesOf, CeilDiv
    <2>2. PICK a \in Nat : a = n * 2 + parts - 1
      BY <1>1
    <2>3. PICK q \in Nat, r \in Nat : q = a \div parts /\ a = parts * q + r
      BY DivMod
    <2>4. q = leaves
      BY <2>1, <2>2, <2>3
    <2>5. ASSUME leaves > n * 2
          PROVE  FALSE
      <3>1. PICK m \in Nat : leaves = n * 2 + 1 + m
        <4>1. leaves - (n * 2 + 1) \in Nat /\ leaves = n * 2 + 1 + (leaves - (n * 2 + 1))
          BY <1>1, <2>5
        <4> QED
          BY <4>1
      <3>2. PICK w \in Nat : w = n * 2
        BY <1>1
      <3>3. parts * (w + 1 + m) = parts * w + parts + parts * m /\ parts * m \in Nat
        BY <3>2
      <3>4. parts * w >= w
        <4>1. w * 1 <= w * parts /\ w * 1 = w /\ w * parts = parts * w
          BY <3>2, Grows
        <4> QED
          BY <4>1
      <3>5. PICK pw \in Nat, pm \in Nat : pw = parts * w /\ pm = parts * m
        BY <3>2
      <3>6. a = pw + parts + pm + r
        BY <2>3, <2>4, <3>1, <3>2, <3>3, <3>5
      <3> QED
        BY <2>2, <3>2, <3>4, <3>5, <3>6
    <2> QED
      BY <1>1, <2>5
  <1>4. PICK half \in Nat : half = CeilDiv(leaves, 2) /\ 2 * half <= leaves + 1
    <2>1. CeilDiv(leaves, 2) = (leaves + 1) \div 2
      <3>1. leaves + 2 - 1 = leaves + 1
        OBVIOUS
      <3> QED
        BY <3>1 DEF CeilDiv
    <2>2. PICK q \in Nat, r \in Nat : q = (leaves + 1) \div 2 /\ leaves + 1 = 2 * q + r
      BY DivMod
    <2> QED
      BY <2>1, <2>2
  <1>5. SizePer(parts) = IF 2 * half < 4 THEN 4 ELSE 2 * half
    BY <1>2, <1>4 DEF SizePer
  <1> QED
    BY <1>1, <1>2, <1>3, <1>4, <1>5

LEMMA Fits ==
  ASSUME SilentOTAssumption, cmd \in Commands, NEW parts \in PartsOf(cmd) \ {0}
  PROVE  Fit(Configured(parts))
  <1>1. parts \in Nat \ {0}
    BY PartsType
  <1>2. PICK c : c = Configured(parts)
    OBVIOUS
  <1>3. c.n = numOTs /\ c.parts = parts /\ c.sizePer = SizePer(parts) /\ c.depth = log2ceil(SizePer(parts))
    BY <1>2 DEF Configured
  <1>4. c.n \in Nat /\ c.sizePer \in Nat \ {0} /\ c.depth \in Nat \ {0}
    <2>1. SizePer(parts) \in Nat /\ SizePer(parts) >= 4
          /\ log2ceil(SizePer(parts)) \in Nat /\ log2ceil(SizePer(parts)) > 0
      BY <1>1, Sizes
    <2> QED
      BY <1>3, <2>1, Asked DEF numOTs
  <1>5. c.sizePer \in 1..MostLeaves(cmd)
    <2>1. SizePer(parts) <= MostLeaves(cmd) /\ MostLeaves(cmd) \in Nat
      BY <1>1, LeavesBound, Asked DEF MostLeaves, scaler
    <2> QED
      BY <1>3, <1>4, <2>1
  <1>6. \A p \in PartsOf(cmd), leaves \in 1..MostLeaves(cmd) :
          /\ Points(p, leaves) \subseteq [0..(p - 1) -> 0..(leaves - 1)]
          /\ \A s \in 1..MaxCalls, t \in 0..(p - 1), x \in 0..(leaves - 1) : Expand(s, t, x) \in Elements
    BY DEF SilentOTAssumption
  <1>7. /\ Points(c.parts, c.sizePer) \subseteq [0..(c.parts - 1) -> 0..(c.sizePer - 1)]
        /\ \A s \in 1..MaxCalls, t \in 0..(c.parts - 1), x \in 0..(c.sizePer - 1) : Expand(s, t, x) \in Elements
    BY <1>3, <1>5, <1>6
  <1> QED
    BY <1>1, <1>2, <1>3, <1>4, <1>7 DEF Fit

LEMMA CallStarts ==
  ASSUME SilentOTAssumption, Init
  PROVE  CallInv
  BY DEF Init, CallInv, Busy, Online, Offline, None, SilentOTAssumption

\* Where a step of the sender leaves its call alone.
LEMMA CallKept ==
  ASSUME CallInv, UNCHANGED <<sender, op, pc, seed, calls, treeIndex, mB>>
  PROVE  CallInv'
  BY DEF CallInv, Busy, isConfigured

LEMMA SetUpCall ==
  ASSUME SilentOTAssumption, ConfigInv, CallInv, SetUp \/ SetUpSender
  PROVE  CallInv'
  <1>1. /\ pc = "idle" /\ calls < MaxCalls /\ calls' = calls + 1
        /\ UNCHANGED <<cmd, mB, op, pc, seed, treeIndex>>
    <2>1. CASE SetUp
      BY <2>1, Zenon DEF SetUp
    <2>2. CASE SetUpSender
      BY <2>2, Zenon DEF SetUpSender
    <2> QED
      BY <2>1, <2>2
  <1>2. PICK parts \in PartsOf(cmd) \ {0} : sender' = Configured(parts)
    <2>1. CASE SetUp
      BY <2>1, Zenon DEF SetUp
    <2>2. CASE SetUpSender
      BY <2>2 DEF SetUpSender, pprf_num_partitions, PartsOf
    <2> QED
      BY <2>1, <2>2
  <1>3. Fit(sender')
    BY <1>2, Fits DEF ConfigInv
  <1>4. calls' \in 0..MaxCalls /\ seed' \in 0..calls' /\ treeIndex' \in Nat /\ seed' # calls'
    BY <1>1 DEF CallInv, SilentOTAssumption
  <1> QED
    BY <1>1, <1>3, <1>4 DEF CallInv, Busy

LEMMA CallCall ==
  ASSUME SilentOTAssumption, CallInv, NEW o \in Online \cup Offline, NEW count, Call(o, count)
  PROVE  CallInv'
  <1>1. /\ pc = "idle" /\ calls < MaxCalls /\ calls' = calls + 1 /\ seed' = calls + 1 /\ treeIndex' = 0
        /\ op' = o /\ pc' = "expand" /\ sender' = sender /\ isConfigured
        /\ mB' = [x \in 0..(noiseVecSize(sender) - 1) |-> Zero]
    BY DEF Call, Accepted
  <1>2. calls' \in 0..MaxCalls /\ seed' \in 0..calls' /\ seed' # 0 /\ treeIndex' \in Nat
    BY <1>1 DEF CallInv, SilentOTAssumption
  <1>3. Fit(sender)
    BY <1>1 DEF CallInv, isConfigured, Unconfigured
  <1>4. mB' = LeavesTo(sender, seed', 0)
    <2>1. ASSUME NEW p \in 0..(noiseVecSize(sender) - 1)
          PROVE  ~(Place(sender, p)[1] < 0)
      <3>1. Place(sender, p)[1] \in 0..(sender.parts - 1) /\ sender.parts \in Nat
        BY <1>3, PlaceInside, FitType
      <3> QED
        BY <3>1
    <2> QED
      BY <1>1, <2>1 DEF LeavesTo
  <1>5. CallInv'
    <2>1. isConfigured'
      BY <1>1 DEF isConfigured
    <2>2. mB' = LeavesTo(sender', seed', treeIndex')
      BY <1>1, <1>4
    <2>3. sender' = Unconfigured \/ Fit(sender')
      BY <1>1, <1>3
    <2>4. seed' = calls' /\ op' \in Online \cup Offline
      BY <1>1
    <2> QED
      BY <1>1, <1>2, <2>1, <2>2, <2>3, <2>4 DEF CallInv, Busy
  <1> QED
    BY <1>5

LEMMA ExpandCall ==
  ASSUME SilentOTAssumption, CallInv, ExpandTrees
  PROVE  CallInv'
  <1>1. /\ pc = "expand" /\ treeIndex' = treeIndex + TreeBatch
        /\ UNCHANGED <<sender, op, pc, seed, calls>>
    BY DEF ExpandTrees, WithLeaves
  <1>2. isConfigured /\ treeIndex \in Nat /\ mB = LeavesTo(sender, seed, treeIndex)
    BY <1>1 DEF CallInv, Busy
  <1>3. Fit(sender)
    BY <1>2 DEF CallInv, isConfigured, Unconfigured
  <1>4. mB' = LeavesTo(sender, seed, treeIndex + TreeBatch)
    BY <1>2, <1>3, ExpandWrites
  <1>5. treeIndex' \in Nat
    BY <1>1, <1>2, <1>3, FitType
  <1> QED
    BY <1>1, <1>4, <1>5 DEF CallInv, Busy, isConfigured

\* When no trees are left, every leaf is on the vector.
LEMMA AllLeaves ==
  ASSUME SilentOTAssumption, NEW c, Fit(c), NEW k \in Nat, k >= c.parts
  PROVE  /\ \A s : LeavesTo(c, s, k) = LeavesTo(c, s, c.parts)
         /\ \A points, s, d : PuncturedTo(c, points, s, d, k) = PuncturedTo(c, points, s, d, c.parts)
  <1>1. ASSUME NEW p \in 0..(noiseVecSize(c) - 1)
        PROVE  Place(c, p)[1] < k /\ Place(c, p)[1] < c.parts
    <2>1. Place(c, p)[1] \in 0..(c.parts - 1) /\ c.parts \in Nat
      BY PlaceInside, FitType
    <2> QED
      BY <2>1
  <1>2. ASSUME NEW s
        PROVE  LeavesTo(c, s, k) = LeavesTo(c, s, c.parts)
    BY <1>1 DEF LeavesTo
  <1>3. ASSUME NEW points, NEW s, NEW d
        PROVE  PuncturedTo(c, points, s, d, k) = PuncturedTo(c, points, s, d, c.parts)
    BY <1>1 DEF PuncturedTo
  <1> QED
    BY <1>2, <1>3

LEMMA EndCall ==
  ASSUME SilentOTAssumption, CallInv, EndExpand
  PROVE  CallInv'
  <1>1. /\ pc = "expand" /\ pc' = "compress" /\ ~(treeIndex < sender.parts)
        /\ UNCHANGED <<sender, op, seed, calls, mB, treeIndex>>
    BY DEF EndExpand, MoreTrees
  <1>2. isConfigured /\ treeIndex \in Nat /\ mB = LeavesTo(sender, seed, treeIndex)
    BY <1>1 DEF CallInv, Busy
  <1>3. Fit(sender)
    BY <1>2 DEF CallInv, isConfigured, Unconfigured
  <1>4. mB = LeavesTo(sender, seed, sender.parts)
    <2>1. treeIndex >= sender.parts
      BY <1>1, <1>2, <1>3, FitType
    <2> QED
      BY <1>2, <1>3, <2>1, AllLeaves
  <1> QED
    BY <1>1, <1>4 DEF CallInv, Busy, isConfigured

LEMMA CompressCall ==
  ASSUME SilentOTAssumption, CallInv, Compress
  PROVE  CallInv'
  <1>1. /\ pc = "compress" /\ mB' = Encoded(sender, mB) /\ pc' = IF op = "test" THEN "hash" ELSE "idle"
        /\ UNCHANGED <<sender, op, seed, calls, treeIndex>>
    BY DEF Compress
  <1>2. isConfigured /\ mB = LeavesTo(sender, seed, sender.parts)
    BY <1>1 DEF CallInv, Busy
  <1>3. mB' = CodeOf(sender, seed)
    BY <1>1, <1>2 DEF CodeOf
  <1> QED
    BY <1>1, <1>2, <1>3 DEF CallInv, Busy, isConfigured

LEMMA HashCall ==
  ASSUME SilentOTAssumption, CallInv, HashAndClear
  PROVE  CallInv'
  <1>1. /\ pc = "hash" /\ pc' = "idle" /\ sender' = Unconfigured
        /\ UNCHANGED <<op, seed, calls, treeIndex>>
    BY DEF HashAndClear
  <1>2. op' \notin Offline \cup {"inplace"}
    BY <1>1 DEF CallInv, Offline
  <1> QED
    BY <1>1, <1>2 DEF CallInv, Busy

LEMMA CallStep ==
  ASSUME SilentOTAssumption, ConfigInv, CallInv, [Next]_vars
  PROVE  CallInv'
  <1>1. CASE Caller
    <2>1. DivideByZero => CallInv'
      BY DEF DivideByZero, CallInv, Busy, isConfigured
    <2> QED
      BY <1>1, <2>1, SetUpCall, CallCall DEF Caller
  <1>2. CASE Sender
    BY <1>2, ExpandCall, EndCall, CompressCall, HashCall DEF Sender
  <1>3. CASE Receiver
    <2>1. ReceiveTrees => UNCHANGED <<sender, op, pc, seed, calls, treeIndex, mB>>
      BY DEF ReceiveTrees, WithLeaves
    <2>2. Receive => UNCHANGED <<sender, op, pc, seed, calls, treeIndex, mB>>
      BY DEF Receive
    <2> QED
      BY <1>3, <2>1, <2>2, CallKept DEF Receiver
  <1>4. CASE UNCHANGED vars
    BY <1>4, CallKept DEF vars
  <1> QED
    BY <1>1, <1>2, <1>3, <1>4 DEF Next

\* The tree and leaf that the specification of a call chooses for a place.
LEMMA ComputesLeaves ==
  ASSUME SilentOTAssumption, CallInv
  PROVE  Computes
  <1> SUFFICES ASSUME pc = "idle", op \in Offline \cup {"inplace"}, seed = calls
               PROVE  Computes
    BY DEF Computes
  <1> DEFINE c == sender
             tree(p) == CHOOSE q \in (0..(c.parts - 1)) \X (0..(c.sizePer - 1)) : LeafAt(c, q[1], q[2]) = p
             all == [p \in 0..(noiseVecSize(c) - 1) |-> Expand(seed, tree(p)[1], tree(p)[2])]
  <1>1. isConfigured /\ mB = CodeOf(c, seed)
    BY DEF CallInv
  <1>2. Fit(c)
    BY <1>1 DEF CallInv, isConfigured, Unconfigured
  <1>3. ASSUME NEW p \in 0..(noiseVecSize(c) - 1)
        PROVE  tree(p) = Place(c, p) /\ Place(c, p)[1] < c.parts
    <2> HIDE DEF c
    <2>1. /\ Place(c, p)[1] \in 0..(c.parts - 1) /\ Place(c, p)[2] \in 0..(c.sizePer - 1)
          /\ LeafAt(c, Place(c, p)[1], Place(c, p)[2]) = p
      BY <1>2, PlaceInside
    <2>2. PICK u, v : u = Place(c, p)[1] /\ v = Place(c, p)[2] /\ Place(c, p) = <<u, v>>
      BY DEF Place
    <2>3. PICK q : q = tree(p) /\ q \in (0..(c.parts - 1)) \X (0..(c.sizePer - 1)) /\ LeafAt(c, q[1], q[2]) = p
      <3>1. <<u, v>> \in (0..(c.parts - 1)) \X (0..(c.sizePer - 1)) /\ LeafAt(c, <<u, v>>[1], <<u, v>>[2]) = p
        BY <2>1, <2>2
      <3> QED
        BY <3>1
    <2>4. Place(c, LeafAt(c, q[1], q[2])) = <<q[1], q[2]>> /\ q = <<q[1], q[2]>>
      <3>1. q[1] \in 0..(c.parts - 1) /\ q[2] \in 0..(c.sizePer - 1) /\ q = <<q[1], q[2]>>
        BY <2>3
      <3> QED
        BY <1>2, <3>1, PlaceOfLeaf
    <2>5. tree(p) = Place(c, p)
      BY <2>3, <2>4
    <2>6. c.parts \in Nat
      BY <1>2, FitType
    <2> HIDE DEF tree
    <2> QED
      BY <2>1, <2>5, <2>6
  <1> HIDE DEF tree
  <1>4. all = LeavesTo(c, seed, c.parts)
    BY <1>3 DEF LeavesTo, LeafOf
  <1>5. mB = Encoded(c, all)
    BY <1>1, <1>4 DEF CodeOf
  <1> QED
    BY <1>5 DEF Computes, tree

------------------------------------------------------------------------------
(* The receiver's.                                                         *)

Fields == {"pc", "c", "points", "keys", "tree", "mA", "mC"}

LEMMA ReceiverStarts ==
  ASSUME Init
  PROVE  ReceiverInv
  BY DEF Init, ReceiverInv, NoReceiver

\* A set-up of both parties deals the receiver keys of the base OTs that the
\* sender has.
LEMMA SetUpReady ==
  ASSUME SilentOTAssumption, ConfigInv, ReceiverInv, SetUp
  PROVE  ReceiverInv'
  <1>1. PICK parts, points :
          /\ parts \in PartsOf(cmd) \ {0} /\ points \in Points(parts, Configured(parts).sizePer)
          /\ sender' = Configured(parts)
          /\ base' = BaseOTs(points, Configured(parts).depth, parts)
          /\ recver' = [NoReceiver EXCEPT !.c = Configured(parts), !.points = points, !.pc = "ready",
                          !.keys = [i \in 0..(Configured(parts).depth * parts - 1) |-> Key(i, TRUE)]]
    BY Zenon DEF SetUp
  <1>2. pc' = "idle" /\ chl' = <<>>
    BY DEF SetUp
  <1>3. PICK c : c = Configured(parts) /\ c.parts = parts /\ Fit(c)
    <2>1. Configured(parts).parts = parts
      BY DEF Configured
    <2> QED
      BY <1>1, <2>1, Fits DEF ConfigInv
  <1>4. recver' = [pc |-> "ready", c |-> c, points |-> points,
                   keys |-> [i \in 0..(c.depth * parts - 1) |-> Key(i, TRUE)], tree |-> 0, mA |-> <<>>, mC |-> <<>>]
    BY <1>1, <1>3 DEF NoReceiver
  <1>5. [i \in 0..(c.depth * parts - 1) |-> Key(i, TRUE)] = Given(c, calls)
    BY <1>3 DEF Given, Key
  <1>6. base' = Dealt(c, points, calls)
    BY <1>1, <1>3 DEF BaseOTs, Dealt, Key
  <1>7. /\ DOMAIN recver' = Fields
        /\ recver'.pc = "ready" /\ recver'.c = c /\ recver'.points = points /\ recver'.tree = 0
        /\ recver'.keys = Given(c, calls) /\ recver'.mC = <<>>
    BY <1>4, <1>5 DEF Fields
  <1>8. points \in Points(c.parts, c.sizePer) /\ sender' = c
    BY <1>1, <1>3
  <1>9. DOMAIN recver'.mC = {}
    BY <1>7
  <1>10. ReadyInv'
    BY <1>2, <1>3, <1>6, <1>7, <1>8, <1>9 DEF ReadyInv, Busy
  <1> QED
    BY <1>7, <1>9, <1>10 DEF ReceiverInv, Fields

LEMMA SetUpAlone ==
  ASSUME SetUpSender
  PROVE  ReceiverInv'
  <1>1. recver' = NoReceiver
    BY DEF SetUpSender
  <1>2. DOMAIN recver' = Fields /\ recver'.pc = "idle" /\ DOMAIN recver'.mC = {}
    BY <1>1 DEF NoReceiver, Fields
  <1> QED
    BY <1>2 DEF ReceiverInv, Fields

\* A call comes to a receiver that is ready, or to none: one that has had a call
\* has left the sender without base OTs.
LEMMA CallReceiver ==
  ASSUME SilentOTAssumption, KeysInv, CallInv, ReceiverInv, NEW o \in Online \cup Offline, NEW count, Call(o, count)
  PROVE  ReceiverInv'
  <1>1. /\ pc = "idle" /\ calls' = calls + 1 /\ seed' = calls + 1 /\ op' = o /\ pc' = "expand"
        /\ base # <<>> /\ isConfigured /\ delta' \in Elements \ {Zero}
        /\ recver.pc \in {"idle", "ready"}
        /\ recver' = IF o \in Online /\ recver.pc = "ready"
                     THEN [recver EXCEPT !.pc = "expand", !.mA = [x \in 0..(noiseVecSize(recver.c) - 1) |-> Zero]]
                     ELSE recver
        /\ UNCHANGED <<sender, base, chl, messages>>
    BY DEF Call, Accepted, hasSilentBaseOts
  <1>2. CASE recver.pc = "idle"
    <2>1. DOMAIN recver.mC = {}
      BY <1>1, <1>2 DEF ReceiverInv, Session, SenderSide
    <2> QED
      BY <1>1, <1>2, <2>1 DEF ReceiverInv
  <1>3. CASE recver.pc = "ready" /\ o \notin Online
    <2>1. recver' = recver /\ o \in Offline
      BY <1>1, <1>3
    <2>2. ReadyInv'
      BY <1>1, <1>3, <2>1 DEF ReceiverInv, ReadyInv
    <2>3. DOMAIN recver.mC = {}
      BY <1>3 DEF ReceiverInv, ReadyInv
    <2> QED
      BY <1>3, <2>1, <2>2, <2>3 DEF ReceiverInv
  <1>4. CASE recver.pc = "ready" /\ o \in Online
    <2>1. ReadyInv /\ DOMAIN recver = Fields
      BY <1>4 DEF ReceiverInv, Fields
    <2>2. PICK c : c = recver.c
      OBVIOUS
    <2>3. /\ Fit(c) /\ recver.points \in Points(c.parts, c.sizePer) /\ sender = c /\ recver.tree = 0
          /\ DOMAIN recver.mC = {} /\ chl = <<>>
      BY <2>1, <2>2 DEF ReadyInv
    <2>4. PICK k : recver.keys = Given(c, k) /\ base = Dealt(c, recver.points, k)
      BY <1>1, <2>1, <2>2 DEF ReadyInv
    <2>5. /\ DOMAIN recver' = Fields /\ recver'.pc = "expand" /\ recver'.c = c /\ recver'.points = recver.points
          /\ recver'.keys = recver.keys /\ recver'.tree = 0 /\ recver'.mC = recver.mC
          /\ recver'.mA = [x \in 0..(noiseVecSize(c) - 1) |-> Zero]
      BY <1>1, <1>4, <2>1, <2>2, <2>3 DEF Fields
    <2>6. recver'.mA = PuncturedTo(c, recver.points, seed', delta', 0)
      <3>1. ASSUME NEW p \in 0..(noiseVecSize(c) - 1)
            PROVE  ~(Place(c, p)[1] < 0)
        <4>1. Place(c, p)[1] \in 0..(c.parts - 1) /\ c.parts \in Nat
          BY <2>3, PlaceInside, FitType
        <4> QED
          BY <4>1
      <3> QED
        BY <2>5, <3>1 DEF PuncturedTo
    <2>7. Expanding(delta)'
      <3>1. chl' \in Seq(Offers(c, recver.points, k, seed', delta'))
        <4>1. chl' = <<>>
          BY <1>1, <2>3
        <4> QED
          BY <4>1
      <3>2. recver'.tree \in Nat /\ DOMAIN recver'.mC = {}
        BY <2>3, <2>5
      <3>3. recver'.keys = Given(c, k) /\ base' = Dealt(c, recver.points, k)
        BY <1>1, <2>4, <2>5
      <3> QED
        BY <2>5, <2>6, <3>1, <3>2, <3>3 DEF Expanding
    <2>8. SenderSide(delta)'
      <3>1. seed' = calls' /\ seed' # 0
        BY <1>1 DEF CallInv
      <3>2. c.n > 0
        BY <1>1, <2>3 DEF isConfigured
      <3> QED
        BY <1>1, <1>4, <2>3, <2>5, <3>1, <3>2 DEF SenderSide
    <2>9. Session(delta)'
      BY <2>5, <2>7, <2>8 DEF Session
    <2>10. PICK d : d = delta' /\ d \in Elements \ {Zero}
      BY <1>1
    <2>11. \E e \in Elements \ {Zero} : Session(e)'
      BY <2>9, <2>10 DEF Session, SenderSide, Expanding, Held
    <2> QED
      BY <2>5, <2>11 DEF ReceiverInv, Fields
  <1> QED
    BY <1>1, <1>2, <1>3, <1>4

\* A batch of trees goes to the receiver that has the call, under its base OTs.
LEMMA ExpandReceiver ==
  ASSUME SilentOTAssumption, CallInv, ReceiverInv, ExpandTrees
  PROVE  ReceiverInv'
  <1>1. /\ pc = "expand" /\ treeIndex \in Nat
        /\ UNCHANGED <<sender, base, delta, op, pc, seed, recver, messages, calls>>
        /\ chl' = IF op \in Online
                  THEN Append(chl, [first |-> treeIndex, seed |-> seed, delta |-> delta, base |-> base])
                  ELSE chl
    BY DEF ExpandTrees, WithLeaves, CallInv
  <1>2. ASSUME recver.pc = "ready"
        PROVE  ReadyInv'
    <2>1. ReadyInv
      BY <1>2 DEF ReceiverInv
    <2>2. chl' = chl
      BY <1>1, <2>1 DEF ReadyInv, Busy, Online, Offline
    <2> QED
      BY <1>1, <2>1, <2>2 DEF ReadyInv, Busy
  <1>3. ASSUME NEW d \in Elements \ {Zero}, Session(d)
        PROVE  Session(d)'
    <2>1. SenderSide(d)'
      BY <1>1, <1>3 DEF Session, SenderSide, Busy
    <2>2. ASSUME recver.pc = "expand"
          PROVE  Expanding(d)'
      <3>1. PICK c : c = recver.c
        OBVIOUS
      <3>2. Expanding(d) /\ op \in Online /\ delta = d
        BY <1>1, <1>3, <2>2 DEF Session, SenderSide, Busy
      <3>3. PICK k : /\ recver.keys = Given(c, k) /\ chl \in Seq(Offers(c, recver.points, k, seed, d))
                     /\ base = Dealt(c, recver.points, k)
        BY <1>1, <3>1, <3>2 DEF Expanding
      <3>4. [first |-> treeIndex, seed |-> seed, delta |-> delta, base |-> base]
              \in Offers(c, recver.points, k, seed, d)
        BY <1>1, <3>2, <3>3 DEF Offers
      <3>5. chl' \in Seq(Offers(c, recver.points, k, seed, d))
        BY <1>1, <3>2, <3>3, <3>4, AppendProperties
      <3> QED
        BY <1>1, <3>1, <3>2, <3>3, <3>5 DEF Expanding
    <2>3. ASSUME recver.pc # "expand"
          PROVE  Held(d)'
      BY <1>1, <1>3, <2>3 DEF Session, Held, ChoiceOf
    <2> QED
      BY <1>1, <2>1, <2>2, <2>3 DEF Session
  <1> QED
    BY <1>1, <1>2, <1>3 DEF ReceiverInv

\* A step of the sender that sends nothing keeps a receiver's invariant, if it
\* keeps the sender's side of it.
LEMMA QuietStep ==
  ASSUME ReceiverInv, UNCHANGED <<recver, chl, op, seed, calls>>,
         pc' # "expand",
         ~(recver.pc = "ready" /\ ReadyInv) \/ ReadyInv',
         \A d \in Elements \ {Zero} : SenderSide(d) => SenderSide(d)'
  PROVE  ReceiverInv'
  <1>1. ASSUME NEW d \in Elements \ {Zero}, Session(d)
        PROVE  Session(d)'
    <2>1. SenderSide(d)'
      BY <1>1 DEF Session
    <2>2. Expanding(d) => Expanding(d)'
      BY DEF Expanding
    <2>3. Held(d) => Held(d)'
      BY DEF Held, ChoiceOf
    <2> QED
      BY <1>1, <2>1, <2>2, <2>3 DEF Session
  <1>2. recver.pc = "ready" => ReadyInv'
    BY DEF ReceiverInv
  <1>3. recver.pc = "expand" \/ DOMAIN recver.mC # {} => \E d \in Elements \ {Zero} : Session(d)'
    BY <1>1 DEF ReceiverInv
  <1> QED
    BY <1>2, <1>3 DEF ReceiverInv

LEMMA CrashReceiver ==
  ASSUME ReceiverInv, DivideByZero
  PROVE  ReceiverInv'
  <1>1. /\ pc = "idle" /\ pc' = "crashed"
        /\ UNCHANGED <<sender, base, delta, op, seed, recver, chl, messages, calls>>
    BY DEF DivideByZero
  <1>2. ReadyInv => ReadyInv'
    BY <1>1 DEF ReadyInv, Busy
  <1>3. ASSUME NEW d \in Elements \ {Zero}, SenderSide(d)
        PROVE  SenderSide(d)'
    BY <1>1, <1>3 DEF SenderSide, Busy
  <1> QED
    BY <1>1, <1>2, <1>3, QuietStep

LEMMA EndReceiver ==
  ASSUME ReceiverInv, EndExpand
  PROVE  ReceiverInv'
  <1>1. /\ pc = "expand" /\ pc' = "compress" /\ base' = IF op = "offline2" THEN base ELSE <<>>
        /\ UNCHANGED <<sender, delta, op, seed, recver, chl, messages, calls>>
    BY DEF EndExpand, BaseAfter
  <1>2. ReadyInv => ReadyInv'
    <2>1. ASSUME ReadyInv
          PROVE  \E k : recver.keys = Given(recver.c, k) /\ base' \in {<<>>, Dealt(recver.c, recver.points, k)}
      BY <1>1, <2>1 DEF ReadyInv
    <2> QED
      BY <1>1, <2>1 DEF ReadyInv, Busy
  <1>3. ASSUME NEW d \in Elements \ {Zero}, SenderSide(d)
        PROVE  SenderSide(d)'
    <2>1. base' = <<>>
      BY <1>1, <1>3 DEF SenderSide, Online
    <2> QED
      BY <1>1, <1>3, <2>1 DEF SenderSide, Busy
  <1>4. UNCHANGED <<recver, chl, op, seed, calls>> /\ pc' # "expand"
    BY <1>1
  <1> QED
    BY <1>2, <1>3, <1>4, QuietStep

LEMMA CompressReceiver ==
  ASSUME CallInv, ReceiverInv, Compress
  PROVE  ReceiverInv'
  <1>1. /\ pc = "compress" /\ pc' = IF op = "test" THEN "hash" ELSE "idle"
        /\ UNCHANGED <<sender, base, delta, op, seed, recver, chl, messages, calls>>
    BY DEF Compress
  <1>2. ReadyInv => ReadyInv'
    BY <1>1 DEF ReadyInv, Busy
  <1>3. ASSUME NEW d \in Elements \ {Zero}, SenderSide(d)
        PROVE  SenderSide(d)'
    BY <1>1, <1>3 DEF SenderSide, Busy, Online
  <1> QED
    BY <1>1, <1>2, <1>3, QuietStep

\* hash makes both messages of every OT from the vector and delta.
LEMMA HashReceiver ==
  ASSUME CallInv, ReceiverInv, HashAndClear
  PROVE  ReceiverInv'
  <1>1. /\ pc = "hash" /\ pc' = "idle" /\ base' = <<>>
        /\ messages' = [i \in 0..(sender.n - 1) |->
                          [b \in {0, 1} |-> Hash(IF b = 0 THEN mB[i] ELSE Plus(mB[i], delta), i)]]
        /\ UNCHANGED <<op, seed, recver, chl, calls>>
    BY DEF HashAndClear
  <1>2. op = "test" /\ mB = CodeOf(sender, seed) /\ Busy
    BY <1>1 DEF CallInv, Busy
  <1>3. ~(recver.pc = "ready" /\ ReadyInv)
    BY <1>2 DEF ReadyInv, Offline
  <1>4. ASSUME NEW d \in Elements \ {Zero}, SenderSide(d)
        PROVE  SenderSide(d)'
    <2>1. PICK c : c = recver.c
      OBVIOUS
    <2>2. sender = c /\ delta = d
      BY <1>2, <1>4, <2>1 DEF SenderSide
    <2>3. messages' = Hashes(c, seed, d)
      BY <1>1, <1>2, <2>2 DEF Hashes
    <2> QED
      BY <1>1, <1>2, <1>4, <2>1, <2>3 DEF SenderSide, Busy
  <1>5. UNCHANGED <<recver, chl, op, seed, calls>> /\ pc' # "expand"
    BY <1>1
  <1> QED
    BY <1>3, <1>4, <1>5, QuietStep

\* The receiver holds the key of every level of every tree.
LEMMA OpensAll ==
  ASSUME SilentOTAssumption, Fit(recver.c), recver.points \in Points(recver.c.parts, recver.c.sizePer),
         NEW k, recver.keys = Given(recver.c, k), NEW msg, msg.base = Dealt(recver.c, recver.points, k),
         NEW tree \in 0..(recver.c.parts - 1)
  PROVE  Opens(msg, tree)
  <1>0. PICK c, points : c = recver.c /\ points = recver.points /\ Fit(c) /\ points \in Points(c.parts, c.sizePer)
    OBVIOUS
  <1>1. PICK depth \in Nat, parts \in Nat :
          depth = c.depth /\ depth > 0 /\ parts = c.parts /\ tree < parts /\ tree \in Nat
    <2>1. c.depth \in Nat /\ c.depth > 0 /\ c.parts \in Nat
      BY <1>0, FitType
    <2> QED
      BY <1>0, <2>1
  <1>2. ASSUME NEW i \in (tree * depth)..(tree * depth + depth - 1)
        PROVE  msg.base[i][BaseChoice(points, depth, i)] = recver.keys[i]
    <2>1. PICK td \in Nat : td = tree * depth
      BY <1>1
    <2>2. i \in Nat /\ i >= td /\ i < td + depth
      BY <1>1, <1>2, <2>1
    <2>3. td + depth <= depth * parts
      <3>1. depth * tree + depth <= depth * parts
        <4>1. tree \in Nat /\ depth > 0 /\ tree < parts /\ tree <= parts
          BY <1>1
        <4> QED
          BY <4>1, Grows
      <3>2. depth * tree = tree * depth
        BY <1>1
      <3> QED
        BY <2>1, <3>1, <3>2
    <2>4. i \in 0..(depth * parts - 1)
      <3>1. PICK dp \in Nat : dp = depth * parts
        BY <1>1
      <3> QED
        BY <1>1, <2>1, <2>2, <2>3, <3>1
    <2>5. BaseChoice(points, depth, i) \in {0, 1}
      <3>1. PICK t \in Nat, l \in Nat : t = i \div depth /\ l = i % depth /\ l < depth /\ i = depth * t + l
        BY <1>1, <2>2, DivMod
      <3>2. t \in 0..(parts - 1)
        <4>1. i < depth * parts
          BY <1>1, <2>1, <2>2, <2>3
        <4>2. i \div depth < parts
          BY <1>1, <2>1, <2>2, <4>1, DivBound
        <4> QED
          BY <1>1, <3>1, <4>2
      <3>3. PICK point \in Nat : point = points[t]
        <4>1. points \in [0..(parts - 1) -> 0..(c.sizePer - 1)]
          BY <1>0, <1>1 DEF Fit
        <4> QED
          BY <3>2, <4>1
      <3>4. PICK e \in Nat : e = depth - 1 - l
        BY <1>1, <3>1
      <3>5. PICK w \in Nat : w = 2^e /\ w > 0
        BY PowerDouble
      <3>6. PICK q \in Nat : q = point \div w
        BY <3>5, DivMod
      <3>7. BaseChoice(points, depth, i) = q % 2
        <4>1. BaseChoice(points, depth, i) = (points[t] \div (2^(depth - 1 - l))) % 2
          BY <3>1, Zenon DEF BaseChoice
        <4> QED
          BY <3>3, <3>4, <3>5, <3>6, <4>1
      <3>8. q % 2 \in {0, 1}
        OBVIOUS
      <3> QED
        BY <3>7, <3>8
    <2>6. PICK b \in {0, 1} : b = BaseChoice(points, depth, i)
      BY <2>5
    <2>7. msg.base[i][b] = <<k, i, b = BaseChoice(points, depth, i)>>
      <3>1. msg.base = Dealt(c, points, k) /\ i \in 0..(c.depth * c.parts - 1)
        BY <1>0, <1>1, <2>4
      <3>2. msg.base[i] = [a \in {0, 1} |-> <<k, i, a = BaseChoice(points, c.depth, i)>>]
        BY <3>1, Zenon DEF Dealt
      <3>3. msg.base[i][b] = <<k, i, b = BaseChoice(points, c.depth, i)>>
        BY <2>6, <3>2, Zenon
      <3> QED
        BY <1>1, <3>3, Zenon
    <2>8. recver.keys[i] = <<k, i, TRUE>>
      BY <1>0, <1>1, <2>4 DEF Given
    <2>9. <<k, i, b = BaseChoice(points, depth, i)>> = <<k, i, TRUE>>
      BY <2>6
    <2> QED
      BY <2>6, <2>7, <2>8, <2>9
  <1> QED
    BY <1>0, <1>1, <1>2 DEF Opens

LEMMA ReceiveWrites ==
  ASSUME SilentOTAssumption, Fit(recver.c), recver.points \in Points(recver.c.parts, recver.c.sizePer),
         NEW s, NEW d, recver.tree \in Nat, DOMAIN recver = Fields,
         recver.mA = PuncturedTo(recver.c, recver.points, s, d, recver.tree),
         Head(chl).seed = s, Head(chl).delta = d, \A t \in 0..(recver.c.parts - 1) : Opens(Head(chl), t),
         ReceiveTrees
  PROVE  recver'.mA = PuncturedTo(recver.c, recver.points, s, d, recver.tree + TreeBatch)
  <1> DEFINE c == recver.c
             first == recver.tree
             here(p) == {q \in (first..(first + Width(c, first) - 1)) \X (0..(c.sizePer - 1)) :
                           LeafAt(c, q[1], q[2]) = p}
             one(p) == CHOOSE q \in here(p) : TRUE
             N == 0..(noiseVecSize(c) - 1)
             Leaf(p) == PuncturedLeaf(c, recver.points, s, d, p)
  <1>1. first < c.parts
    BY DEF ReceiveTrees, WithLeaves
  <1>2. DOMAIN recver.mA = N /\ \A p \in N : recver.mA[p] = IF Place(c, p)[1] < first THEN Leaf(p) ELSE Zero
    BY DEF PuncturedTo
  <1>3. recver'.mA = [p \in DOMAIN recver.mA |->
                        IF here(p) = {} THEN recver.mA[p] ELSE ReceivedLeaf(Head(chl), one(p)[1], one(p)[2])]
    BY DEF ReceiveTrees, WithLeaves, Fields
  <1>4. ASSUME NEW p \in N
        PROVE  recver'.mA[p] = IF Place(c, p)[1] < first + TreeBatch THEN Leaf(p) ELSE Zero
    <2>1. here(p) = IF Placed(c, first, p) THEN {Place(c, p)} ELSE {}
      <3> HIDE DEF c, first
      <3>1. PICK h : h = here(p)
        OBVIOUS
      <3> QED
        BY <1>1, <3>1, Here DEF c, first
    <2>2. recver'.mA[p] = IF here(p) = {} THEN recver.mA[p] ELSE ReceivedLeaf(Head(chl), one(p)[1], one(p)[2])
      <3> HIDE DEF here, one
      <3> QED
        BY <1>2, <1>3
    <2>3. PICK t \in 0..(c.parts - 1), x \in 0..(c.sizePer - 1) :
            t = Place(c, p)[1] /\ x = Place(c, p)[2] /\ LeafAt(c, t, x) = p
      BY PlaceInside
    <2>4. ReceivedLeaf(Head(chl), t, x) = Leaf(p)
      <3>1. Opens(Head(chl), t)
        BY <2>3
      <3>2. p \in Noise(c, recver.points) <=> x = recver.points[t]
        BY <2>3, NoiseAt
      <3>3. LeafOf(c, s, p) = Expand(s, t, x)
        BY <2>3 DEF LeafOf
      <3> HIDE DEF c
      <3>4. ReceivedLeaf(Head(chl), t, x) = IF x = recver.points[t] THEN Plus(Expand(s, t, x), d) ELSE Expand(s, t, x)
        BY <3>1 DEF ReceivedLeaf
      <3>5. Leaf(p) = IF p \in Noise(c, recver.points) THEN Plus(Expand(s, t, x), d) ELSE Expand(s, t, x)
        BY <3>3 DEF PuncturedLeaf
      <3> HIDE DEF Leaf
      <3> QED
        BY <3>2, <3>4, <3>5
    <2>5. Placed(c, first, p) => recver'.mA[p] = Leaf(p)
      <3>1. ASSUME here(p) = {Place(c, p)}
            PROVE  one(p) = Place(c, p)
        <4> HIDE DEF here
        <4> QED
          BY <3>1
      <3> HIDE DEF here, one, Leaf
      <3> QED
        BY <2>1, <2>2, <2>3, <2>4, <3>1
    <2>6. ~Placed(c, first, p) => recver'.mA[p] = recver.mA[p]
      <3> HIDE DEF here, one
      <3> QED
        BY <2>1, <2>2
    <2>7. PICK u \in Nat, b \in Nat : u = Place(c, p)[1] /\ b = TreeBatch
      <3>1. c.parts \in Nat /\ TreeBatch \in Nat
        BY FitType
      <3> QED
        BY <2>3, <3>1
    <2>8. Placed(c, first, p) <=> first <= u /\ u < first + b
      BY <1>1, <2>7, PlacedIn
    <2>9. first \in Nat
      OBVIOUS
    <2> HIDE DEF c, here, one, Leaf, first
    <2> QED
      BY <1>2, <2>5, <2>6, <2>7, <2>8, <2>9
  <1> HIDE DEF here, one
  <1>5. recver'.mA = [p \in N |-> recver'.mA[p]]
    BY <1>2, <1>3
  <1> QED
    BY <1>4, <1>5 DEF PuncturedTo

LEMMA ReceiveStep ==
  ASSUME SilentOTAssumption, CallInv, ReceiverInv, ReceiveTrees
  PROVE  ReceiverInv'
  <1>1. /\ recver.pc = "expand" /\ recver.tree < recver.c.parts /\ chl # <<>> /\ chl' = Tail(chl)
        /\ UNCHANGED <<sender, base, delta, op, pc, seed, messages, calls>>
    BY DEF ReceiveTrees, WithLeaves
  <1>2. DOMAIN recver = Fields
    BY DEF ReceiverInv, Fields
  <1>3. /\ DOMAIN recver' = Fields
        /\ recver'.pc = recver.pc /\ recver'.c = recver.c /\ recver'.points = recver.points
        /\ recver'.keys = recver.keys /\ recver'.mC = recver.mC /\ recver'.tree = recver.tree + TreeBatch
    BY <1>2 DEF ReceiveTrees, WithLeaves, Fields
  <1>4. PICK d \in Elements \ {Zero} : SenderSide(d) /\ Expanding(d)
    BY <1>1 DEF ReceiverInv, Session
  <1>5. PICK c : c = recver.c /\ Fit(c) /\ recver.points \in Points(c.parts, c.sizePer)
    BY <1>4 DEF SenderSide
  <1>6. /\ recver.tree \in Nat /\ DOMAIN recver.mC = {}
        /\ recver.mA = PuncturedTo(c, recver.points, seed, d, recver.tree)
    BY <1>4, <1>5 DEF Expanding
  <1>7. PICK k : /\ recver.keys = Given(c, k) /\ chl \in Seq(Offers(c, recver.points, k, seed, d))
                 /\ pc = "expand" => base = Dealt(c, recver.points, k)
    BY <1>4, <1>5 DEF Expanding
  <1>8. Head(chl) \in Offers(c, recver.points, k, seed, d) /\ chl' \in Seq(Offers(c, recver.points, k, seed, d))
    <2>1. PICK S : S = Offers(c, recver.points, k, seed, d) /\ chl \in Seq(S)
      BY <1>7
    <2>2. Head(chl) \in S /\ Tail(chl) \in Seq(S)
      BY <1>1, <2>1, HeadTailProperties
    <2> QED
      BY <1>1, <2>1, <2>2
  <1>9. Head(chl).seed = seed /\ Head(chl).delta = d /\ Head(chl).base = Dealt(c, recver.points, k)
    <2>1. PICK msg, all : msg = Head(chl) /\ all = Dealt(c, recver.points, k)
      OBVIOUS
    <2>2. PICK f \in Nat : msg = [first |-> f, seed |-> seed, delta |-> d, base |-> all]
      BY <1>8, <2>1, Zenon DEF Offers
    <2>3. msg.seed = seed /\ msg.delta = d /\ msg.base = all
      BY <2>2
    <2> QED
      BY <2>1, <2>3
  <1>10. \A t \in 0..(recver.c.parts - 1) : Opens(Head(chl), t)
    BY <1>5, <1>7, <1>9, OpensAll
  <1>11. recver'.mA = PuncturedTo(c, recver.points, seed, d, recver.tree + TreeBatch)
    BY <1>2, <1>5, <1>6, <1>9, <1>10, ReceiveWrites
  <1>12. recver'.tree \in Nat
    BY <1>3, <1>5, <1>6, FitType
  <1>13. SenderSide(d)'
    BY <1>1, <1>3, <1>4 DEF SenderSide, Busy
  <1>14. Expanding(d)'
    BY <1>1, <1>3, <1>5, <1>6, <1>7, <1>8, <1>11, <1>12 DEF Expanding
  <1>15. Session(d)'
    BY <1>1, <1>3, <1>13, <1>14 DEF Session
  <1> QED
    BY <1>1, <1>3, <1>4, <1>15 DEF ReceiverInv, Fields

LEMMA ReceiveEnd ==
  ASSUME SilentOTAssumption, CallInv, ReceiverInv, Receive
  PROVE  ReceiverInv'
  <1>1. /\ recver.pc = "expand" /\ recver.tree >= recver.c.parts
        /\ UNCHANGED <<sender, base, delta, op, pc, seed, chl, messages, calls>>
    BY DEF Receive
  <1>2. DOMAIN recver = Fields
    BY DEF ReceiverInv, Fields
  <1>3. PICK d \in Elements \ {Zero} : SenderSide(d) /\ Expanding(d)
    BY <1>1 DEF ReceiverInv, Session
  <1>4. PICK c : c = recver.c /\ Fit(c)
    BY <1>3 DEF SenderSide
  <1>5. PICK plain : plain = Encoded(c, recver.mA)
    OBVIOUS
  <1>6. recver' = [recver EXCEPT !.pc = "idle", !.keys = <<>>,
                     !.mA = [r \in 0..(c.n - 1) |-> IF op = "test" THEN Hash(plain[r], r) ELSE plain[r]],
                     !.mC = [r \in 0..(c.n - 1) |-> ChoiceOf(r)]]
    BY <1>4, <1>5, Zenon DEF Receive
  <1>7. /\ DOMAIN recver' = Fields
        /\ recver'.pc = "idle" /\ recver'.c = recver.c /\ recver'.points = recver.points
        /\ recver'.mA = [r \in 0..(c.n - 1) |-> IF op = "test" THEN Hash(plain[r], r) ELSE plain[r]]
        /\ recver'.mC = [r \in 0..(c.n - 1) |-> ChoiceOf(r)]
    BY <1>2, <1>6 DEF Fields
  <1>8. plain = Encoded(c, PuncturedTo(c, recver.points, seed, d, c.parts))
    <2>1. recver.mA = PuncturedTo(c, recver.points, seed, d, recver.tree) /\ recver.tree \in Nat
      BY <1>3, <1>4 DEF Expanding
    <2>2. recver.mA = PuncturedTo(c, recver.points, seed, d, c.parts)
      BY <1>1, <1>4, <2>1, AllLeaves
    <2> QED
      BY <1>5, <2>2
  <1>9. SenderSide(d)'
    BY <1>1, <1>3, <1>7 DEF SenderSide, Busy
  <1>10. Held(d)'
    <2>1. \A r : ChoiceOf(r)' = ChoiceOf(r)
      BY <1>7 DEF ChoiceOf
    <2>2. recver'.mC = [r \in 0..(c.n - 1) |-> ChoiceOf(r)']
      BY <1>7, <2>1
    <2> QED
      BY <1>1, <1>4, <1>7, <1>8, <2>2 DEF Held
  <1>11. Session(d)'
    BY <1>7, <1>9, <1>10 DEF Session
  <1> QED
    BY <1>3, <1>7, <1>11 DEF ReceiverInv, Fields

LEMMA ReceiverStep ==
  ASSUME SilentOTAssumption, ConfigInv, KeysInv, CallInv, ReceiverInv, [Next]_vars
  PROVE  ReceiverInv'
  <1>1. CASE Caller
    BY <1>1, SetUpReady, SetUpAlone, CrashReceiver, CallReceiver DEF Caller
  <1>2. CASE Sender
    BY <1>2, ExpandReceiver, EndReceiver, CompressReceiver, HashReceiver DEF Sender
  <1>3. CASE Receiver
    BY <1>3, ReceiveStep, ReceiveEnd DEF Receiver
  <1>4. CASE UNCHANGED vars
    <2>1. UNCHANGED <<sender, base, delta, op, pc, seed, chl, recver, messages, calls>>
      BY <1>4 DEF vars
    <2>2. ReadyInv => ReadyInv'
      BY <2>1 DEF ReadyInv, Busy
    <2>3. \A d : Session(d) => Session(d)'
      BY <2>1 DEF Session, SenderSide, Expanding, Held, ChoiceOf, Busy
    <2> QED
      BY <2>1, <2>2, <2>3 DEF ReceiverInv
  <1> QED
    BY <1>1, <1>2, <1>3, <1>4 DEF Next

------------------------------------------------------------------------------
(* Both parties' vectors.                                                  *)

LEMMA CallsInductive ==
  ASSUME SilentOTAssumption
  PROVE  Spec => [](ConfigInv /\ KeysInv /\ CallInv /\ ReceiverInv)
  <1>1. Init => ConfigInv /\ KeysInv /\ CallInv /\ ReceiverInv
    BY Starts, CallStarts, ReceiverStarts
  <1>2. ConfigInv /\ KeysInv /\ CallInv /\ ReceiverInv /\ [Next]_vars
          => (ConfigInv /\ KeysInv /\ CallInv /\ ReceiverInv)'
    BY ConfigStep, KeysStep, CallStep, ReceiverStep
  <1> QED
    BY <1>1, <1>2, PTL DEF Spec

\* The receiver's vector is the sender's, shifted by delta at the noise.
LEMMA Vectors ==
  ASSUME SilentOTAssumption, NEW c, Fit(c), NEW points \in Points(c.parts, c.sizePer),
         NEW s \in 1..MaxCalls, NEW d \in Elements
  PROVE  LET n == noiseVecSize(c)
             v == LeavesTo(c, s, c.parts)
             w == PuncturedTo(c, points, s, d, c.parts)
         IN  /\ n \in Nat /\ v \in [0..(n - 1) -> Elements] /\ w \in [0..(n - 1) -> Elements]
             /\ Noise(c, points) \in SUBSET (0..(n - 1))
             /\ \A p \in 0..(n - 1) : w[p] = IF p \in Noise(c, points) THEN Plus(v[p], d) ELSE v[p]
  <1> DEFINE n == noiseVecSize(c)
             v == LeavesTo(c, s, c.parts)
             w == PuncturedTo(c, points, s, d, c.parts)
  <1>1. n \in Nat
    BY FitType DEF noiseVecSize
  <1>2. ASSUME NEW p \in 0..(n - 1)
        PROVE  /\ LeafOf(c, s, p) \in Elements
               /\ v[p] = LeafOf(c, s, p) /\ w[p] = PuncturedLeaf(c, points, s, d, p)
    <2>1. PICK t \in 0..(c.parts - 1), x \in 0..(c.sizePer - 1) : t = Place(c, p)[1] /\ x = Place(c, p)[2]
      BY PlaceInside
    <2>2. Expand(s, t, x) \in Elements
      BY DEF Fit
    <2>3. Place(c, p)[1] < c.parts
      BY <2>1, FitType
    <2> QED
      BY <2>1, <2>2, <2>3 DEF LeafOf, LeavesTo, PuncturedTo
  <1>3. ASSUME NEW p \in 0..(n - 1)
        PROVE  w[p] \in Elements /\ w[p] = IF p \in Noise(c, points) THEN Plus(v[p], d) ELSE v[p]
    <2>1. PICK leaf \in Elements : leaf = LeafOf(c, s, p) /\ v[p] = leaf
      BY <1>2
    <2>2. w[p] = IF p \in Noise(c, points) THEN Plus(leaf, d) ELSE leaf
      BY <1>2, <2>1 DEF PuncturedLeaf
    <2>3. Plus(leaf, d) \in Elements
      BY Sums
    <2> QED
      BY <2>1, <2>2, <2>3
  <1>4. v \in [0..(n - 1) -> Elements] /\ w \in [0..(n - 1) -> Elements]
    <2>1. v = [p \in 0..(n - 1) |-> v[p]] /\ w = [p \in 0..(n - 1) |-> w[p]]
      BY DEF LeavesTo, PuncturedTo
    <2> HIDE DEF v, w
    <2> QED
      BY <1>2, <1>3, <2>1
  <1>5. Noise(c, points) \in SUBSET (0..(n - 1))
    <2>1. ASSUME NEW t \in 0..(c.parts - 1)
          PROVE  LeafAt(c, t, points[t]) \in 0..(n - 1)
      <3>1. points[t] \in 0..(c.sizePer - 1)
        BY DEF Fit
      <3> QED
        BY <3>1, PlaceOfLeaf
    <2> QED
      BY <2>1 DEF Noise
  <1> HIDE DEF n, v, w
  <1>6. \A p \in 0..(n - 1) : w[p] = IF p \in Noise(c, points) THEN Plus(v[p], d) ELSE v[p]
    BY <1>3
  <1> QED
    BY <1>1, <1>4, <1>5, <1>6 DEF n, v, w

LEMMA AgreeOnce ==
  ASSUME SilentOTAssumption, CallInv, ReceiverInv
  PROVE  Agree
  <1> SUFFICES ASSUME pc = "idle", recver.pc = "idle", DOMAIN recver.mC # {}
               PROVE  Agree
    BY DEF Agree
  <1>1. PICK d \in Elements \ {Zero} : SenderSide(d) /\ Held(d)
    BY DEF ReceiverInv, Session
  <1>2. PICK c, points : c = recver.c /\ points = recver.points
    OBVIOUS
  <1>3. /\ Fit(c) /\ points \in Points(c.parts, c.sizePer) /\ seed = calls /\ op \in Online
        /\ op = "inplace" => sender = c /\ delta = d
        /\ op = "test" => messages = Hashes(c, seed, d)
    BY <1>1, <1>2 DEF SenderSide
  <1>4. seed \in 1..MaxCalls
    BY <1>1 DEF SenderSide, CallInv, SilentOTAssumption
  <1> DEFINE size == noiseVecSize(c)
             v == LeavesTo(c, seed, c.parts)
             w == PuncturedTo(c, points, seed, d, c.parts)
             noise == Noise(c, points)
             set(i) == Columns(size, c.n, i)
             X(i) == SumOf(v, set(i))
             Y(i) == SumOf(w, set(i))
             plain == Encoded(c, w)
             bit(i) == Parity(set(i), noise)
  <1>5. /\ size \in Nat /\ v \in [0..(size - 1) -> Elements] /\ w \in [0..(size - 1) -> Elements]
        /\ noise \in SUBSET (0..(size - 1))
        /\ \A p \in 0..(size - 1) : w[p] = IF p \in noise THEN Plus(v[p], d) ELSE v[p]
    <2>1. PICK s : s = seed /\ s \in 1..MaxCalls
      BY <1>4
    <2> QED
      BY <1>3, <2>1, Vectors
  <1>6. ASSUME NEW i
        PROVE  X(i) \in Elements /\ bit(i) \in {0, 1} /\ Y(i) = IF bit(i) = 1 THEN Plus(X(i), d) ELSE X(i)
    <2>1. PICK N, V, W, S, I : N = size /\ V = v /\ W = w /\ S = noise /\ I = set(i)
      OBVIOUS
    <2>2. ShiftedAt(N, V, W, d, S)
      <3> HIDE DEF size, v, w, noise
      <3> QED
        BY <1>5, <2>1 DEF ShiftedAt
    <2>3. /\ SumOf(V, I) \in Elements
          /\ Parity(I, S) \in {0, 1}
          /\ SumOf(W, I) = IF Parity(I, S) = 1 THEN Plus(SumOf(V, I), d) ELSE SumOf(V, I)
      BY <2>2, Shifted
    <2>4. X(i) = SumOf(V, I) /\ Y(i) = SumOf(W, I) /\ bit(i) = Parity(I, S)
      BY <2>1, Zenon
    <2> HIDE DEF X, Y, bit
    <2> QED
      BY <2>3, <2>4
  <1>7. ASSUME NEW i \in 0..(c.n - 1)
        PROVE  /\ CodeOf(c, seed)[i] = X(i) /\ plain[i] = Y(i) /\ recver.mC[i] = bit(i)
               /\ recver.mA[i] = IF op = "test" THEN Hash(Y(i), i) ELSE Y(i)
    <2>1. CodeOf(c, seed)[i] = X(i)
      BY DEF CodeOf, Encoded
    <2>2. plain[i] = Y(i)
      BY DEF Encoded
    <2>3. recver.mC[i] = bit(i)
      <3>1. recver.mC[i] = ChoiceOf(i)
        BY <1>1, <1>2 DEF Held
      <3>2. ChoiceOf(i) = bit(i)
        BY <1>2 DEF ChoiceOf, Noise, Parity
      <3> QED
        BY <3>1, <3>2
    <2>4. recver.mA[i] = IF op = "test" THEN Hash(plain[i], i) ELSE plain[i]
      BY <1>1, <1>2 DEF Held
    <2> QED
      BY <2>1, <2>2, <2>3, <2>4
  <1> DEFINE m(i) == IF op = "test" THEN messages[i]
                     ELSE [b \in {0, 1} |-> IF b = 0 THEN mB[i] ELSE Plus(mB[i], delta)]
  <1>8. ASSUME NEW i \in 0..(c.n - 1)
        PROVE  recver.mA[i] = m(i)[recver.mC[i]] /\ recver.mA[i] # m(i)[1 - recver.mC[i]]
    <2>1. PICK x, y, b : x \in Elements /\ b \in {0, 1} /\ x = X(i) /\ y = Y(i) /\ b = bit(i)
      <3> HIDE DEF X, Y, bit
      <3> QED
        BY <1>6
    <2>2. Plus(x, d) # x /\ y = IF b = 1 THEN Plus(x, d) ELSE x
      <3>1. y = IF b = 1 THEN Plus(x, d) ELSE x
        <4> HIDE DEF X, Y, bit
        <4> QED
          BY <1>6, <2>1
      <3>2. Plus(x, d) # x
        BY <2>1, Sums
      <3> QED
        BY <3>1, <3>2
    <2>3. CASE op = "test"
      <3>1. m(i) = [a \in {0, 1} |-> <<IF a = 0 THEN x ELSE Plus(x, d), i>>]
        <4> HIDE DEF X
        <4> QED
          BY <1>3, <1>7, <2>1, <2>3 DEF Hashes, Hash
      <3>2. recver.mA[i] = <<y, i>> /\ recver.mC[i] = b
        BY <1>7, <2>1, <2>3 DEF Hash
      <3> HIDE DEF m
      <3>3. m(i)[0] = <<x, i>> /\ m(i)[1] = <<Plus(x, d), i>>
        BY <3>1
      <3>4. <<x, i>> # <<Plus(x, d), i>>
        BY <2>2
      <3>5. CASE b = 0
        <4>1. y = x /\ 1 - b = 1
          BY <2>2, <3>5
        <4> QED
          BY <3>2, <3>3, <3>4, <3>5, <4>1
      <3>6. CASE b = 1
        <4>1. y = Plus(x, d) /\ 1 - b = 0
          BY <2>2, <3>6
        <4> QED
          BY <3>2, <3>3, <3>4, <3>6, <4>1
      <3> QED
        BY <2>1, <3>5, <3>6
    <2>4. CASE op = "inplace"
      <3>1. mB = CodeOf(c, seed) /\ delta = d
        BY <1>3, <2>4 DEF CallInv
      <3>2. m(i) = [a \in {0, 1} |-> IF a = 0 THEN x ELSE Plus(x, d)]
        <4> HIDE DEF X
        <4> QED
          BY <1>7, <2>1, <2>4, <3>1
      <3>3. recver.mA[i] = y /\ recver.mC[i] = b
        BY <1>7, <2>1, <2>4
      <3> HIDE DEF m
      <3>4. m(i)[0] = x /\ m(i)[1] = Plus(x, d)
        BY <3>2
      <3> QED
        BY <2>1, <2>2, <3>3, <3>4
    <2> QED
      BY <1>3, <2>3, <2>4 DEF Online
  <1> QED
    BY <1>2, <1>8 DEF Agree

\* Whatever the size of the code and of the last batch, whenever the parties
\* expand, and whatever offline calls, set-ups without a receiver and crashes of
\* the caller come in between: the receiver has the message of its choice of
\* every OT and not the other one (silentOTutils.h:216, 433), and a call of the
\* sender, with a receiver or without, leaves the code word of all leaves
\* (silentOTutils.h:177).
THEOREM ReceiverGetsChosen ==
  ASSUME SilentOTAssumption
  PROVE  Spec => [](Agree /\ Computes)
  <1>1. CallInv /\ ReceiverInv => Agree /\ Computes
    BY AgreeOnce, ComputesLeaves
  <1> QED
    BY <1>1, CallsInductive, PTL

------------------------------------------------------------------------------
(* The indices of the code's columns.                                      *)

CONSTANTS U64, Lanes, Blocks, Group, Seeds, ModVals, Mix(_, _), MaxGets
VARIABLES modSeed, modVal, buffer, vals, idx, given
Modd == INSTANCE ExConvModd WITH seed <- modSeed

\* The words that have been given are those of the refills so far, up to where
\* the generator is in the last of them.
ModdInv ==
  /\ modSeed \in Seeds /\ modVal \in ModVals
  /\ idx \in 0..Modd!NumVals
  /\ given \in Seq(Nat)
  /\ \E refills \in Nat :
       /\ buffer = Modd!Generations(refills)
       /\ Len(given) = refills * Modd!NumVals + idx
  /\ vals = Modd!Reduced(modVal, buffer)
  /\ Modd!WholeStream
  /\ Modd!IndicesFit

LEMMA MixedType ==
  ASSUME Modd!ExConvModdAssumption, NEW b \in Modd!AnyBuffer
  PROVE  Modd!Mixed(b) \in Modd!AnyBuffer
  <1>0. /\ Lanes \in Nat \ {0} /\ Blocks \in Nat \ {0}
        /\ \A x, y \in Modd!AnyBlock : Mix(x, y) \in Modd!AnyBlock
    BY DEF Modd!ExConvModdAssumption
  <1>1. PICK chunks \in Nat : chunks = Blocks \div Lanes
    BY <1>0, DivMod
  <1> DEFINE S == Modd!AnyBuffer
             Chunk(f, c) == [x \in DOMAIN b |-> IF x \div Lanes = c - 1
                                                THEN Mix(f[x], f[(x - Lanes) % Blocks]) ELSE f[x]]
             step == [c \in 1..chunks |-> [f \in S |-> Chunk(f, c)]]
             after[c \in 0..chunks] == IF c = 0 THEN b ELSE Chunk(after[c - 1], c)
  <1>2. ASSUME NEW f \in S, NEW c \in 1..chunks
        PROVE  Chunk(f, c) \in S
    <2>1. DOMAIN b = 0..(Blocks - 1)
      BY DEF Modd!AnyBuffer
    <2>2. ASSUME NEW x \in 0..(Blocks - 1)
          PROVE  (IF x \div Lanes = c - 1 THEN Mix(f[x], f[(x - Lanes) % Blocks]) ELSE f[x]) \in Modd!AnyBlock
      <3>1. PICK y : y = (x - Lanes) % Blocks
        OBVIOUS
      <3>2. y \in 0..(Blocks - 1)
        BY <1>0, <3>1
      <3>3. f[x] \in Modd!AnyBlock /\ f[y] \in Modd!AnyBlock
        BY <3>2 DEF Modd!AnyBuffer
      <3> QED
        BY <1>0, <3>1, <3>3
    <2> QED
      BY <2>1, <2>2 DEF Modd!AnyBuffer
  <1>3. IsStep(step, chunks, S)
    BY <1>2 DEF IsStep
  <1>4. PICK g : Recurs(g, chunks, S, b, step)
    <2>1. b \in S
      OBVIOUS
    <2> HIDE DEF step, S
    <2> QED
      BY <1>3, <2>1, Recursion
  <1>5. ASSUME NEW c \in 1..chunks
        PROVE  g[c] = Chunk(g[c - 1], c)
    <2>1. g[c] = step[c][g[c - 1]] /\ g[c - 1] \in S
      <3> HIDE DEF step, S
      <3> QED
        BY <1>4 DEF Recurs
    <2> HIDE DEF Chunk, S
    <2> QED
      BY <2>1
  <1>6. g = [c \in 0..chunks |-> IF c = 0 THEN b ELSE Chunk(g[c - 1], c)]
    <2> HIDE DEF Chunk, S, step
    <2> QED
      BY <1>4, <1>5 DEF Recurs
  <1>7. after = [c \in 0..chunks |-> IF c = 0 THEN b ELSE Chunk(after[c - 1], c)]
    <2> HIDE DEF Chunk
    <2> QED
      BY <1>6, Zenon
  <1> HIDE DEF after, S, Chunk, step
  <1>8. \A c \in 0..chunks : g[c] = after[c]
    <2>1. g[0] = after[0]
      BY <1>6, <1>7
    <2>2. ASSUME NEW c \in 1..chunks, g[c - 1] = after[c - 1]
          PROVE  g[c] = after[c]
      BY <1>5, <1>7, <2>2
    <2> QED
      BY <2>1, <2>2, AlikeStepwise DEF StepsAlike
  <1>9. Modd!Mixed(b) = after[chunks]
    BY <1>1 DEF Modd!Mixed, after, Chunk
  <1> QED
    BY <1>4, <1>8, <1>9 DEF S, Recurs

\* The buffers of the refills, each mixed from the one before.
IsRefilled(g, n) ==
  /\ g \in [0..n -> Modd!AnyBuffer]
  /\ g[0] = Modd!Mixed(modSeed)
  /\ \A c \in 1..n : g[c] = Modd!Mixed(g[c - 1])

LEMMA Refilled ==
  ASSUME Modd!ExConvModdAssumption, modSeed \in Seeds, NEW n \in Nat
  PROVE  \E g : IsRefilled(g, n) /\ Modd!Generations(n) = g[n]
  <1> DEFINE S == Modd!AnyBuffer
             first == Modd!Mixed(modSeed)
             mix(f) == Modd!Mixed(f)
             step == [c \in 1..n |-> [f \in S |-> mix(f)]]
             g[x \in 0..n] == IF x = 0 THEN first ELSE mix(g[x - 1])
  <1>1. first \in S /\ \A f \in S : mix(f) \in S
    BY MixedType DEF Modd!ExConvModdAssumption
  <1>2. Modd!Generations(n) = g[n]
    BY DEF Modd!Generations
  <1> HIDE DEF S, first, mix
  <1>3. IsStep(step, n, S)
    BY <1>1 DEF IsStep
  <1>4. PICK h : Recurs(h, n, S, first, step)
    <2> HIDE DEF step
    <2> QED
      BY <1>1, <1>3, Recursion
  <1>5. ASSUME NEW c \in 1..n
        PROVE  h[c] = mix(h[c - 1])
    <2>1. h[c] = step[c][h[c - 1]] /\ h[c - 1] \in S
      <3> HIDE DEF step
      <3> QED
        BY <1>4 DEF Recurs
    <2> QED
      BY <2>1
  <1>6. h = [x \in 0..n |-> IF x = 0 THEN first ELSE mix(h[x - 1])]
    <2> HIDE DEF step
    <2> QED
      BY <1>4, <1>5 DEF Recurs
  <1>7. g = [x \in 0..n |-> IF x = 0 THEN first ELSE mix(g[x - 1])]
    BY <1>6, Zenon
  <1> HIDE DEF g, step
  <1>8. g[0] = first /\ \A c \in 1..n : g[c] = mix(g[c - 1])
    BY <1>7
  <1>9. \A c \in 0..n : h[c] = g[c]
    <2>1. h[0] = g[0]
      BY <1>6, <1>8
    <2>2. \A c \in 1..n : h[c - 1] = g[c - 1] => h[c] = g[c]
      BY <1>5, <1>8
    <2> QED
      BY <2>1, <2>2, AlikeStepwise DEF StepsAlike
  <1>10. IsRefilled(h, n)
    BY <1>4, <1>5 DEF IsRefilled, Recurs, S, first, mix
  <1> QED
    BY <1>2, <1>9, <1>10

LEMMA NextRefill ==
  ASSUME Modd!ExConvModdAssumption, modSeed \in Seeds, NEW n \in Nat
  PROVE  /\ Modd!Generations(n) \in Modd!AnyBuffer
         /\ Modd!Generations(n + 1) = Modd!Mixed(Modd!Generations(n))
  <1>1. PICK g : IsRefilled(g, n) /\ Modd!Generations(n) = g[n]
    BY Refilled
  <1>2. PICK h : IsRefilled(h, n + 1) /\ Modd!Generations(n + 1) = h[n + 1]
    BY Refilled
  <1>3. \A c \in 0..n : g[c] = h[c]
    <2>1. g[0] = h[0]
      BY <1>1, <1>2 DEF IsRefilled
    <2>2. ASSUME NEW c \in 1..n, g[c - 1] = h[c - 1]
          PROVE  g[c] = h[c]
      <3>1. c \in 1..(n + 1)
        OBVIOUS
      <3> QED
        BY <1>1, <1>2, <2>2, <3>1 DEF IsRefilled
    <2> QED
      BY <2>1, <2>2, AlikeStepwise DEF StepsAlike
  <1>4. n + 1 \in 1..(n + 1) /\ n + 1 - 1 = n /\ n \in 0..n
    OBVIOUS
  <1>5. h[n + 1] = Modd!Mixed(h[n])
    BY <1>2, <1>4 DEF IsRefilled
  <1> QED
    BY <1>1, <1>2, <1>3, <1>4, <1>5 DEF IsRefilled

LEMMA FirstRefill ==
  ASSUME Modd!ExConvModdAssumption, modSeed \in Seeds
  PROVE  Modd!Generations(0) = Modd!Mixed(modSeed)
  <1>1. PICK g : IsRefilled(g, 0) /\ Modd!Generations(0) = g[0]
    BY Refilled
  <1> QED
    BY <1>1 DEF IsRefilled

\* Every word is reduced, by the mask or in a group of the division.
LEMMA ReducedWord ==
  ASSUME Modd!ExConvModdAssumption, modVal \in ModVals, NEW b \in Modd!AnyBuffer,
         NEW j \in 0..(Modd!NumVals - 1)
  PROVE  /\ Modd!Reduced(modVal, b)[j] = Modd!WordAt(b, j) % modVal
         /\ Modd!WordAt(b, j) % modVal \in 0..(modVal - 1)
         /\ DOMAIN Modd!Reduced(modVal, b) = 0..(Modd!NumVals - 1)
  <1>0. /\ Blocks \in Nat \ {0} /\ Group \in Nat \ {0} /\ (2 * Blocks) % Group = 0
        /\ U64 \in Nat \ {0} /\ modVal \in 1..(U64 - 1)
    BY DEF Modd!ExConvModdAssumption
  <1>a. PICK v \in Nat : v = modVal /\ v > 0
    BY <1>0
  <1>1. PICK nv \in Nat : nv = Modd!NumVals /\ nv = 2 * Blocks
    BY <1>0 DEF Modd!NumVals
  <1>2. PICK q \in Nat, r \in Nat : q = j \div 2 /\ r = j % 2 /\ r < 2 /\ j = 2 * q + r
    BY <1>1, DivMod
  <1>3. PICK word \in Nat : word = Modd!WordAt(b, j)
    <2>1. q \in 0..(Blocks - 1)
      BY <1>0, <1>1, <1>2
    <2>2. b[q] \in (0..(U64 - 1)) \X (0..(U64 - 1))
      BY <2>1 DEF Modd!AnyBuffer, Modd!AnyBlock
    <2>3. b[q][r + 1] \in 0..(U64 - 1)
      <3>1. r + 1 = 1 \/ r + 1 = 2
        BY <1>2
      <3> QED
        BY <2>2, <3>1
    <2> QED
      BY <1>0, <1>2, <2>3 DEF Modd!WordAt
  <1>4. PICK p \in Nat, s \in Nat : p = word \div v /\ s = word % v /\ s < v /\ word = v * p + s
    BY <1>a, DivMod
  <1>5. Modd!Masked(v, word) = s
    BY <1>4 DEF Modd!Masked
  <1>6. Modd!Divided(v, word) = s
    <2>1. PICK m \in Nat : m = v * p /\ p * v = m
      OBVIOUS
    <2>2. Modd!Divided(v, word) = word - p * v
      BY <1>4 DEF Modd!Divided
    <2> QED
      BY <1>4, <2>1, <2>2
  <1>7. (nv \div Group) * Group = nv
    <2>1. PICK u \in Nat, t \in Nat : u = nv \div Group /\ t = nv % Group /\ nv = Group * u + t
      BY <1>0, DivMod
    <2> QED
      BY <1>0, <1>1, <2>1
  <1>8. /\ DOMAIN Modd!Reduced(modVal, b) = 0..(nv - 1)
        /\ Modd!Reduced(modVal, b)[j] =
             IF Modd!IsPow2(v) THEN Modd!Masked(v, word)
             ELSE IF j < (nv \div Group) * Group THEN Modd!Divided(v, word) ELSE word
    BY <1>a, <1>1, <1>3 DEF Modd!Reduced
  <1>9. Modd!Reduced(modVal, b)[j] = s
    BY <1>1, <1>5, <1>6, <1>7, <1>8
  <1>10. Modd!WordAt(b, j) % modVal = s /\ s \in 0..(modVal - 1)
    BY <1>a, <1>3, <1>4
  <1> QED
    BY <1>1, <1>8, <1>9, <1>10

LEMMA ModdStarts ==
  ASSUME Modd!ExConvModdAssumption, Modd!Init
  PROVE  ModdInv
  <1>0. Blocks \in Nat \ {0} /\ Seeds \subseteq Modd!AnyBuffer
    BY DEF Modd!ExConvModdAssumption
  <1>1. modSeed \in Seeds /\ modVal \in ModVals /\ idx = 0 /\ given = <<>>
    BY DEF Modd!Init
  <1>2. PICK nv \in Nat : nv = Modd!NumVals
    BY <1>0 DEF Modd!NumVals
  <1>3. buffer = Modd!Generations(0) /\ vals = Modd!Reduced(modVal, buffer)
    BY <1>1, FirstRefill DEF Modd!Init
  <1>4. Len(given) = 0 * nv + idx /\ given \in Seq(Nat) /\ idx \in 0..nv
    BY <1>1, <1>2
  <1>5. Modd!WholeStream /\ Modd!IndicesFit
    BY <1>1 DEF Modd!WholeStream, Modd!IndicesFit
  <1>6. \E refills \in Nat : buffer = Modd!Generations(refills) /\ Len(given) = refills * Modd!NumVals + idx
    BY <1>2, <1>3, <1>4
  <1> QED
    BY <1>1, <1>2, <1>3, <1>4, <1>5, <1>6 DEF ModdInv

\* The next word of refill n is number "at" of it.
LEMMA Gives ==
  ASSUME Modd!ExConvModdAssumption, ModdInv, NEW n \in Nat, NEW at \in 0..(Modd!NumVals - 1),
         Len(given) = n * Modd!NumVals + at,
         given' = Append(given, Modd!Reduced(modVal, Modd!Generations(n))[at]),
         modSeed' = modSeed, modVal' = modVal
  PROVE  /\ given' \in Seq(Nat) /\ Len(given') = n * Modd!NumVals + (at + 1)
         /\ Modd!WholeStream' /\ Modd!IndicesFit'
  <1>0. Blocks \in Nat \ {0} /\ modVal \in 1..(U64 - 1) /\ U64 \in Nat
    BY DEF Modd!ExConvModdAssumption, ModdInv
  <1>1. PICK nv \in Nat, m \in Nat : nv = Modd!NumVals /\ nv > 0 /\ m = n * nv
    BY <1>0 DEF Modd!NumVals
  <1>2. PICK value \in Nat :
          /\ value = Modd!Reduced(modVal, Modd!Generations(n))[at]
          /\ value = Modd!WordAt(Modd!Generations(n), at) % modVal
          /\ value \in 0..(modVal - 1)
    <2>1. Modd!Generations(n) \in Modd!AnyBuffer
      BY NextRefill DEF ModdInv
    <2>2. /\ Modd!Reduced(modVal, Modd!Generations(n))[at] = Modd!WordAt(Modd!Generations(n), at) % modVal
          /\ Modd!WordAt(Modd!Generations(n), at) % modVal \in 0..(modVal - 1)
      BY <2>1, ReducedWord DEF ModdInv
    <2> QED
      BY <1>0, <2>2
  <1>3. given \in Seq(Nat) /\ Len(given) = m + at
    BY <1>1 DEF ModdInv
  <1>4. /\ given' = Append(given, value) /\ given' \in Seq(Nat) /\ Len(given') = m + at + 1
        /\ given'[m + at + 1] = value
        /\ \A t \in 1..(m + at) : given'[t] = given[t]
    BY <1>1, <1>2, <1>3
  <1>5. (m + at) \div nv = n /\ (m + at) % nv = at
    <2>1. m + at = nv * n + at /\ m + at \in Nat /\ at \in Nat /\ at < nv
      BY <1>1
    <2> QED
      BY <1>1, <2>1, DivUnique
  <1> DEFINE Right(t) == Modd!WordAt(Modd!Generations((t - 1) \div Modd!NumVals), (t - 1) % Modd!NumVals) % modVal
  <1>6. ASSUME NEW t \in DOMAIN given'
        PROVE  given'[t] = Right(t)
    <2>1. t \in 1..(m + at + 1)
      BY <1>4
    <2>2. CASE t = m + at + 1
      <3>1. t - 1 = m + at
        BY <1>1, <2>2
      <3> QED
        BY <1>1, <1>2, <1>4, <1>5, <2>2, <3>1
    <2>3. CASE t # m + at + 1
      <3>1. t \in 1..(m + at)
        BY <1>1, <2>1, <2>3
      <3>2. t \in DOMAIN given
        BY <1>3, <3>1
      <3>3. given[t] = Right(t)
        BY <3>2 DEF ModdInv, Modd!WholeStream
      <3> HIDE DEF Right
      <3> QED
        BY <1>4, <3>1, <3>3
    <2> QED
      BY <2>2, <2>3
  <1>7. \A t : Right(t)' = Right(t)
    BY DEF Modd!Generations, Modd!NumVals, Modd!WordAt
  <1>8. Modd!WholeStream'
    <2>1. \A t \in DOMAIN given' : given'[t] = Right(t)'
      BY <1>6, <1>7
    <2> QED
      BY <2>1 DEF Modd!WholeStream
  <1>9. Modd!IndicesFit'
    <2>1. ASSUME NEW t \in DOMAIN given'
          PROVE  given'[t] \in 0..(modVal - 1)
      <3>1. t = m + at + 1 \/ (t \in 1..(m + at) /\ t \in DOMAIN given)
        BY <1>3, <1>4
      <3> QED
        BY <1>2, <1>4, <3>1 DEF ModdInv, Modd!IndicesFit
    <2> QED
      BY <2>1 DEF Modd!IndicesFit
  <1> QED
    BY <1>1, <1>4, <1>8, <1>9

LEMMA ModdStep ==
  ASSUME Modd!ExConvModdAssumption, ModdInv, Modd!Get
  PROVE  ModdInv'
  <1>0. /\ Blocks \in Nat \ {0} /\ modSeed \in Seeds /\ modVal \in ModVals
        /\ modSeed' = modSeed /\ modVal' = modVal /\ idx \in 0..Modd!NumVals
    BY DEF Modd!ExConvModdAssumption, ModdInv, Modd!Get
  <1>1. PICK nv \in Nat : nv = Modd!NumVals /\ nv > 0
    BY <1>0 DEF Modd!NumVals
  <1>2. PICK refills \in Nat : buffer = Modd!Generations(refills) /\ Len(given) = refills * nv + idx
    BY <1>1 DEF ModdInv
  <1>3. PICK n \in Nat, at \in 0..(nv - 1) :
          /\ buffer' = Modd!Generations(n) /\ vals' = Modd!Reduced(modVal, buffer')
          /\ Len(given) = n * nv + at /\ idx' = at + 1
          /\ given' = Append(given, Modd!Reduced(modVal, Modd!Generations(n))[at])
    <2>1. CASE idx = nv
      <3>1. Modd!Generations(refills + 1) = Modd!Mixed(buffer)
        BY <1>0, <1>2, NextRefill
      <3>2. /\ buffer' = Modd!Mixed(buffer) /\ vals' = Modd!Reduced(modVal, Modd!Mixed(buffer))
            /\ Modd!Give(Modd!Reduced(modVal, Modd!Mixed(buffer)), 0)
        BY <1>1, <2>1 DEF Modd!Get, Modd!Empty
      <3>3. Modd!Mixed(buffer) \in Modd!AnyBuffer
        BY <1>0, <3>1, NextRefill
      <3>4. 0 \in DOMAIN Modd!Reduced(modVal, Modd!Mixed(buffer))
        BY <1>0, <1>1, <3>3, ReducedWord
      <3>5. /\ given' = Append(given, Modd!Reduced(modVal, Modd!Mixed(buffer))[0])
            /\ idx' = 0 + 1
        BY <3>2, <3>4 DEF Modd!Give
      <3>6. refills * nv + nv = (refills + 1) * nv + 0
        BY <1>1
      <3>7. refills + 1 \in Nat /\ 0 \in 0..(nv - 1)
        BY <1>1
      <3> QED
        BY <1>2, <2>1, <3>1, <3>2, <3>5, <3>6, <3>7
    <2>2. CASE idx # nv
      <3>1. idx \in 0..(nv - 1)
        BY <1>0, <1>1, <2>2
      <3>2. buffer' = buffer /\ vals' = vals /\ Modd!Give(vals, idx) /\ vals = Modd!Reduced(modVal, buffer)
        BY <1>1, <2>2 DEF Modd!Get, Modd!Empty, ModdInv
      <3>3. idx \in DOMAIN vals
        <4>1. buffer \in Modd!AnyBuffer
          BY <1>0, <1>2, NextRefill
        <4> QED
          BY <1>0, <1>1, <3>1, <3>2, <4>1, ReducedWord
      <3>4. given' = Append(given, vals[idx]) /\ idx' = idx + 1
        BY <3>2, <3>3 DEF Modd!Give
      <3> QED
        BY <1>2, <3>1, <3>2, <3>4
    <2> QED
      BY <2>1, <2>2
  <1>4. /\ given' \in Seq(Nat) /\ Len(given') = n * nv + idx'
        /\ Modd!WholeStream' /\ Modd!IndicesFit'
    BY <1>0, <1>1, <1>3, Gives
  <1>5. idx' \in 0..nv
    BY <1>1, <1>3
  <1>6. Modd!NumVals' = Modd!NumVals /\ Modd!Generations(n)' = Modd!Generations(n)
    BY <1>0 DEF Modd!NumVals, Modd!Generations
  <1>7. vals' = Modd!Reduced(modVal, buffer)'
    BY <1>0, <1>3 DEF Modd!Reduced
  <1> QED
    BY <1>0, <1>1, <1>3, <1>4, <1>5, <1>6, <1>7 DEF ModdInv

LEMMA ModdInductive ==
  ASSUME Modd!ExConvModdAssumption
  PROVE  Modd!Spec => []ModdInv
  <1>1. Modd!Init => ModdInv
    BY ModdStarts
  <1>2. ModdInv /\ [Modd!Next]_(Modd!vars) => ModdInv'
    <2>1. ASSUME ModdInv, UNCHANGED Modd!vars
          PROVE  ModdInv'
      <3>1. UNCHANGED <<modSeed, modVal, buffer, vals, idx, given>>
        BY <2>1 DEF Modd!vars
      <3>2. Modd!NumVals' = Modd!NumVals /\ Modd!Reduced(modVal, buffer)' = Modd!Reduced(modVal, buffer)
        BY <3>1 DEF Modd!NumVals, Modd!Reduced
      <3>3. \A n : Modd!Generations(n)' = Modd!Generations(n)
        BY <3>1 DEF Modd!Generations
      <3>4. Modd!WholeStream' /\ Modd!IndicesFit'
        BY <2>1, <3>1, <3>2, <3>3 DEF ModdInv, Modd!WholeStream, Modd!IndicesFit
      <3> QED
        BY <2>1, <3>1, <3>2, <3>3, <3>4 DEF ModdInv
    <2> QED
      BY <2>1, ModdStep DEF Modd!Next
  <1> QED
    BY <1>1, <1>2, PTL DEF Modd!Spec

\* The generator of the columns gives every word of every refilled buffer once,
\* in order, reduced to the size of the code whichever way it is reduced: no
\* word is lost or given twice around a refill (ExConvCodeTest/Util.h:123).
THEOREM GivesWholeStream ==
  ASSUME Modd!ExConvModdAssumption
  PROVE  Modd!Spec => []Modd!WholeStream
  <1>1. ModdInv => Modd!WholeStream
    BY DEF ModdInv
  <1> QED
    BY <1>1, ModdInductive, PTL

\* Every index that it gives is a column of the code
\* (ExConvCodeTest/Util.h:123).
THEOREM IndicesInCode ==
  ASSUME Modd!ExConvModdAssumption
  PROVE  Modd!Spec => []Modd!IndicesFit
  <1>1. ModdInv => Modd!IndicesFit
    BY DEF ModdInv
  <1> QED
    BY <1>1, ModdInductive, PTL
=============================================================================
