------------------------------ MODULE SilentOT ------------------------------
(***************************************************************************)
(* The silent OT of silentOTutils.h: the set-up that the tests write out   *)
(* by hand, the sender's three ways to expand (silentSendOffline,          *)
(* silentSendOffline2 and silentSendInplaceTest), its compression and      *)
(* hash, and the receiver of libOTe across the socket.                     *)
(*                                                                         *)
(* External, from how the code uses them: a GGM tree is the function of    *)
(* its leaves; a message of the expansion lets the receiver have all       *)
(* leaves of a tree but one, which it gets with delta added, if it holds   *)
(* one key of every base OT of the tree.  The encoder is a 0-1 matrix      *)
(* here and module ExConv in detail.  A key is named by its set-up, its    *)
(* number and whether the receiver was given it.                           *)
(***************************************************************************)
EXTENDS Integers, Sequences, FiniteSets

CONSTANTS
  Commands,            \* command lines: nn, n, d and d3_nn5
  DefaultNn, FlagNn, FlagDepth, \* 20; 5 and 3 of the flag d3_nn5
  TreeBatch,           \* 8: trees expanded at once
  Elements, Zero, Plus(_, _), \* blocks under xor
  Expand(_, _, _),     \* leaf of a tree, by seed and tree
  Columns(_, _, _),    \* of a row of the code, by code size and message size
  RegNoiseWeight(_),   \* getRegNoiseWeight
  Points(_, _),        \* the punctured points that may be sampled
  MaxCalls             \* set-ups and calls of a behaviour

None == "none"
NotSet == -1

scaler == 2

\* numOTs, pprf_ggm_depth and the numbers of partitions, as the command line
\* asks for them; no tree has more leaves than MostLeaves.
NumOTs(c) ==
  IF c.d3_nn5 THEN 2^FlagNn
  ELSE LET asked == IF c.nn # NotSet THEN 2^(c.nn) ELSE c.n
       IN  IF asked = 0 THEN 2^DefaultNn ELSE asked
GgmDepth(c) == IF c.d3_nn5 THEN FlagDepth ELSE c.d
Partitions(c) == (NumOTs(c) * scaler) \div (2^GgmDepth(c))
PartsOf(c) == {Partitions(c), RegNoiseWeight(NumOTs(c) * scaler)}
MostLeaves(c) == NumOTs(c) * scaler + 4

SilentOTAssumption ==
  /\ {DefaultNn, FlagNn, FlagDepth, MaxCalls} \subseteq Nat /\ TreeBatch \in Nat \ {0}
  /\ Zero \in Elements
  /\ \A x, y \in Elements : Plus(x, y) \in Elements /\ Plus(x, y) = Plus(y, x)
  /\ \A x, y, z \in Elements : Plus(Plus(x, y), z) = Plus(x, Plus(y, z))
  /\ \A x \in Elements : Plus(x, Zero) = x /\ Plus(x, x) = Zero
  /\ \A c \in Commands :
       /\ c.nn \in Nat \cup {NotSet} /\ c.n \in Nat /\ c.d \in Nat /\ c.d3_nn5 \in BOOLEAN
       /\ RegNoiseWeight(NumOTs(c) * scaler) \in Nat
       /\ \A parts \in PartsOf(c), leaves \in 1..MostLeaves(c) :
            /\ Points(parts, leaves) \subseteq [0..(parts - 1) -> 0..(leaves - 1)]
            /\ \A s \in 1..MaxCalls, t \in 0..(parts - 1), x \in 0..(leaves - 1) :
                 Expand(s, t, x) \in Elements

VARIABLES
  cmd,
  sender,  \* mRequestNumOts, mNumPartitions, mSizePer, mGen.mDepth
  base,    \* mGen.mBaseOTs
  delta, mB,
  op, pc,  \* the sender's call and where it is
  seed, treeIndex,
  chl,     \* what the sender has sent and the receiver not read
  recver,  \* its configuration, points, keys, mA, choices and where it is
  messages, \* what hash has made, per OT and choice
  wire,    \* every expansion that has left the sender: set-up and seed
  calls

vars == <<cmd, sender, base, delta, mB, op, pc, seed, treeIndex, chl, recver, messages, wire, calls>>

numOTs == NumOTs(cmd)
pprf_num_partitions == Partitions(cmd)

CeilDiv(a, b) == (a + b - 1) \div b
FloorDiv(a, b) == a \div b
LeavesOfFloor(parts) == FloorDiv(numOTs * scaler, parts)
LeavesOf(parts) == CeilDiv(numOTs * scaler, parts)

\* max(4, roundUpTo(divCeil(numOTs * scaler, partitions), 2)).
SizePer(parts) ==
  LET even == 2 * CeilDiv(LeavesOf(parts), 2) IN  IF even < 4 THEN 4 ELSE even
log2ceil(x) == CHOOSE e \in 0..x : 2^e >= x /\ \A f \in 0..(e - 1) : 2^f < x

noiseVecSize(c) == c.sizePer * c.parts
Unconfigured == [n |-> 0, parts |-> 0, sizePer |-> 0, depth |-> 0]
NoReceiver ==
  [pc |-> "idle", c |-> Unconfigured, points |-> <<>>, keys |-> <<>>, tree |-> 0, mA |-> <<>>, mC |-> <<>>]

Init ==
  /\ cmd \in Commands
  /\ sender = Unconfigured /\ base = <<>> /\ delta = Zero /\ mB = <<>>
  /\ op = None /\ pc = "idle" /\ seed = 0 /\ treeIndex = 0
  /\ chl = <<>> /\ recver = NoReceiver /\ messages = <<>> /\ wire = {} /\ calls = 0

------------------------------------------------------------------------------
Key(number, known) == <<calls, number, known>>

\* The bit of the punctured point that base OT i chooses.
BaseChoice(points, depth, i) == (points[i \div depth] \div (2^(depth - 1 - (i % depth)))) % 2

Configured(parts) ==
  [n |-> numOTs, parts |-> parts, sizePer |-> SizePer(parts), depth |-> log2ceil(SizePer(parts))]

\* The sender's message 1 - choice is random, the other one the receiver's.
BaseOTsSwapped(points, depth, parts) ==
  [i \in 0..(depth * parts - 1) |-> [b \in {0, 1} |-> Key(i, b # BaseChoice(points, depth, i))]]
BaseOTs(points, depth, parts) ==
  [i \in 0..(depth * parts - 1) |-> [b \in {0, 1} |-> Key(i, b = BaseChoice(points, depth, i))]]

\* Set-up of both parties, by silent_ot_test with the partitions of the command
\* line or by fakeBaseExConv7x24 with those of the noise weight.
SetUp ==
  /\ pc = "idle" /\ recver.pc = "idle" /\ calls < MaxCalls
  /\ \E parts \in PartsOf(cmd) \ {0} :
       LET c == Configured(parts) IN
       \E points \in Points(parts, c.sizePer) :
         /\ sender' = c
         /\ base' = BaseOTs(points, c.depth, parts)
         /\ recver' = [NoReceiver EXCEPT !.c = c, !.points = points, !.pc = "ready",
                        !.keys = [i \in 0..(c.depth * parts - 1) |-> Key(i, TRUE)]]
  /\ chl' = <<>>
  /\ calls' = calls + 1
  /\ UNCHANGED <<cmd, delta, mB, op, pc, seed, treeIndex, messages, wire>>

\* Set-up of silent_ot_sender_offline_test: two random keys and no receiver.
SetUpSender ==
  /\ pc = "idle" /\ recver.pc = "idle" /\ calls < MaxCalls /\ pprf_num_partitions # 0
  /\ LET c == Configured(pprf_num_partitions) IN
     /\ sender' = c
     /\ base' = [i \in 0..(c.depth * c.parts - 1) |-> [b \in {0, 1} |-> Key(i, FALSE)]]
  /\ recver' = NoReceiver
  /\ chl' = <<>>
  /\ calls' = calls + 1
  /\ UNCHANGED <<cmd, delta, mB, op, pc, seed, treeIndex, messages, wire>>

\* A depth too large for the OTs: no partitions, and a division by them.
DivideByZero ==
  /\ pc = "idle" /\ calls < MaxCalls /\ pprf_num_partitions = 0
  /\ pc' = "crashed"
  /\ UNCHANGED <<cmd, sender, base, delta, mB, op, seed, treeIndex, chl, recver, messages, wire, calls>>

------------------------------------------------------------------------------
isConfigured == sender.n > 0
hasSilentBaseOts == base # <<>>
Online == {"inplace", "test"}
Offline == {"offline", "offline2"}

\* Entering a call for count OTs; its checks throw and change nothing.  A
\* receiver that is set up receives at the same time; there need not be one.
Accepted(count) == isConfigured /\ hasSilentBaseOts /\ count = sender.n
Call(o, count) ==
  /\ pc = "idle" /\ calls < MaxCalls /\ Accepted(count)
  /\ recver.pc \in {"idle", "ready"}
  /\ op' = o
  /\ \E d \in Elements \ {Zero} : delta' = d
  /\ mB' = [x \in 0..(noiseVecSize(sender) - 1) |-> Zero]
  /\ seed' = calls + 1
  /\ treeIndex' = 0
  /\ pc' = "expand"
  /\ calls' = calls + 1
  /\ recver' = IF o \in Online /\ recver.pc = "ready"
               THEN [recver EXCEPT !.pc = "expand", !.mA = [x \in 0..(noiseVecSize(recver.c) - 1) |-> Zero]]
               ELSE recver
  /\ UNCHANGED <<cmd, sender, base, chl, messages, wire>>

\* Where leaf x of a tree lies: interleaved within its batch.
Smaller(a, b) == IF a <= b THEN a ELSE b
Width(c, first) == Smaller(TreeBatch, c.parts - first)
LeafAt(c, tree, x) ==
  LET first == (tree \div TreeBatch) * TreeBatch
  IN  first * c.sizePer + x * Width(c, first) + (tree - first)
WithLeaves(c, v, first, leaf(_, _)) ==
  LET at == (first..(first + Width(c, first) - 1)) \X (0..(c.sizePer - 1))
      here(p) == {q \in at : LeafAt(c, q[1], q[2]) = p}
  IN  [p \in DOMAIN v |->
         IF here(p) = {} THEN v[p] ELSE LET q == CHOOSE q \in here(p) : TRUE IN leaf(q[1], q[2])]

\* One batch of trees; only the online call sends the message of it.
MoreTrees == treeIndex < sender.parts
ExpandTrees ==
  /\ pc = "expand" /\ MoreTrees
  /\ mB' = WithLeaves(sender, mB, treeIndex, LAMBDA t, x : Expand(seed, t, x))
  /\ IF op \in Online
     THEN /\ chl' = Append(chl, [first |-> treeIndex, seed |-> seed, delta |-> delta, base |-> base])
          /\ wire' = wire \cup {<<base[0][0][1], seed>>}
     ELSE UNCHANGED <<chl, wire>>
  /\ treeIndex' = treeIndex + TreeBatch
  /\ UNCHANGED <<cmd, sender, base, delta, op, pc, seed, recver, messages, calls>>

\* mGen.mBaseOTs = {}; silentSendOffline2 does so with mGenOffline's copy.
LeftInPlace == base
BaseAfter == IF op = "offline2" THEN base ELSE <<>>
EndExpand ==
  /\ pc = "expand" /\ ~MoreTrees
  /\ base' = BaseAfter
  /\ pc' = "compress"
  /\ UNCHANGED <<cmd, sender, delta, mB, op, seed, treeIndex, chl, recver, messages, wire, calls>>

SumOf(v, set) ==
  LET g[m \in 0..Cardinality(DOMAIN v)] ==
        IF m = 0 THEN Zero ELSE IF m - 1 \in set THEN Plus(g[m - 1], v[m - 1]) ELSE g[m - 1]
  IN  g[Cardinality(DOMAIN v)]
Encoded(c, v) == [r \in 0..(c.n - 1) |-> SumOf(v, Columns(noiseVecSize(c), c.n, r))]

\* compressExConv7x24 and mB.resize(mRequestNumOts).
Compress ==
  /\ pc = "compress"
  /\ mB' = Encoded(sender, mB)
  /\ pc' = IF op = "test" THEN "hash" ELSE "idle"
  /\ UNCHANGED <<cmd, sender, base, delta, op, seed, treeIndex, chl, recver, messages, wire, calls>>

\* hash(messages, type) and clear().
Hash(value, i) == <<value, i>>
HashAndClear ==
  /\ pc = "hash"
  /\ messages' = [i \in 0..(sender.n - 1) |->
                   [b \in {0, 1} |-> Hash(IF b = 0 THEN mB[i] ELSE Plus(mB[i], delta), i)]]
  /\ sender' = Unconfigured /\ base' = <<>> /\ delta' = Zero /\ mB' = <<>>
  /\ pc' = "idle"
  /\ UNCHANGED <<cmd, op, seed, treeIndex, chl, recver, wire, calls>>

------------------------------------------------------------------------------
\* The receiver has a tree but for its point if it has the key of every level.
Opens(msg, tree) ==
  LET depth == recver.c.depth
  IN  \A i \in (tree * depth)..(tree * depth + depth - 1) :
        msg.base[i][BaseChoice(recver.points, depth, i)] = recver.keys[i]

ReceivedLeaf(msg, tree, x) ==
  IF ~Opens(msg, tree) THEN Zero
  ELSE IF x = recver.points[tree] THEN Plus(Expand(msg.seed, tree, x), msg.delta)
  ELSE Expand(msg.seed, tree, x)

ReceiveTrees ==
  /\ recver.pc = "expand" /\ recver.tree < recver.c.parts /\ chl # <<>>
  /\ recver' = [recver EXCEPT !.tree = @ + TreeBatch,
                 !.mA = WithLeaves(recver.c, @, recver.tree, LAMBDA t, x : ReceivedLeaf(Head(chl), t, x))]
  /\ chl' = Tail(chl)
  /\ UNCHANGED <<cmd, sender, base, delta, mB, op, pc, seed, treeIndex, messages, wire, calls>>

\* The choice of an OT is the sum of the punctured points in its row.
ChoiceOf(r) ==
  LET c == recver.c
      noise == {LeafAt(c, t, recver.points[t]) : t \in 0..(c.parts - 1)}
  IN  Cardinality(Columns(noiseVecSize(c), c.n, r) \cap noise) % 2

\* Its compression; silentReceive also hashes.
Receive ==
  /\ recver.pc = "expand" /\ recver.tree >= recver.c.parts
  /\ LET c == recver.c
         plain == Encoded(c, recver.mA)
     IN  recver' = [recver EXCEPT !.pc = "idle", !.keys = <<>>,
                     !.mA = [r \in 0..(c.n - 1) |-> IF op = "test" THEN Hash(plain[r], r) ELSE plain[r]],
                     !.mC = [r \in 0..(c.n - 1) |-> ChoiceOf(r)]]
  /\ UNCHANGED <<cmd, sender, base, delta, mB, op, pc, seed, treeIndex, chl, messages, wire, calls>>

Sender == ExpandTrees \/ EndExpand \/ Compress \/ HashAndClear
Receiver == ReceiveTrees \/ Receive
\* What the program that uses them does.
Caller ==
  \/ SetUp \/ SetUpSender \/ DivideByZero
  \/ \E o \in Online \cup Offline, count \in {numOTs, numOTs + 1} : Call(o, count)
Next == Caller \/ Sender \/ Receiver

Spec == Init /\ [][Next]_vars
\* eval runs both coroutines to their ends.
FairSpec == Spec /\ WF_vars(Sender) /\ WF_vars(Receiver)

------------------------------------------------------------------------------
\* checkRandom, and its like for correlated OTs: the receiver has the message of
\* its choice and not the other, for sizes that are no power of two and a last
\* batch of fewer trees.
Agree ==
  pc = "idle" /\ recver.pc = "idle" /\ DOMAIN recver.mC # {} =>
    \A i \in 0..(recver.c.n - 1) :
      LET m == IF op = "test" THEN messages[i] ELSE [b \in {0, 1} |-> IF b = 0 THEN mB[i] ELSE Plus(mB[i], delta)]
      IN  recver.mA[i] = m[recver.mC[i]] /\ recver.mA[i] # m[1 - recver.mC[i]]

\* silentSendOffline "performs all the computations of the sender, offline": any
\* of the calls leaves the code word of all leaves of all trees.
Computes ==
  pc = "idle" /\ op \in Offline \cup {"inplace"} /\ seed = calls =>
    LET c == sender
        tree(p) == CHOOSE q \in (0..(c.parts - 1)) \X (0..(c.sizePer - 1)) : LeafAt(c, q[1], q[2]) = p
        all == [p \in 0..(noiseVecSize(c) - 1) |-> Expand(seed, tree(p)[1], tree(p)[2])]
    IN  mB = Encoded(c, all)

\* The sums of one expansion at most are ever sent under the keys of a set-up:
\* a second one would give away what the keys of the first hide.  Of the four
\* calls only silentSendInplaceTest and silentSendTest send.  The base OTs that
\* silentSendOffline2 leaves in place serve one of these, once; that it clears
\* them is libOTe's.
KeysOnce == \A a, b \in wire : a[1] = b[1] => a = b

\* The trees have the leaves of the code and their depth has room for them, so
\* that every punctured point has the bits of its base OTs.
Covers ==
  isConfigured =>
    /\ noiseVecSize(sender) >= scaler * sender.n
    /\ sender.sizePer <= 2^(sender.depth) /\ sender.sizePer % 2 = 0
    /\ \A tree \in 0..(sender.parts - 1), x \in 0..(sender.sizePer - 1) :
         LeafAt(sender, tree, x) \in 0..(noiseVecSize(sender) - 1)

\* Both parties come to the end of a call.
Finishes == pc = "expand" ~> pc = "idle" /\ recver.pc # "expand"

=============================================================================
