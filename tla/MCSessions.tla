----------------------------- MODULE MCSessions -----------------------------
(***************************************************************************)
(* Instances for TLC of what two parties do together over their channels:  *)
(* the set-up of the OT packs (NetSetup), the OT extensions IKNP, KKOT and *)
(* SplitIKNP, the triples that OTs make (BitTriples) and the silent OT     *)
(* (SilentOT).  A behaviour is a session of the one that "on" names; the   *)
(* variables that it does not have stay Off.                               *)
(***************************************************************************)
EXTENDS Bits, Sequences, FiniteSets

VARIABLES on, pc, i, wire,
  program, choice, secret, s, at, epoch, setup, precomp_masks, max_N, c_AND_s, prg, rows,
  kept, data, toAlice, toBob, mine, triples,
  listening, backlog, opened, stream, inbox, reading, job, phase, own, seeds, facing, turns,
  cmd, seed, sender, base, delta, mB, op, treeIndex, chl, recver, messages, calls

noIknp == <<secret, epoch>>
noKkot == <<setup, precomp_masks, max_N, c_AND_s>>
noSplit == <<toAlice, toBob>>
noTriples == <<mine, triples>>
noSetup == <<listening, backlog, opened, stream, inbox, reading, job, phase, own, seeds, facing, turns>>
noSilent == <<cmd, seed, sender, base, delta, mB, op, treeIndex, chl, recver, messages, calls>>
noExtension == <<choice, s, prg, rows, kept, data>>
noCalls == <<program, at>>
vars == <<on, pc, i, wire, noIknp, noKkot, noSplit, noTriples, noSetup, noSilent, noExtension, noCalls>>

Off == "off"
Party == {"ALICE", "BOB"}
TwoColumns == {0, 1}
Pattern(k) == [c \in 1..4 |-> [j \in 0..9 |-> IF k < 2 THEN k ELSE (c + j + j \div 3) % 2]]

------------------------------------------------------------------------------
\* IKNP: words of four bits, two columns, batches of four and two OTs.  Every
\* kind of call after every other, longer than both kinds of batch; lengths
\* about a block and half a batch, set-ups between calls, and empty calls.
IknpHash(pos, flip) ==
  LET v == 5 * pos[1] + 3 * pos[2] + pos[2] * pos[2] + 7 * flip[0] + 9 * flip[1]
  IN  [b \in 0..3 |-> (v \div (2^b)) % 2]
IknpMsg(c, j, k) == [b \in 0..3 |-> ((3 * c + 5 * j + 7 * k + j * k) \div (2^b)) % 2]
IknpCall(kind, length, l) == [op |-> kind, length |-> length, l |-> l]
Kinds == {"block", "got", "cot", "rot", "add"}
IknpPrograms ==
  {<<IknpCall(x, 5, 3), IknpCall(y, 6, 3)>> : x, y \in Kinds}
    \cup {<<IknpCall(x, n, 2), IknpCall("setup", 0, 1), IknpCall(x, 0, 1), IknpCall("got", 3, 1)>> :
            x \in {"got", "cot", "block"}, n \in {1, 2, 3, 4, 8, 9}}
    \cup {<<IknpCall("add", 0, 1), IknpCall("add", n, 2)>> : n \in {1, 4}}
IknpSecrets == {[e \in 1..2 |-> [c \in TwoColumns |-> IF c = (e + k) % 2 THEN 1 ELSE k]] : k \in Bit}
IknpFillers == {[j \in 0..3 |-> j % 2]}

Iknp == INSTANCE IKNP WITH W <- 4, Columns <- TwoColumns, BlockSize <- 4, AES_BATCH_SIZE <- 4,
  Programs <- IknpPrograms, Choices <- {Pattern(0), Pattern(1), Pattern(2)},
  Secrets <- IknpSecrets, Fillers <- IknpFillers, Hash <- IknpHash, Msg <- IknpMsg, MaxEpoch <- 2

------------------------------------------------------------------------------
\* KKOT: code words of four bits, blocks of four rows, batches of two OTs.
\* Three calls with more and fewer messages each, an empty one among them,
\* with the set-up before the first call and within it.
Got(length, N) == [op |-> "got", length |-> length, N |-> N]
KkotPrograms ==
  {first \o <<Got(3, x), Got(len, y), Got(5, z)>> :
     first \in {<<>>, <<[op |-> "setup", length |-> 0, N |-> 2]>>},
     x \in 2..4, y \in 2..4, z \in 2..4, len \in {0, 2}}
KkotChoices == {[c \in 1..4 |-> [j \in 0..4 |-> IF k = 0 THEN 0 ELSE (k + j) % 2]] : k \in 0..1}
KkotSecrets == {[c \in 0..3 |-> 1], [c \in 0..3 |-> IF c = 1 THEN 1 ELSE 0], [c \in 0..3 |-> c % 2]}
KkotFillers == {[j \in 0..3 |-> (2 * j + 3) % 4]}

Kkot == INSTANCE KKOT WITH CodeBits <- 2, BlockSize <- 4, ro_batch_size <- 2,
  Programs <- KkotPrograms, Choices <- KkotChoices, Secrets <- KkotSecrets, Fillers <- KkotFillers

\* Calls of four and three messages, with every pair of choices.
WideChoices ==
  {[c \in 1..2 |-> [j \in 0..2 |-> (x + y * j) % (5 - c)]] : x \in 0..3, y \in 0..3}
KkotWide == INSTANCE KKOT WITH CodeBits <- 2, BlockSize <- 4, ro_batch_size <- 2,
  Programs <- {<<Got(3, 4), Got(2, 3)>>}, Choices <- WideChoices, Secrets <- KkotSecrets,
  Fillers <- KkotFillers

------------------------------------------------------------------------------
\* SplitIKNP: bytes of two bits, words of four, two columns, granules of two
\* rows, blocks of four, batches of eight.
SplitHash(pos, flip, h) ==
  [b \in 0..7 |-> (pos * (b + 1) + (pos \div 2) + flip[0] * (b + 1) + flip[1] * (b \div 2)
                     + h * (b + pos) + b * b) % 2]
SplitMsg(c, j, k) == [b \in 0..3 |-> (c + j * (b + 1) + k + (j \div 2) * b) % 2]
Do(kind, length, lens, msgs) == [op |-> kind, length |-> length, lens |-> lens, msgs |-> msgs]

\* Every kind of call, longer than a batch of each side, after another that
\* ends within a block.
PlainFirst ==
  {Do("words", 3, <<3>>, 1), Do("batched_cot", 2, <<2, 3>>, 2), Do("block", 5, <<1>>, 1)}
PlainThen ==
  {Do("block", 9, <<1>>, 1), Do("words", 9, <<3>>, 1), Do("words", 6, <<4>>, 1),
   Do("bytes", 10, <<1>>, 1), Do("bytes", 7, <<2>>, 1), Do("cot", 9, <<3>>, 1),
   Do("cot", 5, <<4>>, 1)}
\* Batches of one to eight OTs of up to three hash blocks, widths that do and
\* do not fill bytes, one and several widths in a call.
Batched ==
  {<<Do("batched_got", n, <<l>>, m)>> : n \in {1, 3, 5}, l \in {1, 3, 4}, m \in {1, 3, 5}}
    \cup {<<Do("batched_cot", 2 * n, <<l, k>>, m)>> :
            n \in {1, 3}, l \in {1, 4}, k \in {2, 3}, m \in {1, 3, 5}}
    \cup {<<Do("batched_cot", 9, <<3>>, 6)>>, <<Do("batched_cot", 3, <<4, 1, 3>>, 2)>>}
Three == {<<Do("cot", 5, <<3>>, 1), Do("batched_got", 3, <<3>>, 3), Do("bytes", 9, <<1>>, 1)>>,
          <<Do("block", 1, <<1>>, 1), Do("batched_cot", 6, <<3, 2>>, 3), Do("words", 5, <<2>>, 1)>>}

SplitIknp == INSTANCE SplitIKNP WITH ByteW <- 2, W <- 4, Columns <- TwoColumns, BlockSize <- 4,
  Granule <- 2, AES_BATCH_SIZE <- 8,
  Programs <- {<<x, y>> : x \in PlainFirst, y \in PlainThen} \cup Batched \cup Three,
  Choices <- {Pattern(1), Pattern(2)},
  Secrets <- {[c \in TwoColumns |-> IF c = k THEN 1 ELSE 0] : k \in TwoColumns},
  Fillers <- {[j \in 0..3 |-> 1]}, Hash <- SplitHash, Msg <- SplitMsg

------------------------------------------------------------------------------
\* BitTriples: one OT, with every bit BOB may draw; calls in sequence, packed
\* and not, with offsets and a last byte that is not full.
Gen(m, num, packed, offset) == [method |-> m, num |-> num, packed |-> packed, offset |-> offset]
Ots(num, packed) == Gen("16KKOT_to_4OT", num, packed, 1)
Corr(num, packed, offset) == Gen("8KKOT", num, packed, offset)

OneTriple == INSTANCE BitTriples WITH
  Programs <- {<<Ots(2, FALSE)>>, <<Corr(2, FALSE, 1)>>},
  Patterns <- {f \in [0..7 -> Bit] : \A k \in 2..7 : f[k] = 0}
Triples == INSTANCE BitTriples WITH
  Programs <- {<<Corr(8, FALSE, 2), Ots(0, TRUE), Gen("Ideal", 10, FALSE, 1)>>,
               <<Gen("Ideal", 8, TRUE, 1), Corr(16, TRUE, 4)>>,
               <<Ots(8, TRUE), Corr(16, TRUE, 8)>>,
               <<Corr(12, FALSE, 3), Ots(4, FALSE)>>},
  Patterns <- {[k \in 0..15 |-> BitOf(k % 3 = 0)], [k \in 0..15 |-> (k \div 2) % 2]}

------------------------------------------------------------------------------
\* NetSetup: packs of two KKOT instances, two base OTs each, sockets' buffers
\* of two.
Packs == INSTANCE NetSetup WITH KKOT_TYPES <- 2, Lambda <- 2, Order <- 5, Exponents <- {3},
  BufferSize <- 2
\* Every exponent that may be drawn in a group of order five; a 1 is as a 2.
Keys == INSTANCE NetSetup WITH KKOT_TYPES <- 1, Lambda <- 1, Order <- 5,
  Exponents <- {0, 2, 3, 4}, BufferSize <- 2

------------------------------------------------------------------------------
\* SilentOT over the field of four elements: batches of two trees, a code whose
\* rows have one column of the message and two others.  Points that are the
\* same in all trees, spread, and the last; sizes that are and are not powers
\* of two, one to five trees, the flag, the default, and a depth that is too
\* large.
Field == 0..3
Add(x, y) == 2 * (((x \div 2) + (y \div 2)) % 2) + ((x + y) % 2)
Leaf(from, tree, x) == (from + tree * (x + 2) + x * x + 3 * (x \div 2)) % 4
Row(size, n, r) == {r, n + ((3 * r + 1) % (size - n)), n + ((r * r + 2) % (size - n))}
SomePoints(parts, leaves) ==
  {[t \in 0..(parts - 1) |-> (v * t + u) % leaves] : v \in {0, 1}, u \in {0, leaves - 1}}
LastPoint(parts, leaves) == {[t \in 0..(parts - 1) |-> leaves - 1]}
NoiseWeight(size) == IF size < 8 THEN 2 ELSE 3
Command(nn, n, d, flag) == [nn |-> nn, n |-> n, d |-> d, d3_nn5 |-> flag]
NotSet == -1
SilentCommands ==
  {Command(NotSet, 3, 1, FALSE), Command(NotSet, 5, 2, FALSE), Command(NotSet, 7, 2, FALSE),
   Command(2, 0, 2, FALSE), Command(NotSet, 0, 3, TRUE), Command(NotSet, 0, 3, FALSE),
   Command(NotSet, 5, 1, FALSE), Command(NotSet, 2, 3, FALSE)}

Silent == INSTANCE SilentOT WITH DefaultNn <- 2, FlagNn <- 2, FlagDepth <- 2, TreeBatch <- 2,
  Elements <- Field, Zero <- 0, Plus <- Add, Expand <- Leaf, Columns <- Row,
  RegNoiseWeight <- NoiseWeight, Points <- SomePoints, Commands <- SilentCommands, MaxCalls <- 3
SilentFew == INSTANCE SilentOT WITH DefaultNn <- 2, FlagNn <- 2, FlagDepth <- 2, TreeBatch <- 2,
  Elements <- Field, Zero <- 0, Plus <- Add, Expand <- Leaf, Columns <- Row,
  RegNoiseWeight <- NoiseWeight, Points <- LastPoint,
  Commands <- {Command(NotSet, 5, 2, FALSE), Command(NotSet, 4, 1, FALSE)}, MaxCalls <- 3

ASSUME OneTriple!TripleAssumption /\ Triples!TripleAssumption
ASSUME Iknp!IKNPAssumption
ASSUME Kkot!KKOTAssumption /\ KkotWide!KKOTAssumption
ASSUME Kkot!ChoicesFit /\ KkotWide!ChoicesFit
ASSUME SplitIknp!SplitIKNPAssumption
ASSUME Packs!SetupAssumption /\ Keys!SetupAssumption
ASSUME Silent!SilentOTAssumption /\ SilentFew!SilentOTAssumption

------------------------------------------------------------------------------
NoIknp == secret = Off /\ epoch = Off
NoKkot == setup = Off /\ precomp_masks = Off /\ max_N = Off /\ c_AND_s = Off
NoSplit == toAlice = Off /\ toBob = Off
NoTriples == mine = Off /\ triples = Off
NoExtension == choice = Off /\ s = Off /\ prg = Off /\ rows = Off /\ kept = Off /\ data = Off
NoCalls == program = Off /\ at = Off
NoSetup ==
  /\ listening = Off /\ backlog = Off /\ opened = Off /\ stream = Off /\ inbox = Off
  /\ reading = Off /\ job = Off /\ phase = Off /\ own = Off /\ seeds = Off
  /\ facing = Off /\ turns = Off
NoSilent ==
  /\ cmd = Off /\ seed = Off /\ sender = Off /\ base = Off /\ delta = Off /\ mB = Off
  /\ op = Off /\ treeIndex = Off /\ chl = Off /\ recver = Off /\ messages = Off /\ calls = Off

Init ==
  \/ /\ on = "Iknp" /\ Iknp!Init
     /\ s = Off /\ NoKkot /\ NoSplit /\ NoTriples /\ NoSetup /\ NoSilent
  \/ /\ \/ on = "Kkot" /\ Kkot!Init
        \/ on = "KkotWide" /\ KkotWide!Init
     /\ kept = Off /\ NoIknp /\ NoSplit /\ NoTriples /\ NoSetup /\ NoSilent
  \/ /\ on = "SplitIknp" /\ SplitIknp!Init
     /\ wire = Off /\ NoIknp /\ NoKkot /\ NoTriples /\ NoSetup /\ NoSilent
  \/ /\ \/ on = "OneTriple" /\ OneTriple!Init
        \/ on = "Triples" /\ Triples!Init
     /\ pc = Off /\ i = Off
     /\ NoIknp /\ NoKkot /\ NoSplit /\ NoExtension /\ NoSetup /\ NoSilent
  \/ /\ \/ on = "Packs" /\ Packs!Init
        \/ on = "Keys" /\ Keys!Init
     /\ pc = Off /\ wire = Off
     /\ NoIknp /\ NoKkot /\ NoSplit /\ NoTriples /\ NoExtension /\ NoCalls /\ NoSilent
  \/ /\ \/ on = "Silent" /\ Silent!Init
        \/ on = "SilentFew" /\ SilentFew!Init
     /\ i = Off
     /\ NoIknp /\ NoKkot /\ NoSplit /\ NoTriples /\ NoExtension /\ NoCalls /\ NoSetup

IknpFrame == UNCHANGED <<on, s, noKkot, noSplit, noTriples, noSetup, noSilent>>
KkotFrame == UNCHANGED <<on, kept, noIknp, noSplit, noTriples, noSetup, noSilent>>
SplitFrame == UNCHANGED <<on, wire, noIknp, noKkot, noTriples, noSetup, noSilent>>
TripleFrame == UNCHANGED <<on, pc, i, noIknp, noKkot, noSplit, noExtension, noSetup, noSilent>>
SetupFrame ==
  UNCHANGED <<on, pc, wire, noIknp, noKkot, noSplit, noTriples, noExtension, noCalls, noSilent>>
SilentFrame ==
  UNCHANGED <<on, i, noIknp, noKkot, noSplit, noTriples, noExtension, noCalls, noSetup>>

Sender ==
  \/ on = "Iknp" /\ Iknp!Sender /\ IknpFrame
  \/ on = "Kkot" /\ Kkot!Sender /\ KkotFrame
  \/ on = "KkotWide" /\ KkotWide!Sender /\ KkotFrame
  \/ on = "SplitIknp" /\ SplitIknp!Sender /\ SplitFrame
  \/ on = "OneTriple" /\ OneTriple!Alice /\ TripleFrame
  \/ on = "Triples" /\ Triples!Alice /\ TripleFrame
  \/ on = "SilentFew" /\ SilentFew!Sender /\ SilentFrame

Receiver ==
  \/ on = "Iknp" /\ Iknp!Receiver /\ IknpFrame
  \/ on = "Kkot" /\ Kkot!Receiver /\ KkotFrame
  \/ on = "KkotWide" /\ KkotWide!Receiver /\ KkotFrame
  \/ on = "SplitIknp" /\ SplitIknp!Receiver /\ SplitFrame
  \/ on = "OneTriple" /\ OneTriple!Bob /\ TripleFrame
  \/ on = "Triples" /\ Triples!Bob /\ TripleFrame
  \/ on = "SilentFew" /\ SilentFew!Receiver /\ SilentFrame

SetsUp(p) == on = "Packs" /\ Packs!Step(p) /\ SetupFrame
DrawsKeys(p) == on = "Keys" /\ Keys!Step(p) /\ SetupFrame

\* Nothing makes the program of the silent OT call again; "Silent" is about
\* safety only.
Caller == on = "SilentFew" /\ SilentFew!Caller /\ SilentFrame
Transfers == on = "Silent" /\ Silent!Next /\ SilentFrame

Next ==
  \/ Sender \/ Receiver \/ Caller \/ Transfers
  \/ \E p \in Party : SetsUp(p) \/ DrawsKeys(p)
Spec == Init /\ [][Next]_vars
\* Both parties are running processes, as in the modules.
FairSpec ==
  /\ Spec
  /\ WF_vars(Sender) /\ WF_vars(Receiver)
  /\ \A p \in Party : WF_vars(SetsUp(p)) /\ WF_vars(DrawsKeys(p))

------------------------------------------------------------------------------
\* Both ends of an extension hold the same rows, up to s where the receiver
\* chose 1, or up to the code word of its choice and s, however many calls and
\* set-ups came before and although the block of the split extension shrinks
\* from call to call.  The code keeps the pads of the other messages apart.
RowsAgree ==
  /\ on = "Iknp" => Iknp!TypeOK /\ Iknp!RowsAgree
  /\ on = "SplitIknp" => SplitIknp!RowsAgree
  /\ on = "Kkot" => Kkot!Apart
  /\ on = "KkotWide" => KkotWide!Apart

\* Each call gives the receiver what its kind promises, although the two sides
\* cut their loops at different places, calls pack several messages, widths and
\* hash blocks into a batch, and calls with more and fewer messages alternate,
\* which KKOT keeps masks for.
Transferred ==
  /\ on = "Iknp" => Iknp!Transferred
  /\ on = "Kkot" => Kkot!MasksCover /\ Kkot!Transferred
  /\ on = "KkotWide" => KkotWide!MasksCover /\ KkotWide!Transferred
  /\ on = "SplitIknp" => SplitIknp!Transferred

\* The two ends count the same messages: a party never reads what was sent for
\* another step, and nothing is left under way.
InStep ==
  /\ on = "Iknp" => Iknp!InStep
  /\ on = "SplitIknp" => SplitIknp!InStep

\* The arrays both parties have filled are shares of triples, for every index,
\* method, packing and offset; those of the correlated method that lie offset
\* apart share their first factor, so that one opening serves both.
TriplesCorrect ==
  /\ on = "OneTriple" => OneTriple!TriplesCorrect
  /\ on = "Triples" => Triples!TriplesCorrect /\ Triples!SharedFactor

\* What a party reads next is the instance and the step of the base OT that its
\* place in its set-ups asks for, although no message says what it is; when
\* both have synchronised nothing is left unread, and a party that has left
\* sync knows that all instances of both packs of the other are seeded.
ReadsInStep ==
  /\ on = "Packs" => Packs!TypeOK /\ Packs!ReadsInStep /\ Packs!Barrier
  /\ on = "Keys" => Keys!TypeOK /\ Keys!ReadsInStep /\ Keys!Barrier

\* Of each pair of keys of the receiver the sender of an OT instance holds the
\* one that its bit of s names, in the pack that ran the base OTs and in its
\* copy, whatever exponents were drawn.
SeedsMatch ==
  /\ on = "Packs" => Packs!SeedsMatch
  /\ on = "Keys" => Keys!SeedsMatch

\* The receiver of the silent OT has the message of its choice and not the
\* other, for sizes that are no power of two and a last batch of fewer trees,
\* and any of the sender's calls leaves the code word of all leaves of all trees.
Agree ==
  /\ on = "Silent" => Silent!Agree /\ Silent!Computes
  /\ on = "SilentFew" => SilentFew!Agree /\ SilentFew!Computes

\* The sums of one expansion at most are ever sent under the keys of a set-up:
\* after any of the four calls, the one that leaves its base OTs in place
\* included, those that send do so once.
KeysOnce ==
  /\ on = "Silent" => Silent!KeysOnce
  /\ on = "SilentFew" => SilentFew!KeysOnce

\* The trees have the leaves of the code, and their depth room for them.
Covers ==
  /\ on = "Silent" => Silent!Covers
  /\ on = "SilentFew" => SilentFew!Covers

\* Both parties come to the end of every session, and leave nothing under way;
\* the set-up ends for both, whichever is started first, and after every call
\* of the silent OT both are out of it again.
Extensions == {"Iknp", "Kkot", "KkotWide", "SplitIknp", "OneTriple", "Triples"}
Ended(p) == at[p] = Len(program) + 1
NothingLeft ==
  /\ on \in {"Iknp", "Kkot", "KkotWide"} => wire = [p \in Party |-> <<>>]
  /\ on = "SplitIknp" => toAlice = <<>> /\ toBob = <<>>
  /\ on \in {"OneTriple", "Triples"} => wire = <<>>
Over ==
  /\ on \in Extensions => NothingLeft /\ \A p \in Party : Ended(p)
  /\ on \in {"Packs", "Keys"} => \A p \in Party : phase[p] = "synced"
  /\ on = "SilentFew" => pc = "idle" /\ recver.pc # "expand"
Termination == []<>Over
=============================================================================
