------------------------------- MODULE MCData -------------------------------
(***************************************************************************)
(* Instances for TLC of what one program does with its memory: the modules *)
(* about arrays (Packing, Transpose, MatmulCOT, PadBatches and Prg), those *)
(* about the codes of the silent OT (ExConv, ExConvModd), and the threads  *)
(* of the pool (Pool) and of the program that looks for codes              *)
(* (ExConvChecker).  A behaviour is one call of the one that "on" names;   *)
(* the variables that it does not have stay Off.                           *)
(***************************************************************************)
EXTENDS Bits, Sequences, FiniteSets

VARIABLES on,
  pad, r, y, i, j, out, stage, buffer, wire, data, key, pc,  \* of more than one module
  kind, n, bsize, msg,
  nrows, ncols, rr, cc, part,
  shape, corr, choices, corrHashArr, rdata, hashesStored, hashesStoredPtr, expected,
  otDataStartCtr, dataToBeRecvd,
  length, si, ri,
  counter, stream, whole,
  cfg, input, e, w, pass, iter, refills, regs, unis,
  seed, modVal, vals, idx, given,
  cmd, weights, min, seen, mtx, done, gMin, avg, main,
  tasks, stop, mutex, sleeping, task, todo, accepted, finished, spurious

onlyPacking == <<kind, n, bsize, msg>>
onlyTranspose == <<nrows, ncols, rr, cc, part>>
onlyMatmul == <<shape, corr, choices, corrHashArr, rdata, hashesStored, hashesStoredPtr,
                expected, otDataStartCtr, dataToBeRecvd>>
onlyPads == <<length, si, ri>>
onlyPrg == <<counter, stream, whole>>
onlyCode == <<cfg, input, e, w, pass, iter, refills, regs, unis>>
onlyModd == <<seed, modVal, vals, idx, given>>
onlyChecker == <<cmd, weights, min, seen, mtx, done, gMin, avg, main>>
onlyPool == <<tasks, stop, mutex, sleeping, task, todo, accepted, finished, spurious>>
arrayVars == <<onlyPacking, onlyTranspose, onlyMatmul, onlyPads, onlyPrg>>
codeVars == <<onlyCode, onlyModd>>
threadVars == <<onlyChecker, onlyPool>>
vars == <<on, pad, r, y, i, j, out, stage, buffer, wire, data, key, pc,
          arrayVars, codeVars, threadVars>>

Off == "off"

------------------------------------------------------------------------------
\* Packing: words of eight bits, bytes of four.  Three words that differ at
\* both ends and in the middle, in three orders, and a batch of ones.
PackWord(k) ==
  [b \in 0..7 |-> CASE k = 0 -> BitOf(b % 3 = 0)
                    [] k = 1 -> BitOf(b \in {0, 7, 5})
                    [] k = 2 -> BitOf(b \in 1..4)
                    [] OTHER -> 1]
PackTapes == {[q \in 0..5 |-> PackWord((q + shift) % 3)] : shift \in 0..2}
               \cup {[q \in 0..5 |-> PackWord(3)]}
Pack == INSTANCE Packing WITH W <- 8, ByteW <- 4, MaxBatch <- 3, Tapes <- PackTapes

\* Transpose: every way out of its loops, with no remainder, with one that
\* pairs fill and with one that needs the last block.
Trans == INSTANCE Transpose WITH Modulus <- 65536,
  Sizes <- ({16, 24, 32, 40} \X {16, 24, 32, 40}) \cup {<<16, 8>>, <<32, 8>>}

\* MatmulCOT: bytes of two bits, words of two bytes, blocks of four.  OTs of
\* several shapes, and many small ones, whose last block is nearly empty.
MatPad(o, k, b) == [x \in 0..1 |-> (o + 2 * k + b * b + x * (o + b + k)) % 2]
OT(size, chunks) == [size |-> size, chunks |-> chunks]
OTs == {OT(1, 1), OT(3, 1), OT(3, 3), OT(4, 3), OT(4, 2), OT(2, 2)}
ShapesOfThree == {<<a, b, c>> : a, b, c \in OTs} \cup {<<a>> : a \in OTs}
ShapesOfMany == {[o \in 1..m |-> OT(size, 1)] : m \in {7, 9}, size \in {1, 3}}
Corr == [o \in 1..9 |-> [c \in 1..3 |-> [x \in 0..3 |-> (o + c + 2 * x) % 2]]]
Rotating == {[o \in 1..9 |-> (o + k) % 2] : k \in {0, 1}} \cup {[o \in 1..9 |-> 1]}
Matmul == INSTANCE MatmulCOT WITH ByteW <- 2, WordBytes <- 2, Batch <- 1, Dims <- 3, Slack <- 1,
  Shapes <- ShapesOfThree, Corrs <- {Corr}, ChoiceSets <- Rotating, Pad <- MatPad
Many == INSTANCE MatmulCOT WITH ByteW <- 2, WordBytes <- 2, Batch <- 1, Dims <- 3, Slack <- 1,
  Shapes <- ShapesOfMany, Corrs <- {Corr}, ChoiceSets <- Rotating, Pad <- MatPad

\* PadBatches: from no OT to three batches, groups longer than a batch of the
\* receiver and shorter than one of the sender.
Pads == INSTANCE PadBatches WITH N <- 2, BatchSize <- 3, Lanes <- 4, Lengths <- 0..8

\* Prg: two generators of one seed, batches of three blocks of two bytes.
Stream == INSTANCE Prg WITH Gens <- {"alice", "bob"}, Seeds <- {"seed"}, Ids <- {0, 1},
  AesBatch <- 3, BlockBytes <- 2, Requests <- {0, 1, 4, 7}, MaxBlocks <- 5

------------------------------------------------------------------------------
\* ExConv over the field of four elements: bytes of two bits, groups of two
\* outputs, a buffer of five bytes.  Sizes from one more than the accumulator
\* to several buffers, widths that are and are not whole bytes, weights that
\* leave columns out of the regions.
Field == 0..3
Add(x, z) == 2 * (((x \div 2) + (z \div 2)) % 2) + ((x + z) % 2)
Multiply(x) == IF x = 0 THEN 0 ELSE (x % 3) + 1
Coefficient(p, byte, bit) == (p + byte * (bit + 1) + (byte \div 3) + bit) % 2
Uniform(m, t) == (5 * t + t * t + (t \div 3)) % m
Regular(m, t) == (7 * t + (t * t) + 1 + (t \div 2)) % m
Vectors(size) == {[q \in 0..(size - 1) |-> (3 * q + q * q + v * (q + 1)) % 4] : v \in {0, 1}}
CodeConfigs ==
  {[k |-> k, n |-> 2 * k + x, bw |-> bw, aw |-> aw, sys |-> sys, reg |-> rg, twice |-> twice] :
     k \in {5, 6}, x \in {0, 3}, bw \in {3, 4}, aw \in {0, 2, 3, 4}, sys \in BOOLEAN,
     rg \in BOOLEAN, twice \in BOOLEAN}

Code == INSTANCE ExConv WITH Elements <- Field, Zero <- 0, Plus <- Add, MulConst <- Multiply,
  ByteW <- 2, Lanes <- 2, BufferBytes <- 5, U64 <- 4096, Configs <- CodeConfigs,
  Inputs <- Vectors, Coeff <- Coefficient, UniDraw <- Uniform, RegDraw <- Regular

\* ExConvModd: buffers of four blocks mixed two at a time, words below 16.
Buffers == {[x \in 0..3 |-> <<(3 * x + s) % 16, (5 * x + s * s) % 16>>] : s \in {1, 6}}
MixBlock(b, k) == <<(b[1] + 3 * k[2] + 1) % 16, ((b[2] * 3) + k[1]) % 16>>

Modd == INSTANCE ExConvModd WITH U64 <- 16, Lanes <- 2, Blocks <- 4, Group <- 4, Seeds <- Buffers,
  ModVals <- {1, 2, 3, 5, 7, 8}, Mix <- MixBlock, MaxGets <- 25

------------------------------------------------------------------------------
\* ExConvChecker: batches of two columns, codes of two and three rows, and
\* fewer, as many and more trials than threads.
CheckedRow(size, trial, row) ==
  {c \in 0..(size - 1) : (c * c + c * (trial + 1) + (row + 1) * (c \div 2) + trial) % 3 # 1}
Find(k, threads, tr, pairs) == [k |-> k, nt |-> threads, trials |-> tr, x2 |-> pairs]
Finds ==
  {Find(k, threads, tr, pairs) : k \in {2, 3}, threads \in {1, 2}, tr \in 1..3, pairs \in BOOLEAN}
    \cup {Find(2, 3, tr, FALSE) : tr \in {2, 3, 4}}
FewFinds == {Find(2, threads, tr, pairs) : threads \in {2, 3}, tr \in {2, 3}, pairs \in BOOLEAN}

Checker == INSTANCE ExConvChecker WITH Commands <- Finds, BatchSize <- 2, ByteW <- 2,
  Row <- CheckedRow
CheckerFew == INSTANCE ExConvChecker WITH Commands <- FewFinds, BatchSize <- 2, ByteW <- 2,
  Row <- CheckedRow

\* Pool: two workers; two tasks that the owner posts, the first of which posts
\* two.
Workers == {"w1", "w2"}
Jobs == {"a", "b", "a1", "a2"}
Threads == INSTANCE Pool WITH Workers <- Workers, Tasks <- Jobs, Posted <- <<"a", "b">>,
  Children <- [x \in Jobs |-> IF x = "a" THEN <<"a1", "a2">> ELSE <<>>], MaxSpurious <- 2

ASSUME Pack!PackingAssumption /\ Trans!TransposeAssumption
ASSUME Matmul!MatmulAssumption /\ Many!MatmulAssumption
ASSUME Pads!PadAssumption /\ Stream!PrgAssumption
ASSUME Code!ExConvAssumption /\ Code!AccumulatorFits /\ Modd!ExConvModdAssumption
ASSUME Checker!ExConvCheckerAssumption /\ CheckerFew!ExConvCheckerAssumption
ASSUME Threads!PoolAssumption

------------------------------------------------------------------------------
NoPacking == kind = Off /\ n = Off /\ bsize = Off /\ msg = Off
NoTranspose == nrows = Off /\ ncols = Off /\ rr = Off /\ cc = Off /\ part = Off
NoMatmul ==
  /\ shape = Off /\ corr = Off /\ choices = Off /\ corrHashArr = Off /\ rdata = Off
  /\ hashesStored = Off /\ hashesStoredPtr = Off /\ expected = Off
  /\ otDataStartCtr = Off /\ dataToBeRecvd = Off
NoPads == length = Off /\ si = Off /\ ri = Off
NoPrg == counter = Off /\ stream = Off /\ whole = Off
NoArrays == NoPacking /\ NoTranspose /\ NoMatmul /\ NoPads /\ NoPrg
NoCode ==
  /\ cfg = Off /\ input = Off /\ e = Off /\ w = Off /\ pass = Off
  /\ iter = Off /\ refills = Off /\ regs = Off /\ unis = Off
NoModd == seed = Off /\ modVal = Off /\ vals = Off /\ idx = Off /\ given = Off
NoCodes == NoCode /\ NoModd
NoChecker ==
  /\ cmd = Off /\ weights = Off /\ min = Off /\ seen = Off /\ mtx = Off
  /\ done = Off /\ gMin = Off /\ avg = Off /\ main = Off
NoPool ==
  /\ tasks = Off /\ stop = Off /\ mutex = Off /\ sleeping = Off /\ task = Off
  /\ todo = Off /\ accepted = Off /\ finished = Off /\ spurious = Off
NoThreads == NoChecker /\ NoPool

InitArrays ==
  \/ /\ on = "Pack" /\ Pack!Init
     /\ NoTranspose /\ NoMatmul /\ NoPads /\ NoPrg
     /\ j = Off /\ buffer = Off /\ wire = Off /\ data = Off /\ key = Off /\ pc = Off
  \/ /\ on = "Trans" /\ Trans!Init
     /\ NoPacking /\ NoMatmul /\ NoPads /\ NoPrg /\ pad = Off /\ r = Off /\ y = Off /\ i = Off
     /\ j = Off /\ stage = Off /\ buffer = Off /\ wire = Off /\ data = Off /\ key = Off /\ pc = Off
  \/ /\ \/ on = "Matmul" /\ Matmul!Init
        \/ on = "Many" /\ Many!Init
     /\ NoPacking /\ NoTranspose /\ NoPads /\ NoPrg /\ pad = Off /\ r = Off /\ y = Off
     /\ out = Off /\ stage = Off /\ key = Off
  \/ /\ on = "Pads" /\ Pads!Init
     /\ NoPacking /\ NoTranspose /\ NoMatmul /\ NoPrg
     /\ i = Off /\ j = Off /\ out = Off /\ stage = Off /\ buffer = Off /\ pc = Off
  \/ /\ on = "Stream" /\ Stream!Init
     /\ NoPacking /\ NoTranspose /\ NoMatmul /\ NoPads /\ pad = Off /\ r = Off /\ y = Off
     /\ i = Off /\ j = Off /\ out = Off /\ stage = Off /\ buffer = Off /\ wire = Off
     /\ data = Off /\ pc = Off

NoArrayBuffers ==
  pad = Off /\ r = Off /\ y = Off /\ out = Off /\ wire = Off /\ data = Off /\ key = Off
InitCodes ==
  \/ /\ on = "Code" /\ Code!Init
     /\ NoModd /\ j = Off /\ buffer = Off /\ pc = Off
  \/ /\ on = "Modd" /\ Modd!Init
     /\ NoCode /\ i = Off /\ j = Off /\ stage = Off /\ pc = Off
InitThreads ==
  \/ /\ \/ on = "Checker" /\ Checker!Init
        \/ on = "CheckerFew" /\ CheckerFew!Init
     /\ NoPool /\ stage = Off /\ buffer = Off
  \/ /\ on = "Threads" /\ Threads!Init
     /\ NoChecker /\ i = Off /\ j = Off /\ stage = Off /\ buffer = Off

Init ==
  \/ InitArrays /\ NoCodes /\ NoThreads
  \/ InitCodes /\ NoArrays /\ NoArrayBuffers /\ NoThreads
  \/ InitThreads /\ NoArrays /\ NoArrayBuffers /\ NoCodes

Packs ==
  /\ on = "Pack" /\ Pack!Next
  /\ UNCHANGED <<on, onlyTranspose, onlyMatmul, onlyPads, onlyPrg, codeVars, threadVars,
                 j, buffer, wire, data, key, pc>>
Transposes ==
  /\ on = "Trans" /\ Trans!Next
  /\ UNCHANGED <<on, onlyPacking, onlyMatmul, onlyPads, onlyPrg, codeVars, threadVars,
                 pad, r, y, i, j, stage, buffer, wire, data, key, pc>>
MatmulFrame ==
  UNCHANGED <<on, onlyPacking, onlyTranspose, onlyPads, onlyPrg, codeVars, threadVars,
              pad, r, y, out, stage, key>>
MatmulNext == on = "Matmul" /\ Matmul!Next /\ MatmulFrame
ManySend == on = "Many" /\ Many!SendOT /\ MatmulFrame
ManyReceive == on = "Many" /\ Many!Receiver /\ MatmulFrame
Masks ==
  /\ on = "Pads" /\ Pads!Next
  /\ UNCHANGED <<on, onlyPacking, onlyTranspose, onlyMatmul, onlyPrg, codeVars, threadVars,
                 i, j, out, stage, buffer, pc>>
Draws ==
  /\ on = "Stream" /\ Stream!Next
  /\ UNCHANGED <<on, onlyPacking, onlyTranspose, onlyMatmul, onlyPads, codeVars, threadVars,
                 pad, r, y, i, j, out, stage, buffer, wire, data, pc>>

arrayBuffers == <<pad, r, y, out, wire, data, key>>
Encodes ==
  /\ on = "Code" /\ Code!Next
  /\ UNCHANGED <<on, arrayVars, arrayBuffers, onlyModd, threadVars, j, buffer, pc>>
Gives ==
  /\ on = "Modd" /\ Modd!Next
  /\ UNCHANGED <<on, arrayVars, arrayBuffers, onlyCode, threadVars, i, j, stage, pc>>

CheckerFrame == UNCHANGED <<on, arrayVars, arrayBuffers, codeVars, onlyPool, stage, buffer>>
Checks == on = "Checker" /\ Checker!Next /\ CheckerFrame
Counts(t) == on = "CheckerFew" /\ t < cmd.nt /\ CheckerFew!Thread(t) /\ CheckerFrame
Ends == on = "CheckerFew" /\ (CheckerFew!EndPoll \/ CheckerFew!Report) /\ CheckerFrame

PoolFrame == UNCHANGED <<on, arrayVars, arrayBuffers, codeVars, onlyChecker, i, j, stage, buffer>>
Runs(t) == on = "Threads" /\ Threads!Step(t) /\ PoolFrame
Destroy == on = "Threads" /\ Threads!Destroy /\ PoolFrame
Spurious(t) == on = "Threads" /\ Threads!Spurious(t) /\ PoolFrame

Next ==
  \/ Packs \/ Transposes \/ MatmulNext \/ ManySend \/ ManyReceive \/ Masks \/ Draws
  \/ Encodes \/ Gives \/ Checks \/ Ends \/ Destroy
  \/ \E t \in 0..2 : Counts(t)
  \/ \E t \in Workers \cup {"owner"} : Runs(t)
  \/ \E t \in Workers : Spurious(t)
Spec == Init /\ [][Next]_vars
\* The two parties of MatmulCOT are running processes, the threads of the
\* checker and of the pool running threads; no wake-up is owed to a sleeping
\* worker.
FairSpec ==
  /\ Spec
  /\ WF_vars(ManySend) /\ WF_vars(ManyReceive)
  /\ \A t \in 0..2 : WF_vars(Counts(t))
  /\ WF_vars(Ends)
  /\ \A t \in Workers \cup {"owner"} : WF_vars(Runs(t))
  /\ WF_vars(Destroy)

------------------------------------------------------------------------------
\* A packed array is the concatenation of its n-bit values at every point of
\* the loop, within the size that its callers round up once for the batch, and
\* a receiver unpacks the low n bits of exactly the message it chose.
RoundTrip == on = "Pack" => Pack!Concatenation /\ Pack!InBounds /\ Pack!RoundTrip

\* At the end every bit has moved to its mirror place, through the hand-over
\* from sixteen rows at a time to the pairs and the last block, and no block
\* read or written on the way lies outside the matrix.
Transposed == on = "Trans" => Trans!InsideMatrix /\ Trans!Transposed

\* The receiver's batches of the matmul COT cut the stream of bytes where the
\* sender's do, as its assertions say, and no index of the two loops leaves its
\* buffer, the block read past the last OT of a batch included.
BatchesFit ==
  /\ on = "Matmul" => Matmul!InBounds /\ Matmul!Assertions
  /\ on = "Many" => Many!InBounds /\ Many!Assertions

\* What the two parties of the matmul COT obtain is what the ideal correlated
\* OT gives them, and they do obtain it: the receiver's last batch arrives.
ImplementsIdeal ==
  /\ on = "Matmul" => Matmul!Ideal!Init
  /\ on = "Many" => Many!Ideal!Init
  /\ [][/\ on = "Matmul" => [Matmul!Ideal!Next]_(Matmul!Ideal!vars)
        /\ on = "Many" => [Many!Ideal!Next]_(Many!Ideal!vars)]_vars
  /\ <>(on = "Many" => pc = "done")

\* The receiver has the messages it chose, although the two sides hash a row in
\* groups of another size, and every message on the wire is hidden by the pad
\* of its own row and choice, and by nothing the batch before left in the buffers.
ChosenDelivered == on = "Pads" => Pads!ChosenDelivered /\ Pads!OwnMask

\* Two generators keyed alike read the same bytes in the same order, however
\* many each asks for at a time and however they are cut into batches, each
\* block of which is encrypted once; and between two calls of reseed no block
\* is handed out twice, not even in part, whatever calls are mixed.
SameStream ==
  on = "Stream" =>
    Stream!TypeOK /\ Stream!EncryptedOnce /\ Stream!NeverRepeats /\ Stream!SameStream

\* Row by row the accumulator does what the test computes with a remainder for
\* every position, across range checks, wraps and refills, and no index leaves
\* its array, as long as the code is longer than the accumulator; dualEncode is
\* the test's expansion of that.  For codes that are not regular, getMatrix lists
\* the columns that the expander adds; nothing is claimed of it for regular ones.
Encoded == on = "Code" => Code!InBounds /\ Code!Accumulates /\ Code!Encodes /\ Code!MatrixAgrees

\* The repository's copy of the generator of the expander's columns gives each
\* of its words once around a refill, reduced to an index of the code whichever
\* way it is reduced.
WholeStream == on = "Modd" => Modd!IndicesFit /\ Modd!WholeStream

\* What the checker prints is the minimum and the sum over all trials, each
\* taken once however the threads share and merge them, and its poll loop ends
\* only when every batch and pair of every trial is counted.
ReportedMin ==
  /\ on = "Checker" => Checker!ReportedMin /\ Checker!CountedAll
  /\ on = "CheckerFew" => CheckerFew!ReportedMin /\ CheckerFew!CountedAll

\* No worker sleeps for good while a task waits or the pool is stopped.
NoLostWakeup == on = "Threads" => Threads!TypeOK /\ Threads!NoLostWakeup

\* The destructor returns only after every accepted task has run, those
\* accepted from a task while it waited included.
AllRun == on = "Threads" => Threads!AllRun

\* The checker reports, for codes of whole batches, and the destructor of the
\* pool returns.
Finishes ==
  <>(/\ on = "CheckerFew" => main = "reported"
     /\ on = "Threads" => pc["owner"] = "returned")
=============================================================================
