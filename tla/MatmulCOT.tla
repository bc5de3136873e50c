----------------------------- MODULE MatmulCOT ------------------------------
(***************************************************************************)
(* cot_send_post_matmul and cot_recv_post_matmul (iknp.h): correlated OTs  *)
(* whose OTs carry any number of chunks of any width.  Both sides gather   *)
(* OTs until a batch of bytes is full, by the same count, and the receiver *)
(* keeps the hashes of the OTs it has gathered until their bytes arrive.   *)
(*                                                                         *)
(* The rows are those of IKNP: Pad(i, k, b) is byte b of the hashes of     *)
(* row i (k = 0) or of that row ^ s (k = 1); the receiver has the pad of   *)
(* its choice.  Arrays keep what earlier OTs left in them.                 *)
(***************************************************************************)
EXTENDS Words, Sequences

CONSTANTS
  ByteW,      \* bits of a byte
  WordBytes,  \* bytes of a word
  Batch,      \* AES_BATCH_SIZE, in blocks of two words
  Dims,       \* senderMatmulDims
  Slack,      \* 10 in the code: blocks added to both buffers
  Shapes,     \* sequences of [size, chunks]: chunkSizes and numChunks
  Corrs,      \* corr, as a function of OT and chunk
  ChoiceSets, \* the receiver's choices
  Pad(_, _, _)

W == ByteW * WordBytes
BlockBytes == 2 * WordBytes
BlockBits == ByteW * BlockBytes

\* A comment takes numChunks to be bounded by senderMatmulDims; an OT of no
\* chunks would need no message at all.
MatmulAssumption ==
  /\ {ByteW, WordBytes, Batch} \subseteq Nat \ {0} /\ {Dims, Slack} \subseteq Nat
  /\ \A shape \in Shapes : /\ shape \in Seq([size : 1..W, chunks : 1..Dims])
                           /\ shape # <<>>

VARIABLES
  shape, corr, choices,
  i,           \* the loop variable of the sender
  corrHashArr, \* its scratch array, kept between OTs
  buffer,      \* dataToBeSent up to dataToBeSentByteAlignedPtr
  rdata,
  wire,        \* the bytes under way
  j,           \* the loop variable of the receiver
  pc,          \* its place: "hash", "recv" or "done"
  hashesStored, hashesStoredPtr, expected, otDataStartCtr,
  dataToBeRecvd,
  data

inputs == <<shape, corr, choices>>
senderVars == <<i, corrHashArr, buffer, rdata>>
receiverVars == <<j, pc, hashesStored, hashesStoredPtr, expected, otDataStartCtr,
                  dataToBeRecvd, data>>
vars == <<inputs, senderVars, receiverVars, wire>>

numOTs == Len(shape)
Bits(o) == shape[o].size * shape[o].chunks
curNumHashes(o) == CeilDiv(Bits(o), BlockBits)
BytesOf(o) == CeilDiv(Bits(o), ByteW)

\* How much the OTs from..(to - 1) come to.
Total(amount(_), from, to) ==
  LET t[o \in from..to] == IF o = from THEN 0 ELSE t[o - 1] + amount(o - 1)
  IN  t[to]

maxHashes ==
  LET m[o \in 0..numOTs] ==
        IF o = 0 THEN 0 ELSE IF curNumHashes(o) > m[o - 1] THEN curNumHashes(o) ELSE m[o - 1]
  IN  m[numOTs]

SendBlocksBare == Batch + (Dims \div 2)
SendBlocks == Batch + (Dims \div 2) + Slack
StoreBlocks == SendBlocks + numOTs

JunkByte == [b \in 0..(ByteW - 1) |-> 1]
Junk(bytes) == [b \in 0..(bytes - 1) |-> JunkByte]
XorBytes(x, y) == XorWord(x, y)

Init ==
  /\ shape \in Shapes
  /\ corr \in Corrs
  /\ choices \in {c \in ChoiceSets : Len(c) >= Len(shape)}
  /\ i = 1 /\ buffer = <<>> /\ rdata = <<>> /\ wire = <<>>
  /\ corrHashArr = Junk((maxHashes + 1) * BlockBytes)
  /\ j = 1 /\ pc = "hash"
  /\ hashesStored = Junk(StoreBlocks * BlockBytes)
  /\ hashesStoredPtr = 0 /\ expected = 0 /\ otDataStartCtr = 1
  /\ dataToBeRecvd = Junk(SendBlocks * BlockBytes)
  /\ data = <<>>

\* Either enough data is gathered or this is the last OT.
Full(bytes, o) == bytes >= Batch * BlockBytes \/ o = numOTs
\* The receiver's count of the same.
RecvFull(bytes, o) == bytes >= Batch * BlockBytes \/ o = numOTs

\* hashArr: H(q), H(q ^ s) and the spare block.
HashArr(o) ==
  [b \in 0..((2 * curNumHashes(o) + 1) * BlockBytes - 1) |->
     IF b < curNumHashes(o) * BlockBytes THEN Pad(o, 0, b)
     ELSE IF b < 2 * curNumHashes(o) * BlockBytes
     THEN Pad(o, 1, b - curNumHashes(o) * BlockBytes) ELSE JunkByte]

RandVal(o, k) == ReadPacked(ByteW, WordBytes, HashArr(o), (k - 1) * shape[o].size, shape[o].size)
FinalVal(o, k) == Low(AddWord(W, RandVal(o, k), corr[o][k]), shape[o].size)

\* writeToPackedArr of every chunk.
Packed(o) ==
  LET p[k \in 0..shape[o].chunks] ==
        IF k = 0 THEN corrHashArr
        ELSE WritePacked(ByteW, WordBytes, p[k - 1], (k - 1) * shape[o].size, FinalVal(o, k))
  IN  p[shape[o].chunks]

SendOT ==
  LET packed == Packed(i)
      gathered == buffer \o [b \in 1..BytesOf(i) |->
                    XorBytes(packed[b - 1], HashArr(i)[curNumHashes(i) * BlockBytes + b - 1])]
  IN  /\ i <= numOTs
      /\ corrHashArr' = packed
      /\ rdata' = Append(rdata, [k \in 1..shape[i].chunks |-> RandVal(i, k)])
      /\ IF Full(Len(gathered), i) THEN wire' = wire \o gathered /\ buffer' = <<>>
         ELSE buffer' = gathered /\ UNCHANGED wire
      /\ i' = i + 1
      /\ UNCHANGED <<inputs, receiverVars>>

\* The receiver's hashes of OT j are stored behind those of the OTs it has
\* gathered.
HashOT ==
  /\ pc = "hash" /\ j <= numOTs
  /\ hashesStored' = [b \in DOMAIN hashesStored |->
       LET at == b - hashesStoredPtr * BlockBytes
       IN  IF at \in 0..(curNumHashes(j) * BlockBytes - 1) THEN Pad(j, choices[j], at)
           ELSE hashesStored[b]]
  /\ hashesStoredPtr' = hashesStoredPtr + curNumHashes(j)
  /\ expected' = expected + BytesOf(j)
  /\ IF RecvFull(expected + BytesOf(j), j) THEN pc' = "recv" /\ UNCHANGED j
     ELSE j' = j + 1 /\ UNCHANGED pc
  /\ UNCHANGED <<inputs, senderVars, otDataStartCtr, dataToBeRecvd, data, wire>>

\* Where the hashes and the bytes of OT o start: each OT starts on a byte.
HashStart(o) == Total(curNumHashes, otDataStartCtr, o) * BlockBytes
ByteStartTight(o) == Total(Bits, otDataStartCtr, o) \div ByteW
ByteStart(o) == Total(BytesOf, otDataStartCtr, o)

\* The bytes of OT o: whole blocks are xored, into those of the next OT.
Opened(o, received) ==
  LET hashes == HashStart(o)
      bytes == ByteStart(o)
      whole == curNumHashes(o) * BlockBytes
      stored(at) == IF at \in DOMAIN hashesStored THEN hashesStored[at] ELSE JunkByte
  IN  [b \in 0..(whole + WordBytes) |->
         IF choices[o] = 1 /\ b < whole
         THEN XorBytes(stored(hashes + b), received[bytes + b]) ELSE stored(hashes + b)]

RecvBatch ==
  LET received == [b \in DOMAIN dataToBeRecvd |->
                     IF b < expected THEN wire[b + 1] ELSE dataToBeRecvd[b]]
      batch == otDataStartCtr..j
      opened == [o \in batch |-> Opened(o, received)]
      place == [o \in batch |-> HashStart(o)..(HashStart(o) + curNumHashes(o) * BlockBytes - 1)]
      values(o) == [k \in 1..shape[o].chunks |->
        ReadPacked(ByteW, WordBytes, opened[o], (k - 1) * shape[o].size, shape[o].size)]
  IN  /\ pc = "recv" /\ Len(wire) >= expected
      /\ wire' = SubSeq(wire, expected + 1, Len(wire))
      /\ dataToBeRecvd' = received
      /\ hashesStored' = [b \in DOMAIN hashesStored |->
           IF \E o \in batch : b \in place[o]
           THEN LET o == CHOOSE o \in batch : b \in place[o]
                IN  opened[o][b - HashStart(o)]
           ELSE hashesStored[b]]
      /\ data' = data \o [o \in 1..(j - otDataStartCtr + 1) |-> values(otDataStartCtr + o - 1)]
      /\ otDataStartCtr' = j + 1
      /\ expected' = 0
      /\ hashesStoredPtr' = 0
      /\ j' = j + 1
      /\ pc' = IF j = numOTs THEN "done" ELSE "hash"
      /\ UNCHANGED <<inputs, senderVars>>

Receiver == HashOT \/ RecvBatch
Next == SendOT \/ Receiver
Spec == Init /\ [][Next]_vars
FairSpec == Spec /\ WF_vars(SendOT) /\ WF_vars(Receiver)

------------------------------------------------------------------------------
\* No index leaves its array: the bytes of a batch and the block that is read
\* past its last OT lie in the buffers of both sides, the hashes gathered in
\* the receiver's, and the word written for a chunk in the scratch array.
InBounds ==
  /\ Len(buffer) <= SendBlocks * BlockBytes
  /\ expected <= SendBlocks * BlockBytes
  /\ hashesStoredPtr <= StoreBlocks
  /\ pc = "recv" => \A o \in otDataStartCtr..j :
       ByteStart(o) + curNumHashes(o) * BlockBytes <= SendBlocks * BlockBytes
  /\ i <= numOTs => \A k \in 1..shape[i].chunks :
       ((k - 1) * shape[i].size) \div ByteW + WordBytes \in DOMAIN corrHashArr

\* The assertions of the receiver, and what its batches leave: the stored
\* hashes are exactly those of the OTs of the batch.
Assertions ==
  /\ pc = "recv" => /\ otDataStartCtr <= j
                    /\ HashStart(j + 1) = hashesStoredPtr * BlockBytes
                    /\ ByteStart(j + 1) = expected
  /\ pc = "done" => otDataStartCtr = numOTs + 1 /\ wire = <<>> /\ buffer = <<>>

\* What the two parties obtain is what the ideal correlated OT gives them.
Ideal == INSTANCE IdealCOT
ImplementsIdeal == Ideal!Spec

\* The receiver's last batch arrives.
Termination == <>(pc = "done")
=============================================================================
