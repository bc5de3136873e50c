-------------------------------- MODULE Prg ---------------------------------
(***************************************************************************)
(* PRG128 of prg.h: AES in counter mode, drawn from in pieces.  The OT     *)
(* extensions give both parties a generator of the same seed and rely on   *)
(* both reading the same stream although they draw it in pieces of         *)
(* different sizes.  AES is symbolic: a block is its counter with its key  *)
(* and how often it was encrypted.  PRG256 has the same calls, word for    *)
(* word, over a cipher with longer keys.                                   *)
(***************************************************************************)
EXTENDS Bits, Sequences, FiniteSets

CONSTANTS
  Gens,       \* the generators, for instance one of each party
  Seeds,      \* the seeds they may be given
  Ids,        \* the ids a seed is combined with
  AesBatch,   \* AES_BATCH_SIZE, in blocks
  BlockBytes, \* bytes of a block
  Requests,   \* how many bytes, or blocks, a call may ask for
  MaxBlocks   \* a bound on the blocks drawn between two calls of reseed

PrgAssumption ==
  /\ AesBatch \in Nat \ {0}
  /\ BlockBytes \in Nat \ {0}
  /\ Requests \subseteq Nat
  /\ MaxBlocks \in Nat

VARIABLES
  key,     \* of each generator, the seed xor id it was keyed with
  counter, \* the next counter of each generator
  stream,  \* history: the pieces of blocks handed out since reseed
  whole    \* history: only whole blocks were asked for since reseed

vars == <<key, counter, stream, whole>>

-----------------------------------------------------------------------------
\* random_block: which runs of the array [0, n) are encrypted, as first block
\* and number of blocks: batches while more than one is left, then the rest.
Batches(n) == IF n <= AesBatch THEN 0 ELSE CeilDiv(n - AesBatch, AesBatch)
LastRun(n) ==
  LET first == Batches(n) * AesBatch
  IN <<first, IF AesBatch > n - first THEN n - first ELSE AesBatch>>
Runs(n) == {<<b * AesBatch, AesBatch>> : b \in 0..(Batches(n) - 1)} \cup {LastRun(n)}

Encryptions(n, j) == Cardinality({r \in Runs(n) : j \in r[1]..(r[1] + r[2] - 1)})

\* The n blocks a call of random_block returns.
Blocks(g, n) ==
  [j \in 1..n |-> [ctr |-> counter[g] + j - 1, key |-> key[g],
                   times |-> Encryptions(n, j - 1), bytes |-> BlockBytes]]

\* The first n bytes of blocks bs.
Trim(bs, n) ==
  LET full == n \div BlockBytes
  IN IF n % BlockBytes = 0 THEN SubSeq(bs, 1, full)
     ELSE Append(SubSeq(bs, 1, full),
                 [bs[full + 1] EXCEPT !.bytes = n % BlockBytes])

Init ==
  /\ key \in [Gens -> Seeds \X Ids]
  /\ counter = [g \in Gens |-> 0]
  /\ stream = [g \in Gens |-> <<>>]
  /\ whole = [g \in Gens |-> TRUE]

Hand(g, drawn, blocks, exact) ==
  /\ counter[g] + drawn <= MaxBlocks
  /\ counter' = [counter EXCEPT ![g] = @ + drawn]
  /\ stream' = [stream EXCEPT ![g] = @ \o blocks]
  /\ whole' = [whole EXCEPT ![g] = @ /\ exact]
  /\ UNCHANGED key

\* Had reseed kept the counter.
ReseedKeepingCounter(g, seed, id) ==
  /\ key' = [key EXCEPT ![g] = <<seed, id>>]
  /\ stream' = [stream EXCEPT ![g] = <<>>]
  /\ whole' = [whole EXCEPT ![g] = TRUE]
  /\ UNCHANGED counter

Reseed(g, seed, id) ==
  /\ key' = [key EXCEPT ![g] = <<seed, id>>]
  /\ counter' = [counter EXCEPT ![g] = 0]
  /\ stream' = [stream EXCEPT ![g] = <<>>]
  /\ whole' = [whole EXCEPT ![g] = TRUE]

RandomBlock128(g, n) == Hand(g, n, Blocks(g, n), TRUE)

\* A block256 is two blocks, drawn through an array of 2 * n.
RandomBlock256(g, n) == Hand(g, 2 * n, Blocks(g, 2 * n), TRUE)

\* The whole blocks in one call of random_block, the rest out of one more.
DataBlocks(g, n) ==
  LET full == n \div BlockBytes
      next == [Blocks(g, 1)[1] EXCEPT !.ctr = @ + full]
  IN IF n % BlockBytes = 0 THEN Blocks(g, full)
     ELSE Trim(Append(Blocks(g, full), next), n)

RandomData(g, n) ==
  Hand(g, CeilDiv(n, BlockBytes), DataBlocks(g, n), n % BlockBytes = 0)

\* random_data_unaligned goes through a temporary of AesBatch blocks and draws
\* all of it for the rest, too.
BatchBytes == AesBatch * BlockBytes
UnalignedBlocks(g, n) ==
  LET batch(b) == [j \in 1..AesBatch |-> [Blocks(g, AesBatch)[j] EXCEPT !.ctr = @ + b * AesBatch]]
  IN Trim([j \in 1..(CeilDiv(n, BatchBytes) * AesBatch) |->
             batch((j - 1) \div AesBatch)[((j - 1) % AesBatch) + 1]], n)
RandomDataUnaligned(g, n) ==
  Hand(g, CeilDiv(n, BatchBytes) * AesBatch, UnalignedBlocks(g, n), n % BatchBytes = 0)

Next ==
  \E g \in Gens :
    \/ \E seed \in Seeds, id \in Ids : Reseed(g, seed, id)
    \/ \E n \in Requests :
         \/ RandomBlock128(g, n)
         \/ RandomBlock256(g, n)
         \/ RandomData(g, n)
         \/ RandomDataUnaligned(g, n)

Spec == Init /\ [][Next]_vars

-----------------------------------------------------------------------------
\* Keys, counters and the pieces handed out have their types: no call returns a
\* block beyond those it drew.
TypeOK ==
  /\ key \in [Gens -> Seeds \X Ids]
  /\ counter \in [Gens -> 0..MaxBlocks]
  /\ whole \in [Gens -> BOOLEAN]
  /\ \A g \in Gens : \A j \in DOMAIN stream[g] :
       /\ stream[g][j].ctr \in 0..(MaxBlocks - 1)
       /\ stream[g][j].bytes \in 1..BlockBytes

\* However a call cuts its blocks into batches, every block handed out was
\* encrypted exactly once and under the current key: no counter leaves in the
\* clear and none is encrypted back or twice (prg.h:109).
EncryptedOnce ==
  \A g \in Gens : \A j \in DOMAIN stream[g] :
    stream[g][j].times = 1 /\ stream[g][j].key = key[g]

\* Between two calls of reseed no block of the stream is handed out twice, not
\* even in part, whatever calls are mixed (prg.h:75, 93).
NeverRepeats ==
  \A g \in Gens : \A i, j \in DOMAIN stream[g] :
    i # j => stream[g][i].ctr # stream[g][j].ctr

\* Two generators keyed alike read the same bytes in the same order as far as
\* both have read, when each asked for whole blocks only: the pieces do not
\* matter.  The sender and the receiver of an OT extension rely on it, one
\* drawing twice as much at a time as the other (split-iknp.h:241, 284).
SameStream ==
  \A g, h \in Gens :
    key[g] = key[h] /\ whole[g] /\ whole[h] =>
      \A j \in DOMAIN stream[g] \cap DOMAIN stream[h] : stream[g][j] = stream[h][j]
=============================================================================
