----------------------------- MODULE ExConvModd -----------------------------
(***************************************************************************)
(* ExConvModd (ExConvCodeTest/Util.h): indices below modVal from a buffer  *)
(* of blocks that a refill mixes in place, eight blocks at a time, and     *)
(* reduces by a mask or by a division of groups of 32 words.  The code of  *)
(* ExConvCodeTest::refill is the same loop without the last xor.           *)
(* It is this repository's copy of libOTe's ExpanderModd, the one that the *)
(* expander includes; nothing here includes the copy.                      *)
(*                                                                         *)
(* A block is a pair of words below U64.                                   *)
(***************************************************************************)
EXTENDS Integers, Sequences

CONSTANTS
  U64,          \* 2^64
  Lanes,        \* 8 in the code: blocks mixed at a time
  Blocks,       \* 256: prng.mBuffer.size(), also the modulus of the u8 index
  Group,        \* 32: words that doMod32 reduces
  Seeds,        \* buffers of a new PRNG
  ModVals,
  Mix(_, _),    \* AES::roundEnc(b, k) ^ k
  MaxGets       \* calls of get in a behaviour

AnyBlock == (0..(U64 - 1)) \X (0..(U64 - 1))
AnyBuffer == [0..(Blocks - 1) -> AnyBlock]

ExConvModdAssumption ==
  /\ {U64, Lanes, Blocks, Group, MaxGets} \subseteq Nat \ {0}
  /\ Blocks % Lanes = 0 /\ (2 * Blocks) % Group = 0
  /\ Seeds \subseteq AnyBuffer
  /\ \A b, k \in AnyBlock : Mix(b, k) \in AnyBlock
  /\ ModVals \subseteq 1..(U64 - 1)

VARIABLES
  seed, modVal,
  buffer, \* prng.mBuffer
  vals,   \* the reduced words
  idx,
  given   \* what get has returned

vars == <<seed, modVal, buffer, vals, idx, given>>

NumVals == 2 * Blocks

\* Chunk c of eight blocks is mixed with the chunk before it; (u8)(i - 8) makes
\* that the last chunk for the first.
Mixed(b) ==
  LET chunks == Blocks \div Lanes
      after[c \in 0..chunks] ==
        IF c = 0 THEN b
        ELSE [x \in DOMAIN b |->
               IF x \div Lanes = c - 1
               THEN Mix(after[c - 1][x], after[c - 1][(x - Lanes) % Blocks])
               ELSE after[c - 1][x]]
  IN  after[chunks]

\* mPow2 == log2floor(modVal).
IsPow2(m) == \E p \in 0..m : 2^p = m

WordAt(b, j) == b[j \div 2][(j % 2) + 1]

\* & (modVal - 1), or the word less the quotient times modVal; 32 words at a
\* time and every word has its turn.
Masked(m, word) == word % m
Divided(m, word) == word - ((word \div m) * m)
Reduced(m, b) ==
  [j \in 0..(NumVals - 1) |->
     IF IsPow2(m) THEN Masked(m, WordAt(b, j))
     ELSE IF j < (NumVals \div Group) * Group THEN Divided(m, WordAt(b, j)) ELSE WordAt(b, j)]

\* The constructor refills at once.
Init ==
  /\ seed \in Seeds
  /\ modVal \in ModVals
  /\ buffer = Mixed(seed)
  /\ vals = Reduced(modVal, Mixed(seed))
  /\ idx = 0
  /\ given = <<>>

EmptyLate == idx > NumVals
Empty == idx = NumVals

Give(values, at) == given' = Append(given, IF at \in DOMAIN values THEN values[at] ELSE 0) /\ idx' = at + 1

Get ==
  /\ Len(given) < MaxGets
  /\ UNCHANGED <<seed, modVal>>
  /\ IF Empty
     THEN /\ buffer' = Mixed(buffer)
          /\ vals' = Reduced(modVal, Mixed(buffer))
          /\ Give(Reduced(modVal, Mixed(buffer)), 0)
     ELSE Give(vals, idx) /\ UNCHANGED <<buffer, vals>>

Next == Get
Spec == Init /\ [][Next]_vars

------------------------------------------------------------------------------
\* Every index lies in the code, whichever way it was reduced.
IndicesFit == \A t \in DOMAIN given : given[t] \in 0..(modVal - 1)

\* The stream of indices is that of the refilled buffers in order, each word
\* once and reduced: no word is given twice around a refill or left out.
Generations(n) ==
  LET g[x \in 0..n] == IF x = 0 THEN Mixed(seed) ELSE Mixed(g[x - 1])
  IN  g[n]
WholeStream ==
  \A t \in DOMAIN given :
    given[t] = WordAt(Generations((t - 1) \div NumVals), (t - 1) % NumVals) % modVal
=============================================================================
