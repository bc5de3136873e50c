------------------------------- MODULE ExConv -------------------------------
(***************************************************************************)
(* The expand-convolute code of the silent OT: dualEncode of               *)
(* ExConvCodeTest.h (accumulate twice, then expand) and expand of          *)
(* ExpanderTest.h.  A step of the model is a row of the accumulator, a     *)
(* group of eight outputs of the expander, or one output of its last few.  *)
(*                                                                         *)
(* The tests (ExConv_tests.cpp) recompute each part in plain steps; their  *)
(* loops are the reference here.  The values of the pseudo random          *)
(* generators are constants.                                               *)
(***************************************************************************)
EXTENDS Integers, Sequences

CONSTANTS
  Elements, Zero, Plus(_, _), MulConst(_), \* the group F and its context
  ByteW,          \* bits of a byte of coefficients
  Lanes,          \* 8 in the code: outputs of an unrolled expander step
  BufferBytes,    \* bytes of prng.mBuffer
  U64,            \* 2^64
  Configs,        \* the parameters of config
  Inputs(_),       \* what e may be, by length
  Coeff(_, _, _), \* bit of a byte of the buffer: pass, refills and bit
  UniDraw(_, _), RegDraw(_, _) \* draw number t below m of the two generators

\* expanderWeight, accumulatorWeight, systematic, regularExpander, mAccTwice.
ExConvAssumption ==
  /\ {ByteW, Lanes, BufferBytes, U64} \subseteq Nat \ {0}
  /\ \A c \in Configs :
       /\ {c.k, c.n, c.bw, c.aw} \subseteq Nat /\ 0 < c.k /\ c.k < c.n /\ 0 < c.bw
       /\ {c.sys, c.reg, c.twice} \subseteq BOOLEAN
       /\ c.bw <= c.n - c.k

\* The accumulator is shorter than what it accumulates.  The code does not ask
\* for it; without it main wraps.
AccumulatorFits == \A c \in Configs : c.aw < c.n - (IF c.sys THEN c.k ELSE 0)

VARIABLES
  cfg,
  input,  \* e as the caller gave it
  e,      \* the vector that is encoded in place, from 0
  w,      \* the vector the expander fills when the code is not systematic
  stage,  \* "acc", "expand", "copy" or "done"
  pass,   \* which call of accumulateFixed
  i,      \* its row, or the output of the expander
  iter,   \* mtxCoeffIter, as an offset in the buffer
  refills, \* how often the buffer has been refilled in this pass
  regs, unis \* how many indices the generators have given

vars == <<cfg, input, e, w, stage, pass, i, iter, refills, regs, unis>>

CeilDiv(n, d) == (n + d - 1) \div d

\* Where the part that is accumulated starts, and its size.
offset == IF cfg.sys THEN cfg.k ELSE 0
size == cfg.n - offset

\* What memory that nothing was written to holds.
Unset == CHOOSE x \in Elements : x # Zero

Init ==
  /\ cfg \in Configs
  /\ input \in Inputs(cfg.n)
  /\ e = input
  /\ w = [p \in 0..(cfg.k - 1) |-> Unset]
  /\ stage = "acc" /\ pass = 1 /\ i = 0 /\ iter = 0 /\ refills = 0
  /\ regs = 0 /\ unis = 0

------------------------------------------------------------------------------
\* Rows below main go without a range check, the others up to the size with
\* one; the subtraction is one of u64.
main == (size - 1 - cfg.aw) % U64
RowsLeft == i < main \/ i < size
Wrapped(j) == IF i >= main /\ j >= size THEN j - size ELSE j

\* The position that coefficient a of row i is for, a = mAccumulatorSize being
\* the element behind them: whole bytes by accOne8, which wraps each of its
\* positions, the last bits one after the other.
Target(a) ==
  LET start[c \in 0..cfg.aw] == IF c = 0 THEN Wrapped(i + 1) ELSE Wrapped(start[c - 1] + ByteW)
  IN  Wrapped(start[a \div ByteW] + (a % ByteW))

\* Bit a of the bytes from mtxCoeffIter on.
CoeffBit(a, at, generation) == Coeff(pass, (at + (a \div ByteW)) + BufferBytes * generation, a % ByteW)

AddTo(x, to, from) == [x EXCEPT ![to] = Plus(@, x[from])]

\* accOneGen: row at of x added to the elements to(0..aw), the last of which
\* is multiplied by the constant.
AccOne(x, to(_), bit(_)) ==
  LET f[a \in 0..cfg.aw] ==
        IF a = 0 THEN x
        ELSE IF bit(a - 1) = 1 THEN AddTo(f[a - 1], offset + to(a - 1), offset + i) ELSE f[a - 1]
      last == offset + to(cfg.aw)
  IN  [AddTo(f[cfg.aw], last, offset + i) EXCEPT ![last] = MulConst(@)]

\* mtxCoeffIter > mtxCoeffEnd.
ExhaustedLate == iter > BufferBytes - CeilDiv(cfg.aw, ByteW) + 1
Exhausted == iter > BufferBytes - CeilDiv(cfg.aw, ByteW)
from == IF Exhausted THEN 0 ELSE iter
generation == IF Exhausted THEN refills + 1 ELSE refills

AccumulateRow ==
  LET bit(a) == CoeffBit(a, from, generation)
  IN  /\ stage = "acc" /\ RowsLeft
      /\ e' = AccOne(e, Target, bit)
      /\ iter' = from + 1
      /\ refills' = generation
      /\ i' = i + 1
      /\ UNCHANGED <<cfg, input, w, stage, pass, regs, unis>>

\* The second call starts a generator of its own, from ~mSeed.
EndPass ==
  /\ stage = "acc" /\ ~RowsLeft
  /\ IF pass = 1 /\ cfg.twice THEN pass' = 2 /\ UNCHANGED stage
     ELSE stage' = "expand" /\ UNCHANGED pass
  /\ i' = 0 /\ iter' = 0 /\ refills' = 0
  /\ UNCHANGED <<cfg, input, e, w, regs, unis>>

------------------------------------------------------------------------------
\* A regular expander takes reg of the indices of a row from reg regions of
\* step columns, and the others anywhere.
uni == IF cfg.reg THEN cfg.bw \div 2 ELSE cfg.bw
reg == cfg.bw - uni
step == IF reg = 0 THEN 0 ELSE size \div reg

\* Index number j of lane p of a group of lanes outputs.
Index(j, p, lanes) ==
  IF j < reg THEN RegDraw(step, regs + j * lanes + p) + j * step
  ELSE UniDraw(size, unis + (j - reg) * lanes + p)

\* Output i + p: what was there is kept by a systematic code only.
Gathered(p, lanes) ==
  LET f[j \in 0..cfg.bw] ==
        IF j = 0 THEN (IF cfg.sys THEN e[i + p] ELSE Zero)
        ELSE Plus(f[j - 1], e[offset + Index(j - 1, p, lanes)])
  IN  f[cfg.bw]

\* rOutput is e itself, or w.
Store(lanes) ==
  LET out(x) == [q \in DOMAIN x |-> IF q \in i..(i + lanes - 1) THEN Gathered(q - i, lanes) ELSE x[q]]
  IN  IF cfg.sys THEN e' = out(e) /\ UNCHANGED w ELSE w' = out(w) /\ UNCHANGED e

Expanded(lanes) ==
  /\ Store(lanes)
  /\ i' = i + lanes
  /\ regs' = regs + reg * lanes
  /\ unis' = unis + uni * lanes
  /\ UNCHANGED <<cfg, input, stage, pass, iter, refills>>

ExpandGroup == stage = "expand" /\ i < (cfg.k \div Lanes) * Lanes /\ Expanded(Lanes)
ExpandOne == stage = "expand" /\ i \in ((cfg.k \div Lanes) * Lanes)..(cfg.k - 1) /\ Expanded(1)

EndExpand ==
  /\ stage = "expand" /\ i = cfg.k
  /\ stage' = IF cfg.sys THEN "done" ELSE "copy"
  /\ UNCHANGED <<cfg, input, e, w, pass, i, iter, refills, regs, unis>>

Copy ==
  /\ stage = "copy"
  /\ e' = [q \in DOMAIN e |-> IF q < cfg.k THEN w[q] ELSE e[q]]
  /\ stage' = "done"
  /\ UNCHANGED <<cfg, input, w, pass, i, iter, refills, regs, unis>>

Next == AccumulateRow \/ EndPass \/ ExpandGroup \/ ExpandOne \/ EndExpand \/ Copy
Spec == Init /\ [][Next]_vars

------------------------------------------------------------------------------
\* Nothing outside the arrays is touched: the rows without a range check stay
\* below the size, a wrapped position does not need a second wrap, the
\* coefficients of a row lie in the buffer, the regions of the expander in
\* the code.  "The '% n' operation is a modulo operation that ensures 'j' is
\* within the bounds of the array" (ExConv_tests.cpp:215); in accumulateFixed
\* that rests on main.
InBounds ==
  /\ stage = "acc" /\ RowsLeft =>
       /\ i < size
       /\ \A a \in 0..cfg.aw : Target(a) \in 0..(size - 1)
       /\ from + CeilDiv(cfg.aw, ByteW) <= BufferBytes
  /\ stage = "expand" => reg * step <= size

\* The test's accumulator: positions modulo the size, and its own count of
\* rows per buffer.
TestBit(p, row, a) ==
  LET period == BufferBytes - CeilDiv(cfg.aw, ByteW) + 1
      byte == (row % period) + (a \div ByteW) + BufferBytes * (row \div period)
  IN  Coeff(p, byte, a % ByteW)
TestRow(p, row, x) ==
  LET at(a) == offset + ((row + 1 + a) % size)
      f[a \in 0..cfg.aw] ==
        IF a = 0 THEN x
        ELSE IF TestBit(p, row, a - 1) = 1
        THEN [f[a - 1] EXCEPT ![at(a - 1)] = Plus(@, f[a - 1][offset + row])] ELSE f[a - 1]
  IN  [f[cfg.aw] EXCEPT ![at(cfg.aw)] = MulConst(Plus(@, f[cfg.aw][offset + row]))]
TestPass(p, rows, x) ==
  LET f[r \in 0..rows] == IF r = 0 THEN x ELSE TestRow(p, r - 1, f[r - 1])
  IN  f[rows]
TestAccumulated == TestPass(2, IF cfg.twice THEN size ELSE 0, TestPass(1, size, input))

\* Row by row the accumulator does what the test computes with % on every
\* position: skipping the range check below main, wrapping by one subtraction
\* and sharing coefficient bytes between rows and refills are invisible.
Accumulates ==
  stage = "acc" =>
    e = IF pass = 1 THEN TestPass(1, i, input) ELSE TestPass(2, i, TestPass(1, size, input))

\* Column number j of row r of the expander, as the test draws them: the
\* lanes of a group one after the other for every j.
TestIndex(r, j) ==
  LET whole == (cfg.k \div Lanes) * Lanes
      draw(weight, jj) ==
        IF r < whole THEN (r \div Lanes) * Lanes * weight + jj * Lanes + (r % Lanes)
        ELSE r * weight + jj
      regCount == IF cfg.reg THEN CeilDiv(cfg.bw, 2) ELSE 0
  IN  IF j < regCount THEN RegDraw(size \div regCount, draw(regCount, j)) + (size \div regCount) * j
      ELSE UniDraw(size, draw(cfg.bw - regCount, j - regCount))
TestExpanded(x, r) ==
  LET f[j \in 0..cfg.bw] ==
        IF j = 0 THEN (IF cfg.sys THEN x[r] ELSE Zero)
        ELSE Plus(f[j - 1], x[offset + TestIndex(r, j - 1)])
  IN  f[cfg.bw]

\* dualEncode of any vector is the test's expansion of its accumulation:
\* outputs already written in place are not read again, nothing of the old
\* output of a code that is not systematic is left, and the tail of fewer
\* than eight outputs goes on with the generators where the groups left them.
Encodes ==
  LET acc == TestAccumulated
  IN  stage = "done" => \A r \in 0..(cfg.k - 1) : e[r] = TestExpanded(acc, r)

\* getMatrix: one generator, seeded as expand's uniGen, for all entries; in a
\* regular code entry j of a row lies in region j of as many as a row has
\* entries.
getMatrix(r, j) ==
  LET whole == (cfg.k \div Lanes) * Lanes
      region == size \div cfg.bw
      number == IF r < whole THEN (r \div Lanes) * Lanes * cfg.bw + j * Lanes + (r % Lanes)
                ELSE r * cfg.bw + j
  IN  IF cfg.reg THEN UniDraw(region, number) + region * j ELSE UniDraw(size, number)

\* The columns that expand adds for the next output.
ExpandedColumn(j) == Index(j, 0, IF i < (cfg.k \div Lanes) * Lanes THEN Lanes ELSE 1)

\* Of a code that is not regular getMatrix lists, in this order, the columns
\* that expand adds: both cut one stream into groups of eight rows and a tail.
MatrixAgrees ==
  stage = "expand" /\ ~cfg.reg /\ i < cfg.k =>
    \A j \in 0..(cfg.bw - 1) : getMatrix(i, j) = ExpandedColumn(j)

\* The matrix that getMatrix returns for any code is, row by row and up to the
\* order, what expand multiplies by: it is B, "sampled uniformly with fixed row
\* weight mExpanderWeight" (ExpanderTest.h:15), in whose columns the test
\* colours what it prints (ExConv_tests.cpp:493).
PublishedRows ==
  stage = "expand" /\ i < cfg.k =>
    {getMatrix(i, j) : j \in 0..(cfg.bw - 1)} = {ExpandedColumn(j) : j \in 0..(cfg.bw - 1)}

=============================================================================
