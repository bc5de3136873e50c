--------------------------- MODULE MCMillionaire ----------------------------
(***************************************************************************)
(* Instances of Millionaire for TLC.                                       *)
(***************************************************************************)
EXTENDS Millionaire

\* Two executions' random bits: a fixed irregular pattern and another one
\* with the junk bit set, so that no share, mask or triple is constant.
Pattern(seed, n) == ((seed * (n + 3) * (n + 3) + n + seed) \div 3) % 2
MCTape(seed) ==
  [maskCmp |-> [i \in Digits |-> Pattern(seed, i)],
   maskEq |-> [i \in Digits |-> Pattern(seed + 1, i)],
   a |-> [p \in Party |-> [s \in Slots |-> Pattern(seed + (IF p = ALICE THEN 2 ELSE 5), s)]],
   b |-> [p \in Party |-> [s \in Slots |-> Pattern(seed + (IF p = ALICE THEN 3 ELSE 7), s)]],
   c |-> [s \in Slots |-> Pattern(seed + 4, s)],
   junk |-> seed % 2]
MCTapes == {MCTape(2), MCTape(7)}
MCAllInputs == 0..(2^Bitlength - 1)
MCBoundary == {0, 1, 2^(Bitlength - 1), 2^Bitlength - 1}
=============================================================================
