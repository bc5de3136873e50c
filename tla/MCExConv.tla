------------------------------ MODULE MCExConv ------------------------------
(***************************************************************************)
(* Instances of ExConv for TLC of what the suite MCData leaves out: the    *)
(* matrix of regular codes, and codes shorter than their accumulator.      *)
(***************************************************************************)
EXTENDS ExConv

\* The field of four elements.
MCField == 0..3
MCPlus(x, y) == 2 * (((x \div 2) + (y \div 2)) % 2) + ((x + y) % 2)
MCMulConst(x) == IF x = 0 THEN 0 ELSE (x % 3) + 1

MCInputs(length) == {[q \in 0..(length - 1) |-> (3 * q + q * q) % 4]}
MCCoeff(p, byte, bit) == (p + byte * (bit + 1) + (byte \div 3) + bit) % 2
MCUni(m, t) == (5 * t + t * t + (t \div 3)) % m
MCReg(m, t) == (7 * t + (t * t) + 1 + (t \div 2)) % m

Code(k, bw, aw, rg) ==
  [k |-> k, n |-> 2 * k, bw |-> bw, aw |-> aw, sys |-> TRUE, reg |-> rg, twice |-> TRUE]

\* Systematic codes of rate one half, regular, as config makes them by
\* default, and not.
MCCodes == {Code(k, bw, 2, rg) : k \in {5, 6}, bw \in {3, 4}, rg \in BOOLEAN}

\* The same with an accumulator shorter than, as long as and longer than the
\* part that is accumulated: the distance finder takes the two from separate
\* options, and up to 18 by default for the first.
MCShort == {Code(5, 3, aw, TRUE) : aw \in {3, 4, 5, 6}}
=============================================================================
