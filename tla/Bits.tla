-------------------------------- MODULE Bits --------------------------------
(***************************************************************************)
(* Bits as the protocols use them: a share of a Boolean is a bit, and a    *)
(* secret is the exclusive or of the two parties' shares.                  *)
(***************************************************************************)
EXTENDS Integers

Bit == {0, 1}

BitOf(P) == IF P THEN 1 ELSE 0

\* C's ^ and & on single bits.  They are total, so that a read outside an
\* array is a wrong bit, not an undefined one.
Xor(a, b) == IF a = b THEN 0 ELSE 1

And(a, b) == IF a = 1 /\ b = 1 THEN 1 ELSE 0

\* sci::bitlen, which "returns log_alpha": the least k with 2^k >= n, as the
\* number of powers of two below n.  For 1 <= n <= 64, the callers' range.
CeilLog2(n) == BitOf(n > 1) + BitOf(n > 2) + BitOf(n > 4)
                 + BitOf(n > 8) + BitOf(n > 16) + BitOf(n > 32)

CeilDiv(n, d) == (n + d - 1) \div d
=============================================================================
