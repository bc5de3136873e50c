-------------------------- MODULE MCExConvChecker --------------------------
(***************************************************************************)
(* An instance of ExConvChecker for TLC whose codes are shorter than one   *)
(* batch of columns.                                                       *)
(***************************************************************************)
EXTENDS ExConvChecker

MCRow(size, trial, r) == {c \in 0..(size - 1) : (c * c + c * (trial + 1) + (r + 1) * (c \div 2) + trial) % 3 # 1}

Cmd(rows, threads, tr, pairs) == [k |-> rows, nt |-> threads, trials |-> tr, x2 |-> pairs]

\* The default, one thread: n is less than a batch.
MCShort == {Cmd(2, threads, tr, FALSE) : threads \in {1, 2}, tr \in {1, 2, 3}} \cup {Cmd(3, 2, 3, FALSE)}
=============================================================================
