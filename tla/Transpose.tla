----------------------------- MODULE Transpose ------------------------------
(***************************************************************************)
(* sse_trans (block.h): the transpose of a bit matrix by blocks of sixteen *)
(* rows and eight columns, and of what is left over by pairs of 8x8 blocks *)
(* and one last 8x8 block.  The extensions transpose q and t with it.      *)
(*                                                                         *)
(* Matrices are arrays of bytes, row by row.  A bit of the output is the   *)
(* cell <<row, column>> of the input that was moved there.                 *)
(***************************************************************************)
EXTENDS Naturals, Integers

CONSTANTS
  Sizes,   \* the pairs <<nrows, ncols>>
  Modulus  \* 2^64: row and column indices are unsigned

TransposeAssumption ==
  /\ Sizes \subseteq (Nat \ {0}) \X (Nat \ {0})
  /\ \A s \in Sizes : s[1] % 8 = 0 /\ s[2] % 8 = 0  \* the assertion
  /\ Modulus \in Nat \ {0}

VARIABLES
  nrows, ncols,
  rr, cc,  \* the upper left corner of the next block
  part,    \* "main", "pairs", "last" or "done"
  out      \* out[byte][bit]

vars == <<nrows, ncols, rr, cc, part, out>>

Unwritten == <<-1, -1>>

Bytes == 0..(((nrows * ncols) \div 8) - 1)
INP(x, y) == ((x * ncols) \div 8) + (y \div 8)
OUT(x, y) == ((y * nrows) \div 8) + (x \div 8)

\* The cell at bit i of a byte of the input.
Cell(byte, i) == <<(8 * byte) \div ncols, ((8 * byte) % ncols) + i>>

\* u <= n - 16 in unsigned arithmetic.
FitsPast(u, n) == u <= (n - 8) % Modulus
Fits(u, n) == u <= (n - 16) % Modulus

Init ==
  /\ \E s \in Sizes : nrows = s[1] /\ ncols = s[2]
  /\ rr = 0 /\ cc = 0
  /\ part = "main"
  /\ out = [b \in Bytes |-> [i \in 0..7 |-> Unwritten]]

\* Eight columns of an 8x8 block: bit i of row b to bit b of column i.
Block(array, x, y) ==
  [byte \in DOMAIN array |->
     IF \E i \in 0..7 : byte = OUT(x, y + i)
     THEN LET i == CHOOSE j \in 0..7 : byte = OUT(x, y + j)
          IN  [b \in 0..7 |-> Cell(INP(x + b, y), i)]
     ELSE array[byte]]

\* _mm_movemask_epi8 of sixteen rows: two 8x8 blocks one below the other.
MainStep(x, y) == Block(Block(out, x, y), x + 8, y)
Main ==
  /\ part = "main" /\ Fits(rr, nrows)
  /\ out' = MainStep(rr, cc)
  /\ IF cc + 8 < ncols THEN cc' = cc + 8 /\ UNCHANGED rr
     ELSE cc' = 0 /\ rr' = rr + 16
  /\ UNCHANGED <<nrows, ncols, part>>

AfterMain ==
  /\ part = "main" /\ ~Fits(rr, nrows)
  /\ part' = IF rr = nrows THEN "done" ELSE "pairs"
  /\ UNCHANGED <<nrows, ncols, rr, cc, out>>

\* Two 8x8 blocks beside each other.
Pairs ==
  /\ part = "pairs" /\ Fits(cc, ncols)
  /\ out' = Block(Block(out, rr, cc), rr, cc + 8)
  /\ cc' = cc + 16
  /\ UNCHANGED <<nrows, ncols, rr, part>>

AfterPairs ==
  /\ part = "pairs" /\ ~Fits(cc, ncols)
  /\ part' = IF cc = ncols THEN "done" ELSE "last"
  /\ UNCHANGED <<nrows, ncols, rr, cc, out>>

Last ==
  /\ part = "last"
  /\ out' = Block(out, rr, cc)
  /\ part' = "done"
  /\ UNCHANGED <<nrows, ncols, rr, cc>>

Next == Main \/ AfterMain \/ Pairs \/ AfterPairs \/ Last
Spec == Init /\ [][Next]_vars

------------------------------------------------------------------------------
\* No step reads or writes a block that does not lie inside the matrix.
InsideMatrix ==
  /\ part = "main" /\ Fits(rr, nrows) => rr + 16 <= nrows /\ cc + 8 <= ncols
  /\ part = "pairs" /\ Fits(cc, ncols) => rr + 8 <= nrows /\ cc + 16 <= ncols
  /\ part = "last" => rr + 8 <= nrows /\ cc + 8 <= ncols

\* At the end bit <<c, r>> of the output is bit <<r, c>> of the input, for
\* every cell: none is left unwritten by the hand-over from the sixteen-row
\* blocks to the pairs and to the last block.
Transposed ==
  part = "done" =>
    \A r \in 0..(nrows - 1), c \in 0..(ncols - 1) : out[OUT(r, c)][r % 8] = <<r, c>>

=============================================================================
