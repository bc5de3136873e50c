----------------------------- MODULE BitTriples -----------------------------
(***************************************************************************)
(* TripleGenerator::generate: a sequence of calls that both parties make,  *)
(* each yielding shares of bit triples, dealt by ALICE (Ideal), two from   *)
(* one 1-out-of-16 OT (_16KKOT_to_4OT), or two with a common factor from   *)
(* one 1-out-of-8 OT (_8KKOT).  The OTs are ideal: what ALICE offers is    *)
(* under way until BOB picks.  A byte is the function of its eight bits,   *)
(* least significant first.                                                *)
(***************************************************************************)
EXTENDS Bits, Sequences

CONSTANTS
  Programs,  \* the sequences of calls the parties may make
  Patterns   \* what a draw of random bits may yield

ALICE == "ALICE"
BOB == "BOB"
Party == {ALICE, BOB}

Methods == {"Ideal", "16KKOT_to_4OT", "8KKOT"}

\* The assertions of Triple and of generate, with what they leave out: the
\* correlated method works on whole blocks of 2 * offset triples.
Calls == [method : Methods, num : Nat, packed : BOOLEAN, offset : Nat \ {0}]
IsCall(c) ==
  /\ c.offset < c.num \/ c.num = 0 \/ c.offset = 1
  /\ c.num % c.offset = 0
  /\ c.packed => c.num % 8 = 0
  /\ c.method # "Ideal" => c.num % 2 = 0
  /\ c.method = "8KKOT" => c.num % (2 * c.offset) = 0

TripleAssumption ==
  /\ \A prog \in Programs : prog \in Seq(Calls) /\ \A i \in DOMAIN prog : IsCall(prog[i])
  /\ \A f \in Patterns : \A prog \in Programs : \A i \in DOMAIN prog :
       \A j \in 0..(8 * CeilDiv(prog[i].num, 8) - 1) : f[j] \in Bit

VARIABLES
  program,  \* the calls of this session
  at,       \* the call each party is in
  mine,     \* what BOB has drawn in the call he is in, or Nothing
  triples,  \* triples[p]: the arrays ai, bi, ci that p has filled, by call
  wire      \* what is under way from ALICE to BOB

vars == <<program, at, mine, triples, wire>>

Nothing == <<>>
Active(p) == at[p] <= Len(program)
Call(p) == program[at[p]]
Slots(n) == 0..(n - 1)
NumBytes(n) == CeilDiv(n, 8)

Init ==
  /\ program \in Programs
  /\ at = [p \in Party |-> 1]
  /\ mine = Nothing
  /\ triples = [p \in Party |-> <<>>]
  /\ wire = <<>>

------------------------------------------------------------------------------
(* Layout.                                                                 *)

\* random_bool and random_data into an array of n bits or of whole bytes.
Draw(n) == {[i \in Slots(n) |-> f[i]] : f \in Patterns}

\* bool_to_uint8 on each group of eight, or on what is left of the last, and
\* uint8_to_bool back.
PackedBytes(f, n) ==
  [y \in Slots(NumBytes(n)) |->
     [k \in 0..7 |-> IF 8 * y + k < n THEN f[8 * y + k] ELSE 0]]
Unpacked(bytes, n) == [i \in Slots(n) |-> bytes[i \div 8][i % 8]]

\* The arrays as they are left in memory.
Stored(c, f) == IF c.packed THEN PackedBytes(f, c.num) ELSE f

Filled(p, a, b, c) ==
  /\ triples' = [triples EXCEPT ![p] = Append(@,
       [ai |-> Stored(Call(p), a), bi |-> Stored(Call(p), b),
        ci |-> Stored(Call(p), c)])]
  /\ at' = [at EXCEPT ![p] = @ + 1]

------------------------------------------------------------------------------
(* Ideal: ALICE deals.                                                     *)

XorOn(n, f, g) == [i \in Slots(n) |-> Xor(f[i], g[i])]

DealIdeal ==
  LET n == Call(ALICE).num IN
  /\ Active(ALICE) /\ n > 0 /\ Call(ALICE).method = "Ideal"
  /\ \E ai, bi, ci, a, b \in Draw(n) :
       LET c == [i \in Slots(n) |-> And(a[i], b[i])]
       IN  /\ wire' = wire \o <<PackedBytes(XorOn(n, a, ai), n),
                                PackedBytes(XorOn(n, b, bi), n),
                                PackedBytes(XorOn(n, c, ci), n)>>
           /\ Filled(ALICE, ai, bi, ci)
  /\ UNCHANGED <<program, mine>>

ReceiveIdeal ==
  LET n == Call(BOB).num IN
  /\ Active(BOB) /\ n > 0 /\ Call(BOB).method = "Ideal" /\ Len(wire) >= 3
  /\ Filled(BOB, Unpacked(wire[1], n), Unpacked(wire[2], n),
            Unpacked(wire[3], n))
  /\ wire' = SubSeq(wire, 4, Len(wire))
  /\ UNCHANGED <<program, mine>>

------------------------------------------------------------------------------
(* Two triples from one OT.                                                *)

\* The two triples of OT m: neighbours, or offset apart.
First(c, m) ==
  IF c.method = "8KKOT"
  THEN 2 * c.offset * (m \div c.offset) + (m % c.offset) ELSE 2 * m
Second(c, m) == First(c, m) + (IF c.method = "8KKOT" THEN c.offset ELSE 1)

\* The a bits of the correlated method: the second offset of each block is a
\* copy of the first.
DrawA(c) ==
  IF c.method # "8KKOT" THEN Draw(c.num)
  ELSE {[i \in Slots(c.num) |->
           IF (i \div c.offset) % 2 = 0 THEN f[i] ELSE f[i - c.offset]] :
        f \in Draw(c.num)}

\* The bits of a selection, a01 || b01 || a11 || b11 or a01 || b01 || b11,
\* least significant first.
Selection(c, a, b, m) ==
  LET x == First(c, m)
      y == Second(c, m)
  IN  IF c.method = "8KKOT" THEN <<a[x], b[x], b[y]>>
      ELSE <<a[x], b[x], a[y], b[y]>>
Selections(c) == [1..(IF c.method = "8KKOT" THEN 3 ELSE 4) -> Bit]

\* One factor share of the sender against one selection j: the message that
\* completes c.
Product(a, b, c, ja, jb) == Xor(And(Xor(a, ja), Xor(b, jb)), c)
Offered(c, a, b, r, m, j) ==
  LET x == First(c, m)
      y == Second(c, m)
      ja == IF c.method = "8KKOT" THEN j[1] ELSE j[3]
      jb == IF c.method = "8KKOT" THEN j[3] ELSE j[4]
  IN  <<Product(a[x], b[x], r[x], j[1], j[2]),
        Product(a[y], b[y], r[y], ja, jb)>>

IsOT(p) == Active(p) /\ Call(p).num > 0 /\ Call(p).method # "Ideal"

OfferOTs ==
  LET c == Call(ALICE) IN
  /\ IsOT(ALICE)
  /\ \E a \in DrawA(c), b, r \in Draw(c.num) :
       /\ wire' = Append(wire,
            [m \in Slots(c.num \div 2) |->
               [j \in Selections(c) |-> Offered(c, a, b, r, m, j)]])
       /\ Filled(ALICE, a, b, r)
  /\ UNCHANGED <<program, mine>>

DrawBob ==
  LET c == Call(BOB) IN
  /\ IsOT(BOB) /\ mine = Nothing
  /\ \E a \in DrawA(c), b \in Draw(c.num) : mine' = <<a, b>>
  /\ UNCHANGED <<program, at, triples, wire>>

\* The received pair is split over the two triples of the OT.
OtOfNeighbours(c, i) == i \div 2
OtOf(c, i) ==
  IF c.method = "8KKOT"
  THEN c.offset * (i \div (2 * c.offset)) + (i % c.offset) ELSE i \div 2
PickOTs ==
  LET c == Call(BOB)
      result(m) == wire[1][m][Selection(c, mine[1], mine[2], m)]
  IN  /\ IsOT(BOB) /\ mine # Nothing /\ wire # <<>>
      /\ Filled(BOB, mine[1], mine[2],
           [i \in Slots(c.num) |->
              result(OtOf(c, i))[IF i = First(c, OtOf(c, i)) THEN 1 ELSE 2]])
      /\ wire' = Tail(wire)
      /\ mine' = Nothing
      /\ UNCHANGED program

\* A call for no triples returns at once.
ReturnEmpty(p) ==
  /\ Active(p) /\ Call(p).num = 0
  /\ triples' = [triples EXCEPT ![p] =
       Append(@, [ai |-> <<>>, bi |-> <<>>, ci |-> <<>>])]
  /\ at' = [at EXCEPT ![p] = @ + 1]
  /\ UNCHANGED <<program, mine, wire>>

Alice == DealIdeal \/ OfferOTs \/ ReturnEmpty(ALICE)
Bob == ReceiveIdeal \/ DrawBob \/ PickOTs \/ ReturnEmpty(BOB)
Next == Alice \/ Bob

Spec == Init /\ [][Next]_vars

------------------------------------------------------------------------------
(* Properties.                                                             *)

\* Bit i of an array as its users index it: through bytes when packed.
BitAt(c, f, i) == IF c.packed THEN f[i \div 8][i % 8] ELSE f[i]

\* Every call whose arrays both parties have filled gave them shares of
\* triples: the ci are shares of the product of what the ai and the bi share,
\* for every index, method, packing and offset.
TriplesCorrect ==
  \A k \in DOMAIN triples[ALICE] \cap DOMAIN triples[BOB] :
    LET c == program[k]
        x == triples[ALICE][k]
        y == triples[BOB][k]
    IN  \A i \in Slots(c.num) :
          Xor(BitAt(c, x.ci, i), BitAt(c, y.ci, i)) =
            And(Xor(BitAt(c, x.ai, i), BitAt(c, y.ai, i)),
                Xor(BitAt(c, x.bi, i), BitAt(c, y.bi, i)))

\* The correlated method: triples offset apart share their first factor, so
\* that one opening serves both (what AND_step_1 relies on).
SharedFactor ==
  \A p \in Party : \A k \in DOMAIN triples[p] :
    LET c == program[k] IN
    c.method = "8KKOT" =>
      \A i \in Slots(c.num) : (i \div c.offset) % 2 = 0 =>
        BitAt(c, triples[p][k].ai, i) = BitAt(c, triples[p][k].ai, i + c.offset)
=============================================================================
