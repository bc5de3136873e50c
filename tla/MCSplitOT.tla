----------------------------- MODULE MCSplitOT ------------------------------
\* Small sessions of SplitOT for TLC.
EXTENDS SplitOT

Got(n) == [op |-> "got", n |-> n]
Block(n) == [op |-> "block", n |-> n]
Batch(n) == [op |-> "batch", n |-> n]

\* Every session that sets a pool, at first or after a call, and makes three calls.
MCSessions ==
  LET calls == {Got(0), Got(1), Got(2), Got(4), Block(2)}
  IN  {<<Batch(3), x, y, z>> : x, y, z \in calls}
        \cup {<<x, Batch(2), y, z>> : x, y, z \in calls}
\* Sessions that use part of the pool, refill part of it, and resize it.
MCResize ==
  {<<Got(1), Batch(2), Got(1), x, y>> :
     x, y \in {Got(1), Got(2), Batch(1), Block(3)}}
MCWide ==
  {<<Batch(2), x, y>> : x, y \in {Got(1), Got(2)}} \cup {<<Batch(2), Got(1), Got(3)>>}

\* Choices of one session: digit i of a call is picked by a rotation.
Rotations(programs) ==
  UNION {{[c \in DOMAIN prog |->
             IF prog[c].op = "batch" THEN <<>>
             ELSE [i \in 1..prog[c].n |-> (d + i * c) % N]] : d \in 0..(N - 1)} :
         prog \in programs}
MCPrograms == MCSessions \cup MCResize
MCProgramChoices == Rotations(MCPrograms)
MCResizeChoices == Rotations(MCResize)
\* Every choice.
CallChoices(call) ==
  IF call.op = "batch" THEN {<<>>} ELSE [1..call.n -> 0..(N - 1)]
MCWideChoices ==
  UNION {{<<<<>>, x, y>> : x \in CallChoices(prog[2]), y \in CallChoices(prog[3])} :
         prog \in MCWide}
=============================================================================
