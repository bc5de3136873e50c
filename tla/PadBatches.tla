----------------------------- MODULE PadBatches -----------------------------
(***************************************************************************)
(* The hashing of rows into pads at the end of a KKOT call: got_send_post  *)
(* and got_recv_post of kkot.h over CCRF of ccrf.h.  The sender hashes a   *)
(* whole batch of N keys for each OT in buffers it uses again, the         *)
(* receiver one row for each OT that is left, so the same row goes through *)
(* different branches of CCRF on the two sides.  A step is a batch of one  *)
(* side; encryption is symbolic.                                           *)
(***************************************************************************)
EXTENDS Naturals, Sequences

CONSTANTS
  N,         \* messages of an OT
  BatchSize, \* ro_batch_size
  Lanes,     \* how many keys CCRF schedules at a time, 8 in the code
  Lengths    \* the numbers of OTs of a call

PadAssumption ==
  /\ N \in Nat \ {0, 1}
  /\ BatchSize \in Nat \ {0}
  /\ Lanes \in Nat \ {0}
  /\ Lengths \subseteq Nat

VARIABLES
  length, \* OTs of the call
  r,      \* the receiver's choices
  key,    \* the sender's buffer of keys
  y,      \* the sender's buffer of pads, then of masked messages
  pad,    \* the receiver's buffer of pads
  si,     \* i of the sender's loop
  ri,     \* i of the receiver's loop
  wire,   \* batches sent and not received
  data    \* what the receiver has

vars == <<length, r, key, y, pad, si, ri, wire, data>>

Choice == 0..(N - 1)
Slot == 0..(N * BatchSize - 1)
SmallerOf(a, b) == IF a <= b THEN a ELSE b

\* A row, as the receiver holds it, or as the sender makes it for a choice.
Row(j, k) == <<j, k>>
Unset == <<"unset">>
One == <<"one">>
Cipher(k, plain) == [key |-> k, plain |-> plain]
\* y after got_send_post has put message k of OT j on it.
Hidden(c, j, k) == [mask |-> c, message |-> <<j, k>>]

\* CCRF: full groups of Lanes encrypt the constant one and ignore the output;
\* the rest is set to one first and encrypted in place.
CCRF(out, keys, n) ==
  LET grouped == (n \div Lanes) * Lanes
      set == [c \in DOMAIN out |-> IF c \in grouped..(n - 1) THEN One ELSE out[c]]
  IN [c \in DOMAIN out |-> IF c < grouped THEN Cipher(keys[c], One)
                           ELSE IF c < n THEN Cipher(keys[c], set[c]) ELSE out[c]]

Init ==
  /\ length \in Lengths
  /\ r \in [0..(length - 1) -> Choice]
  /\ key = [c \in Slot |-> Unset]
  /\ y = [c \in Slot |-> Unset]
  /\ pad = [c \in 0..(BatchSize - 1) |-> Unset]
  /\ si = 0
  /\ ri = 0
  /\ wire = <<>>
  /\ data = [j \in 0..(length - 1) |-> Unset]

\* min(bsize, length - i): the OTs of the batch that starts at i.
InBatch(i) == SmallerOf(BatchSize, length - i)

\* Had the sender sent the whole buffer each time.
SentFull(i) == BatchSize

\* The OTs whose masked messages the sender puts on the wire.
Sent(i) == InBatch(i)

\* A batch of got_send_post: the keys of the OTs that are left over those of
\* the batch before, CCRF over the whole buffer, the messages, the send.
SendBatch ==
  LET keys == [c \in Slot |-> IF c < N * InBatch(si) THEN Row(si + c \div N, c % N) ELSE key[c]]
      pads == CCRF(y, keys, N * BatchSize)
      masked == [c \in Slot |-> IF c < N * InBatch(si) THEN Hidden(pads[c], si + c \div N, c % N)
                                ELSE pads[c]]
  IN /\ si < length
     /\ key' = keys
     /\ y' = masked
     /\ wire' = Append(wire, [c \in 0..(N * Sent(si) - 1) |-> masked[c]])
     /\ si' = si + BatchSize
     /\ UNCHANGED <<length, r, pad, ri, data>>

\* The message under mask m, to who has pad c.
Opened(m, c) == IF m.mask = c THEN m.message ELSE Unset

\* A batch of got_recv_post: CCRF over the rows that are left, in the buffer of
\* the batch before.
RecvBatch ==
  LET rows == [c \in 0..(BatchSize - 1) |->
                 IF ri + c < length THEN Row(ri + c, r[ri + c]) ELSE Unset]
      pads == CCRF(pad, rows, InBatch(ri))
  IN /\ ri < length
     /\ wire # <<>>
     /\ pad' = pads
     /\ data' = [j \in DOMAIN data |->
                   IF j \in ri..(ri + InBatch(ri) - 1)
                   THEN Opened(Head(wire)[N * (j - ri) + r[j]], pads[j - ri]) ELSE data[j]]
     /\ wire' = Tail(wire)
     /\ ri' = ri + BatchSize
     /\ UNCHANGED <<length, r, key, y, si>>

Next == SendBatch \/ RecvBatch

Spec == Init /\ [][Next]_vars

-----------------------------------------------------------------------------
\* The receiver has the messages it chose of every batch it has received,
\* although the two sides hash a row in groups of another size, at another
\* place in its group or after it (ccrf.h:40, 52).
ChosenDelivered ==
  \A j \in 0..(length - 1) : j < ri => data[j] = <<j, r[j]>>

\* Every message on the wire is hidden by a pad of its own row and choice, and
\* by the pad alone: neither the keys nor the messages that the batch before
\* left in the buffers get into a mask (kkot.h:185).
OwnMask ==
  \A b \in DOMAIN wire : \A c \in DOMAIN wire[b] :
    /\ "message" \in DOMAIN wire[b][c]
    /\ wire[b][c].mask = Cipher(wire[b][c].message, One)
=============================================================================
