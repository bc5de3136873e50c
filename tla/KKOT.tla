-------------------------------- MODULE KKOT --------------------------------
(***************************************************************************)
(* KKOT (kkot.h): 1-out-of-N OT extension whose rows are code words of the *)
(* choices (WH_Code, constants.h), with the masks that the sender computes *)
(* for as many messages as it has needed so far.                           *)
(*                                                                         *)
(* As in IKNP a row is its position in the streams and the flips of its    *)
(* columns: the sender's row differs from the receiver's by the code word  *)
(* of the choice where s is set.  Pads are symbolic: a pad is a row.       *)
(***************************************************************************)
EXTENDS Bits, Sequences, FiniteSets

CONSTANTS
  CodeBits,       \* lambda is 2^CodeBits
  BlockSize,      \* block_size
  ro_batch_size,
  Programs,       \* the calls both parties make: sequences of [op, length, N]
  Choices,        \* the receiver's choices, by call
  Secrets,        \* what s may be
  Fillers         \* what extended_r may be

lambda == 2^CodeBits
Columns == 0..(lambda - 1)

\* N lies within the assertions of send_impl and recv_impl.  A second set-up
\* would leave the masks of the first: no caller makes one.
KKOTAssumption ==
  /\ CodeBits \in Nat \ {0, 1} /\ {BlockSize, ro_batch_size} \subseteq Nat \ {0}
  /\ \A prog \in Programs :
       /\ prog \in Seq([op : {"setup", "got"}, length : Nat, N : 2..lambda])
       /\ \A c \in DOMAIN prog : prog[c].op = "setup" => c = 1
  /\ Secrets \subseteq [Columns -> Bit]
  /\ Fillers \subseteq [0..(BlockSize - 1) -> Columns]

\* What the receiver asks for is one of the messages, as its callers see to:
\* another choice would read a message of the next OT (kkot.h:209).
ChoicesFit ==
  \A prog \in Programs, ch \in Choices : \A c \in DOMAIN prog :
    prog[c].op = "got" => \A j \in 0..(prog[c].length - 1) : ch[c][j] \in 0..(prog[c].N - 1)

ALICE == "ALICE"  \* the sender
BOB == "BOB"      \* the receiver
Party == {ALICE, BOB}

VARIABLES
  program, choice, s,
  at, pc,
  setup,         \* whether the PRGs are seeded
  precomp_masks, \* whether precompute_masks has run
  max_N,         \* for how many messages
  c_AND_s,       \* and its masks
  prg, rows,     \* as in IKNP
  i, data, wire

inputs == <<program, choice, s>>
masks == <<precomp_masks, max_N, c_AND_s>>
vars == <<inputs, at, pc, setup, masks, prg, rows, i, data, wire>>

Smaller(m, n) == IF m < n THEN m ELSE n
Now(p) == program[at[p]]
Length(p) == Now(p).length

\* Bit c of WH_Code[k]: the parity of the binary digits that k and c share.
\* The table lists the four words of a row from the most significant one.
BitsOf(k) == {b \in 0..(CodeBits - 1) : (k \div (2^b)) % 2 = 1}
Column(c) == LET word == lambda \div 4 IN (3 - (c \div word)) * word + (c % word)
WH_Code(k, c) == Cardinality(BitsOf(k) \cap BitsOf(Column(c))) % 2
CodeWord(k) == [c \in Columns |-> WH_Code(k, c)]
AndRow(x, y) == [c \in Columns |-> And(x[c], y[c])]
XorRow(x, y) == [c \in Columns |-> Xor(x[c], y[c])]

\* The memory of the masks before they are computed: all columns set.
Unset == [c \in Columns |-> 1]

Init ==
  /\ program \in Programs
  /\ choice \in Choices
  /\ s \in Secrets
  /\ at = [p \in Party |-> 1]
  /\ pc = [p \in Party |-> "call"]
  /\ setup = [p \in Party |-> FALSE]
  /\ precomp_masks = FALSE
  /\ max_N = 0
  /\ c_AND_s = [k \in Columns |-> Unset]
  /\ prg = [p \in Party |-> 0]
  /\ rows = [p \in Party |-> <<>>]
  /\ i = [p \in Party |-> 0]
  /\ data = [c \in DOMAIN program |-> <<>>]
  /\ wire = [p \in Party |-> <<>>]

Peer(p) == IF p = ALICE THEN BOB ELSE ALICE
Send(p, units) == wire' = [wire EXCEPT ![Peer(p)] = @ \o units]
Receive(p, n) == wire' = [wire EXCEPT ![p] = SubSeq(@, n + 1, Len(@))]
Arrived(p, kind, n) ==
  Len(wire[p]) >= n /\ \A j \in 1..n : wire[p][j].kind = kind
Enter(p, place) == pc' = [pc EXCEPT ![p] = place]

\* precompute_masks: from max_N on.
Masks(n) ==
  [k \in Columns |-> IF k \in max_N..(n - 1) THEN AndRow(CodeWord(k), s) ELSE c_AND_s[k]]
PrecomputeMasks(n) ==
  /\ precomp_masks' = TRUE
  /\ max_N' = n
  /\ c_AND_s' = Masks(n)

\* send_impl before send_pre: more masks if this call has more messages.
NeedsMasksOnce(n) == ~precomp_masks /\ setup[ALICE]
NeedsMasks(n) == max_N < n /\ setup[ALICE]

Begin(p) ==
  /\ at[p] \in DOMAIN program /\ pc[p] = "call"
  /\ IF Now(p).op # "setup" /\ Length(p) < 1
     THEN at' = [at EXCEPT ![p] = @ + 1] /\ UNCHANGED <<pc, masks>>
     ELSE /\ Enter(p, IF Now(p).op = "setup" \/ ~setup[p] THEN "seed" ELSE "extend")
          /\ IF p = ALICE /\ Now(p).op = "got" /\ NeedsMasks(Now(p).N)
             THEN PrecomputeMasks(Now(p).N)
             ELSE UNCHANGED masks
          /\ UNCHANGED at
  /\ UNCHANGED <<inputs, setup, prg, rows, i, data, wire>>

Seeded(p) ==
  /\ setup' = [setup EXCEPT ![p] = TRUE]
  /\ IF Now(p).op = "setup" THEN Enter(p, "call") /\ at' = [at EXCEPT ![p] = @ + 1]
     ELSE Enter(p, "extend") /\ UNCHANGED at
  /\ UNCHANGED <<inputs, masks, prg, rows, i, data>>

SetupRecv ==
  /\ pc[BOB] = "seed"
  /\ Send(BOB, <<[kind |-> "seed"]>>)
  /\ Seeded(BOB)

SetupSend ==
  /\ pc[ALICE] = "seed" /\ Arrived(ALICE, "seed", 1)
  /\ Receive(ALICE, 1)
  /\ Seeded(ALICE)

\* send_pre: the first masks of a session without an early set-up.
FirstMasks ==
  /\ pc[ALICE] = "extend" /\ ~precomp_masks
  /\ PrecomputeMasks(Now(ALICE).N)
  /\ UNCHANGED <<inputs, at, pc, setup, prg, rows, i, data, wire>>

PaddedLength(n) == CeilDiv(n, BlockSize) * BlockSize

\* r2: the choices, then extended_r.
Extended(filler, j) ==
  IF j < Length(BOB) THEN choice[at[BOB]][j] ELSE filler[j - Length(BOB)]

\* One block of recv_pre: G0 ^ G1 ^ the column of the code words.
RecvPre ==
  /\ pc[BOB] = "extend" /\ Len(rows[BOB]) < PaddedLength(Length(BOB))
  /\ \E filler \in Fillers :
       Send(BOB, <<[kind |-> "U", val |-> [j \in 0..(BlockSize - 1) |->
         [pos |-> prg[BOB] + j, word |-> CodeWord(Extended(filler, Len(rows[BOB]) + j))]]]>>)
  /\ rows' = [rows EXCEPT ![BOB] = @ \o [j \in 1..BlockSize |->
       [pos |-> prg[BOB] + j - 1, flip |-> [c \in Columns |-> 0]]]]
  /\ prg' = [prg EXCEPT ![BOB] = @ + BlockSize]
  /\ UNCHANGED <<inputs, at, pc, setup, masks, i, data>>

Lost == -1
SendPre ==
  /\ pc[ALICE] = "extend" /\ precomp_masks
  /\ Len(rows[ALICE]) < PaddedLength(Length(ALICE))
  /\ Arrived(ALICE, "U", 1)
  /\ rows' = [rows EXCEPT ![ALICE] = @ \o [j \in 1..BlockSize |->
       LET u == Head(wire[ALICE]).val[j - 1]
       IN  [pos |-> IF u.pos = prg[ALICE] + j - 1 THEN u.pos ELSE Lost,
            flip |-> AndRow(u.word, s)]]]
  /\ prg' = [prg EXCEPT ![ALICE] = @ + BlockSize]
  /\ Receive(ALICE, 1)
  /\ UNCHANGED <<inputs, at, pc, setup, masks, i, data>>

StartPost(p) ==
  /\ pc[p] = "extend" /\ Len(rows[p]) >= PaddedLength(Length(p))
  /\ Enter(p, "post")
  /\ UNCHANGED <<inputs, at, setup, masks, prg, rows, i, data, wire>>

Batch(p) == Smaller(ro_batch_size, Length(p) - i[p])

\* key: the row under which message k of OT j goes.
Key(j, k) ==
  [pos |-> rows[ALICE][j + 1].pos, flip |-> XorRow(rows[ALICE][j + 1].flip, c_AND_s[k])]
Message(c, j, k) == <<c, j, k>>

\* The units of a batch of n OTs.
Units(p, n) == Now(p).N * n

\* got_send_post: N units per OT.
SendPost ==
  LET N == Now(ALICE).N
      ot(u) == i[ALICE] + ((u - 1) \div N)
      k(u) == (u - 1) % N
  IN  /\ pc[ALICE] = "post" /\ i[ALICE] < Length(ALICE)
      /\ Send(ALICE, [u \in 1..Units(ALICE, Batch(ALICE)) |->
           [kind |-> "Y", pad |-> Key(ot(u), k(u)), msg |-> Message(at[ALICE], ot(u), k(u))]])
      /\ i' = [i EXCEPT ![ALICE] = @ + Batch(ALICE)]
      /\ UNCHANGED <<inputs, at, pc, setup, masks, prg, rows, data>>

\* got_recv_post: unit N * j + r, under this party's own row.
Garbage == <<>>
RecvPost ==
  LET N == Now(BOB).N
      Obtained(j) ==
        LET u == wire[BOB][N * j + choice[at[BOB]][i[BOB] + j] + 1]
        IN  IF u.pad = rows[BOB][i[BOB] + j + 1] THEN u.msg ELSE Garbage
  IN  /\ pc[BOB] = "post" /\ i[BOB] < Length(BOB)
      /\ Arrived(BOB, "Y", Units(BOB, Batch(BOB)))
      /\ data' = [data EXCEPT ![at[BOB]] = @ \o [j \in 1..Batch(BOB) |-> Obtained(j - 1)]]
      /\ Receive(BOB, Units(BOB, Batch(BOB)))
      /\ i' = [i EXCEPT ![BOB] = @ + Batch(BOB)]
      /\ UNCHANGED <<inputs, at, pc, setup, masks, prg, rows>>

Return(p) ==
  /\ pc[p] = "post" /\ i[p] >= Length(p)
  /\ Enter(p, "call")
  /\ at' = [at EXCEPT ![p] = @ + 1]
  /\ i' = [i EXCEPT ![p] = 0]
  /\ rows' = [rows EXCEPT ![p] = <<>>]
  /\ UNCHANGED <<inputs, setup, masks, prg, data, wire>>

Sender ==
  \/ Begin(ALICE) \/ SetupSend \/ FirstMasks \/ SendPre \/ StartPost(ALICE)
  \/ SendPost \/ Return(ALICE)
Receiver ==
  \/ Begin(BOB) \/ SetupRecv \/ RecvPre \/ StartPost(BOB) \/ RecvPost \/ Return(BOB)
Next == Sender \/ Receiver
Spec == Init /\ [][Next]_vars
FairSpec == Spec /\ WF_vars(Sender) /\ WF_vars(Receiver)

------------------------------------------------------------------------------
Ended(p) == at[p] \notin DOMAIN program

\* A call has a mask for each of its messages and the masks are those of s,
\* in whatever order larger and smaller calls came; max_N never says more
\* than what has been computed.
MasksCover ==
  /\ pc[ALICE] = "post" => Now(ALICE).N <= max_N
  /\ \A k \in 0..(max_N - 1) : c_AND_s[k] = AndRow(CodeWord(k), s)

\* The receiver obtains the message of its choice in every OT of every call.
Transferred ==
  \A c \in DOMAIN program : \A j \in DOMAIN data[c] :
    data[c][j] = Message(c, j - 1, choice[c][j - 1])

\* The pad of a message that was not chosen differs from the receiver's row
\* by s in exactly half of the columns: the code keeps all N messages of an
\* OT equally far apart.
Apart ==
  \A u \in DOMAIN wire[BOB] :
    LET m == wire[BOB][u].msg
        d == {c \in Columns : CodeWord(m[3])[c] # CodeWord(choice[m[1]][m[2]])[c]}
    IN  /\ m[3] # choice[m[1]][m[2]] => 2 * Cardinality(d) = lambda
        /\ {c \in Columns : wire[BOB][u].pad.flip[c] = 1} = {c \in d : s[c] = 1}

\* Both parties come to the end of the session, with nothing under way.
Termination == <>(Ended(ALICE) /\ Ended(BOB) /\ wire = [p \in Party |-> <<>>])
=============================================================================
