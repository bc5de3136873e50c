--------------------------- MODULE ExtensionProofs ---------------------------
(***************************************************************************)
(* Theorems about KKOT, for any calls in any order, all choices, secrets,  *)
(* fillings and sizes of the code, of blocks and of batches; and about     *)
(* what its rows are made of and what becomes of them: the streams of Prg, *)
(* for any number of generators, any seeds, any size of batch and of       *)
(* block, and any requests; and the pads of PadBatches, for any number of  *)
(* messages and of OTs, any batch, any lanes, and all choices.             *)
(***************************************************************************)
EXTENDS KKOT, Powers, FiniteSetTheorems, SequenceTheorems, TLAPS

\* A call in which nothing is sent, and one in which nothing comes back.
Empty(call) == call.op = "got" /\ call.length < 1
Free(call) == call.op = "setup" \/ Empty(call)

NoFlip == [c \in Columns |-> 0]
Rows(p) == Len(rows[p])

\* Where one party is, by itself.  It has m rows, of whole blocks.
Fine(prog, a, place, seeded, produced, held, m, from) ==
  /\ a \in 1..(Len(prog) + 1) /\ place \in {"call", "seed", "extend", "post"} /\ seeded \in BOOLEAN
  /\ produced \in Nat /\ from \in Nat /\ m \in Nat /\ IsList(held, m) /\ m <= produced
  /\ place # "call" => a \in DOMAIN prog /\ ~Empty(prog[a])
  /\ place \in {"call", "seed"} => m = 0 /\ (a = 1 => ~seeded)
  /\ place = "seed" => ~seeded
  /\ place \in {"extend", "post"} =>
       /\ prog[a].op = "got" /\ seeded /\ m <= PaddedLength(prog[a].length)
       /\ \E q \in Nat : m = q * BlockSize
  /\ place = "post" => m = PaddedLength(prog[a].length) /\ from <= prog[a].length
  /\ place # "post" => from = 0
  /\ ~seeded => produced = 0
PartyInv(p) == Fine(program, at[p], pc[p], setup[p], prg[p], rows[p], Rows(p), i[p])

LocalInv ==
  /\ program \in Programs /\ choice \in Choices /\ s \in Secrets
  /\ at = [p \in Party |-> at[p]] /\ pc = [p \in Party |-> pc[p]] /\ setup = [p \in Party |-> setup[p]]
  /\ prg = [p \in Party |-> prg[p]] /\ rows = [p \in Party |-> rows[p]] /\ i = [p \in Party |-> i[p]]
  /\ wire = [p \in Party |-> wire[p]]
  /\ \A p \in Party : PartyInv(p)

MasksInv ==
  /\ max_N \in 0..lambda /\ precomp_masks \in BOOLEAN
  /\ c_AND_s = [k \in Columns |-> c_AND_s[k]]
  /\ \A k \in 0..(max_N - 1) : c_AND_s[k] = AndRow(CodeWord(k), s)
  /\ ~setup[ALICE] \/ ~precomp_masks => ~precomp_masks /\ max_N = 0
  /\ pc[ALICE] = "extend" => (precomp_masks => Now(ALICE).N <= max_N) /\ (Rows(ALICE) > 0 => precomp_masks)
  /\ pc[ALICE] = "post" => Now(ALICE).N <= max_N

\* How far apart the parties can be, in calls a and b.
Apart2(prog, a, b, pa, pb, ia, ib, ma, mb) ==
  /\ a < b =>
       /\ \A c \in (a + 1)..(b - 1) : Free(prog[c])
       /\ Free(prog[a]) \/ (pa = "post" /\ ia = prog[a].length)
       /\ ib = 0
  /\ b < a =>
       /\ \A c \in (b + 1)..(a - 1) : Empty(prog[c])
       /\ Empty(prog[b]) \/ (pb \in {"extend", "post"} /\ mb = PaddedLength(prog[b].length))
       /\ ma = 0
ApartInv ==
  Apart2(program, at[ALICE], at[BOB], pc[ALICE], pc[BOB], i[ALICE], i[BOB], Rows(ALICE), Rows(BOB))

\* The m rows from position pos on, of a receiver and of a sender.
RecvRows(held, m, pos) == \A j \in 1..m : held[j] = [pos |-> pos + j - 1, flip |-> NoFlip]
SendRows(held, m, pos, chosen, n, secret) ==
  \A j \in 1..m :
    /\ held[j] = [pos |-> pos + j - 1, flip |-> held[j].flip]
    /\ j <= n => held[j].flip = AndRow(CodeWord(chosen[j - 1]), secret)
RowsInv ==
  /\ RecvRows(rows[BOB], Rows(BOB), prg[BOB] - Rows(BOB))
  /\ SendRows(rows[ALICE], Rows(ALICE), prg[ALICE] - Rows(ALICE), choice[at[ALICE]], Length(ALICE), s)

\* The blocks of rows that are under way to the sender, after the seed.
Ahead(a, b, ma, mb) == IF a < b THEN mb ELSE IF a = b THEN mb - ma ELSE 0
IsBlock(u, pos, chosen, from, n) ==
  /\ u.kind = "U"
  /\ \A j \in 0..(BlockSize - 1) :
       /\ u.val[j].pos = pos + j
       /\ from + j < n => u.val[j].word = CodeWord(chosen[from + j])
UpList(w, seeds, blocks, pos, chosen, from, n) ==
  /\ IsList(w, seeds + blocks)
  /\ seeds = 1 => w[1].kind = "seed"
  /\ \A m \in 0..(blocks - 1) :
       IsBlock(w[seeds + m + 1], pos + m * BlockSize, chosen, from + m * BlockSize, n)
UpInv ==
  /\ setup[ALICE] => setup[BOB]
  /\ LET ahead == Ahead(at[ALICE], at[BOB], Rows(ALICE), Rows(BOB)) IN
     /\ prg[BOB] = prg[ALICE] + ahead
     /\ \E blocks \in Nat :
          /\ blocks * BlockSize = ahead
          /\ UpList(wire[ALICE], BitOf(setup[BOB] /\ ~setup[ALICE]), blocks, prg[ALICE],
                    choice[at[BOB]], Rows(BOB) - ahead, Length(BOB))

\* The units under way to the receiver in call c: those of OTs from .. to - 1.
Unit(held, c, N, chosen, secret, z) ==
  [kind |-> "Y",
   pad |-> [pos |-> held[(z \div N) + 1].pos,
            flip |-> XorRow(AndRow(CodeWord(chosen[z \div N]), secret), AndRow(CodeWord(z % N), secret))],
   msg |-> Message(c, z \div N, z % N)]
DownList(w, held, c, N, chosen, secret, from, to) ==
  /\ from <= to
  /\ from = to => IsList(w, 0)
  /\ from < to =>
       /\ IsList(w, N * (to - from))
       /\ \A q \in 1..(N * (to - from)) : w[q] = Unit(held, c, N, chosen, secret, N * from + q - 1)
Top(a, b, ia, ib, n) == IF a < b THEN ib ELSE IF a = b THEN ia ELSE n
DownInv ==
  DownList(wire[BOB], rows[BOB], at[BOB], Now(BOB).N, choice[at[BOB]], s, i[BOB],
           Top(at[ALICE], at[BOB], i[ALICE], i[BOB], Length(BOB)))

DataInv ==
  /\ data = [c \in DOMAIN program |-> data[c]]
  /\ \A c \in DOMAIN program : c > at[BOB] => IsList(data[c], 0)
  /\ at[BOB] \in DOMAIN program => IsList(data[at[BOB]], i[BOB])
  /\ Transferred

IInv == LocalInv /\ MasksInv /\ ApartInv /\ RowsInv /\ UpInv /\ DownInv /\ DataInv

------------------------------------------------------------------------------
(* Calls and sizes.                                                        *)

LEMMA CallType ==
  ASSUME KKOTAssumption, NEW prog \in Programs
  PROVE  /\ Len(prog) \in Nat /\ DOMAIN prog = 1..Len(prog)
         /\ \A c \in DOMAIN prog :
              /\ prog[c].op \in {"setup", "got"} /\ prog[c].length \in Nat /\ prog[c].N \in 2..lambda
              /\ prog[c].op = "setup" => c = 1
  <1>1. prog \in Seq([op : {"setup", "got"}, length : Nat, N : 2..lambda])
    BY DEF KKOTAssumption
  <1>2. \A c \in DOMAIN prog : prog[c].op = "setup" => c = 1
    BY DEF KKOTAssumption
  <1>3. Len(prog) \in Nat /\ DOMAIN prog = 1..Len(prog)
    BY <1>1
  <1>4. ASSUME NEW c \in DOMAIN prog
        PROVE  prog[c].op \in {"setup", "got"} /\ prog[c].length \in Nat /\ prog[c].N \in 2..lambda
    <2>1. PICK R : R = [op : {"setup", "got"}, length : Nat, N : 2..lambda] /\ prog \in Seq(R)
      BY <1>1
    <2>2. prog[c] \in R
      BY <1>3, <2>1, ElementOfSeq
    <2>3. prog[c] \in [op : {"setup", "got"}, length : Nat, N : 2..lambda]
      BY <2>1, <2>2
    <2> QED
      BY <2>3, Zenon
  <1> QED
    BY <1>2, <1>3, <1>4

LEMMA Sizes ==
  ASSUME KKOTAssumption
  PROVE  BlockSize \in Nat /\ BlockSize > 0 /\ ro_batch_size \in Nat /\ ro_batch_size > 0
  BY DEF KKOTAssumption

LEMMA LambdaType == KKOTAssumption => lambda \in Nat /\ lambda > 0
  BY PowerDouble DEF KKOTAssumption, lambda

\* Whole blocks, and no more than are needed.
LEMMA Padded ==
  ASSUME KKOTAssumption, NEW n \in Nat
  PROVE  \E q \in Nat : PaddedLength(n) = q * BlockSize /\ n <= q * BlockSize /\ PaddedLength(n) \in Nat
  <1>1. PICK B \in Nat : B = BlockSize /\ B > 0
    BY Sizes
  <1>2. PICK x \in Nat : x = n + B - 1
    BY <1>1
  <1>3. PICK q \in Nat, r \in Nat : q = x \div B /\ r < B /\ x = B * q + r
    BY <1>1, <1>2, DivMod
  <1>4. PICK y \in Nat : y = q * B /\ y = B * q
    BY <1>1, <1>3
  <1>5. PaddedLength(n) = y
    BY <1>1, <1>2, <1>3, <1>4 DEF PaddedLength, CeilDiv
  <1>6. n <= y
    BY <1>1, <1>2, <1>3, <1>4
  <1> QED
    BY <1>1, <1>4, <1>5, <1>6

LEMMA PaddedType ==
  ASSUME KKOTAssumption, NEW n \in Nat
  PROVE  PaddedLength(n) \in Nat /\ n <= PaddedLength(n) /\ PaddedLength(n) >= 0
  BY Padded

\* A block fits if there is room for one row.
LEMMA RoomForBlock ==
  ASSUME KKOTAssumption, NEW q \in Nat, NEW w \in Nat, q * BlockSize < w * BlockSize
  PROVE  q * BlockSize + BlockSize = (q + 1) * BlockSize /\ (q + 1) * BlockSize <= w * BlockSize
  <1>1. PICK B \in Nat : B = BlockSize /\ B > 0
    BY Sizes
  <1>2. q < w
    <2>1. ASSUME w <= q
          PROVE  FALSE
      <3>1. PICK d \in Nat : q = w + d
        <4>1. q - w \in Nat /\ q = w + (q - w)
          BY <2>1
        <4> QED
          BY <4>1
      <3>2. q * B = w * B + d * B /\ d * B \in Nat /\ w * B \in Nat
        BY <3>1
      <3> QED
        BY <1>1, <3>2
    <2> QED
      BY <2>1
  <1>3. PICK d \in Nat : w = q + 1 + d
    <2>1. w - q - 1 \in Nat /\ w = q + 1 + (w - q - 1)
      BY <1>2
    <2> QED
      BY <2>1
  <1>4. w * B = (q + 1) * B + d * B /\ d * B \in Nat /\ (q + 1) * B = q * B + B /\ q * B \in Nat
    BY <1>3
  <1> QED
    BY <1>1, <1>4

------------------------------------------------------------------------------
(* One party by itself.                                                    *)

\* A step of party p.
Touches(p) ==
  /\ program' = program /\ choice' = choice /\ s' = s
  /\ at' = [q \in Party |-> IF q = p THEN at'[q] ELSE at[q]]
  /\ pc' = [q \in Party |-> IF q = p THEN pc'[q] ELSE pc[q]]
  /\ setup' = [q \in Party |-> IF q = p THEN setup'[q] ELSE setup[q]]
  /\ prg' = [q \in Party |-> IF q = p THEN prg'[q] ELSE prg[q]]
  /\ rows' = [q \in Party |-> IF q = p THEN rows'[q] ELSE rows[q]]
  /\ i' = [q \in Party |-> IF q = p THEN i'[q] ELSE i[q]]
  /\ wire' = [q \in Party |-> wire'[q]]

LEMMA LocalKept ==
  ASSUME LocalInv, NEW p \in Party, Touches(p), PartyInv(p)'
  PROVE  LocalInv'
  <1>1. ASSUME NEW q \in Party
        PROVE  PartyInv(q)'
    <2>1. CASE q = p
      BY <2>1
    <2>2. CASE q # p
      BY <2>2 DEF LocalInv, PartyInv, Touches, Rows
    <2> QED
      BY <2>1, <2>2
  <1>2. /\ at' = [q \in Party |-> at'[q]] /\ pc' = [q \in Party |-> pc'[q]]
        /\ setup' = [q \in Party |-> setup'[q]] /\ prg' = [q \in Party |-> prg'[q]]
        /\ rows' = [q \in Party |-> rows'[q]] /\ i' = [q \in Party |-> i'[q]]
    BY DEF Touches
  <1> QED
    BY <1>1, <1>2 DEF LocalInv, Touches

\* What each step does to its own party.
LEMMA BeginTouches ==
  ASSUME LocalInv, NEW p \in Party, Begin(p)
  PROVE  /\ Touches(p) /\ prg' = prg /\ rows' = rows /\ i' = i /\ setup' = setup /\ wire' = wire /\ data' = data
         /\ at[p] \in DOMAIN program /\ pc[p] = "call"
         /\ \/ /\ Now(p).op # "setup" /\ Length(p) < 1 /\ at'[p] = at[p] + 1 /\ pc'[p] = "call"
               /\ UNCHANGED masks
            \/ /\ ~(Now(p).op # "setup" /\ Length(p) < 1) /\ at'[p] = at[p]
               /\ pc'[p] = IF Now(p).op = "setup" \/ ~setup[p] THEN "seed" ELSE "extend"
               /\ IF p = ALICE /\ Now(p).op = "got" /\ NeedsMasks(Now(p).N)
                  THEN PrecomputeMasks(Now(p).N) ELSE UNCHANGED masks
  <1>1. /\ at' = at \/ at' = [at EXCEPT ![p] = @ + 1]
        /\ pc' = pc \/ \E x : pc' = [pc EXCEPT ![p] = x]
        /\ inputs' = inputs /\ prg' = prg /\ rows' = rows /\ i' = i /\ setup' = setup /\ wire' = wire /\ data' = data
    BY DEF Begin, Enter
  <1>2. Touches(p)
    BY <1>1 DEF LocalInv, Touches, inputs
  <1> QED
    BY <1>1, <1>2 DEF LocalInv, Begin, Enter

LEMMA SeededTouches ==
  ASSUME LocalInv, NEW p \in Party, Seeded(p), wire' = [q \in Party |-> wire'[q]]
  PROVE  /\ Touches(p) /\ prg' = prg /\ rows' = rows /\ i' = i /\ data' = data /\ UNCHANGED masks
         /\ setup'[p] = TRUE
         /\ \/ Now(p).op = "setup" /\ at'[p] = at[p] + 1 /\ pc'[p] = "call"
            \/ Now(p).op # "setup" /\ at'[p] = at[p] /\ pc'[p] = "extend"
  <1>1. /\ at' = at \/ at' = [at EXCEPT ![p] = @ + 1]
        /\ \E x : pc' = [pc EXCEPT ![p] = x]
        /\ inputs' = inputs /\ prg' = prg /\ rows' = rows /\ i' = i /\ setup' = [setup EXCEPT ![p] = TRUE] /\ data' = data
        /\ UNCHANGED masks
    BY DEF Seeded, Enter
  <1>2. Touches(p)
    BY <1>1 DEF LocalInv, Touches, inputs
  <1> QED
    BY <1>1, <1>2 DEF LocalInv, Seeded, Enter

LEMMA StartPostTouches ==
  ASSUME LocalInv, NEW p \in Party, StartPost(p)
  PROVE  /\ Touches(p) /\ at' = at /\ setup' = setup /\ prg' = prg /\ rows' = rows /\ i' = i /\ data' = data
         /\ wire' = wire /\ UNCHANGED masks /\ pc'[p] = "post"
         /\ pc[p] = "extend" /\ Rows(p) >= PaddedLength(Length(p))
  <1>1. /\ pc' = [pc EXCEPT ![p] = "post"]
        /\ inputs' = inputs /\ at' = at /\ setup' = setup /\ prg' = prg /\ rows' = rows /\ i' = i /\ data' = data
        /\ wire' = wire /\ UNCHANGED masks
    BY DEF StartPost, Enter
  <1>2. Touches(p)
    BY <1>1 DEF LocalInv, Touches, inputs
  <1> QED
    BY <1>1, <1>2 DEF LocalInv, StartPost, Rows

LEMMA ReturnTouches ==
  ASSUME LocalInv, NEW p \in Party, Return(p)
  PROVE  /\ Touches(p) /\ setup' = setup /\ prg' = prg /\ data' = data /\ wire' = wire /\ UNCHANGED masks
         /\ at'[p] = at[p] + 1 /\ pc'[p] = "call" /\ i'[p] = 0 /\ rows'[p] = <<>>
         /\ pc[p] = "post" /\ i[p] >= Length(p)
  <1>1. /\ pc' = [pc EXCEPT ![p] = "call"] /\ at' = [at EXCEPT ![p] = @ + 1]
        /\ i' = [i EXCEPT ![p] = 0] /\ rows' = [rows EXCEPT ![p] = <<>>]
        /\ inputs' = inputs /\ setup' = setup /\ prg' = prg /\ data' = data /\ wire' = wire /\ UNCHANGED masks
    BY DEF Return, Enter
  <1>2. Touches(p)
    BY <1>1 DEF LocalInv, Touches, inputs
  <1> QED
    BY <1>1, <1>2 DEF LocalInv, Return

\* The wire of the other party stays as it is.
LEMMA SentOne ==
  ASSUME LocalInv, NEW p \in Party, NEW units, Send(p, units)
  PROVE  wire' = [q \in Party |-> wire'[q]] /\ wire'[Peer(p)] = wire[Peer(p)] \o units /\ wire'[p] = wire[p]
  BY DEF LocalInv, Send, Peer, Party, ALICE, BOB

LEMMA ReceivedOne ==
  ASSUME LocalInv, NEW p \in Party, NEW n, Receive(p, n)
  PROVE  /\ wire' = [q \in Party |-> wire'[q]] /\ wire'[p] = SubSeq(wire[p], n + 1, Len(wire[p]))
         /\ wire'[Peer(p)] = wire[Peer(p)]
  BY DEF LocalInv, Receive, Peer, Party, ALICE, BOB

NewRecvRows(k) == [pos |-> prg[BOB] + k - 1, flip |-> NoFlip]
LEMMA RecvPreTouches ==
  ASSUME LocalInv, RecvPre
  PROVE  /\ Touches(BOB) /\ at' = at /\ setup' = setup /\ pc' = pc /\ i' = i /\ data' = data /\ UNCHANGED masks
         /\ prg'[BOB] = prg[BOB] + BlockSize
         /\ rows'[BOB] = rows[BOB] \o [j \in 1..BlockSize |-> NewRecvRows(j)]
         /\ wire'[BOB] = wire[BOB]
         /\ pc[BOB] = "extend" /\ Rows(BOB) < PaddedLength(Length(BOB))
  <1>1. /\ prg' = [prg EXCEPT ![BOB] = @ + BlockSize]
        /\ rows' = [rows EXCEPT ![BOB] = @ \o [j \in 1..BlockSize |-> NewRecvRows(j)]]
        /\ inputs' = inputs /\ at' = at /\ setup' = setup /\ pc' = pc /\ i' = i /\ data' = data /\ UNCHANGED masks
    BY DEF RecvPre, NewRecvRows, NoFlip
  <1>2. PICK u : Send(BOB, u)
    BY DEF RecvPre
  <1>3. BOB \in Party
    BY DEF Party
  <1>4. wire' = [q \in Party |-> wire'[q]] /\ wire'[BOB] = wire[BOB]
    BY <1>2, <1>3, SentOne
  <1>5. Touches(BOB)
    BY <1>1, <1>3, <1>4 DEF LocalInv, Touches, inputs
  <1> QED
    BY <1>1, <1>3, <1>4, <1>5 DEF LocalInv, RecvPre, Rows

NewSendRow(u, k) ==
  [pos |-> IF u.val[k - 1].pos = prg[ALICE] + k - 1 THEN u.val[k - 1].pos ELSE Lost,
   flip |-> AndRow(u.val[k - 1].word, s)]
LEMMA SendPreTouches ==
  ASSUME LocalInv, SendPre
  PROVE  /\ Touches(ALICE) /\ at' = at /\ setup' = setup /\ pc' = pc /\ i' = i /\ data' = data /\ UNCHANGED masks
         /\ prg'[ALICE] = prg[ALICE] + BlockSize
         /\ rows'[ALICE] = rows[ALICE] \o [j \in 1..BlockSize |-> NewSendRow(Head(wire[ALICE]), j)]
         /\ wire'[ALICE] = SubSeq(wire[ALICE], 1 + 1, Len(wire[ALICE])) /\ wire'[BOB] = wire[BOB]
         /\ pc[ALICE] = "extend" /\ precomp_masks /\ Rows(ALICE) < PaddedLength(Length(ALICE))
         /\ Arrived(ALICE, "U", 1)
  <1>1. /\ prg' = [prg EXCEPT ![ALICE] = @ + BlockSize]
        /\ rows' = [rows EXCEPT ![ALICE] = @ \o [j \in 1..BlockSize |-> NewSendRow(Head(wire[ALICE]), j)]]
        /\ inputs' = inputs /\ at' = at /\ setup' = setup /\ pc' = pc /\ i' = i /\ data' = data /\ UNCHANGED masks
    BY DEF SendPre, NewSendRow
  <1>3. ALICE \in Party /\ Peer(ALICE) = BOB
    BY DEF Party, Peer
  <1>4. /\ wire' = [q \in Party |-> wire'[q]] /\ wire'[BOB] = wire[BOB]
        /\ wire'[ALICE] = SubSeq(wire[ALICE], 1 + 1, Len(wire[ALICE]))
    <2>1. Receive(ALICE, 1)
      BY DEF SendPre
    <2> QED
      BY <1>3, <2>1, ReceivedOne, Zenon
  <1>5. Touches(ALICE)
    BY <1>1, <1>3, <1>4 DEF LocalInv, Touches, inputs
  <1> QED
    BY <1>1, <1>3, <1>4, <1>5 DEF LocalInv, SendPre, Rows

LEMMA SendPostTouches ==
  ASSUME LocalInv, SendPost
  PROVE  /\ Touches(ALICE) /\ at' = at /\ setup' = setup /\ pc' = pc /\ prg' = prg /\ rows' = rows
         /\ data' = data /\ UNCHANGED masks
         /\ i'[ALICE] = i[ALICE] + Batch(ALICE) /\ wire'[ALICE] = wire[ALICE]
         /\ pc[ALICE] = "post" /\ i[ALICE] < Length(ALICE)
  <1>1. /\ i' = [i EXCEPT ![ALICE] = @ + Batch(ALICE)]
        /\ inputs' = inputs /\ at' = at /\ setup' = setup /\ pc' = pc /\ prg' = prg /\ rows' = rows
        /\ data' = data /\ UNCHANGED masks
    BY DEF SendPost
  <1>2. PICK u : Send(ALICE, u)
    BY DEF SendPost
  <1>3. ALICE \in Party
    BY DEF Party
  <1>4. wire' = [q \in Party |-> wire'[q]] /\ wire'[ALICE] = wire[ALICE]
    BY <1>2, <1>3, SentOne
  <1>5. Touches(ALICE)
    BY <1>1, <1>3, <1>4 DEF LocalInv, Touches, inputs
  <1> QED
    BY <1>1, <1>3, <1>4, <1>5 DEF LocalInv, SendPost

LEMMA RecvPostTouches ==
  ASSUME LocalInv, RecvPost
  PROVE  /\ Touches(BOB) /\ at' = at /\ setup' = setup /\ pc' = pc /\ prg' = prg /\ rows' = rows /\ UNCHANGED masks
         /\ i'[BOB] = i[BOB] + Batch(BOB) /\ wire'[ALICE] = wire[ALICE]
         /\ wire'[BOB] = SubSeq(wire[BOB], Units(BOB, Batch(BOB)) + 1, Len(wire[BOB]))
         /\ pc[BOB] = "post" /\ i[BOB] < Length(BOB) /\ Arrived(BOB, "Y", Units(BOB, Batch(BOB)))
  <1>1. /\ i' = [i EXCEPT ![BOB] = @ + Batch(BOB)]
        /\ inputs' = inputs /\ at' = at /\ setup' = setup /\ pc' = pc /\ prg' = prg /\ rows' = rows /\ UNCHANGED masks
    BY Zenon DEF RecvPost
  <1>2. BOB \in Party /\ Peer(BOB) = ALICE
    BY DEF Party, Peer, ALICE, BOB
  <1>3. /\ wire' = [q \in Party |-> wire'[q]] /\ wire'[ALICE] = wire[ALICE]
        /\ wire'[BOB] = SubSeq(wire[BOB], Units(BOB, Batch(BOB)) + 1, Len(wire[BOB]))
    <2>1. Receive(BOB, Units(BOB, Batch(BOB)))
      BY DEF RecvPost
    <2> QED
      BY <1>2, <2>1, ReceivedOne, Zenon
  <1>4. Touches(BOB)
    BY <1>1, <1>2, <1>3 DEF LocalInv, Touches, inputs
  <1> QED
    BY <1>1, <1>2, <1>3, <1>4 DEF LocalInv, RecvPost

\* A party goes on past a call and begins the next one.
LEMMA NextCall ==
  ASSUME NEW prog, Len(prog) \in Nat, NEW a \in 1..Len(prog), NEW seeded \in BOOLEAN, NEW produced \in Nat,
         ~seeded => produced = 0
  PROVE  Fine(prog, a + 1, "call", seeded, produced, <<>>, 0, 0)
  <1>1. a + 1 \in 1..(Len(prog) + 1) /\ a + 1 # 1
    OBVIOUS
  <1>2. IsList(<<>>, 0)
    BY DEF IsList
  <1> QED
    BY <1>1, <1>2 DEF Fine

LEMMA BeginFine ==
  ASSUME KKOTAssumption, LocalInv, NEW p \in Party, Begin(p)
  PROVE  LocalInv'
  <1>1. Touches(p) /\ prg' = prg /\ rows' = rows /\ i' = i /\ setup' = setup /\ at[p] \in DOMAIN program /\ pc[p] = "call"
    BY BeginTouches
  <1>2. PICK prog, a, sd, pr, rw, m, k :
          /\ prog = program /\ a = at[p] /\ sd = setup[p] /\ pr = prg[p] /\ rw = rows[p] /\ m = Rows(p) /\ k = i[p]
          /\ Fine(prog, a, "call", sd, pr, rw, m, k) /\ prog \in Programs
    BY <1>1 DEF LocalInv, PartyInv
  <1>3. /\ Len(prog) \in Nat /\ a \in 1..Len(prog)
        /\ prog[a].op \in {"setup", "got"} /\ prog[a].length \in Nat
        /\ prog[a].op = "setup" => a = 1
    BY <1>1, <1>2, CallType
  <1>4. program' = prog /\ setup'[p] = sd /\ prg'[p] = pr /\ rows'[p] = rw /\ Rows(p)' = m /\ i'[p] = k
    BY <1>1, <1>2 DEF Touches, Rows
  <1>5. CASE /\ Now(p).op # "setup" /\ Length(p) < 1 /\ at'[p] = at[p] + 1 /\ pc'[p] = "call"
    <2>1. Fine(prog, a + 1, "call", sd, pr, rw, m, k)
      BY <1>2, <1>3 DEF Fine
    <2> QED
      BY <1>1, <1>2, <1>4, <1>5, <2>1, LocalKept DEF PartyInv
  <1>6. CASE /\ ~(Now(p).op # "setup" /\ Length(p) < 1) /\ at'[p] = at[p]
             /\ pc'[p] = IF Now(p).op = "setup" \/ ~setup[p] THEN "seed" ELSE "extend"
    <2>1. PICK place : place = pc'[p] /\ place = (IF prog[a].op = "setup" \/ ~sd THEN "seed" ELSE "extend")
                       /\ ~(prog[a].op # "setup" /\ prog[a].length < 1)
      BY <1>2, <1>6 DEF Now, Length
    <2>2. PaddedLength(prog[a].length) >= 0
      BY <1>3, PaddedType
    <2>3. Fine(prog, a, place, sd, pr, rw, m, k)
      <3>1. CASE prog[a].op = "setup" \/ ~sd
        <4>1. place = "seed" /\ a \in DOMAIN prog /\ ~Empty(prog[a]) /\ ~sd
          BY <1>1, <1>2, <1>3, <2>1, <3>1 DEF Empty, Fine
        <4> QED
          BY <1>2, <4>1 DEF Fine
      <3>2. CASE ~(prog[a].op = "setup" \/ ~sd)
        <4>1. place = "extend" /\ a \in DOMAIN prog /\ ~Empty(prog[a]) /\ sd /\ prog[a].op = "got"
          BY <1>1, <1>2, <1>3, <2>1, <3>2 DEF Empty
        <4>2. m = 0 /\ m = 0 * BlockSize /\ 0 \in Nat
          BY <1>2, Sizes DEF Fine
        <4> QED
          BY <1>2, <2>2, <4>1, <4>2 DEF Fine
      <3> QED
        BY <3>1, <3>2
    <2> QED
      BY <1>1, <1>2, <1>4, <1>6, <2>1, <2>3, LocalKept DEF PartyInv
  <1> QED
    BY <1>5, <1>6, BeginTouches

LEMMA SeededFine ==
  ASSUME KKOTAssumption, LocalInv, NEW p \in Party, pc[p] = "seed", Seeded(p), wire' = [q \in Party |-> wire'[q]]
  PROVE  LocalInv'
  <1>1. Touches(p) /\ prg' = prg /\ rows' = rows /\ i' = i /\ setup'[p] = TRUE
    BY SeededTouches
  <1>2. PICK prog, a, sd, pr, rw, m, k :
          /\ prog = program /\ a = at[p] /\ sd = setup[p] /\ pr = prg[p] /\ rw = rows[p] /\ m = Rows(p) /\ k = i[p]
          /\ Fine(prog, a, "seed", sd, pr, rw, m, k) /\ prog \in Programs
    BY DEF LocalInv, PartyInv
  <1>3. /\ Len(prog) \in Nat /\ a \in 1..Len(prog) /\ a \in DOMAIN prog
        /\ prog[a].op \in {"setup", "got"} /\ prog[a].length \in Nat
    <2>1. a \in DOMAIN prog
      BY <1>2 DEF Fine
    <2> QED
      BY <1>2, <2>1, CallType
  <1>4. program' = prog /\ prg'[p] = pr /\ rows'[p] = rw /\ Rows(p)' = m /\ i'[p] = k
    BY <1>1, <1>2 DEF Touches, Rows
  <1>5. CASE Now(p).op = "setup" /\ at'[p] = at[p] + 1 /\ pc'[p] = "call"
    <2>1. a + 1 \in 1..(Len(prog) + 1) /\ a + 1 # 1
      BY <1>3
    <2>2. Fine(prog, a + 1, "call", TRUE, pr, rw, m, k)
      BY <1>2, <2>1 DEF Fine
    <2> QED
      BY <1>1, <1>2, <1>4, <1>5, <2>2, LocalKept DEF PartyInv
  <1>6. CASE Now(p).op # "setup" /\ at'[p] = at[p] /\ pc'[p] = "extend"
    <2>1. prog[a].op = "got"
      BY <1>2, <1>3, <1>6 DEF Now
    <2>2. PaddedLength(prog[a].length) >= 0
      BY <1>3, PaddedType
    <2>3. m = 0 /\ m = 0 * BlockSize /\ 0 \in Nat
      BY <1>2, Sizes DEF Fine
    <2>4. Fine(prog, a, "extend", TRUE, pr, rw, m, k)
      BY <1>2, <2>1, <2>2, <2>3 DEF Fine
    <2> QED
      BY <1>1, <1>2, <1>4, <1>6, <2>4, LocalKept DEF PartyInv
  <1> QED
    BY <1>5, <1>6, SeededTouches

LEMMA StartPostFine ==
  ASSUME KKOTAssumption, LocalInv, NEW p \in Party, StartPost(p)
  PROVE  LocalInv'
  <1>1. /\ Touches(p) /\ at' = at /\ setup' = setup /\ prg' = prg /\ rows' = rows /\ i' = i /\ pc'[p] = "post"
        /\ pc[p] = "extend" /\ Rows(p) >= PaddedLength(Length(p))
    BY StartPostTouches
  <1>2. PICK prog, a, sd, pr, rw, m, k :
          /\ prog = program /\ a = at[p] /\ sd = setup[p] /\ pr = prg[p] /\ rw = rows[p] /\ m = Rows(p) /\ k = i[p]
          /\ Fine(prog, a, "extend", sd, pr, rw, m, k) /\ prog \in Programs
    BY <1>1 DEF LocalInv, PartyInv
  <1>3. prog[a].length \in Nat
    BY <1>2, CallType DEF Fine
  <1>4. m >= PaddedLength(prog[a].length) /\ PaddedLength(prog[a].length) \in Nat
    BY <1>1, <1>2, <1>3, Padded DEF Length, Now
  <1>5. Fine(prog, a, "post", sd, pr, rw, m, k)
    BY <1>2, <1>3, <1>4 DEF Fine
  <1>6. program' = prog /\ at'[p] = a /\ setup'[p] = sd /\ prg'[p] = pr /\ rows'[p] = rw /\ Rows(p)' = m /\ i'[p] = k
    BY <1>1, <1>2 DEF Touches, Rows
  <1> QED
    BY <1>1, <1>5, <1>6, LocalKept DEF PartyInv

LEMMA ReturnFine ==
  ASSUME KKOTAssumption, LocalInv, NEW p \in Party, Return(p)
  PROVE  LocalInv'
  <1>1. /\ Touches(p) /\ setup' = setup /\ prg' = prg
        /\ at'[p] = at[p] + 1 /\ pc'[p] = "call" /\ i'[p] = 0 /\ rows'[p] = <<>> /\ pc[p] = "post"
    BY ReturnTouches
  <1>2. PICK prog, a, sd, pr, rw, m, k :
          /\ prog = program /\ a = at[p] /\ sd = setup[p] /\ pr = prg[p]
          /\ Fine(prog, a, "post", sd, pr, rw, m, k) /\ prog \in Programs
    BY <1>1 DEF LocalInv, PartyInv
  <1>3. Len(prog) \in Nat /\ a \in 1..Len(prog) /\ sd \in BOOLEAN /\ pr \in Nat /\ (~sd => pr = 0)
    BY <1>2, CallType DEF Fine
  <1>4. Fine(prog, a + 1, "call", sd, pr, <<>>, 0, 0)
    BY <1>3, NextCall
  <1>5. program' = prog /\ at'[p] = a + 1 /\ setup'[p] = sd /\ prg'[p] = pr /\ rows'[p] = <<>> /\ Rows(p)' = 0
    BY <1>1, <1>2 DEF Touches, Rows
  <1> QED
    BY <1>1, <1>4, <1>5, LocalKept DEF PartyInv

\* A block more.
LEMMA BlockFine ==
  ASSUME KKOTAssumption, NEW prog \in Programs, NEW a, NEW sd, NEW pr, NEW rw, NEW m, NEW k,
         Fine(prog, a, "extend", sd, pr, rw, m, k), m < PaddedLength(prog[a].length),
         NEW more, IsList(more, BlockSize), NEW rw2, IsJoin(rw2, rw, more)
  PROVE  /\ Fine(prog, a, "extend", sd, pr + BlockSize, rw2, m + BlockSize, k) /\ Len(rw2) = m + BlockSize
         /\ \A j \in 1..m : rw2[j] = rw[j]
         /\ \A j \in 1..BlockSize : rw2[m + j] = more[j]
         /\ m + BlockSize <= PaddedLength(prog[a].length)
  <1>1. PICK B \in Nat : B = BlockSize /\ B > 0
    BY Sizes
  <1>2. m \in Nat /\ pr \in Nat /\ m <= pr /\ IsList(rw, m) /\ a \in DOMAIN prog
    BY DEF Fine
  <1>3. /\ IsList(rw2, m + B) /\ Len(rw2) = m + B
        /\ \A j \in 1..m : rw2[j] = rw[j]
        /\ \A j \in 1..B : rw2[m + j] = more[j]
    <2>1. IsList(rw2, m + B) /\ (\A j \in 1..m : rw2[j] = rw[j]) /\ \A j \in 1..B : rw2[m + j] = more[j]
      BY <1>1, <1>2, JoinedList
    <2>2. m + B \in Nat
      BY <1>1, <1>2
    <2> QED
      BY <2>1, <2>2, ListFacts
  <1>4. PICK q \in Nat : m = q * BlockSize
    BY DEF Fine
  <1>5. PICK w \in Nat : PaddedLength(prog[a].length) = w * BlockSize
    <2>1. prog[a].length \in Nat
      BY <1>2, CallType
    <2> QED
      BY <2>1, Padded
  <1>6. m + B = (q + 1) * BlockSize /\ m + B <= PaddedLength(prog[a].length) /\ q + 1 \in Nat
    BY <1>1, <1>4, <1>5, RoomForBlock
  <1>7. m + B \in Nat /\ pr + B \in Nat /\ m + B <= pr + B
    BY <1>1, <1>2
  <1>8. Fine(prog, a, "extend", sd, pr + B, rw2, m + B, k)
    BY <1>3, <1>6, <1>7 DEF Fine
  <1> QED
    BY <1>1, <1>3, <1>6, <1>8

LEMMA RecvPreFine ==
  ASSUME KKOTAssumption, LocalInv, RecvPre
  PROVE  /\ LocalInv' /\ Rows(BOB)' = Rows(BOB) + BlockSize
         /\ \A j \in 1..Rows(BOB) : rows'[BOB][j] = rows[BOB][j]
         /\ \A j \in 1..BlockSize : rows'[BOB][Rows(BOB) + j] = NewRecvRows(j)
         /\ Rows(BOB) + BlockSize <= PaddedLength(Length(BOB))
  <1>1. /\ Touches(BOB) /\ at' = at /\ setup' = setup /\ pc' = pc /\ i' = i
        /\ prg'[BOB] = prg[BOB] + BlockSize
        /\ rows'[BOB] = rows[BOB] \o [j \in 1..BlockSize |-> NewRecvRows(j)]
        /\ pc[BOB] = "extend" /\ Rows(BOB) < PaddedLength(Length(BOB))
    BY RecvPreTouches
  <1>2. PICK prog, a, sd, pr, rw, m, k :
          /\ prog = program /\ a = at[BOB] /\ sd = setup[BOB] /\ pr = prg[BOB] /\ rw = rows[BOB] /\ m = Rows(BOB)
          /\ k = i[BOB] /\ Fine(prog, a, "extend", sd, pr, rw, m, k) /\ prog \in Programs
    BY <1>1 DEF LocalInv, PartyInv, Party
  <1>3. PICK more : more = [j \in 1..BlockSize |-> NewRecvRows(j)]
    OBVIOUS
  <1>4. IsList(more, BlockSize) /\ \A j \in 1..BlockSize : more[j] = NewRecvRows(j)
    BY <1>3 DEF IsList
  <1>5. IsJoin(rows'[BOB], rw, more)
    BY <1>1, <1>2, <1>3 DEF IsJoin
  <1>6. m < PaddedLength(prog[a].length)
    BY <1>1, <1>2 DEF Length, Now
  <1>7. PICK rw2 : rw2 = rows'[BOB]
    OBVIOUS
  <1>8. /\ Fine(prog, a, "extend", sd, pr + BlockSize, rw2, m + BlockSize, k) /\ Len(rw2) = m + BlockSize
        /\ \A j \in 1..m : rw2[j] = rw[j]
        /\ \A j \in 1..BlockSize : rw2[m + j] = more[j]
        /\ m + BlockSize <= PaddedLength(prog[a].length)
    BY <1>2, <1>4, <1>5, <1>6, <1>7, BlockFine
  <1>9. /\ program' = prog /\ at'[BOB] = a /\ setup'[BOB] = sd /\ prg'[BOB] = pr + BlockSize /\ pc'[BOB] = "extend"
        /\ i'[BOB] = k /\ Rows(BOB)' = m + BlockSize
    BY <1>1, <1>2, <1>7, <1>8 DEF Touches, Rows
  <1>10. LocalInv'
    BY <1>1, <1>7, <1>8, <1>9, LocalKept DEF PartyInv, Party
  <1> QED
    BY <1>2, <1>4, <1>7, <1>8, <1>9, <1>10 DEF Length, Now

LEMMA SendPreFine ==
  ASSUME KKOTAssumption, LocalInv, SendPre
  PROVE  /\ LocalInv' /\ Rows(ALICE)' = Rows(ALICE) + BlockSize
         /\ \A j \in 1..Rows(ALICE) : rows'[ALICE][j] = rows[ALICE][j]
         /\ \A j \in 1..BlockSize : rows'[ALICE][Rows(ALICE) + j] = NewSendRow(Head(wire[ALICE]), j)
         /\ Rows(ALICE) + BlockSize <= PaddedLength(Length(ALICE))
  <1>1. /\ Touches(ALICE) /\ at' = at /\ setup' = setup /\ pc' = pc /\ i' = i
        /\ prg'[ALICE] = prg[ALICE] + BlockSize
        /\ rows'[ALICE] = rows[ALICE] \o [j \in 1..BlockSize |-> NewSendRow(Head(wire[ALICE]), j)]
        /\ pc[ALICE] = "extend" /\ Rows(ALICE) < PaddedLength(Length(ALICE))
    BY SendPreTouches
  <1>2. PICK prog, a, sd, pr, rw, m, k :
          /\ prog = program /\ a = at[ALICE] /\ sd = setup[ALICE] /\ pr = prg[ALICE] /\ rw = rows[ALICE]
          /\ m = Rows(ALICE) /\ k = i[ALICE] /\ Fine(prog, a, "extend", sd, pr, rw, m, k) /\ prog \in Programs
    BY <1>1 DEF LocalInv, PartyInv, Party
  <1>3. PICK more, u : u = Head(wire[ALICE]) /\ more = [j \in 1..BlockSize |-> NewSendRow(u, j)]
    OBVIOUS
  <1>4. IsList(more, BlockSize) /\ \A j \in 1..BlockSize : more[j] = NewSendRow(u, j)
    BY <1>3 DEF IsList
  <1>5. IsJoin(rows'[ALICE], rw, more)
    BY <1>1, <1>2, <1>3 DEF IsJoin
  <1>6. m < PaddedLength(prog[a].length)
    BY <1>1, <1>2 DEF Length, Now
  <1>7. PICK rw2 : rw2 = rows'[ALICE]
    OBVIOUS
  <1>8. /\ Fine(prog, a, "extend", sd, pr + BlockSize, rw2, m + BlockSize, k) /\ Len(rw2) = m + BlockSize
        /\ \A j \in 1..m : rw2[j] = rw[j]
        /\ \A j \in 1..BlockSize : rw2[m + j] = more[j]
        /\ m + BlockSize <= PaddedLength(prog[a].length)
    BY <1>2, <1>4, <1>5, <1>6, <1>7, BlockFine
  <1>9. /\ program' = prog /\ at'[ALICE] = a /\ setup'[ALICE] = sd /\ prg'[ALICE] = pr + BlockSize
        /\ pc'[ALICE] = "extend" /\ i'[ALICE] = k /\ Rows(ALICE)' = m + BlockSize
    BY <1>1, <1>2, <1>7, <1>8 DEF Touches, Rows
  <1>10. LocalInv'
    BY <1>1, <1>7, <1>8, <1>9, LocalKept DEF PartyInv, Party
  <1> QED
    BY <1>2, <1>3, <1>4, <1>7, <1>8, <1>9, <1>10 DEF Length, Now

\* A batch more.
LEMMA BatchFine ==
  ASSUME KKOTAssumption, LocalInv, NEW p \in Party, pc[p] = "post", i[p] < Length(p), Touches(p),
         at' = at, setup' = setup, pc' = pc, prg' = prg, rows' = rows, i'[p] = i[p] + Batch(p)
  PROVE  /\ LocalInv' /\ Batch(p) \in Nat /\ Batch(p) > 0 /\ i[p] \in Nat /\ Length(p) \in Nat
         /\ i[p] + Batch(p) <= Length(p)
  <1>1. PICK prog, a, sd, pr, rw, m, k :
          /\ prog = program /\ a = at[p] /\ sd = setup[p] /\ pr = prg[p] /\ rw = rows[p] /\ m = Rows(p) /\ k = i[p]
          /\ Fine(prog, a, "post", sd, pr, rw, m, k) /\ prog \in Programs
    BY DEF LocalInv, PartyInv
  <1>2. PICK n \in Nat : n = prog[a].length /\ n = Length(p)
    <2>1. prog[a].length \in Nat
      BY <1>1, CallType DEF Fine
    <2> QED
      BY <1>1, <2>1 DEF Length, Now
  <1>3. k \in Nat /\ k < n
    BY <1>1, <1>2 DEF Fine
  <1>4. PICK d \in Nat : d = Batch(p) /\ d > 0 /\ k + d <= n
    <2>1. PICK c \in Nat : c = ro_batch_size /\ c > 0
      BY Sizes
    <2>2. Batch(p) = IF c < n - k THEN c ELSE n - k
      BY <1>1, <1>2, <2>1 DEF Batch, Smaller
    <2> QED
      BY <1>2, <1>3, <2>1, <2>2
  <1>5. Fine(prog, a, "post", sd, pr, rw, m, k + d)
    <2>1. PICK l : l = k + d /\ l \in Nat /\ l <= prog[a].length
      BY <1>2, <1>3, <1>4
    <2>2. Fine(prog, a, "post", sd, pr, rw, m, l)
      BY <1>1, <2>1 DEF Fine
    <2> QED
      BY <2>1, <2>2
  <1>6. program' = prog /\ at'[p] = a /\ setup'[p] = sd /\ prg'[p] = pr /\ rows'[p] = rw /\ Rows(p)' = m
        /\ pc'[p] = "post" /\ i'[p] = k + d
    BY <1>1, <1>4 DEF Touches, Rows
  <1>7. LocalInv'
    BY <1>5, <1>6, LocalKept DEF PartyInv
  <1> QED
    BY <1>1, <1>2, <1>3, <1>4, <1>7

LEMMA FirstMasksFine ==
  ASSUME LocalInv, FirstMasks
  PROVE  LocalInv'
  BY DEF LocalInv, PartyInv, Rows, FirstMasks, inputs

LEMMA SetupFine ==
  ASSUME KKOTAssumption, LocalInv, SetupRecv \/ SetupSend
  PROVE  LocalInv'
  <1>1. CASE SetupRecv
    <2>1. PICK u : Send(BOB, u)
      BY <1>1 DEF SetupRecv
    <2>2. wire' = [q \in Party |-> wire'[q]]
      BY <2>1, SentOne DEF Party
    <2> QED
      BY <1>1, <2>2, SeededFine DEF SetupRecv, Party
  <1>2. CASE SetupSend
    <2>1. Receive(ALICE, 1)
      BY <1>2 DEF SetupSend
    <2>2. wire' = [q \in Party |-> wire'[q]]
      BY <2>1, ReceivedOne, Zenon DEF Party
    <2> QED
      BY <1>2, <2>2, SeededFine DEF SetupSend, Party
  <1> QED
    BY <1>1, <1>2

LEMMA LocalStep ==
  ASSUME KKOTAssumption, LocalInv, [Next]_vars
  PROVE  LocalInv'
  <1>1. CASE SendPost
    <2>1. ALICE \in Party
      BY DEF Party
    <2> QED
      BY <1>1, <2>1, SendPostTouches, BatchFine
  <1>2. CASE RecvPost
    <2>1. BOB \in Party
      BY DEF Party
    <2> QED
      BY <1>2, <2>1, RecvPostTouches, BatchFine
  <1>3. CASE UNCHANGED vars
    BY <1>3 DEF LocalInv, PartyInv, Rows, vars, inputs
  <1>4. CASE \E p \in Party : Begin(p) \/ StartPost(p) \/ Return(p)
    BY <1>4, BeginFine, StartPostFine, ReturnFine
  <1>5. CASE RecvPre \/ SendPre
    BY <1>5, RecvPreFine, SendPreFine
  <1> QED
    BY <1>1, <1>2, <1>3, <1>4, <1>5, SetupFine, FirstMasksFine DEF Next, Sender, Receiver, Party

------------------------------------------------------------------------------
(* The masks.                                                              *)

\* More masks, from those that there are on.
LEMMA MoreMasks ==
  ASSUME KKOTAssumption, MasksInv, NEW n \in 2..lambda, max_N <= n, PrecomputeMasks(n)
  PROVE  /\ precomp_masks' = TRUE /\ max_N' = n /\ c_AND_s' = [k \in Columns |-> c_AND_s'[k]]
         /\ \A k \in 0..(n - 1) : c_AND_s'[k] = AndRow(CodeWord(k), s)
  <1>1. PICK L \in Nat, M \in Nat : L = lambda /\ M = max_N /\ n \in Nat /\ n <= L
    BY LambdaType DEF MasksInv
  <1>2. c_AND_s' = [k \in Columns |-> IF k \in M..(n - 1) THEN AndRow(CodeWord(k), s) ELSE c_AND_s[k]]
    BY <1>1 DEF PrecomputeMasks, Masks
  <1>3. ASSUME NEW k \in 0..(n - 1)
        PROVE  c_AND_s'[k] = AndRow(CodeWord(k), s)
    <2>1. k \in Columns
      BY <1>1 DEF Columns
    <2>2. k \in M..(n - 1) \/ k \in 0..(M - 1)
      BY <1>1
    <2> QED
      BY <1>1, <1>2, <2>1, <2>2 DEF MasksInv
  <1>4. c_AND_s' = [k \in Columns |-> c_AND_s'[k]]
    BY <1>2
  <1> QED
    BY <1>3, <1>4 DEF PrecomputeMasks

\* A step that computes no masks.
LEMMA MasksKept ==
  ASSUME MasksInv, UNCHANGED masks, s' = s, setup[ALICE] => setup'[ALICE],
         pc'[ALICE] = "extend" =>
           /\ precomp_masks => Now(ALICE)'.N <= max_N
           /\ Rows(ALICE)' > 0 => precomp_masks,
         pc'[ALICE] = "post" => Now(ALICE)'.N <= max_N
  PROVE  MasksInv'
  BY DEF MasksInv, masks

LEMMA MasksByAlice ==
  ASSUME KKOTAssumption, LocalInv, MasksInv, Sender
  PROVE  MasksInv'
  <1>0. ALICE \in Party
    BY DEF Party
  <1>1. PICK prog, a, sd, pr, rw, m, k :
          /\ prog = program /\ a = at[ALICE] /\ sd = setup[ALICE] /\ pr = prg[ALICE] /\ rw = rows[ALICE]
          /\ m = Rows(ALICE) /\ k = i[ALICE] /\ Fine(prog, a, pc[ALICE], sd, pr, rw, m, k) /\ prog \in Programs
    BY <1>0 DEF LocalInv, PartyInv
  <1>2. PICK top \in Nat : top = max_N /\ top \in 0..lambda
    BY LambdaType DEF MasksInv
  <1>3. a \in DOMAIN prog => prog[a].N \in 2..lambda /\ prog[a].length \in Nat
    BY <1>1, CallType
  <1>4. CASE Begin(ALICE)
    <2>1. /\ Touches(ALICE) /\ rows' = rows /\ setup' = setup /\ a \in DOMAIN prog /\ pc[ALICE] = "call"
      BY <1>0, <1>1, <1>4, BeginTouches
    <2>2. m = 0 /\ Rows(ALICE)' = 0 /\ s' = s /\ program' = prog
      BY <1>1, <2>1 DEF Fine, Rows, Touches
    <2>3. CASE at'[ALICE] = a + 1 /\ pc'[ALICE] = "call" /\ UNCHANGED masks
      BY <2>1, <2>2, <2>3, MasksKept
    <2>4. CASE /\ at'[ALICE] = at[ALICE] /\ pc'[ALICE] = (IF Now(ALICE).op = "setup" \/ ~setup[ALICE] THEN "seed" ELSE "extend")
               /\ IF ALICE = ALICE /\ Now(ALICE).op = "got" /\ NeedsMasks(Now(ALICE).N)
                  THEN PrecomputeMasks(Now(ALICE).N) ELSE UNCHANGED masks
      <3>1. Now(ALICE)' = Now(ALICE) /\ Now(ALICE) = prog[a]
        BY <1>1, <2>2, <2>4 DEF Now
      <3>2. CASE Now(ALICE).op = "got" /\ NeedsMasks(Now(ALICE).N)
        <4>1. prog[a].N \in 2..lambda /\ max_N <= prog[a].N /\ PrecomputeMasks(prog[a].N) /\ setup[ALICE]
          BY <1>2, <1>3, <2>1, <2>4, <3>1, <3>2 DEF NeedsMasks
        <4>2. /\ precomp_masks' = TRUE /\ max_N' = prog[a].N /\ c_AND_s' = [c \in Columns |-> c_AND_s'[c]]
              /\ \A c \in 0..(prog[a].N - 1) : c_AND_s'[c] = AndRow(CodeWord(c), s)
          BY <4>1, MoreMasks
        <4>3. max_N' \in 0..lambda /\ Now(ALICE)'.N <= max_N'
          <5>1. PICK n \in Nat, L \in Nat : n = prog[a].N /\ L = lambda /\ n <= L
            BY <4>1, LambdaType
          <5>2. max_N' = n /\ Now(ALICE)'.N = n
            BY <3>1, <4>2, <5>1
          <5> QED
            BY <5>1, <5>2
        <4>4. pc'[ALICE] # "post"
          BY <2>4
        <4>5. \A c \in 0..(max_N' - 1) : c_AND_s'[c] = AndRow(CodeWord(c), s')
          BY <2>2, <4>2
        <4> QED
          BY <2>1, <4>1, <4>2, <4>3, <4>4, <4>5 DEF MasksInv
      <3>3. CASE ~(Now(ALICE).op = "got" /\ NeedsMasks(Now(ALICE).N))
        <4>1. UNCHANGED masks
          BY <2>4, <3>3
        <4>2. pc'[ALICE] = "extend" => prog[a].N <= top
          <5>1. pc'[ALICE] = "extend" => Now(ALICE).op # "setup" /\ setup[ALICE]
            BY <2>4
          <5>2. Now(ALICE).op \in {"setup", "got"}
            BY <1>1, <2>1, <3>1, CallType
          <5>3. pc'[ALICE] = "extend" => ~(top < prog[a].N)
            BY <1>2, <3>1, <3>3, <5>1, <5>2 DEF NeedsMasks
          <5>4. PICK n \in Nat : n = prog[a].N
            BY <1>3, <2>1, LambdaType
          <5> QED
            BY <5>3, <5>4
        <4>3. pc'[ALICE] # "post"
          BY <2>4
        <4> QED
          BY <1>2, <2>1, <2>2, <3>1, <4>1, <4>2, <4>3, MasksKept
      <3> QED
        BY <3>2, <3>3
    <2> QED
      BY <1>0, <1>1, <1>4, <2>3, <2>4, BeginTouches
  <1>5. CASE SetupSend
    <2>1. pc[ALICE] = "seed" /\ Seeded(ALICE) /\ wire' = [q \in Party |-> wire'[q]]
      <3>1. Receive(ALICE, 1)
        BY <1>5 DEF SetupSend
      <3> QED
        BY <1>0, <1>5, <3>1, ReceivedOne, Zenon DEF SetupSend
    <2>2. /\ Touches(ALICE) /\ rows' = rows /\ UNCHANGED masks /\ setup'[ALICE] = TRUE
          /\ pc'[ALICE] \in {"call", "extend"}
      BY <1>0, <2>1, SeededTouches
    <2>3. m = 0 /\ Rows(ALICE)' = 0 /\ s' = s /\ ~sd
      BY <1>1, <2>1, <2>2 DEF Fine, Rows, Touches
    <2>4. ~precomp_masks
      BY <1>1, <2>3 DEF MasksInv
    <2> QED
      BY <2>2, <2>3, <2>4, MasksKept
  <1>6. CASE FirstMasks
    <2>1. pc[ALICE] = "extend" /\ ~precomp_masks /\ PrecomputeMasks(Now(ALICE).N)
          /\ UNCHANGED <<inputs, at, pc, setup, prg, rows, i, data, wire>>
      BY <1>6 DEF FirstMasks
    <2>2. max_N = 0 /\ a \in DOMAIN prog /\ setup[ALICE]
      BY <1>1, <2>1 DEF MasksInv, Fine
    <2>3. PICK n \in Nat, L \in Nat : n = prog[a].N /\ L = lambda /\ n <= L /\ n \in 2..lambda
      BY <1>3, <2>2, LambdaType
    <2>4. Now(ALICE) = prog[a] /\ Now(ALICE)' = prog[a] /\ s' = s
      BY <1>1, <2>1 DEF Now, inputs
    <2>5. /\ precomp_masks' = TRUE /\ max_N' = n /\ c_AND_s' = [c \in Columns |-> c_AND_s'[c]]
          /\ \A c \in 0..(n - 1) : c_AND_s'[c] = AndRow(CodeWord(c), s)
      <3>1. max_N <= n /\ PrecomputeMasks(n)
        BY <1>1, <2>1, <2>2, <2>3, <2>4
      <3> QED
        BY <2>3, <3>1, MoreMasks
    <2>6. max_N' \in 0..lambda /\ Now(ALICE)'.N <= max_N'
      BY <2>3, <2>4, <2>5
    <2>7. \A c \in 0..(max_N' - 1) : c_AND_s'[c] = AndRow(CodeWord(c), s')
      BY <2>4, <2>5
    <2> QED
      BY <2>1, <2>2, <2>5, <2>6, <2>7 DEF MasksInv
  <1>7. CASE SendPre
    <2>1. Touches(ALICE) /\ at' = at /\ setup' = setup /\ pc' = pc /\ UNCHANGED masks /\ pc[ALICE] = "extend" /\ precomp_masks
      BY <1>7, SendPreTouches
    <2>2. s' = s /\ Now(ALICE)' = Now(ALICE)
      BY <2>1 DEF Touches, Now
    <2> QED
      BY <2>1, <2>2, MasksKept DEF MasksInv
  <1>8. CASE StartPost(ALICE)
    <2>1. /\ Touches(ALICE) /\ at' = at /\ setup' = setup /\ UNCHANGED masks /\ pc'[ALICE] = "post"
          /\ pc[ALICE] = "extend" /\ Rows(ALICE) >= PaddedLength(Length(ALICE))
      BY <1>0, <1>8, StartPostTouches
    <2>2. s' = s /\ Now(ALICE)' = Now(ALICE)
      BY <2>1 DEF Touches, Now
    <2>3. m > 0
      <3>1. a \in DOMAIN prog /\ ~Empty(prog[a]) /\ prog[a].op = "got" /\ m \in Nat
        BY <1>1, <2>1 DEF Fine
      <3>2. PICK n \in Nat : n = prog[a].length /\ n > 0
        BY <1>3, <3>1 DEF Empty
      <3>3. PaddedLength(n) \in Nat /\ n <= PaddedLength(n)
        BY <3>2, PaddedType
      <3>4. m >= PaddedLength(n)
        BY <1>1, <2>1, <3>2 DEF Length, Now
      <3> QED
        BY <3>1, <3>2, <3>3, <3>4
    <2>4. Now(ALICE).N <= max_N
      BY <1>1, <2>1, <2>3 DEF MasksInv
    <2> QED
      BY <2>1, <2>2, <2>4, MasksKept
  <1>9. CASE SendPost
    <2>1. Touches(ALICE) /\ at' = at /\ setup' = setup /\ pc' = pc /\ UNCHANGED masks /\ pc[ALICE] = "post"
      BY <1>9, SendPostTouches
    <2>2. s' = s /\ Now(ALICE)' = Now(ALICE)
      BY <2>1 DEF Touches, Now
    <2> QED
      BY <2>1, <2>2, MasksKept DEF MasksInv
  <1>10. CASE Return(ALICE)
    <2>1. Touches(ALICE) /\ setup' = setup /\ UNCHANGED masks /\ pc'[ALICE] = "call"
      BY <1>0, <1>10, ReturnTouches
    <2> QED
      BY <2>1, MasksKept DEF Touches
  <1> QED
    BY <1>4, <1>5, <1>6, <1>7, <1>8, <1>9, <1>10 DEF Sender

\* What the receiver's steps leave alone.
Idle(p) ==
  /\ program' = program /\ choice' = choice /\ s' = s
  /\ at'[p] = at[p] /\ pc'[p] = pc[p] /\ setup'[p] = setup[p] /\ prg'[p] = prg[p] /\ rows'[p] = rows[p]
  /\ i'[p] = i[p]

LEMMA OtherIdle ==
  ASSUME NEW p \in Party, NEW q \in Party, p # q, Touches(p)
  PROVE  Idle(q)
  BY DEF Touches, Idle

LEMMA ReceiverTouches ==
  ASSUME LocalInv, Receiver
  PROVE  Touches(BOB) /\ Idle(ALICE) /\ UNCHANGED masks
  <1>0. ALICE \in Party /\ BOB \in Party /\ BOB # ALICE
    BY DEF Party, ALICE, BOB
  <1>1. Touches(BOB) /\ UNCHANGED masks
    <2>1. CASE Begin(BOB)
      BY <1>0, <2>1, BeginTouches
    <2>2. CASE SetupRecv
      <3>1. PICK u : Send(BOB, u)
        BY <2>2 DEF SetupRecv
      <3>2. wire' = [q \in Party |-> wire'[q]]
        BY <1>0, <3>1, SentOne
      <3> QED
        BY <1>0, <2>2, <3>2, SeededTouches DEF SetupRecv
    <2>3. CASE RecvPre \/ RecvPost
      BY <2>3, RecvPreTouches, RecvPostTouches
    <2>4. CASE StartPost(BOB) \/ Return(BOB)
      BY <1>0, <2>4, StartPostTouches, ReturnTouches
    <2> QED
      BY <2>1, <2>2, <2>3, <2>4 DEF Receiver
  <1> QED
    BY <1>0, <1>1, OtherIdle

LEMMA MasksStep ==
  ASSUME KKOTAssumption, LocalInv, MasksInv, [Next]_vars
  PROVE  MasksInv'
  <1>1. CASE Receiver
    <2>1. Idle(ALICE) /\ UNCHANGED masks
      BY <1>1, ReceiverTouches
    <2>2. Now(ALICE)' = Now(ALICE) /\ Rows(ALICE)' = Rows(ALICE) /\ setup'[ALICE] = setup[ALICE] /\ s' = s /\ pc'[ALICE] = pc[ALICE]
      BY <2>1 DEF Idle, Now, Rows
    <2> QED
      BY <2>1, <2>2, MasksKept DEF MasksInv
  <1>2. CASE UNCHANGED vars
    BY <1>2 DEF MasksInv, vars, masks, inputs, Now, Rows
  <1> QED
    BY <1>1, <1>2, MasksByAlice DEF Next

------------------------------------------------------------------------------
(* How far apart the parties are.                                          *)

\* One party, as its steps meet it.
LEMMA View ==
  ASSUME KKOTAssumption, LocalInv, NEW p \in Party
  PROVE  /\ at[p] \in Nat /\ at[p] > 0 /\ i[p] \in Nat /\ Rows(p) \in Nat /\ prg[p] \in Nat
         /\ pc[p] \in {"call", "seed", "extend", "post"} /\ setup[p] \in BOOLEAN
         /\ IsList(rows[p], Rows(p)) /\ Rows(p) <= prg[p]
         /\ at[p] \in DOMAIN program =>
              /\ Length(p) \in Nat /\ Now(p).N \in Nat /\ Now(p).N > 0 /\ Now(p).N \in 2..lambda
              /\ Now(p).op \in {"setup", "got"}
              /\ Now(p).op = "setup" => at[p] = 1
         /\ pc[p] # "call" => at[p] \in DOMAIN program /\ ~Empty(Now(p))
         /\ pc[p] \in {"call", "seed"} => Rows(p) = 0 /\ (at[p] = 1 => ~setup[p])
         /\ pc[p] = "seed" => ~setup[p]
         /\ pc[p] \in {"extend", "post"} =>
              /\ setup[p] /\ Now(p).op = "got" /\ Length(p) > 0 /\ Rows(p) <= PaddedLength(Length(p))
              /\ PaddedLength(Length(p)) \in Nat /\ Length(p) <= PaddedLength(Length(p))
              /\ \E q \in Nat : Rows(p) = q * BlockSize
         /\ pc[p] = "post" => Rows(p) = PaddedLength(Length(p)) /\ i[p] <= Length(p)
         /\ pc[p] # "post" => i[p] = 0
         /\ ~setup[p] => prg[p] = 0
  <1>1. PICK prog, a, place, sd, pr, rw, m, k :
          /\ prog = program /\ a = at[p] /\ place = pc[p] /\ sd = setup[p] /\ pr = prg[p] /\ rw = rows[p]
          /\ m = Rows(p) /\ k = i[p] /\ Fine(prog, a, place, sd, pr, rw, m, k) /\ prog \in Programs
    BY DEF LocalInv, PartyInv
  <1>2. a \in Nat /\ a > 0
    BY <1>1, CallType DEF Fine
  <1>3. a \in DOMAIN prog =>
          /\ prog[a].length \in Nat /\ prog[a].N \in Nat /\ prog[a].N > 0 /\ prog[a].N \in 2..lambda
          /\ prog[a].op \in {"setup", "got"} /\ (prog[a].op = "setup" => a = 1)
    <2>1. a \in DOMAIN prog =>
            /\ prog[a].length \in Nat /\ prog[a].N \in 2..lambda
            /\ prog[a].op \in {"setup", "got"} /\ (prog[a].op = "setup" => a = 1)
      BY <1>1, CallType
    <2> QED
      BY <2>1, LambdaType
  <1>4. place \in {"extend", "post"} =>
          /\ sd /\ prog[a].op = "got" /\ prog[a].length > 0 /\ m <= PaddedLength(prog[a].length)
          /\ PaddedLength(prog[a].length) \in Nat /\ prog[a].length <= PaddedLength(prog[a].length)
          /\ \E q \in Nat : m = q * BlockSize
    <2> SUFFICES ASSUME place \in {"extend", "post"}
                 PROVE  /\ sd /\ prog[a].op = "got" /\ prog[a].length > 0 /\ m <= PaddedLength(prog[a].length)
                        /\ PaddedLength(prog[a].length) \in Nat /\ prog[a].length <= PaddedLength(prog[a].length)
                        /\ \E q \in Nat : m = q * BlockSize
      BY Zenon
    <2>1. /\ sd /\ prog[a].op = "got" /\ ~Empty(prog[a]) /\ m <= PaddedLength(prog[a].length) /\ a \in DOMAIN prog
          /\ \E q \in Nat : m = q * BlockSize
      BY <1>1 DEF Fine
    <2>2. PICK n \in Nat : n = prog[a].length /\ n > 0
      BY <1>3, <2>1 DEF Empty
    <2> QED
      BY <2>1, <2>2, PaddedType
  <1>5. Now(p) = prog[a] /\ Length(p) = prog[a].length
    BY <1>1 DEF Now, Length
  <1>6. place # "call" => a \in DOMAIN prog /\ ~Empty(prog[a])
    BY <1>1 DEF Fine
  <1>7. /\ k \in Nat /\ m \in Nat /\ pr \in Nat /\ place \in {"call", "seed", "extend", "post"} /\ sd \in BOOLEAN
        /\ IsList(rw, m) /\ m <= pr
        /\ place \in {"call", "seed"} => m = 0 /\ (a = 1 => ~sd)
        /\ place = "seed" => ~sd
        /\ place = "post" => m = PaddedLength(prog[a].length) /\ k <= prog[a].length
        /\ place # "post" => k = 0
        /\ ~sd => pr = 0
    BY <1>1 DEF Fine
  <1> QED
    BY <1>1, <1>2, <1>3, <1>4, <1>5, <1>6, <1>7

\* The sender goes on to its next call.
LEMMA NextAlice ==
  ASSUME NEW prog, NEW a \in Nat, NEW b \in Nat, NEW pa, NEW pb, NEW ia, NEW ib, NEW ma, NEW mb,
         Apart2(prog, a, b, pa, pb, ia, ib, ma, mb), NEW pa2, NEW ia2,
         a = b => Empty(prog[b]) \/ (pb \in {"extend", "post"} /\ mb = PaddedLength(prog[b].length)),
         b < a => Empty(prog[a])
  PROVE  Apart2(prog, a + 1, b, pa2, pb, ia2, ib, 0, mb)
  <1>1. CASE a + 1 < b
    <2>1. /\ \A c \in (a + 1)..(b - 1) : Free(prog[c])
          /\ ib = 0
      BY <1>1 DEF Apart2
    <2>2. Free(prog[a + 1]) /\ \A c \in (a + 1 + 1)..(b - 1) : Free(prog[c])
      BY <1>1, <2>1
    <2>3. ~(b < a + 1)
      BY <1>1
    <2> QED
      BY <2>1, <2>2, <2>3 DEF Apart2
  <1>2. CASE a + 1 = b
    BY <1>2 DEF Apart2
  <1>3. CASE a = b
    <2>1. \A c \in (b + 1)..(a + 1 - 1) : Empty(prog[c])
      BY <1>3
    <2>2. ~(a + 1 < b)
      BY <1>3
    <2> QED
      BY <1>3, <2>1, <2>2 DEF Apart2
  <1>4. CASE b < a
    <2>1. /\ \A c \in (b + 1)..(a - 1) : Empty(prog[c])
          /\ Empty(prog[b]) \/ (pb \in {"extend", "post"} /\ mb = PaddedLength(prog[b].length))
      BY <1>4 DEF Apart2
    <2>2. \A c \in (b + 1)..(a + 1 - 1) : c \in (b + 1)..(a - 1) \/ c = a
      OBVIOUS
    <2>3. \A c \in (b + 1)..(a + 1 - 1) : Empty(prog[c])
      BY <1>4, <2>1, <2>2, Zenon
    <2>4. ~(a + 1 < b)
      BY <1>4
    <2> QED
      BY <2>1, <2>3, <2>4 DEF Apart2
  <1> QED
    BY <1>1, <1>2, <1>3, <1>4

\* The receiver goes on to its next call.
LEMMA NextBob ==
  ASSUME NEW prog, NEW a \in Nat, NEW b \in Nat, NEW pa, NEW pb, NEW ia, NEW ib, NEW ma, NEW mb,
         Apart2(prog, a, b, pa, pb, ia, ib, ma, mb), NEW pb2, NEW mb2,
         a = b => Free(prog[a]) \/ (pa = "post" /\ ia = prog[a].length),
         a < b => Free(prog[b])
  PROVE  Apart2(prog, a, b + 1, pa, pb2, ia, 0, ma, mb2)
  <1>1. CASE b + 1 < a
    <2>1. (\A c \in (b + 1)..(a - 1) : Empty(prog[c])) /\ ma = 0
      BY <1>1 DEF Apart2
    <2>2. Empty(prog[b + 1]) /\ \A c \in (b + 1 + 1)..(a - 1) : Empty(prog[c])
      BY <1>1, <2>1
    <2>3. ~(a < b + 1)
      BY <1>1
    <2> QED
      BY <2>1, <2>2, <2>3 DEF Apart2
  <1>2. CASE b + 1 = a
    BY <1>2 DEF Apart2
  <1>3. CASE a = b
    <2>1. \A c \in (a + 1)..(b + 1 - 1) : Free(prog[c])
      BY <1>3
    <2>2. ~(b + 1 < a)
      BY <1>3
    <2> QED
      BY <1>3, <2>1, <2>2 DEF Apart2
  <1>4. CASE a < b
    <2>1. (\A c \in (a + 1)..(b - 1) : Free(prog[c])) /\ (Free(prog[a]) \/ (pa = "post" /\ ia = prog[a].length))
      BY <1>4 DEF Apart2
    <2>2. \A c \in (a + 1)..(b + 1 - 1) : c \in (a + 1)..(b - 1) \/ c = b
      OBVIOUS
    <2>3. \A c \in (a + 1)..(b + 1 - 1) : Free(prog[c])
      BY <1>4, <2>1, <2>2, Zenon
    <2>4. ~(b + 1 < a)
      BY <1>4
    <2> QED
      BY <2>1, <2>3, <2>4 DEF Apart2
  <1> QED
    BY <1>1, <1>2, <1>3, <1>4

LEMMA SenderTouches ==
  ASSUME LocalInv, Sender
  PROVE  Touches(ALICE) \/ FirstMasks
  <1>0. ALICE \in Party
    BY DEF Party
  <1>1. CASE SetupSend
    <2>1. Receive(ALICE, 1)
      BY <1>1 DEF SetupSend
    <2>2. wire' = [q \in Party |-> wire'[q]]
      BY <1>0, <2>1, ReceivedOne, Zenon
    <2> QED
      BY <1>0, <1>1, <2>2, SeededTouches DEF SetupSend
  <1>2. CASE Begin(ALICE) \/ StartPost(ALICE) \/ Return(ALICE)
    BY <1>0, <1>2, BeginTouches, StartPostTouches, ReturnTouches
  <1>3. CASE SendPre \/ SendPost
    BY <1>3, SendPreTouches, SendPostTouches
  <1> QED
    BY <1>1, <1>2, <1>3 DEF Sender

LEMMA SenderIdle ==
  ASSUME LocalInv, Sender
  PROVE  Idle(BOB)
  <1>0. ALICE \in Party /\ BOB \in Party /\ ALICE # BOB
    BY DEF Party, ALICE, BOB
  <1>1. CASE FirstMasks
    BY <1>1 DEF FirstMasks, Idle, inputs
  <1> QED
    BY <1>0, <1>1, SenderTouches, OtherIdle

\* What is under way to the sender.
LEMMA WireUp ==
  ASSUME KKOTAssumption, LocalInv, UpInv
  PROVE  /\ setup[ALICE] => setup[BOB]
         /\ \E seeds \in Nat, blocks \in Nat, ahead \in Nat :
              /\ seeds = BitOf(setup[BOB] /\ ~setup[ALICE]) /\ seeds \in {0, 1}
              /\ ahead = Ahead(at[ALICE], at[BOB], Rows(ALICE), Rows(BOB))
              /\ blocks * BlockSize = ahead /\ prg[BOB] = prg[ALICE] + ahead
              /\ UpList(wire[ALICE], seeds, blocks, prg[ALICE], choice[at[BOB]], Rows(BOB) - ahead, Length(BOB))
              /\ Len(wire[ALICE]) = seeds + blocks /\ IsList(wire[ALICE], seeds + blocks)
  <1>1. PICK seeds \in Nat : seeds = BitOf(setup[BOB] /\ ~setup[ALICE]) /\ seeds \in {0, 1}
    BY DEF BitOf
  <1>2. PICK blocks, ahead :
          /\ blocks \in Nat
          /\ ahead = Ahead(at[ALICE], at[BOB], Rows(ALICE), Rows(BOB))
          /\ blocks * BlockSize = ahead /\ prg[BOB] = prg[ALICE] + ahead
          /\ UpList(wire[ALICE], seeds, blocks, prg[ALICE], choice[at[BOB]], Rows(BOB) - ahead, Length(BOB))
    BY <1>1 DEF UpInv
  <1>3. ahead \in Nat
    <2>1. PICK B \in Nat : B = BlockSize
      BY Sizes
    <2> QED
      BY <1>2, <2>1
  <1>4. IsList(wire[ALICE], seeds + blocks)
    BY <1>2 DEF UpList
  <1>5. Len(wire[ALICE]) = seeds + blocks
    <2>1. PICK n \in Nat : n = seeds + blocks
      BY <1>1, <1>2
    <2> QED
      BY <1>4, <2>1, ListFacts
  <1> QED
    BY <1>1, <1>2, <1>3, <1>4, <1>5 DEF UpInv

\* The receiver has as many rows as the sender of a call.
LEMMA RowsBehind ==
  ASSUME KKOTAssumption, LocalInv, UpInv, at[ALICE] = at[BOB]
  PROVE  Rows(ALICE) <= Rows(BOB)
  <1>1. PICK ahead \in Nat : ahead = Ahead(at[ALICE], at[BOB], Rows(ALICE), Rows(BOB))
    BY WireUp
  <1>2. Rows(ALICE) \in Nat /\ Rows(BOB) \in Nat /\ at[ALICE] \in Nat
    BY View DEF Party
  <1>3. ahead = Rows(BOB) - Rows(ALICE)
    BY <1>1, <1>2 DEF Ahead
  <1> QED
    BY <1>1, <1>2, <1>3

\* A block comes within a call that both are in.
LEMMA SendsTogether ==
  ASSUME KKOTAssumption, LocalInv, ApartInv, UpInv, SendPre
  PROVE  at[ALICE] = at[BOB] /\ Rows(ALICE) < Rows(BOB) /\ wire[ALICE] # <<>>
  <1>0. ALICE \in Party /\ BOB \in Party
    BY DEF Party
  <1>1. /\ pc[ALICE] = "extend" /\ Arrived(ALICE, "U", 1)
    BY SendPreTouches
  <1>2. PICK seeds \in Nat, blocks \in Nat, ahead \in Nat :
          /\ seeds = BitOf(setup[BOB] /\ ~setup[ALICE])
          /\ ahead = Ahead(at[ALICE], at[BOB], Rows(ALICE), Rows(BOB))
          /\ blocks * BlockSize = ahead /\ Len(wire[ALICE]) = seeds + blocks
    BY WireUp
  <1>3. PICK a \in Nat, b \in Nat : a = at[ALICE] /\ b = at[BOB]
    BY <1>0, View
  <1>4. PICK ma \in Nat, mb \in Nat : ma = Rows(ALICE) /\ mb = Rows(BOB)
    BY <1>0, View
  <1>5. blocks >= 1
    <2>1. seeds = 0
      BY <1>0, <1>1, <1>2, View DEF BitOf
    <2>2. Len(wire[ALICE]) >= 1
      BY <1>1 DEF Arrived
    <2> QED
      BY <1>2, <2>1, <2>2
  <1>6. ahead > 0
    <2>1. PICK B \in Nat : B = BlockSize /\ B > 0
      BY Sizes
    <2> QED
      BY <1>2, <1>5, <2>1
  <1>7. ~(a < b)
    <2>1. Now(ALICE) = program[a] /\ Now(ALICE).op = "got" /\ ~Empty(Now(ALICE))
      BY <1>0, <1>1, <1>3, View DEF Now
    <2>2. ASSUME a < b
          PROVE  Free(program[a]) \/ pc[ALICE] = "post"
      BY <1>3, <2>2, Zenon DEF ApartInv, Apart2
    <2>3. ~Free(program[a]) /\ pc[ALICE] # "post"
      BY <1>1, <2>1 DEF Free
    <2> QED
      BY <2>2, <2>3
  <1>8. ~(b < a)
    BY <1>2, <1>3, <1>6 DEF Ahead
  <1>9. a = b
    BY <1>3, <1>7, <1>8
  <1>10. wire[ALICE] # <<>>
    BY <1>1 DEF Arrived
  <1> QED
    BY <1>2, <1>3, <1>4, <1>6, <1>9, <1>10 DEF Ahead

\* The seed comes from a receiver that is set up.
LEMMA SeedComes ==
  ASSUME KKOTAssumption, LocalInv, UpInv, SetupSend
  PROVE  setup[BOB] /\ ~setup[ALICE] /\ pc[ALICE] = "seed"
  <1>0. ALICE \in Party /\ BOB \in Party
    BY DEF Party
  <1>1. pc[ALICE] = "seed" /\ Arrived(ALICE, "seed", 1)
    BY DEF SetupSend
  <1>2. ~setup[ALICE]
    BY <1>0, <1>1, View
  <1>3. PICK seeds \in Nat, blocks \in Nat, ahead \in Nat :
          /\ seeds = BitOf(setup[BOB] /\ ~setup[ALICE])
          /\ UpList(wire[ALICE], seeds, blocks, prg[ALICE], choice[at[BOB]], Rows(BOB) - ahead, Length(BOB))
          /\ Len(wire[ALICE]) = seeds + blocks
    BY WireUp
  <1>4. Len(wire[ALICE]) >= 1 /\ wire[ALICE][1].kind = "seed"
    BY <1>1 DEF Arrived
  <1>5. CASE ~setup[BOB]
    <2>1. seeds = 0
      BY <1>3, <1>5 DEF BitOf
    <2>2. blocks >= 1 /\ 0 \in 0..(blocks - 1)
      BY <1>3, <1>4, <2>1
    <2>3. wire[ALICE][seeds + 0 + 1].kind = "U"
      BY <1>3, <2>2, Zenon DEF UpList, IsBlock
    <2> QED
      BY <1>4, <2>1, <2>3
  <1> QED
    BY <1>1, <1>2, <1>5

\* What is under way to the receiver is what it has not taken yet.
LEMMA WireDown ==
  ASSUME KKOTAssumption, LocalInv, ApartInv, DownInv, RecvPost
  PROVE  /\ ~(at[ALICE] < at[BOB])
         /\ i[BOB] < Top(at[ALICE], at[BOB], i[ALICE], i[BOB], Length(BOB))
         /\ Units(BOB, Batch(BOB)) \in Nat /\ Units(BOB, Batch(BOB)) > 0
         /\ Len(wire[BOB]) >= Units(BOB, Batch(BOB))
  <1>0. ALICE \in Party /\ BOB \in Party
    BY DEF Party
  <1>1. /\ Touches(BOB) /\ at' = at /\ setup' = setup /\ pc' = pc /\ prg' = prg /\ rows' = rows
        /\ i'[BOB] = i[BOB] + Batch(BOB)
        /\ pc[BOB] = "post" /\ i[BOB] < Length(BOB) /\ Arrived(BOB, "Y", Units(BOB, Batch(BOB)))
    BY RecvPostTouches
  <1>2. Batch(BOB) \in Nat /\ Batch(BOB) > 0
    BY <1>0, <1>1, BatchFine
  <1>3. Now(BOB).N \in Nat /\ Now(BOB).N > 0
    BY <1>0, <1>1, View
  <1>4. PICK u \in Nat : u = Units(BOB, Batch(BOB)) /\ u > 0
    <2>1. PICK N \in Nat, n \in Nat : N = Now(BOB).N /\ n = Batch(BOB) /\ N > 0 /\ n > 0
      BY <1>2, <1>3
    <2>2. N * n \in Nat /\ N * n > 0
      BY <2>1
    <2> QED
      BY <2>1, <2>2 DEF Units
  <1>5. Len(wire[BOB]) >= u
    BY <1>1, <1>4 DEF Arrived
  <1>6. PICK from, to : from = i[BOB] /\ to = Top(at[ALICE], at[BOB], i[ALICE], i[BOB], Length(BOB))
    OBVIOUS
  <1>7. from <= to /\ (from = to => IsList(wire[BOB], 0))
    BY <1>6 DEF DownInv, DownList
  <1>8. from # to
    <2>1. IsList(wire[BOB], 0) => Len(wire[BOB]) = 0
      BY ListFacts
    <2> QED
      BY <1>4, <1>5, <1>7, <2>1
  <1>9. ~(at[ALICE] < at[BOB])
    BY <1>6, <1>8 DEF Top
  <1>10. from \in Nat /\ to \in Nat
    BY <1>0, <1>1, <1>6, View DEF Top
  <1> QED
    BY <1>4, <1>5, <1>6, <1>7, <1>8, <1>9, <1>10

\* A call that a party is in is not free.
LEMMA NotFree ==
  ASSUME KKOTAssumption, LocalInv, NEW p \in Party
  PROVE  /\ pc[p] \in {"extend", "post"} => ~Free(program[at[p]]) /\ ~Empty(program[at[p]])
         /\ pc[p] # "call" => ~Empty(program[at[p]])
  <1>1. Now(p) = program[at[p]]
    BY DEF Now
  <1>2. pc[p] # "call" => ~Empty(Now(p))
    BY View
  <1>3. pc[p] \in {"extend", "post"} => Now(p).op = "got"
    BY View
  <1> QED
    BY <1>1, <1>2, <1>3 DEF Free

\* A sender that is set up by itself is behind the receiver.
LEMMA SetupBehind ==
  ASSUME KKOTAssumption, LocalInv, UpInv, SetupSend, Now(ALICE).op = "setup"
  PROVE  at[ALICE] < at[BOB]
  <1>0. ALICE \in Party /\ BOB \in Party
    BY DEF Party
  <1>1. setup[BOB] /\ ~setup[ALICE] /\ pc[ALICE] = "seed"
    BY SeedComes
  <1>2. at[ALICE] = 1 /\ at[BOB] \in Nat /\ at[BOB] > 0
    BY <1>0, <1>1, View
  <1>3. at[BOB] # 1
    <2>1. ASSUME at[BOB] = 1
          PROVE  pc[BOB] \in {"extend", "post"}
      BY <1>0, <1>1, <2>1, View
    <2>2. pc[BOB] \in {"extend", "post"} => Now(BOB).op = "got"
      BY <1>0, View
    <2>3. at[BOB] = 1 => Now(BOB) = Now(ALICE)
      BY <1>2 DEF Now
    <2> QED
      BY <2>1, <2>2, <2>3
  <1> QED
    BY <1>2, <1>3

\* The sender leaves a call only when the receiver has all its rows.
LEMMA ReturnsAfter ==
  ASSUME KKOTAssumption, LocalInv, ApartInv, UpInv, Return(ALICE)
  PROVE  /\ ~(at[BOB] < at[ALICE])
         /\ at[ALICE] = at[BOB] =>
              /\ pc[BOB] \in {"extend", "post"} /\ Rows(BOB) = PaddedLength(Length(BOB))
              /\ Rows(ALICE) = Rows(BOB)
  <1>0. ALICE \in Party /\ BOB \in Party
    BY DEF Party
  <1>1. PICK ma \in Nat, mb \in Nat : ma = Rows(ALICE) /\ mb = Rows(BOB)
    BY <1>0, View
  <1>2. pc[ALICE] = "post"
    BY <1>0, ReturnTouches
  <1>3. ma > 0 /\ ma = PaddedLength(Length(ALICE))
    <2>1. PICK n \in Nat, l \in Nat : n = Length(ALICE) /\ l = PaddedLength(n) /\ n > 0 /\ n <= l /\ ma = l
      BY <1>0, <1>1, <1>2, View
    <2> QED
      BY <2>1
  <1>4. ~(at[BOB] < at[ALICE])
    <2>1. at[BOB] < at[ALICE] => Rows(ALICE) = 0
      BY Zenon DEF ApartInv, Apart2
    <2> QED
      BY <1>1, <1>3, <2>1
  <1>5. ASSUME at[ALICE] = at[BOB]
        PROVE  pc[BOB] \in {"extend", "post"} /\ mb = PaddedLength(Length(BOB)) /\ ma = mb
    <2>1. ma <= mb
      BY <1>1, <1>5, RowsBehind
    <2>2. pc[BOB] \in {"call", "seed", "extend", "post"} /\ (pc[BOB] \in {"call", "seed"} => mb = 0)
      BY <1>0, <1>1, View
    <2>3. pc[BOB] \in {"extend", "post"}
      BY <1>1, <1>3, <2>1, <2>2
    <2>4. PaddedLength(Length(BOB)) \in Nat /\ mb <= PaddedLength(Length(BOB))
      BY <1>0, <1>1, <2>3, View
    <2>5. Length(BOB) = Length(ALICE)
      BY <1>5 DEF Length, Now
    <2> QED
      BY <1>1, <1>3, <2>1, <2>3, <2>4, <2>5
  <1> QED
    BY <1>1, <1>4, <1>5

\* The receiver makes rows only for a call that the sender has not left.
LEMMA RowsWanted ==
  ASSUME KKOTAssumption, LocalInv, ApartInv, RecvPre
  PROVE  ~(at[BOB] < at[ALICE])
  <1>0. BOB \in Party
    BY DEF Party
  <1>1. pc[BOB] = "extend" /\ Rows(BOB) < PaddedLength(Length(BOB))
    BY RecvPreTouches
  <1>2. Rows(BOB) \in Nat /\ PaddedLength(Length(BOB)) \in Nat
    BY <1>0, <1>1, View
  <1>3. at[BOB] < at[ALICE] => Empty(program[at[BOB]]) \/ Rows(BOB) = PaddedLength(program[at[BOB]].length)
    BY Zenon DEF ApartInv, Apart2
  <1>4. ~Empty(program[at[BOB]])
    BY <1>0, <1>1, NotFree
  <1> QED
    BY <1>1, <1>2, <1>3, <1>4 DEF Length, Now

\* The receiver leaves a call only when the sender has sent everything.
LEMMA ReturnsBefore ==
  ASSUME KKOTAssumption, LocalInv, ApartInv, DownInv, Return(BOB)
  PROVE  /\ ~(at[ALICE] < at[BOB])
         /\ at[ALICE] = at[BOB] =>
              /\ pc[ALICE] = "post" /\ i[ALICE] = Length(ALICE) /\ Rows(ALICE) = Rows(BOB)
         /\ i[BOB] = Length(BOB)
  <1>0. ALICE \in Party /\ BOB \in Party
    BY DEF Party
  <1>1. pc[BOB] = "post" /\ i[BOB] >= Length(BOB)
    BY <1>0, ReturnTouches
  <1>2. i[BOB] \in Nat /\ i[BOB] = Length(BOB) /\ i[BOB] > 0
    <2>1. PICK n \in Nat, k \in Nat : n = Length(BOB) /\ n > 0 /\ k = i[BOB] /\ k <= n
      BY <1>0, <1>1, View
    <2> QED
      BY <1>1, <2>1
  <1>3. ~(at[ALICE] < at[BOB])
    <2>1. at[ALICE] < at[BOB] => i[BOB] = 0
      BY Zenon DEF ApartInv, Apart2
    <2> QED
      BY <1>2, <2>1
  <1>4. ASSUME at[ALICE] = at[BOB]
        PROVE  pc[ALICE] = "post" /\ i[ALICE] = Length(ALICE) /\ Rows(ALICE) = Rows(BOB)
    <2>1. i[BOB] <= i[ALICE]
      <3>1. Top(at[ALICE], at[BOB], i[ALICE], i[BOB], Length(BOB)) = i[ALICE]
        BY <1>3, <1>4 DEF Top
      <3> QED
        BY <3>1 DEF DownInv, DownList
    <2>2. i[ALICE] \in Nat /\ (pc[ALICE] # "post" => i[ALICE] = 0)
      BY <1>0, View
    <2>3. pc[ALICE] = "post"
      BY <1>2, <2>1, <2>2
    <2>4. i[ALICE] <= Length(ALICE) /\ Rows(ALICE) = PaddedLength(Length(ALICE)) /\ Rows(BOB) = PaddedLength(Length(BOB))
      BY <1>0, <1>1, <2>3, View
    <2>5. Length(BOB) = Length(ALICE)
      BY <1>4 DEF Length, Now
    <2> QED
      BY <1>2, <2>1, <2>2, <2>3, <2>4, <2>5
  <1> QED
    BY <1>2, <1>3, <1>4

LEMMA ApartByAlice ==
  ASSUME KKOTAssumption, LocalInv, ApartInv, UpInv, Sender
  PROVE  ApartInv'
  <1>0. ALICE \in Party /\ BOB \in Party
    BY DEF Party
  <1>1. PICK prog, a, b, pa, pb, ia, ib, ma, mb :
          /\ prog = program /\ a = at[ALICE] /\ b = at[BOB] /\ pa = pc[ALICE] /\ pb = pc[BOB]
          /\ ia = i[ALICE] /\ ib = i[BOB] /\ ma = Rows(ALICE) /\ mb = Rows(BOB)
          /\ Apart2(prog, a, b, pa, pb, ia, ib, ma, mb)
    BY DEF ApartInv
  <1>2. a \in Nat /\ b \in Nat /\ a > 0 /\ b > 0
    BY <1>0, <1>1, View
  <1>3. Idle(BOB)
    BY SenderIdle
  <1>4. program' = prog /\ at'[BOB] = b /\ pc'[BOB] = pb /\ i'[BOB] = ib /\ Rows(BOB)' = mb
    BY <1>1, <1>3 DEF Idle, Rows
  <1>5. ASSUME at'[ALICE] = a, b < a => Rows(ALICE)' = 0,
               a < b => Free(prog[a]) \/ (pc'[ALICE] = "post" /\ i'[ALICE] = prog[a].length)
        PROVE  ApartInv'
    <2>1. PICK pa2, ia2, ma2 : pa2 = pc'[ALICE] /\ ia2 = i'[ALICE] /\ ma2 = Rows(ALICE)'
      OBVIOUS
    <2>2. Apart2(prog, a, b, pa2, pb, ia2, ib, ma2, mb)
      BY <1>1, <1>5, <2>1, Zenon DEF Apart2
    <2> QED
      BY <1>4, <1>5, <2>1, <2>2 DEF ApartInv
  <1>6. ASSUME at'[ALICE] = a + 1, Rows(ALICE)' = 0,
               a = b => Empty(prog[b]) \/ (pb \in {"extend", "post"} /\ mb = PaddedLength(prog[b].length)),
               b < a => Empty(prog[a])
        PROVE  ApartInv'
    <2>1. PICK pa2, ia2 : pa2 = pc'[ALICE] /\ ia2 = i'[ALICE]
      OBVIOUS
    <2>2. Apart2(prog, a + 1, b, pa2, pb, ia2, ib, 0, mb)
      BY <1>1, <1>2, <1>6, NextAlice
    <2> QED
      BY <1>4, <1>6, <2>1, <2>2 DEF ApartInv
  <1>7. CASE Begin(ALICE)
    <2>1. Touches(ALICE) /\ rows' = rows /\ i' = i /\ pa = "call" /\ a \in DOMAIN prog
      BY <1>0, <1>1, <1>7, BeginTouches
    <2>2. Rows(ALICE)' = 0
      BY <1>0, <1>1, <2>1, View DEF Rows
    <2>3. CASE Now(ALICE).op # "setup" /\ Length(ALICE) < 1 /\ at'[ALICE] = at[ALICE] + 1
      <3>1. prog[a].op = "got" /\ prog[a].length < 1
        BY <1>0, <1>1, <2>1, <2>3, View DEF Now, Length
      <3>2. Empty(prog[a])
        BY <3>1 DEF Empty
      <3> QED
        BY <1>1, <1>6, <2>2, <2>3, <3>2
    <2>4. CASE at'[ALICE] = at[ALICE]
      <3>1. a < b => Free(prog[a]) \/ pa = "post"
        BY <1>1, Zenon DEF Apart2
      <3> QED
        BY <1>1, <1>5, <2>1, <2>2, <2>4, <3>1
    <2> QED
      BY <1>0, <1>7, <2>3, <2>4, BeginTouches
  <1>8. CASE SetupSend
    <2>1. setup[BOB] /\ ~setup[ALICE] /\ pa = "seed"
      BY <1>1, <1>8, SeedComes
    <2>2. Touches(ALICE) /\ rows' = rows
          /\ \/ Now(ALICE).op = "setup" /\ at'[ALICE] = at[ALICE] + 1
             \/ Now(ALICE).op # "setup" /\ at'[ALICE] = at[ALICE] /\ pc'[ALICE] = "extend"
      <3>1. Receive(ALICE, 1) /\ Seeded(ALICE)
        BY <1>8 DEF SetupSend
      <3>2. wire' = [q \in Party |-> wire'[q]]
        BY <1>0, <3>1, ReceivedOne, Zenon
      <3> QED
        BY <1>0, <3>1, <3>2, SeededTouches
    <2>3. Rows(ALICE)' = 0 /\ a \in DOMAIN prog
      BY <1>0, <1>1, <2>1, <2>2, View DEF Rows
    <2>4. CASE Now(ALICE).op = "setup" /\ at'[ALICE] = at[ALICE] + 1
      <3>1. a < b
        BY <1>1, <1>8, <2>4, SetupBehind
      <3> QED
        BY <1>1, <1>2, <1>6, <2>3, <2>4, <3>1
    <2>5. CASE Now(ALICE).op # "setup" /\ at'[ALICE] = at[ALICE]
      <3>1. a < b => Free(prog[a]) \/ pa = "post"
        BY <1>1, Zenon DEF Apart2
      <3> QED
        BY <1>1, <1>5, <2>1, <2>3, <2>5, <3>1
    <2> QED
      BY <2>2, <2>4, <2>5
  <1>9. CASE FirstMasks
    <2>1. UNCHANGED <<inputs, at, pc, rows, i>>
      BY <1>9 DEF FirstMasks
    <2> QED
      BY <2>1 DEF ApartInv, Rows, inputs
  <1>10. CASE SendPre
    <2>1. at' = at /\ a = b
      BY <1>1, <1>10, SendPreTouches, SendsTogether
    <2> QED
      BY <1>1, <1>2, <1>5, <2>1
  <1>11. CASE StartPost(ALICE)
    <2>1. at' = at /\ rows' = rows /\ i' = i /\ pa = "extend" /\ pc'[ALICE] = "post"
      BY <1>0, <1>1, <1>11, StartPostTouches
    <2>2. /\ a < b => Free(prog[a]) \/ pa = "post"
          /\ b < a => ma = 0
      BY <1>1, Zenon DEF Apart2
    <2>3. Rows(ALICE)' = ma
      BY <1>1, <2>1 DEF Rows
    <2>4. pa # "post"
      BY <2>1
    <2> QED
      BY <1>1, <1>5, <2>1, <2>2, <2>3, <2>4
  <1>12. CASE SendPost
    <2>1. at' = at /\ rows' = rows /\ pa = "post" /\ ia < prog[a].length
      BY <1>1, <1>12, SendPostTouches DEF Length, Now
    <2>2. /\ a < b => Free(prog[a]) \/ ia = prog[a].length
          /\ b < a => ma = 0
      BY <1>1, Zenon DEF Apart2
    <2>3. Rows(ALICE)' = ma /\ ~Free(prog[a])
      BY <1>0, <1>1, <2>1, NotFree DEF Rows
    <2>4. ia \in Nat /\ prog[a].length \in Nat
      BY <1>0, <1>1, <2>1, View DEF Length, Now
    <2> QED
      BY <1>1, <1>5, <2>1, <2>2, <2>3, <2>4
  <1>13. CASE Return(ALICE)
    <2>1. Touches(ALICE) /\ at'[ALICE] = a + 1 /\ pa = "post" /\ rows'[ALICE] = <<>>
      BY <1>0, <1>1, <1>13, ReturnTouches
    <2>2. Rows(ALICE)' = 0
      BY <2>1 DEF Rows
    <2>3. ~(b < a) /\ (a = b => pb \in {"extend", "post"} /\ mb = PaddedLength(prog[b].length))
      BY <1>1, <1>13, ReturnsAfter DEF Length, Now
    <2> QED
      BY <1>6, <2>1, <2>2, <2>3
  <1> QED
    BY <1>7, <1>8, <1>9, <1>10, <1>11, <1>12, <1>13 DEF Sender

LEMMA ApartByBob ==
  ASSUME KKOTAssumption, LocalInv, ApartInv, DownInv, Receiver
  PROVE  ApartInv'
  <1>0. ALICE \in Party /\ BOB \in Party
    BY DEF Party
  <1>1. PICK prog, a, b, pa, pb, ia, ib, ma, mb :
          /\ prog = program /\ a = at[ALICE] /\ b = at[BOB] /\ pa = pc[ALICE] /\ pb = pc[BOB]
          /\ ia = i[ALICE] /\ ib = i[BOB] /\ ma = Rows(ALICE) /\ mb = Rows(BOB)
          /\ Apart2(prog, a, b, pa, pb, ia, ib, ma, mb)
    BY DEF ApartInv
  <1>2. a \in Nat /\ b \in Nat /\ a > 0 /\ b > 0
    BY <1>0, <1>1, View
  <1>3. Idle(ALICE)
    BY ReceiverTouches
  <1>4. program' = prog /\ at'[ALICE] = a /\ pc'[ALICE] = pa /\ i'[ALICE] = ia /\ Rows(ALICE)' = ma
    BY <1>1, <1>3 DEF Idle, Rows
  <1>5. ASSUME at'[BOB] = b, a < b => i'[BOB] = 0,
               b < a => \/ Empty(prog[b])
                        \/ pc'[BOB] \in {"extend", "post"} /\ Rows(BOB)' = PaddedLength(prog[b].length)
        PROVE  ApartInv'
    <2>1. PICK pb2, ib2, mb2 : pb2 = pc'[BOB] /\ ib2 = i'[BOB] /\ mb2 = Rows(BOB)'
      OBVIOUS
    <2>2. Apart2(prog, a, b, pa, pb2, ia, ib2, ma, mb2)
      BY <1>1, <1>5, <2>1, Zenon DEF Apart2
    <2> QED
      BY <1>4, <1>5, <2>1, <2>2 DEF ApartInv
  <1>6. ASSUME at'[BOB] = b + 1, i'[BOB] = 0,
               a = b => Free(prog[a]) \/ (pa = "post" /\ ia = prog[a].length),
               a < b => Free(prog[b])
        PROVE  ApartInv'
    <2>1. PICK pb2, mb2 : pb2 = pc'[BOB] /\ mb2 = Rows(BOB)'
      OBVIOUS
    <2>2. Apart2(prog, a, b + 1, pa, pb2, ia, 0, ma, mb2)
      BY <1>1, <1>2, <1>6, NextBob
    <2> QED
      BY <1>4, <1>6, <2>1, <2>2 DEF ApartInv
  <1>14. /\ a < b => ib = 0
         /\ b < a => Empty(prog[b]) \/ (pb \in {"extend", "post"} /\ mb = PaddedLength(prog[b].length))
    BY <1>1, Zenon DEF Apart2
  <1>7. CASE Begin(BOB)
    <2>1. Touches(BOB) /\ rows' = rows /\ i' = i /\ pb = "call" /\ b \in DOMAIN prog
      BY <1>0, <1>1, <1>7, BeginTouches
    <2>2. i'[BOB] = 0
      BY <1>0, <1>1, <2>1, View
    <2>3. CASE Now(BOB).op # "setup" /\ Length(BOB) < 1 /\ at'[BOB] = at[BOB] + 1
      <3>1. prog[b].op = "got" /\ prog[b].length < 1
        BY <1>0, <1>1, <2>1, <2>3, View DEF Now, Length
      <3>2. Free(prog[b])
        BY <3>1 DEF Empty, Free
      <3> QED
        BY <1>1, <1>6, <2>2, <2>3, <3>2
    <2>4. CASE at'[BOB] = at[BOB]
      <3>1. pb \notin {"extend", "post"}
        BY <2>1
      <3> QED
        BY <1>1, <1>5, <1>14, <2>2, <2>4, <3>1
    <2> QED
      BY <1>0, <1>7, <2>3, <2>4, BeginTouches
  <1>8. CASE SetupRecv
    <2>1. /\ pb = "seed" /\ Touches(BOB) /\ rows' = rows /\ i' = i
          /\ \/ Now(BOB).op = "setup" /\ at'[BOB] = at[BOB] + 1
             \/ Now(BOB).op # "setup" /\ at'[BOB] = at[BOB] /\ pc'[BOB] = "extend"
      <3>1. PICK u : Send(BOB, u)
        BY <1>8 DEF SetupRecv
      <3>2. wire' = [q \in Party |-> wire'[q]]
        BY <1>0, <3>1, SentOne
      <3>3. Seeded(BOB) /\ pb = "seed"
        BY <1>1, <1>8 DEF SetupRecv
      <3> QED
        BY <1>0, <3>2, <3>3, SeededTouches
    <2>2. i'[BOB] = 0 /\ ~Empty(prog[b])
      <3>1. pc[BOB] # "post" /\ pc[BOB] # "call"
        BY <1>1, <2>1
      <3>2. i[BOB] = 0
        BY <1>0, <3>1, View
      <3> QED
        BY <1>0, <1>1, <2>1, <3>1, <3>2, NotFree
    <2>3. CASE Now(BOB).op = "setup" /\ at'[BOB] = at[BOB] + 1
      <3>1. Free(prog[b])
        BY <1>1, <2>3 DEF Free, Now
      <3> QED
        BY <1>1, <1>6, <2>2, <2>3, <3>1
    <2>4. CASE at'[BOB] = at[BOB]
      <3>1. ~(b < a)
        BY <1>14, <2>1, <2>2
      <3> QED
        BY <1>1, <1>5, <2>2, <2>4, <3>1
    <2> QED
      BY <2>1, <2>3, <2>4
  <1>9. CASE RecvPre
    <2>1. at' = at /\ i' = i /\ ~(b < a)
      BY <1>1, <1>9, RecvPreTouches, RowsWanted
    <2> QED
      BY <1>1, <1>5, <1>14, <2>1
  <1>10. CASE StartPost(BOB)
    <2>1. at' = at /\ rows' = rows /\ i' = i /\ pb = "extend" /\ pc'[BOB] = "post"
      BY <1>0, <1>1, <1>10, StartPostTouches
    <2>2. Rows(BOB)' = mb
      BY <1>1, <2>1 DEF Rows
    <2> QED
      BY <1>1, <1>5, <1>14, <2>1, <2>2
  <1>11. CASE RecvPost
    <2>1. at' = at /\ rows' = rows /\ pc' = pc
      BY <1>11, RecvPostTouches
    <2>2. Rows(BOB)' = mb /\ ~(a < b)
      BY <1>1, <1>11, <2>1, WireDown DEF Rows
    <2> QED
      BY <1>1, <1>5, <1>14, <2>1, <2>2
  <1>12. CASE Return(BOB)
    <2>1. Touches(BOB) /\ at'[BOB] = b + 1 /\ i'[BOB] = 0
      BY <1>0, <1>1, <1>12, ReturnTouches
    <2>2. ~(a < b) /\ (a = b => pa = "post" /\ ia = prog[a].length)
      BY <1>1, <1>12, ReturnsBefore DEF Length, Now
    <2> QED
      BY <1>6, <2>1, <2>2
  <1> QED
    BY <1>7, <1>8, <1>9, <1>10, <1>11, <1>12 DEF Receiver

LEMMA ApartStep ==
  ASSUME KKOTAssumption, LocalInv, ApartInv, UpInv, DownInv, [Next]_vars
  PROVE  ApartInv'
  <1>1. CASE UNCHANGED vars
    BY <1>1 DEF ApartInv, Rows, vars, inputs
  <1> QED
    BY <1>1, ApartByAlice, ApartByBob DEF Next

------------------------------------------------------------------------------
(* The rows.                                                               *)

\* The block that the sender takes.
LEMMA BlockComes ==
  ASSUME KKOTAssumption, LocalInv, ApartInv, UpInv, SendPre
  PROVE  /\ at[ALICE] = at[BOB] /\ setup[ALICE] /\ setup[BOB]
         /\ IsBlock(Head(wire[ALICE]), prg[ALICE], choice[at[ALICE]], Rows(ALICE), Length(ALICE))
         /\ \E blocks \in Nat :
              /\ blocks > 0 /\ blocks * BlockSize = Rows(BOB) - Rows(ALICE)
              /\ prg[BOB] = prg[ALICE] + (Rows(BOB) - Rows(ALICE))
              /\ UpList(wire[ALICE], 0, blocks, prg[ALICE], choice[at[BOB]], Rows(ALICE), Length(BOB))
  <1>0. ALICE \in Party /\ BOB \in Party
    BY DEF Party
  <1>1. pc[ALICE] = "extend" /\ at[ALICE] = at[BOB] /\ Rows(ALICE) < Rows(BOB)
    BY SendPreTouches, SendsTogether
  <1>2. setup[ALICE] /\ setup[BOB]
    BY <1>0, <1>1, View, WireUp
  <1>3. PICK seeds \in Nat, blocks \in Nat, ahead \in Nat :
          /\ seeds = BitOf(setup[BOB] /\ ~setup[ALICE])
          /\ ahead = Ahead(at[ALICE], at[BOB], Rows(ALICE), Rows(BOB))
          /\ blocks * BlockSize = ahead /\ prg[BOB] = prg[ALICE] + ahead
          /\ UpList(wire[ALICE], seeds, blocks, prg[ALICE], choice[at[BOB]], Rows(BOB) - ahead, Length(BOB))
    BY WireUp
  <1>4. seeds = 0
    BY <1>2, <1>3 DEF BitOf
  <1>5. PICK ma \in Nat, mb \in Nat, a \in Nat, pos \in Nat :
          ma = Rows(ALICE) /\ mb = Rows(BOB) /\ a = at[ALICE] /\ pos = prg[ALICE]
    BY <1>0, View
  <1>6. ahead = mb - ma /\ Rows(BOB) - ahead = ma
    <2>1. ahead = mb - ma
      BY <1>1, <1>3, <1>5 DEF Ahead
    <2> QED
      BY <1>5, <2>1
  <1>7. blocks > 0
    <2>1. PICK B \in Nat : B = BlockSize /\ B > 0
      BY Sizes
    <2>2. blocks = 0 => blocks * B = 0
      BY <2>1
    <2> QED
      BY <1>1, <1>3, <1>5, <1>6, <2>1, <2>2
  <1>8. UpList(wire[ALICE], 0, blocks, pos, choice[at[BOB]], ma, Length(BOB))
    BY <1>3, <1>4, <1>5, <1>6
  <1>9. IsBlock(wire[ALICE][1], pos, choice[at[BOB]], ma, Length(BOB))
    <2>1. \A m \in 0..(blocks - 1) :
            IsBlock(wire[ALICE][0 + m + 1], pos + m * BlockSize, choice[at[BOB]], ma + m * BlockSize, Length(BOB))
      BY <1>8, Zenon DEF UpList
    <2>2. 0 \in 0..(blocks - 1) /\ 0 + 0 + 1 = 1
      BY <1>7
    <2>3. pos + 0 * BlockSize = pos /\ ma + 0 * BlockSize = ma
      <3>1. PICK B \in Nat : B = BlockSize
        BY Sizes
      <3>2. 0 * B = 0
        BY <3>1
      <3> QED
        BY <1>5, <3>1, <3>2
    <2>4. IsBlock(wire[ALICE][0 + 0 + 1], pos + 0 * BlockSize, choice[at[BOB]], ma + 0 * BlockSize, Length(BOB))
      BY <2>1, <2>2, Zenon
    <2> QED
      BY <2>2, <2>3, <2>4, Zenon
  <1>10. Head(wire[ALICE]) = wire[ALICE][1]
    OBVIOUS
  <1>11. Length(BOB) = Length(ALICE) /\ choice[at[BOB]] = choice[at[ALICE]]
    BY <1>1 DEF Length, Now
  <1> QED
    BY <1>1, <1>2, <1>3, <1>5, <1>6, <1>7, <1>8, <1>9, <1>10, <1>11

LEMMA RecvRowsStep ==
  ASSUME KKOTAssumption, LocalInv, RowsInv, [Next]_vars
  PROVE  RecvRows(rows'[BOB], Rows(BOB)', prg'[BOB] - Rows(BOB)')
  <1>0. ALICE \in Party /\ BOB \in Party
    BY DEF Party
  <1>1. RecvRows(rows[BOB], Rows(BOB), prg[BOB] - Rows(BOB))
    BY DEF RowsInv
  <1>2. CASE rows'[BOB] = rows[BOB] /\ prg'[BOB] = prg[BOB]
    BY <1>1, <1>2 DEF Rows
  <1>3. CASE Sender
    BY <1>2, <1>3, SenderIdle DEF Idle
  <1>4. CASE UNCHANGED vars
    BY <1>2, <1>4 DEF vars
  <1>5. CASE Begin(BOB) \/ StartPost(BOB) \/ RecvPost
    BY <1>0, <1>2, <1>5, BeginTouches, StartPostTouches, RecvPostTouches
  <1>6. CASE SetupRecv
    BY <1>2, <1>6 DEF SetupRecv, Seeded
  <1>7. CASE Return(BOB)
    <2>1. Rows(BOB)' = 0
      BY <1>0, <1>7, ReturnTouches DEF Rows
    <2> QED
      BY <2>1 DEF RecvRows
  <1>8. CASE RecvPre
    <2>1. PICK B \in Nat, m \in Nat, pos \in Nat, n \in Int :
            B = BlockSize /\ m = Rows(BOB) /\ pos = prg[BOB] /\ m <= pos /\ n = pos - m
      BY <1>0, Sizes, View
    <2>2. /\ prg'[BOB] = pos + B /\ Rows(BOB)' = m + B
          /\ \A j \in 1..m : rows'[BOB][j] = rows[BOB][j]
          /\ \A j \in 1..B : rows'[BOB][m + j] = NewRecvRows(j)
      BY <1>8, <2>1, RecvPreTouches, RecvPreFine
    <2>3. ASSUME NEW j \in 1..(m + B)
          PROVE  rows'[BOB][j] = [pos |-> n + j - 1, flip |-> NoFlip]
      <3>1. CASE j <= m
        <4>1. j \in 1..m
          BY <2>1, <3>1
        <4> QED
          BY <1>1, <2>1, <2>2, <4>1 DEF RecvRows
      <3>2. CASE j > m
        <4>1. PICK k \in 1..B : j = m + k
          <5>1. j - m \in 1..B /\ j = m + (j - m)
            BY <2>1, <3>2
          <5> QED
            BY <5>1
        <4>2. rows'[BOB][j] = [pos |-> pos + k - 1, flip |-> NoFlip]
          BY <2>1, <2>2, <4>1 DEF NewRecvRows
        <4>3. pos + k - 1 = n + j - 1
          BY <2>1, <4>1
        <4> QED
          BY <4>2, <4>3
      <3> QED
        BY <2>1, <3>1, <3>2
    <2>4. prg'[BOB] - Rows(BOB)' = n
      BY <2>1, <2>2
    <2> QED
      BY <2>2, <2>3, <2>4 DEF RecvRows
  <1> QED
    BY <1>3, <1>4, <1>5, <1>6, <1>7, <1>8 DEF Next, Receiver

SentRows == SendRows(rows[ALICE], Rows(ALICE), prg[ALICE] - Rows(ALICE), choice[at[ALICE]], Length(ALICE), s)
LEMMA SendRowsStep ==
  ASSUME KKOTAssumption, LocalInv, ApartInv, UpInv, SentRows, [Next]_vars
  PROVE  SentRows'
  <1>0. ALICE \in Party /\ BOB \in Party
    BY DEF Party
  <1>1. CASE rows'[ALICE] = rows[ALICE] /\ prg'[ALICE] = prg[ALICE] /\ at'[ALICE] = at[ALICE] /\ inputs' = inputs
    BY <1>1 DEF SentRows, Rows, Length, Now, inputs
  <1>2. CASE Rows(ALICE)' = 0
    BY <1>2 DEF SentRows, SendRows
  <1>3. CASE Receiver
    BY <1>1, <1>3, ReceiverTouches DEF Idle, inputs
  <1>4. CASE UNCHANGED vars
    BY <1>1, <1>4 DEF vars
  <1>5. CASE Begin(ALICE) \/ SetupSend
    <2>1. rows' = rows /\ pc[ALICE] \in {"call", "seed"}
      BY <1>5 DEF Begin, SetupSend, Seeded
    <2> QED
      BY <1>0, <1>2, <2>1, View DEF Rows
  <1>6. CASE FirstMasks \/ StartPost(ALICE) \/ SendPost
    <2>1. CASE FirstMasks
      BY <1>1, <2>1 DEF FirstMasks
    <2>2. CASE StartPost(ALICE)
      BY <1>1, <2>2 DEF StartPost
    <2>3. CASE SendPost
      BY <1>1, <2>3, SendPostTouches DEF Touches, inputs
    <2> QED
      BY <1>6, <2>1, <2>2, <2>3
  <1>7. CASE Return(ALICE)
    BY <1>0, <1>2, <1>7, ReturnTouches DEF Rows
  <1>8. CASE SendPre
    <2>0. PICK u : u = Head(wire[ALICE])
      OBVIOUS
    <2>1. PICK B \in Nat, m \in Nat, pos \in Nat, base \in Int, n \in Nat :
            /\ B = BlockSize /\ m = Rows(ALICE) /\ pos = prg[ALICE] /\ m <= pos /\ base = pos - m
            /\ n = Length(ALICE)
      <3>1. Length(ALICE) \in Nat
        BY <1>0, <1>8, SendPreTouches, View
      <3> QED
        BY <1>0, <3>1, Sizes, View
    <2>2. /\ prg'[ALICE] = pos + B /\ Rows(ALICE)' = m + B
          /\ \A j \in 1..m : rows'[ALICE][j] = rows[ALICE][j]
          /\ \A j \in 1..B : rows'[ALICE][m + j] = NewSendRow(u, j)
      BY <1>8, <2>0, <2>1, SendPreTouches, SendPreFine
    <2>3. PICK chosen : chosen = choice[at[ALICE]] /\ IsBlock(u, pos, chosen, m, n)
      BY <1>8, <2>0, <2>1, BlockComes
    <2>4. ASSUME NEW j \in 1..(m + B)
          PROVE  /\ rows'[ALICE][j] = [pos |-> base + j - 1, flip |-> rows'[ALICE][j].flip]
                 /\ j <= n => rows'[ALICE][j].flip = AndRow(CodeWord(chosen[j - 1]), s)
      <3>1. CASE j <= m
        <4>1. j \in 1..m
          BY <2>1, <3>1
        <4> QED
          BY <2>1, <2>2, <2>3, <4>1 DEF SentRows, SendRows
      <3>2. CASE j > m
        <4>1. PICK k \in 1..B, k0 \in 0..(B - 1) : j = m + k /\ k0 = k - 1
          <5>1. j - m \in 1..B /\ j = m + (j - m) /\ j - m - 1 \in 0..(B - 1)
            BY <2>1, <3>2
          <5> QED
            BY <5>1
        <4>2. u.val[k0].pos = pos + k0 /\ (m + k0 < n => u.val[k0].word = CodeWord(chosen[m + k0]))
          BY <2>1, <2>3, <4>1 DEF IsBlock
        <4>3. rows'[ALICE][j] = [pos |-> pos + k - 1, flip |-> AndRow(u.val[k0].word, s)]
          <5>1. rows'[ALICE][j] = NewSendRow(u, k)
            BY <2>2, <4>1
          <5>2. pos + k0 = pos + k - 1
            BY <2>1, <4>1
          <5> QED
            BY <2>1, <4>1, <4>2, <5>1, <5>2 DEF NewSendRow
        <4>4. pos + k - 1 = base + j - 1 /\ m + k0 = j - 1 /\ (j <= n => m + k0 < n)
          BY <2>1, <4>1
        <4> QED
          BY <4>2, <4>3, <4>4
      <3> QED
        BY <2>1, <3>1, <3>2
    <2>5. prg'[ALICE] - Rows(ALICE)' = base
      BY <2>1, <2>2
    <2>6. choice'[at'[ALICE]] = chosen /\ s' = s /\ Length(ALICE)' = n
      BY <1>8, <2>1, <2>3, SendPreTouches DEF Touches, Length, Now
    <2>7. SendRows(rows'[ALICE], m + B, base, chosen, n, s)
      BY <2>4 DEF SendRows
    <2> QED
      BY <2>2, <2>5, <2>6, <2>7 DEF SentRows
  <1> QED
    BY <1>3, <1>4, <1>5, <1>6, <1>7, <1>8 DEF Next, Sender

LEMMA RowsStep ==
  ASSUME KKOTAssumption, LocalInv, ApartInv, UpInv, RowsInv, [Next]_vars
  PROVE  RowsInv'
  BY RecvRowsStep, SendRowsStep DEF RowsInv, SentRows

------------------------------------------------------------------------------
(* What is under way to the sender.                                        *)

AheadNow == Ahead(at[ALICE], at[BOB], Rows(ALICE), Rows(BOB))

\* A list of blocks, as UpInv has it.
UpState(sa, sb, pa, pb, w, ahead, chosen, from, n) ==
  /\ sa => sb
  /\ pb = pa + ahead
  /\ \E blocks \in Nat :
       blocks * BlockSize = ahead /\ UpList(w, BitOf(sb /\ ~sa), blocks, pa, chosen, from, n)

LEMMA UpAsState ==
  UpInv <=> UpState(setup[ALICE], setup[BOB], prg[ALICE], prg[BOB], wire[ALICE], AheadNow,
                    choice[at[BOB]], Rows(BOB) - AheadNow, Length(BOB))
  BY Zenon DEF UpInv, UpState, AheadNow

LEMMA UpAsStateNext ==
  UpInv' <=> UpState(setup'[ALICE], setup'[BOB], prg'[ALICE], prg'[BOB], wire'[ALICE], AheadNow',
                     choice'[at'[BOB]], Rows(BOB)' - AheadNow', Length(BOB)')
  BY Zenon DEF UpInv, UpState, AheadNow

\* Without a block under way it matters little where the receiver is.
LEMMA NoBlocks ==
  ASSUME KKOTAssumption, NEW sa, NEW sb, NEW pa, NEW pb, NEW w, NEW chosen, NEW from, NEW n,
         UpState(sa, sb, pa, pb, w, 0, chosen, from, n), NEW chosen2, NEW from2, NEW n2
  PROVE  UpState(sa, sb, pa, pb, w, 0, chosen2, from2, n2)
  <1>1. PICK blocks \in Nat : blocks * BlockSize = 0 /\ UpList(w, BitOf(sb /\ ~sa), blocks, pa, chosen, from, n)
    BY DEF UpState
  <1>2. blocks = 0
    <2>1. PICK B \in Nat : B = BlockSize /\ B > 0
      BY Sizes
    <2>2. blocks > 0 => blocks * B > 0
      BY <2>1
    <2> QED
      BY <1>1, <2>1, <2>2
  <1>3. UpList(w, BitOf(sb /\ ~sa), 0, pa, chosen2, from2, n2)
    BY <1>1, <1>2 DEF UpList
  <1>4. 0 * BlockSize = 0 /\ 0 \in Nat
    BY Sizes
  <1> QED
    BY <1>3, <1>4, Zenon DEF UpState

\* A step that sends nothing to the sender and takes nothing there.
LEMMA UpKept ==
  ASSUME KKOTAssumption, UpInv, AheadNow' = AheadNow, wire'[ALICE] = wire[ALICE],
         setup'[ALICE] = setup[ALICE], setup'[BOB] = setup[BOB],
         prg'[ALICE] = prg[ALICE], prg'[BOB] = prg[BOB],
         \/ AheadNow = 0
         \/ choice'[at'[BOB]] = choice[at[BOB]] /\ Rows(BOB)' = Rows(BOB) /\ Length(BOB)' = Length(BOB)
  PROVE  UpInv'
  <1>1. PICK ahead, from, chosen, n, from2, chosen2, n2, sa, sb, pa, pb, w :
          /\ ahead = AheadNow /\ from = Rows(BOB) - AheadNow /\ from2 = Rows(BOB)' - AheadNow'
          /\ chosen = choice[at[BOB]] /\ chosen2 = choice'[at'[BOB]] /\ n = Length(BOB) /\ n2 = Length(BOB)'
          /\ sa = setup[ALICE] /\ sb = setup[BOB] /\ pa = prg[ALICE] /\ pb = prg[BOB] /\ w = wire[ALICE]
    OBVIOUS
  <1>2. UpState(sa, sb, pa, pb, w, ahead, chosen, from, n)
    BY <1>1, UpAsState
  <1>3. UpState(sa, sb, pa, pb, w, ahead, chosen2, from2, n2)
    <2>1. CASE ahead = 0
      BY <1>2, <2>1, NoBlocks
    <2>2. CASE ahead # 0
      BY <1>1, <1>2, <2>2
    <2> QED
      BY <2>1, <2>2
  <1> QED
    BY <1>1, <1>3, UpAsStateNext

\* The receiver, after a step of the sender.
LEMMA BobKept ==
  ASSUME Idle(BOB)
  PROVE  /\ choice'[at'[BOB]] = choice[at[BOB]] /\ Rows(BOB)' = Rows(BOB) /\ Length(BOB)' = Length(BOB)
         /\ setup'[BOB] = setup[BOB] /\ prg'[BOB] = prg[BOB] /\ at'[BOB] = at[BOB]
  BY DEF Idle, Rows, Length, Now

\* The sender goes on to its next call without leaving rows behind.
LEMMA AheadNextAlice ==
  ASSUME KKOTAssumption, LocalInv, Idle(BOB), at'[ALICE] = at[ALICE] + 1, Rows(ALICE)' = 0,
         at[ALICE] = at[BOB] => Rows(ALICE) = Rows(BOB)
  PROVE  AheadNow' = AheadNow
  <1>1. PICK a \in Nat, b \in Nat, ma \in Nat, mb \in Nat :
          a = at[ALICE] /\ b = at[BOB] /\ ma = Rows(ALICE) /\ mb = Rows(BOB)
    BY View DEF Party
  <1>2. at'[ALICE] = a + 1 /\ at'[BOB] = b /\ Rows(ALICE)' = 0 /\ Rows(BOB)' = mb
    BY <1>1, BobKept
  <1>3. AheadNow' = Ahead(a + 1, b, 0, mb)
    BY <1>2 DEF AheadNow
  <1>4. a = b => ma = mb
    BY <1>1
  <1>5. Ahead(a + 1, b, 0, mb) = Ahead(a, b, ma, mb)
    BY <1>1, <1>4 DEF Ahead
  <1> QED
    BY <1>1, <1>3, <1>5 DEF AheadNow

\* The seed is taken.
LEMMA UpSetupSend ==
  ASSUME KKOTAssumption, LocalInv, UpInv, SetupSend
  PROVE  UpInv'
  <1>0. ALICE \in Party /\ BOB \in Party
    BY DEF Party
  <1>1. setup[BOB] /\ ~setup[ALICE] /\ pc[ALICE] = "seed"
    BY SeedComes
  <1>2. /\ wire' = [q \in Party |-> wire'[q]]
        /\ wire'[ALICE] = SubSeq(wire[ALICE], 1 + 1, Len(wire[ALICE]))
    <2>1. Receive(ALICE, 1)
      BY DEF SetupSend
    <2> QED
      BY <1>0, <2>1, ReceivedOne, Zenon
  <1>3. /\ prg' = prg /\ rows' = rows /\ setup'[ALICE] = TRUE
        /\ \/ Now(ALICE).op = "setup" /\ at'[ALICE] = at[ALICE] + 1
           \/ Now(ALICE).op # "setup" /\ at'[ALICE] = at[ALICE]
    <2>1. Seeded(ALICE)
      BY DEF SetupSend
    <2> QED
      BY <1>0, <1>2, <2>1, SeededTouches
  <1>4. Idle(BOB)
    BY SenderIdle DEF Sender
  <1>5. AheadNow' = AheadNow
    <2>1. CASE at'[ALICE] = at[ALICE]
      BY <1>3, <1>4, <2>1, BobKept DEF AheadNow, Rows
    <2>2. CASE Now(ALICE).op = "setup" /\ at'[ALICE] = at[ALICE] + 1
      <3>1. at[ALICE] < at[BOB]
        BY <2>2, SetupBehind
      <3>2. Rows(ALICE)' = 0
        BY <1>0, <1>1, <1>3, View DEF Rows
      <3>3. at[ALICE] \in Nat /\ at[BOB] \in Nat
        BY <1>0, View
      <3>4. at[ALICE] # at[BOB]
        BY <3>1, <3>3
      <3> QED
        BY <1>4, <2>2, <3>2, <3>4, AheadNextAlice
    <2> QED
      BY <1>3, <2>1, <2>2
  <1>6. PICK ahead, from, chosen, n, pa, pb, w, w2 :
          /\ ahead = AheadNow /\ from = Rows(BOB) - AheadNow /\ chosen = choice[at[BOB]] /\ n = Length(BOB)
          /\ pa = prg[ALICE] /\ pb = prg[BOB] /\ w = wire[ALICE] /\ w2 = wire'[ALICE]
    OBVIOUS
  <1>7. UpState(FALSE, TRUE, pa, pb, w, ahead, chosen, from, n)
    <2>1. setup[ALICE] = FALSE /\ setup[BOB] = TRUE
      BY <1>0, <1>1, View
    <2> QED
      BY <1>6, <2>1, UpAsState
  <1>8. PICK blocks \in Nat : blocks * BlockSize = ahead /\ UpList(w, 1, blocks, pa, chosen, from, n) /\ pb = pa + ahead
    BY <1>7 DEF UpState, BitOf
  <1>9. UpList(w2, 0, blocks, pa, chosen, from, n)
    <2>1. IsList(w, 1 + blocks)
      BY <1>8 DEF UpList
    <2>2. IsRest(w2, w, 1)
      BY <1>2, <1>6 DEF IsRest
    <2>3. PICK l \in Nat : l = 1 + blocks /\ 1 <= l /\ l - 1 = blocks
      BY <1>8
    <2>4. IsList(w2, blocks) /\ \A k \in 1..blocks : w2[k] = w[k + 1]
      BY <2>1, <2>2, <2>3, RestOfList
    <2>5. ASSUME NEW m \in 0..(blocks - 1)
          PROVE  IsBlock(w2[0 + m + 1], pa + m * BlockSize, chosen, from + m * BlockSize, n)
      <3>1. IsBlock(w[1 + m + 1], pa + m * BlockSize, chosen, from + m * BlockSize, n)
        BY <1>8, Zenon DEF UpList
      <3>2. m + 1 \in 1..blocks /\ 0 + m + 1 = m + 1 /\ 1 + m + 1 = m + 1 + 1
        BY <1>8
      <3>3. w2[m + 1] = w[m + 1 + 1]
        BY <2>4, <3>2, Zenon
      <3> QED
        BY <3>1, <3>2, <3>3
    <2>6. 0 + blocks = blocks
      BY <1>8
    <2> QED
      BY <2>4, <2>5, <2>6 DEF UpList
  <1>10. UpState(TRUE, TRUE, pa, pb, w2, ahead, chosen, from, n)
    BY <1>8, <1>9 DEF UpState, BitOf
  <1>11. setup'[ALICE] = TRUE /\ setup'[BOB] = TRUE /\ prg'[ALICE] = pa /\ prg'[BOB] = pb
    BY <1>0, <1>1, <1>3, <1>4, <1>6, BobKept, View
  <1> QED
    BY <1>4, <1>5, <1>6, <1>10, <1>11, BobKept, UpAsStateNext

\* A block less.
LEMMA UpSendPre ==
  ASSUME KKOTAssumption, LocalInv, ApartInv, UpInv, SendPre
  PROVE  UpInv'
  <1>0. ALICE \in Party /\ BOB \in Party
    BY DEF Party
  <1>1. at[ALICE] = at[BOB] /\ setup[ALICE] /\ setup[BOB]
    BY BlockComes
  <1>2. PICK B \in Nat, ma \in Nat, mb \in Nat, pa \in Nat, pb \in Nat, a \in Nat :
          /\ B = BlockSize /\ B > 0 /\ ma = Rows(ALICE) /\ mb = Rows(BOB) /\ pa = prg[ALICE] /\ pb = prg[BOB]
          /\ a = at[ALICE]
    BY <1>0, Sizes, View
  <1>3. PICK w, w2, chosen, n : w = wire[ALICE] /\ w2 = wire'[ALICE] /\ chosen = choice[at[BOB]] /\ n = Length(BOB)
    OBVIOUS
  <1>4. PICK blocks \in Nat : /\ blocks > 0 /\ blocks * B = mb - ma /\ pb = pa + (mb - ma)
                              /\ UpList(w, 0, blocks, pa, chosen, ma, n)
    BY <1>2, <1>3, BlockComes
  <1>5. /\ setup' = setup /\ at' = at /\ prg'[ALICE] = pa + B /\ Rows(ALICE)' = ma + B
        /\ w2 = SubSeq(w, 1 + 1, Len(w))
    BY <1>2, <1>3, SendPreTouches, SendPreFine
  <1>6. Idle(BOB)
    BY SenderIdle DEF Sender
  <1>7. AheadNow' = mb - (ma + B)
    <2>1. at'[ALICE] = a /\ at'[BOB] = a /\ Rows(BOB)' = mb
      BY <1>1, <1>2, <1>5, <1>6, BobKept
    <2> QED
      BY <1>2, <1>5, <2>1 DEF AheadNow, Ahead
  <1>8. PICK rest \in Nat : rest = blocks - 1 /\ rest * B = mb - (ma + B)
    <2>1. PICK rest \in Nat : blocks = rest + 1
      <3>1. blocks - 1 \in Nat /\ blocks = (blocks - 1) + 1
        BY <1>4
      <3> QED
        BY <3>1
    <2>2. (rest + 1) * B = rest * B + B /\ rest * B \in Nat
      BY <1>2
    <2> QED
      BY <1>2, <1>4, <2>1, <2>2
  <1>9. UpList(w2, 0, rest, pa + B, chosen, ma + B, n)
    <2>1. IsList(w, blocks)
      BY <1>4 DEF UpList
    <2>2. IsRest(w2, w, 1)
      BY <1>5 DEF IsRest
    <2>3. IsList(w2, rest) /\ \A k \in 1..rest : w2[k] = w[k + 1]
      <3>1. 1 <= blocks /\ blocks - 1 = rest
        BY <1>4, <1>8
      <3> QED
        BY <2>1, <2>2, <3>1, RestOfList
    <2>4. ASSUME NEW m \in 0..(rest - 1)
          PROVE  IsBlock(w2[0 + m + 1], (pa + B) + m * BlockSize, chosen, (ma + B) + m * BlockSize, n)
      <3>1. m + 1 \in 0..(blocks - 1) /\ m + 1 \in 1..rest /\ m \in Nat
        BY <1>8
      <3>2. IsBlock(w[0 + (m + 1) + 1], pa + (m + 1) * B, chosen, ma + (m + 1) * B, n)
        <4>1. \A k \in 0..(blocks - 1) : IsBlock(w[0 + k + 1], pa + k * B, chosen, ma + k * B, n)
          BY <1>2, <1>4 DEF UpList
        <4> QED
          BY <3>1, <4>1, Zenon
      <3>3. (m + 1) * B = B + m * B /\ m * B \in Nat
        BY <1>2, <3>1
      <3>4. pa + (m + 1) * B = (pa + B) + m * B /\ ma + (m + 1) * B = (ma + B) + m * B
        BY <1>2, <3>3
      <3>5. w2[m + 1] = w[m + 1 + 1] /\ 0 + m + 1 = m + 1 /\ 0 + (m + 1) + 1 = m + 1 + 1
        BY <2>3, <3>1
      <3> QED
        BY <1>2, <3>2, <3>4, <3>5
    <2>5. 0 + rest = rest
      BY <1>8
    <2> QED
      BY <2>3, <2>4, <2>5 DEF UpList
  <1>10. PICK ahead : ahead = mb - (ma + B) /\ pb = (pa + B) + ahead /\ mb - ahead = ma + B
    BY <1>2, <1>4
  <1>11. UpState(TRUE, TRUE, pa + B, pb, w2, ahead, chosen, ma + B, n)
    BY <1>2, <1>8, <1>9, <1>10 DEF UpState, BitOf
  <1>12. setup'[ALICE] = TRUE /\ setup'[BOB] = TRUE /\ prg'[BOB] = pb
    BY <1>0, <1>1, <1>2, <1>5, <1>6, BobKept, View
  <1>13. /\ choice'[at'[BOB]] = chosen /\ Length(BOB)' = n /\ Rows(BOB)' = mb
    BY <1>2, <1>3, <1>6, BobKept
  <1> QED
    BY <1>3, <1>5, <1>7, <1>10, <1>11, <1>12, <1>13, UpAsStateNext

\* A block more, after those that are under way.
LEMMA UpRecvPre ==
  ASSUME KKOTAssumption, LocalInv, ApartInv, UpInv, RecvPre
  PROVE  UpInv'
  <1>0. ALICE \in Party /\ BOB \in Party
    BY DEF Party
  <1>1. ~(at[BOB] < at[ALICE]) /\ pc[BOB] = "extend"
    BY RowsWanted, RecvPreTouches
  <1>2. PICK B \in Nat, ma \in Nat, mb \in Nat, pa \in Nat, pb \in Nat, a \in Nat, b \in Nat, n \in Nat :
          /\ B = BlockSize /\ B > 0 /\ ma = Rows(ALICE) /\ mb = Rows(BOB) /\ pa = prg[ALICE] /\ pb = prg[BOB]
          /\ a = at[ALICE] /\ b = at[BOB] /\ n = Length(BOB)
    <2>1. Length(BOB) \in Nat
      BY <1>0, <1>1, View
    <2> QED
      BY <1>0, <2>1, Sizes, View
  <1>3. PICK w, w2, chosen : w = wire[ALICE] /\ w2 = wire'[ALICE] /\ chosen = choice[at[BOB]]
    OBVIOUS
  <1>4. PICK seeds \in Nat, blocks \in Nat, ahead \in Nat :
          /\ seeds = BitOf(setup[BOB] /\ ~setup[ALICE])
          /\ ahead = Ahead(a, b, ma, mb) /\ blocks * B = ahead /\ pb = pa + ahead
          /\ UpList(w, seeds, blocks, pa, chosen, mb - ahead, n) /\ IsList(w, seeds + blocks)
    BY <1>2, <1>3, WireUp
  <1>5. setup' = setup /\ at' = at /\ prg'[BOB] = pb + B /\ Rows(BOB)' = mb + B /\ Idle(ALICE) /\ Touches(BOB)
    BY <1>2, RecvPreTouches, RecvPreFine, ReceiverTouches DEF Receiver
  <1>6. PICK filler : filler \in Fillers /\ Send(BOB, <<[kind |-> "U", val |-> [j \in 0..(BlockSize - 1) |->
          [pos |-> prg[BOB] + j, word |-> CodeWord(Extended(filler, Len(rows[BOB]) + j))]]]>>)
    BY DEF RecvPre
  <1>7. PICK u : u = [kind |-> "U", val |-> [j \in 0..(B - 1) |-> [pos |-> pb + j, word |-> CodeWord(Extended(filler, mb + j))]]]
    OBVIOUS
  <1>8. w2 = w \o <<u>>
    <2>1. Send(BOB, <<u>>)
      BY <1>2, <1>6, <1>7 DEF Rows
    <2>2. Peer(BOB) = ALICE
      BY DEF Peer, ALICE, BOB
    <2> QED
      BY <1>0, <1>3, <2>1, <2>2, SentOne
  <1>9. PICK from \in Int : from = mb - ahead /\ from + ahead = mb
    BY <1>2, <1>4
  <1>10. IsBlock(u, pa + ahead, chosen, from + ahead, n)
    <2>1. ASSUME NEW j \in 0..(B - 1), mb + j < n
          PROVE  Extended(filler, mb + j) = chosen[mb + j]
      BY <1>2, <1>3, <2>1 DEF Extended
    <2>2. u.kind = "U" /\ \A j \in 0..(B - 1) : u.val[j].pos = pb + j /\ u.val[j].word = CodeWord(Extended(filler, mb + j))
      BY <1>7
    <2>3. \A j \in 0..(B - 1) : u.val[j].pos = pb + j /\ (mb + j < n => u.val[j].word = CodeWord(chosen[mb + j]))
      BY <2>1, <2>2
    <2> QED
      BY <1>2, <1>4, <1>9, <2>2, <2>3 DEF IsBlock
  <1>11. UpList(w2, seeds, blocks + 1, pa, chosen, from, n)
    <2>1. IsList(<<u>>, 1) /\ <<u>>[1] = u /\ IsJoin(w2, w, <<u>>)
      BY <1>8 DEF IsList, IsJoin
    <2>2. PICK l \in Nat : l = seeds + blocks
      BY <1>4
    <2>3. /\ IsList(w2, l + 1) /\ \A k \in 1..l : w2[k] = w[k]
          /\ w2[l + 1] = u
      <3>1. /\ IsList(w2, l + 1) /\ \A k \in 1..l : w2[k] = w[k]
            /\ \A k \in 1..1 : w2[l + k] = <<u>>[k]
        BY <1>4, <2>1, <2>2, JoinedList
      <3>2. w2[l + 1] = <<u>>[1]
        BY <3>1
      <3> QED
        BY <2>1, <3>1, <3>2
    <2>4. ASSUME NEW m \in 0..((blocks + 1) - 1)
          PROVE  IsBlock(w2[seeds + m + 1], pa + m * BlockSize, chosen, from + m * BlockSize, n)
      <3>1. CASE m = blocks
        <4>1. seeds + m + 1 = l + 1
          BY <1>4, <2>2, <3>1
        <4>2. pa + m * BlockSize = pa + ahead /\ from + m * BlockSize = from + ahead
          BY <1>2, <1>4, <3>1
        <4> QED
          BY <1>10, <2>3, <4>1, <4>2
      <3>2. CASE m # blocks
        <4>1. m \in 0..(blocks - 1) /\ seeds + m + 1 \in 1..l
          BY <1>4, <2>2, <3>2
        <4>2. IsBlock(w[seeds + m + 1], pa + m * BlockSize, chosen, from + m * BlockSize, n)
          BY <1>4, <1>9, <4>1, Zenon DEF UpList
        <4>3. w2[seeds + m + 1] = w[seeds + m + 1]
          BY <2>3, <4>1
        <4> QED
          BY <4>2, <4>3
      <3> QED
        BY <3>1, <3>2
    <2>5. seeds = 1 => w2[1].kind = "seed"
      <3>1. seeds = 1 => 1 \in 1..l /\ w[1].kind = "seed"
        BY <1>4, <2>2 DEF UpList
      <3> QED
        BY <2>3, <3>1
    <2>6. seeds + (blocks + 1) = l + 1
      BY <1>4, <2>2
    <2> QED
      BY <2>3, <2>4, <2>5, <2>6 DEF UpList
  <1>12. PICK ahead2 \in Nat, mb2 \in Nat, pb2 \in Nat : ahead2 = ahead + B /\ mb2 = mb + B /\ pb2 = pb + B
    BY <1>2, <1>4
  <1>18. pb2 = pa + ahead2 /\ mb2 - ahead2 = from
    BY <1>2, <1>4, <1>9, <1>12
  <1>13. (blocks + 1) * BlockSize = ahead2 /\ blocks + 1 \in Nat
    <2>1. (blocks + 1) * B = blocks * B + B
      BY <1>2, <1>4
    <2> QED
      BY <1>2, <1>4, <1>12, <2>1
  <1>14. setup[ALICE] => setup[BOB]
    BY DEF UpInv
  <1>15. UpState(setup[ALICE], setup[BOB], pa, pb2, w2, ahead2, chosen, from, n)
    BY <1>4, <1>11, <1>13, <1>14, <1>18, Zenon DEF UpState
  <1>16. AheadNow' = ahead2
    <2>1. at'[ALICE] = a /\ at'[BOB] = b /\ Rows(ALICE)' = ma /\ Rows(BOB)' = mb2
      BY <1>2, <1>5, <1>12 DEF Idle, Rows
    <2>2. Ahead(a, b, ma, mb2) = ahead2
      <3>1. ~(b < a)
        BY <1>1, <1>2
      <3>2. CASE a < b
        <4>1. Ahead(a, b, ma, mb2) = mb2 /\ Ahead(a, b, ma, mb) = mb
          BY <3>2 DEF Ahead
        <4> QED
          BY <1>4, <1>12, <4>1
      <3>3. CASE a = b
        <4>1. Ahead(a, b, ma, mb2) = mb2 - ma /\ Ahead(a, b, ma, mb) = mb - ma
          BY <1>2, <3>3 DEF Ahead
        <4> QED
          BY <1>2, <1>4, <1>12, <4>1
      <3> QED
        BY <1>2, <3>1, <3>2, <3>3
    <2> QED
      BY <2>1, <2>2 DEF AheadNow
  <1>17. /\ prg'[ALICE] = pa /\ prg'[BOB] = pb2 /\ Rows(BOB)' = mb2 /\ choice'[at'[BOB]] = chosen /\ Length(BOB)' = n
    BY <1>2, <1>3, <1>5, <1>12 DEF Idle, Length, Now
  <1> QED
    BY <1>3, <1>5, <1>15, <1>16, <1>17, <1>18, UpAsStateNext

\* The seed.
LEMMA UpSetupRecv ==
  ASSUME KKOTAssumption, LocalInv, UpInv, SetupRecv
  PROVE  UpInv'
  <1>0. ALICE \in Party /\ BOB \in Party
    BY DEF Party
  <1>1. pc[BOB] = "seed" /\ setup[BOB] = FALSE
    BY <1>0, View DEF SetupRecv
  <1>2. setup[ALICE] = FALSE
    BY <1>0, <1>1, View, WireUp
  <1>3. PICK ma \in Nat, mb \in Nat, pa \in Nat, pb \in Nat, a \in Nat, b \in Nat :
          /\ ma = Rows(ALICE) /\ mb = Rows(BOB) /\ pa = prg[ALICE] /\ pb = prg[BOB] /\ a = at[ALICE] /\ b = at[BOB]
    BY <1>0, View
  <1>4. ma = 0 /\ mb = 0 /\ pa = 0 /\ pb = 0
    BY <1>0, <1>1, <1>2, <1>3, View
  <1>5. AheadNow = 0
    BY <1>3, <1>4 DEF AheadNow, Ahead
  <1>6. PICK w, w2 : w = wire[ALICE] /\ w2 = wire'[ALICE]
    OBVIOUS
  <1>7. PICK seed : seed = [kind |-> "seed"]
    OBVIOUS
  <1>8. w2 = w \o <<seed>> /\ wire' = [q \in Party |-> wire'[q]]
    <2>1. Send(BOB, <<seed>>) /\ Peer(BOB) = ALICE
      BY <1>7 DEF SetupRecv, Peer, ALICE, BOB
    <2> QED
      BY <1>0, <1>6, <2>1, SentOne
  <1>9. /\ prg' = prg /\ rows' = rows /\ setup'[BOB] = TRUE /\ Touches(BOB) /\ Idle(ALICE)
        /\ at'[BOB] = at[BOB] \/ at'[BOB] = at[BOB] + 1
    <2>1. Seeded(BOB)
      BY DEF SetupRecv
    <2> QED
      BY <1>0, <1>8, <2>1, SeededTouches, ReceiverTouches DEF Receiver
  <1>10. AheadNow' = 0
    <2>1. at'[ALICE] = a /\ Rows(ALICE)' = 0 /\ Rows(BOB)' = 0 /\ (at'[BOB] = b \/ at'[BOB] = b + 1)
      BY <1>3, <1>4, <1>9 DEF Idle, Rows
    <2> QED
      BY <1>3, <2>1 DEF AheadNow, Ahead
  <1>11. PICK from, chosen, n, from2, chosen2, n2 :
           /\ from = Rows(BOB) - AheadNow /\ from2 = Rows(BOB)' - AheadNow'
           /\ chosen = choice[at[BOB]] /\ chosen2 = choice'[at'[BOB]] /\ n = Length(BOB) /\ n2 = Length(BOB)'
    OBVIOUS
  <1>12. UpState(FALSE, FALSE, pa, pb, w, 0, chosen, from, n)
    BY <1>1, <1>2, <1>3, <1>5, <1>6, <1>11, UpAsState
  <1>13. UpState(FALSE, FALSE, pa, pb, w, 0, chosen2, from2, n2)
    BY <1>12, NoBlocks
  <1>14. PICK blocks \in Nat : blocks * BlockSize = 0 /\ UpList(w, 0, blocks, pa, chosen2, from2, n2)
    BY <1>13 DEF UpState, BitOf
  <1>15. blocks = 0
    <2>1. PICK B \in Nat : B = BlockSize /\ B > 0
      BY Sizes
    <2>2. blocks > 0 => blocks * B > 0
      BY <2>1
    <2> QED
      BY <1>14, <2>1, <2>2
  <1>16. UpList(w2, 1, 0, pa, chosen2, from2, n2)
    <2>1. IsList(w, 0)
      BY <1>14, <1>15 DEF UpList
    <2>2. IsList(<<seed>>, 1) /\ IsJoin(w2, w, <<seed>>) /\ <<seed>>[1] = seed
      BY <1>8 DEF IsList, IsJoin
    <2>3. IsList(w2, 0 + 1) /\ \A k \in 1..1 : w2[0 + k] = <<seed>>[k]
      BY <2>1, <2>2, JoinedList
    <2>4. IsList(w2, 1 + 0) /\ w2[1].kind = "seed"
      BY <1>7, <2>3
    <2> QED
      BY <2>4 DEF UpList
  <1>17. UpState(FALSE, TRUE, pa, pb, w2, 0, chosen2, from2, n2)
    <2>1. 0 * BlockSize = 0
      BY <1>14, <1>15
    <2> QED
      BY <1>3, <1>4, <1>16, <2>1 DEF UpState, BitOf
  <1>18. setup'[ALICE] = FALSE /\ setup'[BOB] = TRUE /\ prg'[ALICE] = pa /\ prg'[BOB] = pb
    BY <1>2, <1>3, <1>9 DEF Idle
  <1> QED
    BY <1>6, <1>10, <1>11, <1>17, <1>18, UpAsStateNext

LEMMA UpByAlice ==
  ASSUME KKOTAssumption, LocalInv, ApartInv, UpInv, Sender
  PROVE  UpInv'
  <1>0. ALICE \in Party /\ BOB \in Party
    BY DEF Party
  <1>1. Idle(BOB)
    BY SenderIdle
  <1>2. ASSUME at'[ALICE] = at[ALICE], rows'[ALICE] = rows[ALICE]
        PROVE  AheadNow' = AheadNow
    BY <1>1, <1>2, BobKept DEF AheadNow, Rows
  <1>3. ASSUME AheadNow' = AheadNow, wire'[ALICE] = wire[ALICE],
               setup'[ALICE] = setup[ALICE], prg'[ALICE] = prg[ALICE]
        PROVE  UpInv'
    BY <1>1, <1>3, BobKept, UpKept
  <1>4. CASE Begin(ALICE)
    <2>1. Touches(ALICE) /\ rows' = rows /\ setup' = setup /\ prg' = prg /\ wire' = wire /\ pc[ALICE] = "call"
      BY <1>0, <1>4, BeginTouches
    <2>2. CASE Now(ALICE).op # "setup" /\ Length(ALICE) < 1 /\ at'[ALICE] = at[ALICE] + 1
      <3>1. Rows(ALICE) = 0 /\ Rows(ALICE)' = 0
        BY <1>0, <2>1, View DEF Rows
      <3>2. ASSUME at[ALICE] = at[BOB]
            PROVE  Rows(BOB) = 0
        <4>1. Empty(program[at[BOB]])
          <5>1. at[ALICE] \in DOMAIN program
            BY <1>0, <1>4, BeginTouches
          <5>2. Now(ALICE).op = "got"
            BY <1>0, <2>2, <5>1, View
          <5> QED
            BY <2>2, <3>2, <5>2 DEF Empty, Now, Length
        <4>2. pc[BOB] \in {"call", "seed"}
          BY <1>0, <4>1, View, NotFree
        <4> QED
          BY <1>0, <4>2, View
      <3>3. AheadNow' = AheadNow
        BY <1>1, <2>2, <3>1, <3>2, AheadNextAlice
      <3> QED
        BY <1>3, <2>1, <3>3
    <2>3. CASE at'[ALICE] = at[ALICE]
      BY <1>2, <1>3, <2>1, <2>3
    <2> QED
      BY <1>0, <1>4, <2>2, <2>3, BeginTouches
  <1>5. CASE FirstMasks
    <2>1. UNCHANGED <<at, setup, prg, rows, wire>>
      BY <1>5 DEF FirstMasks
    <2> QED
      BY <1>2, <1>3, <2>1
  <1>6. CASE StartPost(ALICE)
    BY <1>0, <1>2, <1>3, <1>6, StartPostTouches
  <1>7. CASE SendPost
    BY <1>2, <1>3, <1>7, SendPostTouches
  <1>8. CASE Return(ALICE)
    <2>1. setup' = setup /\ prg' = prg /\ wire' = wire /\ at'[ALICE] = at[ALICE] + 1 /\ rows'[ALICE] = <<>>
      BY <1>0, <1>8, ReturnTouches
    <2>2. Rows(ALICE)' = 0
      BY <2>1 DEF Rows
    <2>3. AheadNow' = AheadNow
      BY <1>1, <1>8, <2>1, <2>2, AheadNextAlice, ReturnsAfter
    <2> QED
      BY <1>3, <2>1, <2>3
  <1> QED
    BY <1>4, <1>5, <1>6, <1>7, <1>8, UpSetupSend, UpSendPre DEF Sender

LEMMA UpByBob ==
  ASSUME KKOTAssumption, LocalInv, ApartInv, UpInv, DownInv, Receiver
  PROVE  UpInv'
  <1>0. ALICE \in Party /\ BOB \in Party
    BY DEF Party
  <1>1. Idle(ALICE)
    BY ReceiverTouches
  <1>2. PICK a \in Nat, b \in Nat, ma \in Nat, mb \in Nat :
          a = at[ALICE] /\ b = at[BOB] /\ ma = Rows(ALICE) /\ mb = Rows(BOB)
    BY <1>0, View
  <1>3. at'[ALICE] = a /\ Rows(ALICE)' = ma /\ setup'[ALICE] = setup[ALICE] /\ prg'[ALICE] = prg[ALICE]
    BY <1>1, <1>2 DEF Idle, Rows
  <1>4. ASSUME Touches(BOB), at' = at, setup' = setup, prg' = prg, rows' = rows, wire'[ALICE] = wire[ALICE]
        PROVE  UpInv'
    <2>1. AheadNow' = AheadNow
      BY <1>4 DEF AheadNow, Rows
    <2>2. choice'[at'[BOB]] = choice[at[BOB]] /\ Rows(BOB)' = Rows(BOB) /\ Length(BOB)' = Length(BOB)
      BY <1>4 DEF Touches, Rows, Length, Now
    <2> QED
      BY <1>4, <2>1, <2>2, UpKept
  <1>5. b < a => ma = 0
    BY <1>2, Zenon DEF ApartInv, Apart2
  <1>6. ASSUME Touches(BOB), setup' = setup, prg' = prg, wire'[ALICE] = wire[ALICE],
               at'[BOB] = b + 1, Rows(BOB)' = 0, a < b => mb = 0, a = b => ma = mb
        PROVE  UpInv'
    <2>1. AheadNow = 0
      BY <1>2, <1>6 DEF AheadNow, Ahead
    <2>2. Ahead(a, b + 1, ma, 0) = 0
      BY <1>2, <1>5 DEF Ahead
    <2>3. AheadNow' = 0
      BY <1>3, <1>6, <2>2 DEF AheadNow
    <2> QED
      BY <1>6, <2>1, <2>3, UpKept
  <1>7. CASE Begin(BOB)
    <2>1. /\ Touches(BOB) /\ rows' = rows /\ setup' = setup /\ prg' = prg /\ wire' = wire /\ pc[BOB] = "call"
      BY <1>0, <1>7, BeginTouches
    <2>2. mb = 0 /\ Rows(BOB)' = 0
      BY <1>0, <1>2, <2>1, View DEF Rows
    <2>3. CASE at'[BOB] = at[BOB] + 1
      <3>1. a = b => ma <= mb
        BY <1>2, RowsBehind
      <3> QED
        BY <1>2, <1>6, <2>1, <2>2, <2>3, <3>1
    <2>4. CASE at'[BOB] = at[BOB]
      <3>1. at' = at
        BY <1>0, <2>1, <2>4 DEF Touches, LocalInv
      <3> QED
        BY <1>4, <2>1, <3>1
    <2> QED
      BY <1>0, <1>7, <2>3, <2>4, BeginTouches
  <1>8. CASE StartPost(BOB)
    BY <1>0, <1>4, <1>8, StartPostTouches
  <1>9. CASE RecvPost
    BY <1>4, <1>9, RecvPostTouches
  <1>10. CASE Return(BOB)
    <2>1. /\ Touches(BOB) /\ setup' = setup /\ prg' = prg /\ wire' = wire /\ at'[BOB] = b + 1 /\ rows'[BOB] = <<>>
      BY <1>0, <1>2, <1>10, ReturnTouches
    <2>2. Rows(BOB)' = 0
      BY <2>1 DEF Rows
    <2>3. ~(a < b) /\ (a = b => ma = mb)
      BY <1>2, <1>10, ReturnsBefore
    <2> QED
      BY <1>6, <2>1, <2>2, <2>3
  <1> QED
    BY <1>7, <1>8, <1>9, <1>10, UpSetupRecv, UpRecvPre DEF Receiver

LEMMA UpStep ==
  ASSUME KKOTAssumption, LocalInv, ApartInv, UpInv, DownInv, [Next]_vars
  PROVE  UpInv'
  <1>1. CASE UNCHANGED vars
    <2>1. UNCHANGED <<program, choice, at, setup, prg, rows, wire>>
      BY <1>1 DEF vars, inputs
    <2> QED
      BY <2>1 DEF UpInv, Rows, Length, Now
  <1> QED
    BY <1>1, UpByAlice, UpByBob DEF Next

------------------------------------------------------------------------------
(* What is under way to the receiver.                                      *)

TopNow == Top(at[ALICE], at[BOB], i[ALICE], i[BOB], Length(BOB))

LEMMA DownNow ==
  DownInv <=> DownList(wire[BOB], rows[BOB], at[BOB], Now(BOB).N, choice[at[BOB]], s, i[BOB], TopNow)
  BY Zenon DEF DownInv, TopNow

LEMMA DownNext ==
  DownInv' <=> DownList(wire'[BOB], rows'[BOB], at'[BOB], Now(BOB)'.N, choice'[at'[BOB]], s', i'[BOB], TopNow')
  BY Zenon DEF DownInv, TopNow

\* A step that sends nothing to the receiver and takes nothing there.
LEMMA DownKept ==
  ASSUME DownInv, wire'[BOB] = wire[BOB],
         \/ /\ at'[BOB] = at[BOB] /\ inputs' = inputs /\ rows'[BOB] = rows[BOB] /\ i'[BOB] = i[BOB]
            /\ TopNow' = TopNow
         \/ TopNow = i[BOB] /\ TopNow' = i'[BOB] /\ i'[BOB] \in Nat
  PROVE  DownInv'
  <1>1. CASE /\ at'[BOB] = at[BOB] /\ inputs' = inputs /\ rows'[BOB] = rows[BOB] /\ i'[BOB] = i[BOB]
             /\ TopNow' = TopNow
    <2>1. Now(BOB)' = Now(BOB) /\ choice'[at'[BOB]] = choice[at[BOB]] /\ s' = s
      BY <1>1 DEF Now, inputs
    <2> QED
      BY <1>1, <2>1, DownNow, DownNext
  <1>2. CASE TopNow = i[BOB] /\ TopNow' = i'[BOB] /\ i'[BOB] \in Nat
    <2>1. IsList(wire[BOB], 0)
      BY <1>2, DownNow DEF DownList
    <2>2. PICK to \in Nat : to = i'[BOB]
      BY <1>2
    <2>3. to <= to /\ ~(to < to)
      OBVIOUS
    <2>4. DownList(wire'[BOB], rows'[BOB], at'[BOB], Now(BOB)'.N, choice'[at'[BOB]], s', to, to)
      BY <2>1, <2>3 DEF DownList
    <2> QED
      BY <1>2, <2>2, <2>4, DownNext
  <1> QED
    BY <1>1, <1>2

\* The sender goes on to its next call.
LEMMA DownNextAlice ==
  ASSUME KKOTAssumption, LocalInv, ApartInv, DownInv, Idle(BOB), inputs' = inputs, wire'[BOB] = wire[BOB],
         at'[ALICE] = at[ALICE] + 1, i'[ALICE] = 0, at[ALICE] = at[BOB] => i[ALICE] = Length(BOB)
  PROVE  DownInv'
  <1>1. PICK a \in Nat, b \in Nat, ia \in Nat, ib \in Nat : a = at[ALICE] /\ b = at[BOB] /\ ia = i[ALICE] /\ ib = i[BOB]
    BY View DEF Party
  <1>2. PICK n : n = Length(BOB)
    OBVIOUS
  <1>3. a < b => ib = 0
    BY <1>1, Zenon DEF ApartInv, Apart2
  <1>4. at'[BOB] = b /\ Length(BOB)' = n /\ i'[BOB] = ib /\ rows'[BOB] = rows[BOB]
    BY <1>1, <1>2, BobKept DEF Idle
  <1>5. Top(a + 1, b, 0, ib, n) = Top(a, b, ia, ib, n)
    <2>1. CASE a < b
      BY <1>1, <1>3, <2>1 DEF Top
    <2>2. CASE a = b
      BY <1>1, <1>2, <2>2 DEF Top
    <2>3. CASE b < a
      BY <1>1, <2>3 DEF Top
    <2> QED
      BY <1>1, <2>1, <2>2, <2>3
  <1>6. TopNow' = TopNow
    BY <1>1, <1>2, <1>4, <1>5 DEF TopNow
  <1> QED
    BY <1>1, <1>4, <1>6, DownKept

\* The receiver goes on to its next call, having taken everything.
LEMMA DownNextBob ==
  ASSUME KKOTAssumption, LocalInv, ApartInv, DownInv, Idle(ALICE), inputs' = inputs, wire'[BOB] = wire[BOB],
         at'[BOB] = at[BOB] + 1, i'[BOB] = 0, TopNow = i[BOB]
  PROVE  DownInv'
  <1>1. PICK a \in Nat, b \in Nat, ia \in Nat : a = at[ALICE] /\ b = at[BOB] /\ ia = i[ALICE]
    BY View DEF Party
  <1>2. PICK n2 : n2 = Length(BOB)'
    OBVIOUS
  <1>3. at'[ALICE] = a /\ i'[ALICE] = ia /\ program' = program
    BY <1>1 DEF Idle
  <1>4. n2 = program[b + 1].length
    BY <1>1, <1>2, <1>3 DEF Length, Now
  <1>5. ASSUME b < a
        PROVE  ia = 0
    <2>1. Rows(ALICE) = 0
      BY <1>1, <1>5, Zenon DEF ApartInv, Apart2
    <2>2. pc[ALICE] # "post"
      <3>1. ASSUME pc[ALICE] = "post"
            PROVE  FALSE
        <4>1. PICK n \in Nat, l \in Nat : l = PaddedLength(n) /\ n > 0 /\ n <= l /\ Rows(ALICE) = l
          BY <3>1, View DEF Party
        <4> QED
          BY <2>1, <4>1
      <3> QED
        BY <3>1
    <2> QED
      BY <1>1, <2>2, View DEF Party
  <1>6. ASSUME b + 1 < a
        PROVE  n2 = 0
    <2>0. b < a
      BY <1>1, <1>6
    <2>1. \A c \in (b + 1)..(a - 1) : Empty(program[c])
      BY <1>1, <2>0, Zenon DEF ApartInv, Apart2
    <2>2. Empty(program[b + 1])
      BY <1>1, <1>6, <2>1
    <2>3. program[b + 1].length \in Nat
      <3>1. /\ program \in Programs /\ DOMAIN program = 1..Len(program) /\ Len(program) \in Nat
            /\ a \in 1..(Len(program) + 1)
        BY <1>1, CallType DEF LocalInv, PartyInv, Fine, Party
      <3>2. b + 1 \in DOMAIN program
        BY <1>1, <1>6, <3>1
      <3> QED
        BY <3>1, <3>2, CallType
    <2> QED
      BY <1>4, <2>2, <2>3 DEF Empty
  <1>7. Top(a, b + 1, ia, 0, n2) = 0
    <2>1. CASE a < b + 1
      BY <2>1 DEF Top
    <2>2. CASE a = b + 1
      BY <1>1, <1>5, <2>2 DEF Top
    <2>3. CASE b + 1 < a
      BY <1>1, <1>6, <2>3 DEF Top
    <2> QED
      BY <1>1, <2>1, <2>2, <2>3
  <1>8. TopNow' = 0
    BY <1>1, <1>2, <1>3, <1>7 DEF TopNow
  <1> QED
    BY <1>8, DownKept

LEMMA DownByAlice ==
  ASSUME KKOTAssumption, LocalInv, ApartInv, UpInv, DownInv, Sender, ~SendPost
  PROVE  DownInv'
  <1>0. ALICE \in Party /\ BOB \in Party
    BY DEF Party
  <1>1. Idle(BOB)
    BY SenderIdle
  <1>2. inputs' = inputs
    BY <1>1 DEF Idle, inputs
  <1>3. ASSUME at'[ALICE] = at[ALICE], i'[ALICE] = i[ALICE], wire'[BOB] = wire[BOB]
        PROVE  DownInv'
    <2>1. at'[BOB] = at[BOB] /\ i'[BOB] = i[BOB] /\ rows'[BOB] = rows[BOB] /\ Length(BOB)' = Length(BOB)
      BY <1>1, BobKept DEF Idle
    <2>2. TopNow' = TopNow
      BY <1>3, <2>1 DEF TopNow
    <2> QED
      BY <1>2, <1>3, <2>1, <2>2, DownKept
  <1>4. CASE Begin(ALICE)
    <2>1. Touches(ALICE) /\ i' = i /\ wire' = wire /\ pc[ALICE] = "call" /\ at[ALICE] \in DOMAIN program
      BY <1>0, <1>4, BeginTouches
    <2>2. i[ALICE] = 0
      BY <1>0, <2>1, View
    <2>3. CASE Length(ALICE) < 1 /\ at'[ALICE] = at[ALICE] + 1
      <3>1. Length(ALICE) = 0
        BY <1>0, <2>1, <2>3, View
      <3>2. at[ALICE] = at[BOB] => Length(BOB) = Length(ALICE)
        BY DEF Length, Now
      <3> QED
        BY <1>1, <1>2, <2>1, <2>2, <2>3, <3>1, <3>2, DownNextAlice
    <2>4. CASE at'[ALICE] = at[ALICE]
      BY <1>3, <2>1, <2>4
    <2> QED
      BY <1>0, <1>4, <2>3, <2>4, BeginTouches
  <1>5. CASE SetupSend
    <2>1. pc[ALICE] = "seed" /\ Receive(ALICE, 1) /\ Seeded(ALICE)
      BY <1>5 DEF SetupSend
    <2>2. wire' = [q \in Party |-> wire'[q]] /\ wire'[BOB] = wire[BOB]
      BY <1>0, <2>1, ReceivedOne, Zenon DEF Peer
    <2>3. /\ i' = i
          /\ \/ Now(ALICE).op = "setup" /\ at'[ALICE] = at[ALICE] + 1
             \/ Now(ALICE).op # "setup" /\ at'[ALICE] = at[ALICE]
      BY <1>0, <2>1, <2>2, SeededTouches
    <2>4. CASE Now(ALICE).op = "setup" /\ at'[ALICE] = at[ALICE] + 1
      <3>1. at[ALICE] # at[BOB]
        <4>1. at[ALICE] < at[BOB] /\ at[ALICE] \in Nat /\ at[BOB] \in Nat
          BY <1>0, <1>5, <2>4, SetupBehind, View
        <4> QED
          BY <4>1
      <3>2. i'[ALICE] = 0
        BY <1>0, <2>1, <2>3, View
      <3> QED
        BY <1>1, <1>2, <2>2, <2>4, <3>1, <3>2, DownNextAlice
    <2>5. CASE at'[ALICE] = at[ALICE]
      BY <1>3, <2>2, <2>3, <2>5
    <2> QED
      BY <2>3, <2>4, <2>5
  <1>6. CASE FirstMasks
    <2>1. UNCHANGED <<at, i, wire>>
      BY <1>6 DEF FirstMasks
    <2> QED
      BY <1>3, <2>1
  <1>7. CASE SendPre \/ StartPost(ALICE)
    BY <1>0, <1>3, <1>7, SendPreTouches, StartPostTouches
  <1>8. CASE Return(ALICE)
    <2>1. /\ wire' = wire /\ at'[ALICE] = at[ALICE] + 1 /\ i'[ALICE] = 0
          /\ pc[ALICE] = "post" /\ i[ALICE] >= Length(ALICE)
      BY <1>0, <1>8, ReturnTouches
    <2>2. i[ALICE] = Length(ALICE)
      <3>1. i[ALICE] \in Nat /\ Length(ALICE) \in Nat /\ i[ALICE] <= Length(ALICE)
        BY <1>0, <2>1, View
      <3> QED
        BY <2>1, <3>1
    <2>3. at[ALICE] = at[BOB] => Length(BOB) = Length(ALICE)
      BY DEF Length, Now
    <2> QED
      BY <1>1, <1>2, <2>1, <2>2, <2>3, DownNextAlice
  <1> QED
    BY <1>4, <1>5, <1>6, <1>7, <1>8 DEF Sender

\* Nothing is under way to a receiver that has not got its rows.
LEMMA NothingYet ==
  ASSUME KKOTAssumption, LocalInv, ApartInv, UpInv, ~(at[BOB] < at[ALICE]),
         \/ pc[BOB] \in {"call", "seed"}
         \/ pc[BOB] = "extend" /\ Rows(BOB) < PaddedLength(Length(BOB))
  PROVE  TopNow = i[BOB] /\ i[BOB] = 0
  <1>0. ALICE \in Party /\ BOB \in Party
    BY DEF Party
  <1>1. i[BOB] = 0
    <2>1. pc[BOB] # "post"
      OBVIOUS
    <2> QED
      BY <1>0, <2>1, View
  <1>2. at[ALICE] \in Nat /\ at[BOB] \in Nat
    BY <1>0, View
  <1>3. CASE at[ALICE] < at[BOB]
    BY <1>1, <1>3 DEF TopNow, Top
  <1>4. CASE at[ALICE] = at[BOB]
    <2>1. PICK ma \in Nat, mb \in Nat : ma = Rows(ALICE) /\ mb = Rows(BOB) /\ ma <= mb
      BY <1>0, <1>4, RowsBehind, View
    <2>2. ASSUME pc[ALICE] = "post"
          PROVE  FALSE
      <3>1. PICK n \in Nat, l \in Nat : n = Length(ALICE) /\ l = PaddedLength(n) /\ n > 0 /\ n <= l /\ ma = l
        BY <1>0, <2>1, <2>2, View
      <3>2. Length(BOB) = n
        BY <1>4, <3>1 DEF Length, Now
      <3>3. pc[BOB] \in {"call", "seed"} => mb = 0
        BY <1>0, <2>1, View
      <3> QED
        BY <2>1, <3>1, <3>2, <3>3
    <2>3. i[ALICE] = 0
      BY <1>0, <2>2, View
    <2>4. TopNow = i[ALICE]
      BY <1>2, <1>4 DEF TopNow, Top
    <2> QED
      BY <1>1, <2>3, <2>4
  <1> QED
    BY <1>2, <1>3, <1>4

LEMMA DownByBob ==
  ASSUME KKOTAssumption, LocalInv, ApartInv, UpInv, DownInv, Receiver, ~RecvPost
  PROVE  DownInv'
  <1>0. ALICE \in Party /\ BOB \in Party /\ Peer(BOB) = ALICE /\ ALICE # BOB
    BY DEF Party, Peer, ALICE, BOB
  <1>1. Idle(ALICE) /\ Touches(BOB)
    BY ReceiverTouches
  <1>2. inputs' = inputs
    BY <1>1 DEF Idle, inputs
  <1>3. ASSUME at'[BOB] = at[BOB], i'[BOB] = i[BOB]
        PROVE  TopNow' = TopNow
    <2>1. at'[ALICE] = at[ALICE] /\ i'[ALICE] = i[ALICE] /\ Length(BOB)' = Length(BOB)
      BY <1>1, <1>3 DEF Idle, Length, Now
    <2> QED
      BY <1>3, <2>1 DEF TopNow
  <1>4. ASSUME at'[BOB] = at[BOB], i'[BOB] = i[BOB], rows'[BOB] = rows[BOB], wire'[BOB] = wire[BOB]
        PROVE  DownInv'
    BY <1>2, <1>3, <1>4, DownKept
  <1>5. CASE Begin(BOB)
    <2>1. /\ i' = i /\ rows' = rows /\ wire' = wire /\ pc[BOB] = "call" /\ at[BOB] \in DOMAIN program
      BY <1>0, <1>5, BeginTouches
    <2>2. i[BOB] = 0
      BY <1>0, <2>1, View
    <2>3. CASE Length(BOB) < 1 /\ at'[BOB] = at[BOB] + 1
      <3>1. TopNow = i[BOB]
        <4>1. CASE at[BOB] < at[ALICE]
          <5>1. TopNow = Length(BOB)
            <6>1. at[ALICE] \in Nat /\ at[BOB] \in Nat
              BY <1>0, View
            <6>2. ~(at[ALICE] < at[BOB]) /\ at[ALICE] # at[BOB]
              BY <4>1, <6>1
            <6> QED
              BY <6>2 DEF TopNow, Top
          <5>2. Length(BOB) = 0
            BY <1>0, <2>1, <2>3, View
          <5> QED
            BY <2>2, <5>1, <5>2
        <4>2. CASE ~(at[BOB] < at[ALICE])
          BY <2>1, <4>2, NothingYet
        <4> QED
          BY <4>1, <4>2
      <3> QED
        BY <1>1, <1>2, <2>1, <2>2, <2>3, <3>1, DownNextBob
    <2>4. CASE at'[BOB] = at[BOB]
      BY <1>4, <2>1, <2>4
    <2> QED
      BY <1>0, <1>5, <2>3, <2>4, BeginTouches
  <1>6. CASE SetupRecv
    <2>1. pc[BOB] = "seed" /\ Seeded(BOB)
      BY <1>6 DEF SetupRecv
    <2>2. wire' = [q \in Party |-> wire'[q]] /\ wire'[BOB] = wire[BOB]
      <3>1. PICK u : Send(BOB, u)
        BY <1>6 DEF SetupRecv
      <3> QED
        BY <1>0, <3>1, SentOne
    <2>3. i' = i /\ rows' = rows /\ (at'[BOB] = at[BOB] \/ at'[BOB] = at[BOB] + 1)
      BY <1>0, <2>1, <2>2, SeededTouches
    <2>4. CASE at'[BOB] = at[BOB]
      BY <1>4, <2>2, <2>3, <2>4
    <2>5. CASE at'[BOB] = at[BOB] + 1
      <3>1. ~(at[BOB] < at[ALICE])
        <4>1. at[BOB] < at[ALICE] => Empty(program[at[BOB]]) \/ pc[BOB] \in {"extend", "post"}
          BY Zenon DEF ApartInv, Apart2
        <4>2. ~Empty(program[at[BOB]])
          BY <1>0, <2>1, NotFree
        <4> QED
          BY <2>1, <4>1, <4>2
      <3>2. TopNow = i[BOB] /\ i[BOB] = 0
        BY <2>1, <3>1, NothingYet
      <3> QED
        BY <1>1, <1>2, <2>2, <2>3, <2>5, <3>2, DownNextBob
    <2> QED
      BY <2>3, <2>4, <2>5
  <1>7. CASE StartPost(BOB)
    BY <1>0, <1>4, <1>7, StartPostTouches
  <1>8. CASE RecvPre
    <2>1. at' = at /\ i' = i /\ wire'[BOB] = wire[BOB] /\ pc[BOB] = "extend" /\ Rows(BOB) < PaddedLength(Length(BOB))
      BY <1>8, RecvPreTouches
    <2>2. TopNow = i[BOB] /\ i[BOB] = 0
      BY <1>8, <2>1, NothingYet, RowsWanted
    <2>3. TopNow' = i'[BOB] /\ i'[BOB] \in Nat
      BY <1>3, <2>1, <2>2
    <2> QED
      BY <2>1, <2>2, <2>3, DownKept
  <1>9. CASE Return(BOB)
    <2>1. wire' = wire /\ at'[BOB] = at[BOB] + 1 /\ i'[BOB] = 0
      BY <1>0, <1>9, ReturnTouches
    <2>2. i[BOB] = Length(BOB) /\ ~(at[ALICE] < at[BOB]) /\ (at[ALICE] = at[BOB] => i[ALICE] = Length(ALICE))
      BY <1>9, ReturnsBefore
    <2>3. at[ALICE] = at[BOB] => Length(BOB) = Length(ALICE)
      BY DEF Length, Now
    <2>4. TopNow = i[BOB]
      BY <2>2, <2>3 DEF TopNow, Top
    <2> QED
      BY <1>1, <1>2, <2>1, <2>4, DownNextBob
  <1> QED
    BY <1>5, <1>6, <1>7, <1>8, <1>9 DEF Receiver

\* The units of d OTs, whether there are any or not.
UnitsOf(w, held, c, N, chosen, secret, from, d) ==
  /\ IsList(w, N * d)
  /\ \A q \in 1..(N * d) : w[q] = Unit(held, c, N, chosen, secret, N * from + q - 1)

LEMMA DownLength ==
  ASSUME NEW w, NEW held, NEW c, NEW N \in Nat, NEW chosen, NEW secret, NEW from \in Nat, NEW to \in Nat,
         DownList(w, held, c, N, chosen, secret, from, to)
  PROVE  \E d \in Nat : to = from + d /\ UnitsOf(w, held, c, N, chosen, secret, from, d)
  <1>1. from <= to
    BY DEF DownList
  <1>2. PICK d \in Nat : to = from + d /\ d = to - from
    <2>1. to - from \in Nat /\ to = from + (to - from)
      BY <1>1
    <2> QED
      BY <2>1
  <1>3. CASE from = to
    <2>1. d = 0 /\ N * d = 0
      BY <1>2, <1>3
    <2>2. IsList(w, 0)
      BY <1>3 DEF DownList
    <2>3. UnitsOf(w, held, c, N, chosen, secret, from, d)
      BY <2>1, <2>2 DEF UnitsOf
    <2> QED
      BY <1>2, <2>3
  <1>4. CASE from < to
    <2>1. /\ IsList(w, N * d)
          /\ \A q \in 1..(N * d) : w[q] = Unit(held, c, N, chosen, secret, N * from + q - 1)
      BY <1>2, <1>4, Zenon DEF DownList
    <2> QED
      BY <1>2, <2>1 DEF UnitsOf
  <1> QED
    BY <1>1, <1>3, <1>4

LEMMA DownFromLength ==
  ASSUME NEW w, NEW held, NEW c, NEW N \in Nat, NEW chosen, NEW secret, NEW from \in Nat, NEW to \in Nat,
         NEW d \in Nat, to = from + d, IsList(w, N * d),
         \A q \in 1..(N * d) : w[q] = Unit(held, c, N, chosen, secret, N * from + q - 1)
  PROVE  DownList(w, held, c, N, chosen, secret, from, to)
  <1>1. d = to - from /\ from <= to
    OBVIOUS
  <1>2. from = to => N * d = 0
    OBVIOUS
  <1> QED
    BY <1>1, <1>2, Zenon DEF DownList

\* A batch more.
LEMMA MoreUnits ==
  ASSUME NEW w, NEW held, NEW c, NEW N \in Nat, NEW chosen, NEW secret, NEW from \in Nat, NEW to \in Nat,
         DownList(w, held, c, N, chosen, secret, from, to), NEW e \in Nat, NEW more, IsList(more, N * e),
         \A q \in 1..(N * e) : more[q] = Unit(held, c, N, chosen, secret, N * to + q - 1),
         NEW w2, IsJoin(w2, w, more)
  PROVE  DownList(w2, held, c, N, chosen, secret, from, to + e)
  <1>0. PICK d \in Nat : to = from + d /\ UnitsOf(w, held, c, N, chosen, secret, from, d)
    BY DownLength
  <1>1. /\ to = from + d /\ IsList(w, N * d)
        /\ \A q \in 1..(N * d) : w[q] = Unit(held, c, N, chosen, secret, N * from + q - 1)
    BY <1>0, Zenon DEF UnitsOf
  <1>2. PICK x \in Nat, y \in Nat : x = N * d /\ y = N * e /\ x + y = N * (d + e)
    OBVIOUS
  <1>3. /\ IsList(w2, x + y) /\ \A q \in 1..x : w2[q] = w[q]
        /\ \A q \in 1..y : w2[x + q] = more[q]
    BY <1>1, <1>2, JoinedList
  <1>4. ASSUME NEW q \in 1..(N * (d + e))
        PROVE  w2[q] = Unit(held, c, N, chosen, secret, N * from + q - 1)
    <2>1. CASE q <= x
      <3>1. q \in 1..x
        BY <1>2, <2>1
      <3> QED
        BY <1>1, <1>2, <1>3, <3>1
    <2>2. CASE q > x
      <3>1. PICK k \in 1..y : q = x + k
        <4>1. q - x \in 1..y /\ q = x + (q - x)
          BY <1>2, <2>2
        <4> QED
          BY <4>1
      <3>2. w2[q] = Unit(held, c, N, chosen, secret, N * to + k - 1)
        BY <1>2, <1>3, <3>1
      <3>3. N * to = N * from + x
        BY <1>1, <1>2
      <3>4. N * to + k - 1 = N * from + q - 1
        <4>1. PICK v \in Nat : v = N * from
          OBVIOUS
        <4> QED
          BY <1>2, <3>1, <3>3, <4>1
      <3> QED
        BY <3>2, <3>4
    <2> QED
      BY <1>2, <2>1, <2>2
  <1>5. IsList(w2, N * (d + e))
    BY <1>2, <1>3
  <1>6. d + e \in Nat /\ to + e \in Nat /\ to + e = from + (d + e)
    BY <1>1
  <1> QED
    BY <1>4, <1>5, <1>6, DownFromLength

\* A batch less.
LEMMA LessUnits ==
  ASSUME NEW w, NEW held, NEW c, NEW N \in Nat, NEW chosen, NEW secret, NEW from \in Nat, NEW to \in Nat,
         DownList(w, held, c, N, chosen, secret, from, to), NEW e \in Nat, from + e <= to,
         NEW w2, IsRest(w2, w, N * e)
  PROVE  DownList(w2, held, c, N, chosen, secret, from + e, to)
  <1>0. PICK d \in Nat : to = from + d /\ UnitsOf(w, held, c, N, chosen, secret, from, d)
    BY DownLength
  <1>1. /\ to = from + d /\ IsList(w, N * d)
        /\ \A q \in 1..(N * d) : w[q] = Unit(held, c, N, chosen, secret, N * from + q - 1)
    BY <1>0, Zenon DEF UnitsOf
  <1>2. PICK r \in Nat : d = e + r
    <2>1. d - e \in Nat /\ d = e + (d - e)
      BY <1>1
    <2> QED
      BY <2>1
  <1>3. PICK x \in Nat, y \in Nat : x = N * e /\ y = N * r /\ N * d = x + y
    BY <1>2
  <1>4. IsList(w2, y) /\ \A q \in 1..y : w2[q] = w[q + x]
    <2>1. PICK l \in Nat : l = N * d /\ x <= l /\ l - x = y
      BY <1>3
    <2>2. IsList(w, l) /\ IsRest(w2, w, x)
      BY <1>1, <1>3, <2>1, Zenon
    <2>3. IsList(w2, l - x) /\ \A k \in 1..(l - x) : w2[k] = w[k + x]
      BY <2>1, <2>2, RestOfList
    <2> QED
      BY <2>1, <2>3, Zenon
  <1>5. ASSUME NEW q \in 1..(N * r)
        PROVE  w2[q] = Unit(held, c, N, chosen, secret, N * (from + e) + q - 1)
    <2>1. q \in 1..y /\ q + x \in 1..(N * d)
      <3>1. q \in 1..y
        BY <1>3
      <3>2. q + x \in 1..(x + y)
        BY <3>1
      <3> QED
        BY <1>3, <3>2
    <2>2. w2[q] = Unit(held, c, N, chosen, secret, N * from + (q + x) - 1)
      BY <1>1, <1>4, <2>1
    <2>3. N * (from + e) = N * from + x /\ N * from \in Nat
      BY <1>3
    <2>4. N * from + (q + x) - 1 = N * (from + e) + q - 1
      BY <1>3, <2>1, <2>3
    <2> QED
      BY <2>2, <2>4
  <1>6. from + e \in Nat /\ to = (from + e) + r /\ IsList(w2, N * r)
    BY <1>1, <1>2, <1>3, <1>4
  <1> QED
    BY <1>5, <1>6, DownFromLength

\* The key of message k of OT j, in terms of the receiver's row.
LEMMA KeyPad ==
  ASSUME KKOTAssumption, LocalInv, MasksInv, RowsInv, UpInv, pc[ALICE] = "post", at[ALICE] = at[BOB],
         NEW j \in Nat, j < Length(ALICE), NEW k \in 0..(Now(ALICE).N - 1)
  PROVE  Key(j, k) = [pos |-> rows[BOB][j + 1].pos,
                      flip |-> XorRow(AndRow(CodeWord(choice[at[BOB]][j]), s), AndRow(CodeWord(k), s))]
  <1>0. ALICE \in Party /\ BOB \in Party
    BY DEF Party
  <1>1. PICK ma \in Nat, mb \in Nat, pa \in Nat, pb \in Nat, n \in Nat, l \in Nat :
          /\ ma = Rows(ALICE) /\ mb = Rows(BOB) /\ pa = prg[ALICE] /\ pb = prg[BOB] /\ n = Length(ALICE)
          /\ l = PaddedLength(n) /\ n <= l /\ ma = l /\ ma <= mb
    BY <1>0, RowsBehind, View
  <1>2. PICK base \in Int : base = pa - ma /\ base = pb - mb
    <2>1. PICK ahead \in Nat : ahead = Ahead(at[ALICE], at[BOB], ma, mb) /\ pb = pa + ahead
      BY <1>1, WireUp
    <2>2. at[ALICE] \in Nat
      BY <1>0, View
    <2>3. ahead = mb - ma
      BY <1>1, <2>1, <2>2 DEF Ahead
    <2> QED
      BY <1>1, <2>1, <2>3
  <1>3. j + 1 \in 1..ma /\ j + 1 \in 1..mb /\ j + 1 <= n /\ (j + 1) - 1 = j
    BY <1>1
  <1>4. rows[BOB][j + 1] = [pos |-> base + (j + 1) - 1, flip |-> NoFlip]
    BY <1>1, <1>2, <1>3 DEF RowsInv, RecvRows
  <1>5. /\ rows[ALICE][j + 1] = [pos |-> base + (j + 1) - 1, flip |-> rows[ALICE][j + 1].flip]
        /\ rows[ALICE][j + 1].flip = AndRow(CodeWord(choice[at[ALICE]][j]), s)
    <2>1. SendRows(rows[ALICE], ma, base, choice[at[ALICE]], n, s)
      BY <1>1, <1>2 DEF RowsInv
    <2> QED
      BY <1>3, <2>1 DEF SendRows
  <1>6. c_AND_s[k] = AndRow(CodeWord(k), s)
    <2>1. PICK N \in Nat, top \in Nat : N = Now(ALICE).N /\ top = max_N /\ N <= top
      <3>1. Now(ALICE).N \in Nat
        BY <1>0, View
      <3> QED
        BY <3>1, LambdaType DEF MasksInv
    <2>2. k \in 0..(top - 1)
      BY <2>1
    <2> QED
      BY <2>1, <2>2 DEF MasksInv
  <1>7. rows[ALICE][j + 1].pos = rows[BOB][j + 1].pos
    <2>1. rows[ALICE][j + 1].pos = base + (j + 1) - 1
      <3>1. PICK f, row : f = rows[ALICE][j + 1].flip /\ row = rows[ALICE][j + 1]
        OBVIOUS
      <3>2. row = [pos |-> base + (j + 1) - 1, flip |-> f]
        BY <1>5, <3>1
      <3>3. row.pos = base + (j + 1) - 1
        BY <3>2
      <3> QED
        BY <3>1, <3>3
    <2>2. rows[BOB][j + 1].pos = base + (j + 1) - 1
      BY <1>4
    <2> QED
      BY <2>1, <2>2
  <1> QED
    BY <1>5, <1>6, <1>7, Zenon DEF Key

\* Unit q of d OTs from OT from on is for message k of OT from + v.
UnitIs(N, from, d, q, v, k) ==
  /\ v = (q - 1) \div N /\ k = (q - 1) % N /\ v < d
  /\ (N * from + q - 1) \div N = from + v /\ (N * from + q - 1) % N = k

LEMMA UnitOf ==
  ASSUME NEW N \in Nat, N > 0, NEW from \in Nat, NEW d \in Nat, NEW q \in 1..(N * d)
  PROVE  \E v \in Nat, k \in 0..(N - 1) : UnitIs(N, from, d, q, v, k)
  <1>1. PICK x \in Nat : x = q - 1 /\ x < N * d
    <2>1. N * d \in Nat
      OBVIOUS
    <2> QED
      BY <2>1
  <1>2. PICK v \in Nat, k \in Nat : v = x \div N /\ k = x % N /\ k < N /\ x = N * v + k
    BY <1>1, DivMod
  <1>3. v < d
    BY <1>1, <1>2, DivBound
  <1>4. PICK z \in Nat : z = N * from + q - 1 /\ z = N * (from + v) + k /\ from + v \in Nat
    <2>1. N * from \in Nat /\ N * v \in Nat /\ N * (from + v) = N * from + N * v
      BY <1>2
    <2> QED
      BY <1>1, <1>2, <2>1
  <1>5. z \div N = from + v /\ z % N = k
    BY <1>2, <1>4, DivUnique
  <1>6. k \in 0..(N - 1)
    BY <1>2
  <1> QED
    BY <1>1, <1>2, <1>3, <1>4, <1>5, <1>6 DEF UnitIs

\* The sender sends a batch of a call that the receiver is still in.
LEMMA DownSendPost ==
  ASSUME KKOTAssumption, LocalInv, MasksInv, ApartInv, RowsInv, UpInv, DownInv, SendPost
  PROVE  DownInv'
  <1>0. ALICE \in Party /\ BOB \in Party /\ Peer(ALICE) = BOB
    BY DEF Party, Peer
  <1>1. /\ Touches(ALICE) /\ at' = at /\ setup' = setup /\ pc' = pc /\ prg' = prg /\ rows' = rows
        /\ i'[ALICE] = i[ALICE] + Batch(ALICE) /\ pc[ALICE] = "post" /\ i[ALICE] < Length(ALICE)
    BY SendPostTouches
  <1>2. PICK d \in Nat, ia \in Nat, n \in Nat :
          d = Batch(ALICE) /\ d > 0 /\ ia = i[ALICE] /\ n = Length(ALICE) /\ ia + d <= n /\ ia < n
    BY <1>0, <1>1, BatchFine
  <1>3. PICK a \in Nat, b \in Nat, ib \in Nat, N \in Nat :
          a = at[ALICE] /\ b = at[BOB] /\ ib = i[BOB] /\ N = Now(ALICE).N /\ N > 0
    BY <1>0, <1>1, View
  <1>4. ~(a < b)
    <2>1. a < b => Free(program[a]) \/ i[ALICE] = program[a].length
      BY <1>3, Zenon DEF ApartInv, Apart2
    <2>2. ~Free(program[a]) /\ n = program[a].length
      BY <1>0, <1>1, <1>2, <1>3, NotFree DEF Length, Now
    <2> QED
      BY <1>2, <2>1, <2>2
  <1>5. ~(b < a)
    <2>1. b < a => Rows(ALICE) = 0
      BY <1>3, Zenon DEF ApartInv, Apart2
    <2>2. PICK l \in Nat : l = PaddedLength(n) /\ n <= l /\ Rows(ALICE) = l
      BY <1>0, <1>1, <1>2, View
    <2> QED
      BY <1>2, <2>1, <2>2
  <1>6. a = b
    BY <1>3, <1>4, <1>5
  <1>7. PICK w, w2, held, chosen : w = wire[BOB] /\ w2 = wire'[BOB] /\ held = rows[BOB] /\ chosen = choice[b]
    OBVIOUS
  <1>8. PICK more : /\ more = [u \in 1..(N * d) |->
                         [kind |-> "Y", pad |-> Key(ia + ((u - 1) \div N), (u - 1) % N),
                          msg |-> Message(a, ia + ((u - 1) \div N), (u - 1) % N)]]
                    /\ IsJoin(w2, w, more)
    <2>1. Send(ALICE, [u \in 1..Units(ALICE, Batch(ALICE)) |->
            [kind |-> "Y", pad |-> Key(i[ALICE] + ((u - 1) \div Now(ALICE).N), (u - 1) % Now(ALICE).N),
             msg |-> Message(at[ALICE], i[ALICE] + ((u - 1) \div Now(ALICE).N), (u - 1) % Now(ALICE).N)]])
      BY Zenon DEF SendPost
    <2>2. PICK more : /\ more = [u \in 1..(N * d) |->
                           [kind |-> "Y", pad |-> Key(ia + ((u - 1) \div N), (u - 1) % N),
                            msg |-> Message(a, ia + ((u - 1) \div N), (u - 1) % N)]]
                      /\ Send(ALICE, more)
      BY <1>2, <1>3, <2>1 DEF Units
    <2>3. wire'[BOB] = wire[BOB] \o more
      BY <1>0, <2>2, SentOne
    <2> QED
      BY <1>7, <2>2, <2>3 DEF IsJoin
  <1>9. IsList(more, N * d)
    BY <1>8 DEF IsList
  <1>10. ASSUME NEW q \in 1..(N * d)
         PROVE  more[q] = Unit(held, b, N, chosen, s, N * ia + q - 1)
    <2>0. PICK v \in Nat, k \in 0..(N - 1) : UnitIs(N, ia, d, q, v, k)
      BY <1>2, <1>3, UnitOf
    <2>1. /\ v = (q - 1) \div N /\ k = (q - 1) % N /\ v < d
          /\ (N * ia + q - 1) \div N = ia + v /\ (N * ia + q - 1) % N = k
      BY <2>0 DEF UnitIs
    <2>2. PICK j \in Nat : j = ia + v /\ j < n
      BY <1>2, <2>1
    <2>3. more[q] = [kind |-> "Y", pad |-> Key(j, k), msg |-> Message(a, j, k)]
      BY <1>8, <2>1, <2>2
    <2>4. Key(j, k) = [pos |-> held[j + 1].pos, flip |-> XorRow(AndRow(CodeWord(chosen[j]), s), AndRow(CodeWord(k), s))]
      BY <1>1, <1>2, <1>3, <1>6, <1>7, <2>2, KeyPad
    <2>5. PICK z : z = N * ia + q - 1 /\ z \div N = j /\ z % N = k
      BY <2>1, <2>2
    <2>6. more[q] = Unit(held, b, N, chosen, s, z)
      BY <1>6, <2>3, <2>4, <2>5 DEF Unit
    <2> QED
      BY <2>5, <2>6
  <1>11. DownList(w, held, b, N, chosen, s, ib, ia)
    <2>1. TopNow = ia
      BY <1>2, <1>3, <1>6 DEF TopNow, Top
    <2>2. Now(BOB).N = N
      BY <1>3, <1>6 DEF Now
    <2> QED
      BY <1>3, <1>7, <2>1, <2>2, DownNow
  <1>12. DownList(w2, held, b, N, chosen, s, ib, ia + d)
    <2>1. IsJoin(w2, w, more)
      BY <1>8, Zenon
    <2> QED
      BY <1>9, <1>10, <1>11, <2>1, MoreUnits
  <1>13. Idle(BOB)
    BY SenderIdle DEF Sender
  <1>14. /\ at'[BOB] = b /\ Now(BOB)'.N = N /\ choice'[at'[BOB]] = chosen /\ s' = s /\ i'[BOB] = ib
         /\ rows'[BOB] = held
    BY <1>3, <1>6, <1>7, <1>13 DEF Idle, Now
  <1>15. TopNow' = ia + d
    <2>1. at'[ALICE] = a /\ i'[ALICE] = ia + d
      BY <1>1, <1>2, <1>3
    <2> QED
      BY <1>3, <1>6, <1>14, <2>1 DEF TopNow, Top
  <1> QED
    BY <1>7, <1>12, <1>14, <1>15, DownNext

\* The receiver takes a batch that has been sent.
LEMMA DownRecvPost ==
  ASSUME KKOTAssumption, LocalInv, ApartInv, DownInv, RecvPost
  PROVE  /\ DownInv'
         /\ i[BOB] + Batch(BOB) <= TopNow
         /\ UnitsOf(wire[BOB], rows[BOB], at[BOB], Now(BOB).N, choice[at[BOB]], s, i[BOB], TopNow - i[BOB])
  <1>0. ALICE \in Party /\ BOB \in Party
    BY DEF Party
  <1>1. /\ Touches(BOB) /\ at' = at /\ setup' = setup /\ pc' = pc /\ prg' = prg /\ rows' = rows
        /\ i'[BOB] = i[BOB] + Batch(BOB) /\ pc[BOB] = "post" /\ i[BOB] < Length(BOB)
        /\ wire'[BOB] = SubSeq(wire[BOB], Units(BOB, Batch(BOB)) + 1, Len(wire[BOB]))
    BY RecvPostTouches
  <1>2. PICK d \in Nat, ib \in Nat, n \in Nat :
          d = Batch(BOB) /\ d > 0 /\ ib = i[BOB] /\ n = Length(BOB) /\ ib + d <= n
    BY <1>0, <1>1, BatchFine
  <1>3. PICK a \in Nat, b \in Nat, ia \in Nat, N \in Nat :
          a = at[ALICE] /\ b = at[BOB] /\ ia = i[ALICE] /\ N = Now(BOB).N /\ N > 0
    BY <1>0, <1>1, View
  <1>4. PICK u \in Nat : u = Units(BOB, Batch(BOB)) /\ u = N * d /\ Len(wire[BOB]) >= u
    BY <1>2, <1>3, WireDown DEF Units
  <1>5. PICK to \in Nat : to = TopNow
    BY <1>2, <1>3 DEF TopNow, Top
  <1>6. PICK w, w2, held, chosen : w = wire[BOB] /\ w2 = wire'[BOB] /\ held = rows[BOB] /\ chosen = choice[b]
    OBVIOUS
  <1>7. DownList(w, held, b, N, chosen, s, ib, to)
    BY <1>2, <1>3, <1>5, <1>6, DownNow
  <1>8. PICK e \in Nat : to = ib + e /\ UnitsOf(w, held, b, N, chosen, s, ib, e)
    BY <1>2, <1>3, <1>5, <1>7, DownLength
  <1>9. d <= e
    <2>1. PICK l \in Nat : l = N * e
      OBVIOUS
    <2>2. Len(w) = l
      BY <1>8, <2>1, ListFacts DEF UnitsOf
    <2>3. N * d <= N * e
      BY <1>4, <1>6, <2>1, <2>2
    <2>4. ASSUME e < d
          PROVE  FALSE
      <3>1. PICK r \in Nat : d = e + 1 + r
        <4>1. d - e - 1 \in Nat /\ d = e + 1 + (d - e - 1)
          BY <2>4
        <4> QED
          BY <4>1
      <3>2. N * d = N * e + N + N * r /\ N * r \in Nat /\ N * e \in Nat
        BY <3>1
      <3> QED
        BY <1>3, <2>3, <3>2
    <2> QED
      BY <2>4
  <1>10. ib + d <= to
    BY <1>8, <1>9
  <1>11. IsRest(w2, w, N * d)
    BY <1>1, <1>4, <1>6 DEF IsRest
  <1>12. DownList(w2, held, b, N, chosen, s, ib + d, to)
    BY <1>3, <1>7, <1>10, <1>11, LessUnits
  <1>13. Idle(ALICE)
    BY ReceiverTouches DEF Receiver
  <1>14. /\ at'[BOB] = b /\ Now(BOB)'.N = N /\ choice'[at'[BOB]] = chosen /\ s' = s /\ i'[BOB] = ib + d
         /\ rows'[BOB] = held /\ Length(BOB)' = n
    BY <1>1, <1>2, <1>3, <1>6, <1>13 DEF Idle, Now, Length
  <1>15. TopNow' = to
    <2>1. at'[ALICE] = a /\ i'[ALICE] = ia
      BY <1>3, <1>13 DEF Idle
    <2>2. ~(a < b)
      BY <1>3, WireDown
    <2>3. Top(a, b, ia, ib + d, n) = Top(a, b, ia, ib, n)
      BY <2>2 DEF Top
    <2> QED
      BY <1>2, <1>3, <1>5, <1>14, <2>1, <2>3 DEF TopNow
  <1>16. to - ib = e
    BY <1>8
  <1> QED
    BY <1>2, <1>3, <1>5, <1>6, <1>8, <1>10, <1>12, <1>14, <1>15, <1>16, DownNext

LEMMA DownStep ==
  ASSUME KKOTAssumption, LocalInv, MasksInv, ApartInv, RowsInv, UpInv, DownInv, [Next]_vars
  PROVE  DownInv'
  <1>1. CASE UNCHANGED vars
    <2>1. UNCHANGED <<inputs, at, i, rows, wire>>
      BY <1>1 DEF vars
    <2>2. TopNow' = TopNow
      BY <2>1 DEF TopNow, Length, Now, inputs
    <2> QED
      BY <2>1, <2>2, DownKept
  <1>2. CASE SendPost
    BY <1>2, DownSendPost
  <1>3. CASE RecvPost
    BY <1>3, DownRecvPost
  <1> QED
    BY <1>1, <1>2, <1>3, DownByAlice, DownByBob DEF Next

------------------------------------------------------------------------------
(* What the receiver obtains.                                              *)

LEMMA XorSelf ==
  ASSUME NEW x
  PROVE  XorRow(x, x) = NoFlip
  BY DEF XorRow, NoFlip, Xor

\* A step in which the receiver takes nothing.
LEMMA DataKept ==
  ASSUME KKOTAssumption, LocalInv, DataInv, data' = data, program' = program, choice' = choice,
         \/ at'[BOB] = at[BOB] /\ i'[BOB] = i[BOB]
         \/ at'[BOB] = at[BOB] + 1 /\ i'[BOB] = 0
  PROVE  DataInv'
  <1>1. PICK b \in Nat, b2 \in Nat : b = at[BOB] /\ b2 = at'[BOB] /\ b <= b2
    BY View DEF Party
  <1>2. \A c \in DOMAIN program : c \in Nat
    BY CallType DEF LocalInv
  <1>3. \A c \in DOMAIN program : c > b2 => IsList(data[c], 0)
    BY <1>1, <1>2 DEF DataInv
  <1>4. ASSUME b2 \in DOMAIN program
        PROVE  IsList(data[b2], i'[BOB])
    <2>1. CASE b2 = b /\ i'[BOB] = i[BOB]
      BY <1>1, <1>4, <2>1 DEF DataInv
    <2>2. CASE b2 = b + 1 /\ i'[BOB] = 0
      BY <1>1, <1>4, <2>2 DEF DataInv
    <2> QED
      BY <1>1, <2>1, <2>2
  <1>5. Transferred'
    BY DEF DataInv, Transferred
  <1> QED
    BY <1>1, <1>3, <1>4, <1>5 DEF DataInv

\* What the receiver makes of unit N * j + r is the message of its choice.
Obtains(w, N, ib, j) ==
  LET u == w[N * j + choice[at[BOB]][ib + j] + 1]
  IN  u.pad = rows[BOB][ib + j + 1] /\ u.msg = Message(at[BOB], ib + j, choice[at[BOB]][ib + j])

LEMMA ObtainsChosen ==
  ASSUME KKOTAssumption, ChoicesFit, LocalInv, RowsInv, pc[BOB] = "post", NEW N \in Nat, N = Now(BOB).N,
         NEW ib \in Nat, NEW e \in Nat, NEW w,
         UnitsOf(w, rows[BOB], at[BOB], N, choice[at[BOB]], s, ib, e),
         NEW j \in Nat, j < e, ib + j < Length(BOB)
  PROVE  Obtains(w, N, ib, j)
  <1>0. BOB \in Party
    BY DEF Party
  <1>1. PICK o \in Nat : o = ib + j
    OBVIOUS
  <1>2. PICK n \in Nat, m \in Nat, l \in Nat : n = Length(BOB) /\ m = Rows(BOB) /\ l = PaddedLength(n) /\ n <= l /\ m = l
    BY <1>0, View
  <1>3. PICK ch : ch = choice[at[BOB]][o] /\ ch \in 0..(N - 1)
    <2>1. /\ at[BOB] \in DOMAIN program /\ program \in Programs /\ choice \in Choices
          /\ program[at[BOB]].op = "got" /\ o \in 0..(program[at[BOB]].length - 1)
      <3>1. o \in 0..(n - 1)
        BY <1>1, <1>2
      <3>2. n = program[at[BOB]].length
        BY <1>2 DEF Length, Now
      <3>3. at[BOB] \in DOMAIN program /\ Now(BOB).op = "got"
        BY <1>0, View
      <3> QED
        BY <3>1, <3>2, <3>3 DEF LocalInv, Now
    <2> QED
      BY <2>1 DEF ChoicesFit, Now
  <1>4. PICK q \in Nat : q = N * j + ch + 1 /\ q \in 1..(N * e)
    <2>1. PICK r \in Nat : e = j + 1 + r
      <3>1. e - j - 1 \in Nat /\ e = j + 1 + (e - j - 1)
        OBVIOUS
      <3> QED
        BY <3>1
    <2>2. N * e = N * j + N + N * r /\ N * j \in Nat /\ N * r \in Nat
      BY <2>1
    <2> QED
      BY <1>3, <2>2
  <1>5. PICK z \in Nat : z = N * ib + q - 1 /\ z \div N = o /\ z % N = ch
    <2>1. N * o = N * ib + N * j /\ N * ib \in Nat /\ N * j \in Nat /\ N * o \in Nat
      BY <1>1
    <2>2. PICK z \in Nat : z = N * ib + q - 1 /\ z = N * o + ch
      BY <1>3, <1>4, <2>1
    <2>3. z \div N = o /\ z % N = ch
      <3>1. ch \in Nat /\ ch < N /\ N > 0 /\ z \in Nat /\ o \in Nat /\ z = N * o + ch
        BY <1>1, <1>3, <2>2
      <3> QED
        BY <3>1, DivUnique
    <2> QED
      BY <2>2, <2>3
  <1>6. w[q] = Unit(rows[BOB], at[BOB], N, choice[at[BOB]], s, z)
    BY <1>4, <1>5, Zenon DEF UnitsOf
  <1>7. PICK pos, row : row = rows[BOB][o + 1] /\ row = [pos |-> pos, flip |-> NoFlip]
    <2>1. o + 1 \in 1..m
      BY <1>1, <1>2
    <2> QED
      BY <1>2, <2>1 DEF RowsInv, RecvRows
  <1>8. XorRow(AndRow(CodeWord(choice[at[BOB]][o]), s), AndRow(CodeWord(ch), s)) = NoFlip
    BY <1>3, XorSelf
  <1>9. w[q] = [kind |-> "Y", pad |-> [pos |-> rows[BOB][o + 1].pos, flip |-> NoFlip], msg |-> Message(at[BOB], o, ch)]
    BY <1>5, <1>6, <1>8, Zenon DEF Unit
  <1>10. rows[BOB][o + 1].pos = pos
    BY <1>7
  <1>11. w[q].pad = row /\ w[q].msg = Message(at[BOB], o, ch)
    BY <1>7, <1>9, <1>10
  <1>12. /\ N * j + choice[at[BOB]][ib + j] + 1 = q /\ choice[at[BOB]][ib + j] = ch
         /\ rows[BOB][ib + j + 1] = row /\ ib + j = o
    BY <1>1, <1>3, <1>4, <1>7
  <1> QED
    BY <1>11, <1>12 DEF Obtains

\* A batch of what the receiver obtains.
Taken ==
  [j \in 1..Batch(BOB) |->
     LET u == wire[BOB][Now(BOB).N * (j - 1) + choice[at[BOB]][i[BOB] + (j - 1)] + 1]
     IN  IF u.pad = rows[BOB][i[BOB] + (j - 1) + 1] THEN u.msg ELSE Garbage]

LEMMA DataRecvPost ==
  ASSUME KKOTAssumption, ChoicesFit, LocalInv, ApartInv, RowsInv, DownInv, DataInv, RecvPost
  PROVE  DataInv'
  <1>0. ALICE \in Party /\ BOB \in Party
    BY DEF Party
  <1>1. /\ Touches(BOB) /\ at' = at /\ setup' = setup /\ pc' = pc /\ prg' = prg /\ rows' = rows
        /\ i'[BOB] = i[BOB] + Batch(BOB) /\ pc[BOB] = "post" /\ i[BOB] < Length(BOB)
    BY RecvPostTouches
  <1>2. PICK d \in Nat, ib \in Nat, n \in Nat :
          d = Batch(BOB) /\ d > 0 /\ ib = i[BOB] /\ n = Length(BOB) /\ ib + d <= n
    BY <1>0, <1>1, BatchFine
  <1>3. PICK b \in Nat, N \in Nat : b = at[BOB] /\ N = Now(BOB).N /\ N > 0 /\ b \in DOMAIN program
    BY <1>0, <1>1, View
  <1>4. PICK to \in Nat : to = TopNow
    BY <1>0, <1>2, View DEF TopNow, Top
  <1>5. PICK e \in Nat : e = to - ib /\ d <= e /\ UnitsOf(wire[BOB], rows[BOB], b, N, choice[b], s, ib, e)
    <2>1. ib + d <= to /\ UnitsOf(wire[BOB], rows[BOB], b, N, choice[b], s, ib, to - ib)
      BY <1>2, <1>3, <1>4, DownRecvPost
    <2>2. to - ib \in Nat /\ d <= to - ib
      BY <1>2, <1>4, <2>1
    <2> QED
      BY <2>1, <2>2
  <1>6. PICK got : got = Taken /\ data' = [data EXCEPT ![b] = @ \o got]
    <2>1. data' = [data EXCEPT ![at[BOB]] = @ \o Taken]
      BY Zenon DEF RecvPost, Taken
    <2> QED
      BY <1>3, <2>1
  <1>7. ASSUME NEW j \in 1..d
        PROVE  got[j] = Message(b, ib + (j - 1), choice[b][ib + (j - 1)])
    <2>1. PICK k \in Nat : k = j - 1 /\ k < e /\ ib + k < n
      BY <1>2, <1>5
    <2>2. Obtains(wire[BOB], N, ib, k)
      <3>1. UnitsOf(wire[BOB], rows[BOB], at[BOB], N, choice[at[BOB]], s, ib, e) /\ ib + k < Length(BOB)
        BY <1>2, <1>3, <1>5, <2>1
      <3> QED
        BY <1>1, <1>3, <2>1, <3>1, ObtainsChosen
    <2>3. PICK u : u = wire[BOB][N * k + choice[b][ib + k] + 1]
      OBVIOUS
    <2>4. got[j] = IF u.pad = rows[BOB][ib + k + 1] THEN u.msg ELSE Garbage
      <3>1. j \in 1..Batch(BOB)
        BY <1>2
      <3>2. Taken[j] =
              LET v == wire[BOB][Now(BOB).N * (j - 1) + choice[at[BOB]][i[BOB] + (j - 1)] + 1]
              IN  IF v.pad = rows[BOB][i[BOB] + (j - 1) + 1] THEN v.msg ELSE Garbage
        BY <3>1, Zenon DEF Taken
      <3>3. j - 1 = k /\ i[BOB] = ib /\ at[BOB] = b /\ Now(BOB).N = N /\ got = Taken
        BY <1>2, <1>3, <1>6, <2>1
      <3> QED
        BY <2>3, <3>2, <3>3, Zenon
    <2>5. u.pad = rows[BOB][ib + k + 1] /\ u.msg = Message(b, ib + k, choice[b][ib + k])
      BY <1>3, <2>2, <2>3 DEF Obtains
    <2> QED
      BY <2>1, <2>4, <2>5
  <1>8. PICK old, new : old = data[b] /\ new = data'[b] /\ IsList(old, ib) /\ IsJoin(new, old, got)
    <2>1. data = [c \in DOMAIN program |-> data[c]] /\ IsList(data[b], ib)
      BY <1>2, <1>3 DEF DataInv
    <2>2. data'[b] = data[b] \o got
      BY <1>3, <1>6, <2>1
    <2> QED
      BY <2>1, <2>2 DEF IsJoin
  <1>9. IsList(got, d)
    BY <1>2, <1>6 DEF IsList, Taken
  <1>10. /\ IsList(new, ib + d) /\ \A k \in 1..ib : new[k] = old[k]
         /\ \A k \in 1..d : new[ib + k] = got[k]
    BY <1>2, <1>8, <1>9, JoinedList
  <1>11. ASSUME NEW j \in 1..(ib + d)
         PROVE  new[j] = Message(b, j - 1, choice[b][j - 1])
    <2>1. CASE j <= ib
      <3>1. j \in 1..ib
        BY <1>2, <2>1
      <3>2. j \in DOMAIN data[b]
        BY <1>8, <3>1 DEF IsList
      <3>3. old[j] = Message(b, j - 1, choice[b][j - 1])
        BY <1>3, <1>8, <3>2 DEF DataInv, Transferred
      <3> QED
        BY <1>10, <3>1, <3>3
    <2>2. CASE j > ib
      <3>1. PICK k \in 1..d : j = ib + k /\ ib + (k - 1) = j - 1
        <4>1. j - ib \in 1..d /\ j = ib + (j - ib) /\ ib + ((j - ib) - 1) = j - 1
          BY <1>2, <2>2
        <4> QED
          BY <4>1
      <3>2. new[j] = got[k]
        BY <1>10, <3>1
      <3> QED
        BY <1>7, <3>1, <3>2
    <2> QED
      BY <1>2, <2>1, <2>2
  <1>12. /\ program' = program /\ choice' = choice /\ at'[BOB] = b /\ i'[BOB] = ib + d
         /\ DOMAIN new = 1..(ib + d) /\ \A c \in DOMAIN program : c # b => data'[c] = data[c]
         /\ data' = [c \in DOMAIN program |-> data'[c]]
    <2>1. data = [c \in DOMAIN program |-> data[c]]
      BY DEF DataInv
    <2>2. /\ \A c \in DOMAIN program : c # b => data'[c] = data[c]
          /\ data' = [c \in DOMAIN program |-> data'[c]]
      BY <1>6, <2>1
    <2>3. DOMAIN new = 1..(ib + d)
      BY <1>10 DEF IsList
    <2>4. program' = program /\ choice' = choice /\ at'[BOB] = b /\ i'[BOB] = ib + d
      BY <1>1, <1>2, <1>3 DEF Touches
    <2> QED
      BY <2>2, <2>3, <2>4
  <1>13. Transferred'
    <2>1. ASSUME NEW c \in DOMAIN program, NEW j \in DOMAIN data'[c]
          PROVE  data'[c][j] = Message(c, j - 1, choice[c][j - 1])
      <3>1. CASE c = b
        BY <1>8, <1>11, <1>12, <2>1, <3>1
      <3>2. CASE c # b
        BY <1>12, <2>1, <3>2 DEF DataInv, Transferred
      <3> QED
        BY <3>1, <3>2
    <2> QED
      BY <1>12, <2>1 DEF Transferred
  <1>14. \A c \in DOMAIN program : c > b => IsList(data'[c], 0)
    <2>1. \A c \in DOMAIN program : c \in Nat
      BY CallType DEF LocalInv
    <2>2. \A c \in DOMAIN program : c > b => c # b
      BY <1>3, <2>1
    <2> QED
      BY <1>3, <1>12, <2>2 DEF DataInv
  <1>15. IsList(data'[b], ib + d)
    BY <1>8, <1>10
  <1> QED
    BY <1>12, <1>13, <1>14, <1>15 DEF DataInv

LEMMA DataStep ==
  ASSUME KKOTAssumption, ChoicesFit, LocalInv, ApartInv, RowsInv, DownInv, DataInv, [Next]_vars
  PROVE  DataInv'
  <1>0. BOB \in Party
    BY DEF Party
  <1>1. CASE UNCHANGED vars
    BY <1>1, DataKept DEF vars, inputs
  <1>2. CASE Sender
    <2>1. Idle(BOB)
      BY <1>2, SenderIdle
    <2>2. data' = data
      BY <1>2, Zenon DEF Sender, Begin, SetupSend, Seeded, FirstMasks, SendPre, StartPost, SendPost, Return
    <2> QED
      BY <2>1, <2>2, DataKept DEF Idle
  <1>3. CASE Receiver /\ ~RecvPost
    <2>1. Touches(BOB)
      BY <1>3, ReceiverTouches
    <2>2. data' = data
      BY <1>3, Zenon DEF Receiver, Begin, SetupRecv, Seeded, RecvPre, StartPost, Return
    <2>3. ASSUME \/ at'[BOB] = at[BOB] /\ i'[BOB] = i[BOB]
                 \/ at'[BOB] = at[BOB] + 1 /\ i'[BOB] = 0
          PROVE  DataInv'
      BY <2>1, <2>2, <2>3, DataKept DEF Touches
    <2>4. CASE Begin(BOB)
      <3>1. i' = i /\ i[BOB] = 0 /\ (at'[BOB] = at[BOB] \/ at'[BOB] = at[BOB] + 1)
        BY <1>0, <2>4, BeginTouches, View
      <3> QED
        BY <2>3, <3>1
    <2>5. CASE SetupRecv
      <3>1. pc[BOB] = "seed" /\ Seeded(BOB) /\ wire' = [q \in Party |-> wire'[q]]
        <4>1. PICK u : Send(BOB, u)
          BY <2>5 DEF SetupRecv
        <4> QED
          BY <1>0, <2>5, <4>1, SentOne DEF SetupRecv
      <3>2. i' = i /\ i[BOB] = 0 /\ (at'[BOB] = at[BOB] \/ at'[BOB] = at[BOB] + 1)
        BY <1>0, <3>1, SeededTouches, View
      <3> QED
        BY <2>3, <3>2
    <2>6. CASE RecvPre \/ StartPost(BOB)
      <3>1. at' = at /\ i' = i
        BY <1>0, <2>6, RecvPreTouches, StartPostTouches
      <3> QED
        BY <2>3, <3>1
    <2>7. CASE Return(BOB)
      BY <1>0, <2>3, <2>7, ReturnTouches
    <2> QED
      BY <1>3, <2>4, <2>5, <2>6, <2>7 DEF Receiver
  <1>4. CASE RecvPost
    BY <1>4, DataRecvPost
  <1> QED
    BY <1>1, <1>2, <1>3, <1>4 DEF Next

------------------------------------------------------------------------------
(* The invariant.                                                          *)

LEMMA Initially ==
  ASSUME KKOTAssumption, Init
  PROVE  IInv
  <1>0. ALICE \in Party /\ BOB \in Party /\ ALICE # BOB
    BY DEF Party, ALICE, BOB
  <1>1. /\ program \in Programs /\ choice \in Choices /\ s \in Secrets
        /\ at = [p \in Party |-> 1] /\ pc = [p \in Party |-> "call"] /\ setup = [p \in Party |-> FALSE]
        /\ precomp_masks = FALSE /\ max_N = 0 /\ c_AND_s = [k \in Columns |-> Unset]
        /\ prg = [p \in Party |-> 0] /\ rows = [p \in Party |-> <<>>] /\ i = [p \in Party |-> 0]
        /\ data = [c \in DOMAIN program |-> <<>>] /\ wire = [p \in Party |-> <<>>]
    BY DEF Init
  <1>2. IsList(<<>>, 0) /\ Len(<<>>) = 0
    BY DEF IsList
  <1>3. ASSUME NEW p \in Party
        PROVE  /\ at[p] = 1 /\ pc[p] = "call" /\ setup[p] = FALSE /\ prg[p] = 0 /\ rows[p] = <<>> /\ i[p] = 0
               /\ wire[p] = <<>> /\ Rows(p) = 0
    BY <1>1, <1>2 DEF Rows
  <1>11. /\ at[ALICE] = 1 /\ pc[ALICE] = "call" /\ setup[ALICE] = FALSE /\ prg[ALICE] = 0 /\ rows[ALICE] = <<>>
         /\ i[ALICE] = 0 /\ wire[ALICE] = <<>> /\ Rows(ALICE) = 0
         /\ at[BOB] = 1 /\ pc[BOB] = "call" /\ setup[BOB] = FALSE /\ prg[BOB] = 0 /\ rows[BOB] = <<>>
         /\ i[BOB] = 0 /\ wire[BOB] = <<>> /\ Rows(BOB) = 0
    BY <1>0, <1>3
  <1>4. LocalInv
    <2>1. 1 \in 1..(Len(program) + 1)
      BY <1>1, CallType
    <2>2. Fine(program, 1, "call", FALSE, 0, <<>>, 0, 0)
      BY <1>2, <2>1 DEF Fine
    <2>3. \A p \in Party : PartyInv(p)
      BY <1>3, <2>2 DEF PartyInv
    <2> QED
      BY <1>1, <2>3 DEF LocalInv
  <1>5. MasksInv
    <2>1. 0 \in 0..lambda
      BY LambdaType
    <2>2. c_AND_s = [k \in Columns |-> c_AND_s[k]]
      BY <1>1
    <2>3. \A k \in 0..(max_N - 1) : FALSE
      BY <1>1
    <2> QED
      BY <1>1, <1>11, <2>1, <2>2, <2>3 DEF MasksInv
  <1>6. ApartInv
    BY <1>11 DEF ApartInv, Apart2
  <1>7. RowsInv
    BY <1>11 DEF RowsInv, RecvRows, SendRows
  <1>8. UpInv
    <2>1. AheadNow = 0
      BY <1>11 DEF AheadNow, Ahead
    <2>2. UpList(<<>>, 0, 0, 0, choice[at[BOB]], Rows(BOB) - AheadNow, Length(BOB))
      BY <1>2 DEF UpList
    <2>3. 0 * BlockSize = 0
      <3>1. PICK B \in Nat : B = BlockSize
        BY Sizes
      <3> QED
        BY <3>1
    <2>4. UpState(FALSE, FALSE, 0, 0, <<>>, 0, choice[at[BOB]], Rows(BOB) - AheadNow, Length(BOB))
      BY <2>2, <2>3 DEF UpState, BitOf
    <2> QED
      BY <1>11, <2>1, <2>4, UpAsState
  <1>9. DownInv
    <2>1. TopNow = 0
      BY <1>11 DEF TopNow, Top
    <2>2. DownList(<<>>, rows[BOB], at[BOB], Now(BOB).N, choice[at[BOB]], s, 0, 0)
      BY <1>2 DEF DownList
    <2> QED
      BY <1>11, <2>1, <2>2, DownNow
  <1>10. DataInv
    BY <1>1, <1>2, <1>11 DEF DataInv, Transferred
  <1> QED
    BY <1>4, <1>5, <1>6, <1>7, <1>8, <1>9, <1>10 DEF IInv

LEMMA Inductive ==
  ASSUME KKOTAssumption, ChoicesFit, IInv, [Next]_vars
  PROVE  IInv'
  BY LocalStep, MasksStep, ApartStep, RowsStep, UpStep, DownStep, DataStep DEF IInv

LEMMA Promised ==
  ASSUME IInv
  PROVE  Transferred /\ MasksCover
  BY DEF IInv, DataInv, MasksInv, MasksCover

\* The receiver obtains the message of its choice in every OT of every call,
\* and the masks under which the sender answers are those of its secret and
\* as many as the call has messages: for all sequences of calls, early
\* set-up or not, more and fewer messages in any order.
THEOREM ObtainsTheChosen ==
  ASSUME KKOTAssumption, ChoicesFit
  PROVE  Spec => [](Transferred /\ MasksCover)
  <1>1. Init => IInv
    BY Initially
  <1>2. IInv /\ [Next]_vars => IInv'
    BY Inductive
  <1>3. IInv => Transferred /\ MasksCover
    BY Promised
  <1> QED
    BY <1>1, <1>2, <1>3, PTL DEF Spec

------------------------------------------------------------------------------
(* How far apart the pads of a message are.                               *)

\* Two different numbers of n digits differ in one of them.
LEMMA FirstDifference ==
  ASSUME NEW n \in Nat, NEW a \in Nat, NEW b \in Nat, a < 2^n, b < 2^n, a # b
  PROVE  \E t \in 0..(n - 1) : (a \div (2^t)) % 2 # (b \div (2^t)) % 2
  <1> DEFINE Bad == {k \in 0..n : a \div (2^(n - k)) # b \div (2^(n - k))}
  <1>1. n \in Bad
    <2>1. n - n = 0 /\ 2^0 = 1
      OBVIOUS
    <2>2. a \div 1 = a /\ b \div 1 = b
      <3>1. 1 \in Nat /\ 1 > 0 /\ 0 \in Nat /\ 0 < 1 /\ a = 1 * a + 0 /\ b = 1 * b + 0
        OBVIOUS
      <3> QED
        BY <3>1, DivUnique
    <2> QED
      BY <2>1, <2>2
  <1>2. PICK k \in Bad : \A x \in Bad : k <= x
    <2>1. Bad \subseteq 0..n
      OBVIOUS
    <2> HIDE DEF Bad
    <2>2. Bad \subseteq Nat /\ Bad # {}
      BY <1>1, <2>1
    <2> QED
      BY <2>2, LeastElement
  <1>3. k # 0
    <2>1. 2^n \in Nat /\ 2^n > 0 /\ 2^(n - 0) = 2^n
      BY PowerDouble
    <2>2. PICK p \in Nat : p = 2^n
      BY <2>1
    <2>3. a \div p < 1 /\ b \div p < 1
      BY <2>1, <2>2, DivBound
    <2>4. a \div p \in Nat /\ b \div p \in Nat
      BY <2>1, <2>2, DivMod
    <2>5. a \div p = b \div p
      BY <2>3, <2>4
    <2> QED
      BY <1>2, <2>1, <2>2, <2>5
  <1>4. PICK t \in 0..(n - 1) : k = n - t
    <2>1. n - k \in 0..(n - 1) /\ k = n - (n - k)
      BY <1>2, <1>3
    <2> QED
      BY <2>1
  <1>5. n - k = t /\ n - (k - 1) = t + 1 /\ k - 1 \in 0..n /\ k - 1 < k
    BY <1>2, <1>3, <1>4
  <1>6. a \div (2^(t + 1)) = b \div (2^(t + 1))
    <2>1. PICK m \in 0..n : m = k - 1
      BY <1>5
    <2>2. m \notin Bad
      <3> HIDE DEF Bad
      <3> QED
        BY <1>2, <1>4, <1>5, <2>1
    <2>3. n - m = t + 1
      BY <1>5, <2>1
    <2> QED
      BY <2>2, <2>3
  <1>7. PICK p \in Nat : p = 2^t /\ p > 0 /\ 2^(t + 1) = p * 2
    BY PowerDouble
  <1>8. PICK x \in Nat, y \in Nat : x = a \div p /\ y = b \div p
    BY <1>7, DivMod
  <1>9. x \div 2 = y \div 2
    <2>1. a \div (p * 2) = (a \div p) \div 2 /\ b \div (p * 2) = (b \div p) \div 2
      BY <1>7, DivDiv
    <2> QED
      BY <1>6, <1>7, <1>8, <2>1
  <1>10. x # y
    BY <1>2, <1>5, <1>7, <1>8
  <1>11. x % 2 # y % 2
    BY <1>9, <1>10
  <1> QED
    BY <1>7, <1>8, <1>11

\* A digit that is zero is set by adding its power of two; the others stay.
LEMMA SetDigit ==
  ASSUME NEW x \in Nat, NEW t \in Nat, (x \div (2^t)) % 2 = 0, NEW u \in Nat
  PROVE  ((x + 2^t) \div (2^u)) % 2 = IF u = t THEN 1 ELSE (x \div (2^u)) % 2
  <1>1. PICK p \in Nat : p = 2^t /\ p > 0 /\ 2^(t + 1) = p * 2
    BY PowerDouble
  <1>2. PICK q \in Nat, r \in Nat : q = x \div p /\ r < p /\ x = p * q + r
    BY <1>1, DivMod
  <1>3. PICK h \in Nat : q = 2 * h
    BY <1>1, <1>2
  <1>4. (x + p) \div p = q + 1
    <2>1. x + p = p * (q + 1) + r
      BY <1>2
    <2>2. x + p \in Nat /\ q + 1 \in Nat
      OBVIOUS
    <2> QED
      BY <1>1, <1>2, <2>1, <2>2, DivUnique
  <1>5. CASE u = t
    <2>1. (q + 1) % 2 = 1
      BY <1>3
    <2> QED
      BY <1>1, <1>4, <1>5, <2>1
  <1>6. CASE u > t
    <2>1. PICK d \in Nat : u = (t + 1) + d
      <3>1. u - t - 1 \in Nat /\ u = (t + 1) + (u - t - 1)
        BY <1>6
      <3> QED
        BY <3>1
    <2>2. PICK e \in Nat : e = 2^d /\ e > 0
      BY PowerDouble
    <2>3. 2^u = (p * 2) * e
      <3>1. 2^((t + 1) + d) = 2^(t + 1) * 2^d
        <4>1. t + 1 \in Nat
          OBVIOUS
        <4> QED
          BY <4>1, PowerSum
      <3> QED
        BY <1>1, <2>1, <2>2, <3>1
    <2>4. x \div (p * 2) = (x \div p) \div 2 /\ (x + p) \div (p * 2) = ((x + p) \div p) \div 2
      BY <1>1, DivDiv
    <2>5. q \div 2 = h /\ (q + 1) \div 2 = h
      BY <1>3
    <2>6. PICK p2 \in Nat : p2 = p * 2 /\ p2 > 0
      BY <1>1
    <2>7. x \div p2 = h /\ (x + p) \div p2 = h
      BY <1>2, <1>4, <2>4, <2>5, <2>6
    <2>8. x \div (p2 * e) = h \div e /\ (x + p) \div (p2 * e) = h \div e
      <3>1. x + p \in Nat
        OBVIOUS
      <3> QED
        BY <2>2, <2>6, <2>7, <3>1, DivDiv
    <2>9. PICK w : w = 2^u /\ w = p2 * e
      BY <2>3, <2>6
    <2>10. (x + 2^t) \div (2^u) = x \div (2^u)
      BY <1>1, <2>8, <2>9
    <2>11. u # t
      BY <1>6
    <2> QED
      BY <2>10, <2>11, Zenon
  <1>7. CASE u < t
    <2>1. PICK d \in Nat : t = u + (d + 1)
      <3>1. t - u - 1 \in Nat /\ t = u + ((t - u - 1) + 1)
        BY <1>7
      <3> QED
        BY <3>1
    <2>2. PICK e \in Nat : e = 2^d /\ 2^(d + 1) = 2 * e
      BY PowerDouble
    <2>3. PICK v \in Nat : v = 2^u /\ v > 0
      BY PowerDouble
    <2>4. p = v * (2 * e)
      <3>1. 2^(u + (d + 1)) = 2^u * 2^(d + 1)
        <4>1. d + 1 \in Nat
          OBVIOUS
        <4> QED
          BY <4>1, PowerSum
      <3> QED
        BY <1>1, <2>1, <2>2, <2>3, <3>1
    <2>5. PICK y \in Nat, z \in Nat : y = x \div v /\ z < v /\ x = v * y + z
      BY <2>3, DivMod
    <2>6. (x + p) \div v = y + 2 * e
      <3>1. x + p = v * (y + 2 * e) + z
        BY <2>4, <2>5
      <3>2. x + p \in Nat /\ y + 2 * e \in Nat
        OBVIOUS
      <3> QED
        BY <2>3, <2>5, <3>1, <3>2, DivUnique
    <2>7. (y + 2 * e) % 2 = y % 2
      OBVIOUS
    <2> QED
      BY <1>1, <1>7, <2>3, <2>5, <2>6, <2>7
  <1> QED
    BY <1>5, <1>6, <1>7

\* A number with one digit turned over.
Turned(x, t) == IF t \in BitsOf(x) THEN x - 2^t ELSE x + 2^t

LEMMA TurnedLow ==
  ASSUME KKOTAssumption, NEW x \in Columns, NEW t \in 0..(CodeBits - 1), t \notin BitsOf(x)
  PROVE  /\ x + 2^t \in Columns /\ 2^t \in Nat
         /\ \A u \in 0..(CodeBits - 1) :
              u \in BitsOf(x + 2^t) <=> IF u = t THEN u \notin BitsOf(x) ELSE u \in BitsOf(x)
  <1>0. x \in Nat /\ t \in Nat /\ CodeBits \in Nat /\ x < 2^CodeBits /\ lambda \in Nat /\ lambda = 2^CodeBits
    <2>1. CodeBits \in Nat
      BY DEF KKOTAssumption
    <2>2. lambda \in Nat
      BY <2>1, PowerDouble DEF lambda
    <2>3. lambda = 2^CodeBits
      BY DEF lambda
    <2>4. x \in Nat /\ t \in Nat /\ x < lambda
      BY <2>1, <2>2 DEF Columns
    <2> QED
      BY <2>1, <2>2, <2>3, <2>4
  <1>1. PICK p \in Nat : p = 2^t /\ p > 0
    BY <1>0, PowerDouble
  <1>2. PICK q \in Nat, r \in Nat : q = x \div p /\ r < p /\ x = p * q + r
    BY <1>0, <1>1, DivMod
  <1>3. q % 2 = 0 /\ (x \div (2^t)) % 2 = 0
    <2>1. q % 2 # 1
      BY <1>0, <1>1, <1>2 DEF BitsOf
    <2>2. q % 2 = 0
      BY <2>1
    <2> QED
      BY <1>1, <1>2, <2>2
  <1>4. PICK d \in Nat : CodeBits = t + (d + 1)
    <2>1. CodeBits - t - 1 \in Nat /\ CodeBits = t + ((CodeBits - t - 1) + 1)
      BY <1>0
    <2> QED
      BY <2>1
  <1>5. PICK e \in Nat : e = 2^d /\ 2^(d + 1) = 2 * e
    BY PowerDouble
  <1>6. lambda = p * (2 * e)
    <2>1. 2^(t + (d + 1)) = 2^t * 2^(d + 1)
      <3>1. d + 1 \in Nat
        OBVIOUS
      <3> QED
        BY <1>0, <3>1, PowerSum
    <2> QED
      BY <1>0, <1>1, <1>4, <1>5, <2>1
  <1>7. q < 2 * e
    <2>1. PICK w \in Nat : w = 2 * e
      BY <1>5
    <2>2. x \div p < w
      BY <1>0, <1>1, <1>6, <2>1, DivBound
    <2> QED
      BY <1>2, <2>1, <2>2
  <1>8. PICK k \in Nat : 2 * e = q + 2 + k
    <2>1. q + 2 <= 2 * e
      BY <1>3, <1>7
    <2>2. 2 * e - q - 2 \in Nat /\ 2 * e = q + 2 + (2 * e - q - 2)
      BY <2>1
    <2> QED
      BY <2>2
  <1>9. x + p < lambda
    <2>1. p * (q + 2 + k) = p * q + p + p + p * k /\ p * k \in Nat
      OBVIOUS
    <2> QED
      BY <1>2, <1>6, <1>8, <2>1
  <1>10. ASSUME NEW u \in 0..(CodeBits - 1)
         PROVE  u \in BitsOf(x + 2^t) <=> IF u = t THEN u \notin BitsOf(x) ELSE u \in BitsOf(x)
    <2>1. u \in Nat
      BY <1>0
    <2>2. ((x + 2^t) \div (2^u)) % 2 = IF u = t THEN 1 ELSE (x \div (2^u)) % 2
      BY <1>0, <1>3, <2>1, SetDigit
    <2>3. u \in BitsOf(x + 2^t) <=> ((x + 2^t) \div (2^u)) % 2 = 1
      BY Zenon DEF BitsOf
    <2>4. u \in BitsOf(x) <=> (x \div (2^u)) % 2 = 1
      BY Zenon DEF BitsOf
    <2> QED
      BY <2>2, <2>3, <2>4, Zenon
  <1> QED
    BY <1>0, <1>1, <1>9, <1>10 DEF Columns

LEMMA TurnedFacts ==
  ASSUME KKOTAssumption, NEW x \in Columns, NEW t \in 0..(CodeBits - 1)
  PROVE  /\ Turned(x, t) \in Columns
         /\ Turned(Turned(x, t), t) = x
         /\ \A u \in 0..(CodeBits - 1) :
              u \in BitsOf(Turned(x, t)) <=> IF u = t THEN u \notin BitsOf(x) ELSE u \in BitsOf(x)
  <1>0. x \in Nat /\ t \in Nat /\ x < lambda /\ lambda \in Nat
    <2>1. CodeBits \in Nat
      BY DEF KKOTAssumption
    <2>2. lambda \in Nat
      BY <2>1, PowerDouble DEF lambda
    <2> QED
      BY <2>1, <2>2 DEF Columns
  <1>1. PICK p \in Nat : p = 2^t /\ p > 0
    BY <1>0, PowerDouble
  <1>2. CASE t \notin BitsOf(x)
    <2>1. PICK y : y = x + 2^t /\ y = Turned(x, t)
      BY <1>2 DEF Turned
    <2>2. /\ y \in Columns
          /\ \A u \in 0..(CodeBits - 1) :
               u \in BitsOf(y) <=> IF u = t THEN u \notin BitsOf(x) ELSE u \in BitsOf(x)
      BY <1>2, <2>1, TurnedLow
    <2>3. Turned(y, t) = y - 2^t
      BY <1>2, <2>2 DEF Turned
    <2>4. Turned(y, t) = x
      BY <1>0, <1>1, <2>1, <2>3
    <2> QED
      BY <2>1, <2>2, <2>4
  <1>3. CASE t \in BitsOf(x)
    <2>1. PICK q \in Nat, r \in Nat : q = x \div p /\ r < p /\ x = p * q + r
      BY <1>0, <1>1, DivMod
    <2>2. q % 2 = 1
      BY <1>1, <1>3, <2>1 DEF BitsOf
    <2>3. PICK h \in Nat : q = 2 * h + 1
      BY <2>2
    <2>4. PICK z \in Nat : z = p * (2 * h) + r
      BY <2>1
    <2>5. x = z + p /\ z = x - p
      BY <2>1, <2>3, <2>4
    <2>6. z \div p = 2 * h
      <3>1. 2 * h \in Nat
        OBVIOUS
      <3> QED
        BY <1>1, <2>1, <2>4, <3>1, DivUnique
    <2>7. (z \div (2^t)) % 2 # 1
      BY <1>1, <2>6
    <2>8. t \notin BitsOf(z)
      BY <2>7, Zenon DEF BitsOf
    <2>9. z \in Columns
      BY <1>0, <1>1, <2>5 DEF Columns
    <2>10. \A u \in 0..(CodeBits - 1) :
             u \in BitsOf(x) <=> IF u = t THEN u \notin BitsOf(z) ELSE u \in BitsOf(z)
      BY <1>1, <2>5, <2>8, <2>9, TurnedLow
    <2>11. Turned(x, t) = z
      BY <1>1, <1>3, <2>5 DEF Turned
    <2>12. Turned(z, t) = x
      BY <1>1, <2>5, <2>8 DEF Turned
    <2>13. \A u \in 0..(CodeBits - 1) :
             u \in BitsOf(z) <=> IF u = t THEN u \notin BitsOf(x) ELSE u \in BitsOf(x)
      BY <2>10, Zenon
    <2> QED
      BY <2>9, <2>11, <2>12, <2>13
  <1> QED
    BY <1>2, <1>3

\* The table's order of the words is undone by itself.
LEMMA ColumnFacts ==
  ASSUME KKOTAssumption, NEW c \in Columns
  PROVE  Column(c) \in Columns /\ Column(Column(c)) = c
  <1>1. PICK w \in Nat : w > 0 /\ lambda = 4 * w
    <2>1. CodeBits \in Nat /\ CodeBits >= 2
      BY DEF KKOTAssumption
    <2>2. PICK d \in Nat : CodeBits = (d + 1) + 1
      <3>1. CodeBits - 2 \in Nat /\ CodeBits = ((CodeBits - 2) + 1) + 1
        BY <2>1
      <3> QED
        BY <3>1
    <2>3. d + 1 \in Nat
      OBVIOUS
    <2>4. 2^d \in Nat /\ 2^d > 0 /\ 2^(d + 1) = 2 * 2^d
      BY PowerDouble
    <2>5. 2^((d + 1) + 1) = 2 * 2^(d + 1)
      BY <2>3, PowerDouble
    <2> QED
      BY <2>2, <2>4, <2>5 DEF lambda
  <1>2. lambda \div 4 = w
    BY <1>1
  <1>3. c \in Nat /\ c < 4 * w
    BY <1>1 DEF Columns
  <1>4. PICK p \in Nat, r \in Nat : p = c \div w /\ r = c % w /\ r < w /\ c = w * p + r
    BY <1>1, <1>3, DivMod
  <1>5. p \in {0, 1, 2, 3}
    <2>1. c \div w < 4
      <3>1. c < w * 4
        BY <1>3
      <3> QED
        BY <1>1, <1>3, <3>1, DivBound
    <2> QED
      BY <1>4, <2>1
  <1>6. PICK y \in Nat : y = (3 - p) * w + r /\ y < 4 * w /\ y = w * (3 - p) + r
    <2> DEFINE v == (3 - p) * w + r
    <2>1. v \in Nat /\ v < 4 * w /\ v = w * (3 - p) + r
      <3>1. CASE p = 0
        BY <1>4, <3>1
      <3>2. CASE p = 1
        BY <1>4, <3>2
      <3>3. CASE p = 2
        BY <1>4, <3>3
      <3>4. CASE p = 3
        BY <1>4, <3>4
      <3> QED
        BY <1>5, <3>1, <3>2, <3>3, <3>4
    <2> QED
      BY <2>1
  <1>7. Column(c) = y
    BY <1>2, <1>4, <1>6 DEF Column
  <1>8. y \div w = 3 - p /\ y % w = r
    <2>1. 3 - p \in Nat
      BY <1>5
    <2> QED
      BY <1>1, <1>4, <1>6, <2>1, DivUnique
  <1>9. Column(y) = (3 - (3 - p)) * w + r
    BY <1>2, <1>8 DEF Column
  <1>10. (3 - (3 - p)) * w + r = c
    BY <1>4, <1>5
  <1>11. y \in Columns
    BY <1>1, <1>6 DEF Columns
  <1> QED
    BY <1>7, <1>9, <1>10, <1>11

\* The column that differs from c by the digit t.
Mirror(c, t) == Column(Turned(Column(c), t))

LEMMA MirrorFacts ==
  ASSUME KKOTAssumption, NEW c \in Columns, NEW t \in 0..(CodeBits - 1)
  PROVE  /\ Mirror(c, t) \in Columns /\ Mirror(Mirror(c, t), t) = c
         /\ Column(Mirror(c, t)) = Turned(Column(c), t)
  <1>1. PICK x \in Columns : x = Column(c) /\ Column(x) = c
    BY ColumnFacts
  <1>2. PICK y \in Columns : y = Turned(x, t) /\ Turned(y, t) = x
    BY TurnedFacts
  <1>3. PICK z \in Columns : z = Column(y) /\ Column(z) = y
    BY ColumnFacts
  <1>4. Mirror(c, t) = z /\ Mirror(z, t) = c
    BY <1>1, <1>2, <1>3 DEF Mirror
  <1> QED
    BY <1>1, <1>2, <1>3, <1>4

\* The parity of what two numbers share turns with digit t, if the other has it.
Odd(X) == Cardinality(X) % 2

LEMMA OddAfter ==
  ASSUME NEW X, IsFiniteSet(X), NEW t
  PROVE  /\ Odd(X) \in {0, 1}
         /\ t \notin X => Odd(X \cup {t}) = 1 - Odd(X)
         /\ t \in X => Odd(X \ {t}) = 1 - Odd(X)
  <1>1. PICK n \in Nat : n = Cardinality(X)
    BY FS_CardinalityType
  <1>2. n % 2 \in {0, 1} /\ (n + 1) % 2 = 1 - (n % 2)
    OBVIOUS
  <1>3. n > 0 => (n - 1) % 2 = 1 - (n % 2)
    OBVIOUS
  <1>4. t \notin X => Cardinality(X \cup {t}) = n + 1
    BY <1>1, FS_AddElement
  <1>5. t \in X => Cardinality(X \ {t}) = n - 1 /\ n > 0
    BY <1>1, FS_RemoveElement, FS_EmptySet
  <1> QED
    BY <1>1, <1>2, <1>3, <1>4, <1>5 DEF Odd

LEMMA DigitsFinite ==
  ASSUME KKOTAssumption, NEW k
  PROVE  BitsOf(k) \subseteq 0..(CodeBits - 1) /\ IsFiniteSet(BitsOf(k))
  <1>1. BitsOf(k) \subseteq 0..(CodeBits - 1)
    BY DEF BitsOf
  <1>2. IsFiniteSet(0..(CodeBits - 1))
    BY FS_Interval DEF KKOTAssumption
  <1> QED
    BY <1>1, <1>2, FS_Subset

LEMMA CodeTurns ==
  ASSUME KKOTAssumption, NEW k, NEW c \in Columns, NEW t \in 0..(CodeBits - 1)
  PROVE  /\ WH_Code(k, c) \in {0, 1}
         /\ WH_Code(k, Mirror(c, t)) =
              IF t \in BitsOf(k) THEN 1 - WH_Code(k, c) ELSE WH_Code(k, c)
  <1>1. PICK x \in Columns : x = Column(c) /\ Column(Mirror(c, t)) = Turned(x, t)
    BY ColumnFacts, MirrorFacts
  <1>2. PICK B, A, K : B = BitsOf(x) /\ A = BitsOf(Turned(x, t)) /\ K = BitsOf(k)
    OBVIOUS
  <1>3. /\ B \subseteq 0..(CodeBits - 1) /\ A \subseteq 0..(CodeBits - 1) /\ K \subseteq 0..(CodeBits - 1)
        /\ IsFiniteSet(K)
    BY <1>2, DigitsFinite
  <1>4. \A u \in 0..(CodeBits - 1) : u \in A <=> IF u = t THEN u \notin B ELSE u \in B
    BY <1>1, <1>2, TurnedFacts
  <1>5. IsFiniteSet(K \cap B)
    BY <1>3, FS_Subset
  <1>6. WH_Code(k, c) = Odd(K \cap B) /\ WH_Code(k, Mirror(c, t)) = Odd(K \cap A)
    BY <1>1, <1>2 DEF WH_Code, Odd
  <1>7. t \notin K => K \cap A = K \cap B
    BY <1>3, <1>4
  <1>8. t \in K /\ t \notin K \cap B => K \cap A = (K \cap B) \cup {t}
    BY <1>3, <1>4
  <1>9. t \in K /\ t \in K \cap B => K \cap A = (K \cap B) \ {t}
    BY <1>3, <1>4
  <1>10. PICK X : X = K \cap B
    OBVIOUS
  <1>11. /\ Odd(X) \in {0, 1}
         /\ t \notin X => Odd(X \cup {t}) = 1 - Odd(X)
         /\ t \in X => Odd(X \ {t}) = 1 - Odd(X)
    BY <1>5, <1>10, OddAfter
  <1> QED
    BY <1>2, <1>6, <1>7, <1>8, <1>9, <1>10, <1>11, Zenon

\* Two code words differ in half of the columns: turning over a digit in which
\* the two numbers differ turns each column where the words differ into one
\* where they agree, and back.
LEMMA HalfApart ==
  ASSUME KKOTAssumption, NEW a \in Columns, NEW b \in Columns, a # b
  PROVE  2 * Cardinality({c \in Columns : CodeWord(a)[c] # CodeWord(b)[c]}) = lambda
  <1> DEFINE D == {c \in Columns : WH_Code(a, c) # WH_Code(b, c)}
             E == Columns \ D
  <1>0. CodeBits \in Nat /\ lambda \in Nat /\ lambda = 2^CodeBits
    <2>1. CodeBits \in Nat
      BY DEF KKOTAssumption
    <2> QED
      BY <2>1, PowerDouble DEF lambda
  <1>1. PICK t \in 0..(CodeBits - 1) : (t \in BitsOf(a)) # (t \in BitsOf(b))
    <2>1. a \in Nat /\ b \in Nat /\ a < 2^CodeBits /\ b < 2^CodeBits
      BY <1>0 DEF Columns
    <2>2. PICK t \in 0..(CodeBits - 1) : (a \div (2^t)) % 2 # (b \div (2^t)) % 2
      BY <1>0, <2>1, FirstDifference
    <2>3. t \in Nat
      BY <1>0
    <2>4. PICK p \in Nat : p = 2^t /\ p > 0
      BY <2>3, PowerDouble
    <2>5. PICK x \in Nat, y \in Nat : x = a \div p /\ y = b \div p
      BY <2>1, <2>4, DivMod
    <2>6. x % 2 # y % 2
      BY <2>2, <2>4, <2>5
    <2>7. (x % 2 = 1) # (y % 2 = 1)
      BY <2>6
    <2>8. t \in BitsOf(a) <=> x % 2 = 1
      BY <2>4, <2>5 DEF BitsOf
    <2>9. t \in BitsOf(b) <=> y % 2 = 1
      BY <2>4, <2>5 DEF BitsOf
    <2> QED
      BY <2>7, <2>8, <2>9
  <1>2. ASSUME NEW c \in Columns
        PROVE  Mirror(c, t) \in Columns /\ (Mirror(c, t) \in D <=> c \notin D)
    <2>1. Mirror(c, t) \in Columns
      BY MirrorFacts
    <2>2. /\ WH_Code(a, c) \in {0, 1}
          /\ WH_Code(a, Mirror(c, t)) = IF t \in BitsOf(a) THEN 1 - WH_Code(a, c) ELSE WH_Code(a, c)
      BY CodeTurns
    <2>3. /\ WH_Code(b, c) \in {0, 1}
          /\ WH_Code(b, Mirror(c, t)) = IF t \in BitsOf(b) THEN 1 - WH_Code(b, c) ELSE WH_Code(b, c)
      BY CodeTurns
    <2>4. WH_Code(a, Mirror(c, t)) # WH_Code(b, Mirror(c, t)) <=> WH_Code(a, c) = WH_Code(b, c)
      BY <1>1, <2>2, <2>3
    <2> QED
      BY <2>1, <2>4
  <1>3. \A c \in Columns : Mirror(Mirror(c, t), t) = c
    BY MirrorFacts
  <1>4. IsFiniteSet(Columns) /\ Cardinality(Columns) = lambda
    <2>1. IsFiniteSet(0..(lambda - 1)) /\ Cardinality(0..(lambda - 1)) = lambda
      BY <1>0, FS_Interval
    <2> QED
      BY <2>1 DEF Columns
  <1>5. D \subseteq Columns
    OBVIOUS
  <1> HIDE DEF D
  <1>6. IsFiniteSet(D) /\ IsFiniteSet(E)
    BY <1>4, <1>5, FS_Subset
  <1> DEFINE f == [c \in D |-> Mirror(c, t)]
  <1>7. f \in Bijection(D, E)
    <2>1. f \in [D -> E]
      BY <1>2, <1>5
    <2>2. \A c, d \in D : f[c] = f[d] => c = d
      BY <1>3, <1>5
    <2>3. ASSUME NEW e \in E
          PROVE  \E c \in D : f[c] = e
      <3>1. Mirror(e, t) \in D
        BY <1>2
      <3>2. f[Mirror(e, t)] = e
        BY <1>3, <3>1
      <3> QED
        BY <3>1, <3>2
    <2> HIDE DEF f, E
    <2> QED
      BY <2>1, <2>2, <2>3 DEF Bijection, Injection, Surjection, IsInjective
  <1>8. Cardinality(D) = Cardinality(E)
    <2>1. ExistsBijection(D, E)
      BY <1>7 DEF ExistsBijection
    <2> HIDE DEF E, f
    <2> QED
      BY <1>6, <2>1, FS_Bijection
  <1>9. D \cup E = Columns /\ D \cap E = {}
    BY <1>5
  <1>10. Cardinality(D \cup E) = Cardinality(D) + Cardinality(E) - Cardinality(D \cap E)
    <2> HIDE DEF E, f
    <2> QED
      BY <1>6, FS_Union
  <1>11. PICK n \in Nat : n = Cardinality(D)
    BY <1>6, FS_CardinalityType
  <1>12. 2 * n = lambda
    <2> HIDE DEF E, f
    <2>1. Cardinality({}) = 0
      BY FS_EmptySet
    <2>2. lambda = n + n - 0
      BY <1>4, <1>8, <1>9, <1>10, <1>11, <2>1, Zenon
    <2> QED
      BY <1>0, <2>2
  <1>13. {c \in Columns : CodeWord(a)[c] # CodeWord(b)[c]} = D
    BY DEF CodeWord, D
  <1> QED
    BY <1>11, <1>12, <1>13

LEMMA TopType ==
  ASSUME KKOTAssumption, LocalInv
  PROVE  TopNow \in Nat /\ i[BOB] \in Nat
  <1>0. ALICE \in Party /\ BOB \in Party
    BY DEF Party
  <1>1. PICK a \in Nat, b \in Nat, ia \in Nat, ib \in Nat :
          a = at[ALICE] /\ b = at[BOB] /\ ia = i[ALICE] /\ ib = i[BOB] /\ b > 0
    BY <1>0, View
  <1>2. CASE b < a
    <2>1. at[ALICE] \in 1..(Len(program) + 1)
      BY <1>0, Zenon DEF LocalInv, PartyInv, Fine
    <2>2. DOMAIN program = 1..Len(program) /\ Len(program) \in Nat
      BY CallType DEF LocalInv
    <2>3. b \in DOMAIN program
      BY <1>1, <1>2, <2>1, <2>2
    <2>4. Length(BOB) \in Nat
      BY <1>0, <1>1, <2>3, View
    <2> QED
      BY <1>1, <1>2, <2>4 DEF TopNow, Top
  <1>3. CASE ~(b < a)
    BY <1>1, <1>3 DEF TopNow, Top
  <1> QED
    BY <1>2, <1>3

\* Units are under way only for a call that the receiver is in, as far as it goes.
LEMMA UnderWay ==
  ASSUME KKOTAssumption, LocalInv, ApartInv, i[BOB] < TopNow
  PROVE  /\ at[BOB] \in DOMAIN program /\ Now(BOB).op = "got" /\ TopNow <= Length(BOB)
         /\ TopNow \in Nat /\ i[BOB] \in Nat
  <1>0. ALICE \in Party /\ BOB \in Party
    BY DEF Party
  <1>1. PICK a \in Nat, b \in Nat, ia \in Nat, ib \in Nat :
          a = at[ALICE] /\ b = at[BOB] /\ ia = i[ALICE] /\ ib = i[BOB] /\ a > 0 /\ b > 0
    BY <1>0, View
  <1>2. ~(a < b) /\ TopNow \in Nat
    BY <1>1, TopType DEF TopNow, Top
  <1>3. CASE a = b
    <2>1. TopNow = ia /\ ia > 0
      BY <1>1, <1>3 DEF TopNow, Top
    <2>2. pc[ALICE] = "post" /\ at[ALICE] \in DOMAIN program /\ Now(ALICE).op = "got" /\ ia <= Length(ALICE)
      BY <1>0, <1>1, <2>1, View
    <2>3. Now(ALICE) = Now(BOB) /\ Length(ALICE) = Length(BOB)
      BY <1>1, <1>3 DEF Now, Length
    <2> QED
      BY <1>1, <1>2, <1>3, <2>1, <2>2, <2>3
  <1>4. CASE b < a
    <2>1. TopNow = Length(BOB)
      BY <1>1, <1>4 DEF TopNow, Top
    <2>2. b \in DOMAIN program
      <3>1. at[ALICE] \in 1..(Len(program) + 1)
        BY <1>0, Zenon DEF LocalInv, PartyInv, Fine
      <3>2. DOMAIN program = 1..Len(program) /\ Len(program) \in Nat
        BY CallType DEF LocalInv
      <3> QED
        BY <1>1, <1>4, <3>1, <3>2
    <2>3. Empty(program[b]) \/ pc[BOB] \in {"extend", "post"}
      BY <1>1, <1>4 DEF ApartInv, Apart2
    <2>4. Now(BOB).op = "got"
      BY <1>0, <1>1, <2>3, View DEF Empty, Now
    <2> QED
      BY <1>1, <1>2, <2>1, <2>2, <2>4
  <1> QED
    BY <1>1, <1>2, <1>3, <1>4

\* Where s is set the masks of two numbers differ as their code words do.
LEMMA MasksDiffer ==
  ASSUME KKOTAssumption, NEW a, NEW b, NEW secret \in [Columns -> Bit]
  PROVE  {c \in Columns : XorRow(AndRow(CodeWord(b), secret), AndRow(CodeWord(a), secret))[c] = 1}
           = {c \in {x \in Columns : CodeWord(a)[x] # CodeWord(b)[x]} : secret[c] = 1}
  <1>1. ASSUME NEW k, NEW c \in Columns
        PROVE  CodeWord(k)[c] \in {0, 1}
    <2>1. 0 \in 0..(CodeBits - 1)
      BY DEF KKOTAssumption
    <2>2. WH_Code(k, c) \in {0, 1}
      BY <2>1, CodeTurns
    <2> QED
      BY <2>2 DEF CodeWord
  <1>2. ASSUME NEW c \in Columns
        PROVE  XorRow(AndRow(CodeWord(b), secret), AndRow(CodeWord(a), secret))[c] = 1
                 <=> CodeWord(a)[c] # CodeWord(b)[c] /\ secret[c] = 1
    <2>1. PICK x \in {0, 1}, y \in {0, 1}, z \in {0, 1} :
            x = CodeWord(a)[c] /\ y = CodeWord(b)[c] /\ z = secret[c]
      BY <1>1 DEF Bit
    <2>2. XorRow(AndRow(CodeWord(b), secret), AndRow(CodeWord(a), secret))[c] = Xor(And(y, z), And(x, z))
      BY <2>1, Zenon DEF XorRow, AndRow
    <2>3. Xor(And(y, z), And(x, z)) = 1 <=> x # y /\ z = 1
      BY DEF Xor, And
    <2> QED
      BY <2>1, <2>2, <2>3
  <1> QED
    BY <1>2

LEMMA UnitsApart ==
  ASSUME KKOTAssumption, ChoicesFit, LocalInv, ApartInv, DownInv
  PROVE  Apart
  <1>0. ALICE \in Party /\ BOB \in Party
    BY DEF Party
  <1>1. DownList(wire[BOB], rows[BOB], at[BOB], Now(BOB).N, choice[at[BOB]], s, i[BOB], TopNow)
    BY DownNow
  <1>2. CASE i[BOB] = TopNow
    <2>1. IsList(wire[BOB], 0)
      BY <1>1, <1>2, Zenon DEF DownList
    <2>2. DOMAIN wire[BOB] = 1..0
      BY <2>1, ListFacts
    <2>3. \A u : u \notin DOMAIN wire[BOB]
      BY <2>2
    <2> QED
      BY <2>3, Zenon DEF Apart
  <1>3. CASE i[BOB] < TopNow
    <2>1. /\ at[BOB] \in DOMAIN program /\ Now(BOB).op = "got" /\ TopNow <= Length(BOB)
          /\ TopNow \in Nat /\ i[BOB] \in Nat
      BY <1>3, UnderWay
    <2>2. PICK N \in Nat, n \in Nat, from \in Nat, to \in Nat :
            /\ N = Now(BOB).N /\ N > 0 /\ N <= lambda /\ n = Length(BOB)
            /\ from = i[BOB] /\ to = TopNow /\ to <= n
      BY <1>0, <2>1, View, LambdaType
    <2>3. PICK w, held, c, chosen : w = wire[BOB] /\ held = rows[BOB] /\ c = at[BOB] /\ chosen = choice[c]
      OBVIOUS
    <2>4. DownList(w, held, c, N, chosen, s, from, to)
      BY <1>1, <2>2, <2>3
    <2>5. PICK d \in Nat : to = from + d /\ UnitsOf(w, held, c, N, chosen, s, from, d)
      BY <2>4, DownLength
    <2>6. /\ IsList(w, N * d)
          /\ \A q \in 1..(N * d) : w[q] = Unit(held, c, N, chosen, s, N * from + q - 1)
      BY <2>5, Zenon DEF UnitsOf
    <2>7. DOMAIN w = 1..(N * d)
      <3>1. PICK l \in Nat : l = N * d
        OBVIOUS
      <3> QED
        BY <2>6, <3>1, ListFacts
    <2>8. \A j \in 0..(n - 1) : chosen[j] \in 0..(N - 1)
      <3>1. /\ program \in Programs /\ choice \in Choices /\ program[c].op = "got"
            /\ program[c].length = n /\ program[c].N = N /\ c \in DOMAIN program
        BY <2>1, <2>2, <2>3 DEF LocalInv, Now, Length
      <3> QED
        BY <2>3, <3>1 DEF ChoicesFit
    <2>9. s \in [Columns -> Bit]
      BY DEF LocalInv, KKOTAssumption
    <2>10. ASSUME NEW u \in DOMAIN wire[BOB]
           PROVE  LET m == wire[BOB][u].msg
                      e == {x \in Columns : CodeWord(m[3])[x] # CodeWord(choice[m[1]][m[2]])[x]}
                  IN  /\ m[3] # choice[m[1]][m[2]] => 2 * Cardinality(e) = lambda
                      /\ {x \in Columns : wire[BOB][u].pad.flip[x] = 1} = {x \in e : s[x] = 1}
      <3>1. u \in 1..(N * d)
        BY <2>3, <2>7, <2>10
      <3>2. PICK v \in Nat, k \in 0..(N - 1) : UnitIs(N, from, d, u, v, k)
        BY <2>2, <3>1, UnitOf
      <3>3. PICK j \in Nat : j = from + v /\ j < n
        BY <2>2, <2>5, <3>2 DEF UnitIs
      <3>4. PICK z : z = N * from + u - 1 /\ z \div N = j /\ z % N = k
        BY <3>2, <3>3 DEF UnitIs
      <3>5. w[u] = Unit(held, c, N, chosen, s, z)
        BY <2>6, <3>1, <3>4, Zenon
      <3>6. PICK b : b = chosen[j] /\ b \in 0..(N - 1)
        BY <2>8, <3>3
      <3>7. w[u].msg = <<c, j, k>> /\ w[u].pad.flip = XorRow(AndRow(CodeWord(b), s), AndRow(CodeWord(k), s))
        BY <3>4, <3>5, <3>6 DEF Unit, Message
      <3>8. k \in Columns /\ b \in Columns
        BY <2>2, <3>2, <3>6, LambdaType DEF Columns
      <3>9. <<c, j, k>>[1] = c /\ <<c, j, k>>[2] = j /\ <<c, j, k>>[3] = k
        OBVIOUS
      <3>10. wire[BOB][u].msg[3] = k /\ choice[wire[BOB][u].msg[1]][wire[BOB][u].msg[2]] = b
        BY <2>3, <3>6, <3>7, <3>9, Zenon
      <3>11. k # b => 2 * Cardinality({x \in Columns : CodeWord(k)[x] # CodeWord(b)[x]}) = lambda
        BY <3>8, HalfApart
      <3>12. wire[BOB][u].pad.flip = XorRow(AndRow(CodeWord(b), s), AndRow(CodeWord(k), s))
        BY <2>3, <3>7, Zenon
      <3>13. {x \in Columns : wire[BOB][u].pad.flip[x] = 1}
               = {x \in {y \in Columns : CodeWord(k)[y] # CodeWord(b)[y]} : s[x] = 1}
        BY <2>9, <3>12, MasksDiffer
      <3> QED
        BY <3>10, <3>11, <3>13, Zenon
    <2> QED
      BY <2>10, Zenon DEF Apart
  <1>4. i[BOB] <= TopNow
    BY <1>1 DEF DownList
  <1>5. i[BOB] \in Nat /\ TopNow \in Nat
    BY TopType
  <1> QED
    BY <1>2, <1>3, <1>4, <1>5

\* The pad of a message that was not chosen differs from the receiver's in
\* exactly half of the columns, and only where s is set: the code keeps all
\* messages of an OT equally far apart, whatever their number and the size of
\* the code (constants.h's WH_Code).
THEOREM KeepsApart ==
  ASSUME KKOTAssumption, ChoicesFit
  PROVE  Spec => []Apart
  <1>1. Init => IInv
    BY Initially
  <1>2. IInv /\ [Next]_vars => IInv'
    BY Inductive
  <1>3. IInv => Apart
    BY UnitsApart DEF IInv
  <1> QED
    BY <1>1, <1>2, <1>3, PTL DEF Spec

------------------------------------------------------------------------------
(* The streams.                                                            *)

CONSTANTS Gens, Seeds, Ids, AesBatch, BlockBytes, Requests, MaxBlocks
VARIABLES key, counter, stream, whole
PRG == INSTANCE Prg

Piece == [ctr : Nat, key : Seeds \X Ids, times : Nat, bytes : 1..BlockBytes]

\* What a call hands out when it draws "drawn" blocks from counter c on under
\* key k: their first blocks, in order, each encrypted once; all of them, and
\* whole, when it was asked for whole blocks only.
InOrder(bs, c, k, drawn, exact) ==
  /\ bs \in Seq(Piece)
  /\ Len(bs) <= drawn
  /\ \A j \in 1..Len(bs) : bs[j].ctr = c + j - 1 /\ bs[j].key = k /\ bs[j].times = 1
  /\ exact => Len(bs) = drawn /\ \A j \in 1..Len(bs) : bs[j].bytes = BlockBytes

\* The stream of a generator runs through its counters, each at most once; all
\* of them, as whole blocks, as long as only whole blocks were asked for.
StreamInv(g) ==
  /\ key[g] \in Seeds \X Ids
  /\ counter[g] \in 0..MaxBlocks
  /\ whole[g] \in BOOLEAN
  /\ stream[g] \in Seq(Piece)
  /\ \A j \in 1..Len(stream[g]) : /\ stream[g][j].ctr < counter[g]
                                  /\ stream[g][j].key = key[g]
                                  /\ stream[g][j].times = 1
  /\ \A j, m \in 1..Len(stream[g]) : j < m => stream[g][j].ctr < stream[g][m].ctr
  /\ whole[g] => /\ Len(stream[g]) = counter[g]
                 /\ \A j \in 1..Len(stream[g]) : /\ stream[g][j].ctr = j - 1
                                                 /\ stream[g][j].bytes = BlockBytes

PrgInv ==
  /\ key \in [Gens -> Seeds \X Ids]
  /\ counter \in [Gens -> 0..MaxBlocks]
  /\ stream \in [Gens -> Seq(Piece)]
  /\ whole \in [Gens -> BOOLEAN]
  /\ \A g \in Gens : StreamInv(g)

------------------------------------------------------------------------------
(* How random_block cuts a call into batches.                              *)

\* The last run starts where the batches end and is neither empty nor longer
\* than a batch.
LEMMA RunBounds ==
  ASSUME PRG!PrgAssumption, NEW n \in Nat, n > 0
  PROVE  /\ PRG!Batches(n) \in Nat
         /\ PRG!Batches(n) * AesBatch \in Nat
         /\ PRG!Batches(n) * AesBatch < n
         /\ n <= PRG!Batches(n) * AesBatch + AesBatch
         /\ PRG!LastRun(n) = <<PRG!Batches(n) * AesBatch, n - PRG!Batches(n) * AesBatch>>
  <1>0. AesBatch \in Nat /\ AesBatch > 0
    BY DEF PRG!PrgAssumption
  <1>1. CASE n <= AesBatch
    <2>1. PRG!Batches(n) = 0 /\ 0 * AesBatch = 0
      BY <1>0, <1>1 DEF PRG!Batches
    <2>2. PRG!LastRun(n) = <<0, n>>
      BY <1>0, <1>1, <2>1 DEF PRG!LastRun
    <2> QED
      BY <1>0, <1>1, <2>1, <2>2
  <1>2. CASE n > AesBatch
    <2>1. PICK x \in Nat : x = n - AesBatch + AesBatch - 1
      BY <1>0, <1>2
    <2>2. PICK q \in Nat, t \in Nat : q = x \div AesBatch /\ t < AesBatch /\ x = AesBatch * q + t
      BY <1>0, DivMod
    <2>3. PRG!Batches(n) = q
      BY <1>0, <1>2, <2>1, <2>2 DEF PRG!Batches, PRG!CeilDiv
    <2>4. PICK p \in Nat : p = AesBatch * q /\ p = q * AesBatch
      BY <1>0
    <2>5. p < n /\ n <= p + AesBatch
      BY <1>0, <1>2, <2>1, <2>2, <2>4
    <2>6. PRG!LastRun(n) = <<p, n - p>>
      BY <1>0, <2>3, <2>4, <2>5 DEF PRG!LastRun
    <2> QED
      BY <2>3, <2>4, <2>5, <2>6
  <1> QED
    BY <1>0, <1>1, <1>2

\* Block j is in the run that its number, divided by the size of a batch, says.
LEMMA InRun ==
  ASSUME PRG!PrgAssumption, NEW j \in Nat, NEW b \in Nat, NEW size \in 0..AesBatch,
         j \in (b * AesBatch)..(b * AesBatch + size - 1)
  PROVE  b = j \div AesBatch
  <1>0. AesBatch \in Nat /\ AesBatch > 0
    BY DEF PRG!PrgAssumption
  <1>1. PICK p \in Nat : p = b * AesBatch /\ p = AesBatch * b
    BY <1>0
  <1>2. p <= j /\ j < p + AesBatch
    BY <1>0, <1>1
  <1>3. PICK t \in Nat : t = j - p
    BY <1>2
  <1>4. t < AesBatch /\ j = AesBatch * b + t
    BY <1>0, <1>1, <1>2, <1>3
  <1> QED
    BY <1>0, <1>4, DivUnique

LEMMA OneEncryption ==
  ASSUME PRG!PrgAssumption, NEW n \in Nat, NEW j \in Nat, j < n
  PROVE  PRG!Encryptions(n, j) = 1
  <1> DEFINE B == PRG!Batches(n)
             R == {run \in PRG!Runs(n) : j \in run[1]..(run[1] + run[2] - 1)}
  <1>0. AesBatch \in Nat /\ AesBatch > 0 /\ n > 0
    BY DEF PRG!PrgAssumption
  <1>1. PICK b \in Nat, p \in Nat : b = B /\ p = B * AesBatch /\ p < n /\ n <= p + AesBatch
                                    /\ PRG!LastRun(n) = <<p, n - p>>
    BY <1>0, RunBounds
  <1>2. PICK q \in Nat, t \in Nat : q = j \div AesBatch /\ t < AesBatch /\ j = AesBatch * q + t
    BY <1>0, DivMod
  <1>3. PICK o \in Nat : o = q * AesBatch /\ o = AesBatch * q
    BY <1>0
  <1> DEFINE Mine == IF q < b THEN <<o, AesBatch>> ELSE <<p, n - p>>
  <1>4. PRG!Runs(n) = {<<k * AesBatch, AesBatch>> : k \in 0..(b - 1)} \cup {<<p, n - p>>}
    BY <1>1 DEF PRG!Runs
  <1>5. ASSUME NEW k \in 0..(b - 1), j \in (k * AesBatch)..(k * AesBatch + AesBatch - 1)
        PROVE  k = q
    BY <1>0, <1>2, <1>5, InRun
  <1>6. ASSUME j \in p..(p + (n - p) - 1)
        PROVE  b = q
    <2>1. n - p \in 0..AesBatch /\ p = b * AesBatch
      BY <1>0, <1>1
    <2> QED
      BY <1>2, <1>6, <2>1, InRun
  <1>7. ASSUME ~(q < b)
        PROVE  p <= j
    <2>1. PICK d \in Nat : q = b + d
      BY <1>7
    <2>2. q * AesBatch = b * AesBatch + d * AesBatch /\ d * AesBatch \in Nat
      BY <1>0, <2>1
    <2> QED
      BY <1>0, <1>1, <1>2, <1>3, <2>2
  <1>8. R \subseteq {Mine}
    <2>1. ASSUME NEW run \in R
          PROVE  run = Mine
      <3>1. CASE run \in {<<k * AesBatch, AesBatch>> : k \in 0..(b - 1)}
        <4>1. PICK k \in 0..(b - 1) : run = <<k * AesBatch, AesBatch>>
          BY <3>1
        <4>2. j \in (k * AesBatch)..(k * AesBatch + AesBatch - 1)
          BY <4>1
        <4>3. k = q
          BY <1>5, <4>2
        <4> QED
          BY <1>3, <4>1, <4>3
      <3>2. CASE run = <<p, n - p>>
        <4>1. j \in p..(p + (n - p) - 1)
          BY <3>2
        <4> QED
          BY <1>6, <3>2, <4>1
      <3> QED
        BY <1>4, <3>1, <3>2
    <2> QED
      BY <2>1
  <1>9. Mine \in R
    <2>1. CASE q < b
      <3>1. Mine = <<o, AesBatch>> /\ q \in 0..(b - 1)
        BY <2>1
      <3>2. Mine \in PRG!Runs(n)
        BY <1>3, <1>4, <3>1
      <3>3. j \in o..(o + AesBatch - 1)
        BY <1>0, <1>2, <1>3
      <3> QED
        BY <3>1, <3>2, <3>3
    <2>2. CASE ~(q < b)
      <3>1. Mine = <<p, n - p>>
        BY <2>2
      <3>2. j \in p..(p + (n - p) - 1)
        BY <1>1, <1>7, <2>2
      <3> QED
        BY <1>4, <3>1, <3>2
    <2> QED
      BY <2>1, <2>2
  <1>10. R = {Mine}
    BY <1>8, <1>9
  <1>11. PRG!Cardinality(R) = Cardinality(R)
    BY DEF PRG!Cardinality, Cardinality
  <1> QED
    BY <1>10, <1>11, FS_Singleton DEF PRG!Encryptions

------------------------------------------------------------------------------
(* What each call hands out.                                               *)

LEMMA BlocksInOrder ==
  ASSUME PRG!PrgAssumption, NEW g \in Gens, NEW n \in Nat, StreamInv(g)
  PROVE  InOrder(PRG!Blocks(g, n), counter[g], key[g], n, TRUE)
  <1>0. BlockBytes \in Nat \ {0} /\ counter[g] \in Nat /\ key[g] \in Seeds \X Ids
    BY DEF PRG!PrgAssumption, StreamInv
  <1>1. ASSUME NEW j \in 1..n
        PROVE  /\ PRG!Blocks(g, n)[j] \in Piece
               /\ PRG!Blocks(g, n)[j].ctr = counter[g] + j - 1
               /\ PRG!Blocks(g, n)[j].key = key[g]
               /\ PRG!Blocks(g, n)[j].times = 1
               /\ PRG!Blocks(g, n)[j].bytes = BlockBytes
    <2>1. PRG!Encryptions(n, j - 1) = 1
      BY OneEncryption
    <2>2. PRG!Blocks(g, n)[j] = [ctr |-> counter[g] + j - 1, key |-> key[g], times |-> 1,
                                 bytes |-> BlockBytes]
      BY <2>1 DEF PRG!Blocks
    <2>3. counter[g] + j - 1 \in Nat /\ BlockBytes \in 1..BlockBytes
      BY <1>0
    <2> QED
      BY <1>0, <2>2, <2>3 DEF Piece
  <1>2. PRG!Blocks(g, n) = [j \in 1..n |-> PRG!Blocks(g, n)[j]]
    BY DEF PRG!Blocks
  <1>3. PRG!Blocks(g, n) \in Seq(Piece) /\ Len(PRG!Blocks(g, n)) = n
    <2> HIDE DEF Piece
    <2>1. PRG!Blocks(g, n) \in [1..n -> Piece]
      BY <1>1, <1>2
    <2> QED
      BY <2>1
  <1> QED
    BY <1>1, <1>3 DEF InOrder

\* The first n bytes of so many whole blocks.
LEMMA TrimInOrder ==
  ASSUME PRG!PrgAssumption, NEW bs, NEW c \in Nat, NEW k, NEW drawn \in Nat, NEW n \in Nat,
         InOrder(bs, c, k, drawn, TRUE), PRG!CeilDiv(n, BlockBytes) <= drawn
  PROVE  InOrder(PRG!Trim(bs, n), c, k, drawn, FALSE)
  <1>0. BlockBytes \in Nat /\ BlockBytes > 0
    BY DEF PRG!PrgAssumption
  <1>1. PICK full \in Nat, rest \in Nat : /\ full = n \div BlockBytes /\ rest = n % BlockBytes
                                          /\ rest < BlockBytes /\ n = BlockBytes * full + rest
    BY <1>0, DivMod
  <1>2. full <= drawn /\ (rest # 0 => full + 1 <= drawn)
    <2>1. PICK x \in Nat : x = n + BlockBytes - 1
      BY <1>0
    <2>2. PICK q \in Nat, t \in Nat : /\ q = x \div BlockBytes /\ t < BlockBytes
                                      /\ x = BlockBytes * q + t
      BY <1>0, DivMod
    <2>3. q <= drawn
      BY <1>0, <2>1, <2>2 DEF PRG!CeilDiv
    <2>4. CASE rest = 0
      <3>1. x = BlockBytes * full + (BlockBytes - 1) /\ BlockBytes - 1 \in Nat
        BY <1>0, <1>1, <2>1, <2>4
      <3>2. x \div BlockBytes = full
        BY <1>0, <3>1, DivUnique
      <3> QED
        BY <2>2, <2>3, <2>4, <3>2
    <2>5. CASE rest # 0
      <3>1. x = BlockBytes * (full + 1) + (rest - 1) /\ rest - 1 \in Nat /\ rest - 1 < BlockBytes
        BY <1>0, <1>1, <2>1, <2>5
      <3>2. x \div BlockBytes = full + 1
        BY <1>0, <3>1, DivUnique
      <3> QED
        BY <2>2, <2>3, <2>5, <3>2
    <2> QED
      BY <2>4, <2>5
  <1>3. /\ bs \in Seq(Piece) /\ Len(bs) = drawn
        /\ \A j \in 1..drawn : /\ bs[j] \in Piece
                               /\ bs[j].ctr = c + j - 1 /\ bs[j].key = k /\ bs[j].times = 1
    BY DEF InOrder
  <1> DEFINE head == SubSeq(bs, 1, full)
  <1> HIDE DEF Piece
  <1>4. /\ head \in Seq(Piece) /\ Len(head) = full
        /\ \A j \in 1..full : head[j] = bs[j]
    <2>1. \A j \in 1..full : bs[j] \in Piece
      BY <1>2, <1>3
    <2>2. /\ head \in Seq(Piece) /\ Len(head) = (IF 1 <= full THEN full - 1 + 1 ELSE 0)
          /\ \A j \in 1..(full - 1 + 1) : head[j] = bs[1 + j - 1]
      BY <2>1, SubSeqProperties
    <2> QED
      BY <2>2
  <1>5. CASE rest = 0
    <2>1. PRG!Trim(bs, n) = head
      BY <1>1, <1>5 DEF PRG!Trim
    <2> HIDE DEF head
    <2>2. InOrder(PRG!Trim(bs, n), c, k, drawn, FALSE)
      BY <1>2, <1>3, <1>4, <2>1 DEF InOrder
    <2> QED
      BY <2>1, <2>2
  <1>6. CASE rest # 0
    <2> DEFINE last == [bs[full + 1] EXCEPT !.bytes = rest]
    <2>1. PRG!Trim(bs, n) = Append(head, last)
      BY <1>1, <1>6 DEF PRG!Trim
    <2>2. /\ last \in Piece /\ last.ctr = c + full /\ last.key = k /\ last.times = 1
      <3>1. bs[full + 1] \in Piece /\ rest \in 1..BlockBytes
        <4>1. rest \in 1..BlockBytes
          BY <1>0, <1>1, <1>6
        <4>2. full + 1 \in 1..drawn
          BY <1>2, <1>6
        <4> QED
          BY <1>3, <4>1, <4>2
      <3>2. /\ bs[full + 1].ctr = c + (full + 1) - 1 /\ bs[full + 1].key = k
            /\ bs[full + 1].times = 1
        BY <1>2, <1>3, <1>6
      <3>3. last \in Piece /\ last.ctr = bs[full + 1].ctr /\ last.key = bs[full + 1].key
            /\ last.times = bs[full + 1].times
        BY <3>1 DEF Piece
      <3> QED
        BY <3>2, <3>3
    <2> HIDE DEF last, head
    <2>3. /\ PRG!Trim(bs, n) \in Seq(Piece) /\ Len(PRG!Trim(bs, n)) = full + 1
          /\ \A j \in 1..full : PRG!Trim(bs, n)[j] = bs[j]
          /\ PRG!Trim(bs, n)[full + 1] = last
      BY <1>4, <2>1, <2>2, AppendProperties
    <2>4. ASSUME NEW j \in 1..(full + 1)
          PROVE  /\ PRG!Trim(bs, n)[j].ctr = c + j - 1 /\ PRG!Trim(bs, n)[j].key = k
                 /\ PRG!Trim(bs, n)[j].times = 1
      <3>1. CASE j = full + 1
        BY <2>2, <2>3, <3>1
      <3>2. CASE j # full + 1
        <4>1. j \in 1..full /\ j \in 1..drawn
          BY <1>2, <3>2
        <4> QED
          BY <1>3, <2>3, <4>1
      <3> QED
        BY <3>1, <3>2
    <2> QED
      BY <1>2, <1>6, <2>3, <2>4 DEF InOrder
  <1> QED
    BY <1>5, <1>6

LEMMA TrimAll ==
  ASSUME PRG!PrgAssumption, NEW bs, NEW c \in Nat, NEW k, NEW drawn \in Nat, NEW n \in Nat,
         InOrder(bs, c, k, drawn, TRUE), n = drawn * BlockBytes
  PROVE  PRG!Trim(bs, n) = bs
  <1>1. BlockBytes \in Nat /\ BlockBytes > 0 /\ n = BlockBytes * drawn + 0
    BY DEF PRG!PrgAssumption
  <1>2. n \div BlockBytes = drawn /\ n % BlockBytes = 0
    BY <1>1, DivUnique
  <1> HIDE DEF Piece
  <1>3. bs \in Seq(Piece) /\ Len(bs) = drawn
    BY DEF InOrder
  <1>4. PRG!Trim(bs, n) = SubSeq(bs, 1, drawn)
    BY <1>2 DEF PRG!Trim
  <1> QED
    BY <1>3, <1>4

\* An array of blocks that is filled in order, whichever calls filled it.
LEMMA ArrayInOrder ==
  ASSUME PRG!PrgAssumption, NEW g \in Gens, NEW n \in Nat, NEW bs, StreamInv(g),
         bs \in Seq(Piece), Len(bs) = n,
         \A j \in 1..n : bs[j] = [ctr |-> counter[g] + j - 1, key |-> key[g], times |-> 1,
                                  bytes |-> BlockBytes]
  PROVE  InOrder(bs, counter[g], key[g], n, TRUE)
  BY DEF InOrder

\* Rounding up, with and without a rest.
LEMMA RoundUp ==
  ASSUME NEW n \in Nat, NEW d \in Nat, d > 0
  PROVE  /\ PRG!CeilDiv(n, d) \in Nat
         /\ n <= PRG!CeilDiv(n, d) * d
         /\ n % d = 0 => PRG!CeilDiv(n, d) = n \div d /\ n = PRG!CeilDiv(n, d) * d
         /\ n % d # 0 => PRG!CeilDiv(n, d) = n \div d + 1
  <1>1. PICK q \in Nat, t \in Nat : q = n \div d /\ t = n % d /\ t < d /\ n = d * q + t
    BY DivMod
  <1>2. PICK p \in Nat : p = d * q /\ p = q * d
    OBVIOUS
  <1>3. CASE t = 0
    <2>1. n + d - 1 = d * q + (d - 1) /\ d - 1 \in Nat /\ n + d - 1 \in Nat
      BY <1>1, <1>3
    <2>2. PRG!CeilDiv(n, d) = q
      BY <2>1, DivUnique DEF PRG!CeilDiv
    <2> QED
      BY <1>1, <1>2, <1>3, <2>2
  <1>4. CASE t # 0
    <2>1. n + d - 1 = d * (q + 1) + (t - 1) /\ t - 1 \in Nat /\ n + d - 1 \in Nat
      BY <1>1, <1>4
    <2>2. PRG!CeilDiv(n, d) = q + 1
      BY <1>1, <2>1, DivUnique DEF PRG!CeilDiv
    <2>3. (q + 1) * d = p + d
      BY <1>2
    <2> QED
      BY <1>1, <1>2, <1>4, <2>2, <2>3
  <1> QED
    BY <1>3, <1>4

\* The least multiple that covers n is no larger than one that does.
LEMMA RoundUpLeast ==
  ASSUME NEW n \in Nat, NEW d \in Nat, d > 0, NEW m \in Nat, n <= m * d
  PROVE  PRG!CeilDiv(n, d) <= m
  <1>1. PICK x \in Nat : x = n + d - 1
    OBVIOUS
  <1>2. x < d * (m + 1)
    <2>1. d * (m + 1) = m * d + d /\ m * d \in Nat
      OBVIOUS
    <2> QED
      BY <1>1, <2>1
  <1>3. x \div d < m + 1
    BY <1>1, <1>2, DivBound
  <1>4. PICK q \in Nat : q = PRG!CeilDiv(n, d)
    BY RoundUp
  <1> QED
    BY <1>1, <1>3, <1>4 DEF PRG!CeilDiv

LEMMA PartInOrder ==
  ASSUME NEW bs, NEW c, NEW k, NEW drawn, NEW exact, ~exact, InOrder(bs, c, k, drawn, FALSE)
  PROVE  InOrder(bs, c, k, drawn, exact)
  BY Zenon DEF InOrder

LEMMA DataInOrder ==
  ASSUME PRG!PrgAssumption, NEW g \in Gens, NEW n \in Nat, StreamInv(g)
  PROVE  InOrder(PRG!DataBlocks(g, n), counter[g], key[g], PRG!CeilDiv(n, BlockBytes),
                 n % BlockBytes = 0)
  <1>0. BlockBytes \in Nat /\ BlockBytes > 0
    BY DEF PRG!PrgAssumption
  <1>1. PICK full \in Nat : full = n \div BlockBytes
    BY <1>0, DivMod
  <1>2. PICK c \in Nat, k \in Seeds \X Ids : c = counter[g] /\ k = key[g]
    BY DEF StreamInv
  <1>3. CASE n % BlockBytes = 0
    <2>1. PRG!DataBlocks(g, n) = PRG!Blocks(g, full) /\ PRG!CeilDiv(n, BlockBytes) = full
      BY <1>0, <1>1, <1>3, RoundUp DEF PRG!DataBlocks
    <2> QED
      BY <1>3, <2>1, BlocksInOrder
  <1>4. CASE n % BlockBytes # 0
    <2> DEFINE bs == PRG!Blocks(g, full)
               next == [PRG!Blocks(g, 1)[1] EXCEPT !.ctr = @ + full]
               P(j) == [ctr |-> c + j - 1, key |-> k, times |-> 1, bytes |-> BlockBytes]
    <2>1. PRG!DataBlocks(g, n) = PRG!Trim(Append(bs, next), n) /\ PRG!CeilDiv(n, BlockBytes) = full + 1
      BY <1>0, <1>1, <1>4, RoundUp DEF PRG!DataBlocks
    <2>2. \A j \in 1..full : bs[j] = P(j)
      <3>1. ASSUME NEW j \in 1..full
            PROVE  bs[j] = P(j)
        <4>1. PRG!Encryptions(full, j - 1) = 1
          BY OneEncryption
        <4> QED
          BY <1>2, <4>1 DEF PRG!Blocks
      <3> QED
        BY <3>1
    <2>3. next = P(full + 1)
      <3>1. PRG!Encryptions(1, 0) = 1
        BY OneEncryption
      <3>2. PRG!Blocks(g, 1)[1] = [ctr |-> c + 1 - 1, key |-> k, times |-> PRG!Encryptions(1, 1 - 1),
                                   bytes |-> BlockBytes]
        BY <1>2 DEF PRG!Blocks
      <3>3. PRG!Blocks(g, 1)[1] = [ctr |-> c, key |-> k, times |-> 1, bytes |-> BlockBytes]
        BY <3>1, <3>2
      <3>4. next = [ctr |-> c + full, key |-> k, times |-> 1, bytes |-> BlockBytes]
        BY <3>3
      <3> QED
        BY <3>4
    <2>4. P(full + 1) \in Piece /\ bs \in Seq(Piece) /\ Len(bs) = full
      <3>1. BlockBytes \in 1..BlockBytes /\ c + (full + 1) - 1 \in Nat
        BY <1>0
      <3>2. InOrder(bs, counter[g], key[g], full, TRUE)
        BY BlocksInOrder
      <3> QED
        BY <3>1, <3>2 DEF Piece, InOrder
    <2> DEFINE arr == Append(bs, next)
    <2>5. /\ arr \in Seq(Piece) /\ Len(arr) = full + 1
          /\ \A j \in 1..full : arr[j] = bs[j]
          /\ arr[full + 1] = next
      <3> HIDE DEF bs, next, Piece, P
      <3> QED
        BY <2>3, <2>4, AppendProperties
    <2>6. \A j \in 1..(full + 1) : arr[j] = P(j)
      <3> HIDE DEF bs, next, arr, P
      <3> QED
        BY <2>2, <2>3, <2>5
    <2> HIDE DEF arr, Piece
    <2>7. PICK d \in Nat : /\ d = full + 1 /\ PRG!CeilDiv(n, BlockBytes) <= d
                           /\ arr \in Seq(Piece) /\ Len(arr) = d
                          /\ \A j \in 1..d : arr[j] = [ctr |-> counter[g] + j - 1, key |-> key[g],
                                                      times |-> 1, bytes |-> BlockBytes]
      BY <1>2, <2>1, <2>5, <2>6
    <2>8. InOrder(arr, counter[g], key[g], d, TRUE)
      BY <2>7, ArrayInOrder, Zenon
    <2>9. counter[g] \in Nat
      BY <1>2
    <2>10. InOrder(PRG!Trim(arr, n), counter[g], key[g], full + 1, FALSE)
      <3>1. InOrder(PRG!Trim(arr, n), counter[g], key[g], d, FALSE)
        BY <2>7, <2>8, <2>9, TrimInOrder, Zenon
      <3> QED
        BY <2>7, <3>1
    <2> QED
      <3>1. PRG!DataBlocks(g, n) = PRG!Trim(arr, n)
        BY <2>1 DEF arr
      <3> QED
        BY <1>4, <2>1, <2>10, <3>1, PartInOrder, Zenon
  <1> QED
    BY <1>3, <1>4

LEMMA UnalignedInOrder ==
  ASSUME PRG!PrgAssumption, NEW g \in Gens, NEW n \in Nat, StreamInv(g)
  PROVE  /\ PRG!CeilDiv(n, PRG!BatchBytes) * AesBatch \in Nat
         /\ InOrder(PRG!UnalignedBlocks(g, n), counter[g], key[g],
                    PRG!CeilDiv(n, PRG!BatchBytes) * AesBatch, n % PRG!BatchBytes = 0)
  <1>0. BlockBytes \in Nat /\ BlockBytes > 0 /\ AesBatch \in Nat /\ AesBatch > 0
    BY DEF PRG!PrgAssumption
  <1>1. PRG!BatchBytes \in Nat /\ PRG!BatchBytes > 0
    BY <1>0, SMT DEF PRG!BatchBytes
  <1>2. PICK c \in Nat, k \in Seeds \X Ids : c = counter[g] /\ k = key[g]
    BY DEF StreamInv
  <1>3. PICK t \in Nat : /\ t = PRG!CeilDiv(n, PRG!BatchBytes) /\ n <= t * PRG!BatchBytes
                         /\ (n % PRG!BatchBytes = 0 => n = t * PRG!BatchBytes)
    BY <1>1, RoundUp
  <1>4. PICK m \in Nat : m = t * AesBatch
    BY <1>0
  <1>5. t * PRG!BatchBytes = m * BlockBytes
    BY <1>0, <1>4 DEF PRG!BatchBytes
  <1> DEFINE batch(b) == [j \in 1..AesBatch |->
                           [PRG!Blocks(g, AesBatch)[j] EXCEPT !.ctr = @ + b * AesBatch]]
             arr == [j \in 1..m |-> batch((j - 1) \div AesBatch)[((j - 1) % AesBatch) + 1]]
             P(j) == [ctr |-> c + j - 1, key |-> k, times |-> 1, bytes |-> BlockBytes]
  <1>6. PRG!UnalignedBlocks(g, n) = PRG!Trim(arr, n)
    BY <1>3, <1>4 DEF PRG!UnalignedBlocks
  <1>7. ASSUME NEW j \in 1..m
        PROVE  arr[j] = P(j) /\ P(j) \in Piece
    <2>1. PICK x \in Nat : x = j - 1
      OBVIOUS
    <2>2. PICK q \in Nat, u \in Nat : /\ q = x \div AesBatch /\ u = x % AesBatch /\ u < AesBatch
                                      /\ x = AesBatch * q + u
      BY <1>0, DivMod
    <2>3. PICK o \in Nat : o = q * AesBatch /\ o = AesBatch * q
      BY <1>0
    <2>4. PRG!Encryptions(AesBatch, u) = 1
      BY <1>0, <2>2, OneEncryption
    <2>5. PRG!Blocks(g, AesBatch)[u + 1] = [ctr |-> c + (u + 1) - 1, key |-> k,
                                            times |-> PRG!Encryptions(AesBatch, u + 1 - 1),
                                            bytes |-> BlockBytes]
      BY <1>0, <1>2, <2>2 DEF PRG!Blocks
    <2>6. PRG!Blocks(g, AesBatch)[u + 1] = [ctr |-> c + u, key |-> k, times |-> 1,
                                            bytes |-> BlockBytes]
      BY <2>4, <2>5
    <2>7. arr[j] = [PRG!Blocks(g, AesBatch)[u + 1] EXCEPT !.ctr = @ + o]
      <3>1. u + 1 \in 1..AesBatch
        BY <1>0, <2>2
      <3>2. batch(q)[u + 1] = [PRG!Blocks(g, AesBatch)[u + 1] EXCEPT !.ctr = @ + o]
        BY <2>3, <3>1
      <3>3. arr[j] = batch(x \div AesBatch)[(x % AesBatch) + 1]
        BY <2>1, Zenon
      <3> HIDE DEF batch, arr
      <3> QED
        BY <2>2, <3>2, <3>3
    <2>8. arr[j] = [ctr |-> c + u + o, key |-> k, times |-> 1, bytes |-> BlockBytes]
      <3>1. [[ctr |-> c + u, key |-> k, times |-> 1, bytes |-> BlockBytes] EXCEPT !.ctr = @ + o]
              = [ctr |-> c + u + o, key |-> k, times |-> 1, bytes |-> BlockBytes]
        OBVIOUS
      <3> HIDE DEF arr
      <3> QED
        BY <2>6, <2>7, <3>1, Zenon
    <2>9. c + u + o = c + j - 1 /\ c + j - 1 \in Nat /\ BlockBytes \in 1..BlockBytes
      BY <1>0, <2>1, <2>2, <2>3
    <2> QED
      BY <2>8, <2>9 DEF Piece
  <1>8. arr \in Seq(Piece) /\ Len(arr) = m
    <2>1. arr = [j \in 1..m |-> arr[j]] /\ \A j \in 1..m : arr[j] \in Piece
      BY <1>7
    <2> HIDE DEF arr, Piece
    <2>2. arr \in [1..m -> Piece]
      BY <2>1
    <2> QED
      BY <2>2
  <1>9. InOrder(arr, counter[g], key[g], m, TRUE)
    <2>1. \A j \in 1..m : arr[j] = P(j)
      BY <1>7
    <2> HIDE DEF arr
    <2> QED
      BY <1>2, <1>8, <2>1, ArrayInOrder
  <1> HIDE DEF arr
  <1>10. PRG!CeilDiv(n, BlockBytes) <= m
    BY <1>0, <1>3, <1>5, RoundUpLeast
  <1>11. /\ InOrder(PRG!Trim(arr, n), counter[g], key[g], m, FALSE)
         /\ n = m * BlockBytes => PRG!Trim(arr, n) = arr
    <2>1. PICK d \in Nat, e \in Nat : /\ d = m /\ e = counter[g] /\ PRG!CeilDiv(n, BlockBytes) <= d
                                      /\ InOrder(arr, e, key[g], d, TRUE)
      BY <1>2, <1>9, <1>10
    <2>2. InOrder(PRG!Trim(arr, n), e, key[g], d, FALSE)
      BY <2>1, TrimInOrder, Zenon
    <2>3. n = d * BlockBytes => PRG!Trim(arr, n) = arr
      BY <2>1, TrimAll, Zenon
    <2> QED
      BY <2>1, <2>2, <2>3
  <1>12. CASE n % PRG!BatchBytes = 0
    <2>1. PRG!Trim(arr, n) = arr
      BY <1>3, <1>5, <1>11, <1>12
    <2> QED
      BY <1>3, <1>4, <1>6, <1>9, <1>12, <2>1
  <1>13. CASE n % PRG!BatchBytes # 0
    BY <1>3, <1>4, <1>6, <1>11, <1>13, PartInOrder, Zenon
  <1> QED
    BY <1>12, <1>13

------------------------------------------------------------------------------
(* The steps.                                                              *)

LEMMA HandStep ==
  ASSUME PRG!PrgAssumption, NEW g \in Gens, NEW drawn \in Nat, NEW bs, NEW exact \in BOOLEAN,
         PrgInv, InOrder(bs, counter[g], key[g], drawn, exact), PRG!Hand(g, drawn, bs, exact)
  PROVE  PrgInv'
  <1>1. StreamInv(g) /\ MaxBlocks \in Nat
    BY DEF PrgInv, PRG!PrgAssumption
  <1> DEFINE st == stream[g]
             nw == stream'[g]
  <1>2. PICK c \in Nat, k \in Seeds \X Ids, len \in Nat :
          c = counter[g] /\ k = key[g] /\ len = Len(st)
    BY <1>1 DEF StreamInv
  <1>3. /\ counter'[g] = c + drawn /\ key'[g] = k /\ key' = key
        /\ nw = st \o bs /\ whole'[g] = (whole[g] /\ exact)
        /\ c + drawn <= MaxBlocks
        /\ \A h \in Gens : h # g => /\ counter'[h] = counter[h] /\ stream'[h] = stream[h]
                                    /\ whole'[h] = whole[h]
    BY <1>2 DEF PRG!Hand, PrgInv
  <1> HIDE DEF Piece
  <1>4. PICK more \in Nat : more = Len(bs) /\ more <= drawn
    BY DEF InOrder
  <1>5. /\ nw \in Seq(Piece) /\ Len(nw) = len + more
        /\ \A j \in 1..len : nw[j] = st[j]
        /\ \A j \in 1..more : nw[len + j] = bs[j]
    <2>1. st \in Seq(Piece) /\ bs \in Seq(Piece)
      BY <1>1 DEF StreamInv, InOrder
    <2>2. /\ nw \in Seq(Piece) /\ Len(nw) = len + more
          /\ \A j \in 1..(len + more) : nw[j] = IF j <= len THEN st[j] ELSE bs[j - len]
      BY <1>2, <1>3, <1>4, <2>1, ConcatProperties
    <2> HIDE DEF nw, st
    <2>3. ASSUME NEW j \in 1..more
          PROVE  nw[len + j] = bs[j]
      <3>1. len + j \in 1..(len + more) /\ ~(len + j <= len) /\ len + j - len = j
        OBVIOUS
      <3> QED
        BY <2>2, <3>1
    <2> QED
      BY <2>2, <2>3
  <1>6. /\ \A j \in 1..len : st[j].ctr \in Nat /\ st[j].ctr < c /\ st[j].key = k /\ st[j].times = 1
        /\ \A j, m \in 1..len : j < m => st[j].ctr < st[m].ctr
        /\ whole[g] => /\ len = c
                       /\ \A j \in 1..len : st[j].ctr = j - 1 /\ st[j].bytes = BlockBytes
    <2>1. \A j \in 1..len : st[j] \in Piece
      BY <1>1, <1>2 DEF StreamInv
    <2> QED
      BY <1>1, <1>2, <2>1 DEF StreamInv, Piece
  <1>7. /\ \A j \in 1..more : bs[j].ctr = c + j - 1 /\ bs[j].key = k /\ bs[j].times = 1
        /\ exact => more = drawn /\ \A j \in 1..more : bs[j].bytes = BlockBytes
    BY <1>2, <1>4 DEF InOrder
  <1> HIDE DEF st, nw
  <1>8. ASSUME NEW j \in 1..(len + more)
        PROVE  \/ j \in 1..len /\ nw[j] = st[j]
               \/ \E u \in 1..more : j = len + u /\ nw[j] = bs[u]
    <2>1. CASE j <= len
      BY <1>5, <2>1
    <2>2. CASE ~(j <= len)
      <3>1. j - len \in 1..more /\ len + (j - len) = j
        BY <2>2
      <3> QED
        BY <1>5, <3>1
    <2> QED
      BY <2>1, <2>2
  <1>9. ASSUME NEW j \in 1..(len + more)
        PROVE  nw[j].ctr < c + drawn /\ nw[j].key = k /\ nw[j].times = 1
    <2>1. CASE j \in 1..len /\ nw[j] = st[j]
      BY <1>6, <2>1
    <2>2. ASSUME NEW u \in 1..more, j = len + u, nw[j] = bs[u]
          PROVE  nw[j].ctr < c + drawn /\ nw[j].key = k /\ nw[j].times = 1
      BY <1>4, <1>7, <2>2
    <2> QED
      BY <1>8, <2>1, <2>2
  <1>10. ASSUME NEW j \in 1..(len + more), NEW m \in 1..(len + more), j < m
         PROVE  nw[j].ctr < nw[m].ctr
    <2>1. CASE j \in 1..len /\ m \in 1..len
      BY <1>5, <1>6, <1>10, <2>1
    <2>2. CASE j \in 1..len /\ m \notin 1..len
      <3>1. PICK u \in 1..more : m = len + u /\ nw[m] = bs[u]
        BY <1>8, <2>2
      <3>2. nw[j] = st[j] /\ st[j].ctr \in Nat /\ st[j].ctr < c
        BY <1>5, <1>6, <2>2
      <3> QED
        BY <1>7, <3>1, <3>2
    <2>3. CASE j \notin 1..len
      <3>1. PICK u \in 1..more : j = len + u /\ nw[j] = bs[u]
        BY <1>8, <2>3
      <3>2. m \notin 1..len
        BY <1>10, <2>3
      <3>3. PICK h \in 1..more : m = len + h /\ nw[m] = bs[h]
        BY <1>8, <3>2
      <3> QED
        BY <1>7, <1>10, <3>1, <3>3
    <2> QED
      BY <2>1, <2>2, <2>3
  <1>11. ASSUME whole[g], exact
         PROVE  /\ len + more = c + drawn
                /\ \A j \in 1..(len + more) : nw[j].ctr = j - 1 /\ nw[j].bytes = BlockBytes
    <2>1. len = c /\ more = drawn
      BY <1>6, <1>7, <1>11
    <2>2. ASSUME NEW j \in 1..(len + more)
          PROVE  nw[j].ctr = j - 1 /\ nw[j].bytes = BlockBytes
      <3>1. CASE j \in 1..len /\ nw[j] = st[j]
        BY <1>6, <1>11, <3>1
      <3>2. ASSUME NEW u \in 1..more, j = len + u, nw[j] = bs[u]
            PROVE  nw[j].ctr = j - 1 /\ nw[j].bytes = BlockBytes
        BY <1>7, <1>11, <2>1, <3>2
      <3> QED
        BY <1>8, <3>1, <3>2
    <2> QED
      BY <2>1, <2>2
  <1>12. StreamInv(g)'
    <2>1. whole'[g] \in BOOLEAN /\ (whole'[g] => whole[g] /\ exact)
      BY <1>1, <1>3 DEF StreamInv
    <2>2. c + drawn \in 0..MaxBlocks
      BY <1>1, <1>3
    <2> QED
      BY <1>3, <1>5, <1>9, <1>10, <1>11, <2>1, <2>2 DEF StreamInv, nw
  <1>13. ASSUME NEW h \in Gens, h # g
         PROVE  StreamInv(h)'
    <2>1. StreamInv(h)
      BY DEF PrgInv
    <2> QED
      BY <1>3, <1>13, <2>1 DEF StreamInv
  <1>14. /\ key' \in [Gens -> Seeds \X Ids]
         /\ counter' \in [Gens -> 0..MaxBlocks]
         /\ stream' \in [Gens -> Seq(Piece)]
         /\ whole' \in [Gens -> BOOLEAN]
    <2>1. c + drawn \in 0..MaxBlocks /\ nw \in Seq(Piece) /\ whole'[g] \in BOOLEAN
      BY <1>1, <1>3, <1>5 DEF StreamInv
    <2>2. stream' = [stream EXCEPT ![g] = nw] /\ counter' = [counter EXCEPT ![g] = c + drawn]
          /\ whole' = [whole EXCEPT ![g] = whole'[g]]
      BY <1>2, <1>3 DEF PRG!Hand, st, nw, PrgInv
    <2> QED
      BY <1>3, <2>1, <2>2 DEF PrgInv
  <1> QED
    BY <1>12, <1>13, <1>14 DEF PrgInv

LEMMA ReseedStep ==
  ASSUME NEW g \in Gens, NEW seed \in Seeds, NEW id \in Ids, PRG!PrgAssumption, PrgInv,
         PRG!Reseed(g, seed, id)
  PROVE  PrgInv'
  <1>1. /\ key'[g] = <<seed, id>> /\ counter'[g] = 0 /\ stream'[g] = <<>> /\ whole'[g] = TRUE
        /\ \A h \in Gens : h # g => /\ key'[h] = key[h] /\ counter'[h] = counter[h]
                                    /\ stream'[h] = stream[h] /\ whole'[h] = whole[h]
    BY DEF PRG!Reseed, PrgInv
  <1>2. 0 \in 0..MaxBlocks
    BY DEF PRG!PrgAssumption
  <1> HIDE DEF Piece
  <1>3. <<>> \in Seq(Piece) /\ Len(<<>>) = 0
    OBVIOUS
  <1>4. StreamInv(g)'
    <2>1. key'[g] \in Seeds \X Ids
      BY <1>1
    <2>2. Len(stream'[g]) = 0 /\ 1..0 = {}
      BY <1>1, <1>3
    <2> QED
      BY <1>1, <1>2, <1>3, <2>1, <2>2 DEF StreamInv
  <1>5. ASSUME NEW h \in Gens, h # g
        PROVE  StreamInv(h)'
    <2>1. StreamInv(h)
      BY DEF PrgInv
    <2> QED
      BY <1>1, <1>5, <2>1 DEF StreamInv
  <1>6. /\ key' \in [Gens -> Seeds \X Ids]
        /\ counter' \in [Gens -> 0..MaxBlocks]
        /\ stream' \in [Gens -> Seq(Piece)]
        /\ whole' \in [Gens -> BOOLEAN]
    BY <1>2, <1>3 DEF PRG!Reseed, PrgInv
  <1> QED
    BY <1>4, <1>5, <1>6 DEF PrgInv

LEMMA PrgStarts ==
  ASSUME PRG!PrgAssumption, PRG!Init
  PROVE  PrgInv
  <1>1. 0 \in 0..MaxBlocks
    BY DEF PRG!PrgAssumption
  <1> HIDE DEF Piece
  <1>2. <<>> \in Seq(Piece) /\ Len(<<>>) = 0
    OBVIOUS
  <1>3. ASSUME NEW g \in Gens
        PROVE  StreamInv(g)
    BY <1>1, <1>2 DEF PRG!Init, StreamInv
  <1> QED
    BY <1>1, <1>2, <1>3 DEF PRG!Init, PrgInv

LEMMA PrgSteps ==
  ASSUME PRG!PrgAssumption, PrgInv, [PRG!Next]_PRG!vars
  PROVE  PrgInv'
  <1>0. BlockBytes \in Nat /\ BlockBytes > 0 /\ Requests \subseteq Nat
    BY DEF PRG!PrgAssumption
  <1>1. \A g \in Gens : StreamInv(g)
    BY DEF PrgInv
  <1>2. ASSUME NEW g \in Gens, NEW seed \in Seeds, NEW id \in Ids, PRG!Reseed(g, seed, id)
        PROVE  PrgInv'
    BY <1>2, ReseedStep
  <1>3. ASSUME NEW g \in Gens, NEW n \in Requests, PRG!RandomBlock128(g, n)
        PROVE  PrgInv'
    <2>1. InOrder(PRG!Blocks(g, n), counter[g], key[g], n, TRUE)
      BY <1>0, <1>1, BlocksInOrder
    <2> QED
      BY <1>0, <1>3, <2>1, HandStep DEF PRG!RandomBlock128
  <1>4. ASSUME NEW g \in Gens, NEW n \in Requests, PRG!RandomBlock256(g, n)
        PROVE  PrgInv'
    <2>1. 2 * n \in Nat
      BY <1>0
    <2>2. InOrder(PRG!Blocks(g, 2 * n), counter[g], key[g], 2 * n, TRUE)
      BY <1>1, <2>1, BlocksInOrder
    <2> QED
      BY <1>4, <2>1, <2>2, HandStep DEF PRG!RandomBlock256
  <1>5. ASSUME NEW g \in Gens, NEW n \in Requests, PRG!RandomData(g, n)
        PROVE  PrgInv'
    <2>1. PRG!CeilDiv(n, BlockBytes) \in Nat
      BY <1>0, RoundUp
    <2>2. InOrder(PRG!DataBlocks(g, n), counter[g], key[g], PRG!CeilDiv(n, BlockBytes),
                  n % BlockBytes = 0)
      BY <1>0, <1>1, DataInOrder
    <2>3. (n % BlockBytes = 0) \in BOOLEAN
      OBVIOUS
    <2> QED
      BY <1>5, <2>1, <2>2, <2>3, HandStep, Zenon DEF PRG!RandomData
  <1>6. ASSUME NEW g \in Gens, NEW n \in Requests, PRG!RandomDataUnaligned(g, n)
        PROVE  PrgInv'
    <2>1. /\ PRG!CeilDiv(n, PRG!BatchBytes) * AesBatch \in Nat
          /\ InOrder(PRG!UnalignedBlocks(g, n), counter[g], key[g],
                     PRG!CeilDiv(n, PRG!BatchBytes) * AesBatch, n % PRG!BatchBytes = 0)
      BY <1>0, <1>1, UnalignedInOrder
    <2>2. (n % PRG!BatchBytes = 0) \in BOOLEAN
      OBVIOUS
    <2> QED
      BY <1>6, <2>1, <2>2, HandStep, Zenon DEF PRG!RandomDataUnaligned
  <1>7. CASE UNCHANGED PRG!vars
    BY <1>7 DEF PRG!vars, PrgInv, StreamInv
  <1> QED
    BY <1>2, <1>3, <1>4, <1>5, <1>6, <1>7 DEF PRG!Next

LEMMA Reads ==
  ASSUME NEW g \in Gens, PrgInv
  PROVE  /\ DOMAIN stream[g] = 1..Len(stream[g]) /\ Len(stream[g]) \in Nat
         /\ \A j \in 1..Len(stream[g]) :
              /\ stream[g][j] = [ctr |-> stream[g][j].ctr, key |-> stream[g][j].key,
                                 times |-> stream[g][j].times, bytes |-> stream[g][j].bytes]
              /\ stream[g][j].ctr \in Nat /\ stream[g][j].bytes \in 1..BlockBytes
  <1>1. StreamInv(g)
    BY DEF PrgInv
  <1> DEFINE st == stream[g]
  <1>2. st \in Seq(Piece)
    BY <1>1 DEF StreamInv
  <1> HIDE DEF st
  <1>3. \A j \in 1..Len(st) : st[j] \in Piece
    <2> HIDE DEF Piece
    <2> QED
      BY <1>2
  <1>4. ASSUME NEW x \in Piece
        PROVE  /\ x = [ctr |-> x.ctr, key |-> x.key, times |-> x.times, bytes |-> x.bytes]
               /\ x.ctr \in Nat /\ x.bytes \in 1..BlockBytes
    BY DEF Piece
  <1>5. DOMAIN st = 1..Len(st) /\ Len(st) \in Nat
    BY <1>2
  <1> HIDE DEF Piece
  <1> QED
    BY <1>3, <1>4, <1>5 DEF st

LEMMA PrgInductive ==
  ASSUME PRG!PrgAssumption
  PROVE  PRG!Spec => []PrgInv
  <1>1. PRG!Init => PrgInv
    BY PrgStarts
  <1>2. PrgInv /\ [PRG!Next]_PRG!vars => PrgInv'
    BY PrgSteps
  <1> QED
    BY <1>1, <1>2, PTL DEF PRG!Spec

------------------------------------------------------------------------------
\* No call returns a block beyond those it drew, or more of a block than there
\* is, whichever way it is cut into batches.
THEOREM PrgTypeCorrect ==
  ASSUME PRG!PrgAssumption
  PROVE  PRG!Spec => []PRG!TypeOK
  <1>1. ASSUME PrgInv
        PROVE  PRG!TypeOK
    <2>1. ASSUME NEW g \in Gens, NEW j \in DOMAIN stream[g]
          PROVE  /\ stream[g][j].ctr \in 0..(MaxBlocks - 1)
                 /\ stream[g][j].bytes \in 1..BlockBytes
      <3>1. j \in 1..Len(stream[g]) /\ stream[g][j].ctr \in Nat
            /\ stream[g][j].bytes \in 1..BlockBytes
        BY <1>1, <2>1, Reads
      <3>2. counter[g] \in 0..MaxBlocks /\ stream[g][j].ctr < counter[g] /\ MaxBlocks \in Nat
        BY <1>1, <3>1 DEF PrgInv, StreamInv, PRG!PrgAssumption
      <3> QED
        BY <3>1, <3>2
    <2> QED
      BY <1>1, <2>1 DEF PrgInv, PRG!TypeOK
  <1> QED
    BY <1>1, PrgInductive, PTL

\* random_block encrypts every block it returns once, in exactly one of the
\* batches it cuts the array into, whatever the number of blocks and the size
\* of a batch, and all the calls that go through it do, too (prg.h:96).
THEOREM EncryptsOnce ==
  ASSUME PRG!PrgAssumption
  PROVE  PRG!Spec => []PRG!EncryptedOnce
  <1>1. ASSUME PrgInv
        PROVE  PRG!EncryptedOnce
    <2>1. ASSUME NEW g \in Gens, NEW j \in DOMAIN stream[g]
          PROVE  stream[g][j].times = 1 /\ stream[g][j].key = key[g]
      BY <1>1, <2>1, Reads DEF PrgInv, StreamInv
    <2> QED
      BY <2>1 DEF PRG!EncryptedOnce
  <1> QED
    BY <1>1, PrgInductive, PTL

\* However calls for blocks, for bytes and for unaligned bytes are mixed, no
\* block is handed out twice between two calls of reseed (prg.h:75, 93).
THEOREM HandsOutOnce ==
  ASSUME PRG!PrgAssumption
  PROVE  PRG!Spec => []PRG!NeverRepeats
  <1>1. ASSUME PrgInv
        PROVE  PRG!NeverRepeats
    <2>1. ASSUME NEW g \in Gens, NEW j \in DOMAIN stream[g], NEW m \in DOMAIN stream[g], j # m
          PROVE  stream[g][j].ctr # stream[g][m].ctr
      <3>1. /\ j \in 1..Len(stream[g]) /\ m \in 1..Len(stream[g]) /\ Len(stream[g]) \in Nat
            /\ stream[g][j].ctr \in Nat /\ stream[g][m].ctr \in Nat
        BY <1>1, <2>1, Reads
      <3>2. /\ j < m => stream[g][j].ctr < stream[g][m].ctr
            /\ m < j => stream[g][m].ctr < stream[g][j].ctr
        BY <1>1, <3>1 DEF PrgInv, StreamInv
      <3> QED
        BY <2>1, <3>1, <3>2
    <2> QED
      BY <2>1 DEF PRG!NeverRepeats
  <1> QED
    BY <1>1, PrgInductive, PTL

\* Two generators of one seed read the same stream in whichever pieces they
\* draw it, as long as both ask for whole blocks: what the two ends of an OT
\* extension rely on (split-iknp.h:241, 284).
THEOREM PiecesDoNotMatter ==
  ASSUME PRG!PrgAssumption
  PROVE  PRG!Spec => []PRG!SameStream
  <1>1. ASSUME PrgInv
        PROVE  PRG!SameStream
    <2>1. ASSUME NEW g \in Gens, NEW h \in Gens, key[g] = key[h], whole[g], whole[h],
                 NEW j \in DOMAIN stream[g] \cap DOMAIN stream[h]
          PROVE  stream[g][j] = stream[h][j]
      <3>1. /\ j \in 1..Len(stream[g]) /\ j \in 1..Len(stream[h])
            /\ stream[g][j] = [ctr |-> stream[g][j].ctr, key |-> stream[g][j].key,
                               times |-> stream[g][j].times, bytes |-> stream[g][j].bytes]
            /\ stream[h][j] = [ctr |-> stream[h][j].ctr, key |-> stream[h][j].key,
                               times |-> stream[h][j].times, bytes |-> stream[h][j].bytes]
        BY <1>1, <2>1, Reads
      <3>2. /\ stream[g][j].ctr = j - 1 /\ stream[h][j].ctr = j - 1
            /\ stream[g][j].key = key[g] /\ stream[h][j].key = key[h]
            /\ stream[g][j].times = 1 /\ stream[h][j].times = 1
            /\ stream[g][j].bytes = BlockBytes /\ stream[h][j].bytes = BlockBytes
        BY <1>1, <2>1, <3>1 DEF PrgInv, StreamInv
      <3> QED
        BY <2>1, <3>1, <3>2
    <2> QED
      BY <2>1 DEF PRG!SameStream
  <1> QED
    BY <1>1, PrgInductive, PTL

------------------------------------------------------------------------------
(* The batches of pads.                                                    *)

CONSTANTS Width, BatchSize, Lanes, Lengths
VARIABLES length, r, keyBuffer, y, pad, si, ri, batches, received
Pads == INSTANCE PadBatches WITH N <- Width, key <- keyBuffer, wire <- batches, data <- received

\* The batch that starts at OT first as it should be on the wire: each message
\* under the pad of its own row and choice.
Masked(first) ==
  [c \in 0..(Width * Pads!InBatch(first) - 1) |->
     Pads!Hidden(Pads!Cipher(Pads!Row(first + c \div Width, c % Width), Pads!One),
                 first + c \div Width, c % Width)]
WireBatches == {Masked(first) : first \in Nat}

\* Both sides are at the start of a batch, the wire has the batches that the
\* receiver lacks in order, and it has what it chose of the others.
PadInv ==
  /\ length \in Nat
  /\ r \in [0..(length - 1) -> Pads!Choice]
  /\ DOMAIN y = Pads!Slot
  /\ DOMAIN pad = 0..(BatchSize - 1)
  /\ DOMAIN received = 0..(length - 1)
  /\ si \in Nat /\ ri \in Nat
  /\ batches \in Seq(WireBatches)
  /\ si = ri + Len(batches) * BatchSize
  /\ \A x \in 1..Len(batches) : batches[x] = Masked(ri + (x - 1) * BatchSize)
  /\ \A j \in 0..(length - 1) : j < ri => received[j] = <<j, r[j]>>

------------------------------------------------------------------------------
\* A key under n becomes a pad of its own, whether it falls in a full group or
\* after the last, and whatever the buffer had.
LEMMA Hashed ==
  ASSUME NEW out, NEW keys, NEW n \in Nat, NEW c \in DOMAIN out, Pads!PadAssumption, c \in Nat, c < n
  PROVE  Pads!CCRF(out, keys, n)[c] = Pads!Cipher(keys[c], Pads!One)
  <1>0. Lanes \in Nat /\ Lanes > 0
    BY DEF Pads!PadAssumption
  <1>1. PICK q \in Nat : q = n \div Lanes
    BY <1>0, DivMod
  <1>2. PICK grouped \in Nat : grouped = (n \div Lanes) * Lanes
    BY <1>0, <1>1
  <1> DEFINE set == [d \in DOMAIN out |-> IF d \in grouped..(n - 1) THEN Pads!One ELSE out[d]]
  <1>3. ~(c < grouped) => set[c] = Pads!One
    BY <1>2
  <1>4. Pads!CCRF(out, keys, n)[c] = IF c < grouped THEN Pads!Cipher(keys[c], Pads!One)
                                ELSE IF c < n THEN Pads!Cipher(keys[c], set[c]) ELSE out[c]
    BY <1>2 DEF Pads!CCRF
  <1> QED
    BY <1>3, <1>4

LEMMA BatchFits ==
  ASSUME Pads!PadAssumption, length \in Nat, NEW first \in Nat, first < length
  PROVE  /\ Pads!InBatch(first) \in 1..BatchSize
         /\ first + Pads!InBatch(first) <= length
         /\ \A j \in Nat : j < length /\ j < first + BatchSize => j < first + Pads!InBatch(first)
  BY DEF Pads!InBatch, Pads!SmallerOf, Pads!PadAssumption

\* Where message k of the d-th OT of a batch is.
LEMMA Place ==
  ASSUME Pads!PadAssumption, NEW d \in Nat, NEW k \in Pads!Choice, NEW size \in Nat, d < size
  PROVE  /\ Width * d + k \in 0..(Width * size - 1)
         /\ (Width * d + k) \div Width = d /\ (Width * d + k) % Width = k
  <1>0. Width \in Nat /\ Width > 0 /\ k \in Nat /\ k < Width
    BY DEF Pads!PadAssumption, Pads!Choice
  <1>1. PICK p \in Nat : p = Width * d
    BY <1>0
  <1>2. PICK x \in Nat : x = p + k
    BY <1>0
  <1>3. x \div Width = d /\ x % Width = k
    BY <1>0, <1>1, <1>2, DivUnique
  <1>4. p + k < Width * size
    <2>1. PICK e \in Nat : size = d + 1 + e
      <3>1. size - d - 1 \in Nat /\ size = d + 1 + (size - d - 1)
        OBVIOUS
      <3> QED
        BY <3>1
    <2>2. Width * size = Width * d + Width + Width * e /\ Width * e \in Nat
      BY <1>0, <2>1
    <2> QED
      BY <1>0, <1>1, <2>2
  <1>5. Width * size \in Nat
    BY <1>0
  <1> QED
    BY <1>0, <1>1, <1>2, <1>3, <1>4, <1>5

LEMMA PadStarts ==
  ASSUME Pads!PadAssumption, Pads!Init
  PROVE  PadInv
  <1>1. length \in Nat /\ BatchSize \in Nat
    BY DEF Pads!Init, Pads!PadAssumption
  <1>2. <<>> \in Seq(WireBatches) /\ Len(<<>>) = 0
    OBVIOUS
  <1>3. 0 * BatchSize = 0
    BY <1>1
  <1> QED
    BY <1>1, <1>2, <1>3 DEF Pads!Init, PadInv

LEMMA SendStep ==
  ASSUME Pads!PadAssumption, PadInv, Pads!SendBatch
  PROVE  PadInv'
  <1>0. /\ Width \in Nat /\ Width > 0 /\ BatchSize \in Nat /\ BatchSize > 0
        /\ length \in Nat /\ si \in Nat /\ si < length /\ batches \in Seq(WireBatches)
    BY DEF Pads!PadAssumption, PadInv, Pads!SendBatch
  <1> DEFINE keys == [c \in Pads!Slot |-> IF c < Width * Pads!InBatch(si)
                                       THEN Pads!Row(si + c \div Width, c % Width) ELSE keyBuffer[c]]
             pads == Pads!CCRF(y, keys, Width * BatchSize)
             masked == [c \in Pads!Slot |-> IF c < Width * Pads!InBatch(si)
                                       THEN Pads!Hidden(pads[c], si + c \div Width, c % Width) ELSE pads[c]]
             sent == [c \in 0..(Width * Pads!Sent(si) - 1) |-> masked[c]]
  <1>1. /\ y' = masked /\ batches' = Append(batches, sent) /\ si' = si + BatchSize
        /\ length' = length /\ r' = r /\ pad' = pad /\ ri' = ri /\ received' = received
    BY DEF Pads!SendBatch
  <1>2. PICK b \in Nat : b = Pads!InBatch(si) /\ b <= BatchSize
    BY <1>0, BatchFits
  <1>3. PICK n \in Nat, m \in Nat : n = Width * BatchSize /\ m = Width * b /\ m <= n
    <2>1. PICK e \in Nat : BatchSize = b + e
      <3>1. BatchSize - b \in Nat /\ BatchSize = b + (BatchSize - b)
        BY <1>0, <1>2
      <3> QED
        BY <3>1
    <2>2. Width * BatchSize = Width * b + Width * e /\ Width * e \in Nat /\ Width * b \in Nat
      BY <1>0, <2>1
    <2> QED
      BY <2>2
  <1>4. ASSUME NEW c \in 0..(m - 1)
        PROVE  sent[c] = Pads!Hidden(Pads!Cipher(Pads!Row(si + c \div Width, c % Width), Pads!One),
                                       si + c \div Width, c % Width)
    <2>1. c \in Nat /\ c < n /\ c < m /\ c \in Pads!Slot
      BY <1>0, <1>3 DEF Pads!Slot
    <2>2. c \in DOMAIN y
      BY <2>1 DEF PadInv
    <2>3. Pads!CCRF(y, keys, n)[c] = Pads!Cipher(keys[c], Pads!One)
      <3> HIDE DEF keys
      <3> QED
        BY <2>1, <2>2, Hashed
    <2>4. keys[c] = Pads!Row(si + c \div Width, c % Width)
      BY <1>2, <1>3, <2>1
    <2>5. masked[c] = Pads!Hidden(pads[c], si + c \div Width, c % Width)
      <3> HIDE DEF pads
      <3> QED
        BY <1>2, <1>3, <2>1
    <2>6. sent[c] = masked[c]
      <3> HIDE DEF masked
      <3> QED
        BY <1>2, <1>3, <2>1 DEF Pads!Sent
    <2> HIDE DEF keys, masked, sent
    <2> QED
      BY <1>3, <2>3, <2>4, <2>5, <2>6
  <1>5. sent = Masked(si)
    <2>1. sent = [c \in 0..(m - 1) |-> sent[c]]
      <3> HIDE DEF masked
      <3> QED
        BY <1>2, <1>3 DEF Pads!Sent
    <2>2. Masked(si) = [c \in 0..(m - 1) |->
                          Pads!Hidden(Pads!Cipher(Pads!Row(si + c \div Width, c % Width), Pads!One),
                                      si + c \div Width, c % Width)]
      BY <1>2, <1>3 DEF Masked
    <2> HIDE DEF sent
    <2> QED
      BY <1>4, <2>1, <2>2, Zenon
  <1>6. Masked(si) \in WireBatches
    BY <1>0 DEF WireBatches
  <1>7. PICK len \in Nat : len = Len(batches)
    BY <1>0
  <1> HIDE DEF sent, masked
  <1>8. /\ batches' \in Seq(WireBatches) /\ Len(batches') = len + 1
        /\ \A x \in 1..len : batches'[x] = batches[x]
        /\ batches'[len + 1] = Masked(si)
    <2> HIDE DEF WireBatches, Masked
    <2> QED
      BY <1>0, <1>1, <1>5, <1>6, <1>7, AppendProperties
  <1>9. PICK p \in Nat : p = len * BatchSize
    BY <1>0
  <1>10. si = ri + p /\ ri \in Nat
    BY <1>7, <1>9 DEF PadInv
  <1>11. si + BatchSize = ri + (len + 1) * BatchSize
    <2>1. (len + 1) * BatchSize = p + BatchSize
      BY <1>0, <1>9
    <2> QED
      BY <1>0, <1>10, <2>1
  <1>12. ASSUME NEW x \in 1..(len + 1)
         PROVE  batches'[x] = Masked(ri + (x - 1) * BatchSize)
    <2>1. CASE x = len + 1
      <3>1. x - 1 = len
        BY <2>1
      <3> QED
        BY <1>8, <1>9, <1>10, <2>1, <3>1
    <2>2. CASE x # len + 1
      <3>1. x \in 1..len
        BY <2>2
      <3> QED
        BY <1>7, <1>8, <3>1 DEF PadInv
    <2> QED
      BY <2>1, <2>2
  <1>13. WireBatches' = WireBatches
    BY <1>1 DEF WireBatches, Masked, Pads!InBatch
  <1>14. DOMAIN y' = Pads!Slot
    BY <1>1 DEF masked
  <1>15. PadInv'
    <2>1. /\ length' \in Nat /\ r' \in [0..(length' - 1) -> Pads!Choice] /\ DOMAIN y' = Pads!Slot
          /\ DOMAIN pad' = 0..(BatchSize - 1) /\ DOMAIN received' = 0..(length' - 1)
          /\ \A j \in 0..(length' - 1) : j < ri' => received'[j] = <<j, r'[j]>>
      BY <1>1, <1>14 DEF PadInv
    <2>2. si' \in Nat /\ ri' \in Nat
      BY <1>0, <1>1 DEF PadInv
    <2>3. batches' \in Seq(WireBatches') /\ si' = ri' + Len(batches') * BatchSize
      BY <1>1, <1>8, <1>11, <1>13
    <2>4. \A x \in 1..Len(batches') : batches'[x] = Masked(ri + (x - 1) * BatchSize)'
      <3>1. ASSUME NEW x \in 1..Len(batches')
            PROVE  batches'[x] = Masked(ri + (x - 1) * BatchSize)'
        <4>1. PICK first : first = ri + (x - 1) * BatchSize /\ batches'[x] = Masked(first)
          BY <1>8, <1>12, <3>1
        <4>2. first = ri' + (x - 1) * BatchSize
          BY <1>1, <4>1
        <4> QED
          BY <1>1, <4>1, <4>2 DEF Masked, Pads!InBatch
      <3> QED
        BY <3>1
    <2> QED
      BY <2>1, <2>2, <2>3, <2>4 DEF PadInv
  <1> QED
    BY <1>15

LEMMA RecvStep ==
  ASSUME Pads!PadAssumption, PadInv, Pads!RecvBatch
  PROVE  PadInv'
  <1>0. /\ Width \in Nat /\ Width > 0 /\ BatchSize \in Nat /\ BatchSize > 0
        /\ length \in Nat /\ ri \in Nat /\ ri < length /\ batches \in Seq(WireBatches) /\ batches # <<>>
        /\ r \in [0..(length - 1) -> Pads!Choice]
    BY DEF Pads!PadAssumption, PadInv, Pads!RecvBatch
  <1> DEFINE held == [c \in 0..(BatchSize - 1) |->
                        IF ri + c < length THEN Pads!Row(ri + c, r[ri + c]) ELSE Pads!Unset]
             pads == Pads!CCRF(pad, held, Pads!InBatch(ri))
             got(j) == Pads!Opened(Head(batches)[Width * (j - ri) + r[j]], pads[j - ri])
  <1>1. /\ pad' = pads /\ batches' = Tail(batches) /\ ri' = ri + BatchSize
        /\ received' = [j \in DOMAIN received |->
                        IF j \in ri..(ri + Pads!InBatch(ri) - 1) THEN got(j) ELSE received[j]]
        /\ length' = length /\ r' = r /\ y' = y /\ si' = si
    BY DEF Pads!RecvBatch
  <1>2. PICK b \in Nat : /\ b = Pads!InBatch(ri) /\ b <= BatchSize /\ ri + b <= length
                         /\ \A j \in Nat : j < length /\ j < ri + BatchSize => j < ri + b
    <2>1. /\ Pads!InBatch(ri) \in 1..BatchSize /\ ri + Pads!InBatch(ri) <= length
          /\ \A j \in Nat : j < length /\ j < ri + BatchSize => j < ri + Pads!InBatch(ri)
      BY <1>0, BatchFits, Zenon
    <2> QED
      BY <1>0, <2>1
  <1>3. Head(batches) = Masked(ri)
    <2>1. batches[1] = Masked(ri + (1 - 1) * BatchSize) /\ Len(batches) \in Nat
      <3>1. 1 \in 1..Len(batches)
        BY <1>0
      <3> QED
        BY <1>0, <3>1 DEF PadInv
    <2>2. ri + (1 - 1) * BatchSize = ri
      BY <1>0
    <2> HIDE DEF WireBatches, Masked
    <2> QED
      BY <1>0, <2>1, <2>2
  <1>4. ASSUME NEW j \in ri..(ri + b - 1)
        PROVE  got(j) = <<j, r[j]>>
    <2>1. PICK d \in Nat : /\ d = j - ri /\ j = ri + d /\ d < b /\ d < BatchSize /\ j < length
                           /\ j \in Nat
      BY <1>0, <1>2
    <2>2. PICK k \in Pads!Choice : k = r[j]
      BY <1>0, <2>1
    <2>3. PICK e \in 0..(Width * b - 1) : e = Width * d + k /\ e \div Width = d /\ e % Width = k
      BY <2>1, Place
    <2>4. Head(batches)[e] = Pads!Hidden(Pads!Cipher(Pads!Row(j, k), Pads!One), j, k)
      <3>1. Head(batches)[e] = Pads!Hidden(Pads!Cipher(Pads!Row(ri + e \div Width, e % Width), Pads!One),
                                         ri + e \div Width, e % Width)
        BY <1>2, <1>3 DEF Masked
      <3>2. ri + e \div Width = j
        BY <2>1, <2>3
      <3> QED
        BY <2>3, <3>1, <3>2
    <2>5. pads[d] = Pads!Cipher(Pads!Row(j, k), Pads!One)
      <3>1. d \in DOMAIN pad
        BY <1>0, <2>1 DEF PadInv
      <3>2. Pads!CCRF(pad, held, b)[d] = Pads!Cipher(held[d], Pads!One)
        <4> HIDE DEF held
        <4> QED
          BY <2>1, <3>1, Hashed
      <3>3. held[d] = Pads!Row(j, k)
        BY <1>0, <2>1, <2>2
      <3> HIDE DEF held
      <3> QED
        BY <1>2, <3>2, <3>3
    <2> HIDE DEF pads
    <2>6. got(j) = Pads!Opened(Pads!Hidden(Pads!Cipher(Pads!Row(j, k), Pads!One), j, k),
                                Pads!Cipher(Pads!Row(j, k), Pads!One))
      BY <2>1, <2>2, <2>3, <2>4, <2>5
    <2>7. Pads!Opened(Pads!Hidden(Pads!Cipher(Pads!Row(j, k), Pads!One), j, k),
                      Pads!Cipher(Pads!Row(j, k), Pads!One)) = <<j, k>>
      BY DEF Pads!Opened, Pads!Hidden
    <2> HIDE DEF got
    <2> QED
      BY <2>2, <2>6, <2>7
  <1> HIDE DEF got, pads
  <1>5. ASSUME NEW j \in 0..(length - 1), j < ri + BatchSize
        PROVE  received'[j] = <<j, r[j]>>
    <2>0. j \in DOMAIN received
      BY DEF PadInv
    <2>1. CASE j < ri
      <3>1. j \notin ri..(ri + b - 1)
        BY <1>0, <2>1
      <3> QED
        BY <1>1, <1>2, <2>0, <2>1, <3>1 DEF PadInv
    <2>2. CASE ~(j < ri)
      <3>1. j \in ri..(ri + b - 1)
        BY <1>0, <1>2, <1>5, <2>2
      <3>2. received'[j] = got(j)
        BY <1>1, <1>2, <2>0, <3>1
      <3> QED
        BY <1>4, <3>1, <3>2
    <2> QED
      BY <2>1, <2>2
  <1>6. PICK len \in Nat : len + 1 = Len(batches)
    <2>1. Len(batches) \in Nat /\ Len(batches) > 0
      <3> HIDE DEF WireBatches
      <3> QED
        BY <1>0, EmptySeq
    <2>2. Len(batches) - 1 \in Nat /\ Len(batches) - 1 + 1 = Len(batches)
      BY <2>1
    <2> QED
      BY <2>2
  <1>7. /\ batches' \in Seq(WireBatches) /\ Len(batches') = len
        /\ \A x \in 1..len : batches'[x] = batches[x + 1]
    <2>1. /\ batches' \in Seq(WireBatches) /\ Len(batches') = Len(batches) - 1
          /\ \A x \in 1..Len(batches') : batches'[x] = batches[x + 1]
      <3> HIDE DEF WireBatches
      <3> QED
        BY <1>0, <1>1, HeadTailProperties
    <2> QED
      BY <1>6, <2>1
  <1>8. PICK p \in Nat : p = len * BatchSize
    BY <1>0
  <1>9. (len + 1) * BatchSize = p + BatchSize
    BY <1>0, <1>8
  <1>10. si \in Nat /\ si = ri + BatchSize + p
    <2>1. si \in Nat /\ si = ri + Len(batches) * BatchSize
      BY DEF PadInv
    <2>2. si = ri + (len + 1) * BatchSize
      BY <1>6, <2>1
    <2> QED
      BY <1>0, <1>9, <2>1, <2>2
  <1>11. ASSUME NEW x \in 1..len
         PROVE  batches'[x] = Masked(ri + BatchSize + (x - 1) * BatchSize)
    <2>1. x + 1 \in 1..Len(batches) /\ x + 1 - 1 = x
      BY <1>6
    <2>2. batches[x + 1] = Masked(ri + x * BatchSize)
      BY <2>1 DEF PadInv
    <2>3. PICK w \in Nat : x = w + 1 /\ x - 1 = w
      OBVIOUS
    <2>4. ri + x * BatchSize = ri + BatchSize + (x - 1) * BatchSize
      <3>1. PICK o \in Nat : o = w * BatchSize
        BY <1>0
      <3>2. (w + 1) * BatchSize = o + BatchSize
        BY <1>0, <3>1
      <3> QED
        BY <1>0, <2>3, <3>1, <3>2
    <2> QED
      BY <1>7, <2>2, <2>4
  <1>12. WireBatches' = WireBatches
    BY <1>1 DEF WireBatches, Masked, Pads!InBatch
  <1>13. DOMAIN received' = DOMAIN received /\ DOMAIN pad' = DOMAIN pad
    BY <1>1 DEF pads, Pads!CCRF
  <1>14. PadInv'
    <2>1. /\ length' \in Nat /\ r' \in [0..(length' - 1) -> Pads!Choice] /\ DOMAIN y' = Pads!Slot
          /\ DOMAIN pad' = 0..(BatchSize - 1) /\ DOMAIN received' = 0..(length' - 1)
          /\ si' \in Nat /\ ri' \in Nat
      BY <1>0, <1>1, <1>13 DEF PadInv
    <2>2. \A j \in 0..(length' - 1) : j < ri' => received'[j] = <<j, r'[j]>>
      BY <1>1, <1>5
    <2>3. batches' \in Seq(WireBatches') /\ si' = ri' + Len(batches') * BatchSize
      BY <1>0, <1>1, <1>7, <1>8, <1>10, <1>12
    <2>4. \A x \in 1..Len(batches') : batches'[x] = Masked(ri + (x - 1) * BatchSize)'
      <3>1. ASSUME NEW x \in 1..Len(batches')
            PROVE  batches'[x] = Masked(ri + (x - 1) * BatchSize)'
        <4>1. PICK first : first = ri + BatchSize + (x - 1) * BatchSize /\ batches'[x] = Masked(first)
          BY <1>7, <1>11, <3>1
        <4>2. first = ri' + (x - 1) * BatchSize
          BY <1>1, <4>1
        <4> QED
          BY <1>1, <4>1, <4>2 DEF Masked, Pads!InBatch
      <3> QED
        BY <3>1
    <2> QED
      BY <2>1, <2>2, <2>3, <2>4 DEF PadInv
  <1> QED
    BY <1>14

LEMMA PadInductive ==
  ASSUME Pads!PadAssumption
  PROVE  Pads!Spec => []PadInv
  <1>1. Pads!Init => PadInv
    BY PadStarts
  <1>2. PadInv /\ [Pads!Next]_(Pads!vars) => PadInv'
    <2>1. PadInv /\ UNCHANGED Pads!vars => PadInv'
      BY DEF PadInv, Pads!vars, WireBatches, Masked, Pads!InBatch
    <2> QED
      BY <2>1, SendStep, RecvStep DEF Pads!Next
  <1> QED
    BY <1>1, <1>2, PTL DEF Pads!Spec

------------------------------------------------------------------------------
\* The receiver opens the message it chose of every OT, at every length, batch,
\* number of messages and number of keys that CCRF schedules at once: a row gets
\* the same pad in a full group and after the last (ccrf.h:40, 52).
THEOREM DeliversChosen ==
  ASSUME Pads!PadAssumption
  PROVE  Pads!Spec => []Pads!ChosenDelivered
  <1>1. PadInv => Pads!ChosenDelivered
    BY DEF PadInv, Pads!ChosenDelivered
  <1> QED
    BY <1>1, PadInductive, PTL

\* What the sender puts on the wire is hidden by the pad of its own row and
\* choice, however much of the buffers the batch before had filled
\* (kkot.h:185).
THEOREM MasksAreOwn ==
  ASSUME Pads!PadAssumption
  PROVE  Pads!Spec => []Pads!OwnMask
  <1>1. ASSUME PadInv
        PROVE  Pads!OwnMask
    <2>1. ASSUME NEW b \in DOMAIN batches, NEW c \in DOMAIN batches[b]
          PROVE  /\ "message" \in DOMAIN batches[b][c]
                 /\ batches[b][c].mask = Pads!Cipher(batches[b][c].message, Pads!One)
      <3>1. b \in 1..Len(batches)
        <4>1. batches \in Seq(WireBatches)
          BY <1>1 DEF PadInv
        <4> HIDE DEF WireBatches
        <4> QED
          BY <4>1
      <3>2. batches[b] = Masked(ri + (b - 1) * BatchSize)
        BY <1>1, <3>1 DEF PadInv
      <3>3. PICK first : batches[b] = Masked(first)
        BY <3>2
      <3>4. c \in DOMAIN Masked(first) /\ batches[b][c] = Masked(first)[c]
        BY <3>3
      <3>5. PICK j, k : batches[b][c] = Pads!Hidden(Pads!Cipher(Pads!Row(j, k), Pads!One), j, k)
        BY <3>4 DEF Masked
      <3>6. batches[b][c] = [mask |-> Pads!Cipher(<<j, k>>, Pads!One), message |-> <<j, k>>]
        BY <3>5 DEF Pads!Hidden, Pads!Row
      <3> HIDE DEF Pads!Cipher
      <3> QED
        BY <3>6
    <2> QED
      BY <2>1 DEF Pads!OwnMask
  <1> QED
    BY <1>1, PadInductive, PTL
==============================================================================
