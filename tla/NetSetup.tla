------------------------------ MODULE NetSetup ------------------------------
(***************************************************************************)
(* From two processes to seeded OT instances: IOPack opens the three       *)
(* channels of NetIO, OTPack::SetupBaseOTs runs a Naor-Pinkas base OT      *)
(* (OTNP) for every instance, one pack's seeds are copied to a second, and *)
(* the parties synchronise on the last channel.                            *)
(*                                                                         *)
(* A group element is its discrete logarithm modulo Order: mul_gen is the  *)
(* identity, Point::mul a product, add a sum.  KDF is a key that opens     *)
(* what it masks.  A byte count is one message.                            *)
(***************************************************************************)
EXTENDS Integers, Sequences

CONSTANTS
  KKOT_TYPES,   \* KKOT instances of a pack (8)
  Lambda,       \* base OTs of one set-up (256 for KKOT, 128 for IKNP)
  Order,        \* order of the group
  Exponents,    \* the random exponents that may be drawn
  BufferSize    \* NETWORK_BUFFER_SIZE, in messages

ALICE == "ALICE"  \* party 1, the server
BOB == "BOB"      \* party 2, the client
Party == {ALICE, BOB}
Peer(p) == IF p = ALICE THEN BOB ELSE ALICE

SetupAssumption ==
  /\ KKOT_TYPES \in Nat \ {0} /\ Lambda \in Nat \ {0}
  /\ Order \in Nat \ {0} /\ Exponents \subseteq 0..(Order - 1)
  /\ Exponents # {} /\ BufferSize \in Nat \ {0}

\* The channels in the order IOPack constructs them, and their buffering.
Channels == <<"io", "io_rev", "io_GC">>
Channel == {"io", "io_rev", "io_GC"}
FullBuffer(c) == c = "io_GC"

\* The OT instances of a pack.
Straight == <<"iknp", 0>>
Reversed == <<"iknp", 1>>
Kkot(i) == <<"kkot", i>>
Instance == {Straight, Reversed} \cup {Kkot(i) : i \in 0..(KKOT_TYPES - 1)}

\* The channel an instance is built on and its sender, who gets one key of
\* each pair, so receives in the base OT.
ChannelOf(ot) == IF ot = Reversed THEN "io_rev" ELSE "io"
SenderOf(ot) == IF ot = Reversed THEN BOB ELSE ALICE

\* SetupBaseOTs: party 1's order and party 2's.
KkotsFrom(i) == [j \in 1..(KKOT_TYPES - i) |-> Kkot(i + j - 1)]
SetUpsSwapped(p) ==
  IF p = ALICE THEN <<Kkot(0), Straight, Reversed>> \o KkotsFrom(1)
  ELSE <<Straight, Kkot(0), Reversed>> \o KkotsFrom(1)
SetUps(p) ==
  IF p = ALICE THEN <<Kkot(0), Straight, Reversed>> \o KkotsFrom(1)
  ELSE <<Kkot(0), Straight, Reversed>> \o KkotsFrom(1)

Index == 1..Lambda
None == [role |-> "none"]
Garbage == <<>>

VARIABLES
  listening,  \* the port party 1 listens on, a channel or "none"
  backlog,    \* the channel whose connection waits to be accepted, or "none"
  opened,     \* how many channels each party has constructed
  stream,     \* stream[p][c]: the FILE and the counters of a NetIO
  inbox,      \* inbox[p][c]: what is under way to p
  reading,    \* whether a party is in recv_data, past its flush
  job,        \* the set-up each party is in
  phase, i,   \* the step of its base OT, and the loop variable
  own,        \* what it has drawn and received in this base OT
  seeds,      \* seeds[p][k][ot]: the keys of instance ot of pack k
  facing,     \* history: the direction of a party's last transfer
  turns       \* history: how often it changed, over all channels

netVars == <<stream, inbox, reading, facing, turns>>
connVars == <<listening, backlog, opened>>
otVars == <<job, phase, i, own, seeds>>
vars == <<connVars, netVars, otVars>>

------------------------------------------------------------------------------
(* NetIO.                                                                  *)

NewStream == [out |-> <<>>, has_sent |-> FALSE, last_call |-> "None",
              num_rounds |-> 0]

Rounds(s, call) == s.num_rounds + (IF s.last_call # call THEN 1 ELSE 0)
Turn(p, call) ==
  /\ facing' = [facing EXCEPT ![p] = call]
  /\ turns' = [turns EXCEPT ![p] = @ + (IF facing[p] # call THEN 1 ELSE 0)]

\* send_data, followed by flush() if asked: a full stdio buffer is written
\* out, and without buffering everything is.
Send(p, c, msgs, flush) ==
  LET s == stream[p][c]
      out == s.out \o msgs
      keep == FullBuffer(c) /\ ~flush /\ Len(out) <= BufferSize
  IN  /\ stream' = [stream EXCEPT ![p][c] =
           [out |-> IF keep THEN out ELSE <<>>, has_sent |-> TRUE,
            last_call |-> "Send", num_rounds |-> Rounds(s, "Send")]]
      /\ inbox' = [inbox EXCEPT ![Peer(p)][c] =
                     IF keep THEN @ ELSE @ \o out]
      /\ Turn(p, "Send")
      /\ UNCHANGED reading

\* recv_data up to its fread: the counters, and the flush that lets the peer
\* answer.
FlushesBeforeRecv(s) == s.has_sent
EnterRecv(p, c) ==
  LET s == stream[p][c]
      flush == FlushesBeforeRecv(s)
  IN  /\ ~reading[p]
      /\ reading' = [reading EXCEPT ![p] = TRUE]
      /\ stream' = [stream EXCEPT ![p][c] =
           [out |-> IF flush THEN <<>> ELSE s.out, has_sent |-> FALSE,
            last_call |-> "Recv", num_rounds |-> Rounds(s, "Recv")]]
      /\ inbox' = [inbox EXCEPT ![Peer(p)][c] =
                     IF flush THEN @ \o s.out ELSE @]
      /\ Turn(p, "Recv")

\* Its fread, which blocks until the data is there.
Arrived(p, c) == reading[p] /\ inbox[p][c] # <<>>
Read(p, c) == inbox[p][c][1].v
EndRecv(p, c) ==
  /\ reading' = [reading EXCEPT ![p] = FALSE]
  /\ inbox' = [inbox EXCEPT ![p][c] = Tail(@)]
  /\ UNCHANGED <<stream, facing, turns>>

------------------------------------------------------------------------------
(* IOPack: the server opens, accepts and closes one port after the other,  *)
(* the client retries until the port it wants is open.                     *)

Connected(p) == opened[p] = Len(Channels)
NextChannel(p) == Channels[opened[p] + 1]

Listen ==
  /\ ~Connected(ALICE) /\ listening = "none"
  /\ listening' = NextChannel(ALICE)
  /\ UNCHANGED <<backlog, opened, netVars, otVars>>

Connect ==
  /\ ~Connected(BOB) /\ listening = NextChannel(BOB) /\ backlog = "none"
  /\ backlog' = listening
  /\ opened' = [opened EXCEPT ![BOB] = @ + 1]
  /\ UNCHANGED <<listening, netVars, otVars>>

Accept ==
  /\ listening # "none" /\ backlog = listening
  /\ listening' = "none" /\ backlog' = "none"
  /\ opened' = [opened EXCEPT ![ALICE] = @ + 1]
  /\ UNCHANGED <<netVars, otVars>>

------------------------------------------------------------------------------
(* OTNP: send_impl and recv_impl, a step for each message.                 *)

InSetUp(p) == Connected(p) /\ job[p] <= Len(SetUps(p))
Ot(p) == SetUps(p)[job[p]]
Chan(p) == ChannelOf(Ot(p))
IsBaseSender(p) == p # SenderOf(Ot(p))
At(p, place) == InSetUp(p) /\ phase[p] = place
AsSender(p, place) == At(p, place) /\ IsBaseSender(p)
AsReceiver(p, place) == At(p, place) /\ ~IsBaseSender(p)

\* The random blocks of setup_recv, named by what they are.
Key(ot, n, b) == <<ot, n, b>>

Goto(p, place) == phase' = [phase EXCEPT ![p] = place] /\ i' = [i EXCEPT ![p] = 1]
\* The end of one iteration of a loop over the base OTs.
LoopOr(p, place) ==
  IF i[p] < Lambda
  THEN i' = [i EXCEPT ![p] = @ + 1] /\ UNCHANGED phase
  ELSE Goto(p, place)

\* Where in its set-ups a party is; history that travels with a message.
Place(p) == <<Ot(p), phase[p], i[p]>>
Item(p, v) == <<[at |-> Place(p), v |-> v]>>

\* Receiving is in two steps; the first is the same for every receive.
Receives(p) ==
  InSetUp(p) /\ phase[p] \in (IF IsBaseSender(p) THEN {"pk"} ELSE {"C", "gr", "m"})
BeginReceive(p) ==
  /\ Receives(p) /\ EnterRecv(p, Chan(p))
  /\ UNCHANGED <<connVars, otVars>>

\* setup_send draws the choice bits s, setup_recv the keys; both draw their
\* exponents before the first message.
SendC(p) ==
  /\ AsSender(p, "C")
  /\ \E d \in Exponents, r \in [Index -> Exponents] :
       /\ own' = [own EXCEPT ![p] =
            [role |-> "send", d |-> d, r |-> r, pk |-> [n \in Index |-> 0]]]
       /\ Send(p, Chan(p), Item(p, d), TRUE)
  /\ Goto(p, "pk")
  /\ UNCHANGED <<connVars, job, seeds>>

RecvC(p) ==
  /\ AsReceiver(p, "C") /\ Arrived(p, Chan(p))
  /\ \E k \in [Index -> Exponents], s \in [Index -> {0, 1}] :
       own' = [own EXCEPT ![p] =
         [role |-> "recv", C |-> Read(p, Chan(p)), k |-> k, s |-> s,
          gr |-> [n \in Index |-> 0], data |-> [n \in Index |-> Garbage]]]
  /\ EndRecv(p, Chan(p))
  /\ Goto(p, "pk")
  /\ UNCHANGED <<connVars, job, seeds>>

PublicKeyAlways(C, k, b) == k
PublicKey(C, k, b) == IF b = 1 THEN (C - k) % Order ELSE k
SendPk(p) ==
  LET o == own[p] IN
  /\ AsReceiver(p, "pk")
  /\ Send(p, Chan(p), Item(p, PublicKey(o.C, o.k[i[p]], o.s[i[p]])), FALSE)
  /\ LoopOr(p, "gr")
  /\ UNCHANGED <<connVars, job, own, seeds>>

RecvPk(p) ==
  /\ AsSender(p, "pk") /\ Arrived(p, Chan(p))
  /\ own' = [own EXCEPT ![p].pk[i[p]] = Read(p, Chan(p))]
  /\ EndRecv(p, Chan(p))
  /\ LoopOr(p, "gr")
  /\ UNCHANGED <<connVars, job, seeds>>

\* All gr in a loop, flushed after the last.
SendGr(p) ==
  /\ AsSender(p, "gr")
  /\ Send(p, Chan(p), Item(p, own[p].r[i[p]]), i[p] = Lambda)
  /\ LoopOr(p, "m")
  /\ UNCHANGED <<connVars, job, own, seeds>>

RecvGr(p) ==
  /\ AsReceiver(p, "gr") /\ Arrived(p, Chan(p))
  /\ own' = [own EXCEPT ![p].gr[i[p]] = (Read(p, Chan(p)) * own[p].k[i[p]]) % Order]
  /\ EndRecv(p, Chan(p))
  /\ LoopOr(p, "m")
  /\ UNCHANGED <<connVars, job, seeds>>

NextSetUp(p) == job' = [job EXCEPT ![p] = @ + 1] /\ Goto(p, "C")

Seeded(p, ot, s) == seeds' = [seeds EXCEPT ![p][1][ot] = s]

\* The two masked keys; the last ends the set-up of setup_recv.  No flush
\* follows.
SendM(p) ==
  LET o == own[p]
      key0 == (o.pk[i[p]] * o.r[i[p]]) % Order
      key1 == (o.r[i[p]] * o.d - key0) % Order
  IN  /\ AsSender(p, "m")
      /\ Send(p, Chan(p),
              Item(p, <<[kdf |-> key0, block |-> Key(Ot(p), i[p], 0)],
                        [kdf |-> key1, block |-> Key(Ot(p), i[p], 1)]>>), FALSE)
      /\ IF i[p] < Lambda
         THEN LoopOr(p, "C") /\ UNCHANGED <<job, seeds>>
         ELSE /\ NextSetUp(p)
              /\ Seeded(p, Ot(p),
                   [k0 |-> [n \in Index |-> Key(Ot(p), n, 0)],
                    k1 |-> [n \in Index |-> Key(Ot(p), n, 1)]])
      /\ UNCHANGED <<connVars, own>>

Unmask(m, key) == IF m.kdf = key THEN m.block ELSE Garbage
RecvM(p) ==
  LET o == own[p]
      n == i[p]
      block == Unmask(Read(p, Chan(p))[o.s[n] + 1], o.gr[n])
      data == [o.data EXCEPT ![n] = block]
  IN  /\ AsReceiver(p, "m") /\ Arrived(p, Chan(p))
      /\ EndRecv(p, Chan(p))
      /\ IF n < Lambda
         THEN LoopOr(p, "C") /\ own' = [own EXCEPT ![p].data = data]
                /\ UNCHANGED <<job, seeds>>
         ELSE /\ NextSetUp(p) /\ own' = [own EXCEPT ![p] = None]
              /\ Seeded(p, Ot(p), [k0 |-> data, s |-> o.s])
      /\ UNCHANGED connVars

------------------------------------------------------------------------------
(* OTPack::copy into a second pack, and NetIO::sync on io_GC.              *)

SetUpDone(p) == Connected(p) /\ job[p] = Len(SetUps(p)) + 1 /\ phase[p] = "C"

\* The instance of the first pack whose seeds an instance of the copy takes.
BaseOf(p, ot) == IF ot[1] = "kkot" THEN Kkot(0) ELSE ot
Copy(p) ==
  /\ SetUpDone(p)
  /\ phase' = [phase EXCEPT ![p] = "sync"]
  /\ seeds' = [seeds EXCEPT ![p][2] =
       [ot \in Instance |-> seeds[p][1][BaseOf(p, ot)]]]
  /\ UNCHANGED <<connVars, netVars, job, i, own>>

\* The server sends first, the client receives first.
SyncSends(p) == phase[p] = (IF p = ALICE THEN "sync" ELSE "synced1")
SyncReceives(p) == phase[p] = (IF p = ALICE THEN "synced1" ELSE "sync")
Synced(p) == IF phase[p] = "sync" THEN "synced1" ELSE "synced"

SyncSend(p) ==
  /\ SyncSends(p)
  /\ Send(p, "io_GC", <<[v |-> 0]>>, p = BOB)
  /\ Goto(p, Synced(p))
  /\ UNCHANGED <<connVars, job, own, seeds>>

SyncEnter(p) ==
  /\ SyncReceives(p) /\ EnterRecv(p, "io_GC")
  /\ UNCHANGED <<connVars, otVars>>

SyncRecv(p) ==
  /\ SyncReceives(p) /\ Arrived(p, "io_GC")
  /\ EndRecv(p, "io_GC")
  /\ Goto(p, Synced(p))
  /\ UNCHANGED <<connVars, job, own, seeds>>

------------------------------------------------------------------------------
Init ==
  /\ listening = "none" /\ backlog = "none"
  /\ opened = [p \in Party |-> 0]
  /\ stream = [p \in Party |-> [c \in Channel |-> NewStream]]
  /\ inbox = [p \in Party |-> [c \in Channel |-> <<>>]]
  /\ reading = [p \in Party |-> FALSE]
  /\ job = [p \in Party |-> 1]
  /\ phase = [p \in Party |-> "C"] /\ i = [p \in Party |-> 1]
  /\ own = [p \in Party |-> None]
  /\ seeds = [p \in Party |-> [k \in 1..2 |-> [ot \in Instance |-> None]]]
  /\ facing = [p \in Party |-> "None"] /\ turns = [p \in Party |-> 0]

Connecting(p) == IF p = ALICE THEN Listen \/ Accept ELSE Connect
BaseOT(p) ==
  \/ BeginReceive(p) \/ SendC(p) \/ RecvC(p) \/ SendPk(p) \/ RecvPk(p)
  \/ SendGr(p) \/ RecvGr(p) \/ SendM(p) \/ RecvM(p)
Sync(p) == SyncSend(p) \/ SyncEnter(p) \/ SyncRecv(p)
Step(p) == Connecting(p) \/ BaseOT(p) \/ Copy(p) \/ Sync(p)

Next == \E p \in Party : Step(p)

Spec == Init /\ [][Next]_vars
\* Each party is a thread that runs unless it waits for a connection or data.
FairSpec == Spec /\ \A p \in Party : WF_vars(Step(p))

------------------------------------------------------------------------------
(* Properties.                                                             *)

Phase == {"C", "pk", "gr", "m", "sync", "synced1", "synced"}

\* Every variable has the type of what it models; a stream without a full
\* buffer holds nothing back.
TypeOK ==
  /\ listening \in Channel \cup {"none"} /\ backlog \in {"none", listening}
  /\ opened \in [Party -> 0..Len(Channels)]
  /\ reading \in [Party -> BOOLEAN]
  /\ phase \in [Party -> Phase] /\ i \in [Party -> Index]
  /\ \A p \in Party :
       /\ job[p] \in 1..(Len(SetUps(p)) + 1)
       /\ \A c \in Channel :
            /\ stream[p][c].has_sent \in BOOLEAN
            /\ Len(stream[p][c].out) <= (IF FullBuffer(c) THEN BufferSize ELSE 0)

\* What a party reads next is what its place in its set-ups asks for, the
\* same instance and the same step of its base OT, although no message says
\* what it is; when both have synchronised nothing is left unread.
ReadsInStep ==
  \A p \in Party :
    /\ Receives(p) /\ inbox[p][Chan(p)] # <<>> =>
         inbox[p][Chan(p)][1].at = Place(p)
    /\ (\A r \in Party : phase[r] = "synced") =>
         \A c \in Channel : inbox[p][c] = <<>>

\* Whenever both ends of an OT instance are seeded, in the pack that ran the
\* base OTs and in its copy, the sender holds of each pair of the receiver's
\* keys the one its bit of s names (OTNP's exponents agree, and copy pairs
\* the right instances).
SeedsMatch ==
  \A k \in 1..2 : \A ot \in Instance :
    LET snd == seeds[SenderOf(ot)][k][ot]
        rcv == seeds[Peer(SenderOf(ot))][k][ot]
    IN  snd # None /\ rcv # None =>
          \A n \in Index : snd.k0[n] = (IF snd.s[n] = 1 THEN rcv.k1 ELSE rcv.k0)[n]

\* sync is a barrier: a party that has left it knows that the other has
\* reached it, with all its instances of both packs seeded.
Barrier ==
  \A p \in Party : phase[p] = "synced" =>
    /\ phase[Peer(p)] \in {"sync", "synced1", "synced"}
    /\ \A k \in 1..2 : \A ot \in Instance : seeds[Peer(p)][k][ot] # None

\* The set-up ends for both parties, whichever is started first.
Termination == <>(\A p \in Party : phase[p] = "synced")

\* What io_pack.h says of get_rounds: io_rev need not be counted, as it is
\* only used in parallel with io.  Then a party that runs alone never makes
\* more turns than get_rounds returns.
RoundsCounted ==
  \A p \in Party :
    stream[p]["io"].num_rounds + stream[p]["io_GC"].num_rounds >= turns[p]
=============================================================================
