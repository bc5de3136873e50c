------------------------------ MODULE IdealCOT ------------------------------
(***************************************************************************)
(* What a batch of correlated OTs promises (OTIdeal::send_cot_matmul and   *)
(* recv_cot_matmul, ideal.h): of each OT the sender gets random values and *)
(* the receiver the same values, or the values plus the correlation, as    *)
(* its choice says, and OT after OT in order.                              *)
(***************************************************************************)
EXTENDS Words, Sequences

CONSTANT W  \* bits of a word

VARIABLES
  shape,   \* shape[i]: chunkSize and numChunks of OT i
  corr,    \* corr[i][k]: the correlation of chunk k of OT i
  choices, \* the receiver's choice of each OT
  rdata,   \* the sender's values of the OTs so far
  data     \* and the receiver's

vars == <<shape, corr, choices, rdata, data>>

\* recv_arr[j].
Correlated(i, k) ==
  IF choices[i] = 0 THEN rdata[i][k]
  ELSE Low(AddWord(W, rdata[i][k], corr[i][k]), shape[i].size)

Values(i) == {v \in Word(W) : v = Low(v, shape[i].size)}

Init == rdata = <<>> /\ data = <<>>

\* The sender's values of the next OT.
Draw ==
  LET i == Len(rdata) + 1
  IN  /\ i \in DOMAIN shape
      /\ Len(rdata') = i /\ rdata' = Append(rdata, rdata'[i])
      /\ rdata'[i] \in [1..shape[i].chunks -> Values(i)]
      /\ UNCHANGED <<shape, corr, choices, data>>

\* The receiver's values of the next OTs whose values the sender has.
Deliver ==
  /\ \E m \in (Len(data) + 1)..Len(rdata) :
       data' = data \o [j \in 1..(m - Len(data)) |->
         [k \in 1..shape[Len(data) + j].chunks |-> Correlated(Len(data) + j, k)]]
  /\ UNCHANGED <<shape, corr, choices, rdata>>

Next == Draw \/ Deliver
Spec == Init /\ [][Next]_vars
=============================================================================
