--------------------------- MODULE ExConvChecker ---------------------------
(***************************************************************************)
(* The minimum distance finder of ExConvCheckerTest.cpp for one pair of    *)
(* weights: threads that each take every nt-th trial, count their progress *)
(* in an atomic counter and merge their minimum under a mutex, and a main  *)
(* thread that polls the counter until it has reached ticks and joins.     *)
(*                                                                         *)
(* A code is the set of the columns in which each row of its generator     *)
(* matrix is 1; what dualEncode makes of a unit vector is module ExConv.   *)
(***************************************************************************)
EXTENDS Integers, FiniteSets, FiniteSetsExt

CONSTANTS
  Commands,    \* what the command line asks for: k, nt, trials, x2
  BatchSize,   \* 1024: unit vectors encoded at once
  ByteW,       \* bits of a byte
  Row(_, _, _) \* row r of the code of a trial, by n: a set of columns

\* With x2 a code is whole batches: getCompressedGenerator sets a unit vector for
\* each of the BatchSize columns of its last batch, those behind n included.
ExConvCheckerAssumption ==
  /\ {BatchSize, ByteW} \subseteq Nat \ {0} /\ BatchSize % ByteW = 0
  /\ \A c \in Commands :
       /\ c.x2 => (2 * c.k) % BatchSize = 0
       /\ {c.k, c.nt, c.trials} \subseteq Nat \ {0} /\ c.x2 \in BOOLEAN
       /\ \A j \in 0..(c.trials - 1), r \in 0..(c.k - 1) : Row(2 * c.k, j, r) \subseteq 0..(2 * c.k - 1)

VARIABLES
  cmd,
  pc,      \* of every thread
  j,       \* its trial
  i,       \* first column of its batch, or number of its pair of rows
  weights, \* its weights per row
  min,     \* its smallest weight
  seen,    \* gMin and avg as it read them inside the lock
  mtx,     \* the thread that holds the mutex, or Free
  done,    \* std::atomic<u64>
  gMin, avg,
  main     \* "poll", "join" or "reported"

vars == <<cmd, pc, j, i, weights, min, seen, mtx, done, gMin, avg, main>>

k == cmd.k
n == k * 2
ticks == IF cmd.x2 THEN k * k * cmd.trials ELSE n * cmd.trials
Threads == 0..(cmd.nt - 1)
Free == -1
Smaller(a, b) == IF a <= b THEN a ELSE b

\* A thread looks for its next trial, and may have none.
Start(t, trial) == IF trial < cmd.trials THEN "count" ELSE "end"

Init ==
  /\ cmd \in Commands
  /\ j = [t \in Threads |-> t]
  /\ pc = [t \in Threads |-> Start(t, t)]
  /\ i = [t \in Threads |-> 0]
  /\ weights = [t \in Threads |-> [r \in 0..(k - 1) |-> 0]]
  /\ min = [t \in Threads |-> n]
  /\ seen = [t \in Threads |-> <<0, 0>>]
  /\ mtx = Free /\ done = 0 /\ gMin = n /\ avg = 0
  /\ main = "poll"

------------------------------------------------------------------------------
\* getGeneratorWeight2: the batch of columns from i on.  Its size is bounded by
\* n - 1, whatever i is.
batchMinOfRest(from) == Smaller(BatchSize, n - from - 1)
batchMin(from) == Smaller(BatchSize, n - 1)

CountBatch(t) ==
  /\ ~cmd.x2 /\ pc[t] = "count" /\ i[t] < n
  /\ weights' = [weights EXCEPT ![t] =
       [r \in 0..(k - 1) |->
          weights[t][r] + Cardinality({p \in 0..(batchMin(i[t]) - 1) : i[t] + p \in Row(n, j[t], r)})]]
  /\ done' = done + batchMin(i[t])
  /\ i' = [i EXCEPT ![t] = @ + BatchSize]
  /\ UNCHANGED <<cmd, pc, j, min, seen, mtx, gMin, avg, main>>

EndBatches(t) ==
  /\ ~cmd.x2 /\ pc[t] = "count" /\ i[t] >= n
  /\ min' = [min EXCEPT ![t] = Min({weights[t][r] : r \in 0..(k - 1)})]
  /\ pc' = [pc EXCEPT ![t] = "lock"]
  /\ UNCHANGED <<cmd, j, i, weights, seen, mtx, done, gMin, avg, main>>

\* getCompressedGenerator: bits of the columns, a batch after the other, cut
\* to the bytes that a batch has.
Batches == {b \in 0..(n - 1) : b % BatchSize = 0}
CeilDiv(a, b) == (a + b - 1) \div b
CompressedRow(trial, r) ==
  UNION {{c \in Row(n, trial, r) : c \in from..(from + ByteW * CeilDiv(Smaller(BatchSize, n - from), ByteW) - 1)} :
         from \in Batches}

\* getGeneratorWeightx2: the next pair of rows.
PairWeight(trial, a, b) ==
  LET G(r) == CompressedRow(trial, r)
  IN  IF a = b THEN Cardinality(G(a)) ELSE Cardinality((G(a) \ G(b)) \cup (G(b) \ G(a)))
CountPair(t) ==
  /\ cmd.x2 /\ pc[t] = "count" /\ i[t] < k * k
  /\ min' = [min EXCEPT ![t] = Smaller(@, PairWeight(j[t], i[t] \div k, i[t] % k))]
  /\ done' = done + 1
  /\ i' = [i EXCEPT ![t] = @ + 1]
  /\ UNCHANGED <<cmd, pc, j, weights, seen, mtx, gMin, avg, main>>

EndPairs(t) ==
  /\ cmd.x2 /\ pc[t] = "count" /\ i[t] = k * k
  /\ pc' = [pc EXCEPT ![t] = "lock"]
  /\ UNCHANGED <<cmd, j, i, weights, min, seen, mtx, done, gMin, avg, main>>

------------------------------------------------------------------------------
\* std::lock_guard.
LockFree == mtx = Free
Lock(t) ==
  /\ pc[t] = "lock" /\ LockFree
  /\ mtx' = t
  /\ pc' = [pc EXCEPT ![t] = "read"]
  /\ UNCHANGED <<cmd, j, i, weights, min, seen, done, gMin, avg, main>>

Read(t) ==
  /\ pc[t] = "read"
  /\ seen' = [seen EXCEPT ![t] = <<gMin, avg>>]
  /\ pc' = [pc EXCEPT ![t] = "write"]
  /\ UNCHANGED <<cmd, j, i, weights, min, mtx, done, gMin, avg, main>>

\* The end of the loop's body unlocks; the next trial has an encoder, weights
\* and a minimum of its own.
NextTrialOne(trial) == trial + 1
NextTrial(trial) == trial + cmd.nt
Write(t) ==
  /\ pc[t] = "write"
  /\ gMin' = Smaller(seen[t][1], min[t])
  /\ avg' = seen[t][2] + min[t]
  /\ mtx' = Free
  /\ j' = [j EXCEPT ![t] = NextTrial(@)]
  /\ pc' = [pc EXCEPT ![t] = Start(t, NextTrial(j[t]))]
  /\ i' = [i EXCEPT ![t] = 0]
  /\ weights' = [weights EXCEPT ![t] = [r \in 0..(k - 1) |-> 0]]
  /\ min' = [min EXCEPT ![t] = n]
  /\ UNCHANGED <<cmd, seen, done, main>>

\* The main thread: while (done != ticks) sleep; then it joins all threads and
\* prints.
EndPoll ==
  /\ main = "poll" /\ done = ticks
  /\ main' = "join"
  /\ UNCHANGED <<cmd, pc, j, i, weights, min, seen, mtx, done, gMin, avg>>

Joined == \A t \in Threads : pc[t] = "end"
Report ==
  /\ main = "join" /\ Joined
  /\ main' = "reported"
  /\ UNCHANGED <<cmd, pc, j, i, weights, min, seen, mtx, done, gMin, avg>>

Thread(t) ==
  CountBatch(t) \/ EndBatches(t) \/ CountPair(t) \/ EndPairs(t) \/ Lock(t) \/ Read(t) \/ Write(t)
Next == (\E t \in Threads : Thread(t)) \/ EndPoll \/ Report

Spec == Init /\ [][Next]_vars

\* Every thread of the process is scheduled.
MaxThreads == Max({c.nt : c \in Commands})
FairSpec ==
  /\ Spec
  /\ WF_vars(EndPoll \/ Report)
  /\ \A t \in 0..(MaxThreads - 1) : WF_vars(t \in Threads /\ Thread(t))

------------------------------------------------------------------------------
\* The smallest weight of a row, or with x2 of a sum of two rows, of a trial.
Distance(trial) ==
  LET rows == {Row(n, trial, r) : r \in 0..(k - 1)}
      sums == IF cmd.x2
              THEN {(Row(n, trial, p[1]) \ Row(n, trial, p[2])) \cup (Row(n, trial, p[2]) \ Row(n, trial, p[1])) :
                      p \in {q \in (0..(k - 1)) \X (0..(k - 1)) : q[1] < q[2]}}
              ELSE {}
  IN  Min({Cardinality(s) : s \in rows \cup sums})

\* What is printed is the minimum and the sum over all trials, each taken once
\* however the threads share and merge them.
ReportedMin ==
  main = "reported" =>
    /\ gMin = Min({n} \cup {Distance(trial) : trial \in 0..(cmd.trials - 1)})
    /\ avg = MapThenSumSet(Distance, 0..(cmd.trials - 1))

\* The poll loop ends only when every batch and pair of every trial has been
\* counted; a thread may then still be merging its last minimum.
CountedAll == main # "poll" => \A t \in Threads : pc[t] = "count" => i[t] >= (IF cmd.x2 THEN k * k ELSE n)

\* The finder comes to an end and reports.
Reports == <>(main = "reported")
=============================================================================
