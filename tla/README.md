# Verification of silentOT_docker

TLA+ models of the two-party protocols in this repository, TLC runs that check
them on small instances, and TLAPS proofs for every value of the constants.
File names below are relative to `src/include/`.

## 1. The system

Two processes, `ALICE` and `BOB`, run the same program and talk over three TCP
connections (`io`, `io_rev`, `io_GC`). On these, a stack of two-party
protocols: base oblivious transfers, OT extensions, bit triples made from OTs,
and comparison and equality of secret integers made from OTs and triples.
Beside them stands a silent OT sender whose heavy parts (PPRF, ExConv code) are
copies of libOTe code adapted for measuring; `source/main.cpp` runs only that
one. The libOTe submodule is not part of the repository.

| Component | State it keeps | Operations | Interacts with |
|---|---|---|---|
| `MillionaireProtocol` (`Millionaire/millionaire.h`) | tree parameters; per call: digits, shares of leaf results, arrays `e f ei fi`, counters | `configure`, `compare`, `traverse_and_compute_ANDs`, `AND_step_1/2` | KKOT (leaves), triples, `io` and `io_rev` by two threads |
| `Equality`, `MillionaireWithEquality` | same, other trees | `check_equality`, `compare` | same |
| `TripleGenerator` | PRG | `generate` by five methods | KKOT, `io` |
| `SplitKKOT`, `SplitIKNP` (`OT/split-*.h`) | seeds, PRG positions, pool `h`, `r_off`, `counter` | `set_precomp_batch_size`, `send`/`recv`, `preprocess`, COT, batched OT | `OTNP` (seeds), `io` |
| `IKNP`, `KKOT` (`OT/iknp.h`, `OT/kkot.h`) | seeds, masks up to `max_N` | `send`/`recv`, COT, matmul COT | `OTNP`, `io` |
| `OTNP` (`OT/np.h`) | none | `send`/`recv`, four messages | `io` |
| `OTPack` | eight `SplitKKOT`, two `SplitIKNP` | `SetupBaseOTs`, `copy` | `io`, `io_rev` |
| `NetIO`, `IOPack` | stdio stream, `has_sent`, round counter | connect/accept, `send_data`, `recv_data`, `flush`, `set_FBF/NBF` | TCP |
| Silent OT session (`silentOTutils.h`) | PPRF generator, base OTs, sizes | `silentSendOffline`, `silentSendOffline2`, tests | PPRF, ExConv |
| ExConv code, expander (`ExConvCodeTest/`) | code parameters | `config`, `dualEncode`, `accumulate`, `expand`, `getMatrix` | silent OT |
| `ThreadPool` | queue, `stop` | `enqueue`, worker loop, destructor | callers |
| PRGs, hashes, AES, fields, argument parsing | counters, keys | pure | all |

What is hard in it:

* **Concurrency.** A level of the AND tree is exchanged by two threads per
  party over two sockets. Sends block when a buffer is full. The parties are
  not synchronised otherwise and can be a level apart.
* **Implicit agreement.** Nothing on the wire carries a length, a type, a
  counter or a sequence number. Each party computes from its own counters what
  it reads next, whether the OT pool must be refilled and which pad is next.
* **Reuse.** Triples and OT pads are one-time pads, addressed by counters that
  are rewound (tree) or put back (`counter_memory`) in the course of an
  operation; the OT pool is refilled in part.
* **Accumulated streams.** The sender of a correlated or batched OT packs values
  of any width into one stream of words or bytes and cuts it by its own batch
  size; the receiver cuts it by another.
* **Threads.** The pool's workers and the threads of the distance finder share a
  queue, totals and a progress counter that others wait for.
* **Boundaries.** Digits that do not divide the width, digit counts that are
  not powers of two, `uint8_t` counts of 256, chunks of different sizes on the
  two sides, extensions of zero rows.

Nothing is persisted and no message is retried: there is no crash recovery and
no lossy channel to model. What makes each component correct:

* comparison: the two outputs are shares of `x > y` (`x < y`), a triple is used
  once, accesses stay in the arrays, the exchange ends and leaves nothing
  unread;
* OT extension: the receiver obtains the message it chose, no pad is used
  twice, the two pools and PRGs agree between calls, the pool is never read
  before it is written;
* equality, triples: as for the comparison, with their own counts;
* channels and set-up: both parties reach the end of the set-up, no data stays
  in a buffer while the peer waits;
* silent OT: one expansion at most is sent under the base OTs of a set-up, the
  sizes cover the request;
* ExConv: the encoder stays in its arrays and computes what the test's plain
  loops do; the matrix that `getMatrix` returns is its own, which fails for
  regular codes (findings);
* generators: two of one seed give one stream however it is drawn, no block of
  it twice;
* distance finder: the minimum printed is that of all trials;
* thread pool: every accepted task runs, the destructor returns.

`PROJECT.json` lists each hazard at its line, with the properties that cover it,
or why none does.

## 2. Modules

| Module | Models |
|---|---|
| `Bits`, `Words` | bits, `sci::bitlen`; machine words and the shifts and masks of the packing loops |
| `Millionaire`, `IdealCompare` | `millionaire.h`: `compare`; abstract: an ideal comparison that hands out two shares |
| `EqualityTree` | `equality.h`: `check_equality` |
| `MillEqTree` | `millionaire_with_equality.h`: `compare_with_eq` |
| `BitTriples` | `bit-triple-generator.h`: `generate` |
| `SplitOT`, `IdealOT` | the pool of `split-kkot.h` and `split-iknp.h`; abstract: the chosen-message calls of `OTIdeal` |
| `SplitIKNP` | `split-iknp.h`: the direct, correlated and batched calls |
| `IKNP` | `iknp.h`: block, word, correlated and random OTs |
| `MatmulCOT`, `IdealCOT` | `iknp.h`: the matmul COT; abstract: that of `OTIdeal` |
| `KKOT`, `PadBatches` | `kkot.h` with the code of `constants.h`; its hashing of rows with `ccrf.h` |
| `Packing`, `Transpose` | the packing loops of `split-utils.h`, `ot-utils.h`, `utils.hpp`; `sse_trans` of `block.h` |
| `Prg` | `prg.h`: the stream and its calls |
| `NetSetup` | `net_io_channel.h`, `io_pack.h`, `np.h`, `ot_pack.h`: from connecting to seeded instances |
| `SilentOT` | `silentOTutils.h`: set-up, expansion, compression, hash |
| `ExConv`, `ExConvModd` | `ExConvCodeTest.h`, `ExpanderTest.h`; the index generator of `ExConvCodeTest/Util.h`, a copy of libOTe's that no file includes |
| `ExConvChecker` | `ExConvCheckerTest.cpp/.h`: the threads of the distance finder |
| `Pool` | `ThreadPool.h` |
| `MCTrees`, `MCSessions`, `MCData` | instances for TLC of several modules each: the trees, two parties over their channels, one program and its memory |
| `MCMillionaire`, `MCSplitOT`, `MCExConv`, `MCExConvChecker` | instances for TLC of one module |
| `MillionaireProofs` | theorems about `Millionaire`: types and counters; triples of slots, the exchange, lockstep; shares of nodes, the result, the refinement |
| `SplitOTProofs` | theorems about `SplitOT`: counters, pools and streams; rows and pads, the refinement |
| `EqualityProofs` | theorems about `EqualityTree` |
| `TripleProofs` | theorems about `BitTriples` |
| `ExtensionProofs` | theorems about `KKOT` and, through instances, about `Prg` and `PadBatches` |
| `SetupProofs` | theorems about `NetSetup` and, through an instance, about `Pool` |
| `ExpansionProofs` | theorems about `SilentOT` and, through an instance, about `ExConvModd` |
| `Powers` | lemmas: least elements, powers of two, division with remainder, functions defined by recursion |

How they compose. `Millionaire`, `EqualityTree` and `MillEqTree` take the leaf
OTs and the triples as ideal; `BitTriples` shows that the triples are what they
assume, `SplitOT` that the OTs are (`ImplementsIdeal`). `SplitOT`, `IKNP`, `KKOT`
and `SplitIKNP` take seeds that match, which is `SeedsMatch` of `NetSetup`, and
one stream per seed, which is `SameStream` of `Prg`. They put values on
the wire as streams of bits, which is `Concatenation` of `Packing`, and take a
row for a column of the matrix, which is `Transposed` of `Transpose`. `SilentOT`
takes the encoder as a linear map with given rows, which is what `Encoded` says
of `ExConv`: the sums of the test's plain loops.

### Millionaire

One lane of the `num_cmps` comparisons that the code runs bitwise in parallel;
a run of `num_cmps/8` bytes is one bit. State: each party's place `pc`, its
shares `cmp`, `eq` (`leaf_res_cmp`, `leaf_res_eq`), what it sends `own`
(`ei`, `fi`), what it receives and then opens `opened` (`e`, `f`), the three
counters and their `old_` copies, the loop variables, the progress `moved` of
its two threads, and the two sockets `wire`. `pad` is history: which triple
masked which slot. The random bits are a `tape`, chosen at the start.

Actions: `LeafAlice`, `LeafBob` (digits, leaf messages, the leaf OT as an ideal
OT; the short path for `bitlength <= radix_base`), `Generate` (triples),
`AndStep1` (one node of the first pass), `SendUnit`, `RecvUnit` (one value of
one of the four transfers of a thread), `Join` (the barrier, the opening, the
rewind), `AndStep2` (one node of the second pass, and the end of the level).
`WAN_EXEC` is defined at the top of the header, so the branches without it are
not in the program and not in the model. Reads beyond what was written yield a
`junk` bit of either value.

### SplitOT

Both classes at once: the correction of KKOT is a difference modulo N, which the
code computes with a mask, as N is a power of two (`PowerOfTwo`); for N = 2 it
is the exclusive or of IKNP. Chunk sizes are constants. A session is a
sequence of calls that both parties make: `got` (the pool's `send_impl`,
`recv_impl`), `block` (the always direct calls on blocks and correlated OTs),
`batch` (`set_precomp_batch_size`). Cryptography is symbolic: row g of the
joint PRG stream gives the sender the pads `<<g, k>>` and the receiver one of
them, if both drew it at the same position; a message is readable by who holds
its pad.

Actions follow the code's functions: `SetBatch`, `Begin` (path choice, the
receiver's random choices), `SeedSender`/`SeedReceiver` (lazy set-up),
`ExtendSender`/`ExtendReceiver` (a block of `send_pre`/`recv_pre`), `Store`
(offline hashing, `counter = 0`), `Ask`, `Answer`, `Learn` (online),
`SendPost`, `RecvPost` (direct), `Finish`. A party reads by number of items;
`InStep` says that what it reads is what it expects. The sockets are unbounded
here: in a session at most one direction is in use at a time, so a full buffer
only delays. `spent` is history: which row hid which OT.

### EqualityTree, MillEqTree, BitTriples

The first two are as `Millionaire`, with one AND per node (`EqualityTree`) or
two ANDs that share an operand and a pair of correlated triples (`MillEqTree`).
An element of a wire is one `send_data`, the chunk of a whole level. `MillEqTree`
is shown to implement two abstract protocols at once, the comparison and the
equality test. `BitTriples` is a session of calls; a byte is a function of eight
bits, since the packed arrays and the last byte of a call are where methods
could differ. `OfferOTs` and `PickOTs` are the two ends of the OT that a pair of triples
is made from.

### NetSetup

A `NetIO` is the record of `stream`: the stdio buffer of both modes, `has_sent`
and the round counter. The actions follow a party through `IOPack`,
`OTPack::SetupBaseOTs` (a job for each instance, with its channel and role),
`OTNP` (a step for each message), `copy` and `sync`. Group elements are their
exponents; a key opens what it masked.

### IKNP, KKOT, SplitIKNP, MatmulCOT, PadBatches

A row is its position in the streams of the PRGs and the set of its columns that
are flipped: the sender's row is the receiver's with `s` (IKNP) or the code word
of the choice AND `s` (KKOT) flipped. A session is a sequence of calls; `pc` and
the loop variable `i` follow each party through set-up, extension and the
batches of its post function. Hashes are functions given as constants, so results
are compared as words. `MatmulCOT` follows the two scratch buffers of the matmul
COT byte by byte, including what earlier OTs leave in them. `PadBatches` refines
the hash itself: CCRF's groups and rest over reused buffers.

### Packing, Transpose, Prg

Sequential loops, a step for each iteration or call. The reference is a
stream of bits (`Packing`), the transposed index (`Transpose`), the sequence of
counter blocks (`Prg`). AES is symbolic: a block is its counter, its key and how
often it was encrypted.

### SilentOT, ExConv, ExConvModd, ExConvChecker

`SilentOT` keeps the sender's configuration, base OTs, delta and trees and the
messages under way; actions are the calls of `SilentSender` in the steps where
the parties exchange messages. The receiver and the GGM trees are libOTe's,
which is not in the repository: they are external definitions, from what the
code needs of them. `ExConv` steps through rows of the accumulator and groups of
eight outputs of the expander over small integers; the generators are constants,
and `size - 1 - mAccumulatorSize` wraps as in the code.
The plain loops of `ExConv_tests.cpp` are its reference. `getMatrix` is modelled
for both kinds of code, and agrees with the encoder for one. The expander of the
program takes its indices from libOTe's `ExpanderModd`; `ExConvModd` models the
repository's copy of that class, which is the evidence there is for it. `ExConvChecker` models a
thread's trials, the atomic counter, the mutex with separate reads and writes,
and the polling main thread.

### Pool

An explicit mutex and condition variable with spurious wake-ups. The owner
enqueues tasks and destroys the pool; a running task may enqueue others.

## 3. Runs

Most runs check a *suite*: a module that instantiates several modules, some of
them at two sizes, with a variable `on` that says which instance a behaviour is.
The initial states choose it, no step changes it, and variables that the chosen
instance does not have stay `Off`. So a suite has the union of the behaviours of
its instances, side by side; a property of the suite is the conjunction of
`on = "X" => X!Property` over its instances, often of several of the module's
invariants that say one thing together, its type invariant among them. Liveness
is checked under the fairness of the modules.

| Run | Suite or module | Shows |
|---|---|---|
| `mill_tree` | `MCMillionaire`: 4 one-bit digits, all 256 pairs, both orders, sockets of one unit | types, shares of every node, opened values, a triple masks one slot, bounds, all triples used, parties at most a level apart |
| `trees` | `MCTrees`, fair | `SharesCorrect`: shares of all nodes and results; `InStep`: opened values, lockstep, sockets, triples; `SharedMask`; `ImplementsIdeals`: refinement of the ideals; termination |
| `ot_pool` | `MCSplitOT`: pools of 2 and 3, three calls of 0, 1, 2, 4 OTs or a block, resizing after any of them, fair | a pad hides one OT, slots written before they are read, pools agree, stream in step with no empty extension, termination |
| `ot_wide` | `MCSplitOT`: N = 4, pool of 2, every choice and random choice | refinement of `IdealOT` |
| `sessions` | `MCSessions`, fair | extensions: `RowsAgree`: rows of both parties, distance of other pads; `Transferred`: results of every kind of call, masks that cover N; `InStep`: cut of the stream; `TriplesCorrect`: triples and their shared factor; set-up: `ReadsInStep`: reads in step, `sync` a barrier; `SeedsMatch` in the pack and its copy; silent OT: `Agree`: correlation and code word; `KeysOnce`: of one set-up at most one expansion is sent; `Covers`: the size; all end (`Termination`) |
| `data` | `MCData`, fair | `RoundTrip`: concatenation, unpacking, bounds; `Transposed`: each cell to its place, inside the matrix; `BatchesFit`: the matmul COT's buffers and assertions; `ImplementsIdeal`: refinement of `IdealCOT`, and it ends; `ChosenDelivered`: hash batches and masks; `SameStream`: one stream, never repeated, encrypted once; `Encoded`: the encoder stays in bounds and computes what the test's loops do, and for codes that are not regular `getMatrix` is its matrix; `WholeStream`: indices in the code, the stream of the copied generator whole; `ReportedMin`: minimum and count of all trials; `NoLostWakeup`; `AllRun`: every accepted task; `Finishes`: reports and destructor end |
| `mill_short_full` V | `MCMillionaire`: 8 bits in one digit | `N` wraps to 0 |
| `ot_comment` V | `MCSplitOT` | what `counter` counts |
| `checker_short` V | `MCExConvChecker`: codes shorter than a batch, fair | the main thread polls for ever |
| `setup_rounds` V | `NetSetup` | `get_rounds` misses rounds |
| `exconv_matrix` V | `MCExConv`: systematic codes of 10 and 12, regular and not | `getMatrix` of a regular code is another matrix than the encoder's |
| `exconv_short` V | `MCExConv`: accumulators shorter than, as long as and longer than the code | the bound of the unchecked rows wraps |

`V` marks a run that shows a violation; see findings. The instances:

| Suite | Instances |
|---|---|
| `MCTrees` | `MillUneven`, `EqUneven`, `MillEqUneven`: digits of 2, 2 and 1 bits, inputs around the digit limits, both orders, several tapes; `MillDeep`, `EqDeep`, `MillEqDeep`: five one-bit digits, three levels, least and greatest inputs, capacity 1; `MillShort`: three bits in one digit, all inputs, both orders |
| `MCSessions` | `Iknp`: every kind of call after every other, longer than both sides' batches, set-ups between calls with lengths around a block, and empty calls of every kind; `Kkot`: more and fewer messages in every order with an empty call; `KkotWide`: calls of four and three messages, every linear pattern of choices; `SplitIknp`: every plain kind after a call that ends within a block, batches of one to nine OTs of up to three hash blocks, sessions of three calls; `OneTriple`: one OT with every bit BOB draws; `Triples`: calls of three methods in sequence; `Packs`: two KKOT instances per pack, two base OTs each, three channels with buffers of two; `Keys`: all exponents in a group of order five; `Silent`: one to five trees in batches of two, sizes that are and are not powers of two, three calls; `SilentFew`: fewer commands, for liveness |
| `MCData` | `Pack`: words of 8 bits, every width, batches of up to 3; `Trans`: every remainder of rows and columns; `Matmul`: three OTs of all shapes; `Many`: seven and nine small OTs; `Pads`: 0 to 8 OTs, batches of 3, groups of 4; `Stream`: two generators, batches of 3 blocks, five blocks; `Code`: codes of 10 to 15 elements, systematic or not, regular or not, accumulators from none to one shorter than the code; `Modd`: moduli that are and are not powers of two, three refills; `Checker`: up to four trials, one to three threads; `CheckerFew`: fewer commands, for liveness; `Threads`: two workers, two tasks, one enqueues two more, two spurious wake-ups |

Bounds. Four and five digits give trees with two and three levels, with nodes
other than node 0, with and without partners, hence both AND patterns, both
offsets and the rewinds; more digits repeat them. A capacity of one unit is the
worst case for blocking sends. Several tapes are used, including one that makes
every uninitialised bit 1, but not all of them: the masks cancel bit by bit.
In `SplitOT`, pools of two and three with calls of one and two reach every
alignment of counter and call, including a refill of a part of the pool followed
by a second one. Choices vary over all values in `ot_wide`, and over rotations
elsewhere. In the extensions the constants of the code (block size, batch size,
word and code width) are scaled down so that calls are shorter than, equal to
and longer than each of them, in combination; only the ratios enter the control
flow (the receiver's chunk is twice the sender's, a word has several bytes).
`Packing`, `Transpose` and `Prg` enumerate every remainder that their loops
distinguish. `ExConv`'s codes are long enough for an inner loop, a tail and a
wrap-around of the accumulator, and several refills of its coefficients; the
shortest is one longer than its accumulator, where every row is range checked
(`AccumulatorFits`), and `exconv_short` goes below. Two
threads and two trials already interleave two merges; a third thread is idle or
late. Counters that could grow are bounded by the programs, by `MaxBlocks`,
`MaxCalls`, `MaxGets` and `MaxEpoch`, and in `Pool` by the number of spurious wake-ups.

`CHECK_DEADLOCK FALSE` is set since a session, a loop or a program ends. That
it does not stop before is `Termination`, `Finishes` or, in `data`, the last
conjunct of `ImplementsIdeal`.

Fairness. Weak fairness of each party's own steps and of each of its threads:
they are OS threads and blocking socket calls that return when they can.
No fairness is needed between the alternatives of one thread, as at most one is
enabled; `Pool` also needs none for a spurious wake-up, and `ExConvChecker` weak
fairness of each thread suffices for the mutex because each thread takes it a
bounded number of times.

## 4. Findings

Shown by a run:

* `millionaire.h:82`: `uint8_t N = 1 << bitlength` is 0 at eight bits, which
  `assert(radix_base <= 8)` admits; the leaf messages are never written
  (`mill_short_full`). `equality.h:75` and `millionaire_with_equality.h:75` have
  the same line.
* `split-kkot.h:55` calls the counter the number of *unused* OTs; it counts the
  *used* ones, as the same comment in `split-iknp.h:46` says (`ot_comment`).
* `io_pack.h:30` leaves `io_rev` out of `get_rounds` as it is only used in
  parallel; the set-up of `iknp_reversed` uses it alone (`setup_rounds`).
* `ExConvCheckerTest.h:247`: for codes of at most 1024 columns, such as the
  default, the progress counter never reaches the total and the program does
  not end (`checker_short`).
* `ExpanderTest.h:216`: `getMatrix` of a regular code, the default, draws with one
  generator over `mExpanderWeight` regions, `expand` with two, one of them over
  half as many regions and the other over the whole code. The one caller
  (`ExConv_tests.cpp:479`) colours what it prints by it (`exconv_matrix`).
* `ExConvCodeTest.h:584`: `size - 1 - mAccumulatorSize` wraps for a code no longer
  than its accumulator, and its rows leave the array; the distance finder takes
  the two from separate options (`exconv_short`).

Met while modelling, and kept out of the instances that pass or expressed by
the models without a run of their own:

* `block.h:284` admits a rest of eight columns, for which `ncols - 16` wraps. No
  caller has fewer than 128; `Trans` has eight columns only where no rows are left over.
* `ExConvCodeTest.h:53` says the accumulator is lower triangular with ones on
  the diagonal; its last rows wrap, and at the smallest size, accumulator
  size + 1, a row hits itself, which the test's loop does alike.
* `ExConvCheckerTest.h:71` sets a unit vector for each column of a batch also where
  the last one is not whole, past the end of `x`; `ExConvChecker` has codes of whole batches
  (`ExConvCheckerAssumption`) where it computes weights of pairs.
* `ExpanderTest.h:18` says rows of fixed weight; coinciding columns cancel.
* `silentOTutils.h:753, 779` call a tree 2^depth leaves large; rounding makes it
  larger or deeper than asked.

## 5. Proofs

All theorems hold for every value of the constants that satisfies the named
assumptions; none of them has a bound of the runs. An invariant that a run
checks is seldom inductive; what had to be added to it is described here.

### Millionaire

For every bit length from 1 to 64, every radix from 1 to 8, any inputs, orders,
tapes of the right type and socket capacity (`WidthAssumption`, the two
assertions of `configure` and positive widths, and `InputAssumption`, what the
parties hold is of the right type).

All are in `MillionaireProofs`.

* `TypeCorrect`; `StaysInBounds`, no pass and no thread
  leaves the arrays or uses a triple that was not generated; `AllTriplesUsed`,
  the code's final assertion. The counters say how far a party is only together
  with the level and node: `CountInv` states that `cnt` is the counter of the
  levels below plus that of the nodes passed in this level, `old` that of the
  levels below, and that in the exchange `cnt` is at the end of the level. It
  needs arithmetic of the tree: the nodes of the levels below 2^k, summed, are
  what `num_triples_std` and `num_triples_corr` provide (`TripleCounts`,
  `LevelBounds`, `CorrBound`). Powers of two are handled by the seven possible
  levels (`Log2Powers`), for which the bound of 64 digits is used.
* `EveryTripleOnce` (`OneTimePad`), `StayInLockstep`,
  `OperandsOpen` (`OpenedAgree`), `SocketsDrained`. `PadInv` says that the
  triple of a slot is a function of level and slot (`SlotTriple`), which is
  one-to-one (`MasksOneToOne`). `FlowInv` numbers all units a party ever moves
  on a socket (`Sent`): what is on the wire is the difference of the two ends;
  from that alone a party is at most one level ahead. `ExchangeInv` adds the
  content: a unit on the wire is what its sender masked in the slot in which the
  receiver will store it, and what was stored stays true when the peer masks the
  slots of the next level.
* `NodesAgree` (`NodesReconstruct`), `ComparesCorrectly`,
  `RefinesIdeal` (`ImplementsIdeal`). The property speaks of moments when both
  parties are at the same level; the invariant has to speak of the others. For
  a node that one party has merged, `AheadInv` relates its share to the share
  the other is going to have (`NextCmp`, `NextEq`), and `MaskInv` keeps the
  operands of the nodes masked and not merged. The result needs that digits
  determine a number (`ComparesAll`). `ComparesCorrectly` and `RefinesIdeal` assume
  `InputsFit`, inputs of `bitlength` bits as the masks of the digits suppose, and
  exclude `OverflowsN`, the short path of 8 bits, which `mill_short_full` shows
  to be wrong.

### EqualityTree

For every bit length from 1 to 64, every radix from 1 to 8, any inputs, tapes of
the right type and socket capacity. `EqualityAssumption` says so; the theorems
have it as a hypothesis, as TLC's instances give the constants by INSTANCE, and
`MCTrees` assumes it of each of them.

* `TypeCorrect`, `UsesAllTriples` (`TriplesExhausted`). `CountInv` is as in
  `Millionaire`, but with one AND per node it has a closed form: the slots of
  level i start at n - ceil(n / i) (`Start`).
* `StaysInStep` (`Lockstep`), `OpensAgree` (`OpenedAgree`). `FlowInv` numbers the
  chunks of a socket, four to a level, so that the n-th is known from n alone
  (`LevelAt`, `ChunkAt`); that a receiver is never ahead of its sender then gives
  the one level by which the parties may differ. `ExchangeInv` says which halves
  of which slots hold the peer's masked values already. A party that masks the
  next level writes other slots than those that its peer still opens (`Ahead`).
* `NodesAgree` (`NodesReconstruct`), `DecidesEquality` (`EqualityCorrect`). The
  code ANDs in place, so a node's share is overwritten while the peer may still
  be a level behind. What a party has masked remembers the operands it had
  (`Left` and `Right` take the triple off again): `MaskInv` says that they are its
  shares until it merges the node, `OperandInv` that those of both xor to the two
  halves' equality, and `AheadInv` that the share of a party that has merged is
  its share of the Beaver product (`Share`), so that the two agree once the peer
  merges as well. `DecidesEquality` needs that equal digits are those of equal
  inputs (`SameDigitsSameNumber`), assumes `InputsFit` and excludes `OverflowsN`,
  as the theorem about `Millionaire` does.

### SplitOT

For every N, chunk size, block size, session, choice function and random
choices (`OTAssumption`), in `SplitOTProofs`.

* `TypeCorrect`, `SlotsFilled` (`SlotsHeld`), `PoolsAlike`
  (`PoolsAgree`), `StreamsInStep` (`InStep`). Neither party sends its counter, so
  that the pools agree is a statement about two computations at different
  places. `Ledger` is the pool that both should have before each call, computed
  from the calls alone; `LocalInv` says that a party's pool is the ledger's for
  the call it is in (`Before`) and its place in it (`Then`). `DriftInv` says how far
  one party can run ahead: over calls in which nothing is sent. `UpInv` and
  `DownInv` give the content of the two directions of the wire, as what the one
  party has done of the call and the other has not yet taken.
* `RowsSpentOnce` (`OneTime`) and `TransfersIdeal`, the
  refinement of `IdealOT`. `SpentInv` says that a row that was spent is `Gone`:
  behind the PRG of the party and in none of the slots that it has yet to read.
  `DataInv` and `ResultsInv` follow the data: what the receiver has in its call is
  what it chose up to its place there, since a reply is masked with the row
  that it holds, shifted by its correction; its earlier results are the ideal's.

### BitTriples

For any session of calls, each of any method, number of triples (an even one, or
whole groups, where the method's assertions ask for it), packing and offset, and
all random bits (`TripleAssumption`; the programs are sequences of `Calls`):
`GeneratesTriples` (`TriplesCorrect`), `SharesFactor` (`SharedFactor`), in
`TripleProofs`. A call that asks for nothing sends nothing, so either party may be
ahead, and where a call's messages lie on the wire depends on all calls before
it. `WireInv` says that there is a table of where each call's messages start,
counted from the first (`Starts`), such that the messages under way are those of
the calls that ALICE has made and BOB has not, each together with the arrays that
it left her (`UnderWay`, `Dealt`). `Dealt` names the random bits: of the ideal
method, the shares that the sums on the wire complete; of an OT, the two masks
and the products that each selection offers. The rest is what a call makes of its
messages: bytes packed and unpacked give the bits back (`Unpacked`), and the
selection by BOB's own bits of what ALICE offers is his share of the product.

### KKOT

For any sequence of calls with any number of OTs and of messages up to the size
of the code, any sizes of the code, of the blocks of rows and of the batches of
pads, all choices, secrets and fillings (`KKOTAssumption`), and choices that name
one of the messages (`ChoicesFit`, which the callers ensure; TLC evaluates both
on the instances of `MCSessions`), in `ExtensionProofs`: `ObtainsTheChosen`
(`Transferred` and `MasksCover`) and `KeepsApart` (`Apart`).

* `LocalInv` is where each party is by itself, with how many rows. `ApartInv`
  says how far they can be apart: the receiver is ahead only over calls in
  which nothing is sent back to it (`Free`) or after it has sent all its blocks,
  the sender only over empty calls or after it has sent all its batches.
* `MasksInv` is the life of the masks that the sender computes in advance: they
  are those of its secret at every moment, and cover the call before the first
  answer, also where a later call asks for more of them than the first did.
* `RowsInv` says what the rows that a party holds are made of: the place in the
  streams where they were drawn and, for the sender, the secret under the code
  word of the receiver's choice. `UpInv` says that the blocks under way carry the
  places by which the receiver's PRG is ahead of the sender's, which is why the two
  draw the same rows; `DownInv` that the answers under way are those of the OTs
  between the two places in the call, each from the row of its OT. `DataInv`
  follows: the answer to the chosen message is masked with the receiver's row.
* `Apart` then is a property of the code alone (`HalfApart`). Two different
  numbers have a digit in which they differ (`FirstDifference`). Turning that digit
  of a column's number (`Turned`) is a map of the columns that is its own inverse, and
  it changes which of the two code words is 1 in the column (`CodeTurns`), so the columns
  in which they differ are as many as those in which they agree.

### Prg

For any generators, seeds and identifiers, any batch, block size and requests
(`PrgAssumption`): `PrgTypeCorrect`, `EncryptsOnce` (`EncryptedOnce`), `HandsOutOnce`
(`NeverRepeats`), `PiecesDoNotMatter` (`SameStream`), in `ExtensionProofs`, where
`PRG` is the instance of `Prg`. `StreamInv`
says that counters rise along the stream and stay below `counter`, and that a
stream of which only whole blocks were asked has a block for each counter.
`InOrder` says what a call must hand out for that; each of the four calls
does, where the work is the division of a request into batches and bytes.

### PadBatches

For any number of messages, length of a call, batch and lanes, and all choices
(`PadAssumption`): `DeliversChosen` (`ChosenDelivered`), `MasksAreOwn` (`OwnMask`), in
`ExtensionProofs`, where `Pads` is the instance of `PadBatches`. The invariant says that a batch on the wire is `Masked`: each message
under the pad of its own row. `Hashed` is why: CCRF gives a key the same pad in a
group of full lanes, which ignores the buffer, and after the last, where the
buffer was set first.

### NetSetup

For any number of KKOT instances and of base OTs, any group, any exponents that may
be drawn and any size of the buffer (`SetupAssumption`), in `SetupProofs`:
`TypeCorrect`, `StaysInStep` (`ReadsInStep`), `SeedsAgree` (`SeedsMatch`),
`SyncIsBarrier` (`Barrier`).

* No message says what it is, so the invariant numbers all messages of all base
  OTs in the order of `SetupBaseOTs`: `Span` of them in each, the n-th by a party
  (`By`) and on a channel (`ChanAt`) that follow from n alone. A place in the
  set-ups is the number of the next message (`Pos`), and each step of a party goes
  to the next number (`Onwards`). A party can be ahead only by messages that it
  sends itself, on one channel (`Ahead`): where the sender changes, or the channel,
  it has to wait (`SameChannel`). `Carries` then says what is under way: exactly
  those messages, in that order, and nothing on the other channels.
* What the messages contain is what the parties draw, some of it after the first
  messages are under way. `DataInv` says that there are `Secrets` for each base
  OT that explain every message under way (`Message`) and all that a party has
  computed (`Has`); a step that draws chooses those secrets anew, which nothing
  else has depended on (`Rechoose`, `ChooseSent`, `ChooseDrawn`). That the receiver's key opens the
  message of its choice is `Opens`, from the laws of `%` (`SameMask`).
* `SeedInv` says what the keys of a seeded instance are (`SeedOK`), in the
  copy those of its original (`Origin`), and which are seeded at a place.
* `SyncInv` follows the two messages of `sync` through ALICE's buffer, which
  she flushes only when she goes on to read, and the two inboxes.

### Pool

For any finite set of workers, any tasks and children, any number of spurious
wake-ups (`PoolAssumption`), in `SetupProofs`, where `TP` is the instance of
`Pool`: `PoolTypeCorrect`, `WakeupsKept` (`NoLostWakeup`),
`EveryTaskRuns` (`AllRun`). `ThreadsInv` says what the mutex protects: a worker
that sleeps is at its wait, one that holds a task runs it, one that has returned
found the pool stopped and the queue empty, and that stays so, since nothing is
accepted any more. `TasksInv` says that the accepted tasks are those queued, in
the hands of a worker, or done. The wake-up property is inductive with these
two: a queue that is not empty is seen by whoever is awake, and one who is not
can only have gone to sleep before the last task came.

### SilentOT

For every batch of trees, any commands, elements that form a group of the kind of
XOR, and any expansion into them (`SilentOTAssumption`), in `ExpansionProofs`:
`SendsKeysOnce` (`KeysOnce`), `CoversLeaves` (`Covers`),
`ReceiverGetsChosen` (`Agree`, `Computes`). `KeysInv` says that base
OTs that are left belong to the last set-up and that nothing on the wire was
sent under them yet, from the set-up to the end of the expansion, which takes
them; a call that finds none sends nothing. `ConfigInv` says which sizes the
set-ups leave (`Configured`): `CoversLeaves` is their arithmetic, two roundings
up and a logarithm (`Log2Ceil`), and that a leaf lies inside the vector (`LeafInside`).

`ReceiverGetsChosen` (`Agree` and `Computes`) needs what is in the two vectors at
every moment:

* Leaves are interleaved by batch, and the last batch may be narrower. `Place`
  finds the tree and the leaf that lie at an index; it is the inverse of `LeafAt`
  (`PlaceInside`, `PlaceOfLeaf`), so that no two leaves share a place and none is left out.
  Hence a batch writes exactly the leaves of its trees (`Here`).
* `CallInv` says what the sender's vector holds after the batches so far
  (`LeavesTo`), in an online or an offline call.
* The receiver may be any number of batches behind, still expanding while the
  sender compresses, hashes and clears its state. `Session` therefore fixes the delta of the call that the
  receiver is in: all messages under way carry that delta, the seed of the call
  and base OTs that the receiver's keys open (`Expanding`, `OpensAll`), its
  vector is the sender's with delta added at the points (`PuncturedTo`), and
  in the end it has the code word of that and its choices (`Held`). `ReadyInv` is
  what a set-up leaves for it until the call.
* A row of the code is a sum of any length. `Recursion` gives the partial sums,
  and by comparing them (`AlikeStepwise`) a row of the receiver's vector is the
  sender's plus delta as often as there is noise in it (`Shifted`), which is the
  parity that the receiver computes as its choice.

### ExConvModd

For any numbers of blocks and lanes, any group, seeds, moduli and mixing
(`ExConvModdAssumption`), in `ExpansionProofs`, where `Modd` is the instance:
`GivesWholeStream` (`WholeStream`), `IndicesInCode` (`IndicesFit`). `ModdInv` says how
many refills there were, that the buffer is that many mixings away from the
seed, that the values are the reduced words of that buffer, and that the words
given are those of the earlier buffers and of this one up to `idx`. The two ways to
reduce agree (`Masked` for a power of two, `Divided` otherwise, which subtracts a
multiple that was rounded down).

### What is left to TLC

The liveness properties, as they need ENABLED; what a function computes by
summing or folding over data of any length (`ReportedMin`'s sum,
`Concatenation` of `Packing`), as the library's induction theorems take an
operator as parameter, which the provers cannot instantiate. Where a number is
enough, `Powers` replaces induction by the least counterexample
(`LeastElement`); where the function is recursive in a number, by the least
number at which two functions of the same steps differ (`AlikeStepwise`), after
showing that there is such a function at all (`Recursion`). The properties of the suites are conjunctions over their
instances; a theorem states the property of the module. The modules without
a theorem are only model-checked. No module declares a RECURSIVE operator.

## 6. Plan for the proofs, and what is not modelled

Next proofs, in this order: the invariants of `MillEqTree`, along those of
`Millionaire` and `EqualityTree`; the rows of `IKNP` and `SplitIKNP`, along those
of `KKOT`; the minimum of `ExConvChecker`. Until then these are model-checked only.

Not modelled, and why:

* the contents of AES, hashes, group and field arithmetic (`aes*.h`, `hash.h`,
  `prp.h`, `crh.h`, `f2k.h`, `group*.h`): functions of 128-bit data without
  protocol state; what is distinguishable is symbolic;
* `random_mod_p` of `prg.h`, which nothing calls;
* `sse2neon.h`, `ArgMapping` (vendored), libOTe (absent), build files, timers
  and printing;
* `num_cmps` rounded up to a multiple of eight: the lanes do not interact;
* the branches that `WAN_EXEC` compiles out;
* the checks that the silent OT's set-ups turn off (the malicious check, the
  debug check of `silentSendInplaceTest`), and `getAccWeight`, which nothing calls;
* failures of a peer: the program has no reaction to one but `exit`, no state
  survives it and nothing is sent again.
