# A TLA+ model of the OKPSI multi-party private set intersection

OKPSI computes the intersection of several parties' private sets. `volePSI/Mpsi.cpp`
is the protocol; it rests on a random-band oblivious key-value store
(`cryptoTools/Crypto/RBOKVS.cpp`) and, between two of the parties, on the two-party
intersection of `volePSI/RsPsi.cpp`, which in turn uses an oblivious PRF
(`volePSI/RsOprf.cpp`) built from VOLE and another key-value store
(`volePSI/PaxosImpl.h`). This directory holds the TLA+ modules that model that code,
the TLC configurations that check them, and the TLAPS proofs.

`PROJECT.json` maps every definition to the lines it models and lists runs, hazards,
findings and theorems. To repeat everything by hand:

    tlc -workers 2 -config MCRBOKVS.cfg MCRBOKVS      # and the other .cfg files
    tlapm RBOKVSProofs.tla                            # and the other *Proofs.tla

## 1. Inventory

| component | state | operations | talks to | what makes it correct |
|---|---|---|---|---|
| RBOKVS | matrix rows (start, band, value), `bitToRowMap`, the encoding | `hashPos`, `hashBand`, `reformalize`, `insert`, `encode`, `decode` (single, batch with threads) | called by Mpsi and RsOprf | every encoded key decodes to its value; `encode` fails only if there is no encoding; threads never write the same result |
| Mpsi_User | sockets, shares, encodings, `Multi_Intersection` | `run` in the roles leader, sender, client | sockets between all parties; RBOKVS; RsPsi | the leader gets the intersection and nothing else; everybody ends |
| RsPsiSender, RsPsiReceiver | buffer of hashes, hash tables, barrier, promise, `mIntersection` | `init`, `run` | RsOprf, one socket | the sent hashes are the right ones; the result is the intersection; threads are synchronised |
| RsOprfSender, RsOprfReceiver | VOLE outputs, the encoding `p` cut into chunks, `mD`, the coins and their commitment | `send`, `eval`, `receive` | one socket with a fork for the VOLE; Baxos or RBOKVS | both sides evaluate the same function on common items, in whatever chunks the encoding travels; the two slots of the socket never wait for each other |
| RsOpprfSender, RsOpprfReceiver | as RsOprf, and a programmed encoding; `F` of the values in the memory of the output | `send`, `eval`, `receive` | RsOprf, Baxos | programmed values come out at their points, for every width of the output |
| Paxos | sparse matrix, weight sets | `setInput`, `triangulate`, `encode`, `backfill`, `decode` | called by Baxos | the solution satisfies every row |
| Baxos | per-thread areas of bins, barrier, batches | `solve` (`implParSolve`), `decode` (`implParDecode`) | called by RsOprf, RsOpprf; Paxos, threads | a bin is complete when it is merged; every input is decoded once, into its own place; all threads end |
| SimpleIndex | bins and their sizes | `get_bin_size`; `init` and `insertItems` have no caller | called by Baxos | the bound it computes holds but for 2^-ssp |
| doFilePSI | options, the set read, result file | size checks, PSI, closing | RsPsi, a socket, files | both sides agree on the sizes or both end with an error; nothing sent is lost when a process ends |
| frontend, tests | none kept | command line | all of the above | not modelled |
| coproto, macoro, libOTe | vendored | sockets, coroutines, VOLE and OT | | used as given |

How they interact. Every party is a process that calls `Mpsi_User::run` once. The
leader listens for all the others, the sender dials the leader and then every client.
The leader encodes random values under its items, masks the encoding with one random
share per client and sends the shares to the clients and the masked encoding to the
sender. Each client decodes its share at its own items, encodes what it got, and sends
that to the sender. The sender adds all encodings up and decodes its items: an item
all parties hold decodes to the leader's random value. Leader and sender then run
the two-party intersection on the random values and the decoded ones.

What is hard about the code:

* *Algorithms with a long memory.* The elimination of RBOKVS combines rows that were
  combined before. A wrong bit shows only in another key, later.
* *Threads.* Batch decode, the share and receive threads of Mpsi, the solving threads of
  Baxos, which distribute inputs for each other, and the lookup threads of RsPsi, which
  synchronise with a counter and two promises and reuse the memory of their input for
  their results. RsOpprf, too, keeps intermediate values in the memory of its output.
* *Order and blocking.* Connections are made one at a time in both directions before
  anything is sent; sends may block until the peer reads. The VOLE of the OPRF runs on a
  fork of the socket, over the same connection as the messages around it: a message nobody
  is ready to receive holds up the other slot's.
* *Failures nobody looks at.* The status of `encode` and the exception of the PSI are
  dropped. A throwing thread, or the destruction of a thread not joined, ends the process.

The hazards, each at its line and with the properties that cover it, are in
`PROJECT.json`. Those without a property say why.

## 2. The modules

| module | models | notes |
|---|---|---|
| `RBOKVS` | RBOKVS.cpp | elimination, back substitution and batch decode as a state machine |
| `MCRBOKVS` | | TLC instances of it |
| `RBOKVSProofs` | | the invariant and the theorems |
| `MpsiIdeal` | | what the protocol promises the leader |
| `Mpsi` | Mpsi.cpp | all parties, sockets, threads, failures; implements `MpsiIdeal` |
| `MCMpsi`, `MpsiProofs` | | TLC instances, theorems |
| `RsPsi` | RsPsi.cpp | sender and receiver after the OPRF |
| `MCRsPsi`, `RsPsiProofs`, `RsPsiResultProofs` | | TLC instances, theorems |
| `Paxos` | PaxosImpl.h, PxUtil.h | `setInput`'s matrix, `triangulate`, `encode`, `backfill`, `decode1` of one bin |
| `MCPaxos`, `PaxosProofs`, `PaxosDecodeProofs` | | TLC instances, theorems |
| `Baxos` | PaxosImpl.h | the threads of `implParSolve` and `implParDecode` |
| `MCBaxos`, `BaxosProofs` | | TLC instances, theorems |
| `RsOprf` | RsOprf.cpp | `send`, `receive`, `eval`, the socket's slots, failures |
| `TwoParty` | fileBased.cpp, RsPsi.cpp, RsOpprf.cpp | the two protocols that call `RsOprf` |
| `MCTwoParty`, `TwoPartyProofs` | | TLC instances, theorems |

`Mpsi` composes what the others model one at a time. Its `Encode` is the function that
`RBOKVS`'s `DecodeCorrect` and `FailIsGenuine` justify (keys decode to their values,
a failure leaves zeros), the former where the mask fits the band (`MaskFits`): finding 1 is what
happens where it does not. Its `LeaderPsiEnd` is what `RsPsi`'s `ResultCorrect` says, which holds only
under `RegionsSuffice`: with few items and many threads the two-party result itself is wrong (finding 2), and
nothing `Mpsi` says covers that. Its `LeaderPsiError` and `LeaderUnjoined` are the ways `RsPsi`'s receiver ends
when the sender is gone (`RecvFails`), its `LeaderSolverThrows` is `RsOprf`'s `SolveThrows` on the leader's side. `TwoParty` composes `RsOprf` with its two callers, and takes
from `Baxos`, `Paxos` and `RBOKVS` that an encoding decodes, that `Baxos::solve` throws if it
finds none, and that `RBOKVS::encode` then returns zeros. `Baxos` takes from `Paxos` that a bin's
encoding holds the pairs it is given.

### RBOKVS

A 128-bit block is a set of atoms with symmetric difference for XOR. A band is the set of
offsets of its one bits. One action per branch of `insert` (`InsertFail`,
`InsertAllZero`, `InsertCollide` for a turn of the while loop, `InsertPlace`), each with the shift of
`reformalize` in its two stages (`Shift`: whole words of zeros, then leading zeros), one step
of back substitution per column (`SolvePivot`, `SolveFree`), and one step per key of each
thread of the batch decode. Hashes are not computed: every key gets any start column of
`hashPos`'s range and any band that `hashBand` can make of the raw hash outputs of
`RawBands`. `ByteBits` is 8 in the code; the first run uses 2, so that a band of 3 bits
has a partial last byte. `WordBits`, 64 in the code, is 2 there, so that a band has two words, of which the
first can be zero.

Limits. The loops unrolled by 64 are modelled by the loop they replace, which is right
for `mW >= 64` and `mSize >= 64` (the bounds `mW - 64` are unsigned). `getParams` is not
modelled: widths and sizes are constants. The random blocks of free columns are any blocks.

### Mpsi

`pc[p]` is the place of every party in `run`; `connected`, `accepting`, `dialing` are
the connection loops; `toParty`, `toSender`, `toLeader` are the sockets in use, FIFO and
reliable while both ends live. The leader's share threads are `thread`, the sender's
receive threads are the parallel `SenderRecvClient(i)`. An encoding is the function from
items to the block they decode to, which is enough because `decode` is linear. A send
starts with the message under way and ends at any time later. Failures: `Crash` of any
process at any step with loss of what it sent or not, an `encode` that fails, and what
follows for the others (`RecvFails`, `SendFails`, `LeaderPsiError`, `SenderPsiError`,
`LeaderUnjoined`), and a throw of the solver in the leader's OPRF while everybody lives (`LeaderSolverThrows`),
after which the leader closes its sockets and the sender's PSI breaks off. `crashes` counts both, up to
`MaxCrashes`. A dead peer shows up as an exception of the receive or send.

Limits. Two sets of random blocks coincide in the program with probability 2^-Lambda;
here never. At least two parties (`UserAssumption`). Threads are always created.

### RsPsi

The sender's buffer is modelled byte by byte, since the hazard is overlap: `memmove`
copies, an overlapping `memcpy` leaves torn bytes. The receiver's memory is modelled
by its 64-bit words, because threads store their results there: a word is part of a
hash or a result. The barrier is `numDone` and `hashingDone`, the promise is `fu`.
`thread` assigns each item to the thread its hash selects. `RegionsSuffice` says that
every thread has room for its results.

Limits. Hashes of different items differ in the compared prefix, which the mask size
makes true but for 2^-ssp. The mask is at least 4 bytes wide, so both sides choose the
same thread for an item (`init` gives 5 or more at the default `ssp`). Storing past the
receiver's allocation is out of `Words` and would fail `TypeOK`. The OPRF is taken as
done. Set sizes are those agreed in `init`.

### Paxos

A block is a set of atoms, one per item's value and one per random block, and XOR is
symmetric difference: encode and decode are linear, so what holds for these generic values
holds for all. `SparseRows` are the sets of sparse columns of the rows; `DenseRows` the dense
hashes, with one bit more than there are dense columns, because keys are compared by the
whole hash. One step of `Triangulate` is one turn of the while loop: it takes a column of
minimum weight, makes its first row a main row and puts the others into the gap.
`listed` and `weight` are the lists of `WeightData`; which column heads its list depends on
the order of the columns in a row, which is not modelled, so any of minimum weight may be taken.
`RandomizeFree` is the rest of `encode` before `backfill`, `SolveGap` is `backfillBinary` up
to its loop (`FCInv`, `Combined`, `GapChoices`, `XX2` are `getFCInv`, `getEPrime`, `getGapCols`,
`getX2Prime`), and `BackfillRow` a turn of that loop. Any invertible set of dense columns may be chosen, where
the code takes the first it enumerates. The array given to `encode` holds anything (`Dirty`).
`EncodeAgain` is the next call on the same object, after a call that returned and, with `RetryFailed`, after one that
threw.

Limits. Binary dense columns only; `SizeAssumption` asks for two sparse columns more
than items, which all of `PaxosParam::init`'s sizes have and without which `popNode` could empty all
lists. Rows and hashes come from one hash of the key (`SameHashSameRow`). `WeightData::init` has room for
weights below 200, which an assertion checks in debug builds only (`PxUtil.h:352` and `368`): the model has
no such bound, so a column in 200 rows or more is outside it.

### Baxos

An input is its position, and stands for its hash and its value in the arrays they are copied to.
`tpc` is the place of every thread, the caller's own being the last one. `Fill` puts one input into
the thread's own area of the bin, `FillEnd` is the atomic increment of `numDone` with what follows
it, `Merge` moves one thread's area behind what has been moved: `Moved` is `memmove`, `Assigned` a loop of
assignments, which differ when the ranges overlap. `Encode` gives `Paxos` what lies in the
first positions. `Throws` is an exception in a routine: the caller gets it when there is one
thread (`error`), otherwise nobody catches it, or the handles of threads not
joined are destroyed, and the process ends (`terminated`). To decode, `Collect` adds an input to its bin's
batch and decodes it when the batch is full, `Flush` decodes one bin's rest.

Limits. Which bin an input falls into is arbitrary, but `Init` has `AreasSuffice`: no thread has more
inputs of a bin than its area holds. The code sizes the areas so that this fails with
probability 2^-mSsp and checks it in debug builds only. One bin goes straight to `Paxos`.

### RsOprf and TwoParty

A block is a set of atoms: hashes of values, the VOLE's `a` and `c`, the coins. Multiplication by
`mD` tags them, so that `a + b = c * mD` is an equation between sets, and hashes wrap what they hash.
The encoding `p` is an array of blocks in which every item has a column of its own (`Own`), beside
shared ones, so that a column treated wrongly shows in a value. `MaskChunk` is one turn of the loop that
cuts chunks off `p`: `pBegin` and `pSize` are the span left, `moved` says that its memory went away
with a message. `Lanes` is the 8 of the loops unrolled by hand, `Masked` what these loops and the ones after
them mask. `RecvChunk` is the sender's side. `mMalicious` adds the coins and their commitment.

A direction of the connection is one queue, in which every message carries its slot: a slot can only receive
what is at the head, so messages of the VOLE and of the protocol can hold each other up. The VOLE
itself is external: a script of who sends, several of which are tried, and it runs on as soon as it was
started, beside the steps of the side that started it. A send returns at once or waits until its message was
read. An exception (`Fail`) closes that end and loses any suffix of what was under way; the other
end's receives and sends then throw. Causes are wrong sizes (of the sets the file front end is told, or of the
arguments of `RsOpprf`, checked before anything is sent: `OwnSizeWrong`), a solver that throws, the wrong coin, and
with `MayDie` the end of a process at any point.

`TwoParty` has the file front end's PSI, from the exchange of sizes to the end of the processes, and the
programmable function. In the latter bytes matter: `mem` is the memory of the receiver's output,
by byte, and `Expand` a turn of the loop that overwrites the values of `F` kept there.

Limits. `SameFunction` and what rests on it assume `FewChunks`, fewer than two full chunks. Otherwise `p` is
as long as the chunk when exactly one chunk is left: the code then sends `p` instead of the chunk, and with more
than two, the loop's tail also masks blocks of the next chunk (`Masked`), which are then masked twice. A
chunk has 2^28 blocks, so this takes an encoding of 2^29 blocks (8 GiB), more than what any of the programs
here is run with; nothing in the code or its tests promises it, and it is listed as a hazard and not as a finding.
One thread per side (RsPsi's threads are in `RsPsi`, Baxos's in `Baxos`). The OPPRF is called as its tests call it:
semi-honest and with the Paxos encoding. Branches under `if (0)` are left out.

## 3. The runs

| run | instance | what it shows |
|---|---|---|
| `rbokvs_encode` | 3 keys, 5 columns, band 3, 2-bit bytes and words, one atom, 2 decode threads (1.5 million states) | all of `RBOKVS`'s properties |
| `rbokvs_wide_band` | 1 key, 8-bit bytes and words, band 9 | `DecodeCorrect` is violated: finding 1 |
| `mpsi` | 4 parties (two clients), sets of 2 of 3 items, no failures (147 thousand states) | the protocol implements the ideal one, drains its sockets, ends |
| `mpsi_faults` | 3 parties, up to 2 deaths or a throw of the leader's solver, any encode may fail (41 thousand states) | it still implements the ideal one: the result is the intersection or nothing; connected parties never hang |
| `rspsi` | 3 and 4 items, 1 and 2 threads, mask 3 or 4 of a 4-byte block (343 thousand states) | all of `RsPsi`'s properties but the last |
| `twoparty` | 3 values, encodings of 5, 7, 8 and 11 columns in chunks of 4 unrolled by 2, 3 scripts of the VOLE, widths of 3, 4, 5 and 8 bytes with blocks of 4, both callers, both encodings, semi-honest and malicious, all failures (465 thousand states) | all of `TwoParty`'s properties but the last |
| `opprf_widths` | the programmable function, widths 4 and 5, no deaths | `ProgramsAlways` is violated: finding 5 |
| `baxos` | 5 items, 3 bins of up to 3, 1 to 3 threads, batches of 2, encoders that throw (369 thousand states) | all of `Baxos`'s properties |
| `rspsi_small_sets` | 2 items, 3 threads | `ResultIsIntersection` is violated: finding 2 |
| `paxos` | 4 items, 6 sparse and 2 dense columns, gap up to 2 (710 thousand states) | all of `Paxos`'s properties but the last |
| `paxos_randomized` | the same, always with a PRNG | `EveryKeyDecodes` is violated: finding 3 |
| `paxos_retry` | the same, without one, and failed calls are repeated | `DuplicatesRefused` is violated: finding 4 |

Why the bounds are enough. Three keys are the least for which a row is eliminated with
a row that was itself eliminated, and the run also has systems without a solution and
redundant keys; five columns leave free ones. Two threads for three keys give the
uneven last batch; a batch size of zero, with fewer keys than threads, is in no run and left to the theorem
`DecodeOnceHolds`, which has every number of both. Two clients give different orders of encodings, and a set that
one party lacks; three items give intersections of none, one and two. With one client every
failure of every role is there, and two failures include a death while the survivors
are dealing with the first. Its sets have one item, so that a proper part of the intersection cannot be reported there:
that is left to `Implements`, which is proved for sets of every size. In `rspsi`, four sender hashes cover both sides of the
move limit (3 moved, one copied), which satisfies `MoveLimitAssumption` with equality.
Four rows of weight three have every kind of gap: repeated rows, a row that needs a chain of
main rows, two gap rows at once, three (refused), equal keys both in the gap. The first two rows
are taken up to a renaming of the columns, the others are all there are; the dense hashes are
all different, equal in the columns only, and equal.

In `twoparty` five columns make a full chunk and a short one, seven end on an odd chunk that the unrolled
loop does not cover, eight and eleven are two full chunks and three, beyond `FewChunks`, where the remaining properties
(drained sockets, ends) still must hold. The receiver has one or two values and the sender none, one
or two of them. The widths are one below a block, a block, between one and two (with outputs that do and do
not end on a block boundary), and two. In `baxos` three threads have two inputs at most, so that there are
threads with nothing for a bin, merges of zero, one and two areas, a move that overlaps its source, a bin
that is too large, threads with and without a second bin, and batches that fill up and that do not.

Properties worth knowing:

* `SameSolutions`, `DecodeCorrect` and `FailIsGenuine` speak about all assignments of
  blocks to columns, not about the steps of the algorithm.
* `ImplementsIdeal` is refinement of `MpsiIdeal`: one report, equal to the intersection
  if nothing failed, otherwise the intersection or nothing, never a part.
* `ConnectedRunsEnd` starts when all connections are up. Before that the claim would be
  false: `asioConnect` retries, and listens, for ever if its peer died.
* `ResultCorrect` assumes `RegionsSuffice`, and `ResultIsIntersection` does not.
* `SameFunction` compares what the two sides compute for every pair of values: equal
  where both have encoded the value, different everywhere else.
* `DrainedAtEnd` is what makes it safe that the file front end's processes end without waiting: a
  connection closed with something unread resets, and what was sent last may be lost.
* `BinsComplete` is about a bin in the middle of being merged: what was moved and what is
  still to be moved are together the inputs of the bin.
* `DecodeCorrect` of `Paxos` assumes, for randomized encodings, what the code assumes
  (`SparseCancels`); `EveryKeyDecodes` does not.

Fairness. `RBOKVS` and `RsPsi` have weak fairness of the steps that need no one's
permission: loops and started threads are scheduled, waiting ones are woken
(`std::shared_future`, `join`). It is fairness of the whole, not of each thread, which
is enough because no thread takes steps for ever and none can stop another. In `Mpsi` weak fairness is on
`Progress`: all steps but deaths, and the end of a send only after its message has been
read, since the socket buffers may be too small for it. `TwoParty` is fair to `Progress`: both processes
run, and a message that was sent arrives unless the connection breaks. `Baxos` is fair to `Next`.
`SenderDies`, `Crash` and `Dies` are never forced.

Deadlock checking is off since runs stop at the end (`done`, `fail`, `failed`, `dead`, `terminated`), and,
in `mpsi_faults`, where a peer that died before connecting is waited for. The liveness
properties say which stops are legitimate.

## 4. Findings

1. `RBOKVS.cpp:172` keeps `8 - mW % 8` bits of the last byte instead of `mW % 8`. For
   `mW % 8` in 1, 2, 3 rows have ones past the band, which `decode` does not read. The
   condition for the mask to fit is `MaskFits`: it is the hypothesis of the theorems.
2. `RsPsi.cpp:286`: a thread's share of memory for results depends on its index, the
   items it handles on their hashes. Small sets or many threads overwrite results.
3. `PaxosImpl.h:1247`: randomized encodings take for granted that a row in the gap repeats
   a main row, which nothing ensures. If not, its key does not decode, and no error is raised.
4. `PaxosImpl.h:1095`: an `encode` that throws on a duplicate key leaves decremented
   weights behind, and the next one starts from them: it returns an encoding without some rows.
5. `RsOpprf.cpp:263` expands the values of `F` from the front of the output they are kept at the end of. For a
   width between one and two blocks, and outputs that do not end on a block boundary, the last
   values are overwritten before they are read. `Programs` holds for all other widths.

## 5. What is proved

All theorems hold for every value of the constants that satisfies the named assumptions.

`RBOKVSProofs` (assumptions: `ParamAssumption`, `HashAssumption`, and `MaskFits` as the
hypothesis of each theorem). The inductive invariant `IInv` joins types, bounds and echelon
form with the solution sets: the live rows and the keys' equations have the same
solutions, and the solved columns satisfy their rows. `DecodeCorrect` alone is not
inductive: one has to know that the output satisfies every live row when back
substitution is over, thus every key. The facts about XOR that this needs (the sum over
a symmetric difference, linearity, shifting) are lemmas about cardinalities modulo 2
of finite sets. Without `MaskFits` the first of them, that a masked band lies in the
band width, is false, and finding 1 is the counterexample. `DecodeOnceHolds` needs neither the mask nor `IInv`:
`DecodeInv` says that a thread's keys from its cursor on are not decoded, and batches do not overlap
(`BatchBounds`), because `(t + 1) * batchSize <= u * batchSize` for `t < u`, a batch size of zero included.

`RsPsiProofs` (assumptions: `SizeAssumption`, `MoveLimitAssumption`).
`SentIntactHolds`: after `i` moves the first `i` slots hold the prefixes and everything
from byte `BlockSize * i` on is untouched; from `MoveLimit` on the gap between the two
is a whole mask size, so that `memcpy` never overlaps. 100 and 16 satisfy that for all
masks. `HashesIntactHolds` and `FindReadyHolds`: `numDone` counts the threads past
their table, so the promise is fulfilled only when none is left before it, hence a
thread that stores anything finds all the others past reading.

`RsPsiResultProofs` (same assumptions) goes on from these two invariants to `ResultCorrectHolds`. After `n` look-ups
a thread has stored exactly the common items among the sender's first `n` that are its own (`StoreInv`), behind each other
from the start of its share; `RegionsSuffice` says that this stays below the next thread's share (`Room`), so that no thread
stores over another's results or over the received hashes, which is what a look-up needs to find what is there.
A merge appends the thread's items, which no other thread has, so the lengths add up to the number of
different items. Without the hypothesis `RegionsSuffice` a look-up can miss (finding 2); what holds even then is `FoundInv`,
that a thread never finds more than there is, which is why `TypesKept` needs no hypothesis: no store passes
the end of the memory.

`PaxosProofs` (assumption: `SizeAssumption`). `TriangularHolds` holds also after failed calls.
It needs that the rows of a column taken are all placed (`MInv`), so that a row placed later
has none of the columns before, and that no weight exceeds the rows left (`WInv`), so that the column
taken has a row. `WeightsExactHolds` and `NoRowLeftOut` have the hypothesis that no failed
call is repeated, without which finding 4 is their counterexample. `SolvedRowsDecodeHolds`
rests on the triangular form: the column a step sets was zero and is in no row solved
before, so XOR over a row changes by exactly what is wanted (`XorOverSolve`).

`PaxosDecodeProofs` (same assumption) goes on to what `encode` returns. `EveryRowPlacedHolds`: main rows and gap rows
are disjoint and together the rows taken (`PInv`). `GapEliminatedHolds` and `DecodeCorrectHolds` rest on three facts about
parities. The XOR of several rows decodes to the XOR of what each decodes to (`XorOver` counts the same marks, by rows or
by columns). What `getFCInv` adds to a gap row cancels every column a main row has taken: by induction on the chain of main rows,
since a row has no column that was taken before its own. And the dense columns found for the gap solve it: there are
as many sums of gap rows as sets of gap columns, so when different sums have different columns every set is reached (`GInv`,
by counting). For randomized encodings this holds only where the sparse part of the gap cancels, which is the property's
hypothesis and finding 3. `DuplicatesRefusedHolds` then needs that rows with the same hash have the same columns (`DInv`): two of them
would be a sum without columns. `SetInduction` is induction on a finite set, stated for a set of sets instead of an operator.

`BaxosProofs` (assumption: `SizeAssumption`, and `AreasSuffice` from `Init`). `IInv` has a part for
solving and one for decoding. Solving: `BarrierInv` says that `numDone` counts the threads past
distributing, and that nobody is past the barrier before all are; hence (`FilledFirst`) the areas a
merging thread reads no longer change. `CountInv` and `AreaInv` say that a thread's area of a bin
holds exactly the inputs of its range placed so far, `OwnerInv` that no two threads are ever at
the same bin, `MergeInv` that the positions already moved and the areas still to come hold the bin, which needs that
what is moved always goes to a place at or before its source and never past it, and `OutputInv` that a bin that was encoded holds
its inputs' pairs. Decoding: `DecodeInv` splits a thread's range into inputs decoded, collected in the batch of their own bin, and
still to come. The counting (areas of different threads are disjoint, sizes add up) is in lemmas about
finite sets.

`TwoPartyProofs` (assumptions: all of `RsOprf` and `TwoParty`; those that only the proofs need are `ItemAssumption`, items
are natural numbers and finitely many, `ScriptAssumption` and `CallerAssumption`, what a script and a caller can be). The
protocols read whatever comes next: nothing in a message says which one it is. `IInv` gives the messages of the main slot
numbers. `Got(X)` is the number of the next one a side will receive and `SentBy(X)` of the next one it will send, both
functions of where it is in its code; what is on its way is the run of numbers between them (`QueueInv`), and
`Body` says what message `s` must hold: the seed, a coin, the masked blocks of the chunk from its position on, the hashes or
the programmed values. It is true when sent and stays true, and the receiver needs it when it takes the message. The
messages of the VOLE, interleaved with them in the same queue, have places in its script in the same way (`VoleInv`), and
a side is ahead of the other in the script only by messages of its own. On top of that, `UnmaskedInv` says that what the receiver is
still to send is its encoding, `SenderInv` that the sender's array is `a + Enc * mD` up to where it has received and the VOLE's
correlation beyond, `OutputInv` that the receiver's outputs are what it decoded.
`DrainedAtEndHolds` follows from the numbers alone: a message left would have one past the last. `SameFunctionHolds` needs what the
rows of the two sides contain (`RowsAgree`): the item's own column shows whether it was encoded, the shared ones cancel.
`IntersectionCorrectHolds` and `ProgramsHolds` add an invariant each. `MeetInv`: when the receiver is done, it has matched its outputs
with the hashes of all the sender's values. `MemInv`: with `k` values expanded, the memory holds the programmed bytes of these and, from where it was put
at the end, the values of `F` of the others; `Layout` shows that writing value `k` stays below the next one kept if `m` is
at most one block, at least two, or the values fill whole blocks (`(n - k) * (m - BlockSize)` is at least the bytes lost to alignment).
That is exactly the hypothesis of `Programs`; without it finding 5 is the counterexample.

`MpsiProofs` (assumption: `UserAssumption`), for any number of parties, deaths, throws of the leader's solver and failing encodes.
`SumIsRand` opens the XOR of all encodings once: an item decodes to the leader's random block exactly if no
encode failed and the leader and all clients have it, because a client's share otherwise stays in the
sum. The invariant then says, per party, what its sockets can hold at each of its places, that no encode is
still to come when a result that depends on it exists, and that a party only stops early after a failure.
From it follow `NeverWrong`, `Drained` and `Implements`: every step is a step of `MpsiIdeal` or a stutter, since
only the leader's `Close` reports, and then the result is the intersection, or empty after a failure.

Every invariant, action property and refinement that a passing run checks is proved. Only model-checked: liveness (`Terminates`,
`RunEnds`, `EveryoneFinishes`, `ConnectedRunsEnd`, `BothEnd`, `SolveEnds`), since fairness and `ENABLED` are out of this
prover's reach, and, of course, the findings' counterexamples.

## 6. Not modelled

* The GF128 dense columns of `Paxos` (`backfillGf128`, `gf128Inv`). They differ from the binary ones in the arithmetic of
  the gap. The search for a pivot at line 84 compares with one where its comment says non-zero: it takes effect only
  if an element on the diagonal is zero, which for random rows happens with probability 2^-128 per pivot.
* `SimpleIndex::init` and `insertItems`: nothing calls them. `get_bin_size` and `getParams` are floating-point
  searches; the models take their results as constants or assumptions.
* Reading, parsing, sorting and writing files, command lines, timing output.
* Two limits no program here reaches: one party (`User_Num - 2` wraps around) and masks below four bytes
  (`RsPsi.cpp:261`), since `init` gives at least five at the default `ssp`.
* The stages of the vectorised decode: they compute what `decode1` does, eight or more rows at a time.

Out of scope: cryptographic strength (probabilities, 2^-Lambda bounds, the malicious
model's proofs), the VOLE and OT of libOTe, coproto and macoro (vendored; modelled by what
the code above them relies on), file parsing, command lines, timing output, and
`get_bin_size` and `getParams` (floating point).
