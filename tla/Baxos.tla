-------------------------------- MODULE Baxos --------------------------------
(***************************************************************************)
(* The bins and threads of volePSI's OKVS: implParSolve and implParDecode  *)
(* of PaxosImpl.h, for more than one bin.                                  *)
(*                                                                         *)
(* To solve, each thread distributes a range of the inputs into bins, into *)
(* areas of its own of two arrays, one of hashes and one of values.  When  *)
(* all have, it takes every numThreads-th bin, moves what the threads have *)
(* put there together, behind thread 0's, and has Paxos encode it.  The    *)
(* last thread is the caller's.  To decode, each thread collects a range   *)
(* of the inputs in batches per bin and decodes a batch when it is full,   *)
(* and the rest at the end.                                                *)
(*                                                                         *)
(* Inputs are their positions, and so are their hashes and values.  The    *)
(* bin an input falls into is any, but no thread puts more into a bin than *)
(* its area holds: the code sizes the areas for that to fail only with     *)
(* probability 2^-mSsp, and checks it in debug builds only.  What Paxos    *)
(* does is in module Paxos: here it keeps the pairs it is given, or throws. *)
(***************************************************************************)
EXTENDS Integers, FiniteSets, Sequences, SequencesExt

CONSTANTS
  mNumItems, mNumBins,
  mItemsPerBin,        \* the most items Paxos takes
  ThreadCounts,        \* the values of numThreads considered
  PerThrdMaxBinSize,   \* by numThreads, what a thread's area of a bin holds
  DecodeBatch          \* inputs decoded at once, 512 in the code

ASSUME SizeAssumption ==
  /\ mNumItems \in Nat \ {0} /\ mNumBins \in Nat \ {0, 1}
  /\ mItemsPerBin \in Nat /\ DecodeBatch \in Nat \ {0}
  /\ ThreadCounts \subseteq Nat \ {0}
  /\ PerThrdMaxBinSize \in [ThreadCounts -> Nat \ {0}]

Inputs == 0 .. mNumItems - 1
Bins   == 0 .. mNumBins - 1
None   == -1      \* uninitialised memory

VARIABLES
  numThreads, bin, mAddToDecode,
  main,            \* the caller: "solve", "decode", "returned", "error", "terminated"
  started,         \* threads started
  tpc,             \* a thread: "none", "fill", "barrier", "bins", "merge",
                   \* "end", and to decode "batch", "flush", "decoded"
  inIdx,           \* the input a thread takes next
  thrdBinSizes, hashBacking, valBacking,
  numDone, hashingDone,
  binIdx,          \* the bin a thread is at
  thrd, binPos,    \* whose items it moves next, and where to
  output,          \* by bin, the pairs its encoding holds
  batches,         \* by thread and bin, the inputs collected
  values           \* what was decoded

sharedVars == <<thrdBinSizes, hashBacking, valBacking>>
decodeVars == <<batches, values>>
params     == <<numThreads, bin, mAddToDecode>>
vars == <<params, main, started, tpc, inIdx, sharedVars, numDone, hashingDone, binIdx,
          thrd, binPos, output, decodeVars>>

Threads == 0 .. numThreads - 1

\* The inputs of a thread.
Begin(t) == (mNumItems * t) \div numThreads
End(t)   == (mNumItems * (t + 1)) \div numThreads

perThrdMaxBinSize  == PerThrdMaxBinSize[numThreads]
combinedMaxBinSize == perThrdMaxBinSize * numThreads
Backing            == 0 .. mNumBins * combinedMaxBinSize - 1

\* Where thread t's area of bin b begins.
Area(t, b) == combinedMaxBinSize * b + perThrdMaxBinSize * t

AreasSuffice ==
  \A t \in Threads, b \in Bins :
    Cardinality({i \in Begin(t) .. End(t) - 1 : bin[i] = b}) <= perThrdMaxBinSize

Old    == {<<"old", 0>>}
Val(i) == {<<"val", i>>}
Noise  == {<<"noise", 0>>}

Init ==
  /\ numThreads \in ThreadCounts
  /\ bin \in [Inputs -> Bins]
  /\ AreasSuffice
  /\ mAddToDecode \in BOOLEAN
  /\ main = "solve" /\ started = 0
  /\ tpc = [t \in Threads |-> "none"]
  /\ inIdx = [t \in Threads |-> Begin(t)]
  /\ thrdBinSizes = [t \in Threads |-> [b \in Bins |-> 0]]
  /\ hashBacking = [q \in Backing |-> None]
  /\ valBacking = [q \in Backing |-> None]
  /\ numDone = 0 /\ hashingDone = FALSE
  /\ binIdx = [t \in Threads |-> t]
  /\ thrd = [t \in Threads |-> 0]
  /\ binPos = [t \in Threads |-> 0]
  /\ output = [b \in Bins |-> {}]
  /\ batches = [t \in Threads |-> [b \in Bins |-> << >>]]
  /\ values = [i \in Inputs |-> Old]

-----------------------------------------------------------------------------
(* The caller. *)

\* Threads are started one after the other; the last routine runs on the
\* caller's own.
Start ==
  /\ main \in {"solve", "decode"} /\ started < numThreads
  /\ tpc' = [tpc EXCEPT ![started] = IF main = "solve" THEN "fill" ELSE "batch"]
  /\ started' = started + 1
  /\ UNCHANGED <<params, main, inIdx, sharedVars, numDone, hashingDone, binIdx, thrd,
                 binPos, output, decodeVars>>

\* All are joined, and what was solved is decoded.
SolveJoin ==
  /\ main = "solve" /\ started = numThreads /\ \A t \in Threads : tpc[t] = "end"
  /\ main' = "decode" /\ started' = 0
  /\ inIdx' = [t \in Threads |-> Begin(t)]
  /\ binIdx' = [t \in Threads |-> 0]
  /\ tpc' = [t \in Threads |-> "none"]
  /\ UNCHANGED <<params, sharedVars, numDone, hashingDone, thrd, binPos, output,
                 decodeVars>>

DecodeJoin ==
  /\ main = "decode" /\ started = numThreads /\ \A t \in Threads : tpc[t] = "decoded"
  /\ main' = "returned"
  /\ UNCHANGED <<params, started, tpc, inIdx, sharedVars, numDone, hashingDone, binIdx,
                 thrd, binPos, output, decodeVars>>

\* An exception leaves a thread's routine.  Only without threads does the
\* caller get it: in a thread nobody catches it, and on the caller's own the
\* others would have to be joined before their handles go.
Throws(t) ==
  /\ main' = IF numThreads = 1 THEN "error" ELSE "terminated"
  /\ tpc' = [u \in Threads |-> "none"]
  /\ UNCHANGED <<params, started, inIdx, sharedVars, numDone, hashingDone, binIdx, thrd,
                 binPos, output, decodeVars>>

-----------------------------------------------------------------------------
(* The threads of implParSolve. *)

Fill(t) ==
  /\ tpc[t] = "fill" /\ inIdx[t] < End(t)
  /\ LET i == inIdx[t]
         b == bin[i]
         q == Area(t, b) + thrdBinSizes[t][b]
     IN  /\ thrdBinSizes' = [thrdBinSizes EXCEPT ![t][b] = @ + 1]
         /\ hashBacking' = [hashBacking EXCEPT ![q] = i]
         /\ valBacking' = [valBacking EXCEPT ![q] = i]
  /\ inIdx' = [inIdx EXCEPT ![t] = @ + 1]
  /\ UNCHANGED <<params, main, started, tpc, numDone, hashingDone, binIdx, thrd, binPos,
                 output, decodeVars>>

\* ++numDone read apart from its increment.
FillEndPost_mut(t) ==
  /\ tpc[t] = "fill" /\ inIdx[t] = End(t)
  /\ numDone' = numDone + 1
  /\ IF numDone = numThreads
     THEN hashingDone' = TRUE /\ tpc' = [tpc EXCEPT ![t] = "bins"]
     ELSE UNCHANGED hashingDone /\ tpc' = [tpc EXCEPT ![t] = "barrier"]
  /\ UNCHANGED <<params, main, started, inIdx, sharedVars, binIdx, thrd, binPos, output,
                 decodeVars>>

\* The last one to have mapped its items releases the others.
FillEnd(t) ==
  /\ tpc[t] = "fill" /\ inIdx[t] = End(t)
  /\ numDone' = numDone + 1
  /\ IF numDone' = numThreads
     THEN hashingDone' = TRUE /\ tpc' = [tpc EXCEPT ![t] = "bins"]
     ELSE UNCHANGED hashingDone /\ tpc' = [tpc EXCEPT ![t] = "barrier"]
  /\ UNCHANGED <<params, main, started, inIdx, sharedVars, binIdx, thrd, binPos, output,
                 decodeVars>>

BarrierOpen_mut(t) ==
  /\ tpc[t] = "barrier"
  /\ tpc' = [tpc EXCEPT ![t] = "bins"]
  /\ UNCHANGED <<params, main, started, inIdx, sharedVars, numDone, hashingDone, binIdx,
                 thrd, binPos, output, decodeVars>>

Barrier(t) ==
  /\ tpc[t] = "barrier" /\ hashingDone
  /\ tpc' = [tpc EXCEPT ![t] = "bins"]
  /\ UNCHANGED <<params, main, started, inIdx, sharedVars, numDone, hashingDone, binIdx,
                 thrd, binPos, output, decodeVars>>

\* The items of the first k threads in bin b, and of all: a sum of counts.
ItemsBefore(k, b) ==
  Cardinality({x \in (0 .. k - 1) \X (0 .. perThrdMaxBinSize - 1) :
                 x[2] < thrdBinSizes[x[1]][b]})
BinSize(b) == ItemsBefore(numThreads, b)

BinTooLarge(t) ==
  /\ tpc[t] = "bins" /\ binIdx[t] < mNumBins /\ BinSize(binIdx[t]) > mItemsPerBin
  /\ Throws(t)

BinStart(t) ==
  /\ tpc[t] = "bins" /\ binIdx[t] < mNumBins /\ BinSize(binIdx[t]) <= mItemsPerBin
  /\ tpc' = [tpc EXCEPT ![t] = "merge"]
  /\ thrd' = [thrd EXCEPT ![t] = 1]
  /\ binPos' = [binPos EXCEPT ![t] = thrdBinSizes[0][binIdx[t]]]
  /\ UNCHANGED <<params, main, started, inIdx, sharedVars, numDone, hashingDone, binIdx,
                 output, decodeVars>>

\* A copy of n cells from src to dst: memmove, and one cell after the other.
Moved(f, dst, src, n) ==
  [q \in DOMAIN f |-> IF q \in dst .. dst + n - 1 THEN f[src + q - dst] ELSE f[q]]
Assigned(f, dst, src, n) ==
  [q \in DOMAIN f |->
     IF q \in dst .. dst + n - 1
     THEN f[src + IF dst > src THEN (q - dst) % (dst - src) ELSE q - dst] ELSE f[q]]

Merge(t) ==
  /\ tpc[t] = "merge" /\ thrd[t] < numThreads
  /\ LET b    == binIdx[t]
         dst  == Area(0, b) + binPos[t]
         src  == Area(thrd[t], b)
         size == thrdBinSizes[thrd[t]][b]
     IN  /\ hashBacking' = Moved(hashBacking, dst, src, size)
         /\ valBacking' = Assigned(valBacking, dst, src, size)
         /\ binPos' = [binPos EXCEPT ![t] = @ + size]
  /\ thrd' = [thrd EXCEPT ![t] = @ + 1]
  /\ UNCHANGED <<params, main, started, tpc, inIdx, thrdBinSizes, numDone, hashingDone,
                 binIdx, output, decodeVars>>

GivenOneMore_mut(b) ==
  {<<hashBacking[Area(0, b) + k], valBacking[Area(0, b) + k]>> : k \in 0 .. BinSize(b)}

\* What Paxos is given for bin b: hashes and values by position.
Given(b) ==
  {<<hashBacking[Area(0, b) + k], valBacking[Area(0, b) + k]>> : k \in 0 .. BinSize(b) - 1}

Encode(t) ==
  /\ tpc[t] = "merge" /\ thrd[t] >= numThreads
  /\ output' = [output EXCEPT ![binIdx[t]] = Given(binIdx[t])]
  /\ tpc' = [tpc EXCEPT ![t] = "bins"]
  /\ binIdx' = [binIdx EXCEPT ![t] = @ + numThreads]
  /\ UNCHANGED <<params, main, started, inIdx, sharedVars, numDone, hashingDone, thrd,
                 binPos, decodeVars>>

\* Paxos finds no encoding.
EncodeThrows(t) ==
  /\ tpc[t] = "merge" /\ thrd[t] >= numThreads
  /\ Throws(t)

BinsEnd(t) ==
  /\ tpc[t] = "bins" /\ binIdx[t] >= mNumBins
  /\ tpc' = [tpc EXCEPT ![t] = "end"]
  /\ UNCHANGED <<params, main, started, inIdx, sharedVars, numDone, hashingDone, binIdx,
                 thrd, binPos, output, decodeVars>>

-----------------------------------------------------------------------------
(* The threads of implParDecode. *)

decodeSize(t) == IF DecodeBatch < End(t) - Begin(t) THEN DecodeBatch ELSE End(t) - Begin(t)

Decode(i) == IF <<i, i>> \in output[bin[i]] THEN Val(i) ELSE Noise

\* implDecodeBin: the inputs in a batch are decoded and assigned or added.
DecodeBin(batch) ==
  [i \in Inputs |->
     IF i \notin ToSet(batch) THEN values[i]
     ELSE IF mAddToDecode
          THEN (values[i] \ Decode(i)) \cup (Decode(i) \ values[i]) ELSE Decode(i)]

CollectNoClear_mut(t) ==
  /\ tpc[t] = "batch" /\ inIdx[t] < End(t)
  /\ LET i == inIdx[t]
         batch == Append(batches[t][bin[i]], i)
     IN  IF Len(batch) = decodeSize(t)
         THEN /\ values' = DecodeBin(batch)
              /\ batches' = [batches EXCEPT ![t][bin[i]] = batch]
         ELSE /\ batches' = [batches EXCEPT ![t][bin[i]] = batch]
              /\ UNCHANGED values
  /\ inIdx' = [inIdx EXCEPT ![t] = @ + 1]
  /\ UNCHANGED <<params, main, started, tpc, sharedVars, numDone, hashingDone, binIdx,
                 thrd, binPos, output>>

Collect(t) ==
  /\ tpc[t] = "batch" /\ inIdx[t] < End(t)
  /\ LET i == inIdx[t]
         batch == Append(batches[t][bin[i]], i)
     IN  IF Len(batch) = decodeSize(t)
         THEN /\ values' = DecodeBin(batch)
              /\ batches' = [batches EXCEPT ![t][bin[i]] = << >>]
         ELSE /\ batches' = [batches EXCEPT ![t][bin[i]] = batch]
              /\ UNCHANGED values
  /\ inIdx' = [inIdx EXCEPT ![t] = @ + 1]
  /\ UNCHANGED <<params, main, started, tpc, sharedVars, numDone, hashingDone, binIdx,
                 thrd, binPos, output>>

\* What is left in the batches, one bin after the other.
Flush(t) ==
  /\ tpc[t] = "batch" /\ inIdx[t] = End(t)
  /\ values' = DecodeBin(batches[t][binIdx[t]])
  /\ binIdx' = [binIdx EXCEPT ![t] = @ + 1]
  /\ tpc' = [tpc EXCEPT ![t] = IF binIdx'[t] = mNumBins THEN "decoded" ELSE "batch"]
  /\ UNCHANGED <<params, main, started, inIdx, sharedVars, numDone, hashingDone, thrd,
                 binPos, output, batches>>

-----------------------------------------------------------------------------

SolveStep(t) == Fill(t) \/ FillEnd(t) \/ Barrier(t) \/ BinTooLarge(t) \/ BinStart(t)
                \/ Merge(t) \/ Encode(t) \/ EncodeThrows(t) \/ BinsEnd(t)

DecodeStep(t) == Collect(t) \/ Flush(t)

Next == Start \/ SolveJoin \/ DecodeJoin
        \/ \E t \in Threads : SolveStep(t) \/ DecodeStep(t)

Spec == Init /\ [][Next]_vars

\* Threads are scheduled, and a blocked one is woken by what it waits for.
FairSpec == Spec /\ WF_vars(Next)

-----------------------------------------------------------------------------
(* Properties. *)

InBin(b) == {i \in Inputs : bin[i] = b}

\* Every variable keeps its type: no thread writes outside the arrays, its own
\* inputs, or the bins.
TypeOK ==
  /\ main \in {"solve", "decode", "returned", "error", "terminated"}
  /\ started \in 0 .. numThreads /\ numDone \in 0 .. numThreads /\ hashingDone \in BOOLEAN
  /\ tpc \in [Threads -> {"none", "fill", "barrier", "bins", "merge", "end", "batch",
                          "decoded"}]
  /\ \A t \in Threads : inIdx[t] \in Begin(t) .. End(t)
  /\ thrdBinSizes \in [Threads -> [Bins -> 0 .. perThrdMaxBinSize]]
  /\ hashBacking \in [Backing -> Inputs \cup {None}]
  /\ valBacking \in [Backing -> Inputs \cup {None}]
  /\ binIdx \in [Threads -> 0 .. mNumBins + numThreads]
  /\ thrd \in [Threads -> 0 .. numThreads]
  /\ binPos \in [Threads -> 0 .. combinedMaxBinSize]
  /\ output \in [Bins -> SUBSET (Inputs \X Inputs)]

\* A thread that has come to merge a bin finds in its arrays, wherever the
\* merge is, every input of the bin that is still to be moved, and those moved
\* behind each other: no thread has one left to distribute, and no move writes
\* over an area before it was read.
BinsComplete ==
  \A t \in Threads : tpc[t] = "merge" =>
    LET b == binIdx[t]
        moved == {Area(0, b) + k : k \in 0 .. binPos[t] - 1}
        left  == UNION {{Area(u, b) + k : k \in 0 .. thrdBinSizes[u][b] - 1} :
                          u \in thrd[t] .. numThreads - 1}
    IN  /\ {hashBacking[q] : q \in moved \cup left} = InBin(b)
        /\ \A q \in moved \cup left : valBacking[q] = hashBacking[q]

\* solve has encoded every input with its value, and decode gives it back,
\* assigned or added exactly once, whatever batches the inputs fall into.
DecodedOnce ==
  main = "returned" =>
    \A i \in Inputs : values[i] = IF mAddToDecode THEN Old \cup Val(i) ELSE Val(i)

\* solve and decode come to an end: no thread waits at the barrier for ever.
SolveEnds == <>[](main \in {"returned", "error", "terminated"})

=============================================================================
