-------------------------------- MODULE RsPsi --------------------------------
(***************************************************************************)
(* The two-party intersection of volePSI/RsPsi.cpp, after its OPRF.        *)
(*                                                                         *)
(* The OPRF gives both sides a 128-bit hash of each item.  The sender      *)
(* shortens its hashes in place to mMaskSize bytes and sends them.  The    *)
(* receiver looks them up among its own hashes: by itself, or with         *)
(* mNumThreads threads, each of them responsible for the hashes whose low  *)
(* word is its index modulo mNumThreads.  The threads wait for each other  *)
(* before they look anything up, because they store what they find in the  *)
(* memory that holds the receiver's own hashes.                            *)
(*                                                                         *)
(* The hash of an item is a block whose byte b is <<item, b>>: the hashes  *)
(* of two items differ in their first mMaskSize bytes but for the          *)
(* statistical error the mask size is computed from.                       *)
(***************************************************************************)
EXTENDS Integers, FiniteSets, Sequences, SequencesExt

CONSTANTS
  mRecverSize,   \* number of the receiver's items, which are 0 .. mRecverSize - 1
  mSenderSize,   \* number of the sender's items
  Foreign,       \* items only the sender may have
  ThreadCounts,  \* the values of mNumThreads considered
  MaskSizes,     \* the values of mMaskSize considered, in bytes
  BlockSize,     \* bytes of a block, 16 in the code
  MoveLimit      \* the sender's first hashes, moved with memmove, 100 in the code

ASSUME SizeAssumption ==
  /\ mRecverSize \in Nat \ {0} /\ mSenderSize \in Nat \ {0}
  /\ ThreadCounts \subseteq Nat \ {0}
  /\ BlockSize \in Nat \ {0} /\ BlockSize % 2 = 0
  /\ MaskSizes \subseteq 1 .. BlockSize
  /\ MoveLimit \in Nat
  /\ Foreign \cap (0 .. mRecverSize - 1) = {}

\* What lets the later hashes be copied with memcpy, for 100, 16 and any mask
\* size below 16.
ASSUME MoveLimitAssumption ==
  \A m \in MaskSizes : m < BlockSize => MoveLimit * (BlockSize - m) >= m

RecvIds   == 0 .. mRecverSize - 1
SendIds   == 0 .. mSenderSize - 1
Items     == RecvIds \cup Foreign
WordSize  == BlockSize \div 2     \* bytes of a u64

Hash == -1           \* a word of a hash in the receiver's memory
Torn == <<-1, -1>>   \* a byte of a memcpy onto itself

VARIABLES
  mNumThreads, mMaskSize,
  theirs,         \* the sender's items
  thread,         \* the low word of an item's hash modulo mNumThreads
  spc,            \* the sender: "compress", "send", "done" or "dead"
  hashes,         \* the bytes of the sender's buffer
  si,             \* the hash it moves next
  wire,           \* the message on its way: << >> or the sender's hashes
  rpc,            \* the receiver's own thread
  ri,             \* the thread it spawns or joins next
  theirHashes,    \* << >> or the hashes received
  words,          \* the words of the receiver's memory, from myHashes on
  numDone, hashingDone,
  fu,             \* whether the receiver's promise is fulfilled
  tpc,            \* the threads: "none", "hash", "barrier", "recv", "find", "end"
  ti,             \* the hash a thread reads next
  map,            \* the hash table of a thread
  found,          \* intersectionSize of a thread
  mIntersection

params     == <<mNumThreads, mMaskSize, theirs, thread>>
senderVars == <<spc, hashes, si>>
threadVars == <<numDone, hashingDone, tpc, ti, map, found>>
vars == <<params, senderVars, wire, rpc, ri, theirHashes, words, fu, threadVars,
          mIntersection>>

Threads == 0 .. mNumThreads - 1

\* The prefix of an item's hash that is compared.
HashOf(x) == [b \in 0 .. mMaskSize - 1 |-> <<x, b>>]

\* The words a thread may store its results in start at its share of myHashes.
Begin(t) == 2 * ((t * mRecverSize) \div mNumThreads)

\* The memory a thread can reach: myHashes, and theirHashes behind it.
Words == 0 .. 3 * mRecverSize

Init ==
  /\ mNumThreads \in ThreadCounts
  /\ mMaskSize \in MaskSizes
  /\ theirs \in {f \in [SendIds -> Items] : \A j, k \in SendIds : f[j] = f[k] => j = k}
  /\ thread \in [Items -> 0 .. mNumThreads - 1]
  /\ spc = IF mMaskSize # BlockSize THEN "compress" ELSE "send"
  /\ hashes = [q \in 0 .. BlockSize * mSenderSize - 1 |->
                 <<theirs[q \div BlockSize], q % BlockSize>>]
  /\ si = 0
  /\ wire = << >>
  /\ rpc = IF mNumThreads < 2 THEN "insert" ELSE "spawn"
  /\ ri = 0
  /\ theirHashes = << >>
  /\ words = [w \in Words |-> Hash]
  /\ numDone = 0
  /\ hashingDone = FALSE
  /\ fu = FALSE
  /\ tpc = [t \in Threads |-> "none"]
  /\ ti = [t \in Threads |-> 0]
  /\ map = [t \in Threads |-> {}]
  /\ found = [t \in Threads |-> 0]
  /\ mIntersection = << >>

-----------------------------------------------------------------------------
(* The sender. *)

Dest(i) == mMaskSize * i .. mMaskSize * i + mMaskSize - 1
Src(i)  == BlockSize * i .. BlockSize * i + mMaskSize - 1

\* memmove reads the whole source before it writes.
Moved(i) ==
  [q \in DOMAIN hashes |->
     IF q \in Dest(i) THEN hashes[q - mMaskSize * i + BlockSize * i] ELSE hashes[q]]

\* memcpy is undefined when source and destination overlap.
Copied(i) ==
  IF Dest(i) \cap Src(i) = {}
  THEN Moved(i)
  ELSE [q \in DOMAIN hashes |-> IF q \in Dest(i) THEN Torn ELSE hashes[q]]

CompressMoveMemcpy_mut ==
  /\ spc = "compress" /\ si < mSenderSize /\ si < MoveLimit
  /\ hashes' = Copied(si)
  /\ si' = si + 1
  /\ UNCHANGED <<params, spc, wire, rpc, ri, theirHashes, words, fu, threadVars,
                 mIntersection>>

CompressMove ==
  /\ spc = "compress" /\ si < mSenderSize /\ si < MoveLimit
  /\ hashes' = Moved(si)
  /\ si' = si + 1
  /\ UNCHANGED <<params, spc, wire, rpc, ri, theirHashes, words, fu, threadVars,
                 mIntersection>>

CompressCopy ==
  /\ spc = "compress" /\ si < mSenderSize /\ si >= MoveLimit
  /\ hashes' = Copied(si)
  /\ si' = si + 1
  /\ UNCHANGED <<params, spc, wire, rpc, ri, theirHashes, words, fu, threadVars,
                 mIntersection>>

CompressEnd ==
  /\ spc = "compress" /\ si = mSenderSize
  /\ spc' = "send"
  /\ UNCHANGED <<params, hashes, si, wire, rpc, ri, theirHashes, words, fu,
                 threadVars, mIntersection>>

SendHashes ==
  /\ spc = "send"
  /\ wire' = [j \in SendIds |-> [b \in 0 .. mMaskSize - 1 |-> hashes[mMaskSize * j + b]]]
  /\ spc' = "done"
  /\ UNCHANGED <<params, hashes, si, rpc, ri, theirHashes, words, fu, threadVars,
                 mIntersection>>

\* The sender's process ends before it has sent its hashes.
SenderDies ==
  /\ spc \in {"compress", "send"}
  /\ spc' = "dead"
  /\ UNCHANGED <<params, hashes, si, wire, rpc, ri, theirHashes, words, fu,
                 threadVars, mIntersection>>

-----------------------------------------------------------------------------
(* The receiver's own thread. *)

\* The hashes a thread's table holds that equal the j-th received one.  A
\* received hash is gone once a thread has stored a result over it.
StoredOver(j) ==
  \E w \in Words : /\ w >= 2 * mRecverSize /\ words[w] # Hash
                   /\ (w - 2 * mRecverSize) * WordSize < mMaskSize * (j + 1)
                   /\ (w - 2 * mRecverSize + 1) * WordSize > mMaskSize * j

Lookup(t, j) ==
  {x \in map[t] : theirHashes[j] = HashOf(x) /\ ~ StoredOver(j)}

\* Without threads: one table for all hashes, kept in place of thread 0's.
SingleInsert ==
  /\ rpc = "insert"
  /\ map' = [map EXCEPT ![0] = RecvIds]
  /\ rpc' = "recv"
  /\ UNCHANGED <<params, senderVars, wire, ri, theirHashes, words, numDone,
                 hashingDone, fu, tpc, ti, found, mIntersection>>

SingleFind ==
  /\ rpc = "find" /\ ti[0] < mSenderSize
  /\ mIntersection' = mIntersection \o SetToSeq(Lookup(0, ti[0]))
  /\ ti' = [ti EXCEPT ![0] = @ + 1]
  /\ UNCHANGED <<params, senderVars, wire, rpc, ri, theirHashes, words, numDone,
                 hashingDone, fu, tpc, map, found>>

SingleEnd ==
  /\ rpc = "find" /\ ti[0] = mSenderSize
  /\ rpc' = "done"
  /\ UNCHANGED <<params, senderVars, wire, ri, theirHashes, words, fu, threadVars,
                 mIntersection>>

Spawn ==
  /\ rpc = "spawn"
  /\ tpc' = [tpc EXCEPT ![ri] = "hash"]
  /\ IF ri + 1 = mNumThreads THEN rpc' = "recv" /\ ri' = 0
                             ELSE ri' = ri + 1 /\ UNCHANGED rpc
  /\ UNCHANGED <<params, senderVars, wire, theirHashes, words, fu, numDone,
                 hashingDone, ti, map, found, mIntersection>>

Recv ==
  /\ rpc = "recv" /\ wire # << >>
  /\ theirHashes' = wire
  /\ wire' = << >>
  /\ rpc' = IF mNumThreads < 2 THEN "find" ELSE "signal"
  /\ UNCHANGED <<params, senderVars, ri, words, fu, threadVars, mIntersection>>

\* The receive throws.  Without threads the exception leaves run; with them
\* the frame that holds the threads goes away before they are joined, which
\* std::thread answers with std::terminate.
RecvFails ==
  /\ rpc = "recv" /\ wire = << >> /\ spc = "dead"
  /\ rpc' = IF mNumThreads < 2 THEN "error" ELSE "terminated"
  /\ tpc' = [t \in Threads |-> "none"]
  /\ UNCHANGED <<params, senderVars, wire, ri, theirHashes, words, fu, numDone,
                 hashingDone, ti, map, found, mIntersection>>

Signal ==
  /\ rpc = "signal"
  /\ fu' = TRUE
  /\ rpc' = "join"
  /\ UNCHANGED <<params, senderVars, wire, ri, theirHashes, words, threadVars,
                 mIntersection>>

Join ==
  /\ rpc = "join" /\ tpc[ri] = "end"
  /\ IF ri + 1 = mNumThreads THEN rpc' = "done" ELSE UNCHANGED rpc
  /\ ri' = ri + 1
  /\ UNCHANGED <<params, senderVars, wire, theirHashes, words, fu, threadVars,
                 mIntersection>>

-----------------------------------------------------------------------------
(* The receiver's threads. *)

\* The hash i of the receiver, unless a result is stored over it.
IsHash(i) == words[2 * i] = Hash /\ words[2 * i + 1] = Hash

HashItem(t) ==
  /\ tpc[t] = "hash" /\ ti[t] < mRecverSize
  /\ map' = [map EXCEPT ![t] =
               @ \cup {i \in {ti[t]} : IsHash(i) /\ thread[i] = t}]
  /\ ti' = [ti EXCEPT ![t] = @ + 1]
  /\ UNCHANGED <<params, senderVars, wire, rpc, ri, theirHashes, words, fu, numDone,
                 hashingDone, tpc, found, mIntersection>>

HashEndNoBarrier_mut(t) ==
  /\ tpc[t] = "hash" /\ ti[t] = mRecverSize
  /\ numDone' = numDone + 1
  /\ tpc' = [tpc EXCEPT ![t] = "recv"]
  /\ UNCHANGED <<params, senderVars, wire, rpc, ri, theirHashes, words, fu, ti, map,
                 hashingDone, found, mIntersection>>

HashEndPostIncrement_mut(t) ==
  /\ tpc[t] = "hash" /\ ti[t] = mRecverSize
  /\ numDone' = numDone + 1
  /\ IF numDone = mNumThreads
     THEN hashingDone' = TRUE /\ tpc' = [tpc EXCEPT ![t] = "recv"]
     ELSE UNCHANGED hashingDone /\ tpc' = [tpc EXCEPT ![t] = "barrier"]
  /\ UNCHANGED <<params, senderVars, wire, rpc, ri, theirHashes, words, fu, ti, map,
                 found, mIntersection>>

\* The last thread to finish its table releases the others.
HashEnd(t) ==
  /\ tpc[t] = "hash" /\ ti[t] = mRecverSize
  /\ numDone' = numDone + 1
  /\ IF numDone' = mNumThreads
     THEN hashingDone' = TRUE /\ tpc' = [tpc EXCEPT ![t] = "recv"]
     ELSE UNCHANGED hashingDone /\ tpc' = [tpc EXCEPT ![t] = "barrier"]
  /\ UNCHANGED <<params, senderVars, wire, rpc, ri, theirHashes, words, fu, ti, map,
                 found, mIntersection>>

HashingDone(t) ==
  /\ tpc[t] = "barrier" /\ hashingDone
  /\ tpc' = [tpc EXCEPT ![t] = "recv"]
  /\ UNCHANGED <<params, senderVars, wire, rpc, ri, theirHashes, words, fu, numDone,
                 hashingDone, ti, map, found, mIntersection>>

RecvDoneNoWait_mut(t) ==
  /\ tpc[t] = "recv"
  /\ tpc' = [tpc EXCEPT ![t] = "find"]
  /\ ti' = [ti EXCEPT ![t] = 0]
  /\ UNCHANGED <<params, senderVars, wire, rpc, ri, theirHashes, words, fu, numDone,
                 hashingDone, map, found, mIntersection>>

RecvDone(t) ==
  /\ tpc[t] = "recv" /\ fu
  /\ tpc' = [tpc EXCEPT ![t] = "find"]
  /\ ti' = [ti EXCEPT ![t] = 0]
  /\ UNCHANGED <<params, senderVars, wire, rpc, ri, theirHashes, words, fu, numDone,
                 hashingDone, map, found, mIntersection>>

\* What thread t finds for the j-th received hash, if it is one of its own.
Found(t, j) == {x \in Lookup(t, j) : thread[x] = t}

FindItemPreIncrement_mut(t) ==
  /\ tpc[t] = "find" /\ ti[t] < mSenderSize
  /\ \/ /\ Found(t, ti[t]) = {}
        /\ UNCHANGED <<words, found>>
     \/ \E x \in Found(t, ti[t]) :
          /\ found' = [found EXCEPT ![t] = @ + 1]
          /\ words' = [words EXCEPT ![Begin(t) + found'[t]] = x]
  /\ ti' = [ti EXCEPT ![t] = @ + 1]
  /\ UNCHANGED <<params, senderVars, wire, rpc, ri, theirHashes, fu, numDone,
                 hashingDone, tpc, map, mIntersection>>

FindItemSenderIndex_mut(t) ==
  /\ tpc[t] = "find" /\ ti[t] < mSenderSize
  /\ \/ /\ Found(t, ti[t]) = {}
        /\ UNCHANGED <<words, found>>
     \/ \E x \in Found(t, ti[t]) :
          /\ words' = [words EXCEPT ![Begin(t) + found[t]] = ti[t]]
          /\ found' = [found EXCEPT ![t] = @ + 1]
  /\ ti' = [ti EXCEPT ![t] = @ + 1]
  /\ UNCHANGED <<params, senderVars, wire, rpc, ri, theirHashes, fu, numDone,
                 hashingDone, tpc, map, mIntersection>>

FindItem(t) ==
  /\ tpc[t] = "find" /\ ti[t] < mSenderSize
  /\ \/ /\ Found(t, ti[t]) = {}
        /\ UNCHANGED <<words, found>>
     \/ \E x \in Found(t, ti[t]) :
          /\ words' = [words EXCEPT ![Begin(t) + found[t]] = x]
          /\ found' = [found EXCEPT ![t] = @ + 1]
  /\ ti' = [ti EXCEPT ![t] = @ + 1]
  /\ UNCHANGED <<params, senderVars, wire, rpc, ri, theirHashes, fu, numDone,
                 hashingDone, tpc, map, mIntersection>>

\* Under mMergeMtx the thread appends what its words hold now.
Merge(t) ==
  /\ tpc[t] = "find" /\ ti[t] = mSenderSize
  /\ mIntersection' = mIntersection \o [k \in 1 .. found[t] |-> words[Begin(t) + k - 1]]
  /\ tpc' = [tpc EXCEPT ![t] = "end"]
  /\ UNCHANGED <<params, senderVars, wire, rpc, ri, theirHashes, words, fu, numDone,
                 hashingDone, ti, map, found>>

-----------------------------------------------------------------------------

SenderStep == CompressMove \/ CompressCopy \/ CompressEnd \/ SendHashes

RecverStep == SingleInsert \/ SingleFind \/ SingleEnd
              \/ Spawn \/ Recv \/ RecvFails \/ Signal \/ Join

ThreadStep(t) == HashItem(t) \/ HashEnd(t) \/ HashingDone(t) \/ RecvDone(t)
                 \/ FindItem(t) \/ Merge(t)

Progress == SenderStep \/ RecverStep \/ \E t \in Threads : ThreadStep(t)

Next == Progress \/ SenderDies

Spec == Init /\ [][Next]_vars

\* Threads are scheduled, and a blocked one is woken by what it waits for.
FairSpec == Spec /\ WF_vars(Progress)

-----------------------------------------------------------------------------
(* Properties. *)

\* Every variable keeps its type; no thread writes outside Words.
TypeOK ==
  /\ spc \in {"compress", "send", "done", "dead"}
  /\ rpc \in {"insert", "find", "spawn", "recv", "signal", "join", "done", "error",
              "terminated"}
  /\ DOMAIN hashes = 0 .. BlockSize * mSenderSize - 1
  /\ si \in 0 .. mSenderSize
  /\ ri \in 0 .. mNumThreads
  /\ words \in [Words -> RecvIds \cup {Hash}]
  /\ numDone \in 0 .. mNumThreads
  /\ hashingDone \in BOOLEAN /\ fu \in BOOLEAN
  /\ tpc \in [Threads -> {"none", "hash", "barrier", "recv", "find", "end"}]
  /\ ti \in [Threads -> Nat]
  /\ map \in [Threads -> SUBSET RecvIds]
  /\ found \in [Threads -> 0 .. mRecverSize]

Sent == [j \in SendIds |-> HashOf(theirs[j])]

\* Shortening the hashes in place never overwrites one that is still to be
\* moved: what the sender sends are the prefixes of its hashes, in order.
SentIntact ==
  /\ wire # << >> => wire = Sent
  /\ theirHashes # << >> => theirHashes = Sent

\* The barrier protects the hashes: while some thread still builds its table,
\* no thread has stored a result over them.
HashesIntact ==
  (\E t \in Threads : tpc[t] = "hash") => \A w \in Words : words[w] = Hash

\* Every thread that looks received hashes up has them, and a table with all
\* the receiver's hashes it is responsible for.
FindReady ==
  \A t \in Threads : tpc[t] = "find" =>
    /\ theirHashes # << >>
    /\ map[t] = {i \in RecvIds : thread[i] = t}

Common == {x \in RecvIds : \E j \in SendIds : theirs[j] = x}

\* Every thread's share of myHashes has room for what the thread will find.
\* The program does not check this.
RegionsSuffice ==
  mNumThreads >= 2 =>
    \A t \in Threads :
      Cardinality({x \in Common : thread[x] = t}) <= Begin(t + 1) - Begin(t)

\* The result is the intersection, without repetition, if the regions suffice.
ResultCorrect ==
  rpc = "done" /\ RegionsSuffice =>
    ToSet(mIntersection) = Common /\ Len(mIntersection) = Cardinality(Common)

\* What the tests of the PSI expect of every set size and thread count.
ResultIsIntersection == rpc = "done" => ToSet(mIntersection) = Common

\* The receiver's run always comes to an end, with all its threads joined
\* unless the process was terminated: barrier, promise and receive cannot wait
\* for each other in a circle.
RunEnds ==
  <>[](/\ rpc \in {"done", "error", "terminated"}
       /\ \A t \in Threads : tpc[t] \in {"none", "end"})

=============================================================================
