----------------------------- MODULE RsPsiProofs -----------------------------
(***************************************************************************)
(* What is proved of the two-party intersection, for all set sizes, thread *)
(* counts and mask sizes.  SenderInv is about shortening the hashes in     *)
(* place, ThreadInv about the barrier and the promise between the          *)
(* receiver's threads.                                                     *)
(***************************************************************************)
EXTENDS RsPsi, FiniteSetTheorems, TLAPS

-----------------------------------------------------------------------------
(* Shortening in place. *)

Bytes == 0 .. BlockSize * mSenderSize - 1

\* The hash i is still where the OPRF wrote it.
Unmoved(i) == \A b \in 0 .. BlockSize - 1 : hashes[BlockSize * i + b] = <<theirs[i], b>>

\* The prefix of hash i is where it is sent from.
InPlace(i) == \A b \in 0 .. mMaskSize - 1 : hashes[mMaskSize * i + b] = <<theirs[i], b>>

SenderInv ==
  /\ mMaskSize \in MaskSizes
  /\ si \in 0 .. mSenderSize
  /\ hashes = [q \in Bytes |-> hashes[q]]
  /\ \A i \in SendIds : i < si => InPlace(i)
  /\ \A i \in SendIds : i >= si => Unmoved(i)
  /\ spc = "compress" => mMaskSize < BlockSize
  /\ spc = "send" => \A i \in SendIds : InPlace(i)
  /\ SentIntact

\* Division recovers the index of a block and of a byte in it.
LEMMA BlockOfByte ==
  ASSUME NEW n \in Nat \ {0}, NEW i \in Nat, NEW b \in 0 .. n - 1
  PROVE  (n * i + b) \div n = i /\ (n * i + b) % n = b
<1>1. n * i \in Nat
  OBVIOUS
<1> QED
  BY <1>1, Z3

\* A byte of block i lies in the buffer.
LEMMA ByteInBuffer ==
  ASSUME NEW m \in 1 .. BlockSize, NEW i \in SendIds, NEW b \in 0 .. m - 1
  PROVE  m * i + b \in Bytes
<1>1. i + 1 <= mSenderSize /\ BlockSize \in Nat /\ mSenderSize \in Nat /\ i \in Nat
  BY SizeAssumption DEF SendIds
<1>2. m * i + b < m * (i + 1) /\ m * i + b \in Nat
  BY <1>1
<1>3. m * (i + 1) <= BlockSize * (i + 1)
  BY <1>1
<1>4. BlockSize * (i + 1) <= BlockSize * mSenderSize
  BY <1>1
<1> QED
  BY <1>1, <1>2, <1>3, <1>4 DEF Bytes

\* The places an entry is written to and read from, and the entries before it.
LEMMA MovePlaces ==
  ASSUME NEW m \in 1 .. BlockSize, NEW i \in SendIds, NEW j \in SendIds
  PROVE  /\ j < i => m * j + m <= m * i
         /\ i < j => m * i + m <= BlockSize * j
<1>1. i \in Nat /\ j \in Nat /\ BlockSize \in Nat /\ m \in Nat /\ m <= BlockSize
  BY SizeAssumption DEF SendIds
<1>2. ASSUME j < i
      PROVE  m * j + m <= m * i
  <2>1. j + 1 <= i
    BY <1>1, <1>2
  <2>2. m * (j + 1) <= m * i
    BY <1>1, <2>1
  <2> QED
    BY <1>1, <2>2
<1>3. ASSUME i < j
      PROVE  m * i + m <= BlockSize * j
  <2>1. i + 1 <= j
    BY <1>1, <1>3
  <2>2. m * (i + 1) <= m * j
    BY <1>1, <2>1
  <2>3. m * j <= BlockSize * j
    BY <1>1
  <2>4. m * (i + 1) = m * i + m /\ m * i \in Nat /\ m * j \in Nat /\ BlockSize * j \in Nat
    BY <1>1
  <2> QED
    BY <2>2, <2>3, <2>4
<1> QED
  BY <1>2, <1>3

\* From MoveLimit on, a hash and the place it moves to do not overlap.
LEMMA CopyIsSafe ==
  ASSUME SenderInv, mMaskSize < BlockSize, NEW i \in SendIds, i >= MoveLimit
  PROVE  Dest(i) \cap Src(i) = {}
<1> DEFINE m == mMaskSize
           d == BlockSize - m
<1>1. m \in Nat /\ BlockSize \in Nat /\ d \in Nat /\ i \in Nat /\ MoveLimit \in Nat
  BY SizeAssumption DEF SenderInv, SendIds
<1>2. MoveLimit * d >= m
  BY MoveLimitAssumption DEF SenderInv
<1>3. i * d >= MoveLimit * d
  BY <1>1
<1>4. i * d = BlockSize * i - m * i
  BY <1>1
<1>5. m * i \in Nat /\ BlockSize * i \in Nat /\ MoveLimit * d \in Nat
  BY <1>1
<1>6. m * i + m <= BlockSize * i
  BY <1>1, <1>2, <1>3, <1>4, <1>5
<1> QED
  BY <1>1, <1>5, <1>6 DEF Dest, Src

\* Moving hash si keeps the invariant of the buffer.
LEMMA MoveStep ==
  ASSUME SenderInv, spc = "compress", si < mSenderSize,
         hashes' = Moved(si), si' = si + 1,
         UNCHANGED <<params, spc, wire, theirHashes>>
  PROVE  SenderInv'
<1> DEFINE m == mMaskSize
<1>1. m \in 1 .. BlockSize /\ m < BlockSize /\ si \in SendIds /\ si \in Nat
  BY SizeAssumption DEF SenderInv, SendIds
<1>2. hashes' = [q \in Bytes |-> hashes'[q]]
  BY DEF SenderInv, Moved
<1>3. DOMAIN hashes = Bytes
  BY DEF SenderInv
<1>4. m * si \in Nat /\ BlockSize * si \in Nat
  BY <1>1, SizeAssumption
<1>5. ASSUME NEW j \in SendIds, j < si'
      PROVE  InPlace(j)'
  <2> SUFFICES ASSUME NEW b \in 0 .. m - 1
               PROVE  hashes'[m * j + b] = <<theirs[j], b>>
    BY DEF params, InPlace
  <2>1. m * j + b \in Bytes
    BY <1>1, ByteInBuffer
  <2>2. CASE j = si
    <3>1. m * j + b \in Dest(si)
      BY <1>1, <1>4, <2>2 DEF Dest
    <3>2. ASSUME NEW q \in Bytes, q \in Dest(si)
          PROVE  hashes'[q] = hashes[q - m * si + BlockSize * si]
      BY <1>3, <3>2 DEF Moved
    <3>3. hashes'[m * j + b] = hashes[BlockSize * si + b]
      <4> DEFINE q == m * j + b
                 r == q - m * si + BlockSize * si
                 p == BlockSize * si + b
      <4>1. q \in Bytes /\ q \in Dest(si)
        BY <2>1, <3>1
      <4>2. r = p
        BY <1>1, <1>4, <2>2
      <4> HIDE DEF q, p
      <4>3. hashes'[q] = hashes[r]
        BY <3>2, <4>1
      <4> HIDE DEF r
      <4>4. hashes'[q] = hashes[p]
        BY <4>2, <4>3
      <4> QED
        BY <4>4 DEF q, p
    <3>4. b \in 0 .. BlockSize - 1
      BY <1>1, SizeAssumption
    <3>5. Unmoved(si)
      BY <1>1 DEF SenderInv
    <3>6. hashes[BlockSize * si + b] = <<theirs[si], b>>
      BY <3>4, <3>5 DEF Unmoved
    <3> QED
      BY <2>2, <3>3, <3>6
  <2>3. CASE j # si
    <3>1. j < si
      BY <1>1, <1>5, <2>3 DEF SendIds
    <3>2. m * j + m <= m * si /\ m * j \in Nat
      BY <1>1, <3>1, MovePlaces DEF SendIds
    <3>3. m * j + b \notin Dest(si)
      BY <1>1, <1>4, <3>2 DEF Dest
    <3>4. hashes'[m * j + b] = hashes[m * j + b]
      BY <1>3, <2>1, <3>3 DEF Moved
    <3> QED
      BY <3>1, <3>4 DEF SenderInv, InPlace
  <2> QED
    BY <2>2, <2>3
<1>6. ASSUME NEW j \in SendIds, j >= si'
      PROVE  Unmoved(j)'
  <2> SUFFICES ASSUME NEW b \in 0 .. BlockSize - 1
               PROVE  hashes'[BlockSize * j + b] = <<theirs[j], b>>
    BY DEF params, Unmoved
  <2>1. si < j /\ j \in Nat
    BY <1>1, <1>6 DEF SendIds
  <2>2. BlockSize \in 1 .. BlockSize /\ BlockSize * j \in Nat
    BY <2>1, SizeAssumption
  <2>3. BlockSize * j + b \in Bytes
    BY <2>2, ByteInBuffer
  <2>4. m * si + m <= BlockSize * j
    BY <1>1, <2>1, MovePlaces
  <2>5. BlockSize * j + b \notin Dest(si)
    BY <1>1, <1>4, <2>2, <2>4 DEF Dest
  <2>6. hashes'[BlockSize * j + b] = hashes[BlockSize * j + b]
    BY <1>3, <2>3, <2>5 DEF Moved
  <2>7. Unmoved(j)
    BY <1>1, <2>1 DEF SenderInv
  <2> QED
    BY <2>6, <2>7 DEF Unmoved
<1>7. si' \in 0 .. mSenderSize
  BY <1>1, SizeAssumption DEF SendIds
<1> QED
  BY <1>1, <1>2, <1>5, <1>6, <1>7 DEF SenderInv, SentIntact, Sent, HashOf, params

\* The sender's buffer holds its hashes at the start.
LEMMA SenderInit ==
  ASSUME Init
  PROVE  SenderInv
<1>1. hashes = [q \in Bytes |-> hashes[q]]
  BY DEF Init, Bytes
<1>2. ASSUME NEW i \in SendIds, NEW b \in 0 .. BlockSize - 1
      PROVE  hashes[BlockSize * i + b] = <<theirs[i], b>>
  <2>1. BlockSize \in 1 .. BlockSize /\ BlockSize \in Nat \ {0} /\ i \in Nat
    BY SizeAssumption DEF SendIds
  <2>2. BlockSize * i + b \in Bytes
    BY <2>1, ByteInBuffer
  <2>3. (BlockSize * i + b) \div BlockSize = i /\ (BlockSize * i + b) % BlockSize = b
    BY <2>1, BlockOfByte
  <2>4. hashes[BlockSize * i + b] =
          <<theirs[(BlockSize * i + b) \div BlockSize], (BlockSize * i + b) % BlockSize>>
    BY <2>2 DEF Init, Bytes
  <2> QED
    BY <2>3, <2>4
<1>3. \A i \in SendIds : Unmoved(i)
  BY <1>2 DEF Unmoved
<1>4. ASSUME spc = "send"
      PROVE  \A i \in SendIds : InPlace(i)
  <2>1. mMaskSize = BlockSize
    BY <1>4 DEF Init
  <2>2. \A i \in SendIds : \A b \in 0 .. BlockSize - 1 :
          hashes[BlockSize * i + b] = <<theirs[i], b>>
    BY <1>2, Zenon
  <2>3. \A m : m = BlockSize => \A i \in SendIds : \A b \in 0 .. m - 1 :
          hashes[m * i + b] = <<theirs[i], b>>
    BY <2>2, Zenon
  <2> QED
    BY <2>1, <2>3 DEF InPlace
<1>5. spc = "compress" => mMaskSize < BlockSize
  BY SizeAssumption DEF Init
<1>6. mMaskSize \in MaskSizes /\ si = 0 /\ wire = << >> /\ theirHashes = << >>
  BY DEF Init
<1>7. si \in 0 .. mSenderSize /\ \A i \in SendIds : ~ i < si
  BY <1>6, SizeAssumption DEF SendIds
<1>8. SentIntact
  BY <1>6 DEF SentIntact
<1> QED
  BY <1>1, <1>3, <1>4, <1>5, <1>6, <1>7, <1>8 DEF SenderInv

\* Every other step of the sender or of the receiver keeps it.
LEMMA SenderRest ==
  ASSUME SenderInv,
         \/ CompressEnd \/ SendHashes \/ SenderDies \/ Recv
         \/ UNCHANGED <<params, senderVars, wire, theirHashes>>
  PROVE  SenderInv'
<1> USE DEF params, senderVars
<1>1. CASE CompressEnd
  <2>1. \A i \in SendIds : i < si
    BY <1>1, SizeAssumption DEF CompressEnd, SendIds
  <2> QED
    BY <1>1, <2>1
    DEF CompressEnd, SenderInv, InPlace, Unmoved, SentIntact, Sent, HashOf
<1>2. CASE SendHashes
  <2>1. wire' = Sent
    BY <1>2 DEF SendHashes, SenderInv, InPlace, Sent, HashOf
  <2> QED
    BY <1>2, <2>1 DEF SendHashes, SenderInv, InPlace, Unmoved, SentIntact, Sent, HashOf
<1>3. CASE SenderDies
  BY <1>3 DEF SenderDies, SenderInv, InPlace, Unmoved, SentIntact, Sent, HashOf
<1>4. CASE Recv
  BY <1>4 DEF Recv, SenderInv, InPlace, Unmoved, SentIntact, Sent, HashOf
<1>5. CASE UNCHANGED <<params, senderVars, wire, theirHashes>>
  BY <1>5 DEF SenderInv, InPlace, Unmoved, SentIntact, Sent, HashOf
<1> QED
  BY <1>1, <1>2, <1>3, <1>4, <1>5

\* Every step keeps the invariant of the sender's buffer.
LEMMA SenderNext ==
  ASSUME SenderInv, [Next]_vars
  PROVE  SenderInv'
<1>1. CASE CompressMove
  BY <1>1, MoveStep DEF CompressMove
<1>2. CASE CompressCopy
  <2>1. si \in SendIds /\ mMaskSize < BlockSize
    BY <1>2, SizeAssumption DEF CompressCopy, SenderInv, SendIds
  <2>2. hashes' = Moved(si)
    BY <1>2, <2>1, CopyIsSafe DEF CompressCopy, Copied
  <2> QED
    BY <1>2, <2>2, MoveStep DEF CompressCopy
<1>3. CASE CompressEnd \/ SendHashes \/ SenderDies \/ Recv
  BY <1>3, SenderRest
<1>4. CASE \/ SingleInsert \/ SingleFind \/ SingleEnd \/ Spawn \/ RecvFails
           \/ Signal \/ Join \/ \E t \in Threads : ThreadStep(t)
  BY <1>4, SenderRest
  DEF SingleInsert, SingleFind, SingleEnd, Spawn, RecvFails, Signal, Join,
      ThreadStep, HashItem, HashEnd, HashingDone, RecvDone, FindItem, Merge
<1>5. CASE UNCHANGED vars
  BY <1>5, SenderRest DEF vars
<1> QED
  BY <1>1, <1>2, <1>3, <1>4, <1>5 DEF Next, Progress, SenderStep, RecverStep

\* Shortening the hashes in place and copying the later ones with memcpy never
\* damages a hash, for every set size: 100 moves are enough for 16-byte blocks.
THEOREM SentIntactHolds == Spec => []SentIntact
<1>1. Init => SenderInv
  BY SenderInit
<1>2. SenderInv /\ [Next]_vars => SenderInv'
  BY SenderNext
<1>3. SenderInv => SentIntact
  BY DEF SenderInv
<1> QED
  BY <1>1, <1>2, <1>3, PTL DEF Spec

-----------------------------------------------------------------------------
(* The receiver's threads. *)

\* The threads that have finished their hash tables.
Hashed == {t \in Threads : tpc[t] \in {"barrier", "recv", "find", "end"}}

\* The hashes a thread is responsible for.
Own(t) == {i \in RecvIds : thread[i] = t}

ThreadTypes ==
  /\ mNumThreads \in Nat \ {0}
  /\ ri \in Nat
  /\ numDone \in Nat
  /\ rpc \in {"insert", "find", "spawn", "recv", "signal", "join", "done", "error",
              "terminated"}
  /\ words \in [Words -> RecvIds \cup {Hash}]
  /\ tpc \in [Threads -> {"none", "hash", "barrier", "recv", "find", "end"}]
  /\ ti \in [Threads -> Nat]
  /\ map \in [Threads -> SUBSET RecvIds]

\* The counter counts the finished tables, and the promise of the last thread
\* is fulfilled only when all of them are.
Barrier ==
  /\ rpc \notin {"error", "terminated"} => numDone = Cardinality(Hashed)
  /\ hashingDone => \A t \in Threads : tpc[t] # "hash"
  /\ hashingDone /\ rpc \notin {"error", "terminated"} => Hashed = Threads
  /\ \A t \in Threads : tpc[t] \in {"recv", "find", "end"} => hashingDone

\* Results are only stored once the promise is fulfilled.
Stores == ~ hashingDone => \A w \in Words : words[w] = Hash

\* A thread's table holds the hashes it has read and is responsible for.
Tables ==
  \A t \in Threads :
    /\ rpc = "spawn" /\ t >= ri => tpc[t] = "none"
    /\ tpc[t] = "none" /\ rpc = "spawn" => ti[t] = 0 /\ map[t] = {}
    /\ tpc[t] = "hash" => map[t] = {i \in Own(t) : i < ti[t]}
    /\ tpc[t] \in {"barrier", "recv", "find", "end"} => map[t] = Own(t)

\* The receive comes before the promise, the promise before the look-ups.
Receives ==
  /\ rpc = "spawn" => mNumThreads >= 2
  /\ rpc \in {"signal", "join"} => theirHashes # << >>
  /\ fu => theirHashes # << >>
  /\ \A t \in Threads : tpc[t] = "find" => fu
  /\ rpc \in {"insert", "find", "error", "terminated"} \/ (rpc = "recv" /\ mNumThreads < 2) =>
       \A t \in Threads : tpc[t] = "none"

ThreadInv ==
  /\ ThreadTypes
  /\ Barrier
  /\ Stores
  /\ Tables
  /\ Receives

\* There are finitely many threads, so their number says when all are done.
LEMMA AllHashed ==
  ASSUME ThreadTypes, NEW S \in SUBSET Threads
  PROVE  /\ IsFiniteSet(S)
         /\ Cardinality(S) = mNumThreads => S = Threads
<1>1. IsFiniteSet(Threads) /\ Cardinality(Threads) = mNumThreads
  BY FS_Interval DEF ThreadTypes, Threads
<1>2. IsFiniteSet(S) /\ Cardinality(S) <= Cardinality(Threads)
      /\ (Cardinality(S) = Cardinality(Threads) => S = Threads)
  BY <1>1, FS_Subset
<1> QED
  BY <1>1, <1>2

\* No thread runs at the start.
LEMMA ThreadInit ==
  ASSUME Init
  PROVE  ThreadInv
<1>1. mNumThreads \in Nat \ {0}
  BY SizeAssumption DEF Init
<1>2. ThreadTypes
  BY <1>1 DEF Init, ThreadTypes
<1>3. Hashed = {}
  BY DEF Init, Hashed
<1>4. Barrier
  BY <1>3, FS_EmptySet DEF Init, Barrier
<1>5. Receives
  BY <1>1 DEF Init, Receives
<1> QED
  BY <1>2, <1>4, <1>5 DEF Init, ThreadInv, Stores, Tables

\* The steps that change nothing the invariant speaks of.
LEMMA ThreadRest ==
  ASSUME ThreadInv,
         UNCHANGED <<mNumThreads, thread, rpc, ri, theirHashes, words, fu, numDone,
                     hashingDone, tpc, ti, map>>
  PROVE  ThreadInv'
<1>1. Hashed' = Hashed /\ Threads' = Threads
  BY DEF Hashed, Threads
<1>2. \A t : Own(t)' = Own(t)
  BY DEF Own
<1> QED
  BY <1>1, <1>2
  DEF ThreadInv, ThreadTypes, Barrier, Stores, Tables, Receives

\* The steps of the receiver's own thread.
LEMMA OwnThreadSteps ==
  ASSUME ThreadInv,
         \/ SingleInsert \/ SingleFind \/ SingleEnd \/ Recv \/ RecvFails
         \/ Signal \/ Join
  PROVE  ThreadInv'
<1> USE DEF ThreadInv
<1>1. \A t : Own(t)' = Own(t)
  BY DEF Own, SingleInsert, SingleFind, SingleEnd, Recv, RecvFails, Signal, Join, params
<1>2. Threads' = Threads
  BY DEF Threads, SingleInsert, SingleFind, SingleEnd, Recv, RecvFails, Signal, Join,
         params
<1>3. CASE SingleInsert
  <2>1. \A t \in Threads : tpc[t] = "none"
    BY <1>3 DEF SingleInsert, Receives
  <2>2. Hashed' = Hashed
    BY <1>2, <1>3 DEF Hashed, SingleInsert
  <2>3. ThreadTypes'
    BY <1>2, <1>3 DEF SingleInsert, ThreadTypes, params
  <2>4. Barrier'
    BY <1>2, <1>3, <2>2 DEF SingleInsert, Barrier, params
  <2> QED
    BY <1>2, <1>3, <2>1, <2>3, <2>4
    DEF SingleInsert, Stores, Tables, Receives, params
<1>4. CASE SingleFind \/ SingleEnd
  <2>1. \A t \in Threads : tpc[t] = "none"
    BY <1>4 DEF SingleFind, SingleEnd, Receives
  <2>2. Hashed' = Hashed
    BY <1>2, <1>4 DEF Hashed, SingleFind, SingleEnd, threadVars
  <2>3. ThreadTypes'
    BY <1>2, <1>4 DEF SingleFind, SingleEnd, ThreadTypes, params, threadVars
  <2>4. Barrier'
    BY <1>2, <1>4, <2>2 DEF SingleFind, SingleEnd, Barrier, params, threadVars
  <2> QED
    BY <1>2, <1>4, <2>1, <2>3, <2>4
    DEF SingleFind, SingleEnd, Stores, Tables, Receives, params, threadVars
<1>5. CASE Recv
  <2>1. Hashed' = Hashed
    BY <1>2, <1>5 DEF Hashed, Recv, threadVars
  <2>2. ThreadTypes'
    BY <1>2, <1>5 DEF Recv, ThreadTypes, params, threadVars
  <2>3. Barrier'
    BY <1>2, <1>5, <2>1, <2>2 DEF Recv, Barrier, ThreadTypes, params, threadVars
  <2>4. Tables'
    BY <1>1, <1>2, <1>5 DEF Recv, Tables, params, threadVars
  <2> QED
    BY <1>2, <1>5, <2>2, <2>3, <2>4 DEF Recv, Stores, Receives, params, threadVars
<1>6. CASE RecvFails
  <2>1. ThreadTypes'
    BY <1>2, <1>6 DEF RecvFails, ThreadTypes, params
  <2> QED
    BY <1>2, <1>6, <2>1
    DEF RecvFails, Barrier, Stores, Tables, Receives, params
<1>7. CASE Signal \/ Join
  <2>1. Hashed' = Hashed
    BY <1>2, <1>7 DEF Hashed, Signal, Join, threadVars
  <2>2. ThreadTypes'
    BY <1>2, <1>7 DEF Signal, Join, ThreadTypes, params, threadVars
  <2>3. Barrier'
    BY <1>2, <1>7, <2>1 DEF Signal, Join, Barrier, params, threadVars
  <2>4. Tables'
    BY <1>1, <1>2, <1>7 DEF Signal, Join, Tables, params, threadVars
  <2> QED
    BY <1>2, <1>7, <2>2, <2>3, <2>4
    DEF Signal, Join, Stores, Receives, params, threadVars
<1> QED
  BY <1>3, <1>4, <1>5, <1>6, <1>7

\* A thread starts with an empty table.
LEMMA SpawnStep ==
  ASSUME ThreadInv, Spawn
  PROVE  ThreadInv'
<1> USE DEF ThreadInv
<1>1. \A t : Own(t)' = Own(t)
  BY DEF Own, Spawn, params
<1>2. Threads' = Threads
  BY DEF Threads, Spawn, params
<1>3. ThreadTypes'
  <2>1. tpc' \in [Threads -> {"none", "hash", "barrier", "recv", "find", "end"}]
    BY DEF Spawn, ThreadTypes
  <2>2. ri' \in Nat /\ rpc' \in {"spawn", "recv"}
    BY DEF Spawn, ThreadTypes
  <2> QED
    BY <1>2, <2>1, <2>2 DEF Spawn, ThreadTypes, params
<1>4. ri \in Threads => tpc[ri] = "none" /\ ti[ri] = 0 /\ map[ri] = {}
  BY DEF Spawn, Tables, ThreadTypes
<1>5. ASSUME NEW t \in Threads
      PROVE  tpc'[t] = IF t = ri THEN "hash" ELSE tpc[t]
  BY DEF Spawn, ThreadTypes
<1>6. Hashed' = Hashed
  BY <1>2, <1>4, <1>5 DEF Hashed
<1>7. hashingDone => ri \notin Threads
  BY <1>4 DEF Barrier, Spawn, Hashed
<1>8. Barrier'
  BY <1>2, <1>3, <1>5, <1>6, <1>7 DEF Spawn, Barrier, params
<1>9. Tables'
  <2> SUFFICES ASSUME NEW t \in Threads
               PROVE  /\ rpc' = "spawn" /\ t >= ri' => tpc'[t] = "none"
                      /\ tpc'[t] = "none" /\ rpc' = "spawn" => ti'[t] = 0 /\ map'[t] = {}
                      /\ tpc'[t] = "hash" => map'[t] = {i \in Own(t) : i < ti'[t]}
                      /\ tpc'[t] \in {"barrier", "recv", "find", "end"} =>
                           map'[t] = Own(t)
    BY <1>1, <1>2 DEF Tables
  <2>1. ti' = ti /\ map' = map
    BY DEF Spawn
  <2>2. CASE t = ri
    <3>1. {i \in Own(t) : i < 0} = {}
      BY SizeAssumption DEF Own, RecvIds
    <3> QED
      BY <1>4, <1>5, <2>1, <2>2, <3>1 DEF Spawn, ThreadTypes
  <2>3. CASE t # ri
    BY <1>5, <2>1, <2>3 DEF Spawn, Tables, ThreadTypes, Threads
  <2> QED
    BY <2>2, <2>3
<1>10. Receives'
  <2>1. mNumThreads' = mNumThreads /\ mNumThreads >= 2 /\ mNumThreads \in Nat
    BY DEF Spawn, Receives, ThreadTypes, params
  <2>2. rpc' \in {"spawn", "recv"}
    BY DEF Spawn
  <2> QED
    BY <1>2, <1>5, <2>1, <2>2 DEF Spawn, Receives
<1> QED
  BY <1>3, <1>8, <1>9, <1>10 DEF Spawn, Stores

\* A thread reads the next hash: it is one, no result is stored over it yet.
LEMMA HashItemStep ==
  ASSUME ThreadInv, NEW t \in Threads, HashItem(t)
  PROVE  ThreadInv'
<1> USE DEF ThreadInv
<1> DEFINE h == ti[t]
<1>1. \A s : Own(s)' = Own(s)
  BY DEF Own, HashItem, params
<1>2. Threads' = Threads
  BY DEF Threads, HashItem, params
<1>3. Hashed' = Hashed
  BY <1>2 DEF Hashed, HashItem
<1>4. h \in RecvIds
  BY SizeAssumption DEF HashItem, ThreadTypes, RecvIds
<1>5. \A w \in Words : words[w] = Hash
  BY DEF HashItem, Barrier, Stores
<1>6. IsHash(h)
  <2>1. 2 * h \in Words /\ 2 * h + 1 \in Words
    BY <1>4, SizeAssumption DEF Words, RecvIds
  <2> QED
    BY <1>5, <2>1 DEF IsHash
<1>7. map'[t] = {i \in Own(t) : i < ti'[t]}
  <2>1. map[t] = {i \in Own(t) : i < h}
    BY DEF HashItem, Tables
  <2>2. map'[t] = map[t] \cup {i \in {h} : IsHash(i) /\ thread[i] = t}
    BY DEF HashItem, ThreadTypes
  <2>3. {i \in {h} : IsHash(i) /\ thread[i] = t} = {i \in Own(t) : i = h}
    BY <1>4, <1>6 DEF Own
  <2>4. ti'[t] = h + 1 /\ h \in Int
    BY DEF HashItem, ThreadTypes
  <2>5. \A i \in Own(t) : i \in Int
    BY SizeAssumption DEF Own, RecvIds
  <2> QED
    BY <2>1, <2>2, <2>3, <2>4, <2>5
<1>8. ThreadTypes'
  <2>1. map' \in [Threads -> SUBSET RecvIds]
    BY <1>4 DEF HashItem, ThreadTypes
  <2>2. ti' \in [Threads -> Nat]
    BY DEF HashItem, ThreadTypes
  <2> QED
    BY <1>2, <2>1, <2>2 DEF HashItem, ThreadTypes, params
<1>9. Barrier'
  BY <1>2, <1>3 DEF HashItem, Barrier, params
<1>10. Tables'
  <2>1. \A s \in Threads : s # t => map'[s] = map[s] /\ ti'[s] = ti[s]
    BY DEF HashItem, ThreadTypes
  <2>2. tpc[t] = "hash" /\ tpc' = tpc /\ rpc' = rpc /\ ri' = ri
    BY DEF HashItem
  <2> QED
    BY <1>1, <1>2, <1>7, <2>1, <2>2 DEF Tables
<1>11. Receives'
  BY <1>2 DEF HashItem, Receives, params
<1> QED
  BY <1>8, <1>9, <1>10, <1>11 DEF HashItem, Stores

\* A finished table is counted, and the last one fulfils the promise.
LEMMA HashEndStep ==
  ASSUME ThreadInv, NEW t \in Threads, HashEnd(t)
  PROVE  ThreadInv'
<1> USE DEF ThreadInv
<1>1. \A s : Own(s)' = Own(s)
  BY DEF Own, HashEnd, params
<1>2. Threads' = Threads
  BY DEF Threads, HashEnd, params
<1>3. \A s \in Threads : s # t => tpc'[s] = tpc[s]
  BY DEF HashEnd, ThreadTypes
<1>4. tpc[t] = "hash" /\ tpc'[t] \in {"barrier", "recv"}
      /\ (tpc'[t] = "recv" => hashingDone')
  BY DEF HashEnd, ThreadTypes
<1>5. ThreadTypes'
  <2>1. tpc' \in [Threads -> {"none", "hash", "barrier", "recv", "find", "end"}]
    BY DEF HashEnd, ThreadTypes
  <2> QED
    BY <1>2, <2>1 DEF HashEnd, ThreadTypes, params
<1>6. Hashed' = Hashed \cup {t} /\ t \notin Hashed
  BY <1>2, <1>3, <1>4 DEF Hashed
<1>7. ~ hashingDone
  BY <1>4 DEF Barrier
<1>8. IsFiniteSet(Hashed)
  BY AllHashed DEF Hashed
<1>9. rpc' \notin {"error", "terminated"} => numDone' = Cardinality(Hashed')
  <2>1. Cardinality(Hashed') = Cardinality(Hashed) + 1
    BY <1>6, <1>8, FS_AddElement
  <2> QED
    BY <2>1 DEF HashEnd, Barrier
<1>10. hashingDone' => numDone' = mNumThreads
  BY <1>7 DEF HashEnd
<1>11. ASSUME hashingDone', rpc' \notin {"error", "terminated"}
       PROVE  Hashed' = Threads
  BY <1>2, <1>9, <1>10, <1>11, AllHashed, <1>6 DEF Hashed
<1>12. Barrier'
  <2>1. CASE rpc \in {"error", "terminated"}
    BY <1>4, <2>1 DEF Receives
  <2>2. CASE rpc \notin {"error", "terminated"}
    <3>1. rpc' = rpc
      BY DEF HashEnd
    <3>2. hashingDone' => \A s \in Threads : tpc'[s] # "hash"
      BY <1>2, <1>11, <2>2, <3>1 DEF Hashed
    <3>3. \A s \in Threads : tpc'[s] \in {"recv", "find", "end"} => hashingDone'
      BY <1>3, <1>4, <1>7 DEF Barrier
    <3> QED
      BY <1>2, <1>9, <1>11, <3>1, <3>2, <3>3 DEF Barrier
  <2> QED
    BY <2>1, <2>2
<1>13. Tables'
  <2>1. map' = map /\ ti' = ti /\ rpc' = rpc /\ ri' = ri
    BY DEF HashEnd
  <2>2. map[t] = Own(t)
    <3>1. map[t] = {i \in Own(t) : i < ti[t]} /\ ti[t] = mRecverSize
      BY DEF HashEnd, Tables
    <3> QED
      BY <3>1, SizeAssumption DEF Own, RecvIds
  <2> QED
    BY <1>1, <1>2, <1>3, <1>4, <2>1, <2>2 DEF Tables
<1>14. Receives'
  BY <1>2, <1>3, <1>4 DEF HashEnd, Receives, params
<1>15. Stores'
  BY <1>7 DEF HashEnd, Stores
<1> QED
  BY <1>5, <1>12, <1>13, <1>14, <1>15

\* A thread goes on once the promise it waits for is fulfilled.
LEMMA WaitSteps ==
  ASSUME ThreadInv, NEW t \in Threads, HashingDone(t) \/ RecvDone(t) \/ Merge(t)
  PROVE  ThreadInv'
<1> USE DEF ThreadInv
<1>1. \A s : Own(s)' = Own(s)
  BY DEF Own, HashingDone, RecvDone, Merge, params
<1>2. Threads' = Threads
  BY DEF Threads, HashingDone, RecvDone, Merge, params
<1>3. \A s \in Threads : s # t => tpc'[s] = tpc[s]
  BY DEF HashingDone, RecvDone, Merge, ThreadTypes
<1>4. /\ tpc[t] \in {"barrier", "recv", "find"} /\ tpc'[t] \in {"recv", "find", "end"}
      /\ hashingDone
      /\ tpc'[t] = "find" => fu
  BY DEF HashingDone, RecvDone, Merge, ThreadTypes, Barrier
<1>5. ThreadTypes'
  <2>1. tpc' \in [Threads -> {"none", "hash", "barrier", "recv", "find", "end"}]
    BY DEF HashingDone, RecvDone, Merge, ThreadTypes
  <2>2. ti' \in [Threads -> Nat]
    BY DEF HashingDone, RecvDone, Merge, ThreadTypes
  <2> QED
    BY <1>2, <2>1, <2>2 DEF HashingDone, RecvDone, Merge, ThreadTypes, params
<1>6. Hashed' = Hashed
  BY <1>2, <1>3, <1>4 DEF Hashed
<1>7. /\ UNCHANGED <<rpc, ri, numDone, hashingDone, map, words, theirHashes, fu>>
      /\ mNumThreads' = mNumThreads
  BY DEF HashingDone, RecvDone, Merge, params
<1>8. Barrier'
  BY <1>2, <1>3, <1>4, <1>6, <1>7 DEF Barrier
<1>9. Tables'
  <2>1. \A s \in Threads : tpc'[s] # "none" \/ ti'[s] = ti[s]
    BY <1>3, <1>4 DEF HashingDone, RecvDone, Merge, ThreadTypes
  <2>2. \A s \in Threads : tpc'[s] = "hash" => ti'[s] = ti[s]
    BY <1>3, <1>4 DEF HashingDone, RecvDone, Merge, ThreadTypes
  <2> QED
    BY <1>1, <1>2, <1>3, <1>4, <1>7, <2>1, <2>2 DEF Tables
<1>10. Receives'
  BY <1>2, <1>3, <1>4, <1>7 DEF Receives
<1> QED
  BY <1>5, <1>7, <1>8, <1>9, <1>10 DEF Stores

\* A result is stored: all threads have finished their tables.
LEMMA FindItemStep ==
  ASSUME ThreadInv, NEW t \in Threads, FindItem(t)
  PROVE  ThreadInv'
<1> USE DEF ThreadInv
<1>1. \A s : Own(s)' = Own(s)
  BY DEF Own, FindItem, params
<1>2. Threads' = Threads
  BY DEF Threads, FindItem, params
<1>3. Hashed' = Hashed
  BY <1>2 DEF Hashed, FindItem
<1>4. hashingDone
  BY DEF FindItem, Barrier
<1>5. words' \in [Words -> RecvIds \cup {Hash}]
  <2>1. CASE words' = words
    BY <2>1 DEF ThreadTypes
  <2>2. ASSUME NEW x \in Found(t, ti[t]),
               words' = [words EXCEPT ![Begin(t) + found[t]] = x]
        PROVE  words' \in [Words -> RecvIds \cup {Hash}]
    <3>1. x \in RecvIds
      BY DEF Found, Lookup, ThreadTypes
    <3> QED
      BY <2>2, <3>1 DEF ThreadTypes
  <2> QED
    BY <2>1, <2>2 DEF FindItem
<1>6. ThreadTypes'
  <2>1. ti' \in [Threads -> Nat]
    BY DEF FindItem, ThreadTypes
  <2> QED
    BY <1>2, <1>5, <2>1 DEF FindItem, ThreadTypes, params
<1>7. Barrier'
  BY <1>2, <1>3 DEF FindItem, Barrier, params
<1>8. Tables'
  <2>1. \A s \in Threads : s # t => ti'[s] = ti[s]
    BY DEF FindItem, ThreadTypes
  <2> QED
    BY <1>1, <1>2, <2>1 DEF FindItem, Tables
<1>9. Receives'
  BY <1>2 DEF FindItem, Receives, params
<1> QED
  BY <1>4, <1>6, <1>7, <1>8, <1>9 DEF FindItem, Stores

\* Every step keeps the invariant of the receiver's threads.
LEMMA ThreadNext ==
  ASSUME ThreadInv, [Next]_vars
  PROVE  ThreadInv'
<1>1. CASE SenderStep \/ SenderDies
  BY <1>1, ThreadRest
  DEF SenderStep, CompressMove, CompressCopy, CompressEnd, SendHashes, SenderDies,
      params, threadVars
<1>2. CASE RecverStep
  BY <1>2, OwnThreadSteps, SpawnStep DEF RecverStep
<1>3. CASE \E t \in Threads : ThreadStep(t)
  BY <1>3, HashItemStep, HashEndStep, WaitSteps, FindItemStep DEF ThreadStep
<1>4. CASE UNCHANGED vars
  BY <1>4, ThreadRest DEF vars, params, threadVars
<1> QED
  BY <1>1, <1>2, <1>3, <1>4 DEF Next, Progress

\* The barrier between the threads protects the receiver's hashes until all
\* threads have read them, for every number of threads.
THEOREM HashesIntactHolds == Spec => []HashesIntact
<1>1. Init => ThreadInv
  BY ThreadInit
<1>2. ThreadInv /\ [Next]_vars => ThreadInv'
  BY ThreadNext
<1>3. ThreadInv => HashesIntact
  BY DEF ThreadInv, Barrier, Stores, HashesIntact
<1> QED
  BY <1>1, <1>2, <1>3, PTL DEF Spec

\* No thread looks anything up before the sender's hashes have arrived, and
\* each has by then a complete table of its own hashes.
THEOREM FindReadyHolds == Spec => []FindReady
<1>1. Init => ThreadInv
  BY ThreadInit
<1>2. ThreadInv /\ [Next]_vars => ThreadInv'
  BY ThreadNext
<1>3. ThreadInv => FindReady
  BY DEF ThreadInv, Tables, Receives, FindReady, Own
<1> QED
  BY <1>1, <1>2, <1>3, PTL DEF Spec

=============================================================================
