-------------------------- MODULE RsPsiResultProofs --------------------------
(***************************************************************************)
(* What is proved of the two-party intersection's result: when every       *)
(* thread's share of the memory suffices, it is the intersection, each     *)
(* item once, for all set sizes and any number of threads; and the types   *)
(* of all variables.  SenderInv and ThreadInv of RsPsiProofs give what a   *)
(* thread that looks up can rely on; ResultInv says what it has stored and *)
(* what has been merged.                                                   *)
(***************************************************************************)
EXTENDS RsPsiProofs

-----------------------------------------------------------------------------
(* The invariant. *)

\* The receiver's items among the sender's first n, and those of thread t.
Among(n)   == {x \in RecvIds : \E j \in SendIds : j < n /\ theirs[j] = x}
Mine(t, n) == {x \in Among(n) : thread[x] = t}

\* What a thread has stored.
Stored(t) == {words[Begin(t) + k] : k \in 0 .. found[t] - 1}

\* The result so far is S, without repetition.
Holds(S) == ToSet(mIntersection) = S /\ Len(mIntersection) = Cardinality(S)

\* The common items of the threads that have merged theirs.
Merged == {x \in Among(mSenderSize) : tpc[thread[x]] = "end"}

Static ==
  /\ mNumThreads \in Nat \ {0} /\ mMaskSize \in 1 .. BlockSize
  /\ theirs \in [SendIds -> Items]
  /\ \A j, k \in SendIds : theirs[j] = theirs[k] => j = k
  /\ thread \in [Items -> Threads]
  /\ mIntersection \in Seq(RecvIds \cup {Hash})
  /\ found = [t \in Threads |-> found[t]]

\* Without threads, the result grows with every received hash.
SingleInv ==
  /\ rpc \in {"insert", "recv", "find", "done", "error"}
  /\ \A t \in Threads : tpc[t] = "none"
  /\ rpc \in {"insert", "recv"} => ti[0] = 0 /\ mIntersection = << >>
  /\ rpc \in {"recv", "find"} => map[0] = RecvIds
  /\ rpc = "find" => theirHashes # << >> /\ ti[0] <= mSenderSize /\ Holds(Among(ti[0]))
  /\ rpc = "done" => Holds(Among(mSenderSize))
  /\ \A w \in Words : words[w] = Hash
  /\ \A t \in Threads : found[t] = 0

\* With threads, they are joined in order.
JoinInv ==
  /\ rpc \in {"spawn", "recv", "signal", "join", "done", "terminated"}
  /\ rpc \in {"recv", "signal"} => ri = 0
  /\ rpc = "join" => ri < mNumThreads /\ \A t \in Threads : t < ri => tpc[t] = "end"
  /\ rpc = "done" => \A t \in Threads : tpc[t] = "end"

\* No thread finds more than there is among what it has looked up.
FoundInv(t) ==
  /\ found[t] \in Nat
  /\ found[t] <= Cardinality(Mine(t, mSenderSize))
  /\ tpc[t] \in {"none", "hash", "barrier", "recv"} /\ rpc # "terminated" => found[t] = 0
  /\ tpc[t] = "find" => ti[t] <= mSenderSize /\ found[t] <= Cardinality(Mine(t, ti[t]))

\* If the shares suffice, a thread stores all it should find, in its share.
StoreInv ==
  /\ \A w \in Words : w >= 2 * mRecverSize => words[w] = Hash
  /\ \A t \in Threads : tpc[t] = "find" =>
       found[t] = Cardinality(Mine(t, ti[t])) /\ Stored(t) = Mine(t, ti[t])
  /\ rpc # "terminated" => Holds(Merged)

ResultInv ==
  /\ Static
  /\ mNumThreads < 2 => SingleInv
  /\ mNumThreads >= 2 => JoinInv /\ \A t \in Threads : FoundInv(t)
  /\ mNumThreads >= 2 /\ RegionsSuffice => StoreInv

\* What the other invariants leave open of the variables' ranges.
RangeInv ==
  /\ spc \in {"compress", "send", "done", "dead"}
  /\ hashingDone \in BOOLEAN /\ fu \in BOOLEAN
  /\ ri \in 0 .. mNumThreads
  /\ rpc = "spawn" => ri < mNumThreads
  /\ numDone \in 0 .. mNumThreads

IInv == SenderInv /\ ThreadInv /\ ResultInv /\ RangeInv

-----------------------------------------------------------------------------
(* Sets and sequences. *)

\* The common items are finitely many, and at most the receiver's.
LEMMA AmongFinite ==
  ASSUME NEW n, NEW S \in SUBSET Among(n)
  PROVE  IsFiniteSet(S) /\ Cardinality(S) \in Nat /\ Cardinality(S) <= mRecverSize
<1>1. IsFiniteSet(RecvIds) /\ Cardinality(RecvIds) = mRecverSize
  BY SizeAssumption, FS_Interval DEF RecvIds
<1>2. S \subseteq RecvIds
  BY DEF Among
<1> QED
  BY <1>1, <1>2, FS_Subset, FS_CardinalityType

\* One more received hash adds its item, if it is one of the receiver's.
LEMMA AmongNext ==
  ASSUME Static, NEW n \in SendIds
  PROVE  /\ Among(n + 1) = Among(n) \cup {x \in RecvIds : x = theirs[n]}
         /\ theirs[n] \notin Among(n)
         /\ \A t : Mine(t, n + 1) = Mine(t, n) \cup {x \in RecvIds : x = theirs[n] /\ thread[x] = t}
<1>1. n \in Nat /\ SendIds \subseteq Nat
  BY SizeAssumption DEF SendIds
<1>2. \A j \in SendIds : j < n + 1 <=> j < n \/ j = n
  BY <1>1
<1>3. Among(n + 1) = Among(n) \cup {x \in RecvIds : x = theirs[n]}
  BY <1>2 DEF Among
<1>4. theirs[n] \notin Among(n)
  <2> SUFFICES ASSUME NEW j \in SendIds, j < n, theirs[j] = theirs[n]
               PROVE  FALSE
    BY DEF Among
  <2>1. j = n
    BY DEF Static
  <2> QED
    BY <1>1, <2>1
<1> QED
  BY <1>3, <1>4 DEF Mine

\* All received hashes together give the intersection, none of them nothing.
LEMMA AmongAll ==
  Among(mSenderSize) = Common /\ Among(0) = {}
<1>1. \A j \in SendIds : j < mSenderSize /\ ~ j < 0
  BY SizeAssumption DEF SendIds
<1> QED
  BY <1>1 DEF Among, Common

\* Appending a sequence to the result.
LEMMA Appended ==
  ASSUME NEW S, NEW s \in Seq(S), NEW u \in Seq(S)
  PROVE  /\ s \o u \in Seq(S) /\ Len(s \o u) = Len(s) + Len(u)
         /\ ToSet(s \o u) = ToSet(s) \cup ToSet(u)
<1>1. s \o u \in Seq(S) /\ Len(s \o u) = Len(s) + Len(u)
  OBVIOUS
<1>2. DOMAIN s = 1 .. Len(s) /\ DOMAIN u = 1 .. Len(u) /\ DOMAIN (s \o u) = 1 .. Len(s) + Len(u)
      /\ Len(s) \in Nat /\ Len(u) \in Nat
  BY <1>1
<1>3. \A i \in 1 .. Len(s) + Len(u) : (s \o u)[i] = IF i <= Len(s) THEN s[i] ELSE u[i - Len(s)]
  OBVIOUS
<1>4. ASSUME NEW x \in ToSet(s \o u)
      PROVE  x \in ToSet(s) \cup ToSet(u)
  <2>1. PICK i \in 1 .. Len(s) + Len(u) : x = (s \o u)[i]
    BY <1>2 DEF ToSet
  <2>2. CASE i <= Len(s)
    BY <1>2, <1>3, <2>1, <2>2 DEF ToSet
  <2>3. CASE ~ i <= Len(s)
    <3>1. i - Len(s) \in 1 .. Len(u) /\ x = u[i - Len(s)]
      BY <1>2, <1>3, <2>1, <2>3
    <3> QED
      BY <1>2, <3>1 DEF ToSet
  <2> QED
    BY <2>2, <2>3
<1>5. ASSUME NEW x \in ToSet(s)
      PROVE  x \in ToSet(s \o u)
  <2>1. PICK i \in 1 .. Len(s) : x = s[i]
    BY <1>2 DEF ToSet
  <2>2. i \in 1 .. Len(s) + Len(u) /\ (s \o u)[i] = x
    BY <1>2, <1>3, <2>1
  <2> QED
    BY <1>2, <2>2 DEF ToSet
<1>6. ASSUME NEW x \in ToSet(u)
      PROVE  x \in ToSet(s \o u)
  <2>1. PICK i \in 1 .. Len(u) : x = u[i]
    BY <1>2 DEF ToSet
  <2>2. i + Len(s) \in 1 .. Len(s) + Len(u) /\ ~ i + Len(s) <= Len(s)
        /\ i + Len(s) - Len(s) = i
    BY <1>2, <2>1
  <2>3. (s \o u)[i + Len(s)] = x
    BY <1>3, <2>1, <2>2
  <2> QED
    BY <1>2, <2>2, <2>3 DEF ToSet
<1> QED
  BY <1>1, <1>4, <1>5, <1>6

\* A set of no or one element as a sequence.
LEMMA ShortSeq ==
  ASSUME NEW S, NEW x, S = {} \/ S = {x}
  PROVE  /\ SetToSeq(S) \in Seq(S) /\ Len(SetToSeq(S)) = Cardinality(S)
         /\ ToSet(SetToSeq(S)) = S
<1>1. \E f \in [1 .. Cardinality(S) -> S] : IsInjective(f)
  <2>1. CASE S = {}
    <3>1. Cardinality(S) = 0 /\ 1 .. 0 = {}
      BY <2>1, FS_EmptySet
    <3>2. [k \in 1 .. 0 |-> x] \in [1 .. Cardinality(S) -> S]
      BY <3>1
    <3>3. IsInjective([k \in 1 .. 0 |-> x])
      BY <3>1 DEF IsInjective
    <3> QED
      BY <3>2, <3>3
  <2>2. CASE S = {x}
    <3>1. Cardinality(S) = 1
      BY <2>2, FS_Singleton
    <3>2. [k \in 1 .. 1 |-> x] \in [1 .. Cardinality(S) -> S]
      BY <2>2, <3>1
    <3>3. IsInjective([k \in 1 .. 1 |-> x])
      BY DEF IsInjective
    <3> QED
      BY <3>2, <3>3
  <2> QED
    BY <2>1, <2>2
<1>2. SetToSeq(S) \in [1 .. Cardinality(S) -> S]
  BY <1>1 DEF SetToSeq
<1>3. Cardinality(S) \in Nat
  <2>1. CASE S = {}
    <3>1. Cardinality(S) = 0
      BY <2>1, FS_EmptySet
    <3> QED
      BY <3>1
  <2>2. CASE S = {x}
    <3>1. Cardinality(S) = 1
      BY <2>2, FS_Singleton
    <3> QED
      BY <3>1
  <2> QED
    BY <2>1, <2>2
<1>4. SetToSeq(S) \in Seq(S) /\ Len(SetToSeq(S)) = Cardinality(S)
  <2> SUFFICES ASSUME NEW m \in Nat, NEW q \in [1 .. m -> S]
               PROVE  q \in Seq(S) /\ Len(q) = m
    BY <1>2, <1>3
  <2> QED
    OBVIOUS
<1>5. ToSet(SetToSeq(S)) = S
  <2>1. CASE S = {}
    BY <1>2, <2>1 DEF ToSet
  <2>2. CASE S = {x}
    <3>1. Cardinality(S) = 1
      BY <2>2, FS_Singleton
    <3>2. DOMAIN SetToSeq(S) = 1 .. 1 /\ SetToSeq(S)[1] = x
      BY <1>2, <2>2, <3>1
    <3> QED
      BY <2>2, <3>2 DEF ToSet
  <2> QED
    BY <2>1, <2>2
<1> QED
  BY <1>4, <1>5

-----------------------------------------------------------------------------
(* The threads' shares of the memory. *)

\* Shares follow each other, and end where the received hashes begin.
LEMMA Shares ==
  ASSUME Static
  PROVE  /\ \A t \in 0 .. mNumThreads : Begin(t) \in Nat
         /\ \A s, t \in 0 .. mNumThreads : s <= t => Begin(s) <= Begin(t)
         /\ Begin(mNumThreads) = 2 * mRecverSize
<1>1. mNumThreads \in Nat \ {0} /\ mRecverSize \in Nat
  BY SizeAssumption DEF Static
<1>2. \A a \in Nat : \A n \in Nat \ {0} : a \div n \in Nat
  OBVIOUS
<1>3. \A a, b \in Nat : \A n \in Nat \ {0} : a <= b => a \div n <= b \div n
  OBVIOUS
<1>4. \A s, t \in Nat : s <= t => s * mRecverSize \in Nat /\ s * mRecverSize <= t * mRecverSize
  BY <1>1
<1>5. \A t \in 0 .. mNumThreads : t \in Nat /\ t * mRecverSize \in Nat
  BY <1>1, <1>4
<1>6. \A t \in 0 .. mNumThreads : (t * mRecverSize) \div mNumThreads \in Nat
  BY <1>1, <1>2, <1>5
<1>7. \A s, t \in 0 .. mNumThreads : s <= t =>
        (s * mRecverSize) \div mNumThreads <= (t * mRecverSize) \div mNumThreads
  BY <1>1, <1>3, <1>4, <1>5
<1>8. (mNumThreads * mRecverSize) \div mNumThreads = mRecverSize
  <2>1. 0 \in 0 .. mNumThreads - 1
    BY <1>1
  <2>2. (mNumThreads * mRecverSize + 0) \div mNumThreads = mRecverSize
    BY <1>1, <2>1, BlockOfByte
  <2>3. mNumThreads * mRecverSize + 0 = mNumThreads * mRecverSize
    BY <1>1
  <2> QED
    BY <2>2, <2>3
<1> QED
  BY <1>1, <1>6, <1>7, <1>8 DEF Begin

\* A thread's share has room for what it can find.
LEMMA Room ==
  ASSUME Static, RegionsSuffice, mNumThreads >= 2, NEW t \in Threads, NEW n \in Nat,
         n <= mSenderSize
  PROVE  /\ Begin(t) + Cardinality(Mine(t, n)) <= Begin(t + 1)
         /\ Begin(t + 1) <= 2 * mRecverSize
         /\ Begin(t) \in Nat /\ Begin(t + 1) \in Nat
<1>1. t \in 0 .. mNumThreads /\ t + 1 \in 0 .. mNumThreads /\ mNumThreads \in 0 .. mNumThreads
      /\ t + 1 <= mNumThreads
  BY DEF Static, Threads
<1>2. Mine(t, n) \subseteq {x \in Common : thread[x] = t}
  BY DEF Mine, Among, Common
<1>3. {x \in Common : thread[x] = t} \subseteq Among(mSenderSize)
  BY AmongAll
<1>4. /\ IsFiniteSet({x \in Common : thread[x] = t})
      /\ Cardinality({x \in Common : thread[x] = t}) \in Nat
  BY <1>3, AmongFinite
<1>5. /\ Cardinality(Mine(t, n)) <= Cardinality({x \in Common : thread[x] = t})
      /\ Cardinality(Mine(t, n)) \in Nat
  BY <1>2, <1>4, FS_Subset, FS_CardinalityType
<1>6. Cardinality({x \in Common : thread[x] = t}) <= Begin(t + 1) - Begin(t)
  BY DEF RegionsSuffice
<1>7. Begin(t) \in Nat /\ Begin(t + 1) \in Nat /\ Begin(t + 1) <= 2 * mRecverSize
  BY <1>1, Shares
<1> QED
  BY <1>4, <1>5, <1>6, <1>7

\* What an item's prefix says, and what is found for a received hash.
LEMMA Lookups ==
  ASSUME Static, SentIntact, theirHashes # << >>, NEW j \in SendIds, NEW t
  PROVE  /\ Lookup(t, j) \subseteq {x \in map[t] : x = theirs[j]}
         /\ (\A w \in Words : w >= 2 * mRecverSize => words[w] = Hash) =>
              Lookup(t, j) = {x \in map[t] : x = theirs[j]}
<1>1. theirHashes[j] = HashOf(theirs[j])
  BY DEF SentIntact, Sent
<1>2. \A x, y : HashOf(x) = HashOf(y) <=> x = y
  <2> SUFFICES ASSUME NEW x, NEW y, HashOf(x) = HashOf(y)
               PROVE  x = y
    OBVIOUS
  <2>1. 0 \in 0 .. mMaskSize - 1
    BY SizeAssumption DEF Static
  <2>2. HashOf(x)[0] = <<x, 0>> /\ HashOf(y)[0] = <<y, 0>>
    BY <2>1 DEF HashOf
  <2> QED
    BY <2>2
<1>3. (\A w \in Words : w >= 2 * mRecverSize => words[w] = Hash) => ~ StoredOver(j)
  BY DEF StoredOver
<1> QED
  BY <1>1, <1>2, <1>3 DEF Lookup

-----------------------------------------------------------------------------
(* Steps. *)

\* Sets, their division among threads, and shares never change.
LEMMA ParamsKept ==
  ASSUME UNCHANGED params
  PROVE  /\ Threads' = Threads /\ Words' = Words /\ Common' = Common
         /\ \A n : Among(n)' = Among(n)
         /\ (\A t, n : Mine(t, n)' = Mine(t, n))
         /\ \A t : Begin(t)' = Begin(t)
         /\ RegionsSuffice' = RegionsSuffice
BY DEF params, Threads, Words, Common, Among, Mine, Begin, RegionsSuffice

\* Steps that change nothing the invariant speaks of.
LEMMA ResultKept ==
  ASSUME ResultInv,
         UNCHANGED <<params, rpc, ri, theirHashes, words, tpc, ti, map, found, mIntersection>>
  PROVE  ResultInv'
<1>1. /\ Threads' = Threads /\ (\A n : Among(n)' = Among(n)) /\ (\A t, n : Mine(t, n)' = Mine(t, n))
      /\ \A t : Begin(t)' = Begin(t) /\ RegionsSuffice' = RegionsSuffice
  BY ParamsKept
<1>2. Static'
  BY <1>1 DEF ResultInv, Static, params
<1>3. mNumThreads' = mNumThreads
  BY DEF params
<1>4. SingleInv => SingleInv'
  BY <1>1 DEF SingleInv, Holds
<1>5. JoinInv => JoinInv'
  BY <1>1, <1>3 DEF JoinInv
<1>6. \A t : FoundInv(t) => FoundInv(t)'
  BY <1>1 DEF FoundInv
<1>7. StoreInv => StoreInv'
  <2>1. Merged' = Merged
    BY <1>1 DEF Merged, params
  <2>2. Holds(Merged)' <=> Holds(Merged)
    BY <2>1 DEF Holds
  <2>3. \A t : Stored(t)' = Stored(t)
    BY <1>1 DEF Stored
  <2> QED
    BY <1>1, <2>2, <2>3 DEF StoreInv
<1> QED
  BY <1>1, <1>2, <1>3, <1>4, <1>5, <1>6, <1>7 DEF ResultInv

\* The receiver without threads.
LEMMA SingleSteps ==
  ASSUME SenderInv, ThreadInv, ResultInv, SingleInsert \/ SingleFind \/ SingleEnd
  PROVE  ResultInv'
<1>1. /\ UNCHANGED <<params, ri, theirHashes, words, tpc, found>>
      /\ rpc \in {"insert", "find"}
  BY DEF SingleInsert, SingleFind, SingleEnd, threadVars
<1>2. /\ Threads' = Threads /\ \A n : Among(n)' = Among(n) /\ mNumThreads' = mNumThreads
  BY <1>1, ParamsKept DEF params
<1>3. Static /\ mNumThreads < 2 /\ SingleInv
  BY <1>1 DEF ResultInv, JoinInv, Static
<1>4. 0 \in Threads
  BY <1>3 DEF Static, Threads
<1>5. CASE SingleInsert
  <2>1. map'[0] = RecvIds
    BY <1>4, <1>5 DEF SingleInsert, ThreadInv, ThreadTypes
  <2>2. SingleInv'
    BY <1>1, <1>2, <1>3, <1>5, <2>1 DEF SingleInsert, SingleInv
  <2>3. Static'
    BY <1>1, <1>2, <1>3, <1>5 DEF SingleInsert, Static, params
  <2> QED
    BY <1>2, <1>3, <2>2, <2>3 DEF ResultInv, Static
<1>6. CASE SingleFind
  <2> DEFINE n == ti[0]
             L == Lookup(0, n)
  <2>1. n \in SendIds /\ n \in Nat /\ theirHashes # << >> /\ map[0] = RecvIds
        /\ Holds(Among(n)) /\ SentIntact
    BY <1>3, <1>4, <1>6, SizeAssumption
    DEF SingleFind, SingleInv, SendIds, ThreadInv, ThreadTypes, SenderInv
  <2>2. L = {x \in RecvIds : x = theirs[n]}
    BY <1>3, <2>1, Lookups DEF SingleInv
  <2>3. L = {} \/ L = {theirs[n]}
    BY <2>2
  <2> HIDE DEF n, L
  <2>4. /\ SetToSeq(L) \in Seq(L) /\ Len(SetToSeq(L)) = Cardinality(L)
        /\ ToSet(SetToSeq(L)) = L
    BY <2>3, ShortSeq
  <2>5. /\ Among(n + 1) = Among(n) \cup L /\ Among(n) \cap L = {}
    BY <1>3, <2>1, <2>2, AmongNext
  <2>6. Cardinality(Among(n + 1)) = Cardinality(Among(n)) + Cardinality(L)
    <3>1. CASE L = {}
      <4>1. Cardinality(L) = 0 /\ Cardinality(Among(n)) \in Nat
        BY <3>1, FS_EmptySet, AmongFinite
      <4> QED
        BY <2>5, <3>1, <4>1
    <3>2. CASE L = {theirs[n]}
      <4>1. Cardinality(L) = 1 /\ IsFiniteSet(Among(n))
        BY <3>2, FS_Singleton, AmongFinite
      <4>2. Cardinality(Among(n) \cup {theirs[n]}) = Cardinality(Among(n)) + 1
        BY <2>5, <3>2, <4>1, FS_AddElement
      <4> QED
        BY <2>5, <3>2, <4>1, <4>2
    <3> QED
      BY <2>3, <3>1, <3>2
  <2>7. L \subseteq RecvIds \cup {Hash}
    BY <2>2
  <2>8. SetToSeq(L) \in Seq(RecvIds \cup {Hash})
    BY <2>4, <2>7
  <2>9. mIntersection' = mIntersection \o SetToSeq(L) /\ ti'[0] = n + 1 /\ rpc' = "find"
        /\ map' = map
    BY <1>4, <1>6 DEF SingleFind, L, n, ThreadInv, ThreadTypes
  <2>10. mIntersection \in Seq(RecvIds \cup {Hash})
    BY <1>3 DEF Static
  <2>11. /\ mIntersection' \in Seq(RecvIds \cup {Hash})
         /\ Len(mIntersection') = Len(mIntersection) + Len(SetToSeq(L))
         /\ ToSet(mIntersection') = ToSet(mIntersection) \cup L
    <3>1. /\ mIntersection \o SetToSeq(L) \in Seq(RecvIds \cup {Hash})
          /\ Len(mIntersection \o SetToSeq(L)) = Len(mIntersection) + Len(SetToSeq(L))
          /\ ToSet(mIntersection \o SetToSeq(L)) = ToSet(mIntersection) \cup ToSet(SetToSeq(L))
      BY <2>8, <2>10, Appended
    <3> QED
      BY <2>4, <2>9, <3>1
  <2>12. ToSet(mIntersection') = Among(n + 1) /\ Len(mIntersection') = Cardinality(Among(n + 1))
    BY <2>1, <2>4, <2>5, <2>6, <2>11 DEF Holds
  <2>13. n + 1 <= mSenderSize
    BY <2>1, SizeAssumption DEF SendIds
  <2>14. Holds(Among(ti[0]))'
    <3>1. ToSet(mIntersection') = Among(ti'[0]) /\ Len(mIntersection') = Cardinality(Among(ti'[0]))
      BY <2>9, <2>12
    <3>2. Among(ti[0])' = Among(ti'[0])
      BY <1>1 DEF Among, params
    <3> QED
      BY <3>1, <3>2 DEF Holds
  <2>15. SingleInv'
    BY <1>1, <1>2, <1>3, <2>1, <2>9, <2>13, <2>14 DEF SingleInv
  <2>16. Static'
    BY <1>1, <1>2, <1>3, <2>11 DEF Static, params
  <2> QED
    BY <1>2, <1>3, <2>15, <2>16 DEF ResultInv, Static
<1>7. CASE SingleEnd
  <2>1. ti[0] = mSenderSize /\ rpc' = "done" /\ mIntersection' = mIntersection
        /\ map' = map /\ ti' = ti
    BY <1>7 DEF SingleEnd, threadVars
  <2>2. Holds(Among(mSenderSize))'
    BY <1>2, <1>3, <1>7, <2>1 DEF SingleEnd, SingleInv, Holds
  <2>3. SingleInv'
    BY <1>1, <1>2, <1>3, <2>1, <2>2 DEF SingleInv
  <2>4. Static'
    BY <1>1, <1>2, <1>3, <2>1 DEF Static, params
  <2> QED
    BY <1>2, <1>3, <2>3, <2>4 DEF ResultInv, Static
<1> QED
  BY <1>5, <1>6, <1>7

\* The receive, and what follows it when there are no threads.
LEMMA RecvResult ==
  ASSUME SenderInv, ThreadInv, ResultInv, Recv \/ RecvFails
  PROVE  ResultInv'
<1>1. /\ UNCHANGED <<params, ri, words, ti, map, found, mIntersection>> /\ rpc = "recv"
  BY DEF Recv, RecvFails, threadVars
<1>2. /\ Threads' = Threads /\ (\A n : Among(n)' = Among(n)) /\ (\A t, n : Mine(t, n)' = Mine(t, n))
      /\ \A t : Begin(t)' = Begin(t) /\ RegionsSuffice' = RegionsSuffice /\ mNumThreads' = mNumThreads
  BY <1>1, ParamsKept DEF params
<1>3. Static'
  BY <1>1, <1>2 DEF ResultInv, Static, params
<1>4. /\ \A t \in Threads : tpc'[t] \in {tpc[t], "none"} /\ (rpc' # "terminated" => tpc'[t] = tpc[t])
      /\ rpc' \in IF mNumThreads < 2 THEN {"find", "error"} ELSE {"signal", "terminated"}
      /\ rpc' = "find" => theirHashes' # << >>
  <2>1. \A t \in Threads : tpc'[t] \in {tpc[t], "none"}
    BY DEF Recv, RecvFails, threadVars
  <2>2. rpc' # "terminated" /\ mNumThreads >= 2 => tpc' = tpc
    BY DEF Recv, RecvFails, threadVars, ResultInv, Static
  <2>3. mNumThreads < 2 => \A t \in Threads : tpc[t] = "none" /\ tpc'[t] = "none"
    BY <1>1, <2>1 DEF ResultInv, SingleInv
  <2> QED
    BY <2>1, <2>2, <2>3 DEF Recv, RecvFails, ResultInv, Static
<1>5. ASSUME mNumThreads < 2
      PROVE  SingleInv'
  <2>1. SingleInv
    BY <1>5 DEF ResultInv
  <2>2. Cardinality({}) = 0 /\ ToSet(<< >>) = {} /\ Len(<< >>) = 0
    BY FS_EmptySet DEF ToSet
  <2>3. Holds(Among(0))'
    BY <1>1, <1>2, <2>1, <2>2, AmongAll DEF SingleInv, Holds
  <2>4. ti[0] = 0 /\ 0 <= mSenderSize
    BY <1>1, <2>1, SizeAssumption DEF SingleInv
  <2>5. rpc' \in {"find", "error"} /\ \A t \in Threads : tpc'[t] = "none"
    BY <1>4, <1>5, <2>1 DEF SingleInv
  <2>6. Holds(Among(ti[0]))'
    BY <1>1, <2>3, <2>4
  <2> QED
    BY <1>1, <1>2, <1>4, <2>1, <2>4, <2>5, <2>6 DEF SingleInv
<1>6. ASSUME mNumThreads >= 2
      PROVE  JoinInv' /\ \A t \in Threads : FoundInv(t)'
  <2>1. JoinInv /\ \A t \in Threads : FoundInv(t)
    BY <1>6 DEF ResultInv
  <2>2. rpc' \in {"signal", "terminated"}
    BY <1>4, <1>6 DEF ResultInv, Static
  <2>3. JoinInv'
    BY <1>1, <1>2, <2>1, <2>2 DEF JoinInv
  <2>4. \A t \in Threads : FoundInv(t)'
    BY <1>1, <1>2, <1>4, <2>1 DEF FoundInv
  <2> QED
    BY <2>3, <2>4
<1>7. ASSUME StoreInv
      PROVE  StoreInv'
  <2>1. \A t : Stored(t)' = Stored(t)
    BY <1>1, <1>2 DEF Stored
  <2>2. ASSUME rpc' # "terminated"
        PROVE  Holds(Merged)'
    <3>1. \A x \in Items : thread[x] \in Threads
      BY DEF ResultInv, Static
    <3>2. Merged' = Merged
      BY <1>1, <1>2, <1>4, <2>2, <3>1 DEF Merged, Among, Items, params
    <3> QED
      BY <1>1, <1>7, <3>2 DEF StoreInv, Holds
  <2> QED
    BY <1>1, <1>2, <1>4, <1>7, <2>1, <2>2 DEF StoreInv
<1> QED
  BY <1>2, <1>3, <1>5, <1>6, <1>7 DEF ResultInv

\* The threads are started, told of the hashes, and joined.
LEMMA OwnThreadResult ==
  ASSUME SenderInv, ThreadInv, ResultInv, Spawn \/ Signal \/ Join
  PROVE  ResultInv'
<1>1. UNCHANGED <<params, theirHashes, words, ti, map, found, mIntersection>>
  BY DEF Spawn, Signal, Join, threadVars
<1>2. /\ Threads' = Threads /\ (\A n : Among(n)' = Among(n)) /\ (\A t, n : Mine(t, n)' = Mine(t, n))
      /\ \A t : Begin(t)' = Begin(t) /\ RegionsSuffice' = RegionsSuffice /\ mNumThreads' = mNumThreads
  BY <1>1, ParamsKept DEF params
<1>3. Static'
  BY <1>1, <1>2 DEF ResultInv, Static, params
<1>4. mNumThreads >= 2 /\ JoinInv /\ \A t \in Threads : FoundInv(t)
  BY DEF Spawn, Signal, Join, ResultInv, SingleInv, Static
<1>5. /\ rpc \in {"spawn", "signal", "join"} /\ rpc' \in {"spawn", "recv", "join", "done"}
      /\ \A t \in Threads : tpc'[t] = tpc[t] \/ (tpc[t] = "none" /\ tpc'[t] = "hash" /\ rpc = "spawn")
  <2>1. CASE Spawn
    <3>1. \A t \in Threads : tpc'[t] = IF t = ri THEN "hash" ELSE tpc[t]
      BY <2>1 DEF Spawn, ThreadInv, ThreadTypes
    <3>2. ri \in Threads => tpc[ri] = "none"
      BY <2>1 DEF Spawn, ThreadInv, Tables, ThreadTypes
    <3> QED
      BY <2>1, <3>1, <3>2 DEF Spawn
  <2>2. CASE Signal \/ Join
    BY <2>2 DEF Signal, Join, threadVars
  <2> QED
    BY <2>1, <2>2
<1>6. JoinInv'
  <2>1. CASE Spawn
    BY <1>2, <1>4, <1>5, <2>1 DEF Spawn, JoinInv
  <2>2. CASE Signal
    <3>1. mNumThreads \in Nat /\ \A t \in Threads : ~ t < 0
      BY DEF Threads, ResultInv, Static
    <3> QED
      BY <1>2, <1>4, <2>2, <3>1 DEF Signal, JoinInv
  <2>3. CASE Join
    <3>1. ri \in Threads /\ ri' = ri + 1 /\ tpc[ri] = "end" /\ tpc' = tpc /\ ri \in Nat
          /\ mNumThreads \in Nat /\ rpc = "join" /\ ri < mNumThreads
      BY <1>4, <2>3 DEF Join, JoinInv, ThreadInv, ThreadTypes, threadVars, Threads
    <3>2. \A t \in Threads : t < ri + 1 => t < ri \/ t = ri
      BY <3>1 DEF Threads
    <3>3. \A t \in Threads : t < ri + 1 => tpc'[t] = "end"
      BY <1>4, <3>1, <3>2 DEF JoinInv
    <3>4. CASE ri + 1 = mNumThreads
      <4>1. \A t \in Threads : t < ri + 1
        BY <3>1, <3>4 DEF Threads
      <4> QED
        BY <1>2, <2>3, <3>3, <3>4, <4>1 DEF Join, JoinInv
    <3>5. CASE ri + 1 # mNumThreads
      <4>1. ri + 1 < mNumThreads /\ rpc' = "join"
        BY <2>3, <3>1, <3>5 DEF Join
      <4> QED
        BY <1>2, <3>1, <3>3, <4>1 DEF JoinInv
    <3> QED
      BY <3>4, <3>5
  <2> QED
    BY <2>1, <2>2, <2>3
<1>7. \A t \in Threads : FoundInv(t)'
  BY <1>1, <1>2, <1>4, <1>5 DEF FoundInv
<1>8. ASSUME StoreInv
      PROVE  StoreInv'
  <2>1. \A t : Stored(t)' = Stored(t)
    BY <1>1, <1>2 DEF Stored
  <2>2. \A x \in Items : thread[x] \in Threads
    BY DEF ResultInv, Static
  <2>3. Merged' = Merged
    BY <1>1, <1>2, <1>5, <2>2 DEF Merged, Among, Items, params
  <2>4. Holds(Merged)'
    BY <1>1, <1>5, <1>8, <2>3 DEF StoreInv, Holds
  <2> QED
    BY <1>1, <1>2, <1>5, <1>8, <2>1, <2>4 DEF StoreInv
<1> QED
  BY <1>2, <1>3, <1>4, <1>6, <1>7, <1>8 DEF ResultInv, Static

\* A thread runs only beside others, and not after the process ended.
LEMMA ThreadRuns ==
  ASSUME ThreadInv, ResultInv, NEW t \in Threads, tpc[t] # "none"
  PROVE  /\ mNumThreads >= 2 /\ Static /\ JoinInv /\ \A s \in Threads : FoundInv(s)
         /\ rpc # "terminated"
<1>1. mNumThreads \in Nat
  BY DEF ResultInv, Static
<1> QED
  BY <1>1 DEF ThreadInv, Receives, ResultInv, SingleInv

\* A thread before its first look-up.
LEMMA EarlyResult ==
  ASSUME SenderInv, ThreadInv, ResultInv, NEW t \in Threads,
         HashItem(t) \/ HashEnd(t) \/ HashingDone(t) \/ RecvDone(t)
  PROVE  ResultInv'
<1>1. UNCHANGED <<params, rpc, ri, theirHashes, words, found, mIntersection>>
  BY DEF HashItem, HashEnd, HashingDone, RecvDone
<1>2. /\ Threads' = Threads /\ (\A n : Among(n)' = Among(n)) /\ (\A s, n : Mine(s, n)' = Mine(s, n))
      /\ \A s : Begin(s)' = Begin(s) /\ RegionsSuffice' = RegionsSuffice /\ mNumThreads' = mNumThreads
  BY <1>1, ParamsKept DEF params
<1>3. Static'
  BY <1>1, <1>2 DEF ResultInv, Static, params
<1>4. /\ tpc[t] \in {"hash", "barrier", "recv"} /\ tpc'[t] \in {"hash", "barrier", "recv", "find"}
      /\ tpc'[t] = "find" => ti'[t] = 0
      /\ \A s \in Threads : s # t => tpc'[s] = tpc[s] /\ ti'[s] = ti[s]
  BY DEF HashItem, HashEnd, HashingDone, RecvDone, ThreadInv, ThreadTypes
<1>5. mNumThreads >= 2 /\ JoinInv /\ (\A s \in Threads : FoundInv(s)) /\ rpc # "terminated"
  BY <1>4, ThreadRuns
<1>6. JoinInv'
  BY <1>1, <1>2, <1>4, <1>5 DEF JoinInv
<1>7. Mine(t, 0) = {} /\ found[t] = 0 /\ Cardinality({}) = 0
  BY <1>4, <1>5, AmongAll, FS_EmptySet DEF FoundInv, Mine
<1>8. \A s \in Threads : FoundInv(s)'
  <2>1. \A s \in Threads : s # t => FoundInv(s)'
    BY <1>1, <1>2, <1>4, <1>5 DEF FoundInv
  <2>2. FoundInv(t)'
    <3>1. ASSUME tpc'[t] = "find"
          PROVE  ti'[t] <= mSenderSize /\ found'[t] <= Cardinality(Mine(t, ti'[t]))
      <4>1. ti'[t] = 0 /\ found'[t] = 0
        BY <1>1, <1>4, <1>7, <3>1
      <4>2. Cardinality(Mine(t, ti'[t])) = 0
        BY <1>7, <4>1
      <4>3. 0 <= mSenderSize /\ 0 <= 0
        BY SizeAssumption
      <4> QED
        BY <4>1, <4>2, <4>3
    <3>2. \A n : Mine(t, n)' = Mine(t, n)
      BY <1>2
    <3>3. Mine(t, ti[t])' = Mine(t, ti'[t])
      BY <1>1 DEF Mine, Among, params
    <3> QED
      BY <1>1, <1>5, <1>7, <3>1, <3>2, <3>3 DEF FoundInv
  <2> QED
    BY <2>1, <2>2
<1>9. ASSUME StoreInv
      PROVE  StoreInv'
  <2>1. \A s : Stored(s)' = Stored(s)
    BY <1>1, <1>2 DEF Stored
  <2>2. \A x \in Items : thread[x] \in Threads
    BY DEF ResultInv, Static
  <2>3. Merged' = Merged
    BY <1>1, <1>2, <1>4, <2>2 DEF Merged, Among, Items, params
  <2>4. Holds(Merged)'
    BY <1>1, <1>5, <1>9, <2>3 DEF StoreInv, Holds
  <2>5. tpc'[t] = "find" => found'[t] = Cardinality(Mine(t, ti[t])') /\ Stored(t)' = Mine(t, ti[t])'
    <3>1. Stored(t) = {}
      BY <1>7 DEF Stored
    <3>2. Mine(t, ti[t])' = Mine(t, ti'[t])
      BY <1>1 DEF Mine, Among, params
    <3> QED
      BY <1>1, <1>4, <1>7, <2>1, <3>1, <3>2
  <2>6. \A s \in Threads : s # t => Mine(s, ti[s])' = Mine(s, ti[s])
    BY <1>1, <1>4 DEF Mine, Among, params
  <2>7. ASSUME NEW s \in Threads, tpc'[s] = "find"
        PROVE  found'[s] = Cardinality(Mine(s, ti[s])') /\ Stored(s)' = Mine(s, ti[s])'
    <3>1. CASE s = t
      BY <2>5, <2>7, <3>1
    <3>2. CASE s # t
      BY <1>1, <1>4, <1>9, <2>1, <2>6, <2>7, <3>2 DEF StoreInv
    <3> QED
      BY <3>1, <3>2
  <2> QED
    BY <1>1, <1>2, <1>9, <2>4, <2>7 DEF StoreInv
<1> QED
  BY <1>2, <1>3, <1>5, <1>6, <1>8, <1>9 DEF ResultInv, Static

\* A look-up finds at most the item that was received, and stores it in the
\* thread's share behind what is there.
LEMMA FindResult ==
  ASSUME SenderInv, ThreadInv, ResultInv, NEW t \in Threads, FindItem(t)
  PROVE  ResultInv'
<1> DEFINE n == ti[t]
           F == Found(t, n)
           w0 == Begin(t) + found[t]
<1>1. UNCHANGED <<params, rpc, ri, theirHashes, tpc, map, mIntersection>>
  BY DEF FindItem
<1>2. /\ Threads' = Threads /\ (\A m : Among(m)' = Among(m)) /\ (\A s, m : Mine(s, m)' = Mine(s, m))
      /\ (\A s : Begin(s)' = Begin(s)) /\ RegionsSuffice' = RegionsSuffice
      /\ mNumThreads' = mNumThreads
  BY <1>1, ParamsKept DEF params
<1>3. Static'
  <2>1. Static
    BY DEF ResultInv
  <2>2. found' = [s \in Threads |-> found'[s]]
    BY <2>1 DEF FindItem, Static
  <2> QED
    BY <1>1, <1>2, <2>1, <2>2 DEF Static, params
<1>4. tpc[t] = "find" /\ n \in SendIds /\ n \in Nat
  BY SizeAssumption DEF FindItem, ThreadInv, ThreadTypes, SendIds
<1>5. /\ mNumThreads >= 2 /\ Static /\ JoinInv /\ (\A s \in Threads : FoundInv(s))
      /\ rpc # "terminated"
  BY <1>4, ThreadRuns
<1>6. theirHashes # << >> /\ map[t] = Own(t) /\ SentIntact
  BY <1>4 DEF ThreadInv, Tables, Receives, SenderInv
<1>7. F \subseteq {x \in RecvIds : x = theirs[n] /\ thread[x] = t}
  BY <1>4, <1>5, <1>6, Lookups DEF Found, Own
<1>8. StoreInv => F = {x \in RecvIds : x = theirs[n] /\ thread[x] = t}
  BY <1>4, <1>5, <1>6, Lookups DEF Found, Own, StoreInv
<1>9. /\ ti'[t] = n + 1 /\ \A s \in Threads : s # t => ti'[s] = ti[s]
      /\ n + 1 \in Nat /\ n + 1 <= mSenderSize
  BY <1>4, SizeAssumption DEF FindItem, ThreadInv, ThreadTypes, SendIds
<1>10. Mine(t, n + 1) = Mine(t, n) \cup {x \in RecvIds : x = theirs[n] /\ thread[x] = t}
       /\ theirs[n] \notin Mine(t, n)
  BY <1>4, <1>5, AmongNext DEF Mine
<1>11. /\ IsFiniteSet(Mine(t, n)) /\ IsFiniteSet(Mine(t, n + 1))
       /\ Cardinality(Mine(t, n)) \in Nat /\ Cardinality(Mine(t, n + 1)) \in Nat
       /\ Cardinality(Mine(t, n)) <= Cardinality(Mine(t, n + 1))
       /\ Cardinality(Mine(t, n + 1)) <= Cardinality(Mine(t, mSenderSize))
  <2>1. Mine(t, n) \subseteq Among(n) /\ Mine(t, n + 1) \subseteq Among(n + 1)
        /\ Mine(t, mSenderSize) \subseteq Among(mSenderSize)
    BY DEF Mine
  <2>2. /\ IsFiniteSet(Mine(t, n)) /\ IsFiniteSet(Mine(t, n + 1))
        /\ IsFiniteSet(Mine(t, mSenderSize))
        /\ Cardinality(Mine(t, n)) \in Nat /\ Cardinality(Mine(t, n + 1)) \in Nat
    BY <2>1, AmongFinite
  <2>3. Mine(t, n + 1) \subseteq Mine(t, mSenderSize)
    <3>1. \A j \in SendIds : j < mSenderSize
      BY SizeAssumption DEF SendIds
    <3> QED
      BY <3>1 DEF Mine, Among
  <2>4. Cardinality(Mine(t, n)) <= Cardinality(Mine(t, n + 1))
    BY <1>10, <2>2, FS_Subset
  <2>5. Cardinality(Mine(t, n + 1)) <= Cardinality(Mine(t, mSenderSize))
    BY <2>2, <2>3, FS_Subset
  <2> QED
    BY <2>2, <2>4, <2>5
<1>12. found[t] \in Nat /\ found[t] <= Cardinality(Mine(t, n))
  BY <1>4, <1>5 DEF FoundInv
<1>13. CASE F = {} /\ UNCHANGED <<words, found>>
  <2>1. \A s \in Threads : FoundInv(s)'
    <3>1. \A s \in Threads : s # t => FoundInv(s)'
      BY <1>1, <1>2, <1>5, <1>9, <1>13 DEF FoundInv
    <3>2. Mine(t, ti[t])' = Mine(t, n + 1)
      BY <1>1, <1>9 DEF Mine, Among, params
    <3>3. found'[t] <= Cardinality(Mine(t, ti[t])')
      BY <1>11, <1>12, <1>13, <3>2
    <3>4. FoundInv(t)'
      BY <1>1, <1>2, <1>4, <1>5, <1>9, <1>13, <3>3 DEF FoundInv
    <3> QED
      BY <3>1, <3>4
  <2>2. ASSUME StoreInv
        PROVE  StoreInv'
    <3>1. Mine(t, n + 1) = Mine(t, n)
      BY <1>8, <1>10, <1>13, <2>2
    <3>2. \A s \in Threads : Mine(s, ti[s])' = Mine(s, ti[s])
      <4>1. \A s \in Threads : s # t => Mine(s, ti[s])' = Mine(s, ti[s])
        BY <1>1, <1>9 DEF Mine, Among, params
      <4>2. Mine(t, ti[t])' = Mine(t, n + 1)
        BY <1>1, <1>9 DEF Mine, Among, params
      <4> QED
        BY <3>1, <4>1, <4>2
    <3>3. \A s : Stored(s)' = Stored(s)
      BY <1>2, <1>13 DEF Stored
    <3>4. Holds(Merged)' <=> Holds(Merged)
      BY <1>1, <1>2 DEF Merged, Holds, params
    <3> QED
      BY <1>1, <1>2, <1>13, <2>2, <3>2, <3>3, <3>4 DEF StoreInv
  <2> QED
    BY <1>1, <1>2, <1>3, <1>5, <2>1, <2>2 DEF ResultInv, Static, JoinInv
<1>14. ASSUME NEW x \in F,
              found' = [found EXCEPT ![t] = found[t] + 1],
              words' = [words EXCEPT ![w0] = x]
       PROVE  ResultInv'
  <2>1. x = theirs[n] /\ Mine(t, n + 1) = Mine(t, n) \cup {x} /\ x \notin Mine(t, n)
    BY <1>7, <1>10
  <2>2. Cardinality(Mine(t, n + 1)) = Cardinality(Mine(t, n)) + 1
    BY <1>11, <2>1, FS_AddElement
  <2>3. \A s \in Threads : found'[s] = IF s = t THEN found[t] + 1 ELSE found[s]
    <3>1. \A s \in Threads : s # t => found'[s] = found[s]
      BY <1>14
    <3>2. t \in DOMAIN found
      BY <1>5 DEF Static
    <3>3. found'[t] = found[t] + 1
      BY <1>14, <3>2
    <3> QED
      BY <3>1, <3>3
  <2>4. Mine(t, ti[t])' = Mine(t, n + 1)
    BY <1>1, <1>9 DEF Mine, Among, params
  <2>5. \A s \in Threads : s # t => Mine(s, ti[s])' = Mine(s, ti[s])
    BY <1>1, <1>9 DEF Mine, Among, params
  <2>6. \A s \in Threads : FoundInv(s)'
    <3>1. \A s \in Threads : s # t => FoundInv(s)'
      BY <1>1, <1>2, <1>5, <1>9, <2>3 DEF FoundInv
    <3>2. found'[t] \in Nat /\ found'[t] <= Cardinality(Mine(t, n + 1))
          /\ found'[t] <= Cardinality(Mine(t, mSenderSize))
      <4>1. Cardinality(Mine(t, mSenderSize)) \in Nat
        BY AmongFinite DEF Mine
      <4> QED
        BY <1>11, <1>12, <2>2, <2>3, <4>1
    <3>3. FoundInv(t)'
      BY <1>1, <1>2, <1>4, <1>9, <2>4, <3>2 DEF FoundInv
    <3> QED
      BY <3>1, <3>3
  <2>7. ASSUME StoreInv, RegionsSuffice
        PROVE  StoreInv'
    <3>1. found[t] = Cardinality(Mine(t, n)) /\ Stored(t) = Mine(t, n)
      BY <1>4, <2>7 DEF StoreInv
    <3>2. /\ Begin(t) \in Nat /\ Begin(t + 1) \in Nat
          /\ w0 \in Nat /\ w0 < Begin(t + 1) /\ Begin(t + 1) <= 2 * mRecverSize
      <4>1. /\ Begin(t) + Cardinality(Mine(t, n + 1)) <= Begin(t + 1)
            /\ Begin(t + 1) <= 2 * mRecverSize
            /\ Begin(t) \in Nat /\ Begin(t + 1) \in Nat
        BY <1>5, <1>9, <2>7, Room
      <4> QED
        BY <1>11, <1>12, <2>2, <3>1, <4>1
    <3>3. w0 \in Words /\ \A w \in Words : words'[w] = IF w = w0 THEN x ELSE words[w]
      <4>1. w0 \in Words
        BY <3>2, SizeAssumption DEF Words
      <4>2. words \in [Words -> RecvIds \cup {Hash}]
        BY DEF ThreadInv, ThreadTypes
      <4> HIDE DEF w0, F
      <4> QED
        BY <1>14, <4>1, <4>2
    <3>4. Stored(t)' = Stored(t) \cup {x}
      <4>1. \A k \in 0 .. found[t] - 1 : Begin(t) + k \in Words /\ Begin(t) + k # w0
        BY <1>12, <3>2, SizeAssumption DEF Words
      <4>2. 0 .. (found[t] + 1) - 1 = (0 .. found[t] - 1) \cup {found[t]}
        BY <1>12
      <4>3. Stored(t)' = {words'[Begin(t) + k] : k \in 0 .. (found[t] + 1) - 1}
        BY <1>2, <2>3 DEF Stored
      <4>4. words'[Begin(t) + found[t]] = x
        BY <3>3
      <4>5. \A k \in 0 .. found[t] - 1 : words'[Begin(t) + k] = words[Begin(t) + k]
        BY <3>3, <4>1
      <4>6. Stored(t)' = {words'[Begin(t) + k] : k \in (0 .. found[t] - 1) \cup {found[t]}}
        BY <4>2, <4>3
      <4> HIDE DEF w0, F
      <4>7. Stored(t) = {words'[Begin(t) + k] : k \in 0 .. found[t] - 1}
        BY <4>5 DEF Stored
      <4>8. {words'[Begin(t) + k] : k \in (0 .. found[t] - 1) \cup {found[t]}} =
              {words'[Begin(t) + k] : k \in 0 .. found[t] - 1} \cup {words'[Begin(t) + found[t]]}
        OBVIOUS
      <4> QED
        BY <4>4, <4>6, <4>7, <4>8
    <3>5. ASSUME NEW s \in Threads, s # t, tpc[s] = "find"
          PROVE  Stored(s)' = Stored(s)
      <4>1. found[s] \in Nat /\ found[s] <= Cardinality(Mine(s, ti[s])) /\ ti[s] <= mSenderSize
            /\ ti[s] \in Nat
        BY <1>5, <3>5 DEF FoundInv, ThreadInv, ThreadTypes
      <4>2. /\ Begin(s) + Cardinality(Mine(s, ti[s])) <= Begin(s + 1)
            /\ Begin(s + 1) <= 2 * mRecverSize
            /\ Begin(s) \in Nat /\ Begin(s + 1) \in Nat
        BY <1>5, <2>7, <4>1, Room
      <4>3. Cardinality(Mine(s, ti[s])) \in Nat
        BY AmongFinite DEF Mine
      <4>4. Begin(s + 1) <= Begin(t) \/ Begin(t + 1) <= Begin(s)
        <5>1. s \in 0 .. mNumThreads /\ s + 1 \in 0 .. mNumThreads /\ t \in 0 .. mNumThreads
              /\ t + 1 \in 0 .. mNumThreads /\ (s + 1 <= t \/ t + 1 <= s)
          BY <1>5, <3>5 DEF Static, Threads
        <5> QED
          BY <1>5, <5>1, Shares
      <4>5. \A k \in 0 .. found[s] - 1 : Begin(s) + k \in Words /\ Begin(s) + k # w0
        <5>1. \A k \in 0 .. found[s] - 1 : Begin(s) + k < Begin(s + 1) /\ Begin(s) + k \in Nat
                                           /\ Begin(s) <= Begin(s) + k
          BY <4>1, <4>2, <4>3
        <5>2. Begin(t) <= w0
          BY <1>12, <3>2
        <5> HIDE DEF w0
        <5> QED
          BY <3>2, <4>2, <4>4, <5>1, <5>2, SizeAssumption DEF Words
      <4>6. \A k \in 0 .. found[s] - 1 : words'[Begin(s) + k] = words[Begin(s) + k]
        BY <3>3, <4>5
      <4>7. Stored(s)' = {words'[Begin(s) + k] : k \in 0 .. found[s] - 1}
        BY <1>2, <2>3, <3>5 DEF Stored
      <4> QED
        BY <4>6, <4>7 DEF Stored
    <3>6. \A w \in Words : w >= 2 * mRecverSize => words'[w] = Hash
      <4>1. \A w \in Words : w >= 2 * mRecverSize => w # w0
        BY <3>2, SizeAssumption DEF Words
      <4> QED
        BY <2>7, <3>3, <4>1 DEF StoreInv
    <3>7. \A s \in Threads : tpc'[s] = "find" =>
            found'[s] = Cardinality(Mine(s, ti[s])') /\ Stored(s)' = Mine(s, ti[s])'
      <4>1. found'[t] = Cardinality(Mine(t, ti[t])') /\ Stored(t)' = Mine(t, ti[t])'
        BY <2>1, <2>2, <2>3, <2>4, <3>1, <3>4
      <4>2. \A s \in Threads : s # t /\ tpc[s] = "find" =>
              found'[s] = Cardinality(Mine(s, ti[s])') /\ Stored(s)' = Mine(s, ti[s])'
        BY <2>3, <2>5, <2>7, <3>5 DEF StoreInv
      <4> QED
        BY <1>1, <4>1, <4>2
    <3>8. Holds(Merged)' <=> Holds(Merged)
      BY <1>1, <1>2 DEF Merged, Holds, params
    <3> QED
      BY <1>1, <1>2, <2>7, <3>6, <3>7, <3>8 DEF StoreInv
  <2> QED
    BY <1>1, <1>2, <1>3, <1>5, <2>6, <2>7 DEF ResultInv, Static, JoinInv
<1> QED
  BY <1>13, <1>14 DEF FindItem

\* A thread appends what it has stored: the common items it is responsible for.
LEMMA MergeResult ==
  ASSUME SenderInv, ThreadInv, ResultInv, NEW t \in Threads, Merge(t)
  PROVE  ResultInv'
<1> DEFINE u == [k \in 1 .. found[t] |-> words[Begin(t) + k - 1]]
           W == RecvIds \cup {Hash}
           All == mSenderSize
<1>1. /\ UNCHANGED <<params, rpc, ri, theirHashes, words, ti, map, found>>
      /\ mIntersection' = mIntersection \o u
  BY DEF Merge
<1>2. /\ Threads' = Threads /\ (\A m : Among(m)' = Among(m)) /\ (\A s, m : Mine(s, m)' = Mine(s, m))
      /\ (\A s : Begin(s)' = Begin(s)) /\ RegionsSuffice' = RegionsSuffice
      /\ mNumThreads' = mNumThreads
  BY <1>1, ParamsKept DEF params
<1>3. /\ tpc[t] = "find" /\ ti[t] = All
      /\ \A s \in Threads : tpc'[s] = IF s = t THEN "end" ELSE tpc[s]
  BY DEF Merge, ThreadInv, ThreadTypes
<1>4. /\ mNumThreads >= 2 /\ Static /\ JoinInv /\ (\A s \in Threads : FoundInv(s))
      /\ rpc # "terminated"
  BY <1>3, ThreadRuns
<1>5. found[t] \in Nat /\ found[t] <= mRecverSize /\ Begin(t) \in Nat
      /\ Begin(t) <= 2 * mRecverSize
  <2>1. found[t] \in Nat /\ found[t] <= Cardinality(Mine(t, All))
    BY <1>4 DEF FoundInv
  <2>2. Cardinality(Mine(t, All)) \in Nat /\ Cardinality(Mine(t, All)) <= mRecverSize
    BY AmongFinite DEF Mine
  <2>3. t \in 0 .. mNumThreads /\ mNumThreads \in 0 .. mNumThreads /\ t <= mNumThreads
    BY <1>4 DEF Static, Threads
  <2>4. Begin(t) \in Nat /\ Begin(t) <= 2 * mRecverSize
    BY <1>4, <2>3, Shares
  <2> QED
    BY <2>1, <2>2, <2>4, SizeAssumption
<1>6. \A k \in 1 .. found[t] : Begin(t) + k - 1 \in Words
  BY <1>5, SizeAssumption DEF Words
<1>7. \A k \in 1 .. found[t] : words[Begin(t) + k - 1] \in W
  BY <1>6 DEF ThreadInv, ThreadTypes
<1>8. u \in Seq(W) /\ Len(u) = found[t] /\ DOMAIN u = 1 .. found[t]
  <2>1. u \in [1 .. found[t] -> W]
    BY <1>7
  <2> HIDE DEF u, W
  <2> QED
    BY <1>5, <2>1
<1>9. /\ mIntersection' \in Seq(W) /\ Len(mIntersection') = Len(mIntersection) + found[t]
      /\ ToSet(mIntersection') = ToSet(mIntersection) \cup ToSet(u)
  <2>1. mIntersection \in Seq(W)
    BY <1>4 DEF Static
  <2> HIDE DEF u, W
  <2> QED
    BY <1>1, <1>8, <2>1, Appended
<1>10. Static'
  BY <1>1, <1>2, <1>4, <1>9 DEF Static, params
<1>11. JoinInv'
  BY <1>1, <1>2, <1>3, <1>4 DEF JoinInv
<1>12. \A s \in Threads : FoundInv(s)'
  BY <1>1, <1>2, <1>3, <1>4 DEF FoundInv
<1>13. ASSUME StoreInv, RegionsSuffice
       PROVE  StoreInv'
  <2>1. /\ found[t] = Cardinality(Mine(t, All)) /\ Stored(t) = Mine(t, All)
        /\ ToSet(mIntersection) = Merged /\ Len(mIntersection) = Cardinality(Merged)
    BY <1>3, <1>4, <1>13 DEF StoreInv, Holds
  <2>2. ToSet(u) = Stored(t)
    <3>1. ASSUME NEW k \in 1 .. found[t]
          PROVE  k - 1 \in 0 .. found[t] - 1 /\ u[k] = words[Begin(t) + (k - 1)]
      <4>1. Begin(t) + k - 1 = Begin(t) + (k - 1)
        BY <1>5
      <4> QED
        BY <1>5, <4>1
    <3>2. ASSUME NEW k \in 0 .. found[t] - 1
          PROVE  k + 1 \in 1 .. found[t] /\ u[k + 1] = words[Begin(t) + k]
      <4>1. Begin(t) + (k + 1) - 1 = Begin(t) + k /\ k + 1 \in 1 .. found[t]
        BY <1>5
      <4> QED
        BY <4>1
    <3> HIDE DEF u
    <3> QED
      BY <1>8, <3>1, <3>2 DEF ToSet, Stored
  <2>3. Merged' = Merged \cup Mine(t, All) /\ Merged \cap Mine(t, All) = {}
    <3>1. \A x \in Among(All) : thread[x] \in Threads
      BY <1>4 DEF Static, Among, Items
    <3>2. Merged' = {x \in Among(All) : tpc'[thread[x]] = "end"}
      BY <1>1, <1>2 DEF Merged, params
    <3> QED
      BY <1>3, <3>1, <3>2 DEF Merged, Mine
  <2>4. /\ IsFiniteSet(Merged) /\ IsFiniteSet(Mine(t, All))
        /\ Cardinality(Merged) \in Nat /\ Cardinality(Mine(t, All)) \in Nat
    BY AmongFinite DEF Merged, Mine
  <2>5. Cardinality(Merged \cup Mine(t, All)) = Cardinality(Merged) + Cardinality(Mine(t, All))
    <3>1. Cardinality(Merged \cup Mine(t, All)) =
            Cardinality(Merged) + Cardinality(Mine(t, All)) - Cardinality(Merged \cap Mine(t, All))
      BY <2>4, FS_Union
    <3>2. Cardinality(Merged \cap Mine(t, All)) = 0
      BY <2>3, FS_EmptySet
    <3> QED
      BY <2>4, <3>1, <3>2
  <2>6. Holds(Merged)'
    <3>1. ToSet(mIntersection') = Merged'
      BY <1>9, <2>1, <2>2, <2>3
    <3>2. Len(mIntersection') = Cardinality(Merged')
      BY <1>9, <2>1, <2>3, <2>5
    <3> QED
      BY <3>1, <3>2 DEF Holds
  <2>7. \A s : Stored(s)' = Stored(s)
    BY <1>1, <1>2 DEF Stored
  <2>8. \A s \in Threads : Mine(s, ti[s])' = Mine(s, ti[s])
    BY <1>1 DEF Mine, Among, params
  <2>9. \A s \in Threads : tpc'[s] = "find" =>
          found'[s] = Cardinality(Mine(s, ti[s])') /\ Stored(s)' = Mine(s, ti[s])'
    BY <1>1, <1>3, <1>13, <2>7, <2>8 DEF StoreInv
  <2> QED
    BY <1>1, <1>2, <1>13, <2>6, <2>9 DEF StoreInv
<1> QED
  BY <1>2, <1>4, <1>10, <1>11, <1>12, <1>13 DEF ResultInv, Static

-----------------------------------------------------------------------------
(* The invariant holds. *)

\* Nothing is found or merged at the start.
LEMMA ResultInit ==
  ASSUME Init
  PROVE  ResultInv
<1>1. mNumThreads \in Nat \ {0} /\ mMaskSize \in 1 .. BlockSize
  BY SizeAssumption DEF Init
<1>2. /\ theirs \in [SendIds -> Items] /\ thread \in [Items -> Threads]
      /\ \A j, k \in SendIds : theirs[j] = theirs[k] => j = k
  BY DEF Init, Threads
<1>3. << >> \in Seq(RecvIds \cup {Hash}) /\ Len(<< >>) = 0 /\ ToSet(<< >>) = {}
      /\ Cardinality({}) = 0
  BY FS_EmptySet DEF ToSet
<1>4. Static
  BY <1>1, <1>2, <1>3 DEF Init, Static
<1>5. ASSUME mNumThreads < 2
      PROVE  SingleInv
  <2>1. mNumThreads = 1 /\ 0 \in Threads
    BY <1>1, <1>5 DEF Threads
  <2> QED
    BY <1>5, <2>1 DEF Init, SingleInv
<1>6. ASSUME mNumThreads >= 2
      PROVE  JoinInv
  BY <1>1, <1>6 DEF Init, JoinInv
<1>7. \A t \in Threads : FoundInv(t)
  <2> SUFFICES ASSUME NEW t \in Threads
               PROVE  FoundInv(t)
    OBVIOUS
  <2>1. Cardinality(Mine(t, mSenderSize)) \in Nat
    BY AmongFinite DEF Mine
  <2>2. found[t] = 0 /\ tpc[t] = "none"
    BY DEF Init
  <2> QED
    BY <2>1, <2>2 DEF FoundInv
<1>8. StoreInv
  <2>1. \A x \in Among(mSenderSize) : thread[x] \in Threads
    BY <1>2 DEF Among, Items
  <2>2. Merged = {}
    BY <2>1 DEF Init, Merged
  <2> QED
    BY <1>3, <2>2 DEF Init, StoreInv, Holds
<1> QED
  BY <1>4, <1>5, <1>6, <1>7, <1>8 DEF ResultInv

\* Every step keeps the invariant of the result.
LEMMA ResultNext ==
  ASSUME SenderInv, ThreadInv, ResultInv, [Next]_vars
  PROVE  ResultInv'
<1>1. CASE SenderStep \/ SenderDies
  BY <1>1, ResultKept
  DEF SenderStep, CompressMove, CompressCopy, CompressEnd, SendHashes, SenderDies, threadVars
<1>2. CASE RecverStep
  BY <1>2, SingleSteps, RecvResult, OwnThreadResult DEF RecverStep
<1>3. CASE \E t \in Threads : ThreadStep(t)
  BY <1>3, EarlyResult, FindResult, MergeResult DEF ThreadStep
<1>4. CASE UNCHANGED vars
  BY <1>4, ResultKept DEF vars, threadVars
<1> QED
  BY <1>1, <1>2, <1>3, <1>4 DEF Next, Progress

\* No counter passes the number of threads.
LEMMA RangeNext ==
  ASSUME SenderInv, ThreadInv, ResultInv, RangeInv, [Next]_vars
  PROVE  RangeInv'
<1>1. mNumThreads' = mNumThreads /\ Threads' = Threads /\ mNumThreads \in Nat \ {0}
  BY DEF Next, Progress, SenderStep, CompressMove, CompressCopy, CompressEnd, SendHashes, SenderDies,
         RecverStep, SingleInsert, SingleFind, SingleEnd, Spawn, Recv, RecvFails, Signal, Join,
         ThreadStep, HashItem, HashEnd, HashingDone, RecvDone, FindItem, Merge,
         vars, params, Threads, ThreadInv, ThreadTypes
<1>2. CASE SenderStep \/ SenderDies \/ UNCHANGED vars
  BY <1>1, <1>2
  DEF SenderStep, CompressMove, CompressCopy, CompressEnd, SendHashes, SenderDies, vars,
      senderVars, threadVars, RangeInv
<1>3. CASE RecverStep /\ ~ Spawn /\ ~ Join
  BY <1>1, <1>3
  DEF RecverStep, SingleInsert, SingleFind, SingleEnd, Recv, RecvFails, Signal, senderVars,
      threadVars, RangeInv
<1>4. CASE Spawn
  BY <1>1, <1>4 DEF Spawn, senderVars, RangeInv
<1>5. CASE Join
  <2>1. ri < mNumThreads
    BY <1>1, <1>5 DEF Join, ResultInv, JoinInv, SingleInv
  <2> QED
    BY <1>1, <1>5, <2>1 DEF Join, senderVars, threadVars, RangeInv
<1>6. ASSUME NEW t \in Threads, HashEnd(t)
      PROVE  RangeInv'
  <2>1. ThreadInv'
    BY <1>6, ThreadNext DEF Next, Progress, ThreadStep
  <2>2. rpc' = rpc /\ rpc \notin {"error", "terminated"}
    BY <1>6 DEF HashEnd, ThreadInv, Receives
  <2>3. numDone' = Cardinality(Hashed')
    BY <2>1, <2>2 DEF ThreadInv, Barrier
  <2>4. IsFiniteSet(Threads) /\ Cardinality(Threads) = mNumThreads
    BY <1>1, FS_Interval DEF Threads
  <2>5. Hashed' \subseteq Threads
    BY <1>1 DEF Hashed
  <2>6. Cardinality(Hashed') \in Nat /\ Cardinality(Hashed') <= mNumThreads
    BY <2>4, <2>5, FS_Subset, FS_CardinalityType
  <2>7. numDone' \in 0 .. mNumThreads
    BY <1>1, <2>3, <2>6
  <2> QED
    BY <1>1, <1>6, <2>2, <2>7 DEF HashEnd, senderVars, RangeInv
<1>7. ASSUME NEW t \in Threads, ThreadStep(t), ~ HashEnd(t)
      PROVE  RangeInv'
  BY <1>1, <1>7
  DEF ThreadStep, HashItem, HashingDone, RecvDone, FindItem, Merge, senderVars, RangeInv
<1>8. CASE RecverStep
  BY <1>3, <1>4, <1>5, <1>8
<1>9. CASE \E t \in Threads : ThreadStep(t)
  BY <1>6, <1>7, <1>9
<1> QED
  BY <1>2, <1>8, <1>9 DEF Next, Progress

\* All the invariants hold at the start.
LEMMA InvInit == Init => IInv
<1>1. ASSUME Init
      PROVE  RangeInv
  <2>1. mNumThreads \in Nat \ {0}
    BY <1>1, SizeAssumption DEF Init
  <2>2. spc \in {"compress", "send"} /\ ri = 0 /\ numDone = 0 /\ ~ hashingDone /\ ~ fu
    BY <1>1 DEF Init
  <2>3. hashingDone \in BOOLEAN /\ fu \in BOOLEAN
    BY <1>1 DEF Init
  <2> QED
    BY <2>1, <2>2, <2>3 DEF RangeInv
<1> QED
  BY <1>1, SenderInit, ThreadInit, ResultInit DEF IInv

\* All the invariants are kept by every step.
LEMMA InvNext == IInv /\ [Next]_vars => IInv'
BY SenderNext, ThreadNext, ResultNext, RangeNext DEF IInv

\* Every variable keeps its type for any number of threads; in particular no
\* thread finds more than the receiver has, so none writes past the memory of
\* the received hashes.
THEOREM TypesKept == Spec => []TypeOK
<1>1. IInv => TypeOK
  <2> SUFFICES ASSUME IInv
               PROVE  TypeOK
    OBVIOUS
  <2>1. SenderInv /\ ThreadTypes /\ RangeInv /\ ResultInv /\ Static
    BY DEF IInv, ThreadInv, ResultInv
  <2>2. \A t \in Threads : found[t] \in 0 .. mRecverSize
    <3> SUFFICES ASSUME NEW t \in Threads
                 PROVE  found[t] \in 0 .. mRecverSize
      OBVIOUS
    <3>1. CASE mNumThreads < 2
      BY <2>1, <3>1, SizeAssumption DEF ResultInv, SingleInv
    <3>2. CASE mNumThreads >= 2
      <4>1. found[t] \in Nat /\ found[t] <= Cardinality(Mine(t, mSenderSize))
        BY <2>1, <3>2 DEF ResultInv, FoundInv
      <4>2. Cardinality(Mine(t, mSenderSize)) \in Nat
            /\ Cardinality(Mine(t, mSenderSize)) <= mRecverSize
        BY AmongFinite DEF Mine
      <4> QED
        BY <4>1, <4>2, SizeAssumption
    <3> QED
      BY <2>1, <3>1, <3>2 DEF Static
  <2>3. found \in [Threads -> 0 .. mRecverSize]
    BY <2>1, <2>2 DEF Static
  <2>4. DOMAIN hashes = 0 .. BlockSize * mSenderSize - 1 /\ si \in 0 .. mSenderSize
    BY <2>1 DEF SenderInv, Bytes
  <2> QED
    BY <2>1, <2>3, <2>4 DEF TypeOK, ThreadTypes, RangeInv
<1> QED
  BY <1>1, InvInit, InvNext, PTL DEF Spec

\* Whatever the order in which the threads find and merge, the receiver's
\* result is the intersection, each item once, for all set sizes, every number
\* of threads and every division of the hashes among them for which the
\* threads' shares of the memory suffice.
THEOREM ResultCorrectHolds == Spec => []ResultCorrect
<1>1. IInv => ResultCorrect
  <2> SUFFICES ASSUME IInv, rpc = "done", RegionsSuffice
               PROVE  Holds(Common)
    BY DEF ResultCorrect, Holds
  <2>1. Static
    BY DEF IInv, ResultInv
  <2>2. CASE mNumThreads < 2
    BY <2>2, AmongAll DEF IInv, ResultInv, SingleInv, Holds
  <2>3. CASE mNumThreads >= 2
    <3>1. \A t \in Threads : tpc[t] = "end"
      BY <2>3 DEF IInv, ResultInv, JoinInv
    <3>2. \A x \in Common : thread[x] \in Threads
      BY <2>1 DEF Static, Common, Items
    <3>3. Merged = Common
      BY <3>1, <3>2, AmongAll DEF Merged
    <3> QED
      BY <2>3, <3>3 DEF IInv, ResultInv, StoreInv, Holds
  <2> QED
    BY <2>1, <2>2, <2>3 DEF Static
<1> QED
  BY <1>1, InvInit, InvNext, PTL DEF Spec

=============================================================================
