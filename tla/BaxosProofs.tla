----------------------------- MODULE BaxosProofs -----------------------------
(***************************************************************************)
(* What is proved of the bins and threads of solve and decode, for every   *)
(* number of inputs, bins and threads, every size of the areas the inputs  *)
(* fit into and every size of a batch: all safety properties of Baxos.     *)
(*                                                                         *)
(* The invariant says, of solve: how many threads have distributed their   *)
(* inputs (BarrierInv), what the areas of a bin hold until its owner comes *)
(* to it (CountInv, AreaInv, OwnerInv), what has been moved together while *)
(* it is merged (MergeInv) and what is encoded after (OutputInv); and of   *)
(* decode: which inputs have been decoded (DecodeInv).                     *)
(***************************************************************************)
EXTENDS Baxos, FiniteSetTheorems, TLAPS

-----------------------------------------------------------------------------
(* Arithmetic. *)

ParamInv ==
  /\ numThreads \in ThreadCounts
  /\ bin \in [Inputs -> Bins]
  /\ AreasSuffice
  /\ mAddToDecode \in BOOLEAN

\* The sizes the areas are computed from.
LEMMA Sizes ==
  ASSUME ParamInv
  PROVE  /\ numThreads \in Nat \ {0} /\ perThrdMaxBinSize \in Nat \ {0}
         /\ combinedMaxBinSize \in Nat \ {0}
         /\ combinedMaxBinSize = perThrdMaxBinSize * numThreads
         /\ mNumItems \in Nat \ {0} /\ mNumBins \in Nat \ {0}
         /\ Threads \subseteq Nat
<1>1. numThreads \in Nat \ {0} /\ perThrdMaxBinSize \in Nat \ {0}
  BY SizeAssumption DEF ParamInv, perThrdMaxBinSize
<1>2. perThrdMaxBinSize * numThreads \in Nat \ {0}
  BY <1>1
<1> QED
  BY <1>1, <1>2, SizeAssumption DEF combinedMaxBinSize, Threads

\* What division by a positive number means.
LEMMA Division ==
  ASSUME NEW x \in Nat, NEW d \in Nat \ {0}
  PROVE  /\ x \div d \in Nat /\ x % d \in 0 .. d - 1
         /\ x = d * (x \div d) + (x % d)
  BY Z3

\* The quotient is the only number with these bounds.
LEMMA Quotient ==
  ASSUME NEW x \in Nat, NEW d \in Nat \ {0}, NEW q \in Nat
  PROVE  /\ q <= x \div d <=> d * q <= x
         /\ x \div d < q <=> x < d * q
<1> DEFINE y == x \div d
           r == x % d
<1>1. y \in Nat /\ r \in 0 .. d - 1 /\ x = d * y + r
  BY Division
<1> HIDE DEF y, r
<1>2. ASSUME q <= y
      PROVE  d * q <= x
  <2>1. d * q <= d * y /\ d * q \in Nat /\ d * y \in Nat
    BY <1>1, <1>2
  <2> QED
    BY <2>1, <1>1
<1>3. ASSUME y < q
      PROVE  x < d * q
  <2>1. d * (y + 1) <= d * q /\ d * (y + 1) = d * y + d /\ d * q \in Nat /\ d * y \in Nat
    BY <1>1, <1>3
  <2> QED
    BY <2>1, <1>1
<1>4. q <= y \/ y < q
  BY <1>1
<1>5. d * q \in Nat
  OBVIOUS
<1> QED
  BY <1>1, <1>2, <1>3, <1>4, <1>5 DEF y

\* The range of a thread, and that the ranges do not overlap.
LEMMA Ranges ==
  ASSUME ParamInv, NEW t \in Threads
  PROVE  /\ Begin(t) \in Nat /\ End(t) \in Nat
         /\ Begin(t) <= End(t) /\ End(t) <= mNumItems
         /\ \A u \in Threads : t < u => End(t) <= Begin(u)
<1>0. numThreads \in Nat \ {0} /\ mNumItems \in Nat /\ t \in Nat /\ t + 1 <= numThreads
      /\ \A u \in Threads : u \in Nat
  BY Sizes DEF Threads
<1> DEFINE x(u) == mNumItems * u
<1>1. \A u \in Nat : x(u) \in Nat
  BY <1>0
<1>2. \A u, v \in Nat : u <= v => x(u) <= x(v)
  BY <1>0
<1> HIDE DEF x
<1>3. ASSUME NEW u \in Nat, NEW v \in Nat, u <= v
      PROVE  x(u) \div numThreads <= x(v) \div numThreads
  <2> DEFINE q == x(u) \div numThreads
  <2>1. q \in Nat
    BY <1>0, <1>1, Division
  <2>2. numThreads * q <= x(u)
    BY <2>1, <1>0, <1>1, Quotient
  <2>3. numThreads * q <= x(v)
    BY <2>1, <2>2, <1>0, <1>1, <1>2, <1>3
  <2> HIDE DEF q
  <2>4. q <= x(v) \div numThreads
    BY <2>1, <2>3, <1>0, <1>1, Quotient
  <2> QED
    BY <2>4 DEF q
<1>4. Begin(t) = x(t) \div numThreads /\ End(t) = x(t + 1) \div numThreads
      /\ \A u \in Threads : Begin(u) = x(u) \div numThreads
  BY DEF Begin, End, x
<1>5. x(numThreads) \div numThreads = mNumItems
  <2>1. x(numThreads) = numThreads * mNumItems
    BY <1>0 DEF x
  <2>2. x(numThreads) \in Nat /\ mNumItems + 1 \in Nat
    BY <1>0, <1>1
  <2>3. mNumItems <= x(numThreads) \div numThreads
    <3>1. numThreads * mNumItems <= x(numThreads)
      BY <2>1, <2>2
    <3> QED
      BY <3>1, <1>0, <2>2, Quotient
  <2>4. x(numThreads) < numThreads * (mNumItems + 1)
    BY <2>1, <1>0
  <2>5. x(numThreads) \div numThreads < mNumItems + 1
    BY <2>4, <1>0, <2>2, Quotient
  <2>6. x(numThreads) \div numThreads \in Nat
    BY <1>0, <2>2, Division
  <2> QED
    BY <2>3, <2>5, <2>6, <1>0
<1>6. Begin(t) \in Nat /\ End(t) \in Nat
  <2>1. x(t) \in Nat /\ x(t + 1) \in Nat
    BY <1>0, <1>1
  <2> QED
    BY <2>1, <1>0, <1>4, Division
<1>7. Begin(t) <= End(t)
  BY <1>0, <1>3, <1>4
<1>8. End(t) <= mNumItems
  BY <1>0, <1>3, <1>4, <1>5
<1>9. \A u \in Threads : t < u => End(t) <= Begin(u)
  BY <1>0, <1>3, <1>4
<1> QED
  BY <1>6, <1>7, <1>8, <1>9

\* Every input is in the range of a thread.
LEMMA EveryInput ==
  ASSUME ParamInv, NEW i \in Inputs
  PROVE  \E t \in Threads : i \in Begin(t) .. End(t) - 1
<1> DEFINE n == mNumItems
           d == numThreads
           x == (i + 1) * d - 1
           t == x \div n
<1>0. n \in Nat \ {0} /\ d \in Nat \ {0} /\ i \in Nat /\ i + 1 <= n
  BY Sizes DEF Inputs
<1>1. x \in Nat /\ x + 1 = d * (i + 1) /\ x < n * d
  <2>1. (i + 1) * d <= n * d /\ (i + 1) * d >= d /\ (i + 1) * d = d * (i + 1)
        /\ (i + 1) * d \in Nat /\ n * d \in Nat
    BY <1>0
  <2> QED
    BY <2>1, <1>0
<1>2. t \in Nat
  BY <1>0, <1>1, Division
<1>3. t < d
  BY <1>0, <1>1, Quotient
<1>4. n * t <= x /\ x < n * (t + 1)
  <2>1. t + 1 \in Nat /\ t <= t /\ t < t + 1
    BY <1>2
  <2> QED
    BY <1>0, <1>1, <1>2, <2>1, Quotient
<1>5. t \in Threads
  BY <1>0, <1>2, <1>3 DEF Threads
<1> HIDE DEF x, t
<1>6. n * t \in Nat /\ n * (t + 1) \in Nat /\ d * (i + 1) \in Nat
  BY <1>0, <1>2
<1>7. n * t < d * (i + 1) /\ d * (i + 1) <= n * (t + 1)
  BY <1>1, <1>4, <1>6
<1>8. (n * t) \div d < i + 1 /\ i + 1 <= (n * (t + 1)) \div d
  BY <1>0, <1>6, <1>7, Quotient
<1>9. Begin(t) <= i /\ i < End(t) /\ Begin(t) \in Nat /\ End(t) \in Nat
  <2>1. Begin(t) \in Nat /\ End(t) \in Nat
    BY <1>5, Ranges
  <2> QED
    BY <2>1, <1>0, <1>8 DEF Begin, End
<1> QED
  BY <1>0, <1>5, <1>9

\* Where the k-th cell of thread u's area of bin b is.
LEMMA AreaBounds ==
  ASSUME ParamInv, NEW u \in Threads, NEW b \in Bins
  PROVE  /\ Area(u, b) \in Nat /\ Area(0, b) \in Nat
         /\ Area(u, b) = Area(0, b) + perThrdMaxBinSize * u
         /\ perThrdMaxBinSize * u \in Nat
         /\ perThrdMaxBinSize * u + perThrdMaxBinSize <= combinedMaxBinSize
         /\ Area(0, b) + combinedMaxBinSize <= mNumBins * combinedMaxBinSize
         /\ mNumBins * combinedMaxBinSize \in Nat
         /\ \A v \in Threads : u < v =>
              perThrdMaxBinSize * u + perThrdMaxBinSize <= perThrdMaxBinSize * v
         /\ \A c \in Bins : b < c => Area(0, b) + combinedMaxBinSize <= Area(0, c)
<1> DEFINE P == perThrdMaxBinSize
           C == combinedMaxBinSize
<1>0. /\ P \in Nat \ {0} /\ C \in Nat \ {0} /\ numThreads \in Nat \ {0} /\ C = P * numThreads
      /\ mNumBins \in Nat /\ u \in Nat /\ u + 1 <= numThreads /\ b \in Nat /\ b + 1 <= mNumBins
      /\ \A v \in Threads : v \in Nat
      /\ \A c \in Bins : c \in Nat
  BY Sizes DEF Threads, Bins
<1>1. Area(u, b) = C * b + P * u /\ \A c \in Bins : Area(0, c) = C * c + P * 0
  BY DEF Area
<1> HIDE DEF P, C
<1>2. \A x, y \in Nat : x < y => P * x + P <= P * y
  <2> SUFFICES ASSUME NEW x \in Nat, NEW y \in Nat, x < y
               PROVE  P * x + P <= P * y
    OBVIOUS
  <2>1. P * (x + 1) <= P * y /\ P * (x + 1) = P * x + P
    BY <1>0
  <2> QED
    BY <2>1
<1>3. \A x, y \in Nat : x < y => C * x + C <= C * y
  <2> SUFFICES ASSUME NEW x \in Nat, NEW y \in Nat, x < y
               PROVE  C * x + C <= C * y
    OBVIOUS
  <2>1. C * (x + 1) <= C * y /\ C * (x + 1) = C * x + C
    BY <1>0
  <2> QED
    BY <2>1
<1>4. P * 0 = 0 /\ P * u \in Nat /\ C * b \in Nat /\ \A c \in Bins : C * c \in Nat
  BY <1>0
<1>5. mNumBins * C = C * mNumBins /\ C * mNumBins \in Nat
  BY <1>0
<1>6. P * u + P <= C
  BY <1>0, <1>2
<1>7. C * b + C <= C * mNumBins
  BY <1>0, <1>3
<1> QED
  BY <1>0, <1>1, <1>2, <1>3, <1>4, <1>5, <1>6, <1>7 DEF P, C

\* Bins with the same owner are numThreads apart.
LEMMA NextOwn ==
  ASSUME NEW d \in Nat \ {0}, NEW b \in Nat, NEW c \in Nat, b < c, b % d = c % d
  PROVE  b + d <= c
<1> DEFINE x == b \div d
           y == c \div d
           r == c % d
<1>1. x \in Nat /\ y \in Nat /\ r \in 0 .. d - 1 /\ b = d * x + r /\ c = d * y + r
  BY Division
<1> HIDE DEF x, y, r
<1>2. d * x \in Nat /\ d * y \in Nat /\ d * x < d * y
  BY <1>1
<1>3. x < y
  <2>1. y <= x => d * y <= d * x
    BY <1>1
  <2> QED
    BY <1>1, <1>2, <2>1
<1>4. d * (x + 1) <= d * y /\ d * (x + 1) = d * x + d
  BY <1>1, <1>3
<1> QED
  BY <1>1, <1>2, <1>4

\* The remainder is the only number with these bounds.
LEMMA Remainder ==
  ASSUME NEW d \in Nat \ {0}, NEW q \in Nat, NEW r \in 0 .. d - 1
  PROVE  (d * q + r) % d = r
<1> DEFINE x == d * q + r
<1>1. d * q \in Nat /\ x \in Nat /\ d * (q + 1) = d * q + d
  OBVIOUS
<1>2. d * q <= x /\ x < d * (q + 1)
  BY <1>1
<1>3. q <= x \div d /\ x \div d < q + 1
  BY <1>1, <1>2, Quotient
<1>4. x \div d \in Nat /\ x = d * (x \div d) + (x % d) /\ x % d \in 0 .. d - 1
  BY <1>1, Division
<1>5. x \div d = q
  BY <1>3, <1>4
<1> QED
  BY <1>1, <1>4, <1>5

\* The owner of a bin is the owner of the bin numThreads further on.
LEMMA SameOwner ==
  ASSUME NEW d \in Nat \ {0}, NEW b \in Nat
  PROVE  (b + d) % d = b % d /\ (b < d => b % d = b)
<1> DEFINE q == b \div d
           r == b % d
<1>1. q \in Nat /\ r \in 0 .. d - 1 /\ b = d * q + r
  BY Division
<1>2. b % d = r
  OBVIOUS
<1> HIDE DEF q, r
<1>3. d * (q + 1) = d * q + d /\ d * q \in Nat
  BY <1>1
<1>4. b + d = d * (q + 1) + r
  BY <1>1, <1>3
<1>5. (b + d) % d = r
  BY <1>1, <1>4, Remainder
<1>6. ASSUME b < d
      PROVE  b % d = b
  <2>1. d * 0 + b = b /\ b \in 0 .. d - 1
    BY <1>6
  <2> QED
    BY <2>1, Remainder
<1> QED
  BY <1>2, <1>5, <1>6

\* Different cells of areas are different places of the arrays.
LEMMA CellsDiffer ==
  ASSUME ParamInv, NEW u \in Threads, NEW v \in Threads, NEW b \in Bins, NEW c \in Bins,
         NEW k \in 0 .. perThrdMaxBinSize - 1, NEW l \in 0 .. perThrdMaxBinSize - 1
  PROVE  /\ Area(u, b) + k \in Backing
         /\ Area(u, b) + k = Area(v, c) + l => u = v /\ b = c /\ k = l
<1>0. /\ perThrdMaxBinSize \in Nat /\ combinedMaxBinSize \in Nat
      /\ u \in Nat /\ v \in Nat /\ b \in Nat /\ c \in Nat
  BY Sizes DEF Bins
<1>1. /\ Area(u, b) \in Nat /\ Area(0, b) \in Nat
      /\ Area(u, b) = Area(0, b) + perThrdMaxBinSize * u
      /\ perThrdMaxBinSize * u \in Nat
      /\ perThrdMaxBinSize * u + perThrdMaxBinSize <= combinedMaxBinSize
      /\ Area(0, b) + combinedMaxBinSize <= mNumBins * combinedMaxBinSize
      /\ mNumBins * combinedMaxBinSize \in Nat
      /\ u < v => perThrdMaxBinSize * u + perThrdMaxBinSize <= perThrdMaxBinSize * v
      /\ b < c => Area(0, b) + combinedMaxBinSize <= Area(0, c)
  BY AreaBounds
<1>2. /\ Area(0, c) \in Nat
      /\ Area(v, c) = Area(0, c) + perThrdMaxBinSize * v
      /\ perThrdMaxBinSize * v \in Nat
      /\ perThrdMaxBinSize * v + perThrdMaxBinSize <= combinedMaxBinSize
      /\ v < u => perThrdMaxBinSize * v + perThrdMaxBinSize <= perThrdMaxBinSize * u
      /\ c < b => Area(0, c) + combinedMaxBinSize <= Area(0, b)
  BY AreaBounds
<1>3. Area(u, b) + k \in Backing
  BY <1>0, <1>1 DEF Backing
<1>4. Area(u, b) + k = Area(v, c) + l => b = c
  BY <1>0, <1>1, <1>2
<1>5. b = c /\ Area(u, b) + k = Area(v, c) + l => u = v /\ k = l
  BY <1>0, <1>1, <1>2
<1> QED
  BY <1>3, <1>4, <1>5

\* A bin's cells lie in its areas, and so not in another bin's.
LEMMA BinsDiffer ==
  ASSUME ParamInv, NEW b \in Bins, NEW c \in Bins,
         NEW k \in 0 .. combinedMaxBinSize - 1, NEW l \in 0 .. combinedMaxBinSize - 1
  PROVE  /\ Area(0, b) + k \in Backing
         /\ Area(0, b) + k = Area(0, c) + l => b = c /\ k = l
<1>0. combinedMaxBinSize \in Nat /\ b \in Nat /\ c \in Nat /\ 0 \in Threads
  BY Sizes DEF Bins, Threads
<1>1. /\ Area(0, b) \in Nat
      /\ Area(0, b) + combinedMaxBinSize <= mNumBins * combinedMaxBinSize
      /\ mNumBins * combinedMaxBinSize \in Nat
      /\ b < c => Area(0, b) + combinedMaxBinSize <= Area(0, c)
  BY <1>0, AreaBounds
<1>2. Area(0, c) \in Nat /\ (c < b => Area(0, c) + combinedMaxBinSize <= Area(0, b))
  BY <1>0, AreaBounds
<1> QED
  BY <1>0, <1>1, <1>2 DEF Backing

-----------------------------------------------------------------------------
(* The invariant. *)

Past == {"barrier", "bins", "merge", "end"}

Labels(m) ==
  IF m = "solve" THEN {"none", "fill"} \cup Past
  ELSE IF m = "decode" THEN {"none", "batch", "decoded"}
  ELSE IF m = "returned" THEN {"decoded"} ELSE {"none"}

TypeInv ==
  /\ main \in {"solve", "decode", "returned", "error", "terminated"}
  /\ started \in 0 .. numThreads
  /\ tpc \in [Threads -> Labels(main)]
  /\ \A t \in Threads : main \in {"solve", "decode"} /\ t >= started => tpc[t] = "none"
  /\ inIdx \in [Threads -> Nat]
  /\ \A t \in Threads : inIdx[t] \in Begin(t) .. End(t)
  /\ thrdBinSizes \in [Threads -> [Bins -> 0 .. perThrdMaxBinSize]]
  /\ hashBacking \in [Backing -> Inputs \cup {None}]
  /\ valBacking \in [Backing -> Inputs \cup {None}]
  /\ numDone \in 0 .. numThreads /\ hashingDone \in BOOLEAN
  /\ binIdx \in [Threads -> 0 .. mNumBins + numThreads]
  /\ thrd \in [Threads -> 0 .. numThreads]
  /\ binPos \in [Threads -> 0 .. combinedMaxBinSize]
  /\ output \in [Bins -> SUBSET (Inputs \X Inputs)]
  /\ batches \in [Threads -> [Bins -> Seq(Inputs)]]
  /\ DOMAIN values = Inputs

\* The threads that have distributed their inputs.
PastFill == {t \in Threads : tpc[t] \in Past}

BarrierInv ==
  /\ numDone = Cardinality(PastFill)
  /\ hashingDone => numDone = numThreads
  /\ \A t \in Threads :
       /\ tpc[t] \in {"bins", "merge", "end"} => hashingDone
       /\ tpc[t] \in Past => inIdx[t] = End(t)
       /\ tpc[t] \in {"none", "fill", "barrier"} => binIdx[t] = t

\* The inputs of bin b that thread u has come past, and where it put them.
Placed(u, b)  == {i \in Begin(u) .. inIdx[u] - 1 : bin[i] = b}
CellsOf(u, b) == {Area(u, b) + k : k \in 0 .. thrdBinSizes[u][b] - 1}

CountInv ==
  \A u \in Threads, b \in Bins : thrdBinSizes[u][b] = Cardinality(Placed(u, b))

Holds(u, b) ==
  /\ \A q \in CellsOf(u, b) : hashBacking[q] \in Placed(u, b) /\ valBacking[q] = hashBacking[q]
  /\ \A i \in Placed(u, b) : \E q \in CellsOf(u, b) : hashBacking[q] = i

\* The thread that encodes bin b, and whether it has not come to it yet.
Owner(b) == b % numThreads
Untouched(b) ==
  binIdx[Owner(b)] < b \/ (binIdx[Owner(b)] = b /\ tpc[Owner(b)] # "merge")

AreaInv == \A b \in Bins : Untouched(b) => \A u \in Threads : Holds(u, b)

OwnerInv ==
  \A t \in Threads :
    /\ binIdx[t] % numThreads = t
    /\ tpc[t] = "end" => binIdx[t] >= mNumBins
    /\ tpc[t] = "merge" => binIdx[t] < mNumBins

\* What thread t has moved together of the bin it is at.
MovedCells(t) == {Area(0, binIdx[t]) + k : k \in 0 .. binPos[t] - 1}

Merging(t) ==
  /\ thrd[t] \in 1 .. numThreads
  /\ binPos[t] = ItemsBefore(thrd[t], binIdx[t])
  /\ binPos[t] <= perThrdMaxBinSize * thrd[t]
  /\ \A q \in MovedCells(t) :
       hashBacking[q] \in InBin(binIdx[t]) /\ valBacking[q] = hashBacking[q]
  /\ \A u \in Threads : u < thrd[t] =>
       \A i \in Placed(u, binIdx[t]) : \E q \in MovedCells(t) : hashBacking[q] = i
  /\ \A u \in Threads : u >= thrd[t] => Holds(u, binIdx[t])

MergeInv == \A t \in Threads : tpc[t] = "merge" => Merging(t)

\* What Paxos has to be given for bin b.
Pairs(b) == {<<i, i>> : i \in InBin(b)}

OutputInv == \A b \in Bins : binIdx[Owner(b)] > b => output[b] = Pairs(b)

Fresh ==
  /\ batches = [t \in Threads |-> [b \in Bins |-> << >>]]
  /\ values = [i \in Inputs |-> Old]

SolveInv == /\ BarrierInv /\ CountInv /\ AreaInv /\ OwnerInv
            /\ MergeInv /\ OutputInv /\ Fresh

\* What decode makes of an input, and the inputs it still has to come to.
Right(i) == IF mAddToDecode THEN Old \cup Val(i) ELSE Val(i)
Pending(t, i) ==
  i >= inIdx[t] \/ (i \in ToSet(batches[t][bin[i]]) /\ binIdx[t] <= bin[i])

ThreadDecodes(t) ==
  /\ binIdx[t] \in 0 .. mNumBins
  /\ tpc[t] # "decoded" => binIdx[t] < mNumBins
  /\ tpc[t] = "decoded" => inIdx[t] = End(t) /\ binIdx[t] = mNumBins
  /\ inIdx[t] < End(t) => binIdx[t] = 0
  /\ \A b \in Bins : ToSet(batches[t][b]) \subseteq Placed(t, b)
  /\ \A i \in Begin(t) .. End(t) - 1 :
       values[i] = IF Pending(t, i) THEN Old ELSE Right(i)

DecodeInv ==
  /\ \A b \in Bins : output[b] = Pairs(b)
  /\ \A t \in Threads : ThreadDecodes(t)

IInv ==
  /\ ParamInv
  /\ TypeInv
  /\ main = "solve" => SolveInv
  /\ main \in {"decode", "returned"} => DecodeInv

-----------------------------------------------------------------------------
(* Facts about single states. *)

\* The parameters never change, and what is computed from them does not.
LEMMA ParamsKept ==
  ASSUME ParamInv, UNCHANGED params
  PROVE  /\ ParamInv'
         /\ Threads' = Threads /\ Backing' = Backing
         /\ perThrdMaxBinSize' = perThrdMaxBinSize
         /\ combinedMaxBinSize' = combinedMaxBinSize
         /\ \A t : Begin(t)' = Begin(t) /\ End(t)' = End(t)
         /\ \A t, b : Area(t, b)' = Area(t, b)
         /\ \A b : InBin(b)' = InBin(b) /\ Pairs(b)' = Pairs(b) /\ Owner(b)' = Owner(b)
         /\ \A i : Right(i)' = Right(i)
<1>1. numThreads' = numThreads /\ bin' = bin /\ mAddToDecode' = mAddToDecode
  BY DEF params
<1>2. Threads' = Threads /\ perThrdMaxBinSize' = perThrdMaxBinSize
  BY <1>1 DEF Threads, perThrdMaxBinSize
<1>3. combinedMaxBinSize' = combinedMaxBinSize
  BY <1>1, <1>2 DEF combinedMaxBinSize
<1>4. \A t : Begin(t)' = Begin(t) /\ End(t)' = End(t)
  BY <1>1 DEF Begin, End
<1>5. AreasSuffice' = AreasSuffice
  BY <1>1, <1>2, <1>4 DEF AreasSuffice
<1>6. ParamInv'
  BY <1>1, <1>5 DEF ParamInv
<1> QED
  BY <1>1, <1>2, <1>3, <1>4, <1>6
     DEF Backing, Area, InBin, Pairs, Owner, Right

\* The inputs of a thread that fall into a bin are finitely many, and no more
\* than the area holds.
LEMMA PlacedFinite ==
  ASSUME ParamInv, NEW t \in Threads, NEW b \in Bins
  PROVE  LET All == {i \in Begin(t) .. End(t) - 1 : bin[i] = b}
         IN  IsFiniteSet(All) /\ Cardinality(All) \in Nat
             /\ Cardinality(All) <= perThrdMaxBinSize
<1> DEFINE R == Begin(t) .. End(t) - 1
           All == {i \in R : bin[i] = b}
<1>1. Begin(t) \in Nat /\ End(t) \in Nat
  BY Ranges
<1>2. IsFiniteSet(R)
  BY <1>1, FS_Interval
<1>3. All \in SUBSET R
  OBVIOUS
<1>4. IsFiniteSet(All)
  BY <1>2, <1>3, FS_Subset
<1> QED
  BY <1>4, FS_CardinalityType DEF ParamInv, AreasSuffice

\* Threads are finitely many.
LEMMA ThreadsFinite ==
  ASSUME ParamInv
  PROVE  IsFiniteSet(Threads) /\ Cardinality(Threads) = numThreads
<1>1. numThreads \in Nat \ {0}
  BY Sizes
<1>2. 0 \in Int /\ numThreads - 1 \in Int /\ ~ (0 > numThreads - 1)
  BY <1>1
<1>3. IsFiniteSet(0 .. numThreads - 1)
      /\ Cardinality(0 .. numThreads - 1) = numThreads - 1 - 0 + 1
  BY <1>2, FS_Interval
<1> QED
  BY <1>1, <1>3 DEF Threads

\* Once the promise is fulfilled every thread has distributed its inputs.
LEMMA AllPast ==
  ASSUME ParamInv, BarrierInv, hashingDone
  PROVE  \A t \in Threads : tpc[t] \in Past
<1>1. PastFill \in SUBSET Threads
  BY DEF PastFill
<1>2. IsFiniteSet(Threads) /\ Cardinality(Threads) = numThreads
  BY ThreadsFinite
<1>3. Cardinality(PastFill) = Cardinality(Threads)
  BY <1>2 DEF BarrierInv
<1>4. PastFill = Threads
  BY <1>1, <1>2, <1>3, FS_Subset
<1> QED
  BY <1>4 DEF PastFill

\* As long as a thread distributes inputs no bin has been touched.
LEMMA NoneTouched ==
  ASSUME ParamInv, TypeInv, BarrierInv, main = "solve", ~ hashingDone, NEW b \in Bins
  PROVE  Untouched(b)
<1>1. numThreads \in Nat \ {0} /\ b \in Nat
  BY Sizes DEF Bins
<1>2. Owner(b) \in 0 .. numThreads - 1 /\ Owner(b) <= b
  <2> DEFINE r == b % numThreads
             x == b \div numThreads
  <2>1. x \in Nat /\ r \in 0 .. numThreads - 1 /\ b = numThreads * x + r
    BY <1>1, Division
  <2> HIDE DEF r, x
  <2>2. numThreads * x \in Nat
    BY <1>1, <2>1
  <2>3. r <= b
    BY <1>1, <2>1, <2>2
  <2> QED
    BY <2>1, <2>3 DEF Owner, r
<1>3. Owner(b) \in Threads
  BY <1>2 DEF Threads
<1>4. tpc[Owner(b)] \in {"none", "fill", "barrier"}
  <2>1. tpc[Owner(b)] \notin {"bins", "merge", "end"}
    BY <1>3 DEF BarrierInv
  <2>2. tpc[Owner(b)] \in Labels("solve")
    BY <1>3 DEF TypeInv
  <2> QED
    BY <2>1, <2>2 DEF Labels, Past
<1>5. binIdx[Owner(b)] = Owner(b)
  BY <1>3, <1>4 DEF BarrierInv
<1> QED
  BY <1>1, <1>2, <1>4, <1>5 DEF Untouched

\* Every bin has an owner.
LEMMA OwnerIsThread ==
  ASSUME ParamInv, NEW b \in Bins
  PROVE  Owner(b) \in Threads /\ b \in Nat
<1>1. numThreads \in Nat \ {0} /\ b \in Nat
  BY Sizes DEF Bins
<1>2. b % numThreads \in 0 .. numThreads - 1
  BY <1>1, Division
<1> QED
  BY <1>1, <1>2 DEF Owner, Threads

\* What a thread has placed in a bin belongs there.
LEMMA PlacedInBin ==
  ASSUME ParamInv, TypeInv, NEW t \in Threads, NEW b \in Bins
  PROVE  Placed(t, b) \subseteq InBin(b)
<1>1. /\ Begin(t) \in Nat /\ End(t) \in Nat /\ End(t) <= mNumItems /\ mNumItems \in Nat
      /\ inIdx[t] \in Begin(t) .. End(t)
  BY Ranges, Sizes DEF TypeInv
<1> QED
  BY <1>1 DEF Placed, InBin, Inputs

-----------------------------------------------------------------------------
(* Distributing. *)

\* An input is put into an area that has room, behind the others.
LEMMA FillStep ==
  ASSUME IInv, NEW t \in Threads, Fill(t)
  PROVE  IInv'
<1> DEFINE i == inIdx[t]
           b == bin[i]
           k == thrdBinSizes[t][b]
           q == Area(t, b) + k
<1>1. ParamInv /\ TypeInv /\ tpc[t] = "fill" /\ i < End(t)
  BY DEF IInv, Fill
<1>2. main = "solve" /\ SolveInv
  <2>1. "fill" \in Labels(main)
    BY <1>1 DEF TypeInv
  <2>2. main = "solve"
    BY <2>1, <1>1 DEF Labels, TypeInv, Past
  <2> QED
    BY <2>2 DEF IInv
<1>3. /\ UNCHANGED <<params, main, started, tpc, numDone, hashingDone, binIdx, thrd, binPos,
                      output, decodeVars>>
      /\ thrdBinSizes' = [thrdBinSizes EXCEPT ![t][b] = @ + 1]
      /\ hashBacking' = [hashBacking EXCEPT ![q] = i]
      /\ valBacking' = [valBacking EXCEPT ![q] = i]
      /\ inIdx' = [inIdx EXCEPT ![t] = @ + 1]
  BY DEF Fill
<1>4. /\ ParamInv'
      /\ Threads' = Threads /\ Backing' = Backing
      /\ perThrdMaxBinSize' = perThrdMaxBinSize
      /\ combinedMaxBinSize' = combinedMaxBinSize
      /\ \A u : Begin(u)' = Begin(u) /\ End(u)' = End(u)
      /\ \A u, c : Area(u, c)' = Area(u, c)
      /\ \A c : InBin(c)' = InBin(c) /\ Pairs(c)' = Pairs(c) /\ Owner(c)' = Owner(c)
      /\ bin' = bin /\ numThreads' = numThreads
  <2>1. UNCHANGED params
    BY <1>3
  <2> QED
    BY <1>1, <2>1, ParamsKept DEF params
<1>5. /\ i \in Begin(t) .. End(t) - 1 /\ i \in Inputs /\ i \in Nat /\ b \in Bins
      /\ Begin(t) \in Nat /\ End(t) \in Nat
  <2>1. i \in Begin(t) .. End(t) /\ Begin(t) \in Nat /\ End(t) \in Nat /\ End(t) <= mNumItems
    BY <1>1, Ranges DEF TypeInv
  <2>2. mNumItems \in Nat
    BY <1>1, Sizes
  <2>3. i \in Inputs
    BY <1>1, <2>1, <2>2 DEF Inputs
  <2> QED
    BY <1>1, <2>1, <2>3 DEF ParamInv
<1>6. ~ hashingDone /\ \A u \in Threads : tpc[u] \notin {"bins", "merge", "end"}
  <2>1. ~ hashingDone
    BY <1>1, <1>2, AllPast DEF SolveInv, Past
  <2> QED
    BY <2>1, <1>2 DEF SolveInv, BarrierInv
<1>7. Placed(t, b) \cup {i} \subseteq {j \in Begin(t) .. End(t) - 1 : bin[j] = b}
      /\ i \notin Placed(t, b)
  BY <1>5 DEF Placed
<1>8. /\ IsFiniteSet(Placed(t, b)) /\ k = Cardinality(Placed(t, b))
      /\ Cardinality(Placed(t, b) \cup {i}) = k + 1 /\ k + 1 <= perThrdMaxBinSize /\ k \in Nat
  <2> DEFINE All == {j \in Begin(t) .. End(t) - 1 : bin[j] = b}
  <2>1. IsFiniteSet(All) /\ Cardinality(All) \in Nat /\ Cardinality(All) <= perThrdMaxBinSize
    BY <1>1, <1>5, PlacedFinite
  <2> HIDE DEF All
  <2>2. Placed(t, b) \cup {i} \in SUBSET All /\ Placed(t, b) \in SUBSET All
    BY <1>7 DEF All
  <2>3. IsFiniteSet(Placed(t, b)) /\ Cardinality(Placed(t, b) \cup {i}) <= Cardinality(All)
    BY <2>1, <2>2, FS_Subset
  <2>4. k = Cardinality(Placed(t, b)) /\ k \in Nat
    BY <1>1, <1>2, <1>5, <2>3, FS_CardinalityType DEF SolveInv, CountInv
  <2>5. Cardinality(Placed(t, b) \cup {i}) = k + 1
    BY <2>3, <2>4, <1>7, FS_AddElement
  <2>6. perThrdMaxBinSize \in Nat
    BY <1>1, Sizes
  <2> QED
    BY <2>1, <2>3, <2>4, <2>5, <2>6
<1>9. q \in Backing /\ perThrdMaxBinSize \in Nat
  <2>1. perThrdMaxBinSize \in Nat
    BY <1>1, Sizes
  <2>2. k \in 0 .. perThrdMaxBinSize - 1
    BY <1>8, <2>1
  <2> QED
    BY <1>1, <1>5, <2>1, <2>2, CellsDiffer
<1> HIDE DEF i, b, k, q
<1>10. /\ \A u \in Threads, c \in Bins :
            thrdBinSizes'[u][c] = IF u = t /\ c = b THEN k + 1 ELSE thrdBinSizes[u][c]
       /\ \A p \in Backing : p # q => hashBacking'[p] = hashBacking[p]
                                    /\ valBacking'[p] = valBacking[p]
       /\ hashBacking'[q] = i /\ valBacking'[q] = i
       /\ \A u \in Threads : inIdx'[u] = IF u = t THEN i + 1 ELSE inIdx[u]
       /\ thrdBinSizes' \in [Threads -> [Bins -> 0 .. perThrdMaxBinSize]]
  <2>1. thrdBinSizes \in [Threads -> [Bins -> 0 .. perThrdMaxBinSize]]
        /\ hashBacking \in [Backing -> Inputs \cup {None}]
        /\ valBacking \in [Backing -> Inputs \cup {None}] /\ inIdx \in [Threads -> Nat]
    BY <1>1 DEF TypeInv
  <2>2. k + 1 \in 0 .. perThrdMaxBinSize
    BY <1>8, <1>9
  <2>3. k = thrdBinSizes[t][b] /\ i = inIdx[t]
    BY DEF k, i
  <2>4. hashBacking'[q] = i /\ valBacking'[q] = i
    BY <1>3, <1>9, <2>1
  <2>5. \A p \in Backing : p # q => hashBacking'[p] = hashBacking[p]
                                  /\ valBacking'[p] = valBacking[p]
    BY <1>3, <2>1
  <2>6. \A u \in Threads : inIdx'[u] = IF u = t THEN i + 1 ELSE inIdx[u]
    BY <1>3, <2>1, <2>3
  <2>7. \A u \in Threads, c \in Bins :
          thrdBinSizes'[u][c] = IF u = t /\ c = b THEN k + 1 ELSE thrdBinSizes[u][c]
    BY <1>3, <1>5, <2>1, <2>3
  <2>8. thrdBinSizes' \in [Threads -> [Bins -> 0 .. perThrdMaxBinSize]]
    BY <1>3, <1>5, <2>1, <2>2, <2>3
  <2> QED
    BY <2>4, <2>5, <2>6, <2>7, <2>8
<1>11. \A u \in Threads, c \in Bins :
         Placed(u, c)' = IF u = t /\ c = b THEN Placed(u, c) \cup {i} ELSE Placed(u, c)
  <2> SUFFICES ASSUME NEW u \in Threads, NEW c \in Bins
               PROVE  Placed(u, c)' = IF u = t /\ c = b THEN Placed(u, c) \cup {i} ELSE Placed(u, c)
    OBVIOUS
  <2>1. Placed(u, c)' = {j \in Begin(u) .. inIdx'[u] - 1 : bin[j] = c}
    BY <1>4 DEF Placed
  <2>2. CASE u # t
    BY <1>10, <2>1, <2>2 DEF Placed
  <2>3. CASE u = t
    <3>1. Begin(u) .. inIdx'[u] - 1 = (Begin(u) .. inIdx[u] - 1) \cup {i}
      <4>1. inIdx'[u] = i + 1 /\ inIdx[u] = i
        BY <1>10, <2>3 DEF i
      <4> QED
        BY <4>1, <1>5, <2>3
    <3>2. bin[i] = b
      BY DEF b
    <3> QED
      BY <2>1, <2>3, <3>1, <3>2 DEF Placed
  <2> QED
    BY <2>2, <2>3
<1>12. \A u \in Threads, c \in Bins :
         /\ CellsOf(u, c)' = IF u = t /\ c = b THEN CellsOf(u, c) \cup {q} ELSE CellsOf(u, c)
         /\ CellsOf(u, c) \subseteq Backing \ {q}
  <2> SUFFICES ASSUME NEW u \in Threads, NEW c \in Bins
               PROVE  /\ CellsOf(u, c)' = IF u = t /\ c = b THEN CellsOf(u, c) \cup {q}
                                           ELSE CellsOf(u, c)
                      /\ CellsOf(u, c) \subseteq Backing \ {q}
    OBVIOUS
  <2>1. CellsOf(u, c)' = {Area(u, c) + l : l \in 0 .. thrdBinSizes'[u][c] - 1}
    BY <1>4 DEF CellsOf
  <2>2. thrdBinSizes[u][c] \in 0 .. perThrdMaxBinSize
    BY <1>1 DEF TypeInv
  <2>3. CellsOf(u, c) \subseteq Backing \ {q}
    <3> SUFFICES ASSUME NEW l \in 0 .. thrdBinSizes[u][c] - 1
                 PROVE  Area(u, c) + l \in Backing /\ Area(u, c) + l # q
      BY DEF CellsOf
    <3>1. l \in 0 .. perThrdMaxBinSize - 1 /\ k \in 0 .. perThrdMaxBinSize - 1
      BY <1>8, <1>9, <2>2
    <3>2. Area(u, c) + l \in Backing
          /\ (Area(u, c) + l = Area(t, b) + k => u = t /\ c = b /\ l = k)
      BY <1>1, <1>5, <3>1, CellsDiffer
    <3>3. u = t /\ c = b => l # k
      BY <1>8, <2>2 DEF k
    <3> QED
      BY <3>2, <3>3 DEF q
  <2>4. CASE u = t /\ c = b
    <3>1. thrdBinSizes'[u][c] = k + 1 /\ thrdBinSizes[u][c] = k
      BY <1>10, <2>4 DEF k
    <3>2. 0 .. k + 1 - 1 = (0 .. k - 1) \cup {k}
      BY <1>8
    <3>3. CellsOf(u, c)' = {Area(t, b) + l : l \in (0 .. k - 1) \cup {k}}
      BY <2>1, <2>4, <3>1, <3>2
    <3>4. CellsOf(u, c) = {Area(t, b) + l : l \in 0 .. k - 1}
      BY <2>4, <3>1 DEF CellsOf
    <3>5. CellsOf(u, c)' = CellsOf(u, c) \cup {q}
      BY <3>3, <3>4 DEF q
    <3> QED
      BY <2>3, <2>4, <3>5
  <2>5. CASE ~ (u = t /\ c = b)
    BY <1>10, <2>1, <2>3, <2>5 DEF CellsOf
  <2> QED
    BY <2>4, <2>5, <2>3
<1>13. TypeInv'
  <2>1. \A u \in Threads : inIdx'[u] \in Begin(u) .. End(u) /\ inIdx'[u] \in Nat
    <3>1. i + 1 \in Begin(t) .. End(t) /\ i + 1 \in Nat
      BY <1>5
    <3> QED
      BY <1>1, <1>10, <3>1 DEF TypeInv
  <2>2. inIdx' \in [Threads -> Nat]
    BY <1>1, <1>3, <2>1 DEF TypeInv
  <2>3. hashBacking' \in [Backing -> Inputs \cup {None}]
        /\ valBacking' \in [Backing -> Inputs \cup {None}]
    BY <1>1, <1>3, <1>5 DEF TypeInv
  <2> QED
    BY <1>1, <1>3, <1>4, <1>10, <2>1, <2>2, <2>3 DEF TypeInv, decodeVars
<1>14. BarrierInv'
  <2>1. PastFill' = PastFill
    BY <1>3, <1>4 DEF PastFill
  <2>2. t \notin PastFill
    BY <1>1 DEF PastFill, Past
  <2> QED
    BY <1>1, <1>2, <1>3, <1>4, <1>10, <2>1, <2>2 DEF SolveInv, BarrierInv, Past
<1>15. CountInv'
  <2> SUFFICES ASSUME NEW u \in Threads, NEW c \in Bins
               PROVE  thrdBinSizes'[u][c] = Cardinality(Placed(u, c)')
    BY <1>4 DEF CountInv
  <2>1. thrdBinSizes[u][c] = Cardinality(Placed(u, c))
    BY <1>2 DEF SolveInv, CountInv
  <2>2. CASE u = t /\ c = b
    <3>1. thrdBinSizes'[u][c] = k + 1
      BY <1>10, <2>2
    <3>2. Placed(u, c)' = Placed(t, b) \cup {i}
      BY <1>11, <2>2
    <3> QED
      BY <1>8, <3>1, <3>2
  <2>3. CASE ~ (u = t /\ c = b)
    <3>1. thrdBinSizes'[u][c] = thrdBinSizes[u][c]
      BY <1>10, <2>3
    <3>2. Placed(u, c)' = Placed(u, c)
      BY <1>11, <2>3
    <3> QED
      BY <2>1, <3>1, <3>2
  <2> QED
    BY <2>2, <2>3
<1>16. \A u \in Threads, c \in Bins : Holds(u, c)'
  <2> SUFFICES ASSUME NEW u \in Threads, NEW c \in Bins
               PROVE  Holds(u, c)'
    OBVIOUS
  <2>1. Holds(u, c)
    BY <1>1, <1>2, <1>6, NoneTouched DEF SolveInv, AreaInv
  <2>2. \A p \in CellsOf(u, c) : hashBacking'[p] = hashBacking[p] /\ valBacking'[p] = valBacking[p]
    BY <1>10, <1>12
  <2> QED
    BY <1>10, <1>11, <1>12, <2>1, <2>2 DEF Holds
<1>17. AreaInv' /\ OwnerInv' /\ MergeInv' /\ OutputInv' /\ Fresh'
  <2>1. AreaInv'
    BY <1>4, <1>16 DEF AreaInv
  <2>2. OwnerInv'
    BY <1>2, <1>3, <1>4 DEF SolveInv, OwnerInv
  <2>3. MergeInv'
    BY <1>3, <1>4, <1>6 DEF MergeInv
  <2>4. OutputInv'
    BY <1>2, <1>3, <1>4 DEF SolveInv, OutputInv
  <2>5. Fresh'
    BY <1>2, <1>3, <1>4 DEF SolveInv, Fresh, decodeVars
  <2> QED
    BY <2>1, <2>2, <2>3, <2>4, <2>5
<1> QED
  BY <1>2, <1>3, <1>4, <1>13, <1>14, <1>15, <1>17 DEF IInv, SolveInv

\* What areas hold does not depend on where threads are.
LEMMA AreasKept ==
  ASSUME ParamInv, UNCHANGED <<params, inIdx, sharedVars>>
  PROVE  /\ \A u, c : Placed(u, c)' = Placed(u, c) /\ CellsOf(u, c)' = CellsOf(u, c)
         /\ \A u, c : Holds(u, c)' = Holds(u, c)
         /\ \A k, c : ItemsBefore(k, c)' = ItemsBefore(k, c)
         /\ \A u : binIdx'[u] = binIdx[u] /\ binPos'[u] = binPos[u] /\ thrd'[u] = thrd[u] =>
               Merging(u)' = Merging(u)
<1>1. /\ Threads' = Threads /\ perThrdMaxBinSize' = perThrdMaxBinSize
      /\ numThreads' = numThreads /\ bin' = bin /\ inIdx' = inIdx
      /\ thrdBinSizes' = thrdBinSizes /\ hashBacking' = hashBacking
      /\ valBacking' = valBacking
      /\ \A u : Begin(u)' = Begin(u)
      /\ \A u, c : Area(u, c)' = Area(u, c)
      /\ \A c : InBin(c)' = InBin(c)
  BY ParamsKept DEF params, sharedVars
<1>2. \A u, c : Placed(u, c)' = Placed(u, c) /\ CellsOf(u, c)' = CellsOf(u, c)
  BY <1>1 DEF Placed, CellsOf
<1>3. \A u, c : Holds(u, c)' = Holds(u, c)
  BY <1>1, <1>2 DEF Holds
<1>4. \A k, c : ItemsBefore(k, c)' = ItemsBefore(k, c)
  BY <1>1 DEF ItemsBefore
<1>5. ASSUME NEW u, binIdx'[u] = binIdx[u], binPos'[u] = binPos[u], thrd'[u] = thrd[u]
      PROVE  Merging(u)' = Merging(u)
  <2>1. MovedCells(u)' = MovedCells(u)
    BY <1>1, <1>5 DEF MovedCells
  <2>2. ItemsBefore(thrd[u], binIdx[u])' = ItemsBefore(thrd[u], binIdx[u])
    BY <1>1, <1>5 DEF ItemsBefore
  <2>3. \A v, c : Holds(v, c)' = Holds(v, c) /\ Placed(v, c)' = Placed(v, c)
    BY <1>2, <1>3
  <2>4. (\A v \in Threads : v >= thrd[u] => Holds(v, binIdx[u]))'
          = (\A v \in Threads : v >= thrd[u] => Holds(v, binIdx[u]))
    BY <1>1, <1>5 DEF Holds, Placed, CellsOf
  <2>5. (\A v \in Threads : v < thrd[u] =>
           \A i \in Placed(v, binIdx[u]) : \E q \in MovedCells(u) : hashBacking[q] = i)'
          = (\A v \in Threads : v < thrd[u] =>
               \A i \in Placed(v, binIdx[u]) : \E q \in MovedCells(u) : hashBacking[q] = i)
    BY <1>1, <1>5, <2>1 DEF Placed
  <2> QED
    BY <1>1, <1>5, <2>1, <2>2, <2>4, <2>5 DEF Merging, InBin
<1> QED
  BY <1>2, <1>3, <1>4, <1>5

\* A thread that goes on without touching a bin disturbs only BarrierInv.
LEMMA GoOn ==
  ASSUME IInv, main = "solve", NEW t \in Threads, NEW l,
         UNCHANGED <<params, inIdx, sharedVars, binIdx, thrd, binPos, output, decodeVars>>,
         tpc' = [tpc EXCEPT ![t] = l],
         tpc[t] # "merge", l # "merge", l = "end" => binIdx[t] >= mNumBins
  PROVE  CountInv' /\ AreaInv' /\ OwnerInv' /\ MergeInv' /\ OutputInv' /\ Fresh'
<1>1. ParamInv /\ TypeInv /\ SolveInv
  BY DEF IInv
<1>2. /\ Threads' = Threads /\ numThreads' = numThreads
      /\ \A c : Owner(c)' = Owner(c) /\ Pairs(c)' = Pairs(c)
  BY <1>1, ParamsKept DEF params
<1>3. /\ \A u, c : Placed(u, c)' = Placed(u, c)
      /\ \A u, c : Holds(u, c)' = Holds(u, c)
      /\ \A u : Merging(u)' = Merging(u)
  BY <1>1, AreasKept
<1>4. \A u \in Threads : tpc'[u] = IF u = t THEN l ELSE tpc[u]
  BY <1>1 DEF TypeInv
<1>5. CountInv'
  BY <1>1, <1>2, <1>3 DEF SolveInv, CountInv, sharedVars
<1>6. ASSUME NEW c \in Bins, Untouched(c)'
      PROVE  Untouched(c)
  <2>1. Owner(c) \in Threads
    BY <1>1, OwnerIsThread
  <2> QED
    BY <1>2, <1>4, <1>6, <2>1 DEF Untouched
<1>7. AreaInv'
  BY <1>1, <1>2, <1>3, <1>6 DEF SolveInv, AreaInv
<1>8. OwnerInv'
  BY <1>1, <1>2, <1>4 DEF SolveInv, OwnerInv
<1>9. MergeInv'
  BY <1>1, <1>2, <1>3, <1>4 DEF SolveInv, MergeInv
<1>10. OutputInv'
  BY <1>1, <1>2 DEF SolveInv, OutputInv
<1>11. Fresh'
  BY <1>1, <1>2 DEF SolveInv, Fresh, decodeVars
<1> QED
  BY <1>5, <1>7, <1>8, <1>9, <1>10, <1>11

\* TypeInv is kept by a thread that goes on.
LEMMA GoOnType ==
  ASSUME ParamInv, TypeInv, NEW t \in Threads, NEW l \in Labels(main),
         UNCHANGED <<params, main, inIdx, sharedVars, binIdx, thrd, binPos, output, decodeVars>>,
         tpc' = [tpc EXCEPT ![t] = l],
         started' \in 0 .. numThreads, started' >= started, t < started',
         numDone' \in 0 .. numThreads, hashingDone' \in BOOLEAN
  PROVE  ParamInv' /\ TypeInv'
<1>1. /\ ParamInv' /\ Threads' = Threads /\ Backing' = Backing
      /\ perThrdMaxBinSize' = perThrdMaxBinSize
      /\ combinedMaxBinSize' = combinedMaxBinSize /\ numThreads' = numThreads
      /\ \A u : Begin(u)' = Begin(u) /\ End(u)' = End(u)
  BY ParamsKept DEF params
<1>2. numThreads \in Nat /\ \A u \in Threads : u \in Nat
  BY Sizes
<1>3. tpc' \in [Threads -> Labels(main)]
  BY DEF TypeInv
<1>4. \A u \in Threads : main \in {"solve", "decode"} /\ u >= started' => tpc'[u] = "none"
  BY <1>2 DEF TypeInv
<1> QED
  BY <1>1, <1>3, <1>4 DEF TypeInv, sharedVars, decodeVars, Labels

\* The one that counts last lets all threads go on.
LEMMA FillEndStep ==
  ASSUME IInv, NEW t \in Threads, FillEnd(t)
  PROVE  IInv'
<1>1. ParamInv /\ TypeInv /\ tpc[t] = "fill" /\ inIdx[t] = End(t)
  BY DEF IInv, FillEnd
<1>2. main = "solve" /\ SolveInv
  <2>1. "fill" \in Labels(main)
    BY <1>1 DEF TypeInv
  <2>2. main = "solve"
    BY <2>1 DEF Labels, Past
  <2> QED
    BY <2>2 DEF IInv
<1> DEFINE l == IF numDone' = numThreads THEN "bins" ELSE "barrier"
<1>3. /\ UNCHANGED <<params, main, started, inIdx, sharedVars, binIdx, thrd, binPos, output,
                      decodeVars>>
      /\ numDone' = numDone + 1 /\ tpc' = [tpc EXCEPT ![t] = l]
      /\ hashingDone' = (hashingDone \/ numDone' = numThreads)
  BY <1>1 DEF FillEnd, TypeInv
<1>4. Threads' = Threads /\ numThreads' = numThreads /\ \A u : End(u)' = End(u)
  BY <1>1, <1>3, ParamsKept DEF params
<1>5. numThreads \in Nat \ {0} /\ \A u \in Threads : u \in Nat
  BY <1>1, Sizes
<1>6. PastFill' = PastFill \cup {t} /\ t \notin PastFill
  BY <1>1, <1>3, <1>4 DEF PastFill, Past, TypeInv
<1>7. numDone' = Cardinality(PastFill') /\ numDone' \in 0 .. numThreads
  <2>1. IsFiniteSet(Threads) /\ Cardinality(Threads) = numThreads
    BY <1>1, ThreadsFinite
  <2>2. PastFill \in SUBSET Threads /\ PastFill' \in SUBSET Threads
    BY <1>4 DEF PastFill
  <2>3. IsFiniteSet(PastFill) /\ Cardinality(PastFill') <= numThreads
    BY <2>1, <2>2, FS_Subset
  <2>4. Cardinality(PastFill') = numDone + 1
    BY <1>2, <1>6, <2>3, FS_AddElement DEF SolveInv, BarrierInv
  <2> QED
    BY <1>1, <1>3, <2>3, <2>4 DEF TypeInv
<1>8. ~ hashingDone
  BY <1>1, <1>2, AllPast DEF SolveInv, Past
<1>9. t < started
  BY <1>1, <1>2, <1>5 DEF TypeInv
<1>10. ParamInv' /\ TypeInv'
  <2>1. l \in Labels(main) /\ hashingDone' \in BOOLEAN
    BY <1>1, <1>2, <1>3 DEF Labels, Past, TypeInv
  <2>2. started' \in 0 .. numThreads /\ started' >= started /\ t < started'
    BY <1>1, <1>3, <1>5, <1>9 DEF TypeInv
  <2> QED
    BY <1>1, <1>3, <1>7, <2>1, <2>2, GoOnType
<1>11. BarrierInv'
  <2>1. \A u \in Threads : tpc'[u] = IF u = t THEN l ELSE tpc[u]
    BY <1>1, <1>3 DEF TypeInv
  <2>2. hashingDone' => numDone' = numThreads
    BY <1>3, <1>8
  <2>3. \A u \in Threads : tpc'[u] \in {"bins", "merge", "end"} => hashingDone'
    <3>1. \A u \in Threads : tpc[u] \notin {"bins", "merge", "end"}
      BY <1>2, <1>8 DEF SolveInv, BarrierInv
    <3>2. l = "barrier" \/ numDone' = numThreads
      OBVIOUS
    <3>3. numDone' = numThreads => hashingDone'
      BY <1>3
    <3> HIDE DEF l
    <3> QED
      BY <2>1, <3>1, <3>2, <3>3
  <2>4. \A u \in Threads : /\ tpc'[u] \in Past => inIdx[u] = End(u)
                           /\ tpc'[u] \in {"none", "fill", "barrier"} => binIdx[u] = u
    BY <1>1, <1>2, <2>1 DEF SolveInv, BarrierInv
  <2> QED
    BY <1>3, <1>4, <1>7, <2>2, <2>3, <2>4 DEF BarrierInv
<1>12. CountInv' /\ AreaInv' /\ OwnerInv' /\ MergeInv' /\ OutputInv' /\ Fresh'
  BY <1>1, <1>2, <1>3, GoOn
<1> QED
  BY <1>2, <1>3, <1>10, <1>11, <1>12 DEF IInv, SolveInv

\* A thread in one of implParSolve's places means that solve is under way.
LEMMA InSolve ==
  ASSUME IInv, NEW t \in Threads, tpc[t] \in {"fill", "barrier", "bins", "merge", "end"}
  PROVE  main = "solve" /\ SolveInv /\ t < started
<1>1. tpc[t] \in Labels(main) /\ tpc[t] # "none"
  BY DEF IInv, TypeInv
<1>2. main = "solve"
  BY <1>1 DEF Labels, Past
<1>3. t \in Nat /\ started \in Nat
  BY Sizes DEF IInv, TypeInv
<1>4. SolveInv
  BY <1>2 DEF IInv
<1>5. t < started
  <2>1. t >= started => tpc[t] = "none"
    BY <1>2 DEF IInv, TypeInv
  <2> QED
    BY <1>1, <1>3, <2>1
<1> QED
  BY <1>2, <1>4, <1>5

\* A thread that waited goes on once the promise is fulfilled, and one that
\* has no bins left ends.
LEMMA BarrierStep ==
  ASSUME IInv, NEW t \in Threads, Barrier(t) \/ BinsEnd(t)
  PROVE  IInv'
<1> DEFINE l == IF tpc[t] = "barrier" THEN "bins" ELSE "end"
<1>1. /\ tpc[t] \in {"barrier", "bins"} /\ tpc' = [tpc EXCEPT ![t] = l]
      /\ tpc[t] = "barrier" => hashingDone
      /\ tpc[t] = "bins" => binIdx[t] >= mNumBins
      /\ UNCHANGED <<params, main, started, inIdx, sharedVars, numDone, hashingDone, binIdx,
                     thrd, binPos, output, decodeVars>>
  BY DEF Barrier, BinsEnd
<1>2. ParamInv /\ TypeInv /\ main = "solve" /\ SolveInv /\ t < started
  BY <1>1, InSolve DEF IInv
<1>3. Threads' = Threads /\ numThreads' = numThreads /\ \A u : End(u)' = End(u)
  BY <1>1, <1>2, ParamsKept DEF params
<1>4. hashingDone
  BY <1>1, <1>2 DEF SolveInv, BarrierInv
<1>5. \A u \in Threads : tpc'[u] = IF u = t THEN l ELSE tpc[u]
  BY <1>1, <1>2 DEF TypeInv
<1>6. l \in {"bins", "end"}
  OBVIOUS
<1>7. ParamInv' /\ TypeInv'
  <2>1. l \in Labels(main)
    BY <1>2, <1>6 DEF Labels, Past
  <2>2. started' = started /\ started \in 0 .. numThreads /\ numDone' \in 0 .. numThreads
        /\ hashingDone' \in BOOLEAN
    BY <1>1, <1>2 DEF TypeInv
  <2>3. started' >= started /\ t < started'
    BY <1>2, <2>2
  <2> QED
    BY <1>1, <1>2, <2>1, <2>2, <2>3, GoOnType
<1>8. BarrierInv'
  <2>1. PastFill' = PastFill
    BY <1>1, <1>3, <1>5, <1>6 DEF PastFill, Past
  <2>2. tpc[t] \in Past
    BY <1>1 DEF Past
  <2> HIDE DEF l
  <2> QED
    BY <1>1, <1>2, <1>3, <1>4, <1>5, <1>6, <2>1, <2>2 DEF SolveInv, BarrierInv
<1>9. CountInv' /\ AreaInv' /\ OwnerInv' /\ MergeInv' /\ OutputInv' /\ Fresh'
  <2>1. tpc[t] # "merge" /\ l # "merge" /\ (l = "end" => binIdx[t] >= mNumBins)
    BY <1>1
  <2> QED
    BY <1>1, <1>2, <2>1, GoOn
<1> QED
  BY <1>1, <1>2, <1>7, <1>8, <1>9 DEF IInv, SolveInv

\* A thread is started, to solve or to decode.
LEMMA StartStep ==
  ASSUME IInv, Start
  PROVE  IInv'
<1> DEFINE l == IF main = "solve" THEN "fill" ELSE "batch"
           t == started
<1>1. /\ main \in {"solve", "decode"} /\ t < numThreads
      /\ tpc' = [tpc EXCEPT ![t] = l] /\ started' = started + 1
      /\ UNCHANGED <<params, main, inIdx, sharedVars, numDone, hashingDone, binIdx, thrd,
                     binPos, output, decodeVars>>
  BY DEF Start
<1>2. ParamInv /\ TypeInv
  BY DEF IInv
<1>3. t \in Threads /\ t \in Nat /\ numThreads \in Nat
  BY <1>1, <1>2, Sizes DEF TypeInv, Threads
<1>4. tpc[t] = "none"
  BY <1>1, <1>2, <1>3 DEF TypeInv
<1>5. /\ Threads' = Threads /\ numThreads' = numThreads
      /\ \A u : Begin(u)' = Begin(u) /\ End(u)' = End(u)
      /\ \A b : Pairs(b)' = Pairs(b) /\ \A i : Right(i)' = Right(i)
  BY <1>1, <1>2, ParamsKept DEF params
<1>6. \A u \in Threads : tpc'[u] = IF u = t THEN l ELSE tpc[u]
  BY <1>1, <1>2 DEF TypeInv
<1>7. ParamInv' /\ TypeInv'
  <2>1. l \in Labels(main)
    BY <1>1 DEF Labels
  <2>2. started' \in 0 .. numThreads /\ started' >= started /\ t < started'
        /\ numDone' \in 0 .. numThreads /\ hashingDone' \in BOOLEAN
    BY <1>1, <1>2, <1>3 DEF TypeInv
  <2> QED
    BY <1>1, <1>2, <1>3, <2>1, <2>2, GoOnType
<1>8. CASE main = "solve"
  <2>1. SolveInv /\ l = "fill"
    BY <1>8 DEF IInv
  <2> HIDE DEF l, t
  <2>2. BarrierInv'
    <3>1. PastFill' = PastFill
      BY <1>4, <1>5, <1>6, <2>1 DEF PastFill, Past
    <3> QED
      BY <1>1, <1>4, <1>5, <1>6, <2>1, <3>1 DEF SolveInv, BarrierInv, Past
  <2>3. CountInv' /\ AreaInv' /\ OwnerInv' /\ MergeInv' /\ OutputInv' /\ Fresh'
    BY <1>1, <1>3, <1>4, <1>8, <2>1, GoOn
  <2> QED
    BY <1>1, <1>7, <1>8, <2>2, <2>3 DEF IInv, SolveInv
<1>9. CASE main = "decode"
  <2>1. DecodeInv /\ l = "batch"
    BY <1>9 DEF IInv
  <2> HIDE DEF l, t
  <2>2. bin' = bin /\ inIdx' = inIdx /\ batches' = batches /\ values' = values /\ binIdx' = binIdx
        /\ output' = output
    BY <1>1 DEF params, decodeVars
  <2>3. ASSUME NEW u \in Threads
        PROVE  ThreadDecodes(u)'
    <3>1. ThreadDecodes(u)
      BY <2>1 DEF DecodeInv
    <3>2. \A b : Placed(u, b)' = Placed(u, b) /\ \A i : Pending(u, i)' = Pending(u, i)
      BY <1>5, <2>2 DEF Placed, Pending
    <3>3. tpc'[u] = "decoded" <=> tpc[u] = "decoded"
      BY <1>4, <1>6, <2>1
    <3> QED
      BY <1>5, <2>2, <3>1, <3>2, <3>3 DEF ThreadDecodes
  <2> QED
    BY <1>1, <1>5, <1>7, <1>9, <2>1, <2>2, <2>3 DEF IInv, DecodeInv
<1> QED
  BY <1>1, <1>8, <1>9

\* After an exception nobody takes a step.
LEMMA ThrowStep ==
  ASSUME IInv, NEW t \in Threads, Throws(t)
  PROVE  IInv'
<1>1. ParamInv /\ TypeInv
  BY DEF IInv
<1>2. /\ main' \in {"error", "terminated"} /\ tpc' = [u \in Threads |-> "none"]
      /\ UNCHANGED <<params, started, inIdx, sharedVars, numDone, hashingDone, binIdx, thrd,
                     binPos, output, decodeVars>>
  BY DEF Throws
<1>3. /\ ParamInv' /\ Threads' = Threads /\ Backing' = Backing
      /\ perThrdMaxBinSize' = perThrdMaxBinSize
      /\ combinedMaxBinSize' = combinedMaxBinSize /\ numThreads' = numThreads
      /\ \A u : Begin(u)' = Begin(u) /\ End(u)' = End(u)
  BY <1>1, <1>2, ParamsKept DEF params
<1>4. tpc' \in [Threads -> Labels(main')]
  BY <1>2 DEF Labels
<1>5. TypeInv'
  BY <1>1, <1>2, <1>3, <1>4 DEF TypeInv, sharedVars, decodeVars, Labels
<1> QED
  BY <1>2, <1>3, <1>5 DEF IInv

-----------------------------------------------------------------------------
(* Merging. *)

\* ItemsBefore adds the counts of the threads up.
LEMMA ItemsNext ==
  ASSUME ParamInv, TypeInv, NEW k \in Threads, NEW b \in Bins
  PROVE  /\ ItemsBefore(0, b) = 0
         /\ ItemsBefore(k, b) \in Nat /\ ItemsBefore(k + 1, b) \in Nat
         /\ ItemsBefore(k + 1, b) = ItemsBefore(k, b) + thrdBinSizes[k][b]
<1> DEFINE P == perThrdMaxBinSize
           s == thrdBinSizes[k][b]
           A(j) == {x \in (0 .. j - 1) \X (0 .. P - 1) : x[2] < thrdBinSizes[x[1]][b]}
           R == {<<k, j>> : j \in 0 .. s - 1}
<1>1. k \in Nat /\ P \in Nat /\ s \in 0 .. P
  BY Sizes DEF TypeInv
<1>2. \A j \in Nat : IsFiniteSet(A(j))
  <2> SUFFICES ASSUME NEW j \in Nat
               PROVE  IsFiniteSet(A(j))
    OBVIOUS
  <2>1. IsFiniteSet(0 .. j - 1) /\ IsFiniteSet(0 .. P - 1)
    <3>1. 0 \in Int /\ j - 1 \in Int /\ P - 1 \in Int
      BY <1>1
    <3> HIDE DEF P
    <3>2. \A m \in Int, n \in Int : IsFiniteSet(m .. n)
      BY FS_Interval
    <3> QED
      BY <3>1, <3>2
  <2>2. IsFiniteSet((0 .. j - 1) \X (0 .. P - 1))
    BY <2>1, FS_Product
  <2> QED
    BY <2>2, FS_Subset
<1>3. A(k + 1) = A(k) \cup R /\ A(k) \cap R = {}
  <2>1. 0 .. k + 1 - 1 = (0 .. k - 1) \cup {k} /\ k \notin 0 .. k - 1
    BY <1>1
  <2>2. A(k + 1) = A(k) \cup {x \in {k} \X (0 .. P - 1) : x[2] < thrdBinSizes[x[1]][b]}
    BY <2>1
  <2>3. {x \in {k} \X (0 .. P - 1) : x[2] < thrdBinSizes[x[1]][b]} = R
    BY <1>1
  <2>4. A(k) \cap R = {}
    BY <2>1
  <2> QED
    BY <2>2, <2>3, <2>4
<1>4. IsFiniteSet(R) /\ Cardinality(R) = s
  <2> DEFINE f == [j \in 0 .. s - 1 |-> <<k, j>>]
  <2>1. f \in Bijection(0 .. s - 1, R)
    <3>1. f \in [0 .. s - 1 -> R]
      OBVIOUS
    <3>2. \A i, j \in 0 .. s - 1 : f[i] = f[j] => i = j
      OBVIOUS
    <3>3. IsInjective(f)
      BY <3>2 DEF IsInjective
    <3>4. \A x \in R : \E j \in 0 .. s - 1 : f[j] = x
      OBVIOUS
    <3> HIDE DEF f, R
    <3> QED
      BY <3>1, <3>3, <3>4 DEF Bijection, Injection, Surjection
  <2>2. ExistsBijection(0 .. s - 1, R)
    BY <2>1 DEF ExistsBijection
  <2>3. IsFiniteSet(0 .. s - 1) /\ Cardinality(0 .. s - 1) = s
    <3>1. 0 \in Int /\ s - 1 \in Int
      BY <1>1
    <3>2. IsFiniteSet(0 .. s - 1)
          /\ Cardinality(0 .. s - 1) = IF 0 > s - 1 THEN 0 ELSE s - 1 - 0 + 1
      BY <3>1, FS_Interval
    <3> QED
      BY <1>1, <3>2
  <2> QED
    BY <2>2, <2>3, FS_Bijection
<1>5. A(0) = {}
  OBVIOUS
<1> HIDE DEF A, R, s, P
<1>6. Cardinality(A(k + 1)) = Cardinality(A(k)) + Cardinality(R) - Cardinality(A(k) \cap R)
  BY <1>1, <1>2, <1>3, <1>4, FS_Union
<1>7. Cardinality(A(k)) \in Nat /\ Cardinality(A(k + 1)) \in Nat
  BY <1>1, <1>2, FS_CardinalityType
<1>8. Cardinality(A(k) \cap R) = 0 /\ Cardinality(A(0)) = 0
  BY <1>3, <1>5, FS_EmptySet
<1>9. Cardinality(A(k + 1)) = Cardinality(A(k)) + s
  BY <1>1, <1>4, <1>6, <1>7, <1>8
<1>10. \A j : ItemsBefore(j, b) = Cardinality(A(j))
  BY DEF ItemsBefore, A, P
<1> QED
  BY <1>7, <1>8, <1>9, <1>10 DEF s

\* A thread that begins with a bin finds it in the areas it was put into.
LEMMA BinStartStep ==
  ASSUME IInv, NEW t \in Threads, BinStart(t)
  PROVE  IInv'
<1> DEFINE b == binIdx[t]
<1>1. /\ tpc[t] = "bins" /\ b < mNumBins
      /\ tpc' = [tpc EXCEPT ![t] = "merge"] /\ thrd' = [thrd EXCEPT ![t] = 1]
      /\ binPos' = [binPos EXCEPT ![t] = thrdBinSizes[0][b]]
      /\ UNCHANGED <<params, main, started, inIdx, sharedVars, numDone, hashingDone, binIdx,
                     output, decodeVars>>
  BY DEF BinStart
<1>2. ParamInv /\ TypeInv /\ main = "solve" /\ SolveInv
  BY <1>1, InSolve DEF IInv
<1>3. /\ ParamInv' /\ Threads' = Threads /\ Backing' = Backing
      /\ perThrdMaxBinSize' = perThrdMaxBinSize
      /\ combinedMaxBinSize' = combinedMaxBinSize /\ numThreads' = numThreads
      /\ \A u : Begin(u)' = Begin(u) /\ End(u)' = End(u)
      /\ \A u, c : Area(u, c)' = Area(u, c)
      /\ \A c : InBin(c)' = InBin(c) /\ Owner(c)' = Owner(c) /\ Pairs(c)' = Pairs(c)
  BY <1>1, <1>2, ParamsKept DEF params
<1>4. /\ \A u, c : Placed(u, c)' = Placed(u, c)
      /\ \A u, c : Holds(u, c)' = Holds(u, c)
      /\ \A k, c : ItemsBefore(k, c)' = ItemsBefore(k, c)
      /\ \A u : binIdx'[u] = binIdx[u] /\ binPos'[u] = binPos[u] /\ thrd'[u] = thrd[u] =>
            Merging(u)' = Merging(u)
  BY <1>1, <1>2, AreasKept
<1>5. /\ 0 \in Threads /\ b \in Bins /\ numThreads \in Nat \ {0}
      /\ thrdBinSizes[0][b] \in 0 .. perThrdMaxBinSize
      /\ perThrdMaxBinSize \in Nat /\ combinedMaxBinSize \in Nat
      /\ thrdBinSizes[0][b] <= combinedMaxBinSize
  <2>1. 0 \in Threads /\ numThreads \in Nat \ {0} /\ perThrdMaxBinSize \in Nat
        /\ combinedMaxBinSize \in Nat
    BY <1>2, Sizes DEF Threads
  <2>2. b \in Bins
    BY <1>1, <1>2, SizeAssumption DEF TypeInv, Bins
  <2>3. thrdBinSizes[0][b] \in 0 .. perThrdMaxBinSize
    BY <1>2, <2>1, <2>2 DEF TypeInv
  <2>4. perThrdMaxBinSize * 0 + perThrdMaxBinSize <= combinedMaxBinSize
    BY <1>2, <2>1, <2>2, AreaBounds
  <2>5. perThrdMaxBinSize * 0 = 0
    BY <2>1
  <2> QED
    BY <2>1, <2>2, <2>3, <2>4, <2>5
<1> HIDE DEF b
<1>6. /\ \A u \in Threads : tpc'[u] = IF u = t THEN "merge" ELSE tpc[u]
      /\ \A u \in Threads : u # t => binPos'[u] = binPos[u] /\ thrd'[u] = thrd[u]
      /\ binPos'[t] = thrdBinSizes[0][b] /\ thrd'[t] = 1 /\ binIdx' = binIdx
  BY <1>1, <1>2 DEF TypeInv
<1>7. TypeInv'
  <2>1. tpc' \in [Threads -> Labels(main)]
    BY <1>1, <1>2 DEF TypeInv, Labels, Past
  <2>2. thrd' \in [Threads -> 0 .. numThreads] /\ binPos' \in [Threads -> 0 .. combinedMaxBinSize]
    BY <1>1, <1>2, <1>5 DEF TypeInv
  <2>3. \A u \in Threads : main \in {"solve", "decode"} /\ u >= started => tpc'[u] = "none"
    BY <1>1, <1>2, <1>6 DEF TypeInv
  <2> QED
    BY <1>1, <1>2, <1>3, <2>1, <2>2, <2>3 DEF TypeInv, sharedVars, decodeVars, Labels
<1>8. BarrierInv'
  <2>1. PastFill' = PastFill
    BY <1>1, <1>3, <1>6 DEF PastFill, Past
  <2>2. tpc[t] \in Past
    BY <1>1 DEF Past
  <2> QED
    BY <1>1, <1>2, <1>3, <1>6, <2>1, <2>2 DEF SolveInv, BarrierInv
<1>9. CountInv'
  BY <1>1, <1>2, <1>3, <1>4 DEF SolveInv, CountInv, sharedVars
<1>10. Untouched(b)
  <2>1. Owner(b) = t
    BY <1>2 DEF SolveInv, OwnerInv, Owner, b
  <2> QED
    BY <1>1, <2>1 DEF Untouched, b
<1>11. AreaInv'
  <2>1. ASSUME NEW c \in Bins, Untouched(c)'
        PROVE  Untouched(c)
    BY <1>1, <1>2, <1>3, <1>6, <2>1, OwnerIsThread DEF Untouched
  <2> QED
    BY <1>2, <1>3, <1>4, <2>1 DEF SolveInv, AreaInv
<1>12. OwnerInv'
  BY <1>1, <1>2, <1>3, <1>6 DEF SolveInv, OwnerInv, b
<1>13. Merging(t)'
  <2>1. \A u \in Threads : Holds(u, b)
    BY <1>2, <1>5, <1>10 DEF SolveInv, AreaInv
  <2>2. MovedCells(t)' = CellsOf(0, b)
    BY <1>3, <1>6 DEF MovedCells, CellsOf, b
  <2>3. binPos'[t] = ItemsBefore(1, b)
    <3>1. ItemsBefore(0 + 1, b) = ItemsBefore(0, b) + thrdBinSizes[0][b] /\ ItemsBefore(0, b) = 0
      BY <1>2, <1>5, ItemsNext
    <3> QED
      BY <1>5, <1>6, <3>1
  <2>4. binPos'[t] <= perThrdMaxBinSize * 1
    BY <1>5, <1>6
  <2>5. Holds(0, b)
    BY <1>5, <2>1
  <2>6. \A q \in CellsOf(0, b) : hashBacking[q] \in InBin(b) /\ valBacking[q] = hashBacking[q]
    <3>1. Placed(0, b) \subseteq InBin(b)
      BY <1>2, <1>5, PlacedInBin
    <3> QED
      BY <2>5, <3>1 DEF Holds
  <2>7. \A u \in Threads : u < 1 => u = 0
    BY <1>2, Sizes
  <2>8. hashBacking' = hashBacking /\ valBacking' = valBacking
    BY <1>1 DEF sharedVars
  <2>9. \A u \in Threads : u < 1 =>
          \A i \in Placed(u, b) : \E q \in CellsOf(0, b) : hashBacking[q] = i
    BY <2>5, <2>7 DEF Holds
  <2>10. binIdx'[t] = b /\ thrd'[t] = 1 /\ 1 \in 1 .. numThreads
    BY <1>5, <1>6 DEF b
  <2>11. \A u : Holds(u, binIdx[t])' = Holds(u, b)
    BY <1>1, <1>3, <1>6 DEF Holds, Placed, CellsOf, b, sharedVars, params
  <2>12. \A u : Placed(u, binIdx[t])' = Placed(u, b)
    BY <1>1, <1>3, <1>6 DEF Placed, b, params
  <2>13. ItemsBefore(thrd[t], binIdx[t])' = ItemsBefore(1, b)
    BY <1>3, <1>1, <2>10 DEF ItemsBefore, sharedVars
  <2>14. InBin(binIdx[t])' = InBin(b)
    BY <1>1, <2>10 DEF InBin, params
  <2> QED
    BY <1>3, <2>1, <2>2, <2>3, <2>4, <2>6, <2>8, <2>9, <2>10, <2>11, <2>12, <2>13, <2>14
       DEF Merging
<1>14. MergeInv'
  BY <1>2, <1>3, <1>4, <1>6, <1>13 DEF SolveInv, MergeInv
<1>15. OutputInv' /\ Fresh'
  BY <1>1, <1>2, <1>3 DEF SolveInv, OutputInv, Fresh, decodeVars
<1> QED
  BY <1>1, <1>2, <1>3, <1>7, <1>8, <1>9, <1>11, <1>12, <1>14, <1>15 DEF IInv, SolveInv

\* Areas whose cells are left alone hold what they held.
LEMMA HoldsKept ==
  ASSUME ParamInv, UNCHANGED <<params, inIdx, thrdBinSizes>>, NEW u \in Threads, NEW c \in Bins,
         Holds(u, c),
         \A q \in CellsOf(u, c) : hashBacking'[q] = hashBacking[q] /\ valBacking'[q] = valBacking[q]
  PROVE  Holds(u, c)'
<1>1. /\ bin' = bin /\ inIdx' = inIdx /\ thrdBinSizes' = thrdBinSizes
      /\ \A v : Begin(v)' = Begin(v)
      /\ \A v, d : Area(v, d)' = Area(v, d)
  BY ParamsKept DEF params
<1>2. Placed(u, c)' = Placed(u, c) /\ CellsOf(u, c)' = CellsOf(u, c)
  BY <1>1 DEF Placed, CellsOf
<1> QED
  BY <1>2 DEF Holds

\* The bin a thread is at is the same bin after a step that leaves it there.
LEMMA HoldsAt ==
  ASSUME UNCHANGED binIdx, NEW t, NEW v, binIdx[t] \in Bins,
         \A c \in Bins : c = binIdx[t] => Holds(v, c)'
  PROVE  Holds(v, binIdx[t])'
BY DEF Holds, CellsOf, Placed, Area

\* Where a bin's cells are: all of them among its combinedMaxBinSize.
LEMMA CellsInBin ==
  ASSUME ParamInv, TypeInv, NEW u \in Threads, NEW c \in Bins, NEW q \in CellsOf(u, c)
  PROVE  \E m \in 0 .. combinedMaxBinSize - 1 :
           q = Area(0, c) + m /\ perThrdMaxBinSize * u <= m
<1>1. PICK l \in 0 .. thrdBinSizes[u][c] - 1 : q = Area(u, c) + l
  BY DEF CellsOf
<1>2. thrdBinSizes[u][c] \in 0 .. perThrdMaxBinSize /\ perThrdMaxBinSize \in Nat
      /\ combinedMaxBinSize \in Nat
  BY Sizes DEF TypeInv
<1>3. /\ Area(u, c) = Area(0, c) + perThrdMaxBinSize * u /\ Area(0, c) \in Nat
      /\ perThrdMaxBinSize * u \in Nat
      /\ perThrdMaxBinSize * u + perThrdMaxBinSize <= combinedMaxBinSize
  BY AreaBounds
<1> DEFINE m == perThrdMaxBinSize * u + l
<1>4. m \in 0 .. combinedMaxBinSize - 1 /\ q = Area(0, c) + m /\ perThrdMaxBinSize * u <= m
  BY <1>1, <1>2, <1>3
<1> QED
  BY <1>4

\* What a thread put into a bin moves behind what has been moved, over cells
\* that were read before, and other bins are left alone.
LEMMA MergeStep ==
  ASSUME IInv, NEW t \in Threads, Merge(t)
  PROVE  IInv'
<1> DEFINE b == binIdx[t]
           k == thrd[t]
           p == binPos[t]
           s == thrdBinSizes[k][b]
           dst == Area(0, b) + p
           src == Area(k, b)
           P == perThrdMaxBinSize
           C == combinedMaxBinSize
<1>1. /\ tpc[t] = "merge" /\ k < numThreads
      /\ hashBacking' = Moved(hashBacking, dst, src, s)
      /\ valBacking' = Assigned(valBacking, dst, src, s)
      /\ binPos' = [binPos EXCEPT ![t] = @ + s] /\ thrd' = [thrd EXCEPT ![t] = @ + 1]
      /\ UNCHANGED <<params, main, started, tpc, inIdx, thrdBinSizes, numDone, hashingDone,
                     binIdx, output, decodeVars>>
  BY DEF Merge
<1>2. ParamInv /\ TypeInv /\ main = "solve" /\ SolveInv
  BY <1>1, InSolve DEF IInv
<1>3. /\ ParamInv' /\ Threads' = Threads /\ Backing' = Backing
      /\ perThrdMaxBinSize' = perThrdMaxBinSize
      /\ combinedMaxBinSize' = combinedMaxBinSize /\ numThreads' = numThreads
      /\ \A u : Begin(u)' = Begin(u) /\ End(u)' = End(u)
      /\ \A u, c : Area(u, c)' = Area(u, c)
      /\ \A c : InBin(c)' = InBin(c) /\ Owner(c)' = Owner(c) /\ Pairs(c)' = Pairs(c)
      /\ bin' = bin
  BY <1>1, <1>2, ParamsKept DEF params
<1>4. Merging(t)
  BY <1>1, <1>2 DEF SolveInv, MergeInv
<1>5. /\ b \in Bins /\ b \in Nat /\ b < mNumBins /\ b % numThreads = t
      /\ k \in Threads /\ k \in 1 .. numThreads /\ t \in Nat /\ numThreads \in Nat \ {0}
      /\ P \in Nat /\ C \in Nat /\ p \in Nat /\ s \in 0 .. P
  <2>1. b < mNumBins /\ b % numThreads = t
    BY <1>1, <1>2 DEF SolveInv, OwnerInv
  <2>2. b \in Bins /\ b \in Nat
    BY <1>2, <2>1, SizeAssumption DEF TypeInv, Bins
  <2>3. t \in Nat /\ numThreads \in Nat \ {0} /\ P \in Nat /\ C \in Nat
    BY <1>2, Sizes
  <2>4. k \in 1 .. numThreads
    BY <1>4 DEF Merging
  <2>5. k \in Threads
    BY <1>1, <2>3, <2>4 DEF Threads
  <2>6. p \in Nat
    BY <1>2 DEF TypeInv
  <2>7. s \in 0 .. P
    BY <1>2, <2>2, <2>5 DEF TypeInv
  <2> QED
    BY <2>1, <2>2, <2>3, <2>4, <2>5, <2>6, <2>7
<1>6. /\ Area(0, b) \in Nat /\ P * k \in Nat /\ src = Area(0, b) + P * k /\ P * k + P <= C
      /\ Area(0, b) + C <= mNumBins * C /\ mNumBins * C \in Nat
      /\ \A v \in Threads : k < v => P * k + P <= P * v
      /\ \A v \in Threads : P * v \in Nat
  BY <1>2, <1>5, AreaBounds
<1>7. p <= P * k /\ p + s \in 0 .. C /\ ~ (dst > src) /\ dst \in Nat /\ src \in Nat
      /\ dst = Area(0, b) + p
  <2>1. p <= P * k
    BY <1>4 DEF Merging
  <2>2. dst = Area(0, b) + p
    OBVIOUS
  <2> HIDE DEF p, s, P, C, k, src, dst
  <2> QED
    BY <2>1, <2>2, <1>5, <1>6
<1>8. \A l \in 0 .. s - 1 :
        /\ src + l \in Backing /\ dst + l \in Backing /\ p + l \in 0 .. C - 1
        /\ dst + l \in dst .. dst + s - 1 /\ dst + l - dst = l
  <2> SUFFICES ASSUME NEW l \in 0 .. s - 1
               PROVE  /\ src + l \in Backing /\ dst + l \in Backing /\ p + l \in 0 .. C - 1
                      /\ dst + l \in dst .. dst + s - 1 /\ dst + l - dst = l
    OBVIOUS
  <2>1. l \in 0 .. P - 1
    BY <1>5
  <2>2. src + l \in Backing
    BY <1>2, <1>5, <2>1, CellsDiffer
  <2> HIDE DEF p, s, P, C, k, src, dst
  <2>3. p + l \in 0 .. C - 1 /\ dst + l = Area(0, b) + (p + l)
        /\ dst + l \in dst .. dst + s - 1 /\ dst + l - dst = l
    BY <1>5, <1>6, <1>7
  <2>4. dst + l \in Backing
    BY <1>2, <1>5, <2>3, BinsDiffer DEF C
  <2> QED
    BY <2>2, <2>3, <2>4
<1>9. DOMAIN hashBacking = Backing /\ DOMAIN valBacking = Backing
  BY <1>2 DEF TypeInv
<1> HIDE DEF b, k, p, s, dst, src, P, C
<1>10. \A l \in 0 .. s - 1 : /\ hashBacking'[dst + l] = hashBacking[src + l]
                             /\ valBacking'[dst + l] = valBacking[src + l]
  <2> SUFFICES ASSUME NEW l \in 0 .. s - 1
               PROVE  /\ hashBacking'[dst + l] = hashBacking[src + l]
                      /\ valBacking'[dst + l] = valBacking[src + l]
    OBVIOUS
  <2>1. /\ dst + l \in Backing /\ dst + l \in dst .. dst + s - 1 /\ dst + l - dst = l
    BY <1>8
  <2>2. src + (dst + l) - dst = src + l
    BY <1>5, <1>7
  <2>3. hashBacking'[dst + l] = hashBacking[src + (dst + l) - dst]
    BY <1>1, <1>9, <2>1 DEF Moved
  <2>4. valBacking'[dst + l] = valBacking[src + (dst + l - dst)]
    BY <1>1, <1>7, <1>9, <2>1 DEF Assigned
  <2> QED
    BY <2>1, <2>2, <2>3, <2>4
<1>11. \A q \in Backing : q \notin dst .. dst + s - 1 =>
         hashBacking'[q] = hashBacking[q] /\ valBacking'[q] = valBacking[q]
  BY <1>1, <1>9 DEF Moved, Assigned
<1>12. \A q \in dst .. dst + s - 1 : \E l \in 0 .. s - 1 : q = dst + l
  <2> SUFFICES ASSUME NEW q \in dst .. dst + s - 1
               PROVE  \E l \in 0 .. s - 1 : q = dst + l
    OBVIOUS
  <2>1. q - dst \in 0 .. s - 1 /\ q = dst + (q - dst)
    BY <1>5, <1>7
  <2> QED
    BY <2>1
<1>13. hashBacking' \in [Backing -> Inputs \cup {None}]
       /\ valBacking' \in [Backing -> Inputs \cup {None}]
  <2>1. DOMAIN hashBacking' = Backing /\ DOMAIN valBacking' = Backing
    BY <1>1, <1>9 DEF Moved, Assigned
  <2>2. hashBacking' = [q \in Backing |-> hashBacking'[q]]
        /\ valBacking' = [q \in Backing |-> valBacking'[q]]
    BY <1>1, <1>9 DEF Moved, Assigned
  <2>3. hashBacking \in [Backing -> Inputs \cup {None}]
        /\ valBacking \in [Backing -> Inputs \cup {None}]
    BY <1>2 DEF TypeInv
  <2>4. ASSUME NEW q \in Backing
        PROVE  hashBacking'[q] \in Inputs \cup {None} /\ valBacking'[q] \in Inputs \cup {None}
    <3>1. CASE q \in dst .. dst + s - 1
      <4>1. PICK l \in 0 .. s - 1 : q = dst + l
        BY <1>12, <3>1
      <4>2. hashBacking'[q] = hashBacking[src + l] /\ valBacking'[q] = valBacking[src + l]
        BY <1>10, <4>1
      <4>3. src + l \in Backing
        BY <1>8
      <4> QED
        BY <2>3, <4>2, <4>3
    <3>2. CASE q \notin dst .. dst + s - 1
      BY <1>11, <2>3, <3>2
    <3> QED
      BY <3>1, <3>2
  <2> QED
    BY <2>2, <2>4
<1>14. ASSUME NEW c \in Bins, c # b, NEW m \in 0 .. C - 1
       PROVE  /\ hashBacking'[Area(0, c) + m] = hashBacking[Area(0, c) + m]
              /\ valBacking'[Area(0, c) + m] = valBacking[Area(0, c) + m]
  <2>1. Area(0, c) + m \in Backing
    BY <1>2, <1>14, BinsDiffer DEF C
  <2>2. ASSUME NEW l \in 0 .. s - 1
        PROVE  Area(0, c) + m # dst + l
    <3>1. p + l \in 0 .. C - 1 /\ dst + l = Area(0, b) + (p + l)
      BY <1>5, <1>6, <1>7, <1>8
    <3>2. Area(0, b) + (p + l) = Area(0, c) + m => b = c
      BY <1>2, <1>5, <3>1, BinsDiffer DEF C
    <3> QED
      BY <1>14, <3>1, <3>2
  <2> QED
    BY <1>11, <1>12, <2>1, <2>2
<1>15. \A c \in Bins, u \in Threads : c # b /\ Holds(u, c) => Holds(u, c)'
  <2> SUFFICES ASSUME NEW c \in Bins, NEW u \in Threads, c # b, Holds(u, c)
               PROVE  Holds(u, c)'
    OBVIOUS
  <2>1. \A q \in CellsOf(u, c) : hashBacking'[q] = hashBacking[q] /\ valBacking'[q] = valBacking[q]
    BY <1>2, <1>14, CellsInBin DEF C
  <2> QED
    BY <1>1, <1>2, <2>1, HoldsKept
<1>16. \A c \in Bins, u \in Threads : c = b /\ k < u /\ Holds(u, c) => Holds(u, c)'
  <2> SUFFICES ASSUME NEW c \in Bins, NEW u \in Threads, c = b, k < u, Holds(u, c)
               PROVE  Holds(u, c)'
    OBVIOUS
  <2>1. ASSUME NEW q \in CellsOf(u, c)
        PROVE  hashBacking'[q] = hashBacking[q] /\ valBacking'[q] = valBacking[q]
    <3>1. PICK m \in 0 .. C - 1 : q = Area(0, b) + m /\ P * u <= m
      BY <1>2, <1>5, CellsInBin DEF C, P
    <3>2. q \in Backing
      BY <1>2, <1>5, <3>1, BinsDiffer DEF C
    <3>3. P * k + P <= P * u /\ P * u \in Nat
      BY <1>6
    <3>4. q \notin dst .. dst + s - 1
      BY <1>5, <1>6, <1>7, <3>1, <3>3
    <3> QED
      BY <1>11, <3>2, <3>4
  <2> QED
    BY <1>1, <1>2, <1>5, <2>1, HoldsKept
<1>17. /\ \A u \in Threads : u # t => binPos'[u] = binPos[u] /\ thrd'[u] = thrd[u]
       /\ binPos'[t] = p + s /\ thrd'[t] = k + 1 /\ binIdx' = binIdx /\ tpc' = tpc
       /\ thrdBinSizes' = thrdBinSizes /\ inIdx' = inIdx
       /\ binPos' \in [Threads -> 0 .. C] /\ thrd' \in [Threads -> 0 .. numThreads]
  <2>1. binPos \in [Threads -> 0 .. C] /\ thrd \in [Threads -> 0 .. numThreads]
    BY <1>2 DEF TypeInv, C
  <2>2. k + 1 \in 0 .. numThreads
    BY <1>1, <1>5
  <2>3. binPos[t] = p /\ thrd[t] = k
    BY DEF p, k
  <2> QED
    BY <1>1, <1>7, <2>1, <2>2, <2>3
<1>18. \A u, c : Placed(u, c)' = Placed(u, c)
  BY <1>3, <1>17 DEF Placed
<1>19. \A j, c : ItemsBefore(j, c)' = ItemsBefore(j, c)
  BY <1>3, <1>17 DEF ItemsBefore
<1>20. TypeInv'
  BY <1>1, <1>2, <1>3, <1>13, <1>17 DEF TypeInv, decodeVars, Labels, C
<1>21. BarrierInv' /\ CountInv' /\ OwnerInv' /\ OutputInv' /\ Fresh'
  <2>1. BarrierInv'
    <3>1. PastFill' = PastFill
      BY <1>3, <1>17 DEF PastFill
    <3> QED
      BY <1>1, <1>2, <1>3, <3>1 DEF SolveInv, BarrierInv
  <2>2. CountInv'
    BY <1>2, <1>3, <1>17, <1>18 DEF SolveInv, CountInv
  <2>3. OwnerInv'
    BY <1>2, <1>3, <1>17 DEF SolveInv, OwnerInv
  <2>4. OutputInv' /\ Fresh'
    BY <1>1, <1>2, <1>3 DEF SolveInv, OutputInv, Fresh, decodeVars
  <2> QED
    BY <2>1, <2>2, <2>3, <2>4
<1>22. AreaInv'
  <2> SUFFICES ASSUME NEW c \in Bins, Untouched(c)', NEW u \in Threads
               PROVE  Holds(u, c)'
    BY <1>3 DEF AreaInv
  <2>1. Untouched(c)
    BY <1>3, <1>17 DEF Untouched
  <2>2. c # b
    <3>1. Owner(b) = t
      BY <1>5 DEF Owner
    <3>2. ~ Untouched(b)
      BY <1>1, <1>5, <3>1 DEF Untouched, b
    <3> QED
      BY <2>1, <3>2
  <2> QED
    BY <1>2, <1>15, <2>1, <2>2 DEF SolveInv, AreaInv
<1>23. Merging(t)'
  <2>1. binPos'[t] = ItemsBefore(k + 1, b)
    <3>1. ItemsBefore(k + 1, b) = ItemsBefore(k, b) + s
      BY <1>2, <1>5, ItemsNext DEF s
    <3>2. p = ItemsBefore(k, b)
      BY <1>4 DEF Merging, p, k, b
    <3> QED
      BY <1>17, <3>1, <3>2
  <2>2. binPos'[t] <= P * (k + 1) /\ k + 1 \in 1 .. numThreads
    <3>1. P * (k + 1) = P * k + P
      BY <1>5
    <3> QED
      BY <1>1, <1>5, <1>6, <1>7, <1>17, <3>1
  <2> DEFINE Old0 == {Area(0, b) + j : j \in 0 .. p - 1}
             New0 == {dst + l : l \in 0 .. s - 1}
  <2>3. MovedCells(t)' = Old0 \cup New0
    <3>1. MovedCells(t)' = {Area(0, b) + j : j \in 0 .. p + s - 1}
      <4> DEFINE F(a, n) == {a + j : j \in 0 .. n - 1}
                 a == combinedMaxBinSize' * binIdx'[t] + perThrdMaxBinSize' * 0
      <4>1. a = Area(0, b)
        BY <1>3, <1>17 DEF Area, b
      <4>2. MovedCells(t)' = F(a, binPos'[t])
        BY DEF MovedCells, Area
      <4> HIDE DEF a, F
      <4>3. MovedCells(t)' = F(Area(0, b), p + s)
        BY <1>17, <4>1, <4>2
      <4>4. (p + s) - 1 = p + s - 1
        BY <1>5
      <4> HIDE DEF Old0, New0
      <4> QED
        BY <4>3, <4>4 DEF F
    <3>2. ASSUME NEW j \in 0 .. p + s - 1
          PROVE  Area(0, b) + j \in Old0 \cup New0
      <4>1. CASE j < p
        <5>1. j \in 0 .. p - 1
          BY <1>5, <4>1
        <5> QED
          BY <5>1
      <4>2. CASE ~ (j < p)
        <5>1. j - p \in 0 .. s - 1 /\ Area(0, b) + j = dst + (j - p)
          BY <1>5, <1>6, <1>7, <4>2
        <5> QED
          BY <5>1
      <4> QED
        BY <4>1, <4>2
    <3>3. ASSUME NEW j \in 0 .. p - 1
          PROVE  j \in 0 .. p + s - 1
      BY <1>5
    <3>4. ASSUME NEW l \in 0 .. s - 1
          PROVE  p + l \in 0 .. p + s - 1 /\ dst + l = Area(0, b) + (p + l)
      BY <1>5, <1>6, <1>7
    <3> QED
      BY <3>1, <3>2, <3>3, <3>4
  <2>4. MovedCells(t) = Old0
    BY DEF MovedCells, b, p
  <2>5. \A q \in Old0 : hashBacking'[q] = hashBacking[q] /\ valBacking'[q] = valBacking[q]
    <3> SUFFICES ASSUME NEW j \in 0 .. p - 1
                 PROVE  /\ hashBacking'[Area(0, b) + j] = hashBacking[Area(0, b) + j]
                        /\ valBacking'[Area(0, b) + j] = valBacking[Area(0, b) + j]
      OBVIOUS
    <3>1. j \in 0 .. C - 1 /\ Area(0, b) + j \notin dst .. dst + s - 1
      BY <1>5, <1>6, <1>7
    <3>2. Area(0, b) + j \in Backing
      BY <1>2, <1>5, <3>1, BinsDiffer DEF C
    <3> QED
      BY <1>11, <3>1, <3>2
  <2>6. Holds(k, b) /\ CellsOf(k, b) = {src + l : l \in 0 .. s - 1}
        /\ Placed(k, b) \subseteq InBin(b)
    <3>1. Holds(k, b)
      BY <1>4, <1>5 DEF Merging, k, b
    <3>2. CellsOf(k, b) = {src + l : l \in 0 .. s - 1}
      BY DEF CellsOf, src, s
    <3> QED
      BY <1>2, <1>5, <3>1, <3>2, PlacedInBin
  <2>7. \A q \in Old0 \cup New0 :
          hashBacking'[q] \in InBin(b) /\ valBacking'[q] = hashBacking'[q]
    <3>1. ASSUME NEW q \in Old0
          PROVE  hashBacking'[q] \in InBin(b) /\ valBacking'[q] = hashBacking'[q]
      <4>1. hashBacking[q] \in InBin(b) /\ valBacking[q] = hashBacking[q]
        BY <1>4, <2>4 DEF Merging, b
      <4> QED
        BY <2>5, <4>1
    <3>2. ASSUME NEW l \in 0 .. s - 1
          PROVE  /\ hashBacking'[dst + l] \in InBin(b)
                 /\ valBacking'[dst + l] = hashBacking'[dst + l]
      <4>1. src + l \in CellsOf(k, b)
        BY <2>6
      <4>2. hashBacking[src + l] \in Placed(k, b) /\ valBacking[src + l] = hashBacking[src + l]
        BY <2>6, <4>1 DEF Holds
      <4> QED
        BY <1>10, <2>6, <4>2
    <3> HIDE DEF Old0
    <3> QED
      BY <3>1, <3>2
  <2>8. ASSUME NEW u \in Threads, u < k + 1, NEW i \in Placed(u, b)
        PROVE  \E q \in Old0 \cup New0 : hashBacking'[q] = i
    <3>1. u \in Nat
      BY <1>2, Sizes
    <3>2. CASE u < k
      <4>1. PICK q \in Old0 : hashBacking[q] = i
        BY <1>4, <2>4, <2>8, <3>2 DEF Merging, b, k
      <4> HIDE DEF Old0, New0
      <4> QED
        BY <2>5, <4>1
    <3>3. CASE u = k
      <4>1. PICK q \in CellsOf(k, b) : hashBacking[q] = i
        BY <2>6, <2>8, <3>3 DEF Holds
      <4>2. PICK l \in 0 .. s - 1 : q = src + l
        BY <2>6, <4>1
      <4>3. hashBacking'[dst + l] = i /\ dst + l \in New0
        BY <1>10, <4>1, <4>2
      <4> QED
        BY <4>3
    <3> QED
      BY <1>5, <2>8, <3>1, <3>2, <3>3
  <2>9. \A u \in Threads : u >= k + 1 => Holds(u, binIdx[t])'
    <3> SUFFICES ASSUME NEW u \in Threads, u >= k + 1
                 PROVE  Holds(u, binIdx[t])'
      OBVIOUS
    <3>1. u \in Nat /\ u >= k /\ k < u
      BY <1>2, <1>5, Sizes
    <3>2. Holds(u, b)
      BY <1>4, <3>1 DEF Merging, b, k
    <3>3. \A c \in Bins : c = b => Holds(u, c)'
      BY <1>16, <3>1, <3>2
    <3> QED
      BY <1>5, <1>17, <3>3, HoldsAt DEF b
  <2>10. /\ \A u : Placed(u, binIdx[t])' = Placed(u, b)
         /\ ItemsBefore(thrd[t], binIdx[t])' = ItemsBefore(k + 1, b)
         /\ InBin(binIdx[t])' = InBin(b)
         /\ thrd'[t] = k + 1
    <3>1. binIdx'[t] = b /\ thrd'[t] = k + 1 /\ b' = b
      BY <1>17 DEF b
    <3>2. \A u : Placed(u, binIdx[t])' = Placed(u, b)
      BY <1>3, <1>17, <3>1 DEF Placed
    <3>3. ItemsBefore(thrd[t], binIdx[t])' = ItemsBefore(k + 1, b)
      BY <1>3, <1>17, <3>1 DEF ItemsBefore
    <3>4. InBin(binIdx[t])' = InBin(b)
      BY <1>3, <3>1 DEF InBin
    <3> QED
      BY <3>1, <3>2, <3>3, <3>4
  <2> HIDE DEF Old0, New0
  <2> QED
    BY <1>3, <2>1, <2>2, <2>3, <2>7, <2>8, <2>9, <2>10 DEF Merging, P
<1>24. MergeInv'
  <2> SUFFICES ASSUME NEW u \in Threads, tpc[u] = "merge", u # t
               PROVE  Merging(u)'
    BY <1>3, <1>17, <1>23 DEF MergeInv
  <2> DEFINE c == binIdx[u]
  <2>1. Merging(u) /\ c % numThreads = u /\ c < mNumBins
    BY <1>2 DEF SolveInv, MergeInv, OwnerInv
  <2>2. c \in Bins /\ c # b
    <3>1. c \in Bins
      BY <1>2, <2>1, SizeAssumption DEF TypeInv, Bins
    <3>2. c # b
      BY <1>5, <2>1
    <3> QED
      BY <3>1, <3>2
  <2>3. \A v \in Threads : Holds(v, binIdx[u]) => Holds(v, binIdx[u])'
    <3>1. ASSUME NEW v \in Threads, NEW d \in Bins, d = c, Holds(v, d)
          PROVE  Holds(v, d)'
      BY <1>15, <2>2, <3>1
    <3> QED
      BY <1>17, <2>2, <3>1, HoldsAt
  <2>4. ASSUME NEW q \in MovedCells(u)
        PROVE  hashBacking'[q] = hashBacking[q] /\ valBacking'[q] = valBacking[q]
    <3>1. PICK m \in 0 .. binPos[u] - 1 : q = Area(0, c) + m
      BY DEF MovedCells
    <3>2. binPos[u] \in 0 .. C
      BY <1>2 DEF TypeInv, C
    <3>3. m \in 0 .. C - 1
      BY <1>5, <3>1, <3>2
    <3> QED
      BY <1>14, <2>2, <3>1, <3>3
  <2>5. /\ binIdx'[u] = c /\ thrd'[u] = thrd[u] /\ binPos'[u] = binPos[u]
        /\ MovedCells(u)' = MovedCells(u)
        /\ \A v : Placed(v, binIdx[u])' = Placed(v, c)
        /\ ItemsBefore(thrd[u], binIdx[u])' = ItemsBefore(thrd[u], c)
        /\ InBin(binIdx[u])' = InBin(c)
    <3>1. binIdx'[u] = c /\ thrd'[u] = thrd[u] /\ binPos'[u] = binPos[u] /\ c' = c
      BY <1>17
    <3>2. MovedCells(u)' = MovedCells(u)
      BY <1>3, <3>1 DEF MovedCells
    <3>3. \A v : Placed(v, binIdx[u])' = Placed(v, c)
      BY <1>3, <1>17, <3>1 DEF Placed
    <3>4. ItemsBefore(thrd[u], binIdx[u])' = ItemsBefore(thrd[u], c)
      BY <1>3, <1>17, <3>1 DEF ItemsBefore
    <3>5. InBin(binIdx[u])' = InBin(c)
      BY <1>3, <3>1 DEF InBin
    <3> QED
      BY <3>1, <3>2, <3>3, <3>4, <3>5
  <2>6. /\ thrd[u] \in 1 .. numThreads /\ binPos[u] = ItemsBefore(thrd[u], c)
        /\ binPos[u] <= perThrdMaxBinSize * thrd[u]
        /\ \A q \in MovedCells(u) : hashBacking[q] \in InBin(c) /\ valBacking[q] = hashBacking[q]
        /\ \A v \in Threads : v < thrd[u] =>
             \A i \in Placed(v, c) : \E q \in MovedCells(u) : hashBacking[q] = i
        /\ \A v \in Threads : v >= thrd[u] => Holds(v, binIdx[u])
    BY <2>1 DEF Merging
  <2> HIDE DEF c
  <2>7. \A q \in MovedCells(u) : hashBacking'[q] \in InBin(c) /\ valBacking'[q] = hashBacking'[q]
    BY <2>4, <2>6
  <2>8. \A v \in Threads : v < thrd[u] =>
          \A i \in Placed(v, c) : \E q \in MovedCells(u) : hashBacking'[q] = i
    BY <2>4, <2>6
  <2> QED
    BY <1>3, <2>3, <2>5, <2>6, <2>7, <2>8 DEF Merging
<1> QED
  BY <1>1, <1>2, <1>3, <1>20, <1>21, <1>22, <1>24 DEF IInv, SolveInv

\* What has been merged is all of the bin, each input with its value, and
\* Paxos is given that.
LEMMA AllGiven ==
  ASSUME IInv, NEW t \in Threads, tpc[t] = "merge", thrd[t] >= numThreads
  PROVE  Given(binIdx[t]) = Pairs(binIdx[t])
<1> DEFINE b == binIdx[t]
<1>1. ParamInv /\ TypeInv /\ SolveInv
  BY InSolve DEF IInv
<1>2. Merging(t) /\ hashingDone
  BY <1>1 DEF SolveInv, MergeInv, BarrierInv
<1>3. numThreads \in Nat \ {0} /\ thrd[t] = numThreads /\ b \in Bins
      /\ \A u \in Threads : u \in Nat /\ u < numThreads
  <2>1. b < mNumBins
    BY <1>1 DEF SolveInv, OwnerInv
  <2>2. b \in Bins
    BY <1>1, <2>1, SizeAssumption DEF TypeInv, Bins
  <2>3. numThreads \in Nat \ {0}
    BY <1>1, Sizes
  <2> QED
    BY <1>2, <2>2, <2>3 DEF Merging, Threads
<1>4. BinSize(b) = binPos[t]
  BY <1>2, <1>3 DEF Merging, BinSize
<1>5. Given(b) = {<<hashBacking[q], valBacking[q]>> : q \in MovedCells(t)}
  BY <1>4 DEF Given, MovedCells
<1>6. \A q \in MovedCells(t) : hashBacking[q] \in InBin(b) /\ valBacking[q] = hashBacking[q]
  BY <1>2 DEF Merging
<1>7. ASSUME NEW i \in InBin(b)
      PROVE  \E q \in MovedCells(t) : hashBacking[q] = i
  <2>1. i \in Inputs /\ bin[i] = b
    BY DEF InBin
  <2>2. PICK u \in Threads : i \in Begin(u) .. End(u) - 1
    BY <1>1, <2>1, EveryInput
  <2>3. inIdx[u] = End(u)
    BY <1>1, <1>2, AllPast DEF SolveInv, BarrierInv
  <2>4. i \in Placed(u, b)
    BY <2>1, <2>2, <2>3 DEF Placed
  <2> QED
    BY <1>2, <1>3, <2>4 DEF Merging
<1> HIDE DEF b
<1>8. Given(b) \subseteq Pairs(b)
  BY <1>5, <1>6 DEF Pairs
<1>9. Pairs(b) \subseteq Given(b)
  BY <1>5, <1>6, <1>7 DEF Pairs
<1> QED
  BY <1>8, <1>9 DEF b

\* A bin is encoded, and its thread goes on to the next that is its own.
LEMMA EncodeStep ==
  ASSUME IInv, NEW t \in Threads, Encode(t)
  PROVE  IInv'
<1> DEFINE b == binIdx[t]
<1>1. /\ tpc[t] = "merge" /\ thrd[t] >= numThreads
      /\ output' = [output EXCEPT ![b] = Given(b)]
      /\ tpc' = [tpc EXCEPT ![t] = "bins"]
      /\ binIdx' = [binIdx EXCEPT ![t] = @ + numThreads]
      /\ UNCHANGED <<params, main, started, inIdx, sharedVars, numDone, hashingDone, thrd,
                     binPos, decodeVars>>
  BY DEF Encode
<1>2. ParamInv /\ TypeInv /\ main = "solve" /\ SolveInv
  BY <1>1, InSolve DEF IInv
<1>3. /\ ParamInv' /\ Threads' = Threads /\ Backing' = Backing
      /\ perThrdMaxBinSize' = perThrdMaxBinSize
      /\ combinedMaxBinSize' = combinedMaxBinSize /\ numThreads' = numThreads
      /\ \A u : Begin(u)' = Begin(u) /\ End(u)' = End(u)
      /\ \A c : Owner(c)' = Owner(c) /\ Pairs(c)' = Pairs(c)
  BY <1>1, <1>2, ParamsKept DEF params
<1>4. /\ \A u, c : Placed(u, c)' = Placed(u, c)
      /\ \A u, c : Holds(u, c)' = Holds(u, c)
      /\ \A u : binIdx'[u] = binIdx[u] /\ binPos'[u] = binPos[u] /\ thrd'[u] = thrd[u] =>
            Merging(u)' = Merging(u)
  BY <1>1, <1>2, AreasKept
<1>5. b < mNumBins /\ b % numThreads = t /\ b \in Bins /\ b \in Nat /\ numThreads \in Nat \ {0}
      /\ mNumBins \in Nat
  <2>1. b < mNumBins /\ b % numThreads = t
    BY <1>1, <1>2 DEF SolveInv, OwnerInv
  <2>2. b \in Bins /\ b \in Nat
    BY <1>2, <2>1, SizeAssumption DEF TypeInv, Bins
  <2> QED
    BY <1>2, <2>1, <2>2, Sizes
<1>6. Given(b) = Pairs(b)
  BY <1>1, AllGiven
<1> HIDE DEF b
<1>7. /\ \A u \in Threads : u # t => binIdx'[u] = binIdx[u] /\ tpc'[u] = tpc[u]
      /\ binIdx'[t] = b + numThreads /\ tpc'[t] = "bins" /\ binIdx[t] = b
      /\ \A c \in Bins : output'[c] = IF c = b THEN Pairs(b) ELSE output[c]
      /\ binIdx' \in [Threads -> 0 .. mNumBins + numThreads]
      /\ output' \in [Bins -> SUBSET (Inputs \X Inputs)]
  <2>1. binIdx \in [Threads -> 0 .. mNumBins + numThreads] /\ binIdx[t] = b
        /\ output \in [Bins -> SUBSET (Inputs \X Inputs)] /\ tpc \in [Threads -> Labels(main)]
    BY <1>2 DEF TypeInv, b
  <2>2. b + numThreads \in 0 .. mNumBins + numThreads
    BY <1>5
  <2>3. Pairs(b) \in SUBSET (Inputs \X Inputs)
    BY DEF Pairs, InBin
  <2>4. binIdx' \in [Threads -> 0 .. mNumBins + numThreads] /\ binIdx'[t] = b + numThreads
        /\ \A u \in Threads : u # t => binIdx'[u] = binIdx[u]
    BY <1>1, <2>1, <2>2
  <2>5. output' \in [Bins -> SUBSET (Inputs \X Inputs)]
        /\ \A c \in Bins : output'[c] = IF c = b THEN Pairs(b) ELSE output[c]
    BY <1>1, <1>5, <1>6, <2>1, <2>3
  <2>6. tpc'[t] = "bins" /\ \A u \in Threads : u # t => tpc'[u] = tpc[u]
    BY <1>1, <2>1
  <2> QED
    BY <2>1, <2>4, <2>5, <2>6
<1>8. TypeInv'
  <2>1. tpc' \in [Threads -> Labels(main)]
    BY <1>1, <1>2 DEF TypeInv, Labels, Past
  <2>2. \A u \in Threads : main \in {"solve", "decode"} /\ u >= started => tpc'[u] = "none"
    BY <1>1, <1>2, <1>7 DEF TypeInv
  <2> QED
    BY <1>1, <1>2, <1>3, <1>7, <2>1, <2>2 DEF TypeInv, sharedVars, decodeVars, Labels
<1>9. BarrierInv'
  <2>1. PastFill' = PastFill
    BY <1>1, <1>3, <1>7 DEF PastFill, Past
  <2>2. hashingDone /\ inIdx[t] = End(t)
    BY <1>1, <1>2 DEF SolveInv, BarrierInv, Past
  <2> QED
    BY <1>1, <1>2, <1>3, <1>7, <2>1, <2>2 DEF SolveInv, BarrierInv
<1>10. CountInv'
  BY <1>1, <1>2, <1>3, <1>4 DEF SolveInv, CountInv, sharedVars
<1>11. OwnerInv'
  <2>1. (b + numThreads) % numThreads = t
    BY <1>5, SameOwner
  <2> QED
    BY <1>2, <1>3, <1>7, <2>1 DEF SolveInv, OwnerInv
<1>12. ASSUME NEW c \in Bins, Untouched(c)'
       PROVE  Untouched(c)
  <2>1. Owner(c) \in Threads /\ c \in Nat
    BY <1>2, OwnerIsThread
  <2>2. CASE Owner(c) # t
    BY <1>3, <1>7, <1>12, <2>1, <2>2 DEF Untouched
  <2>3. CASE Owner(c) = t
    <3>1. b + numThreads < c \/ b + numThreads = c
      BY <1>3, <1>7, <1>12, <2>3 DEF Untouched
    <3>2. b < c
      BY <1>5, <2>1, <3>1
    <3> QED
      BY <1>7, <2>3, <3>2 DEF Untouched
  <2> QED
    BY <2>2, <2>3
<1>13. AreaInv'
  BY <1>2, <1>3, <1>4, <1>12 DEF SolveInv, AreaInv
<1>14. MergeInv'
  BY <1>1, <1>2, <1>3, <1>4, <1>7 DEF SolveInv, MergeInv
<1>15. OutputInv'
  <2> SUFFICES ASSUME NEW c \in Bins, binIdx'[Owner(c)] > c
               PROVE  output'[c] = Pairs(c)
    BY <1>3 DEF OutputInv
  <2>1. Owner(c) \in Threads /\ c \in Nat
    BY <1>2, OwnerIsThread
  <2>2. CASE c = b
    BY <1>7, <2>2
  <2>3. CASE c # b
    <3>1. output'[c] = output[c]
      BY <1>7, <2>3
    <3>2. binIdx[Owner(c)] > c
      <4>1. CASE Owner(c) # t
        BY <1>7, <2>1, <4>1
      <4>2. CASE Owner(c) = t
        <5>1. b + numThreads > c /\ c % numThreads = t
          BY <1>7, <4>2 DEF Owner
        <5>2. b < c => b + numThreads <= c
          BY <1>5, <2>1, <5>1, NextOwn
        <5>3. b > c
          BY <1>5, <2>1, <2>3, <5>1, <5>2
        <5> QED
          BY <1>7, <4>2, <5>3
      <4> QED
        BY <4>1, <4>2
    <3> QED
      BY <1>2, <3>1, <3>2 DEF SolveInv, OutputInv
  <2> QED
    BY <2>2, <2>3
<1>16. Fresh'
  BY <1>1, <1>2, <1>3 DEF SolveInv, Fresh, decodeVars
<1> QED
  BY <1>1, <1>2, <1>3, <1>8, <1>9, <1>10, <1>11, <1>13, <1>14, <1>15, <1>16 DEF IInv, SolveInv

\* When all threads have ended every bin is encoded, and decode begins.
LEMMA SolveJoinStep ==
  ASSUME IInv, SolveJoin
  PROVE  IInv'
<1>1. /\ main = "solve" /\ \A t \in Threads : tpc[t] = "end"
      /\ main' = "decode" /\ started' = 0
      /\ inIdx' = [t \in Threads |-> Begin(t)] /\ binIdx' = [t \in Threads |-> 0]
      /\ tpc' = [t \in Threads |-> "none"]
      /\ UNCHANGED <<params, sharedVars, numDone, hashingDone, thrd, binPos, output,
                     decodeVars>>
  BY DEF SolveJoin
<1>2. ParamInv /\ TypeInv /\ SolveInv
  BY <1>1 DEF IInv
<1>3. /\ ParamInv' /\ Threads' = Threads /\ Backing' = Backing
      /\ perThrdMaxBinSize' = perThrdMaxBinSize
      /\ combinedMaxBinSize' = combinedMaxBinSize /\ numThreads' = numThreads
      /\ \A u : Begin(u)' = Begin(u) /\ End(u)' = End(u)
      /\ \A c : Pairs(c)' = Pairs(c)
      /\ bin' = bin
  BY <1>1, <1>2, ParamsKept DEF params
<1>4. numThreads \in Nat \ {0} /\ mNumBins \in Nat \ {0}
  BY <1>2, Sizes
<1>5. \A t \in Threads : Begin(t) \in Nat /\ End(t) \in Nat /\ Begin(t) <= End(t)
                         /\ End(t) <= mNumItems
  BY <1>2, Ranges
<1>6. TypeInv'
  <2>1. tpc' \in [Threads -> Labels(main')] /\ \A u \in Threads : tpc'[u] = "none"
    BY <1>1 DEF Labels
  <2>2. inIdx' \in [Threads -> Nat] /\ \A u \in Threads : inIdx'[u] \in Begin(u) .. End(u)
    BY <1>1, <1>5
  <2>3. binIdx' \in [Threads -> 0 .. mNumBins + numThreads]
    BY <1>1, <1>4
  <2>4. started' \in 0 .. numThreads
    BY <1>1, <1>4
  <2> QED
    BY <1>1, <1>2, <1>3, <2>1, <2>2, <2>3, <2>4 DEF TypeInv, sharedVars, decodeVars, Labels
<1>7. \A b \in Bins : output[b] = Pairs(b)
  <2> SUFFICES ASSUME NEW b \in Bins
               PROVE  output[b] = Pairs(b)
    OBVIOUS
  <2>1. Owner(b) \in Threads /\ b \in Nat /\ b < mNumBins
    BY <1>2, <1>4, OwnerIsThread DEF Bins
  <2>2. binIdx[Owner(b)] >= mNumBins /\ binIdx[Owner(b)] \in Nat
    BY <1>1, <1>2, <2>1 DEF SolveInv, OwnerInv, TypeInv
  <2>3. binIdx[Owner(b)] > b
    BY <1>4, <2>1, <2>2
  <2> QED
    BY <1>2, <2>3 DEF SolveInv, OutputInv
<1>8. ASSUME NEW t \in Threads
      PROVE  ThreadDecodes(t)'
  <2>1. binIdx'[t] = 0 /\ tpc'[t] = "none" /\ inIdx'[t] = Begin(t)
    BY <1>1
  <2>2. \A b \in Bins : batches'[t][b] = << >>
    BY <1>1, <1>2 DEF SolveInv, Fresh, decodeVars
  <2>3. \A b \in Bins : ToSet(batches'[t][b]) = {}
    BY <2>2 DEF ToSet
  <2>4. ASSUME NEW i \in Begin(t) .. End(t) - 1
        PROVE  values'[i] = Old /\ Pending(t, i)'
    <3>1. i \in Inputs /\ i >= Begin(t)
      BY <1>5, SizeAssumption DEF Inputs
    <3>2. values'[i] = Old
      BY <1>1, <1>2, <3>1 DEF SolveInv, Fresh, decodeVars
    <3> QED
      BY <2>1, <3>1, <3>2 DEF Pending
  <2>5. 0 \in 0 .. mNumBins /\ 0 < mNumBins
    BY <1>4
  <2> QED
    BY <1>3, <2>1, <2>3, <2>4, <2>5 DEF ThreadDecodes
<1>9. DecodeInv'
  BY <1>1, <1>3, <1>7, <1>8 DEF DecodeInv
<1> QED
  BY <1>1, <1>3, <1>6, <1>9 DEF IInv

-----------------------------------------------------------------------------
(* Decoding. *)

\* When all threads have decoded, the caller goes on.
LEMMA DecodeJoinStep ==
  ASSUME IInv, DecodeJoin
  PROVE  IInv'
<1>1. /\ main = "decode" /\ main' = "returned"
      /\ \A t \in Threads : tpc[t] = "decoded"
      /\ UNCHANGED <<params, started, tpc, inIdx, sharedVars, numDone, hashingDone, binIdx,
                     thrd, binPos, output, decodeVars>>
  BY DEF DecodeJoin
<1>2. ParamInv /\ TypeInv /\ DecodeInv
  BY <1>1 DEF IInv
<1>3. /\ ParamInv' /\ Threads' = Threads /\ Backing' = Backing
      /\ perThrdMaxBinSize' = perThrdMaxBinSize
      /\ combinedMaxBinSize' = combinedMaxBinSize /\ numThreads' = numThreads
      /\ \A u : Begin(u)' = Begin(u) /\ End(u)' = End(u)
      /\ \A c : Pairs(c)' = Pairs(c) /\ \A i : Right(i)' = Right(i)
      /\ bin' = bin
  BY <1>1, <1>2, ParamsKept DEF params
<1>4. TypeInv'
  <2>1. tpc' \in [Threads -> Labels(main')]
    BY <1>1, <1>2 DEF TypeInv, Labels
  <2> QED
    BY <1>1, <1>2, <1>3, <2>1 DEF TypeInv, sharedVars, decodeVars, Labels
<1>5. ASSUME NEW t \in Threads
      PROVE  ThreadDecodes(t)'
  <2>1. ThreadDecodes(t)
    BY <1>2 DEF DecodeInv
  <2>2. /\ \A b : Placed(t, b)' = Placed(t, b) /\ \A i : Pending(t, i)' = Pending(t, i)
        /\ values' = values /\ batches' = batches
    BY <1>1, <1>3 DEF Placed, Pending, decodeVars
  <2> QED
    BY <1>1, <1>3, <2>1, <2>2 DEF ThreadDecodes
<1>6. DecodeInv'
  BY <1>1, <1>2, <1>3, <1>5 DEF DecodeInv
<1>7. main' = "returned"
  BY <1>1
<1> QED
  BY <1>3, <1>4, <1>6, <1>7 DEF IInv

\* An input that has its old value gets the right one when it is decoded.
LEMMA Decodes ==
  ASSUME ParamInv, DecodeInv, NEW b \in Bins, NEW batch,
         \A j \in ToSet(batch) : j \in Inputs /\ bin[j] = b /\ values[j] = Old
  PROVE  /\ DOMAIN DecodeBin(batch) = Inputs
         /\ \A j \in Inputs :
              DecodeBin(batch)[j] = IF j \in ToSet(batch) THEN Right(j) ELSE values[j]
<1>1. ASSUME NEW j \in ToSet(batch)
      PROVE  Decode(j) = Val(j)
  <2>1. output[bin[j]] = Pairs(bin[j]) /\ j \in InBin(bin[j])
    BY DEF DecodeInv, InBin
  <2>2. <<j, j>> \in output[bin[j]]
    BY <2>1 DEF Pairs
  <2> QED
    BY <2>2 DEF Decode
<1>2. ASSUME NEW j
      PROVE  (Old \ Val(j)) \cup (Val(j) \ Old) = Old \cup Val(j)
  <2>1. <<"old", 0>> # <<"val", j>>
    OBVIOUS
  <2> QED
    BY <2>1 DEF Old, Val
<1>3. ASSUME NEW j \in Inputs
      PROVE  DecodeBin(batch)[j] = IF j \in ToSet(batch) THEN Right(j) ELSE values[j]
  <2>1. CASE j \notin ToSet(batch)
    BY <2>1 DEF DecodeBin
  <2>2. CASE j \in ToSet(batch)
    <3>1. values[j] = Old /\ Decode(j) = Val(j)
      BY <1>1, <2>2
    <3> QED
      BY <1>2, <2>2, <3>1 DEF DecodeBin, Right
  <2> QED
    BY <2>1, <2>2
<1> QED
  BY <1>3 DEF DecodeBin

\* A batch with one more input.
LEMMA OneMore ==
  ASSUME NEW s \in Seq(Inputs), NEW i \in Inputs
  PROVE  ToSet(Append(s, i)) = ToSet(s) \cup {i} /\ Append(s, i) \in Seq(Inputs)
         /\ ToSet(s) \subseteq Inputs
<1>1. DOMAIN Append(s, i) = 1 .. Len(s) + 1 /\ DOMAIN s = 1 .. Len(s) /\ Len(s) \in Nat
  OBVIOUS
<1>2. \A k \in 1 .. Len(s) + 1 : Append(s, i)[k] = IF k = Len(s) + 1 THEN i ELSE s[k]
  OBVIOUS
<1>3. Append(s, i) \in Seq(Inputs)
  OBVIOUS
<1>4. ToSet(Append(s, i)) = {Append(s, i)[k] : k \in 1 .. Len(s) + 1}
      /\ ToSet(s) = {s[k] : k \in 1 .. Len(s)}
  BY <1>1 DEF ToSet
<1>5. \A k \in 1 .. Len(s) : s[k] \in Inputs
  OBVIOUS
<1>6. ASSUME NEW x \in ToSet(Append(s, i))
      PROVE  x \in ToSet(s) \cup {i}
  <2>1. PICK k \in 1 .. Len(s) + 1 : x = Append(s, i)[k]
    BY <1>4
  <2>2. k # Len(s) + 1 => k \in 1 .. Len(s)
    BY <1>1
  <2> QED
    BY <1>2, <1>4, <2>1, <2>2
<1>7. i \in ToSet(Append(s, i))
  <2>1. Len(s) + 1 \in 1 .. Len(s) + 1
    BY <1>1
  <2>2. Append(s, i)[Len(s) + 1] = i
    BY <1>2, <2>1
  <2> QED
    BY <1>4, <2>1, <2>2
<1>8. ASSUME NEW x \in ToSet(s)
      PROVE  x \in ToSet(Append(s, i))
  <2>1. PICK k \in 1 .. Len(s) : x = s[k]
    BY <1>4
  <2>2. k \in 1 .. Len(s) + 1 /\ k # Len(s) + 1
    BY <1>1
  <2>3. Append(s, i)[k] = x
    BY <1>2, <2>1, <2>2
  <2> QED
    BY <1>4, <2>2, <2>3
<1> QED
  BY <1>3, <1>4, <1>5, <1>6, <1>7, <1>8

\* What a thread has in its batches are inputs of its own that it has taken,
\* and no other thread's.
LEMMA OwnInputs ==
  ASSUME ParamInv, TypeInv, NEW t \in Threads, NEW b \in Bins, ThreadDecodes(t),
         NEW j \in ToSet(batches[t][b])
  PROVE  /\ j \in Begin(t) .. End(t) - 1 /\ j \in Inputs /\ bin[j] = b /\ j < inIdx[t]
         /\ \A u \in Threads : u # t => j \notin Begin(u) .. End(u) - 1
<1>1. j \in Begin(t) .. inIdx[t] - 1 /\ bin[j] = b
  BY DEF ThreadDecodes, Placed
<1>2. /\ Begin(t) \in Nat /\ End(t) \in Nat /\ End(t) <= mNumItems /\ mNumItems \in Nat
      /\ inIdx[t] \in Begin(t) .. End(t)
      /\ \A u \in Threads : u \in Nat /\ Begin(u) \in Nat /\ End(u) \in Nat
      /\ \A u \in Threads : t < u => End(t) <= Begin(u)
      /\ \A u \in Threads : u < t => End(u) <= Begin(t)
  BY Ranges, Sizes DEF TypeInv
<1>3. j \in Begin(t) .. End(t) - 1 /\ j < inIdx[t]
  BY <1>1, <1>2
<1>4. j \in Inputs
  BY <1>2, <1>3 DEF Inputs
<1>5. ASSUME NEW u \in Threads, u # t
      PROVE  j \notin Begin(u) .. End(u) - 1
  BY <1>2, <1>3, <1>5
<1> QED
  BY <1>1, <1>3, <1>4, <1>5

\* A thread in one of implParDecode's places means that decode is under way.
LEMMA InDecode ==
  ASSUME IInv, NEW t \in Threads, tpc[t] = "batch"
  PROVE  main = "decode" /\ ParamInv /\ TypeInv /\ DecodeInv /\ t < started
<1>1. tpc[t] \in Labels(main) /\ tpc[t] # "none"
  BY DEF IInv, TypeInv
<1>2. main = "decode"
  BY <1>1 DEF Labels, Past
<1>3. t \in Nat /\ started \in Nat
  BY Sizes DEF IInv, TypeInv
<1>4. ParamInv /\ TypeInv /\ DecodeInv
  BY <1>2 DEF IInv
<1>5. t < started
  <2>1. t >= started => tpc[t] = "none"
    BY <1>2 DEF IInv, TypeInv
  <2> QED
    BY <1>1, <1>3, <2>1
<1> QED
  BY <1>2, <1>4, <1>5

\* An input is put into a batch, and decoded with the batch when it is full.
LEMMA CollectStep ==
  ASSUME IInv, NEW t \in Threads, Collect(t)
  PROVE  IInv'
<1> DEFINE i == inIdx[t]
           b == bin[i]
           batch == Append(batches[t][b], i)
           full == Len(batch) = decodeSize(t)
<1>1. /\ tpc[t] = "batch" /\ i < End(t)
      /\ values' = IF full THEN DecodeBin(batch) ELSE values
      /\ batches' = [batches EXCEPT ![t][b] = IF full THEN << >> ELSE batch]
      /\ inIdx' = [inIdx EXCEPT ![t] = @ + 1]
      /\ UNCHANGED <<params, main, started, tpc, sharedVars, numDone, hashingDone, binIdx,
                     thrd, binPos, output>>
  BY DEF Collect
<1>2. main = "decode" /\ ParamInv /\ TypeInv /\ DecodeInv
  BY <1>1, InDecode
<1>3. /\ ParamInv' /\ Threads' = Threads /\ Backing' = Backing
      /\ perThrdMaxBinSize' = perThrdMaxBinSize
      /\ combinedMaxBinSize' = combinedMaxBinSize /\ numThreads' = numThreads
      /\ \A u : Begin(u)' = Begin(u) /\ End(u)' = End(u)
      /\ \A c : Pairs(c)' = Pairs(c) /\ \A j : Right(j)' = Right(j)
      /\ bin' = bin
  BY <1>1, <1>2, ParamsKept DEF params
<1>4. /\ i \in Begin(t) .. End(t) - 1 /\ i \in Nat /\ i \in Inputs /\ b \in Bins
      /\ Begin(t) \in Nat /\ End(t) \in Nat /\ b \in Nat
  <2>1. /\ i \in Begin(t) .. End(t) /\ Begin(t) \in Nat /\ End(t) \in Nat /\ End(t) <= mNumItems
        /\ mNumItems \in Nat
    BY <1>2, Ranges, Sizes DEF TypeInv
  <2>2. i \in Inputs
    BY <1>1, <2>1 DEF Inputs
  <2>3. b \in Bins
    BY <1>2, <2>2 DEF ParamInv
  <2> QED
    BY <1>1, <2>1, <2>2, <2>3 DEF Bins
<1>5. ThreadDecodes(t) /\ binIdx[t] = 0
  BY <1>1, <1>2 DEF DecodeInv, ThreadDecodes
<1>6. /\ batches[t][b] \in Seq(Inputs)
      /\ ToSet(batch) = ToSet(batches[t][b]) \cup {i} /\ batch \in Seq(Inputs)
  <2>1. batches[t][b] \in Seq(Inputs)
    BY <1>2, <1>4 DEF TypeInv
  <2> QED
    BY <1>4, <2>1, OneMore
<1>7. ASSUME NEW j \in ToSet(batch)
      PROVE  /\ j \in Begin(t) .. End(t) - 1 /\ j \in Inputs /\ bin[j] = b /\ j <= i
             /\ \A u \in Threads : u # t => j \notin Begin(u) .. End(u) - 1
             /\ values[j] = Old
  <2>1. CASE j \in ToSet(batches[t][b])
    <3>1. /\ j \in Begin(t) .. End(t) - 1 /\ j \in Inputs /\ bin[j] = b /\ j < i
          /\ \A u \in Threads : u # t => j \notin Begin(u) .. End(u) - 1
      BY <1>2, <1>4, <1>5, <2>1, OwnInputs
    <3>2. Pending(t, j)
      BY <1>4, <1>5, <2>1, <3>1 DEF Pending
    <3>3. values[j] = Old
      BY <1>5, <3>1, <3>2 DEF ThreadDecodes
    <3> QED
      BY <1>4, <3>1, <3>3
  <2>2. CASE j = i
    <3>1. Pending(t, j)
      BY <1>4, <2>2 DEF Pending
    <3>2. values[j] = Old
      BY <1>4, <1>5, <2>2, <3>1 DEF ThreadDecodes
    <3>3. ASSUME NEW u \in Threads, u # t
          PROVE  i \notin Begin(u) .. End(u) - 1
      <4>1. /\ t \in Nat /\ u \in Nat /\ Begin(u) \in Nat /\ End(u) \in Nat
            /\ t < u => End(t) <= Begin(u)
            /\ u < t => End(u) <= Begin(t)
        BY <1>2, Ranges, Sizes
      <4> QED
        BY <1>4, <3>3, <4>1
    <3> QED
      BY <1>4, <2>2, <3>2, <3>3
  <2> QED
    BY <1>6, <2>1, <2>2
<1>8. /\ DOMAIN values' = Inputs
      /\ \A j \in Inputs :
           values'[j] = IF full /\ j \in ToSet(batch) THEN Right(j) ELSE values[j]
  <2>1. CASE full
    <3>1. /\ DOMAIN DecodeBin(batch) = Inputs
          /\ \A j \in Inputs :
               DecodeBin(batch)[j] = IF j \in ToSet(batch) THEN Right(j) ELSE values[j]
      BY <1>2, <1>4, <1>7, Decodes
    <3> QED
      BY <1>1, <2>1, <3>1
  <2>2. CASE ~ full
    BY <1>1, <1>2, <2>2 DEF TypeInv
  <2> QED
    BY <2>1, <2>2
<1> HIDE DEF i, b, batch, full
<1>9. /\ \A u \in Threads, c \in Bins :
           batches'[u][c] = IF u = t /\ c = b THEN (IF full THEN << >> ELSE batch)
                            ELSE batches[u][c]
      /\ batches' \in [Threads -> [Bins -> Seq(Inputs)]]
      /\ \A u \in Threads : inIdx'[u] = IF u = t THEN i + 1 ELSE inIdx[u]
      /\ inIdx[t] = i
  <2>1. batches \in [Threads -> [Bins -> Seq(Inputs)]] /\ inIdx \in [Threads -> Nat]
        /\ inIdx[t] = i
    BY <1>2 DEF TypeInv, i
  <2>2. << >> \in Seq(Inputs) /\ batch \in Seq(Inputs)
    BY <1>6
  <2> DEFINE new == IF full THEN << >> ELSE batch
  <2>3. new \in Seq(Inputs)
    BY <2>2
  <2>4. batches' = [batches EXCEPT ![t][b] = new]
    BY <1>1
  <2> HIDE DEF new
  <2>5. /\ \A u \in Threads, c \in Bins :
             batches'[u][c] = IF u = t /\ c = b THEN new ELSE batches[u][c]
        /\ batches' \in [Threads -> [Bins -> Seq(Inputs)]]
    BY <1>4, <2>1, <2>3, <2>4
  <2>6. \A u \in Threads : inIdx'[u] = IF u = t THEN i + 1 ELSE inIdx[u]
    BY <1>1, <2>1
  <2> QED
    BY <2>1, <2>5, <2>6 DEF new
<1>10. TypeInv'
  <2>1. inIdx' \in [Threads -> Nat] /\ \A u \in Threads : inIdx'[u] \in Begin(u) .. End(u)
    <3>1. i + 1 \in Begin(t) .. End(t) /\ i + 1 \in Nat
      BY <1>4
    <3> QED
      BY <1>1, <1>2, <1>9, <3>1 DEF TypeInv
  <2> QED
    BY <1>1, <1>2, <1>3, <1>8, <1>9, <2>1 DEF TypeInv, sharedVars, Labels
<1>11. ToSet(<< >>) = {}
  BY DEF ToSet
<1>12. ASSUME NEW u \in Threads, u # t
       PROVE  ThreadDecodes(u)'
  <2>1. ThreadDecodes(u)
    BY <1>2 DEF DecodeInv
  <2>2. /\ \A c : Placed(u, c)' = Placed(u, c)
        /\ inIdx'[u] = inIdx[u] /\ binIdx'[u] = binIdx[u] /\ tpc'[u] = tpc[u]
        /\ \A c \in Bins : batches'[u][c] = batches[u][c]
    BY <1>1, <1>3, <1>9, <1>12 DEF Placed
  <2>3. ASSUME NEW j \in Begin(u) .. End(u) - 1
        PROVE  values'[j] = IF Pending(u, j)' THEN Old ELSE Right(j)
    <3>1. j \in Inputs /\ bin[j] \in Bins
      <4>1. Begin(u) \in Nat /\ End(u) \in Nat /\ End(u) <= mNumItems /\ mNumItems \in Nat
        BY <1>2, Ranges, Sizes
      <4>2. j \in Inputs
        BY <4>1 DEF Inputs
      <4> QED
        BY <1>2, <4>2 DEF ParamInv
    <3>2. Pending(u, j)' <=> Pending(u, j)
      BY <1>3, <2>2, <3>1 DEF Pending
    <3>3. j \notin ToSet(batch)
      BY <1>7, <1>12
    <3>4. values'[j] = values[j]
      BY <1>8, <3>1, <3>3
    <3> QED
      BY <2>1, <3>2, <3>4 DEF ThreadDecodes
  <2> QED
    BY <1>3, <2>1, <2>2, <2>3 DEF ThreadDecodes
<1>13. \A c \in Bins : Placed(t, c) \subseteq Placed(t, c)'
       /\ (c = b => i \in Placed(t, c)')
  <2> SUFFICES ASSUME NEW c \in Bins
               PROVE  Placed(t, c) \subseteq Placed(t, c)' /\ (c = b => i \in Placed(t, c)')
    OBVIOUS
  <2>1. Placed(t, c)' = {j \in Begin(t) .. (i + 1) - 1 : bin[j] = c}
    BY <1>3, <1>9 DEF Placed
  <2>2. Begin(t) .. i - 1 \subseteq Begin(t) .. (i + 1) - 1 /\ i \in Begin(t) .. (i + 1) - 1
    BY <1>4
  <2>3. bin[i] = b
    BY DEF b
  <2> QED
    BY <1>9, <2>1, <2>2, <2>3 DEF Placed
<1>14. ThreadDecodes(t)'
  <2>1. binIdx'[t] = 0 /\ tpc'[t] = "batch" /\ mNumBins \in Nat \ {0}
    BY <1>1, <1>2, <1>5, Sizes
  <2>2. \A c \in Bins : ToSet(batches'[t][c]) \subseteq Placed(t, c)'
    <3> SUFFICES ASSUME NEW c \in Bins
                 PROVE  ToSet(batches'[t][c]) \subseteq Placed(t, c)'
      OBVIOUS
    <3>1. ToSet(batches[t][c]) \subseteq Placed(t, c)'
      BY <1>5, <1>13 DEF ThreadDecodes
    <3>2. CASE c = b
      BY <1>6, <1>9, <1>11, <1>13, <3>1, <3>2
    <3>3. CASE c # b
      BY <1>9, <3>1, <3>3
    <3> QED
      BY <3>2, <3>3
  <2>3. ASSUME NEW j \in Begin(t) .. End(t) - 1
        PROVE  values'[j] = IF Pending(t, j)' THEN Old ELSE Right(j)
    <3>1. j \in Inputs /\ bin[j] \in Bins /\ bin[j] \in Nat /\ j \in Nat
      <4>1. Begin(t) \in Nat /\ End(t) \in Nat /\ End(t) <= mNumItems /\ mNumItems \in Nat
        BY <1>2, Ranges, Sizes
      <4>2. j \in Inputs /\ j \in Nat
        BY <4>1 DEF Inputs
      <4> QED
        BY <1>2, <4>2 DEF ParamInv, Bins
    <3>2. Pending(t, j) <=> j >= i \/ j \in ToSet(batches[t][bin[j]])
      BY <1>5, <1>9, <3>1 DEF Pending
    <3>3. Pending(t, j)' <=> j >= i + 1 \/ j \in ToSet(batches'[t][bin[j]])
      BY <1>3, <1>9, <2>1, <3>1 DEF Pending
    <3>4. values[j] = IF Pending(t, j) THEN Old ELSE Right(j)
      BY <1>5 DEF ThreadDecodes
    <3>5. CASE j \in ToSet(batch)
      <4>1. bin[j] = b /\ j <= i /\ values[j] = Old
        BY <1>7, <3>5
      <4>2. ~ (j >= i + 1)
        BY <1>4, <3>1, <4>1
      <4>3. CASE full
        <5>1. ~ Pending(t, j)'
          BY <1>4, <1>9, <1>11, <3>3, <4>1, <4>2, <4>3
        <5> QED
          BY <1>8, <3>1, <3>5, <4>3, <5>1
      <4>4. CASE ~ full
        <5>1. Pending(t, j)'
          BY <1>4, <1>9, <3>3, <3>5, <4>1, <4>4
        <5> QED
          BY <1>8, <3>1, <4>1, <4>4, <5>1
      <4> QED
        BY <4>3, <4>4
    <3>6. CASE j \notin ToSet(batch)
      <4>1. j # i /\ (j >= i <=> j >= i + 1)
        BY <1>4, <1>6, <3>1, <3>6
      <4>2. j \in ToSet(batches'[t][bin[j]]) <=> j \in ToSet(batches[t][bin[j]])
        <5>1. CASE bin[j] = b
          BY <1>4, <1>6, <1>9, <1>11, <3>6, <5>1
        <5>2. CASE bin[j] # b
          BY <1>9, <3>1, <5>2
        <5> QED
          BY <5>1, <5>2
      <4>3. Pending(t, j)' <=> Pending(t, j)
        BY <3>2, <3>3, <4>1, <4>2
      <4> QED
        BY <1>8, <3>1, <3>4, <3>6, <4>3
    <3> QED
      BY <3>5, <3>6
  <2>4. 0 \in 0 .. mNumBins /\ 0 < mNumBins
    BY <2>1
  <2> QED
    BY <1>3, <2>1, <2>2, <2>3, <2>4 DEF ThreadDecodes
<1>15. DecodeInv'
  BY <1>1, <1>2, <1>3, <1>12, <1>14 DEF DecodeInv
<1> QED
  BY <1>1, <1>2, <1>3, <1>10, <1>15 DEF IInv

\* What is left in a batch at the end is decoded.
LEMMA FlushStep ==
  ASSUME IInv, NEW t \in Threads, Flush(t)
  PROVE  IInv'
<1> DEFINE b == binIdx[t]
           batch == batches[t][b]
<1>1. /\ tpc[t] = "batch" /\ inIdx[t] = End(t)
      /\ values' = DecodeBin(batch)
      /\ binIdx' = [binIdx EXCEPT ![t] = @ + 1]
      /\ tpc' = [tpc EXCEPT ![t] = IF binIdx'[t] = mNumBins THEN "decoded" ELSE "batch"]
      /\ UNCHANGED <<params, main, started, inIdx, sharedVars, numDone, hashingDone, thrd,
                     binPos, output, batches>>
  BY DEF Flush
<1>2. main = "decode" /\ ParamInv /\ TypeInv /\ DecodeInv /\ t < started
  BY <1>1, InDecode
<1>3. /\ ParamInv' /\ Threads' = Threads /\ Backing' = Backing
      /\ perThrdMaxBinSize' = perThrdMaxBinSize
      /\ combinedMaxBinSize' = combinedMaxBinSize /\ numThreads' = numThreads
      /\ \A u : Begin(u)' = Begin(u) /\ End(u)' = End(u)
      /\ \A c : Pairs(c)' = Pairs(c) /\ \A j : Right(j)' = Right(j)
      /\ bin' = bin
  BY <1>1, <1>2, ParamsKept DEF params
<1>4. /\ mNumBins \in Nat \ {0} /\ numThreads \in Nat \ {0} /\ b \in Nat /\ b < mNumBins
      /\ b \in Bins /\ Begin(t) \in Nat /\ End(t) \in Nat /\ t \in Nat /\ started \in Nat
      /\ End(t) <= mNumItems /\ mNumItems \in Nat
  <2>1. mNumBins \in Nat \ {0} /\ numThreads \in Nat \ {0} /\ t \in Nat
        /\ Begin(t) \in Nat /\ End(t) \in Nat /\ End(t) <= mNumItems /\ mNumItems \in Nat
    BY <1>2, Sizes, Ranges
  <2>2. b \in Nat /\ b < mNumBins
    BY <1>1, <1>2, <2>1 DEF DecodeInv, ThreadDecodes
  <2> QED
    BY <1>2, <2>1, <2>2 DEF Bins, TypeInv
<1>5. ThreadDecodes(t)
  BY <1>2 DEF DecodeInv
<1>6. ASSUME NEW j \in ToSet(batch)
      PROVE  /\ j \in Begin(t) .. End(t) - 1 /\ j \in Inputs /\ bin[j] = b
             /\ \A u \in Threads : u # t => j \notin Begin(u) .. End(u) - 1
             /\ values[j] = Old
  <2>1. /\ j \in Begin(t) .. End(t) - 1 /\ j \in Inputs /\ bin[j] = b
        /\ \A u \in Threads : u # t => j \notin Begin(u) .. End(u) - 1
    BY <1>2, <1>4, <1>5, OwnInputs
  <2>2. Pending(t, j)
    BY <1>4, <2>1 DEF Pending
  <2> QED
    BY <1>5, <2>1, <2>2 DEF ThreadDecodes
<1>7. /\ DOMAIN values' = Inputs
      /\ \A j \in Inputs : values'[j] = IF j \in ToSet(batch) THEN Right(j) ELSE values[j]
  <2>1. /\ DOMAIN DecodeBin(batch) = Inputs
        /\ \A j \in Inputs :
             DecodeBin(batch)[j] = IF j \in ToSet(batch) THEN Right(j) ELSE values[j]
    BY <1>2, <1>4, <1>6, Decodes
  <2> QED
    BY <1>1, <2>1
<1>8. batch = batches[t][b]
  OBVIOUS
<1> HIDE DEF b, batch
<1>9. /\ \A u \in Threads : u # t => binIdx'[u] = binIdx[u] /\ tpc'[u] = tpc[u]
      /\ binIdx'[t] = b + 1 /\ binIdx[t] = b
      /\ tpc'[t] = IF b + 1 = mNumBins THEN "decoded" ELSE "batch"
      /\ binIdx' \in [Threads -> 0 .. mNumBins + numThreads]
      /\ tpc' \in [Threads -> Labels(main)]
  <2>1. binIdx \in [Threads -> 0 .. mNumBins + numThreads] /\ tpc \in [Threads -> Labels(main)]
        /\ binIdx[t] = b
    BY <1>2 DEF TypeInv, b
  <2>2. b + 1 \in 0 .. mNumBins + numThreads
    BY <1>4
  <2>3. binIdx' \in [Threads -> 0 .. mNumBins + numThreads] /\ binIdx'[t] = b + 1
        /\ \A u \in Threads : u # t => binIdx'[u] = binIdx[u]
    BY <1>1, <2>1, <2>2
  <2> DEFINE l == IF binIdx'[t] = mNumBins THEN "decoded" ELSE "batch"
  <2>4. l \in Labels(main)
    BY <1>2 DEF Labels
  <2>5. tpc' = [tpc EXCEPT ![t] = l]
    BY <1>1
  <2> HIDE DEF l
  <2>6. tpc'[t] = l /\ tpc' \in [Threads -> Labels(main)]
        /\ \A u \in Threads : u # t => tpc'[u] = tpc[u]
    BY <2>1, <2>4, <2>5
  <2>7. l = IF b + 1 = mNumBins THEN "decoded" ELSE "batch"
    BY <2>3 DEF l
  <2> QED
    BY <2>1, <2>3, <2>6, <2>7
<1>10. TypeInv'
  <2>1. \A u \in Threads : main \in {"solve", "decode"} /\ u >= started => tpc'[u] = "none"
    BY <1>2, <1>4, <1>9 DEF TypeInv
  <2> QED
    BY <1>1, <1>2, <1>3, <1>7, <1>9, <2>1 DEF TypeInv, sharedVars, Labels
<1>11. \A u, c : Placed(u, c)' = Placed(u, c)
  BY <1>1, <1>3 DEF Placed
<1>12. ASSUME NEW u \in Threads, u # t
       PROVE  ThreadDecodes(u)'
  <2>1. ThreadDecodes(u)
    BY <1>2 DEF DecodeInv
  <2>2. ASSUME NEW j \in Begin(u) .. End(u) - 1
        PROVE  values'[j] = IF Pending(u, j)' THEN Old ELSE Right(j)
    <3>1. j \in Inputs
      <4>1. Begin(u) \in Nat /\ End(u) \in Nat /\ End(u) <= mNumItems /\ mNumItems \in Nat
        BY <1>2, Ranges, Sizes
      <4> QED
        BY <4>1 DEF Inputs
    <3>2. Pending(u, j)' <=> Pending(u, j)
      BY <1>1, <1>3, <1>9, <1>12 DEF Pending
    <3>3. values'[j] = values[j]
      BY <1>6, <1>7, <1>12, <3>1
    <3> QED
      BY <2>1, <3>2, <3>3 DEF ThreadDecodes
  <2> QED
    BY <1>1, <1>3, <1>9, <1>11, <1>12, <2>1, <2>2 DEF ThreadDecodes
<1>13. ThreadDecodes(t)'
  <2>1. /\ binIdx'[t] \in 0 .. mNumBins
        /\ tpc'[t] # "decoded" => binIdx'[t] < mNumBins
        /\ tpc'[t] = "decoded" => binIdx'[t] = mNumBins
        /\ inIdx'[t] = inIdx[t] /\ batches' = batches
    BY <1>1, <1>4, <1>9
  <2>2. ~ (inIdx[t] < End(t))
    BY <1>1, <1>4
  <2>3. ASSUME NEW j \in Begin(t) .. End(t) - 1
        PROVE  values'[j] = IF Pending(t, j)' THEN Old ELSE Right(j)
    <3>1. j \in Inputs /\ j \in Nat /\ bin[j] \in Nat /\ ~ (j >= inIdx[t])
      <4>1. j \in Inputs /\ j \in Nat /\ ~ (j >= inIdx[t])
        BY <1>1, <1>4 DEF Inputs
      <4>2. bin[j] \in Bins
        BY <1>2, <4>1 DEF ParamInv
      <4> QED
        BY <4>1, <4>2 DEF Bins
    <3>2. Pending(t, j) <=> j \in ToSet(batches[t][bin[j]]) /\ b <= bin[j]
      BY <1>9, <3>1 DEF Pending
    <3>3. Pending(t, j)' <=> j \in ToSet(batches[t][bin[j]]) /\ b + 1 <= bin[j]
      BY <1>3, <1>9, <2>1, <3>1 DEF Pending
    <3>4. values[j] = IF Pending(t, j) THEN Old ELSE Right(j)
      BY <1>5 DEF ThreadDecodes
    <3>5. CASE j \in ToSet(batch)
      <4>1. bin[j] = b
        BY <1>6, <3>5
      <4>2. ~ Pending(t, j)'
        BY <1>4, <3>3, <4>1
      <4> QED
        BY <1>7, <3>1, <3>5, <4>2
    <3>6. CASE j \notin ToSet(batch)
      <4>1. j \in ToSet(batches[t][bin[j]]) => bin[j] # b
        BY <1>8, <3>6
      <4>2. bin[j] # b => (b <= bin[j] <=> b + 1 <= bin[j])
        BY <1>4, <3>1
      <4>3. Pending(t, j)' <=> Pending(t, j)
        BY <3>2, <3>3, <4>1, <4>2
      <4> QED
        BY <1>7, <3>1, <3>4, <3>6, <4>3
    <3> QED
      BY <3>5, <3>6
  <2> QED
    BY <1>1, <1>3, <1>5, <1>11, <2>1, <2>2, <2>3 DEF ThreadDecodes
<1>14. DecodeInv'
  BY <1>1, <1>2, <1>3, <1>12, <1>13 DEF DecodeInv
<1> QED
  BY <1>1, <1>2, <1>3, <1>10, <1>14 DEF IInv

-----------------------------------------------------------------------------
(* The invariant and what it means. *)

\* The invariant holds at first: nothing is distributed, and no bin touched.
LEMMA InitIInv == Init => IInv
<1> SUFFICES ASSUME Init
             PROVE  IInv
  OBVIOUS
<1>1. ParamInv
  BY DEF Init, ParamInv
<1>2. /\ numThreads \in Nat \ {0} /\ mNumBins \in Nat \ {0} /\ perThrdMaxBinSize \in Nat \ {0}
      /\ combinedMaxBinSize \in Nat \ {0} /\ mNumItems \in Nat
      /\ \A t \in Threads : t \in Nat /\ t < numThreads
  BY <1>1, Sizes DEF Threads
<1>3. \A t \in Threads : Begin(t) \in Nat /\ End(t) \in Nat /\ Begin(t) <= End(t)
  BY <1>1, Ranges
<1>4. /\ main = "solve" /\ started = 0 /\ numDone = 0 /\ hashingDone = FALSE
      /\ tpc = [t \in Threads |-> "none"]
      /\ inIdx = [t \in Threads |-> Begin(t)]
      /\ thrdBinSizes = [t \in Threads |-> [b \in Bins |-> 0]]
      /\ hashBacking = [q \in Backing |-> None] /\ valBacking = [q \in Backing |-> None]
      /\ binIdx = [t \in Threads |-> t] /\ thrd = [t \in Threads |-> 0]
      /\ binPos = [t \in Threads |-> 0] /\ output = [b \in Bins |-> {}]
      /\ batches = [t \in Threads |-> [b \in Bins |-> << >>]]
      /\ values = [i \in Inputs |-> Old]
  BY DEF Init
<1>5. TypeInv
  <2>1. tpc \in [Threads -> Labels(main)] /\ \A u \in Threads : tpc[u] = "none"
    BY <1>4 DEF Labels
  <2>2. inIdx \in [Threads -> Nat] /\ \A u \in Threads : inIdx[u] \in Begin(u) .. End(u)
    BY <1>3, <1>4
  <2>3. thrdBinSizes \in [Threads -> [Bins -> 0 .. perThrdMaxBinSize]]
    BY <1>2, <1>4
  <2>4. /\ binIdx \in [Threads -> 0 .. mNumBins + numThreads]
        /\ thrd \in [Threads -> 0 .. numThreads]
        /\ binPos \in [Threads -> 0 .. combinedMaxBinSize]
        /\ started \in 0 .. numThreads /\ numDone \in 0 .. numThreads
    BY <1>2, <1>4
  <2>5. << >> \in Seq(Inputs)
    OBVIOUS
  <2>6. batches \in [Threads -> [Bins -> Seq(Inputs)]]
    BY <1>4, <2>5
  <2> QED
    BY <1>4, <2>1, <2>2, <2>3, <2>4, <2>6 DEF TypeInv
<1>6. \A u \in Threads, b \in Bins : Placed(u, b) = {} /\ CellsOf(u, b) = {}
                                      /\ thrdBinSizes[u][b] = 0
  <2> SUFFICES ASSUME NEW u \in Threads, NEW b \in Bins
               PROVE  Placed(u, b) = {} /\ CellsOf(u, b) = {} /\ thrdBinSizes[u][b] = 0
    OBVIOUS
  <2>1. inIdx[u] = Begin(u) /\ thrdBinSizes[u][b] = 0
    BY <1>4
  <2>2. Begin(u) .. Begin(u) - 1 = {} /\ 0 .. 0 - 1 = {}
    BY <1>3
  <2> QED
    BY <2>1, <2>2 DEF Placed, CellsOf
<1>7. BarrierInv
  <2>1. PastFill = {}
    BY <1>4 DEF PastFill, Past
  <2>2. Cardinality({}) = 0
    BY FS_EmptySet
  <2> QED
    BY <1>4, <2>1, <2>2 DEF BarrierInv, Past
<1>8. CountInv
  BY <1>6, FS_EmptySet DEF CountInv
<1>9. AreaInv
  BY <1>6 DEF AreaInv, Holds
<1>10. OwnerInv /\ MergeInv
  <2>1. \A t \in Threads : t % numThreads = t
    BY <1>2, SameOwner
  <2> QED
    BY <1>4, <2>1 DEF OwnerInv, MergeInv
<1>11. OutputInv
  <2> SUFFICES ASSUME NEW b \in Bins, binIdx[Owner(b)] > b
               PROVE  FALSE
    BY DEF OutputInv
  <2>1. Owner(b) \in Threads /\ b \in Nat
    BY <1>1, OwnerIsThread
  <2>2. Untouched(b)
    BY <1>1, <1>4, <1>5, <1>7, NoneTouched
  <2>3. binIdx[Owner(b)] = Owner(b) /\ Owner(b) \in Nat
    BY <1>2, <1>4, <2>1
  <2> QED
    BY <2>1, <2>2, <2>3 DEF Untouched
<1>12. Fresh
  BY <1>4 DEF Fresh
<1> QED
  BY <1>1, <1>4, <1>5, <1>7, <1>8, <1>9, <1>10, <1>11, <1>12 DEF IInv, SolveInv

\* A step that changes nothing keeps it.
LEMMA StutterIInv ==
  ASSUME IInv, UNCHANGED vars
  PROVE  IInv'
<1>1. ParamInv /\ TypeInv /\ UNCHANGED params
  BY DEF IInv, vars
<1>2. /\ ParamInv' /\ Threads' = Threads /\ Backing' = Backing
      /\ perThrdMaxBinSize' = perThrdMaxBinSize
      /\ combinedMaxBinSize' = combinedMaxBinSize /\ numThreads' = numThreads
      /\ \A u : Begin(u)' = Begin(u) /\ End(u)' = End(u)
      /\ \A c : Owner(c)' = Owner(c) /\ Pairs(c)' = Pairs(c)
      /\ \A j : Right(j)' = Right(j)
      /\ bin' = bin
  BY <1>1, ParamsKept DEF params
<1>3. /\ \A u, c : Placed(u, c)' = Placed(u, c)
      /\ \A u, c : Holds(u, c)' = Holds(u, c)
      /\ \A u : Merging(u)' = Merging(u)
  BY <1>1, AreasKept DEF vars
<1>4. TypeInv'
  BY <1>1, <1>2 DEF TypeInv, vars, sharedVars, decodeVars, Labels
<1>5. SolveInv => SolveInv'
  <2> SUFFICES ASSUME SolveInv
               PROVE  SolveInv'
    OBVIOUS
  <2>1. BarrierInv'
    <3>1. PastFill' = PastFill
      BY <1>2 DEF PastFill, vars
    <3> QED
      BY <1>2, <3>1 DEF SolveInv, BarrierInv, vars
  <2>2. CountInv'
    BY <1>2, <1>3 DEF SolveInv, CountInv, vars, sharedVars
  <2>3. AreaInv'
    <3>1. \A c : Untouched(c)' <=> Untouched(c)
      BY <1>2 DEF Untouched, vars
    <3> QED
      BY <1>2, <1>3, <3>1 DEF SolveInv, AreaInv
  <2>4. OwnerInv' /\ OutputInv'
    BY <1>2 DEF SolveInv, OwnerInv, OutputInv, vars
  <2>5. MergeInv'
    BY <1>2, <1>3 DEF SolveInv, MergeInv, vars
  <2>6. Fresh'
    BY <1>2 DEF SolveInv, Fresh, vars, decodeVars
  <2> QED
    BY <2>1, <2>2, <2>3, <2>4, <2>5, <2>6 DEF SolveInv
<1>6. DecodeInv => DecodeInv'
  <2> SUFFICES ASSUME DecodeInv
               PROVE  DecodeInv'
    OBVIOUS
  <2>1. ASSUME NEW u \in Threads
        PROVE  ThreadDecodes(u)'
    <3>1. ThreadDecodes(u)
      BY DEF DecodeInv
    <3>2. \A j : Pending(u, j)' <=> Pending(u, j)
      BY <1>2 DEF Pending, vars, decodeVars
    <3> QED
      BY <1>2, <1>3, <3>1, <3>2 DEF ThreadDecodes, vars, decodeVars
  <2> QED
    BY <1>2, <2>1 DEF DecodeInv, vars
<1>7. main' = main
  BY DEF vars
<1> QED
  BY <1>2, <1>4, <1>5, <1>6, <1>7 DEF IInv

\* Every step of the caller and of a thread keeps it.
LEMMA NextIInv ==
  ASSUME IInv, [Next]_vars
  PROVE  IInv'
<1>1. CASE Start
  BY <1>1, StartStep
<1>2. CASE SolveJoin
  BY <1>2, SolveJoinStep
<1>3. CASE DecodeJoin
  BY <1>3, DecodeJoinStep
<1>4. ASSUME NEW t \in Threads, SolveStep(t)
      PROVE  IInv'
  <2>1. CASE Fill(t)
    BY <2>1, FillStep
  <2>2. CASE FillEnd(t)
    BY <2>2, FillEndStep
  <2>3. CASE Barrier(t) \/ BinsEnd(t)
    BY <2>3, BarrierStep
  <2>4. CASE BinTooLarge(t) \/ EncodeThrows(t)
    <3>1. Throws(t)
      BY <2>4 DEF BinTooLarge, EncodeThrows
    <3> QED
      BY <3>1, ThrowStep
  <2>5. CASE BinStart(t)
    BY <2>5, BinStartStep
  <2>6. CASE Merge(t)
    BY <2>6, MergeStep
  <2>7. CASE Encode(t)
    BY <2>7, EncodeStep
  <2> QED
    BY <1>4, <2>1, <2>2, <2>3, <2>4, <2>5, <2>6, <2>7 DEF SolveStep
<1>5. ASSUME NEW t \in Threads, DecodeStep(t)
      PROVE  IInv'
  BY <1>5, CollectStep, FlushStep DEF DecodeStep
<1>6. CASE UNCHANGED vars
  BY <1>6, StutterIInv
<1> QED
  BY <1>1, <1>2, <1>3, <1>4, <1>5, <1>6 DEF Next

\* The invariant of the bins and threads holds in every state.
THEOREM Invariance == Spec => []IInv
BY InitIInv, NextIInv, PTL DEF Spec

\* The variables keep their types.
THEOREM TypesKept == Spec => []TypeOK
<1>1. IInv => TypeOK
  <2> SUFFICES ASSUME IInv
               PROVE  TypeOK
    OBVIOUS
  <2>1. Labels(main) \subseteq {"none", "fill", "barrier", "bins", "merge", "end", "batch",
                               "decoded"}
    BY DEF Labels, Past
  <2>2. tpc \in [Threads -> {"none", "fill", "barrier", "bins", "merge", "end", "batch",
                             "decoded"}]
    BY <2>1 DEF IInv, TypeInv
  <2> QED
    BY <2>2 DEF IInv, TypeInv, TypeOK
<1> QED
  BY <1>1, Invariance, PTL

\* No thread comes to a bin before all threads have distributed their inputs.
FilledFirst ==
  (\E t \in Threads : tpc[t] \in {"bins", "merge", "end"}) =>
    \A u \in Threads : inIdx[u] = End(u)

\* The promise is kept: a thread that comes to its bins finds all inputs in
\* the areas, whatever the threads and the order they count themselves in.
THEOREM BarrierHolds == Spec => []FilledFirst
<1>1. IInv => FilledFirst
  <2> SUFFICES ASSUME IInv, NEW t \in Threads, tpc[t] \in {"bins", "merge", "end"},
                      NEW u \in Threads
               PROVE  inIdx[u] = End(u)
    BY DEF FilledFirst
  <2>1. ParamInv /\ BarrierInv
    BY InSolve DEF IInv, SolveInv
  <2>2. hashingDone
    BY <2>1 DEF BarrierInv
  <2> QED
    BY <2>1, <2>2, AllPast DEF BarrierInv
<1> QED
  BY <1>1, Invariance, PTL

\* Wherever a merge is, the bin is complete: no input of it is missing, and
\* none was written over.
THEOREM MergedWhole == Spec => []BinsComplete
<1>1. IInv => BinsComplete
  <2> SUFFICES ASSUME IInv, NEW t \in Threads, tpc[t] = "merge"
               PROVE  LET b == binIdx[t]
                          left == UNION {{Area(u, b) + k : k \in 0 .. thrdBinSizes[u][b] - 1} :
                                           u \in thrd[t] .. numThreads - 1}
                      IN  /\ {hashBacking[q] : q \in MovedCells(t) \cup left} = InBin(b)
                          /\ \A q \in MovedCells(t) \cup left : valBacking[q] = hashBacking[q]
    BY DEF BinsComplete, MovedCells
  <2> DEFINE b == binIdx[t]
             later == thrd[t] .. numThreads - 1
             left == UNION {CellsOf(u, b) : u \in later}
  <2>1. ParamInv /\ TypeInv /\ SolveInv
    BY InSolve DEF IInv
  <2>2. Merging(t) /\ hashingDone
    BY <2>1 DEF SolveInv, MergeInv, BarrierInv
  <2>3. /\ b \in Bins
        /\ \A u : u \in later <=> u \in Threads /\ u >= thrd[t]
        /\ \A u \in Threads : u < thrd[t] \/ u >= thrd[t]
    <3>1. b < mNumBins
      BY <2>1 DEF SolveInv, OwnerInv
    <3>2. b \in Bins
      BY <2>1, <3>1, SizeAssumption DEF TypeInv, Bins
    <3>3. numThreads \in Nat /\ thrd[t] \in 1 .. numThreads
      BY <2>1, <2>2, Sizes DEF Merging
    <3> QED
      BY <3>2, <3>3 DEF Threads
  <2>4. \A q \in MovedCells(t) : hashBacking[q] \in InBin(b) /\ valBacking[q] = hashBacking[q]
    BY <2>2 DEF Merging
  <2>5. ASSUME NEW q \in left
        PROVE  hashBacking[q] \in InBin(b) /\ valBacking[q] = hashBacking[q]
    <3>1. PICK u \in later : q \in CellsOf(u, b)
      OBVIOUS
    <3>2. u \in Threads /\ Holds(u, b)
      BY <2>2, <2>3 DEF Merging
    <3>3. Placed(u, b) \subseteq InBin(b)
      BY <2>1, <2>3, <3>2, PlacedInBin
    <3> QED
      BY <3>1, <3>2, <3>3 DEF Holds
  <2>6. ASSUME NEW i \in InBin(b)
        PROVE  \E q \in MovedCells(t) \cup left : hashBacking[q] = i
    <3>1. i \in Inputs /\ bin[i] = b
      BY DEF InBin
    <3>2. PICK u \in Threads : i \in Begin(u) .. End(u) - 1
      BY <2>1, <3>1, EveryInput
    <3>3. i \in Placed(u, b)
      BY <2>1, <2>2, <3>1, <3>2, AllPast DEF SolveInv, BarrierInv, Placed
    <3>4. CASE u < thrd[t]
      BY <2>2, <3>3, <3>4 DEF Merging
    <3>5. CASE u >= thrd[t]
      <4>1. Holds(u, b) /\ u \in later
        BY <2>2, <2>3, <3>5 DEF Merging
      <4>2. PICK q \in CellsOf(u, b) : hashBacking[q] = i
        BY <3>3, <4>1 DEF Holds
      <4> QED
        BY <4>1, <4>2
    <3> QED
      BY <2>3, <3>4, <3>5
  <2>7. left = UNION {{Area(u, b) + k : k \in 0 .. thrdBinSizes[u][b] - 1} : u \in later}
    BY DEF CellsOf
  <2>8. {hashBacking[q] : q \in MovedCells(t) \cup left} = InBin(b)
    <3> HIDE DEF left, b
    <3> QED
      BY <2>4, <2>5, <2>6
  <2>9. \A q \in MovedCells(t) \cup left : valBacking[q] = hashBacking[q]
    BY <2>4, <2>5
  <2> QED
    BY <2>7, <2>8, <2>9
<1> QED
  BY <1>1, Invariance, PTL

\* Every input is decoded once and right, whatever bins and batches the
\* inputs fall into and however the threads interleave.
THEOREM DecodesRight == Spec => []DecodedOnce
<1>1. IInv => DecodedOnce
  <2> SUFFICES ASSUME IInv, main = "returned", NEW i \in Inputs
               PROVE  values[i] = Right(i)
    BY DEF DecodedOnce, Right
  <2>1. ParamInv /\ TypeInv /\ DecodeInv
    BY DEF IInv
  <2>2. PICK t \in Threads : i \in Begin(t) .. End(t) - 1
    BY <2>1, EveryInput
  <2>3. tpc[t] = "decoded"
    BY <2>1 DEF TypeInv, Labels
  <2>4. ThreadDecodes(t) /\ binIdx[t] = mNumBins /\ inIdx[t] = End(t)
    BY <2>1, <2>3 DEF DecodeInv, ThreadDecodes
  <2>5. ~ Pending(t, i)
    <3>1. bin[i] \in Bins /\ mNumBins \in Nat /\ Begin(t) \in Nat /\ End(t) \in Nat
      BY <2>1, Sizes, Ranges DEF ParamInv
    <3>2. ~ (i >= inIdx[t]) /\ ~ (binIdx[t] <= bin[i])
      BY <2>2, <2>4, <3>1 DEF Bins
    <3> QED
      BY <3>2 DEF Pending
  <2> QED
    BY <2>2, <2>4, <2>5 DEF ThreadDecodes
<1> QED
  BY <1>1, Invariance, PTL
=============================================================================
