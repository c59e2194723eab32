------------------------- MODULE PaxosDecodeProofs -------------------------
(***************************************************************************)
(* Proofs about what encode returns, for every matrix, every choice of     *)
(* columns and every invertible choice of dense columns: where triangulate *)
(* puts the rows, what getFCInv cancels, what backfill gives the dense     *)
(* columns, and with these that every item decodes to its value and that   *)
(* duplicate keys are refused.                                             *)
(*                                                                         *)
(* XOR is parity, and three facts about parities carry the argument: the   *)
(* XOR of rows decodes to the XOR of what the rows decode to (both are the *)
(* parity of the same marks, counted by rows or by columns); as many sums  *)
(* of gap rows as sets of columns means that different sums have different *)
(* columns; and a row that lacks the columns taken before its own never    *)
(* brings one back.                                                        *)
(***************************************************************************)
EXTENDS PaxosProofs

-----------------------------------------------------------------------------
(* Induction, and rows in ascending order. *)

\* Induction on a finite set: a property G that a set has when the sets inside it
\* have it.
LEMMA SetInduction ==
  ASSUME NEW T, IsFiniteSet(T), NEW G,
         \A U \in SUBSET T : (\A V \in SUBSET U : V # U => V \in G) => U \in G
  PROVE  T \in G
<1> DEFINE Sizes == {n \in Nat : \E U \in SUBSET T : Cardinality(U) = n /\ U \notin G}
<1> SUFFICES ASSUME T \notin G PROVE FALSE
  OBVIOUS
<1>1. Cardinality(T) \in Sizes
  BY FS_CardinalityType
<1>2. Min(Sizes) \in Sizes /\ \A n \in Sizes : Min(Sizes) <= n
  BY <1>1, LeastNatural
<1>3. PICK U \in SUBSET T : Cardinality(U) = Min(Sizes) /\ U \notin G
  BY <1>2
<1>4. IsFiniteSet(U)
  BY FS_Subset
<1>5. \A V \in SUBSET U : V # U => V \in G
  <2> SUFFICES ASSUME NEW V \in SUBSET U, V # U, V \notin G PROVE FALSE
    OBVIOUS
  <2>1. /\ IsFiniteSet(V) /\ Cardinality(V) <= Cardinality(U)
        /\ Cardinality(U) # Cardinality(V)
    BY <1>4, FS_Subset
  <2>2. Cardinality(V) \in Nat /\ Cardinality(U) \in Nat
    BY <1>4, <2>1, FS_CardinalityType
  <2>3. V \in SUBSET T
    OBVIOUS
  <2>4. Cardinality(V) \in Sizes
    BY <2>2, <2>3
  <2>5. Min(Sizes) <= Cardinality(V)
    BY <1>2, <2>4
  <2> HIDE DEF Sizes
  <2>6. QED
    BY <1>3, <2>1, <2>2, <2>5
<1>6. QED
  BY <1>3, <1>5

\* The rows of a set can be put in ascending order, and then each is there once.
LEMMA AscendingExists ==
  ASSUME NEW R \in SUBSET Nat, IsFiniteSet(R)
  PROVE  \E s \in [1 .. Cardinality(R) -> R] : \A j, k \in DOMAIN s : j < k => s[j] < s[k]
<1> DEFINE Sorted(U) == \E s \in [1 .. Cardinality(U) -> U] :
                          \A j, k \in 1 .. Cardinality(U) : j < k => s[j] < s[k]
           G == {U \in SUBSET R : Sorted(U)}
<1>1. ASSUME NEW U \in SUBSET R, \A V \in SUBSET U : V # U => V \in G
      PROVE  U \in G
  <2>1. IsFiniteSet(U)
    BY FS_Subset
  <2>2. CASE U = {}
    <3>1. Cardinality(U) = 0
      BY <2>2, FS_EmptySet
    <3> DEFINE s == [k \in 1 .. Cardinality(U) |-> k]
    <3>2. 1 .. Cardinality(U) = {}
      BY <3>1
    <3>3. s \in [1 .. Cardinality(U) -> U]
      BY <3>2
    <3>4. \A j, k \in 1 .. Cardinality(U) : j < k => s[j] < s[k]
      BY <3>2
    <3>5. QED
      BY <3>3, <3>4
  <2>3. CASE U # {}
    <3> DEFINE least == Min(U)
               V == U \ {least}
    <3>1. least \in U /\ \A y \in U : least <= y
      BY <2>3, LeastNatural
    <3>2. IsFiniteSet(V) /\ Cardinality(V) = Cardinality(U) - 1
      BY <2>1, <3>1, FS_RemoveElement
    <3>3. Cardinality(V) \in Nat /\ Cardinality(U) \in Nat
      BY <2>1, <3>2, FS_CardinalityType
    <3>4. V \in SUBSET U /\ V # U
      BY <3>1
    <3>5. Sorted(V)
      BY <1>1, <3>4
    <3>6. PICK t \in [1 .. Cardinality(V) -> V] :
            \A j, k \in 1 .. Cardinality(V) : j < k => t[j] < t[k]
      BY <3>5
    <3>8. least \in U /\ least \in Nat /\ U \subseteq Nat
      BY <3>1
    <3>7. \A v \in V : v \in U /\ v \in Nat /\ least < v
      <4> HIDE DEF least
      <4> SUFFICES ASSUME NEW v \in V PROVE v \in U /\ v \in Nat /\ least < v
        OBVIOUS
      <4>1. v \in U /\ v # least /\ v \in Nat
        BY <3>8
      <4>2. least <= v
        BY <3>1, <4>1
      <4>3. QED
        BY <3>8, <4>1, <4>2
    <3> HIDE DEF least, V, G
    <3> DEFINE n == Cardinality(U)
               s == [k \in 1 .. n |-> IF k = 1 THEN least ELSE t[k - 1]]
    <3>9. \A k \in 1 .. n : k # 1 => k - 1 \in 1 .. Cardinality(V) /\ t[k - 1] \in V
      BY <3>2, <3>3
    <3>10. s \in [1 .. n -> U]
      BY <3>7, <3>8, <3>9
    <3>11. \A j, k \in 1 .. n : j < k => s[j] < s[k]
      <4> SUFFICES ASSUME NEW j \in 1 .. n, NEW k \in 1 .. n, j < k PROVE s[j] < s[k]
        OBVIOUS
      <4>1. k # 1 /\ s[k] = t[k - 1] /\ t[k - 1] \in V
        BY <3>9
      <4>2. CASE j = 1
        BY <3>7, <4>1, <4>2
      <4>3. CASE j # 1
        <5>1. /\ s[j] = t[j - 1] /\ j - 1 \in 1 .. Cardinality(V) /\ k - 1 \in 1 .. Cardinality(V)
              /\ j - 1 < k - 1
          BY <3>9, <4>1, <4>3
        <5>2. QED
          BY <3>6, <4>1, <5>1
      <4>4. QED
        BY <4>2, <4>3
    <3> HIDE DEF s
    <3>12. Sorted(U)
      BY <3>10, <3>11
    <3>13. QED
      BY <3>12 DEF G
  <2>4. QED
    BY <2>2, <2>3
<1> HIDE DEF G
<1>2. R \in G
  BY <1>1, SetInduction
<1>3. QED
  BY <1>2 DEF G

LEMMA AscendingOnce ==
  ASSUME NEW R \in SUBSET Nat, IsFiniteSet(R)
  PROVE  /\ Ascending(R) \in [1 .. Cardinality(R) -> R]
         /\ Cardinality(R) \in Nat
         /\ \A j, k \in 1 .. Cardinality(R) : Ascending(R)[j] = Ascending(R)[k] => j = k
         /\ \A r \in R : \E k \in 1 .. Cardinality(R) : Ascending(R)[k] = r
<1> DEFINE n == Cardinality(R)
           s == Ascending(R)
<1>1. n \in Nat
  BY FS_CardinalityType
<1>2. s \in [1 .. n -> R] /\ \A j, k \in DOMAIN s : j < k => s[j] < s[k]
  BY AscendingExists DEF Ascending
<1>0. DOMAIN s = 1 .. n /\ \A k \in 1 .. n : s[k] \in R
  BY <1>2
<1>3. \A j, k \in 1 .. n : s[j] = s[k] => j = k
  <2> SUFFICES ASSUME NEW j \in 1 .. n, NEW k \in 1 .. n, s[j] = s[k], j # k PROVE FALSE
    OBVIOUS
  <2>1. s[j] \in R /\ s[k] \in R /\ j \in DOMAIN s /\ k \in DOMAIN s
    BY <1>0
  <2> HIDE DEF n, s
  <2>4. s[j] \in Nat /\ s[k] \in Nat
    BY <2>1
  <2>5. j < k \/ k < j
    BY <1>1
  <2>2. s[j] < s[k] \/ s[k] < s[j]
    BY <1>2, <2>1, <2>5
  <2>3. QED
    BY <2>4, <2>2
<1>4. s \in Injection(1 .. n, R)
  BY <1>2, <1>3 DEF Injection, IsInjective
<1>5. IsFiniteSet(1 .. n) /\ Cardinality(1 .. n) = n
  BY <1>1, FS_Interval
<1>6. s \in Surjection(1 .. n, R)
  BY <1>4, <1>5, FS_Injection
<1>7. \A r \in R : \E k \in 1 .. n : s[k] = r
  BY <1>6 DEF Surjection, Range
<1>8. QED
  BY <1>1, <1>2, <1>3, <1>7

-----------------------------------------------------------------------------
(* Where the rows are. *)

\* The rows a step of triangulate sends to the gap, with the names of its LET.
Extra(c) ==
  LET new  == NewRows(c)
      same == {r \in new \ {Min(new)} : mDense[r] = mDense[Min(new)]}
  IN Placed(c) \ (same \cup {Min(new)})

\* A row of the gap is there because of the main row at k: that is where the first
\* of its columns was taken, and its hash is another.
Collides(gap, k) ==
  /\ main[k].row = gap.main /\ main[k].col \in mRows[gap.row]
  /\ \A j \in 1 .. k - 1 : main[j].col \notin mRows[gap.row]
  /\ mDense[gap.row] # mDense[gap.main]

\* The rows placed are the main rows and those of the gap, each once, as long as
\* triangulate has not thrown.
PInv ==
  /\ gapRows \in Seq([row : Items, main : Items])
  /\ \A j, k \in DOMAIN main : main[j].row = main[k].row => j = k
  /\ \A j, k \in DOMAIN gapRows : gapRows[j].row = gapRows[k].row => j = k
  /\ \A j \in DOMAIN main : main[j].row \in rowSet
  /\ \A j \in DOMAIN gapRows : gapRows[j].row \in rowSet
  /\ \A j \in DOMAIN main : \A k \in DOMAIN gapRows : main[j].row # gapRows[k].row
  /\ pc # "error" => \A i \in rowSet : \/ \E k \in DOMAIN main : main[k].row = i
                                       \/ \E k \in DOMAIN gapRows : gapRows[k].row = i
  /\ \A j \in DOMAIN gapRows : \E k \in DOMAIN main : Collides(gapRows[j], k)

LEMMA AppendRows ==
  ASSUME NEW T, NEW s \in Seq(T), NEW n \in Nat, NEW f \in [1 .. n -> T]
  PROVE  /\ s \o f \in Seq(T) /\ Len(s) \in Nat /\ Len(s \o f) = Len(s) + n
         /\ DOMAIN (s \o f) = 1 .. Len(s) + n /\ DOMAIN s = 1 .. Len(s)
         /\ \A k \in 1 .. Len(s) : (s \o f)[k] = s[k]
         /\ \A k \in 1 .. n : (s \o f)[Len(s) + k] = f[k]
<1>1. f \in Seq(T) /\ Len(f) = n /\ Len(s) \in Nat
  OBVIOUS
<1>2. s \o f \in Seq(T) /\ Len(s \o f) = Len(s) + Len(f)
  BY <1>1
<1>3. DOMAIN (s \o f) = 1 .. Len(s) + n /\ DOMAIN s = 1 .. Len(s)
  BY <1>1, <1>2
<1>4. \A k \in 1 .. Len(s) : (s \o f)[k] = s[k]
  BY <1>1
<1>5. \A k \in 1 .. n : (s \o f)[Len(s) + k] = f[k]
  BY <1>1
<1>6. QED
  BY <1>1, <1>2, <1>3, <1>4, <1>5

\* A step of triangulate appends its rows to the gap, each once.
LEMMA ExtraStep ==
  ASSUME Inv, NEW c, Triangulate(c), gapRows \in Seq([row : Items, main : Items])
  PROVE  \E n \in Nat :
           /\ gapRows' \in Seq([row : Items, main : Items])
           /\ Len(gapRows) \in Nat /\ DOMAIN gapRows = 1 .. Len(gapRows)
           /\ DOMAIN gapRows' = 1 .. Len(gapRows) + n
           /\ \A k \in 1 .. Len(gapRows) : gapRows'[k] = gapRows[k]
           /\ \A k \in 1 .. n : /\ gapRows'[Len(gapRows) + k].row \in Extra(c)
                                /\ gapRows'[Len(gapRows) + k].main = Min(NewRows(c))
           /\ \A j, k \in 1 .. n :
                gapRows'[Len(gapRows) + j].row = gapRows'[Len(gapRows) + k].row => j = k
           /\ \A r \in Extra(c) : \E k \in 1 .. n : gapRows'[Len(gapRows) + k].row = r
<1> DEFINE E == Extra(c)
           s == Ascending(E)
           n == Cardinality(E)
           row == Min(NewRows(c))
           f == [k \in DOMAIN s |-> [row |-> s[k], main |-> row]]
<1>1. gapRows' = gapRows \o f
  BY DEF Triangulate, Extra, Placed
<1>2. NewRows(c) \subseteq Items /\ row \in NewRows(c) /\ Placed(c) \subseteq NewRows(c)
  BY TriangulateStep, FirstRow DEF Inv
<1>3. E \subseteq NewRows(c) /\ E \subseteq Items
  BY <1>2 DEF Extra
<1>4. IsFiniteSet(E) /\ E \in SUBSET Nat
  <2>1. IsFiniteSet(Items) /\ Items \subseteq Nat
    BY FS_Interval, SizeAssumption DEF Items
  <2>2. QED
    BY <1>3, <2>1, FS_Subset
<1> HIDE DEF E
<1>5. /\ s \in [1 .. n -> E] /\ n \in Nat
      /\ \A j, k \in 1 .. n : s[j] = s[k] => j = k
      /\ \A r \in E : \E k \in 1 .. n : s[k] = r
  BY <1>4, AscendingOnce
<1> HIDE DEF s, n
<1>6. f \in [1 .. n -> [row : Items, main : Items]]
  <2>1. \A k \in 1 .. n : s[k] \in Items
    BY <1>3, <1>5
  <2>2. row \in Items /\ DOMAIN s = 1 .. n
    BY <1>2, <1>5
  <2> HIDE DEF row
  <2>3. QED
    BY <2>1, <2>2
<1>7. \A k \in 1 .. n : f[k].row = s[k] /\ f[k].main = row /\ s[k] \in E
  BY <1>5
<1> HIDE DEF f
<1> HIDE DEF row
<1>8. /\ gapRows' \in Seq([row : Items, main : Items])
      /\ Len(gapRows) \in Nat /\ DOMAIN gapRows = 1 .. Len(gapRows)
      /\ DOMAIN gapRows' = 1 .. Len(gapRows) + n
      /\ \A k \in 1 .. Len(gapRows) : gapRows'[k] = gapRows[k]
      /\ \A k \in 1 .. n : gapRows'[Len(gapRows) + k] = f[k]
  <2> DEFINE T == [row : Items, main : Items]
  <2>1. gapRows \in Seq(T) /\ n \in Nat /\ f \in [1 .. n -> T]
    BY <1>5, <1>6
  <2> HIDE DEF T
  <2>2. /\ gapRows \o f \in Seq(T)
        /\ Len(gapRows) \in Nat /\ DOMAIN gapRows = 1 .. Len(gapRows)
        /\ DOMAIN (gapRows \o f) = 1 .. Len(gapRows) + n
        /\ \A k \in 1 .. Len(gapRows) : (gapRows \o f)[k] = gapRows[k]
        /\ \A k \in 1 .. n : (gapRows \o f)[Len(gapRows) + k] = f[k]
    BY <2>1, AppendRows
  <2>3. QED
    BY <1>1, <2>2 DEF T
<1>10. \A k \in 1 .. n : /\ gapRows'[Len(gapRows) + k].row = s[k]
                         /\ gapRows'[Len(gapRows) + k].main = row
  BY <1>7, <1>8
<1>11. \A j, k \in 1 .. n :
                gapRows'[Len(gapRows) + j].row = gapRows'[Len(gapRows) + k].row => j = k
  <2> SUFFICES ASSUME NEW j \in 1 .. n, NEW k \in 1 .. n,
                      gapRows'[Len(gapRows) + j].row = gapRows'[Len(gapRows) + k].row
               PROVE  j = k
    OBVIOUS
  <2>1. s[j] = s[k]
    BY <1>10
  <2>2. QED
    BY <1>5, <2>1
<1>12. \A r \in E : \E k \in 1 .. n : gapRows'[Len(gapRows) + k].row = r
  <2> SUFFICES ASSUME NEW r \in E
               PROVE  \E k \in 1 .. n : gapRows'[Len(gapRows) + k].row = r
    OBVIOUS
  <2>1. PICK k \in 1 .. n : s[k] = r
    BY <1>5
  <2>2. gapRows'[Len(gapRows) + k].row = r
    BY <1>10, <2>1
  <2>3. QED
    BY <2>2
<1>13. \A k \in 1 .. n : s[k] \in E
  BY <1>5
<1> HIDE DEF E, row
<1> SUFFICES \E q \in Nat :
           /\ gapRows' \in Seq([row : Items, main : Items])
           /\ Len(gapRows) \in Nat /\ DOMAIN gapRows = 1 .. Len(gapRows)
           /\ DOMAIN gapRows' = 1 .. Len(gapRows) + q
           /\ \A k \in 1 .. Len(gapRows) : gapRows'[k] = gapRows[k]
           /\ \A k \in 1 .. q : /\ gapRows'[Len(gapRows) + k].row \in E
                                /\ gapRows'[Len(gapRows) + k].main = row
           /\ \A j, k \in 1 .. q :
                gapRows'[Len(gapRows) + j].row = gapRows'[Len(gapRows) + k].row => j = k
           /\ \A r \in E : \E k \in 1 .. q : gapRows'[Len(gapRows) + k].row = r
  BY DEF E, row
<1>14. n \in Nat
  BY <1>5
<1> WITNESS n \in Nat
<1>15. QED
  BY <1>8, <1>10, <1>11, <1>12, <1>13

LEMMA TriangulatePInv ==
  ASSUME Inv, PInv, NEW c, Triangulate(c)
  PROVE  PInv'
<1> DEFINE row == Min(NewRows(c))
           m == Len(main) + 1
           l == Len(gapRows)
<1>1. /\ NewRows(c) \subseteq Items /\ row \in NewRows(c) /\ Placed(c) \subseteq NewRows(c)
      /\ c \in SparseCols /\ row \in Items
  <2>1. TInv /\ WInv /\ c \in Left
    BY TriangulateStep DEF Inv
  <2>2. QED
    BY <2>1, FirstRow DEF Left, TInv
<1>2. /\ main' = Append(main, [row |-> row, col |-> c])
      /\ rowSet' = rowSet \cup Placed(c) /\ pc = "triangulate"
      /\ mRows' = mRows /\ mDense' = mDense
      /\ pc' = "triangulate" => Placed(c) = NewRows(c)
  BY TriangulateStep DEF Triangulate, matrix
<1>3. /\ DOMAIN main = 1 .. Len(main) /\ DOMAIN main' = 1 .. m /\ m = Len(main) + 1 /\ Len(main) \in Nat
      /\ \A k \in DOMAIN main : main'[k] = main[k]
      /\ main'[m] = [row |-> row, col |-> c]
  <2>1. /\ main \in Seq([row : Items, col : SparseCols])
        /\ [row |-> row, col |-> c] \in [row : Items, col : SparseCols]
    BY <1>1 DEF Inv, TInv
  <2>2. QED
    BY <1>2, <2>1, AppendEntry
<1>4. PICK n \in Nat :
        /\ gapRows' \in Seq([row : Items, main : Items])
        /\ l \in Nat /\ DOMAIN gapRows = 1 .. l
        /\ DOMAIN gapRows' = 1 .. l + n
        /\ \A k \in 1 .. l : gapRows'[k] = gapRows[k]
        /\ \A k \in 1 .. n : gapRows'[l + k].row \in Extra(c) /\ gapRows'[l + k].main = row
        /\ \A j, k \in 1 .. n : gapRows'[l + j].row = gapRows'[l + k].row => j = k
        /\ \A r \in Extra(c) : \E k \in 1 .. n : gapRows'[l + k].row = r
  BY ExtraStep DEF PInv
<1>5. \A r \in Extra(c) : r \in Placed(c) /\ r # row /\ mDense[r] # mDense[row]
  <2>1. \A r \in Extra(c) : r \in Placed(c) /\ r # row
                            /\ r \notin {q \in NewRows(c) \ {row} : mDense[q] = mDense[row]}
    BY DEF Extra
  <2>2. QED
    BY <1>1, <2>1
<1>6. row \in Placed(c)
  <2>1. CASE {r \in NewRows(c) \ {row} : mDense[r] = mDense[row]} = {}
    BY <1>1, <2>1 DEF Placed
  <2>2. CASE {r \in NewRows(c) \ {row} : mDense[r] = mDense[row]} # {}
    <3> DEFINE same == {r \in NewRows(c) \ {row} : mDense[r] = mDense[row]}
    <3>1. NewRows(c) \in SUBSET Nat /\ NewRows(c) # {}
      BY <1>1, SizeAssumption DEF Items
    <3>2. same \in SUBSET Nat
      BY <3>1
    <3>3. Min(same) \in same
      BY <2>2, <3>2, LeastNatural
    <3>4. \A r \in NewRows(c) : row <= r
      BY <3>1, LeastNatural
    <3>5. row <= Min(same)
      BY <3>3, <3>4
    <3>6. Placed(c) = {r \in NewRows(c) : r <= Min(same)}
      BY <2>2 DEF Placed
    <3>7. QED
      BY <1>1, <3>5, <3>6
  <2>3. QED
    BY <2>1, <2>2
<1>7. pc' # "error" => \A r \in Placed(c) : r = row \/ r \in Extra(c)
  <2>1. pc' # "error" => {r \in NewRows(c) \ {row} : mDense[r] = mDense[row]} = {}
    BY <1>2 DEF Triangulate
  <2>2. QED
    BY <2>1 DEF Extra
<1>8. \A r \in NewRows(c) : r \notin rowSet /\ c \in mRows[r]
  BY DEF NewRows, RowsOf
<1> HIDE DEF row, m, l
<1>9. \A k \in DOMAIN gapRows' : \/ k \in DOMAIN gapRows /\ gapRows'[k] = gapRows[k]
                                 \/ \E q \in 1 .. n : k = l + q
  <2> SUFFICES ASSUME NEW k \in 1 .. l + n
               PROVE  \/ k \in DOMAIN gapRows /\ gapRows'[k] = gapRows[k]
                      \/ \E q \in 1 .. n : k = l + q
    BY <1>4
  <2>1. CASE k <= l
    BY <1>4, <2>1
  <2>2. CASE k > l
    <3>1. k - l \in 1 .. n /\ k = l + (k - l)
      BY <1>4, <2>2
    <3>2. QED
      BY <3>1
  <2>3. QED
    BY <1>4, <2>1, <2>2
<1>10. \A k \in DOMAIN main' : (k \in DOMAIN main /\ main'[k] = main[k]) \/ k = m
  BY <1>3
<1>11. main'[m].row = row /\ main'[m].col = c /\ m \in DOMAIN main'
  BY <1>3
<1>12. \A j, k \in DOMAIN main' : main'[j].row = main'[k].row => j = k
  BY <1>1, <1>8, <1>10, <1>11 DEF PInv
<1>13. \A k \in DOMAIN gapRows' : \/ k \in DOMAIN gapRows /\ gapRows'[k] = gapRows[k]
                                  \/ gapRows'[k].row \in Extra(c)
  BY <1>4, <1>9
<1>14. \A r \in Extra(c) : r \in NewRows(c) /\ r \notin rowSet /\ r # row
  BY <1>1, <1>5, <1>8
<1>15. \A j, k \in DOMAIN gapRows' : gapRows'[j].row = gapRows'[k].row => j = k
  <2> SUFFICES ASSUME NEW j \in DOMAIN gapRows', NEW k \in DOMAIN gapRows',
                      gapRows'[j].row = gapRows'[k].row
               PROVE  j = k
    OBVIOUS
  <2>1. CASE j \in DOMAIN gapRows /\ gapRows'[j] = gapRows[j]
    <3>1. k \in DOMAIN gapRows /\ gapRows'[k] = gapRows[k]
      BY <1>13, <1>14, <2>1 DEF PInv
    <3>2. QED
      BY <2>1, <3>1 DEF PInv
  <2>2. CASE \E q \in 1 .. n : j = l + q
    <3>1. gapRows'[k].row \in Extra(c)
      BY <1>4, <2>2
    <3>2. \E q \in 1 .. n : k = l + q
      BY <1>9, <1>14, <3>1 DEF PInv
    <3>3. QED
      BY <1>4, <2>2, <3>2
  <2>3. QED
    BY <1>9, <2>1, <2>2
<1>16. \A j \in DOMAIN main' : main'[j].row \in rowSet'
  BY <1>2, <1>6, <1>10, <1>11 DEF PInv
<1>17. \A j \in DOMAIN gapRows' : gapRows'[j].row \in rowSet'
  BY <1>2, <1>5, <1>13 DEF PInv
<1>18. \A j \in DOMAIN main' : \A k \in DOMAIN gapRows' : main'[j].row # gapRows'[k].row
  BY <1>1, <1>8, <1>10, <1>11, <1>13, <1>14 DEF PInv
<1>19. ASSUME pc' # "error", NEW i \in rowSet'
       PROVE  \/ \E k \in DOMAIN main' : main'[k].row = i
              \/ \E k \in DOMAIN gapRows' : gapRows'[k].row = i
  <2>1. CASE i \in rowSet
    <3>1. DOMAIN main \subseteq DOMAIN main' /\ DOMAIN gapRows \subseteq DOMAIN gapRows'
      BY <1>3, <1>4
    <3>2. CASE \E k \in DOMAIN main : main[k].row = i
      BY <1>3, <3>1, <3>2
    <3>3. CASE \E k \in DOMAIN gapRows : gapRows[k].row = i
      BY <1>4, <3>1, <3>3
    <3>4. QED
      BY <1>2, <2>1, <3>2, <3>3 DEF PInv
  <2>2. CASE i = row
    BY <1>11, <2>2
  <2>3. CASE i \in Extra(c)
    <3>1. PICK q \in 1 .. n : gapRows'[l + q].row = i
      BY <1>4, <2>3
    <3>2. l + q \in DOMAIN gapRows'
      BY <1>4
    <3>3. QED
      BY <3>1, <3>2
  <2>4. QED
    BY <1>2, <1>7, <1>19, <2>1, <2>2, <2>3
<1>20. ASSUME NEW j \in DOMAIN gapRows'
       PROVE  \E k \in DOMAIN main' : Collides(gapRows[j], k)'
  <2>1. CASE j \in DOMAIN gapRows /\ gapRows'[j] = gapRows[j]
    <3>1. PICK k \in DOMAIN main : Collides(gapRows[j], k)
      BY <2>1 DEF PInv
    <3>2. k \in DOMAIN main' /\ main'[k] = main[k]
      BY <1>3
    <3>3. \A h \in 1 .. k - 1 : main'[h] = main[h]
      BY <1>3
    <3>4. QED
      BY <1>2, <2>1, <3>1, <3>2, <3>3 DEF Collides
  <2>2. CASE \E q \in 1 .. n : j = l + q
    <3>1. gapRows'[j].row \in Extra(c) /\ gapRows'[j].main = row
      BY <1>4, <2>2
    <3>2. c \in mRows[gapRows'[j].row] /\ gapRows'[j].row \notin rowSet
          /\ mDense[gapRows'[j].row] # mDense[row] /\ gapRows'[j].row \in Items
      BY <1>1, <1>5, <1>8, <1>14, <3>1
    <3>3. ASSUME NEW h \in 1 .. m - 1 PROVE main'[h].col \notin mRows[gapRows'[j].row]
      <4>1. h \in DOMAIN main /\ main'[h] = main[h]
        BY <1>3
      <4>2. RowsOf(main[h].col) \subseteq rowSet
        BY <1>2, <4>1 DEF Inv, MInv
      <4>3. QED
        BY <3>2, <4>1, <4>2 DEF RowsOf
    <3>4. QED
      BY <1>2, <1>11, <3>1, <3>2, <3>3 DEF Collides
  <2>3. QED
    BY <1>9, <2>1, <2>2
<1>21. QED
  BY <1>4, <1>12, <1>15, <1>16, <1>17, <1>18, <1>19, <1>20 DEF PInv

LEMMA OtherPInv ==
  ASSUME PInv,
         \/ RandomizeFree \/ FailGap \/ BackfillRow \/ Return \/ EncodeAgain
         \/ UNCHANGED vars \/ \E S \in SUBSET DenseCols : SolveGap(S)
  PROVE  PInv'
<1>1. CASE EncodeAgain
  <2>1. main' = <<>> /\ gapRows' = <<>> /\ rowSet' = {}
    BY <1>1 DEF EncodeAgain
  <2>2. QED
    BY <2>1 DEF PInv
<1>2. CASE ~ EncodeAgain
  <2>1. /\ UNCHANGED <<mRows, mDense, rowSet, main, gapRows>>
        /\ pc' # "error" => pc # "error"
    BY <1>2 DEF RandomizeFree, FailGap, BackfillRow, Return, SolveGap, vars, matrix
  <2>2. QED
    BY <2>1 DEF PInv, Collides
<1>3. QED
  BY <1>1, <1>2

THEOREM PInvHolds == Spec => []PInv
<1>1. Init => PInv
  BY DEF Init, PInv
<1>2. Inv /\ PInv /\ [Next]_vars => PInv'
  BY TriangulatePInv, OtherPInv DEF Next
<1>3. QED
  BY <1>1, <1>2, InvHolds, PTL DEF Spec

\* No row is lost and none is placed twice: when triangulate returns, every item is
\* a main row or a row of the gap, exactly once.
THEOREM EveryRowPlacedHolds ==
  ASSUME RetryFailed = FALSE
  PROVE  Spec => []EveryRowPlaced
<1>1. ASSUME TInv, PInv, EInv PROVE EveryRowPlaced
  <2> SUFFICES ASSUME pc \in {"gap", "solve", "done"}, NEW i \in Items
               PROVE  Cardinality({k \in DOMAIN main : main[k].row = i})
                      + Cardinality({k \in DOMAIN gapRows : gapRows[k].row = i}) = 1
    BY DEF EveryRowPlaced
  <2> DEFINE M == {k \in DOMAIN main : main[k].row = i}
             G == {k \in DOMAIN gapRows : gapRows[k].row = i}
  <2> SUFFICES Cardinality(M) + Cardinality(G) = 1
    OBVIOUS
  <2>1. i \in rowSet /\ pc # "error"
    BY <1>1 DEF EInv
  <2>2. CASE M # {}
    <3>1. PICK k \in M : TRUE
      BY <2>2
    <3>6. M = {k}
      BY <1>1, <3>1 DEF PInv
    <3>2. G = {}
      BY <1>1, <2>2 DEF PInv
    <3>3. Cardinality(M) = 1
      BY <3>6, FS_Singleton
    <3>4. Cardinality(G) = 0
      BY <3>2, FS_EmptySet
    <3> HIDE DEF M, G
    <3>5. QED
      BY <3>3, <3>4
  <2>3. CASE M = {}
    <3>1. G # {}
      BY <1>1, <2>1, <2>3 DEF PInv
    <3>2. PICK k \in G : TRUE
      BY <3>1
    <3>6. G = {k}
      BY <1>1, <3>2 DEF PInv
    <3>3. Cardinality(G) = 1
      BY <3>6, FS_Singleton
    <3>4. Cardinality(M) = 0
      BY <2>3, FS_EmptySet
    <3> HIDE DEF M, G
    <3>5. QED
      BY <3>3, <3>4
  <2>4. QED
    BY <2>2, <2>3
<1>2. Inv => TInv
  BY DEF Inv
<1>3. QED
  BY <1>1, <1>2, InvHolds, PInvHolds, EInvHolds, PTL

-----------------------------------------------------------------------------
(* Parities. *)

\* The parity of a symmetric difference is the XOR of the parities.
LEMMA OddSymDiff ==
  ASSUME NEW P, IsFiniteSet(P), NEW Q, IsFiniteSet(Q)
  PROVE  Odd(SymDiff(P, Q)) <=> ~ (Odd(P) <=> Odd(Q))
<1>1. IsFiniteSet(P \ Q) /\ Cardinality(P \ Q) = Cardinality(P) - Cardinality(P \cap Q)
  BY FS_Difference
<1>2. IsFiniteSet(Q \ P) /\ Cardinality(Q \ P) = Cardinality(Q) - Cardinality(Q \cap P)
  BY FS_Difference
<1>3. Q \cap P = P \cap Q /\ (P \ Q) \cap (Q \ P) = {}
  OBVIOUS
<1>4. Cardinality((P \ Q) \cup (Q \ P)) =
        Cardinality(P \ Q) + Cardinality(Q \ P) - Cardinality((P \ Q) \cap (Q \ P))
  BY <1>1, <1>2, FS_Union
<1>5. Cardinality((P \ Q) \cap (Q \ P)) = 0
  BY <1>3, FS_EmptySet
<1>6. /\ Cardinality(P \cap Q) \in Nat /\ Cardinality(P) \in Nat /\ Cardinality(Q) \in Nat
      /\ Cardinality(P \ Q) \in Nat /\ Cardinality(Q \ P) \in Nat
  BY <1>1, <1>2, FS_Intersection, FS_CardinalityType
<1>7. Cardinality(Q \cap P) = Cardinality(P \cap Q)
  BY <1>3
<1>8. Cardinality(SymDiff(P, Q)) = Cardinality(P) + Cardinality(Q) - 2 * Cardinality(P \cap Q)
  BY <1>1, <1>2, <1>4, <1>5, <1>6, <1>7 DEF SymDiff
<1>9. ASSUME NEW p \in Nat, NEW q \in Nat, NEW b \in Nat, NEW c \in Int, c = p + q - 2 * b
      PROVE  (c % 2 = 1) <=> ~ ((p % 2 = 1) <=> (q % 2 = 1))
  BY <1>9
<1>10. QED
  BY <1>6, <1>8, <1>9 DEF Odd

LEMMA OddEmpty == ~ Odd({})
  BY FS_EmptySet DEF Odd

LEMMA OddSingleton ==
  ASSUME NEW x
  PROVE  Odd({x})
<1>1. Cardinality({x}) = 1
  BY FS_Singleton
<1>2. QED
  BY <1>1 DEF Odd

\* Of a matrix with the ones R: the rows, and the columns, with an odd number of ones.
OddRows(T, A, R) == {t \in T : Odd({c \in A : <<t, c>> \in R})}
OddCols(T, A, R) == {c \in A : Odd({t \in T : <<t, c>> \in R})}

\* They are both odd in number or both even: each is the parity of all the ones.
LEMMA Interchange ==
  ASSUME NEW T, IsFiniteSet(T), NEW A, IsFiniteSet(A), NEW R
  PROVE  Odd(OddRows(T, A, R)) <=> Odd(OddCols(T, A, R))
<1> DEFINE OfRows(U) == {t \in U : Odd({c \in A : <<t, c>> \in R})}
           OfCols(U) == {c \in A : Odd({t \in U : <<t, c>> \in R})}
           G == {U \in SUBSET T : Odd(OfRows(U)) <=> Odd(OfCols(U))}
<1>1. ASSUME NEW U \in SUBSET T, \A V \in SUBSET U : V # U => V \in G
      PROVE  U \in G
  <2>1. CASE U = {}
    <3>1. OfRows(U) = {}
      BY <2>1
    <3>2. \A c : {t \in U : <<t, c>> \in R} = {}
      BY <2>1
    <3>3. OfCols(U) = {}
      BY <3>2, OddEmpty
    <3>4. QED
      BY <3>1, <3>3
  <2>2. CASE U # {}
    <3>1. PICK x \in U : TRUE
      BY <2>2
    <3> DEFINE V == U \ {x}
               Marks == {c \in A : <<x, c>> \in R}
    <3>2. V \in SUBSET U /\ V # U /\ V \in SUBSET T /\ x \notin V /\ U = V \cup {x}
      BY <3>1
    <3>3. Odd(OfRows(V)) <=> Odd(OfCols(V))
      BY <1>1, <3>2
    <3>4. IsFiniteSet(V)
      BY <3>2, FS_Subset
    <3>5. OfCols(V) \in SUBSET A /\ Marks \in SUBSET A /\ OfRows(V) \in SUBSET V
      OBVIOUS
    <3>6. IsFiniteSet(OfCols(V)) /\ IsFiniteSet(Marks) /\ IsFiniteSet(OfRows(V))
      BY <3>4, <3>5, FS_Subset
    <3>7. OfCols(U) = SymDiff(OfCols(V), Marks)
      <4>1. ASSUME NEW c \in A
            PROVE  c \in OfCols(U) <=> ~ (c \in OfCols(V) <=> c \in Marks)
        <5> DEFINE W == {t \in V : <<t, c>> \in R}
        <5>1. IsFiniteSet(W) /\ x \notin W
          <6>1. W \in SUBSET V
            OBVIOUS
          <6>2. QED
            BY <3>2, <3>4, <6>1, FS_Subset
        <5>2. CASE <<x, c>> \in R
          <6>1. {t \in U : <<t, c>> \in R} = W \cup {x}
            BY <3>2, <5>2
          <6>2. Odd(W \cup {x}) <=> ~ Odd(W)
            BY <5>1, OddToggle
          <6>3. QED
            BY <5>2, <6>1, <6>2
        <5>3. CASE <<x, c>> \notin R
          <6>1. {t \in U : <<t, c>> \in R} = W
            BY <3>2, <5>3
          <6>2. QED
            BY <5>3, <6>1
        <5>4. QED
          BY <5>2, <5>3
      <4>2. OfCols(U) \subseteq A
        OBVIOUS
      <4> HIDE DEF OfCols, Marks
      <4>3. QED
        BY <3>5, <4>1, <4>2 DEF SymDiff
    <3>8. Odd(OfCols(U)) <=> ~ (Odd(OfCols(V)) <=> Odd(Marks))
      <4> HIDE DEF OfCols, Marks, V
      <4>1. Odd(SymDiff(OfCols(V), Marks)) <=> ~ (Odd(OfCols(V)) <=> Odd(Marks))
        BY <3>6, OddSymDiff
      <4>2. QED
        BY <3>7, <4>1
    <3>9. Odd(OfRows(U)) <=> ~ (Odd(OfRows(V)) <=> Odd(Marks))
      <4>1. CASE Odd(Marks)
        <5>1. OfRows(U) = OfRows(V) \cup {x}
          BY <3>2, <4>1
        <5>2. x \notin OfRows(V)
          BY <3>2
        <5> HIDE DEF OfRows
        <5>3. Odd(OfRows(V) \cup {x}) <=> ~ Odd(OfRows(V))
          BY <3>6, <5>2, OddToggle
        <5>4. QED
          BY <4>1, <5>1, <5>3
      <4>2. CASE ~ Odd(Marks)
        <5>1. OfRows(U) = OfRows(V)
          BY <3>2, <4>2
        <5>2. QED
          BY <4>2, <5>1
      <4>3. QED
        BY <4>1, <4>2
    <3> HIDE DEF OfRows, OfCols, V, Marks
    <3>10. Odd(OfRows(U)) <=> Odd(OfCols(U))
      BY <3>3, <3>8, <3>9
    <3>11. QED
      BY <3>10
  <2>3. QED
    BY <2>1, <2>2
<1> HIDE DEF G
<1>2. T \in G
  BY <1>1, SetInduction
<1>3. QED
  BY <1>2 DEF G, OddRows, OddCols

\* The XOR of what the rows I give is the XOR over the columns that an odd number of
\* them have: combining rows and decoding commute.
LEMMA CombineRows ==
  ASSUME TInv, NEW I \in SUBSET Items, NEW a \in Atoms
  PROVE  Odd({i \in I : a \in Decode(i)})
           <=> a \in XorOver(output, {c \in Cols : Odd({i \in I : c \in Row(i)})})
<1> DEFINE R == {p \in I \X Cols : p[2] \in Row(p[1]) /\ a \in output[p[2]]}
<1>1. IsFiniteSet(I) /\ IsFiniteSet(Cols)
  <2>1. IsFiniteSet(Items) /\ IsFiniteSet(SparseCols) /\ IsFiniteSet(DenseCols)
    BY FS_Interval, SizeAssumption DEF Items, SparseCols, DenseCols
  <2>2. QED
    BY <2>1, FS_Subset, FS_Union DEF Cols
<1>2. \A i \in I : \A c \in Cols : <<i, c>> \in R <=> c \in Row(i) /\ a \in output[c]
  OBVIOUS
<1> HIDE DEF R
<1>3. {i \in I : a \in Decode(i)} = OddRows(I, Cols, R)
  <2>1. ASSUME NEW i \in I
        PROVE  {c \in Row(i) : a \in output[c]} = {c \in Cols : <<i, c>> \in R}
    <3>1. Row(i) \subseteq Cols
      BY RowFinite
    <3>2. QED
      BY <1>2, <3>1
  <2>2. \A i \in I : a \in Decode(i) <=> Odd({c \in Row(i) : a \in output[c]})
    BY DEF Decode, XorOver
  <2>3. QED
    BY <2>1, <2>2 DEF OddRows
<1>4. {c \in {d \in Cols : Odd({i \in I : d \in Row(i)})} : a \in output[c]}
        = OddCols(I, Cols, R)
  <2>1. ASSUME NEW c \in Cols, a \in output[c]
        PROVE  {i \in I : c \in Row(i)} = {i \in I : <<i, c>> \in R}
    BY <1>2, <2>1
  <2>2. ASSUME NEW c \in Cols, a \notin output[c]
        PROVE  ~ Odd({i \in I : <<i, c>> \in R})
    <3>1. {i \in I : <<i, c>> \in R} = {}
      BY <1>2, <2>2
    <3>2. QED
      BY <3>1, OddEmpty
  <2>3. QED
    BY <2>1, <2>2 DEF OddCols
<1>5. Odd(OddRows(I, Cols, R)) <=> Odd(OddCols(I, Cols, R))
  BY <1>1, Interchange
<1>6. \A S : a \in XorOver(output, S) <=> Odd({c \in S : a \in output[c]})
  BY DEF XorOver
<1>7. QED
  BY <1>3, <1>4, <1>5, <1>6

-----------------------------------------------------------------------------
(* The elimination of getFCInv. *)

\* What is left of a gap row in the main columns, as Eliminate computes it, and what
\* trying the main row at k makes of it.
Residue(gap) ==
  LET residue[k \in 0 .. Len(main)] ==
        IF k = 0 THEN mRows[gap.row] \cap MainCols
        ELSE IF main[k].col \in residue[k - 1]
             THEN SymDiff(residue[k - 1], mRows[main[k].row] \cap MainCols)
             ELSE residue[k - 1]
  IN residue
Tried(r, k) ==
  IF main[k].col \in r THEN SymDiff(r, mRows[main[k].row] \cap MainCols) ELSE r

\* Induction along 0 .. n, on a set of numbers.
LEMMA UpTo ==
  ASSUME NEW n \in Nat, NEW G, 0 \in G, \A k \in 1 .. n : k - 1 \in G => k \in G
  PROVE  \A k \in 0 .. n : k \in G
<1> DEFINE Bad == {k \in 0 .. n : k \notin G}
<1> SUFFICES ASSUME Bad # {} PROVE FALSE
  OBVIOUS
<1>1. Bad \in SUBSET Nat
  OBVIOUS
<1>2. Min(Bad) \in Bad /\ \A k \in Bad : Min(Bad) <= k
  BY <1>1, LeastNatural
<1> DEFINE k == Min(Bad)
<1>3. k \in 0 .. n /\ k \notin G
  BY <1>2
<1>4. k - 1 \in 0 .. n /\ k \in 1 .. n
  BY <1>3
<1>5. k - 1 \in Bad
  BY <1>3, <1>4
<1>6. k <= k - 1
  BY <1>2, <1>5
<1> HIDE DEF k
<1>7. QED
  BY <1>3, <1>6

LEMMA EliminateResidue ==
  ASSUME NEW gap
  PROVE  Eliminate(gap) =
           {main[k].row : k \in {j \in DOMAIN main : main[j].col \in Residue(gap)[j - 1]}}
  BY DEF Eliminate, Residue

\* The recursion of Eliminate has a solution, so that residue is one.
LEMMA ResidueSteps ==
  ASSUME TInv, NEW gap
  PROVE  /\ Residue(gap)[0] = mRows[gap.row] \cap MainCols
         /\ \A k \in DOMAIN main : Residue(gap)[k] = Tried(Residue(gap)[k - 1], k)
<1> DEFINE n == Len(main)
           start == mRows[gap.row] \cap MainCols
           Solves0(f, m) == /\ DOMAIN f = 0 .. m /\ f = [k \in 0 .. m |-> f[k]]
                            /\ f[0] = start
                            /\ \A k \in 1 .. m : f[k] = Tried(f[k - 1], k)
           G == {m \in 0 .. n : \E f : Solves0(f, m)}
<1>1. n \in Nat /\ DOMAIN main = 1 .. n
  BY MainEntries
<1>2. \A m \in 0 .. n : m \in G
  <2>1. 0 \in G
    <3> DEFINE f == [k \in 0 .. 0 |-> start]
    <3> HIDE DEF start
    <3>1. DOMAIN f = 0 .. 0 /\ f = [k \in 0 .. 0 |-> f[k]] /\ f[0] = start
      OBVIOUS
    <3>2. 1 .. 0 = {} /\ 0 \in 0 .. n
      BY <1>1
    <3>3. Solves0(f, 0)
      BY <3>1, <3>2
    <3> HIDE DEF f
    <3>4. QED
      BY <3>2, <3>3 DEF start
  <2>2. ASSUME NEW m \in 1 .. n, m - 1 \in G
        PROVE  m \in G
    <3>1. m \in Nat /\ m - 1 \in Nat /\ m \in 0 .. n
      BY <1>1
    <3>2. PICK g : Solves0(g, m - 1)
      BY <2>2
    <3> DEFINE f == [k \in 0 .. m |-> IF k = m THEN Tried(g[m - 1], m) ELSE g[k]]
    <3> HIDE DEF start, G
    <3>3. DOMAIN f = 0 .. m /\ f = [k \in 0 .. m |-> f[k]]
      OBVIOUS
    <3>4. f[0] = start
      BY <3>1, <3>2
    <3>5. \A k \in 1 .. m : f[k] = Tried(f[k - 1], k)
      <4> SUFFICES ASSUME NEW k \in 1 .. m PROVE f[k] = Tried(f[k - 1], k)
        OBVIOUS
      <4>1. k \in 0 .. m /\ k - 1 \in 0 .. m /\ k - 1 # m
        BY <3>1
      <4>2. f[k - 1] = g[k - 1]
        BY <4>1
      <4>3. CASE k = m
        BY <4>1, <4>2, <4>3
      <4>4. CASE k # m
        <5>1. k \in 1 .. m - 1
          BY <3>1, <4>4
        <5>2. g[k] = Tried(g[k - 1], k) /\ f[k] = g[k]
          BY <3>2, <4>1, <4>4, <5>1
        <5>3. QED
          BY <4>2, <5>2
      <4>5. QED
        BY <4>3, <4>4
    <3> HIDE DEF f
    <3>6. Solves0(f, m)
      BY <3>3, <3>4, <3>5
    <3> HIDE DEF Solves0
    <3>7. QED
      BY <3>1, <3>6 DEF G
  <2> HIDE DEF G
  <2>3. QED
    BY <1>1, <2>1, <2>2, UpTo
<1>3. PICK g : Solves0(g, n)
  <2>1. n \in 0 .. n
    BY <1>1
  <2>2. QED
    BY <1>2, <2>1
<1> DEFINE Whole(f) == f = [k \in 0 .. Len(main) |->
                              IF k = 0 THEN mRows[gap.row] \cap MainCols
                              ELSE IF main[k].col \in f[k - 1]
                                   THEN SymDiff(f[k - 1], mRows[main[k].row] \cap MainCols)
                                   ELSE f[k - 1]]
<1>4. Whole(g)
  <2>1. \A k \in 0 .. n : g[k] = IF k = 0 THEN mRows[gap.row] \cap MainCols
                              ELSE IF main[k].col \in g[k - 1]
                                   THEN SymDiff(g[k - 1], mRows[main[k].row] \cap MainCols)
                                   ELSE g[k - 1]
    <3> SUFFICES ASSUME NEW k \in 0 .. n, k # 0 PROVE g[k] = Tried(g[k - 1], k)
      BY <1>3 DEF Tried
    <3>1. k \in 1 .. n
      BY <1>1
    <3>2. QED
      BY <1>3, <3>1
  <2>2. QED
    BY <1>3, <2>1
<1>5. Residue(gap) = CHOOSE f : Whole(f)
  BY DEF Residue
<1>6. Whole(Residue(gap))
  BY <1>4, <1>5
<1>7. \A k \in 0 .. n : Residue(gap)[k] = IF k = 0 THEN mRows[gap.row] \cap MainCols
                              ELSE IF main[k].col \in Residue(gap)[k - 1]
                                   THEN SymDiff(Residue(gap)[k - 1], mRows[main[k].row] \cap MainCols)
                                   ELSE Residue(gap)[k - 1]
  BY <1>6
<1>8. Residue(gap)[0] = mRows[gap.row] \cap MainCols
  <2>1. 0 \in 0 .. n
    BY <1>1
  <2>2. QED
    BY <1>7, <2>1
<1>9. \A k \in 1 .. n : k \in 0 .. n /\ k # 0
  BY <1>1
<1>10. QED
  BY <1>1, <1>7, <1>8, <1>9 DEF Tried

\* The main rows chosen among the first k.
Chosen(gap, k) == {main[j].row : j \in {h \in 1 .. k : main[h].col \in Residue(gap)[h - 1]}}

\* What is left after the first k main rows is the sum of the gap row and the rows
\* chosen, and has none of their columns: a row has no column taken before its own, so
\* that trying it never brings one back.
Cleared(gap, k) ==
  /\ Residue(gap)[k] \subseteq MainCols
  /\ \A j \in 1 .. k : main[j].col \notin Residue(gap)[k]
  /\ \A c \in MainCols : c \in Residue(gap)[k]
                           <=> Odd({i \in {gap.row} \cup Chosen(gap, k) : c \in mRows[i]})

LEMMA ChosenFinite ==
  ASSUME TInv, NEW gap, NEW k \in 0 .. Len(main)
  PROVE  Chosen(gap, k) \subseteq Items /\ IsFiniteSet(Chosen(gap, k))
<1>1. Chosen(gap, k) \subseteq Items
  BY MainEntries DEF Chosen
<1>2. IsFiniteSet(Items)
  BY FS_Interval, SizeAssumption DEF Items
<1>3. QED
  BY <1>1, <1>2, FS_Subset

LEMMA ClearedFirst ==
  ASSUME TInv, NEW gap, gap.row \in Items
  PROVE  Cleared(gap, 0)
<1>1. Residue(gap)[0] = mRows[gap.row] \cap MainCols
  BY ResidueSteps
<1>2. 1 .. 0 = {} /\ Chosen(gap, 0) = {}
  BY DEF Chosen
<1>3. ASSUME NEW c \in MainCols
      PROVE  c \in Residue(gap)[0] <=> Odd({i \in {gap.row} : c \in mRows[i]})
  <2>1. CASE c \in mRows[gap.row]
    <3>1. {i \in {gap.row} : c \in mRows[i]} = {gap.row}
      BY <2>1
    <3>2. QED
      BY <1>1, <2>1, <3>1, OddSingleton
  <2>2. CASE c \notin mRows[gap.row]
    <3>1. {i \in {gap.row} : c \in mRows[i]} = {}
      BY <2>2
    <3>2. QED
      BY <1>1, <2>2, <3>1, OddEmpty
  <2>3. QED
    BY <2>1, <2>2
<1>4. QED
  BY <1>1, <1>2, <1>3 DEF Cleared

LEMMA ClearedStep ==
  ASSUME TInv, Triangular, PInv, NEW gap \in Gap, NEW k \in 1 .. Len(main), Cleared(gap, k - 1)
  PROVE  Cleared(gap, k)
<1> DEFINE r == Residue(gap)[k - 1]
           row == main[k].row
           old == {gap.row} \cup Chosen(gap, k - 1)
<1>1. /\ Len(main) \in Nat /\ DOMAIN main = 1 .. Len(main) /\ k \in DOMAIN main
      /\ row \in Items /\ main[k].col \in MainCols
      /\ k - 1 \in 0 .. Len(main)
  BY MainEntries DEF MainCols
<1>2. Residue(gap)[k] = Tried(r, k)
  BY <1>1, ResidueSteps
<1>3. /\ main[k].col \in mRows[row]
      /\ \A j \in 1 .. k - 1 : main[j].col \notin mRows[row]
  BY <1>1 DEF Triangular
<1>4. /\ r \subseteq MainCols
      /\ \A j \in 1 .. k - 1 : main[j].col \notin r
      /\ \A c \in MainCols : c \in r <=> Odd({i \in old : c \in mRows[i]})
  BY DEF Cleared
<1>5. CASE main[k].col \notin r
  <2>1. Residue(gap)[k] = r
    BY <1>2, <1>5 DEF Tried
  <2>2. \A j \in 1 .. k : j \in 1 .. k - 1 \/ j = k
    BY <1>1
  <2>3. Chosen(gap, k) = Chosen(gap, k - 1)
    <3>1. {h \in 1 .. k : main[h].col \in Residue(gap)[h - 1]}
            = {h \in 1 .. k - 1 : main[h].col \in Residue(gap)[h - 1]}
      BY <1>1, <1>5, <2>2
    <3>2. QED
      BY <3>1 DEF Chosen
  <2> HIDE DEF r
  <2>4. QED
    BY <1>4, <1>5, <2>1, <2>2, <2>3 DEF Cleared
<1>6. CASE main[k].col \in r
  <2>1. Residue(gap)[k] = SymDiff(r, mRows[row] \cap MainCols)
    BY <1>2, <1>6 DEF Tried
  <2>2. \A j \in 1 .. k : j \in 1 .. k - 1 \/ j = k
    BY <1>1
  <2>3. Chosen(gap, k) = Chosen(gap, k - 1) \cup {row}
    <3>1. {h \in 1 .. k : main[h].col \in Residue(gap)[h - 1]}
            = {h \in 1 .. k - 1 : main[h].col \in Residue(gap)[h - 1]} \cup {k}
      BY <1>1, <1>6, <2>2
    <3>2. QED
      BY <3>1 DEF Chosen
  <2>4. row \notin old
    <3>1. row # gap.row
      BY <1>1 DEF PInv, Gap, Range
    <3>2. \A j \in 1 .. k - 1 : main[j].row # row
      BY <1>1 DEF PInv
    <3>3. QED
      BY <3>1, <3>2 DEF Chosen
  <2>5. IsFiniteSet(old)
    BY <1>1, ChosenFinite, FS_AddElement
  <2> HIDE DEF r, row
  <2>6. \A j \in 1 .. k : main[j].col \notin Residue(gap)[k]
    BY <1>1, <1>3, <1>4, <1>6, <2>1, <2>2 DEF SymDiff
  <2>7. Residue(gap)[k] \subseteq MainCols
    BY <1>4, <2>1 DEF SymDiff
  <2>8. ASSUME NEW c \in MainCols
        PROVE  c \in Residue(gap)[k] <=> Odd({i \in old \cup {row} : c \in mRows[i]})
    <3> DEFINE had == {i \in old : c \in mRows[i]}
    <3>1. IsFiniteSet(had) /\ row \notin had
      <4>1. had \in SUBSET old
        OBVIOUS
      <4>2. QED
        BY <2>4, <2>5, <4>1, FS_Subset
    <3>2. c \in r <=> Odd(had)
      BY <1>4
    <3>3. CASE c \in mRows[row]
      <4>1. {i \in old \cup {row} : c \in mRows[i]} = had \cup {row}
        BY <3>3
      <4> HIDE DEF had
      <4>2. Odd(had \cup {row}) <=> ~ Odd(had)
        BY <3>1, OddToggle
      <4>3. c \in Residue(gap)[k] <=> c \notin r
        BY <2>1, <3>3 DEF SymDiff
      <4>4. QED
        BY <3>2, <4>1, <4>2, <4>3
    <3>4. CASE c \notin mRows[row]
      <4>1. {i \in old \cup {row} : c \in mRows[i]} = had
        BY <3>4
      <4> HIDE DEF had
      <4>2. c \in Residue(gap)[k] <=> c \in r
        BY <2>1, <3>4 DEF SymDiff
      <4>3. QED
        BY <3>2, <4>1, <4>2
    <3>5. QED
      BY <3>3, <3>4
  <2>9. {gap.row} \cup Chosen(gap, k) = old \cup {row}
    BY <2>3
  <2> HIDE DEF old
  <2>10. QED
    BY <2>6, <2>7, <2>8, <2>9 DEF Cleared
<1>7. QED
  BY <1>5, <1>6

\* getFCInv cancels the gap row in every main column, with main rows only.
LEMMA Elimination ==
  ASSUME TInv, Triangular, PInv, NEW gap \in Gap
  PROVE  /\ gap.row \in Items /\ gap.main \in Items
         /\ FCInv(gap) \subseteq {main[k].row : k \in DOMAIN main}
         /\ FCInv(gap) \subseteq Items /\ gap.row \notin FCInv(gap)
         /\ Combined(gap) \cap MainCols = {}
<1> DEFINE n == Len(main)
<1>1. n \in Nat /\ DOMAIN main = 1 .. n /\ MainCols \subseteq SparseCols
  BY MainEntries DEF MainCols
<1>2. PICK j \in DOMAIN gapRows : gap = gapRows[j]
  BY DEF Gap, Range
<1>3. gap \in [row : Items, main : Items]
  BY <1>2, Entries DEF PInv
<1>4. \A k \in DOMAIN main : main[k].row # gap.row /\ main[k].row \in Items
  BY <1>2, MainEntries DEF PInv
<1>5. \A i \in Items : \A c \in MainCols : c \in Row(i) <=> c \in mRows[i]
  BY <1>1, Apart DEF Row
<1>6. \A c : c \in Combined(gap) <=> c \in Cols /\ Odd({i \in Summed(gap) : c \in Row(i)})
  BY DEF Combined
<1>7. CASE mRows[gap.row] = mRows[gap.main]
  <2>1. FCInv(gap) = {gap.main} /\ Summed(gap) = {gap.row, gap.main}
    BY <1>7 DEF FCInv, Summed
  <2>2. PICK k \in DOMAIN main : main[k].row = gap.main
    BY <1>2 DEF PInv, Collides
  <2>3. gap.row # gap.main
    BY <1>4, <2>2
  <2>4. ASSUME NEW c \in MainCols PROVE ~ Odd({i \in Summed(gap) : c \in Row(i)})
    <3>1. c \in Row(gap.row) <=> c \in Row(gap.main)
      BY <1>3, <1>5, <1>7
    <3>2. CASE c \in Row(gap.row)
      <4>1. {i \in Summed(gap) : c \in Row(i)} = {gap.row} \cup {gap.main}
        BY <2>1, <3>1, <3>2
      <4>2. Odd({gap.row}) /\ IsFiniteSet({gap.row}) /\ gap.main \notin {gap.row}
        BY <2>3, OddSingleton, FS_Singleton
      <4>3. Odd({gap.row} \cup {gap.main}) <=> ~ Odd({gap.row})
        BY <4>2, OddToggle
      <4>4. QED
        BY <4>1, <4>2, <4>3
    <3>3. CASE c \notin Row(gap.row)
      <4>1. {i \in Summed(gap) : c \in Row(i)} = {}
        BY <2>1, <3>1, <3>3
      <4>2. QED
        BY <4>1, OddEmpty
    <3>4. QED
      BY <3>2, <3>3
  <2>5. QED
    BY <1>3, <1>6, <2>1, <2>2, <2>3, <2>4
<1>8. CASE mRows[gap.row] # mRows[gap.main]
  <2>1. FCInv(gap) = Chosen(gap, n) /\ Summed(gap) = {gap.row} \cup Chosen(gap, n)
    BY <1>1, <1>8, EliminateResidue DEF FCInv, Summed, Chosen
  <2>2. Cleared(gap, n)
    <3> DEFINE G == {k \in 0 .. n : Cleared(gap, k)}
    <3>1. 0 \in G
      BY <1>1, <1>3, ClearedFirst
    <3>2. ASSUME NEW k \in 1 .. n, k - 1 \in G PROVE k \in G
      <4>1. Cleared(gap, k)
        BY <3>2, ClearedStep
      <4>2. QED
        BY <1>1, <4>1
    <3> HIDE DEF G
    <3>3. \A k \in 0 .. n : k \in G
      BY <1>1, <3>1, <3>2, UpTo
    <3>4. n \in 0 .. n
      BY <1>1
    <3>5. QED
      BY <3>3, <3>4 DEF G
  <2>3. Chosen(gap, n) \subseteq {main[k].row : k \in DOMAIN main}
    BY <1>1 DEF Chosen
  <2>4. Residue(gap)[n] = {}
    BY <1>1, <2>2 DEF Cleared, MainCols
  <2>5. ASSUME NEW c \in MainCols PROVE c \notin Combined(gap)
    <3>1. ~ Odd({i \in {gap.row} \cup Chosen(gap, n) : c \in mRows[i]})
      BY <2>2, <2>4 DEF Cleared
    <3>2. Summed(gap) \subseteq Items
      BY <1>3, <1>4, <2>1, <2>3
    <3>3. {i \in Summed(gap) : c \in Row(i)} = {i \in {gap.row} \cup Chosen(gap, n) : c \in mRows[i]}
      BY <1>5, <2>1, <3>2
    <3>4. QED
      BY <1>6, <3>1, <3>3
  <2>6. gap.row \notin Chosen(gap, n) /\ Chosen(gap, n) \subseteq Items
    BY <1>4, <2>3
  <2>7. QED
    BY <1>3, <2>1, <2>3, <2>5, <2>6
<1>9. QED
  BY <1>7, <1>8

\* Nothing of a gap row is left in the main columns, whichever rows it took.
THEOREM GapEliminatedHolds == Spec => []GapEliminated
<1>1. TInv /\ Triangular /\ PInv => GapEliminated
  BY Elimination DEF GapEliminated
<1>2. Inv => TInv /\ Triangular
  BY DEF Inv
<1>3. QED
  BY <1>1, <1>2, InvHolds, PInvHolds, PTL

-----------------------------------------------------------------------------
(* The types of everything. *)

LEMMA WeightBound ==
  ASSUME NEW c
  PROVE  Cardinality(RowsOf(c)) \in 0 .. mNumItems
<1>1. IsFiniteSet(Items) /\ Cardinality(Items) = mNumItems
  <2>1. 0 \in Int /\ mNumItems - 1 \in Int /\ ~ (0 > mNumItems - 1)
    BY SizeAssumption
  <2>2. QED
    BY <2>1, FS_Interval, SizeAssumption DEF Items
<1>2. RowsOf(c) \in SUBSET Items
  BY DEF RowsOf
<1>3. Cardinality(RowsOf(c)) \in Nat /\ Cardinality(RowsOf(c)) <= mNumItems
  BY <1>1, <1>2, FS_Subset, FS_CardinalityType
<1>4. QED
  BY <1>3, SizeAssumption

\* The weights never grow, and next never passes the end of main.
TypeInv ==
  /\ mRows \in SparseRows /\ mDense \in DenseRows /\ prng \in Randomize
  /\ weight \in [SparseCols -> 0 .. mNumItems]
  /\ gapCols \subseteq DenseCols
  /\ next \in 0 .. Len(main)
  /\ pc \in {"triangulate", "gap", "solve", "done", "error"}

LEMMA InitTypeInv == Init => TypeInv
<1>1. InitialWeights \in [SparseCols -> 0 .. mNumItems]
  BY WeightBound DEF InitialWeights
<1>2. QED
  BY <1>1 DEF Init, TypeInv

LEMMA TriangulateTypeInv ==
  ASSUME Inv, TypeInv, NEW c, Triangulate(c)
  PROVE  TypeInv'
<1>1. /\ main' = Append(main, [row |-> Min(NewRows(c)), col |-> c])
      /\ UNCHANGED <<mRows, mDense, prng, gapCols, next>>
      /\ pc' \in {"triangulate", "error"}
      /\ weight' = [d \in SparseCols |-> Lessened(IF d = c THEN 0 ELSE weight[d],
                                                  Cardinality(Placed(c) \cap RowsOf(d)))]
  BY TriangulateStep DEF Triangulate, matrix
<1>2. next' \in 0 .. Len(main')
  <2>1. Len(main) \in Nat /\ Len(main') = Len(main) + 1
    BY <1>1 DEF Inv, TInv
  <2>2. QED
    BY <1>1, <2>1 DEF TypeInv
<1>3. weight' \in [SparseCols -> 0 .. mNumItems]
  <2> SUFFICES ASSUME NEW d \in SparseCols
               PROVE  Lessened(IF d = c THEN 0 ELSE weight[d], Cardinality(Placed(c) \cap RowsOf(d)))
                        \in 0 .. mNumItems
    BY <1>1
  <2> DEFINE w == IF d = c THEN 0 ELSE weight[d]
             n == Cardinality(Placed(c) \cap RowsOf(d))
  <2>1. w \in 0 .. mNumItems
    BY SizeAssumption DEF TypeInv
  <2>2. n \in Nat
    BY RowsOfFinite, FS_Intersection, FS_CardinalityType
  <2> HIDE DEF w, n
  <2>3. Lessened(w, n) \in 0 .. mNumItems
    BY <2>1, <2>2, SizeAssumption DEF Lessened
  <2>4. QED
    BY <2>3 DEF w, n
<1>4. QED
  BY <1>1, <1>2, <1>3 DEF TypeInv

LEMMA OtherTypeInv ==
  ASSUME Inv, TypeInv,
         \/ RandomizeFree \/ FailGap \/ BackfillRow \/ Return \/ EncodeAgain
         \/ UNCHANGED vars \/ \E S \in SUBSET DenseCols : SolveGap(S)
  PROVE  TypeInv'
<1>1. Len(main) \in Nat
  BY MainEntries DEF Inv
<1>2. CASE EncodeAgain
  <2>1. InitialWeights \in [SparseCols -> 0 .. mNumItems]
    BY WeightBound DEF InitialWeights
  <2>2. QED
    BY <1>2, <2>1 DEF EncodeAgain, TypeInv, matrix
<1>3. CASE BackfillRow
  BY <1>1, <1>3 DEF BackfillRow, TypeInv, matrix
<1>4. CASE \E S \in SUBSET DenseCols : SolveGap(S)
  <2>1. PICK S \in SUBSET DenseCols : SolveGap(S)
    BY <1>4
  <2>2. /\ gapCols' = S /\ next' = Len(main) /\ pc' = "solve"
        /\ UNCHANGED <<mRows, mDense, prng, weight, main>>
    BY <2>1 DEF SolveGap, matrix
  <2>3. QED
    BY <1>1, <2>2 DEF TypeInv
<1>5. CASE RandomizeFree \/ FailGap \/ Return \/ UNCHANGED vars
  BY <1>5 DEF RandomizeFree, FailGap, Return, vars, TypeInv, matrix
<1>6. QED
  BY <1>2, <1>3, <1>4, <1>5

THEOREM TypeInvHolds == Spec => []TypeInv
<1>1. Inv /\ TypeInv /\ [Next]_vars => TypeInv'
  BY TriangulateTypeInv, OtherTypeInv DEF Next
<1>2. QED
  BY InitTypeInv, InvHolds, <1>1, PTL DEF Spec

\* The types, with the bounds of the weights and of next.
THEOREM TypeOKHolds == Spec => []TypeOK
<1>1. Inv /\ TypeInv /\ PInv /\ SInv => TypeOK
  BY DEF Inv, TInv, TypeInv, PInv, SInv, TypeOK
<1>2. QED
  BY <1>1, InvHolds, TypeInvHolds, PInvHolds, SInvHolds, PTL

-----------------------------------------------------------------------------
(* Solving the gap. *)

\* The columns of S that the sum of the gap rows R has, and the gap rows that the
\* inverse adds up for the columns T.
ColumnsOf(S, R) == {d \in S : Odd({gap \in R : d \in Combined(gap)})}
SumOf(S, T)     == {gap \in Gap : Odd({c \in T : gap \in InverseRow(S, c)})}

LEMMA GapSize ==
  ASSUME PInv
  PROVE  IsFiniteSet(Gap) /\ Cardinality(Gap) = Len(gapRows)
<1> DEFINE n == Len(gapRows)
<1>1. n \in Nat /\ DOMAIN gapRows = 1 .. n
  BY DEF PInv
<1>2. \A j, k \in 1 .. n : gapRows[j] = gapRows[k] => j = k
  BY <1>1 DEF PInv
<1>3. gapRows \in [1 .. n -> Gap]
  BY <1>1 DEF PInv, Gap, Range
<1>4. gapRows \in Bijection(1 .. n, Gap)
  BY <1>1, <1>2, <1>3 DEF Bijection, Injection, Surjection, IsInjective, Gap, Range
<1>5. ExistsBijection(1 .. n, Gap)
  BY <1>4 DEF ExistsBijection
<1>6. QED
  BY <1>1, <1>5, FS_CountingElements, FS_NatBijection

LEMMA Inverses ==
  ASSUME NEW S \in GapChoices
  PROVE  /\ S \in SUBSET DenseCols /\ IsFiniteSet(S) /\ Cardinality(S) = Len(gapRows)
         /\ \A c \in S : InverseRow(S, c) \in SUBSET Gap /\ Solves(InverseRow(S, c), S, c)
<1>1. S \in SUBSET DenseCols /\ Cardinality(S) = Len(gapRows)
  BY DEF GapChoices, kSubset
<1>2. Invertible(S)
  BY DEF GapChoices
<1>3. IsFiniteSet(S)
  <2>1. IsFiniteSet(DenseCols)
    BY FS_Interval, SizeAssumption DEF DenseCols
  <2>2. QED
    BY <1>1, <2>1, FS_Subset
<1>4. \A c \in S : InverseRow(S, c) \in SUBSET Gap /\ Solves(InverseRow(S, c), S, c)
  BY <1>2 DEF Invertible, InverseRow
<1>5. QED
  BY <1>1, <1>3, <1>4

\* The inverse is one: the rows it adds up for T have just the columns T.
LEMMA SumOfColumns ==
  ASSUME PInv, NEW S \in GapChoices, NEW T \in SUBSET S
  PROVE  ColumnsOf(S, SumOf(S, T)) = T
<1>1. IsFiniteSet(Gap) /\ IsFiniteSet(T)
  BY GapSize, Inverses, FS_Subset
<1> SUFFICES ASSUME NEW d \in S
             PROVE  Odd({gap \in SumOf(S, T) : d \in Combined(gap)}) <=> d \in T
  BY DEF ColumnsOf
<1> DEFINE R == {p \in T \X Gap : p[2] \in InverseRow(S, p[1]) /\ d \in Combined(p[2])}
<1>2. \A c \in T : \A gap \in Gap :
        <<c, gap>> \in R <=> gap \in InverseRow(S, c) /\ d \in Combined(gap)
  OBVIOUS
<1> HIDE DEF R
<1>3. OddCols(T, Gap, R) = {gap \in SumOf(S, T) : d \in Combined(gap)}
  <2>1. ASSUME NEW gap \in Gap, d \in Combined(gap)
        PROVE  {c \in T : <<c, gap>> \in R} = {c \in T : gap \in InverseRow(S, c)}
    BY <1>2, <2>1
  <2>2. ASSUME NEW gap \in Gap, d \notin Combined(gap)
        PROVE  ~ Odd({c \in T : <<c, gap>> \in R})
    <3>1. {c \in T : <<c, gap>> \in R} = {}
      BY <1>2, <2>2
    <3>2. QED
      BY <3>1, OddEmpty
  <2>3. QED
    BY <2>1, <2>2 DEF OddCols, SumOf
<1>4. OddRows(T, Gap, R) = {c \in T : c = d}
  <2>1. ASSUME NEW c \in T
        PROVE  Odd({gap \in Gap : <<c, gap>> \in R}) <=> c = d
    <3>1. InverseRow(S, c) \subseteq Gap /\ Solves(InverseRow(S, c), S, c)
      BY Inverses
    <3>2. {gap \in Gap : <<c, gap>> \in R} = {gap \in InverseRow(S, c) : d \in Combined(gap)}
      BY <1>2, <3>1
    <3>3. Odd({gap \in InverseRow(S, c) : d \in Combined(gap)}) <=> d = c
      BY <3>1 DEF Solves
    <3>4. QED
      BY <3>2, <3>3
  <2>2. QED
    BY <2>1 DEF OddRows
<1>5. Odd(OddRows(T, Gap, R)) <=> Odd(OddCols(T, Gap, R))
  BY <1>1, Interchange
<1>6. Odd({c \in T : c = d}) <=> d \in T
  <2>1. CASE d \in T
    <3>1. {c \in T : c = d} = {d}
      BY <2>1
    <3>2. QED
      BY <2>1, <3>1, OddSingleton
  <2>2. CASE d \notin T
    <3>1. {c \in T : c = d} = {}
      BY <2>2
    <3>2. QED
      BY <2>2, <3>1, OddEmpty
  <2>3. QED
    BY <2>1, <2>2
<1>7. QED
  BY <1>3, <1>4, <1>5, <1>6

\* There are as many sums of gap rows as sets of columns, and every set of columns is
\* that of a sum: different sums have different columns.
LEMMA ColumnsTell ==
  ASSUME PInv, NEW S \in GapChoices, NEW P \in SUBSET Gap, NEW Q \in SUBSET Gap,
         ColumnsOf(S, P) = ColumnsOf(S, Q)
  PROVE  P = Q
<1> DEFINE f == [R \in SUBSET Gap |-> ColumnsOf(S, R)]
<1>1. f \in [SUBSET Gap -> SUBSET S]
  BY DEF ColumnsOf
<1>2. \A T \in SUBSET S : SumOf(S, T) \in SUBSET Gap /\ f[SumOf(S, T)] = T
  BY SumOfColumns DEF SumOf
<1>3. f \in Surjection(SUBSET Gap, SUBSET S)
  BY <1>1, <1>2 DEF Surjection
<1>4. /\ IsFiniteSet(SUBSET Gap) /\ Cardinality(SUBSET Gap) = 2^Cardinality(Gap)
      /\ IsFiniteSet(SUBSET S) /\ Cardinality(SUBSET S) = 2^Cardinality(S)
  BY GapSize, Inverses, FS_SUBSET
<1>5. Cardinality(SUBSET Gap) = Cardinality(SUBSET S)
  BY <1>4, GapSize, Inverses
<1>6. f \in Injection(SUBSET Gap, SUBSET S)
  BY <1>3, <1>4, <1>5, FS_SurjSameCardinalityImpliesInj
<1>7. f[P] = f[Q]
  OBVIOUS
<1> HIDE DEF f
<1>8. QED
  BY <1>6, <1>7 DEF Injection, IsInjective

LEMMA ColumnsOfRow ==
  ASSUME NEW S, NEW gap
  PROVE  ColumnsOf(S, {gap}) = S \cap Combined(gap)
<1>1. ASSUME NEW d PROVE Odd({g \in {gap} : d \in Combined(g)}) <=> d \in Combined(gap)
  <2>1. CASE d \in Combined(gap)
    <3>1. {g \in {gap} : d \in Combined(g)} = {gap}
      BY <2>1
    <3>2. QED
      BY <2>1, <3>1, OddSingleton
  <2>2. CASE d \notin Combined(gap)
    <3>1. {g \in {gap} : d \in Combined(g)} = {}
      BY <2>2
    <3>2. QED
      BY <2>2, <3>1, OddEmpty
  <2>3. QED
    BY <2>1, <2>2
<1>2. QED
  BY <1>1 DEF ColumnsOf

\* The rows the inverse adds up for the columns of a gap row are that row.
LEMMA InverseOfRow ==
  ASSUME PInv, NEW S \in GapChoices, NEW gap \in Gap
  PROVE  SumOf(S, S \cap Combined(gap)) = {gap}
<1> DEFINE T == S \cap Combined(gap)
<1>1. T \in SUBSET S /\ SumOf(S, T) \in SUBSET Gap /\ {gap} \in SUBSET Gap
  BY DEF SumOf
<1> HIDE DEF T
<1>2. ColumnsOf(S, SumOf(S, T)) = T
  BY <1>1, SumOfColumns
<1>3. ColumnsOf(S, {gap}) = T
  BY ColumnsOfRow DEF T
<1>4. SumOf(S, T) = {gap}
  BY <1>1, <1>2, <1>3, ColumnsTell
<1>5. QED
  BY <1>4 DEF T

-----------------------------------------------------------------------------
(* The gap and its rows, once solved. *)

\* What Combined and its like read.
LEMMA Frame ==
  ASSUME UNCHANGED <<mRows, mDense, main, gapRows>>
  PROVE  /\ Gap' = Gap /\ MainCols' = MainCols
         /\ \A gap : Summed(gap)' = Summed(gap) /\ Combined(gap)' = Combined(gap)
<1>1. Gap' = Gap /\ MainCols' = MainCols
  BY DEF Gap, MainCols, Range
<1>2. \A gap : Eliminate(gap)' = Eliminate(gap)
  BY <1>1 DEF Eliminate
<1>3. \A gap : Summed(gap)' = Summed(gap)
  BY <1>2 DEF FCInv, Summed
<1>4. \A gap : Combined(gap)' = Combined(gap)
  BY <1>3 DEF Combined, Row
<1>5. QED
  BY <1>1, <1>3, <1>4

\* The values of the items whose rows are added up for a gap row.
Values(gap) == UNION {X(i) : i \in Summed(gap)}

LEMMA SummedItems ==
  ASSUME TInv, Triangular, PInv, NEW gap \in Gap
  PROVE  Summed(gap) \subseteq Items /\ Values(gap) \subseteq Atoms
<1>1. Summed(gap) \subseteq Items
  BY Elimination DEF Summed
<1>2. \A i \in Summed(gap) : X(i) \subseteq Atoms
  BY <1>1 DEF X, Atoms
<1>3. QED
  BY <1>1, <1>2 DEF Values

\* What SolveGap gives the columns of S: the XOR of the rows of the inverse.
Given(S, out, c) == {a \in Atoms : Odd({gap \in InverseRow(S, c) : a \in XX2(gap, S, out)})}

\* Over the columns of a gap row in S it is what that row needs.
LEMMA GivenOverRow ==
  ASSUME PInv, NEW S \in GapChoices, NEW out, NEW gap \in Gap, NEW a \in Atoms
  PROVE  Odd({c \in S \cap Combined(gap) : a \in Given(S, out, c)}) <=> a \in XX2(gap, S, out)
<1> DEFINE T == S \cap Combined(gap)
           R == {p \in T \X Gap : p[2] \in InverseRow(S, p[1]) /\ a \in XX2(p[2], S, out)}
<1>1. IsFiniteSet(Gap) /\ IsFiniteSet(T)
  BY GapSize, Inverses, FS_Intersection
<1>2. \A c \in T : \A g \in Gap :
        <<c, g>> \in R <=> g \in InverseRow(S, c) /\ a \in XX2(g, S, out)
  OBVIOUS
<1>3. T \subseteq S
  OBVIOUS
<1> HIDE DEF R, T
<1>4. OddRows(T, Gap, R) = {c \in T : a \in Given(S, out, c)}
  <2>1. ASSUME NEW c \in T
        PROVE  {g \in Gap : <<c, g>> \in R} = {g \in InverseRow(S, c) : a \in XX2(g, S, out)}
    <3>1. InverseRow(S, c) \subseteq Gap
      BY <1>3, Inverses
    <3>2. QED
      BY <1>2, <3>1
  <2>2. \A c \in T : a \in Given(S, out, c) <=> Odd({g \in InverseRow(S, c) : a \in XX2(g, S, out)})
    BY DEF Given
  <2>3. QED
    BY <2>1, <2>2 DEF OddRows
<1>5. OddCols(T, Gap, R) = {g \in SumOf(S, T) : a \in XX2(g, S, out)}
  <2>1. ASSUME NEW g \in Gap, a \in XX2(g, S, out)
        PROVE  {c \in T : <<c, g>> \in R} = {c \in T : g \in InverseRow(S, c)}
    BY <1>2, <2>1
  <2>2. ASSUME NEW g \in Gap, a \notin XX2(g, S, out)
        PROVE  ~ Odd({c \in T : <<c, g>> \in R})
    <3>1. {c \in T : <<c, g>> \in R} = {}
      BY <1>2, <2>2
    <3>2. QED
      BY <3>1, OddEmpty
  <2>3. QED
    BY <2>1, <2>2 DEF OddCols, SumOf
<1>6. SumOf(S, T) = {gap}
  BY InverseOfRow DEF T
<1>7. Odd({g \in {gap} : a \in XX2(g, S, out)}) <=> a \in XX2(gap, S, out)
  <2>1. CASE a \in XX2(gap, S, out)
    <3>1. {g \in {gap} : a \in XX2(g, S, out)} = {gap}
      BY <2>1
    <3>2. QED
      BY <2>1, <3>1, OddSingleton
  <2>2. CASE a \notin XX2(gap, S, out)
    <3>1. {g \in {gap} : a \in XX2(g, S, out)} = {}
      BY <2>2
    <3>2. QED
      BY <2>2, <3>1, OddEmpty
  <2>3. QED
    BY <2>1, <2>2
<1>8. Odd(OddRows(T, Gap, R)) <=> Odd(OddCols(T, Gap, R))
  BY <1>1, Interchange
<1>9. Odd({c \in T : a \in Given(S, out, c)}) <=> a \in XX2(gap, S, out)
  BY <1>4, <1>5, <1>6, <1>7, <1>8
<1>10. QED
  BY <1>9 DEF T

\* The dense columns are zero before the gap is solved; a row of the gap then has its
\* values in them, and so it stays.  Sparse columns of no main row stay zero when the
\* encoding is not randomized.
GInv ==
  /\ pc = "gap" => \A c \in DenseCols : output[c] = {}
  /\ pc \in {"gap", "solve", "done"} /\ ~ prng => \A c \in SparseCols \ MainCols : output[c] = {}
  /\ pc \in {"solve", "done"} =>
       \A gap \in Gap : XorOver(output, Combined(gap) \cap DenseCols) = Values(gap)

LEMMA SolveGapGInv ==
  ASSUME Inv, SInv, PInv, GInv, NEW S \in SUBSET DenseCols, SolveGap(S)
  PROVE  GInv'
<1> DEFINE out == [c \in Cols |-> IF prng /\ c \in DenseCols \ S THEN Random(c) ELSE output[c]]
<1>1. /\ output' = [c \in Cols |-> IF c \in S THEN SymDiff(out[c], Given(S, out, c)) ELSE out[c]]
      /\ pc = "gap" /\ pc' = "solve" /\ S \in GapChoices
      /\ UNCHANGED <<mRows, mDense, prng, main, gapRows>>
  BY DEF SolveGap, matrix, Given
<1>2. /\ Gap' = Gap /\ MainCols' = MainCols
      /\ \A gap : Summed(gap)' = Summed(gap) /\ Combined(gap)' = Combined(gap)
  BY <1>1, Frame
<1>3. \A c \in DenseCols : c \in Cols /\ output[c] = {}
  BY <1>1 DEF GInv, Cols
<1>4. \A c \in S : output'[c] = Given(S, out, c)
  <2>1. ASSUME NEW c \in S PROVE out[c] = {} /\ c \in Cols
    BY <1>3
  <2> HIDE DEF out
  <2>2. QED
    BY <1>1, <2>1 DEF SymDiff
<1>5. \A c \in DenseCols \ S : output'[c] = out[c] /\ (~ prng => out[c] = {})
  BY <1>1, <1>3
<1>6. ~ prng => \A c \in SparseCols \ MainCols : output'[c] = {}
  <2>1. \A c \in SparseCols : c \in Cols /\ c \notin DenseCols
    BY Apart DEF Cols
  <2>2. \A c \in SparseCols : output'[c] = output[c]
    BY <1>1, <2>1
  <2>3. QED
    BY <1>1, <2>2 DEF GInv
<1> HIDE DEF out
<1>7. ASSUME NEW gap \in Gap
      PROVE  XorOver(output', Combined(gap) \cap DenseCols) = Values(gap)
  <2> DEFINE D == Combined(gap) \cap DenseCols
             D2 == D \ S
  <2>1. Values(gap) \subseteq Atoms /\ XorOver(output', D) \subseteq Atoms
    BY SummedItems DEF Inv, XorOver
  <2> SUFFICES ASSUME NEW a \in Atoms
               PROVE  a \in XorOver(output', D) <=> a \in Values(gap)
    BY <2>1
  <2> DEFINE A1 == {c \in S \cap Combined(gap) : a \in Given(S, out, c)}
             A2 == {c \in D2 : a \in out[c]}
  <2>2. S \cap Combined(gap) \subseteq D /\ D2 \subseteq D /\ D \subseteq DenseCols
        /\ D = (S \cap Combined(gap)) \cup D2
    OBVIOUS
  <2>3. {c \in D : a \in output'[c]} = SymDiff(A1, A2)
    BY <1>4, <1>5 DEF SymDiff
  <2>4. IsFiniteSet(A1) /\ IsFiniteSet(A2)
    <3>1. IsFiniteSet(DenseCols)
      BY FS_Interval, SizeAssumption DEF DenseCols
    <3>2. A1 \in SUBSET DenseCols /\ A2 \in SUBSET DenseCols
      OBVIOUS
    <3>3. QED
      BY <3>1, <3>2, FS_Subset
  <2>5. Odd(A1) <=> a \in XX2(gap, S, out)
    BY <1>1, GivenOverRow
  <2>6. Odd(A2) <=> a \in XorOver(out, D2)
    BY DEF XorOver
  <2>7. a \in XX2(gap, S, out) <=> ~ (a \in Values(gap) <=> (prng /\ a \in XorOver(out, D2)))
    BY DEF XX2, SymDiff, Values
  <2>8. ~ prng => ~ (a \in XorOver(out, D2))
    <3>1. ~ prng => A2 = {}
      BY <1>5
    <3>2. QED
      BY <2>6, <3>1, OddEmpty
  <2> HIDE DEF A1, A2, D2
  <2>9. Odd(SymDiff(A1, A2)) <=> ~ (Odd(A1) <=> Odd(A2))
    BY <2>4, OddSymDiff
  <2>10. a \in XorOver(output', D) <=> Odd({c \in D : a \in output'[c]})
    BY DEF XorOver
  <2>11. QED
    BY <2>3, <2>5, <2>6, <2>7, <2>8, <2>9, <2>10
<1>8. \A gap : Values(gap)' = Values(gap)
  BY <1>2 DEF Values, X
<1>9. QED
  BY <1>1, <1>2, <1>6, <1>7, <1>8 DEF GInv, XorOver, Atoms

LEMMA BackfillRowGInv ==
  ASSUME Inv, SInv, GInv, BackfillRow
  PROVE  GInv'
<1>1. /\ UNCHANGED <<mRows, mDense, prng, main, gapRows>> /\ pc = "solve" /\ pc' = "solve"
      /\ \A c \in Cols \ {main[next].col} : output'[c] = output[c]
  BY DEF BackfillRow, Position, matrix, SInv
<1>2. /\ Gap' = Gap /\ MainCols' = MainCols
      /\ \A gap : Summed(gap)' = Summed(gap) /\ Combined(gap)' = Combined(gap)
  BY <1>1, Frame
<1>3. main[next].col \in MainCols /\ main[next].col \in SparseCols
  <2>1. next \in DOMAIN main
    BY <1>1, MainEntries DEF SInv, Inv, BackfillRow
  <2>2. QED
    BY <2>1, MainEntries DEF Inv, MainCols
<1>4. \A c \in DenseCols : output'[c] = output[c]
  BY <1>1, <1>3, Apart DEF Cols
<1>5. \A c \in SparseCols \ MainCols : output'[c] = output[c]
  BY <1>1, <1>3 DEF Cols
<1>6. \A gap : XorOver(output', Combined(gap) \cap DenseCols) = XorOver(output, Combined(gap) \cap DenseCols)
  <2>1. ASSUME NEW gap PROVE \A c \in Combined(gap) \cap DenseCols : output'[c] = output[c]
    BY <1>4
  <2>2. QED
    BY <2>1, XorOverSame
<1>7. \A gap : Values(gap)' = Values(gap)
  BY <1>2 DEF Values, X
<1>8. ~ prng => \A c \in SparseCols \ MainCols : output'[c] = {}
  BY <1>1, <1>5 DEF GInv
<1>9. ASSUME NEW gap \in Gap
      PROVE  XorOver(output', Combined(gap) \cap DenseCols) = Values(gap)
  BY <1>1, <1>6 DEF GInv
<1>10. QED
  BY <1>1, <1>2, <1>7, <1>8, <1>9 DEF GInv, XorOver, Atoms

LEMMA OtherGInv ==
  ASSUME Inv, GInv,
         \/ RandomizeFree \/ FailGap \/ Return \/ EncodeAgain
         \/ UNCHANGED vars \/ \E c \in SparseCols : Triangulate(c)
  PROVE  GInv'
<1>1. CASE RandomizeFree
  <2>1. /\ output' = [c \in Cols |-> IF prng /\ c \in listed THEN Random(c) ELSE {}]
        /\ pc' = "gap" /\ UNCHANGED <<prng, listed>>
    BY <1>1 DEF RandomizeFree
  <2>2. \A c \in DenseCols : c \in Cols /\ c \notin listed
    BY Apart DEF Inv, TInv, Cols
  <2>3. \A c \in SparseCols : c \in Cols
    BY DEF Cols
  <2>4. QED
    BY <2>1, <2>2, <2>3 DEF GInv
<1>2. CASE \/ FailGap \/ EncodeAgain \/ \E c \in SparseCols : Triangulate(c)
  <2>1. pc' \in {"error", "triangulate"}
    BY <1>2 DEF FailGap, EncodeAgain, Triangulate
  <2>2. QED
    BY <2>1 DEF GInv
<1>3. CASE Return \/ UNCHANGED vars
  <2>1. /\ UNCHANGED <<mRows, mDense, prng, main, gapRows, output>>
        /\ pc' = pc \/ (pc = "solve" /\ pc' = "done")
    BY <1>3 DEF Return, vars, matrix
  <2>2. /\ Gap' = Gap /\ MainCols' = MainCols
        /\ \A gap : Summed(gap)' = Summed(gap) /\ Combined(gap)' = Combined(gap)
    BY <2>1, Frame
  <2>3. \A gap : Values(gap)' = Values(gap)
    BY <2>2 DEF Values, X
  <2>4. QED
    BY <2>1, <2>2, <2>3 DEF GInv, XorOver, Atoms
<1>4. QED
  BY <1>1, <1>2, <1>3

THEOREM GInvHolds == Spec => []GInv
<1>1. Init => GInv
  BY DEF Init, GInv
<1>2. Inv /\ SInv /\ PInv /\ GInv /\ [Next]_vars => GInv'
  BY SolveGapGInv, BackfillRowGInv, OtherGInv DEF Next
<1>3. QED
  BY <1>1, <1>2, InvHolds, SInvHolds, PInvHolds, PTL DEF Spec

-----------------------------------------------------------------------------
(* What encode returns. *)

\* The XOR over all the columns of a gap row is that over its dense ones.
LEMMA SparseVanishes ==
  ASSUME Inv, PInv, GInv, pc = "done", prng => SparseCancels, NEW gap \in Gap
  PROVE  XorOver(output, Combined(gap)) = Values(gap)
<1>1. XorOver(output, Combined(gap) \cap DenseCols) = Values(gap)
  BY DEF GInv
<1>2. CASE prng
  <2>1. Combined(gap) \cap DenseCols = Combined(gap)
    BY <1>2 DEF SparseCancels
  <2>2. QED
    BY <1>1, <2>1
<1>3. CASE ~ prng
  <2>1. Combined(gap) \cap MainCols = {}
    BY Elimination DEF Inv
  <2>2. Combined(gap) \subseteq SparseCols \cup DenseCols
    BY DEF Combined, Cols
  <2>3. \A c \in Combined(gap) \ DenseCols : output[c] = {}
    BY <1>3, <2>1, <2>2 DEF GInv
  <2>4. \A a : {c \in Combined(gap) : a \in output[c]}
                 = {c \in Combined(gap) \cap DenseCols : a \in output[c]}
    BY <2>3
  <2>5. XorOver(output, Combined(gap)) = XorOver(output, Combined(gap) \cap DenseCols)
    BY <2>4 DEF XorOver
  <2>6. QED
    BY <1>1, <2>5
<1>4. QED
  BY <1>2, <1>3

\* A gap row decodes to its value: the main rows summed with it do, and their sum is
\* what the dense columns of the sum were made to hold.
LEMMA GapRowDecodes ==
  ASSUME Inv, SInv, PInv, GInv, pc = "done", next = 0, prng => SparseCancels, NEW gap \in Gap
  PROVE  Decode(gap.row) = X(gap.row)
<1> DEFINE I == Summed(gap)
           F == FCInv(gap)
           i == gap.row
<1>1. /\ i \in Items /\ F \subseteq {main[k].row : k \in DOMAIN main} /\ F \subseteq Items
      /\ i \notin F /\ I = {i} \cup F
  BY Elimination DEF Inv, Summed
<1>2. \A q \in F : Decode(q) = X(q)
  <2>1. ASSUME NEW q \in F PROVE Decode(q) = X(q)
    <3>1. PICK k \in DOMAIN main : q = main[k].row
      BY <1>1
    <3>2. k \in next + 1 .. Len(main)
      BY <3>1, MainEntries DEF Inv
    <3>3. QED
      BY <3>1, <3>2 DEF SInv, SolvedRowsDecode
  <2>2. QED
    BY <2>1
<1>3. XorOver(output, Combined(gap)) = Values(gap)
  BY SparseVanishes
<1>4. Decode(i) \subseteq Atoms /\ X(i) \subseteq Atoms
  BY <1>1 DEF Decode, XorOver, X, Atoms
<1> SUFFICES ASSUME NEW a \in Atoms PROVE a \in Decode(i) <=> a \in X(i)
  BY <1>4
<1>5. Odd({q \in I : a \in Decode(q)}) <=> a \in Values(gap)
  <2>1. I \in SUBSET Items
    BY <1>1
  <2>2. Odd({q \in I : a \in Decode(q)}) <=> a \in XorOver(output, Combined(gap))
    BY <2>1, CombineRows DEF Inv, Combined
  <2>3. QED
    BY <1>3, <2>2
<1> DEFINE A == {q \in F : a \in X(q)}
<1>6. IsFiniteSet(A) /\ i \notin A
  <2>1. IsFiniteSet(Items)
    BY FS_Interval, SizeAssumption DEF Items
  <2>2. A \in SUBSET Items /\ i \notin A
    BY <1>1
  <2>3. QED
    BY <2>1, <2>2, FS_Subset
<1>7. Odd(A) <=> \E q \in F : a \in X(q)
  <2>1. CASE A = {}
    BY <2>1, OddEmpty
  <2>2. CASE A # {}
    <3>1. PICK q \in F : a \in X(q)
      BY <2>2
    <3>2. a = <<"x", q>> /\ \A p \in F : a \in X(p) <=> p = q
      BY <3>1 DEF X
    <3>3. A = {q}
      BY <3>1, <3>2
    <3>4. QED
      BY <3>1, <3>3, OddSingleton
  <2>3. QED
    BY <2>1, <2>2
<1>8. a \in X(i) => A = {}
  BY <1>1 DEF X
<1>9. a \in Values(gap) <=> a \in X(i) \/ \E q \in F : a \in X(q)
  BY <1>1 DEF Values
<1>10. CASE a \in Decode(i)
  <2>1. {q \in I : a \in Decode(q)} = A \cup {i}
    BY <1>1, <1>2, <1>10
  <2> HIDE DEF A, F, I, i
  <2>2. Odd(A \cup {i}) <=> ~ Odd(A)
    BY <1>6, OddToggle
  <2>3. QED
    BY <1>5, <1>7, <1>9, <1>10, <2>1, <2>2
<1>11. CASE a \notin Decode(i)
  <2>1. {q \in I : a \in Decode(q)} = A
    BY <1>1, <1>2, <1>11
  <2>2. a \in X(i) => ~ Odd(A)
    BY <1>8, OddEmpty
  <2> HIDE DEF A, F, I, i
  <2>3. QED
    BY <1>5, <1>7, <1>9, <1>11, <2>1, <2>2
<1>12. QED
  BY <1>10, <1>11

\* When encode returns, backfill has passed every main row.
LEMMA DoneAtZero == Spec => [](pc = "done" => next = 0)
<1>1. Init => (pc = "done" => next = 0)
  BY DEF Init
<1>2. (pc = "done" => next = 0) /\ [Next]_vars => (pc = "done" => next = 0)'
  BY DEF Next, Triangulate, RandomizeFree, SolveGap, FailGap, BackfillRow, Return, EncodeAgain, vars
<1>3. QED
  BY <1>1, <1>2, PTL DEF Spec

\* An encoding that encode returns decodes every item to its value; randomized, as long
\* as the gap rows differ from sums of main rows in dense columns only.
THEOREM DecodeCorrectHolds ==
  ASSUME RetryFailed = FALSE
  PROVE  Spec => []DecodeCorrect
<1>1. ASSUME Inv, SInv, PInv, GInv, EInv, pc = "done" => next = 0
      PROVE  DecodeCorrect
  <2> SUFFICES ASSUME pc = "done", prng => SparseCancels, NEW i \in Items
               PROVE  Decode(i) = X(i)
    BY DEF DecodeCorrect
  <2>1. \/ \E k \in DOMAIN main : main[k].row = i
        \/ \E k \in DOMAIN gapRows : gapRows[k].row = i
    BY <1>1 DEF EInv, PInv
  <2>2. CASE \E k \in DOMAIN main : main[k].row = i
    <3>1. PICK k \in DOMAIN main : main[k].row = i
      BY <2>2
    <3>2. k \in next + 1 .. Len(main)
      BY <1>1, <3>1, MainEntries DEF Inv
    <3>3. QED
      BY <1>1, <3>1, <3>2 DEF SInv, SolvedRowsDecode
  <2>3. CASE \E k \in DOMAIN gapRows : gapRows[k].row = i
    <3>1. PICK gap \in Gap : gap.row = i
      BY <2>3 DEF Gap, Range
    <3>2. QED
      BY <1>1, <3>1, GapRowDecodes
  <2>4. QED
    BY <2>1, <2>2, <2>3
<1>2. QED
  BY <1>1, InvHolds, SInvHolds, PInvHolds, GInvHolds, EInvHolds, DoneAtZero, PTL

-----------------------------------------------------------------------------
(* Duplicate keys. *)

\* Two rows with the same columns and hash cannot both be main rows, and are not one in
\* main and one in the gap; in the gap they were sent there by the same main row.
LEMMA TwinsInGap ==
  ASSUME TInv, PInv, Triangular, pc # "error", NEW i \in rowSet, NEW j \in rowSet,
         i # j, mRows[i] = mRows[j], mDense[i] = mDense[j]
  PROVE  \E g, h \in Gap : g.row = i /\ h.row = j /\ g.main = h.main
<1> DEFINE At(q, k) == /\ k \in DOMAIN main /\ main[k].col \in mRows[q]
                       /\ \A l \in 1 .. k - 1 : main[l].col \notin mRows[q]
<1>1. DOMAIN main = 1 .. Len(main) /\ Len(main) \in Nat
  BY MainEntries
<1>2. ASSUME NEW k, At(i, k), NEW l, At(j, l) PROVE k = l
  <2>1. k \in Nat /\ l \in Nat /\ k >= 1 /\ l >= 1
    BY <1>1, <1>2
  <2>2. ~ (k < l)
    <3>1. k < l => k \in 1 .. l - 1
      BY <2>1
    <3>2. QED
      BY <1>2, <3>1
  <2>3. ~ (l < k)
    <3>1. l < k => l \in 1 .. k - 1
      BY <2>1
    <3>2. QED
      BY <1>2, <3>1
  <2>4. QED
    BY <2>1, <2>2, <2>3
<1>3. \A k \in DOMAIN main : At(main[k].row, k)
  BY DEF Triangular
<1>4. \A g \in Gap : \E k \in DOMAIN main :
        At(g.row, k) /\ main[k].row = g.main /\ mDense[g.row] # mDense[g.main]
  BY DEF PInv, Collides, Gap, Range
<1>5. \A q \in rowSet : (\E k \in DOMAIN main : main[k].row = q) \/ \E g \in Gap : g.row = q
  BY DEF PInv, Gap, Range
<1> HIDE DEF At
<1>6. CASE (\E k \in DOMAIN main : main[k].row = i) /\ (\E k \in DOMAIN main : main[k].row = j)
  BY <1>2, <1>3, <1>6
<1>7. CASE (\E k \in DOMAIN main : main[k].row = i) /\ (\E g \in Gap : g.row = j)
  BY <1>2, <1>3, <1>4, <1>7
<1>8. CASE (\E g \in Gap : g.row = i) /\ (\E k \in DOMAIN main : main[k].row = j)
  BY <1>2, <1>3, <1>4, <1>8
<1>9. CASE (\E g \in Gap : g.row = i) /\ (\E g \in Gap : g.row = j)
  BY <1>2, <1>4, <1>9
<1>10. QED
  BY <1>5, <1>6, <1>7, <1>8, <1>9

\* Two such rows of the gap have the same combined columns, which no invertible matrix
\* has.
LEMMA SolvedApart ==
  ASSUME Inv, PInv, NEW S \in GapChoices, NEW g \in Gap, NEW h \in Gap,
         g.main = h.main, mRows[g.row] = mRows[h.row], mDense[g.row] = mDense[h.row]
  PROVE  g = h
<1>1. FCInv(g) = FCInv(h)
  BY DEF FCInv, Eliminate
<1>2. /\ g.row \in Items /\ h.row \in Items /\ FCInv(g) \subseteq Items
      /\ g.row \notin FCInv(g) /\ h.row \notin FCInv(g)
  BY <1>1, Elimination DEF Inv
<1>3. IsFiniteSet(FCInv(g))
  <2>1. IsFiniteSet(Items)
    BY FS_Interval, SizeAssumption DEF Items
  <2>2. QED
    BY <1>2, <2>1, FS_Subset
<1>4. Row(g.row) = Row(h.row)
  BY DEF Row
<1>5. ASSUME NEW c \in Cols
      PROVE  Odd({i \in Summed(g) : c \in Row(i)}) <=> Odd({i \in Summed(h) : c \in Row(i)})
  <2> DEFINE F == {i \in FCInv(g) : c \in Row(i)}
  <2>1. IsFiniteSet(F) /\ g.row \notin F /\ h.row \notin F
    <3>1. F \in SUBSET FCInv(g)
      OBVIOUS
    <3>2. QED
      BY <1>2, <1>3, <3>1, FS_Subset
  <2>2. CASE c \in Row(g.row)
    <3>1. {i \in Summed(g) : c \in Row(i)} = F \cup {g.row}
          /\ {i \in Summed(h) : c \in Row(i)} = F \cup {h.row}
      BY <1>1, <1>4, <2>2 DEF Summed
    <3> HIDE DEF F
    <3>2. (Odd(F \cup {g.row}) <=> ~ Odd(F)) /\ (Odd(F \cup {h.row}) <=> ~ Odd(F))
      BY <2>1, OddToggle
    <3>3. QED
      BY <3>1, <3>2
  <2>3. CASE c \notin Row(g.row)
    <3>1. {i \in Summed(g) : c \in Row(i)} = F /\ {i \in Summed(h) : c \in Row(i)} = F
      BY <1>1, <1>4, <2>3 DEF Summed
    <3>2. QED
      BY <3>1
  <2>4. QED
    BY <2>2, <2>3
<1>6. Combined(g) = Combined(h)
  BY <1>5 DEF Combined
<1>7. SumOf(S, S \cap Combined(g)) = {g} /\ SumOf(S, S \cap Combined(h)) = {h}
  BY InverseOfRow
<1>8. QED
  BY <1>6, <1>7

\* Once the gap is solved, no two items have the same hash.
DInv ==
  /\ SameHashSameRow
  /\ pc \in {"solve", "done"} => IsInjective(mDense)

LEMMA SolveGapDInv ==
  ASSUME Inv, PInv, EInv, TypeInv, DInv, NEW S \in SUBSET DenseCols, SolveGap(S)
  PROVE  IsInjective(mDense)
<1>1. pc = "gap" /\ S \in GapChoices /\ rowSet = Items
  BY DEF SolveGap, EInv
<1>2. DOMAIN mDense = Items
  BY SizeAssumption DEF TypeInv
<1> SUFFICES ASSUME NEW i \in Items, NEW j \in Items, mDense[i] = mDense[j], i # j
             PROVE  FALSE
  BY <1>2 DEF IsInjective
<1>3. mRows[i] = mRows[j]
  BY DEF DInv, SameHashSameRow
<1>4. PICK g, h \in Gap : g.row = i /\ h.row = j /\ g.main = h.main
  BY <1>1, <1>3, TwinsInGap DEF Inv
<1>5. g = h
  BY <1>1, <1>3, <1>4, SolvedApart
<1>6. QED
  BY <1>4, <1>5

\* Duplicate keys never get an encoding: triangulate throws, or the gap has no invertible
\* matrix.
THEOREM DuplicatesRefusedHolds ==
  ASSUME RetryFailed = FALSE
  PROVE  Spec => []DuplicatesRefused
<1>1. Init => DInv
  BY DEF Init, DInv
<1>2. Inv /\ PInv /\ EInv /\ TypeInv /\ DInv /\ [Next]_vars => DInv'
  <2> SUFFICES ASSUME Inv, PInv, EInv, TypeInv, DInv, [Next]_vars PROVE DInv'
    OBVIOUS
  <2>1. UNCHANGED <<mRows, mDense>>
    BY DEF Next, Triangulate, RandomizeFree, SolveGap, FailGap, BackfillRow, Return, EncodeAgain,
           vars, matrix
  <2>2. SameHashSameRow'
    BY <2>1 DEF DInv, SameHashSameRow
  <2>3. CASE \E S \in SUBSET DenseCols : SolveGap(S)
    <3>1. IsInjective(mDense)
      BY <2>3, SolveGapDInv
    <3>2. QED
      BY <2>1, <2>2, <3>1 DEF DInv, IsInjective
  <2>4. CASE ~ \E S \in SUBSET DenseCols : SolveGap(S)
    <3>1. pc' \in {"solve", "done"} => pc \in {"solve", "done"}
      BY <2>4 DEF Next, Triangulate, RandomizeFree, FailGap, BackfillRow, Return, EncodeAgain, vars
    <3>2. QED
      BY <2>1, <2>2, <3>1 DEF DInv, IsInjective
  <2>5. QED
    BY <2>3, <2>4
<1>3. DInv => DuplicatesRefused
  BY DEF DInv, DuplicatesRefused
<1>4. QED
  BY <1>1, <1>2, <1>3, InvHolds, PInvHolds, EInvHolds, TypeInvHolds, PTL DEF Spec

=============================================================================
