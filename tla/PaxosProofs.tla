---------------------------- MODULE PaxosProofs ----------------------------
(***************************************************************************)
(* Proofs about triangulate, for every matrix and every choice of columns. *)
(*                                                                         *)
(* Triangular and WeightsExact are not inductive.  What makes them so is   *)
(* that the rows of a column already taken are all in rowSet, and that no  *)
(* weight exceeds the number of rows left (even in an encode that follows  *)
(* a failed one), so that the column taken always has a row to place.      *)
(***************************************************************************)
EXTENDS Paxos, FiniteSetTheorems, WellFoundedInduction, TLAPS

-----------------------------------------------------------------------------
(* Least elements and sizes. *)

\* A set of naturals with an element has a least one: Min is well defined.
LEMMA LeastNatural ==
  ASSUME NEW S \in SUBSET Nat, S # {}
  PROVE  Min(S) \in S /\ \A y \in S : Min(S) <= y
<1> DEFINE Below == {p \in Nat \X Nat : p[1] < p[2]}
<1>1. IsWellFoundedOn(Below, Nat)
  BY NatLessThanWellFounded DEF OpToRel
<1> HIDE DEF Below
<1>2. PICK x \in S : \A y \in S : ~ (<<y, x>> \in Below)
  BY <1>1, WFMin
<1>3. \A y \in S : ~ (y < x)
  BY <1>2 DEF Below
<1>4. \A y \in S : x <= y
  BY <1>3
<1>5. QED
  BY <1>4 DEF Min

\* Placing more rows takes as many from those left with a column.
LEMMA RowsLeft ==
  ASSUME NEW P, NEW S, NEW R, IsFiniteSet(R), P \cap S = {}
  PROVE  /\ Cardinality(R \ S) \in Nat /\ Cardinality(P \cap R) \in Nat
         /\ Cardinality(P \cap R) <= Cardinality(R \ S)
         /\ Cardinality(R \ (S \cup P)) = Cardinality(R \ S) - Cardinality(P \cap R)
<1>1. IsFiniteSet(R \ S)
  BY FS_Difference
<1>2. /\ IsFiniteSet((R \ S) \ P)
      /\ Cardinality((R \ S) \ P) = Cardinality(R \ S) - Cardinality((R \ S) \cap P)
  BY <1>1, FS_Difference
<1>3. (R \ S) \ P = R \ (S \cup P) /\ (R \ S) \cap P = P \cap R
  OBVIOUS
<1>4. P \cap R \in SUBSET (R \ S)
  OBVIOUS
<1>5. IsFiniteSet(P \cap R) /\ Cardinality(P \cap R) <= Cardinality(R \ S)
  BY <1>1, <1>4, FS_Subset
<1>6. QED
  BY <1>1, <1>2, <1>3, <1>5, FS_CardinalityType

LEMMA RowsOfFinite ==
  ASSUME NEW c
  PROVE  RowsOf(c) \subseteq Items /\ IsFiniteSet(RowsOf(c))
<1>1. IsFiniteSet(Items)
  BY FS_Interval, SizeAssumption DEF Items
<1>2. RowsOf(c) \in SUBSET Items
  BY DEF RowsOf
<1>3. QED
  BY <1>1, <1>2, FS_Subset

-----------------------------------------------------------------------------
(* The invariant. *)

\* The types of what triangulate reads and writes.
TInv ==
  /\ mRows \in [Items -> SUBSET SparseCols]
  /\ weight \in [SparseCols -> Nat]
  /\ listed \subseteq SparseCols
  /\ rowSet \subseteq Items
  /\ main \in Seq([row : Items, col : SparseCols])

\* A listed column weighs no more than its rows left, a column taken has none.
WInv == \A c \in listed : weight[c] <= Cardinality(RowsOf(c) \ rowSet)
MInv == pc = "triangulate" => \A k \in DOMAIN main : RowsOf(main[k].col) \subseteq rowSet

Inv == TInv /\ WInv /\ MInv /\ Triangular

\* What a step of triangulate places, with the names of its LET.
Placed(c) ==
  LET new  == NewRows(c)
      same == {r \in new \ {Min(new)} : mDense[r] = mDense[Min(new)]}
  IN IF same = {} THEN new ELSE {r \in new : r <= Min(same)}

LEMMA InitInv == Init => Inv
<1> SUFFICES ASSUME Init PROVE Inv
  OBVIOUS
<1>1. TInv
  <2>1. mRows \in [Items -> SUBSET SparseCols]
    BY SizeAssumption DEF Init
  <2>2. InitialWeights \in [SparseCols -> Nat]
    BY RowsOfFinite, FS_CardinalityType DEF InitialWeights
  <2>3. QED
    BY <2>1, <2>2 DEF Init, TInv
<1>2. WInv
  <2> SUFFICES ASSUME NEW c \in listed
               PROVE  weight[c] <= Cardinality(RowsOf(c) \ rowSet)
    BY DEF WInv
  <2>1. RowsOf(c) \ rowSet = RowsOf(c) /\ weight[c] = Cardinality(RowsOf(c))
    BY DEF Init, InitialWeights
  <2>2. Cardinality(RowsOf(c)) \in Nat
    BY RowsOfFinite, FS_CardinalityType
  <2>3. QED
    BY <2>1, <2>2
<1>3. MInv /\ Triangular
  BY DEF Init, MInv, Triangular
<1>4. QED
  BY <1>1, <1>2, <1>3 DEF Inv

\* The column that is taken has a row to place: the throw at PaxosImpl.h:1172 is
\* never reached, and the first row is one that has the column.
LEMMA FirstRow ==
  ASSUME TInv, WInv, NEW c \in Left
  PROVE  /\ NewRows(c) \subseteq Items /\ NewRows(c) # {}
         /\ Min(NewRows(c)) \in NewRows(c)
         /\ Placed(c) \subseteq NewRows(c)
<1>1. c \in listed /\ weight[c] > 0 /\ c \in SparseCols /\ weight[c] \in Nat
  BY DEF Left, TInv
<1>2. weight[c] <= Cardinality(NewRows(c))
  BY <1>1 DEF WInv, NewRows
<1>3. NewRows(c) # {}
  <2>1. SUFFICES ASSUME NewRows(c) = {} PROVE FALSE
    OBVIOUS
  <2>2. Cardinality(NewRows(c)) = 0
    BY <2>1, FS_EmptySet
  <2>3. QED
    BY <1>1, <1>2, <2>2
<1>4. NewRows(c) \subseteq Items
  BY DEF NewRows, RowsOf
<1>5. Items \subseteq Nat
  BY SizeAssumption DEF Items
<1>6. Min(NewRows(c)) \in NewRows(c)
  BY <1>3, <1>4, <1>5, LeastNatural
<1>7. QED
  BY <1>3, <1>4, <1>6 DEF Placed

\* The parts of a step of triangulate the invariant is about.
LEMMA TriangulateStep ==
  ASSUME NEW c, Triangulate(c)
  PROVE  /\ pc = "triangulate" /\ c \in Left
         /\ mRows' = mRows
         /\ listed' = listed \ {c}
         /\ weight' = [d \in SparseCols |-> Lessened(IF d = c THEN 0 ELSE weight[d],
                                                     Cardinality(Placed(c) \cap RowsOf(d)))]
         /\ rowSet' = rowSet \cup Placed(c)
         /\ main' = Append(main, [row |-> Min(NewRows(c)), col |-> c])
         /\ pc' = "triangulate" => Placed(c) = NewRows(c)
  BY DEF Triangulate, Placed, matrix

\* The next entry of main, and where it ends up.
LEMMA AppendEntry ==
  ASSUME NEW T, NEW s \in Seq(T), NEW e \in T, NEW t, t = Append(s, e)
  PROVE  /\ t \in Seq(T) /\ Len(s) \in Nat
         /\ Len(t) = Len(s) + 1 /\ DOMAIN t = 1 .. Len(s) + 1 /\ DOMAIN s = 1 .. Len(s)
         /\ \A k \in DOMAIN s : t[k] = s[k]
         /\ t[Len(s) + 1] = e
  OBVIOUS

LEMMA TriangulateInv ==
  ASSUME Inv, NEW c, Triangulate(c)
  PROVE  Inv'
<1> USE TriangulateStep
<1> DEFINE row == Min(NewRows(c))
           entry == [row |-> row, col |-> c]
<1>1. TInv /\ WInv /\ MInv /\ Triangular
  BY DEF Inv
<1>2. /\ NewRows(c) \subseteq Items /\ row \in NewRows(c)
      /\ Placed(c) \subseteq NewRows(c)
  BY <1>1, FirstRow
<1>3. c \in SparseCols /\ row \in Items /\ row \notin rowSet /\ c \in mRows[row]
  BY <1>1, <1>2 DEF Left, TInv, NewRows, RowsOf
<1>entry. entry \in [row : Items, col : SparseCols] /\ main \in Seq([row : Items, col : SparseCols])
  BY <1>1, <1>3 DEF TInv
<1>4. /\ main' \in Seq([row : Items, col : SparseCols])
      /\ DOMAIN main' = 1 .. Len(main) + 1 /\ DOMAIN main = 1 .. Len(main) /\ Len(main) \in Nat
      /\ \A k \in DOMAIN main : main'[k] = main[k]
      /\ main'[Len(main) + 1] = entry
  <2>1. main' = Append(main, entry)
    OBVIOUS
  <2>2. QED
    BY <1>entry, <2>1, AppendEntry
<1>5. TInv'
  <2>1. weight' \in [SparseCols -> Nat]
    <3> SUFFICES ASSUME NEW d \in SparseCols
                 PROVE  Lessened(IF d = c THEN 0 ELSE weight[d],
                                 Cardinality(Placed(c) \cap RowsOf(d))) \in Nat
      OBVIOUS
    <3>1. Cardinality(Placed(c) \cap RowsOf(d)) \in Nat
      <4>1. Placed(c) \cap RowsOf(d) \in SUBSET RowsOf(d)
        OBVIOUS
      <4>2. QED
        BY <4>1, RowsOfFinite, FS_Subset, FS_CardinalityType
    <3>2. weight[d] \in Nat
      BY <1>1 DEF TInv
    <3>3. QED
      BY <3>1, <3>2 DEF Lessened
  <2>2. main' \in Seq([row : Items, col : SparseCols])
    BY <1>4
  <2>3. rowSet' \subseteq Items /\ listed' \subseteq SparseCols
    BY <1>1, <1>2 DEF TInv
  <2>4. QED
    BY <1>1, <2>1, <2>2, <2>3 DEF TInv
<1>6. \A d : RowsOf(d)' = RowsOf(d)
  BY DEF RowsOf
<1>7. WInv'
  <2> SUFFICES ASSUME NEW d \in listed'
               PROVE  weight'[d] <= Cardinality(RowsOf(d) \ rowSet')
    BY <1>6 DEF WInv
  <2>1. d \in listed /\ d # c /\ d \in SparseCols
    BY <1>1 DEF TInv
  <2>2. Placed(c) \cap rowSet = {}
    BY <1>2 DEF NewRows
  <2>3. /\ Cardinality(RowsOf(d) \ rowSet) \in Nat
        /\ Cardinality(Placed(c) \cap RowsOf(d)) \in Nat
        /\ Cardinality(Placed(c) \cap RowsOf(d)) <= Cardinality(RowsOf(d) \ rowSet)
        /\ Cardinality(RowsOf(d) \ rowSet')
             = Cardinality(RowsOf(d) \ rowSet) - Cardinality(Placed(c) \cap RowsOf(d))
    <3>1. IsFiniteSet(RowsOf(d))
      BY RowsOfFinite
    <3>2. rowSet' = rowSet \cup Placed(c)
      OBVIOUS
    <3>3. Cardinality(RowsOf(d) \ (rowSet \cup Placed(c)))
            = Cardinality(RowsOf(d) \ rowSet) - Cardinality(Placed(c) \cap RowsOf(d))
      BY <2>2, <3>1, RowsLeft
    <3>4. QED
      BY <2>2, <3>1, <3>2, <3>3, RowsLeft
  <2>4. weight[d] <= Cardinality(RowsOf(d) \ rowSet) /\ weight[d] \in Nat
    BY <1>1, <2>1 DEF WInv, TInv
  <2>5. weight'[d] = Lessened(weight[d], Cardinality(Placed(c) \cap RowsOf(d)))
    BY <2>1
  <2>6. QED
    BY <2>3, <2>4, <2>5 DEF Lessened
<1>8. MInv'
  <2> SUFFICES ASSUME pc' = "triangulate", NEW k \in DOMAIN main'
               PROVE  RowsOf(main'[k].col) \subseteq rowSet'
    BY <1>6 DEF MInv
  <2>1. CASE k \in DOMAIN main
    <3>1. RowsOf(main[k].col) \subseteq rowSet
      BY <1>1, <2>1 DEF MInv
    <3>2. QED
      BY <1>4, <2>1, <3>1
  <2>2. CASE k = Len(main) + 1
    BY <1>4, <2>2 DEF NewRows
  <2>3. QED
    BY <1>4, <2>1, <2>2
<1>9. Triangular'
  <2> SUFFICES ASSUME NEW k \in DOMAIN main'
               PROVE  /\ main'[k].col \in mRows[main'[k].row]
                      /\ \A j \in 1 .. k - 1 : main'[j].col \notin mRows[main'[k].row]
    BY DEF Triangular
  <2>1. CASE k \in DOMAIN main
    <3>1. \A j \in 1 .. k - 1 : j \in DOMAIN main
      BY <1>4, <2>1
    <3>2. QED
      BY <1>1, <1>4, <2>1, <3>1 DEF Triangular
  <2>2. CASE k = Len(main) + 1
    <3>1. main'[k].row = row /\ main'[k].col = c
      BY <1>4, <2>2
    <3> SUFFICES ASSUME NEW j \in 1 .. k - 1 PROVE main[j].col \notin mRows[row]
      BY <1>3, <1>4, <2>2, <3>1
    <3>2. j \in DOMAIN main
      BY <1>4, <2>2
    <3>3. RowsOf(main[j].col) \subseteq rowSet
      BY <1>1, <3>2 DEF MInv
    <3>4. QED
      BY <1>3, <3>3 DEF RowsOf
  <2>3. QED
    BY <1>4, <2>1, <2>2
<1>10. QED
  BY <1>5, <1>7, <1>8, <1>9 DEF Inv

\* A new call of encode starts with no rows placed: the weights it takes over are
\* no larger than the rows there are.
LEMMA EncodeAgainInv ==
  ASSUME Inv, EncodeAgain
  PROVE  Inv'
<1>1. \A d : RowsOf(d)' = RowsOf(d)
  BY DEF RowsOf, EncodeAgain, matrix
<1>2. InitialWeights \in [SparseCols -> Nat]
  BY RowsOfFinite, FS_CardinalityType DEF InitialWeights
<1>3. TInv'
  BY <1>2 DEF Inv, TInv, EncodeAgain, matrix
<1>4. WInv'
  <2> SUFFICES ASSUME NEW c \in listed'
               PROVE  weight'[c] <= Cardinality(RowsOf(c) \ rowSet')
    BY <1>1 DEF WInv
  <2>1. RowsOf(c) \ rowSet' = RowsOf(c)
    BY DEF EncodeAgain
  <2>2. IsFiniteSet(RowsOf(c)) /\ Cardinality(RowsOf(c)) \in Nat
    BY RowsOfFinite, FS_CardinalityType
  <2>3. CASE Left = {}
    BY <2>1, <2>2, <2>3 DEF EncodeAgain, InitialWeights
  <2>4. CASE Left # {}
    <3>1. c \in listed /\ weight'[c] = weight[c] /\ weight[c] \in Nat
      BY <2>4 DEF EncodeAgain, Inv, TInv
    <3>2. weight[c] <= Cardinality(RowsOf(c) \ rowSet)
      BY <3>1 DEF Inv, WInv
    <3>3. RowsOf(c) \ rowSet \in SUBSET RowsOf(c)
      OBVIOUS
    <3>4. Cardinality(RowsOf(c) \ rowSet) \in Nat
          /\ Cardinality(RowsOf(c) \ rowSet) <= Cardinality(RowsOf(c))
      BY <2>2, <3>3, FS_Subset, FS_CardinalityType
    <3>5. QED
      BY <2>1, <2>2, <3>1, <3>2, <3>4
  <2>5. QED
    BY <2>3, <2>4
<1>5. MInv' /\ Triangular'
  BY DEF EncodeAgain, MInv, Triangular
<1>6. QED
  BY <1>3, <1>4, <1>5 DEF Inv

\* The other steps leave the matrix, the weights and the main rows alone.
LEMMA OtherInv ==
  ASSUME Inv,
         \/ RandomizeFree \/ FailGap \/ BackfillRow \/ Return
         \/ UNCHANGED vars \/ \E S \in SUBSET DenseCols : SolveGap(S)
  PROVE  Inv'
<1>1. /\ UNCHANGED <<mRows, weight, listed, rowSet, main>>
      /\ pc' = "triangulate" => pc = "triangulate"
  BY DEF RandomizeFree, FailGap, BackfillRow, Return, SolveGap, vars, matrix
<1>2. \A d : RowsOf(d)' = RowsOf(d)
  BY <1>1 DEF RowsOf
<1>3. QED
  BY <1>1, <1>2 DEF Inv, TInv, WInv, MInv, Triangular

THEOREM InvHolds == Spec => []Inv
<1>1. Inv /\ [Next]_vars => Inv'
  BY TriangulateInv, EncodeAgainInv, OtherInv DEF Next
<1>2. QED
  BY InitInv, <1>1, PTL DEF Spec

\* Whatever the matrix and the order of the columns, also in an encode that comes
\* after a failed one, the matrix C of backfill is triangular.
THEOREM TriangularHolds == Spec => []Triangular
<1>1. Inv => Triangular
  BY DEF Inv
<1>2. QED
  BY InvHolds, <1>1, PTL

-----------------------------------------------------------------------------
(* Exact weights, in encodes that follow no failed one. *)

\* A column that is no longer listed has no row left; when none of positive weight
\* is listed, every row is placed.
EInv ==
  /\ \A i \in Items : mRows[i] # {}
  /\ pc = "triangulate" => \A c \in SparseCols \ listed : RowsOf(c) \subseteq rowSet
  /\ pc \in {"gap", "solve", "done"} => Left = {} /\ rowSet = Items
  /\ WeightsExact

LEMMA InitEInv == Init => EInv
<1> SUFFICES ASSUME Init PROVE EInv
  OBVIOUS
<1>1. \A i \in Items : mRows[i] # {}
  <2> SUFFICES ASSUME NEW i \in Items PROVE mRows[i] # {}
    OBVIOUS
  <2>1. Cardinality(mRows[i]) = mWeight /\ mWeight # 0
    BY SizeAssumption DEF Init
  <2>2. QED
    BY <2>1, FS_EmptySet
<1>2. WeightsExact
  <2> SUFFICES ASSUME NEW c \in listed
               PROVE  weight[c] = Cardinality(RowsOf(c) \ rowSet)
    BY DEF WeightsExact
  <2>1. RowsOf(c) \ rowSet = RowsOf(c)
    BY DEF Init
  <2>2. QED
    BY <2>1 DEF Init, InitialWeights
<1>3. QED
  BY <1>1, <1>2 DEF Init, EInv

LEMMA TriangulateEInv ==
  ASSUME Inv, EInv, NEW c, Triangulate(c)
  PROVE  EInv'
<1> USE TriangulateStep
<1>1. TInv /\ WInv
  BY DEF Inv
<1>2. Placed(c) \subseteq NewRows(c) /\ c \in SparseCols
  BY <1>1, FirstRow DEF Left, TInv
<1>3. \A d : RowsOf(d)' = RowsOf(d)
  BY DEF RowsOf
<1>4. pc' \in {"triangulate", "error"}
  BY DEF Triangulate
<1>5. pc' = "triangulate" => \A d \in SparseCols \ listed' : RowsOf(d)' \subseteq rowSet'
  BY <1>2, <1>3 DEF EInv, NewRows
<1>6. WeightsExact'
  <2> SUFFICES ASSUME pc' = "triangulate", NEW d \in listed'
               PROVE  weight'[d] = Cardinality(RowsOf(d) \ rowSet')
    BY <1>3 DEF WeightsExact
  <2>1. d \in listed /\ d # c /\ d \in SparseCols
    BY <1>1 DEF TInv
  <2>2. Placed(c) \cap rowSet = {} /\ rowSet' = rowSet \cup Placed(c) /\ IsFiniteSet(RowsOf(d))
    BY <1>2, RowsOfFinite DEF NewRows
  <2>3. /\ Cardinality(RowsOf(d) \ rowSet) \in Nat
        /\ Cardinality(Placed(c) \cap RowsOf(d)) \in Nat
        /\ Cardinality(Placed(c) \cap RowsOf(d)) <= Cardinality(RowsOf(d) \ rowSet)
        /\ Cardinality(RowsOf(d) \ (rowSet \cup Placed(c)))
             = Cardinality(RowsOf(d) \ rowSet) - Cardinality(Placed(c) \cap RowsOf(d))
    BY <2>2, RowsLeft
  <2>4. weight[d] = Cardinality(RowsOf(d) \ rowSet)
    BY <2>1 DEF EInv, WeightsExact
  <2>5. weight'[d] = Lessened(weight[d], Cardinality(Placed(c) \cap RowsOf(d)))
    BY <2>1
  <2>6. QED
    BY <2>2, <2>3, <2>4, <2>5 DEF Lessened
<1>7. QED
  BY <1>4, <1>5, <1>6 DEF EInv

\* A row that is not placed has no listed column, since its weight would not be
\* zero, and no column taken, since those have no row left: there is no such row.
LEMMA AllPlaced ==
  ASSUME TInv, EInv, pc = "triangulate", Left = {}
  PROVE  rowSet = Items
<1> SUFFICES ASSUME NEW i \in Items, i \notin rowSet PROVE FALSE
  BY DEF TInv
<1>1. PICK c \in mRows[i] : c \in SparseCols
  BY DEF EInv, TInv
<1>2. i \in RowsOf(c) \ rowSet
  BY <1>1 DEF RowsOf
<1>3. c \in listed
  BY <1>1, <1>2 DEF EInv
<1>4. weight[c] = 0
  BY <1>1, <1>3 DEF Left, TInv
<1>5. Cardinality(RowsOf(c) \ rowSet) = 0
  BY <1>3, <1>4 DEF EInv, WeightsExact
<1>6. IsFiniteSet(RowsOf(c) \ rowSet)
  BY RowsOfFinite, FS_Difference
<1>7. QED
  BY <1>2, <1>5, <1>6, FS_EmptySet

LEMMA OtherEInv ==
  ASSUME Inv, EInv,
         \/ RandomizeFree \/ FailGap \/ BackfillRow \/ Return
         \/ UNCHANGED vars \/ \E S \in SUBSET DenseCols : SolveGap(S)
  PROVE  EInv'
<1>1. UNCHANGED <<mRows, weight, listed, rowSet>>
  BY DEF RandomizeFree, FailGap, BackfillRow, Return, SolveGap, vars, matrix
<1>2. (\A d : RowsOf(d)' = RowsOf(d)) /\ Left' = Left
  BY <1>1 DEF RowsOf, Left
<1>3. CASE RandomizeFree
  <2>1. pc' = "gap" /\ pc = "triangulate" /\ Left = {}
    BY <1>3 DEF RandomizeFree
  <2>2. rowSet = Items
    BY <2>1, AllPlaced DEF Inv
  <2>3. QED
    BY <1>1, <1>2, <2>1, <2>2 DEF EInv, WeightsExact
<1>4. CASE UNCHANGED vars
  BY <1>1, <1>2, <1>4 DEF vars, EInv, WeightsExact
<1>5. CASE FailGap \/ BackfillRow \/ Return \/ \E S \in SUBSET DenseCols : SolveGap(S)
  <2>1. /\ pc \in {"gap", "solve", "done"}
        /\ pc' \in {"gap", "solve", "done", "error"}
    BY <1>5 DEF FailGap, BackfillRow, Return, SolveGap
  <2>2. QED
    BY <1>1, <1>2, <2>1 DEF EInv, WeightsExact
<1>6. QED
  BY <1>3, <1>4, <1>5

LEMMA EncodeAgainEInv ==
  ASSUME RetryFailed = FALSE, EInv, EncodeAgain
  PROVE  EInv'
<1>1. pc = "done" /\ Left = {}
  BY DEF EncodeAgain, EInv
<1>2. (\A d : RowsOf(d)' = RowsOf(d)) /\ mRows' = mRows
  BY DEF RowsOf, EncodeAgain, matrix
<1>3. weight' = InitialWeights /\ listed' = SparseCols /\ rowSet' = {} /\ pc' = "triangulate"
  BY <1>1 DEF EncodeAgain
<1>4. WeightsExact'
  <2> SUFFICES ASSUME NEW c \in SparseCols
               PROVE  weight'[c] = Cardinality(RowsOf(c) \ rowSet')
    BY <1>2, <1>3 DEF WeightsExact
  <2>1. RowsOf(c) \ rowSet' = RowsOf(c)
    BY <1>3
  <2>2. QED
    BY <1>3, <2>1 DEF InitialWeights
<1>5. QED
  BY <1>2, <1>3, <1>4 DEF EInv

THEOREM EInvHolds ==
  ASSUME RetryFailed = FALSE
  PROVE  Spec => []EInv
<1>1. Inv /\ EInv /\ [Next]_vars => EInv'
  BY TriangulateEInv, OtherEInv, EncodeAgainEInv DEF Next
<1>2. QED
  BY InitEInv, InvHolds, <1>1, PTL DEF Spec

\* The weights never drift from the matrix.
THEOREM WeightsExactHolds ==
  ASSUME RetryFailed = FALSE
  PROVE  Spec => []WeightsExact
<1>1. EInv => WeightsExact
  BY DEF EInv
<1>2. QED
  BY EInvHolds, <1>1, PTL

\* triangulate returns with every row placed: no item is left out of the system
\* that backfill solves.
THEOREM NoRowLeftOut ==
  ASSUME RetryFailed = FALSE
  PROVE  Spec => [](pc \in {"gap", "solve", "done"} => rowSet = Items)
<1>1. EInv => (pc \in {"gap", "solve", "done"} => rowSet = Items)
  BY DEF EInv
<1>2. QED
  BY EInvHolds, <1>1, PTL

-----------------------------------------------------------------------------
(* Back substitution. *)

\* The XOR over S does not see a change of a column outside S; changed at a column
\* of S that was zero, it becomes any block B when that column is given the XOR of
\* B and what the XOR over S was.
LEMMA XorOverSame ==
  ASSUME NEW out, NEW new, NEW S, \A c \in S : new[c] = out[c]
  PROVE  XorOver(new, S) = XorOver(out, S)
<1>1. \A a : {c \in S : a \in new[c]} = {c \in S : a \in out[c]}
  OBVIOUS
<1>2. QED
  BY <1>1 DEF XorOver

LEMMA OddToggle ==
  ASSUME NEW S, IsFiniteSet(S), NEW x, x \notin S
  PROVE  Odd(S \cup {x}) <=> ~ Odd(S)
<1>1. Cardinality(S \cup {x}) = Cardinality(S) + 1
  BY FS_AddElement
<1>2. Cardinality(S) \in Nat
  BY FS_CardinalityType
<1>3. QED
  BY <1>1, <1>2 DEF Odd

LEMMA XorOverSolve ==
  ASSUME NEW S, IsFiniteSet(S), NEW c \in S, NEW B \in Blocks,
         NEW out, NEW new, out[c] = {},
         new[c] = SymDiff(B, XorOver(out, S)),
         \A d \in S \ {c} : new[d] = out[d]
  PROVE  XorOver(new, S) = B
<1> SUFFICES ASSUME NEW a \in Atoms
             PROVE  Odd({d \in S : a \in new[d]}) <=> a \in B
  BY DEF XorOver, Blocks
<1> DEFINE A == {d \in S : a \in out[d]}
           N == {d \in S : a \in new[d]}
<1>1. c \notin A /\ N \ {c} = A
  OBVIOUS
<1>2. IsFiniteSet(A)
  <2>1. A \in SUBSET S
    OBVIOUS
  <2>2. QED
    BY <2>1, FS_Subset
<1>3. a \in new[c] <=> (a \in B <=> ~ Odd(A))
  BY DEF XorOver, SymDiff
<1>4. CASE a \in new[c]
  <2>1. N = A \cup {c}
    BY <1>1, <1>4
  <2>2. Odd(N) <=> ~ Odd(A)
    BY <1>1, <1>2, <2>1, OddToggle
  <2>3. QED
    BY <1>3, <1>4, <2>2
<1>5. CASE a \notin new[c]
  <2>1. N = A
    BY <1>1, <1>5
  <2>2. QED
    BY <1>3, <1>5, <2>1
<1>6. QED
  BY <1>4, <1>5

LEMMA RowFinite ==
  ASSUME TInv, NEW i \in Items
  PROVE  /\ Row(i) \subseteq Cols /\ IsFiniteSet(Row(i))
         /\ mRows[i] \subseteq SparseCols /\ X(i) \in Blocks
<1>1. IsFiniteSet(SparseCols) /\ IsFiniteSet(DenseCols)
  BY FS_Interval, SizeAssumption DEF SparseCols, DenseCols
<1>2. IsFiniteSet(Cols)
  BY <1>1, FS_Union DEF Cols
<1>3. mRows[i] \subseteq SparseCols
  BY DEF TInv
<1>4. Row(i) \in SUBSET Cols
  BY <1>3 DEF Row, Cols
<1>5. QED
  BY <1>2, <1>3, <1>4, FS_Subset DEF X, Blocks, Atoms

LEMMA Entries ==
  ASSUME NEW T, NEW s \in Seq(T)
  PROVE  DOMAIN s = 1 .. Len(s) /\ Len(s) \in Nat /\ \A k \in DOMAIN s : s[k] \in T
  OBVIOUS

LEMMA MainEntries ==
  ASSUME TInv
  PROVE  /\ DOMAIN main = 1 .. Len(main) /\ Len(main) \in Nat
         /\ \A k \in DOMAIN main : main[k].row \in Items /\ main[k].col \in SparseCols
<1>1. main \in Seq([row : Items, col : SparseCols])
  BY DEF TInv
<1>2. /\ DOMAIN main = 1 .. Len(main) /\ Len(main) \in Nat
      /\ \A k \in DOMAIN main : main[k] \in [row : Items, col : SparseCols]
  BY <1>1, Entries
<1>3. QED
  BY <1>2

LEMMA Apart == SparseCols \cap DenseCols = {}
  BY SizeAssumption DEF SparseCols, DenseCols

\* The columns of main rows not yet solved are zero, and so are the dense columns
\* that backfill leaves out when the encoding is not randomized.
Zero(n) == \A k \in 1 .. n : output[main[k].col] = {}

SInv ==
  /\ output \in [Cols -> Blocks]
  /\ \A k \in DOMAIN main : main[k].col \notin listed
  /\ pc = "gap" => /\ Zero(Len(main))
                   /\ prng \/ \A c \in DenseCols : output[c] = {}
  /\ pc \in {"solve", "done"} => /\ next \in 0 .. Len(main) /\ Zero(next)
                                 /\ gapCols \subseteq DenseCols
                                 /\ prng \/ \A c \in DenseCols \ gapCols : output[c] = {}
  /\ SolvedRowsDecode

LEMMA InitSInv == Init => SInv
<1> SUFFICES ASSUME Init PROVE SInv
  OBVIOUS
<1>1. output \in [Cols -> Blocks]
  BY DEF Init, Dirty, Random, Blocks, Atoms
<1>2. QED
  BY <1>1 DEF Init, SInv, SolvedRowsDecode

LEMMA TriangulateSInv ==
  ASSUME Inv, SInv, NEW c, Triangulate(c)
  PROVE  SInv'
<1>1. TInv /\ WInv
  BY DEF Inv
<1>2. /\ main' = Append(main, [row |-> Min(NewRows(c)), col |-> c])
      /\ listed' = listed \ {c} /\ c \in Left
  BY TriangulateStep
<1>3. Min(NewRows(c)) \in Items /\ c \in SparseCols
  BY <1>1, <1>2, FirstRow DEF Left, TInv
<1>4. [row |-> Min(NewRows(c)), col |-> c] \in [row : Items, col : SparseCols]
      /\ main \in Seq([row : Items, col : SparseCols])
  BY <1>1, <1>3 DEF TInv
<1>5. /\ DOMAIN main' = 1 .. Len(main) + 1 /\ DOMAIN main = 1 .. Len(main) /\ Len(main) \in Nat
      /\ \A k \in DOMAIN main : main'[k] = main[k]
      /\ main'[Len(main) + 1] = [row |-> Min(NewRows(c)), col |-> c]
  BY <1>2, <1>4, AppendEntry
<1>6. \A k \in DOMAIN main' : main'[k].col \notin listed'
  <2> SUFFICES ASSUME NEW k \in DOMAIN main' PROVE main'[k].col \notin listed'
    OBVIOUS
  <2>1. CASE k \in DOMAIN main
    BY <1>2, <1>5, <2>1 DEF SInv
  <2>2. CASE k = Len(main) + 1
    BY <1>2, <1>5, <2>2
  <2>3. QED
    BY <1>5, <2>1, <2>2
<1>7. pc' \in {"triangulate", "error"} /\ output' = output
  BY DEF Triangulate
<1>8. QED
  BY <1>6, <1>7 DEF SInv, SolvedRowsDecode

LEMMA RandomizeFreeSInv ==
  ASSUME Inv, SInv, RandomizeFree
  PROVE  SInv'
<1>1. /\ output' = [c \in Cols |-> IF prng /\ c \in listed THEN Random(c) ELSE {}]
      /\ pc' = "gap" /\ UNCHANGED <<prng, listed, main>>
  BY DEF RandomizeFree
<1>2. output' \in [Cols -> Blocks]
  BY <1>1 DEF Random, Blocks, Atoms
<1>3. /\ DOMAIN main = 1 .. Len(main)
      /\ \A k \in DOMAIN main : main[k].col \in Cols
  BY MainEntries DEF Inv, Cols
<1>4. Zero(Len(main))'
  BY <1>1, <1>3 DEF SInv, Zero
<1>5. prng' \/ \A c \in DenseCols : output'[c] = {}
  BY <1>1 DEF Cols
<1>6. QED
  BY <1>1, <1>2, <1>4, <1>5 DEF SInv, SolvedRowsDecode

LEMMA SolveGapSInv ==
  ASSUME Inv, SInv, NEW S \in SUBSET DenseCols, SolveGap(S)
  PROVE  SInv'
<1> DEFINE out == [c \in Cols |-> IF prng /\ c \in DenseCols \ S THEN Random(c) ELSE output[c]]
           p(c) == {a \in Atoms : Odd({gap \in InverseRow(S, c) : a \in XX2(gap, S, out)})}
<1>1. /\ output' = [c \in Cols |-> IF c \in S THEN SymDiff(out[c], p(c)) ELSE out[c]]
      /\ pc = "gap" /\ pc' = "solve" /\ next' = Len(main) /\ gapCols' = S
      /\ UNCHANGED <<prng, listed, main, mRows, mDense>>
  BY DEF SolveGap, matrix
<1>2. output' \in [Cols -> Blocks]
  <2>1. \A c : p(c) \in Blocks
    BY DEF Blocks
  <2>2. \A c \in Cols : out[c] \in Blocks
    BY DEF SInv, Random, Blocks, Atoms
  <2> HIDE DEF out, p
  <2>3. \A c \in Cols : SymDiff(out[c], p(c)) \in Blocks
    BY <2>1, <2>2 DEF SymDiff, Blocks
  <2>4. QED
    BY <1>1, <2>2, <2>3
<1>3. /\ DOMAIN main = 1 .. Len(main) /\ Len(main) \in Nat
      /\ \A k \in DOMAIN main : main[k].col \in Cols /\ main[k].col \notin DenseCols
  BY MainEntries, Apart DEF Inv, Cols
<1>4. \A c \in Cols \ DenseCols : output'[c] = output[c]
  BY <1>1
<1>5. Zero(next)'
  BY <1>1, <1>3, <1>4 DEF SInv, Zero
<1>6. prng' \/ \A c \in DenseCols \ gapCols' : output'[c] = {}
  BY <1>1 DEF SInv, Cols
<1>7. SolvedRowsDecode'
  BY <1>1, <1>3 DEF SolvedRowsDecode
<1> HIDE DEF out, p
<1>8. /\ next' \in 0 .. Len(main') /\ \A k \in DOMAIN main' : main'[k].col \notin listed'
      /\ pc' # "gap" /\ gapCols' \subseteq DenseCols
  BY <1>1, <1>3 DEF SInv
<1>9. QED
  BY <1>2, <1>5, <1>6, <1>7, <1>8 DEF SInv

\* The row solved in a step of backfill: its column is zero before, and is the only
\* one of its row that the step changes; no row solved earlier has that column.
LEMMA BackfillRowSInv ==
  ASSUME Inv, SInv, BackfillRow
  PROVE  SInv'
<1> DEFINE i == main[next].row
           c == main[next].col
           dense == mDense[i] \cap (IF prng THEN DenseCols ELSE gapCols)
           used == mRows[i] \cup dense
<1>1. /\ pc = "solve" /\ pc' = "solve" /\ next > 0 /\ next' = next - 1
      /\ output' = [output EXCEPT ![c] = SymDiff(X(i), XorOver(output, used))]
      /\ UNCHANGED <<mRows, mDense, prng, listed, main, gapCols>>
  BY DEF BackfillRow, Position, matrix
<1>2. next \in DOMAIN main /\ next \in Nat /\ next \in 1 .. Len(main)
  BY <1>1, MainEntries DEF SInv, Inv
<1>3. i \in Items /\ c \in SparseCols /\ c \in Cols
  BY <1>2, MainEntries DEF Inv, Cols
<1>4. c \in mRows[i] /\ c \in Row(i) /\ c \in used
  BY <1>2 DEF Inv, Triangular, Row
<1>5. output[c] = {}
  BY <1>1, <1>2 DEF SInv, Zero
<1>6. Row(i) \subseteq Cols /\ IsFiniteSet(Row(i)) /\ X(i) \in Blocks
  BY <1>3, RowFinite DEF Inv
<1>7. XorOver(output, used) = XorOver(output, Row(i))
  <2>1. CASE prng
    BY <2>1 DEF Row
  <2>2. CASE ~ prng
    <3>1. gapCols \subseteq DenseCols
      BY <1>1 DEF SInv
    <3>2. \A d \in Row(i) \ used : output[d] = {}
      BY <1>1, <2>2 DEF SInv, Row
    <3>3. used \subseteq Row(i)
      BY <2>2, <3>1 DEF Row
    <3>4. \A a : {d \in used : a \in output[d]} = {d \in Row(i) : a \in output[d]}
      BY <3>2, <3>3
    <3>5. QED
      BY <3>4 DEF XorOver
  <2>3. QED
    BY <2>1, <2>2
<1> HIDE DEF i, c, used
<1>8. output'[c] = SymDiff(X(i), XorOver(output, Row(i)))
      /\ \A d \in Cols \ {c} : output'[d] = output[d]
  BY <1>1, <1>3, <1>7 DEF SInv
<1>9. XorOver(output', Row(i)) = X(i)
  BY <1>4, <1>5, <1>6, <1>8, XorOverSolve
<1>10. \A k \in DOMAIN main : k # next => main[k].col # c
  <2> SUFFICES ASSUME NEW k \in DOMAIN main, k # next PROVE main[k].col # c
    OBVIOUS
  <2>1. /\ main[k].col \in mRows[main[k].row] /\ c \in mRows[i]
        /\ k \in Nat /\ k >= 1
    BY <1>4, MainEntries DEF Inv, Triangular
  <2>2. CASE k < next
    BY <1>2, <2>1, <2>2 DEF Inv, Triangular, i
  <2>3. CASE k > next
    BY <1>2, <2>1, <2>3 DEF Inv, Triangular, c
  <2>4. QED
    BY <1>2, <2>1, <2>2, <2>3
<1>11. Zero(next)'
  <2> SUFFICES ASSUME NEW k \in 1 .. next - 1 PROVE output'[main[k].col] = {}
    BY <1>1 DEF Zero
  <2>1. k \in DOMAIN main /\ k # next /\ k \in 1 .. next
    BY <1>2, MainEntries DEF Inv
  <2>2. main[k].col \in Cols
    BY <2>1, MainEntries DEF Inv, Cols
  <2>3. QED
    BY <1>1, <1>8, <1>10, <2>1, <2>2 DEF SInv, Zero
<1>12. SolvedRowsDecode'
  <2>next. /\ next' + 1 = next /\ main' = main
        /\ \A j : Decode(j)' = XorOver(output', Row(j))
    BY <1>1, <1>2 DEF Decode, Row, XorOver
  <2> SUFFICES ASSUME NEW k \in next .. Len(main)
               PROVE  XorOver(output', Row(main[k].row)) = X(main[k].row)
    BY <2>next DEF SolvedRowsDecode
  <2>1. CASE k = next
    BY <1>9, <2>1 DEF i
  <2>2. CASE k # next
    <3>1. k \in next + 1 .. Len(main) /\ k \in DOMAIN main /\ next \in 1 .. k - 1
      BY <1>2, <2>2, MainEntries DEF Inv
    <3>2. main[k].row \in Items
      BY <3>1, MainEntries DEF Inv
    <3>3. c \notin mRows[main[k].row]
      BY <3>1 DEF Inv, Triangular, c
    <3>4. Row(main[k].row) \subseteq Cols \ {c}
      BY <1>3, <3>2, <3>3, RowFinite, Apart DEF Inv, Row
    <3>5. XorOver(output', Row(main[k].row)) = XorOver(output, Row(main[k].row))
      BY <1>8, <3>4, XorOverSame
    <3>6. QED
      BY <1>1, <3>1, <3>5 DEF SInv, SolvedRowsDecode, Decode
  <2>3. QED
    BY <2>1, <2>2
<1>13. output' \in [Cols -> Blocks]
  <2>1. SymDiff(X(i), XorOver(output, used)) \in Blocks
    BY <1>6 DEF SymDiff, XorOver, Blocks
  <2>2. QED
    BY <1>1, <2>1 DEF SInv
<1>14. prng' \/ \A d \in DenseCols \ gapCols' : output'[d] = {}
  <2>1. \A d \in DenseCols : d \in Cols /\ d # c
    BY <1>3, Apart DEF Cols
  <2>2. QED
    BY <1>1, <1>8, <2>1 DEF SInv
<1>15. next' \in 0 .. Len(main') /\ \A k \in DOMAIN main' : main'[k].col \notin listed'
  BY <1>1, <1>2 DEF SInv
<1>16. QED
  BY <1>1, <1>11, <1>12, <1>13, <1>14, <1>15 DEF SInv

LEMMA OtherSInv ==
  ASSUME Inv, SInv, FailGap \/ Return \/ EncodeAgain \/ UNCHANGED vars
  PROVE  SInv'
<1>1. CASE FailGap
  BY <1>1 DEF FailGap, SInv, SolvedRowsDecode, matrix
<1>2. CASE Return
  BY <1>2 DEF Return, SInv, SolvedRowsDecode, Zero, Decode, XorOver, Row, matrix
<1>3. CASE EncodeAgain
  BY <1>3 DEF EncodeAgain, SInv, SolvedRowsDecode, Dirty, Random, Blocks, Atoms
<1>4. CASE UNCHANGED vars
  BY <1>4 DEF vars, matrix, SInv, SolvedRowsDecode, Zero, Decode, XorOver, Row
<1>5. QED
  BY <1>1, <1>2, <1>3, <1>4

THEOREM SInvHolds == Spec => []SInv
<1>1. Inv /\ SInv /\ [Next]_vars => SInv'
  BY TriangulateSInv, RandomizeFreeSInv, SolveGapSInv, BackfillRowSInv, OtherSInv DEF Next
<1>2. QED
  BY InitSInv, InvHolds, <1>1, PTL DEF Spec

\* Back substitution never undoes a row it has solved, and every main row decodes
\* to its value when encode returns.
THEOREM SolvedRowsDecodeHolds == Spec => []SolvedRowsDecode
<1>1. SInv => SolvedRowsDecode
  BY DEF SInv
<1>2. QED
  BY SInvHolds, <1>1, PTL

=============================================================================
