------------------------------- MODULE Paxos -------------------------------
(***************************************************************************)
(* The key-value store of volePSI/Paxos (one bin of it), with binary dense *)
(* columns.                                                                *)
(*                                                                         *)
(* Every item is a row of a matrix with mWeight ones in the sparse columns *)
(* and any bits in the few dense ones.  encode brings the sparse part into *)
(* triangular form by taking, again and again, a column that the fewest    *)
(* rows left have (triangulate); the other rows with that column go to the *)
(* gap.  backfill solves the gap with the dense columns, then the main     *)
(* rows one by one, last column first.                                     *)
(*                                                                         *)
(* The value of item i is the atom <<"x", i>>, the random block of column  *)
(* c the atom <<"r", c>>, a block is a set of atoms and XOR is symmetric   *)
(* difference: what holds for these generic values holds for all values,   *)
(* since encode and decode are linear.  Which of the columns of minimum    *)
(* weight heads its list, and which invertible set of dense columns is     *)
(* enumerated first, is left open: any of them may be taken.               *)
(***************************************************************************)
EXTENDS Integers, FiniteSets, FiniteSetsExt, Sequences, SequencesExt

CONSTANTS
  mNumItems,    \* number of items, hence of rows
  mSparseSize,  \* number of sparse columns
  mDenseSize,   \* number of dense columns, numbered after the sparse ones
  mWeight,      \* ones of a row in the sparse columns
  mG,           \* largest gap allowed
  SparseRows,   \* the sparse matrices considered
  DenseRows,    \* the dense hashes considered
  Randomize,    \* whether encode is given a PRNG, a set of Booleans
  RetryFailed   \* whether the caller encodes again after encode has thrown

Items      == 0 .. mNumItems - 1
SparseCols == 0 .. mSparseSize - 1
DenseCols  == mSparseSize .. mSparseSize + mDenseSize - 1
Cols       == SparseCols \cup DenseCols

\* A dense hash has bits beyond the dense columns: the last element stands for them.
HashBits == mSparseSize .. mSparseSize + mDenseSize

\* Two columns more than items: no list operation ever empties all the lists.
ASSUME SizeAssumption ==
  /\ mNumItems \in Nat \ {0} /\ mDenseSize \in Nat /\ mG \in Nat
  /\ mWeight \in Nat \ {0, 1}  \* PaxosParam::init refuses less than two
  /\ mSparseSize \in Nat /\ mSparseSize >= mNumItems + 2
  /\ SparseRows \subseteq [Items -> {S \in SUBSET SparseCols : Cardinality(S) = mWeight}]
  /\ DenseRows \subseteq [Items -> SUBSET HashBits]
  /\ Randomize \subseteq BOOLEAN
  /\ RetryFailed \in BOOLEAN

Atoms  == ({"x"} \X Items) \cup ({"r"} \X Cols)
Blocks == SUBSET Atoms

X(i) == {<<"x", i>>}
Random(c) == {<<"r", c>>}

VARIABLES
  mRows, mDense, \* the matrix: the sparse ones and the dense hash of every item
  prng,          \* whether this encoding is randomized
  weight,        \* WeightNode.mWeight: the rows left that have the column
  listed,        \* the columns in the lists of WeightData
  rowSet,        \* the rows triangulate has placed
  main,          \* mainRows and mainCols, a sequence of [row, col]
  gapRows,       \* a sequence of [row, main]: main is the row it collided with
  output,        \* the encoding
  gapCols,       \* the dense columns the gap is solved with
  next,          \* the position in main that backfill solves next
  pc             \* "triangulate", "gap", "solve", "done" or "error"

matrix == <<mRows, mDense>>
vars == <<matrix, prng, weight, listed, rowSet, main, gapRows, output, gapCols, next, pc>>

-----------------------------------------------------------------------------
(* Blocks and rows. *)

Odd(S) == Cardinality(S) % 2 = 1

\* The XOR of output[c] for c in S.
XorOver(out, S) == {a \in Atoms : Odd({c \in S : a \in out[c]})}

\* All the columns of item i's row.
Row(i) == mRows[i] \cup (mDense[i] \cap DenseCols)

\* decode1: the XOR of the columns the item's row has.
Decode(i) == XorOver(output, Row(i))

RowsOf(c) == {i \in Items : c \in mRows[i]}

-----------------------------------------------------------------------------
(* triangulate. *)

\* The columns in a list of positive weight: while there are any, it goes on.
Left == {c \in listed : weight[c] > 0}

InitialWeights == [c \in SparseCols |-> Cardinality(RowsOf(c))]

\* The rows the loop over a column places: those not yet set.
NewRowsAll_mut(c) == RowsOf(c)
NewRows(c) == RowsOf(c) \ rowSet

\* The decrement skips a column whose weight is zero: the one just taken has no
\* other mark.
LessenedNoGuard_mut(w, n) == w - n
LessenedOnce_mut(w, n) == IF w > 0 /\ n > 0 THEN w - 1 ELSE w
Lessened(w, n) == IF w > n THEN w - n ELSE 0

\* The rows of R in the order of the loop over a column, the order of the items.
Ascending(R) ==
  CHOOSE s \in [1 .. Cardinality(R) -> R] : \A j, k \in DOMAIN s : j < k => s[j] < s[k]

\* Take a column of minimum weight.  Its first row is a main row, the others go
\* to the gap; one with the first row's hash is a duplicate key, where encode
\* throws and leaves the weights as they are.
Triangulate(c) ==
  LET new    == NewRows(c)
      row    == Min(new)
      same   == {r \in new \ {row} : mDense[r] = mDense[row]}
      placed == IF same = {} THEN new ELSE {r \in new : r <= Min(same)}
      extra  == Ascending(placed \ (same \cup {row}))
  IN /\ pc = "triangulate"
     /\ c \in Left /\ \A d \in Left : weight[c] <= weight[d]
     /\ listed' = listed \ {c}
     /\ weight' = [d \in SparseCols |-> Lessened(IF d = c THEN 0 ELSE weight[d],
                                                 Cardinality(placed \cap RowsOf(d)))]
     /\ rowSet' = rowSet \cup placed
     /\ main' = Append(main, [row |-> row, col |-> c])
     /\ gapRows' = gapRows \o [k \in DOMAIN extra |-> [row |-> extra[k], main |-> row]]
     /\ pc' = IF same = {} THEN pc ELSE "error"
     /\ UNCHANGED <<matrix, prng, output, gapCols, next>>

\* encode, after triangulate: zerofill, and random blocks for the columns left
\* in the list of weight zero.
RandomizeFree ==
  /\ pc = "triangulate" /\ Left = {}
  /\ output' = [c \in Cols |-> IF prng /\ c \in listed THEN Random(c) ELSE {}]
  /\ pc' = "gap"
  /\ UNCHANGED <<matrix, prng, weight, listed, rowSet, main, gapRows, gapCols, next>>

-----------------------------------------------------------------------------
(* The gap. *)

MainCols == {main[k].col : k \in DOMAIN main}
Gap      == Range(gapRows)

\* getFCInv: the main rows whose XOR cancels the gap row in the main columns.
\* residue[k] is what is left of it there after the first k main rows were tried.
Eliminate(gap) ==
  LET residue[k \in 0 .. Len(main)] ==
        IF k = 0 THEN mRows[gap.row] \cap MainCols
        ELSE IF main[k].col \in residue[k - 1]
             THEN SymDiff(residue[k - 1], mRows[main[k].row] \cap MainCols)
             ELSE residue[k - 1]
  IN {main[k].row : k \in {j \in DOMAIN main : main[j].col \in residue[j - 1]}}

\* The common case: the gap row repeats the main row it collided with.
FCInvCommonOnly_mut(gap) == {gap.main}
FCInv(gap)  == IF mRows[gap.row] = mRows[gap.main] THEN {gap.main} ELSE Eliminate(gap)

\* The rows that are added up for a gap row, and the columns of their XOR: its
\* row of [D' E' 0].
Summed(gap)   == {gap.row} \cup FCInv(gap)
Combined(gap) == {c \in Cols : Odd({i \in Summed(gap) : c \in Row(i)})}

\* getEPrime and its inverse: the gap rows whose XOR, on the columns S, is just c.
Solves(R, S, c)  == {d \in S : Odd({gap \in R : d \in Combined(gap)})} = {c}
Invertible(S)    == \A c \in S : \E R \in SUBSET Gap : Solves(R, S, c)
InverseRow(S, c) == CHOOSE R \in SUBSET Gap : Solves(R, S, c)

\* getGapCols: any set of dense columns with an invertible E'.
GapChoicesPerMain_mut == {S \in kSubset(Cardinality({gap.main : gap \in Gap}), DenseCols) : Invertible(S)}
GapChoices == {S \in kSubset(Len(gapRows), DenseCols) : Invertible(S)}

\* getX2Prime: with a PRNG, the dense columns outside S count, but the sparse
\* part of D' is taken to cancel.
XX2NoRandom_mut(gap, S, out) == UNION {X(i) : i \in Summed(gap)}
XX2(gap, S, out) ==
  SymDiff(UNION {X(i) : i \in Summed(gap)},
          IF prng THEN XorOver(out, (Combined(gap) \cap DenseCols) \ S) ELSE {})

\* backfillBinary up to its loop over the main rows: the dense columns.
SolveGap(S) ==
  LET out == [c \in Cols |-> IF prng /\ c \in DenseCols \ S THEN Random(c) ELSE output[c]]
      p(c) == {a \in Atoms : Odd({gap \in InverseRow(S, c) : a \in XX2(gap, S, out)})}
  IN /\ pc = "gap" /\ Len(gapRows) <= mG
     /\ S \in GapChoices
     /\ gapCols' = S
     /\ output' = [c \in Cols |-> IF c \in S THEN SymDiff(out[c], p(c)) ELSE out[c]]
     /\ next' = Len(main)
     /\ pc' = "solve"
     /\ UNCHANGED <<matrix, prng, weight, listed, rowSet, main, gapRows>>

\* The gap is larger than mG, or no choice of dense columns is invertible.
FailGap ==
  /\ pc = "gap"
  /\ Len(gapRows) > mG \/ GapChoices = {}
  /\ pc' = "error"
  /\ UNCHANGED <<matrix, prng, weight, listed, rowSet, main, gapRows, output, gapCols, next>>

-----------------------------------------------------------------------------
(* The main rows, and the calls of encode. *)

\* rbegin: the main rows are solved from the last to the first.
PositionForward_mut == Len(main) + 1 - next
Position  == next

BackfillRow ==
  /\ pc = "solve" /\ next > 0
  /\ LET i == main[Position].row
         dense == mDense[i] \cap (IF prng THEN DenseCols ELSE gapCols)
     IN output' = [output EXCEPT ![main[Position].col] =
                     SymDiff(X(i), XorOver(output, mRows[i] \cup dense))]
  /\ next' = next - 1
  /\ UNCHANGED <<matrix, prng, weight, listed, rowSet, main, gapRows, gapCols, pc>>

Return ==
  /\ pc = "solve" /\ next = 0
  /\ pc' = "done"
  /\ UNCHANGED <<matrix, prng, weight, listed, rowSet, main, gapRows, output, gapCols, next>>

\* The caller's array: whatever it holds.
Dirty == [c \in Cols |-> Random(c)]

\* After setInput, encode can be called more than once: its local variables
\* start anew, and the weights are computed again if no list of positive weight
\* is left from the last call.
EncodeAgainNoReset_mut ==
  /\ pc = "done" \/ (pc = "error" /\ RetryFailed)
  /\ prng' \in Randomize
  /\ rowSet' = {} /\ main' = <<>> /\ gapRows' = <<>> /\ gapCols' = {} /\ next' = 0
  /\ output' = Dirty
  /\ pc' = "triangulate"
  /\ UNCHANGED <<matrix, weight, listed>>
EncodeAgain ==
  /\ pc = "done" \/ (pc = "error" /\ RetryFailed)
  /\ prng' \in Randomize
  /\ weight' = IF Left = {} THEN InitialWeights ELSE weight
  /\ listed' = IF Left = {} THEN SparseCols ELSE listed
  /\ rowSet' = {} /\ main' = <<>> /\ gapRows' = <<>> /\ gapCols' = {} /\ next' = 0
  /\ output' = Dirty
  /\ pc' = "triangulate"
  /\ UNCHANGED matrix

\* hashBuildRow1 makes both parts of a row from one hash of the key.
SameHashSameRow == \A i, j \in Items : mDense[i] = mDense[j] => mRows[i] = mRows[j]

\* setInput, then the first call of encode.
Init ==
  /\ mRows \in SparseRows /\ mDense \in DenseRows /\ SameHashSameRow
  /\ prng \in Randomize
  /\ weight = InitialWeights /\ listed = SparseCols
  /\ rowSet = {} /\ main = <<>> /\ gapRows = <<>> /\ gapCols = {} /\ next = 0
  /\ output = Dirty
  /\ pc = "triangulate"

Next ==
  \/ \E c \in SparseCols : Triangulate(c)
  \/ RandomizeFree
  \/ \E S \in SUBSET DenseCols : SolveGap(S)
  \/ FailGap
  \/ BackfillRow
  \/ Return
  \/ EncodeAgain

Spec == Init /\ [][Next]_vars

-----------------------------------------------------------------------------
(* Properties. *)

TypeOK ==
  /\ mRows \in SparseRows /\ mDense \in DenseRows /\ prng \in Randomize
  /\ weight \in [SparseCols -> 0 .. mNumItems]
  /\ listed \subseteq SparseCols /\ rowSet \subseteq Items
  /\ main \in Seq([row : Items, col : SparseCols])
  /\ gapRows \in Seq([row : Items, main : Items])
  /\ output \in [Cols -> Blocks] /\ gapCols \subseteq DenseCols
  /\ next \in 0 .. Len(main)
  /\ pc \in {"triangulate", "gap", "solve", "done", "error"}

\* A column's weight is the number of rows still to place that have it: the
\* decrements row by row (PaxosImpl.h:1127-1138), which skip columns of weight
\* zero, never drift from the matrix, so that the loop ends when, and only when,
\* no row is left, and the column it takes always has one (1172-1173).
WeightsExact ==
  pc = "triangulate" => \A c \in listed : weight[c] = Cardinality(RowsOf(c) \ rowSet)

\* The matrix C of backfill is triangular: a main row has its own column and
\* none of the columns taken before it, so backfill from the last position to
\* the first never changes a column that a row solved earlier uses.
Triangular ==
  \A k \in DOMAIN main :
    /\ main[k].col \in mRows[main[k].row]
    /\ \A j \in 1 .. k - 1 : main[j].col \notin mRows[main[k].row]

\* When triangulate returns, every row is in exactly one place: once a main row
\* or once in the gap.  A row in neither would be left out of the system, and
\* encode would return an encoding that does not hold its value.
EveryRowPlaced ==
  pc \in {"gap", "solve", "done"} =>
    \A i \in Items : Cardinality({k \in DOMAIN main : main[k].row = i})
                     + Cardinality({k \in DOMAIN gapRows : gapRows[k].row = i}) = 1

\* The elimination of getFCInv ends with nothing of the gap row in the main
\* columns: the row of [D' E' 0] really is zero under C, whichever rows it
\* needed, the row it collided with or a chain of others.
GapEliminated ==
  pc = "gap" => \A gap \in Gap : Combined(gap) \cap MainCols = {}

\* While backfill runs, every main row it has passed decodes to its value, and
\* still does after the columns before it are filled.
SolvedRowsDecode ==
  pc \in {"solve", "done"} =>
    \A k \in next + 1 .. Len(main) : Decode(main[k].row) = X(main[k].row)

\* What backfill assumes of the gap: its rows differ from sums of main rows in
\* dense columns only (the comment in getX2Prime).
SparseCancels == \A gap \in Gap : Combined(gap) \subseteq DenseCols

\* An encoding that encode returns decodes every item to its value; randomized,
\* provided the assumption on the gap holds.  The columns main rows have in the
\* gap, those of the gap itself and the random ones all come together here.
DecodeCorrect ==
  pc = "done" /\ (prng => SparseCancels) => \A i \in Items : Decode(i) = X(i)

\* Duplicate keys never get an encoding: "check that we dont have duplicates"
\* (PaxosImpl.h:1160-1168) compares an extra row with the main row only, so two
\* equal rows that are both in the gap are left to the search for an invertible
\* matrix to refuse.
DuplicatesRefused == pc = "done" => IsInjective(mDense)

\* encode's promise without a condition: what it returns decodes every item to
\* its value, randomized or not (Paxos.h:126-129, src/tests/Paxos_Tests.cpp:536-561).
EveryKeyDecodes == pc = "done" => \A i \in Items : Decode(i) = X(i)

=============================================================================
