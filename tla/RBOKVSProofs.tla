---------------------------- MODULE RBOKVSProofs ----------------------------
(***************************************************************************)
(* Proofs about RBOKVS: with a mask that fits the band (MaskFits), encode  *)
(* stays in bounds, keeps the matrix in echelon form and preserves its     *)
(* solutions, fails only on an unsolvable system, and what it returns      *)
(* decodes every key to its value.                                         *)
(***************************************************************************)
EXTENDS RBOKVS, FiniteSetTheorems, TLAPS

-----------------------------------------------------------------------------
(* Sets of numbers and parities. *)

\* A nonempty set of naturals has a least element, the one FirstBit chooses.
LEMMA FirstBitIsLeast ==
  ASSUME NEW S \in SUBSET Nat, S # {}
  PROVE  FirstBit(S) \in S /\ \A o \in S : FirstBit(S) <= o
<1> DEFINE R == {p \in Nat \X Nat : p[1] < p[2]}
<1>1. IsWellFoundedOn(OpToRel(<, Nat), Nat)
  BY NatLessThanWellFounded
<1>2. OpToRel(<, Nat) = R
  BY DEF OpToRel
<1>3. IsWellFoundedOn(R, Nat)
  BY <1>1, <1>2
<1> HIDE DEF R
<1>4. PICK x \in S : \A y \in S : ~ (<<y, x>> \in R)
  BY <1>3, WFMin
<1>5. \A y \in S : ~ (y < x)
  BY <1>4 DEF R
<1>6. \A y \in S : x <= y
  BY <1>5
<1> QED
  BY <1>6 DEF FirstBit

\* The size of a symmetric difference has the parity of the sum of the sizes.
LEMMA XorParity ==
  ASSUME NEW P, IsFiniteSet(P), NEW Q, IsFiniteSet(Q)
  PROVE  /\ IsFiniteSet(XOR(P, Q))
         /\ (Cardinality(XOR(P, Q)) % 2 = 1)
              <=> ((Cardinality(P) % 2 = 1) <=> ~ (Cardinality(Q) % 2 = 1))
<1>1. /\ IsFiniteSet(P \ Q)
      /\ Cardinality(P \ Q) = Cardinality(P) - Cardinality(P \cap Q)
  BY FS_Difference
<1>2. /\ IsFiniteSet(Q \ P)
      /\ Cardinality(Q \ P) = Cardinality(Q) - Cardinality(Q \cap P)
  BY FS_Difference
<1>3. Q \cap P = P \cap Q /\ (P \ Q) \cap (Q \ P) = {}
  OBVIOUS
<1>4. /\ IsFiniteSet((P \ Q) \cup (Q \ P))
      /\ Cardinality((P \ Q) \cup (Q \ P)) =
           Cardinality(P \ Q) + Cardinality(Q \ P) - Cardinality((P \ Q) \cap (Q \ P))
  BY <1>1, <1>2, FS_Union
<1>5. Cardinality((P \ Q) \cap (Q \ P)) = 0
  BY <1>3, FS_EmptySet
<1>6. Cardinality(P \cap Q) \in Nat
  BY FS_Intersection, FS_CardinalityType
<1>7. Cardinality(P) \in Nat /\ Cardinality(Q) \in Nat
  BY FS_CardinalityType
<1>8. Cardinality(XOR(P, Q)) = Cardinality(P \ Q) + Cardinality(Q \ P)
  <2>1. Cardinality(P \ Q) \in Int /\ Cardinality(Q \ P) \in Int
    BY <1>1, <1>2, FS_CardinalityType
  <2> QED
    BY <2>1, <1>4, <1>5 DEF XOR
<1>10. Cardinality(Q \cap P) = Cardinality(P \cap Q)
  BY <1>3
<1>11. Cardinality(XOR(P, Q)) =
         Cardinality(P) + Cardinality(Q) - 2 * Cardinality(P \cap Q)
  BY <1>1, <1>2, <1>6, <1>7, <1>8, <1>10
<1>9. ASSUME NEW p \in Nat, NEW q \in Nat, NEW b \in Nat, NEW c \in Int,
             c = p + q - 2 * b
      PROVE  (c % 2 = 1) <=> ((p % 2 = 1) <=> ~ (q % 2 = 1))
  BY <1>9
<1>12. IsFiniteSet(XOR(P, Q))
  BY <1>4 DEF XOR
<1> QED
  BY <1>6, <1>7, <1>9, <1>11, <1>12

\* Sets of columns are finite, so their cardinalities are numbers.
LEMMA FiniteColumns ==
  ASSUME NEW S \in SUBSET Columns
  PROVE  IsFiniteSet(S)
<1>1. IsFiniteSet(Columns)
  BY ParamAssumption, FS_Interval DEF Columns
<1> QED
  BY <1>1, FS_Subset

\* A linear combination of blocks is a block.
LEMMA XorOverType ==
  ASSUME NEW x, NEW S
  PROVE  XorOver(x, S) \in Blocks
BY DEF XorOver, Blocks

\* The XOR of two blocks is a block.
LEMMA XorType ==
  ASSUME NEW a \in Blocks, NEW b \in Blocks
  PROVE  XOR(a, b) \in Blocks
BY DEF XOR, Blocks

\* A linear combination over a symmetric difference of column sets.
LEMMA XorOverLinear ==
  ASSUME NEW x, NEW S \in SUBSET Columns, NEW T \in SUBSET Columns
  PROVE  XorOver(x, XOR(S, T)) = XOR(XorOver(x, S), XorOver(x, T))
<1>1. ASSUME NEW a \in Atoms
      PROVE  (a \in XorOver(x, XOR(S, T)))
               <=> ((a \in XorOver(x, S)) <=> ~ (a \in XorOver(x, T)))
  <2> DEFINE P == {j \in S : a \in x[j]}
             Q == {j \in T : a \in x[j]}
  <2>1. {j \in XOR(S, T) : a \in x[j]} = XOR(P, Q)
    BY DEF XOR
  <2>2. IsFiniteSet(P) /\ IsFiniteSet(Q)
    BY FiniteColumns
  <2>3. (Cardinality(XOR(P, Q)) % 2 = 1)
          <=> ((Cardinality(P) % 2 = 1) <=> ~ (Cardinality(Q) % 2 = 1))
    BY <2>2, XorParity
  <2> QED
    BY <2>1, <2>3, <1>1 DEF XorOver
<1>2. XorOver(x, XOR(S, T)) \subseteq Atoms
  BY DEF XorOver
<1>3. XOR(XorOver(x, S), XorOver(x, T)) \subseteq Atoms
  BY DEF XorOver, XOR
<1>4. ASSUME NEW a \in Atoms
      PROVE  (a \in XOR(XorOver(x, S), XorOver(x, T)))
               <=> ((a \in XorOver(x, S)) <=> ~ (a \in XorOver(x, T)))
  BY DEF XOR
<1> QED
  BY <1>1, <1>2, <1>3, <1>4

\* A combination of no columns is zero, one of a single column is that column.
LEMMA XorOverEmpty ==
  ASSUME NEW x
  PROVE  XorOver(x, {}) = {}
<1>1. \A a \in Atoms : {j \in {} : a \in x[j]} = {}
  OBVIOUS
<1>2. Cardinality({}) = 0
  BY FS_EmptySet
<1>3. 0 % 2 # 1
  OBVIOUS
<1> QED
  BY <1>1, <1>2, <1>3 DEF XorOver

\* A combination of one column is that column.
LEMMA XorOverSingle ==
  ASSUME NEW x \in [Columns -> Blocks], NEW c \in Columns
  PROVE  XorOver(x, {c}) = x[c]
<1>1. ASSUME NEW a \in Atoms, a \in x[c]
      PROVE  Cardinality({j \in {c} : a \in x[j]}) = 1
  <2>1. {j \in {c} : a \in x[j]} = {c}
    BY <1>1
  <2> QED
    BY <2>1, FS_Singleton
<1>2. ASSUME NEW a \in Atoms, a \notin x[c]
      PROVE  Cardinality({j \in {c} : a \in x[j]}) = 0
  <2>1. {j \in {c} : a \in x[j]} = {}
    BY <1>2
  <2> QED
    BY <2>1, FS_EmptySet
<1>3. x[c] \subseteq Atoms
  BY DEF Blocks
<1>4. 1 % 2 = 1 /\ 0 % 2 # 1
  OBVIOUS
<1> QED
  BY <1>1, <1>2, <1>3, <1>4 DEF XorOver

\* A combination only depends on the columns it reads.
LEMMA XorOverAgree ==
  ASSUME NEW x, NEW y, NEW S, \A j \in S : x[j] = y[j]
  PROVE  XorOver(x, S) = XorOver(y, S)
<1>1. \A a : {j \in S : a \in x[j]} = {j \in S : a \in y[j]}
  OBVIOUS
<1> QED
  BY <1>1 DEF XorOver

-----------------------------------------------------------------------------
(* The bands. *)

\* The masks of MaskFits keep no bit past the band width.
LEMMA MaskedWidthFits ==
  MaskFits => MaskedWidth <= mW
<1>1. ASSUME NEW w \in Nat \ {0}, NEW b \in Nat \ {0}, NEW q \in Nat, NEW r \in Nat,
             w = b * q + r, r < b, r = 0 \/ 2 * r >= b, NEW k \in Nat,
             k = (IF r = 0 THEN q ELSE q + 1)
      PROVE  (k - 1) * b + (b - r) <= w
  <2>1. (k - 1) * b + (b - r) = k * b - r
    BY <1>1
  <2>2. CASE r = 0
    BY <2>1, <2>2, <1>1
  <2>3. CASE r # 0
    <3>1. k * b = b * q + b
      BY <2>3, <1>1
    <3> QED
      BY <3>1, <2>1, <2>3, <1>1
  <2> QED
    BY <2>2, <2>3
<1> DEFINE q == mW \div ByteBits
           r == mW % ByteBits
<1>2. /\ mW \in Nat \ {0} /\ ByteBits \in Nat \ {0}
      /\ q \in Nat /\ r \in Nat /\ mW = ByteBits * q + r /\ r < ByteBits
  BY ParamAssumption
<1>3. wBytes = IF r = 0 THEN q ELSE q + 1
  BY <1>2 DEF wBytes
<1>4. wBytes \in Nat
  BY <1>2, <1>3
<1> QED
  BY <1>1, <1>2, <1>3, <1>4 DEF MaskFits, MaskedWidth

\* A band that starts where hashPos says ends inside the matrix.
LEMMA StartPositionsFit ==
  ASSUME NEW p \in StartPositions
  PROVE  p \in Columns /\ p + mW <= mSize
BY ParamAssumption DEF StartPositions, Columns

-----------------------------------------------------------------------------
(* The row operations of the elimination. *)

\* A row whose bits are inside the band and inside the matrix.
BandRow == [startPos : Columns \cup {NoPos}, data : SUBSET (0 .. mW - 1), val : Blocks]

GoodRow(row) == row \in BandRow /\ RowColumns(row) \subseteq Columns

\* The row a key contributes stays within the band width and the matrix.
LEMMA KeyRowGood ==
  ASSUME NEW p \in StartPositions, NEW b \in SUBSET (0 .. mW - 1), NEW v \in Blocks
  PROVE  GoodRow([startPos |-> p, data |-> b, val |-> v])
<1>1. p \in Columns /\ p + mW <= mSize
  BY StartPositionsFit
<1>2. \A o \in b : p + o \in Columns
  BY <1>1, ParamAssumption DEF Columns
<1> QED
  BY <1>1, <1>2 DEF GoodRow, BandRow, RowColumns

\* Dropping no more than the zeros in front of a row moves all its bits.
LEMMA DropZeros ==
  ASSUME NEW row, row.startPos \in Int, row.data \in SUBSET Nat, row.data # {},
         NEW k \in Nat, k <= FirstBit(row.data)
  PROVE  Drop(row, k) = [startPos |-> row.startPos + k,
                         data |-> {o - k : o \in row.data}, val |-> row.val]
<1>1. FirstBit(row.data) \in row.data /\ \A o \in row.data : FirstBit(row.data) <= o
  BY FirstBitIsLeast
<1>2. \A o \in row.data : o >= k
  BY <1>1
<1>3. {o \in row.data : o >= k} = row.data
  BY <1>2
<1> QED
  BY <1>3 DEF Drop

\* The two stages of the shift, words and then bits, move the first bit to
\* offset 0 as one would.
LEMMA ShiftOnce ==
  ASSUME NEW row, row.startPos \in Int, row.data \in SUBSET Nat, row.data # {}
  PROVE  Shift(row) = [startPos |-> row.startPos + FirstBit(row.data),
                       data |-> {o - FirstBit(row.data) : o \in row.data},
                       val |-> row.val]
<1> DEFINE first == FirstBit(row.data)
           w     == ZeroWords(row)
           words == [startPos |-> row.startPos + w, data |-> {o - w : o \in row.data},
                     val |-> row.val]
<1>1. first \in row.data /\ \A o \in row.data : first <= o
  BY FirstBitIsLeast
<1>2. w \in Nat /\ w <= first
  BY <1>1, ParamAssumption DEF ZeroWords
<1>3. Drop(row, w) = words
  BY <1>2, DropZeros
<1>13. /\ words.startPos = row.startPos + w /\ words.data = {o - w : o \in row.data}
       /\ words.val = row.val
  OBVIOUS
<1> HIDE DEF first, w, words
<1>14. first \in Nat /\ first - w \in Nat
  BY <1>1, <1>2
<1>4. words.startPos \in Int /\ words.data \in SUBSET Nat /\ first - w \in words.data
  <2>1. \A o \in row.data : o - w \in Nat
    BY <1>1, <1>2
  <2> QED
    BY <1>1, <1>2, <1>13, <2>1
<1>5. \A o \in words.data : first - w <= o
  BY <1>1, <1>2, <1>13
<1>6. FirstBit(words.data) = first - w
  <2>3. words.data # {}
    BY <1>4
  <2>1. /\ FirstBit(words.data) \in words.data
        /\ \A o \in words.data : FirstBit(words.data) <= o
    BY <1>4, <2>3, FirstBitIsLeast
  <2>2. FirstBit(words.data) \in Nat /\ first - w \in Nat
    BY <1>4, <2>1
  <2> QED
    BY <1>4, <1>5, <2>1, <2>2
<1>7. Shift(row) = Drop(words, first - w)
  BY <1>3, <1>6 DEF Shift, w
<1>8. words.data # {}
  BY <1>4
<1>9. Drop(words, first - w) = [startPos |-> words.startPos + (first - w),
                                data |-> {o - (first - w) : o \in words.data},
                                val |-> row.val]
  <2>1. first - w <= FirstBit(words.data)
    BY <1>6, <1>14
  <2> QED
    BY <1>4, <1>8, <1>13, <1>14, <2>1, DropZeros
<1>10. words.startPos + (first - w) = row.startPos + first
  BY <1>2, <1>13, <1>14
<1>11. \A o \in row.data : (o - w) - (first - w) = o - first
  BY <1>1, <1>2
<1>12. {o - (first - w) : o \in words.data} = {o - first : o \in row.data}
  BY <1>11, <1>13
<1> QED
  BY <1>7, <1>9, <1>10, <1>12 DEF first

\* reformalize moves the first bit to offset 0 and keeps the equation.
LEMMA ShiftRow ==
  ASSUME NEW row, GoodRow(row), row.data # {}
  PROVE  /\ GoodRow(Shift(row))
         /\ Shift(row).startPos \in Columns
         /\ 0 \in Shift(row).data
         /\ RowColumns(Shift(row)) = RowColumns(row)
         /\ Shift(row).val = row.val
<1> DEFINE first == FirstBit(row.data)
<1>1. /\ row.startPos \in Int /\ row.data \in SUBSET (0 .. mW - 1)
      /\ row.val \in Blocks /\ RowColumns(row) \subseteq Columns
  BY ParamAssumption DEF GoodRow, BandRow, Columns, NoPos
<1>2. row.data \in SUBSET Nat
  BY <1>1, ParamAssumption
<1>3. first \in row.data /\ \A o \in row.data : first <= o
  BY <1>2, FirstBitIsLeast
<1> HIDE DEF first
<1>4. Shift(row) = [startPos |-> row.startPos + first,
                    data |-> {o - first : o \in row.data}, val |-> row.val]
  BY <1>1, <1>2, ShiftOnce DEF first
<1>5. Shift(row).startPos \in Columns
  BY <1>1, <1>3, <1>4 DEF RowColumns
<1>6. Shift(row).data \in SUBSET (0 .. mW - 1)
  BY <1>1, <1>2, <1>3, <1>4, ParamAssumption
<1>7. 0 \in Shift(row).data
  <2>1. first - first = 0
    BY <1>2, <1>3
  <2> QED
    BY <2>1, <1>3, <1>4
<1>8. RowColumns(Shift(row)) = RowColumns(row)
  <2>1. \A o \in row.data : (row.startPos + first) + (o - first) = row.startPos + o
    BY <1>1, <1>2, <1>3
  <2>2. RowColumns(Shift(row)) = {(row.startPos + first) + (o - first) : o \in row.data}
    BY <1>4 DEF RowColumns
  <2> QED
    BY <2>1, <2>2 DEF RowColumns
<1>9. Shift(row).val = row.val
  BY <1>4
<1>10. Shift(row) = [startPos |-> Shift(row).startPos, data |-> Shift(row).data,
                     val |-> Shift(row).val]
  BY <1>4
<1>11. Shift(row) \in BandRow
  BY <1>1, <1>5, <1>6, <1>9, <1>10 DEF BandRow
<1> QED
  BY <1>1, <1>5, <1>7, <1>8, <1>9, <1>11 DEF GoodRow

\* The XOR of two rows with the same start combines their equations.
LEMMA XorRowsGood ==
  ASSUME NEW r, GoodRow(r), NEW s, GoodRow(s), r.startPos = s.startPos
  PROVE  /\ GoodRow(XorRows(r, s))
         /\ RowColumns(XorRows(r, s)) = XOR(RowColumns(r), RowColumns(s))
         /\ XorRows(r, s).val = XOR(r.val, s.val)
<1>1. /\ r.startPos \in Columns \cup {NoPos} /\ r.startPos \in Int
      /\ r.data \in SUBSET (0 .. mW - 1) /\ s.data \in SUBSET (0 .. mW - 1)
      /\ r.val \in Blocks /\ s.val \in Blocks
  BY ParamAssumption DEF GoodRow, BandRow, Columns, NoPos
<1>2. XorRows(r, s) = [startPos |-> r.startPos, data |-> XOR(r.data, s.data),
                       val |-> XOR(r.val, s.val)]
  BY DEF XorRows
<1>3. XOR(r.data, s.data) \in SUBSET (0 .. mW - 1)
  BY <1>1 DEF XOR
<1>4. XOR(r.val, s.val) \in Blocks
  BY <1>1, XorType
<1>5. RowColumns(XorRows(r, s)) = XOR(RowColumns(r), RowColumns(s))
  <2>1. \A o, p \in 0 .. mW - 1 : r.startPos + o = r.startPos + p => o = p
    BY <1>1, ParamAssumption
  <2>2. RowColumns(s) = {r.startPos + o : o \in s.data}
    BY DEF RowColumns
  <2>3. RowColumns(r) = {r.startPos + o : o \in r.data}
    BY DEF RowColumns
  <2>4. RowColumns(XorRows(r, s)) = {r.startPos + o : o \in XOR(r.data, s.data)}
    BY <1>2 DEF RowColumns
  <2>5. ASSUME NEW A \in SUBSET (0 .. mW - 1), NEW B \in SUBSET (0 .. mW - 1)
        PROVE  {r.startPos + o : o \in XOR(A, B)} =
                 XOR({r.startPos + o : o \in A}, {r.startPos + o : o \in B})
    BY <2>1 DEF XOR
  <2> QED
    BY <1>1, <2>2, <2>3, <2>4, <2>5
<1>6. XOR(RowColumns(r), RowColumns(s)) \subseteq Columns
  BY DEF GoodRow, XOR
<1> QED
  BY <1>1, <1>2, <1>3, <1>4, <1>5, <1>6 DEF GoodRow, BandRow

\* Adding a satisfied equation to a row does not change who satisfies it.
LEMMA XorRowsSatisfies ==
  ASSUME NEW x, NEW r, GoodRow(r), NEW s, GoodRow(s), r.startPos = s.startPos,
         Satisfies(x, s)
  PROVE  Satisfies(x, XorRows(r, s)) <=> Satisfies(x, r)
<1>1. XorOver(x, RowColumns(XorRows(r, s))) =
        XOR(XorOver(x, RowColumns(r)), XorOver(x, RowColumns(s)))
  BY XorRowsGood, XorOverLinear DEF GoodRow
<1>2. XorRows(r, s).val = XOR(r.val, s.val)
  BY XorRowsGood
<1>3. XorOver(x, RowColumns(s)) = s.val
  BY DEF Satisfies
<1>4. \A a, b, c : XOR(a, c) = XOR(b, c) <=> a = b
  BY DEF XOR
<1> QED
  BY <1>1, <1>2, <1>3, <1>4 DEF Satisfies

-----------------------------------------------------------------------------
(* The inductive invariant. *)

\* The hashes of the keys fit the matrix.
KeysFit ==
  \A i \in RowIds : keyPos[i] \in StartPositions /\ keyBand[i] \in SUBSET (0 .. mW - 1)

RowsGood == \A i \in RowIds : GoodRow(rows[i])

\* SameSolutions in every phase.
Solutions ==
  \A x \in [Columns -> Blocks] :
    (\A i \in RowIds : Satisfies(x, KeyRow(i)))
      <=> (\A i \in LiveRows : Satisfies(x, rows[i]))

\* Where the phases start from, and what back substitution has solved so far.
Phases ==
  /\ pc \in {"solve", "decode", "done"} => rowIdx = mN
  /\ pc = "insert" => col = mSize - 1
  /\ pc \in {"decode", "done"} => col = -1
  /\ pc = "fail" => rowIdx < mN /\ Inconsistent(rows[rowIdx])

SolvedColumns ==
  pc \in {"solve", "decode", "done"} =>
    \A c \in Columns : c > col /\ bitToRowMap[c] # NoRow
                         => Satisfies(output, rows[bitToRowMap[c]])

IInv ==
  /\ TypeOK
  /\ KeysFit
  /\ RowsGood
  /\ EchelonForm
  /\ Solutions
  /\ Phases
  /\ SolvedColumns
  /\ DecodeCorrect

\* A row whose bits stay below the band width has the type of a row.
LEMMA BandRowType == \A row \in BandRow : row \in RowType
BY ParamAssumption DEF BandRow, RowType

\* encode starts, all keys hashed, in a state of the invariant.
LEMMA InitIInv ==
  ASSUME MaskFits, Init
  PROVE  IInv
<1> USE DEF Init
<1>1. KeysFit
  <2>1. \A raw \in RawBands : hashBand(raw) \in SUBSET (0 .. mW - 1)
    <3>1. MaskedWidth <= mW /\ MaskedWidth \in Int
      BY MaskedWidthFits, ParamAssumption DEF MaskedWidth, wBytes
    <3> QED
      BY <3>1, ParamAssumption DEF hashBand
  <2> QED
    BY <2>1 DEF KeysFit
<1>2. RowsGood
  <2>1. \A i \in RowIds : rows[i] = [startPos |-> keyPos[i], data |-> keyBand[i], val |-> vals[i]]
    BY DEF KeyRow
  <2>2. \A i \in RowIds : vals[i] \in Blocks
    OBVIOUS
  <2> QED
    BY <1>1, <2>1, <2>2, KeyRowGood DEF KeysFit, RowsGood
<1>3. TypeOK
  <2>1. keyPos \in [RowIds -> Columns]
    BY StartPositionsFit
  <2>2. keyBand \in [RowIds -> SUBSET Nat]
    <3>1. \A raw \in RawBands : hashBand(raw) \in SUBSET Nat
      BY ParamAssumption DEF hashBand, MaskedWidth, wBytes
    <3> QED
      BY <3>1
  <2>3. rows \in [RowIds -> RowType]
    <3>1. \A i \in RowIds : rows[i] \in RowType
      BY <1>2, BandRowType DEF RowsGood, GoodRow
    <3> QED
      BY <3>1
  <2>4. col \in -1 .. mSize - 1 /\ rowIdx \in 0 .. mN
    BY ParamAssumption
  <2>5. output \in [Columns -> Blocks]
    BY DEF Blocks
  <2> QED
    BY <2>1, <2>2, <2>3, <2>4, <2>5 DEF TypeOK
<1>4. EchelonForm
  BY DEF EchelonForm
<1>5. Solutions
  <2>1. LiveRows = RowIds
    BY ParamAssumption DEF LiveRows, RowIds
  <2> QED
    BY <2>1 DEF Solutions
<1>6. Phases /\ SolvedColumns /\ DecodeCorrect
  BY DEF Phases, SolvedColumns, DecodeCorrect
<1> QED
  BY <1>1, <1>2, <1>3, <1>4, <1>5, <1>6 DEF IInv

-----------------------------------------------------------------------------
(* The steps of insert. *)

\* The row being inserted is live and no column maps to it yet.
LEMMA CurrentRow ==
  ASSUME IInv, rowIdx < mN
  PROVE  /\ rowIdx \in RowIds
         /\ rowIdx \in LiveRows
         /\ \A c \in Columns : bitToRowMap[c] # rowIdx
         /\ GoodRow(rows[rowIdx])
<1>1. rowIdx \in RowIds
  BY ParamAssumption DEF IInv, TypeOK, RowIds
<1>2. rowIdx \in LiveRows
  <2>1. rowIdx >= rowIdx
    BY <1>1 DEF RowIds
  <2> QED
    BY <1>1, <2>1 DEF LiveRows
<1>3. ASSUME NEW c \in Columns
      PROVE  bitToRowMap[c] # rowIdx
  <2>1. CASE bitToRowMap[c] = NoRow
    BY <2>1, <1>1, ParamAssumption DEF RowIds, NoRow
  <2>2. CASE bitToRowMap[c] # NoRow
    <3>1. bitToRowMap[c] < rowIdx
      BY <2>2 DEF IInv, EchelonForm
    <3> QED
      BY <3>1, <1>1 DEF RowIds
  <2> QED
    BY <2>1, <2>2
<1>4. GoodRow(rows[rowIdx])
  BY <1>1 DEF IInv, RowsGood
<1> QED
  BY <1>1, <1>2, <1>3, <1>4

\* encode gives up: the matrix is as it was, the failing row is live.
LEMMA FailStep ==
  ASSUME IInv, InsertFail
  PROVE  IInv'
<1> USE DEF IInv, InsertFail, keyVars
<1>1. TypeOK'
  BY DEF TypeOK
<1>2. KeysFit' /\ RowsGood'
  BY DEF KeysFit, RowsGood, GoodRow, RowColumns
<1>3. EchelonForm'
  BY DEF EchelonForm
<1>4. Solutions'
  <2>1. LiveRows' = LiveRows
    BY DEF LiveRows
  <2> QED
    BY <2>1 DEF Solutions, KeyRow
<1>5. Phases' /\ SolvedColumns' /\ DecodeCorrect'
  BY DEF Phases, SolvedColumns, DecodeCorrect, Inconsistent
<1> QED
  BY <1>1, <1>2, <1>3, <1>4, <1>5

\* Marking a row as all zero touches nothing but its start.
LEMMA RowExcept ==
  \A row \in RowType :
    [row EXCEPT !.startPos = NoPos] =
      [startPos |-> NoPos, data |-> row.data, val |-> row.val]
BY DEF RowType

\* A row that became all zero with value zero is satisfied by everything,
\* so leaving it out keeps the solutions.
LEMMA AllZeroStep ==
  ASSUME IInv, InsertAllZero
  PROVE  IInv'
<1> USE DEF InsertAllZero, keyVars
<1> DEFINE r == rows[rowIdx]
<1>1. /\ rowIdx \in RowIds /\ rowIdx \in LiveRows /\ GoodRow(r)
      /\ \A c \in Columns : bitToRowMap[c] # rowIdx
  BY CurrentRow
<1>2. r \in RowType /\ r.data = {} /\ r.val = {}
  BY <1>1 DEF IInv, TypeOK, Inconsistent
<1>3. rows' = [rows EXCEPT ![rowIdx] = [startPos |-> NoPos, data |-> {}, val |-> {}]]
  <2>1. [r EXCEPT !.startPos = NoPos] = [startPos |-> NoPos, data |-> {}, val |-> {}]
    BY <1>2, RowExcept
  <2>2. rows' = [rows EXCEPT ![rowIdx] = [r EXCEPT !.startPos = NoPos]]
    OBVIOUS
  <2> QED
    BY <2>1, <2>2
<1> DEFINE z == [startPos |-> NoPos, data |-> {}, val |-> {}]
<1>4. /\ rows' \in [RowIds -> RowType] /\ rows'[rowIdx] = z
      /\ \A i \in RowIds : i # rowIdx => rows'[i] = rows[i]
  <2>1. z \in RowType
    BY DEF RowType, Blocks
  <2>2. rows \in [RowIds -> RowType] /\ rowIdx \in RowIds
    BY <1>1 DEF IInv, TypeOK
  <2>3. rows' = [rows EXCEPT ![rowIdx] = z]
    BY <1>3
  <2> HIDE DEF z, InsertAllZero
  <2> QED
    BY <2>1, <2>2, <2>3
<1>5. RowColumns(z) = {} /\ GoodRow(z)
  BY DEF RowColumns, GoodRow, BandRow, Blocks
<1>6. TypeOK'
  BY <1>1, <1>4, ParamAssumption DEF IInv, TypeOK, RowIds
<1>7. KeysFit' /\ RowsGood'
  <2>1. KeysFit'
    BY DEF IInv, KeysFit
  <2>2. \A i \in RowIds : GoodRow(rows'[i])
    BY <1>4, <1>5 DEF IInv, RowsGood
  <2> QED
    BY <2>1, <2>2 DEF RowsGood, GoodRow, RowColumns
<1>8. EchelonForm'
  BY <1>1, <1>4, ParamAssumption DEF IInv, EchelonForm, TypeOK, NoRow, RowIds
<1>9. Solutions'
  <2>1. LiveRows' = LiveRows \ {rowIdx}
    BY <1>1 DEF IInv, TypeOK, LiveRows, RowIds
  <2>2. LiveRows \subseteq RowIds
    BY DEF LiveRows, IInv, TypeOK
  <2>3. \A x : Satisfies(x, r)
    BY <1>2, XorOverEmpty DEF Satisfies, RowColumns
  <2>4. \A x, i : i \in LiveRows \ {rowIdx} => (Satisfies(x, rows'[i]) <=> Satisfies(x, rows[i]))
    BY <1>4, <2>2
  <2>5. \A x \in [Columns -> Blocks] :
          (\A i \in RowIds : Satisfies(x, KeyRow(i)))
            <=> (\A i \in LiveRows' : Satisfies(x, rows'[i]))
    BY <2>1, <2>3, <2>4 DEF IInv, Solutions
  <2> QED
    BY <2>5 DEF Solutions, KeyRow
<1>10. Phases' /\ SolvedColumns' /\ DecodeCorrect'
  BY DEF IInv, Phases, SolvedColumns, DecodeCorrect
<1> QED
  BY <1>6, <1>7, <1>8, <1>9, <1>10 DEF IInv

\* Eliminating with a live row keeps the solutions and the row in bounds.
LEMMA CollideStep ==
  ASSUME IInv, InsertCollide
  PROVE  IInv'
<1> USE DEF InsertCollide, keyVars
<1> DEFINE r == Shift(rows[rowIdx])
           k == bitToRowMap[r.startPos]
           p == rows[k]
           z == XorRows(r, p)
<1>1. /\ rowIdx \in RowIds /\ rowIdx \in LiveRows /\ GoodRow(rows[rowIdx])
      /\ \A c \in Columns : bitToRowMap[c] # rowIdx
  BY CurrentRow
<1>2. /\ GoodRow(r) /\ r.startPos \in Columns
      /\ RowColumns(r) = RowColumns(rows[rowIdx]) /\ r.val = rows[rowIdx].val
  BY <1>1, ShiftRow
<1>3. /\ k \in RowIds /\ k \in LiveRows /\ k # rowIdx
      /\ GoodRow(p) /\ p.startPos = r.startPos
  BY <1>1, <1>2 DEF IInv, TypeOK, EchelonForm, RowsGood, LiveRows
<1>4. GoodRow(z)
  BY <1>2, <1>3, XorRowsGood
<1>5. rows' = [rows EXCEPT ![rowIdx] = z]
  OBVIOUS
<1> HIDE DEF r, p, z, k
<1>6. /\ rows' \in [RowIds -> RowType] /\ rows'[rowIdx] = z
      /\ \A i \in RowIds : i # rowIdx => rows'[i] = rows[i]
  BY <1>1, <1>4, <1>5, BandRowType DEF IInv, TypeOK, GoodRow
<1>7. TypeOK'
  BY <1>6 DEF IInv, TypeOK
<1>8. KeysFit' /\ RowsGood'
  <2>1. KeysFit'
    BY DEF IInv, KeysFit
  <2>2. \A i \in RowIds : GoodRow(rows'[i])
    BY <1>4, <1>6 DEF IInv, RowsGood
  <2> QED
    BY <2>1, <2>2 DEF RowsGood, GoodRow, RowColumns
<1>9. EchelonForm'
  BY <1>1, <1>6 DEF IInv, EchelonForm, TypeOK
<1>10. Solutions'
  <2>1. LiveRows' = LiveRows
    BY DEF LiveRows
  <2>2. LiveRows \subseteq RowIds
    BY DEF LiveRows, IInv, TypeOK
  <2>3. \A x : Satisfies(x, p) => (Satisfies(x, z) <=> Satisfies(x, r))
    BY <1>2, <1>3, XorRowsSatisfies DEF z
  <2>4. \A x : Satisfies(x, r) <=> Satisfies(x, rows[rowIdx])
    BY <1>2 DEF Satisfies
  <2>5. \A x : (\A i \in LiveRows : Satisfies(x, rows'[i]))
                 <=> (\A i \in LiveRows : Satisfies(x, rows[i]))
    <3>1. p = rows[k]
      BY DEF p
    <3> QED
      BY <1>1, <1>3, <1>6, <2>2, <2>3, <2>4, <3>1
  <2>6. \A x \in [Columns -> Blocks] :
          (\A i \in RowIds : Satisfies(x, KeyRow(i)))
            <=> (\A i \in LiveRows' : Satisfies(x, rows'[i]))
    BY <2>1, <2>5 DEF IInv, Solutions
  <2> QED
    BY <2>6 DEF Solutions, KeyRow
<1>11. Phases' /\ SolvedColumns' /\ DecodeCorrect'
  BY DEF IInv, Phases, SolvedColumns, DecodeCorrect
<1> QED
  BY <1>7, <1>8, <1>9, <1>10, <1>11 DEF IInv

\* Placing a shifted row in the free column of its first bit keeps the
\* echelon form.
LEMMA PlaceStep ==
  ASSUME IInv, InsertPlace
  PROVE  IInv'
<1> USE DEF InsertPlace, keyVars
<1> DEFINE z == Shift(rows[rowIdx])
<1>1. /\ rowIdx \in RowIds /\ rowIdx \in LiveRows /\ GoodRow(rows[rowIdx])
      /\ \A c \in Columns : bitToRowMap[c] # rowIdx
  BY CurrentRow
<1>2. /\ GoodRow(z) /\ z.startPos \in Columns /\ 0 \in z.data
      /\ RowColumns(z) = RowColumns(rows[rowIdx]) /\ z.val = rows[rowIdx].val
  BY <1>1, ShiftRow
<1>3. /\ bitToRowMap[z.startPos] = NoRow
      /\ rows' = [rows EXCEPT ![rowIdx] = z]
      /\ bitToRowMap' = [bitToRowMap EXCEPT ![z.startPos] = rowIdx]
  OBVIOUS
<1> HIDE DEF z
<1>4. /\ rows' \in [RowIds -> RowType] /\ rows'[rowIdx] = z
      /\ \A i \in RowIds : i # rowIdx => rows'[i] = rows[i]
  BY <1>1, <1>2, <1>3, BandRowType DEF IInv, TypeOK, GoodRow
<1>5. /\ bitToRowMap' \in [Columns -> RowIds \cup {NoRow}]
      /\ bitToRowMap'[z.startPos] = rowIdx
      /\ \A c \in Columns : c # z.startPos => bitToRowMap'[c] = bitToRowMap[c]
  BY <1>1, <1>2, <1>3 DEF IInv, TypeOK
<1>6. TypeOK'
  <2>1. rowIdx' \in 0 .. mN
    BY <1>1, ParamAssumption DEF IInv, TypeOK, RowIds
  <2> QED
    BY <2>1, <1>4, <1>5 DEF IInv, TypeOK
<1>7. KeysFit' /\ RowsGood'
  <2>1. KeysFit'
    BY DEF IInv, KeysFit
  <2>2. \A i \in RowIds : GoodRow(rows'[i])
    BY <1>2, <1>4 DEF IInv, RowsGood
  <2> QED
    BY <2>1, <2>2 DEF RowsGood, GoodRow, RowColumns
<1>8. EchelonForm'
  <2>1. ASSUME NEW c \in Columns, bitToRowMap'[c] # NoRow
        PROVE  /\ bitToRowMap'[c] < rowIdx'
               /\ rows'[bitToRowMap'[c]].startPos = c
               /\ 0 \in rows'[bitToRowMap'[c]].data
    <3>1. CASE c = z.startPos
      BY <3>1, <1>1, <1>2, <1>4, <1>5, ParamAssumption DEF RowIds
    <3>2. CASE c # z.startPos
      <4>1. bitToRowMap[c] \in RowIds /\ bitToRowMap[c] # rowIdx
        BY <3>2, <2>1, <1>1, <1>5 DEF IInv, TypeOK
      <4> QED
        BY <4>1, <3>2, <2>1, <1>1, <1>4, <1>5, ParamAssumption
           DEF IInv, EchelonForm, RowIds
    <3> QED
      BY <3>1, <3>2
  <2> QED
    BY <2>1 DEF EchelonForm, NoRow
<1>9. Solutions'
  <2>1. LiveRows' = LiveRows
    <3>1. {i \in RowIds : i >= rowIdx} = {i \in RowIds : i >= rowIdx'} \cup {rowIdx}
      BY <1>1, ParamAssumption DEF RowIds
    <3>2. {bitToRowMap'[c] : c \in {c \in Columns : bitToRowMap'[c] # NoRow}} =
            {bitToRowMap[c] : c \in {c \in Columns : bitToRowMap[c] # NoRow}} \cup {rowIdx}
      BY <1>1, <1>2, <1>3, <1>5, ParamAssumption DEF NoRow, RowIds
    <3> QED
      BY <3>1, <3>2 DEF LiveRows, NoRow
  <2>2. LiveRows \subseteq RowIds
    BY DEF LiveRows, IInv, TypeOK
  <2>3. \A x : Satisfies(x, z) <=> Satisfies(x, rows[rowIdx])
    BY <1>2 DEF Satisfies
  <2>4. \A x : (\A i \in LiveRows : Satisfies(x, rows'[i]))
                 <=> (\A i \in LiveRows : Satisfies(x, rows[i]))
    BY <1>1, <1>4, <2>2, <2>3
  <2>5. \A x \in [Columns -> Blocks] :
          (\A i \in RowIds : Satisfies(x, KeyRow(i)))
            <=> (\A i \in LiveRows' : Satisfies(x, rows'[i]))
    BY <2>1, <2>4 DEF IInv, Solutions
  <2> QED
    BY <2>5 DEF Solutions, KeyRow
<1>10. Phases' /\ SolvedColumns' /\ DecodeCorrect'
  BY DEF IInv, Phases, SolvedColumns, DecodeCorrect
<1> QED
  BY <1>6, <1>7, <1>8, <1>9, <1>10 DEF IInv

-----------------------------------------------------------------------------
(* The steps of back substitution. *)

\* A step that leaves the matrix alone keeps what is known of it.
LEMMA MatrixUnchanged ==
  ASSUME IInv, UNCHANGED <<keyPos, keyBand, vals, rows, bitToRowMap, rowIdx>>
  PROVE  KeysFit' /\ RowsGood' /\ EchelonForm' /\ Solutions'
<1>1. KeysFit' /\ RowsGood'
  BY DEF IInv, KeysFit, RowsGood, GoodRow, RowColumns
<1>2. EchelonForm'
  BY DEF IInv, EchelonForm
<1>3. LiveRows' = LiveRows
  BY DEF LiveRows
<1> QED
  BY <1>1, <1>2, <1>3 DEF IInv, Solutions, KeyRow

\* A step that changes neither the matrix nor the output keeps the columns
\* solved so far solved.
LEMMA SolutionUnchanged ==
  ASSUME IInv, UNCHANGED <<rows, bitToRowMap, col, output>>,
         pc' \in {"solve", "decode", "done"} => pc \in {"solve", "decode", "done"}
  PROVE  SolvedColumns'
<1>1. ASSUME pc' \in {"solve", "decode", "done"}
      PROVE  \A c \in Columns : c > col' /\ bitToRowMap'[c] # NoRow
                                  => Satisfies(output', rows'[bitToRowMap'[c]])
  BY <1>1 DEF IInv, SolvedColumns
<1> QED
  BY <1>1 DEF SolvedColumns, NoRow, Satisfies, XorOver, RowColumns

\* Back substitution starts with no column solved.
LEMMA InsertDoneStep ==
  ASSUME IInv, InsertDone
  PROVE  IInv'
<1> USE DEF InsertDone, keyVars
<1>1. KeysFit' /\ RowsGood' /\ EchelonForm' /\ Solutions'
  BY MatrixUnchanged
<1>2. TypeOK'
  BY DEF IInv, TypeOK
<1>3. Phases' /\ DecodeCorrect'
  BY DEF IInv, Phases, DecodeCorrect
<1>4. SolvedColumns'
  <2>1. col = mSize - 1
    BY DEF IInv, Phases
  <2> QED
    BY <2>1, ParamAssumption DEF SolvedColumns, Columns
<1> QED
  BY <1>1, <1>2, <1>3, <1>4 DEF IInv

\* In echelon form the row of column c reads only columns from c on, and its
\* tail is all of them but c.
LEMMA PivotRow ==
  ASSUME IInv, NEW c \in Columns, bitToRowMap[c] # NoRow
  PROVE  /\ bitToRowMap[c] \in RowIds
         /\ GoodRow(rows[bitToRowMap[c]])
         /\ c \in RowColumns(rows[bitToRowMap[c]])
         /\ \A d \in RowColumns(rows[bitToRowMap[c]]) : d >= c
         /\ TailColumns(rows[bitToRowMap[c]]) = RowColumns(rows[bitToRowMap[c]]) \ {c}
<1> DEFINE row == rows[bitToRowMap[c]]
<1>1. /\ bitToRowMap[c] \in RowIds /\ GoodRow(row)
      /\ row.startPos = c /\ 0 \in row.data
  BY DEF IInv, TypeOK, RowsGood, EchelonForm
<1>2. row.data \in SUBSET (0 .. mW - 1) /\ RowColumns(row) \subseteq Columns
  BY <1>1 DEF GoodRow, BandRow
<1> HIDE DEF row
<1>3. c \in Int /\ c + 0 = c
  BY DEF Columns
<1>4. RowColumns(row) = {c + o : o \in row.data}
  BY <1>1 DEF RowColumns
<1>5. c \in RowColumns(row)
  BY <1>1, <1>3, <1>4
<1>6. \A d \in RowColumns(row) : d >= c /\ d - c < mW
  BY <1>2, <1>3, <1>4, ParamAssumption
<1>7. TailColumns(row) = RowColumns(row) \ {c}
  BY <1>1, <1>2, <1>3, <1>6 DEF TailColumns, Columns
<1> QED
  BY <1>1, <1>5, <1>6, <1>7 DEF row

\* Solving a column with a row satisfies that row and disturbs none of the
\* rows of later columns.
LEMMA SolvePivotStep ==
  ASSUME IInv, SolvePivot
  PROVE  IInv'
<1> USE DEF SolvePivot, keyVars
<1> DEFINE row == rows[bitToRowMap[col]]
           tail == TailColumns(row)
           b == XOR(row.val, XorOver(output, tail))
<1>1. col \in Columns
  BY ParamAssumption DEF IInv, TypeOK, Columns
<1>2. /\ GoodRow(row) /\ col \in RowColumns(row)
      /\ tail = RowColumns(row) \ {col}
  BY <1>1, PivotRow
<1>3. row.val \in Blocks /\ RowColumns(row) \subseteq Columns
  BY <1>2 DEF GoodRow, BandRow
<1>4. output' = [output EXCEPT ![col] = b]
  OBVIOUS
<1>5. b \in Blocks
  BY <1>3, XorOverType, XorType
<1> HIDE DEF tail, b
<1>6. /\ output' \in [Columns -> Blocks] /\ output'[col] = b
      /\ \A c \in Columns : c # col => output'[c] = output[c]
  BY <1>1, <1>4, <1>5 DEF IInv, TypeOK
<1>7. XorOver(output', tail) = XorOver(output, tail)
  <2>1. \A j \in tail : output'[j] = output[j]
    BY <1>2, <1>3, <1>6
  <2> QED
    BY <2>1, XorOverAgree
<1>8. Satisfies(output', row)
  <2>1. RowColumns(row) = XOR({col}, tail)
    BY <1>2 DEF XOR
  <2>2. XorOver(output', XOR({col}, tail)) =
          XOR(XorOver(output', {col}), XorOver(output', tail))
    <3>1. {col} \in SUBSET Columns /\ tail \in SUBSET Columns
      BY <1>1, <1>2, <1>3
    <3> HIDE DEF SolvePivot
    <3>2. \A x : XorOver(x, XOR({col}, tail)) =
                   XOR(XorOver(x, {col}), XorOver(x, tail))
      BY <3>1, XorOverLinear
    <3> QED
      BY <3>2
  <2>3. XorOver(output', {col}) = b
    BY <1>1, <1>6, XorOverSingle
  <2>4. XOR(XOR(row.val, XorOver(output, tail)), XorOver(output, tail)) = row.val
    BY DEF XOR
  <2> QED
    BY <1>7, <2>1, <2>2, <2>3, <2>4 DEF Satisfies, b
<1>9. SolvedColumns'
  <2>1. ASSUME NEW c \in Columns, c > col - 1, bitToRowMap[c] # NoRow
        PROVE  Satisfies(output', rows[bitToRowMap[c]])
    <3>1. CASE c = col
      BY <3>1, <1>8
    <3>2. CASE c # col
      <4>1. c > col
        BY <2>1, <3>2, <1>1 DEF Columns
      <4>2. Satisfies(output, rows[bitToRowMap[c]])
        BY <2>1, <4>1 DEF IInv, SolvedColumns
      <4>3. \A d \in RowColumns(rows[bitToRowMap[c]]) : d \in Columns /\ d # col
        BY <2>1, <4>1, <1>1, PivotRow DEF GoodRow, Columns
      <4>4. XorOver(output', RowColumns(rows[bitToRowMap[c]])) =
              XorOver(output, RowColumns(rows[bitToRowMap[c]]))
        <5>1. \A j \in RowColumns(rows[bitToRowMap[c]]) : output'[j] = output[j]
          BY <4>3, <1>6
        <5> QED
          BY <5>1, XorOverAgree
      <4> QED
        BY <4>2, <4>4 DEF Satisfies
    <3> QED
      BY <3>1, <3>2
  <2>2. \A c \in Columns : c > col' /\ bitToRowMap'[c] # NoRow
                             => Satisfies(output', rows'[bitToRowMap'[c]])
    BY <2>1
  <2> QED
    BY <2>2 DEF SolvedColumns, NoRow, Satisfies, XorOver, RowColumns
<1>10. TypeOK'
  BY <1>6, ParamAssumption DEF IInv, TypeOK
<1>11. Phases' /\ DecodeCorrect'
  BY DEF IInv, Phases, DecodeCorrect
<1>12. KeysFit' /\ RowsGood' /\ EchelonForm' /\ Solutions'
  BY MatrixUnchanged
<1> QED
  BY <1>9, <1>10, <1>11, <1>12 DEF IInv

\* A free column may get any block: no solved row reads it.
LEMMA SolveFreeStep ==
  ASSUME IInv, SolveFree
  PROVE  IInv'
<1> USE DEF SolveFree, keyVars
<1>1. col \in Columns
  BY ParamAssumption DEF IInv, TypeOK, Columns
<1>2. PICK b \in Blocks : output' = [output EXCEPT ![col] = b]
  OBVIOUS
<1>3. /\ output' \in [Columns -> Blocks]
      /\ \A c \in Columns : c # col => output'[c] = output[c]
  BY <1>1, <1>2 DEF IInv, TypeOK
<1>4. SolvedColumns'
  <2>1. ASSUME NEW c \in Columns, c > col - 1, bitToRowMap[c] # NoRow
        PROVE  Satisfies(output', rows[bitToRowMap[c]])
    <3>1. c > col
      BY <2>1, <1>1 DEF Columns
    <3>2. Satisfies(output, rows[bitToRowMap[c]])
      BY <2>1, <3>1 DEF IInv, SolvedColumns
    <3>3. \A d \in RowColumns(rows[bitToRowMap[c]]) : d \in Columns /\ d # col
      BY <2>1, <3>1, <1>1, PivotRow DEF GoodRow, Columns
    <3>4. XorOver(output', RowColumns(rows[bitToRowMap[c]])) =
            XorOver(output, RowColumns(rows[bitToRowMap[c]]))
      <4>1. \A j \in RowColumns(rows[bitToRowMap[c]]) : output'[j] = output[j]
        BY <3>3, <1>3
      <4> QED
        BY <4>1, XorOverAgree
    <3> QED
      BY <3>2, <3>4 DEF Satisfies
  <2> QED
    BY <2>1 DEF SolvedColumns, NoRow, Satisfies, XorOver, RowColumns
<1>5. TypeOK'
  BY <1>3, ParamAssumption DEF IInv, TypeOK
<1>6. Phases' /\ DecodeCorrect'
  BY DEF IInv, Phases, DecodeCorrect
<1>7. KeysFit' /\ RowsGood' /\ EchelonForm' /\ Solutions'
  BY MatrixUnchanged
<1> QED
  BY <1>4, <1>5, <1>6, <1>7 DEF IInv

\* The batch decode starts when every column is solved.
LEMMA SolveDoneStep ==
  ASSUME IInv, SolveDone
  PROVE  IInv'
<1> USE DEF SolveDone, keyVars
<1>1. col = -1
  BY ParamAssumption DEF IInv, TypeOK
<1>2. cursor' \in [Threads -> Nat]
  <2>1. mN \in Nat /\ numThreads \in Nat \ {0}
    BY ParamAssumption
  <2>2. batchSize \in Nat
    BY <2>1 DEF batchSize
  <2>3. \A t \in Threads : BatchStart(t) \in Nat
    BY <2>1, <2>2 DEF BatchStart, Threads
  <2> QED
    BY <2>3
<1>3. TypeOK'
  BY <1>2 DEF IInv, TypeOK
<1>4. Phases' /\ DecodeCorrect'
  BY <1>1 DEF IInv, Phases, DecodeCorrect
<1>5. SolvedColumns'
  BY SolutionUnchanged
<1>6. KeysFit' /\ RowsGood' /\ EchelonForm' /\ Solutions'
  BY MatrixUnchanged
<1> QED
  BY <1>3, <1>4, <1>5, <1>6 DEF IInv

-----------------------------------------------------------------------------
(* The steps of the batch decode. *)

\* Once every column is solved, the output satisfies the equation of every key.
LEMMA OutputSolves ==
  ASSUME IInv, pc = "decode", NEW i \in RowIds
  PROVE  Satisfies(output, KeyRow(i))
<1>1. rowIdx = mN /\ col = -1
  BY DEF IInv, Phases
<1>2. \A j \in RowIds : ~ (j >= rowIdx)
  BY <1>1, ParamAssumption DEF RowIds
<1>3. \A c \in Columns : bitToRowMap[c] # NoRow => Satisfies(output, rows[bitToRowMap[c]])
  BY <1>1 DEF IInv, SolvedColumns, Columns
<1>4. \A j \in LiveRows : Satisfies(output, rows[j])
  BY <1>2, <1>3 DEF LiveRows
<1>5. output \in [Columns -> Blocks]
  BY DEF IInv, TypeOK
<1> QED
  BY <1>4, <1>5 DEF IInv, Solutions

\* A decode thread writes the value of its key.
LEMMA DecodeKeyStep ==
  ASSUME IInv, NEW t \in Threads, DecodeKey(t)
  PROVE  IInv'
<1> USE DEF DecodeKey, keyVars
<1> DEFINE k == cursor[t]
<1>1. XorOver(output, DecodeColumns(k)) \in Blocks
  BY XorOverType
<1>2. TypeOK'
  <2>1. cursor' \in [Threads -> Nat]
    BY DEF IInv, TypeOK
  <2>2. decoded' \in [RowIds -> {NoBlock} \cup Blocks]
    BY <1>1 DEF IInv, TypeOK
  <2> QED
    BY <2>1, <2>2 DEF IInv, TypeOK
<1>3. ASSUME NEW i \in RowIds, decoded'[i] # NoBlock
      PROVE  decoded'[i] = vals[i]
  <2>1. CASE i # k
    <3>1. decoded'[i] = decoded[i]
      BY <2>1 DEF IInv, TypeOK
    <3> QED
      BY <3>1, <1>3 DEF IInv, DecodeCorrect
  <2>2. CASE i = k
    <3>1. decoded'[i] = XorOver(output, DecodeColumns(i))
      BY <2>2 DEF IInv, TypeOK
    <3>2. keyBand[i] \in SUBSET (0 .. mW - 1)
      BY DEF IInv, KeysFit
    <3>3. {o \in keyBand[i] : o < mW} = keyBand[i]
      BY <3>2, ParamAssumption
    <3>4. DecodeColumns(i) = RowColumns(KeyRow(i))
      BY <3>3 DEF DecodeColumns, RowColumns, KeyRow
    <3>5. XorOver(output, RowColumns(KeyRow(i))) = vals[i]
      BY OutputSolves DEF Satisfies, KeyRow
    <3> QED
      BY <3>1, <3>4, <3>5
  <2> QED
    BY <2>1, <2>2
<1>4. DecodeCorrect'
  BY <1>3 DEF DecodeCorrect
<1>5. Phases'
  BY DEF IInv, Phases
<1>6. SolvedColumns'
  BY SolutionUnchanged
<1>7. KeysFit' /\ RowsGood' /\ EchelonForm' /\ Solutions'
  BY MatrixUnchanged
<1> QED
  BY <1>2, <1>4, <1>5, <1>6, <1>7 DEF IInv

\* Joining the decode threads changes no result.
LEMMA DecodeJoinStep ==
  ASSUME IInv, DecodeJoin
  PROVE  IInv'
<1> USE DEF DecodeJoin, keyVars
<1>1. TypeOK'
  BY DEF IInv, TypeOK
<1>2. Phases' /\ DecodeCorrect'
  BY DEF IInv, Phases, DecodeCorrect
<1>3. SolvedColumns'
  BY SolutionUnchanged
<1>4. KeysFit' /\ RowsGood' /\ EchelonForm' /\ Solutions'
  BY MatrixUnchanged
<1> QED
  BY <1>1, <1>2, <1>3, <1>4 DEF IInv

\* The invariant says nothing that a step that changes no variable alters.
LEMMA StutterStep ==
  ASSUME IInv, UNCHANGED vars
  PROVE  IInv'
<1> USE DEF vars
<1>1. TypeOK'
  BY DEF IInv, TypeOK
<1>2. Phases' /\ DecodeCorrect'
  BY DEF IInv, Phases, DecodeCorrect, Inconsistent
<1>3. SolvedColumns'
  BY SolutionUnchanged
<1>4. KeysFit' /\ RowsGood' /\ EchelonForm' /\ Solutions'
  BY MatrixUnchanged
<1> QED
  BY <1>1, <1>2, <1>3, <1>4 DEF IInv

-----------------------------------------------------------------------------
(* The collisions of insert. *)

\* A row and the pivot it collides with both have their first bit set, so the
\* XOR clears it and the next first bit is further to the right.
LEMMA CollisionShifts ==
  ASSUME IInv, InsertCollide, NEW i \in RowIds, i = rowIdx, rows'[i].data # {}
  PROVE  Shift(rows'[i]).startPos > Shift(rows[i]).startPos
<1> USE DEF InsertCollide
<1> DEFINE z == Shift(rows[i])
           p == rows[bitToRowMap[z.startPos]]
           y == rows'[i]
<1>1. GoodRow(rows[i])
  BY CurrentRow
<1>2. GoodRow(z) /\ 0 \in z.data
  BY <1>1, ShiftRow
<1>3. z.startPos \in Columns
  BY <1>1, ShiftRow
<1>4. 0 \in p.data
  BY <1>3 DEF IInv, EchelonForm
<1>5. y = XorRows(z, p)
  BY DEF IInv, TypeOK
<1>6. y.startPos = z.startPos /\ y.data = XOR(z.data, p.data)
  BY <1>5 DEF XorRows
<1>7. p \in BandRow
  <2>1. bitToRowMap[z.startPos] \in RowIds
    BY <1>3 DEF IInv, TypeOK
  <2> QED
    BY <2>1 DEF IInv, RowsGood, GoodRow
<1>8. y.data \subseteq Nat /\ 0 \notin y.data
  BY <1>2, <1>4, <1>6, <1>7, ParamAssumption DEF XOR, GoodRow, BandRow
<1>9. FirstBit(y.data) \in y.data
  BY <1>8, FirstBitIsLeast
<1>10. FirstBit(y.data) > 0
  BY <1>8, <1>9
<1>11. z.startPos \in Int /\ FirstBit(y.data) \in Nat
  BY <1>3, <1>8, <1>9 DEF Columns
<1>12. Shift(y).startPos = y.startPos + FirstBit(y.data)
  BY <1>3, <1>6, <1>8, ShiftOnce DEF Columns
<1> QED
  BY <1>6, <1>10, <1>11, <1>12

-----------------------------------------------------------------------------
(* The theorems. *)

\* Every step of encode and decode preserves the invariant.
LEMMA NextIInv ==
  ASSUME IInv, [Next]_vars
  PROVE  IInv'
<1>1. CASE Insert
  BY <1>1, FailStep, AllZeroStep, CollideStep, PlaceStep, InsertDoneStep DEF Insert
<1>2. CASE Solve
  BY <1>2, SolvePivotStep, SolveFreeStep, SolveDoneStep DEF Solve
<1>3. CASE Decode
  BY <1>3, DecodeKeyStep, DecodeJoinStep DEF Decode
<1>4. CASE UNCHANGED vars
  BY <1>4, StutterStep
<1> QED
  BY <1>1, <1>2, <1>3, <1>4 DEF Next

\* The invariant of encode and decode holds in every reachable state, for
\* every number of keys, width, column count and hash output, as long as the
\* mask of hashBand cuts the last byte to the band width.
THEOREM Invariance ==
  ASSUME MaskFits
  PROVE  Spec => []IInv
<1>1. Init => IInv
  BY InitIInv
<1>2. IInv /\ [Next]_vars => IInv'
  BY NextIInv
<1> QED
  BY <1>1, <1>2, PTL DEF Spec

\* Type correctness: no variable of encode or decode leaves its range, the
\* column indices included.
THEOREM TypeCorrect ==
  ASSUME MaskFits
  PROVE  Spec => []TypeOK
<1>1. IInv => TypeOK
  BY DEF IInv
<1> QED
  BY <1>1, Invariance, PTL

\* The matrix is in echelon form after every insert.
THEOREM EchelonFormHolds ==
  ASSUME MaskFits
  PROVE  Spec => []EchelonForm
<1>1. IInv => EchelonForm
  BY DEF IInv
<1> QED
  BY <1>1, Invariance, PTL

\* No row's band leaves the band width or the matrix.
THEOREM BandStaysInBounds ==
  ASSUME MaskFits
  PROVE  Spec => []BandInBounds
<1>1. IInv => BandInBounds
  BY DEF IInv, RowsGood, GoodRow, BandRow, BandInBounds
<1> QED
  BY <1>1, Invariance, PTL

\* Elimination never changes the solutions of the system the keys state.
THEOREM EliminationPreservesSolutions ==
  ASSUME MaskFits
  PROVE  Spec => []SameSolutions
<1>1. IInv => SameSolutions
  BY DEF IInv, Solutions, SameSolutions
<1> QED
  BY <1>1, Invariance, PTL

\* A collision always moves the first bit of the row to the right, so the while
\* loop of insert ends after at most one collision per column.
THEOREM CollisionsAdvance ==
  ASSUME MaskFits
  PROVE  Spec => CollisionAdvances
<1>1. IInv /\ [Next]_vars =>
        [\A i \in RowIds :
           /\ InsertCollide
           /\ i = rowIdx
           /\ rows'[i].data # {}
           => Shift(rows'[i]).startPos > Shift(rows[i]).startPos]_vars
  BY CollisionShifts
<1> QED
  BY <1>1, Invariance, PTL DEF Spec, CollisionAdvances

\* When encode returns SUCCESS, decode returns every key's value.
THEOREM DecodeIsCorrect ==
  ASSUME MaskFits
  PROVE  Spec => []DecodeCorrect
<1>1. IInv => DecodeCorrect
  BY DEF IInv
<1> QED
  BY <1>1, Invariance, PTL

\* encode returns FAIL only when no encoding of the keys and values exists.
THEOREM FailureIsGenuine ==
  ASSUME MaskFits
  PROVE  Spec => []FailIsGenuine
<1>1. ASSUME IInv, pc = "fail", NEW x \in [Columns -> Blocks]
      PROVE  \E i \in RowIds : ~ Satisfies(x, KeyRow(i))
  <2>1. rowIdx \in LiveRows
    BY <1>1, CurrentRow DEF IInv, Phases
  <2>2. rows[rowIdx].data = {} /\ rows[rowIdx].val # {}
    BY <1>1 DEF IInv, Phases, Inconsistent
  <2>3. ~ Satisfies(x, rows[rowIdx])
    BY <2>2, XorOverEmpty DEF Satisfies, RowColumns
  <2> QED
    BY <1>1, <2>1, <2>3 DEF IInv, Solutions
<1>2. IInv => FailIsGenuine
  BY <1>1 DEF FailIsGenuine
<1> QED
  BY <1>2, Invariance, PTL

-----------------------------------------------------------------------------
(* The batch decode, whatever the masks are. *)

\* The keys a thread has not come to yet are not decoded, and it is in its batch.
DecodeInv ==
  /\ cursor \in [Threads -> Nat]
  /\ decoded = [i \in RowIds |-> decoded[i]]
  /\ pc \in {"insert", "solve"} => \A i \in RowIds : decoded[i] = NoBlock
  /\ pc = "decode" => \A t \in Threads :
       /\ BatchStart(t) <= cursor[t]
       /\ \A i \in RowIds : cursor[t] <= i /\ i < BatchEnd(t) => decoded[i] = NoBlock

\* A batch ends where the next one starts, or before, and within the keys.
LEMMA BatchBounds ==
  ASSUME NEW t \in Threads
  PROVE  /\ BatchStart(t) \in Nat /\ BatchEnd(t) \in Nat
         /\ BatchEnd(t) <= mN
         /\ \A u \in Threads : t < u => BatchEnd(t) <= BatchStart(u)
<1> DEFINE b == batchSize
<1>1. b \in Nat /\ b * numThreads <= mN
  BY ParamAssumption DEF batchSize
<1>2. t \in Nat /\ t + 1 <= numThreads
  BY ParamAssumption DEF Threads
<1> HIDE DEF b
<1>3. ASSUME NEW k \in Nat, NEW l \in Nat, k <= l
      PROVE  k * b \in Nat /\ k * b <= l * b
  BY <1>1, <1>3
<1>4. t * b \in Nat /\ (t + 1) * b \in Nat
  BY <1>2, <1>3
<1>5. (t + 1) * b <= mN
  <2>1. (t + 1) * b <= numThreads * b
    BY <1>2, <1>3, ParamAssumption
  <2>2. numThreads * b = b * numThreads
    BY <1>1, ParamAssumption
  <2>3. QED
    BY <1>1, <1>4, <2>1, <2>2, ParamAssumption
<1>6. \A u \in Threads : t < u => (t + 1) * b <= u * b /\ t # numThreads - 1
  BY <1>2, <1>3, ParamAssumption DEF Threads
<1>7. QED
  BY <1>4, <1>5, <1>6, ParamAssumption DEF BatchStart, BatchEnd, b

\* A key decoded by one thread is in no other thread's batch.
LEMMA BatchesDisjoint ==
  ASSUME NEW t \in Threads, NEW u \in Threads, t # u, NEW i \in Nat, NEW j \in Nat,
         BatchStart(t) <= i, i < BatchEnd(t), BatchStart(u) <= j, j < BatchEnd(u)
  PROVE  i # j
<1>1. t < u \/ u < t
  BY ParamAssumption DEF Threads
<1>2. QED
  BY <1>1, BatchBounds

\* Decoding a key keeps it: its index is in the thread's own batch only.
LEMMA DecodeKeyKeepsInv ==
  ASSUME DecodeInv, NEW u \in Threads, DecodeKey(u)
  PROVE  DecodeInv'
<1>1. cursor[u] \in Nat /\ BatchStart(u) <= cursor[u] /\ cursor[u] < BatchEnd(u)
  BY DEF DecodeInv, DecodeKey
<1>2. cursor' = [cursor EXCEPT ![u] = @ + 1] /\ pc' = pc /\ pc = "decode"
  BY DEF DecodeKey
<1>3. cursor' \in [Threads -> Nat]
  BY <1>1, <1>2 DEF DecodeInv
<1>4. /\ decoded' = [i \in RowIds |-> decoded'[i]]
      /\ \A i \in RowIds : i # cursor[u] => decoded'[i] = decoded[i]
  BY <1>1 DEF DecodeInv, DecodeKey
<1>5. ASSUME NEW t \in Threads
      PROVE  /\ BatchStart(t) <= cursor'[t]
             /\ \A i \in RowIds : cursor'[t] <= i /\ i < BatchEnd(t) => decoded'[i] = NoBlock
  <2>1. BatchStart(t) <= cursor[t] /\ cursor[t] \in Nat
    BY <1>2 DEF DecodeInv
  <2>2. cursor'[t] \in Nat /\ cursor[t] <= cursor'[t] /\ (t = u => cursor'[t] = cursor[t] + 1)
    BY <1>1, <1>2, <2>1 DEF DecodeInv
  <2>3. BatchStart(t) \in Nat /\ BatchEnd(t) \in Nat
    BY BatchBounds
  <2>4. ASSUME NEW i \in RowIds, cursor'[t] <= i, i < BatchEnd(t)
        PROVE  decoded'[i] = NoBlock
    <3>1. i \in Nat /\ cursor[t] <= i /\ BatchStart(t) <= i
      BY <2>1, <2>2, <2>3, <2>4, ParamAssumption DEF RowIds
    <3>2. i # cursor[u]
      <4>1. CASE t = u
        BY <2>2, <2>4, <3>1, <4>1
      <4>2. CASE t # u
        BY <1>1, <2>4, <3>1, <4>2, BatchesDisjoint
      <4>3. QED
        BY <4>1, <4>2
    <3>3. QED
      BY <1>2, <1>4, <2>4, <3>1, <3>2 DEF DecodeInv
  <2>5. QED
    BY <2>1, <2>2, <2>3, <2>4
<1>6. pc' \notin {"insert", "solve"}
  BY <1>2
<1>7. QED
  BY <1>3, <1>4, <1>5, <1>6 DEF DecodeInv, BatchStart, BatchEnd, batchSize

\* No result is written before the batches are handed out, and every step keeps
\* what is said of them.
LEMMA NextDecodeInv ==
  ASSUME DecodeInv, [Next]_vars
  PROVE  DecodeInv'
<1> USE DEF BatchStart, BatchEnd, batchSize
<1>1. CASE UNCHANGED <<cursor, decoded>> /\ (pc' = "decode" => pc = "decode")
                /\ (pc' \in {"insert", "solve"} => pc \in {"insert", "solve"})
  BY <1>1 DEF DecodeInv
<1>2. CASE Insert
  BY <1>1, <1>2
     DEF Insert, InsertFail, InsertAllZero, InsertCollide, InsertPlace, InsertDone
<1>3. CASE SolvePivot \/ SolveFree \/ DecodeJoin \/ UNCHANGED vars
  BY <1>1, <1>3 DEF SolvePivot, SolveFree, DecodeJoin, vars
<1>4. CASE SolveDone
  <2>1. /\ cursor' = [t \in Threads |-> BatchStart(t)] /\ decoded' = decoded
        /\ pc = "solve" /\ pc' = "decode"
    BY <1>4 DEF SolveDone
  <2>2. \A t \in Threads : BatchStart(t) \in Nat
    BY BatchBounds
  <2> HIDE DEF BatchStart, BatchEnd, batchSize
  <2>3. cursor' \in [Threads -> Nat] /\ \A t \in Threads : cursor'[t] = BatchStart(t)
    BY <2>1, <2>2
  <2>4. \A t \in Threads : BatchStart(t) <= cursor'[t]
    BY <2>2, <2>3
  <2>5. QED
    BY <2>1, <2>3, <2>4 DEF DecodeInv, BatchStart, BatchEnd, batchSize
<1>5. CASE \E t \in Threads : DecodeKey(t)
  BY <1>5, DecodeKeyKeepsInv
<1>6. QED
  BY <1>2, <1>3, <1>4, <1>5 DEF Next, Solve, Decode

\* No two decode threads write the same result and none writes one twice, with any
\* number of keys and threads, also when there are more threads than keys.
THEOREM DecodeOnceHolds == Spec => DecodeOnce
<1>1. Init => DecodeInv
  BY DEF Init, DecodeInv
<1>2. DecodeInv /\ [Next]_vars => DecodeInv'
  BY NextDecodeInv
<1>3. ASSUME DecodeInv, Next
      PROVE  \A t \in Threads :
               pc = "decode" /\ cursor'[t] # cursor[t] => decoded[cursor[t]] = NoBlock
  <2>1. SUFFICES ASSUME NEW t \in Threads, pc = "decode", cursor'[t] # cursor[t]
                 PROVE  decoded[cursor[t]] = NoBlock
    OBVIOUS
  <2>2. DecodeKey(t)
    <3>1. PICK u \in Threads : DecodeKey(u)
      BY <1>3, <2>1 DEF Next, Insert, Solve, Decode, InsertFail, InsertAllZero,
         InsertCollide, InsertPlace, InsertDone, SolvePivot, SolveFree, SolveDone, DecodeJoin
    <3>2. u = t
      BY <2>1, <3>1 DEF DecodeKey, DecodeInv
    <3>3. QED
      BY <3>1, <3>2
  <2>3. cursor[t] \in Nat /\ cursor[t] < BatchEnd(t)
    BY <1>3, <2>2 DEF DecodeKey, DecodeInv
  <2>4. cursor[t] \in RowIds
    BY <2>3, BatchBounds, ParamAssumption DEF RowIds
  <2>5. QED
    BY <1>3, <2>1, <2>3, <2>4 DEF DecodeInv
<1>4. QED
  BY <1>1, <1>2, <1>3, PTL DEF Spec, DecodeOnce

=============================================================================
