------------------------------- MODULE RBOKVS -------------------------------
(***************************************************************************)
(* The random band oblivious key-value store (cryptoTools/Crypto/RBOKVS).  *)
(*                                                                         *)
(* encode hashes each of mN keys to a start column and a band of bits,     *)
(* eliminates the resulting band matrix row by row (reformalize, insert),  *)
(* and solves it by back substitution.  decode XORs the columns under a    *)
(* key's band; its batch form splits the keys between threads.             *)
(*                                                                         *)
(* A band is the set of its one bits' offsets from the row's start column. *)
(* A 128-bit block is a subset of Atoms, and XOR is symmetric difference.  *)
(* ByteBits is the number of bits of the hash output's bytes, 8 in code,   *)
(* and WordBits of the words that reformalize shifts, 64 in code.          *)
(* The 64-bit unrolling of other loops is not visible here: it reads the   *)
(* same offsets as the plain loop it replaces as long as mW and mSize are  *)
(* at least 64, which README.md lists as a limit of this model.            *)
(***************************************************************************)
EXTENDS Integers, FiniteSets

CONSTANTS
  mN,          \* number of keys, hence of rows
  mSize,       \* number of columns, the length of the encoding
  mW,          \* width of a band
  ByteBits,    \* bits per byte of the hash output
  WordBits,    \* bits per word of a band, 64 in the code
  RawBands,    \* the hash outputs considered, sets of bit offsets
  Atoms,       \* a block is a subset of Atoms
  numThreads,  \* threads of the batch decode
  NoBlock      \* a result not decoded yet

\* What getParams guarantees: the band width is capped by the column count.
ASSUME ParamAssumption ==
  /\ mN \in Nat
  /\ mSize \in Nat \ {0}
  /\ mW \in 1 .. mSize
  /\ ByteBits \in Nat \ {0}
  /\ WordBits \in Nat \ {0}
  /\ IsFiniteSet(Atoms)
  /\ numThreads \in Nat \ {0}

\* The bytes asked from the hash: divCeil(mW, 8).
wBytes == (mW + ByteBits - 1) \div ByteBits

ASSUME HashAssumption == RawBands \subseteq SUBSET (0 .. wBytes * ByteBits - 1)

RowIds  == 0 .. mN - 1
Columns == 0 .. mSize - 1
Blocks  == SUBSET Atoms
Threads == 0 .. numThreads - 1

NoRow     == mN    \* bitToRowMap's mark of a column without a row
NoPos     == -1    \* startPos of an all-zero row

VARIABLES
  keyPos,      \* hashPos of every key
  keyBand,     \* hashBand of every key
  vals,        \* the values to encode
  rows,        \* the matrix: [startPos, data, val]
  bitToRowMap, \* the row whose first bit is in a column
  rowIdx,      \* the row being inserted
  col,         \* the column back substitution solves next
  output,      \* the encoding
  cursor,      \* the key each decode thread works on
  decoded,     \* the results of the batch decode
  pc           \* "insert", "solve", "decode", "done" or "fail"

keyVars == <<keyPos, keyBand, vals>>
vars == <<keyPos, keyBand, vals, rows, bitToRowMap, rowIdx, col, output,
          cursor, decoded, pc>>

-----------------------------------------------------------------------------
(* Blocks and linear combinations. *)

XOR(a, b) == (a \ b) \cup (b \ a)

\* The XOR of output[j] for j in S: the atoms an odd number of them holds.
XorOver(x, S) ==
  {a \in Atoms : Cardinality({j \in S : a \in x[j]}) % 2 = 1}

\* The columns of a row's one bits.
RowColumns(row) == {row.startPos + o : o \in row.data}

\* The assignment x of blocks to columns satisfies the row's equation.
Satisfies(x, row) == XorOver(x, RowColumns(row)) = row.val

\* The row a key contributes to the matrix.
KeyRow(i) == [startPos |-> keyPos[i], data |-> keyBand[i], val |-> vals[i]]

-----------------------------------------------------------------------------
(* Hashing. *)

StartPosMod_mut == Columns

StartPosInclusive_mut == 0 .. mSize

\* The range of hashPos.
StartPositions == IF mSize = mW THEN {0} ELSE 0 .. (mSize - mW - 1)

\* hashBand clears the last byte with ~(0xFF >> (8 - mW % 8)), which keeps
\* its first 8 - mW % 8 bits.
MaskedWidth == (wBytes - 1) * ByteBits + (ByteBits - (mW % ByteBits))

hashBand(raw) == raw \cap (0 .. MaskedWidth - 1)

\* The masks that keep no bit beyond the band width.
MaskFits == mW % ByteBits = 0 \/ 2 * (mW % ByteBits) >= ByteBits

-----------------------------------------------------------------------------
(* One row of the elimination. *)

\* The first one bit, found with the count-trailing-zeros instruction.
FirstBit(S) == CHOOSE o \in S : \A p \in S : o <= p

\* A row without its first k offsets, which are shifted out.
Drop(row, k) ==
  [startPos |-> row.startPos + k,
   data     |-> {o - k : o \in {o \in row.data : o >= k}},
   val      |-> row.val]

\* The bits of the words before the first one that is not zero.
ZeroWords(row) == WordBits * (FirstBit(row.data) \div WordBits)

ShiftZerosFirst_mut(row) == Drop(Drop(row, ZeroWords(row)), FirstBit(row.data))

\* reformalize on a row that is not all zero: whole words are moved first, then
\* what is left by the leading zeros of its first word, and the start with them.
Shift(row) ==
  LET words == Drop(row, ZeroWords(row))
  IN  Drop(words, FirstBit(words.data))

XorRowsNoVal_mut(row, pivot) ==
  [row EXCEPT !.data = XOR(@, pivot.data)]

XorRowsNoBand_mut(row, pivot) ==
  [row EXCEPT !.val = XOR(@, pivot.val)]

XorRowsOr_mut(row, pivot) ==
  [row EXCEPT !.data = @ \cup pivot.data, !.val = XOR(@, pivot.val)]

\* The band and value XOR of insert.
XorRows(row, pivot) ==
  [startPos |-> row.startPos,
   data     |-> XOR(row.data, pivot.data),
   val      |-> XOR(row.val, pivot.val)]

Init ==
  /\ keyPos  \in [RowIds -> StartPositions]
  /\ keyBand \in [RowIds -> {hashBand(raw) : raw \in RawBands}]
  /\ vals    \in [RowIds -> Blocks]
  /\ rows = [i \in RowIds |-> KeyRow(i)]
  /\ bitToRowMap = [c \in Columns |-> NoRow]
  /\ rowIdx = 0
  /\ col = mSize - 1
  /\ output = [c \in Columns |-> {}]
  /\ cursor = [t \in Threads |-> 0]
  /\ decoded = [i \in RowIds |-> NoBlock]
  /\ pc = "insert"

AllZeroIsFail_mut(row) == row.data = {}

\* reformalize returns FAIL: no bit is left, a value is.
Inconsistent(row) == row.data = {} /\ row.val # {}

\* encode returns FAIL at once: the output stays all zero.
InsertFail ==
  /\ pc = "insert" /\ rowIdx < mN
  /\ Inconsistent(rows[rowIdx])
  /\ pc' = "fail"
  /\ UNCHANGED <<keyVars, rows, bitToRowMap, rowIdx, col, output, cursor, decoded>>

\* reformalize returns ALLZERO: the row says nothing and is left out.
InsertAllZero ==
  /\ pc = "insert" /\ rowIdx < mN
  /\ rows[rowIdx].data = {} /\ ~ Inconsistent(rows[rowIdx])
  /\ rows' = [rows EXCEPT ![rowIdx].startPos = NoPos]
  /\ rowIdx' = rowIdx + 1
  /\ UNCHANGED <<keyVars, bitToRowMap, col, output, cursor, decoded, pc>>

\* The first bit's column is taken: eliminate it with the row that holds it.
InsertCollide ==
  /\ pc = "insert" /\ rowIdx < mN
  /\ rows[rowIdx].data # {}
  /\ LET row == Shift(rows[rowIdx])
     IN  /\ bitToRowMap[row.startPos] # NoRow
         /\ rows' = [rows EXCEPT ![rowIdx] =
                       XorRows(row, rows[bitToRowMap[row.startPos]])]
  /\ UNCHANGED <<keyVars, bitToRowMap, rowIdx, col, output, cursor, decoded, pc>>

\* The first bit's column is free: the row takes it.
InsertPlace ==
  /\ pc = "insert" /\ rowIdx < mN
  /\ rows[rowIdx].data # {}
  /\ LET row == Shift(rows[rowIdx])
     IN  /\ bitToRowMap[row.startPos] = NoRow
         /\ rows' = [rows EXCEPT ![rowIdx] = row]
         /\ bitToRowMap' = [bitToRowMap EXCEPT ![row.startPos] = rowIdx]
  /\ rowIdx' = rowIdx + 1
  /\ UNCHANGED <<keyVars, col, output, cursor, decoded, pc>>

InsertDone ==
  /\ pc = "insert" /\ rowIdx = mN
  /\ pc' = "solve"
  /\ UNCHANGED <<keyVars, rows, bitToRowMap, rowIdx, col, output, cursor, decoded>>

-----------------------------------------------------------------------------
(* Back substitution, from the last column to the first. *)

TailShort_mut(row) ==
  {c \in RowColumns(row) :
     c \in Columns /\ c > row.startPos /\ c - row.startPos < mW - 1}

\* The columns a row is solved from: the leading bit is cleared, and the loop
\* stops at the band width and at the last column.
TailColumns(row) ==
  {c \in RowColumns(row) :
     c \in Columns /\ c > row.startPos /\ c - row.startPos < mW}

SolvePivot ==
  /\ pc = "solve" /\ col >= 0
  /\ bitToRowMap[col] # NoRow
  /\ LET row == rows[bitToRowMap[col]]
     IN  output' = [output EXCEPT ![col] =
                      XOR(row.val, XorOver(output, TailColumns(row)))]
  /\ col' = col - 1
  /\ UNCHANGED <<keyVars, rows, bitToRowMap, rowIdx, cursor, decoded, pc>>

\* A column without a row is free: it gets a random block.
SolveFree ==
  /\ pc = "solve" /\ col >= 0
  /\ bitToRowMap[col] = NoRow
  /\ \E b \in Blocks : output' = [output EXCEPT ![col] = b]
  /\ col' = col - 1
  /\ UNCHANGED <<keyVars, rows, bitToRowMap, rowIdx, cursor, decoded, pc>>

\* The keys of a decode thread: the last thread takes the remainder too.
batchSize == mN \div numThreads
BatchStart(t) == t * batchSize

BatchEndOverlap_mut(t) ==
  IF t = numThreads - 1 THEN mN ELSE (t + 1) * batchSize + 1

BatchEnd(t) == IF t = numThreads - 1 THEN mN ELSE (t + 1) * batchSize

SolveDone ==
  /\ pc = "solve" /\ col < 0
  /\ pc' = "decode"
  /\ cursor' = [t \in Threads |-> BatchStart(t)]
  /\ UNCHANGED <<keyVars, rows, bitToRowMap, rowIdx, col, output, decoded>>

-----------------------------------------------------------------------------
(* Batch decode of the encoded keys. *)

\* The columns decode reads for a key: the offsets below the band width.
DecodeColumns(i) == {keyPos[i] + o : o \in {o \in keyBand[i] : o < mW}}

DecodeKey(t) ==
  /\ pc = "decode" /\ cursor[t] < BatchEnd(t)
  /\ decoded' = [decoded EXCEPT ![cursor[t]] =
                   XorOver(output, DecodeColumns(cursor[t]))]
  /\ cursor' = [cursor EXCEPT ![t] = @ + 1]
  /\ UNCHANGED <<keyVars, rows, bitToRowMap, rowIdx, col, output, pc>>

DecodeJoin ==
  /\ pc = "decode"
  /\ \A t \in Threads : cursor[t] >= BatchEnd(t)
  /\ pc' = "done"
  /\ UNCHANGED <<keyVars, rows, bitToRowMap, rowIdx, col, output, cursor, decoded>>

Insert == InsertFail \/ InsertAllZero \/ InsertCollide \/ InsertPlace \/ InsertDone
Solve  == SolvePivot \/ SolveFree \/ SolveDone
Decode == (\E t \in Threads : DecodeKey(t)) \/ DecodeJoin

Next == Insert \/ Solve \/ Decode

Spec == Init /\ [][Next]_vars

\* encode and decode are plain loops and started threads: nothing in them
\* waits for anyone else, so the process keeps taking steps.
FairSpec == Spec /\ WF_vars(Next)

-----------------------------------------------------------------------------
(* Properties. *)

RowType == [startPos : Columns \cup {NoPos},
            data     : SUBSET Nat,
            val      : Blocks]

\* Every variable of encode and decode keeps its type.
TypeOK ==
  /\ keyPos \in [RowIds -> Columns]
  /\ keyBand \in [RowIds -> SUBSET Nat]
  /\ vals \in [RowIds -> Blocks]
  /\ rows \in [RowIds -> RowType]
  /\ bitToRowMap \in [Columns -> RowIds \cup {NoRow}]
  /\ rowIdx \in 0 .. mN
  /\ col \in -1 .. mSize - 1
  /\ output \in [Columns -> Blocks]
  /\ cursor \in [Threads -> Nat]
  /\ decoded \in [RowIds -> {NoBlock} \cup Blocks]
  /\ pc \in {"insert", "solve", "decode", "done", "fail"}

\* insert leaves the matrix in echelon form: the row a column maps to is an
\* inserted one, starts in that column and has its first bit set.
EchelonForm ==
  \A c \in Columns : bitToRowMap[c] # NoRow =>
    /\ bitToRowMap[c] < rowIdx
    /\ rows[bitToRowMap[c]].startPos = c
    /\ 0 \in rows[bitToRowMap[c]].data

\* No shift or XOR of the elimination moves a bit of any row past the band
\* width or past the last column, so neither bitToRowMap nor output is ever
\* indexed out of range.
BandInBounds ==
  \A i \in RowIds :
    /\ rows[i].data \subseteq 0 .. mW - 1
    /\ RowColumns(rows[i]) \subseteq Columns

\* The rows that still carry the equations: those inserted and those to come.
LiveRows == {i \in RowIds : i >= rowIdx} \cup
            {bitToRowMap[c] : c \in {c \in Columns : bitToRowMap[c] # NoRow}}

\* Elimination preserves the solutions: an assignment of the columns satisfies
\* the live rows exactly when it satisfies the equation of every key, at every
\* step of insert and at the one that fails.
SameSolutions ==
  pc \in {"insert", "fail"} =>
    \A x \in [Columns -> Blocks] :
      (\A i \in RowIds : Satisfies(x, KeyRow(i)))
        <=> (\A i \in LiveRows : Satisfies(x, rows[i]))

\* What an OKVS promises: once encode succeeds, every key decodes to its value.
DecodeCorrect ==
  \A i \in RowIds : decoded[i] # NoBlock => decoded[i] = vals[i]

\* encode fails only on a system no assignment of the columns solves.
FailIsGenuine ==
  pc = "fail" =>
    \A x \in [Columns -> Blocks] :
      \E i \in RowIds : ~ Satisfies(x, KeyRow(i))

\* Every collision of insert moves the first bit of the row strictly to the
\* right, the measure that makes its while loop end.
CollisionAdvances ==
  [][\A i \in RowIds :
       /\ InsertCollide
       /\ i = rowIdx
       /\ rows'[i].data # {}
       => Shift(rows'[i]).startPos > Shift(rows[i]).startPos]_vars

\* The decode threads share nothing: no result is written twice, which their
\* unsynchronised writes to one array rest on.
DecodeOnce ==
  [][\A t \in Threads :
       pc = "decode" /\ cursor'[t] # cursor[t] => decoded[cursor[t]] = NoBlock]_vars

\* encode and the batch decode always end, and decode has then produced every
\* result: the batches cover the keys.
Terminates ==
  <>(pc = "fail" \/ (pc = "done" /\ \A i \in RowIds : decoded[i] # NoBlock))

=============================================================================
