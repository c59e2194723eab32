------------------------------ MODULE MCPaxos ------------------------------
(***************************************************************************)
(* Paxos on small matrices.  Renaming the sparse columns changes nothing,  *)
(* so the first row may be {0, 1, 2} and the second the least of each      *)
(* pattern of overlap with it: the other rows are all there are.           *)
(***************************************************************************)
EXTENDS Paxos

CONSTANTS NumSparse, NumItems

MCCols  == 0 .. NumSparse - 1
MCItems == 0 .. NumItems - 1

Triples == kSubset(3, MCCols)

MCSparseRows ==
  {m \in [MCItems -> Triples] :
     /\ m[0] = {0, 1, 2}
     /\ m[1] \in {{0, 1, 2}, {0, 1, 3}, {0, 3, 4}, {3, 4, 5}}}

\* Dense hashes over two columns a, b and the rest t of the hash: all different,
\* equal in the columns only, and duplicate keys, two of them behind a third row.
MCDenseRows ==
  LET a == {NumSparse}  b == {NumSparse + 1}  t == {NumSparse + 2}
      Hashes(h) == [i \in MCItems |-> h[i + 1]]
  IN {Hashes(<<a, b, a \cup b, {}>>), Hashes(<<a, a \cup t, a \cup b \cup t, b>>),
      Hashes(<<a, a, b, a \cup b>>), Hashes(<<a, b, b, a \cup b>>)}
=============================================================================
