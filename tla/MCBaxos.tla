------------------------------ MODULE MCBaxos ------------------------------
(* Instances of Baxos for TLC. *)
EXTENDS Baxos

\* What a thread's area holds, by the number of threads.
MCPerThrd == [t \in ThreadCounts |-> IF t = 1 THEN mNumItems ELSE 2]
=============================================================================
