----------------------------- MODULE MpsiIdeal -----------------------------
(***************************************************************************)
(* What Mpsi_User::run promises the leader: it reports once, and unless    *)
(* something failed the report is the intersection of every party's set.   *)
(* After a failure it may report nothing in common instead, but never a    *)
(* part of the intersection and never an item outside it.                  *)
(***************************************************************************)
EXTENDS Naturals

CONSTANTS Parties, Items

VARIABLES inputs, faulty, finished, answer

idealVars == <<inputs, faulty, finished, answer>>

Common == {x \in Items : \A p \in Parties : x \in inputs[p]}

IdealInit ==
  /\ inputs \in [Parties -> SUBSET Items]
  /\ faulty = FALSE
  /\ finished = FALSE
  /\ answer = {}

Fault ==
  /\ faulty' = TRUE
  /\ UNCHANGED <<inputs, finished, answer>>

Report ==
  /\ ~ finished
  /\ finished' = TRUE
  /\ answer' \in IF faulty THEN {Common, {}} ELSE {Common}
  /\ UNCHANGED <<inputs, faulty>>

IdealNext == Fault \/ Report

IdealSpec == IdealInit /\ [][IdealNext]_idealVars

=============================================================================
