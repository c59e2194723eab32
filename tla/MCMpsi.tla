------------------------------- MODULE MCMpsi -------------------------------
(* Instances of Mpsi for TLC. *)
EXTENDS Mpsi

AllParties == 0 .. User_Num - 1
=============================================================================
