------------------------------ MODULE MCRsPsi ------------------------------
(* Instances of RsPsi for TLC. *)
EXTENDS RsPsi
=============================================================================
