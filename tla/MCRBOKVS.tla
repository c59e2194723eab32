------------------------------ MODULE MCRBOKVS ------------------------------
(* Instances of RBOKVS for TLC. *)
EXTENDS RBOKVS

\* Every output of a two-byte hash.
MCRawBands == SUBSET (0 .. 3)

\* Hash outputs around the band width mW = 9 of the instance with the code's
\* 8-bit bytes: the mask leaves up to 15 bits of them.
MCWideBands == {{0}, {0, 8}, {1, 8}, {0, 9}, {1, 9}}
=============================================================================
