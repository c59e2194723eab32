----------------------------- MODULE MCTwoParty -----------------------------
(* Instances of TwoParty for TLC. *)
EXTENDS TwoParty

\* A column of its own for every item and two that all share, the last ones.
MCOwn(sz, v) == v - 1
MCRow(sz, v) == {v - 1, sz - 2, sz - 1}

\* Sets with all, some and none of their items in common.
MCReceiverSets == {{1, 2}, {2}}
MCSenderSets   == {{2}, {1, 3}, {1, 2}, {3}}

MCScripts == {<<"S", "R">>, <<"R", "S">>, <<"R">>}
=============================================================================
