------------------------------ MODULE MCExplore -----------------------------
(* Small instances of Explore for TLC.                                     *)
EXTENDS Explore

(* Two frontiers on either side of the initial pose, the farther one       *)
(* larger, no two of equal cost, and a third so close to one of them that  *)
(* the blacklist takes them for the same place.                            *)
MCFrontiers == {"left", "right", "beside"}
MCPos    == [left |-> 0, right |-> 1, beside |-> 1]
MCExtent == [left |-> 1, right |-> 5, beside |-> 3]
MCClose  == [left |-> {"left"}, right |-> {"right", "beside"}, beside |-> {"right", "beside"}]
=============================================================================
