----------------------------- MODULE MCMapMerge -----------------------------
(* Small instances of MapMerge for TLC.                                    *)
EXTENDS MapMerge

(* One robot at the origin of the world, one elsewhere.                    *)
Poses2 == [base |-> "identity", scout |-> "other", stray |-> "none"]
=============================================================================
