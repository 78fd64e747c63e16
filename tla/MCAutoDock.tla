----------------------------- MODULE MCAutoDock -----------------------------
(* Small instances of AutoDock for TLC.                                    *)
EXTENDS AutoDock, TLC

(* Goals are interchangeable: no definition names one of them.             *)
GoalSymmetry == Permutations(Goals)
=============================================================================
