-------------------------- MODULE MCFrontierSearch --------------------------
(* Small instances of FrontierSearch for TLC.                              *)
EXTENDS FrontierSearch

Grid(w, h, cells) ==
    {[width |-> w, height |-> h, data |-> d] : d \in [0..(w * h - 1) -> cells]}

(* Every map of three by three unknown, free and lethal cells, which stay  *)
(* as they are, and small ones, with every kind of value or changing twice. *)
StillAndChanging ==
    (Grid(3, 3, {-1, 0, 100}) \X {0})
      \cup (Grid(2, 2, {-1, 0, 1, 98, 99, 100}) \X {1}) \cup (Grid(2, 2, {-1, 0}) \X {2})
=============================================================================
