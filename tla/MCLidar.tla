------------------------------ MODULE MCLidar ------------------------------
(* The instance of Lidar that TLC checks. *)
EXTENDS Lidar

OneField == <<"duration">>
=============================================================================
