----------------------------- MODULE MCMission ------------------------------
(* Small instances of Mission for TLC.                                     *)
EXTENDS Mission

Request(names, repeat, forever) ==
    [names |-> names, known |-> TRUE, repeat |-> repeat, forever |-> forever,
     timeout |-> TRUE, wait |-> FALSE]

(* One round over one waypoint, and the endless patrol of run_patrol.sh.   *)
OneRound == {Request(1, 1, FALSE)}
Endless  == {Request(1, 0, TRUE)}
=============================================================================
