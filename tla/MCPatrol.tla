------------------------------ MODULE MCPatrol ------------------------------
(* Small instances of Patrol for TLC.                                      *)
EXTENDS Patrol

Request(names, known, repeat, forever, timeout, wait) ==
    [names |-> names, known |-> known, repeat |-> repeat, forever |-> forever,
     timeout |-> timeout, wait |-> wait]

(* The whole configured list once, a named list twice, an endless patrol   *)
(* whose repeat count is ignored, an unknown name; with and without        *)
(* timeout and wait.                                                       *)
SomeRequests ==
    {Request(0, TRUE, 0, FALSE, TRUE, TRUE), Request(0, TRUE, -1, FALSE, FALSE, FALSE),
     Request(1, TRUE, 2, FALSE, TRUE, FALSE), Request(2, TRUE, 2, FALSE, TRUE, TRUE),
     Request(1, TRUE, 5, TRUE, TRUE, TRUE), Request(1, FALSE, 1, FALSE, TRUE, TRUE)}
=============================================================================
