---------------------------- MODULE ActionServer ----------------------------
(***************************************************************************)
(* What a client of /auto_dock or /patrol may rely on: an action server    *)
(* that works on one goal at a time.  A goal is turned away or accepted;   *)
(* an accepted goal holds the only slot until its callback has returned,   *)
(* and gets exactly one terminal status, canceled only if somebody asked   *)
(* for it.  A process that dies loses its goals.                           *)
(*                                                                         *)
(* slot is the set of goals that hold the slot: at most one.               *)
(***************************************************************************)
CONSTANT Goals

VARIABLES goal, slot

vars == <<goal, slot>>

Live     == {"accepted", "executing", "canceling"}
Terminal == {"succeeded", "canceled", "aborted"}

Init == goal = [g \in Goals |-> "none"] /\ slot = {}

Set(g, status) == goal' = [goal EXCEPT ![g] = status]

Reject(g) == goal[g] = "none" /\ Set(g, "rejected") /\ UNCHANGED slot

Accept(g) == goal[g] = "none" /\ slot = {} /\ Set(g, "accepted") /\ slot' = {g}

Start(g) == goal[g] = "accepted" /\ Set(g, "executing") /\ UNCHANGED slot

Cancel(g) == goal[g] \in {"accepted", "executing"} /\ Set(g, "canceling") /\ UNCHANGED slot

End(g) ==
    /\ g \in slot /\ goal[g] \in Live
    /\ \E status \in Terminal :
         (status = "canceled" => goal[g] = "canceling") /\ Set(g, status)
    /\ UNCHANGED slot

(* The callback has returned; without a terminal status the goal is        *)
(* aborted.                                                                *)
Release(g) ==
    /\ g \in slot /\ slot' = {}
    /\ Set(g, IF goal[g] \in Live THEN "aborted" ELSE goal[g])

Forget(g) ==
    /\ goal[g] \in Terminal \cup {"rejected", "lost"} /\ g \notin slot
    /\ Set(g, "none") /\ UNCHANGED slot

Die ==
    /\ slot' = {}
    /\ goal' = [g \in Goals |-> IF goal[g] \in Live THEN "lost" ELSE goal[g]]

Next ==
    \/ Die
    \/ \E g \in Goals : \/ Reject(g) \/ Accept(g) \/ Start(g) \/ Cancel(g)
                        \/ End(g) \/ Release(g) \/ Forget(g)

Spec == Init /\ [][Next]_vars
=============================================================================
