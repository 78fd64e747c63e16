------------------------------ MODULE Mission -------------------------------
(***************************************************************************)
(* The docking node and the patrol node on one robot.  They know nothing   *)
(* of each other; they meet at Nav2, whose navigator executes one goal at  *)
(* a time and drops the current one for a new one, and which completes     *)
(* goals only while its controller and smoother are active.                *)
(*                                                                         *)
(* Dock and Patrol are the two components; the p_ variables are the patrol *)
(* node's where the names would clash.  A step of one component is seen by *)
(* the other only when it takes the navigator: the goal that is dropped    *)
(* ends aborted, like any navigation that fails.                           *)
(***************************************************************************)
EXTENDS Integers

CONSTANTS
    DockGoals, PatrolGoals,       \* goals of /auto_dock and of /patrol
    Monitor, MaxTicks, DockFaults,
    Configured, Requests, RoundBound, PatrolFaults,
    NavFails                      \* the navigator may fail a goal of its own accord

ASSUME NavFailsAssumption == NavFails \in BOOLEAN

VARIABLES
    life, low_battery, charge_current, is_charging, was_charging, is_docking,
    action_goal_active, goal, pc, outcome, ticks, reversing, controller, smoother, nav,
    dock_file, left_off,
    p_life, goal_active, p_goal, p_pc, plan, rounds_completed, success_count, failed_count,
    timed_out_count, waypoint_index, p_nav, reached, rejected

PatrolDriving == p_nav \in {"active", "canceling"}

Dock == INSTANCE AutoDock WITH
          Goals <- DockGoals, Faults <- DockFaults
Patrol == INSTANCE Patrol WITH
          Goals <- PatrolGoals, Faults <- PatrolFaults,
          life <- p_life, goal <- p_goal, pc <- p_pc, nav <- p_nav

dockOwn == <<life, low_battery, charge_current, is_charging, was_charging, is_docking,
             action_goal_active, goal, pc, outcome, ticks, reversing, controller, smoother,
             dock_file, left_off>>
patrolOwn == <<p_life, goal_active, p_goal, p_pc, plan, rounds_completed, success_count,
               failed_count, timed_out_count, waypoint_index, reached, rejected>>
vars == <<dockOwn, patrolOwn, nav, p_nav>>

Init == Patrol!Init /\ Dock!Init

(* Variant: the navigator forgets the goal that it drops.                  *)
DockStepSilent ==
    /\ Dock!Node
    /\ nav' = "aborted" /\ nav # "aborted" => NavFails
    /\ p_nav' = IF nav' = "active" /\ PatrolDriving THEN "none" ELSE p_nav
    /\ UNCHANGED patrolOwn

(* A step of the docking node; its goToPose() takes the navigator, unless  *)
(* the goal is rejected.                                                   *)
DockStep ==
    /\ Dock!Node
    /\ nav' = "aborted" /\ nav # "aborted" => NavFails
    /\ p_nav' = IF nav' = "active" /\ PatrolDriving THEN "aborted" ELSE p_nav
    /\ UNCHANGED patrolOwn

(* Variant: the navigator forgets the goal that it drops.                  *)
PatrolStepSilent ==
    /\ Patrol!Node
    /\ nav' = IF p_nav' = "active" /\ ~Dock!NavDone THEN "none" ELSE nav
    /\ UNCHANGED dockOwn

(* A step of the patrol node; its goToPose() takes the navigator.          *)
PatrolStep ==
    /\ Patrol!Node
    /\ nav' = IF p_nav' = "active" /\ ~Dock!NavDone THEN "aborted" ELSE nav
    /\ UNCHANGED dockOwn

(* The navigator ends the goal that it executes.                           *)
NavigatorStep ==
    \/ /\ UNCHANGED <<patrolOwn, p_nav>> /\ Dock!NavEnds
       /\ nav' = "aborted" => NavFails
    \/ /\ Patrol!NavEnds /\ UNCHANGED <<dockOwn, nav>>
       /\ p_nav' = "succeeded" => controller /\ smoother
       /\ p_nav' = "aborted" => NavFails \/ ~(controller /\ smoother)
       /\ p_nav' = "canceled" => p_nav = "canceling"

Next == DockStep \/ PatrolStep \/ NavigatorStep

Spec == Init /\ [][Next]_vars

(* Both nodes' threads run and the navigator ends what it executes.        *)
Fairness ==
    /\ WF_vars(DockStep /\ Dock!MonitorLoop) /\ WF_vars(DockStep /\ Dock!BatteryFlag)
    /\ \A r \in Dock!Runners : WF_vars(DockStep /\ Dock!Owed(r))
    /\ \A g \in DockGoals : WF_vars(DockStep /\ Dock!ExecuteAutoDock(g))
    /\ \A g \in PatrolGoals : WF_vars(PatrolStep /\ Patrol!Thread(g))
    /\ WF_vars(NavigatorStep)

FairSpec == Spec /\ Fairness

-----------------------------------------------------------------------------
(* The composition keeps each component's promises: seen by itself, each   *)
(* node still behaves as its own module says, the other one being part of  *)
(* its environment.                                                        *)
DockBehaves   == Dock!Spec
PatrolBehaves == Patrol!Spec

(* While docking backs up to the charger no patrol has a navigation goal   *)
(* in execution: "as soon as a low battery is detected every navigation    *)
(* command is cut off" (run_autodock.sh).  The code does not keep this:    *)
(* the patrol takes the abortion of its goal for a failed waypoint and     *)
(* sends the next one, also between docking's navigation and the switching *)
(* off of the controller, which then works under a goal in execution.      *)
CommandsCutOff ==
    (\E r \in Dock!Runners : pc[r] \in Dock!BackupLabels) => ~PatrolDriving

(* A battery that stays low gets the robot to back up to the charger: "as  *)
(* soon as a low battery is detected every navigation command is cut off   *)
(* and the dock is sought" (run_autodock.sh).                              *)
LowBatteryReachesCharger ==
    low_battery /\ ~is_charging ~> reversing \/ ~low_battery \/ is_charging
=============================================================================
