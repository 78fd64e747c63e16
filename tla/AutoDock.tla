------------------------------ MODULE AutoDock ------------------------------
(***************************************************************************)
(* The docking node of ElderBot (elderbot_navigation/scripts/              *)
(* auto_dock_node.py): one process in which the main thread polls the      *)
(* battery (monitor_loop), the executor's threads run the /auto_dock       *)
(* action, and both may run the same docking sequence.                     *)
(*                                                                         *)
(* A runner is a thread that can run the sequence: the monitor, or the     *)
(* thread executing a goal (named by its goal).  pc[r] is where it stands; *)
(* a step reads or writes shared state once, so every check-then-act gap   *)
(* of the code is a gap of the model.  Nav2 with its other clients, the    *)
(* battery and the signals are the environment.                            *)
(***************************************************************************)
EXTENDS Naturals

CONSTANTS
    Goals,       \* the goals that clients of /auto_dock may have in flight
    Monitor,     \* the main thread
    MaxTicks,    \* backing-up iterations before the distance or time limit
    Faults       \* which of "lifecycle", "raise", "interrupt", "kill", "tf" may occur

ASSUME RunnerAssumption == Monitor \notin Goals
ASSUME TickAssumption   == MaxTicks \in Nat \ {0}
ASSUME FaultAssumption  == Faults \subseteq {"lifecycle", "raise", "interrupt", "kill", "tf"}

Runners == Goals \cup {Monitor}

VARIABLES
    life,               \* rclpy.ok() and the process: running, stopping, exited, killed
    low_battery,        \* current_battery < battery_threshold
    charge_current,     \* current_current > 0.1
    is_charging,        \* written by the battery callback after charge_current
    was_charging,       \* the monitor's view of the previous poll
    is_docking,         \* guarded by _dock_lock on entry only
    action_goal_active, \* guarded by _action_goal_lock
    goal,               \* status of each goal at the action server
    pc,                 \* where each runner stands
    outcome,            \* what run_docking_sequence returned to each runner
    ticks,              \* backing-up iterations of the current sequence
    reversing,          \* the last /cmd_vel of this node orders a reverse move
    controller,         \* Nav2 controller_server is active
    smoother,           \* Nav2 velocity_smoother is active
    nav,                \* the docking node's last goal at the navigator
    dock_file,          \* dock_pose.yaml as a reader finds it
    left_off            \* history: Nav2 was already off when this process started

batteryVars == <<low_battery, charge_current, is_charging>>
flagVars    == <<is_docking, action_goal_active>>
nav2Vars    == <<controller, smoother, nav>>
legacyVars  == <<dock_file, left_off>>
threadVars  == <<pc, outcome, ticks, was_charging>>
vars == <<life, batteryVars, flagVars, goal, threadVars, reversing, nav2Vars, legacyVars>>

(* Labels of run_docking_sequence between setting and clearing is_docking. *)
ApproachLabels == {"check", "load", "nav2wait", "send", "nav", "navCancel", "stabilize"}
DeactivateLabels == {"deactController", "deactSmoother", "settle"}
BackupLabels   == {"backup", "reverse", "fullStop"}
RestoreLabels  == {"actSmoother", "actController"}
SequenceLabels == ApproachLabels \cup DeactivateLabels \cup BackupLabels
                    \cup RestoreLabels \cup {"clear"}
MonitorLabels  == {"boot", "bootTest", "bootSettle", "bootWrite", "edge", "chargeSettle",
                   "chargeWrite", "latch", "low", "poll", "enter",
                   "exitSmoother", "exitController", "join", "dead"}
GoalLabels     == {"idle", "queued", "enter", "report", "release"}

GoalStatus == {"none", "accepted", "executing", "canceling",
               "succeeded", "canceled", "aborted", "rejected", "lost"}
LiveStatus == {"accepted", "executing", "canceling"}
NavStatus  == {"none", "active", "canceling", "succeeded", "aborted", "canceled"}

(* The type invariant: what each variable may hold. *)
TypeOK ==
    /\ life \in {"running", "stopping", "exited", "killed"}
    /\ low_battery \in BOOLEAN /\ charge_current \in BOOLEAN /\ is_charging \in BOOLEAN
    /\ was_charging \in BOOLEAN /\ is_docking \in BOOLEAN /\ action_goal_active \in BOOLEAN
    /\ goal \in [Goals -> GoalStatus]
    /\ pc \in [Runners -> MonitorLabels \cup GoalLabels \cup SequenceLabels]
    /\ outcome \in [Runners -> {"none", "succeeded", "canceled", "failed"}]
    /\ ticks \in 0..MaxTicks
    /\ reversing \in BOOLEAN /\ controller \in BOOLEAN /\ smoother \in BOOLEAN
    /\ nav \in NavStatus
    /\ dock_file \in {"whole", "partial"} /\ left_off \in BOOLEAN

(* A process that has just started: battery full until the first message,  *)
(* no flag set, the monitor before its first sleep (lines 105-112).        *)
FreshProcess ==
    /\ life' = "running"
    /\ low_battery' = FALSE /\ charge_current' = FALSE /\ is_charging' = FALSE
    /\ was_charging' = FALSE /\ is_docking' = FALSE /\ action_goal_active' = FALSE
    /\ pc' = [r \in Runners |-> IF r = Monitor THEN "boot" ELSE "idle"]
    /\ outcome' = [r \in Runners |-> "none"]
    /\ ticks' = 0

Init ==
    /\ life = "running"
    /\ low_battery = FALSE /\ charge_current = FALSE /\ is_charging = FALSE
    /\ was_charging = FALSE /\ is_docking = FALSE /\ action_goal_active = FALSE
    /\ goal = [g \in Goals |-> "none"]
    /\ pc = [r \in Runners |-> IF r = Monitor THEN "boot" ELSE "idle"]
    /\ outcome = [r \in Runners |-> "none"]
    /\ ticks = 0
    /\ reversing = FALSE /\ controller = TRUE /\ smoother = TRUE
    /\ nav = "none"
    /\ dock_file = "whole" /\ left_off = FALSE

ok == life = "running"
Alive == life \in {"running", "stopping"}
Goto(r, from, to) == pc[r] = from /\ pc' = [pc EXCEPT ![r] = to]
CancelRequested(r) == r \in Goals /\ goal[r] = "canceling"
InSequence(r) == pc[r] \in SequenceLabels

(***************************************************************************)
(* Battery callback: percentage and current are stored first, the charging *)
(* flag last; other threads run in between.                                *)
(***************************************************************************)
BatteryValues ==
    /\ ok /\ is_charging = charge_current
    /\ low_battery' \in BOOLEAN /\ charge_current' \in BOOLEAN
    /\ UNCHANGED <<life, is_charging, flagVars, goal, threadVars, reversing, nav2Vars, legacyVars>>

BatteryFlag ==
    /\ Alive /\ is_charging # charge_current
    /\ is_charging' = charge_current
    /\ UNCHANGED <<life, low_battery, charge_current, flagVars, goal, threadVars, reversing,
                   nav2Vars, legacyVars>>

(***************************************************************************)
(* The action server's callbacks.                                          *)
(***************************************************************************)
GoalCallback(g) ==
    /\ ok /\ goal[g] = "none" /\ pc[g] = "idle"
    /\ \/ /\ action_goal_active \/ is_docking
          /\ goal' = [goal EXCEPT ![g] = "rejected"]
          /\ UNCHANGED <<action_goal_active, pc>>
       \/ /\ ~action_goal_active /\ ~is_docking
          /\ action_goal_active' = TRUE
          /\ goal' = [goal EXCEPT ![g] = "accepted"]
          /\ Goto(g, "idle", "queued")
    /\ UNCHANGED <<life, batteryVars, is_docking, outcome, ticks, was_charging, reversing,
                   nav2Vars, legacyVars>>

(* Variant: finished goals can be canceled too.                            *)
CancelCallbackAnyTime(g) ==
    /\ ok /\ goal[g] \notin {"none", "rejected"}
    /\ goal' = [goal EXCEPT ![g] = "canceling"]
    /\ UNCHANGED <<life, batteryVars, flagVars, threadVars, reversing, nav2Vars, legacyVars>>

CancelCallback(g) ==
    /\ ok /\ goal[g] \in {"accepted", "executing"}
    /\ goal' = [goal EXCEPT ![g] = "canceling"]
    /\ UNCHANGED <<life, batteryVars, flagVars, threadVars, reversing, nav2Vars, legacyVars>>

(* Variant: a goal canceled before its turn is dropped.                    *)
StartExecuteUnlessCanceled(g) ==
    /\ ok /\ goal[g] = "accepted" /\ Goto(g, "queued", "enter")
    /\ goal' = [goal EXCEPT ![g] = "executing"]
    /\ UNCHANGED <<life, batteryVars, flagVars, outcome, ticks, was_charging, reversing,
                   nav2Vars, legacyVars>>

(* The executor picks the accepted goal up; a goal canceled meanwhile is   *)
(* executed too and keeps its canceling status.                            *)
StartExecute(g) ==
    /\ ok /\ Goto(g, "queued", "enter")
    /\ goal' = [goal EXCEPT ![g] = IF goal[g] = "accepted" THEN "executing" ELSE goal[g]]
    /\ UNCHANGED <<life, batteryVars, flagVars, outcome, ticks, was_charging, reversing,
                   nav2Vars, legacyVars>>

(* succeed(), canceled() or abort(); canceled() on a goal nobody asked to  *)
(* cancel is an illegal transition and raises: no status is set here.      *)
ExecuteReport(g) ==
    /\ Alive /\ Goto(g, "report", "release")
    /\ \/ outcome[g] = "succeeded" /\ goal' = [goal EXCEPT ![g] = "succeeded"]
       \/ outcome[g] = "failed"    /\ goal' = [goal EXCEPT ![g] = "aborted"]
       \/ outcome[g] = "canceled" /\ goal[g] = "canceling"
            /\ goal' = [goal EXCEPT ![g] = "canceled"]
       \/ outcome[g] = "canceled" /\ goal[g] # "canceling" /\ UNCHANGED goal
    /\ UNCHANGED <<life, batteryVars, flagVars, outcome, ticks, was_charging, reversing,
                   nav2Vars, legacyVars>>

(* Variant: the slot is freed on the success path, not in finally.         *)
ExecuteFinallyOnSuccess(g) ==
    /\ Alive /\ Goto(g, "release", "idle")
    /\ action_goal_active' = (action_goal_active /\ outcome[g] # "succeeded")
    /\ goal' = [goal EXCEPT ![g] = IF goal[g] \in LiveStatus THEN "aborted" ELSE goal[g]]
    /\ outcome' = [outcome EXCEPT ![g] = "none"]
    /\ UNCHANGED <<life, batteryVars, is_docking, ticks, was_charging, reversing, nav2Vars,
                   legacyVars>>

(* The finally clause; a goal left without a terminal status by an         *)
(* exception is aborted by the action server.                              *)
ExecuteFinally(g) ==
    /\ Alive /\ Goto(g, "release", "idle")
    /\ action_goal_active' = FALSE
    /\ goal' = [goal EXCEPT ![g] = IF goal[g] \in LiveStatus THEN "aborted" ELSE goal[g]]
    /\ outcome' = [outcome EXCEPT ![g] = "none"]
    /\ UNCHANGED <<life, batteryVars, is_docking, ticks, was_charging, reversing, nav2Vars,
                   legacyVars>>

(* The server forgets a finished goal, so its name can be used again.      *)
ForgetGoal(g) ==
    /\ goal[g] \notin LiveStatus \cup {"none"} /\ pc[g] = "idle"
    /\ goal' = [goal EXCEPT ![g] = "none"]
    /\ UNCHANGED <<life, batteryVars, flagVars, threadVars, reversing, nav2Vars, legacyVars>>

(***************************************************************************)
(* run_docking_sequence, step by step.  Return(r, o) leaves the try block  *)
(* with result o for the finally clause: before Nav2 was deactivated it    *)
(* goes straight to clearing is_docking, afterwards it restores Nav2.      *)
(***************************************************************************)
AfterSequence(r) == IF r = Monitor THEN "poll" ELSE "report"

(* Variant: an early return that the finally clause does not cover.        *)
ReturnBeforeTry(r, o) ==
    /\ outcome' = [outcome EXCEPT ![r] = o]
    /\ pc' = [pc EXCEPT ![r] =
                IF pc[r] \in BackupLabels THEN "actSmoother"
                ELSE IF pc[r] = "check" THEN AfterSequence(r) ELSE "clear"]

Return(r, o) ==
    /\ outcome' = [outcome EXCEPT ![r] = o]
    /\ pc' = [pc EXCEPT ![r] = IF pc[r] \in BackupLabels THEN "actSmoother" ELSE "clear"]

(* Variant: the flag is set without being tested.                          *)
EnterUntested(r) ==
    /\ Alive /\ Goto(r, "enter", "check")
    /\ is_docking' = TRUE
    /\ UNCHANGED <<life, batteryVars, action_goal_active, goal, outcome, ticks, was_charging,
                   reversing, nav2Vars, legacyVars>>

(* The guarded test-and-set of is_docking; the loser returns 'failed'      *)
(* without touching the flag.                                              *)
Enter(r) ==
    /\ Alive /\ pc[r] = "enter"
    /\ \/ /\ is_docking
          /\ outcome' = [outcome EXCEPT ![r] = IF r = Monitor THEN "none" ELSE "failed"]
          /\ Goto(r, "enter", AfterSequence(r))
          /\ UNCHANGED is_docking
       \/ /\ ~is_docking
          /\ is_docking' = TRUE
          /\ Goto(r, "enter", "check")
          /\ UNCHANGED outcome
    /\ UNCHANGED <<life, batteryVars, action_goal_active, goal, ticks, was_charging, reversing,
                   nav2Vars, legacyVars>>

(* Steps that only decide where the sequence goes next.                    *)
Decide(r) ==
    /\ Alive
    /\ \/ pc[r] = "check" /\ is_charging /\ Return(r, "succeeded")
       \/ ~is_charging /\ Goto(r, "check", "load") /\ UNCHANGED outcome
       \/ pc[r] = "load" /\ dock_file = "partial" /\ Return(r, "failed")
       \/ dock_file = "whole" /\ Goto(r, "load", "nav2wait") /\ UNCHANGED outcome
       \/ ok /\ pc[r] = "nav2wait" /\ CancelRequested(r) /\ Return(r, "canceled")
       \/ ok /\ ~CancelRequested(r) /\ Goto(r, "nav2wait", "send") /\ UNCHANGED outcome
    /\ UNCHANGED <<life, batteryVars, flagVars, goal, ticks, was_charging, reversing,
                   nav2Vars, legacyVars>>

(* cancelTask() of a navigator made a moment ago cancels nothing, so the   *)
(* sequence goes on to goToPose(): the navigator rejects the goal, or      *)
(* executes it, whatever goal of another client it was executing.          *)
GoToPrep(r) ==
    /\ ok /\ Goto(r, "send", "nav")
    /\ nav' \in {"active", "aborted"}
    /\ UNCHANGED <<life, batteryVars, flagVars, goal, outcome, ticks, was_charging, reversing,
                   controller, smoother, legacyVars>>

(* Variants: a goal counts as finished once its cancellation is requested; *)
(* or only when it has succeeded.                                          *)
NavDoneOnCancel == nav # "active"
NavDoneOnSuccess == nav = "succeeded"

(* isTaskComplete() of the sequence's navigator.                           *)
NavDone == nav \notin {"active", "canceling"}

WaitPrep(r) ==
    /\ Alive
    /\ \/ pc[r] = "nav" /\ ~ok /\ Return(r, "failed") /\ UNCHANGED nav
       \/ ok /\ nav = "succeeded" /\ Goto(r, "nav", "stabilize") /\ UNCHANGED <<outcome, nav>>
       \/ ok /\ NavDone /\ nav # "succeeded" /\ pc[r] = "nav" /\ Return(r, "failed")
             /\ UNCHANGED nav
       \/ ok /\ nav = "active" /\ CancelRequested(r) /\ Goto(r, "nav", "navCancel")
             /\ nav' = "canceling" /\ UNCHANGED outcome
       \/ pc[r] = "navCancel" /\ (~ok \/ NavDone) /\ Return(r, "canceled") /\ UNCHANGED nav
    /\ UNCHANGED <<life, batteryVars, flagVars, goal, ticks, was_charging, reversing,
                   controller, smoother, legacyVars>>

(* _sleep_with_cancel may find a reason to return False.                   *)
SleepInterrupted(r) == ~ok \/ CancelRequested(r)

(* Two seconds at the prep pose.  A request in the last polling interval   *)
(* is not seen here; a shutdown counts as a cancellation.                  *)
Stabilize(r) ==
    /\ Alive
    /\ \/ pc[r] = "stabilize" /\ SleepInterrupted(r) /\ Return(r, "canceled")
       \/ ok /\ Goto(r, "stabilize", "deactController") /\ UNCHANGED outcome
    /\ UNCHANGED <<life, batteryVars, flagVars, goal, ticks, was_charging, reversing,
                   nav2Vars, legacyVars>>

(* lifecycle_set_state: every failure and the 8 s timeout are swallowed.   *)
LifecycleSetState(server, active) ==
    \/ server' = active
    \/ "lifecycle" \in Faults /\ server' = server

(* Variant: the smoother, which repeats the last command, is forgotten.    *)
DeactivateControllerOnly(r) ==
    /\ Alive
    /\ \/ Goto(r, "deactController", "settle")
             /\ LifecycleSetState(controller, FALSE) /\ UNCHANGED smoother
       \/ Goto(r, "settle", "backup") /\ UNCHANGED <<controller, smoother>>
    /\ UNCHANGED <<life, batteryVars, flagVars, goal, outcome, ticks, was_charging, reversing,
                   nav, legacyVars>>

DeactivateNav2(r) ==
    /\ Alive
    /\ \/ Goto(r, "deactController", "deactSmoother")
             /\ LifecycleSetState(controller, FALSE) /\ UNCHANGED smoother
       \/ Goto(r, "deactSmoother", "settle")
             /\ LifecycleSetState(smoother, FALSE) /\ UNCHANGED controller
       \/ Goto(r, "settle", "backup") /\ UNCHANGED <<controller, smoother>>
    /\ UNCHANGED <<life, batteryVars, flagVars, goal, outcome, ticks, was_charging, reversing,
                   nav, legacyVars>>

(* The elapsed time bounds the number of commands.                         *)
LimitReached == ticks >= MaxTicks

(* backup_until_charged: tests in the order of the code; the distance may  *)
(* be covered after any command.                                           *)
BackupTest(r) ==
    /\ Alive /\ pc[r] = "backup"
    /\ \/ ~ok /\ outcome' = [outcome EXCEPT ![r] = "failed"] /\ Goto(r, "backup", "fullStop")
       \/ /\ ok /\ CancelRequested(r)
          /\ outcome' = [outcome EXCEPT ![r] = "canceled"] /\ Goto(r, "backup", "fullStop")
       \/ /\ ok /\ ~CancelRequested(r) /\ charge_current
          /\ outcome' = [outcome EXCEPT ![r] = "succeeded"] /\ Goto(r, "backup", "fullStop")
       \/ /\ ok /\ ~CancelRequested(r) /\ ~charge_current /\ (ticks > 0 \/ LimitReached)
          /\ outcome' = [outcome EXCEPT ![r] = "failed"] /\ Goto(r, "backup", "fullStop")
       \/ /\ ok /\ ~CancelRequested(r) /\ ~charge_current /\ ~LimitReached
          /\ Goto(r, "backup", "reverse") /\ UNCHANGED outcome
    /\ UNCHANGED <<life, batteryVars, flagVars, goal, ticks, was_charging, reversing,
                   nav2Vars, legacyVars>>

(* A command published after the context is gone reaches nobody.           *)
Reverse(r) ==
    /\ Alive /\ Goto(r, "reverse", "backup")
    /\ ticks' = ticks + 1
    /\ reversing' = (reversing \/ ok)
    /\ UNCHANGED <<life, batteryVars, flagVars, goal, outcome, was_charging, nav2Vars, legacyVars>>

(* A call of rclpy may raise at any time; once the context is shut down it *)
(* does so whatever Faults says.                                           *)
MayRaise == life = "stopping" \/ (ok /\ "raise" \in Faults)

(* Variant: a canceled backing-up returns without restoring Nav2.          *)
FullStopOnlyCanceled(r) ==
    /\ Alive
    /\ Goto(r, "fullStop", IF outcome[r] = "canceled" THEN "clear" ELSE "actSmoother")
    /\ reversing' = (reversing /\ ~ok)
    /\ ticks' = 0
    /\ UNCHANGED <<life, batteryVars, flagVars, goal, outcome, was_charging, nav2Vars, legacyVars>>

(* full_stop, and the feedback that tells the client how the docking ended *)
(* (which may fail, like a command after the first).                       *)
FullStop(r) ==
    /\ Alive /\ Goto(r, "fullStop", "actSmoother")
    /\ reversing' = (reversing /\ ~ok)
    /\ ticks' = 0
    /\ \/ UNCHANGED outcome
       \/ MayRaise /\ outcome' = [outcome EXCEPT ![r] = "failed"]
    /\ UNCHANGED <<life, batteryVars, flagVars, goal, was_charging, nav2Vars, legacyVars>>

(* The finally clause of the sequence.                                     *)
ActivateNav2(r) ==
    /\ Alive
    /\ \/ Goto(r, "actSmoother", "actController")
             /\ LifecycleSetState(smoother, TRUE) /\ UNCHANGED controller
       \/ Goto(r, "actController", "clear")
             /\ LifecycleSetState(controller, TRUE) /\ UNCHANGED smoother
    /\ UNCHANGED <<life, batteryVars, flagVars, goal, outcome, ticks, was_charging, reversing,
                   nav, legacyVars>>

(* The navigator and the monitor's result are local and go with the call.  *)
ClearDocking(r) ==
    /\ Alive /\ Goto(r, "clear", AfterSequence(r))
    /\ is_docking' = FALSE
    /\ outcome' = [outcome EXCEPT ![r] = IF r = Monitor THEN "none" ELSE outcome[r]]
    /\ nav' = IF NavDone THEN "none" ELSE nav
    /\ UNCHANGED <<life, batteryVars, action_goal_active, goal, ticks, was_charging, reversing,
                   controller, smoother, legacyVars>>

(* Any rclpy call of the sequence may raise (feedback, a command, the      *)
(* navigator): the handler reports a failure, whatever the wheels and the  *)
(* navigation were told before; the finally clause still runs, full_stop   *)
(* does not.                                                               *)
Raise(r) ==
    /\ MayRaise /\ pc[r] \in ApproachLabels \cup BackupLabels
    /\ Return(r, "failed") /\ ticks' = 0
    /\ UNCHANGED <<life, batteryVars, flagVars, goal, was_charging, reversing, nav2Vars, legacyVars>>

Proceed(r) ==
    \/ Enter(r) \/ Decide(r) \/ GoToPrep(r) \/ WaitPrep(r) \/ Stabilize(r)
    \/ DeactivateNav2(r) \/ BackupTest(r) \/ Reverse(r) \/ FullStop(r)
    \/ ActivateNav2(r) \/ ClearDocking(r)

Sequence(r) == Proceed(r) \/ Raise(r)

(***************************************************************************)
(* The monitor.  Testing for a rising edge and latching was_charging are   *)
(* two steps; so are testing for a low battery and taking the dock.        *)
(***************************************************************************)
Boot ==
    /\ Alive
    /\ \/ Goto(Monitor, "boot", "bootTest") /\ was_charging' = is_charging
       \/ /\ Goto(Monitor, "bootTest", IF is_charging THEN "bootSettle" ELSE "poll")
          /\ UNCHANGED was_charging
    /\ UNCHANGED <<life, batteryVars, flagVars, goal, outcome, ticks, reversing, nav2Vars,
                   legacyVars>>

(* Variant: `while True` in place of `while rclpy.ok()`.                   *)
PollForever ==
    /\ Alive /\ Goto(Monitor, "poll", "edge")
    /\ UNCHANGED <<life, batteryVars, flagVars, goal, outcome, ticks, was_charging, reversing,
                   nav2Vars, legacyVars>>

Poll ==
    /\ Alive /\ Goto(Monitor, "poll", IF ok THEN "edge" ELSE "exitSmoother")
    /\ UNCHANGED <<life, batteryVars, flagVars, goal, outcome, ticks, was_charging, reversing,
                   nav2Vars, legacyVars>>

TestEdge ==
    /\ Alive
    /\ Goto(Monitor, "edge",
            IF ~was_charging /\ is_charging /\ ~is_docking THEN "chargeSettle" ELSE "latch")
    /\ UNCHANGED <<life, batteryVars, flagVars, goal, outcome, ticks, was_charging, reversing,
                   nav2Vars, legacyVars>>

(* handle_start_charging: give up when charging ended during the 3 s wait  *)
(* or when TF has no pose; otherwise truncate the file and rewrite it.     *)
HandleStartCharging(settle, write, return) ==
    /\ Alive
    /\ \/ /\ ~is_charging \/ "tf" \in Faults
          /\ Goto(Monitor, settle, return) /\ UNCHANGED dock_file
       \/ /\ is_charging /\ Goto(Monitor, settle, write)
          /\ dock_file' = "partial"
       \/ /\ Goto(Monitor, write, return)
          /\ dock_file' = "whole"
    /\ UNCHANGED <<life, batteryVars, flagVars, goal, outcome, ticks, was_charging, reversing,
                   nav2Vars, left_off>>

LatchCharging ==
    /\ Alive /\ Goto(Monitor, "latch", "low")
    /\ was_charging' = is_charging
    /\ UNCHANGED <<life, batteryVars, flagVars, goal, outcome, ticks, reversing, nav2Vars,
                   legacyVars>>

TestLowBattery ==
    /\ Alive
    /\ Goto(Monitor, "low",
            IF ~is_docking /\ ~action_goal_active /\ ~is_charging /\ low_battery
              THEN "enter" ELSE "poll")
    /\ UNCHANGED <<life, batteryVars, flagVars, goal, outcome, ticks, was_charging, reversing,
                   nav2Vars, legacyVars>>

(* main's finally: activate Nav2 whatever happened, then wait for the      *)
(* executor's threads; a goal still queued is never executed.              *)
MainFinally ==
    /\ Alive
    /\ \/ Goto(Monitor, "exitSmoother", "exitController")
             /\ LifecycleSetState(smoother, TRUE) /\ UNCHANGED controller
       \/ Goto(Monitor, "exitController", "join")
             /\ LifecycleSetState(controller, TRUE) /\ UNCHANGED smoother
    /\ UNCHANGED <<life, batteryVars, flagVars, goal, outcome, ticks, was_charging, reversing,
                   nav, legacyVars>>

MonitorLoop ==
    \/ Boot \/ Poll \/ TestEdge \/ LatchCharging \/ TestLowBattery \/ MainFinally
    \/ HandleStartCharging("bootSettle", "bootWrite", "poll")
    \/ HandleStartCharging("chargeSettle", "chargeWrite", "latch")

(***************************************************************************)
(* Signals.  SIGINT shuts the context down and raises KeyboardInterrupt in *)
(* the main thread: the try blocks it stands in are left through their     *)
(* finally clauses, and a finally clause it hits is itself cut short.      *)
(* SIGTERM only shuts the context down.                                    *)
(***************************************************************************)
Unwind(label) ==
    CASE label \in ApproachLabels \cup DeactivateLabels -> "clear"
      [] label \in BackupLabels -> "actSmoother"
      [] OTHER -> "exitSmoother"

Interrupt ==
    /\ ok /\ "interrupt" \in Faults
    /\ life' = "stopping"
    /\ \/ /\ pc' = [pc EXCEPT ![Monitor] = Unwind(pc[Monitor])]
          /\ ticks' = IF pc[Monitor] \in BackupLabels THEN 0 ELSE ticks
       \/ UNCHANGED <<pc, ticks>>
    /\ UNCHANGED <<batteryVars, flagVars, goal, outcome, was_charging, reversing, nav2Vars,
                   legacyVars>>

(* The process ends: its threads and flags are gone and its goals with     *)
(* them; Nav2, the wheels' last command and the file stay as they are.     *)
EndProcess(how) ==
    /\ life' = how
    /\ pc' = [r \in Runners |-> IF r = Monitor THEN "dead" ELSE "idle"]
    /\ goal' = [g \in Goals |-> IF goal[g] \in LiveStatus THEN "lost" ELSE goal[g]]
    /\ outcome' = [r \in Runners |-> "none"] /\ ticks' = 0
    /\ is_docking' = FALSE /\ action_goal_active' = FALSE /\ was_charging' = FALSE
    /\ low_battery' = FALSE /\ charge_current' = FALSE /\ is_charging' = FALSE
    /\ UNCHANGED <<reversing, nav2Vars, legacyVars>>

(* Variant: the executor's threads are daemons that die with main.         *)
ExitWithoutJoin ==
    /\ life = "stopping" /\ pc[Monitor] = "join"
    /\ EndProcess("exited")

Exit ==
    /\ life = "stopping" /\ pc[Monitor] = "join"
    /\ \A g \in Goals : pc[g] \in {"idle", "queued"}
    /\ EndProcess("exited")

Kill == Alive /\ "kill" \in Faults /\ EndProcess("killed")

Restart ==
    /\ ~Alive
    /\ FreshProcess
    /\ left_off' = ~(controller /\ smoother)
    /\ UNCHANGED <<goal, reversing, nav2Vars, dock_file>>

(***************************************************************************)
(* Nav2 (external).  A goal succeeds only under an active controller and   *)
(* smoother; it is aborted when it fails or another client's goal takes    *)
(* the navigator.                                                          *)
(***************************************************************************)
NavEnds ==
    /\ \/ nav \in {"active", "canceling"} /\ controller /\ smoother /\ nav' = "succeeded"
       \/ nav \in {"active", "canceling"} /\ nav' = "aborted"
       \/ nav = "canceling" /\ nav' = "canceled"
    /\ UNCHANGED <<life, batteryVars, flagVars, goal, threadVars, reversing, controller, smoother,
                   legacyVars>>

Action(g) == GoalCallback(g) \/ CancelCallback(g) \/ ForgetGoal(g)
ExecuteAutoDock(g) == StartExecute(g) \/ ExecuteReport(g) \/ ExecuteFinally(g)

Node ==
    \/ BatteryValues \/ BatteryFlag \/ MonitorLoop
    \/ Interrupt \/ Exit \/ Kill \/ Restart
    \/ \E g \in Goals : Action(g) \/ ExecuteAutoDock(g)
    \/ \E r \in Runners : Sequence(r)

Next == Node \/ NavEnds

Spec == Init /\ [][Next]_vars

(* What a thread in the sequence does by itself: exceptions are owed only   *)
(* once the context is gone.                                               *)
Owed(r) == Proceed(r) \/ (life = "stopping" /\ Raise(r))

(* Threads that can run do run, a callback that began ends, and Nav2 comes *)
(* up, answers a goal and ends it: the code waits for each without a bound *)
(* (lines 496, 522, 527).  Clients, battery readings and signals owe       *)
(* nothing.                                                                *)
Fairness ==
    /\ WF_vars(MonitorLoop) /\ WF_vars(BatteryFlag) /\ WF_vars(NavEnds) /\ WF_vars(Exit)
    /\ \A g \in Goals : WF_vars(ExecuteAutoDock(g))
    /\ \A r \in Runners : WF_vars(Owed(r))

FairSpec == Spec /\ Fairness

-----------------------------------------------------------------------------
(***************************************************************************)
(* Safety.                                                                 *)
(***************************************************************************)

(* Two threads never run the docking sequence at once, although the        *)
(* monitor and the action each decide to start it under a lock of their    *)
(* own: two of them would fight over Nav2 and the wheels.                  *)
OneSequence ==
    \A r, s \in Runners : InSequence(r) /\ InSequence(s) => r = s

(* While the context lives, is_docking is set exactly when some thread is  *)
(* in the sequence: no return path leaves it set, which would refuse every *)
(* later docking, and the loser of the race does not clear the winner's.   *)
DockingFlagTruth ==
    ok => (is_docking <=> \E r \in Runners : InSequence(r))

(* _action_goal_active is set exactly while one goal has a thread, at most *)
(* one has, and no live goal is left without one: a goal accepted and then *)
(* canceled, lost or refused the dock still frees the slot.                *)
OneGoalInFlight ==
    Alive =>
      /\ action_goal_active <=> \E g \in Goals : pc[g] # "idle"
      /\ \A g, h \in Goals : pc[g] # "idle" /\ pc[h] # "idle" => g = h
      /\ \A g \in Goals : goal[g] \in LiveStatus => pc[g] # "idle"

(* The robot backs up blind only while Nav2's controller and smoother are  *)
(* both off, so /cmd_vel has one writer.                                   *)
BackupOwnsBase ==
    ok /\ (\E r \in Runners : pc[r] \in BackupLabels) => ~controller /\ ~smoother

(* Outside the sequence Nav2 is on, unless an earlier process was killed   *)
(* with it off: every way out of run_docking_sequence, whoever ran it and  *)
(* however it ended, gives the base back (its finally clause, and the log  *)
(* line that tells so).  What a killed process left off, the next one does *)
(* not restore: left_off names that case.                                  *)
Nav2Restored ==
    ok /\ (\A r \in Runners : ~InSequence(r)) => (controller /\ smoother) \/ left_off

(* A process that ends in an orderly way leaves Nav2 on, even when the     *)
(* signal comes between the two deactivations, or cuts the sequence's own  *)
(* finally clause short while the action's thread is still deactivating.   *)
ExitRestoresNav2 ==
    life = "exited" => controller /\ smoother

(* A reverse command stands only while a thread is in the closed loop that *)
(* watches distance, time and current and stops at once when it charges,   *)
(* as backup_until_charged says of itself (the wheels hold the last        *)
(* command).  The code does not keep this: an exception or a shutdown      *)
(* between a command and full_stop leaves the command standing.            *)
ReverseSupervised ==
    reversing => \E r \in Runners : pc[r] \in BackupLabels

(* The docking node never leaves a goal of its own at the navigator: a     *)
(* canceled or failed sequence has seen its navigation end (unless it was  *)
(* an exception or a signal that ended it).                                *)
NoStrayNavigation ==
    nav \in {"active", "canceling"} => \E r \in Runners : pc[r] \in {"nav", "navCancel"}

(***************************************************************************)
(* Liveness.                                                               *)
(***************************************************************************)

(* Every docking sequence ends once Nav2 answers: no loop of it waits for  *)
(* ever for anything else, whatever the battery, the clients and their     *)
(* cancel requests do meanwhile and whichever call raises.                 *)
DockingEnds == is_docking ~> ~is_docking

(* Every accepted goal gets a terminal status, canceled ones included.     *)
GoalEnds == \A g \in Goals : goal[g] \in LiveStatus ~> goal[g] \notin LiveStatus

(* A battery that stays low away from the charger is acted on, however     *)
(* often clients send goals of their own.                                  *)
LowBatteryServed ==
    ok /\ low_battery /\ ~is_charging ~> is_docking \/ ~low_battery \/ is_charging \/ ~ok

(* After a signal the process does come to its end.                        *)
StopEnds == life = "stopping" ~> life \notin {"stopping"}

(***************************************************************************)
(* Refinement: the threads that work on a goal hold the slot.              *)
(***************************************************************************)
Server == INSTANCE ActionServer WITH slot <- {g \in Goals : pc[g] # "idle"}

(* To its clients /auto_dock is an action server with a single slot.        *)
ServesOneGoal == Server!Spec
=============================================================================
