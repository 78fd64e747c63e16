------------------------------- MODULE Patrol -------------------------------
(***************************************************************************)
(* The patrol node of ElderBot (elderbot_navigation/scripts/               *)
(* patrol_node.py): the /patrol action server, whose execute callback      *)
(* drives the navigator through a list of waypoints for a number of        *)
(* rounds, with a timeout per waypoint and cancellation anywhere.          *)
(*                                                                         *)
(* Every goal is a thread of the executor with a pc of its own; the        *)
(* callback's locals are variables of their own, which OneGoalInFlight     *)
(* entitles us to.  A waypoint is its position in the list.  The navigator *)
(* (nav2_simple_commander and bt_navigator) is the environment: nav is the *)
(* last goal it accepted from this node.                                   *)
(***************************************************************************)
EXTENDS Integers

CONSTANTS
    Goals,          \* the goals that clients of /patrol may have in flight
    Configured,     \* number of configured waypoints
    Requests,       \* goal requests: see RequestType
    RoundBound,     \* rounds after which an endless patrol counts from zero again
    Faults          \* which of "reject", "raise", "stop" may occur

Forever == 0        \* target_rounds = None

(* names: how many waypoints are named (0: take the configured ones);      *)
(* known: all of them are configured; timeout, wait: the effective value   *)
(* of navigation_timeout, wait_duration is positive.                       *)
RequestType == [names: Nat, known: BOOLEAN, repeat: Int, forever: BOOLEAN,
                timeout: BOOLEAN, wait: BOOLEAN]

ASSUME ConfiguredAssumption == Configured \in Nat \ {0}
ASSUME RequestAssumption    == Requests \subseteq RequestType
ASSUME RoundBoundAssumption == RoundBound \in Nat \ {0}
ASSUME FaultAssumption      == Faults \subseteq {"reject", "raise", "stop"}

VARIABLES
    life,             \* rclpy.ok() and the process: running, stopping, exited
    goal_active,      \* _goal_active, guarded by _goal_lock
    goal,             \* status of each goal at the action server
    pc,               \* where each goal's thread stands
    plan,             \* what the accepted request asks for
    rounds_completed, success_count, failed_count, timed_out_count,
    waypoint_index,   \* the waypoint of this round, past the last one at its end
    nav,              \* the last goal that the navigator accepted
    reached,          \* history: navigations of this patrol that did succeed
    rejected          \* history: navigation goals of this patrol that were rejected

counters == <<rounds_completed, success_count, failed_count, timed_out_count, waypoint_index>>
history  == <<reached, rejected>>
vars == <<life, goal_active, goal, pc, plan, counters, nav, history>>

LiveStatus == {"accepted", "executing", "canceling"}
EndStatus  == {"succeeded", "canceled", "aborted"}
LoopLabels == {"round", "waypoint", "send", "poll", "stop", "result", "wait"}
Labels     == LoopLabels \cup {"idle", "queued", "nav2wait", "cancel", "cancelWait",
                               "succeed", "abort", "release"}

(* resolve_waypoints and the choice of target_rounds.                      *)
PlanOf(q) == [count   |-> IF q.names = 0 THEN Configured ELSE q.names,
              rounds  |-> IF ~q.forever /\ q.repeat > 0 THEN q.repeat
                          ELSE IF q.forever THEN Forever ELSE 1,
              timeout |-> q.timeout,
              wait    |-> q.wait]
NoPlan == [count |-> 0, rounds |-> 1, timeout |-> FALSE, wait |-> FALSE]
PlanType == [count: Nat, rounds: Nat, timeout: BOOLEAN, wait: BOOLEAN]

(* The type invariant: what each variable may hold.                        *)
TypeOK ==
    /\ life \in {"running", "stopping", "exited"}
    /\ goal_active \in BOOLEAN
    /\ goal \in [Goals -> LiveStatus \cup EndStatus \cup {"none", "rejected", "lost"}]
    /\ pc \in [Goals -> Labels]
    /\ plan \in PlanType
    /\ rounds_completed \in Nat /\ success_count \in Nat /\ failed_count \in Nat
    /\ timed_out_count \in Nat /\ waypoint_index \in Nat
    /\ nav \in {"none", "active", "canceling", "succeeded", "aborted", "canceled"}
    /\ reached \in Nat /\ rejected \in Nat

ResetLocals ==
    /\ rounds_completed' = 0 /\ success_count' = 0 /\ failed_count' = 0
    /\ timed_out_count' = 0 /\ waypoint_index' = 1
    /\ reached' = 0 /\ rejected' = 0

Init ==
    /\ life = "running" /\ goal_active = FALSE
    /\ goal = [g \in Goals |-> "none"] /\ pc = [g \in Goals |-> "idle"]
    /\ plan = NoPlan
    /\ rounds_completed = 0 /\ success_count = 0 /\ failed_count = 0
    /\ timed_out_count = 0 /\ waypoint_index = 1
    /\ nav = "none" /\ reached = 0 /\ rejected = 0

ok == life = "running"
Alive == life # "exited"
NavDone == nav \notin {"active", "canceling"}
CancelRequested(g) == goal[g] = "canceling"
Goto(g, from, to) == pc[g] = from /\ pc' = [pc EXCEPT ![g] = to]

(* Variant: cancelTask() on a navigator that knows no task.                *)
CancelTaskOfAnother == nav' = nav

(* navigator.cancelTask(): reaches the navigator only while the context    *)
(* lives, and matters only to a goal that is still executing.              *)
CancelTask == nav' = IF ok /\ nav = "active" THEN "canceling" ELSE nav

(***************************************************************************)
(* The action server's callbacks.                                          *)
(***************************************************************************)
GoalCallback(g, q) ==
    /\ ok /\ goal[g] = "none" /\ pc[g] = "idle"
    /\ \/ /\ ~q.known \/ goal_active
          /\ goal' = [goal EXCEPT ![g] = "rejected"]
          /\ UNCHANGED <<goal_active, pc, plan>>
       \/ /\ q.known /\ ~goal_active
          /\ goal_active' = TRUE
          /\ goal' = [goal EXCEPT ![g] = "accepted"]
          /\ plan' = PlanOf(q)
          /\ Goto(g, "idle", "queued")
    /\ UNCHANGED <<life, counters, nav, history>>

(* Variant: finished goals can be canceled too.                            *)
CancelCallbackAnyTime(g) ==
    /\ ok /\ goal[g] \notin {"none", "rejected"}
    /\ goal' = [goal EXCEPT ![g] = "canceling"]
    /\ UNCHANGED <<life, goal_active, pc, plan, counters, nav, history>>

CancelCallback(g) ==
    /\ ok /\ goal[g] \in {"accepted", "executing"}
    /\ goal' = [goal EXCEPT ![g] = "canceling"]
    /\ UNCHANGED <<life, goal_active, pc, plan, counters, nav, history>>

ForgetGoal(g) ==
    /\ goal[g] \notin LiveStatus \cup {"none"} /\ pc[g] = "idle"
    /\ goal' = [goal EXCEPT ![g] = "none"]
    /\ UNCHANGED <<life, goal_active, pc, plan, counters, nav, history>>

(***************************************************************************)
(* execute_callback, step by step.                                         *)
(***************************************************************************)
StartExecute(g) ==
    /\ ok /\ Goto(g, "queued", "nav2wait")
    /\ goal' = [goal EXCEPT ![g] = IF goal[g] = "accepted" THEN "executing" ELSE goal[g]]
    /\ UNCHANGED <<life, goal_active, plan, counters, nav, history>>

(* A navigator of this call's own, which has accepted nothing yet: a goal  *)
(* of an earlier call that is still being canceled is out of its sight.    *)
WaitNav2(g) ==
    /\ ok /\ Goto(g, "nav2wait", "round")
    /\ ResetLocals /\ nav' = "none"
    /\ UNCHANGED <<life, goal_active, goal, plan>>

(* Variant: one round too few.                                             *)
RoundsDoneEarly == plan.rounds # Forever /\ rounds_completed + 1 >= plan.rounds

RoundsDone == plan.rounds # Forever /\ rounds_completed >= plan.rounds

(* `while rclpy.ok()': a context shut down ends the loop like a patrol     *)
(* that has done its rounds.                                               *)
Round(g) ==
    /\ Alive
    /\ \/ ok /\ CancelRequested(g) /\ Goto(g, "round", "cancel")
       \/ ok /\ ~CancelRequested(g) /\ RoundsDone /\ Goto(g, "round", "succeed")
       \/ ~ok /\ Goto(g, "round", "succeed")
       \/ ok /\ ~CancelRequested(g) /\ ~RoundsDone /\ Goto(g, "round", "waypoint")
    /\ UNCHANGED <<life, goal_active, goal, plan, counters, nav, history>>

Waypoint(g) ==
    /\ Alive /\ waypoint_index <= plan.count
    /\ \/ CancelRequested(g) /\ Goto(g, "waypoint", "cancel")
       \/ ~CancelRequested(g) /\ Goto(g, "waypoint", "send")
    /\ UNCHANGED <<life, goal_active, goal, plan, counters, nav, history>>

(* The for loop is over.  Only to keep the model finite, an endless patrol *)
(* counts from zero again after RoundBound rounds.                         *)
EndRound(g) ==
    /\ Alive /\ waypoint_index > plan.count /\ Goto(g, "waypoint", "round")
    /\ IF plan.rounds = Forever /\ rounds_completed + 1 = RoundBound
         THEN ResetLocals
         ELSE /\ rounds_completed' = rounds_completed + 1 /\ waypoint_index' = 1
              /\ UNCHANGED <<success_count, failed_count, timed_out_count, history>>
    /\ UNCHANGED <<life, goal_active, goal, plan, nav>>

(* goToPose(): its answer is ignored, so after a rejection the loop looks  *)
(* at the goal that was accepted before.                                   *)
GoToPose(g) ==
    /\ ok /\ Goto(g, "send", "poll")
    /\ \/ nav' = "active" /\ UNCHANGED rejected
       \/ "reject" \in Faults /\ UNCHANGED nav /\ rejected' = rejected + 1
    /\ UNCHANGED <<life, goal_active, goal, plan, counters, reached>>

PollTask(g) ==
    /\ ok
    /\ \/ NavDone /\ Goto(g, "poll", "result") /\ UNCHANGED nav
       \/ ~NavDone /\ CancelRequested(g) /\ Goto(g, "poll", "cancel") /\ UNCHANGED nav
       \/ ~NavDone /\ ~CancelRequested(g) /\ plan.timeout /\ Goto(g, "poll", "stop") /\ CancelTask
    /\ UNCHANGED <<life, goal_active, goal, plan, counters, history>>

(* Variants: a waypoint that timed out is tried again; or the wait for its *)
(* task to stop has no limit.                                              *)
TimedOutRetries(g) ==
    /\ ok /\ Goto(g, "stop", "waypoint")
    /\ timed_out_count' = IF timed_out_count = 3 THEN 3 ELSE timed_out_count + 1
    /\ UNCHANGED <<life, goal_active, goal, plan, rounds_completed, success_count, failed_count,
                   waypoint_index, nav, history>>

TimedOutWaitsForStop(g) ==
    /\ ok /\ NavDone /\ Goto(g, "stop", "waypoint")
    /\ timed_out_count' = timed_out_count + 1
    /\ waypoint_index' = waypoint_index + 1
    /\ UNCHANGED <<life, goal_active, goal, plan, rounds_completed, success_count, failed_count,
                   nav, history>>

(* _wait_for_task_stop returns after two seconds whether or not the task   *)
(* has stopped, and the waypoint counts as timed out.                      *)
TimedOut(g) ==
    /\ ok /\ Goto(g, "stop", "waypoint")
    /\ timed_out_count' = timed_out_count + 1
    /\ waypoint_index' = waypoint_index + 1
    /\ UNCHANGED <<life, goal_active, goal, plan, rounds_completed, success_count, failed_count,
                   nav, history>>

(* Variant: any end of the navigation is an arrival.                       *)
SucceededAtAnyEnd(g) ==
    /\ Alive /\ NavDone
    /\ success_count' = success_count + 1
    /\ \/ plan.wait /\ Goto(g, "result", "wait") /\ UNCHANGED waypoint_index
       \/ ~plan.wait /\ Goto(g, "result", "waypoint") /\ waypoint_index' = waypoint_index + 1
    /\ UNCHANGED <<life, goal_active, goal, plan, rounds_completed, failed_count, timed_out_count,
                   nav, history>>

Succeeded(g) ==
    /\ Alive /\ nav = "succeeded"
    /\ success_count' = success_count + 1
    /\ \/ plan.wait /\ Goto(g, "result", "wait") /\ UNCHANGED waypoint_index
       \/ ~plan.wait /\ Goto(g, "result", "waypoint") /\ waypoint_index' = waypoint_index + 1
    /\ UNCHANGED <<life, goal_active, goal, plan, rounds_completed, failed_count, timed_out_count,
                   nav, history>>

(* Canceled by us ends the patrol; canceled by others, aborted or never    *)
(* accepted skips the waypoint.                                            *)
Failed(g) ==
    /\ Alive /\ NavDone /\ nav # "succeeded" /\ pc[g] = "result"
    /\ \/ /\ nav = "canceled" /\ CancelRequested(g)
          /\ Goto(g, "result", "cancel")
          /\ UNCHANGED <<failed_count, waypoint_index>>
       \/ /\ ~(nav = "canceled" /\ CancelRequested(g))
          /\ Goto(g, "result", "waypoint")
          /\ failed_count' = failed_count + 1 /\ waypoint_index' = waypoint_index + 1
    /\ UNCHANGED <<life, goal_active, goal, plan, rounds_completed, success_count,
                   timed_out_count, nav, history>>

WaitAtWaypoint(g) ==
    /\ Alive
    /\ \/ /\ CancelRequested(g) \/ ~ok
          /\ Goto(g, "wait", "cancel") /\ UNCHANGED waypoint_index
       \/ /\ ok /\ Goto(g, "wait", "waypoint")
          /\ waypoint_index' = waypoint_index + 1
    /\ UNCHANGED <<life, goal_active, goal, plan, rounds_completed, success_count, failed_count,
                   timed_out_count, nav, history>>

(* Variant: the wait for the canceled task has no limit.                   *)
CancelGoalWaitsForStop(g) ==
    /\ Alive
    /\ \/ Goto(g, "cancel", "cancelWait") /\ CancelTask /\ UNCHANGED goal
       \/ /\ CancelRequested(g) /\ NavDone /\ Goto(g, "cancelWait", "release")
          /\ goal' = [goal EXCEPT ![g] = "canceled"] /\ UNCHANGED nav
       \/ ~CancelRequested(g) /\ Goto(g, "cancelWait", "abort") /\ UNCHANGED <<goal, nav>>
    /\ UNCHANGED <<life, goal_active, plan, counters, history>>

(* _cancel_goal: cancelTask, a wait of at most two seconds, canceled();    *)
(* canceled() raises for a goal that nobody asked to cancel.               *)
CancelGoal(g) ==
    /\ Alive
    /\ \/ Goto(g, "cancel", "cancelWait") /\ CancelTask /\ UNCHANGED goal
       \/ /\ CancelRequested(g) /\ Goto(g, "cancelWait", "release")
          /\ goal' = [goal EXCEPT ![g] = "canceled"] /\ UNCHANGED nav
       \/ ~CancelRequested(g) /\ Goto(g, "cancelWait", "abort") /\ UNCHANGED <<goal, nav>>
    /\ UNCHANGED <<life, goal_active, plan, counters, history>>

Finish(g) ==
    /\ Alive /\ Goto(g, "succeed", "release")
    /\ goal' = [goal EXCEPT ![g] = "succeeded"]
    /\ UNCHANGED <<life, goal_active, plan, counters, nav, history>>

(* An exception: always possible once the context is gone.                 *)
Raise(g) ==
    /\ life = "stopping" \/ (ok /\ "raise" \in Faults)
    /\ pc[g] \in {"nav2wait", "waypoint", "send", "poll", "stop", "result", "wait"}
    /\ pc' = [pc EXCEPT ![g] = "abort"]
    /\ UNCHANGED <<life, goal_active, goal, plan, counters, nav, history>>

Abort(g) ==
    /\ Alive /\ Goto(g, "abort", "release")
    /\ CancelTask
    /\ goal' = [goal EXCEPT ![g] = "aborted"]
    /\ UNCHANGED <<life, goal_active, plan, counters, history>>

(* The finally clause; the callback's locals go with it.                   *)
Finally(g) ==
    /\ Alive /\ Goto(g, "release", "idle")
    /\ goal_active' = FALSE
    /\ plan' = NoPlan /\ ResetLocals
    /\ UNCHANGED <<life, goal, nav>>

Proceed(g) ==
    \/ StartExecute(g) \/ WaitNav2(g) \/ Round(g) \/ Waypoint(g) \/ EndRound(g) \/ GoToPose(g)
    \/ PollTask(g) \/ TimedOut(g) \/ Succeeded(g) \/ Failed(g) \/ WaitAtWaypoint(g)
    \/ CancelGoal(g) \/ Finish(g) \/ Abort(g) \/ Finally(g)

Execute(g) == Proceed(g) \/ Raise(g)

(***************************************************************************)
(* The navigator (external): it ends goals as it pleases; another client's *)
(* goal or cancel request may end ours.                                    *)
(***************************************************************************)
NavEnds ==
    /\ ~NavDone
    /\ \/ nav' = "succeeded" /\ reached' = reached + 1
       \/ nav' \in {"aborted", "canceled"} /\ UNCHANGED reached
    /\ UNCHANGED <<life, goal_active, goal, pc, plan, counters, rejected>>

(* SIGINT or SIGTERM, and the end of the process.                          *)
Stop ==
    /\ ok /\ "stop" \in Faults /\ life' = "stopping"
    /\ UNCHANGED <<goal_active, goal, pc, plan, counters, nav, history>>

Exit ==
    /\ life = "stopping" /\ \A g \in Goals : pc[g] \in {"idle", "queued"}
    /\ life' = "exited" /\ goal_active' = FALSE
    /\ goal' = [g \in Goals |-> IF goal[g] \in LiveStatus THEN "lost" ELSE goal[g]]
    /\ pc' = [g \in Goals |-> "idle"] /\ plan' = NoPlan
    /\ UNCHANGED <<counters, nav, history>>

Restart ==
    /\ life = "exited" /\ life' = "running"
    /\ UNCHANGED <<goal_active, goal, pc, plan, counters, nav, history>>

Node ==
    \/ Stop \/ Exit \/ Restart
    \/ \E g \in Goals : \/ CancelCallback(g) \/ ForgetGoal(g) \/ Execute(g)
                        \/ \E q \in Requests : GoalCallback(g, q)

Next == Node \/ NavEnds

Spec == Init /\ [][Next]_vars

(* Exceptions are owed only once the context is gone.                      *)
Thread(g) == Proceed(g) \/ (~ok /\ Raise(g))

(* Steps that end only with an answer of Nav2, for which the code waits    *)
(* without a bound: waitUntilNav2Active() until it is up, goToPose() until *)
(* the goal is accepted or rejected, cancelTask() until the request for a  *)
(* goal once accepted is confirmed.  A dead context ends these waits.      *)
AsksNav2(g) ==
    /\ ok
    /\ \/ pc[g] \in {"nav2wait", "send"}
       \/ nav # "none" /\ (pc[g] \in {"cancel", "abort"} \/ pc'[g] = "stop")

(* Threads that can run do run, and main ends after a signal.              *)
ThreadsRun == WF_vars(Exit) /\ \A g \in Goals : WF_vars(Thread(g) /\ ~AsksNav2(g))

(* Nav2 comes up and answers requests.  It does not owe the end of a goal. *)
Nav2Answers == \A g \in Goals : WF_vars(Thread(g) /\ AsksNav2(g))

FairSpec == Spec /\ ThreadsRun /\ Nav2Answers

-----------------------------------------------------------------------------
(***************************************************************************)
(* Safety.                                                                 *)
(***************************************************************************)

(* _goal_active is set exactly while one goal has a thread, at most one    *)
(* has, and no live goal is left without one: every exit of the callback,  *)
(* exceptions and cancellations included, frees the slot.                  *)
OneGoalInFlight ==
    Alive =>
      /\ goal_active <=> \E g \in Goals : pc[g] # "idle"
      /\ \A g, h \in Goals : pc[g] # "idle" /\ pc[h] # "idle" => g = h
      /\ \A g \in Goals : goal[g] \in LiveStatus => pc[g] # "idle"

Visited == success_count + failed_count + timed_out_count

(* Every visit of a waypoint is counted once, in one of the three          *)
(* counters, whatever mix of arrivals, failures, timeouts and foreign      *)
(* cancellations the rounds bring.                                         *)
VisitsCountedOnce ==
    \A g \in Goals :
      LET before == rounds_completed * plan.count + waypoint_index - 1
      IN  /\ pc[g] \in LoopLabels \ {"wait"} => Visited = before
          /\ pc[g] = "wait" => Visited = before + 1

(* No step but one after a signal leaves a navigation goal driving the     *)
(* robot without the patrol that watched it: a patrol that ends has seen   *)
(* its last goal end or has asked for its cancellation.  (After a signal   *)
(* cancelTask() does not reach the navigator any more.)                    *)
Watched == \E g \in Goals : pc[g] \notin {"idle", "queued", "release"}
NoAbandonedNavigation == [][ok' /\ nav' = "active" /\ Watched => Watched']_vars

(* An arrival that is counted was one, except for a goal that Nav2         *)
(* rejected, whose waypoint is judged by the result of the goal before it: *)
(* neither a timeout nor a cancellation nor an abort passes for an arrival,*)
(* and no result is counted twice.                                         *)
CountedWasReached == success_count <= reached + rejected

(* patrol_node.py:246, of a waypoint that is counted: "成功到达".  Nav2 has  *)
(* reported each of these arrivals.  The code does not keep this: a        *)
(* rejected goal leaves the result of the goal before it in the navigator. *)
CountedWasReported == success_count <= reached

(* A patrol reported as a success has done all its rounds and visited each *)
(* waypoint of each; an endless one is never reported as one.              *)
SuccessMeansAllRounds ==
    [][\A g \in Goals :
         ok /\ goal[g] # "succeeded" /\ goal'[g] = "succeeded" =>
           /\ plan.rounds # Forever /\ rounds_completed = plan.rounds
           /\ Visited = plan.rounds * plan.count]_vars

(***************************************************************************)
(* Liveness.                                                               *)
(***************************************************************************)

(* A canceled patrol ends, endless or not, even if the navigator never     *)
(* ends the goal that it accepted: of all the waits of the callback only   *)
(* those for an answer to a request (Nav2Answers) have no bound.           *)
CancelEnds == \A g \in Goals : goal[g] = "canceling" ~> goal[g] \notin LiveStatus

(* With a timeout a patrol of finitely many rounds ends, even if the       *)
(* navigator ends no goal: navigation_timeout bounds each of them, once    *)
(* the request for it was answered.                                        *)
TimedPatrolEnds ==
    \A g \in Goals :
      pc[g] \notin {"idle", "release"} /\ plan.timeout /\ plan.rounds # Forever
        ~> pc[g] = "idle"

(***************************************************************************)
(* Refinement: the threads that work on a goal hold the slot.              *)
(***************************************************************************)
Server == INSTANCE ActionServer WITH slot <- {g \in Goals : pc[g] # "idle"}

(* To its clients /patrol is an action server with a single slot.           *)
ServesOneGoal == Server!Spec
=============================================================================
