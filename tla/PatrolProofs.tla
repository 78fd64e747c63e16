---------------------------- MODULE PatrolProofs ----------------------------
(***************************************************************************)
(* What holds of the patrol node for every set of goals, every list of     *)
(* waypoints and every number of rounds, whatever is rejected, raised or   *)
(* signalled.                                                              *)
(*                                                                         *)
(* None of the properties is inductive by itself.  Exclusive makes the     *)
(* callback's locals the one patrol's own; StatusFits ties a goal's status *)
(* to the place of its thread; Position says which waypoint and round each *)
(* place allows; Credit keeps an arrival, or a rejection, in hand wherever *)
(* a result may still be counted; Handed says where a navigation goal may  *)
(* be driving.                                                             *)
(***************************************************************************)
EXTENDS Patrol, TLAPS

Exclusive ==
    /\ goal_active <=> \E g \in Goals : pc[g] # "idle"
    /\ \A g, h \in Goals : pc[g] # "idle" /\ pc[h] # "idle" => g = h
    /\ life = "exited" => \A g \in Goals : pc[g] = "idle"

StatusFits ==
    \A g \in Goals :
      /\ pc[g] = "idle" => goal[g] \notin LiveStatus
      /\ pc[g] = "queued" => goal[g] \in {"accepted", "canceling"}
      /\ pc[g] \notin {"idle", "queued", "release"} => goal[g] \in {"executing", "canceling"}
      /\ pc[g] = "release" => goal[g] \in EndStatus

Position ==
    \A g \in Goals :
      /\ pc[g] \in LoopLabels => waypoint_index \in 1 .. plan.count + 1
      /\ pc[g] = "round" => waypoint_index = 1
      /\ pc[g] \in LoopLabels \ {"round", "waypoint"} => waypoint_index <= plan.count
      /\ pc[g] = "round" /\ plan.rounds # Forever => rounds_completed <= plan.rounds
      /\ pc[g] \in LoopLabels \ {"round"} /\ plan.rounds # Forever =>
           rounds_completed < plan.rounds

AllDone ==
    \A g \in Goals :
      ok /\ pc[g] = "succeed" =>
        /\ plan.rounds # Forever /\ rounds_completed = plan.rounds
        /\ Visited = plan.rounds * plan.count

Credit ==
    /\ CountedWasReached
    /\ \A g \in Goals :
         pc[g] \in {"poll", "result"} /\ nav = "succeeded" => success_count < reached + rejected

Handed ==
    ok /\ nav = "active" =>
      \A g \in Goals : pc[g] \in {"idle", "queued", "nav2wait", "poll", "cancel", "abort"}

Inv == TypeOK /\ Exclusive /\ StatusFits /\ Position /\ VisitsCountedOnce /\ AllDone /\ Credit
       /\ Handed

LEMMA PlanTyped == \A q \in Requests : PlanOf(q) \in PlanType
BY RequestAssumption, ConfiguredAssumption DEF PlanOf, PlanType, RequestType, Forever

LEMMA NoPlanTyped == NoPlan \in PlanType
BY DEF NoPlan, PlanType

LEMMA OneRoundMore == \A r, c \in Nat : (r + 1) * c = r * c + c /\ 0 * c = 0
OBVIOUS

-----------------------------------------------------------------------------
(***************************************************************************)
(* Where a step takes the labels.                                          *)
(***************************************************************************)

(* A thread's step moves its own label only, to another one, and away from *)
(* idle never.                                                             *)
LEMMA ThreadMoves ==
    ASSUME TypeOK, NEW g \in Goals, Execute(g)
    PROVE  /\ \E l \in Labels : pc' = [pc EXCEPT ![g] = l]
           /\ pc[g] # "idle" /\ life' = life /\ Alive
           /\ pc'[g] = "idle" <=> Finally(g)
           /\ Finally(g) \/ UNCHANGED goal_active
           /\ pc'[g] # "queued"
<1> USE DEF Goto, Labels, LoopLabels, TypeOK, ok, Alive
<1>1. CASE StartExecute(g) \/ WaitNav2(g) \/ Round(g)
  BY <1>1 DEF StartExecute, WaitNav2, Round, Finally
<1>2. CASE Waypoint(g) \/ EndRound(g) \/ GoToPose(g)
  BY <1>2 DEF Waypoint, EndRound, GoToPose, Finally
<1>3. CASE PollTask(g) \/ TimedOut(g)
  BY <1>3 DEF PollTask, TimedOut, Finally
<1>4. CASE Succeeded(g) \/ Failed(g) \/ WaitAtWaypoint(g)
  BY <1>4 DEF Succeeded, Failed, WaitAtWaypoint, Finally
<1>5. CASE CancelGoal(g) \/ Finish(g)
  BY <1>5 DEF CancelGoal, Finish, Finally
<1>6. CASE Abort(g) \/ Finally(g) \/ Raise(g)
  BY <1>6 DEF Abort, Finally, Raise
<1> QED
  BY <1>1, <1>2, <1>3, <1>4, <1>5, <1>6 DEF Execute, Proceed

-----------------------------------------------------------------------------
(***************************************************************************)
(* Types.                                                                  *)
(***************************************************************************)

LEMMA InitTyped == Init => TypeOK
<1> SUFFICES ASSUME Init PROVE TypeOK
  OBVIOUS
<1>1. pc \in [Goals -> Labels] /\ goal \in [Goals -> {"none"}] /\ plan \in PlanType
  BY NoPlanTyped DEF Init, Labels
<1> QED
  BY <1>1 DEF Init, TypeOK

LEMMA NextTyped == TypeOK /\ [Next]_vars => TypeOK'
<1> SUFFICES ASSUME TypeOK, [Next]_vars PROVE TypeOK'
  OBVIOUS
<1> USE DEF TypeOK, LiveStatus, EndStatus
<1>1. ASSUME NEW g \in Goals, Execute(g) PROVE TypeOK'
  <2>1. pc' \in [Goals -> Labels] /\ life' = life
    BY <1>1, ThreadMoves
  <2>2. goal' \in [Goals -> LiveStatus \cup EndStatus \cup {"none", "rejected", "lost"}]
    BY <1>1 DEF Execute, Proceed, StartExecute, WaitNav2, Round, Waypoint, EndRound, GoToPose,
                PollTask, TimedOut, Succeeded, Failed, WaitAtWaypoint, CancelGoal, Finish, Abort,
                Finally, Raise
  <2>3. goal_active' \in BOOLEAN
    BY <1>1 DEF Execute, Proceed, StartExecute, WaitNav2, Round, Waypoint, EndRound, GoToPose,
                PollTask, TimedOut, Succeeded, Failed, WaitAtWaypoint, CancelGoal, Finish, Abort,
                Finally, Raise
  <2>4. plan' \in PlanType
    BY <1>1, NoPlanTyped
       DEF Execute, Proceed, StartExecute, WaitNav2, Round, Waypoint, EndRound, GoToPose,
           PollTask, TimedOut, Succeeded, Failed, WaitAtWaypoint, CancelGoal, Finish, Abort,
           Finally, Raise
  <2>5. /\ rounds_completed' \in Nat /\ success_count' \in Nat /\ failed_count' \in Nat
        /\ timed_out_count' \in Nat /\ waypoint_index' \in Nat
        /\ reached' \in Nat /\ rejected' \in Nat
    <3> USE DEF counters, history, ResetLocals
    <3>1. CASE StartExecute(g) \/ WaitNav2(g) \/ Round(g) \/ Waypoint(g) \/ EndRound(g)
      BY <3>1 DEF StartExecute, WaitNav2, Round, Waypoint, EndRound
    <3>2. CASE GoToPose(g) \/ PollTask(g) \/ TimedOut(g) \/ Succeeded(g)
      BY <3>2 DEF GoToPose, PollTask, TimedOut, Succeeded
    <3>3. CASE Failed(g) \/ WaitAtWaypoint(g) \/ CancelGoal(g) \/ Finish(g)
      BY <3>3 DEF Failed, WaitAtWaypoint, CancelGoal, Finish
    <3>4. CASE Raise(g) \/ Abort(g) \/ Finally(g)
      BY <3>4 DEF Raise, Abort, Finally
    <3> QED
      BY <1>1, <3>1, <3>2, <3>3, <3>4 DEF Execute, Proceed
  <2>6. nav' \in {"none", "active", "canceling", "succeeded", "aborted", "canceled"}
    BY <1>1 DEF Execute, Proceed, StartExecute, WaitNav2, Round, Waypoint, EndRound, GoToPose,
                PollTask, TimedOut, Succeeded, Failed, WaitAtWaypoint, CancelGoal, Finish, Abort,
                Finally, Raise, CancelTask
  <2> QED
    BY <2>1, <2>2, <2>3, <2>4, <2>5, <2>6
<1>2. ASSUME NEW g \in Goals, NEW q \in Requests, GoalCallback(g, q) PROVE TypeOK'
  BY <1>2, PlanTyped DEF GoalCallback, counters, history, Goto, Labels
<1>3. ASSUME NEW g \in Goals, CancelCallback(g) \/ ForgetGoal(g) PROVE TypeOK'
  BY <1>3 DEF CancelCallback, ForgetGoal, counters, history
<1>4. CASE Stop \/ Exit \/ Restart
  BY <1>4, NoPlanTyped DEF Stop, Exit, Restart, counters, history, Labels
<1>5. CASE NavEnds
  BY <1>5 DEF NavEnds, counters
<1>6. CASE UNCHANGED vars
  BY <1>6 DEF vars, counters, history
<1> QED
  BY <1>1, <1>2, <1>3, <1>4, <1>5, <1>6 DEF Next, Node

-----------------------------------------------------------------------------
(***************************************************************************)
(* One patrol at a time.                                                   *)
(***************************************************************************)

LEMMA ExclusiveKept == TypeOK /\ Exclusive /\ [Next]_vars => Exclusive'
<1> SUFFICES ASSUME TypeOK, Exclusive, [Next]_vars PROVE Exclusive'
  OBVIOUS
<1> USE DEF Exclusive
<1>0. pc \in [Goals -> Labels]
  BY DEF TypeOK
<1>1. ASSUME NEW g \in Goals, Execute(g) PROVE Exclusive'
  <2>1. PICK l \in Labels : pc' = [pc EXCEPT ![g] = l]
    BY <1>1, ThreadMoves
  <2>2. /\ pc[g] # "idle" /\ life' # "exited"
        /\ Finally(g) => pc'[g] = "idle" /\ goal_active' = FALSE
        /\ ~Finally(g) => pc'[g] # "idle" /\ goal_active' = goal_active
    BY <1>1, ThreadMoves DEF Finally, Alive
  <2> QED
    BY <1>0, <2>1, <2>2
<1>2. ASSUME NEW g \in Goals, NEW q \in Requests, GoalCallback(g, q) PROVE Exclusive'
  BY <1>0, <1>2 DEF GoalCallback, Goto, ok
<1>3. ASSUME NEW g \in Goals, CancelCallback(g) \/ ForgetGoal(g) PROVE Exclusive'
  BY <1>3 DEF CancelCallback, ForgetGoal
<1>4. CASE Stop \/ Exit \/ Restart
  BY <1>4 DEF Stop, Exit, Restart
<1>5. CASE NavEnds \/ UNCHANGED vars
  BY <1>5 DEF NavEnds, vars
<1> QED
  BY <1>1, <1>2, <1>3, <1>4, <1>5 DEF Next, Node

LEMMA StatusKept == TypeOK /\ Exclusive /\ StatusFits /\ [Next]_vars => StatusFits'
<1> SUFFICES ASSUME TypeOK, Exclusive, StatusFits, [Next]_vars PROVE StatusFits'
  OBVIOUS
<1> USE DEF StatusFits, LiveStatus, EndStatus
<1>0. /\ pc \in [Goals -> Labels]
      /\ goal \in [Goals -> LiveStatus \cup EndStatus \cup {"none", "rejected", "lost"}]
  BY DEF TypeOK
<1>1. ASSUME NEW g \in Goals, Execute(g) PROVE StatusFits'
  <2> USE DEF Goto, CancelRequested
  <2>1. CASE StartExecute(g) \/ WaitNav2(g) \/ Round(g)
    BY <1>0, <2>1 DEF StartExecute, WaitNav2, Round
  <2>2. CASE Waypoint(g) \/ EndRound(g) \/ GoToPose(g)
    BY <1>0, <2>2 DEF Waypoint, EndRound, GoToPose
  <2>3. CASE PollTask(g) \/ TimedOut(g) \/ Succeeded(g)
    BY <1>0, <2>3 DEF PollTask, TimedOut, Succeeded
  <2>4. CASE Failed(g) \/ WaitAtWaypoint(g)
    BY <1>0, <2>4 DEF Failed, WaitAtWaypoint
  <2>5. CASE CancelGoal(g) \/ Finish(g) \/ Raise(g)
    BY <1>0, <2>5 DEF CancelGoal, Finish, Raise
  <2>6. CASE Abort(g) \/ Finally(g)
    BY <1>0, <2>6 DEF Abort, Finally
  <2> QED
    BY <1>1, <2>1, <2>2, <2>3, <2>4, <2>5, <2>6 DEF Execute, Proceed
<1>2. ASSUME NEW g \in Goals, NEW q \in Requests, GoalCallback(g, q) PROVE StatusFits'
  BY <1>0, <1>2 DEF GoalCallback, Goto
<1>3. ASSUME NEW g \in Goals, CancelCallback(g) \/ ForgetGoal(g) PROVE StatusFits'
  BY <1>0, <1>3 DEF CancelCallback, ForgetGoal
<1>4. CASE Stop \/ Exit \/ Restart
  BY <1>0, <1>4 DEF Stop, Exit, Restart
<1>5. CASE NavEnds \/ UNCHANGED vars
  BY <1>0, <1>5 DEF NavEnds, vars
<1> QED
  BY <1>1, <1>2, <1>3, <1>4, <1>5 DEF Next, Node

-----------------------------------------------------------------------------
(***************************************************************************)
(* The rounds, the waypoints and their counters.                           *)
(***************************************************************************)

locals == <<plan, rounds_completed, success_count, failed_count, timed_out_count, waypoint_index>>

(* The locals change only in the hands of the one thread that has them.    *)
LEMMA LocalsAreItsOwn ==
    ASSUME TypeOK, Exclusive, [Next]_vars, NEW g \in Goals, pc[g] # "idle", pc'[g] # "idle",
           ~Execute(g)
    PROVE  pc'[g] = pc[g] /\ UNCHANGED locals
<1> USE DEF locals, counters
<1>1. ASSUME NEW h \in Goals, Execute(h) PROVE FALSE
  BY <1>1, ThreadMoves DEF Exclusive
<1>2. ASSUME NEW h \in Goals, NEW q \in Requests, GoalCallback(h, q)
      PROVE  pc'[g] = pc[g] /\ UNCHANGED locals
  BY <1>2 DEF GoalCallback, Exclusive, Goto
<1>3. ASSUME NEW h \in Goals, CancelCallback(h) \/ ForgetGoal(h)
      PROVE  pc'[g] = pc[g] /\ UNCHANGED locals
  BY <1>3 DEF CancelCallback, ForgetGoal
<1>4. CASE Stop \/ Exit \/ Restart
  BY <1>4 DEF Stop, Exit, Restart
<1>5. CASE NavEnds \/ UNCHANGED vars
  BY <1>5 DEF NavEnds, vars
<1> QED
  BY <1>1, <1>2, <1>3, <1>4, <1>5 DEF Next, Node

(* What Position, VisitsCountedOnce and AllDone say of one goal.           *)
Before == rounds_completed * plan.count + waypoint_index - 1
PositionOf(g) ==
    /\ pc[g] \in LoopLabels => waypoint_index \in 1 .. plan.count + 1
    /\ pc[g] = "round" => waypoint_index = 1
    /\ pc[g] \in LoopLabels \ {"round", "waypoint"} => waypoint_index <= plan.count
    /\ pc[g] = "round" /\ plan.rounds # Forever => rounds_completed <= plan.rounds
    /\ pc[g] \in LoopLabels \ {"round"} /\ plan.rounds # Forever => rounds_completed < plan.rounds
    /\ pc[g] \in LoopLabels \ {"wait"} => Visited = Before
    /\ pc[g] = "wait" => Visited = Before + 1
    /\ ok /\ pc[g] = "succeed" =>
         /\ plan.rounds # Forever /\ rounds_completed = plan.rounds
         /\ Visited = plan.rounds * plan.count

LEMMA PositionParts ==
    Position /\ VisitsCountedOnce /\ AllDone <=> \A g \in Goals : PositionOf(g)
BY DEF Position, VisitsCountedOnce, AllDone, PositionOf, Before

LEMMA NumbersTyped ==
    TypeOK => /\ rounds_completed \in Nat /\ success_count \in Nat /\ failed_count \in Nat
              /\ timed_out_count \in Nat /\ waypoint_index \in Nat
              /\ plan.count \in Nat /\ plan.rounds \in Nat
              /\ rounds_completed * plan.count \in Nat
BY DEF TypeOK, PlanType

LEMMA PositionStep ==
    ASSUME TypeOK, NEW g \in Goals, Execute(g), PositionOf(g), pc'[g] # "idle"
    PROVE  PositionOf(g)'
<1> USE NumbersTyped
<1> USE DEF PositionOf, Goto, LoopLabels, Visited, Before, ok, Forever
<1>0. pc \in [Goals -> Labels]
  BY DEF TypeOK
<1>1. CASE StartExecute(g)
  BY <1>0, <1>1 DEF StartExecute
<1>2. CASE WaitNav2(g)
  <2>1. /\ pc'[g] = "round" /\ waypoint_index' = 1 /\ rounds_completed' = 0 /\ success_count' = 0
        /\ failed_count' = 0 /\ timed_out_count' = 0 /\ plan' = plan
    BY <1>0, <1>2 DEF WaitNav2, ResetLocals
  <2> QED
    BY <2>1, OneRoundMore
<1>3. CASE Round(g)
  <2>1. UNCHANGED <<plan, counters, life>> /\ (pc'[g] = "succeed" /\ ok => RoundsDone)
        /\ pc'[g] \in {"cancel", "succeed", "waypoint"} /\ (pc'[g] = "waypoint" => ~RoundsDone)
        /\ pc[g] = "round"
    BY <1>0, <1>3 DEF Round
  <2>2. CASE pc'[g] = "succeed" /\ ok
    <3>1. plan.rounds # Forever /\ rounds_completed = plan.rounds
      BY <2>1, <2>2 DEF RoundsDone
    <3>2. Visited = plan.rounds * plan.count
      BY <2>1, <3>1
    <3> QED
      BY <2>1, <2>2, <3>1, <3>2 DEF counters
  <2>3. CASE ~(pc'[g] = "succeed" /\ ok)
    BY <2>1, <2>3 DEF RoundsDone, counters
  <2> QED
    BY <2>2, <2>3
<1>4. CASE Waypoint(g)
  BY <1>0, <1>4 DEF Waypoint, counters
<1>5. CASE EndRound(g)
  <2>1. /\ pc[g] = "waypoint" /\ pc'[g] = "round" /\ waypoint_index = plan.count + 1
        /\ waypoint_index' = 1 /\ plan' = plan
    BY <1>0, <1>5 DEF EndRound, ResetLocals
  <2>2. CASE plan.rounds = Forever /\ rounds_completed + 1 = RoundBound
    <3>1. rounds_completed' = 0 /\ success_count' = 0 /\ failed_count' = 0 /\ timed_out_count' = 0
      BY <1>5, <2>2 DEF EndRound, ResetLocals
    <3> QED
      BY <2>1, <2>2, <3>1, OneRoundMore
  <2>3. CASE ~(plan.rounds = Forever /\ rounds_completed + 1 = RoundBound)
    <3>1. rounds_completed' = rounds_completed + 1
          /\ UNCHANGED <<success_count, failed_count, timed_out_count>>
      BY <1>5, <2>3 DEF EndRound
    <3>2. (rounds_completed + 1) * plan.count = rounds_completed * plan.count + plan.count
      BY OneRoundMore
    <3> QED
      BY <2>1, <3>1, <3>2
  <2> QED
    BY <2>2, <2>3
<1>6. CASE GoToPose(g) \/ PollTask(g)
  BY <1>0, <1>6 DEF GoToPose, PollTask, counters
<1>7. CASE TimedOut(g)
  BY <1>0, <1>7 DEF TimedOut
<1>8. CASE Succeeded(g)
  <2>1. /\ pc[g] = "result" /\ success_count' = success_count + 1
        /\ UNCHANGED <<plan, rounds_completed, failed_count, timed_out_count>>
        /\ \/ pc'[g] = "wait" /\ waypoint_index' = waypoint_index
           \/ pc'[g] = "waypoint" /\ waypoint_index' = waypoint_index + 1
    BY <1>0, <1>8 DEF Succeeded
  <2> QED
    BY <2>1
<1>9. CASE Failed(g)
  BY <1>0, <1>9 DEF Failed
<1>10. CASE WaitAtWaypoint(g)
  BY <1>0, <1>10 DEF WaitAtWaypoint
<1>11. CASE CancelGoal(g) \/ Finish(g) \/ Abort(g) \/ Raise(g)
  BY <1>0, <1>11 DEF CancelGoal, Finish, Abort, Raise
<1>12. CASE Finally(g)
  BY <1>0, <1>12 DEF Finally
<1> QED
  BY <1>1, <1>2, <1>3, <1>4, <1>5, <1>6, <1>7, <1>8, <1>9, <1>10, <1>11, <1>12
     DEF Execute, Proceed

LEMMA PositionKept ==
    /\ TypeOK /\ Exclusive /\ Position /\ VisitsCountedOnce /\ AllDone
    /\ [Next]_vars
    => (Position /\ VisitsCountedOnce /\ AllDone)'
<1> SUFFICES ASSUME TypeOK, Exclusive, \A g \in Goals : PositionOf(g), [Next]_vars,
                    NEW g \in Goals
             PROVE  PositionOf(g)'
  BY PositionParts DEF Position, VisitsCountedOnce, AllDone, PositionOf, Before
<1>1. CASE pc'[g] = "idle"
  BY <1>1 DEF PositionOf, LoopLabels
<1>2. CASE pc[g] = "idle" /\ pc'[g] # "idle"
  <2>1. pc'[g] = "queued"
    <3>1. ASSUME NEW h \in Goals, Execute(h) PROVE FALSE
      BY <1>2, <3>1, ThreadMoves DEF TypeOK
    <3>2. ASSUME NEW h \in Goals, NEW q \in Requests, GoalCallback(h, q)
          PROVE  pc'[g] = "queued"
      BY <1>2, <3>2 DEF GoalCallback, Goto, TypeOK
    <3>3. ASSUME NEW h \in Goals, CancelCallback(h) \/ ForgetGoal(h) PROVE FALSE
      BY <1>2, <3>3 DEF CancelCallback, ForgetGoal
    <3> QED
      BY <1>2, <3>1, <3>2, <3>3 DEF Next, Node, Stop, Exit, Restart, NavEnds, vars
  <2> QED
    BY <2>1 DEF PositionOf, LoopLabels
<1>3. CASE Execute(g) /\ pc'[g] # "idle"
  BY <1>3, PositionStep
<1>4. CASE ~Execute(g) /\ pc[g] # "idle" /\ pc'[g] # "idle"
  <2>1. pc'[g] = pc[g] /\ UNCHANGED locals
    BY <1>4, LocalsAreItsOwn
  <2>2. ok' => ok
    BY <1>4 DEF Exclusive, Next, Node, Stop, Exit, Restart, NavEnds, vars, ok, Execute, Proceed,
                GoalCallback, CancelCallback, ForgetGoal, StartExecute, WaitNav2, Round, Waypoint,
                EndRound, GoToPose, PollTask, TimedOut, Succeeded, Failed, WaitAtWaypoint,
                CancelGoal, Finish, Abort, Finally, Raise
  <2> QED
    BY <2>1, <2>2 DEF PositionOf, locals, Visited, Before, LoopLabels
<1> QED
  BY <1>1, <1>2, <1>3, <1>4

-----------------------------------------------------------------------------
(***************************************************************************)
(* Arrivals and the navigation goals handed to the navigator.              *)
(***************************************************************************)

LEMMA CreditKept ==
    TypeOK /\ Exclusive /\ Credit /\ [Next]_vars => Credit'
<1> SUFFICES ASSUME TypeOK, Exclusive, Credit, [Next]_vars PROVE Credit'
  OBVIOUS
<1> USE DEF Credit, CountedWasReached, Goto
<1>0. /\ pc \in [Goals -> Labels]
      /\ success_count \in Nat /\ reached \in Nat /\ rejected \in Nat
  BY DEF TypeOK
<1>1. ASSUME NEW g \in Goals, Execute(g) PROVE Credit'
  <2>0. \A h \in Goals : h # g => pc[h] = "idle" /\ pc'[h] = "idle"
    <3>1. PICK l \in Labels : pc' = [pc EXCEPT ![g] = l] /\ pc[g] # "idle"
      BY <1>1, ThreadMoves
    <3> QED
      BY <1>0, <3>1 DEF Exclusive
  <2>1. CASE StartExecute(g) \/ WaitNav2(g) \/ Round(g) \/ Waypoint(g)
    BY <1>0, <2>0, <2>1 DEF StartExecute, WaitNav2, Round, Waypoint, ResetLocals, counters, history
  <2>2. CASE EndRound(g)
    BY <1>0, <2>0, <2>2 DEF EndRound, ResetLocals, history
  <2>3. CASE GoToPose(g)
    BY <1>0, <2>0, <2>3 DEF GoToPose, counters
  <2>4. CASE PollTask(g)
    BY <1>0, <2>0, <2>4 DEF PollTask, counters, history, CancelTask
  <2>5. CASE TimedOut(g) \/ Succeeded(g) \/ Failed(g)
    BY <1>0, <2>0, <2>5 DEF TimedOut, Succeeded, Failed, history
  <2>6. CASE WaitAtWaypoint(g) \/ CancelGoal(g) \/ Finish(g)
    BY <1>0, <2>0, <2>6 DEF WaitAtWaypoint, CancelGoal, Finish, counters, history
  <2>7. CASE Abort(g) \/ Finally(g) \/ Raise(g)
    BY <1>0, <2>0, <2>7 DEF Abort, Finally, Raise, ResetLocals, counters, history
  <2> QED
    BY <1>1, <2>1, <2>2, <2>3, <2>4, <2>5, <2>6, <2>7 DEF Execute, Proceed
<1>2. ASSUME NEW g \in Goals, NEW q \in Requests, GoalCallback(g, q) PROVE Credit'
  BY <1>0, <1>2 DEF GoalCallback, counters, history
<1>3. ASSUME NEW g \in Goals, CancelCallback(g) \/ ForgetGoal(g) PROVE Credit'
  BY <1>0, <1>3 DEF CancelCallback, ForgetGoal, counters, history
<1>4. CASE Stop \/ Exit \/ Restart
  BY <1>0, <1>4 DEF Stop, Exit, Restart, counters, history
<1>5. CASE NavEnds
  BY <1>0, <1>5 DEF NavEnds, counters
<1>6. CASE UNCHANGED vars
  BY <1>0, <1>6 DEF vars, counters, history
<1> QED
  BY <1>1, <1>2, <1>3, <1>4, <1>5, <1>6 DEF Next, Node

LEMMA HandedKept ==
    TypeOK /\ Exclusive /\ Handed /\ [Next]_vars => Handed'
<1> SUFFICES ASSUME TypeOK, Exclusive, Handed, [Next]_vars PROVE Handed'
  OBVIOUS
<1> USE DEF Handed, Goto, ok
<1>0. pc \in [Goals -> Labels]
  BY DEF TypeOK
<1>1. ASSUME NEW g \in Goals, Execute(g) PROVE Handed'
  <2>0. \A h \in Goals : h # g => pc[h] = "idle" /\ pc'[h] = "idle"
    <3>1. PICK l \in Labels : pc' = [pc EXCEPT ![g] = l] /\ pc[g] # "idle"
      BY <1>1, ThreadMoves
    <3> QED
      BY <1>0, <3>1 DEF Exclusive
  <2>1. CASE StartExecute(g) \/ WaitNav2(g) \/ Round(g) \/ Waypoint(g)
    BY <1>0, <2>0, <2>1 DEF StartExecute, WaitNav2, Round, Waypoint
  <2>2. CASE EndRound(g) \/ GoToPose(g)
    BY <1>0, <2>0, <2>2 DEF EndRound, GoToPose
  <2>3. CASE PollTask(g)
    BY <1>0, <2>0, <2>3 DEF PollTask, CancelTask, NavDone
  <2>4. CASE TimedOut(g) \/ Succeeded(g) \/ Failed(g)
    BY <1>0, <2>0, <2>4 DEF TimedOut, Succeeded, Failed
  <2>5. CASE WaitAtWaypoint(g) \/ CancelGoal(g) \/ Finish(g)
    BY <1>0, <2>0, <2>5 DEF WaitAtWaypoint, CancelGoal, Finish, CancelTask
  <2>6. CASE Abort(g) \/ Finally(g) \/ Raise(g)
    BY <1>0, <2>0, <2>6 DEF Abort, Finally, Raise, CancelTask
  <2> QED
    BY <1>1, <2>1, <2>2, <2>3, <2>4, <2>5, <2>6 DEF Execute, Proceed
<1>2. ASSUME NEW g \in Goals, NEW q \in Requests, GoalCallback(g, q) PROVE Handed'
  BY <1>0, <1>2 DEF GoalCallback
<1>3. ASSUME NEW g \in Goals, CancelCallback(g) \/ ForgetGoal(g) PROVE Handed'
  BY <1>3 DEF CancelCallback, ForgetGoal
<1>4. CASE Stop \/ Exit
  BY <1>4 DEF Stop, Exit
<1>5. CASE Restart
  BY <1>5 DEF Restart, Exclusive
<1>6. CASE NavEnds \/ UNCHANGED vars
  BY <1>6 DEF NavEnds, vars
<1> QED
  BY <1>1, <1>2, <1>3, <1>4, <1>5, <1>6 DEF Next, Node

-----------------------------------------------------------------------------
(***************************************************************************)
(* The theorems.                                                           *)
(***************************************************************************)

LEMMA InitInv == Init => Inv
<1> SUFFICES ASSUME Init PROVE Inv
  OBVIOUS
<1>1. \A g \in Goals : pc[g] = "idle" /\ goal[g] = "none"
  BY DEF Init
<1>2. TypeOK
  BY InitTyped
<1>3. Exclusive /\ StatusFits
  BY <1>1 DEF Init, Exclusive, StatusFits, LiveStatus
<1>4. Position /\ VisitsCountedOnce /\ AllDone
  BY <1>1 DEF Position, VisitsCountedOnce, AllDone, LoopLabels
<1>5. Credit /\ Handed
  BY <1>1 DEF Init, Credit, CountedWasReached, Handed
<1> QED
  BY <1>2, <1>3, <1>4, <1>5 DEF Inv

LEMMA Invariance == Spec => []Inv
<1>1. Inv /\ [Next]_vars => Inv'
  BY NextTyped, ExclusiveKept, StatusKept, PositionKept, CreditKept, HandedKept DEF Inv
<1> QED
  BY InitInv, <1>1, PTL DEF Spec

(* Every variable keeps its type (TypeOK).                                 *)
THEOREM PatrolTyped == Spec => []TypeOK
BY Invariance, PTL DEF Inv

(* One patrol at a time, and its slot is freed on every way out            *)
(* (OneGoalInFlight): exceptions, cancellations and signals included.      *)
THEOREM OnePatrol == Spec => []OneGoalInFlight
<1>1. Inv => OneGoalInFlight
  BY DEF Inv, Exclusive, StatusFits, OneGoalInFlight
<1> QED
  BY Invariance, <1>1, PTL

(* The three counters count every visit once (VisitsCountedOnce).          *)
THEOREM EveryVisitCounted == Spec => []VisitsCountedOnce
BY Invariance, PTL DEF Inv

(* No arrival is counted but one that was, or one that a rejected goal     *)
(* inherited (CountedWasReached).                                          *)
THEOREM ArrivalsAreReal == Spec => []CountedWasReached
BY Invariance, PTL DEF Inv, Credit

(* A patrol that succeeds has visited every waypoint of every round        *)
(* (SuccessMeansAllRounds).                                                *)
THEOREM SuccessIsComplete == Spec => SuccessMeansAllRounds
<1>1. ASSUME Inv, [Next]_vars, NEW g \in Goals, ok, goal[g] # "succeeded", goal'[g] = "succeeded"
      PROVE  pc[g] = "succeed"
  <2> USE <1>1
  <2> USE DEF TypeOK, Inv
  <2>1. ASSUME NEW h \in Goals, Execute(h) PROVE pc[g] = "succeed"
    BY <2>1 DEF Execute, Proceed, StartExecute, WaitNav2, Round, Waypoint, EndRound, GoToPose,
                PollTask, TimedOut, Succeeded, Failed, WaitAtWaypoint, CancelGoal, Finish, Abort,
                Finally, Raise, Goto
  <2>2. ASSUME NEW h \in Goals, NEW q \in Requests, GoalCallback(h, q) PROVE FALSE
    BY <2>2 DEF GoalCallback
  <2>3. ASSUME NEW h \in Goals, CancelCallback(h) \/ ForgetGoal(h) PROVE FALSE
    BY <2>3 DEF CancelCallback, ForgetGoal
  <2> QED
    BY <2>1, <2>2, <2>3 DEF Next, Node, Stop, Exit, Restart, NavEnds, vars, LiveStatus
<1>2. Inv /\ [Next]_vars => [\A g \in Goals :
         ok /\ goal[g] # "succeeded" /\ goal'[g] = "succeeded" =>
           /\ plan.rounds # Forever /\ rounds_completed = plan.rounds
           /\ Visited = plan.rounds * plan.count]_vars
  BY <1>1 DEF Inv, AllDone
<1> QED
  BY Invariance, <1>2, PTL DEF Spec, SuccessMeansAllRounds

(* A patrol that ends leaves no navigation goal driving                    *)
(* (NoAbandonedNavigation).                                                *)
THEOREM NothingAbandoned == Spec => NoAbandonedNavigation
<1>1. ASSUME Inv, [Next]_vars, ok', nav' = "active", Watched PROVE Watched'
  <2> USE <1>1
  <2>0. PICK g \in Goals : pc[g] \notin {"idle", "queued", "release"}
    BY DEF Watched
  <2>1. CASE Execute(g)
    <3>1. /\ pc'[g] \notin {"idle", "queued"} /\ ok
      BY <2>0, <2>1, ThreadMoves DEF Inv, Finally, Goto, ok
    <3>2. pc'[g] # "release"
      BY <3>1, HandedKept DEF Inv, Handed, ok
    <3> QED
      BY <3>1, <3>2 DEF Watched
  <2>2. CASE ~Execute(g) /\ pc'[g] # "idle"
    BY <2>0, <2>2, LocalsAreItsOwn DEF Inv, Watched
  <2>3. CASE ~Execute(g) /\ pc'[g] = "idle"
    <3>1. ASSUME NEW h \in Goals, Execute(h) PROVE FALSE
      BY <2>0, <2>3, <3>1, ThreadMoves DEF Inv, Exclusive
    <3>2. ASSUME NEW h \in Goals, NEW q \in Requests, GoalCallback(h, q) PROVE FALSE
      BY <2>0, <2>3, <3>2 DEF Inv, TypeOK, GoalCallback, Goto
    <3>3. ASSUME NEW h \in Goals, CancelCallback(h) \/ ForgetGoal(h) PROVE FALSE
      BY <2>0, <2>3, <3>3 DEF CancelCallback, ForgetGoal
    <3> QED
      BY <2>0, <2>3, <3>1, <3>2, <3>3 DEF Next, Node, Stop, Exit, Restart, NavEnds, vars
  <2> QED
    BY <2>1, <2>2, <2>3
<1>2. Inv /\ [Next]_vars => [ok' /\ nav' = "active" /\ Watched => Watched']_vars
  BY <1>1
<1> QED
  BY Invariance, <1>2, PTL DEF Spec, NoAbandonedNavigation

-----------------------------------------------------------------------------
(***************************************************************************)
(* The patrol node implements the action server.                           *)
(***************************************************************************)

LEMMA ServerInit == Init => Server!Init
BY DEF Init, Server!Init

(* A thread's step ends its goal, releases the slot, or leaves both alone. *)
LEMMA ThreadServes ==
    ASSUME Inv, NEW g \in Goals, Execute(g)
    PROVE  [Server!Next]_(Server!vars)
<1> USE DEF Server!vars, Server!Set, Goto
<1> DEFINE Slot == {h \in Goals : pc[h] # "idle"}
<1>0. /\ pc \in [Goals -> Labels] /\ pc[g] # "idle" /\ Slot = {g}
      /\ goal \in [Goals -> LiveStatus \cup EndStatus \cup {"none", "rejected", "lost"}]
  BY ThreadMoves DEF Inv, TypeOK, Exclusive
<1>1. ~Finally(g) => Slot' = Slot
  <2>1. PICK l \in Labels : pc' = [pc EXCEPT ![g] = l]
    BY ThreadMoves DEF Inv
  <2>2. ~Finally(g) => pc'[g] # "idle"
    BY ThreadMoves DEF Inv
  <2> QED
    BY <1>0, <2>1, <2>2
<1>2. CASE StartExecute(g)
  <2>1. CASE goal[g] = "accepted"
    BY <1>0, <1>1, <1>2, <2>1 DEF StartExecute, Finally, Server!Start, Server!Next
  <2>2. CASE goal[g] # "accepted"
    <3>1. goal' = goal /\ ~Finally(g)
      BY <1>0, <1>2, <2>2 DEF StartExecute, Finally
    <3> QED
      BY <1>1, <3>1
  <2> QED
    BY <2>1, <2>2
<1>3. CASE Finish(g) \/ Abort(g) \/ (CancelGoal(g) /\ goal' # goal)
  <2>1. goal[g] \in {"executing", "canceling"} /\ ~Finally(g)
    BY <1>0, <1>3 DEF Finish, Abort, CancelGoal, Finally, Inv, StatusFits
  <2>2. \E status \in {"succeeded", "canceled", "aborted"} :
          (status = "canceled" => goal[g] = "canceling") /\ goal' = [goal EXCEPT ![g] = status]
    BY <1>3 DEF Finish, Abort, CancelGoal, CancelRequested
  <2> QED
    BY <1>0, <1>1, <2>1, <2>2 DEF Server!End, Server!Next, Server!Live, Server!Terminal
<1>4. CASE Finally(g)
  <2>1. goal[g] \notin LiveStatus /\ goal' = [goal EXCEPT ![g] = goal[g]] /\ Slot' = {}
    BY <1>0, <1>4 DEF Finally, Inv, StatusFits, EndStatus, LiveStatus
  <2> QED
    BY <1>0, <2>1 DEF Server!Release, Server!Next, Server!Live, LiveStatus
<1>5. CASE ~(StartExecute(g) \/ Finish(g) \/ Abort(g) \/ (CancelGoal(g) /\ goal' # goal) \/ Finally(g))
  <2>1. goal' = goal
    BY <1>5 DEF Execute, Proceed, WaitNav2, Round, Waypoint, EndRound, GoToPose, PollTask,
                TimedOut, Succeeded, Failed, WaitAtWaypoint, CancelGoal, Raise
  <2> QED
    BY <1>1, <1>5, <2>1
<1> QED
  BY <1>2, <1>3, <1>4, <1>5

LEMMA ServerStep == Inv /\ [Next]_vars => [Server!Next]_(Server!vars)
<1> SUFFICES ASSUME Inv, [Next]_vars PROVE [Server!Next]_(Server!vars)
  OBVIOUS
<1> USE DEF Server!vars, Server!Set
<1>0. /\ pc \in [Goals -> Labels]
      /\ goal \in [Goals -> LiveStatus \cup EndStatus \cup {"none", "rejected", "lost"}]
  BY DEF Inv, TypeOK
<1>1. ASSUME NEW g \in Goals, Execute(g) PROVE [Server!Next]_(Server!vars)
  BY <1>1, ThreadServes
<1>2. ASSUME NEW g \in Goals, NEW q \in Requests, GoalCallback(g, q)
      PROVE  [Server!Next]_(Server!vars)
  <2>1. CASE goal' = [goal EXCEPT ![g] = "rejected"] /\ pc' = pc
    BY <1>2, <2>1 DEF GoalCallback, Server!Reject, Server!Next
  <2>2. CASE ~goal_active /\ goal' = [goal EXCEPT ![g] = "accepted"] /\ Goto(g, "idle", "queued")
    <3>1. {h \in Goals : pc[h] # "idle"} = {} /\ {h \in Goals : pc'[h] # "idle"} = {g}
      BY <1>0, <2>2 DEF Goto, Inv, Exclusive
    <3> QED
      BY <1>2, <2>2, <3>1 DEF GoalCallback, Server!Accept, Server!Next
  <2> QED
    BY <1>2, <2>1, <2>2 DEF GoalCallback
<1>3. ASSUME NEW g \in Goals, CancelCallback(g) PROVE [Server!Next]_(Server!vars)
  BY <1>3 DEF CancelCallback, Server!Cancel, Server!Next
<1>4. ASSUME NEW g \in Goals, ForgetGoal(g) PROVE [Server!Next]_(Server!vars)
  BY <1>0, <1>4 DEF ForgetGoal, Server!Forget, Server!Next, Server!Terminal, LiveStatus, EndStatus
<1>5. CASE Exit
  BY <1>5 DEF Exit, Server!Die, Server!Next, Server!Live, LiveStatus
<1>6. CASE Stop \/ Restart \/ NavEnds \/ UNCHANGED vars
  BY <1>6 DEF Stop, Restart, NavEnds, vars
<1> QED
  BY <1>1, <1>2, <1>3, <1>4, <1>5, <1>6 DEF Next, Node

(* To its clients /patrol is the single-slot action server                 *)
(* (ServesOneGoal).                                                        *)
THEOREM PatrolImplementsServer == Spec => ServesOneGoal
BY ServerInit, ServerStep, Invariance, PTL DEF Spec, ServesOneGoal, Server!Spec
=============================================================================
