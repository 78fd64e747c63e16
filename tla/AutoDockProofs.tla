--------------------------- MODULE AutoDockProofs ---------------------------
(***************************************************************************)
(* What holds of the docking node for every set of goals, every limit of   *)
(* the backing-up and every combination of faults, checked by TLAPS.       *)
(*                                                                         *)
(* The inductive invariant Inv is the type invariant together with         *)
(*   - Exclusive: whoever is in the docking sequence holds is_docking and  *)
(*     is alone there (OneSequence by itself is not inductive: it does not *)
(*     say that the winner of the race holds the flag the loser tests);    *)
(*   - BelowLimit: a reverse command is prepared only below the limit;     *)
(*   - DockingFlagTruth, and Slot: OneGoalInFlight, extended to dead       *)
(*     processes and to the status of the goal that a thread works on.     *)
(* Nav2Held carries the theorems about Nav2, which need lifecycle calls    *)
(* that do not fail.                                                       *)
(***************************************************************************)
EXTENDS AutoDock, TLAPS

Label   == MonitorLabels \cup GoalLabels \cup SequenceLabels
Outcome == {"none", "succeeded", "canceled", "failed"}

(* Who is in the sequence holds is_docking, and is alone there.            *)
Exclusive ==
    /\ \A r \in Runners : InSequence(r) => is_docking
    /\ OneSequence

(* A reverse command is prepared only below the limit.                     *)
BelowLimit == \A r \in Runners : pc[r] = "reverse" => ticks < MaxTicks

(* A process that is not alive has no runner at work and no live goal.     *)
Dead ==
    ~Alive =>
      /\ pc[Monitor] = "dead"
      /\ \A g \in Goals : pc[g] = "idle" /\ goal[g] \notin LiveStatus

(* A goal's thread works on a live goal until it has reported its end.     *)
Working == \A g \in Goals : pc[g] \notin {"idle", "release"} => goal[g] \in LiveStatus

Slot == OneGoalInFlight /\ Dead /\ Working

Inv == TypeOK /\ Exclusive /\ BelowLimit /\ DockingFlagTruth /\ Slot

LEMMA RunnerFacts ==
    /\ Monitor \in Runners /\ Goals \subseteq Runners
    /\ \A r \in Runners : r \in Goals <=> r # Monitor
BY RunnerAssumption DEF Runners

-----------------------------------------------------------------------------
(***************************************************************************)
(* Types.                                                                  *)
(***************************************************************************)

LEMMA InitTyped == Init => TypeOK
<1> SUFFICES ASSUME Init PROVE TypeOK
  OBVIOUS
<1>1. pc \in [Runners -> Label]
  BY DEF Init, Label, MonitorLabels, GoalLabels
<1>2. goal \in [Goals -> GoalStatus] /\ outcome \in [Runners -> Outcome]
  BY DEF Init, GoalStatus, Outcome
<1>3. ticks \in 0..MaxTicks
  BY TickAssumption DEF Init
<1>4. nav \in NavStatus
  BY DEF Init, NavStatus
<1> QED
  BY <1>1, <1>2, <1>3, <1>4 DEF Init, TypeOK, Label, Outcome

LEMMA LabelsTyped == TypeOK /\ [Next]_vars => pc' \in [Runners -> Label]
<1> SUFFICES ASSUME TypeOK, [Next]_vars PROVE pc' \in [Runners -> Label]
  OBVIOUS
<1> USE RunnerFacts
<1> USE DEF Label, Goto, Return, MonitorLabels, GoalLabels, SequenceLabels, ApproachLabels,
            DeactivateLabels, BackupLabels, RestoreLabels, threadVars
<1>1. pc \in [Runners -> Label]
  BY DEF TypeOK
<1>2. CASE BatteryValues \/ BatteryFlag \/ NavEnds \/ UNCHANGED vars
  BY <1>1, <1>2 DEF BatteryValues, BatteryFlag, NavEnds, vars
<1>3. ASSUME NEW g \in Goals, Action(g) \/ ExecuteAutoDock(g) PROVE pc' \in [Runners -> Label]
  BY <1>1, <1>3 DEF Action, GoalCallback, CancelCallback, ForgetGoal, ExecuteAutoDock,
                    StartExecute, ExecuteReport, ExecuteFinally
<1>4. CASE MonitorLoop
  BY <1>1, <1>4, ZenonT(30) DEF MonitorLoop, Boot, Poll, TestEdge, LatchCharging, TestLowBattery,
                    MainFinally, HandleStartCharging
<1>5. ASSUME NEW r \in Runners, Sequence(r) PROVE pc' \in [Runners -> Label]
  BY <1>1, <1>5, ZenonT(30) DEF Sequence, Proceed, Enter, Decide, GoToPrep, WaitPrep, Stabilize,
                    DeactivateNav2, BackupTest, Reverse, FullStop, ActivateNav2, ClearDocking, Raise,
                    AfterSequence
<1>6. CASE Interrupt
  BY <1>1, <1>6 DEF Interrupt, Unwind
<1>7. CASE Exit \/ Kill \/ Restart
  BY <1>1, <1>7 DEF Exit, Kill, EndProcess, Restart, FreshProcess
<1> QED
  BY <1>2, <1>3, <1>4, <1>5, <1>6, <1>7 DEF Next, Node

LEMMA StatusTyped ==
    TypeOK /\ [Next]_vars => goal' \in [Goals -> GoalStatus] /\ outcome' \in [Runners -> Outcome]
<1> DEFINE P == goal \in [Goals -> GoalStatus] /\ outcome \in [Runners -> Outcome]
<1> SUFFICES ASSUME TypeOK, [Next]_vars PROVE P'
  OBVIOUS
<1> USE RunnerFacts
<1> USE DEF Outcome, GoalStatus, LiveStatus, Return, threadVars
<1>1. P
  BY DEF TypeOK
<1>2. CASE BatteryValues \/ BatteryFlag \/ NavEnds \/ UNCHANGED vars
  BY <1>1, <1>2 DEF BatteryValues, BatteryFlag, NavEnds, vars
<1>3. ASSUME NEW g \in Goals, Action(g) \/ ExecuteAutoDock(g) PROVE P'
  BY <1>1, <1>3 DEF Action, GoalCallback, CancelCallback, ForgetGoal, ExecuteAutoDock,
                    StartExecute, ExecuteReport, ExecuteFinally
<1>4. CASE MonitorLoop
  BY <1>1, <1>4 DEF MonitorLoop, Boot, Poll, TestEdge, LatchCharging, TestLowBattery,
                    MainFinally, HandleStartCharging
<1>5. ASSUME NEW r \in Runners, Sequence(r) PROVE P'
  BY <1>1, <1>5 DEF Sequence, Proceed, Enter, Decide, GoToPrep, WaitPrep, Stabilize, DeactivateNav2,
                    BackupTest, Reverse, FullStop, ActivateNav2, ClearDocking, Raise
<1>6. CASE Interrupt \/ Exit \/ Kill \/ Restart
  BY <1>1, <1>6 DEF Interrupt, Exit, Kill, EndProcess, Restart, FreshProcess
<1> QED
  BY <1>2, <1>3, <1>4, <1>5, <1>6 DEF Next, Node

(* Only a reverse command counts an iteration, and it finds the counter    *)
(* below the limit.                                                        *)
LEMMA TicksTyped == TypeOK /\ BelowLimit /\ [Next]_vars => ticks' \in 0..MaxTicks
<1> SUFFICES ASSUME TypeOK, BelowLimit, [Next]_vars PROVE ticks' \in 0..MaxTicks
  OBVIOUS
<1> USE TickAssumption
<1> USE DEF threadVars
<1>1. ticks \in 0..MaxTicks
  BY DEF TypeOK
<1>2. ASSUME NEW r \in Runners, Reverse(r) PROVE ticks' \in 0..MaxTicks
  BY <1>1, <1>2 DEF Reverse, Goto, BelowLimit
<1>3. ASSUME NEW r \in Runners, Sequence(r), ~Reverse(r) PROVE ticks' \in {0, ticks}
  BY <1>3 DEF Sequence, Proceed, Enter, Decide, GoToPrep, WaitPrep, Stabilize, DeactivateNav2,
              BackupTest, FullStop, ActivateNav2, ClearDocking, Raise
<1>4. CASE BatteryValues \/ BatteryFlag \/ NavEnds \/ UNCHANGED vars \/ MonitorLoop
  BY <1>1, <1>4 DEF BatteryValues, BatteryFlag, NavEnds, vars, MonitorLoop, Boot, Poll, TestEdge,
                    LatchCharging, TestLowBattery, MainFinally, HandleStartCharging
<1>5. ASSUME NEW g \in Goals, Action(g) \/ ExecuteAutoDock(g) PROVE ticks' = ticks
  BY <1>5 DEF Action, GoalCallback, CancelCallback, ForgetGoal, ExecuteAutoDock,
              StartExecute, ExecuteReport, ExecuteFinally
<1>6. CASE Interrupt \/ Exit \/ Kill \/ Restart
  BY <1>1, <1>6 DEF Interrupt, Exit, Kill, EndProcess, Restart, FreshProcess
<1> QED
  BY <1>1, <1>2, <1>3, <1>4, <1>5, <1>6 DEF Next, Node

LEMMA StepTyped == TypeOK /\ BelowLimit /\ [Next]_vars => TypeOK'
<1> SUFFICES ASSUME TypeOK, BelowLimit, [Next]_vars PROVE TypeOK'
  OBVIOUS
<1> DEFINE N == /\ life \in {"running", "stopping", "exited", "killed"}
                /\ nav \in NavStatus /\ dock_file \in {"whole", "partial"}
           S == /\ low_battery \in BOOLEAN /\ charge_current \in BOOLEAN
                /\ is_charging \in BOOLEAN /\ was_charging \in BOOLEAN
           F == is_docking \in BOOLEAN /\ action_goal_active \in BOOLEAN
           W == /\ reversing \in BOOLEAN /\ controller \in BOOLEAN /\ smoother \in BOOLEAN
                /\ left_off \in BOOLEAN
<1> USE DEF batteryVars, flagVars, threadVars, nav2Vars, legacyVars, NavStatus
<1>1. N /\ S /\ F /\ W
  BY DEF TypeOK
<1>2. ASSUME BatteryValues \/ BatteryFlag \/ NavEnds \/ UNCHANGED vars PROVE N' /\ S' /\ F' /\ W'
  BY <1>1, <1>2 DEF BatteryValues, BatteryFlag, NavEnds, vars
<1>3. ASSUME NEW g \in Goals, Action(g) \/ ExecuteAutoDock(g) PROVE N' /\ S' /\ F' /\ W'
  <2> USE <1>1, <1>3 DEF Action, GoalCallback, CancelCallback, ForgetGoal, ExecuteAutoDock,
                           StartExecute, ExecuteReport, ExecuteFinally
  <2>1. N'
    OBVIOUS
  <2>2. S'
    OBVIOUS
  <2>3. F'
    OBVIOUS
  <2>4. W'
    OBVIOUS
  <2> QED
    BY <2>1, <2>2, <2>3, <2>4
<1>4. ASSUME MonitorLoop PROVE N' /\ S' /\ F' /\ W'
  <2> USE <1>1, <1>4 DEF MonitorLoop, Boot, Poll, TestEdge, LatchCharging, TestLowBattery,
                           MainFinally, HandleStartCharging, LifecycleSetState
  <2>1. N'
    OBVIOUS
  <2>2. S'
    OBVIOUS
  <2>3. F'
    OBVIOUS
  <2>4. W'
    OBVIOUS
  <2> QED
    BY <2>1, <2>2, <2>3, <2>4
<1>5. ASSUME NEW r \in Runners, Sequence(r) PROVE N' /\ S' /\ F' /\ W'
  <2> USE <1>1, <1>5 DEF Sequence, Proceed, Enter, Decide, GoToPrep, WaitPrep, Stabilize, DeactivateNav2,
                           BackupTest, Reverse, FullStop, ActivateNav2, ClearDocking, Raise,
                           LifecycleSetState
  <2>1. N'
    OBVIOUS
  <2>2. S'
    OBVIOUS
  <2>3. F'
    OBVIOUS
  <2>4. W'
    OBVIOUS
  <2> QED
    BY <2>1, <2>2, <2>3, <2>4
<1>6. ASSUME Interrupt \/ Exit \/ Kill \/ Restart PROVE N' /\ S' /\ F' /\ W'
  <2> USE <1>1, <1>6 DEF Interrupt, Exit, Kill, EndProcess, Restart, FreshProcess
  <2>1. N'
    OBVIOUS
  <2>2. S'
    OBVIOUS
  <2>3. F'
    OBVIOUS
  <2>4. W'
    OBVIOUS
  <2> QED
    BY <2>1, <2>2, <2>3, <2>4
<1>7. N' /\ S' /\ F' /\ W'
  BY <1>2, <1>3, <1>4, <1>5, <1>6 DEF Next, Node
<1> QED
  BY <1>7, LabelsTyped, StatusTyped, TicksTyped DEF TypeOK, Label, Outcome

-----------------------------------------------------------------------------
(***************************************************************************)
(* How the steps move the runners.                                         *)
(***************************************************************************)

(* A step of the sequence moves one runner, which enters the sequence and  *)
(* takes the flag, stays in it, leaves it and drops the flag, or was       *)
(* turned away; a goal's thread it moves neither starts nor ends there.    *)
LEMMA SequenceMoves ==
  ASSUME TypeOK, NEW r \in Runners, Sequence(r)
  PROVE  /\ Alive /\ UNCHANGED <<life, goal, action_goal_active>>
         /\ \A s \in Runners \ {r} : pc'[s] = pc[s]
         /\ \/ InSequence(r) /\ InSequence(r)' /\ UNCHANGED is_docking
            \/ ~InSequence(r) /\ InSequence(r)' /\ ~is_docking /\ is_docking'
            \/ InSequence(r) /\ ~InSequence(r)' /\ ~is_docking'
            \/ ~InSequence(r) /\ ~InSequence(r)' /\ UNCHANGED is_docking
         /\ pc[r] \notin {"idle", "release"}
         /\ r # Monitor => pc'[r] # "idle"
<1> USE DEF Goto, Return, InSequence, SequenceLabels, ApproachLabels, DeactivateLabels,
            BackupLabels, RestoreLabels, batteryVars, flagVars, threadVars, nav2Vars, legacyVars
<1>1. pc \in [Runners -> Label]
  BY DEF TypeOK, Label
<1>2. CASE Enter(r)
  BY <1>1, <1>2 DEF Enter, AfterSequence
<1>3. CASE ClearDocking(r)
  BY <1>1, <1>3 DEF ClearDocking, AfterSequence
<1>4. CASE Decide(r) \/ GoToPrep(r) \/ WaitPrep(r) \/ Stabilize(r)
  BY <1>1, <1>4, SMTT(30) DEF Decide, GoToPrep, WaitPrep, Stabilize, Alive, ok
<1>5. CASE DeactivateNav2(r) \/ ActivateNav2(r) \/ FullStop(r) \/ Reverse(r)
  BY <1>1, <1>5 DEF DeactivateNav2, ActivateNav2, FullStop, Reverse
<1>6. CASE BackupTest(r) \/ Raise(r)
  BY <1>1, <1>6 DEF BackupTest, Raise, MayRaise, Alive, ok
<1> QED
  BY <1>2, <1>3, <1>4, <1>5, <1>6, Sequence(r) DEF Sequence, Proceed

(* The monitor's own steps keep it out of the sequence and touch no flag.  *)
LEMMA MonitorMoves ==
  ASSUME TypeOK, MonitorLoop
  PROVE  /\ Alive /\ UNCHANGED <<life, goal, action_goal_active, is_docking>>
         /\ \A s \in Runners \ {Monitor} : pc'[s] = pc[s]
         /\ ~InSequence(Monitor) /\ ~InSequence(Monitor)'
<1> USE DEF Goto, InSequence, SequenceLabels, ApproachLabels, DeactivateLabels,
            BackupLabels, RestoreLabels, flagVars
<1>1. pc \in [Runners -> Label] /\ Monitor \in Runners
  BY RunnerFacts DEF TypeOK, Label
<1>2. CASE Boot \/ Poll \/ TestEdge \/ LatchCharging \/ TestLowBattery \/ MainFinally
  BY <1>1, <1>2 DEF Boot, Poll, TestEdge, LatchCharging, TestLowBattery, MainFinally
<1>3. CASE \/ HandleStartCharging("bootSettle", "bootWrite", "poll")
           \/ HandleStartCharging("chargeSettle", "chargeWrite", "latch")
  BY <1>1, <1>3 DEF HandleStartCharging
<1> QED
  BY <1>2, <1>3, MonitorLoop DEF MonitorLoop

(* The action server's steps concern one goal outside the sequence.        *)
LEMMA ServerMoves ==
  ASSUME TypeOK, NEW g \in Goals, Action(g) \/ ExecuteAutoDock(g)
  PROVE  /\ UNCHANGED <<life, is_docking>>
         /\ \A s \in Runners \ {g} : pc'[s] = pc[s]
         /\ \A h \in Goals \ {g} : goal'[h] = goal[h]
         /\ InSequence(g)' <=> InSequence(g)
<1> USE RunnerFacts
<1> USE DEF Goto, InSequence, SequenceLabels, ApproachLabels, DeactivateLabels,
            BackupLabels, RestoreLabels, flagVars, threadVars
<1>1. pc \in [Runners -> Label] /\ goal \in [Goals -> GoalStatus]
  BY DEF TypeOK, Label
<1>2. CASE GoalCallback(g) \/ CancelCallback(g) \/ ForgetGoal(g)
  BY <1>1, <1>2 DEF GoalCallback, CancelCallback, ForgetGoal
<1>3. CASE StartExecute(g) \/ ExecuteReport(g) \/ ExecuteFinally(g)
  BY <1>1, <1>3 DEF StartExecute, ExecuteReport, ExecuteFinally
<1> QED
  BY <1>2, <1>3, Action(g) \/ ExecuteAutoDock(g) DEF Action, ExecuteAutoDock

(* A signal can only move the monitor, and not into the sequence.          *)
LEMMA InterruptMoves ==
  ASSUME TypeOK, Interrupt
  PROVE  /\ ok /\ life' = "stopping" /\ UNCHANGED <<goal, action_goal_active, is_docking>>
         /\ \A s \in Runners \ {Monitor} : pc'[s] = pc[s]
         /\ InSequence(Monitor)' => InSequence(Monitor)
         /\ pc'[Monitor] # "reverse" \/ UNCHANGED <<pc, ticks>>
<1>1. pc \in [Runners -> Label] /\ Monitor \in Runners
  BY RunnerFacts DEF TypeOK, Label
<1> QED
  BY <1>1 DEF Interrupt, Unwind, InSequence, SequenceLabels, ApproachLabels, DeactivateLabels,
              BackupLabels, RestoreLabels, flagVars

(* When a process ends or starts, nobody is in the sequence.               *)
LEMMA ProcessMoves ==
  ASSUME TypeOK, Exit \/ Kill \/ Restart
  PROVE  /\ ~is_docking' /\ ~action_goal_active'
         /\ \A r \in Runners : ~InSequence(r)' /\ (r # Monitor => pc'[r] = "idle")
<1> USE DEF InSequence, SequenceLabels, ApproachLabels, DeactivateLabels, BackupLabels,
            RestoreLabels
<1>1. CASE Exit \/ Kill
  BY <1>1 DEF Exit, Kill, EndProcess
<1>2. CASE Restart
  BY <1>2 DEF Restart, FreshProcess
<1> QED
  BY <1>1, <1>2

LEMMA EnvironmentMoves ==
  ASSUME BatteryValues \/ BatteryFlag \/ NavEnds \/ UNCHANGED vars
  PROVE  UNCHANGED <<life, pc, goal, is_docking, action_goal_active>>
BY DEF BatteryValues, BatteryFlag, NavEnds, vars, flagVars, threadVars

-----------------------------------------------------------------------------
(***************************************************************************)
(* The invariants, step by step.                                           *)
(***************************************************************************)

LEMMA InitInv == Init => Inv
<1> SUFFICES ASSUME Init PROVE Inv
  OBVIOUS
<1>1. \A r \in Runners : ~InSequence(r) /\ pc[r] # "reverse"
  BY DEF Init, InSequence, SequenceLabels, ApproachLabels, DeactivateLabels, BackupLabels,
         RestoreLabels
<1>2. \A g \in Goals : pc[g] = "idle" /\ goal[g] = "none"
  BY RunnerFacts DEF Init
<1>3. Exclusive /\ BelowLimit /\ DockingFlagTruth
  BY <1>1 DEF Exclusive, OneSequence, BelowLimit, DockingFlagTruth, Init
<1>4. Slot
  BY <1>2 DEF Slot, OneGoalInFlight, Dead, Working, Alive, Init, LiveStatus
<1> QED
  BY <1>3, <1>4, InitTyped DEF Inv

LEMMA ExclusiveStep == TypeOK /\ Exclusive /\ [Next]_vars => Exclusive'
<1> SUFFICES ASSUME TypeOK, Exclusive, [Next]_vars PROVE Exclusive'
  OBVIOUS
<1> USE DEF Exclusive, OneSequence
<1>1. ASSUME NEW r \in Runners, Sequence(r) PROVE Exclusive'
  <2>1. \A s \in Runners \ {r} : InSequence(s)' <=> InSequence(s)
    BY <1>1, SequenceMoves DEF InSequence
  <2> QED
    BY <1>1, <2>1, SequenceMoves
<1>2. CASE MonitorLoop
  <2>1. \A s \in Runners : InSequence(s)' <=> InSequence(s)
    BY <1>2, MonitorMoves DEF InSequence
  <2> QED
    BY <1>2, <2>1, MonitorMoves
<1>3. ASSUME NEW g \in Goals, Action(g) \/ ExecuteAutoDock(g) PROVE Exclusive'
  <2>1. \A s \in Runners : InSequence(s)' <=> InSequence(s)
    BY <1>3, ServerMoves DEF InSequence
  <2> QED
    BY <1>3, <2>1, ServerMoves
<1>4. CASE Interrupt
  <2>1. \A s \in Runners : InSequence(s)' => InSequence(s)
    BY <1>4, InterruptMoves DEF InSequence
  <2> QED
    BY <1>4, <2>1, InterruptMoves
<1>5. CASE Exit \/ Kill \/ Restart
  BY <1>5, ProcessMoves
<1>6. CASE BatteryValues \/ BatteryFlag \/ NavEnds \/ UNCHANGED vars
  BY <1>6, EnvironmentMoves DEF InSequence
<1> QED
  BY <1>1, <1>2, <1>3, <1>4, <1>5, <1>6 DEF Next, Node

(* Only the test of the limit prepares a command; only the command, issued *)
(* by the one thread in the sequence, raises the counter.                  *)
LEMMA BelowLimitStep == TypeOK /\ Exclusive /\ BelowLimit /\ [Next]_vars => BelowLimit'
<1> SUFFICES ASSUME TypeOK, Exclusive, BelowLimit, [Next]_vars,
                    NEW s \in Runners, pc'[s] = "reverse"
             PROVE  ticks' < MaxTicks
  BY DEF BelowLimit
<1> USE TickAssumption
<1>1. pc \in [Runners -> Label] /\ ticks \in 0..MaxTicks
  BY DEF TypeOK, Label
<1>2. ASSUME NEW r \in Runners, Sequence(r) PROVE ticks' < MaxTicks
  <2> USE DEF Goto, Return, AfterSequence, threadVars
  <2>1. CASE BackupTest(r)
    <3>1. ticks' = ticks
      BY <2>1 DEF BackupTest
    <3>2. CASE pc[s] = "reverse"
      BY <3>1, <3>2 DEF BelowLimit
    <3>3. CASE pc[s] # "reverse"
      BY <1>1, <2>1, <3>1, <3>3 DEF BackupTest, LimitReached
    <3> QED
      BY <3>2, <3>3
  <2>2. CASE Reverse(r)
    <3>1. pc[r] = "reverse" /\ pc'[r] = "backup" /\ pc[s] = "reverse" /\ r # s
      BY <1>1, <2>2 DEF Reverse
    <3>2. InSequence(r) /\ InSequence(s)
      BY <3>1 DEF InSequence, SequenceLabels, BackupLabels
    <3> QED
      BY <3>1, <3>2 DEF Exclusive, OneSequence
  <2>3. CASE Enter(r) \/ Decide(r) \/ GoToPrep(r) \/ WaitPrep(r) \/ Stabilize(r)
             \/ DeactivateNav2(r) \/ FullStop(r) \/ ActivateNav2(r) \/ ClearDocking(r) \/ Raise(r)
    <3>1. pc[s] = "reverse"
      BY <1>1, <2>3 DEF Enter, Decide, GoToPrep, WaitPrep, Stabilize, DeactivateNav2, FullStop,
                        ActivateNav2, ClearDocking, Raise
    <3>2. ticks' \in {0, ticks}
      BY <2>3 DEF Enter, Decide, GoToPrep, WaitPrep, Stabilize, DeactivateNav2, FullStop,
                  ActivateNav2, ClearDocking, Raise
    <3> QED
      BY <1>1, <3>1, <3>2 DEF BelowLimit
  <2> QED
    BY <1>2, <2>1, <2>2, <2>3 DEF Sequence, Proceed
<1>3. CASE MonitorLoop
  <2>1. ticks' = ticks /\ pc[s] = "reverse"
    BY <1>1, <1>3, RunnerFacts
       DEF MonitorLoop, Boot, Poll, TestEdge, LatchCharging, TestLowBattery, MainFinally,
           HandleStartCharging, Goto
  <2> QED
    BY <2>1 DEF BelowLimit
<1>4. ASSUME NEW g \in Goals, Action(g) \/ ExecuteAutoDock(g) PROVE ticks' < MaxTicks
  <2>1. ticks' = ticks /\ pc[s] = "reverse"
    BY <1>1, <1>4, RunnerFacts
       DEF Action, GoalCallback, CancelCallback, ForgetGoal, ExecuteAutoDock, StartExecute,
           ExecuteReport, ExecuteFinally, Goto, threadVars
  <2> QED
    BY <2>1 DEF BelowLimit
<1>5. CASE Interrupt
  <2>1. ticks' \in {0, ticks}
    BY <1>5 DEF Interrupt
  <2>2. pc[s] = "reverse"
    BY <1>5, InterruptMoves
  <2> QED
    BY <1>1, <2>1, <2>2 DEF BelowLimit
<1>6. CASE Exit \/ Kill \/ Restart
  BY <1>6 DEF Exit, Kill, EndProcess, Restart, FreshProcess
<1>7. CASE BatteryValues \/ BatteryFlag \/ NavEnds \/ UNCHANGED vars
  BY <1>7 DEF BatteryValues, BatteryFlag, NavEnds, vars, threadVars, BelowLimit
<1> QED
  BY <1>2, <1>3, <1>4, <1>5, <1>6, <1>7 DEF Next, Node

LEMMA FlagStep == TypeOK /\ Exclusive /\ DockingFlagTruth /\ [Next]_vars => DockingFlagTruth'
<1> SUFFICES ASSUME TypeOK, Exclusive, DockingFlagTruth, [Next]_vars PROVE DockingFlagTruth'
  OBVIOUS
<1> USE DEF DockingFlagTruth, ok
<1>1. ASSUME NEW r \in Runners, Sequence(r) PROVE DockingFlagTruth'
  <2>1. \A s \in Runners \ {r} : InSequence(s)' <=> InSequence(s)
    BY <1>1, SequenceMoves DEF InSequence
  <2> QED
    BY <1>1, <2>1, SequenceMoves DEF Exclusive, OneSequence
<1>2. CASE MonitorLoop
  <2>1. \A s \in Runners : InSequence(s)' <=> InSequence(s)
    BY <1>2, MonitorMoves DEF InSequence
  <2> QED
    BY <1>2, <2>1, MonitorMoves
<1>3. ASSUME NEW g \in Goals, Action(g) \/ ExecuteAutoDock(g) PROVE DockingFlagTruth'
  <2>1. \A s \in Runners : InSequence(s)' <=> InSequence(s)
    BY <1>3, ServerMoves DEF InSequence
  <2> QED
    BY <1>3, <2>1, ServerMoves
<1>4. CASE Interrupt
  BY <1>4, InterruptMoves
<1>5. CASE Exit \/ Kill \/ Restart
  BY <1>5, ProcessMoves
<1>6. CASE BatteryValues \/ BatteryFlag \/ NavEnds \/ UNCHANGED vars
  BY <1>6, EnvironmentMoves DEF InSequence
<1> QED
  BY <1>1, <1>2, <1>3, <1>4, <1>5, <1>6 DEF Next, Node

(* The slot: GoalCallback takes it only when no goal has a thread, and     *)
(* ExecuteFinally frees it when the only thread is gone.                   *)
LEMMA SlotStep == TypeOK /\ Slot /\ [Next]_vars => Slot'
<1> SUFFICES ASSUME TypeOK, Slot, [Next]_vars PROVE Slot'
  OBVIOUS
<1> USE RunnerFacts
<1> USE DEF Slot, OneGoalInFlight, Dead, Working, Alive
<1>1. pc \in [Runners -> Label] /\ goal \in [Goals -> GoalStatus]
  BY DEF TypeOK, Label
<1>2. ASSUME NEW r \in Runners, Sequence(r) PROVE Slot'
  <2>1. \A g \in Goals : pc'[g] = "idle" <=> pc[g] = "idle"
    BY <1>2, SequenceMoves
  <2> QED
    BY <1>2, <2>1, SequenceMoves
<1>3. CASE MonitorLoop
  BY <1>3, MonitorMoves
<1>4. ASSUME NEW g \in Goals, Action(g) \/ ExecuteAutoDock(g) PROVE Slot'
  <2> USE DEF Goto, LiveStatus, GoalStatus
  <2>1. CASE GoalCallback(g)
    BY <1>1, <2>1 DEF GoalCallback, ok
  <2>2. CASE CancelCallback(g) \/ StartExecute(g)
    BY <1>1, <2>2 DEF CancelCallback, StartExecute, flagVars, threadVars, ok
  <2>3. CASE ForgetGoal(g)
    BY <1>1, <2>3 DEF ForgetGoal, flagVars, threadVars
  <2>4. CASE ExecuteReport(g)
    BY <1>1, <2>4 DEF ExecuteReport, flagVars
  <2>5. CASE ExecuteFinally(g)
    BY <1>1, <2>5 DEF ExecuteFinally
  <2> QED
    BY <1>4, <2>1, <2>2, <2>3, <2>4, <2>5 DEF Action, ExecuteAutoDock
<1>5. CASE Interrupt
  BY <1>5, InterruptMoves DEF ok
<1>6. CASE Exit \/ Kill
  BY <1>1, <1>6 DEF Exit, Kill, EndProcess, LiveStatus
<1>7. CASE Restart
  BY <1>1, <1>7 DEF Restart, FreshProcess
<1>8. CASE BatteryValues \/ BatteryFlag \/ NavEnds \/ UNCHANGED vars
  BY <1>8, EnvironmentMoves
<1> QED
  BY <1>2, <1>3, <1>4, <1>5, <1>6, <1>7, <1>8 DEF Next, Node

LEMMA InvStep == Inv /\ [Next]_vars => Inv'
BY StepTyped, ExclusiveStep, BelowLimitStep, FlagStep, SlotStep DEF Inv

LEMMA Invariance == Spec => []Inv
BY InitInv, InvStep, PTL DEF Spec

(* No state leaves the types: in particular the backing-up never issues    *)
(* more than MaxTicks commands (backup_until_charged).                     *)
THEOREM TypeCorrect == Spec => []TypeOK
<1>1. Inv => TypeOK
  BY DEF Inv
<1> QED
  BY <1>1, Invariance, PTL

(* Two threads never run run_docking_sequence at once: the test-and-set of *)
(* is_docking under _dock_lock excludes them, whatever signals, kills and  *)
(* failing lifecycle calls do.                                             *)
THEOREM SequenceExclusive == Spec => []OneSequence
<1>1. Inv => OneSequence
  BY DEF Inv, Exclusive
<1> QED
  BY <1>1, Invariance, PTL

(* While the context lives is_docking tells the truth: every way out of    *)
(* run_docking_sequence clears it, and nobody clears another's.            *)
THEOREM DockingFlagTrue == Spec => []DockingFlagTruth
<1>1. Inv => DockingFlagTruth
  BY DEF Inv
<1> QED
  BY <1>1, Invariance, PTL

(* _action_goal_active is set exactly while the one goal in flight has a   *)
(* thread (goal_callback and the finally clause of                         *)
(* execute_auto_dock_callback).                                            *)
THEOREM GoalExclusive == Spec => []OneGoalInFlight
<1>1. Inv => OneGoalInFlight
  BY DEF Inv, Slot
<1> QED
  BY <1>1, Invariance, PTL

-----------------------------------------------------------------------------
(***************************************************************************)
(* Nav2, when lifecycle_set_state does what it is told.  Handover: while   *)
(* the context lives, what a thread has deactivated stays so until it      *)
(* activates it again, since only the one thread in the sequence touches   *)
(* Nav2 and main's own activation waits for the end.  Nav2Given: what is   *)
(* off has a thread that will switch it on again, or was off already when  *)
(* the process started.                                                    *)
(***************************************************************************)
Reliable == "lifecycle" \notin Faults

ControllerHolders == {"deactSmoother", "settle"} \cup BackupLabels \cup RestoreLabels
SmootherHolders   == {"settle", "actSmoother"} \cup BackupLabels

Handover ==
    ok =>
      /\ pc[Monitor] \notin {"exitSmoother", "exitController", "join"}
      /\ \A r \in Runners :
           /\ pc[r] \in {"deactSmoother", "settle"} \cup BackupLabels => ~controller
           /\ pc[r] \in {"settle"} \cup BackupLabels => ~smoother

Nav2Given ==
    ok /\ ~left_off =>
      /\ ~smoother => \E r \in Runners : pc[r] \in SmootherHolders
      /\ ~controller => \E r \in Runners : pc[r] \in ControllerHolders

LEMMA HandoverInit == Init => Handover /\ Nav2Given
BY RunnerFacts DEF Init, Handover, Nav2Given, BackupLabels

LEMMA HandoverStep == Reliable /\ Inv /\ Handover /\ [Next]_vars => Handover'
<1> SUFFICES ASSUME Reliable, Inv, Handover, [Next]_vars PROVE Handover'
  OBVIOUS
<1> USE RunnerFacts
<1> USE DEF Handover, BackupLabels, ok
<1>1. pc \in [Runners -> Label]
  BY DEF Inv, TypeOK, Label
<1>2. ASSUME NEW r \in Runners, Sequence(r) PROVE Handover'
  <2> USE DEF Goto, Return, AfterSequence, nav2Vars
  <2>1. \A s \in Runners \ {r} : InSequence(r) => ~InSequence(s)
    BY DEF Inv, Exclusive, OneSequence
  <2>2. \A s \in Runners \ {r} :
          InSequence(r) => pc[s] \notin {"deactSmoother", "settle"} \cup BackupLabels
    BY <2>1 DEF InSequence, SequenceLabels, DeactivateLabels
  <2>3. life' = life /\ \A s \in Runners \ {r} : pc'[s] = pc[s]
    BY <1>2, SequenceMoves DEF Inv
  <2>4. CASE DeactivateNav2(r)
    <3>1. InSequence(r)
      BY <2>4 DEF DeactivateNav2, InSequence, SequenceLabels, DeactivateLabels
    <3> QED
      BY <1>1, <2>2, <2>3, <2>4, <3>1 DEF DeactivateNav2, LifecycleSetState, Reliable
  <2>5. CASE ActivateNav2(r)
    <3>1. InSequence(r)
      BY <2>5 DEF ActivateNav2, InSequence, SequenceLabels, RestoreLabels
    <3> QED
      BY <1>1, <2>2, <2>3, <2>5, <3>1 DEF ActivateNav2
  <2>6. CASE Enter(r) \/ Decide(r) \/ GoToPrep(r) \/ WaitPrep(r) \/ Stabilize(r)
    BY <1>1, <2>3, <2>6 DEF Enter, Decide, GoToPrep, WaitPrep, Stabilize
  <2>7. CASE BackupTest(r) \/ Reverse(r) \/ FullStop(r)
    BY <1>1, <2>3, <2>7 DEF BackupTest, Reverse, FullStop
  <2>8. CASE ClearDocking(r) \/ Raise(r)
    BY <1>1, <2>3, <2>8 DEF ClearDocking, Raise
  <2> QED
    BY <1>2, <2>4, <2>5, <2>6, <2>7, <2>8 DEF Sequence, Proceed
<1>3. CASE MonitorLoop
  BY <1>1, <1>3 DEF MonitorLoop, Boot, Poll, TestEdge, LatchCharging, TestLowBattery, MainFinally,
                    HandleStartCharging, Goto, nav2Vars
<1>4. ASSUME NEW g \in Goals, Action(g) \/ ExecuteAutoDock(g) PROVE Handover'
  BY <1>1, <1>4 DEF Action, GoalCallback, CancelCallback, ForgetGoal, ExecuteAutoDock,
                    StartExecute, ExecuteReport, ExecuteFinally, Goto, nav2Vars, threadVars
<1>5. CASE Interrupt \/ Exit \/ Kill
  BY <1>5 DEF Interrupt, Exit, Kill, EndProcess
<1>6. CASE Restart
  BY <1>6 DEF Restart, FreshProcess
<1>7. CASE BatteryValues \/ BatteryFlag \/ NavEnds \/ UNCHANGED vars
  BY <1>7 DEF BatteryValues, BatteryFlag, NavEnds, vars, nav2Vars, threadVars
<1> QED
  BY <1>2, <1>3, <1>4, <1>5, <1>6, <1>7 DEF Next, Node

LEMMA Nav2GivenStep ==
  Reliable /\ Inv /\ Handover /\ Nav2Given /\ [Next]_vars => Nav2Given'
<1> SUFFICES ASSUME Reliable, Inv, Handover, Nav2Given, [Next]_vars PROVE Nav2Given'
  OBVIOUS
<1> USE RunnerFacts
<1> USE DEF Nav2Given, ControllerHolders, SmootherHolders, BackupLabels, RestoreLabels, ok,
            legacyVars
<1>1. pc \in [Runners -> Label]
  BY DEF Inv, TypeOK, Label
<1>2. ASSUME NEW r \in Runners, Sequence(r) PROVE Nav2Given'
  <2> USE DEF Goto, Return, AfterSequence, nav2Vars
  <2>1. life' = life /\ \A s \in Runners \ {r} : pc'[s] = pc[s]
    BY <1>2, SequenceMoves DEF Inv
  <2>2. CASE DeactivateNav2(r)
    <3>1. CASE pc[r] = "deactController"
      BY <1>1, <2>1, <2>2, <3>1 DEF DeactivateNav2
    <3>2. CASE pc[r] = "deactSmoother"
      BY <1>1, <2>1, <2>2, <3>2 DEF DeactivateNav2
    <3>3. CASE pc[r] = "settle"
      BY <1>1, <2>1, <2>2, <3>3 DEF DeactivateNav2
    <3> QED
      BY <2>2, <3>1, <3>2, <3>3 DEF DeactivateNav2
  <2>3. CASE ActivateNav2(r)
    BY <1>1, <2>1, <2>3 DEF ActivateNav2, LifecycleSetState, Reliable
  <2>4. CASE Enter(r) \/ Decide(r) \/ GoToPrep(r) \/ WaitPrep(r) \/ Stabilize(r)
    BY <1>1, <2>1, <2>4 DEF Enter, Decide, GoToPrep, WaitPrep, Stabilize
  <2>5. CASE BackupTest(r) \/ Reverse(r) \/ FullStop(r)
    BY <1>1, <2>1, <2>5 DEF BackupTest, Reverse, FullStop
  <2>6. CASE ClearDocking(r) \/ Raise(r)
    BY <1>1, <2>1, <2>6 DEF ClearDocking, Raise, ApproachLabels
  <2> QED
    BY <1>2, <2>2, <2>3, <2>4, <2>5, <2>6 DEF Sequence, Proceed
<1>3. CASE MonitorLoop
  BY <1>1, <1>3 DEF MonitorLoop, Boot, Poll, TestEdge, LatchCharging, TestLowBattery, MainFinally,
                    HandleStartCharging, Goto, nav2Vars, LifecycleSetState, Reliable, Handover
<1>4. ASSUME NEW g \in Goals, Action(g) \/ ExecuteAutoDock(g) PROVE Nav2Given'
  BY <1>1, <1>4 DEF Action, GoalCallback, CancelCallback, ForgetGoal, ExecuteAutoDock,
                    StartExecute, ExecuteReport, ExecuteFinally, Goto, nav2Vars, threadVars
<1>5. CASE Interrupt \/ Exit \/ Kill
  BY <1>5 DEF Interrupt, Exit, Kill, EndProcess
<1>6. CASE Restart
  BY <1>6 DEF Restart, nav2Vars
<1>7. CASE BatteryValues \/ BatteryFlag \/ NavEnds \/ UNCHANGED vars
  BY <1>7 DEF BatteryValues, BatteryFlag, NavEnds, vars, nav2Vars, threadVars
<1> QED
  BY <1>2, <1>3, <1>4, <1>5, <1>6, <1>7 DEF Next, Node

(* backup_until_charged has /cmd_vel to itself: while the context lives,   *)
(* controller_server and velocity_smoother are off whenever a thread backs *)
(* up, provided lifecycle calls do not fail.                               *)
THEOREM BackupOwnsBaseReliable == Reliable => (Spec => []BackupOwnsBase)
<1> SUFFICES ASSUME Reliable PROVE Spec => []BackupOwnsBase
  OBVIOUS
<1>1. Inv /\ Handover /\ [Next]_vars => Handover'
  BY HandoverStep
<1>2. Handover => BackupOwnsBase
  BY DEF Handover, BackupOwnsBase
<1> QED
  BY <1>1, <1>2, HandoverInit, Invariance, PTL DEF Spec

(* The finally clause of run_docking_sequence gives Nav2 back: outside the *)
(* sequence it is on, whichever call of the sequence raises and whatever   *)
(* signals and kills came before, unless the process found it off when it  *)
(* started; provided lifecycle calls do not fail.                          *)
THEOREM Nav2RestoredReliable == Reliable => (Spec => []Nav2Restored)
<1> SUFFICES ASSUME Reliable PROVE Spec => []Nav2Restored
  OBVIOUS
<1>1. Inv /\ Handover /\ [Next]_vars => Handover'
  BY HandoverStep
<1>2. Inv /\ Handover /\ Nav2Given /\ [Next]_vars => Nav2Given'
  BY Nav2GivenStep
<1>3. Inv /\ Nav2Given => Nav2Restored
  <2> SUFFICES ASSUME Inv, Nav2Given, ok, ~left_off, \A r \in Runners : ~InSequence(r)
               PROVE  controller /\ smoother
    BY DEF Nav2Restored
  <2>1. \A r \in Runners : pc[r] \notin ControllerHolders \cup SmootherHolders
    BY DEF InSequence, SequenceLabels, DeactivateLabels, RestoreLabels, ControllerHolders,
           SmootherHolders
  <2> QED
    BY <2>1 DEF Nav2Given, ok
<1> QED
  BY <1>1, <1>2, <1>3, HandoverInit, Invariance, PTL DEF Spec

(***************************************************************************)
(* What a process activates again on its way out does not depend on how it *)
(* found Nav2: once main's finally clause has passed a server, only a      *)
(* thread still in the sequence can have it off.                           *)
(***************************************************************************)
GivenAtEnd ==
    /\ life = "stopping" /\ pc[Monitor] \in {"exitController", "join"} =>
         smoother \/ \E r \in Runners : pc[r] \in SmootherHolders
    /\ life = "stopping" /\ pc[Monitor] = "join" =>
         controller \/ \E r \in Runners : pc[r] \in ControllerHolders
    /\ ExitRestoresNav2

LEMMA GivenAtEndInit == Init => GivenAtEnd
BY DEF Init, GivenAtEnd, ExitRestoresNav2

LEMMA GivenAtEndStep ==
  Reliable /\ Inv /\ Handover /\ GivenAtEnd /\ [Next]_vars => GivenAtEnd'
<1> SUFFICES ASSUME Reliable, Inv, Handover, GivenAtEnd, [Next]_vars PROVE GivenAtEnd'
  OBVIOUS
<1> USE RunnerFacts
<1> USE DEF GivenAtEnd, ExitRestoresNav2, ControllerHolders, SmootherHolders, BackupLabels,
            RestoreLabels
<1>1. pc \in [Runners -> Label]
  BY DEF Inv, TypeOK, Label
<1>2. ASSUME NEW r \in Runners, Sequence(r) PROVE GivenAtEnd'
  <2> USE DEF Goto, Return, AfterSequence, nav2Vars
  <2>1. life' = life /\ \A s \in Runners \ {r} : pc'[s] = pc[s]
    BY <1>2, SequenceMoves DEF Inv
  <2>2. life # "exited"
    BY <1>2 DEF Sequence, Proceed, Enter, Decide, GoToPrep, WaitPrep, Stabilize, DeactivateNav2,
                BackupTest, Reverse, FullStop, ActivateNav2, ClearDocking, Raise, MayRaise,
                Alive, ok
  <2>3. CASE DeactivateNav2(r)
    <3>1. CASE pc[r] = "deactController"
      BY <1>1, <2>1, <2>2, <2>3, <3>1 DEF DeactivateNav2
    <3>2. CASE pc[r] = "deactSmoother"
      BY <1>1, <2>1, <2>2, <2>3, <3>2 DEF DeactivateNav2
    <3>3. CASE pc[r] = "settle"
      BY <1>1, <2>1, <2>2, <2>3, <3>3 DEF DeactivateNav2
    <3> QED
      BY <2>3, <3>1, <3>2, <3>3 DEF DeactivateNav2
  <2>4. CASE ActivateNav2(r)
    BY <1>1, <2>1, <2>2, <2>4 DEF ActivateNav2, LifecycleSetState, Reliable
  <2>5. CASE Enter(r) \/ Decide(r) \/ GoToPrep(r) \/ WaitPrep(r) \/ Stabilize(r)
    BY <1>1, <2>1, <2>2, <2>5 DEF Enter, Decide, GoToPrep, WaitPrep, Stabilize
  <2>6. CASE BackupTest(r) \/ Reverse(r) \/ FullStop(r)
    BY <1>1, <2>1, <2>2, <2>6 DEF BackupTest, Reverse, FullStop
  <2>7. CASE ClearDocking(r) \/ Raise(r)
    BY <1>1, <2>1, <2>2, <2>7 DEF ClearDocking, Raise, ApproachLabels
  <2> QED
    BY <1>2, <2>3, <2>4, <2>5, <2>6, <2>7 DEF Sequence, Proceed
<1>3. CASE MonitorLoop
  BY <1>1, <1>3 DEF MonitorLoop, Boot, Poll, TestEdge, LatchCharging, TestLowBattery, MainFinally,
                    HandleStartCharging, Goto, nav2Vars, LifecycleSetState, Reliable, Alive
<1>4. ASSUME NEW g \in Goals, Action(g) \/ ExecuteAutoDock(g) PROVE GivenAtEnd'
  BY <1>1, <1>4 DEF Action, GoalCallback, CancelCallback, ForgetGoal, ExecuteAutoDock,
                    StartExecute, ExecuteReport, ExecuteFinally, Goto, nav2Vars, threadVars
<1>5. CASE Interrupt
  <2>1. pc[Monitor] \notin {"exitController", "join"}
    BY <1>5 DEF Interrupt, Handover
  <2>2. pc'[Monitor] \notin {"exitController", "join"}
    BY <1>1, <1>5, <2>1 DEF Interrupt, Unwind, ApproachLabels, DeactivateLabels
  <2> QED
    BY <1>5, <2>2 DEF Interrupt
<1>6. CASE Exit
  <2>1. \A r \in Runners : pc[r] \in {"join", "idle", "queued"}
    BY <1>6 DEF Exit
  <2> QED
    BY <1>6, <2>1 DEF Exit, EndProcess, nav2Vars
<1>7. CASE Kill \/ Restart
  BY <1>7 DEF Kill, EndProcess, Restart, FreshProcess
<1>8. CASE BatteryValues \/ BatteryFlag \/ NavEnds \/ UNCHANGED vars
  BY <1>8 DEF BatteryValues, BatteryFlag, NavEnds, vars, nav2Vars, threadVars
<1> QED
  BY <1>2, <1>3, <1>4, <1>5, <1>6, <1>7, <1>8 DEF Next, Node

(* main's finally clause, and the join of the executor's threads after it, *)
(* leave Nav2 on: a process that ends in an orderly way has                *)
(* controller_server and velocity_smoother active, wherever the signal met *)
(* its threads and even if an earlier process was killed with both off,    *)
(* provided lifecycle calls do not fail.                                   *)
THEOREM OrderlyExitRestores == Reliable => (Spec => []ExitRestoresNav2)
<1> SUFFICES ASSUME Reliable PROVE Spec => []ExitRestoresNav2
  OBVIOUS
<1>1. Inv /\ Handover /\ [Next]_vars => Handover'
  BY HandoverStep
<1>2. Inv /\ Handover /\ GivenAtEnd /\ [Next]_vars => GivenAtEnd'
  BY GivenAtEndStep
<1>3. GivenAtEnd => ExitRestoresNav2
  BY DEF GivenAtEnd
<1> QED
  BY <1>1, <1>2, <1>3, HandoverInit, GivenAtEndInit, Invariance, PTL DEF Spec

-----------------------------------------------------------------------------
(***************************************************************************)
(* The navigation goal, when no signal reaches the process and no call of  *)
(* rclpy raises.                                                           *)
(***************************************************************************)
Undisturbed == Faults \cap {"interrupt", "kill", "raise"} = {}

Watched == ok /\ NoStrayNavigation

LEMMA WatchedInit == Init => Watched
BY DEF Init, Watched, ok, NoStrayNavigation

LEMMA WatchedStep == Undisturbed /\ Inv /\ Watched /\ [Next]_vars => Watched'
<1> SUFFICES ASSUME Undisturbed, Inv, Watched, [Next]_vars PROVE Watched'
  OBVIOUS
<1> USE RunnerFacts
<1> USE DEF Watched, ok, NoStrayNavigation
<1>1. pc \in [Runners -> Label]
  BY DEF Inv, TypeOK, Label
<1>2. ASSUME NEW r \in Runners, Sequence(r) PROVE Watched'
  <2> USE DEF Goto, Return, AfterSequence, nav2Vars
  <2>1. life' = life /\ \A s \in Runners \ {r} : pc'[s] = pc[s]
    BY <1>2, SequenceMoves DEF Inv
  <2>2. CASE GoToPrep(r)
    BY <1>1, <2>1, <2>2 DEF GoToPrep
  <2>3. CASE WaitPrep(r)
    BY <1>1, <2>1, <2>3 DEF WaitPrep, NavDone
  <2>4. CASE ClearDocking(r)
    BY <1>1, <2>1, <2>4 DEF ClearDocking, NavDone
  <2>5. CASE Enter(r) \/ Decide(r) \/ Stabilize(r) \/ ActivateNav2(r)
    BY <1>1, <2>1, <2>5 DEF Enter, Decide, Stabilize, ActivateNav2
  <2>6. CASE DeactivateNav2(r) \/ BackupTest(r) \/ Reverse(r) \/ FullStop(r)
    BY <1>1, <2>1, <2>6 DEF DeactivateNav2, BackupTest, Reverse, FullStop
  <2>7. ~Raise(r)
    BY DEF Raise, MayRaise, Undisturbed
  <2> QED
    BY <1>2, <2>2, <2>3, <2>4, <2>5, <2>6, <2>7 DEF Sequence, Proceed
<1>3. CASE MonitorLoop
  <2>1. UNCHANGED <<life, nav>>
    BY <1>3 DEF MonitorLoop, Boot, Poll, TestEdge, LatchCharging, TestLowBattery, MainFinally,
                HandleStartCharging, nav2Vars
  <2>2. ~InSequence(Monitor) /\ \A s \in Runners \ {Monitor} : pc'[s] = pc[s]
    BY <1>3, MonitorMoves DEF Inv
  <2>3. pc[Monitor] \notin {"nav", "navCancel"}
    BY <2>2 DEF InSequence, SequenceLabels, ApproachLabels
  <2> QED
    BY <2>1, <2>2, <2>3
<1>4. ASSUME NEW g \in Goals, Action(g) \/ ExecuteAutoDock(g) PROVE Watched'
  BY <1>1, <1>4 DEF Action, GoalCallback, CancelCallback, ForgetGoal, ExecuteAutoDock,
                    StartExecute, ExecuteReport, ExecuteFinally, Goto, nav2Vars, threadVars
<1>5. ~(Interrupt \/ Exit \/ Kill \/ Restart)
  BY DEF Undisturbed, Interrupt, Exit, Kill, Restart, Alive
<1>6. CASE BatteryValues \/ BatteryFlag \/ UNCHANGED vars
  BY <1>6 DEF BatteryValues, BatteryFlag, vars, nav2Vars, threadVars
<1>7. CASE NavEnds
  <2>1. UNCHANGED <<life, pc>>
    BY <1>7 DEF NavEnds, threadVars
  <2>2. nav' \in {"active", "canceling"} => nav \in {"active", "canceling"}
    BY <1>7 DEF NavEnds
  <2> QED
    BY <2>1, <2>2
<1> QED
  BY <1>2, <1>3, <1>4, <1>5, <1>6, <1>7 DEF Next, Node

(* Without signals and exceptions the sequence never leaves a navigation   *)
(* goal of its own behind: it waits for isTaskComplete() on every way out. *)
THEOREM NavigationNeverStrays == Undisturbed => (Spec => []NoStrayNavigation)
<1> SUFFICES ASSUME Undisturbed PROVE Spec => []NoStrayNavigation
  OBVIOUS
<1>1. Inv /\ Watched /\ [Next]_vars => Watched'
  BY WatchedStep
<1>2. Watched => NoStrayNavigation
  BY DEF Watched
<1> QED
  BY <1>1, <1>2, WatchedInit, Invariance, PTL DEF Spec

-----------------------------------------------------------------------------
(***************************************************************************)
(* Refinement.                                                             *)
(***************************************************************************)
slot == {g \in Goals : pc[g] # "idle"}

LEMMA ServerInit == Init => Server!Init
BY RunnerFacts DEF Init, Server!Init

(* Every step is a step of the single-slot server or leaves its state      *)
(* alone.                                                                  *)
LEMMA ServerStep == Inv /\ [Next]_vars => [Server!Next]_(Server!vars)
<1> SUFFICES ASSUME Inv, [Next]_vars PROVE [Server!Next]_(Server!vars)
  OBVIOUS
<1> USE RunnerFacts
<1> USE DEF Server!vars
<1>1. pc \in [Runners -> Label] /\ goal \in [Goals -> GoalStatus]
  BY DEF Inv, TypeOK, Label
<1>2. ASSUME NEW r \in Runners, Sequence(r) PROVE UNCHANGED <<goal, slot>>
  <2>1. UNCHANGED goal /\ \A g \in Goals : pc'[g] = "idle" <=> pc[g] = "idle"
    BY <1>2, SequenceMoves DEF Inv
  <2> QED
    BY <2>1 DEF slot
<1>3. ASSUME MonitorLoop PROVE UNCHANGED <<goal, slot>>
  BY <1>3, MonitorMoves DEF slot, Inv
<1>4. ASSUME NEW g \in Goals, Action(g) \/ ExecuteAutoDock(g) PROVE [Server!Next]_(Server!vars)
  <2> USE DEF Goto, Server!Set, flagVars, threadVars
  <2>1. CASE GoalCallback(g)
    <3>1. ~action_goal_active => slot = {}
      BY <2>1 DEF Inv, Slot, OneGoalInFlight, Alive, ok, slot, GoalCallback
    <3>2. CASE goal' = [goal EXCEPT ![g] = "rejected"] /\ UNCHANGED pc
      BY <2>1, <3>2 DEF GoalCallback, Server!Reject, Server!Next, slot
    <3>3. CASE ~action_goal_active /\ goal' = [goal EXCEPT ![g] = "accepted"]
               /\ pc' = [pc EXCEPT ![g] = "queued"]
      <4>1. {h \in Goals : pc'[h] # "idle"} = {g}
        BY <1>1, <3>1, <3>3 DEF slot
      <4> QED
        BY <2>1, <3>1, <3>3, <4>1 DEF GoalCallback, Server!Accept, Server!Next, slot
    <3> QED
      BY <2>1, <3>2, <3>3 DEF GoalCallback
  <2>2. CASE CancelCallback(g)
    BY <2>2 DEF CancelCallback, Server!Cancel, Server!Next
  <2>3. CASE ForgetGoal(g)
    BY <1>1, <2>3 DEF ForgetGoal, Server!Forget, Server!Next, Server!Terminal, LiveStatus, GoalStatus
  <2>4. CASE StartExecute(g)
    <3>1. {h \in Goals : pc'[h] # "idle"} = slot
      BY <1>1, <2>4 DEF StartExecute, slot
    <3>2. CASE goal[g] = "accepted"
      BY <2>4, <3>1, <3>2 DEF StartExecute, Server!Start, Server!Next, slot
    <3>3. CASE goal[g] # "accepted"
      BY <1>1, <2>4, <3>1, <3>3 DEF StartExecute, slot
    <3> QED
      BY <3>2, <3>3
  <2>5. CASE ExecuteReport(g)
    <3>1. {h \in Goals : pc'[h] # "idle"} = slot /\ g \in slot
      BY <1>1, <2>5 DEF ExecuteReport, slot
    <3>2. goal[g] \in LiveStatus
      BY <2>5 DEF ExecuteReport, Inv, Slot, Working
    <3> QED
      BY <1>1, <2>5, <3>1, <3>2
         DEF ExecuteReport, Server!End, Server!Next, Server!Live, Server!Terminal, LiveStatus, slot
  <2>6. CASE ExecuteFinally(g)
    <3>1. {h \in Goals : pc'[h] # "idle"} = {} /\ g \in slot
      BY <1>1, <2>6 DEF ExecuteFinally, Inv, Slot, OneGoalInFlight, Alive, slot
    <3> QED
      BY <2>6, <3>1 DEF ExecuteFinally, Server!Release, Server!Next, Server!Live, LiveStatus, slot
  <2> QED
    BY <1>4, <2>1, <2>2, <2>3, <2>4, <2>5, <2>6 DEF Action, ExecuteAutoDock
<1>5. ASSUME Interrupt PROVE UNCHANGED <<goal, slot>>
  BY <1>5, InterruptMoves DEF Inv, slot
<1>6. ASSUME Exit \/ Kill PROVE Server!Next
  <2>1. {h \in Goals : pc'[h] # "idle"} = {}
    BY <1>6, ProcessMoves DEF Inv
  <2> QED
    BY <1>6, <2>1 DEF Exit, Kill, EndProcess, Server!Die, Server!Next, Server!Live, LiveStatus
<1>7. ASSUME Restart PROVE UNCHANGED <<goal, slot>>
  <2>1. {h \in Goals : pc'[h] # "idle"} = {}
    BY <1>7, ProcessMoves DEF Inv
  <2>2. slot = {}
    BY <1>7 DEF Restart, Inv, Slot, Dead, slot
  <2> QED
    BY <1>7, <2>1, <2>2 DEF Restart, slot
<1>8. ASSUME BatteryValues \/ BatteryFlag \/ NavEnds \/ UNCHANGED vars PROVE UNCHANGED <<goal, slot>>
  BY <1>8, EnvironmentMoves DEF slot
<1>9. ASSUME UNCHANGED <<goal, slot>> PROVE UNCHANGED Server!vars
  BY <1>9 DEF slot
<1> QED
  BY <1>2, <1>3, <1>4, <1>5, <1>6, <1>7, <1>8, <1>9 DEF Next, Node

(* To its clients the docking node is an action server with a single slot: *)
(* a goal is accepted only into the free slot, gets one terminal status,   *)
(* and is reported canceled only if somebody asked for it (goal_callback   *)
(* and execute_auto_dock_callback).                                        *)
THEOREM ImplementsActionServer == Spec => ServesOneGoal
BY ServerInit, ServerStep, Invariance, PTL DEF Spec, ServesOneGoal, Server!Spec
=============================================================================
