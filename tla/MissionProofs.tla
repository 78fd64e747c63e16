--------------------------- MODULE MissionProofs ----------------------------
(***************************************************************************)
(* What holds of the two nodes together, for every set of goals, requests  *)
(* and faults: the composition is a behaviour of each component, so that   *)
(* what AutoDockProofs and PatrolProofs say of the nodes by themselves     *)
(* holds on the robot.                                                     *)
(***************************************************************************)
EXTENDS Mission, TLAPS

(***************************************************************************)
(* Each component's own specification.                                     *)
(***************************************************************************)

LEMMA DockSteps == [Next]_vars => [Dock!Next]_(Dock!vars)
<1> SUFFICES ASSUME [Next]_vars PROVE [Dock!Next]_(Dock!vars)
  OBVIOUS
<1> USE DEF Dock!vars, Dock!batteryVars, Dock!flagVars, Dock!threadVars, Dock!nav2Vars,
            Dock!legacyVars, dockOwn
<1>1. CASE DockStep
  BY <1>1 DEF DockStep, Dock!Next
<1>2. CASE PatrolStep
  <2>1. CASE nav' = nav
    BY <1>2, <2>1 DEF PatrolStep
  <2>2. CASE nav' = "aborted" /\ ~Dock!NavDone
    <3>1. Dock!NavEnds
      BY <1>2, <2>2 DEF PatrolStep, Dock!NavEnds, Dock!NavDone
    <3> QED
      BY <3>1 DEF Dock!Next
  <2> QED
    BY <1>2, <2>1, <2>2 DEF PatrolStep
<1>3. CASE NavigatorStep
  BY <1>3 DEF NavigatorStep, Dock!Next
<1>4. CASE UNCHANGED vars
  BY <1>4 DEF vars
<1> QED
  BY <1>1, <1>2, <1>3, <1>4 DEF Next

LEMMA PatrolSteps == [Next]_vars => [Patrol!Next]_(Patrol!vars)
<1> SUFFICES ASSUME [Next]_vars PROVE [Patrol!Next]_(Patrol!vars)
  OBVIOUS
<1> USE DEF Patrol!vars, Patrol!counters, Patrol!history, patrolOwn
<1>1. CASE PatrolStep
  BY <1>1 DEF PatrolStep, Patrol!Next
<1>2. CASE DockStep
  <2>1. CASE p_nav' = p_nav
    BY <1>2, <2>1 DEF DockStep
  <2>2. CASE p_nav' = "aborted" /\ PatrolDriving
    <3>1. Patrol!NavEnds
      BY <1>2, <2>2 DEF DockStep, Patrol!NavEnds, Patrol!NavDone, PatrolDriving
    <3> QED
      BY <3>1 DEF Patrol!Next
  <2> QED
    BY <1>2, <2>1, <2>2 DEF DockStep
<1>3. CASE NavigatorStep
  BY <1>3 DEF NavigatorStep, Patrol!Next
<1>4. CASE UNCHANGED vars
  BY <1>4 DEF vars
<1> QED
  BY <1>1, <1>2, <1>3, <1>4 DEF Next

(* On the robot the docking node behaves as AutoDock says (DockBehaves):   *)
(* all that the patrol does to it is to abort its navigation.              *)
THEOREM DockImplemented == Spec => DockBehaves
<1>1. Init => Dock!Init
  BY DEF Init
<1> QED
  BY <1>1, DockSteps, PTL DEF Spec, DockBehaves, Dock!Spec

(* On the robot the patrol node behaves as Patrol says (PatrolBehaves):    *)
(* all that the docking does to it is to abort its navigation.             *)
THEOREM PatrolImplemented == Spec => PatrolBehaves
<1>1. Init => Patrol!Init
  BY DEF Init
<1> QED
  BY <1>1, PatrolSteps, PTL DEF Spec, PatrolBehaves, Patrol!Spec
=============================================================================
