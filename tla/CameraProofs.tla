---------------------------- MODULE CameraProofs ----------------------------
(***************************************************************************)
(* What holds of the camera's device management for every number of        *)
(* sessions, failures and reboots.                                         *)
(*                                                                         *)
(* OneInitializer is not inductive: it does not say that a second thread   *)
(* cannot get the interprocess lock while the first one builds.  LockHeld  *)
(* does: from the moment a start has the lock until it gives it back, the  *)
(* lock is its own, whatever happens to device_connecting in between.      *)
(***************************************************************************)
EXTENDS Camera, TLAPS

Building == {"select", "initialize", "build", "announce", "stream", "streaming", "failed",
             "request_reset", "unlock", "hung"}

LockHeld ==
    /\ \A t \in Starters : pc[t] \in Building => orb_device_lock = t
    /\ \A t \in Starters : pc[t] # "reboot"
    /\ pc["reboot"] \in {"idle", "reboot", "hung"}
    /\ pc["reboot"] # "idle" => orb_device_lock = "reboot"

(* While the callback handles an event, the event is there.                *)
EventAtHand ==
    pc["sdk"] \in {"connected", "disconnected", "wait", "consider"} => events # <<>>

Inv == TypeOK /\ EventAtHand /\ LockHeld

LEMMA HeadTail ==
    ASSUME NEW S, NEW s \in Seq(S), s # <<>>
    PROVE  Head(s) \in S /\ Tail(s) \in Seq(S)
OBVIOUS

LEMMA StarterFacts ==
    /\ Starters \subseteq Threads
    /\ {"reset", "reboot", "main", "sdk", "query"} \subseteq Threads
    /\ "sdk" \in Starters /\ "query" \in Starters
    /\ \A t \in Starters : t \notin {"reset", "reboot", "main", Nobody}
    /\ Nobody # "reboot"
BY DEF Starters, Threads, Nobody

-----------------------------------------------------------------------------
(***************************************************************************)
(* Types, by groups of variables.                                          *)
(***************************************************************************)

LEMMA InitTyped == Init => TypeOK
<1> SUFFICES ASSUME Init PROVE TypeOK
  OBVIOUS
<1>1. pc \in [Threads -> Labels] /\ list \in [Starters -> Sessions] /\ notified \subseteq Threads
  BY BoundsAreNaturals DEF Init, Threads, Labels, Sessions
<1>2. session \in Sessions /\ device \in Sessions /\ camera_node \in Sessions
  BY BoundsAreNaturals DEF Init, Sessions
<1>3. events \in Seq([removed : Sessions, added : Sessions]) /\ troubles \in 0 .. MaxTroubles
  BY BoundsAreNaturals DEF Init
<1> QED
  BY <1>1, <1>2, <1>3 DEF Init, TypeOK

(* How a start moves the labels: only its own thread's.                    *)
LEMMA StartMoves ==
    ASSUME NEW t \in Starters, Starting(t), TypeOK
    PROVE  \E l \in Labels : pc' = [pc EXCEPT ![t] = l]
<1> USE DEF Goto, Return, Labels
<1>1. CASE startDevice(t) \/ SetConnecting(t) \/ ReleaseOld(t) \/ TryLock(t)
  BY <1>1 DEF startDevice, SetConnecting, ReleaseOld, TryLock
<1>2. CASE selectDevice(t) \/ initializeDevice(t) \/ BuildNode(t) \/ Announce(t)
  BY <1>2 DEF selectDevice, initializeDevice, Cleaned, BuildNode, Announce
<1>3. CASE TestNode(t) \/ startStreams(t) \/ StartFailed(t) \/ RequestReset(t) \/ Unlock(t)
  BY <1>3 DEF TestNode, startStreams, StartFailed, RequestReset, Unlock
<1>4. CASE ClearConnecting(t)
  BY <1>4 DEF ClearConnecting
<1> QED
  BY <1>1, <1>2, <1>3, <1>4 DEF Starting

LEMMA LabelsTyped == TypeOK /\ [Next]_vars => pc' \in [Threads -> Labels]
<1> SUFFICES ASSUME TypeOK, [Next]_vars PROVE pc' \in [Threads -> Labels]
  OBVIOUS
<1> USE StarterFacts
<1>0. pc \in [Threads -> Labels]
  BY DEF TypeOK
<1>1. ASSUME NEW t \in Starters, Starting(t) PROVE pc' \in [Threads -> Labels]
  BY <1>0, <1>1, StartMoves
<1>2. CASE onDeviceDisconnected \/ NotifyReset \/ onDeviceConnected \/ SdkWoken \/ ConsiderStart
  BY <1>0, <1>2 DEF onDeviceDisconnected, NotifyReset, onDeviceConnected, SdkWoken,
                    ConsiderStart, Goto, Labels
<1>3. CASE queryDevice \/ QueryWoken \/ CheckConnected \/ QueryList
  BY <1>0, <1>3 DEF queryDevice, QueryWoken, CheckConnected, QueryList, Goto, Labels
<1>4. CASE Reset \/ Executor \/ Main
  BY <1>0, <1>4 DEF Reset, Executor, Main, resetDevice, ResetNode, Cleaned, DestroyDevice,
                    checkConnectTimer,
                    RebootDevice, RebootConnected, Destructor, CleanNode, JoinQuery,
                    JoinReset, Goto, Labels
<1>5. CASE TenSecondsPass \/ rebootDeviceCallback \/ signalHandler \/ Unplug \/ Plug
           \/ UNCHANGED vars
  BY <1>0, <1>5 DEF TenSecondsPass, rebootDeviceCallback, signalHandler, Unplug, Plug, vars,
                    Goto, Labels
<1> QED
  BY <1>1, <1>2, <1>3, <1>4, <1>5 DEF Next, Sdk, Query

(* Device handles and the lists that starts work on are sessions; so are   *)
(* the ones that events tell of.                                           *)
EventType == [removed : Sessions, added : Sessions]
HandlesTyped ==
    /\ session \in Sessions /\ device \in Sessions /\ camera_node \in Sessions
    /\ list \in [Starters -> Sessions]
    /\ events \in Seq(EventType)
    /\ plugged \in BOOLEAN
    /\ ignored \subseteq Sessions

LEMMA SessionsTyped == TypeOK /\ EventAtHand /\ [Next]_vars => HandlesTyped'
<1> SUFFICES ASSUME TypeOK, EventAtHand, [Next]_vars PROVE HandlesTyped'
  OBVIOUS
<1> USE StarterFacts
<1> USE DEF HandlesTyped, EventType, bus, handles
<1>0. HandlesTyped /\ 0 \in Sessions
  BY BoundsAreNaturals DEF TypeOK, Sessions
<1>1. ASSUME NEW t \in Starters, Starting(t) PROVE HandlesTyped'
  <2>1. UNCHANGED <<session, events, plugged, ignored>>
    BY <1>1 DEF Starting, startDevice, SetConnecting, ReleaseOld, TryLock, selectDevice,
                initializeDevice, BuildNode, Announce, TestNode, startStreams,
                StartFailed, RequestReset,
                Unlock, ClearConnecting
  <2>2. list' \in [Starters -> Sessions]
    BY <1>0, <1>1 DEF Starting, startDevice, SetConnecting, ReleaseOld, TryLock,
                      selectDevice,
                initializeDevice, BuildNode, Announce, TestNode, startStreams,
                StartFailed, RequestReset,
                Unlock, ClearConnecting, Return
  <2>3. device' \in Sessions /\ camera_node' \in Sessions
    BY <1>0, <1>1 DEF Starting, startDevice, SetConnecting, ReleaseOld, TryLock,
                      selectDevice,
                initializeDevice, BuildNode, Announce, TestNode, startStreams,
                StartFailed, RequestReset,
                Unlock, ClearConnecting
  <2> QED
    BY <1>0, <2>1, <2>2, <2>3
<1>2. CASE onDeviceConnected
  BY <1>0, <1>2 DEF onDeviceConnected
<1>2a. CASE onDeviceDisconnected \/ NotifyReset
  <2>1. events # <<>>
    BY <1>2a DEF onDeviceDisconnected, NotifyReset, EventAtHand
  <2>2. Head(events) \in EventType
    <3> HIDE DEF EventType
    <3> QED
      BY <1>0, <2>1, HeadTail
  <2>3. Event.removed \in Sessions
    BY <2>2 DEF Event
  <2> QED
    BY <1>0, <1>2a, <2>3 DEF onDeviceDisconnected, NotifyReset
<1>3. CASE SdkWoken
  <2>1. events # <<>> /\ Tail(events) \in Seq(EventType)
    BY <1>0, <1>3 DEF SdkWoken, EventAtHand
  <2>2. CASE events' = events
    BY <1>0, <1>3, <2>2 DEF SdkWoken
  <2>3. CASE events' = Tail(events)
    BY <1>0, <1>3, <2>1, <2>3 DEF SdkWoken
  <2> QED
    BY <1>3, <2>2, <2>3 DEF SdkWoken
<1>4. CASE ConsiderStart
  <2>0. events # <<>>
    BY <1>4 DEF ConsiderStart, EventAtHand
  <2>1. Tail(events) \in Seq(EventType) /\ Head(events) \in EventType
    <3> HIDE DEF EventType
    <3> QED
      BY <1>0, <2>0, HeadTail
  <2>2. Event.added \in Sessions
    BY <2>1 DEF Event
  <2>3. list' = list \/ list' = [list EXCEPT !["sdk"] = Event.added]
    BY <1>4 DEF ConsiderStart
  <2>4. list' \in [Starters -> Sessions]
    BY <1>0, <2>2, <2>3
  <2> QED
    BY <1>0, <1>4, <2>1, <2>4 DEF ConsiderStart
<1>5. CASE queryDevice \/ QueryWoken \/ CheckConnected \/ QueryList
  BY <1>0, <1>5 DEF queryDevice, QueryWoken, CheckConnected, QueryList
<1>6. CASE Reset \/ checkConnectTimer \/ Main
  BY <1>0, <1>6 DEF Reset, Main, resetDevice, ResetNode, Cleaned, DestroyDevice,
                    checkConnectTimer,
                    Destructor, CleanNode, JoinQuery, JoinReset
<1>7. CASE RebootDevice \/ RebootConnected \/ Unplug
  <2>1. Append(events, Removed(session)) \in Seq(EventType)
    BY <1>0 DEF Removed
  <2> QED
    BY <1>0, <1>7, <2>1 DEF RebootDevice, RebootConnected, Unplug
<1>8. CASE Plug
  <2>1. session' \in Sessions
    BY <1>0, <1>8, BoundsAreNaturals DEF Plug, Sessions
  <2>2. Append(events, Added(session')) \in Seq(EventType)
    BY <1>0, <2>1 DEF Added
  <2> QED
    BY <1>0, <1>8, <2>1, <2>2 DEF Plug
<1>9. CASE TenSecondsPass \/ rebootDeviceCallback \/ signalHandler \/ UNCHANGED vars
  BY <1>0, <1>9 DEF TenSecondsPass, rebootDeviceCallback, signalHandler, vars
<1> QED
  BY <1>1, <1>2, <1>2a, <1>3, <1>4, <1>5, <1>6, <1>7, <1>8, <1>9 DEF Next, Sdk, Query,
                                                                     Executor

LEMMA FlagsTyped ==
    TypeOK /\ [Next]_vars =>
      /\ troubles' \in 0 .. MaxTroubles
      /\ device_connected' \in BOOLEAN /\ device_connecting' \in BOOLEAN
      /\ reset_device_flag' \in BOOLEAN /\ serial_known' \in BOOLEAN
      /\ recent_reset' \in BOOLEAN /\ ok' \in BOOLEAN /\ is_alive' \in BOOLEAN
      /\ orb_device_lock' \in {Nobody, "reboot"} \cup Starters
      /\ notified' \subseteq Threads
<1> DEFINE P == /\ troubles \in 0 .. MaxTroubles
                /\ device_connected \in BOOLEAN /\ device_connecting \in BOOLEAN
                /\ reset_device_flag \in BOOLEAN /\ serial_known \in BOOLEAN
                /\ recent_reset \in BOOLEAN /\ ok \in BOOLEAN /\ is_alive \in BOOLEAN
                /\ orb_device_lock \in {Nobody, "reboot"} \cup Starters
                /\ notified \subseteq Threads
<1> SUFFICES ASSUME TypeOK, [Next]_vars PROVE P'
  OBVIOUS
<1> USE BoundsAreNaturals DEF bus, flags, handles, process, notify_all, Waiting
<1>0. P
  BY DEF TypeOK
<1>1. ASSUME NEW t \in Starters, Starting(t) PROVE P'
  <2>1. CASE startDevice(t) \/ SetConnecting(t) \/ ReleaseOld(t) \/ TryLock(t)
    BY <1>0, <2>1 DEF startDevice, SetConnecting, ReleaseOld, TryLock
  <2>2. CASE selectDevice(t) \/ initializeDevice(t)
    BY <1>0, <2>2 DEF selectDevice, initializeDevice, Cleaned
  <2>3. CASE BuildNode(t)
    BY <1>0, <2>3 DEF BuildNode
  <2>4. CASE Announce(t)
    BY <1>0, <2>4 DEF Announce
  <2>5. CASE TestNode(t) \/ StartFailed(t) \/ RequestReset(t)
    BY <1>0, <2>5 DEF TestNode, StartFailed, RequestReset
  <2>5a. CASE startStreams(t)
    BY <1>0, <2>5a DEF startStreams
  <2>6. CASE Unlock(t) \/ ClearConnecting(t)
    BY <1>0, <2>6 DEF Unlock, ClearConnecting
  <2> QED
    BY <1>1, <2>1, <2>2, <2>3, <2>4, <2>5, <2>5a, <2>6 DEF Starting
<1>2. CASE onDeviceDisconnected \/ NotifyReset \/ onDeviceConnected \/ SdkWoken \/ ConsiderStart
  BY <1>0, <1>2 DEF onDeviceDisconnected, NotifyReset, onDeviceConnected, SdkWoken,
                    ConsiderStart
<1>3. CASE queryDevice \/ QueryWoken \/ CheckConnected \/ QueryList
  BY <1>0, <1>3 DEF queryDevice, QueryWoken, CheckConnected, QueryList
<1>4. CASE Reset \/ checkConnectTimer \/ Main
  BY <1>0, <1>4 DEF Reset, Main, resetDevice, ResetNode, Cleaned, DestroyDevice,
                    checkConnectTimer,
                    Destructor, CleanNode, JoinQuery, JoinReset
<1>5. CASE RebootDevice \/ RebootConnected
  BY <1>0, <1>5 DEF RebootDevice, RebootConnected
<1>6. CASE rebootDeviceCallback
  <2>1. troubles' \in 0 .. MaxTroubles
    BY <1>0, <1>6 DEF rebootDeviceCallback
  <2> QED
    BY <1>0, <1>6, <2>1 DEF rebootDeviceCallback
<1>7. CASE Unplug \/ Plug \/ TenSecondsPass \/ signalHandler \/ UNCHANGED vars
  BY <1>0, <1>7 DEF Unplug, Plug, TenSecondsPass, signalHandler, vars
<1> HIDE DEF P
<1> QED
  BY <1>1, <1>2, <1>3, <1>4, <1>5, <1>6, <1>7, StarterFacts DEF Next, Sdk, Query, Executor

-----------------------------------------------------------------------------
(***************************************************************************)
(* The event at hand, and the interprocess lock.                           *)
(***************************************************************************)

LEMMA EventKept == TypeOK /\ EventAtHand /\ [Next]_vars => EventAtHand'
<1> SUFFICES ASSUME TypeOK, EventAtHand, [Next]_vars PROVE EventAtHand'
  OBVIOUS
<1> USE StarterFacts
<1> USE DEF EventAtHand, bus
<1>0. pc \in [Threads -> Labels] /\ events \in Seq(EventType)
  BY DEF TypeOK, EventType
<1>1. ASSUME NEW t \in Starters, Starting(t) PROVE EventAtHand'
  <2>1. events' = events
    BY <1>1 DEF Starting, startDevice, SetConnecting, ReleaseOld, TryLock, selectDevice,
                initializeDevice, BuildNode, Announce, TestNode, startStreams,
                StartFailed, RequestReset,
                Unlock, ClearConnecting
  <2>2. \E l \in Labels \ {"connected", "disconnected", "wait", "consider"} :
          pc' = [pc EXCEPT ![t] = l]
    <3> USE DEF Goto, Return, Labels
    <3>1. CASE startDevice(t) \/ SetConnecting(t) \/ ReleaseOld(t) \/ TryLock(t)
      BY <3>1 DEF startDevice, SetConnecting, ReleaseOld, TryLock
    <3>2. CASE selectDevice(t) \/ initializeDevice(t) \/ BuildNode(t) \/ Announce(t)
      BY <3>2 DEF selectDevice, initializeDevice, Cleaned, BuildNode, Announce
    <3>3. CASE TestNode(t) \/ startStreams(t) \/ StartFailed(t) \/ RequestReset(t) \/ Unlock(t)
      BY <3>3 DEF TestNode, startStreams, StartFailed, RequestReset, Unlock
    <3>4. CASE ClearConnecting(t)
      BY <3>4 DEF ClearConnecting
    <3> QED
      BY <1>1, <3>1, <3>2, <3>3, <3>4 DEF Starting
  <2> QED
    BY <1>0, <2>1, <2>2
<1>2. CASE onDeviceDisconnected \/ NotifyReset \/ onDeviceConnected \/ SdkWoken \/ ConsiderStart
  BY <1>0, <1>2 DEF onDeviceDisconnected, NotifyReset, onDeviceConnected, SdkWoken,
                    ConsiderStart, Goto
<1>3. CASE queryDevice \/ QueryWoken \/ CheckConnected \/ QueryList
  BY <1>0, <1>3 DEF queryDevice, QueryWoken, CheckConnected, QueryList, Goto
<1>4. CASE Reset \/ checkConnectTimer \/ Main
  BY <1>0, <1>4 DEF Reset, Main, resetDevice, ResetNode, Cleaned, DestroyDevice,
                    checkConnectTimer,
                    Destructor, CleanNode, JoinQuery, JoinReset, Goto
<1>5. CASE RebootDevice \/ RebootConnected \/ rebootDeviceCallback \/ Unplug \/ Plug
  BY <1>0, <1>5 DEF RebootDevice, RebootConnected, rebootDeviceCallback, Unplug, Plug, Goto
<1>6. CASE TenSecondsPass \/ signalHandler \/ UNCHANGED vars
  BY <1>0, <1>6 DEF TenSecondsPass, signalHandler, vars
<1> QED
  BY <1>1, <1>2, <1>3, <1>4, <1>5, <1>6 DEF Next, Sdk, Query, Executor

(* Nobody but a start and the reboot service touches the lock.             *)
LEMMA LockKept == TypeOK /\ LockHeld /\ [Next]_vars => LockHeld'
<1> SUFFICES ASSUME TypeOK, LockHeld, [Next]_vars PROVE LockHeld'
  OBVIOUS
<1> USE StarterFacts
<1> USE DEF LockHeld, Building, Goto
<1>0. pc \in [Threads -> Labels]
  BY DEF TypeOK
<1>1. ASSUME NEW t \in Starters, Starting(t) PROVE LockHeld'
  <2> USE DEF Return
  <2>1. CASE startDevice(t) \/ SetConnecting(t) \/ ReleaseOld(t)
    BY <1>0, <2>1 DEF startDevice, SetConnecting, ReleaseOld
  <2>2. CASE TryLock(t)
    <3>1. CASE orb_device_lock = Nobody
      BY <1>0, <2>2, <3>1 DEF TryLock
    <3>2. CASE orb_device_lock # Nobody
      BY <1>0, <2>2, <3>2 DEF TryLock
    <3> QED
      BY <3>1, <3>2
  <2>3. CASE selectDevice(t) \/ initializeDevice(t) \/ BuildNode(t) \/ Announce(t)
    BY <1>0, <2>3 DEF selectDevice, initializeDevice, Cleaned, BuildNode, Announce
  <2>4. CASE TestNode(t) \/ startStreams(t) \/ StartFailed(t) \/ RequestReset(t)
    BY <1>0, <2>4 DEF TestNode, startStreams, StartFailed, RequestReset
  <2>5. CASE Unlock(t)
    BY <1>0, <2>5 DEF Unlock
  <2>6. CASE ClearConnecting(t)
    BY <1>0, <2>6 DEF ClearConnecting
  <2> QED
    BY <1>1, <2>1, <2>2, <2>3, <2>4, <2>5, <2>6 DEF Starting
<1>2. CASE onDeviceDisconnected \/ NotifyReset \/ onDeviceConnected \/ SdkWoken \/ ConsiderStart
  BY <1>0, <1>2 DEF onDeviceDisconnected, NotifyReset, onDeviceConnected, SdkWoken,
                    ConsiderStart
<1>3. CASE queryDevice \/ QueryWoken \/ CheckConnected \/ QueryList
  BY <1>0, <1>3 DEF queryDevice, QueryWoken, CheckConnected, QueryList
<1>4. CASE Reset \/ checkConnectTimer \/ Main
  BY <1>0, <1>4 DEF Reset, Main, resetDevice, ResetNode, Cleaned, DestroyDevice,
                    checkConnectTimer,
                    Destructor, CleanNode, JoinQuery, JoinReset
<1>5. CASE RebootDevice \/ RebootConnected \/ rebootDeviceCallback
  BY <1>0, <1>5 DEF RebootDevice, RebootConnected, rebootDeviceCallback
<1>6. CASE TenSecondsPass \/ signalHandler \/ Unplug \/ Plug \/ UNCHANGED vars
  BY <1>0, <1>6 DEF TenSecondsPass, signalHandler, Unplug, Plug, vars
<1> QED
  BY <1>1, <1>2, <1>3, <1>4, <1>5, <1>6 DEF Next, Sdk, Query, Executor

-----------------------------------------------------------------------------
LEMMA Invariance == Spec => []Inv
<1>1. Init => Inv
  <2>1. Init => EventAtHand /\ LockHeld
    BY DEF Init, EventAtHand, LockHeld, Building, Threads, Starters
  <2> QED
    BY <2>1, InitTyped DEF Inv
<1>2. Inv /\ [Next]_vars => Inv'
  <2> SUFFICES ASSUME Inv, [Next]_vars PROVE Inv'
    OBVIOUS
  <2>1. TypeOK'
    BY LabelsTyped, SessionsTyped, FlagsTyped DEF Inv, TypeOK, HandlesTyped, EventType
  <2> QED
    BY <2>1, EventKept, LockKept DEF Inv
<1> QED
  BY <1>1, <1>2, PTL DEF Spec

(* The variables hold what they are declared for (OBCameraNodeDriver); in  *)
(* particular a start works on a device list that was announced.           *)
THEOREM CameraTyped == Spec => []TypeOK
<1>1. Inv => TypeOK
  BY DEF Inv
<1> QED
  BY <1>1, Invariance, PTL

(* Only one thread at a time selects, builds or starts a device, or calls  *)
(* a node from the reboot service, however often the camera is plugged,    *)
(* reset and rebooted (startDevice, initializeDevice,                      *)
(* rebootDeviceCallback).                                                  *)
THEOREM StartsExclusive == Spec => []OneInitializer
<1>1. Inv => OneInitializer
  BY StarterFacts DEF Inv, LockHeld, Building, OneInitializer
<1> QED
  BY <1>1, Invariance, PTL

=============================================================================
