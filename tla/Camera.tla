------------------------------- MODULE Camera -------------------------------
(***************************************************************************)
(* The Orbbec camera driver's device management: the SDK's device-changed  *)
(* callback, the thread that looks for a device, the thread that tears a   *)
(* lost device down, the reboot service and the destructor share one       *)
(* device handle and one camera node.  Two flags, two mutexes, a           *)
(* condition variable and an interprocess lock are to keep them apart.     *)
(*                                                                         *)
(* A session is one stay of the camera on the bus; a new one begins with   *)
(* every plugging in.  0 stands for a null pointer or an empty list.       *)
(***************************************************************************)
EXTENDS Naturals, Sequences

CONSTANTS
    MaxSessions,    \* bound on the stays of the camera on the bus
    MaxTroubles,    \* bound on the failures of the SDK with the camera present and
                    \* the calls of the reboot service, together
    CleanMayHang    \* whether clean() of a camera node may never return (CameraStreams)

ASSUME BoundsAreNaturals ==
    /\ MaxSessions \in Nat \ {0}
    /\ MaxTroubles \in Nat
    /\ CleanMayHang \in BOOLEAN

Threads == {"sdk", "query", "reset", "reboot", "main"}
Sessions == 0 .. MaxSessions
Nobody == "nobody"

VARIABLES
    plugged,        \* the camera is on the bus
    session,        \* its latest stay there
    events,         \* device-changed callbacks to come
    troubles,       \* failures and reboots so far
    ignored,        \* history: sessions whose removal was passed over
    device_connected,
    device_connecting,
    reset_device_flag,
    device,         \* session that device_ is a handle of
    camera_node,    \* session that ob_camera_node_ was built on
    serial_known,   \* serial_number_ is set, by the first connection
    recent_reset,   \* the last reset ended less than 10 s ago
    orb_device_lock,
    ok,             \* rclcpp::ok()
    is_alive,
    pc,
    list,           \* the device list a thread works on: its session
    notified        \* threads woken from their wait on reset_device_cond_

bus == <<plugged, session, events, troubles, ignored>>
flags == <<device_connected, device_connecting, reset_device_flag>>
handles == <<device, camera_node, serial_known>>
process == <<ok, is_alive>>
vars == <<bus, flags, handles, recent_reset, orb_device_lock, process, pc, list,
          notified>>

\* pthread/std mutexes reset_device_mutex_ and device_lock_: resetDevice holds
\* both from one of its steps to the next, everyone else within a step, and the
\* reboot service for ever if clean() hangs in it.
Locked == pc["reset"] \in {"teardown", "destroy", "hung"} \/ pc["reboot"] = "hung"
Present(s) == plugged /\ session = s
Crashed == \E t \in Threads : pc[t] = "crashed"
Hung == \E t \in Threads : pc[t] = "hung"
Goto(t, label) == pc' = [pc EXCEPT ![t] = label]
\* Thread t has run clean() of a camera node, or never comes back from it.
Cleaned(t, node, label) ==
    \/ Goto(t, label)
    \/ CleanMayHang /\ node # 0 /\ Goto(t, "hung")
Waiting == {t \in Threads : pc[t] = "wait"}
Removed(s) == [removed |-> s, added |-> 0]
Added(s) == [removed |-> 0, added |-> s]
notify_all == notified' = notified \cup Waiting
-----------------------------------------------------------------------------
(* startDevice and initializeDevice, run by the SDK's callback and by the  *)
(* looking thread.                                                         *)
Starters == {"sdk", "query"}
Return(t) == /\ Goto(t, IF t = "sdk" THEN "idle" ELSE "top")
             /\ list' = [list EXCEPT ![t] = 0]

startDevice(t) ==
    /\ pc[t] = "start"
    /\ IF device_connected
       THEN Return(t)
       ELSE Goto(t, "compare_exchange") /\ UNCHANGED list
    /\ UNCHANGED <<bus, flags, handles, recent_reset, orb_device_lock, process, notified>>

\* The flag is taken; whether the device is connected by now is not looked at again.
SetConnecting(t) ==
    /\ pc[t] = "compare_exchange"
    /\ IF device_connecting
       THEN Return(t)
       ELSE Goto(t, "release_old") /\ UNCHANGED list
    /\ device_connecting' = TRUE
    /\ UNCHANGED <<bus, device_connected, reset_device_flag, handles, recent_reset,
                   orb_device_lock, process, notified>>

ReleaseOld(t) ==
    /\ pc[t] = "release_old"
    /\ device' = 0
    /\ Goto(t, "trylock")
    /\ UNCHANGED <<bus, flags, camera_node, serial_known, recent_reset, orb_device_lock,
                   process, list, notified>>

\* Mutant: the result of the last attempt is not looked at.
TryLockAnyway(t) ==
    /\ pc[t] = "trylock"
    /\ orb_device_lock' = IF orb_device_lock = Nobody THEN t ELSE orb_device_lock
    /\ Goto(t, "select")
    /\ UNCHANGED <<bus, flags, handles, recent_reset, process, list, notified>>

\* Mutant: giving up leaves device_connecting set.
TryLockForgetting(t) ==
    /\ pc[t] = "trylock"
    /\ IF orb_device_lock = Nobody
       THEN orb_device_lock' = t /\ Goto(t, "select") /\ UNCHANGED list
       ELSE Return(t) /\ UNCHANGED orb_device_lock
    /\ UNCHANGED <<bus, flags, handles, recent_reset, process, notified>>

\* Five attempts, then the start is given up.
TryLock(t) ==
    /\ pc[t] = "trylock"
    /\ IF orb_device_lock = Nobody
       THEN orb_device_lock' = t /\ Goto(t, "select")
       ELSE Goto(t, "clear_connecting") /\ UNCHANGED orb_device_lock
    /\ UNCHANGED <<bus, flags, handles, recent_reset, process, list, notified>>

\* A known serial number is looked for under device_lock_ and an exception there
\* means "not found"; the default device is opened without the lock.
selectDevice(t) ==
    /\ pc[t] = "select"
    /\ serial_known => ~Locked
    /\ \/ /\ Present(list[t])
          /\ Goto(t, "initialize")
          /\ UNCHANGED device_connected
       \/ /\ ~Present(list[t])
          /\ IF serial_known
             THEN device_connected' = FALSE /\ Goto(t, "unlock")
             ELSE Goto(t, "failed") /\ UNCHANGED device_connected
    /\ UNCHANGED <<bus, device_connecting, reset_device_flag, handles, recent_reset,
                   orb_device_lock, process, list, notified>>

\* An old camera node is cleaned and deleted.
initializeDevice(t) ==
    /\ pc[t] = "initialize"
    /\ device' = list[t]
    /\ camera_node' = 0
    /\ Cleaned(t, camera_node, "build")
    /\ UNCHANGED <<bus, flags, serial_known, recent_reset, orb_device_lock, process, list,
                   notified>>

\* Three attempts at a camera node; each needs the device handle.
BuildNode(t) ==
    /\ pc[t] = "build"
    /\ \/ /\ device = 0
          /\ Goto(t, "crashed")
          /\ UNCHANGED <<troubles, camera_node>>
       \/ /\ device # 0 /\ Present(list[t])
          /\ camera_node' = device
          /\ Goto(t, "announce")
          /\ UNCHANGED troubles
       \/ /\ device # 0 /\ Present(list[t]) /\ troubles < MaxTroubles
          /\ troubles' = troubles + 1
          /\ Goto(t, "failed")
          /\ UNCHANGED camera_node
       \/ /\ device # 0 /\ ~Present(list[t])
          /\ Goto(t, "failed")
          /\ UNCHANGED <<troubles, camera_node>>
    /\ UNCHANGED <<plugged, session, events, ignored, flags, device, serial_known,
                   recent_reset, orb_device_lock, process, list, notified>>

Announce(t) ==
    /\ pc[t] = "announce"
    /\ device_connected' = TRUE
    /\ serial_known' = (serial_known \/ device # 0)
    /\ Goto(t, IF device = 0 THEN "crashed" ELSE "stream")
    /\ UNCHANGED <<bus, device_connecting, reset_device_flag, device, camera_node,
                   recent_reset, orb_device_lock, process, list, notified>>

\* Without a camera node only a line is logged.
TestNode(t) ==
    /\ pc[t] = "stream"
    /\ Goto(t, IF camera_node = 0 THEN "unlock" ELSE "streaming")
    /\ UNCHANGED <<bus, flags, handles, recent_reset, orb_device_lock, process, list,
                   notified>>

\* startIMU and startStreams take more than a second; the node may be deleted meanwhile,
\* and then anything may happen.
startStreams(t) ==
    /\ pc[t] = "streaming"
    /\ \/ Goto(t, "unlock") /\ UNCHANGED troubles
       \/ ~Present(list[t]) /\ Goto(t, "failed") /\ UNCHANGED troubles
       \/ troubles < MaxTroubles /\ troubles' = troubles + 1 /\ Goto(t, "failed")
       \/ camera_node = 0 /\ Goto(t, "crashed") /\ UNCHANGED troubles
    /\ UNCHANGED <<plugged, session, events, ignored, flags, handles, recent_reset,
                   orb_device_lock, process, list, notified>>

StartFailed(t) ==
    /\ pc[t] = "failed"
    /\ device_connected' = FALSE
    /\ Goto(t, "request_reset")
    /\ UNCHANGED <<bus, device_connecting, reset_device_flag, handles, recent_reset,
                   orb_device_lock, process, list, notified>>

RequestReset(t) ==
    /\ pc[t] = "request_reset"
    /\ ~Locked
    /\ reset_device_flag' = TRUE
    /\ notify_all
    /\ Goto(t, "unlock")
    /\ UNCHANGED <<bus, device_connected, device_connecting, handles, recent_reset,
                   orb_device_lock, process, list>>

Unlock(t) ==
    /\ pc[t] = "unlock"
    /\ orb_device_lock' = Nobody
    /\ Goto(t, "clear_connecting")
    /\ UNCHANGED <<bus, flags, handles, recent_reset, process, list, notified>>

ClearConnecting(t) ==
    /\ pc[t] = "clear_connecting"
    /\ device_connecting' = FALSE
    /\ Return(t)
    /\ UNCHANGED <<bus, device_connected, reset_device_flag, handles, recent_reset,
                   orb_device_lock, process, notified>>

Starting(t) ==
    \/ startDevice(t) \/ SetConnecting(t) \/ ReleaseOld(t) \/ TryLock(t)
    \/ selectDevice(t) \/ initializeDevice(t) \/ BuildNode(t) \/ Announce(t)
    \/ TestNode(t) \/ startStreams(t) \/ StartFailed(t) \/ RequestReset(t) \/ Unlock(t)
    \/ ClearConnecting(t)
-----------------------------------------------------------------------------
(* The SDK's thread: one device-changed callback after the other.          *)
Event == Head(events)

onDeviceDisconnected ==
    /\ pc["sdk"] = "idle"
    /\ events # <<>>
    /\ \/ Event.removed = 0 /\ Goto("sdk", "connected") /\ UNCHANGED ignored
       \/ /\ Event.removed # 0 /\ device_connecting
          /\ ignored' = ignored \cup {Event.removed}
          /\ Goto("sdk", "connected")
       \/ /\ Event.removed # 0 /\ ~device_connecting
          /\ Goto("sdk", "disconnected") /\ UNCHANGED ignored
    /\ UNCHANGED <<plugged, session, events, troubles, flags, handles, recent_reset,
                   orb_device_lock, process, list, notified>>

\* Mutant: the waiting thread is notified, but not told what for.
NotifyResetUnflagged ==
    /\ pc["sdk"] = "disconnected"
    /\ ~Locked
    /\ \/ device_connected /\ notify_all /\ UNCHANGED ignored
       \/ /\ ~device_connected
          /\ ignored' = ignored \cup {Event.removed}
          /\ UNCHANGED notified
    /\ Goto("sdk", "connected")
    /\ UNCHANGED <<plugged, session, events, troubles, flags, handles, recent_reset,
                   orb_device_lock, process, list>>

\* Under both mutexes; the one camera's serial number always matches.  A removal is
\* passed over while nothing is connected, a start whose flag a reset cleared included.
NotifyReset ==
    /\ pc["sdk"] = "disconnected"
    /\ ~Locked
    /\ \/ /\ device_connected
          /\ reset_device_flag' = TRUE /\ notify_all
          /\ UNCHANGED ignored
       \/ /\ ~device_connected
          /\ ignored' = ignored \cup {Event.removed}
          /\ UNCHANGED <<reset_device_flag, notified>>
    /\ Goto("sdk", "connected")
    /\ UNCHANGED <<plugged, session, events, troubles, device_connected, device_connecting,
                   handles, recent_reset, orb_device_lock, process, list>>

onDeviceConnected ==
    /\ pc["sdk"] = "connected"
    /\ ~Locked
    /\ Goto("sdk", IF reset_device_flag THEN "wait" ELSE "consider")
    /\ notified' = notified \ {"sdk"}
    /\ UNCHANGED <<bus, flags, handles, recent_reset, orb_device_lock, process, list>>

\* The callback's own wait goes on when rclcpp is down but the driver lives.
SdkWoken ==
    /\ pc["sdk"] = "wait" /\ "sdk" \in notified
    /\ ~Locked
    /\ notified' = notified \ {"sdk"}
    /\ IF reset_device_flag /\ is_alive /\ ok
       THEN UNCHANGED <<pc, events>>
       ELSE IF is_alive
       THEN Goto("sdk", "consider") /\ UNCHANGED events
       ELSE Goto("sdk", "idle") /\ events' = Tail(events)
    /\ UNCHANGED <<plugged, session, troubles, ignored, flags, handles, recent_reset,
                   orb_device_lock, process, list>>

ConsiderStart ==
    /\ pc["sdk"] = "consider"
    /\ events' = Tail(events)
    /\ IF Event.added = 0 \/ device_connected \/ device_connecting \/ device # 0
       THEN Goto("sdk", "idle") /\ UNCHANGED list
       ELSE Goto("sdk", "start") /\ list' = [list EXCEPT !["sdk"] = Event.added]
    /\ UNCHANGED <<plugged, session, troubles, ignored, flags, handles, recent_reset,
                   orb_device_lock, process, notified>>
-----------------------------------------------------------------------------
(* queryDevice: the thread that looks for a device.                        *)
queryDevice ==
    /\ pc["query"] = "top"
    /\ ~Locked
    /\ Goto("query", IF ~(is_alive /\ ok) THEN "ended"
                     ELSE IF reset_device_flag THEN "wait" ELSE "check")
    /\ notified' = notified \ {"query"}
    /\ UNCHANGED <<bus, flags, handles, recent_reset, orb_device_lock, process, list>>

QueryWoken ==
    /\ pc["query"] = "wait" /\ "query" \in notified
    /\ ~Locked
    /\ notified' = notified \ {"query"}
    /\ IF ~(is_alive /\ ok) THEN Goto("query", "ended")
       ELSE IF reset_device_flag THEN UNCHANGED pc
       ELSE Goto("query", "check")
    /\ UNCHANGED <<bus, flags, handles, recent_reset, orb_device_lock, process, list>>

CheckConnected ==
    /\ pc["query"] = "check"
    /\ Goto("query", IF device_connecting \/ device_connected \/ recent_reset
                     THEN "top" ELSE "query_list")
    /\ UNCHANGED <<bus, flags, handles, recent_reset, orb_device_lock, process, list,
                   notified>>

QueryList ==
    /\ pc["query"] = "query_list"
    /\ IF plugged
       THEN list' = [list EXCEPT !["query"] = session] /\ Goto("query", "start")
       ELSE Goto("query", "top") /\ UNCHANGED list
    /\ UNCHANGED <<bus, flags, handles, recent_reset, orb_device_lock, process, notified>>
-----------------------------------------------------------------------------
(* resetDevice: the thread that tears a device down.  Its wait has a       *)
(* timeout.                                                                *)
\* Mutant: the wait has no timeout and only a requested reset ends it.
resetDeviceUninterrupted ==
    /\ pc["reset"] = "idle"
    /\ reset_device_flag
    /\ device_connected' = FALSE
    /\ device_connecting' = FALSE
    /\ Goto("reset", "teardown")
    /\ UNCHANGED <<bus, reset_device_flag, handles, recent_reset, orb_device_lock, process,
                   list, notified>>

resetDevice ==
    /\ pc["reset"] = "idle"
    /\ IF ~(is_alive /\ ok)
       THEN Goto("reset", "ended") /\ UNCHANGED <<device_connected, device_connecting>>
       ELSE /\ reset_device_flag
            /\ device_connected' = FALSE
            /\ device_connecting' = FALSE
            /\ Goto("reset", "teardown")
    /\ UNCHANGED <<bus, reset_device_flag, handles, recent_reset, orb_device_lock, process,
                   list, notified>>

ResetNode ==
    /\ pc["reset"] = "teardown"
    /\ camera_node' = 0
    /\ Cleaned("reset", camera_node, "destroy")
    /\ UNCHANGED <<bus, flags, device, serial_known, recent_reset, orb_device_lock, process,
                   list, notified>>

\* 100 ms later, the mutexes still held.
DestroyDevice ==
    /\ pc["reset"] = "destroy"
    /\ device' = 0
    /\ reset_device_flag' = FALSE
    /\ recent_reset' = TRUE
    /\ notify_all
    /\ Goto("reset", "idle")
    /\ UNCHANGED <<bus, device_connected, device_connecting, camera_node, serial_known,
                   orb_device_lock, process, list>>

TenSecondsPass ==
    /\ recent_reset
    /\ recent_reset' = FALSE
    /\ UNCHANGED <<bus, flags, handles, orb_device_lock, process, pc, list, notified>>
-----------------------------------------------------------------------------
(* The executor: a timer and the reboot service.                           *)
Spinning == pc["main"] = "spin" /\ ok

checkConnectTimer ==
    /\ Spinning /\ pc["reboot"] = "idle"
    /\ device_connected /\ camera_node = 0
    /\ device_connected' = FALSE
    /\ UNCHANGED <<bus, device_connecting, reset_device_flag, handles, recent_reset,
                   orb_device_lock, process, pc, list, notified>>

\* A lock that stays busy for 15 s makes the service give up.
rebootDeviceCallback ==
    /\ Spinning /\ pc["reboot"] = "idle"
    /\ troubles < MaxTroubles
    /\ troubles' = troubles + 1
    /\ orb_device_lock = Nobody
    /\ orb_device_lock' = "reboot"
    /\ Goto("reboot", "reboot")
    /\ UNCHANGED <<plugged, session, events, ignored, flags, handles, recent_reset,
                   process, list, notified>>

\* The flag is set, and cleared again if there is nothing to reboot.
RebootDevice ==
    /\ pc["reboot"] = "reboot"
    /\ ~Locked
    /\ ~device_connected \/ camera_node = 0
    /\ reset_device_flag' = FALSE
    /\ orb_device_lock' = Nobody
    /\ Goto("reboot", "idle")
    /\ UNCHANGED <<bus, device_connected, device_connecting, handles, recent_reset, process,
                   list, notified>>

\* The node is cleaned first, with all locks held.  A device that reboots leaves the
\* bus; one that has left it makes the call throw.
RebootConnected ==
    /\ pc["reboot"] = "reboot"
    /\ ~Locked
    /\ device_connected /\ camera_node # 0
    /\ reset_device_flag' = TRUE
    /\ \/ /\ CleanMayHang
          /\ Goto("reboot", "hung")
          /\ UNCHANGED <<plugged, events, orb_device_lock, notified>>
       \/ /\ notify_all
          /\ IF Present(camera_node)
             THEN plugged' = FALSE /\ events' = Append(events, Removed(session))
             ELSE UNCHANGED <<plugged, events>>
          /\ orb_device_lock' = Nobody
          /\ Goto("reboot", "idle")
    /\ UNCHANGED <<session, troubles, ignored, device_connected, device_connecting,
                   handles, recent_reset, process, list>>
-----------------------------------------------------------------------------
(* The end: a signal shuts rclcpp down, the executor returns, the node is  *)
(* destroyed.                                                              *)
signalHandler ==
    /\ ok
    /\ ok' = FALSE
    /\ UNCHANGED <<bus, flags, handles, recent_reset, orb_device_lock, is_alive, pc, list,
                   notified>>

Destructor ==
    /\ pc["main"] = "spin" /\ ~ok /\ pc["reboot"] = "idle"
    /\ is_alive' = FALSE
    /\ Goto("main", IF camera_node = 0 THEN "join_query" ELSE "clean")
    /\ UNCHANGED <<bus, flags, handles, recent_reset, orb_device_lock, ok, list, notified>>

\* clean() and stopGmslTrigger() of the camera node, while the other threads run: the
\* node may have been deleted by one of them, and then anything may happen.
CleanNode ==
    /\ pc["main"] = "clean"
    /\ \/ Goto("main", "join_query")
       \/ CleanMayHang /\ Goto("main", "hung")
       \/ camera_node = 0 /\ Goto("main", "crashed")
    /\ UNCHANGED <<bus, flags, handles, recent_reset, orb_device_lock, process, list,
                   notified>>

\* Only after the looking thread has ended is anybody notified.
JoinQuery ==
    /\ pc["main"] = "join_query" /\ pc["query"] = "ended"
    /\ notify_all
    /\ Goto("main", "join_reset")
    /\ UNCHANGED <<bus, flags, handles, recent_reset, orb_device_lock, process, list>>

\* What the driver owns goes with it: a camera node is cleaned (once more).
JoinReset ==
    /\ pc["main"] = "join_reset" /\ pc["reset"] = "ended"
    /\ Cleaned("main", camera_node, "ended")
    /\ UNCHANGED <<bus, flags, handles, recent_reset, orb_device_lock, process, list,
                   notified>>
-----------------------------------------------------------------------------
(* The camera and its plug.                                                *)
Unplug ==
    /\ plugged
    /\ plugged' = FALSE
    /\ events' = Append(events, Removed(session))
    /\ UNCHANGED <<session, troubles, ignored, flags, handles, recent_reset,
                   orb_device_lock, process, pc, list, notified>>

Plug ==
    /\ ~plugged
    /\ session < MaxSessions
    /\ plugged' = TRUE
    /\ session' = session + 1
    /\ events' = Append(events, Added(session'))
    /\ UNCHANGED <<troubles, ignored, flags, handles, recent_reset, orb_device_lock,
                   process, pc, list, notified>>
-----------------------------------------------------------------------------
\* init(): nothing is connected; the camera may be on the bus already, and then no
\* callback announces it.
Init ==
    /\ plugged \in BOOLEAN
    /\ session = IF plugged THEN 1 ELSE 0
    /\ events = <<>> /\ troubles = 0 /\ ignored = {}
    /\ device_connected = FALSE /\ device_connecting = FALSE
    /\ reset_device_flag = FALSE
    /\ device = 0 /\ camera_node = 0 /\ serial_known = FALSE
    /\ recent_reset = FALSE
    /\ orb_device_lock = Nobody
    /\ ok = TRUE /\ is_alive = TRUE
    /\ pc = [t \in Threads |-> IF t = "query" THEN "top"
                               ELSE IF t = "main" THEN "spin" ELSE "idle"]
    /\ list = [t \in Starters |-> 0]
    /\ notified = {}

Sdk == onDeviceDisconnected \/ NotifyReset \/ onDeviceConnected \/ SdkWoken
       \/ ConsiderStart \/ Starting("sdk")
Query == queryDevice \/ QueryWoken \/ CheckConnected \/ QueryList \/ Starting("query")
Reset == resetDevice \/ ResetNode \/ DestroyDevice
Executor == checkConnectTimer \/ RebootDevice \/ RebootConnected
Main == Destructor \/ CleanNode \/ JoinQuery \/ JoinReset

\* The process is gone with its main function, or with a null pointer.
Gone == Crashed \/ pc["main"] = "ended"

Next ==
    /\ ~Gone
    /\ \/ Sdk \/ Query \/ Reset \/ Executor \/ Main
       \/ TenSecondsPass \/ rebootDeviceCallback \/ signalHandler \/ Unplug \/ Plug

Spec == Init /\ [][Next]_vars

Fairness ==
    /\ WF_vars(~Gone /\ Sdk) /\ WF_vars(~Gone /\ Query) /\ WF_vars(~Gone /\ Reset)
    /\ WF_vars(~Gone /\ Executor) /\ WF_vars(~Gone /\ Main)
    /\ WF_vars(~Gone /\ TenSecondsPass)

FairSpec == Spec /\ Fairness
-----------------------------------------------------------------------------
Labels == {"idle", "top", "spin", "start", "compare_exchange", "release_old", "trylock",
           "select", "initialize", "build", "announce", "stream", "streaming",
           "failed", "request_reset", "unlock", "clear_connecting", "crashed", "hung",
           "connected", "disconnected", "wait", "consider", "check", "query_list",
           "teardown", "destroy", "reboot", "clean", "join_query", "join_reset", "ended"}

TypeOK ==
    /\ plugged \in BOOLEAN /\ session \in Sessions
    /\ events \in Seq([removed : Sessions, added : Sessions])
    /\ troubles \in 0 .. MaxTroubles /\ ignored \subseteq Sessions
    /\ device_connected \in BOOLEAN /\ device_connecting \in BOOLEAN
    /\ reset_device_flag \in BOOLEAN
    /\ device \in Sessions /\ camera_node \in Sessions /\ serial_known \in BOOLEAN
    /\ recent_reset \in BOOLEAN
    /\ orb_device_lock \in {Nobody, "reboot"} \cup Starters
    /\ ok \in BOOLEAN /\ is_alive \in BOOLEAN
    /\ pc \in [Threads -> Labels]
    /\ list \in [Starters -> Sessions]
    /\ notified \subseteq Threads

\* Only one thread at a time selects, builds or starts a device, and the reboot service
\* never calls a node that is being built (startDevice, rebootDeviceCallback).
\* device_connecting alone does not see to it: a reset clears the flag while a start is
\* under way, and a start that ends clears it for the one that has begun since.
OneInitializer ==
    LET building == {"select", "initialize", "build", "announce", "stream", "streaming",
                     "failed", "request_reset", "reboot", "hung"}
    IN  \A t, u \in Starters \cup {"reboot"} :
            pc[t] \in building /\ pc[u] \in building => t = u

\* Waiting for a reset that was called off by the reboot service, woken by nobody.
Forgotten(t) == pc[t] = "wait" /\ ~reset_device_flag /\ t \notin notified

\* A camera that stays plugged in is in the end connected for good: the camera node is
\* built on its present stay, or on one whose end the callback passed over because a start
\* was under way or nothing was connected yet (onDeviceDisconnected).  This fails only if a thread waits for a reset
\* that was called off, a handle that a reset cleared was used, or clean() hangs
\* (queryDevice, onDeviceConnected, resetDevice).
PluggedGetsConnected ==
    <>[](plugged /\ ok)
    => \/ <>[](device_connected /\ (camera_node = session \/ camera_node \in ignored))
       \/ (\E t \in Starters : <>[]Forgotten(t)) \/ <>Crashed \/ <>Hung

\* ob_camera_node_driver.cpp:296, of an added camera that is not started: "device already
\* connected or connecting".  So one that stays plugged in is in the end the one that is
\* connected.  The code does not keep this: the end of an earlier stay may have been
\* passed over.
ConnectedIsThisStay ==
    <>[](plugged /\ ok) => <>[](device_connected /\ camera_node = session) \/ <>Crashed

\* ob_camera_node_driver.cpp:458, of device_connected_ = false in resetDevice: "Mark device
\* as disconnected immediately to prevent other threads from accessing it".  While the
\* handles are torn down no start uses them.  The code does not keep this: a start that
\* is under way looks at the flag no more.
ResetHasDeviceAlone ==
    pc["reset"] \in {"teardown", "destroy"}
    => \A t \in Starters : pc[t] \notin {"initialize", "build", "announce", "streaming"}

\* After a signal the process ends, unless the looking thread waits for a reset that
\* the other thread, gone already, will not do (~OBCameraNodeDriver joins the looking
\* thread before it notifies anybody), a node that is deleted under the destructor is
\* used, or clean() hangs, in the destructor or in another thread.
ShutdownEnds ==
    ~ok ~> \/ pc["main"] = "ended" \/ Crashed \/ Hung
           \/ pc["query"] = "wait" /\ (pc["reset"] = "ended" \/ Forgotten("query"))

\* ob_camera_node_driver.cpp:154 in the destructor: "Now stop threads".  A destructor that
\* has begun comes to its end.  The code does not keep this: it waits for the looking
\* thread, which may wait for a notification that only comes afterwards.
DestructorStopsThreads == ~is_alive ~> pc["main"] = "ended" \/ Crashed
=============================================================================
