# ElderBot: TLA+ models of the robot's own nodes and of the drivers it starts

ElderBot is a ROS 2 robot: wheels behind a CAN bus, lidar, depth camera and
ultrasonic sensors, Nav2 for navigation, frontier exploration, and two nodes of its
own that give the robot something to do, `patrol_node` and `auto_dock_node`. Almost
nothing in the repository tests them. This directory models the parts of the
repository that have state and concurrency with TLA+, checks the models with TLC and
proves their invariants with TLAPS.

Paths are relative to `src/src/`, so `elderbot_navigation/...` is
`src/src/elderbot_navigation/...`.

## 1. Inventory

### Docking node: `elderbot_navigation/scripts/auto_dock_node.py`

*State*: battery percentage, current and charging flag; `was_charging`;
`is_docking` (tested and set under `_dock_lock`, cleared without it);
`_action_goal_active` (under `_action_goal_lock`); the recorded pose in
`dock_pose.yaml`.
*Operations*: battery callback; goal, cancel and execute callbacks of the
`/auto_dock` action, on four executor threads; `monitor_loop` in the main
thread, which polls once a second; `run_docking_sequence`, run by the monitor or
by a goal's thread: drive to the prep pose, wait, deactivate Nav2's controller
and smoother by `ros2 service call`, back up until current flows or a limit is
reached, activate Nav2; `handle_start_charging`, which records the charger's
pose; `main`'s `finally`, which activates Nav2 and joins the executor.
*Hard*: two locks guard two flags that each side tests without the other's lock;
a dozen ways out of the sequence, each of which has to restore what it changed;
signals that shut the context down and raise in the main thread only; a check of
a flag and a latch of it that are two reads; files rewritten in place.
*Correct if*: the sequence has one thread; the flags tell the truth; Nav2 and
the wheels are handed over and back; every goal ends; a low battery is served.

### Patrol node: `elderbot_navigation/scripts/patrol_node.py`

*State*: `_goal_active`, the configured waypoints, and the counters of the one
running patrol. *Operations*: goal, cancel and execute callbacks of `/patrol`:
rounds over waypoints, a timeout per waypoint with a bounded wait for the task to
stop, a wait at the waypoint, cancellation anywhere, an exception handler, and a
`finally` that frees the slot. *Hard*: answers of the navigator that belong to an
earlier goal; bounded waits that end before what they wait for; endless patrols;
a signal in the middle of a navigation. *Correct if*: each visit is counted once
and only real arrivals as arrivals; a success did all its rounds; cancellation and
timeouts end the patrol although the navigator ends no goal; no navigation is abandoned.

### Nav2 (external)

`bt_navigator` executes one goal at a time and drops the current one for a new
one; `controller_server` and `velocity_smoother` are lifecycle nodes and write
`/cmd_vel` while active; `nav2_simple_commander.BasicNavigator` remembers the
last goal that was accepted, and `isTaskComplete()` and `getResult()` speak of
that one. Modelled as the nodes use it.

### Frontier exploration: `m-explore-ros2/explore`

*State*: planning timer, blacklist, previous goal with its distance and the time
of the last progress, `resuming_`; the costmap copy; the search's queues and flags.
*Operations*: `makePlan` from the constructor, the timer, `explore/resume` and every
result; `reachedGoal`; `stop`, `resume`, `returnToInitialPose`; the costmap client's
full and partial map callbacks; `FrontierSearch::searchFrom` with `buildNewFrontier`
and `nearestCell`. *Hard*: goals, cancellations and results travel on three services
and overtake each other and the resume and stop messages; blacklisting by a
tolerance; partial updates that are cut at the map's edge; neighbours at row ends.
*Correct if*: only what was tried is given up; exploration ends; a paused robot
is sent nowhere; the copy is the publisher's map; the search finds every frontier
once, with all its cells.

### Map merge: `m-explore-ros2/map_merge`

*State*: one subscription per robot, newest in front; per robot the map in use and
the map being updated, often the same object; the pipeline's images and transforms.
*Operations*: discovery, estimation and merging timers; full and partial map
callbacks; `estimateTransforms`, `setTransforms`, `composeGrids`. *Hard*: robots
discovered between an estimation and a merge shift the indices; full maps and
updates overtake each other; a missing reference map. *Correct if*: no stale
patch, each map with its own transform, every robot with a known pose gets merged.

### Lidar: `rplidar_ros` (node and the SDK's driver)

*State*: codec state, unpacker selection, expected packet type, answer waiter, the
two buffers of `ScanDataHolder` with their event. *Operations*: the node's `init`,
work loop, `start_motor`/`stop_motor` and exit; the driver's `connect`, `startScan`,
`stop`, `grabScanDataHq`; the decoder thread's callbacks. *Hard*: three parties; a
packet type compared outside the lock that guards the answer; answers later than
their timeout; an event consumed before the lock is taken; samples of the previous
scan. *Correct if*: a signalled client finds a buffer; a scan is one revolution of
the scan started last; a started scan is delivered.

### Camera driver: `OrbbecSDK_ROS2/orbbec_camera`, `ob_camera_node_driver.cpp`

*State*: device and camera node handles, `device_connected_`,
`device_connecting_`, `reset_device_flag_`, two mutexes, a condition variable and an
interprocess lock. *Operations*: the SDK's device-changed callback, the threads
`queryDevice` and `resetDevice`, the reboot service, the connection timer, the
signal handler and the destructor. *Hard*: five threads; flags tested in one lock
and set in another; hot-plugging during a start; joins in the destructor.
*Correct if*: one thread initialises the device; a camera that stays is in the end
connected; a signal ends the process.

### Camera streams: the same package, `ob_camera_node.cpp`, `ros_service.cpp`

*State*: `pipeline_` and its configuration, the color frame queue, the color thread
and `rgb_buffer_`, `is_running_`, `enable_stream_`. *Operations*: the pipeline's
frame callback, `onNewColorFrameCallback`, `toggle_color`, `set_streams_enable`,
reboot, `clean()`. *Hard*: services do not take the lock that `clean()` takes; a
notification without the queue's lock; a buffer deleted by one thread and used
by another. *Correct if*: the buffer outlives the thread; `clean()` ends; queued
frames are published.

### Sensor and wheel drivers of the robot, not modelled

| component | state and operations | correct if |
| --- | --- | --- |
| `elderbot_bringup/.../can_driver.py` | last velocity command, ramp, encoder ticks and pose, battery; timer, `/cmd_vel` and battery callbacks on one CAN device | odometry follows the encoders over failed reads and wrap-around; a battery value is a received one |
| `.../battery_monitor.py` | standalone reader of the same CAN channel | does not steal the driver's frames |
| `csb_drive/csb_drive/drive_pyserial.py` | byte buffer, hit and release counters per sensor, publication of scans | a torn frame is resynchronised; a released obstacle disappears |
| `.../ultrasonic_memory.py` | remembered cells with confirmation count and age | cells are confirmed, cleared and expired as configured |
| `.../initial_pose_pub.py` | start-up counter | publishes a bounded number of times |
| `wit_ros2_imu/.../wit_ros2_imu.py` | byte framing with a checksum | never interprets a misaligned frame |

### Never meant to be modelled

The `yahboomcar_*` demonstrations; `laser_filter.py`, `depth_scan_filter.py` and
`static_tf.py`, which map one message to the next without state of interest;
`drive.py`, launched nowhere; the vendored headers and libraries of the Orbbec SDK,
`magic_enum`, `csv.hpp`; launch files, the URDF and the shell scripts.

### How the components meet

`patrol_node`, `auto_dock_node` and `explore` do not know of each other. All send
goals to the same navigator, so each one's goal ends the other's; `auto_dock_node`
also deactivates Nav2's controller under a running patrol. `auto_dock_node` publishes
`/cmd_vel` itself while it backs up, and `can_driver` holds the last command until
the next one. The battery comes from `can_driver` on `/battery_state`. The
exploration reads Nav2's costmap or a map on two topics; several robots' maps come
together in `map_merge`. Lidar and camera publish sensor data and know of nobody.

## 2. Modules

| module | what it is |
| --- | --- |
| `AutoDock` | the docking node, with Nav2, battery, clients and signals as its environment |
| `Patrol` | the patrol node, with the navigator, clients and signals as its environment |
| `ActionServer` | abstract: what a client of either action may rely on, a server with one slot |
| `Mission` | both nodes on one Nav2, by instantiation of `AutoDock` and `Patrol` |
| `Explore` | the exploration's goal cycle, with the action client's messages, Nav2 and the map |
| `CostmapClient` | the exploration's copy of the map, and the publisher |
| `FrontierSearch` | the frontier search, cell by cell, on that copy (extends `CostmapClient`) |
| `MapMerge` | the merging node, with the robots and the network |
| `Lidar` | lidar, decoder thread and the node's thread |
| `Camera` | the camera driver's threads around one device handle |
| `CameraStreams` | the color stream: SDK callback, color thread, services, clean-up |
| `*Proofs` | theorems about the module of that name, and their proofs |
| `MC*` | instances for TLC: request sets, grids, poses, symmetry |

### AutoDock and the code

Each thread that can run the sequence, the monitor and one per goal, has a label
`pc[r]`. A step reads or writes shared state once; the reads that one `if` makes
are one step, but a test and the action it decides are two, so the gaps between
`goal_callback` and the monitor, between the edge test and `was_charging`, and
between `current_current` and `is_charging` in the battery callback are all
there.

| code | actions |
| --- | --- |
| `battery_callback` | `BatteryValues`, `BatteryFlag` |
| `goal_callback`, `cancel_callback` | `GoalCallback`, `CancelCallback` |
| `execute_auto_dock_callback` | `StartExecute`, `Enter`..., `ExecuteReport`, `ExecuteFinally` |
| `run_docking_sequence` | `Enter`, `Decide`, `GoToPrep`, `WaitPrep`, `Stabilize`, `DeactivateNav2`, `BackupTest`, `Reverse`, `FullStop`, `ActivateNav2`, `ClearDocking`, `Raise` |
| `monitor_loop`, `handle_start_charging`, `handle_low_battery` | `Boot`, `Poll`, `TestEdge`, `HandleStartCharging`, `LatchCharging`, `TestLowBattery` |
| `main` | `MainFinally`, `Exit` |
| SIGINT and SIGTERM, SIGKILL, a new start | `Interrupt`, `Kill`, `Restart` |

`Return` is the one place that says how a `return` of the `try` block passes through its
`finally`: Nav2 is activated exactly if `nav2_deactivated` was set. `Raise` is the
handler of line 593: any call of rclpy between the first and the last step of the
sequence may raise, after a command as well as before it, and `full_stop` is then
skipped. A `KeyboardInterrupt` (`Unwind`) passes through the same clauses, but it can
also hit inside `deactivate_nav2`, where `nav2_deactivated` is not set yet, or inside
the `finally` clause itself; `main`'s `finally` is what saves those cases.

Abstracted: poses and odometry (the backing-up may reach its distance limit after any
command), percentages (low or not), currents (above 0.1 A or not), message texts,
feedback, the contents of `dock_pose.yaml`. `waitUntilNav2Active()` returns.
`navigator.cancelTask()` before `goToPose()` is a no-op, because that `BasicNavigator`
was made a moment before. A rejected goal shows like one that is aborted at once. The
names of finished goals are reused (`ForgetGoal`).

`Faults` says what may happen: `lifecycle` (a lifecycle call fails or times out
unnoticed), `interrupt` (SIGINT or SIGTERM), `raise` (a call raises while the context
lives; afterwards every call may), `kill`, `tf` (no transform when the pose should be
recorded). `left_off` is history: this process was started after a kill that left Nav2
off, and no docking has restored it since.

### Patrol and the code

The label of a goal's thread follows `execute_callback`; the callback's locals
are variables of their own, because `OneGoalInFlight` (proved) says that one
callback runs at a time. `nav` is the last goal the navigator accepted from this
callback, which is what `isTaskComplete()` and `getResult()` answer for; `reached`
and `rejected` are history, what the navigator really did. The two seconds of
`_wait_for_task_stop` and the navigation timeout are steps that may come at any
moment. `AsksNav2` names the steps in which the callback waits for Nav2 without a bound:
`waitUntilNav2Active()`, the answer to `goToPose()`, the answer to `cancelTask()`.
`Faults`: `reject` (Nav2 rejects a goal), `raise` (an exception in the
loop), `stop` (a signal).

### Mission

`Mission` instantiates both modules with the state they really share. Of Nav2 it
assumes that it drives to one goal at a time: a `goToPose()` of either node that is
accepted ends the other's goal as aborted. It also assumes that Nav2 completes
goals only while controller and smoother are active. `DockBehaves` and
`PatrolBehaves` say that each component, seen alone, still behaves as its own
module says: what `AutoDock` and `Patrol` assume of their environment is what the
other node does to it. That Nav2 has one slot is an assumption about Nav2 and no
property of the nodes; what they owe one another is `CommandsCutOff`, which they do not
keep (section 3).

### Explore, CostmapClient and FrontierSearch

| code | actions |
| --- | --- |
| constructor's `makePlan`, `exploring_timer_` | `Start`, `exploring_timer`, both through `makePlan` |
| `resumeCallback` | `Stop`, `Resume` |
| `reachedGoal`, the result of `returnToInitialPose` | `Deliver`, in any order of the goals |
| the action client | `requests`, `cancels`, `results`: messages under way; `AcceptGoal`, `AcceptCancel` |
| Nav2, the robot, the map | `NavEnds`, `Drive`, `MapChanges` |
| `updateFullMap`, `updatePartialMap`, constructor | `Receive`, `Subscribe` |
| a map to the client: an edit, a growth | `PublishUpdate`, `PublishFull`; `edits` bounds how many are to come |
| `searchFrom` | `searchFrom`, `Pop`, `Visit`, `Built`, `Searched` |
| `nearestCell` | `nearestCell`, `Seek` |
| `buildNewFrontier` | the last alternative but one of `Visit`, then `PopBuild`, `Grow` |

The node has one thread: a callback is a step of `Explore`. The world is a line with
frontiers on it; the frontier list comes from the map directly, because `FrontierSearch`
is checked by itself, against a definition without an algorithm (`FindsTheFrontiers`).
Messages are faster than `progress_timeout`; a rejected goal calls nothing back, as in
the code; no previous goal stands for the origin, where `prev_goal_` starts (section 7);
a result that is neither aborted nor canceled plans again. The search takes one cell off
a queue per step, or looks at one neighbour; its distances are compared squared, its
centroids kept as sums, and, since the costs are left out, the sorted list is the list
in any order (`Orders`). What an update holds is the publisher's window at the time of
sending, so that `CopyIsCurrent` compares cells.

### MapMerge

A map's content is the stamp of the full map beneath and the stamps of the updates
copied into it. `writable_map` says whether the map to be updated is set; when it is,
it is the very object in use (`readonly_map`), so that an update changes that one in
place. Discovery puts robots in front (`topicSubscribing`), in any order of one
discovery. What the feature matcher finds is a choice of subset and reference
(`estimateTransforms`); pixels, warping and tf are left out. `node` is `threw` when
`composeGrids` throws out of a callback, `crashed` when it dereferences a map that
has not arrived.

### Lidar

The model is of the C1 in the scan mode `Standard` that the launch file sets. A call
of the driver is a sequence of steps (`Program`): commands without an answer,
questions, and what to skip when one fails; the node's thread takes them one by
one, while the decoder thread takes packets from the line (`onDecodeData`,
`onSampleData`, `onData`, `onHQNodeDecoded`, `Compare`, `StoreAnswer`). Disabling the
data grabbing and leaving the codec's loop mode are one step with the command that
follows; a packet is a message; write errors and unplugging are not modelled. The
lidar may still stream from a node that was killed (session 0). `Event::wait` has no
loop over its condition, so that it also returns on a spurious wake-up: with `Spurious`
every wait of the reader may, for a scan (`GrabReady`) as for an answer (`Answered`).

### Camera and CameraStreams

In `Camera` each of the five threads has a label; what one mutex protects is one
step, except `resetDevice`, which holds both mutexes from one step to the next
(`Locked`). A *session* is one stay of the camera on the bus, so a handle of an
earlier stay is told from the present one; `ignored` is history, the stays whose end
`onDeviceDisconnected` passed over because a start was under way or nothing was connected
yet. A start ends in the
steps `build`, `announce` (the flag `device_connected_`), `stream` (the test of
`ob_camera_node_`) and `streaming` (its use), and `startStreams()` may throw with the
camera there. `clean()` of a camera node is run by the reset, by the reboot service and
by the destructor, before anything is joined; with `CleanMayHang` it may never return,
which `CameraStreams` shows it can. The node of which the destructor runs `clean()` may
be deleted by the reset, which is a use of a dangling pointer and ends the process. A
wait on the condition variable has no spurious wake-up. One camera, selected by serial
number from its second connection on.

`OneInitializer` is about the steps behind the interprocess lock. In front of it a
starter lets go of the handle it finds (`device_.reset()`), which may be the one another
starter has just made; the model has that step (`ReleaseOld`), and what becomes of it is
in `PluggedGetsConnected`, not in `OneInitializer`.

In `CameraStreams` the color thread's loop is split at every read of shared state:
the loop test with `rclcpp::ok()`, the queue's lock, the test of the predicate, going
to sleep, and the work, so that a notification can fall between test and sleep (`deaf`).
A set of frames may come without color although color is configured; a decoding or
publication that throws ends the process, for nothing catches it; `Shutdown` takes
`rclcpp::ok()` away. Using `pipeline_` while another thread replaces it is undefined in
C++ and taken to end the process. Services are served after the first start of the
streams.

## 3. Runs

| run | instance | states | shows |
| --- | --- | --- | --- |
| `autodock_safety` | 2 goals, the monitor, 2 iterations, `tf` | 0.1 million (with symmetry) | no two threads in the sequence, truth of its flag, hand-over of the wheels, no stray navigation; implements `ActionServer` |
| `autodock_shutdown` | 1 goal, `interrupt`, `raise`, `kill`, fair | 1.3 million | Nav2 is given back whatever ends the sequence; a signal ends the process, from any step, and leaves Nav2 on |
| `autodock_liveness` | 1 goal, `kill`, `lifecycle`, `raise`, fair | 0.8 million | every docking ends, every goal ends, a low battery is served |
| `patrol` | 2 goals, every fault, fair | 0.4 million | each visit counted once, only real arrivals but for rejected goals, success means all rounds, no abandoned navigation; cancellation and timeouts end the patrol; implements `ActionServer` |
| `mission` | one patrol and the monitor; kill of the docking node, rejected goals, failing navigator | 1.1 million | both components keep their own specification |
| `explore` | 3 frontiers, 2 pause/resume messages, 1 map change, aborts and rejections, fair | 1.0 million | only what was tried is given up; exploration ends; a node that stays paused does not drive on for ever |
| `frontiers` | every 3 by 3 map of unknown, free and lethal cells; 2 by 2 maps that change | 4.1 million | the search finds exactly the frontiers; the copy is the publisher's map |
| `map_merge` | 3 robots (at the origin, elsewhere, without a pose), 3 messages, known poses or not, fair | 0.2 million | order of updates, own transforms, what known poses survive, everyone gets merged |
| `lidar` | 2 samples a revolution, 4 revolutions, 2 starts, 1 lost sample, 1 late answer, no spurious wake-up, fair | 1.3 million | buffers, one revolution of this start, a started scan is delivered |
| `camera` | 2 stays on the bus, 1 failure or reboot, `clean()` may hang, a signal, fair | 1.3 million | one initialiser; a camera that stays gets connected; a signal ends the process |
| `camera_streams` | 3 frames, 3 service calls, fair | 0.5 million | the buffer lives, `clean()` ends, frames come out |

The twelfth run, `mission_starved`, is expected to end in a violation, because the code
does not keep what the repository says of it. Twelve more configurations of the same
kind stand beside it. They are not among the project's runs; `tlc -config <name>.cfg
<module>` with the module named reproduces each. Each checks one property, which states
the quoted line; where a passing run checks a weaker property beside it, that one says
how far the failure goes.

| configuration | statement | what happens | bounded by |
| --- | --- | --- | --- |
| `autodock_reverse` (`MCAutoDock`) | backing up is a closed loop that stops at once (`auto_dock_node.py:383`) | an exception in the loop ends the sequence without `full_stop`: the reverse command stands and nobody watches it | |
| `autodock_lifecycle` (`MCAutoDock`) | Nav2 is restored (`auto_dock_node.py:378`) | a lifecycle call that fails is not noticed and not repeated: Nav2 stays off | `Nav2Restored` where calls do not fail |
| `patrol_rejected` (`MCPatrol`) | a counted waypoint was reached (`patrol_node.py:246`) | a rejected goal is judged by the result of the goal before it | `CountedWasReached` |
| `mission_starved` (`MCMission`) | a low battery cuts off every navigation command (`run_autodock.sh:14`) | an endless patrol takes the navigator back from every docking | |
| `mission_cutoff` (`MCMission`) | the same line | the patrol has a goal under way in the middle of the docking sequence, and takes the robot for driving while the dock backs it up | `DockBehaves`, `PatrolBehaves` |
| `explore_pause` (`MCExplore`) | a pause stops exploration and robot (`m-explore-ros2/README.md:64`) | a success that comes after the pause plans and sends the next goal | `RestsForGood` |
| `map_merge_reference` (`MCMapMerge`) | any resolution works with known poses (`merging_pipeline.cpp:219`) | the map at the identity has not arrived: a null pointer is read | `KnownPosesSurvive` |
| `lidar_spurious` (`MCLidar`) | an assertion (`sl_lidar_driver.cpp:322`) | a spurious wake-up takes the reader to it with no scan there | `AvailableWhenSignalled` without spurious wake-ups |
| `lidar_lost` (`MCLidar`) | all nodes belong to exactly one scan (`sl_lidar_driver.h:422`) | a lost sync sample joins two revolutions | `RevolutionOfThisStart` |
| `camera_stale` (`Camera`) | an added device that is not started is connected already (`ob_camera_node_driver.cpp:296`) | an unplugging during a start is passed over and the next plugging in is dropped: the driver holds on to a camera that is gone | `PluggedGetsConnected` |
| `camera_reset` (`Camera`) | the reset keeps other threads off the device (`:458`) | a start under way goes on with the handles that are torn down | `OneInitializer` |
| `camera_shutdown` (`Camera`) | the destructor stops the threads (`:154`) | it joins a thread that waits for a notification which comes after the join | `ShutdownEnds` |
| `camera_clean` (`CameraStreams`) | clearing `is_running_` stops all operations (`ob_camera_node.cpp:135`) | flag and notification fall between the color thread's test and its block | `CleanEnds` |

Other places where the code departs from what a comment or a document says were met
while modelling and are in the models without a run of their own: a goal that comes
while the monitor takes the dock is accepted and then aborted, although
`action/AutoDock_README.md:121` says that it is rejected (`goal_callback` and the
monitor test each other's flag under different locks); a charging edge that falls into
an action's docking, or between test and latch, is consumed without recording the pose
(`auto_dock_node.py:6`); Ctrl+C takes the context away before `cancelTask()`, so the
navigation goal stays (`run_patrol.sh:28`).

### Bounds and why they are enough

Two goals and the monitor are all that can compete: the code tells at most one
goal from the others (`_action_goal_active`), and a third goal is turned away in
the states in which the second is. Runs with signals use one goal, the thread that
a signal does not reach, and the monitor, the one it does. `MaxTicks` 1 or 2
distinguishes "no command yet", "some" and "at the limit". The patrol requests
(`SomeRequests`) cover the branches of the request: configured or named list, one
or two rounds, endless, unknown name, with and without timeout and wait; an endless
patrol counts from zero again after `RoundBound` rounds, to keep its counters
finite. `Mission` has no `/auto_dock` goal: the monitor's docking runs the same
sequence.

`explore`: two frontiers to choose between and a third that one of them blacklists,
one goal under way besides the one executed, pause and resume once each.
`frontiers`: in a 3 by 3 grid a cell has all eight neighbours, and every row end
touches every kind of cell; a frontier of one cell is too small, one of two is not;
the robot is in a corner, in the middle or outside the map. `map_merge`: a full map,
an update and one more message are what it takes to overtake; three robots, to be
discovered before and after an estimation. `lidar`: two samples distinguish the sync
sample from the others; `BufferSize` is one revolution, so that a lost sync
sample makes the buffer overflow; a second start after a first. `camera`: the
handle of a first stay beside a second stay, each stay with its own unplugging and
plugging events, and one failure or reboot at any moment of either. `camera_streams`:
OFF, ON and a clean-up. The configurations that end in a violation use the instances of
the passing runs or similar ones. The theorems of
section 5 hold for every value of these constants.

`CHECK_DEADLOCK FALSE` stands where the system may stop: an exploration that has
finished, a process that has ended or crashed, or bounds that are used up.

### Fairness

`AutoDock!FairSpec`: threads that can run do run (monitor, goals' threads, the battery
callback once begun), `main` ends once the threads are done, and Nav2 comes up, answers
a goal and ends one that it executes, which Nav2's progress checker and recovery limits
justify; the code waits for these three without a bound. Clients, battery, signals and
restarts owe nothing. `Patrol!FairSpec` assumes the same of its threads and of `main`
(`ThreadsRun`), and of Nav2 that it comes up and answers requests (`Nav2Answers`),
because `waitUntilNav2Active()`, `goToPose()` and `cancelTask()` wait for that without a
bound: a patrol whose Nav2 is dead can be neither canceled nor timed out. It does *not*
assume that the navigator ends a goal, canceled or not; the waits for that are bounded
by the code. In both, an exception is owed only once the context is gone, when every ROS
call raises; before that it may come or not. `Mission` assumes the union.

`Explore`: the executor runs the timer and delivers each result, time passes, Nav2
takes requests and ends what it executes; nobody has to pause or resume and no
frontier has to appear or close. `MapMerge`: timers fire, what has arrived is
delivered. `Lidar`: lidar, decoder and client each run; nothing has to be lost or
late. `Camera` and `CameraStreams`: each thread that can run does, and ten seconds pass;
plugging, frames, service calls, failures, signals and spurious wake-ups are owed by
nobody.

## 4. Properties of note

`DockingFlagTruth` is the reason why a docking can start again after any end of
the previous one. `BackupOwnsBase` and `Nav2Restored` are two halves of one
contract: while the node drives, Nav2 does not, and otherwise it does. Both need
lifecycle calls that do what they are told; the code looks at no answer of theirs.
What a killed process left off stays off until a docking has restored it.
`ExitRestoresNav2` holds only because `main` waits for the executor's threads:
a goal's thread may deactivate Nav2 *after* `main` has activated it.
`ReverseSupervised` is what the wheels, which hold the last command, need of the node,
and the code does not keep it: not after an exception, with the context alive, and not
after a signal. `NoStrayNavigation` holds where neither of the two happens.

`VisitsCountedOnce` is an invariant between the three counters and the position in
the list; `SuccessMeansAllRounds` is its consequence at the moment of the result.
`CountedWasReached` is exact about rejected goals: an arrival is counted that never
was only when a goal was rejected and the previous one's result taken for its own;
`patrol_rejected` shows that this does happen.
`NoAbandonedNavigation` is an action property: a patrol's thread leaves its loop
only with its navigation goal ended or asked to end, while the context lives.
`CancelEnds` and `TimedPatrolEnds` hold though the navigator ends no goal, where Nav2 is
up and answers requests.

`TriedBeforeGivenUp` depends on progress being measured from the moment a goal
becomes the previous goal, so that the timeout cannot overtake the request.
`PausedSendsNoGoal` is what the documentation promises of a pause and fails, because a
success that arrives late plans again. `RestsForGood` is what is left of it: a node that
is not resumed does not do so for ever, and the robot comes to rest and stays there.
What it does not exclude is that a paused robot visits frontiers one after another for
as long as each result comes as a success and there are frontiers left.
A frontier within the tolerance of one that was blacklisted is given up with it
(`Close`), untried; `TriedBeforeGivenUp` is about the list itself.

`RevolutionOfThisStart` relates what the node publishes to the SCAN command it sent
last, through stops, late answers and a lidar that was streaming before; with
nothing lost on the line a scan is exactly one revolution. `StartDelivers` says that
the answer descriptor of the sample stream is never lost to a question that came
before.

Several liveness properties of the camera name in the formula the circumstances under
which the code does *not* keep the promise, and say by that that there are no others in
the model; the promises without these exceptions fail, most in configurations of their
own.
`PluggedGetsConnected` asks for a camera node on the present stay of the camera, and
excuses: a node on a stay whose end was passed over during a start (`camera_stale`), be
it while `device_connecting_` was set, or after a reset had cleared that flag under the
start and before it set `device_connected_`; a
thread that waits for a reset which the reboot service called off; a handle that was
cleared between test and use; a clean-up that hangs. `ShutdownEnds` excuses a looking
thread that waits for a reset which will not come (`camera_shutdown`), a clean-up that
hangs, in the destructor or elsewhere, and the use of a node deleted meanwhile.
`CleanEnds` excuses the color thread that misses flag and notification (`camera_clean`),
`FramesComeOut` a color thread that has left, because color was off when it came to its
loop test or rclcpp was down: it is not made again. `GetsMerged` and `KnownPosesSurvive`
excuse the missing reference map (`map_merge_reference`), `CopyIsCurrent` an update that
was sent before the copy's subscription, and no full map since. What is excused is not
checked: the fault itself is shown by the configuration named, or only described here.

## 5. Proofs

| theorem | states | assumption |
| --- | --- | --- |
| `AutoDockProofs!TypeCorrect` | `TypeOK` | |
| `SequenceExclusive` | `OneSequence` | |
| `DockingFlagTrue` | `DockingFlagTruth` | |
| `GoalExclusive` | `OneGoalInFlight` | |
| `ImplementsActionServer` | `ServesOneGoal` | |
| `BackupOwnsBaseReliable` | `BackupOwnsBase` | lifecycle calls do not fail |
| `Nav2RestoredReliable` | `Nav2Restored` | lifecycle calls do not fail |
| `OrderlyExitRestores` | `ExitRestoresNav2` | lifecycle calls do not fail |
| `NavigationNeverStrays` | `NoStrayNavigation` | no signals, no exceptions |
| `PatrolProofs!PatrolTyped` | `TypeOK` | |
| `OnePatrol` | `OneGoalInFlight` | |
| `EveryVisitCounted` | `VisitsCountedOnce` | |
| `ArrivalsAreReal` | `CountedWasReached` | |
| `SuccessIsComplete` | `SuccessMeansAllRounds` | |
| `NothingAbandoned` | `NoAbandonedNavigation` | |
| `PatrolImplementsServer` | `ServesOneGoal` | |
| `MissionProofs!DockImplemented` | `DockBehaves` | |
| `PatrolImplemented` | `PatrolBehaves` | |
| `ExploreProofs!ExplorationTyped` | `TypeOK` | |
| `OnlyTriedGivenUp` | `TriedBeforeGivenUp` | |
| `CopyFollowsMap` | `CopyIsCurrent` of the client alone | the two topics keep their common order |
| `CopyFollowsMapBetweenSearches` | `CopyIsCurrent` with searches in between | the same |
| `SearchIsComplete` | `FindsTheFrontiers` | |
| `MapMergeProofs!MergingTyped` | `TypeOK` | |
| `UpdatesInOrder` | `PatchesAreNewer` | |
| `TransformsMatch` | `OwnTransform` | |
| `KnownPosesAreSafe` | `KnownPosesSurvive` | |
| `LidarProofs!LidarTyped` | `TypeOK` | |
| `SignalMeansBuffer` | `AvailableWhenSignalled` | no spurious wake-up |
| `ScanStartsDrained` | at SCAN no earlier stream is left on the line or in the buffers | few timeouts |
| `PublishedScanIsWhole` | `RevolutionOfThisStart` | few timeouts |
| `CameraProofs!CameraTyped` | `TypeOK` | |
| `StartsExclusive` | `OneInitializer` | |
| `CameraStreamsProofs!StreamsTyped` | `TypeOK` | |
| `BufferOutlivesThread` | `BufferLives` | |
| `FrontExists` | the color thread never takes the front of an empty queue | |

They hold for every set of goals, requests, robots and frontiers, every map, every bound
and every set of faults unless the table says otherwise. Besides, they use only the
named assumptions on the constants of each module (the monitor is not a goal, `MaxTicks`
is positive, a buffer holds a revolution, no frontier is called `no goal`, a map is what
`nav_msgs/OccupancyGrid` allows), which TLC evaluates in the runs. The hypotheses are
those of the runs that check the same property: `autodock_safety` and
`autodock_shutdown` have no failing lifecycle calls, `frontiers` has `Ordered = TRUE`,
`lidar` one late answer and no spurious wake-up. About reliable calls, signals and
exceptions, spurious wake-ups and the order of topics they are necessary: without them
the property is false in the code. *Few timeouts* (`FewTimeouts`) says that no wait ends
spuriously and that fewer answers come late than `start()` insists on, four and three
for each field of the scan mode; it is what the argument needs, since an answer that
comes late can be taken for that of the next question of its kind. None of the
properties is inductive by itself; each module's `Inv` adds what is missing.

*Docking.* `OneSequence` needs that whoever is in the sequence holds `is_docking`
(`Exclusive`); the type of `ticks` needs that a command is prepared only below the
limit (`BelowLimit`), which in turn needs `Exclusive`, because a second thread could
use up the iteration the first has tested; `OneGoalInFlight` needs that a dead
process has no live goal (`Dead`), and the refinement that a goal's thread works on
a live goal until it reports (`Working`). About Nav2, `Handover` says that what a
thread has switched off stays off until it switches it on, which rests on
`Exclusive` and on `main` touching Nav2 only after the context is gone;
`Nav2Given` says that what is off has a thread that will switch it on, or that
`main` still will, or was left off by a killed process (`left_off`); an exception does not
disturb it, because the `finally` clause runs. `GivenAtEnd` keeps the part of
it that survives, what an ending process owes, and is what `OrderlyExitRestores`
rests on. The lemmas `SequenceMoves`, `MonitorMoves`, `ServerMoves`,
`InterruptMoves`, `ProcessMoves` and `EnvironmentMoves` say how each group of
steps moves the labels, once, for all the invariants.

*Patrol.* One thread at a time (`Exclusive`) makes the callback's locals shared
state that nobody else writes; `StatusFits` ties a goal's status to the label of its
thread, `Position` the waypoint index to the label. The counters then follow
(`VisitsCountedOnce`); `AllDone` says that the thread about to succeed has used up
its rounds, `Credit` that an arrival still to be counted is in `reached` or
`rejected`, `Handed` that the navigator's goal belongs to a thread that watches it.

*Mission.* The two refinements need no invariant: each step of the other node maps to
the navigator's aborting a goal or to a stutter. Together with `AutoDockProofs` and
`PatrolProofs` they carry the nodes' theorems over to the robot.

*Explore.* `Sent` says that the previous goal has been received or is under way,
`Received` that after a progress timeout it has arrived, `Heard` that results are of
goals received, `Constructed` that nothing is under way before the first plan.

*The copy of the map.* What a cell of the copy will be, once all messages have
arrived, is decided by the last message that covers it; `Coming` says that this is the
published value. For that an update must be taken by a copy of the size it was cut
from, which `Sized` and `Fits` say: behind the last whole map all updates fit it.
The index arithmetic (`RowColumn`, `CellOfWindow`, `WindowWrites`) is proved for any
width and height. `CopyTyped`, which needs no order of the topics, says that the copy
is a grid of costs: an update that sticks out of a smaller map reads within its own
data (`TakenWithin`).

*The search.* `nhood4` and `nhood8` are the cells at distance one (`Neighbours`),
whatever the width, so that none wraps into the next row. `nearestCell` is a wave
around the robot (`Wave`): all cells nearer than the one at the front of the queue
have been looked at, which makes the first free cell a nearest one, and an empty queue
the end of the map. `Flood` says that the flood has visited only free cells around its
start, and that a neighbour of a visited cell is visited, flagged, or still to be
looked at; `Building` the same of the frontier that is being built; `Found` that the
other flags are whole frontiers, each beside the flood, and that the list is the
large ones among them. When the queue is empty the visited cells are closed under
steps, and so are all that the start reaches: no induction over paths is needed,
because `ReachedFrom` is defined by closed sets. `Reordered` covers the sorting.

*MapMerge.* `Ordered` says that a robot's updates in flight are in the order of their
stamps, that none has a full map's stamp, and that once the map in use is changed in
place every update to come is newer than the full map beneath. `AlignedWith`: robots
are only put in front, so that an older list is the tail of the present one.

*Lidar.* `Signalled`, which needs waits that end with a signal only, survives the swap
of the buffers because only the thread that takes the lock resets them; `Capacity` needs
that a full buffer overwrites its last sample; `WaitsInCalls` that the thread waits only
inside a call that knows what a failure means; `Handled` that the decoder's message is
what its label says. For the published scans, the SCAN command, and later the header of
its stream, mark on the line what is older; `MarkInv` says that the decoder has not seen
the mark while it is there, and bounds the old answers behind it, so that `start()`,
which insists on more of them, drains the line before it sends SCAN again. From the
header on the line holds the new scan in order up to the sample that the lidar takes
next, and decoder, buffers and published scan continue it (`ScanInv`).

*Camera.* `LockHeld`: whoever is past the interprocess lock holds it until it lets go,
whatever the reset does to the flags, and keeps it in a clean-up that hangs.
*CameraStreams.* `ThreadFits` ties the thread object to the color thread's label,
`Stopping` says how far `clean()` is once the thread has been joined, `FrameAtHand` that
the queue is locked and not empty while the thread works.

Every safety invariant and action property that a passing run checks is proved. Left to TLC
is liveness, which the installed provers do not reach: `StopEnds`, `DockingEnds`,
`GoalEnds`, `LowBatteryServed`, `CancelEnds`, `TimedPatrolEnds`, `ExplorationEnds`,
`RestsForGood`, `GetsMerged`, `StartDelivers`, `PluggedGetsConnected`, `ShutdownEnds`,
`CleanEnds` and `FramesComeOut`. What the theorems that name an assumption say without
it is not left to TLC but false, and section 4 or 6 says how.

## 6. Hazards

`PROJECT.json` lists what is hard to test in this code, at its line, with the
properties that would catch it going wrong. Where the code goes wrong there, the
property is that of a configuration in the second table of section 3, which the hazard's
note names, and what the list names is the property that bounds it, if there is one. No
property of a run covers a reverse command left standing, by an exception or because
`can_driver` has no watchdog (`ReverseSupervised` fails), nor a partial update that sticks
out of the costmap, which the publisher of the model does not send. Further hazards of
the same code, left to this section:

- docking: a lifecycle call that timed out and takes effect later, after the opposite
  call; another client's goal that drives off during the stabilising pause;
  `dock_pose.yaml`, rewritten in place, torn by a kill (label `load`); a lost charging
  edge; a battery that starts at 100 % while `can_driver` publishes 0 % until its first
  frame; a Nav2 that does not answer, for which `goToPose` waits without a bound;
- patrol: a cancel request between the check and `goToPose` lets one late goal start; a
  status callback of an earlier goal that arrives late;
- wheels, ultrasonic and IMU drivers: 32-bit tick wrap-around, a failed read that spans
  two periods, battery frames of one batch, resynchronisation after a lost byte, hit
  counters that survive a gap;
- exploration: the first cell of a frontier counts in its size but not in its centroid;
  `nearestCell` looks through walls; map and update topics in another order than they
  were sent (`Ordered = FALSE`);
- map merge: a failed estimation makes the next merge throw; an update shifted when it
  sticks out of the map;
- lidar: scan periods in 16 bits; codec and unpacker flags shared without a lock
  (`codec`, `unpacker` are read and written in steps of their own); unplugging;
- camera: a second start behind an early test of `device_connected_`; reads of
  `ob_camera_node_` without a lock; two services and a clean-up on one `pipeline_`,
  which ends the process (`process = "crashed"`).

## 7. What the models leave out

*Docking and patrol*: a Nav2 that dies or is restarted by others; more than one docking
or patrol process; the contents of `dock_pose.yaml`, whole or torn.
*Exploration*: markers, tf failures, costs of the map's cells along the way;
`prev_goal_` starts at the origin of the map in the code and at no goal in the model, so
that a first frontier within a centimetre of the origin, which the code takes for the
goal it had before, is left out.
*Map merge*: feature matching, warping, tf.
*Lidar*: the loss of the header of a sample stream; capsule formats and other scan
modes, interval grabbing, TCP and UDP channels, motor control boards, auto standby,
firmware update.
*Camera*: network devices, firmware and preset updates, forced IP, the GMSL trigger;
depth, infrared and IMU streams, profiles, filters, image conversion, point clouds,
diagnostics, the tf thread, the one-call property services.

These last are most of the repository's lines: image conversion, enumerations of SDK
types, parsing of protocol frames and parameters, one call per property, with no
state between calls. Of the repository's C++ lines the models cover the parts with
threads, messages and state; the drivers in Python (`can_driver`, ultrasonic, IMU)
are single-threaded byte and number handling, whose hazards are numeric rather than
of order, and are left to unit tests with recorded frames.

## 8. What remains

1. `CanDriver` with `battery_monitor` on the same channel, composed with `AutoDock` at
   `/cmd_vel` and `/battery_state`; the ultrasonic hit filter and memory.
2. `CameraStreams` with the depth and IMU streams, whose threads and services have the
   same shape as the color stream's.
3. `AutoDock` with late lifecycle effects; `Mission` with the exploration as a third
   client of the navigator.
4. Proofs: the safety halves of the liveness properties, such as who holds what a
   waiting thread waits for.
