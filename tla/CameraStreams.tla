--------------------------- MODULE CameraStreams ---------------------------
(***************************************************************************)
(* The color stream of one OBCameraNode (orbbec_camera): the SDK's thread  *)
(* runs the pipeline's callback and queues the frames that have color, the *)
(* color thread decodes them into rgb_buffer_ and publishes them, the      *)
(* executor serves toggle_color, set_streams_enable and the reboot, and    *)
(* the driver's reset thread destroys the node when the camera goes.       *)
(*                                                                         *)
(* The services do not take device_lock_; clean() and stopStreams() do.    *)
(* pipeline_ is shared without a lock: using it while another thread       *)
(* replaces it is undefined, and taken here to end the process.            *)
(***************************************************************************)
EXTENDS Integers, Sequences

CONSTANTS
    enable_point_cloud,  \* somebody subscribes to the depth point cloud
    MaxFrames,           \* bound: frames captured
    MaxCalls             \* bound: service calls

ASSUME CameraStreamsAssumption ==
    enable_point_cloud \in BOOLEAN /\ MaxFrames \in Nat /\ MaxCalls \in Nat

VARIABLES
    ok,                \* rclcpp::ok()
    is_running,        \* is_running_
    enable_color,      \* enable_stream_[COLOR]
    pipeline,          \* pipeline_: "null", made or stopped: "off", delivering: "on"
    with_color,        \* the configuration it was started with has color
    pipeline_started,  \* pipeline_started_
    device_lock,       \* who has device_lock_: "nobody", "service" or "reset"
    queue,             \* color_frame_queue_
    frames,            \* frames captured so far
    capture,           \* the SDK's thread: "idle", or in the callback with a "frame"
    color,             \* the color thread
    thread,            \* colorFrameThread_: "null", "joinable" or "joined"
    rgb_buffer,        \* "null", "allocated" or "deleted"
    service,           \* the executor in a service
    cleaner, cleaning, \* who runs clean(), and how far it is
    calls,             \* service calls so far
    process            \* "up", "gone" with the node, or "crashed"

flags == <<ok, is_running, enable_color>>
stream == <<pipeline, with_color, pipeline_started>>
feed == <<queue, frames, capture>>
colorVars == <<color, thread, rgb_buffer>>
cleanVars == <<device_lock, cleaner, cleaning>>
vars == <<flags, stream, feed, colorVars, service, cleanVars, calls, process>>

TypeOK ==
    /\ ok \in BOOLEAN /\ is_running \in BOOLEAN /\ enable_color \in BOOLEAN
    /\ pipeline \in {"null", "off", "on"}
    /\ with_color \in BOOLEAN /\ pipeline_started \in BOOLEAN
    /\ device_lock \in {"nobody", "service", "reset"}
    /\ queue \in Seq(1..MaxFrames) /\ frames \in 0..MaxFrames
    /\ capture \in {"idle", "frame"}
    /\ color \in {"none", "loop", "lock", "test", "parking", "blocked", "deaf", "woken", "work",
                  "exited"}
    /\ thread \in {"null", "joinable", "joined"}
    /\ rgb_buffer \in {"null", "allocated", "deleted"}
    /\ service \in {"idle", "stop", "set", "reset", "start", "thread", "started", "stopStreams",
                    "stopping", "clean"}
    /\ cleaner \in {"nobody", "service", "reset"}
    /\ cleaning \in {"no", "flag", "lock", "notify", "join", "stopStreams", "stopping", "free"}
    /\ calls \in 0..MaxCalls
    /\ process \in {"up", "gone", "crashed"}

(* The node is constructed and about to start its streams, before the      *)
(* first service call.                                                     *)
Init ==
    /\ ok = TRUE /\ is_running = TRUE /\ enable_color \in BOOLEAN
    /\ pipeline = "null" /\ with_color = FALSE /\ pipeline_started = FALSE
    /\ device_lock = "nobody"
    /\ queue = <<>> /\ frames = 0 /\ capture = "idle"
    /\ color = "none" /\ thread = "null"
    /\ rgb_buffer = IF enable_color THEN "allocated" ELSE "null"
    /\ service = "reset"
    /\ cleaner = "nobody" /\ cleaning = "no"
    /\ calls = 0 /\ process = "up"

Crash == process' = "crashed"

(* color_frame_queue_lock_ is held by the color thread from its return     *)
(* from the wait, or its test, to the end of its turn.                     *)
QueueLocked == color \in {"test", "parking", "woken", "work"}

(* notify_all() on color_frame_queue_cv_.                                  *)
Notified == IF color \in {"blocked", "deaf"} THEN "lock" ELSE color

-----------------------------------------------------------------------------
(* The pipeline's callback                                                 *)

Capture ==
    /\ pipeline = "on" /\ capture = "idle" /\ frames < MaxFrames
    /\ frames' = frames + 1
    /\ capture' = IF is_running THEN "frame" ELSE "idle"
    /\ UNCHANGED <<flags, stream, queue, colorVars, service, cleanVars, calls, process>>

(* Variant: the frame is pushed without a notification.                    *)
PushSilently ==
    /\ ~QueueLocked
    /\ queue' = Append(queue, frames)
    /\ UNCHANGED <<color, process>>

Push ==
    /\ ~QueueLocked
    /\ queue' = Append(queue, frames)
    /\ color' = Notified
    /\ UNCHANGED process

(* Without color, or with a frame set that has none, the callback          *)
(* publishes the point cloud itself, and CHECK_NOTNULL(pipeline_) aborts   *)
(* the process.                                                            *)
onNewFrameSetCallback ==
    /\ capture = "frame" /\ capture' = "idle"
    /\ \/ enable_color /\ with_color /\ Push
       \/ /\ IF enable_point_cloud /\ pipeline = "null" THEN Crash ELSE UNCHANGED process
          /\ UNCHANGED <<queue, color>>
    /\ UNCHANGED <<flags, stream, frames, thread, rgb_buffer, service, cleanVars, calls>>

-----------------------------------------------------------------------------
(* The color thread                                                        *)

Turn(from, to) == color = from /\ color' = to
ColorOnly == UNCHANGED <<flags, stream, feed, thread, rgb_buffer, service, cleanVars, calls>>

Loop ==
    /\ Turn("loop", IF enable_color /\ ok /\ is_running THEN "lock" ELSE "exited")
    /\ ColorOnly /\ UNCHANGED process

Lock == Turn("lock", "test") /\ ColorOnly /\ UNCHANGED process

Test ==
    /\ Turn("test", IF queue # <<>> \/ ~is_running THEN "woken" ELSE "parking")
    /\ ColorOnly /\ UNCHANGED process

(* The thread blocks some time after its test.  Once clean() has notified, *)
(* nobody has to wake it any more: it is deaf.                             *)
Park ==
    /\ Turn("parking", IF cleaning = "join" THEN "deaf" ELSE "blocked")
    /\ ColorOnly /\ UNCHANGED process

Spurious == color \in {"blocked", "deaf"} /\ color' = "lock" /\ ColorOnly /\ UNCHANGED process

Woken ==
    /\ Turn("woken", IF ok /\ is_running THEN "work" ELSE "exited")
    /\ ColorOnly /\ UNCHANGED process

(* Decode into rgb_buffer_, publish the image and the point cloud, pop.    *)
(* Nothing catches an exception of these.                                  *)
Work ==
    /\ Turn("work", "loop")
    /\ queue' = Tail(queue)
    /\ Crash \/ (~(enable_point_cloud /\ pipeline = "null") /\ UNCHANGED process)
    /\ UNCHANGED <<flags, stream, frames, capture, thread, rgb_buffer, service, cleanVars, calls>>

onNewColorFrameCallback == Loop \/ Lock \/ Test \/ Park \/ Woken \/ Work

-----------------------------------------------------------------------------
(* The services                                                            *)

Serve(from, to) == service = from /\ service' = to
Call(first) == ok /\ Serve("idle", first) /\ calls < MaxCalls /\ calls' = calls + 1

toggleSensorCallback ==
    /\ Call("stop")
    /\ UNCHANGED <<flags, stream, feed, colorVars, cleanVars, process>>

setStreamsEnableCallback ==
    /\ Call("reset") \/ Call("stopStreams")
    /\ UNCHANGED <<flags, stream, feed, colorVars, cleanVars, process>>

(* Stopping a pipeline waits for its callback to return.                   *)
Stopped == capture = "idle" /\ pipeline' = "off"

(* toggleSensor(): the new value is the other one, anything else is        *)
(* answered with "Already ON" or "Already OFF".                            *)
ToggleStop ==
    /\ Serve("stop", "set")
    /\ IF pipeline = "null" THEN Crash /\ UNCHANGED pipeline ELSE Stopped /\ UNCHANGED process
    /\ UNCHANGED <<flags, with_color, pipeline_started, feed, colorVars, cleanVars, calls>>

ToggleSet ==
    /\ Serve("set", "reset") /\ enable_color' = ~enable_color
    /\ UNCHANGED <<ok, is_running, stream, feed, colorVars, cleanVars, calls, process>>

(* startStreams(): the old pipeline is destroyed, which stops it; making   *)
(* the new one may fail, and so may starting it.                           *)
ResetPipeline ==
    /\ Serve("reset", "start") /\ pipeline' = "null"
    /\ UNCHANGED <<flags, with_color, pipeline_started, feed, colorVars, cleanVars, calls, process>>

StartPipeline ==
    /\ service = "start" /\ capture = "idle"
    /\ \/ service' = "thread" /\ pipeline' = "on" /\ with_color' = enable_color
       \/ service' = "idle" /\ pipeline' \in {"null", "off"} /\ UNCHANGED with_color
    /\ UNCHANGED <<flags, pipeline_started, feed, colorVars, cleanVars, calls, process>>

CreateThread ==
    /\ Serve("thread", "started")
    /\ IF enable_color /\ thread = "null"
       THEN thread' = "joinable" /\ color' = "loop"
       ELSE UNCHANGED <<thread, color>>
    /\ UNCHANGED <<flags, stream, feed, rgb_buffer, cleanVars, calls, process>>

Started ==
    /\ Serve("started", "idle") /\ pipeline_started' = TRUE
    /\ UNCHANGED <<flags, pipeline, with_color, feed, colorVars, cleanVars, calls, process>>

stopStreams ==
    /\ device_lock = "nobody"
    /\ IF pipeline_started /\ pipeline # "null"
       THEN /\ Serve("stopStreams", "stopping")
            /\ device_lock' = "service" /\ pipeline_started' = FALSE
       ELSE Serve("stopStreams", "idle") /\ UNCHANGED <<device_lock, pipeline_started>>
    /\ UNCHANGED <<flags, pipeline, with_color, feed, colorVars, cleaner, cleaning, calls, process>>

StopPipeline ==
    /\ Serve("stopping", "idle") /\ Stopped /\ device_lock' = "nobody"
    /\ UNCHANGED <<flags, with_color, pipeline_started, feed, colorVars, cleaner, cleaning, calls,
                   process>>

Services ==
    \/ ToggleStop \/ ToggleSet \/ ResetPipeline \/ StartPipeline \/ CreateThread \/ Started
    \/ stopStreams \/ StopPipeline

-----------------------------------------------------------------------------
(* clean(): by the executor in a reboot, by the reset thread in the        *)
(* destructor                                                              *)

rebootDevice ==
    /\ cleaning = "no" /\ Call("clean")
    /\ cleaner' = "service" /\ cleaning' = "flag"
    /\ UNCHANGED <<flags, stream, feed, colorVars, device_lock, process>>

(* rebootDevice() and the destructor exclude each other in the driver.     *)
Destroy ==
    /\ cleaning = "no"
    /\ cleaner' = "reset" /\ cleaning' = "flag"
    /\ UNCHANGED <<flags, stream, feed, colorVars, service, device_lock, calls, process>>

Step(from, to) == cleaning = from /\ cleaning' = to

ClearRunning ==
    /\ Step("flag", "lock") /\ is_running' = FALSE
    /\ UNCHANGED <<ok, enable_color, stream, feed, colorVars, service, device_lock, cleaner,
                   calls, process>>

LockDevice ==
    /\ Step("lock", "notify") /\ device_lock = "nobody" /\ device_lock' = cleaner
    /\ UNCHANGED <<flags, stream, feed, colorVars, service, cleaner, calls, process>>

(* Variant: the thread is joined without a notification.                   *)
NotifyNobody ==
    /\ Step("notify", IF thread = "joinable" THEN "join" ELSE "stopStreams")
    /\ UNCHANGED <<flags, stream, feed, colorVars, service, device_lock, cleaner, calls, process>>

Notify ==
    /\ IF thread = "joinable"
       THEN Step("notify", "join") /\ color' = Notified
       ELSE Step("notify", "stopStreams") /\ UNCHANGED color
    /\ UNCHANGED <<flags, stream, feed, thread, rgb_buffer, service, device_lock, cleaner, calls,
                   process>>

(* Variant: the thread is not joined.                                      *)
JoinNobody ==
    /\ Step("join", "stopStreams") /\ thread' = "joined"
    /\ UNCHANGED <<flags, stream, feed, color, rgb_buffer, service, device_lock, cleaner, calls,
                   process>>

Join ==
    /\ Step("join", "stopStreams") /\ color = "exited" /\ thread' = "joined"
    /\ UNCHANGED <<flags, stream, feed, color, rgb_buffer, service, device_lock, cleaner, calls,
                   process>>

StopStreams ==
    /\ IF pipeline_started /\ pipeline # "null"
       THEN Step("stopStreams", "stopping") /\ pipeline_started' = FALSE
       ELSE Step("stopStreams", "free") /\ UNCHANGED pipeline_started
    /\ UNCHANGED <<flags, pipeline, with_color, feed, colorVars, service, device_lock, cleaner,
                   calls, process>>

(* stopStreams() tests pipeline_ again: where it is null, a service took   *)
(* it away before that test, or after.                                     *)
StopCleaned ==
    /\ Step("stopping", "free")
    /\ \/ pipeline # "null" /\ Stopped /\ UNCHANGED process
       \/ pipeline = "null" /\ UNCHANGED <<pipeline, process>>
       \/ pipeline = "null" /\ Crash /\ UNCHANGED pipeline
    /\ UNCHANGED <<flags, with_color, pipeline_started, feed, colorVars, service, device_lock,
                   cleaner, calls>>

(* The destructor goes on to destroy the members: a thread that was never  *)
(* joined, or a service still at work, ends the process.                   *)
Free ==
    /\ Step("free", "no") /\ cleaner' = "nobody"
    /\ rgb_buffer' = IF rgb_buffer = "null" THEN "null" ELSE "deleted"
    /\ device_lock' = "nobody"
    /\ IF cleaner = "service"
       THEN service' = "idle" /\ UNCHANGED process
       ELSE /\ process' = IF thread = "joinable" \/ service # "idle" THEN "crashed" ELSE "gone"
            /\ UNCHANGED service
    /\ UNCHANGED <<flags, stream, feed, color, thread, calls>>

clean == ClearRunning \/ LockDevice \/ Notify \/ Join \/ StopStreams \/ StopCleaned \/ Free

(* A signal; the executor takes no more calls.                             *)
Shutdown ==
    /\ ok /\ ok' = FALSE
    /\ UNCHANGED <<is_running, enable_color, stream, feed, colorVars, service, cleanVars, calls,
                   process>>

-----------------------------------------------------------------------------

Node ==
    \/ Capture \/ onNewFrameSetCallback \/ onNewColorFrameCallback \/ Spurious
    \/ toggleSensorCallback \/ setStreamsEnableCallback \/ Services
    \/ rebootDevice \/ Destroy \/ clean \/ Shutdown

Next == process = "up" /\ Node

Spec == Init /\ [][Next]_vars

(* Threads that can run do run.  Frames, calls, spurious wake-ups and the  *)
(* end of the camera are not owed.                                         *)
Up(A) == process = "up" /\ A
FairSpec ==
    /\ Spec
    /\ WF_vars(Up(onNewFrameSetCallback)) /\ WF_vars(Up(onNewColorFrameCallback))
    /\ WF_vars(Up(Services)) /\ WF_vars(Up(clean))

-----------------------------------------------------------------------------

(* The color thread never decodes into or copies from rgb_buffer_ after    *)
(* clean() has deleted it, although the thread may be created while        *)
(* clean() runs, behind its join().                                        *)
BufferLives == color = "work" => rgb_buffer # "deleted"

(* clean() ends, with the node's locks and threads, unless the color       *)
(* thread sat between its test of is_running_ and its block while clean()  *)
(* cleared the flag and notified without the queue's lock: nothing else    *)
(* keeps it from joining.                                                  *)
CleanEnds == cleaning # "no" ~> cleaning = "no" \/ process # "up" \/ color = "deaf"

(* ob_camera_node.cpp:135, of is_running_ = false in clean(): "Set running *)
(* flag to false first to signal all operations to stop".  The color       *)
(* thread then stops.  The code does not keep this: the signal may come    *)
(* between its test of the flag and its block.                             *)
StopSignalHeard == ~is_running ~> color \in {"none", "exited"} \/ process # "up"

(* A color frame that was queued leaves the queue for its decoding and     *)
(* publication, unless the node is being cleaned or the color thread has   *)
(* left: it does so when rclcpp is down, and when it comes to its loop     *)
(* test while color is toggled off, and is not created again.              *)
FramesComeOut ==
    \A f \in 1..MaxFrames :
       (\E i \in DOMAIN queue : queue[i] = f)
         ~> \/ \A i \in DOMAIN queue : queue[i] # f
            \/ ~is_running \/ color = "exited" \/ process # "up"

=============================================================================
