------------------------ MODULE CameraStreamsProofs ------------------------
(***************************************************************************)
(* What holds of the color stream for every number of frames and calls.    *)
(*                                                                         *)
(* BufferLives rests on is_running_ alone: it is cleared before clean()    *)
(* joins the thread and never set again, so that a thread, also one that   *)
(* is created behind the join, can no longer come to its work (Stopping),  *)
(* and the thread that was joined has left (ThreadFits).                   *)
(***************************************************************************)
EXTENDS CameraStreams, TLAPS

ThreadFits ==
    /\ thread = "null" => color = "none"
    /\ thread = "joined" => color = "exited"

Stopping ==
    /\ cleaning \notin {"no", "flag"} \/ rgb_buffer = "deleted" => ~is_running
    /\ cleaning \in {"stopStreams", "stopping", "free"} \/ rgb_buffer = "deleted" =>
         color # "work"

(* A thread at work has a frame: what wakes it with the node running is a  *)
(* frame in the queue, and nobody but the thread takes frames out.         *)
FrameAtHand ==
    /\ capture = "frame" => frames \in 1..MaxFrames
    /\ color = "work" \/ (color = "woken" /\ is_running) => queue # <<>>

Inv == TypeOK /\ ThreadFits /\ Stopping /\ FrameAtHand

LEMMA TailTyped ==
    ASSUME NEW S, NEW s \in Seq(S), s # <<>>
    PROVE  Tail(s) \in Seq(S)
OBVIOUS

LEMMA AppendTyped ==
    ASSUME NEW S, NEW s \in Seq(S), NEW x \in S
    PROVE  Append(s, x) \in Seq(S) /\ Append(s, x) # <<>>
OBVIOUS

ColorPlaces == {"none", "loop", "lock", "test", "parking", "blocked", "deaf", "woken", "work",
                "exited"}

LEMMA NotifiedPlaces ==
    ASSUME color \in ColorPlaces
    PROVE  /\ Notified \in ColorPlaces
           /\ Notified = color \/ (color \in {"blocked", "deaf"} /\ Notified = "lock")
BY DEF Notified, ColorPlaces

LEMMA InitInv == Init => Inv
<1> SUFFICES ASSUME Init PROVE Inv
  OBVIOUS
<1> USE DEF Init
<1>1. TypeOK
  <2>1. queue \in Seq(1..MaxFrames) /\ frames \in 0..MaxFrames /\ calls \in 0..MaxCalls
    BY CameraStreamsAssumption
  <2> QED
    BY <2>1 DEF TypeOK
<1>2. ThreadFits /\ Stopping /\ FrameAtHand
  BY DEF ThreadFits, Stopping, FrameAtHand
<1> QED
  BY <1>1, <1>2 DEF Inv

(***************************************************************************)
(* One lemma for each party.                                               *)
(***************************************************************************)

LEMMA FrameCallbackKeeps ==
    Inv /\ (Capture \/ onNewFrameSetCallback) => Inv'
<1> SUFFICES ASSUME Inv, Capture \/ onNewFrameSetCallback PROVE Inv'
  OBVIOUS
<1> USE CameraStreamsAssumption
<1> USE DEF Inv, TypeOK, ThreadFits, Stopping, FrameAtHand, flags, stream, feed, colorVars,
            cleanVars
<1>1. CASE Capture
  BY <1>1 DEF Capture
<1>2. CASE onNewFrameSetCallback
  <2>1. /\ capture = "frame" /\ capture' = "idle"
        /\ UNCHANGED <<flags, stream, frames, thread, rgb_buffer, service, cleanVars, calls>>
    BY <1>2 DEF onNewFrameSetCallback
  <2>2. CASE Push
    <3>1. queue' \in Seq(1..MaxFrames) /\ queue' # <<>>
      BY <2>1, <2>2, AppendTyped DEF Push
    <3>2. color' \in ColorPlaces
          /\ (color' = color \/ (color \in {"blocked", "deaf"} /\ color' = "lock"))
          /\ UNCHANGED process
      BY <2>2, NotifiedPlaces DEF Push, ColorPlaces
    <3> QED
      BY <2>1, <3>1, <3>2 DEF ColorPlaces
  <2>3. CASE UNCHANGED <<queue, color>>
    <3>1. process' \in {"up", "gone", "crashed"}
      BY <1>2 DEF onNewFrameSetCallback, Push, Crash
    <3> QED
      BY <2>1, <2>3, <3>1
  <2> QED
    BY <1>2, <2>2, <2>3 DEF onNewFrameSetCallback
<1> QED
  BY <1>1, <1>2

LEMMA ColorThreadKeeps ==
    Inv /\ (onNewColorFrameCallback \/ Spurious) => Inv'
<1> SUFFICES ASSUME Inv, onNewColorFrameCallback \/ Spurious PROVE Inv'
  OBVIOUS
<1> USE DEF Inv, TypeOK, ThreadFits, Stopping, FrameAtHand, flags, stream, feed, colorVars,
            cleanVars, Turn, ColorOnly
<1>1. CASE Loop \/ Lock \/ Test
  BY <1>1 DEF Loop, Lock, Test
<1>2. CASE Park \/ Woken \/ Spurious
  BY <1>2 DEF Park, Woken, Spurious
<1>3. CASE Work
  <2>1. queue' \in Seq(1..MaxFrames)
    BY <1>3, TailTyped DEF Work
  <2>2. process' \in {"up", "gone", "crashed"}
    BY <1>3 DEF Work, Crash
  <2> QED
    BY <1>3, <2>1, <2>2 DEF Work
<1> QED
  BY <1>1, <1>2, <1>3 DEF onNewColorFrameCallback

LEMMA ServicesKeep ==
    Inv /\ (toggleSensorCallback \/ setStreamsEnableCallback \/ Services \/ rebootDevice) => Inv'
<1> SUFFICES ASSUME Inv,
                    toggleSensorCallback \/ setStreamsEnableCallback \/ Services \/ rebootDevice
             PROVE  Inv'
  OBVIOUS
<1> USE CameraStreamsAssumption
<1> USE DEF Inv, TypeOK, ThreadFits, Stopping, FrameAtHand, flags, stream, feed, colorVars,
            cleanVars, Serve, Call
<1>1. CASE toggleSensorCallback \/ setStreamsEnableCallback \/ rebootDevice
  BY <1>1 DEF toggleSensorCallback, setStreamsEnableCallback, rebootDevice
<1>2. CASE ToggleStop
  BY <1>2 DEF ToggleStop, Stopped, Crash
<1>3. CASE ToggleSet
  BY <1>3 DEF ToggleSet
<1>4. CASE ResetPipeline \/ StartPipeline
  BY <1>4 DEF ResetPipeline, StartPipeline
<1>5. CASE CreateThread
  BY <1>5 DEF CreateThread
<1>6. CASE Started
  BY <1>6 DEF Started
<1>7. CASE stopStreams
  <2>1. CASE pipeline_started /\ pipeline # "null"
    <3>1. pipeline_started' \in BOOLEAN
      BY <1>7, <2>1, Zenon DEF stopStreams
    <3> QED
      BY <1>7, <2>1, <3>1 DEF stopStreams
  <2>2. CASE ~(pipeline_started /\ pipeline # "null")
    BY <1>7, <2>2 DEF stopStreams
  <2> QED
    BY <2>1, <2>2
<1>8. CASE StopPipeline
  BY <1>8 DEF StopPipeline, Stopped
<1> QED
  BY <1>1, <1>2, <1>3, <1>4, <1>5, <1>6, <1>7, <1>8 DEF Services

LEMMA CleanKeeps ==
    Inv /\ (Destroy \/ clean \/ Shutdown) => Inv'
<1> SUFFICES ASSUME Inv, Destroy \/ clean \/ Shutdown PROVE Inv'
  OBVIOUS
<1> USE DEF Inv, TypeOK, ThreadFits, Stopping, FrameAtHand, flags, stream, feed, colorVars,
            cleanVars, Step
<1>0. CASE Destroy
  BY <1>0 DEF Destroy
<1>1. CASE ClearRunning
  <2>0. is_running' \in BOOLEAN
    BY <1>1, Zenon DEF ClearRunning
  <2>1. is_running' = FALSE
    BY <1>1 DEF ClearRunning
  <2>2. TypeOK' /\ ThreadFits'
    BY <1>1, <2>0 DEF ClearRunning
  <2>3. Stopping' /\ FrameAtHand'
    BY <1>1, <2>1 DEF ClearRunning
  <2> QED
    BY <2>2, <2>3
<1>2. CASE Notify
  <2>1. CASE thread = "joinable"
    <3>1. color' \in ColorPlaces
          /\ (color' = color \/ (color \in {"blocked", "deaf"} /\ color' = "lock"))
      BY <1>2, <2>1, NotifiedPlaces DEF Notify, ColorPlaces
    <3> QED
      BY <1>2, <2>1, <3>1 DEF Notify, ColorPlaces
  <2>2. CASE thread # "joinable"
    BY <1>2, <2>2 DEF Notify
  <2> QED
    BY <2>1, <2>2
<1>3. CASE Join
  BY <1>3 DEF Join
<1>7. CASE StopStreams
  <2>1. CASE pipeline_started /\ pipeline # "null"
    <3>1. pipeline_started' \in BOOLEAN
      BY <1>7, <2>1, Zenon DEF StopStreams
    <3> QED
      BY <1>7, <2>1, <3>1 DEF StopStreams
  <2>2. CASE ~(pipeline_started /\ pipeline # "null")
    BY <1>7, <2>2 DEF StopStreams
  <2> QED
    BY <2>1, <2>2
<1>4. CASE StopCleaned
  BY <1>4 DEF StopCleaned, Stopped, Crash
<1>5. CASE Free
  BY <1>5 DEF Free
<1>6. CASE LockDevice
  BY <1>6 DEF LockDevice
<1>8. CASE Shutdown
  <2>1. ok' \in BOOLEAN
    BY <1>8, Zenon DEF Shutdown
  <2> QED
    BY <1>8, <2>1 DEF Shutdown
<1> QED
  BY <1>0, <1>1, <1>2, <1>3, <1>4, <1>5, <1>6, <1>7, <1>8 DEF clean

LEMMA Invariance == Spec => []Inv
<1>1. Inv /\ UNCHANGED vars => Inv'
  BY DEF Inv, TypeOK, ThreadFits, Stopping, FrameAtHand, vars, flags, stream, feed, colorVars,
         cleanVars
<1>2. Inv /\ [Next]_vars => Inv'
  BY <1>1, FrameCallbackKeeps, ColorThreadKeeps, ServicesKeep, CleanKeeps DEF Next, Node
<1> QED
  BY InitInv, <1>2, PTL DEF Spec

(* Every variable keeps its type (TypeOK).                                 *)
THEOREM StreamsTyped == Spec => []TypeOK
BY Invariance, PTL DEF Inv

(* The color thread never works on a deleted buffer (BufferLives).         *)
THEOREM BufferOutlivesThread == Spec => []BufferLives
<1>1. Inv => BufferLives
  BY DEF Inv, Stopping, BufferLives
<1> QED
  BY Invariance, <1>1, PTL

(* The color thread never takes the front of an empty queue.               *)
THEOREM FrontExists == Spec => [](color = "work" => queue # <<>>)
<1>1. Inv => (color = "work" => queue # <<>>)
  BY DEF Inv, FrameAtHand
<1> QED
  BY Invariance, <1>1, PTL
=============================================================================
