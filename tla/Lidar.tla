------------------------------- MODULE Lidar -------------------------------
(***************************************************************************)
(* The lidar node of the robot (rplidar_node with an RPLIDAR C1, scan mode *)
(* "Standard") and the driver under it.  Three parties run at once: the    *)
(* lidar, which answers commands and streams samples; the driver's decoder *)
(* thread, which turns packets into answers and samples and stores the     *)
(* samples in the two buffers of the ScanDataHolder; and the node's only   *)
(* thread, the client, which asks the lidar for its modes, starts and      *)
(* stops the scan and grabs whole scans.  The client's calls are under     *)
(* _op_locker, so the driver carries out one call at a time.               *)
(*                                                                         *)
(* A revolution is Sectors samples; the sample of sector 0 has the sync    *)
(* bit.  A byte lost on the line costs the sample it is part of.           *)
(***************************************************************************)
EXTENDS Integers, Sequences, FiniteSets

CONSTANTS Sectors,      \* samples of one revolution
          BufferSize,   \* _scan_node_buffer_size
          ModeFields,   \* what is asked of a scan mode, in order
          MaxStarts,    \* bound: calls of start()
          MaxRevs,      \* bound: revolutions of one scan
          MaxTx,        \* bound: commands on the line to the lidar
          MaxRx,        \* bound: packets on the line to the host
          MaxLost,      \* bound: samples lost on the line
          MaxTimeouts,  \* bound: answers that come too late
          Spurious      \* whether a condition variable may wake its waiter unasked

ASSUME SectorsAssumption == Sectors \in Nat \ {0}
(* A field of a mode is asked for with a command of its own. *)
ASSUME FieldsAssumption ==
    ModeFields \in Seq(STRING \ {"info", "acc", "health", "STOP", "SCAN"})
ASSUME SpuriousAssumption == Spurious \in BOOLEAN
ASSUME BufferAssumption == BufferSize \in Nat /\ BufferSize >= Sectors

VARIABLES device,    \* the lidar: scanning, and the sample it takes next
          tx,        \* commands on the line to the lidar
          rx,        \* packets on the line to the host (_rxQueue included)
          codec,     \* _working_states: "sync" or "loop"
          unpacker,  \* _enabled and whether a handler is selected
          decoder,   \* the decoder thread: its place and its message
          waiting,   \* _waiting_packet_type
          waiter,    \* _response_waiter: signalled, and _lastAnsPkt
          holder,    \* the ScanDataHolder
          client,    \* the node's thread: its place, program and step
          session,   \* the number of SCAN commands sent
          grabbed,   \* history: the last scan grabbed since start_motor
          lost, timeouts

vars == <<device, tx, rx, codec, unpacker, decoder, waiting, waiter, holder,
          client, session, grabbed, lost, timeouts>>

lineVars == <<device, tx, rx>>
decoderVars == <<codec, unpacker, decoder>>
answerVars == <<waiting, waiter>>

None == [kind |-> "none"]

(***************************************************************************)
(* What the client does, call by call.  When a step fails, `skip' more     *)
(* steps are passed over, or the call ends.                                *)
(***************************************************************************)
Step(do, cmd, skip) == [do |-> do, cmd |-> cmd, skip |-> skip]
End == -1
Do(what) == <<Step(what, "none", 0)>>
Get(cmd) == <<Step("ask", cmd, End)>>
Try(cmd) == <<Step("ask", cmd, 0)>>

stop == <<Step("send", "STOP", End)>> \o Do("disable")
ModeConf == [i \in DOMAIN ModeFields |-> Step("ask", ModeFields[i], End)]

acc_board_flag == Try("acc")
checkMotorCtrlSupport ==
    Do("disable") \o <<Step("ask", "info", Len(acc_board_flag))>> \o acc_board_flag
connect == checkMotorCtrlSupport \o Get("info") \o Get("health") \o Try("info")
getAllSupportedScanModes == Get("info") \o Get("count") \o ModeConf
startScanExpress == stop \o Get("info") \o ModeConf
(* Variant: the buffers are not reset. *)
startScanNormalNoReset ==
    stop \o Get("info") \o ModeConf \o Try("desired speed")
         \o Do("enable") \o <<Step("send", "SCAN", End)>>

startScanNormal ==
    stop \o Get("info") \o ModeConf \o Try("desired speed")
         \o Do("reset") \o Do("enable") \o <<Step("send", "SCAN", End)>>
start == Try("desired speed") \o getAllSupportedScanModes
         \o startScanExpress \o startScanNormal

Calls == {"connect", "start", "stop", "exit"}
Program == [connect |-> connect, start |-> start, stop |-> stop, exit |-> stop]

Confs == {"count", "desired speed"} \cup {ModeFields[i] : i \in DOMAIN ModeFields}
Commands == {"info", "acc", "health", "STOP", "SCAN"} \cup Confs
AnswerType(cmd) == IF cmd \in Confs THEN "conf" ELSE cmd

Sample(s, r, sector) == [kind |-> "sample", session |-> s, rev |-> r, sector |-> sector]
IsSync(sample) == sample.sector = 0

(***************************************************************************)
(* The ScanDataHolder: two buffers, one filled, one available.             *)
(***************************************************************************)
operationBuffer(h) == IF h.available < 0 THEN 0 ELSE 1 - h.available

EmptyHolder == [buf |-> [b \in {0, 1} |-> <<>>], available |-> -1, ready |-> FALSE]

finishCurrentScanAndSwap(h) ==
    LET op == operationBuffer(h)
    IN  [buf |-> [h.buf EXCEPT ![1 - op] = <<>>], available |-> op, ready |-> TRUE]

Stored(h, sample) ==
    LET op == operationBuffer(h)
        n  == Len(h.buf[op])
    IN  [h EXCEPT !.buf[op] = IF n >= BufferSize
                              THEN [h.buf[op] EXCEPT ![n] = sample]
                              ELSE Append(h.buf[op], sample)]

pushScanNodeData(h, sample) ==
    LET open == h.buf[operationBuffer(h)] # <<>>
    IN  IF IsSync(sample)
        THEN Stored(IF open THEN finishCurrentScanAndSwap(h) ELSE h, sample)
        ELSE IF open THEN Stored(h, sample) ELSE h

(***************************************************************************)
(* The initial state: the node has just opened the port; the lidar may     *)
(* still stream from a node that was killed (session 0).                   *)
(***************************************************************************)
Running(call) == [client EXCEPT !.pc = "run", !.call = call, !.step = 1]

Init == /\ \E on \in BOOLEAN, sector \in 0 .. Sectors - 1 :
              device = [scanning |-> on, session |-> 0, rev |-> 1, sector |-> sector]
        /\ tx = <<>> /\ rx = <<>>
        /\ codec = "sync"
        /\ unpacker = [enabled |-> FALSE, selected |-> FALSE]
        /\ decoder = [pc |-> "idle", msg |-> None]
        /\ waiting = "none"
        /\ waiter = [set |-> FALSE, ans |-> None]
        /\ holder = EmptyHolder
        /\ client = [pc |-> "run", call |-> "connect", step |-> 1, starts |-> 0]
        /\ session = 0
        /\ grabbed = [nodes |-> <<>>, session |-> 0]
        /\ lost = 0 /\ timeouts = 0

-----------------------------------------------------------------------------
(* The lidar: it obeys a command, answers, and streams while it scans. *)
Obey == /\ tx # <<>>
        /\ tx' = Tail(tx)
        /\ LET cmd == Head(tx) IN
           CASE cmd = "STOP" -> /\ device' = [device EXCEPT !.scanning = FALSE]
                                /\ UNCHANGED rx
             [] cmd = "SCAN" -> /\ \E sector \in 0 .. Sectors - 1 :
                                      device' = [scanning |-> TRUE, rev |-> 1, sector |-> sector,
                                                 session |-> device.session + 1]
                                /\ rx' = Append(rx, [kind |-> "header"])
             [] OTHER -> /\ rx' = Append(rx, [kind |-> "answer", cmd |-> cmd])
                         /\ UNCHANGED device
        /\ UNCHANGED <<decoderVars, answerVars, holder, client, session, grabbed, lost, timeouts>>

Stream == /\ device.scanning /\ device.rev <= MaxRevs /\ Len(rx) < MaxRx
          /\ rx' = Append(rx, Sample(device.session, device.rev, device.sector))
          /\ LET wraps == device.sector = Sectors - 1 IN
             device' = [device EXCEPT !.sector = IF wraps THEN 0 ELSE @ + 1,
                                      !.rev = IF wraps THEN @ + 1 ELSE @]
          /\ UNCHANGED <<tx, decoderVars, answerVars, holder, client, session, grabbed, lost, timeouts>>

(* Bytes of a sample are lost: it fails the frame checks of the node handler. *)
Lose == /\ lost < MaxLost
        /\ rx # <<>> /\ Head(rx).kind = "sample"
        /\ rx' = Tail(rx)
        /\ lost' = lost + 1
        /\ UNCHANGED <<device, tx, decoderVars, answerVars, holder, client, session, grabbed, timeouts>>

-----------------------------------------------------------------------------
(* The decoder thread. *)
onDecodeData ==
    /\ decoder.pc = "idle" /\ client.pc # "exited"
    /\ rx # <<>>
    /\ rx' = Tail(rx)
    /\ LET packet  == Head(rx)
           message == \/ codec = "loop" /\ packet.kind = "sample"
                      \/ codec = "sync" /\ packet.kind = "answer"
       IN  /\ decoder' = IF message THEN [pc |-> "decoded", msg |-> packet] ELSE decoder
           /\ codec' = IF codec = "sync" /\ packet.kind = "header" THEN "loop" ELSE codec
    /\ UNCHANGED <<device, tx, unpacker, answerVars, holder, client, session, grabbed, lost, timeouts>>

Unpack == UNCHANGED <<lineVars, codec, client, session, grabbed, lost, timeouts>>

onSampleData ==
    /\ decoder.pc = "decoded"
    /\ LET select == unpacker.enabled /\ decoder.msg.kind = "sample" IN
       /\ decoder' = [decoder EXCEPT !.pc = IF select THEN "selected" ELSE "other"]
       /\ unpacker' = [unpacker EXCEPT !.selected = IF unpacker.enabled THEN select ELSE @]
    /\ UNCHANGED <<answerVars, holder>> /\ Unpack

onData ==
    /\ decoder.pc = "selected"
    /\ decoder' = [decoder EXCEPT !.pc = IF unpacker.selected THEN "push" ELSE "other"]
    /\ UNCHANGED <<unpacker, answerVars, holder>> /\ Unpack

onHQNodeDecoded ==
    /\ decoder.pc = "push"
    /\ holder' = pushScanNodeData(holder, decoder.msg)
    /\ decoder' = [pc |-> "idle", msg |-> None]
    /\ UNCHANGED <<unpacker, answerVars>> /\ Unpack

(* The packet type is compared outside the lock the answer is stored under. *)
Compare ==
    /\ decoder.pc = "other"
    /\ decoder' = IF decoder.msg.kind = "answer" /\ AnswerType(decoder.msg.cmd) = waiting
                  THEN [decoder EXCEPT !.pc = "answer"]
                  ELSE [pc |-> "idle", msg |-> None]
    /\ UNCHANGED <<unpacker, answerVars, holder>> /\ Unpack

StoreAnswer ==
    /\ decoder.pc = "answer"
    /\ waiter' = [set |-> TRUE, ans |-> decoder.msg]
    /\ decoder' = [pc |-> "idle", msg |-> None]
    /\ UNCHANGED <<unpacker, waiting, holder>> /\ Unpack

Decoder == \/ onDecodeData \/ onSampleData \/ onData \/ onHQNodeDecoded
           \/ Compare \/ StoreAnswer

-----------------------------------------------------------------------------
(* The node's thread inside a call. *)
Current == Program[client.call][client.step]
Goes(do) == /\ client.pc = "run"
            /\ client.step <= Len(Program[client.call])
            /\ Current.do = do
Onward == [client EXCEPT !.pc = "run", !.step = @ + 1]

disableDataGrabbing == /\ unpacker' = [enabled |-> FALSE, selected |-> FALSE]
                        /\ codec' = "sync"

Disable == /\ Goes("disable")
           /\ disableDataGrabbing
           /\ client' = Onward
           /\ UNCHANGED <<lineVars, decoder, answerVars, holder, session, grabbed, lost, timeouts>>

(* Variant: the SCAN command disables the data grabbing too. *)
sendCommandForcingStop ==
    /\ Goes("send")
    /\ Len(tx) < MaxTx
    /\ disableDataGrabbing
    /\ waiter' = [waiter EXCEPT !.set = FALSE]
    /\ tx' = Append(tx, Current.cmd)
    /\ session' = IF Current.cmd = "SCAN" THEN session + 1 ELSE session
    /\ client' = Onward
    /\ UNCHANGED <<device, rx, decoder, waiting, holder, grabbed, lost, timeouts>>

sendCommandWithoutResponse ==
    /\ Goes("send")
    /\ Len(tx) < MaxTx
    /\ IF Current.cmd = "SCAN" THEN UNCHANGED <<unpacker, codec>> ELSE disableDataGrabbing
    /\ waiter' = [waiter EXCEPT !.set = FALSE]
    /\ tx' = Append(tx, Current.cmd)
    /\ session' = IF Current.cmd = "SCAN" THEN session + 1 ELSE session
    /\ client' = Onward
    /\ UNCHANGED <<device, rx, decoder, waiting, holder, grabbed, lost, timeouts>>

sendCommandWithResponse ==
    /\ Goes("ask")
    /\ disableDataGrabbing
    /\ waiting' = AnswerType(Current.cmd)
    /\ waiter' = [waiter EXCEPT !.set = FALSE]
    /\ tx' = Append(tx, Current.cmd)
    /\ client' = [client EXCEPT !.pc = "wait"]
    /\ UNCHANGED <<device, rx, decoder, holder, session, grabbed, lost, timeouts>>

(* Event::wait: a waiter goes on when the event is signalled, or when it is *)
(* woken for no reason: the flag is not looked at again after the wake-up.  *)
Wakes(signalled) == signalled \/ Spurious

(* The checks of the payload's size and of the type it repeats. *)
Accepts(cmd, ans) ==
    CASE cmd \in Confs   -> ans.cmd = cmd
      [] cmd = "info"    -> ans.cmd = "info"
      [] cmd = "health"  -> ans.cmd \in {"health", "acc"}
      [] cmd = "acc"     -> ans.cmd # "health"

(* start() stops what it began; before its first success the node ends. *)
Failed == IF Current.skip # End
          THEN [Onward EXCEPT !.step = @ + Current.skip]
          ELSE CASE client.call = "start" ->
                        Running(IF client.starts = 1 THEN "exit" ELSE "stop")
                 [] client.call = "connect" -> [client EXCEPT !.pc = "exit"]

(* The answer is the last one stored; without any the node crashes and does *)
(* nothing more.                                                            *)
Answered ==
    /\ client.pc = "wait" /\ Wakes(waiter.set) /\ waiter.ans # None
    /\ waiter' = [waiter EXCEPT !.set = FALSE]
    /\ \E healthy \in IF Current.cmd = "health" THEN BOOLEAN ELSE {TRUE} :
          client' = IF Accepts(Current.cmd, waiter.ans) /\ healthy THEN Onward ELSE Failed
    /\ UNCHANGED <<lineVars, decoderVars, waiting, holder, session, grabbed, lost, timeouts>>

AnswerTimeout ==
    /\ client.pc = "wait" /\ ~waiter.set
    /\ timeouts < MaxTimeouts
    /\ timeouts' = timeouts + 1
    /\ client' = Failed
    /\ UNCHANGED <<lineVars, decoderVars, answerVars, holder, session, grabbed, lost>>

(* Variant: the event stays signalled. *)
resetKeepingEvent ==
    /\ Goes("reset")
    /\ holder' = [EmptyHolder EXCEPT !.ready = holder.ready]
    /\ client' = Onward
    /\ UNCHANGED <<lineVars, decoderVars, answerVars, session, grabbed, lost, timeouts>>

reset == /\ Goes("reset")
         /\ holder' = EmptyHolder
         /\ client' = Onward
         /\ UNCHANGED <<lineVars, decoderVars, answerVars, session, grabbed, lost, timeouts>>

enable == /\ Goes("enable")
          /\ unpacker' = [enabled |-> TRUE, selected |-> FALSE]
          /\ client' = Onward
          /\ UNCHANGED <<lineVars, codec, decoder, answerVars, holder, session, grabbed, lost, timeouts>>

Idle == UNCHANGED <<lineVars, decoderVars, answerVars, session, lost, timeouts>>

Return == /\ client.pc = "run" /\ client.step > Len(Program[client.call])
          /\ client' = CASE client.call = "connect" -> [Running("start") EXCEPT !.starts = @ + 1]
                         [] client.call = "exit" -> [client EXCEPT !.pc = "exit"]
                         [] OTHER -> [client EXCEPT !.pc = "grab"]
          /\ UNCHANGED <<holder, grabbed>> /\ Idle

-----------------------------------------------------------------------------
(* The node's loop: grab a scan, publish it, serve a request. *)
GrabReady == /\ client.pc = "grab" /\ Wakes(holder.ready)
             /\ holder' = [holder EXCEPT !.ready = FALSE]
             /\ client' = [client EXCEPT !.pc = "lock"]
             /\ UNCHANGED grabbed /\ Idle

GrabTimeout == /\ client.pc = "grab" /\ ~holder.ready
               /\ client' = [client EXCEPT !.pc = "spin"]
               /\ UNCHANGED <<holder, grabbed>> /\ Idle

(* The assertion on the available buffer ends the node when it fails. *)
waitAndLockAvailableScan ==
    /\ client.pc = "lock" /\ holder.available >= 0
    /\ grabbed' = [nodes |-> holder.buf[holder.available], session |-> session]
    /\ client' = [client EXCEPT !.pc = "spin"]
    /\ UNCHANGED holder /\ Idle

spin_some == /\ client.pc = "spin"
             /\ client' = [client EXCEPT !.pc = "grab"]
             /\ UNCHANGED <<holder, grabbed>> /\ Idle

start_motor == /\ client.pc = "spin" /\ client.starts < MaxStarts
               /\ client' = [Running("start") EXCEPT !.starts = @ + 1]
               /\ grabbed' = [nodes |-> <<>>, session |-> 0]
               /\ UNCHANGED holder /\ Idle

stop_motor == /\ client.pc = "spin"
              /\ client' = Running("stop")
              /\ UNCHANGED <<holder, grabbed>> /\ Idle

need_exit == /\ client.pc = "spin"
             /\ client' = Running("exit")
             /\ UNCHANGED <<holder, grabbed>> /\ Idle

(* delete drv: the data grabbing is disabled and the threads are joined. *)
disconnect == /\ client.pc = "exit" /\ decoder.pc = "idle"
              /\ disableDataGrabbing
              /\ rx' = <<>>
              /\ client' = [client EXCEPT !.pc = "exited"]
              /\ UNCHANGED <<device, tx, decoder, answerVars, holder, session, grabbed, lost, timeouts>>

Call == \/ Disable \/ sendCommandWithoutResponse \/ sendCommandWithResponse \/ Answered \/ AnswerTimeout
        \/ reset \/ enable \/ Return
WorkLoop == \/ GrabReady \/ GrabTimeout \/ waitAndLockAvailableScan
            \/ spin_some \/ start_motor \/ stop_motor \/ need_exit \/ disconnect
Client == Call \/ WorkLoop

Next == Obey \/ Stream \/ Lose \/ Decoder \/ Client

Spec == Init /\ [][Next]_vars
FairSpec == Spec /\ WF_vars(Obey) /\ WF_vars(Stream) /\ WF_vars(Decoder) /\ WF_vars(Client)

-----------------------------------------------------------------------------
(* Type correctness. *)
SampleType == [kind : {"sample"}, session : Nat, rev : Nat, sector : 0 .. Sectors - 1]
AnswerMessage == [kind : {"answer"}, cmd : Commands]
TypeOK ==
    /\ device \in [scanning : BOOLEAN, session : Nat, rev : Nat, sector : 0 .. Sectors - 1]
    /\ tx \in Seq(Commands)
    /\ rx \in Seq(SampleType \cup AnswerMessage \cup {[kind |-> "header"]})
    /\ codec \in {"sync", "loop"}
    /\ unpacker \in [enabled : BOOLEAN, selected : BOOLEAN]
    /\ decoder \in [pc : {"idle", "decoded", "selected", "push", "other", "answer"},
                    msg : SampleType \cup AnswerMessage \cup {None}]
    /\ waiting \in {"none", "conf", "info", "acc", "health"}
    /\ waiter \in [set : BOOLEAN, ans : AnswerMessage \cup {None}]
    /\ holder \in [buf : [{0, 1} -> Seq(SampleType)], available : -1 .. 1, ready : BOOLEAN]
    /\ client \in [pc : {"run", "wait", "grab", "lock", "spin", "exit", "exited"},
                   call : Calls, step : Nat \ {0}, starts : Nat]
    /\ session \in Nat
    /\ grabbed \in [nodes : Seq(SampleType), session : Nat]
    /\ lost \in Nat /\ timeouts \in Nat

(* The assertion of waitAndLockAvailableScan (sl_lidar_driver.cpp:322): a    *)
(* client woken by the event always finds an available buffer, though the    *)
(* event is consumed before the lock is taken and the decoder swaps the      *)
(* buffers meanwhile.  A spurious wake-up, which Event::wait does not tell   *)
(* from a signal, breaks it.                                                 *)
AvailableWhenSignalled ==
    holder.ready \/ client.pc = "lock" => holder.available >= 0

(* A scan the node publishes holds samples of the scan it started last, never *)
(* leftovers of an earlier start, a killed node or a message the decoder was  *)
(* still handling when the scan was stopped; it begins with the sync sample,  *)
(* and its samples are in the order the lidar took them.  As long as no       *)
(* sample was lost on the line it is exactly one complete revolution, as the  *)
(* driver's interface promises (include/sl_lidar_driver.h:422), whatever      *)
(* stops, starts and timeouts came before.                                    *)
Before(a, b) == \/ a.rev < b.rev
                \/ a.rev = b.rev /\ a.sector < b.sector
RevolutionOfThisStart ==
    LET nodes == grabbed.nodes IN
    nodes # <<>> => /\ IsSync(nodes[1])
                    /\ \A i \in DOMAIN nodes : nodes[i].session = grabbed.session
                    /\ \A i \in 1 .. Len(nodes) - 1 : Before(nodes[i], nodes[i + 1])
                    /\ lost = 0 => /\ Len(nodes) = Sectors
                                   /\ nodes[Sectors].rev = nodes[1].rev

(* include/sl_lidar_driver.h:422 of a grabbed scan: "All data nodes are      *)
(* belong to exactly ONE complete 360-degrees's scan".  The code does not    *)
(* keep this: pushScanNodeData ends a scan at a sync sample only, and when   *)
(* that one is lost on the line two revolutions become one scan.             *)
NodesOfOneScan ==
    \A i, j \in DOMAIN grabbed.nodes : grabbed.nodes[i].rev = grabbed.nodes[j].rev

(* A scan that was started is published, unless the node stops or restarts   *)
(* it first: the descriptor of the sample stream is never taken for part of   *)
(* an answer, nor the decoder left outside its loop mode.                     *)
Scanning(s) == client.call = "start" /\ client.pc = "grab" /\ session = s
StartDelivers ==
    \A s \in 1 .. MaxStarts :
        Scanning(s) ~> \/ grabbed.session = s /\ grabbed.nodes # <<>>
                      \/ client.call # "start" \/ session # s \/ client.starts > s

=============================================================================
