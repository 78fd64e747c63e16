----------------------------- MODULE LidarProofs -----------------------------
(***************************************************************************)
(* What holds of the lidar and its driver for every revolution, buffer     *)
(* and list of mode fields.                                                *)
(*                                                                         *)
(* The two buffers are used safely although the event is consumed before   *)
(* the lock is taken, because the buffers are reset only by the thread     *)
(* that takes the lock (Signalled).  That this thread waits for an answer  *)
(* only inside a call that knows what to do without one (WaitsInCalls) is  *)
(* needed to know where a failure leads.                                   *)
(*                                                                         *)
(* A published scan is one revolution of the scan started last.  Nothing   *)
(* in a sample says which start() it belongs to: what keeps the samples of *)
(* an earlier stream out of the buffers is that start() insists on so many *)
(* answers between its STOP and its SCAN command that the line is drained  *)
(* when it gets there (MarkInv: the SCAN command, and later the header of  *)
(* the stream, mark on the line what is older).  From the header on the    *)
(* line holds the new scan in order up to the sample the lidar takes next  *)
(* (LiveInv), and the decoder and the buffers continue it (BufferInv).     *)
(* A wrong answer can be accepted for a late one; that start() does not    *)
(* run through on late answers alone needs fewer of them than it insists   *)
(* on, and no spurious wake-up to pass for one (FewTimeouts).              *)
(***************************************************************************)
EXTENDS Lidar, SequenceTheorems, FiniteSetTheorems, TLAPS

Asked == Confs \cup {"info", "acc", "health"}
StepType ==
    [do : {"disable", "reset", "enable"}, cmd : {"none"}, skip : {0}]
      \cup [do : {"send"}, cmd : {"STOP", "SCAN"}, skip : {End}]
      \cup [do : {"ask"}, cmd : Asked, skip : Nat \cup {End}]

Signalled ==
    /\ holder.ready => holder.available >= 0
    /\ ~Spurious /\ client.pc = "lock" => holder.available >= 0
Capacity  == \A b \in {0, 1} : Len(holder.buf[b]) <= BufferSize
WaitsInCalls ==
    client.pc = "wait" =>
      /\ client.call \in {"connect", "start"}
      /\ client.step <= Len(Program[client.call]) /\ Current.do = "ask"

(* A message that the decoder handles as a sample is one.                  *)
Handled ==
    /\ decoder.pc \in {"selected", "push"} => decoder.msg \in SampleType
    /\ decoder.pc = "answer" => decoder.msg \in AnswerMessage
    /\ decoder.pc # "idle" => decoder.msg # None
    /\ waiter.set => waiter.ans \in AnswerMessage

Inv == TypeOK /\ Signalled /\ Capacity /\ WaitsInCalls /\ Handled

-----------------------------------------------------------------------------
(***************************************************************************)
(* The programs of the calls.                                              *)
(***************************************************************************)

LEMMA OneStep == ASSUME NEW S, NEW s \in S PROVE <<s>> \in Seq(S)
OBVIOUS

LEMMA Joined == ASSUME NEW S, NEW s \in Seq(S), NEW t \in Seq(S) PROVE s \o t \in Seq(S)
OBVIOUS

LEMMA FieldsAsked == \A i \in DOMAIN ModeFields : ModeFields[i] \in Confs
BY DEF Confs

LEMMA ModeConfTyped == ModeConf \in Seq(StepType)
<1>1. ModeFields \in Seq(STRING)
  BY FieldsAssumption
<1>2. DOMAIN ModeFields = 1 .. Len(ModeFields) /\ Len(ModeFields) \in Nat
  BY <1>1
<1>3. \A i \in DOMAIN ModeFields : Step("ask", ModeFields[i], End) \in StepType
  BY FieldsAsked DEF Step, StepType, Asked
<1> QED
  BY <1>2, <1>3, IsASeq DEF ModeConf

LEMMA StepsTyped ==
    /\ \A c \in Asked : Get(c) \in Seq(StepType) /\ Try(c) \in Seq(StepType)
    /\ \A w \in {"disable", "reset", "enable"} : Do(w) \in Seq(StepType)
    /\ \A c \in {"STOP", "SCAN"} : <<Step("send", c, End)>> \in Seq(StepType)
    /\ {"info", "acc", "health", "count", "desired speed"} \subseteq Asked
BY OneStep DEF Get, Try, Do, Step, StepType, Asked, Confs

LEMMA StopTyped == stop \in Seq(StepType)
BY StepsTyped, Joined DEF stop

LEMMA ConnectTyped == connect \in Seq(StepType)
<1>1. acc_board_flag \in Seq(StepType)
  BY StepsTyped DEF acc_board_flag
<1>2. <<Step("ask", "info", Len(acc_board_flag))>> \in Seq(StepType)
  BY <1>1, OneStep DEF Step, StepType, Asked
<1>3. checkMotorCtrlSupport \in Seq(StepType)
  BY <1>1, <1>2, StepsTyped, Joined DEF checkMotorCtrlSupport
<1> QED
  BY <1>3, StepsTyped, Joined DEF connect

LEMMA StartTyped == start \in Seq(StepType)
<1>1. getAllSupportedScanModes \in Seq(StepType)
  BY StepsTyped, ModeConfTyped, Joined DEF getAllSupportedScanModes
<1>2. startScanExpress \in Seq(StepType)
  BY StepsTyped, StopTyped, ModeConfTyped, Joined DEF startScanExpress
<1>3. startScanNormal \in Seq(StepType)
  <2>1. stop \o Get("info") \o ModeConf \o Try("desired speed") \in Seq(StepType)
    BY StepsTyped, StopTyped, ModeConfTyped, Joined
  <2> QED
    BY <2>1, StepsTyped, Joined DEF startScanNormal
<1> QED
  BY <1>1, <1>2, <1>3, StepsTyped, Joined DEF start

LEMMA ProgramTyped == \A c \in Calls : Program[c] \in Seq(StepType)
BY StopTyped, ConnectTyped, StartTyped DEF Program, Calls

(* Stopping asks nothing.                                                  *)
LEMMA StopAsksNothing == \A i \in 1 .. Len(stop) : stop[i].do # "ask"
BY DEF stop, Do, Step

LEMMA CurrentTyped ==
    ASSUME TypeOK, client.step <= Len(Program[client.call])
    PROVE  Current \in StepType
BY ProgramTyped DEF Current, TypeOK

LEMMA AskedInCalls ==
    ASSUME TypeOK, Goes("ask")
    PROVE  client.call \in {"connect", "start"}
BY StopAsksNothing DEF Goes, Current, Program, TypeOK, Calls

-----------------------------------------------------------------------------
(***************************************************************************)
(* The two buffers.                                                        *)
(***************************************************************************)

HolderType == [buf : [{0, 1} -> Seq(SampleType)], available : -1 .. 1, ready : BOOLEAN]
Sound(h) ==
    /\ h \in HolderType
    /\ h.ready => h.available >= 0
    /\ \A b \in {0, 1} : Len(h.buf[b]) <= BufferSize

LEMMA Appended ==
    ASSUME NEW S, NEW s \in Seq(S), NEW x \in S
    PROVE  Append(s, x) \in Seq(S) /\ Len(Append(s, x)) = Len(s) + 1
OBVIOUS

LEMMA EmptyIsSound == Sound(EmptyHolder)
<1>1. <<>> \in Seq(SampleType) /\ Len(<<>>) = 0
  OBVIOUS
<1> QED
  BY <1>1, BufferAssumption DEF Sound, EmptyHolder, HolderType

LEMMA SwapIsSound ==
    ASSUME NEW h, Sound(h)
    PROVE  Sound(finishCurrentScanAndSwap(h))
<1> DEFINE op == operationBuffer(h)
<1>1. op \in {0, 1} /\ 1 - op \in {0, 1}
  BY DEF operationBuffer, Sound, HolderType
<1>2. <<>> \in Seq(SampleType) /\ Len(<<>>) = 0
  OBVIOUS
<1>3. [h.buf EXCEPT ![1 - op] = <<>>] \in [{0, 1} -> Seq(SampleType)]
  BY <1>1, <1>2 DEF Sound, HolderType
<1>4. \A b \in {0, 1} : Len([h.buf EXCEPT ![1 - op] = <<>>][b]) <= BufferSize
  BY <1>1, <1>2, BufferAssumption DEF Sound, HolderType
<1> HIDE DEF op
<1> QED
  BY <1>1, <1>3, <1>4 DEF finishCurrentScanAndSwap, Sound, HolderType, op

LEMMA StoredIsSound ==
    ASSUME NEW h, Sound(h), NEW sample \in SampleType
    PROVE  Sound(Stored(h, sample)) /\ Stored(h, sample).available = h.available
<1> DEFINE op == operationBuffer(h)
           n  == Len(h.buf[op])
           s  == IF n >= BufferSize THEN [h.buf[op] EXCEPT ![n] = sample]
                                    ELSE Append(h.buf[op], sample)
<1>1. op \in {0, 1}
  BY DEF operationBuffer, Sound, HolderType
<1>2. h.buf[op] \in Seq(SampleType) /\ n \in Nat /\ n <= BufferSize /\ BufferSize \in Nat \ {0}
  BY <1>1, BufferAssumption, SectorsAssumption DEF Sound, HolderType
<1>3. s \in Seq(SampleType) /\ Len(s) <= BufferSize
  <2>1. CASE n >= BufferSize
    BY <1>2, <2>1, ExceptSeq
  <2>2. CASE ~(n >= BufferSize)
    BY <1>2, <2>2, Appended
  <2> QED
    BY <2>1, <2>2
<1>4. Stored(h, sample) = [h EXCEPT !.buf[op] = s]
  BY DEF Stored
<1> HIDE DEF op, s
<1>5. [h.buf EXCEPT ![op] = s] \in [{0, 1} -> Seq(SampleType)]
  BY <1>1, <1>3 DEF Sound, HolderType
<1>6. \A b \in {0, 1} : Len([h.buf EXCEPT ![op] = s][b]) <= BufferSize
  BY <1>1, <1>3 DEF Sound, HolderType
<1> QED
  BY <1>4, <1>5, <1>6 DEF Sound, HolderType

(* What a sample does to the buffers: they stay sound, and an available    *)
(* buffer stays available.                                                 *)
LEMMA PushIsSound ==
    ASSUME NEW h, Sound(h), NEW sample \in SampleType
    PROVE  /\ Sound(pushScanNodeData(h, sample))
           /\ h.available >= 0 => pushScanNodeData(h, sample).available >= 0
<1>1. /\ Sound(finishCurrentScanAndSwap(h))
      /\ finishCurrentScanAndSwap(h).available >= 0
  BY SwapIsSound DEF finishCurrentScanAndSwap, operationBuffer, Sound, HolderType
<1> QED
  BY <1>1, StoredIsSound DEF pushScanNodeData

-----------------------------------------------------------------------------
(***************************************************************************)
(* One lemma for each party's steps.                                       *)
(***************************************************************************)

PacketType == SampleType \cup AnswerMessage \cup {[kind |-> "header"]}

LEMMA HeadTail ==
    ASSUME NEW S, NEW s \in Seq(S), s # <<>>
    PROVE  Head(s) \in S /\ Tail(s) \in Seq(S)
OBVIOUS

LEMMA InvParts ==
    Inv <=> /\ TypeOK /\ Sound(holder) /\ WaitsInCalls /\ Handled
            /\ ~Spurious /\ client.pc = "lock" => holder.available >= 0
BY DEF Inv, TypeOK, Signalled, Capacity, Sound, HolderType

LEMMA InitInv == Init => Inv
<1> SUFFICES ASSUME Init PROVE Inv
  OBVIOUS
<1>1. Sound(holder)
  BY EmptyIsSound DEF Init
<1>2. TypeOK
  <2>1. device \in [scanning : BOOLEAN, session : Nat, rev : Nat, sector : 0 .. Sectors - 1]
    BY DEF Init
  <2>2. tx \in Seq(Commands) /\ rx \in Seq(PacketType) /\ <<>> \in Seq(SampleType)
    BY DEF Init
  <2>3. holder \in HolderType
    BY <1>1 DEF Sound
  <2>4. unpacker \in [enabled : BOOLEAN, selected : BOOLEAN]
        /\ waiter \in [set : BOOLEAN, ans : AnswerMessage \cup {None}]
    BY DEF Init
  <2> QED
    BY <2>1, <2>2, <2>3, <2>4 DEF Init, TypeOK, PacketType, HolderType, Calls
<1>3. WaitsInCalls /\ Handled /\ client.pc # "lock"
  BY DEF Init, WaitsInCalls, Handled
<1> QED
  BY <1>1, <1>2, <1>3, InvParts

(* The lidar and the line.                                                 *)
LEMMA LineKeeps == Inv /\ (Obey \/ Stream \/ Lose) => Inv'
<1> SUFFICES ASSUME Inv, Obey \/ Stream \/ Lose PROVE Inv'
  OBVIOUS
<1>1. TypeOK
  BY DEF Inv
<1>2. UNCHANGED <<decoder, waiter, waiting, codec, unpacker, holder, client, session, grabbed, timeouts>>
  BY DEF Obey, Stream, Lose, decoderVars, answerVars
<1>3. (WaitsInCalls /\ Handled /\ Signalled /\ Capacity)'
  BY <1>2 DEF Inv, WaitsInCalls, Handled, Signalled, Capacity, Current
<1>4. /\ device' \in [scanning : BOOLEAN, session : Nat, rev : Nat, sector : 0 .. Sectors - 1]
      /\ tx' \in Seq(Commands) /\ rx' \in Seq(PacketType) /\ lost' \in Nat
  <2> USE <1>1
  <2>0. /\ device.rev + 1 \in Nat /\ device.session + 1 \in Nat
        /\ device.sector \in 0 .. Sectors - 1 /\ 0 \in 0 .. Sectors - 1
        /\ device.sector # Sectors - 1 => device.sector + 1 \in 0 .. Sectors - 1
    BY SectorsAssumption DEF TypeOK
  <2>1. CASE Obey
    <3>1. Head(tx) \in Commands /\ tx' \in Seq(Commands)
      BY <2>1, HeadTail DEF Obey, TypeOK
    <3>2. /\ [kind |-> "header"] \in PacketType
          /\ [kind |-> "answer", cmd |-> Head(tx)] \in PacketType
      BY <3>1 DEF PacketType, AnswerMessage
    <3>3. rx' \in Seq(PacketType)
      <4>0. rx \in Seq(PacketType)
        BY DEF TypeOK, PacketType
      <4>1. \/ rx' = rx \/ rx' = Append(rx, [kind |-> "header"])
            \/ rx' = Append(rx, [kind |-> "answer", cmd |-> Head(tx)])
        BY <2>1 DEF Obey
      <4> QED
        BY <3>2, <4>0, <4>1, Appended
    <3>4. device' \in [scanning : BOOLEAN, session : Nat, rev : Nat, sector : 0 .. Sectors - 1]
      <4>0. device \in [scanning : BOOLEAN, session : Nat, rev : Nat, sector : 0 .. Sectors - 1]
        BY DEF TypeOK
      <4>1. CASE Head(tx) = "STOP"
        <5>1. device' = [device EXCEPT !.scanning = FALSE]
          BY <2>1, <4>1 DEF Obey
        <5> HIDE <1>1
        <5> QED
          BY <4>0, <5>1
      <4>2. CASE Head(tx) = "SCAN"
        <5>1. PICK sector \in 0 .. Sectors - 1 :
                device' = [scanning |-> TRUE, rev |-> 1, sector |-> sector,
                           session |-> device.session + 1]
          BY <2>1, <4>2 DEF Obey
        <5> QED
          BY <2>0, <5>1
      <4>3. CASE Head(tx) \notin {"STOP", "SCAN"}
        BY <2>1, <4>0, <4>3 DEF Obey
      <4> QED
        BY <4>1, <4>2, <4>3
    <3> QED
      BY <2>1, <3>1, <3>3, <3>4 DEF Obey, TypeOK
  <2>2. CASE Stream
    <3>1. Sample(device.session, device.rev, device.sector) \in PacketType
      BY <2>0 DEF PacketType, Sample, SampleType, TypeOK
    <3>2. rx' \in Seq(PacketType)
      BY <2>2, <3>1, Appended DEF Stream, TypeOK, PacketType
    <3> QED
      BY <2>0, <2>2, <3>2 DEF Stream, TypeOK
  <2>3. CASE Lose
    <3>1. rx' \in Seq(PacketType)
      BY <2>3, HeadTail DEF Lose, TypeOK, PacketType
    <3> QED
      BY <2>3, <3>1 DEF Lose, TypeOK
  <2> QED
    BY <2>1, <2>2, <2>3
<1> QED
  BY <1>1, <1>2, <1>3, <1>4 DEF Inv, TypeOK, PacketType

(* The decoder thread.                                                     *)
LEMMA DecoderKeeps == Inv /\ Decoder => Inv'
<1> SUFFICES ASSUME Inv, Decoder PROVE Inv'
  OBVIOUS
<1> USE DEF Unpack, lineVars
<1>1. TypeOK /\ Handled /\ WaitsInCalls
  BY DEF Inv
<1>2. UNCHANGED <<device, tx, waiting, client, session, grabbed, lost, timeouts>>
  BY DEF Decoder, onDecodeData, onSampleData, onData, onHQNodeDecoded, Compare, StoreAnswer,
         answerVars
<1>3. WaitsInCalls'
  BY <1>1, <1>2 DEF WaitsInCalls, Current
<1>4. /\ decoder' \in [pc : {"idle", "decoded", "selected", "push", "other", "answer"},
                       msg : SampleType \cup AnswerMessage \cup {None}]
      /\ Handled'
      /\ rx' \in Seq(PacketType) /\ codec' \in {"sync", "loop"}
      /\ unpacker' \in [enabled : BOOLEAN, selected : BOOLEAN]
      /\ waiter' \in [set : BOOLEAN, ans : AnswerMessage \cup {None}]
  <2> USE <1>1
  <2> USE DEF TypeOK, Handled, PacketType
  <2>1. CASE onDecodeData
    <3>1. Head(rx) \in PacketType /\ rx' \in Seq(PacketType)
      BY <2>1, HeadTail DEF onDecodeData
    <3>2. Head(rx).kind \in {"sample", "answer"} => Head(rx) \in SampleType \cup AnswerMessage
      BY <3>1
    <3>3. Head(rx).kind \in {"sample", "answer"} => Head(rx) # None
      BY DEF None
    <3> QED
      BY <2>1, <3>1, <3>2, <3>3 DEF onDecodeData, decoderVars, answerVars
  <2>2. CASE onSampleData
    <3>1. decoder.msg.kind = "sample" => decoder.msg \in SampleType
      BY DEF SampleType, AnswerMessage, None
    <3> QED
      BY <2>2, <3>1 DEF onSampleData, answerVars
  <2>3. CASE onData \/ onHQNodeDecoded
    BY <2>3 DEF onData, onHQNodeDecoded, answerVars, decoderVars
  <2>4. CASE Compare
    <3>1. decoder.msg.kind = "answer" => decoder.msg \in AnswerMessage
      BY DEF SampleType, AnswerMessage, None
    <3> QED
      BY <2>4, <3>1 DEF Compare, answerVars
  <2>5. CASE StoreAnswer
    BY <2>5 DEF StoreAnswer
  <2> QED
    BY <2>1, <2>2, <2>3, <2>4, <2>5 DEF Decoder
<1>5. Sound(holder') /\ (~Spurious /\ client'.pc = "lock" => holder'.available >= 0)
  <2>0. Sound(holder) /\ (~Spurious /\ client.pc = "lock" => holder.available >= 0)
    BY InvParts
  <2>1. CASE onHQNodeDecoded
    <3>1. decoder.msg \in SampleType /\ holder' = pushScanNodeData(holder, decoder.msg)
      BY <1>1, <2>1 DEF onHQNodeDecoded, Handled
    <3> QED
      BY <1>2, <2>0, <3>1, PushIsSound
  <2>2. CASE holder' = holder
    BY <1>2, <2>0, <2>2
  <2> QED
    BY <2>1, <2>2 DEF Decoder, onDecodeData, onSampleData, onData, Compare, StoreAnswer
<1>6. TypeOK'
  BY <1>1, <1>2, <1>4, <1>5 DEF TypeOK, PacketType, Sound, HolderType
<1> QED
  BY <1>3, <1>4, <1>5, <1>6, InvParts DEF Inv, Signalled, Capacity, Sound

ClientType == [pc : {"run", "wait", "grab", "lock", "spin", "exit", "exited"},
               call : Calls, step : Nat \ {0}, starts : Nat]

(* Where a call may go on: never to the lock, and to a wait only by an     *)
(* answer that is asked for.                                               *)
LEMMA OnwardTyped ==
    ASSUME TypeOK
    PROVE  /\ Onward \in ClientType /\ Onward.pc = "run"
           /\ \A call \in Calls : Running(call) \in ClientType /\ Running(call).pc = "run"
<1>1. client \in ClientType
  BY DEF TypeOK, ClientType
<1>2. client.step + 1 \in Nat \ {0} /\ 1 \in Nat \ {0}
  BY <1>1 DEF ClientType
<1>3. Onward \in ClientType /\ Onward.pc = "run"
  BY <1>1, <1>2 DEF Onward, ClientType
<1>4. ASSUME NEW call \in Calls
      PROVE  Running(call) \in ClientType /\ Running(call).pc = "run"
  BY <1>1, <1>2 DEF Running, ClientType
<1> QED
  BY <1>3, <1>4

LEMMA FailedTyped ==
    ASSUME TypeOK, WaitsInCalls, client.pc = "wait"
    PROVE  Failed \in ClientType /\ Failed.pc \in {"run", "exit"}
<1>1. Current \in StepType /\ Current.do = "ask" /\ client.call \in {"connect", "start"}
  BY CurrentTyped DEF WaitsInCalls
<1>2. Current.skip \in Nat \cup {End}
  BY <1>1 DEF StepType
<1>3. CASE Current.skip # End
  <2>1. Current.skip \in Nat
    BY <1>2, <1>3
  <2> QED
    BY <1>3, <2>1, OnwardTyped DEF Failed, ClientType
<1>4. CASE Current.skip = End
  <2>1. CASE client.call = "start"
    BY <1>4, <2>1, OnwardTyped DEF Failed, Calls
  <2>2. CASE client.call = "connect"
    BY <1>4, <2>2 DEF Failed, TypeOK, ClientType
  <2> QED
    BY <1>1, <2>1, <2>2
<1> QED
  BY <1>3, <1>4

(* Inside a call the holder is left alone or emptied.                      *)
LEMMA CallKeeps == Inv /\ Call => Inv'
<1> SUFFICES ASSUME Inv, Call PROVE Inv'
  OBVIOUS
<1>1. TypeOK /\ Handled /\ WaitsInCalls /\ Sound(holder)
  BY InvParts
<1> USE <1>1
<1>2. UNCHANGED <<device, rx, decoder, grabbed, lost>>
  BY DEF Call, Disable, sendCommandWithoutResponse, sendCommandWithResponse, Answered,
         AnswerTimeout, reset, enable, Return, lineVars, decoderVars, answerVars, Idle
<1>3. client' \in ClientType /\ client'.pc # "lock" /\ WaitsInCalls'
  <2>1. CASE client' = Onward
    BY <2>1, OnwardTyped DEF WaitsInCalls
  <2>2. CASE sendCommandWithResponse
    <3>1. /\ client.call \in {"connect", "start"} /\ client.step <= Len(Program[client.call])
          /\ Current.do = "ask" /\ client' = [client EXCEPT !.pc = "wait"]
      BY <2>2, AskedInCalls DEF sendCommandWithResponse, Goes
    <3>2. client'.call = client.call /\ client'.step = client.step /\ client'.pc = "wait"
          /\ client' \in ClientType
      BY <3>1 DEF TypeOK, ClientType
    <3> QED
      BY <3>1, <3>2 DEF WaitsInCalls, Current
  <2>3. CASE client.pc = "wait" /\ client' = Failed
    BY <2>3, FailedTyped DEF WaitsInCalls
  <2>4. CASE Return
    <3>1. client.call \in Calls /\ client.starts + 1 \in Nat
      BY DEF TypeOK
    <3>2. CASE client.call = "connect"
      BY <2>4, <3>1, <3>2, OnwardTyped DEF Return, WaitsInCalls, ClientType, Calls
    <3>3. CASE client.call # "connect"
      BY <2>4, <3>1, <3>3 DEF Return, WaitsInCalls, ClientType, TypeOK, Calls
    <3> QED
      BY <3>2, <3>3
  <2> QED
    BY <2>1, <2>2, <2>3, <2>4 DEF Call, Disable, sendCommandWithoutResponse, Answered,
                                  AnswerTimeout, reset, enable
<1>4. Sound(holder')
  BY EmptyIsSound DEF Call, Disable, sendCommandWithoutResponse, sendCommandWithResponse,
         Answered, AnswerTimeout, reset, enable, Return, Idle
<1>7. disableDataGrabbing =>
        codec' \in {"sync", "loop"} /\ unpacker' \in [enabled : BOOLEAN, selected : BOOLEAN]
  BY DEF disableDataGrabbing
<1>8. waiter' = [waiter EXCEPT !.set = FALSE] =>
        waiter' \in [set : BOOLEAN, ans : AnswerMessage \cup {None}] /\ waiter'.set = FALSE
  BY DEF TypeOK
<1>5. /\ tx' \in Seq(Commands) /\ session' \in Nat /\ timeouts' \in Nat
      /\ codec' \in {"sync", "loop"} /\ unpacker' \in [enabled : BOOLEAN, selected : BOOLEAN]
      /\ waiting' \in {"none", "conf", "info", "acc", "health"}
      /\ waiter' \in [set : BOOLEAN, ans : AnswerMessage \cup {None}]
      /\ waiter'.set => waiter'.ans \in AnswerMessage
  <2> USE DEF TypeOK, Handled
  <2>1. CASE sendCommandWithoutResponse
    <3>1. Current \in StepType /\ Current.do = "send"
      BY <2>1, CurrentTyped DEF sendCommandWithoutResponse, Goes
    <3>2. Current.cmd \in Commands
      BY <3>1 DEF StepType, Commands
    <3>3. tx' \in Seq(Commands)
      BY <2>1, <3>2, Appended DEF sendCommandWithoutResponse
    <3>4. session' \in Nat
      BY <2>1 DEF sendCommandWithoutResponse
    <3>5. /\ codec' \in {"sync", "loop"} /\ unpacker' \in [enabled : BOOLEAN, selected : BOOLEAN]
      BY <2>1, <1>7 DEF sendCommandWithoutResponse
    <3>6. waiter' = [waiter EXCEPT !.set = FALSE]
      BY <2>1 DEF sendCommandWithoutResponse
    <3> QED
      BY <2>1, <3>3, <3>4, <3>5, <3>6, <1>8 DEF sendCommandWithoutResponse
  <2>2. CASE sendCommandWithResponse
    <3>1. Current \in StepType /\ Current.do = "ask"
      BY <2>2, CurrentTyped DEF sendCommandWithResponse, Goes
    <3>2. Current.cmd \in Asked
      BY <3>1 DEF StepType
    <3>3. Current.cmd \in Commands /\ AnswerType(Current.cmd) \in {"conf", "info", "acc", "health"}
      BY <3>2 DEF Asked, Commands, AnswerType
    <3>4. tx' \in Seq(Commands)
      BY <2>2, <3>3, Appended DEF sendCommandWithResponse
    <3> QED
      BY <2>2, <3>3, <3>4 DEF sendCommandWithResponse, disableDataGrabbing
  <2>3. CASE Disable
    BY <2>3, <1>7 DEF Disable, lineVars, answerVars
  <2>4. CASE enable
    BY <2>4 DEF enable, lineVars, answerVars
  <2>6. CASE Answered
    <3>1. waiter' = [waiter EXCEPT !.set = FALSE]
      BY <2>6 DEF Answered
    <3> QED
      BY <2>6, <3>1, <1>8 DEF Answered, lineVars, decoderVars
  <2>7. CASE AnswerTimeout
    BY <2>7 DEF AnswerTimeout, lineVars, decoderVars, answerVars
  <2>5. CASE reset \/ Return
    BY <2>5 DEF reset, Return, Idle, lineVars, decoderVars, answerVars
  <2> QED
    BY <2>1, <2>2, <2>3, <2>4, <2>5, <2>6, <2>7 DEF Call
<1>6. TypeOK' /\ Handled'
  BY <1>2, <1>3, <1>4, <1>5 DEF TypeOK, Handled, ClientType, Sound, HolderType
<1> QED
  BY <1>3, <1>4, <1>6, InvParts DEF Inv, Signalled, Capacity, Sound

(* Between calls the event becomes the client's promise of a buffer.       *)
LEMMA WorkLoopKeeps == Inv /\ WorkLoop => Inv'
<1> SUFFICES ASSUME Inv, WorkLoop PROVE Inv'
  OBVIOUS
<1>1. TypeOK /\ Handled /\ Sound(holder)
  BY InvParts
<1> USE <1>1
<1>2. UNCHANGED <<device, tx, decoder, waiting, waiter, session, lost, timeouts>>
  BY DEF WorkLoop, GrabReady, GrabTimeout, waitAndLockAvailableScan, spin_some, start_motor,
         stop_motor, need_exit, disconnect, Idle, lineVars, decoderVars, answerVars
<1>3. /\ rx' \in Seq(PacketType)
      /\ codec' \in {"sync", "loop"} /\ unpacker' \in [enabled : BOOLEAN, selected : BOOLEAN]
  <2>1. CASE disconnect
    BY <2>1 DEF disconnect, disableDataGrabbing
  <2>2. CASE Idle
    BY <2>2 DEF Idle, lineVars, decoderVars, TypeOK, PacketType
  <2> QED
    BY <2>1, <2>2 DEF WorkLoop, GrabReady, GrabTimeout, waitAndLockAvailableScan, spin_some,
         start_motor, stop_motor, need_exit
<1>4. client' \in ClientType /\ client'.pc # "wait"
  <2>1. CASE start_motor
    <3>1. client.starts + 1 \in Nat
      BY DEF TypeOK
    <3> QED
      BY <2>1, <3>1, OnwardTyped DEF start_motor, ClientType, Calls
  <2>2. CASE stop_motor \/ need_exit
    BY <2>2, OnwardTyped DEF stop_motor, need_exit, Calls
  <2>3. CASE GrabReady \/ GrabTimeout \/ waitAndLockAvailableScan
    BY <2>3 DEF GrabReady, GrabTimeout, waitAndLockAvailableScan, TypeOK, ClientType
  <2>4. CASE spin_some \/ disconnect
    BY <2>4 DEF spin_some, disconnect, TypeOK, ClientType
  <2> QED
    BY <2>1, <2>2, <2>3, <2>4 DEF WorkLoop
<1>5. Sound(holder') /\ (~Spurious /\ client'.pc = "lock" => holder'.available >= 0)
  <2>1. CASE GrabReady
    BY <2>1 DEF GrabReady, Wakes, Sound, HolderType
  <2>2. CASE ~GrabReady
    <3>1. holder' = holder
      BY <2>2 DEF WorkLoop, GrabTimeout, waitAndLockAvailableScan, spin_some, start_motor,
                  stop_motor, need_exit, disconnect
    <3>2. client'.pc # "lock"
      <4>1. CASE start_motor \/ stop_motor \/ need_exit
        BY <4>1, OnwardTyped DEF start_motor, stop_motor, need_exit, Calls, ClientType
      <4>2. CASE GrabTimeout \/ waitAndLockAvailableScan \/ spin_some \/ disconnect
        BY <4>2 DEF GrabTimeout, waitAndLockAvailableScan, spin_some, disconnect, TypeOK
      <4> QED
        BY <2>2, <4>1, <4>2 DEF WorkLoop
    <3> QED
      BY <3>1, <3>2
  <2> QED
    BY <2>1, <2>2
<1>6. grabbed' \in [nodes : Seq(SampleType), session : Nat]
  <2>1. CASE waitAndLockAvailableScan
    <3>1. holder.available \in {0, 1}
      BY <2>1 DEF waitAndLockAvailableScan, Sound, HolderType
    <3>2. holder.buf[holder.available] \in Seq(SampleType)
      BY <3>1 DEF Sound, HolderType
    <3> QED
      BY <2>1, <3>2 DEF waitAndLockAvailableScan, TypeOK
  <2>2. CASE start_motor
    <3>1. <<>> \in Seq(SampleType)
      OBVIOUS
    <3> QED
      BY <2>2, <3>1 DEF start_motor
  <2>3. CASE grabbed' = grabbed
    BY <2>3 DEF TypeOK
  <2> QED
    BY <2>1, <2>2, <2>3 DEF WorkLoop, GrabReady, GrabTimeout, spin_some, stop_motor, need_exit,
                            disconnect
<1>7. TypeOK' /\ Handled' /\ WaitsInCalls'
  BY <1>2, <1>3, <1>4, <1>5, <1>6
     DEF TypeOK, Handled, WaitsInCalls, ClientType, PacketType, Sound, HolderType
<1> QED
  BY <1>5, <1>7, InvParts DEF Inv, Signalled, Capacity, Sound

LEMMA Invariance == Spec => []Inv
<1>1. Inv /\ UNCHANGED vars => Inv'
  BY DEF Inv, TypeOK, Signalled, Capacity, WaitsInCalls, Handled, Current, vars
<1>2. Inv /\ [Next]_vars => Inv'
  BY <1>1, LineKeeps, DecoderKeeps, CallKeeps, WorkLoopKeeps DEF Next, Client
<1> QED
  BY InitInv, <1>2, PTL DEF Spec

(* Every variable keeps its type (TypeOK).                                 *)
THEOREM LidarTyped == Spec => []TypeOK
BY Invariance, PTL DEF Inv

(* Without spurious wake-ups a client that was signalled finds an          *)
(* available buffer (AvailableWhenSignalled), so that the assertion of     *)
(* waitAndLockAvailableScan holds.                                         *)
THEOREM SignalMeansBuffer ==
    ASSUME ~Spurious
    PROVE  Spec => []AvailableWhenSignalled
<1>1. Inv => AvailableWhenSignalled
  BY DEF Inv, Signalled, AvailableWhenSignalled
<1> QED
  BY Invariance, <1>1, PTL

-----------------------------------------------------------------------------
(* The places of a sequence that hold a member of X, and those of A that   *)
(* come before one of H.                                                   *)
Where(s, X) == {i \in 1 .. Len(s) : s[i] \in X}
Ahead(A, H) == {i \in A : \E h \in H : i < h}

LEMMA WhereAppend ==
    ASSUME NEW S, NEW s \in Seq(S), NEW x \in S, NEW X
    PROVE  Where(Append(s, x), X) =
             IF x \in X THEN Where(s, X) \cup {Len(s) + 1} ELSE Where(s, X)
<1>1. /\ Len(s) \in Nat /\ Len(Append(s, x)) = Len(s) + 1
      /\ \A i \in 1 .. Len(s) : Append(s, x)[i] = s[i]
      /\ Append(s, x)[Len(s) + 1] = x
  BY AppendProperties, LenProperties
<1>2. 1 .. Len(s) + 1 = (1 .. Len(s)) \cup {Len(s) + 1} /\ Len(s) + 1 \notin 1 .. Len(s)
  BY <1>1
<1> QED
  BY <1>1, <1>2 DEF Where

LEMMA WhereTail ==
    ASSUME NEW S, NEW s \in Seq(S), s # <<>>, NEW X
    PROVE  /\ \A i \in Nat \ {0} : i \in Where(Tail(s), X) <=> i + 1 \in Where(s, X)
           /\ 1 \in Where(s, X) <=> Head(s) \in X
<1>1. /\ Len(s) \in Nat \ {0} /\ Len(Tail(s)) = Len(s) - 1
      /\ \A i \in 1 .. Len(Tail(s)) : Tail(s)[i] = s[i + 1]
      /\ Head(s) = s[1]
  BY HeadTailProperties, LenProperties, EmptySeq
<1>2. ASSUME NEW i \in Nat \ {0}
      PROVE  i \in Where(Tail(s), X) <=> i + 1 \in Where(s, X)
  <2>1. i \in 1 .. Len(s) - 1 <=> i + 1 \in 1 .. Len(s)
    BY <1>1
  <2> QED
    BY <1>1, <2>1 DEF Where
<1> QED
  BY <1>1, <1>2 DEF Where

LEMMA WhereFinite ==
    ASSUME NEW S, NEW s \in Seq(S), NEW X
    PROVE  /\ Where(s, X) \in SUBSET (1 .. Len(s)) /\ Len(s) \in Nat
           /\ IsFiniteSet(Where(s, X)) /\ Cardinality(Where(s, X)) \in Nat
<1>1. Len(s) \in Nat
  BY LenProperties
<1>2. Where(s, X) \in SUBSET (1 .. Len(s))
  BY DEF Where
<1>3. IsFiniteSet(1 .. Len(s))
  BY <1>1, FS_Interval
<1>4. IsFiniteSet(Where(s, X))
  BY <1>2, <1>3, FS_Subset
<1> QED
  BY <1>1, <1>2, <1>4, FS_CardinalityType

(* What taking the first place away does to a count.                       *)
LEMMA Shifted ==
    ASSUME NEW n \in Nat, NEW A \in SUBSET (1 .. n), NEW B \in SUBSET (1 .. n),
           \A i \in Nat \ {0} : i \in B <=> i + 1 \in A
    PROVE  /\ Cardinality(A) \in Nat /\ Cardinality(B) \in Nat
           /\ Cardinality(A) = Cardinality(B) + (IF 1 \in A THEN 1 ELSE 0)
<1>1. IsFiniteSet(A) /\ IsFiniteSet(B)
  <2>1. IsFiniteSet(1 .. n)
    BY FS_Interval
  <2> QED
    BY <2>1, FS_Subset
<1>2. ExistsBijection(B, A \ {1})
  <2> DEFINE f == [i \in B |-> i + 1]
  <2>1. f \in [B -> A \ {1}]
    OBVIOUS
  <2>2. \A i, j \in B : f[i] = f[j] => i = j
    OBVIOUS
  <2>3. ASSUME NEW k \in A \ {1} PROVE \E i \in B : f[i] = k
    <3>1. k - 1 \in Nat \ {0} /\ (k - 1) + 1 = k
      OBVIOUS
    <3>2. k - 1 \in B
      BY <3>1
    <3> QED
      BY <3>1, <3>2
  <2> QED
    BY <2>1, <2>2, <2>3, Zenon DEF ExistsBijection, Bijection, Injection, Surjection, IsInjective
<1>3. Cardinality(A \ {1}) = Cardinality(B)
  BY <1>1, <1>2, FS_Bijection
<1>4. Cardinality(A \ {1}) = IF 1 \in A THEN Cardinality(A) - 1 ELSE Cardinality(A)
  BY <1>1, FS_RemoveElement
<1>5. Cardinality(A) \in Nat /\ Cardinality(B) \in Nat
  BY <1>1, FS_CardinalityType
<1> QED
  BY <1>3, <1>4, <1>5

-----------------------------------------------------------------------------
(***************************************************************************)
(* The program of start().  Its last four steps are the question that may  *)
(* fail, the reset, the enabling and the SCAN command; before them it      *)
(* insists on Insisted answers, the last of them at step LastStep, and     *)
(* Passed(k) of them have been accepted when it is at step k.              *)
(***************************************************************************)
Fields == Len(ModeFields)
LastStep == 9 + 3 * Fields
Insisted == 4 + 3 * Fields
Passed(k) ==
    CASE k <= 2                            -> 0
      [] k \in 3 .. 4 + Fields              -> k - 2
      [] k \in 5 + Fields .. 6 + Fields     -> 2 + Fields
      [] k \in 7 + Fields .. 7 + 2 * Fields -> k - 4
      [] k \in 8 + 2 * Fields .. 9 + 2 * Fields -> 3 + 2 * Fields
      [] k > 9 + 2 * Fields                 -> k - 6

InsistsAt(s, k) == s[k].do = "ask" /\ s[k].skip = End
StopsAt(s, k) == s[k].do = "disable" \/ (s[k].do = "send" /\ s[k].cmd = "STOP")

LEMMA Pieces ==
    /\ Fields \in Nat
    /\ \A c : /\ Len(Get(c)) = 1 /\ InsistsAt(Get(c), 1)
              /\ Len(Try(c)) = 1 /\ Try(c)[1].do = "ask" /\ Try(c)[1].skip = 0
              /\ Len(Do(c)) = 1 /\ Do(c)[1].do = c
    /\ Len(stop) = 2 /\ StopsAt(stop, 1) /\ StopsAt(stop, 2)
    /\ Len(ModeConf) = Fields /\ \A k \in 1 .. Fields : InsistsAt(ModeConf, k)
<1>1. Fields \in Nat /\ DOMAIN ModeFields = 1 .. Fields
  BY FieldsAssumption, LenProperties DEF Fields
<1>2. ASSUME NEW c
      PROVE  /\ Len(Get(c)) = 1 /\ InsistsAt(Get(c), 1)
             /\ Len(Try(c)) = 1 /\ Try(c)[1].do = "ask" /\ Try(c)[1].skip = 0
             /\ Len(Do(c)) = 1 /\ Do(c)[1].do = c
  BY DEF Get, Try, Do, Step, InsistsAt
<1>3. Len(stop) = 2 /\ StopsAt(stop, 1) /\ StopsAt(stop, 2)
  BY DEF stop, Do, Step, StopsAt
<1>4. Len(ModeConf) = Fields /\ \A k \in 1 .. Fields : InsistsAt(ModeConf, k)
  <2>1. DOMAIN ModeConf = 1 .. Fields
    BY <1>1 DEF ModeConf
  <2>2. Len(ModeConf) = Fields
    BY <1>1, <2>1, ModeConfTyped, LenProperties
  <2>3. ASSUME NEW k \in 1 .. Fields PROVE InsistsAt(ModeConf, k)
    BY <1>1 DEF ModeConf, Step, InsistsAt
  <2> QED
    BY <2>2, <2>3
<1> QED
  BY <1>1, <1>2, <1>3, <1>4

LEMMA Joins ==
    ASSUME NEW s \in Seq(StepType), NEW t \in Seq(StepType)
    PROVE  /\ s \o t \in Seq(StepType) /\ Len(s \o t) = Len(s) + Len(t)
           /\ Len(s) \in Nat /\ Len(t) \in Nat
           /\ \A i \in 1 .. Len(s) : (s \o t)[i] = s[i]
           /\ \A i \in Len(s) + 1 .. Len(s) + Len(t) :
                (s \o t)[i] = t[i - Len(s)] /\ i - Len(s) \in 1 .. Len(t)
<1>1. Len(s) \in Nat /\ Len(t) \in Nat
  BY LenProperties
<1>2. /\ s \o t \in Seq(StepType) /\ Len(s \o t) = Len(s) + Len(t)
      /\ \A i \in 1 .. Len(s) + Len(t) :
           (s \o t)[i] = IF i <= Len(s) THEN s[i] ELSE t[i - Len(s)]
  BY ConcatProperties
<1> QED
  BY <1>1, <1>2

LEMMA JoinsOne ==
    ASSUME NEW p \in Seq(StepType), NEW q \in Seq(StepType), NEW n \in Nat,
           Len(p) = n, Len(q) = 1
    PROVE  /\ p \o q \in Seq(StepType) /\ Len(p \o q) = n + 1
           /\ \A i \in 1 .. n : (p \o q)[i] = p[i]
           /\ (p \o q)[n + 1] = q[1]
<1>1. /\ p \o q \in Seq(StepType) /\ Len(p \o q) = Len(p) + Len(q)
      /\ \A i \in 1 .. Len(p) : (p \o q)[i] = p[i]
      /\ \A i \in Len(p) + 1 .. Len(p) + Len(q) :
            (p \o q)[i] = q[i - Len(p)] /\ i - Len(p) \in 1 .. Len(q)
  BY Joins, Zenon
<1>2. (n + 1) - n = 1 /\ n + 1 \in n + 1 .. n + 1
  OBVIOUS
<1> QED
  BY <1>1, <1>2

LEMMA ModesProgram ==
    /\ getAllSupportedScanModes \in Seq(StepType) /\ Len(getAllSupportedScanModes) = 2 + Fields
    /\ \A k \in 1 .. 2 + Fields : InsistsAt(getAllSupportedScanModes, k)
<1> DEFINE s == Get("info") \o Get("count")
<1>1. /\ s \in Seq(StepType) /\ Len(s) = 2 /\ InsistsAt(s, 1) /\ InsistsAt(s, 2)
  <2>1. Get("info") \in Seq(StepType) /\ Get("count") \in Seq(StepType)
    BY StepsTyped
  <2>2. Len(Get("info")) = 1 /\ Len(Get("count")) = 1
    BY Pieces
  <2>3. s \in Seq(StepType) /\ Len(s) = 2 /\ s[1] = Get("info")[1] /\ s[2] = Get("count")[1]
    BY <2>1, <2>2, Joins
  <2> QED
    BY <2>3, Pieces DEF InsistsAt
<1>2. getAllSupportedScanModes = s \o ModeConf
  BY DEF getAllSupportedScanModes
<1> HIDE DEF s
<1>3. /\ s \o ModeConf \in Seq(StepType) /\ Len(s \o ModeConf) = 2 + Fields
      /\ \A i \in 1 .. 2 : (s \o ModeConf)[i] = s[i]
      /\ \A i \in 2 + 1 .. 2 + Fields :
           (s \o ModeConf)[i] = ModeConf[i - 2] /\ i - 2 \in 1 .. Fields
  <2>1. Len(ModeConf) = Fields
    BY Pieces
  <2>2. /\ s \o ModeConf \in Seq(StepType) /\ Len(s \o ModeConf) = Len(s) + Len(ModeConf)
        /\ \A i \in 1 .. Len(s) : (s \o ModeConf)[i] = s[i]
        /\ \A i \in Len(s) + 1 .. Len(s) + Len(ModeConf) :
              (s \o ModeConf)[i] = ModeConf[i - Len(s)] /\ i - Len(s) \in 1 .. Len(ModeConf)
    BY <1>1, ModeConfTyped, Joins, Zenon
  <2> QED
    BY <1>1, <2>1, <2>2
<1>4. ASSUME NEW k \in 1 .. 2 + Fields PROVE InsistsAt(s \o ModeConf, k)
  <2>1. CASE k \in 1 .. 2
    BY <1>1, <1>3, <2>1 DEF InsistsAt
  <2>2. CASE k \notin 1 .. 2
    <3>1. k \in 2 + 1 .. 2 + Fields
      BY <2>2, Pieces
    <3> QED
      BY <1>3, <3>1, Pieces DEF InsistsAt
  <2> QED
    BY <2>1, <2>2
<1> QED
  BY <1>2, <1>3, <1>4

LEMMA ExpressProgram ==
    /\ startScanExpress \in Seq(StepType) /\ Len(startScanExpress) = 3 + Fields
    /\ StopsAt(startScanExpress, 1) /\ StopsAt(startScanExpress, 2)
    /\ \A k \in 3 .. 3 + Fields : InsistsAt(startScanExpress, k)
<1> DEFINE s == stop \o Get("info")
<1>1. /\ s \in Seq(StepType) /\ Len(s) = 3
      /\ StopsAt(s, 1) /\ StopsAt(s, 2) /\ InsistsAt(s, 3)
  <2>1. stop \in Seq(StepType) /\ Get("info") \in Seq(StepType)
    BY StepsTyped, StopTyped
  <2>2. Len(stop) = 2 /\ Len(Get("info")) = 1
    BY Pieces
  <2>3. /\ s \in Seq(StepType) /\ Len(s) = 2 + 1
        /\ \A i \in 1 .. 2 : s[i] = stop[i]
        /\ s[2 + 1] = Get("info")[1]
    BY <2>1, <2>2, JoinsOne, ZenonT(30)
  <2>4. Len(s) = 3 /\ s[1] = stop[1] /\ s[2] = stop[2] /\ s[3] = Get("info")[1]
    BY <2>3
  <2> QED
    BY <2>3, <2>4, Pieces DEF InsistsAt, StopsAt
<1>2. startScanExpress = s \o ModeConf
  BY DEF startScanExpress
<1> HIDE DEF s
<1>3. /\ s \o ModeConf \in Seq(StepType) /\ Len(s \o ModeConf) = 3 + Fields
      /\ \A i \in 1 .. 3 : (s \o ModeConf)[i] = s[i]
      /\ \A i \in 3 + 1 .. 3 + Fields :
           (s \o ModeConf)[i] = ModeConf[i - 3] /\ i - 3 \in 1 .. Fields
  <2>1. Len(ModeConf) = Fields
    BY Pieces
  <2>2. /\ s \o ModeConf \in Seq(StepType) /\ Len(s \o ModeConf) = Len(s) + Len(ModeConf)
        /\ \A i \in 1 .. Len(s) : (s \o ModeConf)[i] = s[i]
        /\ \A i \in Len(s) + 1 .. Len(s) + Len(ModeConf) :
              (s \o ModeConf)[i] = ModeConf[i - Len(s)] /\ i - Len(s) \in 1 .. Len(ModeConf)
    BY <1>1, ModeConfTyped, Joins, Zenon
  <2> QED
    BY <1>1, <2>1, <2>2
<1>4. ASSUME NEW k \in 3 .. 3 + Fields PROVE InsistsAt(s \o ModeConf, k)
  <2>1. CASE k = 3
    BY <1>1, <1>3, <2>1 DEF InsistsAt
  <2>2. CASE k # 3
    <3>1. k \in 3 + 1 .. 3 + Fields
      BY <2>2, Pieces
    <3> QED
      BY <1>3, <3>1, Pieces DEF InsistsAt
  <2> QED
    BY <2>1, <2>2
<1>5. StopsAt(s \o ModeConf, 1) /\ StopsAt(s \o ModeConf, 2)
  BY <1>1, <1>3 DEF StopsAt
<1> QED
  BY <1>2, <1>3, <1>4, <1>5

(* startScanNormal, whose first part is that of startScanExpress.          *)
LEMMA NormalProgram ==
    /\ startScanNormal \in Seq(StepType) /\ Len(startScanNormal) = 7 + Fields
    /\ StopsAt(startScanNormal, 1) /\ StopsAt(startScanNormal, 2)
    /\ \A k \in 3 .. 3 + Fields : InsistsAt(startScanNormal, k)
    /\ startScanNormal[4 + Fields].do = "ask" /\ startScanNormal[4 + Fields].skip = 0
    /\ startScanNormal[5 + Fields].do = "reset"
    /\ startScanNormal[6 + Fields].do = "enable"
    /\ startScanNormal[7 + Fields].do = "send" /\ startScanNormal[7 + Fields].cmd = "SCAN"
<1> DEFINE s == startScanExpress
           a == Try("desired speed")
           b == Do("reset")
           c == Do("enable")
           d == <<Step("send", "SCAN", End)>>
<1>1. startScanNormal = (((s \o a) \o b) \o c) \o d
  BY DEF startScanNormal, startScanExpress
<1>2. /\ a \in Seq(StepType) /\ b \in Seq(StepType) /\ c \in Seq(StepType) /\ d \in Seq(StepType)
      /\ Len(a) = 1 /\ Len(b) = 1 /\ Len(c) = 1 /\ Len(d) = 1
      /\ a[1].do = "ask" /\ a[1].skip = 0 /\ b[1].do = "reset" /\ c[1].do = "enable"
      /\ d[1].do = "send" /\ d[1].cmd = "SCAN"
  <2>1. d \in Seq(StepType) /\ Len(d) = 1 /\ d[1].do = "send" /\ d[1].cmd = "SCAN"
    BY StepsTyped DEF Step
  <2> QED
    BY <2>1, StepsTyped, Pieces
<1>3. s \in Seq(StepType) /\ Len(s) = 3 + Fields /\ Fields \in Nat
  BY ExpressProgram, Pieces
<1> HIDE DEF s, a, b, c, d
<1>4. /\ s \o a \in Seq(StepType) /\ Len(s \o a) = 4 + Fields
      /\ \A i \in 1 .. 3 + Fields : (s \o a)[i] = s[i]
      /\ (s \o a)[4 + Fields] = a[1]
  <2>0. 3 + Fields \in Nat
    BY <1>3
  <2>1. /\ s \o a \in Seq(StepType) /\ Len(s \o a) = (3 + Fields) + 1
        /\ \A i \in 1 .. 3 + Fields : (s \o a)[i] = s[i]
        /\ (s \o a)[(3 + Fields) + 1] = a[1]
    BY <2>0, <1>2, <1>3, JoinsOne, Zenon
  <2>2. (3 + Fields) + 1 = 4 + Fields
    BY <1>3
  <2> QED
    BY <2>1, <2>2
<1> DEFINE sa == s \o a
<1> HIDE DEF sa
<1>5. /\ sa \o b \in Seq(StepType) /\ Len(sa \o b) = 5 + Fields
      /\ \A i \in 1 .. 4 + Fields : (sa \o b)[i] = sa[i]
      /\ (sa \o b)[5 + Fields] = b[1]
  <2>0. 4 + Fields \in Nat
    BY <1>3
  <2>1. /\ sa \o b \in Seq(StepType) /\ Len(sa \o b) = (4 + Fields) + 1
        /\ \A i \in 1 .. 4 + Fields : (sa \o b)[i] = sa[i]
        /\ (sa \o b)[(4 + Fields) + 1] = b[1]
    BY <2>0, <1>2, <1>3, <1>4, JoinsOne, ZenonT(30) DEF sa
  <2>2. (4 + Fields) + 1 = 5 + Fields
    BY <1>3
  <2> QED
    BY <2>1, <2>2
<1> DEFINE sab == sa \o b
<1> HIDE DEF sab
<1>6. /\ sab \o c \in Seq(StepType) /\ Len(sab \o c) = 6 + Fields
      /\ \A i \in 1 .. 5 + Fields : (sab \o c)[i] = sab[i]
      /\ (sab \o c)[6 + Fields] = c[1]
  <2>0. 5 + Fields \in Nat
    BY <1>3
  <2>1. /\ sab \o c \in Seq(StepType) /\ Len(sab \o c) = (5 + Fields) + 1
        /\ \A i \in 1 .. 5 + Fields : (sab \o c)[i] = sab[i]
        /\ (sab \o c)[(5 + Fields) + 1] = c[1]
    BY <2>0, <1>2, <1>3, <1>5, JoinsOne, ZenonT(30) DEF sab
  <2>2. (5 + Fields) + 1 = 6 + Fields
    BY <1>3
  <2> QED
    BY <2>1, <2>2
<1> DEFINE sabc == sab \o c
<1> HIDE DEF sabc
<1>7. /\ sabc \o d \in Seq(StepType) /\ Len(sabc \o d) = 7 + Fields
      /\ \A i \in 1 .. 6 + Fields : (sabc \o d)[i] = sabc[i]
      /\ (sabc \o d)[7 + Fields] = d[1]
  <2>0. 6 + Fields \in Nat
    BY <1>3
  <2>1. /\ sabc \o d \in Seq(StepType) /\ Len(sabc \o d) = (6 + Fields) + 1
        /\ \A i \in 1 .. 6 + Fields : (sabc \o d)[i] = sabc[i]
        /\ (sabc \o d)[(6 + Fields) + 1] = d[1]
    BY <2>0, <1>2, <1>3, <1>6, JoinsOne, ZenonT(30) DEF sabc
  <2>2. (6 + Fields) + 1 = 7 + Fields
    BY <1>3
  <2> QED
    BY <2>1, <2>2
<1>8. startScanNormal = sabc \o d
  BY <1>1 DEF sa, sab, sabc
<1>9. ASSUME NEW i \in 1 .. 3 + Fields PROVE startScanNormal[i] = s[i]
  <2>1. i \in 1 .. 4 + Fields /\ i \in 1 .. 5 + Fields /\ i \in 1 .. 6 + Fields
    BY <1>3
  <2> QED
    BY <1>4, <1>5, <1>6, <1>7, <1>8, <2>1 DEF sa, sab, sabc
<1>10. /\ startScanNormal[4 + Fields] = a[1] /\ startScanNormal[5 + Fields] = b[1]
       /\ startScanNormal[6 + Fields] = c[1] /\ startScanNormal[7 + Fields] = d[1]
  <2>1. /\ 4 + Fields \in 1 .. 4 + Fields /\ 4 + Fields \in 1 .. 5 + Fields
        /\ 4 + Fields \in 1 .. 6 + Fields /\ 5 + Fields \in 1 .. 5 + Fields
        /\ 5 + Fields \in 1 .. 6 + Fields /\ 6 + Fields \in 1 .. 6 + Fields
    BY <1>3
  <2> QED
    BY <1>4, <1>5, <1>6, <1>7, <1>8, <2>1 DEF sa, sab, sabc
<1>11. ASSUME NEW k \in 3 .. 3 + Fields PROVE InsistsAt(startScanNormal, k)
  <2>1. k \in 1 .. 3 + Fields
    OBVIOUS
  <2> QED
    BY <1>9, <2>1, ExpressProgram DEF InsistsAt, s
<1>12. StopsAt(startScanNormal, 1) /\ StopsAt(startScanNormal, 2)
  <2>1. 1 \in 1 .. 3 + Fields /\ 2 \in 1 .. 3 + Fields
    BY <1>3
  <2> QED
    BY <1>9, <2>1, ExpressProgram DEF StopsAt, s
<1> QED
  BY <1>2, <1>7, <1>8, <1>10, <1>11, <1>12

LEMMA StartProgram ==
    /\ Len(start) = 13 + 3 * Fields
    /\ \A k \in 1 .. LastStep :
          /\ k = 1 => start[k].do = "ask" /\ start[k].skip = 0
          /\ k \in {4 + Fields, 5 + Fields, 7 + 2 * Fields, 8 + 2 * Fields} => StopsAt(start, k)
          /\ k \notin {1, 4 + Fields, 5 + Fields, 7 + 2 * Fields, 8 + 2 * Fields} =>
                InsistsAt(start, k)
    /\ start[10 + 3 * Fields].do = "ask" /\ start[10 + 3 * Fields].skip = 0
    /\ start[11 + 3 * Fields].do = "reset"
    /\ start[12 + 3 * Fields].do = "enable"
    /\ start[13 + 3 * Fields].do = "send" /\ start[13 + 3 * Fields].cmd = "SCAN"
<1> DEFINE a == Try("desired speed")
           b == getAllSupportedScanModes
           c == startScanExpress
           d == startScanNormal
<1>1. start = ((a \o b) \o c) \o d
  BY DEF start
<1>2. /\ a \in Seq(StepType) /\ Len(a) = 1 /\ a[1].do = "ask" /\ a[1].skip = 0
      /\ b \in Seq(StepType) /\ Len(b) = 2 + Fields
      /\ c \in Seq(StepType) /\ Len(c) = 3 + Fields
      /\ d \in Seq(StepType) /\ Len(d) = 7 + Fields
      /\ Fields \in Nat
  BY StepsTyped, Pieces, ModesProgram, ExpressProgram, NormalProgram
<1> HIDE DEF a, b, c, d
<1>3. /\ a \o b \in Seq(StepType) /\ Len(a \o b) = 3 + Fields
      /\ (a \o b)[1] = a[1]
      /\ \A i \in 2 .. 3 + Fields : (a \o b)[i] = b[i - 1]
  <2>1. /\ a \o b \in Seq(StepType) /\ Len(a \o b) = Len(a) + Len(b)
        /\ \A i \in 1 .. Len(a) : (a \o b)[i] = a[i]
        /\ \A i \in Len(a) + 1 .. Len(a) + Len(b) :
              (a \o b)[i] = b[i - Len(a)] /\ i - Len(a) \in 1 .. Len(b)
    BY <1>2, Joins, Zenon
  <2> QED
    BY <1>2, <2>1
<1> DEFINE ab == a \o b
<1> HIDE DEF ab
<1>4. /\ ab \o c \in Seq(StepType) /\ Len(ab \o c) = 6 + 2 * Fields
      /\ (ab \o c)[1] = a[1]
      /\ \A i \in 2 .. 3 + Fields : (ab \o c)[i] = b[i - 1]
      /\ \A i \in 4 + Fields .. 6 + 2 * Fields : (ab \o c)[i] = c[i - (3 + Fields)]
  <2>1. /\ ab \o c \in Seq(StepType) /\ Len(ab \o c) = Len(ab) + Len(c)
        /\ \A i \in 1 .. Len(ab) : (ab \o c)[i] = ab[i]
        /\ \A i \in Len(ab) + 1 .. Len(ab) + Len(c) :
              (ab \o c)[i] = c[i - Len(ab)] /\ i - Len(ab) \in 1 .. Len(c)
    BY <1>2, <1>3, Joins, Zenon DEF ab
  <2> QED
    BY <1>2, <1>3, <2>1 DEF ab
<1> DEFINE abc == ab \o c
<1> HIDE DEF abc
<1>5. /\ Len(abc \o d) = 13 + 3 * Fields
      /\ (abc \o d)[1] = a[1]
      /\ \A i \in 2 .. 3 + Fields : (abc \o d)[i] = b[i - 1]
      /\ \A i \in 4 + Fields .. 6 + 2 * Fields : (abc \o d)[i] = c[i - (3 + Fields)]
      /\ \A i \in 7 + 2 * Fields .. 13 + 3 * Fields : (abc \o d)[i] = d[i - (6 + 2 * Fields)]
  <2>1. /\ Len(abc \o d) = Len(abc) + Len(d)
        /\ \A i \in 1 .. Len(abc) : (abc \o d)[i] = abc[i]
        /\ \A i \in Len(abc) + 1 .. Len(abc) + Len(d) :
              (abc \o d)[i] = d[i - Len(abc)] /\ i - Len(abc) \in 1 .. Len(d)
    BY <1>2, <1>4, Joins, Zenon DEF abc
  <2> QED
    BY <1>2, <1>4, <2>1 DEF abc
<1>6. start = abc \o d
  BY <1>1 DEF abc, ab
<1>7. ASSUME NEW k \in 2 .. 3 + Fields PROVE InsistsAt(start, k)
  <2>1. k - 1 \in 1 .. 2 + Fields
    BY <1>2
  <2> QED
    BY <1>5, <1>6, <2>1, ModesProgram DEF InsistsAt, b
<1>8. /\ StopsAt(start, 4 + Fields) /\ StopsAt(start, 5 + Fields)
      /\ \A k \in 6 + Fields .. 6 + 2 * Fields : InsistsAt(start, k)
  <2>1. StopsAt(start, 4 + Fields) /\ StopsAt(start, 5 + Fields)
    <3>1. /\ 4 + Fields \in 4 + Fields .. 6 + 2 * Fields /\ (4 + Fields) - (3 + Fields) = 1
          /\ 5 + Fields \in 4 + Fields .. 6 + 2 * Fields /\ (5 + Fields) - (3 + Fields) = 2
      BY <1>2
    <3>2. start[4 + Fields] = c[1] /\ start[5 + Fields] = c[2]
      BY <1>5, <1>6, <3>1
    <3> QED
      BY <3>2, ExpressProgram DEF StopsAt, c
  <2>2. ASSUME NEW k \in 6 + Fields .. 6 + 2 * Fields PROVE InsistsAt(start, k)
    <3>1. k - (3 + Fields) \in 3 .. 3 + Fields /\ k \in 4 + Fields .. 6 + 2 * Fields
      BY <1>2
    <3> QED
      BY <1>5, <1>6, <3>1, ExpressProgram DEF InsistsAt, c
  <2> QED
    BY <2>1, <2>2
<1>9. /\ StopsAt(start, 7 + 2 * Fields) /\ StopsAt(start, 8 + 2 * Fields)
      /\ \A k \in 9 + 2 * Fields .. LastStep : InsistsAt(start, k)
  <2>1. StopsAt(start, 7 + 2 * Fields) /\ StopsAt(start, 8 + 2 * Fields)
    <3>1. /\ 7 + 2 * Fields \in 7 + 2 * Fields .. 13 + 3 * Fields
          /\ (7 + 2 * Fields) - (6 + 2 * Fields) = 1
          /\ 8 + 2 * Fields \in 7 + 2 * Fields .. 13 + 3 * Fields
          /\ (8 + 2 * Fields) - (6 + 2 * Fields) = 2
      BY <1>2
    <3>2. start[7 + 2 * Fields] = d[1] /\ start[8 + 2 * Fields] = d[2]
      BY <1>5, <1>6, <3>1
    <3> QED
      BY <3>2, NormalProgram DEF StopsAt, d
  <2>2. ASSUME NEW k \in 9 + 2 * Fields .. LastStep PROVE InsistsAt(start, k)
    <3>1. k - (6 + 2 * Fields) \in 3 .. 3 + Fields /\ k \in 7 + 2 * Fields .. 13 + 3 * Fields
      BY <1>2 DEF LastStep
    <3> QED
      BY <1>5, <1>6, <3>1, NormalProgram DEF InsistsAt, d
  <2> QED
    BY <2>1, <2>2
<1>10. ASSUME NEW j \in 10 .. 13
       PROVE  start[j + 3 * Fields] = d[j - 6 + Fields]
  <2>1. /\ j + 3 * Fields \in 7 + 2 * Fields .. 13 + 3 * Fields
        /\ (j + 3 * Fields) - (6 + 2 * Fields) = j - 6 + Fields
    BY <1>2
  <2> QED
    BY <1>5, <1>6, <2>1
<1>11. /\ start[10 + 3 * Fields] = d[4 + Fields] /\ start[11 + 3 * Fields] = d[5 + Fields]
       /\ start[12 + 3 * Fields] = d[6 + Fields] /\ start[13 + 3 * Fields] = d[7 + Fields]
  BY <1>10
<1>12. start[1] = a[1] /\ Len(start) = 13 + 3 * Fields
  BY <1>5, <1>6
<1>13. ASSUME NEW k \in 1 .. LastStep,
              k \notin {1, 4 + Fields, 5 + Fields, 7 + 2 * Fields, 8 + 2 * Fields}
       PROVE  InsistsAt(start, k)
  <2>1. \/ k \in 2 .. 3 + Fields \/ k \in 6 + Fields .. 6 + 2 * Fields
        \/ k \in 9 + 2 * Fields .. LastStep
    BY <1>2, <1>13 DEF LastStep
  <2> QED
    BY <1>7, <1>8, <1>9, <2>1
<1> QED
  BY <1>2, <1>8, <1>9, <1>11, <1>12, <1>13, NormalProgram DEF d

(***************************************************************************)
(* How many places of a sequence hold a member of X, how many of them come *)
(* before a member of M, whether there is a member of M, and only one.     *)
(***************************************************************************)
Count(s, X) == Cardinality(Where(s, X))
CountAhead(s, X, M) == Cardinality(Ahead(Where(s, X), Where(s, M)))
Holds(s, M) == Where(s, M) # {}
Once(s, M) == \A i, j \in Where(s, M) : i = j

LEMMA Counted ==
    ASSUME NEW S, NEW s \in Seq(S), NEW X, NEW M
    PROVE  /\ Count(s, X) \in Nat /\ CountAhead(s, X, M) \in Nat
           /\ CountAhead(s, X, M) <= Count(s, X)
           /\ ~Holds(s, M) => CountAhead(s, X, M) = 0
<1>1. IsFiniteSet(Where(s, X)) /\ Count(s, X) \in Nat
  BY WhereFinite DEF Count
<1>2. Ahead(Where(s, X), Where(s, M)) \subseteq Where(s, X)
  BY DEF Ahead
<1>3. ~Holds(s, M) => Ahead(Where(s, X), Where(s, M)) = {}
  BY DEF Ahead, Holds
<1> QED
  BY <1>1, <1>2, <1>3, FS_Subset, FS_CardinalityType, FS_EmptySet DEF Count, CountAhead

LEMMA CountsEmpty ==
    ASSUME NEW X, NEW M
    PROVE  Count(<<>>, X) = 0 /\ CountAhead(<<>>, X, M) = 0 /\ ~Holds(<<>>, M) /\ Once(<<>>, M)
<1>1. Where(<<>>, X) = {} /\ Where(<<>>, M) = {}
  BY EmptySeq DEF Where
<1>2. Ahead(Where(<<>>, X), Where(<<>>, M)) = {}
  BY <1>1 DEF Ahead
<1> QED
  BY <1>1, <1>2, FS_EmptySet DEF Count, CountAhead, Holds, Once

LEMMA CountsAppend ==
    ASSUME NEW S, NEW s \in Seq(S), NEW x \in S, NEW X, NEW M
    PROVE  /\ Count(Append(s, x), X) = Count(s, X) + (IF x \in X THEN 1 ELSE 0)
           /\ Holds(Append(s, x), M) <=> x \in M \/ Holds(s, M)
           /\ x \notin M => /\ CountAhead(Append(s, x), X, M) = CountAhead(s, X, M)
                            /\ Once(Append(s, x), M) <=> Once(s, M)
           /\ x \in M /\ ~Holds(s, M) => Once(Append(s, x), M)
           /\ x \in M /\ x \notin X => CountAhead(Append(s, x), X, M) = Count(s, X)
<1> DEFINE A == Where(s, X)   H == Where(s, M)   n == Len(s)
           B == Where(Append(s, x), X)   G == Where(Append(s, x), M)
<1>1. /\ B = IF x \in X THEN A \cup {n + 1} ELSE A
      /\ G = IF x \in M THEN H \cup {n + 1} ELSE H
  BY WhereAppend
<1>2. n \in Nat /\ A \in SUBSET (1 .. n) /\ H \in SUBSET (1 .. n) /\ IsFiniteSet(A)
      /\ Cardinality(A) \in Nat
  BY WhereFinite
<1>3. n + 1 \notin A /\ n + 1 \notin H
  BY <1>2
<1> HIDE DEF A, H, B, G, n
<1>4. Cardinality(A \cup {n + 1}) = Cardinality(A) + 1
  BY <1>2, <1>3, FS_AddElement
<1>5. Count(Append(s, x), X) = Count(s, X) + (IF x \in X THEN 1 ELSE 0)
  BY <1>1, <1>2, <1>4 DEF Count, A, B
<1>6. Holds(Append(s, x), M) <=> x \in M \/ Holds(s, M)
  BY <1>1 DEF Holds, H, G
<1>7. ASSUME x \notin M
      PROVE  /\ CountAhead(Append(s, x), X, M) = CountAhead(s, X, M)
             /\ Once(Append(s, x), M) <=> Once(s, M)
  <2>1. G = H
    BY <1>1, <1>7
  <2>2. Ahead(B, H) = Ahead(A, H)
    <3>1. \A h \in H : h \in Nat /\ ~(n + 1 < h)
      BY <1>2
    <3> QED
      BY <1>1, <3>1 DEF Ahead
  <2> QED
    BY <2>1, <2>2 DEF CountAhead, Once, A, B, G, H
<1>8. ASSUME x \in M, ~Holds(s, M) PROVE Once(Append(s, x), M)
  BY <1>1, <1>8 DEF Holds, Once, G, H
<1>9. ASSUME x \in M, x \notin X PROVE CountAhead(Append(s, x), X, M) = Count(s, X)
  <2>1. \A i \in A : i < n + 1
    BY <1>2
  <2>2. Ahead(A, G) = A
    BY <1>1, <1>9, <2>1 DEF Ahead
  <2> QED
    BY <1>1, <1>9, <2>2 DEF CountAhead, Count, A, B, G
<1> QED
  BY <1>5, <1>6, <1>7, <1>8, <1>9

LEMMA CountsTail ==
    ASSUME NEW S, NEW s \in Seq(S), s # <<>>, NEW X, NEW M
    PROVE  /\ Count(s, X) = Count(Tail(s), X) + (IF Head(s) \in X THEN 1 ELSE 0)
           /\ CountAhead(s, X, M) = CountAhead(Tail(s), X, M)
                + (IF Head(s) \in X /\ Holds(Tail(s), M) THEN 1 ELSE 0)
           /\ Holds(s, M) <=> Head(s) \in M \/ Holds(Tail(s), M)
           /\ Once(s, M) => /\ Once(Tail(s), M)
                            /\ Head(s) \in M => ~Holds(Tail(s), M)
<1> DEFINE A == Where(s, X)   H == Where(s, M)   n == Len(s)
           B == Where(Tail(s), X)   G == Where(Tail(s), M)
<1>1. /\ \A i \in Nat \ {0} : (i \in B <=> i + 1 \in A) /\ (i \in G <=> i + 1 \in H)
      /\ (1 \in A <=> Head(s) \in X) /\ (1 \in H <=> Head(s) \in M)
  BY WhereTail
<1>2. n \in Nat /\ A \in SUBSET (1 .. n) /\ H \in SUBSET (1 .. n)
  BY WhereFinite
<1>3. B \in SUBSET (1 .. n) /\ G \in SUBSET (1 .. n)
  <2>1. /\ Len(Tail(s)) = n - 1 /\ Tail(s) \in Seq(S) /\ n # 0
    BY HeadTailProperties, EmptySeq, LenProperties
  <2>2. B \in SUBSET (1 .. n - 1) /\ G \in SUBSET (1 .. n - 1)
    BY <2>1, WhereFinite
  <2> QED
    BY <1>2, <2>2
<1> HIDE DEF A, H, B, G, n
<1>4. Cardinality(A) = Cardinality(B) + (IF 1 \in A THEN 1 ELSE 0)
  BY <1>1, <1>2, <1>3, Shifted
<1>5. \A i \in H : i = 1 \/ (i - 1 \in G /\ i - 1 \in Nat \ {0})
  <2>1. \A i \in H : i = 1 \/ (i - 1 \in Nat \ {0} /\ (i - 1) + 1 = i)
    BY <1>2
  <2> QED
    BY <1>1, <2>1
<1>6. \A i \in G : i + 1 \in H /\ 1 < i + 1 /\ i \in Nat \ {0}
  BY <1>1, <1>3
<1>7. Cardinality(Ahead(A, H)) = Cardinality(Ahead(B, G))
        + (IF 1 \in A /\ G # {} THEN 1 ELSE 0)
  <2>1. \A i \in Nat \ {0} : i \in Ahead(B, G) <=> i + 1 \in Ahead(A, H)
    <3> TAKE i \in Nat \ {0}
    <3>1. i \in B <=> i + 1 \in A
      BY <1>1
    <3>2. (\E h \in G : i < h) <=> (\E h \in H : i + 1 < h)
      <4>1. ASSUME NEW h \in G, i < h PROVE \E g \in H : i + 1 < g
        BY <1>6, <4>1
      <4>2. ASSUME NEW h \in H, i + 1 < h PROVE \E g \in G : i < g
        <5>1. h \in Nat
          BY <1>2
        <5>2. h - 1 \in G /\ i < h - 1
          BY <1>5, <4>2, <5>1
        <5> QED
          BY <5>2
      <4> QED
        BY <4>1, <4>2
    <3> QED
      BY <3>1, <3>2 DEF Ahead
  <2>2. 1 \in Ahead(A, H) <=> 1 \in A /\ G # {}
    <3>1. (\E h \in H : 1 < h) <=> G # {}
      BY <1>5, <1>6
    <3> QED
      BY <3>1 DEF Ahead
  <2>3. Ahead(A, H) \in SUBSET (1 .. n) /\ Ahead(B, G) \in SUBSET (1 .. n)
    BY <1>2, <1>3 DEF Ahead
  <2>4. Cardinality(Ahead(A, H)) = Cardinality(Ahead(B, G)) + (IF 1 \in Ahead(A, H) THEN 1 ELSE 0)
    BY <1>2, <2>1, <2>3, Shifted
  <2> QED
    BY <2>2, <2>4
<1>8. H # {} <=> 1 \in H \/ G # {}
  BY <1>5, <1>6
<1>9. ASSUME \A i, j \in H : i = j
      PROVE  (\A i, j \in G : i = j) /\ (1 \in H => G = {})
  <2>1. ASSUME NEW i \in G, NEW j \in G PROVE i = j
    BY <1>6, <1>9, <2>1
  <2>2. ASSUME 1 \in H, NEW i \in G PROVE FALSE
    BY <1>6, <1>9, <2>2
  <2> QED
    BY <2>1, <2>2
<1> QED
  BY <1>1, <1>4, <1>7, <1>8, <1>9 DEF Count, CountAhead, Holds, Once, A, B, G, H

-----------------------------------------------------------------------------
LEMMA PassedFacts ==
    /\ Fields \in Nat /\ LastStep \in Nat /\ Insisted \in Nat /\ LastStep >= 9
    /\ \A k \in 1 .. LastStep : Passed(k) \in Nat
    /\ Passed(1) = 0 /\ Passed(2) = 0 /\ Passed(LastStep) + 1 = Insisted
    /\ \A k \in {4 + Fields, 5 + Fields, 7 + 2 * Fields, 8 + 2 * Fields} :
          k \in 1 .. LastStep - 1 /\ Passed(k + 1) = Passed(k)
    /\ \A k \in 2 .. LastStep - 1 : Passed(k + 1) <= Passed(k) + 1
<1>1. Fields \in Nat
  BY Pieces
<1>2. ASSUME NEW k \in 1 .. LastStep PROVE Passed(k) \in Nat
  BY <1>1, <1>2 DEF Passed, LastStep
<1>3. Passed(1) = 0 /\ Passed(2) = 0
  BY <1>1 DEF Passed
<1>4. Passed(LastStep) + 1 = Insisted
  <2>1. Passed(LastStep) = LastStep - 6
    <3>1. LastStep > 8
      BY <1>1 DEF LastStep
    <3>2. CASE Fields = 0
      <4>1. LastStep \in 8 + 2 * Fields .. 9 + 2 * Fields /\ LastStep = 9
        BY <3>2 DEF LastStep
      <4>2. Passed(9) = 3 + 2 * Fields
        BY <3>2 DEF Passed
      <4> QED
        BY <3>2, <4>1, <4>2
    <3>3. CASE Fields > 0
      <4>1. LastStep > 9 + 2 * Fields
        BY <1>1, <3>3 DEF LastStep
      <4> QED
        BY <1>1, <3>3, <4>1 DEF Passed
    <3> QED
      BY <1>1, <3>2, <3>3
  <2> QED
    BY <1>1, <2>1 DEF LastStep, Insisted
<1>5. \A k \in {4 + Fields, 5 + Fields, 7 + 2 * Fields, 8 + 2 * Fields} :
          k \in 1 .. LastStep - 1 /\ Passed(k + 1) = Passed(k)
  <2>1. /\ Passed(4 + Fields) = 2 + Fields /\ Passed(5 + Fields) = 2 + Fields
        /\ Passed(6 + Fields) = 2 + Fields
    BY <1>1 DEF Passed
  <2>2. /\ Passed(7 + 2 * Fields) = 3 + 2 * Fields /\ Passed(8 + 2 * Fields) = 3 + 2 * Fields
        /\ Passed(9 + 2 * Fields) = 3 + 2 * Fields
    BY <1>1 DEF Passed
  <2>3. /\ (4 + Fields) + 1 = 5 + Fields /\ (5 + Fields) + 1 = 6 + Fields
        /\ (7 + 2 * Fields) + 1 = 8 + 2 * Fields /\ (8 + 2 * Fields) + 1 = 9 + 2 * Fields
    BY <1>1
  <2> QED
    BY <1>1, <2>1, <2>2, <2>3 DEF LastStep
<1>6. ASSUME NEW k \in 2 .. LastStep - 1 PROVE Passed(k + 1) <= Passed(k) + 1
  BY <1>1 DEF Passed, LastStep
<1> QED
  BY <1>1, <1>2, <1>3, <1>4, <1>5, <1>6 DEF LastStep, Insisted

(***************************************************************************)
(* Where start() is: the answers it has accepted since it began, and       *)
(* whether it has drained the line of them.                                *)
(***************************************************************************)
Starting == client.call = "start" /\ client.pc \in {"run", "wait"}
Accepted == IF Starting /\ client.step <= LastStep THEN Passed(client.step) ELSE 0
AtLast   == Starting /\ client.pc = "wait" /\ client.step = LastStep
Drained  == Starting /\ client.step \in LastStep + 1 .. LastStep + 4
Emptied  == Starting /\ client.step \in LastStep + 3 .. LastStep + 4
Armed    == Starting /\ client.pc = "run" /\ client.step = LastStep + 4

LEMMA ConnectProgram ==
    \A k \in 1 .. Len(connect) : connect[k].do \in {"disable", "ask"}
<1> DEFINE T == [do : {"disable", "ask"}, cmd : Asked \cup {"none"}, skip : Nat \cup {End}]
<1>1. /\ \A c \in Asked : Get(c) \in Seq(T) /\ Try(c) \in Seq(T)
      /\ Do("disable") \in Seq(T)
  BY OneStep DEF Get, Try, Do, Step
<1>2. acc_board_flag \in Seq(T)
  BY <1>1, StepsTyped DEF acc_board_flag
<1>3. <<Step("ask", "info", Len(acc_board_flag))>> \in Seq(T)
  <2>1. Len(acc_board_flag) \in Nat
    BY <1>2, LenProperties
  <2> QED
    BY <2>1, StepsTyped, OneStep DEF Step
<1>4. checkMotorCtrlSupport \in Seq(T)
  BY <1>1, <1>2, <1>3, Joined DEF checkMotorCtrlSupport
<1>5. connect \in Seq(T)
  BY <1>1, <1>4, StepsTyped, Joined DEF connect
<1>6. \A k \in 1 .. Len(connect) : connect[k] \in T
  BY <1>5, ElementOfSeq
<1> QED
  BY <1>6

(* The steps of start() after which something else than an answer counts.  *)
LEMMA StartSteps ==
    ASSUME TypeOK, client.call = "start", client.step <= Len(Program[client.call])
    PROVE  /\ client.step \in 1 .. LastStep + 4
           /\ Current.do = "disable" \/ (Current.do = "send" /\ Current.cmd = "STOP") =>
                client.step \in {4 + Fields, 5 + Fields, 7 + 2 * Fields, 8 + 2 * Fields}
           /\ Current.do = "send" /\ Current.cmd = "SCAN" => client.step = LastStep + 4
           /\ Current.do = "reset" => client.step = LastStep + 2
           /\ Current.do = "enable" => client.step = LastStep + 3
           /\ Current.do = "ask" /\ Current.skip # End =>
                Current.skip = 0 /\ client.step \in {1, LastStep + 1}
           /\ Current.do = "ask" => client.step \in 1 .. LastStep + 1
                /\ client.step \notin {4 + Fields, 5 + Fields, 7 + 2 * Fields, 8 + 2 * Fields}
<1> DEFINE k == client.step
<1>1. k \in Nat \ {0} /\ Current = start[k] /\ k <= Len(start)
  BY DEF TypeOK, Current, Program, Calls
<1>2. /\ LastStep + 4 = Len(start) /\ LastStep + 1 = 10 + 3 * Fields
      /\ LastStep + 2 = 11 + 3 * Fields /\ LastStep + 3 = 12 + 3 * Fields
      /\ LastStep + 4 = 13 + 3 * Fields /\ LastStep \in Nat /\ Fields \in Nat
  BY StartProgram, PassedFacts DEF LastStep
<1>3. k \in 1 .. LastStep \/ k \in {LastStep + 1, LastStep + 2, LastStep + 3, LastStep + 4}
  BY <1>1, <1>2
<1>4. 0 # End
  BY DEF End
<1> HIDE DEF k
<1>5. CASE k \in 1 .. LastStep
  <2>1. CASE k = 1
    <3>1. start[k].do = "ask" /\ start[k].skip = 0
      BY <1>5, <2>1, StartProgram
    <3>2. k \notin {4 + Fields, 5 + Fields, 7 + 2 * Fields, 8 + 2 * Fields}
      BY <1>2, <2>1
    <3>3. k \in 1 .. LastStep + 4 /\ k \in 1 .. LastStep + 1
      BY <1>2, <1>5
    <3> QED
      BY <1>1, <2>1, <3>1, <3>2, <3>3 DEF k
  <2>2. CASE k \in {4 + Fields, 5 + Fields, 7 + 2 * Fields, 8 + 2 * Fields}
    <3>1. StopsAt(start, k)
      BY <1>5, <2>2, StartProgram
    <3> QED
      BY <1>1, <1>2, <1>5, <2>2, <3>1 DEF StopsAt, k
  <2>3. CASE k \notin {1, 4 + Fields, 5 + Fields, 7 + 2 * Fields, 8 + 2 * Fields}
    <3>1. InsistsAt(start, k)
      BY <1>5, <2>3, StartProgram
    <3> QED
      BY <1>1, <1>2, <1>5, <2>3, <3>1 DEF InsistsAt, k
  <2> QED
    BY <2>1, <2>2, <2>3
<1>6. CASE k = LastStep + 1
  <2>1. start[k].do = "ask" /\ start[k].skip = 0
    BY <1>2, <1>6, StartProgram
  <2>2. k \notin {4 + Fields, 5 + Fields, 7 + 2 * Fields, 8 + 2 * Fields}
    BY <1>2, <1>6
  <2> QED
    BY <1>1, <1>2, <1>6, <2>1, <2>2 DEF k
<1>7. CASE k = LastStep + 2
  <2>1. start[k].do = "reset"
    BY <1>2, <1>7, StartProgram
  <2> QED
    BY <1>1, <1>2, <1>7, <2>1 DEF k
<1>8. CASE k = LastStep + 3
  <2>1. start[k].do = "enable"
    BY <1>2, <1>8, StartProgram
  <2> QED
    BY <1>1, <1>2, <1>8, <2>1 DEF k
<1>9. CASE k = LastStep + 4
  <2>1. start[k].do = "send" /\ start[k].cmd = "SCAN"
    BY <1>2, <1>9, StartProgram
  <2> QED
    BY <1>1, <1>2, <1>9, <2>1 DEF k
<1> QED
  BY <1>3, <1>5, <1>6, <1>7, <1>8, <1>9

(* The buffers are reset, the samples enabled and the SCAN command sent by *)
(* start() only.                                                           *)
LEMMA OnlyStart ==
    ASSUME TypeOK
    PROVE  /\ Goes("reset") => client.call = "start"
           /\ Goes("enable") => client.call = "start"
           /\ Goes("send") /\ Current.cmd = "SCAN" => client.call = "start"
<1>1. client.call \in Calls /\ client.step \in Nat \ {0}
  BY DEF TypeOK
<1>2. CASE client.call = "connect"
  <2>1. Program[client.call] = connect
    BY <1>2 DEF Program
  <2>2. client.step <= Len(connect) => client.step \in 1 .. Len(connect)
    <3>1. Len(connect) \in Nat
      BY ConnectTyped, LenProperties
    <3> QED
      BY <1>1, <3>1
  <2> QED
    BY <2>1, <2>2, ConnectProgram DEF Goes, Current
<1>3. CASE client.call \in {"stop", "exit"}
  <2>1. Program[client.call] = stop
    BY <1>3 DEF Program
  <2>2. Len(stop) = 2 /\ StopsAt(stop, 1) /\ StopsAt(stop, 2)
    BY Pieces
  <2>3. client.step <= Len(stop) => client.step \in {1, 2}
    BY <1>1, <2>2
  <2> QED
    BY <2>1, <2>2, <2>3 DEF Goes, Current, StopsAt
<1> QED
  BY <1>1, <1>2, <1>3 DEF Calls

(***************************************************************************)
(* What each step of the client does to where start() is.                  *)
(***************************************************************************)

LEMMA AcceptedTyped == TypeOK => Accepted \in Nat
<1>1. TypeOK => client.step \in Nat \ {0}
  BY DEF TypeOK
<1>2. ASSUME client.step \in Nat \ {0}, client.step <= LastStep
      PROVE  Passed(client.step) \in Nat
  BY <1>2, PassedFacts
<1> QED
  BY <1>1, <1>2 DEF Accepted

(* One step further in start(), past anything but an answer.               *)
LEMMA Further ==
    ASSUME TypeOK, client' = Onward
    PROVE  /\ Starting' <=> client.call = "start"
           /\ client'.step = client.step + 1 /\ client'.pc = "run"
           /\ ~AtLast'
<1>1. client' = [client EXCEPT !.pc = "run", !.step = client.step + 1]
  BY DEF Onward
<1>2. client'.call = client.call /\ client'.pc = "run" /\ client'.step = client.step + 1
  BY <1>1 DEF TypeOK
<1> QED
  BY <1>2 DEF Starting, AtLast

LEMMA StopMoves ==
    ASSUME TypeOK, client' = Onward,
           Goes("disable") \/ (Goes("send") /\ Current.cmd = "STOP")
    PROVE  Accepted' <= Accepted /\ ~AtLast' /\ ~Drained' /\ ~Emptied' /\ ~Armed'
<1>1. client'.step = client.step + 1 /\ client'.pc = "run" /\ ~AtLast'
      /\ (Starting' <=> client.call = "start")
  BY Further
<1>2. client.pc = "run" /\ client.step <= Len(Program[client.call])
  BY DEF Goes
<1>3. CASE client.call = "start"
  <2>1. client.step \in {4 + Fields, 5 + Fields, 7 + 2 * Fields, 8 + 2 * Fields}
    BY <1>2, <1>3, StartSteps DEF Goes
  <2>2. client.step \in 1 .. LastStep - 1 /\ Passed(client.step + 1) = Passed(client.step)
        /\ Passed(client.step) \in Nat
    <3>1. client.step \in 1 .. LastStep - 1 /\ Passed(client.step + 1) = Passed(client.step)
      BY <2>1, PassedFacts
    <3>2. client.step \in 1 .. LastStep
      BY <3>1, PassedFacts
    <3> QED
      BY <3>1, <3>2, PassedFacts
  <2>3. Accepted' = Passed(client.step + 1) /\ Accepted = Passed(client.step)
    <3>1. client.step <= LastStep /\ client.step + 1 <= LastStep
      BY <2>2, PassedFacts
    <3>2. Starting /\ Starting'
      BY <1>1, <1>2, <1>3 DEF Starting
    <3> QED
      BY <1>1, <3>1, <3>2 DEF Accepted
  <2> QED
    BY <1>1, <2>2, <2>3, PassedFacts DEF Drained, Emptied, Armed
<1>4. CASE client.call # "start"
  BY <1>1, <1>4 DEF Accepted, Starting, Drained, Emptied, Armed
<1> QED
  BY <1>3, <1>4

LEMMA ScanMoves ==
    ASSUME TypeOK, client' = Onward, Goes("send"), Current.cmd = "SCAN"
    PROVE  /\ Armed /\ Drained /\ Emptied
           /\ Accepted' = 0 /\ ~AtLast' /\ ~Drained' /\ ~Emptied' /\ ~Armed'
<1>1. client'.step = client.step + 1 /\ client'.pc = "run" /\ ~AtLast'
  BY Further
<1>2. client.call = "start" /\ client.pc = "run" /\ client.step = LastStep + 4
  BY OnlyStart, StartSteps DEF Goes
<1> QED
  BY <1>1, <1>2, PassedFacts DEF Armed, Drained, Emptied, Accepted, Starting

LEMMA ResetMoves ==
    ASSUME TypeOK, client' = Onward, Goes("reset") \/ Goes("enable")
    PROVE  /\ Drained /\ Drained' /\ Emptied' /\ Accepted' = 0 /\ ~AtLast'
           /\ Goes("enable") => Emptied /\ Armed'
           /\ Goes("reset") => ~Armed'
<1>1. client'.step = client.step + 1 /\ client'.pc = "run" /\ ~AtLast'
      /\ (Starting' <=> client.call = "start")
  BY Further
<1>2. client.call = "start" /\ client.pc = "run"
      /\ (Goes("reset") => client.step = LastStep + 2)
      /\ (Goes("enable") => client.step = LastStep + 3)
  BY OnlyStart, StartSteps DEF Goes
<1> QED
  BY <1>1, <1>2, PassedFacts DEF Armed, Drained, Emptied, Accepted, Starting

LEMMA AskMoves ==
    ASSUME TypeOK, Goes("ask"), client' = [client EXCEPT !.pc = "wait"]
    PROVE  /\ Accepted' = Accepted /\ ~Armed' /\ ~Armed
           /\ Drained' <=> Drained
           /\ Emptied' <=> Emptied
<1>1. client'.step = client.step /\ client'.pc = "wait" /\ client'.call = client.call
  BY DEF TypeOK
<1>2. client.pc = "run" /\ (Starting <=> Starting')
  BY <1>1 DEF Goes, Starting
<1>3. ~Armed
  BY <1>2, StartSteps, PassedFacts DEF Goes, Armed, Starting
<1> QED
  BY <1>1, <1>2, <1>3 DEF Accepted, Drained, Emptied, Armed

LEMMA AnsweredInTime ==
    ASSUME timeouts \in Nat
    PROVE  ~(Answered /\ AnswerTimeout)
<1>1. Answered => timeouts' = timeouts
  BY DEF Answered
<1>2. AnswerTimeout => timeouts' = timeouts + 1
  BY DEF AnswerTimeout
<1> QED
  BY <1>1, <1>2

LEMMA AnsweredMoves ==
    ASSUME TypeOK, WaitsInCalls, Answered \/ AnswerTimeout
    PROVE  /\ Accepted' <= Accepted + 1
           /\ AnswerTimeout => Accepted' <= Accepted
           /\ ~AtLast' /\ ~Emptied' /\ ~Armed' /\ ~Armed
           /\ Drained' => Drained \/ (Answered /\ AtLast)
<1>1. client.pc = "wait" /\ client.step <= Len(Program[client.call]) /\ Current.do = "ask"
      /\ client.call \in {"connect", "start"} /\ client.step \in Nat \ {0}
  BY DEF Answered, AnswerTimeout, WaitsInCalls, TypeOK
<1>2. (client' = Onward /\ Answered) \/ client' = Failed
  BY DEF Answered, AnswerTimeout
<1>3. ~Armed
  BY <1>1 DEF Armed
<1>4. Accepted \in Nat
  BY AcceptedTyped
<1>5. CASE client.call = "connect"
  <2>1. client'.call # "start" \/ client'.pc \notin {"run", "wait"}
    <3>1. client' = Onward => client'.call = "connect"
      BY <1>5 DEF Onward, TypeOK
    <3>2. client' = Failed => client'.call = "connect"
      <4>1. Onward.call = "connect" /\ Onward \in ClientType
        BY <1>5, OnwardTyped DEF Onward, TypeOK
      <4> QED
        BY <1>1, <1>5, <4>1 DEF Failed, TypeOK, ClientType
    <3> QED
      BY <1>2, <3>1, <3>2
  <2> QED
    BY <1>3, <1>4, <2>1 DEF Accepted, Starting, AtLast, Emptied, Armed, Drained
<1>6. CASE client.call = "start"
  <2>1. /\ client.step \in 1 .. LastStep + 1
        /\ client.step \notin {4 + Fields, 5 + Fields, 7 + 2 * Fields, 8 + 2 * Fields}
        /\ Current.skip # End => Current.skip = 0 /\ client.step \in {1, LastStep + 1}
    BY <1>1, <1>6, StartSteps
  <2>2. \/ client' = Onward /\ (Answered \/ client.step \in {1, LastStep + 1})
        \/ client' \in {Running("exit"), Running("stop")}
    <3>1. CASE client' = Failed /\ Current.skip # End
      <4>1. Failed = [Onward EXCEPT !.step = Onward.step + 0]
        BY <2>1, <3>1 DEF Failed
      <4>2. Onward \in ClientType
        BY OnwardTyped
      <4>3. Failed = Onward
        BY <4>1, <4>2 DEF ClientType
      <4> QED
        BY <2>1, <3>1, <4>3
    <3>2. CASE client' = Failed /\ Current.skip = End
      BY <1>6, <3>2 DEF Failed
    <3> QED
      BY <1>2, <3>1, <3>2
  <2>3. CASE client' \in {Running("exit"), Running("stop")}
    <3>1. client'.call # "start"
      BY <2>3 DEF Running, TypeOK
    <3> QED
      BY <1>3, <1>4, <3>1 DEF Accepted, Starting, AtLast, Emptied, Armed, Drained
  <2>4. CASE client' = Onward /\ (Answered \/ client.step \in {1, LastStep + 1})
    <3>1. client'.step = client.step + 1 /\ client'.pc = "run" /\ ~AtLast' /\ Starting'
      BY <1>6, <2>4, Further
    <3>2. Starting
      BY <1>1, <1>6 DEF Starting
    <3>3. LastStep \in Nat /\ LastStep >= 9
      BY PassedFacts
    <3>4. CASE client.step \in 2 .. LastStep - 1
      <4>1. /\ client.step \in 1 .. LastStep /\ client.step + 1 \in 1 .. LastStep
            /\ client.step \notin {1, LastStep + 1}
        BY <3>3, <3>4
      <4>2. Passed(client.step + 1) <= Passed(client.step) + 1
        BY <3>4, PassedFacts
      <4>3. Accepted = Passed(client.step) /\ Accepted' = Passed(client.step + 1)
        BY <3>1, <3>2, <3>3, <4>1 DEF Accepted
      <4>4. ~Drained' /\ ~Emptied' /\ ~Armed'
        BY <3>1, <3>3, <4>1 DEF Drained, Emptied, Armed
      <4>5. timeouts \in Nat
        BY DEF TypeOK
      <4>6. Answered /\ ~AnswerTimeout
        BY <2>4, <4>1, <4>5, AnsweredInTime
      <4> QED
        BY <1>3, <3>1, <4>2, <4>3, <4>4, <4>6
    <3>5. CASE client.step = 1
      <4>1. Accepted' = 0
        BY <3>1, <3>3, <3>5, PassedFacts DEF Accepted
      <4>2. ~Drained' /\ ~Emptied' /\ ~Armed'
        BY <3>1, <3>3, <3>5 DEF Drained, Emptied, Armed
      <4> QED
        BY <1>3, <1>4, <3>1, <4>1, <4>2
    <3>6. CASE client.step = LastStep
      <4>1. Accepted' = 0 /\ ~Emptied' /\ ~Armed'
        BY <3>1, <3>3, <3>6 DEF Accepted, Emptied, Armed
      <4>2. AtLast /\ client.step \notin {1, LastStep + 1}
        BY <1>1, <3>2, <3>3, <3>6 DEF AtLast
      <4> QED
        BY <1>3, <1>4, <2>4, <3>1, <4>1, <4>2
    <3>7. CASE client.step = LastStep + 1
      <4>1. Accepted' = 0 /\ ~Emptied' /\ ~Armed'
        BY <3>1, <3>3, <3>7 DEF Accepted, Emptied, Armed
      <4>2. Drained
        BY <3>2, <3>3, <3>7 DEF Drained
      <4> QED
        BY <1>3, <1>4, <3>1, <4>1, <4>2
    <3> QED
      BY <2>1, <3>3, <3>4, <3>5, <3>6, <3>7
  <2> QED
    BY <2>2, <2>3, <2>4
<1> QED
  BY <1>1, <1>5, <1>6

LEMMA LoopGoes ==
    ASSUME TypeOK, Return \/ WorkLoop
    PROVE  /\ client'.pc # "wait"
           /\ client'.pc = "run" /\ client'.call = "start" => client'.step = 1
<1> USE DEF Running
<1>1. CASE Return
  BY <1>1 DEF Return, TypeOK
<1>2. CASE GrabReady \/ GrabTimeout
  BY <1>2 DEF GrabReady, GrabTimeout, TypeOK
<1>3. CASE waitAndLockAvailableScan \/ spin_some \/ disconnect
  BY <1>3 DEF waitAndLockAvailableScan, spin_some, disconnect, TypeOK
<1>4. CASE start_motor
  BY <1>4 DEF start_motor, TypeOK
<1>5. CASE stop_motor \/ need_exit
  BY <1>5 DEF stop_motor, need_exit, TypeOK
<1> QED
  BY <1>1, <1>2, <1>3, <1>4, <1>5 DEF WorkLoop

LEMMA LoopMoves ==
    ASSUME TypeOK, Return \/ WorkLoop
    PROVE  Accepted' = 0 /\ ~AtLast' /\ ~Drained' /\ ~Emptied' /\ ~Armed'
<1>1. client.call \in Calls /\ LastStep \in Nat /\ LastStep >= 9 /\ Passed(1) = 0
  BY PassedFacts DEF TypeOK
<1>2. \/ client'.pc \notin {"run", "wait"} \/ client'.call # "start"
      \/ client'.pc = "run" /\ client'.step = 1
  BY LoopGoes
<1> QED
  BY <1>1, <1>2 DEF Accepted, Starting, AtLast, Drained, Emptied, Armed

-----------------------------------------------------------------------------
(***************************************************************************)
(* The mark of a scan on the lines: the SCAN command until the lidar       *)
(* obeys it, then the header of the stream.  Whatever lies ahead of it     *)
(* was asked before the scan was started.                                  *)
(***************************************************************************)
Scan   == {"SCAN"}
Header == {[kind |-> "header"]}
Marked == Holds(tx, Scan) \/ Holds(rx, Header)
LateOnLine  == Count(tx, Asked) + Count(rx, AnswerMessage)
StaleOnLine == CountAhead(tx, Asked, Scan)
                 + IF Holds(tx, Scan) THEN Count(rx, AnswerMessage)
                                      ELSE CountAhead(rx, AnswerMessage, Header)
OneMark ==
    /\ Once(tx, Scan) /\ Once(rx, Header)
    /\ ~Holds(tx, Scan) \/ ~Holds(rx, Header)
    /\ device.session = IF Holds(tx, Scan) THEN session - 1 ELSE session

LEMMA Kinds ==
    /\ Commands = Asked \cup {"STOP", "SCAN"} /\ "STOP" \notin Asked /\ "SCAN" \notin Asked
    /\ \A m \in AnswerMessage : m.kind = "answer" /\ m \notin Header
    /\ \A m \in SampleType : m.kind = "sample" /\ m \notin Header /\ m \notin AnswerMessage
    /\ \A m \in Header : m.kind = "header" /\ m \notin AnswerMessage
    /\ Header \subseteq PacketType /\ AnswerMessage \subseteq PacketType
    /\ SampleType \subseteq PacketType
<1>1. \A i \in DOMAIN ModeFields : ModeFields[i] \notin {"STOP", "SCAN"}
  <2>1. DOMAIN ModeFields = 1 .. Len(ModeFields)
    BY FieldsAssumption, LenProperties
  <2> QED
    BY <2>1, FieldsAssumption, ElementOfSeq
<1>2. "STOP" \notin Asked /\ "SCAN" \notin Asked
  BY <1>1 DEF Asked, Confs
<1> QED
  BY <1>2 DEF Commands, Asked, AnswerMessage, SampleType, Header, PacketType

LEMMA LineTyped ==
    ASSUME TypeOK
    PROVE  /\ tx \in Seq(Commands) /\ rx \in Seq(PacketType)
           /\ Count(tx, Asked) \in Nat /\ Count(rx, AnswerMessage) \in Nat
           /\ CountAhead(tx, Asked, Scan) \in Nat /\ CountAhead(rx, AnswerMessage, Header) \in Nat
           /\ CountAhead(tx, Asked, Scan) <= Count(tx, Asked)
           /\ CountAhead(rx, AnswerMessage, Header) <= Count(rx, AnswerMessage)
           /\ ~Holds(tx, Scan) => CountAhead(tx, Asked, Scan) = 0
           /\ ~Holds(rx, Header) => CountAhead(rx, AnswerMessage, Header) = 0
           /\ LateOnLine \in Nat /\ StaleOnLine \in Nat
<1>1. tx \in Seq(Commands) /\ rx \in Seq(PacketType)
  BY DEF TypeOK, PacketType
<1>2. /\ Count(tx, Asked) \in Nat /\ CountAhead(tx, Asked, Scan) \in Nat
      /\ CountAhead(tx, Asked, Scan) <= Count(tx, Asked)
      /\ ~Holds(tx, Scan) => CountAhead(tx, Asked, Scan) = 0
  BY <1>1, Counted, Zenon
<1>3. /\ Count(rx, AnswerMessage) \in Nat /\ CountAhead(rx, AnswerMessage, Header) \in Nat
      /\ CountAhead(rx, AnswerMessage, Header) <= Count(rx, AnswerMessage)
      /\ ~Holds(rx, Header) => CountAhead(rx, AnswerMessage, Header) = 0
  BY <1>1, Counted, Zenon
<1> QED
  BY <1>1, <1>2, <1>3 DEF LateOnLine, StaleOnLine

(***************************************************************************)
(* What a step does to the lines, counted.                                 *)
(***************************************************************************)

LEMMA AppendRx ==
    ASSUME TypeOK, NEW m \in PacketType, NEW r, r = Append(rx, m)
    PROVE  /\ Count(r, AnswerMessage) = Count(rx, AnswerMessage)
                + (IF m \in AnswerMessage THEN 1 ELSE 0)
           /\ Holds(r, Header) <=> m \in Header \/ Holds(rx, Header)
           /\ m \notin Header =>
                /\ CountAhead(r, AnswerMessage, Header) = CountAhead(rx, AnswerMessage, Header)
                /\ Once(r, Header) <=> Once(rx, Header)
           /\ m \in Header /\ ~Holds(rx, Header) => Once(r, Header)
<1>1. rx \in Seq(PacketType)
  BY LineTyped
<1> QED
  BY <1>1, CountsAppend, ZenonT(30)

LEMMA TailRx ==
    ASSUME TypeOK, rx # <<>>, NEW r, r = Tail(rx)
    PROVE  /\ Head(rx) \in PacketType
           /\ Count(rx, AnswerMessage) = Count(r, AnswerMessage)
                + (IF Head(rx) \in AnswerMessage THEN 1 ELSE 0)
           /\ CountAhead(rx, AnswerMessage, Header) = CountAhead(r, AnswerMessage, Header)
                + (IF Head(rx) \in AnswerMessage /\ Holds(r, Header) THEN 1 ELSE 0)
           /\ Holds(rx, Header) <=> Head(rx) \in Header \/ Holds(r, Header)
           /\ Once(rx, Header) => /\ Once(r, Header)
                                  /\ Head(rx) \in Header => ~Holds(r, Header)
<1>1. rx \in Seq(PacketType)
  BY LineTyped
<1>2. Head(rx) \in PacketType
  BY <1>1, HeadTail
<1> QED
  BY <1>1, <1>2, CountsTail, ZenonT(30)

LEMMA AppendTx ==
    ASSUME TypeOK, NEW c \in Commands, NEW r, r = Append(tx, c)
    PROVE  /\ Count(r, Asked) = Count(tx, Asked) + (IF c \in Asked THEN 1 ELSE 0)
           /\ Holds(r, Scan) <=> c \in Scan \/ Holds(tx, Scan)
           /\ c \notin Scan => /\ CountAhead(r, Asked, Scan) = CountAhead(tx, Asked, Scan)
                               /\ Once(r, Scan) <=> Once(tx, Scan)
           /\ c \in Scan /\ ~Holds(tx, Scan) => Once(r, Scan)
           /\ c \in Scan /\ c \notin Asked => CountAhead(r, Asked, Scan) = Count(tx, Asked)
<1>1. tx \in Seq(Commands)
  BY LineTyped
<1> QED
  BY <1>1, CountsAppend, ZenonT(30)

LEMMA TailTx ==
    ASSUME TypeOK, tx # <<>>, NEW r, r = Tail(tx)
    PROVE  /\ Head(tx) \in Commands
           /\ Count(tx, Asked) = Count(r, Asked) + (IF Head(tx) \in Asked THEN 1 ELSE 0)
           /\ CountAhead(tx, Asked, Scan) = CountAhead(r, Asked, Scan)
                + (IF Head(tx) \in Asked /\ Holds(r, Scan) THEN 1 ELSE 0)
           /\ Holds(tx, Scan) <=> Head(tx) \in Scan \/ Holds(r, Scan)
           /\ Once(tx, Scan) => /\ Once(r, Scan)
                                /\ Head(tx) \in Scan => ~Holds(r, Scan)
<1>1. tx \in Seq(Commands)
  BY LineTyped
<1>2. Head(tx) \in Commands
  BY <1>1, HeadTail
<1> QED
  BY <1>1, <1>2, CountsTail, ZenonT(30)

LEMMA Primed ==
    /\ LateOnLine' = Count(tx', Asked) + Count(rx', AnswerMessage)
    /\ StaleOnLine' = CountAhead(tx', Asked, Scan)
           + (IF Holds(tx', Scan) THEN Count(rx', AnswerMessage)
                                  ELSE CountAhead(rx', AnswerMessage, Header))
    /\ Marked' <=> Holds(tx', Scan) \/ Holds(rx', Header)
    /\ OneMark' <=> /\ Once(tx', Scan) /\ Once(rx', Header)
                    /\ ~Holds(tx', Scan) \/ ~Holds(rx', Header)
                    /\ device'.session = IF Holds(tx', Scan) THEN session' - 1 ELSE session'
BY DEF LateOnLine, StaleOnLine, Marked, OneMark, Count, CountAhead, Holds, Once

(* The lidar obeys: an answer for a question, the header for the mark.     *)
LEMMA ObeyLine ==
    ASSUME TypeOK, OneMark, Obey
    PROVE  /\ LateOnLine' = LateOnLine /\ StaleOnLine' <= StaleOnLine
           /\ Marked' <=> Marked
           /\ OneMark'
<1>1. /\ tx # <<>> /\ tx' = Tail(tx) /\ session' = session
      /\ device.session \in Int /\ session \in Int
  BY DEF Obey, TypeOK
<1>2. /\ Head(tx) \in Commands
      /\ Count(tx, Asked) = Count(tx', Asked) + (IF Head(tx) \in Asked THEN 1 ELSE 0)
      /\ CountAhead(tx, Asked, Scan) = CountAhead(tx', Asked, Scan)
           + (IF Head(tx) \in Asked /\ Holds(tx', Scan) THEN 1 ELSE 0)
      /\ Holds(tx, Scan) <=> Head(tx) \in Scan \/ Holds(tx', Scan)
      /\ Once(tx', Scan) /\ (Head(tx) \in Scan => ~Holds(tx', Scan))
  BY <1>1, TailTx DEF OneMark
<1>3. tx' \in Seq(Commands)
  BY <1>1, LineTyped, HeadTail
<1>4. /\ Count(tx', Asked) \in Nat /\ CountAhead(tx', Asked, Scan) \in Nat
      /\ ~Holds(tx', Scan) => CountAhead(tx', Asked, Scan) = 0
  BY <1>3, Counted, Zenon
<1>5. CASE Head(tx) = "STOP"
  <2>1. rx' = rx /\ device'.session = device.session /\ Head(tx) \notin Scan /\ Head(tx) \notin Asked
    BY <1>5, Kinds DEF Obey, Scan, TypeOK
  <2>2. /\ Count(tx', Asked) = Count(tx, Asked) /\ CountAhead(tx', Asked, Scan) = CountAhead(tx, Asked, Scan)
        /\ Holds(tx', Scan) <=> Holds(tx, Scan)
    BY <1>2, <1>4, <2>1
  <2>3. OneMark'
    BY <1>1, <1>2, <2>1, <2>2, Primed DEF OneMark
  <2> QED
    BY <2>1, <2>2, <2>3, Primed, LineTyped DEF Marked, LateOnLine, StaleOnLine
<1>6. CASE Head(tx) = "SCAN"
  <2>1. /\ rx' = Append(rx, [kind |-> "header"]) /\ device'.session = device.session + 1
        /\ Head(tx) \in Scan /\ Head(tx) \notin Asked
    BY <1>6, Kinds, SMTT(30) DEF Obey, Scan, TypeOK
  <2>2. /\ Count(rx', AnswerMessage) = Count(rx, AnswerMessage)
        /\ Holds(rx', Header) /\ Once(rx', Header)
        /\ CountAhead(rx', AnswerMessage, Header) <= Count(rx', AnswerMessage)
    <3>1. [kind |-> "header"] \in Header /\ [kind |-> "header"] \in PacketType
          /\ [kind |-> "header"] \notin AnswerMessage
      BY Kinds DEF Header
    <3>2. ~Holds(rx, Header)
      BY <1>2, <2>1 DEF OneMark
    <3>3. rx' \in Seq(PacketType)
      BY <2>1, <3>1, LineTyped, Appended
    <3>4. CountAhead(rx', AnswerMessage, Header) <= Count(rx', AnswerMessage)
      BY <3>3, Counted, Zenon
    <3>5. /\ Count(rx', AnswerMessage) = Count(rx, AnswerMessage) + 0
          /\ Holds(rx', Header) /\ Once(rx', Header)
      BY <2>1, <3>1, <3>2, AppendRx, ZenonT(30)
    <3> QED
      BY <3>4, <3>5, LineTyped
  <2>3. Holds(tx, Scan) /\ ~Holds(tx', Scan) /\ ~Holds(rx, Header)
    BY <1>2, <2>1 DEF OneMark
  <2>4. OneMark'
    BY <1>1, <1>2, <2>1, <2>2, <2>3, Primed DEF OneMark
  <2>5. LateOnLine' = LateOnLine
    BY <1>2, <1>4, <2>1, <2>2, Primed, LineTyped DEF LateOnLine
  <2>6. StaleOnLine' <= StaleOnLine
    <3>1. StaleOnLine = CountAhead(tx, Asked, Scan) + Count(rx, AnswerMessage)
      BY <2>3 DEF StaleOnLine
    <3>2. StaleOnLine' = 0 + CountAhead(rx', AnswerMessage, Header)
      BY <1>4, <2>3, Primed
    <3>3. /\ CountAhead(tx, Asked, Scan) \in Nat /\ Count(rx, AnswerMessage) \in Nat
          /\ CountAhead(rx', AnswerMessage, Header) \in Nat
      <4>1. rx' \in Seq(PacketType)
        BY <2>1, LineTyped, Appended, Kinds DEF Header
      <4> QED
        BY <4>1, LineTyped, Counted
    <3> QED
      BY <2>2, <3>1, <3>2, <3>3
  <2> QED
    BY <2>2, <2>3, <2>4, <2>5, <2>6, Primed DEF Marked
<1>7. CASE Head(tx) \in Asked
  <2> DEFINE m == [kind |-> "answer", cmd |-> Head(tx)]
  <2>1. rx' = Append(rx, m) /\ device' = device /\ Head(tx) \notin Scan
    BY <1>7, Kinds DEF Obey, Scan
  <2>2. m \in AnswerMessage /\ m \in PacketType /\ m \notin Header
    BY <1>2, Kinds DEF AnswerMessage
  <2> HIDE DEF m
  <2>3. /\ Count(rx', AnswerMessage) = Count(rx, AnswerMessage) + 1
        /\ Holds(rx', Header) <=> Holds(rx, Header)
        /\ CountAhead(rx', AnswerMessage, Header) = CountAhead(rx, AnswerMessage, Header)
        /\ Once(rx', Header) <=> Once(rx, Header)
    BY <2>1, <2>2, AppendRx
  <2> QED
    BY <1>1, <1>2, <1>4, <1>7, <2>1, <2>3, Primed, LineTyped, SMTT(30)
       DEF OneMark, Marked, LateOnLine, StaleOnLine
<1> QED
  BY <1>2, <1>5, <1>6, <1>7, Kinds

LEMMA StreamLine ==
    ASSUME TypeOK, OneMark, Stream
    PROVE  /\ LateOnLine' = LateOnLine /\ StaleOnLine' = StaleOnLine
           /\ Marked' <=> Marked
           /\ OneMark'
<1> DEFINE m == Sample(device.session, device.rev, device.sector)
<1>1. /\ rx' = Append(rx, m) /\ tx' = tx /\ device'.session = device.session /\ session' = session
  BY DEF Stream, TypeOK
<1>2. m \in SampleType
  BY DEF Sample, SampleType, TypeOK
<1>3. m \in PacketType /\ m \notin AnswerMessage /\ m \notin Header
  BY <1>2, Kinds
<1> HIDE DEF m
<1>4. /\ Count(rx', AnswerMessage) = Count(rx, AnswerMessage)
      /\ Holds(rx', Header) <=> Holds(rx, Header)
      /\ CountAhead(rx', AnswerMessage, Header) = CountAhead(rx, AnswerMessage, Header)
      /\ Once(rx', Header) <=> Once(rx, Header)
  <2>1. /\ Count(rx', AnswerMessage) = Count(rx, AnswerMessage) + 0
        /\ Holds(rx', Header) <=> Holds(rx, Header)
        /\ CountAhead(rx', AnswerMessage, Header) = CountAhead(rx, AnswerMessage, Header)
        /\ Once(rx', Header) <=> Once(rx, Header)
    BY <1>1, <1>3, AppendRx, ZenonT(30)
  <2> QED
    BY <2>1, LineTyped
<1> QED
  BY <1>1, <1>4, Primed DEF OneMark, Marked, LateOnLine, StaleOnLine

(* A packet leaves the line.                                               *)
LEMMA TakenLine ==
    ASSUME TypeOK, OneMark, rx # <<>>, rx' = Tail(rx), UNCHANGED <<device, tx, session>>
    PROVE  /\ LateOnLine = LateOnLine' + (IF Head(rx).kind = "answer" THEN 1 ELSE 0)
           /\ Marked' => /\ Marked
                         /\ StaleOnLine = StaleOnLine' + (IF Head(rx).kind = "answer" THEN 1 ELSE 0)
           /\ Head(rx).kind = "header" => Marked /\ ~Marked'
           /\ Head(rx).kind # "header" => (Marked' <=> Marked)
           /\ OneMark'
<1>1. /\ Head(rx) \in PacketType
      /\ Count(rx, AnswerMessage) = Count(rx', AnswerMessage)
           + (IF Head(rx) \in AnswerMessage THEN 1 ELSE 0)
      /\ CountAhead(rx, AnswerMessage, Header) = CountAhead(rx', AnswerMessage, Header)
           + (IF Head(rx) \in AnswerMessage /\ Holds(rx', Header) THEN 1 ELSE 0)
      /\ Holds(rx, Header) <=> Head(rx) \in Header \/ Holds(rx', Header)
      /\ Once(rx', Header) /\ (Head(rx) \in Header => ~Holds(rx', Header))
  BY TailRx DEF OneMark
<1>2. /\ Head(rx).kind = "answer" <=> Head(rx) \in AnswerMessage
      /\ Head(rx).kind = "header" <=> Head(rx) \in Header
  <2>1. Head(rx) \in SampleType \/ Head(rx) \in AnswerMessage \/ Head(rx) \in Header
    BY <1>1 DEF PacketType, Header
  <2> QED
    BY <2>1, Kinds
<1>3. rx' \in Seq(PacketType)
  BY LineTyped, HeadTail
<1>4. Count(rx', AnswerMessage) \in Nat /\ CountAhead(rx', AnswerMessage, Header) \in Nat
  BY <1>3, Counted, Zenon
<1> QED
  BY <1>1, <1>2, <1>4, Primed, LineTyped DEF OneMark, Marked, LateOnLine, StaleOnLine

(* A command goes on the line to the lidar.                                *)
LEMMA SentLine ==
    ASSUME TypeOK, OneMark, NEW c \in Commands, tx' = Append(tx, c), UNCHANGED <<device, rx>>,
           session' = IF c = "SCAN" THEN session + 1 ELSE session
    PROVE  /\ LateOnLine' = LateOnLine + (IF c \in Asked THEN 1 ELSE 0)
           /\ c # "SCAN" => /\ StaleOnLine' = StaleOnLine /\ (Marked' <=> Marked)
                            /\ OneMark'
           /\ c = "SCAN" /\ ~Marked => Marked' /\ StaleOnLine' <= LateOnLine' /\ OneMark'
<1>1. /\ Count(tx', Asked) = Count(tx, Asked) + (IF c \in Asked THEN 1 ELSE 0)
      /\ Holds(tx', Scan) <=> c \in Scan \/ Holds(tx, Scan)
      /\ c \notin Scan => /\ CountAhead(tx', Asked, Scan) = CountAhead(tx, Asked, Scan)
                          /\ Once(tx', Scan) <=> Once(tx, Scan)
      /\ c \in Scan /\ ~Holds(tx, Scan) => Once(tx', Scan)
      /\ c \in Scan /\ c \notin Asked => CountAhead(tx', Asked, Scan) = Count(tx, Asked)
  BY AppendTx
<1>2. (c \in Scan <=> c = "SCAN") /\ (c = "SCAN" => c \notin Asked)
  BY Kinds DEF Scan
<1>3. session \in Int /\ device.session \in Int
  BY DEF TypeOK
<1> QED
  BY <1>1, <1>2, <1>3, Primed, LineTyped DEF OneMark, Marked, LateOnLine, StaleOnLine

LEMMA SameLine ==
    ASSUME UNCHANGED <<device, tx, rx, session>>
    PROVE  /\ LateOnLine' = LateOnLine /\ StaleOnLine' = StaleOnLine
           /\ Marked' <=> Marked
           /\ OneMark' <=> OneMark
BY DEF LateOnLine, StaleOnLine, Marked, OneMark, Count, CountAhead, Holds, Once

(* The line to the host is closed.                                         *)
LEMMA ClosedLine ==
    ASSUME TypeOK, OneMark, rx' = <<>>, UNCHANGED <<device, tx, session>>
    PROVE  /\ LateOnLine' <= LateOnLine /\ StaleOnLine' <= StaleOnLine
           /\ Marked' => Marked
           /\ OneMark'
<1>1. /\ Count(rx', AnswerMessage) = 0 /\ CountAhead(rx', AnswerMessage, Header) = 0
      /\ ~Holds(rx', Header) /\ Once(rx', Header)
  BY CountsEmpty
<1> QED
  BY <1>1, Primed, LineTyped DEF OneMark, Marked, LateOnLine, StaleOnLine

-----------------------------------------------------------------------------
(***************************************************************************)
(* No answer that came too late is taken for the answer to a later         *)
(* question in such a way that start() reaches the SCAN command with the   *)
(* stream of an earlier scan on the line: it insists on more answers than  *)
(* can be late.                                                            *)
(***************************************************************************)
FewTimeouts == ~Spurious /\ MaxTimeouts \in Nat /\ MaxTimeouts < Insisted

AtHand == (IF decoder.msg.kind = "answer" THEN 1 ELSE 0) + (IF waiter.set THEN 1 ELSE 0)

FewLate ==
    timeouts <= MaxTimeouts /\ LateOnLine + AtHand <= timeouts + (IF client.pc = "wait" THEN 1 ELSE 0)
MarkUnseen ==
    Marked => codec = "sync" /\ decoder.msg.kind # "sample" /\ holder = EmptyHolder
StaleAnswers == Marked => Accepted + StaleOnLine + AtHand <= MaxTimeouts
LastAnswer ==
    AtLast => /\ codec = "loop" => ~waiter.set /\ decoder.msg.kind # "answer"
              /\ waiter.set => decoder.msg.kind # "sample"
Quiet ==
    /\ Drained => ~Marked /\ codec = "sync" /\ decoder.msg.kind # "sample"
    /\ Emptied => holder = EmptyHolder
Switches ==
    /\ decoder.pc = "idle" => decoder.msg = None
    /\ unpacker.selected => unpacker.enabled
    /\ unpacker.enabled => codec = "loop" \/ Marked \/ Armed

MarkInv == OneMark /\ FewLate /\ MarkUnseen /\ StaleAnswers /\ LastAnswer /\ Quiet /\ Switches

LEMMA Numbers ==
    TypeOK => /\ LateOnLine \in Nat /\ StaleOnLine \in Nat /\ Accepted \in Nat
              /\ AtHand \in Nat /\ timeouts \in Nat
<1>1. TypeOK => timeouts \in Nat
  BY DEF TypeOK
<1>2. AtHand \in Nat
  BY DEF AtHand
<1> QED
  BY <1>1, <1>2, LineTyped, AcceptedTyped

LEMMA NumbersPrimed ==
    TypeOK' => /\ LateOnLine' \in Nat /\ StaleOnLine' \in Nat /\ Accepted' \in Nat
               /\ AtHand' \in Nat /\ timeouts' \in Nat
<1>1. (TypeOK => /\ LateOnLine \in Nat /\ StaleOnLine \in Nat /\ Accepted \in Nat
                 /\ AtHand \in Nat /\ timeouts \in Nat)'
  BY Numbers, PTL
<1> QED
  BY <1>1

LEMMA SameClient ==
    ASSUME client' = client
    PROVE  /\ Accepted' = Accepted
           /\ AtLast' = AtLast /\ Drained' = Drained /\ Emptied' = Emptied /\ Armed' = Armed
BY DEF Accepted, AtLast, Drained, Emptied, Armed, Starting

LEMMA MarkInit == Init /\ FewTimeouts => MarkInv
<1> SUFFICES ASSUME Init, FewTimeouts PROVE MarkInv
  OBVIOUS
<1>1. /\ Count(tx, Asked) = 0 /\ CountAhead(tx, Asked, Scan) = 0
      /\ ~Holds(tx, Scan) /\ Once(tx, Scan)
      /\ Count(rx, AnswerMessage) = 0 /\ CountAhead(rx, AnswerMessage, Header) = 0
      /\ ~Holds(rx, Header) /\ Once(rx, Header)
  BY CountsEmpty DEF Init
<1>2. ~Marked /\ LateOnLine = 0 /\ OneMark
  BY <1>1 DEF Marked, LateOnLine, OneMark, Init
<1>3. AtHand = 0 /\ decoder.msg = None /\ decoder.msg.kind = "none"
  BY DEF AtHand, Init, None
<1>4. ~Starting
  BY DEF Init, Starting
<1> QED
  BY <1>2, <1>3, <1>4
     DEF MarkInv, FewLate, MarkUnseen, StaleAnswers, LastAnswer, Quiet, Switches, Drained,
         Emptied, AtLast, FewTimeouts, Init

LEMMA MarkOnLine ==
    ASSUME Inv, MarkInv, Inv', FewTimeouts, Obey \/ Stream \/ Lose
    PROVE  MarkInv'
<1>1. UNCHANGED <<decoder, waiter, codec, unpacker, holder, client, timeouts>>
  BY DEF Obey, Stream, Lose, decoderVars, answerVars
<1>2. TypeOK /\ TypeOK' /\ OneMark
  BY DEF Inv, MarkInv
<1>3. /\ LateOnLine' = LateOnLine /\ (Marked' => StaleOnLine' <= StaleOnLine)
      /\ (Marked' <=> Marked) /\ OneMark'
  <2>1. CASE Obey
    BY <1>2, <2>1, ObeyLine
  <2>2. CASE Stream
    BY <1>2, <2>2, StreamLine, Numbers
  <2>3. CASE Lose
    <3>1. /\ rx # <<>> /\ rx' = Tail(rx) /\ UNCHANGED <<device, tx, session>>
          /\ Head(rx).kind = "sample"
      BY <2>3 DEF Lose
    <3>2. /\ LateOnLine = LateOnLine' + 0 /\ (Marked' <=> Marked) /\ OneMark'
          /\ Marked' => StaleOnLine = StaleOnLine' + 0
      BY <1>2, <3>1, TakenLine
    <3> QED
      BY <1>2, <3>2, NumbersPrimed
  <2> QED
    BY <2>1, <2>2, <2>3
<1>4. AtHand' = AtHand
  BY <1>1 DEF AtHand
<1>5. /\ Accepted' = Accepted
      /\ AtLast' = AtLast /\ Drained' = Drained /\ Emptied' = Emptied /\ Armed' = Armed
  BY <1>1, SameClient
<1>6. FewLate'
  BY <1>1, <1>3, <1>4 DEF MarkInv, FewLate
<1>7. StaleAnswers'
  BY <1>2, <1>3, <1>4, <1>5, Numbers, NumbersPrimed DEF MarkInv, StaleAnswers, FewTimeouts
<1>8. MarkUnseen' /\ LastAnswer' /\ Quiet' /\ Switches'
  BY <1>1, <1>3, <1>5 DEF MarkInv, MarkUnseen, LastAnswer, Quiet, Switches
<1> QED
  BY <1>3, <1>6, <1>7, <1>8 DEF MarkInv

(* While the last answer is awaited and the mark is on the line, no answer *)
(* is late.                                                                *)
LEMMA NoneLate ==
    ASSUME TypeOK, MarkInv, FewTimeouts, AtLast, Marked
    PROVE  ~waiter.set /\ decoder.msg.kind # "answer"
<1>1. Accepted + 1 = Insisted
  BY PassedFacts DEF AtLast, Accepted
<1>2. Accepted + StaleOnLine + AtHand <= MaxTimeouts
  BY DEF MarkInv, StaleAnswers
<1>3. AtHand = 0
  BY <1>1, <1>2, Numbers DEF FewTimeouts
<1> QED
  BY <1>3 DEF AtHand

LEMMA MarkInDecoder ==
    ASSUME Inv, MarkInv, Inv', FewTimeouts, Decoder
    PROVE  MarkInv'
<1>1. UNCHANGED <<device, tx, session, client, timeouts>>
  BY DEF Decoder, onDecodeData, onSampleData, onData, onHQNodeDecoded, Compare, StoreAnswer,
         Unpack, lineVars, answerVars
<1>2. TypeOK /\ TypeOK' /\ OneMark /\ Handled
  BY DEF Inv, MarkInv
<1>3. /\ Accepted' = Accepted
      /\ AtLast' = AtLast /\ Drained' = Drained /\ Emptied' = Emptied /\ Armed' = Armed
  BY <1>1, SameClient
<1>4. None.kind = "none" /\ \A m \in SampleType : m.kind = "sample"
  BY DEF None, SampleType
<1>5. CASE onDecodeData
  <2>1. /\ rx # <<>> /\ rx' = Tail(rx) /\ UNCHANGED <<waiter, holder, unpacker>>
        /\ decoder.pc = "idle" /\ decoder.msg = None
    BY <1>5 DEF onDecodeData, answerVars, MarkInv, Switches
  <2>2. /\ LateOnLine = LateOnLine' + (IF Head(rx).kind = "answer" THEN 1 ELSE 0)
        /\ Marked' => /\ Marked
                      /\ StaleOnLine = StaleOnLine' + (IF Head(rx).kind = "answer" THEN 1 ELSE 0)
        /\ Head(rx).kind = "header" => Marked /\ ~Marked'
        /\ Head(rx).kind # "header" => (Marked' <=> Marked)
        /\ OneMark'
    BY <1>1, <1>2, <2>1, TakenLine
  <2>3. \/ /\ codec = "loop" /\ Head(rx).kind = "sample" /\ codec' = "loop"
           /\ decoder' = [pc |-> "decoded", msg |-> Head(rx)]
        \/ /\ codec = "sync" /\ Head(rx).kind = "answer" /\ codec' = "sync"
           /\ decoder' = [pc |-> "decoded", msg |-> Head(rx)]
        \/ /\ codec = "sync" /\ Head(rx).kind = "header" /\ codec' = "loop" /\ decoder' = decoder
        \/ /\ Head(rx).kind # "header" \/ codec # "sync"
           /\ codec' = codec /\ decoder' = decoder
    BY <1>5 DEF onDecodeData
  <2>4. AtHand' <= AtHand + (IF Head(rx).kind = "answer" THEN 1 ELSE 0)
    BY <1>4, <2>1, <2>3 DEF AtHand
  <2>5. FewLate'
    BY <1>1, <1>2, <2>2, <2>4, Numbers, NumbersPrimed DEF MarkInv, FewLate, FewTimeouts
  <2>6. StaleAnswers'
    BY <1>2, <1>3, <2>2, <2>4, Numbers, NumbersPrimed DEF MarkInv, StaleAnswers, FewTimeouts
  <2>7. MarkUnseen'
    BY <1>4, <2>1, <2>2, <2>3 DEF MarkInv, MarkUnseen
  <2>8. LastAnswer'
    <3>1. CASE Head(rx).kind = "header"
      <4>1. AtLast => ~waiter.set
        BY <1>2, <2>2, <3>1, NoneLate
      <4>2. decoder' = decoder
        BY <2>3, <3>1
      <4> QED
        BY <1>3, <1>4, <2>1, <4>1, <4>2 DEF LastAnswer
    <3>2. CASE Head(rx).kind # "header"
      BY <1>3, <1>4, <2>1, <2>3, <3>2 DEF MarkInv, LastAnswer
    <3> QED
      BY <3>1, <3>2
  <2>9. Quiet'
    BY <1>3, <1>4, <2>1, <2>2, <2>3 DEF MarkInv, Quiet
  <2>10. Switches'
    <3>1. codec \in {"sync", "loop"}
      BY <1>2 DEF TypeOK
    <3>2. decoder'.pc = "idle" => decoder'.msg = None
      BY <2>1, <2>3
    <3>3. unpacker.enabled => codec' = "loop" \/ Marked' \/ Armed
      BY <2>2, <2>3, <3>1 DEF MarkInv, Switches
    <3> QED
      BY <1>3, <2>1, <3>2, <3>3 DEF MarkInv, Switches
  <2> QED
    BY <2>2, <2>5, <2>6, <2>7, <2>8, <2>9, <2>10 DEF MarkInv
<1>6. CASE ~onDecodeData
  <2>1. UNCHANGED <<rx, codec>>
    BY <1>6 DEF Decoder, onSampleData, onData, onHQNodeDecoded, Compare, StoreAnswer, Unpack, lineVars
  <2>2. /\ LateOnLine' = LateOnLine /\ StaleOnLine' = StaleOnLine
        /\ (Marked' <=> Marked) /\ OneMark'
    BY <1>1, <1>2, <2>1, SameLine
  <2>3. /\ AtHand' <= AtHand
        /\ decoder'.msg = decoder.msg \/ (decoder'.pc = "idle" /\ decoder'.msg = None)
        /\ decoder'.pc = "idle" => decoder'.msg = None
        /\ holder' # holder => decoder.msg.kind = "sample"
        /\ waiter' # waiter => decoder.msg.kind = "answer" /\ decoder'.msg = None
        /\ unpacker'.enabled = unpacker.enabled
        /\ unpacker'.selected => unpacker'.enabled
    <3>1. CASE onSampleData
      BY <1>2, <3>1 DEF onSampleData, answerVars, Handled, TypeOK, AtHand, MarkInv, Switches
    <3>2. CASE onData
      BY <1>2, <3>2 DEF onData, answerVars, TypeOK, AtHand, MarkInv, Switches
    <3>3. CASE onHQNodeDecoded
      BY <1>2, <1>4, <3>3 DEF onHQNodeDecoded, answerVars, Handled, AtHand, MarkInv, Switches
    <3>4. CASE Compare
      <4>1. \/ decoder'.msg = decoder.msg /\ decoder'.pc = "answer"
            \/ decoder'.msg = None /\ decoder'.pc = "idle"
        BY <1>2, <3>4 DEF Compare, TypeOK
      <4>2. UNCHANGED <<unpacker, waiter, holder>>
        BY <3>4 DEF Compare, answerVars
      <4> QED
        BY <1>4, <4>1, <4>2 DEF AtHand, MarkInv, Switches
    <3>5. CASE StoreAnswer
      <4>1. decoder.msg.kind = "answer" /\ waiter' = [set |-> TRUE, ans |-> decoder.msg]
            /\ decoder' = [pc |-> "idle", msg |-> None] /\ UNCHANGED <<holder, unpacker>>
        BY <1>2, <3>5 DEF StoreAnswer, Handled, AnswerMessage
      <4> QED
        BY <1>4, <4>1 DEF AtHand, MarkInv, Switches
    <3> QED
      BY <1>6, <3>1, <3>2, <3>3, <3>4, <3>5 DEF Decoder
  <2>4. FewLate' /\ StaleAnswers'
    BY <1>1, <1>2, <1>3, <2>2, <2>3, Numbers, NumbersPrimed
       DEF MarkInv, FewLate, StaleAnswers, FewTimeouts
  <2>5. MarkUnseen'
    BY <1>4, <2>1, <2>2, <2>3 DEF MarkInv, MarkUnseen
  <2>6. LastAnswer'
    BY <1>3, <1>4, <2>1, <2>3 DEF MarkInv, LastAnswer
  <2>7. Quiet'
    <3>1. Emptied => Drained
      BY PassedFacts DEF Emptied, Drained
    <3> QED
      BY <1>3, <1>4, <2>1, <2>2, <2>3, <3>1 DEF MarkInv, Quiet
  <2>8. Switches'
    BY <1>3, <2>1, <2>2, <2>3 DEF MarkInv, Switches
  <2> QED
    BY <2>2, <2>4, <2>5, <2>6, <2>7, <2>8 DEF MarkInv
<1> QED
  BY <1>5, <1>6

(* A step of the client that neither starts a scan nor accepts an answer.  *)
LEMMA MarkKept ==
    ASSUME Inv, MarkInv, Inv', FewTimeouts, decoder' = decoder, OneMark',
           LateOnLine' + AtHand' <= LateOnLine + AtHand,
           LateOnLine' + AtHand' <= timeouts' + (IF client'.pc = "wait" THEN 1 ELSE 0),
           timeouts' <= MaxTimeouts,
           Marked' => /\ Marked /\ Accepted' <= Accepted
                      /\ StaleOnLine' + AtHand' <= StaleOnLine + AtHand,
           ~AtLast', Drained' => Drained, Emptied' => Emptied,
           codec' = codec \/ codec' = "sync",
           holder' = holder \/ (holder.ready /\ ~Emptied'),
           unpacker'.selected => unpacker'.enabled,
           unpacker'.enabled => codec' = "loop" \/ Marked' \/ Armed'
    PROVE  MarkInv'
<1>1. TypeOK /\ TypeOK'
  BY DEF Inv
<1>2. FewLate'
  BY DEF FewLate
<1>3. StaleAnswers'
  BY <1>1, Numbers, NumbersPrimed DEF MarkInv, StaleAnswers, FewTimeouts
<1>4. ~EmptyHolder.ready
  BY DEF EmptyHolder
<1>5. MarkUnseen'
  BY <1>4 DEF MarkInv, MarkUnseen
<1>6. LastAnswer'
  BY DEF LastAnswer
<1>7. Quiet'
  BY <1>4 DEF MarkInv, Quiet
<1>8. Switches'
  BY DEF MarkInv, Switches
<1> QED
  BY <1>2, <1>3, <1>5, <1>6, <1>7, <1>8 DEF MarkInv

LEMMA ArmedIsInside == TypeOK /\ Armed => client.step <= Len(Program[client.call])
<1>1. Len(start) = LastStep + 4
  BY StartProgram, PassedFacts DEF LastStep
<1> QED
  BY <1>1 DEF Armed, Starting, Program

LEMMA EmptiedIsDrained == Emptied => Drained
BY PassedFacts DEF Emptied, Drained

(* What every step of the client leaves alone.                             *)
LEMMA ClientFrame ==
    ASSUME Client
    PROVE  decoder' = decoder /\ device' = device
BY DEF Client, Call, WorkLoop, Disable, sendCommandWithoutResponse, sendCommandWithResponse,
       Answered, AnswerTimeout, reset, enable, Return, GrabReady, GrabTimeout,
       waitAndLockAvailableScan, spin_some, start_motor, stop_motor, need_exit, disconnect,
       Idle, lineVars, decoderVars

LEMMA MarkInStops ==
    ASSUME Inv, MarkInv, Inv', FewTimeouts,
           \/ Disable
           \/ sendCommandWithoutResponse /\ Current.cmd = "STOP"
    PROVE  MarkInv'
<1>1. TypeOK /\ TypeOK' /\ OneMark
  BY DEF Inv, MarkInv
<1>2. /\ Goes("disable") \/ (Goes("send") /\ Current.cmd = "STOP")
      /\ client' = Onward /\ client.pc = "run" /\ client'.pc = "run"
      /\ UNCHANGED <<holder, timeouts, device, rx, session, decoder>>
      /\ codec' = "sync" /\ unpacker' = [enabled |-> FALSE, selected |-> FALSE]
      /\ waiter'.set => waiter.set
      /\ tx' = tx \/ tx' = Append(tx, "STOP")
  BY <1>1, OnwardTyped DEF Disable, sendCommandWithoutResponse, disableDataGrabbing, lineVars,
          answerVars, Goes, TypeOK
<1>3. Accepted' <= Accepted /\ ~AtLast' /\ ~Drained' /\ ~Emptied' /\ ~Armed'
  BY <1>1, <1>2, StopMoves
<1>4. /\ LateOnLine' = LateOnLine /\ StaleOnLine' = StaleOnLine
      /\ (Marked' <=> Marked) /\ OneMark'
  <2>1. CASE tx' = tx
    BY <1>1, <1>2, <2>1, SameLine
  <2>2. CASE tx' = Append(tx, "STOP")
    <3>1. "STOP" \in Commands /\ "STOP" \notin Asked
      BY Kinds
    <3>2. LateOnLine' = LateOnLine + 0 /\ StaleOnLine' = StaleOnLine
          /\ (Marked' <=> Marked) /\ OneMark'
      BY <1>1, <1>2, <2>2, <3>1, SentLine
    <3> QED
      BY <1>1, <3>2, Numbers
  <2> QED
    BY <1>2, <2>1, <2>2
<1>5. AtHand' <= AtHand
  BY <1>2 DEF AtHand
<1>6. /\ LateOnLine' + AtHand' <= LateOnLine + AtHand
      /\ LateOnLine' + AtHand' <= timeouts' + (IF client'.pc = "wait" THEN 1 ELSE 0)
      /\ timeouts' <= MaxTimeouts
      /\ StaleOnLine' + AtHand' <= StaleOnLine + AtHand
  BY <1>1, <1>2, <1>4, <1>5, Numbers, NumbersPrimed DEF MarkInv, FewLate, FewTimeouts
<1> QED
  BY <1>2, <1>3, <1>4, <1>6, MarkKept

LEMMA MarkInScan ==
    ASSUME Inv, MarkInv, Inv', FewTimeouts,
           sendCommandWithoutResponse, Current.cmd = "SCAN"
    PROVE  MarkInv'
<1>1. TypeOK /\ TypeOK' /\ OneMark /\ "SCAN" \in Commands /\ "SCAN" \notin Asked
  BY Kinds DEF Inv, MarkInv
<1>2. /\ Goes("send") /\ client' = Onward /\ client.pc = "run" /\ client'.pc = "run"
      /\ UNCHANGED <<holder, timeouts, device, rx, decoder, unpacker, codec>>
      /\ waiter'.set => waiter.set
      /\ tx' = Append(tx, "SCAN") /\ session' = session + 1
  BY <1>1, OnwardTyped DEF sendCommandWithoutResponse, Goes, TypeOK
<1>3. /\ Armed /\ Drained /\ Emptied
      /\ Accepted' = 0 /\ ~AtLast' /\ ~Drained' /\ ~Emptied' /\ ~Armed'
  BY <1>1, <1>2, ScanMoves
<1>4. ~Marked /\ codec = "sync" /\ decoder.msg.kind # "sample" /\ holder = EmptyHolder
  BY <1>3 DEF MarkInv, Quiet
<1>5. LateOnLine' = LateOnLine + 0 /\ Marked' /\ StaleOnLine' <= LateOnLine' /\ OneMark'
  BY <1>1, <1>2, <1>4, SentLine
<1>6. AtHand' <= AtHand
  BY <1>2 DEF AtHand
<1>7. FewLate'
  BY <1>1, <1>2, <1>5, <1>6, Numbers, NumbersPrimed DEF MarkInv, FewLate, FewTimeouts
<1>8. StaleAnswers'
  BY <1>1, <1>2, <1>3, <1>5, <1>6, Numbers, NumbersPrimed
     DEF MarkInv, FewLate, StaleAnswers, FewTimeouts
<1>9. MarkUnseen' /\ LastAnswer' /\ Quiet' /\ Switches'
  BY <1>2, <1>3, <1>4, <1>5 DEF MarkInv, MarkUnseen, LastAnswer, Quiet, Switches
<1> QED
  BY <1>5, <1>7, <1>8, <1>9 DEF MarkInv

LEMMA MarkInAsk ==
    ASSUME Inv, MarkInv, Inv', FewTimeouts, sendCommandWithResponse
    PROVE  MarkInv'
<1>1. TypeOK /\ TypeOK' /\ OneMark
  BY DEF Inv, MarkInv
<1>2. /\ Goes("ask") /\ client' = [client EXCEPT !.pc = "wait"]
      /\ client.pc = "run" /\ client'.pc = "wait"
      /\ UNCHANGED <<holder, timeouts, device, rx, decoder, session>>
      /\ codec' = "sync" /\ unpacker' = [enabled |-> FALSE, selected |-> FALSE]
      /\ ~waiter'.set
      /\ tx' = Append(tx, Current.cmd)
  BY <1>1 DEF sendCommandWithResponse, disableDataGrabbing, Goes, TypeOK
<1>3. /\ Accepted' = Accepted /\ ~Armed'
      /\ Drained' <=> Drained
      /\ Emptied' <=> Emptied
  BY <1>1, <1>2, AskMoves
<1>4. Current.cmd \in Asked /\ Current.cmd # "SCAN" /\ Current.cmd \in Commands
  <2>1. Current \in StepType /\ Current.do = "ask"
    BY <1>1, <1>2, CurrentTyped DEF Goes
  <2> QED
    BY <2>1, Kinds DEF StepType
<1>5. /\ LateOnLine' = LateOnLine + 1 /\ StaleOnLine' = StaleOnLine
      /\ (Marked' <=> Marked) /\ OneMark'
  <2>1. session' = IF Current.cmd = "SCAN" THEN session + 1 ELSE session
    BY <1>2, <1>4
  <2> QED
    BY <1>1, <1>2, <1>4, <2>1, SentLine
<1>6. AtHand' <= AtHand
  BY <1>2 DEF AtHand
<1>7. FewLate' /\ StaleAnswers'
  BY <1>1, <1>2, <1>3, <1>5, <1>6, Numbers, NumbersPrimed
     DEF MarkInv, FewLate, StaleAnswers, FewTimeouts
<1>9. MarkUnseen' /\ LastAnswer' /\ Quiet' /\ Switches'
  BY <1>2, <1>3, <1>5 DEF MarkInv, MarkUnseen, LastAnswer, Quiet, Switches
<1> QED
  BY <1>5, <1>7, <1>9 DEF MarkInv

LEMMA MarkInAnswered ==
    ASSUME Inv, MarkInv, Inv', FewTimeouts, Answered
    PROVE  MarkInv'
<1>1. TypeOK /\ TypeOK' /\ OneMark /\ WaitsInCalls
  BY DEF Inv, MarkInv
<1>2. /\ client.pc = "wait" /\ client'.pc # "wait" /\ waiter.set /\ ~waiter'.set
      /\ UNCHANGED <<holder, timeouts, device, tx, rx, decoder, session, codec, unpacker>>
  <2>1. client' = Onward \/ client' = Failed
    BY DEF Answered
  <2> QED
    BY <1>1, <2>1, OnwardTyped, FailedTyped DEF Answered, Wakes, FewTimeouts, lineVars, decoderVars, TypeOK
<1>3. /\ Accepted' <= Accepted + 1
      /\ ~AtLast' /\ ~Emptied' /\ ~Armed' /\ ~Armed
      /\ Drained' => Drained \/ AtLast
  BY <1>1, AnsweredMoves
<1>4. /\ LateOnLine' = LateOnLine /\ StaleOnLine' = StaleOnLine
      /\ (Marked' <=> Marked) /\ OneMark'
  BY <1>1, <1>2, SameLine
<1>5. AtHand' + 1 = AtHand
  BY <1>2 DEF AtHand
<1>6. FewLate' /\ StaleAnswers'
  BY <1>1, <1>2, <1>3, <1>4, <1>5, Numbers, NumbersPrimed
     DEF MarkInv, FewLate, StaleAnswers, FewTimeouts
<1>7. Quiet'
  <2>1. AtLast => ~Marked /\ codec = "sync" /\ decoder.msg.kind # "sample"
    <3>1. codec \in {"sync", "loop"}
      BY <1>1 DEF TypeOK
    <3> QED
      BY <1>1, <1>2, <3>1, NoneLate DEF MarkInv, LastAnswer
  <2> QED
    BY <1>2, <1>3, <1>4, <2>1 DEF MarkInv, Quiet
<1>8. MarkUnseen' /\ LastAnswer' /\ Switches'
  BY <1>2, <1>3, <1>4 DEF MarkInv, MarkUnseen, LastAnswer, Switches
<1> QED
  BY <1>4, <1>6, <1>7, <1>8 DEF MarkInv

LEMMA MarkInTimeout ==
    ASSUME Inv, MarkInv, Inv', FewTimeouts, AnswerTimeout
    PROVE  MarkInv'
<1>1. TypeOK /\ TypeOK' /\ OneMark /\ WaitsInCalls
  BY DEF Inv, MarkInv
<1>2. /\ client.pc = "wait" /\ client'.pc # "wait"
      /\ timeouts < MaxTimeouts /\ timeouts' = timeouts + 1
      /\ UNCHANGED <<holder, device, tx, rx, decoder, session, codec, unpacker, waiter>>
  BY <1>1, FailedTyped DEF AnswerTimeout, lineVars, decoderVars, answerVars
<1>3. /\ Accepted' <= Accepted
      /\ ~AtLast' /\ ~Emptied' /\ ~Armed' /\ ~Armed
      /\ Drained' => Drained
  <2>1. timeouts \in Nat
    BY <1>1 DEF TypeOK
  <2>2. ~Answered
    BY <2>1, AnsweredInTime
  <2> QED
    BY <1>1, <2>2, AnsweredMoves
<1>4. /\ LateOnLine' = LateOnLine /\ StaleOnLine' = StaleOnLine
      /\ (Marked' <=> Marked) /\ OneMark'
  BY <1>1, <1>2, SameLine
<1>5. AtHand' = AtHand
  BY <1>2 DEF AtHand
<1>6. /\ LateOnLine' + AtHand' <= LateOnLine + AtHand
      /\ LateOnLine' + AtHand' <= timeouts' + (IF client'.pc = "wait" THEN 1 ELSE 0)
      /\ timeouts' <= MaxTimeouts
      /\ StaleOnLine' + AtHand' <= StaleOnLine + AtHand
  BY <1>1, <1>2, <1>4, <1>5, Numbers, NumbersPrimed DEF MarkInv, FewLate, FewTimeouts
<1>7. /\ unpacker'.selected => unpacker'.enabled
      /\ unpacker'.enabled => codec' = "loop" \/ Marked' \/ Armed'
  BY <1>2, <1>3, <1>4 DEF MarkInv, Switches
<1> QED
  BY <1>2, <1>3, <1>4, <1>6, <1>7, MarkKept

LEMMA MarkInReset ==
    ASSUME Inv, MarkInv, Inv', FewTimeouts, reset \/ enable
    PROVE  MarkInv'
<1>1. TypeOK /\ TypeOK' /\ OneMark
  BY DEF Inv, MarkInv
<1>2. /\ client' = Onward /\ client.pc = "run" /\ client'.pc = "run"
      /\ UNCHANGED <<timeouts, device, tx, rx, decoder, session, codec, waiter>>
      /\ \/ Goes("reset") /\ holder' = EmptyHolder /\ unpacker' = unpacker
         \/ Goes("enable") /\ holder' = holder /\ unpacker' = [enabled |-> TRUE, selected |-> FALSE]
  BY <1>1, OnwardTyped DEF reset, enable, lineVars, decoderVars, answerVars, Goes
<1>3. /\ Drained /\ Drained' /\ Emptied' /\ Accepted' = 0 /\ ~AtLast'
      /\ Goes("enable") => Emptied /\ Armed'
  BY <1>1, <1>2, ResetMoves
<1>4. /\ LateOnLine' = LateOnLine /\ StaleOnLine' = StaleOnLine
      /\ (Marked' <=> Marked) /\ OneMark'
  BY <1>1, <1>2, SameLine
<1>5. AtHand' = AtHand
  BY <1>2 DEF AtHand
<1>6. FewLate'
  BY <1>2, <1>4, <1>5 DEF MarkInv, FewLate
<1>7. ~Marked /\ codec = "sync" /\ decoder.msg.kind # "sample" /\ holder' = EmptyHolder
  BY <1>2, <1>3 DEF MarkInv, Quiet
<1>8. /\ unpacker'.selected => unpacker'.enabled
      /\ unpacker'.enabled => Armed'
  <2>1. CASE Goes("enable") /\ unpacker' = [enabled |-> TRUE, selected |-> FALSE]
    BY <1>3, <2>1
  <2>2. CASE Goes("reset") /\ unpacker' = unpacker
    <3>1. ~Armed
      <4>1. client.step = LastStep + 2
        BY <1>1, <2>2, OnlyStart, StartSteps DEF Goes
      <4> QED
        BY <4>1, PassedFacts DEF Armed
    <3> QED
      BY <1>7, <2>2, <3>1 DEF MarkInv, Switches
  <2> QED
    BY <1>2, <2>1, <2>2
<1>9. MarkUnseen' /\ StaleAnswers' /\ LastAnswer' /\ Quiet' /\ Switches'
  BY <1>2, <1>3, <1>4, <1>7, <1>8
     DEF MarkInv, MarkUnseen, StaleAnswers, LastAnswer, Quiet, Switches
<1> QED
  BY <1>4, <1>6, <1>9 DEF MarkInv

LEMMA MarkInLoop ==
    ASSUME Inv, MarkInv, Inv', FewTimeouts, Return \/ WorkLoop
    PROVE  MarkInv'
<1>1. TypeOK /\ TypeOK' /\ OneMark
  BY DEF Inv, MarkInv
<1>2. /\ UNCHANGED <<timeouts, device, tx, decoder, session, waiter>>
      /\ \/ UNCHANGED <<rx, codec, unpacker>>
         \/ rx' = <<>> /\ codec' = "sync" /\ unpacker' = [enabled |-> FALSE, selected |-> FALSE]
      /\ holder' = holder \/ holder.ready
  BY DEF Return, WorkLoop, FewTimeouts, Wakes, GrabReady, GrabTimeout,
         waitAndLockAvailableScan, spin_some, start_motor, stop_motor, need_exit, disconnect, disableDataGrabbing, Idle, lineVars,
         decoderVars, answerVars
<1>3. Accepted' = 0 /\ ~AtLast' /\ ~Drained' /\ ~Emptied' /\ ~Armed'
  BY <1>1, LoopMoves
<1>4. client.pc # "wait" /\ ~Armed
  <2>1. CASE Return
    <3>1. client.step \in Nat /\ Len(Program[client.call]) \in Nat
      BY <1>1, ProgramTyped, LenProperties DEF TypeOK
    <3>2. client.pc = "run" /\ ~(client.step <= Len(Program[client.call]))
      BY <2>1, <3>1 DEF Return
    <3> QED
      BY <1>1, <3>2, ArmedIsInside
  <2>2. CASE WorkLoop
    BY <2>2 DEF WorkLoop, GrabReady, GrabTimeout, waitAndLockAvailableScan, spin_some,
         start_motor, stop_motor, need_exit, disconnect, Armed
  <2> QED
    BY <2>1, <2>2
<1>5. client'.pc # "wait"
  BY <1>1, LoopGoes
<1>6. /\ LateOnLine' <= LateOnLine /\ StaleOnLine' <= StaleOnLine
      /\ (Marked' => Marked) /\ OneMark'
      /\ rx' = rx => (Marked' <=> Marked)
  <2>1. CASE rx' = rx
    BY <1>1, <1>2, <2>1, SameLine, Numbers
  <2>2. CASE rx' = <<>>
    BY <1>1, <1>2, <2>2, ClosedLine, SameLine
  <2> QED
    BY <1>2, <2>1, <2>2
<1>7. AtHand' = AtHand
  BY <1>2 DEF AtHand
<1>8. /\ LateOnLine' + AtHand' <= LateOnLine + AtHand
      /\ LateOnLine' + AtHand' <= timeouts' + (IF client'.pc = "wait" THEN 1 ELSE 0)
      /\ timeouts' <= MaxTimeouts
      /\ StaleOnLine' + AtHand' <= StaleOnLine + AtHand
      /\ Accepted' <= Accepted
  BY <1>1, <1>2, <1>3, <1>4, <1>5, <1>6, <1>7, Numbers, NumbersPrimed
     DEF MarkInv, FewLate, FewTimeouts
<1>9. /\ unpacker'.selected => unpacker'.enabled
      /\ unpacker'.enabled => codec' = "loop" \/ Marked' \/ Armed'
      /\ codec' = codec \/ codec' = "sync"
  BY <1>2, <1>4, <1>6 DEF MarkInv, Switches
<1> QED
  BY <1>2, <1>3, <1>6, <1>8, <1>9, MarkKept

LEMMA MarkStep ==
    ASSUME Inv, MarkInv, FewTimeouts, [Next]_vars
    PROVE  MarkInv'
<1>1. CASE UNCHANGED vars
  BY <1>1, SameClient, SameLine
     DEF vars, MarkInv, FewLate, MarkUnseen, StaleAnswers, LastAnswer, Quiet, Switches, AtHand
<1>2. CASE Next
  <2>1. Inv'
    BY <1>2, LineKeeps, DecoderKeeps, CallKeeps, WorkLoopKeeps DEF Next, Client
  <2>2. sendCommandWithoutResponse => Current.cmd \in {"STOP", "SCAN"}
    <3>1. sendCommandWithoutResponse => Current \in StepType /\ Current.do = "send"
      BY CurrentTyped DEF sendCommandWithoutResponse, Goes, Inv
    <3> QED
      BY <3>1 DEF StepType
  <2> QED
    BY <1>2, <2>1, <2>2, MarkOnLine, MarkInDecoder, MarkInStops, MarkInScan, MarkInAsk,
       MarkInAnswered, MarkInTimeout, MarkInReset, MarkInLoop DEF Next, Client, Call
<1> QED
  BY <1>1, <1>2

-----------------------------------------------------------------------------
(***************************************************************************)
(* The samples of a scan in order.  `intact' says that none was lost.      *)
(***************************************************************************)
Adjacent(a, b) ==
    IF a.sector = Sectors - 1 THEN b.sector = 0 /\ b.rev = a.rev + 1
                              ELSE b.sector = a.sector + 1 /\ b.rev = a.rev
Leads(a, b, intact) == Before(a, b) /\ (intact => Adjacent(a, b))

InOrder(b, s) ==
    /\ b[1].sector = 0
    /\ \A i \in 1 .. Len(b) : b[i].session = s
    /\ \A i \in 1 .. Len(b) - 1 : Before(b[i], b[i + 1])
Partial(b, s, intact) ==
    b # <<>> => /\ InOrder(b, s)
                /\ intact => \A i \in 1 .. Len(b) : b[i].sector = i - 1 /\ b[i].rev = b[1].rev
Complete(b, s, intact) ==
    b # <<>> => /\ InOrder(b, s)
                /\ intact => Len(b) = Sectors /\ b[Sectors].rev = b[1].rev

LEMMA RevolutionIsComplete ==
    ASSUME TypeOK
    PROVE  RevolutionOfThisStart <=> Complete(grabbed.nodes, grabbed.session, lost = 0)
<1>1. grabbed.nodes \in Seq(SampleType)
  BY DEF TypeOK
<1>2. DOMAIN grabbed.nodes = 1 .. Len(grabbed.nodes)
  BY <1>1, LenProperties
<1> QED
  BY <1>2 DEF RevolutionOfThisStart, Complete, InOrder, IsSync

At(a) == a.rev \in Nat /\ a.sector \in 0 .. Sectors - 1

LEMMA SamplesAt == \A m \in SampleType : At(m)
BY DEF SampleType, At

LEMMA BeforeTransitive ==
    ASSUME NEW a, NEW b, NEW c, At(a), At(b), At(c), Before(a, b), Before(b, c)
    PROVE  Before(a, c)
<1>1. Sectors \in Nat
  BY SectorsAssumption
<1> QED
  BY <1>1 DEF Before, At

LEMMA LeadsWeakens ==
    ASSUME NEW a, NEW b, NEW i \in BOOLEAN, NEW j \in BOOLEAN, Leads(a, b, i), j => i
    PROVE  Leads(a, b, j)
BY DEF Leads

LEMMA Weakens ==
    ASSUME NEW b, NEW s, NEW i \in BOOLEAN, NEW j \in BOOLEAN, j => i
    PROVE  /\ Partial(b, s, i) => Partial(b, s, j)
           /\ Complete(b, s, i) => Complete(b, s, j)
BY DEF Partial, Complete

LEMMA EmptyIsInOrder ==
    ASSUME NEW s, NEW i
    PROVE  Partial(<<>>, s, i) /\ Complete(<<>>, s, i)
BY DEF Partial, Complete

(* The sync sample of the next revolution ends the open one.               *)
LEMMA SyncCompletes ==
    ASSUME NEW b \in Seq(SampleType), NEW s, NEW i \in BOOLEAN, NEW m \in SampleType,
           Partial(b, s, i), b # <<>>, Leads(b[Len(b)], m, i), IsSync(m)
    PROVE  Complete(b, s, i)
<1>1. Len(b) \in Nat \ {0} /\ Sectors \in Nat \ {0}
  BY LenProperties, EmptySeq, SectorsAssumption
<1>2. ASSUME i PROVE Len(b) = Sectors /\ b[Sectors].rev = b[1].rev
  <2>1. Len(b) \in 1 .. Len(b)
    BY <1>1
  <2>2. b[Len(b)].sector = Len(b) - 1 /\ b[Len(b)].rev = b[1].rev
    BY <1>2, <2>1 DEF Partial
  <2>3. b[Len(b)] \in SampleType
    BY <2>1, ElementOfSeq
  <2>4. b[Len(b)].sector \in 0 .. Sectors - 1
    BY <2>3 DEF SampleType
  <2>5. Adjacent(b[Len(b)], m) /\ m.sector = 0
    BY <1>2 DEF Leads, IsSync
  <2>6. b[Len(b)].sector = Sectors - 1
    BY <1>1, <2>4, <2>5 DEF Adjacent
  <2>7. Len(b) = Sectors
    BY <1>1, <2>2, <2>6
  <2> QED
    BY <2>2, <2>7
<1> QED
  BY <1>2 DEF Partial, Complete

LEMMA AppendInOrder ==
    ASSUME NEW b \in Seq(SampleType), NEW s, NEW i \in BOOLEAN, NEW m \in SampleType,
           Partial(b, s, i), m.session = s,
           b = <<>> => IsSync(m),
           b # <<>> => Leads(b[Len(b)], m, i) /\ ~IsSync(m)
    PROVE  /\ Partial(Append(b, m), s, i)
           /\ Append(b, m)[Len(Append(b, m))] = m
<1> DEFINE c == Append(b, m)   n == Len(b)
<1>1. /\ n \in Nat /\ Len(c) = n + 1 /\ c[n + 1] = m
      /\ \A k \in 1 .. n : c[k] = b[k]
  BY AppendProperties, LenProperties
<1>2. b = <<>> <=> n = 0
  BY EmptySeq
<1> HIDE DEF c, n
<1>3. c[1].sector = 0
  <2>1. CASE n = 0
    BY <1>1, <1>2, <2>1 DEF IsSync
  <2>2. CASE n # 0
    BY <1>1, <1>2, <2>2 DEF Partial, InOrder
  <2> QED
    BY <2>1, <2>2
<1>4. ASSUME NEW k \in 1 .. n + 1 PROVE c[k].session = s
  <2>1. CASE k = n + 1
    BY <1>1, <2>1
  <2>2. CASE k \in 1 .. n
    BY <1>1, <1>2, <2>2 DEF Partial, InOrder, n
  <2> QED
    BY <1>1, <2>1, <2>2
<1>5. ASSUME NEW k \in 1 .. n PROVE Before(c[k], c[k + 1])
  <2>1. CASE k = n
    BY <1>1, <1>2, <2>1 DEF Leads, n
  <2>2. CASE k \in 1 .. n - 1
    <3>1. k \in 1 .. n /\ k + 1 \in 1 .. n
      BY <1>1, <2>2
    <3>2. Before(b[k], b[k + 1])
      BY <1>1, <1>2, <2>2 DEF Partial, InOrder, n
    <3> QED
      BY <1>1, <3>1, <3>2
  <2> QED
    BY <1>1, <2>1, <2>2
<1>6. ASSUME i, NEW k \in 1 .. n + 1 PROVE c[k].sector = k - 1 /\ c[k].rev = c[1].rev
  <2>1. CASE k \in 1 .. n
    <3>1. b[k].sector = k - 1 /\ b[k].rev = b[1].rev
      BY <1>1, <1>2, <1>6, <2>1 DEF Partial, n
    <3>2. c[k] = b[k] /\ c[1] = b[1]
      BY <1>1, <2>1
    <3> QED
      BY <3>1, <3>2
  <2>2. CASE k = n + 1 /\ n = 0
    BY <1>1, <1>2, <2>2 DEF IsSync
  <2>3. CASE k = n + 1 /\ n # 0
    <3>1. n \in 1 .. n /\ 1 \in 1 .. n
      BY <1>1, <2>3
    <3>2. b[n].sector = n - 1 /\ b[n].rev = b[1].rev
      BY <1>2, <1>6, <2>3, <3>1 DEF Partial, n
    <3>3. Adjacent(b[n], m) /\ m.sector # 0
      BY <1>2, <1>6, <2>3 DEF Leads, IsSync, n
    <3>4. m.sector = b[n].sector + 1 /\ m.rev = b[n].rev
      BY <3>3 DEF Adjacent
    <3> QED
      BY <1>1, <2>3, <3>1, <3>2, <3>4
  <2> QED
    BY <1>1, <2>1, <2>2, <2>3
<1>7. Partial(c, s, i)
  BY <1>1, <1>3, <1>4, <1>5, <1>6 DEF Partial, InOrder
<1> QED
  BY <1>1, <1>7 DEF c, n

(* A full buffer: the last sample is overwritten, which happens only after *)
(* a loss.                                                                 *)
LEMMA OverwriteInOrder ==
    ASSUME NEW b \in Seq(SampleType), NEW s, NEW i \in BOOLEAN, NEW m \in SampleType,
           Partial(b, s, i), m.session = s, b # <<>>, Leads(b[Len(b)], m, i), ~IsSync(m),
           Len(b) >= BufferSize
    PROVE  /\ Partial([b EXCEPT ![Len(b)] = m], s, i)
           /\ Len([b EXCEPT ![Len(b)] = m]) = Len(b)
           /\ [b EXCEPT ![Len(b)] = m][Len(b)] = m
<1> DEFINE n == Len(b)   c == [b EXCEPT ![n] = m]
<1>1. /\ n \in Nat \ {0} /\ n \in 1 .. n
      /\ \A k \in 1 .. n : b[k] \in SampleType
  BY LenProperties, EmptySeq, ElementOfSeq
<1>2. /\ Len(c) = n /\ c[n] = m
      /\ \A k \in 1 .. n : k # n => c[k] = b[k]
  BY <1>1, ExceptSeq
<1>3. Sectors \in Nat \ {0} /\ BufferSize \in Nat /\ n >= Sectors
  BY <1>1, SectorsAssumption, BufferAssumption
<1>4. m.sector \in 0 .. Sectors - 1 /\ m.sector # 0
  BY DEF SampleType, IsSync
<1>5. n # 1
  BY <1>1, <1>3, <1>4
<1>6. ~i
  <2>1. ASSUME i PROVE FALSE
    <3>1. b[n].sector = n - 1
      BY <1>1, <2>1 DEF Partial
    <3>2. b[n].sector \in 0 .. Sectors - 1
      BY <1>1 DEF SampleType
    <3>3. b[n].sector = Sectors - 1
      BY <1>1, <1>3, <3>1, <3>2
    <3> QED
      BY <1>4, <2>1, <3>3 DEF Leads, Adjacent
  <2> QED
    BY <2>1
<1> HIDE DEF c, n
<1>7. ASSUME NEW k \in 1 .. n - 1 PROVE Before(c[k], c[k + 1])
  <2>1. k \in 1 .. n /\ k + 1 \in 1 .. n /\ k # n
    BY <1>1
  <2>2. Before(b[k], b[k + 1])
    BY DEF Partial, InOrder, n
  <2>3. CASE k + 1 = n
    <3>1. Before(b[n], m)
      BY DEF Leads, n
    <3>2. At(b[k]) /\ At(b[n]) /\ At(m)
      BY <1>1, <2>1, SamplesAt
    <3>3. Before(b[k], m)
      BY <2>2, <2>3, <3>1, <3>2, BeforeTransitive
    <3> QED
      BY <1>2, <2>1, <2>3, <3>3
  <2>4. CASE k + 1 # n
    BY <1>2, <2>1, <2>2, <2>4
  <2> QED
    BY <2>3, <2>4
<1>8. c[1].sector = 0 /\ \A k \in 1 .. n : c[k].session = s
  <2>1. b[1].sector = 0 /\ \A k \in 1 .. n : b[k].session = s
    BY DEF Partial, InOrder, n
  <2>2. 1 \in 1 .. n
    BY <1>1
  <2> QED
    BY <1>2, <1>5, <2>1, <2>2
<1> QED
  BY <1>2, <1>6, <1>7, <1>8 DEF Partial, InOrder, c, n

Open(h) == h.buf[operationBuffer(h)]
Available(h, s, intact) == h.available >= 0 => Complete(h.buf[h.available], s, intact)

LEMMA OpenTyped ==
    ASSUME NEW h, Sound(h)
    PROVE  /\ operationBuffer(h) \in {0, 1} /\ Open(h) \in Seq(SampleType)
           /\ h.available >= 0 => h.available \in {0, 1} /\ operationBuffer(h) # h.available
           /\ h.buf \in [{0, 1} -> Seq(SampleType)]
BY DEF Sound, HolderType, operationBuffer, Open

LEMMA EmptyHolderIsInOrder ==
    ASSUME NEW s, NEW i
    PROVE  /\ Open(EmptyHolder) = <<>> /\ Available(EmptyHolder, s, i)
           /\ ~EmptyHolder.ready
BY DEF EmptyHolder, Open, operationBuffer, Available

(* Storing a sample leaves the other buffer alone.                         *)
LEMMA StoredInOrder ==
    ASSUME NEW h, Sound(h), NEW s, NEW i \in BOOLEAN, NEW m \in SampleType,
           Partial(Open(h), s, i), m.session = s,
           Open(h) = <<>> => IsSync(m),
           Open(h) # <<>> => Leads(Open(h)[Len(Open(h))], m, i) /\ ~IsSync(m)
    PROVE  /\ Partial(Open(Stored(h, m)), s, i)
           /\ Open(Stored(h, m)) # <<>>
           /\ Open(Stored(h, m))[Len(Open(Stored(h, m)))] = m
           /\ Available(h, s, i) => Available(Stored(h, m), s, i)
<1> DEFINE op == operationBuffer(h)
           b  == h.buf[op]
           n  == Len(b)
           c  == IF n >= BufferSize THEN [b EXCEPT ![n] = m] ELSE Append(b, m)
<1>1. op \in {0, 1} /\ b \in Seq(SampleType) /\ n \in Nat /\ b = Open(h)
  BY OpenTyped, LenProperties DEF Open
<1>2. BufferSize \in Nat \ {0}
  BY BufferAssumption, SectorsAssumption
<1>3. b = <<>> <=> n = 0
  BY <1>1, EmptySeq
<1>4. Partial(c, s, i) /\ c # <<>> /\ c[Len(c)] = m
  <2>1. CASE n >= BufferSize
    <3>1. b # <<>>
      BY <1>1, <1>2, <1>3, <2>1
    <3>2. /\ Partial([b EXCEPT ![n] = m], s, i) /\ Len([b EXCEPT ![n] = m]) = n
          /\ [b EXCEPT ![n] = m][n] = m
      BY <1>1, <2>1, <3>1, OverwriteInOrder
    <3>3. Len(<<>>) = 0
      OBVIOUS
    <3> QED
      BY <1>1, <1>2, <2>1, <3>2, <3>3
  <2>2. CASE ~(n >= BufferSize)
    <3>1. Partial(Append(b, m), s, i) /\ Append(b, m)[Len(Append(b, m))] = m
      BY <1>1, AppendInOrder
    <3>2. Append(b, m) # <<>>
      BY <1>1
    <3> QED
      BY <2>2, <3>1, <3>2
  <2> QED
    BY <2>1, <2>2
<1>5. Stored(h, m) = [h EXCEPT !.buf = [h.buf EXCEPT ![op] = c]]
  BY <1>1 DEF Stored, Sound, HolderType
<1> HIDE DEF op, c, n, b
<1>6. /\ Stored(h, m).available = h.available
      /\ Stored(h, m).buf = [h.buf EXCEPT ![op] = c]
  BY <1>5 DEF Sound, HolderType
<1>7. Stored(h, m).buf[op] = c
      /\ \A k \in {0, 1} : k # op => Stored(h, m).buf[k] = h.buf[k]
  BY <1>1, <1>6 DEF Sound, HolderType
<1>8. operationBuffer(Stored(h, m)) = op
  BY <1>6 DEF operationBuffer, op
<1>9. Open(Stored(h, m)) = c
  BY <1>7, <1>8 DEF Open
<1>10. Available(h, s, i) => Available(Stored(h, m), s, i)
  <2>1. h.available >= 0 => h.available \in {0, 1} /\ h.available # op
    BY OpenTyped DEF op
  <2> QED
    BY <1>6, <1>7, <2>1 DEF Available
<1> QED
  BY <1>4, <1>9, <1>10

LEMMA PushInOrder ==
    ASSUME NEW h, Sound(h), NEW s, NEW i \in BOOLEAN, NEW m \in SampleType,
           Partial(Open(h), s, i), Available(h, s, i), m.session = s,
           Open(h) # <<>> => Leads(Open(h)[Len(Open(h))], m, i)
    PROVE  LET g == pushScanNodeData(h, m)
           IN  /\ Partial(Open(g), s, i) /\ Available(g, s, i)
               /\ Open(g) # <<>> => Open(g)[Len(Open(g))] = m
<1> DEFINE g == pushScanNodeData(h, m)   w == finishCurrentScanAndSwap(h)
<1>1. CASE ~IsSync(m) /\ Open(h) = <<>>
  <2>1. g = h
    BY <1>1 DEF pushScanNodeData, Open
  <2> QED
    BY <1>1, <2>1
<1>2. CASE ~IsSync(m) /\ Open(h) # <<>>
  <2>1. g = Stored(h, m)
    BY <1>2 DEF pushScanNodeData, Open
  <2> QED
    BY <1>2, <2>1, StoredInOrder
<1>3. CASE IsSync(m) /\ Open(h) = <<>>
  <2>1. g = Stored(h, m)
    BY <1>3 DEF pushScanNodeData, Open
  <2> QED
    BY <1>3, <2>1, StoredInOrder
<1>4. CASE IsSync(m) /\ Open(h) # <<>>
  <2>1. g = Stored(w, m)
    BY <1>4 DEF pushScanNodeData, Open
  <2>2. Sound(w)
    BY SwapIsSound
  <2>3. Open(h) \in Seq(SampleType) /\ operationBuffer(h) \in {0, 1}
        /\ h.buf \in [{0, 1} -> Seq(SampleType)]
    BY OpenTyped
  <2>4. Complete(Open(h), s, i)
    BY <1>4, <2>3, SyncCompletes
  <2>5. /\ w.available = operationBuffer(h) /\ operationBuffer(w) = 1 - operationBuffer(h)
        /\ w.buf = [h.buf EXCEPT ![1 - operationBuffer(h)] = <<>>]
    BY <2>3 DEF finishCurrentScanAndSwap, operationBuffer
  <2>6. /\ 1 - operationBuffer(h) \in {0, 1} /\ 1 - operationBuffer(h) # operationBuffer(h)
    BY <2>3
  <2>7. w.buf[operationBuffer(h)] = Open(h) /\ Open(w) = <<>>
    BY <2>3, <2>5, <2>6 DEF Open
  <2>8. Available(w, s, i) /\ Partial(Open(w), s, i)
    BY <2>4, <2>5, <2>7, EmptyIsInOrder DEF Available
  <2> HIDE DEF w, g
  <2>9. /\ Partial(Open(Stored(w, m)), s, i) /\ Available(Stored(w, m), s, i)
        /\ Open(Stored(w, m))[Len(Open(Stored(w, m)))] = m
    BY <1>4, <2>2, <2>7, <2>8, StoredInOrder
  <2> USE DEF g
  <2> QED
    BY <2>1, <2>9
<1> QED
  BY <1>1, <1>2, <1>3, <1>4

-----------------------------------------------------------------------------
(***************************************************************************)
(* The stream of the scan started last: from the header on, the line to    *)
(* the host holds its samples in order, up to the one the lidar takes      *)
(* next, and what the decoder handles comes before them.                   *)
(***************************************************************************)
Intact == lost = 0
Live == unpacker.enabled /\ (codec = "loop" \/ Marked)
Zone == {i \in 1 .. Len(rx) : device.session = session /\ \A h \in Where(rx, Header) : h < i}
Following(i) == IF i < Len(rx) THEN rx[i + 1] ELSE device
First == IF rx = <<>> THEN device ELSE rx[1]

Commanded == IF Holds(tx, Scan) THEN tx # <<>> /\ tx[Len(tx)] = "SCAN" ELSE tx = <<>>
Streamed ==
    \A i \in Zone : rx[i] \in SampleType /\ rx[i].session = session
                      /\ Leads(rx[i], Following(i), Intact)
Decoded ==
    decoder.msg.kind = "sample" =>
      /\ decoder.msg \in SampleType /\ decoder.msg.session = session
      /\ Leads(decoder.msg, First, Intact)
      /\ decoder.pc \in {"decoded", "selected", "push"}
      /\ decoder.pc = "selected" => unpacker.selected
LiveInv == Live => Commanded /\ Streamed /\ Decoded

LEMMA ZoneAll ==
    ASSUME OneMark, ~Marked
    PROVE  device.session = session /\ Zone = 1 .. Len(rx)
BY DEF OneMark, Marked, Zone, Holds

LEMMA ZoneNone ==
    ASSUME TypeOK, OneMark, Holds(tx, Scan)
    PROVE  Zone = {}
BY DEF OneMark, Zone, TypeOK

LEMMA AtFollowing ==
    ASSUME TypeOK, Streamed
    PROVE  /\ At(device)
           /\ \A i \in Zone : At(rx[i]) /\ (i + 1 \in Zone \/ i = Len(rx)) /\ At(Following(i))
<1>1. At(device)
  BY DEF TypeOK, At
<1>2. ASSUME NEW i \in Zone PROVE At(rx[i])
  BY SamplesAt DEF Streamed
<1>3. Len(rx) \in Nat
  BY LineTyped, LenProperties
<1>4. ASSUME NEW i \in Zone PROVE i + 1 \in Zone \/ i = Len(rx)
  <2>1. i \in 1 .. Len(rx)
    BY DEF Zone
  <2>2. ASSUME i # Len(rx) PROVE i + 1 \in 1 .. Len(rx)
    BY <1>3, <2>1, <2>2
  <2>3. \A h \in Where(rx, Header) : h \in Nat /\ h < i
    BY DEF Zone, Where
  <2>4. \A h \in Where(rx, Header) : h < i + 1
    BY <2>1, <2>3
  <2> QED
    BY <2>2, <2>4 DEF Zone
<1>5. ASSUME NEW i \in Zone PROVE At(Following(i))
  <2>1. i \in 1 .. Len(rx)
    BY DEF Zone
  <2>2. CASE i < Len(rx)
    <3>1. i + 1 \in Zone
      BY <1>3, <1>4, <2>1, <2>2
    <3> QED
      BY <1>2, <2>2, <3>1 DEF Following
  <2>3. CASE ~(i < Len(rx))
    BY <1>1, <2>3 DEF Following
  <2> QED
    BY <2>2, <2>3
<1> QED
  BY <1>1, <1>2, <1>4, <1>5

(* A packet leaves the line: what it led leads in its place.               *)
LEMMA TakenZone ==
    ASSUME TypeOK, rx # <<>>, rx' = Tail(rx), UNCHANGED <<device, session>>
    PROVE  /\ \A i \in Zone' : /\ i + 1 \in Zone /\ rx'[i] = rx[i + 1]
                              /\ Following(i)' = Following(i + 1)
           /\ First' = Following(1) /\ First = rx[1] /\ Head(rx) = rx[1] /\ 1 \in 1 .. Len(rx)
<1>1. /\ rx \in Seq(PacketType) /\ Len(rx) \in Nat \ {0} /\ Len(rx') = Len(rx) - 1
      /\ \A i \in 1 .. Len(rx') : rx'[i] = rx[i + 1]
      /\ Head(rx) = rx[1]
  BY LineTyped, HeadTailProperties, LenProperties, EmptySeq
<1>2. \A i \in Nat \ {0} : i \in Where(rx', Header) <=> i + 1 \in Where(rx, Header)
  BY <1>1, WhereTail
<1>3. ASSUME NEW i \in Zone'
      PROVE  i + 1 \in Zone /\ rx'[i] = rx[i + 1] /\ Following(i)' = Following(i + 1)
  <2>1. /\ i \in 1 .. Len(rx') /\ device.session = session
        /\ \A h \in Where(rx', Header) : h < i
    BY DEF Zone, Where
  <2>2. i + 1 \in 1 .. Len(rx)
    BY <1>1, <2>1
  <2>3. ASSUME NEW h \in Where(rx, Header) PROVE h < i + 1
    <3>1. h \in 1 .. Len(rx)
      BY DEF Where
    <3>2. CASE h = 1
      BY <2>1, <3>2
    <3>3. CASE h # 1
      <4>1. h - 1 \in Nat \ {0} /\ (h - 1) + 1 = h
        BY <3>1, <3>3
      <4>2. h - 1 < i
        BY <1>2, <2>1, <4>1
      <4> QED
        BY <2>1, <3>1, <4>2
    <3> QED
      BY <3>2, <3>3
  <2>4. i + 1 \in Zone
    BY <2>1, <2>2, <2>3 DEF Zone
  <2>5. Following(i)' = Following(i + 1)
    <3>1. Following(i)' = IF i < Len(rx') THEN rx'[i + 1] ELSE device
      BY DEF Following
    <3>2. Following(i + 1) = IF i + 1 < Len(rx) THEN rx[(i + 1) + 1] ELSE device
      BY DEF Following
    <3>3. i < Len(rx') <=> i + 1 < Len(rx)
      BY <1>1, <2>1
    <3>4. i < Len(rx') => i + 1 \in 1 .. Len(rx')
      BY <1>1, <2>1
    <3> QED
      BY <1>1, <3>1, <3>2, <3>3, <3>4
  <2> QED
    BY <1>1, <2>1, <2>4, <2>5
<1>4. First' = Following(1)
  <2>1. CASE Len(rx) = 1
    <3>1. rx' = <<>>
      BY <1>1, <2>1, HeadTailProperties, EmptySeq
    <3> QED
      BY <2>1, <3>1 DEF First, Following
  <2>2. CASE Len(rx) # 1
    <3>1. rx' # <<>> /\ 1 < Len(rx) /\ 1 \in 1 .. Len(rx')
      <4>1. Len(<<>>) = 0
        OBVIOUS
      <4>2. Len(rx) > 1 /\ Len(rx') >= 1 /\ Len(rx') \in Nat
        BY <1>1, <2>2
      <4>3. rx' # <<>>
        <5>1. rx' = <<>> => Len(rx') = 0
          BY <4>1, Zenon
        <5> QED
          BY <4>2, <5>1
      <4> QED
        BY <4>2, <4>3
    <3> QED
      BY <1>1, <3>1 DEF First, Following
  <2> QED
    BY <2>1, <2>2
<1>5. First = rx[1] /\ 1 \in 1 .. Len(rx)
  BY <1>1 DEF First
<1> QED
  BY <1>1, <1>3, <1>4, <1>5

LEMMA TakenStream ==
    ASSUME TypeOK, Streamed, rx # <<>>, rx' = Tail(rx), UNCHANGED <<device, session>>,
           Intact' => Intact
    PROVE  Streamed'
<1> SUFFICES ASSUME NEW i \in Zone'
             PROVE  (rx[i] \in SampleType /\ rx[i].session = session
                       /\ Leads(rx[i], Following(i), Intact))'
  BY DEF Streamed
<1>1. i + 1 \in Zone /\ rx'[i] = rx[i + 1] /\ Following(i)' = Following(i + 1)
  BY TakenZone
<1>2. /\ rx[i + 1] \in SampleType /\ rx[i + 1].session = session
      /\ Leads(rx[i + 1], Following(i + 1), Intact)
  BY <1>1 DEF Streamed
<1>3. Leads(rx[i + 1], Following(i + 1), Intact')
  BY <1>2 DEF Leads, Intact
<1> QED
  BY <1>1, <1>2, <1>3 DEF Leads

(* The lidar streams: its sample takes its place.                          *)
LEMMA StreamedOn ==
    ASSUME TypeOK, Streamed, Stream
    PROVE  /\ Streamed'
           /\ \A a : Leads(a, First, Intact) => Leads(a, First, Intact)'
<1> DEFINE m == Sample(device.session, device.rev, device.sector)   n == Len(rx)
<1>1. /\ rx \in Seq(PacketType) /\ n \in Nat /\ rx' = Append(rx, m)
      /\ device'.session = device.session /\ session' = session /\ lost' = lost
  BY LineTyped, LenProperties DEF Stream, TypeOK
<1>2. /\ m \in SampleType /\ m.rev = device.rev /\ m.sector = device.sector
      /\ m.session = device.session
  BY DEF Sample, SampleType, TypeOK
<1>3. m \in PacketType /\ m \notin Header
  BY <1>2, Kinds
<1>4. Leads(m, device', Intact)
  <2>1. device.rev \in Nat /\ device.sector \in 0 .. Sectors - 1 /\ Sectors \in Nat \ {0}
    BY SectorsAssumption DEF TypeOK
  <2>2. CASE device.sector = Sectors - 1
    <3>1. device'.sector = 0 /\ device'.rev = device.rev + 1
      BY <2>2 DEF Stream, TypeOK
    <3> QED
      BY <1>2, <2>1, <2>2, <3>1 DEF Leads, Before, Adjacent
  <2>3. CASE device.sector # Sectors - 1
    <3>1. device'.sector = device.sector + 1 /\ device'.rev = device.rev
      BY <2>3 DEF Stream, TypeOK
    <3> QED
      BY <1>2, <2>1, <2>3, <3>1 DEF Leads, Before, Adjacent
  <2> QED
    BY <2>2, <2>3
<1>5. ASSUME NEW a PROVE Leads(a, device, Intact) <=> Leads(a, m, Intact)
  BY <1>2 DEF Leads, Before, Adjacent
<1> HIDE DEF m, n
<1>6. /\ Len(rx') = n + 1 /\ rx'[n + 1] = m
      /\ \A i \in 1 .. n : rx'[i] = rx[i]
      /\ Where(rx', Header) = Where(rx, Header)
  <2>1. Where(Append(rx, m), Header) = Where(rx, Header)
    BY <1>1, <1>3, WhereAppend
  <2> QED
    BY <1>1, <1>3, <2>1, AppendProperties DEF n
<1>7. Intact' = Intact
  BY <1>1 DEF Intact
<1>8. ASSUME NEW i \in Zone'
      PROVE  (rx[i] \in SampleType /\ rx[i].session = session
                /\ Leads(rx[i], Following(i), Intact))'
  <2>1. /\ i \in 1 .. n + 1 /\ device.session = session
        /\ \A h \in Where(rx, Header) : h < i
    BY <1>1, <1>6 DEF Zone, Where
  <2>2. CASE i = n + 1
    <3>1. Following(i)' = device'
      BY <1>1, <1>6, <2>2 DEF Following
    <3> QED
      BY <1>1, <1>2, <1>4, <1>6, <1>7, <2>1, <2>2, <3>1 DEF Leads
  <2>3. CASE i \in 1 .. n
    <3>1. i \in Zone
      BY <2>1, <2>3 DEF Zone, n
    <3>2. /\ rx[i] \in SampleType /\ rx[i].session = session
          /\ Leads(rx[i], Following(i), Intact)
      BY <3>1 DEF Streamed
    <3>3. Leads(rx[i], Following(i)', Intact)
      <4>1. CASE i = n
        <5>1. Following(i) = device /\ Following(i)' = m
          BY <1>1, <1>6, <4>1 DEF Following, n
        <5> QED
          BY <1>5, <3>2, <5>1
      <4>2. CASE i # n
        <5>1. i < Len(rx) /\ i < Len(rx') /\ i + 1 \in 1 .. n
          BY <1>1, <1>6, <2>3, <4>2 DEF n
        <5>2. Following(i)' = Following(i)
          BY <1>6, <5>1 DEF Following
        <5> QED
          BY <3>2, <5>2
      <4> QED
        BY <4>1, <4>2
    <3> QED
      BY <1>1, <1>6, <1>7, <2>3, <3>2, <3>3 DEF Leads
  <2>4. i = n + 1 \/ i \in 1 .. n
    BY <1>1, <2>1
  <2> QED
    BY <2>2, <2>3, <2>4
<1>9. ASSUME NEW a, Leads(a, First, Intact) PROVE Leads(a, First, Intact)'
  <2>1. CASE rx = <<>>
    <3>1. n = 0
      BY <2>1 DEF n
    <3>2. First = device /\ First' = m
      <4>1. rx' # <<>> /\ rx'[1] = m
        BY <1>1, <1>6, <3>1, EmptySeq
      <4> QED
        BY <2>1, <4>1 DEF First
    <3> QED
      BY <1>5, <1>7, <1>9, <3>2 DEF Leads
  <2>2. CASE rx # <<>>
    <3>1. n # 0 /\ 1 \in 1 .. n
      BY <1>1, <2>2, EmptySeq DEF n
    <3>2. rx' # <<>>
      <4>1. Len(<<>>) = 0
        OBVIOUS
      <4> QED
        BY <1>1, <1>6, <4>1
    <3>3. First' = First
      BY <1>6, <2>2, <3>1, <3>2 DEF First
    <3> QED
      BY <1>7, <1>9, <3>3 DEF Leads
  <2> QED
    BY <2>1, <2>2
<1> QED
  BY <1>8, <1>9 DEF Streamed

-----------------------------------------------------------------------------
(***************************************************************************)
(* The buffers hold samples of the scan started last, and what the decoder *)
(* stores next follows the open one.                                       *)
(***************************************************************************)
Last(b) == b[Len(b)]
Behind == IF decoder.msg.kind = "sample" THEN decoder.msg ELSE First
BufferInv ==
    /\ Partial(Open(holder), session, Intact)
    /\ Available(holder, session, Intact)
    /\ Open(holder) # <<>> /\ Live => Leads(Last(Open(holder)), Behind, Intact)
    /\ decoder.pc = "push" =>
         /\ decoder.msg.session = session
         /\ Open(holder) # <<>> => Leads(Last(Open(holder)), decoder.msg, Intact)
ScanInv == LiveInv /\ BufferInv /\ Complete(grabbed.nodes, grabbed.session, Intact)

LEMMA ScanInit == Init => ScanInv
<1> SUFFICES ASSUME Init PROVE ScanInv
  OBVIOUS
<1>1. ~Live /\ decoder.pc # "push"
  BY DEF Init, Live
<1>2. Open(holder) = <<>> /\ Available(holder, session, Intact)
  BY EmptyHolderIsInOrder DEF Init
<1>3. grabbed.nodes = <<>>
  BY DEF Init
<1> QED
  BY <1>1, <1>2, <1>3, EmptyIsInOrder DEF ScanInv, LiveInv, BufferInv

(* While the mark is on the line the buffers are empty; without it the     *)
(* whole line is the stream.                                               *)
LEMMA OpenIsUnmarked ==
    ASSUME MarkInv, Open(holder) # <<>>
    PROVE  ~Marked
<1>1. Marked => holder = EmptyHolder
  BY DEF MarkInv, MarkUnseen
<1> QED
  BY <1>1, EmptyHolderIsInOrder

LEMMA LastOpen ==
    ASSUME TypeOK, Sound(holder), Open(holder) # <<>>
    PROVE  At(Last(Open(holder)))
<1>1. Open(holder) \in Seq(SampleType)
  BY OpenTyped
<1>2. Len(Open(holder)) \in 1 .. Len(Open(holder))
  BY <1>1, LenProperties, EmptySeq
<1>3. Last(Open(holder)) \in SampleType
  BY <1>1, <1>2, ElementOfSeq DEF Last
<1> QED
  BY <1>3, SamplesAt

(* What a lost sample leaves in order.                                     *)
LEMMA BuffersWeaken ==
    ASSUME BufferInv, Complete(grabbed.nodes, grabbed.session, Intact), Intact' => Intact,
           UNCHANGED <<holder, session, grabbed>>
    PROVE  /\ Partial(Open(holder), session, Intact)' /\ Available(holder, session, Intact)'
           /\ Complete(grabbed.nodes, grabbed.session, Intact)'
<1>1. Intact \in BOOLEAN /\ Intact' \in BOOLEAN
  BY DEF Intact
<1>2. Partial(Open(holder), session, Intact') /\ Complete(grabbed.nodes, grabbed.session, Intact')
  BY <1>1, Weakens DEF BufferInv
<1>3. Available(holder, session, Intact')
  BY <1>1, Weakens DEF BufferInv, Available
<1>4. /\ Open(holder)' = Open(holder)
      /\ Available(holder, session, Intact)' <=> Available(holder, session, Intact')
  BY DEF Open, operationBuffer, Available, Complete, InOrder, Before
<1>5. /\ Partial(Open(holder), session, Intact)' <=> Partial(Open(holder), session, Intact')
      /\ Complete(grabbed.nodes, grabbed.session, Intact)'
           <=> Complete(grabbed.nodes, grabbed.session, Intact')
  BY <1>4 DEF Partial, Complete, InOrder, Before
<1> QED
  BY <1>2, <1>3, <1>4, <1>5

LEMMA ScanOnLine ==
    ASSUME Inv, MarkInv, MarkInv', ScanInv, Obey \/ Stream \/ Lose
    PROVE  ScanInv'
<1>1. UNCHANGED <<decoder, codec, unpacker, holder, session, grabbed>>
  BY DEF Obey, Stream, Lose, decoderVars, answerVars
<1>2. TypeOK /\ OneMark /\ OneMark' /\ Sound(holder)
  BY InvParts DEF MarkInv
<1>3. Marked' <=> Marked
  <2>1. CASE Lose
    <3>1. /\ rx # <<>> /\ rx' = Tail(rx) /\ UNCHANGED <<device, tx, session>>
          /\ Head(rx).kind # "header"
      BY <2>1 DEF Lose
    <3> QED
      BY <1>2, <3>1, TakenLine
  <2> QED
    BY <1>2, <2>1, ObeyLine, StreamLine
<1>4. Live' <=> Live
  BY <1>1, <1>3 DEF Live
<1>5. Intact' => Intact
  BY DEF Obey, Stream, Lose, Intact, TypeOK, Inv
<1>6. /\ Partial(Open(holder), session, Intact)' /\ Available(holder, session, Intact)'
      /\ Complete(grabbed.nodes, grabbed.session, Intact)'
  BY <1>1, <1>5, BuffersWeaken DEF ScanInv
<1>7. Open(holder)' = Open(holder)
  BY <1>1 DEF Open, operationBuffer
<1>8. decoder'.pc = "push" =>
         /\ decoder'.msg.session = session'
         /\ Open(holder)' # <<>> => Leads(Last(Open(holder)), decoder.msg, Intact)'
  BY <1>1, <1>5, <1>7 DEF ScanInv, BufferInv, Leads, Last
<1>9. ASSUME Live
      PROVE  /\ Commanded' /\ Streamed' /\ Decoded'
             /\ Open(holder) # <<>> => Leads(Last(Open(holder)), Behind, Intact)'
  <2>1. Commanded /\ Streamed /\ Decoded
    BY <1>9 DEF ScanInv, LiveInv
  <2>2. Marked => decoder.msg.kind # "sample" /\ Open(holder) = <<>>
    BY OpenIsUnmarked DEF MarkInv, MarkUnseen
  <2>3. CASE Obey
    <3>1. tx # <<>> /\ tx' = Tail(tx) /\ Holds(tx, Scan) /\ tx[Len(tx)] = "SCAN" /\ Marked
      BY <2>1, <2>3 DEF Obey, Commanded, Marked
    <3>2. /\ tx \in Seq(Commands) /\ Len(tx) \in Nat \ {0} /\ Len(tx') = Len(tx) - 1
          /\ \A i \in 1 .. Len(tx') : tx'[i] = tx[i + 1]
          /\ Head(tx) = tx[1] /\ tx' \in Seq(Commands)
      BY <1>2, <3>1, LineTyped, HeadTailProperties, LenProperties, EmptySeq
    <3>3. Len(tx) \in Where(tx, Scan)
      BY <3>1, <3>2 DEF Where, Scan
    <3>4. Holds(tx, Scan) <=> Head(tx) \in Scan \/ Holds(tx', Scan)
      BY <1>2, <3>1, TailTx
    <3>5. CASE Len(tx) = 1
      <4>1. Head(tx) = "SCAN" /\ tx' = <<>>
        BY <3>1, <3>2, <3>5, EmptySeq
      <4>2. ~Holds(tx', Scan)
        BY <4>1, CountsEmpty
      <4>3. Commanded'
        BY <4>1, <4>2 DEF Commanded, Holds
      <4>4. rx' = Append(rx, [kind |-> "header"])
        BY <2>3, <4>1 DEF Obey
      <4>5. /\ rx \in Seq(PacketType) /\ Len(rx) \in Nat /\ [kind |-> "header"] \in PacketType
            /\ [kind |-> "header"] \in Header
        BY <1>2, LineTyped, LenProperties, Kinds DEF Header
      <4>6. Len(rx') = Len(rx) + 1 /\ Len(rx) + 1 \in Where(rx', Header)
        BY <4>4, <4>5, WhereAppend, AppendProperties
      <4>7. Zone' = {}
        BY <4>5, <4>6 DEF Zone
      <4> QED
        BY <1>1, <2>2, <3>1, <4>3, <4>7 DEF Streamed, Decoded
    <3>6. CASE Len(tx) # 1
      <4>1. Len(tx') \in 1 .. Len(tx') /\ tx'[Len(tx')] = "SCAN"
        BY <3>1, <3>2, <3>6
      <4>2. tx' # <<>> /\ Len(tx') \in Where(tx', Scan)
        <5>1. Len(<<>>) = 0
          OBVIOUS
        <5>2. tx' # <<>>
          BY <4>1, <5>1
        <5> QED
          BY <4>1, <5>2 DEF Where, Scan
      <4>3. Holds(tx', Scan)
        BY <4>2 DEF Holds
      <4>4. Commanded'
        BY <4>1, <4>2, <4>3 DEF Commanded, Holds
      <4>5. Zone' = {}
        <5>1. device'.session = session - 1 /\ session \in Nat /\ session' = session
          BY <1>1, <1>2, <4>3 DEF OneMark, TypeOK, Holds
        <5>2. session - 1 # session
          BY <5>1
        <5>3. device'.session # session'
          BY <5>1, <5>2
        <5> QED
          BY <5>3 DEF Zone
      <4> QED
        BY <1>1, <2>2, <3>1, <4>4, <4>5 DEF Streamed, Decoded
    <3> QED
      BY <3>5, <3>6
  <2>4. CASE Stream
    <3>1. tx' = tx /\ lost' = lost
      BY <2>4 DEF Stream
    <3>2. /\ Streamed'
          /\ \A a : Leads(a, First, Intact) => Leads(a, First, Intact)'
      BY <1>2, <2>1, <2>4, StreamedOn
    <3>3. Intact' = Intact
      BY <3>1 DEF Intact
    <3>4. Commanded'
      BY <2>1, <3>1 DEF Commanded, Holds
    <3>5. Decoded'
      BY <1>1, <2>1, <3>2 DEF Decoded
    <3>6. ASSUME Open(holder) # <<>> PROVE Leads(Last(Open(holder)), Behind, Intact)'
      <4>1. Leads(Last(Open(holder)), Behind, Intact)
        BY <1>9, <3>6 DEF ScanInv, BufferInv
      <4>2. Last(Open(holder))' = Last(Open(holder))
        BY <1>7 DEF Last
      <4> HIDE DEF Last
      <4>3. CASE decoder.msg.kind = "sample"
        BY <1>1, <3>3, <4>1, <4>2, <4>3 DEF Behind, Leads
      <4>4. CASE decoder.msg.kind # "sample"
        BY <1>1, <3>2, <4>1, <4>2, <4>4 DEF Behind
      <4> QED
        BY <4>3, <4>4
    <3> QED
      BY <3>2, <3>4, <3>5, <3>6
  <2>5. CASE Lose
    <3>1. /\ rx # <<>> /\ rx' = Tail(rx) /\ UNCHANGED <<device, tx, session>> /\ ~Intact'
      BY <1>2, <2>5 DEF Lose, Intact, TypeOK
    <3>2. Streamed'
      BY <1>2, <1>5, <2>1, <3>1, TakenStream
    <3>3. Commanded'
      BY <2>1, <3>1 DEF Commanded, Holds
    <3>4. First' = Following(1) /\ First = rx[1] /\ 1 \in 1 .. Len(rx)
      BY <1>2, <3>1, TakenZone
    <3>5. ASSUME ~Marked, NEW a, At(a), Leads(a, First, Intact)
          PROVE  Leads(a, First', Intact')
      <4>1. 1 \in Zone
        BY <1>2, <3>4, <3>5, ZoneAll
      <4>2. Before(rx[1], Following(1)) /\ At(rx[1]) /\ At(Following(1))
        BY <1>2, <2>1, <4>1, AtFollowing DEF Streamed, Leads
      <4>3. Before(a, Following(1))
        BY <3>4, <3>5, <4>2, BeforeTransitive DEF Leads
      <4> QED
        BY <3>1, <3>4, <4>3 DEF Leads
    <3>6. Decoded'
      <4>1. ASSUME decoder.msg.kind = "sample"
            PROVE  Leads(decoder.msg, First', Intact')
        BY <2>1, <2>2, <3>5, <4>1, SamplesAt DEF Decoded
      <4> QED
        BY <1>1, <2>1, <4>1 DEF Decoded, Leads
    <3>7. ASSUME Open(holder) # <<>> PROVE Leads(Last(Open(holder)), Behind, Intact)'
      <4>1. Leads(Last(Open(holder)), Behind, Intact) /\ At(Last(Open(holder)))
        BY <1>2, <1>9, <3>7, LastOpen DEF ScanInv, BufferInv
      <4>2. Last(Open(holder))' = Last(Open(holder))
        BY <1>7 DEF Last
      <4> HIDE DEF Last
      <4>3. CASE decoder.msg.kind = "sample"
        BY <1>1, <1>5, <4>1, <4>2, <4>3 DEF Behind, Leads
      <4>4. CASE decoder.msg.kind # "sample"
        <5>1. Leads(Last(Open(holder)), First', Intact')
          BY <2>2, <3>5, <3>7, <4>1, <4>4 DEF Behind
        <5>2. Behind' = First'
          BY <1>1, <4>4 DEF Behind
        <5> QED
          BY <4>2, <5>1, <5>2 DEF Leads
      <4> QED
        BY <4>3, <4>4
    <3> QED
      BY <3>2, <3>3, <3>6, <3>7
  <2> QED
    BY <2>3, <2>4, <2>5
<1> QED
  BY <1>4, <1>6, <1>7, <1>8, <1>9 DEF ScanInv, LiveInv, BufferInv

(* The decoder takes a packet.                                             *)
LEMMA ScanInDecode ==
    ASSUME Inv, MarkInv, MarkInv', ScanInv, onDecodeData
    PROVE  ScanInv'
<1>1. /\ UNCHANGED <<device, tx, unpacker, holder, session, grabbed, lost>>
      /\ rx # <<>> /\ rx' = Tail(rx) /\ decoder.pc = "idle" /\ decoder.msg = None
  BY DEF onDecodeData, answerVars, MarkInv, Switches
<1>2. TypeOK /\ OneMark /\ OneMark' /\ Sound(holder) /\ None.kind = "none"
  BY InvParts DEF MarkInv, None
<1>3. /\ Head(rx).kind = "header" => Marked /\ ~Marked'
      /\ Head(rx).kind # "header" => (Marked' <=> Marked)
  BY <1>1, <1>2, TakenLine
<1>4. \/ /\ codec = "loop" /\ Head(rx).kind = "sample" /\ codec' = "loop"
         /\ decoder' = [pc |-> "decoded", msg |-> Head(rx)]
      \/ /\ codec = "sync" /\ Head(rx).kind = "answer" /\ codec' = "sync"
         /\ decoder' = [pc |-> "decoded", msg |-> Head(rx)]
      \/ /\ codec = "sync" /\ Head(rx).kind = "header" /\ codec' = "loop" /\ decoder' = decoder
      \/ /\ Head(rx).kind # "header" \/ codec # "sync"
         /\ ~(codec = "loop" /\ Head(rx).kind = "sample")
         /\ codec' = codec /\ decoder' = decoder
  BY DEF onDecodeData
<1>5. Live' => Live
  BY <1>1, <1>3, <1>4 DEF Live
<1>6. Intact' = Intact /\ Open(holder)' = Open(holder) /\ decoder'.pc # "push"
  BY <1>1, <1>4 DEF Intact, Open, operationBuffer
<1>7. /\ Partial(Open(holder), session, Intact)' /\ Available(holder, session, Intact)'
      /\ Complete(grabbed.nodes, grabbed.session, Intact)'
  BY <1>1, <1>6, BuffersWeaken DEF ScanInv
<1>8. First' = Following(1) /\ First = rx[1] /\ 1 \in 1 .. Len(rx) /\ Head(rx) = rx[1]
  BY <1>1, <1>2, TakenZone
<1>9. ASSUME Live
      PROVE  /\ Commanded' /\ Streamed' /\ Decoded'
             /\ Open(holder) # <<>> => Leads(Last(Open(holder)), Behind, Intact)'
  <2>1. Commanded /\ Streamed /\ Decoded
    BY <1>9 DEF ScanInv, LiveInv
  <2>2. Commanded'
    BY <1>1, <2>1 DEF Commanded, Holds
  <2>3. Streamed'
    BY <1>1, <1>2, <1>6, <2>1, TakenStream
  <2>4. codec = "loop" => ~Marked
    BY DEF MarkInv, MarkUnseen
  <2>5. ASSUME ~Marked
        PROVE  /\ rx[1] \in SampleType /\ rx[1].session = session
               /\ Leads(rx[1], Following(1), Intact) /\ rx[1].kind = "sample"
    <3>1. 1 \in Zone
      BY <1>2, <1>8, <2>5, ZoneAll
    <3> QED
      BY <2>1, <3>1, Kinds DEF Streamed
  <2>6. Decoded'
    <3>1. CASE codec = "loop"
      <4>1. decoder' = [pc |-> "decoded", msg |-> rx[1]]
        BY <1>4, <1>8, <2>4, <2>5, <3>1
      <4> QED
        BY <1>1, <1>6, <1>8, <2>4, <2>5, <3>1, <4>1 DEF Decoded, Leads
    <3>2. CASE codec # "loop"
      <4>1. decoder'.msg.kind # "sample"
        BY <1>1, <1>2, <1>4, <3>2
      <4> QED
        BY <4>1 DEF Decoded
    <3> QED
      BY <3>1, <3>2
  <2>7. ASSUME Open(holder) # <<>> PROVE Leads(Last(Open(holder)), Behind, Intact)'
    <3>1. ~Marked /\ codec = "loop"
      BY <1>9, <2>7, OpenIsUnmarked DEF Live
    <3>2. decoder' = [pc |-> "decoded", msg |-> rx[1]] /\ rx[1].kind = "sample"
      BY <1>4, <1>8, <2>5, <3>1
    <3>3. Behind' = rx[1]
      BY <3>2 DEF Behind
    <3>4. Behind = rx[1]
      BY <1>1, <1>2, <1>8 DEF Behind
    <3>5. Leads(Last(Open(holder)), rx[1], Intact)
      BY <1>9, <2>7, <3>4 DEF ScanInv, BufferInv
    <3> QED
      BY <1>6, <3>3, <3>5 DEF Leads, Last
  <2> QED
    BY <2>2, <2>3, <2>6, <2>7
<1> QED
  BY <1>5, <1>6, <1>7, <1>9 DEF ScanInv, LiveInv, BufferInv

(* The decoder handles a sample or an answer.                              *)
LEMMA ScanInHandlers ==
    ASSUME Inv, MarkInv, ScanInv, onSampleData \/ onData \/ Compare \/ StoreAnswer
    PROVE  ScanInv'
<1>1. /\ UNCHANGED <<device, tx, rx, codec, holder, session, grabbed, lost>>
      /\ unpacker'.enabled = unpacker.enabled
  BY DEF Inv, TypeOK, onSampleData, onData, Compare, StoreAnswer, Unpack, lineVars, answerVars
<1>2. TypeOK /\ Handled /\ None.kind = "none"
  BY DEF Inv, None
<1>3. /\ Marked' = Marked /\ Live' = Live /\ Intact' = Intact /\ First' = First
      /\ Commanded' = Commanded /\ Streamed' = Streamed /\ Open(holder)' = Open(holder)
  BY <1>1 DEF Marked, Live, Intact, First, Commanded, Streamed, Zone, Following, Leads, Holds,
              Open, operationBuffer
<1>4. /\ Partial(Open(holder), session, Intact)' /\ Available(holder, session, Intact)'
      /\ Complete(grabbed.nodes, grabbed.session, Intact)'
  BY <1>1, <1>3, BuffersWeaken DEF ScanInv
<1>6. Live => Commanded /\ Streamed /\ Decoded
  BY DEF ScanInv, LiveInv
<1>7. Open(holder) # <<>> /\ Live => Leads(Last(Open(holder)), Behind, Intact)
  BY DEF ScanInv, BufferInv
<1>8. Last(Open(holder))' = Last(Open(holder))
  BY <1>3 DEF Last
<1>9. /\ Live => Decoded' /\ (decoder'.msg.kind = "sample" => decoder'.msg = decoder.msg)
                 /\ (decoder.msg.kind = "sample" => decoder'.msg = decoder.msg)
      /\ decoder'.pc = "push" => /\ Live /\ decoder'.msg = decoder.msg
                                 /\ decoder.msg.kind = "sample"
  <2>1. CASE onSampleData
    <3>1. decoder'.msg = decoder.msg /\ decoder'.pc \in {"selected", "other"}
          /\ (Live /\ decoder.msg.kind = "sample" => decoder'.pc = "selected" /\ unpacker'.selected)
      BY <1>2, <2>1 DEF onSampleData, Live, TypeOK
    <3> QED
      BY <1>1, <1>3, <1>6, <3>1 DEF Decoded, Leads
  <2>2. CASE onData
    <3>1. /\ decoder'.msg = decoder.msg /\ decoder.msg \in SampleType /\ decoder.msg.kind = "sample"
          /\ decoder.pc = "selected"
          /\ decoder'.pc = IF unpacker.selected THEN "push" ELSE "other"
      BY <1>2, <2>2, Kinds DEF onData, Handled, TypeOK
    <3>2. unpacker.selected => Live
      <4>1. ~Drained
        BY <3>1 DEF MarkInv, Quiet
      <4>2. ~Armed
        BY <4>1, PassedFacts DEF Armed, Drained
      <4> QED
        BY <4>2 DEF MarkInv, Switches, Live
    <3> QED
      BY <1>1, <1>3, <1>6, <3>1, <3>2 DEF Decoded, Leads
  <2>3. CASE Compare
    <3>1. /\ decoder.pc = "other"
          /\ \/ decoder'.msg = decoder.msg /\ decoder'.pc = "answer" /\ decoder.msg.kind = "answer"
             \/ decoder'.msg = None /\ decoder'.pc = "idle"
      BY <1>2, <2>3 DEF Compare, TypeOK
    <3>2. Live => decoder.msg.kind # "sample"
      BY <1>6, <3>1 DEF Decoded
    <3> QED
      BY <1>2, <3>1, <3>2 DEF Decoded
  <2>4. CASE StoreAnswer
    <3>1. /\ decoder.msg.kind = "answer" /\ decoder'.msg = None /\ decoder'.pc = "idle"
      BY <1>2, <2>4, Kinds DEF StoreAnswer, Handled
    <3> QED
      BY <1>2, <3>1 DEF Decoded
  <2> QED
    BY <2>1, <2>2, <2>3, <2>4
<1>10. ASSUME Live PROVE Behind' = Behind
  BY <1>3, <1>9, <1>10 DEF Behind
<1>11. Open(holder)' # <<>> /\ Live' => Leads(Last(Open(holder)), Behind, Intact)'
  BY <1>3, <1>7, <1>8, <1>10 DEF Leads
<1>12. decoder'.pc = "push" =>
         /\ decoder'.msg.session = session'
         /\ Open(holder)' # <<>> => Leads(Last(Open(holder)), decoder.msg, Intact)'
  <2>1. ASSUME decoder'.pc = "push"
        PROVE  /\ decoder'.msg.session = session'
               /\ Open(holder) # <<>> => Leads(Last(Open(holder)), decoder'.msg, Intact)
    <3>1. Live /\ decoder'.msg = decoder.msg /\ Behind = decoder.msg /\ Decoded
          /\ decoder.msg.kind = "sample"
      BY <1>6, <1>9, <2>1 DEF Behind
    <3> QED
      BY <1>1, <1>7, <3>1 DEF Decoded
  <2> QED
    BY <1>3, <1>8, <2>1 DEF Leads
<1> QED
  BY <1>3, <1>4, <1>6, <1>9, <1>11, <1>12 DEF ScanInv, LiveInv, BufferInv

(* The decoder stores a sample.                                            *)
LEMMA ScanInPush ==
    ASSUME Inv, MarkInv, ScanInv, onHQNodeDecoded
    PROVE  ScanInv'
<1>1. /\ UNCHANGED <<device, tx, rx, codec, unpacker, session, grabbed, lost>>
      /\ decoder.pc = "push" /\ decoder' = [pc |-> "idle", msg |-> None]
      /\ holder' = pushScanNodeData(holder, decoder.msg)
  BY DEF onHQNodeDecoded, Unpack, lineVars
<1>2. /\ TypeOK /\ Sound(holder) /\ decoder.msg \in SampleType /\ None.kind = "none"
      /\ decoder.msg.kind = "sample" /\ Intact \in BOOLEAN
  BY <1>1, InvParts, Kinds DEF Handled, None, Intact
<1>3. /\ Live' = Live /\ Intact' = Intact /\ First' = First
      /\ Commanded' = Commanded /\ Streamed' = Streamed
  BY <1>1 DEF Marked, Live, Intact, First, Commanded, Streamed, Zone, Following, Leads, Holds
<1>4. /\ Partial(Open(holder), session, Intact) /\ Available(holder, session, Intact)
      /\ decoder.msg.session = session
      /\ Open(holder) # <<>> => Leads(Open(holder)[Len(Open(holder))], decoder.msg, Intact)
      /\ Complete(grabbed.nodes, grabbed.session, Intact)
  BY <1>1 DEF ScanInv, BufferInv, Last
<1> DEFINE g == pushScanNodeData(holder, decoder.msg)
<1>5. /\ Partial(Open(g), session, Intact) /\ Available(g, session, Intact)
      /\ Open(g) # <<>> => Open(g)[Len(Open(g))] = decoder.msg
  BY <1>2, <1>4, PushInOrder
<1> HIDE DEF g
<1>6. holder' = g
  BY <1>1 DEF g
<1>7. Open(holder)' = Open(g) /\ (Available(holder, session, Intact)' <=> Available(g, session, Intact))
  BY <1>1, <1>3, <1>6 DEF Open, operationBuffer, Available, Complete, InOrder, Before
<1>8. Live => Leads(decoder.msg, First, Intact) /\ Commanded /\ Streamed
  BY <1>2 DEF ScanInv, LiveInv, Decoded
<1>9. Behind' = First /\ Decoded'
  BY <1>1, <1>2, <1>3 DEF Behind, Decoded
<1>10. Open(holder)' # <<>> => Last(Open(holder))' = decoder.msg
  BY <1>5, <1>7 DEF Last
<1>11. /\ Partial(Open(holder), session, Intact)' <=> Partial(Open(g), session, Intact)
       /\ Complete(grabbed.nodes, grabbed.session, Intact)'
            <=> Complete(grabbed.nodes, grabbed.session, Intact)
  BY <1>1, <1>3, <1>7 DEF Partial, Complete, InOrder, Before
<1>12. Open(holder)' # <<>> /\ Live' => Leads(Last(Open(holder)), Behind, Intact)'
  BY <1>3, <1>8, <1>9, <1>10 DEF Leads
<1> QED
  BY <1>1, <1>3, <1>4, <1>5, <1>7, <1>8, <1>9, <1>11, <1>12 DEF ScanInv, LiveInv, BufferInv

(* Steps of the client: the line, the decoder and the buffers are as they  *)
(* were, unless the stream ends or the buffers are emptied.                *)
LEMMA ScanKept ==
    ASSUME Inv, MarkInv, ScanInv, UNCHANGED <<device, decoder, session, lost>>,
           \/ ~Live'
           \/ UNCHANGED <<tx, rx, codec, unpacker>>,
           holder' = EmptyHolder \/ (holder'.buf = holder.buf /\ holder'.available = holder.available),
           Complete(grabbed'.nodes, grabbed'.session, Intact)
    PROVE  ScanInv'
<1>1. Intact' = Intact
  BY DEF Intact
<1>2. \/ ~Live'
      \/ /\ Live' = Live /\ First' = First /\ Commanded' = Commanded /\ Streamed' = Streamed
         /\ Decoded' = Decoded /\ Behind' = Behind
  BY <1>1 DEF Marked, Live, Intact, First, Commanded, Streamed, Decoded, Behind, Zone, Following,
              Leads, Holds
<1>3. Complete(grabbed.nodes, grabbed.session, Intact)'
  BY <1>1 DEF Complete, InOrder, Before
<1>4. LiveInv'
  BY <1>2 DEF ScanInv, LiveInv
<1>5. CASE holder' = EmptyHolder
  <2>1. Open(holder') = <<>> /\ Available(holder', session, Intact)
    BY <1>5, EmptyHolderIsInOrder
  <2>2. Open(holder)' = <<>> /\ Available(holder, session, Intact)'
    BY <1>1, <2>1 DEF Open, operationBuffer, Available, Complete, InOrder, Before
  <2>3. Partial(Open(holder), session, Intact)'
    BY <2>2 DEF Partial
  <2>4. decoder'.pc = "push" => decoder'.msg.session = session'
    BY DEF ScanInv, BufferInv
  <2> QED
    BY <1>3, <1>4, <2>2, <2>3, <2>4 DEF ScanInv, BufferInv
<1>6. CASE holder'.buf = holder.buf /\ holder'.available = holder.available
  <2>1. /\ Open(holder)' = Open(holder)
        /\ Available(holder, session, Intact)' <=> Available(holder, session, Intact)
    BY <1>1, <1>6 DEF Open, operationBuffer, Available, Complete, InOrder, Before
  <2>2. Partial(Open(holder), session, Intact)' <=> Partial(Open(holder), session, Intact)
    BY <1>1, <2>1 DEF Partial, InOrder, Before
  <2>3. Last(Open(holder))' = Last(Open(holder))
    BY <2>1 DEF Last
  <2>4. Open(holder)' # <<>> /\ Live' => Leads(Last(Open(holder)), Behind, Intact)'
    BY <1>1, <1>2, <2>1, <2>3 DEF ScanInv, BufferInv, Leads
  <2>5. decoder'.pc = "push" =>
          /\ decoder'.msg.session = session'
          /\ Open(holder)' # <<>> => Leads(Last(Open(holder)), decoder.msg, Intact)'
    BY <1>1, <2>1, <2>3 DEF ScanInv, BufferInv, Leads
  <2> QED
    BY <1>3, <1>4, <2>1, <2>2, <2>4, <2>5 DEF ScanInv, BufferInv
<1> QED
  BY <1>5, <1>6

(* The scan is started: the stream of the new session is still to come.    *)
LEMMA ScanInScan ==
    ASSUME Inv, MarkInv, ScanInv, sendCommandWithoutResponse, Current.cmd = "SCAN"
    PROVE  ScanInv'
<1>1. /\ Goes("send") /\ client' = Onward
      /\ UNCHANGED <<device, rx, decoder, holder, grabbed, lost>>
      /\ tx' = Append(tx, "SCAN") /\ session' = session + 1
  BY DEF sendCommandWithoutResponse
<1>2. TypeOK /\ OneMark /\ "SCAN" \in Commands
  BY Kinds DEF Inv, MarkInv
<1>3. ~Marked /\ decoder.msg.kind # "sample" /\ holder = EmptyHolder
  BY <1>1, <1>2, ScanMoves DEF MarkInv, Quiet
<1>4. decoder.pc # "push"
  BY <1>3, Kinds DEF Inv, Handled
<1>5. /\ tx' # <<>> /\ tx'[Len(tx')] = "SCAN" /\ Holds(tx', Scan)
  <2>1. tx \in Seq(Commands) /\ Len(tx) \in Nat
    BY <1>2, LineTyped, LenProperties
  <2>2. Len(tx') = Len(tx) + 1 /\ tx'[Len(tx) + 1] = "SCAN"
    BY <1>1, <1>2, <2>1, AppendProperties
  <2>3. Len(tx) + 1 \in Where(tx', Scan)
    BY <2>1, <2>2 DEF Where, Scan
  <2>4. tx' # <<>>
    <3>1. tx' = <<>> => Len(tx') = 0
      OBVIOUS
    <3> QED
      BY <2>1, <2>2, <3>1
  <2> QED
    BY <2>2, <2>3, <2>4 DEF Holds
<1>6. Commanded'
  BY <1>5 DEF Commanded, Holds
<1>7. Zone' = {}
  <2>1. device'.session = session /\ session \in Nat
    BY <1>1, <1>2, <1>3, ZoneAll DEF TypeOK
  <2>2. session # session + 1
    BY <2>1
  <2> QED
    BY <1>1, <2>1, <2>2 DEF Zone
<1>8. LiveInv'
  BY <1>1, <1>3, <1>6, <1>7 DEF LiveInv, Streamed, Decoded
<1>9. Open(holder') = <<>> /\ Available(holder', session', Intact)
  BY <1>1, <1>3, EmptyHolderIsInOrder
<1>10. Intact' = Intact
  BY <1>1 DEF Intact
<1>11. Open(holder)' = <<>> /\ Available(holder, session, Intact)'
  BY <1>9, <1>10 DEF Open, operationBuffer, Available, Complete, InOrder, Before
<1>12. Partial(Open(holder), session, Intact)'
  BY <1>11 DEF Partial
<1>13. Complete(grabbed.nodes, grabbed.session, Intact)'
  BY <1>1, <1>10 DEF ScanInv, Complete, InOrder, Before
<1> QED
  BY <1>1, <1>4, <1>8, <1>11, <1>12, <1>13 DEF ScanInv, BufferInv

LEMMA ScanInCall ==
    ASSUME Inv, MarkInv, MarkInv', ScanInv, Call,
           ~(sendCommandWithoutResponse /\ Current.cmd = "SCAN")
    PROVE  ScanInv'
<1>1. UNCHANGED <<device, decoder, rx, lost, grabbed>>
  BY DEF Call, Disable, sendCommandWithoutResponse, sendCommandWithResponse, Answered,
         AnswerTimeout, reset, enable, Return, lineVars, decoderVars, answerVars, Idle
<1>2. session' = session
  BY DEF Call, Disable, sendCommandWithoutResponse, sendCommandWithResponse, Answered,
         AnswerTimeout, reset, enable, Return, lineVars, decoderVars, answerVars, Idle
<1>3. holder' = EmptyHolder \/ holder' = holder
  BY DEF Call, Disable, sendCommandWithoutResponse, sendCommandWithResponse, Answered,
         AnswerTimeout, reset, enable, Return, lineVars, decoderVars, answerVars, Idle
<1>4. ~Live' \/ UNCHANGED <<tx, rx, codec, unpacker>>
  <2>1. CASE enable
    <3>1. Drained'
      BY <2>1, ResetMoves DEF enable, Inv
    <3> QED
      BY <3>1 DEF MarkInv, Quiet, Live
  <2>2. CASE disableDataGrabbing
    BY <2>2 DEF disableDataGrabbing, Live
  <2> QED
    BY <2>1, <2>2 DEF Call, Disable, sendCommandWithoutResponse, sendCommandWithResponse,
         Answered, AnswerTimeout, reset, Return, lineVars, decoderVars, Idle
<1> QED
  BY <1>1, <1>2, <1>3, <1>4, ScanKept DEF ScanInv

LEMMA ScanInLoop ==
    ASSUME Inv, MarkInv, ScanInv, WorkLoop
    PROVE  ScanInv'
<1>1. UNCHANGED <<device, decoder, session, lost>>
  BY DEF WorkLoop, GrabReady, GrabTimeout, waitAndLockAvailableScan, spin_some, start_motor,
         stop_motor, need_exit, disconnect, Idle, lineVars, decoderVars
<1>2. holder'.buf = holder.buf /\ holder'.available = holder.available
  BY DEF WorkLoop, GrabReady, GrabTimeout, waitAndLockAvailableScan, spin_some, start_motor,
         stop_motor, need_exit, disconnect, Inv, TypeOK
<1>3. ~Live' \/ UNCHANGED <<tx, rx, codec, unpacker>>
  <2>1. CASE disconnect
    BY <2>1 DEF disconnect, disableDataGrabbing, Live
  <2> QED
    BY <2>1 DEF WorkLoop, GrabReady, GrabTimeout, waitAndLockAvailableScan, spin_some,
         start_motor, stop_motor, need_exit, Idle, lineVars, decoderVars
<1>4. Complete(grabbed'.nodes, grabbed'.session, Intact)
  <2>1. CASE waitAndLockAvailableScan
    <3>1. /\ holder.available >= 0
          /\ grabbed' = [nodes |-> holder.buf[holder.available], session |-> session]
      BY <2>1 DEF waitAndLockAvailableScan, Inv, Signalled
    <3> QED
      BY <3>1 DEF ScanInv, BufferInv, Available
  <2>2. CASE start_motor
    BY <2>2, EmptyIsInOrder DEF start_motor
  <2>3. CASE grabbed' = grabbed
    BY <2>3 DEF ScanInv
  <2> QED
    BY <2>1, <2>2, <2>3 DEF WorkLoop, GrabReady, GrabTimeout, spin_some, stop_motor, need_exit,
                            disconnect
<1> QED
  BY <1>1, <1>2, <1>3, <1>4, ScanKept

LEMMA ScanStep ==
    ASSUME Inv, MarkInv, MarkInv', ScanInv, [Next]_vars
    PROVE  ScanInv'
<1>1. CASE UNCHANGED vars
  BY <1>1, ScanKept DEF vars, ScanInv
<1>2. CASE Next
  BY <1>2, ScanOnLine, ScanInDecode, ScanInHandlers, ScanInPush, ScanInScan, ScanInCall,
     ScanInLoop DEF Next, Decoder, Client
<1> QED
  BY <1>1, <1>2

(* When start() has the last answer it insists on, nothing of an earlier   *)
(* scan is left: no header is on the line, the decoder is outside its loop *)
(* mode and handles no sample; and when it enables the samples, the        *)
(* buffers are empty (sl_lidar_driver.cpp, startScanNormal).               *)
THEOREM ScanStartsDrained ==
    ASSUME FewTimeouts
    PROVE  Spec => []Quiet
<1>1. Init => MarkInv
  BY MarkInit
<1>2. Inv /\ MarkInv /\ [Next]_vars => MarkInv'
  BY MarkStep
<1>3. MarkInv => Quiet
  BY DEF MarkInv
<1> QED
  BY Invariance, <1>1, <1>2, <1>3, PTL DEF Spec

(* A scan the node publishes is of the scan it started last, in order, and *)
(* one whole revolution while no sample is lost (RevolutionOfThisStart),   *)
(* whatever stops, starts and timeouts came before, as long as fewer       *)
(* answers come too late than a start insists on.                          *)
THEOREM PublishedScanIsWhole ==
    ASSUME FewTimeouts
    PROVE  Spec => []RevolutionOfThisStart
<1>1. Init => MarkInv /\ ScanInv
  BY MarkInit, ScanInit
<1>2. Inv /\ MarkInv /\ ScanInv /\ [Next]_vars => MarkInv' /\ ScanInv'
  BY MarkStep, ScanStep
<1>3. Inv /\ ScanInv => RevolutionOfThisStart
  BY RevolutionIsComplete DEF Inv, ScanInv, Intact
<1> QED
  BY Invariance, <1>1, <1>2, <1>3, PTL DEF Spec
=============================================================================
