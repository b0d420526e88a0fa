--------------------------- MODULE Nrf24SwitchProofs ---------------------------
(***************************************************************************)
(* Switching between listening and transmitting in the interrupt-driven     *)
(* build, on working buses: a reader has the radio listening, no packet is  *)
(* taken for an acknowledgement and, with the work queue ahead of the       *)
(* application, every write is answered before its time-out.  The transmit  *)
(* FIFO holds nothing that no write answers for.                            *)
(***************************************************************************)
EXTENDS Nrf24VerdictProofs, FiniteSetTheorems

(* Registers and flag along the paths of nrf24l01_start_listening and        *)
(* nrf24l01_stop_listening: is_listening trails PRIM_RX on both.             *)
PathInv ==
  /\ "PWR_UP" \in config
  /\ enRxaddr = Pipes
  /\ pc \in ListenLabels \cup {"receive"} => isListening
  /\ pc \in SendLabels \cup {"stop_power", "stop_clear"} => ~isListening
  /\ ~isListening \/ pc = "stop_flag" => "PRIM_RX" \notin config
  /\ isListening /\ pc \in {"idle", "receive", "listen_ce", "listen_width", "listen_power"}
       => "PRIM_RX" \in config

(* Radio, interrupt and work queue stay out of these paths ...               *)
LEMMA Bystanders ==
  ASSUME Radio \/ IrqCallbackHandler \/ Work
  PROVE  UNCHANGED <<modeVars, config, enRxaddr, rxPw0>>
<1>1. CASE Radio
  BY <1>1 DEF Radio, ChipStep, ChipReceive, ChipTxStart, ChipTxDone, ChipTxFail
<1>2. CASE IrqCallbackHandler
  BY <1>2 DEF IrqCallbackHandler, chipVars
<1>3. CASE WorkStart \/ WorkFifo \/ WorkRead \/ WorkReadClear \/ WorkPut
  BY <1>3 DEF WorkStart, WorkFifo, WorkRead, WorkReadClear, WorkPut, At, chipVars
<1>4. CASE WorkCeLow \/ WorkFlush \/ WorkGive \/ WorkClear \/ WorkRearm
  BY <1>4 DEF WorkCeLow, WorkFlush, WorkGive, WorkClear, WorkRearm, At, chipVars
<1> QED
  BY <1>1, <1>2, <1>3, <1>4 DEF Work

(* ... and the caller's other steps end a call without touching a register.  *)
LEMMA Verdicts ==
  ASSUME ReadGet \/ ReadTimeout \/ WriteTake \/ WriteReturn \/ WriteTimeout
  PROVE  /\ UNCHANGED <<status, config, enRxaddr, rxPw0, isListening>>
         /\ \/ pc = "receive" /\ pc' = "idle" /\ ce' = ce
            \/ pc \in {"verdict", "ret"} /\ pc' \in {"ret", "idle"}
<1>1. CASE ReadGet \/ ReadTimeout
  BY <1>1 DEF ReadGet, ReadTimeout, chipVars
<1>2. CASE WriteTake \/ WriteReturn \/ WriteTimeout
  BY <1>2 DEF WriteTake, WriteReturn, WriteTimeout, Goto, Return, chipVars
<1> QED
  BY <1>1, <1>2

(* Each step of the two paths keeps registers and flag in step.              *)
LEMMA PathStep ==
  ASSUME ~SpiFaults, TypeOK, PathInv, [Next]_vars
  PROVE  PathInv'
<1> USE DEF PathInv, ListenLabels, SendLabels
<1>1. config \subseteq ConfigBits
  BY DEF TypeOK, ChipTypeOK
<1>2. CASE Radio \/ IrqCallbackHandler \/ Work \/ UNCHANGED vars
  <2>1. UNCHANGED <<pc, isListening, config, enRxaddr>>
    BY <1>2, Bystanders DEF vars, modeVars, chipVars
  <2> QED
    BY <2>1
<1>3. CASE CallRead \/ CallWrite \/ StopFlag
  BY <1>3 DEF CallRead, CallWrite, StopFlag, chipVars
<1>4. CASE ListenPrimRx
  <2>1. config' \in SetRegisterBit(config, "PRIM_RX", TRUE)
    BY <1>4 DEF ListenPrimRx
  <2>2. config' = config \cup {"PRIM_RX"}
    BY <2>1, BitWritten
  <2> QED
    BY <1>4, <2>2 DEF ListenPrimRx, Goto
<1>5. CASE StopPrimRx
  <2>1. config' \in SetRegisterBit(config, "PRIM_RX", FALSE)
    BY <1>5 DEF StopPrimRx
  <2>2. config' = config \ {"PRIM_RX"}
    BY <2>1, BitWritten
  <2>3. enRxaddr' \in SetRegisterBit(enRxaddr, 0, TRUE)
    BY <1>5 DEF StopPrimRx
  <2>4. enRxaddr' = enRxaddr \cup {0}
    BY <2>3, BitWritten
  <2>5. enRxaddr' = Pipes
    BY <2>4 DEF Pipes
  <2> QED
    BY <1>5, <2>2, <2>5 DEF StopPrimRx, Goto
<1>6. CASE ListenPower \/ StopPower
  <2>1. PowerUp
    BY <1>6 DEF ListenPower, StopPower
  <2>2. config' = config \cup {"PWR_UP"}
    BY <1>1, <2>1, PoweredUp
  <2>3. "PWR_UP" \in config' /\ ("PRIM_RX" \in config' <=> "PRIM_RX" \in config)
    BY <2>2
  <2> QED
    BY <1>6, <2>3 DEF ListenPower, StopPower, Goto
<1>7. CASE ListenCe \/ ListenWidth \/ StopCe \/ StopClear \/ WritePayload \/ PulseHigh \/ PulseLow
  <2>1. UNCHANGED <<isListening, config, enRxaddr>>
    BY <1>7 DEF ListenCe, ListenWidth, StopCe, StopClear, WritePayload, PulseHigh, PulseLow, Goto
  <2>2. \/ pc = "listen_ce" /\ pc' = "listen_width"
        \/ pc = "listen_width" /\ pc' = "listen_power"
        \/ pc = "stop_ce" /\ pc' = "stop_prim"
        \/ pc = "stop_clear" /\ pc' = "payload"
        \/ pc \in SendLabels /\ pc' \in SendLabels
    BY <1>7 DEF ListenCe, ListenWidth, StopCe, StopClear, WritePayload, PulseHigh, PulseLow, Goto
  <2> QED
    BY <2>1, <2>2
<1>8. CASE ReadGet \/ ReadTimeout \/ WriteTake \/ WriteReturn \/ WriteTimeout
  BY <1>8, Verdicts
<1> QED
  BY <1>2, <1>3, <1>4, <1>5, <1>6, <1>7, <1>8 DEF Next, App, AppStep, ModeStep

(* On a working bus the paths keep in step for ever.                         *)
LEMMA PathCorrect == ~SpiFaults => (Spec => []PathInv)
<1> SUFFICES ASSUME ~SpiFaults
             PROVE  Spec => []PathInv
  OBVIOUS
<1>1. Init => PathInv
  <2> SUFFICES ASSUME Init
               PROVE  PathInv
    OBVIOUS
  <2>1. config = {"PWR_UP"} /\ enRxaddr = Pipes /\ pc = "idle" /\ ~isListening
    BY DEF Init, ChipInit, ModeInit
  <2> QED
    BY <2>1 DEF PathInv, ListenLabels, SendLabels
<1>2. TypeOK /\ PathInv /\ [Next]_vars => PathInv'
  BY PathStep
<1> QED
  BY <1>1, <1>2, TypeCorrect, PTL DEF Spec

-----------------------------------------------------------------------------
(* No packet is taken for an acknowledgement                                 *)

(* Out of listening mode RX_DR is raised only between is_listening falling   *)
(* and the flags being cleared, and then nobody is there to look at it.      *)
FlagSeen ==
  WorkOutranksApp =>
    /\ ~isListening /\ "RX_DR" \in status => pc \in {"stop_power", "stop_clear"} /\ Quiet
    /\ hpc = "fifo" => isListening

(* With PRIM_RX down the radio hears nothing more; an RX_DR that was raised  *)
(* before keeps the IRQ pin active, so that no edge calls the handler.       *)
LEMMA FlagStep ==
  ASSUME ~SpiFaults, WorkOutranksApp, PathInv, FlagSeen, [Next]_vars
  PROVE  FlagSeen'
<1> USE DEF FlagSeen, Quiet
<1>1. CASE Radio
  <2>1. UNCHANGED <<pc, isListening, queued, hpc>>
    BY <1>1 DEF Radio, modeVars, workVars
  <2>2. ~isListening => ("RX_DR" \in status' <=> "RX_DR" \in status)
    BY <1>1 DEF Radio, ChipStep, ChipReceive, ChipTxStart, ChipTxDone, ChipTxFail, Listening,
                ConfigBits, PathInv
  <2>3. status # {} /\ ~edge => ~edge'
    BY <1>1, Zenon DEF Radio, DetectEdge
  <2> QED
    BY <2>1, <2>2, <2>3
<1>2. CASE IrqCallbackHandler
  BY <1>2 DEF IrqCallbackHandler, chipVars, modeVars, workVars
<1>3. CASE WorkStart
  <2>1. hpc' = "fifo" => "RX_DR" \in status
    BY <1>3 DEF WorkStart, ReadRegister
  <2>2. UNCHANGED <<status, pc, isListening>> /\ queued
    BY <1>3 DEF WorkStart, chipVars, modeVars
  <2> QED
    BY <2>1, <2>2
<1>4. CASE Work /\ ~WorkStart
  <2>1. hpc # "idle" /\ hpc' # "fifo" /\ status' \in {status, {}}
    BY <1>4 DEF Work, WorkFifo, WorkRead, WorkReadClear, WorkPut, WorkCeLow, WorkFlush, WorkGive,
                WorkClear, WorkRearm, At, ClearIrq, Transceive, chipVars
  <2>2. UNCHANGED <<pc, isListening>>
    BY <1>4, Bystanders DEF modeVars
  <2> QED
    BY <2>1, <2>2
<1>5. CASE App /\ ModeStep /\ UNCHANGED <<irqVars, workVars, syncVars>>
  <2>1. Quiet /\ Quiet' /\ hpc = "idle" /\ hpc' = "idle"
    BY <1>5 DEF App, irqVars, workVars
  <2>2. CASE CallRead \/ CallWrite \/ StopFlag
    BY <2>1, <2>2 DEF CallRead, CallWrite, StopFlag, chipVars
  <2>3. CASE ListenPrimRx \/ ListenCe \/ ListenWidth \/ ListenPower \/ StopCe \/ StopPrimRx
    BY <2>1, <2>3 DEF ListenPrimRx, ListenCe, ListenWidth, ListenPower, StopCe, StopPrimRx, Goto
  <2>4. CASE StopPower \/ WritePayload \/ PulseHigh \/ PulseLow
    BY <2>1, <2>4 DEF StopPower, WritePayload, PulseHigh, PulseLow, Goto
  <2>5. CASE StopClear
    BY <2>1, <2>5 DEF StopClear, ClearIrq, Transceive, Goto
  <2> QED
    BY <1>5, <2>2, <2>3, <2>4, <2>5 DEF ModeStep
<1>6. CASE ReadGet \/ ReadTimeout \/ WriteTake \/ WriteReturn \/ WriteTimeout
  <2>1. UNCHANGED <<hpc, status, isListening>> /\ pc \notin {"stop_power", "stop_clear"}
    BY <1>6, Verdicts DEF ReadGet, ReadTimeout, WriteTake, WriteReturn, WriteTimeout, workVars
  <2> QED
    BY <2>1
<1>7. CASE UNCHANGED vars
  BY <1>7 DEF vars, chipVars, modeVars, irqVars, workVars
<1> QED
  BY <1>1, <1>2, <1>3, <1>4, <1>5, <1>6, <1>7 DEF Next, App, AppStep

(* As long as the application never runs in the middle of it.                *)
LEMMA FlagCorrect == ~SpiFaults /\ WorkOutranksApp => (Spec => []FlagSeen)
<1> SUFFICES ASSUME ~SpiFaults, WorkOutranksApp
             PROVE  Spec => []FlagSeen
  OBVIOUS
<1>1. Init => FlagSeen
  BY DEF Init, ChipInit, FlagSeen
<1>2. PathInv /\ FlagSeen /\ [Next]_vars => FlagSeen'
  BY FlagStep
<1> QED
  BY <1>1, <1>2, PathCorrect, PTL DEF Spec

(* With the work queue ahead of the application, the handler looks into the  *)
(* receive FIFO only while the driver listens: it never takes a packet's     *)
(* flag for an acknowledgement, even when GPIO calls fail.                   *)
THEOREM AckIsNoPacket == ~SpiFaults => (Spec => []NoPacketTakenForAck)
<1> SUFFICES ASSUME ~SpiFaults
             PROVE  Spec => []NoPacketTakenForAck
  OBVIOUS
<1>1. CASE WorkOutranksApp
  <2>1. FlagSeen => NoPacketTakenForAck
    BY DEF FlagSeen, NoPacketTakenForAck
  <2> QED
    BY <1>1, <2>1, FlagCorrect, PTL
<1>2. CASE ~WorkOutranksApp
  <2>1. NoPacketTakenForAck
    BY <1>2 DEF NoPacketTakenForAck
  <2> QED
    BY <2>1, PTL
<1> QED
  BY <1>1, <1>2

-----------------------------------------------------------------------------
(* A reader has the radio listening                                          *)

(* The handler has just served a write that was given up: its verdict is on  *)
(* its way to the semaphore or in it.                                        *)
LateServed == TimedOut # {} /\ (sem = 1 \/ hpc \in {"tx_give", "rt_flush", "rt_give"})

(* CE and the width of pipe 0 on the way into listening mode.                *)
ListenInv ==
  isListening =>
    /\ pc \in {"idle", "receive", "listen_width", "listen_power"} => ce \/ LateServed
    /\ pc \in {"idle", "receive", "listen_power"} => rxPw0 = "payload"

(* The handler lowers CE only for the write in progress, or for one given    *)
(* up, and then stores its verdict next.                                     *)
LEMMA ListenWork ==
  ASSUME ~SpiFaults, VerdictInv, ListenInv, Radio \/ IrqCallbackHandler \/ Work
  PROVE  ListenInv'
<1>1. UNCHANGED <<pc, isListening, results, rxPw0, TimedOut>>
  BY Bystanders DEF modeVars, TimedOut
<1>2. CASE Radio \/ IrqCallbackHandler
  <2>1. UNCHANGED <<ce, hpc, sem>>
    BY <1>2 DEF Radio, ChipStep, ChipReceive, ChipTxStart, ChipTxDone, ChipTxFail,
                IrqCallbackHandler, chipVars, workVars, syncVars
  <2> QED
    BY <1>1, <2>1 DEF ListenInv, LateServed
<1>3. CASE WorkCeLow
  <2>1. \/ hpc = "tx_ce" /\ hpc' = "tx_give"
        \/ hpc = "rt_ce" /\ hpc' = "rt_flush"
    BY <1>3 DEF WorkCeLow, At
  <2>2. pc \in {"idle", "receive", "listen_width", "listen_power"} => TimedOut # {}
    <3>1. pc \in {"idle", "receive", "listen_width", "listen_power"} => ~Clean
      BY <2>1 DEF VerdictInv, PhaseInv, Settled, InFlight, TxWork, RtWork
    <3> QED
      BY <3>1 DEF Clean, TimedOut
  <2> QED
    BY <1>1, <2>1, <2>2 DEF ListenInv, LateServed
<1>4. CASE Work /\ ~WorkCeLow
  <2>1. ce' = ce
    BY <1>4 DEF Work, WorkStart, WorkFifo, WorkRead, WorkReadClear, WorkPut, WorkFlush, WorkGive,
                WorkClear, WorkRearm, chipVars
  <2>2. \/ sem' = 1
        \/ sem' = sem /\ hpc \notin {"tx_give", "rt_give"} /\ (hpc = "rt_flush" => hpc' = "rt_give")
    BY <1>4, WorkKinds
  <2> QED
    BY <1>1, <2>1, <2>2 DEF ListenInv, LateServed
<1> QED
  BY <1>2, <1>3, <1>4

(* On working buses no other step takes CE or the width away from a reader.  *)
LEMMA ListenStep ==
  ASSUME ~SpiFaults, ~GpioFaults, TypeOK, VerdictInv, PathInv, ListenInv, [Next]_vars
  PROVE  ListenInv'
<1> USE DEF ListenInv
<1>1. ASSUME UNCHANGED <<results, sem, hpc>>
      PROVE  LateServed' <=> LateServed
  BY <1>1 DEF LateServed, TimedOut
<1>2. CASE Radio \/ IrqCallbackHandler \/ Work
  BY <1>2, ListenWork
<1>3. CASE ModeStep /\ UNCHANGED <<irqVars, workVars, syncVars>>
  <2>1. LateServed' <=> LateServed
    BY <1>1, <1>3, ModeKinds DEF workVars, syncVars
  <2>2. CASE CallRead \/ CallWrite \/ StopFlag
    BY <2>1, <2>2 DEF CallRead, CallWrite, StopFlag, chipVars
  <2>3. CASE ListenPrimRx \/ ListenPower
    BY <2>1, <2>3 DEF ListenPrimRx, ListenPower, Goto
  <2>4. CASE ListenCe \/ ListenWidth
    BY <2>1, <2>4 DEF ListenCe, ListenWidth, ToggleCe, Transceive, Goto
  <2>5. CASE StopCe \/ StopPrimRx \/ StopPower \/ StopClear
    BY <2>5 DEF StopCe, StopPrimRx, StopPower, StopClear, Goto
  <2>6. CASE WritePayload \/ PulseHigh \/ PulseLow
    BY <2>6 DEF WritePayload, PulseHigh, PulseLow, Goto
  <2> QED
    BY <1>3, <2>2, <2>3, <2>4, <2>5, <2>6 DEF ModeStep
<1>4. CASE ReadGet \/ ReadTimeout
  <2>1. /\ UNCHANGED <<results, rxPw0, isListening, ce, sem, hpc>>
        /\ pc = "receive" /\ pc' = "idle"
    BY <1>4, Verdicts DEF ReadGet, ReadTimeout, workVars, syncVars
  <2> QED
    BY <1>1, <2>1
<1>5. CASE WriteTake \/ WriteReturn \/ WriteTimeout
  <2>1. ~isListening /\ isListening' = isListening
    BY <1>5, Verdicts DEF PathInv, SendLabels, WriteTake, WriteReturn, WriteTimeout, Goto
  <2> QED
    BY <2>1
<1>6. CASE UNCHANGED vars
  BY <1>1, <1>6 DEF vars, chipVars, modeVars, workVars, syncVars
<1> QED
  BY <1>2, <1>3, <1>4, <1>5, <1>6 DEF Next, App, AppStep

(* On working buses, a reader waiting for a packet has the radio powered up, *)
(* in receiver mode, with both pipes on and pipe 0 at full width; and CE is  *)
(* low only after the handler has served a write that was given up.          *)
THEOREM ReaderHasRadio == ~SpiFaults /\ ~GpioFaults => (Spec => []ReaderListens)
<1> SUFFICES ASSUME ~SpiFaults, ~GpioFaults
             PROVE  Spec => []ReaderListens
  OBVIOUS
<1>1. Init => ListenInv
  BY DEF Init, ModeInit, ListenInv
<1>2. TypeOK /\ VerdictInv /\ PathInv /\ ListenInv /\ [Next]_vars => ListenInv'
  BY ListenStep
<1>3. PathInv /\ ListenInv => ReaderListens
  BY DEF PathInv, ListenInv, LateServed, ReaderListens, ConfigBits
<1> QED
  BY <1>1, <1>2, <1>3, TypeCorrect, VerdictInvariant, PathCorrect, PTL DEF Spec

-----------------------------------------------------------------------------
(* No write times out                                                        *)

(* The work item is on its way to being run.                                 *)
Called == edge \/ queued

(* The places at which the answer to the write in progress is on its way: on *)
(* air or about to be, in a flag that was noticed, with the handler, in the  *)
(* semaphore.                                                                *)
OnItsWay ==
  /\ Quiet /\ status = {} /\ txFifo # <<>>
  /\ pc = "pulse_low" => ce
  /\ pc = "verdict" => onAir # 0
Unanswered == onAir = 0 /\ status = {"MAX_RT"} /\ (Called \/ hpc \in {"rt_ce", "rt_flush"})
Acknowledged == RadioEmpty /\ status = {"TX_DS"} /\ (Called \/ hpc \in TxWork)
Answered == sem = 1

Awaited == OnItsWay \/ Unanswered \/ hpc = "rt_give" \/ Acknowledged \/ Answered

(* With the work queue ahead of the application and a time-out longer than a *)
(* transmission no write has timed out, and none is about to.                *)
PromptInv == Clean /\ (pc \in InFlight => Awaited)

(* What the radio does moves the answer on: every flag it raises is noticed. *)
LEMMA AwaitedRadio ==
  ASSUME ~GpioFaults, TypeOK, IrqToken, VerdictInv, PathInv, PromptInv, Radio
  PROVE  PromptInv'
<1> SUFFICES ASSUME pc \in InFlight
             PROVE  Awaited'
  BY DEF PromptInv, Clean, Radio, modeVars
<1>1. UNCHANGED <<pc, armed, queued, hpc, sem>>
  BY DEF Radio, modeVars, workVars, syncVars
<1>2. "PRIM_RX" \notin config /\ ~ChipReceive
  BY DEF PathInv, SendLabels, InFlight, ChipReceive, Listening, ConfigBits
<1>3. CASE OnItsWay
  <2>1. txFifo = <<writes>> /\ onAir \in {0, writes} /\ armed /\ ~edge
    BY <1>3 DEF PromptInv, VerdictInv, PhaseInv, Unsent, Flushed, Emitted, Given, Settled, RadioEmpty,
                OnItsWay, Quiet, IrqToken
  <2>2. CASE ChipTxStart
    <3>1. UNCHANGED <<status, txFifo, ce>> /\ onAir' = writes /\ status = {}
      BY <1>3, <2>1, <2>2 DEF ChipTxStart, OnItsWay
    <3>2. writes # 0
      BY ModeAssumption DEF InFlight, SendLabels, TypeOK, ModeTypeOK, WriteIds, ModeAssumption
    <3>3. ~edge'
      BY <2>1, <3>1, Zenon DEF Radio, DetectEdge
    <3> QED
      BY <1>1, <1>3, <3>1, <3>2, <3>3 DEF OnItsWay, Awaited, Quiet
  <2>3. CASE ChipTxDone \/ ChipTxFail
    <3>1. status = {} /\ onAir # 0 /\ onAir' = 0 /\ status' # {}
      BY <1>3, <2>3 DEF ChipTxDone, ChipTxFail, OnItsWay
    <3>2. edge'
      BY <2>1, <3>1, Zenon DEF Radio, DetectEdge
    <3>3. CASE ChipTxDone
      <4>1. status' = {"TX_DS"} /\ txFifo' = <<>>
        BY <2>1, <3>1, <3>3 DEF ChipTxDone
      <4> QED
        BY <3>1, <3>2, <4>1 DEF Acknowledged, RadioEmpty, Called, Awaited
    <3>4. CASE ChipTxFail
      <4>1. status' = {"MAX_RT"}
        BY <3>1, <3>4 DEF ChipTxFail
      <4> QED
        BY <3>1, <3>2, <4>1 DEF Unanswered, Called, Awaited
    <3> QED
      BY <2>3, <3>3, <3>4
  <2> QED
    BY <1>2, <2>2, <2>3 DEF Radio, ChipStep
<1>4. CASE Unanswered \/ Acknowledged
  <2>1. ~ChipStep
    BY <1>2, <1>4 DEF ChipStep, ChipTxStart, CanTransmit, ChipTxDone, ChipTxFail, Unanswered,
                      Acknowledged, RadioEmpty
  <2> QED
    BY <2>1 DEF Radio
<1>5. CASE hpc = "rt_give" \/ Answered
  BY <1>1, <1>5 DEF Answered, Awaited
<1> QED
  BY <1>3, <1>4, <1>5 DEF PromptInv, Awaited

(* Interrupt and handler move the answer on from a flag to the semaphore.    *)
LEMMA AwaitedWork ==
  ASSUME ~SpiFaults, ~GpioFaults, TypeOK, IrqToken, VerdictInv, PromptInv, IrqCallbackHandler \/ Work
  PROVE  PromptInv'
<1>1. UNCHANGED <<pc, results, onAir>>
  BY WorkKinds DEF IrqCallbackHandler, chipVars, modeVars
<1> SUFFICES ASSUME pc \in InFlight
             PROVE  Awaited'
  BY <1>1 DEF PromptInv, Clean
<1>2. CASE IrqCallbackHandler
  <2>1. queued' /\ edge /\ UNCHANGED <<status, txFifo, onAir, hpc, sem>>
    BY <1>2 DEF IrqCallbackHandler, chipVars, workVars, syncVars
  <2>2. ~OnItsWay
    BY <2>1 DEF OnItsWay, Quiet
  <2> QED
    BY <2>1, <2>2 DEF PromptInv, Awaited, Unanswered, Acknowledged, RadioEmpty, Called, Answered
<1>3. CASE WorkStart
  <2>1. /\ hpc = "idle" /\ queued /\ UNCHANGED <<status, txFifo, onAir, sem>>
        /\ status = {"TX_DS"} => hpc' = "tx_ce"
        /\ status = {"MAX_RT"} => hpc' = "rt_ce"
    BY <1>3 DEF WorkStart, ReadRegister, chipVars, syncVars
  <2>2. ~OnItsWay
    BY <2>1 DEF OnItsWay, Quiet
  <2> QED
    BY <2>1, <2>2 DEF PromptInv, Awaited, Unanswered, Acknowledged, RadioEmpty, Answered, TxWork
<1>4. CASE Work /\ ~WorkStart
  <2>1. hpc # "idle" /\ ~Called /\ ~OnItsWay
    BY <1>4 DEF Work, WorkFifo, WorkRead, WorkReadClear, WorkPut, WorkCeLow, WorkFlush, WorkGive,
                WorkClear, WorkRearm, At, OnItsWay, Quiet, Called, IrqToken
  <2>2. CASE Answered
    <3>1. sem' = 1
      BY <1>4, <2>2, WorkKinds DEF Answered
    <3> QED
      BY <3>1 DEF Answered, Awaited
  <2>3. CASE Unanswered
    <3>1. hpc \in {"rt_ce", "rt_flush"}
      BY <2>1, <2>3 DEF Unanswered
    <3>2. \/ hpc' = "rt_flush" /\ UNCHANGED status
          \/ hpc' = "rt_give"
      BY <1>4, <3>1, WorkKinds
    <3> QED
      BY <1>1, <2>3, <3>2 DEF Unanswered, Awaited
  <2>4. CASE Acknowledged
    <3>1. hpc \in TxWork
      BY <2>1, <2>4 DEF Acknowledged
    <3>2. \/ hpc' = "tx_give" /\ UNCHANGED <<status, txFifo>>
          \/ sem' = 1
      BY <1>4, <3>1, WorkKinds DEF TxWork
    <3> QED
      BY <1>1, <2>4, <3>2 DEF Acknowledged, RadioEmpty, TxWork, Answered, Awaited
  <2>5. CASE hpc = "rt_give"
    <3>1. sem' = 1
      BY <1>4, <2>5, WorkKinds
    <3> QED
      BY <3>1 DEF Answered, Awaited
  <2> QED
    BY <2>1, <2>2, <2>3, <2>4, <2>5 DEF PromptInv, Awaited
<1> QED
  BY <1>2, <1>3, <1>4

(* A payload is handed over with every flag down, and CE stays high long     *)
(* enough for the radio to take it.                                          *)
LEMMA AwaitedApp ==
  ASSUME ~SpiFaults, ~GpioFaults, WorkOutranksApp, TypeOK, VerdictInv, PathInv, FlagSeen,
         PromptInv, App
  PROVE  PromptInv'
<1>1. Quiet /\ AppStep
  BY DEF App
<1>2. CASE ModeStep /\ UNCHANGED <<irqVars, workVars, syncVars>>
  <2>1. UNCHANGED <<results, onAir>> /\ Quiet' /\ sem' = sem
    BY <1>1, <1>2, ModeKinds DEF Quiet, irqVars, workVars, syncVars
  <2> SUFFICES ASSUME pc' \in InFlight
               PROVE  Awaited'
    BY <2>1 DEF PromptInv, Clean
  <2>2. CASE WritePayload
    <3>1. pc = "payload" /\ pc' = "pulse_high" /\ status' = status
      BY <2>2 DEF WritePayload, Goto
    <3>2. txFifo = <<>> /\ TxFlags = {}
      BY <1>1, <3>1 DEF PromptInv, VerdictInv, PhaseInv, Settled, RadioEmpty, InFlight, Quiet
    <3>3. "RX_DR" \notin status
      BY <3>1 DEF FlagSeen, PathInv, SendLabels
    <3>4. status' = {}
      BY <3>1, <3>2, <3>3 DEF TxFlags, TypeOK, ChipTypeOK, Flags
    <3>5. txFifo' # <<>>
      BY <2>2, <3>2, ChipAssumption DEF WritePayload, Transceive, ChipAssumption
    <3> QED
      BY <2>1, <3>1, <3>4, <3>5 DEF OnItsWay, Awaited
  <2>3. CASE PulseHigh \/ PulseLow
    <3>1. UNCHANGED <<status, txFifo, config>> /\ pc \in InFlight
      BY <2>3 DEF PulseHigh, PulseLow, Goto, InFlight
    <3>2. OnItsWay \/ Answered
      BY <1>1, <3>1 DEF PromptInv, Awaited, Unanswered, Acknowledged, Called, TxWork, Quiet
    <3>3. CASE OnItsWay /\ PulseHigh
      <4>1. pc' = "pulse_low" /\ ce'
        BY <3>3 DEF PulseHigh, Goto, ToggleCe
      <4> QED
        BY <2>1, <3>1, <3>3, <4>1 DEF OnItsWay, Awaited
    <3>4. CASE OnItsWay /\ PulseLow
      <4>1. pc = "pulse_low" /\ pc' = "verdict" /\ ~CanTransmit
        BY <3>4 DEF PulseLow, Goto
      <4>2. onAir # 0
        BY <3>4, <4>1 DEF OnItsWay, CanTransmit, PathInv, SendLabels
      <4> QED
        BY <2>1, <3>1, <3>4, <4>1, <4>2 DEF OnItsWay, Awaited
    <3>5. CASE Answered
      BY <2>1, <3>5 DEF Answered, Awaited
    <3> QED
      BY <2>3, <3>2, <3>3, <3>4, <3>5
  <2>4. WritePayload \/ PulseHigh \/ PulseLow
    BY <1>2 DEF ModeStep, CallRead, ListenPrimRx, ListenCe, ListenWidth, ListenPower, CallWrite,
                StopCe, StopPrimRx, StopFlag, StopPower, StopClear, Goto, InFlight
  <2> QED
    BY <2>2, <2>3, <2>4
<1>3. CASE ReadGet \/ ReadTimeout \/ WriteTake
  BY <1>3 DEF ReadGet, ReadTimeout, WriteTake, Goto, PromptInv, Clean, InFlight
<1>4. CASE WriteReturn
  <2>1. /\ pc' = "idle" /\ results' = [results EXCEPT ![writes] = retCode]
        /\ results \in [WriteIds -> Results] /\ retCode # "etime"
    BY <1>4 DEF WriteReturn, Return, TypeOK, ModeTypeOK
  <2> QED
    BY <2>1 DEF PromptInv, Clean, InFlight
<1> QED
  BY <1>1, <1>2, <1>3, <1>4 DEF AppStep

(* On working buses, with the work queue ahead of the application and a      *)
(* time-out longer than a transmission, every write is answered in time: the *)
(* edge of its flag is never missed and its answer never lost on the way.    *)
THEOREM WritesAnswered == ~SpiFaults /\ ~GpioFaults => (Spec => []NoTimeout)
<1> SUFFICES ASSUME ~SpiFaults, ~GpioFaults
             PROVE  Spec => []NoTimeout
  OBVIOUS
<1>1. CASE WorkOutranksApp /\ PromptWork
  <2>1. Init => PromptInv
    BY DEF Init, ModeInit, PromptInv, Clean, InFlight
  <2>2. ASSUME TypeOK, IrqToken, VerdictInv, PathInv, FlagSeen, PromptInv, [Next]_vars
        PROVE  PromptInv'
    <3>1. CASE Radio
      BY <2>2, <3>1, AwaitedRadio
    <3>2. CASE IrqCallbackHandler \/ Work
      BY <2>2, <3>2, AwaitedWork
    <3>3. CASE App
      BY <1>1, <2>2, <3>3, AwaitedApp
    <3>4. CASE WriteTimeout
      <4>1. pc = "verdict" /\ sem = 0 /\ Quiet /\ onAir = 0
        BY <1>1, <3>4 DEF WriteTimeout
      <4>2. ~Awaited
        BY <4>1 DEF Awaited, OnItsWay, Unanswered, Acknowledged, Called, TxWork, Answered, Quiet
      <4> QED
        BY <2>2, <4>1, <4>2 DEF PromptInv, InFlight
    <3>5. CASE UNCHANGED vars
      BY <2>2, <3>5 DEF vars, chipVars, modeVars, irqVars, workVars, syncVars, PromptInv, Clean,
                        Awaited, OnItsWay, Unanswered, Acknowledged, RadioEmpty, Called, Answered, Quiet
    <3> QED
      BY <2>2, <3>1, <3>2, <3>3, <3>4, <3>5 DEF Next
  <2>3. TypeOK /\ IrqToken /\ VerdictInv /\ PathInv /\ FlagSeen /\ PromptInv /\ [Next]_vars
          => PromptInv'
    BY <2>2
  <2>4. PromptInv => NoTimeout
    BY DEF PromptInv, Clean, NoTimeout, TimedOut
  <2> QED
    BY <1>1, <2>1, <2>3, <2>4, TypeCorrect, OneServer, VerdictInvariant, PathCorrect, FlagCorrect,
       PTL DEF Spec
<1>2. CASE ~(WorkOutranksApp /\ PromptWork)
  <2>1. NoTimeout
    BY <1>2 DEF NoTimeout
  <2> QED
    BY <2>1, PTL
<1> QED
  BY <1>1, <1>2
-----------------------------------------------------------------------------
(* What is left in the transmit FIFO                                         *)

(* CE is high in transmitter mode only while a write pulses it.              *)
PulseInv ==
  /\ ce /\ "PRIM_RX" \notin config => pc = "pulse_low"
  /\ pc = "stop_prim" => ~ce

(* Besides the payloads in the FIFO an answer may be accounted for by: a     *)
(* payload on air that was flushed meanwhile, an answer the handler still    *)
(* will give, and a MAX_RT for a payload that is no longer in the FIFO.      *)
Orphan == IF onAir # 0 /\ ~(txFifo # <<>> /\ Head(txFifo) = onAir) THEN 1 ELSE 0

Due == IF \/ hpc \in TxWork \cup {"rt_give"}
          \/ "TX_DS" \in status /\ hpc \notin {"clear", "rt_ce", "rt_flush"}
       THEN 1 ELSE 0

Unmatched ==
  IF "MAX_RT" \in status /\ txFifo = <<>> /\ hpc \notin {"rt_give", "clear"} THEN 1 ELSE 0

InProgress == IF pc \in InFlight THEN 1 ELSE 0
GivenUp == Cardinality(TimedOut)

(* Each of these is paid for by a write in progress or given up; so is the   *)
(* answer the handler is about to give when it flushes the FIFO, which may   *)
(* orphan the payload on air.                                                *)
Ledger == Len(txFifo) + Orphan + Due + Unmatched + sem <= GivenUp + InProgress

FlushInv ==
  hpc \in {"rt_ce", "rt_flush"} =>
    /\ 1 + sem + (IF onAir = 0 THEN 0 ELSE 1) <= GivenUp + InProgress
    /\ "MAX_RT" \in status \/ 1 + sem <= GivenUp

LedgerInv == Ledger /\ FlushInv

(* The terms of the account are numbers.                                     *)
LEMMA LedgerNumbers ==
  ASSUME TypeOK
  PROVE  /\ Len(txFifo) \in Nat /\ Orphan \in {0, 1} /\ Due \in {0, 1} /\ Unmatched \in {0, 1}
         /\ sem \in {0, 1} /\ InProgress \in {0, 1} /\ GivenUp \in Nat
         /\ TimedOut \subseteq WriteIds /\ IsFiniteSet(TimedOut)
         /\ txFifo # <<>> => Len(txFifo) >= 1
<1>1. TimedOut \subseteq WriteIds /\ IsFiniteSet(WriteIds)
  BY FS_Interval, ModeAssumption DEF TimedOut, WriteIds, ModeAssumption
<1>2. IsFiniteSet(TimedOut)
  BY <1>1, FS_Subset
<1>3. GivenUp \in Nat
  BY <1>2, FS_CardinalityType DEF GivenUp
<1>4. Len(txFifo) \in Nat /\ (txFifo # <<>> => Len(txFifo) >= 1) /\ sem \in {0, 1}
  BY DEF TypeOK, ChipTypeOK
<1> QED
  BY <1>1, <1>2, <1>3, <1>4 DEF Orphan, Due, Unmatched, InProgress

(* So they are after a step.                                                 *)
LEMMA LedgerNext ==
  ASSUME TypeOK'
  PROVE  /\ Len(txFifo') \in Nat /\ (txFifo' # <<>> => Len(txFifo') >= 1)
         /\ Orphan' \in {0, 1} /\ Due' \in {0, 1} /\ Unmatched' \in {0, 1} /\ sem' \in {0, 1}
<1>1. Len(txFifo') \in Nat /\ (txFifo' # <<>> => Len(txFifo') >= 1) /\ sem' \in {0, 1}
  BY DEF TypeOK, ChipTypeOK
<1> QED
  BY <1>1 DEF Orphan, Due, Unmatched

(* Only a write that gives up changes the number of those that did.          *)
LEMMA GivenUpKept ==
  ASSUME UNCHANGED <<pc, results>>
  PROVE  GivenUp' = GivenUp /\ InProgress' = InProgress
<1>1. TimedOut' = TimedOut
  BY DEF TimedOut
<1> QED
  BY <1>1 DEF GivenUp, InProgress

(* The account depends on nothing else.                                      *)
LEMMA LedgerKept ==
  ASSUME LedgerInv, UNCHANGED <<status, txFifo, onAir, hpc, sem>>,
         GivenUp' = GivenUp, InProgress' = InProgress
  PROVE  LedgerInv'
  BY DEF LedgerInv, Ledger, FlushInv, Orphan, Due, Unmatched

(* A transmission that ends turns a payload or an orphan into a flag.        *)
LEMMA LedgerRadio ==
  ASSUME TypeOK, TypeOK', FlagInv, PathInv, PulseInv, LedgerInv, Radio
  PROVE  LedgerInv'
<1>1. UNCHANGED <<hpc, sem, pc, results>>
  BY DEF Radio, modeVars, workVars, syncVars
<1>2. GivenUp' = GivenUp /\ InProgress' = InProgress
  BY <1>1, GivenUpKept
<1>3. CASE ChipReceive
  <2>1. /\ UNCHANGED <<txFifo, onAir>>
        /\ ("TX_DS" \in status' <=> "TX_DS" \in status) /\ ("MAX_RT" \in status' <=> "MAX_RT" \in status)
    BY <1>3 DEF ChipReceive
  <2> QED
    BY <1>1, <1>2, <2>1 DEF LedgerInv, Ledger, FlushInv, Orphan, Due, Unmatched
<1>4. CASE ChipTxStart
  <2>1. /\ onAir = 0 /\ onAir' = Head(txFifo) /\ txFifo # <<>> /\ UNCHANGED <<status, txFifo>>
        /\ "MAX_RT" \notin status /\ pc = "pulse_low"
    BY <1>4 DEF ChipTxStart, CanTransmit, PulseInv
  <2>2. Orphan = 0 /\ Orphan' = 0 /\ Due' = Due /\ Unmatched' = Unmatched /\ InProgress = 1
    BY <1>1, <2>1 DEF Orphan, Due, Unmatched, InProgress, InFlight
  <2>3. Ledger'
    BY <1>1, <1>2, <2>1, <2>2 DEF LedgerInv, Ledger
  <2>4. FlushInv'
    BY <1>1, <1>2, <2>1, <2>2, LedgerNumbers DEF LedgerInv, FlushInv
  <2> QED
    BY <2>3, <2>4 DEF LedgerInv
<1>5. CASE ChipTxDone
  <2>1. /\ onAir # 0 /\ onAir' = 0 /\ "MAX_RT" \notin status
        /\ "MAX_RT" \notin status' /\ "TX_DS" \in status'
    BY <1>5 DEF ChipTxDone, FlagInv
  <2>2. Len(txFifo') + 1 = Len(txFifo) + Orphan
    <3>1. CASE txFifo # <<>> /\ Head(txFifo) = onAir
      <4>1. txFifo' = Tail(txFifo) /\ Orphan = 0
        BY <1>5, <3>1 DEF ChipTxDone, Orphan
      <4> QED
        BY <3>1, <4>1 DEF TypeOK, ChipTypeOK
    <3>2. CASE ~(txFifo # <<>> /\ Head(txFifo) = onAir)
      <4>1. txFifo' = txFifo
        BY <1>5, <3>2, Zenon DEF ChipTxDone
      <4>2. Orphan = 1
        BY <2>1, <3>2 DEF Orphan
      <4> QED
        BY <4>1, <4>2, LedgerNumbers
    <3> QED
      BY <3>1, <3>2
  <2>3. Orphan' = 0 /\ Unmatched' = 0 /\ Unmatched = 0 /\ Due' <= Due + 1
    BY <1>1, <2>1 DEF Orphan, Unmatched, Due
  <2>4. Ledger'
    BY <1>1, <1>2, <2>2, <2>3, LedgerNumbers, LedgerNext DEF LedgerInv, Ledger
  <2>5. FlushInv'
    BY <1>1, <1>2, <2>1, LedgerNumbers DEF LedgerInv, FlushInv
  <2> QED
    BY <2>4, <2>5 DEF LedgerInv
<1>6. CASE ChipTxFail
  <2>1. /\ onAir # 0 /\ onAir' = 0 /\ txFifo' = txFifo /\ "MAX_RT" \notin status
        /\ "MAX_RT" \in status' /\ ("TX_DS" \in status' <=> "TX_DS" \in status)
    BY <1>6 DEF ChipTxFail, FlagInv
  <2>2. Orphan' = 0 /\ Unmatched = 0 /\ Unmatched' <= Orphan /\ Due' = Due
    BY <1>1, <2>1 DEF Orphan, Unmatched, Due
  <2>3. Ledger'
    BY <1>1, <1>2, <2>1, <2>2, LedgerNumbers, LedgerNext DEF LedgerInv, Ledger
  <2>4. FlushInv'
    BY <1>1, <1>2, <2>1, LedgerNumbers DEF LedgerInv, FlushInv
  <2> QED
    BY <2>3, <2>4 DEF LedgerInv
<1> QED
  BY <1>3, <1>4, <1>5, <1>6 DEF Radio, ChipStep

(* The handler turns what is due into an answer, and a flush what was in the *)
(* FIFO into one answer at most and one orphan.                              *)
LEMMA LedgerWork ==
  ASSUME ~SpiFaults, TypeOK, TypeOK', FlagInv, LedgerInv, Work
  PROVE  LedgerInv'
<1>1. UNCHANGED <<pc, results, onAir>>
  BY WorkKinds DEF modeVars
<1>2. GivenUp' = GivenUp /\ InProgress' = InProgress
  BY <1>1, GivenUpKept
<1> USE DEF TxWork
<1>3. CASE hpc = "idle" /\ UNCHANGED <<status, txFifo, sem>>
  <2>1. \/ hpc' = "fifo"
        \/ hpc' = "tx_ce" /\ "TX_DS" \in status
        \/ hpc' = "rt_ce" /\ "MAX_RT" \in status /\ "TX_DS" \notin status
        \/ hpc' = "clear" /\ "TX_DS" \notin status /\ "MAX_RT" \notin status
    BY <1>3, WorkKinds DEF TxFlags
  <2>2. Orphan' = Orphan /\ Due' = Due /\ Unmatched' = Unmatched
    BY <1>1, <1>3, <2>1 DEF Orphan, Due, Unmatched
  <2>3. Ledger'
    BY <1>2, <1>3, <2>2 DEF LedgerInv, Ledger
  <2>4. CASE hpc' = "rt_ce"
    <3>1. "MAX_RT" \in status /\ onAir = 0 /\ Len(txFifo) + Unmatched >= 1
      BY <1>3, <2>1, <2>4, LedgerNumbers DEF FlagInv, Unmatched
    <3> QED
      BY <1>1, <1>2, <1>3, <2>3, <3>1, LedgerNumbers DEF LedgerInv, Ledger, FlushInv
  <2>5. CASE hpc' # "rt_ce"
    BY <2>1, <2>3, <2>5 DEF LedgerInv, FlushInv
  <2> QED
    BY <2>4, <2>5
<1>4. CASE hpc = "rt_flush"
  <2>1. hpc' = "rt_give" /\ txFifo' = <<>> /\ UNCHANGED <<status, sem>>
    BY <1>4, WorkKinds
  <2>2. /\ Len(txFifo') = 0 /\ Due' = 1 /\ Unmatched' = 0
        /\ Orphan' = IF onAir = 0 THEN 0 ELSE 1
    BY <1>1, <2>1 DEF Due, Unmatched, Orphan
  <2> QED
    BY <1>2, <1>4, <2>1, <2>2, LedgerNumbers DEF LedgerInv, Ledger, FlushInv
<1>5. CASE hpc \in {"tx_give", "rt_give"}
  <2>1. hpc' = "clear" /\ sem' = 1 /\ UNCHANGED <<status, txFifo>>
    BY <1>5, WorkKinds
  <2>2. Orphan' = Orphan /\ Due = 1 /\ Due' = 0 /\ Unmatched' = 0
    BY <1>1, <1>5, <2>1 DEF Orphan, Due, Unmatched
  <2> QED
    BY <1>2, <2>1, <2>2, LedgerNumbers DEF LedgerInv, Ledger, FlushInv
<1>6. CASE hpc \notin {"idle", "rt_flush", "tx_give", "rt_give"}
  <2>1. /\ UNCHANGED <<txFifo, sem>> /\ hpc' # "rt_give"
        /\ \/ hpc = "rt_ce" /\ hpc' = "rt_flush" /\ status' = status
           \/ hpc = "tx_ce" /\ hpc' = "tx_give" /\ status' = status
           \/ /\ hpc \notin {"rt_ce", "tx_ce"} /\ hpc' \notin {"rt_ce", "rt_flush"} \cup TxWork
              /\ status' = {} \/ (status' = status /\ hpc # "clear")
    BY <1>6, WorkKinds
  <2>2. Orphan' = Orphan /\ Due' <= Due /\ Unmatched' <= Unmatched
    BY <1>1, <1>6, <2>1 DEF Orphan, Due, Unmatched
  <2>3. Ledger'
    BY <1>2, <2>1, <2>2, LedgerNumbers, LedgerNext DEF LedgerInv, Ledger
  <2>4. FlushInv'
    BY <1>1, <1>2, <2>1 DEF LedgerInv, FlushInv
  <2> QED
    BY <2>3, <2>4 DEF LedgerInv
<1> QED
  <2>1. hpc = "idle" => UNCHANGED <<status, txFifo, sem>>
    BY WorkKinds
  <2> QED
    BY <1>3, <1>4, <1>5, <1>6, <2>1

(* A payload is appended behind those that wait.                             *)
LEMMA Appended ==
  ASSUME NEW S, NEW s \in Seq(S), NEW x \in S
  PROVE  /\ Len(Append(s, x)) = Len(s) + 1 /\ Append(s, x) # <<>>
         /\ s # <<>> => Head(Append(s, x)) = Head(s)
<1>1. Append(s, x) \in Seq(S) /\ Len(Append(s, x)) = Len(s) + 1
  OBVIOUS
<1>2. ASSUME s # <<>> PROVE Append(s, x)[1] = s[1]
  BY <1>2
<1> QED
  BY <1>1, <1>2

(* A new payload is paid for by its write.                                   *)
LEMMA LedgerMode ==
  ASSUME ~SpiFaults, TypeOK, TypeOK', HistoryInv, LedgerInv, ModeStep,
         UNCHANGED <<irqVars, workVars, syncVars>>
  PROVE  LedgerInv'
<1>1. UNCHANGED <<results, onAir, hpc, sem>>
  BY ModeKinds DEF workVars, syncVars
<1>2. GivenUp' = GivenUp
  BY <1>1 DEF GivenUp, TimedOut
<1>3. CASE /\ UNCHANGED txFifo /\ InProgress' = InProgress
           /\ \/ status' = status
              \/ status' = {} /\ InProgress = 0
  <2>1. Orphan' = Orphan /\ Due' <= Due /\ Unmatched' <= Unmatched
    BY <1>1, <1>3 DEF Orphan, Due, Unmatched
  <2>2. Ledger'
    BY <1>1, <1>2, <1>3, <2>1, LedgerNumbers, LedgerNext DEF LedgerInv, Ledger
  <2>3. FlushInv'
    BY <1>1, <1>2, <1>3, LedgerNumbers DEF LedgerInv, FlushInv
  <2> QED
    BY <2>2, <2>3 DEF LedgerInv
<1>4. CASE /\ pc = "payload" /\ pc' = "pulse_high" /\ UNCHANGED status
           /\ txFifo' = IF Len(txFifo) < FifoDepth THEN Append(txFifo, writes) ELSE txFifo
  <2>1. InProgress = 0 /\ InProgress' = 1
    BY <1>4 DEF InProgress, InFlight
  <2> DEFINE longer == Append(txFifo, writes)
  <2>2. txFifo \in Seq(WriteIds) /\ writes \in WriteIds
    BY <1>4 DEF TypeOK, ChipTypeOK, ModeTypeOK, SendLabels
  <2>3. /\ Len(longer) = Len(txFifo) + 1 /\ longer # <<>>
        /\ txFifo # <<>> => Head(longer) = Head(txFifo)
    BY <2>2, Appended
  <2>4. txFifo' = txFifo \/ txFifo' = longer
    BY <1>4
  <2> HIDE DEF longer
  <2>5. Len(txFifo') <= Len(txFifo) + 1 /\ (txFifo' = <<>> => txFifo = <<>>)
    BY <2>3, <2>4, LedgerNumbers
  <2>6. txFifo # <<>> => txFifo' # <<>> /\ Head(txFifo') = Head(txFifo)
    BY <2>3, <2>4
  <2>7. Orphan' <= Orphan
    BY <1>1, <2>6, LedgerNumbers, LedgerNext DEF Orphan
  <2>8. Due' = Due /\ Unmatched' <= Unmatched
    BY <1>1, <1>4, <2>5 DEF Due, Unmatched
  <2>9. Ledger'
    BY <1>1, <1>2, <2>1, <2>5, <2>7, <2>8, LedgerNumbers, LedgerNext DEF LedgerInv, Ledger
  <2>10. FlushInv'
    BY <1>1, <1>2, <1>4, <2>1, LedgerNumbers DEF LedgerInv, FlushInv
  <2> QED
    BY <2>9, <2>10 DEF LedgerInv
<1> QED
  BY <1>3, <1>4, ModeKinds DEF InProgress, InFlight, StopLabels

(* A write takes an answer or gives up: either settles what it stood for.    *)
LEMMA LedgerVerdict ==
  ASSUME TypeOK, TypeOK', HistoryInv, LedgerInv, WriteTake \/ WriteReturn \/ WriteTimeout
  PROVE  LedgerInv'
<1>1. UNCHANGED <<status, txFifo, onAir, hpc>>
  BY DEF WriteTake, WriteReturn, WriteTimeout, chipVars, workVars
<1>2. Orphan' = Orphan /\ Due' = Due /\ Unmatched' = Unmatched
  BY <1>1 DEF Orphan, Due, Unmatched
<1>3. CASE WriteTake
  <2>1. /\ pc = "verdict" /\ pc' = "ret" /\ sem = 1 /\ sem' = 0 /\ UNCHANGED results
    BY <1>3 DEF WriteTake, Goto
  <2>2. GivenUp' = GivenUp /\ InProgress = 1 /\ InProgress' = 0
    BY <2>1 DEF GivenUp, TimedOut, InProgress, InFlight
  <2> QED
    BY <1>1, <1>2, <2>1, <2>2, LedgerNumbers DEF LedgerInv, Ledger, FlushInv
<1>4. CASE WriteReturn
  <2>1. /\ pc = "ret" /\ pc' = "idle" /\ sem' = sem
        /\ results' = [results EXCEPT ![writes] = retCode]
    BY <1>4 DEF WriteReturn, Return, syncVars
  <2>2. /\ writes \in WriteIds /\ results \in [WriteIds -> Results]
        /\ results[writes] = "none" /\ retCode # "etime"
    BY <2>1 DEF HistoryInv, TypeOK, ModeTypeOK, SendLabels
  <2>3. TimedOut' = TimedOut
    BY <2>1, <2>2 DEF TimedOut
  <2>4. GivenUp' = GivenUp /\ InProgress' = InProgress
    BY <2>1, <2>3 DEF GivenUp, InProgress, InFlight
  <2> QED
    BY <1>1, <2>1, <2>4, LedgerKept
<1>5. CASE WriteTimeout
  <2>1. /\ pc = "verdict" /\ pc' = "idle" /\ sem' = sem
        /\ results' = [results EXCEPT ![writes] = "etime"]
    BY <1>5 DEF WriteTimeout, Return, syncVars
  <2>2. /\ writes \in WriteIds /\ results \in [WriteIds -> Results]
        /\ results[writes] = "none"
    BY <2>1 DEF HistoryInv, TypeOK, ModeTypeOK, SendLabels
  <2>3. TimedOut' = TimedOut \cup {writes} /\ writes \notin TimedOut
    BY <2>1, <2>2 DEF TimedOut
  <2>4. GivenUp' = GivenUp + 1
    BY <2>3, LedgerNumbers, FS_AddElement DEF GivenUp
  <2>5. InProgress = 1 /\ InProgress' = 0
    BY <2>1 DEF InProgress, InFlight
  <2> QED
    BY <1>1, <1>2, <2>1, <2>4, <2>5, LedgerNumbers DEF LedgerInv, Ledger, FlushInv
<1> QED
  BY <1>3, <1>4, <1>5

(* On a working GPIO CE is low once it was lowered.                          *)
LEMMA CeLowered == ASSUME ~GpioFaults, ToggleCe(FALSE) PROVE ~ce'
<1>1. ce' = FALSE
  BY DEF ToggleCe
<1> QED
  BY <1>1, Zenon

(* CE is raised in transmitter mode only for the pulse of a write.           *)
LEMMA PulseStep ==
  ASSUME ~SpiFaults, ~GpioFaults, TypeOK, PathInv, PulseInv, [Next]_vars
  PROVE  PulseInv'
<1>1. CASE Radio \/ IrqCallbackHandler \/ Work \/ UNCHANGED vars
  <2>1. UNCHANGED <<pc, config>>
    BY <1>1, Bystanders DEF vars, modeVars, chipVars
  <2>2. ce' = ce \/ ce' = FALSE
    BY <1>1 DEF Radio, ChipStep, ChipReceive, ChipTxStart, ChipTxDone, ChipTxFail,
                IrqCallbackHandler, Work, WorkStart, WorkFifo, WorkRead, WorkReadClear, WorkPut,
                WorkCeLow, ToggleCe, WorkFlush, WorkGive, WorkClear, WorkRearm, vars, chipVars
  <2> QED
    BY <2>1, <2>2 DEF PulseInv
<1>2. CASE CallRead \/ CallWrite \/ StopFlag
  BY <1>2 DEF CallRead, CallWrite, StopFlag, chipVars, PulseInv
<1>3. CASE ListenPrimRx
  <2>1. config' \in SetRegisterBit(config, "PRIM_RX", TRUE)
    BY <1>3 DEF ListenPrimRx
  <2>2. config' = config \cup {"PRIM_RX"}
    BY <2>1, BitWritten
  <2> QED
    BY <1>3, <2>2 DEF ListenPrimRx, Goto, PulseInv
<1>4. CASE ListenCe \/ ListenWidth
  BY <1>4 DEF ListenCe, ListenWidth, Goto, PathInv, PulseInv, ListenLabels
<1>5. CASE ListenPower \/ StopPower
  <2>1. config \subseteq ConfigBits /\ PowerUp
    BY <1>5 DEF TypeOK, ChipTypeOK, ListenPower, StopPower
  <2>2. config' = config \cup {"PWR_UP"}
    BY <2>1, PoweredUp
  <2>3. "PRIM_RX" \in config' <=> "PRIM_RX" \in config
    BY <2>2
  <2> QED
    BY <1>5, <2>3 DEF ListenPower, StopPower, Goto, PulseInv
<1>6. CASE StopCe \/ StopPrimRx \/ StopClear
  <2>1. CASE StopCe
    BY <2>1, CeLowered DEF StopCe, Goto, PulseInv
  <2>2. CASE StopPrimRx
    BY <2>2 DEF StopPrimRx, Goto, PulseInv
  <2>3. CASE StopClear
    BY <2>3 DEF StopClear, Goto, PulseInv
  <2> QED
    BY <1>6, <2>1, <2>2, <2>3
<1>7. CASE WritePayload \/ PulseHigh \/ PulseLow
  <2>1. CASE PulseLow
    <3>1. ~ce'
      BY <2>1, CeLowered DEF PulseLow
    <3> QED
      BY <3>1 DEF PulseInv
  <2>2. CASE WritePayload
    BY <2>2 DEF WritePayload, Goto, PulseInv
  <2>3. CASE PulseHigh
    BY <2>3 DEF PulseHigh, Goto, PulseInv
  <2> QED
    BY <1>7, <2>1, <2>2, <2>3
<1>8. CASE ReadGet \/ ReadTimeout \/ WriteTake \/ WriteReturn \/ WriteTimeout
  <2>1. CASE WriteTimeout
    <3>1. ~ce'
      BY <2>1, CeLowered DEF WriteTimeout
    <3> QED
      BY <3>1 DEF PulseInv
  <2>2. CASE ReadGet \/ ReadTimeout \/ WriteTake \/ WriteReturn
    BY <2>2 DEF ReadGet, ReadTimeout, WriteTake, WriteReturn, Goto, Return, chipVars, PulseInv
  <2> QED
    BY <1>8, <2>1, <2>2
<1> QED
  BY <1>1, <1>2, <1>3, <1>4, <1>5, <1>6, <1>7, <1>8 DEF Next, App, AppStep, ModeStep

(* Every step keeps the account balanced.                                    *)
LEMMA LedgerStep ==
  ASSUME ~SpiFaults, TypeOK, TypeOK', VerdictInv, PathInv, PulseInv, LedgerInv, [Next]_vars
  PROVE  LedgerInv'
<1>1. FlagInv /\ HistoryInv
  BY DEF VerdictInv
<1>2. CASE Radio
  BY <1>1, <1>2, LedgerRadio
<1>3. CASE Work
  BY <1>1, <1>3, LedgerWork
<1>4. CASE ModeStep /\ UNCHANGED <<irqVars, workVars, syncVars>>
  BY <1>1, <1>4, LedgerMode
<1>5. CASE WriteTake \/ WriteReturn \/ WriteTimeout
  BY <1>1, <1>5, LedgerVerdict
<1>6. CASE IrqCallbackHandler \/ UNCHANGED vars
  <2>1. UNCHANGED <<pc, results, status, txFifo, onAir, hpc, sem>>
    BY <1>6 DEF IrqCallbackHandler, vars, chipVars, modeVars, workVars, syncVars
  <2> QED
    BY <2>1, GivenUpKept, LedgerKept
<1>7. CASE ReadGet \/ ReadTimeout
  <2>1. UNCHANGED <<results, status, txFifo, onAir, hpc, sem>> /\ pc = "receive" /\ pc' = "idle"
    BY <1>7 DEF ReadGet, ReadTimeout, chipVars, workVars, syncVars
  <2>2. GivenUp' = GivenUp /\ InProgress' = InProgress
    BY <2>1 DEF GivenUp, TimedOut, InProgress, InFlight
  <2> QED
    BY <2>1, <2>2, LedgerKept
<1> QED
  BY <1>2, <1>3, <1>4, <1>5, <1>6, <1>7 DEF Next, App, AppStep

(* On working buses the transmit FIFO holds at most one payload for every    *)
(* write that was given up and one for the write in progress, for FIFOs of   *)
(* any depth: whatever late verdicts later writes take and whatever a flush  *)
(* does to a payload on air, nothing more is ever left behind.               *)
THEOREM FifoBounded == Spec => []TxFifoBound
<1>1. CASE SpiFaults \/ GpioFaults
  <2>1. TxFifoBound
    BY <1>1 DEF TxFifoBound
  <2> QED
    BY <2>1, PTL
<1>2. CASE ~SpiFaults /\ ~GpioFaults
  <2>1. Init => PulseInv /\ LedgerInv
    <3> SUFFICES ASSUME Init
                 PROVE  PulseInv /\ LedgerInv
      OBVIOUS
    <3>1. PulseInv /\ FlushInv
      BY DEF Init, ChipInit, ModeInit, PulseInv, FlushInv
    <3>2. Len(txFifo) = 0 /\ Orphan = 0 /\ Due = 0 /\ Unmatched = 0 /\ sem = 0
      BY DEF Init, ChipInit, Orphan, Due, Unmatched, TxWork
    <3>3. TimedOut = {} /\ InProgress = 0
      BY DEF Init, ModeInit, TimedOut, InProgress, InFlight
    <3>4. GivenUp = 0
      BY <3>3, FS_EmptySet DEF GivenUp
    <3> QED
      BY <3>1, <3>2, <3>3, <3>4 DEF LedgerInv, Ledger
  <2>2. TypeOK /\ TypeOK' /\ VerdictInv /\ PathInv /\ PulseInv /\ LedgerInv /\ [Next]_vars
          => PulseInv' /\ LedgerInv'
    BY <1>2, PulseStep, LedgerStep
  <2>3. TypeOK /\ LedgerInv => TxFifoBound
    BY LedgerNumbers DEF LedgerInv, Ledger, TxFifoBound, GivenUp, InProgress, InFlight
  <2> QED
    BY <1>2, <2>1, <2>2, <2>3, TypeCorrect, VerdictInvariant, PathCorrect, PTL DEF Spec
<1> QED
  BY <1>1, <1>2
=============================================================================
