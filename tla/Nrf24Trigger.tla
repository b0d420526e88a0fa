----------------------------- MODULE Nrf24Trigger -----------------------------
(***************************************************************************)
(* The nRF24L01 driver built with CONFIG_NRF24L01_TRIGGER: the application  *)
(* thread of Nrf24Mode, the GPIO interrupt handler, the handler it submits  *)
(* to the system work queue, and the radio of Nrf24Chip, all interleaved.   *)
(*                                                                          *)
(* The IRQ pin is active while a STATUS flag is raised.  The GPIO is set to *)
(* interrupt on the edge to active, so a flag raised while the pin already  *)
(* is active, or while the interrupt is disabled, interrupts nobody.        *)
(***************************************************************************)
EXTENDS Nrf24Mode, FiniteSets

CONSTANTS
  QueueLen,          \* SPI_MSG_QUEUE_LEN, the capacity of rx_queue (10)
  WorkOutranksApp,   \* TRUE: the work queue thread runs before the application
  PromptWork         \* TRUE: a write is answered before its time-out if at all

ASSUME TriggerAssumption ==
  /\ QueueLen \in Nat \ {0}
  /\ WorkOutranksApp \in BOOLEAN
  /\ PromptWork \in BOOLEAN

VARIABLES
  armed,      \* the GPIO edge interrupt is enabled
  edge,       \* an edge was detected and irq_callback_handler has not run yet
  queued,     \* trig_work is on the work queue
  hpc,        \* where work_queue_callback_handler is
  buffer,     \* the handler's packet buffer, 0 when it holds no packet
  rxQueue,    \* data->rx_queue
  sem,        \* data->sem, a semaphore of limit 1
  retCode     \* data->write_ret_code: "ok" for 0, "max_rt" for MAX_RT

irqVars == <<armed, edge, queued>>
workVars == <<hpc, buffer>>
syncVars == <<rxQueue, sem, retCode>>
vars == <<chipVars, modeVars, irqVars, workVars, syncVars>>

WorkLabels == {"idle", "fifo", "read", "read_clear", "put", "tx_ce", "tx_give",
               "rt_ce", "rt_flush", "rt_give", "clear", "rearm"}

(* Codes written into a packet buffer that hold no packet of the radio.      *)
NoPacket == 0

Init ==
  /\ ChipInit
  /\ ModeInit
  /\ armed = TRUE
  /\ edge = FALSE
  /\ queued = FALSE
  /\ hpc = "idle"
  /\ buffer = NoPacket
  /\ rxQueue = <<>>
  /\ sem = 0
  /\ retCode = "ok"

-----------------------------------------------------------------------------
(* The GPIO interrupt and its handler                                        *)

(* Part of every step that may raise a flag: an edge is latched when the pin *)
(* goes active while the interrupt is armed.                                 *)
DetectEdge == edge' = (edge \/ (armed /\ status = {} /\ status' # {}))

Radio ==
  /\ ChipStep
  /\ DetectEdge
  /\ UNCHANGED <<modeVars, armed, queued, workVars, syncVars>>

(* Mutated form: the interrupt stays enabled while its work is processed.    *)
KeepIrq == armed' = armed

DisableIrq == armed' \in {FALSE} \cup (IF GpioFaults THEN {armed} ELSE {})

(* A failed re-enable goes unnoticed: its result is stored in a uint8_t.     *)
EnableIrq == armed' \in {TRUE} \cup (IF GpioFaults THEN {armed} ELSE {})

IrqCallbackHandler ==
  /\ edge
  /\ edge' = FALSE
  /\ DisableIrq
  /\ queued' = TRUE
  /\ UNCHANGED <<chipVars, modeVars, workVars, syncVars>>

-----------------------------------------------------------------------------
(* work_queue_callback_handler                                               *)

At(from, to) ==
  /\ hpc = from
  /\ hpc' = to
  /\ UNCHANGED <<modeVars, irqVars>>

(* The work item is taken off the queue and STATUS is read: RX_DR is looked  *)
(* at first, and the other flags only when it is down.                       *)
WorkStart ==
  /\ queued
  /\ hpc = "idle"
  /\ queued' = FALSE
  /\ \E read \in ReadRegister(status) :
       hpc' = IF "RX_DR" \in read THEN "fifo"
              ELSE IF "TX_DS" \in read THEN "tx_ce"
              ELSE IF "MAX_RT" \in read THEN "rt_ce"
              ELSE "clear"
  /\ UNCHANGED <<chipVars, modeVars, armed, edge, buffer, syncVars>>

(* FIFO_STATUS is read; a failed read looks like a FIFO that is not empty.   *)
DataAvailable == rxFifo # <<>> \/ SpiFaults

(* A packet is read only while listening: otherwise RX_DR is put down to an  *)
(* acknowledgement and the FIFO is left alone.                               *)
WorkFifo ==
  /\ \/ /\ rxFifo = <<>>
        /\ At("fifo", "clear")
     \/ /\ DataAvailable
        /\ At("fifo", IF isListening THEN "read" ELSE "clear")
  /\ UNCHANGED <<chipVars, buffer, syncVars>>

(* R_RX_PAYLOAD takes the oldest packet; on an SPI error the buffer keeps    *)
(* its zeros and the flags are not cleared.                                  *)
WorkRead ==
  /\ \/ /\ At("read", "read_clear")
        /\ buffer' = IF rxFifo = <<>> THEN NoPacket ELSE Head(rxFifo)
        /\ rxFifo' = IF rxFifo = <<>> THEN rxFifo ELSE Tail(rxFifo)
     \/ /\ SpiFaults
        /\ At("read", "put")
        /\ buffer' = NoPacket
        /\ rxFifo' = rxFifo
  /\ UNCHANGED <<status, config, enRxaddr, rxPw0, ce, txFifo, onAir, arrived, sent, syncVars>>

WorkReadClear ==
  /\ At("read_clear", "put")
  /\ ClearIrq
  /\ UNCHANGED <<config, enRxaddr, rxPw0, ce, rxFifo, txFifo, onAir, arrived, sent, buffer, syncVars>>

(* Mutated forms: room is not looked for; the newest packet goes first.      *)
PutAlways(q, m) == Append(q, m)
PutFront(q, m) == IF Len(q) < QueueLen THEN <<m>> \o q ELSE q

(* k_msgq_put with K_NO_WAIT: a full queue drops the new packet.             *)
MsgqPut(q, m) == IF Len(q) < QueueLen THEN Append(q, m) ELSE q

WorkPut ==
  /\ At("put", "clear")
  /\ rxQueue' = MsgqPut(rxQueue, buffer)
  /\ buffer' = NoPacket
  /\ UNCHANGED <<chipVars, sem, retCode>>

WorkCeLow ==
  /\ At("tx_ce", "tx_give") \/ At("rt_ce", "rt_flush")
  /\ ToggleCe(FALSE)
  /\ UNCHANGED <<status, config, enRxaddr, rxPw0, rxFifo, txFifo, onAir, arrived, sent, buffer, syncVars>>

(* Mutated form: the unanswered payload is left in the transmit FIFO.        *)
KeepTx == txFifo' = txFifo

FlushTx == txFifo' \in Transceive(txFifo, <<>>)

WorkFlush ==
  /\ At("rt_flush", "rt_give")
  /\ FlushTx
  /\ UNCHANGED <<status, config, enRxaddr, rxPw0, ce, rxFifo, onAir, arrived, sent, buffer, syncVars>>

(* Mutated forms: the code of the previous write is left in place; only a    *)
(* payload that was sent wakes the writer.                                   *)
GiveOnly(code) == sem' = 1 /\ retCode' = retCode
GiveIfSent(code) == sem' = (IF code = "ok" THEN 1 ELSE sem) /\ retCode' = code

(* The verdict is stored, then the semaphore given; its limit is 1.          *)
SemGive(code) == sem' = 1 /\ retCode' = code

WorkGive ==
  /\ \/ At("tx_give", "clear") /\ SemGive("ok")
     \/ At("rt_give", "clear") /\ SemGive("max_rt")
  /\ UNCHANGED <<chipVars, buffer, rxQueue>>

(* Mutated form: the flags are left to read_payload.                         *)
WorkNoClear ==
  /\ At("clear", "rearm")
  /\ UNCHANGED <<chipVars, buffer, syncVars>>

WorkClear ==
  /\ At("clear", "rearm")
  /\ ClearIrq
  /\ UNCHANGED <<config, enRxaddr, rxPw0, ce, rxFifo, txFifo, onAir, arrived, sent, buffer, syncVars>>

WorkRearm ==
  /\ hpc = "rearm"
  /\ hpc' = "idle"
  /\ EnableIrq
  /\ UNCHANGED <<chipVars, modeVars, edge, queued, buffer, syncVars>>

Work ==
  \/ WorkStart \/ WorkFifo \/ WorkRead \/ WorkReadClear \/ WorkPut
  \/ WorkCeLow \/ WorkFlush \/ WorkGive \/ WorkClear \/ WorkRearm

-----------------------------------------------------------------------------
(* The application thread                                                    *)

Quiet == ~edge /\ ~queued /\ hpc = "idle"

(* Mutated form: the packet is copied out of the queue but left in it.       *)
ReadPeek ==
  /\ pc = "receive"
  /\ rxQueue # <<>>
  /\ lastRead' = Head(rxQueue)
  /\ pc' = "idle"
  /\ UNCHANGED <<chipVars, isListening, writes, results, irqVars, workVars, syncVars>>

(* k_msgq_get: the oldest packet, or -EIO when none came in time.            *)
ReadGet ==
  /\ pc = "receive"
  /\ rxQueue # <<>>
  /\ lastRead' = Head(rxQueue)
  /\ rxQueue' = Tail(rxQueue)
  /\ pc' = "idle"
  /\ UNCHANGED <<chipVars, isListening, writes, results, irqVars, workVars, sem, retCode>>

ReadTimeout ==
  /\ pc = "receive"
  /\ rxQueue = <<>>
  /\ pc' = "idle"
  /\ UNCHANGED <<chipVars, isListening, writes, results, lastRead, irqVars, workVars, syncVars>>

(* k_sem_take succeeds, then write_ret_code is read.                         *)
WriteTake ==
  /\ Goto("verdict", "ret")
  /\ sem = 1
  /\ sem' = 0
  /\ UNCHANGED <<chipVars, irqVars, workVars, rxQueue, retCode>>

WriteReturn ==
  /\ pc = "ret"
  /\ Return(retCode)
  /\ UNCHANGED <<chipVars, irqVars, workVars, syncVars>>

(* Mutated form: after the time-out the semaphore is waited for again.       *)
WriteWaitAgain ==
  /\ pc = "verdict"
  /\ sem = 0
  /\ ToggleCe(FALSE)
  /\ UNCHANGED <<status, config, enRxaddr, rxPw0, rxFifo, txFifo, onAir, arrived, sent,
                 modeVars, irqVars, workVars, syncVars>>

(* No verdict within CONFIG_NRF24L01_WRITE_TIMEOUT: CE low and -ETIME.  With *)
(* PromptWork the time-out is long: nothing under way is left to wait for.   *)
WriteTimeout ==
  /\ pc = "verdict"
  /\ sem = 0
  /\ PromptWork => Quiet /\ onAir = 0
  /\ Return("etime")
  /\ ToggleCe(FALSE)
  /\ UNCHANGED <<status, config, enRxaddr, rxPw0, rxFifo, txFifo, onAir, arrived, sent,
                 irqVars, workVars, syncVars>>

AppStep ==
  \/ ModeStep /\ UNCHANGED <<irqVars, workVars, syncVars>>
  \/ ReadGet \/ ReadTimeout
  \/ WriteTake \/ WriteReturn

(* The expiry of the time-out is the kernel's doing, whoever runs.           *)
App == (WorkOutranksApp => Quiet) /\ AppStep

Next == Radio \/ IrqCallbackHandler \/ Work \/ App \/ WriteTimeout

Spec == Init /\ [][Next]_vars

(* Work in progress is carried on with: the interrupt is taken, the work     *)
(* queue runs, a call into the driver goes on, a payload on air comes to an  *)
(* end and a time-out expires.  No packet need ever arrive and the caller    *)
(* need never call again.                                                    *)
FairSpec ==
  /\ Spec
  /\ WF_vars(IrqCallbackHandler)
  /\ WF_vars(Work)
  /\ WF_vars(pc # "idle" /\ App)
  /\ WF_vars(WriteTimeout)
  /\ WF_vars((ChipTxStart \/ ChipTxDone \/ ChipTxFail) /\ Radio)

-----------------------------------------------------------------------------
(* Properties                                                                *)

(* Types and bounds: the chip's FIFOs and the driver's queue never overrun   *)
(* and the semaphore stays binary.                                           *)
TypeOK ==
  /\ ChipTypeOK
  /\ ModeTypeOK
  /\ armed \in BOOLEAN
  /\ edge \in BOOLEAN
  /\ queued \in BOOLEAN
  /\ hpc \in WorkLabels
  /\ buffer \in Nat
  /\ rxQueue \in Seq(Nat) /\ Len(rxQueue) <= QueueLen
  /\ sem \in {0, 1}
  /\ retCode \in {"ok", "max_rt"}

(* Serving the radio is passed round like a token: either the interrupt is   *)
(* armed, or the work is queued, or the handler is running, never two of     *)
(* them and never none.  So the handler is not entered twice for an          *)
(* interrupt, and every path through it gives the interrupt back.            *)
IrqToken ==
  ~GpioFaults =>
    /\ edge => armed
    /\ armed <=> (~queued /\ hpc = "idle")
    /\ ~(queued /\ hpc # "idle")

TimedOut == {w \in WriteIds : results[w] = "etime"}

(* Until a write has timed out, the code a write returns is the fate of its  *)
(* own payload: 0 if it was sent (and acknowledged, with payload-ack), and   *)
(* MAX_RT if it was not.                                                     *)
VerdictMatches ==
  ~SpiFaults =>
    \A w \in WriteIds :
      (\A v \in 1 .. w : results[v] # "etime") =>
        /\ results[w] = "ok" => w \in sent
        /\ results[w] = "max_rt" => w \notin sent

(* Between two calls the transmit FIFO holds at most one payload for every   *)
(* write that has timed out, whichever payloads these are, and during a      *)
(* write one more: no late verdict taken by a later write, no verdict lost   *)
(* and no flush ever adds to what is left behind.  So W_TX_PAYLOAD meets a   *)
(* full FIFO only after FifoDepth time-outs.                                 *)
TxFifoBound ==
  ~SpiFaults /\ ~GpioFaults =>
    Len(txFifo) <= Cardinality(TimedOut)
                     + (IF pc \in {"pulse_high", "pulse_low", "verdict"} THEN 1 ELSE 0)

(* With the work queue ahead of the application and a time-out longer than   *)
(* a transmission, no write ever times out.                                  *)
NoTimeout == WorkOutranksApp /\ PromptWork => TimedOut = {}

(* A reader waiting for a packet has the radio powered up, in receiver mode, *)
(* with both pipes on and pipe 0 at full width; and CE is high unless the    *)
(* handler has lowered it for a write that was given up before, whose late   *)
(* verdict then is on its way to the semaphore or still in it.               *)
ReaderListens ==
  pc = "receive" =>
    /\ ConfigBits \subseteq config
    /\ rxPw0 = "payload"
    /\ enRxaddr = Pipes
    /\ \/ ce
       \/ /\ TimedOut # {}
          /\ sem = 1 \/ hpc \in {"tx_give", "rt_flush", "rt_give"}

(* With the work queue ahead of the application, RX_DR is never looked at    *)
(* after the switch to transmitting, so that no packet is mistaken for an    *)
(* acknowledgement and left in the FIFO.                                     *)
NoPacketTakenForAck == WorkOutranksApp => (hpc = "fifo" => isListening)

(* Packets on their way to the caller, oldest first.                         *)
InTransit ==
  rxQueue \o (IF buffer = NoPacket THEN <<>> ELSE <<buffer>>) \o rxFifo

(* Even with SPI errors the packets on their way stay in the order they were *)
(* heard, none of them twice; the zero buffers a failed read queues can only *)
(* come between them.                                                        *)
TransitInOrder ==
  \A i, j \in DOMAIN InTransit :
    i < j /\ InTransit[i] # NoPacket /\ InTransit[j] # NoPacket
      => InTransit[i] < InTransit[j]

(* Through queue, buffer and FIFO the driver implements the mailbox: packets *)
(* reach the caller in order, at most once, and none is made up.             *)
Mailbox == INSTANCE RadioMailbox
             WITH heard <- arrived, pending <- InTransit, delivered <- lastRead
MailboxSpec == Mailbox!Spec

(* Every edge detected leads to the flags being cleared.                     *)
EdgeAcknowledged == edge ~> (status = {})

(* A call into the driver returns, whatever the radio does.                  *)
CallsReturn == (pc # "idle") ~> (pc = "idle")

-----------------------------------------------------------------------------
(* What the repository says, and the driver does not keep                    *)

(* Kconfig: "the NRF24L01 read is triggered by irq gpio".  A raised IRQ pin   *)
(* then always has an interrupt pending or the handler on its way.           *)
PinTriggersRead == status # {} => ~Quiet

(* nrf24.h: "@retval 0 On success."  A write that returned 0 had its payload *)
(* sent.                                                                     *)
ZeroMeansSent == \A w \in WriteIds : results[w] = "ok" => w \in sent
=============================================================================
