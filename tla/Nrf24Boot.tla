------------------------------ MODULE Nrf24Boot ------------------------------
(***************************************************************************)
(* nrf24l01_init in front of the driver of Nrf24Trigger, and resets of the  *)
(* microcontroller.  A reset loses everything the driver keeps in RAM and   *)
(* lets CE fall, but the radio keeps its power: its registers, FIFOs and    *)
(* raised flags are still there when nrf24l01_init runs again.  Interrupts  *)
(* and the work queue are live during the last part of the initialisation.  *)
(***************************************************************************)
EXTENDS Nrf24Trigger

CONSTANT MaxResets     \* bound on the resets of the microcontroller
ASSUME BootAssumption == MaxResets \in Nat

VARIABLES
  bpc,            \* where nrf24l01_init is; "run" once it returned 0
  callbackAdded,  \* irq_callback_handler is registered with the GPIO driver
  workReady,      \* k_work_init was called for trig_work
  resets          \* number of resets so far

bootVars == <<bpc, callbackAdded, workReady, resets>>
allVars == <<vars, bootVars>>

BootLabels == {"ce", "test", "config", "pipes", "ce_high", "flush_tx", "flush_rx",
               "arm", "callback", "work", "width", "ce_low", "prim_rx", "pipe0",
               "power", "clear", "run", "failed", "fault"}

(* A power-on reset: the radio is powered down with its reset values.        *)
BootInit ==
  /\ status = {} /\ config = {} /\ enRxaddr = Pipes /\ rxPw0 = "unset"
  /\ ce = FALSE /\ rxFifo = <<>> /\ txFifo = <<>>
  /\ onAir = 0 /\ arrived = 0 /\ sent = {}
  /\ ModeInit
  /\ armed = FALSE /\ edge = FALSE /\ queued = FALSE
  /\ hpc = "idle" /\ buffer = NoPacket
  /\ rxQueue = <<>> /\ sem = 0 /\ retCode = "ok"
  /\ bpc = "ce" /\ callbackAdded = FALSE /\ workReady = FALSE /\ resets = 0

-----------------------------------------------------------------------------
(* nrf24l01_init                                                             *)

BootGoto(from, to) ==
  /\ bpc = from
  /\ bpc' = to
  /\ UNCHANGED <<callbackAdded, workReady, resets, modeVars, queued, edge, workVars, syncVars>>

(* CE is made an output and driven high; a GPIO error ends initialisation.   *)
BootCe ==
  /\ \/ BootGoto("ce", "test") /\ ce' = TRUE
     \/ GpioFaults /\ BootGoto("ce", "failed") /\ ce' \in {ce, TRUE}
  /\ UNCHANGED <<status, config, enRxaddr, rxPw0, rxFifo, txFifo, onAir, arrived, sent, armed>>

(* test_spi writes a register and reads it back.                             *)
BootTest ==
  /\ BootGoto("test", "config") \/ (SpiFaults /\ BootGoto("test", "failed"))
  /\ UNCHANGED <<chipVars, armed>>

(* Mutated form: CONFIG is first given the value it has in listening mode.   *)
BootConfigListening ==
  /\ BootGoto("config", "pipes")
  /\ config' = ConfigBits
  /\ UNCHANGED <<status, enRxaddr, rxPw0, ce, rxFifo, txFifo, onAir, arrived, sent, armed>>

(* set_config changes bits of CONFIG one by one with set_register_bit: after *)
(* a failed read the write wipes the other bits.                             *)
BootConfig ==
  /\ BootGoto("config", "pipes")
  /\ config' \in {config} \cup (IF SpiFaults THEN {{}} ELSE {})
  /\ UNCHANGED <<status, enRxaddr, rxPw0, ce, rxFifo, txFifo, onAir, arrived, sent, armed>>

(* configure_pipes sets every width and enables the pipes; configure_ack     *)
(* touches nothing tracked here.                                             *)
BootPipes ==
  /\ BootGoto("pipes", "ce_high")
  /\ rxPw0' \in Transceive(rxPw0, "payload")
  /\ \E zero \in SetRegisterBit(enRxaddr, 0, TRUE) :
       enRxaddr' \in SetRegisterBit(zero, 1, TRUE)
  /\ UNCHANGED <<status, config, ce, rxFifo, txFifo, onAir, arrived, sent, armed>>

BootCeHigh ==
  /\ BootGoto("ce_high", "flush_tx")
  /\ ToggleCe(TRUE)
  /\ UNCHANGED <<status, config, enRxaddr, rxPw0, rxFifo, txFifo, onAir, arrived, sent, armed>>

(* After a sleep of 100 ms no transmission is under way.                     *)
BootFlushTx ==
  /\ onAir = 0 /\ ~CanTransmit
  /\ BootGoto("flush_tx", "flush_rx")
  /\ txFifo' \in Transceive(txFifo, <<>>)
  /\ UNCHANGED <<status, config, enRxaddr, rxPw0, ce, rxFifo, onAir, arrived, sent, armed>>

BootFlushRx ==
  /\ BootGoto("flush_rx", "arm")
  /\ rxFifo' \in Transceive(rxFifo, <<>>)
  /\ UNCHANGED <<status, config, enRxaddr, rxPw0, ce, txFifo, onAir, arrived, sent, armed>>

(* The semaphore and the queue are set up, then the edge interrupt enabled.  *)
BootArm ==
  /\ \/ BootGoto("arm", "callback") /\ armed' = TRUE
     \/ GpioFaults /\ BootGoto("arm", "failed") /\ armed' = armed
  /\ UNCHANGED chipVars

BootCallback ==
  /\ bpc = "callback"
  /\ \/ bpc' = "work" /\ callbackAdded' = TRUE
     \/ GpioFaults /\ bpc' = "failed" /\ callbackAdded' = FALSE
  /\ UNCHANGED <<vars, workReady, resets>>

BootWork ==
  /\ bpc = "work"
  /\ bpc' = "width"
  /\ workReady' = TRUE
  /\ UNCHANGED <<vars, callbackAdded, resets>>

BootWidth ==
  /\ BootGoto("width", "ce_low")
  /\ rxPw0' \in Transceive(rxPw0, "ack")
  /\ UNCHANGED <<status, config, enRxaddr, ce, rxFifo, txFifo, onAir, arrived, sent, armed>>

BootCeLow ==
  /\ BootGoto("ce_low", "prim_rx")
  /\ ToggleCe(FALSE)
  /\ UNCHANGED <<status, config, enRxaddr, rxPw0, rxFifo, txFifo, onAir, arrived, sent, armed>>

BootPrimRx ==
  /\ BootGoto("prim_rx", "pipe0")
  /\ config' \in SetRegisterBit(config, "PRIM_RX", FALSE)
  /\ UNCHANGED <<status, enRxaddr, rxPw0, ce, rxFifo, txFifo, onAir, arrived, sent, armed>>

BootPipe0 ==
  /\ BootGoto("pipe0", "power")
  /\ enRxaddr' \in SetRegisterBit(enRxaddr, 0, TRUE)
  /\ UNCHANGED <<status, config, rxPw0, ce, rxFifo, txFifo, onAir, arrived, sent, armed>>

BootPower ==
  /\ BootGoto("power", "clear")
  /\ PowerUp
  /\ UNCHANGED <<status, enRxaddr, rxPw0, ce, rxFifo, txFifo, onAir, arrived, sent, armed>>

(* Mutated form: flags raised before the interrupt was armed are kept.       *)
BootKeepFlags == BootGoto("clear", "run") /\ UNCHANGED <<chipVars, armed>>

BootClear ==
  /\ BootGoto("clear", "run")
  /\ ClearIrq
  /\ UNCHANGED <<config, enRxaddr, rxPw0, ce, rxFifo, txFifo, onAir, arrived, sent, armed>>

BootStep ==
  \/ BootCe \/ BootTest \/ BootConfig \/ BootPipes \/ BootCeHigh \/ BootFlushTx
  \/ BootFlushRx \/ BootArm \/ BootCallback \/ BootWork \/ BootWidth \/ BootCeLow
  \/ BootPrimRx \/ BootPipe0 \/ BootPower \/ BootClear

-----------------------------------------------------------------------------
(* Everything else                                                           *)

(* An interrupt that finds no callback registered has no effect.             *)
UnheardInterrupt ==
  /\ edge
  /\ ~callbackAdded
  /\ edge' = FALSE
  /\ UNCHANGED <<chipVars, modeVars, armed, queued, workVars, syncVars, bootVars>>

(* The work queue calls the handler of an item that was submitted before     *)
(* k_work_init: a null pointer, and the system stops until the next reset.   *)
NullHandler ==
  /\ queued
  /\ ~workReady
  /\ bpc' = "fault"
  /\ UNCHANGED <<vars, callbackAdded, workReady, resets>>

(* The microcontroller restarts; a call in progress never returns.           *)
Reset ==
  /\ resets < MaxResets
  /\ resets' = resets + 1
  /\ bpc' = "ce" /\ callbackAdded' = FALSE /\ workReady' = FALSE
  /\ ce' = FALSE
  /\ pc' = "idle" /\ isListening' = FALSE
  /\ armed' = FALSE /\ edge' = FALSE /\ queued' = FALSE
  /\ hpc' = "idle" /\ buffer' = NoPacket
  /\ rxQueue' = <<>> /\ sem' = 0 /\ retCode' = "ok"
  /\ UNCHANGED <<status, config, enRxaddr, rxPw0, rxFifo, txFifo, onAir, arrived, sent,
                 writes, results, lastRead>>

BootNext ==
  \/ bpc \notin {"run", "failed", "fault"} /\ BootStep
  \/ bpc = "run" /\ (App \/ WriteTimeout) /\ UNCHANGED bootVars
  \/ bpc # "fault" /\ callbackAdded /\ IrqCallbackHandler /\ UNCHANGED bootVars
  \/ bpc # "fault" /\ workReady /\ Work /\ UNCHANGED bootVars
  \/ bpc # "fault" /\ (UnheardInterrupt \/ NullHandler)
  \/ Radio /\ UNCHANGED bootVars
  \/ Reset

BootSpec == BootInit /\ [][BootNext]_allVars

-----------------------------------------------------------------------------
(* Properties                                                                *)

(* The interrupt is enabled before the callback and the work item are ready  *)
(* (nrf24l01.c:956-969).  After power-on that is safe: the radio cannot hear *)
(* anything yet, so nothing is submitted to the work queue before            *)
(* k_work_init; after a reset of the microcontroller alone it can be.        *)
QuietBeforeReady ==
  /\ queued /\ ~workReady => resets > 0
  /\ bpc = "fault" => resets > 0

(* The state nrf24l01_init leaves for the driver: transmitter mode, powered  *)
(* up, CE low, nothing to send, nobody's verdict in the semaphore and the    *)
(* right to serve the radio with exactly one.  After power-on the radio is   *)
(* in the initial state of Nrf24Trigger; after a reset a packet may still be *)
(* in its receive FIFO.                                                      *)
HandsOver ==
  /\ config = {"PWR_UP"} /\ enRxaddr = Pipes /\ rxPw0 = "ack" /\ ~ce
  /\ txFifo = <<>> /\ onAir = 0 /\ sem = 0
  /\ status = {} /\ IrqToken
  /\ resets = 0 => Init

InitHandsOver ==
  [][~SpiFaults /\ ~GpioFaults /\ bpc # "run" /\ bpc' = "run" => HandsOver']_allVars

(* From then on the right to serve the radio stays with exactly one.         *)
TokenOnceRunning == bpc = "run" => IrqToken
=============================================================================
