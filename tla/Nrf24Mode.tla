------------------------------ MODULE Nrf24Mode ------------------------------
(***************************************************************************)
(* The part of the driver both builds share (with and without               *)
(* CONFIG_NRF24L01_TRIGGER): the application thread switching the radio     *)
(* between listening and transmitting, and starting a transmission.  Each   *)
(* action is one SPI transaction or GPIO operation with the local work      *)
(* around it; writes to registers that no other actor looks at ride along.  *)
(*                                                                          *)
(* nrf24l01_read enters at CallRead and reaches the label "receive", where  *)
(* the builds differ; nrf24l01_write enters at CallWrite and reaches        *)
(* "verdict".  One thread calls the driver, as in the sample application.   *)
(***************************************************************************)
EXTENDS Nrf24Chip

CONSTANT MaxWrites     \* bound on the calls to nrf24_write
ASSUME ModeAssumption == MaxWrites \in Nat

VARIABLES
  pc,            \* where the application thread is in the driver
  isListening,   \* data->is_listening
  writes,        \* number of calls to nrf24_write so far (history)
  results,       \* what each call to nrf24_write returned (history)
  lastRead       \* number of the packet last handed to the caller (history)

modeVars == <<pc, isListening, writes, results, lastRead>>

WriteIds == 1 .. MaxWrites
Results == {"none", "ok", "max_rt", "etime", "eio"}
ListenLabels == {"prim_rx", "listen_ce", "listen_width", "listen_power"}
StopLabels == {"stop_ce", "stop_prim", "stop_flag", "stop_power", "stop_clear"}
SendLabels == {"payload", "pulse_high", "pulse_low", "verdict", "ret"}
ModeLabels == {"idle", "receive"} \cup ListenLabels \cup StopLabels \cup SendLabels

(* Control moves on; the flag and the histories stay.                        *)
Goto(from, to) ==
  /\ pc = from
  /\ pc' = to
  /\ UNCHANGED <<isListening, writes, results, lastRead>>

ModeInit ==
  /\ pc = "idle"
  /\ isListening = FALSE
  /\ writes = 0
  /\ results = [w \in WriteIds |-> "none"]
  /\ lastRead = 0

(* Types of the radio's state and of the driver's shared state.              *)
ChipTypeOK ==
  /\ status \in SUBSET Flags
  /\ config \in SUBSET ConfigBits
  /\ enRxaddr \in SUBSET Pipes
  /\ rxPw0 \in {"unset", "ack", "payload"}
  /\ ce \in BOOLEAN
  /\ rxFifo \in Seq(Nat) /\ Len(rxFifo) <= FifoDepth
  /\ txFifo \in Seq(WriteIds) /\ Len(txFifo) <= FifoDepth
  /\ onAir \in WriteIds \cup {0}
  /\ arrived \in 0 .. MaxArrivals
  /\ sent \in SUBSET WriteIds

ModeTypeOK ==
  /\ pc \in ModeLabels
  /\ isListening \in BOOLEAN
  /\ writes \in 0 .. MaxWrites
  /\ pc \in StopLabels \cup SendLabels => writes \in WriteIds
  /\ results \in [WriteIds -> Results]
  /\ lastRead \in Nat

(* The call to nrf24_write in progress returns r.                            *)
Return(r) ==
  /\ pc' = "idle"
  /\ results' = [results EXCEPT ![writes] = r]
  /\ UNCHANGED <<isListening, writes, lastRead>>

-----------------------------------------------------------------------------
(* nrf24l01_read, nrf24l01_start_listening                                   *)

CallRead ==
  /\ pc = "idle"
  /\ pc' = IF isListening THEN "receive" ELSE "prim_rx"
  /\ isListening' = TRUE
  /\ UNCHANGED <<writes, results, lastRead>>
  /\ UNCHANGED chipVars

ListenPrimRx ==
  /\ Goto("prim_rx", "listen_ce")
  /\ config' \in SetRegisterBit(config, "PRIM_RX", TRUE)
  /\ UNCHANGED <<status, enRxaddr, rxPw0, ce, rxFifo, txFifo, onAir, arrived, sent>>

ListenCe ==
  /\ Goto("listen_ce", "listen_width")
  /\ ToggleCe(TRUE)
  /\ UNCHANGED <<status, config, enRxaddr, rxPw0, rxFifo, txFifo, onAir, arrived, sent>>

(* Mutated form: pipe 0 keeps the width of an acknowledgement.               *)
ListenNarrow ==
  /\ Goto("listen_width", "listen_power")
  /\ ToggleCe(TRUE)
  /\ UNCHANGED <<status, config, enRxaddr, rxPw0, rxFifo, txFifo, onAir, arrived, sent>>

ListenWidth ==
  /\ Goto("listen_width", "listen_power")
  /\ rxPw0' \in Transceive(rxPw0, "payload")
  /\ ToggleCe(TRUE)
  /\ UNCHANGED <<status, config, enRxaddr, rxFifo, txFifo, onAir, arrived, sent>>

ListenPower ==
  /\ Goto("listen_power", "receive")
  /\ PowerUp
  /\ UNCHANGED <<status, enRxaddr, rxPw0, ce, rxFifo, txFifo, onAir, arrived, sent>>

-----------------------------------------------------------------------------
(* nrf24l01_write, nrf24l01_stop_listening                                   *)

CallWrite ==
  /\ pc = "idle"
  /\ writes < MaxWrites
  /\ writes' = writes + 1
  /\ pc' = IF isListening THEN "stop_ce" ELSE "payload"
  /\ UNCHANGED <<isListening, results, lastRead>>
  /\ UNCHANGED chipVars

StopCe ==
  /\ Goto("stop_ce", "stop_prim")
  /\ rxPw0' \in Transceive(rxPw0, "ack")
  /\ ToggleCe(FALSE)
  /\ UNCHANGED <<status, config, enRxaddr, rxFifo, txFifo, onAir, arrived, sent>>

(* After the 250 ms sleep: transmitter mode, and pipe 0 enabled for the ack. *)
StopPrimRx ==
  /\ Goto("stop_prim", "stop_flag")
  /\ config' \in SetRegisterBit(config, "PRIM_RX", FALSE)
  /\ enRxaddr' \in SetRegisterBit(enRxaddr, 0, TRUE)
  /\ UNCHANGED <<status, rxPw0, ce, rxFifo, txFifo, onAir, arrived, sent>>

StopFlag ==
  /\ pc = "stop_flag"
  /\ pc' = "stop_power"
  /\ isListening' = FALSE
  /\ UNCHANGED <<writes, results, lastRead>>
  /\ UNCHANGED chipVars

StopPower ==
  /\ Goto("stop_power", "stop_clear")
  /\ PowerUp
  /\ UNCHANGED <<status, enRxaddr, rxPw0, ce, rxFifo, txFifo, onAir, arrived, sent>>

StopClear ==
  /\ Goto("stop_clear", "payload")
  /\ ClearIrq
  /\ UNCHANGED <<config, enRxaddr, rxPw0, ce, rxFifo, txFifo, onAir, arrived, sent>>

(* W_TX_PAYLOAD: the chip ignores it when its FIFO is full.                  *)
WritePayload ==
  /\ Goto("payload", "pulse_high")
  /\ txFifo' \in Transceive(txFifo,
       IF Len(txFifo) < FifoDepth THEN Append(txFifo, writes) ELSE txFifo)
  /\ UNCHANGED <<status, config, enRxaddr, rxPw0, ce, rxFifo, onAir, arrived, sent>>

PulseHigh ==
  /\ Goto("pulse_high", "pulse_low")
  /\ ToggleCe(TRUE)
  /\ UNCHANGED <<status, config, enRxaddr, rxPw0, rxFifo, txFifo, onAir, arrived, sent>>

(* The pulse lasts 10 us, long enough for the chip to take a payload that    *)
(* can be transmitted.                                                       *)
PulseLow ==
  /\ ~CanTransmit
  /\ Goto("pulse_low", "verdict")
  /\ ToggleCe(FALSE)
  /\ UNCHANGED <<status, config, enRxaddr, rxPw0, rxFifo, txFifo, onAir, arrived, sent>>

ModeStep ==
  \/ CallRead \/ ListenPrimRx \/ ListenCe \/ ListenWidth \/ ListenPower
  \/ CallWrite \/ StopCe \/ StopPrimRx \/ StopFlag \/ StopPower \/ StopClear
  \/ WritePayload \/ PulseHigh \/ PulseLow
=============================================================================
