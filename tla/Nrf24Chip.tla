------------------------------ MODULE Nrf24Chip ------------------------------
(***************************************************************************)
(* The nRF24L01 radio as the driver sees it through SPI and the CE pin.     *)
(*                                                                         *)
(* A register is the set of its raised bits, restricted to the bits whose   *)
(* value the driver's control flow depends on; Nrf24Spi has the transactions *)
(* that change one.                                                         *)
(***************************************************************************)
EXTENDS Integers, Sequences, Nrf24Spi

CONSTANTS
  FifoDepth,    \* payloads each of the chip's two FIFOs can hold (3 on the part)
  PayloadAck,   \* devicetree payload-ack: transmissions wait for an acknowledgement
  MaxArrivals,  \* bound on the packets the radio hears
  GpioFaults    \* TRUE: a GPIO operation may fail

ASSUME ChipAssumption ==
  /\ FifoDepth \in Nat \ {0}
  /\ MaxArrivals \in Nat
  /\ PayloadAck \in BOOLEAN
  /\ GpioFaults \in BOOLEAN

VARIABLES
  status,    \* STATUS: the raised interrupt flags; the IRQ pin is active iff one is
  config,    \* CONFIG: PWR_UP and PRIM_RX
  enRxaddr,  \* EN_RXADDR: the enabled reading pipes (0 and 1 are configured)
  rxPw0,     \* RX_PW_P0: "unset" (0), "ack" (2 bytes) or "payload" (fixed size)
  ce,        \* level of the CE pin
  rxFifo,    \* packets received and not yet read, named by their arrival number
  txFifo,    \* payloads written and not yet sent, named by their write number
  onAir,     \* the payload being transmitted, 0 for none
  arrived,   \* number of packets the radio has heard (history)
  sent       \* payloads whose transmission the chip reported done (history)

chipVars == <<status, config, enRxaddr, rxPw0, ce, rxFifo, txFifo, onAir,
              arrived, sent>>

Flags == {"RX_DR", "TX_DS", "MAX_RT"}
ConfigBits == {"PWR_UP", "PRIM_RX"}
Pipes == {0, 1}

(* State left by nrf24l01_init: radio powered up, transmitter mode, CE low,  *)
(* interrupts cleared and both FIFOs flushed.                                *)
ChipInit ==
  /\ status = {}
  /\ config = {"PWR_UP"}
  /\ enRxaddr = Pipes
  /\ rxPw0 = "ack"
  /\ ce = FALSE
  /\ rxFifo = <<>>
  /\ txFifo = <<>>
  /\ onAir = 0
  /\ arrived = 0
  /\ sent = {}

-----------------------------------------------------------------------------
(* The CE pin, the flags and the power bit, as the driver sets them.         *)

(* CE follows the level asked for, unless the GPIO call fails (only logged). *)
ToggleCe(level) == ce' \in {level} \cup (IF GpioFaults THEN {ce} ELSE {})

(* The STATUS value written back has all three flags set whatever was read,  *)
(* and writing a one clears a flag: every flag is lowered at once.           *)
ClearIrq == status' \in Transceive(status, {})

(* radio_power_up: PWR_UP is set unless it already reads as set.             *)
PowerUp ==
  \E read \in ReadRegister(config) :
    IF "PWR_UP" \in read
      THEN config' = config
      ELSE config' \in SetRegisterBit(config, "PWR_UP", TRUE)

-----------------------------------------------------------------------------
(* What the chip does on its own.                                            *)

Listening == ConfigBits \subseteq config /\ ce

(* A packet for an enabled pipe is heard; with the FIFO full it is lost.     *)
ChipReceive ==
  /\ Listening
  /\ arrived < MaxArrivals
  /\ arrived' = arrived + 1
  /\ IF Len(rxFifo) < FifoDepth
       THEN /\ rxFifo' = Append(rxFifo, arrived + 1)
            /\ status' = status \cup {"RX_DR"}
       ELSE UNCHANGED <<rxFifo, status>>
  /\ UNCHANGED <<config, enRxaddr, rxPw0, ce, txFifo, onAir, sent>>

(* With CE high in transmitter mode the payload at the head of the FIFO goes *)
(* on air; a raised MAX_RT blocks transmission.                              *)
CanTransmit ==
  /\ "PWR_UP" \in config
  /\ "PRIM_RX" \notin config
  /\ "MAX_RT" \notin status
  /\ ce
  /\ txFifo # <<>>
  /\ onAir = 0

ChipTxStart ==
  /\ CanTransmit
  /\ onAir' = Head(txFifo)
  /\ UNCHANGED <<status, config, enRxaddr, rxPw0, ce, rxFifo, txFifo,
                 arrived, sent>>

(* The transmission succeeds: acknowledged by the peer, or simply emitted    *)
(* when acknowledgements are off.  The payload leaves the FIFO.              *)
ChipTxDone ==
  /\ onAir # 0
  /\ sent' = sent \cup {onAir}
  /\ txFifo' = IF txFifo # <<>> /\ Head(txFifo) = onAir THEN Tail(txFifo) ELSE txFifo
  /\ status' = status \cup {"TX_DS"}
  /\ onAir' = 0
  /\ UNCHANGED <<config, enRxaddr, rxPw0, ce, rxFifo, arrived>>

(* All retransmissions went unanswered; the payload stays in the FIFO.       *)
ChipTxFail ==
  /\ PayloadAck
  /\ onAir # 0
  /\ status' = status \cup {"MAX_RT"}
  /\ onAir' = 0
  /\ UNCHANGED <<config, enRxaddr, rxPw0, ce, rxFifo, txFifo, arrived, sent>>

ChipStep == ChipReceive \/ ChipTxStart \/ ChipTxDone \/ ChipTxFail
=============================================================================
