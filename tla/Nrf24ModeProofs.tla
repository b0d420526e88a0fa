--------------------------- MODULE Nrf24ModeProofs ---------------------------
(***************************************************************************)
(* Type correctness of the radio and of the listening and writing paths     *)
(* that both builds of the driver share.                                    *)
(***************************************************************************)
EXTENDS Nrf24Mode, TLAPS

(* nrf24_read and nrf24_write start from well-typed driver data.             *)
LEMMA ModeInitType ==
  ASSUME ModeInit
  PROVE  ModeTypeOK
<1> USE ModeAssumption DEF ModeAssumption
<1> USE DEF ModeInit
<1>1. pc \in ModeLabels /\ pc \notin StopLabels \cup SendLabels
  BY DEF ModeLabels, StopLabels, SendLabels
<1>2. results \in [WriteIds -> Results]
  BY DEF Results
<1>3. writes \in 0 .. MaxWrites /\ lastRead \in Nat
  OBVIOUS
<1>4. isListening \in BOOLEAN
  OBVIOUS
<1> QED
  BY <1>1, <1>2, <1>3, <1>4 DEF ModeTypeOK

(* The state nrf24l01_init leaves is well typed.                             *)
LEMMA InitType ==
  ASSUME ChipInit, ModeInit
  PROVE  ChipTypeOK /\ ModeTypeOK
<1> USE ChipAssumption, ModeAssumption DEF ChipAssumption, ModeAssumption
<1>1. ChipTypeOK
  <2> USE DEF ChipInit
  <2>1. /\ status \in SUBSET Flags
        /\ config \in SUBSET ConfigBits
        /\ enRxaddr \in SUBSET Pipes
    BY DEF ConfigBits
  <2>2. rxFifo \in Seq(Nat) /\ Len(rxFifo) <= FifoDepth
    OBVIOUS
  <2>3. txFifo \in Seq(WriteIds) /\ Len(txFifo) <= FifoDepth
    OBVIOUS
  <2>4. rxPw0 \in {"unset", "ack", "payload"} /\ ce \in BOOLEAN
    OBVIOUS
  <2>5. onAir \in WriteIds \cup {0} /\ arrived \in 0 .. MaxArrivals /\ sent \in SUBSET WriteIds
    OBVIOUS
  <2> QED
    BY <2>1, <2>2, <2>3, <2>4, <2>5 DEF ChipTypeOK
<1> QED
  BY <1>1, ModeInitType

(* A step that leaves the radio or the driver's data alone leaves it typed.  *)
LEMMA ChipFrame ==
  ASSUME ChipTypeOK, UNCHANGED chipVars
  PROVE  ChipTypeOK'
  BY DEF ChipTypeOK, chipVars

(* The same for the driver's data.                                           *)
LEMMA ModeFrame ==
  ASSUME ModeTypeOK, UNCHANGED modeVars
  PROVE  ModeTypeOK'
  BY DEF ModeTypeOK, modeVars

(* set_register_bit leaves a register that has only the register's bits.     *)
LEMMA SetRegisterBitType ==
  ASSUME NEW Bits, NEW reg \in SUBSET Bits, NEW bit \in Bits, NEW val \in BOOLEAN,
         NEW new \in SetRegisterBit(reg, bit, val)
  PROVE  new \in SUBSET Bits
<1>1. PICK read \in ReadRegister(reg) :
        new \in (LET n == IF val THEN read \cup {bit} ELSE read \ {bit}
                 IN  IF n = read THEN {reg} ELSE Transceive(reg, n))
  BY DEF SetRegisterBit
<1>2. read \in SUBSET Bits
  BY DEF ReadRegister
<1> QED
  BY <1>1, <1>2 DEF Transceive

(* So does radio_power_up.                                                   *)
LEMMA PowerUpType ==
  ASSUME config \in SUBSET ConfigBits, PowerUp
  PROVE  config' \in SUBSET ConfigBits
<1>1. PICK read \in ReadRegister(config) :
        IF "PWR_UP" \in read THEN config' = config
        ELSE config' \in SetRegisterBit(config, "PWR_UP", TRUE)
  BY DEF PowerUp
<1>2. "PWR_UP" \in ConfigBits
  BY DEF ConfigBits
<1>3. CASE "PWR_UP" \in read
  BY <1>1, <1>3
<1>4. CASE "PWR_UP" \notin read
  BY <1>1, <1>2, <1>4 DEF SetRegisterBit, ReadRegister, Transceive
<1> QED
  BY <1>3, <1>4

(* The chip's own steps keep its registers, FIFOs and histories well formed. *)
LEMMA ChipStepType ==
  ASSUME ChipTypeOK, ChipStep
  PROVE  ChipTypeOK'
<1> USE ChipAssumption, ModeAssumption DEF ChipTypeOK
<1>1. CASE ChipReceive
  <2>1. CASE Len(rxFifo) < FifoDepth
    <3>1. rxFifo' = Append(rxFifo, arrived + 1)
      BY <1>1, <2>1 DEF ChipReceive
    <3>2. rxFifo' \in Seq(Nat) /\ Len(rxFifo') <= FifoDepth
      BY <2>1, <3>1
    <3>3. status' = status \cup {"RX_DR"} /\ arrived' = arrived + 1 /\ arrived < MaxArrivals
      BY <1>1, <2>1 DEF ChipReceive
    <3>4. status' \in SUBSET Flags
      BY <3>3 DEF Flags
    <3>5. arrived' \in 0 .. MaxArrivals
      BY <3>3
    <3>6. UNCHANGED <<config, enRxaddr, rxPw0, ce, txFifo, onAir, sent>>
      BY <1>1 DEF ChipReceive
    <3> QED
      BY <3>2, <3>4, <3>5, <3>6
  <2>2. CASE ~(Len(rxFifo) < FifoDepth)
    BY <1>1, <2>2 DEF ChipReceive, WriteIds
  <2> QED
    BY <2>1, <2>2
<1>2. CASE ChipTxStart
  BY <1>2 DEF ChipTxStart, CanTransmit, WriteIds
<1>3. CASE ChipTxDone
  <2>1. txFifo' \in Seq(WriteIds) /\ Len(txFifo') <= FifoDepth
    BY <1>3 DEF ChipTxDone
  <2> QED
    BY <1>3, <2>1 DEF ChipTxDone, Flags, WriteIds
<1>4. CASE ChipTxFail
  BY <1>4 DEF ChipTxFail, Flags, WriteIds
<1> QED
  BY <1>1, <1>2, <1>3, <1>4 DEF ChipStep

(* Every step of the application thread in the shared paths keeps the types. *)
LEMMA ModeStepType ==
  ASSUME ChipTypeOK, ModeTypeOK, ModeStep
  PROVE  ChipTypeOK' /\ ModeTypeOK'
<1> USE ChipAssumption, ModeAssumption
<1>b. "PWR_UP" \in ConfigBits /\ "PRIM_RX" \in ConfigBits /\ 0 \in Pipes
  BY DEF ConfigBits, Pipes
<1>1. CASE CallRead
  BY <1>1 DEF CallRead, ChipTypeOK, ModeTypeOK, chipVars, ModeLabels, ListenLabels,
              StopLabels, SendLabels
<1>2. CASE ListenPrimRx
  <2>1. config' \in SUBSET ConfigBits
    <3>1. config' \in SetRegisterBit(config, "PRIM_RX", TRUE) /\ config \in SUBSET ConfigBits
      BY <1>2 DEF ListenPrimRx, ChipTypeOK
    <3> QED
      BY <3>1, <1>b, SetRegisterBitType
  <2> QED
    BY <1>2, <2>1 DEF ListenPrimRx, Goto, ChipTypeOK, ModeTypeOK, ModeLabels, ListenLabels,
                      StopLabels, SendLabels
<1>3. CASE ListenCe
  BY <1>3 DEF ListenCe, ToggleCe, Goto, ChipTypeOK, ModeTypeOK, ModeLabels, ListenLabels,
              StopLabels, SendLabels
<1>4. CASE ListenWidth
  BY <1>4 DEF ListenWidth, ToggleCe, Transceive, Goto, ChipTypeOK, ModeTypeOK, ModeLabels,
              ListenLabels, StopLabels, SendLabels
<1>5. CASE ListenPower
  <2>1. config' \in SUBSET ConfigBits
    BY <1>5, PowerUpType DEF ListenPower, ChipTypeOK
  <2> QED
    BY <1>5, <2>1 DEF ListenPower, Goto, ChipTypeOK, ModeTypeOK, ModeLabels, ListenLabels,
                      StopLabels, SendLabels
<1>6. CASE CallWrite
  BY <1>6 DEF CallWrite, ChipTypeOK, ModeTypeOK, chipVars, ModeLabels, ListenLabels,
              StopLabels, SendLabels, WriteIds
<1>7. CASE StopCe
  BY <1>7 DEF StopCe, ToggleCe, Transceive, Goto, ChipTypeOK, ModeTypeOK, ModeLabels,
              ListenLabels, StopLabels, SendLabels
<1>8. CASE StopPrimRx
  <2>1. config' \in SUBSET ConfigBits
    <3>1. PICK val \in BOOLEAN : config' \in SetRegisterBit(config, "PRIM_RX", val)
      BY <1>8 DEF StopPrimRx
    <3>2. config \in SUBSET ConfigBits
      BY DEF ChipTypeOK
    <3> QED
      BY <3>1, <3>2, <1>b, SetRegisterBitType
  <2>2. enRxaddr' \in SUBSET Pipes
    <3>1. enRxaddr' \in SetRegisterBit(enRxaddr, 0, TRUE) /\ enRxaddr \in SUBSET Pipes
      BY <1>8 DEF StopPrimRx, ChipTypeOK
    <3> QED
      BY <3>1, <1>b, SetRegisterBitType
  <2> QED
    BY <1>8, <2>1, <2>2 DEF StopPrimRx, Goto, ChipTypeOK, ModeTypeOK, ModeLabels, ListenLabels,
                      StopLabels, SendLabels
<1>9. CASE StopFlag
  BY <1>9 DEF StopFlag, ChipTypeOK, ModeTypeOK, chipVars, ModeLabels, ListenLabels,
              StopLabels, SendLabels
<1>10. CASE StopPower
  <2>1. config' \in SUBSET ConfigBits
    BY <1>10, PowerUpType DEF StopPower, ChipTypeOK
  <2> QED
    BY <1>10, <2>1 DEF StopPower, Goto, ChipTypeOK, ModeTypeOK, ModeLabels, ListenLabels,
                       StopLabels, SendLabels
<1>11. CASE StopClear
  BY <1>11 DEF StopClear, ClearIrq, Transceive, Goto, ChipTypeOK, ModeTypeOK, ModeLabels,
               ListenLabels, StopLabels, SendLabels
<1>12. CASE WritePayload
  <2>1. writes \in WriteIds
    BY <1>12 DEF WritePayload, Goto, ModeTypeOK, SendLabels
  <2>2. \/ txFifo' = txFifo
        \/ Len(txFifo) < FifoDepth /\ txFifo' = Append(txFifo, writes)
    BY <1>12 DEF WritePayload, Transceive
  <2>3. CASE txFifo' = txFifo
    BY <1>12, <2>3 DEF WritePayload, Goto, ChipTypeOK, ModeTypeOK, ModeLabels, ListenLabels,
                       StopLabels, SendLabels
  <2>4. CASE Len(txFifo) < FifoDepth /\ txFifo' = Append(txFifo, writes)
    <3>1. txFifo' \in Seq(WriteIds) /\ Len(txFifo') <= FifoDepth
      BY <2>1, <2>4 DEF ChipTypeOK
    <3> QED
      BY <1>12, <3>1 DEF WritePayload, Goto, ChipTypeOK, ModeTypeOK, ModeLabels,
                         ListenLabels, StopLabels, SendLabels
  <2> QED
    BY <2>2, <2>3, <2>4
<1>13. CASE PulseHigh
  BY <1>13 DEF PulseHigh, ToggleCe, Goto, ChipTypeOK, ModeTypeOK, ModeLabels, ListenLabels,
               StopLabels, SendLabels
<1>14. CASE PulseLow
  BY <1>14 DEF PulseLow, ToggleCe, Goto, ChipTypeOK, ModeTypeOK, ModeLabels, ListenLabels,
               StopLabels, SendLabels
<1> QED
  BY <1>1, <1>2, <1>3, <1>4, <1>5, <1>6, <1>7, <1>8, <1>9, <1>10, <1>11, <1>12, <1>13,
     <1>14 DEF ModeStep


(* Where the payload of the write in progress can be once it was written.    *)
InFlight == {"pulse_high", "pulse_low", "verdict"}

(* As long as SPI works a step of the shared paths is of one of four kinds:  *)
(* it does not touch the write path, it starts a write, it hands the payload *)
(* to the radio, or it pulses CE.                                            *)
LEMMA ModeKinds ==
  ASSUME ~SpiFaults, ModeStep
  PROVE  /\ pc \notin {"receive", "verdict", "ret"}
         /\ UNCHANGED <<onAir, sent, results, rxFifo, arrived, lastRead>>
         /\ \/ /\ pc \notin InFlight /\ pc' \notin InFlight
               /\ UNCHANGED <<txFifo, writes>> /\ status' \in {status, {}}
               /\ pc' \in StopLabels \cup {"payload"} => pc \in StopLabels
               /\ pc' # "ret"
            \/ /\ pc = "idle" /\ pc' \in StopLabels \cup {"payload"}
               /\ writes' = writes + 1 /\ UNCHANGED <<status, txFifo>>
            \/ /\ pc = "payload" /\ pc' = "pulse_high" /\ UNCHANGED <<status, writes>>
               /\ txFifo' = IF Len(txFifo) < FifoDepth THEN Append(txFifo, writes) ELSE txFifo
            \/ /\ pc \in InFlight /\ pc' \in InFlight
               /\ UNCHANGED <<status, txFifo, writes>>
<1> USE DEF InFlight, StopLabels
<1>1. CASE CallRead
  BY <1>1 DEF CallRead, chipVars
<1>2. CASE ListenPrimRx \/ ListenCe \/ ListenWidth \/ ListenPower
  BY <1>2 DEF ListenPrimRx, ListenCe, ListenWidth, ListenPower, Goto
<1>3. CASE CallWrite
  BY <1>3 DEF CallWrite, chipVars
<1>4. CASE StopCe \/ StopPrimRx \/ StopPower
  BY <1>4 DEF StopCe, StopPrimRx, StopPower, Goto
<1>5. CASE StopFlag
  BY <1>5 DEF StopFlag, chipVars
<1>6. CASE StopClear
  BY <1>6 DEF StopClear, ClearIrq, Transceive, Goto
<1>7. CASE WritePayload
  BY <1>7 DEF WritePayload, Transceive, Goto
<1>8. CASE PulseHigh \/ PulseLow
  BY <1>8 DEF PulseHigh, PulseLow, Goto
<1> QED
  BY <1>1, <1>2, <1>3, <1>4, <1>5, <1>6, <1>7, <1>8 DEF ModeStep

(* Nothing but the radio's hearing and read_payload touches what the mailbox *)
(* is made of.                                                               *)
LEMMA MailboxQuiet ==
  ASSUME ModeStep \/ ChipTxStart \/ ChipTxDone \/ ChipTxFail
  PROVE  UNCHANGED <<arrived, rxFifo>>
<1>1. CASE ChipTxStart \/ ChipTxDone \/ ChipTxFail
  BY <1>1 DEF ChipTxStart, ChipTxDone, ChipTxFail
<1>2. CASE CallRead \/ CallWrite \/ StopFlag
  BY <1>2 DEF CallRead, CallWrite, StopFlag, chipVars
<1>3. CASE ListenPrimRx \/ ListenCe \/ ListenWidth \/ ListenPower
  BY <1>3 DEF ListenPrimRx, ListenCe, ListenWidth, ListenPower
<1>4. CASE StopCe \/ StopPrimRx \/ StopPower \/ StopClear
  BY <1>4 DEF StopCe, StopPrimRx, StopPower, StopClear
<1>5. CASE WritePayload \/ PulseHigh \/ PulseLow
  BY <1>5 DEF WritePayload, PulseHigh, PulseLow
<1> QED
  BY <1>1, <1>2, <1>3, <1>4, <1>5 DEF ModeStep

(* Switching and transmitting hand no packet to the caller.                  *)
LEMMA MailboxLastRead ==
  ASSUME ModeStep
  PROVE  UNCHANGED lastRead
<1>1. CASE CallRead \/ CallWrite \/ StopFlag
  BY <1>1 DEF CallRead, CallWrite, StopFlag
<1>2. CASE ListenPrimRx \/ ListenCe \/ ListenWidth \/ ListenPower
  BY <1>2 DEF ListenPrimRx, ListenCe, ListenWidth, ListenPower, Goto
<1>3. CASE StopCe \/ StopPrimRx \/ StopPower \/ StopClear
  BY <1>3 DEF StopCe, StopPrimRx, StopPower, StopClear, Goto
<1>4. CASE WritePayload \/ PulseHigh \/ PulseLow
  BY <1>4 DEF WritePayload, PulseHigh, PulseLow, Goto
<1> QED
  BY <1>1, <1>2, <1>3, <1>4 DEF ModeStep
=============================================================================
