-------------------------- MODULE Nrf24PollingProofs --------------------------
(***************************************************************************)
(* Proof that in the polling build every write returns the fate of its own  *)
(* payload, for every number of packets and writes and any FIFO depth, as   *)
(* long as SPI transactions succeed.                                        *)
(***************************************************************************)
EXTENDS Nrf24Polling, Nrf24ModeProofs

TxFlags == status \cap {"TX_DS", "MAX_RT"}

(* The payload of the write in progress is not out yet, or it is.            *)
Unsent ==
  /\ txFifo = <<writes>>
  /\ onAir \in {0, writes}
  /\ writes \notin sent
  /\ "TX_DS" \notin status
  /\ onAir # 0 => "MAX_RT" \notin status

Emitted ==
  /\ txFifo = <<>>
  /\ onAir = 0
  /\ writes \in sent
  /\ "TX_DS" \in status
  /\ "MAX_RT" \notin status

(* The loop's position fits the call, and what it has seen is still so.      *)
LoopInv ==
  /\ pc \notin {"receive", "verdict"} => poll = "ask"
  /\ pc = "receive" => poll \in {"ask", "payload", "read_clear"}
  /\ poll = "status" => TxFlags # {}
  /\ poll = "ok_clear" => Emitted
  /\ poll = "flush" => Unsent /\ "MAX_RT" \in status
  /\ poll = "fail_clear" => txFifo = <<>> /\ onAir = 0 /\ writes \notin sent

FlightInv ==
  /\ pc # "ret"
  /\ pc \notin InFlight => txFifo = <<>> /\ onAir = 0 /\ TxFlags = {}
  /\ pc \in InFlight /\ poll # "fail_clear" => Unsent \/ Emitted

(* Results are only of writes made, and agree with what was sent.            *)
HistoryInv ==
  \A w \in WriteIds :
    /\ w \in sent => w <= writes
    /\ w > writes => results[w] = "none"
    /\ results[w] = "ok" => w \in sent
    /\ results[w] = "eio" => w \notin sent
    /\ w = writes /\ pc \in InFlight \cup StopLabels \cup {"payload"} => results[w] = "none"
    /\ w = writes /\ pc \in StopLabels \cup {"payload"} => w \notin sent

PollInv == LoopInv /\ FlightInv /\ HistoryInv

(* The initial state is well typed ...                                       *)
LEMMA PollTypeInit == Init => TypeOK
  BY InitType DEF Init, TypeOK, PollLabels

(* ... and every step keeps the types.                                       *)
LEMMA PollTypeStep == TypeOK /\ [Next]_vars => TypeOK'
<1> USE ChipAssumption, ModeAssumption DEF ChipAssumption, ModeAssumption
<1> SUFFICES ASSUME TypeOK, [Next]_vars
             PROVE  TypeOK'
  OBVIOUS
<1>1. CASE Radio
  BY <1>1, ChipStepType DEF Radio, TypeOK, ModeTypeOK, modeVars
<1>2. CASE Shared
  BY <1>2, ModeStepType DEF Shared, TypeOK
<1>3. CASE AskFifo \/ AskTxDs \/ AskMaxRt \/ Decide
  <2>1. poll' \in PollLabels /\ UNCHANGED <<chipVars, modeVars>>
    BY <1>3 DEF AskFifo, AskTxDs, AskMaxRt, Decide, Poll, PollLabels
  <2> QED
    BY <2>1 DEF TypeOK, ChipTypeOK, ModeTypeOK, chipVars, modeVars
<1>4. CASE ReadPayload
  <2>1. rxFifo \in Seq(Nat) /\ Len(rxFifo) <= FifoDepth /\ lastRead \in Nat
    BY DEF TypeOK, ChipTypeOK, ModeTypeOK
  <2>2. rxFifo' \in Seq(Nat) /\ Len(rxFifo') <= FifoDepth /\ lastRead' \in Nat
    <3>1. CASE UNCHANGED <<rxFifo, lastRead>>
      BY <2>1, <3>1
    <3>2. CASE rxFifo # <<>> /\ rxFifo' = Tail(rxFifo) /\ lastRead' = Head(rxFifo)
      BY <2>1, <3>2
    <3> QED
      BY <1>4, <3>1, <3>2 DEF ReadPayload
  <2>3. poll' \in PollLabels /\ pc' \in {pc, "idle"}
    BY <1>4 DEF ReadPayload, Poll, PollLabels
  <2> QED
    BY <1>4, <2>2, <2>3 DEF ReadPayload, TypeOK, ChipTypeOK, ModeTypeOK, ModeLabels,
                            StopLabels, SendLabels
<1>5. CASE ReadClear
  <2>1. status' \in SUBSET Flags /\ poll' \in PollLabels /\ pc' = "idle"
    BY <1>5 DEF ReadClear, Poll, PollLabels, ClearIrq, Transceive, TypeOK, ChipTypeOK
  <2> QED
    BY <1>5, <2>1 DEF ReadClear, TypeOK, ChipTypeOK, ModeTypeOK, ModeLabels, StopLabels,
                      SendLabels
<1>6. CASE Flush
  <2>1. txFifo' \in Seq(WriteIds) /\ Len(txFifo') <= FifoDepth
    <3>1. txFifo' = txFifo \/ txFifo' = <<>>
      BY <1>6 DEF Flush, Transceive
    <3>2. CASE txFifo' = txFifo
      BY <3>2 DEF TypeOK, ChipTypeOK
    <3>3. CASE txFifo' = <<>>
      BY <3>3
    <3> QED
      BY <3>1, <3>2, <3>3
  <2>2. poll' \in PollLabels
    BY <1>6 DEF Flush, Poll, PollLabels
  <2> QED
    BY <1>6, <2>1, <2>2 DEF Flush, TypeOK, ChipTypeOK, ModeTypeOK, modeVars
<1>7. CASE FailClear \/ OkClear
  <2>1. status' \in SUBSET Flags /\ poll' \in PollLabels
    BY <1>7 DEF FailClear, OkClear, FlagsCleared, Poll, PollLabels, ClearIrq, Transceive,
                TypeOK, ChipTypeOK
  <2>2. results' \in [WriteIds -> Results] /\ pc' = "idle"
    BY <1>7 DEF FailClear, OkClear, Return, Results, TypeOK, ModeTypeOK
  <2> QED
    BY <1>7, <2>1, <2>2 DEF FailClear, OkClear, FlagsCleared, Return, TypeOK, ChipTypeOK,
                            ModeTypeOK, ModeLabels, StopLabels, SendLabels
<1>8. CASE UNCHANGED vars
  BY <1>8 DEF vars, chipVars, modeVars, TypeOK, ChipTypeOK, ModeTypeOK
<1> QED
  BY <1>1, <1>2, <1>3, <1>4, <1>5, <1>6, <1>7, <1>8 DEF Next, App

(* The driver's and the radio's state keep their types; no FIFO overruns.    *)
THEOREM PollTypeCorrect == Spec => []TypeOK
  BY PollTypeInit, PollTypeStep, PTL DEF Spec

(* The shared paths keep the invariant.                                      *)
LEMMA SharedInv ==
  ASSUME ~SpiFaults, TypeOK, PollInv, Shared
  PROVE  PollInv'
<1> USE ChipAssumption DEF ChipAssumption
<1>1. /\ poll = "ask" /\ poll' = "ask"
      /\ UNCHANGED <<onAir, sent, results>>
  BY ModeKinds DEF Shared, PollInv, LoopInv
<1>2. LoopInv'
  BY <1>1 DEF LoopInv
<1>3. CASE /\ pc \notin InFlight /\ pc' \notin InFlight
           /\ UNCHANGED <<txFifo, writes>> /\ status' \in {status, {}}
           /\ pc' \in StopLabels \cup {"payload"} => pc \in StopLabels
           /\ pc' # "ret"
  <2>1. FlightInv'
    BY <1>1, <1>3 DEF PollInv, FlightInv, TxFlags
  <2>2. HistoryInv'
    BY <1>1, <1>3 DEF PollInv, HistoryInv
  <2> QED
    BY <1>2, <2>1, <2>2 DEF PollInv
<1>4. CASE /\ pc = "idle" /\ pc' \in StopLabels \cup {"payload"}
           /\ writes' = writes + 1 /\ UNCHANGED <<status, txFifo>>
  <2>1. FlightInv'
    BY <1>1, <1>4 DEF PollInv, FlightInv, TxFlags, InFlight, StopLabels
  <2>2. HistoryInv'
    BY <1>1, <1>4 DEF PollInv, HistoryInv, InFlight, StopLabels, TypeOK, ModeTypeOK, WriteIds
  <2> QED
    BY <1>2, <2>1, <2>2 DEF PollInv
<1>5. CASE /\ pc = "payload" /\ pc' = "pulse_high" /\ UNCHANGED <<status, writes>>
           /\ txFifo' = IF Len(txFifo) < FifoDepth THEN Append(txFifo, writes) ELSE txFifo
  <2>1. txFifo = <<>> /\ onAir = 0 /\ TxFlags = {}
    BY <1>5 DEF PollInv, FlightInv, InFlight
  <2>2. txFifo' = <<writes>>
    BY <1>5, <2>1
  <2>3. writes \in WriteIds
    BY <1>5 DEF TypeOK, ModeTypeOK, SendLabels
  <2>4. writes \notin sent
    BY <1>5, <2>3 DEF PollInv, HistoryInv
  <2>5. FlightInv'
    <3>1. Unsent'
      BY <1>1, <1>5, <2>1, <2>2, <2>4 DEF Unsent, TxFlags
    <3> QED
      BY <1>5, <3>1 DEF FlightInv, InFlight
  <2>6. HistoryInv'
    BY <1>1, <1>5 DEF PollInv, HistoryInv, InFlight, StopLabels
  <2> QED
    BY <1>2, <2>5, <2>6 DEF PollInv
<1>6. CASE /\ pc \in InFlight /\ pc' \in InFlight
           /\ UNCHANGED <<status, txFifo, writes>>
  <2>0. pc # "ret" /\ pc' # "ret"
    BY <1>6 DEF InFlight
  <2>1. FlightInv'
    BY <1>1, <1>6, <2>0 DEF PollInv, FlightInv, Unsent, Emitted
  <2>2. HistoryInv'
    BY <1>1, <1>6 DEF PollInv, HistoryInv, InFlight, StopLabels
  <2> QED
    BY <1>2, <2>1, <2>2 DEF PollInv
<1> QED
  BY <1>3, <1>4, <1>5, <1>6, ModeKinds DEF Shared

(* The radio's own steps keep the invariant.                                 *)
LEMMA RadioInv ==
  ASSUME TypeOK, PollInv, Radio
  PROVE  PollInv'
<1>1. UNCHANGED <<pc, writes, results, poll>> /\ ChipStep
  BY DEF Radio, modeVars
<1>2. CASE ChipReceive
  <2>1. UNCHANGED <<onAir, sent, txFifo>> /\ TxFlags' = TxFlags
        /\ status' \in {status, status \cup {"RX_DR"}}
    BY <1>2 DEF ChipReceive, TxFlags
  <2>2. (Unsent' <=> Unsent) /\ (Emitted' <=> Emitted)
    BY <1>1, <2>1 DEF Unsent, Emitted
  <2>3. LoopInv'
    BY <1>1, <2>1, <2>2 DEF PollInv, LoopInv
  <2>4. FlightInv'
    BY <1>1, <2>1, <2>2 DEF PollInv, FlightInv
  <2>5. HistoryInv'
    BY <1>1, <2>1 DEF PollInv, HistoryInv
  <2> QED
    BY <2>3, <2>4, <2>5 DEF PollInv
<1>3. CASE ChipTxStart
  <2>1. /\ UNCHANGED <<status, sent, txFifo>>
        /\ onAir' = Head(txFifo) /\ txFifo # <<>> /\ "MAX_RT" \notin status
    BY <1>3 DEF ChipTxStart, CanTransmit
  <2>2. pc \in InFlight /\ Unsent /\ poll # "fail_clear"
    BY <2>1 DEF PollInv, FlightInv, LoopInv, Emitted
  <2>3. Unsent'
    BY <1>1, <2>1, <2>2 DEF Unsent
  <2>4. poll \notin {"ok_clear", "flush"}
    BY <2>1, <2>2 DEF PollInv, LoopInv, Unsent, Emitted
  <2>5. LoopInv'
    BY <1>1, <2>1, <2>2, <2>4 DEF PollInv, LoopInv, TxFlags
  <2>6. FlightInv'
    BY <1>1, <2>2, <2>3 DEF PollInv, FlightInv
  <2>7. HistoryInv'
    BY <1>1, <2>1 DEF PollInv, HistoryInv
  <2> QED
    BY <2>5, <2>6, <2>7 DEF PollInv
<1>4. CASE ChipTxDone \/ ChipTxFail
  <2>1. onAir # 0
    BY <1>4 DEF ChipTxDone, ChipTxFail
  <2>2. pc \in InFlight /\ Unsent /\ poll # "fail_clear" /\ "MAX_RT" \notin status
    BY <2>1 DEF PollInv, FlightInv, LoopInv, Emitted, Unsent
  <2>3. poll \notin {"ok_clear", "flush", "status"}
    BY <2>1, <2>2 DEF PollInv, LoopInv, Unsent, Emitted, TxFlags
  <2>4. LoopInv'
    BY <1>1, <2>2, <2>3 DEF PollInv, LoopInv
  <2>5. writes \in WriteIds
    BY <2>2 DEF TypeOK, ModeTypeOK, InFlight, SendLabels
  <2>6. CASE ChipTxDone
    <3>1. Emitted'
      BY <1>1, <2>1, <2>2, <2>6 DEF ChipTxDone, Emitted, Unsent
    <3>2. sent' = sent \cup {writes}
      BY <2>1, <2>2, <2>6 DEF ChipTxDone, Unsent
    <3>3. FlightInv'
      BY <1>1, <2>2, <3>1 DEF PollInv, FlightInv
    <3>4. pc \notin StopLabels \cup {"payload"} /\ results[writes] = "none"
      BY <2>2, <2>5 DEF PollInv, HistoryInv, InFlight, StopLabels
    <3>5. HistoryInv'
      BY <1>1, <2>5, <3>2, <3>4 DEF PollInv, HistoryInv, WriteIds
    <3> QED
      BY <2>4, <3>3, <3>5 DEF PollInv
  <2>7. CASE ChipTxFail
    <3>1. Unsent'
      BY <1>1, <2>1, <2>2, <2>7 DEF ChipTxFail, Unsent
    <3>2. FlightInv'
      BY <1>1, <2>2, <3>1 DEF PollInv, FlightInv
    <3>3. HistoryInv'
      BY <1>1, <2>7 DEF ChipTxFail, PollInv, HistoryInv
    <3> QED
      BY <2>4, <3>2, <3>3 DEF PollInv
  <2> QED
    BY <1>4, <2>6, <2>7
<1> QED
  BY <1>1, <1>2, <1>3, <1>4 DEF ChipStep

(* The polling loops keep the invariant.                                     *)
LEMMA LoopStepInv ==
  ASSUME ~SpiFaults, TypeOK, PollInv,
         AskFifo \/ ReadPayload \/ ReadClear \/ AskTxDs \/ AskMaxRt \/ Decide \/ Flush
           \/ FailClear \/ OkClear
  PROVE  PollInv'
<1> USE DEF ReadRegister, Transceive, Poll
<1>1. CASE AskFifo
  <2>1. UNCHANGED <<chipVars, modeVars>> /\ pc = "receive" /\ poll' \in {"ask", "payload"}
    BY <1>1 DEF AskFifo
  <2> QED
    BY <2>1 DEF PollInv, LoopInv, FlightInv, HistoryInv, chipVars, modeVars, InFlight, TxFlags
<1>2. CASE ReadPayload
  <2>1. /\ UNCHANGED <<pc, writes, results, status, txFifo, onAir, sent>>
        /\ pc = "receive" /\ poll' = "read_clear"
    BY <1>2 DEF ReadPayload
  <2> QED
    BY <2>1 DEF PollInv, LoopInv, FlightInv, HistoryInv, InFlight, TxFlags
<1>3. CASE ReadClear
  <2>1. /\ UNCHANGED <<writes, results, txFifo, onAir, sent>> /\ status' = {}
        /\ pc = "receive" /\ poll' = "ask" /\ pc' = "idle"
    BY <1>3 DEF ReadClear, ClearIrq
  <2> QED
    BY <2>1 DEF PollInv, LoopInv, FlightInv, HistoryInv, InFlight, TxFlags, StopLabels
<1>4. CASE AskTxDs \/ AskMaxRt
  <2>1. /\ UNCHANGED <<chipVars, modeVars>> /\ pc = "verdict"
        /\ poll \in {"ask", "ask_max"} /\ poll' \in {"ask", "ask_max", "status"}
        /\ poll' = "status" => TxFlags # {}
    BY <1>4 DEF AskTxDs, AskMaxRt, TxFlags
  <2>2. Unsent \/ Emitted
    BY <2>1 DEF PollInv, FlightInv, InFlight
  <2>3. (Unsent' <=> Unsent) /\ (Emitted' <=> Emitted) /\ TxFlags' = TxFlags
    BY <2>1 DEF chipVars, modeVars, Unsent, Emitted, TxFlags
  <2> QED
    BY <2>1, <2>2, <2>3 DEF PollInv, LoopInv, FlightInv, HistoryInv, chipVars, modeVars, InFlight
<1>5. CASE Decide
  <2>1. /\ UNCHANGED <<chipVars, modeVars>> /\ pc = "verdict" /\ poll = "status"
        /\ poll' = IF "MAX_RT" \in status THEN "flush" ELSE "ok_clear"
    BY <1>5 DEF Decide
  <2>2. (Unsent \/ Emitted) /\ TxFlags # {}
    BY <2>1 DEF PollInv, FlightInv, LoopInv, InFlight
  <2>3. IF "MAX_RT" \in status THEN Unsent ELSE Emitted
    BY <2>2 DEF Unsent, Emitted, TxFlags
  <2>4. (Unsent' <=> Unsent) /\ (Emitted' <=> Emitted) /\ TxFlags' = TxFlags
    BY <2>1 DEF chipVars, modeVars, Unsent, Emitted, TxFlags
  <2> QED
    BY <2>1, <2>2, <2>3, <2>4
       DEF PollInv, LoopInv, FlightInv, HistoryInv, chipVars, modeVars, InFlight
<1>6. CASE Flush
  <2>1. /\ UNCHANGED <<modeVars, status, onAir, sent>> /\ pc = "verdict" /\ poll = "flush"
        /\ poll' = "fail_clear" /\ txFifo' = <<>>
    BY <1>6 DEF Flush
  <2>2. Unsent /\ "MAX_RT" \in status
    BY <2>1 DEF PollInv, LoopInv
  <2>3. onAir = 0 /\ writes \notin sent
    BY <2>2 DEF Unsent
  <2> QED
    BY <2>1, <2>3 DEF PollInv, LoopInv, FlightInv, HistoryInv, modeVars, InFlight
<1>7. CASE FailClear \/ OkClear
  <2>1. /\ UNCHANGED <<writes, txFifo, onAir, sent>> /\ status' = {}
        /\ pc = "verdict" /\ poll' = "ask" /\ pc' = "idle"
        /\ \/ poll = "fail_clear" /\ results' = [results EXCEPT ![writes] = "eio"]
           \/ poll = "ok_clear" /\ results' = [results EXCEPT ![writes] = "ok"]
    BY <1>7 DEF FailClear, OkClear, FlagsCleared, ClearIrq, Return
  <2>2. writes \in WriteIds
    BY <2>1 DEF TypeOK, ModeTypeOK, SendLabels
  <2>3. /\ txFifo = <<>> /\ onAir = 0
        /\ poll = "fail_clear" => writes \notin sent
        /\ poll = "ok_clear" => writes \in sent
    BY <2>1 DEF PollInv, LoopInv, Emitted
  <2>4. LoopInv' /\ FlightInv'
    BY <2>1, <2>3 DEF LoopInv, FlightInv, InFlight, TxFlags
  <2>5. results \in [WriteIds -> Results]
    BY DEF TypeOK, ModeTypeOK
  <2>6. HistoryInv'
    <3> SUFFICES ASSUME NEW w \in WriteIds
                 PROVE  /\ w \in sent => w <= writes
                        /\ w > writes => results'[w] = "none"
                        /\ results'[w] = "ok" => w \in sent
                        /\ results'[w] = "eio" => w \notin sent
      BY <2>1 DEF HistoryInv, InFlight, StopLabels
    <3>1. CASE w = writes
      <4>1. \/ writes \notin sent /\ results'[writes] = "eio"
            \/ writes \in sent /\ results'[writes] = "ok"
        BY <2>1, <2>2, <2>3, <2>5
      <4>2. w <= writes /\ ~(w > writes)
        BY <3>1 DEF WriteIds
      <4> QED
        BY <3>1, <4>1, <4>2
    <3>2. CASE w # writes
      <4>1. results'[w] = results[w]
        BY <2>1, <2>2, <2>5, <3>2
      <4> QED
        BY <4>1 DEF PollInv, HistoryInv
    <3> QED
      BY <3>1, <3>2
  <2> QED
    BY <2>4, <2>6 DEF PollInv
<1> QED
  BY <1>1, <1>2, <1>3, <1>4, <1>5, <1>6, <1>7

(* What holds throughout; the strengthening as long as SPI works.            *)
Inv == TypeOK /\ (~SpiFaults => PollInv)

(* Every step of radio and caller keeps it.                                  *)
LEMMA PollInvariant == Spec => []Inv
<1> USE DEF Inv
<1>1. Init => Inv
  <2> SUFFICES ASSUME Init
               PROVE  PollInv
    BY PollTypeInit
  <2>1. ChipInit /\ ModeInit /\ poll = "ask"
    BY DEF Init
  <2>2. LoopInv /\ FlightInv
    BY <2>1 DEF ChipInit, ModeInit, LoopInv, FlightInv, InFlight, TxFlags
  <2>3. HistoryInv
    BY <2>1 DEF ChipInit, ModeInit, HistoryInv, InFlight, StopLabels
  <2> QED
    BY <2>2, <2>3 DEF PollInv
<1>2. Inv /\ [Next]_vars => Inv'
  <2> SUFFICES ASSUME TypeOK, ~SpiFaults, PollInv, [Next]_vars
               PROVE  PollInv'
    BY PollTypeStep
  <2>1. CASE Radio
    BY <2>1, RadioInv
  <2>2. CASE Shared
    BY <2>2, SharedInv
  <2>3. CASE App /\ ~Shared
    BY <2>3, LoopStepInv DEF App
  <2>4. CASE UNCHANGED vars
    BY <2>4 DEF vars, chipVars, modeVars, PollInv, LoopInv, FlightInv, HistoryInv, Unsent,
                Emitted, TxFlags
  <2> QED
    BY <2>1, <2>2, <2>3, <2>4 DEF Next
<1> HIDE DEF Inv
<1> QED
  BY <1>1, <1>2, PTL DEF Spec

(* As long as SPI works, no write is ever answered with anything but the     *)
(* fate of its own payload, ...                                              *)
THEOREM PollingVerdicts == Spec => []VerdictMatches
<1>1. Inv => VerdictMatches
  BY DEF Inv, PollInv, HistoryInv, VerdictMatches
<1> QED
  BY <1>1, PollInvariant, PTL

(* ... and between two calls neither a payload nor a flag of a write is left *)
(* in the radio, whatever number of writes came before and however each of   *)
(* them ended.                                                               *)
THEOREM PollingLeavesNothing == Spec => []NothingLeftOver
<1>1. Inv => NothingLeftOver
  BY DEF Inv, PollInv, FlightInv, TxFlags, InFlight, NothingLeftOver, ListenLabels, StopLabels
<1> QED
  BY <1>1, PollInvariant, PTL

(* The polling build implements the abstract mailbox, SPI and GPIO faults    *)
(* included: the radio hears, read_payload delivers, and no other step       *)
(* loses, repeats or reorders a packet.                                      *)
THEOREM PollingMailbox == Spec => MailboxSpec
<1>1. Init => Mailbox!Init
  BY DEF Init, ChipInit, ModeInit, Mailbox!Init
<1>2. [Next]_vars => [Mailbox!Next]_(Mailbox!mailboxVars)
  <2> SUFFICES ASSUME [Next]_vars
               PROVE  Mailbox!Next \/ UNCHANGED <<arrived, rxFifo, lastRead>>
    BY DEF Mailbox!mailboxVars
  <2>1. CASE Radio
    <3>1. CASE ChipReceive
      <4>1. /\ arrived' = arrived + 1 /\ lastRead' = lastRead
            /\ rxFifo' \in {rxFifo, Append(rxFifo, arrived')}
        BY <2>1, <3>1 DEF ChipReceive, Radio, modeVars
      <4> QED
        BY <4>1 DEF Mailbox!Next, Mailbox!Hear
    <3>2. CASE ChipTxStart \/ ChipTxDone \/ ChipTxFail
      BY <2>1, <3>2, MailboxQuiet DEF Radio, modeVars
    <3> QED
      BY <2>1, <3>1, <3>2 DEF Radio, ChipStep
  <2>2. CASE Shared
    BY <2>2, MailboxQuiet, MailboxLastRead DEF Shared
  <2>3. CASE ReadPayload
    <3>1. CASE rxFifo # <<>> /\ lastRead' = Head(rxFifo) /\ rxFifo' = Tail(rxFifo)
      <4>1. arrived' = arrived
        BY <2>3 DEF ReadPayload
      <4> QED
        BY <3>1, <4>1 DEF Mailbox!Next, Mailbox!Deliver
    <3>2. CASE UNCHANGED <<lastRead, rxFifo>>
      BY <2>3, <3>2 DEF ReadPayload
    <3> QED
      BY <2>3, <3>1, <3>2 DEF ReadPayload
  <2>4. CASE AskFifo \/ AskTxDs \/ AskMaxRt \/ Decide
    BY <2>4 DEF AskFifo, AskTxDs, AskMaxRt, Decide, chipVars, modeVars
  <2>5. CASE ReadClear \/ Flush
    BY <2>5 DEF ReadClear, Flush, modeVars
  <2>6. CASE FailClear \/ OkClear
    BY <2>6 DEF FailClear, OkClear, FlagsCleared, Return
  <2>7. CASE UNCHANGED vars
    BY <2>7 DEF vars, chipVars, modeVars
  <2> QED
    BY <2>1, <2>2, <2>3, <2>4, <2>5, <2>6, <2>7 DEF Next, App
<1> QED
  BY <1>1, <1>2, PTL DEF Spec, MailboxSpec, Mailbox!Spec
=============================================================================
