-------------------------- MODULE Nrf24VerdictProofs --------------------------
(***************************************************************************)
(* The result of nrf24l01_write in the interrupt-driven build: until a      *)
(* write times out, what nrf24_write returns is the fate of its own         *)
(* payload.  The verdict travels from a STATUS flag through the work queue  *)
(* handler, write_ret_code and the semaphore to the writer, so the argument *)
(* follows it: while a payload is in flight exactly one of the places on    *)
(* that way holds its verdict.                                              *)
(***************************************************************************)
EXTENDS Nrf24TriggerProofs

(* The labels of the handler's branches for TX_DS and for MAX_RT.            *)
TxWork == {"tx_ce", "tx_give"}
RtWork == {"rt_ce", "rt_flush", "rt_give"}

TxFlags == status \cap {"TX_DS", "MAX_RT"}

(* Payloads in the radio, waiting or on air.                                 *)
Inside == {txFifo[i] : i \in DOMAIN txFifo} \cup {onAir}
RadioEmpty == txFifo = <<>> /\ onAir = 0

(* write_ret_code is the fate of the payload written last.                   *)
Matches ==
  /\ retCode = "ok" => writes \in sent
  /\ retCode = "max_rt" => writes \notin sent

(* Nothing is left to do for a payload, except that the handler may still    *)
(* have to clear the flag it has already answered for.                       *)
Settled ==
  /\ RadioEmpty
  /\ hpc \notin TxWork \cup RtWork
  /\ TxFlags # {} => hpc = "clear"

(* The places the verdict on the payload in flight can be: not reached yet,  *)
(* or in MAX_RT; with the handler after the flush; in TX_DS or with the      *)
(* handler; in the semaphore.                                                *)
Unsent ==
  /\ txFifo = <<writes>>
  /\ onAir \in {0, writes}
  /\ writes \notin sent
  /\ sem = 0
  /\ hpc \notin TxWork \cup {"rt_give"}
  /\ "TX_DS" \in status => hpc = "clear"
  /\ hpc \in RtWork => "MAX_RT" \in status

Flushed == RadioEmpty /\ writes \notin sent /\ sem = 0 /\ hpc = "rt_give"

Emitted ==
  /\ RadioEmpty
  /\ writes \in sent
  /\ sem = 0
  /\ hpc \notin RtWork
  /\ "MAX_RT" \notin status

Given == Settled /\ sem = 1 /\ Matches

Clean == \A v \in WriteIds : results[v] # "etime"

(* A raised MAX_RT keeps the radio from transmitting.                        *)
FlagInv == "MAX_RT" \in status => onAir = 0

(* A payload is unknown to the radio before its write hands it over, and a   *)
(* write has no result before it returns.                                    *)
HistoryInv ==
  /\ \A w \in WriteIds : w > writes => results[w] = "none" /\ w \notin sent /\ w \notin Inside
  /\ pc \in StopLabels \cup SendLabels => results[writes] = "none"
  /\ pc \in StopLabels \cup {"payload"} => writes \notin sent /\ writes \notin Inside

(* The results of the writes that returned.  A payload whose write returned  *)
(* MAX_RT has left the radio and can never be sent.                          *)
PastInv ==
  \A w \in WriteIds :
    (\A v \in 1 .. w : results[v] # "etime") =>
      /\ results[w] = "ok" => w \in sent
      /\ results[w] = "max_rt" => w \notin sent /\ w \notin Inside

(* The write in progress.                                                    *)
PhaseInv ==
  Clean =>
    /\ pc \notin InFlight \cup {"ret"} => Settled /\ sem = 0
    /\ pc = "ret" => Settled /\ sem = 0 /\ Matches
    /\ pc \in InFlight => Unsent \/ Flushed \/ Emitted \/ Given

VerdictInv == FlagInv /\ HistoryInv /\ PastInv /\ PhaseInv

-----------------------------------------------------------------------------

(* As long as SPI works a step of the handler is of one of these kinds.      *)
LEMMA WorkKinds ==
  ASSUME ~SpiFaults, Work
  PROVE  /\ UNCHANGED <<modeVars, onAir, sent>>
         /\ \/ /\ hpc = "idle" /\ UNCHANGED <<status, txFifo, sem, retCode>>
               /\ \/ hpc' = "fifo"
                  \/ hpc' = "tx_ce" /\ "TX_DS" \in status
                  \/ hpc' = "rt_ce" /\ "MAX_RT" \in status /\ "TX_DS" \notin status
                  \/ hpc' = "clear" /\ TxFlags = {}
            \/ /\ hpc \in {"fifo", "read", "put", "rearm"}
               /\ hpc' \in {"clear", "read", "read_clear", "idle"}
               /\ UNCHANGED <<status, txFifo, sem, retCode>>
            \/ /\ hpc \in {"read_clear", "clear"} /\ hpc' \in {"put", "rearm"}
               /\ status' = {} /\ UNCHANGED <<txFifo, sem, retCode>>
            \/ /\ \/ hpc = "tx_ce" /\ hpc' = "tx_give"
                  \/ hpc = "rt_ce" /\ hpc' = "rt_flush"
               /\ UNCHANGED <<status, txFifo, sem, retCode>>
            \/ /\ hpc = "rt_flush" /\ hpc' = "rt_give"
               /\ txFifo' = <<>> /\ UNCHANGED <<status, sem, retCode>>
            \/ /\ \/ hpc = "tx_give" /\ retCode' = "ok"
                  \/ hpc = "rt_give" /\ retCode' = "max_rt"
               /\ hpc' = "clear" /\ sem' = 1 /\ UNCHANGED <<status, txFifo>>
<1>1. CASE WorkStart
  <2>1. /\ hpc = "idle" /\ UNCHANGED <<chipVars, modeVars, syncVars>>
        /\ hpc' = IF "RX_DR" \in status THEN "fifo"
                  ELSE IF "TX_DS" \in status THEN "tx_ce"
                  ELSE IF "MAX_RT" \in status THEN "rt_ce"
                  ELSE "clear"
    BY <1>1 DEF WorkStart, ReadRegister
  <2> QED
    BY <2>1 DEF chipVars, syncVars, TxFlags
<1>2. CASE WorkFifo
  BY <1>2 DEF WorkFifo, At, chipVars, syncVars
<1>3. CASE WorkRead
  BY <1>3 DEF WorkRead, At, syncVars
<1>4. CASE WorkReadClear
  BY <1>4 DEF WorkReadClear, ClearIrq, Transceive, At, syncVars
<1>5. CASE WorkPut
  BY <1>5 DEF WorkPut, At, chipVars
<1>6. CASE WorkCeLow
  BY <1>6 DEF WorkCeLow, At, syncVars
<1>7. CASE WorkFlush
  BY <1>7 DEF WorkFlush, FlushTx, Transceive, At, syncVars
<1>8. CASE WorkGive
  BY <1>8 DEF WorkGive, SemGive, At, chipVars
<1>9. CASE WorkClear
  BY <1>9 DEF WorkClear, ClearIrq, Transceive, At, syncVars
<1>10. CASE WorkRearm
  BY <1>10 DEF WorkRearm, chipVars, syncVars
<1> QED
  BY <1>1, <1>2, <1>3, <1>4, <1>5, <1>6, <1>7, <1>8, <1>9, <1>10 DEF Work

(* A step that leaves the application thread alone, sends nothing but what   *)
(* was in the radio and puts nothing into it keeps the histories right.      *)
LEMMA HistoryFrame ==
  ASSUME TypeOK, HistoryInv, PastInv, UNCHANGED modeVars,
         sent \subseteq sent', Inside' \subseteq Inside \cup {0},
         \/ sent' = sent
         \/ onAir # 0 /\ sent' = sent \cup {onAir}
  PROVE  HistoryInv' /\ PastInv'
<1>1. UNCHANGED <<pc, writes, results>>
  BY DEF modeVars
<1>2. \A w \in WriteIds : w \notin Inside => w \notin Inside' /\ (w \notin sent => w \notin sent')
  <2> SUFFICES ASSUME NEW w \in WriteIds, w \notin Inside
               PROVE  w \notin Inside' /\ (w \notin sent => w \notin sent')
    OBVIOUS
  <2>1. w # 0
    BY ModeAssumption DEF ModeAssumption, WriteIds
  <2>2. w # onAir
    BY DEF Inside
  <2> QED
    BY <2>1, <2>2
<1>3. pc \in StopLabels \cup {"payload"} => writes \in WriteIds
  BY DEF TypeOK, ModeTypeOK, SendLabels
<1>4. HistoryInv'
  BY <1>1, <1>2, <1>3 DEF HistoryInv
<1>5. PastInv'
  BY <1>1, <1>2 DEF PastInv
<1> QED
  BY <1>4, <1>5

(* What the radio does on its own.                                           *)
LEMMA RadioStep ==
  ASSUME TypeOK, VerdictInv, Radio
  PROVE  VerdictInv'
<1> USE DEF VerdictInv
<1>1. UNCHANGED <<modeVars, hpc, sem, retCode>>
  BY DEF Radio, workVars, syncVars
<1>2. UNCHANGED <<pc, writes, results>>
  BY <1>1 DEF modeVars
<1>3. CASE ChipReceive
  <2>1. UNCHANGED <<txFifo, onAir, sent>>
    BY <1>3 DEF ChipReceive
  <2>2. TxFlags' = TxFlags /\ ("TX_DS" \in status' <=> "TX_DS" \in status)
        /\ ("MAX_RT" \in status' <=> "MAX_RT" \in status)
    BY <1>3 DEF ChipReceive, TxFlags
  <2>3. HistoryInv' /\ PastInv'
    BY <1>1, <2>1, HistoryFrame DEF Inside
  <2>4. FlagInv'
    BY <2>1, <2>2 DEF FlagInv
  <2>5. PhaseInv'
    BY <1>1, <1>2, <2>1, <2>2 DEF PhaseInv, Clean, Settled, Unsent, Flushed, Emitted, Given,
                                  Matches, RadioEmpty
  <2> QED
    BY <2>3, <2>4, <2>5
<1>4. CASE ChipTxStart
  <2>1. /\ txFifo # <<>> /\ onAir = 0 /\ onAir' = Head(txFifo) /\ "MAX_RT" \notin status
        /\ UNCHANGED <<status, txFifo, sent>>
    BY <1>4 DEF ChipTxStart, CanTransmit
  <2>2. Head(txFifo) \in Inside
    <3>1. 1 \in DOMAIN txFifo /\ Head(txFifo) = txFifo[1]
      BY <2>1 DEF TypeOK, ChipTypeOK
    <3> QED
      BY <3>1 DEF Inside
  <2>3. HistoryInv' /\ PastInv'
    <3>1. Inside' \subseteq Inside \cup {0}
      BY <2>1, <2>2 DEF Inside
    <3> QED
      BY <1>1, <2>1, <3>1, HistoryFrame
  <2>4. FlagInv'
    BY <2>1 DEF FlagInv
  <2>5. PhaseInv'
    <3> SUFFICES ASSUME Clean
                 PROVE  PhaseInv'
      BY <1>2 DEF PhaseInv, Clean
    <3>1. pc \in InFlight /\ Unsent
      BY <2>1 DEF PhaseInv, Settled, Flushed, Emitted, Given, RadioEmpty
    <3>2. onAir' = writes
      BY <2>1, <3>1 DEF Unsent, TypeOK, ModeTypeOK, InFlight, SendLabels
    <3>3. Unsent'
      BY <1>1, <1>2, <2>1, <3>1, <3>2 DEF Unsent
    <3> QED
      BY <1>2, <3>1, <3>3 DEF PhaseInv, InFlight
  <2> QED
    BY <2>3, <2>4, <2>5
<1>5. CASE ChipTxDone
  <2>1. /\ onAir # 0 /\ onAir' = 0 /\ sent' = sent \cup {onAir}
        /\ status' = status \cup {"TX_DS"}
        /\ txFifo' = IF txFifo # <<>> /\ Head(txFifo) = onAir THEN Tail(txFifo) ELSE txFifo
    BY <1>5 DEF ChipTxDone
  <2>2. "MAX_RT" \notin status /\ "MAX_RT" \notin status'
    BY <2>1 DEF FlagInv
  <2>3. HistoryInv' /\ PastInv'
    <3>1. \A i \in DOMAIN txFifo' : \E j \in DOMAIN txFifo : txFifo'[i] = txFifo[j]
      <4>1. CASE txFifo' = txFifo
        BY <4>1
      <4>2. CASE txFifo # <<>> /\ txFifo' = Tail(txFifo)
        <5> SUFFICES ASSUME NEW i \in DOMAIN Tail(txFifo)
                     PROVE  i + 1 \in DOMAIN txFifo /\ Tail(txFifo)[i] = txFifo[i + 1]
          BY <4>2
        <5> QED
          BY <4>2 DEF TypeOK, ChipTypeOK
      <4> QED
        BY <2>1, <4>1, <4>2
    <3>2. Inside' \subseteq Inside \cup {0}
      BY <2>1, <3>1 DEF Inside
    <3> QED
      BY <1>1, <2>1, <3>2, HistoryFrame
  <2>4. FlagInv'
    BY <2>2 DEF FlagInv
  <2>5. PhaseInv'
    <3> SUFFICES ASSUME Clean
                 PROVE  PhaseInv'
      BY <1>2 DEF PhaseInv, Clean
    <3>1. pc \in InFlight /\ Unsent
      BY <2>1 DEF PhaseInv, Settled, Flushed, Emitted, Given, RadioEmpty
    <3>2. onAir = writes /\ txFifo' = <<>>
      BY <2>1, <3>1 DEF Unsent, TypeOK, ChipTypeOK
    <3>3. Emitted'
      BY <1>1, <1>2, <2>1, <2>2, <3>1, <3>2 DEF Unsent, Emitted, RadioEmpty
    <3> QED
      BY <1>2, <3>1, <3>3 DEF PhaseInv, InFlight
  <2> QED
    BY <2>3, <2>4, <2>5
<1>6. CASE ChipTxFail
  <2>1. /\ onAir # 0 /\ onAir' = 0 /\ status' = status \cup {"MAX_RT"}
        /\ UNCHANGED <<txFifo, sent>>
    BY <1>6 DEF ChipTxFail
  <2>2. HistoryInv' /\ PastInv'
    <3>1. Inside' \subseteq Inside \cup {0}
      BY <2>1 DEF Inside
    <3> QED
      BY <1>1, <2>1, <3>1, HistoryFrame
  <2>3. FlagInv'
    BY <2>1 DEF FlagInv
  <2>4. PhaseInv'
    <3> SUFFICES ASSUME Clean
                 PROVE  PhaseInv'
      BY <1>2 DEF PhaseInv, Clean
    <3>1. pc \in InFlight /\ Unsent
      BY <2>1 DEF PhaseInv, Settled, Flushed, Emitted, Given, RadioEmpty
    <3>2. Unsent'
      BY <1>1, <1>2, <2>1, <3>1 DEF Unsent
    <3> QED
      BY <1>2, <3>1, <3>2 DEF PhaseInv, InFlight
  <2> QED
    BY <2>2, <2>3, <2>4
<1> QED
  BY <1>3, <1>4, <1>5, <1>6 DEF Radio, ChipStep

(* What the work queue handler does: the verdict moves from a STATUS flag to *)
(* the semaphore.                                                            *)
LEMMA WorkStep ==
  ASSUME ~SpiFaults, TypeOK, VerdictInv, Work
  PROVE  VerdictInv'
<1> USE DEF VerdictInv
<1>1. UNCHANGED <<modeVars, onAir, sent>>
  BY WorkKinds
<1>2. UNCHANGED <<pc, writes, results>>
  BY <1>1 DEF modeVars
<1>3. status' \in {status, {}} /\ txFifo' \in {txFifo, <<>>}
  BY WorkKinds
<1>4. HistoryInv' /\ PastInv'
  <2>1. Inside' \subseteq Inside \cup {0}
    BY <1>1, <1>3 DEF Inside
  <2> QED
    BY <1>1, <2>1, HistoryFrame
<1>5. FlagInv'
  BY <1>1, <1>3 DEF FlagInv
<1>6. PhaseInv'
  <2> SUFFICES ASSUME Clean
               PROVE  PhaseInv'
    BY <1>2 DEF PhaseInv, Clean
  <2> USE DEF TxWork, RtWork
  <2>1. ASSUME Settled
        PROVE  Settled' /\ UNCHANGED <<sem, retCode>>
    BY <1>1, <2>1, WorkKinds DEF Settled, RadioEmpty, TxFlags
  <2>2. ASSUME Unsent
        PROVE  Unsent' \/ Flushed'
    <3>1. UNCHANGED sem
      BY <2>2, WorkKinds DEF Unsent
    <3>2. CASE hpc = "rt_flush"
      BY <1>1, <1>2, <2>2, <3>1, <3>2, WorkKinds DEF Unsent, Flushed, RadioEmpty, FlagInv
    <3>3. CASE hpc # "rt_flush"
      BY <1>1, <1>2, <2>2, <3>1, <3>3, WorkKinds DEF Unsent, TxFlags
    <3> QED
      BY <3>2, <3>3
  <2>3. ASSUME Flushed
        PROVE  Given'
    BY <1>1, <1>2, <2>3, WorkKinds DEF Flushed, Given, Settled, RadioEmpty, Matches
  <2>4. ASSUME Emitted
        PROVE  Emitted' \/ Given'
    <3>1. CASE hpc = "tx_give"
      BY <1>1, <1>2, <2>4, <3>1, WorkKinds
         DEF Emitted, Given, Settled, RadioEmpty, Matches
    <3>2. CASE hpc # "tx_give"
      BY <1>1, <1>2, <2>4, <3>2, WorkKinds DEF Emitted, RadioEmpty
    <3> QED
      BY <3>1, <3>2
  <2>5. ASSUME Matches, UNCHANGED retCode
        PROVE  Matches'
    BY <1>1, <1>2, <2>5 DEF Matches
  <2> QED
    BY <1>2, <2>1, <2>2, <2>3, <2>4, <2>5 DEF PhaseInv, Given
<1> QED
  BY <1>4, <1>5, <1>6

(* What the application thread does on the way to the verdict.               *)
LEMMA ModePathStep ==
  ASSUME ~SpiFaults, TypeOK, TypeOK', VerdictInv, ModeStep,
         UNCHANGED <<irqVars, workVars, syncVars>>
  PROVE  VerdictInv'
<1> USE DEF VerdictInv
<1>1. UNCHANGED <<onAir, sent, results, hpc, sem, retCode>>
  BY ModeKinds DEF workVars, syncVars
<1>2. Clean' <=> Clean
  BY <1>1 DEF Clean
<1>3. CASE /\ pc \notin InFlight /\ pc' \notin InFlight
           /\ UNCHANGED <<txFifo, writes>> /\ status' \in {status, {}}
           /\ pc' \in StopLabels \cup {"payload"} => pc \in StopLabels
           /\ pc' # "ret"
  <2>1. HistoryInv'
    BY <1>1, <1>3 DEF HistoryInv, Inside, SendLabels, InFlight
  <2>2. PastInv' /\ FlagInv'
    BY <1>1, <1>3 DEF PastInv, FlagInv, Inside
  <2>3. PhaseInv'
    <3>1. pc # "ret"
      BY ModeKinds
    <3> QED
      BY <1>1, <1>2, <1>3, <3>1 DEF PhaseInv, Settled, RadioEmpty, TxFlags
  <2> QED
    BY <2>1, <2>2, <2>3
<1>4. CASE /\ pc = "idle" /\ pc' \in StopLabels \cup {"payload"}
           /\ writes' = writes + 1 /\ UNCHANGED <<status, txFifo>>
  <2>1. writes \in Nat /\ writes' \in WriteIds
    BY <1>4, ModeAssumption DEF TypeOK, ModeTypeOK, SendLabels, ModeAssumption
  <2>2. UNCHANGED Inside
    BY <1>1, <1>4 DEF Inside
  <2>3. HistoryInv'
    BY <1>1, <1>4, <2>1, <2>2, ModeAssumption DEF HistoryInv, WriteIds, ModeAssumption
  <2>4. PastInv' /\ FlagInv'
    BY <1>1, <1>4, <2>2 DEF PastInv, FlagInv
  <2>5. PhaseInv'
    BY <1>1, <1>2, <1>4 DEF PhaseInv, Settled, RadioEmpty, TxFlags, InFlight, StopLabels
  <2> QED
    BY <2>3, <2>4, <2>5
<1>5. CASE /\ pc = "payload" /\ pc' = "pulse_high" /\ UNCHANGED <<status, writes>>
           /\ txFifo' = IF Len(txFifo) < FifoDepth THEN Append(txFifo, writes) ELSE txFifo
  <2>1. writes \in WriteIds /\ results[writes] = "none"
    BY <1>5 DEF HistoryInv, TypeOK, ModeTypeOK, SendLabels
  <2>2. \A i \in DOMAIN txFifo' :
          txFifo'[i] = writes \/ \E j \in DOMAIN txFifo : txFifo'[i] = txFifo[j]
    BY <1>5, <2>1 DEF TypeOK, ChipTypeOK
  <2>3. Inside' \subseteq Inside \cup {writes}
    BY <1>1, <2>2 DEF Inside
  <2>4. HistoryInv'
    BY <1>1, <1>5, <2>1, <2>3, ModeAssumption DEF HistoryInv, StopLabels, WriteIds, ModeAssumption
  <2>5. PastInv' /\ FlagInv'
    BY <1>1, <1>5, <2>1, <2>3 DEF PastInv, FlagInv
  <2>6. PhaseInv'
    <3> SUFFICES ASSUME Clean
                 PROVE  Unsent'
      BY <1>2, <1>5 DEF PhaseInv, InFlight
    <3>1. Settled /\ sem = 0 /\ writes \notin sent
      BY <1>5 DEF PhaseInv, HistoryInv, InFlight
    <3>2. txFifo' = <<writes>>
      BY <1>5, <3>1, ChipAssumption DEF ChipAssumption, Settled, RadioEmpty
    <3> QED
      BY <1>1, <1>5, <3>1, <3>2 DEF Unsent, Settled, RadioEmpty, TxFlags, TxWork, RtWork
  <2> QED
    BY <2>4, <2>5, <2>6
<1>6. CASE /\ pc \in InFlight /\ pc' \in InFlight
           /\ UNCHANGED <<status, txFifo, writes>>
  <2>1. HistoryInv'
    BY <1>1, <1>6 DEF HistoryInv, Inside, InFlight, StopLabels, SendLabels
  <2>2. PastInv' /\ FlagInv'
    BY <1>1, <1>6 DEF PastInv, FlagInv, Inside
  <2>3. PhaseInv'
    BY <1>1, <1>2, <1>6 DEF PhaseInv, Settled, Unsent, Flushed, Emitted, Given, Matches,
                            RadioEmpty, TxFlags, InFlight
  <2> QED
    BY <2>1, <2>2, <2>3
<1> QED
  BY <1>3, <1>4, <1>5, <1>6, ModeKinds

(* A write takes the verdict and returns it.                                 *)
LEMMA VerdictStep ==
  ASSUME TypeOK, VerdictInv, WriteTake \/ WriteReturn
  PROVE  VerdictInv'
<1> USE DEF VerdictInv
<1>1. UNCHANGED <<status, txFifo, onAir, sent, writes, hpc, retCode>>
  BY DEF WriteTake, WriteReturn, Goto, Return, chipVars, workVars, syncVars
<1>2. UNCHANGED Inside /\ (Settled' <=> Settled) /\ (Matches' <=> Matches) /\ FlagInv'
  BY <1>1 DEF Inside, Settled, RadioEmpty, TxFlags, Matches, FlagInv
<1>3. CASE WriteTake
  <2>1. pc = "verdict" /\ pc' = "ret" /\ sem = 1 /\ sem' = 0 /\ UNCHANGED results
    BY <1>3 DEF WriteTake, Goto
  <2>2. HistoryInv' /\ PastInv'
    BY <1>1, <1>2, <2>1 DEF HistoryInv, PastInv, StopLabels, SendLabels
  <2>3. PhaseInv'
    BY <1>2, <2>1 DEF PhaseInv, Clean, Unsent, Flushed, Emitted, Given, InFlight
  <2> QED
    BY <1>2, <2>2, <2>3
<1>4. CASE WriteReturn
  <2>1. /\ pc = "ret" /\ pc' = "idle" /\ UNCHANGED sem
        /\ results' = [results EXCEPT ![writes] = retCode]
    BY <1>4 DEF WriteReturn, Return, syncVars
  <2>2. writes \in WriteIds /\ results[writes] = "none" /\ results \in [WriteIds -> Results]
    BY <2>1 DEF HistoryInv, TypeOK, ModeTypeOK, SendLabels
  <2>3. results'[writes] = retCode /\ \A w \in WriteIds \ {writes} : results'[w] = results[w]
    BY <2>1, <2>2
  <2>4. HistoryInv'
    BY <1>1, <1>2, <2>1, <2>2, <2>3, ModeAssumption
       DEF HistoryInv, StopLabels, SendLabels, WriteIds, ModeAssumption
  <2>5. retCode # "etime"
    BY DEF TypeOK
  <2>6. Clean' <=> Clean
    BY <2>2, <2>3, <2>5 DEF Clean
  <2>7. PhaseInv'
    BY <1>2, <2>1, <2>6 DEF PhaseInv, InFlight
  <2>8. PastInv'
    <3> SUFFICES ASSUME NEW w \in WriteIds, \A v \in 1 .. w : results'[v] # "etime"
                 PROVE  /\ results'[w] = "ok" => w \in sent
                        /\ results'[w] = "max_rt" => w \notin sent /\ w \notin Inside
      BY <1>1, <1>2 DEF PastInv
    <3>1. \A v \in 1 .. w : v \in WriteIds /\ results[v] # "etime"
      BY <2>2, <2>3, ModeAssumption DEF WriteIds, ModeAssumption
    <3>2. CASE w # writes
      BY <2>3, <3>1, <3>2 DEF PastInv
    <3>3. CASE w = writes
      <4>1. Clean
        <5> SUFFICES ASSUME NEW v \in WriteIds
                     PROVE  results[v] # "etime"
          BY DEF Clean
        <5>1. CASE v > writes
          BY <5>1 DEF HistoryInv
        <5>2. CASE v <= writes
          <6>1. v \in 1 .. w
            BY <2>2, <3>3, <5>2, ModeAssumption DEF WriteIds, ModeAssumption
          <6> QED
            BY <3>1, <6>1
        <5> QED
          BY <2>2, <5>1, <5>2, ModeAssumption DEF WriteIds, ModeAssumption
      <4>2. Settled /\ Matches
        BY <2>1, <4>1 DEF PhaseInv
      <4>3. writes \notin Inside
        BY <2>2, <4>2, ModeAssumption DEF Settled, RadioEmpty, Inside, WriteIds, ModeAssumption
      <4> QED
        BY <2>3, <3>3, <4>2, <4>3 DEF Matches
    <3> QED
      BY <3>2, <3>3
  <2> QED
    BY <1>2, <2>4, <2>7, <2>8
<1> QED
  BY <1>3, <1>4

(* A write gives up: from here on nothing is claimed about later writes.     *)
LEMMA TimeoutStep ==
  ASSUME TypeOK, VerdictInv, WriteTimeout
  PROVE  VerdictInv'
<1> USE DEF VerdictInv
<1>1. /\ pc = "verdict" /\ pc' = "idle"
      /\ results' = [results EXCEPT ![writes] = "etime"]
      /\ UNCHANGED <<status, txFifo, onAir, sent, writes>>
  BY DEF WriteTimeout, Return
<1>2. writes \in WriteIds /\ results[writes] = "none" /\ results \in [WriteIds -> Results]
  BY <1>1 DEF HistoryInv, TypeOK, ModeTypeOK, SendLabels
<1>3. results'[writes] = "etime" /\ \A w \in WriteIds \ {writes} : results'[w] = results[w]
  BY <1>1, <1>2
<1>4. UNCHANGED Inside /\ FlagInv'
  BY <1>1 DEF Inside, FlagInv
<1>5. HistoryInv'
  BY <1>1, <1>2, <1>3, <1>4, ModeAssumption
     DEF HistoryInv, StopLabels, SendLabels, WriteIds, ModeAssumption
<1>6. PhaseInv'
  BY <1>2, <1>3 DEF PhaseInv, Clean
<1>7. PastInv'
  <2> SUFFICES ASSUME NEW w \in WriteIds, \A v \in 1 .. w : results'[v] # "etime"
               PROVE  /\ results'[w] = "ok" => w \in sent
                      /\ results'[w] = "max_rt" => w \notin sent /\ w \notin Inside
    BY <1>1, <1>4 DEF PastInv
  <2>1. w < writes /\ w # writes
    BY <1>2, <1>3, ModeAssumption DEF WriteIds, ModeAssumption
  <2>2. \A v \in 1 .. w : v \in WriteIds /\ results[v] # "etime"
    BY <1>2, <1>3, <2>1, ModeAssumption DEF WriteIds, ModeAssumption
  <2> QED
    BY <1>3, <2>1, <2>2 DEF PastInv
<1> QED
  BY <1>4, <1>5, <1>6, <1>7

(* The strengthening holds where the driver starts ...                       *)
LEMMA VerdictInit == Init => VerdictInv
<1> SUFFICES ASSUME Init
             PROVE  VerdictInv
  OBVIOUS
<1> USE DEF Init, ChipInit, ModeInit
<1>1. Inside = {0}
  BY DEF Inside
<1>2. HistoryInv
  BY <1>1, ModeAssumption DEF HistoryInv, StopLabels, SendLabels, WriteIds, ModeAssumption
<1>3. FlagInv /\ PastInv
  BY DEF FlagInv, PastInv
<1>4. PhaseInv
  BY DEF PhaseInv, Settled, RadioEmpty, TxFlags, TxWork, RtWork, InFlight
<1> QED
  BY <1>2, <1>3, <1>4 DEF VerdictInv

(* ... and every step keeps it.                                              *)
LEMMA VerdictInvStep ==
  ASSUME ~SpiFaults, TypeOK, TypeOK', VerdictInv, [Next]_vars
  PROVE  VerdictInv'
<1>1. ASSUME UNCHANGED <<status, txFifo, onAir, sent, writes, results, hpc, sem, retCode>>,
             \/ pc' = pc
             \/ pc = "receive" /\ pc' = "idle"
      PROVE  VerdictInv'
  <2>1. FlagInv' /\ PastInv'
    BY <1>1 DEF VerdictInv, FlagInv, PastInv, Inside
  <2>2. HistoryInv'
    BY <1>1 DEF VerdictInv, HistoryInv, Inside, StopLabels, SendLabels
  <2>3. PhaseInv'
    BY <1>1 DEF VerdictInv, PhaseInv, Clean, Settled, Unsent, Flushed, Emitted, Given,
                Matches, RadioEmpty, TxFlags, InFlight
  <2> QED
    BY <2>1, <2>2, <2>3 DEF VerdictInv
<1>2. CASE Radio
  BY <1>2, RadioStep
<1>3. CASE IrqCallbackHandler
  BY <1>1, <1>3 DEF IrqCallbackHandler, chipVars, modeVars, workVars, syncVars
<1>4. CASE Work
  BY <1>4, WorkStep
<1>5. CASE AppStep
  <2>1. CASE ModeStep /\ UNCHANGED <<irqVars, workVars, syncVars>>
    BY <2>1, ModePathStep
  <2>2. CASE ReadGet \/ ReadTimeout
    BY <1>1, <2>2 DEF ReadGet, ReadTimeout, chipVars, workVars, syncVars
  <2>3. CASE WriteTake \/ WriteReturn
    BY <2>3, VerdictStep
  <2> QED
    BY <1>5, <2>1, <2>2, <2>3 DEF AppStep
<1>6. CASE WriteTimeout
  BY <1>6, TimeoutStep
<1>7. CASE UNCHANGED vars
  BY <1>1, <1>7 DEF vars, chipVars, modeVars, workVars, syncVars
<1> QED
  BY <1>2, <1>3, <1>4, <1>5, <1>6, <1>7 DEF Next, App

(* So it holds throughout, as long as SPI works.                             *)
LEMMA VerdictInvariant == ~SpiFaults => (Spec => []VerdictInv)
<1> SUFFICES ASSUME ~SpiFaults
             PROVE  Spec => []VerdictInv
  OBVIOUS
<1>1. TypeOK /\ TypeOK' /\ VerdictInv /\ [Next]_vars => VerdictInv'
  BY VerdictInvStep
<1> QED
  BY <1>1, VerdictInit, TypeCorrect, PTL DEF Spec

(* Until a write times out, nrf24_write returns 0 only for a payload that    *)
(* was sent and MAX_RT only for one that was not, for every FIFO and queue   *)
(* depth, any relative speed of radio, interrupt, work queue and caller, and *)
(* even when GPIO calls fail.                                                *)
THEOREM VerdictsAreTrue == Spec => []VerdictMatches
<1>1. CASE SpiFaults
  <2>1. VerdictMatches
    BY <1>1 DEF VerdictMatches
  <2> QED
    BY <2>1, PTL
<1>2. CASE ~SpiFaults
  <2>1. VerdictInv => VerdictMatches
    BY DEF VerdictInv, PastInv, VerdictMatches
  <2> QED
    BY <1>2, <2>1, VerdictInvariant, PTL
<1> QED
  BY <1>1, <1>2
=============================================================================
