-------------------------- MODULE Nrf24TriggerProofs --------------------------
(***************************************************************************)
(* Proofs about the interrupt-driven nRF24L01 driver, for every number of   *)
(* packets and writes, every FIFO and queue depth, with or without faults,  *)
(* from the state nrf24l01_init leaves and, below, from initialisation on.   *)
(***************************************************************************)
EXTENDS Nrf24Boot, Nrf24ModeProofs, SequenceTheorems

(* Types and bounds, at the start ...                                        *)
LEMMA TypeInit == Init => TypeOK
<1> USE ChipAssumption, ModeAssumption, TriggerAssumption
    DEF ChipAssumption, ModeAssumption, TriggerAssumption
<1> SUFFICES ASSUME Init
             PROVE  TypeOK
  OBVIOUS
<1>1. ChipTypeOK /\ ModeTypeOK
  BY InitType DEF Init
<1>2. rxQueue \in Seq(Nat) /\ Len(rxQueue) <= QueueLen
  <2>1. rxQueue = <<>>
    BY DEF Init
  <2> QED
    BY <2>1
<1>3. hpc \in WorkLabels /\ buffer \in Nat /\ sem \in {0, 1} /\ retCode \in {"ok", "max_rt"}
  BY DEF Init, WorkLabels, NoPacket
<1> QED
  BY <1>1, <1>2, <1>3 DEF Init, TypeOK

(* ... and over every step of handler, radio and caller.                     *)
LEMMA TypeStep == TypeOK /\ [Next]_vars => TypeOK'
<1> USE ChipAssumption, ModeAssumption, TriggerAssumption
    DEF ChipAssumption, ModeAssumption, TriggerAssumption
<1> SUFFICES ASSUME TypeOK, [Next]_vars
             PROVE  TypeOK'
  OBVIOUS
<1>1. CASE Radio
  BY <1>1, ChipStepType DEF Radio, DetectEdge, TypeOK, ModeTypeOK, modeVars, workVars, syncVars
<1>2. CASE IrqCallbackHandler
  <2>1. ChipTypeOK' /\ ModeTypeOK'
    BY <1>2, ChipFrame, ModeFrame DEF IrqCallbackHandler, TypeOK
  <2> QED
    BY <1>2, <2>1 DEF IrqCallbackHandler, DisableIrq, TypeOK, workVars, syncVars
<1>3. CASE Work
  <2>1. CASE WorkStart
    <3>1. ChipTypeOK' /\ ModeTypeOK'
      BY <2>1, ChipFrame, ModeFrame DEF WorkStart, TypeOK
    <3>2. hpc' \in WorkLabels /\ queued' \in BOOLEAN
      BY <2>1 DEF WorkStart, WorkLabels
    <3> QED
      BY <2>1, <3>1, <3>2 DEF WorkStart, TypeOK, syncVars
  <2>2. CASE WorkFifo
    BY <2>2 DEF WorkFifo, At, TypeOK, ChipTypeOK, ModeTypeOK, chipVars, modeVars,
                irqVars, syncVars, WorkLabels
  <2>3. CASE WorkRead
    <3>1. buffer' \in Nat /\ rxFifo' \in Seq(Nat) /\ Len(rxFifo') <= FifoDepth
      <4>1. rxFifo \in Seq(Nat) /\ Len(rxFifo) <= FifoDepth
        BY DEF TypeOK, ChipTypeOK
      <4>2. CASE rxFifo' = rxFifo /\ buffer' = NoPacket
        BY <4>1, <4>2 DEF NoPacket
      <4>3. CASE rxFifo # <<>> /\ rxFifo' = Tail(rxFifo) /\ buffer' = Head(rxFifo)
        BY <4>1, <4>3
      <4> QED
        BY <2>3, <4>2, <4>3 DEF WorkRead
    <3>2. hpc' \in WorkLabels /\ UNCHANGED <<modeVars, irqVars, syncVars>>
      BY <2>3 DEF WorkRead, At, WorkLabels
    <3>3. UNCHANGED <<status, config, enRxaddr, rxPw0, ce, txFifo, onAir, arrived, sent>>
      BY <2>3 DEF WorkRead
    <3> QED
      BY <3>1, <3>2, <3>3 DEF TypeOK, ChipTypeOK, ModeTypeOK, modeVars, irqVars, syncVars
  <2>4. CASE WorkReadClear
    BY <2>4 DEF WorkReadClear, ClearIrq, Transceive, At, TypeOK, ChipTypeOK, ModeTypeOK,
                modeVars, irqVars, syncVars, WorkLabels
  <2>5. CASE WorkPut
    <3>1. rxQueue' \in Seq(Nat) /\ Len(rxQueue') <= QueueLen
      BY <2>5 DEF WorkPut, MsgqPut, TypeOK
    <3> QED
      BY <2>5, <3>1 DEF WorkPut, At, TypeOK, ChipTypeOK, ModeTypeOK, chipVars, modeVars,
                        irqVars, WorkLabels, NoPacket
  <2>6. CASE WorkCeLow
    <3>1. ce' \in BOOLEAN /\ hpc' \in WorkLabels
      BY <2>6 DEF WorkCeLow, ToggleCe, At, TypeOK, ChipTypeOK, WorkLabels
    <3> QED
      BY <2>6, <3>1 DEF WorkCeLow, At, TypeOK, ChipTypeOK, ModeTypeOK, modeVars,
                        irqVars, syncVars
  <2>7. CASE WorkFlush
    <3>1. txFifo' \in Seq(WriteIds) /\ Len(txFifo') <= FifoDepth
      <4>1. txFifo' = txFifo \/ txFifo' = <<>>
        BY <2>7 DEF WorkFlush, FlushTx, Transceive
      <4>2. CASE txFifo' = txFifo
        BY <4>2 DEF TypeOK, ChipTypeOK
      <4>3. CASE txFifo' = <<>>
        BY <4>3
      <4> QED
        BY <4>1, <4>2, <4>3
    <3> QED
      BY <2>7, <3>1 DEF WorkFlush, At, TypeOK, ChipTypeOK, ModeTypeOK, modeVars,
                        irqVars, syncVars, WorkLabels
  <2>8. CASE WorkGive
    BY <2>8 DEF WorkGive, SemGive, At, TypeOK, ChipTypeOK, ModeTypeOK, chipVars, modeVars,
                irqVars, WorkLabels
  <2>9. CASE WorkClear
    <3>1. status' \in SUBSET Flags
      BY <2>9 DEF WorkClear, ClearIrq, Transceive, TypeOK, ChipTypeOK
    <3> QED
      BY <2>9, <3>1 DEF WorkClear, At, TypeOK, ChipTypeOK, ModeTypeOK, modeVars,
                        irqVars, syncVars, WorkLabels
  <2>10. CASE WorkRearm
    <3>1. armed' \in BOOLEAN /\ hpc' \in WorkLabels
      BY <2>10 DEF WorkRearm, EnableIrq, TypeOK, WorkLabels
    <3> QED
      BY <2>10, <3>1 DEF WorkRearm, TypeOK, ChipTypeOK, ModeTypeOK, chipVars, modeVars,
                         syncVars
  <2> QED
    BY <1>3, <2>1, <2>2, <2>3, <2>4, <2>5, <2>6, <2>7, <2>8, <2>9, <2>10 DEF Work
<1>4. CASE AppStep
  <2>1. CASE ModeStep /\ UNCHANGED <<irqVars, workVars, syncVars>>
    BY <2>1, ModeStepType DEF TypeOK, irqVars, workVars, syncVars
  <2>2. CASE ReadGet
    BY <2>2 DEF ReadGet, TypeOK, ChipTypeOK, ModeTypeOK, chipVars, irqVars, workVars,
                ModeLabels, StopLabels, SendLabels
  <2>3. CASE ReadTimeout
    BY <2>3 DEF ReadTimeout, TypeOK, ChipTypeOK, ModeTypeOK, chipVars, irqVars, workVars,
                syncVars, ModeLabels, StopLabels, SendLabels
  <2>4. CASE WriteTake
    BY <2>4 DEF WriteTake, Goto, TypeOK, ChipTypeOK, ModeTypeOK, chipVars, irqVars,
                workVars, ModeLabels, StopLabels, SendLabels
  <2>5. CASE WriteReturn
    BY <2>5 DEF WriteReturn, Return, TypeOK, ChipTypeOK, ModeTypeOK, chipVars, irqVars,
                workVars, syncVars, Results, ModeLabels, StopLabels, SendLabels
  <2> QED
    BY <1>4, <2>1, <2>2, <2>3, <2>4, <2>5 DEF AppStep
<1>5. CASE WriteTimeout
  <2>1. ModeTypeOK'
    BY <1>5 DEF WriteTimeout, Return, TypeOK, ModeTypeOK, Results, ModeLabels, StopLabels, SendLabels
  <2>2. ChipTypeOK'
    BY <1>5 DEF WriteTimeout, ToggleCe, TypeOK, ChipTypeOK
  <2>3. UNCHANGED <<armed, edge, queued, hpc, buffer, rxQueue, sem, retCode>>
    BY <1>5 DEF WriteTimeout, irqVars, workVars, syncVars
  <2> QED
    BY <2>1, <2>2, <2>3 DEF TypeOK
<1>6. CASE UNCHANGED vars
  <2>1. ChipTypeOK' /\ ModeTypeOK'
    BY <1>6, ChipFrame, ModeFrame DEF vars, TypeOK
  <2> QED
    BY <1>6, <2>1 DEF vars, irqVars, workVars, syncVars, TypeOK
<1> QED
  BY <1>1, <1>2, <1>3, <1>4, <1>5, <1>6 DEF Next, App

(* The driver's state and the radio's keep their types, and no queue or FIFO *)
(* ever holds more than it can.                                              *)
THEOREM TypeCorrect == Spec => []TypeOK
  BY TypeInit, TypeStep, PTL DEF Spec

(* No step loses or doubles the right to serve the radio.                    *)
LEMMA TokenStep == IrqToken /\ [Next]_vars => IrqToken'
<1> SUFFICES ASSUME IrqToken, ~GpioFaults, [Next]_vars
             PROVE  IrqToken'
  BY DEF IrqToken
<1> USE DEF IrqToken
<1>1. CASE Radio
  BY <1>1 DEF Radio, DetectEdge, workVars
<1>2. CASE IrqCallbackHandler
  BY <1>2 DEF IrqCallbackHandler, DisableIrq, workVars
<1>3. CASE Work
  <2>1. CASE WorkStart
    BY <2>1 DEF WorkStart
  <2>2. CASE /\ hpc # "idle" /\ hpc' # "idle"
             /\ UNCHANGED irqVars
    BY <2>2 DEF irqVars
  <2>3. CASE WorkRearm
    BY <2>3 DEF WorkRearm, EnableIrq
  <2>4. WorkFifo \/ WorkRead \/ WorkReadClear \/ WorkPut
          => hpc # "idle" /\ hpc' # "idle" /\ UNCHANGED irqVars
    BY DEF WorkFifo, WorkRead, WorkReadClear, WorkPut, At
  <2>5. WorkCeLow \/ WorkFlush \/ WorkGive \/ WorkClear
          => hpc # "idle" /\ hpc' # "idle" /\ UNCHANGED irqVars
    BY DEF WorkCeLow, WorkFlush, WorkGive, WorkClear, At
  <2> QED
    BY <1>3, <2>1, <2>2, <2>3, <2>4, <2>5 DEF Work
<1>4. CASE AppStep
  BY <1>4 DEF AppStep, ReadGet, ReadTimeout, WriteTake, WriteReturn, irqVars, workVars
<1>5. CASE WriteTimeout
  BY <1>5 DEF WriteTimeout, irqVars, workVars
<1>6. CASE UNCHANGED vars
  BY <1>6 DEF vars, irqVars, workVars
<1> QED
  BY <1>1, <1>2, <1>3, <1>4, <1>5, <1>6 DEF Next, App

(* While GPIO calls succeed, exactly one of three holds the right to serve   *)
(* the radio: the armed interrupt, the queued work item, the handler.        *)
THEOREM OneServer == Spec => []IrqToken
<1>1. Init => IrqToken
  BY DEF Init, IrqToken
<1> QED
  BY <1>1, TokenStep, PTL DEF Spec

-----------------------------------------------------------------------------
(* The mailbox                                                               *)

(* Where a packet enters the sequence q of queued packets, the buffer b and  *)
(* the FIFO f.                                                               *)
LEMMA PassedOn ==
  ASSUME NEW q \in Seq(Nat), NEW b \in Seq(Nat), NEW f \in Seq(Nat), NEW x \in Nat
  PROVE  /\ q \o b \o f \in Seq(Nat)
         /\ q \o b \o Append(f, x) = Append(q \o b \o f, x)
         /\ Append(q, x) \o <<>> \o f = q \o <<x>> \o f
<1>1. <<x>> \in Seq(Nat) /\ <<>> \in Seq(Nat) /\ q \o b \in Seq(Nat)
  OBVIOUS
<1>2. q \o b \o f \in Seq(Nat)
  BY <1>1, ConcatProperties
<1>3. q \o b \o Append(f, x) = Append(q \o b \o f, x)
  BY <1>1, <1>2, AppendIsConcat, ConcatAssociative, SMTT(30)
<1>4. Append(q, x) \o <<>> \o f = q \o <<x>> \o f
  <2>1. Append(q, x) = q \o <<x>> /\ Append(q, x) \in Seq(Nat)
    BY AppendIsConcat, AppendProperties
  <2> QED
    BY <2>1, ConcatEmptySeq
<1> QED
  BY <1>2, <1>3, <1>4

(* Queue, buffer and FIFO in a row, however grouped.                         *)
LEMMA Grouped ==
  ASSUME NEW q \in Seq(Nat), NEW b \in Seq(Nat), NEW f \in Seq(Nat)
  PROVE  (q \o b) \o f = q \o (b \o f)
  BY ConcatAssociative, SMTT(30)

(* ... is read out of the FIFO ...                                           *)
LEMMA HeadFirst ==
  ASSUME NEW s \in Seq(Nat), s # <<>>
  PROVE  <<Head(s)>> \o Tail(s) = s
<1>1. Head(s) \in Nat /\ Tail(s) \in Seq(Nat) /\ Len(Tail(s)) = Len(s) - 1
      /\ \A i \in 1 .. Len(Tail(s)) : Tail(s)[i] = s[i + 1]
  BY HeadTailProperties
<1>2. <<Head(s)>> \in Seq(Nat) /\ Len(<<Head(s)>>) = 1 /\ <<Head(s)>>[1] = s[1]
  BY <1>1
<1> DEFINE t == <<Head(s)>> \o Tail(s)
<1>3. /\ t \in Seq(Nat) /\ Len(t) = Len(s)
      /\ \A i \in 1 .. Len(s) : t[i] = IF i <= 1 THEN <<Head(s)>>[i] ELSE Tail(s)[i - 1]
  BY <1>1, <1>2, ConcatProperties
<1> HIDE DEF t
<1>4. ASSUME NEW i \in 1 .. Len(s)
      PROVE  t[i] = s[i]
  <2>1. CASE i = 1
    BY <1>2, <1>3, <2>1
  <2>2. CASE i > 1
    BY <1>1, <1>3, <2>2
  <2> QED
    BY <2>1, <2>2
<1> QED
  BY <1>3, <1>4, SeqEqual DEF t

(* ... is taken by the caller ...                                            *)
LEMMA TakenFirst ==
  ASSUME NEW q \in Seq(Nat), NEW r \in Seq(Nat), q # <<>>
  PROVE  q \o r # <<>> /\ Head(q \o r) = Head(q) /\ Tail(q \o r) = Tail(q) \o r
<1>1. Len(q) \in Nat \ {0} /\ Len(r) \in Nat
  BY EmptySeq, LenProperties
<1>2. /\ q \o r \in Seq(Nat) /\ Len(q \o r) = Len(q) + Len(r)
      /\ \A i \in 1 .. Len(q) + Len(r) : (q \o r)[i] = IF i <= Len(q) THEN q[i] ELSE r[i - Len(q)]
  BY ConcatProperties
<1> DEFINE s == q \o r
<1>3. s # <<>>
  BY <1>1, <1>2, EmptySeq
<1>4. Head(s) = Head(q)
  BY <1>1, <1>2, <1>3
<1>5. /\ Tail(q) \in Seq(Nat) /\ Len(Tail(q)) = Len(q) - 1
      /\ \A i \in 1 .. Len(Tail(q)) : Tail(q)[i] = q[i + 1]
  BY HeadTailProperties
<1>6. /\ Tail(s) \in Seq(Nat) /\ Len(Tail(s)) = Len(s) - 1
      /\ \A i \in 1 .. Len(Tail(s)) : Tail(s)[i] = s[i + 1]
  BY <1>2, <1>3, HeadTailProperties
<1> DEFINE t == Tail(q) \o r
<1>7. /\ t \in Seq(Nat) /\ Len(t) = Len(Tail(q)) + Len(r)
      /\ \A i \in 1 .. Len(Tail(q)) + Len(r) :
           t[i] = IF i <= Len(Tail(q)) THEN Tail(q)[i] ELSE r[i - Len(Tail(q))]
  BY <1>5, ConcatProperties
<1> DEFINE u == Tail(s)
<1> HIDE DEF t, u
<1>8. Len(u) = Len(t)
  BY <1>1, <1>2, <1>5, <1>6, <1>7 DEF u
<1>9. ASSUME NEW i \in 1 .. Len(u)
      PROVE  u[i] = t[i]
  <2>1. u[i] = s[i + 1] /\ i \in 1 .. Len(Tail(q)) + Len(r) /\ i + 1 \in 1 .. Len(q) + Len(r)
    BY <1>1, <1>2, <1>5, <1>6, <1>7, <1>8 DEF u
  <2>2. CASE i <= Len(Tail(q))
    <3>1. t[i] = q[i + 1]
      BY <1>5, <1>7, <2>1, <2>2
    <3> QED
      BY <1>1, <1>2, <1>5, <2>1, <2>2, <3>1
  <2>3. CASE i > Len(Tail(q))
    <3>1. t[i] = r[i - Len(Tail(q))] /\ i - Len(Tail(q)) = (i + 1) - Len(q) /\ ~(i + 1 <= Len(q))
      BY <1>1, <1>5, <1>7, <2>1, <2>3
    <3> QED
      BY <1>2, <2>1, <3>1
  <2> QED
    BY <1>1, <1>5, <2>1, <2>2, <2>3
<1>10. u = t
  BY <1>6, <1>7, <1>8, <1>9, SeqEqual DEF u
<1> QED
  BY <1>3, <1>4, <1>10 DEF u, t

(* ... or is dropped at a full queue.                                        *)
LEMMA WithoutOne ==
  ASSUME NEW q \in Seq(Nat), NEW f \in Seq(Nat), NEW x \in Nat
  PROVE  LET s == q \o <<x>> \o f
             i == Len(q) + 1
         IN  i \in DOMAIN s /\ SubSeq(s, 1, i - 1) \o SubSeq(s, i + 1, Len(s)) = q \o <<>> \o f
<1> DEFINE p == q \o <<x>>
           s == p \o f
           n == Len(q)
<1>1. /\ n \in Nat /\ <<x>> \in Seq(Nat) /\ p \in Seq(Nat) /\ Len(p) = n + 1
      /\ s \in Seq(Nat) /\ Len(s) = n + 1 + Len(f) /\ Len(f) \in Nat
      /\ p[n + 1] = x
  BY LenProperties, ConcatProperties
<1>2. n + 1 \in DOMAIN s
  BY <1>1, LenProperties
<1>3. SubSeq(s, 1, n) = q
  <2>1. CASE n = 0
    BY <1>1, <2>1, EmptySeq, SubSeqEmpty
  <2>2. CASE n > 0
    <3>1. SubSeq(s, 1, n) = SubSeq(p, 1, n)
      BY <1>1, <2>2, SubSeqOfConcat1
    <3>2. SubSeq(p, 1, n) = SubSeq(q, 1, n)
      BY <1>1, <2>2, SubSeqOfConcat1
    <3> QED
      BY <3>1, <3>2, SubSeqFull
  <2> QED
    BY <1>1, <2>1, <2>2
<1>4. SubSeq(s, n + 2, Len(s)) = f
  <2>1. CASE Len(f) = 0
    BY <1>1, <2>1, EmptySeq, SubSeqEmpty
  <2>2. CASE Len(f) > 0
    <3>1. n + 2 \in Len(p) + 1 .. Len(p) + Len(f) /\ Len(s) \in Len(p) + 1 .. Len(p) + Len(f)
          /\ (n + 2) - Len(p) = 1 /\ Len(s) - Len(p) = Len(f)
      BY <1>1, <2>2
    <3>2. SubSeq(s, n + 2, Len(s)) = SubSeq(f, 1, Len(f))
      BY <1>1, <3>1, SubSeqOfConcat2
    <3> QED
      BY <3>2, SubSeqFull
  <2> QED
    BY <1>1, <2>1, <2>2
<1>5. q \o <<>> \o f = q \o f
  BY ConcatEmptySeq
<1> HIDE DEF p, s
<1>6. (n + 1) - 1 = n /\ (n + 1) + 1 = n + 2
  BY <1>1
<1> QED
  BY <1>2, <1>3, <1>4, <1>5, <1>6 DEF p, s

(* Packets are numbered from 1; the buffer holds one from the moment it is   *)
(* read until it is queued, and the FIFO is not empty when it is read.       *)
BufferInv ==
  /\ \A i \in 1 .. Len(rxFifo) : rxFifo[i] # NoPacket
  /\ hpc = "read" => rxFifo # <<>>
  /\ buffer # NoPacket <=> hpc \in {"read_clear", "put"}

(* The handler holds a packet only between reading it and queueing it.       *)
LEMMA BufferStep ==
  ASSUME ~SpiFaults, TypeOK, BufferInv, [Next]_vars
  PROVE  BufferInv'
<1>0. rxFifo \in Seq(Nat) /\ arrived \in Nat
  BY ChipAssumption DEF ChipAssumption, TypeOK, ChipTypeOK
<1>1. CASE Radio
  <2>1. UNCHANGED <<hpc, buffer>>
    BY <1>1 DEF Radio, workVars
  <2>2. CASE ChipReceive
    <3>1. CASE rxFifo' = Append(rxFifo, arrived + 1)
      <4>1. arrived + 1 \in Nat /\ arrived + 1 # NoPacket
        BY <1>0 DEF NoPacket
      <4>2. /\ rxFifo' # <<>> /\ Len(rxFifo') = Len(rxFifo) + 1 /\ Len(rxFifo) \in Nat
            /\ \A i \in 1 .. Len(rxFifo) : rxFifo'[i] = rxFifo[i]
            /\ rxFifo'[Len(rxFifo) + 1] = arrived + 1
        BY <1>0, <3>1, <4>1, AppendProperties, LenProperties
      <4> QED
        BY <2>1, <4>1, <4>2 DEF BufferInv
    <3>2. CASE rxFifo' = rxFifo
      BY <2>1, <3>2 DEF BufferInv
    <3> QED
      BY <2>2, <3>1, <3>2 DEF ChipReceive
  <2>3. CASE ChipTxStart \/ ChipTxDone \/ ChipTxFail
    BY <2>1, <2>3, MailboxQuiet DEF BufferInv
  <2> QED
    BY <1>1, <2>2, <2>3 DEF Radio, ChipStep
<1>2. CASE IrqCallbackHandler
  BY <1>2 DEF IrqCallbackHandler, chipVars, workVars, BufferInv
<1>3. CASE WorkRead
  <2>1. /\ hpc = "read" /\ hpc' = "read_clear"
        /\ buffer' = Head(rxFifo) /\ rxFifo' = Tail(rxFifo) /\ rxFifo # <<>>
    BY <1>3 DEF WorkRead, At, BufferInv
  <2>2. /\ Len(rxFifo) \in Nat \ {0} /\ Len(rxFifo') = Len(rxFifo) - 1
        /\ \A i \in 1 .. Len(rxFifo') : rxFifo'[i] = rxFifo[i + 1]
    BY <1>0, <2>1, HeadTailProperties, EmptySeq
  <2>3. buffer' = rxFifo[1]
    BY <1>0, <2>1
  <2> QED
    BY <2>1, <2>2, <2>3 DEF BufferInv
<1>4. CASE WorkStart \/ WorkFifo
  BY <1>4 DEF WorkStart, WorkFifo, At, DataAvailable, ReadRegister, chipVars, BufferInv
<1>5. CASE WorkReadClear \/ WorkPut
  BY <1>5 DEF WorkReadClear, WorkPut, At, chipVars, BufferInv
<1>6. CASE WorkCeLow \/ WorkFlush \/ WorkGive \/ WorkClear \/ WorkRearm
  BY <1>6 DEF WorkCeLow, WorkFlush, WorkGive, WorkClear, WorkRearm, At, chipVars, BufferInv
<1>7. CASE ModeStep /\ UNCHANGED <<irqVars, workVars, syncVars>>
  BY <1>7, MailboxQuiet DEF workVars, BufferInv
<1>8. CASE ReadGet \/ ReadTimeout \/ WriteTake \/ WriteReturn \/ WriteTimeout
  BY <1>8 DEF ReadGet, ReadTimeout, WriteTake, WriteReturn, WriteTimeout, chipVars, workVars,
              BufferInv
<1>9. CASE UNCHANGED vars
  BY <1>9 DEF vars, chipVars, workVars, BufferInv
<1> QED
  BY <1>1, <1>2, <1>3, <1>4, <1>5, <1>6, <1>7, <1>8, <1>9 DEF Next, Work, App, AppStep

(* Every step of the driver is a step of the mailbox or leaves it alone.     *)
LEMMA MailboxStep ==
  ASSUME ~SpiFaults, TypeOK, BufferInv, [Next]_vars
  PROVE  [Mailbox!Next]_(Mailbox!mailboxVars)
<1> SUFFICES Mailbox!Next \/ UNCHANGED <<arrived, InTransit, lastRead>>
  BY DEF Mailbox!mailboxVars
<1> DEFINE b == IF buffer = NoPacket THEN <<>> ELSE <<buffer>>
<1>0. /\ rxQueue \in Seq(Nat) /\ b \in Seq(Nat) /\ rxFifo \in Seq(Nat) /\ buffer \in Nat
      /\ arrived \in Nat /\ InTransit = rxQueue \o b \o rxFifo
  BY ChipAssumption DEF ChipAssumption, TypeOK, ChipTypeOK, InTransit
<1> HIDE DEF b
<1>1. CASE Radio
  <2>1. UNCHANGED <<rxQueue, buffer, lastRead>>
    BY <1>1 DEF Radio, modeVars, workVars, syncVars
  <2>2. CASE ChipReceive
    <3>1. arrived' = arrived + 1 /\ rxFifo' \in {rxFifo, Append(rxFifo, arrived')}
      BY <2>2 DEF ChipReceive
    <3>2. CASE rxFifo' = Append(rxFifo, arrived')
      <4>1. InTransit' = rxQueue \o b \o Append(rxFifo, arrived')
        BY <2>1, <3>2 DEF InTransit, b
      <4>2. arrived' \in Nat
        BY <1>0, <3>1
      <4>3. InTransit' = Append(InTransit, arrived')
        BY <1>0, <4>1, <4>2, PassedOn, SMTT(30)
      <4> QED
        BY <2>1, <3>1, <4>3 DEF Mailbox!Next, Mailbox!Hear
    <3>3. CASE rxFifo' = rxFifo
      <4>1. InTransit' = InTransit
        BY <2>1, <3>3 DEF InTransit
      <4> QED
        BY <2>1, <3>1, <4>1 DEF Mailbox!Next, Mailbox!Hear
    <3> QED
      BY <3>1, <3>2, <3>3
  <2>3. CASE ChipTxStart \/ ChipTxDone \/ ChipTxFail
    BY <2>1, <2>3, MailboxQuiet DEF InTransit
  <2> QED
    BY <1>1, <2>2, <2>3 DEF Radio, ChipStep
<1>2. CASE WorkRead
  <2>1. /\ buffer = NoPacket /\ buffer' = Head(rxFifo) /\ buffer' # NoPacket
        /\ rxFifo' = Tail(rxFifo) /\ rxFifo # <<>>
        /\ UNCHANGED <<rxQueue, arrived, lastRead>>
    <3>1. hpc = "read" /\ hpc' = "read_clear"
      BY <1>2 DEF WorkRead, At
    <3> QED
      <4>1. buffer = NoPacket /\ rxFifo # <<>> /\ UNCHANGED <<rxQueue, arrived, lastRead>>
        BY <1>2, <3>1 DEF WorkRead, At, modeVars, syncVars, BufferInv
      <4>2. buffer' # NoPacket
        BY <3>1, BufferStep DEF BufferInv
      <4> QED
        BY <1>2, <3>1, <4>1, <4>2 DEF WorkRead, At
  <2>2. InTransit = rxQueue \o <<>> \o rxFifo /\ InTransit' = rxQueue \o <<Head(rxFifo)>> \o Tail(rxFifo)
    BY <2>1 DEF InTransit
  <2>3. Head(rxFifo) \in Nat /\ Tail(rxFifo) \in Seq(Nat) /\ <<Head(rxFifo)>> \in Seq(Nat)
    BY <1>0, <2>1, HeadTailProperties
  <2>4. InTransit' = rxQueue \o rxFifo
    <3>1. rxQueue \o <<Head(rxFifo)>> \o Tail(rxFifo)
            = rxQueue \o (<<Head(rxFifo)>> \o Tail(rxFifo))
      BY <1>0, <2>3, Grouped, ZenonT(30)
    <3>2. <<Head(rxFifo)>> \o Tail(rxFifo) = rxFifo
      BY <1>0, <2>1, HeadFirst
    <3> QED
      BY <2>2, <3>1, <3>2, Zenon
  <2>5. InTransit = rxQueue \o rxFifo
    BY <1>0, <2>2, ConcatEmptySeq
  <2> QED
    BY <2>1, <2>4, <2>5
<1>3. CASE WorkPut
  <2>1. /\ buffer # NoPacket /\ buffer' = NoPacket
        /\ UNCHANGED <<rxFifo, arrived, lastRead>>
        /\ rxQueue' = MsgqPut(rxQueue, buffer)
    BY <1>3 DEF WorkPut, At, modeVars, chipVars, BufferInv
  <2>2. InTransit = rxQueue \o <<buffer>> \o rxFifo /\ InTransit' = rxQueue' \o <<>> \o rxFifo
    BY <2>1 DEF InTransit
  <2>3. CASE rxQueue' = Append(rxQueue, buffer)
    <3>1. Append(rxQueue, buffer) \o <<>> \o rxFifo = rxQueue \o <<buffer>> \o rxFifo
      BY <1>0, PassedOn, SMTT(30)
    <3> QED
      BY <2>1, <2>2, <2>3, <3>1, Zenon
  <2>4. CASE rxQueue' = rxQueue
    <3> DEFINE i == Len(rxQueue) + 1
               s == rxQueue \o <<buffer>> \o rxFifo
    <3>0. i \in DOMAIN s /\ SubSeq(s, 1, i - 1) \o SubSeq(s, i + 1, Len(s)) = rxQueue \o <<>> \o rxFifo
      BY <1>0, WithoutOne
    <3>1. /\ i \in DOMAIN InTransit
          /\ InTransit' = SubSeq(InTransit, 1, i - 1) \o SubSeq(InTransit, i + 1, Len(InTransit))
      <4> HIDE DEF i
      <4> QED
        BY <2>2, <2>4, <3>0
    <3> HIDE DEF i
    <3> QED
      BY <2>1, <3>1 DEF Mailbox!Next, Mailbox!Lose
  <2> QED
    BY <2>1, <2>3, <2>4 DEF MsgqPut
<1>4. CASE ReadGet
  <2>1. /\ rxQueue # <<>> /\ lastRead' = Head(rxQueue) /\ rxQueue' = Tail(rxQueue)
        /\ UNCHANGED <<arrived, rxFifo, buffer>>
    BY <1>4 DEF ReadGet, chipVars, workVars
  <2>2. InTransit' = Tail(rxQueue) \o b \o rxFifo
    BY <2>1 DEF InTransit, b
  <2>3. InTransit = rxQueue \o (b \o rxFifo) /\ b \o rxFifo \in Seq(Nat)
    <3>1. b \o rxFifo \in Seq(Nat)
      BY <1>0, ConcatProperties
    <3>2. (rxQueue \o b) \o rxFifo = rxQueue \o (b \o rxFifo)
      BY <1>0, Grouped
    <3> QED
      BY <1>0, <3>1, <3>2
  <2>4. InTransit' = Tail(rxQueue) \o (b \o rxFifo)
    <3>1. Tail(rxQueue) \in Seq(Nat)
      BY <1>0, <2>1, HeadTailProperties
    <3> QED
      <4>1. (Tail(rxQueue) \o b) \o rxFifo = Tail(rxQueue) \o (b \o rxFifo)
        BY <1>0, <3>1, Grouped
      <4> QED
        BY <2>2, <4>1
  <2> DEFINE r == b \o rxFifo
  <2>5. rxQueue \o r # <<>> /\ Head(rxQueue \o r) = Head(rxQueue)
        /\ Tail(rxQueue \o r) = Tail(rxQueue) \o r
    <3> HIDE DEF r
    <3>1. r \in Seq(Nat)
      BY <2>3 DEF r
    <3> QED
      BY <1>0, <2>1, <3>1, TakenFirst
  <2> QED
    BY <2>1, <2>3, <2>4, <2>5 DEF Mailbox!Next, Mailbox!Deliver
<1>5. CASE IrqCallbackHandler \/ WorkStart \/ WorkFifo
  BY <1>5 DEF IrqCallbackHandler, WorkStart, WorkFifo, At, chipVars, modeVars, workVars,
              syncVars, InTransit
<1>6. CASE WorkReadClear \/ WorkCeLow \/ WorkFlush \/ WorkGive \/ WorkClear \/ WorkRearm
  BY <1>6 DEF WorkReadClear, WorkCeLow, WorkFlush, WorkGive, WorkClear, WorkRearm, At,
              chipVars, modeVars, syncVars, InTransit
<1>7. CASE ModeStep /\ UNCHANGED <<irqVars, workVars, syncVars>>
  BY <1>7, MailboxQuiet, MailboxLastRead DEF workVars, syncVars, InTransit
<1>8. CASE ReadTimeout \/ WriteTake \/ WriteReturn \/ WriteTimeout
  BY <1>8 DEF ReadTimeout, WriteTake, WriteReturn, WriteTimeout, Goto, Return, chipVars,
              workVars, syncVars, InTransit
<1>9. CASE UNCHANGED vars
  BY <1>9 DEF vars, chipVars, modeVars, workVars, syncVars, InTransit
<1> QED
  BY <1>1, <1>2, <1>3, <1>4, <1>5, <1>6, <1>7, <1>8, <1>9 DEF Next, Work, App, AppStep

(* Through FIFO, buffer and queue the interrupt-driven driver implements the *)
(* abstract mailbox, for every depth of the FIFO and of the queue and however *)
(* radio, interrupt, work queue and caller interleave, GPIO faults included: *)
(* packets reach the caller in the order heard, each at most once.           *)
THEOREM TriggerMailbox == ~SpiFaults => (Spec => MailboxSpec)
<1> SUFFICES ASSUME ~SpiFaults
             PROVE  Spec => MailboxSpec
  OBVIOUS
<1>1. Init => Mailbox!Init /\ BufferInv
  <2> SUFFICES ASSUME Init
               PROVE  Mailbox!Init /\ BufferInv
    OBVIOUS
  <2>1. rxQueue = <<>> /\ buffer = NoPacket /\ rxFifo = <<>> /\ hpc = "idle"
        /\ arrived = 0 /\ lastRead = 0
    BY DEF Init, ChipInit, ModeInit
  <2>2. <<>> \o <<>> \o <<>> = <<>> /\ Len(<<>>) = 0
    OBVIOUS
  <2>3. InTransit = <<>>
    BY <2>1, <2>2 DEF InTransit
  <2> QED
    BY <2>1, <2>2, <2>3 DEF Mailbox!Init, BufferInv
<1>2. TypeOK /\ BufferInv /\ [Next]_vars
        => BufferInv' /\ [Mailbox!Next]_(Mailbox!mailboxVars)
  BY BufferStep, MailboxStep
<1> QED
  BY <1>1, <1>2, TypeCorrect, PTL DEF Spec, MailboxSpec, Mailbox!Spec

-----------------------------------------------------------------------------
(* The order of packets, with SPI faults                                     *)

(* Queue q, buffer b and FIFO f hold packets in the order heard, n of them   *)
(* so far; a failed read leaves a zero, in the buffer or between packets.    *)
FifoOrder(f, b, n) ==
  /\ b <= n
  /\ \A j \in 1 .. Len(f) : 0 < f[j] /\ f[j] <= n /\ b < f[j]
  /\ \A i, j \in 1 .. Len(f) : i < j => f[i] < f[j]
QueueOrder(q, b, n) ==
  /\ \A j \in 1 .. Len(q) : q[j] <= n /\ (b # NoPacket => q[j] < b)
  /\ \A i, j \in 1 .. Len(q) : i < j /\ q[j] # NoPacket => q[i] < q[j]
Before(q, f) == \A i \in 1 .. Len(q), j \in 1 .. Len(f) : q[i] < f[j]
Ordered(q, b, f, n) == FifoOrder(f, b, n) /\ QueueOrder(q, b, n) /\ Before(q, f)

(* What happens to packets on their way, one lemma each: heard, ...          *)
LEMMA OrderHeard ==
  ASSUME NEW q \in Seq(Nat), NEW b \in Nat, NEW f \in Seq(Nat), NEW n \in Nat, Ordered(q, b, f, n)
  PROVE  Ordered(q, b, f, n + 1) /\ Ordered(q, b, Append(f, n + 1), n + 1)
<1> DEFINE g == Append(f, n + 1)
<1>1. /\ Len(g) = Len(f) + 1 /\ g[Len(f) + 1] = n + 1
      /\ \A i \in 1 .. Len(f) : g[i] = f[i] /\ f[i] \in Nat
      /\ \A i \in 1 .. Len(g) : i \in 1 .. Len(f) \/ i = Len(f) + 1
      /\ Len(f) \in Nat /\ n < n + 1
  BY AppendProperties, ElementOfSeq, LenProperties
<1>2. /\ \A i \in 1 .. Len(q) : q[i] \in Nat /\ q[i] <= n
      /\ b <= n
  BY ElementOfSeq DEF Ordered, QueueOrder, FifoOrder
<1> HIDE DEF g
<1>3. QueueOrder(q, b, n + 1)
  BY <1>2 DEF Ordered, QueueOrder
<1>4. FifoOrder(f, b, n + 1)
  BY <1>1, <1>2 DEF Ordered, FifoOrder
<1>5. FifoOrder(g, b, n + 1)
  <2>1. ASSUME NEW j \in 1 .. Len(g)
        PROVE  0 < g[j] /\ g[j] <= n + 1 /\ b < g[j]
    <3>1. CASE j = Len(f) + 1
      BY <1>1, <1>2, <3>1
    <3>2. CASE j \in 1 .. Len(f)
      BY <1>1, <3>2 DEF Ordered, FifoOrder
    <3> QED
      BY <1>1, <3>1, <3>2
  <2>2. ASSUME NEW i \in 1 .. Len(g), NEW j \in 1 .. Len(g), i < j
        PROVE  g[i] < g[j]
    <3>1. i \in 1 .. Len(f)
      BY <1>1, <2>2
    <3>2. f[i] <= n /\ g[i] = f[i]
      BY <1>1, <3>1 DEF Ordered, FifoOrder
    <3>3. CASE j = Len(f) + 1
      BY <1>1, <3>1, <3>2, <3>3
    <3>4. CASE j \in 1 .. Len(f)
      BY <1>1, <2>2, <3>1, <3>2, <3>4 DEF Ordered, FifoOrder
    <3> QED
      BY <1>1, <3>3, <3>4
  <2> QED
    BY <1>2, <2>1, <2>2 DEF FifoOrder
<1>6. Before(q, g)
  <2> SUFFICES ASSUME NEW i \in 1 .. Len(q), NEW j \in 1 .. Len(g)
               PROVE  q[i] < g[j]
    BY DEF Before
  <2>1. CASE j = Len(f) + 1
    BY <1>1, <1>2, <2>1
  <2>2. CASE j \in 1 .. Len(f)
    BY <1>1, <2>2 DEF Ordered, Before
  <2> QED
    BY <1>1, <2>1, <2>2
<1> QED
  BY <1>3, <1>4, <1>5, <1>6 DEF g, Ordered

(* ... read out of the FIFO, ...                                             *)
LEMMA OrderRead ==
  ASSUME NEW q \in Seq(Nat), NEW b \in Nat, NEW f \in Seq(Nat), NEW n \in Nat, Ordered(q, b, f, n),
         f # <<>>
  PROVE  Ordered(q, Head(f), Tail(f), n)
<1> DEFINE t == Tail(f)
<1>1. /\ Len(f) \in Nat \ {0} /\ Len(t) = Len(f) - 1
      /\ \A i \in 1 .. Len(t) : t[i] = f[i + 1]
      /\ Head(f) = f[1]
  BY HeadTailProperties, EmptySeq, LenProperties
<1> HIDE DEF t
<1>2. /\ 1 \in 1 .. Len(f)
      /\ \A i \in 1 .. Len(t) : i + 1 \in 1 .. Len(f) /\ 1 < i + 1
      /\ \A i, j \in 1 .. Len(t) : i < j => i + 1 < j + 1
  BY <1>1
<1>3. FifoOrder(t, f[1], n)
  <2>1. ASSUME NEW j \in 1 .. Len(t)
        PROVE  0 < t[j] /\ t[j] <= n /\ f[1] < t[j]
    BY <1>1, <1>2 DEF Ordered, FifoOrder
  <2>2. ASSUME NEW i \in 1 .. Len(t), NEW j \in 1 .. Len(t), i < j
        PROVE  t[i] < t[j]
    BY <1>1, <1>2, <2>2 DEF Ordered, FifoOrder
  <2>3. f[1] <= n
    BY <1>2 DEF Ordered, FifoOrder
  <2> QED
    BY <2>1, <2>2, <2>3 DEF FifoOrder
<1>4. QueueOrder(q, f[1], n)
  BY <1>2 DEF Ordered, QueueOrder, Before
<1>5. Before(q, t)
  BY <1>1, <1>2 DEF Ordered, Before
<1> QED
  BY <1>1, <1>3, <1>4, <1>5 DEF Ordered, t

(* ... put into the queue or dropped, ...                                    *)
LEMMA OrderPut ==
  ASSUME NEW q \in Seq(Nat), NEW b \in Nat, NEW f \in Seq(Nat), NEW n \in Nat, Ordered(q, b, f, n)
  PROVE  Ordered(q, NoPacket, f, n) /\ Ordered(Append(q, b), NoPacket, f, n)
<1> DEFINE p == Append(q, b)
<1>1. /\ Len(p) = Len(q) + 1 /\ p[Len(q) + 1] = b
      /\ \A i \in 1 .. Len(q) : p[i] = q[i]
      /\ \A i \in 1 .. Len(p) : i \in 1 .. Len(q) \/ i = Len(q) + 1
      /\ Len(q) \in Nat
  BY AppendProperties, LenProperties
<1> HIDE DEF p
<1>2. FifoOrder(f, NoPacket, n)
  BY DEF Ordered, FifoOrder, NoPacket
<1>3. QueueOrder(q, NoPacket, n)
  BY DEF Ordered, QueueOrder
<1>4. QueueOrder(p, NoPacket, n)
  <2>1. ASSUME NEW j \in 1 .. Len(p)
        PROVE  p[j] <= n
    BY <1>1 DEF Ordered, FifoOrder, QueueOrder
  <2>2. ASSUME NEW i \in 1 .. Len(p), NEW j \in 1 .. Len(p), i < j, p[j] # NoPacket
        PROVE  p[i] < p[j]
    <3>1. i \in 1 .. Len(q)
      BY <1>1, <2>2
    <3>2. CASE j = Len(q) + 1
      BY <1>1, <2>2, <3>1, <3>2 DEF Ordered, QueueOrder
    <3>3. CASE j \in 1 .. Len(q)
      BY <1>1, <2>2, <3>1, <3>3 DEF Ordered, QueueOrder
    <3> QED
      BY <1>1, <3>2, <3>3
  <2> QED
    BY <2>1, <2>2 DEF QueueOrder
<1>5. Before(p, f)
  <2> SUFFICES ASSUME NEW i \in 1 .. Len(p), NEW j \in 1 .. Len(f)
               PROVE  p[i] < f[j]
    BY DEF Before
  <2>1. CASE i = Len(q) + 1
    BY <1>1, <2>1 DEF Ordered, FifoOrder
  <2>2. CASE i \in 1 .. Len(q)
    BY <1>1, <2>2 DEF Ordered, Before
  <2> QED
    BY <1>1, <2>1, <2>2
<1> QED
  BY <1>2, <1>3, <1>4, <1>5 DEF Ordered, p

(* ... taken by the caller, or lost with a queue or a FIFO.                  *)
LEMMA OrderTake ==
  ASSUME NEW q \in Seq(Nat), NEW b \in Nat, NEW f \in Seq(Nat), NEW n \in Nat, Ordered(q, b, f, n)
  PROVE  /\ q # <<>> => Ordered(Tail(q), b, f, n)
         /\ Ordered(q, b, <<>>, n)
         /\ Ordered(<<>>, NoPacket, f, n)
<1>1. Ordered(q, b, <<>>, n)
  BY DEF Ordered, FifoOrder, Before
<1>2. Ordered(<<>>, NoPacket, f, n)
  BY DEF Ordered, FifoOrder, QueueOrder, Before, NoPacket
<1>3. ASSUME q # <<>>
      PROVE  Ordered(Tail(q), b, f, n)
  <2> DEFINE t == Tail(q)
  <2>1. /\ Len(t) = Len(q) - 1 /\ Len(q) \in Nat \ {0}
        /\ \A i \in 1 .. Len(t) : t[i] = q[i + 1]
    BY <1>3, HeadTailProperties, EmptySeq
  <2> HIDE DEF t
  <2>2. /\ \A i \in 1 .. Len(t) : i + 1 \in 1 .. Len(q)
        /\ \A i, j \in 1 .. Len(t) : i < j => i + 1 < j + 1
    BY <2>1
  <2>3. QueueOrder(t, b, n)
    BY <2>1, <2>2 DEF Ordered, QueueOrder
  <2>4. Before(t, f)
    BY <2>1, <2>2 DEF Ordered, Before
  <2> QED
    BY <2>3, <2>4 DEF Ordered, t
<1> QED
  BY <1>1, <1>2, <1>3

(* The elements of a concatenation.                                          *)
LEMMA Concatenated ==
  ASSUME NEW s \in Seq(Nat), NEW f \in Seq(Nat)
  PROVE  /\ Len(s) \in Nat /\ Len(f) \in Nat
         /\ s \o f \in Seq(Nat) /\ Len(s \o f) = Len(s) + Len(f)
         /\ \A k \in 1 .. Len(s) : (s \o f)[k] = s[k]
         /\ \A k \in Len(s) + 1 .. Len(s) + Len(f) : (s \o f)[k] = f[k - Len(s)]
  BY ConcatProperties, LenProperties

(* So every packet on its way was heard later than all packets before it.    *)
LEMMA OrderTransit ==
  ASSUME NEW q \in Seq(Nat), NEW b \in Nat, NEW f \in Seq(Nat), NEW n \in Nat, Ordered(q, b, f, n),
         NEW m \in Seq(Nat), m = IF b = NoPacket THEN <<>> ELSE <<b>>,
         NEW i \in 1 .. Len(q \o m \o f), NEW j \in 1 .. Len(q \o m \o f), i < j,
         (q \o m \o f)[i] # NoPacket, (q \o m \o f)[j] # NoPacket
  PROVE  (q \o m \o f)[i] < (q \o m \o f)[j]
<1> DEFINE s == q \o m
           t == s \o f
           l == Len(q) + Len(m)
<1>1. Len(q) \in Nat /\ Len(m) \in Nat /\ Len(f) \in Nat
  BY LenProperties
<1>2. /\ Len(s) = l /\ s \in Seq(Nat)
      /\ \A k \in 1 .. Len(q) : s[k] = q[k]
      /\ \A k \in Len(q) + 1 .. l : s[k] = m[k - Len(q)]
  BY Concatenated
<1>3. /\ Len(t) = l + Len(f)
      /\ \A k \in 1 .. l : t[k] = s[k]
      /\ \A k \in l + 1 .. l + Len(f) : t[k] = f[k - l]
  <2> HIDE DEF s, l
  <2>1. s \in Seq(Nat) /\ f \in Seq(Nat)
    BY <1>2
  <2>2. /\ Len(t) = Len(s) + Len(f)
        /\ \A k \in 1 .. Len(s) : t[k] = s[k]
        /\ \A k \in Len(s) + 1 .. Len(s) + Len(f) : t[k] = f[k - Len(s)]
    BY <2>1, Concatenated, Zenon
  <2> QED
    BY <1>2, <2>2, Zenon
<1>4. Len(m) = 0 \/ (Len(m) = 1 /\ m[1] = b /\ b # NoPacket)
  OBVIOUS
<1>5. i \in 1 .. Len(t) /\ j \in 1 .. Len(t) /\ t[j] # NoPacket
  OBVIOUS
<1>6. t[i] < t[j]
  <2> HIDE DEF s, t
  <2> DEFINE AtQ(k) == k \in 1 .. Len(q) /\ t[k] = q[k]
             AtB(k) == Len(m) = 1 /\ k = Len(q) + 1 /\ t[k] = b /\ b # NoPacket
             AtF(k) == k - l \in 1 .. Len(f) /\ t[k] = f[k - l]
  <2>1. ASSUME NEW k \in 1 .. Len(t)
        PROVE  AtQ(k) \/ AtB(k) \/ AtF(k)
    <3>1. CASE k \in 1 .. Len(q)
      BY <1>1, <1>2, <1>3, <3>1
    <3>2. CASE k \in Len(q) + 1 .. l
      <4>1. Len(m) = 1 /\ k = Len(q) + 1 /\ m[1] = b /\ b # NoPacket /\ k - Len(q) = 1
        BY <1>1, <1>4, <3>2
      <4>2. k \in 1 .. l
        BY <1>1, <3>2
      <4>3. s[k] = m[k - Len(q)]
        BY <1>2, <3>2
      <4>4. t[k] = s[k]
        BY <1>3, <4>2
      <4> QED
        BY <4>1, <4>3, <4>4
    <3>3. CASE k \in l + 1 .. l + Len(f)
      BY <1>1, <1>3, <3>3
    <3> QED
      BY <1>1, <1>3, <3>1, <3>2, <3>3
  <2>2. AtQ(i) \/ AtB(i) \/ AtF(i)
    BY <1>5, <2>1
  <2>3. AtQ(j) \/ AtB(j) \/ AtF(j)
    BY <1>5, <2>1
  <2>4. CASE AtQ(j)
    <3>1. AtQ(i)
      BY <1>1, <2>2, <2>4
    <3> QED
      BY <1>5, <2>4, <3>1 DEF Ordered, QueueOrder
  <2>5. CASE AtB(j)
    <3>1. AtQ(i)
      BY <1>1, <2>2, <2>5
    <3> QED
      BY <2>5, <3>1 DEF Ordered, QueueOrder
  <2>6. CASE AtF(j)
    <3>1. CASE AtQ(i)
      BY <2>6, <3>1 DEF Ordered, Before
    <3>2. CASE AtB(i)
      BY <2>6, <3>2 DEF Ordered, FifoOrder
    <3>3. CASE AtF(i)
      <4>1. i - l < j - l
        BY <1>1
      <4> QED
        BY <2>6, <3>3, <4>1 DEF Ordered, FifoOrder
    <3> QED
      BY <2>2, <3>1, <3>2, <3>3
  <2> QED
    BY <2>3, <2>4, <2>5, <2>6
<1> QED
  BY <1>6

Arranged == Ordered(rxQueue, buffer, rxFifo, arrived)

(* The invariant says what TransitInOrder says of the three places.          *)
LEMMA ArrangedInOrder == TypeOK /\ Arranged => TransitInOrder
<1> SUFFICES ASSUME TypeOK, Arranged,
                    NEW i \in DOMAIN InTransit, NEW j \in DOMAIN InTransit,
                    i < j, InTransit[i] # NoPacket, InTransit[j] # NoPacket
             PROVE  InTransit[i] < InTransit[j]
  BY DEF TransitInOrder
<1> DEFINE m == IF buffer = NoPacket THEN <<>> ELSE <<buffer>>
<1>1. /\ rxQueue \in Seq(Nat) /\ rxFifo \in Seq(Nat) /\ buffer \in Nat
      /\ arrived \in Nat
  BY ChipAssumption DEF ChipAssumption, TypeOK, ChipTypeOK
<1>2. m \in Seq(Nat)
  BY <1>1
<1>3. InTransit = rxQueue \o m \o rxFifo
  BY DEF InTransit
<1> HIDE DEF m
<1>4. rxQueue \o m \in Seq(Nat) /\ rxQueue \o m \o rxFifo \in Seq(Nat)
  BY <1>1, <1>2, ConcatProperties
<1>5. i \in 1 .. Len(rxQueue \o m \o rxFifo) /\ j \in 1 .. Len(rxQueue \o m \o rxFifo)
  BY <1>3, <1>4, LenProperties
<1> QED
  BY <1>1, <1>2, <1>3, <1>5, OrderTransit DEF Arranged, m

(* What a step of radio, interrupt, work queue or caller does to packets.    *)
LEMMA PacketKinds ==
  ASSUME [Next]_vars
  PROVE  \/ /\ arrived' = arrived + 1 /\ rxFifo' \in {rxFifo, Append(rxFifo, arrived + 1)}
            /\ UNCHANGED <<rxQueue, buffer>>
         \/ /\ rxFifo # <<>> /\ buffer' = Head(rxFifo) /\ rxFifo' = Tail(rxFifo)
            /\ UNCHANGED <<rxQueue, arrived>>
         \/ /\ buffer' = NoPacket /\ rxQueue' \in {rxQueue, Append(rxQueue, buffer)}
            /\ UNCHANGED <<rxFifo, arrived>>
         \/ /\ rxQueue # <<>> /\ rxQueue' = Tail(rxQueue)
            /\ UNCHANGED <<buffer, rxFifo, arrived>>
         \/ UNCHANGED <<rxQueue, buffer, rxFifo, arrived>>
<1>1. CASE Radio
  BY <1>1 DEF Radio, ChipStep, ChipReceive, ChipTxStart, ChipTxDone, ChipTxFail, workVars, syncVars
<1>2. CASE IrqCallbackHandler
  BY <1>2 DEF IrqCallbackHandler, chipVars, workVars, syncVars
<1>3. CASE WorkRead \/ WorkPut
  BY <1>3 DEF WorkRead, WorkPut, MsgqPut, chipVars, syncVars
<1>4. CASE WorkStart \/ WorkFifo \/ WorkReadClear \/ WorkCeLow
  BY <1>4 DEF WorkStart, WorkFifo, WorkReadClear, WorkCeLow, chipVars, syncVars
<1>5. CASE WorkFlush \/ WorkGive \/ WorkClear \/ WorkRearm
  BY <1>5 DEF WorkFlush, WorkGive, WorkClear, WorkRearm, chipVars, syncVars
<1>6. CASE ModeStep /\ UNCHANGED <<irqVars, workVars, syncVars>>
  <2>1. UNCHANGED <<rxFifo, arrived>>
    BY <1>6 DEF ModeStep, CallRead, ListenPrimRx, ListenCe, ListenWidth, ListenPower, CallWrite,
                StopCe, StopPrimRx, StopFlag, StopPower, StopClear, WritePayload, PulseHigh,
                PulseLow, chipVars
  <2> QED
    BY <1>6, <2>1 DEF workVars, syncVars
<1>7. CASE ReadGet
  BY <1>7 DEF ReadGet, chipVars, workVars
<1>8. CASE ReadTimeout \/ WriteTake \/ WriteReturn \/ WriteTimeout
  BY <1>8 DEF ReadTimeout, WriteTake, WriteReturn, WriteTimeout, chipVars, workVars, syncVars
<1>9. CASE UNCHANGED vars
  BY <1>9 DEF vars, chipVars, workVars, syncVars
<1> QED
  BY <1>1, <1>2, <1>3, <1>4, <1>5, <1>6, <1>7, <1>8, <1>9 DEF Next, Work, App, AppStep

(* Each of them keeps the packets arranged, with every fault of the buses.   *)
LEMMA ArrangedStep == TypeOK /\ Arranged /\ [Next]_vars => Arranged'
<1> SUFFICES ASSUME TypeOK, Arranged, [Next]_vars
             PROVE  Arranged'
  OBVIOUS
<1>1. /\ rxQueue \in Seq(Nat) /\ rxFifo \in Seq(Nat) /\ buffer \in Nat
      /\ arrived \in Nat
  BY ChipAssumption DEF ChipAssumption, TypeOK, ChipTypeOK
<1>2. CASE arrived' = arrived + 1 /\ rxFifo' \in {rxFifo, Append(rxFifo, arrived + 1)}
           /\ UNCHANGED <<rxQueue, buffer>>
  BY <1>1, <1>2, OrderHeard DEF Arranged
<1>3. CASE rxFifo # <<>> /\ buffer' = Head(rxFifo) /\ rxFifo' = Tail(rxFifo)
           /\ UNCHANGED <<rxQueue, arrived>>
  BY <1>1, <1>3, OrderRead DEF Arranged
<1>4. CASE buffer' = NoPacket /\ rxQueue' \in {rxQueue, Append(rxQueue, buffer)}
           /\ UNCHANGED <<rxFifo, arrived>>
  BY <1>1, <1>4, OrderPut DEF Arranged
<1>5. CASE rxQueue # <<>> /\ rxQueue' = Tail(rxQueue) /\ UNCHANGED <<buffer, rxFifo, arrived>>
  BY <1>1, <1>5, OrderTake DEF Arranged
<1>6. CASE UNCHANGED <<rxQueue, buffer, rxFifo, arrived>>
  BY <1>6 DEF Arranged
<1> QED
  BY <1>2, <1>3, <1>4, <1>5, <1>6, PacketKinds

(* With every fault of the two buses packets stay in the order heard, none   *)
(* of them twice, with only zeros of failed reads between them.              *)
THEOREM TriggerInOrder == Spec => []TransitInOrder
<1>1. Init => Arranged
  BY DEF Init, ChipInit, Arranged, Ordered, FifoOrder, QueueOrder, Before, NoPacket
<1> QED
  BY <1>1, TypeCorrect, ArrangedStep, ArrangedInOrder, PTL DEF Spec

-----------------------------------------------------------------------------
(* Initialisation                                                            *)

BeforeArm == {"ce", "test", "config", "pipes", "ce_high", "flush_tx", "flush_rx", "arm"}
AfterArm == {"callback", "work", "width", "ce_low", "prim_rx", "pipe0", "power", "clear", "run"}

(* What every step of nrf24l01_init leaves alone, and how far it gets.       *)
LEMMA BootKinds ==
  ASSUME BootStep
  PROVE  /\ UNCHANGED <<modeVars, queued, edge, workVars, syncVars, resets>>
         /\ \/ /\ bpc \in BeforeArm /\ bpc' \in BeforeArm /\ UNCHANGED armed
            \/ bpc = "arm" /\ bpc' = "callback" /\ armed' = TRUE
            \/ bpc \in AfterArm /\ bpc' \in AfterArm /\ UNCHANGED armed
            \/ bpc' = "failed"
<1> USE DEF BeforeArm, AfterArm, vars, BootGoto
<1>1. CASE BootCe \/ BootTest \/ BootConfig \/ BootPipes
  BY <1>1 DEF BootCe, BootTest, BootConfig, BootPipes
<1>2. CASE BootCeHigh \/ BootFlushTx \/ BootFlushRx \/ BootArm
  BY <1>2 DEF BootCeHigh, BootFlushTx, BootFlushRx, BootArm
<1>3. CASE BootCallback \/ BootWork \/ BootWidth \/ BootCeLow
  BY <1>3 DEF BootCallback, BootWork, BootWidth, BootCeLow, irqVars
<1>4. CASE BootPrimRx \/ BootPipe0 \/ BootPower \/ BootClear
  BY <1>4 DEF BootPrimRx, BootPipe0, BootPower, BootClear
<1> QED
  BY <1>1, <1>2, <1>3, <1>4 DEF BootStep

(* Until it is armed nobody holds the right to serve the radio; then one does. *)
BootToken ==
  ~GpioFaults =>
    /\ bpc \in BeforeArm => ~armed /\ ~edge /\ ~queued /\ hpc = "idle"
    /\ bpc \in AfterArm => IrqToken

(* Arming the interrupt creates that right once, and a reset takes it back.  *)
LEMMA BootTokenStep == BootToken /\ [BootNext]_allVars => BootToken'
<1> SUFFICES ASSUME BootToken, ~GpioFaults, [BootNext]_allVars
             PROVE  BootToken'
  BY DEF BootToken
<1> USE DEF BootToken
<1>1. CASE BootStep
  BY <1>1, BootKinds DEF IrqToken, workVars, BeforeArm, AfterArm
<1>2. CASE (IrqCallbackHandler \/ Work \/ Radio) /\ UNCHANGED bootVars
  <2>1. bpc' = bpc
    BY <1>2 DEF bootVars
  <2>2. CASE bpc \in AfterArm
    <3>1. [Next]_vars
      BY <1>2 DEF Next
    <3>2. bpc \notin BeforeArm
      BY <2>2 DEF AfterArm, BeforeArm
    <3> QED
      BY <2>1, <2>2, <3>1, <3>2, TokenStep
  <2>3. CASE bpc \in BeforeArm
    <3>1. ~IrqCallbackHandler
      BY <2>3 DEF IrqCallbackHandler
    <3>2. ~Work
      BY <2>3 DEF Work, WorkStart, WorkFifo, WorkRead, WorkReadClear, WorkPut, WorkCeLow,
                  WorkFlush, WorkGive, WorkClear, WorkRearm, At
    <3>3. bpc \notin AfterArm
      BY <2>3 DEF AfterArm, BeforeArm
    <3> QED
      BY <1>2, <2>1, <2>3, <3>1, <3>2, <3>3 DEF Radio, DetectEdge, workVars
  <2> QED
    BY <2>1, <2>2, <2>3
<1>3. CASE bpc = "run" /\ (App \/ WriteTimeout) /\ UNCHANGED bootVars
  <2>1. [Next]_vars /\ bpc' = "run"
    BY <1>3 DEF Next, bootVars
  <2> QED
    BY <1>3, <2>1, TokenStep DEF BeforeArm, AfterArm
<1>4. CASE UnheardInterrupt
  BY <1>4 DEF UnheardInterrupt, IrqToken, workVars, bootVars
<1>5. CASE NullHandler
  BY <1>5 DEF NullHandler, BeforeArm, AfterArm
<1>6. CASE Reset
  BY <1>6 DEF Reset, BeforeArm, AfterArm
<1>7. CASE UNCHANGED allVars
  BY <1>7 DEF allVars, vars, bootVars, irqVars, workVars, IrqToken
<1> QED
  BY <1>1, <1>2, <1>3, <1>4, <1>5, <1>6, <1>7 DEF BootNext

(* Initialisation, at power-on and after every reset, leaves the right to    *)
(* serve the radio with exactly one, and it stays so.                        *)
THEOREM BootOneServer == BootSpec => []TokenOnceRunning
<1>1. BootInit => BootToken
  BY DEF BootInit, BootToken, BeforeArm, AfterArm
<1>2. BootToken => TokenOnceRunning
  BY DEF BootToken, TokenOnceRunning, AfterArm, IrqToken
<1> QED
  BY <1>1, <1>2, BootTokenStep, PTL DEF BootSpec

(* After power-on, and until the work item has its handler, the radio stays  *)
(* powered down and silent.                                                  *)
QuietInv ==
  /\ resets \in Nat
  /\ resets = 0 =>
       /\ bpc # "fault"
       /\ bpc \in AfterArm \ {"callback", "work"} => workReady
       /\ ~workReady =>
            /\ config = {} /\ status = {} /\ onAir = 0
            /\ ~edge /\ ~queued

(* Nothing initialisation does before k_work_init can raise a flag.          *)
LEMMA QuietStep == QuietInv /\ [BootNext]_allVars => QuietInv'
<1> SUFFICES ASSUME QuietInv, [BootNext]_allVars
             PROVE  QuietInv'
  OBVIOUS
<1> USE BootAssumption DEF BootAssumption, QuietInv
<1>1. CASE Reset
  BY <1>1 DEF Reset
<1>2. CASE ~Reset /\ resets # 0
  <2>1. resets' = resets
    <3>1. CASE BootStep
      BY <3>1, BootKinds
    <3> QED
      BY <1>2, <3>1 DEF BootNext, bootVars, allVars, UnheardInterrupt, NullHandler
  <2> QED
    BY <1>2, <2>1
<1>3. CASE BootStep /\ resets = 0
  <2>1. UNCHANGED <<queued, edge, resets>> /\ bpc' # "fault"
    BY <1>3, BootKinds DEF BeforeArm, AfterArm
  <2>2. CASE BootCe \/ BootTest \/ BootConfig \/ BootPipes
    BY <1>3, <2>1, <2>2 DEF BootCe, BootTest, BootConfig, BootPipes, BootGoto, AfterArm, chipVars
  <2>3. CASE BootCeHigh \/ BootFlushTx \/ BootFlushRx \/ BootArm
    BY <1>3, <2>1, <2>3 DEF BootCeHigh, BootFlushTx, BootFlushRx, BootArm, BootGoto, AfterArm, chipVars
  <2>4. CASE BootCallback \/ BootWork
    BY <1>3, <2>1, <2>4 DEF BootCallback, BootWork, vars, chipVars, AfterArm
  <2>5. CASE BootWidth \/ BootCeLow \/ BootPrimRx \/ BootPipe0 \/ BootPower \/ BootClear
    <3>1. bpc \in AfterArm \ {"callback", "work"} /\ workReady' = workReady
      BY <2>5 DEF BootWidth, BootCeLow, BootPrimRx, BootPipe0, BootPower, BootClear, BootGoto, AfterArm
    <3> QED
      BY <1>3, <2>1, <3>1
  <2> QED
    BY <1>3, <2>2, <2>3, <2>4, <2>5 DEF BootStep
<1>4. CASE UNCHANGED bootVars /\ Radio /\ resets = 0
  <2>1. CASE workReady
    BY <1>4, <2>1 DEF bootVars
  <2>2. CASE ~workReady
    <3>1. ~ChipStep
      BY <1>4, <2>2 DEF ChipStep, ChipReceive, Listening, ConfigBits, ChipTxStart, CanTransmit,
                        ChipTxDone, ChipTxFail
    <3> QED
      BY <1>4, <3>1 DEF Radio
  <2> QED
    BY <2>1, <2>2
<1>5. CASE UNCHANGED bootVars /\ resets = 0 /\ workReady
  BY <1>5 DEF bootVars
<1>6. CASE IrqCallbackHandler /\ UNCHANGED bootVars /\ resets = 0
  BY <1>6 DEF IrqCallbackHandler, bootVars
<1>7. CASE bpc = "run" /\ UNCHANGED bootVars /\ resets = 0
  BY <1>7 DEF bootVars, AfterArm
<1>8. CASE UnheardInterrupt /\ resets = 0
  BY <1>8 DEF UnheardInterrupt, bootVars, chipVars
<1>9. CASE NullHandler /\ resets = 0
  BY <1>9 DEF NullHandler
<1>10. CASE UNCHANGED allVars
  BY <1>10 DEF allVars, vars, bootVars, irqVars, chipVars
<1> QED
  BY <1>1, <1>2, <1>3, <1>4, <1>5, <1>6, <1>7, <1>8, <1>9, <1>10 DEF BootNext

(* No interrupt reaches the work queue before k_work_init, unless the        *)
(* microcontroller was reset on its own: with every fault of the two buses.  *)
THEOREM BootQuiet == BootSpec => []QuietBeforeReady
<1>1. BootInit => QuietInv
  BY DEF BootInit, QuietInv, AfterArm
<1>2. QuietInv => QuietBeforeReady
  BY DEF QuietInv, QuietBeforeReady
<1> QED
  BY <1>1, <1>2, QuietStep, PTL DEF BootSpec

(* Power-on leaves every variable within its type.                           *)
LEMMA BootTypeInit == BootInit => TypeOK
<1> SUFFICES ASSUME BootInit
             PROVE  TypeOK
  OBVIOUS
<1> USE ChipAssumption, ModeAssumption, TriggerAssumption
    DEF ChipAssumption, ModeAssumption, TriggerAssumption
<1>1. rxFifo \in Seq(Nat) /\ Len(rxFifo) <= FifoDepth
  BY DEF BootInit
<1>2. txFifo \in Seq(WriteIds) /\ Len(txFifo) <= FifoDepth
  BY DEF BootInit
<1>3. rxQueue \in Seq(Nat) /\ Len(rxQueue) <= QueueLen
  BY DEF BootInit
<1>4. ChipTypeOK
  <2>1. onAir \in WriteIds \cup {0} /\ arrived \in 0 .. MaxArrivals
    BY DEF BootInit
  <2>2. /\ status = {} /\ config = {} /\ enRxaddr = Pipes /\ rxPw0 = "unset"
        /\ ce = FALSE /\ sent = {}
    BY DEF BootInit
  <2> QED
    BY <1>1, <1>2, <2>1, <2>2 DEF ChipTypeOK
<1>5. ModeTypeOK
  BY ModeInitType DEF BootInit
<1> QED
  BY <1>3, <1>4, <1>5 DEF BootInit, TypeOK, WorkLabels, NoPacket

(* Types hold through initialisation and resets as well.                     *)
LEMMA BootTypeStep == TypeOK /\ [BootNext]_allVars => TypeOK'
<1> USE ChipAssumption, ModeAssumption, TriggerAssumption
    DEF ChipAssumption, ModeAssumption, TriggerAssumption
<1> SUFFICES ASSUME TypeOK, [BootNext]_allVars
             PROVE  TypeOK'
  OBVIOUS
<1>1. CASE BootStep
  <2>1. ChipTypeOK /\ 0 \in Pipes /\ 1 \in Pipes /\ "PRIM_RX" \in ConfigBits
    BY DEF TypeOK, Pipes, ConfigBits
  <2>2. ChipTypeOK' /\ armed' \in BOOLEAN
    <3>1. CASE BootCe \/ BootTest \/ BootCeHigh \/ BootCeLow \/ BootArm
      BY <2>1, <3>1 DEF BootCe, BootTest, BootCeHigh, BootCeLow, BootArm, ToggleCe, chipVars,
                        TypeOK, ChipTypeOK
    <3>2. CASE BootConfig \/ BootPower
      <4>1. config' \in SUBSET ConfigBits
        BY <2>1, <3>2, PowerUpType DEF BootConfig, BootPower, ChipTypeOK
      <4> QED
        BY <2>1, <3>2, <4>1 DEF BootConfig, BootPower, TypeOK, ChipTypeOK
    <3>3. CASE BootPrimRx
      <4>1. config' \in SUBSET ConfigBits
        <5>1. PICK val \in BOOLEAN : config' \in SetRegisterBit(config, "PRIM_RX", val)
          BY <3>3 DEF BootPrimRx
        <5>2. config \in SUBSET ConfigBits
          BY <2>1 DEF ChipTypeOK
        <5> QED
          BY <2>1, <5>1, <5>2, SetRegisterBitType
      <4>2. UNCHANGED <<status, enRxaddr, rxPw0, ce, rxFifo, txFifo, onAir, arrived, sent, armed>>
        BY <3>3 DEF BootPrimRx
      <4> QED
        BY <2>1, <4>1, <4>2 DEF TypeOK, ChipTypeOK
    <3>4. CASE BootPipe0
      <4>1. enRxaddr' \in SUBSET Pipes
        BY <2>1, <3>4, SetRegisterBitType DEF BootPipe0, ChipTypeOK
      <4> QED
        BY <2>1, <3>4, <4>1 DEF BootPipe0, TypeOK, ChipTypeOK
    <3>5. CASE BootPipes
      <4>1. PICK zero \in SetRegisterBit(enRxaddr, 0, TRUE) :
              enRxaddr' \in SetRegisterBit(zero, 1, TRUE)
        BY <3>5 DEF BootPipes
      <4>2. zero \in SUBSET Pipes
        BY <2>1, <4>1, SetRegisterBitType DEF ChipTypeOK
      <4>3. enRxaddr' \in SUBSET Pipes
        <5>1. PICK bit \in Pipes : enRxaddr' \in SetRegisterBit(zero, bit, TRUE)
          BY <2>1, <4>1
        <5> QED
          BY <4>2, <5>1, SetRegisterBitType
      <4>4. rxPw0' \in {"unset", "ack", "payload"}
        BY <2>1, <3>5 DEF BootPipes, Transceive, ChipTypeOK
      <4>5. UNCHANGED <<status, config, ce, rxFifo, txFifo, onAir, arrived, sent, armed>>
        BY <3>5 DEF BootPipes
      <4> QED
        BY <2>1, <4>3, <4>4, <4>5 DEF TypeOK, ChipTypeOK
    <3>6. CASE BootWidth
      BY <2>1, <3>6 DEF BootWidth, Transceive, TypeOK, ChipTypeOK
    <3>7. CASE BootFlushTx \/ BootFlushRx \/ BootClear
      <4>1. rxFifo' \in {rxFifo, <<>>} /\ txFifo' \in {txFifo, <<>>} /\ status' \in {status, {}}
        BY <3>7 DEF BootFlushTx, BootFlushRx, BootClear, ClearIrq, Transceive
      <4>2. rxFifo' \in Seq(Nat) /\ Len(rxFifo') <= FifoDepth
        <5>1. CASE rxFifo' = <<>>
          BY <5>1
        <5> QED
          BY <2>1, <4>1, <5>1 DEF ChipTypeOK
      <4>3. txFifo' \in Seq(WriteIds) /\ Len(txFifo') <= FifoDepth
        <5>1. CASE txFifo' = <<>>
          BY <5>1
        <5> QED
          BY <2>1, <4>1, <5>1 DEF ChipTypeOK
      <4>4. UNCHANGED <<config, enRxaddr, rxPw0, ce, onAir, arrived, sent, armed>>
        BY <3>7 DEF BootFlushTx, BootFlushRx, BootClear
      <4> QED
        BY <2>1, <4>1, <4>2, <4>3, <4>4 DEF TypeOK, ChipTypeOK
    <3>8. CASE BootCallback \/ BootWork
      BY <3>8 DEF BootCallback, BootWork, vars, chipVars, irqVars, TypeOK, ChipTypeOK
    <3> QED
      BY <1>1, <3>1, <3>2, <3>3, <3>4, <3>5, <3>6, <3>7, <3>8 DEF BootStep
  <2> QED
    BY <1>1, <2>2, BootKinds DEF TypeOK, ModeTypeOK, modeVars, workVars, syncVars
<1>2. CASE IrqCallbackHandler \/ Work \/ Radio \/ App \/ WriteTimeout
  BY <1>2, TypeStep DEF Next
<1>3. CASE UnheardInterrupt \/ NullHandler \/ UNCHANGED allVars
  <2>1. ChipTypeOK' /\ ModeTypeOK'
    BY <1>3, ChipFrame, ModeFrame DEF UnheardInterrupt, NullHandler, allVars, vars, TypeOK
  <2> QED
    BY <1>3, <2>1 DEF UnheardInterrupt, NullHandler, allVars, vars, irqVars, workVars, syncVars,
                      TypeOK
<1>4. CASE Reset
  <2>1. rxQueue' \in Seq(Nat) /\ Len(rxQueue') <= QueueLen
    BY <1>4 DEF Reset
  <2>2. ChipTypeOK'
    BY <1>4 DEF Reset, TypeOK, ChipTypeOK
  <2>3. ModeTypeOK'
    BY <1>4 DEF Reset, TypeOK, ModeTypeOK, ModeLabels, StopLabels, SendLabels
  <2> QED
    BY <1>4, <2>1, <2>2, <2>3 DEF Reset, TypeOK, WorkLabels, NoPacket
<1> QED
  BY <1>1, <1>2, <1>3, <1>4 DEF BootNext

(* Initialisation only ever empties the FIFO, a reset the queue and the      *)
(* buffer.                                                                   *)
LEMMA BootPacketKinds ==
  ASSUME [BootNext]_allVars
  PROVE  \/ [Next]_vars
         \/ rxFifo' = <<>> /\ UNCHANGED <<rxQueue, buffer, arrived>>
         \/ rxQueue' = <<>> /\ buffer' = NoPacket /\ UNCHANGED <<rxFifo, arrived>>
         \/ UNCHANGED <<rxQueue, buffer, rxFifo, arrived>>
<1>1. CASE BootStep
  <2>1. UNCHANGED <<rxQueue, buffer>>
    BY <1>1, BootKinds DEF workVars, syncVars
  <2>2. arrived' = arrived /\ rxFifo' \in {rxFifo, <<>>}
    BY <1>1 DEF BootStep, BootCe, BootTest, BootConfig, BootPipes, BootCeHigh, BootFlushTx,
           BootFlushRx, BootArm, BootCallback, BootWork, BootWidth, BootCeLow, BootPrimRx,
           BootPipe0, BootPower, BootClear, Transceive, vars, chipVars
  <2> QED
    BY <2>1, <2>2
<1>2. CASE IrqCallbackHandler \/ Work \/ Radio \/ App \/ WriteTimeout \/ UNCHANGED allVars
  BY <1>2 DEF Next, allVars
<1>3. CASE UnheardInterrupt \/ NullHandler
  BY <1>3 DEF UnheardInterrupt, NullHandler, vars, chipVars, workVars, syncVars
<1>4. CASE Reset
  BY <1>4 DEF Reset
<1> QED
  BY <1>1, <1>2, <1>3, <1>4 DEF BootNext

(* Resets and failed initialisations do not disturb the order of packets.    *)
THEOREM BootInOrder == BootSpec => []TransitInOrder
<1>1. BootInit => TypeOK /\ Arranged
  BY BootTypeInit DEF BootInit, Arranged, Ordered, FifoOrder, QueueOrder, Before, NoPacket
<1>2. TypeOK /\ Arranged /\ [BootNext]_allVars => TypeOK' /\ Arranged'
  <2> SUFFICES ASSUME TypeOK, Arranged, [BootNext]_allVars
               PROVE  Arranged'
    BY BootTypeStep
  <2>1. /\ rxQueue \in Seq(Nat) /\ rxFifo \in Seq(Nat) /\ buffer \in Nat
        /\ arrived \in Nat
    BY ChipAssumption DEF ChipAssumption, TypeOK, ChipTypeOK
  <2>2. CASE [Next]_vars
    BY <2>2, ArrangedStep
  <2>3. CASE rxFifo' = <<>> /\ UNCHANGED <<rxQueue, buffer, arrived>>
    BY <2>1, <2>3, OrderTake DEF Arranged
  <2>4. CASE rxQueue' = <<>> /\ buffer' = NoPacket /\ UNCHANGED <<rxFifo, arrived>>
    BY <2>1, <2>4, OrderTake DEF Arranged
  <2>5. CASE UNCHANGED <<rxQueue, buffer, rxFifo, arrived>>
    BY <2>5 DEF Arranged
  <2> QED
    BY <2>2, <2>3, <2>4, <2>5, BootPacketKinds
<1> QED
  BY <1>1, <1>2, ArrangedInOrder, PTL DEF BootSpec

(* On a working bus set_register_bit changes the one bit it is asked to ...  *)
LEMMA BitWritten ==
  ASSUME ~SpiFaults, NEW reg, NEW bit, NEW val \in BOOLEAN,
         NEW new \in SetRegisterBit(reg, bit, val)
  PROVE  new = IF val THEN reg \cup {bit} ELSE reg \ {bit}
  BY DEF SetRegisterBit, ReadRegister, Transceive

(* ... so power_up leaves the radio powered up.                              *)
LEMMA PoweredUp ==
  ASSUME ~SpiFaults, PowerUp, config \subseteq ConfigBits
  PROVE  config' = config \cup {"PWR_UP"}
<1>1. CASE "PWR_UP" \in config
  BY <1>1 DEF PowerUp, ReadRegister
<1>2. CASE "PWR_UP" \notin config
  BY <1>2, BitWritten DEF PowerUp, ReadRegister
<1> QED
  BY <1>1, <1>2

Booting == BeforeArm \cup (AfterArm \ {"run"})
Emptied == {"flush_rx", "arm"} \cup (AfterArm \ {"run"})

(* What the driver and the radio have come to at each point of an            *)
(* initialisation without faults.  An interrupt may be served meanwhile, but *)
(* only for a packet, which is left in the FIFO, and for no verdict.         *)
ServedQuietly ==
  bpc \in Booting =>
    /\ sem = 0 /\ ~isListening
    /\ hpc \in {"idle", "fifo", "clear", "rearm"}
    /\ edge \/ queued \/ hpc # "idle" => bpc \in AfterArm /\ status \subseteq {"RX_DR"}

NothingToSend == bpc \in Emptied => txFifo = <<>> /\ onAir = 0

Programmed ==
  /\ bpc \in Emptied \cup {"ce_high", "flush_tx"} => enRxaddr = Pipes
  /\ bpc \in {"ce_low", "prim_rx", "pipe0", "power", "clear"} => rxPw0 = "ack"
  /\ bpc \in {"prim_rx", "pipe0", "power", "clear"} => ~ce
  /\ bpc \in {"pipe0", "power", "clear"} => "PRIM_RX" \notin config
  /\ bpc = "clear" => "PWR_UP" \in config

(* After power-on nothing at all has happened yet.                           *)
Fresh ==
  resets = 0 /\ bpc \in Booting =>
    /\ config \subseteq {"PWR_UP"} /\ (bpc # "clear" => config = {})
    /\ status = {} /\ onAir = 0 /\ arrived = 0 /\ sent = {} /\ rxFifo = <<>>
    /\ ModeInit
    /\ ~edge /\ ~queued /\ hpc = "idle" /\ buffer = NoPacket
    /\ rxQueue = <<>> /\ retCode = "ok"

(* The strengthening: what holds throughout initialisation and after it.     *)
BootInv ==
  /\ TypeOK /\ BootToken /\ resets \in Nat
  /\ ~SpiFaults /\ ~GpioFaults => ServedQuietly /\ NothingToSend /\ Programmed /\ Fresh

(* A step of nrf24l01_init keeps each part of it: what is served, ...        *)
LEMMA QuietlyBoot ==
  ASSUME BootInv, BootStep, ~SpiFaults, ~GpioFaults
  PROVE  ServedQuietly' /\ NothingToSend'
<1>1. UNCHANGED <<modeVars, queued, edge, workVars, syncVars>>
  BY BootKinds
<1>2. bpc \in Booting /\ (bpc \in AfterArm => bpc' \in AfterArm \/ bpc' = "failed")
  BY DEF BootStep, BootCe, BootTest, BootConfig, BootPipes, BootCeHigh, BootFlushTx, BootFlushRx,
         BootArm, BootCallback, BootWork, BootWidth, BootCeLow, BootPrimRx, BootPipe0, BootPower,
         BootClear, BootGoto, Booting, BeforeArm, AfterArm
<1>3. status' \in {status, {}}
  BY DEF BootStep, BootCe, BootTest, BootConfig, BootPipes, BootCeHigh, BootFlushTx, BootFlushRx,
         BootArm, BootCallback, BootWork, BootWidth, BootCeLow, BootPrimRx, BootPipe0, BootPower,
         BootClear, ClearIrq, Transceive, vars, chipVars
<1>4. ServedQuietly'
  BY <1>1, <1>2, <1>3 DEF BootInv, ServedQuietly, workVars, syncVars, modeVars, Booting, BeforeArm,
                          AfterArm
<1>5. NothingToSend'
  <2>1. CASE BootFlushTx
    BY <2>1 DEF BootFlushTx, Transceive, NothingToSend
  <2>2. CASE bpc \in Emptied
    <3>1. txFifo' = txFifo /\ onAir' = onAir
      BY <2>2 DEF Emptied, AfterArm, BootStep, BootCe, BootTest, BootConfig, BootPipes, BootCeHigh,
             BootFlushTx, BootFlushRx, BootArm, BootCallback, BootWork, BootWidth, BootCeLow,
             BootPrimRx, BootPipe0, BootPower, BootClear, BootGoto, vars, chipVars
    <3> QED
      BY <2>2, <3>1 DEF BootInv, NothingToSend
  <2>3. CASE ~BootFlushTx /\ bpc \notin Emptied
    <3>1. bpc' \notin Emptied
      BY <2>3 DEF Emptied, AfterArm, BootStep, BootCe, BootTest, BootConfig, BootPipes, BootCeHigh,
             BootFlushRx, BootArm, BootCallback, BootWork, BootWidth, BootCeLow,
             BootPrimRx, BootPipe0, BootPower, BootClear, BootGoto
    <3> QED
      BY <3>1 DEF NothingToSend
  <2> QED
    BY <2>1, <2>2, <2>3
<1> QED
  BY <1>4, <1>5

(* ... what is programmed, ...                                               *)
LEMMA ProgrammedBoot ==
  ASSUME BootInv, BootStep, ~SpiFaults, ~GpioFaults
  PROVE  Programmed'
<1> USE DEF Programmed, Emptied, AfterArm, BootGoto
<1>0. config \subseteq ConfigBits /\ enRxaddr \subseteq Pipes /\ Programmed
  BY DEF BootInv, TypeOK, ChipTypeOK
<1>1. CASE BootPipes
  <2>1. PICK zero \in SetRegisterBit(enRxaddr, 0, TRUE) :
          enRxaddr' \in SetRegisterBit(zero, 1, TRUE)
    BY <1>1 DEF BootPipes
  <2>2. zero = enRxaddr \cup {0}
    BY <2>1, BitWritten
  <2>3. enRxaddr' = zero \cup {1}
    BY <2>1, BitWritten
  <2>4. enRxaddr' = Pipes
    BY <1>0, <2>2, <2>3 DEF Pipes
  <2> QED
    BY <1>1, <2>4 DEF BootPipes
<1>2. CASE BootPipe0
  <2>1. enRxaddr' \in SetRegisterBit(enRxaddr, 0, TRUE)
    BY <1>2 DEF BootPipe0
  <2>2. enRxaddr' = enRxaddr \cup {0}
    BY <2>1, BitWritten
  <2>3. enRxaddr' = enRxaddr
    BY <1>0, <1>2, <2>2 DEF BootPipe0, Pipes
  <2> QED
    BY <1>0, <1>2, <2>3 DEF BootPipe0
<1>3. CASE BootPrimRx
  <2>1. config' \in SetRegisterBit(config, "PRIM_RX", FALSE)
    BY <1>3 DEF BootPrimRx
  <2>2. config' = config \ {"PRIM_RX"}
    BY <2>1, BitWritten
  <2> QED
    BY <1>0, <1>3, <2>2 DEF BootPrimRx
<1>4. CASE BootPower
  <2>1. config' = config \cup {"PWR_UP"}
    BY <1>0, <1>4, PoweredUp DEF BootPower
  <2> QED
    BY <1>0, <1>4, <2>1 DEF BootPower
<1>5. CASE BootCe \/ BootTest \/ BootConfig \/ BootCeHigh \/ BootFlushTx \/ BootFlushRx
  BY <1>0, <1>5 DEF BootCe, BootTest, BootConfig, BootCeHigh, BootFlushTx, BootFlushRx
<1>6. CASE BootArm \/ BootCallback \/ BootWork \/ BootWidth \/ BootCeLow \/ BootClear
  BY <1>0, <1>6 DEF BootArm, BootCallback, BootWork, BootWidth, BootCeLow, BootClear, ToggleCe,
                    Transceive, vars, chipVars
<1> QED
  BY <1>1, <1>2, <1>3, <1>4, <1>5, <1>6 DEF BootStep

(* ... and what has not happened yet.                                        *)
LEMMA FreshBoot ==
  ASSUME BootInv, BootStep, ~SpiFaults, ~GpioFaults
  PROVE  Fresh'
<1> SUFFICES ASSUME resets = 0, bpc' \in Booting
             PROVE  Fresh'
  BY BootKinds DEF Fresh
<1> USE DEF BootGoto
<1>1. bpc \in Booting /\ Fresh /\ config \subseteq ConfigBits
  BY DEF BootInv, TypeOK, ChipTypeOK, BootStep, BootCe, BootTest, BootConfig, BootPipes, BootCeHigh,
         BootFlushTx, BootFlushRx, BootArm, BootCallback, BootWork, BootWidth, BootCeLow, BootPrimRx,
         BootPipe0, BootPower, BootClear, Booting, BeforeArm, AfterArm
<1>2. /\ UNCHANGED <<onAir, arrived, sent>>
      /\ status' \in {status, {}} /\ rxFifo' \in {rxFifo, <<>>}
  BY DEF BootStep, BootCe, BootTest, BootConfig, BootPipes, BootCeHigh, BootFlushTx, BootFlushRx,
         BootArm, BootCallback, BootWork, BootWidth, BootCeLow, BootPrimRx, BootPipe0, BootPower,
         BootClear, ClearIrq, Transceive, vars, chipVars
<1>3. UNCHANGED <<modeVars, queued, edge, workVars, syncVars, resets>>
  BY BootKinds
<1>4. config' \subseteq {"PWR_UP"} /\ (bpc' # "clear" => config' = {})
  <2>1. CASE BootPower
    <3>1. config' = config \cup {"PWR_UP"} /\ bpc' = "clear"
      BY <1>1, <2>1, PoweredUp DEF BootPower
    <3> QED
      BY <1>1, <3>1 DEF Fresh
  <2>2. CASE BootPrimRx
    <3>1. config' \in SetRegisterBit(config, "PRIM_RX", FALSE)
      BY <2>2 DEF BootPrimRx
    <3>2. config' = config \ {"PRIM_RX"} /\ bpc # "clear"
      BY <2>2, <3>1, BitWritten DEF BootPrimRx
    <3> QED
      BY <1>1, <3>2 DEF Fresh
  <2>3. CASE ~BootPower /\ ~BootPrimRx
    <3>1. config' = config /\ bpc # "clear"
      BY <2>3 DEF BootStep, BootCe, BootTest, BootConfig, BootPipes, BootCeHigh, BootFlushTx,
             BootFlushRx, BootArm, BootCallback, BootWork, BootWidth, BootCeLow, BootPipe0,
             BootClear, vars, chipVars, Booting, BeforeArm, AfterArm
    <3> QED
      BY <1>1, <3>1 DEF Fresh
  <2> QED
    BY <2>1, <2>2, <2>3
<1> QED
  BY <1>1, <1>2, <1>3, <1>4 DEF Fresh, ModeInit, modeVars, workVars, syncVars

(* The same while the interrupt, the work queue or the radio takes a step.   *)
LEMMA OthersBoot ==
  ASSUME BootInv, ~SpiFaults, ~GpioFaults, IrqCallbackHandler \/ Work \/ Radio, UNCHANGED bootVars
  PROVE  ServedQuietly' /\ NothingToSend' /\ Programmed' /\ Fresh'
<1>0. ServedQuietly /\ NothingToSend /\ Programmed /\ Fresh /\ BootToken /\ TypeOK
  BY DEF BootInv
<1>1. CASE bpc \notin Booting
  BY <1>1 DEF bootVars, Booting, Emptied, BeforeArm, AfterArm, ServedQuietly, NothingToSend,
              Programmed, Fresh
<1> SUFFICES ASSUME bpc \in Booting, UNCHANGED <<bpc, resets>>
             PROVE  ServedQuietly' /\ NothingToSend' /\ Programmed' /\ Fresh'
  BY <1>1 DEF bootVars
<1>2. CASE IrqCallbackHandler
  BY <1>0, <1>2 DEF IrqCallbackHandler, ServedQuietly, NothingToSend, Programmed, Fresh, chipVars,
                    modeVars, workVars, syncVars
<1>3. CASE Work
  <2>1. CASE WorkStart
    <3>1. hpc' \in {"fifo", "clear"} /\ status \subseteq {"RX_DR"} /\ resets # 0
      BY <1>0, <2>1 DEF WorkStart, ReadRegister, ServedQuietly, Fresh
    <3> QED
      BY <1>0, <2>1, <3>1 DEF WorkStart, ServedQuietly, NothingToSend, Programmed, Fresh, chipVars,
                              modeVars, syncVars
  <2>2. CASE WorkFifo
    <3>1. hpc = "fifo" /\ hpc' = "clear"
      BY <1>0, <2>2 DEF WorkFifo, At, ServedQuietly
    <3> QED
      BY <1>0, <2>2, <3>1 DEF WorkFifo, At, ServedQuietly, NothingToSend, Programmed, Fresh,
                              chipVars, modeVars, irqVars, syncVars
  <2>3. CASE WorkClear
    BY <1>0, <2>3 DEF WorkClear, ClearIrq, Transceive, At, ServedQuietly, NothingToSend, Programmed,
                      Fresh, modeVars, irqVars, syncVars
  <2>4. CASE WorkRearm
    BY <1>0, <2>4 DEF WorkRearm, ServedQuietly, NothingToSend, Programmed, Fresh, chipVars,
                      modeVars, syncVars
  <2>5. ~WorkRead /\ ~WorkReadClear /\ ~WorkPut /\ ~WorkCeLow /\ ~WorkFlush /\ ~WorkGive
    BY <1>0 DEF WorkRead, WorkReadClear, WorkPut, WorkCeLow, WorkFlush, WorkGive, At, ServedQuietly
  <2> QED
    BY <1>3, <2>1, <2>2, <2>3, <2>4, <2>5 DEF Work
<1>4. CASE Radio
  <2>1. UNCHANGED <<modeVars, armed, queued, workVars, syncVars>> /\ DetectEdge /\ ChipStep
    BY <1>4 DEF Radio
  <2>2. UNCHANGED <<config, enRxaddr, rxPw0, ce>>
    BY <2>1 DEF ChipStep, ChipReceive, ChipTxStart, ChipTxDone, ChipTxFail
  <2>3. NothingToSend'
    <3>1. CASE bpc \in Emptied
      <4>1. txFifo = <<>> /\ onAir = 0
        BY <1>0, <3>1 DEF NothingToSend
      <4> QED
        BY <2>1, <4>1 DEF ChipStep, ChipReceive, ChipTxStart, CanTransmit, ChipTxDone, ChipTxFail,
                          NothingToSend
    <3> QED
      BY <3>1 DEF NothingToSend
  <2>4. ServedQuietly'
    <3>1. CASE bpc \in BeforeArm
      <4>1. ~armed /\ ~edge /\ ~queued /\ hpc = "idle"
        BY <1>0, <3>1 DEF BootToken
      <4> QED
        BY <1>0, <2>1, <4>1 DEF DetectEdge, ServedQuietly, workVars, syncVars, modeVars
    <3>2. CASE bpc \in AfterArm
      <4>1. bpc \in Emptied
        BY <3>2 DEF Emptied, Booting, BeforeArm, AfterArm
      <4>2. onAir = 0
        BY <1>0, <4>1 DEF NothingToSend
      <4>3. status' \in {status, status \cup {"RX_DR"}}
        BY <2>1, <4>2 DEF ChipStep, ChipReceive, ChipTxStart, ChipTxDone, ChipTxFail
      <4> QED
        BY <1>0, <2>1, <3>2, <4>3 DEF DetectEdge, ServedQuietly, workVars, syncVars, modeVars
    <3> QED
      BY <3>1, <3>2 DEF Booting
  <2>5. Programmed'
    BY <1>0, <2>2 DEF Programmed
  <2>6. Fresh'
    <3>1. CASE resets = 0
      <4>1. ~ChipStep
        <5>1. onAir = 0 /\ config \subseteq {"PWR_UP"} /\ (bpc # "clear" => config = {})
          BY <1>0, <3>1 DEF Fresh
        <5>2. bpc = "clear" => ~ce
          BY <1>0 DEF Programmed
        <5> QED
          BY <5>1, <5>2 DEF ChipStep, ChipReceive, Listening, ConfigBits, ChipTxStart, CanTransmit,
                            ChipTxDone, ChipTxFail
      <4> QED
        BY <2>1, <4>1
    <3> QED
      BY <3>1 DEF Fresh
  <2> QED
    BY <2>3, <2>4, <2>5, <2>6
<1> QED
  BY <1>2, <1>3, <1>4

(* Every step, a reset at any moment included, keeps the strengthening.      *)
LEMMA BootInvStep == BootInv /\ [BootNext]_allVars => BootInv'
<1> SUFFICES ASSUME BootInv, [BootNext]_allVars
             PROVE  BootInv'
  OBVIOUS
<1>1. TypeOK' /\ BootToken'
  BY BootTypeStep, BootTokenStep DEF BootInv
<1>2. resets' \in Nat
  <2>1. CASE BootStep
    BY <2>1, BootKinds DEF BootInv
  <2> QED
    BY <2>1 DEF BootInv, BootNext, bootVars, allVars, UnheardInterrupt, NullHandler, Reset
<1> SUFFICES ASSUME ~SpiFaults, ~GpioFaults
             PROVE  ServedQuietly' /\ NothingToSend' /\ Programmed' /\ Fresh'
  BY <1>1, <1>2 DEF BootInv
<1>0. ServedQuietly /\ NothingToSend /\ Programmed /\ Fresh
  BY DEF BootInv
<1>3. CASE BootStep
  BY <1>3, QuietlyBoot, ProgrammedBoot, FreshBoot
<1>4. CASE (IrqCallbackHandler \/ Work \/ Radio) /\ UNCHANGED bootVars
  BY <1>4, OthersBoot
<1>5. CASE bpc' \in {"run", "fault"}
  BY <1>5 DEF ServedQuietly, NothingToSend, Programmed, Fresh, Booting, Emptied, BeforeArm, AfterArm
<1>6. CASE UnheardInterrupt
  BY <1>0, <1>6 DEF UnheardInterrupt, ServedQuietly, NothingToSend, Programmed, Fresh, chipVars,
                    modeVars, workVars, syncVars, bootVars
<1>7. CASE Reset
  <2>1. resets' # 0 /\ bpc' = "ce"
    BY <1>7 DEF Reset, BootInv
  <2>2. ServedQuietly'
    BY <1>7 DEF Reset, ServedQuietly
  <2> QED
    BY <2>1, <2>2 DEF NothingToSend, Programmed, Fresh, Emptied, AfterArm
<1>8. CASE UNCHANGED allVars
  BY <1>0, <1>8 DEF allVars, vars, bootVars, chipVars, modeVars, irqVars, workVars, syncVars,
                    ServedQuietly, NothingToSend, Programmed, Fresh, ModeInit
<1> QED
  BY <1>3, <1>4, <1>5, <1>6, <1>7, <1>8 DEF BootNext, NullHandler, bootVars

(* nrf24l01_init, when nothing fails, hands the radio over as the driver     *)
(* relies on, at power-on and after a reset at any moment; at power-on in    *)
(* the very state Nrf24Trigger starts from.                                  *)
THEOREM BootHandsOver == BootSpec => InitHandsOver
<1>1. BootInit => BootInv
  <2> SUFFICES ASSUME BootInit
               PROVE  BootInv
    OBVIOUS
  <2>1. TypeOK
    BY BootTypeInit
  <2>2. BootToken
    BY DEF BootInit, BootToken, BeforeArm, AfterArm
  <2> QED
    BY <2>1, <2>2 DEF BootInit, ModeInit, BootInv, ServedQuietly, NothingToSend, Programmed, Fresh,
                      Emptied, AfterArm
<1>2. BootInv /\ BootInv' /\ [BootNext]_allVars
        => [~SpiFaults /\ ~GpioFaults /\ bpc # "run" /\ bpc' = "run" => HandsOver']_allVars
  <2> SUFFICES ASSUME BootInv, BootInv', BootNext, ~SpiFaults, ~GpioFaults, bpc # "run", bpc' = "run"
               PROVE  HandsOver'
    OBVIOUS
  <2>1. BootClear
    BY DEF BootNext, bootVars, UnheardInterrupt, NullHandler, Reset, BootStep, BootCe, BootTest,
           BootConfig, BootPipes, BootCeHigh, BootFlushTx, BootFlushRx, BootArm, BootCallback,
           BootWork, BootWidth, BootCeLow, BootPrimRx, BootPipe0, BootPower, BootGoto
  <2>2. bpc = "clear" /\ bpc \in Booting /\ bpc \in Emptied /\ bpc \in AfterArm
    BY <2>1 DEF BootClear, BootGoto, Booting, Emptied, AfterArm
  <2>3. ServedQuietly /\ NothingToSend /\ Programmed /\ Fresh /\ BootToken' /\ config \subseteq ConfigBits
    BY DEF BootInv, TypeOK, ChipTypeOK
  <2>4. IrqToken'
    BY <2>3 DEF BootToken, IrqToken, AfterArm
  <2>5. /\ status' = {} /\ UNCHANGED <<config, enRxaddr, rxPw0, ce, rxFifo, txFifo, onAir, arrived, sent>>
        /\ UNCHANGED <<modeVars, edge, queued, workVars, syncVars, resets>>
    BY <2>1 DEF BootClear, BootGoto, ClearIrq, Transceive
  <2>6. config = {"PWR_UP"} /\ enRxaddr = Pipes /\ rxPw0 = "ack" /\ ~ce
        /\ txFifo = <<>> /\ onAir = 0 /\ sem = 0
    BY <2>2, <2>3 DEF ServedQuietly, NothingToSend, Programmed, ConfigBits
  <2>7. resets' = 0 => Init'
    <3> SUFFICES ASSUME resets = 0
                 PROVE  Init'
      BY <2>5
    <3>1. /\ arrived = 0 /\ sent = {} /\ rxFifo = <<>> /\ ModeInit
          /\ ~edge /\ ~queued /\ hpc = "idle" /\ buffer = NoPacket
          /\ rxQueue = <<>> /\ retCode = "ok"
      BY <2>2, <2>3 DEF Fresh
    <3>2. armed' = TRUE
      BY <2>4, <2>5, <3>1 DEF IrqToken, workVars, TypeOK, BootInv
    <3> QED
      BY <2>5, <2>6, <3>1, <3>2 DEF Init, ChipInit, ModeInit, modeVars, workVars, syncVars
  <2> QED
    BY <2>4, <2>5, <2>6, <2>7 DEF HandsOver, syncVars
<1> QED
  BY <1>1, <1>2, BootInvStep, PTL DEF BootSpec, InitHandsOver
=============================================================================
