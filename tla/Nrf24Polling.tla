----------------------------- MODULE Nrf24Polling -----------------------------
(***************************************************************************)
(* The nRF24L01 driver built without CONFIG_NRF24L01_TRIGGER: no interrupt, *)
(* no work queue; the calling thread asks the radio again and again, with   *)
(* no time-out on either call.  Each poll is one SPI transaction, and the   *)
(* radio goes on between two of them.                                       *)
(***************************************************************************)
EXTENDS Nrf24Mode

VARIABLE poll    \* what the polling loop of the call in progress does next

vars == <<chipVars, modeVars, poll>>

PollLabels == {"ask", "payload", "read_clear", "ask_max", "status", "flush",
               "fail_clear", "ok_clear"}

Init ==
  /\ ChipInit
  /\ ModeInit
  /\ poll = "ask"

Radio == ChipStep /\ UNCHANGED <<modeVars, poll>>

Shared == ModeStep /\ UNCHANGED poll

(* One step of the loop of the call the thread is in.                        *)
Poll(call, from, to) ==
  /\ pc = call
  /\ poll = from
  /\ poll' = to

-----------------------------------------------------------------------------
(* nrf24l01_read_polling                                                     *)

(* Mutated form: the RX_DR flag is asked for instead of the FIFO.            *)
AskFlag ==
  /\ Poll("receive", "ask", IF "RX_DR" \in status THEN "payload" ELSE "ask")
  /\ UNCHANGED <<chipVars, modeVars>>

(* FIFO_STATUS says whether a packet waits; if not, sleep and ask again.  A  *)
(* failed read looks like a FIFO that is not empty.                          *)
AskFifo ==
  /\ \/ Poll("receive", "ask", "payload") /\ (rxFifo # <<>> \/ SpiFaults)
     \/ Poll("receive", "ask", "ask") /\ rxFifo = <<>>
  /\ UNCHANGED <<chipVars, modeVars>>

(* Mutated form: the packet is read but stays in the FIFO.                   *)
ReadKeep ==
  /\ Poll("receive", "payload", "read_clear")
  /\ lastRead' = IF rxFifo = <<>> THEN lastRead ELSE Head(rxFifo)
  /\ UNCHANGED <<pc, isListening, writes, results, chipVars>>

(* read_payload hands the oldest packet to the caller; after an SPI error it *)
(* leaves the caller's buffer alone, and nrf24_read returns 0 all the same.  *)
ReadPayload ==
  /\ \/ /\ Poll("receive", "payload", "read_clear")
        /\ lastRead' = IF rxFifo = <<>> THEN lastRead ELSE Head(rxFifo)
        /\ rxFifo' = IF rxFifo = <<>> THEN rxFifo ELSE Tail(rxFifo)
        /\ pc' = pc
     \/ /\ SpiFaults
        /\ Poll("receive", "payload", "ask")
        /\ pc' = "idle"
        /\ UNCHANGED <<lastRead, rxFifo>>
  /\ UNCHANGED <<isListening, writes, results>>
  /\ UNCHANGED <<status, config, enRxaddr, rxPw0, ce, txFifo, onAir, arrived, sent>>

ReadClear ==
  /\ Poll("receive", "read_clear", "ask")
  /\ ClearIrq
  /\ pc' = "idle"
  /\ UNCHANGED <<isListening, writes, results, lastRead>>
  /\ UNCHANGED <<config, enRxaddr, rxPw0, ce, rxFifo, txFifo, onAir, arrived, sent>>

-----------------------------------------------------------------------------
(* The polling part of nrf24l01_write                                        *)

(* STATUS is read once for TX_DS and once more for MAX_RT; the second read   *)
(* is of no consequence when the first saw its flag.                         *)
AskTxDs ==
  /\ \E read \in ReadRegister(status) :
       Poll("verdict", "ask", IF "TX_DS" \in read THEN "status" ELSE "ask_max")
  /\ UNCHANGED <<chipVars, modeVars>>

(* Mutated form: only TX_DS ends the loop.                                   *)
AskTxOnly ==
  /\ Poll("verdict", "ask_max", "ask")
  /\ UNCHANGED <<chipVars, modeVars>>

AskMaxRt ==
  /\ \E read \in ReadRegister(status) :
       Poll("verdict", "ask_max", IF "MAX_RT" \in read THEN "status" ELSE "ask")
  /\ UNCHANGED <<chipVars, modeVars>>

(* STATUS is read a last time: MAX_RT decides.                               *)
Decide ==
  /\ \E read \in ReadRegister(status) :
       Poll("verdict", "status", IF "MAX_RT" \in read THEN "flush" ELSE "ok_clear")
  /\ UNCHANGED <<chipVars, modeVars>>

(* Mutated form: the unanswered payload stays in the FIFO.                   *)
FlushNothing == Poll("verdict", "flush", "fail_clear") /\ UNCHANGED <<chipVars, modeVars>>

Flush ==
  /\ Poll("verdict", "flush", "fail_clear")
  /\ txFifo' \in Transceive(txFifo, <<>>)
  /\ UNCHANGED <<status, config, enRxaddr, rxPw0, ce, rxFifo, onAir, arrived, sent, modeVars>>

FlagsCleared ==
  /\ ClearIrq
  /\ UNCHANGED <<config, enRxaddr, rxPw0, ce, rxFifo, txFifo, onAir, arrived, sent>>

FailClear ==
  /\ Poll("verdict", "fail_clear", "ask")
  /\ FlagsCleared
  /\ Return("eio")

(* Mutated form: the flags of a successful write are left raised.            *)
OkNoClear == Poll("verdict", "ok_clear", "ask") /\ UNCHANGED chipVars /\ Return("ok")

OkClear ==
  /\ Poll("verdict", "ok_clear", "ask")
  /\ FlagsCleared
  /\ Return("ok")

App ==
  \/ Shared \/ AskFifo \/ ReadPayload \/ ReadClear
  \/ AskTxDs \/ AskMaxRt \/ Decide \/ Flush \/ FailClear \/ OkClear

Next == Radio \/ App

Spec == Init /\ [][Next]_vars

(* The thread keeps running and a payload on air comes to an end.            *)
FairSpec ==
  /\ Spec
  /\ WF_vars(pc # "idle" /\ App)
  /\ WF_vars((ChipTxStart \/ ChipTxDone \/ ChipTxFail) /\ Radio)

-----------------------------------------------------------------------------
(* Properties                                                                *)

TypeOK ==
  /\ ChipTypeOK
  /\ ModeTypeOK
  /\ poll \in PollLabels

(* Every write returns the fate of its own payload, flags raised earlier or  *)
(* by received packets notwithstanding.                                      *)
VerdictMatches ==
  ~SpiFaults =>
    \A w \in WriteIds :
      /\ results[w] = "ok" => w \in sent
      /\ results[w] = "eio" => w \notin sent

(* Between two calls nothing of a write is left in the radio, so that no     *)
(* write can be answered with the outcome of another one.                    *)
NothingLeftOver ==
  ~SpiFaults /\ pc \in {"idle"} \cup ListenLabels \cup StopLabels \cup {"receive", "payload"}
    => txFifo = <<>> /\ onAir = 0 /\ status \cap {"TX_DS", "MAX_RT"} = {}

(* The packets still in the FIFO, read after each other, reach the caller in *)
(* the order they were heard, each at most once.                             *)
Mailbox == INSTANCE RadioMailbox
             WITH heard <- arrived, pending <- rxFifo, delivered <- lastRead
MailboxSpec == Mailbox!Spec

(* A write returns as long as SPI and GPIO work.                             *)
WriteReturns == (pc = "verdict") ~> (pc = "idle")

(* A packet in the FIFO ends the read that is waiting, also when its flag    *)
(* was cleared together with that of an earlier packet.                      *)
PacketEndsRead == (pc = "receive" /\ rxFifo # <<>>) ~> (pc = "idle")
=============================================================================
