------------------------------ MODULE Nrf24Pair ------------------------------
(***************************************************************************)
(* The sample application on two boards: Alice writes a message and reads   *)
(* the answer, Bob reads a message and answers it, for ever; a third board  *)
(* may run Eve, who only reads.  A call of the driver is one step here; what *)
(* happens inside it is the subject of Nrf24Trigger and Nrf24Polling.       *)
(***************************************************************************)
EXTENDS Integers, FiniteSets

CONSTANTS
  Copies,     \* times the build without trigger writes a message (10 in the code)
  InboxLen,   \* packets a board keeps until they are read
  MaxSaid     \* bound on the messages each board composes

ASSUME PairAssumption ==
  /\ Copies \in Nat \ {0} /\ InboxLen \in Nat \ {0} /\ MaxSaid \in Nat \ {0}

VARIABLES
  build,     \* the build of both boards: CONFIG_NRF24L01_TRIGGER and payload-ack
  eve,       \* a third board listens to the same address
  at,        \* the call, or the long sleep, a board is in
  listens,   \* the radio of a board is in listening mode
  inbox,     \* number of packets received and not yet read
  said,      \* number of the message a board composed last
  copies,    \* calls to nrf24_write made for that message
  reached,   \* one of them was heard by the peer (history)
  silent,    \* a board stopped writing a message nobody had heard (history)
  lostAck    \* a message was heard and its acknowledgement was not (history)

conversation == <<at, listens, inbox, said, copies, reached, silent, lostAck>>
pairVars == <<build, eve, conversation>>

Nodes == {"Alice", "Bob"}
Peer(n) == CHOOSE m \in Nodes : m # n

PairInit ==
  /\ build \in [trigger : BOOLEAN, ack : BOOLEAN]
  /\ eve \in BOOLEAN
  /\ at = [n \in Nodes |-> IF n = "Alice" THEN "write" ELSE "read"]
  /\ listens = [n \in Nodes |-> FALSE]
  /\ inbox = [n \in Nodes |-> 0]
  /\ said = [n \in Nodes |-> IF n = "Alice" THEN 1 ELSE 0]
  /\ copies = [n \in Nodes |-> 0]
  /\ reached = [n \in Nodes |-> FALSE]
  /\ silent = FALSE /\ lostAck = FALSE

-----------------------------------------------------------------------------
(* A board that keeps a packet has the radio in listening mode and room.     *)
Kept(count) == IF count < InboxLen THEN count + 1 ELSE count

(* nrf24_write returns 0: the packet was sent or, with payload-ack, someone  *)
(* answered and the answer came back.  A board running Eve answers, too.     *)
Zero(hears, back) == build.ack => (hears \/ eve) /\ back

(* Mutated form: an error ends the loop as well.                             *)
DoneRegardless(hears, back, n) == TRUE

(* With the trigger a message is written until a call returns 0; without it  *)
(* a fixed number of times, whatever the calls return.                       *)
DoneWriting(hears, back, n) ==
  IF build.trigger THEN Zero(hears, back) ELSE copies[n] + 1 = Copies

(* One call of nrf24_write: the radio leaves listening mode, and the peer    *)
(* hears the packet only if its own radio listens and the air carries it.    *)
WriteCall(n, hears, back) ==
  /\ at[n] = "write"
  /\ hears => listens[Peer(n)]
  /\ listens' = [listens EXCEPT ![n] = FALSE]
  /\ inbox' = IF hears THEN [inbox EXCEPT ![Peer(n)] = Kept(@)] ELSE inbox
  /\ lostAck' = (lostAck \/ (build.ack /\ hears /\ ~back))
  /\ IF DoneWriting(hears, back, n)
       THEN /\ at' = [at EXCEPT ![n] = "read"]
            /\ copies' = [copies EXCEPT ![n] = 0]
            /\ reached' = [reached EXCEPT ![n] = FALSE]
            /\ silent' = (silent \/ ~(reached[n] \/ hears))
       ELSE /\ copies' = [copies EXCEPT ![n] = IF build.trigger THEN @ ELSE @ + 1]
            /\ reached' = [reached EXCEPT ![n] = @ \/ hears]
            /\ UNCHANGED <<at, silent>>
  /\ UNCHANGED <<build, eve, said>>

Write(n) == \E hears, back \in BOOLEAN : WriteCall(n, hears, back)

(* nrf24_read switches the radio to listening mode; the loop around it calls *)
(* it again when it times out.                                               *)
Listen(n) ==
  /\ at[n] = "read"
  /\ ~listens[n]
  /\ listens' = [listens EXCEPT ![n] = TRUE]
  /\ UNCHANGED <<build, eve, at, inbox, said, copies, reached, silent, lostAck>>

(* Mutated form: the packet read stays in the driver's queue.                *)
ReceiveAgain(n) ==
  /\ at[n] = "read" /\ listens[n] /\ inbox[n] > 0
  /\ at' = [at EXCEPT ![n] = "pause"]
  /\ UNCHANGED <<build, eve, listens, inbox, said, copies, reached, silent, lostAck>>

Receive(n) ==
  /\ at[n] = "read" /\ listens[n] /\ inbox[n] > 0
  /\ inbox' = [inbox EXCEPT ![n] = @ - 1]
  /\ at' = [at EXCEPT ![n] = "pause"]
  /\ UNCHANGED <<build, eve, listens, said, copies, reached, silent, lostAck>>

(* Mutated form: after the sleep the board waits for another message.        *)
KeepReading(n) ==
  /\ at[n] = "pause" /\ said[n] < MaxSaid
  /\ at' = [at EXCEPT ![n] = "read"]
  /\ UNCHANGED <<build, eve, listens, inbox, said, copies, reached, silent, lostAck>>

(* The sleep of a second ends; the next message is composed.                 *)
Compose(n) ==
  /\ at[n] = "pause" /\ said[n] < MaxSaid
  /\ said' = [said EXCEPT ![n] = @ + 1]
  /\ at' = [at EXCEPT ![n] = "write"]
  /\ UNCHANGED <<build, eve, listens, inbox, copies, reached, silent, lostAck>>

PairNext == \E n \in Nodes : Write(n) \/ Listen(n) \/ Receive(n) \/ Compose(n)

PairSpec == PairInit /\ [][PairNext]_pairVars

(* The boards keep running; the air carries a packet, and its                *)
(* acknowledgement, that is sent again and again to a board that listens.    *)
PairFairness ==
  \A n \in Nodes :
    /\ WF_pairVars(Write(n)) /\ WF_pairVars(Listen(n))
    /\ WF_pairVars(Receive(n)) /\ WF_pairVars(Compose(n))
    /\ SF_pairVars(WriteCall(n, TRUE, TRUE))

PairFairSpec == PairSpec /\ PairFairness

-----------------------------------------------------------------------------
(* Properties                                                                *)

PairTypeOK ==
  /\ build \in [trigger : BOOLEAN, ack : BOOLEAN] /\ eve \in BOOLEAN
  /\ at \in [Nodes -> {"read", "pause", "write"}]
  /\ listens \in [Nodes -> BOOLEAN]
  /\ inbox \in [Nodes -> 0 .. InboxLen]
  /\ said \in [Nodes -> 0 .. MaxSaid]
  /\ copies \in [Nodes -> 0 .. Copies - 1]
  /\ reached \in [Nodes -> BOOLEAN]
  /\ silent \in BOOLEAN /\ lostAck \in BOOLEAN

Waits(n) == at[n] = "read" /\ inbox[n] = 0
Stuck == \A n \in Nodes : Waits(n)

(* The loops of main.c:61 and main.c:75 wait for each other only after a     *)
(* message that nobody heard was given up for sent.  With the trigger and    *)
(* acknowledgements this cannot happen, unless Eve acknowledges for Bob.     *)
StuckExplained ==
  Stuck => /\ silent
           /\ build.trigger => ~build.ack \/ eve

(* Two boards that both write never hear each other, and with the trigger    *)
(* and acknowledgements neither loop ends (main.c:47, main.c:84).  It takes  *)
(* a lost acknowledgement, whose message is written twice.                   *)
DeafExplained ==
  build.trigger /\ ~lostAck => ~(\A n \in Nodes : at[n] = "write")

(* With the trigger the conversation goes on until Alice has said all she    *)
(* may say in this model, unless one of these accidents happens.             *)
ConversationGoesOn ==
  build.trigger ~> (said["Alice"] = MaxSaid \/ silent \/ lostAck)
=============================================================================
