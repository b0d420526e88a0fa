----------------------------- MODULE SamplesProofs -----------------------------
(***************************************************************************)
(* Proofs about the small samples, each for every value of its constants.   *)
(***************************************************************************)
EXTENDS Nrf24Pair, Publisher, LittleFs, Ssd1316, BootCounter,
        SequenceTheorems, TLAPS

-----------------------------------------------------------------------------
(* Nrf24Pair                                                                 *)

(* The two boards are each other's peer.                                     *)
LEMMA Peers == Nodes = {"Alice", "Bob"} /\ Peer("Alice") = "Bob" /\ Peer("Bob") = "Alice"
  BY DEF Nodes, Peer

(* It is this board's turn to say something, now or after its next read.     *)
Turn(n) == at[n] \in {"pause", "write"} \/ inbox[n] > 0

(* A board whose message was heard does not listen, so that it can miss the  *)
(* answer; and somebody's turn it is, until a message goes unheard.          *)
TurnInv ==
  /\ \A n \in Nodes :
       reached[n] => /\ at[n] = "write" /\ ~listens[n]
                     /\ ~reached[Peer(n)]
                     /\ silent \/ Turn(Peer(n))
  /\ silent \/ Turn("Alice") \/ Turn("Bob")
  /\ silent /\ build.trigger => ~build.ack \/ eve

(* Every step of the boards keeps the types.                                 *)
LEMMA PairTypeStep == PairTypeOK /\ [PairNext]_pairVars => PairTypeOK'
<1> USE PairAssumption DEF PairAssumption
<1> SUFFICES ASSUME PairTypeOK, [PairNext]_pairVars
             PROVE  PairTypeOK'
  OBVIOUS
<1>1. ASSUME NEW n \in Nodes, NEW hears \in BOOLEAN, NEW back \in BOOLEAN,
             WriteCall(n, hears, back)
      PROVE  PairTypeOK'
  <2>1. inbox' \in [Nodes -> 0 .. InboxLen]
    BY <1>1, Peers DEF WriteCall, PairTypeOK, Kept
  <2>2. at' \in [Nodes -> {"read", "pause", "write"}]
    BY <1>1 DEF WriteCall, PairTypeOK
  <2>3. listens' \in [Nodes -> BOOLEAN]
    BY <1>1 DEF WriteCall, PairTypeOK
  <2>4. copies' \in [Nodes -> 0 .. Copies - 1]
    BY <1>1 DEF WriteCall, DoneWriting, PairTypeOK
  <2>5. reached' \in [Nodes -> BOOLEAN]
    <3>1. (reached[n] \/ hears) \in BOOLEAN
      OBVIOUS
    <3> QED
      BY <1>1, <3>1, Zenon DEF WriteCall, PairTypeOK
  <2>6. silent' \in BOOLEAN
    <3>1. (silent \/ ~(reached[n] \/ hears)) \in BOOLEAN
      OBVIOUS
    <3> QED
      BY <1>1, <3>1, Zenon DEF WriteCall, PairTypeOK
  <2>7. lostAck' \in BOOLEAN
    BY <1>1, Zenon DEF WriteCall, PairTypeOK
  <2>8. UNCHANGED <<build, eve, said>>
    BY <1>1 DEF WriteCall
  <2> QED
    BY <2>1, <2>2, <2>3, <2>4, <2>5, <2>6, <2>7, <2>8 DEF PairTypeOK
<1>2. ASSUME NEW n \in Nodes, Listen(n)
      PROVE  PairTypeOK'
  BY <1>2 DEF Listen, PairTypeOK
<1>3. ASSUME NEW n \in Nodes, Receive(n)
      PROVE  PairTypeOK'
  BY <1>3 DEF Receive, PairTypeOK
<1>4. ASSUME NEW n \in Nodes, Compose(n)
      PROVE  PairTypeOK'
  BY <1>4 DEF Compose, PairTypeOK
<1>5. CASE UNCHANGED pairVars
  BY <1>5 DEF pairVars, conversation, PairTypeOK
<1> QED
  BY <1>1, <1>2, <1>3, <1>4, <1>5 DEF PairNext, Write

(* They are right when the boards start.                                     *)
LEMMA PairTypeInit == PairInit => PairTypeOK
<1> SUFFICES ASSUME PairInit
             PROVE  PairTypeOK
  OBVIOUS
<1>1. 0 \in 0 .. InboxLen /\ {0, 1} \subseteq 0 .. MaxSaid /\ 0 \in 0 .. Copies - 1
  BY PairAssumption DEF PairAssumption
<1> QED
  BY <1>1 DEF PairInit, PairTypeOK

(* What a call of nrf24_write does to the two boards.                        *)
LEMMA WriteEffect ==
  ASSUME PairTypeOK, NEW n \in Nodes, NEW hears \in BOOLEAN, NEW back \in BOOLEAN,
         WriteCall(n, hears, back)
  PROVE  /\ at'[Peer(n)] = at[Peer(n)]
         /\ reached'[Peer(n)] = reached[Peer(n)]
         /\ listens'[Peer(n)] = listens[Peer(n)]
         /\ ~listens'[n]
         /\ hears => listens[Peer(n)] /\ inbox'[Peer(n)] > 0
         /\ \A m \in Nodes : inbox[m] > 0 => inbox'[m] > 0
         /\ DoneWriting(hears, back, n) =>
              /\ at'[n] = "read" /\ ~reached'[n]
              /\ silent' <=> silent \/ ~(reached[n] \/ hears)
         /\ ~DoneWriting(hears, back, n) =>
              /\ at'[n] = "write"
              /\ reached'[n] <=> reached[n] \/ hears
              /\ silent' <=> silent
<1> USE PairAssumption, Peers DEF PairAssumption
<1>1. at'[Peer(n)] = at[Peer(n)] /\ listens'[Peer(n)] = listens[Peer(n)] /\ ~listens'[n]
  <2>1. at'[Peer(n)] = at[Peer(n)]
    BY DEF WriteCall, PairTypeOK
  <2>2. listens'[Peer(n)] = listens[Peer(n)] /\ ~listens'[n]
    BY DEF WriteCall, PairTypeOK
  <2> QED
    BY <2>1, <2>2
<1>2. reached'[Peer(n)] = reached[Peer(n)]
  BY DEF WriteCall, PairTypeOK
<1>3. hears => listens[Peer(n)] /\ inbox'[Peer(n)] > 0
  BY DEF WriteCall, PairTypeOK, Kept
<1>4. \A m \in Nodes : inbox[m] > 0 => inbox'[m] > 0
  BY DEF WriteCall, PairTypeOK, Kept
<1>5. ASSUME DoneWriting(hears, back, n)
      PROVE  /\ at'[n] = "read" /\ ~reached'[n]
             /\ silent' <=> silent \/ ~(reached[n] \/ hears)
  BY <1>5, Zenon DEF WriteCall, PairTypeOK
<1>6. ASSUME ~DoneWriting(hears, back, n)
      PROVE  /\ at'[n] = "write"
             /\ reached'[n] <=> reached[n] \/ hears
             /\ silent' <=> silent
  BY <1>6, Zenon DEF WriteCall, PairTypeOK
<1> QED
  BY <1>1, <1>2, <1>3, <1>4, <1>5, <1>6

(* No step takes the turn from both boards unless a message goes unheard.    *)
LEMMA TurnStep == PairTypeOK /\ TurnInv /\ [PairNext]_pairVars => TurnInv'
<1> USE PairAssumption, Peers DEF PairAssumption
<1> SUFFICES ASSUME PairTypeOK, TurnInv, [PairNext]_pairVars
             PROVE  TurnInv'
  OBVIOUS
<1>1. ASSUME NEW n \in Nodes, NEW hears \in BOOLEAN, NEW back \in BOOLEAN,
             WriteCall(n, hears, back)
      PROVE  TurnInv'
  <2> DEFINE m == Peer(n)
  <2>1. m \in Nodes /\ Peer(m) = n /\ Nodes = {n, m} /\ m # n
    OBVIOUS
  <2>2. at[n] = "write" /\ UNCHANGED build /\ UNCHANGED eve
    BY <1>1 DEF WriteCall
  <2>3. CASE DoneWriting(hears, back, n)
    BY <1>1, <2>1, <2>2, <2>3, WriteEffect
       DEF DoneWriting, Zero, TurnInv, Turn
  <2>4. CASE ~DoneWriting(hears, back, n)
    BY <1>1, <2>1, <2>2, <2>4, WriteEffect DEF TurnInv, Turn
  <2> QED
    BY <2>3, <2>4
<1>2. ASSUME NEW n \in Nodes, Listen(n)
      PROVE  TurnInv'
  BY <1>2 DEF Listen, PairTypeOK, TurnInv, Turn
<1>3. ASSUME NEW n \in Nodes, Receive(n)
      PROVE  TurnInv'
  BY <1>3 DEF Receive, PairTypeOK, TurnInv, Turn
<1>4. ASSUME NEW n \in Nodes, Compose(n)
      PROVE  TurnInv'
  BY <1>4 DEF Compose, PairTypeOK, TurnInv, Turn
<1>5. CASE UNCHANGED pairVars
  BY <1>5 DEF pairVars, conversation, TurnInv, Turn
<1> QED
  BY <1>1, <1>2, <1>3, <1>4, <1>5 DEF PairNext, Write

(* Two boards wait for each other only after a message that nobody heard was *)
(* given up for sent; with the trigger and acknowledgements, and without     *)
(* Eve, they never do: for any number of copies and any room for packets.    *)
THEOREM PairStuck == PairSpec => []StuckExplained
<1>1. PairInit => PairTypeOK /\ TurnInv
  BY PairTypeInit, Peers DEF PairInit, TurnInv, Turn
<1>2. PairTypeOK /\ TurnInv /\ [PairNext]_pairVars => (PairTypeOK /\ TurnInv)'
  BY PairTypeStep, TurnStep
<1>3. PairTypeOK /\ TurnInv => StuckExplained
  BY Peers DEF TurnInv, Turn, StuckExplained, Stuck, Waits, PairTypeOK
<1> QED
  BY <1>1, <1>2, <1>3, PTL DEF PairSpec

(* With the trigger and no acknowledgement lost, at most one board has the   *)
(* word: it writes or is about to, or it has the one message on its way.     *)
OneSpeaks ==
  build.trigger /\ ~lostAck =>
    \A n \in Nodes :
      /\ inbox[n] <= 1
      /\ at[n] # "read" \/ inbox[n] > 0 => at[Peer(n)] = "read" /\ inbox[Peer(n)] = 0
      /\ at[n] # "read" => inbox[n] = 0

(* A board says something only after the other was read or answered.         *)
LEMMA OneSpeaksStep == PairTypeOK /\ OneSpeaks /\ [PairNext]_pairVars => OneSpeaks'
<1> USE PairAssumption, Peers DEF PairAssumption
<1> SUFFICES ASSUME PairTypeOK, OneSpeaks, [PairNext]_pairVars
             PROVE  OneSpeaks'
  OBVIOUS
<1>1. ASSUME NEW n \in Nodes, NEW hears \in BOOLEAN, NEW back \in BOOLEAN,
             WriteCall(n, hears, back)
      PROVE  OneSpeaks'
  <2> DEFINE m == Peer(n)
  <2> SUFFICES ASSUME build'.trigger, ~lostAck'
               PROVE  OneSpeaks'
    BY DEF OneSpeaks
  <2>1. m \in Nodes /\ Peer(m) = n /\ Nodes = {n, m} /\ m # n
    OBVIOUS
  <2>2. at[n] = "write" /\ build' = build /\ ~lostAck
    BY <1>1, Zenon DEF WriteCall
  <2>3. at[m] = "read" /\ inbox[m] = 0 /\ inbox[n] = 0
    BY <2>1, <2>2 DEF OneSpeaks
  <2>4. inbox'[n] = 0 /\ inbox'[m] \in {0, 1} /\ (~hears => inbox'[m] = 0)
    BY <1>1, <2>1, <2>3 DEF WriteCall, PairTypeOK, Kept
  <2>5. CASE DoneWriting(hears, back, n)
    <3>1. at'[n] = "read" /\ at'[m] = "read"
      BY <1>1, <2>1, <2>3, <2>5, WriteEffect
    <3> QED
      BY <2>1, <2>4, <3>1 DEF OneSpeaks
  <2>6. CASE ~DoneWriting(hears, back, n)
    <3>1. at'[n] = "write" /\ at'[m] = "read"
      BY <1>1, <2>1, <2>3, <2>6, WriteEffect
    <3>2. ~(build.ack /\ hears /\ ~back)
      BY <1>1, Zenon DEF WriteCall
    <3>3. ~hears
      BY <2>2, <2>6, <3>2, Zenon DEF DoneWriting, Zero
    <3> QED
      BY <2>1, <2>4, <3>1, <3>3 DEF OneSpeaks
  <2> QED
    BY <2>5, <2>6
<1>2. ASSUME NEW n \in Nodes, Listen(n)
      PROVE  OneSpeaks'
  BY <1>2 DEF Listen, OneSpeaks
<1>3. ASSUME NEW n \in Nodes, Receive(n)
      PROVE  OneSpeaks'
  BY <1>3 DEF Receive, PairTypeOK, OneSpeaks
<1>4. ASSUME NEW n \in Nodes, Compose(n)
      PROVE  OneSpeaks'
  BY <1>4 DEF Compose, PairTypeOK, OneSpeaks
<1>5. CASE UNCHANGED pairVars
  BY <1>5 DEF pairVars, conversation, OneSpeaks
<1> QED
  BY <1>1, <1>2, <1>3, <1>4, <1>5 DEF PairNext, Write

(* With the trigger, both boards write at once, each deaf to the other, only *)
(* after the acknowledgement of a message that was heard has been lost.      *)
THEOREM PairDeaf == PairSpec => []DeafExplained
<1>1. PairInit => PairTypeOK /\ OneSpeaks
  BY PairTypeInit, Peers DEF PairInit, OneSpeaks
<1>2. PairTypeOK /\ OneSpeaks /\ [PairNext]_pairVars => (PairTypeOK /\ OneSpeaks)'
  BY PairTypeStep, OneSpeaksStep
<1>3. OneSpeaks => DeafExplained
  BY Peers DEF OneSpeaks, DeafExplained
<1> QED
  BY <1>1, <1>2, <1>3, PTL DEF PairSpec

-----------------------------------------------------------------------------
(* Publisher                                                                 *)

(* What a stage says of the count of sessions is inductive with the types.   *)
LEMMA PublisherStep ==
  PublisherTypeOK /\ SessionsAccounted /\ [PublisherNext]_publisherVars
    => PublisherTypeOK' /\ SessionsAccounted'
<1> USE PublisherAssumption
    DEF PublisherAssumption, PublisherTypeOK, SessionsAccounted, Stages, Accident
<1> SUFFICES ASSUME PublisherTypeOK, SessionsAccounted, [PublisherNext]_publisherVars
             PROVE  PublisherTypeOK' /\ SessionsAccounted'
  OBVIOUS
<1>1. CASE Open
  BY <1>1 DEF Open
<1>2. CASE OpenFails
  <2>1. router' = router /\ linked' = FALSE
    BY <1>2 DEF OpenFails
  <2>2. accidents' \in 0 .. MaxAccidents
    BY <1>2 DEF OpenFails
  <2>3. stage = "open" /\ stage' = "restart" /\ UNCHANGED <<sessions, undeclared>>
    BY <1>2 DEF OpenFails
  <2> QED
    BY <2>1, <2>2, <2>3
<1>3. CASE RestartInterface
  BY <1>3 DEF RestartInterface
<1>4. CASE Declare
  BY <1>4 DEF Declare
<1>5. CASE DeclareFails
  BY <1>5 DEF DeclareFails
<1>6. CASE PutFails
  BY <1>6 DEF PutFails
<1>7. CASE Close
  <2>1. SessionsAccounted' /\ sessions' \in 0 .. MaxConn
    BY <1>7 DEF Close
  <2>2. stage' = "open" /\ linked' = FALSE /\ UNCHANGED <<router, undeclared, accidents>>
    BY <1>7 DEF Close
  <2> QED
    BY <2>1, <2>2
<1>8. CASE RouterStops
  <2>1. router' = FALSE /\ linked' = FALSE
    BY <1>8, Zenon DEF RouterStops
  <2>2. accidents' \in 0 .. MaxAccidents
    BY <1>8 DEF RouterStops
  <2>3. UNCHANGED <<stage, sessions, undeclared>>
    BY <1>8 DEF RouterStops
  <2> QED
    BY <2>1, <2>2, <2>3
<1>9. CASE RouterStarts
  <2>1. router' = TRUE /\ UNCHANGED <<stage, linked, sessions, undeclared, accidents>>
    BY <1>9 DEF RouterStarts
  <2> QED
    BY <2>1
<1>10. CASE UNCHANGED publisherVars
  BY <1>10 DEF publisherVars
<1> QED
  BY <1>1, <1>2, <1>3, <1>4, <1>5, <1>6, <1>7, <1>8, <1>9, <1>10
     DEF PublisherNext, PublisherMain

(* No session is open at power-on.                                           *)
LEMMA PublisherInitial == PublisherInit => PublisherTypeOK /\ SessionsAccounted
<1> SUFFICES ASSUME PublisherInit
             PROVE  PublisherTypeOK /\ SessionsAccounted
  OBVIOUS
<1>1. 0 \in 0 .. MaxConn /\ 0 \in 0 .. MaxAccidents
  BY PublisherAssumption DEF PublisherAssumption
<1>2. SessionsAccounted
  BY DEF PublisherInit, SessionsAccounted
<1> QED
  BY <1>1, <1>2 DEF PublisherInit, PublisherTypeOK, Stages

(* A session is open for main, and one is left behind for every declaration  *)
(* that failed, and no other: for any number of connections and accidents.   *)
THEOREM PublisherSessions == PublisherSpec => []SessionsAccounted
<1> QED
  BY PublisherStep, PublisherInitial, PTL DEF PublisherSpec

(* The publisher once every connection belongs to a session left behind.       *)
Exhausted == undeclared = MaxConn /\ stage \in {"open", "restart"}

(* What the second half of PublishesAgain says: after as many failed         *)
(* declarations as the stack has connections nothing is published again.     *)
THEOREM PublisherExhausted ==
  PublisherSpec => [](undeclared = MaxConn => [](stage # "put"))
<1>1. PublisherTypeOK /\ SessionsAccounted /\ undeclared = MaxConn => Exhausted
  BY PublisherAssumption
     DEF PublisherAssumption, PublisherTypeOK, SessionsAccounted, Stages, Exhausted
<1>2. /\ PublisherTypeOK /\ SessionsAccounted /\ Exhausted
      /\ [PublisherNext]_publisherVars
      => Exhausted'
  <2> SUFFICES ASSUME PublisherTypeOK, SessionsAccounted, Exhausted,
                      [PublisherNext]_publisherVars
               PROVE  Exhausted'
    OBVIOUS
  <2> QED
    BY PublisherAssumption
       DEF PublisherAssumption, PublisherTypeOK, SessionsAccounted, Exhausted,
           PublisherNext, PublisherMain, Open, OpenFails, RestartInterface, Declare,
           DeclareFails, PutFails, Close, RouterStops, RouterStarts, publisherVars
<1>3. Exhausted => stage # "put"
  BY DEF Exhausted
<1> QED
  BY <1>1, <1>2, <1>3, PublisherStep, PublisherInitial, PTL DEF PublisherSpec

-----------------------------------------------------------------------------
(* Ssd1316                                                                   *)

(* The format reported is the one shown, from InitDevice on, for a panel of  *)
(* any size and however many transfers fail.                                 *)
THEOREM PanelFormat == PanelSpec => []FormatShown
<1> DEFINE Inv == pf \in Formats /\ FormatShown
<1>1. PanelInit => Inv
  BY DEF PanelInit, Formats, FormatShown
<1>2. Inv /\ [PanelNext]_panelVars => Inv'
  <2> SUFFICES ASSUME Inv, [PanelNext]_panelVars
               PROVE  Inv'
    OBVIOUS
  <2>1. CASE InitDevice
    BY <2>1 DEF InitDevice, Transfer, Formats, FormatShown
  <2>2. ASSUME NEW on \in BOOLEAN, Blank(on)
        PROVE  Inv'
    BY <2>2 DEF Blank, Formats, FormatShown
  <2>3. ASSUME NEW format \in Formats, SetPixelFormat(format)
        PROVE  Inv'
    <3>1. PICK t \in Transfer(reversed, Reverse(format)) :
            /\ reversed' = t[1]
            /\ pf' = IF t[2] = "ok" THEN format ELSE pf
            /\ unsure' = (t[2] # "ok")
      BY <2>3 DEF SetPixelFormat
    <3>2. t[2] = "ok" => t[1] = Reverse(format)
      BY DEF Transfer
    <3> QED
      BY <2>3, <3>1, <3>2 DEF Reverse, Formats, FormatShown
  <2>4. ASSUME NEW x \in 0 .. Cols - 1, NEW p \in 0 .. Pages - 1,
               NEW w \in 1 .. MaxWidth, NEW q \in 1 .. Pages,
               DisplayWrite(x, 8 * p, w, 8 * q)
        PROVE  Inv'
    <3>1. UNCHANGED <<display, pf, reversed, unsure>>
      BY <2>4 DEF DisplayWrite
    <3> QED
      BY <3>1 DEF Formats, FormatShown
  <2>5. CASE UNCHANGED panelVars
    BY <2>5 DEF panelVars, Formats, FormatShown
  <2> QED
    BY <2>1, <2>2, <2>3, <2>4, <2>5 DEF PanelNext
<1>3. Inv => FormatShown
  OBVIOUS
<1> QED
  BY <1>1, <1>2, <1>3, PTL DEF PanelSpec

(* The smaller of two numbers.                                               *)
LEMMA Smaller ==
  ASSUME NEW a \in Int, NEW b \in Int
  PROVE  Min({a, b}) = IF a <= b THEN a ELSE b
  BY DEF Min

(* A window, as pages.                                                       *)
LEMMA WindowIs ==
  ASSUME NEW x \in Nat, NEW p \in Nat, NEW w \in Nat, NEW q \in Nat
  PROVE  /\ Window(x, 8 * p, w, 8 * q).left = x
         /\ Window(x, 8 * p, w, 8 * q).top = p
         /\ Window(x, 8 * p, w, 8 * q).right = IF x + w <= Cols THEN x + w - 1 ELSE Cols - 1
         /\ Window(x, 8 * p, w, 8 * q).bottom = IF p + q <= Pages THEN p + q - 1 ELSE Pages - 1
<1>1. Cols \in Nat /\ Pages \in Nat
  BY PanelAssumption DEF PanelAssumption
<1>2. (8 * p) \div 8 = p /\ (8 * p + 8 * q - 1) \div 8 = p + q - 1
  OBVIOUS
<1>3. /\ Min({x + w - 1, Cols - 1}) = IF x + w <= Cols THEN x + w - 1 ELSE Cols - 1
      /\ Min({p + q - 1, Pages - 1}) = IF p + q <= Pages THEN p + q - 1 ELSE Pages - 1
  <2>1. x + w - 1 \in Int /\ Cols - 1 \in Int /\ p + q - 1 \in Int /\ Pages - 1 \in Int
    BY <1>1
  <2>2. /\ Min({x + w - 1, Cols - 1}) = IF x + w - 1 <= Cols - 1 THEN x + w - 1 ELSE Cols - 1
        /\ Min({p + q - 1, Pages - 1}) = IF p + q - 1 <= Pages - 1 THEN p + q - 1 ELSE Pages - 1
    BY <2>1, Smaller, Zenon
  <2>3. (x + w - 1 <= Cols - 1 <=> x + w <= Cols) /\ (p + q - 1 <= Pages - 1 <=> p + q <= Pages)
    BY <1>1
  <2> QED
    BY <2>2, <2>3, Zenon
<1> QED
  BY <1>2, <1>3, Zenon DEF Window

(* A cell outside the window keeps its byte.                                 *)
LEMMA FilledOutside ==
  ASSUME NEW win, NEW n, NEW c \in Cells, ~InWindow(win, c)
  PROVE  Filled(win, n)[c] = ram[c]
  BY ZenonT(30) DEF Filled

(* One inside it holds the byte of its place when the window takes exactly   *)
(* the bytes sent.                                                           *)
LEMMA FilledInside ==
  ASSUME NEW win, NEW n \in Nat, NEW c \in Cells,
         (win.right - win.left + 1) * (win.bottom - win.top + 1) = n,
         Place(win, c) \in 0 .. n - 1, InWindow(win, c)
  PROVE  Filled(win, n)[c] = 1000 * ops' + Place(win, c)
<1> DEFINE size == (win.right - win.left + 1) * (win.bottom - win.top + 1)
           Byte(p) == CHOOSE k \in p .. n - 1 : k % size = p /\ k + size >= n
           place == Place(win, c)
           shift == 1000 * ops'
<1>1. Filled(win, n) = [a \in Cells |-> IF InWindow(win, a) /\ Place(win, a) < n
                                          THEN shift + Byte(Place(win, a)) ELSE ram[a]]
  BY Zenon DEF Filled
<1>2. size = n
  BY Zenon
<1> HIDE DEF size
<1>3. ASSUME NEW p \in 0 .. n - 1 PROVE Byte(p) = p
  <2>1. p \in p .. n - 1 /\ p % size = p /\ p + size >= n
    BY <1>2
  <2>2. ASSUME NEW j \in p .. n - 1, j % size = p PROVE j = p
    BY <1>2, <2>2
  <2> QED
    BY <2>1, <2>2
<1> HIDE DEF Byte, shift
<1>4. place \in 0 .. n - 1
  OBVIOUS
<1>5. place < n
  <2> HIDE DEF place
  <2> QED
    BY <1>4
<1>6. Filled(win, n)[c] = shift + Byte(place)
  BY <1>1, <1>5, Zenon
<1>7. Byte(place) = place
  BY <1>3, <1>4, Zenon
<1> HIDE DEF place
<1>8. Filled(win, n)[c] = shift + place
  BY <1>6, <1>7, Zenon
<1> QED
  BY <1>8, Zenon DEF place, shift

(* What WriteLands says of a step that writes.                               *)
Landed ==
  /\ \A c \in Cells : ~Asked(blit', c) => ram'[c] = ram[c]
  /\ blit'.ret = "ok" /\ Fits(blit') =>
       \A c \in Cells : Asked(blit', c) =>
         ram'[c] = 1000 * ops' + (c[2] - blit'.y \div 8) * blit'.w + c[1] - blit'.x

(* A write changes only cells it was asked to; a whole one puts each byte in *)
(* its place.                                                                *)
LEMMA WriteStep ==
  ASSUME ops \in Nat, NEW x \in 0 .. Cols - 1, NEW p \in 0 .. Pages - 1,
         NEW w \in 1 .. MaxWidth, NEW q \in 1 .. Pages, DisplayWrite(x, 8 * p, w, 8 * q)
  PROVE  Landed
<1> DEFINE win == Window(x, 8 * p, w, 8 * q)
           size == w * ((8 * q) \div 8)
<1>1. /\ Cols \in Nat /\ Pages \in Nat /\ MaxWidth \in Nat
      /\ x \in Nat /\ p \in Nat /\ w \in Nat /\ q \in Nat /\ w # 0 /\ q # 0
      /\ x < Cols /\ p < Pages
  BY PanelAssumption DEF PanelAssumption
<1>2. /\ win.left = x /\ win.top = p
      /\ win.right = IF x + w <= Cols THEN x + w - 1 ELSE Cols - 1
      /\ win.bottom = IF p + q <= Pages THEN p + q - 1 ELSE Pages - 1
  BY <1>1, WindowIs
<1>3. size = w * q
  BY <1>1
<1>4. ops' \in Nat
  BY DEF DisplayWrite, Call
<1>5. /\ blit'.x = x /\ blit'.y = 8 * p /\ blit'.w = w /\ blit'.h = 8 * q
      /\ \E n \in Nat : ram' = Filled(win, n)
      /\ blit'.ret = "ok" => ram' = Filled(win, size)
  <2>1. size \in Nat
    BY <1>1, <1>3
  <2> HIDE DEF win, size
  <2>2. CASE /\ ram' = Filled(win, size)
             /\ blit' = [x |-> x, y |-> 8 * p, w |-> w, h |-> 8 * q, ret |-> "ok"]
    BY <2>1, <2>2, Zenon
  <2>3. CASE /\ \E n \in 0 .. size : ram' = Filled(win, n)
             /\ blit' = [x |-> x, y |-> 8 * p, w |-> w, h |-> 8 * q, ret |-> "eio"]
    <3>1. \E n \in Nat : ram' = Filled(win, n)
      BY <2>1, <2>3
    <3>2. blit'.ret # "ok"
      BY <2>3
    <3> QED
      BY <2>3, <3>1, <3>2, Zenon
  <2> QED
    BY <2>2, <2>3, Zenon DEF DisplayWrite, win, size
<1>6. (8 * p) \div 8 = p /\ (8 * p + 8 * q) \div 8 - 1 = p + q - 1
  BY <1>1
<1> HIDE DEF win, size
<1>7. ASSUME NEW c \in Cells
      PROVE  /\ c[1] \in 0 .. Cols - 1 /\ c[2] \in 0 .. Pages - 1
             /\ Asked(blit', c) <=> c[1] \in x .. x + w - 1 /\ c[2] \in p .. p + q - 1
  <2>1. c[1] \in 0 .. Cols - 1 /\ c[2] \in 0 .. Pages - 1
    BY DEF Cells
  <2> QED
    BY <1>5, <1>6, <2>1, Zenon DEF Asked
<1>8. ASSUME NEW c \in Cells, ~Asked(blit', c) PROVE ram'[c] = ram[c]
  <2>1. ~InWindow(win, c)
    BY <1>1, <1>2, <1>7, <1>8 DEF InWindow
  <2> QED
    BY <1>5, <2>1, FilledOutside, ZenonT(30)
<1>9. ASSUME blit'.ret = "ok", Fits(blit'), NEW c \in Cells, Asked(blit', c)
      PROVE  ram'[c] = 1000 * ops' + (c[2] - blit'.y \div 8) * blit'.w + c[1] - blit'.x
  <2>1. x + w <= Cols /\ p + q <= Pages
    BY <1>1, <1>5, <1>9 DEF Fits
  <2>2. win.right = x + w - 1 /\ win.bottom = p + q - 1
    BY <1>2, <2>1, Zenon
  <2>3. c[1] \in x .. x + w - 1 /\ c[2] \in p .. p + q - 1
    BY <1>7, <1>9, Zenon
  <2>4. InWindow(win, c)
    BY <1>2, <2>2, <2>3, Zenon DEF InWindow
  <2> DEFINE place == (c[2] - p) * w + (c[1] - x)
             area == w * q
  <2>5. Place(win, c) = place
    <3>1. win.right - win.left + 1 = w
      BY <1>1, <1>2, <2>2
    <3> QED
      BY <1>2, <3>1, Zenon DEF Place
  <2>6. (win.right - win.left + 1) * (win.bottom - win.top + 1) = area
    <3>1. win.right - win.left + 1 = w /\ win.bottom - win.top + 1 = q
      BY <1>1, <1>2, <2>2
    <3> QED
      BY <3>1, Zenon
  <2>7. place \in 0 .. area - 1 /\ area \in Nat
    <3> DEFINE i == c[2] - p
               j == c[1] - x
    <3>1. i \in Nat /\ j \in Nat /\ i < q /\ j < w
      BY <1>1, <2>3
    <3> HIDE DEF i, j
    <3>2. i * w + j < q * w /\ i * w + j \in Nat /\ q * w \in Nat
      BY <1>1, <3>1
    <3>3. i * w + j \in 0 .. w * q - 1 /\ w * q \in Nat
      BY <1>1, <3>2
    <3> QED
      BY <3>3, Zenon DEF i, j
  <2> HIDE DEF place, area
  <2>9. ram' = Filled(win, area)
    BY <1>3, <1>5, <1>9, Zenon DEF area
  <2> DEFINE byte(k) == 1000 * ops' + k
  <2>10. ram'[c] = 1000 * ops' + place
    <3>1. area \in Nat /\ Place(win, c) \in 0 .. area - 1
      BY <2>5, <2>7, Zenon
    <3>2. Filled(win, area)[c] = byte(Place(win, c))
      BY <2>4, <2>6, <3>1, FilledInside
    <3> HIDE DEF byte
    <3>3. ram'[c] = byte(place)
      BY <2>5, <2>9, <3>2, Zenon
    <3> QED
      BY <3>3, ZenonT(30) DEF byte
  <2> DEFINE rows == (c[2] - p) * w
  <2>11. rows \in Int /\ c[1] \in Int
    BY <1>1, <2>3
  <2>12. place = rows + (c[1] - x)
    BY Zenon DEF place
  <2> HIDE DEF rows
  <2>13. 1000 * ops' + place = 1000 * ops' + rows + c[1] - x
    BY <1>1, <1>4, <2>11, <2>12
  <2>14. ram'[c] = 1000 * ops' + (c[2] - p) * w + c[1] - x
    BY <2>10, <2>13 DEF rows
  <2> DEFINE Page(y) == y \div 8
  <2>15. Page(8 * p) = p
    BY <1>6, Zenon
  <2> HIDE DEF Page
  <2>16. /\ blit'.y = 8 * p
         /\ blit'.x = x
         /\ blit'.w = w
    BY <1>5, Zenon
  <2> DEFINE expected(top, width, left) == 1000 * ops' + (c[2] - top) * width + c[1] - left
  <2>17. ram'[c] = expected(p, w, x)
    BY <2>14, ZenonT(30)
  <2> HIDE DEF expected
  <2>18. ram'[c] = expected(Page(blit'.y), blit'.w, blit'.x)
    BY <2>15, <2>16, <2>17, Zenon
  <2> QED
    BY <2>18, ZenonT(30) DEF expected, Page
<1> QED
  BY <1>8, <1>9, Zenon DEF Landed

(* A write changes nothing outside the rectangle asked for, though it is cut *)
(* at the edges of the panel and its surplus bytes start over, and puts each *)
(* byte in its place when all of it was on the panel and it succeeded; for a *)
(* panel and buffers of any size.                                            *)
THEOREM PanelWrites == PanelSpec => WriteLands
<1> DEFINE Inv == ops \in Nat
           Lands == blit' # blit => Landed
<1>1. PanelInit => Inv
  BY DEF PanelInit
<1>2. Inv /\ [PanelNext]_panelVars => Inv'
  <2>1. [PanelNext]_panelVars => UNCHANGED ops \/ Call
    BY ZenonT(30) DEF PanelNext, InitDevice, Blank, SetPixelFormat, DisplayWrite, panelVars
  <2>2. Inv /\ (UNCHANGED ops \/ Call) => Inv'
    BY DEF Call
  <2> QED
    BY <2>1, <2>2, Zenon
<1>3. Inv /\ [PanelNext]_panelVars => [Lands]_panelVars
  <2> SUFFICES ASSUME Inv, PanelNext, blit' # blit
               PROVE  Lands
    BY Zenon
  <2>1. PICK x \in 0 .. Cols - 1, p \in 0 .. Pages - 1, w \in 1 .. MaxWidth, q \in 1 .. Pages :
          DisplayWrite(x, 8 * p, w, 8 * q)
    BY Zenon DEF PanelNext, InitDevice, Blank, SetPixelFormat
  <2>2. ops \in Nat
    OBVIOUS
  <2> QED
    BY <2>1, <2>2, WriteStep, Zenon
<1> QED
  BY <1>1, <1>2, <1>3, PTL DEF PanelSpec, WriteLands, Landed

-----------------------------------------------------------------------------
(* LittleFs                                                                  *)

(* What a file holds after n digits were written over its start.             *)
LEMMA OverwrittenIs ==
  ASSUME FsTypeOK, NEW n \in 1 .. MaxDigits
  PROVE  LET new == Overwritten(random, n) IN
         /\ new \in Seq(Boots)
         /\ Len(new) = IF n > Len(random) THEN n ELSE Len(random)
         /\ \A i \in DOMAIN new : new[i] = IF i <= n THEN fsBoot ELSE random[i]
<1> DEFINE len == Len(random)
           front == [i \in 1 .. n |-> fsBoot]
           tail == SubSeq(random, n + 1, len)
           new == front \o tail
<1>1. n \in Nat \ {0} /\ random \in Seq(Boots) /\ fsBoot \in Boots
  BY FsAssumption DEF FsAssumption, FsTypeOK, Boots
<1>2. len \in Nat /\ \A i \in 1 .. len : random[i] \in Boots
  BY <1>1, LenProperties, ElementOfSeq
<1>3. front \in Seq(Boots) /\ Len(front) = n /\ \A i \in 1 .. n : front[i] = fsBoot
  BY <1>1
<1>4. /\ tail \in Seq(Boots)
      /\ Len(tail) = IF n + 1 <= len THEN len - n ELSE 0
      /\ \A i \in 1 .. len - n : tail[i] = random[n + i]
  <2>1. n + 1 \in Int /\ len \in Int /\ \A i \in n + 1 .. len : random[i] \in Boots
    BY <1>1, <1>2
  <2>2. /\ SubSeq(random, n + 1, len) \in Seq(Boots)
        /\ Len(SubSeq(random, n + 1, len)) = IF n + 1 <= len THEN len - (n + 1) + 1 ELSE 0
        /\ \A i \in 1 .. len - (n + 1) + 1 :
             SubSeq(random, n + 1, len)[i] = random[(n + 1) + i - 1]
    BY <2>1, SubSeqProperties
  <2> HIDE DEF tail
  <2>3. ASSUME NEW i \in 1 .. len - n
        PROVE  tail[i] = random[n + i]
    <3>1. i \in 1 .. len - (n + 1) + 1 /\ (n + 1) + i - 1 = n + i
      BY <1>1, <1>2
    <3> QED
      BY <2>2, <3>1, Zenon DEF tail
  <2> QED
    BY <1>1, <1>2, <2>2, <2>3 DEF tail
<1> HIDE DEF len, front, tail
<1>5. /\ new \in Seq(Boots)
      /\ Len(new) = Len(front) + Len(tail)
      /\ \A i \in 1 .. Len(front) + Len(tail) :
           new[i] = IF i <= Len(front) THEN front[i] ELSE tail[i - Len(front)]
  BY <1>3, <1>4, ConcatProperties, Zenon
<1> HIDE DEF new
<1>6. Len(new) = (IF n > len THEN n ELSE len) /\ DOMAIN new = 1 .. Len(new)
  BY <1>1, <1>2, <1>3, <1>4, <1>5, LenProperties
<1>7. ASSUME NEW i \in DOMAIN new
      PROVE  new[i] = IF i <= n THEN fsBoot ELSE random[i]
  <2>1. i \in 1 .. Len(front) + Len(tail)
    BY <1>5, <1>6, <1>7
  <2>2. CASE i <= n
    BY <1>1, <1>3, <1>5, <2>1, <2>2
  <2>3. CASE i > n
    <3>1. i - n \in 1 .. len - n /\ n + (i - n) = i
      BY <1>1, <1>2, <1>3, <1>4, <2>1, <2>3
    <3>2. tail[i - n] = random[i]
      BY <1>4, <3>1
    <3> QED
      BY <1>1, <1>3, <1>5, <2>1, <2>3, <3>2
  <2> QED
    BY <1>1, <2>1, <2>2, <2>3
<1> QED
  BY <1>5, <1>6, <1>7 DEF Overwritten, new, front, tail, len

(* No boot that has written, or will, has erased the partition; and what a   *)
(* boot reads back, if anything, is the file as it wrote it.                 *)
FsInv ==
  /\ fsStep # "reboot" => wipedAt < fsBoot
  /\ fsStep \notin {"read", "done"} => number = 0
  /\ fsStep # "done" => readBack = <<>>
  /\ readBack # <<>> => readBack = random

(* random.txt: as long as the longest number, and newest digits first.       *)
RandomInv ==
  /\ Len(random) = longest
  /\ \A i \in DOMAIN random : /\ random[i] <= fsBoot
                              /\ i <= number <=> random[i] = fsBoot
  /\ \A i, j \in DOMAIN random : i < j => random[i] >= random[j]

FsAll == FsTypeOK /\ FsInv /\ RandomInv /\ NothingBeforeWipe

(* The invariant holds before the first mount.                               *)
LEMMA FsInitial == FsInit => FsAll
<1> SUFFICES ASSUME FsInit
             PROVE  FsAll
  OBVIOUS
<1>1. 0 \in 0 .. MaxDigits /\ 0 \in Boots /\ 1 \in 1 .. FsMaxBoots /\ 0 \in 0 .. 1
  BY FsAssumption DEF FsAssumption, Boots
<1>2. <<>> \in Seq(Boots) /\ Len(<<>>) = 0 /\ DOMAIN <<>> = {}
  OBVIOUS
<1>3. FsTypeOK
  <2>1. random \in Seq(Boots) /\ readBack \in Seq(Boots) /\ Len(random) <= MaxDigits
    BY <1>2, FsAssumption DEF FsAssumption, FsInit
  <2>2. fsBoot \in 1 .. FsMaxBoots /\ wipedAt \in 0 .. fsBoot
    BY <1>1 DEF FsInit
  <2> QED
    BY <1>1, <2>1, <2>2 DEF FsInit, FsTypeOK, FsSteps
<1>4. FsInv
  BY DEF FsInit, FsInv
<1>5. RandomInv
  BY <1>2 DEF FsInit, RandomInv
<1>6. NothingBeforeWipe
  BY DEF FsInit, NothingBeforeWipe
<1> QED
  BY <1>3, <1>4, <1>5, <1>6 DEF FsAll

(* Each step of either build, a restart included, keeps it.                  *)
LEMMA FsStep == FsAll /\ [FsNext]_fsVars => FsAll'
<1> USE FsAssumption DEF FsAssumption
<1> SUFFICES ASSUME FsAll, [FsNext]_fsVars
             PROVE  FsAll'
  OBVIOUS
<1>1. FsTypeOK /\ FsInv /\ RandomInv /\ NothingBeforeWipe
  BY DEF FsAll
<1>2. CASE Automount
  <2>1. FsTypeOK'
    <3>1. wipeBuild' \in BOOLEAN /\ formatted' \in BOOLEAN
      BY <1>1, <1>2 DEF Automount, FsTypeOK
    <3>2. /\ hello' \in Boots /\ random' \in Seq(Boots) /\ readBack' \in Seq(Boots)
          /\ Len(random') <= MaxDigits
      <4>1. <<>> \in Seq(Boots) /\ Len(<<>>) = 0 /\ 0 \in Boots
        BY DEF Boots
      <4>2. hello' \in {hello, 0} /\ (random' = random \/ random' = <<>>) /\ readBack' = readBack
        BY <1>2 DEF Automount
      <4>3. random \in Seq(Boots) /\ Len(random) <= MaxDigits /\ 0 <= MaxDigits
        BY <1>1 DEF FsTypeOK
      <4>4. random' \in Seq(Boots) /\ Len(random') <= MaxDigits
        <5>1. CASE random' = random
          BY <4>3, <5>1
        <5>2. CASE random' = <<>>
          BY <4>1, <4>3, <5>2, Zenon
        <5> QED
          BY <4>2, <5>1, <5>2
      <4> QED
        BY <1>1, <4>1, <4>2, <4>4 DEF FsTypeOK
    <3>3. fsStep' \in FsSteps /\ {number', longest'} \subseteq 0 .. MaxDigits
      BY <1>1, <1>2 DEF Automount, FsTypeOK, FsSteps
    <3>4. fsBoot' \in 1 .. FsMaxBoots /\ wipedAt' \in 0 .. fsBoot'
      BY <1>1, <1>2 DEF Automount, FsTypeOK
    <3> QED
      BY <3>1, <3>2, <3>3, <3>4 DEF FsTypeOK
  <2>2. FsInv'
    BY <1>1, <1>2 DEF Automount, FsInv
  <2>3. CASE formatted
    BY <1>1, <1>2, <2>1, <2>2, <2>3
       DEF Automount, RandomInv, NothingBeforeWipe, FsAll
  <2>4. CASE ~formatted
    <3>1. Len(<<>>) = 0 /\ DOMAIN <<>> = {}
      OBVIOUS
    <3> QED
      BY <1>2, <2>1, <2>2, <2>4, <3>1
         DEF Automount, RandomInv, NothingBeforeWipe, FsAll
  <2> QED
    BY <2>3, <2>4
<1>3. CASE Wipe
  <2>1. FsTypeOK'
    <3>1. wipeBuild' \in BOOLEAN /\ formatted' \in BOOLEAN
      BY <1>1, <1>3 DEF Wipe, FsTypeOK
    <3>2. /\ hello' \in Boots /\ random' \in Seq(Boots) /\ readBack' \in Seq(Boots)
          /\ Len(random') <= MaxDigits
      BY <1>1, <1>3 DEF Wipe, FsTypeOK, Boots
    <3>3. fsStep' \in FsSteps /\ {number', longest'} \subseteq 0 .. MaxDigits
      BY <1>1, <1>3 DEF Wipe, FsTypeOK, FsSteps
    <3>4. fsBoot' \in 1 .. FsMaxBoots /\ wipedAt' \in 0 .. fsBoot'
      BY <1>1, <1>3 DEF Wipe, FsTypeOK
    <3> QED
      BY <3>1, <3>2, <3>3, <3>4 DEF FsTypeOK
  <2>2. FsInv' /\ RandomInv'
    BY <1>1, <1>3 DEF Wipe, FsInv, RandomInv
  <2>3. NothingBeforeWipe'
    BY <1>1, <1>3, Zenon DEF Wipe, NothingBeforeWipe
  <2> QED
    BY <2>1, <2>2, <2>3 DEF FsAll
<1>4. CASE FsRestart
  <2>1. FsTypeOK'
    <3>1. wipeBuild' \in BOOLEAN /\ formatted' \in BOOLEAN
      BY <1>1, <1>4 DEF FsRestart, FsTypeOK
    <3>2. /\ hello' \in Boots /\ random' \in Seq(Boots) /\ readBack' \in Seq(Boots)
          /\ Len(random') <= MaxDigits
      BY <1>1, <1>4 DEF FsRestart, FsTypeOK, Boots
    <3>3. fsStep' \in FsSteps /\ {number', longest'} \subseteq 0 .. MaxDigits
      BY <1>1, <1>4 DEF FsRestart, FsTypeOK, FsSteps
    <3>4. fsBoot' \in 1 .. FsMaxBoots /\ wipedAt' \in 0 .. fsBoot'
      BY <1>1, <1>4 DEF FsRestart, FsTypeOK
    <3> QED
      BY <3>1, <3>2, <3>3, <3>4 DEF FsTypeOK
  <2>2. FsInv'
    BY <1>1, <1>4 DEF FsRestart, FsInv, FsTypeOK
  <2>3. RandomInv'
    <3>1. \A i \in DOMAIN random : i \in Nat \ {0} /\ random[i] \in Nat
      BY <1>1 DEF FsTypeOK, Boots
    <3> QED
      BY <1>1, <1>4, <3>1 DEF FsRestart, RandomInv, FsTypeOK
  <2>4. NothingBeforeWipe'
    <3>1. formatted' => formatted
      BY <1>1, <1>4 DEF FsRestart, FsTypeOK
    <3> QED
      BY <1>1, <1>4, <3>1 DEF FsRestart, NothingBeforeWipe
  <2> QED
    BY <2>1, <2>2, <2>3, <2>4 DEF FsAll
<1>5. CASE WriteHello
  <2>1. FsTypeOK'
    BY <1>1, <1>5 DEF WriteHello, FsTypeOK, FsSteps, Boots
  <2>2. FsInv' /\ RandomInv'
    BY <1>1, <1>5 DEF WriteHello, FsInv, RandomInv
  <2>3. NothingBeforeWipe'
    BY <1>1, <1>5 DEF WriteHello, FsInv, NothingBeforeWipe
  <2> QED
    BY <2>1, <2>2, <2>3 DEF FsAll
<1>6. CASE WriteRandom
  <2>1. ASSUME NEW n \in 1 .. MaxDigits,
               number' = n, random' = Overwritten(random, n),
               longest' = IF n > longest THEN n ELSE longest
        PROVE  FsAll'
    <3>1. /\ random' \in Seq(Boots)
          /\ Len(random') = IF n > Len(random) THEN n ELSE Len(random)
          /\ \A i \in DOMAIN random' : random'[i] = IF i <= n THEN fsBoot ELSE random[i]
      BY <1>1, <2>1, OverwrittenIs
    <3>2. \A i \in DOMAIN random' : i \in Nat /\ (i > n => i \in DOMAIN random)
      BY <1>1, <3>1 DEF FsTypeOK
    <3>3. \A i \in DOMAIN random : random[i] \in Nat /\ random[i] < fsBoot /\ i > 0
      BY <1>1, <1>6 DEF WriteRandom, FsTypeOK, FsInv, RandomInv, Boots
    <3>4. FsTypeOK'
      BY <1>1, <1>6, <2>1, <3>1 DEF WriteRandom, FsTypeOK, FsSteps, Boots
    <3>5. FsInv'
      BY <1>1, <1>6, <2>1 DEF WriteRandom, FsInv
    <3>6. RandomInv'
      <4>1. fsBoot' = fsBoot /\ fsBoot \in Nat /\ longest = Len(random)
        BY <1>1, <1>6 DEF WriteRandom, FsTypeOK, RandomInv
      <4>2. Len(random)' = longest'
        BY <2>1, <3>1, <4>1
      <4>3. \A i \in DOMAIN random' : /\ random'[i] <= fsBoot'
                                      /\ i <= number' <=> random'[i] = fsBoot'
        BY <2>1, <3>1, <3>2, <3>3, <4>1
      <4>4. ASSUME NEW i \in DOMAIN random', NEW j \in DOMAIN random', i < j
            PROVE  random'[i] >= random'[j]
        <5>1. CASE i <= n
          <6>1. random'[i] = fsBoot
            BY <3>1, <5>1
          <6>2. random'[j] \in Boots
            BY <3>1, ElementOfSeq, LenProperties
          <6> QED
            BY <4>1, <4>3, <6>1, <6>2 DEF Boots
        <5>2. CASE i > n
          <6>1. i \in DOMAIN random /\ j \in DOMAIN random /\ j > n
            BY <3>2, <4>4, <5>2
          <6>2. random'[i] = random[i] /\ random'[j] = random[j]
            BY <3>1, <3>2, <4>4, <5>2, <6>1
          <6> QED
            BY <1>1, <4>4, <6>1, <6>2 DEF RandomInv
        <5> QED
          BY <3>2, <5>1, <5>2
      <4>5. \A i, j \in DOMAIN random' : i < j => random'[i] >= random'[j]
        BY <4>4
      <4> QED
        BY <4>2, <4>3, <4>5 DEF RandomInv
    <3>7. NothingBeforeWipe'
      BY <1>1, <1>6, <3>1, <3>2 DEF WriteRandom, FsInv, NothingBeforeWipe
    <3> QED
      BY <3>4, <3>5, <3>6, <3>7 DEF FsAll
  <2>2. ASSUME UNCHANGED <<number, random, longest>>
        PROVE  FsAll'
    <3>1. FsTypeOK'
      BY <1>1, <1>6, <2>2 DEF WriteRandom, FsTypeOK, FsSteps, Boots
    <3> QED
      BY <1>1, <1>6, <2>2, <3>1 DEF WriteRandom, FsInv, RandomInv, NothingBeforeWipe, FsAll
  <2> QED
    BY <1>6, <2>1, <2>2 DEF WriteRandom
<1>7. CASE ReadRandom
  <2>1. FsTypeOK'
    <3>1. wipeBuild' \in BOOLEAN /\ formatted' \in BOOLEAN
      BY <1>1, <1>7 DEF ReadRandom, fsFiles, FsTypeOK
    <3>2. /\ hello' \in Boots /\ random' \in Seq(Boots) /\ readBack' \in Seq(Boots)
          /\ Len(random') <= MaxDigits
      <4>1. <<>> \in Seq(Boots)
        OBVIOUS
      <4>2. hello' = hello /\ random' = random /\ readBack' \in {<<>>, random}
        BY <1>7 DEF ReadRandom, fsFiles
      <4> QED
        BY <1>1, <4>1, <4>2 DEF FsTypeOK
    <3>3. fsStep' \in FsSteps /\ {number', longest'} \subseteq 0 .. MaxDigits
      BY <1>1, <1>7 DEF ReadRandom, fsFiles, FsTypeOK, FsSteps
    <3>4. fsBoot' \in 1 .. FsMaxBoots /\ wipedAt' \in 0 .. fsBoot'
      BY <1>1, <1>7 DEF ReadRandom, fsFiles, FsTypeOK
    <3> QED
      BY <3>1, <3>2, <3>3, <3>4 DEF FsTypeOK
  <2>2. FsInv' /\ RandomInv'
    BY <1>1, <1>7 DEF ReadRandom, fsFiles, FsInv, RandomInv
  <2>3. NothingBeforeWipe'
    BY <1>1, <1>7 DEF ReadRandom, fsFiles, NothingBeforeWipe
  <2> QED
    BY <2>1, <2>2, <2>3 DEF FsAll
<1>8. CASE UNCHANGED fsVars
  BY <1>1, <1>8
     DEF fsVars, fsFiles, FsTypeOK, Boots, FsInv, RandomInv, NothingBeforeWipe, FsAll
<1> QED
  BY <1>2, <1>3, <1>4, <1>5, <1>6, <1>7, <1>8 DEF FsNext

(* Whatever was written before the partition was erased is gone when it is   *)
(* mounted again, after any number of boots of either build and power losses. *)
THEOREM FsWipe == FsSpec => []NothingBeforeWipe
<1> QED
  BY FsInitial, FsStep, PTL DEF FsSpec, FsAll

(* A boot that reads random.txt back gets its own number and behind it the   *)
(* end of longer and older ones, for numbers of any length.                  *)
THEOREM FsTail == FsSpec => []TailIsOlder
<1>1. FsAll => TailIsOlder
  BY DEF FsAll, FsInv, RandomInv, TailIsOlder
<1> QED
  BY <1>1, FsInitial, FsStep, PTL DEF FsSpec

-----------------------------------------------------------------------------
(* BootCounter                                                               *)

(* Quotient and remainder.                                                   *)
LEMMA Division ==
  ASSUME NEW a \in Nat, NEW w \in Nat \ {0}
  PROVE  /\ a \div w \in Int /\ a % w \in 0 .. w - 1
         /\ a = (a \div w) * w + (a % w)
  OBVIOUS

(* The remainder does not depend on the quotient.                            *)
LEMMA Remainder ==
  ASSUME NEW q \in Int, NEW r \in Nat, NEW w \in Nat \ {0}, r < w
  PROVE  (q * w + r) % w = r
  BY SMTT(30)

(* A counter may wrap around before or after it is increased.                *)
LEMMA NextRemainder ==
  ASSUME NEW a \in Nat, NEW w \in Nat \ {0}
  PROVE  ((a % w) + 1) % w = (a + 1) % w
<1> DEFINE q == a \div w
           r == a % w
<1>1. q \in Int /\ r \in 0 .. w - 1 /\ a = q * w + r
  BY Division
<1> HIDE DEF q, r
<1>2. CASE r + 1 < w
  <2>1. a + 1 = q * w + (r + 1) /\ r + 1 = 0 * w + (r + 1)
    BY <1>1
  <2>2. (q * w + (r + 1)) % w = r + 1
    BY <1>1, <1>2, Remainder
  <2>3. (0 * w + (r + 1)) % w = r + 1
    BY <1>1, <1>2, Remainder
  <2> QED
    BY <2>1, <2>2, <2>3 DEF r
<1>3. CASE r + 1 = w
  <2>1. a + 1 = (q + 1) * w + 0 /\ r + 1 = 1 * w + 0
    BY <1>1, <1>3
  <2>2. ((q + 1) * w + 0) % w = 0
    BY <1>1, Remainder
  <2>3. (1 * w + 0) % w = 0
    BY <1>1, Remainder
  <2> QED
    BY <2>1, <2>2, <2>3 DEF r
<1> QED
  BY <1>1, <1>2, <1>3

(* The two digits stand for the number they were made from.                  *)
LEMMA EncodeCount == ASSUME NEW n \in Nat PROVE Count(Encode(n)) = n /\ Encode(n).magic
<1>1. n = (n \div Base) * Base + (n % Base)
  BY CounterAssumption, Division DEF CounterAssumption
<1>2. Encode(n).hi = n \div Base /\ Encode(n).lo = n % Base /\ Encode(n).magic
  BY DEF Encode
<1> QED
  BY <1>1, <1>2 DEF Count

(* Digits are numbers, and what is about to be written is the next number    *)
(* after the one stored.                                                     *)
NatRecord == [magic : BOOLEAN, hi : Nat, lo : Nat]

ValuesInv ==
  /\ eeprom \in NatRecord /\ values \in NatRecord
  /\ pc = "write" => /\ printed = Stored(values)
                     /\ Stored(values) = Increment(Stored(eeprom))

(* The number stored is a number.                                            *)
LEMMA StoredNat == ASSUME NEW r \in NatRecord PROVE Stored(r) \in Nat
  BY CounterAssumption DEF CounterAssumption, NatRecord, Stored, Count

(* Two digits of a number, and the magic number, make a record.              *)
LEMMA EncodeRecord == ASSUME NEW n \in Nat PROVE Encode(n) \in NatRecord
<1>1. Base \in Nat \ {0}
  BY CounterAssumption DEF CounterAssumption
<1>2. n \div Base \in Nat /\ n % Base \in Nat
  BY <1>1, SMTT(30)
<1> QED
  BY <1>2 DEF Encode, NatRecord

(* Initially nothing but zeros is held in memory.                            *)
LEMMA ValuesInitial == CounterInit => ValuesInv
<1>1. Encode(0) \in NatRecord
  BY EncodeRecord
<1>2. Digit \subseteq Nat
  BY DEF Digit
<1>3. [magic : {FALSE}, hi : Digit, lo : Digit] \subseteq NatRecord
  BY <1>2 DEF NatRecord
<1> QED
  BY <1>1, <1>3 DEF CounterInit, ValuesInv

(* main prints the number it is about to write, one more than that stored.   *)
LEMMA CountedUp ==
  ASSUME ValuesInv, ReadAndCount
  PROVE  /\ values' \in NatRecord
         /\ printed' = Increment(Stored(eeprom))
         /\ Stored(values') = printed'
<1> DEFINE n == Increment(Stored(eeprom))
<1>1. Base * Base \in Nat \ {0}
  BY CounterAssumption DEF CounterAssumption
<1>2. Stored(eeprom) \in Nat
  BY StoredNat DEF ValuesInv
<1>3. n \in Nat
  BY <1>1, <1>2, Division DEF Increment
<1>4. values' = Encode(n) /\ printed' = Count(values')
  BY DEF ReadAndCount
<1> HIDE DEF n
<1>5. Count(Encode(n)) = n /\ Encode(n).magic /\ Encode(n) \in NatRecord
  BY <1>3, EncodeCount, EncodeRecord
<1> QED
  BY <1>4, <1>5 DEF Stored, n

(* A write may mix old and new bytes: they still are digits.                 *)
LEMMA TornRecords == ValuesInv => Torn \subseteq NatRecord
  BY DEF ValuesInv, NatRecord, Torn

(* Each step keeps the variable of main one ahead of the EEPROM.             *)
LEMMA ValuesStep == ValuesInv /\ [CounterNext]_counterVars => ValuesInv'
<1> SUFFICES ASSUME ValuesInv, [CounterNext]_counterVars
             PROVE  ValuesInv'
  OBVIOUS
<1>1. CASE Fails
  BY <1>1 DEF Fails, ValuesInv
<1>2. CASE ReadAndCount
  <2>1. eeprom' = eeprom
    BY <1>2 DEF ReadAndCount
  <2> QED
    BY <1>2, <2>1, CountedUp DEF ValuesInv
<1>3. CASE EepromWrite
  BY <1>3 DEF EepromWrite, ValuesInv
<1>4. CASE EepromError
  BY <1>4, TornRecords DEF EepromError, Interrupted, ValuesInv
<1>5. CASE Reset
  BY <1>5, TornRecords DEF Reset, Interrupted, ValuesInv
<1>6. CASE UNCHANGED counterVars
  BY <1>6 DEF counterVars, ValuesInv
<1> QED
  BY <1>1, <1>2, <1>3, <1>4, <1>5, <1>6 DEF CounterNext

(* A write that took effect moves the range of what may be stored up by one. *)
LEMMA StandsOn ==
  ASSUME NEW r, NEW v, Stored(v) = Increment(Stored(r)),
         NEW a \in Nat, NEW b \in Nat, Stands(r, a, b)
  PROVE  Stands(v, a + 1, b + 1)
<1> DEFINE W == Base * Base
<1>1. W \in Nat \ {0}
  BY CounterAssumption DEF CounterAssumption
<1>2. PICK k \in a .. b : Stored(r) = k % W
  BY DEF Stands, Stored
<1>3. Stored(v) = ((k % W) + 1) % W
  BY <1>2 DEF Increment
<1>4. k \in Nat /\ k + 1 \in a + 1 .. b + 1
  OBVIOUS
<1> HIDE DEF W
<1>5. ((k % W) + 1) % W = (k + 1) % W
  BY <1>1, <1>4, NextRemainder
<1> QED
  BY <1>3, <1>4, <1>5 DEF Stands, Stored, W

(* Whatever becomes of an interrupted write that left no mixture, it counts  *)
(* once at most.                                                             *)
LEMMA StandsInterrupted ==
  ASSUME NEW r, NEW v, NEW s \in {r, v}, Stored(v) = Increment(Stored(r)),
         NEW a \in Nat, NEW b \in Nat, Stands(r, a, b)
  PROVE  Stands(s, a, b + 1)
<1>1. CASE s = r
  BY <1>1 DEF Stands
<1>2. CASE s = v
  <2>1. Stands(v, a + 1, b + 1)
    BY StandsOn
  <2> QED
    BY <1>2, <2>1 DEF Stands
<1> QED
  BY <1>1, <1>2

(* What may be stored, and what was told.                                    *)
CounterInv ==
  /\ ValuesInv
  /\ counted \in Nat /\ doubted \in Nat /\ since \in Nat /\ torn \in BOOLEAN
  /\ told \in Nat \cup {-1}
  /\ ~torn => Stands(eeprom, counted, counted + doubted)
  /\ told # -1 => Stands(eeprom, told, told + since)

(* The first boot has counted nothing yet.                                   *)
LEMMA CounterInitial == CounterInit => CounterInv
<1> SUFFICES ASSUME CounterInit
             PROVE  CounterInv
  OBVIOUS
<1>1. Base * Base \in Nat \ {0}
  BY CounterAssumption DEF CounterAssumption
<1>2. 0 % (Base * Base) = 0 /\ 0 \in 0 .. 0 + 0
  BY <1>1
<1>3. eeprom.magic = FALSE
  BY DEF CounterInit
<1>4. Stands(eeprom, 0, 0 + 0)
  BY <1>2, <1>3 DEF Stands
<1> QED
  BY <1>4, ValuesInitial DEF CounterInit, CounterInv

(* Steps that leave EEPROM and history alone.                                *)
LEMMA CounterKept ==
  ASSUME CounterInv, UNCHANGED <<eeprom, counterHistory>>, ValuesInv'
  PROVE  CounterInv'
  BY DEF CounterInv, counterHistory

(* A write cut short or reported as failed.                                  *)
LEMMA CounterInterrupted ==
  ASSUME CounterInv, pc = "write", Interrupted, ValuesInv'
  PROVE  CounterInv'
<1>1. CASE eeprom' \in {eeprom, values}
  <2>1. /\ since' = since + 1 /\ doubted' = doubted + 1
        /\ told' = told /\ torn' = torn /\ counted' = counted
    BY <1>1 DEF Interrupted
  <2>2. Stored(values) = Increment(Stored(eeprom))
    BY DEF CounterInv, ValuesInv
  <2>3. ~torn => Stands(eeprom', counted, counted + doubted + 1)
    BY <1>1, <2>2, StandsInterrupted DEF CounterInv
  <2>4. told # -1 => Stands(eeprom', told, told + since + 1)
    BY <1>1, <2>2, StandsInterrupted DEF CounterInv
  <2>5. /\ counted + (doubted + 1) = counted + doubted + 1
        /\ told # -1 => told + (since + 1) = told + since + 1
    BY DEF CounterInv
  <2> QED
    BY <2>1, <2>3, <2>4, <2>5 DEF CounterInv
<1>2. CASE eeprom' \notin {eeprom, values}
  BY <1>2 DEF Interrupted, CounterInv
<1> QED
  BY <1>1, <1>2

(* A write that reports success: this boot is counted, and told.             *)
LEMMA CounterWritten ==
  ASSUME CounterInv, EepromWrite, ValuesInv'
  PROVE  CounterInv'
<1> DEFINE W == Base * Base
<1>1. /\ told' = printed /\ since' = 0 /\ doubted' = doubted /\ torn' = torn
      /\ counted' = counted + 1 /\ pc = "write" /\ eeprom' = values
  BY DEF EepromWrite, Written
<1>2. W \in Nat \ {0}
  BY CounterAssumption DEF CounterAssumption
<1>3. /\ Stored(values) = Increment(Stored(eeprom)) /\ printed = Stored(values)
      /\ Stored(eeprom) \in Nat
  BY <1>1, StoredNat DEF CounterInv, ValuesInv
<1>4. ~torn => Stands(values, counted + 1, counted + doubted + 1)
  BY <1>3, StandsOn DEF CounterInv
<1>5. printed = (Stored(eeprom) + 1) % W
  BY <1>3 DEF Increment
<1> HIDE DEF W
<1>6. printed \in 0 .. W - 1
  <2>1. Stored(eeprom) + 1 \in Nat
    BY <1>3
  <2> QED
    BY <1>2, <1>5, <2>1, Division
<1>7. printed = printed % W /\ printed \in printed .. printed + 0
  <2>1. (0 * W + printed) % W = printed /\ 0 * W + printed = printed
    BY <1>2, <1>6, Remainder
  <2> QED
    BY <1>6, <2>1
<1>8. Stands(values, printed, printed + 0)
  BY <1>3, <1>7 DEF Stands, Stored, W
<1>9. (counted + 1) + doubted = counted + doubted + 1
  BY DEF CounterInv
<1> QED
  BY <1>1, <1>4, <1>6, <1>8, <1>9 DEF CounterInv

(* Each step keeps count, a reset or a failing write as well.                *)
LEMMA CounterStep == CounterInv /\ [CounterNext]_counterVars => CounterInv'
<1> SUFFICES ASSUME CounterInv, [CounterNext]_counterVars
             PROVE  CounterInv'
  OBVIOUS
<1>1. ValuesInv'
  BY ValuesStep DEF CounterInv
<1>2. CASE Fails \/ ReadAndCount \/ UNCHANGED counterVars
  BY <1>1, <1>2, CounterKept DEF Fails, ReadAndCount, counterVars, counterHistory
<1>3. CASE EepromWrite
  BY <1>1, <1>3, CounterWritten
<1>4. CASE EepromError
  BY <1>1, <1>4, CounterInterrupted DEF EepromError
<1>5. CASE Reset /\ pc = "write"
  BY <1>1, <1>5, CounterInterrupted DEF Reset
<1>6. CASE Reset /\ pc # "write"
  BY <1>1, <1>6, CounterKept DEF Reset, counterHistory
<1> QED
  BY <1>2, <1>3, <1>4, <1>5, <1>6 DEF CounterNext

(* As long as no write left a mixture, the stored counter has lost no write  *)
(* that reported success and holds none twice, for counters of any width and *)
(* any number of failing or interrupted writes.                              *)
THEOREM CounterCounts == CounterSpec => []CountsEveryBoot
<1>1. CounterInv => CountsEveryBoot
  BY DEF CounterInv, CountsEveryBoot
<1> QED
  BY <1>1, CounterInitial, CounterStep, PTL DEF CounterSpec

(* After a boot that was told its number, the next number printed is one     *)
(* more, plus one at most for each later write cut short or failed.          *)
THEOREM CounterIncreases == CounterSpec => Increasing
<1> DEFINE Step == pc = "boot" /\ pc' = "write" /\ told # -1
                     => \E k \in told + 1 .. told + 1 + since :
                          printed' = k % (Base * Base)
<1>1. CounterInv /\ [CounterNext]_counterVars => [Step]_counterVars
  <2> SUFFICES ASSUME CounterInv, CounterNext, pc = "boot", pc' = "write", told # -1
               PROVE  \E k \in told + 1 .. told + 1 + since :
                        printed' = k % (Base * Base)
    BY DEF counterVars
  <2> DEFINE W == Base * Base
  <2>1. W \in Nat \ {0}
    BY CounterAssumption DEF CounterAssumption
  <2>2. ReadAndCount
    BY DEF CounterNext, Fails, ReadAndCount, EepromWrite, EepromError, Reset
  <2>3. told \in Nat /\ since \in Nat /\ Stands(eeprom, told, told + since)
    BY DEF CounterInv
  <2>4. PICK k \in told .. told + since : Stored(eeprom) = k % W
    BY <2>3 DEF Stands, Stored
  <2>5. printed' = ((k % W) + 1) % W
    BY <2>2, <2>4, CountedUp DEF CounterInv, Increment
  <2>6. k \in Nat /\ k + 1 \in told + 1 .. told + 1 + since
    BY <2>3
  <2> HIDE DEF W
  <2>7. ((k % W) + 1) % W = (k + 1) % W
    BY <2>1, <2>6, NextRemainder
  <2> QED
    BY <2>5, <2>6, <2>7 DEF W
<1> QED
  BY <1>1, CounterInitial, CounterStep, PTL DEF CounterSpec, Increasing
=============================================================================
