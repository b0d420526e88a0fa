------------------------------ MODULE LinkProofs ------------------------------
(***************************************************************************)
(* Proofs about the board's side of the tcp and the tcp_tls sample, for     *)
(* every set of descriptors, every number of connections, faults and        *)
(* restarts: what the client loop both share keeps true, step by step, and  *)
(* the theorems of the two specifications.                                  *)
(***************************************************************************)
EXTENDS TcpLink, TlsLink, FiniteSetTheorems, TLAPS

(* At most the descriptor in sock is in use and none is between two          *)
(* attempts; no receiver is left when the next one may be created; and a     *)
(* receiver's descriptor still names the connection it was created for.      *)
SessionInv ==
  /\ fds \subseteq {sock}
  /\ pc \in {"load", "pause", "socket"} => fds = {}
  /\ pc \in {"load", "socket", "connect", "handshake", "hello", "finish", "spawn"}
       => rx.st # "recv"
  /\ rx = [st |-> rx.st, fd |-> rx.fd, conn |-> rx.conn]
  /\ ReceiverOnItsConnection

(* The invariant holds at power-on.                                          *)
LEMMA SessionInit ==
  ASSUME NEW start, StreamInit(start)
  PROVE  SessionInv
  BY DEF StreamInit, NoReceiver, SessionInv, ReceiverOnItsConnection

(* The receiver may only read or end.                                        *)
LEMMA RxStep ==
  ASSUME SessionInv, RxHandler
  PROVE  SessionInv'
<1>1. rx' = rx \/ rx' = [rx EXCEPT !.st = "ended"]
  BY DEF RxHandler
<1>2. rx'.st = "recv" => rx' = rx
  BY <1>1 DEF SessionInv
<1>3. rx' = [st |-> rx'.st, fd |-> rx'.fd, conn |-> rx'.conn]
  BY <1>1 DEF SessionInv
<1> QED
  BY <1>2, <1>3 DEF RxHandler, SessionInv, ReceiverOnItsConnection, mainVars

(* Each step of the main thread.  During the pause no descriptor is in use,  *)
(* so a receiver could run, and the pause only ends when none can.           *)
LEMMA MainStep ==
  ASSUME SessionInv,
         Pause \/ Socket \/ Connect \/ Spawn \/ Send \/ Rest \/ Close
  PROVE  SessionInv'
<1>1. CASE Pause
  <2>1. rx.st # "recv"
    BY <1>1 DEF Pause, NoPause, RxRunnable, RecvReturns, SessionInv
  <2> QED
    BY <1>1, <2>1 DEF Pause, NoPause, SessionInv, ReceiverOnItsConnection
<1>2. CASE Socket
  BY <1>2 DEF Socket, SessionInv, ReceiverOnItsConnection
<1>3. CASE Connect
  <2>1. rx.st # "recv" /\ rx' = rx /\ sock' = sock
    BY <1>3 DEF Connect, SessionInv
  <2>2. CASE Connected("spawn")
    BY <2>1, <2>2 DEF Connected, SessionInv, ReceiverOnItsConnection
  <2>3. CASE ConnectFails /\ CloseSock
    BY <2>1, <2>3 DEF ConnectFails, CloseSock, SessionInv, ReceiverOnItsConnection
  <2> QED
    BY <1>3, <2>2, <2>3 DEF Connect
<1>4. CASE Spawn
  BY <1>4 DEF Spawn, SessionInv, ReceiverOnItsConnection
<1>5. CASE Send
  BY <1>5 DEF Send, SessionInv, ReceiverOnItsConnection
<1>6. CASE Rest
  BY <1>6 DEF Rest, SessionInv, ReceiverOnItsConnection
<1>7. CASE Close
  BY <1>7 DEF Close, CloseSock, SessionInv, ReceiverOnItsConnection
<1> QED
  BY <1>1, <1>2, <1>3, <1>4, <1>5, <1>6, <1>7

(* A reset of the board, which returns every descriptor, restores it.        *)
LEMMA ResetStep ==
  ASSUME NEW start, BoardReset(start)
  PROVE  SessionInv'
  BY DEF BoardReset, NoReceiver, SessionInv, ReceiverOnItsConnection

(* Nobody else writes what the invariant is about.                           *)
LEMMA OthersStep ==
  ASSUME SessionInv, UNCHANGED <<mainVars, rx>>
  PROVE  SessionInv'
  BY DEF SessionInv, ReceiverOnItsConnection, mainVars

(* Only Spawn makes a receiver run.                                          *)
LEMMA RxNeverStarts ==
  ASSUME SessionInv, NEW start, RxHandler \/ BoardReset(start)
  PROVE  rx'.st = "recv" => rx' = rx
<1>1. CASE RxHandler
  <2>1. rx' = rx \/ rx' = [rx EXCEPT !.st = "ended"]
    BY <1>1 DEF RxHandler
  <2> QED
    BY <2>1 DEF SessionInv
<1>2. CASE BoardReset(start)
  BY <1>2 DEF BoardReset, NoReceiver
<1> QED
  BY <1>1, <1>2

(* It implies that an attempt that is over has given its descriptor back.    *)
LEMMA SessionKeepsSockets == SessionInv => NoSocketLeak
<1> SUFFICES ASSUME SessionInv
             PROVE  NoSocketLeak
  OBVIOUS
<1>1. fds = {} \/ fds = {sock}
  BY DEF SessionInv
<1>2. Cardinality({}) = 0 /\ Cardinality({sock}) = 1
  BY FS_EmptySet, FS_Singleton
<1>3. Cardinality(fds) <= 1
  BY <1>1, <1>2
<1> QED
  BY <1>3 DEF NoSocketLeak, SessionInv

-----------------------------------------------------------------------------
(* The tcp sample                                                            *)

(* The server and the network change nothing of the board.                   *)
LEMMA TcpOthers ==
  ASSUME Server \/ Stack \/ ServerStop \/ ServerStart \/ \E c \in Conns : Cut(c)
  PROVE  UNCHANGED <<mainVars, rx>>
  BY DEF Server, Accept, Greet, Recv, Stack, ServerStop, ServerStart, Cut

(* Every step of the sample keeps the invariant of the client loop.          *)
LEMMA TcpSessionStep ==
  ASSUME SessionInv, [TcpNext]_streamVars
  PROVE  SessionInv'
<1>1. CASE Main
  BY <1>1, MainStep DEF Main
<1>2. CASE RxHandler
  BY <1>2, RxStep
<1>3. CASE BoardReset("pause")
  BY <1>3, ResetStep
<1>4. CASE Server \/ Stack \/ ServerStop \/ ServerStart \/ \E c \in Conns : Cut(c)
  BY <1>4, TcpOthers, OthersStep
<1>5. CASE UNCHANGED streamVars
  BY <1>5, OthersStep DEF streamVars
<1> QED
  BY <1>1, <1>2, <1>3, <1>4, <1>5 DEF TcpNext

(* The invariant of the TCP sample.                                          *)
LEMMA TcpSessionHolds == TcpSpec => []SessionInv
<1>1. TcpInit => SessionInv
  BY SessionInit DEF TcpInit
<1> QED
  BY <1>1, TcpSessionStep, PTL DEF TcpSpec

(* The one thread object is never created again under a running receiver.    *)
THEOREM TcpOneReceiver == TcpSpec => OneReceiver
<1>1. SessionInv /\ [TcpNext]_streamVars
        => [rx'.st = "recv" /\ rx' # rx => rx.st # "recv"]_streamVars
  <2> SUFFICES ASSUME SessionInv, TcpNext, rx'.st = "recv", rx' # rx
               PROVE  rx.st # "recv"
    BY DEF streamVars
  <2>1. CASE Spawn
    BY <2>1 DEF Spawn, SessionInv
  <2>2. ~RxHandler /\ ~BoardReset("pause")
    BY RxNeverStarts
  <2>3. ~(Server \/ Stack \/ ServerStop \/ ServerStart \/ \E c \in Conns : Cut(c))
    BY TcpOthers
  <2>4. Main => Spawn \/ rx' = rx
    BY DEF Main, Connect, Pause, NoPause, Socket, Send, Rest, Close
  <2> QED
    BY <2>1, <2>2, <2>3, <2>4 DEF TcpNext
<1> QED
  BY <1>1, TcpSessionHolds, PTL DEF TcpSpec, OneReceiver

(* A receiver never reads from another connection than its own, though the   *)
(* number it was handed is closed and given out again.                       *)
THEOREM TcpReceiverKeepsItsConnection == TcpSpec => []ReceiverOnItsConnection
<1>1. SessionInv => ReceiverOnItsConnection
  BY DEF SessionInv
<1> QED
  BY <1>1, TcpSessionHolds, PTL

(* No failure path of main keeps a descriptor.                               *)
THEOREM TcpSocketsReturned == TcpSpec => []NoSocketLeak
  BY TcpSessionHolds, SessionKeepsSockets, PTL

-----------------------------------------------------------------------------
(* The tcp_tls sample                                                        *)

TlsOtherStep ==
  \/ AcceptLoop \/ WrapSocket \/ Stack \/ CtrlC \/ ProcessStarts
  \/ \E c \in Conns : Cut(c) \/ HandleClient(c)

(* The server and the network change nothing of the board.                   *)
LEMMA TlsOthers ==
  ASSUME TlsOtherStep
  PROVE  UNCHANGED <<mainVars, rx>>
  BY DEF TlsOtherStep, AcceptLoop, WrapSocket, WrapAnswers, WrapRaises, ProcessEnds, Stack, CtrlC, ProcessStarts, Cut, HandleClient

(* The two steps of the main thread that the tcp sample does not have, and   *)
(* connecting, which goes on to the handshake here.                          *)
LEMMA TlsMainStep ==
  ASSUME SessionInv, LoadCaCert \/ TcpConnect \/ Handshake
  PROVE  SessionInv'
<1>1. CASE LoadCaCert
  BY <1>1 DEF LoadCaCert, SessionInv, ReceiverOnItsConnection
<1>2. CASE TcpConnect
  <2>1. rx.st # "recv" /\ rx' = rx /\ sock' = sock
    BY <1>2 DEF TcpConnect, SessionInv
  <2>2. CASE Connected("handshake")
    BY <2>1, <2>2 DEF Connected, SessionInv, ReceiverOnItsConnection
  <2>3. CASE ConnectFails /\ CloseSock
    BY <2>1, <2>3 DEF ConnectFails, CloseSock, SessionInv, ReceiverOnItsConnection
  <2> QED
    BY <1>2, <2>2, <2>3 DEF TcpConnect
<1>3. CASE Handshake
  <2>1. rx.st # "recv" /\ rx' = rx /\ sock' = sock
    BY <1>3 DEF Handshake, ShakeStep, HandshakeFails, SessionInv
  <2>2. \/ pc' \in {"hello", "finish", "spawn"} /\ fds' = fds /\ at' = at
        \/ pc' = "pause" /\ CloseSock
    BY <1>3 DEF Handshake, ShakeStep, HandshakeFails
  <2> QED
    BY <2>1, <2>2 DEF CloseSock, SessionInv, ReceiverOnItsConnection
<1> QED
  BY <1>1, <1>2, <1>3

(* Every step of the sample keeps the invariant of the client loop.          *)
LEMMA TlsSessionStep ==
  ASSUME SessionInv, [TlsNext]_streamVars
  PROVE  SessionInv'
<1>1. CASE TlsMain
  BY <1>1, MainStep, TlsMainStep DEF TlsMain
<1>2. CASE RxHandler
  BY <1>2, RxStep
<1>3. CASE BoardReset("load")
  BY <1>3, ResetStep
<1>4. CASE TlsOtherStep
  BY <1>4, TlsOthers, OthersStep
<1>5. CASE UNCHANGED streamVars
  BY <1>5, OthersStep DEF streamVars
<1> QED
  BY <1>1, <1>2, <1>3, <1>4, <1>5 DEF TlsNext, TlsRxHandler, Vanish, TlsOtherStep

(* The invariant of the TLS sample.                                          *)
LEMMA TlsSessionHolds == TlsSpec => []SessionInv
<1>1. TlsInit => SessionInv
  BY SessionInit DEF TlsInit
<1> QED
  BY <1>1, TlsSessionStep, PTL DEF TlsSpec

(* The one thread object is never created again under a running receiver.    *)
THEOREM TlsOneReceiver == TlsSpec => OneReceiver
<1>1. SessionInv /\ [TlsNext]_streamVars
        => [rx'.st = "recv" /\ rx' # rx => rx.st # "recv"]_streamVars
  <2> SUFFICES ASSUME SessionInv, TlsNext, rx'.st = "recv", rx' # rx
               PROVE  rx.st # "recv"
    BY DEF streamVars
  <2>1. CASE Spawn
    BY <2>1 DEF Spawn, SessionInv
  <2>2. ~RxHandler /\ ~BoardReset("load")
    BY RxNeverStarts
  <2>3. ~(TlsOtherStep)
    BY TlsOthers
  <2>4. TlsMain => Spawn \/ rx' = rx
    BY DEF TlsMain, LoadCaCert, TcpConnect, Handshake, ShakeStep, HandshakeFails, Pause, NoPause, Socket, Send, Rest, Close
  <2> QED
    BY <2>1, <2>2, <2>3, <2>4 DEF TlsNext, TlsRxHandler, Vanish, TlsOtherStep
<1> QED
  BY <1>1, TlsSessionHolds, PTL DEF TlsSpec, OneReceiver

(* A receiver never reads from another connection than its own, though the   *)
(* number it was handed is closed and given out again.                       *)
THEOREM TlsReceiverKeepsItsConnection == TlsSpec => []ReceiverOnItsConnection
<1>1. SessionInv => ReceiverOnItsConnection
  BY DEF SessionInv
<1> QED
  BY <1>1, TlsSessionHolds, PTL

(* No failure path of main keeps a descriptor.                               *)
THEOREM TlsSocketsReturned == TlsSpec => []NoSocketLeak
  BY TlsSessionHolds, SessionKeepsSockets, PTL
=============================================================================
