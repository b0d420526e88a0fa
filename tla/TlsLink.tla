-------------------------------- MODULE TlsLink --------------------------------
(***************************************************************************)
(* The tcp_tls sample.  The client is that of StreamClient with a CA file   *)
(* to load first and a TLS handshake in zsock_connect; server.py makes the  *)
(* handshake in its accept loop and then gives every client two threads,    *)
(* one that receives and one that sends a line every second.                *)
(***************************************************************************)
EXTENDS StreamClient

TlsInit == StreamInit("load")

-----------------------------------------------------------------------------
(* The board                                                                 *)

(* Without a CA file main returns, and nothing is ever sent.                 *)
LoadCaCert ==
  /\ pc = "load"
  /\ \/ pc' = "socket" /\ NoFault
     \/ pc' = "exit" /\ Fault
  /\ UNCHANGED <<sock, fds, at, rx, conn, made, serverVars>>

TcpConnect ==
  /\ pc = "connect"
  /\ Connected("handshake") \/ (ConnectFails /\ CloseSock)
  /\ UNCHANGED <<sock, rx, serverVars>>

(* The time-out of the connect expires unless the server has got round to    *)
(* this connection; what the server closed or the network lost comes to the  *)
(* same end.                                                                 *)
HandshakeLost(c) ==
  \/ conn[c].cl = "reset" \/ conn[c].sv = "closed" \/ conn[c].cut
  \/ conn[c].sv = "backlog" /\ cur # 0

(* One step of the client's handshake: what it waited for came, and it sends *)
(* the next message.                                                         *)
ShakeStep(from, to, taken, given) ==
  LET c == at[sock] IN
    /\ pc = from /\ pc' = to
    /\ conn[c].cl = "open" /\ ~conn[c].cut /\ conn[c].down >= taken
    /\ conn' = [conn EXCEPT ![c].down = @ - taken, ![c].up = @ + given]
    /\ UNCHANGED <<sock, fds, at, faults>>

HandshakeFails ==
  LET c == at[sock] IN
    /\ pc \in {"handshake", "hello", "finish"} /\ pc' = "pause"
    /\ IF HandshakeLost(c) THEN NoFault ELSE Fault
    /\ CloseSock /\ UNCHANGED sock
    /\ conn' = [conn EXCEPT ![c].cl = "closed"]

(* The second half of zsock_connect, TLS 1.2 in three steps: ClientHello;    *)
(* on the server's flight, key exchange and Finished; the server's Finished. *)
Handshake ==
  /\ \/ ShakeStep("handshake", "hello", 0, 1)
     \/ ShakeStep("hello", "finish", 1, 1)
     \/ ShakeStep("finish", "spawn", 1, 0)
     \/ HandshakeFails
  /\ UNCHANGED <<rx, made, serverVars>>

TlsMain == \/ LoadCaCert \/ Pause \/ Socket \/ TcpConnect \/ Handshake
           \/ Spawn \/ Send \/ Rest \/ Close

TlsRxHandler == RxHandler

-----------------------------------------------------------------------------
(* server.py                                                                 *)

AcceptLoop ==
  /\ spc = "accept"
  /\ \E c \in Waiting :
       /\ \A d \in Waiting : c <= d
       /\ cur' = c
       /\ conn' = [conn EXCEPT ![c].sv = "wrap"]
  /\ spc' = "wrap"
  /\ UNCHANGED <<mainVars, rx, made, faults>>

(* The process ends and the host closes all its sockets.                     *)
ProcessEnds(how) ==
  /\ spc' = how /\ cur' = 0
  /\ conn' = [c \in Conns |->
                IF conn[c].sv \in {"none", "closed"} THEN conn[c]
                ELSE [conn[c] EXCEPT !.sv = "closed"]]
  /\ UNCHANGED <<mainVars, rx, made>>

(* wrap_socket answers the ClientHello with its flight and then the client's *)
(* Finished with its own, and the client gets its handler thread.            *)
WrapAnswers ==
  /\ conn[cur].up > 0 /\ ~conn[cur].cut
  /\ \/ /\ spc = "wrap" /\ spc' = "flight"
        /\ conn' = [conn EXCEPT ![cur].up = 0, ![cur].down = 1]
        /\ UNCHANGED cur
     \/ /\ spc = "flight" /\ spc' = "accept"
        /\ conn' = [conn EXCEPT ![cur].up = 0, ![cur].down = 1, ![cur].sv = "open"]
        /\ cur' = 0
  /\ UNCHANGED <<mainVars, rx, made>>

Unacknowledged == conn[cur].cut /\ conn[cur].down > 0

(* wrap_socket has no time-out of its own, and the accepted socket none of   *)
(* the listening one's.  It raises when the client hung up or when something *)
(* it sent is never acknowledged: a TCP time-out the loop catches, anything  *)
(* else leaves it and the finally clause calls sys.exit.                     *)
WrapRaises ==
  \/ /\ Unacknowledged
     /\ conn' = [conn EXCEPT ![cur].sv = "closed"]
     /\ spc' = "accept" /\ cur' = 0
     /\ UNCHANGED <<mainVars, rx, made>>
  \/ /\ Unacknowledged \/ (conn[cur].cl = "closed" /\ ~conn[cur].cut)
     /\ ProcessEnds("exited")

(* While it waits for a client that is gone, and owes nothing that would     *)
(* show it, wrap_socket does not return.                                     *)
WrapSocket ==
  /\ spc \in {"wrap", "flight"} /\ NoFault
  /\ WrapAnswers \/ WrapRaises

(* Mutated form: the host only answers what it received.                     *)
SendAnswer(c) ==
  /\ conn[c].sv = "open" /\ conn[c].down = 0 /\ conn[c].up > 0
  /\ conn' = [conn EXCEPT ![c].down = 1]

SendPeriodic(c) ==
  /\ conn[c].sv = "open" /\ conn[c].down = 0
  /\ conn' = [conn EXCEPT ![c].down = 1]

(* recv brings data, or returns b'' or raises and the socket is closed.      *)
HandleRecv(c) ==
  \/ /\ conn[c].sv = "open" /\ conn[c].up > 0 /\ ~conn[c].cut
     /\ conn' = [conn EXCEPT ![c].up = 0]
  \/ /\ \/ conn[c].sv = "reset"
        \/ conn[c].sv = "open" /\ conn[c].cl = "closed" /\ ~conn[c].cut /\ conn[c].up = 0
     /\ conn' = [conn EXCEPT ![c].sv = "closed"]

HandleClient(c) ==
  (SendPeriodic(c) \/ HandleRecv(c)) /\ UNCHANGED <<mainVars, rx, made, serverVars, faults>>

CtrlC == Listens /\ Fault /\ ProcessEnds("down")

ProcessStarts ==
  /\ spc = "down"
  /\ spc' = "accept"
  /\ UNCHANGED <<mainVars, rx, conn, made, cur, faults>>

-----------------------------------------------------------------------------
Vanish == BoardReset("load") \/ \E c \in Conns : Cut(c)

TlsNext ==
  \/ TlsMain \/ TlsRxHandler \/ AcceptLoop \/ WrapSocket
  \/ \E c \in Conns : HandleClient(c)
  \/ Stack \/ CtrlC \/ ProcessStarts \/ Vanish

TlsSpec == TlsInit /\ [][TlsNext]_streamVars

(* Every thread of both programs is scheduled, the stacks do answer, and who *)
(* stopped the server starts it again.                                       *)
TlsFairSpec ==
  /\ TlsSpec
  /\ WF_streamVars(TlsMain) /\ WF_streamVars(TlsRxHandler)
  /\ WF_streamVars(AcceptLoop) /\ WF_streamVars(WrapSocket)
  /\ \A c \in Conns : WF_streamVars(HandleClient(c))
  /\ WF_streamVars(Stack) /\ WF_streamVars(ProcessStarts)

-----------------------------------------------------------------------------
(* Properties                                                                *)

(* A board that vanished never closes its connection; the line the host      *)
(* sends every second makes it notice, and the handler ends.                 *)
DeadClientsDropped ==
  \A c \in Conns :
    conn[c].cl = "closed" /\ conn[c].sv = "open" ~> conn[c].sv = "closed"

(* The accept loop waits in wrap_socket for the next message of a client     *)
(* that vanished, with nothing sent whose loss would tell it so.             *)
Hung == spc \in {"wrap", "flight"} /\ conn[cur].cut /\ conn[cur].down = 0

(* Unless the certificate is missing or the server exits, the board ends up  *)
(* connected for good, whatever becomes of its connections on either side.   *)
(* Only a client that vanishes in the middle of its handshake keeps the      *)
(* server from it, and only where nothing the server sent is unacknowledged: *)
(* then no client is accepted ever again.                                    *)
TlsRecovers ==
  \/ <>(pc = "exit" \/ spc = "exited")
  \/ <>[]Hung
  \/ <>[](/\ pc \in {"send", "rest"} /\ at[sock] # 0
          /\ conn[at[sock]].cl = "open" /\ conn[at[sock]].sv = "open")

(* "Press Ctrl+C to exit." (server.py:48): nothing else ends the server.     *)
OnlyCtrlCExits == spc # "exited"
=============================================================================
