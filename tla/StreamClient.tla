------------------------------ MODULE StreamClient ------------------------------
(***************************************************************************)
(* The client loop the tcp and tcp_tls samples share: the board's main      *)
(* thread connects and sends, a receiver thread reads the same socket.      *)
(* Either end notices a lost peer only through the calls it happens to      *)
(* make, so a connection is modelled by what each end may still learn about *)
(* the other: bytes are counted, not told apart.  TcpLink and TlsLink add   *)
(* the servers.                                                             *)
(***************************************************************************)
EXTENDS Integers, FiniteSets

CONSTANTS
  Fds,          \* file descriptors of the board, a set of numbers
  MaxConns,     \* bound on the connections ever made
  Window,       \* messages in flight to the server before send blocks
  Backlog,      \* connections the host completes before accept
  MaxFaults     \* bound on the faults of the environment

ASSUME StreamAssumption ==
  /\ Fds # {} /\ Fds \subseteq Nat
  /\ MaxConns \in Nat /\ Window \in Nat \ {0} /\ Backlog \in Nat \ {0}
  /\ MaxFaults \in Nat

VARIABLES
  pc,      \* where the board's main thread is
  sock,    \* the descriptor main works with
  fds,     \* descriptors in use
  at,      \* the connection behind a descriptor, 0 before connect
  rx,      \* the receiver thread: state, descriptor, connection created for
  conn,    \* every connection, by number
  made,    \* number of connections made
  spc,     \* where the server's accept loop is
  cur,     \* the connection the accept loop works on
  faults   \* faults so far

mainVars == <<pc, sock, fds, at>>
serverVars == <<spc, cur>>
streamVars == <<mainVars, rx, conn, made, serverVars, faults>>

Conns == 1 .. MaxConns
NoConn == [cl |-> "none", sv |-> "none", up |-> 0, down |-> 0, cut |-> FALSE]
NoReceiver == [st |-> "none", fd |-> 0, conn |-> 0]

StreamInit(start) ==
  /\ pc = start /\ sock = 0 /\ fds = {} /\ at = [f \in Fds |-> 0]
  /\ rx = NoReceiver
  /\ conn = [c \in Conns |-> NoConn] /\ made = 0
  /\ spc = "accept" /\ cur = 0
  /\ faults = 0

Fault == faults < MaxFaults /\ faults' = faults + 1
NoFault == UNCHANGED faults

-----------------------------------------------------------------------------
(* The connection, as the two TCP stacks keep it                             *)

Listens == spc \notin {"down", "exited"}
Waiting == {c \in Conns : conn[c].sv = "backlog"}

(* The server's FIN has reached the board, behind all the data.              *)
PeerClosed(c) == conn[c].sv = "closed" /\ ~conn[c].cut /\ conn[c].down = 0

(* A segment that reaches an end which closed the connection is answered     *)
(* with a reset, and one that is never acknowledged times out.               *)
ResetClient(c) ==
  /\ conn[c].cl = "open" /\ conn[c].up > 0
  /\ conn[c].sv = "closed" \/ conn[c].cut
  /\ conn' = [conn EXCEPT ![c].cl = "reset"]

ResetServer(c) ==
  /\ conn[c].sv = "open" /\ conn[c].down > 0
  /\ conn[c].cl = "closed" \/ conn[c].cut
  /\ conn' = [conn EXCEPT ![c].sv = "reset"]

(* The path between the two ends is lost: nothing gets through any more.     *)
Cut(c) ==
  /\ Fault
  /\ conn[c].cl = "open" /\ ~conn[c].cut
  /\ conn' = [conn EXCEPT ![c].cut = TRUE]
  /\ UNCHANGED <<mainVars, rx, made, serverVars>>

Stack == (\E c \in Conns : ResetClient(c) \/ ResetServer(c))
         /\ UNCHANGED <<mainVars, rx, made, serverVars, faults>>

-----------------------------------------------------------------------------
(* The receiver thread                                                       *)

(* zsock_recv returns: data, the end of the stream or an error.              *)
RecvReturns ==
  \/ rx.fd \notin fds
  \/ at[rx.fd] # 0 /\ LET k == conn[at[rx.fd]] IN
       k.down > 0 \/ PeerClosed(at[rx.fd]) \/ k.cl = "reset"

RxRunnable == rx.st = "recv" /\ RecvReturns

RxHandler ==
  /\ RxRunnable
  /\ IF rx.fd \in fds /\ conn[at[rx.fd]].down > 0 /\ conn[at[rx.fd]].cl # "reset"
     THEN conn' = [conn EXCEPT ![at[rx.fd]].down = 0] /\ UNCHANGED rx
     ELSE rx' = [rx EXCEPT !.st = "ended"] /\ UNCHANGED conn
  /\ UNCHANGED <<mainVars, made, serverVars, faults>>

-----------------------------------------------------------------------------
(* The board's main thread                                                   *)

(* Mutated form: the next attempt starts without the pause.                  *)
NoPause ==
  /\ pc = "pause"
  /\ pc' = "socket"
  /\ UNCHANGED <<sock, fds, at, rx, conn, made, serverVars, faults>>

(* The main thread sleeps for a second: a receiver that can run does so      *)
(* until its next recv blocks or it ends.                                    *)
Pause == ~RxRunnable /\ NoPause

(* The lowest free descriptor is taken.  An address that does not parse      *)
(* closes the new socket again, so both failures leave the same state.       *)
Socket ==
  /\ pc = "socket"
  /\ \/ /\ NoFault
        /\ \E f \in Fds \ fds :
             /\ \A g \in Fds \ fds : f <= g
             /\ sock' = f /\ fds' = fds \cup {f} /\ at' = [at EXCEPT ![f] = 0]
        /\ pc' = "connect"
     \/ /\ IF fds = Fds THEN NoFault ELSE Fault
        /\ pc' = "pause"
        /\ UNCHANGED <<sock, fds, at>>
  /\ UNCHANGED <<rx, conn, made, serverVars>>

CloseSock ==
  /\ fds' = fds \ {sock}
  /\ at' = [at EXCEPT ![sock] = 0]

(* The host's stack completes the connection while the server listens.       *)
Connected(next) ==
  /\ Listens /\ Cardinality(Waiting) < Backlog /\ made < MaxConns
  /\ NoFault
  /\ made' = made + 1
  /\ conn' = [conn EXCEPT ![made + 1] = [NoConn EXCEPT !.cl = "open", !.sv = "backlog"]]
  /\ at' = [at EXCEPT ![sock] = made + 1]
  /\ pc' = next
  /\ UNCHANGED fds

ConnectFails ==
  /\ IF ~Listens \/ Cardinality(Waiting) >= Backlog THEN NoFault ELSE Fault
  /\ pc' = "pause"
  /\ UNCHANGED <<conn, made>>

(* Mutated form: a failed connect keeps its socket.                          *)
ConnectLeaks ==
  /\ pc = "connect"
  /\ Connected("spawn") \/ (ConnectFails /\ UNCHANGED <<fds, at>>)
  /\ UNCHANGED <<sock, rx, serverVars>>

Connect ==
  /\ pc = "connect"
  /\ Connected("spawn") \/ (ConnectFails /\ CloseSock)
  /\ UNCHANGED <<sock, rx, serverVars>>

(* k_thread_create on the one thread object and stack there is.              *)
Spawn ==
  /\ pc = "spawn"
  /\ rx' = [st |-> "recv", fd |-> sock, conn |-> at[sock]]
  /\ pc' = "send"
  /\ UNCHANGED <<sock, fds, at, conn, made, serverVars, faults>>

(* zsock_send blocks while the window is full.                               *)
Send ==
  /\ pc = "send"
  /\ LET c == at[sock] IN
       \/ /\ conn[c].cl = "open" /\ conn[c].up < Window
          /\ conn' = [conn EXCEPT ![c].up = @ + 1]
          /\ pc' = "rest"
       \/ /\ conn[c].cl = "reset"
          /\ pc' = "close"
          /\ UNCHANGED conn
  /\ UNCHANGED <<sock, fds, at, rx, made, serverVars, faults>>

Rest ==
  /\ pc = "rest"
  /\ pc' = "send"
  /\ UNCHANGED <<sock, fds, at, rx, conn, made, serverVars, faults>>

(* Mutated form: the session ends without zsock_close.                       *)
KeepOpen ==
  /\ pc = "close"
  /\ pc' = "pause"
  /\ UNCHANGED <<sock, fds, at, rx, conn, made, serverVars, faults>>

Close ==
  /\ pc = "close"
  /\ CloseSock
  /\ conn' = [conn EXCEPT ![at[sock]].cl = "closed"]
  /\ pc' = "pause"
  /\ UNCHANGED <<sock, rx, made, serverVars, faults>>

(* The board restarts: its connections are forgotten without a FIN.          *)
BoardReset(start) ==
  /\ Fault
  /\ pc' = start /\ sock' = 0 /\ fds' = {} /\ at' = [f \in Fds |-> 0]
  /\ rx' = NoReceiver
  /\ conn' = [c \in Conns |->
                IF conn[c].cl \in {"open", "reset"}
                THEN [conn[c] EXCEPT !.cl = "closed", !.cut = TRUE] ELSE conn[c]]
  /\ UNCHANGED <<made, serverVars>>

-----------------------------------------------------------------------------
(* Properties of the client                                                  *)

(* k_thread_create overwrites rx_thread_data and app_rx_stack and nothing    *)
(* joins the receiver before: the previous one must have ended by then,      *)
(* whichever way its session was lost.                                       *)
OneReceiver == [][rx'.st = "recv" /\ rx' # rx => rx.st # "recv"]_streamVars

(* The receiver was handed a number that is closed and given out again by    *)
(* the next attempt: while it runs, the number never names another           *)
(* connection than the one it was created for.                               *)
ReceiverOnItsConnection ==
  rx.st = "recv" /\ rx.fd \in fds => at[rx.fd] = rx.conn

(* Every attempt, failed or not, gives back its descriptor before the next.  *)
NoSocketLeak ==
  /\ Cardinality(fds) <= 1
  /\ pc \in {"pause", "socket"} => fds = {}

(* The receiver tells nobody that the server hung up; the sending loop still *)
(* finds out and ends the session.                                           *)
SessionEnds ==
  \A c \in Conns :
    conn[c].cl = "open" /\ conn[c].sv = "closed" ~> conn[c].cl = "closed"
=============================================================================
