-------------------------------- MODULE TcpLink --------------------------------
(***************************************************************************)
(* The tcp sample: the client of StreamClient and server.py on the host,    *)
(* which serves one client at a time and greets it once.                    *)
(***************************************************************************)
EXTENDS StreamClient

TcpInit == StreamInit("pause")

Main == Pause \/ Socket \/ Connect \/ Spawn \/ Send \/ Rest \/ Close

-----------------------------------------------------------------------------
(* server.py                                                                 *)

Accept ==
  /\ spc = "accept"
  /\ \E c \in Waiting :
       /\ \A d \in Waiting : c <= d
       /\ cur' = c
       /\ conn' = [conn EXCEPT ![c].sv = "open"]
  /\ spc' = "greet"
  /\ UNCHANGED <<mainVars, rx, made, faults>>

CloseClient == conn' = [conn EXCEPT ![cur].sv = "closed"] /\ spc' = "accept" /\ cur' = 0

(* sendall succeeds into the socket buffer; a dead peer shows in recv.       *)
Greet ==
  /\ spc = "greet"
  /\ conn' = [conn EXCEPT ![cur].down = 1]
  /\ spc' = "recv"
  /\ UNCHANGED <<mainVars, rx, made, cur, faults>>

TakeData ==
  /\ conn[cur].sv = "open" /\ conn[cur].up > 0 /\ ~conn[cur].cut
  /\ conn' = [conn EXCEPT ![cur].up = 0]
  /\ UNCHANGED <<spc, cur>>

(* Either recv returns b'' or it raises.                                     *)
ClientGone ==
  \/ conn[cur].sv = "reset"
  \/ conn[cur].cl = "closed" /\ ~conn[cur].cut /\ conn[cur].up = 0

Recv ==
  /\ spc = "recv"
  /\ TakeData \/ (ClientGone /\ CloseClient)
  /\ UNCHANGED <<mainVars, rx, made, faults>>

Server == Accept \/ Greet \/ Recv

(* Ctrl+C closes every socket of the process; later it is started again.     *)
ServerStop ==
  /\ spc # "down" /\ Fault
  /\ spc' = "down" /\ cur' = 0
  /\ conn' = [c \in Conns |->
                IF conn[c].sv \in {"backlog", "open", "reset"}
                THEN [conn[c] EXCEPT !.sv = "closed"] ELSE conn[c]]
  /\ UNCHANGED <<mainVars, rx, made>>

ServerStart ==
  /\ spc = "down"
  /\ spc' = "accept"
  /\ UNCHANGED <<mainVars, rx, conn, made, cur, faults>>

-----------------------------------------------------------------------------
TcpNext ==
  \/ Main \/ RxHandler \/ Server \/ Stack
  \/ BoardReset("pause") \/ ServerStop \/ ServerStart
  \/ \E c \in Conns : Cut(c)

TcpSpec == TcpInit /\ [][TcpNext]_streamVars

(* Both processes and the receiver are scheduled, the stacks do answer, and  *)
(* a server that was stopped is started again.                               *)
TcpFairSpec ==
  /\ TcpSpec
  /\ WF_streamVars(Main) /\ WF_streamVars(RxHandler)
  /\ WF_streamVars(Server) /\ WF_streamVars(ServerStart) /\ WF_streamVars(Stack)

-----------------------------------------------------------------------------
(* Properties                                                                *)

(* When the server is no longer stopped, the board ends up connected to it   *)
(* for good, served and sending, unless a connection was lost silently: the  *)
(* server then waits for ever for a client that is gone.                     *)
Recovers ==
  \/ <>(\E c \in Conns : conn[c].cut)
  \/ <>[](pc \in {"send", "rest"} /\ at[sock] # 0 /\ spc = "recv" /\ cur = at[sock])
=============================================================================
