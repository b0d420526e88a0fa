------------------------------- MODULE Publisher -------------------------------
(***************************************************************************)
(* The Zenoh publisher: main opens a session with the router, declares a    *)
(* publisher and puts a message every second until a put fails; then, and   *)
(* when the session cannot be opened, it starts over.  zenoh-pico is        *)
(* external: a session holds one of the few connections of the network      *)
(* stack and two tasks (read and lease) from z_open until it is dropped.    *)
(***************************************************************************)
EXTENDS Integers

CONSTANTS
  MaxConn,       \* CONFIG_NET_MAX_CONN: connections the network stack has
  MaxAccidents   \* bound on failures of the router and of the calls

ASSUME PublisherAssumption == MaxConn \in Nat \ {0} /\ MaxAccidents \in Nat

VARIABLES
  router,       \* the router is running
  stage,        \* where main is
  linked,       \* the connection of the session main works with is up
  sessions,     \* sessions not dropped, each with its connection and tasks
  undeclared,   \* sessions whose publisher could not be declared (history)
  accidents     \* failures so far

publisherVars == <<router, stage, linked, sessions, undeclared, accidents>>

Stages == {"open", "declare", "put", "close", "restart"}

PublisherInit ==
  /\ router \in BOOLEAN
  /\ stage = "open"
  /\ linked = FALSE
  /\ sessions = 0 /\ undeclared = 0 /\ accidents = 0

Accident == accidents < MaxAccidents /\ accidents' = accidents + 1

(* After five seconds z_open makes the handle own a new session, whatever it *)
(* owned before; the tasks are started.                                      *)
Open ==
  /\ stage = "open"
  /\ router /\ sessions < MaxConn
  /\ sessions' = sessions + 1
  /\ linked' = TRUE
  /\ stage' = "declare"
  /\ UNCHANGED <<router, undeclared, accidents>>

(* z_open fails: no router, no connection left or another error.  It leaves  *)
(* an empty handle, and z_drop has nothing to drop.                          *)
OpenFails ==
  /\ stage = "open"
  /\ \/ (~router \/ sessions >= MaxConn) /\ UNCHANGED accidents
     \/ Accident
  /\ linked' = FALSE
  /\ stage' = "restart"
  /\ UNCHANGED <<router, sessions, undeclared>>

(* Mutated form: main returns instead of trying again.                       *)
GiveUp == stage = "restart" /\ UNCHANGED publisherVars

(* The interface is taken down and up again, then the loop starts over.      *)
RestartInterface ==
  /\ stage = "restart"
  /\ stage' = "open"
  /\ UNCHANGED <<router, linked, sessions, undeclared, accidents>>

Declare ==
  /\ stage = "declare" /\ linked
  /\ stage' = "put"
  /\ UNCHANGED <<router, linked, sessions, undeclared, accidents>>

(* The loop starts over with the session still open and its tasks running.   *)
DeclareFails ==
  /\ stage = "declare"
  /\ IF linked THEN Accident ELSE UNCHANGED accidents
  /\ undeclared' = undeclared + 1
  /\ stage' = "open"
  /\ UNCHANGED <<router, linked, sessions>>

(* A put that succeeds says nothing of the connection: the bytes may still   *)
(* be in the send buffer.                                                    *)
PutFails ==
  /\ stage = "put" /\ ~linked
  /\ stage' = "close"
  /\ UNCHANGED <<router, linked, sessions, undeclared, accidents>>

(* Mutated form: the publisher is dropped, the session is not.               *)
DropPublisher ==
  /\ stage = "close"
  /\ stage' = "open"
  /\ UNCHANGED <<router, linked, sessions, undeclared, accidents>>

(* The publisher and its session are dropped.                                *)
Close ==
  /\ stage = "close"
  /\ linked' = FALSE
  /\ sessions' = sessions - 1
  /\ stage' = "open"
  /\ UNCHANGED <<router, undeclared, accidents>>

(* The router stops, which cuts the connection, or is started again.         *)
RouterStops ==
  /\ router /\ Accident
  /\ router' = FALSE /\ linked' = FALSE
  /\ UNCHANGED <<stage, sessions, undeclared>>

RouterStarts ==
  /\ ~router
  /\ router' = TRUE
  /\ UNCHANGED <<stage, linked, sessions, undeclared, accidents>>

PublisherMain ==
  \/ Open \/ OpenFails \/ RestartInterface \/ Declare \/ DeclareFails
  \/ PutFails \/ Close

PublisherNext == PublisherMain \/ RouterStops \/ RouterStarts

PublisherSpec == PublisherInit /\ [][PublisherNext]_publisherVars

(* main keeps running, and someone starts the router again.                  *)
PublisherFairness == WF_publisherVars(PublisherMain) /\ WF_publisherVars(RouterStarts)

-----------------------------------------------------------------------------
(* Properties                                                                *)

PublisherTypeOK ==
  /\ router \in BOOLEAN /\ stage \in Stages
  /\ linked \in BOOLEAN
  /\ sessions \in 0 .. MaxConn
  /\ undeclared \in Nat /\ accidents \in 0 .. MaxAccidents

(* Connections and tasks are kept only for the session main works with and   *)
(* for those it left behind when a declaration failed (main.c:57).           *)
SessionsAccounted ==
  sessions = undeclared + (IF stage \in {"declare", "put", "close"} THEN 1 ELSE 0)

(* While MaxConn declarations have not failed, the publisher comes back      *)
(* after every failure of the router or of a call; after that it never does. *)
PublishesAgain ==
  /\ undeclared < MaxConn ~> (stage = "put" \/ undeclared = MaxConn)
  /\ [](undeclared = MaxConn => [](stage # "put"))
=============================================================================
