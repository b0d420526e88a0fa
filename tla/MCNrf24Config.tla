----------------------------- MODULE MCNrf24Config -----------------------------
(***************************************************************************)
(* Devicetree nodes for the runs of Nrf24Config.                            *)
(***************************************************************************)
EXTENDS Nrf24Config

(* The node of the sample's overlay.                                         *)
Shipped ==
  [width |-> 4, channel |-> 16, rate2 |-> FALSE, atten |-> 18, lna |-> TRUE, crc |-> TRUE,
   crc2 |-> FALSE, addr |-> "shipped", size |-> 32, ack |-> FALSE, dyn |-> FALSE,
   pipes |-> 2, dynPipes |-> {}]

(* One that differs from it in every setting, and more power levels.         *)
Other ==
  [width |-> 4, channel |-> 125, rate2 |-> TRUE, atten |-> 6, lna |-> FALSE, crc |-> FALSE,
   crc2 |-> TRUE, addr |-> "other", size |-> 8, ack |-> TRUE, dyn |-> FALSE,
   pipes |-> 4, dynPipes |-> {0, 3}]

Buildable == {Shipped, Other}
Accepted ==
  Buildable \cup {[Other EXCEPT !.atten = 12], [Other EXCEPT !.atten = 0],
                  [Shipped EXCEPT !.pipes = 6, !.ack = TRUE]}
Refused == {[Shipped EXCEPT !.size = 33], [Other EXCEPT !.dyn = TRUE]}
All == Accepted \cup Refused
=============================================================================
