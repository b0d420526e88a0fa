------------------------------ MODULE MCSamples ------------------------------
(***************************************************************************)
(* The small samples in one run.  A board runs the sample it was flashed    *)
(* with (flash.sh <APP_FOLDER>) and no other: the behaviours are those of    *)
(* the five specifications side by side, never mixed.                       *)
(***************************************************************************)
EXTENDS Nrf24Pair, Publisher, LittleFs, Ssd1316, BootCounter

VARIABLE app    \* the sample the board was flashed with

samplesVars == <<app, pairVars, publisherVars, fsVars, panelVars, counterVars>>

Apps == {"nrf24l01", "publisher", "littlefs", "ssd1316", "AT24C02"}

(* Samples that do not run keep one of their initial states.                 *)
Init ==
  /\ app \in Apps
  /\ PairInit /\ PublisherInit /\ FsInit /\ PanelInit /\ CounterInit
  /\ app # "nrf24l01" => build = [trigger |-> TRUE, ack |-> FALSE] /\ ~eve
  /\ app # "publisher" => router
  /\ app # "littlefs" => ~wipeBuild
  /\ app # "ssd1316" => ~inversion
  /\ app # "AT24C02" => Count(eeprom) = 0

Next ==
  /\ \/ /\ app = "nrf24l01" /\ PairNext
        /\ UNCHANGED <<publisherVars, fsVars, panelVars, counterVars>>
     \/ /\ app = "publisher" /\ PublisherNext
        /\ UNCHANGED <<pairVars, fsVars, panelVars, counterVars>>
     \/ /\ app = "littlefs" /\ FsNext
        /\ UNCHANGED <<pairVars, publisherVars, panelVars, counterVars>>
     \/ /\ app = "ssd1316" /\ PanelNext
        /\ UNCHANGED <<pairVars, publisherVars, fsVars, counterVars>>
     \/ /\ app = "AT24C02" /\ CounterNext
        /\ UNCHANGED <<pairVars, publisherVars, fsVars, panelVars>>
  /\ UNCHANGED app

(* The fairness each sample's specification asks for, while it runs.         *)
Spec ==
  /\ Init /\ [][Next]_samplesVars
  /\ app = "nrf24l01" => PairFairness
  /\ app = "publisher" => PublisherFairness

(* The liveness properties of Nrf24Pair and Publisher, where these run.      *)
PairProgress == app = "nrf24l01" => ConversationGoesOn
PublisherProgress == app = "publisher" => PublishesAgain
=============================================================================
