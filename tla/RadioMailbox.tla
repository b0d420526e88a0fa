----------------------------- MODULE RadioMailbox -----------------------------
(***************************************************************************)
(* What the receiving half of the driver promises to its caller: packets    *)
(* are handed over in the order the radio heard them, each at most once,    *)
(* and nothing else is ever handed over.  Packets may be lost anywhere on   *)
(* the way (full FIFO, full queue); losing is never turned into reordering, *)
(* duplication or invention.                                                *)
(***************************************************************************)
EXTENDS Integers, Sequences

VARIABLES
  heard,      \* number of packets heard so far; they are numbered from 1
  pending,    \* heard, neither handed over nor lost, oldest first
  delivered   \* number of the packet handed over last, 0 before the first

mailboxVars == <<heard, pending, delivered>>

Init ==
  /\ heard = 0
  /\ pending = <<>>
  /\ delivered = 0

(* A packet is heard and kept, or heard and lost at once.                    *)
Hear ==
  /\ heard' = heard + 1
  /\ pending' \in {pending, Append(pending, heard')}
  /\ UNCHANGED delivered

Lose ==
  \E i \in DOMAIN pending :
    /\ pending' = SubSeq(pending, 1, i - 1) \o SubSeq(pending, i + 1, Len(pending))
    /\ UNCHANGED <<heard, delivered>>

Deliver ==
  /\ pending # <<>>
  /\ delivered' = Head(pending)
  /\ pending' = Tail(pending)
  /\ UNCHANGED heard

Next == Hear \/ Lose \/ Deliver

Spec == Init /\ [][Next]_mailboxVars
=============================================================================
