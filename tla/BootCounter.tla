------------------------------ MODULE BootCounter ------------------------------
(***************************************************************************)
(* The AT24C02 sample: a magic number and a boot counter kept in EEPROM,    *)
(* read, counted up and written back at every boot.  The board may be reset *)
(* or lose power at any point.  A write cut short that way, or reported as  *)
(* failed, leaves any mixture of the old and the new bytes: all old, all    *)
(* new or some of each.  The 32-bit counter is two digits of base Base, so  *)
(* that a carry and the wrap-around both occur.                             *)
(***************************************************************************)
EXTENDS Integers

CONSTANTS
  Base,       \* values of one digit of the counter
  MaxBoots,   \* bound on the boots
  BusFaults   \* TRUE: the EEPROM driver may report an error

ASSUME CounterAssumption ==
  /\ Base \in Nat /\ Base > 1 /\ MaxBoots \in Nat
  /\ BusFaults \in BOOLEAN

VARIABLES
  eeprom,    \* the magic number, present or not, and the two digits
  values,    \* the variable of main
  pc,        \* where main is; "halt" when it returned early
  printed,   \* the last "Device booted" number, -1 before the first
  told,      \* the number printed by the last boot that saw its write succeed,
             \* -1 before the first and once a write has left a mixture
  boots,     \* boots so far (history)
  counted,   \* writes that reported success (history)
  doubted,   \* writes cut short or reported as failed (history)
  since,     \* those of them since told was set (history)
  torn       \* a write has left a mixture (history)

counterHistory == <<told, counted, doubted, since, torn>>
counterVars == <<eeprom, values, pc, printed, boots, counterHistory>>

Digit == 0 .. Base - 1
Record == [magic : BOOLEAN, hi : Digit, lo : Digit]
Count(r) == r.hi * Base + r.lo
Encode(n) == [magic |-> TRUE, hi |-> n \div Base, lo |-> n % Base]

(* A new EEPROM holds anything but the magic number.                         *)
CounterInit ==
  /\ eeprom \in [magic : {FALSE}, hi : Digit, lo : Digit]
  /\ values = Encode(0)
  /\ pc = "boot" /\ printed = -1 /\ told = -1
  /\ boots = 1 /\ counted = 0 /\ doubted = 0 /\ since = 0 /\ torn = FALSE

(* The device is not ready or cannot be read: main returns.                  *)
Fails ==
  /\ BusFaults
  /\ pc = "boot"
  /\ pc' = "halt"
  /\ UNCHANGED <<eeprom, values, printed, boots, counterHistory>>

(* Mutated form: the counter is not cleared when the magic number is new.    *)
StoredGarbage(r) == Count(r)

(* What the counter read is taken for.                                       *)
Stored(r) == IF r.magic THEN Count(r) ELSE 0

Increment(n) == (n + 1) % (Base * Base)

ReadAndCount ==
  /\ pc = "boot"
  /\ values' = Encode(Increment(Stored(eeprom)))
  /\ printed' = Count(values')
  /\ pc' = "write"
  /\ UNCHANGED <<eeprom, boots, counterHistory>>

(* The write reports success: this boot has been told the number stored.     *)
Written ==
  /\ told' = printed /\ since' = 0
  /\ counted' = counted + 1
  /\ UNCHANGED <<doubted, torn>>

(* Mutated form: only the magic number is written back.                      *)
WriteMagicOnly ==
  /\ pc = "write" /\ pc' = "done"
  /\ eeprom' = [eeprom EXCEPT !.magic = TRUE]
  /\ Written
  /\ UNCHANGED <<values, printed, boots>>

EepromWrite ==
  /\ pc = "write" /\ pc' = "done"
  /\ eeprom' = values
  /\ Written
  /\ UNCHANGED <<values, printed, boots>>

(* Any byte may be old or new.                                               *)
Torn == {[magic |-> m, hi |-> h, lo |-> l] :
           m \in {eeprom.magic, values.magic}, h \in {eeprom.hi, values.hi},
           l \in {eeprom.lo, values.lo}}

(* The write is not known to have taken effect, wholly, in part or at all.   *)
Interrupted ==
  /\ eeprom' \in Torn
  /\ doubted' = doubted + 1
  /\ IF eeprom' \in {eeprom, values}
     THEN since' = since + 1 /\ UNCHANGED <<told, torn>>
     ELSE told' = -1 /\ since' = 0 /\ torn' = TRUE
  /\ UNCHANGED counted

(* An error can be reported before, while or after the bytes are programmed. *)
EepromError ==
  /\ BusFaults
  /\ pc = "write" /\ pc' = "halt"
  /\ Interrupted
  /\ UNCHANGED <<values, printed, boots>>

Reset ==
  /\ boots < MaxBoots /\ boots' = boots + 1
  /\ pc' = "boot"
  /\ IF pc = "write" THEN Interrupted ELSE UNCHANGED <<eeprom, counterHistory>>
  /\ UNCHANGED <<values, printed>>

CounterNext == Fails \/ ReadAndCount \/ EepromWrite \/ EepromError \/ Reset

CounterSpec == CounterInit /\ [][CounterNext]_counterVars

-----------------------------------------------------------------------------
(* Properties                                                                *)

CounterTypeOK ==
  /\ eeprom \in Record /\ values \in Record
  /\ pc \in {"boot", "write", "done", "halt"}
  /\ {printed, told} \subseteq -1 .. Base * Base - 1
  /\ boots \in 1 .. MaxBoots /\ torn \in BOOLEAN
  /\ counted + doubted \in 0 .. boots /\ since \in 0 .. doubted

(* The counter a record stands for is one of a .. b, modulo its width.       *)
Stands(r, a, b) ==
  \E k \in a .. b : (IF r.magic THEN Count(r) ELSE 0) = k % (Base * Base)

(* "Reset the MCU to see the increasing boot counter." (main.c:63): after a  *)
(* boot that printed this, the next number printed is one more, modulo the   *)
(* counter's width.  A later write that was cut short or failed may have     *)
(* counted a boot nobody was told about, each of them one at most; after one *)
(* that left a mixture nothing is promised until the next success.           *)
Increasing ==
  [][pc = "boot" /\ pc' = "write" /\ told # -1
       => \E k \in told + 1 .. told + 1 + since :
            printed' = k % (Base * Base)]_counterVars

(* Until a write leaves a mixture, no write is counted twice and none that   *)
(* reported success is lost: the stored counter is the number of these, and  *)
(* of at most as many more as were cut short or failed.                      *)
CountsEveryBoot == ~torn => Stands(eeprom, counted, counted + doubted)
=============================================================================
