------------------------------- MODULE Nrf24Spi -------------------------------
(***************************************************************************)
(* The driver's register helpers.  One SPI transaction is one atomic        *)
(* exchange: spi_transceive_dt holds the bus lock for its duration.  A      *)
(* failed transaction leaves the chip as it was; the read helpers then      *)
(* return 0, which for a register of bits is the empty set.  Each operator  *)
(* gives the values the register may have afterwards.                       *)
(***************************************************************************)
CONSTANT SpiFaults    \* TRUE: an SPI transaction may fail
ASSUME SpiAssumption == SpiFaults \in BOOLEAN

(* A transaction meant to change old into new; on an SPI error nothing moves. *)
Transceive(old, new) == {new} \cup (IF SpiFaults THEN {old} ELSE {})

(* What read_register may return: the register, or 0 when the bus failed.    *)
ReadRegister(reg) == {reg} \cup (IF SpiFaults THEN {{}} ELSE {})

(* Mutated form: a bit is raised but never lowered.                          *)
RaiseRegisterBit(reg, bit, val) ==
  UNION { IF val /\ bit \notin read THEN Transceive(reg, read \cup {bit}) ELSE {reg}
          : read \in ReadRegister(reg) }

(* Read, change one bit, write back unless the value read already had it.    *)
SetRegisterBit(reg, bit, val) ==
  UNION { LET new == IF val THEN read \cup {bit} ELSE read \ {bit}
          IN  IF new = read THEN {reg} ELSE Transceive(reg, new)
          : read \in ReadRegister(reg) }
=============================================================================
