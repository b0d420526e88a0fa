------------------------------ MODULE Nrf24Config ------------------------------
(***************************************************************************)
(* The register file nrf24l01_init programs from the devicetree.  The       *)
(* initialisation is a sequence of register operations, each of which may   *)
(* fail on the bus without the driver noticing.  A reset of the             *)
(* microcontroller may come between any two of them and may start firmware  *)
(* built from another devicetree; the radio keeps its registers.            *)
(* ACTIVATE, the FIFOs, CE and the interrupt are not part of this model.    *)
(***************************************************************************)
EXTENDS Integers, Sequences, FiniteSets, Nrf24Spi

CONSTANTS
  Devicetrees,  \* the radio nodes firmware may be built from
  MaxResets,    \* bound on the resets of the microcontroller
  MaxFaults     \* bound on the register operations that go wrong

ASSUME ConfigAssumption ==
  /\ MaxResets \in Nat /\ MaxFaults \in Nat
  /\ \A d \in Devicetrees :
       /\ d.width \in 3 .. 5 /\ d.channel \in 0 .. 126 /\ d.pipes \in 1 .. 6
       /\ d.atten \in Nat /\ d.size \in Nat
       /\ {d.rate2, d.lna, d.crc, d.crc2, d.ack, d.dyn} \subseteq BOOLEAN
       /\ d.dynPipes \subseteq 0 .. 5

VARIABLES
  dt,      \* the devicetree node of the running firmware
  reg,     \* the radio's registers
  pos,     \* the next register operation of nrf24l01_init
  result,  \* what nrf24l01_init returned, "running" before
  clean,   \* every operation of this initialisation did what it was meant to
  faults, resets   \* how many so far

configVars == <<dt, reg, pos, result, clean, faults, resets>>

AddressRegisters == <<"RX_ADDR_P0", "RX_ADDR_P1", "TX_ADDR",
                      "RX_ADDR_P2", "RX_ADDR_P3", "RX_ADDR_P4", "RX_ADDR_P5">>
WidthRegisters == <<"RX_PW_P0", "RX_PW_P1", "RX_PW_P2", "RX_PW_P3", "RX_PW_P4", "RX_PW_P5">>
SeqRange(s) == {s[i] : i \in DOMAIN s}

(* The named registers have these values, the other widths and addresses the *)
(* same one each.                                                            *)
Settings(named, width, address) ==
  [r \in SeqRange(AddressRegisters) \cup SeqRange(WidthRegisters) \cup DOMAIN named |->
     IF r \in DOMAIN named THEN named[r]
     ELSE IF r \in SeqRange(WidthRegisters) THEN width ELSE address]

(* The values after power-on.                                                *)
ResetValues ==
  Settings([RF_CH |-> 2, SETUP_AW |-> 3, RF_SETUP |-> {"DR", "PWR_HIGH", "PWR_LOW", "LNA"},
            NRF_CONFIG |-> {"EN_CRC"}, EN_RXADDR |-> {0, 1}, EN_AA |-> 0 .. 5,
            SETUP_RETR |-> 3, DYNPD |-> {}, FEATURE |-> {}], 0, "reset")

-----------------------------------------------------------------------------
(* The operations nrf24l01_init makes, in order.                             *)

Write(r, val) == [do |-> "write", reg |-> r, val |-> val]
SetBit(r, bit, val) == [do |-> "bit", reg |-> r, bit |-> bit, val |-> val]
Stop(code) == [do |-> "stop", val |-> code]

SetChannel(d) == <<Write("RF_CH", IF d.channel <= 125 THEN d.channel ELSE 125)>>

PowerBits(atten) ==
  CASE atten = 12 -> {"PWR_LOW"}
    [] atten = 6  -> {"PWR_HIGH"}
    [] atten = 0  -> {"PWR_LOW", "PWR_HIGH"}
    [] OTHER      -> {}

(* Mutated form: the power bits are only ever raised.                        *)
SetConfigRaise(d) ==
  <<Write("SETUP_AW", (d.width - 2) % 4), SetBit("RF_SETUP", "DR", d.rate2)>>
  \o [i \in 1 .. Cardinality(PowerBits(d.atten)) |->
        SetBit("RF_SETUP", IF i = 1 /\ "PWR_LOW" \in PowerBits(d.atten)
                           THEN "PWR_LOW" ELSE "PWR_HIGH", TRUE)]
  \o <<SetBit("RF_SETUP", "LNA", d.lna),
       SetBit("NRF_CONFIG", "EN_CRC", d.crc), SetBit("NRF_CONFIG", "CRCO", d.crc2)>>

SetConfig(d) ==
  <<Write("SETUP_AW", (d.width - 2) % 4), SetBit("RF_SETUP", "DR", d.rate2),
    SetBit("RF_SETUP", "PWR_LOW", "PWR_LOW" \in PowerBits(d.atten)),
    SetBit("RF_SETUP", "PWR_HIGH", "PWR_HIGH" \in PowerBits(d.atten)),
    SetBit("RF_SETUP", "LNA", d.lna),
    SetBit("NRF_CONFIG", "EN_CRC", d.crc), SetBit("NRF_CONFIG", "CRCO", d.crc2),
    SetBit("NRF_CONFIG", "MASK_RX_DR", FALSE), SetBit("NRF_CONFIG", "MASK_TX_DS", FALSE),
    SetBit("NRF_CONFIG", "MASK_MAX_RT", FALSE)>>

(* Any width but 4 is only logged, and the pipes stay as they are.           *)
ConfigurePipes(d) ==
  IF d.width # 4 THEN <<>>
  ELSE [i \in 1 .. 7 |-> Write(AddressRegisters[i], d.addr)]
       \o [i \in 1 .. 6 |-> Write(WidthRegisters[i], d.size)]
       \o [i \in 1 .. d.pipes |-> SetBit("EN_RXADDR", i - 1, TRUE)]

(* Mutated form: the mask of EN_AA is GENMASK(pipes, 0).                     *)
ConfigureAckPast(d) ==
  <<SetBit("FEATURE", "EN_DPL", d.dyn),
    Write("SETUP_RETR", IF d.ack THEN 35 ELSE 0),
    Write("EN_AA", IF d.ack THEN 0 .. d.pipes ELSE {})>>

ConfigureAck(d) ==
  [i \in 1 .. d.pipes |-> SetBit("DYNPD", i - 1, i - 1 \in d.dynPipes)]
  \o <<SetBit("FEATURE", "EN_DPL", d.dyn),
       Write("SETUP_RETR", IF d.ack THEN 35 ELSE 0),
       Write("EN_AA", IF d.ack THEN 0 .. d.pipes - 1 ELSE {})>>

(* What is left is the non-listening mode.                                   *)
NonListening ==
  <<Write("RX_PW_P0", 2), SetBit("NRF_CONFIG", "PRIM_RX", FALSE),
    SetBit("EN_RXADDR", 0, TRUE), SetBit("NRF_CONFIG", "PWR_UP", TRUE)>>

(* test_spi, whose read decides, comes first.                                *)
Program(d) ==
  <<Write("RX_PW_P5", 14), [do |-> "check", reg |-> "RX_PW_P5", val |-> 14],
    Write("RX_PW_P5", 0)>>
  \o SetChannel(d) \o SetConfig(d)
  \o IF d.size > 32 THEN <<Stop("enotsup")>>
     ELSE ConfigurePipes(d) \o ConfigureAck(d)
          \o (IF d.dyn THEN <<Stop("enosys")>> ELSE NonListening)

-----------------------------------------------------------------------------
ConfigInit ==
  /\ dt \in Devicetrees
  /\ reg = ResetValues
  /\ pos = 1 /\ result = "running" /\ clean = TRUE
  /\ faults = 0 /\ resets = 0

Current == Program(dt)[pos]
Running == result = "running" /\ pos <= Len(Program(dt))

(* What the operation leaves on a working bus, and what else it may leave.   *)
Meant(op) ==
  IF op.do = "write" THEN op.val
  ELSE IF op.val THEN reg[op.reg] \cup {op.bit} ELSE reg[op.reg] \ {op.bit}
Outcomes(op) ==
  IF op.do = "write" THEN Transceive(reg[op.reg], op.val)
  ELSE SetRegisterBit(reg[op.reg], op.bit, op.val)

Operate ==
  /\ Running /\ Current.do \in {"write", "bit"}
  /\ \E val \in Outcomes(Current) :
       /\ reg' = [reg EXCEPT ![Current.reg] = val]
       /\ IF val = Meant(Current) THEN UNCHANGED <<clean, faults>>
          ELSE clean' = FALSE /\ faults < MaxFaults /\ faults' = faults + 1
  /\ pos' = pos + 1
  /\ UNCHANGED <<dt, result, resets>>

(* test_spi reads back what it wrote; a failed read gives 0.                 *)
Check ==
  /\ Running /\ Current.do = "check"
  /\ \/ /\ reg[Current.reg] = Current.val
        /\ result' = result
        /\ UNCHANGED <<clean, faults>>
     \/ /\ reg[Current.reg] # Current.val \/ (SpiFaults /\ faults < MaxFaults)
        /\ result' = "eio"
        /\ clean' = FALSE
        /\ faults' = IF reg[Current.reg] # Current.val THEN faults ELSE faults + 1
  /\ pos' = pos + 1
  /\ UNCHANGED <<dt, reg, resets>>

Return ==
  /\ result = "running"
  /\ result' = IF Running THEN Current.val ELSE "ok"
  /\ Running => Current.do = "stop"
  /\ UNCHANGED <<dt, reg, pos, clean, faults, resets>>

Reset ==
  /\ resets < MaxResets
  /\ resets' = resets + 1
  /\ dt' \in Devicetrees
  /\ pos' = 1 /\ result' = "running" /\ clean' = TRUE
  /\ UNCHANGED <<reg, faults>>

ConfigNext == Operate \/ Check \/ Return \/ Reset

ConfigSpec == ConfigInit /\ [][ConfigNext]_configVars

-----------------------------------------------------------------------------
(* Properties                                                                *)

(* The register values the devicetree node asks for, from its binding.       *)
Level(d) == (18 - d.atten) \div 6

Wanted(d) ==
  Settings([RX_PW_P0 |-> 2, RF_CH |-> d.channel, SETUP_AW |-> d.width - 2,
            RF_SETUP |-> {b \in {"DR", "LNA", "PWR_LOW", "PWR_HIGH"} :
                            \/ b = "DR" /\ d.rate2
                            \/ b = "LNA" /\ d.lna
                            \/ b = "PWR_LOW" /\ Level(d) % 2 = 1
                            \/ b = "PWR_HIGH" /\ Level(d) \div 2 = 1},
            NRF_CONFIG |-> {b \in {"PWR_UP", "EN_CRC", "CRCO"} :
                              \/ b = "PWR_UP"
                              \/ b = "EN_CRC" /\ d.crc
                              \/ b = "CRCO" /\ d.crc2}], d.size, d.addr)

(* An initialisation that returns 0 and in which no operation failed on the  *)
(* bus leaves exactly the settings of its devicetree, whatever an earlier    *)
(* one that failed, was interrupted or belonged to other firmware left       *)
(* behind.  The 0 alone says nothing: SPI errors are not noticed.            *)
SettingsRestored ==
  result = "ok" /\ clean =>
    \A r \in DOMAIN Wanted(dt) : reg[r] = Wanted(dt)[r]

(* After such an initialisation acknowledgements are sent and awaited only   *)
(* where the devicetree says so, and every configured pipe listens.  Pipes   *)
(* an earlier firmware enabled may listen as well.                           *)
PipesServed ==
  result = "ok" /\ clean =>
    /\ 0 .. dt.pipes - 1 \subseteq reg["EN_RXADDR"]
    /\ reg["EN_AA"] = (IF dt.ack THEN 0 .. dt.pipes - 1 ELSE {})
    /\ reg["SETUP_RETR"] = 0 <=> ~dt.ack
=============================================================================
