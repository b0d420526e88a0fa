--------------------------- MODULE Nrf24ConfigProofs ---------------------------
(***************************************************************************)
(* What a faultless initialisation leaves in the radio's registers.  The    *)
(* radio keeps its registers over a reset of the microcontroller, so that   *)
(* nothing is known of a register that no operation writes; the argument    *)
(* follows, for each register or bit, the last operation on it.             *)
(***************************************************************************)
EXTENDS Nrf24Config, SequenceTheorems, TLAPS

AddressNames == {"RX_ADDR_P0", "RX_ADDR_P1", "TX_ADDR",
                 "RX_ADDR_P2", "RX_ADDR_P3", "RX_ADDR_P4", "RX_ADDR_P5"}
WidthNames == {"RX_PW_P0", "RX_PW_P1", "RX_PW_P2", "RX_PW_P3", "RX_PW_P4", "RX_PW_P5"}
Written == AddressNames \cup WidthNames \cup {"RF_CH", "SETUP_AW", "EN_AA", "SETUP_RETR"}
Registers == Written \cup {"RF_SETUP", "NRF_CONFIG", "EN_RXADDR", "DYNPD", "FEATURE"}

RfBits == {"DR", "PWR_HIGH", "PWR_LOW", "LNA"}
NrfBits == {"EN_CRC", "CRCO", "PWR_UP", "PRIM_RX", "MASK_RX_DR", "MASK_TX_DS", "MASK_MAX_RT"}

NumbersOrPipes == Nat \cup SUBSET (0 .. 5)
Values(d) == {d.addr} \cup NumbersOrPipes

(* The operations of an initialisation: whole registers are written with a   *)
(* value, the others changed bit by bit.                                     *)
Ops(d) ==
  [do : {"write", "check"}, reg : Written, val : Values(d)]
  \cup [do : {"bit"}, reg : {"RF_SETUP"}, bit : RfBits, val : BOOLEAN]
  \cup [do : {"bit"}, reg : {"NRF_CONFIG"}, bit : NrfBits, val : BOOLEAN]
  \cup [do : {"bit"}, reg : {"EN_RXADDR", "DYNPD"}, bit : 0 .. 5, val : BOOLEAN]
  \cup [do : {"bit"}, reg : {"FEATURE"}, bit : {"EN_DPL"}, val : BOOLEAN]
  \cup [do : {"stop"}, val : {"enotsup", "enosys"}]

TestSpi ==
  <<Write("RX_PW_P5", 14), [do |-> "check", reg |-> "RX_PW_P5", val |-> 14],
    Write("RX_PW_P5", 0)>>

(* Operations in a row make a sequence.                                      *)
LEMMA Some ==
  ASSUME NEW S, NEW a \in S, NEW b \in S, NEW c \in S, NEW d \in S
  PROVE  <<a, b, c>> \in Seq(S) /\ <<a, b, c, d>> \in Seq(S)
  OBVIOUS

(* So do ten of them.                                                        *)
LEMMA Ten ==
  ASSUME NEW S, NEW a \in S, NEW b \in S, NEW c \in S, NEW d \in S, NEW e \in S,
         NEW f \in S, NEW g \in S, NEW h \in S, NEW i \in S, NEW j \in S
  PROVE  <<a, b, c, d, e, f, g, h, i, j>> \in Seq(S)
  OBVIOUS

(* So does a function on the first numbers.                                  *)
LEMMA Row ==
  ASSUME NEW S, NEW n \in Nat, NEW f \in [1 .. n -> S]
  PROVE  f \in Seq(S)
  OBVIOUS

(* A sequence that one operation follows ends with it.                       *)
LEMMA LastOf ==
  ASSUME NEW S, NEW s \in Seq(S), NEW t \in Seq(S), Len(t) = 1
  PROVE  /\ Len(s \o t) # 0
         /\ (s \o t)[Len(s \o t)] = t[1]
<1>1. Len(s) \in Nat
  OBVIOUS
<1> DEFINE st == s \o t
<1>2. /\ Len(st) = Len(s) + Len(t)
      /\ \A i \in 1 .. Len(s) + Len(t) :
            st[i] = IF i <= Len(s) THEN s[i] ELSE t[i - Len(s)]
  BY ConcatProperties, Zenon
<1> HIDE DEF st
<1>3. Len(st) = Len(s) + 1 /\ st[Len(s) + 1] = t[1]
  BY <1>1, <1>2
<1>4. Len(st) # 0
  BY <1>1, <1>3
<1> QED
  BY <1>3, <1>4, Zenon DEF st

(* A whole register may be written.                                          *)
LEMMA WriteOps ==
  ASSUME NEW d, NEW r \in Written, NEW v \in Values(d)
  PROVE  Write(r, v) \in Ops(d)
<1>1. Write(r, v) \in [do : {"write", "check"}, reg : Written, val : Values(d)]
  BY Zenon DEF Write
<1> QED
  BY <1>1, Zenon DEF Ops

(* The address is one of the values.                                         *)
LEMMA AddressOps == ASSUME NEW d, NEW r \in Written PROVE Write(r, d.addr) \in Ops(d)
<1>1. d.addr \in Values(d)
  BY DEF Values
<1> QED
  BY <1>1, WriteOps, Zenon

(* The bits of the pipes may be changed one by one.                          *)
LEMMA BitOps ==
  ASSUME NEW d, NEW r \in {"EN_RXADDR", "DYNPD"}, NEW bit \in 0 .. 5, NEW x \in BOOLEAN
  PROVE  SetBit(r, bit, x) \in Ops(d)
  BY DEF SetBit, Ops

(* Each part of an initialisation consists of operations.  First the test    *)
(* of the bus.                                                               *)
LEMMA TestOps == ASSUME NEW d PROVE TestSpi \in Seq(Ops(d))
  BY DEF TestSpi, Write, Ops, Written, WidthNames, Values, NumbersOrPipes

(* The channel.                                                              *)
LEMMA ChannelOps == ASSUME NEW d \in Devicetrees PROVE SetChannel(d) \in Seq(Ops(d))
  BY ConfigAssumption DEF ConfigAssumption, SetChannel, Write, Ops, Written, Values, NumbersOrPipes

(* The settings of the transceiver.                                          *)
LEMMA ConfigOps == ASSUME NEW d \in Devicetrees PROVE SetConfig(d) \in Seq(Ops(d))
<1>1. /\ d.rate2 \in BOOLEAN /\ d.lna \in BOOLEAN /\ d.crc \in BOOLEAN /\ d.crc2 \in BOOLEAN
      /\ (d.width - 2) % 4 \in Nat
  BY ConfigAssumption DEF ConfigAssumption
<1>2. Write("SETUP_AW", (d.width - 2) % 4) \in Ops(d)
  BY <1>1 DEF Write, Ops, Written, Values, NumbersOrPipes
<1>3. ASSUME NEW b \in RfBits, NEW x \in BOOLEAN
      PROVE  SetBit("RF_SETUP", b, x) \in Ops(d)
  BY DEF SetBit, Ops
<1>4. ASSUME NEW b \in NrfBits, NEW x \in BOOLEAN
      PROVE  SetBit("NRF_CONFIG", b, x) \in Ops(d)
  BY DEF SetBit, Ops
<1> DEFINE low == "PWR_LOW" \in PowerBits(d.atten)
           high == "PWR_HIGH" \in PowerBits(d.atten)
<1>5. low \in BOOLEAN /\ high \in BOOLEAN
  OBVIOUS
<1> HIDE DEF low, high
<1>6. /\ SetBit("RF_SETUP", "DR", d.rate2) \in Ops(d)
      /\ SetBit("RF_SETUP", "PWR_LOW", low) \in Ops(d)
      /\ SetBit("RF_SETUP", "PWR_HIGH", high) \in Ops(d)
      /\ SetBit("RF_SETUP", "LNA", d.lna) \in Ops(d)
  BY <1>1, <1>3, <1>5 DEF RfBits
<1>7. /\ SetBit("NRF_CONFIG", "EN_CRC", d.crc) \in Ops(d)
      /\ SetBit("NRF_CONFIG", "CRCO", d.crc2) \in Ops(d)
      /\ SetBit("NRF_CONFIG", "MASK_RX_DR", FALSE) \in Ops(d)
      /\ SetBit("NRF_CONFIG", "MASK_TX_DS", FALSE) \in Ops(d)
      /\ SetBit("NRF_CONFIG", "MASK_MAX_RT", FALSE) \in Ops(d)
  BY <1>1, <1>4 DEF NrfBits
<1>8. <<Write("SETUP_AW", (d.width - 2) % 4), SetBit("RF_SETUP", "DR", d.rate2),
        SetBit("RF_SETUP", "PWR_LOW", low), SetBit("RF_SETUP", "PWR_HIGH", high),
        SetBit("RF_SETUP", "LNA", d.lna),
        SetBit("NRF_CONFIG", "EN_CRC", d.crc), SetBit("NRF_CONFIG", "CRCO", d.crc2),
        SetBit("NRF_CONFIG", "MASK_RX_DR", FALSE), SetBit("NRF_CONFIG", "MASK_TX_DS", FALSE),
        SetBit("NRF_CONFIG", "MASK_MAX_RT", FALSE)>> \in Seq(Ops(d))
  BY <1>2, <1>6, <1>7, Ten, Zenon
<1> QED
  BY <1>8, Zenon DEF SetConfig, low, high

(* The addresses, the payload sizes and the pipes.                           *)
LEMMA PipesOps == ASSUME NEW d \in Devicetrees PROVE ConfigurePipes(d) \in Seq(Ops(d))
<1>1. d.size \in Nat /\ d.pipes \in 1 .. 6
  BY ConfigAssumption DEF ConfigAssumption
<1>2. [i \in 1 .. 7 |-> Write(AddressRegisters[i], d.addr)] \in Seq(Ops(d))
  <2>1. ASSUME NEW i \in 1 .. 7
        PROVE  Write(AddressRegisters[i], d.addr) \in Ops(d)
    <3>1. AddressRegisters[i] \in AddressNames
      BY DEF AddressRegisters, AddressNames
    <3> QED
      BY <3>1, AddressOps, Zenon DEF Written
  <2>2. [i \in 1 .. 7 |-> Write(AddressRegisters[i], d.addr)] \in [1 .. 7 -> Ops(d)]
    BY <2>1, Zenon
  <2> QED
    BY <2>2, Row
<1>3. [i \in 1 .. 6 |-> Write(WidthRegisters[i], d.size)] \in Seq(Ops(d))
  <2>1. ASSUME NEW i \in 1 .. 6
        PROVE  Write(WidthRegisters[i], d.size) \in Ops(d)
    <3>1. WidthRegisters[i] \in WidthNames
      BY DEF WidthRegisters, WidthNames
    <3>2. WidthRegisters[i] \in Written /\ d.size \in Values(d)
      BY <1>1, <3>1, Zenon DEF Written, Values, NumbersOrPipes
    <3> QED
      BY <3>2, WriteOps, Zenon
  <2>2. [i \in 1 .. 6 |-> Write(WidthRegisters[i], d.size)] \in [1 .. 6 -> Ops(d)]
    BY <2>1, Zenon
  <2> QED
    BY <2>2, Row
<1>4. [i \in 1 .. d.pipes |-> SetBit("EN_RXADDR", i - 1, TRUE)] \in Seq(Ops(d))
  <2>1. ASSUME NEW i \in 1 .. d.pipes
        PROVE  SetBit("EN_RXADDR", i - 1, TRUE) \in Ops(d)
    <3>1. i - 1 \in 0 .. 5
      BY <1>1
    <3> QED
      BY <3>1, BitOps, Zenon
  <2>2. d.pipes \in Nat
    BY <1>1
  <2>3. [i \in 1 .. d.pipes |-> SetBit("EN_RXADDR", i - 1, TRUE)] \in [1 .. d.pipes -> Ops(d)]
    BY <2>1, Zenon
  <2> QED
    BY <2>2, <2>3, Row, Zenon
<1> QED
  BY <1>2, <1>3, <1>4, ConcatProperties, EmptySeq DEF ConfigurePipes

(* Acknowledgements and dynamic payload lengths.                             *)
LEMMA AckOps == ASSUME NEW d \in Devicetrees PROVE ConfigureAck(d) \in Seq(Ops(d))
<1>1. d.pipes \in 1 .. 6 /\ d.dyn \in BOOLEAN
  BY ConfigAssumption DEF ConfigAssumption
<1>2. [i \in 1 .. d.pipes |-> SetBit("DYNPD", i - 1, i - 1 \in d.dynPipes)] \in Seq(Ops(d))
  <2>1. ASSUME NEW i \in 1 .. d.pipes
        PROVE  SetBit("DYNPD", i - 1, i - 1 \in d.dynPipes) \in Ops(d)
    <3>1. i - 1 \in 0 .. 5
      BY <1>1
    <3> DEFINE on == i - 1 \in d.dynPipes
    <3>2. on \in BOOLEAN
      OBVIOUS
    <3> HIDE DEF on
    <3>3. SetBit("DYNPD", i - 1, on) \in Ops(d)
      BY <3>1, <3>2, BitOps, Zenon
    <3> QED
      BY <3>3, Zenon DEF on
  <2>2. d.pipes \in Nat
    BY <1>1
  <2>3. [i \in 1 .. d.pipes |-> SetBit("DYNPD", i - 1, i - 1 \in d.dynPipes)]
          \in [1 .. d.pipes -> Ops(d)]
    BY <2>1, Zenon
  <2> QED
    BY <2>2, <2>3, Row, Zenon
<1>3. Write("SETUP_RETR", IF d.ack THEN 35 ELSE 0) \in Ops(d)
  BY DEF Write, Ops, Written, Values, NumbersOrPipes
<1>4. Write("EN_AA", IF d.ack THEN 0 .. d.pipes - 1 ELSE {}) \in Ops(d)
  <2>1. (IF d.ack THEN 0 .. d.pipes - 1 ELSE {}) \in SUBSET (0 .. 5)
    BY <1>1
  <2> QED
    BY <2>1 DEF Write, Ops, Written, Values, NumbersOrPipes
<1>5. SetBit("FEATURE", "EN_DPL", d.dyn) \in Ops(d)
  BY <1>1 DEF SetBit, Ops
<1>6. <<SetBit("FEATURE", "EN_DPL", d.dyn), Write("SETUP_RETR", IF d.ack THEN 35 ELSE 0),
        Write("EN_AA", IF d.ack THEN 0 .. d.pipes - 1 ELSE {})>> \in Seq(Ops(d))
  BY <1>3, <1>4, <1>5, Some, Zenon
<1> QED
  BY <1>2, <1>6, ConcatProperties, Zenon DEF ConfigureAck

(* The non-listening mode.                                                   *)
LEMMA EndOps == ASSUME NEW d PROVE NonListening \in Seq(Ops(d))
<1>1. /\ Write("RX_PW_P0", 2) \in Ops(d)
      /\ SetBit("NRF_CONFIG", "PRIM_RX", FALSE) \in Ops(d)
      /\ SetBit("EN_RXADDR", 0, TRUE) \in Ops(d)
      /\ SetBit("NRF_CONFIG", "PWR_UP", TRUE) \in Ops(d)
  BY DEF Write, SetBit, Ops, Written, WidthNames, NrfBits, Values, NumbersOrPipes
<1> QED
  BY <1>1, Some, Zenon DEF NonListening

(* An initialisation that goes through is these six parts in a row.          *)
Complete(d) ==
  TestSpi \o SetChannel(d) \o SetConfig(d) \o (ConfigurePipes(d) \o ConfigureAck(d) \o NonListening)

(* So is the whole, up to the error that stops it.                           *)
LEMMA ProgramOps ==
  ASSUME NEW d \in Devicetrees
  PROVE  /\ Program(d) \in Seq(Ops(d))
         /\ d.size <= 32 /\ ~d.dyn => Program(d) = Complete(d)
         /\ d.size > 32 \/ d.dyn =>
              Len(Program(d)) # 0 /\ Program(d)[Len(Program(d))].do = "stop"
<1> DEFINE head == TestSpi \o SetChannel(d) \o SetConfig(d)
           stop(code) == <<Stop(code)>>
           tail == ConfigurePipes(d) \o ConfigureAck(d)
           rest == IF d.size > 32 THEN stop("enotsup")
                   ELSE tail \o (IF d.dyn THEN stop("enosys") ELSE NonListening)
<1>1. d.size \in Nat
  BY ConfigAssumption DEF ConfigAssumption
<1>2. head \in Seq(Ops(d)) /\ tail \in Seq(Ops(d))
  BY TestOps, ChannelOps, ConfigOps, PipesOps, AckOps, ConcatProperties, Zenon
<1>3. ASSUME NEW code \in {"enotsup", "enosys"}
      PROVE  stop(code) \in Seq(Ops(d)) /\ Len(stop(code)) = 1 /\ stop(code)[1].do = "stop"
  BY DEF Stop, Ops
<1>4. Program(d) = head \o rest
  BY DEF Program, TestSpi
<1>5. NonListening \in Seq(Ops(d))
  BY EndOps
<1>6. ASSUME d.size <= 32, ~d.dyn
      PROVE  Program(d) = Complete(d)
  <2>1. ~(d.size > 32)
    BY <1>1, <1>6
  <2> QED
    BY <1>4, <1>6, <2>1, Zenon DEF Complete
<1> HIDE DEF head, stop, tail
<1>7. rest \in Seq(Ops(d))
  <2>1. stop("enotsup") \in Seq(Ops(d)) /\ stop("enosys") \in Seq(Ops(d))
    BY <1>3
  <2>2. tail \o stop("enosys") \in Seq(Ops(d)) /\ tail \o NonListening \in Seq(Ops(d))
    BY <1>2, <1>5, <2>1, ConcatProperties, Zenon
  <2> QED
    BY <2>1, <2>2, Zenon
<1>8. d.size > 32 \/ d.dyn => Len(rest) # 0 /\ rest[Len(rest)].do = "stop"
  <2>1. CASE d.size > 32
    BY <1>3, <2>1
  <2>2. CASE ~(d.size > 32) /\ d.dyn
    <3>1. rest = tail \o stop("enosys")
      BY <2>2, Zenon
    <3>2. stop("enosys") \in Seq(Ops(d))
          /\ Len(stop("enosys")) = 1 /\ stop("enosys")[1].do = "stop"
      <4>1. "enosys" \in {"enotsup", "enosys"}
        OBVIOUS
      <4> QED
        BY <1>3, <4>1, Zenon
    <3> HIDE DEF rest
    <3> QED
      BY <1>2, <3>1, <3>2, LastOf, Zenon
  <2> QED
    BY <2>1, <2>2
<1> HIDE DEF rest
<1>9. /\ Program(d) \in Seq(Ops(d))
      /\ Len(rest) # 0 => Len(Program(d)) # 0 /\ Program(d)[Len(Program(d))] = rest[Len(rest)]
  BY <1>2, <1>4, <1>7, ConcatProperties, LenProperties
<1> QED
  BY <1>6, <1>8, <1>9
-----------------------------------------------------------------------------
(* The last operation on a register or a bit                                 *)

Changes(op) == op.do \in {"write", "bit"}

Undoes(later, op) ==
  /\ Changes(later) /\ later.reg = op.reg
  /\ later.do = "bit" /\ op.do = "bit" => later.bit = op.bit

Spares(s, op) == \A i \in 1 .. Len(s) : ~Undoes(s[i], op)

LastIn(s, op) ==
  \E i \in 1 .. Len(s) : s[i] = op /\ \A j \in i + 1 .. Len(s) : ~Undoes(s[j], op)

(* The registers that changes may fall on.                                   *)
On(s, regs) == \A i \in 1 .. Len(s) : Changes(s[i]) => s[i].reg \in regs

(* What two parts spare, they spare together.                                *)
LEMMA SparesBoth ==
  ASSUME NEW S, NEW s \in Seq(S), NEW t \in Seq(S), NEW op, Spares(s, op), Spares(t, op)
  PROVE  Spares(s \o t, op)
<1> DEFINE st == s \o t
<1>1. /\ Len(st) = Len(s) + Len(t)
      /\ \A i \in 1 .. Len(s) + Len(t) :
            st[i] = IF i <= Len(s) THEN s[i] ELSE t[i - Len(s)]
  BY ConcatProperties, Zenon
<1>2. Len(s) \in Nat /\ Len(t) \in Nat
  OBVIOUS
<1> HIDE DEF st
<1>3. ASSUME NEW i \in 1 .. Len(st) PROVE ~Undoes(st[i], op)
  <2>1. CASE i <= Len(s)
    <3>1. i \in 1 .. Len(s) /\ st[i] = s[i]
      BY <1>1, <1>2, <2>1
    <3> QED
      BY <3>1, Zenon DEF Spares
  <2>2. CASE ~(i <= Len(s))
    <3>1. i - Len(s) \in 1 .. Len(t) /\ st[i] = t[i - Len(s)]
      BY <1>1, <1>2, <2>2
    <3> QED
      BY <3>1, Zenon DEF Spares
  <2> QED
    BY <2>1, <2>2
<1> QED
  BY <1>3, Zenon DEF Spares, st

(* The last operation of a part is the last of the whole when what follows   *)
(* spares it.                                                                *)
LEMMA LastLeft ==
  ASSUME NEW S, NEW s \in Seq(S), NEW t \in Seq(S), NEW op, LastIn(s, op), Spares(t, op)
  PROVE  LastIn(s \o t, op)
<1> DEFINE st == s \o t
<1>1. /\ Len(st) = Len(s) + Len(t)
      /\ \A i \in 1 .. Len(s) + Len(t) :
            st[i] = IF i <= Len(s) THEN s[i] ELSE t[i - Len(s)]
  BY ConcatProperties, Zenon
<1>2. Len(s) \in Nat /\ Len(t) \in Nat
  OBVIOUS
<1> HIDE DEF st
<1>3. PICK i \in 1 .. Len(s) : s[i] = op /\ \A j \in i + 1 .. Len(s) : ~Undoes(s[j], op)
  BY Zenon DEF LastIn
<1>4. i \in 1 .. Len(st) /\ st[i] = op
  BY <1>1, <1>2, <1>3
<1>5. ASSUME NEW j \in i + 1 .. Len(st) PROVE ~Undoes(st[j], op)
  <2>1. CASE j <= Len(s)
    <3>1. j \in i + 1 .. Len(s) /\ st[j] = s[j]
      BY <1>1, <1>2, <1>3, <2>1
    <3> QED
      BY <1>3, <3>1, Zenon
  <2>2. CASE ~(j <= Len(s))
    <3>1. j - Len(s) \in 1 .. Len(t) /\ st[j] = t[j - Len(s)]
      BY <1>1, <1>2, <2>2
    <3> QED
      BY <3>1, Zenon DEF Spares
  <2> QED
    BY <2>1, <2>2
<1> QED
  BY <1>4, <1>5, Zenon DEF LastIn, st

(* The last operation of the second part is the last of the whole.           *)
LEMMA LastRight ==
  ASSUME NEW S, NEW s \in Seq(S), NEW t \in Seq(S), NEW op, LastIn(t, op)
  PROVE  LastIn(s \o t, op)
<1> DEFINE st == s \o t
<1>1. /\ Len(st) = Len(s) + Len(t)
      /\ \A i \in 1 .. Len(s) + Len(t) :
            st[i] = IF i <= Len(s) THEN s[i] ELSE t[i - Len(s)]
  BY ConcatProperties, Zenon
<1>2. Len(s) \in Nat /\ Len(t) \in Nat
  OBVIOUS
<1> HIDE DEF st
<1>3. PICK i \in 1 .. Len(t) : t[i] = op /\ \A j \in i + 1 .. Len(t) : ~Undoes(t[j], op)
  BY Zenon DEF LastIn
<1> DEFINE k == i + Len(s)
<1>4. k \in 1 .. Len(st) /\ st[k] = op
  <2>1. k \in 1 .. Len(s) + Len(t) /\ ~(k <= Len(s)) /\ k - Len(s) = i
    BY <1>2
  <2> QED
    BY <1>1, <1>3, <2>1, Zenon
<1>5. ASSUME NEW j \in k + 1 .. Len(st) PROVE ~Undoes(st[j], op)
  <2>1. j - Len(s) \in i + 1 .. Len(t) /\ st[j] = t[j - Len(s)]
    BY <1>1, <1>2
  <2> QED
    BY <1>3, <2>1, Zenon
<1> QED
  <2> HIDE DEF k
  <2> QED
    BY <1>4, <1>5, Zenon DEF LastIn, st

(* What two parts change, they change together.                              *)
LEMMA OnBoth ==
  ASSUME NEW S, NEW s \in Seq(S), NEW t \in Seq(S), NEW regs, On(s, regs), On(t, regs)
  PROVE  On(s \o t, regs)
<1> DEFINE st == s \o t
<1>1. /\ Len(st) = Len(s) + Len(t)
      /\ \A i \in 1 .. Len(s) + Len(t) :
            st[i] = IF i <= Len(s) THEN s[i] ELSE t[i - Len(s)]
  BY ConcatProperties, Zenon
<1>2. Len(s) \in Nat /\ Len(t) \in Nat
  OBVIOUS
<1> HIDE DEF st
<1>3. ASSUME NEW i \in 1 .. Len(st), Changes(st[i]) PROVE st[i].reg \in regs
  <2>1. CASE i <= Len(s)
    <3>1. i \in 1 .. Len(s) /\ st[i] = s[i]
      BY <1>1, <1>2, <2>1
    <3> QED
      BY <1>3, <3>1, Zenon DEF On
  <2>2. CASE ~(i <= Len(s))
    <3>1. i - Len(s) \in 1 .. Len(t) /\ st[i] = t[i - Len(s)]
      BY <1>1, <1>2, <2>2
    <3> QED
      BY <1>3, <3>1, Zenon DEF On
  <2> QED
    BY <2>1, <2>2
<1> QED
  BY <1>3, Zenon DEF On, st

(* Changes of other registers spare an operation.                            *)
LEMMA SparesOthers ==
  ASSUME NEW s, NEW regs, NEW op, On(s, regs), op.reg \notin regs
  PROVE  Spares(s, op)
  BY Zenon DEF On, Spares, Undoes

-----------------------------------------------------------------------------
(* What each part of an initialisation changes, and leaves changed           *)

(* The settings of the transceiver: ten changes, none of which undoes        *)
(* another.                                                                  *)
LEMMA ConfigLast ==
  ASSUME NEW d \in Devicetrees
  PROVE  /\ On(SetConfig(d), {"SETUP_AW", "RF_SETUP", "NRF_CONFIG"})
         /\ LastIn(SetConfig(d), Write("SETUP_AW", (d.width - 2) % 4))
         /\ LastIn(SetConfig(d), SetBit("RF_SETUP", "DR", d.rate2))
         /\ LastIn(SetConfig(d),
                   SetBit("RF_SETUP", "PWR_LOW", "PWR_LOW" \in PowerBits(d.atten)))
         /\ LastIn(SetConfig(d),
                   SetBit("RF_SETUP", "PWR_HIGH", "PWR_HIGH" \in PowerBits(d.atten)))
         /\ LastIn(SetConfig(d), SetBit("RF_SETUP", "LNA", d.lna))
         /\ LastIn(SetConfig(d), SetBit("NRF_CONFIG", "EN_CRC", d.crc))
         /\ LastIn(SetConfig(d), SetBit("NRF_CONFIG", "CRCO", d.crc2))
         /\ LastIn(SetConfig(d), SetBit("NRF_CONFIG", "MASK_RX_DR", FALSE))
         /\ LastIn(SetConfig(d), SetBit("NRF_CONFIG", "MASK_TX_DS", FALSE))
         /\ LastIn(SetConfig(d), SetBit("NRF_CONFIG", "MASK_MAX_RT", FALSE))
<1> DEFINE s == SetConfig(d)
           aw == Write("SETUP_AW", (d.width - 2) % 4)
           dr == SetBit("RF_SETUP", "DR", d.rate2)
           low == SetBit("RF_SETUP", "PWR_LOW", "PWR_LOW" \in PowerBits(d.atten))
           high == SetBit("RF_SETUP", "PWR_HIGH", "PWR_HIGH" \in PowerBits(d.atten))
           lna == SetBit("RF_SETUP", "LNA", d.lna)
           crc == SetBit("NRF_CONFIG", "EN_CRC", d.crc)
           crco == SetBit("NRF_CONFIG", "CRCO", d.crc2)
           rxdr == SetBit("NRF_CONFIG", "MASK_RX_DR", FALSE)
           txds == SetBit("NRF_CONFIG", "MASK_TX_DS", FALSE)
           maxrt == SetBit("NRF_CONFIG", "MASK_MAX_RT", FALSE)
<1>1. s = <<aw, dr, low, high, lna, crc, crco, rxdr, txds, maxrt>>
  BY Zenon DEF SetConfig
<1>2. aw.do = "write" /\ aw.reg = "SETUP_AW"
  BY DEF Write
<1>3. /\ dr.do = "bit" /\ dr.reg = "RF_SETUP" /\ dr.bit = "DR"
      /\ low.do = "bit" /\ low.reg = "RF_SETUP" /\ low.bit = "PWR_LOW"
      /\ high.do = "bit" /\ high.reg = "RF_SETUP" /\ high.bit = "PWR_HIGH"
      /\ lna.do = "bit" /\ lna.reg = "RF_SETUP" /\ lna.bit = "LNA"
  BY Zenon DEF SetBit
<1>4. /\ crc.do = "bit" /\ crc.reg = "NRF_CONFIG" /\ crc.bit = "EN_CRC"
      /\ crco.do = "bit" /\ crco.reg = "NRF_CONFIG" /\ crco.bit = "CRCO"
      /\ rxdr.do = "bit" /\ rxdr.reg = "NRF_CONFIG" /\ rxdr.bit = "MASK_RX_DR"
      /\ txds.do = "bit" /\ txds.reg = "NRF_CONFIG" /\ txds.bit = "MASK_TX_DS"
      /\ maxrt.do = "bit" /\ maxrt.reg = "NRF_CONFIG" /\ maxrt.bit = "MASK_MAX_RT"
  BY Zenon DEF SetBit
<1> HIDE DEF s, aw, dr, low, high, lna, crc, crco, rxdr, txds, maxrt
<1>5. /\ Len(s) = 10
      /\ s[1] = aw /\ s[2] = dr /\ s[3] = low /\ s[4] = high /\ s[5] = lna
      /\ s[6] = crc /\ s[7] = crco /\ s[8] = rxdr /\ s[9] = txds /\ s[10] = maxrt
  BY <1>1
<1>6. /\ s[2].bit = "DR" /\ s[3].bit = "PWR_LOW" /\ s[4].bit = "PWR_HIGH"
      /\ s[5].bit = "LNA"
  BY <1>3, <1>5
<1>7. /\ s[6].bit = "EN_CRC" /\ s[7].bit = "CRCO"
      /\ s[8].bit = "MASK_RX_DR" /\ s[9].bit = "MASK_TX_DS" /\ s[10].bit = "MASK_MAX_RT"
  BY <1>4, <1>5
<1>8. /\ s[2].reg = "RF_SETUP" /\ s[3].reg = "RF_SETUP" /\ s[4].reg = "RF_SETUP"
      /\ s[5].reg = "RF_SETUP"
      /\ s[2].do = "bit" /\ s[3].do = "bit" /\ s[4].do = "bit" /\ s[5].do = "bit"
  BY <1>3, <1>5
<1>9. /\ s[6].reg = "NRF_CONFIG" /\ s[7].reg = "NRF_CONFIG" /\ s[8].reg = "NRF_CONFIG"
      /\ s[9].reg = "NRF_CONFIG" /\ s[10].reg = "NRF_CONFIG"
      /\ s[6].do = "bit" /\ s[7].do = "bit" /\ s[8].do = "bit" /\ s[9].do = "bit"
      /\ s[10].do = "bit"
  BY <1>4, <1>5
<1>10. ASSUME NEW i \in 2 .. 10, NEW j \in i + 1 .. 10 PROVE s[i].bit # s[j].bit
  BY <1>6, <1>7
<1>11. ASSUME NEW i \in 2 .. 10
      PROVE  s[i].do = "bit" /\ s[i].reg \in {"RF_SETUP", "NRF_CONFIG"}
  BY <1>8, <1>9
<1>12. ASSUME NEW i \in 1 .. 10, NEW j \in i + 1 .. 10
      PROVE  ~Undoes(s[j], s[i])
  <2>1. CASE i = 1
    <3>1. j \in 2 .. 10
      OBVIOUS
    <3>2. s[j].reg # "SETUP_AW"
      BY <1>11, <3>1
    <3> QED
      BY <1>2, <1>5, <2>1, <3>2, Zenon DEF Undoes
  <2>2. CASE i # 1
    <3>1. i \in 2 .. 10 /\ j \in 2 .. 10
      BY <2>2
    <3> QED
      BY <1>11, <1>10, <3>1, Zenon DEF Undoes
  <2> QED
    BY <2>1, <2>2
<1>13. ASSUME NEW i \in 1 .. 10 PROVE LastIn(s, s[i])
  BY <1>5, <1>12, Zenon DEF LastIn
<1>14. On(s, {"SETUP_AW", "RF_SETUP", "NRF_CONFIG"})
  <2>1. ASSUME NEW i \in 1 .. 10 PROVE s[i].reg \in {"SETUP_AW", "RF_SETUP", "NRF_CONFIG"}
    <3>1. i = 1 \/ i \in 2 .. 10
      OBVIOUS
    <3> QED
      BY <1>2, <1>5, <1>11, <3>1, Zenon
  <2> QED
    BY <1>5, <2>1, Zenon DEF On
<1>15. /\ LastIn(s, aw) /\ LastIn(s, dr) /\ LastIn(s, low) /\ LastIn(s, high)
       /\ LastIn(s, lna) /\ LastIn(s, crc) /\ LastIn(s, crco) /\ LastIn(s, rxdr)
       /\ LastIn(s, txds) /\ LastIn(s, maxrt)
  BY <1>5, <1>13
<1> QED
  BY <1>14, <1>15, Zenon DEF s, aw, dr, low, high, lna, crc, crco, rxdr, txds, maxrt

(* The channel.                                                              *)
LEMMA ChannelLast ==
  ASSUME NEW d \in Devicetrees, d.channel <= 125
  PROVE  LastIn(SetChannel(d), Write("RF_CH", d.channel))
<1> DEFINE op == Write("RF_CH", d.channel)
<1>1. SetChannel(d) = <<op>>
  BY Zenon DEF SetChannel
<1> HIDE DEF op
<1>2. Len(<<op>>) = 1 /\ <<op>>[1] = op
  OBVIOUS
<1>3. LastIn(<<op>>, op)
  <2>1. 1 \in 1 .. 1 /\ \A j \in 1 + 1 .. 1 : FALSE
    OBVIOUS
  <2> QED
    BY <1>2, <2>1, Zenon DEF LastIn
<1> QED
  BY <1>1, <1>3, Zenon DEF op

(* The acknowledgement settings leave the pipes and the addresses alone.     *)
LEMMA AckLast ==
  ASSUME NEW d \in Devicetrees
  PROVE  /\ On(ConfigureAck(d), {"DYNPD", "FEATURE", "SETUP_RETR", "EN_AA"})
         /\ LastIn(ConfigureAck(d), Write("SETUP_RETR", IF d.ack THEN 35 ELSE 0))
         /\ LastIn(ConfigureAck(d), Write("EN_AA", IF d.ack THEN 0 .. d.pipes - 1 ELSE {}))
<1> DEFINE regs == {"DYNPD", "FEATURE", "SETUP_RETR", "EN_AA"}
           lengths == [i \in 1 .. d.pipes |-> SetBit("DYNPD", i - 1, i - 1 \in d.dynPipes)]
           feature == SetBit("FEATURE", "EN_DPL", d.dyn)
           retr == Write("SETUP_RETR", IF d.ack THEN 35 ELSE 0)
           aa == Write("EN_AA", IF d.ack THEN 0 .. d.pipes - 1 ELSE {})
           rest == <<feature, retr, aa>>
<1>1. d.pipes \in Nat
  BY ConfigAssumption DEF ConfigAssumption
<1>2. ConfigureAck(d) = lengths \o rest
  BY Zenon DEF ConfigureAck
<1>3. /\ feature.reg = "FEATURE" /\ retr.reg = "SETUP_RETR" /\ aa.reg = "EN_AA"
  BY Zenon DEF SetBit, Write
<1>4. On(lengths, regs)
  <2>1. ASSUME NEW i \in 1 .. d.pipes PROVE lengths[i].reg \in regs
    BY <2>1, Zenon DEF SetBit
  <2>2. Len(lengths) = d.pipes
    BY <1>1
  <2> HIDE DEF lengths, regs
  <2> QED
    BY <2>1, <2>2, Zenon DEF On
<1>5. lengths \in Seq({lengths[i] : i \in 1 .. d.pipes})
  <2>1. lengths \in [1 .. d.pipes -> {lengths[i] : i \in 1 .. d.pipes}]
    BY Zenon
  <2> HIDE DEF lengths
  <2> QED
    BY <1>1, <2>1, Row, Zenon
<1> HIDE DEF lengths, feature, retr, aa
<1>6. /\ rest \in Seq({feature, retr, aa}) /\ Len(rest) = 3
      /\ rest[1] = feature /\ rest[2] = retr /\ rest[3] = aa
  OBVIOUS
<1> HIDE DEF rest
<1>7. On(rest, regs)
  BY <1>3, <1>6 DEF On
<1>8. LastIn(rest, retr) /\ LastIn(rest, aa)
  BY <1>3, <1>6 DEF LastIn, Undoes
<1> DEFINE S == {lengths[i] : i \in 1 .. d.pipes} \cup {feature, retr, aa}
<1>9. lengths \in Seq(S) /\ rest \in Seq(S)
  BY <1>5, <1>6
<1> HIDE DEF S, regs
<1>10. On(lengths \o rest, regs)
  BY <1>4, <1>7, <1>9, OnBoth, Zenon
<1>11. LastIn(lengths \o rest, retr) /\ LastIn(lengths \o rest, aa)
  BY <1>8, <1>9, LastRight, Zenon
<1> QED
  BY <1>2, <1>10, <1>11, Zenon DEF regs, retr, aa

(* The pipes are addressed and sized in turn, and opened last.               *)
LEMMA PipesLast ==
  ASSUME NEW d \in Devicetrees, d.width = 4
  PROVE  /\ On(ConfigurePipes(d), AddressNames \cup WidthNames \cup {"EN_RXADDR"})
         /\ \A r \in AddressNames : LastIn(ConfigurePipes(d), Write(r, d.addr))
         /\ \A r \in WidthNames : LastIn(ConfigurePipes(d), Write(r, d.size))
         /\ \A n \in 0 .. d.pipes - 1 :
               LastIn(ConfigurePipes(d), SetBit("EN_RXADDR", n, TRUE))
<1> DEFINE regs == AddressNames \cup WidthNames \cup {"EN_RXADDR"}
           addresses == [i \in 1 .. 7 |-> Write(AddressRegisters[i], d.addr)]
           widths == [i \in 1 .. 6 |-> Write(WidthRegisters[i], d.size)]
           pipes == [i \in 1 .. d.pipes |-> SetBit("EN_RXADDR", i - 1, TRUE)]
           S == {addresses[i] : i \in 1 .. 7} \cup {widths[i] : i \in 1 .. 6}
                \cup {pipes[i] : i \in 1 .. d.pipes}
<1>1. d.pipes \in Nat
  BY ConfigAssumption DEF ConfigAssumption
<1>2. ConfigurePipes(d) = addresses \o widths \o pipes
  BY Zenon DEF ConfigurePipes
<1>3. /\ addresses \in [1 .. 7 -> S]
      /\ widths \in [1 .. 6 -> S]
      /\ pipes \in [1 .. d.pipes -> S]
  BY Zenon
<1>4. /\ \A i \in 1 .. 7 : addresses[i] = Write(AddressRegisters[i], d.addr)
      /\ \A i \in 1 .. 6 : widths[i] = Write(WidthRegisters[i], d.size)
      /\ \A i \in 1 .. d.pipes : pipes[i] = SetBit("EN_RXADDR", i - 1, TRUE)
  BY Zenon
<1>5. /\ \A i \in 1 .. 7 : addresses[i].reg = AddressRegisters[i]
      /\ \A i \in 1 .. 6 : widths[i].reg = WidthRegisters[i]
  BY Zenon DEF Write
<1>6. \A i \in 1 .. d.pipes :
        pipes[i].do = "bit" /\ pipes[i].reg = "EN_RXADDR" /\ pipes[i].bit = i - 1
  BY Zenon DEF SetBit
<1> HIDE DEF addresses, widths, pipes, S
<1>7. /\ addresses \in Seq(S) /\ Len(addresses) = 7
      /\ widths \in Seq(S) /\ Len(widths) = 6
      /\ pipes \in Seq(S) /\ Len(pipes) = d.pipes
  <2>1. ASSUME NEW n \in Nat, NEW f \in [1 .. n -> S]
        PROVE  f \in Seq(S) /\ Len(f) = n
    OBVIOUS
  <2> QED
    BY <1>1, <1>3, <2>1
<1>8. /\ \A i \in 1 .. 7 : AddressRegisters[i] \in AddressNames
      /\ \A i \in 1 .. 6 : WidthRegisters[i] \in WidthNames
  BY DEF AddressRegisters, AddressNames, WidthRegisters, WidthNames
<1>9. On(addresses, AddressNames) /\ On(widths, WidthNames) /\ On(pipes, {"EN_RXADDR"})
  <2>1. On(addresses, AddressNames)
    BY <1>5, <1>7, <1>8, Zenon DEF On
  <2>2. On(widths, WidthNames)
    BY <1>5, <1>7, <1>8 DEF On
  <2>3. On(pipes, {"EN_RXADDR"})
    BY <1>6, <1>7, Zenon DEF On
  <2> QED
    BY <2>1, <2>2, <2>3
<1>10. addresses \o widths \in Seq(S)
  BY <1>7, ConcatProperties, Zenon
<1>11. On(addresses \o widths \o pipes, regs)
  <2>1. On(addresses, regs) /\ On(widths, regs) /\ On(pipes, regs)
    BY <1>9, Zenon DEF On
  <2> HIDE DEF regs
  <2>2. On(addresses \o widths, regs)
    BY <1>7, <2>1, OnBoth, Zenon
  <2> QED
    BY <1>7, <1>10, <2>1, <2>2, OnBoth, Zenon
<1>12. ASSUME NEW r \in AddressNames
       PROVE  LastIn(addresses \o widths \o pipes, Write(r, d.addr))
  <2> DEFINE op == Write(r, d.addr)
  <2>1. op.reg = r /\ r \notin WidthNames /\ r \notin {"EN_RXADDR"}
    BY DEF Write, AddressNames, WidthNames
  <2>2. PICK i \in 1 .. 7 : r = AddressRegisters[i]
    BY DEF AddressNames, AddressRegisters
  <2>3. ASSUME NEW j \in i + 1 .. 7 PROVE AddressRegisters[j] # AddressRegisters[i]
    BY DEF AddressRegisters
  <2> HIDE DEF op
  <2>4. addresses[i] = op
    BY <1>4, <2>2, Zenon DEF op
  <2>5. ASSUME NEW j \in i + 1 .. 7 PROVE ~Undoes(addresses[j], op)
    <3>1. j \in 1 .. 7
      OBVIOUS
    <3>2. addresses[j].reg = AddressRegisters[j]
      BY <1>5, <3>1, Zenon
    <3> QED
      BY <2>1, <2>2, <2>3, <3>2, Zenon DEF Undoes
  <2>6. LastIn(addresses, op)
    BY <1>7, <2>4, <2>5, Zenon DEF LastIn
  <2>7. Spares(widths, op) /\ Spares(pipes, op)
    BY <1>9, <2>1, SparesOthers, Zenon
  <2>8. LastIn(addresses \o widths, op)
    BY <1>7, <2>6, <2>7, LastLeft, Zenon
  <2> QED
    BY <1>7, <1>10, <2>7, <2>8, LastLeft, Zenon DEF op
<1>13. ASSUME NEW r \in WidthNames
       PROVE  LastIn(addresses \o widths \o pipes, Write(r, d.size))
  <2> DEFINE op == Write(r, d.size)
  <2>1. op.reg = r /\ r \notin {"EN_RXADDR"}
    BY DEF Write, WidthNames
  <2>2. PICK i \in 1 .. 6 : r = WidthRegisters[i]
    BY DEF WidthNames, WidthRegisters
  <2>3. ASSUME NEW j \in i + 1 .. 6 PROVE WidthRegisters[j] # WidthRegisters[i]
    BY DEF WidthRegisters
  <2> HIDE DEF op
  <2>4. widths[i] = op
    BY <1>4, <2>2, Zenon DEF op
  <2>5. ASSUME NEW j \in i + 1 .. 6 PROVE ~Undoes(widths[j], op)
    <3>1. j \in 1 .. 6
      OBVIOUS
    <3>2. widths[j].reg = WidthRegisters[j]
      BY <1>5, <3>1
    <3> QED
      BY <2>1, <2>2, <2>3, <3>2, Zenon DEF Undoes
  <2>6. LastIn(widths, op)
    BY <1>7, <2>4, <2>5, Zenon DEF LastIn
  <2>7. Spares(pipes, op)
    BY <1>9, <2>1, SparesOthers, Zenon
  <2>8. LastIn(addresses \o widths, op)
    BY <1>7, <2>6, LastRight, Zenon
  <2> QED
    BY <1>7, <1>10, <2>7, <2>8, LastLeft, Zenon DEF op
<1>14. ASSUME NEW n \in 0 .. d.pipes - 1
       PROVE  LastIn(addresses \o widths \o pipes, SetBit("EN_RXADDR", n, TRUE))
  <2> DEFINE op == SetBit("EN_RXADDR", n, TRUE)
             i == n + 1
  <2>1. i \in 1 .. d.pipes /\ i - 1 = n
    BY <1>1
  <2>2. op.do = "bit" /\ op.bit = n
    BY Zenon DEF SetBit
  <2>3. pipes[i] = op
    BY <1>4, <2>1, Zenon
  <2> HIDE DEF op
  <2>4. ASSUME NEW j \in i + 1 .. d.pipes PROVE ~Undoes(pipes[j], op)
    <3>1. j \in 1 .. d.pipes /\ j - 1 # n
      BY <1>1, <2>1
    <3>2. pipes[j].do = "bit" /\ pipes[j].bit = j - 1
      BY <1>6, <3>1, Zenon
    <3> QED
      BY <2>2, <3>1, <3>2, Zenon DEF Undoes
  <2> HIDE DEF i
  <2>5. LastIn(pipes, op)
    BY <1>7, <2>1, <2>3, <2>4, Zenon DEF LastIn
  <2> QED
    BY <1>7, <1>10, <2>5, LastRight, Zenon DEF op
<1> QED
  BY <1>2, <1>11, <1>12, <1>13, <1>14, Zenon DEF regs

(* What ends the initialisation leaves the other bits alone.                 *)
LEMMA EndLast ==
  /\ On(NonListening, {"RX_PW_P0", "NRF_CONFIG", "EN_RXADDR"})
  /\ LastIn(NonListening, Write("RX_PW_P0", 2))
  /\ LastIn(NonListening, SetBit("NRF_CONFIG", "PRIM_RX", FALSE))
  /\ LastIn(NonListening, SetBit("EN_RXADDR", 0, TRUE))
  /\ LastIn(NonListening, SetBit("NRF_CONFIG", "PWR_UP", TRUE))
  /\ \A r \in WidthNames \ {"RX_PW_P0"} : \A v : Spares(NonListening, Write(r, v))
  /\ \A n \in Nat \ {0} : \A v : Spares(NonListening, SetBit("EN_RXADDR", n, v))
  /\ \A b \in NrfBits \ {"PRIM_RX", "PWR_UP"} : \A v :
        Spares(NonListening, SetBit("NRF_CONFIG", b, v))
<1> DEFINE width == Write("RX_PW_P0", 2)
           prim == SetBit("NRF_CONFIG", "PRIM_RX", FALSE)
           zero == SetBit("EN_RXADDR", 0, TRUE)
           up == SetBit("NRF_CONFIG", "PWR_UP", TRUE)
           s == <<width, prim, zero, up>>
<1>1. NonListening = s
  BY Zenon DEF NonListening
<1>2. /\ width.reg = "RX_PW_P0"
      /\ prim.do = "bit" /\ prim.reg = "NRF_CONFIG" /\ prim.bit = "PRIM_RX"
      /\ zero.do = "bit" /\ zero.reg = "EN_RXADDR" /\ zero.bit = 0
      /\ up.do = "bit" /\ up.reg = "NRF_CONFIG" /\ up.bit = "PWR_UP"
  BY Zenon DEF SetBit, Write
<1> HIDE DEF width, prim, zero, up
<1>3. Len(s) = 4 /\ s[1] = width /\ s[2] = prim /\ s[3] = zero /\ s[4] = up
  OBVIOUS
<1> HIDE DEF s
<1>4. On(s, {"RX_PW_P0", "NRF_CONFIG", "EN_RXADDR"})
  BY <1>2, <1>3 DEF On
<1>5. LastIn(s, width) /\ LastIn(s, prim) /\ LastIn(s, zero) /\ LastIn(s, up)
  BY <1>2, <1>3 DEF LastIn, Undoes
<1>6. ASSUME NEW op, op.reg # "RX_PW_P0", op.reg # "NRF_CONFIG", op.reg # "EN_RXADDR"
      PROVE  Spares(s, op)
  BY <1>2, <1>3, <1>6 DEF Spares, Undoes
<1>7. ASSUME NEW op, op.do = "bit", op.reg = "EN_RXADDR", op.bit # 0
      PROVE  Spares(s, op)
  BY <1>2, <1>3, <1>7 DEF Spares, Undoes
<1>8. ASSUME NEW op, op.do = "bit", op.reg = "NRF_CONFIG", op.bit \notin {"PRIM_RX", "PWR_UP"}
      PROVE  Spares(s, op)
  BY <1>2, <1>3, <1>8 DEF Spares, Undoes
<1>9. ASSUME NEW r \in WidthNames \ {"RX_PW_P0"}, NEW v
      PROVE  Spares(s, Write(r, v))
  <2>1. /\ Write(r, v).reg # "RX_PW_P0" /\ Write(r, v).reg # "NRF_CONFIG"
        /\ Write(r, v).reg # "EN_RXADDR"
    BY DEF Write, WidthNames
  <2> QED
    BY <1>6, <2>1, Zenon
<1>10. ASSUME NEW n \in Nat \ {0}, NEW v
       PROVE  Spares(s, SetBit("EN_RXADDR", n, v))
  <2>1. /\ SetBit("EN_RXADDR", n, v).do = "bit" /\ SetBit("EN_RXADDR", n, v).reg = "EN_RXADDR"
        /\ SetBit("EN_RXADDR", n, v).bit = n /\ n # 0
    BY Zenon DEF SetBit
  <2> QED
    BY <1>7, <2>1, Zenon
<1>11. ASSUME NEW b \in NrfBits \ {"PRIM_RX", "PWR_UP"}, NEW v
       PROVE  Spares(s, SetBit("NRF_CONFIG", b, v))
  <2>1. /\ SetBit("NRF_CONFIG", b, v).do = "bit"
        /\ SetBit("NRF_CONFIG", b, v).reg = "NRF_CONFIG"
        /\ SetBit("NRF_CONFIG", b, v).bit = b
    BY Zenon DEF SetBit
  <2> QED
    BY <1>8, <2>1, Zenon
<1> QED
  BY <1>1, <1>4, <1>5, <1>9, <1>10, <1>11, Zenon DEF width, prim, zero, up

(* An operation is the last of its kind in the whole initialisation when it  *)
(* is in its part and the later parts spare it.                              *)
LEMMA Placed ==
  ASSUME NEW d \in Devicetrees, NEW op
  PROVE  /\ LastIn(NonListening, op) => LastIn(Complete(d), op)
         /\ LastIn(ConfigureAck(d), op) /\ Spares(NonListening, op)
            => LastIn(Complete(d), op)
         /\ /\ LastIn(ConfigurePipes(d), op)
            /\ Spares(ConfigureAck(d), op) /\ Spares(NonListening, op)
            => LastIn(Complete(d), op)
         /\ /\ LastIn(SetConfig(d), op)
            /\ Spares(ConfigurePipes(d), op) /\ Spares(ConfigureAck(d), op)
            /\ Spares(NonListening, op)
            => LastIn(Complete(d), op)
         /\ /\ LastIn(SetChannel(d), op) /\ Spares(SetConfig(d), op)
            /\ Spares(ConfigurePipes(d), op) /\ Spares(ConfigureAck(d), op)
            /\ Spares(NonListening, op)
            => LastIn(Complete(d), op)
<1> DEFINE S == Ops(d)
           C == SetChannel(d)
           F == SetConfig(d)
           P == ConfigurePipes(d)
           A == ConfigureAck(d)
           E == NonListening
           head == TestSpi \o C
<1>1. /\ TestSpi \in Seq(S) /\ C \in Seq(S) /\ F \in Seq(S)
      /\ P \in Seq(S) /\ A \in Seq(S) /\ E \in Seq(S)
  BY TestOps, ChannelOps, ConfigOps, PipesOps, AckOps, EndOps, Zenon
<1>2. Complete(d) = (head \o F) \o (P \o A \o E)
  BY Zenon DEF Complete
<1> HIDE DEF S, C, F, P, A, E
<1>3. P \o A \in Seq(S) /\ head \in Seq(S)
  BY <1>1, ConcatProperties, Zenon
<1>4. P \o A \o E \in Seq(S) /\ head \o F \in Seq(S)
  BY <1>1, <1>3, ConcatProperties, Zenon
<1>5. ASSUME LastIn(P \o A \o E, op) PROVE LastIn(Complete(d), op)
  BY <1>2, <1>4, <1>5, LastRight, Zenon
<1>6. ASSUME LastIn(E, op) PROVE LastIn(Complete(d), op)
  BY <1>1, <1>3, <1>5, <1>6, LastRight, Zenon
<1>7. ASSUME LastIn(A, op), Spares(E, op) PROVE LastIn(Complete(d), op)
  <2>1. LastIn(P \o A, op)
    BY <1>1, <1>7, LastRight, Zenon
  <2> QED
    BY <1>1, <1>3, <1>5, <1>7, <2>1, LastLeft, Zenon
<1>8. ASSUME LastIn(P, op), Spares(A, op), Spares(E, op) PROVE LastIn(Complete(d), op)
  <2>1. LastIn(P \o A, op)
    BY <1>1, <1>8, LastLeft, Zenon
  <2> QED
    BY <1>1, <1>3, <1>5, <1>8, <2>1, LastLeft, Zenon
<1>9. ASSUME LastIn(F, op) \/ (LastIn(C, op) /\ Spares(F, op)),
             Spares(P, op), Spares(A, op), Spares(E, op)
      PROVE  LastIn(Complete(d), op)
  <2>1. Spares(P \o A, op)
    BY <1>1, <1>9, SparesBoth, Zenon
  <2>2. Spares(P \o A \o E, op)
    BY <1>1, <1>3, <1>9, <2>1, SparesBoth, Zenon
  <2>3. LastIn(head \o F, op)
    <3>1. CASE LastIn(F, op)
      BY <1>1, <1>3, <3>1, LastRight, Zenon
    <3>2. CASE LastIn(C, op) /\ Spares(F, op)
      <4>1. LastIn(head, op)
        BY <1>1, <3>2, LastRight, Zenon
      <4> QED
        BY <1>1, <1>3, <3>2, <4>1, LastLeft, Zenon
    <3> QED
      BY <1>9, <3>1, <3>2, Zenon
  <2> QED
    BY <1>2, <1>4, <2>2, <2>3, LastLeft, Zenon
<1>10. /\ LastIn(E, op) => LastIn(Complete(d), op)
       /\ LastIn(A, op) /\ Spares(E, op) => LastIn(Complete(d), op)
       /\ LastIn(P, op) /\ Spares(A, op) /\ Spares(E, op) => LastIn(Complete(d), op)
  BY <1>6, <1>7, <1>8, Zenon
<1>11. /\ LastIn(F, op) /\ Spares(P, op) /\ Spares(A, op) /\ Spares(E, op)
          => LastIn(Complete(d), op)
       /\ /\ LastIn(C, op) /\ Spares(F, op)
          /\ Spares(P, op) /\ Spares(A, op) /\ Spares(E, op)
          => LastIn(Complete(d), op)
  BY <1>9, Zenon
<1> QED
  BY <1>10, <1>11 DEF C, F, P, A, E

(* The last operations on the registers that are written whole.              *)
LEMMA WrittenLast ==
  ASSUME NEW d \in Devicetrees, d.width = 4
  PROVE  /\ \A r \in AddressNames : LastIn(Complete(d), Write(r, d.addr))
         /\ \A r \in WidthNames \ {"RX_PW_P0"} : LastIn(Complete(d), Write(r, d.size))
         /\ LastIn(Complete(d), Write("RX_PW_P0", 2))
         /\ d.channel <= 125 => LastIn(Complete(d), Write("RF_CH", d.channel))
         /\ LastIn(Complete(d), Write("SETUP_AW", (d.width - 2) % 4))
         /\ LastIn(Complete(d), Write("SETUP_RETR", IF d.ack THEN 35 ELSE 0))
         /\ LastIn(Complete(d), Write("EN_AA", IF d.ack THEN 0 .. d.pipes - 1 ELSE {}))
<1>1. \A r, v : Write(r, v).reg = r
  BY Zenon DEF Write
<1> DEFINE acks == {"DYNPD", "FEATURE", "SETUP_RETR", "EN_AA"}
           ends == {"RX_PW_P0", "NRF_CONFIG", "EN_RXADDR"}
           confs == {"SETUP_AW", "RF_SETUP", "NRF_CONFIG"}
           pipes == AddressNames \cup WidthNames \cup {"EN_RXADDR"}
<1>2. /\ On(SetConfig(d), confs) /\ On(ConfigurePipes(d), pipes)
      /\ On(ConfigureAck(d), acks) /\ On(NonListening, ends)
  BY ConfigLast, PipesLast, AckLast, EndLast, Zenon
<1>3. /\ \A r \in AddressNames : r \notin acks /\ r \notin ends
      /\ \A r \in WidthNames : r \notin acks
      /\ "RF_CH" \notin confs /\ "RF_CH" \notin pipes /\ "RF_CH" \notin acks
      /\ "RF_CH" \notin ends
      /\ "SETUP_AW" \notin pipes /\ "SETUP_AW" \notin acks /\ "SETUP_AW" \notin ends
      /\ "SETUP_RETR" \notin ends /\ "EN_AA" \notin ends
  BY DEF AddressNames, WidthNames
<1> HIDE DEF acks, ends, confs, pipes
<1>4. ASSUME NEW r, NEW v
      PROVE  /\ r \notin confs => Spares(SetConfig(d), Write(r, v))
             /\ r \notin pipes => Spares(ConfigurePipes(d), Write(r, v))
             /\ r \notin acks => Spares(ConfigureAck(d), Write(r, v))
             /\ r \notin ends => Spares(NonListening, Write(r, v))
  BY <1>1, <1>2, SparesOthers, Zenon
<1>5. ASSUME NEW r \in AddressNames PROVE LastIn(Complete(d), Write(r, d.addr))
  BY <1>3, <1>4, PipesLast, Placed, Zenon
<1>6. ASSUME NEW r \in WidthNames \ {"RX_PW_P0"} PROVE LastIn(Complete(d), Write(r, d.size))
  BY <1>3, <1>4, PipesLast, EndLast, Placed, Zenon
<1>7. LastIn(Complete(d), Write("RX_PW_P0", 2))
  BY EndLast, Placed, Zenon
<1>8. d.channel <= 125 => LastIn(Complete(d), Write("RF_CH", d.channel))
  BY <1>3, <1>4, ChannelLast, Placed, Zenon
<1>9. LastIn(Complete(d), Write("SETUP_AW", (d.width - 2) % 4))
  <2> DEFINE op == Write("SETUP_AW", (d.width - 2) % 4)
  <2>1. LastIn(SetConfig(d), op)
    BY ConfigLast, Zenon
  <2>2. /\ Spares(ConfigurePipes(d), op) /\ Spares(ConfigureAck(d), op)
        /\ Spares(NonListening, op)
    BY <1>3, <1>4, Zenon
  <2> HIDE DEF op
  <2> QED
    BY <2>1, <2>2, Placed, Zenon DEF op
<1>10. LastIn(Complete(d), Write("SETUP_RETR", IF d.ack THEN 35 ELSE 0))
  BY <1>3, <1>4, AckLast, Placed, Zenon
<1>11. LastIn(Complete(d), Write("EN_AA", IF d.ack THEN 0 .. d.pipes - 1 ELSE {}))
  BY <1>3, <1>4, AckLast, Placed, Zenon
<1> QED
  BY <1>5, <1>6, <1>7, <1>8, <1>9, <1>10, <1>11, Zenon

(* The last operations on the bits of the others.                            *)
LEMMA BitsLast ==
  ASSUME NEW d \in Devicetrees, d.width = 4
  PROVE  /\ LastIn(Complete(d), SetBit("RF_SETUP", "DR", d.rate2))
         /\ LastIn(Complete(d),
                   SetBit("RF_SETUP", "PWR_LOW", "PWR_LOW" \in PowerBits(d.atten)))
         /\ LastIn(Complete(d),
                   SetBit("RF_SETUP", "PWR_HIGH", "PWR_HIGH" \in PowerBits(d.atten)))
         /\ LastIn(Complete(d), SetBit("RF_SETUP", "LNA", d.lna))
         /\ LastIn(Complete(d), SetBit("NRF_CONFIG", "EN_CRC", d.crc))
         /\ LastIn(Complete(d), SetBit("NRF_CONFIG", "CRCO", d.crc2))
         /\ LastIn(Complete(d), SetBit("NRF_CONFIG", "MASK_RX_DR", FALSE))
         /\ LastIn(Complete(d), SetBit("NRF_CONFIG", "MASK_TX_DS", FALSE))
         /\ LastIn(Complete(d), SetBit("NRF_CONFIG", "MASK_MAX_RT", FALSE))
         /\ LastIn(Complete(d), SetBit("NRF_CONFIG", "PRIM_RX", FALSE))
         /\ LastIn(Complete(d), SetBit("NRF_CONFIG", "PWR_UP", TRUE))
         /\ \A n \in 0 .. d.pipes - 1 : LastIn(Complete(d), SetBit("EN_RXADDR", n, TRUE))
<1>1. \A r, b, v : SetBit(r, b, v).reg = r
  BY Zenon DEF SetBit
<1> DEFINE acks == {"DYNPD", "FEATURE", "SETUP_RETR", "EN_AA"}
           ends == {"RX_PW_P0", "NRF_CONFIG", "EN_RXADDR"}
           pipes == AddressNames \cup WidthNames \cup {"EN_RXADDR"}
<1>2. On(ConfigurePipes(d), pipes) /\ On(ConfigureAck(d), acks) /\ On(NonListening, ends)
  BY PipesLast, AckLast, EndLast, Zenon
<1>3. /\ "RF_SETUP" \notin pipes /\ "RF_SETUP" \notin acks /\ "RF_SETUP" \notin ends
      /\ "NRF_CONFIG" \notin pipes /\ "NRF_CONFIG" \notin acks
      /\ "EN_RXADDR" \notin acks
  BY DEF AddressNames, WidthNames
<1>4. /\ "EN_CRC" \in NrfBits \ {"PRIM_RX", "PWR_UP"}
      /\ "CRCO" \in NrfBits \ {"PRIM_RX", "PWR_UP"}
      /\ "MASK_RX_DR" \in NrfBits \ {"PRIM_RX", "PWR_UP"}
      /\ "MASK_TX_DS" \in NrfBits \ {"PRIM_RX", "PWR_UP"}
      /\ "MASK_MAX_RT" \in NrfBits \ {"PRIM_RX", "PWR_UP"}
  BY DEF NrfBits
<1> HIDE DEF acks, ends, pipes
<1>5. ASSUME NEW r, NEW b, NEW v
      PROVE  /\ r \notin pipes => Spares(ConfigurePipes(d), SetBit(r, b, v))
             /\ r \notin acks => Spares(ConfigureAck(d), SetBit(r, b, v))
             /\ r \notin ends => Spares(NonListening, SetBit(r, b, v))
  <2>1. SetBit(r, b, v).reg = r
    BY <1>1, Zenon
  <2> QED
    BY <1>2, <2>1, SparesOthers, Zenon
<1>6. ASSUME NEW b, NEW v, LastIn(SetConfig(d), SetBit("RF_SETUP", b, v))
      PROVE  LastIn(Complete(d), SetBit("RF_SETUP", b, v))
  <2> DEFINE op == SetBit("RF_SETUP", b, v)
  <2>1. /\ Spares(ConfigurePipes(d), op) /\ Spares(ConfigureAck(d), op)
        /\ Spares(NonListening, op)
    BY <1>3, <1>5, Zenon
  <2> HIDE DEF op
  <2> QED
    BY <1>6, <2>1, Placed, Zenon DEF op
<1>7. ASSUME NEW b \in NrfBits \ {"PRIM_RX", "PWR_UP"}, NEW v,
             LastIn(SetConfig(d), SetBit("NRF_CONFIG", b, v))
      PROVE  LastIn(Complete(d), SetBit("NRF_CONFIG", b, v))
  <2> DEFINE op == SetBit("NRF_CONFIG", b, v)
  <2>1. Spares(ConfigurePipes(d), op) /\ Spares(ConfigureAck(d), op)
    BY <1>3, <1>5, Zenon
  <2>2. Spares(NonListening, op)
    BY EndLast, Zenon
  <2> HIDE DEF op
  <2> QED
    BY <1>7, <2>1, <2>2, Placed, Zenon DEF op
<1>8. /\ LastIn(Complete(d), SetBit("RF_SETUP", "DR", d.rate2))
      /\ LastIn(Complete(d),
                SetBit("RF_SETUP", "PWR_LOW", "PWR_LOW" \in PowerBits(d.atten)))
      /\ LastIn(Complete(d),
                SetBit("RF_SETUP", "PWR_HIGH", "PWR_HIGH" \in PowerBits(d.atten)))
      /\ LastIn(Complete(d), SetBit("RF_SETUP", "LNA", d.lna))
  BY <1>6, ConfigLast, Zenon
<1>9. /\ LastIn(Complete(d), SetBit("NRF_CONFIG", "EN_CRC", d.crc))
      /\ LastIn(Complete(d), SetBit("NRF_CONFIG", "CRCO", d.crc2))
      /\ LastIn(Complete(d), SetBit("NRF_CONFIG", "MASK_RX_DR", FALSE))
      /\ LastIn(Complete(d), SetBit("NRF_CONFIG", "MASK_TX_DS", FALSE))
      /\ LastIn(Complete(d), SetBit("NRF_CONFIG", "MASK_MAX_RT", FALSE))
  BY <1>4, <1>7, ConfigLast, Zenon
<1>10. /\ LastIn(Complete(d), SetBit("NRF_CONFIG", "PRIM_RX", FALSE))
       /\ LastIn(Complete(d), SetBit("NRF_CONFIG", "PWR_UP", TRUE))
       /\ LastIn(Complete(d), SetBit("EN_RXADDR", 0, TRUE))
  BY EndLast, Placed, Zenon
<1>11. ASSUME NEW n \in 0 .. d.pipes - 1, n # 0
       PROVE  LastIn(Complete(d), SetBit("EN_RXADDR", n, TRUE))
  <2>1. n \in Nat \ {0}
    BY <1>11
  <2>2. Spares(NonListening, SetBit("EN_RXADDR", n, TRUE))
    BY <2>1, EndLast, Zenon
  <2> QED
    BY <1>3, <1>5, <2>2, PipesLast, Placed, Zenon
<1>12. \A n \in 0 .. d.pipes - 1 : LastIn(Complete(d), SetBit("EN_RXADDR", n, TRUE))
  BY <1>10, <1>11, Zenon
<1> QED
  BY <1>8, <1>9, <1>10, <1>12, Zenon

-----------------------------------------------------------------------------
(* The inductive invariant                                                   *)

InEffect(regs, op) ==
  IF op.do = "write" THEN regs[op.reg] = op.val ELSE op.bit \in regs[op.reg] <=> op.val

(* The registers and how far the initialisation is.                          *)
StateInv ==
  /\ dt \in Devicetrees
  /\ pos \in 1 .. Len(Program(dt)) + 1
  /\ DOMAIN reg = Registers
  /\ reg["RF_SETUP"] \subseteq RfBits /\ reg["NRF_CONFIG"] \subseteq NrfBits

(* It passes no error, and reports success at its end only.                  *)
EndInv ==
  /\ result = "ok" => pos > Len(Program(dt))
  /\ \A i \in 1 .. pos - 1 : Program(dt)[i].do # "stop"

(* While every operation did its work, each that none undid is in effect.    *)
EffectInv ==
  clean => \A i \in 1 .. pos - 1 :
    /\ Changes(Program(dt)[i])
    /\ \A j \in i + 1 .. pos - 1 : ~Undoes(Program(dt)[j], Program(dt)[i])
    => InEffect(reg, Program(dt)[i])

ConfigInv == StateInv /\ EndInv /\ EffectInv

(* The registers have their names.                                           *)
LEMMA Domains ==
  /\ SeqRange(AddressRegisters) = AddressNames
  /\ SeqRange(WidthRegisters) = WidthNames
<1>1. DOMAIN AddressRegisters = 1 .. 7 /\ DOMAIN WidthRegisters = 1 .. 6
  BY DEF AddressRegisters, WidthRegisters
<1>2. \A r : r \in AddressNames <=> \E i \in 1 .. 7 : r = AddressRegisters[i]
  BY DEF AddressNames, AddressRegisters
<1>3. \A r : r \in WidthNames <=> \E i \in 1 .. 6 : r = WidthRegisters[i]
  BY DEF WidthNames, WidthRegisters
<1> QED
  BY <1>1, <1>2, <1>3, Zenon DEF SeqRange

(* It holds when the radio has just been powered.                            *)
LEMMA ConfigInvInit == ConfigInit => ConfigInv
<1> SUFFICES ASSUME ConfigInit PROVE ConfigInv
  OBVIOUS
<1> DEFINE named == [RF_CH |-> 2, SETUP_AW |-> 3, RF_SETUP |-> {"DR", "PWR_HIGH", "PWR_LOW", "LNA"},
                     NRF_CONFIG |-> {"EN_CRC"}, EN_RXADDR |-> {0, 1}, EN_AA |-> 0 .. 5,
                     SETUP_RETR |-> 3, DYNPD |-> {}, FEATURE |-> {}]
           names == {"RF_CH", "SETUP_AW", "RF_SETUP", "NRF_CONFIG", "EN_RXADDR", "EN_AA",
                     "SETUP_RETR", "DYNPD", "FEATURE"}
<1>1. /\ DOMAIN named = names
      /\ named["RF_SETUP"] = {"DR", "PWR_HIGH", "PWR_LOW", "LNA"}
      /\ named["NRF_CONFIG"] = {"EN_CRC"}
  BY Zenon
<1>2. reg = Settings(named, 0, "reset")
  BY Zenon DEF ConfigInit, ResetValues
<1> HIDE DEF named
<1>3. DOMAIN reg = AddressNames \cup WidthNames \cup names
  BY <1>1, <1>2, Domains, Zenon DEF Settings
<1>4. reg["RF_SETUP"] = named["RF_SETUP"] /\ reg["NRF_CONFIG"] = named["NRF_CONFIG"]
  <2>1. "RF_SETUP" \in DOMAIN named /\ "NRF_CONFIG" \in DOMAIN named
    BY <1>1
  <2> QED
    BY <1>2, <2>1 DEF Settings
<1>5. DOMAIN reg = Registers
  BY <1>3 DEF Registers, Written
<1>6. reg["RF_SETUP"] \subseteq RfBits /\ reg["NRF_CONFIG"] \subseteq NrfBits
  BY <1>1, <1>4, Zenon DEF RfBits, NrfBits
<1>7. dt \in Devicetrees /\ pos = 1 /\ result = "running"
  BY DEF ConfigInit
<1>8. pos \in 1 .. Len(Program(dt)) + 1 /\ 1 .. pos - 1 = {}
  <2>1. Len(Program(dt)) \in Nat
    BY <1>7, ProgramOps, LenProperties
  <2> QED
    BY <1>7, <2>1
<1>9. StateInv
  BY <1>5, <1>6, <1>7, <1>8, Zenon DEF StateInv
<1>10. EndInv /\ EffectInv
  BY <1>7, <1>8 DEF EndInv, EffectInv
<1> QED
  BY <1>9, <1>10, Zenon DEF ConfigInv

(* What kinds of operations there are.                                       *)
LEMMA OpKinds ==
  ASSUME NEW d, NEW op \in Ops(d)
  PROVE  /\ op.do \in {"write", "check", "bit", "stop"}
         /\ op.do = "write" => op.reg \in Written
         /\ op.do = "bit" => op.reg \in {"RF_SETUP", "NRF_CONFIG", "EN_RXADDR", "DYNPD", "FEATURE"}
         /\ op.do = "bit" /\ op.reg = "RF_SETUP" => op.bit \in RfBits
         /\ op.do = "bit" /\ op.reg = "NRF_CONFIG" => op.bit \in NrfBits
         /\ op.do = "stop" => op.val \in {"enotsup", "enosys"}
<1>1. CASE op \in [do : {"write", "check"}, reg : Written, val : Values(d)]
  BY <1>1
<1>2. CASE op \in [do : {"bit"}, reg : {"RF_SETUP"}, bit : RfBits, val : BOOLEAN]
  BY <1>2
<1>3. CASE op \in [do : {"bit"}, reg : {"NRF_CONFIG"}, bit : NrfBits, val : BOOLEAN]
  BY <1>3
<1>4. CASE \/ op \in [do : {"bit"}, reg : {"EN_RXADDR", "DYNPD"}, bit : 0 .. 5, val : BOOLEAN]
           \/ op \in [do : {"bit"}, reg : {"FEATURE"}, bit : {"EN_DPL"}, val : BOOLEAN]
  BY <1>4
<1>5. CASE op \in [do : {"stop"}, val : {"enotsup", "enosys"}]
  BY <1>5
<1> QED
  BY <1>1, <1>2, <1>3, <1>4, <1>5, Zenon DEF Ops

(* A bit operation leaves no bit that was neither there nor its own.         *)
LEMMA BitOutcome ==
  ASSUME NEW r, NEW bit, NEW v, NEW w \in SetRegisterBit(r, bit, v)
  PROVE  w \subseteq r \cup {bit}
<1> DEFINE after(read) == LET new == IF v THEN read \cup {bit} ELSE read \ {bit}
                          IN  IF new = read THEN {r} ELSE Transceive(r, new)
<1>1. SetRegisterBit(r, bit, v) = UNION {after(read) : read \in ReadRegister(r)}
  BY Zenon DEF SetRegisterBit
<1> HIDE DEF after
<1>2. PICK read \in ReadRegister(r) : w \in after(read)
  BY <1>1
<1>3. read \in {r, {}}
  BY Zenon DEF ReadRegister
<1> DEFINE new == IF v THEN read \cup {bit} ELSE read \ {bit}
<1>4. new \subseteq r \cup {bit}
  BY <1>3
<1>5. w \in {r, new}
  <2>1. w \in IF new = read THEN {r} ELSE Transceive(r, new)
    BY <1>2, Zenon DEF after
  <2> HIDE DEF new
  <2> QED
    BY <2>1, Zenon DEF Transceive
<1> QED
  BY <1>4, <1>5

(* An operation that does its work is in effect.                             *)
LEMMA TakesEffect ==
  ASSUME NEW f, NEW g, NEW v, NEW op, Changes(op), op.reg \in DOMAIN f,
         g = [f EXCEPT ![op.reg] = v],
         op.do = "write" => v = op.val,
         op.do = "bit" => v = IF op.val THEN f[op.reg] \cup {op.bit} ELSE f[op.reg] \ {op.bit}
  PROVE  InEffect(g, op)
<1>1. g[op.reg] = v
  BY Zenon
<1>2. CASE op.do = "write"
  BY <1>1, <1>2, Zenon DEF InEffect
<1>3. CASE op.do = "bit" /\ op.val
  <2>1. op.bit \in v
    BY <1>3
  <2> QED
    BY <1>1, <1>3, <2>1 DEF InEffect
<1>4. CASE op.do = "bit" /\ ~op.val
  <2>1. op.bit \notin v
    BY <1>4
  <2> QED
    BY <1>1, <1>4, <2>1 DEF InEffect
<1> QED
  BY <1>2, <1>3, <1>4, Zenon DEF Changes

(* It leaves in effect what it does not undo.                                *)
LEMMA KeepsEffect ==
  ASSUME NEW f, NEW g, NEW v, NEW op, Changes(op), op.reg \in DOMAIN f,
         g = [f EXCEPT ![op.reg] = v],
         op.do = "bit" => v = IF op.val THEN f[op.reg] \cup {op.bit} ELSE f[op.reg] \ {op.bit},
         NEW old, Changes(old), old.reg \in DOMAIN f, InEffect(f, old), ~Undoes(op, old)
  PROVE  InEffect(g, old)
<1>1. CASE old.reg # op.reg
  <2>1. g[old.reg] = f[old.reg]
    BY <1>1, Zenon
  <2> QED
    BY <2>1, Zenon DEF InEffect
<1>2. CASE old.reg = op.reg
  <2>1. op.do = "bit" /\ old.do = "bit" /\ op.bit # old.bit
    BY <1>2, Zenon DEF Undoes
  <2>2. g[old.reg] = v
    BY <1>2, Zenon
  <2>3. old.bit \in v <=> old.bit \in f[old.reg]
    BY <1>2, <2>1
  <2> QED
    BY <2>1, <2>2, <2>3, Zenon DEF InEffect
<1> QED
  BY <1>1, <1>2, Zenon

(* An operation on the registers keeps the invariant.                        *)
LEMMA OperateInv == ASSUME ConfigInv, Operate PROVE ConfigInv'
<1> DEFINE p == Program(dt)
           op == Current
<1>1. /\ dt \in Devicetrees /\ pos \in 1 .. Len(p) + 1 /\ DOMAIN reg = Registers
      /\ reg["RF_SETUP"] \subseteq RfBits /\ reg["NRF_CONFIG"] \subseteq NrfBits
  BY Zenon DEF ConfigInv, StateInv
<1>2. /\ result = "running" /\ result' = result /\ pos <= Len(p) /\ Changes(op)
      /\ dt' = dt /\ pos' = pos + 1
  BY Zenon DEF Operate, Running, Changes
<1>3. p \in Seq(Ops(dt)) /\ Len(p) \in Nat
  BY <1>1, ProgramOps, LenProperties, Zenon
<1>4. pos \in 1 .. Len(p) /\ pos' \in 1 .. Len(p) + 1 /\ pos' - 1 = pos /\ pos \in Nat
  BY <1>1, <1>2, <1>3
<1>5. \A i \in 1 .. Len(p) : p[i] \in Ops(dt)
  BY <1>3
<1>6. \A i \in 1 .. Len(p) : Changes(p[i]) => p[i].reg \in DOMAIN reg
  <2>1. ASSUME NEW i \in 1 .. Len(p), Changes(p[i]) PROVE p[i].reg \in Registers
    <3>1. \/ p[i].reg \in Written
          \/ p[i].reg \in {"RF_SETUP", "NRF_CONFIG", "EN_RXADDR", "DYNPD", "FEATURE"}
      BY <1>5, <2>1, OpKinds, Zenon DEF Changes
    <3> QED
      BY <3>1, Zenon DEF Registers
  <2> QED
    BY <1>1, <2>1, Zenon
<1>7. op = p[pos] /\ op \in Ops(dt)
  BY <1>4, <1>5, Zenon DEF Current
<1>8. PICK val \in Outcomes(op) :
        /\ reg' = [reg EXCEPT ![op.reg] = val]
        /\ IF val = Meant(op) THEN UNCHANGED <<clean, faults>>
           ELSE clean' = FALSE /\ faults < MaxFaults /\ faults' = faults + 1
  BY Zenon DEF Operate
<1> HIDE DEF p, op
<1>9. StateInv'
  <2>1. DOMAIN reg' = Registers
    BY <1>1, <1>8, Zenon
  <2>2. reg'["RF_SETUP"] \subseteq RfBits
    <3>1. CASE op.reg = "RF_SETUP"
      <4>1. op.do = "bit" /\ op.bit \in RfBits
        <5>1. op.do # "write"
          BY <1>7, <3>1, OpKinds DEF Written, AddressNames, WidthNames
        <5> QED
          BY <1>2, <1>7, <3>1, <5>1, OpKinds, Zenon DEF Changes
      <4>2. val \subseteq reg["RF_SETUP"] \cup {op.bit}
        BY <1>8, <3>1, <4>1, BitOutcome DEF Outcomes
      <4>3. reg'["RF_SETUP"] = val
        BY <1>1, <1>6, <1>2, <1>4, <1>7, <1>8, <3>1, Zenon
      <4> QED
        BY <1>1, <4>1, <4>2, <4>3
    <3>2. CASE op.reg # "RF_SETUP"
      <4>1. "RF_SETUP" \in DOMAIN reg
        BY <1>1 DEF Registers
      <4>2. reg'["RF_SETUP"] = reg["RF_SETUP"]
        BY <1>8, <3>2, <4>1, Zenon
      <4> QED
        BY <1>1, <4>2, Zenon
    <3> QED
      BY <3>1, <3>2, Zenon
  <2>3. reg'["NRF_CONFIG"] \subseteq NrfBits
    <3>1. CASE op.reg = "NRF_CONFIG"
      <4>1. op.do = "bit" /\ op.bit \in NrfBits
        <5>1. op.do # "write"
          BY <1>7, <3>1, OpKinds DEF Written, AddressNames, WidthNames
        <5> QED
          BY <1>2, <1>7, <3>1, <5>1, OpKinds, Zenon DEF Changes
      <4>2. val \subseteq reg["NRF_CONFIG"] \cup {op.bit}
        BY <1>8, <3>1, <4>1, BitOutcome DEF Outcomes
      <4>3. reg'["NRF_CONFIG"] = val
        BY <1>1, <1>6, <1>2, <1>4, <1>7, <1>8, <3>1, Zenon
      <4> QED
        BY <1>1, <4>1, <4>2, <4>3
    <3>2. CASE op.reg # "NRF_CONFIG"
      <4>1. "NRF_CONFIG" \in DOMAIN reg
        BY <1>1 DEF Registers
      <4>2. reg'["NRF_CONFIG"] = reg["NRF_CONFIG"]
        BY <1>8, <3>2, <4>1, Zenon
      <4> QED
        BY <1>1, <4>2, Zenon
    <3> QED
      BY <3>1, <3>2, Zenon
  <2> QED
    BY <1>1, <1>2, <1>4, <2>1, <2>2, <2>3, Zenon DEF StateInv, p
<1>10. EndInv'
  <2>1. result' # "ok"
    BY <1>2
  <2>2. ASSUME NEW i \in 1 .. pos' - 1 PROVE p[i].do # "stop"
    <3>1. CASE i = pos
      BY <1>2, <1>7, <3>1 DEF Changes
    <3>2. CASE i # pos
      <4>1. i \in 1 .. pos
        BY <1>4, Zenon
      <4>2. i \in 1 .. pos - 1
        BY <1>4, <3>2, <4>1
      <4> QED
        BY <4>2, Zenon DEF ConfigInv, EndInv, p
    <3> QED
      BY <3>1, <3>2, Zenon
  <2> QED
    BY <1>2, <2>1, <2>2, Zenon DEF EndInv, p
<1>11. EffectInv'
  <2>1. SUFFICES ASSUME clean', NEW i \in 1 .. pos, Changes(p[i]),
                        \A j \in i + 1 .. pos : ~Undoes(p[j], p[i])
                 PROVE  InEffect(reg', p[i])
    BY <1>2, <1>4, Zenon DEF EffectInv, p
  <2>2. clean /\ val = Meant(op)
    BY <1>8, <2>1, Zenon
  <2>3. /\ op.do = "write" => val = op.val
        /\ op.do = "bit" =>
             val = IF op.val THEN reg[op.reg] \cup {op.bit} ELSE reg[op.reg] \ {op.bit}
    BY <2>2 DEF Meant
  <2>4. op.reg \in DOMAIN reg
    BY <1>2, <1>4, <1>6, <1>7, Zenon
  <2>5. CASE i = pos
    BY <1>2, <1>7, <1>8, <2>3, <2>4, <2>5, TakesEffect, Zenon
  <2>6. CASE i # pos
    <3>1. i \in 1 .. pos - 1 /\ i \in 1 .. Len(p) /\ pos \in i + 1 .. pos
      BY <1>4, <2>6
    <3>2. \A j \in i + 1 .. pos - 1 : j \in i + 1 .. pos
      BY <1>4
    <3>3. InEffect(reg, p[i])
      BY <2>1, <2>2, <3>1, <3>2, Zenon DEF ConfigInv, EffectInv, p
    <3>4. ~Undoes(op, p[i])
      BY <1>7, <2>1, <3>1, Zenon
    <3>5. p[i].reg \in DOMAIN reg
      BY <1>6, <2>1, <3>1, Zenon
    <3> QED
      BY <1>2, <1>8, <2>1, <2>3, <2>4, <3>3, <3>4, <3>5, KeepsEffect, Zenon
  <2> QED
    BY <2>5, <2>6, Zenon
<1> QED
  BY <1>9, <1>10, <1>11, Zenon DEF ConfigInv

(* So does test_spi's read, which changes no register.                       *)
LEMMA CheckInv == ASSUME ConfigInv, Check PROVE ConfigInv'
<1> DEFINE p == Program(dt)
<1>1. /\ dt \in Devicetrees /\ pos \in 1 .. Len(p) + 1
  BY Zenon DEF ConfigInv, StateInv
<1>2. /\ result = "running" /\ pos <= Len(p) /\ p[pos].do = "check"
      /\ dt' = dt /\ pos' = pos + 1 /\ reg' = reg
  BY Zenon DEF Check, Running, Current
<1>3. Len(p) \in Nat
  BY <1>1, ProgramOps, LenProperties, Zenon
<1>4. pos' \in 1 .. Len(p) + 1 /\ pos' - 1 = pos /\ pos \in Nat
  BY <1>1, <1>2, <1>3
<1>5. result' # "ok" /\ (clean' => clean)
  <2>1. CASE result' = result /\ UNCHANGED clean
    BY <1>2, <2>1
  <2>2. CASE result' = "eio" /\ clean' = FALSE
    BY <2>2
  <2> QED
    BY <2>1, <2>2 DEF Check
<1> HIDE DEF p
<1>6. StateInv'
  BY <1>1, <1>2, <1>4, Zenon DEF ConfigInv, StateInv, p
<1>7. EndInv'
  <2>1. ASSUME NEW i \in 1 .. pos' - 1 PROVE p[i].do # "stop"
    <3>1. CASE i = pos
      BY <1>2, <3>1
    <3>2. CASE i # pos
      <4>1. i \in 1 .. pos
        BY <1>4, Zenon
      <4>2. i \in 1 .. pos - 1
        BY <1>4, <3>2, <4>1
      <4> QED
        BY <4>2, Zenon DEF ConfigInv, EndInv, p
    <3> QED
      BY <3>1, <3>2, Zenon
  <2> QED
    BY <1>2, <1>5, <2>1, Zenon DEF EndInv, p
<1>8. EffectInv'
  <2>1. SUFFICES ASSUME clean', NEW i \in 1 .. pos, Changes(p[i]),
                        \A j \in i + 1 .. pos : ~Undoes(p[j], p[i])
                 PROVE  InEffect(reg, p[i])
    BY <1>2, <1>4, Zenon DEF EffectInv, p
  <2>2. i # pos
    BY <1>2, <2>1 DEF Changes
  <2>3. i \in 1 .. pos - 1 /\ \A j \in i + 1 .. pos - 1 : j \in i + 1 .. pos
    BY <1>4, <2>2
  <2> QED
    BY <1>5, <2>1, <2>3, Zenon DEF ConfigInv, EffectInv, p
<1> QED
  BY <1>6, <1>7, <1>8, Zenon DEF ConfigInv

(* Returning reports the error, or success at the end.                       *)
LEMMA ReturnInv == ASSUME ConfigInv, Return PROVE ConfigInv'
<1> DEFINE p == Program(dt)
<1>1. dt \in Devicetrees /\ pos \in 1 .. Len(p) + 1
  BY Zenon DEF ConfigInv, StateInv
<1>2. p \in Seq(Ops(dt)) /\ Len(p) \in Nat
  BY <1>1, ProgramOps, LenProperties, Zenon
<1>3. dt' = dt /\ reg' = reg /\ pos' = pos /\ clean' = clean /\ result = "running"
  BY Zenon DEF Return
<1> HIDE DEF p
<1>4. result' = "ok" => pos > Len(p)
  <2>1. CASE pos <= Len(p)
    <3>1. Running
      BY <1>3, <2>1, Zenon DEF Running, p
    <3>2. result' = p[pos].val /\ p[pos].do = "stop"
      BY <3>1, Zenon DEF Return, Current, p
    <3>3. pos \in 1 .. Len(p)
      BY <1>1, <1>2, <2>1
    <3>4. p[pos] \in Ops(dt)
      BY <1>2, <3>3
    <3>5. result' \in {"enotsup", "enosys"}
      BY <3>2, <3>4, OpKinds, Zenon
    <3> QED
      BY <3>5
  <2>2. CASE ~(pos <= Len(p))
    BY <1>1, <1>2, <2>2
  <2> QED
    BY <2>1, <2>2
<1>5. StateInv' /\ EffectInv'
  BY <1>3, Zenon DEF ConfigInv, StateInv, EffectInv
<1>6. EndInv'
  BY <1>3, <1>4, Zenon DEF ConfigInv, EndInv, p
<1> QED
  BY <1>5, <1>6, Zenon DEF ConfigInv

(* A reset starts the initialisation over, with the registers as they are.   *)
LEMMA ResetInv == ASSUME ConfigInv, Reset PROVE ConfigInv'
<1>1. dt' \in Devicetrees /\ reg' = reg /\ pos' = 1 /\ result' = "running"
  BY Zenon DEF Reset
<1>2. pos' \in 1 .. Len(Program(dt')) + 1 /\ 1 .. pos' - 1 = {}
  <2>1. Len(Program(dt')) \in Nat
    BY <1>1, ProgramOps, LenProperties, Zenon
  <2> QED
    BY <1>1, <2>1
<1>3. StateInv'
  BY <1>1, <1>2, Zenon DEF ConfigInv, StateInv
<1>4. result' # "ok"
  BY <1>1
<1>5. EndInv' /\ EffectInv'
  BY <1>2, <1>4, Zenon DEF EndInv, EffectInv
<1> QED
  BY <1>3, <1>5, Zenon DEF ConfigInv

(* The invariant holds throughout, however the bus fails and wherever resets *)
(* come.                                                                     *)
LEMMA ConfigInvariant == ConfigSpec => []ConfigInv
<1>1. ConfigInv /\ [ConfigNext]_configVars => ConfigInv'
  <2> SUFFICES ASSUME ConfigInv, [ConfigNext]_configVars PROVE ConfigInv'
    OBVIOUS
  <2>1. CASE Operate
    BY <2>1, OperateInv
  <2>2. CASE Check
    BY <2>2, CheckInv
  <2>3. CASE Return
    BY <2>3, ReturnInv
  <2>4. CASE Reset
    BY <2>4, ResetInv
  <2>5. CASE UNCHANGED configVars
    BY <2>5, Zenon DEF configVars, ConfigInv, StateInv, EndInv, EffectInv
  <2> QED
    BY <2>1, <2>2, <2>3, <2>4, <2>5, Zenon DEF ConfigNext
<1> QED
  BY <1>1, ConfigInvInit, PTL DEF ConfigSpec

-----------------------------------------------------------------------------
(* What the invariant says of a successful initialisation                    *)

(* Success means that the whole initialisation was made.                     *)
LEMMA Succeeded ==
  ASSUME ConfigInv, result = "ok"
  PROVE  /\ dt \in Devicetrees
         /\ \A op : clean /\ Changes(op) /\ LastIn(Complete(dt), op) => InEffect(reg, op)
<1> DEFINE p == Program(dt)
<1>1. dt \in Devicetrees /\ pos \in 1 .. Len(p) + 1 /\ pos > Len(p)
  BY Zenon DEF ConfigInv, StateInv, EndInv
<1>2. p \in Seq(Ops(dt)) /\ Len(p) \in Nat
  BY <1>1, ProgramOps, LenProperties, Zenon
<1>3. pos - 1 = Len(p)
  BY <1>1, <1>2
<1>4. /\ dt.size \in Nat
      /\ dt.size <= 32 /\ ~dt.dyn => p = Complete(dt)
      /\ dt.size > 32 \/ dt.dyn => Len(p) # 0 /\ p[Len(p)].do = "stop"
  <2>1. dt.size \in Nat
    BY <1>1, ConfigAssumption, Zenon DEF ConfigAssumption
  <2> QED
    BY <1>1, <2>1, ProgramOps, Zenon
<1>5. \A i \in 1 .. Len(p) : p[i].do # "stop"
  BY <1>3, Zenon DEF ConfigInv, EndInv
<1> HIDE DEF p
<1>6. dt.size <= 32 /\ ~dt.dyn
  <2>1. Len(p) # 0 => Len(p) \in 1 .. Len(p)
    BY <1>2
  <2>2. ~(dt.size > 32) /\ ~dt.dyn
    BY <1>4, <1>5, <2>1, Zenon
  <2> DEFINE size == dt.size
  <2>3. size \in Nat /\ ~(size > 32)
    BY <1>4, <2>2, Zenon
  <2>4. size <= 32
    <3> HIDE DEF size
    <3> QED
      BY <2>3
  <2> QED
    BY <2>2, <2>4, Zenon
<1>7. p = Complete(dt)
  BY <1>4, <1>6, Zenon
<1>8. ASSUME NEW op, clean, Changes(op), LastIn(p, op)
      PROVE  InEffect(reg, op)
  <2>1. PICK i \in 1 .. Len(p) : p[i] = op /\ \A j \in i + 1 .. Len(p) : ~Undoes(p[j], op)
    BY <1>8, Zenon DEF LastIn
  <2> QED
    BY <1>3, <1>8, <2>1, Zenon DEF ConfigInv, EffectInv, p
<1> QED
  BY <1>1, <1>7, <1>8, Zenon

-----------------------------------------------------------------------------
(* The settings are those of the devicetree only when it has an address      *)
(* width of four (with another one the driver logs an error, leaves the      *)
(* addresses and the pipes as they are and reports success), a channel       *)
(* that SetChannel does not clamp and one of the binding's power levels.     *)
Supported(d) == d.width = 4 /\ d.channel <= 125 /\ d.atten \in {0, 6, 12, 18}

(* Every register written whole has the value the devicetree asks for.       *)
LEMMA WrittenSettings ==
  ASSUME ConfigInv, result = "ok", clean, dt.width = 4
  PROVE  /\ \A r \in AddressNames : reg[r] = dt.addr
         /\ \A r \in WidthNames \ {"RX_PW_P0"} : reg[r] = dt.size
         /\ reg["RX_PW_P0"] = 2
         /\ dt.channel <= 125 => reg["RF_CH"] = dt.channel
         /\ reg["SETUP_AW"] = 2
         /\ reg["SETUP_RETR"] = IF dt.ack THEN 35 ELSE 0
         /\ reg["EN_AA"] = IF dt.ack THEN 0 .. dt.pipes - 1 ELSE {}
<1>1. dt \in Devicetrees
  BY Succeeded, Zenon
<1>2. ASSUME NEW r, NEW v, LastIn(Complete(dt), Write(r, v))
      PROVE  reg[r] = v
  <2>1. Write(r, v).do = "write" /\ Write(r, v).reg = r /\ Write(r, v).val = v
    BY Zenon DEF Write
  <2>2. InEffect(reg, Write(r, v))
    BY <1>2, <2>1, Succeeded, Zenon DEF Changes
  <2> QED
    BY <2>1, <2>2, Zenon DEF InEffect
<1>3. (dt.width - 2) % 4 = 2
  OBVIOUS
<1>4. /\ \A r \in AddressNames : reg[r] = dt.addr
      /\ \A r \in WidthNames \ {"RX_PW_P0"} : reg[r] = dt.size
      /\ reg["RX_PW_P0"] = 2
      /\ dt.channel <= 125 => reg["RF_CH"] = dt.channel
  BY <1>1, <1>2, WrittenLast, Zenon
<1> DEFINE aw == (dt.width - 2) % 4
           retr == IF dt.ack THEN 35 ELSE 0
           aa == IF dt.ack THEN 0 .. dt.pipes - 1 ELSE {}
<1>5. /\ LastIn(Complete(dt), Write("SETUP_AW", aw))
      /\ LastIn(Complete(dt), Write("SETUP_RETR", retr))
      /\ LastIn(Complete(dt), Write("EN_AA", aa))
  BY <1>1, WrittenLast, Zenon
<1>6. reg["SETUP_AW"] = aw /\ reg["SETUP_RETR"] = retr /\ reg["EN_AA"] = aa
  <2> HIDE DEF aw, retr, aa
  <2> QED
    BY <1>2, <1>5, Zenon
<1> QED
  BY <1>3, <1>4, <1>6, Zenon

(* Every bit of the others is as the devicetree asks for.                    *)
LEMMA BitSettings ==
  ASSUME ConfigInv, result = "ok", clean, dt.width = 4
  PROVE  /\ "DR" \in reg["RF_SETUP"] <=> dt.rate2
         /\ "LNA" \in reg["RF_SETUP"] <=> dt.lna
         /\ "PWR_LOW" \in reg["RF_SETUP"] <=> "PWR_LOW" \in PowerBits(dt.atten)
         /\ "PWR_HIGH" \in reg["RF_SETUP"] <=> "PWR_HIGH" \in PowerBits(dt.atten)
         /\ "EN_CRC" \in reg["NRF_CONFIG"] <=> dt.crc
         /\ "CRCO" \in reg["NRF_CONFIG"] <=> dt.crc2
         /\ "MASK_RX_DR" \notin reg["NRF_CONFIG"] /\ "MASK_TX_DS" \notin reg["NRF_CONFIG"]
         /\ "MASK_MAX_RT" \notin reg["NRF_CONFIG"] /\ "PRIM_RX" \notin reg["NRF_CONFIG"]
         /\ "PWR_UP" \in reg["NRF_CONFIG"]
         /\ 0 .. dt.pipes - 1 \subseteq reg["EN_RXADDR"]
<1>1. dt \in Devicetrees
  BY Succeeded, Zenon
<1>2. ASSUME NEW r, NEW b, NEW v, LastIn(Complete(dt), SetBit(r, b, v))
      PROVE  b \in reg[r] <=> v
  <2>1. /\ SetBit(r, b, v).do = "bit" /\ SetBit(r, b, v).reg = r
        /\ SetBit(r, b, v).bit = b /\ SetBit(r, b, v).val = v
    BY Zenon DEF SetBit
  <2>2. InEffect(reg, SetBit(r, b, v))
    BY <1>2, <2>1, Succeeded, Zenon DEF Changes
  <2>3. SetBit(r, b, v).do # "write"
    BY <2>1
  <2> QED
    BY <2>1, <2>2, <2>3, Zenon DEF InEffect
<1> DEFINE rate == dt.rate2
           lna == dt.lna
           crc == dt.crc
           crc2 == dt.crc2
           low == "PWR_LOW" \in PowerBits(dt.atten)
           high == "PWR_HIGH" \in PowerBits(dt.atten)
<1>3. /\ LastIn(Complete(dt), SetBit("RF_SETUP", "DR", rate))
      /\ LastIn(Complete(dt), SetBit("RF_SETUP", "LNA", lna))
      /\ LastIn(Complete(dt), SetBit("NRF_CONFIG", "EN_CRC", crc))
      /\ LastIn(Complete(dt), SetBit("NRF_CONFIG", "CRCO", crc2))
      /\ LastIn(Complete(dt), SetBit("RF_SETUP", "PWR_LOW", low))
      /\ LastIn(Complete(dt), SetBit("RF_SETUP", "PWR_HIGH", high))
  BY <1>1, BitsLast, Zenon
<1>4. /\ "DR" \in reg["RF_SETUP"] <=> rate
      /\ "LNA" \in reg["RF_SETUP"] <=> lna
      /\ "EN_CRC" \in reg["NRF_CONFIG"] <=> crc
      /\ "CRCO" \in reg["NRF_CONFIG"] <=> crc2
      /\ "PWR_LOW" \in reg["RF_SETUP"] <=> low
      /\ "PWR_HIGH" \in reg["RF_SETUP"] <=> high
  <2> HIDE DEF rate, lna, crc, crc2, low, high
  <2> QED
    BY <1>2, <1>3
<1>5. /\ "MASK_RX_DR" \notin reg["NRF_CONFIG"] /\ "MASK_TX_DS" \notin reg["NRF_CONFIG"]
      /\ "MASK_MAX_RT" \notin reg["NRF_CONFIG"] /\ "PRIM_RX" \notin reg["NRF_CONFIG"]
      /\ "PWR_UP" \in reg["NRF_CONFIG"]
  BY <1>1, <1>2, BitsLast, Zenon
<1>6. \A n \in 0 .. dt.pipes - 1 : n \in reg["EN_RXADDR"]
  BY <1>1, <1>2, BitsLast, Zenon
<1> QED
  BY <1>4, <1>5, <1>6, Zenon

(* After an initialisation that returns 0 and in which no operation failed   *)
(* on the bus, acknowledgements are sent and awaited only where the          *)
(* devicetree says so, and every configured pipe listens.                    *)
THEOREM PipesAreServed ==
  (\A d \in Devicetrees : d.width = 4) => (ConfigSpec => []PipesServed)
<1> SUFFICES ASSUME \A d \in Devicetrees : d.width = 4
             PROVE  ConfigSpec => []PipesServed
  OBVIOUS
<1>1. ConfigInv => PipesServed
  <2> SUFFICES ASSUME ConfigInv, result = "ok", clean
               PROVE  /\ 0 .. dt.pipes - 1 \subseteq reg["EN_RXADDR"]
                      /\ reg["EN_AA"] = (IF dt.ack THEN 0 .. dt.pipes - 1 ELSE {})
                      /\ reg["SETUP_RETR"] = 0 <=> ~dt.ack
    BY Zenon DEF PipesServed
  <2>1. dt.width = 4
    BY Succeeded, Zenon
  <2>2. /\ 0 .. dt.pipes - 1 \subseteq reg["EN_RXADDR"]
        /\ reg["EN_AA"] = (IF dt.ack THEN 0 .. dt.pipes - 1 ELSE {})
        /\ reg["SETUP_RETR"] = IF dt.ack THEN 35 ELSE 0
    BY <2>1, WrittenSettings, BitSettings, Zenon
  <2>3. reg["SETUP_RETR"] = 0 <=> ~dt.ack
    <3>1. 35 # 0
      OBVIOUS
    <3> QED
      BY <2>2, <3>1, Zenon
  <2> QED
    BY <2>2, <2>3, Zenon
<1> QED
  BY <1>1, ConfigInvariant, PTL

(* The power bits are the binding's level.                                   *)
LEMMA PowerLevel ==
  ASSUME NEW d, d.atten \in {0, 6, 12, 18}
  PROVE  /\ "PWR_LOW" \in PowerBits(d.atten) <=> Level(d) % 2 = 1
         /\ "PWR_HIGH" \in PowerBits(d.atten) <=> Level(d) \div 2 = 1
<1>1. CASE d.atten = 0
  <2>1. Level(d) = 3 /\ PowerBits(d.atten) = {"PWR_LOW", "PWR_HIGH"}
    BY <1>1 DEF Level, PowerBits
  <2> QED
    BY <2>1
<1>2. CASE d.atten = 6
  <2>1. Level(d) = 2 /\ PowerBits(d.atten) = {"PWR_HIGH"}
    BY <1>2 DEF Level, PowerBits
  <2> QED
    BY <2>1
<1>3. CASE d.atten = 12
  <2>1. Level(d) = 1 /\ PowerBits(d.atten) = {"PWR_LOW"}
    BY <1>3 DEF Level, PowerBits
  <2> QED
    BY <2>1
<1>4. CASE d.atten = 18
  <2>1. Level(d) = 0 /\ PowerBits(d.atten) = {}
    BY <1>4 DEF Level, PowerBits
  <2> QED
    BY <2>1
<1> QED
  BY <1>1, <1>2, <1>3, <1>4

(* An initialisation that returns 0 and in which no operation failed on the  *)
(* bus leaves exactly the settings of its devicetree, whatever an earlier    *)
(* one that failed, was interrupted or belonged to other firmware left       *)
(* behind.                                                                   *)
THEOREM SettingsAreRestored ==
  (\A d \in Devicetrees : Supported(d)) => (ConfigSpec => []SettingsRestored)
<1> SUFFICES ASSUME \A d \in Devicetrees : Supported(d)
             PROVE  ConfigSpec => []SettingsRestored
  OBVIOUS
<1>1. ConfigInv => SettingsRestored
  <2> SUFFICES ASSUME ConfigInv, result = "ok", clean
               PROVE  \A r \in DOMAIN Wanted(dt) : reg[r] = Wanted(dt)[r]
    BY Zenon DEF SettingsRestored
  <2>1. /\ dt.width = 4 /\ dt.channel <= 125 /\ dt.atten \in {0, 6, 12, 18}
    BY Succeeded, Zenon DEF Supported
  <2>2. /\ reg["RF_SETUP"] \subseteq RfBits /\ reg["NRF_CONFIG"] \subseteq NrfBits
    BY Zenon DEF ConfigInv, StateInv
  <2> DEFINE rf == {b \in {"DR", "LNA", "PWR_LOW", "PWR_HIGH"} :
                      \/ b = "DR" /\ dt.rate2
                      \/ b = "LNA" /\ dt.lna
                      \/ b = "PWR_LOW" /\ Level(dt) % 2 = 1
                      \/ b = "PWR_HIGH" /\ Level(dt) \div 2 = 1}
             config == {b \in {"PWR_UP", "EN_CRC", "CRCO"} :
                          \/ b = "PWR_UP"
                          \/ b = "EN_CRC" /\ dt.crc
                          \/ b = "CRCO" /\ dt.crc2}
             named == [RX_PW_P0 |-> 2, RF_CH |-> dt.channel, SETUP_AW |-> dt.width - 2,
                       RF_SETUP |-> rf, NRF_CONFIG |-> config]
  <2>3. reg["RF_SETUP"] = rf
    <3>1. /\ "DR" \in rf <=> dt.rate2
          /\ "LNA" \in rf <=> dt.lna
          /\ "PWR_LOW" \in rf <=> "PWR_LOW" \in PowerBits(dt.atten)
          /\ "PWR_HIGH" \in rf <=> "PWR_HIGH" \in PowerBits(dt.atten)
      BY <2>1, PowerLevel
    <3>2. rf \subseteq RfBits
      BY DEF RfBits
    <3> HIDE DEF rf
    <3>3. \A b \in RfBits : b \in reg["RF_SETUP"] <=> b \in rf
      BY <2>1, <3>1, BitSettings DEF RfBits
    <3> QED
      BY <2>2, <3>2, <3>3
  <2>4. reg["NRF_CONFIG"] = config
    <3>1. /\ "PWR_UP" \in config
          /\ "EN_CRC" \in config <=> dt.crc
          /\ "CRCO" \in config <=> dt.crc2
          /\ "MASK_RX_DR" \notin config /\ "MASK_TX_DS" \notin config
          /\ "MASK_MAX_RT" \notin config /\ "PRIM_RX" \notin config
      OBVIOUS
    <3>2. config \subseteq NrfBits
      BY DEF NrfBits
    <3> HIDE DEF config
    <3>3. \A b \in NrfBits : b \in reg["NRF_CONFIG"] <=> b \in config
      BY <2>1, <3>1, BitSettings DEF NrfBits
    <3> QED
      BY <2>2, <3>2, <3>3
  <2> HIDE DEF rf, config
  <2>5. /\ DOMAIN named = {"RX_PW_P0", "RF_CH", "SETUP_AW", "RF_SETUP", "NRF_CONFIG"}
        /\ named["RX_PW_P0"] = 2 /\ named["RF_CH"] = dt.channel
        /\ named["SETUP_AW"] = dt.width - 2
        /\ named["RF_SETUP"] = rf /\ named["NRF_CONFIG"] = config
    BY Zenon
  <2>6. Wanted(dt) = Settings(named, dt.size, dt.addr)
    BY Zenon DEF Wanted, rf, config
  <2> HIDE DEF named
  <2>7. dt.width - 2 = 2
    BY <2>1
  <2>8. \A r \in DOMAIN named : reg[r] = named[r]
    <3>1. reg["RX_PW_P0"] = 2 /\ reg["RF_CH"] = dt.channel /\ reg["SETUP_AW"] = 2
      BY <2>1, WrittenSettings, Zenon
    <3> QED
      BY <2>3, <2>4, <2>5, <2>7, <3>1, Zenon
  <2>9. \A r \in WidthNames \ DOMAIN named : reg[r] = dt.size
    <3>1. "RX_PW_P0" \in DOMAIN named
      BY <2>5
    <3> QED
      BY <2>1, <3>1, WrittenSettings, Zenon
  <2>10. \A r \in AddressNames : reg[r] = dt.addr
    BY <2>1, WrittenSettings, Zenon
  <2>11. ASSUME NEW r \in AddressNames \cup WidthNames \cup DOMAIN named
         PROVE  reg[r] = IF r \in DOMAIN named THEN named[r]
                         ELSE IF r \in WidthNames THEN dt.size ELSE dt.addr
    BY <2>8, <2>9, <2>10, Zenon
  <2>12. Wanted(dt) = [r \in AddressNames \cup WidthNames \cup DOMAIN named |->
                         IF r \in DOMAIN named THEN named[r]
                         ELSE IF r \in WidthNames THEN dt.size ELSE dt.addr]
    BY <2>6, Domains, Zenon DEF Settings
  <2> QED
    BY <2>11, <2>12, Zenon
<1> QED
  BY <1>1, ConfigInvariant, PTL
=============================================================================
