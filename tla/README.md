# Models of the JZ-F407VET6 Zephyr applications

The repository holds nine independent Zephyr applications for the
JZ-F407VET6 board (STM32F407), two of them with a device driver of their own,
and the scripts some of them talk to. This directory models their behaviour in
TLA+, checks the models with TLC and proves the most important results with
TLAPS. The largest part is the driver that has the most to get wrong, the nRF24L01
radio: a radio that acts on its own, an interrupt, a work queue thread and a
calling thread meet in it. The TCP and TLS samples with their servers follow, then
the small samples: Alice and Bob over the radio, the Zenoh publisher, LittleFS, the
display driver and the EEPROM boot counter.

## 1. Inventory

| Part | State it keeps | Operations | Interaction |
|---|---|---|---|
| nRF24L01 driver (`nrf24l01/drivers/nrf24l01/nrf24l01.c`) | `is_listening`, `write_ret_code`, message queue, semaphore, work item; the chip's registers and FIFOs | `nrf24_read`, `nrf24_write`, `irq_callback_handler`, `work_queue_callback_handler`, `nrf24l01_init` | SPI and CE to the chip, IRQ pin back, system work queue, calling thread |
| nrf24 sample (`nrf24l01/src/main.c`) | none beyond a buffer | Alice writes then reads, Bob reads then writes, Eve reads | two boards over the air |
| SSD1316 driver (`ssd1316/drivers/display/ssd1316.c`) | current pixel format | write, blanking on/off, pixel format, init | display RAM behind I2C or SPI, LVGL above |
| SSD1316 application (`ssd1316/src/main.c`) | uptime counter, time of next update | loop | LVGL |
| TCP client, server (`tcp/`) | socket, receiver thread | connect, send, receive, reconnect; accept, serve | TCP between board and PC |
| TLS client, server (`tcp_tls/`) | credential, socket, receiver thread | load certificate, connect, send, receive; accept, a thread per client | TLS between board and PC |
| Zenoh publisher (`publisher/`) | session, tasks, publisher | open, declare, put, close | router |
| AT24C02 boot counter (`AT24C02/`) | magic and counter in EEPROM | read, increment, write at boot | I2C EEPROM |
| LittleFS demo (`littlefs/`) | two files | write, read back; wipe and reboot | flash |
| GPIO test (`gpio_test/`) | LED levels | button thread, printing thread | shared GPIO |
| I2C scanner (`i2c_scanner/`) | none | scan | I2C |
| Font generator, board files | none | | |

What makes each part correct, and what is hard about it:

* **nRF24L01 driver.** A packet reaches the caller in the order it was heard and
  at most once; what a write returns is the fate of its own payload; reception
  never stops for good; a reader's radio is in receiver mode. Hard: four actors
  at their own pace, flags that are cleared all at once, an edge interrupt that
  is disabled while the work is done, a time-out racing the answer, SPI errors
  that read as 0, and a chip that keeps its state over a reset of the processor.
* **nrf24 sample.** Alice and Bob keep alternating. Hard: a message lost without
  acknowledgement leaves both reading, a lost acknowledgement leaves both writing, and
  a third board answers in the other's stead.
* **SSD1316.** The window sent to the display lies inside it and matches the data, and the
  format reported is the one shown. Hard: a transfer that reports an error may have
  taken effect.
* **TCP and TLS.** One receiver per connection, on the connection's own socket; the
  client always reconnects; the server serves the next client. Hard: the receiver
  is never joined and its control block is used again.
* **Publisher.** It returns to publishing after every failure. Hard: a round that fails
  half-way keeps what it opened.
* **Boot counter, LittleFS.** What is stored survives a power loss at any moment, and a
  wipe is complete. Hard: the wipe works under a mounted file system, and a file is
  overwritten without being truncated.

`PROJECT.json` lists the hazards with the lines where they bite and the properties that
cover them.

## 2. Plan

Order of work, the most important first:

1. the nRF24L01 driver: chip, shared paths, trigger build, polling build, boot
   (done: section 3);
2. the driver's configuration: the registers `nrf24l01_init` derives from the
   devicetree, over resets (done: section 3);
3. the TCP pair, then the TLS pair, which share their client (done: section 4);
4. the boot counter (done: section 5);
5. Alice, Bob and Eve over a channel that loses packets and acknowledgements, a call of
   the driver being one step; the publisher; LittleFS with both of its builds; the display
   driver (done: section 5). A refinement from `Nrf24Trigger` to the one-step calls of
   `Nrf24Pair` was planned and left out: a call takes its verdict and leaves its
   packet at different moments, and what `Nrf24Pair` needs of them is `VerdictMatches` and
   `MailboxSpec`, which are proved.

Every safety property of the passing runs is stated by a theorem; what remains with TLC
is liveness. Proofs still worth having: lemmas behind the liveness properties that are safety
themselves, such as that a raised flag always has somebody on the way to clear it
(`EdgeAcknowledged`), as `PromptInv` says of the flags of a write.

## 3. The nRF24L01 driver

### Modules

| Module | What it is |
|---|---|
| `Nrf24Spi` | the driver's register helpers, with an SPI bus that may fail |
| `Nrf24Chip` | the radio: registers as sets of raised bits, FIFOs, CE; CE and STATUS helpers; what the chip does on its own |
| `Nrf24Mode` | the paths of `nrf24_read` and `nrf24_write` that both builds share: switching direction and starting a transmission |
| `Nrf24Trigger` | the build with `CONFIG_NRF24L01_TRIGGER`: interrupt, work queue handler, message queue, semaphore, time-outs |
| `Nrf24Boot` | `nrf24l01_init` in front of `Nrf24Trigger`, and resets of the microcontroller |
| `Nrf24Polling` | the build without `CONFIG_NRF24L01_TRIGGER` |
| `Nrf24Config`, `MCNrf24Config` | the register file `nrf24l01_init` programs from the devicetree, and the devicetree nodes of its run |
| `RadioMailbox` | what the receiving half promises: in order, at most once, nothing invented; loss allowed |
| `Nrf24ModeProofs` | proofs about the shared paths |
| `Nrf24TriggerProofs`, `Nrf24VerdictProofs`, `Nrf24SwitchProofs` | proofs about the trigger build: types, token, packets and boot; verdicts; switching and time-outs |
| `Nrf24PollingProofs`, `Nrf24ConfigProofs` | proofs about the polling build and the configuration |

### How state and actions correspond to the code

Each action is one SPI transaction or one GPIO or kernel call with the local
code around it. `spi_transceive_dt` holds the bus for a transaction, so a
transaction is atomic and anything may happen between two: `set_register_bit`
(243-261) is a read and a write of CONFIG or EN_RXADDR, registers that nobody but
the calling thread changes, and is one step; reading STATUS and clearing it
(228-241) is one step because the value written does not depend on the value
read (all three flags are ones whatever was read).

* `status`, `config`, `enRxaddr`, `rxPw0`, `ce`, `rxFifo`, `txFifo` are the
  chip's; of each register only the bits the control flow depends on are kept.
  Packets and payloads are numbers: the n-th packet heard, the n-th write.
* `pc` is the calling thread in `nrf24_read` or `nrf24_write`; `hpc` the work
  queue thread in `work_queue_callback_handler`; `bpc` the initialisation.
* `armed` and `edge` are the GPIO interrupt, `queued` the work item, `rxQueue`,
  `sem` and `retCode` the fields of `nrf24l01_data` of the same purpose.
* `arrived`, `sent`, `results`, `lastRead` and `writes` record history for the
  properties and bound the model.

A failed SPI transaction (`SpiFaults`) leaves the chip as it was; a read then
returns 0, the empty set, and the driver goes on as it does in the code, so
that a bit written back after a failed read wipes the others. A failed GPIO
call (`GpioFaults`) leaves the level or the interrupt as it was.

Outside `src/`, and modelled from how the driver uses it: the chip (it receives
while powered up, in receiver mode and with CE high; with a full FIFO packets are
lost and payloads refused; a raised MAX_RT blocks transmission; with a payload
to send and CE pulsed it transmits), the kernel's queue, semaphore and work
queue, and the EXTI line of the processor, which latches an edge only while the
interrupt is enabled.

Scheduling is a constant. `WorkOutranksApp` says that the system work queue
(cooperative by default) runs before `main` (preemptible, priority 0), as in the
shipped build; `PromptWork` says that a write is answered within
`CONFIG_NRF24L01_WRITE_TIMEOUT` if it is answered at all: 100 ms against
4 attempts of at most 4 ms plus air time. With both FALSE the actors are
completely asynchronous. The properties whose truth needs one of them say so.

`Nrf24Config` looks at the same initialisation from another side: the values of
all registers it writes. Its program is the sequence of register operations
of `nrf24l01_init`, made from a devicetree node, one operation a step; each may fail,
and a reset may come between any two and start firmware built from another
node. CE, FIFOs, flags and ACTIVATE are left to `Nrf24Boot` or out.

### Runs

| Run | Question | Bounds |
|---|---|---|
| `Nrf24Trigger_shipped` | shipped priorities: no time-outs, no packet mistaken for an acknowledgement | 3 packets, 3 writes, FIFOs of 2, queue of 1 |
| `Nrf24Trigger_async` | any interleaving, time-outs included: one server of the radio, verdicts, leftovers in the FIFO, a reader's radio, the mailbox; edges are acknowledged, calls return | 2 packets, 3 writes, FIFOs of 2, queue of 1 |
| `Nrf24Boot_resets` | nothing reaches the work queue before it is ready, unless the processor alone was reset; what initialisation hands over at power-on and after a reset; one server from then on | 2 packets, 2 writes, 1 reset |
| `Nrf24Boot_faults` | initialisation, resets and driver with SPI and GPIO faults: packets stay in order | 2 packets, 1 reset, FIFOs and queue of 2 |
| `Nrf24Polling_live` | verdicts, nothing left behind, the mailbox; a write returns, a packet ends a read | 3 packets, 3 writes, FIFOs of 2 |
| `Nrf24Config_reflash` | every setting is restored, pipes listen and acknowledge as configured | 7 devicetree nodes, 1 reset, 1 failing operation |
| `Nrf24Trigger_pin` | *violated*: the pin can be active with nobody to serve it | |
| `Nrf24Trigger_zero` | *violated*: after a time-out, 0 for a payload that was not sent | |

Why the bounds are enough: with a FIFO of 2 and a queue of 1 (3 and 10 on the device) a
packet behind the one being served and a packet behind a full queue happen with
two packets, a packet that meets a full receive FIFO with three, as in
`Nrf24Trigger_shipped` and `Nrf24Polling_live`. Two writes are needed for one to be
answered by the other's verdict; the third of `Nrf24Trigger_async` finds the transmit
FIFO full of the payloads of two that timed out, so that W_TX_PAYLOAD is ignored. `PayloadAck` is TRUE in all runs because
it adds the failing transmission; without it the chip's behaviour is a subset. (With
acknowledgements off, as in the shipped overlay, the driver sends
W_TX_PAYLOAD_NO_ACK; the model takes the chip to accept it although EN_DYN_ACK
is never set.) The nodes of `MCNrf24Config` are the shipped overlay, one that differs from
it in every setting, the other two power levels, all six pipes, and two that
initialisation refuses (33 bytes, dynamic payload); with one reset every ordered pair of
them occurs, and one failing operation is enough for any register to start
wrong. They keep to an address width of 4, the only one for which the driver programs
its pipes. The `Boot`, `Config` and violated runs that turn deadlock checking off do so
because the system may stop: a failed initialisation or a null handler stops
it, and after its last reset `nrf24l01_init` has returned.

Fairness in the live runs: the interrupt is taken, the work queue runs, the
calling thread runs while it is inside the driver, a payload on air ends in
success or failure, and a time-out expires. All are what the kernel and the
part guarantee; nothing is assumed about packets arriving or about the
caller calling again.

### What the runs show

In the build without interrupts every write returns the fate of its own payload
and nothing is left behind. In the trigger build the same holds until a
write times out; the time-out is the weak point, since it takes neither the payload
out of the FIFO nor the verdict out of the semaphore. What it costs is bounded:
`TxFifoBound` says that a payload is left behind for each write that timed out and
no more, whatever late verdicts later writes take, whatever is cleared unseen and
whatever a flush does to a payload on air; so the FIFO is full, and a write's own payload
refused, only after as many time-outs as it has places. And `ReaderListens` says that
a thread that waits in `nrf24_read` has its radio listening, but for one thing: while
it waits, the handler may serve the verdict of a write given up before and lower CE
for it (`nrf24l01.c:833`). That leaves this read and those after it deaf until the next write,
because `nrf24l01_start_listening` does nothing when `is_listening` is already set. With the shipped
priorities no write times out, and neither happens. The receive path never reorders or
duplicates, even with faults; it can stall, because of the window between
clearing the flags and enabling the interrupt, and it can lag, because one packet
is read per interrupt. After a reset of the processor alone, initialisation
brings the driver and the radio back in step except for a packet received
during initialisation, and except for the window in which the interrupt is
live before the work item has its handler (`NullHandler`). `QuietBeforeReady` shows
that this window is harmless at power-on, because the radio is not yet powered up
when the interrupt is enabled.

`SettingsRestored` holds because every setting is written in both directions:
bits are lowered as well as raised. It is stated for an initialisation that returns 0
and in which no operation failed (`clean`): the driver looks at the result of `test_spi` only
and ignores every other SPI error, so that 0 alone says nothing of the registers.
What is not restored: a pipe once enabled stays enabled
(a node that asks for one pipe gets the two of the chip's reset, and firmware
with fewer pipes after a reset keeps the others; `PipesServed` therefore says that the configured
pipes listen, not that no other does), and after a failed read
`set_register_bit` wipes the rest of its register, which only a later clean
initialisation repairs.

Three places where the code and its documentation differ need no model to see
and are left unstated: the binding allows address widths 3 and 5 (5 is its default), with
which initialisation returns 0 without programming a pipe
(`nrf24l01.c:513`); it allows channel 126, which becomes 125 (`nrf24l01.c:336`); and the comment
at `nrf24l01.c:66` wants registers written in power down or standby, while
RX_PW_P0 is written with the radio receiving (`nrf24l01.c:620`).

### Findings

`PinTriggersRead` and `ZeroMeansSent` state what the Kconfig help and `nrf24.h`
say; each is violated, with the shortest trace in its run. `PROJECT.json` quotes the
lines.

### Proofs

For every value of the constants that satisfies the named assumptions (FIFO and
queue hold at least one entry, the others are numbers or Booleans):

* `TypeCorrect`, `PollTypeCorrect`: types and bounds of both builds. `ChipStepType` and
  `ModeStepType` are the shared part, `SetRegisterBitType` the lemma on
  `nrf24l01_set_register_bit` they rest on. The type invariants are inductive as they stand.
* `OneServer`: `IrqToken`, inductive as it stands: each path through the handler
  keeps the token until it re-arms the interrupt.
* `PollingVerdicts` and `PollingLeavesNothing`: `VerdictMatches` and `NothingLeftOver` of the
  polling build. The inductive invariant says where the loop stands relative to the chip
  (`LoopInv`), where the payload in flight is (`FlightInv`) and that a payload
  not yet written is unknown to the chip (`HistoryInv`).
* `VerdictsAreTrue`: `VerdictMatches` of the trigger build, with GPIO faults allowed.
  `VerdictMatches` alone is not inductive: it does not say where a verdict is
  while the write waits. `VerdictInv` adds that, until a write times out, the
  payload in flight is in exactly one of four situations (`Unsent`, `Flushed`, `Emitted`,
  `Given`), that a raised MAX_RT means nothing on air (`FlagInv`), that payloads
  not yet written are unknown (`HistoryInv`) and that a payload whose write returned
  MAX_RT has left the radio (`PastInv`). `WorkKinds` and `ModeKinds` reduce the
  steps of handler and caller to a few kinds.
* `AckIsNoPacket`, `ReaderHasRadio`, `WritesAnswered`: `NoPacketTakenForAck`, `ReaderListens` and
  `NoTimeout`, each with the invariant it needs. `PathInv` relates registers,
  `is_listening` and the caller's position on the paths of `nrf24l01_start_listening` and
  `nrf24l01_stop_listening`. `FlagSeen`: when the driver does not listen, RX_DR is
  raised only before the flags are cleared, and then the handler does not run. `ListenInv`: pipe 0 has its
  width wherever a reader may come by, and CE is high, unless the handler lowered it; that it then
  serves a write given up, whose verdict it has not yet stored or nobody has taken
  (`LateServed`), follows from the four situations of `VerdictInv`. `PromptInv` says where the answer
  to the write in progress is: on its way out, in a flag whose edge was noticed, with the
  handler, or in the semaphore. The edge is not missed because the flags were
  down when the payload was handed over. The three assume a working SPI bus, the last two
  GPIO as well: a failed read wipes the other bits of a register, and the radio may then
  be powered down, or CE stuck, for good.
* `FifoBounded`: `TxFifoBound`. The number of payloads in the FIFO is not inductive: a payload may
  leave the FIFO while its answer is still to be taken, and an answer may be taken by
  a write whose own payload stays. `Ledger` balances both sides: on one the payloads in
  the FIFO, a payload on air that a flush has removed (`Orphan`), an answer the handler is to give
  (`Due`), a MAX_RT without a payload (`Unmatched`) and the semaphore; on the other the writes given up
  and the one in progress. `FlushInv` is what the handler needs before it flushes, and `PulseInv`, that CE
  is high in transmitter mode only for the pulse of a write, keeps a payload left behind
  from going on air without one. The property assumes both buses to work; with a failing
  GPIO the bound does not hold, because CE may stay high after a write.

* `TriggerInOrder` and `BootInOrder`: `TransitInOrder`, with SPI and GPIO faults and resets. The
  invariant `Arranged` looks at queue, buffer and FIFO each for itself: order inside
  each (`FifoOrder`, `QueueOrder`), everything in the queue before everything in the FIFO
  (`Before`), zeros left by failed reads allowed in the queue. `OrderHeard`, `OrderRead`, `OrderPut` and
  `OrderTake` say that hearing, reading, queueing and taking a packet keep it,
  `PacketKinds` that no step does anything else to packets.
* `TriggerMailbox` and `PollingMailbox`: both builds implement `RadioMailbox`. Initial states map
  to initial states and every step to a step of the mailbox or a stutter. The
  mailbox's channel is, in the polling build, the receive FIFO; in the trigger
  build queue, buffer and FIFO in a row (`InTransit`), so that a handler's step only moves a
  packet along inside it (`PassedOn`, `Grouped`), a caller takes the first (`TakenFirst`) and a full
  queue loses one (`WithoutOne`). `BufferInv` says when the handler holds a packet:
  without it the step that puts it into the queue would invent one. A failing
  SPI bus does just that, a zeroed packet, so `TriggerMailbox` assumes a working one; with
  faults `TriggerInOrder` says what is left. `PollingMailbox` needs no such
  assumption.

* `BootOneServer`: initialisation, at power-on and after every reset, arms the interrupt
  once; from then on `IrqToken` holds (`BootToken`, inductive as it stands).
* `BootQuiet`: until `k_work_init` nothing can raise an interrupt after power-on,
  faults of both buses included. `QuietInv` says why: no configuration bit has
  been written yet, so the radio is powered down and has no flag and nothing on air.
* `BootHandsOver`: without faults initialisation ends as the driver relies on, and
  at power-on in exactly the initial state of `Nrf24Trigger`. `BootInv` follows the
  initialisation step by step: what is already programmed (`Programmed`), that the
  flushed FIFO stays empty (`NothingToSend`), that an interrupt served meanwhile, after a
  reset, is for a packet and leaves no verdict (`ServedQuietly`), and that after
  power-on nothing has happened yet (`Fresh`). `BitWritten` and `PoweredUp` say what the
  register helpers do on a working bus.

* `SettingsAreRestored`, `PipesAreServed`: the two properties of `Nrf24Config`, for any
  set of devicetrees, faults and resets. The program of `nrf24l01_init` is a sequence of
  operations, and what a register holds at its end is the last operation on it: `Undoes`
  says which operation takes back what another did, `LastIn` that none behind it in a sequence does,
  and `WrittenLast` and `BitsLast` find the last one for every register and bit. The invariant `ConfigInv`
  consists of the types (`StateInv`), that no error was passed and success is reported at the
  end only (`EndInv`), and that every operation made that none has undone is in effect
  as long as none failed (`EffectInv`). That it holds whatever the registers held
  before is the point: a reset in the middle leaves anything.

  Both speak of an initialisation in which no operation failed, as their properties do, and
  both make assumptions on the nodes. `PipesAreServed` needs an address width of 4: with the
  others the binding allows the driver skips the addresses, the widths and the
  enabling of the pipes, and still succeeds (`nrf24l01.c:513`). `SettingsAreRestored` also needs a
  channel of at most 125, because 126 is clamped, and one of the binding's four power levels
  (`Supported`). The nodes of the run satisfy both.

Only model-checked: liveness (`EdgeAcknowledged`, `CallsReturn`, `WriteReturns`, `PacketEndsRead`),
which needs ENABLED and fairness and is outside what TLAPS proves. No module uses recursion.

## 4. The TCP and TLS samples

`StreamClient` is the client loop both samples share; `TcpLink` adds `tcp/server.py`,
`TlsLink` the certificate, the handshake and `tcp_tls/server.py`.

* `pc` and `sock` are the main thread and the descriptor it works with, `fds` and `at` the
  descriptor table and what is behind each descriptor. `rx` is the receiver thread
  with the descriptor it was handed; `rx.conn` records the connection it was created for.
* `conn[c]` is a connection as its two ends see it: `cl` and `sv` how far each end is,
  `up` and `down` what is under way in either direction, counted and not told
  apart, `cut` whether the path (or one end's memory of it) is gone. An end learns of
  the other's fate only through its calls: a FIN behind the data (`PeerClosed`), a reset
  in answer to what it sent, or a time-out of what it sent (`ResetClient`, `ResetServer`).
* `spc` and `cur` are the server's accept loop; in `tcp/server.py` it serves its client
  itself, in `tcp_tls/server.py` it makes the handshake and starts two threads for each
  client, `HandleRecv` and `SendPeriodic`. The TLS handshake goes flight by flight: `Handshake` is the
  client's side in `zsock_connect`, `WrapSocket` the server's in `wrap_socket`, each
  waiting for what the other sends; the connection may be reset, cut or closed
  between any two of them.
* Faults: a socket that cannot be made, a connection refused or lost, a path cut, a board reset,
  a missing certificate, a failed handshake, a server stopped by Ctrl+C, together at
  most `MaxFaults`. One socket call is one step.

The model rests on two facts about time and the kernel, both in `Pause`: a
receiver that is able to run gets to run during the main thread's pause of 1 or 5
seconds, and closing a socket wakes a thread blocked in `zsock_recv` on it. They are
what makes `OneReceiver` true: nothing in the code joins or aborts the receiver
before `k_thread_create` takes its stack and control block again.

| Run | Question | Bounds |
|---|---|---|
| `TcpLink_faults` | one receiver, on its own connection; descriptors given back; a session the server closed ends on the board; the two find each other again | 2 descriptors, 4 connections, 3 faults, window and backlog of 2 |
| `TlsLink_faults` | the host drops a client that vanished; the two find each other again | 2 descriptors, 5 connections, 2 faults, window and backlog of 2 |
| `TlsLink_exit` | *violated*: only Ctrl+C ends the server | 1 fault |

The bound on connections never keeps the board from reconnecting: in the TCP pair there is one
connection more than there are faults; in the TLS pair the board also gives up connections that
wait in the backlog behind one whose client vanished, two of them and one more when the first is
accepted, before the server has either ended or been stopped. Allowing more adds no state. Two descriptors are enough for one to be given out again or leaked; a window
of 2 for a full one; a backlog of 2 for the new connection waiting behind a dead one.
The runs turn deadlock checking off because the system may really stop: the TLS
client without its certificate, the TLS server after it exited, and the TCP pair after a
silent loss. TLC shows the last: the board restarts, the server stays in `recv` on
the connection it does not know to be dead, and the board's new connection sits in
the backlog until its window is full.

Fairness: both processes and the receiver thread are scheduled (each thread of
the TLS server for itself), the TCP stacks do answer or time out, and a server
that was stopped is started again. `Recovers` excludes runs with a silent loss,
for the reason just given. `TlsRecovers` needs no such exclusion, because the line the
host sends every second makes it notice (`DeadClientsDropped`). It excludes the three
states that have no way out: a missing certificate, a server that exited, and `Hung`. The last is
the accept loop in `wrap_socket`, which has no time-out, waiting for the ClientHello or for
the second flight of a client that vanished; when nothing the server sent is unacknowledged no
answer of the network tells it so, no client is accepted any more, and the property fails
without that exception. `WF(WrapSocket)` lets a handshake end only when its step has something
to end with: a message, a connection closed, or a flight that is never acknowledged.

*Finding.* `tcp_tls/server.py` calls `wrap_socket` where only a time-out is caught: a client
lost during its handshake ends the server for everyone (`OnlyCtrlCExits`).

*Proofs* (`LinkProofs`, about both pairs), for any set of descriptors and any
bounds: `TcpOneReceiver`, `TcpReceiverKeepsItsConnection`, `TcpSocketsReturned` and the same three for
TLS. None is inductive alone: that the descriptor of a running receiver does not
name another connection needs that no receiver runs when a descriptor is given out,
which needs that the pause only begins with all descriptors closed, so that
the receiver's `recv` returns. `SessionInv` is the conjunction; each action of the client keeps it
(`MainStep`, `RxStep`, `ResetStep`, `TlsMainStep`), and the servers and the network do not touch
what it is about (`OthersStep`). The client is the same in both samples, so the three are
model-checked for TCP and proved for both. Liveness is model-checked only.

## 5. The small samples

A board runs the sample it was flashed with and no other, and each of these is small. They
are five modules, and one run for all: `MCSamples` extends the five, `app` is the
sample the board runs, a step is a step of that sample, and the others keep one of
their initial states. Nothing is shared between them, so the states of the run
are the sum of the five and not their product, and a property of one sample is
checked over exactly that sample's behaviours. Each module has its own
specification (`PairSpec`, `PublisherSpec`, `FsSpec`, `PanelSpec`, `CounterSpec`), which the proofs
are about.

### Alice, Bob and Eve (`Nrf24Pair`)

`at` is the call a board is in: in `nrf24_write`, in `nrf24_read`, or in the long sleep
after a message. `listens` is the driver's `is_listening` seen from the air, `inbox` the
packets received and not read, in the radio's FIFO or the driver's queue. `build` is the build
of both boards: with `CONFIG_NRF24L01_TRIGGER` a message is written until a call
returns 0, without it `Copies` times whatever the calls return; with
acknowledgements a write returns 0 when it was answered. A board that runs Eve
listens on the same address and so answers as well. A call of `nrf24_write` is one step, with what
the air did to packet and acknowledgement as its inputs; that its result is its own is
`VerdictsAreTrue` of section 3, that no call times out before it is answered is
`NoTimeout`, and that packets come out as they were heard is `MailboxSpec`.

The sample can stop in two ways, and the two properties say exactly when.
`StuckExplained`: both read, which takes a message that nobody heard and that was
given up for sent; in the trigger build with acknowledgements only Eve can cause
it (she acknowledges in Bob's stead). `DeafExplained`: both write, which takes a lost acknowledgement, after which the
message is written twice and read twice. In the trigger build the second has
no way out. `PairProgress`: unless one of these accidents happens the conversation goes on.

### The publisher (`Publisher`)

`stage` is where `main` is, `linked` the connection of the session it works with, `sessions`
those that hold a connection and two tasks. `z_open` makes its handle own a new session; what the
handle owned is lost, not dropped. That happens when a publisher could not be
declared (line 59): `SessionsAccounted` says that this is the only way to keep a session, and
`PublisherProgress` that the sample comes back to publishing after every failure of router and
calls until `CONFIG_NET_MAX_CONN` sessions were lost in this way, and never again
after that. A put that succeeds may still be in a buffer, so a lost connection ends
the inner loop only some puts later. Taking the interface down and up is one step
with no effect on the other state: nothing that is open then belongs to `main`.

### LittleFS (`LittleFs`)

The board's devicetree mounts the partition before `main` and formats it when it holds no
file system. `random` is `random.txt` with, for each digit, the boot that wrote it; `hello` the boot
that wrote `hello.txt`. `Wipe` erases under the mounted file system, or fails
unnoticed; `FsRestart` is the restart the wipe build asks for, and a loss of power or a board
flashed with the other build at any moment. The file system is external: a file
that was closed survives, one that was not is as before. `NothingBeforeWipe` is what the
Kconfig option promises. `TailIsOlder` says what `random.txt` really holds: the file is opened
without truncation, so behind the newest number stand the ends of older and
longer ones, newest first.

### The display driver (`Ssd1316`)

`pf` is `data->pf`; `reversed`, `lit` and `ram` are the panel's. A transfer may report an error
whether or not it took effect. `FormatShown`: the format reported, which is also the one for
which `set_pixel_format` returns early (line 149), is the one shown, except after a change
that reported an error, which asking for the recorded format again does not repair. `WriteLands`: a write
changes nothing outside the rectangle asked for, even when that is cut at the edge
of the panel while the buffer is sent whole and starts the window again; and when it
returned 0 and fitted, each byte is in its place. Callers give heights in multiples of 8 and start
inside the panel, as the controller's page layout and `SCREEN_INFO_MONO_VTILED` ask.

### The boot counter (`BootCounter`)

`AT24C02/src/main.c` with the EEPROM it writes to: read, compare the
magic number, count, write back; a reset or a loss of power at any point; a bus that may
fail. A write that is interrupted, or that reports an error (`EepromError`), may come to that before, while or after the bytes
are programmed: it leaves the old bytes, the new ones or any mixture of
both (`Torn`). A write that reports success is taken to be there. The counter is two digits of base `Base`.

`CountsEveryBoot` says what the stored counter is worth: until a write leaves a mixture it is at least
the number of writes that reported success, and at most that and the number of
writes that did not. `Increasing` is what the last line of the program
promises its reader, "Reset the MCU to see the increasing boot counter": after a boot that
printed it the next number is one more, and for each write since that was
interrupted or failed one more again at most, because such a write may have counted its boot. Beyond
that nothing protects the pair: a mixture may be a counter that is
neither the old nor the new one, and the program takes it for good.

### The run

| Run | Question | Bounds |
|---|---|---|
| `Samples` | the properties above | pair: 2 copies, inbox of 2, 3 messages each; publisher: 2 connections, 5 accidents; LittleFS: numbers of up to 3 digits, 4 boots; panel: 3 columns, 2 pages, buffers up to 4 wide, 2 calls; counter: base 3, 12 boots |

Why they are enough. Two copies are the least that can arrive both, one or none; an
inbox of 2 overflows; with three messages each board answers an answer. Five accidents
leave three when both connections are lost to failed declarations, so that losing them and
failures of the router mix. Four boots hold a write, a wipe, the boot that formats and one
after it; three digits make a tail of two different ages. On a panel of 3 by 2 a buffer 4
wide exceeds it, every write that starts off column 0 can be cut, and 2 calls let one
write over another; the properties relate one call to the memory before it. With base
3 the counter has 9 values, so that carry and wrap-around both happen within 12 boots, after an
initial content of 0 for the other samples and of anything for its own. Deadlock checking is
off because samples really stop: the pair may wait for ever, `main` of LittleFS and of the counter
returns, and the bounds end the rest.

Fairness. `PairFairness`: the boards keep running (weak fairness on each board's
steps), and a message written again and again to a board that listens is at some
time heard and its answer at some time received (strong fairness on that one outcome of
`WriteCall`); nothing is assumed about the copies of a build that stops writing. `PublisherFairness`: `main`
keeps running, and a router that stopped is started again. LittleFS, panel and counter
have safety properties only.

### Proofs (`SamplesProofs`)

For every value of the constants that satisfies the named assumptions:

* `PairStuck`, from `TurnInv`: unless a message went unheard, it is some board's turn to say
  something; a board that was heard and still writes does not listen, so that it is
  its peer's turn.
* `PairDeaf`, from `OneSpeaks`: with the trigger and no acknowledgement lost, at most one
  board has the word, and the other has nothing to read.
* `PublisherSessions`: inductive with the type invariant. `PublisherExhausted` is the half of
  `PublishesAgain` that is safety: `SessionsAccounted` leaves no connection to open once
  `undeclared` is `MaxConn`.
* `FsWipe` and `FsTail`, from one inductive invariant of four parts: types, what is known of a boot
  at each of its steps (`FsInv`), the order of the digits of `random.txt` (`RandomInv`) and
  `NothingBeforeWipe` itself. `OverwrittenIs` is the lemma on overwriting a sequence.
* `PanelFormat`: inductive as it stands, with the initialisation as the base.
* `CounterCounts` and `CounterIncreases`, from `CounterInv`: what is stored is the number counted, and the number
  told, or at most as much more as there were writes in doubt; `ValuesInv` says what `main` holds
  before it writes. `StandsOn` and `StandsInterrupted` say what a write and one in doubt do to such a
  range of numbers, modulo the counter's width.
* `PanelWrites`: `WriteLands`, an action property that needs no invariant but that calls are
  counted. `WindowIs` is the window in pages, `FilledOutside` and `FilledInside` what the data does to
  the memory; that the byte of row i and column j of a rectangle w wide and q high has its place
  i * w + j inside the buffer, and is overwritten by no later one, is the arithmetic in `WriteStep`.

Only model-checked: the two liveness properties, `PairProgress` and `PublisherProgress`.

## 6. Not modelled

In the nRF24L01 driver: `nrf24l01_write_ack_payload` and `nrf24l01_radio_power_down` (never called),
ACTIVATE and the registers behind it (not used by the driver; ACTIVATE is a toggle on this
chip, so a reset of the processor alone locks them again), logging and
`nrf24l01_info`. Payloads move whole: the padding of a message to the payload size, computed in 8
bits, is not modelled, and with more than 64 bytes `memcpy` overruns the buffers of 65
(`nrf24l01.c:425`), which has no behaviour to model. In the display driver: the supply and reset pins, which the overlay does not
have, the panel settings that concern only its optics, and `segment_offset` and
`page_offset`, which the driver does not take from devicetree (both are 0 in the overlay, too); the
conversions of coordinates to 8 and 16 bits (`ssd1316.c:123`) change nothing at the sizes of the run. In the network samples: the text of the messages, the contents of the TLS handshake, and
addresses that do not parse other than as a failed attempt.

Whole parts: the GPIO test (its threads share only the levels of the LEDs, through
atomic calls; `main` has priority 0 against the button thread's 7 and configures the outputs
before the other first runs), the SSD1316 application (it redraws a label; the rest is LVGL), the I2C
scanner (a loop that prints), the font generator and its output, `publisher/src/main copy.c`
(not built), and the board's data files.
