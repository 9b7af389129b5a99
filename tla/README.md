# Verification of the VHDPlus libraries

TLA+ models of the components of `Libraries/` that carry control logic of their
own (hardware for buses and memory, and the EtherCAT master that runs on a soft
core), the TLC configurations that check them on small instances, and TLAPS proofs
of what they promise for every value of their constants. Paths of sources are
relative to `src/`, modules and configurations are in this directory.

- [The system](#the-system)
- [How VHDP becomes TLA+](#how-vhdp-becomes-tla)
- [How C becomes TLA+](#how-c-becomes-tla)
- [Modules](#modules)
- [Runs](#runs)
- [Findings](#findings)
- [What the components need from their users](#what-the-components-need-from-their-users)
- [Fairness](#fairness)
- [Proofs](#proofs)
- [Plan](#plan)
- [What is not modelled](#what-is-not-modelled)

To repeat everything: `tlc -config X.cfg M` for the lines of the table of runs,
`tlapm M.tla` for `I2CMasterProofs`, `I2CStackProofs`, `ListRAMProofs`, `UARTLinkProofs`,
`UARTArrayLinkProofs`, `SPILinkProofs`, `EcServicesProofs` and `EcFramesProofs`.

## The system

VHDPlus is a hardware language that is translated to VHDL. The repository is its
library: components that a user instantiates in an FPGA design, each a handful of
clocked processes with ports, generics and *SeqFunctions* (short procedures that
drive the ports in the right order, such as `write` of the UART). There is no
program and no scheduler: every process runs in every clock, and components
interact through signals only. A component is started by raising a port and shows
that it is at work by a `Busy` output; nearly all that is hard in this part is in
when exactly those levels change, seen from the other side one register later.

The other part, `Libraries/Software`, are libraries in C and C++ for a soft core in
such a design. The largest of them is an EtherCAT master (a port of SOEM). It is one
thread: the application calls a function, which sends frames, waits for them with a
timer and returns. What is concurrent is outside: the slaves with their mailboxes,
and a network that loses, delays and reorders frames. What is hard is that state
outlives the call (a frame that comes after its timeout, a message that nobody
fetched, a toggle bit) and meets the next one.

| Component | State it keeps | Operations | Works with |
|---|---|---|---|
| `Interface/I2C/I2C.vhdp` (I2C_Master_Interface) | clock divider and stretching, 9 bus states, bit count, shift data, acknowledge flag | start, command, bytes, acknowledge, repeated start, stop; reset | the wires SDA and SCL; I2C_Array above |
| `Interface/I2C/I2C_Array.vhdp` | count of busy edges, the request in progress, data read | one request: write some bytes, read some | the master, by the edges of its Busy |
| `Interface/UART/UART.vhdp` | baud and sample counters, a transmitter, a receiver | send a byte, receive a byte; reset | the other UART, with a clock of another phase |
| `Interface/UART/UART_Array.vhdp` | index of the byte to send, number received, timeout | send and receive messages | the UART, by its Busy outputs |
| `Interface/SPI/SPI_Master.vhdp` | event counter, count of clock toggles, two shift buffers | exchange a word, continue with another; reset | a slave, in one of four modes |
| `Basics/Memory/List_RAM.vhdp` | RAM, number of blocks, the move in progress | add, insert, remove, clear, read | a registered RAM port |
| `Basics/Logic_Analyzer` (RAM and SDRAM) | a ring of samples, trigger, copy state | arm, capture, read out | OLS protocol over UART; SDRAM |
| `Hardware/Output/LED_Matrix` | row counter, configuration step | configure, update | SPI_Master |
| `Hardware/Output/SDRAM_HDMI`, `HDMI`, `Hardware/Input/Camera` | row buffers, row and column counters, capture state | capture, store, show | SDRAM controller, three clocks |
| `Interface/UART/UART_String.vhdp`, `Basics/Converter`, `Basics/String_Type.vhdp` | digits and characters | conversions | UART |
| `Interface/I2S` | shift registers, word clock | send and receive samples | a codec |
| `Hardware/Input`, `Hardware/Output` (sensors, motors, strips, displays) | a sequence step, counters | request sequences | UART_Array, I2C_Array, SPI_Master, pins |
| `Basics` (debouncers, PWM, dividers, random) | a counter each | | |
| `Software/Ethernet/EtherCAT`: `oshw/nicdrv.c`, `soem/ethercatbase.c` | receive buffers with a state each, the index given out last | give out an index, send a frame, wait for an answer, repeat | the Ethernet chip; everything above |
| ... process data in `soem/ethercatmain.c` | stack of the indices sent, work counter | send and receive a cycle | the frames |
| ... mailbox and errors in `soem/ethercatmain.c` | mailbox counter; a ring of errors and its flag | send, receive, repeat a lost read; push and pop errors | the slave's mailboxes |
| ... `soem/ethercatcoe.c`, `ethercatfoe.c`, `ethercatsoe.c` | locals of a transfer: bytes done, toggle bit, packet number | read and write objects, files and drive parameters, in segments, packets and fragments | the mailbox |
| ... `soem/ethercateoe.c` | frame number; fragment number, offset and frame of what is received | send and receive Ethernet frames in fragments | the mailbox |
| ... configuration, clocks, printing | tables of slaves | walk the slaves, one command at a time | commands, mailbox |
| `Software`: Modbus, Profinet, sensors, displays | call sequences on a soft core | | network and bus libraries |

What makes each of the modelled components correct, and what makes it hard:

- **I2C master.** SDA may move only while SCL is low, but for start and stop
  conditions; an idle master releases both wires. Hard: the two processes share
  registers one clock apart, a slave may stretch the clock, a reset leaves clock
  registers of another phase behind, and the acknowledge of a byte read is given an
  SCL period before the code decides whether another follows.
- **I2C_Array.** One request is one transfer with exactly the bytes asked for, in
  order, and the data and error of that transfer. Hard: it never sees the state of
  the master, only edges of Busy through one register, and counts them.
- **UART.** Every byte sent is received once, in order. Hard: two integer divisions
  give bit times and sample times whose remainders drift apart, in any phase.
- **UART_Array.** Messages arrive whole. Hard: a timeout against the next byte, and
  the full array that ends a message at once.
- **SPI_Master.** Both sides exchange whole words in all four modes. Hard: one
  toggle counter decides everything, with bounds that differ by one between the
  modes, and a continued word starts in the middle of the one before.
- **List_RAM.** A list whose operations happen at once. Hard: blocks move one per
  clock through a read port with a register, and a block read in one clock is
  written in the next.
- **EtherCAT frames and process data.** A cycle whose work counter is full has brought
  the inputs of this cycle, all of them; what is lost is missed in its own cycle and
  not in later ones; a buffer that is in use comes back. Hard: answers find their way
  by an index that is used again while an older answer may still be under way.
- **EtherCAT mailbox services.** A call reads or writes the whole object or file at
  one point between its start and its return, or says why not. Hard: the read of a
  mailbox empties it even if its answer is lost; a repeated write may be taken twice;
  emergencies come in between; a transfer in segments goes on over all that.
- **EtherCAT error list.** The newest errors in order, and a flag that is up while
  there are some. Hard: a push into the full ring.
- **Ethernet over EtherCAT.** A frame that is handed over is a frame that was sent.
  Hard: fragments get lost, and a call that breaks off leaves the rest of its
  frame to the next.

The hazards, each at the line where it bites and with the properties that would
show it, are in `PROJECT.json`.

## How VHDP becomes TLA+

- One step is one rising edge of the FPGA clock. All processes of a component, and
  of the components on the same clock, step together: `Next` is their conjunction.
- A *signal* read in a step is the unprimed variable; what a process assigns to it
  is the primed one. A `PROCESS` *variable* (VHDL variable) is seen at once by later
  statements: in List_RAM, where it matters, each part of the process is an
  operator on the record `proc`, and the parts are composed in source order.
- Combinational outputs (`SDA`, `SCL`, the parity chains, the latch of `Data_OUT`)
  are operators of the state, not variables.
- Signals without initial value start with every value they can have.
- Generics are CONSTANTS. SPI's `CPol`, `CPha` and `clk_ratio` are variables that
  never change, so that one run has all modes. Bytes are functions or sequences
  of bits whose number is a constant, smaller than 8 in most runs.
- A wire that several drive is low when anybody pulls (I2C); high impedance on
  MOSI is a value of its own.

## How C becomes TLA+

- One step is one thing that another party can see or that can fail: a datagram to
  the slave (the poll of a status register, the read or write of a mailbox), a call
  of `ecx_inframe`, a frame sent, a mailbox message. What the thread does between
  two of these is part of the step.
- `pc` says where the thread is in the loops of the mailbox functions; the locals of
  the service that called are the record `call`. Where `ecx_mbxsend` or
  `ecx_mbxreceive` returns, the action of `EcMailbox` leaves `pc` and `call` open and
  `EcServices` adds what the service does next (`Sent`, `Received`).
- Timers are not counted. A timer may run out at any time, or, where the setup says
  that the slave is in time (`Timely`), only when waiting is in vain.
- Data is counted in units. A first SDO message holds `UnitsFirst`, a segment or a
  packet `UnitsMore`; a block of EoE has `Block`. Contents are short sequences whose
  elements all differ, so that a part left out, doubled or moved is seen. A fragment of SoE
  has `UnitsMore`, too.
- The uninitialized `packetSize` of `hal_ethernet_recv` is a choice per setup: nothing
  comes, or the packet before comes again (`again`). The passing runs have `again` on a
  network that loses nothing only; what it does with a loss is [below](#seen-while-modelling).
- Where the code takes two bytes of a frame as the work counter that are none, the model takes
  any number up to `MaxCounter` (`FoundCounter`).

## Modules

| Module | What it models | From |
|---|---|---|
| `I2CMaster` | the timing generator (`Timing`) and the state machine of the master, one action per state and edge | I2C.vhdp |
| `I2CMasterBus` | the master with any user that keeps its contract and any bus; the bus rules, the inductive invariant | I2C.vhdp |
| `I2CMasterProofs` | proofs about it | |
| `I2CArray` | the controller process `I2C_Controller` | I2C_Array.vhdp |
| `I2CSlave` | an external slave that decodes the wires from their edges and logs what it saw | external |
| `I2CStack` | user, I2C_Array, master, slave on one clock | I2C_Array.vhdp |
| `I2CTransfer` | the abstract specification: a request is one transfer | header of I2C_Array.vhdp |
| `I2CStackProofs` | proofs about the stack | |
| `ListRAM` | the process and the output latch | List_RAM.vhdp |
| `MemoryList` | the abstract specification: a list on which each operation asked for at the ports happens at once | header of List_RAM.vhdp |
| `ListRAMProofs` | proofs about it | |
| `UARTClock`, `UARTTransmit`, `UARTReceive` | the three processes of the UART | UART.vhdp |
| `UARTLink` | a sender's and a receiver's UART on a wire | UART.vhdp |
| `UARTLinkProofs` | proofs about it | |
| `UARTArray` | `TX_Controller`, `RX_Controller`, `RAM_RX_Process` | UART_Array.vhdp |
| `UARTArrayLink` | UART_Array and UART on both ends of a wire | both |
| `UARTArrayLinkProofs` | proofs about it, with those of `UARTLink` for the UARTs inside | |
| `SPIMaster` | the process of the master | SPI_Master.vhdp |
| `SPILink` | master, user and an external slave | SPI_Master.vhdp |
| `SPILinkProofs` | proofs about it | |
| `ErrorList` | the ring of errors and its flag | ethercatmain.c |
| `ErrorQueue` | the abstract specification: a bounded queue that drops the oldest | header of ecx_pusherror |
| `EcMailbox` | ecx_mbxsend, ecx_mbxreceive, ecx_srconfirm of a mailbox write; the slave's mailboxes (external) | ethercatmain.c, nicdrv.c |
| `EcCall` | what the services share: the locals, sending a request, returning | ethercatcoe.c, ethercatfoe.c, ethercatsoe.c |
| `EcCoE`, `EcFoE`, `EcSoE` | read and write of an SDO, of a file, of a drive's IDN | ethercatcoe.c, ethercatfoe.c, ethercatsoe.c |
| `EcServices` | application, services, mailbox, error list and a slave's objects, files and IDNs (external) | all of these |
| `ObjectAccess` | the abstract specification: a call reads or writes the content at one point, or fails for a reason | headers of the services |
| `EcServicesProofs` | proofs about the services and their error list | |
| `EcEoE` | ecx_EOEsend, ecx_EOErecv and ecx_EOEreadfragment, joined | ethercateoe.c |
| `FrameChannel` | the abstract specification: a channel that may lose frames and does nothing else to them | headers of ethercateoe.c |
| `EcFrames` | the receive buffers, their indices, the network | nicdrv.c, SOEM.cpp |
| `EcProcessData` | the process data cycle and single commands over these frames | ethercatmain.c, ethercatbase.c, nicdrv.c |
| `EcFramesProofs` | proofs about `EcProcessData` (types and buffers, then the data) and `EcEoE` | |

Every module `MC*` gives the CONSTANTS that TLC needs as definitions. Which lines a
definition models is in the `map` of `PROJECT.json`. Definitions headed by "A slip"
are plausible mistakes in the code (a dropped guard, an off-by-one); each is used
to see that a property fails when the code is changed that way.

**I2C.** `I2CMaster` has no bus and no user: its step `MasterClock(reset, sda, scl)`
takes the levels it reads, and it is instantiated twice. `I2CMasterBus` closes it
with everything that might be connected (slaves that stretch for ever, or drive at
the wrong time). `I2CStack` closes it with the real controller and with a slave
that follows the protocol. The slave knows nothing of the master's state: it finds
starts, stops and bits in the edges of two wires, so the log it keeps is what was
really sent. The refinement mapping to `I2CTransfer` takes that log as the abstract
`bus`, and the user's waiting as the abstract `working`.

**List_RAM.** The abstract list sees the ports: what is asked for is `Operation`, `Address` and
`Data_IN`, and `Operation_Reg` tells what was asked for before. So an operation that is left out,
done twice, one position off or with another block is no step of `MemoryList`. The refinement
mapping `Item(i)` says where the block with position `i` is while blocks move: an insertion in
progress has moved the blocks above `proc.addr`, those between the position and `proc.addr` are
still one below their place, and the new block is in `inse_data`; a removal the other way round.

**UART.** Sender and receiver have a clock generator each, started at any clocks,
so that the baud pulses of one meet the samples of the other in every phase. The
history variable `line` holds the bytes accepted and not yet received.

**SPI.** The slave takes a bit at the edge its mode says, from the wires alone, and
sends bits as it likes. The history variable `word` is what TX_Data was when the
word was taken, the one the slave must get.

**EtherCAT services.** The refinement mapping to `ObjectAccess` takes the call in progress without
its progress (`Asked`: write or read, data, room) and the result (`Told`); the abstract content is
the slave's `store`. A failure is `refused` only if the slave has refused of its own accord: the
model of the slave tells that apart from an answer to a mistake of the master (`AfterRefusal`),
and the abstract call has no other failure but a buffer that is too small. No history variable is
needed: a write takes place when the last segment, packet or fragment is stored, a read when the
slave takes the first request. SoE reads cut what does not fit (`cuts`), the others fail. A
success with a slave that was busy says so (`busy`, `LeftBusy`): it is the one success that tells
nothing, and is only ever that of a file write. The slave toggles, counts packets and refuses what does not fit, and recognises a repeated request by
the mailbox counter alone. It may stop for good at any point (`Stops`). The application calls with
the error list emptied and while the slave is there (`Calls`), which keeps the states few: what is
left in the list changes nothing in a call, and a call to a slave that is gone is one
whose slave stops as soon as it has begun.

**EtherCAT error list.** `ErrorList` refines `ErrorQueue` by the elements from head to tail
(`Kept`) and what was popped last (`popped`); a place that was popped holds no error (`NoError`, the
code's `Signal`). The services push `ErrorOf[kind]`, and between two calls any other service of
the master pushes any error (`OtherPushes`; the object dictionary reports its failures so), so that
the ring gets full and comes round with errors that differ.

**EtherCAT frames.** A frame carries its cycle and the part of the inputs it is for,
so that the inputs in the IO map tell from which cycle they are. A setup fixes the
frames of a cycle, whether a clock datagram is in the first, when commands come (never,
between cycles, or also between sending and receiving) and what the network may do. Cycles
and commands between them are counted by `turn`: a late frame may meet the next
cycle or command, and is gone before the one after (`NothingOlder`, `Vanish`), wherever the
setup has late frames.

**Ethernet over EtherCAT.** Every unit of data tells its frame and its place. The
abstract frames under way are those with a fragment in the mailboxes, in order, and
the one that is being sent (`Underway`). The slave's functions are not in the
repository; the model joins the master's sender with the master's two receivers,
with a time stamp that only a slave would append. There is one port, so that the check of
the port in `ecx_EOErecv` (line 467) is left out. Faults are bounded over the whole
behaviour (`MaxFaults`, `FewFaults`), which is more than the code needs.

## Runs

All runs check deadlock.

| Run | Configuration | Bounds | Shows |
|---|---|---|---|
| `i2c_master` | `MCI2CMasterBus.cfg` | quarter of 2 clocks, bytes of 2 bits | `SdaDiscipline`, `IdleBusReleased` and the inductive invariant `IInv`, with resets at any clock and any bus |
| `i2c_stack` | `MCI2CStack.cfg` | requests of 2 and 3 bytes: 2 written, 3 written, 1 written then 2 read, 2 read; stretching for 7 clocks or not, at any bit; registers of any level at power-up, then a reset | `ImplementsTransfer`: one request, one transfer, the right data and error; `KeepsReadContract`: the controller keeps what the master needs; `EveryRequestAnswered` |
| `i2c_one_byte` | `MCI2CStack_one_byte.cfg` | a request of one byte | counterexample to `NoExtraBytes` |
| `list_ram` | `MCListRAM.cfg` | 3 blocks of 2 values; 197,816 states | `IInv`, `ImplementsList`, `BusyEnds` |
| `uart_link` | `MCUARTLink.cfg` | bit times of 9 clocks, 4 samples of 2 clocks, 3 data bits and parity, all bytes | `InOrder`, `GoodFrame`, `EverySentByteArrives` |
| `uart_error_flag` | `MCUARTLink_error.cfg` | same, without parity | counterexample to `NoErrorOnGoodLine` |
| `uart_array` | `MCUARTArrayLink.cfg` | messages of up to 3 bytes of 2 bits, array of 3, bit times of 4 clocks, timeout 32; a sender that waits for each message to arrive, and one that does not; 553,946 states | `BytesInOrder`, `RxBusySeen`; `WholeMessages`, `EveryMessageArrives` for the one that waits |
| `spi_link` | `MCSPILink.cfg` | words of 2 bits, events in every clock and in every second, four modes | `SlaveGetsWord`, `MasterGetsWord`, `SelectFramesWords`, `MosiStable`, `TransfersEnd` |
| `ec_services` | `MCEcServices.cfg` | contents of 1 and 4 units, buffers for 3 and 4, 1 unit in the first message and 2 in the next; one mishap: a lost answer, an emergency, or the slave stops; mailbox counter to 2; an error list of 2 and two errors; three services; a slave in time that may refuse or be busy; 1,859,880 states | `ImplementsObjectAccess`, `EveryCallReturns`, `ErrorFlagged`, `ImplementsErrorQueue` |
| `ec_sdo_segment` | `MCEcServices_segment.cfg` | one lost answer to a read; no emergencies, no refusals; a slave that may be late | counterexample to `SegmentsCombined` |
| `ec_process_data` | `MCEcProcessData.cfg` | two buffers, one or two frames per cycle, commands with 2 tries, counters to 7; six setups with lost, late and repeated frames, with and without a clock datagram and commands; 19,622 states | `FullCounterMeansFresh`, `LossEndsWithCycle`, `BuffersReleased`, `AnswersItsQuestion`, `ReceiveReturns` |
| `ec_eoe` | `MCEcEoE.cfg` | frames of 1, 4 and 7 units, with and without a time stamp, blocks of 2 and mailboxes of 3 units; 3 frame numbers; two faults | `ImplementsFrameChannel`, `WholeFrameArrives` for both receivers |

Why the bounds are enough for what they are to show:

- A *byte of two bits* has a first and a last bit, which are the bits the state
  machine of the I2C master treats differently; a third would only be another like
  the others. A *quarter of two clocks* is the smallest at which the code keeps the
  bus rules; stretching for 7 clocks outlasts the half period the master waits in any
  case. Requests of three bytes have a first, a middle and a last byte, in each
  direction and across the repeated start. The proofs remove these bounds for the
  master.
- A list of three blocks has positions at the front, in the middle and at the end,
  moves of more than one block, the empty and the full list. The proofs remove this
  bound too.
- The remainders of the UART's divisions are what matters, not the numbers: 9 clocks
  and 4 samples have a remainder of one clock in every bit, less than a sample as the
  code needs. Three data
  bits and parity make a frame long enough for the drift to add up if it did; the
  samples are aligned anew in every bit, and so it does not. The proofs remove these
  bounds, too, and name the one that matters (`SamplesFit`).
- An array of three bytes fills, and is left half full by the timeout. The
  timeout is 32 clocks against less than 32 from byte to byte of one message: the
  ratio is smaller than any a user would choose.
- Two of the services' contents stand for all: one that fits the first message, and one that needs
  more than two others, the last of which it fills (the case of the empty packet of a file). A
  mailbox counter that goes to 2 wraps around in every second request, as the counter to 7 does in
  every seventh, and only neighbours matter. One mishap meets every datagram of every service; two
  in one transfer are two of these in a row. A mailbox error of the slave, read in place of
  the answer, a refusal and a busy slave are no mishaps and come on top of one.
- A ring that keeps two errors, in three places, is full, empty and in between at each place of
  its end, with errors that differ in it: which one a full ring loses, and their order around the
  end, are seen. The proof has every size.
- Two receive buffers are what the code has (`EC_MAXBUF`). Commands are numbered modulo 3
  and cycles, too: a late frame of the cycle before and one of the cycle before that are told
  apart. The setup with late frames has commands between cycles that are sent twice: the
  answer to the first try, to the second, and the frame of a cycle meet the next command and the next
  cycle, with indices that come round after two.
- A work counter up to 7 is more than the full one of either group, so that garbled bytes can be
  less, more or just that.
- Frames of EoE have one, two and three fragments: a first, a middle and a last. Two faults
  lose any two fragments, or break a frame off and lose a part of the next.
  With three frame numbers, three faults would be enough to hand over a mixture (see
  [below](#seen-while-modelling)).
- SPI words of two bits have a bit that is the first and not the last, and one that is the
  last, and either word sent is the complement of the other. `Ratio` 1 has an
  event in each clock; with `Ratio` 2 there are clocks between events, and more of
  them only count. Every wider word is covered by the proofs.

## Findings

1. **A request of one byte sends it twice** (`i2c_one_byte`, I2C_Array.vhdp:187). With
   `WR_Bytes + RD_Bytes = 1` nothing lowers `i2c_ena` before the master asks for the
   next byte; it takes the same byte again, and Busy of I2C_Array falls in the
   middle of the transfer. The header lets `WR_Bytes` be the number of bytes.
2. **RX_Error reports an error on a good line** (`uart_error_flag`, UART.vhdp:213):
   `rx_buffer(0)` is the last bit of the frame before, and not the start bit.
3. **A segment is left out of an SDO read** (`ec_sdo_segment`, ethercatcoe.c:213). When a
   segment is not answered in time the loop flips the toggle bit and asks for the next;
   the late answer is taken for that. The read returns with success and without the
   segment: `<<4, 2>>` of the object `<<4, 5, 1, 2>>`. Lines 107 and 108 say that the function
   combines all segments.
### Seen while modelling

Not shown by a run of its own. The first six are stated as exceptions in the properties or
the bounds of the passing runs, and each is shown by TLC when its exception is taken out:

- UART_Array: the last byte of a full array comes too late. RX_Busy falls in the clock in which the
  byte is put into the register in front of RX_Data (UART_Array.vhdp:209-210, 221, 235-238). The header
  (lines 43-45) and UART_Array_Example.vhdp:70-72 read RX_Data at that edge, and find a stale byte in
  the last place. `BytesInOrder` claims all other bytes at the edge, and this one a
  clock later; without `i < Max_Bytes - 1` it is violated.
- FoE: a file write to a busy slave ends with success (ethercatfoe.c:306-321). The packet is
  taken back ("resend if data has been send before") but the loop ends, since `worktodo` stays FALSE;
  the work counter of the BUSY is returned, and the slave has a part of the file.
  `ObjectAccess` has this as the success with `busy`; with `store = asked.data` alone in `Succeed`,
  `ImplementsObjectAccess` is violated.
- CoE: a slave that stops holds `ecx_SDOread` (ethercatcoe.c:213-277). The loop over the segments is
  left by an answer only; each round of it waits for the timeout that the call was given (line
  117), and begins again. `EveryCallReturns` excepts this loop (`UploadLoop`) and no other; without the
  exception it is violated.
- Commands: a late answer is taken for the next command's (nicdrv.c:257, 506, 701). A command that is
  sent again for a late answer has two answers under way. The next command gets the same index when
  a frame of the cycle holds the other, and the index is all that is compared (nicdrv.c:16-19). Between
  the cycles it does not happen (`OneLate` of `ec_process_data`); with its commands at any time
  (`commands = "anytime"`) `AnswersItsQuestion` is violated.
- Frames: one is read that did not come (SOEM.cpp:70-91). `packetSize` is returned
  uninitialized when nothing was received ("return: received size", line 69). With a frame
  lost, the one before is taken for it when the index is the same, and the cycle returns the full work
  counter with old inputs: `OneAgain` with `lossy = TRUE` violates `FullCounterMeansFresh`.
- Frames: an index is given out twice (nicdrv.c:257-266). With as many frames and commands under way as
  there are buffers, `ecx_getindex` gives out one that is in use: `TwoAndCommands` with `commands =
  "anytime"` violates `BuffersReleased`. With two buffers and three frames in a cycle the stack
  forgets such an index (ethercatmain.c:1654), and the work counter is short without a loss.

- At 12 MHz and 115200 baud, the setting of UART_Array_Example, `CLK/Baud/OS_Rate` is 6 and
  the 104 clocks of a bit hold 17 samples of 6 (UART.vhdp:139). The receiver counts 16 of
  them per bit, moves one sample towards the front of the bit with each, and looks at the last
  sample of the eighth bit in place of the stop bit. On an ideal line the bytes still come
  out right, without any margin, and RX_Error follows that bit. `MCUARTLink` with these
  numbers (`BitClocks = 104`, `OS_Rate = 16`, `D_Width = 8`, no parity) violates `GoodFrame`.
- The read address of List_RAM becomes -1, outside of its range, in the last clock but
  one of an insertion at position 0 (List_RAM.vhdp:186). The block read is never used; a
  simulator stops.

- An I2C request in the first SCL period after a reset loses its first byte:
  Busy of the master is still 1 from the reset, and the controller takes that for
  its command (I2C_Array.vhdp:155). The user of `I2CStack` waits `Settle` clocks; a
  quarter of an SCL period is enough.
- A UART reset in the middle of a frame leaves `tx_buffer`, and TX goes to that level
  (UART.vhdp:239).
- UART_Array: with `Max_Bytes = 1` RX_Busy never rises; TX_Busy falls when the last
  byte is handed to the UART, a frame before it is sent; RX_Error is declared and
  not driven.
- Mailbox: an emergency that is read in place of an answer makes the loop read the empty
  mailbox next; that looks like a lost read, and a repetition is asked for of a message that
  was not lost (ethercatmain.c:1105). Answers are never compared with the mailbox counter,
  "used as session handle".
- Process data: if the first of several frames is lost and it had the clock, the next is read at
  the clock frame's offsets (ethercatmain.c:1941), and any two bytes are its work counter.
- SoE: a fragment of a write that cannot be sent is left out, and the loop goes on with the next
  (ethercatsoe.c:252, 228): against a slave that is late the write can succeed with a gap. The error of a
  refused write is looked for in a read response (line 276), so that it is reported as an
  unexpected frame. `fragmentsleft` is one too high when the data is a whole number of
  fragments (line 239). A read too long for its buffer succeeds, with what fits.

- EoE: a mailbox of less than 42 bytes makes the loop of `ecx_EOEsend` endless
  (ethercateoe.c:351). `ecx_EOErecv` compares the buffer with the size in whole blocks, and
  rejects a frame that would fit (line 461). `ecx_EOEreadfragment` returns "last fragment"
  for one that it had no room for (line 621). With all the frames lost between two with the
  same number (15 of 16 in a row), `ecx_EOErecv` takes the first fragment of the one for the rest
  of the other, if its size is the offset that is expected.
- SPI: Enable starts by level and not by edge (SPI_Master.vhdp:115); a Cont that rises
  after the reload keeps the transfer going and sends zeros (line 197).

## What the components need from their users

The users of the models do anything these contracts allow, at any clock. Each
contract is in the comment of the module that has the user.

- I2C master: Enable is low in the first clock after power-up or reset; Enable and
  the command stay while Busy is 1 in a byte that is read. I2C_Array keeps the second
  (`KeepsReadContract`).
- I2C_Array: the ports stay as they are from Enable until Busy has come and gone; a
  request comes some clocks after a reset; and it has two bytes or more (finding 1).
- List_RAM: an operation starts when Busy is 0, and Operation goes through None.
  It may be held as long as wanted, over the whole move that it caused.
- UART: the next byte when TX_Busy is 0, as `write` does once the reset is over. For the
  proofs the quotients of the generics give a bit as many samples as `OS_Rate` says, and
  at least three (`SamplesFit`).
- UART_Array: TX_Enable from 0 to 1, the next message when TX_Busy has fallen.
- EtherCAT: one thread calls the functions. A command between sending and receiving a cycle has a
  buffer left (`EnoughBuffers`), and comes only where no frame or answer is late. Late
  frames are late by less than a cycle, or a command between cycles. An interface that repeats
  itself loses nothing. Who writes a file to a slave that may be busy reads it back, and who reads
  in segments has a slave that does not stop (for all of these see
  [above](#seen-while-modelling)). Requests and status datagrams are not lost for good:
  `ecx_srconfirm` repeats them, and only the answers to reads and writes of a mailbox, where a
  repetition is not the same, are lost in the model. A slave does not refuse the acknowledge of
  the last packet of a file, and sends mailbox errors for first requests only. Two frames with a
  clock go over a reliable network.
- EoE: the mailbox holds a block, the buffer any frame, and fewer frames are lost in a row
  than there are frame numbers (for the proof fewer in all, `FewFaults`).
- SPI_Master: Cont rises only while Busy is 0. Enable, TX_Data and Reset are free.

## Fairness

**Hardware.** Every liveness property assumes `WF_vars(Next)` and nothing else: an FPGA clock
ticks, and all processes run at each tick. What the environment may refuse is not
assumed: the user may wait for ever between requests, and SPI's `TransfersEnd`
is about runs where the user stops continuing. The slave of `I2CStack` holds SCL for
a number of clocks of `Holds` at a falling edge; one that holds it for ever blocks the
master (`I2CMasterBus` allows it, and claims no liveness).

**EtherCAT.** The master's thread goes on while it can (weak fairness of `Works`, `Reads` and
`GivesUp`, and of `Master` in the cycle), and the slave takes requests and posts answers (weak
fairness), until it stops: `Stops` disables all that the slave does, for good, and the fairness of
the slave then asks for nothing. The run of `EveryCallReturns` has it stop at any point of any
transfer, so that what brings a call back is then the code's own timers; the loop that they do not
end, that over the segments of an upload, is named in the property. Timers need strong
fairness: a timer that runs out is not continuously enabled when status polls go on beside it, but
it does not run for ever. The one assumption about an order is `SF_vars(pc = "read" /\ Post ...)`:
the slave does not post its next message in the moment before a repetition every time, where the
repetition would displace it again for ever; on a real clock the two have no such rhythm. `EcEoE`
claims no liveness: `WholeFrameArrives` is its counterpart for every step.

## Proofs

Ten components are proved for every value of their constants. Each proof has the same
shape: an inductive invariant with the types and what the property needs besides, that it
holds at first, that each step keeps it, and the property from it.

**I2CMasterProofs**, for every `Divider >= 2`, `Width >= 2` and set of user bytes
(`MasterAssumption`, `BusAssumption`):

- `TypeCorrect`: `Spec => []TypeOK`.
- `Invariance`: `Spec => []IInv`. Neither the bus rule nor the idle rule is inductive:
  whether SDA may move depends on where the clock counter is, and that on how the state
  was entered. `IInv` adds to the types: `ClockInStep` (scl_clk, data_clk and its
  delayed copy are functions of `count`, except in the two clocks after power-up
  and reset, which are spent in state ready with Enable low), `StretchInQuarter3`
  (the clock is held only while SCL is high), `SclWhileBusy` (SCL is switched on in
  the high half of a start and off in that of a stop), `SdaReleased`, `BitCount` (the
  bit counter is full outside of the states that count) and `AckAsAsked` (the acknowledge on the wire is
  what the user still asks for). The step is proved in parts: types, clock, count and edges,
  SCL, bytes.
- `IdleBus`: `Spec => []IdleBusReleased`, from the invariant.
- `Discipline`: `Spec => SdaDiscipline`. Every change of `SdaOut` is traced to a rising
  edge of data_clk, where by `ClockInStep` SCL is low before and after, or to the
  delayed data_clk in a start or stop, where SCL is high.

**I2CStackProofs**, for the controller over the master, every request, any answers of the
slave and any stretching (`StackAssumption`):

- `TypeCorrect`: `Spec => []TypeOK`, for every divider and width. With it: a request is that of the
  ports until Busy is down again (`Asking`, `AsAsked`).
- `ContractKept`: `Spec => KeepsReadContract`, the half of the contract of
  `I2CMasterBus` that falls on I2C_Array, within `WithinLimits`. I2C_Array sees
  nothing of the master's state: it counts edges of its Busy, one clock late.
  `ControlInv` says that the count nevertheless tells at which byte the master is (`Number`,
  with `AtByte` for what it does there), at which of its states Busy is up or down
  (`BusyEdges`), and which command and `i2c_ena` go with each (`Commands`). As the master
  looks at its ports only at a rising edge of data_clk, a quarter of SCL after Busy has
  moved, the controller has long reacted. That is where `Divider >= 2` comes from.
- `Implementation`: `Spec => ImplementsTransfer`, the refinement of `I2CTransfer`: one request is
  one transfer, seen by a slave that has nothing but edges of SDA and SCL. Three things
  have to be known at every clock, and `StackInv` says them on top of `ControlInv`.
  First, what the slave remembers of the wires (`Wires`, by the quarter of
  SCL: when it has seen an edge, when a stretch ends) and what it has decoded (`AtStart`,
  `InBits`, `AtAck`: its mode is that of the state, its bits are the upper ones of what the master sends,
  or it sends them and `data_rx` has them). From that an event is logged at exactly
  two places of the period (`EventStep`), with the master's own address, data and
  acknowledge.
  Second, where in the script the bus is: `Logged` is a function of the state and of
  `Number` (`PlaceOf`: the first byte written and the first read have a start and a command before
  them), the log has that length (`LoggedStep`), and each event is the step of the script at its
  place (`EventInScript`, over `ScriptOf`, which says what `Script` has at each place).
  Third, what the controller tells of it: the error flag is up iff a refusal is in the log or
  will be when SCL falls (`ErrorTold`, `Pending`), and the bytes stored so far (`Stored`) are those of
  the log, with the next one ready in the master from its acknowledge until the controller takes it
  (`ReadTold`, `Fresh`, `Latest`), since it takes it a byte late. `DoneRight` has the three at the end of a
  request.
- `WithinLimits` has what the code relies on: `Divider >= 2` and `Width >= 2`, as for the
  master; requests of two bytes or more (finding 1); and that the first request comes `Divider`
  clocks after a reset, when Busy of the master has fallen, or, without a reset, that no
  register powers up with a request. `Settle = Divider - 1` fails in TLC.

**ListRAMProofs**, for every `Width >= 1` and non-empty set of blocks
(`ListAssumption`):

- `Invariance`: `Spec => []IInv`, where `IInv` is `TypeOK /\ Moving`. `Moving` says what
  a move has still to do: Busy tells whether there is one, never two at a time; the write
  address is between the position and the end; and the block in the read register
  is the one to be written next.
- `Implementation`: `Spec => ImplementsList`, the refinement of `MemoryList`: each clock in which
  an operation is asked for is the abstract operation, with the position and the block at the
  ports, every other clock leaves the list and the output alone. That the abstract
  and the concrete condition for an operation are the same is `SameConditions`.
  One lemma says what the composed parts of the process (`Written`) come to in each situation, one
  what the state is afterwards, and one per operation that this is the abstract one.

**UARTLinkProofs**, for every width, parity and set of bytes, every phase of the two clocks and
every moment at which either comes out of reset:

- `TypeCorrect`: `Spec => []TypeOK`, for every ratio of clock, baud rate and samples
  (`LinkAssumption`).
- `BytesArriveInOrder`: `Spec => InOrder`, and `FramesAreGood`: `Spec => GoodFrame`, both for
  ratios with `SamplesFit`: a bit holds `OS_Rate` samples, as UART.vhdp:40 says, and
  `OS_Rate >= 3`. The code checks neither. Both are needed: `BitClocks = 12` with
  `OS_Rate = 5` has six samples in a bit and is early by one more with every bit; with
  `BitClocks = 6` and `OS_Rate = 2` the first period after a reset, which is
  one clock short, is enough to miss a bit. TLC finds both.

  That the receiver finds a bit is a statement about two clock generators that know nothing
  of each other. `LinkInv` ties them by one number: `Since`, how many clocks the bit has been on
  the line, plus `Until`, how many clocks it is until the sample that takes it. The sum does not
  change from clock to clock; it starts in the bit when the start bit is seen
  (`StartInv`), and from one centre to the next (`ReceivingInv`) `Since` loses a bit and
  `Until` gains one, exactly, since the samples are aligned anew in every period. The short
  period after a reset moves it once, by less than a sample (`Early`). What is left
  of `os_count` from the frame before is gone before the next start bit (`QuietInv`).
  `LineInv` says that the line and `tx_buffer` are the rest of the frame. The lemmas of the
  grid (`GridNumbers`, `UntilBounds`, `GridSteps`) use the quotients only through
  `Clocks(n)`, the clocks of n samples.

**UARTArrayLinkProofs**, for every size of the array, timeout, ratio of clocks and user's pace:

- `TypeCorrect`: `Spec => []TypeOK`, for every ratio (`ArrayAssumption`).
- `BytesArriveInOrder`: `Spec => BytesInOrder`, under the `SamplesFit` of the UART. A byte that does not
  fill the array is in RX_Data when RX_Busy falls, since it was taken at least a
  clock before (`ReadAtTheFall`); the one that fills it comes a clock later. The UARTs
  inside are those of `UARTLink`, of which `Link` is an instance: the bytes that are
  in the transmitter or on the line are its abstract `line` (`OnWire`), and each step of the
  composition keeps `Link!LinkInv`, whose proof is not repeated. `ArrayInv` says where the bytes of
  `flight` are besides: those that the sending controller has still to hand over
  (`Unsent`), and those in the receiving array (`Filled`, which has the last of them in
  the register in front of the array, one clock late).
- `BusyIsSeen`: `Spec => RxBusySeen`, for arrays of two bytes or more; with one, RX_Busy
  is never 1 (see [above](#seen-while-modelling)).
- `MessagesAreWhole`: `Spec => WholeMessages`, when `Timeout` is at least `ByteTime`, a frame and two
  bit times. RX_Timeout of the code is 100 ms unless the user sets it, which is that long
  down to 130 baud. `Due` bounds the clocks until the next byte of a message is
  received, from where the controller, the transmitter and the line are; it falls in every
  clock, and with the clocks since the last byte it never exceeds `ByteTime` (`InTime`).

**SPILinkProofs**, for every width of at least two bits, every ratio and the four modes
(`LinkAssumption`; with words of one bit and an event in every clock, Cont may rise in
the only bit of a continued word, and the user's rule does not keep it out):

- `TypeCorrect`, `SlaveReceivesTheWord`, `MasterReceivesTheWord`, `FramesWholeWords`
  and `StableWhenSampled`, the safety properties of the run.
  None is inductive: what a bit is worth depends on where in the word it is. `LinkInv`
  adds `InStep` (`clk_toggles`, `assert_data` and SCLK all tell the same number of bits done,
  which is what the slave has counted from the wires), `Received` (rx_buffer ends with
  the bits of this word, or is the whole one before), `Sent` (tx_buffer and MOSI are the rest
  of the word, the slave has what came before), `Starting` and `Deselected`.

**EcServicesProofs**, for every set of contents, buffers, sizes of messages (`UnitsFirst`,
`UnitsMore`), range of the mailbox counter and number of mishaps, with a slave that may refuse
or not (`MailboxAssumption`, `CallAssumption`, `ServicesAssumption`: a content is a
sequence that is not empty, and `ErrorOf` has errors). The first two theorems are under `Setting`:
the slave is in time (`Timely`; without it a late answer is taken for that of the next
request, finding 3) and does not stop (`EveryCallReturns` is where a slave that stops is), and `Nothing` is not a record that could be taken for a message.

- `TypeCorrect`: `Spec => []TypeOK`. The hard conjunct is that the slave holds one of `Contents`:
  no part of what is written, and nothing of two writes.
- `ServicesImplementObjectAccess`: `Spec => ImplementsObjectAccess`, the refinement of
  `ObjectAccess`, with a slave that may be busy: the success of a file write tells
  nothing then (`AtBusySlave`). The abstract write is the step in which
  the slave takes the last message of the transfer; the abstract success and failure are the
  return of the call. What has to be known is that each message the call reads is the answer to
  its own last request, although answers get lost and are repeated, requests are written twice,
  reports come in between, and a call may leave messages behind for the next.

  `IInv` has a sequence `e` of the answers under way and splits the claim in two. `Talk(e)`
  is about the conversation alone, as if mailboxes were a channel: `Conversation` has one
  disjunct per service and phase (ten of them), which says, before and after the slave has taken the request,
  what the call has, what the slave's session has, and what `e` is. `Flow(e)` is about the
  mailboxes alone: `Stream` is the message that is to be repeated, if the master is about to
  ask for it (`Lost`), then the OUT mailbox, then the queue, and it carries `e` in order among
  reports (`Carries`). A repetition that is outstanding after the master has gone on can only be one of
  a report, since an answer ends `ecx_mbxreceive` (`Repetition`): else the repeated
  answer would be taken for the next one. `Counting` has the counter tell a request from its
  repetition, which needs `MaxCnt >= 2`. `Requested` has what can be in the IN mailbox: the request, or
  one of the call before that is never answered (`Leftover`: the acknowledge of
  a file's last packet, or the last of the fragments that the slave passes over after it has refused). `Expiry`:
  a timer runs out only before the first request and when the mailbox has refused.

  Each step keeps `IInv` and is a step of `ObjectAccess` or a stutter (`Advances`); the lemmas are
  one per action of the mailboxes, and one per phase of the conversation for the answer that is
  read and for the request that is taken. The lemmas on the streams and on parts of sequences
  (`PartsJoin`, `UnitsFromAt`, `FragmentsFromAt`) are at the front of their sections.
- `ListImplementsQueue`: `ListSpec => ImplementsErrorQueue`, for every size of the ring and every
  set of errors (`ErrorListAssumption`), which the specification tells apart: the ring has the
  newest, in their order, and a push into the full one drops the oldest. `ErrorsFlagged` is the
  flag. Every step of the services is a push, a pop or nothing to the list (`ServicesUseList`), so
  that `Spec => ListSpec`, and both hold behind the services, with any slave
  (`ServicesFlagErrors`, `ServicesImplementErrorQueue`). The lemmas say what the sequence from
  head to tail becomes by a push with room, a push into the full ring and a pop, each over the
  wrap-around.

**EcFramesProofs**. The process data, for every number of buffers, setups and tries as long as
each frame of a cycle and the command have a buffer (`EnoughBuffers`, which nothing in the
code ensures):

- `CycleTypes`: `Spec => []TypeOK`: the buffers, the frames under way, and where the stack is read.
- `EveryBufferReleased`: `Spec => []BuffersReleased`, the buffers in use are those that
  someone waits for. It is not inductive: that a released buffer is nobody else's
  follows only if no index is on the stack twice. `IInv` adds `Stage` (what is on the stack
  in each part of the cycle), `CommandTime` (a command is never under way
  while the frames of a cycle are received) and `Apart` (the indices waited
  for differ). `EnoughBuffers` is needed for `ecx_getindex`, which gives out an index in use
  when there is no other.

The same component, for networks and groups within `WithinLimits`:

- `FullCounterIsFresh`: `Spec => []FullCounterMeansFresh`, `OnlyLossShortens`: `Spec =>
  []LossEndsWithCycle`, and `CommandGetsItsAnswer`: `Spec => []AnswersItsQuestion`. `Fresh` adds
  to the invariant above: each frame that is around with an index someone waits for is what was
  sent with it (`Matched`); without late frames each one in the network is waited for
  (`Punctual`), with them the indices of this cycle or command and of the one before are all
  different, counted back from the last one given out (`Behind`), so that an answer to the command
  before, of whichever try, is not taken; what is not lost arrives (`Arrives`); and after p frames
  the work counter is full only if the inputs of all p are those of this cycle (`Counted`).
- `WithinLimits` names what the code relies on and does not check. An index comes round
  again after as many frames as there are buffers, so with late or repeated frames there
  are buffers for two cycles, and commands between them but not while frames are under way.
  Frames are repeated only where none are lost. What happens otherwise is
  [above](#seen-while-modelling). A clock datagram in the first of several
  frames needs a network that loses none (ethercatmain.c:1941). A group is read and
  written by LRW frames alone or by one LRD and one LWR, for which the expected counter is
  right. All setups of the run keep to it.
- `SetupAssumption` has `Nothing` differ from numbers and entries of the stack: the code's 0 and
  null, which are no value of these.

Ethernet over EtherCAT (`EcEoE`), for every length of frames, size of blocks, mailbox and buffer
(`EoEAssumption`; `None` is no value of the sender's locals, `NoneAssumption`):

- `ReceivedInsideBuffer`: `EoESpec => []EoETypeOK`, which has the offset of a receiver within its
  buffer and nothing but received data in what is handed over. `EoEInv` adds `SendingInside`
  (the sender has something left, so that a fragment lies in the frame) and
  `Filled` (the buffer is written without gaps up to the offset).
- `WholeFramesArrive`: `EoESpec => WholeFrameArrives`, whatever is lost and however the frame
  numbers come round. `WholeInv` adds what is under way (`Stream`, the mailboxes and the
  fragment that `ecx_EOEsend` has next): each message is a piece of its frame, which tells
  where it belongs (`Piece`), and goes on where the one before it ends or begins a frame
  (`Follows`); and a receiver that missed nothing of a frame has all of it before the next
  message (`Awaits`). That the offset is sent in blocks and loses nothing by it needs the sender
  to stay at the start of a block (`SenderAtBlock`).
- `FramesAreNotMixed`: `FewFaults` implies `EoESpec => ImplementsFrameChannel`. The hazard is a
  fragment of another frame with the number, the fragment number and the offset that a
  receiver waits for. `UnmixedInv` counts: from the frame that the receiver is in on, every message
  is of the a-th frame and at least e faults happened before it (`CountedIn`, for some a and e), and
  another frame with the same number is `FrameNos` frames away, with as many faults in between. So
  what is accepted is of the frame that was begun (`AcceptedInFrame`), and what is handed over
  is the first frame under way (`HandedIsFirst`).
- `FewFaults` (`MaxFaults < FrameNos`, 16 numbers in the code) is tight: with
  `FrameNos = 3, MaxFaults = 3` TLC shows `ecx_EOErecv` putting a frame together of two, by a
  first fragment that it takes for a later one (see above). The run has `FewFaults`.
- The frames under way (`FramesOf`) are a recursive function of the messages. That
  it has a value, and what one message more or less makes of it, is an
  induction over the messages; as the provers cannot instantiate an induction theorem,
  `LeastNumber` has every set of numbers contain a least one (from the library's
  `FS_StrictSubsetOrderingWellFounded`, which is about a set), and each such lemma takes
  the first message of which it would not hold (`FramesTold`, `FramesToldOnce`,
  `FramesToTyped`).

Every safety property of the passing runs is a theorem. Only model-checked are what the
services promise with a slave that stops, their types with one that is late, and all liveness: the provers have no rule for fairness
and ENABLED over these definitions. The properties that fail (see [Findings](#findings)) are
TLC's counterexamples.

## Plan

Done are I2C, List_RAM, UART, UART_Array and SPI_Master, in the order of how
much else in the library rests on them, and of the EtherCAT master the frames, the
process data, the mailbox, its services and EoE. Next, in order:

1. `LogicAnalyzer`: the ring of samples of Logic_Analyzer.vhdp with its abstract
   specification (the capture is a window of consecutive samples around the trigger),
   checked with a small ring. The suspect case is a trigger before the ring has been
   filled once (line 105). Then `OLSInterface`: the command thread and the sample thread
   that share one UART and a loop variable.
2. EtherCAT: the state machine of `ecx_writestate` and `ecx_statecheck` with slaves that refuse or
   fall back; the EEPROM commands with their retries.
3. `Modbus`: requests, timeouts and the flush after an error, over serial and TCP.
4. `LEDMatrix`: configuration and update sequences of MAX7219_LED_Matrix.vhdp over the
   Busy of `SPIMaster`, with Update at any time (an Update during the configuration makes the
   row counter pass its last row, line 213). Property: what the display holds in the
   end is the last image asked for.
5. `SDRAMCapture`: Camera_Capture_SDRAM, VS_SDRAM_Interface and SDRAM_Controller: rows
   handed over between three clocks, as interleaved steps. Abstract specification: a
   frame store with rows written and read whole.
6. Proofs: the services with a slave that may be late, where a call may fail without a reason but
   what it reads is still what the slave holds, but for the segments it leaves out.

## What is not modelled

`PROJECT.json` lists every component with its reason. Beyond those planned:

- Arithmetic pipelines (spectrum analyzer, filters, neural network): their control is a
  counter and their data is numbers, about which a model checker says little.
- Register tables of cameras and fonts: data.
- Of the EtherCAT master: the configuration, which fills tables one command at a
  time, the distributed clocks, which are arithmetic, the object dictionary and IP
  parameters (one request and one answer over the mailbox that is modelled), redundancy (compiled
  out), the bytes of a frame.
- Modbus, Profinet, the W5500 chip and sensor drivers in C++.
- Generated code and vendor cores (Intel IP, PLLs, ADC core, QSYS systems).
- The random number generator, which depends on gate delays; metastability of
  inputs without synchronizer, which has no place in discrete steps.
- The other end of each wire is not in the repository; the I2C and the SPI slave are written
  from the protocol the library's header names, and marked external; so are the slave of
  EtherCAT, its mailboxes and services.
