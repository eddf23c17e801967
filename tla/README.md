# Verification of the LCD, RTC, I2C and CMOS systems

TLA+ models of the hardware and software of this repository, model-checked with
TLC and, where marked, proved with TLAPS. The repository holds two FPGA systems
for a DE0-Nano-SoC board: an LCD driver with DMA (`LCD/`), with an I2C master and
a camera test generator beside it and their drivers, and a real-time clock (`fpga_rtc/`). The models follow the VHDL and C sources line by line in control
(every state, guard, early return and override) and abstract the data.

## 1. Inventory

| component | source | state | operations | status |
|---|---|---|---|---|
| LCD slave | `LCD/hw/hdl/lcd_slave.vhd` | two state machines, `waitbusy` flags, address and length register | access to the panel, register access, start, interrupt | modelled |
| LCD DMA master | `lcd_master.vhd` | state, address, length, burst and word counters | start a frame, ask for a burst, receive a word, end burst and frame | modelled |
| LCD FIFO | `lcd_fifo.vhd` | words held, output register | write, read | modelled |
| LCD controller | `lcd_controller.vhd` | state, phase, pins, current word | write, read, reset, frame: command, pop, two pixels | modelled |
| LCD top | `lcd_top.vhd` | (wiring) | one clock of all four, `rst_n` at any moment | modelled |
| LCD program | `LCD/sw/nios2/application/hello_world.c` | where it is in a driver call | the driver calls, poll for the end of a frame | partly |
| RTC module | `fpga_rtc/hw/quartus/rtcmodule.vhd` | two dividers, three BCD registers, display scan | tick, carry, bus read and write, reset, scan step | modelled |
| RTC program | `fpga_rtc/software/fpga_rtc/hello_world.c` | which access is next | set the time, read it in three accesses | partly |
| I2C master | `LCD/hw/quartus/ip/i2c/hdl/*.vhd` | control, data and status registers, core of 31 states, divider | start, stop, read, write with acknowledge; reset | modelled |
| I2C driver | `LCD/sw/nios2/application/i2c/i2c.c` | where it is in a call | write and read of one or more registers, configure, init, error paths | modelled |
| CMOS generator | `LCD/hw/quartus/ip/cmos_sensor_output_generator/hdl/*.vhd` | frame machine, six counters, six configuration registers | configure, start, stop, status, emit; reset | modelled |
| CMOS driver | `.../cmos_sensor_output_generator.c` | where it is in a call | init, configure, start, stop | modelled |

What is not modelled, and why, is in section 6.

**How the LCD parts interact.** The processor reads and writes four registers of
the slave. Command and data accesses become one-clock strobes (`LS_Wr_n`,
`LS_Rd_n`) to the controller; the slave stretches the access with
`AS_WaitRequest` until the controller's `LS_Busy` went high and low again. A
write to the address register starts the master (`MS_StartDMA`), which fills the
FIFO from memory in bursts, raising `ML_Busy`; the controller sees `ML_Busy`,
sends the memory-write command 0x2C and then two pixels per word popped, and is
idle again when the FIFO is empty and the master is not busy; the slave sees
`LS_Busy` fall and raises `AS_IRQ`. The program polls bit 31 of the length
register instead. All of it is hand-shaking by level signals between machines
that look at each other one clock late, and this is where it is hard: each
decision is made from a flag that may be stale, and the right order of the four
machines is nowhere written down. The hazards in `PROJECT.json` name the lines.

**How the RTC parts interact.** Three registers hold BCD hundredths, seconds and
minutes. A divider ticks the hundredths; on the clocks after a tick the carries
run, found by comparing registers with 99 and 59. A bus write takes the clock from
tick and carry. A second divider paces a display scan that reads the registers
digit by digit. All processes share the clock, only the registers see the
reset. Hard here: a carry, a tick, a write and a reset may meet in any order,
and nothing but distance keeps some of them apart.

**How the I2C parts interact.** The driver writes a data byte and a command to two
registers of `i2c_interface` and polls `TIP`, which is nothing but the command's
read or write bit. `i2c_core` looks at the same bits, sends START, byte, acknowledge
and STOP on two wires, five quarters of a bit at a time, each begun by a pulse
of `i2c_clkgen`, and says `cmd_done`; the interface then clears the command and
answers `cmd_done_ack`. Device and master share the data wire. Hard here: every
signal of the handshake is seen a clock late, so that `cmd_done` of one command is
still up when the next may come; what the driver reads or writes depends on when;
and the two ends of the wire keep two machines in step by edges alone.

**How the CMOS parts interact.** The driver stops the generator, writes six sizes,
each after a look at the status, and starts it. The generator takes a write only
when idle and a command a clock after it was written. While it runs, counters
compared for equality with the sizes make lines, blanks and frames.

**What makes each part correct.** Master and FIFO: no word lost, repeated or
out of place, no request withdrawn. Controller: bus timing of each strobe, no
contention, no pop of an empty FIFO, end of frame not before its last word.
Slave: a start is never lost, no interrupt before the end, every access ends.
Program: what the calls ask for is what the panel gets. RTC: the time is always
one a clock can show and moves forward; each digit is shown in its place; a time read
in three accesses is not one already past. I2C: a command runs once, whole, undisturbed; START and STOP
only where a device looks for them; what a call reports is what happened to the
device. CMOS: the pins show the sensor's frames to the clock, and a configuration
that was accepted is the one that runs.

## 2. Modules

| module | models | uses |
|---|---|---|
| `LcdFifo` | scfifo as `lcd_fifo.vhd` configures it (external) | |
| `LcdMaster` | `lcd_master.vhd` | |
| `LcdDma` | master, FIFO and memory; starts and pops are free | `LcdFifo`, `LcdMaster` |
| `LcdSlave` | `lcd_slave.vhd` | |
| `LcdController` | `lcd_controller.vhd` | |
| `LcdTop` | `lcd_top.vhd` with a free bus master, memory and panel | the three above |
| `Display` | the abstract promise of the driver, no hardware | |
| `LcdApp` | the program on `LcdTop`; refines `Display` | `LcdTop`, `Display` |
| `LcdClaims` | a statement of the source that does not hold | `MCLcdTop` |
| `LcdReset` | `lcd_top.vhd` reset at any clock, FIFO and memory not | the four entities |
| `LcdPartsProofs` | lemmas on the entities, shared by the next three | the four entities |
| `LcdDmaProofs`, `LcdTopProofs`, `LcdResetProofs` | theorems | `LcdDma`, `LcdTop`, `LcdReset` |
| `LcdAppProofs` | theorems on the program, and that it implements `Display` | `LcdApp`, `LcdTopProofs` |
| `RtcBcd` | two-digit BCD bytes, `increment_bcd` | |
| `RtcTime` | the time registers, their divider and bus port; bus master and reset are free | `RtcBcd` |
| `RtcScreen` | the display scan and its divider; the registers are a parameter | `RtcBcd` |
| `Rtc` | the whole entity, `rtcmodule.vhd` | `RtcTime`, `RtcScreen` |
| `RtcClaims` | a comment of the RTC that does not hold | `MCRtcTime` |
| `RtcProofs` | theorems | `Rtc`, `RtcReader` |
| `RtcReader` | the accesses of the RTC's program, clock by clock | `RtcTime` |
| `I2cClkgen`, `I2cCore`, `I2cInterface` | `i2c_clkgen.vhd`, `i2c_core.vhd`, `i2c_interface.vhd` | each the one before |
| `I2c` | the I2C master under any device and a bus master that polls | `I2cInterface` |
| `I2cDevice` | a device of registers on the two wires (external) | |
| `I2cService` | the abstract promise of the I2C driver | |
| `I2cDriver` | `i2c.c` on the master with the device; refines `I2cService` | `I2cInterface`, `I2cDevice`, `I2cService` |
| `I2cClaims` | a statement of the I2C sources that does not hold | `MCI2cDriver` |
| `I2cProofs` | theorems | `I2c`, `I2cDriver` |
| `CmosGenerator` | `cmos_sensor_output_generator.vhd` | |
| `CmosSensor` | the abstract sensor: a period of frame and blanks | |
| `Cmos` | the generator under a bus master that keeps the driver's rules; refines `CmosSensor` | `CmosGenerator`, `CmosSensor` |
| `CmosDriver` | the driver, access by access; implements the bus master of `Cmos` | `Cmos` |
| `CmosProofs` | theorems | `CmosDriver` |
| `MC...` | instances for TLC | |

**Correspondence.** A VHDL entity is a module. Its registers are VARIABLES with
the names of the source (the `_reg` suffix dropped; `mst_`, `ctl_`, `dma_` tell
equal names apart); its combinational outputs are operators with the names of
the ports; its inputs are parameters, so that no module knows its neighbours.
Each `when` of a state machine, split at its conditions, is one action;
`XClock` is one rising edge of `clk`, and the disjunction of the actions. All
entities share one clock, so a step of `LcdTop` is the conjunction of all
clocks: there is no interleaving of hardware but that which the environment
makes (when the memory accepts and answers, what the bus master asks and when).
A signal that a process assigns twice has the value of the last assignment
(`InIdle`: a frame that starts overrides the state of the write it meets, not
its pins).

**Data.** A word of memory is the byte address it was read from; what is on the
16 data lines is a pair of a tag and a number (see `LcdController`). Active-low
strobes between entities are Booleans named without `_n`; the pins keep 0 and 1.
The slave cuts what is written as its ports do: the data lines carry the low 16
bits (`LS_WrData`, so a data write of 0x18000 is the reset code too), the length
register the low 31 (`LengthRange`, 2^31 in the source, a constant because TLC's
integers end there). Addresses are unbounded, in the program far from 2^32;
`phase` is cut at `PhaseCap`, beyond which its value changes nothing
(in `RESET_LCD` the real 31-bit counter would wrap after 43 s and come by 19
again; the model stays there for ever, which only a liveness property could
tell, and the runs that check one do not write the reset code).

**The reset state.** `RESET_LCD` drives `phase_next` and tests it
(`lcd_controller.vhd:207-210`). At phase 19 the value 20 implies 0 and 0 implies
20; the Quartus mapping report counts the two logic cells of a combinational
loop. A choice of the bits in which 20 and 0 differ, and of the state, is
what the registers may capture; in a simulator the test uses the value before,
which ends the reset at phase 20. Both are in `InResetLcd`.

**The RTC.** A process is a conjunct of the clock step, a branch of a process an
action. A byte is the pair of its nibbles, as wide as `Nibble` makes them (16),
with `Radix` (10) the base of a valid digit, so that invalid BCD is represented and
counts on as the code lets it. What the segments show is a digit, or `Blank`, and
a dot. The reset is asynchronous: between edges (`Reset`), or over an edge on which
the processes without a reset are clocked (`Clear` within `Clock`). Accesses are
free on every clock but for `WriteGap`. The buttons and switches of the
entity's port are unused in it.

**`WriteGap` and `TickPeriod`.** Two conditions keep carries and ticks apart
(`SlowEnough`): six clocks in a tick period (499999 in the source) and two clocks
without a write between two writes. A store of the processor takes more clocks
than that, at least two bus cycles with an instruction fetch between them. Without
a gap, a master that writes on every clock holds a carry up until the tick.

**Reset of the LCD.** A debugger resets the processor and with it the component
(`soc_system.qsys:1237`). `Reset` of `LcdReset` loads what `rst_n` loads; `curr_word`,
the FIFO and the memory keep theirs. The memory is in the HPS, so bursts asked for
before may still be answered, or may be forgotten if the interconnect drops
them: both are allowed. A memory word is an address, and `owed` the addresses
still to come, so that a stale word is told from one of the frame. What a reset
costs is exact: one picture begins with old words; the properties say when order is
back.

**RTC program.** `write_rtc` and `read_rtc` as meant (the file does not compile:
`ofset`, line 37, no return value, line 44). A read takes two clocks, as the
bus of the entity has it; between accesses pass any number. `whole` is history: since
the reading began the time was not put back to zero, by a reset or after its end.

**I2C.** A byte has `Bits` bits (8 in the source). The address byte is the device's
address and, in the last bit, the direction; a register address is any byte. `Follows` names the next state of the states that only wait for a pulse;
the others have actions of their own. In the states with pins computed from the
inputs (`KeepsPins`) the output follows the wire. SCL is driven both ways (`RB 0.8`) and
SDA is the wired AND of master and device. `I2c` has `Polite` bus masters, who write
a command only after a read of `TIP` low (`seen`); that the driver is one is part of
what `I2cDriver` shows, with `WritesLand`. `I2cDriver` makes its accesses one by one: a
read takes two clocks, and the processor computes for any time between them (`Compute`).
`i2c_write` and `i2c_read` are the array calls with one byte: their code is the
same, line for line. `I2cDevice` looks at the wires only: START, STOP, bits at SCL's
rise, and may refuse an acknowledge of any byte it is sent.

**CMOS.** The six registers are one function `config`, the six counters one function
`counter`; the state that counts with a counter names it (`Counts`). They are as wide as
`ConfigSpan` makes them, and wrap. A bus master of `Cmos` writes sizes in bounds
when the generator is idle and no start is on its way: what `CmosDriver` is shown to do.

**The environment of the LCD.** The bus master of `LcdTop` holds a request until
`AS_WaitRequest` is low (Avalon) and then makes any other or none, the four
registers and reads and writes of each. The memory accepts and answers after any
number of clocks; one burst is outstanding at a time since the master asks for
no other. The panel drives the lines while `Rd_n` is low and numbers its answers.

## 3. Runs

| run | what it asks | instance | states |
|---|---|---|---|
| `top` | the hardware is safe and keeps every word, in place, under any accesses, those during a frame, resets and odd lengths included; checks `TopInv` of the proofs | depth 3, threshold 2, burst 2: no place to spare; lengths 1, 2, 4, 7 words (no burst, one, two, and a rest); a halfword and a length too wide | 213224 |
| `app` | the program on the hardware implements `Display`; every frame ends with its interrupt | two addresses, lengths 2 and 4, one command, one value | 19250 |
| `reset` | a reset in the middle of a frame: no overflow, no hang, in step again after one frame | depth 3, threshold 2, burst 2, a frame of two bursts, up to 4 words owed | 155493 |
| `rtc_time` | the time stays valid, reads are decimal, time moves forward; checks `TimeInv` of the proofs | digits 0..2 in nibbles of 4, minutes of 6 seconds, a tick every 5 clocks; writes of valid times but 99 hundredths | 16883 |
| `rtc` | the display shows each digit in place, without smear, for ever; from the invalid bytes written the time is valid again in the end | digits 0..1 in nibbles of 3, a tick every 6 clocks, a scan step every 2; writes of six of the 27 pairs of register and byte, two of them valid, an invalid one in every register | 184525 |
| `rtc_reader` | a time read in three accesses is not older than the reading | binary digits, minutes of two seconds of four hundredths; checks `ReaderInv` of the proofs | 618108 |
| `i2c` | commands run once, whole, undisturbed, and end; checks `I2cInv` of the proofs | bytes of 2 bits, divisors 1 and 0, with and without START and STOP, any level on SDA, resets | 127178 |
| `i2c_driver` | the driver does what `I2cService` promises; SDA still while SCL is high; every call returns; checks `DriverInv` of the proofs | bytes of 2 bits, a device that is there and one that is not, one and two bytes | 263196 |
| `cmos_driver` | driver and generator together: the driver keeps the rules of `Cmos`, what it configured is so, the pins are those of `CmosSensor`, a frame ends; checks `CmosInv` of the proofs | two configurations in bounds, one value too small, one too large, registers of two bits, resets | 210582 |
| `claim_access` | refutes: every access is acknowledged at last | as `top` | |
| `claim_bcd` | refutes: the hundredths are in BCD | as `rtc_time`, 99 hundredths written too | |
| `claim_stop` | refutes: the bus is free when a call has returned | as `i2c_driver` | |

Some properties of the modules are implied by an invariant a run checks, and are stated
as theorems only: `NoWordMissed`, `StartFindsMasterIdle`, `FrameHasController` and
`NoContention` by `TopInv`, `ReadsDecimal` by `TimeInv`, `ResetWhileDark` by `RtcInv`,
`TransferIsShown` by `I2cInv`, `FifoNeverOverflows` of `LcdReset` by `ResetInv`.

**Why the bounds are enough.** The FIFO instances have depth = threshold - 1 +
burst, the least `RoomForBurst` allows, so one word more would overflow, and
two bursts of a frame cross the threshold. Burst 2 has a first and a last word
that differ; frames of two and three bursts have an inner burst boundary; the
start address 0 or 16 tells frames apart (a frame of 4 words ends at 16). The
values of commands and data do not steer the hardware, except the reset code,
which is in the request set of `top`, plain and as the low half of a word;
a length there is above `LengthRange` and is cut to 1. The DMA and top-level safety results do
not rest on the bounds at all: they are proved. The same holds of the RTC's; its
instances keep what the source's numbers have: a digit above the radix, a last
second that is not the last byte, and the least tick period with room for two
carries and a write in between. Counters are bounded by the
lengths given and need no state constraint. Two bits to a byte give the I2C core a
first and a last bit, and the device's address a register address and a
direction bit; every state of the core, pulse on every clock or on every other,
is in the run, and the handshake is proved for any number of bits and any
divisor. `MaxPending` of `reset` is two bursts: a frame before the reset
and one after it can both be on their way. The sizes of `cmos_driver` have one and more of
each kind of line, blank and pixel; its refinement is proved for all sizes.

**Fairness.** Of `LcdTop`: the clock runs (`WF(Next)`); a memory shown a request
for ever takes it (`Accept`), and sends the words it owes (`Deliver`), which is
what an Avalon slave must do. Nothing is assumed of the bus master. Of `LcdApp`
also that the program does not stop inside a driver call: it is straight-line
code and polling loops. Between two calls it may stop. Of `Rtc`, `I2c` and `CmosDriver`: the clock runs, nothing else
(a clock edge that never comes again is no system; the driver of the generator need
make no call). Of `I2cDriver` also that
the processor goes on within a call (`DriverClock`); nothing of the device, which may
refuse for ever. Of `LcdReset`: clock and memory as in `LcdTop`; resets may go on for ever.

**`MinGap`.** `ISBUSY` reads `LS_Busy` of the clock before, and the controller
notices the start of a frame a clock late. With one quiet clock between the
start and the poll (`MinGap = 1`) TLC refutes `KeepsPromise`: the poll says not
busy and the next command displaces the frame's. The program is compiled with
`-O0` (`LCD/sw/nios2/application/Makefile:165`), `ISBUSY` is a function with
a prologue and the registers are not cached, so two quiet clocks are a safe
assumption; the model assumes just these two.

**Coverage of mutations.** Beside a definition stand its slips (`...Late`,
`...Hasty`, `...Forever`): plausible errors of that code. For each property of a
passing run one slip is listed in `PROJECT.json` that the run refutes it under.

## 4. Disagreements with the source's own words

Three of them are faults of the code; each has a run that shows it:

1. `lcd_slave.vhd:136` holds that `waitbusy` settles whether `LS_Busy` rises in
   time. An access in the controller's last busy clock of a frame is never
   acknowledged, and the processor hangs (`claim_access`). The program avoids it by
   waiting for the end of a frame (`CallsReturn` of `app`).
2. `rtcmodule.vhd:25` says that the hundredths are BCD. Written 99 on the clock before
   a tick in second 59, they become A0: the branch of the minute's carry (line 125)
   does not clear them (`claim_bcd`). The same omission makes second 00 of every
   minute but minute 0 last one clock; `CarryMinute` models it, and no statement
   of the source is at odds with it.
3. `i2c.c:133` and its like write the stop bit alone after a missing acknowledge, which
   `i2c_interface.vhd:44` says generates a stop and line 50 says does not; it does not
   (`claim_stop`). The bus is freed by the STOP of the next call that succeeds.

The others are words about code that is modelled as it is, and have no run:

4. `lcd_controller.vhd:205` promises 20 clocks of reset; the loop of line 207 may end it
   at another phase (*The reset state*, above).
5. `lcd_master_tb.vhd:106` asserts that a start makes the master busy; for a
   length below 16 it does not, and the slave's `ADDRESS` state
   waits for the next unrelated busy period to raise an interrupt.
6. `rtcmodule.vhd:120` says the clock restarts from 59:59.99; it restarts from 99:59.99.
7. `i2c_interface.vhd:51-52` says TIP is high while a command is carried out. A command written
   on the clock after TIP fell is wiped by the `cmd_done` that is still up, and the
   core carries it out with TIP low. A processor that polls is too slow to do it
   (`TransferIsShown`, which `I2cInv` of `i2c` implies).
8. `i2c_clkgen.vhd:4` promises a pulse every `clk_cnt` clocks; it is `clk_cnt + 1`.
9. `cmos_sensor_output_generator_hw.tcl:67` calls `MAX_HEIGHT` the maximum height that is
   output; hardware and driver take any up to the greater of both maxima.

## 5. Proofs

Assumptions on the constants: `FifoAssumption` (a positive depth, a threshold
within it), `BurstAssumption` (a positive burst), `RoomForBurst` (threshold - 1 +
burst <= depth; 15 + 16 <= 128 in the source), `FrameAssumption`,
`RequestAssumption`, `DefaultLengthAssumption`, `LengthRangeAssumption` (types, and a
default length the register can hold); for the program, `AppAssumption` (it writes
halfwords, and lengths the register can hold). All results hold for every value that
satisfies them: any set of requests, any addresses and lengths.

`LcdDmaProofs` proves `DmaInv` inductive. Overflow freedom is not inductive by
itself: the master checks the threshold once and then writes a burst. `FifoBound`
states what is left: between bursts at most a burst above the threshold, during
one no more above it than words received; with `NoWordMissed`, no more words come
than the burst has. `FifoNeverOverflows`, `NoWordMissed`, `WordsInOrder` and
`ReadHeldUntilAccepted` follow.

`LcdTopProofs` proves `TopInv` inductive. Its core is `HandOver`, the order in
which slave, master and controller hold a frame: the slave's DMA machine is in
`ADDRESS` while master or controller have it; while the controller is not in
one of its frame states the FIFO is empty and the master is not receiving; and
if the master is reading then, the start was on the clock before. From this,
the DMA machine can leave `ADDRESS` only after the controller left the frame,
which it does only with FIFO and master done. `PinInv` states where strobes may
be low. `IrqMeansFrameDone` and the other state properties of `LcdTop` are corollaries, and
`WriteCycleHeld` comes with the controller's step lemma. The lemma per component
(`SlaveStep`, `ControllerStep`, `ClockInv`, `MasterFrame`, `FifoFrame`) is stated
of any inputs; `ClockStep`, `HandOverStep` and `TopStep` put them together.

`RtcProofs` proves `TimeInv` inductive for any radix, last second, period and set of
accesses with `Settable` (valid times, no 99 hundredths) and `SlowEnough`.
`ValidTime` alone is not inductive: in the minute's carry a tick would spoil the
hundredths. `CarryPending` bounds how far the divider can be from its last tick
while the hundredths are 99, from what is still to carry and how long ago a write
was, and `enable_100hz => count_100hz = 1` puts the next tick elsewhere.
`ReadsDecimal` and `TimeMovesForward` follow, with the lemmas `IncrementBcd` and
`IncrementSecond` on the increment. `RtcInv`, of the display, holds under any
accesses, and with it `DarkBetweenDigits`, `ShowsSelected`, `ResetWhileDark`.
`ReaderInv` is about the program's three reads. That a reading is not earlier than its
beginning is not inductive: half of it is read and the rest still moves. `SoFar`
puts what is read beside what the registers hold; it only moves forward, since the
reads go from the fast digits to the slow, and is the reading when the last one is in.
A tick, each carry and a restart are a case each (`ReaderStep`).

`LcdResetProofs` proves `ResetInv` inductive. `HandOver` of `TopInv` does not hold after a
reset: the FIFO may be full with nobody at work. What holds instead: while the controller is not in a
frame state the FIFO is empty *or* no frame ended since the reset (`fouled`); and what memory
owes covers what the master waits for (`WordsToCome`), with equality once nothing from
before the reset is left (`Resynchronises`). `FifoBound` is as in `DmaInv`: it is the
master's count that bounds the FIFO, whosever words they are.

`I2cProofs` proves `I2cInv` inductive for any width, divisors and accesses of a `Polite`
master. `TransferIsShown` is not inductive: a command accepted while an old `cmd_done` is up
breaks it. `Handshake` says when that is (`cmd_done` outside `DoneAck` only with TIP low)
and that the master has not yet `seen` TIP low then, since a read and the command
after it take two accesses. `EndsWhenDone` and `CommandHeld` follow.

Of `I2cDriver` it proves `DriverInv`, for any calls (`CallsAssumption` types them), device,
divisor and processor. `WritesLand` is not inductive: `Calling` says which transfer of its
call the program is at, `Polling` what it has seen of `TIP` and may no longer have changed.

On top of it `BusInv` keeps core, device and program in step on the two wires. `Levels` says
where SCL is and that the next quarter begins only when core and device have seen it there;
`Drives` what the core does to SDA then, `Still` that nobody moves it; `InStep` that the
device counts the bits the core does (`BitsThrough`), has received the ones it was sent and
shows the ones it sends; `Commanded` that the command is the program's; `Phases` that what
the device expects (its address, a register, data, to send, nothing) is what the
program has come to, `Before`, `Amid` and `After` each transfer; `Clocked` that SCL stays
low between the transfers of a call. Each is needed for the others: SDA is still because
the device changes it only on SCL's fall, which it tells from its count of bits, which is
right because SDA was still. The proof has a lemma for each of these in each part of a
bit (`InStepRise`, `InStepFall`, `InStepStartStop`, ...) and each part of a transfer
(`BeforeStep`, `AmidStep`, `AnsweredStep`, `AfterStep`). `Framed`, `SdaStable` and
`FreeAfterSuccess` follow. They have two hypotheses. `NotEmpty`: a read or write has a byte;
with none, `i2c.c` sends no STOP, as it goes with the last byte. `Slowed`: the
divisor is above 0, as 0x83, the value after reset, and 125, the one of the demo's 50 MHz,
are; at 0 the core samples the wires on the clock it changes them, and TLC finds a START
behind a STOP. The instance of `i2c_driver` satisfies both.

On top of `BusInv`, with the same hypotheses, `ServiceInv` carries the refinement of
`I2cService` (`KeepsService`). `Through` is the number of transfers the device has got through:
a byte sent counts from the fall of SCL on which the device takes it (`Acked`), long before
the program reads the status. `Counted` ties what the device stored and the program
fetched to it; `Present` says that a device which has taken a byte is the one called;
`Pointed` that it points to the register whose turn it is, one further once the master
has acknowledged a byte read; `Received` that the core has read that register, bit by bit
up to `ctr`, and that the byte is unchanged until the program has it. A clock on which the
core works is a `Takes` or leaves registers and count alone (`TakesStep`, `QuietStep`); on
the others the program moves (`RestKeeps`, `RefusedStep`, `AcknowledgedStep`, `FetchedStep`, `GivenUp`,
`SucceededStep`, `BegunStep`), and each is a step of the service or a stutter. Which register
comes n after another is a recursive function; that it has values, and the next from the
one before (`RegisterNext`), needs an induction on n, made from `WFMin`, the library's
least element of a set of numbers, which takes no operator.

`CmosProofs` proves `CmosInv` inductive and from it the refinement `IsSensor`: the mapping
`Clocks` counts the clocks of the period from state and counters, and each branch of the
state machine is shown to be a `Run`, `Halt`, `Configure` or `Restart` of the sensor. The
arithmetic it needs (a line's place in the product of lines and periods) is
split into lemmas on multiplication. Assumed of the constants: registers wide
enough for the greatest configuration.

The driver's theorems (`DriverInv`, `Configured`, `KeepsRules`) rest on two
things one clock apart: `CommandTaken` says what the generator is about to do with the
command written on the clock before, and `Progress` which of the six registers
are as the call wants them. `free`, the quiet clock between two accesses, is what makes
`is_idle` tell the truth. `KeepsRules` is a refinement: each access of the driver
is one the bus master of `Cmos` may make, so that `IsSensor` holds of the driver too.

`LcdAppProofs` proves `AppInv` inductive, together with `TopInv`. `KeepsPromise` says that
`todo`, what the calls asked for and the panel did not get, is worked off in order;
the invariant says where in the hardware it is: `todo = Owed`. What is owed is the access on
the bus while no machine has taken it, or else the transfer under way (`Begun`, by
state and phase of the controller) and the pixels of the words from `NextWord` on,
those in the FIFO and those the master has still to fetch (`WordsToCome`). That it
stays so takes a lemma per machine: `FifoWords` and `MasterWords` (a word moves from
memory to FIFO to controller, and `Owed` does not change), `WriteCycleStep` and
`ReadCycleStep` (what is on the pins in each phase), `WorkStep` (the controller works for
one of slave and master at a time), `PollingStep` (the program is polling as long as
there is a frame, and `isbusy` is not read too soon). `GivesOwed` puts these together:
on a rising edge of `Wr_n` the panel gets the head of `Owed` and the rest is owed; on
other clocks nothing changes. `OwedStep` adds the program: a call begins only with
nothing owed. So each clock is a step of `Display` (`RefinesDisplay`), and `LCD_RD` has the
panel's second answer (`ReadAnswer`). All results of `LcdTopProofs` hold of the program
as well (`ProgramKeepsProtocol`). Three rules are assumed of the program, all of them
true of `hello_world.c`, and `Display` is not implemented without them: two quiet clocks before
an access (`EnoughQuiet`, see `MinGap`); frames of whole bursts (`WholeBursts`: the
master rounds down, and 320 * 240 / 2 is a multiple of 16); no command and no datum 0x8000
(`NoResetCode`: the controller takes a data write of that halfword for a reset as well as a
command, `lcd_controller.vhd:186-189`, and the panel does not get it).

Only model-checked: the liveness properties (`FrameCompletes`, `FrameEnds`, `CallsReturn`,
`CommandEnds`, `FramesEnd`, `Recovers`, `EveryDigitLit`, and of `KeepsPromise` that every
transfer is made at last), out of the prover's reach as it has no rules for fairness.

## 6. Not modelled

- `LCD_HW_RST` writes 0x0080 where the controller's code is 0x8000; to the hardware it is
  one more command, and no program calls it.
- The RTC program's conversion and printing: `read_rtc` has no return value, so
  that what is printed is not determined.
- Loading pictures from the host file system (`hello_world.c` of the LCD): file I/O into
  memory before anything runs.
- The earlier LCD programs: the same calls as the final one. `LcdApp` makes the
  calls in any order that waits for the end of a frame.
- The demos: scripts of a few calls in a fixed order; those of the I2C and CMOS
  drivers are behaviours of `I2cDriver` and `CmosDriver`, and the memory demo
  writes and reads plain memory.
- Clock stretching, multi-master arbitration: the I2C master has neither (`i2c_clkgen.vhd:63`).
- The picture converter (a notebook on the host), the board top levels (pins),
  the test benches (stimuli; their assertions are taken up where one is refuted).
- Everything generated or vendored: Quartus and Qsys output, HAL and BSP, the
  HPS hand-off with its four copies of the DDR calibration sequencer. By lines this
  is nearly all of the C in the repository; the repository's own logic is in a
  dozen VHDL and C files, all of them modelled.
