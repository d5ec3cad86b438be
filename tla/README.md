# Verification of the floating-point Ibex SoC

The repository extends the Ibex RISC-V core (`src/ibex/`) with a floating-point
register file, a combinational FPU, two sequential dividers and an
integer-to-float converter, and builds a small SoC around it (`src/rtl/`): an
AHB-Lite fabric with a data SRAM and an APB bridge to a UART and GPIOs. Its few
C programs (`src/sw/`) run on that core. This directory holds TLA+ models of
hardware and programs, TLC configurations that check them on small instances, and
TLAPS proofs about the execution stage, the arithmetic units, the fetch stage, the
load-store unit, the data path behind it, the UART and the C programs for all values of the
constants. `PROJECT.json` lists components, runs, mutants, the source lines each
definition stands for, findings, hazards and theorems.

Run `tlc -config X.cfg M` for a run, `tlapm M_proofs.tla` for the proofs.

## 1. Inventory

| Component (source) | State | Operations and partners | What makes it correct |
|---|---|---|---|
| ID/EX execution (`ibex_id_stage.sv`, `ibex_ex_block.sv`) | instruction register, `id_fsm_q`, write enables | starts a unit, stalls in MULTI_CYCLE, writes and retires on `ex_valid` | each instruction executes once, on its own operands, and leaves |
| Sequential divider, two instances (`ibex_float_divider.sv`) | 14-state machine, operands, quotient, remainder, `fdiv_valid_o`, `s_input_a_ack` | takes a in `get_a`, b in `get_b`, works, shows the result in `put_z` | the rounded quotient, always an answer, nothing left over for the next request |
| Int-to-float converter (`ibex_int2float.sv`) | 7-state machine, `convert_valid_o` | as above | the rounded integer, always an answer |
| Load-store unit (`ibex_load_store_unit.sv`) | `ls_fsm_cs`, captured controls, first word of a split access, last address | requests to a grant/valid bus, one answer to ID | a serial memory, precise trap address, nothing outstanding when an instruction leaves |
| Bus master glue (`sub_system.sv`) | `data_dr_valid`, registered write data | core protocol to AHB-Lite | no answer early, no data of another transfer |
| Fabric (`ahblite.sv`, `decoder.sv`) | data-phase select and direction | decode, multiplex | the answer is that of the slave that was asked |
| Data SRAM (`data_sram.sv`, `sram_32x1024.sv`) | registered address phase, array, output word | one port, write data phase against read address phase | read returns what was written, port never contended |
| APB bridge (`apb_bridge.sv`) | 5-state machine, `psel`, `penable`, `hready`, latched address and data | one APB transfer for an AHB transfer | each device register accessed exactly once |
| UART (`peripheral/uart/`) | transmitter and receiver machines, synchronised configuration, dividers | APB registers, serial line | each word is received once and unchanged |
| FPU (`ibex_fpu.sv`) | none, but its two normalisers and several results are latches | combinational: add, multiply, multiply-add, compare | close to the exact result where the code aims at one |
| Fetch stage (`ibex_if_stage.sv`, `ibex_prefetch_buffer.sv`, `ibex_fetch_fifo.sv`) | FIFO, fetch address, kept request, outstanding and discard bits, IF/ID register | requests words ahead, hands over instructions, is redirected by jumps, traps and the controller | the instruction stream, whole and in order; no answer lost, no word without room |
| Controller and clock gate (`ibex_controller.sv`, `ibex_core.sv`) | controller state, `core_busy_q` | boot, run, sleep and wake-up; shuts the core's clock | nothing is lost behind the gate |
| simple_system library, hello_test (`sw/simple_system/`) | `time_elapsed`, `time_increment`, the timer's `mtime` and `mtimecmp`, CSRs | timer reads and updates in 32-bit halves, timer and exception handlers, printing, halting | no torn value is used, no wake-up is lost, the text is right |
| UART library (`sw/lib/uart.c`) | the caller's buffer | polls a busy flag and a data register | each character once, in order, inside the buffer |
| LED program (`sw/led/led.c`) | LED pattern, loop counter | delays, inverts | the delay asked for |
| ALU, register files, decoder, write-back, CSRs, `ibex_multdiv_fast.sv`, compressed decoder | as in upstream Ibex plus float write ports | | |
| GPIO, instruction SRAM, clock divider | register array; read-only array; counter | | |

Interaction: the ID stage starts a unit by `fdiv_en`/`convert_en` (both dividers
share one enable) and listens to the valid of the unit it selects; loads and
stores go to the load-store unit, whose requests pass the glue and the fabric to
the SRAM or, through the bridge, to a peripheral; the fetch stage fills the IF/ID
register while the ID stage lets it; UART software polls registers; the timer
interrupts the C program between any two of its accesses.

What is hard: units that keep running or keep a valid when their instruction is
gone; operands captured in different cycles; split accesses whose grants and
answers interleave; pipelined address and data phases under wait states; a
single SRAM port; fetch answers that come after a branch, a stall, or a shut clock
gate; two clock domains in the UART with oversampling; resets at any time that
clear some registers and leave others; rounding boundaries; 64-bit values that an
interrupt handler and the program it interrupts read and write in halves. The list,
with lines, is `hazards` in `PROJECT.json`.

## 2. Modules and how they correspond to the code

Time is clock edges: one step of a specification is one rising edge (or the
asynchronous reset), and every combinational signal of the cycle is an operator
over the current registers. A register has flip-flop semantics also where the
source writes `=` in a clocked block (`fdiv_valid_o`); an unknown condition (`x`)
counts as false, as in an `if` of the simulator. Power-up contents that no reset
clears are chosen from a constant set.

### Floating-point execution

* `FpInstr` - instructions (operator, destination, sources), register writes (register
  0 ignores them, in the floating-point file too, as the code has it), the operators
  `Div`, `Add`, `Cvt` as constants.
* `FpIsa` - **abstract specification**: an instruction in the ID stage is executed in
  one step, with its effect on the register files and `minstret`; the next
  instruction or a bubble arrives; a reset. `Adjacent` says which instructions may
  follow each other at once.
* `DividerUnit`, `ConverterUnit` - the unit's handshake with the data path
  abstracted: `GetA`, `GetB`, a number of `Work` cycles, `Finish`, `PutZ`, `Reset`. They
  are the **abstract specifications** of the two modules of the next section and the
  components of this one.
* `FpExec` - composition: two `DividerUnit`s and a `ConverterUnit` on shared
  enables, `OperandA/B/C` the ID-stage multiplexers, `ExValid`/`ResultEx` the
  multiplexers of the EX block, and one disjunct of `Clock` per branch of the ID
  state machine (`Bubble`, `FirstCycle`, `MultiCycle`, `RetireUnit`, `RetireFAdd`,
  `RetireInt`, `RetireMem`). `ImplementsIsa`/`ImplementsFairIsa` state that it
  implements `FpIsa`.

### Arithmetic units

* `FloatFormat` - floats of `EB` exponent and `F` fraction bits, exact values as
  scaled integers, and the **reference**: the nearest float, ties to even, of a
  quotient (`Quotient`) and of an integer (`OfInteger`). A comment of the
  divider differs from it for an infinity divided by zero (section 6).
* `FloatDivider`, `Int2Float` - every state of the two units with its registers,
  parameterised by the widths (the code is EB = 8, F = 23, W = 32). Their property
  `ImplementsUnit` is the refinement of `DividerUnit`/`ConverterUnit`, so that what is
  proved of `FpExec` rests on units that are checked. The second half of each module has
  two clients of the unit: one keeps its request, as the ID stage does; the other drops
  it, changes its operands and resets at any time.
* `Fpu` - the combinational unit: special cases in the order of the code, alignment,
  adder, multiplier, both normalisers, multiply-add, comparison. An operator of it is
  the set of the outcomes possible: a normaliser that finds no leading one in its reach
  (20 places for the adder, 5 for the multiplier) assigns nothing, so its result is
  any that a latch may hold (`Held`).
* `ArithmeticUnits` - the three side by side, one looked at in a behaviour.

### Instruction fetch

* `ProgramImage` - the instruction memory as a ring of words, each of two halves, with
  long and compressed instructions and words the bus fails to answer.
* `InstrStream` - **abstract specification**: from the address last set, one whole
  instruction after the other, with redirections, sleep and reset.
* `PrefetchBuffer` - the prefetch buffer and its FIFO. Valid bits that are always a prefix
  (`valid_q`, `rdata_outstanding_q` with `branch_discard_q`) are a sequence.
* `FetchStage` - the composition, cycle by cycle: the bus grants and answers when it likes,
  in order; the ID stage stalls; the controller boots, redirects, speculates, sleeps and
  wakes up; the clock gate opens and shuts (`core_busy_q`).

### Memory path

* `MemAccess` - access sizes, byte lanes, rotation, extension, the split of a
  misaligned access.
* `SerialMemory` - **abstract specification**: one access at a time, in one step.
* `LoadStoreUnit` - the load-store unit, one operator per state of `ls_fsm_cs`, and the
  part of the ID stage that issues and completes an access.
* `LsuBus` - the unit on an arbitrary bus: grants and answers at any later cycle,
  errors anywhere; behind it memory words and device words, which read as anything. It has
  no reset (the one of the whole path is in `DataBus`).
* `ApbBridge` - the APB bridge. `DataBus` - the composition of unit, glue, decoder,
  multiplexers, SRAM and bridge, with reset. Peripherals are a strobe history and
  registers that read as anything. The SRAM drops the high address bits, so that words
  `SramDepth` apart are one row; `UsedWords` are the SRAM's words that the program uses.

### UART

* `UartFrame` - configurations and words. `UartTx` - the transmitter, one edge of the
  bit clock per step. `UartRx` - the receiver, one edge of the sampling clock per
  step. `num_of_one` is kept modulo 2, its only used bit.
* `SerialChannel` - **abstract specification**: send, deliver.
* `UartLink` - a transmitter wired to a receiver, software at both ends, the two
  clocks (16 samples in a bit, now and then 17 because `rx_div` rounds its divisor
  down), a reset while nothing is being sent. The software keeps to the protocol the
  repository's bus-functional model states (`uart_single_test/APB3_BFM.sv:89`: two bit
  clocks between words) and has the receiver enabled before a frame begins. It writes the
  data register and the enable in two accesses (`WriteData`, `SendOn`), any number of clock
  edges apart: the data first, and again as soon as the frame is on its way.

### Programs

One step is one access to a device, a CSR or a shared variable; computation on locals
belongs to the step before it. The timer ticks at most once in a step.

* `SimpleTimer` - `simple_system_common.c` on one hart: `timer_read`, `timecmp_update`,
  `timer_enable`, `timer_disable`, `get_elapsed_time`, the timer and the exception handler,
  with trap entry, `mret`, `wfi` and wake-up as the core's controller has them. `call` is the
  library call in progress in each context (main, timer handler, exception handler).
* `HelloTest` - `main` of hello_test with the performance counter it resets, enables and
  disables. `TimerClient` - any program that calls the library in any order, and
  may fault.
* `UartConsole` - all six functions of `sw/lib/uart.c`; their device is not in the
  repository and is modelled from how they use it. `Blink` - the LED program.
* `Firmware` - one of these images, chosen at the start.

### Broken variants

Definitions whose comment starts with "Broken" are variants with a plausible
bug, used by `mutants` of `PROJECT.json`: with it in place of the definition of the
same name stem, TLC reports the property violated. They are no part of the
specifications.

## 3. Runs

| Run | Instance | What it shows |
|---|---|---|
| `fpexec` | 2 values, 3 registers, programs with one divider each, conversions, FADD, FLW, FSW and integer instructions in any safe order, dividers of 2 or 5 cycles, converter 2 or 3, resets | the stage implements `FpIsa` with progress, units hold only the work of the instruction in ID |
| `mixed` (violated) | FDIV and FADDDIV in one program | the divider not selected starts too and completes a later instruction with its stale result |
| `units` | a 7-bit float format, 8-bit integers; both kinds of clients; the combinational unit on operands of both ends and the middle of the range | rounded quotients and integers, loops that lose nothing and end, refinement of `DividerUnit`/`ConverterUnit`; distance of sums, products and fused results from the exact ones; comparisons that order |
| `inf_by_zero` (violated) | the same | an infinity divided by zero is an infinity, where the divider's comment says NaN |
| `lsu_bus` | 3 words of memory and one of a device, of 4 bytes, every size and offset, two accesses in succession | serial memory on any bus, precise trap, request held, nothing left behind |
| `data_bus` | two SRAM words, UART, GPIO, a gap, an undecoded word; resets | serial memory, SRAM port never contended, device registers strobed exactly once, by word address |
| `data_bus_narrow` (violated) | a byte store to the SRAM | the SRAM writes the whole word |
| `unaligned` (violated) | that of `data_bus` | the request of an unaligned access is not for a word, as the unit's assertion says |
| `uart_link` | three formats (5 bits no parity, 5 odd, 8 even; 1 and 2 stop bits), two words, up to seven stretched bits in a frame | each data bit is decided by its own samples; every word delivered once, in the end |
| `uart_parity` (violated) | the same | an intact frame is reported as a parity error |
| `fetch` | ring of five words, 3 contents, 2 targets, any bus, stalls, sleep, resets | implements `InstrStream` with progress; requests held, answers awaited, room in the FIFO |
| `firmware` | the four images with words of a few values | fresh and whole times, safe compare updates, the fault reported, no wake-up lost, intact console, exact delays, hello_test halts |

What the properties say that their names do not: `SumsAreClose`, `ProductsTruncate` and
`FusedIsClose` compare with the exact value in `FloatFormat` and exclude the cases of
section 6, each named in the property; `UnitsImplemented` is the initial condition and the
step formula of the abstract unit (`[][Unit!Next]`), as TLC checks them together with the
other units of the run; `ElapsedIsWhole` and `UndisturbedUpdatesAreSafe` state the condition
under which the library's two unprotected 64-bit accesses are right (section 6).

Why the bounds are enough. The control of `FpExec` does not depend on values, only
on their being told apart: two values and operators that distinguish their
operands and each other show a wrong, swapped or late operand; two different
latencies show a unit that finishes before or after another. (`mixed` uses 110 and
111, the divider's real range, because a stale answer has to
meet a later instruction.) The dividers' control depends on the class of an
operand (zero, subnormal, normal, infinite, NaN), on normalisation distance and on
rounding position: the 7-bit format has all of them. Every dividend is tried with the
divisors of both ends and the middle of the range (`MCDivisors`), every 8-bit integer is
converted. The second client is bounded to `MaxEvents` requests and resets, enough for a
disturbed request, a reset and two more; its words are one from each path.
`AddShifts` and `MulShifts` leave the normalisers short of the widths as the code's are, so
that the latch case happens.
`lsu_bus` needs two accesses to show a leftover of the first in the second. In the
UART the phase of the receiver's window relative to the bit (9 samples against 16)
passes through all its values in the idle time between frames. A bit lasts 16 samples and
r / q more, where q is `cfg_baud`/32 and r < 16 what the division leaves, and the
transmitter leaves `IDLE` for 13 bits at most: `MaxSlips = 7` covers every `cfg_baud` from
896 up (with 5208, the one the tests write, the drift of a frame is below one sample). It
is the most the receiver bears: with eight, `SamplesItsOwnBit` fails. `MinGap = 2` is the
documented interval. Histories (`tag`, `minstret`, `turn`)
are modulo 2: two consecutive events are told apart.
FIFO and bus hold at most three words of the five in `fetch`'s ring, so that no two words
in flight have the same address by wrapping; from target 5, an odd one, a memory of long
instructions has every instruction across two words.
In `firmware` hello_test has `Span` 16 and an interrupt every 18 ticks, two more than
`LongInterval` asks for (2000 cycles in the program): `NoLostWakeup` rests on that (section 4).
The client's timer has words of
four values and a `time_elapsed` of two, so that carries between the halves happen in its
`MaxCalls` = 3 calls. `MaxConsole` = 3 calls and arrivals overrun a buffer of two bytes.
The delays are those around the eight-cycle boundary, scaled to 5 cycles in a microsecond
and 2 in a pass.

The MC modules start from a restricted power-up content where the content is
never read before it is written (`MCUartLink`), and one named value for it elsewhere
(`PowerUp`). `CHECK_DEADLOCK` is on in every run but `firmware`, whose programs halt or
reach the bounds of their callers; elsewhere the clock always has a step.

### Fairness

* The clock runs: weak fairness of the clock step (`FpExec`, `DataBus`, the clients of
  the two units, both UART clocks). Nothing is assumed about the software or about
  resets.
* `LsuBus`: strong fairness of granting and of answering, because the bus may take
  either back for a cycle; it is the obligation the bus has, and `DataBus`, which
  has only the clock, shows that the SoC's bus meets it.
* `FpExec`: strong fairness of the data bus's answer to a load or store, for the same
  reason.
* `FetchStage`: weak fairness of the clock while the core is not asleep (nothing promises
  an interrupt), and strong fairness of a cycle in which the bus grants and answers, and the
  ID stage takes what comes and does not redirect.
* `Firmware`: the hart executes hello_test. Nothing is assumed of the other images.

## 4. Proofs

All are about the specifications that the runs check, with the constants' values left
open. What holds of the constants is assumed by name in the modules (`ASSUME`, evaluated by
TLC in every run that uses the module), unless a theorem states it as its hypothesis.

### The execution stage

`FpExec_proofs` proves for every program, register file, arithmetic and set of
latencies that satisfy the named assumptions of `FpInstr` and `FpExec` (its lemmas
`Divider0`, `Divider1` and `Converter` are the units' part: types are kept, and
`Serves` is kept by a step with the operands of a waiting instruction):

* `TypeCorrect` - `Spec => []TypeOK`;
* `UnitsServeCorrect` - `SafeProgram => (Spec => []UnitsServe)`;
* `ExValidCorrect` - the same for `ExValidIsOwn`;
* `Implementation` - the same for `ImplementsIsa`: the refinement, step by step.

The argument. `ExValidIsOwn` is not inductive: it says nothing of a unit that is
still working. `UnitsServe` is its strengthening: for the divider the program uses,
and for the converter, either the unit is idle with nothing captured, or it is
somewhere in the work of the very instruction that waits in MULTI_CYCLE, with the
operands already captured equal to the registers that instruction names (they do
not change while it waits). It is kept because the instruction leaves in exactly
the cycle in which `valid` is high, and the unit leaves `put_z` then. Without
`SafeProgram` it fails: with both dividers used the unselected one works for no one, as the
run `mixed` shows, and the converter's valid is high for one cycle more than the
instruction stays (section 6).

`SafeProgram` is a restriction of the *software* (no program uses both divisions, no
two conversions back to back), not an assumption about the hardware.

### Instruction fetch

`FetchStage_proofs` proves for every memory, boot address and set of targets, and a bus
of any behaviour (`ImageAssumption`, and `FetchAssumption`: two requests, as the
code is built):

* `NoAnswerIsLost` - `Spec => []AnswersAreAwaited`;
* `RequestIsStable` - `Spec => []RequestHeld`;
* `FifoHasRoom` - `Spec => []NeverOverflows`;
* `FetchIsTyped` - `Spec => []TypeOK`;
* `FetchIsStream` - `Spec => Stream!Spec`, the refinement of `InstrStream` but for its
  progress: the ID stage gets the instructions from the last target on, in order, each
  once and whole.

The argument. None of the first three is inductive alone; `FlowInv` joins them with what they
lean on. Its part `Traffic` counts: buffer and bus know the same number of outstanding
words, at most two; a request waiting on the bus has a place in the tracker; and the
entries of the FIFO, the words on their way that count, and the place reserved for the
waiting request are three at most. Its part `Gate` says that while the clock is shut
nothing is on the bus, which is why a grant or an answer cannot be missed. The lemmas
count the discard bits of the tracker through a shift, a push and a branch.

`StreamInv` adds the data (`Course`): the words between `pc_if` and the fetch address are
consecutive, and each is in one place - first the entries of the FIFO, with the contents
that memory has there, then the answers on their way that are not discarded, then the
request that waits for its grant, then `fetch_addr`. The discarded answers are the oldest,
a prefix of those on their way, so no answer that counts is counted at another's address.
Before the boot address is set nothing is fetched. An instruction is handed over when its
one or two entries are there; the entries being consecutive words, it is that of memory.
`TypeOK` needs the same invariant, as it says that the ID stage holds a whole instruction.

### The load-store unit and the data path

`LoadStoreUnit_proofs` has the lemmas for both: which bytes of which words an access and
its parts touch, and that rotating, merging and extending undo each other. `LsuBus_proofs`
proves for every set of accesses, byte and address width, and any bus
(`AccessAssumption`, `AccessesAssumption`):

* `NothingIsLeftBehind` - `Spec => []NothingLeftBehind`;
* `TrapsArePrecise` - `Spec => []TrapIsPrecise`;
* `RequestIsHeld` - `Spec => RequestHeld`, an action property;
* `LsuIsTyped` - `Spec => []LsuTypeOK`;
* `LsuIsSerialMemory` - `Spec => Serial!Spec`, the refinement of `SerialMemory` but for its
  progress.

The argument. `LsuInv` says for each state of `ls_fsm_cs` how many answers are outstanding
(`Outstanding`), that only a split access is ever in the second half of it
(`SecondPart`), and which part's error is kept and where its address is (`Failure`).
`NothingLeftBehind` follows because the instruction leaves in the cycle of the last answer
only; `TrapIsPrecise` because the address register stops at the first failure. For the
refinement the invariant also follows the data: a store's bytes are in memory for the parts
that were answered and nowhere else, and a load's first word, kept since its answer, is what
memory holds, because nothing else is stored meanwhile. While an access is in the ID stage
the mapping shows the memory as it was `before`, so that the access takes effect at the
edge at which it leaves.

`DataBus_proofs` proves for every set of accesses, address map, SRAM and set of
peripherals, with resets at any time:

* `PathIsTyped` - `Spec => []TypeOK`;
* `SramPortIsShared` - `Spec => []NoSramPortConflict`;
* `StrobesAreOnce` - `Spec => StrobedOnce`, an action property;
* `PathIsSerialMemory` - `StoresAreWhole /\ RowsAreOwn => (Spec => Serial!Spec)`.

The argument. On this bus a request is granted in its cycle, so that at most one transfer
is in its data phase; `BusInv` says which (the first or the last part of the access in the
ID stage, by the unit's state) and that glue, fabric, SRAM wrapper and bridge agree on it:
the registered select and direction are its own, the write data belong to it, the bridge is
in the state that its `psel`, `penable` and strobes say. A read of the SRAM in its data
phase finds its word in the output register; a write is made in its data phase, when the
ID stage can only ask for a store of the same access, so the port is not shared.
The two hypotheses of the last theorem restrict the *software*. `StoresAreWhole`: the
stores to the SRAM are aligned words, because the SRAM has no byte enables (the finding of
`data_bus_narrow`). `RowsAreOwn`: no two of the words used are the same row, because the
region is larger than the SRAM and the high address bits are dropped. `data_bus` checks an
instance that satisfies both.

### The UART

`UartLink_proofs` proves for every set of configurations and words and every interval
(`LinkAssumption`), if no more than seven bits of a frame are stretched:

* `LinkIsTyped` - `MaxSlips <= 7 => (Spec => []TypeOK)`;
* `BitsAreSampledInside` - the same for `SamplesItsOwnBit`;
* `LinkIsChannel` - the same for `Channel!Init /\ [][Channel!Next]_Channel!vars`, the
  refinement of `SerialChannel` but for its progress.

The argument. `LinkInv` is about time. `Fewest` and `Most` bound the samples taken since the
line fell, by the bit on the line, the samples of it and the stretched bits; for every phase
of the receiver (`Falling` in the window the start bit begins in, `Deciding` in the next,
`Found`, the rest of the start bit, each bit, the end) its counters say how many samples it
believes were taken, and the two agree to within three samples and the stretch. The receiver
begins a bit 17 to 20 samples after the fall where 16 would be ideal, and takes the six
samples in the middle of it, at counts 6 to 11: so the bit's own samples are inside even if
seven more were inserted before. Before the frame (`Waiting`), what an earlier one left in the
receiver's window is forgotten before the line can fall; after it (`Resting`), the lows it
still sees of the last bit are too few for a start bit, or else it would find one that nobody
sent. `Handshake` is the protocol: the word is in the data register until the transmitter has
it, and `send` falls only when the enable has been low.
`TypeOK` follows from the same invariant only: it is the timing that keeps `count_empty` from
running over.

### The arithmetic units

`ArithmeticUnits_proofs` proves for every format of at least two exponent bits and one
fraction bit (`FormatAssumption`) whose fraction is no longer than twice the bias
(`DividerAssumption`: 23 and 254 in the code), every integer at least two bits longer than a
significand and in the range of the format (`ConverterAssumption`), normalisers that reach less
far than a significand or a product (`FpuAssumption`), every set of operands
(`ClientAssumption`, `InputsAssumption`), both kinds of clients and resets at any time:

* `RegistersFit` - `UnitsSpec => []UnitsTypeOK`;
* `ResultsAreCorrect` - the same for `ResultsAreRounded`;
* `LoopsAreExact` - the same for `LoopsKeepTheValue`;
* `SumsAreCorrect`, `ProductsAreCorrect`, `FusedAreCorrect`, `ComparisonsAreCorrect` - the
  same for `SumsAreClose`, `ProductsTruncate`, `FusedIsClose`, `ComparisonsOrder`;
* `UnitsImplement` - `UnitsSpec => UnitsImplemented`: `FloatDivider` implements
  `DividerUnit` and `Int2Float` implements `ConverterUnit`, which are what
  `FpExec_proofs` rests on, but for their progress.

The argument (`UnitsInv`, the conjunction of the three units' invariants). `DivInv` says for
each state of the divider what its registers are worth. Unpacked and normalised, mantissa and
exponent are those of the operand (`Scaled`): a shift trades a power of two between them. In
the long division (`DividesExactly`) the bits taken from the dividend so far are the quotient
times the divisor plus the remainder; each of its two states moves one bit. After it,
mantissa, guard, round and sticky bit bracket the exact quotient (`ResultKept`): the first
three are its leading bits, and the sticky bit is set just if it is not equal to them. The
shifts to the left, and to the right into the subnormal range, keep the bracket, because what
drops out is remembered in the sticky bit. In this bracket the decision by the three bits is the
reference's: nearest, ties to even (`ResultIsQuotient`). A carry out of the rounding is the next
float; a magnitude beyond the range becomes the infinity. `AgeIs` counts the
cycles by the state and the positions shifted, which bounds the latency. `CvtInv` is the
same for the converter: mantissa, rest and exponent make up the integer. In the
combinational unit, which has no states, the outcomes of an operation are compared with the
exact value: alignment drops less than a last place of the larger number; the adder's
normaliser, if it finds the leading one, multiplies by the power of two that it takes from
the exponent; the multiplier cuts its product off once; the fused operation does one after
the other. Comparisons are on exponent and fraction as digits of one number.

Powers of two are a function on the naturals. That it is what its definition says, and
the laws of its sums and order, follow from the least number principle, which the library's
theorem on well-founded relations gives for a set: induction over a set needs no theorem with
an operator as a parameter.

### The programs

`Firmware_proofs` proves for words and counters of any width, timers that stop at any
`LastTime` (they never wrap), and for two main programs, with an interrupt between any two
steps: hello_test's, and a client that makes any calls in any order and may fault
between two calls or in the handler:

* `TimesAreFresh` - `Spec => []TimeIsFresh`;
* `UpdatesAreSafe` - the same for `UndisturbedUpdatesAreSafe`;
* `ElapsedTimesAreWhole` - the same for `ElapsedIsWhole`;
* `FaultsAreReported` - the same for `ReportsTheFault`;
* `WakeupsAreNotLost` - `Spec => []NoLostWakeup`, assuming `LongInterval`.

The argument. `TimeInv` says where the hart can be (`Hart`: a handler runs with interrupts
off while the main program waits, and each step belongs to the functions that have it)
and what a reading in progress knows (`Reading`: the high word is not above `mtime`'s, and
while the two are equal the low word belongs to it). `TimeIsFresh` alone is not inductive: it
is silent until the reading is over. `Setting` adds what the three writes of an update leave
in the compare register and that an update torn by an interrupt is known as `mixed`;
`Loading` that the first half loaded is one of a value the counter had; `Reporting` what has
been printed before the next item. `HelloInv` and `HelloSetting` are the same for hello_test,
with the words of its own timer and a core that sleeps; its steps are lemmas of their own,
as the two timers are two instances.

`NoLostWakeup` is about time: main looks at the count, announces it and executes `wfi`; were
an interrupt to come between the look and the `wfi`, main would sleep on a count it has not
announced, and wake up for the next one only. Nothing in the code excludes that but the length
of the interval. `WakeInv` therefore bounds, for each place in main and in the handler, the
ticks that are left until `mtimecmp` (`Left`): the interval less a tick for each step made
since the time was read that the compare value was computed from (`Due`), down to one tick
before the `wfi` (`OnTheWay`). From it follows that an interrupt is taken at one place only,
behind the `wfi` (`InterruptedThere`), and so the count main loaded is still the counter's.
`LongInterval` says that the time base is 16 ticks or more, and that a time base after
`LastTime` fits into two words, so that the sum does not wrap. The 16 are tight: with 15, TLC
finds a lost wakeup. The program's 2000 cycles are for steps of many instructions,
of which the printing of an announcement is the longest; how many cycles that takes is not
modelled.

The module proves for every alphabet, text and buffer size, any order of calls and any
pace of the device, and for every clock and width of the delay counter:

* `ConsolePassesAll` - `Spec => []ConsoleIntact`;
* `DelaysAreKept` - `Spec => []DelayIsAsAsked`.

The argument. `ConsoleInv` adds to the property what is filled of the buffer: the next index
is the number of characters taken, what is still asked for fits behind it, and a device that
a poll found idle stays so until it is written. `DelayInv` relates the passes left to the
ticks that have gone by; the lemma on quotients says what the two divisions of the pass
count lose: less than a pass.

* `TypesAreKept` - `Spec => []TypeOK`, for whichever image is loaded, joins all of these.

### Only model-checked

* Liveness, everywhere: that the divider, the converter, the fetch stage, an access and a word
  on the line come to an end, and that hello_test halts. Fairness and `ENABLED` are beyond
  the prover: so are the parts of `ImplementsFairIsa`, `ImplementsSerialMemory`,
  `ImplementsChannel`, `ImplementsStream` and `ImplementsUnit` that promise progress. What
  else the passing runs check, every invariant and every refinement's steps, is proved.
* What the other runs refute: a counterexample shows it.

## 5. Not modelled, and why

* Branches, exceptions, debug, integer multiply and divide (`ibex_multdiv_fast.sv`), and
  CSRs other than those the programs use: upstream Ibex. Interrupts are modelled as the
  programs see them; the SoC itself leaves them unconnected or 0.
* The compressed decoder, a table without state; the encoding of instructions.
* The instruction port of the bus and its SRAM: `FetchStage`'s bus grants and answers at any
  time, in order, which covers them.
* UART registers, synchronisers and dividers, and frames that begin before the
  receiver is enabled. GPIO's register array.
* Decoded AHB regions with no slave (their `hready` is undriven), and clock domain
  metastability.
* Upstream options the SoC does not build, the integer-only baseline, backups, other
  programs (stimuli and lists of encodings), test benches.
* Simulator output: `uart_single_test/csrc/` (`rmapats.*`, `_vcs_pli_stub_.c`, `filelist.cu`)
  was written by VCS when it compiled a test. It is most of the repository's C by
  lines and none of its program: tables of the simulator's scheduler and stubs that forward
  calls to its library. The C written by hand, about 490 lines in `sw/simple_system`,
  `sw/lib` and `sw/led`, is modelled; the rest of the design is SystemVerilog and Verilog.

## 6. Divergences met while modelling

Shown by runs (`findings`): stale result of the unselected divider; no byte enables in the
data SRAM; parity checked against the register's old value; an infinity divided by zero is
an infinity, as IEEE 754 and `FloatFormat!Quotient` have it, where the divider's comment says
NaN; the address of a request is not word aligned, as an assertion of the load-store unit
demands. (Every slave of this SoC drops or ignores the two low bits; a peripheral sees them in
`paddr`. `StrobedOnce` compares words.)

Not shown by a run of their own:

* `ibex_int2float.sv:108`: `put_z` raises `convert_valid_o` in both of its cycles, and a
  second FCVT.S.W that follows at once completes with the first one's result. It breaks the
  property of `mixed` a second way: `MCFpExecMixed.cfg` with `Programs <- MCConvertPrograms`,
  `DivCycles = {2}` and `CvtCycles = {2, 5}` shows it.
* `ibex_fpu.sv:124` and :183: the tests for a zero operand look at mantissas that always have
  their hidden bit (:54-62) and are never true; the sum of two zeros is 2^-125, a product
  with zero reads the normaliser's latch. `MCInfinityByZero.cfg` with `Fpu!ZerosAreSeen`, which
  states the comments at :123 and :183, as its invariant shows it.
* `ibex_fpu.sv`, all in `Fpu`: an infinity is treated as NaN in a comparison, which raises
  the exception and is false; the corner-case result of NMADD and NMSUB is not negated; two
  subnormals or zeros of like signs are made to carry as two normal numbers of equal
  exponents would (:487);
  the exponent wraps on overflow and underflow; a normaliser that finds no leading one
  keeps the result of an earlier operation.
* `tx.v:87`: a reset during a frame clears `done` but not `send`; when the reset is over the
  transmitter sends a frame that nobody asked for, of the reset value. `UartLink`'s software
  resets an idle transmitter only.
* `simple_system_common.c`: `timecmp_update` called while the timer interrupt is on and
  interrupted between its writes leaves a compare value made of two targets' halves;
  `get_elapsed_time` interrupted by an increment that carries returns a number
  `time_elapsed` never held. hello_test does neither (it enables the timer with the
  interrupt off, and 2^32 interrupts take too long to carry).
* `led.c:27`: a delay of fewer than 8 cycles (`usleep_ibex(0)`) gives a count of 0, as
  does one whose count is a multiple of 2^32; the loop, which decrements before it tests,
  makes 2^32 passes then. `DelayIsAsAsked` is about the delays in between.
* `uart.c:46`: `uart_gets` with a size of 0 or less writes a byte it has no room for.
* `sub_system.sv:48`: the core's timer interrupt input is an undriven net, so hello_test's
  handler never runs on this SoC; the timer is that of simple_system, which the program was
  written for. The start-up code also clears one word past the end of BSS.

## 7. Plan

1. (done) `FpExec` with its abstract specification and proofs; the two sequential
   arithmetic units; the memory path; the UART's transmitter and receiver.
2. (done) The combinational FPU; instruction fetch with an abstract instruction stream;
   the C programs; proofs about `FetchStage`, `LsuBus` and the timer library.
3. (done) Proofs: the refinements of `InstrStream`, `SerialMemory` (on any bus, and by the
   whole data path) and `SerialChannel`, all safety invariants on those paths with type
   correctness; the console and the LED program.
4. Left to model: UART registers, synchronisers and baud dividers around `UartLink`,
   including polling software; the GPIO array; `ibex_multdiv_fast`; the compressed decoder;
   `FpExec`'s FLW/FSW with `LoadStoreUnit` instead of an answer at any time, and the
   ID stage on `FetchStage` instead of an arrival.
5. (done) Proofs: the arithmetic units for every format, with their refinement of the units
   `FpExec` uses; the timer library under hello_test, its wakeups, and the programs' types.
6. Left to prove: a bound of the cycles that a step of hello_test takes, which would turn
   `LongInterval` into one about the program's 2000 cycles (the model's steps are not
   cycles); progress, should the prover come to reason about fairness.

Related questions share a run where one state space answers them (the patient
and the impatient client of a unit, SRAM and peripheral traffic, the images of the
firmware).
