# qe6502 in TLA+

A verification project for `qe6502`, a cycle-by-cycle emulator of the 6502 family, and
the tools around it. The emulator is driven one bus cycle at a time: the host calls
`qe6502_tick` with the byte that was on the bus and gets back the next bus request,
and between two ticks it may move the IRQ and NMI pins, jump, restart, change the
model, save or load. The tools put two such CPUs side by side, bring both to the first
instruction of a test, and assemble the tests.

## Parts of the system

| part | state | operations | where | modules |
|---|---|---|---|---|
| control store | five constant tables of 512 slots x 8 handlers | looked up by model, slot, cycle | `cpu/src/control_store/*.inc` | `ControlStore`, `OpcodeTables`, `Microcode` |
| sequencer and interrupts | `microcode`, `hijack_microcode`, `interrupts`, `P`, `latch_data` | `qe6502_tick`, `_goto`, `_restart`, `_nmi_assert`, `_irq_assert` | `cpu/src/qe6502.c`, `qe6502.h` | `InterruptLogic`, `Qe6502`, `EagerResolver` |
| addressing and bus cycles | `latch_addr`, `latch_data`, `PC`, `S`, the registers | the handlers, one bus cycle each | `qe6502.c` 529-2625 | `Mnemonics`, `Handlers`, `BusCycles`, `InstructionSet` |
| arithmetic | `A`, `P` | binary and decimal ADC, SBC, ARR, shifts | `qe6502.c` 129-411 | `Arithmetic`, `Accumulator` |
| snapshot and ABI | a 64-byte record | save, load, setters | `qe6502.c` 2627-3020 | `Snapshot`, `BusCycles` |
| C++ binding | a context and the last tick | forwards to the core | `binds/cpp` | none |
| JavaScript binding | a pool of contexts, a disposed flag | alloc, free, save, load, dispose | `binds/js` | `ContextPool`, `JsBinding`, `PrivateCpus` |
| CPU bridge | a backend and 64 KiB of memory | step, pins, restart | `tools/cpu6502_bridge` | `Bridge`, `Qe6502Cpu` |
| lockstep runner | two backends, a cycle counter | set up, step, compare | `tools/lockstep` | `TestSetup` |
| assembler | statements, symbols, byte map | resolve, place | `tools/asm6502` | `Assembler`, `Encodings` |
| test cases | a table: program, registers, declared length | | `nmi_observer/testaces.cpp` | `Testcases` |
| NMI observer | the traces and the report of a test case | align, record, compare, classify, sum up | `nmi_observer/cpu6502_interrupt_observer.cpp` | `Observer` |
| harnesses, the tools' test cases | data and tests | | `harness`, `tools/common` | none |

How they interact: everything reaches the core by direct calls on one thread. The core
keeps no reference to its host; it communicates through the returned tick. The host
chooses when pins move, so the order of pin calls and ticks is the source of all the
interleavings. The bindings and the bridge wrap one core each, the lockstep runner
drives two bridges with the same pins, and sets up each of them by itself. The
assembler produces the bytes that the set-up writes to memory and the core decodes.
The observer runs assembled test cases on a backend of the bridge, moves one pin at
chosen cycles and looks at the bus.

What makes each part correct:

- *control store*: each row is left only through a fetch; no row is overrun; each
  instruction samples interrupts where the chip does.
- *interrupts*: each asserted NMI is served once; IRQ is served when it was asserted
  with I clear in the sampling cycle; a sequence pushes one frame and reads one
  vector; the fast path of `qe6502_tick` cannot be told from the slow one.
- *addressing, arithmetic*: each instruction's bus cycles and results are those of a
  reference definition.
- *snapshot*: a loaded CPU goes on as the saved one would have.
- *context pool*: a context belongs to one owner; scratch contexts come back.
- *lockstep*: a set-up succeeds from any state of the CPU; the memory of the test is
  what the test asked for, whichever set-up path was taken.
- *assembler*: resolution ends, the bytes agree with the symbols, and the CPU decodes
  what the assembler meant.
- *test cases and observer*: a program takes the path its case declares, the cases of
  an opcode leave none out, and the boundary the observer reports is the one at which
  the core serves an interrupt.

## What is modelled

```
ControlStore   the rows as the sequencer sees them   (constant)
   |
InterruptLogic the interrupt byte                    (operators)
   |        \
Qe6502      EagerResolver                            (state machines)
   |  \______/  refinement
MCQe6502   Qe6502Proofs - SequencerProofs - ServiceProofs

Arithmetic     ADC, SBC, shifts, ARR                 (operators)
   |
   +-- Accumulator      programs of ALU instructions (state machine)
   |      |
   |   MCAccumulator   AccumulatorProofs
   |
Mnemonics      registers, what a mnemonic does       (operators)
   |
   +-- Microcode        the handlers of each row     (constant)
   +-- Handlers         one bus cycle each           (operators)
   +-- InstructionSet   what a program may rely on   (state machine, abstract)
   +-- OpcodeTables     what 5 x 256 slots stand for (constant)
   |
BusCycles ---- InstructionSet                        (state machine, what it refines)
   |    \____ Snapshot, Encodings                    (operators, tables)
MCBusCycles       |
            BusCyclesProofs

ContextPool    the pool as a value                   (operators)
   |
JsBinding ---- PrivateCpus                           (state machine, what it refines)
   |
PoolProofs

Bridge         a CPU seen through ICpu               (operators)
   |
TestSetup      setup_and_run                         (state machine)
   |
MCTestSetup  TestSetupProofs

Assembler      compile_to_map                        (state machine)
   |
MCAssembler  AssemblerProofs

Handlers, Microcode, OpcodeTables, InterruptLogic, Arithmetic
   |
Qe6502Cpu      the qe6502 backend of the bridge      (operators)
   |
Observer ----- Testcases - Encodings                 (state machine; a table)
   |
MCObserver
```

### The core

**ControlStore** holds the control store. The 1280 opcode rows are the same up to 30
shapes once everything that does not concern the sequencer is dropped: how many
cycles, which cycle calls `prefetch()`, which one fetches, which writes I or D, which
skips entries on a condition. The comment above each row names the `class=` markers of
the `.inc` files it stands for. Three operators give the control part of a handler:
`Skips` (how far it may advance the microcode beyond the next entry), `Prefetches`,
`Fetches`. Where they depend on D they read it; where they depend on a page crossing
or a branch condition both outcomes are possible.

**InterruptLogic** has one operator for each function of `qe6502.c` that works on the
`interrupts` byte, which is a set of flags here: `UpdateNmiLastSampled`,
`FindActiveInterrupt`, the head, the tail and the switching off of
`interrupt_resolver` (`SampleNmi`, `Resolve` with `Served`, `Quiet`), the third pushes
and vector fetches (`IntsAfter`), and where the microcode points afterwards
(`NextEntry`).

**Qe6502** is the core. A state is the state between two calls of the host.

| variable | in the code |
|---|---|
| `model` | `cpu->model`, set before the first restart |
| `slot`, `cycle` | `cpu->microcode`: the entry the next tick runs |
| `hijack` | `cpu->hijack_microcode` |
| `ints` | `cpu->interrupts` |
| `p` | the I and D bits of `cpu->P` |
| `count` | `cpu->latch_data` during the internal reset |
| `status` | the status byte of the last tick |
| `credit`, `armed`, `granted`, `pushed` | history for the properties, read by no guard of a tick |

`Tick` is `qe6502_tick` on either path; `NmiAssert`, `NmiRelease`, `IrqAssert`,
`IrqRelease` are the two pin functions with their two arguments; `Goto` is
`qe6502_goto`, including the tick it makes; `Restart` is `qe6502_restart`. A handler
and the resolver around it are one step, as they are one call.

**EagerResolver** is the abstract specification: a CPU with no fast path. It states
what `hijack_microcode` promises, namely nothing: turning the resolver off must be an
optimisation. `Qe6502` implements it under the mapping that forgets `hijack` and the
sampling mark (a mark left by the fast path is cleared by the pin call that turns the
resolver on again; in a state with the resolver on there is none).

Abstractions of the core: memory is not there, so an opcode fetch may return any
opcode of `Opcodes`, and PLP and RTI may pull any P. The flags other than I and D do
not influence the sequencer. A change of model and a snapshot between two ticks are in
`BusCycles`; `qe6502abi_set_p` in the middle of an instruction is in neither.

### Bus cycles

`Qe6502` forgets addresses and data; **BusCycles** has them and leaves interrupts out.
A state is again one between two calls of the host.

| variable | in the code |
|---|---|
| `cpu` | `qe6502_t`, field by field: `la` and `ld` are `latch_addr` and `latch_data`, `microcode` is the 16-bit index |
| `tick` | the returned tick: address, data when it writes, status |
| `mem` | the host's 64 KiB |
| `program` | which opcodes, or which interrupt service, the next fetches bring |
| `done`, `log`, `elapsed` | history: registers, memory, writes and cycles as of the last instruction that ended, and since |

`Advance` is `qe6502_tick` inside a row, `Dispatch` one that starts with
`mc_dispatch`; both first perform the bus cycle the pins ask for. `Restart`, `Goto`,
`SetModel` and `SaveAndLoad` are the calls a host may make: a change of model and a
snapshot in any state, a jump where an instruction has ended. Interrupts are not
arbitrated here. A fetched opcode may give way to an NMI or IRQ service where the
program says so, so that the services' bus cycles and frames are checked with those of
the instructions; that a sequence changes its vector on the way is in `Qe6502` only.
The assumptions on the constants say what the code's tables and types say: a byte
stands for one of the instructions its model has a row for (`OpcodesAssumption`), what
the adder leaves in A is a byte (`AluAssumption`), and a start is a CPU whose fields
have their types (`CasesAssumption`). TLC evaluates them for the five blocks.

**Mnemonics** says what a mnemonic makes of the registers and its operand. P keeps
three bits here: those that a frame (I, B) or the length of a row (D) depends on. N,
Z, C and V are the subject of `Accumulator`; a conditional branch goes both ways, and
what ADC, SBC, ARR and the rotations leave in A is a parameter, `Alu`.
**OpcodeTables** is the five `.inc` blocks: for each of the 5 x 256 slots the class of
its row, its addressing mode, its mnemonic and, for the bit instructions, the bit.
**Microcode** expands a class into the handlers of its row, one per cycle.
**Handlers** has one alternative for each handler of `qe6502.c` with the address it
drives, the byte it writes, and what it does to latches, PC, S and `microcode`.

**InstructionSet** is the abstract specification: instructions, services and resets as
one step on registers and memory, with their writes in order and their number of
cycles. It has no microcode and no latches. Effective addresses, lengths and timings
are formulas over addressing modes (`Effective`, `Crosses`, `Reach`), and a change of
model takes effect at the next instruction. `BusCycles` implements it when only `done`
is looked at. A restart may tear an instruction after the first of its writes, which
the abstract specification says too.

**Snapshot** is the 64-byte record byte by byte: `pack_tick`, `qe6502abi_save` and
`_load`, `qe6502_save` and `_load`.

### Arithmetic

**Arithmetic** has one operator for each function of `qe6502.c` 129-409 that computes
a byte and flags. It returns both; a `uint8_t` is taken `% 256`. Where the code builds
flags in an overflow expression on bits 7, the operator compares signs.

**Accumulator** runs them. One action per handler that computes: `a`, `f` and `latch`
are `cpu->A`, five bits of `cpu->P` and `cpu->latch_data`. On a CMOS CPU in decimal
mode ADC and SBC take two ticks: the first latches the operand, the second gets
another byte from the bus and has to ignore it. `phase` says which handler comes next.
`owed` is the decimal answer the first tick made due, kept for `DecimalAnswer`. The
reference definitions of the module (signed integers, decimal numbers, the digit-wise
description of decimal mode for bytes that are no decimal numbers) are written without
the operators they are compared with.

### Bindings

**ContextPool** is `qe6502js_context_alloc`, `_free` and `_pool_reset` as operators on
a record of the four static variables. **JsBinding** adds the objects of `qe6502.js`:
`ptr` and `tick` are the private fields `#ptr` and `#tick`, `memory` is what each
context holds, and `held` the contexts a page allocated through the exports by itself.
Each call is one action, with the scratch context it borrows and returns; a call that
throws is an action too, since the pool it leaves matters. A page may free anything,
also twice, except a context that an object has, and it does not reset the pool. A CPU
is a member of `States` and a tick one of `Ticks`: the core behind the exports is the
other modules' subject. **PrivateCpus** is the abstract specification: objects with a
state of their own and no memory to share.

### Tools

**Bridge** is a CPU as the tools see it through `ICpu`: it steps, has two pins,
restarts, and shows opcode fetches. It covers both backends, so what they may differ
in is left open: how long an instruction takes (up to `MaxLen` steps), whether a
sequence looks at the pins in a step, whether a late interrupt waits for another
instruction. Addresses are a few places: the internal bootstrap, the safe address with
its three NOPs, the test's start, and elsewhere. Foreign code may jump anywhere but
into the bootstrap, be a BRK or stop the CPU. The netlist behind the `perfect6502`
backend is external.

**TestSetup** is `setup_and_run` for one CPU. `stage` says in which of the loops of
`lockstep.cpp` it is, `steps` how many steps that loop has made, `attempt` whether it
is the first soft set-up or the one after the hard restart, `patch` is the
`SavedMemoryPatch`. `ToFetch` is `step_to_next_fetch_without_compare`; `ToBoot` and
`ToStart` are `step_to_fetch_at_without_compare` for the two addresses, `ToSafe` and
`ToVector` `restart_to_start_fetch`. Each loop's way out, by success or by its bound,
writes the memory and moves the pins as the code does. Between two set-ups the host
steps the CPU and moves its pins at will, so that a set-up may begin in any state of a
CPU. The two backends of a runner are set up independently, one after the other, so
one is enough.

**Assembler** is `compile_to_map`: passes of `Resolve` until one defines nothing new,
then `Place`, each command in one step with what it defines or writes and how it moves
`pc`; every throw is a way to `"failed"` with its reason. A byte has `Page` values and
an address `Page * Page`. The reference is a definition of a layout with no passes in
it (`IsLayout`, the least consistent assignment of values to names) and of the bytes
each command stands for (`Emits`).

**Encodings** holds the assembler's tables, mnemonic by mnemonic: opcode and number of
operand bytes. They meet `OpcodeTables` in `BusCycles`, where `AssembledAsExecuted`
compares them.

**Qe6502Cpu** puts the core together again: it is the `qe6502` backend, an NMOS core on
64 KiB of memory, where `Handlers` does what a handler does to the bus and the
registers and `InterruptLogic` what the resolver around it does to the interrupt byte.
`step`, `restart`, `nmi` and `irq` are the calls of `ICpu`. Memory is a function on the
addresses that do not hold the byte it was filled with.

**Testcases** is the observer's table, all 256 opcodes. The programs differ in little
but opcode and mode; each shape (within a page, across it, through a pointer, a branch
taken or not) is an operator, and the assembler's helper is looked up in `Encodings`.

**Observer** is the interrupt timing observer. Its state is the place in `run_testcase`
(`phase`, `inject`), the state of the CPU at the fetch of the opcode under test
(`start`), the baseline trace, the first difference of the last trace and the reports.
`Take`, `Align`, `Record` and `Summarise` are its stretches; what a recorded trace is for
is `Baseline` (twenty cycles left alone), `Early` (the line held) or `Scan` (one pulse).
Each is one step, as nothing else runs meanwhile; the cycles in it are those of
`Qe6502Cpu`. There ADC, SBC and ARR leave A as it was, and no instruction but those that
load P changes C, Z, V and N: no program of the table goes on to store A or to branch
after such an instruction.

## Properties

| property | what could go wrong |
|---|---|
| `FastPathSound` | a request waits while the resolver is off |
| `NoStaleSampling` | the mark of an earlier cycle samples in a later one |
| `NoSpuriousNmi` | an NMI is served twice for one edge |
| `FrameComplete` | a hijacked sequence pushes too much or too little |
| `NoTakenAfterFetch` | a request is carried into the next instruction |
| `NeverDeaf` | sampling stays off after a sequence, if the host calls no goto in it |
| `DeafOnlyByGoto` | sampling goes off elsewhere, or stays off past the next vector fetch when goto has left a sequence |
| `NmiEdgeSeen` | an edge goes unnoticed |
| `IrqExactlyWhenGranted` | IRQ served in a masked window, or not in an open one |
| `NmiKept` (violated), `NmiDroppedOnly` (how it can be, and nothing else) | a latched NMI is lost |
| `JamHolds` | pin activity revives a jammed CPU |
| `SequenceUninterrupted` | the first instruction of a handler is skipped |
| `NmiAnswered`, `IrqAnswered` | starvation, by a service of the other line, by pins that never rest, by a program |
| `EagerSpec` | the fast path can be told from the slow one |
| `NeverOffTheRow` | a conditional skip, or a change of model, leads to a null handler |
| `EndsInTime` | a row loops, or reset never ends |
| `CmosReadsStayHome` | a CMOS row reads a half-computed address, as NMOS rows do |
| `IsaSpec` | an address, a byte, a length or a cycle count is wrong at a page boundary, after a restart, a change of model or a load |
| `AssembledAsExecuted` | the assembler and the control store disagree on an opcode or its length |
| `SignedArithmetic` | the byte, C or V is wrong at a boundary, signed comparisons go astray |
| `DecimalArithmetic` | a decimal sum or difference is not the decimal answer |
| `DecimalSumOfAnyBytes`, `DecimalDifferenceOfAnyBytes` | the families' results and flags for invalid digits |
| `ArrUsesTheAdder` | the two digits of a decimal ARR influence each other |
| `DecimalAnswer` | the dummy read of a CMOS decimal addition reaches the sum |
| `OneOwner` | a context is handed out twice |
| `NothingLost` | a call that throws, or a scratch use, loses a context |
| `PrivateSpec` | one object's calls show in another, or in a new one |
| `SetUpSucceeds` | a CPU in some state cannot be brought to the test |
| `SetUpClean` | a pin, an edge or a pending interrupt is left for the test |
| `BootstrapUndisturbed` | a handler of the test runs inside the bootstrap and spoils the registers |
| `MemoryInOrder` | the patch of the hard restart stays in memory, or comes back |
| `LayoutCorrect` | the passes stop at a layout the bytes do not fit |
| `FailureJustified` | a legal program is refused |
| `Ends` | symbols that depend on each other keep the passes going |
| `RunsAsDeclared` | a test case does not do what is typed in beside it: length, cycles, place of its data, trap |
| `PathsCovered` | no case of an opcode takes its branch, or crosses its page |
| `RecognisedInTime` | a short pulse is seen by no instruction, by the wrong one, or although I masks it |

`SetUpClean` includes that nothing the CPU has seen but not served remains;
`AssembledAsExecuted` excepts BRK, which the assembler emits as one byte while the CPU
skips a second one; `BootstrapUndisturbed` excepts an attempt that begins while the
CPU is in its restart sequence. Such a CPU comes to the bootstrap by the reset vector
with the set-up's NMI still waiting, and may run the test's NMI handler before its
first instruction.

## Runs

| run | instance | result |
|---|---|---|
| `Core` | all five models; all opcode rows; pins, goto, restart in every state | 164 000 states, all hold |
| `Eager` | nmos, wdc; no release of NMI and no goto while sampling is off (on wdc it never is) | 45 000 states, refinement, `NmiEdgeSeen`, `NeverDeaf` hold |
| `Live` | nmos, wdc; all opcode rows; no goto | 29 000 states, both liveness properties hold |
| `Instructions` | all opcodes of all models, bytes of 8 values, seven starts; services, jumps, restarts, changes of model, snapshots | 120 000 states, refinement and `AssembledAsExecuted` hold, and the four invariants |
| `Programs` | nmos, nes, wdc; all modelled instructions; boundary bytes | 124 000 states, all hold |
| `Pool` | 3 contexts, 2 objects, 2 CPU states, 2 ticks, a page | 304 000 states, all hold |
| `TestSetup` | four tests, instructions of up to four steps, pins moved and set-ups begun in any state | 28 000 states, all hold |
| `Assembler` | 22 600 programs, bytes of 4 values, three symbols | 253 000 states, all hold |
| `Observer` | all test cases; NMI and IRQ pulses of one and three cycles, NMI of two | 44 000 states, all hold |
| `LostEdge` | nmos | violated: finding 1 |
| `Displaced` | nmos with branches | violated: finding 2 |
| `CmosIrqDropsNmi` | wdc without branches | violated: finding 3 |

Bounds.

*Core, Eager, Live.* The only counter is `credit`, the NMI assertions that have not
been answered yet: at most `MaxCredit`, 2 in the safety runs (one being served, one
pending, and the release and assertion in between) and 1 in the liveness run, where
the counter would only multiply states. The rest of the state is finite as in the
code. `Opcodes` is restricted where a property speaks of some programs only, and the
operator's name in `MCQe6502` says which. `ReleaseInWindow` and `GotoInWindow` say
whether the host may release NMI, or call goto, in the ticks in which an NMOS sequence
has sampling switched off. They are FALSE only in runs whose property needs it;
`LostEdge` shows that it does.

*Programs.* Programs take their bytes from `EdgeBytes` (digit, sign and carry
boundaries), and the properties quantify over second operands from there. For all
bytes these five properties are theorems of `AccumulatorProofs`.

*Pool.* Three contexts are enough for two objects and one scratch context, and for the
pool to be full with a page; the theorems say the rest.

*Instructions.* A byte has `B = 8` values and there are 64 addresses: page crossings, the wrap
of the zero page, of the stack, of PC and of a pointer at the end of a page all happen
within a few bytes. A bit number of RMB, SMB, BBR and BBS beyond the top bit is taken
for the top bit. Every opcode of all five models runs from two starts, one instruction
each, with any of the host's calls between its ticks; opcodes that cover each row
shape and each mnemonic of nmos and wdc run from five more, and a jump followed by an
interrupt service as well. A host changes the model within {nmos, wdc} and within
{nes, rw, st} (`Switches`), which brings together NMOS and CMOS models in each set.
One instruction is enough because what it leaves to the next one is registers, memory
and latches, and all of these differ between the starts; after a restart the program
may still have its instruction to run.

*TestSetup.* `MaxLen = 3` gives instructions of up to four steps; the loops are
bounded by 12, 8 and 8 steps, the least that `EnoughSteps` allows. The code has 32,
4096 and 256, which allows for instructions of up to ten cycles; those of a 6502 have
eight at most. The four tests start at the safe address and beside it, with an NMI
handler of their own and with the start in its place.

*Assembler.* With `Page = 4` addresses wrap and branches go out of range after a few
bytes. All programs of up to `MaxCalls = 4` calls out of twelve are compiled, and
three bootstraps that lie in front of the vectors, one of which does not fit.

*Observer.* The table of test cases, the twenty cycles of a trace and the fill byte
are those of the code. Each opcode is observed by itself with pulses of one and of
three cycles: shorter and longer than the distance between the sampling cycle and the
fetch. Two unfiltered runs, over all cases and over the second case of each opcode,
are for the selection and the summary. `pretest_cycle_limit` is 100 instead of 20000:
reset and bootstrap take about 30 cycles, and a program that is not there by then
never will be, since nothing but its bytes decides where it goes.

No symmetry is used.

Fairness. `Running` assumes `WF_vars(Tick)`: the host keeps clocking the CPU. Nothing
else runs by itself. Pins may move before each tick, and restarts may happen; goto is
excluded, since a host that calls it forever never lets an instruction end. The
liveness properties except what no interrupt can end (`ShutOut`): a jam, and on CMOS
models a program that from some time on is nothing but one-cycle NOPs and BRK, whose
rows never sample. `NmiAnswered` says that a latched NMI is served or dropped;
`NmiDroppedOnly` says when it may be dropped. The assembler has `WF_vars(Next)`: a
call of `compile_to_map` runs to its end.

## Findings

1. **A lost NMI edge** (`LostEdge`). While `sampling_off` is set the resolver does not
   update the last sampled NMI level (`qe6502.c:474`). If the host releases NMI in
   that time, the resolver may switch itself off at its end trusting the stale level
   (`qe6502.c:511`), and the next assertion finds `nmi_last` still on: no edge.
   README.md:61 and :63 of the repository promise edge sensitivity and the timing of
   `perfect6502`.
2. **A displaced NMI** (`Displaced`). A taken branch that crosses a page samples in
   its first and in its last cycle. An NMI taken in the first is cleared by an IRQ
   seen in the second (`qe6502.c:456-460`), and its edge is already gone.
3. **A CMOS IRQ service drops NMI** (`CmosIrqDropsNmi`). `cmos_interrupt_vector_low`
   clears `nmi_edge` also when it runs in the IRQ sequence (`qe6502.c:880`).

`NmiDroppedOnly` shows which steps end a latched NMI: the entry of its service, a
restart, 2, 3, and one more way to go without a service of its own. An edge latched
while an NMI service is under way is acknowledged by that service, in its push of P
(`qe6502.c:892`, `:920`) and on CMOS models in its vector fetch too (`:880`). Whether
two assertions so close together deserve two services no document says, so this is no
finding.

Smaller disagreements, met while modelling, that no run is spent on:

- `set` with a base that is never defined is dropped without a word, and `org` with a
  name that is defined further down throws, although `asm6502.h:77` promises forward
  references and `asm6502.h:802` an exception for undefined symbols.
  `FailureJustified` states the condition under which `org` works.
- The page-crossing cases of the unstable stores label the address they should write to
  `0x2210` (`testaces.cpp:4471`), but their base `0x21f0` and index `0x10` give
  `0x2200`, and the store goes to the page that the stored value names.
  `RunsAsDeclared` excepts them.
- `should_run_opcode` of `nmi_observer/main.cpp:429` begins with `return true`, so that
  `--opcode` selects nothing and BRK runs, although `main.cpp:681` prints that BRK is
  skipped. The timing observer has its own function, which does what it says.
- `nop()` emits `0xEA`, although `asm6502.h:242-243` says that a mnemonic helper emits
  the first of the duplicated opcodes in the control store, which is `0x1A`.

## What is proved

The theorems about the core hold for every set of models, every program, every bound,
and both values of the host's two permissions unless they say otherwise. They use the
assumptions on the constants in `Qe6502`.

*Qe6502Proofs*. `FastPathSound`, `NoStaleSampling`, `NoSpuriousNmi`,
`NoTakenAfterFetch`, and that two requests are never taken together
(`TakenExclusive`, which the others rest on). None is inductive. The strengthening (`HijackInv` and its
companions) says which flags can be on while the resolver is off, that a taken request
exists only between a sampling cycle and the next fetch, and that edges, taken
requests and the unsampled level together never exceed the credit. One lemma per call
shows that it is kept; the lemma for a tick goes through the head of the resolver, the
handler, and its tail in the order of the code.

*SequencerProofs*. `TypeOK`, from the shape of the rows: `WellFormed` says that an
entry that may advance by `k` has `k` entries after it, that rows end in a dispatch, a
loop or the detour to `illegal_ext`, and is proved for every row of every block.
`FrameComplete` follows the pushes through BRK, NMI and IRQ rows and across the change
of vector. `NeverDeaf` needs `GotoInWindow = FALSE`; for a host that does call goto
there, `DeafOnlyByGoto` says what is left of it.

In the same module `Spec => EagerSpec`, if `ReleaseInWindow = FALSE` or all models are
CMOS: initial states map to initial states and each step to a step or a stutter. A
tick with the resolver off maps to a tick of the abstract CPU because of
`FastPathSound` and of `LastInv`: with the resolver off the last sampled level is the
level of the pin.

*ServiceProofs*. `JamHolds`, `SequenceUninterrupted`, `IrqExactlyWhenGranted`,
`NmiDroppedOnly` and `DeafOnlyByGoto`, and `NmiEdgeSeen` under the hypothesis of the refinement. What they
need of the rows is that a row either samples or belongs to a sequence
(`RowsOrderly`), and where an entry may lead (`EntryOrder`). `ServiceInv` then says
that a row which samples nothing, and a pointer at a dispatch, hold no taken request;
that `irq_taken` implies `granted`, and `granted` that something is taken; and that a
jammed CPU is at the jam handler. Entering a service at its cycle 0 is traced back
through `EntryTaken` to a taken request, so it happens at the end of a sampling row
only; between two fetches a service changes into another one past its third push.
That a taken request outside a branch stands at the fetch
that will serve it (`SampledInv`) is what confines the displacement of an NMI to the
branches; `DeafOnlyByGoto` follows the window from push to vector fetch.
`EdgeInv` relates `armed`, the level the host has shown, to the last sampled level.

*BusCyclesProofs*. `TypeOK`, `NeverOffTheRow` and `EndsInTime`, for every width of a
byte, every set of opcodes that are legal for their model (`OpcodesAssumption`), every
program and every start. The proof does not go through 1280 slots: handlers are
grouped by what they do to the microcode (`Advances`), a row is `Sound` when each of
its cells leaves room for what its handler may skip and leads to a fetch within its
budget, and `RowsSound` shows that of each class of row for each addressing mode and
model. `MicrocodeInv` says that the microcode is at a cell of a row or at the dispatch
after it (`At`), that cells which use the data latch as an index or a page find a byte
there, and that `elapsed` is within the row's budget for that cell. A change of model
leaves the counter in the block of the old one, so the row goes on and the next
instruction is the first that the new model decodes. A snapshot is harmless by `RoundTrip`: unpacking a packed
tick, loading a saved context, and `qe6502_load` after `qe6502_save` are the identity,
for every value of every field (`TickRoundTrip`, `ContextRoundTrip`).

*AccumulatorProofs*. `TypeOK`: each operator returns a byte and flags, one lemma each,
then one step per action. The five properties that quantify over operands hold in
every state with A a byte and flags, so the invariant they need is `TypeOK`; the work
is in the operators. Each is described by the two digits of its operands (lemmas
`...Parts`), the reference definitions are rewritten on the same digits, and what is
left are linear inequalities, split by the carries between digits. `DecimalAnswer` is
an action property and needs `OwedForLatch`: while an operand waits, `owed` is the
answer for the byte in the latch and the accumulator, or nothing.

*PoolProofs*. The inductive invariant is `IInv`: the stack holds distinct contexts and
the flags name the same ones (`Sound`), the free ones are those nobody owns
(`Partition`) and owners differ (`Apart`). The pool is first treated alone: `Sound` is
kept by each operation, and a context that is not on the stack leaves room there by
the pigeonhole principle (`RoomOnStack`), which is why the capacity check of
`qe6502js_context_free` never refuses one in use. `OneOwner`, `NothingLost`, `TypeOK`
and `Spec => PrivateSpec` follow for every capacity, any number of objects and any set
of CPU states. The refinement proof uses the invariant to show that a scratch context
is no object's context.

*TestSetupProofs*. For every length of instructions, every set of tests and every
bound of the loops, `MemoryInOrder`, `SetUpClean` and `BootstrapUndisturbed`; and
`SetUpSucceeds` under `EnoughSteps`, which asks for as many steps as three
instructions of the longest kind in the search for a fetch, and two in the bootstrap
and after a restart. The step relation of `Bridge` is first described by what each
kind of step keeps (`Moved`), and `Next` is split into the step of a loop, its success
and its bound (`Kinds`). `TypeInv` follows the patch: the NOPs are in memory only
while it is active, and it is active only from the hard restart to the bootstrap.
`SetUpInv` says where the CPU can be in each loop, and that after the bootstrap's
first fetch nothing waits: an edge that was seen has been served by the sequence that
led there. `SuccessInv` counts. After the hard restart the CPU runs known code with
known pins, so each state of it has a number of fetches behind it, and `steps` is at
most that many instructions plus the steps of the present one (`Restarting`, `ToNops`,
`ToNmi`, `ToTest`). Three NOPs are needed because an NMI may be a fetch late: with
two, the CPU would run off the end of them.

*AssemblerProofs*. `LayoutCorrect` and `FailureJustified`, for programs of any length
and bytes of any even number of values, from `ProgramsAssumption`: commands have the
types of their C++ arguments. The reference counts the bytes after the last `org`; that
the location of the next command is where `update_pc` leaves the address
(`NextLocation`) needs a set's cardinality to grow by one and remainders of any
modulus. The invariant of the passes has four parts: each symbol is given by some
command at a place that is known already (`SupportInv`); the symbols are a part of
every layout the program has (`LeastInv`), which makes them the least one in the end
and means that a program with a layout never clashes; a pass without a new symbol has
found every command in agreement (`CompleteInv`); and one pass reads what the text
above gives (`ReadInv`), so that an `org` with a known name does not throw. When
placing begins the symbols are therefore the only layout, and `PlaceInv` follows the
bytes: what is written is what the commands so far stand for, and none met another. A
throw in this stage is one of the reasons a layout cannot be written out; for a branch,
`OffsetsAre` shows that the range check refuses it exactly when no operand byte leads
to its target. `OriginsKnown` states what a reading of the text
knows by a set of commands that is justified from above, and not by recursion.

The type invariants of `Qe6502`, `Accumulator` and `JsBinding` are theorems and no
longer part of a run.

Only model-checked: liveness (`NmiAnswered`, `IrqAnswered`, `Ends`), which is out of
the prover's reach; `IsaSpec` and `AssembledAsExecuted`, which compare every class of
row with its formula, or every slot with the assembler's tables, and would be a case
of a proof for each; `CmosReadsStayHome`, which needs the first half of that
comparison; and the three properties of `Observer`, which are about one table of
programs and run them: there are no constants left to be proved for.

## Not modelled

- *Of the core*: `qe6502abi_set_p` and the register setters in the middle of an
  instruction; N, Z, C and V together with addresses (they are in `Accumulator`,
  without memory); the flags of INC, DEC, BIT, TSB, TRB, ANC, ALR, AXS, XAA and LXA,
  each of which is a single mask; the hijacked vectors in `BusCycles`.
- *C++ binding*: forwards each call and keeps the last tick; its only decision is the
  size of a snapshot.
- *JavaScript binding*: argument checks and formatting, and a page that resets the
  pool under live objects or frees a live object's context. The exports allow both;
  the second puts the context on the stack and hands it out again
  (`qe6502_js.c:90-101`), so `OneOwner`, `NothingLost` and `PrivateSpec` say nothing of
  such a page. No document says what should happen.
- *Bridge and lockstep*: the netlist, registers and data, the paired stepping and the
  comparison of traces, which is equality of two records per cycle. Two things a test
  would hardly show stay open: a store of the last test's instruction that lands in
  the fresh memory, and a read in the restart sequence at the address the vector
  holds, which ends `restart_to_start_fetch` too early. Both depend on data that
  `Bridge` does not have.
- *Assembler*: range checks of arguments and `apply`.
- *Test case library*: `nmos6502_opcode_testcases.cpp`, another table like the
  observer's, and the two examples of `testaces.cpp`.
- *NMI observer*: the netlist as a backend, so the comparison of the two backends'
  results; what is printed; the interactive tools (`main.cpp`, `test_debugger.cpp`,
  `debug_console.cpp`, `debug_terminal.cpp`), which are terminal input and output
  around the bridge. BRK is observed but excepted from `RecognisedInTime`: it takes the
  vector of an NMI that comes in its first cycles and does not see a short one that
  lies in the ticks with sampling off.
- *Harnesses*: the repository's tests, read as statements of intent. *Third-party
  code*: vendored.
- No document says which level of the pins a restart should assume; the models do what
  the code does.
