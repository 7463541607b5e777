------------------------------- MODULE BusCycles -------------------------------
(***************************************************************************)
(* The CPU on its bus: one action per tick, in which the host performs the bus   *)
(* cycle that the pins ask for and the CPU runs the next handler of the control  *)
(* store.  Between any two ticks the host may restart the CPU, set its model, or  *)
(* take a snapshot and load it again; between two instructions it may jump.      *)
(*                                                                         *)
(* A byte of memory is too narrow for an opcode: the opcode a fetch brings is a   *)
(* choice from the head of `program', the number of its slot.  The head may also  *)
(* name an interrupt service, which the fetched opcode then gives way to, or the   *)
(* slot of a jump.  When, and which, interrupts are taken is Qe6502's subject.     *)
(***************************************************************************)
EXTENDS Handlers, Microcode, TLC

CONSTANTS
  Models,        \* the models a CPU may have
  Opcodes,       \* Opcodes[model]: a sequence of instructions, the opcode slots of its block
  Switches,      \* sets of models: a host may set one where it finds another of the set
  Cases,         \* registers, latches and memory to start from, a model, and a program
  GotoTargets    \* addresses a host jumps to

ASSUME ModelsAssumption == Models \subseteq {"nmos", "nes", "wdc", "rw", "st"}
ASSUME SwitchAssumption == UNION Switches \subseteq Models

\* An opcode byte has 256 values, and each stands for an instruction.
ASSUME OpcodesAssumption ==
  \A model \in Models :
    /\ DOMAIN Opcodes[model] = 1..256
    /\ \A k \in 1..256 : Legal(model, Opcodes[model][k])

\* What a program may name: opcode slots, the interrupt services, a jump.
Slots == 0..255 \cup GotoSlot..IrqSlot

ASSUME CasesAssumption ==
  \A case \in Cases :
    /\ case.model \in Models
    /\ case.program \in Seq(SUBSET Slots)
    /\ case.start.pc \in Addresses /\ case.start.la \in Addresses
    /\ {case.start.s, case.start.a, case.start.x, case.start.y, case.start.p, case.start.ld} \subseteq Bytes
    /\ case.start.mem \in [Addresses -> Bytes]
ASSUME TargetsAssumption == GotoTargets \subseteq Addresses

Snap == INSTANCE Snapshot
Asm == INSTANCE Encodings

VARIABLES
  cpu,      \* qe6502_t
  tick,     \* what the pins carry
  mem,      \* the host's memory
  program,  \* menus left
  done,     \* registers, memory, writes and cycles as of the last instruction that ended
  log,      \* writes since then
  elapsed   \* ticks since then

vars == <<cpu, tick, mem, program, done, log, elapsed>>

ModelNumber == [nmos |-> 0, nes |-> 1, wdc |-> 2, rw |-> 3, st |-> 4]
ModelOf(microcode) == ModelNames[microcode \div 4096 + 1]
SlotOf(microcode) == (microcode \div 8) % 512
CycleOf(microcode) == microcode % 8

ServiceSlots == IllegalExt..IrqSlot
Interrupts == {NmiSlot, IrqSlot}

\* The control store: for each model, a row for each slot.  What follows a row is dispatch;
\* a slot of no row is never entered.  (TLC computes a concatenation once.)
Block(model, slot) ==
  CASE slot < 256           -> Row(model, Opcodes[model][slot + 1])
    [] slot \in ServiceSlots -> ServiceRow(model, slot)
    [] OTHER                -> <<>>
ControlStore ==
  [k \in 1..5 * 512 |-> Block(ModelOf(8 * (k - 1)), (k - 1) % 512)] \o <<>>
RowOf(microcode) == ControlStore[microcode \div 8 + 1]
NextHandler(microcode) ==
  IF CycleOf(microcode) < Len(RowOf(microcode))
    THEN RowOf(microcode)[CycleOf(microcode) + 1]
    ELSE "dispatch"
InstructionOf(microcode) ==
  IF SlotOf(microcode) \in ServiceSlots
    THEN Instruction("service", "none", "none")
    ELSE Opcodes[ModelOf(microcode)][SlotOf(microcode) + 1]

Between == NextHandler(cpu.microcode) = "dispatch"
Menu == IF program = <<>> THEN {} ELSE Head(program)

Registers(c) == [pc |-> c.pc, s |-> c.s, a |-> c.a, x |-> c.x, y |-> c.y, p |-> c.p]
-----------------------------------------------------------------------------
Blank(model) ==
  [model |-> ModelNumber[model], reserved_extension |-> 0, microcode |-> 0, la |-> 0, ld |-> 0,
   hijack |-> 0, pc |-> 0, s |-> 0, a |-> 0, x |-> 0, y |-> 0, p |-> 0, interrupts |-> 0]

\* An opcode is being fetched; the latches are as an instruction left them.
Init ==
  \E case \in Cases :
    LET start == case.start
    IN  /\ cpu = [Blank(case.model) EXCEPT
                    !.microcode = Idx(ModelNumber[case.model], GotoSlot, 1),
                    !.la = start.la, !.ld = start.ld, !.pc = start.pc,
                    !.s = start.s, !.a = start.a, !.x = start.x, !.y = start.y, !.p = start.p]
        /\ tick = TickOf(start.pc, 0, opcode_fetch)
        /\ mem = start.mem
        /\ program = case.program
        /\ done = [regs |-> Registers(start), mem |-> start.mem, writes |-> <<>>, cycles |-> 0]
        /\ log = <<>>
        /\ elapsed = 0

\* The bus cycle the pins ask for.
Writes == tick.status = writing
Bus == IF Writes THEN tick.bus ELSE mem[tick.address]
BusCycle == mem' = IF Writes THEN [mem EXCEPT ![tick.address] = tick.bus] ELSE mem
Logged == IF Writes THEN Append(log, <<tick.address, tick.bus>>) ELSE log

\* After the fetch that ends an instruction an interrupt service may take over, if the
\* rest of the program has one next.
Proceed(c, rest) ==
  \/ cpu' = c /\ program' = rest
  \/ /\ rest # <<>>
     /\ \E slot \in Interrupts \cap Head(rest) : cpu' = EnterServiceSlot(c, slot, 0)
     /\ program' = Tail(rest)

\* Handler h runs for c.
Run(h, c, rest) ==
  \E taken \in IF h = "branch_c0_offset" THEN BOOLEAN ELSE {FALSE} :
    LET r    == Handler(h, c, Bus, InstructionOf(c.microcode), taken)
        next == [r.cpu EXCEPT !.microcode = r.cpu.microcode + 1]
        ends == r.tick.status = opcode_fetch /\ h # "restart_read_zzhh_fetch"
    IN  /\ BusCycle
        /\ tick' = r.tick
        /\ IF ends
             THEN /\ Proceed(next, rest)
                  /\ done' = [regs |-> Registers(next), mem |-> mem', writes |-> Logged,
                              cycles |-> elapsed + 1]
                  /\ log' = <<>>
                  /\ elapsed' = 0
             ELSE /\ cpu' = next
                  /\ program' = rest
                  /\ log' = Logged
                  /\ elapsed' = IF r.tick.status = cpu_jammed THEN elapsed ELSE elapsed + 1
                  /\ UNCHANGED done

\* mc_dispatch: the opcode selects a row for the model of this moment, and its first
\* handler runs.
Dispatch ==
  /\ Between
  /\ \E slot \in Menu \ ServiceSlots :
       LET c == [cpu EXCEPT !.microcode = Idx(cpu.model, slot, 0), !.pc = Wrap(cpu.pc + 1)]
       IN  Run(NextHandler(c.microcode), c, Tail(program))

Advance ==
  /\ ~Between
  /\ Run(NextHandler(cpu.microcode), cpu, program)

Restart ==
  LET c == [Blank(ModelNames[cpu.model + 1]) EXCEPT
              !.microcode = Idx(cpu.model, InternalReset, 0),
              !.pc = Word(1, B - 1), !.s = (3 * B) \div 4, !.x = (3 * B) \div 4]
  IN  /\ cpu' = c
      /\ tick' = TickOf(B - 1, 0, internal_reset)
      /\ done' = [regs |-> Registers(c), mem |-> mem, writes |-> <<>>, cycles |-> 0]
      /\ log' = <<>>
      /\ elapsed' = 0
      /\ UNCHANGED <<mem, program>>

\* qe6502_goto runs the fetch of its slot at once.
Goto ==
  /\ Between /\ GotoSlot \in Menu
  /\ \E address \in GotoTargets :
       LET c == [cpu EXCEPT !.reserved_extension = 0, !.pc = address,
                   !.microcode = Idx(cpu.model, GotoSlot, 1)]
       IN  /\ Proceed(c, Tail(program))
           /\ tick' = TickOf(address, 0, opcode_fetch)
           /\ done' = [done EXCEPT !.regs = Registers(c)]
  /\ UNCHANGED <<mem, log, elapsed>>

SetModel ==
  /\ \E models \in Switches :
       /\ ModelNames[cpu.model + 1] \in models
       /\ \E model \in models : cpu' = [cpu EXCEPT !.model = ModelNumber[model]]
  /\ UNCHANGED <<tick, mem, program, done, log, elapsed>>

SaveAndLoad ==
  /\ LET loaded == Snap!Loaded(Snap!Saved(cpu, tick))
     IN  cpu' = loaded.cpu /\ tick' = loaded.tick
  /\ UNCHANGED <<mem, program, done, log, elapsed>>

Next == Dispatch \/ Advance \/ Restart \/ Goto \/ SetModel \/ SaveAndLoad

Spec == Init /\ [][Next]_vars
-----------------------------------------------------------------------------
CurrentOf(microcode) ==
  CASE NextHandler(microcode) = "dispatch"                     -> <<>>
    [] SlotOf(microcode) \in {InternalReset, Reset0, Reset1}    -> <<"nmos", Instruction("reset", "none", "none")>>
    [] SlotOf(microcode) = NmiSlot -> <<ModelOf(microcode), Instruction("nmi", "none", "none")>>
    [] SlotOf(microcode) = IrqSlot -> <<ModelOf(microcode), Instruction("irq", "none", "none")>>
    [] OTHER                       -> <<ModelOf(microcode), InstructionOf(microcode)>>

\* The instruction set this implements.
ISA ==
  INSTANCE InstructionSet WITH
    model <- ModelNames[cpu.model + 1], regs <- done.regs, mem <- done.mem,
    current <- CurrentOf(cpu.microcode), writes <- done.writes, cycles <- done.cycles

IsaSpec == ISA!Spec
-----------------------------------------------------------------------------
\* The CPU, its pins and the host's memory stay in their types: nothing a handler
\* computes leaves the width of its register or names a cell outside the control store.
TypeOK ==
  /\ cpu.model \in {ModelNumber[m] : m \in Models}
  /\ ModelOf(cpu.microcode) \in Models
  /\ SlotOf(cpu.microcode) \in 0..255 \cup ServiceSlots
  /\ cpu.la \in Addresses /\ cpu.pc \in Addresses /\ cpu.ld \in 0..255
  /\ {cpu.s, cpu.a, cpu.x, cpu.y, cpu.p} \subseteq Bytes
  /\ tick \in [address : Addresses, bus : Bytes, status : {0, writing, opcode_fetch, internal_reset, cpu_jammed}]
  /\ mem \in [Addresses -> Bytes]

\* The microcode counter never passes the cell after its row, the dispatch: cells beyond it are
\* null, and calling one would crash the host, whatever the host changes between two ticks.
NeverOffTheRow == CycleOf(cpu.microcode) <= Len(RowOf(cpu.microcode))

\* Every instruction but a jam ends within eight ticks, a reset within seventeen.
EndsInTime ==
  ~Between => elapsed < IF SlotOf(cpu.microcode) \in InternalReset..Reset1 THEN 17 ELSE 8

\* An indexed read of a CMOS CPU never puts a half-computed address on the bus, as that of
\* an NMOS CPU does when the index crosses a page: it reads the instruction, the pointer
\* and the operand, so that a device next to the operand is not read by accident.
CmosReadsStayHome ==
  LET i == InstructionOf(cpu.microcode)
      r == done.regs
      instruction == {Wrap(r.pc + k) : k \in 0..2}
      pointer == IF i.mode = "izy" THEN {ISA!Operand(r, mem), Next8(ISA!Operand(r, mem))} ELSE {}
  IN  /\ ~Between
      /\ Cmos(ModelOf(cpu.microcode))
      /\ i.kind \in {"read", "arith"}
      /\ i.mode \in ISA!Indexed
      => tick.address \in instruction \cup pointer \cup {ISA!Effective(i.mode, r, mem)}

\* What the assembler emits for the opcode of a slot; of the CMOS families it knows what
\* they share with the NMOS ones.
EncodingsOf(model, slot) ==
  {e \in IF Cmos(model) THEN Asm!Documented ELSE Asm!Encodings : e.opcode = slot}
NameOf(i) == IF i.mn \in DOMAIN BinaryVariant THEN BinaryVariant[i.mn] ELSE i.mn

\* Instruction i, which encoding e emits, has ended in this step and left the program at
\* the byte that follows e, unless it goes elsewhere; a call has pushed the byte before.
\* BRK goes elsewhere, and its return skips a byte that no encoding of it has.
KeepsPace(i, e) ==
  LET next == Wrap(done.regs.pc + 1 + e.operands)
      target == Wrap(next + Signed(mem[Wrap(next - 1)]))
  IN  CASE i.kind \in {"jmp_abs", "jmp_ind", "rts", "rti", "brk"} -> TRUE
        [] i.kind = "jsr"    -> [k \in 1..2 |-> done'.writes[k][2]] = <<Hi(Wrap(next - 1)), Lo(Wrap(next - 1))>>
        [] i.kind = "branch" -> done'.regs.pc \in {next, target}
        [] OTHER             -> done'.regs.pc = next

\* The assembler and the CPU agree on every opcode: the CPU runs the mnemonic in the mode
\* the assembler was asked for, and takes as many operand bytes as the assembler emits.
\* Two tables written by hand, 256 opcodes in five control stores; where they differ,
\* every later byte of the program is decoded out of step.
AssembledAsExecuted ==
  [][LET slot == SlotOf(cpu.microcode)
         model == ModelOf(cpu.microcode)
         i == InstructionOf(cpu.microcode)
     IN  (~Between /\ slot \notin ServiceSlots /\ done' # done /\ done'.cycles > 0)
           => \A e \in EncodingsOf(model, slot) :
                /\ e.mn = NameOf(i)
                /\ e.mode \in {i.mode, "any"}
                /\ KeepsPace(i, e)]_vars
=============================================================================
