------------------------------ MODULE Qe6502Cpu ------------------------------
(***************************************************************************)
(* The qe6502 backend of the bridge: an NMOS core on 64 KiB of memory. A     *)
(* step is a bus cycle: the handler of the control store works on the byte   *)
(* of the bus (Handlers) while the interrupt resolver around it works on the *)
(* interrupt byte (InterruptLogic), and may turn a fetch into a service and  *)
(* the vector of a service into another one.                                 *)
(*                                                                           *)
(* A backend is a record: the context; apart from it the interrupt byte as a *)
(* set and hijack_microcode as a Boolean; the last tick; the memory where it *)
(* does not hold the byte it was filled with.                                *)
(*                                                                           *)
(* As in Mnemonics, no instruction changes C, Z, V or N but those that load  *)
(* P: a branch goes by the status that PLP or RTI left.                      *)
(***************************************************************************)
EXTENDS Integers, Sequences, TLC

CONSTANT Fill
ASSUME FillAssumption == Fill \in 0..255

Adder == INSTANCE Arithmetic
Bit(byte, weight) == Adder!Bit(byte, weight)

\* P with its bits where Mnemonics has them: I, B and D first; C and Z, of which it has
\* nothing, follow, and V and N stay where they are.
CFlag == 8
ZFlag == 16
VFlag == 64
NFlag == 128
Status(byte) ==
  LET Moved(from, to) == IF Bit(byte, from) THEN to ELSE 0
  IN  Moved(1, CFlag) + Moved(2, ZFlag) + Moved(4, 1) + Moved(8, 4) + Moved(16, 2)
        + Moved(32, 32) + Moved(64, VFlag) + Moved(128, NFlag)

\* What the shifter leaves on the bus under status p.  What the adder leaves in A, with ADC,
\* SBC or ARR, no test case stores, indexes with or branches on: A is left as it was.
NmosAlu(mn, a, v, p) ==
  LET f == [n |-> FALSE, v |-> FALSE, d |-> FALSE, z |-> FALSE, c |-> Bit(p, CFlag)]
  IN  CASE mn = "rol" -> Adder!RolValue(f, v).r
        [] mn = "ror" -> Adder!RorValue(f, v).r
        [] OTHER      -> a

Core == INSTANCE Handlers WITH B <- 256, Alu <- NmosAlu
KeepA(mn, a, v, p) == a   \* neither the rows nor the table of instructions computes
Rows == INSTANCE Microcode WITH B <- 256, Alu <- KeepA
Tables == INSTANCE OpcodeTables WITH B <- 256, Alu <- KeepA
Ints == INSTANCE InterruptLogic

\* The condition of a branch under status p.
Condition(mn, p) ==
  CASE mn = "bpl" -> ~Bit(p, NFlag)
    [] mn = "bmi" -> Bit(p, NFlag)
    [] mn = "bvc" -> ~Bit(p, VFlag)
    [] mn = "bvs" -> Bit(p, VFlag)
    [] mn = "bcc" -> ~Bit(p, CFlag)
    [] mn = "bcs" -> Bit(p, CFlag)
    [] mn = "bne" -> ~Bit(p, ZFlag)
    [] mn = "beq" -> Bit(p, ZFlag)
    [] OTHER      -> FALSE
-----------------------------------------------------------------------------
(* The control store: per slot its instruction, its handlers one per cycle, and   *)
(* the row of ControlStore that it is where only interrupts matter.               *)

Services == Rows!IllegalExt..Rows!IrqSlot
StraightRows == <<"none", "cycles2", "cycles3", "cycles4", "cycles5", "cycles6", "cycles7", "cycles8">>

RowOf(i) ==
  CASE i.mn \in {"cli", "sei", "cld", "sed", "plp"}             -> i.mn
    [] i.kind \in {"rti", "branch", "brk", "kil"}               -> i.kind
    [] i.kind = "read" /\ i.mode \in {"abx", "aby"}             -> "indexed_ab"
    [] i.kind = "read" /\ i.mode = "izy"                        -> "indexed_iy"
    [] OTHER                                                    -> StraightRows[Len(Rows!Row("nmos", i))]

ServiceRows ==
  [slot \in Services |->
     CASE slot = Rows!InternalReset -> "internal_reset"
       [] slot \in {Rows!Reset0, Rows!Reset1} -> "reset"
       [] slot = Rows!GotoSlot      -> "goto"
       [] slot = Rows!NmiSlot       -> "nmi"
       [] slot = Rows!IrqSlot       -> "irq"
       [] OTHER                     -> "illegal_ext"]

OpcodeSlot(i) == [i |-> i, cycles |-> Rows!Row("nmos", i), row |-> RowOf(i)]
ServiceSlot(slot) ==
  [i |-> Core!Instruction("service", "none", "none"), cycles |-> Rows!ServiceRow("nmos", slot),
   row |-> ServiceRows[slot]]
Store ==
  [slot \in 0..255 \cup Services |->
     IF slot \in Services THEN ServiceSlot(slot) ELSE OpcodeSlot(Tables!NmosBlock[slot + 1])]

SlotNumber == [row \in {"nmi", "irq"} |-> IF row = "nmi" THEN Rows!NmiSlot ELSE Rows!IrqSlot]

-----------------------------------------------------------------------------
(* What ICpu shows of a backend, and the calls that change it.                    *)

Peek(memory, address) == IF address \in DOMAIN memory THEN memory[address] ELSE Fill
Poke(memory, address, byte) == (address :> byte) @@ memory

is_write(b) == b.tick.status = Core!writing
is_opcode_fetch(b) == b.tick.status = Core!opcode_fetch
bus_address(b) == b.tick.address
bus_data(b) == IF is_write(b) THEN b.tick.bus ELSE Peek(b.memory, b.tick.address)

\* qe6502_nmi_assert and qe6502_irq_assert.
nmi(b, asserted) ==
  [b EXCEPT !.ints = (@ \ {"sampling", "nmi_pin"}) \cup (IF asserted THEN {"nmi_pin"} ELSE {}),
            !.hijack = @ \/ asserted # ("nmi_pin" \in b.ints)]
irq(b, asserted) ==
  [b EXCEPT !.ints = (@ \ {"sampling", "irq_pin"}) \cup (IF asserted THEN {"irq_pin"} ELSE {}),
            !.hijack = @ \/ asserted]

\* The status bits that InterruptLogic knows.
Masks(p) == (IF Bit(p, 1) THEN {"I"} ELSE {}) \cup (IF Bit(p, 4) THEN {"D"} ELSE {})

\* mc_dispatch: the opcode on the bus selects the slot.
Dispatched(c, opcode) == [c EXCEPT !.microcode = Core!Idx(c.model, opcode, 0), !.pc = Core!Wrap(c.pc + 1)]
Slot(c) == (c.microcode \div 8) % 512
Cycle(c) == c.microcode % 8
Ended(c) == Cycle(c) = Len(Store[Slot(c)].cycles)

\* The handler of context c at a slot of the store, with bus the byte of the bus.
Executed(slot, c, bus) ==
  Core!Handler(slot.cycles[Cycle(c) + 1], c, bus, slot.i, Condition(slot.i.mn, c.p))

\* The same handler where only interrupts matter.
HandlerName(slot, c) ==
  Ints!Handler("nmos", <<slot.row, Cycle(c) + IF Slot(c) = Rows!Reset1 THEN 8 ELSE 0>>)
SkippedBy(h, c, done) == IF h \in {"branch_c0", "branch_c1", "probe"} THEN done.microcode - c.microcode ELSE 0

\* The head of the resolver, and what the handler itself does to the interrupt byte.
Sampled(b) == IF b.hijack THEN Ints!SampleNmi(b.ints) ELSE b.ints
IntsAfter(b, h, p, skip) == Ints!IntsAfter(h, Sampled(b), p, Ints!Prefetches(h, p, skip))

\* The tail of the resolver, after handler h of context c has left the byte ints, done the
\* context and tick.
Resolved(b, h, p, ints, done) ==
  LET fetch == Ints!Fetches(h, p)
      served == IF b.hijack THEN Ints!Served(ints, fetch) ELSE "none"
      vector == Ints!VectorAfter(h, Sampled(b), p)
      resolved == IF b.hijack THEN Ints!Resolve(ints, p, fetch) ELSE ints
      next == CASE served # "none" -> Core!Idx(0, SlotNumber[served], 0)
                [] served = "none" /\ vector # "same" -> Core!Idx(0, SlotNumber[vector], 4)
                [] OTHER -> done.cpu.microcode + 1
  IN  [b EXCEPT !.cpu = [done.cpu EXCEPT !.microcode = next],
                !.tick = done.tick,
                !.ints = resolved,
                !.hijack = @ /\ (served # "none" \/ ~Ints!Quiet(resolved))]

Ticked(b, h, c, done) ==
  Resolved(b, h, Masks(c.p), IntsAfter(b, h, Masks(c.p), SkippedBy(h, c, done.cpu)), done)
Handled(b, slot, c, bus) == Ticked(b, HandlerName(slot, c), c, Executed(slot, c, bus))

\* qe6502_tick on the byte bus.
Tick(b, bus) ==
  LET Run(c) == Handled(b, Store[Slot(c)], c, bus)
  IN  Run(IF Ended(b.cpu) THEN Dispatched(b.cpu, bus) ELSE b.cpu)

\* step(): the bus cycle, then the tick with what was on the bus before it.
Performed(b) == IF is_write(b) THEN [b EXCEPT !.memory = Poke(@, b.tick.address, b.tick.bus)] ELSE b
step(b) == Tick(Performed(b), Peek(b.memory, b.tick.address))

\* restart(): qe6502_restart, and steps until the internal reset is over.
Restarted(memory) ==
  [cpu |-> [pc |-> \h01ff, a |-> 0, x |-> \hc0, y |-> 0, s |-> \hc0, p |-> ZFlag,
            la |-> 0, ld |-> 0, microcode |-> Core!Idx(0, Rows!InternalReset, 0), model |-> 0],
   ints |-> {}, hijack |-> FALSE,
   tick |-> Core!TickOf(\h00ff, 0, Core!internal_reset),
   memory |-> memory]
RECURSIVE Settled(_)
Settled(b) == IF b.tick.status = Core!internal_reset THEN Settled(step(b)) ELSE b
restart(memory) == Settled(Restarted(memory))
=============================================================================
