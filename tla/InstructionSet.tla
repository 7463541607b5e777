----------------------------- MODULE InstructionSet -----------------------------
(***************************************************************************)
(* What a program can rely on: each instruction, interrupt service and reset   *)
(* as one step on the registers and memory, with the writes it makes, in       *)
(* order, and the number of cycles it takes.  Effective addresses, lengths and *)
(* timing are given by formulas over addressing modes; there is no microcode   *)
(* and no latch.  BusCycles implements it.                                   *)
(***************************************************************************)
EXTENDS Mnemonics, SequencesExt

CONSTANTS
  Models,      \* the models a host may select
  Opcodes      \* Opcodes[model]: a sequence of instructions, the opcode bytes

VARIABLES
  model,    \* the model the next instruction is decoded for
  regs,     \* the registers between two instructions
  mem,      \* memory
  current,  \* <<model, instruction>> under way, or None
  writes,   \* what the last instruction wrote, and where
  cycles    \* how long it took

vars == <<model, regs, mem, current, writes, cycles>>

None == <<>>
Nmi == Instruction("nmi", "none", "none")
Irq == Instruction("irq", "none", "none")
Reset == Instruction("reset", "none", "none")
\* A reset is the same in all models.
AnyModel == "nmos"
-----------------------------------------------------------------------------
(* Addressing modes. *)

Operand(r, m) == m[Wrap(r.pc + 1)]
OperandWord(r, m) == Word(m[Wrap(r.pc + 2)], m[Wrap(r.pc + 1)])
ZeroPageWord(m, z) == Word(m[Next8(z)], m[z])

Indexed == {"abx", "aby", "izy"}
Base(mode, r, m) ==
  IF mode = "izy" THEN ZeroPageWord(m, Operand(r, m)) ELSE OperandWord(r, m)
Index(mode, r) == IF mode \in {"abx", "zpx", "izx"} THEN r.x ELSE r.y

Effective(mode, r, m) ==
  CASE mode = "imm"            -> Wrap(r.pc + 1)
    [] mode = "zp"             -> Operand(r, m)
    [] mode \in {"zpx", "zpy"} -> (Operand(r, m) + Index(mode, r)) % B
    [] mode = "abs"            -> OperandWord(r, m)
    [] mode \in Indexed        -> Wrap(Base(mode, r, m) + Index(mode, r))
    [] mode = "izx"            -> ZeroPageWord(m, (Operand(r, m) + r.x) % B)
    [] mode = "izp"            -> ZeroPageWord(m, Operand(r, m))

Crosses(mode, r, m) ==
  mode \in Indexed /\ Hi(Effective(mode, r, m)) # Hi(Base(mode, r, m))

One(condition) == IF condition THEN 1 ELSE 0

Length(mode) ==
  CASE mode = "none"                 -> 1
    [] mode \in {"abs", "abx", "aby"} -> 3
    [] OTHER                         -> 2

\* Cycles up to and including the read of the operand, page crossing aside.
Reach(mode) ==
  CASE mode = "imm"                          -> 2
    [] mode = "zp"                           -> 3
    [] mode \in {"zpx", "zpy", "abs", "abx", "aby"} -> 4
    [] mode \in {"izy", "izp"}               -> 5
    [] mode = "izx"                          -> 6

-----------------------------------------------------------------------------
(* Outcomes: registers, writes and cycles. *)

Outcome(r, ws, n) == [regs |-> r, writes |-> ws, cycles |-> n]

Written(m, ws) == FoldLeft(LAMBDA acc, w : [acc EXCEPT ![w[1]] = w[2]], m, ws)

\* The stack below s, growing down.
Frame(s, bytes) == [k \in 1..Len(bytes) |-> <<StackAddress((s - (k - 1)) % B), bytes[k]>>]
Stack(r, m, k) == m[StackAddress((r.s + k) % B)]

ReadOutcome(i, r, m) ==
  Outcome([Loaded(i.mn, r, m[Effective(i.mode, r, m)]) EXCEPT !.pc = Wrap(r.pc + Length(i.mode))],
          <<>>,
          Reach(i.mode) + One(Crosses(i.mode, r, m))
            + One(i.kind = "arith" /\ ALU!Bit(r.p, DFlag)))

WriteOutcome(i, r, m) ==
  Outcome([r EXCEPT !.pc = Wrap(r.pc + Length(i.mode))],
          << <<Effective(i.mode, r, m), Stored(i.mn, r)>> >>,
          Reach(i.mode) + One(i.mode \in Indexed))

\* The NMOS families write the old value before the new one, the CMOS families read
\* it twice; their shifts save the cycle of an index that crosses no page.
ModifyOutcome(mod, i, r, m) ==
  LET a == Effective(i.mode, r, m)
      new == <<a, Modified(i.mn, r, m[a], i.w)>>
  IN  Outcome([Combined(i.mn, r, m[a]) EXCEPT !.pc = Wrap(r.pc + Length(i.mode))],
              IF Cmos(mod) THEN <<new>> ELSE << <<a, m[a]>>, new >>,
              Reach(i.mode) + 2
                + One(IF i.kind = "rmw_short" THEN Crosses(i.mode, r, m) ELSE i.mode \in Indexed))

\* An unstable store whose index crosses a page writes to the page that its value
\* names.
UnstableOutcome(i, r, m) ==
  LET v == Unstable(i.mn, r, Hi(Base(i.mode, r, m)))
      a == Effective(i.mode, r, m)
  IN  Outcome([AfterUnstable(i.mn, r) EXCEPT !.pc = Wrap(r.pc + Length(i.mode))],
              << <<IF Crosses(i.mode, r, m) THEN Word(v, Lo(a)) ELSE a, v>> >>,
              Reach(i.mode) + 1)

BranchOutcome(r, base, offset, taken, n) ==
  LET target == Wrap(base + Signed(offset))
  IN  Outcome([r EXCEPT !.pc = IF taken THEN target ELSE Wrap(base)],
              <<>>,
              n + One(taken) + One(taken /\ Hi(target) # Hi(Wrap(base))))

ServiceOutcome(mod, r, m, pc, p, vector) ==
  LET ws == Frame(r.s, <<Hi(pc), Lo(pc), p>>)
      after == Written(m, ws)
      masked == FlagOn(r.p, IFlag)
  IN  Outcome([r EXCEPT !.s = (r.s - 3) % B,
                        !.pc = Word(after[vector + 1], after[vector]),
                        !.p = IF Cmos(mod) THEN FlagOff(masked, DFlag) ELSE masked],
              ws, 7)

\* JSR reads the high byte of its operand after the pushes.
CallOutcome(r, m) ==
  LET back == Wrap(r.pc + 2)
      ws == Frame(r.s, <<Hi(back), Lo(back)>>)
  IN  Outcome([r EXCEPT !.s = (r.s - 2) % B,
                        !.pc = Word(Written(m, ws)[back], Operand(r, m))],
              ws, 6)

JumpOutcome(mod, i, r, m) ==
  LET ptr == OperandWord(r, m)
      ptrX == Wrap(ptr + r.x)
      To(hi, lo, n) == Outcome([r EXCEPT !.pc = Word(m[hi], m[lo])], <<>>, n)
  IN  CASE i.kind = "jmp_abs"   -> To(Wrap(r.pc + 2), Wrap(r.pc + 1), 3)
        [] i.kind = "jmp_ind"   ->
             IF Cmos(mod) THEN To(Wrap(ptr + 1), ptr, 6)
                          ELSE To(Word(Hi(ptr), Next8(Lo(ptr))), ptr, 5)
        [] i.kind = "jmp_ind_x" -> To(Wrap(ptrX + 1), ptrX, 6)

ReturnOutcome(i, r, m) ==
  CASE i.kind = "rts" ->
         Outcome([r EXCEPT !.s = (r.s + 2) % B,
                           !.pc = Wrap(Word(Stack(r, m, 2), Stack(r, m, 1)) + 1)], <<>>, 6)
    [] i.kind = "rti" ->
         Outcome([r EXCEPT !.s = (r.s + 3) % B,
                           !.p = FlagOff(Stack(r, m, 1), BFlag),
                           !.pc = Word(Stack(r, m, 3), Stack(r, m, 2))], <<>>, 6)

\* Bytes and cycles of the NOPs that are not like a read.
NopShape == [nop_1c |-> <<1, 1>>, nop_3b |-> <<3, 4>>, nop_abs |-> <<3, 3>>, nop_abs_high |-> <<3, 4>>]

Advanced(r, k) == [r EXCEPT !.pc = Wrap(r.pc + k)]

\* All outcomes of instruction i; the flag a conditional branch tests is not kept.
Outcomes(mod, i, r, m) ==
  CASE i.kind \in {"read", "arith"}    -> {ReadOutcome(i, r, m)}
    [] i.kind = "write"                -> {WriteOutcome(i, r, m)}
    [] i.kind \in {"rmw", "rmw_short"} -> {ModifyOutcome(mod, i, r, m)}
    [] i.kind = "unstable"             -> {UnstableOutcome(i, r, m)}
    [] i.kind = "implied"              -> {Outcome(Advanced(Implied(i.mn, r), 1), <<>>, 2)}
    [] i.kind \in DOMAIN NopShape      ->
         {Outcome(Advanced(r, NopShape[i.kind][1]), <<>>, NopShape[i.kind][2])}
    [] i.kind = "branch"               ->
         {BranchOutcome(r, r.pc + 2, Operand(r, m), taken, 2) : taken \in BOOLEAN}
    [] i.kind = "bra"                  -> {BranchOutcome(r, r.pc + 2, Operand(r, m), TRUE, 2)}
    [] i.kind \in {"bbr", "bbs"}       ->
         {BranchOutcome(r, r.pc + 3, m[Wrap(r.pc + 2)],
                        ALU!Bit(m[Operand(r, m)], i.w) = (i.kind = "bbs"), 5)}
    [] i.kind = "push"                 ->
         {Outcome([Advanced(r, 1) EXCEPT !.s = (r.s - 1) % B],
                  << <<StackAddress(r.s), Pushed(i.mn, r)>> >>, 3)}
    [] i.kind = "pull"                 ->
         {Outcome(Loaded(i.mn, [Advanced(r, 1) EXCEPT !.s = Next8(r.s)], Stack(r, m, 1)), <<>>, 4)}
    [] i.kind \in {"jmp_abs", "jmp_ind", "jmp_ind_x"} -> {JumpOutcome(mod, i, r, m)}
    [] i.kind = "jsr"                  -> {CallOutcome(r, m)}
    [] i.kind \in {"rts", "rti"}       -> {ReturnOutcome(i, r, m)}
    [] i.kind = "brk"                  ->
         {ServiceOutcome(mod, r, m, Wrap(r.pc + 2), PushedWithBreak(r.p), IrqVector)}
    [] i.kind = "nmi"                  ->
         {ServiceOutcome(mod, r, m, r.pc, PushedByService(r.p), NmiVector)}
    [] i.kind = "irq"                  ->
         {ServiceOutcome(mod, r, m, r.pc, PushedByService(r.p), IrqVector)}
    [] i.kind = "reset"                ->
         {Outcome([r EXCEPT !.s = (r.s - 3) % B,
                            !.pc = Word(m[ResetVector + 1], m[ResetVector]),
                            !.p = FlagOn(FlagOn(r.p, BFlag), IFlag)], <<>>, 17)}
    [] i.kind = "kil"                  -> {}
-----------------------------------------------------------------------------
RestartRegs ==
  [pc |-> Word(1, B - 1), s |-> (3 * B) \div 4, a |-> 0, x |-> (3 * B) \div 4, y |-> 0, p |-> 0]

Init ==
  /\ model \in Models
  /\ regs \in [pc : Addresses, s : Bytes, a : Bytes, x : Bytes, y : Bytes, p : Bytes]
  /\ mem \in [Addresses -> Bytes]
  /\ current = None
  /\ writes = <<>>
  /\ cycles = 0

Decodable(mod) == Range(Opcodes[mod])

\* What may be under way after an instruction: nothing, or an interrupt service.
Following(after) == after \in {None, <<model, Nmi>>, <<model, Irq>>}

\* The opcode byte is decoded for the model of this moment.
Begin ==
  /\ current = None
  /\ current' \in {model} \X Decodable(model)
  /\ UNCHANGED <<model, regs, mem, writes, cycles>>

End(o) ==
  /\ regs' = o.regs
  /\ mem' = Written(mem, o.writes)
  /\ writes' = o.writes
  /\ cycles' = o.cycles
  /\ UNCHANGED model

Finish ==
  /\ current # None
  /\ Following(current')
  /\ \E o \in Outcomes(current[1], current[2], regs, mem) : End(o)

\* An instruction of one cycle.
BeginAndFinish ==
  /\ current = None
  /\ Following(current')
  /\ \E i \in {j \in Decodable(model) : j.kind = "nop_1c"} :
        \E o \in Outcomes(model, i, regs, mem) : End(o)

\* An instruction that is cut short may have made the first of its writes.
Torn ==
  /\ current # None
  /\ \E o \in Outcomes(current[1], current[2], regs, mem) :
        \E ws \in Prefixes(o.writes) : mem' = Written(mem, ws)

Restart ==
  /\ regs' = RestartRegs
  /\ current' = <<AnyModel, Reset>>
  /\ writes' = <<>>
  /\ cycles' = 0
  /\ mem' = mem \/ Torn
  /\ UNCHANGED model

\* Between two instructions the program counter may be set.
Goto ==
  /\ current = None
  /\ Following(current')
  /\ regs' = [regs EXCEPT !.pc = regs'.pc]
  /\ regs'.pc \in Addresses
  /\ UNCHANGED <<model, mem, writes, cycles>>

SetModel ==
  /\ model' \in Models
  /\ UNCHANGED <<regs, mem, current, writes, cycles>>

Next == Begin \/ Finish \/ BeginAndFinish \/ Restart \/ Goto \/ SetModel

Spec == Init /\ [][Next]_vars
=============================================================================
