------------------------------ MODULE Testcases ------------------------------
(***************************************************************************)
(* The opcode test cases of the NMI observer, all 256 opcodes of them. A     *)
(* case is an opcode, what it is declared to take in bytes and cycles, the   *)
(* registers to start with and a program, which the assembler makes into     *)
(* bytes at addresses: the instruction, its operands, and a trap, a jump to  *)
(* itself, where it should lead.                                             *)
(*                                                                           *)
(* The programs differ in little but opcode and mode, so each shape is an    *)
(* operator, named for the path the instruction takes. Descriptions are left *)
(* out, and so is nmi_vector, which is 0x0800 in every case and which the    *)
(* observer does not use.                                                    *)
(***************************************************************************)
EXTENDS Integers, Sequences, TLC

LOCAL Assembler == INSTANCE Encodings

\* P and S as most cases have them.
With(a, x, y, p, s) == [a |-> a, x |-> x, y |-> y, p |-> p, s |-> s]
Regs(a, x, y) == With(a, x, y, \h24, \hfd)

Case(opcode, bytes, cycles, regs, program) ==
  [opcode |-> opcode, bytes |-> bytes, expected_cycles |-> cycles, regs |-> regs, program |-> program]

-----------------------------------------------------------------------------
(* Programs, as they are written: the instruction and its operand; where the trap   *)
(* is; data, what is placed for the instruction to read; status, where of it P is   *)
(* pulled from; stores, an address that has a label but no byte, to write to.       *)

\* The helper of the assembler for a mnemonic, and the one that is given the opcode.
AnyOpcode == 256
Asm(mn, mode) == [mn |-> mn, mode |-> mode, opcode |-> AnyOpcode]
Opcode(opcode) == [mn |-> "any", mode |-> "any", opcode |-> opcode]

DoubleByte(word) == <<word % 256, word \div 256>>
At(address, bytes) == [a \in address .. address + Len(bytes) - 1 |-> bytes[a - address + 1]]

Nothing == <<>>
Unset == 256
FallsThrough == -1   \* to a trap next to the instruction
Program(org, e, operand, trap, data, stores) ==
  [start_at |-> org, e |-> e, operand |-> operand, trap |-> trap, data |-> data, stores |-> stores,
   status |-> {}]

\* An instruction that falls through to the trap, with a pointer and a value, or a place to
\* store to.
Straight(e, operand, pointer, address, v) ==
  Program(\h0400, e, operand, FallsThrough,
          IF v = Unset THEN pointer ELSE (address :> v) @@ pointer,
          IF v = Unset THEN {address} ELSE {})

Alone(e) == Program(\h0400, e, 0, FallsThrough, Nothing, {})
Immediate(e, v) == Program(\h0400, e, v, FallsThrough, Nothing, {})
ZeroPage(e, v) == Straight(e, \h80, Nothing, \h80, v)
Absolute(e, v) == Straight(e, \h2134, Nothing, \h2134, v)

\* Indexed: past the end of page zero, within a page, into the next one.
ZeroPageIndexed(e, v) == Straight(e, \hf8, Nothing, \h08, v)
Near(e, v) == Straight(e, \h2100, Nothing, \h2110, v)

\* Mutant: the base is not near the end of its page.
FarFromStart(e, v) == Straight(e, \h2100, Nothing, \h2210, v)
Far(e, v) == Straight(e, \h21f0, Nothing, \h2210, v)

\* Through a pointer: indexed past the end of page zero, and then within a page or not.
PointerX(e, v) == Straight(e, \hf8, At(\h08, DoubleByte(\h2134)), \h2134, v)
PointerNear(e, v) == Straight(e, \h20, At(\h20, DoubleByte(\h2100)), \h2110, v)
PointerFar(e, v) == Straight(e, \h20, At(\h20, DoubleByte(\h21f0)), \h2210, v)

Branch(e, org, target, trap) == Program(org, e, target - (org + 2), trap, Nothing, {})
NotTaken(e) == Branch(e, \h0400, \h0420, FallsThrough)
TakenNear(e) == Branch(e, \h0400, \h0420, \h0420)

\* Mutant: the branch stays in its page.
TakenFarAtStart(e) == Branch(e, \h0400, \h0415, \h0415)
TakenFar(e) == Branch(e, \h04f0, \h0505, \h0505)

Break(e) == Program(\h0400, e, 0, \h0800, At(\hfffe, DoubleByte(\h0800)), {})
Jump(e) == Program(\h0400, e, \h0800, \h0800, Nothing, {})
JumpIndirect(e) == Program(\h0400, e, \h0200, \h0800, At(\h0200, DoubleByte(\h0800)), {})
JumpIndirectWrapped(e) ==
  Program(\h0400, e, \h02ff, \h0834, (\h02ff :> \h34) @@ (\h0200 :> \h08), {})

\* A stack frame above S; RTS goes on after the address in it.
Return(e) == Program(\h0400, e, 0, \h0800, At(\h01fe, DoubleByte(\h07ff)), {})
ReturnFromInterrupt(e) ==
  LET frame == At(\h01fd, <<\h24>> \o DoubleByte(\h0800))
  IN  [Program(\h0400, e, 0, \h0800, frame, {}) EXCEPT !.status = {\h01fd}]
Pull(e, v) == Program(\h0400, e, 0, FallsThrough, (\h01fe :> v), {})
PullStatus(e, v) == [Pull(e, v) EXCEPT !.status = {\h01fe}]

-----------------------------------------------------------------------------
(* What the assembler makes of them. *)

\* A mnemonic is a documented encoding if there is one, else the lowest opcode.
EncodingOf(e) ==
  LET Fits(x) == IF e.opcode = AnyOpcode THEN x.mn = e.mn /\ x.mode = e.mode ELSE x.opcode = e.opcode
      documented == {x \in Assembler!Documented : e.opcode = AnyOpcode /\ Fits(x)}
      among == IF documented # {} THEN documented ELSE {x \in Assembler!Undocumented : Fits(x)}
  IN  CHOOSE x \in among : \A other \in among : x.opcode <= other.opcode

Emitted(e, operand) ==
  LET x == EncodingOf(e)
  IN  <<x.opcode>> \o CASE x.operands = 0 -> <<>>
                        [] x.operands = 1 -> <<operand % 256>>
                        [] x.operands = 2 -> DoubleByte(operand)

TrapCode(trap) == Emitted(Asm("jmp", "abs"), trap)

Assembled(case) ==
  LET program == case.program
      code == Emitted(program.e, program.operand)
      trap == IF program.trap = FallsThrough THEN program.start_at + Len(code) ELSE program.trap
  IN  [opcode |-> case.opcode, bytes |-> case.bytes, expected_cycles |-> case.expected_cycles,
       regs |-> case.regs, start_at |-> program.start_at, length |-> Len(code), trap |-> trap,
       mem_setup |-> At(program.start_at, code) @@ At(trap, TrapCode(trap)) @@ program.data,
       data |-> DOMAIN program.data, stores |-> program.stores, status |-> program.status]

-----------------------------------------------------------------------------
(* The table: the cases of each opcode, four opcodes to a definition. *)

Opcodes00 ==
  <<<<Case(\h00, 1, 7, Regs(\h42, \h00, \h00), Break(Asm("brk", "none")))>>,
    <<Case(\h01, 2, 6, Regs(\ha5, \h10, \h00), PointerX(Asm("ora", "izx"), \h87))>>,
    <<Case(\h02, 1, 5, Regs(\h42, \h00, \h00), Alone(Opcode(\h02)))>>,
    <<Case(\h03, 2, 8, Regs(\ha5, \h10, \h00), PointerX(Asm("slo", "izx"), \h41))>>>>

Opcodes04 ==
  <<<<Case(\h04, 2, 3, Regs(\h42, \h00, \h00), ZeroPage(Opcode(\h04), \h87))>>,
    <<Case(\h05, 2, 3, Regs(\ha5, \h00, \h00), ZeroPage(Asm("ora", "zp"), \h87))>>,
    <<Case(\h06, 2, 5, Regs(\h81, \h00, \h00), ZeroPage(Asm("asl", "zp"), \h41))>>,
    <<Case(\h07, 2, 5, Regs(\ha5, \h00, \h00), ZeroPage(Asm("slo", "zp"), \h41))>>>>

Opcodes08 ==
  <<<<Case(\h08, 1, 3, With(\h42, \h00, \h00, \he5, \hfe), Alone(Asm("php", "none")))>>,
    <<Case(\h09, 2, 2, Regs(\ha5, \h00, \h00), Immediate(Asm("ora", "imm"), \h18))>>,
    <<Case(\h0a, 1, 2, Regs(\h81, \h00, \h00), Alone(Asm("asl", "none")))>>,
    <<Case(\h0b, 2, 2, Regs(\ha5, \h00, \h00), Immediate(Asm("anc", "imm"), \h7f))>>>>

Opcodes0C ==
  <<<<Case(\h0c, 3, 4, Regs(\h42, \h00, \h00), Absolute(Opcode(\h0c), \h87))>>,
    <<Case(\h0d, 3, 4, Regs(\ha5, \h00, \h00), Absolute(Asm("ora", "abs"), \h87))>>,
    <<Case(\h0e, 3, 6, Regs(\h81, \h00, \h00), Absolute(Asm("asl", "abs"), \h41))>>,
    <<Case(\h0f, 3, 6, Regs(\ha5, \h00, \h00), Absolute(Asm("slo", "abs"), \h41))>>>>

Opcodes10 ==
  <<<<Case(\h10, 2, 2, With(\h42, \h00, \h00, \ha4, \hfd), NotTaken(Asm("bpl", "rel"))),
      Case(\h10, 2, 3, Regs(\h42, \h00, \h00), TakenNear(Asm("bpl", "rel"))),
      Case(\h10, 2, 4, Regs(\h42, \h00, \h00), TakenFar(Asm("bpl", "rel")))>>,
    <<Case(\h11, 2, 5, Regs(\ha5, \h00, \h10), PointerNear(Asm("ora", "izy"), \h87)),
      Case(\h11, 2, 6, Regs(\ha5, \h00, \h20), PointerFar(Asm("ora", "izy"), \h87))>>,
    <<Case(\h12, 1, 5, Regs(\h42, \h00, \h00), Alone(Opcode(\h12)))>>,
    <<Case(\h13, 2, 8, Regs(\ha5, \h00, \h10), PointerNear(Asm("slo", "izy"), \h41)),
      Case(\h13, 2, 8, Regs(\ha5, \h00, \h20), PointerFar(Asm("slo", "izy"), \h41))>>>>

Opcodes14 ==
  <<<<Case(\h14, 2, 4, Regs(\h42, \h10, \h00), ZeroPageIndexed(Opcode(\h14), \h87))>>,
    <<Case(\h15, 2, 4, Regs(\ha5, \h10, \h00), ZeroPageIndexed(Asm("ora", "zpx"), \h87))>>,
    <<Case(\h16, 2, 6, Regs(\h81, \h10, \h00), ZeroPageIndexed(Asm("asl", "zpx"), \h41))>>,
    <<Case(\h17, 2, 6, Regs(\ha5, \h10, \h00), ZeroPageIndexed(Asm("slo", "zpx"), \h41))>>>>

Opcodes18 ==
  <<<<Case(\h18, 1, 2, Regs(\h42, \h00, \h00), Alone(Asm("clc", "none")))>>,
    <<Case(\h19, 3, 4, Regs(\ha5, \h00, \h10), Near(Asm("ora", "aby"), \h87)),
      Case(\h19, 3, 5, Regs(\ha5, \h00, \h20), Far(Asm("ora", "aby"), \h87))>>,
    <<Case(\h1a, 1, 2, Regs(\h42, \h00, \h00), Alone(Opcode(\h1a)))>>,
    <<Case(\h1b, 3, 7, Regs(\ha5, \h00, \h10), Near(Asm("slo", "aby"), \h41)),
      Case(\h1b, 3, 7, Regs(\ha5, \h00, \h20), Far(Asm("slo", "aby"), \h41))>>>>

Opcodes1C ==
  <<<<Case(\h1c, 3, 4, Regs(\h42, \h10, \h00), Near(Opcode(\h1c), \h87)),
      Case(\h1c, 3, 5, Regs(\h42, \h20, \h00), Far(Opcode(\h1c), \h87))>>,
    <<Case(\h1d, 3, 4, Regs(\ha5, \h10, \h00), Near(Asm("ora", "abx"), \h87)),
      Case(\h1d, 3, 5, Regs(\ha5, \h20, \h00), Far(Asm("ora", "abx"), \h87))>>,
    <<Case(\h1e, 3, 7, Regs(\h81, \h10, \h00), Near(Asm("asl", "abx"), \h41)),
      Case(\h1e, 3, 7, Regs(\h81, \h20, \h00), Far(Asm("asl", "abx"), \h41))>>,
    <<Case(\h1f, 3, 7, Regs(\ha5, \h10, \h00), Near(Asm("slo", "abx"), \h41)),
      Case(\h1f, 3, 7, Regs(\ha5, \h20, \h00), Far(Asm("slo", "abx"), \h41))>>>>

Opcodes20 ==
  <<<<Case(\h20, 3, 6, Regs(\h42, \h00, \h00), Jump(Asm("jsr", "abs")))>>,
    <<Case(\h21, 2, 6, Regs(\ha5, \h10, \h00), PointerX(Asm("and", "izx"), \h87))>>,
    <<Case(\h22, 1, 5, Regs(\h42, \h00, \h00), Alone(Opcode(\h22)))>>,
    <<Case(\h23, 2, 8, With(\ha5, \h10, \h00, \h25, \hfd), PointerX(Asm("rla", "izx"), \h81))>>>>

Opcodes24 ==
  <<<<Case(\h24, 2, 3, Regs(\ha5, \h00, \h00), ZeroPage(Asm("bit", "zp"), \hc0))>>,
    <<Case(\h25, 2, 3, Regs(\ha5, \h00, \h00), ZeroPage(Asm("and", "zp"), \h87))>>,
    <<Case(\h26, 2, 5, With(\h81, \h00, \h00, \h25, \hfd), ZeroPage(Asm("rol", "zp"), \h81))>>,
    <<Case(\h27, 2, 5, With(\ha5, \h00, \h00, \h25, \hfd), ZeroPage(Asm("rla", "zp"), \h81))>>>>

Opcodes28 ==
  <<<<Case(\h28, 1, 4, Regs(\h42, \h00, \h00), PullStatus(Asm("plp", "none"), \ha5))>>,
    <<Case(\h29, 2, 2, Regs(\ha5, \h00, \h00), Immediate(Asm("and", "imm"), \h3c))>>,
    <<Case(\h2a, 1, 2, With(\h81, \h00, \h00, \h25, \hfd), Alone(Asm("rol", "none")))>>,
    <<Case(\h2b, 2, 2, Regs(\ha5, \h00, \h00), Immediate(Opcode(\h2b), \h7f))>>>>

Opcodes2C ==
  <<<<Case(\h2c, 3, 4, Regs(\ha5, \h00, \h00), Absolute(Asm("bit", "abs"), \hc0))>>,
    <<Case(\h2d, 3, 4, Regs(\ha5, \h00, \h00), Absolute(Asm("and", "abs"), \h87))>>,
    <<Case(\h2e, 3, 6, With(\h81, \h00, \h00, \h25, \hfd), Absolute(Asm("rol", "abs"), \h81))>>,
    <<Case(\h2f, 3, 6, With(\ha5, \h00, \h00, \h25, \hfd), Absolute(Asm("rla", "abs"), \h81))>>>>

Opcodes30 ==
  <<<<Case(\h30, 2, 2, Regs(\h42, \h00, \h00), NotTaken(Asm("bmi", "rel"))),
      Case(\h30, 2, 3, With(\h42, \h00, \h00, \ha4, \hfd), TakenNear(Asm("bmi", "rel"))),
      Case(\h30, 2, 4, With(\h42, \h00, \h00, \ha4, \hfd), TakenFar(Asm("bmi", "rel")))>>,
    <<Case(\h31, 2, 5, Regs(\ha5, \h00, \h10), PointerNear(Asm("and", "izy"), \h87)),
      Case(\h31, 2, 6, Regs(\ha5, \h00, \h20), PointerFar(Asm("and", "izy"), \h87))>>,
    <<Case(\h32, 1, 5, Regs(\h42, \h00, \h00), Alone(Opcode(\h32)))>>,
    <<Case(\h33, 2, 8, With(\ha5, \h00, \h10, \h25, \hfd), PointerNear(Asm("rla", "izy"), \h81)),
      Case(\h33, 2, 8, Regs(\ha5, \h00, \h20), PointerFar(Asm("rla", "izy"), \h41))>>>>

Opcodes34 ==
  <<<<Case(\h34, 2, 4, Regs(\h42, \h10, \h00), ZeroPageIndexed(Opcode(\h34), \h87))>>,
    <<Case(\h35, 2, 4, Regs(\ha5, \h10, \h00), ZeroPageIndexed(Asm("and", "zpx"), \h87))>>,
    <<Case(\h36, 2, 6, With(\h81, \h10, \h00, \h25, \hfd), ZeroPageIndexed(Asm("rol", "zpx"), \h81))>>,
    <<Case(\h37, 2, 6, With(\ha5, \h10, \h00, \h25, \hfd), ZeroPageIndexed(Asm("rla", "zpx"), \h81))>>>>

Opcodes38 ==
  <<<<Case(\h38, 1, 2, Regs(\h42, \h00, \h00), Alone(Asm("sec", "none")))>>,
    <<Case(\h39, 3, 4, Regs(\ha5, \h00, \h10), Near(Asm("and", "aby"), \h87)),
      Case(\h39, 3, 5, Regs(\ha5, \h00, \h20), Far(Asm("and", "aby"), \h87))>>,
    <<Case(\h3a, 1, 2, Regs(\h42, \h00, \h00), Alone(Opcode(\h3a)))>>,
    <<Case(\h3b, 3, 7, With(\ha5, \h00, \h10, \h25, \hfd), Near(Asm("rla", "aby"), \h81)),
      Case(\h3b, 3, 7, Regs(\ha5, \h00, \h20), Far(Asm("rla", "aby"), \h41))>>>>

Opcodes3C ==
  <<<<Case(\h3c, 3, 4, Regs(\h42, \h10, \h00), Near(Opcode(\h3c), \h87)),
      Case(\h3c, 3, 5, Regs(\h42, \h20, \h00), Far(Opcode(\h3c), \h87))>>,
    <<Case(\h3d, 3, 4, Regs(\ha5, \h10, \h00), Near(Asm("and", "abx"), \h87)),
      Case(\h3d, 3, 5, Regs(\ha5, \h20, \h00), Far(Asm("and", "abx"), \h87))>>,
    <<Case(\h3e, 3, 7, With(\h81, \h10, \h00, \h25, \hfd), Near(Asm("rol", "abx"), \h81)),
      Case(\h3e, 3, 7, Regs(\h81, \h20, \h00), Far(Asm("rol", "abx"), \h41))>>,
    <<Case(\h3f, 3, 7, With(\ha5, \h10, \h00, \h25, \hfd), Near(Asm("rla", "abx"), \h81)),
      Case(\h3f, 3, 7, Regs(\ha5, \h20, \h00), Far(Asm("rla", "abx"), \h41))>>>>

Opcodes40 ==
  <<<<Case(\h40, 1, 6, With(\h42, \h00, \h00, \h24, \hfc), ReturnFromInterrupt(Asm("rti", "none")))>>,
    <<Case(\h41, 2, 6, Regs(\ha5, \h10, \h00), PointerX(Asm("eor", "izx"), \h87))>>,
    <<Case(\h42, 1, 5, Regs(\h42, \h00, \h00), Alone(Opcode(\h42)))>>,
    <<Case(\h43, 2, 8, Regs(\ha5, \h10, \h00), PointerX(Asm("sre", "izx"), \h82))>>>>

Opcodes44 ==
  <<<<Case(\h44, 2, 3, Regs(\h42, \h00, \h00), ZeroPage(Opcode(\h44), \h87))>>,
    <<Case(\h45, 2, 3, Regs(\ha5, \h00, \h00), ZeroPage(Asm("eor", "zp"), \h87))>>,
    <<Case(\h46, 2, 5, Regs(\h81, \h00, \h00), ZeroPage(Asm("lsr", "zp"), \h82))>>,
    <<Case(\h47, 2, 5, Regs(\ha5, \h00, \h00), ZeroPage(Asm("sre", "zp"), \h82))>>>>

Opcodes48 ==
  <<<<Case(\h48, 1, 3, Regs(\h8e, \h00, \h00), Alone(Asm("pha", "none")))>>,
    <<Case(\h49, 2, 2, Regs(\ha5, \h00, \h00), Immediate(Asm("eor", "imm"), \hff))>>,
    <<Case(\h4a, 1, 2, Regs(\h81, \h00, \h00), Alone(Asm("lsr", "none")))>>,
    <<Case(\h4b, 2, 2, Regs(\ha5, \h00, \h00), Immediate(Asm("alr", "imm"), \hf0))>>>>

Opcodes4C ==
  <<<<Case(\h4c, 3, 3, Regs(\h42, \h00, \h00), Jump(Asm("jmp", "abs")))>>,
    <<Case(\h4d, 3, 4, Regs(\ha5, \h00, \h00), Absolute(Asm("eor", "abs"), \h87))>>,
    <<Case(\h4e, 3, 6, Regs(\h81, \h00, \h00), Absolute(Asm("lsr", "abs"), \h82))>>,
    <<Case(\h4f, 3, 6, Regs(\ha5, \h00, \h00), Absolute(Asm("sre", "abs"), \h82))>>>>

Opcodes50 ==
  <<<<Case(\h50, 2, 2, With(\h42, \h00, \h00, \h64, \hfd), NotTaken(Asm("bvc", "rel"))),
      Case(\h50, 2, 3, Regs(\h42, \h00, \h00), TakenNear(Asm("bvc", "rel"))),
      Case(\h50, 2, 4, Regs(\h42, \h00, \h00), TakenFar(Asm("bvc", "rel")))>>,
    <<Case(\h51, 2, 5, Regs(\ha5, \h00, \h10), PointerNear(Asm("eor", "izy"), \h87)),
      Case(\h51, 2, 6, Regs(\ha5, \h00, \h20), PointerFar(Asm("eor", "izy"), \h87))>>,
    <<Case(\h52, 1, 5, Regs(\h42, \h00, \h00), Alone(Opcode(\h52)))>>,
    <<Case(\h53, 2, 8, Regs(\ha5, \h00, \h10), PointerNear(Asm("sre", "izy"), \h82)),
      Case(\h53, 2, 8, Regs(\ha5, \h00, \h20), PointerFar(Asm("sre", "izy"), \h82))>>>>

Opcodes54 ==
  <<<<Case(\h54, 2, 4, Regs(\h42, \h10, \h00), ZeroPageIndexed(Opcode(\h54), \h87))>>,
    <<Case(\h55, 2, 4, Regs(\ha5, \h10, \h00), ZeroPageIndexed(Asm("eor", "zpx"), \h87))>>,
    <<Case(\h56, 2, 6, Regs(\h81, \h10, \h00), ZeroPageIndexed(Asm("lsr", "zpx"), \h82))>>,
    <<Case(\h57, 2, 6, Regs(\ha5, \h10, \h00), ZeroPageIndexed(Asm("sre", "zpx"), \h82))>>>>

Opcodes58 ==
  <<<<Case(\h58, 1, 2, Regs(\h42, \h00, \h00), Alone(Asm("cli", "none")))>>,
    <<Case(\h59, 3, 4, Regs(\ha5, \h00, \h10), Near(Asm("eor", "aby"), \h87)),
      Case(\h59, 3, 5, Regs(\ha5, \h00, \h20), Far(Asm("eor", "aby"), \h87))>>,
    <<Case(\h5a, 1, 2, Regs(\h42, \h00, \h00), Alone(Opcode(\h5a)))>>,
    <<Case(\h5b, 3, 7, Regs(\ha5, \h00, \h10), Near(Asm("sre", "aby"), \h82)),
      Case(\h5b, 3, 7, Regs(\ha5, \h00, \h20), Far(Asm("sre", "aby"), \h82))>>>>

Opcodes5C ==
  <<<<Case(\h5c, 3, 4, Regs(\h42, \h10, \h00), Near(Opcode(\h5c), \h87)),
      Case(\h5c, 3, 5, Regs(\h42, \h20, \h00), Far(Opcode(\h5c), \h87))>>,
    <<Case(\h5d, 3, 4, Regs(\ha5, \h10, \h00), Near(Asm("eor", "abx"), \h87)),
      Case(\h5d, 3, 5, Regs(\ha5, \h20, \h00), Far(Asm("eor", "abx"), \h87))>>,
    <<Case(\h5e, 3, 7, Regs(\h81, \h10, \h00), Near(Asm("lsr", "abx"), \h82)),
      Case(\h5e, 3, 7, Regs(\h81, \h20, \h00), Far(Asm("lsr", "abx"), \h82))>>,
    <<Case(\h5f, 3, 7, Regs(\ha5, \h10, \h00), Near(Asm("sre", "abx"), \h82)),
      Case(\h5f, 3, 7, Regs(\ha5, \h20, \h00), Far(Asm("sre", "abx"), \h82))>>>>

Opcodes60 ==
  <<<<Case(\h60, 1, 6, Regs(\h42, \h00, \h00), Return(Asm("rts", "none")))>>,
    <<Case(\h61, 2, 6, With(\h45, \h10, \h00, \h25, \hfd), PointerX(Asm("adc", "izx"), \h15))>>,
    <<Case(\h62, 1, 5, Regs(\h42, \h00, \h00), Alone(Opcode(\h62)))>>,
    <<Case(\h63, 2, 8, With(\ha5, \h10, \h00, \h25, \hfd), PointerX(Asm("rra", "izx"), \h81))>>>>

Opcodes64 ==
  <<<<Case(\h64, 2, 3, Regs(\h42, \h00, \h00), ZeroPage(Opcode(\h64), \h87))>>,
    <<Case(\h65, 2, 3, With(\h45, \h00, \h00, \h25, \hfd), ZeroPage(Asm("adc", "zp"), \h15))>>,
    <<Case(\h66, 2, 5, With(\h81, \h00, \h00, \h25, \hfd), ZeroPage(Asm("ror", "zp"), \h81))>>,
    <<Case(\h67, 2, 5, With(\ha5, \h00, \h00, \h25, \hfd), ZeroPage(Asm("rra", "zp"), \h81))>>>>

Opcodes68 ==
  <<<<Case(\h68, 1, 4, Regs(\h42, \h00, \h00), Pull(Asm("pla", "none"), \h5a))>>,
    <<Case(\h69, 2, 2, With(\h45, \h00, \h00, \h25, \hfd), Immediate(Asm("adc", "imm"), \h15)),
      Case(\h69, 2, 2, With(\h45, \h00, \h00, \h2d, \hfd), Immediate(Asm("adc", "imm"), \h38))>>,
    <<Case(\h6a, 1, 2, With(\h81, \h00, \h00, \h25, \hfd), Alone(Asm("ror", "none")))>>,
    <<Case(\h6b, 2, 2, With(\ha5, \h00, \h00, \h25, \hfd), Immediate(Asm("arr", "imm"), \h6e))>>>>

Opcodes6C ==
  <<<<Case(\h6c, 3, 5, Regs(\h42, \h00, \h00), JumpIndirect(Asm("jmp", "ind"))),
      Case(\h6c, 3, 5, Regs(\h42, \h00, \h00), JumpIndirectWrapped(Asm("jmp", "ind")))>>,
    <<Case(\h6d, 3, 4, With(\h45, \h00, \h00, \h25, \hfd), Absolute(Asm("adc", "abs"), \h15))>>,
    <<Case(\h6e, 3, 6, With(\h81, \h00, \h00, \h25, \hfd), Absolute(Asm("ror", "abs"), \h81))>>,
    <<Case(\h6f, 3, 6, With(\ha5, \h00, \h00, \h25, \hfd), Absolute(Asm("rra", "abs"), \h81))>>>>

Opcodes70 ==
  <<<<Case(\h70, 2, 2, Regs(\h42, \h00, \h00), NotTaken(Asm("bvs", "rel"))),
      Case(\h70, 2, 3, With(\h42, \h00, \h00, \h64, \hfd), TakenNear(Asm("bvs", "rel"))),
      Case(\h70, 2, 4, With(\h42, \h00, \h00, \h64, \hfd), TakenFar(Asm("bvs", "rel")))>>,
    <<Case(\h71, 2, 5, With(\h45, \h00, \h10, \h25, \hfd), PointerNear(Asm("adc", "izy"), \h15)),
      Case(\h71, 2, 6, With(\h45, \h00, \h20, \h25, \hfd), PointerFar(Asm("adc", "izy"), \h15))>>,
    <<Case(\h72, 1, 5, Regs(\h42, \h00, \h00), Alone(Opcode(\h72)))>>,
    <<Case(\h73, 2, 8, With(\ha5, \h00, \h10, \h25, \hfd), PointerNear(Asm("rra", "izy"), \h81)),
      Case(\h73, 2, 8, Regs(\ha5, \h00, \h20), PointerFar(Asm("rra", "izy"), \h7f))>>>>

Opcodes74 ==
  <<<<Case(\h74, 2, 4, Regs(\h42, \h10, \h00), ZeroPageIndexed(Opcode(\h74), \h87))>>,
    <<Case(\h75, 2, 4, With(\h45, \h10, \h00, \h25, \hfd), ZeroPageIndexed(Asm("adc", "zpx"), \h15))>>,
    <<Case(\h76, 2, 6, With(\h81, \h10, \h00, \h25, \hfd), ZeroPageIndexed(Asm("ror", "zpx"), \h81))>>,
    <<Case(\h77, 2, 6, With(\ha5, \h10, \h00, \h25, \hfd), ZeroPageIndexed(Asm("rra", "zpx"), \h81))>>>>

Opcodes78 ==
  <<<<Case(\h78, 1, 2, Regs(\h42, \h00, \h00), Alone(Asm("sei", "none")))>>,
    <<Case(\h79, 3, 4, With(\h45, \h00, \h10, \h25, \hfd), Near(Asm("adc", "aby"), \h15)),
      Case(\h79, 3, 5, With(\h45, \h00, \h20, \h25, \hfd), Far(Asm("adc", "aby"), \h15))>>,
    <<Case(\h7a, 1, 2, Regs(\h42, \h00, \h00), Alone(Opcode(\h7a)))>>,
    <<Case(\h7b, 3, 7, With(\ha5, \h00, \h10, \h25, \hfd), Near(Asm("rra", "aby"), \h81)),
      Case(\h7b, 3, 7, Regs(\ha5, \h00, \h20), Far(Asm("rra", "aby"), \h7f))>>>>

Opcodes7C ==
  <<<<Case(\h7c, 3, 4, Regs(\h42, \h10, \h00), Near(Opcode(\h7c), \h87)),
      Case(\h7c, 3, 5, Regs(\h42, \h20, \h00), Far(Opcode(\h7c), \h87))>>,
    <<Case(\h7d, 3, 4, With(\h45, \h10, \h00, \h25, \hfd), Near(Asm("adc", "abx"), \h15)),
      Case(\h7d, 3, 5, With(\h45, \h20, \h00, \h25, \hfd), Far(Asm("adc", "abx"), \h15))>>,
    <<Case(\h7e, 3, 7, With(\h81, \h10, \h00, \h25, \hfd), Near(Asm("ror", "abx"), \h81)),
      Case(\h7e, 3, 7, Regs(\h81, \h20, \h00), Far(Asm("ror", "abx"), \h7f))>>,
    <<Case(\h7f, 3, 7, With(\ha5, \h10, \h00, \h25, \hfd), Near(Asm("rra", "abx"), \h81)),
      Case(\h7f, 3, 7, Regs(\ha5, \h20, \h00), Far(Asm("rra", "abx"), \h7f))>>>>

Opcodes80 ==
  <<<<Case(\h80, 2, 2, Regs(\h42, \h00, \h00), Immediate(Opcode(\h80), \h7f))>>,
    <<Case(\h81, 2, 6, Regs(\h5a, \h10, \h00), PointerX(Asm("sta", "izx"), Unset))>>,
    <<Case(\h82, 2, 2, Regs(\h42, \h00, \h00), Immediate(Opcode(\h82), \h7f))>>,
    <<Case(\h83, 2, 6, With(\hf3, \h10, \h00, \h24, \h9a), PointerX(Asm("sax", "izx"), Unset))>>>>

Opcodes84 ==
  <<<<Case(\h84, 2, 3, Regs(\h42, \h00, \h7e), ZeroPage(Asm("sty", "zp"), Unset))>>,
    <<Case(\h85, 2, 3, Regs(\h5a, \h00, \h00), ZeroPage(Asm("sta", "zp"), Unset))>>,
    <<Case(\h86, 2, 3, Regs(\h42, \h3c, \h00), ZeroPage(Asm("stx", "zp"), Unset))>>,
    <<Case(\h87, 2, 3, With(\hf3, \hcc, \h00, \h24, \h9a), ZeroPage(Asm("sax", "zp"), Unset))>>>>

Opcodes88 ==
  <<<<Case(\h88, 1, 2, Regs(\h42, \h00, \h00), Alone(Asm("dey", "none")))>>,
    <<Case(\h89, 2, 2, Regs(\h42, \h00, \h00), Immediate(Opcode(\h89), \h7f))>>,
    <<Case(\h8a, 1, 2, Regs(\h42, \h7c, \h00), Alone(Asm("txa", "none")))>>,
    <<Case(\h8b, 2, 2, Regs(\ha5, \h00, \h00), Immediate(Asm("xaa", "imm"), \hee))>>>>

Opcodes8C ==
  <<<<Case(\h8c, 3, 4, Regs(\h42, \h00, \h7e), Absolute(Asm("sty", "abs"), Unset))>>,
    <<Case(\h8d, 3, 4, Regs(\h5a, \h00, \h00), Absolute(Asm("sta", "abs"), Unset))>>,
    <<Case(\h8e, 3, 4, Regs(\h42, \h3c, \h00), Absolute(Asm("stx", "abs"), Unset))>>,
    <<Case(\h8f, 3, 4, With(\hf3, \hcc, \h00, \h24, \h9a), Absolute(Asm("sax", "abs"), Unset))>>>>

Opcodes90 ==
  <<<<Case(\h90, 2, 2, With(\h42, \h00, \h00, \h25, \hfd), NotTaken(Asm("bcc", "rel"))),
      Case(\h90, 2, 3, Regs(\h42, \h00, \h00), TakenNear(Asm("bcc", "rel"))),
      Case(\h90, 2, 4, Regs(\h42, \h00, \h00), TakenFar(Asm("bcc", "rel")))>>,
    <<Case(\h91, 2, 6, Regs(\h5a, \h00, \h10), PointerNear(Asm("sta", "izy"), Unset)),
      Case(\h91, 2, 6, Regs(\h5a, \h00, \h20), PointerFar(Asm("sta", "izy"), Unset))>>,
    <<Case(\h92, 1, 5, Regs(\h42, \h00, \h00), Alone(Opcode(\h92)))>>,
    <<Case(\h93, 2, 6, With(\hf3, \hcc, \h10, \h24, \h9a), PointerFar(Asm("ahx", "izy"), Unset)),
      Case(\h93, 2, 6, With(\hf3, \hcc, \h10, \h24, \h9a), PointerNear(Asm("ahx", "izy"), Unset))>>>>

Opcodes94 ==
  <<<<Case(\h94, 2, 4, Regs(\h42, \h10, \h7e), ZeroPageIndexed(Asm("sty", "zpx"), Unset))>>,
    <<Case(\h95, 2, 4, Regs(\h5a, \h10, \h00), ZeroPageIndexed(Asm("sta", "zpx"), Unset))>>,
    <<Case(\h96, 2, 4, Regs(\h42, \h3c, \h10), ZeroPageIndexed(Asm("stx", "zpy"), Unset))>>,
    <<Case(\h97, 2, 4, With(\hf3, \hcc, \h10, \h24, \h9a), ZeroPageIndexed(Asm("sax", "zpy"), Unset))>>>>

Opcodes98 ==
  <<<<Case(\h98, 1, 2, Regs(\h42, \h00, \h6d), Alone(Asm("tya", "none")))>>,
    <<Case(\h99, 3, 5, Regs(\h5a, \h00, \h10), Near(Asm("sta", "aby"), Unset)),
      Case(\h99, 3, 5, Regs(\h5a, \h00, \h20), Far(Asm("sta", "aby"), Unset))>>,
    <<Case(\h9a, 1, 2, Regs(\h42, \h7c, \h00), Alone(Asm("txs", "none")))>>,
    <<Case(\h9b, 3, 5, With(\hf3, \hcc, \h10, \h24, \h9a), Far(Asm("tas", "aby"), Unset)),
      Case(\h9b, 3, 5, With(\hf3, \hcc, \h10, \h24, \h9a), Near(Asm("tas", "aby"), Unset))>>>>

Opcodes9C ==
  <<<<Case(\h9c, 3, 5, Regs(\h42, \h10, \hcf), Far(Asm("shy", "abx"), Unset)),
      Case(\h9c, 3, 5, Regs(\h42, \h10, \hcf), Near(Asm("shy", "abx"), Unset))>>,
    <<Case(\h9d, 3, 5, Regs(\h5a, \h10, \h00), Near(Asm("sta", "abx"), Unset)),
      Case(\h9d, 3, 5, Regs(\h5a, \h20, \h00), Far(Asm("sta", "abx"), Unset))>>,
    <<Case(\h9e, 3, 5, Regs(\h42, \hcf, \h10), Far(Asm("shx", "aby"), Unset)),
      Case(\h9e, 3, 5, Regs(\h42, \hcf, \h10), Near(Asm("shx", "aby"), Unset))>>,
    <<Case(\h9f, 3, 5, With(\hf3, \hcc, \h10, \h24, \h9a), Far(Asm("ahx", "aby"), Unset)),
      Case(\h9f, 3, 5, With(\hf3, \hcc, \h10, \h24, \h9a), Near(Asm("ahx", "aby"), Unset))>>>>

OpcodesA0 ==
  <<<<Case(\ha0, 2, 2, Regs(\h42, \h00, \h00), Immediate(Asm("ldy", "imm"), \h6d))>>,
    <<Case(\ha1, 2, 6, Regs(\h42, \h10, \h00), PointerX(Asm("lda", "izx"), \h8e))>>,
    <<Case(\ha2, 2, 2, Regs(\h42, \h00, \h00), Immediate(Asm("ldx", "imm"), \h7c))>>,
    <<Case(\ha3, 2, 6, Regs(\h42, \h10, \h00), PointerX(Asm("lax", "izx"), \h8e))>>>>

OpcodesA4 ==
  <<<<Case(\ha4, 2, 3, Regs(\h42, \h00, \h00), ZeroPage(Asm("ldy", "zp"), \h8e))>>,
    <<Case(\ha5, 2, 3, Regs(\h42, \h00, \h00), ZeroPage(Asm("lda", "zp"), \h8e))>>,
    <<Case(\ha6, 2, 3, Regs(\h42, \h00, \h00), ZeroPage(Asm("ldx", "zp"), \h8e))>>,
    <<Case(\ha7, 2, 3, Regs(\h42, \h00, \h00), ZeroPage(Asm("lax", "zp"), \h8e))>>>>

OpcodesA8 ==
  <<<<Case(\ha8, 1, 2, Regs(\h8e, \h00, \h00), Alone(Asm("tay", "none")))>>,
    <<Case(\ha9, 2, 2, Regs(\h42, \h00, \h00), Immediate(Asm("lda", "imm"), \h8e))>>,
    <<Case(\haa, 1, 2, Regs(\h8e, \h00, \h00), Alone(Asm("tax", "none")))>>,
    <<Case(\hab, 2, 2, Regs(\ha5, \h00, \h00), Immediate(Asm("lxa", "imm"), \hf3))>>>>

OpcodesAC ==
  <<<<Case(\hac, 3, 4, Regs(\h42, \h00, \h00), Absolute(Asm("ldy", "abs"), \h8e))>>,
    <<Case(\had, 3, 4, Regs(\h42, \h00, \h00), Absolute(Asm("lda", "abs"), \h8e))>>,
    <<Case(\hae, 3, 4, Regs(\h42, \h00, \h00), Absolute(Asm("ldx", "abs"), \h8e))>>,
    <<Case(\haf, 3, 4, Regs(\h42, \h00, \h00), Absolute(Asm("lax", "abs"), \h8e))>>>>

OpcodesB0 ==
  <<<<Case(\hb0, 2, 2, Regs(\h42, \h00, \h00), NotTaken(Asm("bcs", "rel"))),
      Case(\hb0, 2, 3, With(\h42, \h00, \h00, \h25, \hfd), TakenNear(Asm("bcs", "rel"))),
      Case(\hb0, 2, 4, With(\h42, \h00, \h00, \h25, \hfd), TakenFar(Asm("bcs", "rel")))>>,
    <<Case(\hb1, 2, 5, Regs(\h42, \h00, \h10), PointerNear(Asm("lda", "izy"), \h8e)),
      Case(\hb1, 2, 6, Regs(\h42, \h00, \h20), PointerFar(Asm("lda", "izy"), \h8e))>>,
    <<Case(\hb2, 1, 5, Regs(\h42, \h00, \h00), Alone(Opcode(\hb2)))>>,
    <<Case(\hb3, 2, 5, Regs(\h42, \h00, \h10), PointerNear(Asm("lax", "izy"), \h8e)),
      Case(\hb3, 2, 6, Regs(\h42, \h00, \h20), PointerFar(Asm("lax", "izy"), \h8e))>>>>

OpcodesB4 ==
  <<<<Case(\hb4, 2, 4, Regs(\h42, \h10, \h00), ZeroPageIndexed(Asm("ldy", "zpx"), \h8e))>>,
    <<Case(\hb5, 2, 4, Regs(\h42, \h10, \h00), ZeroPageIndexed(Asm("lda", "zpx"), \h8e))>>,
    <<Case(\hb6, 2, 4, Regs(\h42, \h00, \h10), ZeroPageIndexed(Asm("ldx", "zpy"), \h8e))>>,
    <<Case(\hb7, 2, 4, Regs(\h42, \h00, \h10), ZeroPageIndexed(Asm("lax", "zpy"), \h8e))>>>>

OpcodesB8 ==
  <<<<Case(\hb8, 1, 2, Regs(\h42, \h00, \h00), Alone(Asm("clv", "none")))>>,
    <<Case(\hb9, 3, 4, Regs(\h42, \h00, \h10), Near(Asm("lda", "aby"), \h8e)),
      Case(\hb9, 3, 5, Regs(\h42, \h00, \h20), Far(Asm("lda", "aby"), \h8e))>>,
    <<Case(\hba, 1, 2, With(\h42, \h00, \h00, \h24, \h7b), Alone(Asm("tsx", "none")))>>,
    <<Case(\hbb, 3, 4, With(\h42, \h00, \h10, \h24, \hf3), Near(Asm("las", "aby"), \h8e)),
      Case(\hbb, 3, 5, With(\h42, \h00, \h20, \h24, \hf3), Far(Asm("las", "aby"), \h8e))>>>>

OpcodesBC ==
  <<<<Case(\hbc, 3, 4, Regs(\h42, \h10, \h00), Near(Asm("ldy", "abx"), \h8e)),
      Case(\hbc, 3, 5, Regs(\h42, \h20, \h00), Far(Asm("ldy", "abx"), \h8e))>>,
    <<Case(\hbd, 3, 4, Regs(\h42, \h10, \h00), Near(Asm("lda", "abx"), \h8e)),
      Case(\hbd, 3, 5, Regs(\h42, \h20, \h00), Far(Asm("lda", "abx"), \h8e))>>,
    <<Case(\hbe, 3, 4, Regs(\h42, \h00, \h10), Near(Asm("ldx", "aby"), \h8e)),
      Case(\hbe, 3, 5, Regs(\h42, \h00, \h20), Far(Asm("ldx", "aby"), \h8e))>>,
    <<Case(\hbf, 3, 4, Regs(\h42, \h00, \h10), Near(Asm("lax", "aby"), \h8e)),
      Case(\hbf, 3, 5, Regs(\h42, \h00, \h20), Far(Asm("lax", "aby"), \h8e))>>>>

OpcodesC0 ==
  <<<<Case(\hc0, 2, 2, Regs(\h42, \h00, \h00), Immediate(Asm("cpy", "imm"), \h30))>>,
    <<Case(\hc1, 2, 6, Regs(\ha5, \h10, \h00), PointerX(Asm("cmp", "izx"), \h87))>>,
    <<Case(\hc2, 2, 2, Regs(\h42, \h00, \h00), Immediate(Opcode(\hc2), \h7f))>>,
    <<Case(\hc3, 2, 8, Regs(\ha5, \h10, \h00), PointerX(Asm("dcp", "izx"), \h80))>>>>

OpcodesC4 ==
  <<<<Case(\hc4, 2, 3, Regs(\h42, \h00, \h00), ZeroPage(Asm("cpy", "zp"), \h87))>>,
    <<Case(\hc5, 2, 3, Regs(\ha5, \h00, \h00), ZeroPage(Asm("cmp", "zp"), \h87))>>,
    <<Case(\hc6, 2, 5, Regs(\h42, \h00, \h00), ZeroPage(Asm("dec", "zp"), \h80))>>,
    <<Case(\hc7, 2, 5, Regs(\ha5, \h00, \h00), ZeroPage(Asm("dcp", "zp"), \h80))>>>>

OpcodesC8 ==
  <<<<Case(\hc8, 1, 2, Regs(\h42, \h00, \h00), Alone(Asm("iny", "none")))>>,
    <<Case(\hc9, 2, 2, Regs(\ha5, \h00, \h00), Immediate(Asm("cmp", "imm"), \h40))>>,
    <<Case(\hca, 1, 2, Regs(\h42, \h00, \h00), Alone(Asm("dex", "none")))>>,
    <<Case(\hcb, 2, 2, Regs(\ha5, \h00, \h00), Immediate(Asm("axs", "imm"), \h33))>>>>

OpcodesCC ==
  <<<<Case(\hcc, 3, 4, Regs(\h42, \h00, \h00), Absolute(Asm("cpy", "abs"), \h87))>>,
    <<Case(\hcd, 3, 4, Regs(\ha5, \h00, \h00), Absolute(Asm("cmp", "abs"), \h87))>>,
    <<Case(\hce, 3, 6, Regs(\h42, \h00, \h00), Absolute(Asm("dec", "abs"), \h80))>>,
    <<Case(\hcf, 3, 6, Regs(\ha5, \h00, \h00), Absolute(Asm("dcp", "abs"), \h80))>>>>

OpcodesD0 ==
  <<<<Case(\hd0, 2, 2, With(\h42, \h00, \h00, \h26, \hfd), NotTaken(Asm("bne", "rel"))),
      Case(\hd0, 2, 3, Regs(\h42, \h00, \h00), TakenNear(Asm("bne", "rel"))),
      Case(\hd0, 2, 4, Regs(\h42, \h00, \h00), TakenFar(Asm("bne", "rel")))>>,
    <<Case(\hd1, 2, 5, Regs(\ha5, \h00, \h10), PointerNear(Asm("cmp", "izy"), \h87)),
      Case(\hd1, 2, 6, Regs(\ha5, \h00, \h20), PointerFar(Asm("cmp", "izy"), \h87))>>,
    <<Case(\hd2, 1, 5, Regs(\h42, \h00, \h00), Alone(Opcode(\hd2)))>>,
    <<Case(\hd3, 2, 8, Regs(\ha5, \h00, \h10), PointerNear(Asm("dcp", "izy"), \h80)),
      Case(\hd3, 2, 8, Regs(\ha5, \h00, \h20), PointerFar(Asm("dcp", "izy"), \h80))>>>>

OpcodesD4 ==
  <<<<Case(\hd4, 2, 4, Regs(\h42, \h10, \h00), ZeroPageIndexed(Opcode(\hd4), \h87))>>,
    <<Case(\hd5, 2, 4, Regs(\ha5, \h10, \h00), ZeroPageIndexed(Asm("cmp", "zpx"), \h87))>>,
    <<Case(\hd6, 2, 6, Regs(\h42, \h10, \h00), ZeroPageIndexed(Asm("dec", "zpx"), \h80))>>,
    <<Case(\hd7, 2, 6, Regs(\ha5, \h10, \h00), ZeroPageIndexed(Asm("dcp", "zpx"), \h80))>>>>

OpcodesD8 ==
  <<<<Case(\hd8, 1, 2, Regs(\h42, \h00, \h00), Alone(Asm("cld", "none")))>>,
    <<Case(\hd9, 3, 4, Regs(\ha5, \h00, \h10), Near(Asm("cmp", "aby"), \h87)),
      Case(\hd9, 3, 5, Regs(\ha5, \h00, \h20), Far(Asm("cmp", "aby"), \h87))>>,
    <<Case(\hda, 1, 2, Regs(\h42, \h00, \h00), Alone(Opcode(\hda)))>>,
    <<Case(\hdb, 3, 7, Regs(\ha5, \h00, \h10), Near(Asm("dcp", "aby"), \h80)),
      Case(\hdb, 3, 7, Regs(\ha5, \h00, \h20), Far(Asm("dcp", "aby"), \h80))>>>>

OpcodesDC ==
  <<<<Case(\hdc, 3, 4, Regs(\h42, \h10, \h00), Near(Opcode(\hdc), \h87)),
      Case(\hdc, 3, 5, Regs(\h42, \h20, \h00), Far(Opcode(\hdc), \h87))>>,
    <<Case(\hdd, 3, 4, Regs(\ha5, \h10, \h00), Near(Asm("cmp", "abx"), \h87)),
      Case(\hdd, 3, 5, Regs(\ha5, \h20, \h00), Far(Asm("cmp", "abx"), \h87))>>,
    <<Case(\hde, 3, 7, Regs(\h42, \h10, \h00), Near(Asm("dec", "abx"), \h80)),
      Case(\hde, 3, 7, Regs(\h42, \h20, \h00), Far(Asm("dec", "abx"), \h80))>>,
    <<Case(\hdf, 3, 7, Regs(\ha5, \h10, \h00), Near(Asm("dcp", "abx"), \h80)),
      Case(\hdf, 3, 7, Regs(\ha5, \h20, \h00), Far(Asm("dcp", "abx"), \h80))>>>>

OpcodesE0 ==
  <<<<Case(\he0, 2, 2, Regs(\h42, \h00, \h00), Immediate(Asm("cpx", "imm"), \h30))>>,
    <<Case(\he1, 2, 6, With(\h45, \h10, \h00, \h25, \hfd), PointerX(Asm("sbc", "izx"), \h15))>>,
    <<Case(\he2, 2, 2, Regs(\h42, \h00, \h00), Immediate(Opcode(\he2), \h7f))>>,
    <<Case(\he3, 2, 8, With(\ha5, \h10, \h00, \h25, \hfd), PointerX(Asm("isc", "izx"), \h7f))>>>>

OpcodesE4 ==
  <<<<Case(\he4, 2, 3, Regs(\h42, \h00, \h00), ZeroPage(Asm("cpx", "zp"), \h87))>>,
    <<Case(\he5, 2, 3, With(\h45, \h00, \h00, \h25, \hfd), ZeroPage(Asm("sbc", "zp"), \h15))>>,
    <<Case(\he6, 2, 5, Regs(\h42, \h00, \h00), ZeroPage(Asm("inc", "zp"), \h7f))>>,
    <<Case(\he7, 2, 5, With(\ha5, \h00, \h00, \h25, \hfd), ZeroPage(Asm("isc", "zp"), \h7f))>>>>

OpcodesE8 ==
  <<<<Case(\he8, 1, 2, Regs(\h42, \h00, \h00), Alone(Asm("inx", "none")))>>,
    <<Case(\he9, 2, 2, With(\h45, \h00, \h00, \h25, \hfd), Immediate(Asm("sbc", "imm"), \h12)),
      Case(\he9, 2, 2, With(\h45, \h00, \h00, \h2d, \hfd), Immediate(Asm("sbc", "imm"), \h12))>>,
    <<Case(\hea, 1, 2, Regs(\h42, \h00, \h00), Alone(Asm("nop", "none")))>>,
    <<Case(\heb, 2, 2, With(\h45, \h00, \h00, \h25, \hfd), Immediate(Opcode(\heb), \h12)),
      Case(\heb, 2, 2, With(\h45, \h00, \h00, \h2d, \hfd), Immediate(Opcode(\heb), \h12))>>>>

OpcodesEC ==
  <<<<Case(\hec, 3, 4, Regs(\h42, \h00, \h00), Absolute(Asm("cpx", "abs"), \h87))>>,
    <<Case(\hed, 3, 4, With(\h45, \h00, \h00, \h25, \hfd), Absolute(Asm("sbc", "abs"), \h15))>>,
    <<Case(\hee, 3, 6, Regs(\h42, \h00, \h00), Absolute(Asm("inc", "abs"), \h7f))>>,
    <<Case(\hef, 3, 6, With(\ha5, \h00, \h00, \h25, \hfd), Absolute(Asm("isc", "abs"), \h7f))>>>>

OpcodesF0 ==
  <<<<Case(\hf0, 2, 2, Regs(\h42, \h00, \h00), NotTaken(Asm("beq", "rel"))),
      Case(\hf0, 2, 3, With(\h42, \h00, \h00, \h26, \hfd), TakenNear(Asm("beq", "rel"))),
      Case(\hf0, 2, 4, With(\h42, \h00, \h00, \h26, \hfd), TakenFar(Asm("beq", "rel")))>>,
    <<Case(\hf1, 2, 5, With(\h45, \h00, \h10, \h25, \hfd), PointerNear(Asm("sbc", "izy"), \h15)),
      Case(\hf1, 2, 6, With(\h45, \h00, \h20, \h25, \hfd), PointerFar(Asm("sbc", "izy"), \h15))>>,
    <<Case(\hf2, 1, 5, Regs(\h42, \h00, \h00), Alone(Opcode(\hf2)))>>,
    <<Case(\hf3, 2, 8, With(\ha5, \h00, \h10, \h25, \hfd), PointerNear(Asm("isc", "izy"), \h7f)),
      Case(\hf3, 2, 8, Regs(\ha5, \h00, \h20), PointerFar(Asm("isc", "izy"), \h7f))>>>>

OpcodesF4 ==
  <<<<Case(\hf4, 2, 4, Regs(\h42, \h10, \h00), ZeroPageIndexed(Opcode(\hf4), \h87))>>,
    <<Case(\hf5, 2, 4, With(\h45, \h10, \h00, \h25, \hfd), ZeroPageIndexed(Asm("sbc", "zpx"), \h15))>>,
    <<Case(\hf6, 2, 6, Regs(\h42, \h10, \h00), ZeroPageIndexed(Asm("inc", "zpx"), \h7f))>>,
    <<Case(\hf7, 2, 6, With(\ha5, \h10, \h00, \h25, \hfd), ZeroPageIndexed(Asm("isc", "zpx"), \h7f))>>>>

OpcodesF8 ==
  <<<<Case(\hf8, 1, 2, Regs(\h42, \h00, \h00), Alone(Asm("sed", "none")))>>,
    <<Case(\hf9, 3, 4, With(\h45, \h00, \h10, \h25, \hfd), Near(Asm("sbc", "aby"), \h15)),
      Case(\hf9, 3, 5, With(\h45, \h00, \h20, \h25, \hfd), Far(Asm("sbc", "aby"), \h15))>>,
    <<Case(\hfa, 1, 2, Regs(\h42, \h00, \h00), Alone(Opcode(\hfa)))>>,
    <<Case(\hfb, 3, 7, With(\ha5, \h00, \h10, \h25, \hfd), Near(Asm("isc", "aby"), \h7f)),
      Case(\hfb, 3, 7, Regs(\ha5, \h00, \h20), Far(Asm("isc", "aby"), \h7f))>>>>

OpcodesFC ==
  <<<<Case(\hfc, 3, 4, Regs(\h42, \h10, \h00), Near(Opcode(\hfc), \h87)),
      Case(\hfc, 3, 5, Regs(\h42, \h20, \h00), Far(Opcode(\hfc), \h87))>>,
    <<Case(\hfd, 3, 4, With(\h45, \h10, \h00, \h25, \hfd), Near(Asm("sbc", "abx"), \h15)),
      Case(\hfd, 3, 5, With(\h45, \h20, \h00, \h25, \hfd), Far(Asm("sbc", "abx"), \h15))>>,
    <<Case(\hfe, 3, 7, Regs(\h42, \h10, \h00), Near(Asm("inc", "abx"), \h7f)),
      Case(\hfe, 3, 7, Regs(\h42, \h20, \h00), Far(Asm("inc", "abx"), \h7f))>>,
    <<Case(\hff, 3, 7, With(\ha5, \h10, \h00, \h25, \hfd), Near(Asm("isc", "abx"), \h7f)),
      Case(\hff, 3, 7, Regs(\ha5, \h20, \h00), Far(Asm("isc", "abx"), \h7f))>>>>

Testcases ==
  Opcodes00 \o Opcodes04 \o Opcodes08 \o Opcodes0C \o Opcodes10 \o Opcodes14
    \o Opcodes18 \o Opcodes1C \o Opcodes20 \o Opcodes24 \o Opcodes28 \o Opcodes2C
    \o Opcodes30 \o Opcodes34 \o Opcodes38 \o Opcodes3C \o Opcodes40 \o Opcodes44
    \o Opcodes48 \o Opcodes4C \o Opcodes50 \o Opcodes54 \o Opcodes58 \o Opcodes5C
    \o Opcodes60 \o Opcodes64 \o Opcodes68 \o Opcodes6C \o Opcodes70 \o Opcodes74
    \o Opcodes78 \o Opcodes7C \o Opcodes80 \o Opcodes84 \o Opcodes88 \o Opcodes8C
    \o Opcodes90 \o Opcodes94 \o Opcodes98 \o Opcodes9C \o OpcodesA0 \o OpcodesA4
    \o OpcodesA8 \o OpcodesAC \o OpcodesB0 \o OpcodesB4 \o OpcodesB8 \o OpcodesBC
    \o OpcodesC0 \o OpcodesC4 \o OpcodesC8 \o OpcodesCC \o OpcodesD0 \o OpcodesD4
    \o OpcodesD8 \o OpcodesDC \o OpcodesE0 \o OpcodesE4 \o OpcodesE8 \o OpcodesEC
    \o OpcodesF0 \o OpcodesF4 \o OpcodesF8 \o OpcodesFC
=============================================================================
