------------------------------- MODULE Mnemonics -------------------------------
(***************************************************************************)
(* Bytes, addresses, registers, and what each mnemonic does with its operand. *)
(*                                                                         *)
(* A byte has B values (256 in the code; small ones keep every wrap-around    *)
(* and page crossing).  Page 0 is the zero page, page 1 the stack, the last    *)
(* six addresses the vectors.  Of P the three bits that a stack frame or a     *)
(* row depends on are kept; the other flags are Accumulator's subject, and so is *)
(* what decimal and carrying arithmetic leaves in the accumulator, a parameter   *)
(* here.                                                                     *)
(***************************************************************************)
EXTENDS Integers

CONSTANTS
  B,
  Alu(_, _, _, _)   \* what ADC, SBC, ARR and the rotations make of A, an operand and P: a byte

ASSUME BaseAssumption == B \in {8, 16, 32, 64, 128, 256}

ALU == INSTANCE Arithmetic

ModelNames == <<"nmos", "nes", "wdc", "rw", "st">>
Cmos(m) == m \in {"wdc", "rw", "st"}

\* What an opcode byte stands for: the class of its row, its addressing mode, its
\* mnemonic, and the weight of the bit it names.
BitInstruction(kind, mode, mn, w) == [kind |-> kind, mode |-> mode, mn |-> mn, w |-> w]
Instruction(kind, mode, mn) == BitInstruction(kind, mode, mn, 0)

Bytes == 0 .. B - 1
Addresses == 0 .. B * B - 1

\* The functions that Alu stands for return a uint8_t.
ASSUME AluAssumption ==
  \A mn \in {"adc", "sbc", "arr", "rol", "ror"}, a \in Bytes, v \in Bytes, p \in Bytes :
    Alu(mn, a, v, p) \in Bytes

Lo(addr) == addr % B
Hi(addr) == addr \div B
Word(hi, lo) == hi * B + lo
Wrap(addr) == addr % (B * B)
Next8(byte) == (byte + 1) % B

\* (int8_t)byte
Signed(byte) == IF byte >= B \div 2 THEN byte - B ELSE byte

StackAddress(s) == Word(1, s)
NmiVector == B * B - 6
ResetVector == B * B - 4
IrqVector == B * B - 2

-----------------------------------------------------------------------------
(* Status bits by their weight, and P as the stack sees it. *)

IFlag == 1
BFlag == 2
DFlag == 4

FlagOn(p, f) == IF ALU!Bit(p, f) THEN p ELSE p + f
FlagOff(p, f) == IF ALU!Bit(p, f) THEN p - f ELSE p

\* stack_status(cpu->P, flag_B) and stack_status(cpu->P, 0).
PushedWithBreak(p) == FlagOn(p, BFlag)
PushedByService(p) == FlagOff(p, BFlag)

\* The NES family's arithmetic is that of the others without decimal mode.
BinaryVariant ==
  [nes_adc |-> "adc", nes_sbc |-> "sbc", nes_arr |-> "arr", nes_rra |-> "rra", nes_isc |-> "isc"]
DecimalMode(mn, p) == IF mn \in DOMAIN BinaryVariant THEN FlagOff(p, DFlag) ELSE p
-----------------------------------------------------------------------------
(* Mnemonics by the operator below that knows them. *)

Loads ==
  {"lda", "pla", "ldx", "plx", "ldy", "ply", "lax", "las", "and", "anc", "ora", "eor", "alr", "axs",
   "xaa", "lxa", "adc", "nes_adc", "sbc", "nes_sbc", "arr", "nes_arr", "plp", "cmp", "cpx", "cpy",
   "bit", "nop"}
Stores == {"sta", "stx", "sty", "stz", "sax"}
Pushes == {"pha", "phx", "phy", "php"}
Shifts == {"asl", "lsr", "rol", "ror"}
Modifies ==
  Shifts \cup {"inc", "isc", "nes_isc", "rla", "rra", "nes_rra", "dec", "dcp", "slo", "sre", "tsb", "trb"}
BitModifies == {"rmb", "smb"}
Implieds ==
  Shifts \cup {"tax", "tay", "tsx", "txa", "txs", "tya", "inx", "iny", "dex", "dey", "ina", "dea", "cli",
              "sei", "cld", "sed", "nop", "clc", "sec", "clv"}
UnstableStores == {"ahx", "shx", "shy", "tas"}
-----------------------------------------------------------------------------
(***************************************************************************)
(* Mnemonics, on a record r with at least the fields s, a, x, y, p.          *)
(***************************************************************************)
\* Those that read an operand v.  Comparisons, BIT and NOP only touch flags.
Loaded(mn, r, v) ==
  CASE mn \in {"lda", "pla"} -> [r EXCEPT !.a = v]
    [] mn \in {"ldx", "plx"} -> [r EXCEPT !.x = v]
    [] mn \in {"ldy", "ply"} -> [r EXCEPT !.y = v]
    [] mn = "lax" -> [r EXCEPT !.a = v, !.x = v]
    [] mn = "las" -> LET m == ALU!And(v, r.s) IN [r EXCEPT !.a = m, !.x = m, !.s = m]
    [] mn \in {"and", "anc"} -> [r EXCEPT !.a = ALU!And(r.a, v)]
    [] mn = "ora" -> [r EXCEPT !.a = ALU!Or(r.a, v)]
    [] mn = "eor" -> [r EXCEPT !.a = ALU!Xor(r.a, v)]
    [] mn = "alr" -> [r EXCEPT !.a = ALU!And(r.a, v) \div 2]
    [] mn = "axs" -> [r EXCEPT !.x = (ALU!And(r.a, r.x) - v) % B]
    [] mn = "xaa" -> [r EXCEPT !.a = ALU!And(ALU!And(ALU!Or(r.a, 238 % B), r.x), v)]
    [] mn = "lxa" -> LET m == ALU!And(ALU!Or(r.a, 238 % B), v) IN [r EXCEPT !.a = m, !.x = m]
    [] mn \in {"adc", "nes_adc"} -> [r EXCEPT !.a = Alu("adc", r.a, v, DecimalMode(mn, r.p))]
    [] mn \in {"sbc", "nes_sbc"} -> [r EXCEPT !.a = Alu("sbc", r.a, v, DecimalMode(mn, r.p))]
    [] mn \in {"arr", "nes_arr"} -> [r EXCEPT !.a = Alu("arr", r.a, v, DecimalMode(mn, r.p))]
    [] mn = "plp" -> [r EXCEPT !.p = FlagOff(v, BFlag)]
    [] mn \in {"cmp", "cpx", "cpy", "bit", "nop"} -> r

\* What a store writes.
Stored(mn, r) ==
  CASE mn = "sta" -> r.a
    [] mn = "stx" -> r.x
    [] mn = "sty" -> r.y
    [] mn = "stz" -> 0
    [] mn = "sax" -> ALU!And(r.a, r.x)

\* What a push writes.
Pushed(mn, r) ==
  CASE mn = "pha" -> r.a
    [] mn = "phx" -> r.x
    [] mn = "phy" -> r.y
    [] mn = "php" -> PushedWithBreak(r.p)

\* What a read-modify-write instruction writes for the value v; w is the weight of the
\* bit that the opcode of RMB or SMB names.
Modified(mn, r, v, w) ==
  CASE mn \in {"inc", "isc", "nes_isc"} -> Next8(v)
    [] mn \in {"rol", "rla"} -> Alu("rol", r.a, v, r.p)
    [] mn \in {"ror", "rra", "nes_rra"} -> Alu("ror", r.a, v, r.p)
    [] mn \in {"dec", "dcp"} -> (v - 1) % B
    [] mn \in {"asl", "slo"} -> (2 * v) % B
    [] mn \in {"lsr", "sre"} -> v \div 2
    [] mn = "tsb" -> ALU!Or(v, r.a)
    [] mn = "trb" -> v - ALU!And(v, r.a)
    [] mn = "rmb" -> FlagOff(v, w)
    [] mn = "smb" -> FlagOn(v, w)

\* What it leaves in the accumulator.
Combined(mn, r, v) ==
  CASE mn = "slo" -> [r EXCEPT !.a = ALU!Or(r.a, (2 * v) % B)]
    [] mn = "sre" -> [r EXCEPT !.a = ALU!Xor(r.a, v \div 2)]
    [] mn = "rla" -> [r EXCEPT !.a = ALU!And(r.a, Alu("rol", r.a, v, r.p))]
    [] mn \in {"isc", "nes_isc"} -> [r EXCEPT !.a = Alu("sbc", r.a, Next8(v), DecimalMode(mn, r.p))]
    [] mn \in {"rra", "nes_rra"} ->
         [r EXCEPT !.a = Alu("adc", r.a, Alu("ror", r.a, v, r.p), DecimalMode(mn, r.p))]
    [] OTHER      -> r

\* Those without an operand in memory.
Implied(mn, r) ==
  CASE mn = "tax" -> [r EXCEPT !.x = r.a]
    [] mn = "tay" -> [r EXCEPT !.y = r.a]
    [] mn = "tsx" -> [r EXCEPT !.x = r.s]
    [] mn = "txa" -> [r EXCEPT !.a = r.x]
    [] mn = "txs" -> [r EXCEPT !.s = r.x]
    [] mn = "tya" -> [r EXCEPT !.a = r.y]
    [] mn = "inx" -> [r EXCEPT !.x = Next8(r.x)]
    [] mn = "iny" -> [r EXCEPT !.y = Next8(r.y)]
    [] mn = "dex" -> [r EXCEPT !.x = (r.x - 1) % B]
    [] mn = "dey" -> [r EXCEPT !.y = (r.y - 1) % B]
    [] mn = "ina" -> [r EXCEPT !.a = Next8(r.a)]
    [] mn = "dea" -> [r EXCEPT !.a = (r.a - 1) % B]
    [] mn = "asl" -> [r EXCEPT !.a = (2 * r.a) % B]
    [] mn = "lsr" -> [r EXCEPT !.a = r.a \div 2]
    [] mn \in {"rol", "ror"} -> [r EXCEPT !.a = Alu(mn, r.a, r.a, r.p)]
    [] mn = "cli" -> [r EXCEPT !.p = FlagOff(r.p, IFlag)]
    [] mn = "sei" -> [r EXCEPT !.p = FlagOn(r.p, IFlag)]
    [] mn = "cld" -> [r EXCEPT !.p = FlagOff(r.p, DFlag)]
    [] mn = "sed" -> [r EXCEPT !.p = FlagOn(r.p, DFlag)]
    [] mn \in {"nop", "clc", "sec", "clv"} -> r

\* The value an unstable store writes: a register masked by the high byte of the
\* address before indexing, plus one.
Unstable(mn, r, high) ==
  LET mask == Next8(high)
  IN  CASE mn = "ahx" -> ALU!And(ALU!And(r.a, r.x), mask)
        [] mn = "shx" -> ALU!And(r.x, mask)
        [] mn = "shy" -> ALU!And(r.y, mask)
        [] mn = "tas" -> ALU!And(ALU!And(r.a, r.x), mask)

AfterUnstable(mn, r) == IF mn = "tas" THEN [r EXCEPT !.s = ALU!And(r.a, r.x)] ELSE r
=============================================================================
