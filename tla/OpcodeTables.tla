------------------------------ MODULE OpcodeTables ------------------------------
(***************************************************************************)
(* The opcode slots of the control store: what each of the 256 opcode bytes    *)
(* stands for, one definition per sixteen, by model.  Microcode expands an      *)
(* instruction into the handlers of its slot.                                 *)
(***************************************************************************)
EXTENDS Mnemonics, Sequences

Rd(mode, mn) == Instruction("read", mode, mn)
Wr(mode, mn) == Instruction("write", mode, mn)
Rmw(mode, mn) == Instruction("rmw", mode, mn)
RmwShort(mn) == Instruction("rmw_short", "abx", mn)
Arith(mode, mn) == Instruction("arith", mode, mn)
Unst(mode, mn) == Instruction("unstable", mode, mn)
Imp(mn) == Instruction("implied", "none", mn)
Push(mn) == Instruction("push", "none", mn)
Pull(mn) == Instruction("pull", "none", mn)
Branch(mn) == Instruction("branch", "rel", mn)
Bra == Instruction("bra", "rel", "bra")
Brk == Instruction("brk", "none", "brk")
Jsr == Instruction("jsr", "abs", "jsr")
Rts == Instruction("rts", "none", "rts")
Rti == Instruction("rti", "none", "rti")
JmpAbs == Instruction("jmp_abs", "abs", "jmp")
JmpInd == Instruction("jmp_ind", "ind", "jmp")
JmpIndX == Instruction("jmp_ind_x", "inx", "jmp")
Kil == Instruction("kil", "none", "kil")
Nop(kind) == Instruction(kind, "none", "nop")
Nop1c == Nop("nop_1c")
Nop3b == Nop("nop_3b")

\* Bit k, by its weight; of a byte too narrow for it, the highest bit.
Weight(k) == IF 2^k < B THEN 2^k ELSE B \div 2
Rmb(k) == BitInstruction("rmw", "zp", "rmb", Weight(k))
Smb(k) == BitInstruction("rmw", "zp", "smb", Weight(k))
Bbr(k) == BitInstruction("bbr", "zprel", "bbr", Weight(k))
Bbs(k) == BitInstruction("bbs", "zprel", "bbs", Weight(k))
-----------------------------------------------------------------------------
(* The NMOS families. *)

NmosRow0 ==
  <<Brk, Rd("izx", "ora"), Kil, Rmw("izx", "slo"), Rd("zp", "nop"), Rd("zp", "ora"),
    Rmw("zp", "asl"), Rmw("zp", "slo"), Push("php"), Rd("imm", "ora"), Imp("asl"), Rd("imm", "anc"),
    Rd("abs", "nop"), Rd("abs", "ora"), Rmw("abs", "asl"), Rmw("abs", "slo")>>
NmosRow1 ==
  <<Branch("bpl"), Rd("izy", "ora"), Kil, Rmw("izy", "slo"), Rd("zpx", "nop"), Rd("zpx", "ora"),
    Rmw("zpx", "asl"), Rmw("zpx", "slo"), Imp("clc"), Rd("aby", "ora"), Imp("nop"),
    Rmw("aby", "slo"), Rd("abx", "nop"), Rd("abx", "ora"), Rmw("abx", "asl"), Rmw("abx", "slo")>>
NmosRow2 ==
  <<Jsr, Rd("izx", "and"), Kil, Rmw("izx", "rla"), Rd("zp", "bit"), Rd("zp", "and"),
    Rmw("zp", "rol"), Rmw("zp", "rla"), Pull("plp"), Rd("imm", "and"), Imp("rol"), Rd("imm", "anc"),
    Rd("abs", "bit"), Rd("abs", "and"), Rmw("abs", "rol"), Rmw("abs", "rla")>>
NmosRow3 ==
  <<Branch("bmi"), Rd("izy", "and"), Kil, Rmw("izy", "rla"), Rd("zpx", "nop"), Rd("zpx", "and"),
    Rmw("zpx", "rol"), Rmw("zpx", "rla"), Imp("sec"), Rd("aby", "and"), Imp("nop"),
    Rmw("aby", "rla"), Rd("abx", "nop"), Rd("abx", "and"), Rmw("abx", "rol"), Rmw("abx", "rla")>>
NmosRow4 ==
  <<Rti, Rd("izx", "eor"), Kil, Rmw("izx", "sre"), Rd("zp", "nop"), Rd("zp", "eor"),
    Rmw("zp", "lsr"), Rmw("zp", "sre"), Push("pha"), Rd("imm", "eor"), Imp("lsr"), Rd("imm", "alr"),
    JmpAbs, Rd("abs", "eor"), Rmw("abs", "lsr"), Rmw("abs", "sre")>>
NmosRow5 ==
  <<Branch("bvc"), Rd("izy", "eor"), Kil, Rmw("izy", "sre"), Rd("zpx", "nop"), Rd("zpx", "eor"),
    Rmw("zpx", "lsr"), Rmw("zpx", "sre"), Imp("cli"), Rd("aby", "eor"), Imp("nop"),
    Rmw("aby", "sre"), Rd("abx", "nop"), Rd("abx", "eor"), Rmw("abx", "lsr"), Rmw("abx", "sre")>>
NmosRow6 ==
  <<Rts, Rd("izx", "adc"), Kil, Rmw("izx", "rra"), Rd("zp", "nop"), Rd("zp", "adc"),
    Rmw("zp", "ror"), Rmw("zp", "rra"), Pull("pla"), Rd("imm", "adc"), Imp("ror"), Rd("imm", "arr"),
    JmpInd, Rd("abs", "adc"), Rmw("abs", "ror"), Rmw("abs", "rra")>>
NmosRow7 ==
  <<Branch("bvs"), Rd("izy", "adc"), Kil, Rmw("izy", "rra"), Rd("zpx", "nop"), Rd("zpx", "adc"),
    Rmw("zpx", "ror"), Rmw("zpx", "rra"), Imp("sei"), Rd("aby", "adc"), Imp("nop"),
    Rmw("aby", "rra"), Rd("abx", "nop"), Rd("abx", "adc"), Rmw("abx", "ror"), Rmw("abx", "rra")>>
NmosRow8 ==
  <<Rd("imm", "nop"), Wr("izx", "sta"), Rd("imm", "nop"), Wr("izx", "sax"), Wr("zp", "sty"),
    Wr("zp", "sta"), Wr("zp", "stx"), Wr("zp", "sax"), Imp("dey"), Rd("imm", "nop"), Imp("txa"),
    Rd("imm", "xaa"), Wr("abs", "sty"), Wr("abs", "sta"), Wr("abs", "stx"), Wr("abs", "sax")>>
NmosRow9 ==
  <<Branch("bcc"), Wr("izy", "sta"), Kil, Unst("izy", "ahx"), Wr("zpx", "sty"), Wr("zpx", "sta"),
    Wr("zpy", "stx"), Wr("zpy", "sax"), Imp("tya"), Wr("aby", "sta"), Imp("txs"),
    Unst("aby", "tas"), Unst("abx", "shy"), Wr("abx", "sta"), Unst("aby", "shx"),
    Unst("aby", "ahx")>>
NmosRowA ==
  <<Rd("imm", "ldy"), Rd("izx", "lda"), Rd("imm", "ldx"), Rd("izx", "lax"), Rd("zp", "ldy"),
    Rd("zp", "lda"), Rd("zp", "ldx"), Rd("zp", "lax"), Imp("tay"), Rd("imm", "lda"), Imp("tax"),
    Rd("imm", "lxa"), Rd("abs", "ldy"), Rd("abs", "lda"), Rd("abs", "ldx"), Rd("abs", "lax")>>
NmosRowB ==
  <<Branch("bcs"), Rd("izy", "lda"), Kil, Rd("izy", "lax"), Rd("zpx", "ldy"), Rd("zpx", "lda"),
    Rd("zpy", "ldx"), Rd("zpy", "lax"), Imp("clv"), Rd("aby", "lda"), Imp("tsx"), Rd("aby", "las"),
    Rd("abx", "ldy"), Rd("abx", "lda"), Rd("aby", "ldx"), Rd("aby", "lax")>>
NmosRowC ==
  <<Rd("imm", "cpy"), Rd("izx", "cmp"), Rd("imm", "nop"), Rmw("izx", "dcp"), Rd("zp", "cpy"),
    Rd("zp", "cmp"), Rmw("zp", "dec"), Rmw("zp", "dcp"), Imp("iny"), Rd("imm", "cmp"), Imp("dex"),
    Rd("imm", "axs"), Rd("abs", "cpy"), Rd("abs", "cmp"), Rmw("abs", "dec"), Rmw("abs", "dcp")>>
NmosRowD ==
  <<Branch("bne"), Rd("izy", "cmp"), Kil, Rmw("izy", "dcp"), Rd("zpx", "nop"), Rd("zpx", "cmp"),
    Rmw("zpx", "dec"), Rmw("zpx", "dcp"), Imp("cld"), Rd("aby", "cmp"), Imp("nop"),
    Rmw("aby", "dcp"), Rd("abx", "nop"), Rd("abx", "cmp"), Rmw("abx", "dec"), Rmw("abx", "dcp")>>
NmosRowE ==
  <<Rd("imm", "cpx"), Rd("izx", "sbc"), Rd("imm", "nop"), Rmw("izx", "isc"), Rd("zp", "cpx"),
    Rd("zp", "sbc"), Rmw("zp", "inc"), Rmw("zp", "isc"), Imp("inx"), Rd("imm", "sbc"), Imp("nop"),
    Rd("imm", "sbc"), Rd("abs", "cpx"), Rd("abs", "sbc"), Rmw("abs", "inc"), Rmw("abs", "isc")>>
NmosRowF ==
  <<Branch("beq"), Rd("izy", "sbc"), Kil, Rmw("izy", "isc"), Rd("zpx", "nop"), Rd("zpx", "sbc"),
    Rmw("zpx", "inc"), Rmw("zpx", "isc"), Imp("sed"), Rd("aby", "sbc"), Imp("nop"),
    Rmw("aby", "isc"), Rd("abx", "nop"), Rd("abx", "sbc"), Rmw("abx", "inc"), Rmw("abx", "isc")>>

NmosBlock ==
  NmosRow0 \o NmosRow1 \o NmosRow2 \o NmosRow3 \o NmosRow4 \o NmosRow5 \o NmosRow6 \o NmosRow7
    \o NmosRow8 \o NmosRow9 \o NmosRowA \o NmosRowB \o NmosRowC \o NmosRowD \o NmosRowE \o NmosRowF

\* The NES block differs in the rows of the mnemonics that do decimal arithmetic: its own
\* ignore D.
OwnName(mn) ==
  IF \E own \in DOMAIN BinaryVariant : BinaryVariant[own] = mn
    THEN CHOOSE own \in DOMAIN BinaryVariant : BinaryVariant[own] = mn
    ELSE mn
WithOwnNames(row) == [k \in 1..16 |-> [row[k] EXCEPT !.mn = OwnName(@)]]
NesRow6 == WithOwnNames(NmosRow6)
NesRow7 == WithOwnNames(NmosRow7)
NesRowE == WithOwnNames(NmosRowE)
NesRowF == WithOwnNames(NmosRowF)

NesBlock ==
  NmosRow0 \o NmosRow1 \o NmosRow2 \o NmosRow3 \o NmosRow4 \o NmosRow5 \o NesRow6 \o NesRow7
    \o NmosRow8 \o NmosRow9 \o NmosRowA \o NmosRowB \o NmosRowC \o NmosRowD \o NesRowE \o NesRowF
-----------------------------------------------------------------------------
(* The CMOS families. *)

WdcRow0 ==
  <<Brk, Rd("izx", "ora"), Rd("imm", "nop"), Nop1c, Rmw("zp", "tsb"), Rd("zp", "ora"),
    Rmw("zp", "asl"), Rmb(0), Push("php"), Rd("imm", "ora"), Imp("asl"), Nop1c, Rmw("abs", "tsb"),
    Rd("abs", "ora"), Rmw("abs", "asl"), Bbr(0)>>
WdcRow1 ==
  <<Branch("bpl"), Rd("izy", "ora"), Rd("izp", "ora"), Nop1c, Rmw("zp", "trb"), Rd("zpx", "ora"),
    Rmw("zpx", "asl"), Rmb(1), Imp("clc"), Rd("aby", "ora"), Imp("ina"), Nop1c, Rmw("abs", "trb"),
    Rd("abx", "ora"), RmwShort("asl"), Bbr(1)>>
WdcRow2 ==
  <<Jsr, Rd("izx", "and"), Rd("imm", "nop"), Nop1c, Rd("zp", "bit"), Rd("zp", "and"),
    Rmw("zp", "rol"), Rmb(2), Pull("plp"), Rd("imm", "and"), Imp("rol"), Nop1c, Rd("abs", "bit"),
    Rd("abs", "and"), Rmw("abs", "rol"), Bbr(2)>>
WdcRow3 ==
  <<Branch("bmi"), Rd("izy", "and"), Rd("izp", "and"), Nop1c, Rd("zpx", "bit"), Rd("zpx", "and"),
    Rmw("zpx", "rol"), Rmb(3), Imp("sec"), Rd("aby", "and"), Imp("dea"), Nop1c, Rd("abx", "bit"),
    Rd("abx", "and"), RmwShort("rol"), Bbr(3)>>
WdcRow4 ==
  <<Rti, Rd("izx", "eor"), Rd("imm", "nop"), Nop1c, Rd("zp", "nop"), Rd("zp", "eor"),
    Rmw("zp", "lsr"), Rmb(4), Push("pha"), Rd("imm", "eor"), Imp("lsr"), Nop1c, JmpAbs,
    Rd("abs", "eor"), Rmw("abs", "lsr"), Bbr(4)>>
WdcRow5 ==
  <<Branch("bvc"), Rd("izy", "eor"), Rd("izp", "eor"), Nop1c, Rd("zpx", "nop"), Rd("zpx", "eor"),
    Rmw("zpx", "lsr"), Rmb(5), Imp("cli"), Rd("aby", "eor"), Push("phy"), Nop1c, Nop3b,
    Rd("abx", "eor"), RmwShort("lsr"), Bbr(5)>>
WdcRow6 ==
  <<Rts, Arith("izx", "adc"), Rd("imm", "nop"), Nop1c, Wr("zp", "stz"), Arith("zp", "adc"),
    Rmw("zp", "ror"), Rmb(6), Pull("pla"), Arith("imm", "adc"), Imp("ror"), Nop1c, JmpInd,
    Arith("abs", "adc"), Rmw("abs", "ror"), Bbr(6)>>
WdcRow7 ==
  <<Branch("bvs"), Arith("izy", "adc"), Arith("izp", "adc"), Nop1c, Wr("zpx", "stz"),
    Arith("zpx", "adc"), Rmw("zpx", "ror"), Rmb(7), Imp("sei"), Arith("aby", "adc"), Pull("ply"),
    Nop1c, JmpIndX, Arith("abx", "adc"), RmwShort("ror"), Bbr(7)>>
WdcRow8 ==
  <<Bra, Wr("izx", "sta"), Rd("imm", "nop"), Nop1c, Wr("zp", "sty"), Wr("zp", "sta"),
    Wr("zp", "stx"), Smb(0), Imp("dey"), Rd("imm", "bit"), Imp("txa"), Nop1c, Wr("abs", "sty"),
    Wr("abs", "sta"), Wr("abs", "stx"), Bbs(0)>>
WdcRow9 ==
  <<Branch("bcc"), Wr("izy", "sta"), Wr("izp", "sta"), Nop1c, Wr("zpx", "sty"), Wr("zpx", "sta"),
    Wr("zpy", "stx"), Smb(1), Imp("tya"), Wr("aby", "sta"), Imp("txs"), Nop1c, Wr("abs", "stz"),
    Wr("abx", "sta"), Wr("abx", "stz"), Bbs(1)>>
WdcRowA ==
  <<Rd("imm", "ldy"), Rd("izx", "lda"), Rd("imm", "ldx"), Nop1c, Rd("zp", "ldy"), Rd("zp", "lda"),
    Rd("zp", "ldx"), Smb(2), Imp("tay"), Rd("imm", "lda"), Imp("tax"), Nop1c, Rd("abs", "ldy"),
    Rd("abs", "lda"), Rd("abs", "ldx"), Bbs(2)>>
WdcRowB ==
  <<Branch("bcs"), Rd("izy", "lda"), Rd("izp", "lda"), Nop1c, Rd("zpx", "ldy"), Rd("zpx", "lda"),
    Rd("zpy", "ldx"), Smb(3), Imp("clv"), Rd("aby", "lda"), Imp("tsx"), Nop1c, Rd("abx", "ldy"),
    Rd("abx", "lda"), Rd("aby", "ldx"), Bbs(3)>>
WdcRowC ==
  <<Rd("imm", "cpy"), Rd("izx", "cmp"), Rd("imm", "nop"), Nop1c, Rd("zp", "cpy"), Rd("zp", "cmp"),
    Rmw("zp", "dec"), Smb(4), Imp("iny"), Rd("imm", "cmp"), Imp("dex"), Imp("nop"),
    Rd("abs", "cpy"), Rd("abs", "cmp"), Rmw("abs", "dec"), Bbs(4)>>
WdcRowD ==
  <<Branch("bne"), Rd("izy", "cmp"), Rd("izp", "cmp"), Nop1c, Rd("zpx", "nop"), Rd("zpx", "cmp"),
    Rmw("zpx", "dec"), Smb(5), Imp("cld"), Rd("aby", "cmp"), Push("phx"), Rd("zpx", "nop"), Nop3b,
    Rd("abx", "cmp"), Rmw("abx", "dec"), Bbs(5)>>
WdcRowE ==
  <<Rd("imm", "cpx"), Arith("izx", "sbc"), Rd("imm", "nop"), Nop1c, Rd("zp", "cpx"),
    Arith("zp", "sbc"), Rmw("zp", "inc"), Smb(6), Imp("inx"), Arith("imm", "sbc"), Imp("nop"),
    Nop1c, Rd("abs", "cpx"), Arith("abs", "sbc"), Rmw("abs", "inc"), Bbs(6)>>
WdcRowF ==
  <<Branch("beq"), Arith("izy", "sbc"), Arith("izp", "sbc"), Nop1c, Rd("zpx", "nop"),
    Arith("zpx", "sbc"), Rmw("zpx", "inc"), Smb(7), Imp("sed"), Arith("aby", "sbc"), Pull("plx"),
    Nop1c, Nop3b, Arith("abx", "sbc"), Rmw("abx", "inc"), Bbs(7)>>

WdcBlock ==
  WdcRow0 \o WdcRow1 \o WdcRow2 \o WdcRow3 \o WdcRow4 \o WdcRow5 \o WdcRow6 \o WdcRow7
    \o WdcRow8 \o WdcRow9 \o WdcRowA \o WdcRowB \o WdcRowC \o WdcRowD \o WdcRowE \o WdcRowF

\* The Rockwell block differs in the handler of ADC #imm, which reads another dummy address
\* (see ArithDummy).
RwBlock == WdcBlock

\* Without bit instructions columns 7 and F are NOPs that read their operands.
EvenStRow(row) == [row EXCEPT ![8] = Rd("zp", "nop"), ![16] = Nop("nop_abs")]
OddStRow(row) == [row EXCEPT ![8] = Rd("zpx", "nop"), ![16] = Nop("nop_abs_high")]
StRow0 == EvenStRow(WdcRow0)
StRow1 == OddStRow(WdcRow1)
StRow2 == EvenStRow(WdcRow2)
StRow3 == OddStRow(WdcRow3)
StRow4 == EvenStRow(WdcRow4)
StRow5 == OddStRow(WdcRow5)
StRow6 == EvenStRow(WdcRow6)
StRow7 == OddStRow(WdcRow7)
StRow8 == EvenStRow(WdcRow8)
StRow9 == OddStRow(WdcRow9)
StRowA == EvenStRow(WdcRowA)
StRowB == OddStRow(WdcRowB)
StRowC == EvenStRow(WdcRowC)
StRowD == OddStRow(WdcRowD)
StRowE == EvenStRow(WdcRowE)
StRowF == OddStRow(WdcRowF)

StBlock ==
  StRow0 \o StRow1 \o StRow2 \o StRow3 \o StRow4 \o StRow5 \o StRow6 \o StRow7
    \o StRow8 \o StRow9 \o StRowA \o StRowB \o StRowC \o StRowD \o StRowE \o StRowF

OpcodesOf ==
  [nmos |-> NmosBlock, nes |-> NesBlock, wdc |-> WdcBlock, rw |-> RwBlock, st |-> StBlock]
=============================================================================
