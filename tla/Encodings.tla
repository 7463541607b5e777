------------------------------- MODULE Encodings -------------------------------
(***************************************************************************)
(* What the assembler emits for an instruction: the opcode byte and how many     *)
(* operand bytes follow, one definition per mnemonic.  Where the bytes go is       *)
(* Assembler's subject.                                                        *)
(***************************************************************************)
EXTENDS Integers

Encoding(mn, mode, opcode, operands) ==
  [mn |-> mn, mode |-> mode, opcode |-> opcode, operands |-> operands]

\* A table of addressing modes: <<mode, opcode, operand bytes>>.
Table(mn, entries) == {Encoding(mn, e[1], e[2], e[3]) : e \in entries}

Alone(mn, opcode) == {Encoding(mn, "none", opcode, 0)}
Relative(mn, opcode) == {Encoding(mn, "rel", opcode, 1)}

IllegalRmw(mn, izx, zp, zpx, abs, abx, aby, izy) ==
  Table(mn, {<<"izx", izx, 1>>, <<"zp", zp, 1>>, <<"zpx", zpx, 1>>, <<"abs", abs, 2>>,
             <<"abx", abx, 2>>, <<"aby", aby, 2>>, <<"izy", izy, 1>>})

Rmw(mn, zp, zpx, abs, abx) ==
  Table(mn, {<<"zp", zp, 1>>, <<"zpx", zpx, 1>>, <<"abs", abs, 2>>, <<"abx", abx, 2>>})
-----------------------------------------------------------------------------
(* Undocumented instructions; some helpers take the opcode itself. *)

KilOpcodes ==
  {\h02, \h12, \h22, \h32, \h42, \h52, \h62, \h72, \h92, \hb2, \hd2, \hf2}
NopAlone == {\h1a, \h3a, \h5a, \h7a, \hda, \hea, \hfa}
NopByte ==
  {\h04, \h14, \h34, \h44, \h54, \h64, \h74, \h80, \h82, \h89, \hc2, \hd4, \he2, \hf4}
NopWord == {\h0c, \h1c, \h3c, \h5c, \h7c, \hdc, \hfc}

\* Mutant: the absolute form takes the low byte only.
AhxByte == Table("ahx", {<<"izy", \h93, 1>>, <<"aby", \h9f, 1>>})

Ahx == Table("ahx", {<<"izy", \h93, 1>>, <<"aby", \h9f, 2>>})
Alr == Table("alr", {<<"imm", \h4b, 1>>})
Anc == Table("anc", {<<"imm", opcode, 1>> : opcode \in {\h0b, \h2b}})
Arr == Table("arr", {<<"imm", \h6b, 1>>})
Axs == Table("axs", {<<"imm", \hcb, 1>>})
Dcp == IllegalRmw("dcp", \hc3, \hc7, \hd7, \hcf, \hdf, \hdb, \hd3)
Isc == IllegalRmw("isc", \he3, \he7, \hf7, \hef, \hff, \hfb, \hf3)
Kil == UNION {Alone("kil", opcode) : opcode \in KilOpcodes}
Las == Table("las", {<<"aby", \hbb, 2>>})
Lax == Table("lax", {<<"izx", \ha3, 1>>, <<"zp", \ha7, 1>>, <<"zpy", \hb7, 1>>,
                     <<"abs", \haf, 2>>, <<"aby", \hbf, 2>>, <<"izy", \hb3, 1>>})
Lxa == Table("lxa", {<<"imm", \hab, 1>>})
Nop == Table("nop", {<<"imm", \h80, 1>>, <<"zp", \h04, 1>>, <<"zpx", \h14, 1>>,
                     <<"abs", \h0c, 2>>, <<"abx", \h1c, 2>>})
\* By opcode: whichever mode it stands for.
NopOpcode ==
  {Encoding("nop", "any", opcode, 1) : opcode \in NopByte}
    \cup {Encoding("nop", "any", opcode, 2) : opcode \in NopWord}
NopOpcodeAlone == UNION {Alone("nop", opcode) : opcode \in NopAlone}
Rla == IllegalRmw("rla", \h23, \h27, \h37, \h2f, \h3f, \h3b, \h33)
Rra == IllegalRmw("rra", \h63, \h67, \h77, \h6f, \h7f, \h7b, \h73)
Sax == Table("sax", {<<"izx", \h83, 1>>, <<"zp", \h87, 1>>, <<"zpy", \h97, 1>>, <<"abs", \h8f, 2>>})
SbcOpcode == Table("sbc", {<<"imm", opcode, 1>> : opcode \in {\he9, \heb}})
Shx == Table("shx", {<<"aby", \h9e, 2>>})
Shy == Table("shy", {<<"abx", \h9c, 2>>})
Slo == IllegalRmw("slo", \h03, \h07, \h17, \h0f, \h1f, \h1b, \h13)
Sre == IllegalRmw("sre", \h43, \h47, \h57, \h4f, \h5f, \h5b, \h53)
Tas == Table("tas", {<<"aby", \h9b, 2>>})
Xaa == Table("xaa", {<<"imm", \h8b, 1>>})

Undocumented ==
  UNION {Ahx, Alr, Anc, Arr, Axs, Dcp, Isc, Kil, Las, Lax, Lxa, Nop, NopOpcode, NopOpcodeAlone, Rla,
         Rra, Sax, SbcOpcode, Shx, Shy, Slo, Sre, Tas, Xaa}
-----------------------------------------------------------------------------
(* Documented instructions. *)

\* The eight modes of an accumulator instruction.
Adc == Table("adc", {<<"imm", \h69, 1>>, <<"zp", \h65, 1>>, <<"zpx", \h75, 1>>, <<"abs", \h6d, 2>>,
                     <<"abx", \h7d, 2>>, <<"aby", \h79, 2>>, <<"izx", \h61, 1>>, <<"izy", \h71, 1>>})
And == Table("and", {<<"imm", \h29, 1>>, <<"zp", \h25, 1>>, <<"zpx", \h35, 1>>, <<"abs", \h2d, 2>>,
                     <<"abx", \h3d, 2>>, <<"aby", \h39, 2>>, <<"izx", \h21, 1>>, <<"izy", \h31, 1>>})
Bit == Table("bit", {<<"zp", \h24, 1>>, <<"abs", \h2c, 2>>})
Cmp == Table("cmp", {<<"imm", \hc9, 1>>, <<"zp", \hc5, 1>>, <<"zpx", \hd5, 1>>, <<"abs", \hcd, 2>>,
                     <<"abx", \hdd, 2>>, <<"aby", \hd9, 2>>, <<"izx", \hc1, 1>>, <<"izy", \hd1, 1>>})
Cpx == Table("cpx", {<<"imm", \he0, 1>>, <<"zp", \he4, 1>>, <<"abs", \hec, 2>>})
Cpy == Table("cpy", {<<"imm", \hc0, 1>>, <<"zp", \hc4, 1>>, <<"abs", \hcc, 2>>})
Dec == Rmw("dec", \hc6, \hd6, \hce, \hde)
Eor == Table("eor", {<<"imm", \h49, 1>>, <<"zp", \h45, 1>>, <<"zpx", \h55, 1>>, <<"abs", \h4d, 2>>,
                     <<"abx", \h5d, 2>>, <<"aby", \h59, 2>>, <<"izx", \h41, 1>>, <<"izy", \h51, 1>>})
Inc == Rmw("inc", \he6, \hf6, \hee, \hfe)
Jmp == Table("jmp", {<<"abs", \h4c, 2>>, <<"ind", \h6c, 2>>})
Jsr == Table("jsr", {<<"abs", \h20, 2>>})
Lda == Table("lda", {<<"imm", \ha9, 1>>, <<"zp", \ha5, 1>>, <<"zpx", \hb5, 1>>, <<"abs", \had, 2>>,
                     <<"abx", \hbd, 2>>, <<"aby", \hb9, 2>>, <<"izx", \ha1, 1>>, <<"izy", \hb1, 1>>})
Ldx == Table("ldx", {<<"imm", \ha2, 1>>, <<"zp", \ha6, 1>>, <<"zpy", \hb6, 1>>, <<"abs", \hae, 2>>,
                     <<"aby", \hbe, 2>>})
Ldy == Table("ldy", {<<"imm", \ha0, 1>>, <<"zp", \ha4, 1>>, <<"zpx", \hb4, 1>>, <<"abs", \hac, 2>>,
                     <<"abx", \hbc, 2>>})
Ora == Table("ora", {<<"imm", \h09, 1>>, <<"zp", \h05, 1>>, <<"zpx", \h15, 1>>, <<"abs", \h0d, 2>>,
                     <<"abx", \h1d, 2>>, <<"aby", \h19, 2>>, <<"izx", \h01, 1>>, <<"izy", \h11, 1>>})
Sbc == Table("sbc", {<<"imm", \he9, 1>>, <<"zp", \he5, 1>>, <<"zpx", \hf5, 1>>, <<"abs", \hed, 2>>,
                     <<"abx", \hfd, 2>>, <<"aby", \hf9, 2>>, <<"izx", \he1, 1>>, <<"izy", \hf1, 1>>})
Sta == Table("sta", {<<"zp", \h85, 1>>, <<"zpx", \h95, 1>>, <<"abs", \h8d, 2>>, <<"abx", \h9d, 2>>,
                     <<"aby", \h99, 2>>, <<"izx", \h81, 1>>, <<"izy", \h91, 1>>})
Stx == Table("stx", {<<"zp", \h86, 1>>, <<"zpy", \h96, 1>>, <<"abs", \h8e, 2>>})
Sty == Table("sty", {<<"zp", \h84, 1>>, <<"zpx", \h94, 1>>, <<"abs", \h8c, 2>>})

Shifts ==
  UNION {Alone("asl", \h0a), Rmw("asl", \h06, \h16, \h0e, \h1e),
         Alone("lsr", \h4a), Rmw("lsr", \h46, \h56, \h4e, \h5e),
         Alone("rol", \h2a), Rmw("rol", \h26, \h36, \h2e, \h3e),
         Alone("ror", \h6a), Rmw("ror", \h66, \h76, \h6e, \h7e)}

Branches ==
  UNION {Relative("bcc", \h90), Relative("bcs", \hb0), Relative("beq", \hf0), Relative("bmi", \h30),
         Relative("bne", \hd0), Relative("bpl", \h10), Relative("bvc", \h50), Relative("bvs", \h70)}

Implieds ==
  UNION {Alone("brk", \h00), Alone("clc", \h18), Alone("cld", \hd8), Alone("cli", \h58),
         Alone("clv", \hb8), Alone("dex", \hca), Alone("dey", \h88), Alone("inx", \he8),
         Alone("iny", \hc8), Alone("nop", \hea), Alone("pha", \h48), Alone("php", \h08),
         Alone("pla", \h68), Alone("plp", \h28), Alone("rti", \h40), Alone("rts", \h60),
         Alone("sec", \h38), Alone("sed", \hf8), Alone("sei", \h78), Alone("tax", \haa),
         Alone("tay", \ha8), Alone("tsx", \hba), Alone("txa", \h8a), Alone("txs", \h9a),
         Alone("tya", \h98)}

Documented ==
  UNION {Adc, And, Bit, Cmp, Cpx, Cpy, Dec, Eor, Inc, Jmp, Jsr, Lda, Ldx, Ldy, Ora, Sbc, Sta, Stx, Sty,
         Shifts, Branches, Implieds}

Encodings == Documented \cup Undocumented
=============================================================================
