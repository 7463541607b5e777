----------------------------- MODULE ControlStore -----------------------------
(***************************************************************************)
(* The microcode control store of the five CPU models: which handler runs   *)
(* in which cycle of which slot.                                            *)
(*                                                                         *)
(* A slot is a row of at most eight entries.  256 rows belong to opcodes,   *)
(* the others to services (reset, goto, NMI, IRQ, the second dispatch entry *)
(* of eight-cycle opcodes).  Opcodes whose rows make the same interrupt-     *)
(* relevant moves share a row here; the comment above a row names the classes *)
(* of the .inc files it stands for.                                         *)
(*                                                                         *)
(* A handler is named by what it does to the sequencer:                      *)
(*   body      neither prefetches, nor fetches, nor moves the microcode       *)
(*   push      writes the stack on the way into an interrupt handler          *)
(*   pre       calls prefetch()                                              *)
(*   fetch     returns fetch(), the opcode_fetch status                       *)
(*   dispatch  mc_dispatch                                                   *)
(*   others    the handler of that name, see Skips and InterruptLogic         *)
(***************************************************************************)
EXTENDS Naturals, Sequences

NmosModels == {"nmos", "nes"}
CmosModels == {"wdc", "rw", "st"}
AllModels == NmosModels \cup CmosModels

\* Slots entered by next_enter_service_slot / enter_service_slot.  reset_0 has
\* eight entries and runs on into reset_1, the row after it: one row here.
CommonServices ==
  [ internal_reset |-> <<"internal_reset">>,
    reset          |-> <<"body", "fetch", "body", "body", "body", "body", "body",
                         "reset_vec_hi", "fetch", "dispatch">>,
    goto           |-> <<"fetch", "dispatch">>,
    illegal_ext    |-> <<"dispatch">> ]

NmosServices ==
  [ nmi |-> <<"body", "push", "push", "nmi_c3", "body", "nmi_c5", "fetch", "dispatch">>,
    irq |-> <<"body", "push", "push", "irq_c3", "body", "irq_c5", "fetch", "dispatch">> ]

CmosServices ==
  [ nmi |-> <<"body", "push", "push", "cmos_nmi_c3", "body", "cmos_c5", "fetch", "dispatch">>,
    irq |-> <<"body", "push", "push", "cmos_irq_c3", "body", "cmos_c5", "fetch", "dispatch">> ]

\* Rows all five blocks have: a straight row of n cycles samples one tick before
\* the fetch, CLI, SEI, CLD and SED change P in the sampling tick, PLP in the
\* fetch, RTI two ticks before it.
CommonOpcodes ==
  [ \* acc imp r_imm nop_imm
    cycles2    |-> <<"pre", "fetch", "dispatch">>,
    \* jmp_abs r_zp w_zp stack_push
    cycles3    |-> <<"body", "pre", "fetch", "dispatch">>,
    \* r_abs w_abs r_zpx r_zpy w_zpx w_zpy stack_pull
    cycles4    |-> <<"body", "body", "pre", "fetch", "dispatch">>,
    \* rw_zp jmp_ind w_abx w_aby r_izp w_izp
    cycles5    |-> <<"body", "body", "body", "pre", "fetch", "dispatch">>,
    \* jsr_abs rts r_izx w_izx w_izy rw_abs rw_zpx jmp_ind_wdc
    cycles6    |-> <<"body", "body", "body", "body", "pre", "fetch", "dispatch">>,
    \* rw_abx rw_aby
    cycles7    |-> <<"body", "body", "body", "body", "body", "pre", "fetch", "dispatch">>,
    \* branch_rel, on a flag
    branch     |-> <<"branch_c0", "branch_c1", "pre", "fetch", "dispatch">>,
    \* r_abx r_aby nop_abx_read; r_izy
    indexed_ab |-> <<"body", "body", "probe", "pre", "fetch", "dispatch">>,
    indexed_iy |-> <<"body", "body", "body", "probe", "pre", "fetch", "dispatch">>,
    \* imp, for the four opcodes that change I or D
    cli        |-> <<"cli", "fetch", "dispatch">>,
    sei        |-> <<"sei", "fetch", "dispatch">>,
    cld        |-> <<"cld", "fetch", "dispatch">>,
    sed        |-> <<"sed", "fetch", "dispatch">>,
    \* stack_pull of P; rti
    plp        |-> <<"body", "body", "pre", "plp", "dispatch">>,
    rti        |-> <<"body", "body", "body", "rti_c3", "pre", "fetch", "dispatch">> ]

\* Rows of the NMOS and NES blocks only.  Eight-cycle opcodes fill their row
\* before they can dispatch, so the last entry continues in illegal_ext.
NmosOpcodes ==
  [ \* brk; rw_izx rw_izy; kil_jam
    brk     |-> <<"body", "push", "push", "brk_c3", "body", "brk_c5", "fetch", "dispatch">>,
    cycles8 |-> <<"body", "body", "body", "body", "body", "body", "pre", "fetch_ext">>,
    kil     |-> <<"body", "body", "body", "body", "jam">> ]

\* Rows of the WDC, Rockwell and Synertek blocks only: one-cycle NOPs, the
\* unconditional branch, the read-modify-writes that save a cycle without a page
\* crossing, and the decimal ADC/SBC that take a cycle more when D is set.
CmosOpcodes ==
  [ \* brk; nop_1b_1c; branch_rel of BRA; rw_abx_short
    brk       |-> <<"body", "push", "push", "push", "body", "cmos_brk_c5", "fetch", "dispatch">>,
    nop_1c    |-> <<"fetch", "dispatch">>,
    bra       |-> <<"pre", "branch_c1", "pre", "fetch", "dispatch">>,
    rmw_abx   |-> <<"body", "body", "rmw_probe", "body", "body", "pre", "fetch", "dispatch">>,
    \* ADC and SBC: r_imm; r_zp; r_abs r_zpx; r_izp_wdc_decimal; r_izx; r_abx r_aby; r_izy
    arith_imm |-> <<"pre_d0", "arith", "fetch", "dispatch">>,
    arith_zp  |-> <<"body", "pre_d0", "arith", "fetch", "dispatch">>,
    arith_abs |-> <<"body", "body", "pre_d0", "arith", "fetch", "dispatch">>,
    arith_izp |-> <<"body", "body", "body", "pre_d0", "arith", "fetch", "dispatch">>,
    arith_izx |-> <<"body", "body", "body", "body", "pre_d0", "arith", "fetch", "dispatch">>,
    arith_abx |-> <<"body", "body", "probe_d0", "pre_d0", "arith", "fetch", "dispatch">>,
    arith_izy |-> <<"body", "body", "body", "probe_d0", "pre_d0", "arith", "fetch", "dispatch">> ]

\* BBR and BBS exist on WDC and Rockwell; Synertek has NOPs in their place.
BitBranchOpcodes ==
  [ bbr_bbs |-> <<"body", "body", "body", "branch_c0", "branch_c1", "pre", "fetch", "dispatch">> ]

\* The opcode rows and all the rows of a model's block.
OpcodeRows(m) ==
  LET own == IF m \in NmosModels THEN DOMAIN NmosOpcodes ELSE DOMAIN CmosOpcodes
      bit == IF m \in {"wdc", "rw"} THEN DOMAIN BitBranchOpcodes ELSE {}
  IN  DOMAIN CommonOpcodes \cup own \cup bit

ServiceRows == DOMAIN CommonServices \cup DOMAIN NmosServices
Rows(m) == ServiceRows \cup OpcodeRows(m)

ServiceRow(m, slot) ==
  IF slot \in DOMAIN CommonServices THEN CommonServices[slot]
  ELSE IF m \in NmosModels THEN NmosServices[slot] ELSE CmosServices[slot]

OpcodeRow(m, slot) ==
  IF slot \in DOMAIN CommonOpcodes THEN CommonOpcodes[slot]
  ELSE IF m \in NmosModels THEN NmosOpcodes[slot]
  ELSE IF slot \in DOMAIN BitBranchOpcodes THEN BitBranchOpcodes[slot]
  ELSE CmosOpcodes[slot]

Row(m, slot) == IF slot \in ServiceRows THEN ServiceRow(m, slot) ELSE OpcodeRow(m, slot)

\* The handler of an entry at = <<row, cycle>>.
Handler(m, at) == Row(m, at[1])[at[2] + 1]

\* The entries a tick at cycle c of row s may run.  mc_dispatch runs entry 0 of
\* the opcode on the bus in the same tick; programs use the opcodes ops.
Executed(m, ops, s, c) ==
  IF Handler(m, <<s, c>>) = "dispatch"
  THEN {<<op, 0>> : op \in ops \cap OpcodeRows(m)}
  ELSE {<<s, c>>}

(***************************************************************************)
(* What a handler may do to the sequencer when P is p (a set of "I", "D").    *)
(* A taken branch, a page crossing and the value of D choose how many entries *)
(* it advances the microcode beyond the next one.                            *)
(***************************************************************************)
\* Mutant: the binary ADC and SBC advance the microcode once too often.
SkipsTooFar(h, p) ==
  CASE h = "branch_c0"                                       -> {0, 2}
    [] h \in {"branch_c1", "rmw_probe", "probe", "probe_d0"} -> {0, 1}
    [] h = "arith" /\ "D" \notin p                           -> {2}
    [] OTHER                                                 -> {0}

Skips(h, p) ==
  CASE h = "branch_c0"                                       -> {0, 2}
    [] h \in {"branch_c1", "rmw_probe", "probe", "probe_d0"} -> {0, 1}
    [] h = "arith" /\ "D" \notin p                           -> {1}
    [] OTHER                                                 -> {0}

\* Does the handler call prefetch() when it advances by skip?
Prefetches(h, p, skip) ==
  \/ h \in {"pre", "cli", "sei", "cld", "sed", "branch_c0"}
  \/ h = "probe" /\ skip = 1
  \/ h = "probe_d0" /\ skip = 1 /\ "D" \notin p
  \/ h = "pre_d0" /\ "D" \notin p
  \/ h = "arith" /\ "D" \in p

\* Does its tick have the opcode_fetch status?
Fetches(h, p) ==
  \/ h \in {"fetch", "fetch_ext", "plp"}
  \/ h = "arith" /\ "D" \notin p
=============================================================================
