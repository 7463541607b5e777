------------------------------- MODULE Microcode -------------------------------
(***************************************************************************)
(* The rows of the control store by class: the handlers an instruction runs,   *)
(* one per bus cycle, ending in the one that fetches the next opcode.  Names    *)
(* are those of the code without mc_ and without the suffix of the variants     *)
(* that also arm sampling; an op_ handler is named for its shape, its mnemonic  *)
(* being that of the instruction.                                            *)
(***************************************************************************)
EXTENDS Mnemonics, Sequences

\* Prefixes that many rows share.
Absolute == <<"read_pc_inc", "latch_addr0_read_pc_inc">>
PointerX == <<"clear_latch_addr_read_pc_inc", "r_izx_c1_idx", "izx_read_ptrlo_inc_ptr",
              "latch_data_read_latch_addr">>
PointerY == <<"clear_latch_addr_read_pc_inc", "latch_addr0_read_latch_addr">>
ZeroPageX == <<"clear_latch_addr_read_pc_inc", "zpx_c1_idx", "read_latch_addr">>
ZeroPageY == <<"clear_latch_addr_read_pc_inc", "r_zpy_c1_idx", "read_latch_addr">>
CmosPointerY == <<"clear_latch_addr_read_pc", "latch_addr0_read_latch_addr", "r_izy_c2_ptrhi">>
StackReads == <<"read_pc", "read_stack_current_s", "stack_pull_read">>

NmosRead ==
  [imm |-> <<"read_pc_inc">>,
   zp  |-> <<"read_pc_inc", "r_zp_c1_data">>,
   zpx |-> ZeroPageX,
   zpy |-> ZeroPageY,
   abs |-> Absolute \o <<"read_addr_with_bus_hi">>,
   abx |-> <<"read_pc_inc", "latch_abx_base_read_pc_inc", "r_indexed_probe_no_latch", "read_latch_addr">>,
   aby |-> <<"read_pc_inc", "latch_aby_base_read_pc_inc", "r_indexed_probe_no_latch", "read_latch_addr">>,
   izx |-> PointerX \o <<"r_izx_c4_data_no_latch">>,
   izy |-> PointerY \o <<"r_izy_c2_ptrhi", "r_indexed_probe_no_latch", "read_latch_addr">>]

\* Mutant: the indexed rows are those of the NMOS block.
CmosReadAsNmos ==
  [imm |-> NmosRead.imm, zp |-> NmosRead.zp, zpx |-> NmosRead.zpx, zpy |-> NmosRead.zpy,
   abs |-> NmosRead.abs, izx |-> NmosRead.izx, abx |-> NmosRead.abx, aby |-> NmosRead.aby,
   izy |-> NmosRead.izy,
   izp |-> <<"read_pc_inc", "latch_zp_addr_read_latch_addr", "izp_c2_ptrhi", "read_addr_with_bus_hi">>]

CmosRead ==
  [imm |-> NmosRead.imm, zp |-> NmosRead.zp, zpx |-> NmosRead.zpx, zpy |-> NmosRead.zpy,
   abs |-> NmosRead.abs, izx |-> NmosRead.izx,
   abx |-> <<"read_pc_inc", "cmos_latch_abx_base_read_pc", "cmos_r_indexed_probe_no_latch", "read_latch_addr">>,
   aby |-> <<"read_pc_inc", "cmos_latch_aby_base_read_pc", "cmos_r_indexed_probe_no_latch", "read_latch_addr">>,
   izy |-> CmosPointerY \o <<"cmos_r_indexed_probe_no_latch", "read_latch_addr">>,
   izp |-> <<"read_pc_inc", "latch_zp_addr_read_latch_addr", "izp_c2_ptrhi", "read_addr_with_bus_hi">>]

\* ADC and SBC of the CMOS families keep the address: a decimal one reads again.
CmosArith ==
  [imm |-> <<"read_pc_inc", "arith_imm_or_dummy">>,
   zp  |-> <<"read_pc_inc", "latch_zp_addr_read_latch_addr", "arith_or_dummy">>,
   zpx |-> ZeroPageX \o <<"arith_or_dummy">>,
   abs |-> Absolute \o <<"latch_addr1_read_latch_addr", "arith_or_dummy">>,
   abx |-> <<"read_pc_inc", "cmos_latch_abx_base_read_pc", "cmos_r_indexed_probe", "read_latch_addr", "arith_or_dummy">>,
   aby |-> <<"read_pc_inc", "cmos_latch_aby_base_read_pc", "cmos_r_indexed_probe", "read_latch_addr", "arith_or_dummy">>,
   izx |-> PointerX \o <<"r_izx_c4_data", "arith_or_dummy">>,
   izy |-> CmosPointerY \o <<"cmos_r_indexed_probe", "read_latch_addr", "arith_or_dummy">>,
   izp |-> <<"read_pc_inc", "latch_zp_addr_read_latch_addr", "izp_c2_ptrhi",
             "latch_addr1_read_latch_addr", "arith_or_dummy">>]

NmosWrite ==
  [zp  |-> <<"read_pc_inc", "pending_addrlo_wr">>,
   zpx |-> <<"read_pc_inc", "read_zp_latch_x", "addr_wr">>,
   zpy |-> <<"read_pc_inc", "w_zpy_c1_idx", "addr_wr">>,
   abs |-> Absolute \o <<"pending_addrhi_wr">>,
   abx |-> <<"read_pc_inc", "latch_abx_base_read_pc_inc", "w_indexed_probe", "addr_wr">>,
   aby |-> <<"read_pc_inc", "latch_aby_base_read_pc_inc", "w_indexed_probe", "addr_wr">>,
   izx |-> <<"read_pc_inc", "read_zp_latch_x", "izx_read_ptrlo_inc_ptr", "w_izx_c3_ptrhi", "pending_addrhi_wr">>,
   izy |-> <<"read_pc_inc", "latch_zp_addr_read_latch_addr", "w_izy_c2_ptrhi", "w_indexed_probe", "addr_wr">>]

CmosWrite ==
  [zp |-> NmosWrite.zp, zpx |-> NmosWrite.zpx, zpy |-> NmosWrite.zpy, abs |-> NmosWrite.abs,
   izx |-> NmosWrite.izx,
   abx |-> <<"read_pc_inc", "cmos_latch_abx_base_read_pc", "cmos_w_indexed_probe", "addr_wr">>,
   aby |-> <<"read_pc_inc", "cmos_latch_aby_base_read_pc", "cmos_w_indexed_probe", "addr_wr">>,
   izy |-> <<"read_pc", "latch_zp_addr_read_latch_addr", "w_izy_c2_ptrhi", "cmos_w_indexed_probe", "addr_wr">>,
   izp |-> <<"read_pc_inc", "latch_zp_addr_read_latch_addr", "izp_c2_ptrhi", "pending_addrhi_wr">>]

\* Up to the read of the value to modify.
NmosModify ==
  [zp  |-> PointerY,
   zpx |-> ZeroPageX,
   abs |-> Absolute \o <<"latch_addr1_read_latch_addr">>,
   abx |-> <<"read_pc_inc", "rw_abx_c1_hi", "w_indexed_probe", "read_latch_addr">>,
   aby |-> <<"read_pc_inc", "latch_aby_base_read_pc_inc", "w_indexed_probe", "read_latch_addr">>,
   izx |-> PointerX \o <<"r_izx_c4_data">>,
   izy |-> PointerY \o <<"w_izy_c2_ptrhi", "w_indexed_probe", "read_latch_addr">>]

CmosModify ==
  [zp |-> NmosModify.zp, zpx |-> NmosModify.zpx, abs |-> NmosModify.abs,
   abx |-> <<"read_pc_inc", "cmos_latch_abx_base_read_pc", "cmos_w_indexed_probe", "read_latch_addr">>]
CmosModifyShort ==
  <<"read_pc_inc", "cmos_latch_abx_base_read_pc", "cmos_r_indexed_probe", "read_latch_addr">>

Unstables ==
  [abx |-> <<"read_pc_inc", "latch_abx_base_read_pc_inc", "unstable_store_indexed_probe", "unstable_wr">>,
   aby |-> <<"read_pc_inc", "latch_aby_base_read_pc_inc", "unstable_store_indexed_probe", "unstable_wr">>,
   izy |-> <<"read_pc_inc", "latch_zp_addr_read_latch_addr", "w_izy_c2_ptrhi",
             "unstable_store_indexed_probe", "unstable_wr">>]

\* A row of eight ends in the variant whose dispatch is in another slot.
ModifyRow(mod, reach) ==
  LET rewrite == IF Cmos(mod) THEN "latch_data_read_latch_addr" ELSE "latch_data_write_latch_addr"
  IN  reach \o <<rewrite, "rmw_wr", IF Len(reach) = 5 THEN "fetch_illegal_ext" ELSE "fetch">>

FlowRow(mod, kind) ==
  CASE kind = "jmp_abs"   -> Absolute \o <<"latch_addr1_set_pc_fetch">>
    [] kind = "jmp_ind"   -> Absolute \o <<"jmp_ind_c2_target_lo", "latch_data_read_latch_addr">>
                               \o (IF Cmos(mod) THEN <<"cmos_jmp_ind_c4_target_hi_retry">> ELSE <<>>)
                               \o <<"jmp_ind_c4_fetch">>
    [] kind = "jmp_ind_x" -> Absolute \o <<"cmos_jmp_ind_x_c2_dummy", "cmos_jmp_ind_x_c3_target_lo",
                                           "latch_data_read_latch_addr", "jmp_ind_c4_fetch">>
    [] kind = "jsr"       -> <<"read_pc_inc", "jsr_abs_c1_dummy", "push_pc_high", "push_pc_low",
                               "read_pc", "latch_addr1_set_pc_fetch">>
    [] kind = "rts"       -> StackReads \o <<"latch_pcl_stack_read", "rts_c4_inc_pc_dummy", "fetch">>
    [] kind = "rti"       -> StackReads \o <<"rti_c3_pull_pcl", "latch_pcl_stack_read", "latch_pch_fetch">>
    [] kind \in {"branch", "bra"} ->
         <<"branch_c0_offset", "branch_rel_c1_apply", "branch_pgfix", "fetch">>
    [] kind \in {"bbr", "bbs"} ->
         <<"read_pc_inc", "latch_zp_addr_read_latch_addr", "read_latch_addr",
           "wdc_bbr_bbs_c3_offset_or_skip", "wdc_bbr_bbs_c4_apply", "branch_pgfix", "fetch">>
    [] kind = "brk"       -> <<"read_pc_inc", "push_pc_high", "push_pc_low", "push_status_b", "read_fffe">>
                               \o (IF Cmos(mod) THEN <<"cmos_brk_c5_vec_hi">> ELSE <<"brk_c5_vec_hi">>)
                               \o <<"latch_pch_fetch">>
    [] kind = "kil"       -> <<"read_pc", "kil_jam_read_ffff", "read_fffe", "read_fffe", "kil_jam_loop">>

Row(mod, i) ==
  CASE i.kind = "read"      -> (IF Cmos(mod) THEN CmosRead ELSE NmosRead)[i.mode] \o <<"exec">>
    [] i.kind = "arith"     -> CmosArith[i.mode] \o <<"arith_dec_fetch">>
    [] i.kind = "write"     -> (IF Cmos(mod) THEN CmosWrite ELSE NmosWrite)[i.mode] \o <<"fetch">>
    [] i.kind = "rmw"       -> ModifyRow(mod, (IF Cmos(mod) THEN CmosModify ELSE NmosModify)[i.mode])
    [] i.kind = "rmw_short" -> ModifyRow(mod, CmosModifyShort)
    [] i.kind = "unstable"  -> Unstables[i.mode] \o <<"fetch">>
    [] i.kind = "implied"   -> <<"dummy", "fetch">>
    [] i.kind = "push"      -> <<"read_pc", "push_wr", "fetch">>
    [] i.kind = "pull"      -> StackReads \o <<"exec">>
    [] i.kind = "nop_1c"    -> <<"fetch">>
    [] i.kind = "nop_3b"    -> <<"read_pc_inc", "read_pc", "read_pc_inc", "fetch">>
    [] i.kind = "nop_abs"   -> <<"read_pc_inc", "read_pc_inc", "fetch">>
    [] i.kind = "nop_abs_high" -> <<"read_pc_inc", "read_pc_inc", "read_pc_minus_one", "fetch">>
    [] OTHER                -> FlowRow(mod, i.kind)

\* What a slot may stand for: a class and a mode that have a row, and a mnemonic that the
\* handlers of the row know.
Weights == {1, 2, 4, 8, 16, 32, 64, 128}
Nops == {"nop_1c", "nop_3b", "nop_abs", "nop_abs_high"}
Flows ==
  {"jmp_abs", "jmp_ind", "jmp_ind_x", "jsr", "rts", "rti", "branch", "bra", "bbr", "bbs", "brk", "kil"}
Legal(mod, i) ==
  \/ /\ i.kind = "read" /\ i.mn \in Loads
     /\ i.mode \in IF Cmos(mod) THEN DOMAIN CmosRead ELSE DOMAIN NmosRead
  \/ i.kind = "arith" /\ i.mn \in {"adc", "sbc"} /\ i.mode \in DOMAIN CmosArith
  \/ /\ i.kind = "write" /\ i.mn \in Stores
     /\ i.mode \in IF Cmos(mod) THEN DOMAIN CmosWrite ELSE DOMAIN NmosWrite
  \/ /\ i.kind = "rmw"
     /\ i.mode \in IF Cmos(mod) THEN DOMAIN CmosModify ELSE DOMAIN NmosModify
     /\ i.mn \in Modifies \cup BitModifies
     /\ i.mn \in BitModifies => i.w \in Weights /\ i.w < B
  \/ i.kind = "rmw_short" /\ i.mn \in Modifies
  \/ i.kind = "unstable" /\ i.mn \in UnstableStores /\ i.mode \in DOMAIN Unstables
  \/ i.kind = "implied" /\ i.mn \in Implieds
  \/ i.kind = "push" /\ i.mn \in Pushes
  \/ i.kind = "pull" /\ i.mn \in Loads
  \/ i.kind \in Nops \cup Flows

-----------------------------------------------------------------------------
(* Service slots, by their numbers. *)

IllegalExt == 257
InternalReset == 258
Reset0 == 259
Reset1 == 260
GotoSlot == 261
NmiSlot == 262
IrqSlot == 263

ServiceRow(mod, slot) ==
  LET Interrupt(vecLo, vecHi) ==
        <<"read_pc", "push_pc_high", "push_pc_low", "interrupt_c3_push_p", vecLo,
          vecHi, "latch_pch_fetch">>
  IN  CASE slot = IllegalExt    -> <<>>
        [] slot = InternalReset -> <<"internal_reset">>
        [] slot = Reset0        -> <<"restart_read_hhff", "restart_read_zzhh_fetch", "restart_read_zzhh",
                                     "reset_stack_read", "reset_stack_read", "reset_stack_read",
                                     "reset_vec_lo", "reset_vec_hi">>
        [] slot = Reset1        -> <<"latch_pch_fetch">>
        [] slot = GotoSlot      -> <<"fetch">>
        [] slot = NmiSlot       -> Interrupt("nmi_c4_vec_lo", IF Cmos(mod) THEN "cmos_nmi_c5_vec_hi" ELSE "nmi_c5_vec_hi")
        [] slot = IrqSlot       -> Interrupt("read_fffe", IF Cmos(mod) THEN "cmos_brk_c5_vec_hi" ELSE "brk_c5_vec_hi")
=============================================================================
