-------------------------------- MODULE Handlers -------------------------------
(***************************************************************************)
(* What each microcode handler does with the CPU and with the byte on the bus,  *)
(* and the tick it returns: the address and status it drives, and the byte when  *)
(* it writes.  Sampling and the interrupt bookkeeping are Qe6502's subject; the   *)
(* condition of a conditional branch is a parameter.                           *)
(*                                                                         *)
(* A CPU is the record qe6502_t: la and ld are latch_addr and latch_data.        *)
(***************************************************************************)
EXTENDS Mnemonics

writing == 1
opcode_fetch == 2
internal_reset == 64
cpu_jammed == 128

TickOf(address, bus, status) == [address |-> address, bus |-> bus, status |-> status]
Result(c, tick) == [cpu |-> c, tick |-> tick]

SetLo(address, byte) == Word(Hi(address), byte)
SetHi(address, byte) == Word(byte, Lo(address))

Read(c, address) == Result(c, TickOf(address, 0, 0))
Write(c, address, data) == Result(c, TickOf(address, data, writing))
Fetch(c) == Result(c, TickOf(c.pc, 0, opcode_fetch))
ReadPcInc(c) == Read([c EXCEPT !.pc = Wrap(c.pc + 1)], c.pc)
StackWrite(c, data) == Write([c EXCEPT !.s = (c.s - 1) % B], StackAddress(c.s), data)
StackRead(c) == Read([c EXCEPT !.s = Next8(c.s)], StackAddress(Next8(c.s)))

Latch0(c, byte) == [c EXCEPT !.la = SetLo(c.la, byte)]
Latch1(c, byte) == [c EXCEPT !.la = SetHi(c.la, byte)]
\* The low byte of an indexed address; latch_data records the carry into the high one.
LatchIndexed(c, low, index) == [c EXCEPT !.la = (low + index) % B, !.ld = (low + index) \div B]
SetPcLo(c, byte) == [c EXCEPT !.pc = SetLo(c.pc, byte)]
SetPcHi(c, byte) == [c EXCEPT !.pc = SetHi(c.pc, byte)]

\* Skipping and looping, over the increment that ends every tick.
Skip(c, k) == [c EXCEPT !.microcode = c.microcode + k]
LoopHere(c) == [c EXCEPT !.microcode = c.microcode - 1]
Idx(model, slot, cycle) == model * 4096 + slot * 8 + cycle
EnterServiceSlot(c, slot, cycle) == [c EXCEPT !.microcode = Idx(c.model, slot, cycle)]
NextEnterServiceSlot(c, slot, cycle) == LoopHere(EnterServiceSlot(c, slot, cycle))

\* Mutant: the high byte is decremented without the cast to a byte.
CalculateResetPcUncast(pc, bus) == Word(bus, Hi(pc) - 1)
CalculateResetPc(pc, bus) == Word(bus, (Hi(pc) - 1) % B)
PageCrosses(from, to) == Hi(from) # Hi(to)
-----------------------------------------------------------------------------
(* The shared handlers, by region of the source; each group passes on what is not its own. *)

\* Handlers that exist only in the variant that arms sampling.
LastReadHandler(h, c, bus) ==
  CASE h = "cmos_jmp_ind_c4_target_hi_retry" ->
         LET carried == IF Lo(c.la) = 0 THEN Latch1(c, Next8(Hi(c.la))) ELSE c
         IN  Read(carried, carried.la)
    [] h = "cmos_r_indexed_probe_no_latch" ->
         LET next == [c EXCEPT !.pc = Wrap(c.pc + 1)]
             high == (bus + c.ld) % B
         IN  IF c.ld = 0 THEN Read(Skip(next, 1), SetHi(c.la, high)) ELSE Read(Latch1(next, high), c.pc)
    [] h = "r_indexed_probe_no_latch" ->
         Read(IF c.ld = 0 THEN Skip(c, 1) ELSE Latch1(c, (bus + c.ld) % B), SetHi(c.la, bus))
    [] h = "r_izx_c4_data_no_latch" -> Read(c, Word(bus, c.ld))
    [] h = "r_zp_c1_data"           -> Read(c, bus)
    [] h = "read_addr_with_bus_hi"  -> Read(c, SetHi(c.la, bus))
    [] h = "read_pc_minus_one"      -> Read(c, Wrap(c.pc - 1))
    [] h = "rts_c4_inc_pc_dummy"    -> ReadPcInc(SetPcHi(c, bus))

\* Addresses of stores and of read-modify-write instructions.
StoreAddressHandler(h, c, bus) ==
  CASE h = "rw_abx_c1_hi"                 -> ReadPcInc(LatchIndexed(c, bus, c.x))
    [] h = "w_indexed_probe"              -> Read(Latch1(c, (bus + c.ld) % B), SetHi(c.la, bus))
    [] h = "unstable_store_indexed_probe" -> Read(Latch1(c, bus), SetHi(c.la, bus))
    [] h = "read_zp_latch_x"              -> Read([c EXCEPT !.la = (bus + c.x) % B], bus)
    [] h = "w_izx_c3_ptrhi"               -> Read(Latch0(c, bus), c.la)
    [] h = "w_izy_c2_ptrhi"               -> Read(LatchIndexed(c, bus, c.y), Next8(Lo(c.la)))
    [] h = "w_zpy_c1_idx"                 -> Read([c EXCEPT !.la = (bus + c.y) % B], bus)
    [] OTHER                              -> LastReadHandler(h, c, bus)

\* Pointers in page zero, indexed page zero, and what RTI and RTS pull.
PointerHandler(h, c, bus) ==
  CASE h = "r_izx_c1_idx"                  -> Read(Latch0(c, (bus + c.x) % B), SetLo(c.la, bus))
    [] h = "izx_read_ptrlo_inc_ptr"        -> Read(Latch0(c, Next8(Lo(c.la))), c.la)
    [] h = "izp_c2_ptrhi"                  -> Read(Latch0(c, bus), Next8(Lo(c.la)))
    [] h = "r_izx_c4_data"                 -> Read([c EXCEPT !.la = Word(bus, c.ld)], Word(bus, c.ld))
    [] h = "latch_addr0_read_latch_addr"   -> Read(Latch0(c, bus), SetLo(c.la, bus))
    [] h = "r_izy_c2_ptrhi"                -> Read(LatchIndexed(c, bus, c.y), SetLo(c.la, Next8(Lo(c.la))))
    [] h = "latch_zp_addr_read_latch_addr" -> Read([c EXCEPT !.la = bus], bus)
    [] h = "zpx_c1_idx"                    -> Read(Latch0(c, (bus + c.x) % B), SetLo(c.la, bus))
    [] h = "r_zpy_c1_idx"                  -> Read(Latch0(c, (bus + c.y) % B), SetLo(c.la, bus))
    [] h = "rti_c3_pull_pcl"               -> StackRead([c EXCEPT !.p = FlagOff(bus, BFlag)])
    [] h = "latch_pcl_stack_read"          -> StackRead(SetPcLo(c, bus))
    [] OTHER                               -> StoreAddressHandler(h, c, bus)

\* Absolute indexed addresses, and the CMOS probe, which reads its operand again where
\* the NMOS one reads the unfixed address.
IndexedHandler(h, c, bus) ==
  LET fixed == [Latch1(c, (bus + c.ld) % B) EXCEPT !.pc = Wrap(c.pc + 1)]
  IN  CASE h = "latch_abx_base_read_pc_inc"  -> ReadPcInc(LatchIndexed(c, bus, c.x))
        [] h = "cmos_latch_abx_base_read_pc" -> Read(LatchIndexed(c, bus, c.x), c.pc)
        [] h = "latch_aby_base_read_pc_inc"  -> ReadPcInc(LatchIndexed(c, bus, c.y))
        [] h = "cmos_latch_aby_base_read_pc" -> Read(LatchIndexed(c, bus, c.y), c.pc)
        [] h = "cmos_r_indexed_probe"        ->
             IF c.ld = 0 THEN Read(Skip(fixed, 1), fixed.la) ELSE Read(fixed, c.pc)
        [] h = "cmos_w_indexed_probe"        -> Read(fixed, c.pc)
        [] OTHER                             -> PointerHandler(h, c, bus)

\* Absolute addresses, jumps and the call.
AbsoluteHandler(h, c, bus) ==
  CASE h = "latch_addr0_read_pc_inc"     -> ReadPcInc(Latch0(c, bus))
    [] h = "latch_addr1_set_pc_fetch"    -> Fetch([Latch1(c, bus) EXCEPT !.pc = SetHi(c.la, bus)])
    [] h = "jmp_ind_c2_target_lo"        -> Read([c EXCEPT !.la = Word(bus, Next8(Lo(c.la)))], SetHi(c.la, bus))
    [] h = "latch_data_read_latch_addr"  -> Read([c EXCEPT !.ld = bus], c.la)
    [] h = "jmp_ind_c4_fetch"            -> Fetch([c EXCEPT !.pc = Word(bus, c.ld)])
    [] h = "cmos_jmp_ind_x_c2_dummy"     -> Read(Latch1(c, bus), Wrap(c.pc - 2))
    [] h = "cmos_jmp_ind_x_c3_target_lo" -> Read([c EXCEPT !.la = Wrap(c.la + c.x + 1)], Wrap(c.la + c.x))
    [] h = "jsr_abs_c1_dummy"            -> Read(Latch0(c, bus), StackAddress(c.s))
    [] h = "latch_addr1_read_latch_addr" -> Read(Latch1(c, bus), SetHi(c.la, bus))
    [] OTHER                             -> IndexedHandler(h, c, bus)

\* Pushes and vectors of BRK and of the interrupt sequences.
InterruptHandler(h, c, bus) ==
  LET masked == [SetPcLo(c, bus) EXCEPT !.p = FlagOn(c.p, IFlag)]
      binary == [masked EXCEPT !.p = FlagOff(masked.p, DFlag)]
  IN  CASE h = "push_pc_high"         -> StackWrite(c, Hi(c.pc))
        [] h = "push_pc_low"          -> StackWrite(c, Lo(c.pc))
        [] h = "push_status_b"        -> StackWrite(c, PushedWithBreak(c.p))
        [] h = "interrupt_c3_push_p"  -> StackWrite(c, PushedByService(c.p))
        [] h = "nmi_c4_vec_lo"        -> Read(c, NmiVector)
        [] h = "nmi_c5_vec_hi"        -> Read(masked, NmiVector + 1)
        [] h = "cmos_nmi_c5_vec_hi"   -> Read(binary, NmiVector + 1)
        [] h = "brk_c5_vec_hi"        -> Read(masked, IrqVector + 1)
        [] h = "cmos_brk_c5_vec_hi"   -> Read(binary, IrqVector + 1)
        [] OTHER                      -> AbsoluteHandler(h, c, bus)

\* On a page crossing the target waits in the address latch for the cycle that fixes PC.
BranchHandler(h, c, bus) ==
  LET target == Wrap(c.pc + Signed(bus))
  IN  CASE h = "branch_rel_c1_apply" ->
             IF PageCrosses(c.pc, target)
               THEN Read([SetPcLo(c, Lo(target)) EXCEPT !.la = target], c.pc)
               ELSE Read(Skip(SetPcLo(c, Lo(target)), 1), c.pc)
        [] h = "branch_pgfix"         -> Read([c EXCEPT !.pc = c.la], c.pc)
        [] h = "wdc_bbr_bbs_c4_apply" ->
             IF PageCrosses(c.pc, target)
               THEN Read([c EXCEPT !.la = target], c.pc)
               ELSE Read(Skip([c EXCEPT !.pc = target], 1), c.pc)
        [] OTHER                      -> InterruptHandler(h, c, bus)

\* The end of reset, interrupts, BRK and RTI.
LatchPchFetch(c, bus) == Fetch(SetPcHi(c, bus))

ResetHandler(h, c, bus) ==
  LET moved == [c EXCEPT !.pc = CalculateResetPc(c.pc, bus)]
      counted == [moved EXCEPT !.ld = c.ld + 1]
  IN  CASE h = "internal_reset" /\ c.ld + 1 = 8 -> Read(NextEnterServiceSlot(counted, 259, 0), moved.pc)
        [] h = "internal_reset" /\ c.ld + 1 # 8 ->
             Result(LoopHere(counted), TickOf(moved.pc, 0, internal_reset))
        [] h = "restart_read_hhff"          -> Read(moved, moved.pc)
        [] h = "restart_read_zzhh_fetch"    -> Fetch(moved)
        [] h = "restart_read_zzhh"          -> Read(c, c.pc)
        [] h = "reset_stack_read"           -> Read([c EXCEPT !.s = (c.s - 1) % B], StackAddress(c.s))
        [] h = "reset_vec_lo"               -> Read(c, ResetVector)
        [] h = "reset_vec_hi"               ->
             Read([SetPcLo(c, bus) EXCEPT !.p = FlagOn(FlagOn(c.p, BFlag), IFlag)], ResetVector + 1)
        [] OTHER                                -> BranchHandler(h, c, bus)

\* Fetches, reads at PC and at the address latch, the stack.
SharedHandler(h, c, bus) ==
  CASE h = "fetch"                        -> Fetch(c)
    [] h = "fetch_illegal_ext"            -> Fetch(NextEnterServiceSlot(c, 257, 0))
    [] h = "read_pc_inc"                  -> ReadPcInc(c)
    [] h = "read_pc"                      -> Read(c, c.pc)
    [] h = "clear_latch_addr_read_pc_inc" -> ReadPcInc([c EXCEPT !.la = 0])
    [] h = "clear_latch_addr_read_pc"     -> Read([c EXCEPT !.la = 0], c.pc)
    [] h = "read_latch_addr"              -> Read(c, c.la)
    [] h = "latch_data_write_latch_addr"  -> Write([c EXCEPT !.ld = bus], c.la, bus)
    [] h = "read_stack_current_s"         -> Read(c, StackAddress(c.s))
    [] h = "stack_pull_read"              -> StackRead(c)
    [] h = "read_fffe"                    -> Read(c, IrqVector)
    [] h = "kil_jam_read_ffff"            -> Read(c, IrqVector + 1)
    [] h = "latch_pch_fetch"              -> LatchPchFetch(c, bus)
    [] h = "kil_jam_loop"                 -> Result(LoopHere(c), TickOf(IrqVector + 1, B - 1, cpu_jammed))
    [] OTHER                              -> ResetHandler(h, c, bus)

-----------------------------------------------------------------------------
(* Handlers that take the mnemonic of instruction i. *)

ExecFetch(c, bus, i) == Fetch(Loaded(i.mn, c, bus))

BranchC0Offset(c, i, taken) == ReadPcInc(IF i.kind = "bra" \/ taken THEN c ELSE Skip(c, 2))

\* The opcode is that of the slot under way, not that of the bus.
BbrBbsOffsetOrSkip(c, bus, i) ==
  ReadPcInc(IF ALU!Bit(bus, i.w) = (i.kind = "bbs") THEN c ELSE Skip(c, 2))

\* Mutants: the binary path skips a cell too many; the decimal path reads for ever.
ArithOrDummySkipsTwo(c, bus, i, dummy) ==
  IF ALU!Bit(c.p, DFlag)
    THEN Read([c EXCEPT !.ld = bus], dummy)
    ELSE Fetch(Skip(Loaded(i.mn, c, bus), 2))
ArithOrDummyStays(c, bus, i, dummy) ==
  IF ALU!Bit(c.p, DFlag)
    THEN Read([LoopHere(c) EXCEPT !.ld = bus], dummy)
    ELSE Fetch(Skip(Loaded(i.mn, c, bus), 1))

ArithOrDummy(c, bus, i, dummy) ==
  IF ALU!Bit(c.p, DFlag)
    THEN Read([c EXCEPT !.ld = bus], dummy)
    ELSE Fetch(Skip(Loaded(i.mn, c, bus), 1))
ArithDecFetch(c, i) == Fetch(Loaded(i.mn, c, c.ld))
\* Address 0 for SBC; 0x7f, 0x59 and 0x56 for the ADC of the three families, B - 1 here.
ArithDummy(i) == IF i.mn = "sbc" THEN 0 ELSE B - 1

ModifyWrite(c, i) == Write(Combined(i.mn, c, c.ld), c.la, Modified(i.mn, c, c.ld, i.w))
PushWrite(c, i) == StackWrite(c, Pushed(i.mn, c))
DummyRead(c, i) == Read(Implied(i.mn, c), c.pc)

StoreWrite(h, c, bus, i) ==
  CASE h = "addr_wr"           -> Write(c, c.la, Stored(i.mn, c))
    [] h = "pending_addrhi_wr" -> Write(c, SetHi(c.la, bus), Stored(i.mn, c))
    [] h = "pending_addrlo_wr" -> Write(c, bus, Stored(i.mn, c))
    [] OTHER                   -> SharedHandler(h, c, bus)

\* Mutant: the address is the sum of base and index.
WriteUnstableStoreIndexed(c, value) == Write(c, SetHi(c.la, (Hi(c.la) + c.ld) % B), value)

\* When the index crosses a page the value is also the high byte of the address.
WriteUnstableStore(c, value) == Write(c, IF c.ld = 0 THEN c.la ELSE SetHi(c.la, value), value)
UnstableWrite(c, i) ==
  WriteUnstableStore(AfterUnstable(i.mn, c), Unstable(i.mn, c, Hi(c.la)))

Handler(h, c, bus, i, taken) ==
  CASE h = "exec"                          -> ExecFetch(c, bus, i)
    [] h = "branch_c0_offset"              -> BranchC0Offset(c, i, taken)
    [] h = "wdc_bbr_bbs_c3_offset_or_skip" -> BbrBbsOffsetOrSkip(c, bus, i)
    [] h = "arith_or_dummy"                -> ArithOrDummy(c, bus, i, c.la)
    [] h = "arith_imm_or_dummy"            -> ArithOrDummy(c, bus, i, ArithDummy(i))
    [] h = "arith_dec_fetch"               -> ArithDecFetch(c, i)
    [] h = "rmw_wr"                        -> ModifyWrite(c, i)
    [] h = "push_wr"                       -> PushWrite(c, i)
    [] h = "dummy"                         -> DummyRead(c, i)
    [] h = "unstable_wr"                   -> UnstableWrite(c, i)
    [] OTHER                               -> StoreWrite(h, c, bus, i)
=============================================================================
