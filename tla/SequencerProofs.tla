---------------------------- MODULE SequencerProofs ----------------------------
(***************************************************************************)
(* The microcode pointer: it stays inside its row, and the interrupt          *)
(* sequences push a whole frame whichever way they are entered and left.      *)
(* And the fast path: it implements the resolver in every tick, on a CMOS     *)
(* model always, on an NMOS model as long as the host does not release NMI    *)
(* while sampling is off.                                                    *)
(***************************************************************************)
EXTENDS Qe6502Proofs

Interrupting == {"brk", "nmi", "irq"}

\* Entries that do not run on into the entry after them.
Last == {"dispatch", "jam", "internal_reset", "fetch_ext"}

\* The furthest a handler advances beyond the next entry.
Reach(h) ==
  IF h = "branch_c0" THEN 2
  ELSE IF h \in {"branch_c1", "rmw_probe", "probe", "probe_d0", "arith"} THEN 1 ELSE 0

(***************************************************************************)
(* What is true of every row of the control store.                           *)
(***************************************************************************)
WellFormed(s, r) ==
  /\ Len(r) \in Nat \ {0}
  /\ \A k \in 1 .. Len(r) :
       /\ r[k] \in Last \/ k + 1 + Reach(r[k]) <= Len(r)
       /\ r[k] = "dispatch" /\ k = 1 => s = "illegal_ext"
       /\ s \in Interrupting => (IsPush(r[k]) <=> k \in 2 .. 4) /\ Reach(r[k]) = 0
       /\ s \in Interrupting /\ r[k] \in Last => k = 8 /\ r[k] = "dispatch"
       /\ IsPush(r[k]) => s \in Interrupting
       /\ r[k] \in Arbitrating => k = 4

LEMMA CommonServicesWellFormed ==
  \A s \in DOMAIN CommonServices : WellFormed(s, CommonServices[s])
<1>1. /\ WellFormed("internal_reset", CommonServices.internal_reset)
      /\ WellFormed("reset", CommonServices.reset)
      /\ WellFormed("goto", CommonServices.goto)
      /\ WellFormed("illegal_ext", CommonServices.illegal_ext)
  BY DEF CommonServices, WellFormed, Reach, Last, Interrupting, IsPush, Arbitrating
<1>2. DOMAIN CommonServices = {"internal_reset", "reset", "goto", "illegal_ext"}
  BY DEF CommonServices
<1> QED BY <1>1, <1>2

LEMMA ServicesWellFormed ==
  \A s \in {"nmi", "irq"} : WellFormed(s, NmosServices[s]) /\ WellFormed(s, CmosServices[s])
<1>1. WellFormed("nmi", NmosServices.nmi) /\ WellFormed("irq", NmosServices.irq)
  BY DEF NmosServices, WellFormed, Reach, Last, Interrupting, IsPush, Arbitrating
<1>2. WellFormed("nmi", CmosServices.nmi) /\ WellFormed("irq", CmosServices.irq)
  BY DEF CmosServices, WellFormed, Reach, Last, Interrupting, IsPush, Arbitrating
<1> QED BY <1>1, <1>2

LEMMA CommonOpcodesWellFormed ==
  \A s \in DOMAIN CommonOpcodes : WellFormed(s, CommonOpcodes[s])
<1>1. /\ WellFormed("cycles2", CommonOpcodes.cycles2)
      /\ WellFormed("cycles3", CommonOpcodes.cycles3)
      /\ WellFormed("cycles4", CommonOpcodes.cycles4)
      /\ WellFormed("cycles5", CommonOpcodes.cycles5)
      /\ WellFormed("cycles6", CommonOpcodes.cycles6)
      /\ WellFormed("cycles7", CommonOpcodes.cycles7)
  BY DEF CommonOpcodes, WellFormed, Reach, Last, Interrupting, IsPush, Arbitrating
<1>2. /\ WellFormed("branch", CommonOpcodes.branch)
      /\ WellFormed("indexed_ab", CommonOpcodes.indexed_ab)
      /\ WellFormed("indexed_iy", CommonOpcodes.indexed_iy)
  BY DEF CommonOpcodes, WellFormed, Reach, Last, Interrupting, IsPush, Arbitrating
<1>3. /\ WellFormed("cli", CommonOpcodes.cli) /\ WellFormed("sei", CommonOpcodes.sei)
      /\ WellFormed("cld", CommonOpcodes.cld) /\ WellFormed("sed", CommonOpcodes.sed)
      /\ WellFormed("plp", CommonOpcodes.plp) /\ WellFormed("rti", CommonOpcodes.rti)
  BY DEF CommonOpcodes, WellFormed, Reach, Last, Interrupting, IsPush, Arbitrating
<1>4. DOMAIN CommonOpcodes =
        {"cycles2", "cycles3", "cycles4", "cycles5", "cycles6", "cycles7", "branch",
         "indexed_ab", "indexed_iy", "cli", "sei", "cld", "sed", "plp", "rti"}
  BY DEF CommonOpcodes
<1> QED BY <1>1, <1>2, <1>3, <1>4

LEMMA NmosOpcodesWellFormed ==
  \A s \in DOMAIN NmosOpcodes : WellFormed(s, NmosOpcodes[s])
<1>1. /\ WellFormed("brk", NmosOpcodes.brk)
      /\ WellFormed("cycles8", NmosOpcodes.cycles8)
      /\ WellFormed("kil", NmosOpcodes.kil)
  BY DEF NmosOpcodes, WellFormed, Reach, Last, Interrupting, IsPush, Arbitrating
<1>2. DOMAIN NmosOpcodes = {"brk", "cycles8", "kil"}
  BY DEF NmosOpcodes
<1> QED BY <1>1, <1>2

LEMMA CmosOpcodesWellFormed ==
  /\ \A s \in DOMAIN CmosOpcodes : WellFormed(s, CmosOpcodes[s])
  /\ \A s \in DOMAIN BitBranchOpcodes : WellFormed(s, BitBranchOpcodes[s])
<1>1. /\ WellFormed("brk", CmosOpcodes.brk) /\ WellFormed("nop_1c", CmosOpcodes.nop_1c)
      /\ WellFormed("bra", CmosOpcodes.bra) /\ WellFormed("rmw_abx", CmosOpcodes.rmw_abx)
  BY DEF CmosOpcodes, WellFormed, Reach, Last, Interrupting, IsPush, Arbitrating
<1>2. /\ WellFormed("arith_imm", CmosOpcodes.arith_imm)
      /\ WellFormed("arith_zp", CmosOpcodes.arith_zp)
      /\ WellFormed("arith_abs", CmosOpcodes.arith_abs)
      /\ WellFormed("arith_izp", CmosOpcodes.arith_izp)
      /\ WellFormed("arith_izx", CmosOpcodes.arith_izx)
      /\ WellFormed("arith_abx", CmosOpcodes.arith_abx)
      /\ WellFormed("arith_izy", CmosOpcodes.arith_izy)
  BY DEF CmosOpcodes, WellFormed, Reach, Last, Interrupting, IsPush, Arbitrating
<1>3. DOMAIN CmosOpcodes =
        {"brk", "nop_1c", "bra", "rmw_abx", "arith_imm", "arith_zp", "arith_abs",
         "arith_izp", "arith_izx", "arith_abx", "arith_izy"}
  BY DEF CmosOpcodes
<1>4. \A s \in DOMAIN BitBranchOpcodes : WellFormed(s, BitBranchOpcodes[s])
  <2>1. WellFormed("bbr_bbs", BitBranchOpcodes.bbr_bbs)
    BY DEF BitBranchOpcodes, WellFormed, Reach, Last, Interrupting, IsPush, Arbitrating
  <2>2. DOMAIN BitBranchOpcodes = {"bbr_bbs"}
    BY DEF BitBranchOpcodes
  <2> QED BY <2>1, <2>2
<1> QED BY <1>1, <1>2, <1>3, <1>4

LEMMA RowsWellFormed ==
  ASSUME NEW m \in AllModels, NEW s \in Rows(m)
  PROVE  WellFormed(s, Row(m, s))
<1>1. /\ DOMAIN NmosServices = {"nmi", "irq"} /\ DOMAIN CmosServices = {"nmi", "irq"}
      /\ DOMAIN CommonServices \cap {"nmi", "irq"} = {}
  BY DEF CommonServices, NmosServices, CmosServices
<1>2. CASE s \in ServiceRows
  <2>1. Row(m, s) = ServiceRow(m, s)
    BY <1>2 DEF Row
  <2>2. ServiceRow(m, s) = IF s \in DOMAIN CommonServices THEN CommonServices[s]
                           ELSE IF m \in NmosModels THEN NmosServices[s] ELSE CmosServices[s]
    BY DEF ServiceRow
  <2>3. s \notin DOMAIN CommonServices => s \in {"nmi", "irq"}
    BY <1>1, <1>2 DEF ServiceRows
  <2> QED BY <2>1, <2>2, <2>3, CommonServicesWellFormed, ServicesWellFormed
<1>3. CASE s \notin ServiceRows
  <2>1. Row(m, s) = OpcodeRow(m, s)
    BY <1>3 DEF Row
  <2>2. OpcodeRow(m, s) = IF s \in DOMAIN CommonOpcodes THEN CommonOpcodes[s]
                          ELSE IF m \in NmosModels THEN NmosOpcodes[s]
                          ELSE IF s \in DOMAIN BitBranchOpcodes THEN BitBranchOpcodes[s]
                          ELSE CmosOpcodes[s]
    BY DEF OpcodeRow
  <2>3. s \in OpcodeRows(m)
    BY <1>3 DEF Rows
  <2>4. /\ m \in NmosModels => s \in DOMAIN CommonOpcodes \cup DOMAIN NmosOpcodes
        /\ m \notin NmosModels =>
             s \in DOMAIN CommonOpcodes \cup DOMAIN CmosOpcodes \cup DOMAIN BitBranchOpcodes
    BY <2>3 DEF OpcodeRows, NmosModels
  <2> QED BY <2>1, <2>2, <2>4, CommonOpcodesWellFormed, NmosOpcodesWellFormed,
             CmosOpcodesWellFormed
<1> QED BY <1>2, <1>3
-----------------------------------------------------------------------------
(***************************************************************************)
(* One entry.                                                               *)
(***************************************************************************)
InRow(at) == /\ at[1] \in Rows(model)
             /\ at[2] \in 0 .. Len(Row(model, at[1])) - 1
             /\ at = <<at[1], at[2]>>

\* The frame so far is the entry's number, and complete from the vector on.
FrameAt(s, c, n) ==
  s \in Interrupting /\ c >= 1 => n = IF c <= 4 THEN c - 1 ELSE 3

PointerInv ==
  /\ TypeOK
  /\ FrameAt(slot, cycle, pushed)

LEMMA RowFacts ==
  ASSUME TypeOK, NEW at, InRow(at)
  PROVE  LET h == Handler(model, at)
             k == at[2] + 1
             n == Len(Row(model, at[1]))
         IN  /\ n \in Nat \ {0} /\ k \in 1 .. n
             /\ h \in Last \/ k + 1 + Reach(h) <= n
             /\ h = "dispatch" /\ k = 1 => at[1] = "illegal_ext"
             /\ at[1] \in Interrupting => (IsPush(h) <=> k \in 2 .. 4) /\ Reach(h) = 0
             /\ at[1] \in Interrupting /\ h \in Last => k = 8 /\ h = "dispatch"
             /\ IsPush(h) => at[1] \in Interrupting
             /\ h \in Arbitrating => k = 4
<1>1. model \in AllModels
  BY ModelsAssumption DEF TypeOK
<1>2. WellFormed(at[1], Row(model, at[1]))
  BY <1>1, RowsWellFormed DEF InRow
<1> QED BY <1>2 DEF WellFormed, InRow, Handler

\* The service rows every model has.
LEMMA ServiceLengths ==
  ASSUME NEW m \in AllModels
  PROVE  /\ {"internal_reset", "reset", "goto", "illegal_ext", "nmi", "irq"} = ServiceRows
         /\ Len(Row(m, "internal_reset")) = 1 /\ Len(Row(m, "reset")) = 10
         /\ Len(Row(m, "goto")) = 2 /\ Len(Row(m, "illegal_ext")) = 1
         /\ Len(Row(m, "nmi")) = 8 /\ Len(Row(m, "irq")) = 8
<1>1. {"internal_reset", "reset", "goto", "illegal_ext", "nmi", "irq"} = ServiceRows
  BY DEF ServiceRows, CommonServices, NmosServices, CmosServices
<1>2. /\ Row(m, "internal_reset") = CommonServices.internal_reset
      /\ Row(m, "reset") = CommonServices.reset
      /\ Row(m, "goto") = CommonServices.goto
      /\ Row(m, "illegal_ext") = CommonServices.illegal_ext
  BY <1>1 DEF Row, ServiceRow, CommonServices
<1>3. /\ Row(m, "nmi") \in {NmosServices.nmi, CmosServices.nmi}
      /\ Row(m, "irq") \in {NmosServices.irq, CmosServices.irq}
  BY <1>1 DEF Row, ServiceRow, CommonServices
<1>4. /\ Len(CommonServices.internal_reset) = 1 /\ Len(CommonServices.reset) = 10
      /\ Len(CommonServices.goto) = 2 /\ Len(CommonServices.illegal_ext) = 1
  BY DEF CommonServices
<1>5. /\ Len(NmosServices.nmi) = 8 /\ Len(CmosServices.nmi) = 8
      /\ Len(NmosServices.irq) = 8 /\ Len(CmosServices.irq) = 8
  BY DEF NmosServices, CmosServices
<1> QED BY <1>1, <1>2, <1>3, <1>4, <1>5

\* A tick runs an entry of a row, and never mc_dispatch twice.
LEMMA ExecutedInRow ==
  ASSUME TypeOK, NEW s, NEW c, <<s, c>> \in {<<slot, cycle>>, <<"goto", 0>>},
         NEW at \in Executed(model, Opcodes, s, c)
  PROVE  InRow(at) /\ Handler(model, at) # "dispatch" /\ (at = <<s, c>> \/ at[2] = 0)
<1>1. model \in AllModels
  BY ModelsAssumption DEF TypeOK
<1>2. InRow(<<s, c>>)
  <2>1. CASE s = slot /\ c = cycle
    BY <2>1 DEF TypeOK, InRow
  <2>2. CASE s = "goto" /\ c = 0
    <3>1. Len(Row(model, "goto")) = 2 /\ "goto" \in ServiceRows
      BY <1>1, ServiceLengths
    <3> QED BY <2>2, <3>1 DEF InRow, Rows
  <2> QED BY <2>1, <2>2
<1>3. CASE Handler(model, <<s, c>>) # "dispatch"
  BY <1>2, <1>3 DEF Executed
<1>4. CASE Handler(model, <<s, c>>) = "dispatch"
  <2>1. PICK op \in Opcodes \cap OpcodeRows(model) : at = <<op, 0>>
    BY <1>4 DEF Executed
  <2>2. op \in Rows(model) /\ op # "illegal_ext"
    BY DEF Rows, OpcodeRows, CommonOpcodes, NmosOpcodes, CmosOpcodes, BitBranchOpcodes
  <2>3. InRow(at)
    BY <1>1, <2>1, <2>2, RowsWellFormed DEF WellFormed, InRow
  <2>4. Handler(model, at) # "dispatch"
    BY <2>1, <2>2, <2>3, RowFacts
  <2> QED BY <2>1, <2>3, <2>4
<1> QED BY <1>3, <1>4

LEMMA SkipsBounded ==
  ASSUME NEW h, NEW f, NEW skip \in Skips(h, f)
  PROVE  skip \in Nat /\ skip <= Reach(h)
BY DEF Skips, Reach

\* The entry a handler leaves the microcode at is in its row.
LEMMA NextInRow ==
  ASSUME TypeOK, NEW at, InRow(at), Handler(model, at) # "dispatch",
         NEW i, NEW f, NEW skip \in Skips(Handler(model, at), f)
  PROVE  LET next == NextEntry(Handler(model, at), at, i, f, skip, count)
         IN  /\ next[1] \in Rows(model)
             /\ next[2] \in 0 .. Len(Row(model, next[1])) - 1
<1> DEFINE h      == Handler(model, at)
           vector == VectorAfter(h, i, f)
           next   == NextEntry(h, at, i, f, skip, count)
<1> SUFFICES /\ next[1] \in Rows(model)
             /\ next[2] \in 0 .. Len(Row(model, next[1])) - 1
  OBVIOUS
<1>1. model \in AllModels
  BY ModelsAssumption DEF TypeOK
<1>2. count \in 0 .. 7
  BY DEF TypeOK
<1>3. skip \in Nat /\ skip <= Reach(h)
  BY SkipsBounded
<1>4. \/ next = at
      \/ next = <<"reset", 0>>
      \/ next = <<"illegal_ext", 0>>
      \/ next \in {<<"nmi", 4>>, <<"irq", 4>>}
      \/ h \notin Last /\ next = <<at[1], at[2] + 1 + skip>>
  <2>1. vector \in {"nmi", "irq", "same"}
    BY DEF VectorAfter
  <2> HIDE DEF vector, h
  <2>2. next = CASE h = "jam"                         -> at
                 [] h = "internal_reset" /\ count < 7 -> at
                 [] h = "internal_reset" /\ count = 7 -> <<"reset", 0>>
                 [] h = "fetch_ext"                   -> <<"illegal_ext", 0>>
                 [] vector # "same"                   -> <<vector, 4>>
                 [] OTHER                             -> <<at[1], at[2] + 1 + skip>>
    BY DEF NextEntry, vector, h
  <2>3. h # "dispatch"
    BY DEF h
  <2> QED BY <1>2, <2>1, <2>2, <2>3 DEF Last
<1>5. CASE next \in {<<"reset", 0>>, <<"illegal_ext", 0>>, <<"nmi", 4>>, <<"irq", 4>>}
  <2>1. {"reset", "illegal_ext", "nmi", "irq"} \subseteq Rows(model)
    BY <1>1, ServiceLengths DEF Rows
  <2>2. /\ Len(Row(model, "reset")) = 10 /\ Len(Row(model, "illegal_ext")) = 1
        /\ Len(Row(model, "nmi")) = 8 /\ Len(Row(model, "irq")) = 8
    BY <1>1, ServiceLengths
  <2> HIDE DEF next
  <2>3. CASE next = <<"reset", 0>>
    BY <2>1, <2>2, <2>3
  <2>4. CASE next = <<"illegal_ext", 0>>
    <3>1. next[1] = "illegal_ext" /\ next[2] = 0
      BY <2>4
    <3>2. Len(Row(model, next[1])) - 1 = 0
      BY <2>2, <3>1
    <3>3. next[2] \in 0 .. 0 /\ next[1] \in Rows(model)
      BY <2>1, <3>1
    <3> QED BY <3>2, <3>3
  <2>5. CASE next \in {<<"nmi", 4>>, <<"irq", 4>>}
    <3>1. next[1] \in {"nmi", "irq"} /\ next[2] = 4
      BY <2>5
    <3>2. Len(Row(model, next[1])) = 8
      BY <2>2, <3>1
    <3> QED BY <2>1, <3>1, <3>2
  <2> QED BY <1>5, <2>3, <2>4, <2>5
<1>6. CASE next = at
  BY <1>6 DEF InRow
<1>7. CASE h \notin Last /\ next = <<at[1], at[2] + 1 + skip>>
  <2>1. at[2] + 2 + Reach(h) <= Len(Row(model, at[1])) /\ Len(Row(model, at[1])) \in Nat
    BY <1>7, RowFacts DEF InRow
  <2>2. at[2] \in Nat /\ at[1] \in Rows(model) /\ Reach(h) \in Nat
    BY DEF InRow, Reach
  <2> HIDE DEF next, h
  <2> QED BY <1>3, <1>7, <2>1, <2>2
<1> QED BY <1>4, <1>5, <1>6, <1>7

\* The frame count after an entry fits where the microcode goes next.
LEMMA NextFrame ==
  ASSUME PointerInv, NEW at, InRow(at), Handler(model, at) # "dispatch",
         at = <<slot, cycle>> \/ at[2] = 0,
         NEW i, NEW f, NEW skip \in Skips(Handler(model, at), f),
         NEW n, n = IF at[2] = 0 THEN 0
                    ELSE IF IsPush(Handler(model, at)) THEN pushed + 1 ELSE pushed
  PROVE  LET next == NextEntry(Handler(model, at), at, i, f, skip, count)
         IN  n \in 0 .. 3 /\ FrameAt(next[1], next[2], n)
<1> DEFINE h      == Handler(model, at)
           vector == VectorAfter(h, i, f)
           next   == NextEntry(h, at, i, f, skip, count)
<1> SUFFICES n \in 0 .. 3 /\ FrameAt(next[1], next[2], n)
  OBVIOUS
<1>1. /\ at[1] \in Interrupting => (IsPush(h) <=> at[2] \in 1 .. 3) /\ Reach(h) = 0
      /\ at[1] \in Interrupting /\ h \in Last => h = "dispatch"
      /\ IsPush(h) => at[1] \in Interrupting
      /\ h \in Arbitrating => at[2] = 3
      /\ at[2] \in Nat
  <2>1. at[2] \in Nat
    BY DEF InRow, PointerInv, TypeOK
  <2> QED BY <2>1, RowFacts DEF PointerInv
<1>2. skip \in Nat /\ skip <= Reach(h)
  BY SkipsBounded
<1>3. pushed \in 0 .. 3
  BY DEF PointerInv, TypeOK
<1>4. at[1] \in Interrupting /\ at[2] >= 1 => pushed = IF at[2] <= 4 THEN at[2] - 1 ELSE 3
  BY <1>1 DEF PointerInv, FrameAt
<1>5. n \in 0 .. 3
  <2> HIDE DEF h
  <2> QED BY <1>1, <1>3, <1>4 DEF h
<1>6. CASE at[1] \in Interrupting
  <2>1. next = IF vector # "same" THEN <<vector, 4>> ELSE <<at[1], at[2] + 1>>
    <3>1. h \notin Last /\ skip = 0
      BY <1>1, <1>2, <1>6 DEF Reach
    <3> HIDE DEF h, vector
    <3>2. next = IF vector # "same" THEN <<vector, 4>> ELSE <<at[1], at[2] + 1 + skip>>
      BY <3>1 DEF NextEntry, Last, vector
    <3> QED BY <1>1, <3>1, <3>2
  <2>2. vector # "same" => h \in Arbitrating
    BY DEF VectorAfter, Arbitrating
  <2> HIDE DEF next, h, vector
  <2>3. CASE vector # "same"
    <3>1. n = 3
      BY <1>1, <1>4, <1>6, <2>2, <2>3 DEF h
    <3> QED BY <1>5, <2>1, <2>3, <3>1 DEF FrameAt
  <2>4. CASE vector = "same"
    <3>1. next = <<at[1], at[2] + 1>>
      BY <2>1, <2>4
    <3>2. at[2] + 1 >= 1 => n = IF at[2] + 1 <= 4 THEN at[2] ELSE 3
      BY <1>1, <1>3, <1>4, <1>6 DEF h
    <3> QED BY <1>1, <1>5, <3>1, <3>2 DEF FrameAt
  <2> QED BY <2>3, <2>4
<1>7. CASE at[1] \notin Interrupting
  <2>1. h \notin Arbitrating /\ vector = "same"
    BY <1>1, <1>7 DEF VectorAfter, Arbitrating, IsPush
  <2>2. next[1] \notin Interrupting
    <3> HIDE DEF h, vector
    <3> QED BY <1>7, <2>1 DEF NextEntry, Interrupting, vector
  <2> QED BY <1>5, <2>2 DEF FrameAt
<1> QED BY <1>6, <1>7
-----------------------------------------------------------------------------
(***************************************************************************)
(* Ticks and host calls.                                                    *)
(***************************************************************************)
LEMMA StepPointer ==
  ASSUME PointerInv, HijackInv, HijackInv', NEW s, NEW c,
         <<s, c>> \in {<<slot, cycle>>, <<"goto", 0>>}, StepFrom(s, c)
  PROVE  PointerInv'
<1>1. PICK at \in Executed(model, Opcodes, s, c) :
        \E skip \in Skips(Handler(model, at), p) : RunEntry(at, skip)
  BY DEF StepFrom
<1>2. PICK skip \in Skips(Handler(model, at), p) : RunEntry(at, skip)
  BY <1>1
<1> DEFINE h      == Handler(model, at)
           pre    == Prefetches(h, p, skip)
           fetch  == Fetches(h, p)
           before == IF hijack THEN SampleNmi(ints) ELSE ints
           served == IF hijack THEN Served(IntsAfter(h, before, p, pre), fetch) ELSE "none"
           next   == NextEntry(h, at, before, p, skip, count)
<1>3. TypeOK
  BY DEF PointerInv
<1>4. InRow(at) /\ h # "dispatch" /\ (at = <<slot, cycle>> \/ at[2] = 0)
  <2>1. at = <<s, c>> \/ at[2] = 0
    BY <1>1, <1>3, ExecutedInRow
  <2> QED BY <1>1, <1>3, <2>1, ExecutedInRow
<1>5. /\ next[1] \in Rows(model)
      /\ next[2] \in 0 .. Len(Row(model, next[1])) - 1
  BY <1>2, <1>3, <1>4, NextInRow
<1>6. pushed' \in 0 .. 3 /\ FrameAt(next[1], next[2], pushed')
  <2>1. pushed' = IF at[2] = 0 THEN 0 ELSE IF IsPush(h) THEN pushed + 1 ELSE pushed
    BY <1>2 DEF RunEntry
  <2> HIDE DEF before
  <2> QED BY <1>2, <1>4, <2>1, NextFrame
<1>7. model' = model /\ model \in AllModels
  BY <1>2, <1>3, ModelsAssumption DEF RunEntry, TypeOK
<1>8. served \in {"none", "nmi", "irq"}
  BY DEF Served
<1>9. /\ slot' = IF served = "none" THEN next[1] ELSE served
      /\ cycle' = IF served = "none" THEN next[2] ELSE 0
  BY <1>2 DEF RunEntry
<1>10. slot' \in Rows(model) /\ cycle' \in 0 .. Len(Row(model, slot')) - 1
  <2>1. CASE served = "none"
    <3> HIDE DEF next, served
    <3> QED BY <1>5, <1>9, <2>1
  <2>2. CASE served \in {"nmi", "irq"}
    <3>1. served \in Rows(model) /\ Len(Row(model, served)) = 8
      BY <1>7, <2>2, ServiceLengths DEF Rows
    <3>2. slot' = served /\ cycle' = 0
      BY <1>9, <2>2
    <3> QED BY <3>1, <3>2
  <2> QED BY <1>8, <2>1, <2>2
<1>11. FrameAt(slot', cycle', pushed')
  <2> HIDE DEF next, served
  <2> QED BY <1>6, <1>8, <1>9 DEF FrameAt
<1>12. p' \subseteq {"I", "D"}
  <2>1. p' \in PAfter(h, p) /\ p \subseteq {"I", "D"}
    BY <1>2, <1>3 DEF RunEntry, TypeOK
  <2>2. \A q \in PAfter(h, p) : q \subseteq {"I", "D"}
    BY <2>1 DEF PAfter
  <2> QED BY <2>1, <2>2
<1>13. count' \in 0 .. 7
  <2>1. count' = CountAfter(h, count) /\ count \in 0 .. 7
    BY <1>2, <1>3 DEF RunEntry, TypeOK
  <2> QED BY <2>1 DEF CountAfter
<1>14. status' \in Statuses
  BY <1>2 DEF RunEntry, StatusAfter, Statuses
<1>15. credit' \in Int
  BY <1>2, <1>3 DEF RunEntry, TypeOK
<1>16. armed' \in BOOLEAN
  BY <1>2, <1>3 DEF RunEntry, TypeOK
<1>17. granted' \in BOOLEAN
  BY <1>2, <1>3 DEF RunEntry, TypeOK
<1>18. ints' \subseteq Flags /\ hijack' \in BOOLEAN
  BY DEF HijackInv
<1> QED BY <1>3, <1>6, <1>7, <1>10, <1>11, <1>12, <1>13, <1>14, <1>15, <1>16, <1>17, <1>18
        DEF PointerInv, TypeOK

LEMMA NextPointer ==
  ASSUME PointerInv, HijackInv, [Next]_vars
  PROVE  PointerInv'
<1>1. HijackInv'
  BY NextHijack
<1>2. ints' \subseteq Flags /\ hijack' \in BOOLEAN
  BY <1>1 DEF HijackInv
<1>3. CASE Tick
  BY <1>1, <1>3, StepPointer DEF Tick
<1>4. CASE Goto
  BY <1>1, <1>4, StepPointer DEF Goto
<1>5. CASE PinCall
  <2>1. UNCHANGED <<model, slot, cycle, p, count, status, armed, granted, pushed>>
    BY <1>5 DEF PinCall, NmiAssert, NmiRelease, IrqAssert, IrqRelease, historyVars
  <2>2. credit' \in Int
    BY <1>5 DEF PinCall, NmiAssert, NmiRelease, IrqAssert, IrqRelease, historyVars,
                PointerInv, TypeOK
  <2> QED BY <1>2, <2>1, <2>2 DEF PointerInv, TypeOK
<1>6. CASE Restart
  <2>1. /\ "internal_reset" \in Rows(model) /\ Len(Row(model, "internal_reset")) = 1
        /\ model \in Models
    BY ServiceLengths, ModelsAssumption DEF PointerInv, TypeOK, Rows
  <2>2. /\ slot' = "internal_reset" /\ cycle' = 0 /\ pushed' = 0 /\ model' = model
        /\ p' = {} /\ count' = 0 /\ status' = "internal_reset" /\ credit' = 0
        /\ armed' = TRUE /\ granted' = FALSE
    BY <1>6 DEF Restart
  <2>3. slot' \in Rows(model') /\ cycle' \in 0 .. Len(Row(model', slot')) - 1
    BY <2>1, <2>2
  <2>4. FrameAt(slot', cycle', pushed')
    BY <2>2 DEF FrameAt
  <2>5. status' \in Statuses /\ p' \subseteq {"I", "D"}
    BY <2>2 DEF Statuses
  <2>6. armed' \in BOOLEAN /\ granted' \in BOOLEAN
    BY <2>2, Zenon
  <2>7. count' \in 0 .. 7 /\ credit' \in Int /\ pushed' \in 0 .. 3 /\ model' \in Models
    BY <2>1, <2>2
  <2> QED BY <1>2, <2>3, <2>4, <2>5, <2>6, <2>7 DEF PointerInv, TypeOK
<1>7. CASE UNCHANGED vars
  BY <1>7 DEF vars, cpuVars, historyVars, PointerInv, TypeOK
<1> QED BY <1>3, <1>4, <1>5, <1>6, <1>7 DEF Next

LEMMA InitPointer ==
  ASSUME Init
  PROVE  PointerInv
<1>1. /\ "internal_reset" \in Rows(model) /\ Len(Row(model, "internal_reset")) = 1
  BY ServiceLengths, ModelsAssumption DEF Init, Rows
<1>2. slot \in Rows(model) /\ cycle \in 0 .. Len(Row(model, slot)) - 1
  BY <1>1 DEF Init
<1>3. FrameAt(slot, cycle, pushed)
  BY DEF Init, FrameAt
<1>4. status \in Statuses /\ p \subseteq {"I", "D"} /\ ints \subseteq Flags
  BY DEF Init, Statuses
<1>5. hijack \in BOOLEAN /\ armed \in BOOLEAN /\ granted \in BOOLEAN
  BY Zenon DEF Init
<1>6. count \in 0 .. 7 /\ credit \in Int /\ pushed \in 0 .. 3 /\ model \in Models
  BY DEF Init
<1> QED BY <1>2, <1>3, <1>4, <1>5, <1>6 DEF PointerInv, TypeOK

LEMMA PointerInvariant == Spec => []PointerInv
<1>1. Init => PointerInv
  BY InitPointer
<1>2. PointerInv /\ HijackInv /\ [Next]_vars => PointerInv'
  BY NextPointer
<1> QED BY <1>1, <1>2, HijackInvariant, PTL DEF Spec

\* The microcode pointer never leaves its row, in any model, for any program and
\* any host: no tick runs an entry of a neighbouring opcode.
THEOREM PointerStaysInRow == Spec => []TypeOK
<1>1. PointerInv => TypeOK
  BY DEF PointerInv
<1> QED BY <1>1, PointerInvariant, PTL

\* PC high, PC low and P are on the stack when a vector is fetched, however the
\* sequence was entered and whichever hijack changed its vector.
THEOREM FramesAreComplete == Spec => []FrameComplete
<1>1. PointerInv => FrameComplete
  BY DEF PointerInv, TypeOK, FrameAt, FrameComplete, Interrupting
<1> QED BY <1>1, PointerInvariant, PTL
-----------------------------------------------------------------------------
(***************************************************************************)
(* The window in which an NMOS sequence has sampling off.                    *)
(***************************************************************************)
\* The handlers that turn sampling on again.
Closing == {"brk_c5", "nmi_c5", "irq_c5"}

LEMMA NmosSequences ==
  ASSUME NEW m \in NmosModels, NEW s \in Interrupting
  PROVE  Row(m, s)[5] = "body" /\ Row(m, s)[6] \in Closing
<1>1. /\ "nmi" \in ServiceRows /\ "irq" \in ServiceRows /\ "brk" \notin ServiceRows
      /\ "brk" \notin DOMAIN CommonOpcodes /\ DOMAIN CommonServices \cap Interrupting = {}
  BY DEF ServiceRows, CommonServices, NmosServices, CmosServices, CommonOpcodes, Interrupting
<1>2. /\ Row(m, "nmi") = NmosServices.nmi /\ Row(m, "irq") = NmosServices.irq
      /\ Row(m, "brk") = NmosOpcodes.brk
  BY <1>1 DEF Row, ServiceRow, OpcodeRow, Interrupting
<1>3. /\ NmosServices.nmi[5] = "body" /\ NmosServices.nmi[6] = "nmi_c5"
      /\ NmosServices.irq[5] = "body" /\ NmosServices.irq[6] = "irq_c5"
      /\ NmosOpcodes.brk[5] = "body" /\ NmosOpcodes.brk[6] = "brk_c5"
  BY DEF NmosServices, NmosOpcodes
<1> QED BY <1>2, <1>3 DEF Interrupting, Closing

LEMMA CmosSequences ==
  ASSUME NEW m \in CmosModels, NEW s \in Interrupting
  PROVE  Row(m, s)[4] \notin Arbitrating
<1>1. /\ "nmi" \in ServiceRows /\ "irq" \in ServiceRows /\ "brk" \notin ServiceRows
      /\ "brk" \notin DOMAIN CommonOpcodes /\ DOMAIN CommonServices \cap Interrupting = {}
      /\ "brk" \notin DOMAIN BitBranchOpcodes /\ m \notin NmosModels
  BY DEF ServiceRows, CommonServices, NmosServices, CmosServices, CommonOpcodes,
         BitBranchOpcodes, Interrupting, NmosModels, CmosModels
<1>2. /\ Row(m, "nmi") = CmosServices.nmi /\ Row(m, "irq") = CmosServices.irq
      /\ Row(m, "brk") = CmosOpcodes.brk
  BY <1>1 DEF Row, ServiceRow, OpcodeRow, Interrupting
<1>3. /\ CmosServices.nmi[4] = "cmos_nmi_c3" /\ CmosServices.irq[4] = "cmos_irq_c3"
      /\ CmosOpcodes.brk[4] = "push"
  BY DEF CmosServices, CmosOpcodes
<1> QED BY <1>2, <1>3 DEF Interrupting, Arbitrating

WindowInv ==
  "sampling_off" \in ints =>
    /\ model \in NmosModels
    /\ ~GotoInWindow => slot \in Interrupting /\ cycle \in 4 .. 5

\* Only an arbitration opens the window.
LEMMA EntryWindow ==
  ASSUME NEW at, NEW skip, RunEntry(at, skip), "sampling_off" \in ints'
  PROVE  \/ Handler(model, at) \in Arbitrating
         \/ "sampling_off" \in ints /\ Handler(model, at) \notin Closing
<1> DEFINE h      == Handler(model, at)
           pre    == Prefetches(h, p, skip)
           fetch  == Fetches(h, p)
           before == IF hijack THEN SampleNmi(ints) ELSE ints
           after  == IntsAfter(h, before, p, pre)
<1>1. "sampling_off" \in before <=> "sampling_off" \in ints
  BY DEF SampleNmi, UpdateNmiLastSampled
<1>2. "sampling_off" \in after =>
        h \in Arbitrating \/ ("sampling_off" \in before /\ h \notin Closing)
  <2>0. h \in Closing => ~pre
    BY DEF Closing, Prefetches
  <2> HIDE DEF h, pre, before
  <2>1. CASE h \in Closing
    BY <2>0, <2>1 DEF IntsAfter, Acknowledge, UpdateNmiLastSampled, Closing, Arbitrating
  <2>2. CASE h \notin Closing /\ h \notin Arbitrating
    BY <2>2 DEF IntsAfter, Acknowledge, UpdateNmiLastSampled, Closing
  <2> QED BY <2>1, <2>2
<1>3. "sampling_off" \in Resolve(after, p, fetch) => "sampling_off" \in after
  <2> HIDE DEF after
  <2> QED BY DEF Resolve, FindActiveInterrupt, Taken
<1>4. ints' = IF hijack THEN Resolve(after, p, fetch) ELSE after
  BY DEF RunEntry
<1> HIDE DEF after, before
<1> QED BY <1>1, <1>2, <1>3, <1>4

\* A tick inside a sequence goes on to the next entry.
LEMMA SequenceGoesOn ==
  ASSUME NEW at, NEW skip \in Skips(Handler(model, at), p), RunEntry(at, skip),
         at[2] \in Nat,
         Handler(model, at) \in Arbitrating
           \/ (Handler(model, at) = "body" /\ at[1] \in Interrupting)
  PROVE  \/ slot' = at[1] /\ cycle' = at[2] + 1
         \/ Handler(model, at) \in Arbitrating /\ slot' \in Interrupting /\ cycle' = 4
<1> DEFINE h      == Handler(model, at)
           before == IF hijack THEN SampleNmi(ints) ELSE ints
           vector == VectorAfter(h, before, p)
           after  == IntsAfter(h, before, p, Prefetches(h, p, skip))
           served == IF hijack THEN Served(after, Fetches(h, p)) ELSE "none"
<1>1. ~Fetches(h, p) /\ skip = 0
  BY DEF Fetches, Arbitrating, Skips
<1>2. served = "none"
  BY <1>1 DEF Served
<1>3. /\ vector \in {"nmi", "irq", "same"}
      /\ vector # "same" => h \in Arbitrating
  BY DEF VectorAfter, Arbitrating
<1>4. slot' = NextEntry(h, at, before, p, skip, count)[1]
      /\ cycle' = NextEntry(h, at, before, p, skip, count)[2]
  BY <1>2 DEF RunEntry
<1>5. NextEntry(h, at, before, p, skip, count)
        = IF vector # "same" THEN <<vector, 4>> ELSE <<at[1], at[2] + 1>>
  BY <1>1 DEF NextEntry, Arbitrating
<1> HIDE DEF h, vector, before
<1> QED BY <1>3, <1>4, <1>5 DEF Interrupting, h

LEMMA StepWindow ==
  ASSUME PointerInv, WindowInv, NEW s, NEW c,
         \/ s = slot /\ c = cycle
         \/ s = "goto" /\ c = 0 /\ ("sampling_off" \in ints => GotoInWindow),
         StepFrom(s, c)
  PROVE  WindowInv'
<1>1. PICK at \in Executed(model, Opcodes, s, c) :
        \E skip \in Skips(Handler(model, at), p) : RunEntry(at, skip)
  BY DEF StepFrom
<1>2. PICK skip \in Skips(Handler(model, at), p) : RunEntry(at, skip)
  BY <1>1
<1> DEFINE h == Handler(model, at)
<1>3. TypeOK /\ model \in AllModels
  BY ModelsAssumption DEF PointerInv, TypeOK
<1>4. InRow(at) /\ (at = <<s, c>> \/ at[2] = 0) /\ at[2] \in Nat
  BY <1>1, <1>3, ExecutedInRow DEF InRow
<1>5. h = Row(model, at[1])[at[2] + 1]
  BY DEF Handler
<1>6. model' = model
  BY <1>2 DEF RunEntry
<1>7. SUFFICES ASSUME "sampling_off" \in ints'
               PROVE  /\ model \in NmosModels
                      /\ ~GotoInWindow => slot' \in Interrupting /\ cycle' \in 4 .. 5
  BY <1>6 DEF WindowInv
<1>8. h \in Arbitrating \/ ("sampling_off" \in ints /\ h \notin Closing)
  BY <1>2, <1>7, EntryWindow
<1>9. CASE h \in Arbitrating
  <2>1. at[1] \in Interrupting /\ at[2] = 3
    BY <1>3, <1>4, <1>9, RowFacts DEF IsPush, Arbitrating
  <2>2. model \in NmosModels
    <3>1. h = Row(model, at[1])[4]
      BY <1>5, <2>1
    <3> QED BY <1>3, <1>9, <2>1, <3>1, CmosSequences DEF AllModels
  <2>3. slot' \in Interrupting /\ cycle' = 4
    BY <1>2, <1>4, <1>9, <2>1, SequenceGoesOn
  <2> QED BY <2>2, <2>3
<1>10. CASE h \notin Arbitrating
  <2>1. "sampling_off" \in ints /\ h \notin Closing /\ model \in NmosModels
    BY <1>8, <1>10 DEF WindowInv
  <2>2. SUFFICES ASSUME ~GotoInWindow
                 PROVE  slot' \in Interrupting /\ cycle' \in 4 .. 5
    BY <2>1
  <2>3. s = slot /\ c = cycle /\ slot \in Interrupting /\ cycle \in 4 .. 5
    BY <2>1, <2>2 DEF WindowInv
  <2>4. Row(model, slot)[5] = "body" /\ Row(model, slot)[6] \in Closing
    BY <2>1, <2>3, NmosSequences
  <2>5. Handler(model, <<slot, cycle>>) \in {"body"} \cup Closing
    BY <2>3, <2>4 DEF Handler
  <2>6. at = <<slot, cycle>>
    BY <1>1, <2>3, <2>5 DEF Executed, Closing
  <2>7. cycle = 4 /\ h = "body"
    BY <1>5, <2>1, <2>3, <2>4, <2>6
  <2>8. slot' = slot /\ cycle' = 5
    BY <1>2, <1>4, <1>10, <2>3, <2>6, <2>7, SequenceGoesOn
  <2> QED BY <2>3, <2>8
<1> QED BY <1>9, <1>10

LEMMA WindowInvariant == Spec => []WindowInv
<1>1. Init => WindowInv
  BY DEF Init, WindowInv
<1>2. ASSUME PointerInv, WindowInv, [Next]_vars
      PROVE  WindowInv'
  <2>1. CASE Tick
    BY <1>2, <2>1, StepWindow DEF Tick
  <2>2. CASE Goto
    BY <1>2, <2>2, StepWindow DEF Goto
  <2>3. CASE PinCall
    BY <1>2, <2>3 DEF PinCall, NmiAssert, NmiRelease, IrqAssert, IrqRelease, WindowInv
  <2>4. CASE Restart
    BY <2>4 DEF Restart, WindowInv
  <2>5. CASE UNCHANGED vars
    BY <1>2, <2>5 DEF vars, cpuVars, WindowInv
  <2> QED BY <1>2, <2>1, <2>2, <2>3, <2>4, <2>5 DEF Next
<1> QED BY <1>1, <1>2, PointerInvariant, PTL DEF Spec

\* Sampling is off for the two vector cycles of an NMOS sequence and no longer:
\* a host that does not call goto there never makes the CPU deaf to NMI.
THEOREM SamplingComesBack ==
  ASSUME GotoInWindow = FALSE
  PROVE  Spec => []NeverDeaf
<1>1. WindowInv => NeverDeaf
  BY DEF WindowInv, NeverDeaf, Interrupting
<1> QED BY <1>1, WindowInvariant, PTL

(***************************************************************************)
(* The fast path.                                                            *)
(***************************************************************************)
\* While the fast path runs or sampling is off, the last sampled NMI level is
\* not behind a release of the line: the resolver would have nothing to update.
LastInv ==
  (~hijack \/ "sampling_off" \in ints) => ("nmi_last" \in ints => "nmi_pin" \in ints)

EagerInv == HijackInv /\ LastInv

\* Without the mark, as the abstract specification sees the byte.
Plain(i) == i \ {"sampling"}

(***************************************************************************)
(* A handler on the fast path.                                              *)
(***************************************************************************)
Settled(i) == Quiet(i) /\ ("nmi_last" \in i <=> "nmi_pin" \in i)

LEMMA SettledSample ==
  ASSUME NEW i \in SUBSET Flags, Settled(i)
  PROVE  SampleNmi(Plain(i)) = Plain(i)
BY DEF Settled, Quiet, SampleNmi, UpdateNmiLastSampled, Plain, Flags

LEMMA SettledPlain ==
  ASSUME NEW i \in SUBSET Flags, Settled(i)
  PROVE  Plain(i) \in SUBSET Flags /\ Settled(Plain(i)) /\ Quiet(i)
BY DEF Settled, Quiet, Plain, Flags, Taken

\* A quiet byte has nothing to arbitrate.
LEMMA QuietArbitration ==
  ASSUME NEW i, NEW f, Quiet(i)
  PROVE  FindActiveInterrupt(i, f) = i
BY DEF Quiet, FindActiveInterrupt

LEMMA SettledHandler ==
  ASSUME NEW i \in SUBSET Flags, NEW f, NEW h, NEW pre, Settled(i)
  PROVE  Plain(IntsAfter(h, Plain(i), f, pre)) = Plain(IntsAfter(h, i, f, pre))
<1>1. FindActiveInterrupt(i, f) = i /\ FindActiveInterrupt(Plain(i), f) = Plain(i)
  BY SettledPlain, QuietArbitration DEF Settled
<1>2. CASE h \in Arbitrating
  BY <1>1, <1>2 DEF IntsAfter, Arbitrate, Plain, Taken
<1>3. CASE h \notin Arbitrating
  BY <1>3 DEF IntsAfter, Acknowledge, UpdateNmiLastSampled, Plain
<1> QED BY <1>2, <1>3

LEMMA SettledVector ==
  ASSUME NEW i \in SUBSET Flags, NEW f, NEW h, Settled(i)
  PROVE  VectorAfter(h, i, f) = "same"
BY QuietArbitration DEF VectorAfter, Arbitrate, Settled, Quiet, Taken

LEMMA QuietResolve ==
  ASSUME NEW i \in SUBSET Flags, NEW f, NEW fetch, Quiet(i)
  PROVE  Served(i, fetch) = "none" /\ Resolve(i, f, fetch) = Plain(i)
<1>1. Served(i, fetch) = "none"
  BY DEF Served, Quiet, Taken
<1>2. Quiet(Plain(i))
  BY DEF Quiet, Plain, Taken
<1>3. FindActiveInterrupt(Plain(i), f) = Plain(i)
  BY <1>2, QuietArbitration
<1> QED BY <1>1, <1>3 DEF Resolve, Plain
-----------------------------------------------------------------------------
(***************************************************************************)
(* Both modules extend InterruptLogic; the instance has its own names for the *)
(* same operators.                                                           *)
(***************************************************************************)
LEMMA SameStore ==
  /\ \A m, at : Eager!Handler(m, at) = Handler(m, at)
  /\ \A m, ops, s, c : Eager!Executed(m, ops, s, c) = Executed(m, ops, s, c)
  /\ \A h, f : Eager!Skips(h, f) = Skips(h, f)
  /\ \A h, f, skip : Eager!Prefetches(h, f, skip) = Prefetches(h, f, skip)
  /\ \A h, f : Eager!Fetches(h, f) = Fetches(h, f)
<1>1. \A m, at : Eager!Handler(m, at) = Handler(m, at)
  BY DEF Handler, Eager!Handler, Row, Eager!Row,
         ServiceRows, ServiceRow, OpcodeRow, Eager!ServiceRows, Eager!ServiceRow, Eager!OpcodeRow,
         CommonServices, NmosServices, CmosServices, CommonOpcodes, NmosOpcodes,
         CmosOpcodes, BitBranchOpcodes, NmosModels, CmosModels,
         Eager!CommonServices, Eager!NmosServices, Eager!CmosServices,
         Eager!CommonOpcodes, Eager!NmosOpcodes, Eager!CmosOpcodes,
         Eager!BitBranchOpcodes, Eager!NmosModels, Eager!CmosModels
<1>2. \A m : Eager!OpcodeRows(m) = OpcodeRows(m)
  BY DEF OpcodeRows, Eager!OpcodeRows, NmosModels, Eager!NmosModels,
         CommonOpcodes, NmosOpcodes, CmosOpcodes, BitBranchOpcodes,
         Eager!CommonOpcodes, Eager!NmosOpcodes, Eager!CmosOpcodes, Eager!BitBranchOpcodes
<1>3. \A m, ops, s, c : Eager!Executed(m, ops, s, c) = Executed(m, ops, s, c)
  BY <1>1, <1>2 DEF Executed, Eager!Executed
<1>4. /\ \A h, f : Eager!Skips(h, f) = Skips(h, f)
      /\ \A h, f, skip : Eager!Prefetches(h, f, skip) = Prefetches(h, f, skip)
      /\ \A h, f : Eager!Fetches(h, f) = Fetches(h, f)
  BY DEF Skips, Prefetches, Fetches, Eager!Skips, Eager!Prefetches, Eager!Fetches
<1> QED BY <1>1, <1>3, <1>4

LEMMA SameLogic ==
  /\ \A i : Eager!SampleNmi(i) = SampleNmi(i)
  /\ \A h, i, f, pre : Eager!IntsAfter(h, i, f, pre) = IntsAfter(h, i, f, pre)
  /\ \A i, fetch : Eager!Served(i, fetch) = Served(i, fetch)
  /\ \A i, f, fetch : Eager!Resolve(i, f, fetch) = Resolve(i, f, fetch)
  /\ \A h, f : Eager!PAfter(h, f) = PAfter(h, f)
  /\ \A h, n : Eager!CountAfter(h, n) = CountAfter(h, n)
  /\ \A h, fetch, n : Eager!StatusAfter(h, fetch, n) = StatusAfter(h, fetch, n)
  /\ \A h, at, i, f, skip, n :
       Eager!NextEntry(h, at, i, f, skip, n) = NextEntry(h, at, i, f, skip, n)
<1>1. /\ \A i : Eager!UpdateNmiLastSampled(i) = UpdateNmiLastSampled(i)
      /\ \A i, f : Eager!FindActiveInterrupt(i, f) = FindActiveInterrupt(i, f)
      /\ \A i, f : Eager!Arbitrate(i, f) = Arbitrate(i, f)
      /\ Eager!Taken = Taken /\ Eager!Arbitrating = Arbitrating
  BY DEF UpdateNmiLastSampled, FindActiveInterrupt, Arbitrate, Taken, Arbitrating,
         Eager!UpdateNmiLastSampled, Eager!FindActiveInterrupt, Eager!Arbitrate,
         Eager!Taken, Eager!Arbitrating
<1>2. \A i : Eager!SampleNmi(i) = SampleNmi(i)
  BY <1>1 DEF SampleNmi, Eager!SampleNmi
<1>3. \A h, i, pre : Eager!Acknowledge(h, i, pre) = Acknowledge(h, i, pre)
  BY DEF Acknowledge, Eager!Acknowledge, UpdateNmiLastSampled, Eager!UpdateNmiLastSampled
<1>4. \A h, i, f, pre : Eager!IntsAfter(h, i, f, pre) = IntsAfter(h, i, f, pre)
  BY <1>1, <1>3 DEF IntsAfter, Eager!IntsAfter
<1>5. \A i, fetch : Eager!Served(i, fetch) = Served(i, fetch)
  BY DEF Served, Eager!Served
<1>6. \A i, f, fetch : Eager!Resolve(i, f, fetch) = Resolve(i, f, fetch)
  BY <1>1, <1>5 DEF Resolve, Eager!Resolve
<1>7. /\ \A h, f : Eager!PAfter(h, f) = PAfter(h, f)
      /\ \A h, n : Eager!CountAfter(h, n) = CountAfter(h, n)
      /\ \A h, fetch, n : Eager!StatusAfter(h, fetch, n) = StatusAfter(h, fetch, n)
  BY DEF PAfter, CountAfter, StatusAfter, Eager!PAfter, Eager!CountAfter, Eager!StatusAfter
<1>8. \A h, at, i, f, skip, n :
        Eager!NextEntry(h, at, i, f, skip, n) = NextEntry(h, at, i, f, skip, n)
  BY DEF NextEntry, Eager!NextEntry, VectorAfter, Eager!VectorAfter, Arbitrate,
         Eager!Arbitrate, FindActiveInterrupt, Eager!FindActiveInterrupt
<1> QED BY <1>2, <1>4, <1>5, <1>6, <1>7, <1>8
-----------------------------------------------------------------------------
(***************************************************************************)
(* Every tick of the core is a tick of the resolver-only CPU.                *)
(***************************************************************************)
LEMMA EntryRefines ==
  ASSUME EagerInv, HijackInv', NEW at, NEW skip, RunEntry(at, skip)
  PROVE  Eager!RunEntry(at, skip)
<1> DEFINE h     == Handler(model, at)
           pre   == Prefetches(h, p, skip)
           fetch == Fetches(h, p)
<1>1. ints \in SUBSET Flags
  BY DEF EagerInv, HijackInv
<1>2. CASE hijack
  <2>1. Plain(ints) = ints
    BY <1>1, <1>2 DEF EagerInv, HijackInv, NoStaleSampling, Plain
  <2>2. Plain(ints') = ints'
    <3> DEFINE after == IntsAfter(h, SampleNmi(ints), p, pre)
    <3>1. after \in SUBSET Flags /\ Exclusive(after)
      BY <1>1, SampleKeeps, HandlerExclusive DEF EagerInv, HijackInv, TakenExclusive, Exclusive
    <3>2. ints' = Resolve(after, p, fetch)
      BY <1>2 DEF RunEntry
    <3> HIDE DEF after
    <3> QED BY <3>1, <3>2, ResolveClean DEF Clean, Plain
  <2> QED BY <1>2, <2>1, <2>2, SameStore, SameLogic DEF RunEntry, Eager!RunEntry, Plain
<1>3. CASE ~hijack
  <2> DEFINE after == IntsAfter(h, ints, p, pre)
             eager == IntsAfter(h, Plain(ints), p, pre)
  <2>1. Settled(ints)
    BY <1>3 DEF EagerInv, HijackInv, FastPathSound, LastInv, Settled, Quiet
  <2>2. SampleNmi(Plain(ints)) = Plain(ints)
    BY <1>1, <2>1, SettledSample
  <2>3. eager \in SUBSET Flags /\ Quiet(eager)
    BY <1>1, <2>1, SettledPlain, QuietExclusive, HandlerExclusive, HandlerQuiet DEF Settled
  <2>4. Served(eager, fetch) = "none" /\ Resolve(eager, p, fetch) = Plain(after)
    BY <1>1, <2>1, <2>3, QuietResolve, SettledHandler
  <2>5. VectorAfter(h, ints, p) = "same" /\ VectorAfter(h, Plain(ints), p) = "same"
    BY <1>1, <2>1, SettledPlain, SettledVector
  <2>6. NextEntry(h, at, ints, p, skip, count) = NextEntry(h, at, Plain(ints), p, skip, count)
    BY <2>5 DEF NextEntry
  <2>7. /\ ints' = after
        /\ slot' = NextEntry(h, at, ints, p, skip, count)[1]
        /\ cycle' = NextEntry(h, at, ints, p, skip, count)[2]
        /\ p' \in PAfter(h, p)
        /\ count' = CountAfter(h, count)
        /\ status' = StatusAfter(h, fetch, count)
        /\ model' = model
    BY <1>3 DEF RunEntry
  <2> QED BY <2>2, <2>4, <2>6, <2>7, SameStore, SameLogic DEF Eager!RunEntry, Plain
<1> QED BY <1>2, <1>3

LEMMA StepRefines ==
  ASSUME EagerInv, HijackInv', NEW s, NEW c, StepFrom(s, c)
  PROVE  Eager!StepFrom(s, c)
<1>1. PICK at \in Executed(model, Opcodes, s, c) :
        \E skip \in Skips(Handler(model, at), p) : RunEntry(at, skip)
  BY DEF StepFrom
<1>2. PICK skip \in Skips(Handler(model, at), p) : RunEntry(at, skip)
  BY <1>1
<1>3. Eager!RunEntry(at, skip)
  BY <1>2, EntryRefines
<1> QED BY <1>3, SameStore DEF Eager!StepFrom

LEMMA NextRefines ==
  ASSUME EagerInv, HijackInv', [Next]_vars
  PROVE  [Eager!Next]_(Eager!vars)
<1> USE DEF Eager!Next
<1>1. CASE Tick
  BY <1>1, StepRefines DEF Tick, Eager!Tick
<1>2. CASE Goto
  BY <1>2, StepRefines DEF Goto, Eager!Goto
<1>3. CASE PinCall
  <2>1. /\ \E line \in {"nmi_pin", "irq_pin"} :
             Plain(ints)' \in {Plain(ints) \cup {line}, Plain(ints) \ {line}}
        /\ UNCHANGED <<model, slot, cycle, p, count, status>>
    BY <1>3 DEF PinCall, NmiAssert, NmiRelease, IrqAssert, IrqRelease, Plain
  <2> QED BY <2>1 DEF Eager!SetPins, Plain
<1>4. CASE Restart
  BY <1>4 DEF Restart, Eager!Restart, Eager!Initial
<1>5. CASE UNCHANGED vars
  BY <1>5 DEF vars, cpuVars, Eager!vars
<1> QED BY <1>1, <1>2, <1>3, <1>4, <1>5 DEF Next
-----------------------------------------------------------------------------
(***************************************************************************)
(* The last sampled level.                                                  *)
(***************************************************************************)
Follows(i) == "nmi_last" \in i => "nmi_pin" \in i

\* After every tick the last sampled level follows a release of the line.
LEMMA EntryFollows ==
  ASSUME LastInv, NEW at, NEW skip, RunEntry(at, skip)
  PROVE  Follows(ints')
<1> DEFINE h      == Handler(model, at)
           pre    == Prefetches(h, p, skip)
           fetch  == Fetches(h, p)
           before == IF hijack THEN SampleNmi(ints) ELSE ints
           after  == IntsAfter(h, before, p, pre)
<1>1. Follows(before)
  BY DEF LastInv, Follows, SampleNmi, UpdateNmiLastSampled
<1>2. Follows(after)
  <2> HIDE DEF h, pre, before
  <2>1. CASE h \in Arbitrating
    BY <1>1, <2>1 DEF IntsAfter, Arbitrate, FindActiveInterrupt, Follows, Taken
  <2>2. CASE h \notin Arbitrating
    BY <1>1, <2>2 DEF IntsAfter, Acknowledge, UpdateNmiLastSampled, Follows
  <2> QED BY <2>1, <2>2
<1>3. Follows(Resolve(after, p, fetch))
  <2> HIDE DEF after
  <2> QED BY <1>2 DEF Resolve, FindActiveInterrupt, Follows, Taken
<1>4. ints' = IF hijack THEN Resolve(after, p, fetch) ELSE after
  BY DEF RunEntry
<1> HIDE DEF after
<1> QED BY <1>2, <1>3, <1>4

LEMMA NextLast ==
  ASSUME HijackInv, LastInv, "sampling_off" \in ints => ReleaseInWindow = FALSE,
         [Next]_vars
  PROVE  LastInv'
<1>1. ASSUME NEW s, NEW c, StepFrom(s, c)
      PROVE  LastInv'
  <2>1. Follows(ints')
    BY <1>1, EntryFollows DEF StepFrom
  <2> QED BY <2>1 DEF LastInv, Follows
<1>2. CASE Tick \/ Goto
  BY <1>1, <1>2 DEF Tick, Goto
<1>3. CASE NmiAssert
  BY <1>3 DEF NmiAssert, LastInv
<1>4. CASE NmiRelease
  BY <1>4 DEF NmiRelease, LastInv, HijackInv
<1>5. CASE IrqAssert
  BY <1>5 DEF IrqAssert, LastInv
<1>6. CASE IrqRelease
  BY <1>6 DEF IrqRelease, LastInv
<1>7. CASE Restart
  BY <1>7 DEF Restart, LastInv
<1>8. CASE UNCHANGED vars
  BY <1>8 DEF vars, cpuVars, LastInv
<1> QED BY <1>2, <1>3, <1>4, <1>5, <1>6, <1>7, <1>8 DEF Next, PinCall

\* The CPU with the fast path implements the CPU that runs the resolver in every
\* tick: the same handlers in the same order, the same status flags, P and
\* interrupt byte, for every program, on a CMOS model or with a host that never
\* releases NMI while an NMOS sequence has sampling off.  (LostEdge shows that
\* NMOS needs the condition.)
THEOREM FastPathIsInvisible ==
  ASSUME ReleaseInWindow = FALSE \/ Models \subseteq CmosModels
  PROVE  Spec => EagerSpec
<1>1. Init => EagerInv
  BY InitHijack DEF Init, EagerInv, LastInv
<1>2. TypeOK /\ WindowInv => ("sampling_off" \in ints => ReleaseInWindow = FALSE)
  BY DEF TypeOK, WindowInv, NmosModels, CmosModels
<1>3. TypeOK /\ WindowInv /\ EagerInv /\ [Next]_vars => EagerInv'
  BY <1>2, NextHijack, NextLast DEF EagerInv
<1>4. Init => Eager!Init
  BY DEF Init, Eager!Init, Eager!Initial
<1>5. EagerInv /\ EagerInv' /\ [Next]_vars => [Eager!Next]_(Eager!vars)
  BY NextRefines DEF EagerInv
<1> QED BY <1>1, <1>3, <1>4, <1>5, PointerStaysInRow, WindowInvariant, PTL
        DEF Spec, EagerSpec, Eager!Spec
=============================================================================
