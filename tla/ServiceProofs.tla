----------------------------- MODULE ServiceProofs -----------------------------
(***************************************************************************)
(* Which steps take, serve and lose an interrupt request: the window of an    *)
(* instruction in which IRQ counts, the rows in which nothing is sampled, and *)
(* the edge of the NMI line.                                                  *)
(***************************************************************************)
EXTENDS SequencerProofs

\* Rows that never call prefetch(): no request is taken in them.
Unsampled == {"internal_reset", "reset", "goto", "illegal_ext", "nmi", "irq", "brk", "kil",
              "nop_1c"}

\* Handlers that may call it.
Prefetching == {"pre", "cli", "sei", "cld", "sed", "branch_c0", "probe", "probe_d0",
                "pre_d0", "arith"}

CmosPush == {"cmos_nmi_c3", "cmos_irq_c3"}
CmosOnly == CmosPush \cup {"cmos_c5"}

(***************************************************************************)
(* What is true of every row of the control store, continued.                *)
(***************************************************************************)
\* What follows a sampling cycle at entry k: the fetch, or an ADC or SBC that
\* fetches in binary mode.
FetchFollows(r, k) ==
  /\ r[k] \in {"pre", "cli", "sei", "cld", "sed"} => r[k + 1] \in {"fetch", "fetch_ext", "plp"}
  /\ r[k] = "probe" => r[k + 2] = "fetch"
  /\ r[k] = "pre_d0" => r[k + 1] = "arith"
  /\ r[k] = "probe_d0" => r[k + 2] = "arith"
  /\ r[k] = "arith" => r[k + 1] = "fetch"
  /\ r[k] # "branch_c0"

\* Advancing by skip from entry k of row r reaches mc_dispatch only with a fetch.
Orderly(m, s, r) ==
  \A k \in 1 .. Len(r) :
    /\ s \in Unsampled => r[k] \notin Prefetching
    /\ \A skip \in 0 .. Reach(r[k]) :
         r[k] \notin Last /\ k + 1 + skip <= Len(r) /\ r[k + 1 + skip] = "dispatch"
           => r[k] \in {"fetch", "plp"} \/ (r[k] = "arith" /\ skip = 1)
    /\ r[k] = "internal_reset" => s = "internal_reset"
    /\ r[k] = "jam" => s = "kil"
    /\ r[k] \in {"nmi_c3", "cmos_nmi_c3"} => s = "nmi"
    /\ r[k] = "irq_c3" => s = "irq"
    /\ r[k] = "brk_c3" => s = "brk"
    /\ r[k] = "cmos_irq_c3" => s = "irq"
    /\ r[k] = "cmos_nmi_c3" => k = 4
    /\ s \notin BranchRows => FetchFollows(r, k)
    /\ r[k] = "cmos_c5" => s \in {"nmi", "irq"} /\ k = 6
    /\ r[k] \in CmosOnly => m \in CmosModels

LEMMA CommonServicesOrderly ==
  ASSUME NEW m
  PROVE  \A s \in DOMAIN CommonServices : Orderly(m, s, CommonServices[s])
<1>1. /\ Orderly(m, "internal_reset", CommonServices.internal_reset)
      /\ Orderly(m, "reset", CommonServices.reset)
      /\ Orderly(m, "goto", CommonServices.goto)
      /\ Orderly(m, "illegal_ext", CommonServices.illegal_ext)
  BY DEF CommonServices, Orderly, FetchFollows, BranchRows, Reach, Last, Unsampled,
         Prefetching, CmosOnly, CmosPush
<1>2. DOMAIN CommonServices = {"internal_reset", "reset", "goto", "illegal_ext"}
  BY DEF CommonServices
<1> QED BY <1>1, <1>2

LEMMA ServicesOrderly ==
  ASSUME NEW m
  PROVE  \A s \in {"nmi", "irq"} :
           /\ Orderly(m, s, NmosServices[s])
           /\ m \in CmosModels => Orderly(m, s, CmosServices[s])
<1>1. Orderly(m, "nmi", NmosServices.nmi) /\ Orderly(m, "irq", NmosServices.irq)
  BY DEF NmosServices, Orderly, FetchFollows, BranchRows, Reach, Last, Unsampled,
         Prefetching, CmosOnly, CmosPush
<1>2. m \in CmosModels => Orderly(m, "nmi", CmosServices.nmi) /\ Orderly(m, "irq", CmosServices.irq)
  BY DEF CmosServices, Orderly, FetchFollows, BranchRows, Reach, Last, Unsampled,
         Prefetching, CmosOnly, CmosPush
<1> QED BY <1>1, <1>2

LEMMA CommonOpcodesOrderly ==
  ASSUME NEW m
  PROVE  \A s \in DOMAIN CommonOpcodes : Orderly(m, s, CommonOpcodes[s])
<1>1. Orderly(m, "cycles2", CommonOpcodes.cycles2) /\ Orderly(m, "cycles3", CommonOpcodes.cycles3)
  BY DEF CommonOpcodes, Orderly, FetchFollows, BranchRows, Reach, Last, Unsampled,
         Prefetching, CmosOnly, CmosPush
<1>2. Orderly(m, "cycles4", CommonOpcodes.cycles4) /\ Orderly(m, "cycles5", CommonOpcodes.cycles5)
  BY DEF CommonOpcodes, Orderly, FetchFollows, BranchRows, Reach, Last, Unsampled,
         Prefetching, CmosOnly, CmosPush
<1>3. Orderly(m, "cycles6", CommonOpcodes.cycles6) /\ Orderly(m, "cycles7", CommonOpcodes.cycles7)
  BY DEF CommonOpcodes, Orderly, FetchFollows, BranchRows, Reach, Last, Unsampled,
         Prefetching, CmosOnly, CmosPush
<1>4. Orderly(m, "branch", CommonOpcodes.branch)
  BY DEF CommonOpcodes, Orderly, FetchFollows, BranchRows, Reach, Last, Unsampled,
         Prefetching, CmosOnly, CmosPush
<1>5. Orderly(m, "indexed_ab", CommonOpcodes.indexed_ab) /\ Orderly(m, "indexed_iy", CommonOpcodes.indexed_iy)
  BY DEF CommonOpcodes, Orderly, FetchFollows, BranchRows, Reach, Last, Unsampled,
         Prefetching, CmosOnly, CmosPush
<1>6. Orderly(m, "cli", CommonOpcodes.cli) /\ Orderly(m, "sei", CommonOpcodes.sei)
  BY DEF CommonOpcodes, Orderly, FetchFollows, BranchRows, Reach, Last, Unsampled,
         Prefetching, CmosOnly, CmosPush
<1>7. Orderly(m, "cld", CommonOpcodes.cld) /\ Orderly(m, "sed", CommonOpcodes.sed)
  BY DEF CommonOpcodes, Orderly, FetchFollows, BranchRows, Reach, Last, Unsampled,
         Prefetching, CmosOnly, CmosPush
<1>8. Orderly(m, "plp", CommonOpcodes.plp) /\ Orderly(m, "rti", CommonOpcodes.rti)
  BY DEF CommonOpcodes, Orderly, FetchFollows, BranchRows, Reach, Last, Unsampled,
         Prefetching, CmosOnly, CmosPush
<1>9. DOMAIN CommonOpcodes =
        {"cycles2", "cycles3", "cycles4", "cycles5", "cycles6", "cycles7", "branch",
         "indexed_ab", "indexed_iy", "cli", "sei", "cld", "sed", "plp", "rti"}
  BY DEF CommonOpcodes
<1> QED BY <1>1, <1>2, <1>3, <1>4, <1>5, <1>6, <1>7, <1>8, <1>9

LEMMA NmosOpcodesOrderly ==
  ASSUME NEW m
  PROVE  \A s \in DOMAIN NmosOpcodes : Orderly(m, s, NmosOpcodes[s])
<1>1. /\ Orderly(m, "brk", NmosOpcodes.brk)
      /\ Orderly(m, "cycles8", NmosOpcodes.cycles8)
      /\ Orderly(m, "kil", NmosOpcodes.kil)
  BY DEF NmosOpcodes, Orderly, FetchFollows, BranchRows, Reach, Last, Unsampled,
         Prefetching, CmosOnly, CmosPush
<1>2. DOMAIN NmosOpcodes = {"brk", "cycles8", "kil"}
  BY DEF NmosOpcodes
<1> QED BY <1>1, <1>2

LEMMA CmosOpcodesOrderly ==
  ASSUME NEW m
  PROVE  /\ \A s \in DOMAIN CmosOpcodes : Orderly(m, s, CmosOpcodes[s])
         /\ \A s \in DOMAIN BitBranchOpcodes : Orderly(m, s, BitBranchOpcodes[s])
<1>1. /\ Orderly(m, "brk", CmosOpcodes.brk) /\ Orderly(m, "nop_1c", CmosOpcodes.nop_1c)
      /\ Orderly(m, "bra", CmosOpcodes.bra) /\ Orderly(m, "rmw_abx", CmosOpcodes.rmw_abx)
  BY DEF CmosOpcodes, Orderly, FetchFollows, BranchRows, Reach, Last, Unsampled,
         Prefetching, CmosOnly, CmosPush
<1>2. /\ Orderly(m, "arith_imm", CmosOpcodes.arith_imm)
      /\ Orderly(m, "arith_zp", CmosOpcodes.arith_zp)
      /\ Orderly(m, "arith_abs", CmosOpcodes.arith_abs)
      /\ Orderly(m, "arith_izp", CmosOpcodes.arith_izp)
  BY DEF CmosOpcodes, Orderly, FetchFollows, BranchRows, Reach, Last, Unsampled,
         Prefetching, CmosOnly, CmosPush
<1>3. /\ Orderly(m, "arith_izx", CmosOpcodes.arith_izx)
      /\ Orderly(m, "arith_abx", CmosOpcodes.arith_abx)
      /\ Orderly(m, "arith_izy", CmosOpcodes.arith_izy)
  BY DEF CmosOpcodes, Orderly, FetchFollows, BranchRows, Reach, Last, Unsampled,
         Prefetching, CmosOnly, CmosPush
<1>4. DOMAIN CmosOpcodes =
        {"brk", "nop_1c", "bra", "rmw_abx", "arith_imm", "arith_zp", "arith_abs",
         "arith_izp", "arith_izx", "arith_abx", "arith_izy"}
  BY DEF CmosOpcodes
<1>5. \A s \in DOMAIN BitBranchOpcodes : Orderly(m, s, BitBranchOpcodes[s])
  <2>1. Orderly(m, "bbr_bbs", BitBranchOpcodes.bbr_bbs)
    BY DEF BitBranchOpcodes, Orderly, FetchFollows, BranchRows, Reach, Last, Unsampled,
         Prefetching, CmosOnly, CmosPush
  <2>2. DOMAIN BitBranchOpcodes = {"bbr_bbs"}
    BY DEF BitBranchOpcodes
  <2> QED BY <2>1, <2>2
<1> QED BY <1>1, <1>2, <1>3, <1>4, <1>5

LEMMA RowsOrderly ==
  ASSUME NEW m \in AllModels, NEW s \in Rows(m)
  PROVE  Orderly(m, s, Row(m, s))
<1>1. /\ DOMAIN NmosServices = {"nmi", "irq"} /\ DOMAIN CmosServices = {"nmi", "irq"}
      /\ DOMAIN CommonServices \cap {"nmi", "irq"} = {}
  BY DEF CommonServices, NmosServices, CmosServices
<1>2. CASE s \in ServiceRows
  <2>1. Row(m, s) = ServiceRow(m, s)
    BY <1>2 DEF Row
  <2>2. ServiceRow(m, s) = IF s \in DOMAIN CommonServices THEN CommonServices[s]
                           ELSE IF m \in NmosModels THEN NmosServices[s] ELSE CmosServices[s]
    BY DEF ServiceRow
  <2>3. s \notin DOMAIN CommonServices => s \in {"nmi", "irq"}
    BY <1>1, <1>2 DEF ServiceRows
  <2> QED BY <2>1, <2>2, <2>3, CommonServicesOrderly, ServicesOrderly DEF AllModels
<1>3. CASE s \notin ServiceRows
  <2>1. Row(m, s) = OpcodeRow(m, s)
    BY <1>3 DEF Row
  <2>2. OpcodeRow(m, s) = IF s \in DOMAIN CommonOpcodes THEN CommonOpcodes[s]
                          ELSE IF m \in NmosModels THEN NmosOpcodes[s]
                          ELSE IF s \in DOMAIN BitBranchOpcodes THEN BitBranchOpcodes[s]
                          ELSE CmosOpcodes[s]
    BY DEF OpcodeRow
  <2>3. s \in OpcodeRows(m)
    BY <1>3 DEF Rows
  <2>4. /\ m \in NmosModels => s \in DOMAIN CommonOpcodes \cup DOMAIN NmosOpcodes
        /\ m \notin NmosModels =>
             s \in DOMAIN CommonOpcodes \cup DOMAIN CmosOpcodes \cup DOMAIN BitBranchOpcodes
    BY <2>3 DEF OpcodeRows, NmosModels
  <2> QED BY <2>1, <2>2, <2>4, CommonOpcodesOrderly, NmosOpcodesOrderly, CmosOpcodesOrderly
<1> QED BY <1>2, <1>3
-----------------------------------------------------------------------------
(***************************************************************************)
(* What one entry does to the requests that have been taken.                 *)
(***************************************************************************)
LEMMA SampleTaken ==
  ASSUME NEW i
  PROVE  /\ SampleNmi(i) \cap Taken = i \cap Taken
         /\ "irq_pin" \in SampleNmi(i) <=> "irq_pin" \in i
         /\ "sampling" \in SampleNmi(i) <=> "sampling" \in i
         /\ "nmi_edge" \in i => "nmi_edge" \in SampleNmi(i)
BY DEF SampleNmi, UpdateNmiLastSampled, Taken

LEMMA PrefetchingHandlers ==
  ASSUME NEW h, NEW f, NEW skip, Prefetches(h, f, skip)
  PROVE  /\ h \in Prefetching
         /\ h \notin Arbitrating \cup CmosOnly
         /\ h \notin {"brk_c5", "irq_c5", "nmi_c5"}
BY DEF Prefetches, Prefetching, Arbitrating, CmosOnly, CmosPush

LEMMA HandlerTaken ==
  ASSUME NEW h, NEW i, NEW f, NEW pre \in BOOLEAN,
         pre => h \notin Arbitrating \cup CmosOnly \cup {"brk_c5", "irq_c5", "nmi_c5"}
  PROVE  LET after == IntsAfter(h, i, f, pre)
         IN  /\ "irq_pin" \in after <=> "irq_pin" \in i
             /\ h \in Arbitrating => after \cap Taken = {}
             /\ h \notin Arbitrating \cup CmosPush => after \cap Taken = i \cap Taken
             /\ after \cap Taken \subseteq i \cap Taken
             /\ "sampling" \in after <=> ("sampling" \in i \/ pre)
<1> DEFINE after == IntsAfter(h, i, f, pre)
<1>1. CASE h \in Arbitrating
  <2>1. /\ "irq_pin" \in FindActiveInterrupt(i, f) <=> "irq_pin" \in i
        /\ "sampling" \in FindActiveInterrupt(i, f) <=> "sampling" \in i
    BY DEF FindActiveInterrupt
  <2>2. ~pre
    BY <1>1
  <2> QED BY <1>1, <2>1, <2>2 DEF IntsAfter, Arbitrate, Taken
<1>2. CASE h \notin Arbitrating
  BY <1>2 DEF IntsAfter, Acknowledge, UpdateNmiLastSampled, Taken, CmosPush, CmosOnly
<1> QED BY <1>1, <1>2

\* The resolver's tail: a sampling cycle takes a request if there is one.
LEMMA ResolveTaken ==
  ASSUME NEW i, NEW f, NEW fetch \in BOOLEAN
  PROVE  LET left == Resolve(i, f, fetch)
         IN  /\ "sampling" \notin i /\ fetch => left \cap Taken = {}
             /\ "sampling" \notin i => left \cap Taken \subseteq i \cap Taken
             /\ "sampling" \notin i /\ ~fetch => left = i
             /\ "sampling" \in i /\ i \cap Taken # {} => left \cap Taken # {}
             /\ "sampling" \in i /\ "irq_pin" \in i /\ "I" \notin f => left \cap Taken # {}
             /\ "irq_taken" \in left => \/ "irq_taken" \in i
                                        \/ "sampling" \in i /\ "irq_pin" \in i /\ "I" \notin f
BY DEF Resolve, Served, FindActiveInterrupt, Taken

\* A request is taken in a cycle that calls prefetch(), used up in one that
\* fetches or arbitrates, and otherwise left alone.
LEMMA EntryTaken ==
  ASSUME HijackInv, NEW at, NEW skip, RunEntry(at, skip)
  PROVE  LET h     == Handler(model, at)
             pre   == Prefetches(h, p, skip)
             fetch == Fetches(h, p)
         IN  /\ fetch => ints' \cap Taken = {}
             /\ h \in Arbitrating => ints' \cap Taken = {}
             /\ ~pre => ints' \cap Taken \subseteq ints \cap Taken
             /\ ints \cap Taken # {} /\ ~fetch /\ h \notin Arbitrating \cup CmosPush
                  => ints' \cap Taken # {}
             /\ hijack /\ pre /\ "irq_pin" \in ints /\ "I" \notin p => ints' \cap Taken # {}
             /\ "irq_taken" \in ints' =>
                  "irq_taken" \in ints \/ (pre /\ "irq_pin" \in ints /\ "I" \notin p)
<1> DEFINE h      == Handler(model, at)
           pre    == Prefetches(h, p, skip)
           fetch  == Fetches(h, p)
           before == IF hijack THEN SampleNmi(ints) ELSE ints
           after  == IntsAfter(h, before, p, pre)
<1>1. /\ before \cap Taken = ints \cap Taken
      /\ "irq_pin" \in before <=> "irq_pin" \in ints
      /\ "sampling" \in before <=> "sampling" \in ints
  BY SampleTaken
<1>2. pre \in BOOLEAN /\ fetch \in BOOLEAN
  BY DEF Prefetches, Fetches
<1>3. pre => h \notin Arbitrating \cup CmosOnly \cup {"brk_c5", "irq_c5", "nmi_c5"}
  BY PrefetchingHandlers
<1>4. ~(fetch /\ pre)
  BY FetchIsNotPrefetch
<1>5. /\ "irq_pin" \in after <=> "irq_pin" \in before
      /\ h \in Arbitrating => after \cap Taken = {}
      /\ h \notin Arbitrating \cup CmosPush => after \cap Taken = before \cap Taken
      /\ after \cap Taken \subseteq before \cap Taken
      /\ "sampling" \in after <=> ("sampling" \in before \/ pre)
  <2> HIDE DEF before, pre, h
  <2> QED BY <1>2, <1>3, HandlerTaken
<1>6. "irq_taken" \in after => "irq_taken" \in ints
  <2> HIDE DEF after, before
  <2> QED BY <1>1, <1>5 DEF Taken
<1>7. CASE hijack
  <2>1. "sampling" \notin ints
    BY <1>7 DEF HijackInv, NoStaleSampling
  <2>2. ints' = Resolve(after, p, fetch)
    BY <1>7 DEF RunEntry
  <2>3. "sampling" \in after <=> pre
    BY <1>1, <1>5, <2>1
  <2>4. h \in Arbitrating => ~pre
    BY <1>3
  <2> HIDE DEF after, before, pre, fetch, h
  <2>5. /\ ~pre /\ fetch => ints' \cap Taken = {}
        /\ ~pre => ints' \cap Taken \subseteq after \cap Taken
        /\ ~pre /\ ~fetch => ints' = after
        /\ pre /\ after \cap Taken # {} => ints' \cap Taken # {}
        /\ pre /\ "irq_pin" \in after /\ "I" \notin p => ints' \cap Taken # {}
        /\ "irq_taken" \in ints' => \/ "irq_taken" \in after
                                    \/ pre /\ "irq_pin" \in after /\ "I" \notin p
    BY <1>2, <2>2, <2>3, ResolveTaken
  <2>6. fetch => ints' \cap Taken = {}
    BY <1>4, <2>5
  <2>7. h \in Arbitrating => ints' \cap Taken = {}
    BY <1>5, <2>4, <2>5
  <2>8. ~pre => ints' \cap Taken \subseteq ints \cap Taken
    BY <1>1, <1>5, <2>5
  <2>9. ints \cap Taken # {} /\ ~fetch /\ h \notin Arbitrating \cup CmosPush
          => ints' \cap Taken # {}
    BY <1>1, <1>5, <2>5
  <2>10. pre /\ "irq_pin" \in ints /\ "I" \notin p => ints' \cap Taken # {}
    BY <1>1, <1>5, <2>5
  <2>11. "irq_taken" \in ints' =>
           "irq_taken" \in ints \/ (pre /\ "irq_pin" \in ints /\ "I" \notin p)
    BY <1>1, <1>5, <1>6, <2>5
  <2> QED BY <2>6, <2>7, <2>8, <2>9, <2>10, <2>11 DEF h, pre, fetch
<1>8. CASE ~hijack
  <2>1. ints \cap Taken = {}
    BY <1>8 DEF HijackInv, FastPathSound, Quiet
  <2>2. ints' = after
    BY <1>8 DEF RunEntry
  <2>3. ints' \cap Taken = {}
    BY <1>1, <1>5, <2>1, <2>2
  <2>4. "irq_taken" \notin ints'
    BY <2>3 DEF Taken
  <2> HIDE DEF after, before, pre, fetch, h
  <2> QED BY <1>8, <2>1, <2>3, <2>4
<1> QED BY <1>7, <1>8
-----------------------------------------------------------------------------
(***************************************************************************)
(* Where one entry leads.                                                   *)
(***************************************************************************)
\* The service a fetch gives way to: the request that has been taken.
ServedBy(fetch) ==
  IF fetch /\ "nmi_taken" \in ints THEN "nmi"
  ELSE IF fetch /\ "irq_taken" \in ints THEN "irq"
  ELSE "none"

LEMMA EntryServed ==
  ASSUME HijackInv, NEW at, NEW skip, RunEntry(at, skip)
  PROVE  LET h      == Handler(model, at)
             served == ServedBy(Fetches(h, p))
             before == IF hijack THEN SampleNmi(ints) ELSE ints
             next   == NextEntry(h, at, before, p, skip, count)
         IN  /\ served # "none" => slot' = served /\ cycle' = 0
             /\ served = "none" => slot' = next[1] /\ cycle' = next[2]
<1> DEFINE h      == Handler(model, at)
           pre    == Prefetches(h, p, skip)
           fetch  == Fetches(h, p)
           before == IF hijack THEN SampleNmi(ints) ELSE ints
           after  == IntsAfter(h, before, p, pre)
           served == IF hijack THEN Served(after, fetch) ELSE "none"
           next   == NextEntry(h, at, before, p, skip, count)
<1>1. fetch \in BOOLEAN /\ pre \in BOOLEAN /\ ~(fetch /\ pre)
  BY FetchIsNotPrefetch DEF Fetches, Prefetches
<1>2. fetch => h \notin Arbitrating \cup CmosPush
  BY DEF Fetches, Arbitrating, CmosPush
<1>3. pre => h \notin Arbitrating \cup CmosOnly \cup {"brk_c5", "irq_c5", "nmi_c5"}
  BY PrefetchingHandlers
<1>4. served = ServedBy(fetch)
  <2>1. CASE ~fetch
    BY <2>1 DEF Served, ServedBy
  <2>2. CASE fetch /\ hijack
    <3>1. "sampling" \notin ints
      BY <2>2 DEF HijackInv, NoStaleSampling
    <3>2. before \cap Taken = ints \cap Taken /\ "sampling" \notin before
      BY <3>1, SampleTaken
    <3>3. after \cap Taken = ints \cap Taken /\ "sampling" \notin after
      <4> HIDE DEF before, pre, fetch, h
      <4> QED BY <1>1, <1>2, <1>3, <2>2, <3>2, HandlerTaken
    <3>4. ("nmi_taken" \in after <=> "nmi_taken" \in ints)
          /\ ("irq_taken" \in after <=> "irq_taken" \in ints)
      <4> HIDE DEF after
      <4> QED BY <3>3 DEF Taken
    <3> HIDE DEF after, fetch
    <3> QED BY <2>2, <3>3, <3>4 DEF Served, ServedBy
  <2>3. CASE fetch /\ ~hijack
    <3>1. ints \cap Taken = {}
      BY <2>3 DEF HijackInv, FastPathSound, Quiet
    <3> QED BY <2>3, <3>1 DEF ServedBy, Taken
  <2> QED BY <2>1, <2>2, <2>3
<1>5. /\ slot' = IF served = "none" THEN next[1] ELSE served
      /\ cycle' = IF served = "none" THEN next[2] ELSE 0
  BY DEF RunEntry
<1> HIDE DEF served, next, fetch
<1> QED BY <1>4, <1>5 DEF next, fetch

\* The five ways on for an entry that no service interrupts.
GoesOn(h, at, skip) ==
  \/ h \in {"jam", "internal_reset"} /\ slot' = at[1] /\ cycle' = at[2]
  \/ h = "internal_reset" /\ slot' = "reset" /\ cycle' = 0
  \/ h = "fetch_ext" /\ slot' = "illegal_ext" /\ cycle' = 0
  \/ h \in Arbitrating /\ slot' \in {"nmi", "irq"} /\ cycle' = 4
  \/ h \notin Last /\ slot' = at[1] /\ cycle' = at[2] + 1 + skip

LEMMA EntryGoesOn ==
  ASSUME HijackInv, count \in 0 .. 7, NEW at, NEW skip, RunEntry(at, skip),
         Handler(model, at) # "dispatch", ServedBy(Fetches(Handler(model, at), p)) = "none"
  PROVE  GoesOn(Handler(model, at), at, skip)
<1> DEFINE h      == Handler(model, at)
           before == IF hijack THEN SampleNmi(ints) ELSE ints
           vector == VectorAfter(h, before, p)
           next   == NextEntry(h, at, before, p, skip, count)
<1>1. slot' = next[1] /\ cycle' = next[2]
  BY EntryServed
<1>2. vector \in {"nmi", "irq", "same"} /\ (vector # "same" => h \in Arbitrating)
  BY DEF VectorAfter, Arbitrating
<1>3. count < 7 \/ count = 7
  OBVIOUS
<1>4. \/ h = "jam" /\ next = at
      \/ h = "internal_reset" /\ next \in {at, <<"reset", 0>>}
      \/ h = "fetch_ext" /\ next = <<"illegal_ext", 0>>
      \/ h \notin Last /\ vector # "same" /\ next = <<vector, 4>>
      \/ h \notin Last /\ vector = "same" /\ next = <<at[1], at[2] + 1 + skip>>
  <2>1. h # "dispatch"
    OBVIOUS
  <2>2. next = CASE h = "jam"                         -> at
                 [] h = "internal_reset" /\ count < 7 -> at
                 [] h = "internal_reset" /\ count = 7 -> <<"reset", 0>>
                 [] h = "fetch_ext"                   -> <<"illegal_ext", 0>>
                 [] vector # "same"                   -> <<vector, 4>>
                 [] OTHER                             -> <<at[1], at[2] + 1 + skip>>
    BY DEF NextEntry
  <2> HIDE DEF h, vector, next
  <2>3. CASE h = "jam"
    BY <1>2, <2>2, <2>3 DEF Arbitrating
  <2>4. CASE h = "internal_reset"
    BY <1>2, <1>3, <2>2, <2>4 DEF Arbitrating
  <2>5. CASE h = "fetch_ext"
    BY <1>2, <2>2, <2>5 DEF Arbitrating
  <2>6. CASE h \notin Last /\ vector # "same"
    BY <2>2, <2>6 DEF Last
  <2>7. CASE h \notin Last /\ vector = "same"
    BY <2>2, <2>7 DEF Last
  <2> QED BY <2>1, <2>3, <2>4, <2>5, <2>6, <2>7 DEF Last
<1> HIDE DEF h, vector, next
<1> QED BY <1>1, <1>2, <1>4 DEF GoesOn, h
-----------------------------------------------------------------------------
(***************************************************************************)
(* Requests and the rows that sample nothing.  An instruction is granted a    *)
(* service when it samples IRQ asserted with I clear; from then to its fetch   *)
(* a request is taken, and nowhere else.                                       *)
(***************************************************************************)
AtDispatch == Handler(model, <<slot, cycle>>) = "dispatch"

ServiceInv ==
  /\ slot \in Unsampled \/ AtDispatch => ints \cap Taken = {}
  /\ "irq_taken" \in ints => granted
  /\ granted => ints \cap Taken # {}
  /\ status = "cpu_jammed" => Handler(model, <<slot, cycle>>) = "jam"

LEMMA RowOrder ==
  ASSUME TypeOK, NEW at, InRow(at)
  PROVE  Orderly(model, at[1], Row(model, at[1]))
<1>1. model \in AllModels
  BY ModelsAssumption DEF TypeOK
<1> QED BY <1>1, RowsOrderly DEF InRow

\* The same, said of the entry.
LEMMA EntryOrder ==
  ASSUME TypeOK, NEW at, InRow(at)
  PROVE  LET h == Handler(model, at)
         IN  /\ at[1] \in Unsampled => h \notin Prefetching
             /\ h = "internal_reset" => at[1] = "internal_reset"
             /\ h = "jam" => at[1] = "kil"
             /\ h \in {"nmi_c3", "cmos_nmi_c3"} => at[1] = "nmi"
             /\ h \in {"irq_c3", "cmos_irq_c3"} => at[1] = "irq"
             /\ h = "brk_c3" => at[1] = "brk"
             /\ h = "cmos_c5" => at[1] \in {"nmi", "irq"} /\ at[2] = 5
             /\ h = "cmos_nmi_c3" => at[2] = 3
             /\ at[1] \notin BranchRows => FetchFollows(Row(model, at[1]), at[2] + 1)
             /\ h \in CmosOnly => model \in CmosModels
<1> DEFINE k == at[2] + 1
<1>1. k \in 1 .. Len(Row(model, at[1])) /\ at[2] \in Nat
  BY RowFacts DEF InRow
<1>2. Handler(model, at) = Row(model, at[1])[k]
  BY DEF Handler
<1>3. Orderly(model, at[1], Row(model, at[1]))
  BY RowOrder
<1> HIDE DEF k
<1>4. LET h == Row(model, at[1])[k]
      IN  /\ at[1] \in Unsampled => h \notin Prefetching
          /\ h = "internal_reset" => at[1] = "internal_reset"
          /\ h = "jam" => at[1] = "kil"
          /\ h \in {"nmi_c3", "cmos_nmi_c3"} => at[1] = "nmi"
          /\ h \in {"irq_c3", "cmos_irq_c3"} => at[1] = "irq"
          /\ h = "brk_c3" => at[1] = "brk"
          /\ h = "cmos_c5" => at[1] \in {"nmi", "irq"} /\ k = 6
          /\ h = "cmos_nmi_c3" => k = 4
          /\ at[1] \notin BranchRows => FetchFollows(Row(model, at[1]), k)
          /\ h \in CmosOnly => model \in CmosModels
  BY <1>1, <1>3 DEF Orderly
<1>5. (k = 6 => at[2] = 5) /\ (k = 4 => at[2] = 3)
  BY <1>1 DEF k
<1> QED BY <1>2, <1>4, <1>5 DEF k

\* An entry that is not the one the microcode points at is an opcode's first,
\* after a dispatch, or the fetch of qe6502_goto.
LEMMA EntryOrigin ==
  ASSUME TypeOK, ServiceInv, NEW s, NEW c, <<s, c>> \in {<<slot, cycle>>, <<"goto", 0>>},
         NEW at \in Executed(model, Opcodes, s, c)
  PROVE  \/ at = <<slot, cycle>>
         \/ ints \cap Taken = {} /\ at[2] = 0 /\ at[1] \in OpcodeRows(model)
         \/ at = <<"goto", 0>> /\ Handler(model, at) = "fetch"
<1>1. CASE Handler(model, <<s, c>>) # "dispatch"
  <2>1. at = <<s, c>>
    BY <1>1 DEF Executed
  <2>2. CASE s = slot /\ c = cycle
    BY <2>1, <2>2
  <2>3. CASE s = "goto" /\ c = 0
    <3>1. Row(model, "goto") = <<"fetch", "dispatch">>
      BY DEF Row, ServiceRow, ServiceRows, CommonServices
    <3>2. Handler(model, <<"goto", 0>>) = "fetch"
      BY <3>1 DEF Handler
    <3> QED BY <2>1, <2>3, <3>2
  <2> QED BY <2>2, <2>3
<1>2. CASE Handler(model, <<s, c>>) = "dispatch"
  <2>1. PICK op \in Opcodes \cap OpcodeRows(model) : at = <<op, 0>>
    BY <1>2 DEF Executed
  <2>2. s = slot /\ c = cycle
    <3>1. Row(model, "goto") = <<"fetch", "dispatch">>
      BY DEF Row, ServiceRow, ServiceRows, CommonServices
    <3>2. Handler(model, <<"goto", 0>>) = "fetch"
      BY <3>1 DEF Handler
    <3> QED BY <1>2, <3>2
  <2>3. ints \cap Taken = {}
    BY <1>2, <2>2 DEF ServiceInv, AtDispatch
  <2> QED BY <2>1, <2>3
<1> QED BY <1>1, <1>2

\* The microcode reaches mc_dispatch only with an opcode fetch.
LEMMA DispatchAfterFetch ==
  ASSUME TypeOK, NEW at, InRow(at), NEW skip \in Skips(Handler(model, at), p),
         Handler(model, at) \notin Last,
         at[2] + 1 + skip \in 0 .. Len(Row(model, at[1])) - 1,
         Handler(model, <<at[1], at[2] + 1 + skip>>) = "dispatch"
  PROVE  Fetches(Handler(model, at), p)
<1> DEFINE r == Row(model, at[1])
           k == at[2] + 1
<1>1. k \in 1 .. Len(r) /\ at[2] \in Nat /\ Len(r) \in Nat
  BY RowFacts DEF InRow
<1>2. Orderly(model, at[1], r)
  BY RowOrder
<1>3. Handler(model, at) = r[k] /\ r[at[2] + 1 + skip + 1] = "dispatch"
  BY DEF Handler
<1>4. skip \in Nat /\ skip <= Reach(r[k]) /\ Reach(r[k]) \in Nat
  BY <1>3, SkipsBounded DEF Reach
<1>5. k + 1 + skip = at[2] + 1 + skip + 1 /\ k + 1 + skip <= Len(r)
  BY <1>1, <1>4
<1>6. skip \in 0 .. Reach(r[k])
  BY <1>4
<1>7. r[k + 1 + skip] = "dispatch"
  BY <1>3, <1>5
<1>8. r[k] \notin Last
  BY <1>3
<1> HIDE DEF r, k
<1>9. r[k] \in {"fetch", "plp"} \/ (r[k] = "arith" /\ skip = 1)
  BY <1>1, <1>2, <1>5, <1>6, <1>7, <1>8 DEF Orderly
<1>10. r[k] = "arith" /\ skip = 1 => "D" \notin p
  BY <1>3 DEF Skips
<1> QED BY <1>3, <1>9, <1>10 DEF Fetches

LEMMA StepService ==
  ASSUME PointerInv, PointerInv', HijackInv, ServiceInv, NEW s, NEW c,
         <<s, c>> \in {<<slot, cycle>>, <<"goto", 0>>}, StepFrom(s, c)
  PROVE  ServiceInv'
<1>1. PICK at \in Executed(model, Opcodes, s, c) :
        \E skip \in Skips(Handler(model, at), p) : RunEntry(at, skip)
  BY DEF StepFrom
<1>2. PICK skip \in Skips(Handler(model, at), p) : RunEntry(at, skip)
  BY <1>1
<1> DEFINE h     == Handler(model, at)
           pre   == Prefetches(h, p, skip)
           fetch == Fetches(h, p)
<1>3. TypeOK /\ count \in 0 .. 7
  BY DEF PointerInv, TypeOK
<1>4. InRow(at) /\ h # "dispatch"
  BY <1>1, <1>3, ExecutedInRow
<1>5. /\ fetch => ints' \cap Taken = {}
      /\ h \in Arbitrating => ints' \cap Taken = {}
      /\ ~pre => ints' \cap Taken \subseteq ints \cap Taken
      /\ ints \cap Taken # {} /\ ~fetch /\ h \notin Arbitrating \cup CmosPush
           => ints' \cap Taken # {}
      /\ hijack /\ pre /\ "irq_pin" \in ints /\ "I" \notin p => ints' \cap Taken # {}
      /\ "irq_taken" \in ints' =>
           "irq_taken" \in ints \/ (pre /\ "irq_pin" \in ints /\ "I" \notin p)
  BY <1>2, EntryTaken
<1>6. /\ at[1] \in Unsampled => h \notin Prefetching
      /\ h = "internal_reset" => at[1] = "internal_reset"
      /\ h = "jam" => at[1] = "kil"
      /\ h \in {"nmi_c3", "cmos_nmi_c3"} => at[1] = "nmi"
      /\ h \in {"irq_c3", "cmos_irq_c3"} => at[1] = "irq"
      /\ h = "brk_c3" => at[1] = "brk"
  BY <1>3, <1>4, EntryOrder
<1>7. ~fetch => at = <<slot, cycle>> \/ ints \cap Taken = {}
  <2>1. \/ at = <<slot, cycle>>
        \/ ints \cap Taken = {}
        \/ h = "fetch"
    BY <1>1, <1>3, EntryOrigin
  <2> QED BY <2>1 DEF Fetches
<1>8. at[1] \in Unsampled /\ ~fetch => ints \cap Taken = {} /\ ints' \cap Taken = {}
  <2> SUFFICES ASSUME at[1] \in Unsampled, ~fetch
               PROVE  ints \cap Taken = {} /\ ints' \cap Taken = {}
    OBVIOUS
  <2>1. ints \cap Taken = {}
    BY <1>7 DEF ServiceInv
  <2>2. ~pre
    BY <1>6, PrefetchingHandlers
  <2> QED BY <1>5, <2>1, <2>2
<1>9. model' = model /\ status' = StatusAfter(h, fetch, count)
      /\ granted' = (~fetch /\ (granted \/ (pre /\ "irq_pin" \in ints /\ "I" \notin p)))
  BY <1>2 DEF RunEntry
<1>10. ~fetch => GoesOn(h, at, skip)
  BY <1>2, <1>3, <1>4, EntryGoesOn DEF ServedBy
<1>11. ~fetch => h # "fetch_ext"
  BY DEF Fetches
<1>12. slot' \in Unsampled \/ AtDispatch' => ints' \cap Taken = {}
  <2> SUFFICES ASSUME ~fetch, h \notin Arbitrating, slot' \in Unsampled \/ AtDispatch'
               PROVE  ints' \cap Taken = {}
    BY <1>5
  <2>1. CASE h \in {"jam", "internal_reset"}
    BY <1>6, <1>8, <2>1 DEF Unsampled
  <2>2. CASE h \notin {"jam", "internal_reset"}
    <3>1. h \notin Last /\ slot' = at[1] /\ cycle' = at[2] + 1 + skip
      BY <1>10, <1>11, <2>2 DEF GoesOn
    <3>2. cycle' \in 0 .. Len(Row(model, slot')) - 1
      BY <1>9 DEF PointerInv, TypeOK
    <3>3. ~AtDispatch'
      BY <1>3, <1>4, <1>9, <3>1, <3>2, DispatchAfterFetch DEF AtDispatch
    <3> QED BY <1>8, <3>1, <3>3
  <2> QED BY <2>1, <2>2
<1>13. "irq_taken" \in ints' => granted'
  <2>1. "irq_taken" \in ints' => ~fetch
    BY <1>5 DEF Taken
  <2> HIDE DEF fetch, pre
  <2> QED BY <1>5, <1>9, <2>1 DEF ServiceInv
<1>14. granted' => ints' \cap Taken # {}
  <2> SUFFICES ASSUME granted'
               PROVE  ints' \cap Taken # {}
    OBVIOUS
  <2>1. ~fetch
    BY <1>9
  <2>2. CASE granted
    <3>1. ints \cap Taken # {}
      BY <2>2 DEF ServiceInv
    <3>2. at[1] \notin Unsampled
      BY <1>8, <2>1, <3>1
    <3>3. h \notin Arbitrating \cup CmosPush
      BY <1>6, <3>2 DEF Arbitrating, CmosPush, Unsampled
    <3> QED BY <1>5, <2>1, <3>1, <3>3
  <2>3. CASE pre /\ "irq_pin" \in ints /\ "I" \notin p
    <3>1. hijack
      BY <2>3 DEF HijackInv, FastPathSound, Quiet
    <3> QED BY <1>5, <2>3, <3>1
  <2> QED BY <1>9, <2>2, <2>3
<1>15. status' = "cpu_jammed" => Handler(model, <<slot, cycle>>)' = "jam"
  <2> SUFFICES ASSUME status' = "cpu_jammed"
               PROVE  Handler(model', <<slot', cycle'>>) = "jam"
    BY DEF Handler, Row, ServiceRow, OpcodeRow
  <2>1. h = "jam"
    BY <1>9 DEF StatusAfter
  <2>2. ~fetch
    BY <2>1 DEF Fetches
  <2>3. slot' = at[1] /\ cycle' = at[2]
    BY <1>10, <2>1, <2>2 DEF GoesOn, Last, Arbitrating
  <2>4. at = <<slot', cycle'>>
    BY <1>4, <2>3 DEF InRow
  <2> QED BY <1>9, <2>1, <2>4
<1> QED BY <1>12, <1>13, <1>14, <1>15 DEF ServiceInv

\* A pin call touches the two lines, the mark and hijack only.
LEMMA PinsKeep ==
  ASSUME PinCall
  PROVE  /\ ints' \cap Taken = ints \cap Taken
         /\ "nmi_edge" \in ints' <=> "nmi_edge" \in ints
         /\ "nmi_last" \in ints' <=> "nmi_last" \in ints
         /\ "irq_taken" \in ints' <=> "irq_taken" \in ints
         /\ UNCHANGED <<model, slot, cycle, p, count, status, armed, granted, pushed>>
BY DEF PinCall, NmiAssert, NmiRelease, IrqAssert, IrqRelease, historyVars, Taken

LEMMA NextService ==
  ASSUME PointerInv, PointerInv', HijackInv, ServiceInv, [Next]_vars
  PROVE  ServiceInv'
<1>1. CASE Tick
  BY <1>1, StepService DEF Tick
<1>2. CASE Goto
  BY <1>2, StepService DEF Goto
<1>3. CASE PinCall
  BY <1>3, PinsKeep DEF ServiceInv, AtDispatch
<1>4. CASE Restart
  BY <1>4 DEF Restart, ServiceInv
<1>5. CASE UNCHANGED vars
  BY <1>5 DEF vars, cpuVars, historyVars, ServiceInv, AtDispatch
<1> QED BY <1>1, <1>2, <1>3, <1>4, <1>5 DEF Next

LEMMA ServiceInvariant == Spec => []ServiceInv
<1>1. Init => ServiceInv
  BY DEF Init, ServiceInv
<1>2. PointerInv /\ PointerInv' /\ HijackInv /\ ServiceInv /\ [Next]_vars => ServiceInv'
  BY NextService
<1> QED BY <1>1, <1>2, PointerInvariant, HijackInvariant, PTL DEF Spec
-----------------------------------------------------------------------------
(***************************************************************************)
(* Jams.                                                                    *)
(***************************************************************************)
LEMMA JamStep ==
  ASSUME PointerInv, HijackInv, ServiceInv, Next
  PROVE  (status = "cpu_jammed" /\ status' # "cpu_jammed") =>
            slot' \in {"goto", "internal_reset"}
<1> SUFFICES ASSUME status = "cpu_jammed", status' # "cpu_jammed"
             PROVE  slot' \in {"goto", "internal_reset"}
  OBVIOUS
<1>1. TypeOK /\ count \in 0 .. 7
  BY DEF PointerInv, TypeOK
<1>2. InRow(<<slot, cycle>>) /\ Handler(model, <<slot, cycle>>) = "jam"
  BY <1>1 DEF TypeOK, InRow, ServiceInv
<1>3. slot = "kil" /\ ints \cap Taken = {}
  <2>1. slot = "kil"
    BY <1>1, <1>2, EntryOrder
  <2> QED BY <2>1 DEF ServiceInv, Unsampled
<1>4. CASE Tick
  <2>1. \E skip : RunEntry(<<slot, cycle>>, skip)
    BY <1>2, <1>4 DEF Tick, StepFrom, Executed
  <2>2. status' = "cpu_jammed"
    BY <1>2, <2>1 DEF RunEntry, StatusAfter, Fetches
  <2> QED BY <2>2
<1>5. CASE Goto
  <2>1. Row(model, "goto") = <<"fetch", "dispatch">>
    BY DEF Row, ServiceRow, ServiceRows, CommonServices
  <2>2. Handler(model, <<"goto", 0>>) = "fetch"
    BY <2>1 DEF Handler
  <2>3. PICK skip : RunEntry(<<"goto", 0>>, skip)
    BY <1>5, <2>2 DEF Goto, StepFrom, Executed
  <2>4. ServedBy(Fetches("fetch", p)) = "none"
    BY <1>3 DEF ServedBy, Taken
  <2>5. GoesOn("fetch", <<"goto", 0>>, skip)
    BY <1>1, <2>2, <2>3, <2>4, EntryGoesOn
  <2> QED BY <2>5 DEF GoesOn, Arbitrating
<1>6. CASE PinCall
  BY <1>6, PinsKeep
<1>7. CASE Restart
  BY <1>7 DEF Restart
<1> QED BY <1>4, <1>5, <1>6, <1>7 DEF Next

\* A jammed CPU answers to no pin, whatever was pending when it jammed: only goto
\* and restart release it.
THEOREM JamsHold == Spec => JamHolds
<1>1. PointerInv /\ HijackInv /\ ServiceInv /\ [Next]_vars =>
        [(status = "cpu_jammed" /\ status' # "cpu_jammed") =>
            slot' \in {"goto", "internal_reset"}]_vars
  BY JamStep
<1> QED BY <1>1, PointerInvariant, HijackInvariant, ServiceInvariant, PTL DEF Spec, JamHolds
-----------------------------------------------------------------------------
(***************************************************************************)
(* Sequences run to their end.                                              *)
(***************************************************************************)
\* A tick or a goto, as one entry with what is known of it.
LEMMA StepIsEntry ==
  ASSUME PointerInv, HijackInv, ServiceInv, Tick \/ Goto
  PROVE  \E at, skip :
           /\ RunEntry(at, skip) /\ skip \in Skips(Handler(model, at), p)
           /\ InRow(at) /\ Handler(model, at) # "dispatch"
           /\ \/ at = <<slot, cycle>>
              \/ ints \cap Taken = {} /\ at[2] = 0 /\ at[1] \in OpcodeRows(model)
              \/ at = <<"goto", 0>> /\ Handler(model, at) = "fetch"
<1>1. TypeOK
  BY DEF PointerInv
<1>2. PICK s, c : /\ <<s, c>> \in {<<slot, cycle>>, <<"goto", 0>>}
                  /\ StepFrom(s, c)
  BY DEF Tick, Goto
<1>3. PICK at \in Executed(model, Opcodes, s, c) :
        \E skip \in Skips(Handler(model, at), p) : RunEntry(at, skip)
  BY <1>2 DEF StepFrom
<1>4. InRow(at) /\ Handler(model, at) # "dispatch"
  BY <1>1, <1>2, <1>3, ExecutedInRow
<1>5. \/ at = <<slot, cycle>>
      \/ ints \cap Taken = {} /\ at[2] = 0 /\ at[1] \in OpcodeRows(model)
      \/ at = <<"goto", 0>> /\ Handler(model, at) = "fetch"
  BY <1>1, <1>2, <1>3, EntryOrigin
<1> QED BY <1>3, <1>4, <1>5

LEMMA SequenceStep ==
  ASSUME PointerInv, HijackInv, ServiceInv, Next
  PROVE  (slot \in {"reset", "nmi", "irq", "brk"} /\ slot' \in {"nmi", "irq"}
            /\ <<slot, cycle>>' # <<slot, cycle>>) => cycle' # 0
<1> SUFFICES ASSUME slot \in {"reset", "nmi", "irq", "brk"}, slot' \in {"nmi", "irq"},
                    <<slot', cycle'>> # <<slot, cycle>>
             PROVE  cycle' # 0
  OBVIOUS
<1>1. Tick \/ Goto
  <2>1. ~PinCall
    BY PinsKeep
  <2>2. ~Restart
    BY DEF Restart
  <2> QED BY <2>1, <2>2 DEF Next
<1>2. PICK at, skip :
        /\ RunEntry(at, skip) /\ skip \in Skips(Handler(model, at), p)
        /\ InRow(at) /\ Handler(model, at) # "dispatch"
        /\ \/ at = <<slot, cycle>>
           \/ ints \cap Taken = {} /\ at[2] = 0 /\ at[1] \in OpcodeRows(model)
           \/ at = <<"goto", 0>> /\ Handler(model, at) = "fetch"
  BY <1>1, StepIsEntry
<1>3. ServedBy(Fetches(Handler(model, at), p)) = "none"
  <2>1. ints \cap Taken = {}
    BY DEF ServiceInv, Unsampled
  <2> QED BY <2>1 DEF ServedBy, Taken
<1>4. GoesOn(Handler(model, at), at, skip)
  BY <1>2, <1>3, EntryGoesOn DEF PointerInv, TypeOK
<1>5. at[2] \in Nat /\ skip \in Nat
  BY <1>2, SkipsBounded DEF InRow
<1>6. at[1] \in {"nmi", "irq"} => Handler(model, at) \notin {"jam", "internal_reset"}
  BY <1>2, EntryOrder DEF PointerInv
<1> QED BY <1>4, <1>5, <1>6 DEF GoesOn

\* The first instruction of every interrupt handler runs: neither a reset nor an
\* interrupt or BRK sequence is followed by a service at the fetch that ends it.
THEOREM SequencesAreNotInterrupted == Spec => SequenceUninterrupted
<1>1. PointerInv /\ HijackInv /\ ServiceInv /\ [Next]_vars =>
        [(slot \in {"reset", "nmi", "irq", "brk"} /\ slot' \in {"nmi", "irq"}
            /\ <<slot, cycle>>' # <<slot, cycle>>) => cycle' # 0]_vars
  BY SequenceStep
<1> QED BY <1>1, PointerInvariant, HijackInvariant, ServiceInvariant, PTL
        DEF Spec, SequenceUninterrupted
-----------------------------------------------------------------------------
(***************************************************************************)
(* The window in which IRQ counts.                                          *)
(***************************************************************************)
LEMMA GrantStep ==
  ASSUME PointerInv, HijackInv, ServiceInv, NoTakenAfterFetch, Next
  PROVE  /\ (EntersIrq /\ cycle' = 0) => granted
         /\ (granted /\ status' = "opcode_fetch")
              => (slot' \in {"irq", "nmi"} /\ cycle' = 0)
<1>1. CASE Tick \/ Goto
  <2>1. PICK at, skip :
          /\ RunEntry(at, skip) /\ skip \in Skips(Handler(model, at), p)
          /\ InRow(at) /\ Handler(model, at) # "dispatch"
          /\ \/ at = <<slot, cycle>>
             \/ ints \cap Taken = {} /\ at[2] = 0 /\ at[1] \in OpcodeRows(model)
             \/ at = <<"goto", 0>> /\ Handler(model, at) = "fetch"
    BY <1>1, StepIsEntry
  <2> DEFINE h      == Handler(model, at)
             fetch  == Fetches(h, p)
             served == ServedBy(fetch)
  <2>2. served # "none" => slot' = served /\ cycle' = 0
    BY <2>1, EntryServed
  <2>3. served = "none" => GoesOn(h, at, skip)
    BY <2>1, EntryGoesOn DEF PointerInv, TypeOK
  <2>4. at[2] \in Nat /\ skip \in Nat
    BY <2>1, SkipsBounded DEF InRow
  <2>5. h = "jam" => at[1] = "kil"
    BY <2>1, EntryOrder DEF PointerInv
  <2>6. h = "internal_reset" => at[1] = "internal_reset"
    BY <2>1, EntryOrder DEF PointerInv
  <2>7. EntersIrq /\ cycle' = 0 => granted
    <3> SUFFICES ASSUME slot' = "irq", cycle' = 0
                 PROVE  granted
      BY DEF EntersIrq
    <3>1. served # "none"
      BY <2>3, <2>4, <2>5, <2>6 DEF GoesOn
    <3>2. served = "irq"
      BY <2>2, <3>1
    <3> QED BY <3>2 DEF ServedBy, ServiceInv
  <2>8. granted /\ status' = "opcode_fetch" => slot' \in {"irq", "nmi"} /\ cycle' = 0
    <3> SUFFICES ASSUME granted, status' = "opcode_fetch"
                 PROVE  slot' \in {"irq", "nmi"} /\ cycle' = 0
      OBVIOUS
    <3>1. fetch
      BY <2>1 DEF RunEntry, StatusAfter
    <3>2. "nmi_taken" \in ints \/ "irq_taken" \in ints
      BY DEF ServiceInv, Taken
    <3>3. served \in {"irq", "nmi"}
      BY <3>1, <3>2 DEF ServedBy
    <3> QED BY <2>2, <3>3
  <2> QED BY <2>7, <2>8
<1>2. CASE PinCall
  BY <1>2, PinsKeep DEF EntersIrq, ServiceInv, NoTakenAfterFetch
<1>3. CASE Restart
  BY <1>3 DEF Restart, EntersIrq
<1> QED BY <1>1, <1>2, <1>3 DEF Next

\* The I flag windows of CLI, SEI, PLP and RTI: an instruction is followed by an
\* interrupt service at cycle 0 exactly when it sampled IRQ asserted with I clear,
\* or an NMI was taken with it.
THEOREM IrqOnlyWhenGranted == Spec => IrqExactlyWhenGranted
<1>1. PointerInv /\ HijackInv /\ ServiceInv /\ NoTakenAfterFetch /\ [Next]_vars =>
        [/\ (EntersIrq /\ cycle' = 0) => granted
         /\ (granted /\ status' = "opcode_fetch")
              => (slot' \in {"irq", "nmi"} /\ cycle' = 0)]_vars
  BY GrantStep
<1> QED BY <1>1, PointerInvariant, HijackInvariant, ServiceInvariant, RequestsUsedUpAtFetch, PTL
        DEF Spec, IrqExactlyWhenGranted
-----------------------------------------------------------------------------
(***************************************************************************)
(* Where a latched NMI goes.                                                *)
(***************************************************************************)
Pending(i) == i \cap {"nmi_edge", "nmi_taken"} # {}

\* A handler that is no part of an interrupt sequence loses none.
LEMMA HandlerPending ==
  ASSUME NEW h, NEW i, NEW f, NEW pre,
         h \notin Arbitrating \cup {"cmos_nmi_c3", "cmos_c5"}
  PROVE  LET after == IntsAfter(h, i, f, pre)
         IN  /\ "nmi_edge" \in after <=> "nmi_edge" \in i
             /\ "nmi_taken" \in after <=> "nmi_taken" \in i
BY DEF IntsAfter, Acknowledge, UpdateNmiLastSampled

LEMMA ResolvePending ==
  ASSUME NEW i, NEW f, NEW fetch, Pending(i), ~Pending(Resolve(i, f, fetch))
  PROVE  \/ Served(i, fetch) = "nmi" /\ "nmi_taken" \in i
         \/ /\ "sampling" \in i
            /\ "nmi_taken" \in i /\ "irq_taken" \in Resolve(i, f, fetch) /\ "I" \notin f
<1>1. CASE "sampling" \in i
  BY <1>1 DEF Resolve, FindActiveInterrupt, Pending
<1>2. CASE "sampling" \notin i
  BY <1>2 DEF Resolve, Served, Pending, Taken
<1> QED BY <1>1, <1>2

\* An arbitration that finds a latched edge turns its sequence into NMI's.
LEMMA ArbitrationServes ==
  ASSUME TypeOK, HijackInv, NEW at, NEW skip, RunEntry(at, skip), InRow(at),
         at[2] # 0 => at = <<slot, cycle>>,
         Handler(model, at) \in Arbitrating, hijack, "nmi_edge" \in ints
  PROVE  EntersNmi \/ NmiAbsorbs
<1> DEFINE h      == Handler(model, at)
           before == SampleNmi(ints)
           next   == NextEntry(h, at, before, p, skip, count)
<1>1. "nmi_taken" \in Arbitrate(before, p)
  BY SampleTaken DEF Arbitrate, FindActiveInterrupt
<1>2. ServedBy(Fetches(h, p)) = "none"
  BY DEF ServedBy, Fetches, Arbitrating
<1>3. slot' = next[1]
  BY <1>2, EntryServed
<1>4. at[2] = 3 /\ slot = at[1] /\ cycle = 3
  <2>1. at[2] + 1 = 4 /\ at[2] \in Nat
    BY RowFacts DEF InRow
  <2>2. at[2] = 3
    BY <2>1
  <2> QED BY <2>2
<1>5. CASE h = "nmi_c3"
  <2>1. at[1] = "nmi"
    BY <1>5, EntryOrder
  <2> QED BY <1>4, <2>1 DEF NmiAbsorbs
<1>6. CASE h \in {"brk_c3", "irq_c3"}
  <2>1. VectorAfter(h, before, p) = "nmi"
    <3>1. "nmi_taken" \in Arbitrate(before, p) /\ "irq_taken" \notin Arbitrate(before, p)
      BY <1>1, SampleTaken DEF Arbitrate, FindActiveInterrupt
    <3> HIDE DEF before
    <3> QED BY <1>6, <3>1 DEF VectorAfter
  <2>2. next = <<"nmi", 4>>
    BY <1>6, <2>1 DEF NextEntry
  <2>3. slot \in {"brk", "irq"}
    BY <1>4, <1>6, EntryOrder
  <2> QED BY <1>3, <2>2, <2>3 DEF EntersNmi
<1> QED BY <1>5, <1>6 DEF Arbitrating

\* Outside the branches a request is taken in the cycle before the fetch.
SampledInv ==
  (ints \cap Taken # {} /\ slot \notin BranchRows) => Fetches(Handler(model, <<slot, cycle>>), p)

LEMMA SampledThenFetched ==
  ASSUME TypeOK, NEW at, InRow(at), at[1] \notin BranchRows,
         NEW skip \in Skips(Handler(model, at), p), Prefetches(Handler(model, at), p, skip),
         NEW q \in PAfter(Handler(model, at), p)
  PROVE  Fetches(Handler(model, <<at[1], at[2] + 1 + skip>>), q)
<1> DEFINE r == Row(model, at[1])
           h == Handler(model, at)
<1>1. PICK k \in Nat : k = at[2] + 1
  BY DEF InRow, TypeOK
<1>2. h = r[k] /\ FetchFollows(r, k)
  BY <1>1, EntryOrder DEF Handler
<1>3. Handler(model, <<at[1], at[2] + 1 + skip>>) = r[k + skip + 1]
  BY <1>1 DEF Handler
<1>4. h \in Prefetching
  BY PrefetchingHandlers
<1> HIDE DEF r, h
<1>5. CASE h \in {"pre", "cli", "sei", "cld", "sed"}
  <2>1. skip = 0
    BY <1>5 DEF Skips, h
  <2>2. r[k + skip + 1] \in {"fetch", "fetch_ext", "plp"}
    BY <1>2, <1>5, <2>1 DEF FetchFollows
  <2> QED BY <1>3, <2>2 DEF Fetches
<1>6. CASE h \in {"probe", "probe_d0"}
  <2>1. skip = 1 /\ (h = "probe_d0" => "D" \notin p) /\ q = p
    BY <1>6 DEF Prefetches, PAfter, h
  <2>2. k + skip + 1 = k + 2
    BY <2>1
  <2>3. r[k + skip + 1] = IF h = "probe" THEN "fetch" ELSE "arith"
    BY <1>2, <1>6, <2>2 DEF FetchFollows
  <2> QED BY <1>3, <1>6, <2>1, <2>3 DEF Fetches
<1>7. CASE h \in {"pre_d0", "arith"}
  <2>1. (h = "pre_d0" => "D" \notin p) /\ (h = "arith" => "D" \in p) /\ q = p
    BY <1>7 DEF Prefetches, PAfter, h
  <2>2. skip = 0
    BY <1>7, <2>1 DEF Skips, h
  <2>3. r[k + skip + 1] = IF h = "arith" THEN "fetch" ELSE "arith"
    BY <1>2, <1>7, <2>2 DEF FetchFollows
  <2> QED BY <1>3, <1>7, <2>1, <2>3 DEF Fetches
<1> QED BY <1>2, <1>4, <1>5, <1>6, <1>7 DEF Prefetching, FetchFollows

LEMMA NextSampled ==
  ASSUME PointerInv, HijackInv, ServiceInv, SampledInv, [Next]_vars
  PROVE  SampledInv'
<1>1. CASE Tick \/ Goto
  <2>1. PICK at, skip :
          /\ RunEntry(at, skip) /\ skip \in Skips(Handler(model, at), p)
          /\ InRow(at) /\ Handler(model, at) # "dispatch"
          /\ \/ at = <<slot, cycle>>
             \/ ints \cap Taken = {} /\ at[2] = 0 /\ at[1] \in OpcodeRows(model)
             \/ at = <<"goto", 0>> /\ Handler(model, at) = "fetch"
    BY <1>1, StepIsEntry
  <2> DEFINE h     == Handler(model, at)
             pre   == Prefetches(h, p, skip)
             fetch == Fetches(h, p)
  <2>2. model' = model /\ p' \in PAfter(h, p)
    BY <2>1 DEF RunEntry
  <2>3. SUFFICES ASSUME ints' \cap Taken # {}, slot' \notin BranchRows
                 PROVE  Fetches(Handler(model', <<slot', cycle'>>), p')
    BY DEF SampledInv, Handler, Row, ServiceRow, OpcodeRow
  <2>4. ~fetch /\ h \notin Arbitrating /\ (~pre => ints \cap Taken # {})
    BY <2>1, <2>3, EntryTaken
  <2>5. GoesOn(h, at, skip)
    BY <2>1, <2>4, EntryGoesOn DEF ServedBy, PointerInv, TypeOK
  <2>6. CASE pre
    <3>1. h \notin Last
      BY <2>6, PrefetchingHandlers DEF Prefetching, Last
    <3>2. slot' = at[1] /\ cycle' = at[2] + 1 + skip
      BY <2>4, <2>5, <3>1 DEF GoesOn, Last
    <3> QED BY <2>1, <2>2, <2>3, <2>6, <3>2, SampledThenFetched DEF PointerInv
  <2>7. CASE ~pre
    <3>1. at = <<slot, cycle>>
      BY <2>1, <2>4, <2>7 DEF Fetches
    <3>2. slot \in BranchRows
      BY <2>4, <2>7, <3>1 DEF SampledInv
    <3>3. h \notin Last
      BY <2>1, <2>4, <3>1, <3>2, EntryOrder DEF PointerInv, Last, Fetches, BranchRows
    <3>4. slot' = slot
      BY <2>4, <2>5, <3>1, <3>3 DEF GoesOn, Last
    <3> QED BY <2>3, <3>2, <3>4
  <2> QED BY <2>6, <2>7
<1>2. CASE PinCall
  BY <1>2, PinsKeep DEF SampledInv, Handler, Row, ServiceRow, OpcodeRow
<1>3. CASE Restart
  BY <1>3 DEF Restart, SampledInv
<1>4. CASE UNCHANGED vars
  BY <1>4 DEF vars, cpuVars, SampledInv, Handler, Row, ServiceRow, OpcodeRow
<1> QED BY <1>1, <1>2, <1>3, <1>4 DEF Next

LEMMA SampledInvariant == Spec => []SampledInv
<1>1. Init => SampledInv
  BY DEF Init, SampledInv
<1>2. PointerInv /\ HijackInv /\ ServiceInv /\ SampledInv /\ [Next]_vars => SampledInv'
  BY NextSampled
<1> QED BY <1>1, <1>2, PointerInvariant, HijackInvariant, ServiceInvariant, PTL DEF Spec

\* An IRQ displaces an NMI in the second sampling cycle of a branch.
Displaces ==
  /\ slot \in BranchRows
  /\ "nmi_taken" \in ints /\ "irq_taken" \in ints' /\ "I" \notin p

LEMMA DropStep ==
  ASSUME PointerInv, HijackInv, ServiceInv, SampledInv, Next, Pending(ints), ~Pending(ints')
  PROVE  \/ slot' = "internal_reset"
         \/ EntersNmi
         \/ NmiAbsorbs
         \/ slot = "irq" /\ cycle = 5 /\ model \in CmosModels
         \/ Displaces
<1>1. CASE Tick \/ Goto
  <2>1. PICK at, skip :
          /\ RunEntry(at, skip) /\ skip \in Skips(Handler(model, at), p)
          /\ InRow(at) /\ Handler(model, at) # "dispatch"
          /\ \/ at = <<slot, cycle>>
             \/ ints \cap Taken = {} /\ at[2] = 0 /\ at[1] \in OpcodeRows(model)
             \/ at = <<"goto", 0>> /\ Handler(model, at) = "fetch"
    BY <1>1, StepIsEntry
  <2> DEFINE h     == Handler(model, at)
             pre   == Prefetches(h, p, skip)
             fetch == Fetches(h, p)
             after == IntsAfter(h, SampleNmi(ints), p, pre)
  <2>2. hijack
    BY DEF HijackInv, FastPathSound, Quiet, Pending, Taken
  <2>3. Pending(SampleNmi(ints))
    BY SampleTaken DEF Pending, Taken
  <2>4. ints' = Resolve(after, p, fetch)
    BY <2>1, <2>2 DEF RunEntry
  <2>5. TypeOK /\ count \in 0 .. 7
    BY DEF PointerInv, TypeOK
  <2>6. /\ h = "cmos_nmi_c3" => at[1] = "nmi" /\ at[2] = 3
        /\ h \in Arbitrating => at[1] \in {"nmi", "irq", "brk"}
        /\ h = "cmos_c5" => at[1] \in {"nmi", "irq"} /\ at[2] = 5 /\ model \in CmosModels
    BY <2>1, <2>5, EntryOrder DEF Arbitrating, CmosOnly
  <2>7. CASE h \in Arbitrating
    <3>1. ints \cap Taken = {}
      <4>1. at = <<slot, cycle>> \/ ints \cap Taken = {}
        BY <2>1, <2>7 DEF Arbitrating
      <4> QED BY <2>6, <2>7, <4>1 DEF ServiceInv, Unsampled
    <3>2. "nmi_edge" \in ints
      BY <3>1 DEF Pending, Taken
    <3>3. at[2] # 0 => at = <<slot, cycle>>
      BY <2>1
    <3> QED BY <2>1, <2>2, <2>5, <2>7, <3>2, <3>3, ArbitrationServes
  <2>8. CASE h \in {"cmos_nmi_c3", "cmos_c5"}
    <3>1. at = <<slot, cycle>>
      BY <2>1, <2>6, <2>8
    <3>2. slot = at[1] /\ cycle = at[2]
      BY <3>1
    <3> QED BY <2>6, <2>8, <3>2 DEF NmiAbsorbs
  <2>9. CASE h \notin Arbitrating \cup {"cmos_nmi_c3", "cmos_c5"}
    <3>1. /\ "nmi_edge" \in after <=> "nmi_edge" \in SampleNmi(ints)
          /\ "nmi_taken" \in after <=> "nmi_taken" \in SampleNmi(ints)
      <4> HIDE DEF h, pre
      <4> QED BY <2>9, HandlerPending
    <3>2. Pending(after) /\ ("nmi_taken" \in after => "nmi_taken" \in ints)
      <4>1. "nmi_taken" \in SampleNmi(ints) => "nmi_taken" \in ints
        BY SampleTaken DEF Taken
      <4> HIDE DEF after
      <4> QED BY <2>3, <3>1, <4>1 DEF Pending
    <3>3. \/ Served(after, fetch) = "nmi" /\ "nmi_taken" \in ints
          \/ /\ "sampling" \in after
             /\ "nmi_taken" \in ints /\ "irq_taken" \in ints' /\ "I" \notin p
      <4> HIDE DEF after, fetch
      <4> QED BY <2>4, <3>2, ResolvePending
    <3>4. "nmi_taken" \in ints => slot # "nmi"
      BY DEF ServiceInv, Unsampled, Taken
    <3>5. Served(after, fetch) = "nmi" => slot' = "nmi"
      BY <2>1, <2>2 DEF RunEntry
    <3>6. ~fetch /\ "nmi_taken" \in ints => slot \in BranchRows
      <4> SUFFICES ASSUME ~fetch, "nmi_taken" \in ints
                   PROVE  slot \in BranchRows
        OBVIOUS
      <4>1. at = <<slot, cycle>>
        BY <2>1 DEF Fetches, Taken
      <4>2. ints \cap Taken # {}
        BY DEF Taken
      <4> QED BY <4>1, <4>2 DEF SampledInv
    <3>7. "irq_taken" \in ints' => ~fetch
      BY <2>1, EntryTaken DEF Taken
    <3> HIDE DEF after, fetch
    <3> QED BY <3>3, <3>4, <3>5, <3>6, <3>7 DEF EntersNmi, Displaces
  <2> QED BY <2>7, <2>8, <2>9
<1>2. CASE PinCall
  BY <1>2, PinsKeep DEF Pending, Taken
<1>3. CASE Restart
  BY <1>3 DEF Restart
<1> QED BY <1>1, <1>2, <1>3 DEF Next

\* Five steps end a latched NMI: a restart, the entry of its service, an NMI
\* service under way that absorbs a second one in its third push or CMOS vector
\* fetch, the vector fetch of a CMOS IRQ service, and the second sampling cycle of
\* a branch, where an IRQ displaces an NMI taken in the first.
THEOREM NmiIsDroppedOnlyThere == Spec => NmiDroppedOnly
<1>1. PointerInv /\ HijackInv /\ ServiceInv /\ SampledInv /\ [Next]_vars =>
        [(NmiPending /\ ~NmiPending') =>
           \/ slot' = "internal_reset"
           \/ EntersNmi
           \/ NmiAbsorbs
           \/ slot = "irq" /\ cycle = 5 /\ model \in CmosModels
           \/ /\ slot \in BranchRows
              /\ "nmi_taken" \in ints /\ "irq_taken" \in ints' /\ "I" \notin p]_vars
  BY DropStep DEF NmiPending, Pending, Displaces
<1> QED BY <1>1, PointerInvariant, HijackInvariant, ServiceInvariant, SampledInvariant, PTL
        DEF Spec, NmiDroppedOnly
-----------------------------------------------------------------------------
(***************************************************************************)
(* A host that calls goto while sampling is off.                             *)
(***************************************************************************)
LEMMA DeafStep ==
  ASSUME PointerInv, HijackInv, ServiceInv, WindowInv, WindowInv', Next, SamplingOff'
  PROVE  /\ ~SamplingOff => VectorWindow'
         /\ (VectorWindow /\ ~VectorWindow') => slot' = "goto"
         /\ ~(slot \in {"brk", "nmi", "irq"} /\ cycle = 5 /\ cycle' = 6)
<1>1. CASE Tick
  <2>1. PICK at \in Executed(model, Opcodes, slot, cycle) :
          \E skip \in Skips(Handler(model, at), p) : RunEntry(at, skip)
    BY <1>1 DEF Tick, StepFrom
  <2>2. PICK skip \in Skips(Handler(model, at), p) : RunEntry(at, skip)
    BY <2>1
  <2> DEFINE h == Handler(model, at)
  <2>3. TypeOK /\ InRow(at) /\ at[2] \in Nat /\ model' = model
    <3>1. TypeOK /\ model' = model
      BY <2>2 DEF PointerInv, RunEntry
    <3>2. InRow(at)
      BY <2>1, <3>1, ExecutedInRow
    <3> QED BY <3>1, <3>2 DEF InRow, TypeOK
  <2>4. h \in Arbitrating \/ (SamplingOff /\ h \notin Closing)
    BY <2>2, EntryWindow DEF SamplingOff
  <2>5. model \in NmosModels
    BY <2>3 DEF WindowInv, SamplingOff
  <2>6. CASE h \in Arbitrating
    <3>1. at[1] \in Interrupting /\ at[2] = 3
      BY <2>3, <2>6, RowFacts DEF IsPush, Arbitrating
    <3>2. slot' \in Interrupting /\ cycle' = 4
      BY <2>2, <2>3, <2>6, <3>1, SequenceGoesOn
    <3> QED BY <3>2 DEF VectorWindow, Interrupting
  <2>7. CASE SamplingOff /\ h \notin Closing /\ h \notin Arbitrating
    <3>1. ASSUME slot \in Interrupting, cycle \in 4 .. 5
          PROVE  cycle = 4 /\ slot' = slot /\ cycle' = 5
      <4>1. Row(model, slot)[5] = "body" /\ Row(model, slot)[6] \in Closing
        BY <2>5, <3>1, NmosSequences
      <4>2. Handler(model, <<slot, cycle>>) = IF cycle = 4 THEN "body" ELSE Row(model, slot)[6]
        BY <3>1, <4>1 DEF Handler
      <4>3. at = <<slot, cycle>>
        BY <2>1, <4>1, <4>2 DEF Executed, Closing
      <4>4. cycle = 4 /\ h = "body"
        BY <2>7, <3>1, <4>1, <4>2, <4>3
      <4> QED BY <2>2, <2>3, <2>7, <3>1, <4>3, <4>4, SequenceGoesOn
    <3> QED BY <2>7, <3>1 DEF VectorWindow, Interrupting
  <2> QED BY <2>4, <2>6, <2>7
<1>2. CASE Goto
  <2> DEFINE at == <<"goto", 0>>
  <2>1. Handler(model, at) = "fetch"
    <3>1. Row(model, "goto") = <<"fetch", "dispatch">>
      BY DEF Row, ServiceRow, ServiceRows, CommonServices
    <3> QED BY <3>1 DEF Handler
  <2>2. PICK skip \in Skips("fetch", p) : RunEntry(at, skip)
    BY <1>2, <2>1 DEF Goto, StepFrom, Executed
  <2>3. SamplingOff
    BY <2>1, <2>2, EntryWindow DEF SamplingOff, Arbitrating
  <2>4. VectorWindow => slot' = "goto"
    <3> SUFFICES ASSUME VectorWindow
                 PROVE  slot' = "goto"
      OBVIOUS
    <3>1. ints \cap Taken = {}
      BY DEF VectorWindow, ServiceInv, Unsampled
    <3>2. ServedBy(Fetches("fetch", p)) = "none"
      BY <3>1 DEF ServedBy, Taken
    <3>3. GoesOn("fetch", at, skip)
      BY <2>1, <2>2, <3>2, EntryGoesOn DEF PointerInv, TypeOK
    <3> QED BY <3>3 DEF GoesOn, Arbitrating
  <2>5. slot' = "goto" \/ cycle' = 0
    <3>1. ServedBy(Fetches("fetch", p)) # "none" => cycle' = 0
      BY <2>1, <2>2, EntryServed
    <3>2. ServedBy(Fetches("fetch", p)) = "none" => GoesOn("fetch", at, skip)
      BY <2>1, <2>2, EntryGoesOn DEF PointerInv, TypeOK
    <3> QED BY <3>1, <3>2 DEF GoesOn, Arbitrating
  <2>6. slot' = "goto" => cycle' # 6
    <3>1. ServedBy(Fetches("fetch", p)) # "none" => cycle' = 0
      BY <2>1, <2>2, EntryServed
    <3>2. ServedBy(Fetches("fetch", p)) = "none" => GoesOn("fetch", at, skip)
      BY <2>1, <2>2, EntryGoesOn DEF PointerInv, TypeOK
    <3>3. skip = 0
      BY <2>2 DEF Skips
    <3> QED BY <3>1, <3>2, <3>3 DEF GoesOn, Arbitrating
  <2> QED BY <2>3, <2>4, <2>5, <2>6
<1>3. CASE PinCall
  <2>1. SamplingOff
    BY <1>3 DEF SamplingOff, PinCall, NmiAssert, NmiRelease, IrqAssert, IrqRelease
  <2> QED BY <1>3, <2>1, PinsKeep DEF VectorWindow, PointerInv, TypeOK
<1>4. CASE Restart
  BY <1>4 DEF Restart, SamplingOff
<1> QED BY <1>1, <1>2, <1>3, <1>4 DEF Next

\* Whatever the host does: only a third push makes the CPU deaf to NMI, only goto
\* keeps it so beyond the sequence's own vector fetch, and no longer than to the
\* vector fetch of the next sequence.
THEOREM GotoDeafensUntilTheNextVector == Spec => DeafOnlyByGoto
<1>1. PointerInv /\ HijackInv /\ ServiceInv /\ WindowInv /\ WindowInv' /\ [Next]_vars =>
        [/\ (SamplingOff' /\ ~SamplingOff) => VectorWindow'
         /\ (SamplingOff' /\ VectorWindow /\ ~VectorWindow') => slot' = "goto"
         /\ (slot \in {"brk", "nmi", "irq"} /\ cycle = 5 /\ cycle' = 6) => ~SamplingOff']_vars
  BY DeafStep
<1> QED BY <1>1, PointerInvariant, HijackInvariant, ServiceInvariant, WindowInvariant, PTL
        DEF Spec, DeafOnlyByGoto
-----------------------------------------------------------------------------
(***************************************************************************)
(* The edge of the NMI line.  A tick that could sample and found the line      *)
(* released leaves it armed: from then on the level sampled last is low, until *)
(* a tick that can sample finds the line asserted.                            *)
(***************************************************************************)
EdgeInv == armed => "nmi_last" \notin ints

\* The level sampled last becomes high only where the line is looked at.
LEMMA HandlerLast ==
  ASSUME NEW h, NEW i, NEW f, NEW pre,
         "nmi_last" \in IntsAfter(h, i, f, pre), "nmi_last" \notin i
  PROVE  "nmi_pin" \in i /\ h \in CmosOnly \cup {"nmi_c5"}
<1>1. CASE h \in Arbitrating
  BY <1>1 DEF IntsAfter, Arbitrate, FindActiveInterrupt, Taken
<1>2. CASE h \notin Arbitrating
  BY <1>2 DEF IntsAfter, Acknowledge, UpdateNmiLastSampled, CmosOnly, CmosPush
<1> QED BY <1>1, <1>2

LEMMA ResolveLast ==
  ASSUME NEW i, NEW f, NEW fetch, "nmi_last" \in Resolve(i, f, fetch)
  PROVE  "nmi_last" \in i
BY DEF Resolve, FindActiveInterrupt, Taken

LEMMA EntryEdge ==
  ASSUME PointerInv, WindowInv, LastInv, EdgeInv,
         NEW at, NEW skip, RunEntry(at, skip), InRow(at)
  PROVE  EdgeInv'
<1> DEFINE h      == Handler(model, at)
           pre    == Prefetches(h, p, skip)
           fetch  == Fetches(h, p)
           before == IF hijack THEN SampleNmi(ints) ELSE ints
           after  == IntsAfter(h, before, p, pre)
<1> SUFFICES ASSUME armed', "nmi_last" \in ints'
             PROVE  FALSE
  BY DEF EdgeInv
<1>1. armed' = IF "sampling_off" \in ints /\ h # "nmi_c5" THEN armed ELSE "nmi_pin" \notin ints
  BY DEF RunEntry
<1>2. "nmi_last" \in after
  <2>1. ints' = IF hijack THEN Resolve(after, p, fetch) ELSE after
    BY DEF RunEntry
  <2> HIDE DEF after
  <2> QED BY <2>1, ResolveLast
<1>3. "nmi_pin" \in before <=> "nmi_pin" \in ints
  BY DEF SampleNmi, UpdateNmiLastSampled
<1>4. h \in CmosOnly => model \in CmosModels
  BY EntryOrder DEF PointerInv
<1>5. "sampling_off" \in ints => h \notin CmosOnly
  BY <1>4 DEF WindowInv, NmosModels, CmosModels
<1>6. "nmi_last" \in before \/ ("nmi_pin" \in before /\ h \in CmosOnly \cup {"nmi_c5"})
  <2> HIDE DEF before, h, pre
  <2> QED BY <1>2, HandlerLast
<1>7. CASE "sampling_off" \in ints /\ h # "nmi_c5"
  <2>1. before = ints
    BY <1>7 DEF SampleNmi
  <2>2. "nmi_last" \in ints
    BY <1>5, <1>6, <1>7, <2>1
  <2> QED BY <1>1, <1>7, <2>2 DEF EdgeInv
<1>8. CASE ~("sampling_off" \in ints /\ h # "nmi_c5")
  <2>1. "nmi_pin" \notin ints
    BY <1>1, <1>8
  <2>2. "nmi_last" \in before
    BY <1>3, <1>6, <2>1
  <2>3. CASE hijack /\ "sampling_off" \notin ints
    BY <2>1, <2>2, <2>3 DEF SampleNmi, UpdateNmiLastSampled
  <2>4. CASE ~hijack \/ "sampling_off" \in ints
    <3>1. before = ints
      BY <2>4 DEF SampleNmi
    <3> QED BY <2>1, <2>2, <2>4, <3>1 DEF LastInv
  <2> QED BY <2>3, <2>4
<1> QED BY <1>7, <1>8

LEMMA NextEdge ==
  ASSUME PointerInv, HijackInv, WindowInv, ServiceInv, LastInv, EdgeInv, [Next]_vars
  PROVE  EdgeInv'
<1>1. CASE Tick \/ Goto
  BY <1>1, StepIsEntry, EntryEdge
<1>2. CASE PinCall
  BY <1>2, PinsKeep DEF EdgeInv
<1>3. CASE Restart
  BY <1>3 DEF Restart, EdgeInv
<1>4. CASE UNCHANGED vars
  BY <1>4 DEF vars, cpuVars, historyVars, EdgeInv
<1> QED BY <1>1, <1>2, <1>3, <1>4 DEF Next

\* An NMI edge is never missed: once a tick that could sample has seen the line
\* released, an assertion keeps the resolver running until a tick that can sample
\* finds the edge.  On an NMOS model the host must not release the line while an
\* interrupt sequence has sampling off (LostEdge).
THEOREM NmiEdgesAreSeen ==
  ASSUME ReleaseInWindow = FALSE \/ Models \subseteq CmosModels
  PROVE  Spec => []NmiEdgeSeen
<1>1. Init => LastInv /\ EdgeInv
  BY DEF Init, LastInv, EdgeInv
<1>2. TypeOK /\ WindowInv => ("sampling_off" \in ints => ReleaseInWindow = FALSE)
  BY DEF TypeOK, WindowInv, NmosModels, CmosModels
<1>3. PointerInv /\ HijackInv /\ WindowInv /\ ServiceInv /\ LastInv /\ EdgeInv /\ [Next]_vars
        => LastInv' /\ EdgeInv'
  BY <1>2, NextLast, NextEdge DEF PointerInv
<1>4. HijackInv /\ EdgeInv => NmiEdgeSeen
  BY DEF HijackInv, FastPathSound, Quiet, EdgeInv, NmiEdgeSeen
<1> QED BY <1>1, <1>3, <1>4, PointerInvariant, HijackInvariant, WindowInvariant,
           ServiceInvariant, PTL DEF Spec
=============================================================================
