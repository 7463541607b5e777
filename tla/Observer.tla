------------------------------- MODULE Observer -------------------------------
(***************************************************************************)
(* The interrupt timing observer on the qe6502 backend: for each test case   *)
(* that its options select it runs the program up to the opcode under test   *)
(* and records twenty bus cycles: first left alone, then with the interrupt  *)
(* line asserted for good before the first, then once for each cycle with    *)
(* the line asserted before it and released a number of cycles later. The    *)
(* first cycle in which a trace differs from the one left alone says when    *)
(* the interrupt was served.                                                 *)
(*                                                                           *)
(* The observer makes its first two traces twice to see whether they can be  *)
(* reproduced; here a trace is a function of the test and the pulse, and     *)
(* made once. A trace holds the fetch of a cycle, which the observer records *)
(* but does not compare. All traces of a test start from the same state,     *)
(* which is computed once. The other backend, the netlist simulator, is not  *)
(* modelled.                                                                 *)
(***************************************************************************)
EXTENDS Qe6502Cpu, Testcases

LOCAL INSTANCE FiniteSetsExt

CONSTANTS Options,             \* opcode_filter, testcase_filter, mode and nmi_hold_cycles
          pretest_cycle_limit

NoFilter == 256

ASSUME OptionsAssumption ==
  Options \subseteq [opcode : 0..NoFilter, case : 0..NoFilter, mode : {"nmi", "irq"}, hold : 1..1000]
ASSUME LimitAssumption == pretest_cycle_limit \in Nat

VARIABLES opts,      \* the options given
          queue,     \* the test cases left: <<opcode, index>>
          phase,     \* what comes next: a test, its alignment, its baseline, the early trace, an injection
          test,      \* the test under way
          start,     \* the backend at the fetch of the opcode under test
          baseline,  \* baseline0
          inject,    \* inject_cycle
          diff,      \* the first difference of the last trace
          report,    \* the report under way
          reports    \* those that are finished

vars == <<opts, queue, phase, test, start, baseline, inject, diff, report, reports>>

reset_entry == \he000
irq_trap == \he100
nmi_trap == \he200
trace_cycles == 20
-----------------------------------------------------------------------------
(* What is in memory. *)

testcase_status_for_mode(t, mode) ==
  IF mode = "irq" /\ Bit(t.regs.p, 4) THEN t.regs.p - 4 ELSE t.regs.p

bootstrap_program(t, p) ==
  LET Of(mn, operand) == Emitted(Asm(mn, "imm"), operand)
      Bare(mn) == Emitted(Asm(mn, "none"), 0)
  IN  At(reset_entry, Of("ldx", t.regs.s) \o Bare("txs") \o Of("lda", p) \o Bare("pha")
                        \o Of("lda", t.regs.a) \o Of("ldx", t.regs.x) \o Of("ldy", t.regs.y)
                        \o Bare("plp") \o Emitted(Asm("jmp", "abs"), t.start_at))
        @@ At(\hfffa, DoubleByte(nmi_trap) \o DoubleByte(reset_entry) \o DoubleByte(irq_trap))

\* make_irq_handler and make_nmi_handler.
make_handler(trap, mn) == At(trap, Emitted(Asm(mn, "none"), 0) \o Emitted(Asm("jmp", "abs"), trap))

load_clean_memory(t, mode) ==
  LET placed == [a \in DOMAIN t.mem_setup |->
                   IF a \in t.status THEN Status(t.mem_setup[a]) ELSE t.mem_setup[a]]
  IN  make_handler(nmi_trap, "inx") @@ make_handler(irq_trap, "iny")
        @@ bootstrap_program(t, Status(testcase_status_for_mode(t, mode))) @@ placed
-----------------------------------------------------------------------------
(* Traces. *)

AtStart(b, t) ==
  is_opcode_fetch(b) /\ ~is_write(b) /\ bus_address(b) = t.start_at /\ bus_data(b) = t.opcode

RECURSIVE align_to_test_start(_, _, _)
align_to_test_start(b, t, limit) ==
  CASE limit = 0                  -> [aligned |-> FALSE, cpu |-> b]
    [] limit > 0 /\ AtStart(b, t) -> [aligned |-> TRUE, cpu |-> b]
    [] OTHER                      -> align_to_test_start(step(b), t, limit - 1)

set_interrupt(b, mode, asserted) == IF mode = "irq" THEN irq(b, asserted) ELSE nmi(b, asserted)

Aligned(t, mode) ==
  align_to_test_start(
    nmi(irq(restart(load_clean_memory(t, mode)), FALSE), FALSE), t, pretest_cycle_limit)

current_bus_sample(b) ==
  [fetch |-> is_opcode_fetch(b), write |-> is_write(b), address |-> bus_address(b), data |-> bus_data(b)]

Never == -1
Pulsed(b, mode, pulse, cycle) ==
  CASE pulse[1] = cycle                      -> set_interrupt(b, mode, TRUE)
    [] pulse[1] # cycle /\ pulse[2] = cycle  -> set_interrupt(b, mode, FALSE)
    [] OTHER                                 -> b

RECURSIVE Samples(_, _, _, _)
Samples(b, mode, pulse, cycle) ==
  IF cycle = trace_cycles THEN <<>>
  ELSE LET now == Pulsed(b, mode, pulse, cycle)
       IN  <<current_bus_sample(now)>> \o Samples(step(now), mode, pulse, cycle + 1)

same_bus_sample(x, y) == x.write = y.write /\ x.address = y.address /\ x.data = y.data

first_diff_cycle(x, y) ==
  LET differ == {i \in 1..trace_cycles : ~same_bus_sample(x[i], y[i])}
  IN  IF differ = {} THEN -1 ELSE Min(differ) - 1
-----------------------------------------------------------------------------
(* A run of the observer. *)

should_run_opcode(o, opcode) == IF o.opcode # NoFilter THEN o.opcode = opcode ELSE opcode # 0
should_run_case(o, index) == o.case = NoFilter \/ o.case = index

Entries == UNION {{<<opcode, i - 1>> : i \in DOMAIN Testcases[opcode + 1]} : opcode \in 0..255}
Selected(o) == {e \in Entries : should_run_opcode(o, e[1]) /\ should_run_case(o, e[2])}

\* The order of the map and of the vectors in it.
Before(e, f) == e[1] < f[1] \/ (e[1] = f[1] /\ e[2] < f[2])

NoReport == [entry |-> <<>>, metadata_cycles |-> 0, baseline_reproducible |-> FALSE,
             boundary_cycle |-> -1, primary_scan_last_cycle |-> -1,
             primary_last_immediate |-> -1, primary_first_deferred |-> -1]

Init == /\ opts \in Options
        /\ queue = Selected(opts)
        /\ phase = "test"
        /\ test = <<>>
        /\ start = <<>>
        /\ baseline = <<>>
        /\ inject = 0
        /\ diff = -1
        /\ report = NoReport
        /\ reports = <<>>

\* The next test is taken up.
Take ==
  /\ phase = "test"
  /\ queue # {}
  /\ LET entry == CHOOSE e \in queue : \A f \in queue \ {e} : Before(e, f)
     IN  /\ test' = Assembled(Testcases[entry[1] + 1][entry[2] + 1])
         /\ report' = [NoReport EXCEPT !.entry = entry, !.metadata_cycles = test'.expected_cycles]
         /\ queue' = queue \ {entry}
  /\ phase' = "align"
  /\ UNCHANGED <<opts, start, baseline, inject, diff, reports>>

\* The report is done.
Finish(r) == /\ reports' = Append(reports, r)
             /\ phase' = "test"
             /\ test' = <<>>
             /\ start' = <<>>
             /\ baseline' = <<>>
             /\ inject' = 0
             /\ diff' = -1
             /\ report' = NoReport
             /\ UNCHANGED <<opts, queue>>

\* The memory is loaded, and the program runs to the opcode under test.
Align ==
  /\ phase = "align"
  /\ LET at == Aligned(test, opts.mode)
     IN  IF at.aligned
         THEN /\ start' = at.cpu
              /\ phase' = "baseline"
              /\ UNCHANGED <<opts, queue, test, baseline, inject, diff, report, reports>>
         ELSE Finish(report)

\* One trace is left alone, one has the line asserted for good, the others for a while.
Pulse ==
  CASE phase = "baseline" -> <<Never, Never>>
    [] phase = "early"    -> <<0, Never>>
    [] phase = "scan"     -> <<inject, inject + opts.hold>>

Baseline(trace) ==
  /\ phase = "baseline"
  /\ baseline' = trace
  /\ report' = [report EXCEPT !.baseline_reproducible = TRUE]
  /\ phase' = "early"
  /\ UNCHANGED <<opts, queue, test, start, inject, diff, reports>>

Early(trace) ==
  /\ phase = "early"
  /\ LET boundary == first_diff_cycle(baseline, trace)
         found == [report EXCEPT !.boundary_cycle = boundary]
         last == IF test.expected_cycles < trace_cycles THEN test.expected_cycles ELSE trace_cycles - 1
     IN  IF boundary < 0
         THEN Finish(found)
         ELSE /\ report' = [found EXCEPT !.primary_scan_last_cycle = last]
              /\ phase' = "scan"
              /\ UNCHANGED <<opts, queue, test, start, baseline, inject, diff, reports>>

classification_text(d, boundary) ==
  CASE d < 0        -> "no-diff-within-window"
    [] d >= 0 /\ d = boundary -> "immediate"
    [] d >= 0 /\ d > boundary -> "deferred"
    [] OTHER                  -> "earlier-than-boundary"

Classified(r, cycle, d) ==
  LET class == classification_text(d, r.boundary_cycle)
  IN  CASE cycle > r.primary_scan_last_cycle -> r
        [] cycle <= r.primary_scan_last_cycle /\ class = "immediate" ->
             [r EXCEPT !.primary_last_immediate = cycle]
        [] cycle <= r.primary_scan_last_cycle /\ class = "deferred" /\ r.primary_first_deferred < 0 ->
             [r EXCEPT !.primary_first_deferred = cycle]
        [] OTHER -> r

Scan(trace) ==
  /\ phase = "scan"
  /\ diff' = first_diff_cycle(baseline, trace)
  /\ report' = Classified(report, inject, diff')
  /\ inject' = inject + 1
  /\ UNCHANGED <<opts, queue, phase, test, start, baseline, reports>>

\* A trace of trace_cycles bus cycles from the opcode under test on, and what it is for.
Record ==
  /\ phase \in {"baseline", "early", "scan"}
  /\ inject < trace_cycles
  /\ \E trace \in {Samples(start, opts.mode, Pulse, 0)} : Baseline(trace) \/ Early(trace) \/ Scan(trace)

Summarise ==
  /\ phase = "scan"
  /\ inject = trace_cycles
  /\ Finish(report)

\* print_final_summary: the boundaries of an opcode's cases, without repetition.
boundaries(opcode) ==
  LET found == {i \in DOMAIN reports : reports[i].entry[1] = opcode /\ reports[i].boundary_cycle >= 0}
  IN  {reports[i].boundary_cycle : i \in found}

Next == Take \/ Align \/ Record \/ Summarise
Spec == Init /\ [][Next]_vars

-----------------------------------------------------------------------------
(* Properties. *)

\* The opcode fetches of the baseline, and what the opcode under test stands for.
Fetched == {i - 1 : i \in {j \in 1..trace_cycles : baseline[j].fetch}}
Under == Store[test.opcode]

\* Each program does what its case declares: the instruction is as long as it says, takes
\* as many cycles, reads every byte that is there for it, writes where a label says, and
\* leads to the trap.  BRK goes to the observer's own handler, KIL nowhere; an unstable
\* store that crosses a page writes to the page that its value names, and the labels of
\* these cases, \h21f0 + \h10 = \h2210, are not where it would have gone either.
RunsAsDeclared ==
  phase = "early" =>
    LET cycles == {i \in 1..test.expected_cycles : i <= trace_cycles}
        read == {baseline[i].address : i \in {j \in cycles : ~baseline[j].write}}
        Hits(sample, address) ==
          \/ sample.address = address
          \/ Under.i.kind = "unstable" /\ sample.address \div 256 = sample.data
    IN  /\ test.length = test.bytes
        /\ test.start_at .. test.start_at + test.bytes - 1 \subseteq read
        /\ test.data \subseteq read
        /\ \A address \in test.stores : \E i \in cycles : baseline[i].write /\ Hits(baseline[i], address)
        /\ IF Under.row = "kil" THEN Fetched = {0}
           ELSE /\ Min(Fetched \ {0}) = test.expected_cycles
                /\ baseline[test.expected_cycles + 1].address =
                     IF test.opcode = 0 THEN irq_trap ELSE test.trap

\* The cycles at whose end an instruction that begins with fetch f and ends with fetch m
\* looks at the pins: two before the fetch; a branch at once, and again when it crosses a
\* page.
Polled(f, m) ==
  IF f = 0 /\ Under.row = "branch" THEN {0} \cup {c \in {2} : m = 4} ELSE {m - 2}

\* I is set when the pins are looked at: from RTI on, after PLP and SEI.
Masked(f) == Under.row = "rti" \/ (f > 0 /\ Under.row \in {"plp", "sei"})

\* The fetches that give way to an interrupt asserted before cycle from for opts.hold cycles.
GivingWay(from) ==
  {m \in Fetched \ {0} :
     LET f == Max({g \in Fetched : g < m})
     IN  \E c \in Polled(f, m) :
           /\ from <= c
           /\ opts.mode = "irq" => c < from + opts.hold /\ ~Masked(f)}

\* A pulse is recognised where an instruction next polls for it: an NMI pulse at the first
\* poll from it on, however short it is, an IRQ pulse only by a poll that it covers and
\* that I does not mask.  The trace differs from the cycle after the fetch that gives way.
\* For NMI the last cycle in time for the instruction is followed by the first too late.
\* BRK is left out: it takes the vector of an NMI that comes early and misses a short one
\* that comes late.
RecognisedInTime ==
  phase = "scan" /\ inject > 0 /\ test.opcode # 0 =>
    LET fetches == {m \in GivingWay(inject - 1) : m + 1 < trace_cycles}
    IN  /\ diff = IF fetches = {} THEN -1 ELSE Min(fetches) + 1
        /\ opts.mode = "nmi" /\ inject > test.expected_cycles =>
             report.primary_first_deferred = report.primary_last_immediate + 1

\* How many cycles an instruction whose row is at entry c may still take.
RECURSIVE Lengths(_, _)
Lengths(row, c) ==
  LET h == Ints!Handler("nmos", <<row, c>>)
  IN  CASE h = "jam"           -> {}
        [] Ints!Fetches(h, {}) -> {1}
        [] OTHER               -> UNION {{1 + k : k \in Lengths(row, c + 1 + skip)} : skip \in Ints!Skips(h, {})}

\* The cases of an opcode take every length that its row of the control store allows: the
\* boundaries the summary lists are all its instruction boundaries.  BRK serves the NMI
\* itself.
PathsCovered ==
  queue = {} /\ phase = "test" /\ opts.mode = "nmi" /\ opts.case = NoFilter =>
    \A opcode \in 1..255 :
      should_run_opcode(opts, opcode) =>
        boundaries(opcode) = {k + 1 : k \in Lengths(Store[opcode].row, 0)}
=============================================================================
