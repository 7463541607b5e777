---------------------------- MODULE InterruptLogic ----------------------------
(***************************************************************************)
(* The interrupt byte of qe6502_t as the set of its flags that are on, and   *)
(* the functions of qe6502.c that change it.  flag_on is union, flag_off is   *)
(* set difference.  p is the set of the status flags I and D that are on.     *)
(***************************************************************************)
EXTENDS ControlStore

Flags == {"sampling", "nmi_pin", "nmi_last", "nmi_edge", "nmi_taken",
          "irq_pin", "irq_taken", "sampling_off"}

Taken == {"nmi_taken", "irq_taken"}

UpdateNmiLastSampled(ints) ==
  IF "nmi_pin" \in ints THEN ints \cup {"nmi_last"} ELSE ints \ {"nmi_last"}

\* Mutant: the pin level is the request, whatever was sampled before.
SampleNmiLevel(ints) ==
  IF "sampling_off" \in ints THEN ints
  ELSE UpdateNmiLastSampled(
         IF "nmi_pin" \in ints THEN ints \cup {"nmi_edge"} ELSE ints)

\* The head of interrupt_resolver: edge detection, unless sampling is off.
SampleNmi(ints) ==
  IF "sampling_off" \in ints THEN ints
  ELSE UpdateNmiLastSampled(
         IF "nmi_pin" \in ints /\ "nmi_last" \notin ints
         THEN ints \cup {"nmi_edge"} ELSE ints)

\* Mutant: an NMI leaves the IRQ taken before it in place.
FindActiveInterruptBoth(ints, p) ==
  IF "nmi_edge" \in ints
  THEN (ints \ {"nmi_edge"}) \cup {"nmi_taken"}
  ELSE IF "I" \notin p /\ "irq_pin" \in ints
  THEN (ints \ {"nmi_taken"}) \cup {"irq_taken"}
  ELSE ints

\* Mutant: the I flag is not consulted.
FindActiveInterruptUnmasked(ints, p) ==
  IF "nmi_edge" \in ints
  THEN (ints \ {"nmi_edge", "irq_taken"}) \cup {"nmi_taken"}
  ELSE IF "irq_pin" \in ints
  THEN (ints \ {"nmi_taken"}) \cup {"irq_taken"}
  ELSE ints

FindActiveInterrupt(ints, p) ==
  IF "nmi_edge" \in ints
  THEN (ints \ {"nmi_edge", "irq_taken"}) \cup {"nmi_taken"}
  ELSE IF "I" \notin p /\ "irq_pin" \in ints
  THEN (ints \ {"nmi_taken"}) \cup {"irq_taken"}
  ELSE ints

\* Mutants: the resolver switches itself off although the IRQ line, the NMI line
\* or a detected edge still needs it.
QuietIgnoringIrq(ints) ==
  /\ "nmi_edge" \notin ints
  /\ "nmi_pin" \notin ints \/ "nmi_last" \in ints
  /\ ints \cap Taken = {}

QuietIgnoringNmi(ints) ==
  /\ "nmi_edge" \notin ints
  /\ "irq_pin" \notin ints
  /\ ints \cap Taken = {}

QuietIgnoringEdge(ints) ==
  /\ "irq_pin" \notin ints
  /\ "nmi_pin" \notin ints \/ "nmi_last" \in ints
  /\ ints \cap Taken = {}

\* The tail of interrupt_resolver: nothing is left for it to do, so hijack is
\* cleared and the next ticks take the fast path.
Quiet(ints) ==
  /\ "nmi_edge" \notin ints
  /\ "irq_pin" \notin ints
  /\ "nmi_pin" \notin ints \/ "nmi_last" \in ints
  /\ ints \cap Taken = {}

\* Arbitration in the third push of an NMOS sequence, and the vector it selects:
\* the slot whose cycle 4 comes next, or "same" for the sequence's own.
Arbitrating == {"brk_c3", "nmi_c3", "irq_c3"}

Arbitrate(ints, p) == FindActiveInterrupt(ints, p) \cup {"sampling_off"}

\* Mutant: the third push of an IRQ sequence clears the NMI it took without
\* changing the vector.
VectorAfterIrqKeeps(h, ints, p) ==
  LET now == Arbitrate(ints, p)
  IN  CASE h = "brk_c3" /\ "nmi_taken" \in now -> "nmi"
        [] h = "brk_c3" /\ "irq_taken" \in now -> "irq"
        [] OTHER                               -> "same"

VectorAfter(h, ints, p) ==
  LET now == Arbitrate(ints, p)
  IN  CASE h \in {"brk_c3", "irq_c3"} /\ "nmi_taken" \in now -> "nmi"
        [] h = "brk_c3" /\ "irq_taken" \in now               -> "irq"
        [] OTHER                                             -> "same"

\* Mutant: BRK's vector read leaves sampling off.
AcknowledgeDeaf(h, ints, pre) ==
  CASE h = "irq_c5"      -> ints \ {"sampling_off"}
    [] h = "nmi_c5"      -> UpdateNmiLastSampled(ints \ {"sampling_off"})
    [] h = "cmos_nmi_c3" -> UpdateNmiLastSampled(ints \ {"nmi_edge", "nmi_taken"})
    [] h = "cmos_irq_c3" -> ints \ {"irq_taken"}
    [] h = "cmos_c5"     -> UpdateNmiLastSampled(ints \ {"nmi_edge"})
    [] pre               -> ints \cup {"sampling"}
    [] OTHER             -> ints

\* What the vector fetches and the CMOS third pushes acknowledge, and the mark
\* of prefetch().
Acknowledge(h, ints, pre) ==
  CASE h \in {"brk_c5", "irq_c5"} -> ints \ {"sampling_off"}
    [] h = "nmi_c5"      -> UpdateNmiLastSampled(ints \ {"sampling_off"})
    [] h = "cmos_nmi_c3" -> UpdateNmiLastSampled(ints \ {"nmi_edge", "nmi_taken"})
    [] h = "cmos_irq_c3" -> ints \ {"irq_taken"}
    [] h = "cmos_c5"     -> UpdateNmiLastSampled(ints \ {"nmi_edge"})
    [] pre               -> ints \cup {"sampling"}
    [] OTHER             -> ints

\* The interrupt byte after handler h, run on byte ints with status p; pre: it called
\* prefetch().
IntsAfter(h, ints, p, pre) ==
  IF h \in Arbitrating
  THEN Arbitrate(ints, p) \ (IF h = "nmi_c3" THEN Taken \cup {"nmi_edge"} ELSE Taken)
  ELSE Acknowledge(h, ints, pre)

\* The values P can have after handler h: PLP and RTI load it from the stack.
PAfter(h, p) ==
  CASE h \in {"plp", "rti_c3"}  -> SUBSET {"I", "D"}
    [] h = "cli"                -> {p \ {"I"}}
    [] h \in {"sei", "reset_vec_hi", "brk_c5", "nmi_c5", "irq_c5"} -> {p \cup {"I"}}
    [] h = "cld"                -> {p \ {"D"}}
    [] h = "sed"                -> {p \cup {"D"}}
    [] h \in {"cmos_brk_c5", "cmos_c5"} -> {(p \cup {"I"}) \ {"D"}}
    [] OTHER                    -> {p}

\* Mutant: the fetch polls the NMI latch instead of what the sampling cycle took.
ServedAtOnce(ints, fetch) ==
  CASE "sampling" \notin ints /\ fetch /\ ints \cap {"nmi_taken", "nmi_edge"} # {} -> "nmi"
    [] "sampling" \notin ints /\ fetch /\ ints \cap {"nmi_taken", "nmi_edge"} = {}
         /\ "irq_taken" \in ints                                    -> "irq"
    [] OTHER                                                        -> "none"

\* The tail of interrupt_resolver after the handler: sampling if the handler
\* prefetched, otherwise service entry if its tick was an opcode fetch.  The
\* resolver samples with the I flag from before the handler.
Served(ints, fetch) ==
  CASE "sampling" \notin ints /\ fetch /\ "nmi_taken" \in ints -> "nmi"
    [] "sampling" \notin ints /\ fetch /\ "nmi_taken" \notin ints
         /\ "irq_taken" \in ints                                    -> "irq"
    [] OTHER                                                        -> "none"

\* Mutant: service entry does not use up the request.
ResolveKeeps(ints, p, fetch) ==
  IF "sampling" \in ints
  THEN FindActiveInterrupt(ints \ {"sampling"}, p)
  ELSE ints

Resolve(ints, p, fetch) ==
  IF "sampling" \in ints
  THEN FindActiveInterrupt(ints \ {"sampling"}, p)
  ELSE IF Served(ints, fetch) # "none" THEN ints \ Taken ELSE ints

\* mc_internal_reset counts eight ticks in latch_data before the reset row begins.
CountAfter(h, count) == IF h = "internal_reset" /\ count < 7 THEN count + 1 ELSE 0

\* Mutants: the jam row starts over, a hijacked sequence pushes P again.
NextEntryJamRestarts(h, at, ints, p, skip, count) ==
  LET vector == VectorAfter(h, ints, p)
  IN  CASE h = "jam"                         -> <<at[1], 0>>
        [] h = "internal_reset" /\ count < 7 -> at
        [] h = "internal_reset" /\ count = 7 -> <<"reset", 0>>
        [] h = "fetch_ext"                   -> <<"illegal_ext", 0>>
        [] vector # "same"                   -> <<vector, 4>>
        [] OTHER                             -> <<at[1], at[2] + 1 + skip>>

NextEntryPushesAgain(h, at, ints, p, skip, count) ==
  LET vector == VectorAfter(h, ints, p)
  IN  CASE h = "jam"                         -> at
        [] h = "internal_reset" /\ count < 7 -> at
        [] h = "internal_reset" /\ count = 7 -> <<"reset", 0>>
        [] h = "fetch_ext"                   -> <<"illegal_ext", 0>>
        [] vector # "same"                   -> <<vector, 3>>
        [] OTHER                             -> <<at[1], at[2] + 1 + skip>>

\* Where the microcode points after handler h of entry at, run on byte ints.
NextEntry(h, at, ints, p, skip, count) ==
  LET vector == VectorAfter(h, ints, p)
  IN  CASE h = "jam"                         -> at
        [] h = "internal_reset" /\ count < 7 -> at
        [] h = "internal_reset" /\ count = 7 -> <<"reset", 0>>
        [] h = "fetch_ext"                   -> <<"illegal_ext", 0>>
        [] vector # "same"                   -> <<vector, 4>>
        [] OTHER                             -> <<at[1], at[2] + 1 + skip>>

StatusAfter(h, fetch, count) ==
  CASE fetch                             -> "opcode_fetch"
    [] h = "jam"                         -> "cpu_jammed"
    [] h = "internal_reset" /\ count < 7 -> "internal_reset"
    [] OTHER                             -> "plain"

IsPush(h) == h \in {"push", "brk_c3", "nmi_c3", "irq_c3", "cmos_nmi_c3", "cmos_irq_c3"}
=============================================================================
