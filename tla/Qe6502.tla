-------------------------------- MODULE Qe6502 --------------------------------
(***************************************************************************)
(* The qe6502 CPU core seen from its interrupt pins: the microcode            *)
(* sequencer, the interrupt resolver that hijacks it, and the calls a host    *)
(* makes between two ticks (qe6502_tick, _nmi_assert, _irq_assert, _goto,     *)
(* _restart).                                                                *)
(*                                                                         *)
(* qe6502_tick has two paths.  While hijack is off it runs the handler the    *)
(* microcode points at and nothing else; while hijack is on the same handler  *)
(* runs inside interrupt_resolver, which samples the pins before it and       *)
(* arbitrates after it.  The resolver turns hijack off when it finds nothing  *)
(* left to do, and the pin calls turn it on.                                 *)
(*                                                                         *)
(* Memory is not modelled: an opcode fetch returns any opcode of the block,   *)
(* a branch or an index crosses a page or does not, PLP and RTI pull any P.   *)
(***************************************************************************)
EXTENDS InterruptLogic, Integers

CONSTANTS
  Models,          \* the models the host may configure
  Opcodes,         \* the opcode rows the program in memory may use
  MaxCredit,       \* bound on NMI assertions not yet answered by a service
  ReleaseInWindow, \* may the host release NMI while sampling is off?
  GotoInWindow     \* may the host call goto while sampling is off?

ASSUME ModelsAssumption == Models \subseteq AllModels
ASSUME OpcodesAssumption == \A m \in Models : Opcodes \cap OpcodeRows(m) # {}
ASSUME BoundAssumption == MaxCredit \in Nat
ASSUME HostAssumption == ReleaseInWindow \in BOOLEAN /\ GotoInWindow \in BOOLEAN

VARIABLES
  model,   \* cpu->model
  slot,    \* row of cpu->microcode
  cycle,   \* its entry, the handler the next tick runs
  hijack,  \* cpu->hijack_microcode
  ints,    \* cpu->interrupts
  p,       \* the I and D flags of cpu->P
  count,   \* cpu->latch_data, while the internal reset counts in it
  status,  \* status of the last tick: what the host sees
  \* History, read by properties only:
  credit,  \* NMI assertions since restart minus NMI services entered
  armed,   \* was the NMI line released in the last tick that could sample it?
  granted, \* has this instruction sampled IRQ asserted with I clear?
  pushed   \* stack writes since the interrupt sequence began

cpuVars == <<model, slot, cycle, hijack, ints, p, count, status>>
historyVars == <<credit, armed, granted, pushed>>
vars == <<cpuVars, historyVars>>

Statuses == {"plain", "opcode_fetch", "internal_reset", "cpu_jammed"}

TypeOK ==
  /\ model \in Models
  /\ slot \in Rows(model)
  /\ cycle \in 0 .. Len(Row(model, slot)) - 1
  /\ hijack \in BOOLEAN
  /\ ints \subseteq Flags
  /\ p \subseteq {"I", "D"}
  /\ count \in 0 .. 7
  /\ status \in Statuses
  /\ credit \in Int
  /\ armed \in BOOLEAN
  /\ granted \in BOOLEAN
  /\ pushed \in 0 .. 3
-----------------------------------------------------------------------------
EntersNmi == slot' = "nmi" /\ slot # "nmi"
EntersIrq == slot' = "irq" /\ slot # "irq"

\* qe6502_tick runs the handler of entry at, which advances the microcode by
\* skip beyond the next entry, inside the resolver if hijack is on.
RunEntry(at, skip) ==
  LET h      == Handler(model, at)
      pre    == Prefetches(h, p, skip)
      fetch  == Fetches(h, p)
      before == IF hijack THEN SampleNmi(ints) ELSE ints
      after  == IntsAfter(h, before, p, pre)
      served == IF hijack THEN Served(after, fetch) ELSE "none"
      next   == IF served = "none" THEN NextEntry(h, at, before, p, skip, count)
                                   ELSE <<served, 0>>
  IN  /\ slot' = next[1]
      /\ cycle' = next[2]
      /\ ints' = IF hijack THEN Resolve(after, p, fetch) ELSE after
      /\ hijack' = (hijack /\ (served # "none" \/ ~Quiet(Resolve(after, p, fetch))))
      /\ p' \in PAfter(h, p)
      /\ count' = CountAfter(h, count)
      /\ status' = StatusAfter(h, fetch, count)
      /\ credit' = IF EntersNmi THEN credit - 1 ELSE credit
      /\ armed' = IF "sampling_off" \in ints /\ h # "nmi_c5"
                  THEN armed ELSE "nmi_pin" \notin ints
      /\ granted' = (~fetch /\ (granted \/ (pre /\ "irq_pin" \in ints /\ "I" \notin p)))
      /\ pushed' = IF at[2] = 0 THEN 0 ELSE IF IsPush(h) THEN pushed + 1 ELSE pushed
      /\ UNCHANGED model

\* One call of qe6502_tick with the microcode at entry c of row s.
StepFrom(s, c) ==
  \E at \in Executed(model, Opcodes, s, c) :
    \E skip \in Skips(Handler(model, at), p) : RunEntry(at, skip)

Tick == StepFrom(slot, cycle)
-----------------------------------------------------------------------------
(***************************************************************************)
(* Host calls between two ticks.                                             *)
(***************************************************************************)
\* Mutant: the sampling mark of the last prefetch is left on.
NmiAssertKeepsMark ==
  /\ \/ /\ "nmi_pin" \in ints
        /\ UNCHANGED <<ints, hijack, credit>>
     \/ /\ "nmi_pin" \notin ints
        /\ credit < MaxCredit
        /\ ints' = ints \cup {"nmi_pin"}
        /\ hijack' = TRUE
        /\ credit' = credit + 1
  /\ UNCHANGED <<model, slot, cycle, p, count, status, armed, granted, pushed>>

\* qe6502_nmi_assert(cpu, 1): only a change of level counts.
NmiAssert ==
  /\ \/ /\ "nmi_pin" \in ints
        /\ ints' = ints \ {"sampling"}
        /\ UNCHANGED <<hijack, credit>>
     \/ /\ "nmi_pin" \notin ints
        /\ credit < MaxCredit
        /\ ints' = (ints \ {"sampling"}) \cup {"nmi_pin"}
        /\ hijack' = TRUE
        /\ credit' = credit + 1
  /\ UNCHANGED <<model, slot, cycle, p, count, status, armed, granted, pushed>>

\* Mutant: only an assertion needs the resolver.
NmiReleaseFast ==
  /\ "sampling_off" \in ints => ReleaseInWindow
  /\ ints' = ints \ {"sampling", "nmi_pin"}
  /\ UNCHANGED <<model, slot, cycle, hijack, p, count, status, historyVars>>

NmiRelease ==
  /\ "sampling_off" \in ints => ReleaseInWindow
  /\ ints' = ints \ {"sampling", "nmi_pin"}
  /\ hijack' = (hijack \/ "nmi_pin" \in ints)
  /\ UNCHANGED <<model, slot, cycle, p, count, status, historyVars>>

\* Mutant: the IRQ line does not call for the resolver.
IrqAssertFast ==
  /\ ints' = (ints \ {"sampling"}) \cup {"irq_pin"}
  /\ UNCHANGED <<model, slot, cycle, hijack, p, count, status, historyVars>>

IrqAssert ==
  /\ ints' = (ints \ {"sampling"}) \cup {"irq_pin"}
  /\ hijack' = TRUE
  /\ UNCHANGED <<model, slot, cycle, p, count, status, historyVars>>

IrqRelease ==
  /\ ints' = ints \ {"sampling", "irq_pin"}
  /\ UNCHANGED <<model, slot, cycle, hijack, p, count, status, historyVars>>

\* qe6502_goto enters the goto row and ticks once.
Goto ==
  /\ "sampling_off" \in ints => GotoInWindow
  /\ StepFrom("goto", 0)

\* qe6502_restart zeroes the context, the pins included, but keeps the model.
Restart ==
  /\ slot' = "internal_reset"
  /\ hijack' = FALSE
  /\ ints' = {}
  /\ p' = {}
  /\ cycle' = 0
  /\ count' = 0
  /\ status' = "internal_reset"
  /\ credit' = 0
  /\ armed' = TRUE
  /\ granted' = FALSE
  /\ pushed' = 0
  /\ UNCHANGED model

\* The host has set the model and called qe6502_restart.
Init ==
  /\ model \in Models
  /\ slot = "internal_reset"
  /\ hijack = FALSE
  /\ ints = {}
  /\ p = {}
  /\ cycle = 0
  /\ count = 0
  /\ status = "internal_reset"
  /\ credit = 0
  /\ armed = TRUE
  /\ granted = FALSE
  /\ pushed = 0

PinCall == NmiAssert \/ NmiRelease \/ IrqAssert \/ IrqRelease

Next == Tick \/ PinCall \/ Goto \/ Restart

Spec == Init /\ [][Next]_vars
-----------------------------------------------------------------------------
(***************************************************************************)
(* Safety.                                                                  *)
(***************************************************************************)
\* The fast path is taken only when the resolver would have nothing to do: no
\* request is pending or taken, IRQ is released, and an asserted NMI line has
\* been sampled.  (hijack_microcode, qe6502_tick, interrupt_resolver)
FastPathSound == ~hijack => Quiet(ints)

\* A sampling mark left by prefetch() on the fast path never survives into the
\* resolver, where it would sample in a cycle that is not a sampling cycle.
NoStaleSampling == hijack => "sampling" \notin ints

\* NMI and IRQ are never taken together, so one service entry answers one
\* request.  (find_active_interrupt)
TakenExclusive == ~(Taken \subseteq ints)

\* Once the NMI line has been seen released, the tick after it is asserted again
\* detects the edge: it runs in the resolver and the last sampled level is low.
NmiEdgeSeen ==
  ("nmi_pin" \in ints /\ armed /\ "sampling_off" \notin ints)
    => hijack /\ "nmi_last" \notin ints

\* An NMI service answers an assertion of the line of its own: there are never
\* more services than assertions, however long the line is held.
NoSpuriousNmi == credit >= 0

\* Every path to a vector fetch, hijacked BRK and IRQ sequences included, has
\* pushed PC high, PC low and P exactly once.
FrameComplete == (slot \in {"brk", "nmi", "irq"} /\ cycle >= 4) => pushed = 3

\* Sampling is off only between the third push and the vector high read of an
\* NMOS sequence; otherwise the CPU would be deaf to NMI.
NeverDeaf == "sampling_off" \in ints => (slot \in {"brk", "nmi", "irq"} /\ cycle \in 4 .. 5)

\* A request taken in the sampling cycle is used up by the opcode fetch that
\* follows: none is carried into another instruction.
NoTakenAfterFetch == status = "opcode_fetch" => ints \cap Taken = {}

(***************************************************************************)
(* Action properties.                                                       *)
(***************************************************************************)
\* An opcode fetch turns into an interrupt service exactly when IRQ was asserted
\* with I clear in a sampling cycle of the instruction before it, or an NMI was
\* taken: the I flag windows of CLI, SEI, PLP and RTI.
IrqExactlyWhenGranted ==
  [][/\ (EntersIrq /\ cycle' = 0) => granted
     /\ (granted /\ status' = "opcode_fetch")
          => (slot' \in {"irq", "nmi"} /\ cycle' = 0)]_vars

\* A latched NMI request disappears only into an NMI service, begun by that step or
\* under way, or in a restart.
NmiPending == ints \cap {"nmi_edge", "nmi_taken"} # {}
NmiKept ==
  [][(NmiPending /\ ~NmiPending') => slot' \in {"nmi", "internal_reset"}]_vars

\* The NMI service under way acknowledges an edge latched since it began: in the
\* push of P, and on a CMOS model in the vector fetch as well.
NmiAbsorbs == slot = "nmi" /\ (cycle = 3 \/ (cycle = 5 /\ model \in CmosModels))

\* The rows of the branches: they can sample in two cycles.
BranchRows == {"branch", "bra", "bbr_bbs"}

\* The steps that end a latched NMI: a restart, the entry of its own service, and
\* three that lose it: an NMI service under way absorbs a second one, the vector
\* fetch of a CMOS IRQ service acknowledges it, and in the second sampling cycle
\* of a branch an IRQ displaces the NMI taken in the first.
\* (find_active_interrupt, the third pushes, cmos_interrupt_vector_low)
NmiDroppedOnly ==
  [][(NmiPending /\ ~NmiPending') =>
       \/ slot' = "internal_reset"
       \/ EntersNmi
       \/ NmiAbsorbs
       \/ slot = "irq" /\ cycle = 5 /\ model \in CmosModels
       \/ /\ slot \in BranchRows
          /\ "nmi_taken" \in ints /\ "irq_taken" \in ints' /\ "I" \notin p]_vars

\* Sampling goes off only in the third push of a sequence; only goto takes the
\* microcode out of the sequence before its vector high read has turned it on
\* again; and after that the vector high read of the next sequence turns it on.
\* (mc_stack_push_status_b, mc_nmi_c3_push_p, mc_irq_c3_push_p, qe6502_goto)
VectorWindow == slot \in {"brk", "nmi", "irq"} /\ cycle \in 4 .. 5
SamplingOff == "sampling_off" \in ints
DeafOnlyByGoto ==
  [][/\ (SamplingOff' /\ ~SamplingOff) => VectorWindow'
     /\ (SamplingOff' /\ VectorWindow /\ ~VectorWindow') => slot' = "goto"
     /\ (slot \in {"brk", "nmi", "irq"} /\ cycle = 5 /\ cycle' = 6) => ~SamplingOff']_vars

\* A jammed CPU stays jammed under any pin activity until goto or restart.
JamHolds ==
  [][(status = "cpu_jammed" /\ status' # "cpu_jammed") =>
       slot' \in {"goto", "internal_reset"}]_vars

\* No service begins inside a reset, NMI, IRQ or BRK sequence, nor at the fetch
\* that ends it: the first instruction of every handler runs.
SequenceUninterrupted ==
  [][(slot \in {"reset", "nmi", "irq", "brk"} /\ slot' \in {"nmi", "irq"}
        /\ <<slot, cycle>>' # <<slot, cycle>>)
       => cycle' # 0]_vars

(***************************************************************************)
(* Liveness, for a host that keeps the clock running and does not call goto.  *)
(* The pins may move between any two ticks.                                  *)
(***************************************************************************)
Running == Init /\ [][Tick \/ PinCall \/ Restart]_vars /\ WF_vars(Tick)

\* All that keeps the CPU from sampling for good: KIL, after which a 6502 answers
\* nothing, and a run of the CMOS rows that never call prefetch(), the one-cycle
\* NOPs and a BRK handler that begins with BRK.
ShutOut == <>[](\/ status = "cpu_jammed"
                \/ model \in CmosModels /\ slot \in {"nop_1c", "brk"})

\* A latched NMI does not stay latched, however the program and the pins behave:
\* NmiDroppedOnly says where it goes.
NmiAnswered == (NmiPending ~> ~NmiPending) \/ ShutOut

\* IRQ is not ignored: it cannot stay asserted with I clear forever.
IrqAnswered == []<>("irq_pin" \notin ints \/ "I" \in p) \/ ShutOut

(***************************************************************************)
(* Refinement: hijack is an optimisation the host cannot see.  The mapping    *)
(* drops hijack, and the sampling mark, which only matters inside a tick.     *)
(***************************************************************************)
Eager == INSTANCE EagerResolver WITH ints <- ints \ {"sampling"}

\* Bus cycles, status flags, P and interrupt byte are those of a CPU that runs
\* the resolver in every tick (qe6502_tick's two paths, the pin calls).
EagerSpec == Eager!Spec
=============================================================================
