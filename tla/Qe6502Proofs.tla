----------------------------- MODULE Qe6502Proofs -----------------------------
(***************************************************************************)
(* Theorems about Qe6502, for every choice of models, programs and host.      *)
(***************************************************************************)
EXTENDS Qe6502, TLAPS

(***************************************************************************)
(* The interrupt byte.                                                      *)
(***************************************************************************)
\* What may never be in the interrupt byte at the start of a resolver tick.
Clean(i) == "sampling" \notin i

Exclusive(i) == ~(Taken \subseteq i)

\* Sampling before the handler touches neither the taken flags nor the mark.
LEMMA SampleKeeps ==
  ASSUME NEW i \in SUBSET Flags
  PROVE  /\ SampleNmi(i) \in SUBSET Flags
         /\ Clean(i) => Clean(SampleNmi(i))
         /\ Exclusive(i) => Exclusive(SampleNmi(i))
BY DEF SampleNmi, UpdateNmiLastSampled, Clean, Exclusive, Flags, Taken

\* Arbitration takes at most one request.
LEMMA ArbitrationExclusive ==
  ASSUME NEW i \in SUBSET Flags, NEW f, Exclusive(i)
  PROVE  /\ FindActiveInterrupt(i, f) \in SUBSET Flags
         /\ Exclusive(FindActiveInterrupt(i, f))
         /\ Clean(i) => Clean(FindActiveInterrupt(i, f))
BY DEF FindActiveInterrupt, Exclusive, Clean, Flags, Taken

\* No handler takes both requests.
LEMMA HandlerExclusive ==
  ASSUME NEW i \in SUBSET Flags, NEW f, NEW h, NEW pre, Exclusive(i)
  PROVE  /\ IntsAfter(h, i, f, pre) \in SUBSET Flags
         /\ Exclusive(IntsAfter(h, i, f, pre))
<1>1. FindActiveInterrupt(i, f) \in SUBSET Flags
  BY ArbitrationExclusive
<1>2. UpdateNmiLastSampled(i) \in SUBSET Flags /\ Exclusive(UpdateNmiLastSampled(i))
  BY DEF UpdateNmiLastSampled, Exclusive, Flags, Taken
<1>3. CASE h \in Arbitrating
  BY <1>1, <1>3 DEF IntsAfter, Arbitrate, Exclusive, Flags, Taken
<1>4. CASE h \notin Arbitrating
  BY <1>4 DEF IntsAfter, Acknowledge, UpdateNmiLastSampled, Exclusive, Flags, Taken
<1> QED BY <1>3, <1>4

\* A handler run while there is nothing to resolve leaves nothing to resolve.
LEMMA HandlerQuiet ==
  ASSUME NEW i \in SUBSET Flags, NEW f, NEW h, NEW pre, Quiet(i)
  PROVE  Quiet(IntsAfter(h, i, f, pre))
<1>1. FindActiveInterrupt(i, f) = i
  BY DEF FindActiveInterrupt, Quiet
<1>2. CASE h \in Arbitrating
  BY <1>1, <1>2 DEF IntsAfter, Arbitrate, Quiet, Flags, Taken
<1>3. CASE h \notin Arbitrating
  BY <1>3 DEF IntsAfter, Acknowledge, UpdateNmiLastSampled, Quiet, Flags, Taken
<1> QED BY <1>2, <1>3

\* The resolver leaves no sampling mark and at most one taken request.
LEMMA ResolveClean ==
  ASSUME NEW i \in SUBSET Flags, NEW f, NEW fetch, Exclusive(i)
  PROVE  /\ Resolve(i, f, fetch) \in SUBSET Flags
         /\ Exclusive(Resolve(i, f, fetch))
         /\ Clean(Resolve(i, f, fetch))
BY DEF Resolve, FindActiveInterrupt, Clean, Exclusive, Flags, Taken

\* Nothing is taken while there is nothing to resolve.
LEMMA QuietExclusive ==
  ASSUME NEW i, Quiet(i)
  PROVE  Exclusive(i)
BY DEF Quiet, Exclusive, Taken
-----------------------------------------------------------------------------
(***************************************************************************)
(* The hijack flag.  FastPathSound and NoStaleSampling need each other: the   *)
(* pin calls turn hijack on in the middle of an instruction and must find no  *)
(* mark there, the resolver turns it off.                                    *)
(***************************************************************************)
HijackInv ==
  /\ hijack \in BOOLEAN
  /\ ints \in SUBSET Flags
  /\ FastPathSound
  /\ NoStaleSampling
  /\ TakenExclusive

\* Whatever handler runs, a tick keeps the hijack invariant.
LEMMA StepHijack ==
  ASSUME HijackInv, NEW s, NEW c, StepFrom(s, c)
  PROVE  HijackInv'
<1>1. PICK at \in Executed(model, Opcodes, s, c) :
        \E skip \in Skips(Handler(model, at), p) : RunEntry(at, skip)
  BY DEF StepFrom
<1>2. PICK skip \in Skips(Handler(model, at), p) : RunEntry(at, skip)
  BY <1>1
<1> DEFINE h     == Handler(model, at)
           pre   == Prefetches(h, p, skip)
           fetch == Fetches(h, p)
<1>3. ints \in SUBSET Flags /\ Exclusive(ints)
  BY DEF HijackInv, TakenExclusive, Exclusive
<1>4. CASE hijack
  <2> DEFINE after == IntsAfter(h, SampleNmi(ints), p, pre)
  <2>1. SampleNmi(ints) \in SUBSET Flags /\ Exclusive(SampleNmi(ints))
    BY <1>3, SampleKeeps
  <2>2. after \in SUBSET Flags /\ Exclusive(after)
    BY <2>1, HandlerExclusive
  <2>3. /\ Resolve(after, p, fetch) \in SUBSET Flags
        /\ Exclusive(Resolve(after, p, fetch))
        /\ Clean(Resolve(after, p, fetch))
    BY <2>2, ResolveClean
  <2>4. ints' = Resolve(after, p, fetch)
    BY <1>2, <1>4 DEF RunEntry
  <2>5. hijack' \in BOOLEAN /\ (~hijack' => Quiet(Resolve(after, p, fetch)))
    BY <1>2, <1>4 DEF RunEntry
  <2> QED BY <2>3, <2>4, <2>5
       DEF HijackInv, FastPathSound, NoStaleSampling, TakenExclusive, Exclusive, Clean, Quiet
<1>5. CASE ~hijack
  <2> DEFINE after == IntsAfter(h, ints, p, pre)
  <2>1. Quiet(ints)
    BY <1>5 DEF HijackInv, FastPathSound
  <2>2. after \in SUBSET Flags /\ Quiet(after)
    BY <1>3, <2>1, HandlerExclusive, HandlerQuiet
  <2>3. Exclusive(after)
    BY <2>2, QuietExclusive
  <2>4. ints' = after /\ hijack' = FALSE
    BY <1>2, <1>5 DEF RunEntry
  <2> QED BY <2>2, <2>3, <2>4
       DEF HijackInv, FastPathSound, NoStaleSampling, TakenExclusive, Exclusive, Quiet
<1> QED BY <1>4, <1>5

\* Pin calls, goto and restart keep it too.
LEMMA NextHijack ==
  ASSUME HijackInv, [Next]_vars
  PROVE  HijackInv'
<1>1. CASE Tick
  BY <1>1, StepHijack DEF Tick
<1>2. CASE Goto
  BY <1>2, StepHijack DEF Goto
<1>3. CASE NmiAssert
  BY <1>3 DEF NmiAssert, HijackInv, FastPathSound, NoStaleSampling, TakenExclusive,
              Quiet, Taken, Flags
<1>4. CASE NmiRelease
  BY <1>4 DEF NmiRelease, HijackInv, FastPathSound, NoStaleSampling, TakenExclusive,
              Quiet, Taken, Flags
<1>5. CASE IrqAssert
  BY <1>5 DEF IrqAssert, HijackInv, FastPathSound, NoStaleSampling, TakenExclusive,
              Quiet, Taken, Flags
<1>6. CASE IrqRelease
  BY <1>6 DEF IrqRelease, HijackInv, FastPathSound, NoStaleSampling, TakenExclusive,
              Quiet, Taken, Flags
<1>7. CASE Restart
  BY <1>7 DEF Restart, HijackInv, FastPathSound, NoStaleSampling, TakenExclusive,
              Quiet, Taken, Flags
<1>8. CASE UNCHANGED vars
  BY <1>8 DEF vars, cpuVars, HijackInv, FastPathSound, NoStaleSampling, TakenExclusive
<1> QED BY <1>1, <1>2, <1>3, <1>4, <1>5, <1>6, <1>7, <1>8 DEF Next, PinCall

LEMMA InitHijack ==
  ASSUME Init
  PROVE  HijackInv
BY DEF Init, HijackInv, FastPathSound, NoStaleSampling, TakenExclusive, Quiet, Taken, Flags

LEMMA HijackInvariant == Spec => []HijackInv
<1>1. Init => HijackInv
  BY InitHijack
<1>2. HijackInv /\ [Next]_vars => HijackInv'
  BY NextHijack
<1> QED BY <1>1, <1>2, PTL DEF Spec

\* The fast path is only ever taken when the resolver would do nothing: skipping
\* it in qe6502_tick loses no request, whatever the program and the host do.
THEOREM FastPathIsSound == Spec => []FastPathSound
<1>1. HijackInv => FastPathSound
  BY DEF HijackInv
<1> QED BY <1>1, HijackInvariant, PTL

\* A mark left by prefetch() on the fast path never reaches the resolver: a line
\* asserted after the sampling cycle waits for the next instruction.
THEOREM NoLateSampling == Spec => []NoStaleSampling
<1>1. HijackInv => NoStaleSampling
  BY DEF HijackInv
<1> QED BY <1>1, HijackInvariant, PTL

\* One service entry never answers two requests at once.
THEOREM OneRequestTaken == Spec => []TakenExclusive
<1>1. HijackInv => TakenExclusive
  BY DEF HijackInv
<1> QED BY <1>1, HijackInvariant, PTL
-----------------------------------------------------------------------------
(***************************************************************************)
(* NMI services against NMI assertions.  An assertion of the line lives as a   *)
(* level the resolver has not sampled, then as an edge, then as a request      *)
(* taken; it may die on the way, but it is never doubled.                      *)
(***************************************************************************)
Unanswered(i) ==
  (IF "nmi_pin" \in i /\ "nmi_last" \notin i THEN 1 ELSE 0)
  + (IF "nmi_edge" \in i THEN 1 ELSE 0)
  + (IF "nmi_taken" \in i THEN 1 ELSE 0)

\* Sampling turns an unsampled level into an edge.
LEMMA SampleUnanswered ==
  ASSUME NEW i
  PROVE  Unanswered(SampleNmi(i)) \in Int /\ Unanswered(SampleNmi(i)) <= Unanswered(i)
BY DEF SampleNmi, UpdateNmiLastSampled, Unanswered

\* Arbitration turns an edge into a taken request.
LEMMA ArbitrationUnanswered ==
  ASSUME NEW i, NEW f
  PROVE  /\ Unanswered(FindActiveInterrupt(i, f)) \in Int
         /\ Unanswered(FindActiveInterrupt(i, f)) <= Unanswered(i)
BY DEF FindActiveInterrupt, Unanswered

\* Dropping requests never adds one.
LEMMA DropUnanswered ==
  ASSUME NEW i, NEW drop \in {Taken, Taken \cup {"nmi_edge"}}
  PROVE  LET left == (i \cup {"sampling_off"}) \ drop
         IN  /\ Unanswered(left) \in Int
             /\ Unanswered(left) <= Unanswered(i)
             /\ "nmi_taken" \in i => Unanswered(left) < Unanswered(i)
BY DEF Unanswered, Taken

\* No handler invents a request, and one that turns its sequence into an NMI
\* sequence uses one up.
LEMMA HandlerUnanswered ==
  ASSUME NEW i, NEW f, NEW h, NEW pre
  PROVE  /\ Unanswered(IntsAfter(h, i, f, pre)) \in Int
         /\ Unanswered(IntsAfter(h, i, f, pre)) <= Unanswered(i)
         /\ VectorAfter(h, i, f) = "nmi"
              => Unanswered(IntsAfter(h, i, f, pre)) < Unanswered(i)
<1> DEFINE drop == IF h = "nmi_c3" THEN Taken \cup {"nmi_edge"} ELSE Taken
<1>1. CASE h \in Arbitrating
  <2>1. IntsAfter(h, i, f, pre) = Arbitrate(i, f) \ drop
    BY <1>1 DEF IntsAfter
  <2>2. VectorAfter(h, i, f) = "nmi" => "nmi_taken" \in Arbitrate(i, f)
    BY DEF VectorAfter
  <2>3. /\ Unanswered(FindActiveInterrupt(i, f)) \in Int
        /\ Unanswered(FindActiveInterrupt(i, f)) <= Unanswered(i)
        /\ Unanswered(i) \in Int
    BY ArbitrationUnanswered DEF Unanswered
  <2>4. "nmi_taken" \in Arbitrate(i, f) => "nmi_taken" \in FindActiveInterrupt(i, f)
    BY DEF Arbitrate
  <2>5. /\ Unanswered(Arbitrate(i, f) \ drop) \in Int
        /\ Unanswered(Arbitrate(i, f) \ drop) <= Unanswered(FindActiveInterrupt(i, f))
        /\ "nmi_taken" \in FindActiveInterrupt(i, f)
             => Unanswered(Arbitrate(i, f) \ drop) < Unanswered(FindActiveInterrupt(i, f))
    BY DropUnanswered DEF Arbitrate
  <2> HIDE DEF drop
  <2> QED BY <2>1, <2>2, <2>3, <2>4, <2>5
<1>2. CASE h \notin Arbitrating
  <2>1. VectorAfter(h, i, f) # "nmi"
    BY <1>2 DEF VectorAfter, Arbitrating
  <2> QED BY <1>2, <2>1 DEF IntsAfter, Acknowledge, UpdateNmiLastSampled, Unanswered
<1> QED BY <1>1, <1>2

\* The resolver's tail invents none, and a service entry uses one up.
LEMMA ResolveUnanswered ==
  ASSUME NEW i, NEW f, NEW fetch
  PROVE  /\ Unanswered(Resolve(i, f, fetch)) \in Int
         /\ Unanswered(Resolve(i, f, fetch)) <= Unanswered(i)
         /\ Served(i, fetch) = "nmi" => Unanswered(Resolve(i, f, fetch)) < Unanswered(i)
<1>1. CASE "sampling" \in i
  BY <1>1 DEF Resolve, FindActiveInterrupt, Served, Unanswered
<1>2. CASE "sampling" \notin i
  BY <1>2 DEF Resolve, Served, Unanswered, Taken
<1> QED BY <1>1, <1>2

CreditInv ==
  /\ credit \in Int
  /\ credit >= Unanswered(ints)

\* An NMI sequence begins only where the resolver serves it or where a vector is
\* hijacked: no program has the NMI row for an opcode.
LEMMA NmiRowIsService ==
  ASSUME NEW s \in {slot, "goto"}, NEW c, slot # "nmi",
         NEW at \in Executed(model, Opcodes, s, c)
  PROVE  at[1] # "nmi"
BY DEF Executed, OpcodeRows, CommonOpcodes, NmosOpcodes, CmosOpcodes, BitBranchOpcodes

LEMMA StepCredit ==
  ASSUME CreditInv, NEW s \in {slot, "goto"}, NEW c, StepFrom(s, c)
  PROVE  CreditInv'
<1>1. PICK at \in Executed(model, Opcodes, s, c) :
        \E skip \in Skips(Handler(model, at), p) : RunEntry(at, skip)
  BY DEF StepFrom
<1>2. PICK skip \in Skips(Handler(model, at), p) : RunEntry(at, skip)
  BY <1>1
<1> DEFINE h      == Handler(model, at)
           pre    == Prefetches(h, p, skip)
           fetch  == Fetches(h, p)
           before == IF hijack THEN SampleNmi(ints) ELSE ints
           after  == IntsAfter(h, before, p, pre)
           served == IF hijack THEN Served(after, fetch) ELSE "none"
           hijacked == VectorAfter(h, before, p) = "nmi"
<1>3. /\ Unanswered(ints) \in Int /\ Unanswered(before) \in Int
      /\ Unanswered(before) <= Unanswered(ints)
  BY SampleUnanswered DEF Unanswered
<1>4. /\ Unanswered(after) \in Int /\ Unanswered(after) <= Unanswered(before)
      /\ hijacked => Unanswered(after) < Unanswered(before)
  BY HandlerUnanswered
<1>5. /\ Unanswered(ints') \in Int /\ Unanswered(ints') <= Unanswered(after)
      /\ served = "nmi" => Unanswered(ints') < Unanswered(after)
  BY <1>2, <1>4, ResolveUnanswered DEF RunEntry
<1>6. EntersNmi => hijacked \/ served = "nmi"
  <2> SUFFICES ASSUME slot # "nmi", slot' = "nmi", served # "nmi"
               PROVE  hijacked
    BY DEF EntersNmi
  <2>1. at[1] # "nmi"
    BY NmiRowIsService
  <2>2. slot' = IF served = "none" THEN NextEntry(h, at, before, p, skip, count)[1]
                                   ELSE served
    BY <1>2 DEF RunEntry
  <2>3. NextEntry(h, at, before, p, skip, count)[1] = "nmi"
    BY <2>2
  <2> HIDE DEF h, before
  <2> QED BY <2>1, <2>3 DEF NextEntry, VectorAfter
<1>7. credit' = IF EntersNmi THEN credit - 1 ELSE credit
  BY <1>2 DEF RunEntry
<1> HIDE DEF h, before, after, served, hijacked
<1> QED BY <1>3, <1>4, <1>5, <1>6, <1>7 DEF CreditInv

LEMMA NextCredit ==
  ASSUME CreditInv, [Next]_vars
  PROVE  CreditInv'
<1>1. CASE Tick
  BY <1>1, StepCredit DEF Tick
<1>2. CASE Goto
  BY <1>2, StepCredit DEF Goto
<1>3. CASE NmiAssert
  BY <1>3 DEF NmiAssert, CreditInv, Unanswered
<1>4. CASE NmiRelease
  BY <1>4 DEF NmiRelease, historyVars, CreditInv, Unanswered
<1>5. CASE IrqAssert
  BY <1>5 DEF IrqAssert, historyVars, CreditInv, Unanswered
<1>6. CASE IrqRelease
  BY <1>6 DEF IrqRelease, historyVars, CreditInv, Unanswered
<1>7. CASE Restart
  BY <1>7 DEF Restart, CreditInv, Unanswered
<1>8. CASE UNCHANGED vars
  BY <1>8 DEF vars, cpuVars, historyVars, CreditInv
<1> QED BY <1>1, <1>2, <1>3, <1>4, <1>5, <1>6, <1>7, <1>8 DEF Next, PinCall

\* Every NMI service answers an assertion of the line of its own, over any run of
\* any program: a held line, a hijacked BRK or IRQ, a second sampling cycle and
\* an arbitration in a push never serve one assertion twice.
THEOREM NoNmiWithoutAssertion == Spec => []NoSpuriousNmi
<1>1. Init => CreditInv
  BY DEF Init, CreditInv, Unanswered
<1>2. CreditInv /\ [Next]_vars => CreditInv'
  BY NextCredit
<1>3. CreditInv => NoSpuriousNmi
  BY DEF CreditInv, Unanswered, NoSpuriousNmi
<1> QED BY <1>1, <1>2, <1>3, PTL DEF Spec
-----------------------------------------------------------------------------
(***************************************************************************)
(* A request taken in the sampling cycle serves the opcode fetch after it.    *)
(***************************************************************************)
\* No handler both prefetches and fetches.
LEMMA FetchIsNotPrefetch ==
  ASSUME NEW h, NEW f, NEW skip
  PROVE  ~(Fetches(h, f) /\ Prefetches(h, f, skip))
BY DEF Fetches, Prefetches

LEMMA StepUsesUp ==
  ASSUME HijackInv, NEW s, NEW c, StepFrom(s, c)
  PROVE  NoTakenAfterFetch'
<1>1. PICK at \in Executed(model, Opcodes, s, c) :
        \E skip \in Skips(Handler(model, at), p) : RunEntry(at, skip)
  BY DEF StepFrom
<1>2. PICK skip \in Skips(Handler(model, at), p) : RunEntry(at, skip)
  BY <1>1
<1> DEFINE h     == Handler(model, at)
           pre   == Prefetches(h, p, skip)
           fetch == Fetches(h, p)
<1>3. SUFFICES ASSUME status' = "opcode_fetch"
               PROVE  ints' \cap Taken = {}
  BY DEF NoTakenAfterFetch
<1>4. fetch /\ ~pre
  BY <1>2, <1>3, FetchIsNotPrefetch DEF RunEntry, StatusAfter
<1>5. CASE hijack
  <2> DEFINE after == IntsAfter(h, SampleNmi(ints), p, pre)
  <2>1. Clean(SampleNmi(ints)) 
    BY <1>5, SampleKeeps DEF HijackInv, NoStaleSampling, Clean
  <2>2. Clean(after)
    BY <2>1, <1>4 DEF IntsAfter, Acknowledge, Arbitrate, FindActiveInterrupt,
                      UpdateNmiLastSampled, Clean, Taken
  <2>3. ints' = Resolve(after, p, fetch)
    BY <1>2, <1>5 DEF RunEntry
  <2> HIDE DEF after
  <2> QED BY <2>2, <2>3, <1>4 DEF Resolve, Served, Clean, Taken
<1>6. CASE ~hijack
  <2>1. ints' = IntsAfter(h, ints, p, pre)
    BY <1>2, <1>6 DEF RunEntry
  <2>2. Quiet(ints')
    BY <2>1, <1>6, HandlerQuiet DEF HijackInv, FastPathSound
  <2> QED BY <2>2 DEF Quiet
<1> QED BY <1>5, <1>6

LEMMA NextUsesUp ==
  ASSUME HijackInv, NoTakenAfterFetch, [Next]_vars
  PROVE  NoTakenAfterFetch'
<1>1. CASE Tick
  BY <1>1, StepUsesUp DEF Tick
<1>2. CASE Goto
  BY <1>2, StepUsesUp DEF Goto
<1>3. CASE PinCall
  BY <1>3 DEF PinCall, NmiAssert, NmiRelease, IrqAssert, IrqRelease, NoTakenAfterFetch, Taken
<1>4. CASE Restart
  BY <1>4 DEF Restart, NoTakenAfterFetch
<1>5. CASE UNCHANGED vars
  BY <1>5 DEF vars, cpuVars, NoTakenAfterFetch
<1> QED BY <1>1, <1>2, <1>3, <1>4, <1>5 DEF Next

\* A taken request is served at the very next opcode fetch or not at all: an
\* instruction never starts with a request left over from the one before.
THEOREM RequestsUsedUpAtFetch == Spec => []NoTakenAfterFetch
<1>1. Init => NoTakenAfterFetch
  BY DEF Init, NoTakenAfterFetch
<1>2. HijackInv /\ NoTakenAfterFetch /\ [Next]_vars => NoTakenAfterFetch'
  BY NextUsesUp
<1> QED BY <1>1, <1>2, HijackInvariant, PTL DEF Spec
=============================================================================
