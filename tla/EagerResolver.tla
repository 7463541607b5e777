----------------------------- MODULE EagerResolver -----------------------------
(***************************************************************************)
(* What the hijack flag of qe6502 promises: a CPU whose every tick runs in    *)
(* interrupt_resolver.  It has no fast path and so no flag to keep right; the *)
(* bus cycles, the status flags, the sequencer and the interrupt byte of the  *)
(* real core must be those of this one.                                      *)
(***************************************************************************)
EXTENDS InterruptLogic

CONSTANTS Models, Opcodes

VARIABLES model, slot, cycle, ints, p, count, status

vars == <<model, slot, cycle, ints, p, count, status>>

RunEntry(at, skip) ==
  LET h      == Handler(model, at)
      fetch  == Fetches(h, p)
      before == SampleNmi(ints)
      after  == IntsAfter(h, before, p, Prefetches(h, p, skip))
      served == Served(after, fetch)
      next   == IF served = "none" THEN NextEntry(h, at, before, p, skip, count)
                                   ELSE <<served, 0>>
  IN  /\ slot' = next[1]
      /\ cycle' = next[2]
      /\ ints' = Resolve(after, p, fetch)
      /\ p' \in PAfter(h, p)
      /\ count' = CountAfter(h, count)
      /\ status' = StatusAfter(h, fetch, count)
      /\ UNCHANGED model

StepFrom(s, c) ==
  \E at \in Executed(model, Opcodes, s, c) :
    \E skip \in Skips(Handler(model, at), p) : RunEntry(at, skip)

Tick == StepFrom(slot, cycle)
Goto == StepFrom("goto", 0)

SetPins ==
  /\ \E line \in {"nmi_pin", "irq_pin"} : ints' \in {ints \cup {line}, ints \ {line}}
  /\ UNCHANGED <<model, slot, cycle, p, count, status>>

Initial(s, c, i, f, k, st) ==
  /\ s = "internal_reset" /\ c = 0 /\ i = {} /\ f = {} /\ k = 0
  /\ st = "internal_reset"

Restart ==
  /\ Initial(slot', cycle', ints', p', count', status')
  /\ UNCHANGED model

Init == model \in Models /\ Initial(slot, cycle, ints, p, count, status)

Next == Tick \/ Goto \/ SetPins \/ Restart

Spec == Init /\ [][Next]_vars
=============================================================================
