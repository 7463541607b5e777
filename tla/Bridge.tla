------------------------------- MODULE Bridge --------------------------------
(***************************************************************************)
(* A CPU as the tools see it through ICpu: visible bus cycles, opcode        *)
(* fetches, two pins and a restart.  Both backends are covered: what they    *)
(* differ in, such as how long an instruction takes, when a pin is sampled   *)
(* and which ticks of a sequence see it, is left open.                       *)
(*                                                                           *)
(* Only the places the set-up of a test cares about have a name.  "fake" is  *)
(* the address of the fetch that both backends show in the middle of the     *)
(* restart sequence; it comes from what is in memory, and is taken to be     *)
(* none of the others.                                                       *)
(***************************************************************************)
EXTENDS Naturals

CONSTANT MaxLen   \* the most steps from a fetch to the last one before the next

ASSUME MaxLenAssumption == MaxLen \in Nat \ {0}

NoFetch == "no fetch"
Elsewhere == {"safe", "start", "handler", "wild"}
Places == Elsewhere \cup {"safe+1", "safe+2", "boot", "boot rest"}

(***************************************************************************)
(* A CPU.  at: the address of the opcode fetch on the bus, if there is one.  *)
(* doing: an instruction, a BRK or interrupt sequence, the restart sequence, *)
(* or nothing any more.  goes: where the instruction under way leads.        *)
(* sampled, edge, due: the last sampled NMI level, a rising edge seen, and   *)
(* one seen in time for the next fetch.  polled: IRQ as last sampled.        *)
(* discards: the fetch on the bus is dropped for an interrupt.               *)
(***************************************************************************)
Restarted == [at |-> NoFetch, doing |-> "reset", length |-> 0, goes |-> NoFetch,
              nmi |-> FALSE, irq |-> FALSE, sampled |-> FALSE, edge |-> FALSE,
              due |-> FALSE, polled |-> FALSE, discards |-> FALSE]

WithNmi(c, level) == [c EXCEPT !.nmi = level]
WithIrq(c, level) == [c EXCEPT !.irq = level]

\* Mutant: IRQ stays as it is.
ReleasedNmiOnly(c) == WithNmi(c, FALSE)

Released(c) == WithIrq(WithNmi(c, FALSE), FALSE)

\* is_opcode_fetch() and !is_write(), anywhere or at one address.
AtFetch(c) == c.at # NoFetch
AtFetchOf(c, place) == c.at = place

(***************************************************************************)
(* What a step may see of the pins: an instruction samples NMI in every      *)
(* step, a sequence may miss it after its first.                             *)
(***************************************************************************)
Sampling(c) == [c EXCEPT !.sampled = c.nmi, !.edge = c.edge \/ (c.nmi /\ ~c.sampled),
                         !.polled = c.irq]
Sampled(c) == IF c.doing = "code" THEN {Sampling(c)} ELSE {c, Sampling(c)}

\* Mutant: one NOP less.
StubLengthTwo == 2

\* How many NOPs the runner puts at the safe place.
StubLength == 3

\* The tools' own code at a place, and where it leads.
Stub == <<"safe", "safe+1", "safe+2", "wild">>
InStub(place, memory) == memory.safe = "nops" /\ \E i \in 1 .. StubLength : Stub[i] = place
InBootstrap(place, memory) == memory.boot = "bootstrap" /\ place \in {"boot", "boot rest"}
Foreign(place, memory) == ~InStub(place, memory) /\ ~InBootstrap(place, memory)

\* The instruction at a place: where it leads.  A program that is not the tools'
\* own may go anywhere but into their bootstrap.
NextOf(place, memory, start) ==
  CASE InStub(place, memory) -> {Stub[i + 1] : i \in {j \in 1 .. 3 : Stub[j] = place}}
    [] InBootstrap(place, memory) -> {IF place = "boot" THEN "boot rest" ELSE start}
    [] OTHER -> Elsewhere

\* The step after a fetch: the sequence of an interrupt, the rest of the restart
\* sequence, an instruction, BRK or an instruction that stops the CPU.
Leave(c, memory, start) ==
  LET off(s) == [s EXCEPT !.at = NoFetch, !.length = 1, !.discards = FALSE]
  IN CASE c.doing = "reset" -> {off(s) : s \in Sampled(c)}
       [] c.doing # "reset" /\ c.discards ->
            {[off(Sampling(c)) EXCEPT !.doing = "service"]}
       [] OTHER ->
            LET s == Sampling(c)
            IN {[off(s) EXCEPT !.goes = place, !.due = c.edge] :
                  place \in NextOf(c.at, memory, start)} \cup
               (IF Foreign(c.at, memory)
                THEN {[off(s) EXCEPT !.doing = "service"],
                      [off(s) EXCEPT !.doing = "jam"]}
                ELSE {})

\* The fetch that ends it.
At(c, place) == [c EXCEPT !.at = place, !.doing = "code", !.length = 0, !.goes = NoFetch,
                          !.due = FALSE]

\* An interrupt that was seen in time discards the fetch; one seen later may be a
\* fetch late.
EndInstruction(c) ==
  LET discards == {c.due} \cup (IF c.edge \/ c.polled \/ c.irq THEN {TRUE} ELSE {})
  IN {[At(Sampling(c), c.goes) EXCEPT !.discards = d] : d \in discards}

\* A sequence that has seen an edge serves NMI; one that comes too late for that
\* is not seen before the sequence is over.
EndService(c, memory) ==
  IF c.edge THEN [At(c, memory.nmi) EXCEPT !.edge = FALSE] ELSE At(c, memory.irq)

\* The restart sequence shows a fetch of its own before that of the program.
EndReset(c, memory) ==
  IF c.goes = NoFetch THEN [c EXCEPT !.at = "fake", !.length = 0, !.goes = "vector"]
  ELSE At(c, memory.reset)

Arrive(c, memory) ==
  CASE c.doing = "code" -> EndInstruction(c)
    [] c.doing = "service" -> {EndService(s, memory) : s \in Sampled(c)}
    [] c.doing = "reset" -> {EndReset(s, memory) : s \in Sampled(c)}

Stay(c) == IF c.length < MaxLen THEN {[s EXCEPT !.length = @ + 1] : s \in Sampled(c)} ELSE {}

\* step(): what a CPU may have become after one more cycle.
StepOf(c, memory, start) ==
  CASE c.doing = "jam" -> {c}
    [] AtFetch(c) -> Leave(c, memory, start)
    [] OTHER -> Stay(c) \cup Arrive(c, memory)
=============================================================================
