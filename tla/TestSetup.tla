------------------------------ MODULE TestSetup -------------------------------
(***************************************************************************)
(* How the lockstep runner brings one CPU, whatever it is doing, to the      *)
(* first instruction of a test: by an NMI whose vector leads to a bootstrap  *)
(* that loads the registers, and if that fails by a restart into three NOPs  *)
(* patched into memory, and the NMI again.  Between two set-ups the host     *)
(* steps the CPU and moves its pins as it likes.                             *)
(***************************************************************************)
EXTENDS Bridge

CONSTANTS FetchSteps,     \* setup_fetch_max_steps
          BootSteps,      \* setup_bootstrap_max_steps
          RestartSteps,   \* setup_restart_max_steps
          Tests           \* start_at and the vectors of the tests

ASSUME StepsAssumption == {FetchSteps, BootSteps, RestartSteps} \subseteq Nat
ASSUME TestsAssumption ==
  Tests \subseteq [start : {"safe", "start"}, reset : Elsewhere, nmi : Elsewhere, irq : Elsewhere]

VARIABLES cpu,       \* the CPU
          memory,    \* what is at the places the runner writes, and the vectors
          test,      \* the test that is set up
          stage,     \* which loop of setup_and_run it is in
          steps,     \* the steps that loop has taken
          attempt,   \* the first soft set-up, or the one after the hard restart
          patch,     \* SavedMemoryPatch: what it holds, if it is active
          result,    \* what the last set-up returned
          restarting \* history: the CPU was in its restart sequence when the attempt began

vars == <<cpu, memory, test, stage, steps, attempt, patch, result, restarting>>

Inactive == [active |-> FALSE, safe |-> "other", reset |-> "wild"]

\* Memory that holds nothing of the runner's.
Blank == [safe |-> "other", start |-> "other", boot |-> "other",
          reset |-> "wild", nmi |-> "wild", irq |-> "wild"]

Init == /\ cpu = Restarted
        /\ memory = Blank
        /\ test \in Tests
        /\ stage = "idle"
        /\ steps = 0
        /\ attempt = 1
        /\ patch = Inactive
        /\ result = "none"
        /\ restarting = FALSE

(***************************************************************************)
(* The host between two set-ups.                                             *)
(***************************************************************************)
Host == /\ stage = "idle"
        /\ \/ cpu' \in StepOf(cpu, memory, test.start)
           \/ \E level \in BOOLEAN : cpu' \in {WithNmi(cpu, level), WithIrq(cpu, level)}
        /\ result' = "none"
        /\ UNCHANGED <<memory, test, stage, steps, attempt, patch, restarting>>

(***************************************************************************)
(* The loops: one step of the CPU, and on.                                   *)
(***************************************************************************)
Step == cpu' \in StepOf(cpu, memory, test.start)

GoOn == /\ steps' = steps + 1
        /\ UNCHANGED <<memory, test, stage, attempt, patch, result, restarting>>

Enter(s) == stage' = s /\ steps' = 0

(***************************************************************************)
(* A soft set-up begins: the bootstrap with all vectors leading to it.       *)
(***************************************************************************)
WithBootstrap(m) == [m EXCEPT !.boot = "bootstrap",
                              !.reset = "boot", !.nmi = "boot", !.irq = "boot"]

BeginSoft(m) == /\ memory' = WithBootstrap(m)
                /\ cpu' = Released(cpu)
                /\ restarting' = (cpu.doing = "reset")
                /\ Enter("to fetch")

\* The program of the test before is any program now.
Older(m) == [m EXCEPT !.safe = IF @ = "test" THEN "other" ELSE @,
                      !.start = IF @ = "test" THEN "other" ELSE @]

SetUp == /\ stage = "idle"
         /\ test' \in Tests
         /\ \E m \in {Blank, Older(memory)} : BeginSoft(m)
         /\ attempt' = 1
         /\ result' = "none"
         /\ UNCHANGED patch

(***************************************************************************)
(* The memory patch of the hard restart, and how a set-up ends.              *)
(***************************************************************************)
Saved == [active |-> TRUE, safe |-> memory.safe, reset |-> memory.reset]

\* Mutant: the reset vector is left alone.
WithStubNoVector(m) == [m EXCEPT !.safe = "nops"]

WithStub(m) == [m EXCEPT !.safe = "nops", !.reset = "safe"]
RestoredIn(m) == IF patch.active THEN [m EXCEPT !.safe = patch.safe, !.reset = patch.reset] ELSE m

\* Mutant: the patch stays active, and is written back once more.
RestoreAgain == patch' = patch

Restore == patch' = Inactive

HardRestart == /\ patch' = Saved
               /\ memory' = WithStub(memory)
               /\ cpu' = Restarted
               /\ Enter("to safe")
               /\ UNCHANGED <<test, attempt, result, restarting>>

Return(what) == /\ memory' = RestoredIn(memory)
                /\ Restore
                /\ result' = what
                /\ Enter("idle")
                /\ UNCHANGED <<cpu, test, attempt, restarting>>

\* The pin is low again when an attempt fails.
SoftFails == IF attempt = 1 THEN HardRestart
             ELSE /\ memory' = RestoredIn(memory)
                  /\ Restore
                  /\ cpu' = WithNmi(cpu, FALSE)
                  /\ result' = "failed"
                  /\ Enter("idle")
                  /\ UNCHANGED <<test, attempt, restarting>>

(***************************************************************************)
(* step_to_next_fetch_without_compare, and the NMI.                          *)
(***************************************************************************)
ToFetch ==
  /\ stage = "to fetch"
  /\ IF steps < FetchSteps
     THEN \E c \in StepOf(cpu, memory, test.start) :
            IF AtFetch(c)
            THEN /\ cpu' = WithNmi(c, TRUE)
                 /\ Enter("to boot")
                 /\ UNCHANGED <<memory, test, attempt, patch, result, restarting>>
            ELSE cpu' = c /\ GoOn
     ELSE SoftFails

(***************************************************************************)
(* step_to_fetch_at_without_compare(internal_bootstrap_address): the patch   *)
(* goes before the test comes.                                               *)
(***************************************************************************)
InstalledIn(m) == [[m EXCEPT ![test.start] = "test"] EXCEPT
                     !.reset = test.reset, !.nmi = test.nmi, !.irq = test.irq]

\* Mutant: the pin stays asserted.
EnteredAsserted == /\ cpu' = cpu
                   /\ memory' = InstalledIn(RestoredIn(memory))
                   /\ Restore
                   /\ Enter("to start")
                   /\ UNCHANGED <<test, attempt, result, restarting>>

Entered == /\ cpu' = WithNmi(cpu, FALSE)
           /\ memory' = InstalledIn(RestoredIn(memory))
           /\ Restore
           /\ Enter("to start")
           /\ UNCHANGED <<test, attempt, result, restarting>>

ToBoot ==
  /\ stage = "to boot"
  /\ CASE AtFetchOf(cpu, "boot") -> Entered
       [] ~AtFetchOf(cpu, "boot") /\ steps < FetchSteps -> GoOn /\ Step
       [] OTHER -> SoftFails

(***************************************************************************)
(* step_to_fetch_at_without_compare(start_at).                               *)
(***************************************************************************)
ToStart ==
  /\ stage = "to start"
  /\ CASE AtFetchOf(cpu, test.start) -> Return("ready")
       [] ~AtFetchOf(cpu, test.start) /\ steps < BootSteps -> GoOn /\ Step
       [] OTHER -> SoftFails

(***************************************************************************)
(* restart_to_start_fetch, to the NOPs, and the second soft set-up.          *)
(***************************************************************************)
ToSafe ==
  /\ stage = "to safe"
  /\ CASE AtFetchOf(cpu, "safe") -> /\ BeginSoft(memory)
                                    /\ attempt' = 2
                                    /\ UNCHANGED <<test, patch, result>>
       [] ~AtFetchOf(cpu, "safe") /\ steps < RestartSteps -> GoOn /\ Step
       [] OTHER -> Return("failed")

(***************************************************************************)
(* setup_and_run without a test: a restart to wherever the vector leads.     *)
(***************************************************************************)
SetUpWithoutTest == /\ stage = "idle"
                    /\ memory' \in {Blank, memory}
                    /\ cpu' = Restarted
                    /\ result' = "none"
                    /\ Enter("to vector")
                    /\ UNCHANGED <<test, attempt, patch, restarting>>

ToVector ==
  /\ stage = "to vector"
  /\ CASE AtFetchOf(cpu, memory.reset) -> Return("restarted")
       [] ~AtFetchOf(cpu, memory.reset) /\ steps < RestartSteps -> GoOn /\ Step
       [] OTHER -> Return("failed")

Next == Host \/ SetUp \/ SetUpWithoutTest \/ ToVector
        \/ ToFetch \/ ToBoot \/ ToStart \/ ToSafe

Spec == Init /\ [][Next]_vars
-----------------------------------------------------------------------------
\* Whatever the CPU was doing, stopped, in the middle of a sequence, with a pin held
\* or an interrupt waiting, setup_and_run brings it to the test: if not by the first
\* NMI, then by the restart, three NOPs being as many as the NMI can take to come.
SetUpSucceeds == result # "failed"

\* A set-up that succeeds leaves the CPU at the fetch of start_at with both pins
\* released, and nothing is going to interrupt the test's first instruction.
SetUpClean ==
  result = "ready" =>
    /\ AtFetchOf(cpu, test.start)
    /\ cpu.doing = "code"
    /\ ~cpu.nmi /\ ~cpu.irq
    /\ ~cpu.edge /\ ~cpu.due /\ ~cpu.polled /\ ~cpu.discards

\* From its first instruction to the test's the bootstrap runs alone: no interrupt
\* of the set-up's own NMI, or of a pin the host held before, runs a handler of the
\* test and spoils what is loaded.  It may for an attempt that begins while the
\* CPU is in its restart sequence, which comes to the bootstrap by the reset vector
\* with the NMI waiting.
BootstrapUndisturbed ==
  stage = "to start" /\ ~restarting =>
    /\ cpu.doing = "code"
    /\ AtFetch(cpu) => cpu.at \in {"boot", "boot rest", test.start} /\ ~cpu.discards
    /\ ~AtFetch(cpu) => cpu.goes \in {"boot rest", test.start}

\* Outside a set-up memory holds none of the NOPs, no patch waits to be written
\* back over a program, and after success the test is in place with its vectors.
MemoryInOrder ==
  stage = "idle" =>
    /\ memory.safe # "nops"
    /\ ~patch.active
    /\ result = "ready" => memory = InstalledIn(memory)
=============================================================================
