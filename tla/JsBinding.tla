------------------------------- MODULE JsBinding -------------------------------
(***************************************************************************)
(* The JavaScript objects over the context pool.  Each call runs to its end     *)
(* before the next one starts: JavaScript has one thread and no call awaits.    *)
(*                                                                         *)
(* A CPU is a state out of States, a bus cycle a tick out of Ticks: the core     *)
(* behind the exports may go from any state to any other.  Besides the objects,   *)
(* the page may use the pool's exports itself, also to free a context it does     *)
(* not have; it leaves alone the ones that objects have.                        *)
(***************************************************************************)
EXTENDS ContextPool

CONSTANTS Cpus, States, Ticks, SetupState

ASSUME StatesAssumption == SetupState \in States

NoTick == 0
NoSnapshot == [cpu |-> SetupState, tick |-> -1]

ASSUME TicksAssumption == NoTick \in Ticks /\ NoSnapshot.tick \notin Ticks

VARIABLES
  pool,      \* the pool's bookkeeping
  memory,    \* what each context's 64 bytes hold
  life,      \* per object: "unborn", "alive" or "disposed"
  ptr,       \* per object: #ptr
  tick,      \* per object: #tick
  saved,     \* the snapshot the host keeps
  held       \* the contexts the page allocated through the exports

vars == <<pool, memory, life, ptr, tick, saved, held>>

\* qe6502abi_setup, qe6502abi_save and qe6502abi_load on a context's bytes.
SetupContext == [as |-> "context", cpu |-> SetupState, tick |-> NoTick]
Snapshot(s, t) == [as |-> "snapshot", cpu |-> s, tick |-> t]
Context(s) == [as |-> "context", cpu |-> s, tick |-> NoTick]
Contents == [as : {"context", "snapshot"}, cpu : States, tick : Ticks]
Snapshots == [cpu : States, tick : Ticks]

Alive(c) == life[c] = "alive"

Init ==
  /\ pool = StaticPool
  /\ memory = [x \in Contexts |-> SetupContext]
  /\ life = [c \in Cpus |-> "unborn"]
  /\ ptr = [c \in Cpus |-> Null]
  /\ tick = [c \in Cpus |-> NoTick]
  /\ saved = NoSnapshot
  /\ held = {}

\* instantiateQe6502 resets the pool before there is any object; a Qe6502 built
\* on exports of its own leaves that to the first allocation.
Instantiate ==
  /\ ~pool.ready
  /\ pool' = ResetPool
  /\ UNCHANGED <<memory, life, ptr, tick, saved, held>>

\* Mutant: a reused context is not cleared.
CreateCpuUncleared(c) ==
  LET got == Alloc(pool)
  IN  /\ life[c] = "unborn"
      /\ got.ctx # Null
      /\ pool' = got.pool
      /\ life' = [life EXCEPT ![c] = "alive"]
      /\ ptr' = [ptr EXCEPT ![c] = got.ctx]
      /\ UNCHANGED <<memory, tick, saved, held>>

CreateCpu(c) ==
  LET got == Alloc(pool)
  IN  /\ life[c] = "unborn"
      /\ got.ctx # Null
      /\ pool' = got.pool
      /\ memory' = [memory EXCEPT ![got.ctx] = SetupContext]
      /\ life' = [life EXCEPT ![c] = "alive"]
      /\ ptr' = [ptr EXCEPT ![c] = got.ctx]
      /\ UNCHANGED <<tick, saved, held>>

\* Mutant: the context allocated for the object that was not built is forgotten.
CreateCpuFailsLeaks ==
  /\ pool' = Alloc(pool).pool
  /\ UNCHANGED <<memory, life, ptr, tick, saved, held>>

\* No context, or a model that does not exist: the call throws.
CreateCpuFails ==
  LET got == Alloc(pool)
  IN  /\ pool' = Free(got.pool, got.ctx)
      /\ UNCHANGED <<memory, life, ptr, tick, saved, held>>

\* restart, jumpTo and tick store the tick; the pins and the setters do not.
RunCpu(c, s, t) ==
  /\ Alive(c)
  /\ memory' = [memory EXCEPT ![ptr[c]] = Context(s)]
  /\ tick' = [tick EXCEPT ![c] = t]
  /\ UNCHANGED <<pool, life, ptr, saved, held>>

\* Mutant: the scratch context stays allocated.
SaveCpuKeepsScratch(c) ==
  LET got  == Alloc(pool)
      snap == Snapshot(memory[ptr[c]].cpu, tick[c])
  IN  /\ Alive(c) /\ got.ctx # Null
      /\ pool' = got.pool
      /\ memory' = [memory EXCEPT ![got.ctx] = snap]
      /\ saved' = [cpu |-> snap.cpu, tick |-> snap.tick]
      /\ UNCHANGED <<life, ptr, tick, held>>

\* The snapshot is written to a scratch context, copied out, and the scratch
\* context goes back.
SaveCpu(c) ==
  LET got  == Alloc(pool)
      snap == Snapshot(memory[ptr[c]].cpu, tick[c])
  IN  /\ Alive(c) /\ got.ctx # Null
      /\ memory' = [memory EXCEPT ![got.ctx] = snap]
      /\ saved' = [cpu |-> snap.cpu, tick |-> snap.tick]
      /\ pool' = Free(got.pool, got.ctx)
      /\ UNCHANGED <<life, ptr, tick, held>>

LoadCpu(c) ==
  LET got == Alloc(pool)
  IN  /\ Alive(c) /\ saved # NoSnapshot /\ got.ctx # Null
      /\ memory' = [memory EXCEPT ![got.ctx] = Snapshot(saved.cpu, saved.tick),
                                  ![ptr[c]] = Context(saved.cpu)]
      /\ tick' = [tick EXCEPT ![c] = saved.tick]
      /\ pool' = Free(got.pool, got.ctx)
      /\ UNCHANGED <<life, ptr, saved, held>>

\* save and load throw when no scratch context is left; the pool is as before.
ScratchFails(c) ==
  /\ Alive(c)
  /\ Alloc(pool).ctx = Null
  /\ pool' = Alloc(pool).pool
  /\ UNCHANGED <<memory, life, ptr, tick, saved, held>>

\* Mutant: the object keeps its pointer.
DisposeKeepsPointer(c) ==
  /\ life[c] # "unborn"
  /\ pool' = Free(pool, ptr[c])
  /\ tick' = [tick EXCEPT ![c] = NoTick]
  /\ life' = [life EXCEPT ![c] = "disposed"]
  /\ UNCHANGED <<memory, ptr, saved, held>>

Dispose(c) ==
  /\ Alive(c)
  /\ pool' = Free(pool, ptr[c])
  /\ ptr' = [ptr EXCEPT ![c] = Null]
  /\ tick' = [tick EXCEPT ![c] = NoTick]
  /\ life' = [life EXCEPT ![c] = "disposed"]
  /\ UNCHANGED <<memory, saved, held>>

\* The page's own calls of the exports.
HostAlloc ==
  LET got == Alloc(pool)
  IN  /\ pool' = got.pool
      /\ held' = held \cup ({got.ctx} \ {Null})
      /\ UNCHANGED <<memory, life, ptr, tick, saved>>

\* The page leaves the contexts of the objects alone: qe6502js_context_free would
\* put one on the stack and hand it out a second time.
HostFree(x) ==
  /\ \A c \in Cpus : ptr[c] # x \/ x = Null
  /\ pool' = Free(pool, x)
  /\ held' = held \ {x}
  /\ UNCHANGED <<memory, life, ptr, tick, saved>>

Next ==
  \/ Instantiate
  \/ CreateCpuFails
  \/ HostAlloc
  \/ \E x \in Contexts \cup {Null, Foreign} : HostFree(x)
  \/ \E c \in Cpus :
       \/ CreateCpu(c) \/ SaveCpu(c) \/ LoadCpu(c) \/ ScratchFails(c) \/ Dispose(c)
       \/ \E s \in States, t \in Ticks : RunCpu(c, s, t)

Spec == Init /\ [][Next]_vars

-----------------------------------------------------------------------------
(* Properties. *)

Owned == {ptr[c] : c \in {c \in Cpus : Alive(c)}}

\* Type invariant: an object has a pointer exactly while it is alive, and what it
\* points to is a CPU, not a snapshot a scratch context left behind.
TypeOK ==
  /\ pool \in Pools
  /\ memory \in [Contexts -> Contents]
  /\ life \in [Cpus -> {"unborn", "alive", "disposed"}]
  /\ ptr \in [Cpus -> Contexts \cup {Null}]
  /\ tick \in [Cpus -> Ticks]
  /\ saved \in Snapshots \cup {NoSnapshot}
  /\ held \subseteq Contexts
  /\ \A c \in Cpus : IF Alive(c) THEN ptr[c] # Null /\ memory[ptr[c]].as = "context"
                                 ELSE ptr[c] = Null

\* No context has two owners: neither two objects, nor an object and the page, nor
\* anyone and the stack of free contexts, which holds each context once.
OneOwner ==
  /\ \A c, d \in Cpus : Alive(c) /\ Alive(d) /\ ptr[c] = ptr[d] => c = d
  /\ Owned \cap held = {}
  /\ (Owned \cup held) \cap OnStack(pool) = {}
  /\ \A i, j \in 1..pool.count : pool.free[i] = pool.free[j] => i = j

\* Every context is owned or free and the flags agree with the stack: no call, also
\* none that throws, loses a context, so save and load work until the owners
\* fill the pool.
NothingLost ==
  pool.ready => /\ OnStack(pool) = Contexts \ (Owned \cup held)
                /\ OnStack(pool) = {x \in Contexts : pool.isFree[x]}

\* Objects that share one pool, reuse its contexts and borrow scratch space from
\* it cannot be told from objects with memory of their own.
Private == INSTANCE PrivateCpus WITH
  state <- [c \in Cpus |-> IF Alive(c) THEN memory[ptr[c]].cpu ELSE SetupState]

PrivateSpec == Private!Spec
=============================================================================
