------------------------------ MODULE PoolProofs ------------------------------
(***************************************************************************)
(* For every capacity, every number of objects and any states: the pool never  *)
(* hands out a context that has an owner, never loses one, and objects that    *)
(* share it behave like objects with memory of their own.                      *)
(***************************************************************************)
EXTENDS JsBinding, FiniteSetTheorems, TLAPS

-----------------------------------------------------------------------------
(* The pool alone. *)

\* A stack of distinct contexts, and flags that name the same ones.
Sound(p) ==
  /\ p \in Pools
  /\ ~p.ready => p.count = 0
  /\ \A i \in 1..p.count : p.free[i] \in Contexts
  /\ \A i, j \in 1..p.count : p.free[i] = p.free[j] => i = j
  /\ p.ready => \A x \in Contexts : p.isFree[x] <=> x \in OnStack(p)

\* The pool an allocation starts from.
Base(p) == IF p.ready THEN p ELSE ResetPool

LEMMA ResetSound ==
  Sound(ResetPool) /\ ResetPool.ready = TRUE /\ OnStack(ResetPool) = Contexts
<1>1. ResetPool \in Pools
  BY CapacityAssumption DEF ResetPool, Pools, Contexts, Null
<1>2. OnStack(ResetPool) = Contexts
  BY CapacityAssumption DEF OnStack, ResetPool, Contexts
<1> QED
  BY <1>1, <1>2, CapacityAssumption DEF Sound, ResetPool, Contexts

LEMMA StaticSound == Sound(StaticPool) /\ StaticPool.ready = FALSE
<1>1. StaticPool \in Pools
  BY CapacityAssumption DEF StaticPool, Pools, Contexts, Null
<1> QED
  BY <1>1 DEF Sound, StaticPool

LEMMA BaseSound ==
  ASSUME NEW p, Sound(p)
  PROVE  Sound(Base(p)) /\ Base(p).ready = TRUE
BY ResetSound DEF Base, Sound, Pools

LEMMA AllocSound ==
  ASSUME NEW p, Sound(p)
  PROVE  /\ Sound(Alloc(p).pool)
         /\ Alloc(p).pool.ready = TRUE
         /\ Alloc(p).ctx \in OnStack(Base(p)) \cup {Null}
         /\ OnStack(Alloc(p).pool) = OnStack(Base(p)) \ {Alloc(p).ctx}
         /\ Alloc(p).ctx = Null <=> OnStack(Base(p)) = {}
<1> DEFINE b == Base(p)
<1>1. Sound(b) /\ b.ready = TRUE
  BY BaseSound
<1>2. Alloc(p) = IF b.count = 0 THEN [ctx |-> Null, pool |-> b]
                 ELSE [ctx  |-> b.free[b.count],
                       pool |-> [ready  |-> TRUE,
                                 count  |-> b.count - 1,
                                 free   |-> b.free,
                                 isFree |-> [b.isFree EXCEPT ![b.free[b.count]] = FALSE]]]
  BY DEF Alloc, Base
<1> HIDE DEF b
<1>3. CASE b.count = 0
  <2>1. Alloc(p) = [ctx |-> Null, pool |-> b]
    BY <1>2, <1>3
  <2>2. OnStack(b) = {}
    BY <1>3 DEF OnStack
  <2> QED
    BY <1>1, <2>1, <2>2 DEF b
<1>4. CASE b.count # 0
  <2> DEFINE x == b.free[b.count]
             q == [ready |-> TRUE, count |-> b.count - 1, free |-> b.free,
                   isFree |-> [b.isFree EXCEPT ![x] = FALSE]]
  <2>1. Alloc(p) = [ctx |-> x, pool |-> q]
    BY <1>2, <1>4
  <2>2. b \in Pools /\ b.count \in 1..Capacity /\ x \in Contexts
    BY <1>1, <1>4 DEF Sound, Pools
  <2>3. /\ q \in Pools
        /\ q.ready = TRUE /\ q.count = b.count - 1 /\ q.free = b.free
        /\ \A y \in Contexts : q.isFree[y] = IF y = x THEN FALSE ELSE b.isFree[y]
    <3> HIDE DEF x
    <3>2. [b.isFree EXCEPT ![x] = FALSE] \in [Contexts -> BOOLEAN]
      BY <2>2 DEF Pools
    <3>3. b.count - 1 \in 0..Capacity
      BY <2>2, CapacityAssumption
    <3> QED BY <1>1, <2>2, <3>2, <3>3 DEF Pools
  <2>4. \A i, j \in 1..b.count : b.free[i] = b.free[j] => i = j
    BY <1>1 DEF Sound
  <2>5. x \in OnStack(b) /\ OnStack(q) = OnStack(b) \ {x}
    <3> HIDE DEF q
    <3> QED BY <2>2, <2>3, <2>4 DEF OnStack
  <2>6. Sound(q)
    <3>1. \A i \in 1..q.count : q.free[i] \in Contexts
      BY <1>1, <2>2, <2>3 DEF Sound
    <3>2. \A i, j \in 1..q.count : q.free[i] = q.free[j] => i = j
      BY <2>2, <2>3, <2>4
    <3>3. \A y \in Contexts : q.isFree[y] <=> y \in OnStack(q)
      <4> HIDE DEF q, x
      <4> QED BY <1>1, <2>3, <2>5 DEF Sound
    <3> HIDE DEF q
    <3> QED BY <2>3, <3>1, <3>2, <3>3 DEF Sound
  <2>7. x # Null
    BY <2>2 DEF Contexts, Null
  <2> HIDE DEF x, q
  <2> QED
    BY <2>1, <2>3, <2>5, <2>6, <2>7 DEF b
<1> QED
  BY <1>3, <1>4

\* A context that is not on the stack leaves room there: pigeonhole.
LEMMA RoomOnStack ==
  ASSUME NEW p, Sound(p), NEW ctx \in Contexts, ctx \notin OnStack(p)
  PROVE  p.count < Capacity
<1> SUFFICES ASSUME p.count = Capacity PROVE FALSE
  BY CapacityAssumption DEF Sound, Pools
<1> DEFINE T == Contexts \ {ctx}
<1>1. IsFiniteSet(Contexts) /\ Cardinality(Contexts) = Capacity
  BY FS_Interval, CapacityAssumption DEF Contexts
<1>2. IsFiniteSet(T) /\ Cardinality(T) < Cardinality(Contexts)
  <2>1. IsFiniteSet(T) /\ Cardinality(T) = Cardinality(Contexts) - 1
    BY <1>1, FS_RemoveElement
  <2> QED
    BY <1>1, <2>1, CapacityAssumption
<1>3. p.free \in [Contexts -> T]
  BY DEF Sound, Pools, OnStack, Contexts
<1>4. \E i, j \in Contexts : i # j /\ p.free[i] = p.free[j]
  <2> HIDE DEF T
  <2> QED BY <1>1, <1>2, <1>3, FS_PigeonHole
<1> QED
  BY <1>4 DEF Sound, Contexts

LEMMA FreeSound ==
  ASSUME NEW p, Sound(p), p.ready = TRUE, NEW ctx
  PROVE  /\ Sound(Free(p, ctx))
         /\ Free(p, ctx).ready = TRUE
         /\ OnStack(Free(p, ctx)) = OnStack(p) \cup ({ctx} \cap Contexts)
<1>1. CASE ctx \in Contexts /\ ctx \notin OnStack(p)
  <2> DEFINE q == [ready  |-> TRUE,
                   count  |-> p.count + 1,
                   free   |-> [p.free EXCEPT ![p.count + 1] = ctx],
                   isFree |-> [p.isFree EXCEPT ![ctx] = TRUE]]
  <2>1. p \in Pools /\ p.count \in 0..Capacity /\ p.count < Capacity
    BY <1>1, RoomOnStack DEF Sound, Pools
  <2>2. ~p.isFree[ctx]
    BY <1>1 DEF Sound
  <2>3. Free(p, ctx) = q
    BY <1>1, <2>1, <2>2 DEF Free
  <2>4. p.count + 1 \in Contexts
    BY <2>1, CapacityAssumption DEF Contexts
  <2>5. /\ q \in Pools
        /\ q.ready = TRUE /\ q.count = p.count + 1
        /\ \A y \in Contexts : q.isFree[y] = IF y = ctx THEN TRUE ELSE p.isFree[y]
        /\ \A i \in Contexts : q.free[i] = IF i = p.count + 1 THEN ctx ELSE p.free[i]
    <3> DEFINE free == [p.free EXCEPT ![p.count + 1] = ctx]
               isFree == [p.isFree EXCEPT ![ctx] = TRUE]
    <3>1. q = [ready |-> TRUE, count |-> p.count + 1, free |-> free, isFree |-> isFree]
      OBVIOUS
    <3>2. p.free \in [Contexts -> Contexts \cup {Null}] /\ p.isFree \in [Contexts -> BOOLEAN]
      BY <2>1 DEF Pools
    <3>3. /\ isFree \in [Contexts -> BOOLEAN]
          /\ \A y \in Contexts : isFree[y] = IF y = ctx THEN TRUE ELSE p.isFree[y]
      BY <3>2
    <3>4. /\ free \in [Contexts -> Contexts \cup {Null}]
          /\ \A i \in Contexts : free[i] = IF i = p.count + 1 THEN ctx ELSE p.free[i]
      BY <1>1, <2>4, <3>2
    <3>5. p.count + 1 \in 0..Capacity
      BY <2>1, CapacityAssumption
    <3> HIDE DEF free, isFree, q
    <3> QED BY <2>1, <3>1, <3>3, <3>4, <3>5 DEF Pools
  <2>6. \A i \in 1..p.count : q.free[i] = p.free[i] /\ p.free[i] \in Contexts
    BY <2>1, <2>5, CapacityAssumption DEF Contexts, Sound
  <2>7. q.free[p.count + 1] = ctx
    BY <2>4, <2>5
  <2> HIDE DEF q
  <2>8. OnStack(q) = OnStack(p) \cup {ctx}
    BY <2>1, <2>5, <2>6, <2>7 DEF OnStack
  <2>9. \A i, j \in 1..q.count : q.free[i] = q.free[j] => i = j
    BY <1>1, <2>1, <2>5, <2>6, <2>7 DEF Sound, OnStack
  <2>10. Sound(q)
    <3>1. \A i \in 1..q.count : q.free[i] \in Contexts
      BY <1>1, <2>1, <2>5, <2>6, <2>7
    <3>2. \A y \in Contexts : q.isFree[y] <=> y \in OnStack(q)
      BY <2>5, <2>8 DEF Sound
    <3> QED BY <2>5, <2>9, <3>1, <3>2 DEF Sound
  <2> QED
    BY <1>1, <2>3, <2>5, <2>8, <2>10
<1>2. CASE ctx \notin Contexts
  BY <1>2 DEF Free
<1>3. CASE ctx \in Contexts /\ ctx \in OnStack(p)
  <2>1. p.isFree[ctx]
    BY <1>3 DEF Sound
  <2> QED
    BY <1>3, <2>1 DEF Free
<1> QED
  BY <1>1, <1>2, <1>3

-----------------------------------------------------------------------------
(* The objects and the page. *)

\* Before the first reset nothing is owned, and Base is a pool of free contexts.
Partition == OnStack(Base(pool)) = Contexts \ (Owned \cup held)
Apart ==
  /\ Owned \cap held = {}
  /\ \A c, d \in Cpus : Alive(c) /\ Alive(d) /\ ptr[c] = ptr[d] => c = d

IInv == TypeOK /\ Sound(pool) /\ Partition /\ Apart

LEMMA InvariantImplies == IInv => OneOwner /\ NothingLost
<1> SUFFICES ASSUME IInv PROVE OneOwner /\ NothingLost
  OBVIOUS
<1>1. OnStack(pool) \subseteq OnStack(Base(pool))
  BY DEF IInv, Base, OnStack, Sound
<1>2. OneOwner
  BY <1>1 DEF IInv, OneOwner, Partition, Apart, Sound
<1>3. NothingLost
  BY DEF IInv, NothingLost, Partition, Sound, Base, OnStack
<1> QED
  BY <1>2, <1>3

\* What an allocation, and one whose context goes back at once, leave.
LEMMA AllocFresh ==
  ASSUME IInv
  PROVE  /\ Sound(Alloc(pool).pool) /\ Alloc(pool).pool.ready = TRUE
         /\ Alloc(pool).ctx # Null =>
              /\ Alloc(pool).ctx \in Contexts
              /\ Alloc(pool).ctx \notin Owned
              /\ Alloc(pool).ctx \notin held
         /\ OnStack(Alloc(pool).pool) = (Contexts \ (Owned \cup held)) \ {Alloc(pool).ctx}
BY AllocSound DEF IInv, Partition

LEMMA AllocAndFree ==
  ASSUME IInv
  PROVE  LET p == Free(Alloc(pool).pool, Alloc(pool).ctx)
         IN  /\ Sound(p) /\ p.ready = TRUE
             /\ OnStack(p) = Contexts \ (Owned \cup held)
<1> DEFINE got == Alloc(pool)
<1>1. /\ Sound(got.pool) /\ got.pool.ready = TRUE
      /\ got.ctx # Null => got.ctx \in Contexts /\ got.ctx \notin Owned /\ got.ctx \notin held
      /\ OnStack(got.pool) = (Contexts \ (Owned \cup held)) \ {got.ctx}
  BY AllocFresh
<1>2. Null \notin Contexts
  BY DEF Null, Contexts
<1> HIDE DEF got
<1>3. /\ Sound(Free(got.pool, got.ctx)) /\ Free(got.pool, got.ctx).ready = TRUE
      /\ OnStack(Free(got.pool, got.ctx)) = OnStack(got.pool) \cup ({got.ctx} \cap Contexts)
  BY <1>1, FreeSound
<1>4. OnStack(Free(got.pool, got.ctx)) = Contexts \ (Owned \cup held)
  BY <1>1, <1>2, <1>3
<1> QED
  BY <1>3, <1>4 DEF got

LEMMA InitEstablishes == Init => IInv
<1> SUFFICES ASSUME Init PROVE IInv
  OBVIOUS
<1>1. Sound(pool) /\ Base(pool) = ResetPool
  BY StaticSound DEF Init, Base
<1>2. Owned = {}
  BY DEF Init, Owned, Alive
<1>3. Partition /\ Apart
  BY <1>1, <1>2, ResetSound DEF Init, Partition, Apart, Alive
<1>4. TypeOK
  <2>1. memory \in [Contexts -> Contents]
    BY StatesAssumption, TicksAssumption DEF Init, SetupContext, Contents
  <2> QED
    BY <1>1, <2>1, TicksAssumption DEF Init, TypeOK, Sound, Alive
<1> QED
  BY <1>1, <1>3, <1>4 DEF IInv

\* Calls that change no owner: the pool they leave has the same free contexts.
LEMMA OwnersKept ==
  ASSUME IInv, UNCHANGED <<life, ptr, held>>, TypeOK', Sound(pool'),
         OnStack(Base(pool')) = Contexts \ (Owned \cup held)
  PROVE  IInv'
<1>1. Owned' = Owned
  BY DEF Owned, Alive
<1>2. Apart'
  BY <1>1 DEF IInv, Apart, Alive
<1> QED
  BY <1>1, <1>2 DEF IInv, Partition

LEMMA ContentsOf ==
  ASSUME NEW s \in States, NEW t \in Ticks
  PROVE  Context(s) \in Contents /\ Snapshot(s, t) \in Contents /\ SetupContext \in Contents
BY StatesAssumption, TicksAssumption DEF Contents, Context, Snapshot, SetupContext

LEMMA NextKeeps ==
  ASSUME IInv, [Next]_vars
  PROVE  IInv'
<1> DEFINE got == Alloc(pool)
           back == Free(got.pool, got.ctx)
<1>1. /\ Sound(got.pool) /\ got.pool.ready = TRUE
      /\ got.ctx # Null => got.ctx \in Contexts /\ got.ctx \notin Owned /\ got.ctx \notin held
      /\ OnStack(got.pool) = (Contexts \ (Owned \cup held)) \ {got.ctx}
  BY AllocFresh
<1>2. Sound(back) /\ back.ready = TRUE /\ OnStack(back) = Contexts \ (Owned \cup held)
  BY AllocAndFree
<1>3. TypeOK
  BY DEF IInv
<1>4. Null \notin Contexts
  BY DEF Null, Contexts
<1> HIDE DEF got, back
<1>5. CASE Instantiate
  <2>1. Base(pool) = ResetPool
    BY <1>5 DEF Instantiate, Base
  <2>2. Base(pool') = ResetPool
    BY <1>5, ResetSound DEF Instantiate, Base
  <2>3. Sound(pool') /\ TypeOK'
    BY <1>3, <1>5, ResetSound DEF Instantiate, TypeOK, Sound, Alive
  <2> QED
    BY <1>5, <2>1, <2>2, <2>3, OwnersKept DEF Instantiate, IInv, Partition
<1>6. CASE CreateCpuFails
  <2>1. pool' = back
    BY <1>6 DEF CreateCpuFails, got, back
  <2>2. TypeOK'
    BY <1>2, <1>3, <1>6, <2>1 DEF CreateCpuFails, TypeOK, Sound, Alive
  <2> QED
    BY <1>2, <1>6, <2>1, <2>2, OwnersKept DEF CreateCpuFails, Base
<1>7. ASSUME NEW c \in Cpus, ScratchFails(c)
      PROVE  IInv'
  <2>1. pool' = got.pool /\ got.ctx = Null
    BY <1>7 DEF ScratchFails, got
  <2>2. TypeOK'
    BY <1>1, <1>3, <1>7, <2>1 DEF ScratchFails, TypeOK, Sound, Alive
  <2>3. OnStack(Base(pool')) = Contexts \ (Owned \cup held)
    BY <1>1, <1>4, <2>1 DEF Base
  <2> QED
    BY <1>1, <1>7, <2>1, <2>2, <2>3, OwnersKept DEF ScratchFails
<1>8. CASE HostAlloc
  <2>1. pool' = got.pool /\ held' = held \cup ({got.ctx} \ {Null})
    BY <1>8 DEF HostAlloc, got
  <2>2. Owned' = Owned
    BY <1>8 DEF HostAlloc, Owned, Alive
  <2>3. TypeOK'
    BY <1>1, <1>3, <1>8, <2>1 DEF HostAlloc, TypeOK, Sound, Alive
  <2>4. Partition'
    BY <1>1, <1>4, <2>1, <2>2 DEF Partition, Base
  <2>5. Apart'
    BY <1>1, <1>8, <2>1, <2>2 DEF IInv, Apart, HostAlloc, Alive
  <2> QED
    BY <1>1, <2>1, <2>3, <2>4, <2>5 DEF IInv
<1>9. ASSUME NEW x \in Contexts \cup {Null, Foreign}, HostFree(x)
      PROVE  IInv'
  <2>1. pool' = Free(pool, x) /\ held' = held \ {x}
    BY <1>9 DEF HostFree
  <2>2. Owned' = Owned
    BY <1>9 DEF HostFree, Owned, Alive
  <2>3. x \in Contexts => x \notin Owned
    BY <1>4, <1>9 DEF HostFree, Owned
  <2>4. Sound(pool') /\ Partition'
    <3>1. CASE pool.ready = TRUE
      <4>1. /\ Sound(pool') /\ pool'.ready = TRUE
            /\ OnStack(pool') = OnStack(pool) \cup ({x} \cap Contexts)
        BY <2>1, <3>1, FreeSound DEF IInv
      <4>2. OnStack(pool) = Contexts \ (Owned \cup held)
        BY <3>1 DEF IInv, Partition, Base
      <4>3. OnStack(pool') = Contexts \ (Owned' \cup held')
        BY <2>1, <2>2, <2>3, <4>1, <4>2
      <4> QED
        BY <4>1, <4>3 DEF Partition, Base
    <3>2. CASE pool.ready = FALSE
      <4>1. pool' = pool
        BY <2>1, <3>2 DEF Free
      <4>2. held = {}
        BY <1>3, <3>2, ResetSound DEF IInv, Partition, Base, TypeOK
      <4> QED
        BY <2>1, <2>2, <4>1, <4>2 DEF IInv, Partition
    <3> QED
      BY <1>3, <3>1, <3>2 DEF TypeOK, Pools
  <2>5. TypeOK'
    BY <1>3, <1>9, <2>1, <2>4 DEF HostFree, TypeOK, Sound, Alive
  <2>6. Apart'
    BY <1>9, <2>1, <2>2 DEF IInv, Apart, HostFree, Alive
  <2> QED
    BY <2>4, <2>5, <2>6 DEF IInv
<1>10. ASSUME NEW c \in Cpus, CreateCpu(c)
       PROVE  IInv'
  <2>1. /\ pool' = got.pool /\ got.ctx # Null
        /\ memory' = [memory EXCEPT ![got.ctx] = SetupContext]
        /\ life' = [life EXCEPT ![c] = "alive"]
        /\ ptr' = [ptr EXCEPT ![c] = got.ctx]
        /\ life[c] = "unborn"
        /\ UNCHANGED <<tick, saved, held>>
    BY <1>10 DEF CreateCpu, got
  <2>2. \A d \in Cpus : /\ ptr'[d] = IF d = c THEN got.ctx ELSE ptr[d]
                        /\ Alive(d)' <=> (d = c \/ Alive(d))
    BY <1>3, <2>1 DEF TypeOK, Alive
  <2>3. Owned' = Owned \cup {got.ctx}
    BY <2>1, <2>2 DEF Owned, Alive
  <2>4. TypeOK'
    <3>1. memory' \in [Contexts -> Contents]
      BY <1>3, <2>1, StatesAssumption, TicksAssumption
      DEF TypeOK, Contents, SetupContext
    <3>2. \A x \in Contexts : memory'[x] = IF x = got.ctx THEN SetupContext ELSE memory[x]
      BY <1>3, <2>1 DEF TypeOK
    <3>3. \A d \in Cpus : Alive(d)' => memory'[ptr'[d]].as = "context" /\ ptr'[d] # Null
      BY <1>1, <1>3, <2>1, <2>2, <3>2 DEF TypeOK, SetupContext
    <3>4. \A d \in Cpus : ~Alive(d)' => ptr'[d] = Null
      BY <1>3, <2>2 DEF TypeOK
    <3> QED
      BY <1>1, <1>3, <2>1, <3>1, <3>3, <3>4 DEF TypeOK, Sound
  <2>5. Partition'
    BY <1>1, <2>1, <2>3 DEF Partition, Base
  <2>6. Apart'
    <3>1. Owned' \cap held' = {}
      BY <1>1, <2>1, <2>3 DEF IInv, Apart
    <3>2. \A d \in Cpus : Alive(d) => ptr[d] # got.ctx
      BY <1>1, <2>1 DEF Owned
    <3>3. \A d, e \in Cpus : Alive(d)' /\ Alive(e)' /\ ptr'[d] = ptr'[e] => d = e
      BY <2>2, <3>2 DEF IInv, Apart
    <3> QED
      BY <3>1, <3>3 DEF Apart
  <2> QED
    BY <1>1, <2>1, <2>4, <2>5, <2>6 DEF IInv
<1>11. ASSUME NEW c \in Cpus, SaveCpu(c)
       PROVE  IInv'
  <2> DEFINE snap == Snapshot(memory[ptr[c]].cpu, tick[c])
  <2>1. /\ pool' = back /\ got.ctx # Null /\ Alive(c)
        /\ memory' = [memory EXCEPT ![got.ctx] = snap]
        /\ saved' = [cpu |-> snap.cpu, tick |-> snap.tick]
        /\ UNCHANGED <<life, ptr, tick, held>>
    BY <1>11 DEF SaveCpu, got, back
  <2>2. ptr[c] \in Contexts /\ memory[ptr[c]].cpu \in States /\ tick[c] \in Ticks
    BY <1>3, <2>1 DEF TypeOK, Contents
  <2>3. snap \in Contents /\ saved' \in Snapshots
    BY <2>1, <2>2, ContentsOf DEF Snapshot, Snapshots
  <2>4. TypeOK'
    <3>1. \A x \in Contexts : x # got.ctx => memory'[x] = memory[x]
      BY <1>3, <2>1 DEF TypeOK
    <3>2. \A d \in Cpus : Alive(d) => ptr[d] # got.ctx
      BY <1>1, <2>1 DEF Owned
    <3>3. \A d \in Cpus : IF Alive(d)' THEN ptr'[d] # Null /\ memory'[ptr'[d]].as = "context"
                                       ELSE ptr'[d] = Null
      BY <1>3, <2>1, <3>1, <3>2 DEF TypeOK, Alive
    <3>4. memory' \in [Contexts -> Contents]
      <4> HIDE DEF snap
      <4> QED BY <1>3, <2>1, <2>3 DEF TypeOK
    <3> HIDE DEF snap
    <3> QED
      BY <1>2, <1>3, <2>1, <2>3, <3>3, <3>4 DEF TypeOK, Sound
  <2> QED
    BY <1>2, <2>1, <2>4, OwnersKept DEF Base
<1>12. ASSUME NEW c \in Cpus, LoadCpu(c)
       PROVE  IInv'
  <2> DEFINE snap == Snapshot(saved.cpu, saved.tick)
             cpu  == Context(saved.cpu)
  <2>1. /\ pool' = back /\ got.ctx # Null /\ Alive(c) /\ saved # NoSnapshot
        /\ memory' = [memory EXCEPT ![got.ctx] = snap, ![ptr[c]] = cpu]
        /\ tick' = [tick EXCEPT ![c] = saved.tick]
        /\ UNCHANGED <<life, ptr, saved, held>>
    BY <1>12 DEF LoadCpu, got, back
  <2>2. saved \in Snapshots /\ saved.cpu \in States /\ saved.tick \in Ticks
    BY <1>3, <2>1 DEF TypeOK, Snapshots
  <2>3. snap \in Contents /\ cpu \in Contents /\ cpu.as = "context"
    BY <2>2, ContentsOf DEF Context
  <2> HIDE DEF snap, cpu
  <2>4. TypeOK'
    <3>1. \A x \in Contexts :
            memory'[x] = IF x = ptr[c] THEN cpu ELSE IF x = got.ctx THEN snap ELSE memory[x]
      BY <1>1, <1>3, <2>1 DEF TypeOK
    <3>2. \A d \in Cpus : Alive(d) => ptr[d] # got.ctx
      BY <1>1, <2>1 DEF Owned
    <3>3. \A d \in Cpus : IF Alive(d)' THEN ptr'[d] # Null /\ memory'[ptr'[d]].as = "context"
                                       ELSE ptr'[d] = Null
      BY <1>3, <2>1, <2>3, <3>1, <3>2 DEF TypeOK, Alive
    <3>4. memory' \in [Contexts -> Contents]
      BY <1>3, <2>1, <2>3 DEF TypeOK
    <3>5. tick' \in [Cpus -> Ticks]
      BY <1>3, <2>1, <2>2 DEF TypeOK
    <3> QED
      BY <1>2, <1>3, <2>1, <3>3, <3>4, <3>5 DEF TypeOK, Sound
  <2> QED
    BY <1>2, <2>1, <2>4, OwnersKept DEF Base
<1>13. ASSUME NEW c \in Cpus, Dispose(c)
       PROVE  IInv'
  <2>1. /\ pool' = Free(pool, ptr[c]) /\ Alive(c)
        /\ ptr' = [ptr EXCEPT ![c] = Null]
        /\ tick' = [tick EXCEPT ![c] = NoTick]
        /\ life' = [life EXCEPT ![c] = "disposed"]
        /\ UNCHANGED <<memory, saved, held>>
    BY <1>13 DEF Dispose
  <2>2. ptr[c] \in Contexts /\ ptr[c] \in Owned
    BY <1>3, <2>1 DEF TypeOK, Owned
  <2>3. pool.ready = TRUE
    BY <1>3, <2>2, ResetSound DEF IInv, Partition, Base, TypeOK, Pools
  <2>4. /\ Sound(pool') /\ pool'.ready = TRUE
        /\ OnStack(pool') = OnStack(pool) \cup {ptr[c]}
    <3> DEFINE x == ptr[c]
    <3>1. Sound(pool) /\ pool' = Free(pool, x) /\ {x} \cap Contexts = {x}
      BY <2>1, <2>2 DEF IInv
    <3> HIDE DEF x
    <3>2. /\ Sound(Free(pool, x)) /\ Free(pool, x).ready = TRUE
          /\ OnStack(Free(pool, x)) = OnStack(pool) \cup ({x} \cap Contexts)
      BY <2>3, <3>1, FreeSound
    <3>3. /\ Sound(pool') /\ pool'.ready = TRUE
          /\ OnStack(pool') = OnStack(pool) \cup {x}
      BY <3>1, <3>2
    <3> QED BY <3>3 DEF x
  <2>5. \A d \in Cpus : /\ ptr'[d] = IF d = c THEN Null ELSE ptr[d]
                        /\ Alive(d)' <=> (d # c /\ Alive(d))
    BY <1>3, <2>1 DEF TypeOK, Alive
  <2>6. Owned' = Owned \ {ptr[c]}
    BY <2>1, <2>5 DEF IInv, Apart, Owned, Alive
  <2>7. Partition'
    BY <2>1, <2>2, <2>3, <2>4, <2>6 DEF IInv, Apart, Partition, Base
  <2>8. Apart'
    BY <2>1, <2>5, <2>6 DEF IInv, Apart
  <2>9. TypeOK'
    <3>1. \A d \in Cpus : IF Alive(d)' THEN ptr'[d] # Null /\ memory'[ptr'[d]].as = "context"
                                       ELSE ptr'[d] = Null
      BY <1>3, <2>1, <2>5 DEF TypeOK
    <3> QED
      BY <1>3, <2>1, <2>4, <3>1, TicksAssumption DEF TypeOK, Sound
  <2> QED
    BY <2>4, <2>7, <2>8, <2>9 DEF IInv
<1>14. ASSUME NEW c \in Cpus, NEW s \in States, NEW t \in Ticks, RunCpu(c, s, t)
       PROVE  IInv'
  <2>1. /\ Alive(c)
        /\ memory' = [memory EXCEPT ![ptr[c]] = Context(s)]
        /\ tick' = [tick EXCEPT ![c] = t]
        /\ UNCHANGED <<pool, life, ptr, saved, held>>
    BY <1>14 DEF RunCpu
  <2>2. Context(s) \in Contents /\ Context(s).as = "context"
    BY ContentsOf DEF Context
  <2>3. TypeOK'
    <3>1. \A x \in Contexts : memory'[x] = IF x = ptr[c] THEN Context(s) ELSE memory[x]
      BY <1>3, <2>1 DEF TypeOK
    <3>2. \A d \in Cpus : IF Alive(d)' THEN ptr'[d] # Null /\ memory'[ptr'[d]].as = "context"
                                       ELSE ptr'[d] = Null
      BY <1>3, <2>1, <2>2, <3>1 DEF TypeOK, Alive
    <3> QED
      BY <1>3, <2>1, <2>2, <3>2 DEF TypeOK
  <2> QED
    BY <2>1, <2>3, OwnersKept DEF IInv, Partition
<1>15. CASE UNCHANGED vars
  <2>1. TypeOK'
    BY <1>3, <1>15 DEF TypeOK, vars, Alive
  <2> QED
    BY <1>15, <2>1, OwnersKept DEF IInv, Partition, vars
<1> QED
  BY <1>5, <1>6, <1>7, <1>8, <1>9, <1>10, <1>11, <1>12, <1>13, <1>14, <1>15 DEF Next

-----------------------------------------------------------------------------
(* The theorems. *)

LEMMA Invariance == Spec => []IInv
<1> QED BY InitEstablishes, NextKeeps, PTL DEF Spec

\* For every capacity and every number of objects, if the page frees no context
\* that an object has and does not reset the pool: whatever else it allocates and
\* frees, twice, null or foreign pointers too, no context has two owners, and the
\* stack of free contexts has none of the owned ones and none twice.
THEOREM NoContextHasTwoOwners == Spec => []OneOwner
<1>1. IInv => OneOwner
  BY InvariantImplies
<1> QED BY <1>1, Invariance, PTL

\* Whatever calls throw and whatever is freed twice: once the pool is ready every
\* context is owned or free, and the flags name the ones on the stack.
THEOREM NoContextIsLost == Spec => []NothingLost
<1>1. IInv => NothingLost
  BY InvariantImplies
<1> QED BY <1>1, Invariance, PTL

\* An object has a pointer exactly while it is alive, and the context it points to
\* holds a CPU: save and load never leave a snapshot in an object's context.
THEOREM PointersHoldCpus == Spec => []TypeOK
<1>1. IInv => TypeOK
  BY DEF IInv
<1> QED BY <1>1, Invariance, PTL

-----------------------------------------------------------------------------
(* Refinement. *)

StateOf(c) == IF Alive(c) THEN memory[ptr[c]].cpu ELSE SetupState
StateMap == [c \in Cpus |-> StateOf(c)]

LEMMA InitMaps == Init => Private!Init
BY DEF Init, Private!Init, Alive

\* A step that leaves the objects and their contexts alone is a stutter.
LEMMA Stutters ==
  ASSUME UNCHANGED <<memory, life, ptr, tick, saved>>
  PROVE  UNCHANGED Private!vars
BY DEF Private!vars, Alive

LEMMA NextMaps ==
  ASSUME IInv, [Next]_vars
  PROVE  [Private!Next]_(Private!vars)
<1> DEFINE got == Alloc(pool)
<1>1. got.ctx # Null => got.ctx \in Contexts /\ got.ctx \notin Owned
  BY AllocFresh
<1>2. TypeOK
  BY DEF IInv
<1>3. \A d \in Cpus : Alive(d) => ptr[d] \in Contexts /\ ptr[d] \in Owned
  BY <1>2 DEF TypeOK, Owned
<1>4. \A d, e \in Cpus : Alive(d) /\ Alive(e) /\ d # e => ptr[d] # ptr[e]
  BY DEF IInv, Apart
<1> HIDE DEF got
<1>5. CASE Instantiate \/ CreateCpuFails \/ HostAlloc
  BY <1>5, Stutters DEF Instantiate, CreateCpuFails, HostAlloc
<1>6. ASSUME NEW x \in Contexts \cup {Null, Foreign}, HostFree(x)
      PROVE  UNCHANGED Private!vars
  BY <1>6, Stutters DEF HostFree
<1>7. ASSUME NEW c \in Cpus, ScratchFails(c)
      PROVE  UNCHANGED Private!vars
  BY <1>7, Stutters DEF ScratchFails
<1>8. ASSUME NEW c \in Cpus, CreateCpu(c)
      PROVE  Private!Create(c)
  <2>1. /\ got.ctx # Null /\ life[c] = "unborn"
        /\ memory' = [memory EXCEPT ![got.ctx] = SetupContext]
        /\ life' = [life EXCEPT ![c] = "alive"]
        /\ ptr' = [ptr EXCEPT ![c] = got.ctx]
        /\ UNCHANGED <<tick, saved>>
    BY <1>8 DEF CreateCpu, got
  <2>2. \A x \in Contexts : memory'[x] = IF x = got.ctx THEN SetupContext ELSE memory[x]
    BY <1>2, <2>1 DEF TypeOK
  <2>3. \A d \in Cpus : /\ ptr'[d] = IF d = c THEN got.ctx ELSE ptr[d]
                        /\ Alive(d)' <=> (d = c \/ Alive(d))
    BY <1>2, <2>1 DEF TypeOK, Alive
  <2>4. \A d \in Cpus : StateOf(d)' = StateOf(d)
    BY <1>1, <1>3, <2>1, <2>2, <2>3 DEF StateOf, SetupContext, Alive
  <2>5. StateMap' = StateMap
    BY <2>4 DEF StateMap
  <2> QED
    BY <2>1, <2>5 DEF Private!Create, StateMap, StateOf
<1>9. ASSUME NEW c \in Cpus, SaveCpu(c)
      PROVE  Private!Save(c)
  <2> DEFINE snap == Snapshot(memory[ptr[c]].cpu, tick[c])
  <2>1. /\ got.ctx # Null /\ Alive(c)
        /\ memory' = [memory EXCEPT ![got.ctx] = snap]
        /\ saved' = [cpu |-> snap.cpu, tick |-> snap.tick]
        /\ UNCHANGED <<life, ptr, tick>>
    BY <1>9 DEF SaveCpu, got
  <2>2. snap.cpu = StateOf(c) /\ snap.tick = tick[c]
    BY <2>1 DEF Snapshot, StateOf
  <2> HIDE DEF snap
  <2>3. \A d \in Cpus : StateOf(d)' = StateOf(d)
    <3>1. \A x \in Contexts : x # got.ctx => memory'[x] = memory[x]
      BY <1>2, <2>1 DEF TypeOK
    <3> QED
      BY <1>1, <1>3, <2>1, <3>1 DEF StateOf, Alive
  <2>4. StateMap' = StateMap
    BY <2>3 DEF StateMap
  <2>5. saved' = [cpu |-> StateMap[c], tick |-> tick[c]]
    BY <2>1, <2>2 DEF StateMap
  <2> QED
    BY <2>1, <2>4, <2>5 DEF Private!Save, StateMap, StateOf, Alive
<1>10. ASSUME NEW c \in Cpus, LoadCpu(c)
       PROVE  Private!Load(c)
  <2> DEFINE snap == Snapshot(saved.cpu, saved.tick)
             cpu  == Context(saved.cpu)
  <2>1. /\ got.ctx # Null /\ Alive(c) /\ saved # NoSnapshot
        /\ memory' = [memory EXCEPT ![got.ctx] = snap, ![ptr[c]] = cpu]
        /\ tick' = [tick EXCEPT ![c] = saved.tick]
        /\ UNCHANGED <<life, ptr, saved>>
    BY <1>10 DEF LoadCpu, got
  <2>2. cpu.cpu = saved.cpu
    BY DEF Context
  <2> HIDE DEF snap, cpu
  <2>3. \A x \in Contexts :
          memory'[x] = IF x = ptr[c] THEN cpu ELSE IF x = got.ctx THEN snap ELSE memory[x]
    BY <1>1, <1>2, <2>1 DEF TypeOK
  <2>4. \A d \in Cpus : StateOf(d)' = IF d = c THEN saved.cpu ELSE StateOf(d)
    <3> TAKE d \in Cpus
    <3>1. CASE d = c
      BY <1>3, <2>1, <2>2, <2>3, <3>1 DEF StateOf, Alive
    <3>2. CASE d # c /\ Alive(d)
      <4>1. ptr[d] \in Contexts /\ ptr[d] # ptr[c] /\ ptr[d] # got.ctx
        BY <1>1, <1>3, <1>4, <2>1, <3>2
      <4>2. memory'[ptr[d]] = memory[ptr[d]]
        BY <2>3, <4>1
      <4> QED
        BY <2>1, <3>2, <4>2 DEF StateOf, Alive
    <3>3. CASE d # c /\ ~Alive(d)
      BY <2>1, <3>3 DEF StateOf, Alive
    <3> QED
      BY <3>1, <3>2, <3>3
  <2>5. StateMap' = [StateMap EXCEPT ![c] = saved.cpu]
    BY <2>4 DEF StateMap
  <2> QED
    BY <2>1, <2>5 DEF Private!Load, StateMap, StateOf, Alive
<1>11. ASSUME NEW c \in Cpus, Dispose(c)
       PROVE  Private!Dispose(c)
  <2>1. /\ Alive(c)
        /\ ptr' = [ptr EXCEPT ![c] = Null]
        /\ tick' = [tick EXCEPT ![c] = NoTick]
        /\ life' = [life EXCEPT ![c] = "disposed"]
        /\ UNCHANGED <<memory, saved>>
    BY <1>11 DEF Dispose
  <2>2. \A d \in Cpus : /\ d # c => ptr'[d] = ptr[d]
                        /\ Alive(d)' <=> (d # c /\ Alive(d))
    BY <1>2, <2>1 DEF TypeOK, Alive
  <2>3. \A d \in Cpus : StateOf(d)' = IF d = c THEN SetupState ELSE StateOf(d)
    BY <2>1, <2>2 DEF StateOf
  <2>4. StateMap' = [StateMap EXCEPT ![c] = SetupState]
    BY <2>3 DEF StateMap
  <2> QED
    BY <2>1, <2>4 DEF Private!Dispose, StateMap, StateOf, Alive
<1>12. ASSUME NEW c \in Cpus, NEW s \in States, NEW t \in Ticks, RunCpu(c, s, t)
       PROVE  Private!Run(c, s, t)
  <2>1. /\ Alive(c)
        /\ memory' = [memory EXCEPT ![ptr[c]] = Context(s)]
        /\ tick' = [tick EXCEPT ![c] = t]
        /\ UNCHANGED <<life, ptr, saved>>
    BY <1>12 DEF RunCpu
  <2>2. \A x \in Contexts : memory'[x] = IF x = ptr[c] THEN Context(s) ELSE memory[x]
    BY <1>2, <2>1 DEF TypeOK
  <2>3. Context(s).cpu = s
    BY DEF Context
  <2>4. \A d \in Cpus : StateOf(d)' = IF d = c THEN s ELSE StateOf(d)
    BY <1>3, <1>4, <2>1, <2>2, <2>3 DEF StateOf, Alive
  <2>5. StateMap' = [StateMap EXCEPT ![c] = s]
    BY <2>4 DEF StateMap
  <2> QED
    BY <2>1, <2>5 DEF Private!Run, StateMap, StateOf, Alive
<1>13. CASE UNCHANGED vars
  BY <1>13, Stutters DEF vars
<1> QED
  BY <1>5, <1>6, <1>7, <1>8, <1>9, <1>10, <1>11, <1>12, <1>13 DEF Next, Private!Next

\* Objects that share one pool, reuse its contexts and borrow scratch space from
\* it behave like objects with memory of their own: for every capacity, every
\* number of objects, any set of CPU states.
THEOREM SharingIsInvisible == Spec => PrivateSpec
<1>1. Init => Private!Init
  BY InitMaps
<1>2. IInv /\ [Next]_vars => [Private!Next]_(Private!vars)
  BY NextMaps
<1> QED
  BY <1>1, <1>2, Invariance, PTL DEF Spec, PrivateSpec, Private!Spec
=============================================================================
