------------------------------ MODULE ContextPool ------------------------------
(***************************************************************************)
(* The fixed pool of CPU contexts behind the WebAssembly exports: an array of  *)
(* contexts, a stack of pointers to the free ones and a flag per context.     *)
(* The pool is a value here; every operation returns the pool it leaves.      *)
(***************************************************************************)
EXTENDS Integers

CONSTANT Capacity    \* QE6502JS_CONTEXT_POOL_CAPACITY

ASSUME CapacityAssumption == Capacity \in Nat \ {0}

Contexts == 1..Capacity
Null == 0
Foreign == -1        \* a pointer that is not the start of a pool context

Pools ==
  [ready : BOOLEAN, count : 0..Capacity,
   free : [Contexts -> Contexts \cup {Null}], isFree : [Contexts -> BOOLEAN]]

\* Static storage: nothing is free before the first reset.
StaticPool ==
  [ready |-> FALSE, count |-> 0,
   free   |-> [i \in Contexts |-> Null],
   isFree |-> [c \in Contexts |-> FALSE]]

ResetPool ==
  [ready |-> TRUE, count |-> Capacity,
   free   |-> [i \in Contexts |-> i],
   isFree |-> [c \in Contexts |-> TRUE]]

\* Mutant: the flag of the context handed out is not cleared.
AllocKeepsFlag(pool) ==
  LET p == IF pool.ready THEN pool ELSE ResetPool
  IN  IF p.count = 0 THEN [ctx |-> Null, pool |-> p]
      ELSE [ctx |-> p.free[p.count], pool |-> [p EXCEPT !.count = @ - 1]]

\* The context, or Null when none is free, and the pool.
Alloc(pool) ==
  LET p == IF pool.ready THEN pool ELSE ResetPool
  IN  IF p.count = 0 THEN [ctx |-> Null, pool |-> p]
      ELSE [ctx  |-> p.free[p.count],
            pool |-> [ready  |-> TRUE,
                      count  |-> p.count - 1,
                      free   |-> p.free,
                      isFree |-> [p.isFree EXCEPT ![p.free[p.count]] = FALSE]]]

\* Mutant: a context that is free already goes back once more.
FreeTwice(pool, ctx) ==
  IF pool.ready /\ ctx \in Contexts /\ pool.count < Capacity
  THEN [pool EXCEPT !.free[pool.count + 1] = ctx, !.isFree[ctx] = TRUE, !.count = @ + 1]
  ELSE pool

\* What is not a context in use is ignored.
Free(pool, ctx) ==
  IF pool.ready /\ ctx \in Contexts /\ ~pool.isFree[ctx] /\ pool.count < Capacity
  THEN [ready  |-> TRUE,
        count  |-> pool.count + 1,
        free   |-> [pool.free EXCEPT ![pool.count + 1] = ctx],
        isFree |-> [pool.isFree EXCEPT ![ctx] = TRUE]]
  ELSE pool

\* The free contexts, as the stack has them.
OnStack(pool) == {pool.free[i] : i \in 1..pool.count}
=============================================================================
