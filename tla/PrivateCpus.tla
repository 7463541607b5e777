------------------------------ MODULE PrivateCpus ------------------------------
(***************************************************************************)
(* What the JavaScript binding promises: every CPU object has a state and a     *)
(* last tick of its own, and a snapshot is a copy.  There is no pool and no      *)
(* memory to share, so nothing one object does shows in another.               *)
(***************************************************************************)
CONSTANTS Cpus, States, Ticks, SetupState, NoTick, NoSnapshot

VARIABLES
  life,     \* per object: "unborn", "alive" or "disposed"
  state,    \* per object: the CPU it stands for
  tick,     \* per object: the last tick
  saved     \* the host's snapshot

vars == <<life, state, tick, saved>>

Init ==
  /\ life = [c \in Cpus |-> "unborn"]
  /\ state = [c \in Cpus |-> SetupState]
  /\ tick = [c \in Cpus |-> NoTick]
  /\ saved = NoSnapshot

Create(c) ==
  /\ life[c] = "unborn"
  /\ life' = [life EXCEPT ![c] = "alive"]
  /\ UNCHANGED <<state, tick, saved>>

\* restart, jumpTo and tick store a tick; pin calls and setters do not.
Run(c, s, t) ==
  /\ life[c] = "alive"
  /\ state' = [state EXCEPT ![c] = s]
  /\ tick' = [tick EXCEPT ![c] = t]
  /\ UNCHANGED <<life, saved>>

Save(c) ==
  /\ life[c] = "alive"
  /\ saved' = [cpu |-> state[c], tick |-> tick[c]]
  /\ UNCHANGED <<life, state, tick>>

Load(c) ==
  /\ life[c] = "alive" /\ saved # NoSnapshot
  /\ state' = [state EXCEPT ![c] = saved.cpu]
  /\ tick' = [tick EXCEPT ![c] = saved.tick]
  /\ UNCHANGED <<life, saved>>

Dispose(c) ==
  /\ life[c] = "alive"
  /\ life' = [life EXCEPT ![c] = "disposed"]
  /\ state' = [state EXCEPT ![c] = SetupState]
  /\ tick' = [tick EXCEPT ![c] = NoTick]
  /\ UNCHANGED saved

Next ==
  \E c \in Cpus :
    \/ Create(c) \/ Save(c) \/ Load(c) \/ Dispose(c)
    \/ \E s \in States, t \in Ticks : Run(c, s, t)

Spec == Init /\ [][Next]_vars
=============================================================================
