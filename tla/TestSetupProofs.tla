---------------------------- MODULE TestSetupProofs ----------------------------
(***************************************************************************)
(* The set-up of a test, for every length of instructions and, where the     *)
(* bounds of its loops matter, for all that are long enough.                 *)
(***************************************************************************)
EXTENDS TestSetup, TLAPS

(***************************************************************************)
(* Types: of memory, and of a CPU with what its fields say of each other.    *)
(***************************************************************************)
Cells == [safe : {"other", "test", "nops"}, start : {"other", "test"},
          boot : {"other", "bootstrap"}, reset : Places, nmi : Places, irq : Places]

Cpus == [at : Places \cup {NoFetch, "fake"}, doing : {"code", "service", "reset", "jam"},
         length : 0 .. MaxLen, goes : (Places \ {"boot"}) \cup {NoFetch, "vector"},
         nmi : BOOLEAN, irq : BOOLEAN, sampled : BOOLEAN, edge : BOOLEAN,
         due : BOOLEAN, polled : BOOLEAN, discards : BOOLEAN]

Sound(c) ==
  /\ c.at \in Places => c.doing = "code" /\ ~c.due
  /\ c.at = "fake" => c.doing = "reset" /\ c.goes = "vector"
  /\ c.doing = "code" /\ c.at = NoFetch => c.goes \in Places
  /\ c.discards => c.at \in Places
  /\ c.doing = "reset" => c.goes \in {NoFetch, "vector"}

Starts == {"safe", "start"}
-----------------------------------------------------------------------------
(***************************************************************************)
(* A step of a CPU, field by field.                                          *)
(***************************************************************************)
Kept(c, s) == /\ s.nmi = c.nmi /\ s.irq = c.irq
              /\ s.sampled = c.sampled /\ s.edge = c.edge /\ s.polled = c.polled
Saw(c, s) == /\ s.nmi = c.nmi /\ s.irq = c.irq
             /\ s.sampled = c.nmi /\ s.edge = (c.edge \/ (c.nmi /\ ~c.sampled))
             /\ s.polled = c.irq
Rest(c, s) == /\ s.at = c.at /\ s.doing = c.doing /\ s.length = c.length
              /\ s.goes = c.goes /\ s.due = c.due /\ s.discards = c.discards

Stopped(c, s) == c.doing = "jam" /\ s = c

Left(c, s, m, start) ==
  /\ c.at # NoFetch /\ s.at = NoFetch /\ s.length = 1 /\ ~s.discards
  /\ \/ /\ c.doing = "reset" /\ s.doing = "reset"
        /\ s.goes = c.goes /\ s.due = c.due
        /\ Kept(c, s) \/ Saw(c, s)
     \/ /\ c.doing = "code" /\ c.discards /\ s.doing = "service"
        /\ s.goes = c.goes /\ s.due = c.due
        /\ Saw(c, s)
     \/ /\ c.doing = "code" /\ ~c.discards /\ s.doing = "code"
        /\ s.goes \in NextOf(c.at, m, start) /\ s.due = c.edge
        /\ Saw(c, s)
     \/ /\ c.doing = "code" /\ ~c.discards /\ Foreign(c.at, m)
        /\ s.doing \in {"service", "jam"} /\ s.due = c.due
        /\ Saw(c, s)

Stayed(c, s) ==
  /\ c.at = NoFetch /\ c.length < MaxLen /\ s.length = c.length + 1
  /\ s.at = c.at /\ s.doing = c.doing /\ s.goes = c.goes
  /\ s.due = c.due /\ s.discards = c.discards
  /\ Saw(c, s) \/ (Kept(c, s) /\ c.doing # "code")

Ended(c, s) ==
  /\ c.at = NoFetch /\ c.doing = "code"
  /\ s.at = c.goes /\ s.doing = "code" /\ s.length = 0 /\ s.goes = NoFetch /\ ~s.due
  /\ Saw(c, s)
  /\ c.due => s.discards
  /\ s.discards => c.due \/ c.edge \/ c.polled \/ c.irq

Served(c, s, m) ==
  /\ c.at = NoFetch /\ c.doing = "service"
  /\ s.at \in {m.nmi, m.irq} /\ (c.edge => s.at = m.nmi)
  /\ s.doing = "code" /\ s.length = 0 /\ s.goes = NoFetch /\ ~s.due
  /\ s.discards = c.discards
  /\ s.nmi = c.nmi /\ s.irq = c.irq /\ ~s.edge
  /\ s.polled \in {c.polled, c.irq}

WentOn(c, s, m) ==
  /\ c.at = NoFetch /\ c.doing = "reset"
  /\ s.length = 0 /\ s.discards = c.discards
  /\ Kept(c, s) \/ Saw(c, s)
  /\ \/ /\ c.goes = NoFetch
        /\ s.at = "fake" /\ s.doing = "reset" /\ s.goes = "vector" /\ s.due = c.due
     \/ /\ c.goes # NoFetch
        /\ s.at = m.reset /\ s.doing = "code" /\ s.goes = NoFetch /\ ~s.due

LEMMA SamplingFields ==
  ASSUME NEW c \in Cpus
  PROVE  Sampling(c) \in Cpus /\ Saw(c, Sampling(c)) /\ Rest(c, Sampling(c))
BY DEF Cpus, Sampling, Saw, Rest

LEMMA SampledFields ==
  ASSUME NEW c \in Cpus, NEW s \in Sampled(c)
  PROVE  /\ s \in Cpus /\ Rest(c, s)
         /\ Saw(c, s) \/ (Kept(c, s) /\ c.doing # "code")
<1>1. CASE s = Sampling(c)
  BY <1>1, SamplingFields
<1>2. CASE s = c /\ c.doing # "code"
  BY <1>2 DEF Rest, Kept
<1> QED
  BY <1>1, <1>2 DEF Sampled

LEMMA StubPlaces ==
  ASSUME NEW i \in 1 .. 3
  PROVE  /\ Stub[i] \in {"safe", "safe+1", "safe+2"}
         /\ Stub[i + 1] \in {"safe+1", "safe+2", "wild"}
<1>1. i = 1 \/ i = 2 \/ i = 3
  OBVIOUS
<1> QED
  BY <1>1 DEF Stub

\* Where an instruction may lead is a place, and never the bootstrap.
LEMMA NextIsPlace ==
  ASSUME NEW place, NEW m, NEW start \in Starts, NEW to \in NextOf(place, m, start)
  PROVE  to \in Places \ {"boot"}
<1>1. \A i \in 1..3 : /\ Stub[i] \in {"safe", "safe+1", "safe+2"}
                       /\ Stub[i + 1] \in {"safe+1", "safe+2", "wild"}
  BY StubPlaces
<1>2. CASE InStub(place, m)
  <2>0. ~InBootstrap(place, m)
    BY <1>1, <1>2 DEF InStub, InBootstrap, StubLength
  <2>1. to \in {Stub[i + 1] : i \in {j \in 1..3 : Stub[j] = place}}
    BY <1>2, <2>0, Zenon DEF NextOf
  <2>2. PICK i \in 1..3 : to = Stub[i + 1]
    BY <2>1
  <2> QED
    BY <1>1, <2>2 DEF Places, Elsewhere
<1>3. CASE ~InStub(place, m) /\ InBootstrap(place, m)
  BY <1>3 DEF NextOf, Places, Elsewhere, Starts
<1>4. CASE ~InStub(place, m) /\ ~InBootstrap(place, m)
  BY <1>4 DEF NextOf, Places, Elsewhere
<1> QED
  BY <1>2, <1>3, <1>4

LEMMA LeaveFields ==
  ASSUME NEW c \in Cpus, Sound(c), NEW m \in Cells, NEW start \in Starts,
         c.at # NoFetch, c.doing # "jam", NEW s \in Leave(c, m, start)
  PROVE  s \in Cpus /\ Sound(s) /\ Left(c, s, m, start)
<1> DEFINE off(t) == [t EXCEPT !.at = NoFetch, !.length = 1, !.discards = FALSE]
<1>0. 1 \in 0 .. MaxLen
  BY MaxLenAssumption
<1>1. ASSUME NEW t \in Cpus, Rest(c, t)
      PROVE  /\ off(t) \in Cpus
             /\ off(t).at = NoFetch /\ off(t).length = 1 /\ ~off(t).discards
             /\ off(t).doing = c.doing /\ off(t).goes = c.goes /\ off(t).due = c.due
             /\ off(t).nmi = t.nmi /\ off(t).irq = t.irq /\ off(t).sampled = t.sampled
             /\ off(t).edge = t.edge /\ off(t).polled = t.polled
  BY <1>0, <1>1 DEF Cpus, Rest
<1>2. c.doing # "reset" => c.doing = "code"
  BY DEF Cpus, Sound
<1>3. CASE c.doing = "reset"
  <2>1. PICK t \in Sampled(c) : s = off(t)
    BY <1>3 DEF Leave
  <2>2. t \in Cpus /\ Rest(c, t) /\ (Saw(c, t) \/ Kept(c, t))
    BY SampledFields
  <2>3. /\ s \in Cpus /\ s.at = NoFetch /\ s.length = 1 /\ ~s.discards
        /\ s.doing = c.doing /\ s.goes = c.goes /\ s.due = c.due
        /\ s.nmi = t.nmi /\ s.irq = t.irq /\ s.sampled = t.sampled
        /\ s.edge = t.edge /\ s.polled = t.polled
    BY <2>1, <2>2, <1>1
  <2>4. Kept(c, s) \/ Saw(c, s)
    BY <2>2, <2>3 DEF Kept, Saw
  <2>5. Sound(s)
    BY <2>3, <1>3 DEF Sound, NoFetch, Places, Elsewhere
  <2> QED
    BY <2>3, <2>4, <2>5, <1>3 DEF Left
<1>4. CASE c.doing # "reset"
  <2> DEFINE t == Sampling(c)
  <2>1. t \in Cpus /\ Rest(c, t) /\ Saw(c, t)
    BY SamplingFields
  <2> HIDE DEF t
  <2>2. CASE c.discards
    <3>1. s = [off(t) EXCEPT !.doing = "service"]
      BY <1>4, <2>2 DEF Leave, t
    <3> HIDE DEF off
    <3>2. /\ s \in Cpus /\ s.at = NoFetch /\ s.length = 1 /\ ~s.discards
          /\ s.doing = "service" /\ s.goes = c.goes /\ s.due = c.due
          /\ s.nmi = t.nmi /\ s.irq = t.irq /\ s.sampled = t.sampled
          /\ s.edge = t.edge /\ s.polled = t.polled
      BY <3>1, <2>1, <1>1 DEF Cpus
    <3>3. Saw(c, s)
      BY <2>1, <3>2 DEF Saw
    <3>4. Sound(s)
      BY <3>2 DEF Sound, NoFetch, Places, Elsewhere
    <3> QED
      BY <3>2, <3>3, <3>4, <2>2, <1>2, <1>4 DEF Left
  <2>3. CASE ~c.discards /\ \E place \in NextOf(c.at, m, start) :
               s = [off(t) EXCEPT !.goes = place, !.due = c.edge]
    <3>1. PICK place \in NextOf(c.at, m, start) :
            s = [off(t) EXCEPT !.goes = place, !.due = c.edge]
      BY <2>3
    <3>2. place \in Places \ {"boot"}
      BY NextIsPlace
    <3>3. c.edge \in BOOLEAN
      BY DEF Cpus
    <3> HIDE DEF off
    <3>4. /\ s \in Cpus /\ s.at = NoFetch /\ s.length = 1 /\ ~s.discards
          /\ s.doing = c.doing /\ s.goes = place /\ s.due = c.edge
          /\ s.nmi = t.nmi /\ s.irq = t.irq /\ s.sampled = t.sampled
          /\ s.edge = t.edge /\ s.polled = t.polled
      BY <3>1, <3>2, <3>3, <2>1, <1>1 DEF Cpus
    <3>5. Saw(c, s)
      BY <2>1, <3>4 DEF Saw
    <3>6. Sound(s)
      BY <3>2, <3>4, <1>2, <1>4 DEF Sound, NoFetch, Places, Elsewhere
    <3> QED
      BY <3>4, <3>5, <3>6, <2>3, <1>2, <1>4 DEF Left
  <2>4. CASE ~c.discards /\ Foreign(c.at, m)
             /\ s \in {[off(t) EXCEPT !.doing = "service"], [off(t) EXCEPT !.doing = "jam"]}
    <3> HIDE DEF off
    <3>1. /\ s \in Cpus /\ s.at = NoFetch /\ s.length = 1 /\ ~s.discards
          /\ s.doing \in {"service", "jam"} /\ s.goes = c.goes /\ s.due = c.due
          /\ s.nmi = t.nmi /\ s.irq = t.irq /\ s.sampled = t.sampled
          /\ s.edge = t.edge /\ s.polled = t.polled
      BY <2>4, <2>1, <1>1 DEF Cpus
    <3>2. Saw(c, s)
      BY <2>1, <3>1 DEF Saw
    <3>3. Sound(s)
      BY <3>1 DEF Sound, NoFetch, Places, Elsewhere
    <3> QED
      BY <3>1, <3>2, <3>3, <2>4, <1>2, <1>4 DEF Left
  <2> QED
    <3>1. ~c.discards =>
            s \in {[off(t) EXCEPT !.goes = place, !.due = c.edge] : place \in NextOf(c.at, m, start)}
                  \cup (IF Foreign(c.at, m)
                        THEN {[off(t) EXCEPT !.doing = "service"], [off(t) EXCEPT !.doing = "jam"]}
                        ELSE {})
      BY <1>4 DEF Leave, t
    <3> HIDE DEF off
    <3> QED
      BY <3>1, <2>2, <2>3, <2>4
<1> QED
  BY <1>3, <1>4

\* A fetch that ends an instruction or a sequence.
LEMMA AtFields ==
  ASSUME NEW c \in Cpus, NEW place \in Places
  PROVE  LET s == At(c, place) IN
         /\ s \in Cpus /\ Kept(c, s)
         /\ s.at = place /\ s.doing = "code" /\ s.length = 0 /\ s.goes = NoFetch
         /\ s.due = FALSE /\ s.discards = c.discards
<1>1. 0 \in 0 .. MaxLen
  BY MaxLenAssumption
<1> QED
  BY <1>1 DEF At, Cpus, Kept

LEMMA ArriveFields ==
  ASSUME NEW c \in Cpus, Sound(c), NEW m \in Cells, c.at = NoFetch,
         NEW s \in Arrive(c, m), c.doing # "jam"
  PROVE  s \in Cpus /\ Sound(s) /\ (Ended(c, s) \/ Served(c, s, m) \/ WentOn(c, s, m))
<1>1. m.nmi \in Places /\ m.irq \in Places /\ m.reset \in Places
  BY DEF Cells
<1>2. ~c.discards
  BY DEF Sound, Places, Elsewhere, NoFetch
<1>3. ASSUME NEW t, t.at \in Places, t.doing = "code", ~t.due
      PROVE  Sound(t)
  BY <1>3 DEF Sound, Places, Elsewhere, NoFetch
<1>4. CASE c.doing = "code"
  <2> DEFINE t == Sampling(c)
             a == At(t, c.goes)
  <2>1. t \in Cpus /\ Rest(c, t) /\ Saw(c, t)
    BY SamplingFields
  <2>2. c.goes \in Places
    BY <1>4 DEF Sound
  <2> HIDE DEF t
  <2>3. /\ a \in Cpus /\ Kept(t, a)
        /\ a.at = c.goes /\ a.doing = "code" /\ a.length = 0 /\ a.goes = NoFetch
        /\ a.due = FALSE
    BY <2>1, <2>2, AtFields
  <2> HIDE DEF a
  <2>4. s \in EndInstruction(c)
    BY <1>4, Zenon DEF Arrive
  <2>5. PICK d \in {c.due} \cup (IF c.edge \/ c.polled \/ c.irq THEN {TRUE} ELSE {}) :
          s = [a EXCEPT !.discards = d]
    BY <2>4 DEF EndInstruction, a, t
  <2>6. d \in BOOLEAN /\ (c.due => d) /\ (d => c.due \/ c.edge \/ c.polled \/ c.irq)
    BY <2>5 DEF Cpus
  <2>7. /\ s \in Cpus /\ Kept(a, s) /\ s.discards = d
        /\ s.at = c.goes /\ s.doing = "code" /\ s.length = 0 /\ s.goes = NoFetch
        /\ s.due = FALSE
    BY <2>3, <2>5, <2>6 DEF Cpus, Kept
  <2>8. Saw(c, s)
    BY <2>1, <2>3, <2>7 DEF Kept, Saw
  <2>9. Sound(s)
    BY <2>2, <2>7, <1>3
  <2> QED
    BY <1>4, <2>6, <2>7, <2>8, <2>9 DEF Ended
<1>5. CASE c.doing = "service"
  <2>1. PICK t \in Sampled(c) : s = EndService(t, m)
    BY <1>5, Zenon DEF Arrive
  <2>2. t \in Cpus /\ Rest(c, t) /\ (Saw(c, t) \/ Kept(c, t))
    BY SampledFields
  <2>3. /\ s \in Cpus /\ s.doing = "code" /\ s.length = 0 /\ s.goes = NoFetch
        /\ s.due = FALSE /\ s.discards = t.discards
        /\ s.nmi = t.nmi /\ s.irq = t.irq /\ s.polled = t.polled
        /\ s.at \in {m.nmi, m.irq} /\ (t.edge => s.at = m.nmi) /\ ~s.edge
    <3>1. CASE t.edge
      <4> DEFINE a == At(t, m.nmi)
      <4>1. /\ a \in Cpus /\ Kept(t, a)
            /\ a.at = m.nmi /\ a.doing = "code" /\ a.length = 0 /\ a.goes = NoFetch
            /\ a.due = FALSE /\ a.discards = t.discards
        BY <2>2, <1>1, AtFields
      <4>2. s = [a EXCEPT !.edge = FALSE]
        BY <3>1, <2>1 DEF EndService
      <4> HIDE DEF a
      <4> QED
        BY <4>1, <4>2 DEF Cpus, Kept
    <3>2. CASE ~t.edge
      <4>1. s = At(t, m.irq)
        BY <3>2, <2>1 DEF EndService
      <4>2. /\ s \in Cpus /\ Kept(t, s)
            /\ s.at = m.irq /\ s.doing = "code" /\ s.length = 0 /\ s.goes = NoFetch
            /\ s.due = FALSE /\ s.discards = t.discards
        BY <4>1, <2>2, <1>1, AtFields
      <4> QED
        BY <3>2, <4>2 DEF Kept
    <3> QED
      BY <3>1, <3>2
  <2>4. Sound(s)
    BY <2>3, <1>1, <1>3
  <2>5. Served(c, s, m)
    BY <1>5, <2>2, <2>3 DEF Served, Rest, Saw, Kept
  <2> QED
    BY <2>3, <2>4, <2>5
<1>6. CASE c.doing = "reset"
  <2>1. PICK t \in Sampled(c) : s = EndReset(t, m)
    BY <1>6, Zenon DEF Arrive
  <2>2. t \in Cpus /\ Rest(c, t) /\ (Saw(c, t) \/ Kept(c, t))
    BY SampledFields
  <2>3. CASE t.goes = NoFetch
    <3>1. s = [t EXCEPT !.at = "fake", !.length = 0, !.goes = "vector"]
      BY <2>1, <2>3 DEF EndReset
    <3>2. 0 \in 0 .. MaxLen
      BY MaxLenAssumption
    <3>3. /\ s \in Cpus /\ s.at = "fake" /\ s.length = 0 /\ s.goes = "vector"
          /\ s.doing = t.doing /\ s.due = t.due /\ s.discards = t.discards /\ Kept(t, s)
      BY <3>1, <3>2, <2>2 DEF Cpus, Kept
    <3>4. Sound(s)
      BY <3>3, <2>2, <1>2, <1>6 DEF Sound, Rest, Places, Elsewhere, NoFetch
    <3>5. WentOn(c, s, m)
      BY <3>3, <2>2, <2>3, <1>6 DEF WentOn, Rest, Saw, Kept
    <3> QED
      BY <3>3, <3>4, <3>5
  <2>4. CASE t.goes # NoFetch
    <3>1. s = At(t, m.reset)
      BY <2>1, <2>4 DEF EndReset
    <3>2. /\ s \in Cpus /\ Kept(t, s)
          /\ s.at = m.reset /\ s.doing = "code" /\ s.length = 0 /\ s.goes = NoFetch
          /\ s.due = FALSE /\ s.discards = t.discards
      BY <3>1, <2>2, <1>1, AtFields
    <3>3. Sound(s)
      BY <3>2, <1>1, <1>3
    <3>4. WentOn(c, s, m)
      BY <3>2, <2>2, <2>4, <1>6 DEF WentOn, Rest, Saw, Kept
    <3> QED
      BY <3>2, <3>3, <3>4
  <2> QED
    BY <2>3, <2>4
<1> QED
  BY <1>4, <1>5, <1>6 DEF Cpus

LEMMA StayFields ==
  ASSUME NEW c \in Cpus, Sound(c), c.at = NoFetch, NEW s \in Stay(c)
  PROVE  s \in Cpus /\ Sound(s) /\ Stayed(c, s)
<1>1. c.length < MaxLen /\ c.length \in Nat
  BY MaxLenAssumption DEF Stay, Cpus
<1>2. PICK t \in Sampled(c) : s = [t EXCEPT !.length = @ + 1]
  BY <1>1 DEF Stay
<1>3. /\ t \in Cpus /\ Rest(c, t)
      /\ Saw(c, t) \/ (Kept(c, t) /\ c.doing # "code")
  BY SampledFields
<1>4. t.length = c.length /\ c.length + 1 \in 0 .. MaxLen
  BY <1>1, <1>3, MaxLenAssumption DEF Rest
<1>5. /\ s \in Cpus /\ Kept(t, s) /\ s.length = c.length + 1
      /\ s.at = t.at /\ s.doing = t.doing /\ s.goes = t.goes
      /\ s.due = t.due /\ s.discards = t.discards
  BY <1>2, <1>3, <1>4 DEF Cpus, Kept
<1>6. Sound(s)
  BY <1>3, <1>5 DEF Sound, Rest
<1>7. Stayed(c, s)
  BY <1>1, <1>3, <1>5 DEF Stayed, Rest, Saw, Kept
<1> QED
  BY <1>5, <1>6, <1>7

Moved(c, s, m, start) ==
  \/ Stopped(c, s) \/ Left(c, s, m, start) \/ Stayed(c, s)
  \/ Ended(c, s) \/ Served(c, s, m) \/ WentOn(c, s, m)

\* What a step of a CPU can be, and that it keeps the type.
LEMMA Steps ==
  ASSUME NEW c \in Cpus, Sound(c), NEW m \in Cells, NEW start \in Starts,
         NEW s \in StepOf(c, m, start)
  PROVE  s \in Cpus /\ Sound(s) /\ Moved(c, s, m, start)
<1>1. CASE c.doing = "jam"
  <2>1. ~AtFetch(c)
    BY <1>1 DEF Sound, AtFetch, Cpus
  <2>2. s = c
    BY <1>1, <2>1, Zenon DEF StepOf
  <2> QED
    BY <1>1, <2>2 DEF Moved, Stopped
<1>2. CASE c.doing # "jam" /\ AtFetch(c)
  <2>1. s \in Leave(c, m, start)
    BY <1>2, Zenon DEF StepOf
  <2> QED
    BY <1>2, <2>1, LeaveFields DEF Moved, AtFetch
<1>3. CASE c.doing # "jam" /\ ~AtFetch(c)
  <2>1. s \in Stay(c) \cup Arrive(c, m)
    BY <1>3, Zenon DEF StepOf
  <2>2. c.at = NoFetch
    BY <1>3 DEF AtFetch
  <2> QED
    BY <1>3, <2>1, <2>2, StayFields, ArriveFields DEF Moved
<1> QED
  BY <1>1, <1>2, <1>3
-----------------------------------------------------------------------------
(***************************************************************************)
(* What the runner writes into memory.                                       *)
(***************************************************************************)
Patches == [active : BOOLEAN, safe : {"other", "test"}, reset : Places]

LEMMA TestFields ==
  ASSUME NEW t \in Tests
  PROVE  /\ t.start \in Starts
         /\ t.reset \in Elsewhere /\ t.nmi \in Elsewhere /\ t.irq \in Elsewhere
         /\ t.reset \in Places /\ t.nmi \in Places /\ t.irq \in Places
BY TestsAssumption DEF Starts, Places

LEMMA BlankCells == Blank \in Cells /\ Blank.safe = "other"
BY DEF Blank, Cells, Places, Elsewhere

LEMMA OlderCells ==
  ASSUME NEW m \in Cells
  PROVE  Older(m) \in Cells /\ (Older(m).safe = "nops" <=> m.safe = "nops")
BY DEF Older, Cells

LEMMA BootstrapCells ==
  ASSUME NEW m \in Cells
  PROVE  /\ WithBootstrap(m) \in Cells
         /\ WithBootstrap(m).boot = "bootstrap" /\ WithBootstrap(m).safe = m.safe
         /\ WithBootstrap(m).nmi = "boot"
BY DEF WithBootstrap, Cells, Places

LEMMA StubCells ==
  ASSUME NEW m \in Cells
  PROVE  /\ WithStub(m) \in Cells
         /\ WithStub(m).boot = m.boot /\ WithStub(m).safe = "nops"
         /\ WithStub(m).reset = "safe"
BY DEF WithStub, Cells, Places, Elsewhere

LEMMA RestoredCells ==
  ASSUME NEW m \in Cells, patch \in Patches, m.safe = "nops" => patch.active
  PROVE  /\ RestoredIn(m) \in Cells
         /\ RestoredIn(m).boot = m.boot /\ RestoredIn(m).safe # "nops"
         /\ ~patch.active => RestoredIn(m) = m
BY DEF RestoredIn, Cells, Patches

LEMMA InstalledCells ==
  ASSUME NEW m \in Cells, test \in Tests
  PROVE  /\ InstalledIn(m) \in Cells
         /\ InstalledIn(m).boot = m.boot
         /\ InstalledIn(m).safe = "nops" => m.safe = "nops"
         /\ InstalledIn(InstalledIn(m)) = InstalledIn(m)
         /\ InstalledIn(m).nmi \in Elsewhere
<1>1. /\ test.start \in Starts
      /\ test.reset \in Elsewhere /\ test.nmi \in Elsewhere /\ test.irq \in Elsewhere
      /\ test.reset \in Places /\ test.nmi \in Places /\ test.irq \in Places
  BY TestFields
<1>2. CASE test.start = "safe"
  <2>1. InstalledIn(m) = [m EXCEPT !.safe = "test", !.reset = test.reset, !.nmi = test.nmi, !.irq = test.irq]
    BY <1>2 DEF InstalledIn, Cells
  <2>2. \A n \in Cells : InstalledIn(n) = [n EXCEPT !.safe = "test", !.reset = test.reset, !.nmi = test.nmi, !.irq = test.irq]
    BY <1>2 DEF InstalledIn, Cells
  <2>3. InstalledIn(m) \in Cells
    BY <1>1, <2>1 DEF Cells
  <2> QED
    BY <1>1, <2>1, <2>2, <2>3 DEF Cells
<1>3. CASE test.start = "start"
  <2>1. InstalledIn(m) = [m EXCEPT !.start = "test", !.reset = test.reset, !.nmi = test.nmi, !.irq = test.irq]
    BY <1>3 DEF InstalledIn, Cells
  <2>2. \A n \in Cells : InstalledIn(n) = [n EXCEPT !.start = "test", !.reset = test.reset, !.nmi = test.nmi, !.irq = test.irq]
    BY <1>3 DEF InstalledIn, Cells
  <2>3. InstalledIn(m) \in Cells
    BY <1>1, <2>1 DEF Cells
  <2> QED
    BY <1>1, <2>1, <2>2, <2>3 DEF Cells
<1> QED
  BY <1>1, <1>2, <1>3 DEF Starts

-----------------------------------------------------------------------------
(***************************************************************************)
(* The steps of the runner: a loop goes on, reaches its goal, or is out of   *)
(* steps.                                                                    *)
(***************************************************************************)
Limit == IF stage \in {"to fetch", "to boot"} THEN FetchSteps
         ELSE IF stage = "to start" THEN BootSteps ELSE RestartSteps

GoalReached == \/ stage = "to boot" /\ cpu.at = "boot"
               \/ stage = "to start" /\ cpu.at = test.start
               \/ stage = "to safe" /\ cpu.at = "safe"
               \/ stage = "to vector" /\ cpu.at = memory.reset

Loops == {"to fetch", "to boot", "to start", "to safe", "to vector"}

Goes == /\ stage \in Loops /\ ~GoalReached /\ steps < Limit
        /\ stage = "to fetch" => cpu'.at = NoFetch
        /\ Step /\ GoOn

Fetched == /\ stage = "to fetch" /\ steps < Limit
           /\ \E c \in StepOf(cpu, memory, test.start) :
                c.at # NoFetch /\ cpu' = WithNmi(c, TRUE)
           /\ Enter("to boot")
           /\ UNCHANGED <<memory, test, attempt, patch, result, restarting>>

Boots == stage = "to boot" /\ GoalReached /\ Entered
Succeeds == stage = "to start" /\ GoalReached /\ Return("ready")
ComesBack == stage = "to vector" /\ GoalReached /\ Return("restarted")
TriesAgain == /\ stage = "to safe" /\ GoalReached /\ BeginSoft(memory)
              /\ attempt' = 2
              /\ UNCHANGED <<test, patch, result>>
TimesOut == /\ stage \in {"to fetch", "to boot", "to start"}
            /\ ~GoalReached /\ ~(steps < Limit) /\ SoftFails
GivesUp == /\ stage \in {"to safe", "to vector"}
           /\ ~GoalReached /\ ~(steps < Limit) /\ Return("failed")

LEMMA Kinds ==
  ASSUME Next
  PROVE  \/ Host \/ SetUp \/ SetUpWithoutTest
         \/ Goes \/ Fetched \/ Boots \/ Succeeds \/ ComesBack \/ TriesAgain
         \/ TimesOut \/ GivesUp
<1>1. CASE ToFetch
  <2>0. stage = "to fetch" /\ ~GoalReached /\ Limit = FetchSteps
    BY <1>1 DEF ToFetch, GoalReached, Limit
  <2>1. CASE steps < FetchSteps
    <3>1. PICK c \in StepOf(cpu, memory, test.start) :
            IF AtFetch(c)
            THEN /\ cpu' = WithNmi(c, TRUE)
                 /\ Enter("to boot")
                 /\ UNCHANGED <<memory, test, attempt, patch, result, restarting>>
            ELSE cpu' = c /\ GoOn
      BY <1>1, <2>1 DEF ToFetch
    <3>2. CASE AtFetch(c)
      BY <2>0, <2>1, <3>1, <3>2 DEF Fetched, AtFetch
    <3>3. CASE ~AtFetch(c)
      BY <2>0, <2>1, <3>1, <3>3 DEF Goes, Loops, AtFetch, Step
    <3> QED
      BY <3>2, <3>3
  <2>2. CASE ~(steps < FetchSteps)
    BY <1>1, <2>0, <2>2 DEF ToFetch, TimesOut
  <2> QED
    BY <2>1, <2>2
<1>2. CASE ToBoot
  <2>0. stage = "to boot" /\ (GoalReached <=> AtFetchOf(cpu, "boot")) /\ Limit = FetchSteps
    BY <1>2 DEF ToBoot, GoalReached, Limit, AtFetchOf
  <2>1. CASE AtFetchOf(cpu, "boot")
    BY <1>2, <2>0, <2>1, Zenon DEF ToBoot, Boots
  <2>2. CASE ~AtFetchOf(cpu, "boot") /\ steps < FetchSteps
    <3>1. GoOn /\ Step
      BY <1>2, <2>2, Zenon DEF ToBoot
    <3> QED
      BY <2>0, <2>2, <3>1 DEF Goes, Loops
  <2>3. CASE ~AtFetchOf(cpu, "boot") /\ ~(steps < FetchSteps)
    <3>1. SoftFails
      BY <1>2, <2>3, Zenon DEF ToBoot
    <3> QED
      BY <2>0, <2>3, <3>1 DEF TimesOut
  <2> QED
    BY <2>1, <2>2, <2>3
<1>3. CASE ToStart
  <2>0. stage = "to start" /\ (GoalReached <=> AtFetchOf(cpu, test.start)) /\ Limit = BootSteps
    BY <1>3 DEF ToStart, GoalReached, Limit, AtFetchOf
  <2>1. CASE AtFetchOf(cpu, test.start)
    BY <1>3, <2>0, <2>1, Zenon DEF ToStart, Succeeds
  <2>2. CASE ~AtFetchOf(cpu, test.start) /\ steps < BootSteps
    <3>1. GoOn /\ Step
      BY <1>3, <2>2, Zenon DEF ToStart
    <3> QED
      BY <2>0, <2>2, <3>1 DEF Goes, Loops
  <2>3. CASE ~AtFetchOf(cpu, test.start) /\ ~(steps < BootSteps)
    <3>1. SoftFails
      BY <1>3, <2>3, Zenon DEF ToStart
    <3> QED
      BY <2>0, <2>3, <3>1 DEF TimesOut
  <2> QED
    BY <2>1, <2>2, <2>3
<1>4. CASE ToSafe
  <2>0. stage = "to safe" /\ (GoalReached <=> AtFetchOf(cpu, "safe")) /\ Limit = RestartSteps
    BY <1>4 DEF ToSafe, GoalReached, Limit, AtFetchOf
  <2>1. CASE AtFetchOf(cpu, "safe")
    <3>1. BeginSoft(memory) /\ attempt' = 2 /\ UNCHANGED <<test, patch, result>>
      BY <1>4, <2>1, Zenon DEF ToSafe
    <3> QED
      BY <2>0, <2>1, <3>1 DEF TriesAgain
  <2>2. CASE ~AtFetchOf(cpu, "safe") /\ steps < RestartSteps
    <3>1. GoOn /\ Step
      BY <1>4, <2>2, Zenon DEF ToSafe
    <3> QED
      BY <2>0, <2>2, <3>1 DEF Goes, Loops
  <2>3. CASE ~AtFetchOf(cpu, "safe") /\ ~(steps < RestartSteps)
    <3>1. Return("failed")
      BY <1>4, <2>3, Zenon DEF ToSafe
    <3> QED
      BY <2>0, <2>3, <3>1 DEF GivesUp
  <2> QED
    BY <2>1, <2>2, <2>3
<1>5. CASE ToVector
  <2>0. stage = "to vector" /\ (GoalReached <=> AtFetchOf(cpu, memory.reset)) /\ Limit = RestartSteps
    BY <1>5 DEF ToVector, GoalReached, Limit, AtFetchOf
  <2>1. CASE AtFetchOf(cpu, memory.reset)
    BY <1>5, <2>0, <2>1, Zenon DEF ToVector, ComesBack
  <2>2. CASE ~AtFetchOf(cpu, memory.reset) /\ steps < RestartSteps
    <3>1. GoOn /\ Step
      BY <1>5, <2>2, Zenon DEF ToVector
    <3> QED
      BY <2>0, <2>2, <3>1 DEF Goes, Loops
  <2>3. CASE ~AtFetchOf(cpu, memory.reset) /\ ~(steps < RestartSteps)
    <3>1. Return("failed")
      BY <1>5, <2>3, Zenon DEF ToVector
    <3> QED
      BY <2>0, <2>3, <3>1 DEF GivesUp
  <2> QED
    BY <2>1, <2>2, <2>3
<1> QED
  BY <1>1, <1>2, <1>3, <1>4, <1>5 DEF Next
-----------------------------------------------------------------------------
(***************************************************************************)
(* Memory.  The NOPs are in it only while the patch that takes them out is    *)
(* active; the patch is active only from the hard restart to the bootstrap.   *)
(***************************************************************************)
MemoryInv ==
  /\ memory \in Cells /\ test \in Tests /\ patch \in Patches
  /\ memory.safe = "nops" => patch.active
  /\ patch.active => stage = "to safe" \/ (attempt = 2 /\ stage \in {"to fetch", "to boot"})
  /\ result = "ready" => stage = "idle"
  /\ stage = "to start" \/ result = "ready" => memory = InstalledIn(memory)
  /\ stage \in {"to fetch", "to boot", "to start"} => memory.boot = "bootstrap"

CpuInv == cpu \in Cpus /\ Sound(cpu)

TypeInv == MemoryInv /\ CpuInv

LEMMA InactivePatch == Inactive \in Patches /\ ~Inactive.active
BY DEF Inactive, Patches, Places, Elsewhere

LEMMA RestartedCpu == Restarted \in Cpus /\ Sound(Restarted)
BY MaxLenAssumption DEF Restarted, Cpus, Sound, Places, Elsewhere, NoFetch

LEMMA PinFields ==
  ASSUME NEW c \in Cpus, Sound(c), NEW level \in BOOLEAN
  PROVE  /\ WithNmi(c, level) \in Cpus /\ Sound(WithNmi(c, level)) /\ Rest(c, WithNmi(c, level))
         /\ WithNmi(c, level).nmi = level /\ WithNmi(c, level).irq = c.irq
         /\ WithNmi(c, level).edge = c.edge /\ WithNmi(c, level).sampled = c.sampled
         /\ WithNmi(c, level).polled = c.polled
         /\ WithIrq(c, level) \in Cpus /\ Sound(WithIrq(c, level)) /\ Rest(c, WithIrq(c, level))
         /\ WithIrq(c, level).irq = level /\ WithIrq(c, level).nmi = c.nmi
         /\ WithIrq(c, level).edge = c.edge /\ WithIrq(c, level).sampled = c.sampled
         /\ WithIrq(c, level).polled = c.polled
BY DEF WithNmi, WithIrq, Cpus, Sound, Rest

LEMMA ReleasedFields ==
  ASSUME NEW c \in Cpus, Sound(c)
  PROVE  /\ Released(c) \in Cpus /\ Sound(Released(c)) /\ Rest(c, Released(c))
         /\ ~Released(c).nmi /\ ~Released(c).irq
         /\ Released(c).edge = c.edge /\ Released(c).sampled = c.sampled
         /\ Released(c).polled = c.polled
BY DEF Released, WithNmi, WithIrq, Cpus, Sound, Rest

LEMMA InitType == Init => TypeInv
<1>1. ASSUME Init PROVE TypeInv
  <2>1. memory \in Cells /\ memory.safe = "other"
    BY <1>1, BlankCells DEF Init
  <2>2. patch \in Patches /\ ~patch.active
    BY <1>1, InactivePatch DEF Init
  <2>3. cpu \in Cpus /\ Sound(cpu)
    BY <1>1, RestartedCpu DEF Init
  <2> QED
    BY <1>1, <2>1, <2>2, <2>3 DEF Init, TypeInv, MemoryInv, CpuInv
<1> QED
  BY <1>1

LEMMA StepType ==
  ASSUME TypeInv, NEW c \in StepOf(cpu, memory, test.start)
  PROVE  c \in Cpus /\ Sound(c) /\ Moved(cpu, c, memory, test.start)
BY Steps, TestFields DEF TypeInv, MemoryInv, CpuInv

LEMMA NextType ==
  ASSUME TypeInv, [Next]_vars
  PROVE  TypeInv'
<1> USE DEF TypeInv
<1>1. /\ memory \in Cells /\ test \in Tests /\ patch \in Patches
      /\ memory.safe = "nops" => patch.active
      /\ cpu \in Cpus /\ Sound(cpu)
  BY DEF MemoryInv, CpuInv
<1>2. CASE Host
  <2>1. cpu' \in Cpus /\ Sound(cpu')
    BY <1>1, <1>2, StepType, PinFields DEF Host
  <2> QED
    BY <1>1, <1>2, <2>1 DEF Host, MemoryInv, CpuInv
<1>3. CASE SetUp
  <2>1. PICK m \in {Blank, Older(memory)} : BeginSoft(m)
    BY <1>3 DEF SetUp
  <2>2. m \in Cells /\ (m.safe = "nops" => memory.safe = "nops")
    BY <1>1, <2>1, BlankCells, OlderCells
  <2>3. memory' \in Cells /\ memory'.boot = "bootstrap" /\ memory'.safe = m.safe
    BY <2>1, <2>2, BootstrapCells DEF BeginSoft
  <2>4. cpu' \in Cpus /\ Sound(cpu')
    BY <1>1, <2>1, ReleasedFields DEF BeginSoft
  <2>5. ~patch.active
    BY <1>3 DEF SetUp, MemoryInv
  <2> QED
    BY <1>1, <1>3, <2>1, <2>2, <2>3, <2>4, <2>5 DEF SetUp, BeginSoft, Enter, MemoryInv, CpuInv
<1>4. CASE SetUpWithoutTest
  <2>1. memory' \in Cells /\ memory'.safe # "nops" /\ ~patch.active
    BY <1>1, <1>4, BlankCells DEF SetUpWithoutTest, MemoryInv
  <2>2. cpu' \in Cpus /\ Sound(cpu')
    BY <1>4, RestartedCpu DEF SetUpWithoutTest
  <2> QED
    BY <1>1, <1>4, <2>1, <2>2 DEF SetUpWithoutTest, Enter, MemoryInv, CpuInv
<1>5. CASE Goes
  <2>1. cpu' \in Cpus /\ Sound(cpu')
    BY <1>5, StepType DEF Goes, Step
  <2> QED
    BY <1>1, <1>5, <2>1 DEF Goes, GoOn, Loops, MemoryInv, CpuInv, InstalledIn
<1>6. CASE Fetched
  <2>1. cpu' \in Cpus /\ Sound(cpu')
    <3>1. PICK c \in StepOf(cpu, memory, test.start) : cpu' = WithNmi(c, TRUE)
      BY <1>6 DEF Fetched
    <3>2. c \in Cpus /\ Sound(c)
      BY StepType
    <3> QED
      BY <3>1, <3>2, PinFields
  <2> QED
    BY <1>1, <1>6, <2>1 DEF Fetched, Enter, MemoryInv, CpuInv
<1>7. CASE Boots
  <2>1. cpu' \in Cpus /\ Sound(cpu')
    BY <1>1, <1>7, PinFields DEF Boots, Entered
  <2> DEFINE m == RestoredIn(memory)
  <2>2. m \in Cells /\ m.safe # "nops" /\ m.boot = memory.boot
    BY <1>1, RestoredCells
  <2> HIDE DEF m
  <2>3. memory' = InstalledIn(m) /\ test' = test
    BY <1>7 DEF Boots, Entered, m
  <2>4. /\ memory' \in Cells /\ memory'.safe # "nops" /\ memory'.boot = m.boot
        /\ InstalledIn(memory') = memory'
    BY <1>1, <2>2, <2>3, InstalledCells
  <2>5. InstalledIn(memory)' = memory'
    BY <2>3, <2>4 DEF InstalledIn
  <2>6. patch' \in Patches /\ ~patch'.active
    BY <1>7, InactivePatch DEF Boots, Entered, Restore
  <2> QED
    BY <1>1, <1>7, <2>1, <2>2, <2>3, <2>4, <2>5, <2>6
       DEF Boots, Entered, Enter, MemoryInv, CpuInv
<1>8. ASSUME NEW what, Return(what), stage \in Loops,
             what = "ready" => stage = "to start"
      PROVE  TypeInv'
  <2>1. memory' \in Cells /\ memory'.safe # "nops" /\ (~patch.active => memory' = memory)
    BY <1>1, <1>8, RestoredCells DEF Return
  <2>2. patch' \in Patches /\ ~patch'.active
    BY <1>8, InactivePatch DEF Return, Restore
  <2>3. stage = "to start" => InstalledIn(memory)' = memory'
    BY <1>8, <2>1 DEF MemoryInv, Return, InstalledIn
  <2> QED
    BY <1>1, <1>8, <2>1, <2>2, <2>3 DEF Return, Enter, MemoryInv, CpuInv
<1>9. CASE Succeeds \/ ComesBack \/ GivesUp
  BY <1>8, <1>9 DEF Succeeds, ComesBack, GivesUp, Loops
<1>10. CASE TriesAgain
  <2>1. memory' \in Cells /\ memory'.boot = "bootstrap" /\ memory'.safe = memory.safe
    BY <1>1, <1>10, BootstrapCells DEF TriesAgain, BeginSoft
  <2>2. cpu' \in Cpus /\ Sound(cpu')
    BY <1>1, <1>10, ReleasedFields DEF TriesAgain, BeginSoft
  <2> QED
    BY <1>1, <1>10, <2>1, <2>2 DEF TriesAgain, BeginSoft, Enter, MemoryInv, CpuInv
<1>11. CASE TimesOut /\ attempt = 1
  <2>1. HardRestart
    BY <1>11 DEF TimesOut, SoftFails
  <2>2. memory' \in Cells /\ cpu' \in Cpus /\ Sound(cpu')
    BY <1>1, <2>1, StubCells, RestartedCpu DEF HardRestart
  <2>3. ~patch.active
    <3>1. attempt # 2
      BY <1>11
    <3>2. stage # "to safe"
      BY <1>11 DEF TimesOut
    <3>3. patch.active => stage = "to safe" \/ (attempt = 2 /\ stage \in {"to fetch", "to boot"})
      BY Zenon DEF MemoryInv
    <3> QED
      BY <3>1, <3>2, <3>3
  <2>4. patch' \in Patches /\ patch'.active
    BY <1>1, <2>1, <2>3 DEF HardRestart, Saved, Patches, Cells
  <2> QED
    BY <1>1, <1>11, <2>1, <2>2, <2>4 DEF TimesOut, HardRestart, Enter, MemoryInv, CpuInv
<1>12. CASE TimesOut /\ attempt # 1
  <2>1. /\ memory' = RestoredIn(memory)
        /\ Restore
        /\ cpu' = WithNmi(cpu, FALSE)
        /\ result' = "failed"
        /\ Enter("idle")
        /\ UNCHANGED <<test, attempt, restarting>>
    BY <1>12 DEF TimesOut, SoftFails
  <2>2. memory' \in Cells /\ memory'.safe # "nops"
    BY <1>1, <2>1, RestoredCells
  <2>3. patch' \in Patches /\ ~patch'.active
    BY <2>1, InactivePatch DEF Restore
  <2>4. cpu' \in Cpus /\ Sound(cpu')
    BY <1>1, <2>1, PinFields
  <2> QED
    BY <1>1, <2>1, <2>2, <2>3, <2>4 DEF Enter, MemoryInv, CpuInv
<1>13. CASE UNCHANGED vars
  BY <1>1, <1>13 DEF vars, MemoryInv, CpuInv, InstalledIn
<1> QED
  BY <1>2, <1>3, <1>4, <1>5, <1>6, <1>7, <1>9, <1>10, <1>11, <1>12, <1>13, Kinds

LEMMA TypeInvariant == Spec => []TypeInv
<1>1. Init => TypeInv
  BY InitType
<1>2. TypeInv /\ [Next]_vars => TypeInv'
  BY NextType
<1> QED
  BY <1>1, <1>2, PTL DEF Spec

\* Outside a set-up memory holds none of the runner's NOPs, no patch is left to be
\* written over a later program, and after success the test is in place: on every
\* path through setup_and_run, also the ones that fail, and for any bounds.
THEOREM MemoryStaysInOrder == Spec => []MemoryInOrder
<1>1. TypeInv => MemoryInOrder
  BY DEF TypeInv, MemoryInv, MemoryInOrder
<1> QED
  BY <1>1, TypeInvariant, PTL
-----------------------------------------------------------------------------
(***************************************************************************)
(* The bootstrap and the test's first instruction.  From the first fetch of   *)
(* the bootstrap on nothing is pending, unless the CPU came there out of its   *)
(* restart sequence: then the NMI may be, and is served after one instruction. *)
(***************************************************************************)
Settled(c) == ~c.edge /\ ~c.polled /\ ~c.due /\ ~c.discards

Waiting(c) ==
  /\ c.edge /\ ~c.polled
  /\ \/ c.doing = "code" /\ c.at = NoFetch /\ c.due /\ c.goes = "boot rest"
     \/ c.at = "boot rest" /\ c.discards
     \/ c.doing = "service" /\ c.at = NoFetch /\ ~c.due

\* Only the bootstrap has run since its first fetch.
OnItsWay(c) ==
  \/ c.at \in {"boot", "boot rest", test.start} /\ ~c.discards
  \/ c.doing = "code" /\ c.at = NoFetch /\ c.goes \in {"boot rest", test.start}

AtBoot(c) == c.at = "boot" => ~c.discards /\ (~c.edge \/ restarting)

Starting(c) ==
  /\ ~c.nmi /\ ~c.irq /\ c.doing # "reset"
  /\ AtBoot(c)
  /\ c.at = "boot" \/ (restarting /\ Waiting(c)) \/ Settled(c)
  /\ ~restarting => OnItsWay(c)

SetUpInv ==
  /\ stage = "to fetch" => ~cpu.nmi /\ ~cpu.irq
  /\ stage = "to boot" => cpu.nmi /\ ~cpu.irq /\ AtBoot(cpu)
  /\ stage \in {"to fetch", "to boot"} /\ ~restarting => cpu.doing # "reset"
  /\ stage = "to start" => Starting(cpu)
  /\ SetUpClean

LEMMA MovedPins ==
  ASSUME NEW c, NEW s, NEW m, NEW start, Moved(c, s, m, start)
  PROVE  /\ s.nmi = c.nmi /\ s.irq = c.irq
         /\ c.doing # "reset" => s.doing # "reset"
BY DEF Moved, Stopped, Left, Stayed, Ended, Served, WentOn, Kept, Saw

LEMMA BootstrapNext ==
  ASSUME NEW m, m.boot = "bootstrap", NEW start
  PROVE  /\ NextOf("boot", m, start) = {"boot rest"} /\ ~Foreign("boot", m)
         /\ NextOf("boot rest", m, start) = {start} /\ ~Foreign("boot rest", m)
<1>1. \A i \in 1 .. 3 : Stub[i] # "boot" /\ Stub[i] # "boot rest"
  BY StubPlaces
<1>2. ~InStub("boot", m) /\ ~InStub("boot rest", m)
  BY <1>1 DEF InStub, StubLength
<1>3. InBootstrap("boot", m) /\ InBootstrap("boot rest", m)
  BY DEF InBootstrap
<1>4. NextOf("boot", m, start) = {IF "boot" = "boot" THEN "boot rest" ELSE start}
  BY <1>2, <1>3, Zenon DEF NextOf
<1>5. NextOf("boot rest", m, start) = {IF "boot rest" = "boot" THEN "boot rest" ELSE start}
  BY <1>2, <1>3, Zenon DEF NextOf
<1> QED
  BY <1>3, <1>4, <1>5 DEF Foreign

\* Where the CPU comes to the bootstrap it is not about to be interrupted again.
LEMMA ComesToBoot ==
  ASSUME NEW c \in Cpus, Sound(c), NEW s, NEW m, NEW start, Moved(c, s, m, start),
         c.at # "boot", c.doing = "reset" => restarting
  PROVE  AtBoot(s)
<1>1. c.at = NoFetch => ~c.discards
  BY DEF Sound, Places, Elsewhere, NoFetch
<1>2. CASE Ended(c, s)
  BY <1>2 DEF Ended, AtBoot, Cpus, Places, Elsewhere, NoFetch
<1>3. CASE Served(c, s, m)
  BY <1>1, <1>3 DEF Served, AtBoot
<1>4. CASE WentOn(c, s, m)
  BY <1>1, <1>4 DEF WentOn, AtBoot
<1>5. CASE Stopped(c, s) \/ Left(c, s, m, start) \/ Stayed(c, s)
  BY <1>5 DEF Stopped, Left, Stayed, AtBoot, NoFetch
<1> QED
  BY <1>2, <1>3, <1>4, <1>5 DEF Moved

LEMMA StaysStarting ==
  ASSUME TypeInv, stage = "to start", Starting(cpu), cpu.at # test.start,
         NEW s \in Cpus, Sound(s), Moved(cpu, s, memory, test.start)
  PROVE  Starting(s)
<1>1. /\ memory.boot = "bootstrap" /\ test.start \in Starts
      /\ cpu \in Cpus /\ Sound(cpu)
  BY TestFields DEF TypeInv, MemoryInv, CpuInv
<1>2. ~s.nmi /\ ~s.irq /\ s.doing # "reset"
  BY MovedPins DEF Starting
<1>3. ~cpu.nmi /\ ~cpu.irq /\ cpu.doing # "reset"
  BY DEF Starting
<1>4. CASE Stopped(cpu, s)
  BY <1>4 DEF Stopped
<1>5. CASE Left(cpu, s, memory, test.start)
  <2>1. /\ cpu.at # NoFetch /\ s.at = NoFetch /\ ~s.discards
        /\ cpu.doing = "code" /\ ~cpu.due
    BY <1>1, <1>3, <1>5 DEF Left, Sound, Cpus
  <2>2. Saw(cpu, s)
    BY <1>3, <1>5 DEF Left
  <2>3. s.edge = cpu.edge /\ ~s.polled
    BY <1>3, <2>2, <1>1 DEF Saw, Cpus
  <2>4. AtBoot(s) /\ s.at # "boot"
    BY <2>1 DEF AtBoot, NoFetch
  <2>5. CASE cpu.at = "boot"
    <3>1. ~cpu.discards /\ (~cpu.edge \/ restarting)
      BY <2>5 DEF Starting, AtBoot
    <3>0. NextOf(cpu.at, memory, test.start) = {"boot rest"} /\ ~Foreign(cpu.at, memory)
      BY <1>1, <2>5, BootstrapNext
    <3>2. s.doing = "code" /\ s.goes = "boot rest" /\ s.due = cpu.edge
      BY <1>3, <1>5, <3>0, <3>1 DEF Left
    <3>3. (restarting /\ Waiting(s)) \/ Settled(s)
      BY <2>1, <2>3, <3>1, <3>2 DEF Waiting, Settled
    <3>4. OnItsWay(s)
      BY <2>1, <3>2 DEF OnItsWay
    <3> QED
      BY <1>2, <2>4, <3>3, <3>4 DEF Starting
  <2>6. CASE cpu.at # "boot" /\ restarting /\ Waiting(cpu)
    <3>1. cpu.at = "boot rest" /\ cpu.discards /\ cpu.edge
      BY <2>1, <2>6 DEF Waiting
    <3>2. s.doing = "service" /\ s.due = cpu.due
      BY <1>3, <1>5, <3>1 DEF Left
    <3>3. Waiting(s)
      BY <2>1, <2>3, <3>1, <3>2 DEF Waiting
    <3> QED
      BY <1>2, <2>4, <2>6, <3>3 DEF Starting
  <2>7. CASE cpu.at # "boot" /\ Settled(cpu)
    <3>1. ~s.due
      BY <1>5, <2>1, <2>7, <1>3 DEF Left, Settled
    <3>2. Settled(s)
      BY <2>1, <2>3, <2>7, <3>1 DEF Settled
    <3>3. ASSUME ~restarting PROVE OnItsWay(s)
      <4>1. cpu.at = "boot rest" /\ ~cpu.discards
        BY <2>1, <2>7, <3>3 DEF Starting, OnItsWay
      <4>2. NextOf(cpu.at, memory, test.start) = {test.start} /\ ~Foreign(cpu.at, memory)
        BY <1>1, <4>1, BootstrapNext
      <4>3. s.doing = "code" /\ s.goes = test.start
        BY <1>3, <1>5, <4>1, <4>2 DEF Left
      <4> QED
        BY <2>1, <4>3 DEF OnItsWay
    <3> QED
      BY <1>2, <2>4, <3>2, <3>3 DEF Starting
  <2> QED
    BY <2>5, <2>6, <2>7 DEF Starting
<1>6. CASE Stayed(cpu, s)
  <2>1. /\ cpu.at = NoFetch /\ s.at = cpu.at /\ s.doing = cpu.doing /\ s.goes = cpu.goes
        /\ s.due = cpu.due /\ s.discards = cpu.discards
    BY <1>6 DEF Stayed
  <2>2. s.edge = cpu.edge /\ (~cpu.polled => ~s.polled)
    BY <1>1, <1>3, <1>6 DEF Stayed, Saw, Kept, Cpus
  <2>3. cpu.at # "boot" /\ AtBoot(s)
    BY <2>1 DEF NoFetch, AtBoot
  <2>4. (restarting /\ Waiting(s)) \/ Settled(s)
    BY <2>1, <2>2, <2>3 DEF Starting, Waiting, Settled
  <2>5. ~restarting => OnItsWay(s)
    BY <2>1 DEF Starting, OnItsWay
  <2> QED
    BY <1>2, <2>3, <2>4, <2>5 DEF Starting
<1>7. CASE Ended(cpu, s)
  <2>1. /\ cpu.at = NoFetch /\ cpu.doing = "code" /\ s.at = cpu.goes /\ ~s.due
        /\ (cpu.due => s.discards)
        /\ (s.discards => cpu.due \/ cpu.edge \/ cpu.polled \/ cpu.irq)
    BY <1>7 DEF Ended
  <2>2. s.edge = cpu.edge /\ ~s.polled
    BY <1>1, <1>3, <1>7 DEF Ended, Saw, Cpus
  <2>3. cpu.at # "boot" /\ s.at # "boot" /\ AtBoot(s)
    BY <1>1, <2>1 DEF Cpus, AtBoot, NoFetch
  <2>4. CASE restarting /\ Waiting(cpu)
    <3>1. cpu.due /\ cpu.goes = "boot rest" /\ cpu.edge
      BY <2>1, <2>4 DEF Waiting, NoFetch
    <3>2. Waiting(s)
      BY <2>1, <2>2, <3>1 DEF Waiting
    <3> QED
      BY <1>2, <2>3, <2>4, <3>2 DEF Starting
  <2>5. CASE Settled(cpu)
    <3>1. Settled(s)
      BY <1>3, <2>1, <2>2, <2>5 DEF Settled
    <3>2. ~restarting => OnItsWay(s)
      BY <1>1, <2>1, <3>1 DEF Starting, OnItsWay, Settled, Starts, NoFetch
    <3> QED
      BY <1>2, <2>3, <3>1, <3>2 DEF Starting
  <2> QED
    BY <2>3, <2>4, <2>5 DEF Starting
<1>8. CASE Served(cpu, s, memory)
  <2>1. /\ cpu.at = NoFetch /\ cpu.doing = "service" /\ ~s.edge /\ ~s.due
        /\ s.discards = cpu.discards /\ s.polled \in {cpu.polled, cpu.irq}
    BY <1>8 DEF Served
  <2>2. cpu.at # "boot" /\ ~cpu.discards
    BY <1>1, <2>1 DEF Sound, Places, Elsewhere, NoFetch
  <2>3. ~cpu.polled
    BY <2>2 DEF Starting, Waiting, Settled
  <2>4. Settled(s)
    BY <1>3, <2>1, <2>2, <2>3 DEF Settled
  <2>5. restarting
    BY <1>1, <2>1 DEF Starting, OnItsWay, Starts, NoFetch
  <2> QED
    BY <1>2, <2>4, <2>5 DEF Starting, AtBoot, Settled
<1>9. ~WentOn(cpu, s, memory)
  BY <1>3 DEF WentOn
<1> QED
  BY <1>4, <1>5, <1>6, <1>7, <1>8, <1>9 DEF Moved

LEMMA NextSetUp ==
  ASSUME TypeInv, SetUpInv, [Next]_vars
  PROVE  SetUpInv'
<1>1. /\ cpu \in Cpus /\ Sound(cpu) /\ test.start \in Starts
  BY TestFields DEF TypeInv, MemoryInv, CpuInv
<1>2. ASSUME stage' \notin {"to fetch", "to boot", "to start"}, result' # "ready"
      PROVE  SetUpInv'
  BY <1>2 DEF SetUpInv, SetUpClean
<1>3. CASE Host
  BY <1>2, <1>3 DEF Host
<1>4. CASE SetUpWithoutTest
  BY <1>2, <1>4 DEF SetUpWithoutTest, Enter
<1>5. ASSUME NEW m, BeginSoft(m), result' # "ready"
      PROVE  SetUpInv'
  <2>1. /\ stage' = "to fetch" /\ cpu' = Released(cpu) /\ restarting' = (cpu.doing = "reset")
    BY <1>5 DEF BeginSoft, Enter
  <2>2. ~cpu'.nmi /\ ~cpu'.irq /\ cpu'.doing = cpu.doing
    BY <1>1, <2>1, ReleasedFields DEF Rest
  <2> QED
    BY <1>5, <2>1, <2>2 DEF SetUpInv, SetUpClean
<1>6. CASE SetUp
  BY <1>5, <1>6 DEF SetUp
<1>7. CASE TriesAgain
  <2>1. result # "ready"
    BY <1>7 DEF TriesAgain, TypeInv, MemoryInv
  <2> QED
    BY <1>5, <1>7, <2>1 DEF TriesAgain
<1>8. CASE Goes
  <2>1. cpu' \in Cpus /\ Sound(cpu') /\ Moved(cpu, cpu', memory, test.start)
    BY <1>8, StepType DEF Goes, Step
  <2>2. /\ stage \in Loops /\ stage' = stage /\ restarting' = restarting /\ test' = test
        /\ result' = result /\ ~GoalReached
    BY <1>8 DEF Goes, GoOn
  <2>3. result' # "ready"
    BY <2>2 DEF Loops, TypeInv, MemoryInv
  <2>4. cpu'.nmi = cpu.nmi /\ cpu'.irq = cpu.irq /\ (cpu.doing # "reset" => cpu'.doing # "reset")
    BY <2>1, MovedPins
  <2>5. CASE stage = "to fetch"
    BY <2>2, <2>3, <2>4, <2>5 DEF SetUpInv, SetUpClean
  <2>6. CASE stage = "to boot"
    <3>1. AtBoot(cpu')
      BY <1>1, <2>1, <2>2, <2>6, ComesToBoot DEF SetUpInv, GoalReached
    <3>2. AtBoot(cpu)'
      BY <2>2, <3>1 DEF AtBoot
    <3> QED
      BY <2>2, <2>3, <2>4, <2>6, <3>2 DEF SetUpInv, SetUpClean
  <2>7. CASE stage = "to start"
    <3>1. Starting(cpu')
      BY <1>1, <2>1, <2>2, <2>7, StaysStarting DEF SetUpInv, GoalReached
    <3>2. Starting(cpu)'
      BY <2>2, <3>1 DEF Starting, AtBoot, Waiting, Settled, OnItsWay
    <3> QED
      BY <2>2, <2>3, <2>7, <3>2 DEF SetUpInv, SetUpClean
  <2>8. CASE stage \in {"to safe", "to vector"}
    BY <1>2, <2>2, <2>3, <2>8
  <2> QED
    BY <2>2, <2>5, <2>6, <2>7, <2>8 DEF Loops
<1>9. CASE Fetched
  <2>1. PICK c \in StepOf(cpu, memory, test.start) : c.at # NoFetch /\ cpu' = WithNmi(c, TRUE)
    BY <1>9 DEF Fetched
  <2>2. c \in Cpus /\ Sound(c) /\ Moved(cpu, c, memory, test.start)
    BY StepType
  <2>3. /\ stage = "to fetch" /\ stage' = "to boot" /\ restarting' = restarting
        /\ result' = result /\ result' # "ready"
    BY <1>9 DEF Fetched, Enter, TypeInv, MemoryInv
  <2>4. c.irq = cpu.irq /\ (cpu.doing # "reset" => c.doing # "reset")
    BY <2>2, MovedPins
  <2>5. /\ cpu'.nmi = TRUE /\ cpu'.irq = c.irq /\ cpu'.edge = c.edge
        /\ Rest(c, cpu')
    BY <2>1, <2>2, PinFields
  <2>6. AtBoot(c)
    <3>1. CASE cpu.at = "boot"
      <4>1. cpu.doing = "code"
        BY <1>1, <3>1 DEF Sound, Places
      <4> QED
        BY <2>1, <2>2, <3>1, <4>1
           DEF Moved, Stopped, Left, Stayed, Ended, Served, WentOn, NoFetch
    <3>2. CASE cpu.at # "boot"
      BY <1>1, <2>2, <2>3, <3>2, ComesToBoot DEF SetUpInv
    <3> QED
      BY <3>1, <3>2
  <2>7. AtBoot(cpu)'
    BY <2>3, <2>5, <2>6 DEF AtBoot, Rest
  <2>8. ~restarting => cpu'.doing # "reset"
    BY <2>3, <2>4, <2>5 DEF SetUpInv, Rest
  <2> QED
    BY <2>3, <2>4, <2>5, <2>7, <2>8 DEF SetUpInv, SetUpClean
<1>10. CASE Boots
  <2>1. /\ stage = "to boot" /\ cpu.at = "boot" /\ cpu' = WithNmi(cpu, FALSE)
        /\ stage' = "to start" /\ restarting' = restarting /\ test' = test /\ result' = result
    BY <1>10 DEF Boots, GoalReached, Entered, Enter
  <2>2. /\ ~cpu'.nmi /\ cpu'.irq = cpu.irq /\ cpu'.edge = cpu.edge /\ Rest(cpu, cpu')
    BY <1>1, <2>1, PinFields
  <2>3. cpu.doing = "code"
    BY <1>1, <2>1 DEF Sound, Places
  <2>4. ~cpu.irq /\ ~cpu.discards /\ (~cpu.edge \/ restarting)
    BY <2>1 DEF SetUpInv, AtBoot
  <2>5. Starting(cpu)'
    BY <2>1, <2>2, <2>3, <2>4 DEF Starting, AtBoot, OnItsWay, Rest
  <2>6. result' # "ready"
    BY <2>1 DEF TypeInv, MemoryInv
  <2> QED
    BY <2>1, <2>5, <2>6 DEF SetUpInv, SetUpClean
<1>11. CASE Succeeds
  <2>1. /\ stage = "to start" /\ cpu.at = test.start /\ cpu' = cpu /\ test' = test /\ stage' = "idle"
    BY <1>11 DEF Succeeds, GoalReached, Return, Enter
  <2>2. Starting(cpu) /\ cpu.at # "boot" /\ cpu.at # "boot rest" /\ cpu.at # NoFetch
        /\ cpu.doing = "code"
    BY <1>1, <2>1 DEF SetUpInv, Starts, NoFetch, Sound, Places, Elsewhere
  <2>3. Settled(cpu) /\ ~cpu.nmi /\ ~cpu.irq
    BY <2>2 DEF Starting, Waiting
  <2> QED
    BY <2>1, <2>2, <2>3 DEF SetUpInv, SetUpClean, Settled, AtFetchOf
<1>12. CASE ComesBack \/ GivesUp
  BY <1>2, <1>12 DEF ComesBack, GivesUp, Return, Enter
<1>13. CASE TimesOut
  <2>1. result # "ready"
    BY <1>13 DEF TimesOut, TypeInv, MemoryInv
  <2> QED
    BY <1>2, <1>13, <2>1 DEF TimesOut, SoftFails, HardRestart, Enter
<1>14. CASE UNCHANGED vars
  BY <1>14 DEF vars, SetUpInv, SetUpClean, Starting, AtBoot, Waiting, Settled, OnItsWay
<1> QED
  BY <1>3, <1>4, <1>6, <1>7, <1>8, <1>9, <1>10, <1>11, <1>12, <1>13, <1>14, Kinds

LEMMA SetUpInvariant == Spec => []SetUpInv
<1>1. Init => SetUpInv
  BY DEF Init, SetUpInv, SetUpClean
<1>2. TypeInv /\ SetUpInv /\ [Next]_vars => SetUpInv'
  BY NextSetUp
<1> QED
  BY <1>1, <1>2, TypeInvariant, PTL DEF Spec

\* A set-up that succeeds leaves the CPU at the fetch of start_at, with both pins
\* released and no interrupt under way or waiting, whatever the CPU was doing, which
\* backend it is, how long its instructions are and which path was taken.
THEOREM SetUpsAreClean == Spec => []SetUpClean
<1>1. SetUpInv => SetUpClean
  BY DEF SetUpInv
<1> QED
  BY <1>1, SetUpInvariant, PTL

\* From its first fetch to the test's, the bootstrap is not interrupted, except in an
\* attempt that caught the CPU in its restart sequence.
THEOREM BootstrapRunsAlone == Spec => []BootstrapUndisturbed
<1>1. TypeInv /\ SetUpInv => BootstrapUndisturbed
  <2>1. ASSUME TypeInv, SetUpInv, stage = "to start", ~restarting
        PROVE  /\ cpu.doing = "code"
               /\ AtFetch(cpu) => cpu.at \in {"boot", "boot rest", test.start} /\ ~cpu.discards
               /\ ~AtFetch(cpu) => cpu.goes \in {"boot rest", test.start}
    <3>1. Sound(cpu) /\ OnItsWay(cpu) /\ test.start \in Starts
      BY <2>1, TestFields DEF TypeInv, CpuInv, MemoryInv, SetUpInv, Starting
    <3> QED
      BY <3>1 DEF OnItsWay, Sound, AtFetch, NoFetch, Places, Elsewhere, Starts
  <2> QED
    BY <2>1 DEF BootstrapUndisturbed
<1> QED
  BY <1>1, TypeInvariant, SetUpInvariant, PTL
-----------------------------------------------------------------------------
(***************************************************************************)
(* Success.  A first attempt may run out of steps; after the hard restart     *)
(* each loop reaches its goal within a fixed number of fetches, and the       *)
(* bounds allow for that many instructions of any length.                    *)
(***************************************************************************)
EnoughSteps == /\ FetchSteps >= 3 * (MaxLen + 1)
               /\ BootSteps >= 2 * (MaxLen + 1)
               /\ RestartSteps >= 2 * (MaxLen + 1)

Running(c, to) == c.doing = "code" /\ c.at = NoFetch /\ c.goes = to

\* The loop has come past k fetches and is on its way to the next.
Past(c, k) == steps <= k * (MaxLen + 1) + c.length
Fetching(k) == steps <= k * (MaxLen + 1)

Still(c) == ~c.nmi /\ ~c.irq /\ ~c.sampled /\ ~c.edge /\ ~c.polled

Restarting(c) ==
  /\ Still(c) /\ ~c.due /\ ~c.discards
  /\ \/ c.doing = "reset" /\ c.at = NoFetch /\ c.goes = NoFetch /\ Past(c, 0)
     \/ c.at = "fake" /\ Fetching(1)
     \/ c.doing = "reset" /\ c.at = NoFetch /\ c.goes = "vector" /\ Past(c, 1)
     \/ c.at = memory.reset

ToNops(c) ==
  /\ Still(c) /\ ~c.due /\ ~c.discards
  /\ \/ c.at = "safe" /\ steps = 0
     \/ Running(c, "safe+1") /\ Past(c, 0)

ToNmi(c) ==
  /\ c.nmi /\ ~c.irq /\ ~c.polled
  /\ \/ c.at = "safe+1" /\ ~c.sampled /\ ~c.discards /\ steps = 0
     \/ Running(c, "safe+2") /\ c.edge /\ Past(c, 0)
     \/ c.at = "safe+2" /\ c.edge /\ Fetching(1)
     \/ Running(c, "wild") /\ c.edge /\ c.due /\ Past(c, 1)
     \/ c.at = "wild" /\ c.edge /\ c.discards /\ Fetching(2)
     \/ c.doing = "service" /\ c.at = NoFetch /\ c.edge /\ Past(c, 2)
     \/ c.at = "boot"

ToTest(c) ==
  \/ c.at = "boot" /\ steps = 0
  \/ Running(c, "boot rest") /\ Past(c, 0)
  \/ c.at = "boot rest" /\ Fetching(1)
  \/ Running(c, test.start) /\ Past(c, 1)
  \/ c.at = test.start

SuccessInv ==
  /\ result # "failed" /\ steps \in Nat /\ attempt \in {1, 2}
  /\ stage \in {"to safe", "to vector"} => Restarting(cpu)
  /\ stage = "to safe" => memory.safe = "nops" /\ memory.reset = "safe"
  /\ attempt = 2 /\ stage \in {"to fetch", "to boot"} => memory.safe = "nops" /\ memory.nmi = "boot"
  /\ attempt = 2 /\ stage = "to fetch" => ToNops(cpu)
  /\ attempt = 2 /\ stage = "to boot" => ToNmi(cpu)
  /\ attempt = 2 /\ stage = "to start" => ToTest(cpu)
  /\ attempt = 2 /\ stage \in {"to fetch", "to boot", "to start"} => ~restarting

LEMMA StubNext ==
  ASSUME NEW m, m.safe = "nops", NEW start
  PROVE  /\ NextOf("safe", m, start) = {"safe+1"} /\ ~Foreign("safe", m)
         /\ NextOf("safe+1", m, start) = {"safe+2"} /\ ~Foreign("safe+1", m)
         /\ NextOf("safe+2", m, start) = {"wild"} /\ ~Foreign("safe+2", m)
<1>1. Stub[1] = "safe" /\ Stub[2] = "safe+1" /\ Stub[3] = "safe+2" /\ Stub[4] = "wild"
  BY DEF Stub
<1>2. \A i \in 1 .. 3 : i = 1 \/ i = 2 \/ i = 3
  OBVIOUS
<1>3. InStub("safe", m) /\ InStub("safe+1", m) /\ InStub("safe+2", m)
  BY <1>1 DEF InStub, StubLength
<1>4. /\ ~InBootstrap("safe", m) /\ ~InBootstrap("safe+1", m) /\ ~InBootstrap("safe+2", m)
  BY DEF InBootstrap
<1>5. NextOf("safe", m, start) = {Stub[i + 1] : i \in {j \in 1 .. 3 : Stub[j] = "safe"}}
  BY <1>3, <1>4, Zenon DEF NextOf
<1>6. NextOf("safe+1", m, start) = {Stub[i + 1] : i \in {j \in 1 .. 3 : Stub[j] = "safe+1"}}
  BY <1>3, <1>4, Zenon DEF NextOf
<1>7. NextOf("safe+2", m, start) = {Stub[i + 1] : i \in {j \in 1 .. 3 : Stub[j] = "safe+2"}}
  BY <1>3, <1>4, Zenon DEF NextOf
<1>8. /\ {j \in 1 .. 3 : Stub[j] = "safe"} = {1}
      /\ {j \in 1 .. 3 : Stub[j] = "safe+1"} = {2}
      /\ {j \in 1 .. 3 : Stub[j] = "safe+2"} = {3}
  BY <1>1, <1>2
<1> QED
  BY <1>1, <1>3, <1>5, <1>6, <1>7, <1>8 DEF Foreign

\* One step of each loop after the restart.
LEMMA StepRestarting ==
  ASSUME TypeInv, steps \in Nat, Restarting(cpu), cpu.at # memory.reset,
         Goes
  PROVE  Restarting(cpu)' /\ steps < 2 * (MaxLen + 1)
<1>1. /\ cpu \in Cpus /\ Sound(cpu) /\ memory \in Cells /\ memory.reset \in Places
      /\ MaxLen \in Nat \ {0}
  BY MaxLenAssumption DEF TypeInv, MemoryInv, CpuInv, Cells
<1>2. /\ cpu' \in Cpus /\ Sound(cpu') /\ Moved(cpu, cpu', memory, test.start)
      /\ steps' = steps + 1 /\ memory' = memory
  BY StepType DEF Goes, Step, GoOn
<1>3. cpu.length \in Nat /\ cpu.length <= MaxLen /\ cpu.doing = "reset" /\ ~cpu.due /\ ~cpu.discards
  <2>1. cpu.length \in 0 .. MaxLen
    BY <1>1 DEF Cpus
  <2>2. cpu.doing = "reset" /\ ~cpu.due /\ ~cpu.discards
    BY <1>1 DEF Restarting, Sound
  <2> QED
    BY <1>1, <2>1, <2>2
<1>4. ASSUME Kept(cpu, cpu') \/ Saw(cpu, cpu') PROVE Still(cpu')
  BY <1>1, <1>4 DEF Still, Restarting, Kept, Saw, Cpus
<1>5. steps < 2 * (MaxLen + 1)
  BY <1>1, <1>3 DEF Restarting, Past, Fetching
<1>6. CASE Left(cpu, cpu', memory, test.start)
  <2>1. /\ cpu.at # NoFetch /\ cpu'.at = NoFetch /\ cpu'.length = 1 /\ ~cpu'.discards
        /\ cpu'.doing = "reset" /\ cpu'.goes = cpu.goes /\ ~cpu'.due
    BY <1>3, <1>6 DEF Left
  <2>2. Still(cpu')
    BY <1>3, <1>4, <1>6 DEF Left
  <2>3. cpu.at = "fake" /\ steps <= 1 * (MaxLen + 1) /\ cpu.goes = "vector"
    BY <1>1, <2>1 DEF Restarting, Fetching, Sound
  <2>4. steps' <= 1 * (MaxLen + 1) + cpu'.length
    BY <1>1, <1>2, <2>1, <2>3
  <2> QED
    BY <1>5, <2>1, <2>2, <2>3, <2>4 DEF Restarting, Past, Still
<1>7. CASE Stayed(cpu, cpu')
  <2>1. /\ cpu.at = NoFetch /\ cpu'.length = cpu.length + 1
        /\ cpu'.at = cpu.at /\ cpu'.doing = cpu.doing /\ cpu'.goes = cpu.goes
        /\ ~cpu'.due /\ ~cpu'.discards
    BY <1>3, <1>7 DEF Stayed
  <2>2. Still(cpu')
    BY <1>4, <1>7 DEF Stayed
  <2>3. CASE cpu.goes = NoFetch
    <3>1. steps <= 0 * (MaxLen + 1) + cpu.length
      BY <1>1, <2>1, <2>3 DEF Restarting, Past, NoFetch
    <3>2. steps' <= 0 * (MaxLen + 1) + cpu'.length
      BY <1>1, <1>2, <1>3, <2>1, <3>1
    <3> QED
      BY <1>3, <1>5, <2>1, <2>2, <2>3, <3>2 DEF Restarting, Past, Still
  <2>4. CASE cpu.goes = "vector"
    <3>1. steps <= 1 * (MaxLen + 1) + cpu.length
      BY <1>1, <2>1, <2>4 DEF Restarting, Past, NoFetch
    <3>2. steps' <= 1 * (MaxLen + 1) + cpu'.length
      BY <1>1, <1>2, <1>3, <2>1, <3>1
    <3> QED
      BY <1>3, <1>5, <2>1, <2>2, <2>4, <3>2 DEF Restarting, Past, Still
  <2> QED
    BY <1>1, <1>3, <2>3, <2>4 DEF Sound
<1>8. CASE WentOn(cpu, cpu', memory)
  <2>1. Still(cpu') /\ ~cpu'.discards /\ ~cpu'.due /\ cpu.at = NoFetch
    BY <1>3, <1>4, <1>8 DEF WentOn
  <2>2. CASE cpu.goes = NoFetch
    <3>1. cpu'.at = "fake"
      BY <1>8, <2>2 DEF WentOn
    <3>2. steps <= 0 * (MaxLen + 1) + cpu.length
      BY <1>1, <2>1, <2>2 DEF Restarting, Past, NoFetch
    <3>3. steps' <= 1 * (MaxLen + 1)
      BY <1>1, <1>2, <1>3, <3>2
    <3> QED
      BY <1>5, <2>1, <3>1, <3>3 DEF Restarting, Fetching, Still
  <2>3. CASE cpu.goes # NoFetch
    <3>1. cpu'.at = memory'.reset
      BY <1>2, <1>8, <2>3 DEF WentOn
    <3> QED
      BY <1>5, <2>1, <3>1 DEF Restarting, Still
  <2> QED
    BY <2>2, <2>3
<1> QED
  BY <1>2, <1>3, <1>6, <1>7, <1>8 DEF Moved, Stopped, Ended, Served

LEMMA StepToNops ==
  ASSUME TypeInv, steps \in Nat, ToNops(cpu), memory.safe = "nops",
         NEW c \in StepOf(cpu, memory, test.start)
  PROVE  /\ steps <= MaxLen
         /\ c.at = NoFetch =>
              /\ Still(c) /\ ~c.due /\ ~c.discards
              /\ Running(c, "safe+1") /\ steps + 1 <= 0 * (MaxLen + 1) + c.length
         /\ c.at # NoFetch =>
              c.at = "safe+1" /\ ~c.nmi /\ ~c.irq /\ ~c.polled /\ ~c.sampled /\ ~c.discards
<1>1. /\ cpu \in Cpus /\ Sound(cpu) /\ MaxLen \in Nat \ {0}
  BY MaxLenAssumption DEF TypeInv, MemoryInv, CpuInv
<1>2. Moved(cpu, c, memory, test.start)
  BY StepType
<1>3. cpu.length \in Nat /\ cpu.length <= MaxLen /\ cpu.doing = "code"
  <2>1. cpu.length \in 0 .. MaxLen
    BY <1>1 DEF Cpus
  <2>2. cpu.doing = "code"
    BY <1>1 DEF ToNops, Sound, Running, Places, Elsewhere
  <2> QED
    BY <1>1, <2>1, <2>2
<1>4. Saw(cpu, c) => Still(c)
  BY <1>1 DEF Still, ToNops, Saw, Cpus
<1>5. /\ ~cpu.nmi /\ ~cpu.irq /\ ~cpu.sampled /\ ~cpu.edge /\ ~cpu.polled /\ ~cpu.due /\ ~cpu.discards
  BY DEF ToNops, Still
<1>6. CASE cpu.at = "safe" /\ steps = 0
  <2>1. Left(cpu, c, memory, test.start)
    BY <1>2, <1>3, <1>6 DEF Moved, Stopped, Stayed, Ended, Served, WentOn, NoFetch
  <2>2. NextOf(cpu.at, memory, test.start) = {"safe+1"} /\ ~Foreign(cpu.at, memory)
    BY <1>6, StubNext
  <2>3. /\ c.at = NoFetch /\ c.length = 1 /\ ~c.discards /\ c.doing = "code" /\ c.goes = "safe+1"
        /\ ~c.due /\ Saw(cpu, c)
    BY <1>3, <1>5, <2>1, <2>2 DEF Left
  <2>4. steps <= MaxLen /\ steps + 1 <= 0 * (MaxLen + 1) + c.length
    BY <1>1, <1>6, <2>3
  <2> QED
    BY <1>4, <2>3, <2>4 DEF Running
<1>7. CASE Running(cpu, "safe+1") /\ Past(cpu, 0)
  <2>1. cpu.at = NoFetch /\ cpu.doing = "code" /\ cpu.goes = "safe+1"
        /\ steps <= 0 * (MaxLen + 1) + cpu.length
    BY <1>7 DEF Running, Past
  <2>2. steps <= MaxLen
    BY <1>1, <1>3, <2>1
  <2>3. CASE Stayed(cpu, c)
    <3>1. /\ c.length = cpu.length + 1 /\ c.at = NoFetch /\ c.doing = "code" /\ c.goes = "safe+1"
          /\ ~c.due /\ ~c.discards /\ Saw(cpu, c)
      BY <1>5, <2>1, <2>3 DEF Stayed
    <3>2. steps + 1 <= 0 * (MaxLen + 1) + c.length
      BY <1>1, <1>3, <2>1, <3>1
    <3> QED
      BY <1>4, <2>2, <3>1, <3>2 DEF Running
  <2>4. CASE Ended(cpu, c)
    <3>1. c.at = "safe+1" /\ Saw(cpu, c) /\ ~c.discards
      BY <1>5, <2>1, <2>4 DEF Ended
    <3> QED
      BY <1>4, <2>2, <3>1 DEF Still, NoFetch
  <2> QED
    BY <1>2, <2>1, <2>3, <2>4 DEF Moved, Stopped, Left, Served, WentOn
<1> QED
  BY <1>6, <1>7 DEF ToNops

LEMMA StepToNmi ==
  ASSUME TypeInv, steps \in Nat, ToNmi(cpu), cpu.at # "boot",
         memory.safe = "nops", memory.nmi = "boot", Goes
  PROVE  ToNmi(cpu)'
<1>1. /\ cpu \in Cpus /\ Sound(cpu) /\ MaxLen \in Nat \ {0}
  BY MaxLenAssumption DEF TypeInv, MemoryInv, CpuInv
<1>2. /\ Moved(cpu, cpu', memory, test.start) /\ steps' = steps + 1
  BY StepType DEF Goes, Step, GoOn
<1>3. cpu.length \in Nat /\ cpu.length <= MaxLen
  <2>1. cpu.length \in 0 .. MaxLen
    BY <1>1 DEF Cpus
  <2> QED
    BY <1>1, <2>1
<1>4. cpu.nmi /\ ~cpu.irq /\ ~cpu.polled
  BY DEF ToNmi
<1>5. Saw(cpu, cpu') => /\ cpu'.nmi /\ ~cpu'.irq /\ ~cpu'.polled
                        /\ cpu'.edge = (cpu.edge \/ ~cpu.sampled)
  BY <1>4 DEF Saw
<1>6. CASE cpu.at = "safe+1" /\ ~cpu.sampled /\ ~cpu.discards /\ steps = 0
  <2>0. cpu.doing = "code"
    BY <1>1, <1>6 DEF Sound, Places
  <2>1. Left(cpu, cpu', memory, test.start)
    BY <1>2, <1>6, <2>0 DEF Moved, Stopped, Stayed, Ended, Served, WentOn, NoFetch
  <2>2. NextOf(cpu.at, memory, test.start) = {"safe+2"} /\ ~Foreign(cpu.at, memory)
    BY <1>6, StubNext
  <2>3. /\ cpu'.at = NoFetch /\ cpu'.length = 1 /\ cpu'.doing = "code" /\ cpu'.goes = "safe+2"
        /\ Saw(cpu, cpu')
    BY <1>6, <2>0, <2>1, <2>2 DEF Left
  <2>4. steps' <= 0 * (MaxLen + 1) + cpu'.length
    BY <1>1, <1>2, <1>6, <2>3
  <2> QED
    BY <1>5, <1>6, <2>3, <2>4 DEF ToNmi, Running, Past
<1>7. CASE Running(cpu, "safe+2") /\ cpu.edge /\ Past(cpu, 0)
  <2>1. cpu.at = NoFetch /\ cpu.doing = "code" /\ cpu.goes = "safe+2"
        /\ steps <= 0 * (MaxLen + 1) + cpu.length
    BY <1>7 DEF Running, Past
  <2>2. CASE Stayed(cpu, cpu')
    <3>1. /\ cpu'.length = cpu.length + 1 /\ cpu'.at = NoFetch /\ cpu'.doing = "code"
          /\ cpu'.goes = "safe+2" /\ Saw(cpu, cpu')
      BY <2>1, <2>2 DEF Stayed
    <3>2. steps' <= 0 * (MaxLen + 1) + cpu'.length
      BY <1>1, <1>2, <1>3, <2>1, <3>1
    <3> QED
      BY <1>5, <1>7, <3>1, <3>2 DEF ToNmi, Running, Past
  <2>3. CASE Ended(cpu, cpu')
    <3>1. cpu'.at = "safe+2" /\ Saw(cpu, cpu')
      BY <2>1, <2>3 DEF Ended
    <3>2. steps' <= 1 * (MaxLen + 1)
      BY <1>1, <1>2, <1>3, <2>1
    <3> QED
      BY <1>5, <1>7, <3>1, <3>2 DEF ToNmi, Fetching
  <2> QED
    BY <1>2, <2>1, <2>2, <2>3 DEF Moved, Stopped, Left, Served, WentOn
<1>8. CASE cpu.at = "safe+2" /\ cpu.edge /\ Fetching(1)
  <2>0. cpu.doing = "code"
    BY <1>1, <1>8 DEF Sound, Places
  <2>1. Left(cpu, cpu', memory, test.start)
    BY <1>2, <1>8, <2>0 DEF Moved, Stopped, Stayed, Ended, Served, WentOn, NoFetch
  <2>2. NextOf(cpu.at, memory, test.start) = {"wild"} /\ ~Foreign(cpu.at, memory)
    BY <1>8, StubNext
  <2>3. /\ cpu'.at = NoFetch /\ cpu'.length = 1 /\ Saw(cpu, cpu')
        /\ \/ cpu'.doing = "code" /\ cpu'.goes = "wild" /\ cpu'.due
           \/ cpu'.doing = "service"
    BY <1>8, <2>0, <2>1, <2>2 DEF Left
  <2>4. /\ steps' <= 1 * (MaxLen + 1) + cpu'.length
        /\ steps' <= 2 * (MaxLen + 1) + cpu'.length
    BY <1>1, <1>2, <1>8, <2>3 DEF Fetching
  <2> QED
    BY <1>5, <1>8, <2>3, <2>4 DEF ToNmi, Running, Past
<1>9. CASE Running(cpu, "wild") /\ cpu.edge /\ cpu.due /\ Past(cpu, 1)
  <2>1. cpu.at = NoFetch /\ cpu.doing = "code" /\ cpu.goes = "wild"
        /\ steps <= 1 * (MaxLen + 1) + cpu.length
    BY <1>9 DEF Running, Past
  <2>2. CASE Stayed(cpu, cpu')
    <3>1. /\ cpu'.length = cpu.length + 1 /\ cpu'.at = NoFetch /\ cpu'.doing = "code"
          /\ cpu'.goes = "wild" /\ cpu'.due /\ Saw(cpu, cpu')
      BY <1>9, <2>1, <2>2 DEF Stayed
    <3>2. steps' <= 1 * (MaxLen + 1) + cpu'.length
      BY <1>1, <1>2, <1>3, <2>1, <3>1
    <3> QED
      BY <1>5, <1>9, <3>1, <3>2 DEF ToNmi, Running, Past
  <2>3. CASE Ended(cpu, cpu')
    <3>1. cpu'.at = "wild" /\ cpu'.discards /\ Saw(cpu, cpu')
      BY <1>9, <2>1, <2>3 DEF Ended
    <3>2. steps' <= 2 * (MaxLen + 1)
      BY <1>1, <1>2, <1>3, <2>1
    <3> QED
      BY <1>5, <1>9, <3>1, <3>2 DEF ToNmi, Fetching
  <2> QED
    BY <1>2, <2>1, <2>2, <2>3 DEF Moved, Stopped, Left, Served, WentOn
<1>10. CASE cpu.at = "wild" /\ cpu.edge /\ cpu.discards /\ Fetching(2)
  <2>0. cpu.doing = "code"
    BY <1>1, <1>10 DEF Sound, Places, Elsewhere
  <2>1. Left(cpu, cpu', memory, test.start)
    BY <1>2, <1>10, <2>0 DEF Moved, Stopped, Stayed, Ended, Served, WentOn, NoFetch
  <2>2. /\ cpu'.at = NoFetch /\ cpu'.length = 1 /\ Saw(cpu, cpu') /\ cpu'.doing = "service"
    BY <1>10, <2>0, <2>1 DEF Left
  <2>3. steps' <= 2 * (MaxLen + 1) + cpu'.length
    BY <1>1, <1>2, <1>10, <2>2 DEF Fetching
  <2> QED
    BY <1>5, <1>10, <2>2, <2>3 DEF ToNmi, Past
<1>11. CASE cpu.doing = "service" /\ cpu.at = NoFetch /\ cpu.edge /\ Past(cpu, 2)
  <2>1. CASE Stayed(cpu, cpu')
    <3>1. /\ cpu'.length = cpu.length + 1 /\ cpu'.at = NoFetch /\ cpu'.doing = "service"
          /\ Saw(cpu, cpu') \/ Kept(cpu, cpu')
      BY <1>11, <2>1 DEF Stayed
    <3>2. steps' <= 2 * (MaxLen + 1) + cpu'.length
      BY <1>1, <1>2, <1>3, <1>11, <3>1 DEF Past
    <3>3. cpu'.nmi /\ ~cpu'.irq /\ ~cpu'.polled /\ cpu'.edge
      BY <1>4, <1>5, <1>11, <3>1 DEF Kept
    <3> QED
      BY <3>1, <3>2, <3>3 DEF ToNmi, Past
  <2>2. CASE Served(cpu, cpu', memory)
    <3>1. cpu'.at = "boot" /\ cpu'.nmi /\ ~cpu'.irq /\ ~cpu'.polled
      BY <1>4, <1>11, <2>2 DEF Served
    <3> QED
      BY <3>1 DEF ToNmi
  <2> QED
    BY <1>2, <1>11, <2>1, <2>2 DEF Moved, Stopped, Left, Ended, WentOn
<1> QED
  BY <1>6, <1>7, <1>8, <1>9, <1>10, <1>11 DEF ToNmi

LEMMA Lengths ==
  ASSUME TypeInv
  PROVE  MaxLen \in Nat /\ cpu.length \in Nat /\ cpu.length <= MaxLen
<1>1. MaxLen \in Nat \ {0} /\ cpu.length \in 0 .. MaxLen
  BY MaxLenAssumption DEF TypeInv, CpuInv, Cpus
<1> QED
  BY <1>1

\* One step more, within what is allowed for the fetches past.
LEMMA OneMore ==
  ASSUME NEW m \in Nat, NEW l \in Nat, l <= m, NEW n \in Nat
  PROVE  /\ n = 0 => n + 1 <= 0 * (m + 1) + 1
         /\ n <= 1 * (m + 1) => n + 1 <= 1 * (m + 1) + 1
         /\ n <= 0 * (m + 1) + l => n + 1 <= 0 * (m + 1) + (l + 1) /\ n + 1 <= 1 * (m + 1)
         /\ n <= 1 * (m + 1) + l => n + 1 <= 1 * (m + 1) + (l + 1)
OBVIOUS

LEMMA StepToTest ==
  ASSUME TypeInv, SetUpInv, steps \in Nat, ToTest(cpu), stage = "to start", ~restarting,
         cpu.at # test.start, Goes
  PROVE  ToTest(cpu)'
<1>0. memory.boot = "bootstrap"
  BY DEF TypeInv, MemoryInv
<1>1. /\ cpu \in Cpus /\ Sound(cpu) /\ MaxLen \in Nat \ {0}
  BY MaxLenAssumption DEF TypeInv, MemoryInv, CpuInv
<1>2. /\ Moved(cpu, cpu', memory, test.start) /\ steps' = steps + 1 /\ test' = test
  BY StepType DEF Goes, Step, GoOn
<1>3. /\ steps = 0 => steps + 1 <= 0 * (MaxLen + 1) + 1
      /\ steps <= 1 * (MaxLen + 1) => steps + 1 <= 1 * (MaxLen + 1) + 1
      /\ steps <= 0 * (MaxLen + 1) + cpu.length =>
           /\ steps + 1 <= 0 * (MaxLen + 1) + (cpu.length + 1)
           /\ steps + 1 <= 1 * (MaxLen + 1)
      /\ steps <= 1 * (MaxLen + 1) + cpu.length =>
           steps + 1 <= 1 * (MaxLen + 1) + (cpu.length + 1)
  BY Lengths, OneMore
<1>4. ASSUME cpu.at = "boot" \/ cpu.at = "boot rest"
      PROVE  /\ cpu'.at = NoFetch /\ cpu'.length = 1 /\ cpu'.doing = "code"
             /\ cpu.at = "boot" => cpu'.goes = "boot rest"
             /\ cpu.at = "boot rest" => cpu'.goes = test.start
  <2>1. cpu.doing = "code"
    BY <1>1, <1>4 DEF Sound, Places
  <2>2. ~cpu.discards
    BY <1>4 DEF SetUpInv, Starting, OnItsWay, NoFetch
  <2>3. Left(cpu, cpu', memory, test.start)
    BY <1>2, <1>4, <2>1 DEF Moved, Stopped, Stayed, Ended, Served, WentOn, NoFetch
  <2>4. /\ cpu.at = "boot" => NextOf(cpu.at, memory, test.start) = {"boot rest"}
        /\ cpu.at = "boot rest" => NextOf(cpu.at, memory, test.start) = {test.start}
        /\ ~Foreign(cpu.at, memory)
    BY <1>0, <1>4, BootstrapNext
  <2> QED
    BY <1>4, <2>1, <2>2, <2>3, <2>4 DEF Left
<1>5. CASE cpu.at = "boot" /\ steps = 0
  <2>1. steps' <= 0 * (MaxLen + 1) + cpu'.length
    BY <1>2, <1>3, <1>4, <1>5, Zenon
  <2> QED
    BY <1>4, <1>5, <2>1 DEF ToTest, Running, Past
<1>6. CASE cpu.at = "boot rest" /\ Fetching(1)
  <2>1. steps' <= 1 * (MaxLen + 1) + cpu'.length
    BY <1>2, <1>3, <1>4, <1>6, Zenon DEF Fetching
  <2> QED
    BY <1>2, <1>4, <1>6, <2>1 DEF ToTest, Running, Past
<1>7. ASSUME NEW to, Running(cpu, to)
      PROVE  \/ Running(cpu', to) /\ cpu'.length = cpu.length + 1
             \/ cpu'.at = to
  <2>1. CASE Stayed(cpu, cpu')
    BY <1>7, <2>1 DEF Stayed, Running
  <2>2. CASE Ended(cpu, cpu')
    BY <1>7, <2>2 DEF Ended, Running
  <2> QED
    BY <1>2, <1>7, <2>1, <2>2 DEF Moved, Stopped, Left, Served, WentOn, Running
<1>8. CASE Running(cpu, "boot rest") /\ Past(cpu, 0)
  <2>1. steps <= 0 * (MaxLen + 1) + cpu.length
    BY <1>8 DEF Past
  <2>2. /\ cpu'.length = cpu.length + 1 => steps' <= 0 * (MaxLen + 1) + cpu'.length
        /\ steps' <= 1 * (MaxLen + 1)
    BY <1>2, <1>3, <2>1, Zenon
  <2> QED
    BY <1>7, <1>8, <2>2 DEF ToTest, Running, Past, Fetching
<1>9. CASE Running(cpu, test.start) /\ Past(cpu, 1)
  <2>1. steps <= 1 * (MaxLen + 1) + cpu.length
    BY <1>9 DEF Past
  <2>2. cpu'.length = cpu.length + 1 => steps' <= 1 * (MaxLen + 1) + cpu'.length
    BY <1>2, <1>3, <2>1, Zenon
  <2> QED
    BY <1>2, <1>7, <1>9, <2>2 DEF ToTest, Running, Past
<1> QED
  BY <1>5, <1>6, <1>8, <1>9 DEF ToTest

\* What each bound allows for.
LEMMA WithinBounds ==
  ASSUME NEW m \in Nat, NEW l \in Nat, l <= m, NEW n \in Nat
  PROVE  /\ n = 0 => n < 2 * (m + 1) /\ n < 3 * (m + 1)
         /\ n <= 0 * (m + 1) + l => n < 2 * (m + 1) /\ n < 3 * (m + 1)
         /\ n <= 1 * (m + 1) => n < 2 * (m + 1) /\ n < 3 * (m + 1)
         /\ n <= 1 * (m + 1) + l => n < 2 * (m + 1) /\ n < 3 * (m + 1)
         /\ n <= 2 * (m + 1) => n < 3 * (m + 1)
         /\ n <= 2 * (m + 1) + l => n < 3 * (m + 1)
OBVIOUS

LEMMA Enough ==
  ASSUME EnoughSteps, NEW n \in Nat
  PROVE  /\ n < 3 * (MaxLen + 1) => n < FetchSteps
         /\ n < 2 * (MaxLen + 1) => n < BootSteps /\ n < RestartSteps
<1>1. MaxLen \in Nat /\ FetchSteps \in Nat /\ BootSteps \in Nat /\ RestartSteps \in Nat
  BY MaxLenAssumption, StepsAssumption
<1> QED
  BY <1>1 DEF EnoughSteps

\* Where a loop of the second attempt, or of a restart, is short of its goal it has
\* steps left.
LEMMA StepsLeft ==
  ASSUME EnoughSteps, TypeInv, SuccessInv, ~GoalReached,
         stage \in {"to safe", "to vector"} \/ (attempt = 2 /\ stage \in Loops)
  PROVE  steps < Limit
<1>1. steps \in Nat
  BY DEF SuccessInv
<1>2. /\ steps = 0 => steps < 2 * (MaxLen + 1) /\ steps < 3 * (MaxLen + 1)
      /\ steps <= 0 * (MaxLen + 1) + cpu.length => steps < 2 * (MaxLen + 1) /\ steps < 3 * (MaxLen + 1)
      /\ steps <= 1 * (MaxLen + 1) => steps < 2 * (MaxLen + 1) /\ steps < 3 * (MaxLen + 1)
      /\ steps <= 1 * (MaxLen + 1) + cpu.length => steps < 2 * (MaxLen + 1) /\ steps < 3 * (MaxLen + 1)
      /\ steps <= 2 * (MaxLen + 1) => steps < 3 * (MaxLen + 1)
      /\ steps <= 2 * (MaxLen + 1) + cpu.length => steps < 3 * (MaxLen + 1)
  BY <1>1, Lengths, WithinBounds
<1>3. /\ steps < 3 * (MaxLen + 1) => steps < FetchSteps
      /\ steps < 2 * (MaxLen + 1) => steps < BootSteps /\ steps < RestartSteps
  BY <1>1, Enough
<1>4. CASE stage \in {"to safe", "to vector"}
  <2>1. cpu.at # memory.reset
    BY <1>4 DEF SuccessInv, GoalReached
  <2>2. steps < RestartSteps
    BY <1>2, <1>3, <1>4, <2>1, Zenon DEF SuccessInv, Restarting, Past, Fetching
  <2> QED
    BY <1>4, <2>2 DEF Limit
<1>5. CASE attempt = 2 /\ stage = "to fetch"
  <2>1. steps < FetchSteps
    BY <1>2, <1>3, <1>5, Zenon DEF SuccessInv, ToNops, Past
  <2> QED
    BY <1>5, <2>1 DEF Limit
<1>6. CASE attempt = 2 /\ stage = "to boot"
  <2>1. cpu.at # "boot"
    BY <1>6 DEF GoalReached
  <2>2. steps < FetchSteps
    BY <1>2, <1>3, <1>6, <2>1, Zenon DEF SuccessInv, ToNmi, Past, Fetching
  <2> QED
    BY <1>6, <2>2 DEF Limit
<1>7. CASE attempt = 2 /\ stage = "to start"
  <2>1. cpu.at # test.start
    BY <1>7 DEF GoalReached
  <2>2. steps < BootSteps
    BY <1>2, <1>3, <1>7, <2>1, Zenon DEF SuccessInv, ToTest, Past, Fetching
  <2> QED
    BY <1>7, <2>2 DEF Limit
<1> QED
  BY <1>4, <1>5, <1>6, <1>7 DEF Loops

\* A restart begins its loop as Restarting says.
LEMMA RestartBegins ==
  ASSUME cpu' = Restarted, steps' = 0
  PROVE  Restarting(cpu)'
<1>1. /\ cpu'.at = NoFetch /\ cpu'.doing = "reset" /\ cpu'.length = 0 /\ cpu'.goes = NoFetch
      /\ ~cpu'.nmi /\ ~cpu'.irq /\ ~cpu'.sampled /\ ~cpu'.edge /\ ~cpu'.polled
      /\ ~cpu'.due /\ ~cpu'.discards
  BY DEF Restarted
<1>2. MaxLen \in Nat
  BY MaxLenAssumption
<1>3. steps' <= 0 * (MaxLen + 1) + cpu'.length
  BY <1>1, <1>2
<1> QED
  BY <1>1, <1>3, Zenon DEF Restarting, Still, Past

LEMMA TwoAttempts == 1 # 2
OBVIOUS

\* Of a first attempt nothing is promised.
LEMMA NextFirstAttempt ==
  ASSUME attempt' = 1, stage' \in {"to fetch", "to boot", "to start"},
         steps' \in Nat, result' # "failed"
  PROVE  SuccessInv'
<1>1. attempt' \in {1, 2} /\ attempt' # 2
  BY TwoAttempts, Zenon
<1>2. stage' \notin {"to safe", "to vector"} /\ stage' # "to safe"
  OBVIOUS
<1> QED
  BY <1>1, <1>2, Zenon DEF SuccessInv

LEMMA NextSuccess ==
  ASSUME EnoughSteps, TypeInv, SetUpInv, SuccessInv, [Next]_vars
  PROVE  SuccessInv'
<1>1. /\ cpu \in Cpus /\ Sound(cpu) /\ memory \in Cells /\ test.start \in Starts
      /\ steps \in Nat /\ attempt \in {1, 2} /\ result # "failed"
  BY TestFields DEF TypeInv, MemoryInv, CpuInv, SuccessInv
<1>2. ASSUME stage' = "idle", result' # "failed", steps' \in Nat, attempt' = attempt
      PROVE  SuccessInv'
  BY <1>1, <1>2 DEF SuccessInv
<1>3. CASE Host
  BY <1>1, <1>2, <1>3 DEF Host
<1>4. CASE Succeeds \/ ComesBack
  <2>1. stage' = "idle" /\ steps' = 0 /\ attempt' = attempt /\ result' \in {"ready", "restarted"}
    BY <1>4 DEF Succeeds, ComesBack, Return, Enter
  <2>2. result' # "failed" /\ steps' \in Nat
    BY <2>1
  <2> QED
    BY <1>2, <2>1, <2>2
<1>5. CASE SetUp
  <2>1. stage' = "to fetch" /\ steps' = 0 /\ attempt' = 1 /\ result' = "none"
    BY <1>5 DEF SetUp, BeginSoft, Enter
  <2>2. /\ steps' \in Nat /\ result' # "failed"
        /\ stage' \in {"to fetch", "to boot", "to start"}
    BY <2>1
  <2> QED
    BY <2>1, <2>2, NextFirstAttempt
<1>6. CASE SetUpWithoutTest
  <2>1. Restarting(cpu)'
    BY <1>6, RestartBegins DEF SetUpWithoutTest, Enter
  <2> QED
    BY <1>1, <1>6, <2>1 DEF SetUpWithoutTest, Enter, SuccessInv
<1>7. CASE Goes
  <2>1. /\ stage' = stage /\ attempt' = attempt /\ result' = result /\ memory' = memory
        /\ restarting' = restarting /\ steps' = steps + 1 /\ stage \in Loops /\ ~GoalReached
        /\ cpu' \in StepOf(cpu, memory, test.start)
    BY <1>7 DEF Goes, GoOn, Step
  <2>2. steps' \in Nat
    BY <1>1, <2>1
  <2>3. CASE stage \in {"to safe", "to vector"}
    <3>1. Restarting(cpu) /\ cpu.at # memory.reset
      BY <2>1, <2>3 DEF SuccessInv, GoalReached
    <3>2. Restarting(cpu)'
      BY <1>1, <1>7, <3>1, StepRestarting
    <3> QED
      BY <1>1, <2>1, <2>2, <2>3, <3>2 DEF SuccessInv
  <2>4. CASE attempt = 1 /\ stage \in {"to fetch", "to boot", "to start"}
    <3>1. attempt' = 1 /\ stage' \in {"to fetch", "to boot", "to start"} /\ result' # "failed"
      BY <1>1, <2>1, <2>4
    <3> QED
      BY <2>2, <3>1, NextFirstAttempt
  <2>5. CASE attempt = 2 /\ stage = "to fetch"
    <3>1. ToNops(cpu) /\ memory.safe = "nops"
      BY <2>5 DEF SuccessInv
    <3>2. cpu'.at = NoFetch
      BY <1>7, <2>5 DEF Goes
    <3>3. /\ Still(cpu') /\ ~cpu'.due /\ ~cpu'.discards
          /\ Running(cpu', "safe+1") /\ steps + 1 <= 0 * (MaxLen + 1) + cpu'.length
      BY <1>1, <2>1, <3>1, <3>2, StepToNops
    <3>4. ToNops(cpu)'
      BY <2>1, <3>3, Zenon DEF ToNops, Still, Running, Past
    <3> QED
      BY <1>1, <2>1, <2>2, <2>5, <3>4 DEF SuccessInv
  <2>6. CASE attempt = 2 /\ stage = "to boot"
    <3>1. ToNmi(cpu) /\ memory.safe = "nops" /\ memory.nmi = "boot" /\ cpu.at # "boot"
      BY <2>1, <2>6 DEF SuccessInv, GoalReached
    <3>2. ToNmi(cpu)'
      BY <1>1, <1>7, <3>1, StepToNmi
    <3> QED
      BY <1>1, <2>1, <2>2, <2>6, <3>2 DEF SuccessInv
  <2>7. CASE attempt = 2 /\ stage = "to start"
    <3>1. ToTest(cpu) /\ ~restarting /\ cpu.at # test.start
      BY <2>1, <2>7 DEF SuccessInv, GoalReached
    <3>2. ToTest(cpu)'
      BY <1>1, <1>7, <2>7, <3>1, StepToTest
    <3> QED
      BY <1>1, <2>1, <2>2, <2>7, <3>2 DEF SuccessInv
  <2> QED
    BY <1>1, <2>1, <2>3, <2>4, <2>5, <2>6, <2>7 DEF Loops
<1>8. CASE Fetched
  <2>1. /\ stage = "to fetch" /\ stage' = "to boot" /\ steps' = 0 /\ memory' = memory
        /\ attempt' = attempt /\ result' = result /\ restarting' = restarting
    BY <1>8 DEF Fetched, Enter
  <2>2. PICK c \in StepOf(cpu, memory, test.start) : c.at # NoFetch /\ cpu' = WithNmi(c, TRUE)
    BY <1>8 DEF Fetched
  <2>3. CASE attempt = 1
    <3>1. /\ attempt' = 1 /\ stage' \in {"to fetch", "to boot", "to start"}
          /\ result' # "failed" /\ steps' \in Nat
      BY <1>1, <2>1, <2>3
    <3> QED
      BY <3>1, NextFirstAttempt
  <2>4. CASE attempt = 2
    <3>1. ToNops(cpu) /\ memory.safe = "nops" /\ memory.nmi = "boot" /\ ~restarting
      BY <2>1, <2>4 DEF SuccessInv
    <3>2. c.at = "safe+1" /\ ~c.irq /\ ~c.polled /\ ~c.sampled /\ ~c.discards
      BY <1>1, <2>2, <3>1, StepToNops
    <3>3. /\ cpu'.nmi = TRUE /\ cpu'.irq = c.irq /\ cpu'.sampled = c.sampled
          /\ cpu'.polled = c.polled /\ Rest(c, cpu')
      BY <2>2, StepType, PinFields
    <3>4. ToNmi(cpu)'
      BY <2>1, <3>2, <3>3 DEF ToNmi, Rest
    <3> QED
      BY <1>1, <2>1, <2>4, <3>1, <3>4 DEF SuccessInv
  <2> QED
    BY <1>1, <2>3, <2>4
<1>9. CASE Boots
  <2>1. /\ stage = "to boot" /\ cpu.at = "boot" /\ cpu' = WithNmi(cpu, FALSE)
        /\ stage' = "to start" /\ steps' = 0
        /\ attempt' = attempt /\ result' = result /\ restarting' = restarting
    BY <1>9 DEF Boots, GoalReached, Entered, Enter
  <2>2. cpu'.at = "boot"
    BY <1>1, <2>1, PinFields DEF Rest
  <2>3. ToTest(cpu)'
    BY <2>1, <2>2 DEF ToTest
  <2> QED
    BY <1>1, <2>1, <2>3 DEF SuccessInv
<1>10. CASE TriesAgain
  <2>1. /\ stage = "to safe" /\ cpu.at = "safe" /\ cpu' = Released(cpu) /\ stage' = "to fetch"
        /\ steps' = 0 /\ attempt' = 2 /\ result' = result
        /\ memory' = WithBootstrap(memory) /\ restarting' = (cpu.doing = "reset")
    BY <1>10 DEF TriesAgain, GoalReached, BeginSoft, Enter
  <2>2. memory.safe = "nops" /\ Restarting(cpu)
    BY <2>1 DEF SuccessInv
  <2>3. memory'.safe = "nops" /\ memory'.nmi = "boot"
    BY <1>1, <2>1, <2>2, BootstrapCells
  <2>4. cpu.doing = "code" /\ ~restarting'
    BY <1>1, <2>1 DEF Sound, Places, Elsewhere
  <2>5. /\ ~cpu'.nmi /\ ~cpu'.irq /\ cpu'.edge = cpu.edge /\ cpu'.sampled = cpu.sampled
        /\ cpu'.polled = cpu.polled /\ Rest(cpu, cpu')
    BY <1>1, <2>1, ReleasedFields
  <2>6. ToNops(cpu)'
    <3>1. cpu'.at = "safe" /\ Still(cpu') /\ ~cpu'.due /\ ~cpu'.discards
      BY <2>1, <2>2, <2>5 DEF Restarting, Still, Rest
    <3> QED
      BY <2>1, <3>1, Zenon DEF ToNops, Still
  <2> QED
    BY <1>1, <2>1, <2>3, <2>4, <2>6 DEF SuccessInv
<1>11. CASE TimesOut
  <2>1. attempt = 1
    BY <1>1, <1>11, StepsLeft DEF TimesOut, Loops
  <2>2. /\ stage' = "to safe" /\ steps' = 0 /\ memory' = WithStub(memory) /\ cpu' = Restarted
        /\ attempt' = attempt /\ result' = result
    BY <1>11, <2>1 DEF TimesOut, SoftFails, HardRestart, Enter
  <2>3. Restarting(cpu)'
    BY <2>2, RestartBegins
  <2>4. memory'.safe = "nops" /\ memory'.reset = "safe"
    BY <1>1, <2>2, StubCells
  <2> QED
    BY <1>1, <2>2, <2>3, <2>4 DEF SuccessInv
<1>12. CASE GivesUp
  BY <1>12, StepsLeft DEF GivesUp
<1>13. CASE UNCHANGED vars
  BY <1>13 DEF vars, SuccessInv, Restarting, ToNops, ToNmi, ToTest, Still, Running, Past, Fetching
<1> QED
  BY <1>3, <1>4, <1>5, <1>6, <1>7, <1>8, <1>9, <1>10, <1>11, <1>12, <1>13, Kinds

\* With bounds that allow for three instructions of the longest kind in the search
\* for a fetch and for two in the others, no set-up fails, whatever the CPU was
\* doing when it began.
THEOREM SetUpsSucceed ==
  ASSUME EnoughSteps
  PROVE  Spec => []SetUpSucceeds
<1>1. Init => SuccessInv
  BY DEF Init, SuccessInv
<1>2. TypeInv /\ SetUpInv /\ SuccessInv /\ [Next]_vars => SuccessInv'
  BY NextSuccess
<1>3. SuccessInv => SetUpSucceeds
  BY DEF SuccessInv, SetUpSucceeds
<1> QED
  BY <1>1, <1>2, <1>3, TypeInvariant, SetUpInvariant, PTL DEF Spec
=============================================================================
