------------------------------ MODULE Assembler -------------------------------
(***************************************************************************)
(* Asm6502::compile_to_map: a program is a list of commands, each with a     *)
(* part that defines symbols (resolve), one that writes bytes (place) and    *)
(* one that moves the address (update_pc).  The commands are resolved again  *)
(* and again, keeping the symbols, until a pass defines nothing new, and     *)
(* then placed once.                                                         *)
(*                                                                           *)
(* An address has two digits to the base Page, a byte has one: Page is 256   *)
(* in the code and may be smaller here.                                      *)
(***************************************************************************)
EXTENDS Integers, Sequences, FiniteSets, Functions

CONSTANTS Page,      \* how many values a byte has
          Names,     \* the names of symbols
          NoName,    \* the name of a target that is a number
          Programs   \* the lists of commands that are compiled

ASSUME PageAssumption == Page \in Nat /\ Page > 3 /\ Page % 2 = 0
ASSUME NamesAssumption == IsFiniteSet(Names) /\ NoName \notin Names

Space == Page * Page
Addresses == 0 .. Space - 1

(***************************************************************************)
(* Commands.  A target is a symbol with a displacement, or a number.         *)
(***************************************************************************)
Target(n, d) == [name |-> n, disp |-> d]

Targets == [name : Names, disp : Int] \cup [name : {NoName}, disp : Addresses]

\* Addresses and values are uint16_t, a byte is one digit, displacements are int.
Statements ==
  [kind : {"org"}, at : Addresses] \cup [kind : {"org_name", "label"}, name : Names]
    \cup [kind : {"set"}, name : Names, value : Addresses]
    \cup [kind : {"set_from"}, name : Names, base : Names, disp : Int]
    \cup [kind : {"byte"}, value : 0 .. Page - 1]
    \cup [kind : {"low", "word", "relative"}, target : Targets]
    \cup [kind : {"fixed"}, at : Addresses, target : Targets]
ASSUME ProgramsAssumption == Programs \subseteq Seq(Statements)

Org(a) == [kind |-> "org", at |-> a]
OrgName(n) == [kind |-> "org_name", name |-> n]
Label(n) == [kind |-> "label", name |-> n]
Set(n, v) == [kind |-> "set", name |-> n, value |-> v]
SetFrom(n, b, d) == [kind |-> "set_from", name |-> n, base |-> b, disp |-> d]
Byte(v) == [kind |-> "byte", value |-> v]
Low(t) == [kind |-> "low", target |-> t]
Word(t) == [kind |-> "word", target |-> t]
Relative(t) == [kind |-> "relative", target |-> t]
FixedWord(a, t) == [kind |-> "fixed", at |-> a, target |-> t]

\* The calls that add more than one command, and the vectors.
OrgLabel(a, n) == <<Org(a), Label(n)>>
Branch(n, d) == <<Byte(0), Relative(Target(n, d))>>
Addressed(wide, t) == <<Byte(1), IF wide THEN Word(t) ELSE Low(t)>>
NmiVector(t) == FixedWord(Space - 6, t)
ResetVector(t) == FixedWord(Space - 4, t)
BrkIrqVector(t) == FixedWord(Space - 2, t)

VARIABLES program,   \* commands_
          stage,     \* "resolve", "place", "done" or "failed"
          index,     \* the command whose turn it is
          pc,        \* asm_context::pc
          symbols,   \* asm_context::symbols
          changed,   \* whether this pass has defined a symbol
          output,    \* the address map
          error      \* why compilation failed, or "none"

vars == <<program, stage, index, pc, symbols, changed, output, error>>

Init == /\ program \in Programs
        /\ stage = "resolve"
        /\ index = 1
        /\ pc = 0
        /\ symbols = << >>
        /\ changed = FALSE
        /\ output = << >>
        /\ error = "none"

Command == program[index]
Left == index <= Len(program)
Defined(n) == n \in DOMAIN symbols

Fail(why) == /\ stage' = "failed"
             /\ error' = why
             /\ UNCHANGED <<program, index, pc, symbols, changed, output>>

(***************************************************************************)
(* update_pc, with the symbols as the command leaves them.                   *)
(***************************************************************************)
Size(c) == CASE c.kind \in {"byte", "low", "relative"} -> 1
             [] c.kind = "word" -> 2
             [] OTHER -> 0

\* Mutant: the address is not cut to its width.
NextPcWide(c, table) == CASE c.kind = "org" -> c.at
                          [] c.kind = "org_name" -> table[c.name]
                          [] OTHER -> pc + Size(c)

NextPc(c, table) == CASE c.kind = "org" -> c.at
                      [] c.kind = "org_name" -> table[c.name]
                      [] OTHER -> (pc + Size(c)) % Space

\* org() with a name that has no value.
NoOrigin(c, table) == c.kind = "org_name" /\ c.name \notin DOMAIN table

Advance(c, table) == /\ pc' = NextPc(c, table)
                     /\ index' = index + 1

(***************************************************************************)
(* Resolving.  What a command defines: at most one symbol.                   *)
(***************************************************************************)
Definition(c) ==
  CASE c.kind = "label" -> {<<c.name, pc>>}
    [] c.kind = "set" -> {<<c.name, c.value>>}
    [] c.kind = "set_from" /\ Defined(c.base) ->
         {<<c.name, (symbols[c.base] + c.disp) % Space>>}
    [] OTHER -> {}

\* Mutant: the same value again is refused too.
ClashOnAny(n, v) == Defined(n)

Clash(n, v) == Defined(n) /\ symbols[n] # v

\* Mutant: every definition counts as new.
IsNewAlways(n) == TRUE

\* define_symbol says whether the symbol is new.
IsNew(n) == ~Defined(n)

With(defs) == [n \in DOMAIN symbols \cup {d[1] : d \in defs} |->
                 IF Defined(n) THEN symbols[n] ELSE (CHOOSE d \in defs : d[1] = n)[2]]

Resolve ==
  /\ stage = "resolve"
  /\ Left
  /\ LET defs == Definition(Command)
         table == With(defs)
     IN \/ /\ \E d \in defs : Clash(d[1], d[2])
           /\ Fail("redefined")
        \/ /\ \A d \in defs : ~Clash(d[1], d[2])
           /\ NoOrigin(Command, table)
           /\ Fail("origin")
        \/ /\ \A d \in defs : ~Clash(d[1], d[2])
           /\ ~NoOrigin(Command, table)
           /\ symbols' = table
           /\ changed' = (changed \/ \E d \in defs : IsNew(d[1]))
           /\ Advance(Command, table)
           /\ UNCHANGED <<program, stage, output, error>>

\* Mutant: one pass has to do.
AnotherPassNever == FALSE

\* A pass that has defined a symbol is followed by another.
AnotherPass == changed

EndPass == /\ stage = "resolve"
           /\ ~Left
           /\ stage' = IF AnotherPass THEN "resolve" ELSE "place"
           /\ index' = 1
           /\ pc' = 0
           /\ changed' = FALSE
           /\ UNCHANGED <<program, symbols, output, error>>

(***************************************************************************)
(* Placing.  A command writes one byte, two or none.                         *)
(***************************************************************************)
Known(t) == t.name = NoName \/ Defined(t.name)
Value(t) == IF t.name = NoName THEN t.disp ELSE (symbols[t.name] + t.disp) % Space

TwoBytes(a, v) == <<<<a, v % Page>>, <<(a + 1) % Space, v \div Page>>>>

\* The distance from the byte after the operand, the short way round.
Distance(v, here) == LET d == v - ((here + 1) % Space)
                     IN CASE d > Space \div 2 - 1 -> d - Space
                          [] d < -(Space \div 2) -> d + Space
                          [] OTHER -> d
InRange(d) == -(Page \div 2) <= d /\ d < Page \div 2

Writes(c) == CASE c.kind = "byte" -> <<<<pc, c.value>>>>
               [] c.kind = "low" -> <<<<pc, Value(c.target) % Page>>>>
               [] c.kind = "word" -> TwoBytes(pc, Value(c.target))
               [] c.kind = "relative" -> <<<<pc, Distance(Value(c.target), pc) % Page>>>>
               [] c.kind = "fixed" -> TwoBytes(c.at, Value(c.target))
               [] OTHER -> << >>

HasTarget(c) == c.kind \in {"low", "word", "relative", "fixed"}
Undefined(c) == HasTarget(c) /\ ~Known(c.target)
TooFar(c) == c.kind = "relative" /\ ~InRange(Distance(Value(c.target), pc))

\* put refuses an address that has a byte.
Occupied(w) == \E i \in DOMAIN w : w[i][1] \in DOMAIN output

Put(w) == LET at == {w[i][1] : i \in DOMAIN w}
          IN [a \in DOMAIN output \cup at |->
                IF a \in at THEN w[CHOOSE i \in DOMAIN w : w[i][1] = a][2] ELSE output[a]]

Place ==
  /\ stage = "place"
  /\ Left
  /\ \/ Undefined(Command) /\ Fail("undefined")
     \/ ~Undefined(Command) /\ TooFar(Command) /\ Fail("range")
     \/ /\ ~Undefined(Command) /\ ~TooFar(Command)
        /\ \/ Occupied(Writes(Command)) /\ Fail("overwrite")
           \/ /\ ~Occupied(Writes(Command))
              /\ output' = Put(Writes(Command))
              /\ Advance(Command, symbols)
              /\ UNCHANGED <<program, stage, symbols, changed, error>>

Finish == /\ stage = "place"
          /\ ~Left
          /\ stage' = "done"
          /\ UNCHANGED <<program, index, pc, symbols, changed, output, error>>

Next == Resolve \/ EndPass \/ Place \/ Finish

\* Compilation runs on one thread and never waits.
Spec == Init /\ [][Next]_vars /\ WF_vars(Next)
-----------------------------------------------------------------------------
(***************************************************************************)
(* What a layout is, without passes: a value for some of the names such that *)
(* every command that defines a name agrees with it and every name has a     *)
(* command that defines it, and no smaller part of it is one already.        *)
(***************************************************************************)
Commands == DOMAIN program

\* Where command i lies if the names have the values v.
Origins(i) == {j \in Commands : j < i /\ program[j].kind \in {"org", "org_name"}}
Origin(i) == CHOOSE j \in Origins(i) : \A k \in Origins(i) : k <= j
BytesBefore(i, j) ==
  LET sized(n) == {k \in Commands : j < k /\ k < i /\ Size(program[k]) = n}
  IN Cardinality(sized(1)) + 2 * Cardinality(sized(2))
Location(i, v) ==
  IF Origins(i) = {} THEN BytesBefore(i, 0) % Space
  ELSE LET o == program[Origin(i)]
           base == IF o.kind = "org" THEN o.at ELSE v[o.name]
       IN (base + BytesBefore(i, Origin(i))) % Space

Gives(i, v) ==
  LET c == program[i]
  IN CASE c.kind = "label" -> {<<c.name, Location(i, v)>>}
       [] c.kind = "set" -> {<<c.name, c.value>>}
       [] c.kind = "set_from" /\ c.base \in DOMAIN v ->
            {<<c.name, (v[c.base] + c.disp) % Space>>}
       [] OTHER -> {}

OriginsNamed(v) == \A i \in Commands :
                     program[i].kind = "org_name" => program[i].name \in DOMAIN v
Agrees(v) == /\ OriginsNamed(v)
             /\ UNION {Gives(i, v) : i \in Commands} = {<<n, v[n]>> : n \in DOMAIN v}
IsLayout(v) == /\ Agrees(v)
               /\ \A part \in (SUBSET DOMAIN v) \ {DOMAIN v} : ~Agrees(Restrict(v, part))

\* The bytes command i stands for, as address and value.
Reaches(t, v) == IF t.name = NoName THEN t.disp ELSE (v[t.name] + t.disp) % Space
WordAt(a, w) == {<<a, w % Page>>, <<(a + 1) % Space, w \div Page>>}
\* The bytes that take a branch from here to an address.
Offsets(here, to) ==
  {b \in 0 .. Page - 1 : (here + 1 + (IF 2 * b < Page THEN b ELSE b - Page)) % Space = to}
Emits(i, v) ==
  LET c == program[i]
      here == Location(i, v)
  IN CASE c.kind = "byte" -> {<<here, c.value>>}
       [] c.kind = "low" -> {<<here, Reaches(c.target, v) % Page>>}
       [] c.kind = "word" -> WordAt(here, Reaches(c.target, v))
       [] c.kind = "fixed" -> WordAt(c.at, Reaches(c.target, v))
       [] c.kind = "relative" ->
            {<<here, b>> : b \in Offsets(here, Reaches(c.target, v))}
       [] OTHER -> {}

\* A layout that can be written out: targets have values, branches reach them and
\* no two commands write to one address.
Writable(v) ==
  /\ \A i \in Commands :
       HasTarget(program[i]) => program[i].target.name \in DOMAIN v \cup {NoName}
  /\ \A i \in Commands : program[i].kind = "relative" => Emits(i, v) # {}
  /\ \A i, j \in Commands : i # j => \A a \in Emits(i, v), b \in Emits(j, v) : a[1] # b[1]

\* Commands whose names get their values from the text above them alone.
ReadFromAbove(known) ==
  \A i \in known :
    \/ program[i].kind \in {"label", "set"}
    \/ /\ program[i].kind = "set_from"
       /\ \E j \in known : j < i /\ program[j].name = program[i].base
OriginsKnown ==
  \E known \in SUBSET Commands :
    /\ ReadFromAbove(known)
    /\ \A i \in Commands :
         program[i].kind = "org_name"
           => \E j \in known : j < i /\ program[j].name = program[i].name

DefinedNames == {program[i].name : i \in {j \in Commands :
                    program[j].kind \in {"label", "set", "set_from"}}}
Values == UNION {[S -> Addresses] : S \in SUBSET DefinedNames}
-----------------------------------------------------------------------------
\* When compilation succeeds the symbols are a layout that can be written out, and
\* the map holds the bytes of every command at its place and nothing else, in
\* whatever order the symbols that depend on each other are written.
LayoutCorrect ==
  stage = "done" =>
    /\ IsLayout(symbols)
    /\ Writable(symbols)
    /\ {<<a, output[a]>> : a \in DOMAIN output} = UNION {Emits(i, symbols) : i \in Commands}

\* Compilation throws only for a program that has no layout that can be written
\* out, or moves to a symbol that nothing above it defines: no legal program is
\* refused because of the order of the passes.
FailureJustified ==
  stage = "failed" =>
    ~ (/\ OriginsKnown
       /\ \E v \in Values : Agrees(v) /\ IsLayout(v) /\ Writable(v))

\* Compilation ends: symbols that depend on each other do not keep the passes going.
Ends == <>(stage \in {"done", "failed"})
=============================================================================
