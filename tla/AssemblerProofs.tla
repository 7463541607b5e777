---------------------------- MODULE AssemblerProofs ----------------------------
(***************************************************************************)
(* compile_to_map finds the layout of a program, and refuses a program only  *)
(* for a reason, whatever the program: its length, the order of its          *)
(* definitions, and how many values a byte has.                              *)
(*                                                                           *)
(* Locations are first shown to follow update_pc from one command to the     *)
(* next.  The symbols are then, in every pass, supported by a command each   *)
(* and a part of every layout; a pass without a new one makes them a layout  *)
(* themselves, which is therefore the least.  Placing writes what the        *)
(* definition of a layout's bytes says, command by command.                  *)
(***************************************************************************)
EXTENDS Assembler, FiniteSetTheorems, WellFoundedInduction, TLAPS

(***************************************************************************)
(* Remainders, for any modulus.                                              *)
(***************************************************************************)
LEMMA Quotient ==
  ASSUME NEW m \in Nat, m > 0, NEW x \in Int
  PROVE  x % m \in Nat /\ x % m < m /\ x \div m \in Int /\ x = m * (x \div m) + (x % m)
OBVIOUS

LEMMA Multiples ==
  ASSUME NEW m \in Nat, m > 0, NEW q \in Int, m * q < m, m * q > -m
  PROVE  q = 0
OBVIOUS

LEMMA Remainder ==
  ASSUME NEW m \in Nat, m > 0, NEW x \in Int, NEW q \in Int, NEW r \in Nat, r < m, x = m * q + r
  PROVE  x % m = r
<1>1. PICK d \in Int : d = x \div m - q
  BY Quotient
<1>2. m * d = m * (x \div m) - m * q
  BY <1>1, Quotient
<1>3. m * d = r - (x % m)
  BY <1>2, Quotient
<1>4. m * d < m /\ m * d > -m
  BY <1>3, Quotient
<1>5. d = 0
  BY <1>4, Multiples
<1> QED
  BY <1>3, <1>5, Quotient

LEMMA AddOnce ==
  ASSUME NEW m \in Nat, m > 0, NEW x \in Int, NEW s \in Int
  PROVE  ((x % m) + s) % m = (x + s) % m
<1>1. PICK q \in Int, r \in Nat : r < m /\ x % m = r /\ x = m * q + r
  BY Quotient
<1>2. PICK e \in Int, t \in Nat : t < m /\ (r + s) % m = t /\ r + s = m * e + t
  BY <1>1, Quotient
<1>3. x + s = m * (q + e) + t
  BY <1>1, <1>2
<1>4. (x + s) % m = t
  BY <1>2, <1>3, Remainder
<1> QED
  BY <1>1, <1>2, <1>4

LEMMA Small ==
  ASSUME NEW m \in Nat, m > 0, NEW x \in Int
  PROVE  /\ 0 <= x /\ x < m => x % m = x
         /\ m <= x /\ x < 2 * m => x % m = x - m
         /\ x < 0 /\ x >= -m => x % m = x + m
OBVIOUS

(***************************************************************************)
(* The least and the greatest of some numbers.                               *)
(***************************************************************************)
LEMMA Least ==
  ASSUME NEW T, T \subseteq Nat, T # {}
  PROVE  \E x \in T : \A y \in T : x <= y
<1> DEFINE R == OpToRel(<, Nat)
<1>1. \E x \in T : \A y \in T : <<y, x>> \notin R
  <2> HIDE DEF R
  <2>1. IsWellFoundedOn(R, Nat)
    BY NatLessThanWellFounded, Zenon DEF R
  <2> QED
    BY <2>1, WFMin
<1>2. \A x, y \in Nat : y < x => <<y, x>> \in R
  BY DEF OpToRel
<1> HIDE DEF R
<1>3. PICK x \in T : \A y \in T : <<y, x>> \notin R
  BY <1>1
<1>4. \A y \in T : ~(y < x)
  BY <1>2, <1>3
<1> QED
  BY <1>4

LEMMA Greatest ==
  ASSUME NEW n \in Nat, NEW S, S # {}, \A j \in S : j \in Nat /\ j <= n
  PROVE  \E j \in S : \A k \in S : k <= j
<1> DEFINE T == {n - j : j \in S}
<1>1. T \subseteq Nat /\ T # {}
  OBVIOUS
<1>2. PICK x \in T : \A y \in T : x <= y
  BY <1>1, Least
<1>3. PICK j \in S : x = n - j
  BY <1>2
<1>4. \A k \in S : k <= j
  <2> TAKE k \in S
  <2>1. n - k \in T
    OBVIOUS
  <2>2. x <= n - k
    BY <1>2, <2>1
  <2> HIDE DEF T
  <2> QED
    BY <1>3, <2>2
<1> QED
  BY <1>4

(***************************************************************************)
(* Bytes, addresses, commands.                                               *)
(***************************************************************************)
\* An address has a digit more than a byte, and both halve.
LEMMA Sizes ==
  /\ Page \in Nat /\ Page > 0 /\ Space \in Nat /\ Space > 3
  /\ Space \div 2 \in Nat /\ Space = 2 * (Space \div 2)
  /\ Page \div 2 \in Nat /\ Page = 2 * (Page \div 2)
  /\ Page <= Space \div 2
<1>1. PICK h \in Nat : Page = 2 * h /\ h > 1
  BY PageAssumption
<1>2. Space = 2 * (2 * (h * h)) /\ h * h \in Nat /\ h * h > h
  BY <1>1 DEF Space
<1>3. PICK k \in Nat : k = 2 * (h * h) /\ k >= Page
  BY <1>1, <1>2
<1>4. Space \div 2 = k
  BY <1>2, <1>3
<1> QED
  BY <1>1, <1>2, <1>3, <1>4

LEMMA AddressRange == Addresses = {a \in Nat : a < Space}
BY Sizes DEF Addresses

LEMMA StatementFacts ==
  ASSUME NEW c \in Statements
  PROVE  /\ c.kind = "org" => c.at \in Addresses
         /\ c.kind = "fixed" => c.at \in Addresses
         /\ c.kind = "set" => c.value \in Addresses
         /\ c.kind = "set_from" => c.disp \in Int
         /\ HasTarget(c) => c.target \in Targets
BY DEF Statements, HasTarget

LEMMA TargetFacts ==
  ASSUME NEW t \in Targets
  PROVE  /\ t.disp \in Int
         /\ t.name = NoName => t.disp \in Addresses
BY NamesAssumption DEF Targets, Addresses

LEMMA ValueFacts ==
  ASSUME NEW v \in Values
  PROVE  /\ DOMAIN v \subseteq DefinedNames
         /\ v \in [DOMAIN v -> Addresses]
BY DEF Values

LEMMA AreValues ==
  ASSUME NEW S \in SUBSET DefinedNames, NEW v \in [S -> Addresses]
  PROVE  v \in Values
BY DEF Values

Written == program \in Seq(Statements)

LEMMA CommandFacts ==
  ASSUME Written
  PROVE  /\ Len(program) \in Nat
         /\ Commands = {i \in Nat : 1 <= i /\ i <= Len(program)}
         /\ \A i \in Commands : program[i] \in Statements
<1>1. Len(program) \in Nat /\ DOMAIN program = 1 .. Len(program)
  BY DEF Written
<1>2. \A i \in 1 .. Len(program) : program[i] \in Statements
  BY DEF Written
<1> QED
  BY <1>1, <1>2 DEF Commands

(***************************************************************************)
(* Locations: each follows from the one before.                              *)
(***************************************************************************)
\* The command that a location is counted from, and its address.
Start(i) == IF Origins(i) = {} THEN 0 ELSE Origin(i)
Base(i, v) == IF Origins(i) = {} THEN 0
              ELSE IF program[Origin(i)].kind = "org" THEN program[Origin(i)].at
              ELSE v[program[Origin(i)].name]
KnownOrigin(i, v) ==
  \/ Origins(i) = {}
  \/ program[Origin(i)].kind = "org"
  \/ program[Origin(i)].name \in DOMAIN v
Sized(i, j, n) == {k \in Commands : j < k /\ k < i /\ Size(program[k]) = n}

\* The last org before a command is among those before it.
LEMMA OriginLast ==
  ASSUME Written, NEW i \in Nat, Origins(i) # {}
  PROVE  Origin(i) \in Origins(i) /\ \A k \in Origins(i) : k <= Origin(i)
<1>1. \A j \in Origins(i) : j \in Nat /\ j <= i
  BY CommandFacts DEF Origins
<1>2. \E j \in Origins(i) : \A k \in Origins(i) : k <= j
  BY <1>1, Greatest
<1> QED
  BY <1>2 DEF Origin

LEMMA SizedFinite ==
  ASSUME Written, NEW i \in Nat, NEW j \in Nat, NEW n
  PROVE  IsFiniteSet(Sized(i, j, n)) /\ Cardinality(Sized(i, j, n)) \in Nat
<1>1. Sized(i, j, n) \in SUBSET Nat /\ \A k \in Sized(i, j, n) : k <= i
  BY CommandFacts DEF Sized
<1> QED
  BY <1>1, FS_BoundedSetOfNaturals, FS_CardinalityType

LEMMA SizeFacts == \A c : Size(c) \in {0, 1, 2}
BY DEF Size

\* One command more is counted once.
LEMMA SizedStep ==
  ASSUME Written, NEW i \in Commands, NEW j \in Nat, j < i, NEW n
  PROVE  Cardinality(Sized(i + 1, j, n)) =
           IF Size(program[i]) = n THEN Cardinality(Sized(i, j, n)) + 1
           ELSE Cardinality(Sized(i, j, n))
<1>1. i \in Nat /\ i \notin Sized(i, j, n)
  BY CommandFacts DEF Sized
<1>2. CASE Size(program[i]) = n
  <2>1. Sized(i + 1, j, n) = Sized(i, j, n) \cup {i}
    BY <1>1, <1>2, CommandFacts DEF Sized
  <2> QED
    BY <1>1, <1>2, <2>1, SizedFinite, FS_AddElement
<1>3. CASE Size(program[i]) # n
  <2>1. Sized(i + 1, j, n) = Sized(i, j, n)
    BY <1>1, <1>3, CommandFacts DEF Sized
  <2> QED
    BY <1>3, <2>1
<1> QED
  BY <1>2, <1>3

\* The bytes before the next command.
LEMMA BytesStep ==
  ASSUME Written, NEW i \in Commands, NEW j \in Nat, j < i
  PROVE  BytesBefore(i, j) \in Nat /\ BytesBefore(i + 1, j) = BytesBefore(i, j) + Size(program[i])
<1>1. i \in Nat
  BY CommandFacts
<1>2. \A k \in Nat :
        BytesBefore(k, j) = Cardinality(Sized(k, j, 1)) + 2 * Cardinality(Sized(k, j, 2))
  BY DEF BytesBefore, Sized
<1>3. PICK a \in Nat, b \in Nat : a = Cardinality(Sized(i, j, 1)) /\ b = Cardinality(Sized(i, j, 2))
  BY <1>1, SizedFinite
<1>4. BytesBefore(i, j) = a + 2 * b
  BY <1>1, <1>2, <1>3
<1>5. /\ Cardinality(Sized(i + 1, j, 1)) = IF Size(program[i]) = 1 THEN a + 1 ELSE a
      /\ Cardinality(Sized(i + 1, j, 2)) = IF Size(program[i]) = 2 THEN b + 1 ELSE b
  BY <1>3, SizedStep
<1>6. BytesBefore(i + 1, j) = Cardinality(Sized(i + 1, j, 1)) + 2 * Cardinality(Sized(i + 1, j, 2))
  BY <1>1, <1>2
<1>7. PICK s \in {0, 1, 2} : s = Size(program[i])
  BY SizeFacts
<1> QED
  BY <1>4, <1>5, <1>6, <1>7

LEMMA NoBytes ==
  ASSUME Written, NEW i \in Nat, NEW j \in Nat, i <= j + 1
  PROVE  BytesBefore(i, j) = 0
<1>1. \A n : Sized(i, j, n) = {}
  BY CommandFacts DEF Sized
<1>2. BytesBefore(i, j) = Cardinality(Sized(i, j, 1)) + 2 * Cardinality(Sized(i, j, 2))
  BY DEF BytesBefore, Sized
<1> QED
  BY <1>1, <1>2, FS_EmptySet

LEMMA BytesNat ==
  ASSUME Written, NEW i \in Nat, NEW j \in Nat
  PROVE  BytesBefore(i, j) \in Nat
<1>1. BytesBefore(i, j) = Cardinality(Sized(i, j, 1)) + 2 * Cardinality(Sized(i, j, 2))
  BY DEF BytesBefore, Sized
<1> QED
  BY <1>1, SizedFinite

\* A location is an address: the origin's, and the bytes since.
LEMMA BaseFacts ==
  ASSUME Written, NEW i \in Nat, NEW v \in Values, KnownOrigin(i, v)
  PROVE  /\ Base(i, v) \in Addresses
         /\ Start(i) \in Nat
         /\ Start(i) < i \/ Start(i) = 0
         /\ Location(i, v) = (Base(i, v) + BytesBefore(i, Start(i))) % Space
         /\ Location(i, v) \in Addresses
<1>1. CASE Origins(i) = {}
  <2>1. /\ Base(i, v) = 0 /\ Start(i) = 0 /\ Location(i, v) = BytesBefore(i, 0) % Space
    BY <1>1 DEF Base, Start, Location
  <2>2. BytesBefore(i, 0) \in Nat
    BY BytesNat
  <2> QED
    BY <2>1, <2>2, Sizes, AddressRange, Quotient
<1>2. CASE Origins(i) # {}
  <2>1. PICK o \in Origins(i) : o = Origin(i)
    BY <1>2, OriginLast
  <2>2. o \in Commands /\ o \in Nat /\ o < i /\ program[o] \in Statements
        /\ program[o].kind \in {"org", "org_name"}
    BY CommandFacts, <2>1 DEF Origins
  <2>3. Base(i, v) = (IF program[o].kind = "org" THEN program[o].at ELSE v[program[o].name])
        /\ Start(i) = o
    BY <1>2, <2>1 DEF Base, Start
  <2>4. Location(i, v) = (Base(i, v) + BytesBefore(i, o)) % Space
    BY <1>2, <2>1, <2>3 DEF Location
  <2>5. Base(i, v) \in Addresses
    <3>1. CASE program[o].kind = "org"
      BY <2>2, <2>3, <3>1, StatementFacts
    <3>2. CASE program[o].kind # "org"
      BY <1>2, <2>1, <2>3, <3>2, ValueFacts DEF KnownOrigin
    <3> QED
      BY <3>1, <3>2
  <2>6. BytesBefore(i, o) \in Nat
    BY <2>2, BytesNat
  <2> QED
    BY <2>2, <2>3, <2>4, <2>5, <2>6, Sizes, AddressRange, Quotient
<1> QED
  BY <1>1, <1>2

\* The location of the next command is where update_pc leaves the address.
Follow(c, here, v) == CASE c.kind = "org" -> c.at
                        [] c.kind = "org_name" -> v[c.name]
                        [] OTHER -> (here + Size(c)) % Space

LEMMA NextLocation ==
  ASSUME Written, NEW i \in Commands, NEW v \in Values, KnownOrigin(i, v),
         program[i].kind = "org_name" => program[i].name \in DOMAIN v
  PROVE  /\ KnownOrigin(i + 1, v)
         /\ Location(i + 1, v) = Follow(program[i], Location(i, v), v)
<1>1. PICK c \in Statements : c = program[i]
  BY CommandFacts
<1>2. i \in Nat /\ i + 1 \in Nat /\ i > 0
  BY CommandFacts
<1>3. CASE c.kind \in {"org", "org_name"}
  <2>1. i \in Origins(i + 1) /\ \A k \in Origins(i + 1) : k \in Nat /\ k <= i
    BY <1>1, <1>2, <1>3, CommandFacts DEF Origins
  <2>2. Origins(i + 1) # {} /\ Origin(i + 1) \in Origins(i + 1) /\ i <= Origin(i + 1)
    BY <1>2, <2>1, OriginLast
  <2>3. Origin(i + 1) = i
    BY <1>2, <2>1, <2>2
  <2>4. KnownOrigin(i + 1, v)
    BY <1>1, <1>3, <2>3 DEF KnownOrigin
  <2>5. Base(i + 1, v) \in Addresses /\ Start(i + 1) = i
        /\ Location(i + 1, v) = (Base(i + 1, v) + BytesBefore(i + 1, i)) % Space
    BY <1>2, <2>2, <2>3, <2>4, BaseFacts DEF Start
  <2>6. BytesBefore(i + 1, i) = 0
    BY <1>2, NoBytes
  <2>7. Location(i + 1, v) = Base(i + 1, v)
    <3>1. PICK b \in Nat : b = Base(i + 1, v) /\ b < Space
      BY <2>5, AddressRange
    <3>2. Location(i + 1, v) = (b + 0) % Space /\ b + 0 = b
      BY <2>5, <2>6, <3>1
    <3>3. b % Space = b
      BY <3>1, Sizes, Small
    <3> QED
      BY <3>1, <3>2, <3>3
  <2>8. Base(i + 1, v) = Follow(c, Location(i, v), v)
    BY <1>1, <1>3, <2>2, <2>3 DEF Base, Follow
  <2> QED
    BY <1>1, <2>4, <2>7, <2>8
<1>4. CASE c.kind \notin {"org", "org_name"}
  <2>1. Origins(i + 1) = Origins(i)
    BY <1>1, <1>2, <1>4, CommandFacts DEF Origins
  <2>2. Origin(i + 1) = Origin(i)
    BY <2>1 DEF Origin
  <2>3. KnownOrigin(i + 1, v) /\ Base(i + 1, v) = Base(i, v) /\ Start(i + 1) = Start(i)
    BY <2>1, <2>2 DEF KnownOrigin, Base, Start
  <2>4. PICK j \in Nat, b \in Nat : j = Start(i) /\ j < i /\ b = Base(i, v)
          /\ Location(i, v) = (b + BytesBefore(i, j)) % Space
          /\ Location(i + 1, v) = (b + BytesBefore(i + 1, j)) % Space
    BY <1>2, <2>3, BaseFacts, AddressRange
  <2>5. PICK n \in Nat, s \in Nat :
          n = BytesBefore(i, j) /\ s = Size(c) /\ BytesBefore(i + 1, j) = n + s
    BY <1>1, <2>4, BytesStep, SizeFacts
  <2>6. PICK x \in Nat : x = b + n
    OBVIOUS
  <2>7. ((x % Space) + s) % Space = (x + s) % Space
    <3>1. x \in Int /\ s \in Int /\ Space \in Nat /\ Space > 0
      BY Sizes
    <3> QED
      BY <3>1, AddOnce, Zenon
  <2>8. Location(i, v) = x % Space /\ Location(i + 1, v) = (b + (n + s)) % Space
    BY <2>4, <2>5, <2>6
  <2>9. x + s = b + (n + s)
    BY <2>6
  <2> QED
    BY <1>1, <1>4, <2>3, <2>5, <2>7, <2>8, <2>9 DEF Follow
<1> QED
  BY <1>3, <1>4

LEMMA FirstLocation ==
  ASSUME Written, NEW v \in Values
  PROVE  KnownOrigin(1, v) /\ Location(1, v) = 0
<1>1. Origins(1) = {}
  BY CommandFacts DEF Origins
<1>2. BytesBefore(1, 0) = 0
  BY NoBytes
<1>3. Location(1, v) = 0 % Space
  BY <1>1, <1>2 DEF Location
<1> QED
  BY <1>1, <1>3, Sizes, Small DEF KnownOrigin

\* A longer table gives the commands the same places.
Extends(w, v) == DOMAIN v \subseteq DOMAIN w /\ \A n \in DOMAIN v : w[n] = v[n]

LEMMA SameLocation ==
  ASSUME Written, NEW i \in Nat, NEW v, NEW w, Extends(w, v), KnownOrigin(i, v)
  PROVE  KnownOrigin(i, w) /\ Location(i, w) = Location(i, v)
<1>1. CASE Origins(i) = {}
  BY <1>1 DEF Location, KnownOrigin
<1>2. CASE Origins(i) # {}
  <2>1. PICK o \in Origins(i) : o = Origin(i)
    BY <1>2, OriginLast
  <2>2. program[o].kind \in {"org", "org_name"}
    BY <2>1 DEF Origins
  <2>3. CASE program[o].kind = "org"
    BY <1>2, <2>1, <2>3 DEF Location, KnownOrigin
  <2>4. CASE program[o].kind = "org_name"
    <3>1. w[program[o].name] = v[program[o].name] /\ program[o].name \in DOMAIN w
      BY <1>2, <2>1, <2>4 DEF KnownOrigin, Extends
    <3> QED
      BY <1>2, <2>1, <2>4, <3>1 DEF Location, KnownOrigin
  <2> QED
    BY <2>2, <2>3, <2>4
<1> QED
  BY <1>1, <1>2

(***************************************************************************)
(* The passes.                                                               *)
(***************************************************************************)
Graph(v) == {<<n, v[n]>> : n \in DOMAIN v}
Defines(c) == c.kind \in {"label", "set", "set_from"}

TypeInv ==
  /\ Written
  /\ stage \in {"resolve", "place", "done", "failed"}
  /\ index \in Nat /\ 1 <= index /\ index <= Len(program) + 1
  /\ symbols \in Values

\* The address of a pass is the location of the command whose turn it is.
PassInv ==
  stage \in {"resolve", "place"} =>
    /\ KnownOrigin(index, symbols)
    /\ pc = Location(index, symbols)
    /\ \A i \in Commands :
         i < index /\ program[i].kind = "org_name" => program[i].name \in DOMAIN symbols

\* Every symbol is given by a command at a place that is known.
Gained(n, v) ==
  \E i \in Commands : /\ <<n, v[n]>> \in Gives(i, v)
                      /\ program[i].kind = "label" => KnownOrigin(i, v)
SupportInv == \A n \in DOMAIN symbols : Gained(n, symbols)

\* The symbols are a part of every layout.
LeastInv == \A v \in Values : Agrees(v) => Extends(v, symbols)

\* A pass without a new symbol finds that all it has read agrees with the symbols.
CompleteInv ==
  /\ stage = "resolve" /\ ~changed =>
       \A i \in Commands : i < index => Gives(i, symbols) \subseteq Graph(symbols)
  /\ stage \in {"place", "done"} => Agrees(symbols)

\* One pass reads what the text above gives.
ReadInv ==
  stage = "resolve" =>
    \A known \in SUBSET Commands :
      ReadFromAbove(known) => \A j \in known : j < index => program[j].name \in DOMAIN symbols

LEMMA Reading ==
  ASSUME TypeInv, Left
  PROVE  /\ index \in Commands /\ index \in Nat /\ Command \in Statements
         /\ index + 1 \in Nat /\ index + 1 <= Len(program) + 1
BY CommandFacts DEF TypeInv, Left, Command

\* A command gives at most one value.
LEMMA GivesFacts ==
  ASSUME Written, NEW i \in Commands, NEW v \in Values,
         program[i].kind = "label" => KnownOrigin(i, v)
  PROVE  \/ Gives(i, v) = {}
         \/ /\ Defines(program[i])
            /\ \E x \in Addresses : Gives(i, v) = {<<program[i].name, x>>}
<1>1. PICK c \in Statements : c = program[i]
  BY CommandFacts
<1>2. CASE c.kind = "label"
  <2>1. Gives(i, v) = {<<c.name, Location(i, v)>>}
    BY <1>1, <1>2 DEF Gives
  <2>2. Location(i, v) \in Addresses
    BY <1>1, <1>2, CommandFacts, BaseFacts
  <2> QED
    BY <1>1, <1>2, <2>1, <2>2 DEF Defines
<1>3. CASE c.kind = "set"
  <2>1. Gives(i, v) = {<<c.name, c.value>>} /\ c.value \in Addresses
    BY <1>1, <1>3, StatementFacts DEF Gives
  <2> QED
    BY <1>1, <1>3, <2>1 DEF Defines
<1>4. CASE c.kind = "set_from" /\ c.base \in DOMAIN v
  <2>1. Gives(i, v) = {<<c.name, (v[c.base] + c.disp) % Space>>}
    BY <1>1, <1>4 DEF Gives
  <2>2. v[c.base] \in Addresses /\ c.disp \in Int
    BY <1>4, StatementFacts, ValueFacts
  <2>3. (v[c.base] + c.disp) % Space \in Addresses
    BY <2>2, AddressRange, Sizes, Quotient
  <2> QED
    BY <1>1, <1>4, <2>1, <2>3 DEF Defines
<1>5. CASE c.kind \notin {"label", "set"} /\ ~(c.kind = "set_from" /\ c.base \in DOMAIN v)
  BY <1>1, <1>5 DEF Gives
<1> QED
  BY <1>2, <1>3, <1>4, <1>5

LEMMA NameDefined ==
  ASSUME NEW i \in Commands, Defines(program[i])
  PROVE  program[i].name \in DefinedNames
BY DEF DefinedNames, Defines

\* What resolve defines is what the command gives.
LEMMA DefinitionGives ==
  ASSUME TypeInv, PassInv, stage = "resolve", Left
  PROVE  Definition(Command) = Gives(index, symbols)
BY DEF PassInv, Definition, Gives, Command, Defined

\* The values a larger table gives include those of a smaller one.
LEMMA GivesMore ==
  ASSUME Written, NEW i \in Commands, NEW v, NEW w, Extends(w, v),
         program[i].kind = "label" => KnownOrigin(i, v)
  PROVE  /\ Gives(i, v) \subseteq Gives(i, w)
         /\ program[i].kind = "label" => KnownOrigin(i, w)
<1>1. i \in Nat
  BY CommandFacts
<1>2. CASE program[i].kind = "label"
  BY <1>1, <1>2, SameLocation DEF Gives
<1>3. CASE program[i].kind = "set"
  BY <1>3 DEF Gives
<1>4. CASE program[i].kind = "set_from" /\ program[i].base \in DOMAIN v
  <2>1. w[program[i].base] = v[program[i].base] /\ program[i].base \in DOMAIN w
    BY <1>4 DEF Extends
  <2> QED
    BY <1>4, <2>1 DEF Gives
<1>5. CASE program[i].kind \notin {"label", "set"}
           /\ ~(program[i].kind = "set_from" /\ program[i].base \in DOMAIN v)
  BY <1>5 DEF Gives
<1> QED
  BY <1>2, <1>3, <1>4, <1>5

LEMMA WithOne ==
  ASSUME NEW n, NEW x, ~Clash(n, x)
  PROVE  LET w == With({<<n, x>>})
         IN  /\ DOMAIN w = DOMAIN symbols \cup {n}
             /\ w[n] = x
             /\ Extends(w, symbols)
<1> DEFINE w == With({<<n, x>>})
<1>1. DOMAIN w = DOMAIN symbols \cup {n}
  BY DEF With
<1>2. w = [k \in DOMAIN symbols \cup {n} |->
             IF Defined(k) THEN symbols[k] ELSE (CHOOSE d \in {<<n, x>>} : d[1] = k)[2]]
  <2>1. {d[1] : d \in {<<n, x>>}} = {n}
    OBVIOUS
  <2> QED
    BY <2>1, Zenon DEF With
<1>3. (CHOOSE d \in {<<n, x>>} : d[1] = n) = <<n, x>>
  OBVIOUS
<1>4. w[n] = x
  <2>1. CASE Defined(n)
    BY <1>2, <2>1 DEF Clash, Defined
  <2>2. CASE ~Defined(n)
    BY <1>2, <1>3, <2>2
  <2> QED
    BY <2>1, <2>2
<1>5. \A k \in DOMAIN symbols : w[k] = symbols[k]
  BY <1>2 DEF Defined
<1> QED
  BY <1>1, <1>4, <1>5 DEF Extends

LEMMA WithNone ==
  ASSUME symbols \in Values
  PROVE  With({}) = symbols
<1>1. symbols = [n \in DOMAIN symbols |-> symbols[n]]
  BY ValueFacts
<1>2. With({}) = [n \in DOMAIN symbols |-> symbols[n]]
  BY DEF With, Defined
<1> QED
  BY <1>1, <1>2

\* The table a command leaves.
LEMMA WithGives ==
  ASSUME TypeInv, PassInv, stage = "resolve", Left,
         \A d \in Definition(Command) : ~Clash(d[1], d[2])
  PROVE  LET w == With(Definition(Command))
         IN  /\ w \in Values
             /\ Extends(w, symbols)
             /\ Graph(w) = Graph(symbols) \cup Gives(index, symbols)
             /\ ~(\E d \in Definition(Command) : IsNew(d[1])) => w = symbols
<1>1. index \in Commands /\ Written /\ symbols \in Values
  BY Reading DEF TypeInv
<1>2. Definition(Command) = Gives(index, symbols)
  BY DefinitionGives
<1>3. CASE Gives(index, symbols) = {}
  <2>1. With(Definition(Command)) = symbols
    BY <1>1, <1>2, <1>3, WithNone
  <2> QED
    BY <1>1, <1>3, <2>1 DEF Extends
<1>4. CASE Gives(index, symbols) # {}
  <2>1. PICK n \in DefinedNames, x \in Addresses : Definition(Command) = {<<n, x>>}
    BY <1>1, <1>2, <1>4, GivesFacts, NameDefined DEF PassInv
  <2>2. PICK w : w = With({<<n, x>>})
    OBVIOUS
  <2>3. /\ DOMAIN w = DOMAIN symbols \cup {n}
        /\ w[n] = x
        /\ Extends(w, symbols)
    <3>1. ~Clash(n, x)
      BY <2>1
    <3> QED
      BY <2>2, <3>1, WithOne
  <2>4. w \in [DOMAIN w -> Addresses]
    <3>1. w = [k \in DOMAIN w |-> w[k]]
      BY <2>2 DEF With
    <3>2. \A k \in DOMAIN w : w[k] \in Addresses
      BY <1>1, <2>3, ValueFacts DEF Extends
    <3> QED
      BY <3>1, <3>2
  <2>5. w \in Values
    BY <1>1, <2>3, <2>4, AreValues, ValueFacts
  <2>6. Graph(w) = Graph(symbols) \cup {<<n, x>>}
    BY <2>3 DEF Graph, Extends
  <2>7. ~IsNew(n) => w = symbols
    <3>1. ASSUME ~IsNew(n) PROVE w = symbols
      <4>1. DOMAIN w = DOMAIN symbols
        BY <2>3, <3>1 DEF IsNew, Defined
      <4>2. symbols \in [DOMAIN symbols -> Addresses]
        BY <1>1, ValueFacts
      <4> QED
        BY <2>3, <2>4, <4>1, <4>2 DEF Extends
    <3> QED
      BY <3>1
  <2>8. (\E d \in Definition(Command) : IsNew(d[1])) <=> IsNew(n)
    BY <2>1
  <2> QED
    BY <1>2, <2>1, <2>2, <2>3, <2>5, <2>6, <2>7, <2>8
<1> QED
  BY <1>3, <1>4

(***************************************************************************)
(* The program does not change, nor does anything that is read from it alone. *)
(***************************************************************************)
LEMMA SameProgram ==
  ASSUME program' = program
  PROVE  /\ Commands' = Commands
         /\ DefinedNames' = DefinedNames
         /\ Values' = Values
         /\ \A i, v : KnownOrigin(i, v)' <=> KnownOrigin(i, v)
         /\ \A i, v : Location(i, v)' = Location(i, v)
         /\ \A i, v : Gives(i, v)' = Gives(i, v)
         /\ \A i, v : Emits(i, v)' = Emits(i, v)
         /\ \A v : Agrees(v)' <=> Agrees(v)
         /\ \A v : Writable(v)' <=> Writable(v)
         /\ \A s : ReadFromAbove(s)' <=> ReadFromAbove(s)
         /\ OriginsKnown' <=> OriginsKnown
<1>1. Commands' = Commands
  BY DEF Commands
<1>2. DefinedNames' = DefinedNames
  BY <1>1 DEF DefinedNames
<1>3. Values' = Values
  BY <1>2 DEF Values
<1>4. \A i : Origins(i)' = Origins(i)
  BY <1>1 DEF Origins
<1>5. \A i : Origin(i)' = Origin(i)
  BY <1>4 DEF Origin
<1>6. \A i, j : BytesBefore(i, j)' = BytesBefore(i, j)
  BY <1>1 DEF BytesBefore
<1>7. \A i, v : Location(i, v)' = Location(i, v)
  BY <1>4, <1>5, <1>6 DEF Location
<1>8. \A i, v : Gives(i, v)' = Gives(i, v)
  BY <1>7 DEF Gives
<1>9. \A v : Agrees(v)' <=> Agrees(v)
  BY <1>1, <1>8 DEF Agrees, OriginsNamed
<1>10. \A i, v : KnownOrigin(i, v)' <=> KnownOrigin(i, v)
  BY <1>4, <1>5 DEF KnownOrigin
<1>11. \A i, v : Emits(i, v)' = Emits(i, v)
  <2> TAKE i, v
  <2> QED
    BY <1>7 DEF Emits
<1>12. \A v : Writable(v)' <=> Writable(v)
  BY <1>1, <1>11 DEF Writable
<1>13. \A s : ReadFromAbove(s)' <=> ReadFromAbove(s)
  BY DEF ReadFromAbove
<1>14. OriginsKnown' <=> OriginsKnown
  BY <1>1, <1>13 DEF OriginsKnown
<1> QED
  BY <1>1, <1>2, <1>3, <1>7, <1>8, <1>9, <1>10, <1>11, <1>12, <1>13, <1>14

(***************************************************************************)
(* Each step of a pass keeps what the passes keep.                           *)
(***************************************************************************)
\* What the passes keep.
PassesInv == TypeInv /\ PassInv /\ SupportInv /\ LeastInv /\ CompleteInv /\ ReadInv

LEMMA InitialPasses == Init => PassesInv
<1> SUFFICES ASSUME Init PROVE PassesInv
  OBVIOUS
<1>1. program \in Seq(Statements) /\ index = 1 /\ pc = 0 /\ stage = "resolve"
        /\ symbols = << >> /\ changed = FALSE
  BY ProgramsAssumption DEF Init
<1>2. Written
  BY <1>1 DEF Written
<1>3. DOMAIN symbols = {} /\ symbols \in [{} -> Addresses]
  BY <1>1
<1>4. symbols \in Values
  BY <1>3, AreValues
<1>5. TypeInv
  BY <1>1, <1>2, <1>4, CommandFacts DEF TypeInv
<1>6. PassInv
  BY <1>1, <1>2, <1>4, FirstLocation, CommandFacts DEF PassInv
<1>7. CompleteInv /\ ReadInv
  BY <1>1, <1>2, CommandFacts DEF CompleteInv, ReadInv
<1>8. SupportInv /\ LeastInv
  BY <1>3 DEF SupportInv, LeastInv, Extends
<1> QED
  BY <1>5, <1>6, <1>7, <1>8 DEF PassesInv

\* A command of a pass leaves the table w and moves on.
Resolved(w) ==
  LET defs == Definition(Command)
  IN  /\ \A d \in defs : ~Clash(d[1], d[2])
      /\ ~NoOrigin(Command, w)
      /\ w = With(defs)
      /\ symbols' = w
      /\ changed' = (changed \/ \E d \in defs : IsNew(d[1]))
      /\ pc' = NextPc(Command, w)
      /\ index' = index + 1
      /\ program' = program /\ stage' = "resolve" /\ output' = output

LEMMA NextPcFollows ==
  ASSUME NEW c, NEW w
  PROVE  NextPc(c, w) = Follow(c, pc, w)
BY DEF NextPc, Follow

LEMMA GraphExtends ==
  ASSUME NEW v, NEW w, Graph(w) \subseteq Graph(v)
  PROVE  Extends(v, w)
<1>1. ASSUME NEW n \in DOMAIN w PROVE n \in DOMAIN v /\ v[n] = w[n]
  <2>1. <<n, w[n]>> \in Graph(v)
    BY DEF Graph
  <2>2. PICK k \in DOMAIN v : <<k, v[k]>> = <<n, w[n]>>
    BY <2>1 DEF Graph
  <2> QED
    BY <2>2
<1> QED
  BY <1>1 DEF Extends

\* Resolving one command.
LEMMA ResolvedPasses ==
  ASSUME PassesInv, stage = "resolve", Left, NEW w, Resolved(w)
  PROVE  PassesInv'
<1> USE DEF PassesInv
<1>1. /\ index \in Commands /\ index \in Nat /\ Command \in Statements /\ Written
      /\ index + 1 \in Nat /\ index + 1 <= Len(program) + 1 /\ Command = program[index]
      /\ symbols \in Values
  BY Reading DEF TypeInv, Command
<1>2. /\ w \in Values
      /\ Extends(w, symbols)
      /\ Graph(w) = Graph(symbols) \cup Gives(index, symbols)
      /\ ~(\E d \in Definition(Command) : IsNew(d[1])) => w = symbols
  BY WithGives DEF Resolved
<1>3. /\ program' = program /\ symbols' = w /\ index' = index + 1 /\ stage' = "resolve"
      /\ pc' = Follow(Command, pc, w)
  BY NextPcFollows DEF Resolved
<1>4. /\ Commands' = Commands /\ Values' = Values
      /\ \A i, v : KnownOrigin(i, v)' <=> KnownOrigin(i, v)
      /\ \A i, v : Location(i, v)' = Location(i, v)
      /\ \A i, v : Gives(i, v)' = Gives(i, v)
      /\ \A v : Agrees(v)' <=> Agrees(v)
      /\ \A s : ReadFromAbove(s)' <=> ReadFromAbove(s)
  BY <1>3, SameProgram
<1>5. TypeInv'
  BY <1>1, <1>2, <1>3, <1>4 DEF TypeInv, Written
<1>6. KnownOrigin(index, symbols) /\ pc = Location(index, symbols)
  BY DEF PassInv
<1>7. PassInv'
  <2>1. KnownOrigin(index, w) /\ pc = Location(index, w)
    BY <1>1, <1>2, <1>6, SameLocation
  <2>2. program[index].kind = "org_name" => program[index].name \in DOMAIN w
    BY <1>1 DEF Resolved, NoOrigin
  <2>3. KnownOrigin(index + 1, w) /\ Location(index + 1, w) = Follow(Command, pc, w)
    BY <1>1, <1>2, <2>1, <2>2, NextLocation
  <2>4. \A i \in Commands :
          i < index + 1 /\ program[i].kind = "org_name" => program[i].name \in DOMAIN w
    <3>1. \A i \in Commands :
            i < index /\ program[i].kind = "org_name" => program[i].name \in DOMAIN symbols
      BY DEF PassInv
    <3>2. \A i \in Commands : i < index + 1 => i < index \/ i = index
      BY <1>1, CommandFacts
    <3> QED
      BY <1>2, <2>2, <3>1, <3>2 DEF Extends
  <2> QED
    BY <1>3, <1>4, <2>3, <2>4 DEF PassInv
<1>8. SupportInv'
  <2>1. ASSUME NEW n \in DOMAIN w PROVE Gained(n, w)
    <3>1. <<n, w[n]>> \in Graph(symbols) \cup Gives(index, symbols)
      BY <1>2 DEF Graph
    <3>2. CASE <<n, w[n]>> \in Graph(symbols)
      <4>1. n \in DOMAIN symbols /\ w[n] = symbols[n]
        BY <3>2 DEF Graph
      <4>2. PICK i \in Commands : /\ <<n, w[n]>> \in Gives(i, symbols)
                                  /\ program[i].kind = "label" => KnownOrigin(i, symbols)
        BY <4>1 DEF SupportInv, Gained
      <4> QED
        BY <1>1, <1>2, <4>2, GivesMore DEF Gained
    <3>3. CASE <<n, w[n]>> \in Gives(index, symbols)
      BY <1>1, <1>2, <1>6, <3>3, GivesMore DEF Gained
    <3> QED
      BY <3>1, <3>2, <3>3
  <2> QED
    BY <1>3, <1>4, <2>1 DEF SupportInv, Gained
<1>9. LeastInv'
  <2>1. ASSUME NEW v \in Values, Agrees(v) PROVE Extends(v, w)
    <3>1. Extends(v, symbols)
      BY <2>1 DEF LeastInv
    <3>2. Gives(index, symbols) \subseteq Gives(index, v)
      BY <1>1, <1>6, <3>1, GivesMore
    <3>3. Gives(index, v) \subseteq Graph(v)
      BY <1>1, <2>1 DEF Agrees, Graph
    <3>4. Graph(w) \subseteq Graph(v)
      BY <1>2, <3>1, <3>2, <3>3 DEF Graph, Extends
    <3> QED
      BY <3>4, GraphExtends
  <2> QED
    BY <1>3, <1>4, <2>1 DEF LeastInv
<1>10. CompleteInv'
  <2>1. ASSUME ~changed' PROVE \A i \in Commands : i < index + 1 => Gives(i, w) \subseteq Graph(w)
    <3>1. ~changed /\ w = symbols
      BY <1>2, <2>1 DEF Resolved
    <3>2. \A i \in Commands : i < index => Gives(i, w) \subseteq Graph(w)
      BY <3>1 DEF CompleteInv
    <3>3. Gives(index, w) \subseteq Graph(w)
      BY <1>2, <3>1
    <3>4. \A i \in Commands : i < index + 1 => i < index \/ i = index
      BY <1>1, CommandFacts
    <3> QED
      BY <3>2, <3>3, <3>4
  <2>2. ~changed' => \A i \in Commands : i < index + 1 => Gives(i, w)' \subseteq Graph(w)
    BY <1>4, <2>1
  <2> QED
    BY <1>3, <1>4, <2>2 DEF CompleteInv, Graph
<1>11. ReadInv'
  <2>1. ASSUME NEW known \in SUBSET Commands, ReadFromAbove(known), NEW j \in known, j < index + 1
        PROVE  program[j].name \in DOMAIN w
    <3>1. \A k \in known : k < index => program[k].name \in DOMAIN symbols
      BY <2>1 DEF ReadInv
    <3>2. CASE j < index
      BY <1>2, <3>1, <3>2 DEF Extends
    <3>3. CASE j = index
      <4>1. CASE Command.kind \in {"label", "set"}
        <5>1. \E x : <<Command.name, x>> \in Gives(index, symbols)
          BY <1>1, <4>1 DEF Gives
        <5> QED
          BY <1>1, <1>2, <3>3, <5>1 DEF Graph
      <4>2. CASE Command.kind = "set_from"
        <5>1. PICK k \in known : k < j /\ program[k].name = Command.base
          BY <1>1, <2>1, <3>3, <4>2 DEF ReadFromAbove
        <5>2. Command.base \in DOMAIN symbols
          BY <3>1, <3>3, <5>1
        <5>3. \E x : <<Command.name, x>> \in Gives(index, symbols)
          BY <1>1, <4>2, <5>2 DEF Gives
        <5> QED
          BY <1>1, <1>2, <3>3, <5>3 DEF Graph
      <4> QED
        BY <1>1, <2>1, <3>3, <4>1, <4>2 DEF ReadFromAbove
    <3> QED
      BY <1>1, <2>1, <3>2, <3>3, CommandFacts
  <2> QED
    BY <1>3, <1>4, <2>1 DEF ReadInv
<1> QED
  BY <1>5, <1>7, <1>8, <1>9, <1>10, <1>11

\* No command contradicts the symbols of a program that has a layout.
LEMMA NoClash ==
  ASSUME PassesInv, stage = "resolve", Left, NEW v \in Values, Agrees(v),
         NEW d \in Definition(Command)
  PROVE  ~Clash(d[1], d[2])
<1> USE DEF PassesInv
<1>1. index \in Commands /\ Written /\ index \in Nat
  BY Reading DEF TypeInv
<1>2. Extends(v, symbols)
  BY DEF LeastInv
<1>3. Definition(Command) \subseteq Gives(index, v)
  BY <1>1, <1>2, DefinitionGives, GivesMore DEF PassInv
<1>4. d \in Graph(v)
  BY <1>1, <1>3 DEF Agrees, Graph
<1>5. PICK n \in DOMAIN v : d = <<n, v[n]>>
  BY <1>4 DEF Graph
<1> QED
  BY <1>2, <1>5 DEF Clash, Defined, Extends

\* What the text above gives is known by the time an org needs it.
LEMMA OriginHasValue ==
  ASSUME PassesInv, stage = "resolve", Left, OriginsKnown, NEW w, Extends(w, symbols)
  PROVE  ~NoOrigin(Command, w)
<1> USE DEF PassesInv
<1>1. index \in Commands
  BY Reading
<1>2. SUFFICES ASSUME Command.kind = "org_name" PROVE Command.name \in DOMAIN w
  BY DEF NoOrigin
<1>3. PICK known \in SUBSET Commands :
        /\ ReadFromAbove(known)
        /\ \A i \in Commands :
             program[i].kind = "org_name" => \E j \in known : j < i /\ program[j].name = program[i].name
  BY DEF OriginsKnown
<1>4. PICK j \in known : j < index /\ program[j].name = Command.name
  BY <1>1, <1>2, <1>3 DEF Command
<1> QED
  BY <1>3, <1>4 DEF ReadInv, Extends

\* Once the passes have ended, the symbols are the only layout there is.
LEMMA SymbolsAreLeast ==
  ASSUME PassesInv, stage \in {"place", "done"}
  PROVE  IsLayout(symbols)
<1> USE DEF PassesInv
<1>1. Agrees(symbols) /\ symbols \in Values
  BY DEF CompleteInv, TypeInv
<1>2. ASSUME NEW part \in SUBSET DOMAIN symbols, part # DOMAIN symbols,
             Agrees(Restrict(symbols, part))
      PROVE  FALSE
  <2>1. PICK w : w = Restrict(symbols, part)
    OBVIOUS
  <2>4. w = [n \in part |-> symbols[n]]
    BY <2>1 DEF Restrict
  <2>5. DOMAIN w = part /\ w \in [part -> Addresses]
    BY <1>1, <1>2, <2>4, ValueFacts
  <2>2. w \in Values
    BY <1>1, <2>5, ValueFacts, AreValues
  <2>3. Extends(w, symbols)
    BY <1>2, <2>1, <2>2 DEF LeastInv
  <2> QED
    BY <1>2, <2>3, <2>5 DEF Extends
<1> QED
  BY <1>1, <1>2 DEF IsLayout

LEMMA OnlyLayout ==
  ASSUME PassesInv, stage \in {"place", "done"}, NEW v \in Values, IsLayout(v)
  PROVE  v = symbols
<1> USE DEF PassesInv
<1>1. Agrees(symbols) /\ symbols \in Values
  BY DEF CompleteInv, TypeInv
<1>2. Extends(v, symbols)
  BY DEF LeastInv, IsLayout
<1>3. symbols \in [DOMAIN symbols -> Addresses] /\ v \in [DOMAIN v -> Addresses]
  BY <1>1, ValueFacts
<1>4. Restrict(v, DOMAIN symbols) = symbols
  BY <1>2, <1>3 DEF Restrict, Extends
<1>5. DOMAIN symbols = DOMAIN v
  BY <1>1, <1>2, <1>4 DEF IsLayout, Extends
<1> QED
  BY <1>2, <1>3, <1>5 DEF Extends

\* A pass without a new symbol ends with a layout.
LEMMA EndPassPasses ==
  ASSUME PassesInv, EndPass
  PROVE  PassesInv'
<1> USE DEF PassesInv
<1>1. /\ stage = "resolve" /\ index' = 1 /\ pc' = 0 /\ changed' = FALSE
      /\ program' = program /\ symbols' = symbols
      /\ stage' = IF changed THEN "resolve" ELSE "place"
      /\ index = Len(program) + 1 /\ Written /\ Len(program) \in Nat
  BY CommandFacts DEF EndPass, AnotherPass, Left, TypeInv
<1>2. /\ Commands' = Commands /\ Values' = Values
      /\ \A i, v : KnownOrigin(i, v)' <=> KnownOrigin(i, v)
      /\ \A i, v : Location(i, v)' = Location(i, v)
      /\ \A i, v : Gives(i, v)' = Gives(i, v)
      /\ \A v : Agrees(v)' <=> Agrees(v)
      /\ \A s : ReadFromAbove(s)' <=> ReadFromAbove(s)
  BY <1>1, SameProgram
<1>3. TypeInv'
  BY <1>1, <1>2, CommandFacts DEF TypeInv, Written
<1>4. \A i \in Commands : i \in Nat /\ i < index /\ ~(i < 1)
  BY <1>1, CommandFacts
<1>5. PassInv'
  <2>1. KnownOrigin(1, symbols) /\ Location(1, symbols) = 0
    BY <1>1, FirstLocation DEF TypeInv
  <2> QED
    BY <1>1, <1>2, <1>4, <2>1 DEF PassInv
<1>6. SupportInv' /\ LeastInv'
  BY <1>1, <1>2 DEF SupportInv, LeastInv, Gained, Extends
<1>7. ReadInv'
  BY <1>1, <1>2, <1>4 DEF ReadInv
<1>8. ~changed => Agrees(symbols)
  <2>1. ASSUME ~changed PROVE Agrees(symbols)
    <3>1. OriginsNamed(symbols)
      BY <1>1, <1>4 DEF PassInv, OriginsNamed
    <3>2. \A i \in Commands : Gives(i, symbols) \subseteq Graph(symbols)
      BY <1>1, <1>4, <2>1 DEF CompleteInv
    <3>3. UNION {Gives(i, symbols) : i \in Commands} \subseteq Graph(symbols)
      BY <3>2
    <3>4. Graph(symbols) \subseteq UNION {Gives(i, symbols) : i \in Commands}
      BY DEF SupportInv, Gained, Graph
    <3> QED
      BY <3>1, <3>3, <3>4 DEF Agrees, Graph
  <2> QED
    BY <2>1
<1>9. CompleteInv'
  BY <1>1, <1>2, <1>4, <1>8 DEF CompleteInv
<1> QED
  BY <1>3, <1>5, <1>6, <1>7, <1>9

\* A step that leaves the symbols and the stage alone.
LEMMA FailPasses ==
  ASSUME PassesInv, NEW why, Fail(why)
  PROVE  PassesInv'
<1> USE DEF PassesInv
<1>1. stage' = "failed" /\ program' = program /\ index' = index /\ symbols' = symbols
  BY DEF Fail
<1>2. /\ Commands' = Commands /\ Values' = Values
      /\ \A i, v : KnownOrigin(i, v)' <=> KnownOrigin(i, v)
      /\ \A i, v : Gives(i, v)' = Gives(i, v)
      /\ \A v : Agrees(v)' <=> Agrees(v)
  BY <1>1, SameProgram
<1>3. TypeInv'
  BY <1>1, <1>2 DEF TypeInv, Written
<1>4. SupportInv' /\ LeastInv'
  BY <1>1, <1>2 DEF SupportInv, LeastInv, Gained, Extends
<1>5. PassInv' /\ CompleteInv' /\ ReadInv'
  BY <1>1 DEF PassInv, CompleteInv, ReadInv
<1> QED
  BY <1>3, <1>4, <1>5

(***************************************************************************)
(* Branches.                                                                 *)
(***************************************************************************)
LEMMA DistanceFacts ==
  ASSUME NEW here \in Addresses, NEW to \in Addresses, NEW b \in Int,
         -(Page \div 2) <= b, b < Page \div 2
  PROVE  /\ Distance(to, here) \in Int
         /\ (here + 1 + b) % Space = to <=> Distance(to, here) = b
<1>1. PICK h \in Nat, g \in Nat, s \in Nat : h = Space \div 2 /\ g = Page \div 2 /\ s = Space
         /\ s = 2 * h /\ 2 * g <= h /\ s > 3
  BY Sizes
<1>2. here \in Nat /\ here < s /\ to \in Nat /\ to < s /\ b < g /\ -g <= b
  BY <1>1, AddressRange
<1>3. PICK next \in Nat : next = (here + 1) % s /\ next = IF here + 1 < s THEN here + 1 ELSE 0
  BY <1>1, <1>2, Small
<1>4. PICK d \in Int : d = to - next
  BY <1>2
<1>5. Distance(to, here) = IF d > h - 1 THEN d - s ELSE IF d < -h THEN d + s ELSE d
  <2>1. to - ((here + 1) % Space) = d
    BY <1>1, <1>3, <1>4
  <2>2. Distance(to, here) = CASE d > (Space \div 2) - 1 -> d - Space
                               [] d < -(Space \div 2) -> d + Space
                               [] OTHER -> d
    BY <2>1 DEF Distance
  <2>3. Distance(to, here) = CASE d > h - 1 -> d - s
                               [] d < -h -> d + s
                               [] OTHER -> d
    BY <1>1, <2>2, Zenon
  <2>4. /\ d > h - 1 => Distance(to, here) = d - s
        /\ d < -h => Distance(to, here) = d + s
        /\ ~(d > h - 1) /\ ~(d < -h) => Distance(to, here) = d
    BY <2>3
  <2> QED
    BY <1>1, <2>4
<1>6. PICK x \in Int : x = here + 1 + b
  BY <1>2
<1>7. x % s = IF x < 0 THEN x + s ELSE IF x < s THEN x ELSE x - s
  BY <1>1, <1>2, <1>6, Small
<1>8. x % s = to <=> Distance(to, here) = b
  BY <1>1, <1>2, <1>3, <1>4, <1>5, <1>6, <1>7
<1> QED
  BY <1>1, <1>4, <1>5, <1>6, <1>8

\* The distance of a branch is the operand that takes it there, if there is one.
LEMMA OffsetsAre ==
  ASSUME NEW here \in Addresses, NEW to \in Addresses
  PROVE  /\ InRange(Distance(to, here)) => Offsets(here, to) = {Distance(to, here) % Page}
         /\ ~InRange(Distance(to, here)) => Offsets(here, to) = {}
<1>1. PICK g \in Nat : g = Page \div 2 /\ Page = 2 * g /\ g > 0
  BY Sizes
<1>2. PICK d : d = Distance(to, here)
  OBVIOUS
<1>3. ASSUME NEW b \in 0 .. Page - 1
      PROVE  b \in Offsets(here, to) <=> d = (IF 2 * b < Page THEN b ELSE b - Page)
  <2>1. PICK c \in Int : c = (IF 2 * b < Page THEN b ELSE b - Page) /\ -g <= c /\ c < g
    BY <1>1, <1>3
  <2>2. (here + 1 + c) % Space = to <=> d = c
    BY <1>1, <1>2, <2>1, DistanceFacts
  <2> QED
    BY <1>3, <2>1, <2>2 DEF Offsets
<1>4. d \in Int
  <2>1. 0 \in Int /\ -(Page \div 2) <= 0 /\ 0 < Page \div 2
    BY <1>1
  <2> QED
    BY <1>2, <2>1, DistanceFacts
<1>5. CASE InRange(d)
  <2>1. -g <= d /\ d < g
    BY <1>1, <1>5 DEF InRange
  <2>2. PICK r \in Nat : r = d % Page /\ r = IF d < 0 THEN d + 2 * g ELSE d
    BY <1>1, <1>4, <2>1, Small
  <2>3. \A b \in 0 .. Page - 1 : d = (IF 2 * b < Page THEN b ELSE b - Page) <=> b = r
    BY <1>1, <1>4, <2>1, <2>2
  <2>4. r \in 0 .. Page - 1
    BY <1>1, <1>4, <2>1, <2>2
  <2>5. Offsets(here, to) \subseteq 0 .. Page - 1
    BY DEF Offsets
  <2>6. Offsets(here, to) = {r}
    BY <1>3, <2>3, <2>4, <2>5
  <2> QED
    BY <1>2, <1>5, <2>2, <2>6
<1>6. CASE ~InRange(d)
  <2>1. ~(-g <= d /\ d < g)
    BY <1>1, <1>6 DEF InRange
  <2>2. \A b \in 0 .. Page - 1 : d # (IF 2 * b < Page THEN b ELSE b - Page)
    BY <1>1, <1>4, <2>1
  <2>3. Offsets(here, to) \subseteq 0 .. Page - 1
    BY DEF Offsets
  <2> QED
    BY <1>2, <1>3, <1>6, <2>2, <2>3
<1> QED
  BY <1>2, <1>5, <1>6

(***************************************************************************)
(* Placing.                                                                  *)
(***************************************************************************)
Entries(w) == {w[k] : k \in DOMAIN w}

\* The writes of a command go to different addresses.
Spread(w) ==
  /\ \A k \in DOMAIN w : w[k] = <<w[k][1], w[k][2]>>
  /\ \A j, k \in DOMAIN w : w[j][1] = w[k][1] => j = k

\* put adds the entries it is given, in any order.
LEMMA PutGraph ==
  ASSUME NEW w, Spread(w)
  PROVE  LET o == Put(w)
         IN  ~Occupied(w) => Graph(o) = Graph(output) \cup Entries(w)
<1> SUFFICES ASSUME ~Occupied(w), NEW o, o = Put(w)
             PROVE  Graph(o) = Graph(output) \cup Entries(w)
  OBVIOUS
<1> DEFINE at == {w[k][1] : k \in DOMAIN w}
<1>1. at = {w[k][1] : k \in DOMAIN w}
  OBVIOUS
<1>2. o = [a \in DOMAIN output \cup at |->
             IF a \in at THEN w[CHOOSE k \in DOMAIN w : w[k][1] = a][2] ELSE output[a]]
  BY Zenon DEF Put
<1> HIDE DEF at
<1>3. DOMAIN o = DOMAIN output \cup at
  BY <1>2
<1>4. ASSUME NEW k \in DOMAIN w PROVE <<w[k][1], o[w[k][1]]>> = w[k]
  <2>1. w[k][1] \in at
    BY <1>1
  <2>2. (CHOOSE j \in DOMAIN w : w[j][1] = w[k][1]) = k
    BY DEF Spread
  <2>3. o[w[k][1]] = w[k][2]
    BY <1>2, <2>1, <2>2
  <2> QED
    BY <2>3 DEF Spread
<1>5. \A a \in DOMAIN output : a \notin at /\ o[a] = output[a]
  BY <1>1, <1>2 DEF Occupied
<1>6. Graph(output) \subseteq Graph(o)
  BY <1>3, <1>5 DEF Graph
<1>7. Entries(w) \subseteq Graph(o)
  <2> SUFFICES ASSUME NEW k \in DOMAIN w PROVE w[k] \in Graph(o)
    BY DEF Entries
  <2>1. w[k][1] \in DOMAIN o
    BY <1>1, <1>3
  <2> QED
    BY <1>4, <2>1 DEF Graph
<1>8. ASSUME NEW a \in DOMAIN o PROVE <<a, o[a]>> \in Graph(output) \cup Entries(w)
  <2>1. CASE a \in DOMAIN output
    BY <1>5, <2>1 DEF Graph
  <2>2. CASE a \in at
    <3>1. PICK k \in DOMAIN w : a = w[k][1]
      BY <1>1, <2>2
    <3> QED
      BY <1>4, <3>1 DEF Entries
  <2> QED
    BY <1>3, <2>1, <2>2
<1> QED
  BY <1>6, <1>7, <1>8 DEF Graph

LEMMA OneWrite ==
  ASSUME NEW a, NEW x
  PROVE  Spread(<<<<a, x>>>>) /\ Entries(<<<<a, x>>>>) = {<<a, x>>}
BY DEF Spread, Entries

LEMMA TwoWrites ==
  ASSUME NEW a \in Addresses, NEW v
  PROVE  Spread(TwoBytes(a, v)) /\ Entries(TwoBytes(a, v)) = WordAt(a, v)
<1>1. (a + 1) % Space # a
  BY Sizes, AddressRange, Small
<1>2. PICK b, x, y : b = (a + 1) % Space /\ x = v % Page /\ y = v \div Page
  OBVIOUS
<1>3. TwoBytes(a, v) = <<<<a, x>>, <<b, y>>>> /\ WordAt(a, v) = {<<a, x>>, <<b, y>>}
  BY <1>2 DEF TwoBytes, WordAt
<1> QED
  BY <1>1, <1>2, <1>3 DEF Spread, Entries

LEMMA NoWrites == Spread(<< >>) /\ Entries(<< >>) = {}
BY DEF Spread, Entries

LEMMA ValueReached ==
  ASSUME TypeInv, NEW t \in Targets, Known(t)
  PROVE  Value(t) = Reaches(t, symbols) /\ Value(t) \in Addresses
<1>1. Value(t) = Reaches(t, symbols)
  BY DEF Value, Reaches
<1>2. CASE t.name = NoName
  BY <1>1, <1>2, TargetFacts DEF Value
<1>3. CASE t.name # NoName
  <2>1. symbols[t.name] \in Nat /\ t.disp \in Int
    BY <1>3, TargetFacts, ValueFacts, AddressRange DEF Known, Defined, TypeInv
  <2>2. (symbols[t.name] + t.disp) % Space \in Addresses
    BY <2>1, Sizes, AddressRange, Quotient
  <2> QED
    BY <1>1, <1>3, <2>2 DEF Value
<1> QED
  BY <1>2, <1>3

\* What place writes is what the command stands for.
LEMMA WritesEmit ==
  ASSUME TypeInv, PassInv, stage = "place", Left, ~Undefined(Command)
  PROVE  /\ ~TooFar(Command) => /\ Spread(Writes(Command))
                                /\ Entries(Writes(Command)) = Emits(index, symbols)
         /\ TooFar(Command) => Command.kind = "relative" /\ Emits(index, symbols) = {}
         /\ ~TooFar(Command) /\ Command.kind = "relative" => Emits(index, symbols) # {}
<1>1. /\ index \in Commands /\ index \in Nat /\ Written /\ symbols \in Values
      /\ KnownOrigin(index, symbols) /\ pc = Location(index, symbols)
  BY Reading DEF PassInv, TypeInv
<1>2. pc \in Addresses
  BY <1>1, BaseFacts
<1>3. PICK c \in Statements : c = Command /\ c = program[index]
  BY Reading DEF Command
<1>4. HasTarget(c) => /\ c.target \in Targets
                      /\ Value(c.target) = Reaches(c.target, symbols)
                      /\ Value(c.target) \in Addresses
  BY <1>3, StatementFacts, ValueReached DEF Undefined
<1>5. CASE c.kind = "byte"
  <2>1. Writes(c) = <<<<pc, c.value>>>> /\ Emits(index, symbols) = {<<pc, c.value>>}
    BY <1>1, <1>3, <1>5 DEF Writes, Emits
  <2> QED
    BY <1>3, <1>5, <2>1, OneWrite DEF TooFar
<1>6. CASE c.kind = "low"
  <2>1. Writes(c) = <<<<pc, Value(c.target) % Page>>>>
    BY <1>6 DEF Writes
  <2>2. Emits(index, symbols) = {<<pc, Value(c.target) % Page>>}
    BY <1>1, <1>3, <1>4, <1>6 DEF Emits, HasTarget
  <2> QED
    BY <1>3, <1>6, <2>1, <2>2, OneWrite DEF TooFar
<1>7. CASE c.kind = "word"
  <2>1. Writes(c) = TwoBytes(pc, Value(c.target))
    BY <1>7 DEF Writes
  <2>2. Emits(index, symbols) = WordAt(pc, Value(c.target))
    BY <1>1, <1>3, <1>4, <1>7 DEF Emits, HasTarget
  <2> QED
    BY <1>2, <1>3, <1>7, <2>1, <2>2, TwoWrites DEF TooFar
<1>8. CASE c.kind = "fixed"
  <2>1. Writes(c) = TwoBytes(c.at, Value(c.target)) /\ c.at \in Addresses
    BY <1>8, StatementFacts DEF Writes
  <2>2. Emits(index, symbols) = WordAt(c.at, Value(c.target))
    BY <1>1, <1>3, <1>4, <1>8 DEF Emits, HasTarget
  <2> QED
    BY <1>3, <1>8, <2>1, <2>2, TwoWrites DEF TooFar
<1>9. CASE c.kind = "relative"
  <2>1. PICK d : d = Distance(Value(c.target), pc)
    OBVIOUS
  <2>2. Writes(c) = <<<<pc, d % Page>>>>
    BY <1>9, <2>1 DEF Writes
  <2>3. Emits(index, symbols) = {<<pc, b>> : b \in Offsets(pc, Value(c.target))}
    BY <1>1, <1>3, <1>4, <1>9 DEF Emits, HasTarget
  <2>4. TooFar(c) <=> ~InRange(d)
    BY <1>9, <2>1 DEF TooFar
  <2>5. /\ InRange(d) => Offsets(pc, Value(c.target)) = {d % Page}
        /\ ~InRange(d) => Offsets(pc, Value(c.target)) = {}
    BY <1>2, <1>4, <1>9, <2>1, OffsetsAre DEF HasTarget
  <2>6. CASE InRange(d)
    <3>1. Emits(index, symbols) = {<<pc, d % Page>>}
      BY <2>3, <2>5, <2>6
    <3> QED
      BY <1>3, <2>2, <2>4, <2>6, <3>1, OneWrite
  <2>7. CASE ~InRange(d)
    BY <1>3, <1>9, <2>3, <2>4, <2>5, <2>7
  <2> QED
    BY <2>6, <2>7
<1>10. CASE c.kind \notin {"byte", "low", "word", "fixed", "relative"}
  <2>1. Writes(c) = << >> /\ Emits(index, symbols) = {}
    BY <1>3, <1>10 DEF Writes, Emits
  <2> QED
    BY <1>3, <1>10, <2>1, NoWrites DEF TooFar
<1> QED
  BY <1>5, <1>6, <1>7, <1>8, <1>9, <1>10

\* What the commands before n have written, and that nothing was in the way.
Out(n) == UNION {Emits(i, symbols) : i \in {j \in Commands : j < n}}
Fine(n) ==
  /\ \A i \in Commands : i < n /\ HasTarget(program[i]) =>
       program[i].target.name \in DOMAIN symbols \cup {NoName}
  /\ \A i \in Commands : i < n /\ program[i].kind = "relative" => Emits(i, symbols) # {}
  /\ \A i, j \in Commands : i < n /\ j < n /\ i # j =>
       \A a \in Emits(i, symbols), b \in Emits(j, symbols) : a[1] # b[1]

PlaceInv ==
  /\ stage = "resolve" => DOMAIN output = {}
  /\ stage \in {"place", "done"} => Graph(output) = Out(index) /\ Fine(index)
  /\ stage = "done" => index = Len(program) + 1

PlacedWell ==
  /\ stage = "place" /\ Left
  /\ ~Undefined(Command) /\ ~TooFar(Command) /\ ~Occupied(Writes(Command))
  /\ output' = Put(Writes(Command))
  /\ Advance(Command, symbols)
  /\ UNCHANGED <<program, stage, symbols, changed, error>>

LEMMA FirstPlaced ==
  ASSUME Written
  PROVE  Out(1) = {} /\ Fine(1)
<1>1. \A i \in Commands : ~(i < 1)
  BY CommandFacts
<1> QED
  BY <1>1 DEF Out, Fine

\* Placing one command: the address goes on, the symbols stay.
LEMMA PlacedPasses ==
  ASSUME PassesInv, PlacedWell
  PROVE  PassesInv'
<1> USE DEF PassesInv
<1>1. /\ index \in Commands /\ index \in Nat /\ Command \in Statements /\ Written
      /\ index + 1 \in Nat /\ index + 1 <= Len(program) + 1 /\ Command = program[index]
      /\ symbols \in Values
  BY Reading DEF TypeInv, Command, PlacedWell
<1>2. /\ program' = program /\ symbols' = symbols /\ index' = index + 1 /\ stage' = "place"
      /\ pc' = Follow(Command, pc, symbols) /\ stage = "place"
  BY NextPcFollows DEF PlacedWell, Advance
<1>3. /\ Commands' = Commands /\ Values' = Values
      /\ \A i, v : KnownOrigin(i, v)' <=> KnownOrigin(i, v)
      /\ \A i, v : Location(i, v)' = Location(i, v)
      /\ \A i, v : Gives(i, v)' = Gives(i, v)
      /\ \A v : Agrees(v)' <=> Agrees(v)
  BY <1>2, SameProgram
<1>4. TypeInv'
  BY <1>1, <1>2, <1>3 DEF TypeInv, Written
<1>5. PassInv'
  <2>1. KnownOrigin(index, symbols) /\ pc = Location(index, symbols)
    BY <1>2 DEF PassInv
  <2>2. \A i \in Commands : program[i].kind = "org_name" => program[i].name \in DOMAIN symbols
    BY <1>2 DEF CompleteInv, Agrees, OriginsNamed
  <2>3. KnownOrigin(index + 1, symbols)
        /\ Location(index + 1, symbols) = Follow(Command, pc, symbols)
    BY <1>1, <2>1, <2>2, NextLocation
  <2> QED
    BY <1>2, <1>3, <2>2, <2>3 DEF PassInv
<1>6. SupportInv' /\ LeastInv'
  BY <1>2, <1>3 DEF SupportInv, LeastInv, Gained, Extends
<1>7. CompleteInv' /\ ReadInv'
  BY <1>2, <1>3 DEF CompleteInv, ReadInv
<1> QED
  BY <1>4, <1>5, <1>6, <1>7

\* Placing one command: its bytes join those before it, and meet none of them.
LEMMA PlacedOut ==
  ASSUME PassesInv, PlaceInv, PlacedWell
  PROVE  PlaceInv'
<1> USE DEF PassesInv
<1>1. /\ index \in Commands /\ index \in Nat /\ Command = program[index] /\ Command \in Statements
      /\ stage = "place" /\ Written
  BY Reading DEF Command, PlacedWell, TypeInv
<1>2. /\ program' = program /\ symbols' = symbols /\ index' = index + 1 /\ stage' = "place"
  BY DEF PlacedWell, Advance
<1>3. Commands' = Commands /\ \A i, v : Emits(i, v)' = Emits(i, v)
  BY <1>2, SameProgram
<1>4. /\ Spread(Writes(Command))
      /\ Entries(Writes(Command)) = Emits(index, symbols)
      /\ Command.kind = "relative" => Emits(index, symbols) # {}
  BY WritesEmit DEF PlacedWell
<1>5. Graph(output') = Graph(output) \cup Emits(index, symbols)
  BY <1>4, PutGraph DEF PlacedWell
<1>6. Graph(output) = Out(index) /\ Fine(index)
  BY <1>1 DEF PlaceInv
<1>7. \A i \in Commands : i < index + 1 <=> (i < index \/ i = index)
  BY <1>1, CommandFacts
<1>8. Out(index + 1) = Out(index) \cup Emits(index, symbols)
  BY <1>1, <1>7 DEF Out
<1>9. Fine(index + 1)
  <2>1. ASSUME NEW j \in Commands, j < index,
               NEW a \in Emits(index, symbols), NEW b \in Emits(j, symbols)
        PROVE  a[1] # b[1]
    <3>1. PICK k \in DOMAIN Writes(Command) : a = Writes(Command)[k]
      BY <1>4, <2>1 DEF Entries
    <3>2. a[1] \notin DOMAIN output
      BY <3>1 DEF Occupied, PlacedWell
    <3>3. b \in Graph(output)
      BY <1>6, <2>1 DEF Out
    <3>4. b[1] \in DOMAIN output
      BY <3>3 DEF Graph
    <3> QED
      BY <3>2, <3>4
  <2>2. HasTarget(Command) => Command.target.name \in DOMAIN symbols \cup {NoName}
    BY DEF PlacedWell, Undefined, Known, Defined
  <2>3. /\ \A i \in Commands : i < index + 1 /\ HasTarget(program[i]) =>
             program[i].target.name \in DOMAIN symbols \cup {NoName}
        /\ \A i \in Commands : i < index + 1 /\ program[i].kind = "relative" =>
             Emits(i, symbols) # {}
    BY <1>1, <1>4, <1>6, <1>7, <2>2 DEF Fine
  <2>4. ASSUME NEW i \in Commands, NEW j \in Commands, i < index + 1, j < index + 1, i # j,
               NEW a \in Emits(i, symbols), NEW b \in Emits(j, symbols)
        PROVE  a[1] # b[1]
    <3>1. CASE i < index /\ j < index
      BY <1>6, <2>4, <3>1 DEF Fine
    <3>2. CASE i = index /\ j < index
      BY <2>1, <2>4, <3>2
    <3>3. CASE i < index /\ j = index
      BY <2>1, <2>4, <3>3
    <3> QED
      BY <1>7, <2>4, <3>1, <3>2, <3>3
  <2> QED
    BY <2>3, <2>4 DEF Fine
<1>10. Graph(output') = Out(index + 1)
  BY <1>5, <1>6, <1>8
<1>11. Graph(output)' = Out(index)' /\ Fine(index)'
  <2>1. Graph(output)' = Graph(output') /\ Out(index)' = Out(index + 1)
    BY <1>2, <1>3 DEF Graph, Out
  <2>2. Fine(index)'
    BY <1>2, <1>3, <1>9 DEF Fine
  <2> QED
    BY <1>10, <2>1, <2>2
<1> QED
  BY <1>2, <1>11 DEF PlaceInv

(***************************************************************************)
(* The steps together.                                                       *)
(***************************************************************************)
Inv == PassesInv /\ PlaceInv /\ FailureJustified

LEMMA SameFailure ==
  ASSUME program' = program, stage' = stage
  PROVE  FailureJustified' <=> FailureJustified
<1>1. \A v : Agrees(v)' <=> Agrees(v)
  BY SameProgram
<1>2. \A v : IsLayout(v)' <=> IsLayout(v)
  BY <1>1 DEF IsLayout
<1> QED
  BY <1>2, SameProgram DEF FailureJustified

\* A failure needs a reason.
LEMMA FailJustified ==
  ASSUME NEW why, Fail(why),
         ASSUME NEW v \in Values, OriginsKnown, Agrees(v), IsLayout(v), Writable(v) PROVE FALSE
  PROVE  FailureJustified'
<1>1. program' = program
  BY DEF Fail
<1>2. \A v : Agrees(v)' <=> Agrees(v)
  BY <1>1, SameProgram
<1>3. \A v : IsLayout(v)' <=> IsLayout(v)
  BY <1>2 DEF IsLayout
<1>4. Values' = Values /\ (OriginsKnown' <=> OriginsKnown) /\ \A v : Writable(v)' <=> Writable(v)
  BY <1>1, SameProgram
<1> QED
  BY <1>2, <1>3, <1>4 DEF FailureJustified

LEMMA FailKeeps ==
  ASSUME Inv, NEW why, Fail(why), FailureJustified'
  PROVE  Inv'
<1>1. PassesInv'
  BY FailPasses DEF Inv
<1>2. PlaceInv'
  BY DEF Fail, PlaceInv
<1> QED
  BY <1>1, <1>2 DEF Inv

LEMMA ResolveStep ==
  ASSUME Inv, Resolve
  PROVE  Inv'
<1>1. stage = "resolve" /\ Left /\ PassesInv
  BY DEF Resolve, Inv
<1>2. PICK w : w = With(Definition(Command))
  OBVIOUS
<1>3. CASE \E d \in Definition(Command) : Clash(d[1], d[2]) /\ Fail("redefined")
  <2>1. PICK d \in Definition(Command) : Clash(d[1], d[2])
    BY <1>3
  <2>2. Fail("redefined")
    BY <1>3
  <2>3. FailureJustified'
    <3>1. ASSUME NEW v \in Values, Agrees(v) PROVE FALSE
      BY <1>1, <2>1, <3>1, NoClash
    <3> QED
      BY <2>2, <3>1, FailJustified
  <2> QED
    BY <2>2, <2>3, FailKeeps
<1>4. CASE /\ \A d \in Definition(Command) : ~Clash(d[1], d[2])
           /\ NoOrigin(Command, w)
           /\ Fail("origin")
  <2>1. Extends(w, symbols)
    BY <1>1, <1>2, <1>4, WithGives DEF PassesInv
  <2>2. FailureJustified'
    <3>1. ASSUME OriginsKnown PROVE FALSE
      BY <1>1, <1>4, <2>1, <3>1, OriginHasValue
    <3> QED
      BY <1>4, <3>1, FailJustified
  <2> QED
    BY <1>4, <2>2, FailKeeps
<1>5. CASE Resolved(w)
  <2>1. PassesInv'
    BY <1>1, <1>5, ResolvedPasses
  <2>2. PlaceInv' /\ FailureJustified'
    BY <1>1, <1>5 DEF Inv, Resolved, PlaceInv, FailureJustified
  <2> QED
    BY <2>1, <2>2 DEF Inv
<1> QED
  BY <1>2, <1>3, <1>4, <1>5 DEF Resolve, Resolved, Advance

LEMMA EndPassStep ==
  ASSUME Inv, EndPass
  PROVE  Inv'
<1>1. PassesInv'
  BY EndPassPasses DEF Inv
<1>2. /\ stage = "resolve" /\ index' = 1 /\ program' = program /\ symbols' = symbols
      /\ output' = output /\ stage' \in {"resolve", "place"} /\ Written
  BY DEF EndPass, Inv, PassesInv, TypeInv
<1>3. Commands' = Commands /\ \A i, v : Emits(i, v)' = Emits(i, v)
  BY <1>2, SameProgram
<1>4. Out(1)' = Out(1) /\ (Fine(1)' <=> Fine(1))
  BY <1>2, <1>3 DEF Out, Fine
<1>5. DOMAIN output' = {} /\ Graph(output)' = {}
  BY <1>2 DEF Inv, PlaceInv, Graph
<1>6. Graph(output)' = Out(index)' /\ Fine(index)'
  <2>1. Out(index)' = Out(1)' /\ (Fine(index)' <=> Fine(1)')
    BY <1>2 DEF Out, Fine
  <2> QED
    BY <1>2, <1>4, <1>5, <2>1, FirstPlaced
<1>7. PlaceInv' /\ FailureJustified'
  BY <1>2, <1>5, <1>6 DEF PlaceInv, FailureJustified
<1> QED
  BY <1>1, <1>7 DEF Inv

\* Placing refuses only what no layout allows.
LEMMA PlaceStep ==
  ASSUME Inv, Place
  PROVE  Inv'
<1>1. stage = "place" /\ Left /\ PassesInv /\ PlaceInv /\ TypeInv /\ PassInv
  BY DEF Place, Inv, PassesInv
<1>2. index \in Commands /\ index \in Nat /\ Command = program[index]
  BY <1>1, Reading DEF Command
<1>3. CASE Undefined(Command) /\ Fail("undefined")
  <2>1. ASSUME Writable(symbols) PROVE FALSE
    BY <1>2, <1>3, <2>1 DEF Writable, Undefined, Known, Defined
  <2>2. FailureJustified'
    BY <1>1, <1>3, <2>1, OnlyLayout, FailJustified
  <2> QED
    BY <1>3, <2>2, FailKeeps
<1>4. CASE ~Undefined(Command) /\ TooFar(Command) /\ Fail("range")
  <2>1. ASSUME Writable(symbols) PROVE FALSE
    <3>1. Command.kind = "relative" /\ Emits(index, symbols) = {}
      BY <1>1, <1>4, WritesEmit
    <3> QED
      BY <1>2, <2>1, <3>1 DEF Writable
  <2>2. FailureJustified'
    BY <1>1, <1>4, <2>1, OnlyLayout, FailJustified
  <2> QED
    BY <1>4, <2>2, FailKeeps
<1>5. CASE ~Undefined(Command) /\ ~TooFar(Command) /\ Occupied(Writes(Command)) /\ Fail("overwrite")
  <2>1. ASSUME Writable(symbols) PROVE FALSE
    <3>1. PICK k \in DOMAIN Writes(Command) : Writes(Command)[k][1] \in DOMAIN output
      BY <1>5 DEF Occupied
    <3>2. PICK a : a = Writes(Command)[k] /\ a \in Emits(index, symbols)
      BY <1>1, <1>5, <3>1, WritesEmit DEF Entries
    <3>3. PICK b : b = <<a[1], output[a[1]]>> /\ b \in Graph(output)
      BY <3>1, <3>2 DEF Graph
    <3>4. PICK j \in Commands : j < index /\ b \in Emits(j, symbols)
      BY <1>1, <3>3 DEF PlaceInv, Out
    <3>5. j # index /\ a[1] = b[1]
      BY <1>2, <3>3, <3>4
    <3> QED
      BY <1>2, <2>1, <3>2, <3>4, <3>5 DEF Writable
  <2>2. FailureJustified'
    BY <1>1, <1>5, <2>1, OnlyLayout, FailJustified
  <2> QED
    BY <1>5, <2>2, FailKeeps
<1>6. CASE PlacedWell
  <2>1. PassesInv' /\ PlaceInv'
    BY <1>1, <1>6, PlacedPasses, PlacedOut
  <2>2. FailureJustified'
    BY <1>1, <1>6 DEF PlacedWell, FailureJustified
  <2> QED
    BY <2>1, <2>2 DEF Inv
<1> QED
  BY <1>3, <1>4, <1>5, <1>6 DEF Place, PlacedWell

LEMMA FinishStep ==
  ASSUME Inv, Finish
  PROVE  Inv'
<1> USE DEF Inv, PassesInv
<1>1. /\ stage = "place" /\ stage' = "done" /\ program' = program
      /\ index' = index /\ symbols' = symbols
      /\ output' = output /\ index = Len(program) + 1
  BY CommandFacts DEF Finish, Left, TypeInv
<1>2. /\ Commands' = Commands /\ Values' = Values
      /\ \A i, v : KnownOrigin(i, v)' <=> KnownOrigin(i, v)
      /\ \A i, v : Gives(i, v)' = Gives(i, v)
      /\ \A i, v : Emits(i, v)' = Emits(i, v)
      /\ \A v : Agrees(v)' <=> Agrees(v)
  BY <1>1, SameProgram
<1>3. TypeInv' /\ PassInv' /\ ReadInv'
  BY <1>1, <1>2 DEF TypeInv, Written, PassInv, ReadInv
<1>4. SupportInv' /\ LeastInv'
  BY <1>1, <1>2 DEF SupportInv, LeastInv, Gained, Extends
<1>5. CompleteInv'
  BY <1>1, <1>2 DEF CompleteInv
<1>6. PlaceInv'
  <2>1. Out(index)' = Out(index) /\ (Fine(index)' <=> Fine(index)) /\ Graph(output)' = Graph(output)
    BY <1>1, <1>2 DEF Out, Fine, Graph
  <2> QED
    BY <1>1, <2>1 DEF PlaceInv
<1>7. FailureJustified'
  BY <1>1 DEF FailureJustified
<1> QED
  BY <1>3, <1>4, <1>5, <1>6, <1>7

LEMMA StutterStep ==
  ASSUME Inv, UNCHANGED vars
  PROVE  Inv'
<1> USE DEF Inv, PassesInv
<1>1. /\ stage' = stage /\ program' = program /\ index' = index /\ symbols' = symbols
      /\ output' = output /\ pc' = pc /\ changed' = changed
  BY DEF vars
<1>2. /\ Commands' = Commands /\ Values' = Values
      /\ \A i, v : KnownOrigin(i, v)' <=> KnownOrigin(i, v)
      /\ \A i, v : Location(i, v)' = Location(i, v)
      /\ \A i, v : Gives(i, v)' = Gives(i, v)
      /\ \A i, v : Emits(i, v)' = Emits(i, v)
      /\ \A v : Agrees(v)' <=> Agrees(v)
      /\ \A s : ReadFromAbove(s)' <=> ReadFromAbove(s)
  BY <1>1, SameProgram
<1>3. TypeInv' /\ PassInv' /\ ReadInv'
  BY <1>1, <1>2 DEF TypeInv, Written, PassInv, ReadInv
<1>4. SupportInv' /\ LeastInv'
  BY <1>1, <1>2 DEF SupportInv, LeastInv, Gained, Extends
<1>5. CompleteInv'
  BY <1>1, <1>2 DEF CompleteInv, Graph
<1>6. PlaceInv'
  <2>1. Out(index)' = Out(index) /\ (Fine(index)' <=> Fine(index)) /\ Graph(output)' = Graph(output)
    BY <1>1, <1>2 DEF Out, Fine, Graph
  <2> QED
    BY <1>1, <2>1 DEF PlaceInv
<1>7. FailureJustified'
  BY <1>1, SameFailure
<1> QED
  BY <1>3, <1>4, <1>5, <1>6, <1>7

LEMMA Invariance == Spec => []Inv
<1>1. Init => Inv
  <2> SUFFICES ASSUME Init PROVE Inv
    OBVIOUS
  <2>1. PlaceInv /\ FailureJustified
    BY DEF Init, PlaceInv, FailureJustified
  <2> QED
    BY <2>1, InitialPasses DEF Inv
<1>2. Inv /\ [Next]_vars => Inv'
  BY ResolveStep, EndPassStep, PlaceStep, FinishStep, StutterStep DEF Next
<1> QED
  BY <1>1, <1>2, PTL DEF Spec

\* At the end every command has been placed.
LEMMA DoneRight == Inv => LayoutCorrect
<1> SUFFICES ASSUME Inv, stage = "done"
             PROVE  IsLayout(symbols) /\ Writable(symbols)
                    /\ Graph(output) = UNION {Emits(i, symbols) : i \in Commands}
  BY DEF LayoutCorrect, Graph
<1>1. index = Len(program) + 1 /\ Graph(output) = Out(index) /\ Fine(index) /\ PassesInv /\ Written
  BY DEF Inv, PlaceInv, PassesInv, TypeInv
<1>2. \A i \in Commands : i < index
  BY <1>1, CommandFacts
<1>3. {j \in Commands : j < index} = Commands
  BY <1>2
<1>4. Out(index) = UNION {Emits(i, symbols) : i \in Commands}
  BY <1>3 DEF Out
<1>5. Writable(symbols)
  BY <1>1, <1>2 DEF Fine, Writable
<1> QED
  BY <1>1, <1>4, <1>5, SymbolsAreLeast

\* When compile_to_map (asm6502.cpp) returns, its symbols are the least layout of the
\* program, and the map holds the bytes of each command at its place and no others.
THEOREM SuccessIsALayout == Spec => []LayoutCorrect
BY Invariance, DoneRight, PTL

\* It throws only if the program has no layout that can be written out, or moves to a
\* name that nothing above gives: the number and order of passes refuse nothing.
THEOREM NoLegalProgramIsRefused == Spec => []FailureJustified
<1>1. Inv => FailureJustified
  BY DEF Inv
<1> QED
  BY <1>1, Invariance, PTL
=============================================================================
