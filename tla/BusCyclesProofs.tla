----------------------------- MODULE BusCyclesProofs -----------------------------
(***************************************************************************)
(* The CPU on its bus stays within its types and within the rows of the control  *)
(* store, for every width of a byte, every program, and every host; and a        *)
(* snapshot, taken at any moment, loses nothing.                               *)
(***************************************************************************)
EXTENDS BusCycles, SequenceTheorems, TLAPS

-----------------------------------------------------------------------------
(* Snapshots: what is loaded is what was saved. *)

\* A short is the two bytes it is written as, the upper one first.
LEMMA ShortBytes ==
  ASSUME NEW n \in Snap!Short
  PROVE  /\ Snap!UpperByte(n) \in Snap!Byte
         /\ Snap!LowerByte(n) \in Snap!Byte
         /\ 256 * Snap!UpperByte(n) + Snap!LowerByte(n) = n
BY DEF Snap!Short, Snap!Byte, Snap!UpperByte, Snap!LowerByte

\* The packed tick of the ABI carries address, bus and status without loss.
THEOREM TickRoundTrip ==
  ASSUME NEW t \in Snap!Tick
  PROVE  Snap!UnpackTick(Snap!PackTick(t)) = t
<1>1. t = [address |-> t.address, bus |-> t.bus, status |-> t.status]
  BY DEF Snap!Tick
<1>2. 256 * Snap!UpperByte(t.address) + Snap!LowerByte(t.address) = t.address
  BY ShortBytes DEF Snap!Tick
<1> QED
  BY <1>1, <1>2 DEF Snap!UnpackTick, Snap!PackTick

\* The first 24 of the 64 bytes, one by one.
LEMMA SavedBytes ==
  ASSUME NEW ctx, NEW packed, NEW k \in 1..24
  PROVE  Snap!Save(ctx, packed)[k] = Snap!Bytes24(ctx, packed)[k]
BY DEF Snap!Save

\* A context keeps its header and its CPU through qe6502abi_save and qe6502abi_load,
\* and the tick comes back with them.
THEOREM ContextRoundTrip ==
  ASSUME NEW c \in Snap!Cpu, NEW m \in Snap!Short, NEW v \in Snap!Short,
         NEW s \in Snap!Byte, NEW b \in Snap!Byte, NEW h \in Snap!Byte, NEW l \in Snap!Byte
  PROVE  LET ctx == [magic |-> m, version |-> v, cpu |-> c]
         IN  Snap!Load(Snap!Save(ctx, <<s, b, h, l>>)) = [ctx |-> ctx, packed |-> <<s, b, h, l>>]
<1> DEFINE ctx == [magic |-> m, version |-> v, cpu |-> c]
           packed == <<s, b, h, l>>
           bytes == Snap!Save(ctx, packed)
<1>1. c = [model |-> c.model, reserved_extension |-> c.reserved_extension,
           microcode |-> c.microcode, la |-> c.la, ld |-> c.ld, hijack |-> c.hijack, pc |-> c.pc,
           s |-> c.s, a |-> c.a, x |-> c.x, y |-> c.y, p |-> c.p, interrupts |-> c.interrupts]
  BY DEF Snap!Cpu
<1>2. /\ bytes[1] = Snap!UpperByte(m) /\ bytes[2] = Snap!LowerByte(m)
      /\ bytes[3] = Snap!UpperByte(v) /\ bytes[4] = Snap!LowerByte(v)
      /\ bytes[5] = c.model /\ bytes[6] = c.reserved_extension
      /\ bytes[7] = Snap!UpperByte(c.microcode) /\ bytes[8] = Snap!LowerByte(c.microcode)
      /\ bytes[9] = Snap!UpperByte(c.la) /\ bytes[10] = Snap!LowerByte(c.la)
      /\ bytes[11] = c.ld /\ bytes[12] = c.hijack
      /\ bytes[13] = Snap!UpperByte(c.pc) /\ bytes[14] = Snap!LowerByte(c.pc)
      /\ bytes[15] = c.s /\ bytes[16] = c.a /\ bytes[17] = c.x /\ bytes[18] = c.y
      /\ bytes[19] = c.p /\ bytes[20] = c.interrupts
      /\ bytes[21] = s /\ bytes[22] = b /\ bytes[23] = h /\ bytes[24] = l
  BY SavedBytes DEF Snap!Bytes24
<1>3. /\ Snap!ReadU16(bytes, 1) = m /\ Snap!ReadU16(bytes, 3) = v
      /\ Snap!ReadU16(bytes, 7) = c.microcode
      /\ Snap!ReadU16(bytes, 9) = c.la
      /\ Snap!ReadU16(bytes, 13) = c.pc
  <2> HIDE DEF bytes
  <2>1. c.microcode \in Snap!Short /\ c.la \in Snap!Short /\ c.pc \in Snap!Short
    BY DEF Snap!Cpu
  <2> QED
    BY <1>2, <2>1, ShortBytes DEF Snap!ReadU16
<1>4. Snap!ReadCpu(bytes) = c
  <2> HIDE DEF bytes
  <2> QED
    BY <1>1, <1>2, <1>3 DEF Snap!ReadCpu
<1> HIDE DEF bytes
<1>5. Snap!Load(bytes) = [ctx |-> ctx, packed |-> packed]
  BY <1>2, <1>3, <1>4 DEF Snap!Load
<1> QED
  BY <1>5 DEF bytes

\* A CPU saved at any moment, with the tick on its pins, is loaded as it was: the
\* microcode counter, both latches, the request taken and the pins included.
THEOREM RoundTrip ==
  ASSUME NEW c \in Snap!Cpu, NEW t \in Snap!Tick
  PROVE  Snap!Loaded(Snap!Saved(c, t)) = [cpu |-> c, tick |-> t]
<1> DEFINE packed == Snap!PackTick(t)
<1>1. /\ packed = <<packed[1], packed[2], packed[3], packed[4]>>
      /\ packed[1] \in Snap!Byte /\ packed[2] \in Snap!Byte /\ packed[3] \in Snap!Byte /\ packed[4] \in Snap!Byte
  BY ShortBytes DEF Snap!PackTick, Snap!Tick
<1>2. Snap!Magic \in Snap!Short /\ Snap!Version \in Snap!Short
  BY DEF Snap!Magic, Snap!Version, Snap!Short
<1> HIDE DEF packed
<1>3. Snap!Load(Snap!Save([magic |-> Snap!Magic, version |-> Snap!Version, cpu |-> c],
                <<packed[1], packed[2], packed[3], packed[4]>>))
        = [ctx |-> [magic |-> Snap!Magic, version |-> Snap!Version, cpu |-> c],
           packed |-> <<packed[1], packed[2], packed[3], packed[4]>>]
  BY <1>1, <1>2, ContextRoundTrip
<1>4. Snap!Load(Snap!Saved(c, t)) = [ctx |-> Snap!Context(c), packed |-> packed]
  BY <1>1, <1>3 DEF Snap!Saved, Snap!Context, packed
<1>5. Snap!UnpackTick(packed) = t
  BY TickRoundTrip DEF packed
<1> QED
  BY <1>4, <1>5 DEF Snap!Loaded, Snap!Context

-----------------------------------------------------------------------------
(* Bytes and addresses of any width. *)

LEMMA Width ==
  /\ B \in Nat /\ B >= 8 /\ B <= 256
  /\ B * B \in Nat /\ B * B >= 8 * B /\ B * B <= 65536
BY BaseAssumption

LEMMA Remainders ==
  ASSUME NEW n \in Int
  PROVE  n % B \in Bytes /\ Wrap(n) \in Addresses /\ Next8(n) \in Bytes
BY Width DEF Bytes, Addresses, Wrap, Next8

LEMMA Words ==
  ASSUME NEW hi \in Bytes, NEW lo \in Bytes
  PROVE  Word(hi, lo) \in Addresses
BY BaseAssumption DEF Bytes, Addresses, Word

LEMMA Halves ==
  ASSUME NEW a \in Addresses
  PROVE  Lo(a) \in Bytes /\ Hi(a) \in Bytes
BY BaseAssumption DEF Bytes, Addresses, Lo, Hi

LEMMA ByteRange ==
  ASSUME NEW b \in Bytes
  PROVE  b \in Int /\ b \in Nat /\ b < 256 /\ b < B /\ b \in Addresses
BY Width DEF Bytes, Addresses

LEMMA AddressRange ==
  ASSUME NEW a \in Addresses
  PROVE  a \in Int /\ a \in Nat /\ a < 65536
BY Width DEF Addresses

LEMMA FixedAddresses ==
  {NmiVector, NmiVector + 1, ResetVector, ResetVector + 1, IrqVector, IrqVector + 1} \subseteq Addresses
BY Width DEF Addresses, NmiVector, ResetVector, IrqVector

LEMMA FixedBytes ==
  0 \in Bytes /\ 1 \in Bytes /\ B - 1 \in Bytes /\ 0 \in Addresses
BY Width DEF Bytes, Addresses

LEMMA StackAddresses ==
  ASSUME NEW s \in Bytes
  PROVE  StackAddress(s) \in Addresses
BY Words, FixedBytes DEF StackAddress

\* Half an address replaced.
LEMMA SetHalves ==
  ASSUME NEW a \in Addresses, NEW b \in Bytes
  PROVE  SetLo(a, b) \in Addresses /\ SetHi(a, b) \in Addresses
BY Words, Halves DEF SetLo, SetHi

LEMMA SignedRange ==
  ASSUME NEW b \in Bytes
  PROVE  Signed(b) \in Int
BY Width DEF Bytes, Signed
-----------------------------------------------------------------------------
(* Bits of a byte. *)

LEMMA AndBits ==
  ASSUME NEW x, NEW y
  PROVE  LET Both(w) == IF ALU!Bit(x, w) /\ ALU!Bit(y, w) THEN w ELSE 0
         IN  ALU!And(x, y) = Both(1) + Both(2) + Both(4) + Both(8) + Both(16) + Both(32) + Both(64) + Both(128)
BY DEF ALU!And, ALU!ByteOf

LEMMA OrBits ==
  ASSUME NEW x, NEW y
  PROVE  LET Either(w) == IF ALU!Bit(x, w) \/ ALU!Bit(y, w) THEN w ELSE 0
         IN  ALU!Or(x, y) = Either(1) + Either(2) + Either(4) + Either(8)
                              + Either(16) + Either(32) + Either(64) + Either(128)
BY DEF ALU!Or, ALU!ByteOf

LEMMA XorBits ==
  ASSUME NEW x, NEW y
  PROVE  LET One(w) ==
               IF (ALU!Bit(x, w) /\ ~ALU!Bit(y, w)) \/ (~ALU!Bit(x, w) /\ ALU!Bit(y, w)) THEN w ELSE 0
         IN  ALU!Xor(x, y) = One(1) + One(2) + One(4) + One(8) + One(16) + One(32) + One(64) + One(128)
BY DEF ALU!Xor, ALU!ByteOf, ALU!Bit

\* A byte has no bit beyond its width.
LEMMA HighBits ==
  ASSUME NEW x \in Bytes
  PROVE  /\ ALU!Bit(x, 8) => B > 8
         /\ ALU!Bit(x, 16) => B > 16
         /\ ALU!Bit(x, 32) => B > 32
         /\ ALU!Bit(x, 64) => B > 64
         /\ ALU!Bit(x, 128) => B > 128
BY BaseAssumption DEF Bytes, ALU!Bit

LEMMA BitwiseBytes ==
  ASSUME NEW x \in Bytes, NEW y \in Bytes
  PROVE  ALU!And(x, y) \in Bytes /\ ALU!Or(x, y) \in Bytes /\ ALU!Xor(x, y) \in Bytes
<1>1. ALU!And(x, y) \in Bytes
  BY HighBits, BaseAssumption, AndBits DEF Bytes
<1>2. ALU!Or(x, y) \in Bytes
  BY HighBits, BaseAssumption, OrBits DEF Bytes
<1>3. ALU!Xor(x, y) \in Bytes
  BY HighBits, BaseAssumption, XorBits DEF Bytes
<1> QED
  BY <1>1, <1>2, <1>3

\* The bits that x shares with another byte are at most x.
LEMMA AndIsLess ==
  ASSUME NEW x \in Bytes, NEW y
  PROVE  ALU!And(x, y) \in 0..x
<1>1. x \in Nat /\ x < 256
  BY ByteRange
<1>2. x = (x % 2) + 2 * ((x \div 2) % 2) + 4 * ((x \div 4) % 2) + 8 * ((x \div 8) % 2)
            + 16 * ((x \div 16) % 2) + 32 * ((x \div 32) % 2) + 64 * ((x \div 64) % 2)
            + 128 * ((x \div 128) % 2)
  BY <1>1
<1> QED
  BY <1>1, <1>2, AndBits DEF ALU!Bit

LEMMA FlagBytes ==
  ASSUME NEW p \in Bytes, NEW w \in Weights, w < B
  PROVE  FlagOn(p, w) \in Bytes /\ FlagOff(p, w) \in Bytes
BY BaseAssumption DEF Bytes, Weights, FlagOn, FlagOff, ALU!Bit

LEMMA StatusBytes ==
  ASSUME NEW p \in Bytes
  PROVE  /\ FlagOn(p, IFlag) \in Bytes /\ FlagOff(p, IFlag) \in Bytes
         /\ FlagOn(p, BFlag) \in Bytes /\ FlagOff(p, BFlag) \in Bytes
         /\ FlagOn(p, DFlag) \in Bytes /\ FlagOff(p, DFlag) \in Bytes
         /\ \A mn : DecimalMode(mn, p) \in Bytes
<1>1. IFlag \in Weights /\ BFlag \in Weights /\ DFlag \in Weights /\ IFlag < B /\ BFlag < B /\ DFlag < B
  BY Width DEF IFlag, BFlag, DFlag, Weights
<1> QED
  BY <1>1, FlagBytes DEF DecimalMode
-----------------------------------------------------------------------------
(* What a mnemonic makes of a CPU. *)

Latches == {n \in Nat : n < 256}

\* qe6502_t, with a counter of any value: a handler may leave it one too low.
Cpus ==
  [model : {0, 1, 2, 3, 4}, reserved_extension : {0}, microcode : Int, la : Addresses, ld : Latches,
   hijack : {0}, pc : Addresses, s : Bytes, a : Bytes, x : Bytes, y : Bytes, p : Bytes,
   interrupts : {0}]

\* From c to d only registers and latches change.
Keeps(c, d) == d \in Cpus /\ d.model = c.model /\ d.microcode = c.microcode

LEMMA Fields ==
  ASSUME NEW c \in Cpus
  PROVE  /\ c.la \in Addresses /\ c.pc \in Addresses /\ c.ld \in Latches
         /\ c.s \in Bytes /\ c.a \in Bytes /\ c.x \in Bytes /\ c.y \in Bytes /\ c.p \in Bytes
         /\ c.microcode \in Int /\ c.model \in {0, 1, 2, 3, 4}
BY DEF Cpus

LEMMA RegisterKeeps ==
  ASSUME NEW c \in Cpus, NEW b \in Bytes
  PROVE  /\ Keeps(c, c)
         /\ Keeps(c, [c EXCEPT !.a = b])
         /\ Keeps(c, [c EXCEPT !.x = b])
         /\ Keeps(c, [c EXCEPT !.y = b])
         /\ Keeps(c, [c EXCEPT !.s = b])
         /\ Keeps(c, [c EXCEPT !.p = b])
         /\ Keeps(c, [c EXCEPT !.a = b, !.x = b])
         /\ Keeps(c, [c EXCEPT !.a = b, !.x = b, !.s = b])
BY DEF Cpus, Keeps

LEMMA AluBytes ==
  ASSUME NEW a \in Bytes, NEW v \in Bytes, NEW p \in Bytes
  PROVE  /\ Alu("adc", a, v, p) \in Bytes /\ Alu("sbc", a, v, p) \in Bytes /\ Alu("arr", a, v, p) \in Bytes
         /\ Alu("rol", a, v, p) \in Bytes /\ Alu("ror", a, v, p) \in Bytes
BY AluAssumption

LEMMA ShiftBytes ==
  ASSUME NEW v \in Bytes
  PROVE  /\ v \div 2 \in Bytes /\ (2 * v) % B \in Bytes /\ (v - 1) % B \in Bytes
         /\ Next8(v) \in Bytes
<1>1. v \in Int /\ 2 * v \in Int /\ v - 1 \in Int
  BY ByteRange
<1>2. v \div 2 \in Bytes
  BY Width DEF Bytes
<1> QED
  BY <1>1, <1>2, Remainders

LEMMA LoadedKeeps ==
  ASSUME NEW c \in Cpus, NEW v \in Bytes, NEW mn \in Loads
  PROVE  Keeps(c, Loaded(mn, c, v))
<1> USE Fields
<1>1. CASE mn \in {"lda", "pla", "ldx", "plx", "ldy", "ply", "lax", "cmp", "cpx", "cpy", "bit", "nop"}
  BY <1>1, RegisterKeeps, Zenon DEF Loaded
<1>2. CASE mn \in {"las", "and", "anc", "ora", "eor"}
  BY <1>2, RegisterKeeps, BitwiseBytes, Zenon DEF Loaded
<1>3. CASE mn = "alr"
  BY <1>3, RegisterKeeps, BitwiseBytes, ShiftBytes, Zenon DEF Loaded
<1>4. CASE mn = "axs"
  <2>1. ALU!And(c.a, c.x) - v \in Int
    BY BitwiseBytes, ByteRange
  <2> QED
    BY <1>4, <2>1, RegisterKeeps, Remainders, Zenon DEF Loaded
<1>5. CASE mn \in {"xaa", "lxa"}
  <2>1. 238 % B \in Bytes
    BY Remainders
  <2>2. ALU!Or(c.a, 238 % B) \in Bytes
    BY <2>1, BitwiseBytes
  <2>3. /\ ALU!And(ALU!And(ALU!Or(c.a, 238 % B), c.x), v) \in Bytes
        /\ ALU!And(ALU!Or(c.a, 238 % B), v) \in Bytes
    BY <2>2, BitwiseBytes
  <2>4. CASE mn = "xaa"
    <3>1. PICK m \in Bytes : Loaded(mn, c, v) = [c EXCEPT !.a = m]
      BY <2>3, <2>4 DEF Loaded
    <3> QED
      BY <3>1, RegisterKeeps, Zenon
  <2>5. CASE mn = "lxa"
    <3>1. PICK m \in Bytes : Loaded(mn, c, v) = [c EXCEPT !.a = m, !.x = m]
      BY <2>3, <2>5, Zenon DEF Loaded
    <3> QED
      BY <3>1, RegisterKeeps, Zenon
  <2> QED
    BY <1>5, <2>4, <2>5
<1>6. CASE mn \in {"adc", "nes_adc", "sbc", "nes_sbc", "arr", "nes_arr"}
  BY <1>6, RegisterKeeps, AluBytes, StatusBytes, Zenon DEF Loaded
<1>7. CASE mn = "plp"
  BY <1>7, RegisterKeeps, StatusBytes, Zenon DEF Loaded
<1> QED
  BY <1>1, <1>2, <1>3, <1>4, <1>5, <1>6, <1>7 DEF Loads

LEMMA StoredBytes ==
  ASSUME NEW c \in Cpus
  PROVE  /\ \A mn \in Stores : Stored(mn, c) \in Bytes
         /\ \A mn \in Pushes : Pushed(mn, c) \in Bytes
         /\ \A mn \in UnstableStores, high \in Bytes : Unstable(mn, c, high) \in Bytes
         /\ \A mn : Keeps(c, AfterUnstable(mn, c))
<1> USE Fields
<1>1. \A mn \in Stores : Stored(mn, c) \in Bytes
  BY FixedBytes, BitwiseBytes DEF Stored, Stores
<1>2. \A mn \in Pushes : Pushed(mn, c) \in Bytes
  BY StatusBytes DEF Pushed, Pushes, PushedWithBreak
<1>3. \A mn \in UnstableStores, high \in Bytes : Unstable(mn, c, high) \in Bytes
  BY BitwiseBytes, ShiftBytes DEF Unstable, UnstableStores
<1>4. \A mn : Keeps(c, AfterUnstable(mn, c))
  BY BitwiseBytes, RegisterKeeps, Zenon DEF AfterUnstable
<1> QED
  BY <1>1, <1>2, <1>3, <1>4

LEMMA ModifiedBytes ==
  ASSUME NEW c \in Cpus, NEW v \in Bytes, NEW w,
         NEW mn \in Modifies \cup BitModifies, mn \in BitModifies => w \in Weights /\ w < B
  PROVE  /\ Modified(mn, c, v, w) \in Bytes
         /\ Keeps(c, Combined(mn, c, v))
<1> USE Fields
<1>1. Modified(mn, c, v, w) \in Bytes
  <2>1. CASE mn \in {"inc", "isc", "nes_isc", "dec", "dcp", "asl", "slo", "lsr", "sre"}
    BY <2>1, ShiftBytes DEF Modified
  <2>2. CASE mn \in {"rol", "rla", "ror", "rra", "nes_rra"}
    BY <2>2, AluBytes DEF Modified
  <2>3. CASE mn = "tsb"
    BY <2>3, BitwiseBytes DEF Modified
  <2>4. CASE mn = "trb"
    <3>1. ALU!And(v, c.a) \in 0..v /\ v \in Nat /\ v < B
      BY AndIsLess, ByteRange
    <3>2. v - ALU!And(v, c.a) \in Bytes
      BY <3>1, Width DEF Bytes
    <3> QED
      BY <2>4, <3>2 DEF Modified
  <2>5. CASE mn \in BitModifies
    BY <2>5, FlagBytes DEF Modified, BitModifies
  <2> QED
    BY <2>1, <2>2, <2>3, <2>4, <2>5 DEF Modifies, Shifts
<1>2. Keeps(c, Combined(mn, c, v))
  <2>1. CASE mn \in {"slo", "sre", "rla"}
    BY <2>1, ShiftBytes, AluBytes, BitwiseBytes, RegisterKeeps, Zenon DEF Combined
  <2>2. CASE mn \in {"isc", "nes_isc", "rra", "nes_rra"}
    BY <2>2, ShiftBytes, AluBytes, StatusBytes, RegisterKeeps, Zenon DEF Combined
  <2>3. CASE mn \notin {"slo", "sre", "rla", "isc", "nes_isc", "rra", "nes_rra"}
    BY <2>3, RegisterKeeps, FixedBytes, Zenon DEF Combined
  <2> QED
    BY <2>1, <2>2, <2>3
<1> QED
  BY <1>1, <1>2

LEMMA ImpliedKeeps ==
  ASSUME NEW c \in Cpus, NEW mn \in Implieds
  PROVE  Keeps(c, Implied(mn, c))
<1> USE Fields
<1>1. CASE mn \in {"tax", "tay", "tsx", "txa", "txs", "tya", "nop", "clc", "sec", "clv"}
  BY <1>1, RegisterKeeps, Zenon DEF Implied
<1>2. CASE mn \in {"inx", "iny", "dex", "dey", "ina", "dea", "asl", "lsr"}
  BY <1>2, RegisterKeeps, ShiftBytes, Zenon DEF Implied
<1>3. CASE mn \in {"rol", "ror"}
  BY <1>3, RegisterKeeps, AluBytes, Zenon DEF Implied
<1>4. CASE mn \in {"cli", "sei", "cld", "sed"}
  BY <1>4, RegisterKeeps, StatusBytes, Zenon DEF Implied
<1> QED
  BY <1>1, <1>2, <1>3, <1>4 DEF Implieds, Shifts
-----------------------------------------------------------------------------
(* The pieces handlers are made of. *)

BusTicks == [address : Addresses, bus : Bytes, status : {0, writing, opcode_fetch}]

\* Result r of a handler that runs for c and skips k entries.
Advances(c, r, k) ==
  /\ r.cpu \in Cpus /\ r.cpu.model = c.model /\ r.cpu.microcode = c.microcode + k
  /\ r.tick \in BusTicks

LEMMA LatchKeeps ==
  ASSUME NEW c, NEW d, Keeps(c, d), NEW a \in Addresses, NEW b \in Bytes, NEW e \in Bytes
  PROVE  /\ Keeps(c, [d EXCEPT !.la = a])
         /\ Keeps(c, [d EXCEPT !.pc = a])
         /\ Keeps(c, [d EXCEPT !.ld = b])
         /\ Keeps(c, [d EXCEPT !.s = b])
         /\ Keeps(c, [d EXCEPT !.p = b])
         /\ Keeps(c, Latch0(d, b)) /\ Keeps(c, Latch1(d, b))
         /\ Keeps(c, SetPcLo(d, b)) /\ Keeps(c, SetPcHi(d, b))
         /\ Keeps(c, LatchIndexed(d, b, e))
<1>1. d \in Cpus /\ d.model = c.model /\ d.microcode = c.microcode
  BY DEF Keeps
<1>2. b \in Latches
  BY ByteRange DEF Latches
<1>3. /\ SetLo(d.la, b) \in Addresses /\ SetHi(d.la, b) \in Addresses
      /\ SetLo(d.pc, b) \in Addresses /\ SetHi(d.pc, b) \in Addresses
  BY <1>1, Fields, SetHalves
<1>4. (b + e) % B \in Addresses /\ (b + e) \div B \in Latches
  <2>1. b + e \in Nat /\ b + e < 512
    BY ByteRange
  <2>2. (b + e) % B \in Addresses
    BY <2>1, Remainders, ByteRange
  <2>3. (b + e) \div B \in Latches
    BY <2>1, BaseAssumption DEF Latches
  <2> QED
    BY <2>2, <2>3
<1>5. /\ Keeps(c, [d EXCEPT !.la = a])
      /\ Keeps(c, [d EXCEPT !.pc = a])
      /\ Keeps(c, [d EXCEPT !.ld = b])
      /\ Keeps(c, [d EXCEPT !.s = b])
      /\ Keeps(c, [d EXCEPT !.p = b])
  BY <1>1, <1>2 DEF Keeps, Cpus
<1>6. /\ Keeps(c, Latch0(d, b)) /\ Keeps(c, Latch1(d, b))
      /\ Keeps(c, SetPcLo(d, b)) /\ Keeps(c, SetPcHi(d, b))
  BY <1>1, <1>3 DEF Keeps, Cpus, Latch0, Latch1, SetPcLo, SetPcHi
<1>7. Keeps(c, LatchIndexed(d, b, e))
  BY <1>1, <1>4 DEF Keeps, Cpus, LatchIndexed
<1> QED
  BY <1>5, <1>6, <1>7

LEMMA Accesses ==
  ASSUME NEW c, NEW d, Keeps(c, d), NEW a \in Addresses, NEW b \in Bytes
  PROVE  /\ Advances(c, Read(d, a), 0)
         /\ Advances(c, Write(d, a, b), 0)
         /\ Advances(c, Fetch(d), 0) /\ Fetch(d).tick.status = opcode_fetch
<1>1. d \in Cpus /\ d.model = c.model /\ d.microcode = c.microcode /\ d.microcode \in Int
  BY Fields DEF Keeps
<1> QED
  BY <1>1, Fields, FixedBytes
     DEF Advances, BusTicks, Read, Write, Fetch, Result, TickOf, writing, opcode_fetch

LEMMA CountingAccesses ==
  ASSUME NEW c, NEW d, Keeps(c, d), NEW b \in Bytes
  PROVE  /\ Advances(c, ReadPcInc(d), 0)
         /\ Advances(c, StackWrite(d, b), 0)
         /\ Advances(c, StackRead(d), 0)
<1>1. d \in Cpus
  BY DEF Keeps
<1>2. /\ d.pc \in Addresses /\ Wrap(d.pc + 1) \in Addresses
      /\ (d.s - 1) % B \in Bytes /\ Next8(d.s) \in Bytes
      /\ StackAddress(d.s) \in Addresses /\ StackAddress(Next8(d.s)) \in Addresses
  BY <1>1, Fields, AddressRange, ByteRange, Remainders, StackAddresses
<1>3. /\ Keeps(c, [d EXCEPT !.pc = Wrap(d.pc + 1)])
      /\ Keeps(c, [d EXCEPT !.s = (d.s - 1) % B])
      /\ Keeps(c, [d EXCEPT !.s = Next8(d.s)])
  BY <1>2, LatchKeeps
<1>4. Advances(c, ReadPcInc(d), 0)
  BY <1>2, <1>3, Accesses DEF ReadPcInc
<1>5. Advances(c, StackWrite(d, b), 0)
  BY <1>2, <1>3, Accesses DEF StackWrite
<1>6. Advances(c, StackRead(d), 0)
  BY <1>2, <1>3, Accesses DEF StackRead
<1> QED
  BY <1>4, <1>5, <1>6

LEMMA Skipping ==
  ASSUME NEW c, NEW d, Keeps(c, d), NEW a \in Addresses, NEW k \in {1, 2}
  PROVE  /\ Advances(c, Read(Skip(d, k), a), k)
         /\ Advances(c, ReadPcInc(Skip(d, k)), k)
         /\ Advances(c, Fetch(Skip(d, k)), k) /\ Fetch(Skip(d, k)).tick.status = opcode_fetch
<1>1. d \in Cpus /\ d.model = c.model /\ d.microcode = c.microcode /\ d.microcode \in Int
  BY Fields DEF Keeps
<1>2. /\ Skip(d, k) \in Cpus /\ Skip(d, k).model = c.model
      /\ Skip(d, k).microcode = c.microcode + k
  BY <1>1 DEF Skip, Cpus
<1> HIDE DEF Skip
<1>3. Keeps(Skip(d, k), Skip(d, k))
  BY <1>2 DEF Keeps
<1>4. /\ Advances(Skip(d, k), Read(Skip(d, k), a), 0)
      /\ Advances(Skip(d, k), ReadPcInc(Skip(d, k)), 0)
      /\ Advances(Skip(d, k), Fetch(Skip(d, k)), 0) /\ Fetch(Skip(d, k)).tick.status = opcode_fetch
  BY <1>3, Accesses, CountingAccesses, FixedBytes
<1> QED
  BY <1>1, <1>2, <1>4 DEF Advances
-----------------------------------------------------------------------------
(* The shared handlers, by the operator that has them; a plain one skips nothing. *)

\* Those that need a byte in latch_data, and those that leave one there.
Uses ==
  {"r_izx_c4_data", "r_izx_c4_data_no_latch", "jmp_ind_c4_fetch", "arith_dec_fetch", "rmw_wr",
   "cmos_jmp_ind_c4_target_hi_retry"}
Latching ==
  {"latch_data_read_latch_addr", "latch_data_write_latch_addr", "arith_or_dummy", "arith_imm_or_dummy"}

LastReadPlain ==
  {"cmos_jmp_ind_c4_target_hi_retry", "r_izx_c4_data_no_latch", "r_zp_c1_data",
   "read_addr_with_bus_hi", "read_pc_minus_one", "rts_c4_inc_pc_dummy"}
LastReadProbes == {"cmos_r_indexed_probe_no_latch", "r_indexed_probe_no_latch"}

LEMMA LastReads ==
  ASSUME NEW c \in Cpus, NEW bus \in Bytes
  PROVE  /\ \A h \in LastReadPlain :
              (h \in Uses => c.ld \in Bytes) => Advances(c, LastReadHandler(h, c, bus), 0)
         /\ LastReadHandler("cmos_jmp_ind_c4_target_hi_retry", c, bus).cpu.ld = c.ld
         /\ \A h \in LastReadProbes : \E k \in 0..1 : Advances(c, LastReadHandler(h, c, bus), k)
<1> DEFINE R(h) == LastReadHandler(h, c, bus)
<1>1. Keeps(c, c) /\ SetHi(c.la, bus) \in Addresses
  BY Fields, SetHalves DEF Keeps
<1>2. /\ Next8(Hi(c.la)) \in Bytes /\ (bus + c.ld) % B \in Bytes
      /\ Wrap(c.pc - 1) \in Addresses /\ Wrap(c.pc + 1) \in Addresses
  BY Fields, Halves, ByteRange, AddressRange, Remainders DEF Latches
<1>3. Advances(c, R("cmos_jmp_ind_c4_target_hi_retry"), 0) /\ R("cmos_jmp_ind_c4_target_hi_retry").cpu.ld = c.ld
  <2> DEFINE carried == IF Lo(c.la) = 0 THEN Latch1(c, Next8(Hi(c.la))) ELSE c
  <2>1. Keeps(c, carried)
    <3>1. CASE Lo(c.la) = 0
      BY <1>1, <1>2, <3>1, LatchKeeps, FixedBytes
    <3>2. CASE Lo(c.la) # 0
      BY <1>1, <3>2
    <3> QED
      BY <3>1, <3>2
  <2>4. carried.la \in Addresses
    <3> HIDE DEF carried
    <3> QED
      BY <2>1, Fields DEF Keeps
  <2>2. carried.ld = c.ld
    BY DEF Latch1, Cpus
  <2>3. R("cmos_jmp_ind_c4_target_hi_retry") = Read(carried, carried.la)
    BY DEF LastReadHandler
  <2> HIDE DEF carried
  <2> QED
    BY <2>1, <2>2, <2>3, <2>4, Accesses, FixedBytes DEF Read, Result
<1>4. c.ld \in Bytes => Advances(c, R("r_izx_c4_data_no_latch"), 0)
  BY <1>1, Words, Accesses, FixedBytes DEF LastReadHandler
<1>5. Advances(c, R("r_zp_c1_data"), 0)
  BY <1>1, ByteRange, Accesses, FixedBytes DEF LastReadHandler
<1>6. Advances(c, R("read_addr_with_bus_hi"), 0) /\ Advances(c, R("read_pc_minus_one"), 0)
  BY <1>1, <1>2, Accesses, FixedBytes DEF LastReadHandler
<1>7. Advances(c, R("rts_c4_inc_pc_dummy"), 0)
  BY <1>1, LatchKeeps, CountingAccesses, FixedBytes DEF LastReadHandler
<1>8. \E k \in 0..1 : Advances(c, R("cmos_r_indexed_probe_no_latch"), k)
  <2> DEFINE next == [c EXCEPT !.pc = Wrap(c.pc + 1)]
             high == (bus + c.ld) % B
  <2>1. Keeps(c, next) /\ SetHi(c.la, high) \in Addresses
    BY <1>1, <1>2, LatchKeeps, FixedBytes, Fields, SetHalves
  <2>2. Keeps(c, Latch1(next, high))
    BY <1>2, <2>1, LatchKeeps, FixedBytes
  <2>3. R("cmos_r_indexed_probe_no_latch")
          = IF c.ld = 0 THEN Read(Skip(next, 1), SetHi(c.la, high)) ELSE Read(Latch1(next, high), c.pc)
    BY DEF LastReadHandler
  <2> HIDE DEF next, high
  <2>4. CASE c.ld = 0
    BY <2>1, <2>3, <2>4, Skipping
  <2>5. CASE c.ld # 0
    BY <2>2, <2>3, <2>5, Accesses, FixedBytes, Fields
  <2> QED
    BY <2>4, <2>5
<1>9. \E k \in 0..1 : Advances(c, R("r_indexed_probe_no_latch"), k)
  <2>1. R("r_indexed_probe_no_latch")
          = Read(IF c.ld = 0 THEN Skip(c, 1) ELSE Latch1(c, (bus + c.ld) % B), SetHi(c.la, bus))
    BY DEF LastReadHandler
  <2>2. CASE c.ld = 0
    BY <1>1, <2>1, <2>2, Skipping
  <2>3. CASE c.ld # 0
    <3>1. Keeps(c, Latch1(c, (bus + c.ld) % B))
      BY <1>1, <1>2, LatchKeeps, FixedBytes
    <3>2. R("r_indexed_probe_no_latch") = Read(Latch1(c, (bus + c.ld) % B), SetHi(c.la, bus))
      BY <2>1, <2>3
    <3>3. Advances(c, R("r_indexed_probe_no_latch"), 0)
      BY <1>1, <3>1, <3>2, Accesses, FixedBytes
    <3> QED
      BY <3>3
  <2> QED
    BY <2>2, <2>3
<1> QED
  BY <1>3, <1>4, <1>5, <1>6, <1>7, <1>8, <1>9 DEF LastReadPlain, LastReadProbes, Uses

StoreAddressPlain ==
  {"rw_abx_c1_hi", "w_indexed_probe", "unstable_store_indexed_probe", "read_zp_latch_x", "w_izx_c3_ptrhi",
   "w_izy_c2_ptrhi", "w_zpy_c1_idx"}

LEMMA StoreAddresses ==
  ASSUME NEW c \in Cpus, NEW bus \in Bytes, NEW h \in StoreAddressPlain
  PROVE  Advances(c, StoreAddressHandler(h, c, bus), 0)
<1> USE Fields, FixedBytes
<1>1. Keeps(c, c) /\ SetHi(c.la, bus) \in Addresses /\ bus \in Addresses
  BY SetHalves, ByteRange DEF Keeps
<1>2. /\ (bus + c.ld) % B \in Bytes /\ Next8(Lo(c.la)) \in Addresses
      /\ (bus + c.x) % B \in Addresses /\ (bus + c.y) % B \in Addresses
  BY Halves, ByteRange, Remainders DEF Latches
<1>3. CASE h \in {"rw_abx_c1_hi"}
  BY <1>1, <1>3, LatchKeeps, CountingAccesses DEF StoreAddressHandler
<1>4. CASE h \in {"w_indexed_probe", "unstable_store_indexed_probe"}
  BY <1>1, <1>2, <1>4, LatchKeeps, Accesses DEF StoreAddressHandler
<1>5. CASE h \in {"read_zp_latch_x", "w_izx_c3_ptrhi"}
  BY <1>1, <1>2, <1>5, LatchKeeps, Accesses DEF StoreAddressHandler
<1>6. CASE h \in {"w_izy_c2_ptrhi", "w_zpy_c1_idx"}
  BY <1>1, <1>2, <1>6, LatchKeeps, Accesses DEF StoreAddressHandler
<1> QED
  BY <1>3, <1>4, <1>5, <1>6 DEF StoreAddressPlain

PointerPlain ==
  {"r_izx_c1_idx", "izx_read_ptrlo_inc_ptr", "izp_c2_ptrhi", "r_izx_c4_data",
   "latch_addr0_read_latch_addr", "r_izy_c2_ptrhi", "latch_zp_addr_read_latch_addr", "zpx_c1_idx",
   "r_zpy_c1_idx", "rti_c3_pull_pcl", "latch_pcl_stack_read"}

LEMMA Pointers ==
  ASSUME NEW c \in Cpus, NEW bus \in Bytes, NEW h \in PointerPlain, h \in Uses => c.ld \in Bytes
  PROVE  Advances(c, PointerHandler(h, c, bus), 0)
<1> USE Fields, FixedBytes
<1>1. Keeps(c, c) /\ SetLo(c.la, bus) \in Addresses /\ bus \in Addresses
  BY SetHalves, ByteRange DEF Keeps
<1>2. /\ Next8(Lo(c.la)) \in Bytes /\ Next8(Lo(c.la)) \in Addresses
      /\ (bus + c.x) % B \in Bytes /\ (bus + c.y) % B \in Bytes
  BY Halves, ByteRange, Remainders
<1>3. CASE h \in {"r_izx_c1_idx", "zpx_c1_idx", "r_zpy_c1_idx"}
  BY <1>1, <1>2, <1>3, LatchKeeps, Accesses DEF PointerHandler
<1>4. CASE h \in {"izx_read_ptrlo_inc_ptr", "izp_c2_ptrhi"}
  BY <1>1, <1>2, <1>4, LatchKeeps, Accesses DEF PointerHandler
<1>5. CASE h = "r_izx_c4_data"
  <2>1. Word(bus, c.ld) \in Addresses
    BY <1>5, Words DEF Uses
  <2> QED
    BY <1>1, <1>5, <2>1, LatchKeeps, Accesses DEF PointerHandler
<1>6. CASE h \in {"latch_addr0_read_latch_addr", "latch_zp_addr_read_latch_addr"}
  BY <1>1, <1>2, <1>6, LatchKeeps, Accesses DEF PointerHandler
<1>7. CASE h = "r_izy_c2_ptrhi"
  BY <1>1, <1>2, <1>7, SetHalves, LatchKeeps, Accesses DEF PointerHandler
<1>8. CASE h = "rti_c3_pull_pcl"
  BY <1>1, <1>8, StatusBytes, LatchKeeps, CountingAccesses DEF PointerHandler
<1>9. CASE h = "latch_pcl_stack_read"
  BY <1>1, <1>9, LatchKeeps, CountingAccesses DEF PointerHandler
<1> QED
  BY <1>3, <1>4, <1>5, <1>6, <1>7, <1>8, <1>9 DEF PointerPlain

IndexedPlain ==
  {"latch_abx_base_read_pc_inc", "cmos_latch_abx_base_read_pc", "latch_aby_base_read_pc_inc",
   "cmos_latch_aby_base_read_pc", "cmos_w_indexed_probe"}

LEMMA Indices ==
  ASSUME NEW c \in Cpus, NEW bus \in Bytes
  PROVE  /\ \A h \in IndexedPlain : Advances(c, IndexedHandler(h, c, bus), 0)
         /\ \E k \in 0..1 : Advances(c, IndexedHandler("cmos_r_indexed_probe", c, bus), k)
<1> USE Fields, FixedBytes
<1> DEFINE fixed == [Latch1(c, (bus + c.ld) % B) EXCEPT !.pc = Wrap(c.pc + 1)]
<1>1. /\ Keeps(c, c) /\ (bus + c.ld) % B \in Bytes /\ Wrap(c.pc + 1) \in Addresses
      /\ Keeps(c, LatchIndexed(c, bus, c.x)) /\ Keeps(c, LatchIndexed(c, bus, c.y))
  <2>1. Keeps(c, c)
    BY DEF Keeps
  <2>2. bus + c.ld \in Int /\ c.pc + 1 \in Int
    BY ByteRange, AddressRange DEF Latches
  <2> QED
    BY <2>1, <2>2, Remainders, LatchKeeps
<1>2. Keeps(c, fixed)
  <2>1. Keeps(c, Latch1(c, (bus + c.ld) % B))
    BY <1>1, LatchKeeps
  <2> QED
    BY <1>1, <2>1, LatchKeeps
<1>3. fixed.la \in Addresses
  <2> HIDE DEF fixed
  <2> QED
    BY <1>2 DEF Keeps
<1>4. IndexedHandler("cmos_r_indexed_probe", c, bus)
        = IF c.ld = 0 THEN Read(Skip(fixed, 1), fixed.la) ELSE Read(fixed, c.pc)
  BY DEF IndexedHandler
<1>5. IndexedHandler("cmos_w_indexed_probe", c, bus) = Read(fixed, c.pc)
  BY DEF IndexedHandler
<1> HIDE DEF fixed
<1>6. \E k \in 0..1 : Advances(c, IndexedHandler("cmos_r_indexed_probe", c, bus), k)
  BY <1>2, <1>3, <1>4, Accesses, Skipping
<1>7. ASSUME NEW h \in IndexedPlain \ {"cmos_w_indexed_probe"}
      PROVE  Advances(c, IndexedHandler(h, c, bus), 0)
  <2>1. CASE h \in {"latch_abx_base_read_pc_inc", "latch_aby_base_read_pc_inc"}
    BY <1>1, <2>1, CountingAccesses DEF IndexedHandler
  <2>2. CASE h \in {"cmos_latch_abx_base_read_pc", "cmos_latch_aby_base_read_pc"}
    BY <1>1, <2>2, Accesses DEF IndexedHandler
  <2> QED
    BY <2>1, <2>2 DEF IndexedPlain
<1>8. Advances(c, IndexedHandler("cmos_w_indexed_probe", c, bus), 0)
  BY <1>2, <1>5, Accesses
<1> QED
  BY <1>6, <1>7, <1>8

AbsolutePlain ==
  {"latch_addr0_read_pc_inc", "latch_addr1_set_pc_fetch", "jmp_ind_c2_target_lo",
   "latch_data_read_latch_addr", "jmp_ind_c4_fetch", "cmos_jmp_ind_x_c2_dummy",
   "cmos_jmp_ind_x_c3_target_lo", "jsr_abs_c1_dummy", "latch_addr1_read_latch_addr"}

LEMMA AbsoluteAddresses ==
  ASSUME NEW c \in Cpus, NEW bus \in Bytes, NEW h \in AbsolutePlain, h \in Uses => c.ld \in Bytes
  PROVE  /\ Advances(c, AbsoluteHandler(h, c, bus), 0)
         /\ h \in {"latch_addr1_set_pc_fetch", "jmp_ind_c4_fetch"}
              => AbsoluteHandler(h, c, bus).tick.status = opcode_fetch
         /\ h \in Latching => AbsoluteHandler(h, c, bus).cpu.ld = bus
<1> USE Fields, FixedBytes
<1>1. Keeps(c, c) /\ SetHi(c.la, bus) \in Addresses /\ Keeps(c, Latch0(c, bus)) /\ Keeps(c, Latch1(c, bus))
  <2>1. Keeps(c, c)
    BY DEF Keeps
  <2> QED
    BY <2>1, SetHalves, LatchKeeps
<1>2. CASE h \in {"latch_addr0_read_pc_inc"}
  BY <1>1, <1>2, CountingAccesses DEF AbsoluteHandler, Latching
<1>3. CASE h \in {"cmos_jmp_ind_x_c2_dummy", "jsr_abs_c1_dummy", "latch_addr1_read_latch_addr"}
  <2>1. Wrap(c.pc - 2) \in Addresses /\ StackAddress(c.s) \in Addresses
    BY AddressRange, Remainders, StackAddresses
  <2> QED
    BY <1>1, <1>3, <2>1, Accesses DEF AbsoluteHandler, Latching
<1>4. CASE h = "latch_addr1_set_pc_fetch"
  BY <1>1, <1>4, LatchKeeps, Accesses DEF AbsoluteHandler, Latching
<1>5. CASE h = "jmp_ind_c2_target_lo"
  <2>1. Word(bus, Next8(Lo(c.la))) \in Addresses
    BY Halves, ByteRange, Remainders, Words
  <2> QED
    BY <1>1, <1>5, <2>1, LatchKeeps, Accesses DEF AbsoluteHandler, Latching
<1>6. CASE h = "latch_data_read_latch_addr"
  <2>1. [c EXCEPT !.ld = bus].ld = bus
    BY DEF Cpus
  <2> QED
    BY <1>1, <1>6, <2>1, LatchKeeps, Accesses DEF AbsoluteHandler, Read, Result
<1>7. CASE h = "jmp_ind_c4_fetch"
  <2>1. Word(bus, c.ld) \in Addresses
    BY <1>7, Words DEF Uses
  <2> QED
    BY <1>1, <1>7, <2>1, LatchKeeps, Accesses DEF AbsoluteHandler, Latching
<1>8. CASE h = "cmos_jmp_ind_x_c3_target_lo"
  <2>1. Wrap(c.la + c.x + 1) \in Addresses /\ Wrap(c.la + c.x) \in Addresses
    BY AddressRange, ByteRange, Remainders
  <2> QED
    BY <1>1, <1>8, <2>1, LatchKeeps, Accesses DEF AbsoluteHandler, Latching
<1> QED
  BY <1>2, <1>3, <1>4, <1>5, <1>6, <1>7, <1>8 DEF AbsolutePlain

InterruptPlain ==
  {"push_pc_high", "push_pc_low", "push_status_b", "interrupt_c3_push_p", "nmi_c4_vec_lo",
   "nmi_c5_vec_hi", "cmos_nmi_c5_vec_hi", "brk_c5_vec_hi", "cmos_brk_c5_vec_hi"}

LEMMA Interruptions ==
  ASSUME NEW c \in Cpus, NEW bus \in Bytes, NEW h \in InterruptPlain
  PROVE  Advances(c, InterruptHandler(h, c, bus), 0)
<1> USE Fields, FixedBytes
<1> DEFINE masked == [SetPcLo(c, bus) EXCEPT !.p = FlagOn(c.p, IFlag)]
           binary == [masked EXCEPT !.p = FlagOff(masked.p, DFlag)]
<1>1. Keeps(c, c)
  BY DEF Keeps
<1>2. Keeps(c, masked)
  <2>1. Keeps(c, SetPcLo(c, bus)) /\ FlagOn(c.p, IFlag) \in Bytes
    BY <1>1, LatchKeeps, StatusBytes
  <2> QED
    BY <2>1, LatchKeeps
<1>3. Keeps(c, binary)
  <2> HIDE DEF masked
  <2>1. FlagOff(masked.p, DFlag) \in Bytes
    BY <1>2, StatusBytes DEF Keeps
  <2> QED
    BY <1>2, <2>1, LatchKeeps
<1>4. CASE h \in {"push_pc_high", "push_pc_low", "push_status_b", "interrupt_c3_push_p"}
  <2>1. /\ Hi(c.pc) \in Bytes /\ Lo(c.pc) \in Bytes
        /\ PushedWithBreak(c.p) \in Bytes /\ PushedByService(c.p) \in Bytes
    BY Halves, StatusBytes DEF PushedWithBreak, PushedByService
  <2> QED
    BY <1>1, <1>4, <2>1, CountingAccesses DEF InterruptHandler
<1>5. CASE h = "nmi_c4_vec_lo"
  BY <1>1, <1>5, FixedAddresses, Accesses DEF InterruptHandler
<1>6. CASE h \in {"nmi_c5_vec_hi", "brk_c5_vec_hi"}
  <2>1. InterruptHandler(h, c, bus) \in {Read(masked, NmiVector + 1), Read(masked, IrqVector + 1)}
    BY <1>6 DEF InterruptHandler
  <2> HIDE DEF masked
  <2> QED
    BY <1>2, <2>1, FixedAddresses, Accesses
<1>7. CASE h \in {"cmos_nmi_c5_vec_hi", "cmos_brk_c5_vec_hi"}
  <2>1. InterruptHandler(h, c, bus) \in {Read(binary, NmiVector + 1), Read(binary, IrqVector + 1)}
    BY <1>7 DEF InterruptHandler
  <2> HIDE DEF binary
  <2> QED
    BY <1>3, <2>1, FixedAddresses, Accesses
<1> QED
  BY <1>4, <1>5, <1>6, <1>7 DEF InterruptPlain

LEMMA Branches ==
  ASSUME NEW c \in Cpus, NEW bus \in Bytes
  PROVE  /\ Advances(c, BranchHandler("branch_pgfix", c, bus), 0)
         /\ \A h \in {"branch_rel_c1_apply", "wdc_bbr_bbs_c4_apply"} :
              \E k \in 0..1 : Advances(c, BranchHandler(h, c, bus), k)
<1> USE Fields, FixedBytes
<1>1. Keeps(c, c)
  BY DEF Keeps
<1>2. PICK target \in Addresses : target = Wrap(c.pc + Signed(bus))
  BY SignedRange, AddressRange, Remainders
<1>3. /\ Keeps(c, [c EXCEPT !.pc = target]) /\ Keeps(c, [c EXCEPT !.la = target])
      /\ Keeps(c, SetPcLo(c, Lo(target))) /\ Keeps(c, [SetPcLo(c, Lo(target)) EXCEPT !.la = target])
  <2>1. Lo(target) \in Bytes
    BY Halves
  <2>2. Keeps(c, SetPcLo(c, Lo(target)))
    BY <1>1, <2>1, LatchKeeps
  <2> QED
    BY <1>1, <2>2, LatchKeeps
<1>4. Advances(c, BranchHandler("branch_pgfix", c, bus), 0)
  BY <1>1, LatchKeeps, Accesses DEF BranchHandler
<1>5. \E k \in 0..1 : Advances(c, BranchHandler("branch_rel_c1_apply", c, bus), k)
  <2>1. BranchHandler("branch_rel_c1_apply", c, bus)
          \in {Read([SetPcLo(c, Lo(target)) EXCEPT !.la = target], c.pc),
               Read(Skip(SetPcLo(c, Lo(target)), 1), c.pc)}
    BY <1>2 DEF BranchHandler
  <2> QED
    BY <1>3, <2>1, Accesses, Skipping
<1>6. \E k \in 0..1 : Advances(c, BranchHandler("wdc_bbr_bbs_c4_apply", c, bus), k)
  <2>1. BranchHandler("wdc_bbr_bbs_c4_apply", c, bus)
          \in {Read([c EXCEPT !.la = target], c.pc), Read(Skip([c EXCEPT !.pc = target], 1), c.pc)}
    BY <1>2 DEF BranchHandler
  <2> QED
    BY <1>3, <2>1, Accesses, Skipping
<1> QED
  BY <1>4, <1>5, <1>6

ResetPlain ==
  {"restart_read_hhff", "restart_read_zzhh_fetch", "restart_read_zzhh", "reset_stack_read", "reset_vec_lo",
   "reset_vec_hi"}

LEMMA Resets ==
  ASSUME NEW c \in Cpus, NEW bus \in Bytes, NEW h \in ResetPlain
  PROVE  /\ Advances(c, ResetHandler(h, c, bus), 0)
         /\ ResetHandler(h, c, bus).tick.status = opcode_fetch <=> h = "restart_read_zzhh_fetch"
<1> USE Fields, FixedBytes
<1> DEFINE moved == [c EXCEPT !.pc = CalculateResetPc(c.pc, bus)]
<1>1. Keeps(c, c)
  BY DEF Keeps
<1>2. Keeps(c, moved) /\ moved.pc \in Addresses
  <2>1. CalculateResetPc(c.pc, bus) \in Addresses
    <3>1. (Hi(c.pc) - 1) % B \in Bytes
      BY Halves, ByteRange, Remainders
    <3> QED
      BY <3>1, Words DEF CalculateResetPc
  <2>2. Keeps(c, moved)
    BY <1>1, <2>1, LatchKeeps
  <2> HIDE DEF moved
  <2> QED
    BY <2>2 DEF Keeps
<1>3. CASE h \in {"restart_read_hhff", "restart_read_zzhh_fetch"}
  <2>1. ResetHandler(h, c, bus)
          = IF h = "restart_read_hhff" THEN Read(moved, moved.pc) ELSE Fetch(moved)
    BY <1>3 DEF ResetHandler
  <2> HIDE DEF moved
  <2> QED
    BY <1>2, <1>3, <2>1, Accesses DEF Read, Result, TickOf, opcode_fetch
<1>4. CASE h \in {"restart_read_zzhh", "reset_vec_lo"}
  BY <1>1, <1>4, FixedAddresses, Accesses DEF ResetHandler, Read, Result, TickOf, opcode_fetch
<1>5. CASE h = "reset_stack_read"
  <2> DEFINE d == [c EXCEPT !.s = (c.s - 1) % B]
  <2>1. (c.s - 1) % B \in Bytes /\ StackAddress(c.s) \in Addresses
    BY ByteRange, Remainders, StackAddresses
  <2>2. Keeps(c, d)
    BY <1>1, <2>1, LatchKeeps
  <2>3. ResetHandler(h, c, bus) = Read(d, StackAddress(c.s))
    BY <1>5 DEF ResetHandler
  <2> HIDE DEF d
  <2> QED
    BY <1>5, <2>1, <2>2, <2>3, Accesses DEF Read, Result, TickOf, opcode_fetch
<1>6. CASE h = "reset_vec_hi"
  <2> DEFINE d == [SetPcLo(c, bus) EXCEPT !.p = FlagOn(FlagOn(c.p, BFlag), IFlag)]
  <2>1. FlagOn(FlagOn(c.p, BFlag), IFlag) \in Bytes /\ Keeps(c, SetPcLo(c, bus))
    BY <1>1, StatusBytes, LatchKeeps
  <2>2. Keeps(c, d)
    BY <2>1, LatchKeeps
  <2>3. ResetHandler(h, c, bus) = Read(d, ResetVector + 1)
    BY <1>6 DEF ResetHandler
  <2> HIDE DEF d
  <2> QED
    BY <1>6, <2>2, <2>3, FixedAddresses, Accesses DEF Read, Result, TickOf, opcode_fetch
<1> QED
  BY <1>3, <1>4, <1>5, <1>6 DEF ResetPlain

\* The loop that counts the first cycles of a reset in latch_data.
LEMMA InternalResets ==
  ASSUME NEW c \in Cpus, NEW bus \in Bytes, c.ld <= 7
  PROVE  LET r == ResetHandler("internal_reset", c, bus)
         IN  /\ r.cpu \in Cpus /\ r.cpu.model = c.model /\ r.cpu.ld = c.ld + 1
             /\ r.tick \in [address : Addresses, bus : Bytes, status : {0, internal_reset}]
             /\ r.cpu.microcode = IF c.ld = 7 THEN Idx(c.model, 259, 0) - 1 ELSE c.microcode - 1
<1> USE Fields, FixedBytes
<1> DEFINE moved == [c EXCEPT !.pc = CalculateResetPc(c.pc, bus)]
           counted == [moved EXCEPT !.ld = c.ld + 1]
<1>1. CalculateResetPc(c.pc, bus) \in Addresses
  <2>1. (Hi(c.pc) - 1) % B \in Bytes
    BY Halves, ByteRange, Remainders
  <2> QED
    BY <2>1, Words DEF CalculateResetPc
<1>2. c.ld \in Int /\ c.ld + 1 \in Latches
  BY DEF Latches
<1>3. /\ counted \in Cpus /\ counted.model = c.model /\ counted.microcode = c.microcode
      /\ counted.ld = c.ld + 1 /\ moved.pc \in Addresses
  BY <1>1, <1>2 DEF Cpus
<1>4. ResetHandler("internal_reset", c, bus)
        = IF c.ld = 7 THEN Read(NextEnterServiceSlot(counted, 259, 0), moved.pc)
          ELSE Result(LoopHere(counted), TickOf(moved.pc, 0, internal_reset))
  BY <1>2 DEF ResetHandler
<1> HIDE DEF counted, moved
<1>5. /\ Idx(c.model, 259, 0) - 1 \in Int /\ c.microcode - 1 \in Int
  BY DEF Idx
<1>6. /\ NextEnterServiceSlot(counted, 259, 0) = [counted EXCEPT !.microcode = Idx(c.model, 259, 0) - 1]
      /\ LoopHere(counted) = [counted EXCEPT !.microcode = c.microcode - 1]
  BY <1>3, Zenon DEF NextEnterServiceSlot, EnterServiceSlot, LoopHere, Cpus
<1> QED
  BY <1>3, <1>4, <1>5, <1>6 DEF Cpus, Read, Result, TickOf, internal_reset

SharedPlain ==
  {"fetch", "read_pc_inc", "read_pc", "clear_latch_addr_read_pc_inc", "clear_latch_addr_read_pc",
   "read_latch_addr", "latch_data_write_latch_addr", "read_stack_current_s", "stack_pull_read", "read_fffe",
   "kil_jam_read_ffff", "latch_pch_fetch"}

LEMMA Shared ==
  ASSUME NEW c \in Cpus, NEW bus \in Bytes, NEW h \in SharedPlain
  PROVE  /\ Advances(c, SharedHandler(h, c, bus), 0)
         /\ h \in {"fetch", "latch_pch_fetch"} => SharedHandler(h, c, bus).tick.status = opcode_fetch
         /\ h \in Latching => SharedHandler(h, c, bus).cpu.ld = bus
<1> USE Fields, FixedBytes
<1>1. Keeps(c, c) /\ Keeps(c, [c EXCEPT !.la = 0]) /\ Keeps(c, [c EXCEPT !.ld = bus])
  <2>1. Keeps(c, c)
    BY DEF Keeps
  <2> QED
    BY <2>1, LatchKeeps
<1>2. CASE h \in {"fetch", "read_pc", "read_latch_addr", "clear_latch_addr_read_pc"}
  BY <1>1, <1>2, Accesses DEF SharedHandler, Latching
<1>3. CASE h \in {"read_pc_inc", "clear_latch_addr_read_pc_inc", "stack_pull_read"}
  BY <1>1, <1>3, CountingAccesses DEF SharedHandler, Latching
<1>4. CASE h = "latch_data_write_latch_addr"
  <2>1. [c EXCEPT !.ld = bus].ld = bus
    BY DEF Cpus
  <2> QED
    BY <1>1, <1>4, <2>1, Accesses DEF SharedHandler, Write, Result
<1>5. CASE h \in {"read_stack_current_s", "read_fffe", "kil_jam_read_ffff"}
  BY <1>1, <1>5, FixedAddresses, StackAddresses, Accesses DEF SharedHandler, Latching
<1>6. CASE h = "latch_pch_fetch"
  <2>1. Keeps(c, SetPcHi(c, bus))
    BY <1>1, LatchKeeps
  <2> QED
    BY <1>6, <2>1, Accesses DEF SharedHandler, LatchPchFetch, Latching
<1> QED
  BY <1>2, <1>3, <1>4, <1>5, <1>6 DEF SharedPlain

\* The two that leave their row, for another slot or to stay.
LEMMA Leaving ==
  ASSUME NEW c \in Cpus, NEW bus
  PROVE  /\ LET r == SharedHandler("fetch_illegal_ext", c, bus)
            IN  /\ r.cpu \in Cpus /\ r.cpu.model = c.model /\ r.cpu.microcode = Idx(c.model, 257, 0) - 1
                /\ r.tick \in BusTicks /\ r.tick.status = opcode_fetch
         /\ LET r == SharedHandler("kil_jam_loop", c, bus)
            IN  /\ r.cpu \in Cpus /\ r.cpu.model = c.model /\ r.cpu.microcode = c.microcode - 1
                /\ r.tick \in [address : Addresses, bus : Bytes, status : {cpu_jammed}]
                /\ r.cpu.ld = c.ld
<1> USE Fields, FixedBytes, FixedAddresses
<1>1. /\ Idx(c.model, 257, 0) - 1 \in Int /\ c.microcode - 1 \in Int
  BY DEF Idx
<1>2. /\ NextEnterServiceSlot(c, 257, 0) = [c EXCEPT !.microcode = Idx(c.model, 257, 0) - 1]
      /\ LoopHere(c) = [c EXCEPT !.microcode = c.microcode - 1]
  BY DEF NextEnterServiceSlot, EnterServiceSlot, LoopHere, Cpus
<1>3. /\ SharedHandler("fetch_illegal_ext", c, bus) = Fetch(NextEnterServiceSlot(c, 257, 0))
      /\ SharedHandler("kil_jam_loop", c, bus)
           = Result(LoopHere(c), TickOf(IrqVector + 1, B - 1, cpu_jammed))
  BY DEF SharedHandler
<1> QED
  BY <1>1, <1>2, <1>3 DEF Cpus, Fetch, Result, TickOf, BusTicks, opcode_fetch, cpu_jammed

\* The handlers that take a mnemonic, and the ones it has to be of.
Knows(h, i) ==
  CASE h \in {"exec", "arith_or_dummy", "arith_imm_or_dummy", "arith_dec_fetch"} -> i.mn \in Loads
    [] h \in {"addr_wr", "pending_addrhi_wr", "pending_addrlo_wr"} -> i.mn \in Stores
    [] h = "rmw_wr"      -> /\ i.mn \in Modifies \cup BitModifies
                            /\ i.mn \in BitModifies => i.w \in Weights /\ i.w < B
    [] h = "push_wr"     -> i.mn \in Pushes
    [] h = "dummy"       -> i.mn \in Implieds
    [] h = "unstable_wr" -> i.mn \in UnstableStores
    [] OTHER             -> TRUE

OwnPlain ==
  {"exec", "arith_dec_fetch", "rmw_wr", "push_wr", "dummy", "unstable_wr",
   "addr_wr", "pending_addrhi_wr", "pending_addrlo_wr"}

LEMMA OwnHandlers ==
  ASSUME NEW c \in Cpus, NEW bus \in Bytes, NEW i, NEW taken,
         NEW h \in OwnPlain, Knows(h, i), h \in Uses => c.ld \in Bytes
  PROVE  /\ Advances(c, Handler(h, c, bus, i, taken), 0)
         /\ h \in {"exec", "arith_dec_fetch"} => Handler(h, c, bus, i, taken).tick.status = opcode_fetch
<1> USE Fields, FixedBytes
<1>1. Keeps(c, c)
  BY DEF Keeps
<1>2. CASE h = "exec"
  <2>1. i.mn \in Loads
    BY <1>2 DEF Knows
  <2>2. Handler(h, c, bus, i, taken) = Fetch(Loaded(i.mn, c, bus))
    BY <1>2 DEF Handler, ExecFetch
  <2> QED
    BY <2>1, <2>2, LoadedKeeps, Accesses
<1>3. CASE h = "arith_dec_fetch"
  <2>1. i.mn \in Loads /\ c.ld \in Bytes
    BY <1>3 DEF Knows, Uses
  <2>2. Handler(h, c, bus, i, taken) = Fetch(Loaded(i.mn, c, c.ld))
    BY <1>3 DEF Handler, ArithDecFetch
  <2> QED
    BY <2>1, <2>2, LoadedKeeps, Accesses
<1>4. CASE h = "rmw_wr"
  <2>1. /\ i.mn \in Modifies \cup BitModifies /\ c.ld \in Bytes
        /\ i.mn \in BitModifies => i.w \in Weights /\ i.w < B
    BY <1>4 DEF Knows, Uses
  <2>2. Keeps(c, Combined(i.mn, c, c.ld)) /\ Modified(i.mn, c, c.ld, i.w) \in Bytes
    BY <2>1, ModifiedBytes
  <2>3. Handler(h, c, bus, i, taken)
          = Write(Combined(i.mn, c, c.ld), c.la, Modified(i.mn, c, c.ld, i.w))
    BY <1>4 DEF Handler, ModifyWrite
  <2> QED
    BY <1>4, <2>2, <2>3, Accesses
<1>5. CASE h = "push_wr"
  <2>1. i.mn \in Pushes
    BY <1>5 DEF Knows
  <2>2. Handler(h, c, bus, i, taken) = StackWrite(c, Pushed(i.mn, c))
    BY <1>5 DEF Handler, PushWrite
  <2> QED
    BY <1>1, <1>5, <2>1, <2>2, StoredBytes, CountingAccesses
<1>6. CASE h = "dummy"
  <2>1. i.mn \in Implieds
    BY <1>6 DEF Knows
  <2>2. Handler(h, c, bus, i, taken) = Read(Implied(i.mn, c), c.pc)
    BY <1>6 DEF Handler, DummyRead
  <2> QED
    BY <1>6, <2>1, <2>2, ImpliedKeeps, Accesses
<1>7. CASE h = "unstable_wr"
  <2>1. i.mn \in UnstableStores
    BY <1>7 DEF Knows
  <2>2. PICK value \in Bytes : value = Unstable(i.mn, c, Hi(c.la))
    BY <2>1, StoredBytes, Halves
  <2>3. PICK d : d = AfterUnstable(i.mn, c) /\ Keeps(c, d)
    BY StoredBytes
  <2>4. Handler(h, c, bus, i, taken)
          = Write(d, IF d.ld = 0 THEN d.la ELSE SetHi(d.la, value), value)
    BY <1>7, <2>2, <2>3 DEF Handler, UnstableWrite, WriteUnstableStore
  <2>5. d.la \in Addresses /\ SetHi(d.la, value) \in Addresses
    BY <2>3, SetHalves DEF Keeps
  <2> QED
    BY <1>7, <2>3, <2>4, <2>5, Accesses
<1>8. CASE h \in {"addr_wr", "pending_addrhi_wr", "pending_addrlo_wr"}
  <2>1. i.mn \in Stores
    BY <1>8 DEF Knows
  <2>2. PICK value \in Bytes : value = Stored(i.mn, c)
    BY <2>1, StoredBytes
  <2>3. Handler(h, c, bus, i, taken)
          \in {Write(c, c.la, value), Write(c, SetHi(c.la, bus), value), Write(c, bus, value)}
    BY <1>8, <2>2 DEF Handler, StoreWrite
  <2>4. SetHi(c.la, bus) \in Addresses /\ bus \in Addresses
    BY SetHalves, ByteRange
  <2> QED
    BY <1>1, <1>8, <2>3, <2>4, Accesses
<1> QED
  BY <1>2, <1>3, <1>4, <1>5, <1>6, <1>7, <1>8 DEF OwnPlain

Ariths == {"arith_or_dummy", "arith_imm_or_dummy"}
Skippers == {"branch_c0_offset", "wdc_bbr_bbs_c3_offset_or_skip"}

LEMMA SkippingHandlers ==
  ASSUME NEW c \in Cpus, NEW bus \in Bytes, NEW i, NEW taken
  PROVE  /\ \A h \in Skippers : \E k \in {0, 2} : Advances(c, Handler(h, c, bus, i, taken), k)
         /\ \A h \in Ariths :
              Knows(h, i) =>
                LET r == Handler(h, c, bus, i, taken)
                IN  \/ Advances(c, r, 0) /\ r.cpu.ld = bus
                    \/ Advances(c, r, 1) /\ r.tick.status = opcode_fetch
<1> USE Fields, FixedBytes
<1>1. Keeps(c, c)
  BY DEF Keeps
<1>2. ASSUME NEW h \in Skippers
      PROVE  \E k \in {0, 2} : Advances(c, Handler(h, c, bus, i, taken), k)
  <2>1. Handler(h, c, bus, i, taken) \in {ReadPcInc(c), ReadPcInc(Skip(c, 2))}
    BY DEF Skippers, Handler, BranchC0Offset, BbrBbsOffsetOrSkip
  <2> QED
    BY <1>1, <2>1, CountingAccesses, Skipping
<1>3. ASSUME NEW h \in Ariths, Knows(h, i)
      PROVE  LET r == Handler(h, c, bus, i, taken)
             IN  \/ Advances(c, r, 0) /\ r.cpu.ld = bus
                 \/ Advances(c, r, 1) /\ r.tick.status = opcode_fetch
  <2>1. PICK d : d = Loaded(i.mn, c, bus) /\ Keeps(c, d)
    BY <1>3, LoadedKeeps DEF Knows, Ariths
  <2>2. PICK dummy \in Addresses : Handler(h, c, bus, i, taken) = ArithOrDummy(c, bus, i, dummy)
    <3>1. c.la \in Addresses /\ ArithDummy(i) \in Addresses
      BY ByteRange DEF ArithDummy
    <3> QED
      BY <3>1 DEF Handler, Ariths
  <2>3. PICK e : e = [c EXCEPT !.ld = bus] /\ Keeps(c, e) /\ e.ld = bus
    <3>1. Keeps(c, [c EXCEPT !.ld = bus])
      BY <1>1, LatchKeeps
    <3>2. [c EXCEPT !.ld = bus].ld = bus
      BY DEF Cpus
    <3> QED
      BY <3>1, <3>2
  <2>4. CASE ALU!Bit(c.p, DFlag)
    <3>1. Handler(h, c, bus, i, taken) = Read(e, dummy)
      BY <2>2, <2>3, <2>4 DEF ArithOrDummy
    <3>2. Advances(c, Handler(h, c, bus, i, taken), 0)
      BY <2>3, <3>1, Accesses
    <3>3. Read(e, dummy).cpu = e
      BY DEF Read, Result
    <3>4. Handler(h, c, bus, i, taken).cpu.ld = bus
      BY <2>3, <3>1, <3>3
    <3> QED
      BY <3>2, <3>4
  <2>5. CASE ~ALU!Bit(c.p, DFlag)
    <3>1. Handler(h, c, bus, i, taken) = Fetch(Skip(d, 1))
      BY <2>1, <2>2, <2>5 DEF ArithOrDummy
    <3> QED
      BY <2>1, <3>1, Skipping
  <2> QED
    BY <2>4, <2>5
<1> QED
  BY <1>2, <1>3

\* Each name is that of one handler: what a group has, the groups before it pass on.
LEMMA Groups ==
  ASSUME NEW c, NEW bus, NEW i, NEW taken, NEW h
  PROVE  /\ h \in LastReadPlain \cup LastReadProbes => Handler(h, c, bus, i, taken) = LastReadHandler(h, c, bus)
         /\ h \in StoreAddressPlain => Handler(h, c, bus, i, taken) = StoreAddressHandler(h, c, bus)
         /\ h \in PointerPlain => Handler(h, c, bus, i, taken) = PointerHandler(h, c, bus)
         /\ h \in IndexedPlain \cup {"cmos_r_indexed_probe"}
              => Handler(h, c, bus, i, taken) = IndexedHandler(h, c, bus)
         /\ h \in AbsolutePlain => Handler(h, c, bus, i, taken) = AbsoluteHandler(h, c, bus)
         /\ h \in InterruptPlain => Handler(h, c, bus, i, taken) = InterruptHandler(h, c, bus)
         /\ h \in {"branch_pgfix", "branch_rel_c1_apply", "wdc_bbr_bbs_c4_apply"}
              => Handler(h, c, bus, i, taken) = BranchHandler(h, c, bus)
         /\ h \in ResetPlain \cup {"internal_reset"} => Handler(h, c, bus, i, taken) = ResetHandler(h, c, bus)
         /\ h \in SharedPlain \cup {"fetch_illegal_ext", "kil_jam_loop"}
              => Handler(h, c, bus, i, taken) = SharedHandler(h, c, bus)
<1>1. h \in SharedPlain \cup {"fetch_illegal_ext", "kil_jam_loop"} \cup ResetPlain \cup {"internal_reset"}
          \cup {"branch_pgfix", "branch_rel_c1_apply", "wdc_bbr_bbs_c4_apply"} \cup InterruptPlain
          \cup AbsolutePlain \cup IndexedPlain \cup {"cmos_r_indexed_probe"} \cup PointerPlain
          \cup StoreAddressPlain \cup LastReadPlain \cup LastReadProbes
        => Handler(h, c, bus, i, taken) = SharedHandler(h, c, bus)
  BY DEF Handler, StoreWrite, SharedPlain, ResetPlain, InterruptPlain, AbsolutePlain, IndexedPlain,
         PointerPlain, StoreAddressPlain, LastReadPlain, LastReadProbes
<1>2. h \in ResetPlain \cup {"internal_reset"}
          \cup {"branch_pgfix", "branch_rel_c1_apply", "wdc_bbr_bbs_c4_apply"} \cup InterruptPlain
          \cup AbsolutePlain \cup IndexedPlain \cup {"cmos_r_indexed_probe"} \cup PointerPlain
          \cup StoreAddressPlain \cup LastReadPlain \cup LastReadProbes
        => SharedHandler(h, c, bus) = ResetHandler(h, c, bus)
  BY DEF SharedHandler, ResetPlain, InterruptPlain, AbsolutePlain, IndexedPlain,
         PointerPlain, StoreAddressPlain, LastReadPlain, LastReadProbes
<1>3. h \in {"branch_pgfix", "branch_rel_c1_apply", "wdc_bbr_bbs_c4_apply"} \cup InterruptPlain
          \cup AbsolutePlain \cup IndexedPlain \cup {"cmos_r_indexed_probe"} \cup PointerPlain
          \cup StoreAddressPlain \cup LastReadPlain \cup LastReadProbes
        => ResetHandler(h, c, bus) = BranchHandler(h, c, bus)
  BY DEF ResetHandler, InterruptPlain, AbsolutePlain, IndexedPlain,
         PointerPlain, StoreAddressPlain, LastReadPlain, LastReadProbes
<1>4. h \in InterruptPlain \cup AbsolutePlain \cup IndexedPlain \cup {"cmos_r_indexed_probe"} \cup PointerPlain
          \cup StoreAddressPlain \cup LastReadPlain \cup LastReadProbes
        => BranchHandler(h, c, bus) = InterruptHandler(h, c, bus)
  BY DEF BranchHandler, InterruptPlain, AbsolutePlain, IndexedPlain,
         PointerPlain, StoreAddressPlain, LastReadPlain, LastReadProbes
<1>5. h \in AbsolutePlain \cup IndexedPlain \cup {"cmos_r_indexed_probe"} \cup PointerPlain
          \cup StoreAddressPlain \cup LastReadPlain \cup LastReadProbes
        => InterruptHandler(h, c, bus) = AbsoluteHandler(h, c, bus)
  BY DEF InterruptHandler, AbsolutePlain, IndexedPlain,
         PointerPlain, StoreAddressPlain, LastReadPlain, LastReadProbes
<1>6. h \in IndexedPlain \cup {"cmos_r_indexed_probe"} \cup PointerPlain
          \cup StoreAddressPlain \cup LastReadPlain \cup LastReadProbes
        => AbsoluteHandler(h, c, bus) = IndexedHandler(h, c, bus)
  BY DEF AbsoluteHandler, IndexedPlain, PointerPlain, StoreAddressPlain, LastReadPlain, LastReadProbes
<1>7. h \in PointerPlain \cup StoreAddressPlain \cup LastReadPlain \cup LastReadProbes
        => IndexedHandler(h, c, bus) = PointerHandler(h, c, bus)
  BY DEF IndexedHandler, PointerPlain, StoreAddressPlain, LastReadPlain, LastReadProbes
<1>8. h \in StoreAddressPlain \cup LastReadPlain \cup LastReadProbes
        => PointerHandler(h, c, bus) = StoreAddressHandler(h, c, bus)
  BY DEF PointerHandler, StoreAddressPlain, LastReadPlain, LastReadProbes
<1>9. h \in LastReadPlain \cup LastReadProbes => StoreAddressHandler(h, c, bus) = LastReadHandler(h, c, bus)
  BY DEF StoreAddressHandler, LastReadPlain, LastReadProbes
<1> QED
  BY <1>1, <1>2, <1>3, <1>4, <1>5, <1>6, <1>7, <1>8, <1>9

\* Those that any row may have, by the cells they may skip.
Common ==
  LastReadPlain \cup StoreAddressPlain \cup PointerPlain \cup IndexedPlain \cup AbsolutePlain
    \cup InterruptPlain \cup {"branch_pgfix"} \cup SharedPlain
Probes == LastReadProbes \cup {"cmos_r_indexed_probe", "branch_rel_c1_apply", "wdc_bbr_bbs_c4_apply"}
Ordinary == Common \cup ResetPlain \cup OwnPlain \cup Probes \cup Ariths \cup Skippers

Skips(h) ==
  CASE h \in Skippers -> {0, 2}
    [] h \in Probes \cup Ariths -> {0, 1}
    [] OTHER -> {0}

\* Those that fetch an opcode, having skipped s cells.
Fetching ==
  {"fetch", "latch_pch_fetch", "latch_addr1_set_pc_fetch", "jmp_ind_c4_fetch", "exec", "arith_dec_fetch"}
Ends(h, s) == h \in Fetching \/ (h \in Ariths /\ s = 1)

\* Those after which latch_data holds a byte, if it held one before a carrier.
Carriers == {"cmos_jmp_ind_c4_target_hi_retry"}
Leaves(h, s) == s = 0 /\ h \in Latching \cup Carriers

\* What an ordinary handler does: it stays within the types, moves by as many cells as it
\* may skip, and fetches where it says so.
LEMMA Effects ==
  ASSUME NEW c \in Cpus, NEW bus \in Bytes, NEW i, NEW taken,
         NEW h \in Ordinary, Knows(h, i), h \in Uses => c.ld \in Bytes
  PROVE  \E s \in Skips(h) :
           LET r == Handler(h, c, bus, i, taken)
           IN  /\ Advances(c, r, s)
               /\ Ends(h, s) => r.tick.status = opcode_fetch
               /\ Leaves(h, s) => r.cpu.ld \in Bytes
<1> DEFINE r == Handler(h, c, bus, i, taken)
           Goal(s) == /\ Advances(c, r, s)
                      /\ Ends(h, s) => r.tick.status = opcode_fetch
                      /\ Leaves(h, s) => r.cpu.ld \in Bytes
<1>1. SUFFICES \E s \in Skips(h) : Goal(s)
  OBVIOUS
<1>2. ASSUME /\ h \notin Skippers \cup Probes \cup Ariths
             /\ Advances(c, r, 0)
             /\ h \in Fetching => r.tick.status = opcode_fetch
             /\ h \in Latching \cup Carriers => r.cpu.ld \in Bytes
      PROVE  \E s \in Skips(h) : Goal(s)
  <2>1. Skips(h) = {0}
    BY <1>2 DEF Skips
  <2> HIDE DEF r
  <2> QED
    BY <1>2, <2>1 DEF Ends, Leaves
<1>3. CASE h \in LastReadPlain
  <2>1. r = LastReadHandler(h, c, bus)
    BY <1>3, Groups
  <2>2. Advances(c, r, 0) /\ (h \in Carriers => r.cpu.ld = c.ld)
    BY <1>3, <2>1, LastReads DEF Carriers
  <2>3. h \notin Skippers \cup Probes \cup Ariths \cup Fetching \cup Latching
    BY <1>3 DEF LastReadPlain, Fetching, Latching, Skippers, Probes, LastReadProbes, Ariths
  <2>4. h \in Carriers => c.ld \in Bytes
    BY DEF Carriers, Uses
  <2> HIDE DEF r
  <2> QED
    BY <1>2, <2>2, <2>3, <2>4
<1>4. CASE h \in StoreAddressPlain
  <2>1. Advances(c, r, 0)
    BY <1>4, Groups, StoreAddresses
  <2>2. h \notin Skippers \cup Probes \cup Ariths \cup Fetching \cup Latching \cup Carriers
    BY <1>4 DEF StoreAddressPlain, Fetching, Latching, Skippers, Probes, LastReadProbes, Ariths, Carriers
  <2> QED
    BY <1>2, <2>1, <2>2
<1>5. CASE h \in PointerPlain
  <2>1. Advances(c, r, 0)
    BY <1>5, Groups, Pointers
  <2>2. h \notin Skippers \cup Probes \cup Ariths \cup Fetching \cup Latching \cup Carriers
    BY <1>5 DEF PointerPlain, Fetching, Latching, Skippers, Probes, LastReadProbes, Ariths, Carriers
  <2> QED
    BY <1>2, <2>1, <2>2
<1>6. CASE h \in IndexedPlain
  <2>1. Advances(c, r, 0)
    BY <1>6, Groups, Indices
  <2>2. h \notin Skippers \cup Probes \cup Ariths \cup Fetching \cup Latching \cup Carriers
    BY <1>6 DEF IndexedPlain, Fetching, Latching, Skippers, Probes, LastReadProbes, Ariths, Carriers
  <2> QED
    BY <1>2, <2>1, <2>2
<1>7. CASE h \in AbsolutePlain
  <2>1. r = AbsoluteHandler(h, c, bus)
    BY <1>7, Groups
  <2>2. h \in Fetching => h \in {"latch_addr1_set_pc_fetch", "jmp_ind_c4_fetch"}
    BY <1>7 DEF AbsolutePlain, Fetching
  <2>3. h \notin Skippers \cup Probes \cup Ariths \cup Carriers
    BY <1>7 DEF AbsolutePlain, Skippers, Probes, LastReadProbes, Ariths, Carriers
  <2> HIDE DEF r
  <2> QED
    BY <1>2, <1>7, <2>1, <2>2, <2>3, AbsoluteAddresses
<1>8. CASE h \in InterruptPlain
  <2>1. Advances(c, r, 0)
    BY <1>8, Groups, Interruptions
  <2>2. h \notin Skippers \cup Probes \cup Ariths \cup Fetching \cup Latching \cup Carriers
    BY <1>8 DEF InterruptPlain, Fetching, Latching, Skippers, Probes, LastReadProbes, Ariths, Carriers
  <2> QED
    BY <1>2, <2>1, <2>2
<1>9. CASE h = "branch_pgfix"
  <2>1. Advances(c, r, 0)
    BY <1>9, Groups, Branches
  <2>2. h \notin Skippers \cup Probes \cup Ariths \cup Fetching \cup Latching \cup Carriers
    BY <1>9 DEF Fetching, Latching, Skippers, Probes, LastReadProbes, Ariths, Carriers
  <2> QED
    BY <1>2, <2>1, <2>2
<1>10. CASE h \in ResetPlain
  <2>1. Advances(c, r, 0)
    BY <1>10, Groups, Resets
  <2>2. h \notin Skippers \cup Probes \cup Ariths \cup Fetching \cup Latching \cup Carriers
    BY <1>10 DEF ResetPlain, Fetching, Latching, Skippers, Probes, LastReadProbes, Ariths, Carriers
  <2> QED
    BY <1>2, <2>1, <2>2
<1>11. CASE h \in SharedPlain
  <2>1. r = SharedHandler(h, c, bus)
    BY <1>11, Groups
  <2>2. h \in Fetching => h \in {"fetch", "latch_pch_fetch"}
    BY <1>11 DEF SharedPlain, Fetching
  <2>3. h \notin Skippers \cup Probes \cup Ariths \cup Carriers
    BY <1>11 DEF SharedPlain, Skippers, Probes, LastReadProbes, Ariths, Carriers
  <2> HIDE DEF r
  <2> QED
    BY <1>2, <1>11, <2>1, <2>2, <2>3, Shared
<1>12. CASE h \in OwnPlain
  <2>1. h \in Fetching => h \in {"exec", "arith_dec_fetch"}
    BY <1>12 DEF OwnPlain, Fetching
  <2>2. h \notin Skippers \cup Probes \cup Ariths \cup Latching \cup Carriers
    BY <1>12 DEF OwnPlain, Latching, Skippers, Probes, LastReadProbes, Ariths, Carriers
  <2>3. Advances(c, r, 0) /\ (h \in {"exec", "arith_dec_fetch"} => r.tick.status = opcode_fetch)
    BY <1>12, OwnHandlers
  <2> HIDE DEF r
  <2> QED
    BY <1>2, <2>1, <2>2, <2>3
<1>13. CASE h \in Probes
  <2>1. PICK s \in 0..1 : Advances(c, r, s)
    BY <1>13, Groups, LastReads, Indices, Branches DEF Probes
  <2>2. s \in Skips(h)
    BY <1>13 DEF Skips, Skippers, Probes, LastReadProbes
  <2>3. h \notin Ariths \cup Fetching \cup Latching \cup Carriers
    BY <1>13 DEF Fetching, Latching, Probes, LastReadProbes, Ariths, Carriers
  <2> HIDE DEF r
  <2> QED
    BY <2>1, <2>2, <2>3 DEF Ends, Leaves
<1>14. CASE h \in Ariths
  <2>1. \/ Advances(c, r, 0) /\ r.cpu.ld = bus
        \/ Advances(c, r, 1) /\ r.tick.status = opcode_fetch
    BY <1>14, SkippingHandlers
  <2>2. Skips(h) = {0, 1} /\ h \notin Fetching
    BY <1>14 DEF Skips, Skippers, Ariths, Fetching
  <2> HIDE DEF r
  <2> QED
    BY <2>1, <2>2 DEF Ends, Leaves
<1>15. CASE h \in Skippers
  <2>1. PICK s \in {0, 2} : Advances(c, r, s)
    BY <1>15, SkippingHandlers
  <2>2. Skips(h) = {0, 2}
    BY <1>15 DEF Skips, Skippers, Probes, LastReadProbes, Ariths
  <2>3. h \notin Ariths \cup Fetching \cup Latching \cup Carriers
    BY <1>15 DEF Fetching, Latching, Skippers, Ariths, Carriers
  <2> HIDE DEF r
  <2> QED
    BY <2>1, <2>2, <2>3 DEF Ends, Leaves
<1> QED
  BY <1>1, <1>3, <1>4, <1>5, <1>6, <1>7, <1>8, <1>9, <1>10, <1>11, <1>12, <1>13, <1>14, <1>15
     DEF Ordinary, Common
-----------------------------------------------------------------------------
(* The rows of the control store. *)

Movers == {"fetch_illegal_ext", "kil_jam_loop"}

\* From cell k of a row, skipping s, the next cell is one of the row, or the row is over and
\* an opcode fetched; and it finds a byte in latch_data if it needs one.
Falls(row, k, s) ==
  /\ k + s <= Len(row) /\ k + s <= 7
  /\ k + s = Len(row) => Ends(row[k], s)
  /\ k + s < Len(row) /\ row[k + s + 1] \in Uses => Leaves(row[k], s)

Cell(row, own, k) ==
  k <= Len(row) /\ row[k] \notin Movers =>
    /\ row[k] \in Common \cup Probes \cup own
    /\ Falls(row, k, 0)
    /\ row[k] \in Probes \cup Ariths => Falls(row, k, 1)
    /\ row[k] \in Skippers => Falls(row, k, 2)

\* A row of common handlers and of some of its own that never falls off its end.
Sound(row, own) ==
  /\ Len(row) \in 1..8
  /\ row[1] \notin Uses
  /\ Cell(row, own, 1) /\ Cell(row, own, 2) /\ Cell(row, own, 3) /\ Cell(row, own, 4)
  /\ Cell(row, own, 5) /\ Cell(row, own, 6) /\ Cell(row, own, 7) /\ Cell(row, own, 8)

\* Loads and what computes with a byte of memory.
LEMMA NmosReadRows ==
  ASSUME NEW mode \in DOMAIN NmosRead, NEW row, row = NmosRead[mode] \o <<"exec">>
  PROVE  Sound(row, {"exec"})
<1> USE DEF Cell, Sound, Falls, Ends, Leaves, Fetching, Uses, Latching, Carriers,
           Common, LastReadPlain, StoreAddressPlain, PointerPlain, IndexedPlain, AbsolutePlain,
           InterruptPlain, SharedPlain, Probes, LastReadProbes, Ariths, Skippers, Movers
<1>1. CASE mode = "imm"
  BY <1>1 DEF NmosRead
<1>2. CASE mode = "zp"
  BY <1>2 DEF NmosRead
<1>3. CASE mode = "zpx"
  BY <1>3 DEF NmosRead, ZeroPageX
<1>4. CASE mode = "zpy"
  BY <1>4 DEF NmosRead, ZeroPageY
<1>5. CASE mode = "abs"
  BY <1>5 DEF NmosRead, Absolute
<1>6. CASE mode = "abx"
  BY <1>6 DEF NmosRead
<1>7. CASE mode = "aby"
  BY <1>7 DEF NmosRead
<1>8. CASE mode = "izx"
  BY <1>8 DEF NmosRead, PointerX
<1>9. CASE mode = "izy"
  BY <1>9 DEF NmosRead, PointerY
<1> QED
  BY <1>1, <1>2, <1>3, <1>4, <1>5, <1>6, <1>7, <1>8, <1>9, Zenon DEF NmosRead

\* Their CMOS rows.
LEMMA CmosReadRows ==
  ASSUME NEW mode \in DOMAIN CmosRead, NEW row, row = CmosRead[mode] \o <<"exec">>
  PROVE  Sound(row, {"exec"})
<1>1. CASE mode \in {"imm", "zp", "zpx", "zpy", "abs", "izx"}
  <2>1. CmosRead[mode] = NmosRead[mode]
    BY <1>1 DEF CmosRead
  <2>2. mode \in DOMAIN NmosRead
    BY <1>1 DEF NmosRead
  <2> QED
    BY <2>1, <2>2, NmosReadRows
<1> USE DEF Cell, Sound, Falls, Ends, Leaves, Fetching, Uses, Latching, Carriers,
           Common, LastReadPlain, StoreAddressPlain, PointerPlain, IndexedPlain, AbsolutePlain,
           InterruptPlain, SharedPlain, Probes, LastReadProbes, Ariths, Skippers, Movers
<1>2. CASE mode = "abx"
  BY <1>2 DEF CmosRead
<1>3. CASE mode = "aby"
  BY <1>3 DEF CmosRead
<1>4. CASE mode = "izy"
  BY <1>4 DEF CmosRead, CmosPointerY
<1>5. CASE mode = "izp"
  BY <1>5 DEF CmosRead
<1> QED
  BY <1>1, <1>2, <1>3, <1>4, <1>5, Zenon DEF CmosRead

\* ADC and SBC of the CMOS families, a cycle longer in decimal mode.
LEMMA ArithRows ==
  ASSUME NEW mode \in DOMAIN CmosArith, NEW row, row = CmosArith[mode] \o <<"arith_dec_fetch">>
  PROVE  Sound(row, Ariths \cup {"arith_dec_fetch"})
<1> USE DEF Cell, Sound, Falls, Ends, Leaves, Fetching, Uses, Latching, Carriers,
           Common, LastReadPlain, StoreAddressPlain, PointerPlain, IndexedPlain, AbsolutePlain,
           InterruptPlain, SharedPlain, Probes, LastReadProbes, Ariths, Skippers, Movers
<1>1. CASE mode = "imm"
  BY <1>1 DEF CmosArith
<1>2. CASE mode = "zp"
  BY <1>2 DEF CmosArith
<1>3. CASE mode = "zpx"
  BY <1>3 DEF CmosArith, ZeroPageX
<1>4. CASE mode = "abs"
  BY <1>4 DEF CmosArith, Absolute
<1>5. CASE mode = "abx"
  BY <1>5 DEF CmosArith
<1>6. CASE mode = "aby"
  BY <1>6 DEF CmosArith
<1>7. CASE mode = "izx"
  BY <1>7 DEF CmosArith, PointerX
<1>8. CASE mode = "izy"
  BY <1>8 DEF CmosArith, CmosPointerY
<1>9. CASE mode = "izp"
  BY <1>9 DEF CmosArith
<1> QED
  BY <1>1, <1>2, <1>3, <1>4, <1>5, <1>6, <1>7, <1>8, <1>9, Zenon DEF CmosArith

\* Stores.
LEMMA NmosWriteRows ==
  ASSUME NEW mode \in DOMAIN NmosWrite, NEW row, row = NmosWrite[mode] \o <<"fetch">>
  PROVE  Sound(row, {"addr_wr", "pending_addrhi_wr", "pending_addrlo_wr"})
<1> USE DEF Cell, Sound, Falls, Ends, Leaves, Fetching, Uses, Latching, Carriers,
           Common, LastReadPlain, StoreAddressPlain, PointerPlain, IndexedPlain, AbsolutePlain,
           InterruptPlain, SharedPlain, Probes, LastReadProbes, Ariths, Skippers, Movers
<1>1. CASE mode = "zp"
  BY <1>1 DEF NmosWrite
<1>2. CASE mode = "zpx"
  BY <1>2 DEF NmosWrite
<1>3. CASE mode = "zpy"
  BY <1>3 DEF NmosWrite
<1>4. CASE mode = "abs"
  BY <1>4 DEF NmosWrite, Absolute
<1>5. CASE mode = "abx"
  BY <1>5 DEF NmosWrite
<1>6. CASE mode = "aby"
  BY <1>6 DEF NmosWrite
<1>7. CASE mode = "izx"
  BY <1>7 DEF NmosWrite
<1>8. CASE mode = "izy"
  BY <1>8 DEF NmosWrite
<1> QED
  BY <1>1, <1>2, <1>3, <1>4, <1>5, <1>6, <1>7, <1>8, Zenon DEF NmosWrite

\* Their CMOS rows.
LEMMA CmosWriteRows ==
  ASSUME NEW mode \in DOMAIN CmosWrite, NEW row, row = CmosWrite[mode] \o <<"fetch">>
  PROVE  Sound(row, {"addr_wr", "pending_addrhi_wr", "pending_addrlo_wr"})
<1>1. CASE mode \in {"zp", "zpx", "zpy", "abs", "izx"}
  <2>1. CmosWrite[mode] = NmosWrite[mode]
    BY <1>1 DEF CmosWrite
  <2>2. mode \in DOMAIN NmosWrite
    BY <1>1 DEF NmosWrite
  <2> QED
    BY <2>1, <2>2, NmosWriteRows
<1> USE DEF Cell, Sound, Falls, Ends, Leaves, Fetching, Uses, Latching, Carriers,
           Common, LastReadPlain, StoreAddressPlain, PointerPlain, IndexedPlain, AbsolutePlain,
           InterruptPlain, SharedPlain, Probes, LastReadProbes, Ariths, Skippers, Movers
<1>2. CASE mode = "abx"
  BY <1>2 DEF CmosWrite
<1>3. CASE mode = "aby"
  BY <1>3 DEF CmosWrite
<1>4. CASE mode = "izy"
  BY <1>4 DEF CmosWrite
<1>5. CASE mode = "izp"
  BY <1>5 DEF CmosWrite
<1> QED
  BY <1>1, <1>2, <1>3, <1>4, <1>5, Zenon DEF CmosWrite

\* The unstable stores.
LEMMA UnstableRows ==
  ASSUME NEW mode \in DOMAIN Unstables, NEW row, row = Unstables[mode] \o <<"fetch">>
  PROVE  Sound(row, {"unstable_wr"})
<1> USE DEF Cell, Sound, Falls, Ends, Leaves, Fetching, Uses, Latching, Carriers,
           Common, LastReadPlain, StoreAddressPlain, PointerPlain, IndexedPlain, AbsolutePlain,
           InterruptPlain, SharedPlain, Probes, LastReadProbes, Ariths, Skippers, Movers
<1>1. CASE mode = "abx"
  BY <1>1 DEF Unstables
<1>2. CASE mode = "aby"
  BY <1>2 DEF Unstables
<1>3. CASE mode = "izy"
  BY <1>3 DEF Unstables
<1> QED
  BY <1>1, <1>2, <1>3, Zenon DEF Unstables

\* What a read-modify-write row adds to the cells that lead to its operand.
Rewritten(reach, w) == reach \o <<w, "rmw_wr", IF Len(reach) = 5 THEN "fetch_illegal_ext" ELSE "fetch">>

\* Read-modify-write instructions.
LEMMA NmosModifyRows ==
  ASSUME NEW mode \in DOMAIN NmosModify, NEW reach, reach = NmosModify[mode]
  PROVE  Sound(Rewritten(reach, "latch_data_write_latch_addr"), {"rmw_wr"})
<1>1. PICK row : row = Rewritten(reach, "latch_data_write_latch_addr")
  OBVIOUS
<1> USE DEF Cell, Sound, Falls, Ends, Leaves, Fetching, Uses, Latching, Carriers,
           Common, LastReadPlain, StoreAddressPlain, PointerPlain, IndexedPlain, AbsolutePlain,
           InterruptPlain, SharedPlain, Probes, LastReadProbes, Ariths, Skippers, Movers
<1>2. ASSUME mode = "zp"
      PROVE  Sound(row, {"rmw_wr"})
  <2>1. reach = PointerY
    BY <1>2 DEF NmosModify
  <2>2. Len(reach) = 2
    BY <2>1 DEF PointerY
  <2>3. row = reach \o <<"latch_data_write_latch_addr", "rmw_wr", "fetch">>
    BY <1>1, <2>2 DEF Rewritten
  <2>4. row = PointerY \o <<"latch_data_write_latch_addr", "rmw_wr", "fetch">>
    BY <2>1, <2>3, Zenon
  <2> QED
    BY <2>4 DEF PointerY
<1>3. ASSUME mode = "zpx"
      PROVE  Sound(row, {"rmw_wr"})
  <2>1. reach = ZeroPageX
    BY <1>3 DEF NmosModify
  <2>2. Len(reach) = 3
    BY <2>1 DEF ZeroPageX
  <2>3. row = reach \o <<"latch_data_write_latch_addr", "rmw_wr", "fetch">>
    BY <1>1, <2>2 DEF Rewritten
  <2>4. row = ZeroPageX \o <<"latch_data_write_latch_addr", "rmw_wr", "fetch">>
    BY <2>1, <2>3, Zenon
  <2> QED
    BY <2>4 DEF ZeroPageX
<1>4. ASSUME mode = "abs"
      PROVE  Sound(row, {"rmw_wr"})
  <2>1. reach = Absolute \o <<"latch_addr1_read_latch_addr">>
    BY <1>4 DEF NmosModify
  <2>2. Len(reach) = 3
    BY <2>1 DEF Absolute
  <2>3. row = reach \o <<"latch_data_write_latch_addr", "rmw_wr", "fetch">>
    BY <1>1, <2>2 DEF Rewritten
  <2>4. row = Absolute \o <<"latch_addr1_read_latch_addr">> \o <<"latch_data_write_latch_addr", "rmw_wr", "fetch">>
    BY <2>1, <2>3, Zenon
  <2> QED
    BY <2>4 DEF Absolute
<1>5. ASSUME mode = "abx"
      PROVE  Sound(row, {"rmw_wr"})
  <2>1. reach = <<"read_pc_inc", "rw_abx_c1_hi", "w_indexed_probe", "read_latch_addr">>
    BY <1>5 DEF NmosModify
  <2>2. Len(reach) = 4
    BY <2>1
  <2>3. row = reach \o <<"latch_data_write_latch_addr", "rmw_wr", "fetch">>
    BY <1>1, <2>2 DEF Rewritten
  <2>4. row = <<"read_pc_inc", "rw_abx_c1_hi", "w_indexed_probe", "read_latch_addr">> \o <<"latch_data_write_latch_addr", "rmw_wr", "fetch">>
    BY <2>1, <2>3, Zenon
  <2> QED
    BY <2>4
<1>6. ASSUME mode = "aby"
      PROVE  Sound(row, {"rmw_wr"})
  <2>1. reach = <<"read_pc_inc", "latch_aby_base_read_pc_inc", "w_indexed_probe", "read_latch_addr">>
    BY <1>6 DEF NmosModify
  <2>2. Len(reach) = 4
    BY <2>1
  <2>3. row = reach \o <<"latch_data_write_latch_addr", "rmw_wr", "fetch">>
    BY <1>1, <2>2 DEF Rewritten
  <2>4. row = <<"read_pc_inc", "latch_aby_base_read_pc_inc", "w_indexed_probe", "read_latch_addr">> \o <<"latch_data_write_latch_addr", "rmw_wr", "fetch">>
    BY <2>1, <2>3, Zenon
  <2> QED
    BY <2>4
<1>7. ASSUME mode = "izx"
      PROVE  Sound(row, {"rmw_wr"})
  <2>1. reach = PointerX \o <<"r_izx_c4_data">>
    BY <1>7 DEF NmosModify
  <2>2. Len(reach) = 5
    BY <2>1 DEF PointerX
  <2>3. row = reach \o <<"latch_data_write_latch_addr", "rmw_wr", "fetch_illegal_ext">>
    BY <1>1, <2>2 DEF Rewritten
  <2>4. row = PointerX \o <<"r_izx_c4_data">> \o <<"latch_data_write_latch_addr", "rmw_wr", "fetch_illegal_ext">>
    BY <2>1, <2>3, Zenon
  <2> QED
    BY <2>4 DEF PointerX
<1>8. ASSUME mode = "izy"
      PROVE  Sound(row, {"rmw_wr"})
  <2>1. reach = PointerY \o <<"w_izy_c2_ptrhi", "w_indexed_probe", "read_latch_addr">>
    BY <1>8 DEF NmosModify
  <2>2. Len(reach) = 5
    BY <2>1 DEF PointerY
  <2>3. row = reach \o <<"latch_data_write_latch_addr", "rmw_wr", "fetch_illegal_ext">>
    BY <1>1, <2>2 DEF Rewritten
  <2>4. row = PointerY \o <<"w_izy_c2_ptrhi", "w_indexed_probe", "read_latch_addr">> \o <<"latch_data_write_latch_addr", "rmw_wr", "fetch_illegal_ext">>
    BY <2>1, <2>3, Zenon
  <2> QED
    BY <2>4 DEF PointerY
<1> HIDE DEF Sound
<1> QED
  BY <1>1, <1>2, <1>3, <1>4, <1>5, <1>6, <1>7, <1>8 DEF NmosModify

\* Their CMOS rows.
LEMMA CmosModifyRows ==
  ASSUME NEW mode \in DOMAIN CmosModify, NEW reach, reach = CmosModify[mode]
  PROVE  Sound(Rewritten(reach, "latch_data_read_latch_addr"), {"rmw_wr"})
<1>1. PICK row : row = Rewritten(reach, "latch_data_read_latch_addr")
  OBVIOUS
<1> USE DEF Cell, Sound, Falls, Ends, Leaves, Fetching, Uses, Latching, Carriers,
           Common, LastReadPlain, StoreAddressPlain, PointerPlain, IndexedPlain, AbsolutePlain,
           InterruptPlain, SharedPlain, Probes, LastReadProbes, Ariths, Skippers, Movers
<1>2. ASSUME mode = "zp"
      PROVE  Sound(row, {"rmw_wr"})
  <2>1. reach = PointerY
    BY <1>2 DEF CmosModify, NmosModify
  <2>2. Len(reach) = 2
    BY <2>1 DEF PointerY
  <2>3. row = reach \o <<"latch_data_read_latch_addr", "rmw_wr", "fetch">>
    BY <1>1, <2>2 DEF Rewritten
  <2>4. row = PointerY \o <<"latch_data_read_latch_addr", "rmw_wr", "fetch">>
    BY <2>1, <2>3, Zenon
  <2> QED
    BY <2>4 DEF PointerY
<1>3. ASSUME mode = "zpx"
      PROVE  Sound(row, {"rmw_wr"})
  <2>1. reach = ZeroPageX
    BY <1>3 DEF CmosModify, NmosModify
  <2>2. Len(reach) = 3
    BY <2>1 DEF ZeroPageX
  <2>3. row = reach \o <<"latch_data_read_latch_addr", "rmw_wr", "fetch">>
    BY <1>1, <2>2 DEF Rewritten
  <2>4. row = ZeroPageX \o <<"latch_data_read_latch_addr", "rmw_wr", "fetch">>
    BY <2>1, <2>3, Zenon
  <2> QED
    BY <2>4 DEF ZeroPageX
<1>4. ASSUME mode = "abs"
      PROVE  Sound(row, {"rmw_wr"})
  <2>1. reach = Absolute \o <<"latch_addr1_read_latch_addr">>
    BY <1>4 DEF CmosModify, NmosModify
  <2>2. Len(reach) = 3
    BY <2>1 DEF Absolute
  <2>3. row = reach \o <<"latch_data_read_latch_addr", "rmw_wr", "fetch">>
    BY <1>1, <2>2 DEF Rewritten
  <2>4. row = Absolute \o <<"latch_addr1_read_latch_addr">> \o <<"latch_data_read_latch_addr", "rmw_wr", "fetch">>
    BY <2>1, <2>3, Zenon
  <2> QED
    BY <2>4 DEF Absolute
<1>5. ASSUME mode = "abx"
      PROVE  Sound(row, {"rmw_wr"})
  <2>1. reach = <<"read_pc_inc", "cmos_latch_abx_base_read_pc", "cmos_w_indexed_probe", "read_latch_addr">>
    BY <1>5 DEF CmosModify
  <2>2. Len(reach) = 4
    BY <2>1
  <2>3. row = reach \o <<"latch_data_read_latch_addr", "rmw_wr", "fetch">>
    BY <1>1, <2>2 DEF Rewritten
  <2>4. row = <<"read_pc_inc", "cmos_latch_abx_base_read_pc", "cmos_w_indexed_probe", "read_latch_addr">> \o <<"latch_data_read_latch_addr", "rmw_wr", "fetch">>
    BY <2>1, <2>3, Zenon
  <2> QED
    BY <2>4
<1> HIDE DEF Sound
<1> QED
  BY <1>1, <1>2, <1>3, <1>4, <1>5 DEF CmosModify

LEMMA ModifyShortRows ==
  ASSUME NEW w \in {"latch_data_read_latch_addr", "latch_data_write_latch_addr"}, NEW row,
         row = Rewritten(CmosModifyShort, w)
  PROVE  Sound(row, {"rmw_wr"})
<1> USE DEF Cell, Sound, Falls, Ends, Leaves, Fetching, Uses, Latching, Carriers,
           Common, LastReadPlain, StoreAddressPlain, PointerPlain, IndexedPlain, AbsolutePlain,
           InterruptPlain, SharedPlain, Probes, LastReadProbes, Ariths, Skippers, Movers
<1>1. Len(CmosModifyShort) = 4
  BY DEF CmosModifyShort
<1>2. row = CmosModifyShort \o <<w, "rmw_wr", "fetch">>
  BY <1>1 DEF Rewritten
<1>3. CASE w = "latch_data_read_latch_addr"
  <2>1. row = <<"read_pc_inc", "cmos_latch_abx_base_read_pc", "cmos_r_indexed_probe", "read_latch_addr">> \o <<"latch_data_read_latch_addr", "rmw_wr", "fetch">>
    BY <1>2, <1>3, Zenon DEF CmosModifyShort
  <2> QED
    BY <2>1
<1>4. CASE w = "latch_data_write_latch_addr"
  <2>1. row = <<"read_pc_inc", "cmos_latch_abx_base_read_pc", "cmos_r_indexed_probe", "read_latch_addr">> \o <<"latch_data_write_latch_addr", "rmw_wr", "fetch">>
    BY <1>2, <1>4, Zenon DEF CmosModifyShort
  <2> QED
    BY <2>1
<1> QED
  BY <1>3, <1>4

\* Jumps, calls, branches, BRK and its return, and the jam.
LEMMA FlowRows ==
  ASSUME NEW mod, NEW kind \in Flows, NEW row, row = FlowRow(mod, kind)
  PROVE  Sound(row, Skippers)
<1> USE DEF Cell, Sound, Falls, Ends, Leaves, Fetching, Uses, Latching, Carriers,
           Common, LastReadPlain, StoreAddressPlain, PointerPlain, IndexedPlain, AbsolutePlain,
           InterruptPlain, SharedPlain, Probes, LastReadProbes, Ariths, Skippers, Movers
<1>1. CASE kind = "jmp_abs"
  BY <1>1 DEF FlowRow, Absolute
<1>2. CASE kind = "jmp_ind_x"
  BY <1>2 DEF FlowRow, Absolute
<1>3. CASE kind = "jsr"
  BY <1>3 DEF FlowRow
<1>4. CASE kind = "rts"
  BY <1>4 DEF FlowRow, StackReads
<1>5. CASE kind = "rti"
  BY <1>5 DEF FlowRow, StackReads
<1>6. CASE kind = "branch"
  BY <1>6 DEF FlowRow
<1>7. CASE kind = "bra"
  BY <1>7 DEF FlowRow
<1>8. CASE kind = "bbr"
  BY <1>8 DEF FlowRow
<1>9. CASE kind = "bbs"
  BY <1>9 DEF FlowRow
<1>10. CASE kind = "kil"
  BY <1>10 DEF FlowRow
<1>11. CASE kind = "jmp_ind"
  <2>1. CASE Cmos(mod)
    <3>1. row = Absolute \o <<"jmp_ind_c2_target_lo", "latch_data_read_latch_addr">>
                  \o <<"cmos_jmp_ind_c4_target_hi_retry">> \o <<"jmp_ind_c4_fetch">>
      BY <1>11, <2>1 DEF FlowRow
    <3> QED
      BY <3>1 DEF Absolute
  <2>2. CASE ~Cmos(mod)
    <3>1. row = Absolute \o <<"jmp_ind_c2_target_lo", "latch_data_read_latch_addr">>
                  \o <<>> \o <<"jmp_ind_c4_fetch">>
      BY <1>11, <2>2 DEF FlowRow
    <3> QED
      BY <3>1 DEF Absolute
  <2> QED
    BY <2>1, <2>2
<1>12. CASE kind = "brk"
  <2>1. PICK v \in {"cmos_brk_c5_vec_hi", "brk_c5_vec_hi"} :
          row = <<"read_pc_inc", "push_pc_high", "push_pc_low", "push_status_b", "read_fffe">>
                  \o <<v>> \o <<"latch_pch_fetch">>
    BY <1>12 DEF FlowRow
  <2> QED
    BY <2>1
<1> QED
  BY <1>1, <1>2, <1>3, <1>4, <1>5, <1>6, <1>7, <1>8, <1>9, <1>10, <1>11, <1>12, Zenon DEF Flows

\* Rows of a single mode.
LEMMA OtherRows ==
  ASSUME NEW mod, NEW i, NEW row, row = Row(mod, i)
  PROVE  /\ i.kind = "implied" => Sound(row, {"dummy"})
         /\ i.kind = "push" => Sound(row, {"push_wr"})
         /\ i.kind = "pull" => Sound(row, {"exec"})
         /\ i.kind \in Nops => Sound(row, {})
<1> USE DEF Cell, Sound, Falls, Ends, Leaves, Fetching, Uses, Latching, Carriers,
           Common, LastReadPlain, StoreAddressPlain, PointerPlain, IndexedPlain, AbsolutePlain,
           InterruptPlain, SharedPlain, Probes, LastReadProbes, Ariths, Skippers, Movers
<1>1. ASSUME i.kind = "implied"
      PROVE  Sound(row, {"dummy"})
  BY <1>1 DEF Row
<1>2. ASSUME i.kind = "push"
      PROVE  Sound(row, {"push_wr"})
  BY <1>2 DEF Row
<1>3. ASSUME i.kind = "pull"
      PROVE  Sound(row, {"exec"})
  BY <1>3 DEF Row, StackReads
<1>4. ASSUME i.kind = "nop_1c"
      PROVE  Sound(row, {})
  BY <1>4 DEF Row
<1>5. ASSUME i.kind = "nop_3b"
      PROVE  Sound(row, {})
  BY <1>5 DEF Row
<1>6. ASSUME i.kind = "nop_abs"
      PROVE  Sound(row, {})
  BY <1>6 DEF Row
<1>7. ASSUME i.kind = "nop_abs_high"
      PROVE  Sound(row, {})
  BY <1>7 DEF Row
<1> QED
  BY <1>1, <1>2, <1>3, <1>4, <1>5, <1>6, <1>7, Zenon DEF Nops

\* The row of every opcode is sound, and knows the mnemonic of its instruction.
LEMMA RowsSound ==
  ASSUME NEW mod, NEW i, Legal(mod, i)
  PROVE  \E own \in SUBSET Ordinary :
           Sound(Row(mod, i), own) /\ \A h \in own : Knows(h, i)
<1>1. PICK row : row = Row(mod, i)
  OBVIOUS
<1>2. SUFFICES \E own \in SUBSET Ordinary : Sound(row, own) /\ \A h \in own : Knows(h, i)
  BY <1>1
<1>3. CASE i.kind = "read"
  <2>1. \/ row = CmosRead[i.mode] \o <<"exec">> /\ i.mode \in DOMAIN CmosRead
        \/ row = NmosRead[i.mode] \o <<"exec">> /\ i.mode \in DOMAIN NmosRead
    BY <1>1, <1>3 DEF Row, Legal, Nops, Flows
  <2>2. Sound(row, {"exec"})
    BY <2>1, NmosReadRows, CmosReadRows
  <2>3. Knows("exec", i) /\ {"exec"} \in SUBSET Ordinary
    BY <1>3 DEF Legal, Nops, Flows, Knows, Ordinary, OwnPlain
  <2> QED
    BY <2>2, <2>3
<1>4. CASE i.kind = "arith"
  <2>1. row = CmosArith[i.mode] \o <<"arith_dec_fetch">> /\ i.mode \in DOMAIN CmosArith
    BY <1>1, <1>4 DEF Row, Legal, Nops, Flows
  <2>2. Sound(row, Ariths \cup {"arith_dec_fetch"})
    BY <2>1, ArithRows
  <2>3. /\ \A h \in Ariths \cup {"arith_dec_fetch"} : Knows(h, i)
        /\ Ariths \cup {"arith_dec_fetch"} \in SUBSET Ordinary
    BY <1>4 DEF Legal, Nops, Flows, Knows, Loads, Ordinary, OwnPlain, Ariths
  <2> QED
    BY <2>2, <2>3
<1>5. CASE i.kind = "write"
  <2> DEFINE own == {"addr_wr", "pending_addrhi_wr", "pending_addrlo_wr"}
  <2>1. \/ row = CmosWrite[i.mode] \o <<"fetch">> /\ i.mode \in DOMAIN CmosWrite
        \/ row = NmosWrite[i.mode] \o <<"fetch">> /\ i.mode \in DOMAIN NmosWrite
    BY <1>1, <1>5 DEF Row, Legal, Nops, Flows
  <2>2. Sound(row, own)
    BY <2>1, NmosWriteRows, CmosWriteRows
  <2>3. (\A h \in own : Knows(h, i)) /\ own \in SUBSET Ordinary
    BY <1>5 DEF Legal, Nops, Flows, Knows, Ordinary, OwnPlain
  <2> QED
    BY <2>2, <2>3
<1>6. CASE i.kind \in {"rmw", "rmw_short"}
  <2> DEFINE w == IF Cmos(mod) THEN "latch_data_read_latch_addr" ELSE "latch_data_write_latch_addr"
  <2>1. \/ i.kind = "rmw_short" /\ row = ModifyRow(mod, CmosModifyShort)
        \/ Cmos(mod) /\ row = ModifyRow(mod, CmosModify[i.mode]) /\ i.mode \in DOMAIN CmosModify
        \/ ~Cmos(mod) /\ row = ModifyRow(mod, NmosModify[i.mode]) /\ i.mode \in DOMAIN NmosModify
    BY <1>1, <1>6 DEF Row, Legal, Nops, Flows
  <2>2. \A reach : ModifyRow(mod, reach) = Rewritten(reach, w)
    BY DEF ModifyRow, Rewritten
  <2>3. Sound(row, {"rmw_wr"})
    BY <2>1, <2>2, NmosModifyRows, CmosModifyRows, ModifyShortRows
  <2>4. Knows("rmw_wr", i) /\ {"rmw_wr"} \in SUBSET Ordinary
    BY <1>6 DEF Legal, Nops, Flows, Knows, Modifies, Shifts, BitModifies, Ordinary, OwnPlain
  <2> QED
    BY <2>3, <2>4
<1>7. CASE i.kind = "unstable"
  <2>1. row = Unstables[i.mode] \o <<"fetch">> /\ i.mode \in DOMAIN Unstables
    BY <1>1, <1>7 DEF Row, Legal, Nops, Flows
  <2>2. Sound(row, {"unstable_wr"})
    BY <2>1, UnstableRows
  <2>3. Knows("unstable_wr", i) /\ {"unstable_wr"} \in SUBSET Ordinary
    BY <1>7 DEF Legal, Nops, Flows, Knows, Ordinary, OwnPlain
  <2> QED
    BY <2>2, <2>3
<1>8. CASE i.kind = "implied"
  <2>1. Knows("dummy", i) /\ {"dummy"} \in SUBSET Ordinary
    BY <1>8 DEF Legal, Nops, Flows, Knows, Ordinary, OwnPlain
  <2> QED
    BY <1>1, <1>8, <2>1, OtherRows
<1>9. CASE i.kind = "push"
  <2>1. Knows("push_wr", i) /\ {"push_wr"} \in SUBSET Ordinary
    BY <1>9 DEF Legal, Nops, Flows, Knows, Ordinary, OwnPlain
  <2> QED
    BY <1>1, <1>9, <2>1, OtherRows
<1>10. CASE i.kind = "pull"
  <2>1. Knows("exec", i) /\ {"exec"} \in SUBSET Ordinary
    BY <1>10 DEF Legal, Nops, Flows, Knows, Ordinary, OwnPlain
  <2> QED
    BY <1>1, <1>10, <2>1, OtherRows
<1>11. CASE i.kind \in Nops
  BY <1>1, <1>11, OtherRows
<1>12. CASE i.kind \in Flows
  <2>1. row = FlowRow(mod, i.kind)
    BY <1>1, <1>12 DEF Row, Flows
  <2>2. Sound(row, Skippers)
    BY <1>12, <2>1, FlowRows
  <2>3. (\A h \in Skippers : Knows(h, i)) /\ Skippers \in SUBSET Ordinary
    BY DEF Knows, Skippers, Ordinary
  <2> QED
    BY <2>2, <2>3
<1> QED
  BY <1>3, <1>4, <1>5, <1>6, <1>7, <1>8, <1>9, <1>10, <1>11, <1>12 DEF Legal
-----------------------------------------------------------------------------
(* The control store, and the counter that walks through it. *)

Cycles == {n \in Nat : n < 8}
Places == {n \in Nat : n < 256} \cup ServiceSlots

LEMMA Numbers ==
  ASSUME NEW m \in Models
  PROVE  /\ ModelNumber[m] \in {0, 1, 2, 3, 4}
         /\ ModelNames[ModelNumber[m] + 1] = m
BY ModelsAssumption DEF ModelNumber, ModelNames

LEMMA ServiceNumbers == \A s : s \in ServiceSlots <=> s \in Nat /\ s >= 257 /\ s <= 263
BY DEF ServiceSlots, IllegalExt, IrqSlot

LEMMA Appended ==
  ASSUME NEW n \in Nat, NEW f, f = [j \in 1..n |-> f[j]]
  PROVE  f \o <<>> = f
<1> DEFINE S == {f[j] : j \in 1..n}
<1>1. f \in [1..n -> S]
  OBVIOUS
<1> HIDE DEF S
<1> QED
  BY <1>1, SeqDef, ConcatEmptySeq

LEMMA StoredRows ==
  ASSUME NEW k \in Nat, k >= 1, k <= 2560
  PROVE  ControlStore[k] = Block(ModelOf(8 * (k - 1)), (k - 1) % 512)
<1> DEFINE row(j) == Block(ModelOf(8 * (j - 1)), (j - 1) % 512)
           rows == [j \in 1..5 * 512 |-> row(j)]
<1>1. ControlStore = rows \o <<>>
  BY DEF ControlStore
<1> HIDE DEF row
<1>2. PICK n \in Nat : n = 5 * 512
  OBVIOUS
<1>3. rows = [j \in 1..n |-> row(j)]
  BY <1>2
<1> HIDE DEF rows
<1>4. rows = [j \in 1..n |-> rows[j]] /\ (k \in 1..n => rows[k] = row(k))
  BY <1>3
<1>5. k \in 1..n
  BY <1>2
<1> QED
  BY <1>1, <1>4, <1>5, Appended DEF row

\* What the counter says: a model, a slot and a cycle.
LEMMA Decoding ==
  ASSUME NEW m \in Models, NEW slot \in Places, NEW cycle \in Cycles,
         NEW w, w = Idx(ModelNumber[m], slot, cycle)
  PROVE  /\ w \in Nat /\ w < 65536
         /\ ModelOf(w) = m /\ SlotOf(w) = slot /\ CycleOf(w) = cycle
         /\ RowOf(w) = Block(m, slot)
<1> DEFINE n == ModelNumber[m]
<1>1. n \in {0, 1, 2, 3, 4} /\ ModelNames[n + 1] = m
  BY Numbers
<1>2. slot \in Nat /\ slot < 264 /\ cycle \in Nat /\ cycle < 8
  BY ServiceNumbers DEF Places, Cycles
<1>3. w = n * 4096 + slot * 8 + cycle
  BY DEF Idx
<1> HIDE DEF n
<1>4. /\ w \in Nat /\ w < 65536 /\ w \div 4096 = n
      /\ w \div 8 = n * 512 + slot /\ w % 8 = cycle
  BY <1>1, <1>2, <1>3
<1>5. PICK k \in Nat : k = n * 512 + slot + 1 /\ k >= 1 /\ k <= 2560
  BY <1>1, <1>2
<1>6. (w \div 8) % 512 = slot /\ (k - 1) % 512 = slot /\ (8 * (k - 1)) \div 4096 = n
  BY <1>1, <1>2, <1>4, <1>5
<1>7. RowOf(w) = Block(ModelOf(8 * (k - 1)), (k - 1) % 512)
  BY <1>4, <1>5, StoredRows DEF RowOf
<1>8. ModelOf(8 * (k - 1)) = m /\ ModelOf(w) = m
  BY <1>1, <1>4, <1>6 DEF ModelOf
<1> QED
  BY <1>4, <1>6, <1>7, <1>8 DEF SlotOf, CycleOf

\* Every cell of a sound row, and every cell that it may skip to.
LEMMA SoundCells ==
  ASSUME NEW row, NEW own, Sound(row, own), NEW k \in Cycles, k < Len(row), row[k + 1] \notin Movers
  PROVE  /\ row[k + 1] \in Common \cup Probes \cup own
         /\ \A s \in Skips(row[k + 1]) : Falls(row, k + 1, s)
<1>1. Cell(row, own, k + 1)
  <2>1. k \in {0, 1, 2, 3, 4, 5, 6, 7}
    BY DEF Cycles
  <2> HIDE DEF Cell
  <2> QED
    BY <2>1 DEF Sound
<1>2. k + 1 <= Len(row)
  <2>1. Len(row) \in Int
    BY DEF Sound
  <2> QED
    BY <2>1 DEF Cycles
<1> QED
  BY <1>1, <1>2 DEF Cell, Skips

LEMMA Known ==
  ASSUME NEW h \in Common \cup Probes \cup ResetPlain, NEW i
  PROVE  Knows(h, i) /\ h \in Ordinary
BY DEF Knows, Ordinary, Common, Probes, ResetPlain, LastReadPlain, StoreAddressPlain, PointerPlain,
       IndexedPlain, AbsolutePlain, InterruptPlain, SharedPlain, LastReadProbes

\* The rows of a slot that is not part of a reset, and the instruction their handlers know.
LEMMA PlaceRows ==
  ASSUME NEW m \in Models, NEW slot \in Places \ {IllegalExt, InternalReset, Reset0},
         NEW w, SlotOf(w) = slot, ModelOf(w) = m
  PROVE  \E own \in SUBSET Ordinary :
           Sound(Block(m, slot), own) /\ \A h \in own : Knows(h, InstructionOf(w))
<1>1. PICK row : row = Block(m, slot)
  OBVIOUS
<1>2. CASE slot < 256
  <2>1. slot \in Nat /\ slot \notin ServiceSlots
    BY <1>2, ServiceNumbers DEF Places
  <2>2. PICK k : k = slot + 1 /\ k \in 1..256
    BY <1>2, <2>1
  <2>3. row = Row(m, Opcodes[m][k]) /\ InstructionOf(w) = Opcodes[m][k]
    BY <1>1, <1>2, <2>1, <2>2 DEF Block, InstructionOf
  <2>4. Legal(m, Opcodes[m][k])
    BY <2>2, OpcodesAssumption
  <2> QED
    BY <1>1, <2>3, <2>4, RowsSound
<1>3. CASE slot \in {Reset1, GotoSlot, NmiSlot, IrqSlot}
  <2> USE DEF Cell, Falls, Ends, Leaves, Fetching, Uses, Latching, Carriers,
             Common, LastReadPlain, StoreAddressPlain, PointerPlain, IndexedPlain, AbsolutePlain,
             InterruptPlain, SharedPlain, Probes, LastReadProbes, Ariths, Skippers, Movers
  <2>1. row = ServiceRow(m, slot)
    <3>1. slot \in ServiceSlots /\ ~(slot < 256)
      BY <1>3 DEF ServiceSlots, IllegalExt, IrqSlot, Reset1, GotoSlot, NmiSlot
    <3> QED
      BY <1>1, <3>1 DEF Block
  <2>2. PICK vecHi \in {"cmos_nmi_c5_vec_hi", "nmi_c5_vec_hi", "cmos_brk_c5_vec_hi", "brk_c5_vec_hi"} :
          \/ row = <<"latch_pch_fetch">>
          \/ row = <<"fetch">>
          \/ row = <<"read_pc", "push_pc_high", "push_pc_low", "interrupt_c3_push_p", "nmi_c4_vec_lo",
                     vecHi, "latch_pch_fetch">>
          \/ row = <<"read_pc", "push_pc_high", "push_pc_low", "interrupt_c3_push_p", "read_fffe",
                     vecHi, "latch_pch_fetch">>
    BY <1>3, <2>1 DEF ServiceRow, Reset1, GotoSlot, NmiSlot, IrqSlot, IllegalExt, InternalReset, Reset0
  <2>3. CASE row = <<"latch_pch_fetch">>
    <3>1. Sound(row, {})
      BY <2>3 DEF Sound
    <3> QED
      BY <1>1, <3>1
  <2>4. CASE row = <<"fetch">>
    <3>1. Sound(row, {})
      BY <2>4 DEF Sound
    <3> QED
      BY <1>1, <3>1
  <2>5. CASE row = <<"read_pc", "push_pc_high", "push_pc_low", "interrupt_c3_push_p", "nmi_c4_vec_lo",
                     vecHi, "latch_pch_fetch">>
    <3>1. Sound(row, {})
      BY <2>5 DEF Sound
    <3> QED
      BY <1>1, <3>1
  <2>6. CASE row = <<"read_pc", "push_pc_high", "push_pc_low", "interrupt_c3_push_p", "read_fffe",
                     vecHi, "latch_pch_fetch">>
    <3>1. Sound(row, {})
      BY <2>6 DEF Sound
    <3> QED
      BY <1>1, <3>1
  <2> HIDE DEF Cell, Sound
  <2> QED
    BY <2>2, <2>3, <2>4, <2>5, <2>6
<1>4. slot < 256 \/ slot \in {Reset1, GotoSlot, NmiSlot, IrqSlot}
  <2>1. slot \in Nat /\ slot < 264
    BY ServiceNumbers DEF Places
  <2>2. slot < 256 \/ slot \in ServiceSlots
    BY DEF Places
  <2> QED
    BY <2>1, <2>2, ServiceNumbers DEF IllegalExt, InternalReset, Reset0, Reset1, GotoSlot, NmiSlot, IrqSlot
<1> QED
  BY <1>2, <1>3, <1>4

LEMMA ResetRows ==
  ASSUME NEW m \in Models
  PROVE  /\ Block(m, IllegalExt) = <<>>
         /\ Block(m, InternalReset) = <<"internal_reset">>
         /\ Block(m, Reset1) = <<"latch_pch_fetch">>
         /\ Block(m, Reset0) = <<"restart_read_hhff", "restart_read_zzhh_fetch", "restart_read_zzhh",
                                 "reset_stack_read", "reset_stack_read", "reset_stack_read",
                                 "reset_vec_lo", "reset_vec_hi">>
<1>1. \A slot \in {IllegalExt, InternalReset, Reset0, Reset1} : slot \in ServiceSlots /\ ~(slot < 256)
  BY DEF ServiceSlots, IllegalExt, IrqSlot, InternalReset, Reset0, Reset1
<1>2. \A slot \in {IllegalExt, InternalReset, Reset0, Reset1} : Block(m, slot) = ServiceRow(m, slot)
  BY <1>1 DEF Block
<1>3. /\ Block(m, IllegalExt) = ServiceRow(m, 257) /\ Block(m, InternalReset) = ServiceRow(m, 258)
      /\ Block(m, Reset0) = ServiceRow(m, 259) /\ Block(m, Reset1) = ServiceRow(m, 260)
  BY <1>2 DEF IllegalExt, InternalReset, Reset0, Reset1
<1>4. ServiceRow(m, 257) = <<>>
  BY DEF ServiceRow, IllegalExt, InternalReset, Reset0, Reset1, GotoSlot, NmiSlot, IrqSlot
<1>5. ServiceRow(m, 258) = <<"internal_reset">>
  BY DEF ServiceRow, IllegalExt, InternalReset, Reset0, Reset1, GotoSlot, NmiSlot, IrqSlot
<1>6. ServiceRow(m, 259) = <<"restart_read_hhff", "restart_read_zzhh_fetch", "restart_read_zzhh",
                             "reset_stack_read", "reset_stack_read", "reset_stack_read",
                             "reset_vec_lo", "reset_vec_hi">>
  BY DEF ServiceRow, IllegalExt, InternalReset, Reset0, Reset1, GotoSlot, NmiSlot, IrqSlot
<1>7. ServiceRow(m, 260) = <<"latch_pch_fetch">>
  BY DEF ServiceRow, IllegalExt, InternalReset, Reset0, Reset1, GotoSlot, NmiSlot, IrqSlot
<1> QED
  BY <1>3, <1>4, <1>5, <1>6, <1>7, Zenon

\* What a cell of the store may hold.
LEMMA CellsOfStore ==
  ASSUME NEW m \in Models, NEW slot \in Places, NEW k \in Cycles,
         NEW row, row = Block(m, slot), k < Len(row),
         NEW w, SlotOf(w) = slot, ModelOf(w) = m
  PROVE  \/ /\ row[k + 1] \in Ordinary /\ slot # InternalReset
            /\ Knows(row[k + 1], InstructionOf(w))
            /\ \A s \in Skips(row[k + 1]) : Falls(row, k + 1, s)
         \/ row[k + 1] \in Movers /\ slot \notin {InternalReset, Reset0}
         \/ row[k + 1] = "internal_reset" /\ slot = InternalReset
         \/ row[k + 1] = "reset_vec_hi" /\ slot = Reset0 /\ k = 7
<1>1. CASE slot \notin {IllegalExt, InternalReset, Reset0}
  <2>1. PICK own \in SUBSET Ordinary : Sound(row, own) /\ \A h \in own : Knows(h, InstructionOf(w))
    BY <1>1, PlaceRows
  <2>2. CASE row[k + 1] \in Movers
    BY <1>1, <2>2
  <2>3. CASE row[k + 1] \notin Movers
    <3>1. row[k + 1] \in Common \cup Probes \cup own /\ \A s \in Skips(row[k + 1]) : Falls(row, k + 1, s)
      BY <2>1, <2>3, SoundCells
    <3>2. row[k + 1] \in Ordinary /\ Knows(row[k + 1], InstructionOf(w))
      BY <2>1, <3>1, Known
    <3> QED
      BY <1>1, <3>1, <3>2
  <2> QED
    BY <2>2, <2>3
<1>2. CASE slot = IllegalExt
  <2>1. Len(row) = 0
    BY <1>2, ResetRows
  <2> QED
    BY <2>1 DEF Cycles
<1>3. CASE slot = InternalReset
  <2>1. row = <<"internal_reset">>
    BY <1>3, ResetRows
  <2>2. k = 0
    BY <2>1 DEF Cycles
  <2> QED
    BY <1>3, <2>1, <2>2
<1>4. CASE slot = Reset0
  <2>1. row = <<"restart_read_hhff", "restart_read_zzhh_fetch", "restart_read_zzhh",
                "reset_stack_read", "reset_stack_read", "reset_stack_read",
                "reset_vec_lo", "reset_vec_hi">>
    BY <1>4, ResetRows
  <2>2. k \in {0, 1, 2, 3, 4, 5, 6, 7}
    BY DEF Cycles
  <2>3. row[k + 1] \in ResetPlain
    BY <2>1, <2>2 DEF ResetPlain
  <2>4. CASE k = 7
    BY <1>4, <2>1, <2>4
  <2>5. CASE k # 7
    <3>1. Falls(row, k + 1, 0)
      BY <2>1, <2>2, <2>5 DEF Falls, Uses
    <3>2. Skips(row[k + 1]) = {0}
      BY <2>3 DEF ResetPlain, Skips, Skippers, Probes, LastReadProbes, Ariths
    <3> QED
      BY <1>4, <2>3, <3>1, <3>2, Known DEF InternalReset, Reset0
  <2> QED
    BY <2>4, <2>5
<1> QED
  BY <1>1, <1>2, <1>3, <1>4
-----------------------------------------------------------------------------
(* Where the counter may be, and how many ticks it may have taken to get there. *)

Ticks == [address : Addresses, bus : Bytes, status : {0, writing, opcode_fetch, internal_reset, cpu_jammed}]

\* The internal reset counts its cycles in latch_data.
Budget(slot, cycle, ld) ==
  CASE slot = InternalReset -> ld
    [] slot = Reset0        -> 8 + cycle
    [] slot = Reset1        -> 16
    [] OTHER                -> cycle

\* The counter of c is at a cell of a row, or at the dispatch that follows it, and finds in
\* latch_data what the handler of the cell uses; e ticks are since the last instruction.
At(c, e, m, slot, cycle) ==
  /\ c.microcode = Idx(ModelNumber[m], slot, cycle)
  /\ cycle <= Len(Block(m, slot))
  /\ cycle < Len(Block(m, slot)) /\ Block(m, slot)[cycle + 1] \in Uses => c.ld \in Bytes
  /\ slot = InternalReset => c.ld <= 7
  /\ cycle = Len(Block(m, slot)) => e = 0
  /\ e <= Budget(slot, cycle, c.ld)

\* What a handler h that gave r leaves of c and of e.
Ticked(c) == [c EXCEPT !.microcode = c.microcode + 1]
Ended(h, r) == r.tick.status = opcode_fetch /\ h # "restart_read_zzhh_fetch"
After(h, r, e) == IF Ended(h, r) THEN 0 ELSE IF r.tick.status = cpu_jammed THEN e ELSE e + 1

Lands(c, e, h, r) ==
  /\ r.cpu \in Cpus /\ r.cpu.model = c.model /\ r.tick \in Ticks
  /\ \E m \in Models, slot \in Places, cycle \in Cycles : At(Ticked(r.cpu), After(h, r, e), m, slot, cycle)

\* What is at cell k of the row of a slot: an ordinary handler, or one of those that move.
Walks(m, slot, k, h, i) ==
  /\ h \in Ordinary /\ slot # InternalReset /\ Knows(h, i)
  /\ \A s \in Skips(h) : Falls(Block(m, slot), k + 1, s)
Moves(slot, k, h) ==
  \/ h \in Movers /\ slot \notin {InternalReset, Reset0}
  \/ h = "internal_reset" /\ slot = InternalReset
  \/ h = "reset_vec_hi" /\ slot = Reset0 /\ k = 7
Holds(m, slot, k, h) == k < Len(Block(m, slot)) /\ h = Block(m, slot)[k + 1]

LEMMA Tickeds ==
  ASSUME NEW c \in Cpus
  PROVE  /\ Ticked(c) \in Cpus
         /\ Ticked(c).model = c.model /\ Ticked(c).ld = c.ld /\ Ticked(c).microcode = c.microcode + 1
<1>1. c.microcode + 1 \in Int
  BY Fields
<1> QED
  BY <1>1 DEF Cpus, Ticked

LEMMA Lengths ==
  ASSUME NEW m \in Models, NEW slot \in Places
  PROVE  Len(Block(m, slot)) \in Nat
<1>1. CASE slot \notin {IllegalExt, InternalReset, Reset0}
  <2>1. \E w : SlotOf(w) = slot /\ ModelOf(w) = m
    <3>1. 0 \in Cycles
      BY DEF Cycles
    <3> QED
      BY <3>1, Decoding
  <2>2. PICK own : Sound(Block(m, slot), own)
    BY <1>1, <2>1, PlaceRows
  <2> QED
    BY <2>2 DEF Sound
<1>2. CASE slot \in {IllegalExt, InternalReset, Reset0}
  BY <1>2, ResetRows
<1> QED
  BY <1>1, <1>2

\* An ordinary handler moves the counter on in its row, and in time.
LEMMA OrdinarySteps ==
  ASSUME NEW c \in Cpus, NEW e \in Nat, NEW m \in Models, NEW slot \in Places, NEW k \in Cycles, NEW h, NEW i,
         At(c, e, m, slot, k), Holds(m, slot, k, h), Walks(m, slot, k, h, i),
         NEW bus \in Bytes, NEW taken, NEW r, r = Handler(h, c, bus, i, taken)
  PROVE  Lands(c, e, h, r)
<1>0. PICK row : /\ row = Block(m, slot) /\ k < Len(row) /\ h = row[k + 1]
                 /\ h \in Ordinary /\ Knows(h, i) /\ slot # InternalReset
                 /\ \A s \in Skips(h) : Falls(row, k + 1, s)
  BY DEF Holds, Walks
<1>1. h \in Uses => c.ld \in Bytes
  BY <1>0 DEF At
<1>2. PICK s \in Skips(h) : /\ Advances(c, r, s)
                            /\ Ends(h, s) => r.tick.status = opcode_fetch
                            /\ Leaves(h, s) => r.cpu.ld \in Bytes
  BY <1>0, <1>1, Effects
<1>3. Falls(row, k + 1, s) /\ s \in Nat
  BY <1>0 DEF Skips
<1>4. /\ r.cpu \in Cpus /\ r.cpu.model = c.model /\ r.tick \in BusTicks
      /\ r.cpu.microcode = c.microcode + s
  BY <1>2 DEF Advances
<1>5. r.tick \in Ticks /\ r.tick.status # cpu_jammed
  BY <1>4 DEF BusTicks, Ticks, writing, opcode_fetch, internal_reset, cpu_jammed
<1>6. PICK j \in Cycles : j = k + 1 + s
  BY <1>3 DEF Falls, Cycles
<1>7. PICK d : d = Ticked(r.cpu) /\ d.ld = r.cpu.ld /\ d.microcode = c.microcode + s + 1
  <2>1. c.microcode \in Int
    BY Fields
  <2> QED
    BY <1>3, <1>4, <2>1, Tickeds
<1>8. PICK f : f = After(h, r, e) /\ f \in Nat /\ f <= e + 1 /\ (Ends(h, s) => f = 0)
  <2>1. Ends(h, s) => Ended(h, r)
    BY <1>2 DEF Ends, Ended, Fetching, Ariths
  <2> QED
    BY <1>5, <2>1 DEF After
<1>9. At(d, f, m, slot, j)
  <2>1. d.microcode = Idx(ModelNumber[m], slot, j)
    <3>1. ModelNumber[m] \in Int /\ slot \in Int /\ k \in Int
      BY Numbers, ServiceNumbers DEF Places, Cycles
    <3> QED
      BY <1>3, <1>6, <1>7, <3>1 DEF At, Idx
  <2>2. j <= Len(row) /\ (j = Len(row) => f = 0)
    BY <1>0, <1>3, <1>6, <1>8 DEF Falls
  <2>3. j < Len(row) /\ row[j + 1] \in Uses => d.ld \in Bytes
    BY <1>0, <1>2, <1>3, <1>6, <1>7 DEF Falls
  <2>4. f <= Budget(slot, j, d.ld)
    <3>1. CASE slot = Reset1
      <4>1. Len(row) = 1
        BY <1>0, <3>1, ResetRows
      <4>2. j = Len(row) /\ f = 0
        BY <1>3, <1>6, <2>2, <4>1 DEF Cycles
      <4> QED
        BY <3>1, <4>2 DEF Budget, InternalReset, Reset0, Reset1
    <3>2. CASE slot = Reset0
      BY <1>3, <1>6, <1>8, <3>2 DEF At, Budget, InternalReset, Reset0, Reset1, Cycles
    <3>3. CASE slot \notin {Reset0, Reset1}
      BY <1>0, <1>3, <1>6, <1>8, <3>3 DEF At, Budget, Cycles
    <3> QED
      BY <3>1, <3>2, <3>3
  <2> QED
    BY <1>0, <2>1, <2>2, <2>3, <2>4 DEF At
<1> QED
  BY <1>4, <1>5, <1>6, <1>7, <1>8, <1>9 DEF Lands

\* The handlers that leave their row, or stay in it, do so to a cell they may be at.
LEMMA MovingSteps ==
  ASSUME NEW c \in Cpus, NEW own \in Models, c.model = ModelNumber[own],
         NEW e \in Nat, NEW m \in Models, NEW slot \in Places, NEW k \in Cycles, NEW h, NEW i,
         At(c, e, m, slot, k), Holds(m, slot, k, h), Moves(slot, k, h),
         NEW bus \in Bytes, NEW taken, NEW r, r = Handler(h, c, bus, i, taken)
  PROVE  Lands(c, e, h, r)
<1>0. PICK row : row = Block(m, slot) /\ k < Len(row) /\ h = row[k + 1]
  BY DEF Holds
<1> USE DEF writing, opcode_fetch, internal_reset, cpu_jammed
<1>1. 0 \in Cycles /\ IllegalExt \in Places /\ Reset0 \in Places /\ Reset1 \in Places
  BY ServiceNumbers DEF Cycles, Places, IllegalExt, Reset0, Reset1
<1>2. /\ c.microcode \in Int /\ k \in Int /\ slot \in Int
      /\ c.model \in Int /\ ModelNumber[m] \in Int
  BY Fields, Numbers, ServiceNumbers DEF Cycles, Places
<1>3. c.microcode = Idx(ModelNumber[m], slot, k) /\ e <= Budget(slot, k, c.ld)
  BY DEF At
<1>4. CASE h = "fetch_illegal_ext"
  <2>1. /\ r.cpu \in Cpus /\ r.cpu.model = c.model /\ r.cpu.microcode = Idx(c.model, 257, 0) - 1
        /\ r.tick \in BusTicks /\ r.tick.status = opcode_fetch
    <3>1. r = SharedHandler("fetch_illegal_ext", c, bus)
      BY <1>4, Groups
    <3> QED
      BY <3>1, Leaving
  <2>2. Ticked(r.cpu).microcode = Idx(ModelNumber[own], IllegalExt, 0)
    BY <1>2, <2>1, Tickeds DEF IllegalExt, Idx
  <2>3. After(h, r, e) = 0
    BY <1>4, <2>1 DEF After, Ended
  <2>4. Len(Block(own, IllegalExt)) = 0
    BY ResetRows
  <2>5. At(Ticked(r.cpu), After(h, r, e), own, IllegalExt, 0)
    BY <2>2, <2>3, <2>4 DEF At, Budget, IllegalExt, InternalReset, Reset0, Reset1
  <2> QED
    BY <1>1, <2>1, <2>5 DEF BusTicks, Ticks, Lands
<1>5. CASE h = "kil_jam_loop"
  <2>1. /\ r.cpu \in Cpus /\ r.cpu.model = c.model /\ r.cpu.microcode = c.microcode - 1
        /\ r.tick \in [address : Addresses, bus : Bytes, status : {cpu_jammed}] /\ r.cpu.ld = c.ld
    <3>1. r = SharedHandler("kil_jam_loop", c, bus)
      BY <1>5, Groups
    <3> QED
      BY <3>1, Leaving
  <2>2. Ticked(r.cpu).microcode = c.microcode /\ Ticked(r.cpu).ld = c.ld
    <3>1. Ticked(r.cpu).ld = r.cpu.ld /\ Ticked(r.cpu).microcode = r.cpu.microcode + 1
      BY <2>1, Tickeds
    <3> QED
      BY <1>2, <2>1, <3>1
  <2>3. After(h, r, e) = e
    BY <2>1 DEF After, Ended
  <2>4. At(Ticked(r.cpu), After(h, r, e), m, slot, k)
    BY <2>2, <2>3 DEF At
  <2> QED
    BY <2>1, <2>4 DEF Ticks, Lands
<1>6. CASE h = "internal_reset" /\ slot = InternalReset
  <2>1. c.ld <= 7 /\ c.ld \in Nat /\ e <= c.ld
    BY <1>3, <1>6, Fields DEF At, Budget, Latches, InternalReset, Reset0, Reset1
  <2>2. /\ r.cpu \in Cpus /\ r.cpu.model = c.model /\ r.cpu.ld = c.ld + 1
        /\ r.tick \in [address : Addresses, bus : Bytes, status : {0, internal_reset}]
        /\ r.cpu.microcode = IF c.ld = 7 THEN Idx(c.model, 259, 0) - 1 ELSE c.microcode - 1
    <3>1. r = ResetHandler("internal_reset", c, bus)
      BY <1>6, Groups
    <3> QED
      BY <2>1, <3>1, InternalResets
  <2>3. /\ Ticked(r.cpu).ld = c.ld + 1
        /\ Ticked(r.cpu).microcode = IF c.ld = 7 THEN Idx(c.model, 259, 0) ELSE c.microcode
    <3>1. Idx(c.model, 259, 0) \in Int
      BY <1>2 DEF Idx
    <3>2. Ticked(r.cpu).ld = r.cpu.ld /\ Ticked(r.cpu).microcode = r.cpu.microcode + 1
      BY <2>2, Tickeds
    <3> QED
      BY <1>2, <2>2, <3>1, <3>2
  <2>4. After(h, r, e) = e + 1
    BY <2>2 DEF After, Ended
  <2>5. CASE c.ld = 7
    <3>1. Len(Block(own, Reset0)) = 8 /\ Block(own, Reset0)[1] = "restart_read_hhff"
      BY ResetRows
    <3>2. At(Ticked(r.cpu), e + 1, own, Reset0, 0)
      BY <2>1, <2>3, <2>5, <3>1 DEF At, Budget, InternalReset, Reset0, Reset1, Uses
    <3> QED
      BY <1>1, <2>2, <2>4, <3>2 DEF Ticks, Lands
  <2>6. CASE c.ld # 7
    <3>1. row = <<"internal_reset">>
      BY <1>0, <1>6, ResetRows, Zenon
    <3>2. At(Ticked(r.cpu), e + 1, m, slot, k)
      BY <1>0, <1>3, <1>6, <2>1, <2>3, <2>6, <3>1 DEF At, Budget, InternalReset, Reset0, Reset1, Uses
    <3> QED
      BY <2>2, <2>4, <3>2 DEF Ticks, Lands
  <2> QED
    BY <2>5, <2>6
<1>7. CASE h = "reset_vec_hi" /\ slot = Reset0 /\ k = 7
  <2>1. r = ResetHandler(h, c, bus) /\ h \in ResetPlain
    BY <1>7, Groups DEF ResetPlain
  <2>2. Advances(c, r, 0) /\ r.tick.status # opcode_fetch
    BY <1>7, <2>1, Resets
  <2>3. Ticked(r.cpu).microcode = Idx(ModelNumber[m], Reset1, 0)
    <3>1. r.cpu \in Cpus /\ r.cpu.microcode = c.microcode
      BY <1>2, <2>2 DEF Advances
    <3> QED
      BY <1>2, <1>3, <1>7, <3>1, Tickeds DEF Idx, Reset0, Reset1
  <2>4. After(h, r, e) = e + 1 /\ e + 1 <= 16
    BY <1>3, <1>7, <2>2 DEF After, Ended, Advances, BusTicks, Budget, InternalReset, Reset0, Reset1
  <2>5. Len(Block(m, Reset1)) = 1 /\ Block(m, Reset1)[1] = "latch_pch_fetch"
    BY ResetRows
  <2>6. At(Ticked(r.cpu), After(h, r, e), m, Reset1, 0)
    <3>1. Budget(Reset1, 0, Ticked(r.cpu).ld) = 16 /\ Reset1 # InternalReset
      BY DEF Budget, InternalReset, Reset0, Reset1
    <3>2. Block(m, Reset1)[1] \notin Uses
      BY <2>5 DEF Uses
    <3> QED
      BY <2>3, <2>4, <2>5, <3>1, <3>2 DEF At
  <2> QED
    BY <1>1, <2>2, <2>6 DEF Advances, BusTicks, Ticks, Lands
<1> QED
  BY <1>4, <1>5, <1>6, <1>7 DEF Moves, Movers

\* A CPU that is where the control store put it, e ticks after its last instruction.
Placed(c, e) ==
  /\ c \in Cpus /\ \E m \in Models : c.model = ModelNumber[m]
  /\ e \in Nat
  /\ \E m \in Models, slot \in Places, cycle \in Cycles : At(c, e, m, slot, cycle)

\* Every handler the counter can be at takes a placed CPU to a placed one.
LEMMA Steps ==
  ASSUME NEW c, NEW e, Placed(c, e), NextHandler(c.microcode) # "dispatch",
         NEW bus \in Bytes, NEW taken,
         NEW h, h = NextHandler(c.microcode),
         NEW r, r = Handler(h, c, bus, InstructionOf(c.microcode), taken)
  PROVE  Placed(Ticked(r.cpu), After(h, r, e)) /\ r.tick \in Ticks
<1>1. PICK own \in Models : c.model = ModelNumber[own]
  BY DEF Placed
<1>2. PICK m \in Models, slot \in Places, k \in Cycles : At(c, e, m, slot, k)
  BY DEF Placed
<1>3. c \in Cpus /\ e \in Nat
  BY DEF Placed
<1>4. PICK row : row = Block(m, slot)
  OBVIOUS
<1>5. PICK w : w = c.microcode
  OBVIOUS
<1>6. ModelOf(w) = m /\ SlotOf(w) = slot /\ CycleOf(w) = k /\ RowOf(w) = row
  BY <1>2, <1>4, <1>5, Decoding DEF At
<1>7. Holds(m, slot, k, h)
  BY <1>4, <1>5, <1>6 DEF NextHandler, Holds
<1>8. Lands(c, e, h, r)
  <2>1. PICK i : i = InstructionOf(w)
    OBVIOUS
  <2>2. Walks(m, slot, k, h, i) \/ Moves(slot, k, h)
    BY <1>6, <1>7, <2>1, CellsOfStore DEF Walks, Moves, Holds
  <2>3. r = Handler(h, c, bus, i, taken)
    BY <1>5, <2>1
  <2>4. CASE Walks(m, slot, k, h, i)
    BY <1>2, <1>3, <1>7, <2>3, <2>4, OrdinarySteps
  <2>5. CASE Moves(slot, k, h)
    BY <1>1, <1>2, <1>3, <1>7, <2>3, <2>5, MovingSteps
  <2> QED
    BY <2>2, <2>4, <2>5
<1>9. After(h, r, e) \in Nat
  BY <1>3 DEF After
<1>10. Ticked(r.cpu) \in Cpus /\ Ticked(r.cpu).model = c.model
  BY <1>8, Tickeds DEF Lands
<1> QED
  BY <1>1, <1>8, <1>9, <1>10 DEF Lands, Placed

LEMMA BetweenRows ==
  ASSUME NEW c, NEW e, NEW m \in Models, NEW slot \in Places, NEW k \in Cycles, At(c, e, m, slot, k)
  PROVE  NextHandler(c.microcode) = "dispatch" <=> k = Len(Block(m, slot))
<1>1. PICK row : row = Block(m, slot)
  OBVIOUS
<1>2. PICK w : w = c.microcode
  OBVIOUS
<1>3. ModelOf(w) = m /\ SlotOf(w) = slot /\ CycleOf(w) = k /\ RowOf(w) = row
  BY <1>1, <1>2, Decoding DEF At
<1>4. k <= Len(row) /\ Len(row) \in Nat /\ k \in Nat
  BY <1>1, Lengths DEF At, Cycles
<1>5. ASSUME k < Len(row)
      PROVE  row[k + 1] # "dispatch"
  <2>1. row[k + 1] \in Ordinary \cup Movers \cup {"internal_reset", "reset_vec_hi"}
    BY <1>1, <1>3, <1>5, CellsOfStore
  <2> QED
    BY <2>1 DEF Ordinary, Common, Probes, ResetPlain, LastReadPlain, StoreAddressPlain, PointerPlain,
       IndexedPlain, AbsolutePlain, InterruptPlain, SharedPlain, LastReadProbes, OwnPlain, Ariths,
       Skippers, Movers
<1> QED
  BY <1>1, <1>2, <1>3, <1>4, <1>5 DEF NextHandler
-----------------------------------------------------------------------------
(* The invariant, and its three theorems. *)

MicrocodeInv ==
  /\ Placed(cpu, elapsed)
  /\ tick \in Ticks
  /\ mem \in [Addresses -> Bytes]
  /\ program \in Seq(SUBSET Slots)

\* Entered at its first cell, a row of an instruction or of an interrupt is not over.
LEMMA Entering ==
  ASSUME NEW d \in Cpus, NEW own \in Models, d.model = ModelNumber[own],
         NEW slot \in Places \ {IllegalExt, InternalReset, Reset0},
         d.microcode = Idx(d.model, slot, 0)
  PROVE  Placed(d, 0) /\ NextHandler(d.microcode) # "dispatch"
<1>1. 0 \in Cycles
  BY DEF Cycles
<1>2. SlotOf(d.microcode) = slot /\ ModelOf(d.microcode) = own
  BY <1>1, Decoding
<1>3. PICK row : row = Block(own, slot)
  OBVIOUS
<1>4. Len(row) \in Nat /\ Len(row) >= 1 /\ row[1] \notin Uses
  <2>1. PICK set : Sound(row, set)
    BY <1>2, <1>3, PlaceRows
  <2> QED
    BY <2>1 DEF Sound
<1>5. At(d, 0, own, slot, 0)
  <2>1. Budget(slot, 0, d.ld) >= 0
    BY DEF Budget, InternalReset, Reset0, Reset1
  <2> QED
    BY <1>3, <1>4, <2>1 DEF At
<1>6. Len(row) # 0
  BY <1>4
<1>7. NextHandler(d.microcode) # "dispatch"
  BY <1>1, <1>3, <1>5, <1>6, BetweenRows
<1> QED
  BY <1>1, <1>5, <1>7 DEF Placed

\* After the fetch of a jump, the CPU is at the dispatch.
LEMMA Jumped ==
  ASSUME NEW d \in Cpus, NEW own \in Models, d.model = ModelNumber[own],
         d.microcode = Idx(d.model, GotoSlot, 1)
  PROVE  Placed(d, 0)
<1>1. 1 \in Cycles /\ GotoSlot \in Places
  BY ServiceNumbers DEF Cycles, Places, GotoSlot
<1>2. Block(own, GotoSlot) = ServiceRow(own, 261)
  BY DEF Block, ServiceSlots, IllegalExt, IrqSlot, GotoSlot
<1>3. ServiceRow(own, 261) = <<"fetch">>
  BY DEF ServiceRow, IllegalExt, InternalReset, Reset0, Reset1, GotoSlot, NmiSlot, IrqSlot
<1>4. Len(Block(own, GotoSlot)) = 1
  BY <1>2, <1>3
<1>5. Budget(GotoSlot, 1, d.ld) = 1 /\ GotoSlot # InternalReset
  BY DEF Budget, InternalReset, Reset0, Reset1, GotoSlot
<1>6. At(d, 0, own, GotoSlot, 1)
  BY <1>4, <1>5 DEF At
<1> QED
  BY <1>1, <1>6 DEF Placed

LEMMA Entered ==
  ASSUME NEW c \in Cpus, NEW slot \in Nat, NEW cycle \in Nat
  PROVE  /\ EnterServiceSlot(c, slot, cycle) \in Cpus
         /\ EnterServiceSlot(c, slot, cycle).model = c.model
         /\ EnterServiceSlot(c, slot, cycle).microcode = Idx(c.model, slot, cycle)
<1>1. Idx(c.model, slot, cycle) \in Int
  BY Fields DEF Idx
<1> QED
  BY <1>1 DEF EnterServiceSlot, Cpus

\* An instruction that ends may give way to an interrupt.
LEMMA Proceeding ==
  ASSUME NEW c, Placed(c, 0), NEW rest \in Seq(SUBSET Slots), Proceed(c, rest)
  PROVE  Placed(cpu', 0) /\ program' \in Seq(SUBSET Slots)
<1>1. CASE cpu' = c /\ program' = rest
  BY <1>1
<1>2. CASE /\ rest # <<>>
           /\ \E slot \in Interrupts \cap Head(rest) : cpu' = EnterServiceSlot(c, slot, 0)
           /\ program' = Tail(rest)
  <2>1. PICK slot \in Interrupts : cpu' = EnterServiceSlot(c, slot, 0)
    BY <1>2
  <2>2. slot \in Places \ {IllegalExt, InternalReset, Reset0} /\ slot \in Nat
    BY ServiceNumbers DEF Places, Interrupts, NmiSlot, IrqSlot, IllegalExt, InternalReset, Reset0
  <2>3. PICK own \in Models : c.model = ModelNumber[own]
    BY DEF Placed
  <2>4. c \in Cpus
    BY DEF Placed
  <2>5. PICK d : d = EnterServiceSlot(c, slot, 0)
    OBVIOUS
  <2>6. d \in Cpus /\ d.model = c.model /\ d.microcode = Idx(c.model, slot, 0)
    BY <2>2, <2>4, <2>5, Entered
  <2>7. Placed(d, 0)
    BY <2>2, <2>3, <2>6, Entering
  <2>8. program' \in Seq(SUBSET Slots)
    BY <1>2
  <2> QED
    BY <2>1, <2>5, <2>7, <2>8
<1> QED
  BY <1>1, <1>2 DEF Proceed

LEMMA BusBytes ==
  ASSUME tick \in Ticks, mem \in [Addresses -> Bytes]
  PROVE  Bus \in Bytes /\ (BusCycle => mem' \in [Addresses -> Bytes])
BY DEF Ticks, Bus, BusCycle

\* The tick in which a placed CPU runs its handler.
LEMMA Running ==
  ASSUME tick \in Ticks, mem \in [Addresses -> Bytes], NEW c, Placed(c, elapsed),
         NEW h, h = NextHandler(c.microcode), h # "dispatch",
         NEW rest \in Seq(SUBSET Slots), Run(h, c, rest)
  PROVE  MicrocodeInv'
<1>1. Bus \in Bytes /\ (BusCycle => mem' \in [Addresses -> Bytes])
  BY BusBytes
<1>2. PICK taken : LET r    == Handler(h, c, Bus, InstructionOf(c.microcode), taken)
                       next == [r.cpu EXCEPT !.microcode = r.cpu.microcode + 1]
                       ends == r.tick.status = opcode_fetch /\ h # "restart_read_zzhh_fetch"
                   IN  /\ BusCycle
                       /\ tick' = r.tick
                       /\ IF ends
                            THEN Proceed(next, rest) /\ elapsed' = 0
                            ELSE /\ cpu' = next
                                 /\ program' = rest
                                 /\ elapsed' = IF r.tick.status = cpu_jammed THEN elapsed ELSE elapsed + 1
  BY DEF Run
<1>3. PICK r : r = Handler(h, c, Bus, InstructionOf(c.microcode), taken)
  OBVIOUS
<1>4. /\ BusCycle
      /\ tick' = r.tick
      /\ IF Ended(h, r)
           THEN Proceed(Ticked(r.cpu), rest) /\ elapsed' = 0
           ELSE /\ cpu' = Ticked(r.cpu)
                /\ program' = rest
                /\ elapsed' = After(h, r, elapsed)
  BY <1>2, <1>3 DEF Ended, Ticked, After
<1>5. Placed(Ticked(r.cpu), After(h, r, elapsed)) /\ r.tick \in Ticks
  BY <1>1, <1>3, Steps
<1>6. Placed(cpu', elapsed') /\ program' \in Seq(SUBSET Slots)
  <2>1. CASE Ended(h, r)
    <3>1. Placed(Ticked(r.cpu), 0)
      BY <1>5, <2>1 DEF After
    <3> QED
      BY <1>4, <2>1, <3>1, Proceeding
  <2>2. CASE ~Ended(h, r)
    BY <1>4, <1>5, <2>2
  <2> QED
    BY <2>1, <2>2
<1> QED
  BY <1>1, <1>4, <1>5, <1>6 DEF MicrocodeInv

LEMMA MenuSlots ==
  ASSUME program \in Seq(SUBSET Slots)
  PROVE  /\ Menu \subseteq Slots
         /\ Menu # {} => Tail(program) \in Seq(SUBSET Slots)
BY DEF Menu

LEMMA SlotPlaces ==
  ASSUME NEW slot \in Slots \ ServiceSlots
  PROVE  slot \in Places \ {IllegalExt, InternalReset, Reset0} /\ slot \in Nat
<1>1. slot \notin GotoSlot..IrqSlot
  BY ServiceNumbers DEF GotoSlot, IrqSlot
<1>2. slot \in 0..255
  BY <1>1 DEF Slots
<1> QED
  BY <1>2 DEF Places, IllegalExt, InternalReset, Reset0

\* The counter is in the next to first cell of a service only when it is at rest.
LEMMA AtRest ==
  ASSUME NEW c, NEW e, Placed(c, e), NextHandler(c.microcode) = "dispatch"
  PROVE  e = 0
<1>1. PICK m \in Models, slot \in Places, k \in Cycles : At(c, e, m, slot, k)
  BY DEF Placed
<1>2. k = Len(Block(m, slot))
  BY <1>1, BetweenRows
<1> QED
  BY <1>1, <1>2 DEF At

LEMMA DispatchStep ==
  ASSUME MicrocodeInv, Dispatch
  PROVE  MicrocodeInv'
<1>1. PICK slot \in Menu \ ServiceSlots :
        LET c == [cpu EXCEPT !.microcode = Idx(cpu.model, slot, 0), !.pc = Wrap(cpu.pc + 1)]
        IN  Run(NextHandler(c.microcode), c, Tail(program))
  BY Zenon DEF Dispatch
<1>2. PICK c : c = [cpu EXCEPT !.microcode = Idx(cpu.model, slot, 0), !.pc = Wrap(cpu.pc + 1)]
  OBVIOUS
<1>3. slot \in Places \ {IllegalExt, InternalReset, Reset0} /\ slot \in Nat
  BY MenuSlots, SlotPlaces DEF MicrocodeInv
<1>4. PICK own \in Models : cpu \in Cpus /\ cpu.model = ModelNumber[own]
  BY DEF MicrocodeInv, Placed
<1>5. c \in Cpus /\ c.model = cpu.model /\ c.microcode = Idx(cpu.model, slot, 0)
  <2>1. Idx(cpu.model, slot, 0) \in Int /\ Wrap(cpu.pc + 1) \in Addresses
    BY <1>3, <1>4, Fields, AddressRange, Remainders DEF Idx
  <2> QED
    BY <1>2, <1>4, <2>1 DEF Cpus
<1>6. Placed(c, 0) /\ NextHandler(c.microcode) # "dispatch"
  BY <1>3, <1>4, <1>5, Entering
<1>7. elapsed = 0
  BY AtRest DEF MicrocodeInv, Dispatch, Between
<1>8. Tail(program) \in Seq(SUBSET Slots)
  BY MenuSlots DEF MicrocodeInv
<1>9. Run(NextHandler(c.microcode), c, Tail(program))
  BY <1>1, <1>2
<1> QED
  BY <1>6, <1>7, <1>8, <1>9, Running DEF MicrocodeInv

LEMMA AdvanceStep ==
  ASSUME MicrocodeInv, Advance
  PROVE  MicrocodeInv'
BY Running DEF MicrocodeInv, Advance, Between

LEMMA RestartStep ==
  ASSUME MicrocodeInv, Restart
  PROVE  MicrocodeInv'
<1>1. PICK own \in Models : cpu \in Cpus /\ cpu.model = ModelNumber[own]
  BY DEF MicrocodeInv, Placed
<1>2. ModelNumber[ModelNames[cpu.model + 1]] = cpu.model /\ cpu.model \in {0, 1, 2, 3, 4}
  BY <1>1, Numbers
<1>3. PICK c : c = [Blank(ModelNames[cpu.model + 1]) EXCEPT
                      !.microcode = Idx(cpu.model, InternalReset, 0),
                      !.pc = Word(1, B - 1), !.s = (3 * B) \div 4, !.x = (3 * B) \div 4]
  OBVIOUS
<1>4. /\ c \in Cpus /\ c.model = cpu.model /\ c.ld = 0
      /\ c.microcode = Idx(cpu.model, InternalReset, 0)
  <2>1. Idx(cpu.model, InternalReset, 0) \in Int
    BY <1>2 DEF Idx, InternalReset
  <2>2. Word(1, B - 1) \in Addresses
    BY FixedBytes, Words
  <2>3. (3 * B) \div 4 \in Bytes
    BY Width DEF Bytes
  <2>4. c = [model |-> cpu.model, reserved_extension |-> 0,
             microcode |-> Idx(cpu.model, InternalReset, 0), la |-> 0, ld |-> 0, hijack |-> 0,
             pc |-> Word(1, B - 1), s |-> (3 * B) \div 4, a |-> 0, x |-> (3 * B) \div 4,
             y |-> 0, p |-> 0, interrupts |-> 0]
    BY <1>2, <1>3 DEF Blank
  <2> QED
    BY <1>2, <2>1, <2>2, <2>3, <2>4, FixedBytes DEF Cpus, Latches
<1>5. At(c, 0, own, InternalReset, 0)
  <2>1. Len(Block(own, InternalReset)) = 1 /\ Block(own, InternalReset)[1] \notin Uses
    BY ResetRows DEF Uses
  <2>2. Budget(InternalReset, 0, 0) = 0
    BY DEF Budget, InternalReset, Reset0, Reset1
  <2> QED
    BY <1>1, <1>4, <2>1, <2>2 DEF At
<1>6. Placed(c, 0)
  <2>1. 0 \in Cycles /\ InternalReset \in Places
    BY ServiceNumbers DEF Cycles, Places, InternalReset
  <2> QED
    BY <1>1, <1>4, <1>5, <2>1 DEF Placed
<1>7. cpu' = c /\ elapsed' = 0 /\ UNCHANGED <<mem, program>>
  BY <1>3 DEF Restart
<1>8. tick' \in Ticks
  <2>1. B - 1 \in Addresses /\ 0 \in Bytes
    BY FixedBytes, ByteRange
  <2>2. tick' = TickOf(B - 1, 0, internal_reset)
    BY DEF Restart
  <2> QED
    BY <2>1, <2>2 DEF TickOf, Ticks
<1> QED
  BY <1>6, <1>7, <1>8 DEF MicrocodeInv

LEMMA GotoStep ==
  ASSUME MicrocodeInv, Goto
  PROVE  MicrocodeInv'
<1>1. PICK address \in GotoTargets :
        LET c == [cpu EXCEPT !.reserved_extension = 0, !.pc = address,
                    !.microcode = Idx(cpu.model, GotoSlot, 1)]
        IN  Proceed(c, Tail(program)) /\ tick' = TickOf(address, 0, opcode_fetch)
  BY Zenon DEF Goto
<1>2. PICK c : c = [cpu EXCEPT !.reserved_extension = 0, !.pc = address,
                      !.microcode = Idx(cpu.model, GotoSlot, 1)]
  OBVIOUS
<1>3. PICK own \in Models : cpu \in Cpus /\ cpu.model = ModelNumber[own]
  BY DEF MicrocodeInv, Placed
<1>4. address \in Addresses
  BY TargetsAssumption
<1>5. c \in Cpus /\ c.model = cpu.model /\ c.microcode = Idx(c.model, GotoSlot, 1)
  <2>1. Idx(cpu.model, GotoSlot, 1) \in Int
    BY <1>3, Fields DEF Idx, GotoSlot
  <2> QED
    BY <1>2, <1>3, <1>4, <2>1 DEF Cpus
<1>6. Placed(c, 0)
  BY <1>3, <1>5, Jumped
<1>7. elapsed = 0 /\ elapsed' = elapsed /\ mem' = mem
  BY AtRest DEF MicrocodeInv, Goto, Between
<1>8. Tail(program) \in Seq(SUBSET Slots)
  BY MenuSlots DEF MicrocodeInv, Goto
<1>9. Placed(cpu', 0) /\ program' \in Seq(SUBSET Slots)
  BY <1>1, <1>2, <1>6, <1>8, Proceeding
<1>10. tick' \in Ticks
  BY <1>1, <1>4, FixedBytes DEF TickOf, Ticks
<1> QED
  BY <1>7, <1>9, <1>10 DEF MicrocodeInv

\* Setting a model leaves the counter in the block of the other one.
LEMMA SetModelStep ==
  ASSUME MicrocodeInv, SetModel
  PROVE  MicrocodeInv'
<1>1. PICK models \in Switches : \E model \in models : cpu' = [cpu EXCEPT !.model = ModelNumber[model]]
  BY DEF SetModel
<1>2. PICK model \in Models : cpu' = [cpu EXCEPT !.model = ModelNumber[model]]
  BY <1>1, SwitchAssumption
<1>3. cpu \in Cpus
  BY DEF MicrocodeInv, Placed
<1>4. PICK d : d = cpu' /\ d \in Cpus /\ d.model = ModelNumber[model]
               /\ d.microcode = cpu.microcode /\ d.ld = cpu.ld
  BY <1>2, <1>3, Numbers DEF Cpus
<1>5. PICK m \in Models, slot \in Places, k \in Cycles : At(cpu, elapsed, m, slot, k)
  BY DEF MicrocodeInv, Placed
<1>6. At(d, elapsed, m, slot, k)
  BY <1>4, <1>5 DEF At
<1>7. Placed(d, elapsed)
  BY <1>2, <1>4, <1>6 DEF MicrocodeInv, Placed
<1> QED
  BY <1>4, <1>7 DEF MicrocodeInv, SetModel

LEMMA SaveAndLoadStep ==
  ASSUME MicrocodeInv, SaveAndLoad
  PROVE  MicrocodeInv'
<1>1. cpu \in Snap!Cpu
  <2>1. PICK m \in Models, slot \in Places, k \in Cycles : cpu.microcode = Idx(ModelNumber[m], slot, k)
    BY DEF MicrocodeInv, Placed, At
  <2>2. cpu.microcode \in Nat /\ cpu.microcode < 65536
    BY <2>1, Decoding
  <2>3. cpu \in Cpus
    BY DEF MicrocodeInv, Placed
  <2>4. Addresses \subseteq Snap!Short /\ Bytes \subseteq Snap!Byte /\ Latches \subseteq Snap!Byte
    BY AddressRange, ByteRange DEF Snap!Short, Snap!Byte, Latches
  <2>5. cpu.model \in Snap!Byte /\ 0 \in Snap!Byte /\ cpu.microcode \in Snap!Short
    BY <2>2, <2>3, Fields DEF Snap!Byte, Snap!Short
  <2> QED
    BY <2>3, <2>4, <2>5 DEF Cpus, Snap!Cpu
<1>2. tick \in Snap!Tick
  <2>1. Addresses \subseteq Snap!Short /\ Bytes \subseteq Snap!Byte
    BY AddressRange, ByteRange DEF Snap!Short, Snap!Byte
  <2>2. {0, writing, opcode_fetch, internal_reset, cpu_jammed} \subseteq Snap!Byte
    BY DEF Snap!Byte, writing, opcode_fetch, internal_reset, cpu_jammed
  <2>3. tick \in Ticks
    BY DEF MicrocodeInv
  <2> QED
    BY <2>1, <2>2, <2>3 DEF Ticks, Snap!Tick
<1>3. cpu' = cpu /\ tick' = tick
  BY <1>1, <1>2, RoundTrip DEF SaveAndLoad
<1> QED
  BY <1>3 DEF MicrocodeInv, SaveAndLoad

LEMMA InitialInv ==
  ASSUME Init
  PROVE  MicrocodeInv
<1>1. PICK case \in Cases :
        /\ cpu = [Blank(case.model) EXCEPT
                    !.microcode = Idx(ModelNumber[case.model], GotoSlot, 1),
                    !.la = case.start.la, !.ld = case.start.ld, !.pc = case.start.pc,
                    !.s = case.start.s, !.a = case.start.a, !.x = case.start.x,
                    !.y = case.start.y, !.p = case.start.p]
        /\ tick = TickOf(case.start.pc, 0, opcode_fetch)
        /\ mem = case.start.mem /\ program = case.program /\ elapsed = 0
  BY Zenon DEF Init
<1>2. PICK start : start = case.start
  OBVIOUS
<1>3. PICK own \in Models : own = case.model
  BY CasesAssumption
<1>4. /\ case.program \in Seq(SUBSET Slots)
      /\ start.pc \in Addresses /\ start.la \in Addresses
      /\ {start.s, start.a, start.x, start.y, start.p, start.ld} \subseteq Bytes
      /\ start.mem \in [Addresses -> Bytes]
  BY <1>2, CasesAssumption
<1>5. cpu \in Cpus /\ cpu.model = ModelNumber[own] /\ cpu.microcode = Idx(cpu.model, GotoSlot, 1)
  <2>1. cpu = [model |-> ModelNumber[own], reserved_extension |-> 0,
               microcode |-> Idx(ModelNumber[own], GotoSlot, 1), la |-> start.la, ld |-> start.ld,
               hijack |-> 0, pc |-> start.pc, s |-> start.s, a |-> start.a, x |-> start.x,
               y |-> start.y, p |-> start.p, interrupts |-> 0]
    BY <1>1, <1>2, <1>3, Zenon DEF Blank
  <2>2. start.ld \in Latches /\ ModelNumber[own] \in {0, 1, 2, 3, 4}
    BY <1>4, ByteRange, Numbers DEF Latches
  <2>3. Idx(ModelNumber[own], GotoSlot, 1) \in Int
    BY <2>2 DEF Idx, GotoSlot
  <2> QED
    BY <1>4, <2>1, <2>2, <2>3 DEF Cpus
<1>6. Placed(cpu, 0)
  BY <1>5, Jumped
<1>7. tick \in Ticks
  BY <1>1, <1>2, <1>4, FixedBytes DEF TickOf, Ticks
<1> QED
  BY <1>1, <1>2, <1>4, <1>6, <1>7 DEF MicrocodeInv

LEMMA InductiveInv == Spec => []MicrocodeInv
<1>1. MicrocodeInv /\ [Next]_vars => MicrocodeInv'
  <2> SUFFICES ASSUME MicrocodeInv, [Next]_vars
               PROVE  MicrocodeInv'
    OBVIOUS
  <2>1. CASE UNCHANGED vars
    BY <2>1 DEF MicrocodeInv, vars
  <2>2. CASE Next
    BY <2>2, DispatchStep, AdvanceStep, RestartStep, GotoStep, SetModelStep, SaveAndLoadStep DEF Next
  <2> QED
    BY <2>1, <2>2
<1> QED
  BY <1>1, InitialInv, PTL DEF Spec

LEMMA Ranges ==
  \A n : n \in {j \in Nat : j < 256} => n \in 0..255
OBVIOUS

LEMMA InvariantHolds ==
  ASSUME MicrocodeInv
  PROVE  NeverOffTheRow /\ EndsInTime /\ TypeOK
<1>1. PICK m \in Models, slot \in Places, k \in Cycles : At(cpu, elapsed, m, slot, k)
  BY DEF MicrocodeInv, Placed
<1>2. /\ ModelOf(cpu.microcode) = m /\ SlotOf(cpu.microcode) = slot /\ CycleOf(cpu.microcode) = k
      /\ RowOf(cpu.microcode) = Block(m, slot)
  BY <1>1, Decoding DEF At
<1>3. cpu \in Cpus /\ elapsed \in Nat
  BY DEF MicrocodeInv, Placed
<1>4. NeverOffTheRow
  BY <1>1, <1>2 DEF NeverOffTheRow, At
<1>5. EndsInTime
  <2>1. SUFFICES ASSUME ~Between
                 PROVE  elapsed < IF slot \in InternalReset..Reset1 THEN 17 ELSE 8
    BY <1>2 DEF EndsInTime
  <2>2. elapsed <= Budget(slot, k, cpu.ld) /\ k < 8 /\ k \in Nat /\ slot \in Nat
    BY <1>1, ServiceNumbers DEF At, Cycles, Places
  <2>3. CASE slot = InternalReset
    <3>1. cpu.ld <= 7 /\ cpu.ld \in Nat
      BY <1>1, <1>3, <2>3, Fields DEF At, Latches
    <3> QED
      BY <1>3, <2>2, <2>3, <3>1 DEF Budget, InternalReset, Reset0, Reset1
  <2>4. CASE slot = Reset0
    BY <1>3, <2>2, <2>4 DEF Budget, InternalReset, Reset0, Reset1
  <2>5. CASE slot = Reset1
    BY <1>3, <2>2, <2>5 DEF Budget, InternalReset, Reset0, Reset1
  <2>6. CASE slot \notin {InternalReset, Reset0, Reset1}
    <3>1. elapsed <= k
      BY <2>2, <2>6 DEF Budget
    <3>2. slot \notin InternalReset..Reset1
      BY <2>2, <2>6 DEF InternalReset, Reset0, Reset1
    <3> QED
      BY <1>3, <2>2, <3>1, <3>2
  <2> QED
    BY <2>3, <2>4, <2>5, <2>6
<1>6. TypeOK
  <2>1. cpu.model \in {ModelNumber[n] : n \in Models}
    BY DEF MicrocodeInv, Placed
  <2>2. SlotOf(cpu.microcode) \in 0..255 \cup ServiceSlots /\ ModelOf(cpu.microcode) \in Models
    BY <1>2, Ranges DEF Places
  <2>3. /\ cpu.la \in Addresses /\ cpu.pc \in Addresses /\ cpu.ld \in 0..255
        /\ {cpu.s, cpu.a, cpu.x, cpu.y, cpu.p} \subseteq Bytes
    BY <1>3, Fields, Ranges DEF Latches
  <2>4. tick \in Ticks /\ mem \in [Addresses -> Bytes]
    BY DEF MicrocodeInv
  <2> QED
    BY <2>1, <2>2, <2>3, <2>4 DEF TypeOK, Ticks
<1> QED
  BY <1>4, <1>5, <1>6

\* Whatever the host does between two ticks, no handler computes a value wider than the
\* register or latch it goes to, or an address or a slot that does not exist.
THEOREM Typing == Spec => []TypeOK
BY InductiveInv, InvariantHolds, PTL

\* The microcode counter never passes the dispatch that follows its row: a null handler is
\* never called, in any of the five blocks, whatever legal instructions fill them.
THEOREM StaysOnTheRow == Spec => []NeverOffTheRow
BY InductiveInv, InvariantHolds, PTL

\* Every instruction that does not jam ends within eight ticks, and a reset within seventeen.
THEOREM EndsEveryInstruction == Spec => []EndsInTime
BY InductiveInv, InvariantHolds, PTL
=============================================================================
