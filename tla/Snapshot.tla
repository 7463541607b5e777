-------------------------------- MODULE Snapshot -------------------------------
(***************************************************************************)
(* The 64 bytes in which a CPU and the tick on its pins are kept, and what       *)
(* loading them gives.  A 32-bit tick is the sequence of its bytes, the most      *)
(* significant first.                                                        *)
(***************************************************************************)
EXTENDS Naturals, Sequences

Byte == {n \in Nat : n < 256}
Short == {n \in Nat : n < 65536}

Cpu == [model : Byte, reserved_extension : Byte, microcode : Short, la : Short, ld : Byte,
        hijack : Byte, pc : Short, s : Byte, a : Byte, x : Byte, y : Byte, p : Byte,
        interrupts : Byte]
Tick == [address : Short, bus : Byte, status : Byte]

\* 0x6502 and 1.
Magic == 25858
Version == 1

Context(c) == [magic |-> Magic, version |-> Version, cpu |-> c]
-----------------------------------------------------------------------------
UpperByte(short) == short \div 256
LowerByte(short) == short % 256
ReadU16(bytes, k) == 256 * bytes[k] + bytes[k + 1]

PackTick(t) == <<t.status, t.bus, UpperByte(t.address), LowerByte(t.address)>>
UnpackTick(packed) ==
  [address |-> 256 * packed[3] + packed[4], bus |-> packed[2], status |-> packed[1]]

\* Mutant: the address latch is forgotten, as if every snapshot were taken between two
\* instructions.
Bytes24NoLatch(ctx, packed) ==
  LET c == ctx.cpu
  IN  <<UpperByte(ctx.magic), LowerByte(ctx.magic), UpperByte(ctx.version), LowerByte(ctx.version),
        c.model, c.reserved_extension, UpperByte(c.microcode), LowerByte(c.microcode), 0, 0,
        c.ld, c.hijack, UpperByte(c.pc), LowerByte(c.pc), c.s, c.a, c.x, c.y, c.p, c.interrupts,
        packed[1], packed[2], packed[3], packed[4]>>

\* The bytes of the header, the CPU and the packed tick; zeros fill the rest.
Bytes24(ctx, packed) ==
  LET c == ctx.cpu
  IN  <<UpperByte(ctx.magic), LowerByte(ctx.magic), UpperByte(ctx.version), LowerByte(ctx.version),
        c.model, c.reserved_extension, UpperByte(c.microcode), LowerByte(c.microcode),
        UpperByte(c.la), LowerByte(c.la), c.ld, c.hijack, UpperByte(c.pc), LowerByte(c.pc),
        c.s, c.a, c.x, c.y, c.p, c.interrupts,
        packed[1], packed[2], packed[3], packed[4]>>

Save(ctx, packed) == [k \in 1..64 |-> IF k <= 24 THEN Bytes24(ctx, packed)[k] ELSE 0]

ReadCpu(bytes) ==
  [model |-> bytes[5], reserved_extension |-> bytes[6], microcode |-> ReadU16(bytes, 7),
   la |-> ReadU16(bytes, 9), ld |-> bytes[11], hijack |-> bytes[12], pc |-> ReadU16(bytes, 13),
   s |-> bytes[15], a |-> bytes[16], x |-> bytes[17], y |-> bytes[18], p |-> bytes[19],
   interrupts |-> bytes[20]]

\* The context and the packed tick.
Load(bytes) ==
  [ctx    |-> [magic |-> ReadU16(bytes, 1), version |-> ReadU16(bytes, 3), cpu |-> ReadCpu(bytes)],
   packed |-> <<bytes[21], bytes[22], bytes[23], bytes[24]>>]

\* qe6502_save and qe6502_load, on a bare CPU.
Saved(c, t) == Save(Context(c), PackTick(t))
Loaded(bytes) == [cpu |-> Load(bytes).ctx.cpu, tick |-> UnpackTick(Load(bytes).packed)]
=============================================================================
