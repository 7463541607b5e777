------------------------------ MODULE Accumulator ------------------------------
(***************************************************************************)
(* The accumulator, the carry and the mode bits under any program of ALU      *)
(* instructions, one action per handler that computes.  The handlers' bus      *)
(* cycles and their prefetch belong to other modules; so does the memory that   *)
(* RRA and ISC write back.                                                   *)
(*                                                                         *)
(* A CMOS CPU in decimal mode spends one more tick: the tick that receives the *)
(* operand latches it, and the next one, whose bus byte is of no interest,      *)
(* computes.                                                                *)
(***************************************************************************)
EXTENDS Arithmetic

CONSTANTS
  Models,         \* "nmos", "nes" or the CMOS models "wdc", "rw", "st"
  Operands,       \* the bytes the bus delivers
  Instructions    \* the instructions programs are made of

CmosModel == {"wdc", "rw", "st"}
NmosModel == {"nmos", "nes"}

ASSUME ModelsAssumption == Models \subseteq NmosModel \cup CmosModel
ASSUME OperandsAssumption == Operands \subseteq Byte

VARIABLES
  model,   \* cpu->model
  a,       \* cpu->A
  f,       \* cpu->P without I and B
  latch,   \* cpu->latch_data
  phase,   \* the handler of the next tick: "operand", "adc_dec" or "sbc_dec"
  owed     \* history: the decimal answer of the addition under way

vars == <<model, a, f, latch, phase, owed>>

\* The number a packed decimal byte denotes; the numbers modulo 100 with a carry.
Packed == {x \in Byte : Low(x) <= 9 /\ High(x) <= 9}
Number(x) == 10 * High(x) + Low(x)
Total(c, x) == Number(x) + (IF c THEN 100 ELSE 0)
NoAnswer == -1

Init ==
  /\ model \in Models
  /\ a \in Operands
  /\ f = [n |-> FALSE, v |-> FALSE, d |-> FALSE, z |-> FALSE, c |-> FALSE]
  /\ latch = 0
  /\ phase = "operand"
  /\ owed = NoAnswer

Runs(instruction) == phase = "operand" /\ instruction \in Instructions

\* An instruction that leaves result r in the accumulator and the flags.
Becomes(r) == a' = r.a /\ f' = r.f /\ UNCHANGED <<model, latch, phase, owed>>
Loads(r) == Becomes([a |-> r, f |-> NZ(f, r)])
Shifts(s) == Becomes([a |-> s.r, f |-> s.f])

AdcValue(v, g) ==
  IF g.d /\ model = "nmos" THEN AdcDecimalNmos(a, v, g) ELSE AdcBinary(a, v, g)

SbcValue(v, g) ==
  IF g.d /\ model = "nmos" THEN SbcDecimalNmos(a, v, g) ELSE SbcBinary(a, v, g)

\* Mutant: every CMOS addition takes the decimal cycle.
TakesDecimalCycleAlways == model \in CmosModel

\* The operand tick of a CMOS CPU in decimal mode.
TakesDecimalCycle == model \in CmosModel /\ f.d
LatchOperand(v, handler, answer) ==
  /\ latch' = v
  /\ phase' = handler
  /\ owed' = IF {a, v} \subseteq Packed THEN answer ELSE NoAnswer
  /\ UNCHANGED <<model, a, f>>

Adc(v) ==
  /\ Runs("adc")
  /\ IF TakesDecimalCycle
     THEN LatchOperand(v, "adc_dec", Number(a) + Number(v) + Carry(f))
     ELSE Becomes(AdcValue(v, f))

Sbc(v) ==
  /\ Runs("sbc")
  /\ IF TakesDecimalCycle
     THEN LatchOperand(v, "sbc_dec", 99 + Number(a) - Number(v) + Carry(f))
     ELSE Becomes(SbcValue(v, f))

DecimalTick(handler, r) ==
  /\ phase = handler
  /\ a' = r.a
  /\ f' = r.f
  /\ phase' = "operand"
  /\ owed' = NoAnswer
  /\ UNCHANGED <<model, latch>>

\* Mutant: adds what the dummy read delivers.
AdcDecimalOfBus(bus) == DecimalTick("adc_dec", AdcDecimalCmos(a, bus, f))

\* The tick after the dummy read; bus is what that read delivers.
AdcDecimal(bus) == DecimalTick("adc_dec", AdcDecimalCmos(a, latch, f))
SbcDecimal(bus) == DecimalTick("sbc_dec", SbcDecimalCmos(a, latch, f))

Lda(v) == Runs("lda") /\ Loads(v)
Logic(v) == Runs("logic") /\ \E r \in {And(a, v), Or(a, v), Xor(a, v)} : Loads(r)
Cmp(v) == Runs("cmp") /\ Becomes([a |-> a, f |-> Compare(f, a, v)])
Shift == /\ Runs("shift")
         /\ \E s \in {AslValue(f, a), LsrValue(f, a), RolValue(f, a), RorValue(f, a)} :
              Shifts(s)

\* The NMOS families' illegal immediates and read-modify-writes.
Arr(v) ==
  /\ Runs("arr") /\ model \in NmosModel
  /\ Becomes(IF f.d /\ model = "nmos" THEN ArrDecimalNmos(f, And(a, v)) ELSE ArrBinary(f, And(a, v)))
Rra(v) ==
  /\ Runs("rra") /\ model \in NmosModel
  /\ LET rotated == RorValue(f, v) IN Becomes(AdcValue(rotated.r, rotated.f))
Isc(v) ==
  /\ Runs("isc") /\ model \in NmosModel
  /\ Becomes(SbcValue((v + 1) % 256, f))

\* CLC, SEC, CLD, SED, CLV; PLP takes them all from the stack.
SetFlags ==
  /\ Runs("flags")
  /\ \E bit \in BOOLEAN :
       \E g \in {[f EXCEPT !.c = bit], [f EXCEPT !.d = bit], [f EXCEPT !.v = FALSE]} :
         Becomes([a |-> a, f |-> g])
Plp(v) ==
  /\ Runs("plp")
  /\ Becomes([a |-> a, f |-> [n |-> Bit(v, 128), v |-> Bit(v, 64), d |-> Bit(v, 8),
                              z |-> Bit(v, 2), c |-> Bit(v, 1)]])

Next ==
  \/ \E v \in Operands : \/ Adc(v) \/ Sbc(v) \/ AdcDecimal(v) \/ SbcDecimal(v)
                         \/ Lda(v) \/ Logic(v) \/ Cmp(v)
                         \/ Arr(v) \/ Rra(v) \/ Isc(v) \/ Plp(v)
  \/ Shift
  \/ SetFlags

Spec == Init /\ [][Next]_vars

-----------------------------------------------------------------------------
(* Reference definitions: signed and unsigned integers, decimal numbers, and  *)
(* the published description of decimal mode for every byte.                 *)

Signed(x) == IF x >= 128 THEN x - 256 ELSE x
Fits(x) == x \in -128..127
HighPart(x) == 16 * High(x)

\* Low-digit sum with its decimal carry, and low-digit difference with its borrow.
DigitSum(v) ==
  LET s == Low(a) + Low(v) + Carry(f) IN IF s >= 10 THEN 16 + Low(s + 6) ELSE s
DigitDifference(v) == Low(a) - Low(v) + Carry(f) - 1

\* The decimal sum before and after the high digit's adjustment.
RawSum(v) == HighPart(a) + HighPart(v) + DigitSum(v)
AdjustedSum(v) == IF RawSum(v) >= 160 THEN RawSum(v) + 96 ELSE RawSum(v)
SignedSum(v) == Signed(HighPart(a)) + Signed(HighPart(v)) + DigitSum(v)

-----------------------------------------------------------------------------
(* Properties. *)

\* Type invariant: every result is a byte, the flags are bits, and an operand
\* waits in the latch only on a CMOS CPU in decimal mode.
TypeOK ==
  /\ model \in Models
  /\ a \in Byte
  /\ f \in Flags
  /\ latch \in Byte
  /\ phase \in {"operand", "adc_dec", "sbc_dec"}
  /\ owed \in NoAnswer..199
  /\ phase # "operand" => model \in CmosModel /\ f.d

\* Binary ADC and SBC are integer arithmetic: the result with C as the ninth bit
\* is the unsigned sum, the result with a missing C as a borrow is the unsigned
\* difference, V says that the signed result does not fit, and N # V is the sign
\* of the exact one, as the signed branch idioms rely on.
SignedArithmetic ==
  \A v \in Operands :
    LET sum        == AdcBinary(a, v, f)
        difference == SbcBinary(a, v, f)
        exactSum   == Signed(a) + Signed(v) + Carry(f)
        exact      == Signed(a) - Signed(v) - (1 - Carry(f))
    IN  /\ sum.a \in Byte /\ sum.a + 256 * Carry(sum.f) = a + v + Carry(f)
        /\ sum.f.v = ~Fits(exactSum)
        /\ (sum.f.n # sum.f.v) = (exactSum < 0)
        /\ difference.a \in Byte
        /\ difference.a - 256 * (1 - Carry(difference.f)) = a - v - (1 - Carry(f))
        /\ difference.f.v = ~Fits(exact)
        /\ (difference.f.n # difference.f.v) = (exact < 0)

\* On packed decimal bytes both families compute decimal arithmetic, with the
\* carry as the hundreds digit or the missing borrow.
DecimalArithmetic ==
  a \in Packed =>
    \A v \in Packed \cap Operands :
      LET sum        == Number(a) + Number(v) + Carry(f)
          difference == 99 + Number(a) - Number(v) + Carry(f)
          Right(r, answer) == r.a \in Packed /\ Total(r.f.c, r.a) = answer
      IN  /\ Right(AdcDecimalNmos(a, v, f), sum)
          /\ Right(AdcDecimalCmos(a, v, f), sum)
          /\ Right(SbcDecimalNmos(a, v, f), difference)
          /\ Right(SbcDecimalCmos(a, v, f), difference)

\* Bytes that are no decimal numbers too: the decimal sum adjusts each digit
\* once, from the low one, and both families agree on A, C and V; the NMOS N and V
\* come before the high digit is adjusted.
DecimalSumOfAnyBytes ==
  \A v \in Operands :
    LET nmos == AdcDecimalNmos(a, v, f)
        cmos == AdcDecimalCmos(a, v, f)
    IN  /\ {nmos.a, cmos.a} = {AdjustedSum(v) % 256}
        /\ {nmos.f.c, cmos.f.c} = {AdjustedSum(v) >= 256}
        /\ {nmos.f.v, cmos.f.v} = {~Fits(SignedSum(v))}
        /\ nmos.f.n = Negative(SignedSum(v) % 256)
        /\ nmos.f.z = AdcBinary(a, v, f).f.z

\* The NMOS difference adjusts digit by digit, the CMOS one the binary
\* difference; the NMOS flags are those of binary subtraction, and the CMOS C and V.
DecimalDifferenceOfAnyBytes ==
  \A v \in Operands :
    LET nmos   == SbcDecimalNmos(a, v, f)
        cmos   == SbcDecimalCmos(a, v, f)
        binary == SbcBinary(a, v, f)
        low    == DigitDifference(v)
        digits == HighPart(a) - HighPart(v) + (IF low < 0 THEN Low(low - 6) - 16 ELSE low)
        exact  == a - v + Carry(f) - 1
        high   == IF exact < 0 THEN exact - 96 ELSE exact
    IN  /\ nmos.a = (IF digits < 0 THEN digits - 96 ELSE digits) % 256
        /\ nmos.f = [binary.f EXCEPT !.d = f.d]
        /\ cmos.a = (IF low < 0 THEN high - 6 ELSE high) % 256
        /\ cmos.f.c = binary.f.c
        /\ cmos.f.v = binary.f.v

\* The flags of ARR are the adder's, which doubles the operand while the shifter
\* halves it: C and V of the binary sum, and in decimal mode the carry out of
\* each decimal digit decides whether that digit is adjusted, alone.
ArrUsesTheAdder ==
  LET doubled == AdcBinary(a, a, [f EXCEPT !.c = FALSE])
      binary  == ArrBinary(f, a)
      decimal == ArrDecimalNmos(f, a)
      Adjusted(digit, x) == IF 2 * digit >= 10 THEN Low(x + 6) ELSE x
  IN  /\ binary.f.c = doubled.f.c
      /\ binary.f.v = doubled.f.v
      /\ decimal.f = [binary.f EXCEPT !.c = (2 * High(a) >= 10)]
      /\ Low(decimal.a) = Adjusted(Low(a), Low(binary.a))
      /\ High(decimal.a) = Adjusted(High(a), High(binary.a))

\* The extra tick of a CMOS decimal addition or subtraction finishes the sum that
\* its operand tick began, whatever the bus delivers in between.
DecimalAnswer ==
  [][phase # "operand" =>
       /\ phase' = "operand"
       /\ owed # NoAnswer => Total(f'.c, a') = owed]_vars
=============================================================================
