------------------------------ MODULE Arithmetic ------------------------------
(***************************************************************************)
(* The arithmetic of the core: binary and decimal ADC and SBC of both CPU   *)
(* families, compare, the shifts and the illegal ARR, as operators on a byte  *)
(* and a record f of the status bits they read or write.                     *)
(*                                                                         *)
(* ADC-like operators return the accumulator and the flags they leave.  A    *)
(* uint8_t result is taken % 256; wider intermediates of the code never wrap  *)
(* for byte operands, and int8_t ones are plain integers.                     *)
(***************************************************************************)
EXTENDS Integers

Byte == 0..255
Flags == [n : BOOLEAN, v : BOOLEAN, d : BOOLEAN, z : BOOLEAN, c : BOOLEAN]

Low(x) == x % 16
High(x) == x \div 16
Negative(x) == x >= 128
Carry(f) == IF f.c THEN 1 ELSE 0
Complement(v) == 255 - v

\* A bit is named by its weight; the byte of the bits that satisfy P.
Bit(x, w) == (x \div w) % 2 = 1
ByteOf(P(_)) ==
  LET Weight(w) == IF P(w) THEN w ELSE 0
  IN  Weight(1) + Weight(2) + Weight(4) + Weight(8)
        + Weight(16) + Weight(32) + Weight(64) + Weight(128)

And(x, y) == ByteOf(LAMBDA w : Bit(x, w) /\ Bit(y, w))
Or(x, y) == ByteOf(LAMBDA w : Bit(x, w) \/ Bit(y, w))
Xor(x, y) == ByteOf(LAMBDA w : Bit(x, w) # Bit(y, w))

NZ(f, r) == [f EXCEPT !.n = Negative(r), !.z = (r = 0)]
NZC(f, r, carry) == [NZ(f, r) EXCEPT !.c = carry]

\* Adding v to a gives r: both operands have a sign that r does not have.
SumOverflows(a, v, r) == Negative(a) = Negative(v) /\ Negative(a) # Negative(r)
DifferenceOverflows(a, v, r) == Negative(a) # Negative(v) /\ Negative(a) # Negative(r)

-----------------------------------------------------------------------------
(* Shifts: the byte and the flags. *)

AslValue(f, x) == LET r == (2 * x) % 256 IN [r |-> r, f |-> NZC(f, r, Negative(x))]
LsrValue(f, x) == LET r == x \div 2 IN [r |-> r, f |-> NZC(f, r, x % 2 = 1)]
RolValue(f, x) ==
  LET r == (2 * x + Carry(f)) % 256 IN [r |-> r, f |-> NZC(f, r, Negative(x))]
RorValue(f, x) ==
  LET r == x \div 2 + 128 * Carry(f) IN [r |-> r, f |-> NZC(f, r, x % 2 = 1)]

Compare(f, reg, v) == NZC(f, (reg - v) % 256, reg >= v)

-----------------------------------------------------------------------------
(* Addition and subtraction. *)

\* Mutant: V asks only whether the sign of A changed.
AdcBinarySignChange(a, v, f) ==
  LET sum == a + v + Carry(f)
      r   == sum % 256
  IN  [a |-> r, f |-> [NZC(f, r, sum > 255) EXCEPT !.v = Negative(a) # Negative(r)]]

AdcBinary(a, v, f) ==
  LET sum == a + v + Carry(f)
      r   == sum % 256
  IN  [a |-> r, f |-> [NZC(f, r, sum > 255) EXCEPT !.v = SumOverflows(a, v, r)]]

SbcBinary(a, v, f) == AdcBinary(a, Complement(v), f)

\* Mutant: N comes from the adjusted result.
AdcDecimalNmosLateFlags(a, v, f) ==
  LET low0 == Low(a) + Low(v) + Carry(f)
      fix  == low0 > 9
      high == High(a) + High(v) + (IF fix THEN 1 ELSE 0)
      mid  == (high * 16 + Low(IF fix THEN low0 - 10 ELSE low0)) % 256
      r    == IF high > 9 THEN (mid - 160) % 256 ELSE mid
  IN  [a |-> r,
       f |-> [f EXCEPT !.n = Negative(r),
                       !.v = SumOverflows(a, v, mid),
                       !.z = ((a + v + Carry(f)) % 256 = 0),
                       !.c = (high > 9)]]

\* NMOS: N and V come from the sum whose high digit is not adjusted yet, Z from
\* the binary sum.
AdcDecimalNmos(a, v, f) ==
  LET low0 == Low(a) + Low(v) + Carry(f)
      fix  == low0 > 9
      low  == IF fix THEN low0 - 10 ELSE low0
      high == High(a) + High(v) + (IF fix THEN 1 ELSE 0)
      mid  == (high * 16 + Low(low)) % 256
  IN  [a |-> IF high > 9 THEN (mid - 160) % 256 ELSE mid,
       f |-> [f EXCEPT !.n = Negative(mid),
                       !.v = SumOverflows(a, v, mid),
                       !.z = ((a + v + Carry(f)) % 256 = 0),
                       !.c = (high > 9)]]

SbcDecimalNmos(a, v, f) ==
  LET low0 == Low(a) - Low(v) - (1 - Carry(f))
      low  == IF low0 < 0 THEN low0 + 10 ELSE low0
      high == High(a) - High(v) - (IF low0 < 0 THEN 1 ELSE 0)
      mid  == (high * 16 + Low(low)) % 256
  IN  [a |-> IF high < 0 THEN (mid + 160) % 256 ELSE mid,
       f |-> [f EXCEPT !.n = Negative(mid),
                       !.v = DifferenceOverflows(a, v, mid),
                       !.z = ((a + Complement(v) + Carry(f)) % 256 = 0),
                       !.c = (high >= 0)]]

\* Mutant: ten is still taken for a digit.
AdcDecimalCmosLateAdjust(a, v, f) ==
  LET low0 == Low(a) + Low(v) + Carry(f)
      low  == IF low0 > 10 THEN 16 + Low(low0 + 6) ELSE low0
      mid  == low + 16 * High(a) + 16 * High(v)
      over == mid >= 160
      r    == (IF over THEN mid + 96 ELSE mid) % 256
  IN  [a |-> r,
       f |-> [NZC(f, r, over) EXCEPT
                !.v = Negative(a) = Negative(v) /\ (IF over THEN mid < 384 ELSE mid >= 128)]]

\* CMOS: N and Z describe the result.
AdcDecimalCmos(a, v, f) ==
  LET low0 == Low(a) + Low(v) + Carry(f)
      low  == IF low0 >= 10 THEN 16 + Low(low0 + 6) ELSE low0
      mid  == low + 16 * High(a) + 16 * High(v)
      over == mid >= 160
      r    == (IF over THEN mid + 96 ELSE mid) % 256
  IN  [a |-> r,
       f |-> [NZC(f, r, over) EXCEPT
                !.v = Negative(a) = Negative(v) /\ (IF over THEN mid < 384 ELSE mid >= 128)]]

\* Mutant: the overflow probe forgets that high holds one digit more.
SbcDecimalCmosProbe(a, v, f) ==
  LET low0   == 15 + Low(a) - Low(v) + Carry(f)
      borrow == low0 < 16
      low    == IF borrow THEN low0 - 6 ELSE low0 - 16
      high   == 16 * High(a) - 16 * High(v) + (IF borrow THEN 0 ELSE 16)
      probe  == (16 * High(high % 256) + Low(low)) % 256
      under  == high + 240 < 256
      r      == (high + low + 240 - (IF under THEN 96 ELSE 0)) % 256
  IN  [a |-> r,
       f |-> [NZC(f, r, ~under) EXCEPT !.v = DifferenceOverflows(a, v, probe)]]

SbcDecimalCmos(a, v, f) ==
  LET low0   == 15 + Low(a) - Low(v) + Carry(f)
      borrow == low0 < 16
      low    == IF borrow THEN low0 - 6 ELSE low0 - 16
      high   == 16 * High(a) - 16 * High(v) + (IF borrow THEN 0 ELSE 16)
      probe  == (16 * High(high % 256) + Low(low) - 16) % 256
      under  == high + 240 < 256
      r      == (high + low + 240 - (IF under THEN 96 ELSE 0)) % 256
  IN  [a |-> r,
       f |-> [NZC(f, r, ~under) EXCEPT !.v = DifferenceOverflows(a, v, probe)]]

-----------------------------------------------------------------------------
(* ARR: the operand has been and-ed into the accumulator already. *)

ArrBinary(f, x) ==
  LET r == RorValue(f, x).r
  IN  [a |-> r, f |-> [NZC(f, r, Bit(r, 64)) EXCEPT !.v = (Bit(r, 64) # Bit(r, 32))]]

\* Mutant: the low digit's adjustment carries into the high digit.
ArrDecimalNmosCarries(f, x) ==
  LET b    == ArrBinary(f, x)
      mid  == IF Low(x) + (x % 2) > 5 THEN b.a + 6 ELSE b.a
      over == 16 * High(x) + 16 * (High(x) % 2) > 80
  IN  [a |-> IF over THEN (mid + 96) % 256 ELSE mid % 256,
       f |-> [b.f EXCEPT !.c = over]]

ArrDecimalNmos(f, x) ==
  LET b    == ArrBinary(f, x)
      low  == IF Low(x) + (x % 2) > 5 THEN Low(b.a + 6) ELSE Low(b.a)
      mid  == 16 * High(b.a) + low
      over == 16 * High(x) + 16 * (High(x) % 2) > 80
  IN  [a |-> IF over THEN (mid + 96) % 256 ELSE mid,
       f |-> [b.f EXCEPT !.c = over]]
=============================================================================
