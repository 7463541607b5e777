--------------------------- MODULE AccumulatorProofs ---------------------------
(***************************************************************************)
(* Type correctness of Accumulator, that binary and decimal arithmetic are     *)
(* what the reference definitions say for every byte, and that the two ticks of *)
(* a CMOS decimal addition give the decimal answer, for every set of operands.  *)
(***************************************************************************)
EXTENDS Accumulator, TLAPS

\* What an ADC-like operator returns.
Outcome(r) == /\ DOMAIN r = {"a", "f"} /\ r.a \in Byte /\ r.f \in Flags

LEMMA BitwiseRange ==
  ASSUME NEW x \in Byte, NEW y \in Byte
  PROVE  And(x, y) \in Byte /\ Or(x, y) \in Byte /\ Xor(x, y) \in Byte
BY DEF And, Or, Xor, ByteOf, Byte

LEMMA FlagUpdates ==
  ASSUME NEW g \in Flags, NEW r, NEW carry \in BOOLEAN, NEW overflow \in BOOLEAN
  PROVE  /\ NZ(g, r) \in Flags
         /\ NZC(g, r, carry) \in Flags
         /\ [NZC(g, r, carry) EXCEPT !.v = overflow] \in Flags
         /\ NZ(g, r).d = g.d
         /\ NZC(g, r, carry).d = g.d
         /\ [NZC(g, r, carry) EXCEPT !.v = overflow].d = g.d
         /\ NZC(g, r, carry).c = carry
         /\ [NZC(g, r, carry) EXCEPT !.v = overflow].c = carry
<1>1. Negative(r) \in BOOLEAN /\ (r = 0) \in BOOLEAN
  BY DEF Negative
<1> DEFINE neg == Negative(r)
           zero == (r = 0)
<1>2. NZ(g, r) = [g EXCEPT !.n = neg, !.z = zero]
  BY DEF NZ
<1>3. NZC(g, r, carry) = [[g EXCEPT !.n = neg, !.z = zero] EXCEPT !.c = carry]
  BY DEF NZC, NZ
<1>4. neg \in BOOLEAN /\ zero \in BOOLEAN
  BY <1>1
<1> HIDE DEF neg, zero
<1> QED
  BY <1>2, <1>3, <1>4 DEF Flags

LEMMA ResultCarry ==
  ASSUME NEW g \in Flags, NEW r, NEW carry \in BOOLEAN, NEW overflow \in BOOLEAN,
         NEW result, result = [a |-> r, f |-> [NZC(g, r, carry) EXCEPT !.v = overflow]]
  PROVE  result.a = r /\ result.f.c = carry
<1>1. [NZC(g, r, carry) EXCEPT !.v = overflow].c = carry
  BY FlagUpdates
<1> QED
  BY <1>1

LEMMA Halves ==
  ASSUME NEW x \in Byte, NEW carry \in 0..1
  PROVE  /\ (2 * x) % 256 \in Byte
         /\ (2 * x + carry) % 256 \in Byte
         /\ x \div 2 \in 0..127
         /\ x \div 2 + 128 * carry \in Byte
<1>1. (2 * x) % 256 \in Byte
  BY DEF Byte
<1>2. (2 * x + carry) % 256 \in Byte
  BY DEF Byte
<1>3. x \div 2 \in 0..127
  BY DEF Byte
<1>4. x \div 2 + 128 * carry \in Byte
  BY <1>3 DEF Byte
<1> QED
  BY <1>1, <1>2, <1>3, <1>4

LEMMA ShiftRange ==
  ASSUME NEW g \in Flags, NEW x \in Byte
  PROVE  /\ AslValue(g, x).r \in Byte /\ AslValue(g, x).f \in Flags
         /\ LsrValue(g, x).r \in Byte /\ LsrValue(g, x).f \in Flags
         /\ RolValue(g, x).r \in Byte /\ RolValue(g, x).f \in Flags
         /\ RorValue(g, x).r \in Byte /\ RorValue(g, x).f \in Flags
<1>1. Negative(x) \in BOOLEAN /\ (x % 2 = 1) \in BOOLEAN /\ Carry(g) \in 0..1
  BY DEF Negative, Carry
<1>2. AslValue(g, x).r \in Byte /\ AslValue(g, x).f \in Flags
  <2> DEFINE r == (2 * x) % 256
  <2>1. r \in Byte
    BY <1>1, Halves DEF Byte
  <2>2. NZC(g, r, Negative(x)) \in Flags
    <3> HIDE DEF r
    <3> QED BY <1>1, FlagUpdates
  <2>3. AslValue(g, x) = [r |-> r, f |-> NZC(g, r, Negative(x))]
    BY DEF AslValue
  <2> QED
    BY <2>1, <2>2, <2>3
<1>3. LsrValue(g, x).r \in Byte /\ LsrValue(g, x).f \in Flags
  <2> DEFINE r == x \div 2
  <2>1. r \in Byte
    BY <1>1, Halves DEF Byte
  <2>2. NZC(g, r, x % 2 = 1) \in Flags
    <3> HIDE DEF r
    <3> QED BY <1>1, FlagUpdates
  <2>3. LsrValue(g, x) = [r |-> r, f |-> NZC(g, r, x % 2 = 1)]
    BY DEF LsrValue
  <2> QED
    BY <2>1, <2>2, <2>3
<1>4. RolValue(g, x).r \in Byte /\ RolValue(g, x).f \in Flags
  <2> DEFINE r == (2 * x + Carry(g)) % 256
  <2>1. r \in Byte
    BY <1>1, Halves DEF Byte
  <2>2. NZC(g, r, Negative(x)) \in Flags
    <3> HIDE DEF r
    <3> QED BY <1>1, FlagUpdates
  <2>3. RolValue(g, x) = [r |-> r, f |-> NZC(g, r, Negative(x))]
    BY DEF RolValue
  <2> QED
    BY <2>1, <2>2, <2>3
<1>5. RorValue(g, x).r \in Byte /\ RorValue(g, x).f \in Flags
  <2> DEFINE r == x \div 2 + 128 * Carry(g)
  <2>1. r \in Byte
    BY <1>1, Halves DEF Byte
  <2>2. NZC(g, r, x % 2 = 1) \in Flags
    <3> HIDE DEF r
    <3> QED BY <1>1, FlagUpdates
  <2>3. RorValue(g, x) = [r |-> r, f |-> NZC(g, r, x % 2 = 1)]
    BY DEF RorValue
  <2> QED
    BY <2>1, <2>2, <2>3
<1> QED
  BY <1>2, <1>3, <1>4, <1>5

-----------------------------------------------------------------------------
(* Every addition and subtraction returns a byte and flags. *)

LEMMA SignTests ==
  ASSUME NEW x, NEW v, NEW r
  PROVE  /\ Negative(r) \in BOOLEAN
         /\ SumOverflows(x, v, r) \in BOOLEAN
         /\ DifferenceOverflows(x, v, r) \in BOOLEAN
BY DEF Negative, SumOverflows, DifferenceOverflows

LEMMA NmosFlags ==
  ASSUME NEW g \in Flags,
         NEW n \in BOOLEAN, NEW v \in BOOLEAN, NEW z \in BOOLEAN, NEW c \in BOOLEAN
  PROVE  [g EXCEPT !.n = n, !.v = v, !.z = z, !.c = c] \in Flags
BY DEF Flags

LEMMA AdcBinaryOutcome ==
  ASSUME NEW x \in Byte, NEW v \in Byte, NEW g \in Flags
  PROVE  AdcBinary(x, v, g).a \in Byte /\ AdcBinary(x, v, g).f \in Flags
<1> DEFINE sum == x + v + Carry(g)
           r == sum % 256
           carry == sum > 255
           overflow == SumOverflows(x, v, r)
           h == [NZC(g, r, carry) EXCEPT !.v = overflow]
<1>1. AdcBinary(x, v, g) = [a |-> r, f |-> h]
  BY DEF AdcBinary
<1>2. r \in Byte
  BY DEF Byte, Carry
<1>3. carry \in BOOLEAN /\ overflow \in BOOLEAN
  BY SignTests
<1>4. h \in Flags
  <2> HIDE DEF r, carry, overflow
  <2> QED BY <1>3, FlagUpdates
<1> QED
  BY <1>1, <1>2, <1>4

LEMMA SbcBinaryOutcome ==
  ASSUME NEW x \in Byte, NEW v \in Byte, NEW g \in Flags
  PROVE  SbcBinary(x, v, g).a \in Byte /\ SbcBinary(x, v, g).f \in Flags
<1>1. Complement(v) \in Byte
  BY DEF Complement, Byte
<1> QED
  BY <1>1, AdcBinaryOutcome DEF SbcBinary

LEMMA AdcDecimalNmosOutcome ==
  ASSUME NEW x \in Byte, NEW v \in Byte, NEW g \in Flags
  PROVE  AdcDecimalNmos(x, v, g).a \in Byte /\ AdcDecimalNmos(x, v, g).f \in Flags
<1> DEFINE low0 == Low(x) + Low(v) + Carry(g)
           fix  == low0 > 9
           low  == IF fix THEN low0 - 10 ELSE low0
           high == High(x) + High(v) + (IF fix THEN 1 ELSE 0)
           mid  == (high * 16 + Low(low)) % 256
           r    == IF high > 9 THEN (mid - 160) % 256 ELSE mid
           neg  == Negative(mid)
           over == SumOverflows(x, v, mid)
           zero == (x + v + Carry(g)) % 256 = 0
           carry == high > 9
           h == [g EXCEPT !.n = neg, !.v = over, !.z = zero, !.c = carry]
<1>1. AdcDecimalNmos(x, v, g) = [a |-> r, f |-> h]
  BY DEF AdcDecimalNmos
<1>2. low \in Int /\ high \in Int
  BY DEF Low, High, Carry, Byte
<1>3. mid \in Byte
  <2> HIDE DEF low, high
  <2> QED BY <1>2 DEF Low, Byte
<1>4. r \in Byte
  <2> HIDE DEF high, mid
  <2> QED BY <1>2, <1>3 DEF Byte
<1>5. neg \in BOOLEAN /\ over \in BOOLEAN /\ zero \in BOOLEAN /\ carry \in BOOLEAN
  BY SignTests
<1>6. h \in Flags
  <2> HIDE DEF neg, over, zero, carry
  <2> QED BY <1>5, NmosFlags
<1> QED
  BY <1>1, <1>4, <1>6

LEMMA SbcDecimalNmosOutcome ==
  ASSUME NEW x \in Byte, NEW v \in Byte, NEW g \in Flags
  PROVE  SbcDecimalNmos(x, v, g).a \in Byte /\ SbcDecimalNmos(x, v, g).f \in Flags
<1> DEFINE low0 == Low(x) - Low(v) - (1 - Carry(g))
           low  == IF low0 < 0 THEN low0 + 10 ELSE low0
           high == High(x) - High(v) - (IF low0 < 0 THEN 1 ELSE 0)
           mid  == (high * 16 + Low(low)) % 256
           r    == IF high < 0 THEN (mid + 160) % 256 ELSE mid
           neg  == Negative(mid)
           over == DifferenceOverflows(x, v, mid)
           zero == (x + Complement(v) + Carry(g)) % 256 = 0
           carry == high >= 0
           h == [g EXCEPT !.n = neg, !.v = over, !.z = zero, !.c = carry]
<1>1. SbcDecimalNmos(x, v, g) = [a |-> r, f |-> h]
  BY DEF SbcDecimalNmos
<1>2. low \in Int /\ high \in Int
  BY DEF Low, High, Carry, Byte
<1>3. mid \in Byte
  <2> HIDE DEF low, high
  <2> QED BY <1>2 DEF Low, Byte
<1>4. r \in Byte
  <2> HIDE DEF high, mid
  <2> QED BY <1>2, <1>3 DEF Byte
<1>5. neg \in BOOLEAN /\ over \in BOOLEAN /\ zero \in BOOLEAN /\ carry \in BOOLEAN
  BY SignTests
<1>6. h \in Flags
  <2> HIDE DEF neg, over, zero, carry
  <2> QED BY <1>5, NmosFlags
<1> QED
  BY <1>1, <1>4, <1>6

LEMMA AdcDecimalCmosOutcome ==
  ASSUME NEW x \in Byte, NEW v \in Byte, NEW g \in Flags
  PROVE  AdcDecimalCmos(x, v, g).a \in Byte /\ AdcDecimalCmos(x, v, g).f \in Flags
<1> DEFINE low0 == Low(x) + Low(v) + Carry(g)
           low  == IF low0 >= 10 THEN 16 + Low(low0 + 6) ELSE low0
           mid  == low + 16 * High(x) + 16 * High(v)
           carry == mid >= 160
           r    == (IF carry THEN mid + 96 ELSE mid) % 256
           over == Negative(x) = Negative(v) /\ (IF carry THEN mid < 384 ELSE mid >= 128)
           h == [NZC(g, r, carry) EXCEPT !.v = over]
<1>1. AdcDecimalCmos(x, v, g) = [a |-> r, f |-> h]
  BY DEF AdcDecimalCmos
<1>2. mid \in Int
  BY DEF Low, High, Carry, Byte
<1>3. r \in Byte
  <2> HIDE DEF mid
  <2> QED BY <1>2 DEF Byte
<1>4. carry \in BOOLEAN /\ over \in BOOLEAN
  OBVIOUS
<1>5. h \in Flags
  <2> HIDE DEF r, carry, over
  <2> QED BY <1>4, FlagUpdates
<1> QED
  BY <1>1, <1>3, <1>5

LEMMA SbcDecimalCmosOutcome ==
  ASSUME NEW x \in Byte, NEW v \in Byte, NEW g \in Flags
  PROVE  SbcDecimalCmos(x, v, g).a \in Byte /\ SbcDecimalCmos(x, v, g).f \in Flags
<1> DEFINE low0   == 15 + Low(x) - Low(v) + Carry(g)
           borrow == low0 < 16
           low    == IF borrow THEN low0 - 6 ELSE low0 - 16
           high   == 16 * High(x) - 16 * High(v) + (IF borrow THEN 0 ELSE 16)
           probe  == (16 * High(high % 256) + Low(low) - 16) % 256
           under  == high + 240 < 256
           r      == (high + low + 240 - (IF under THEN 96 ELSE 0)) % 256
           over   == DifferenceOverflows(x, v, probe)
           h == [NZC(g, r, ~under) EXCEPT !.v = over]
<1>1. SbcDecimalCmos(x, v, g) = [a |-> r, f |-> h]
  BY DEF SbcDecimalCmos
<1>2. low \in Int /\ high \in Int
  BY DEF Low, High, Carry, Byte
<1>3. r \in Byte
  <2> HIDE DEF low, high
  <2> QED BY <1>2 DEF Byte
<1>4. under \in BOOLEAN /\ over \in BOOLEAN
  BY SignTests
<1>5. h \in Flags
  <2> HIDE DEF r, under, over
  <2> QED BY <1>4, FlagUpdates
<1> QED
  BY <1>1, <1>3, <1>5

LEMMA ArrOutcome ==
  ASSUME NEW g \in Flags, NEW x \in Byte
  PROVE  /\ ArrBinary(g, x).a \in Byte /\ ArrBinary(g, x).f \in Flags
         /\ ArrDecimalNmos(g, x).a \in Byte /\ ArrDecimalNmos(g, x).f \in Flags
<1>1. ArrBinary(g, x).a \in Byte /\ ArrBinary(g, x).f \in Flags
  <2> DEFINE r == RorValue(g, x).r
             carry == Bit(r, 64)
             over == Bit(r, 64) # Bit(r, 32)
             h == [NZC(g, r, carry) EXCEPT !.v = over]
  <2>1. ArrBinary(g, x) = [a |-> r, f |-> h]
    BY DEF ArrBinary
  <2>2. r \in Byte
    BY ShiftRange
  <2>3. carry \in BOOLEAN /\ over \in BOOLEAN
    BY DEF Bit
  <2>4. h \in Flags
    <3> HIDE DEF r, carry, over
    <3> QED BY <2>3, FlagUpdates
  <2> QED
    BY <2>1, <2>2, <2>4
<1>2. ArrDecimalNmos(g, x).a \in Byte /\ ArrDecimalNmos(g, x).f \in Flags
  <2> DEFINE b    == ArrBinary(g, x)
             low  == IF Low(x) + (x % 2) > 5 THEN Low(b.a + 6) ELSE Low(b.a)
             mid  == 16 * High(b.a) + low
             carry == 16 * High(x) + 16 * (High(x) % 2) > 80
             r    == IF carry THEN (mid + 96) % 256 ELSE mid
             h    == [b.f EXCEPT !.c = carry]
  <2>1. ArrDecimalNmos(g, x) = [a |-> r, f |-> h]
    BY DEF ArrDecimalNmos
  <2>2. b.a \in Byte /\ b.f \in Flags
    BY <1>1
  <2> HIDE DEF b
  <2>3. low \in 0..15 /\ High(b.a) \in 0..15
    BY <2>2 DEF Low, High, Byte
  <2>4. mid \in Byte
    <3> HIDE DEF low
    <3> QED BY <2>3 DEF Byte
  <2>5. r \in Byte
    <3> HIDE DEF mid, carry
    <3> QED BY <2>4 DEF Byte
  <2>6. carry \in BOOLEAN
    OBVIOUS
  <2>7. h \in Flags
    <3> HIDE DEF carry
    <3> QED BY <2>2, <2>6 DEF Flags
  <2> QED
    BY <2>1, <2>5, <2>7
<1> QED
  BY <1>1, <1>2

-----------------------------------------------------------------------------
(* The CMOS decimal operators on decimal numbers. *)

LEMMA Digits ==
  ASSUME NEW x \in Packed
  PROVE  x \in Byte /\ Low(x) \in 0..9 /\ High(x) \in 0..9
<1>1. x \in Byte /\ Low(x) <= 9 /\ High(x) <= 9
  BY DEF Packed
<1>2. Low(x) \in 0..15 /\ High(x) \in 0..15
  BY <1>1 DEF Low, High, Byte
<1> QED
  BY <1>1, <1>2

LEMMA JoinDigits ==
  ASSUME NEW high \in 0..9, NEW low \in 0..9
  PROVE  Number(16 * high + low) = 10 * high + low
<1>1. High(16 * high + low) = high /\ Low(16 * high + low) = low
  BY DEF High, Low
<1> QED
  BY <1>1 DEF Number

\* The digits of the sum, and the carry, in each of the four cases.
LEMMA AdcDecimalCmosAnswer ==
  ASSUME NEW x \in Packed, NEW v \in Packed, NEW g \in Flags
  PROVE  LET r == AdcDecimalCmos(x, v, g)
         IN  Total(r.f.c, r.a) = Number(x) + Number(v) + Carry(g)
<1> DEFINE low0 == Low(x) + Low(v) + Carry(g)
           low  == IF low0 >= 10 THEN 16 + Low(low0 + 6) ELSE low0
           mid  == low + 16 * High(x) + 16 * High(v)
           carry == mid >= 160
           r    == (IF carry THEN mid + 96 ELSE mid) % 256
           over == Negative(x) = Negative(v) /\ (IF carry THEN mid < 384 ELSE mid >= 128)
           h == [NZC(g, r, carry) EXCEPT !.v = over]
           units == IF low0 >= 10 THEN low0 - 10 ELSE low0
           tens  == High(x) + High(v) + (IF low0 >= 10 THEN 1 ELSE 0)
<1>1. AdcDecimalCmos(x, v, g) = [a |-> r, f |-> h]
  BY DEF AdcDecimalCmos
<1>2. AdcDecimalCmos(x, v, g).a = r /\ AdcDecimalCmos(x, v, g).f.c = carry
  <2>1. carry \in BOOLEAN /\ over \in BOOLEAN
    OBVIOUS
  <2> HIDE DEF mid, r, carry, over
  <2> QED
    BY <1>1, <2>1, ResultCarry
<1>3. /\ Low(x) \in 0..9 /\ Low(v) \in 0..9 /\ High(x) \in 0..9 /\ High(v) \in 0..9
      /\ Carry(g) \in 0..1
  BY Digits DEF Carry
<1>4. low0 \in 0..19
  BY <1>3
<1>5. units \in 0..9 /\ tens \in 0..19
  BY <1>3, <1>4
<1>6. mid = 16 * tens + units
  <2>1. low0 >= 10 => Low(low0 + 6) = low0 - 10
    <3> HIDE DEF low0
    <3> QED BY <1>4 DEF Low
  <2> HIDE DEF low0
  <2> QED BY <1>3, <1>4, <2>1
<1>7. Number(x) + Number(v) + Carry(g) = 10 * tens + units
  BY <1>3, <1>4 DEF Number
<1> HIDE DEF mid, units, tens, over, h
<1>8. CASE tens >= 10
  <2>1. carry = TRUE /\ r = 16 * (tens - 10) + units
    BY <1>5, <1>6, <1>8
  <2>2. Number(r) = 10 * (tens - 10) + units
    BY <1>5, <1>8, <2>1, JoinDigits
  <2> HIDE DEF carry, r
  <2> QED
    BY <1>2, <1>5, <1>7, <2>1, <2>2 DEF Total
<1>9. CASE tens < 10
  <2>1. carry = FALSE /\ r = 16 * tens + units
    BY <1>5, <1>6, <1>9
  <2>2. Number(r) = 10 * tens + units
    BY <1>5, <1>9, <2>1, JoinDigits
  <2> HIDE DEF carry, r
  <2> QED
    BY <1>2, <1>5, <1>7, <2>1, <2>2 DEF Total
<1> QED
  BY <1>5, <1>8, <1>9

LEMMA SbcDecimalCmosAnswer ==
  ASSUME NEW x \in Packed, NEW v \in Packed, NEW g \in Flags
  PROVE  LET r == SbcDecimalCmos(x, v, g)
         IN  Total(r.f.c, r.a) = 99 + Number(x) - Number(v) + Carry(g)
<1> DEFINE low0   == 15 + Low(x) - Low(v) + Carry(g)
           borrow == low0 < 16
           low    == IF borrow THEN low0 - 6 ELSE low0 - 16
           high   == 16 * High(x) - 16 * High(v) + (IF borrow THEN 0 ELSE 16)
           probe  == (16 * High(high % 256) + Low(low) - 16) % 256
           under  == high + 240 < 256
           r      == (high + low + 240 - (IF under THEN 96 ELSE 0)) % 256
           over   == DifferenceOverflows(x, v, probe)
           carry  == ~under
           h == [NZC(g, r, carry) EXCEPT !.v = over]
           tens   == High(x) - High(v) - (IF borrow THEN 1 ELSE 0)
<1>1. SbcDecimalCmos(x, v, g) = [a |-> r, f |-> h]
  BY DEF SbcDecimalCmos
<1>2. SbcDecimalCmos(x, v, g).a = r /\ SbcDecimalCmos(x, v, g).f.c = carry
  <2>1. carry \in BOOLEAN /\ over \in BOOLEAN
    <3> HIDE DEF high, probe
    <3> QED BY SignTests
  <2> HIDE DEF r, carry, over
  <2> QED
    BY <1>1, <2>1, ResultCarry
<1>3. /\ Low(x) \in 0..9 /\ Low(v) \in 0..9 /\ High(x) \in 0..9 /\ High(v) \in 0..9
      /\ Carry(g) \in 0..1
  BY Digits DEF Carry
<1>4. low \in 0..9 /\ tens \in -10..9 /\ high = 16 * tens + 16
  BY <1>3
<1>5. 99 + Number(x) - Number(v) + Carry(g) = 100 + 10 * tens + low
  BY <1>3 DEF Number
<1> HIDE DEF low, high, tens, over, probe, h
<1>6. CASE tens < 0
  <2>1. under /\ carry = FALSE
    BY <1>4, <1>6
  <2>2. r = 16 * (tens + 10) + low
    BY <1>4, <1>6, <2>1
  <2>3. Number(r) = 10 * (tens + 10) + low
    BY <1>4, <1>6, <2>2, JoinDigits
  <2> HIDE DEF under, carry, r
  <2> QED
    BY <1>2, <1>4, <1>5, <2>1, <2>3 DEF Total
<1>7. CASE tens >= 0
  <2>1. ~under /\ carry = TRUE
    BY <1>4, <1>7
  <2>2. r = 16 * tens + low
    BY <1>4, <1>7, <2>1
  <2>3. Number(r) = 10 * tens + low
    BY <1>4, <1>7, <2>2, JoinDigits
  <2> HIDE DEF under, carry, r
  <2> QED
    BY <1>2, <1>4, <1>5, <2>1, <2>3 DEF Total
<1> QED
  BY <1>4, <1>6, <1>7

-----------------------------------------------------------------------------
(* Flags and digits, one by one. *)

\* The flags one by one.
Has(h, n, v, d, z, c) ==
  h \in Flags /\ h.n = n /\ h.v = v /\ h.d = d /\ h.z = z /\ h.c = c

\* The flags that most additions leave.
NVZC(g, r, carry, overflow) == [NZC(g, r, carry) EXCEPT !.v = overflow]

\* Reading the flags back.
LEMMA FlagFields ==
  ASSUME NEW g \in Flags, NEW r, NEW carry \in BOOLEAN, NEW overflow \in BOOLEAN,
         NEW h, h = NVZC(g, r, carry, overflow)
  PROVE  Has(h, Negative(r), overflow, g.d, (r = 0), carry)
<1> DEFINE neg == Negative(r)
           zero == (r = 0)
<1>1. NZC(g, r, carry) = [[g EXCEPT !.n = neg, !.z = zero] EXCEPT !.c = carry]
  BY DEF NZC, NZ
<1>2. neg \in BOOLEAN /\ zero \in BOOLEAN
  BY DEF Negative
<1> HIDE DEF neg, zero
<1>3. /\ h \in Flags
      /\ h.n = neg /\ h.v = overflow /\ h.d = g.d /\ h.z = zero /\ h.c = carry
  BY <1>1, <1>2 DEF Flags, NVZC
<1> QED
  BY <1>3 DEF neg, zero, Has

\* Flags that agree one by one are the same flags.
LEMMA SameFlags ==
  ASSUME NEW g \in Flags, NEW h \in Flags,
         g.n = h.n, g.v = h.v, g.d = h.d, g.z = h.z, g.c = h.c
  PROVE  g = h
BY DEF Flags

\* The byte made of any high digit and a low digit.
Joined(high, low) == (16 * high + low) % 256

LEMMA Join ==
  ASSUME NEW high \in Int, NEW low \in 0..15,
         NEW r, r = Joined(high, low)
  PROVE  /\ r \in Byte
         /\ r = 16 * (high % 16) + low
         /\ Low(r) = low /\ High(r) = high % 16
         /\ Negative(r) = (high % 16 >= 8)
<1>1. PICK k \in Int, d \in 0..15 : high = 16 * k + d /\ high % 16 = d
  <2>1. high = 16 * (high \div 16) + (high % 16) /\ high % 16 \in 0..15 /\ high \div 16 \in Int
    OBVIOUS
  <2> QED BY <2>1
<1>2. 16 * high + low = 256 * k + (16 * d + low)
  BY <1>1
<1>3. r = 16 * d + low
  BY <1>1, <1>2 DEF Joined
<1> QED
  BY <1>1, <1>3 DEF Low, High, Negative, Byte

\* A byte is its two digits, and its sign is the high one's.
LEMMA Nibbles ==
  ASSUME NEW x \in Byte
  PROVE  /\ x = 16 * High(x) + Low(x)
         /\ High(x) \in 0..15 /\ Low(x) \in 0..15
         /\ Negative(x) = (High(x) >= 8)
BY DEF Byte, High, Low, Negative

\* What binary addition returns.
LEMMA AdcBinaryParts ==
  ASSUME NEW x \in Byte, NEW v \in Byte, NEW g \in Flags
  PROVE  LET r == (x + v + Carry(g)) % 256
             sum == AdcBinary(x, v, g)
         IN  /\ sum.a = r
             /\ Has(sum.f, Negative(r), SumOverflows(x, v, r), g.d, r = 0, x + v + Carry(g) > 255)
<1> DEFINE r == (x + v + Carry(g)) % 256
           carry == x + v + Carry(g) > 255
           overflow == SumOverflows(x, v, r)
           h == [NZC(g, r, carry) EXCEPT !.v = overflow]
<1>1. AdcBinary(x, v, g) = [a |-> r, f |-> h]
  BY DEF AdcBinary
<1>2. carry \in BOOLEAN /\ overflow \in BOOLEAN
  BY SignTests
<1>3. Has(h, Negative(r), overflow, g.d, (r = 0), carry)
  <2>1. h = NVZC(g, r, carry, overflow)
    BY DEF NVZC
  <2> HIDE DEF r, carry, overflow, h
  <2> QED BY <1>2, <2>1, FlagFields
<1>4. AdcBinary(x, v, g).a = r /\ AdcBinary(x, v, g).f = h
  <2> HIDE DEF r, h
  <2> QED BY <1>1
<1> HIDE DEF h
<1> QED
  BY <1>3, <1>4, Zenon

\* Carry, overflow and sign of binary sums and differences are those of the integers.
LEMMA SumIsSigned ==
  ASSUME NEW x \in Byte, NEW v \in Byte, NEW g \in Flags
  PROVE  LET sum        == AdcBinary(x, v, g)
             difference == SbcBinary(x, v, g)
             exactSum   == Signed(x) + Signed(v) + Carry(g)
             exact      == Signed(x) - Signed(v) - (1 - Carry(g))
         IN  /\ sum.a \in Byte /\ sum.a + 256 * Carry(sum.f) = x + v + Carry(g)
             /\ sum.f.v = ~Fits(exactSum)
             /\ (sum.f.n # sum.f.v) = (exactSum < 0)
             /\ difference.a \in Byte
             /\ difference.a - 256 * (1 - Carry(difference.f)) = x - v - (1 - Carry(g))
             /\ difference.f.v = ~Fits(exact)
             /\ (difference.f.n # difference.f.v) = (exact < 0)
<1>1. PICK c \in 0..1 : c = Carry(g)
  BY DEF Carry
<1>2. PICK w \in Byte : w = 255 - v /\ Complement(v) = w
  BY DEF Byte, Complement
<1>3. SumOverflows(x, v, (x + v + c) % 256) = ~Fits(Signed(x) + Signed(v) + c)
  BY DEF SumOverflows, Fits, Signed, Negative, Byte
<1>4. (Negative((x + v + c) % 256) # SumOverflows(x, v, (x + v + c) % 256))
        = (Signed(x) + Signed(v) + c < 0)
  BY DEF SumOverflows, Signed, Negative, Byte
<1>5. SumOverflows(x, w, (x + w + c) % 256) = ~Fits(Signed(x) - Signed(v) - (1 - c))
  <2>1. Signed(w) = -1 - Signed(v)
    BY <1>2 DEF Signed, Byte
  <2>2. SumOverflows(x, w, (x + w + c) % 256) = ~Fits(Signed(x) + Signed(w) + c)
    BY DEF SumOverflows, Fits, Signed, Negative, Byte
  <2>3. Signed(x) \in Int /\ Signed(v) \in Int
    BY DEF Signed, Byte
  <2>4. Signed(x) + Signed(w) + c = Signed(x) - Signed(v) - (1 - c)
    <3> HIDE DEF Signed
    <3> QED BY <2>1, <2>3
  <2> QED
    BY <2>2, <2>4, Zenon
<1>6. (Negative((x + w + c) % 256) # SumOverflows(x, w, (x + w + c) % 256))
        = (Signed(x) - Signed(v) - (1 - c) < 0)
  BY <1>2 DEF SumOverflows, Signed, Negative, Byte
<1>7. SbcBinary(x, v, g) = AdcBinary(x, w, g)
  BY <1>2 DEF SbcBinary
<1>8. \A n \in 0..511 : n % 256 \in Byte /\ (n % 256) + (IF n > 255 THEN 256 ELSE 0) = n
  BY DEF Byte
<1>9. \A y \in Byte : /\ AdcBinary(x, y, g).a = (x + y + c) % 256
                     /\ AdcBinary(x, y, g).f.v = SumOverflows(x, y, (x + y + c) % 256)
                     /\ AdcBinary(x, y, g).f.n = Negative((x + y + c) % 256)
                     /\ AdcBinary(x, y, g).f.c = (x + y + c > 255)
  BY <1>1, AdcBinaryParts DEF Has
<1>10. \A y \in Byte :
         /\ AdcBinary(x, y, g).a \in Byte
         /\ AdcBinary(x, y, g).a + 256 * Carry(AdcBinary(x, y, g).f) = x + y + c
  <2> TAKE y \in Byte
  <2>1. PICK n \in 0..511 : n = x + y + c
    BY DEF Byte
  <2>2. PICK r \in Byte : r = n % 256 /\ r + (IF n > 255 THEN 256 ELSE 0) = n
    BY <1>8
  <2>3. AdcBinary(x, y, g).a = r /\ AdcBinary(x, y, g).f.c = (n > 255)
    BY <1>9, <2>1, <2>2
  <2>4. Carry(AdcBinary(x, y, g).f) = IF n > 255 THEN 1 ELSE 0
    BY <2>3, Zenon DEF Carry
  <2>5. r + 256 * (IF n > 255 THEN 1 ELSE 0) = n
    BY <2>2
  <2> QED
    BY <2>1, <2>3, <2>4, <2>5
<1>11. /\ AdcBinary(x, w, g).a \in Byte
       /\ AdcBinary(x, w, g).a - 256 * (1 - Carry(AdcBinary(x, w, g).f)) = x - v - (1 - c)
  <2>1. PICK r \in Byte : r = AdcBinary(x, w, g).a
    BY <1>10
  <2>2. PICK b \in 0..1 : b = Carry(AdcBinary(x, w, g).f)
    BY DEF Carry
  <2>3. r + 256 * b = x + w + c
    BY <1>10, <2>1, <2>2
  <2>4. r - 256 * (1 - b) = x - v - (1 - c)
    BY <1>2, <2>3 DEF Byte
  <2> QED
    BY <2>1, <2>2, <2>4
<1> QED
  BY <1>1, <1>3, <1>4, <1>5, <1>6, <1>7, <1>9, <1>10, <1>11

-----------------------------------------------------------------------------
(* Decimal sums of any bytes: the units digit and its carry, then the tens. *)

\* The units digit of the sum and what it carries.
Units(x, v, g) == Low(Low(x) + Low(v) + Carry(g) + (IF Low(x) + Low(v) + Carry(g) >= 10 THEN 6 ELSE 0))
Carried(x, v, g) == IF Low(x) + Low(v) + Carry(g) >= 10 THEN 1 ELSE 0
Tens(x, v, g) == High(x) + High(v) + Carried(x, v, g)

LEMMA UnitsAndTens ==
  ASSUME NEW x \in Byte, NEW v \in Byte, NEW g \in Flags
  PROVE  LET low0 == Low(x) + Low(v) + Carry(g)
         IN  /\ low0 \in 0..31
             /\ Units(x, v, g) \in 0..15
             /\ Tens(x, v, g) \in 0..31
             /\ Carried(x, v, g) \in 0..1
             /\ Tens(x, v, g) = High(x) + High(v) + Carried(x, v, g)
             /\ Low(IF low0 > 9 THEN low0 - 10 ELSE low0) = Units(x, v, g)
             /\ (IF low0 >= 10 THEN 16 + Low(low0 + 6) ELSE low0)
                  = 16 * Carried(x, v, g) + Units(x, v, g)
<1>1. PICK lx \in 0..15 : lx = Low(x)
  BY Nibbles
<1>2. PICK lv \in 0..15 : lv = Low(v)
  BY Nibbles
<1>3. PICK c \in 0..1 : c = Carry(g)
  BY DEF Carry
<1>4. PICK s \in 0..31 : s = lx + lv + c
  OBVIOUS
<1>5. Low(x) + Low(v) + Carry(g) = s
  BY <1>1, <1>2, <1>3, <1>4
<1>6. s >= 10 => /\ Low(s + 6) \in 0..15
                 /\ Low(s - 10) = Low(s + 6)
  BY DEF Low
<1>7. s < 10 => Low(s) = s
  BY DEF Low
<1>8. High(x) \in 0..15 /\ High(v) \in 0..15
  BY Nibbles
<1> QED
  BY <1>5, <1>6, <1>7, <1>8 DEF Units, Carried, Tens

\* The byte before and after the tens are adjusted.
LEMMA Adjusted ==
  ASSUME NEW tens \in 0..31, NEW units \in 0..15
  PROVE  LET raw == 16 * tens + units
             r   == (IF raw >= 160 THEN raw + 96 ELSE raw) % 256
         IN  /\ (raw >= 160) = (tens > 9)
             /\ (raw < 384) = (tens < 24)
             /\ (raw >= 128) = (tens >= 8)
             /\ ((IF raw >= 160 THEN raw + 96 ELSE raw) >= 256) = (tens > 9)
             /\ (IF tens > 9 THEN ((raw % 256) - 160) % 256 ELSE raw % 256) = r
             /\ Negative(raw % 256) = (tens % 16 >= 8)
<1> DEFINE raw == 16 * tens + units
<1>1. CASE tens > 15
  <2>1. raw % 256 = raw - 256
    BY <1>1
  <2> QED
    BY <1>1, <2>1 DEF Negative
<1>2. CASE tens <= 15
  <2>1. raw % 256 = raw
    BY <1>2
  <2> QED
    BY <1>2, <2>1 DEF Negative
<1> QED
  BY <1>1, <1>2

\* The overflow tests of NMOS and CMOS, from the high digits and the tens.
NmosV(p, q, tens) == (p >= 8) = (q >= 8) /\ (p >= 8) # (tens % 16 >= 8)
CmosV(p, q, tens) == (p >= 8) = (q >= 8) /\ (IF tens > 9 THEN tens < 24 ELSE tens >= 8)

\* The sign of the sum before the tens are adjusted: what NMOS and CMOS test.
SumsOf(p, q, k, units, tens, exact) ==
  /\ p \in 0..15 /\ q \in 0..15 /\ k \in 0..1 /\ units \in 0..15
  /\ tens = p + q + k
  /\ exact = Signed(16 * p) + Signed(16 * q) + (16 * k + units)

SignsAgree(p, q, tens, exact) ==
  /\ NmosV(p, q, tens) = ~Fits(exact)
  /\ CmosV(p, q, tens) = ~Fits(exact)
  /\ Negative(exact % 256) = (tens % 16 >= 8)

LEMMA SignOfTens ==
  ASSUME NEW p, NEW q, NEW k, NEW units, NEW tens, NEW exact,
         SumsOf(p, q, k, units, tens, exact)
  PROVE  SignsAgree(p, q, tens, exact)
<1>0. /\ p \in 0..15 /\ q \in 0..15 /\ k \in 0..1 /\ units \in 0..15
      /\ tens = p + q + k
      /\ exact = Signed(16 * p) + Signed(16 * q) + (16 * k + units)
  BY DEF SumsOf
<1>1. CASE p >= 8 /\ q >= 8
  <2>1. exact = 16 * (tens - 32) + units /\ tens \in 16..31
    BY <1>0, <1>1 DEF Signed
  <2>2. Fits(exact) = (tens >= 24)
    BY <1>0, <1>1, <2>1 DEF Fits
  <2>3. (tens % 16 >= 8) = (tens >= 24)
    BY <1>0, <2>1
  <2>4. Negative(exact % 256) = (tens >= 24)
    BY <1>0, <2>1 DEF Negative
  <2>5. /\ NmosV(p, q, tens) = (tens < 24)
        /\ CmosV(p, q, tens) = (tens < 24)
    BY <1>0, <1>1, <2>1, <2>3 DEF NmosV, CmosV
  <2>6. (~Fits(exact)) = (tens < 24)
    BY <1>0, <2>1 DEF Fits
  <2> QED
    BY <2>3, <2>4, <2>5, <2>6, Zenon DEF SignsAgree
<1>2. CASE p < 8 /\ q < 8
  <2>1. exact = 16 * tens + units /\ tens \in 0..15
    BY <1>0, <1>2 DEF Signed
  <2>2. Fits(exact) = (tens < 8)
    BY <1>0, <1>2, <2>1 DEF Fits
  <2>3. (tens % 16 >= 8) = (tens >= 8)
    BY <1>0, <2>1
  <2>4. Negative(exact % 256) = (tens >= 8)
    BY <1>0, <2>1 DEF Negative
  <2>5. /\ NmosV(p, q, tens) = (tens >= 8)
        /\ CmosV(p, q, tens) = (tens >= 8)
    BY <1>0, <1>2, <2>1, <2>3 DEF NmosV, CmosV
  <2>6. (~Fits(exact)) = (tens >= 8)
    BY <1>0, <2>1 DEF Fits
  <2> QED
    BY <2>3, <2>4, <2>5, <2>6, Zenon DEF SignsAgree
<1>3. CASE (p >= 8) # (q >= 8)
  <2>1. exact = 16 * (tens - 16) + units /\ tens \in 8..23
    BY <1>0, <1>3 DEF Signed
  <2>2. Fits(exact)
    BY <1>0, <2>1 DEF Fits
  <2>3. (tens % 16 >= 8) = (tens < 16)
    BY <1>0, <2>1
  <2>4. Negative(exact % 256) = (tens < 16)
    BY <1>0, <2>1 DEF Negative
  <2> QED
    BY <1>0, <1>3, <2>1, <2>2, <2>3, <2>4 DEF NmosV, CmosV, SignsAgree
<1> QED
  BY <1>0, <1>1, <1>2, <1>3

LEMMA NmosHas ==
  ASSUME NEW g \in Flags,
         NEW n \in BOOLEAN, NEW v \in BOOLEAN, NEW z \in BOOLEAN, NEW c \in BOOLEAN
  PROVE  Has([g EXCEPT !.n = n, !.v = v, !.z = z, !.c = c], n, v, g.d, z, c)
BY DEF Flags, Has

\* What both families return, in terms of the units and the tens.
LEMMA AdcDecimalNmosParts ==
  ASSUME NEW x \in Byte, NEW v \in Byte, NEW g \in Flags
  PROVE  LET tens == Tens(x, v, g)
             raw  == 16 * tens + Units(x, v, g)
             sum  == AdcDecimalNmos(x, v, g)
         IN  /\ sum.a = (IF raw >= 160 THEN raw + 96 ELSE raw) % 256
             /\ Has(sum.f, tens % 16 >= 8,
                    NmosV(High(x), High(v), tens),
                    g.d, (x + v + Carry(g)) % 256 = 0, tens > 9)
<1> DEFINE low0 == Low(x) + Low(v) + Carry(g)
           fix  == low0 > 9
           low  == IF fix THEN low0 - 10 ELSE low0
           high == High(x) + High(v) + (IF fix THEN 1 ELSE 0)
           mid  == (high * 16 + Low(low)) % 256
           r    == IF high > 9 THEN (mid - 160) % 256 ELSE mid
           neg  == Negative(mid)
           over == SumOverflows(x, v, mid)
           zero == (x + v + Carry(g)) % 256 = 0
           carry == high > 9
           h == [g EXCEPT !.n = neg, !.v = over, !.z = zero, !.c = carry]
           tens == Tens(x, v, g)
           units == Units(x, v, g)
           raw == 16 * tens + units
<1>1. AdcDecimalNmos(x, v, g) = [a |-> r, f |-> h]
  BY DEF AdcDecimalNmos
<1>2. /\ low0 \in 0..31 /\ units \in 0..15 /\ tens \in 0..31
      /\ tens = High(x) + High(v) + Carried(x, v, g)
      /\ Low(low) = units
  BY UnitsAndTens
<1>3. high = tens
  BY <1>2 DEF Carried
<1>4. mid = raw % 256
  <2> HIDE DEF high, low, tens, units
  <2> QED BY <1>2, <1>3
<1>5. r = (IF raw >= 160 THEN raw + 96 ELSE raw) % 256 /\ Negative(mid) = (tens % 16 >= 8)
  <2> HIDE DEF high, mid, tens, units
  <2> QED BY <1>2, <1>3, <1>4, Adjusted
<1>6. Negative(x) = (High(x) >= 8) /\ Negative(v) = (High(v) >= 8)
  BY Nibbles
<1>7. over = NmosV(High(x), High(v), tens)
  <2> HIDE DEF mid, tens
  <2> QED BY <1>5, <1>6, Zenon DEF SumOverflows, NmosV
<1>8. neg \in BOOLEAN /\ over \in BOOLEAN /\ zero \in BOOLEAN /\ carry \in BOOLEAN
  BY SignTests
<1>9. Has(h, neg, over, g.d, zero, carry)
  <2> HIDE DEF neg, over, zero, carry
  <2> QED BY <1>8, NmosHas
<1>10. AdcDecimalNmos(x, v, g).a = r /\ AdcDecimalNmos(x, v, g).f = h
  <2> HIDE DEF r, h
  <2> QED BY <1>1
<1>11. neg = (tens % 16 >= 8) /\ carry = (tens > 9)
  BY <1>3, <1>5, Zenon
<1> HIDE DEF r, h, neg, over, carry
<1> QED
  BY <1>5, <1>7, <1>9, <1>10, <1>11, Zenon

LEMMA AdcDecimalCmosParts ==
  ASSUME NEW x \in Byte, NEW v \in Byte, NEW g \in Flags
  PROVE  LET tens == Tens(x, v, g)
             raw  == 16 * tens + Units(x, v, g)
             r    == (IF raw >= 160 THEN raw + 96 ELSE raw) % 256
             sum  == AdcDecimalCmos(x, v, g)
         IN  /\ sum.a = r
             /\ Has(sum.f, Negative(r),
                    CmosV(High(x), High(v), tens),
                    g.d, r = 0, tens > 9)
<1> DEFINE low0 == Low(x) + Low(v) + Carry(g)
           low  == IF low0 >= 10 THEN 16 + Low(low0 + 6) ELSE low0
           mid  == low + 16 * High(x) + 16 * High(v)
           carry == mid >= 160
           r    == (IF carry THEN mid + 96 ELSE mid) % 256
           over == Negative(x) = Negative(v) /\ (IF carry THEN mid < 384 ELSE mid >= 128)
           h == [NZC(g, r, carry) EXCEPT !.v = over]
           tens == Tens(x, v, g)
           units == Units(x, v, g)
           raw == 16 * tens + units
<1>1. AdcDecimalCmos(x, v, g) = [a |-> r, f |-> h]
  BY DEF AdcDecimalCmos
<1>2. /\ units \in 0..15 /\ tens \in 0..31
      /\ Carried(x, v, g) \in 0..1
      /\ tens = High(x) + High(v) + Carried(x, v, g)
      /\ low = 16 * Carried(x, v, g) + units
  BY UnitsAndTens
<1>3. mid = raw
  <2>1. High(x) \in 0..15 /\ High(v) \in 0..15
    BY Nibbles
  <2> HIDE DEF low, tens, units
  <2> QED BY <1>2, <2>1
<1>4. /\ carry = (tens > 9)
      /\ (mid < 384) = (tens < 24)
      /\ (mid >= 128) = (tens >= 8)
  <2> HIDE DEF mid, tens, units
  <2> QED BY <1>2, <1>3, Adjusted
<1>5. r = (IF raw >= 160 THEN raw + 96 ELSE raw) % 256
  <2> HIDE DEF mid, raw
  <2> QED BY <1>3
<1>6. Negative(x) = (High(x) >= 8) /\ Negative(v) = (High(v) >= 8)
  BY Nibbles
<1>7. over = CmosV(High(x), High(v), tens)
  <2> HIDE DEF mid, carry, tens
  <2> QED BY <1>4, <1>6, Zenon DEF CmosV
<1>8. carry \in BOOLEAN /\ over \in BOOLEAN
  OBVIOUS
<1>9. Has(h, Negative(r), over, g.d, r = 0, carry)
  <2>1. h = NVZC(g, r, carry, over)
    BY DEF NVZC
  <2> HIDE DEF r, carry, over, h
  <2> QED BY <1>8, <2>1, FlagFields
<1>10. AdcDecimalCmos(x, v, g).a = r /\ AdcDecimalCmos(x, v, g).f = h
  <2> HIDE DEF r, h
  <2> QED BY <1>1
<1> HIDE DEF r, h, over, carry, tens, raw
<1>11. /\ AdcDecimalCmos(x, v, g).a = r
       /\ Has(AdcDecimalCmos(x, v, g).f, Negative(r),
              CmosV(High(x), High(v), tens),
              g.d, r = 0, tens > 9)
  BY <1>4, <1>7, <1>9, <1>10, Zenon
<1> QED
  BY <1>5, <1>11, Zenon DEF raw, tens

-----------------------------------------------------------------------------
\* The reference sums in terms of the units and the tens.
LEMMA ReferenceSums ==
  ASSUME a \in Byte, f \in Flags, NEW v \in Byte
  PROVE  LET tens == Tens(a, v, f)
             raw  == 16 * tens + Units(a, v, f)
         IN  /\ AdjustedSum(v) = IF raw >= 160 THEN raw + 96 ELSE raw
             /\ (AdjustedSum(v) >= 256) = (tens > 9)
             /\ NmosV(High(a), High(v), tens) = ~Fits(SignedSum(v))
             /\ CmosV(High(a), High(v), tens) = ~Fits(SignedSum(v))
             /\ Negative(SignedSum(v) % 256) = (tens % 16 >= 8)
<1>1. PICK tens \in 0..31 : tens = Tens(a, v, f)
  BY UnitsAndTens
<1>2. PICK units \in 0..15 : units = Units(a, v, f)
  BY UnitsAndTens
<1>3. PICK k \in 0..1 : k = Carried(a, v, f)
  BY UnitsAndTens
<1>4. PICK p \in 0..15 : p = High(a)
  BY Nibbles
<1>5. PICK q \in 0..15 : q = High(v)
  BY Nibbles
<1>6. tens = p + q + k
  BY <1>1, <1>3, <1>4, <1>5, UnitsAndTens
<1>7. DigitSum(v) = 16 * k + units
  <2>1. DigitSum(v) = 16 * Carried(a, v, f) + Units(a, v, f)
    BY UnitsAndTens DEF DigitSum
  <2> QED
    BY <1>2, <1>3, <2>1, Zenon
<1>8. RawSum(v) = 16 * tens + units
  BY <1>4, <1>5, <1>6, <1>7 DEF RawSum, HighPart
<1>9. SignedSum(v) = Signed(16 * p) + Signed(16 * q) + (16 * k + units)
  BY <1>4, <1>5, <1>7, Zenon DEF SignedSum, HighPart
<1>10. AdjustedSum(v) = IF 16 * tens + units >= 160 THEN 16 * tens + units + 96 ELSE 16 * tens + units
  BY <1>8, Zenon DEF AdjustedSum
<1>11. (AdjustedSum(v) >= 256) = (tens > 9)
  BY <1>10
<1>12. /\ NmosV(p, q, tens) = ~Fits(SignedSum(v))
       /\ CmosV(p, q, tens) = ~Fits(SignedSum(v))
       /\ Negative(SignedSum(v) % 256) = (tens % 16 >= 8)
  <2>1. SumsOf(p, q, k, units, tens, SignedSum(v))
    BY <1>6, <1>9 DEF SumsOf
  <2>2. SignsAgree(p, q, tens, SignedSum(v))
    BY <2>1, SignOfTens
  <2> QED
    BY <2>2, Zenon DEF SignsAgree
<1> QED
  BY <1>1, <1>2, <1>4, <1>5, <1>10, <1>11, <1>12, Zenon

LEMMA SumOfAnyBytes ==
  ASSUME a \in Byte, f \in Flags
  PROVE  DecimalSumOfAnyBytes
<1> SUFFICES
      ASSUME NEW v \in Byte
      PROVE  LET nmos == AdcDecimalNmos(a, v, f)
                 cmos == AdcDecimalCmos(a, v, f)
             IN  /\ {nmos.a, cmos.a} = {AdjustedSum(v) % 256}
                 /\ {nmos.f.c, cmos.f.c} = {AdjustedSum(v) >= 256}
                 /\ {nmos.f.v, cmos.f.v} = {~Fits(SignedSum(v))}
                 /\ nmos.f.n = Negative(SignedSum(v) % 256)
                 /\ nmos.f.z = AdcBinary(a, v, f).f.z
  BY OperandsAssumption DEF DecimalSumOfAnyBytes
<1> DEFINE nmos == AdcDecimalNmos(a, v, f)
           cmos == AdcDecimalCmos(a, v, f)
           tens == Tens(a, v, f)
           raw  == 16 * tens + Units(a, v, f)
           r    == (IF raw >= 160 THEN raw + 96 ELSE raw) % 256
<1>1. /\ nmos.a = r
      /\ Has(nmos.f, tens % 16 >= 8, NmosV(High(a), High(v), tens), f.d,
             (a + v + Carry(f)) % 256 = 0, tens > 9)
  BY AdcDecimalNmosParts, Zenon
<1>2. /\ cmos.a = r
      /\ Has(cmos.f, Negative(r), CmosV(High(a), High(v), tens), f.d, r = 0, tens > 9)
  BY AdcDecimalCmosParts, Zenon
<1>3. /\ r = AdjustedSum(v) % 256
      /\ (AdjustedSum(v) >= 256) = (tens > 9)
      /\ NmosV(High(a), High(v), tens) = ~Fits(SignedSum(v))
      /\ CmosV(High(a), High(v), tens) = ~Fits(SignedSum(v))
      /\ Negative(SignedSum(v) % 256) = (tens % 16 >= 8)
  BY ReferenceSums, Zenon
<1>4. AdcBinary(a, v, f).f.z = ((a + v + Carry(f)) % 256 = 0)
  <2> DEFINE b == AdcBinary(a, v, f)
             s == (a + v + Carry(f)) % 256
  <2>1. /\ b.a = s
        /\ Has(b.f, Negative(s), SumOverflows(a, v, s), f.d, s = 0, a + v + Carry(f) > 255)
    BY AdcBinaryParts, Zenon
  <2> HIDE DEF b, s
  <2>2. b.f.z = (s = 0)
    BY <2>1, Zenon DEF Has
  <2> QED
    BY <2>2, Zenon DEF b, s
<1> HIDE DEF nmos, cmos, r, tens
<1>5. /\ nmos.f.c = (tens > 9) /\ nmos.f.v = NmosV(High(a), High(v), tens)
      /\ nmos.f.n = (tens % 16 >= 8) /\ nmos.f.z = ((a + v + Carry(f)) % 256 = 0)
      /\ cmos.f.c = (tens > 9) /\ cmos.f.v = CmosV(High(a), High(v), tens)
  BY <1>1, <1>2, Zenon DEF Has
<1>6. {nmos.a, cmos.a} = {AdjustedSum(v) % 256}
  BY <1>1, <1>2, <1>3, Zenon
<1>7. {nmos.f.c, cmos.f.c} = {AdjustedSum(v) >= 256}
  BY <1>3, <1>5, Zenon
<1>8. {nmos.f.v, cmos.f.v} = {~Fits(SignedSum(v))}
  BY <1>3, <1>5, Zenon
<1>9. nmos.f.n = Negative(SignedSum(v) % 256) /\ nmos.f.z = AdcBinary(a, v, f).f.z
  BY <1>3, <1>4, <1>5, Zenon
<1> QED
  BY <1>6, <1>7, <1>8, <1>9, Zenon DEF nmos, cmos

-----------------------------------------------------------------------------
(* Decimal differences of any bytes: the units with their borrow, then the tens. *)

UnitsLeft(x, v, g) == Low(x) - Low(v) + Carry(g) - 1
Borrowed(x, v, g) == IF UnitsLeft(x, v, g) < 0 THEN 1 ELSE 0
TensLeft(x, v, g) == High(x) - High(v) - Borrowed(x, v, g)

\* The overflow test of both families and of binary subtraction.
DifferenceV(p, q, tens) == (p >= 8) # (q >= 8) /\ (p >= 8) # (tens % 16 >= 8)

\* The difference of two bytes as tens and units left.
LEMMA Left ==
  ASSUME NEW x \in Byte, NEW v \in Byte, NEW g \in Flags
  PROVE  /\ UnitsLeft(x, v, g) \in -16..15
         /\ TensLeft(x, v, g) \in -16..15
         /\ Borrowed(x, v, g) \in 0..1
         /\ High(x) \in 0..15 /\ High(v) \in 0..15
         /\ TensLeft(x, v, g) = High(x) - High(v) - Borrowed(x, v, g)
         /\ x - v + Carry(g) - 1 = 16 * (High(x) - High(v)) + UnitsLeft(x, v, g)
<1>1. PICK lx \in 0..15 : lx = Low(x)
  BY Nibbles
<1>2. PICK lv \in 0..15 : lv = Low(v)
  BY Nibbles
<1>3. PICK hx \in 0..15 : hx = High(x)
  BY Nibbles
<1>4. PICK hv \in 0..15 : hv = High(v)
  BY Nibbles
<1>5. PICK c \in 0..1 : c = Carry(g)
  BY DEF Carry
<1>6. x = 16 * hx + lx /\ v = 16 * hv + lv
  BY <1>1, <1>2, <1>3, <1>4, Nibbles
<1>7. UnitsLeft(x, v, g) = lx - lv + c - 1
  BY <1>1, <1>2, <1>5 DEF UnitsLeft
<1>8. UnitsLeft(x, v, g) \in -16..15
  BY <1>7
<1>9. Borrowed(x, v, g) \in 0..1
  BY DEF Borrowed
<1>10. TensLeft(x, v, g) \in -16..15
  BY <1>3, <1>4, <1>9 DEF TensLeft
<1>11. x - v + Carry(g) - 1 = 16 * (High(x) - High(v)) + UnitsLeft(x, v, g)
  BY <1>3, <1>4, <1>5, <1>6, <1>7
<1> QED
  BY <1>3, <1>4, <1>8, <1>9, <1>10, <1>11 DEF TensLeft

\* The integers a difference is made of, for a borrow b.
LEMMA LeftArithmetic ==
  ASSUME NEW units \in -16..15, NEW b \in 0..1, b = IF units < 0 THEN 1 ELSE 0,
         NEW tens \in -16..15, NEW exact, exact = 16 * (tens + b) + units
  PROVE  /\ exact \in Int
         /\ (exact >= 0) = (tens >= 0)
         /\ (exact < 0) = (tens < 0)
         /\ Negative(exact % 256) = (tens % 16 >= 8)
<1>1. PICK d \in 0..15 : d = units + 16 * b
  OBVIOUS
<1>2. exact = 16 * tens + d
  BY <1>1
<1>3. exact \in Int /\ (exact >= 0) = (tens >= 0) /\ (exact < 0) = (tens < 0)
  BY <1>2
<1>4. PICK r : r = exact % 256 /\ r = Joined(tens, d)
  BY <1>2 DEF Joined
<1>5. Negative(r) = (tens % 16 >= 8)
  <2>1. tens \in Int
    OBVIOUS
  <2> QED
    BY <1>4, <2>1, Join
<1> QED
  BY <1>3, <1>4, <1>5, Zenon

\* The flags of binary subtraction, from the tens left.
LEMMA SbcBinaryParts ==
  ASSUME NEW x \in Byte, NEW v \in Byte, NEW g \in Flags
  PROVE  LET tens == TensLeft(x, v, g)
         IN  Has(SbcBinary(x, v, g).f, tens % 16 >= 8, DifferenceV(High(x), High(v), tens),
                 g.d, (x + Complement(v) + Carry(g)) % 256 = 0, tens >= 0)
<1>1. PICK tens \in -16..15 : tens = TensLeft(x, v, g)
  BY Left
<1>2. PICK w \in Byte : w = 255 - v /\ Complement(v) = w
  BY DEF Byte, Complement
<1>3. PICK c \in 0..1 : c = Carry(g)
  BY DEF Carry
<1>4. PICK exact : exact = x - v + c - 1
  OBVIOUS
<1>5. exact \in Int /\ (exact >= 0) = (tens >= 0) /\ Negative(exact % 256) = (tens % 16 >= 8)
  <2>1. PICK units \in -16..15 : units = UnitsLeft(x, v, g)
    BY Left
  <2>2. PICK b \in 0..1 : b = Borrowed(x, v, g)
    BY Left
  <2>3. High(x) \in 0..15 /\ High(v) \in 0..15
    BY Left
  <2>4. exact = 16 * (tens + b) + units
    <3>1. tens = High(x) - High(v) - b
      BY <1>1, <2>2, Left, Zenon
    <3>2. exact = 16 * (High(x) - High(v)) + units
      BY <1>3, <1>4, <2>1, Left, Zenon
    <3> QED
      BY <2>3, <3>1, <3>2
  <2>5. b = IF units < 0 THEN 1 ELSE 0
    BY <2>1, <2>2, Zenon DEF Borrowed
  <2> QED
    BY <2>4, <2>5, LeftArithmetic
<1>6. PICK r \in Byte : r = (x + w + c) % 256 /\ r = exact % 256
  BY <1>2, <1>4 DEF Byte
<1>7. (x + w + c > 255) = (tens >= 0)
  <2>1. (x + w + c > 255) = (exact >= 0)
    BY <1>2, <1>4 DEF Byte
  <2> QED
    BY <1>5, <2>1, Zenon
<1>8. Negative(w) = ~(High(v) >= 8)
  <2>1. Negative(w) = ~Negative(v)
    BY <1>2 DEF Negative, Byte
  <2> QED
    BY <2>1, Nibbles, Zenon
<1>9. SumOverflows(x, w, r) = DifferenceV(High(x), High(v), tens)
  <2>1. Negative(x) = (High(x) >= 8)
    BY Nibbles, Zenon
  <2>2. Negative(r) = (tens % 16 >= 8)
    BY <1>5, <1>6, Zenon
  <2> QED
    BY <1>8, <2>1, <2>2 DEF SumOverflows, DifferenceV
<1>10. /\ AdcBinary(x, w, g).a = r
       /\ Has(AdcBinary(x, w, g).f, Negative(r), SumOverflows(x, w, r), g.d, r = 0, x + w + c > 255)
  BY <1>3, <1>6, AdcBinaryParts
<1>11. Has(SbcBinary(x, v, g).f, tens % 16 >= 8, DifferenceV(High(x), High(v), tens), g.d,
           r = 0, tens >= 0)
  BY <1>2, <1>5, <1>6, <1>7, <1>9, <1>10, Zenon DEF SbcBinary
<1> QED
  BY <1>1, <1>2, <1>3, <1>6, <1>11, Zenon

\* The accumulators both families leave.
DigitsLeft(units, tens) == 16 * tens + Low(IF units < 0 THEN units + 10 ELSE units)
NmosLeft(digits) == (IF digits < 0 THEN digits - 96 ELSE digits) % 256
CmosLeft(units, tens) ==
  (16 * tens + (IF units < 0 THEN units + 10 ELSE units) - (IF tens < 0 THEN 96 ELSE 0)) % 256

\* NMOS: the digits of the difference, each adjusted by its own borrow.
LEMMA SbcDecimalNmosParts ==
  ASSUME NEW x \in Byte, NEW v \in Byte, NEW g \in Flags
  PROVE  LET units == UnitsLeft(x, v, g)
             tens  == TensLeft(x, v, g)
             difference == SbcDecimalNmos(x, v, g)
         IN  /\ difference.a = NmosLeft(DigitsLeft(units, tens))
             /\ Has(difference.f, tens % 16 >= 8, DifferenceV(High(x), High(v), tens),
                    g.d, (x + Complement(v) + Carry(g)) % 256 = 0, tens >= 0)
<1> DEFINE low0 == Low(x) - Low(v) - (1 - Carry(g))
           low  == IF low0 < 0 THEN low0 + 10 ELSE low0
           high == High(x) - High(v) - (IF low0 < 0 THEN 1 ELSE 0)
           mid  == (high * 16 + Low(low)) % 256
           r    == IF high < 0 THEN (mid + 160) % 256 ELSE mid
           neg  == Negative(mid)
           over == DifferenceOverflows(x, v, mid)
           zero == (x + Complement(v) + Carry(g)) % 256 = 0
           carry == high >= 0
           h == [g EXCEPT !.n = neg, !.v = over, !.z = zero, !.c = carry]
           units == UnitsLeft(x, v, g)
           tens  == TensLeft(x, v, g)
           digit == Low(IF units < 0 THEN units + 10 ELSE units)
           raw   == 16 * tens + digit
<1>1. SbcDecimalNmos(x, v, g) = [a |-> r, f |-> h]
  BY DEF SbcDecimalNmos
<1>2. low0 = units
  <2>1. Low(x) \in Int /\ Low(v) \in Int /\ Carry(g) \in Int
    BY Nibbles DEF Carry
  <2> QED
    BY <2>1 DEF UnitsLeft
<1>3. high = tens
  BY <1>2, Zenon DEF TensLeft, Borrowed
<1>4. Low(low) = digit
  BY <1>2, Zenon
<1>5. units \in -16..15 /\ tens \in -16..15
  BY Left
<1>6. digit \in 0..15
  <2> HIDE DEF units
  <2> QED BY <1>5 DEF Low
<1>7. mid = Joined(tens, digit)
  <2> HIDE DEF high, low, tens, digit
  <2> QED BY <1>3, <1>4, <1>5, <1>6 DEF Joined
<1>8. Negative(mid) = (tens % 16 >= 8)
  <2>1. tens \in Int
    BY <1>5
  <2> HIDE DEF mid, tens, digit
  <2> QED BY <1>6, <1>7, <2>1, Join
<1>9. r = (IF raw < 0 THEN raw - 96 ELSE raw) % 256
  <2> HIDE DEF high, mid, tens, digit
  <2>1. CASE tens < 0
    <3>1. raw < 0 /\ raw \in Int /\ mid = raw + 256
      BY <1>5, <1>6, <1>7, <2>1 DEF Joined
    <3>2. high < 0
      BY <1>3, <2>1
    <3> HIDE DEF raw
    <3>3. (mid + 160) % 256 = (raw - 96) % 256
      <4>1. mid + 160 = (raw - 96) + 512
        BY <3>1
      <4>2. PICK s \in Int : s = raw - 96
        BY <3>1
      <4>3. (s + 512) % 256 = s % 256
        OBVIOUS
      <4> QED
        BY <4>1, <4>2, <4>3, Zenon
    <3> QED
      BY <3>1, <3>2, <3>3, Zenon
  <2>2. CASE tens >= 0
    <3>1. raw >= 0 /\ mid = raw /\ raw % 256 = raw
      BY <1>5, <1>6, <1>7, <2>2 DEF Joined
    <3>2. ~(high < 0)
      BY <1>3, <1>5, <2>2
    <3>3. raw \in Int
      BY <1>5, <1>6
    <3> HIDE DEF raw
    <3> QED
      BY <3>1, <3>2, <3>3
  <2> QED
    BY <1>5, <2>1, <2>2
<1>10. over = DifferenceV(High(x), High(v), tens)
  <2>1. Negative(x) = (High(x) >= 8) /\ Negative(v) = (High(v) >= 8)
    BY Nibbles
  <2> HIDE DEF mid, tens
  <2> QED BY <1>8, <2>1, Zenon DEF DifferenceOverflows, DifferenceV
<1>11. neg \in BOOLEAN /\ over \in BOOLEAN /\ zero \in BOOLEAN /\ carry \in BOOLEAN
  BY SignTests
<1>12. Has(h, neg, over, g.d, zero, carry)
  <2> HIDE DEF neg, over, zero, carry
  <2> QED BY <1>11, NmosHas
<1>13. SbcDecimalNmos(x, v, g).a = r /\ SbcDecimalNmos(x, v, g).f = h
  <2> HIDE DEF r, h
  <2> QED BY <1>1
<1>14. neg = (tens % 16 >= 8) /\ carry = (tens >= 0)
  BY <1>3, <1>8, Zenon
<1>15. r = NmosLeft(DigitsLeft(units, tens))
  <2> HIDE DEF r, units, tens
  <2> QED BY <1>9, Zenon DEF NmosLeft, DigitsLeft
<1> HIDE DEF r, h, neg, over, carry
<1> QED
  BY <1>15, <1>10, <1>12, <1>13, <1>14, Zenon

\* CMOS: the binary difference, adjusted once for each borrow.
LEMMA SbcDecimalCmosParts ==
  ASSUME NEW x \in Byte, NEW v \in Byte, NEW g \in Flags
  PROVE  LET units == UnitsLeft(x, v, g)
             tens  == TensLeft(x, v, g)
             difference == SbcDecimalCmos(x, v, g)
         IN  /\ difference.a = CmosLeft(units, tens)
             /\ difference.f.v = DifferenceV(High(x), High(v), tens)
             /\ difference.f.c = (tens >= 0)
<1> DEFINE low0   == 15 + Low(x) - Low(v) + Carry(g)
           borrow == low0 < 16
           low    == IF borrow THEN low0 - 6 ELSE low0 - 16
           high   == 16 * High(x) - 16 * High(v) + (IF borrow THEN 0 ELSE 16)
           probe  == (16 * High(high % 256) + Low(low) - 16) % 256
           under  == high + 240 < 256
           r      == (high + low + 240 - (IF under THEN 96 ELSE 0)) % 256
           over   == DifferenceOverflows(x, v, probe)
           carry  == ~under
           h == [NZC(g, r, carry) EXCEPT !.v = over]
           units == UnitsLeft(x, v, g)
           tens  == TensLeft(x, v, g)
           adjusted == IF units < 0 THEN units + 10 ELSE units
<1>1. SbcDecimalCmos(x, v, g) = [a |-> r, f |-> h]
  BY DEF SbcDecimalCmos
<1>2. SbcDecimalCmos(x, v, g).a = r /\ Has(h, Negative(r), over, g.d, r = 0, carry)
      /\ SbcDecimalCmos(x, v, g).f = h
  <2>1. carry \in BOOLEAN /\ over \in BOOLEAN
    <3> HIDE DEF high, probe
    <3> QED BY SignTests
  <2>2. h = NVZC(g, r, carry, over)
    BY DEF NVZC
  <2> HIDE DEF r, carry, over, h
  <2> QED
    BY <1>1, <2>1, <2>2, FlagFields
<1>3. /\ units \in -16..15 /\ tens \in -16..15
      /\ High(x) \in 0..15 /\ High(v) \in 0..15
  BY Left
<1>4. low0 = units + 16
  <2>1. Low(x) \in Int /\ Low(v) \in Int /\ Carry(g) \in Int
    BY Nibbles DEF Carry
  <2> QED
    BY <2>1 DEF UnitsLeft
<1>5. low = adjusted /\ borrow = (units < 0)
  <2> HIDE DEF low0, units
  <2> QED BY <1>3, <1>4
<1>6. high = 16 * tens + 16
  <2>1. borrow = (units < 0)
    BY <1>5
  <2>2. Borrowed(x, v, g) = IF borrow THEN 1 ELSE 0
    BY <2>1, Zenon DEF Borrowed
  <2>3. tens = High(x) - High(v) - (IF borrow THEN 1 ELSE 0)
    BY <2>2, Zenon DEF TensLeft
  <2> HIDE DEF borrow, units, tens
  <2> QED BY <1>3, <2>3
<1>7. under = (tens < 0) /\ carry = (tens >= 0)
  <2> HIDE DEF high, tens
  <2> QED BY <1>3, <1>6
<1>8. r = (16 * tens + adjusted - (IF tens < 0 THEN 96 ELSE 0)) % 256
  <2>1. adjusted \in Int
    <3> HIDE DEF units
    <3> QED BY <1>3
  <2>2. CASE tens < 0
    <3>1. under
      BY <1>7, <2>2
    <3> HIDE DEF high, low, under, tens, adjusted
    <3>2. high + low + 240 - 96 = 16 * tens + adjusted - 96 + 256
      BY <1>3, <1>5, <1>6, <2>1
    <3>3. PICK s \in Int : s = 16 * tens + adjusted - 96
      BY <1>3, <2>1
    <3>4. (s + 256) % 256 = s % 256
      OBVIOUS
    <3> QED
      BY <2>2, <3>1, <3>2, <3>3, <3>4
  <2>3. CASE tens >= 0
    <3>1. ~under
      BY <1>3, <1>7, <2>3
    <3> HIDE DEF high, low, under, tens, adjusted
    <3>2. high + low + 240 - 0 = 16 * tens + adjusted - 0 + 256
      BY <1>3, <1>5, <1>6, <2>1
    <3>3. PICK s \in Int : s = 16 * tens + adjusted - 0
      BY <1>3, <2>1
    <3>4. (s + 256) % 256 = s % 256
      OBVIOUS
    <3>5. ~(tens < 0)
      BY <1>3, <2>3
    <3> QED
      BY <3>1, <3>2, <3>3, <3>4, <3>5
  <2> QED
    BY <1>3, <2>2, <2>3
<1>9. Negative(probe) = (tens % 16 >= 8)
  <2>1. PICK d \in 0..15 : d = Low(low)
    <3>1. low \in Int
      <4> HIDE DEF units
      <4> QED BY <1>3, <1>5
    <3> HIDE DEF low
    <3> QED BY <3>1 DEF Low
  <2>2. High(high % 256) = (tens + 1) % 16
    <3> HIDE DEF high, tens
    <3> QED BY <1>3, <1>6 DEF High
  <2>3. (16 * ((tens + 1) % 16) + d - 16) % 256 = Joined(tens, d)
    <3> HIDE DEF tens
    <3> QED BY <1>3 DEF Joined
  <2>4. probe = Joined(tens, d)
    <3> HIDE DEF high, low, tens
    <3> QED BY <2>1, <2>2, <2>3, Zenon
  <2>5. tens \in Int
    BY <1>3
  <2> HIDE DEF probe, tens
  <2> QED
    BY <2>4, <2>5, Join
<1>10. over = DifferenceV(High(x), High(v), tens)
  <2>1. Negative(x) = (High(x) >= 8) /\ Negative(v) = (High(v) >= 8)
    BY Nibbles
  <2> HIDE DEF probe, tens
  <2> QED BY <1>9, <2>1, Zenon DEF DifferenceOverflows, DifferenceV
<1>12. r = CmosLeft(units, tens)
  <2> HIDE DEF r, units, tens
  <2> QED BY <1>8, Zenon DEF CmosLeft
<1> HIDE DEF r, h, over, carry
<1>11. h.v = over /\ h.c = carry
  BY <1>2, Zenon DEF Has
<1> QED
  BY <1>2, <1>7, <1>10, <1>11, <1>12, Zenon

LEMMA DifferenceOfAnyBytes ==
  ASSUME a \in Byte, f \in Flags
  PROVE  DecimalDifferenceOfAnyBytes
<1> SUFFICES
      ASSUME NEW v \in Byte
      PROVE  LET nmos   == SbcDecimalNmos(a, v, f)
                 cmos   == SbcDecimalCmos(a, v, f)
                 binary == SbcBinary(a, v, f)
                 low    == DigitDifference(v)
                 digits == HighPart(a) - HighPart(v) + (IF low < 0 THEN Low(low - 6) - 16 ELSE low)
                 exact  == a - v + Carry(f) - 1
                 high   == IF exact < 0 THEN exact - 96 ELSE exact
             IN  /\ nmos.a = (IF digits < 0 THEN digits - 96 ELSE digits) % 256
                 /\ nmos.f = [binary.f EXCEPT !.d = f.d]
                 /\ cmos.a = (IF low < 0 THEN high - 6 ELSE high) % 256
                 /\ cmos.f.c = binary.f.c
                 /\ cmos.f.v = binary.f.v
  BY OperandsAssumption DEF DecimalDifferenceOfAnyBytes
<1> DEFINE nmos   == SbcDecimalNmos(a, v, f)
           cmos   == SbcDecimalCmos(a, v, f)
           binary == SbcBinary(a, v, f)
           low    == DigitDifference(v)
           digits == HighPart(a) - HighPart(v) + (IF low < 0 THEN Low(low - 6) - 16 ELSE low)
           exact  == a - v + Carry(f) - 1
           high   == IF exact < 0 THEN exact - 96 ELSE exact
           tens   == TensLeft(a, v, f)
           over   == DifferenceV(High(a), High(v), tens)
           zero   == (a + Complement(v) + Carry(f)) % 256 = 0
           digit  == Low(IF low < 0 THEN low + 10 ELSE low)
           raw    == 16 * tens + digit
           adjusted == IF low < 0 THEN low + 10 ELSE low
<1>1. low = UnitsLeft(a, v, f)
  BY Zenon DEF DigitDifference, UnitsLeft
<1>2. PICK p \in 0..15 : p = High(a)
  BY Left
<1>3. PICK q \in 0..15 : q = High(v)
  BY Left
<1>4. PICK k \in 0..1 : k = Borrowed(a, v, f)
  BY Left
<1>5. low \in -16..15 /\ tens \in -16..15 /\ k = (IF low < 0 THEN 1 ELSE 0)
      /\ tens = p - q - k
      /\ exact = 16 * (p - q) + low
  <2>1. low \in -16..15 /\ tens \in -16..15
    BY <1>1, Left, Zenon
  <2>2. k = (IF low < 0 THEN 1 ELSE 0)
    BY <1>1, <1>4, Zenon DEF Borrowed
  <2> QED
    BY <1>1, <1>2, <1>3, <1>4, <2>1, <2>2, Left, Zenon
<1>6. /\ nmos.a = NmosLeft(DigitsLeft(UnitsLeft(a, v, f), tens))
      /\ Has(nmos.f, tens % 16 >= 8, over, f.d, zero, tens >= 0)
  BY SbcDecimalNmosParts, Zenon
<1>7. /\ cmos.a = CmosLeft(UnitsLeft(a, v, f), tens)
      /\ cmos.f.v = over
      /\ cmos.f.c = (tens >= 0)
  BY SbcDecimalCmosParts, Zenon
<1>8. Has(binary.f, tens % 16 >= 8, over, f.d, zero, tens >= 0)
  BY SbcBinaryParts, Zenon
<1>9. digits = raw
  <2>1. low < 0 => Low(low - 6) = Low(low + 10)
    <3> HIDE DEF low
    <3> QED BY <1>5 DEF Low
  <2>2. ~(low < 0) => Low(low) = low
    <3> HIDE DEF low
    <3> QED BY <1>5 DEF Low
  <2>3. digit \in Int
    <3> HIDE DEF low
    <3> QED BY <1>5 DEF Low
  <2>4. /\ low < 0 => digits = 16 * p - 16 * q + (Low(low - 6) - 16)
        /\ ~(low < 0) => digits = 16 * p - 16 * q + low
    <3> HIDE DEF low
    <3> QED BY <1>2, <1>3, Zenon DEF HighPart
  <2>5. CASE low < 0
    <3>1. digit = Low(low + 10) /\ digits = 16 * p - 16 * q + (digit - 16) /\ k = 1
      <4> HIDE DEF low
      <4> QED BY <1>5, <2>1, <2>4, <2>5, Zenon
    <3> HIDE DEF low, digit, digits, tens
    <3> QED
      BY <1>5, <2>3, <3>1
  <2>6. CASE ~(low < 0)
    <3>1. digit = low /\ digits = 16 * p - 16 * q + digit /\ k = 0
      <4> HIDE DEF low
      <4> QED BY <1>5, <2>2, <2>4, <2>6, Zenon
    <3> HIDE DEF low, digit, digits, tens
    <3> QED
      BY <1>5, <2>3, <3>1
  <2> QED
    BY <2>5, <2>6
<1>10. 16 * tens + adjusted - (IF tens < 0 THEN 96 ELSE 0) = IF low < 0 THEN high - 6 ELSE high
  <2> HIDE DEF low, tens, exact
  <2>1. (exact < 0) = (tens < 0)
    BY <1>5
  <2> QED
    BY <1>5, <2>1
<1>11. nmos.f = [binary.f EXCEPT !.d = f.d]
  <2> HIDE DEF nmos, binary, over, zero, tens
  <2>1. nmos.f \in Flags /\ binary.f \in Flags /\ binary.f.d = f.d
    BY <1>6, <1>8, Zenon DEF Has
  <2>2. [binary.f EXCEPT !.d = f.d] = binary.f
    BY <2>1 DEF Flags
  <2>3. /\ nmos.f.n = binary.f.n /\ nmos.f.v = binary.f.v /\ nmos.f.d = binary.f.d
        /\ nmos.f.z = binary.f.z /\ nmos.f.c = binary.f.c
    BY <1>6, <1>8, Zenon DEF Has
  <2>4. nmos.f = binary.f
    BY <2>1, <2>3, SameFlags
  <2> QED
    BY <2>2, <2>4, Zenon
<1>12. binary.f.v = over /\ binary.f.c = (tens >= 0)
  <2> HIDE DEF binary, over, zero, tens
  <2> QED BY <1>8, Zenon DEF Has
<1>13. /\ nmos.a = (IF digits < 0 THEN digits - 96 ELSE digits) % 256
       /\ cmos.a = (IF low < 0 THEN high - 6 ELSE high) % 256
  <2>1. nmos.a = NmosLeft(DigitsLeft(low, tens)) /\ cmos.a = CmosLeft(low, tens)
    <3> HIDE DEF nmos, cmos, low, tens
    <3> QED BY <1>1, <1>6, <1>7, Zenon
  <2>2. DigitsLeft(low, tens) = digits
    <3> HIDE DEF low, tens, digits
    <3> QED BY <1>9, Zenon DEF DigitsLeft
  <2>3. CmosLeft(low, tens) = (IF low < 0 THEN high - 6 ELSE high) % 256
    <3> HIDE DEF low, tens, exact, high
    <3> QED BY <1>10, Zenon DEF CmosLeft
  <2>4. NmosLeft(digits) = (IF digits < 0 THEN digits - 96 ELSE digits) % 256
    <3> HIDE DEF digits
    <3> QED BY Zenon DEF NmosLeft
  <2> HIDE DEF nmos, cmos, low, high, tens, digits
  <2> QED BY <2>1, <2>2, <2>3, <2>4, Zenon
<1>14. cmos.f.c = binary.f.c /\ cmos.f.v = binary.f.v
  <2> HIDE DEF cmos, binary, over, tens
  <2> QED BY <1>7, <1>12, Zenon
<1> QED
  BY <1>11, <1>13, <1>14, Zenon

-----------------------------------------------------------------------------
(* Decimal numbers: both families return the two digits of the answer. *)

LEMMA AnswersArePacked ==
  ASSUME NEW high \in 0..9, NEW low \in 0..9
  PROVE  16 * high + low \in Packed
<1>1. High(16 * high + low) = high /\ Low(16 * high + low) = low
  BY DEF High, Low
<1>2. 16 * high + low \in Byte
  BY DEF Byte
<1> QED
  BY <1>1, <1>2 DEF Packed

LEMMA SumsOfNumbers ==
  ASSUME NEW x \in Packed, NEW v \in Packed, NEW g \in Flags
  PROVE  LET nmos   == AdcDecimalNmos(x, v, g)
             cmos   == AdcDecimalCmos(x, v, g)
             answer == Number(x) + Number(v) + Carry(g)
         IN  /\ nmos.a \in Packed /\ Total(nmos.f.c, nmos.a) = answer
             /\ cmos.a \in Packed /\ Total(cmos.f.c, cmos.a) = answer
<1> DEFINE tens == Tens(x, v, g)
           units == Units(x, v, g)
           raw == 16 * tens + units
           r == (IF raw >= 160 THEN raw + 96 ELSE raw) % 256
           nmos == AdcDecimalNmos(x, v, g)
           cmos == AdcDecimalCmos(x, v, g)
           answer == Number(x) + Number(v) + Carry(g)
<1>1. x \in Byte /\ v \in Byte
  BY Digits
<1>2. nmos.a = r /\ nmos.f.c = (tens > 9) /\ cmos.a = r /\ cmos.f.c = (tens > 9)
  <2>1. nmos.a = r /\ Has(nmos.f, tens % 16 >= 8, NmosV(High(x), High(v), tens),
                          g.d, (x + v + Carry(g)) % 256 = 0, tens > 9)
    BY <1>1, AdcDecimalNmosParts, Zenon
  <2>2. cmos.a = r /\ Has(cmos.f, Negative(r), CmosV(High(x), High(v), tens),
                          g.d, r = 0, tens > 9)
    BY <1>1, AdcDecimalCmosParts, Zenon
  <2> HIDE DEF nmos, cmos, r, tens
  <2> QED
    BY <2>1, <2>2, Zenon DEF Has
<1>3. units \in 0..9 /\ tens \in 0..19
  <2>1. /\ Low(x) \in 0..9 /\ Low(v) \in 0..9 /\ High(x) \in 0..9 /\ High(v) \in 0..9
        /\ Carry(g) \in 0..1
    BY Digits DEF Carry
  <2>2. PICK s \in 0..19 : s = Low(x) + Low(v) + Carry(g)
    BY <2>1
  <2>3. units = Low(s + (IF s >= 10 THEN 6 ELSE 0)) /\ tens = High(x) + High(v) + (IF s >= 10 THEN 1 ELSE 0)
    BY <2>2, Zenon DEF Units, Tens, Carried
  <2> HIDE DEF units, tens
  <2> QED
    BY <2>1, <2>3 DEF Low
<1>4. r \in Packed
  <2> HIDE DEF tens, units
  <2>1. CASE tens > 9
    <3>1. tens - 10 \in 0..9 /\ r = 16 * (tens - 10) + units
      BY <1>3, <2>1
    <3> QED
      BY <1>3, <3>1, AnswersArePacked, Zenon
  <2>2. CASE tens <= 9
    <3>1. tens \in 0..9 /\ r = 16 * tens + units
      BY <1>3, <2>2
    <3> QED
      BY <1>3, <3>1, AnswersArePacked, Zenon
  <2> QED
    BY <1>3, <2>1, <2>2
<1>5. Total(cmos.f.c, cmos.a) = answer
  BY AdcDecimalCmosAnswer, Zenon
<1> HIDE DEF nmos, cmos, r, tens, answer
<1>6. /\ nmos.a \in Packed /\ Total(nmos.f.c, nmos.a) = answer
      /\ cmos.a \in Packed /\ Total(cmos.f.c, cmos.a) = answer
  BY <1>2, <1>4, <1>5, Zenon
<1> QED
  BY <1>6, Zenon DEF nmos, cmos, answer

LEMMA DifferencesOfNumbers ==
  ASSUME NEW x \in Packed, NEW v \in Packed, NEW g \in Flags
  PROVE  LET nmos   == SbcDecimalNmos(x, v, g)
             cmos   == SbcDecimalCmos(x, v, g)
             answer == 99 + Number(x) - Number(v) + Carry(g)
         IN  /\ nmos.a \in Packed /\ Total(nmos.f.c, nmos.a) = answer
             /\ cmos.a \in Packed /\ Total(cmos.f.c, cmos.a) = answer
<1> DEFINE units == UnitsLeft(x, v, g)
           tens  == TensLeft(x, v, g)
           low   == IF units < 0 THEN units + 10 ELSE units
           raw   == 16 * tens + Low(low)
           r     == 16 * (IF tens < 0 THEN tens + 10 ELSE tens) + low
           nmos  == SbcDecimalNmos(x, v, g)
           cmos  == SbcDecimalCmos(x, v, g)
           answer == 99 + Number(x) - Number(v) + Carry(g)
<1>1. x \in Byte /\ v \in Byte
  BY Digits
<1>2. low \in 0..9 /\ tens \in -10..9
  <2>1. /\ Low(x) \in 0..9 /\ Low(v) \in 0..9 /\ High(x) \in 0..9 /\ High(v) \in 0..9
        /\ Carry(g) \in 0..1
    BY Digits DEF Carry
  <2>2. units \in -10..9
    BY <2>1 DEF UnitsLeft
  <2>3. Borrowed(x, v, g) \in 0..1
    BY DEF Borrowed
  <2>4. tens \in -10..9
    BY <2>1, <2>3 DEF TensLeft
  <2> HIDE DEF units
  <2> QED
    BY <2>2, <2>4
<1>3. Low(low) = low
  <2> HIDE DEF low
  <2> QED BY <1>2 DEF Low
<1>4. /\ nmos.a = NmosLeft(DigitsLeft(units, tens))
      /\ nmos.f.c = (tens >= 0)
  <2>1. /\ nmos.a = NmosLeft(DigitsLeft(units, tens))
        /\ Has(nmos.f, tens % 16 >= 8, DifferenceV(High(x), High(v), tens),
               g.d, (x + Complement(v) + Carry(g)) % 256 = 0, tens >= 0)
    BY <1>1, SbcDecimalNmosParts, Zenon
  <2> HIDE DEF nmos, tens, units
  <2> QED
    BY <2>1, Zenon DEF Has
<1>5. /\ cmos.a = CmosLeft(units, tens)
      /\ cmos.f.c = (tens >= 0)
  BY <1>1, SbcDecimalCmosParts, Zenon
<1>6. nmos.a = r /\ cmos.a = r /\ r \in Packed
  <2>1. /\ NmosLeft(DigitsLeft(units, tens)) = (IF raw < 0 THEN raw - 96 ELSE raw) % 256
        /\ CmosLeft(units, tens) = (16 * tens + low - (IF tens < 0 THEN 96 ELSE 0)) % 256
    <3> HIDE DEF units, tens
    <3> QED BY Zenon DEF NmosLeft, DigitsLeft, CmosLeft
  <2>2. CASE tens < 0
    <3> HIDE DEF low, tens
    <3>1. tens + 10 \in 0..9 /\ r = 16 * (tens + 10) + low
      BY <1>2, <2>2
    <3>2. (IF raw < 0 THEN raw - 96 ELSE raw) % 256 = r
      BY <1>2, <1>3, <2>2
    <3>3. (16 * tens + low - (IF tens < 0 THEN 96 ELSE 0)) % 256 = r
      BY <1>2, <2>2
    <3>4. r \in Packed
      BY <1>2, <3>1, AnswersArePacked
    <3> HIDE DEF nmos, cmos, raw, r
    <3> QED
      BY <1>4, <1>5, <2>1, <3>2, <3>3, <3>4, Zenon
  <2>3. CASE tens >= 0
    <3> HIDE DEF low, tens
    <3>1. tens \in 0..9 /\ r = 16 * tens + low
      BY <1>2, <2>3
    <3>2. (IF raw < 0 THEN raw - 96 ELSE raw) % 256 = r
      BY <1>2, <1>3, <2>3
    <3>3. (16 * tens + low - (IF tens < 0 THEN 96 ELSE 0)) % 256 = r
      BY <1>2, <2>3
    <3>4. r \in Packed
      BY <1>2, <3>1, AnswersArePacked
    <3> HIDE DEF nmos, cmos, raw, r
    <3> QED
      BY <1>4, <1>5, <2>1, <3>2, <3>3, <3>4, Zenon
  <2> QED
    BY <1>2, <2>2, <2>3
<1>7. Total(cmos.f.c, cmos.a) = answer
  BY SbcDecimalCmosAnswer, Zenon
<1> HIDE DEF nmos, cmos, r, tens, answer
<1>8. /\ nmos.a \in Packed /\ Total(nmos.f.c, nmos.a) = answer
      /\ cmos.a \in Packed /\ Total(cmos.f.c, cmos.a) = answer
  BY <1>4, <1>5, <1>6, <1>7, Zenon
<1> QED
  BY <1>8, Zenon DEF nmos, cmos, answer

LEMMA NumbersAreAdded ==
  ASSUME a \in Byte, f \in Flags
  PROVE  DecimalArithmetic
<1> SUFFICES
      ASSUME a \in Packed, NEW v \in Packed
      PROVE  LET sum        == Number(a) + Number(v) + Carry(f)
                 difference == 99 + Number(a) - Number(v) + Carry(f)
                 Right(r, answer) == r.a \in Packed /\ Total(r.f.c, r.a) = answer
             IN  /\ Right(AdcDecimalNmos(a, v, f), sum)
                 /\ Right(AdcDecimalCmos(a, v, f), sum)
                 /\ Right(SbcDecimalNmos(a, v, f), difference)
                 /\ Right(SbcDecimalCmos(a, v, f), difference)
  BY DEF DecimalArithmetic
<1> DEFINE sum == Number(a) + Number(v) + Carry(f)
           difference == 99 + Number(a) - Number(v) + Carry(f)
<1>1. /\ AdcDecimalNmos(a, v, f).a \in Packed
      /\ Total(AdcDecimalNmos(a, v, f).f.c, AdcDecimalNmos(a, v, f).a) = sum
      /\ AdcDecimalCmos(a, v, f).a \in Packed
      /\ Total(AdcDecimalCmos(a, v, f).f.c, AdcDecimalCmos(a, v, f).a) = sum
  BY SumsOfNumbers, Zenon
<1>2. /\ SbcDecimalNmos(a, v, f).a \in Packed
      /\ Total(SbcDecimalNmos(a, v, f).f.c, SbcDecimalNmos(a, v, f).a) = difference
      /\ SbcDecimalCmos(a, v, f).a \in Packed
      /\ Total(SbcDecimalCmos(a, v, f).f.c, SbcDecimalCmos(a, v, f).a) = difference
  BY DifferencesOfNumbers, Zenon
<1> QED
  BY <1>1, <1>2, Zenon

-----------------------------------------------------------------------------
(* ARR. *)

Halved(x, c) == x \div 2 + 128 * c

\* What the shifter leaves, from the bits of the operand.
LEMMA ArrBinaryParts ==
  ASSUME NEW x \in Byte, NEW g \in Flags
  PROVE  LET r == Halved(x, Carry(g))
         IN  /\ ArrBinary(g, x).a = r /\ r \in Byte
             /\ Has(ArrBinary(g, x).f, Negative(r), Bit(r, 64) # Bit(r, 32), g.d, r = 0, Bit(r, 64))
<1> DEFINE r == Halved(x, Carry(g))
           carry == Bit(r, 64)
           over == Bit(r, 64) # Bit(r, 32)
           h == NVZC(g, r, carry, over)
<1>1. RorValue(g, x).r = r
  BY DEF RorValue, Halved
<1>2. ArrBinary(g, x) = [a |-> r, f |-> h]
  BY <1>1, Zenon DEF ArrBinary, NVZC
<1>3. r \in Byte
  BY <1>1, ShiftRange
<1>4. carry \in BOOLEAN /\ over \in BOOLEAN
  BY DEF Bit
<1>5. Has(h, Negative(r), over, g.d, r = 0, carry)
  <2> HIDE DEF r, carry, over
  <2> QED BY <1>4, FlagFields
<1>6. ArrBinary(g, x).a = r /\ ArrBinary(g, x).f = h
  <2> HIDE DEF r, h
  <2> QED BY <1>2
<1> HIDE DEF r, h
<1>7. /\ ArrBinary(g, x).a = r /\ r \in Byte
      /\ Has(ArrBinary(g, x).f, Negative(r), Bit(r, 64) # Bit(r, 32), g.d, r = 0, Bit(r, 64))
  BY <1>3, <1>5, <1>6, Zenon
<1> QED
  BY <1>7, Zenon DEF r

\* Doubling and halving look at the same two bits.
LEMMA DoubledBits ==
  ASSUME NEW x \in Byte, NEW c \in 0..1
  PROVE  LET r == Halved(x, c)
         IN  /\ Bit(r, 64) = (x + x + 0 > 255)
             /\ (Bit(r, 64) # Bit(r, 32)) = SumOverflows(x, x, (x + x + 0) % 256)
<1> DEFINE r == Halved(x, c)
<1>1. PICK t \in 0..1, u \in 0..1, w \in 0..63 : x = 128 * t + 64 * u + w
  <2>1. x = 128 * (x \div 128) + 64 * ((x \div 64) % 2) + (x % 64)
    BY DEF Byte
  <2>2. x \div 128 \in 0..1 /\ (x \div 64) % 2 \in 0..1 /\ x % 64 \in 0..63
    BY DEF Byte
  <2> QED
    BY <2>1, <2>2
<1>2. r = 128 * c + 64 * t + 32 * u + (w \div 2)
  BY <1>1 DEF Halved
<1> HIDE DEF r
<1>3. w \div 2 \in 0..31
  OBVIOUS
<1>4. r \div 64 = 2 * c + t /\ r \div 32 = 4 * c + 2 * t + u
  <2>1. PICK d \in 0..31 : d = w \div 2
    BY <1>3
  <2> QED
    BY <1>2, <2>1
<1>5. Bit(r, 64) = (t = 1) /\ Bit(r, 32) = (u = 1)
  BY <1>4 DEF Bit
<1>6. (x + x + 0 > 255) = (t = 1)
  BY <1>1
<1>7. Negative(x) = (t = 1) /\ Negative((x + x + 0) % 256) = (u = 1)
  BY <1>1 DEF Negative
<1>8. (Bit(r, 64) # Bit(r, 32)) = SumOverflows(x, x, (x + x + 0) % 256)
  BY <1>5, <1>7, Zenon DEF SumOverflows
<1> QED
  BY <1>5, <1>6, <1>8, Zenon DEF r

\* When a digit is adjusted, and what is left of both.
LEMMA ArrDigits ==
  ASSUME NEW g \in Flags, NEW x \in Byte
  PROVE  LET b == ArrBinary(g, x)
             r == ArrDecimalNmos(g, x)
         IN  /\ r.f = [b.f EXCEPT !.c = (2 * High(x) >= 10)]
             /\ Low(r.a) = (IF 2 * Low(x) >= 10 THEN Low(Low(b.a) + 6) ELSE Low(b.a))
             /\ High(r.a) = (IF 2 * High(x) >= 10 THEN Low(High(b.a) + 6) ELSE High(b.a))
<1> DEFINE b    == ArrBinary(g, x)
           low  == IF Low(x) + (x % 2) > 5 THEN Low(b.a + 6) ELSE Low(b.a)
           mid  == 16 * High(b.a) + low
           over == 16 * High(x) + 16 * (High(x) % 2) > 80
           r    == IF over THEN (mid + 96) % 256 ELSE mid
           h    == [b.f EXCEPT !.c = over]
<1>1. ArrDecimalNmos(g, x) = [a |-> r, f |-> h]
  BY DEF ArrDecimalNmos
<1>2. ArrDecimalNmos(g, x).a = r /\ ArrDecimalNmos(g, x).f = h
  <2> HIDE DEF r, h
  <2> QED BY <1>1
<1>3. over = (2 * High(x) >= 10)
  <2>1. PICK p \in 0..15 : p = High(x)
    BY Nibbles
  <2>2. (16 * p + 16 * (p % 2) > 80) = (2 * p >= 10)
    OBVIOUS
  <2> QED
    BY <2>1, <2>2, Zenon
<1>4. (Low(x) + (x % 2) > 5) = (2 * Low(x) >= 10)
  <2>1. PICK d \in 0..15 : d = Low(x)
    BY Nibbles
  <2>2. x % 2 = d % 2
    BY <2>1 DEF Low, Byte
  <2>3. (d + (d % 2) > 5) = (2 * d >= 10)
    OBVIOUS
  <2> QED
    BY <2>1, <2>2, <2>3, Zenon
<1>5. b.a \in Byte
  BY ArrOutcome
<1>6. PICK p \in 0..15, q \in 0..15 : p = High(b.a) /\ q = Low(b.a)
  <2> HIDE DEF b
  <2> QED BY <1>5, Nibbles
<1>7. Low(b.a + 6) = Low(q + 6)
  <2> HIDE DEF b
  <2> QED BY <1>5, <1>6 DEF Low, Byte
<1>8. low = (IF 2 * Low(x) >= 10 THEN Low(q + 6) ELSE q)
  <2> HIDE DEF b
  <2> QED BY <1>4, <1>6, <1>7, Zenon
<1>9. low \in 0..15
  <2> HIDE DEF b
  <2> QED BY <1>8 DEF Low
<1>10. mid = 16 * p + low
  <2> HIDE DEF b, low
  <2> QED BY <1>6, Zenon
<1>11. r = (IF over THEN 16 * Low(p + 6) + low ELSE 16 * p + low)
  <2>1. (16 * p + low + 96) % 256 = 16 * ((p + 6) % 16) + low
    <3> HIDE DEF low
    <3> QED BY <1>9
  <2> HIDE DEF mid, over, low
  <2> QED BY <1>10, <2>1, Zenon DEF Low
<1>12. Low(p + 6) \in 0..15
  BY DEF Low
<1>13. PICK t \in 0..15 : t = IF over THEN Low(p + 6) ELSE p
  <2> HIDE DEF over
  <2> QED BY <1>12
<1>14. r = 16 * t + low
  <2> HIDE DEF over, low, r
  <2> QED BY <1>11, <1>13
<1>15. Low(r) = low /\ High(r) = t
  <2> HIDE DEF low, r
  <2> QED BY <1>9, <1>14 DEF Low, High
<1>16. /\ Low(r) = (IF 2 * Low(x) >= 10 THEN Low(Low(b.a) + 6) ELSE Low(b.a))
       /\ High(r) = (IF 2 * High(x) >= 10 THEN Low(High(b.a) + 6) ELSE High(b.a))
  <2> HIDE DEF b, low, over, r
  <2> QED BY <1>3, <1>6, <1>8, <1>13, <1>15, Zenon
<1>17. h = [b.f EXCEPT !.c = (2 * High(x) >= 10)]
  <2> HIDE DEF b, over
  <2> QED BY <1>3, Zenon
<1> HIDE DEF r, h
<1> QED
  BY <1>2, <1>16, <1>17, Zenon

LEMMA ArrOfAnyByte ==
  ASSUME a \in Byte, f \in Flags
  PROVE  ArrUsesTheAdder
<1> DEFINE doubled == AdcBinary(a, a, [f EXCEPT !.c = FALSE])
           binary  == ArrBinary(f, a)
           decimal == ArrDecimalNmos(f, a)
           sum     == a + a + 0
           r       == Halved(a, Carry(f))
<1>1. PICK g \in Flags : g = [f EXCEPT !.c = FALSE] /\ Carry(g) = 0
  <2>1. [f EXCEPT !.c = FALSE] \in Flags /\ [f EXCEPT !.c = FALSE].c = FALSE
    BY DEF Flags
  <2>2. Carry([f EXCEPT !.c = FALSE]) = 0
    BY <2>1 DEF Carry
  <2> QED
    BY <2>1, <2>2
<1>2. /\ doubled.a = sum % 256
      /\ Has(doubled.f, Negative(sum % 256), SumOverflows(a, a, sum % 256), g.d,
             sum % 256 = 0, sum > 255)
  <2>1. /\ AdcBinary(a, a, g).a = (a + a + Carry(g)) % 256
        /\ Has(AdcBinary(a, a, g).f, Negative((a + a + Carry(g)) % 256),
               SumOverflows(a, a, (a + a + Carry(g)) % 256), g.d,
               (a + a + Carry(g)) % 256 = 0, a + a + Carry(g) > 255)
    BY AdcBinaryParts
  <2> QED
    BY <1>1, <2>1, Zenon
<1>3. Has(binary.f, Negative(r), Bit(r, 64) # Bit(r, 32), f.d, r = 0, Bit(r, 64))
  BY ArrBinaryParts, Zenon
<1>4. Bit(r, 64) = (sum > 255) /\ (Bit(r, 64) # Bit(r, 32)) = SumOverflows(a, a, sum % 256)
  <2>1. Carry(f) \in 0..1
    BY DEF Carry
  <2> QED
    BY <2>1, DoubledBits
<1>5. binary.f.c = doubled.f.c /\ binary.f.v = doubled.f.v
  <2> HIDE DEF binary, doubled, sum, r
  <2>1. binary.f.c = Bit(r, 64) /\ binary.f.v = (Bit(r, 64) # Bit(r, 32))
    BY <1>3, Zenon DEF Has
  <2>2. doubled.f.c = (sum > 255) /\ doubled.f.v = SumOverflows(a, a, sum % 256)
    BY <1>2, Zenon DEF Has
  <2> QED
    BY <1>4, <2>1, <2>2, Zenon
<1>6. /\ decimal.f = [binary.f EXCEPT !.c = (2 * High(a) >= 10)]
      /\ Low(decimal.a) = (IF 2 * Low(a) >= 10 THEN Low(Low(binary.a) + 6) ELSE Low(binary.a))
      /\ High(decimal.a) = (IF 2 * High(a) >= 10 THEN Low(High(binary.a) + 6) ELSE High(binary.a))
  BY ArrDigits, Zenon
<1> QED
  BY <1>5, <1>6, Zenon DEF ArrUsesTheAdder

-----------------------------------------------------------------------------
(* The state machine. *)

\* What the history variable promises is the answer for the operand in the latch.
OwedForLatch ==
  owed # NoAnswer /\ phase # "operand" =>
    /\ a \in Packed /\ latch \in Packed
    /\ phase = "adc_dec" => owed = Number(a) + Number(latch) + Carry(f)
    /\ phase = "sbc_dec" => owed = 99 + Number(a) - Number(latch) + Carry(f)

IInv == TypeOK /\ OwedForLatch

LEMMA SumRange ==
  ASSUME NEW p \in 0..99, NEW q \in 0..99, NEW c \in 0..1
  PROVE  p + q + c \in 0..199 /\ 99 + p - q + c \in 0..199
OBVIOUS

LEMMA AnswerRange ==
  ASSUME NEW x \in Packed, NEW v \in Packed, NEW g \in Flags
  PROVE  /\ Number(x) + Number(v) + Carry(g) \in 0..199
         /\ 99 + Number(x) - Number(v) + Carry(g) \in 0..199
<1>1. Carry(g) \in 0..1
  BY DEF Carry
<1>2. Number(x) \in 0..99 /\ Number(v) \in 0..99
  BY Digits DEF Number
<1> QED
  BY <1>1, <1>2, SumRange

\* An instruction that leaves a byte and flags keeps the invariant.
LEMMA BecomesKeeps ==
  ASSUME IInv, phase = "operand", NEW r, r.a \in Byte, r.f \in Flags, Becomes(r)
  PROVE  IInv'
BY DEF IInv, TypeOK, OwedForLatch, Becomes

LEMMA LoadsKeeps ==
  ASSUME IInv, phase = "operand", NEW r \in Byte, Loads(r)
  PROVE  IInv'
<1>1. NZ(f, r) \in Flags
  BY FlagUpdates DEF IInv, TypeOK
<1> DEFINE s == [a |-> r, f |-> NZ(f, r)]
<1>2. s.a \in Byte /\ s.f \in Flags /\ Becomes(s)
  BY <1>1 DEF Loads
<1> HIDE DEF s
<1> QED
  BY <1>2, BecomesKeeps

LEMMA AdcSbcOutcome ==
  ASSUME NEW v \in Byte, NEW g \in Flags, a \in Byte
  PROVE  /\ AdcValue(v, g).a \in Byte /\ AdcValue(v, g).f \in Flags
         /\ SbcValue(v, g).a \in Byte /\ SbcValue(v, g).f \in Flags
BY AdcBinaryOutcome, SbcBinaryOutcome, AdcDecimalNmosOutcome, SbcDecimalNmosOutcome
   DEF AdcValue, SbcValue

\* The operand tick leaves a promise for the operand it latches.
LEMMA LatchKeeps ==
  ASSUME IInv, phase = "operand", TakesDecimalCycle, NEW v \in Byte,
         NEW handler \in {"adc_dec", "sbc_dec"}, NEW answer,
         LatchOperand(v, handler, answer),
         handler = "adc_dec" => answer = Number(a) + Number(v) + Carry(f),
         handler = "sbc_dec" => answer = 99 + Number(a) - Number(v) + Carry(f)
  PROVE  IInv'
<1>1. /\ latch' = v /\ phase' = handler /\ a' = a /\ f' = f /\ model' = model
      /\ owed' = IF {a, v} \subseteq Packed THEN answer ELSE NoAnswer
  BY DEF LatchOperand
<1>2. CASE {a, v} \subseteq Packed
  <2>1. a \in Packed /\ v \in Packed /\ owed' = answer
    BY <1>1, <1>2
  <2>2. answer \in 0..199
    BY <2>1, AnswerRange DEF IInv, TypeOK
  <2> QED
    BY <1>1, <2>1, <2>2
    DEF IInv, TypeOK, OwedForLatch, TakesDecimalCycle, NoAnswer, Carry
<1>3. CASE ~({a, v} \subseteq Packed)
  BY <1>1, <1>3 DEF IInv, TypeOK, OwedForLatch, TakesDecimalCycle, NoAnswer
<1> QED
  BY <1>2, <1>3

LEMMA DecimalTickKeeps ==
  ASSUME IInv, NEW handler, NEW r, r.a \in Byte, r.f \in Flags, DecimalTick(handler, r)
  PROVE  IInv'
BY DEF IInv, TypeOK, OwedForLatch, DecimalTick, NoAnswer

LEMMA InitEstablishes == Init => IInv
BY OperandsAssumption DEF Init, IInv, TypeOK, OwedForLatch, NoAnswer, Flags, Byte

LEMMA NextKeeps ==
  ASSUME IInv, [Next]_vars
  PROVE  IInv'
<1>1. a \in Byte /\ f \in Flags /\ latch \in Byte
  BY DEF IInv, TypeOK
<1>2. ASSUME NEW v \in Operands, Adc(v)
      PROVE  IInv'
  <2>1. v \in Byte /\ phase = "operand"
    BY <1>2, OperandsAssumption DEF Adc, Runs
  <2>2. CASE TakesDecimalCycle
    BY <1>2, <2>1, <2>2, LatchKeeps DEF Adc
  <2>3. CASE ~TakesDecimalCycle
    BY <1>1, <1>2, <2>1, <2>3, AdcSbcOutcome, BecomesKeeps DEF Adc
  <2> QED
    BY <2>2, <2>3
<1>3. ASSUME NEW v \in Operands, Sbc(v)
      PROVE  IInv'
  <2>1. v \in Byte /\ phase = "operand"
    BY <1>3, OperandsAssumption DEF Sbc, Runs
  <2>2. CASE TakesDecimalCycle
    BY <1>3, <2>1, <2>2, LatchKeeps DEF Sbc
  <2>3. CASE ~TakesDecimalCycle
    BY <1>1, <1>3, <2>1, <2>3, AdcSbcOutcome, BecomesKeeps DEF Sbc
  <2> QED
    BY <2>2, <2>3
<1>4. ASSUME NEW v \in Operands, AdcDecimal(v) \/ SbcDecimal(v)
      PROVE  IInv'
  BY <1>1, <1>4, AdcDecimalCmosOutcome, SbcDecimalCmosOutcome, DecimalTickKeeps
  DEF AdcDecimal, SbcDecimal
<1>5. ASSUME NEW v \in Operands, Lda(v) \/ Logic(v)
      PROVE  IInv'
  <2>1. v \in Byte
    BY OperandsAssumption
  <2>2. And(a, v) \in Byte /\ Or(a, v) \in Byte /\ Xor(a, v) \in Byte
    BY <1>1, <2>1, BitwiseRange
  <2>3. PICK r \in {v, And(a, v), Or(a, v), Xor(a, v)} : Loads(r)
    BY <1>5 DEF Lda, Logic
  <2> QED
    BY <1>5, <2>1, <2>2, <2>3, LoadsKeeps DEF Lda, Logic, Runs
<1>6. ASSUME NEW v \in Operands, Cmp(v)
      PROVE  IInv'
  <2> DEFINE r == (a - v) % 256
             carry == a >= v
             g == NZC(f, r, carry)
  <2>1. g \in Flags
    <3>1. carry \in BOOLEAN
      OBVIOUS
    <3> HIDE DEF r, carry
    <3> QED BY <1>1, <3>1, FlagUpdates
  <2>2. Becomes([a |-> a, f |-> g]) /\ phase = "operand"
    BY <1>6 DEF Cmp, Compare, Runs
  <2> HIDE DEF g
  <2> QED
    BY <1>1, <2>1, <2>2, BecomesKeeps
<1>7. CASE Shift
  <2>1. PICK s \in {AslValue(f, a), LsrValue(f, a), RolValue(f, a), RorValue(f, a)} : Shifts(s)
    BY <1>7 DEF Shift
  <2>2. s.r \in Byte /\ s.f \in Flags
    BY <1>1, <2>1, ShiftRange
  <2> QED
    BY <1>7, <2>1, <2>2, BecomesKeeps DEF Shift, Shifts, Runs
<1>8. ASSUME NEW v \in Operands, Arr(v)
      PROVE  IInv'
  <2>1. And(a, v) \in Byte
    BY <1>1, OperandsAssumption, BitwiseRange
  <2> QED
    BY <1>1, <1>8, <2>1, ArrOutcome, BecomesKeeps DEF Arr, Runs
<1>9. ASSUME NEW v \in Operands, Rra(v)
      PROVE  IInv'
  <2>1. RorValue(f, v).r \in Byte /\ RorValue(f, v).f \in Flags
    BY <1>1, OperandsAssumption, ShiftRange
  <2> QED
    BY <1>1, <1>9, <2>1, AdcSbcOutcome, BecomesKeeps DEF Rra, Runs
<1>10. ASSUME NEW v \in Operands, Isc(v)
       PROVE  IInv'
  <2>1. (v + 1) % 256 \in Byte
    BY OperandsAssumption DEF Byte
  <2> QED
    BY <1>1, <1>10, <2>1, AdcSbcOutcome, BecomesKeeps DEF Isc, Runs
<1>11. CASE SetFlags
  <2>1. PICK bit \in BOOLEAN :
          \E g \in {[f EXCEPT !.c = bit], [f EXCEPT !.d = bit], [f EXCEPT !.v = FALSE]} :
            Becomes([a |-> a, f |-> g])
    BY <1>11 DEF SetFlags
  <2>2. PICK g \in {[f EXCEPT !.c = bit], [f EXCEPT !.d = bit], [f EXCEPT !.v = FALSE]} :
          Becomes([a |-> a, f |-> g])
    BY <2>1
  <2>3. g \in Flags
    BY <1>1, <2>2 DEF Flags
  <2> QED
    BY <1>1, <1>11, <2>2, <2>3, BecomesKeeps DEF SetFlags, Runs
<1>12. ASSUME NEW v \in Operands, Plp(v)
       PROVE  IInv'
  <2> DEFINE g == [n |-> Bit(v, 128), v |-> Bit(v, 64), d |-> Bit(v, 8),
                   z |-> Bit(v, 2), c |-> Bit(v, 1)]
  <2>1. g \in Flags
    BY DEF Flags, Bit
  <2>2. Becomes([a |-> a, f |-> g]) /\ phase = "operand"
    BY <1>12 DEF Plp, Runs
  <2> HIDE DEF g
  <2> QED
    BY <1>1, <2>1, <2>2, BecomesKeeps
<1>13. CASE UNCHANGED vars
  BY <1>13 DEF IInv, TypeOK, OwedForLatch, Carry, vars
<1> QED
  BY <1>2, <1>3, <1>4, <1>5, <1>6, <1>7, <1>8, <1>9, <1>10, <1>11, <1>12, <1>13 DEF Next

LEMMA Invariance == Spec => []IInv
<1>1. IInv /\ [Next]_vars => IInv'
  BY NextKeeps
<1> QED
  BY <1>1, InitEstablishes, PTL DEF Spec

\* Whatever the program and the bytes on the bus, A stays a byte and the flags
\* stay bits (qe6502.c 129-411), and only a CMOS CPU in decimal mode waits
\* with an operand in its latch.
THEOREM ResultsAreBytes == Spec => []TypeOK
<1>1. IInv => TypeOK
  BY DEF IInv
<1> QED
  BY <1>1, Invariance, PTL

\* For every accumulator and flags any program reaches, and every operand: binary
\* ADC and SBC (qe6502.c 232-247, 331-341) leave the unsigned sum or difference in
\* A and C, V says whether the signed one fits, and N # V is its sign.
THEOREM IntegersAreAdded == Spec => []SignedArithmetic
<1>1. IInv => SignedArithmetic
  BY SumIsSigned, OperandsAssumption, Zenon DEF IInv, TypeOK, SignedArithmetic
<1> QED
  BY <1>1, Invariance, PTL

\* The decimal operators of both families (qe6502.c 249-329, 343-409) compute
\* with decimal numbers, for every pair of them and both carries.
THEOREM DecimalNumbersAreAdded == Spec => []DecimalArithmetic
<1>1. IInv => DecimalArithmetic
  BY NumbersAreAdded DEF IInv, TypeOK
<1> QED
  BY <1>1, Invariance, PTL

\* On bytes that are no decimal numbers, both families' sums adjust each digit
\* once, from the low one, and differ only in the flags that they describe.
THEOREM SumsOfAllBytes == Spec => []DecimalSumOfAnyBytes
<1>1. IInv => DecimalSumOfAnyBytes
  BY SumOfAnyBytes DEF IInv, TypeOK
<1> QED
  BY <1>1, Invariance, PTL

\* On bytes that are no decimal numbers, NMOS differences adjust digit by digit
\* and CMOS ones the binary difference, with the flags of binary subtraction.
THEOREM DifferencesOfAllBytes == Spec => []DecimalDifferenceOfAnyBytes
<1>1. IInv => DecimalDifferenceOfAnyBytes
  BY DifferenceOfAnyBytes DEF IInv, TypeOK
<1> QED
  BY <1>1, Invariance, PTL

\* The illegal ARR (qe6502.c 185-230) leaves the adder's flags and digits that
\* are adjusted alone, for every operand.
THEOREM ArrIsTheAdder == Spec => []ArrUsesTheAdder
<1>1. IInv => ArrUsesTheAdder
  BY ArrOfAnyByte DEF IInv, TypeOK
<1> QED
  BY <1>1, Invariance, PTL

\* For all decimal operands, not only those a run tries, the second tick of a
\* CMOS decimal instruction (qe6502.c 1294-1300, 1512-1518) gives the answer
\* that A, the carry and the operand had when the operand arrived.
THEOREM LatchedOperandIsAnswered == Spec => DecimalAnswer
<1> DEFINE Step == phase # "operand" =>
                     /\ phase' = "operand"
                     /\ owed # NoAnswer => Total(f'.c, a') = owed
<1>1. ASSUME IInv, [Next]_vars
      PROVE  [Step]_vars
  <2> SUFFICES ASSUME Next, phase # "operand"
               PROVE  /\ phase' = "operand"
                      /\ owed # NoAnswer => Total(f'.c, a') = owed
    BY <1>1
  <2>1. PICK v \in Operands : AdcDecimal(v) \/ SbcDecimal(v)
    BY DEF Next, Adc, Sbc, Lda, Logic, Cmp, Arr, Rra, Isc, Plp, Shift, SetFlags, Runs
  <2>2. f \in Flags
    BY <1>1 DEF IInv, TypeOK
  <2>3. CASE AdcDecimal(v)
    BY <1>1, <2>2, <2>3, AdcDecimalCmosAnswer
    DEF AdcDecimal, DecimalTick, IInv, OwedForLatch
  <2>4. CASE SbcDecimal(v)
    BY <1>1, <2>2, <2>4, SbcDecimalCmosAnswer
    DEF SbcDecimal, DecimalTick, IInv, OwedForLatch
  <2> QED
    BY <2>1, <2>3, <2>4
<1> QED
  BY <1>1, Invariance, PTL DEF Spec, DecimalAnswer
=============================================================================
