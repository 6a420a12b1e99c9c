---------------------------- MODULE MachineFloat ----------------------------
(***************************************************************************)
(* Binary floating point numbers: the fields of the bits, as zisc reads    *)
(* them (internal/ieee_754_binary_software_impl-inl.hpp), and the          *)
(* operations of the machine, modelled by what IEEE 754 prescribes: the    *)
(* exact result, rounded to the nearest value, ties to even.               *)
(*                                                                         *)
(* A format is the number of its exponent bits and of its significand      *)
(* bits, a value is the number that its bits encode.                       *)
(***************************************************************************)
EXTENDS Integers, FiniteSetsExt

-----------------------------------------------------------------------------
(* The fields of the bits                                                  *)

implicitBit(F) == 2 ^ F.sig
signBitMask(F) == 2 ^ (F.exp + F.sig)
exponentBitMask(F) == (2 ^ F.exp - 1) * implicitBit(F)
exponentBias(F) == 2 ^ (F.exp - 1) - 1
Patterns(F) == 0..(2 * signBitMask(F) - 1)

isNegative(F, x) == x >= signBitMask(F)
getSignificandBits(F, x) == x % implicitBit(F)
getSignificandExponentBits(F, x) == x % signBitMask(F)
getBiasedExponent(F, x) == getSignificandExponentBits(F, x) \div implicitBit(F)
getExponent(F, x) == getBiasedExponent(F, x) - exponentBias(F)
getRealSignificandBits(F, x) == implicitBit(F) + getSignificandBits(F, x)
\* getSigned: sign and magnitude to two's complement; both zeros become 0.
getSigned(F, x) == IF isNegative(F, x) THEN -getSignificandExponentBits(F, x) ELSE x
negateBits(F, x) == (x + signBitMask(F)) % (2 * signBitMask(F))
SignOf(F, x, G, y) == IF isNegative(F, x) THEN negateBits(G, y) ELSE y

isFinite(F, x) == getBiasedExponent(F, x) # 2 ^ F.exp - 1
isInf(F, x) == getSignificandExponentBits(F, x) = exponentBitMask(F)
isNan(F, x) == getSignificandExponentBits(F, x) > exponentBitMask(F)
isNormal(F, x) == 0 < getBiasedExponent(F, x) /\ isFinite(F, x)
isSubnormal(F, x) == getSignificandExponentBits(F, x) \in 1..(implicitBit(F) - 1)
isZero(F, x) == getSignificandExponentBits(F, x) = 0

epsilon(F) == (exponentBias(F) - F.sig) * implicitBit(F)
infinity(F) == exponentBitMask(F)
minimum(F) == implicitBit(F)
\* MUTANT: the largest value of the largest but one exponent.
maximumLow(F) == exponentBitMask(F) - implicitBit(F)
maximum(F) == (exponentBitMask(F) - minimum(F)) + (implicitBit(F) - 1)
one(F) == exponentBias(F) * implicitBit(F)
quietNan(F) == exponentBitMask(F) + 2 ^ (F.sig - 1)
signalingNan(F) == exponentBitMask(F) + 2 ^ (F.sig - 2)
roundError(F) == (exponentBias(F) - 1) * implicitBit(F)

convertSpecialValue(F, G, x) ==
  IF isNan(F, x) THEN quietNan(G) ELSE IF isInf(F, x) THEN infinity(G) ELSE 0

-----------------------------------------------------------------------------
(* The machine: exact results, rounded to nearest even.  Magnitudes are in *)
(* units of the smallest subnormal, 2 ^ Unit(F).                           *)

Unit(F) == 1 - exponentBias(F) - F.sig
Scale(F, x) == IF isNormal(F, x) THEN getBiasedExponent(F, x) - 1 ELSE 0
Digits(F, x) == getSignificandBits(F, x) + IF isNormal(F, x) THEN implicitBit(F) ELSE 0
Magnitude(F, x) == Digits(F, x) * 2 ^ Scale(F, x)

\* The value as a multiple of the smallest subnormal.
NumberOf(F, x) == (IF isNegative(F, x) THEN -1 ELSE 1) * Magnitude(F, x)

\* The bits of the value nearest to num / den: the scale leaves as many digits
\* as there are, a unit is the value of the last of them.
ScaleOf(F, whole) ==
  CHOOSE s \in 0..(2 ^ F.exp - 2) :
    /\ s = 0 \/ 2 ^ (s + F.sig) <= whole
    /\ s = 2 ^ F.exp - 2 \/ whole < 2 ^ (s + F.sig + 1)
TieToEven(bits, twice, unit) ==
  IF twice > unit \/ (twice = unit /\ bits % 2 = 1) THEN bits + 1 ELSE bits
NearestAt(F, scale, num, unit) ==
  Min({TieToEven(scale * implicitBit(F) + num \div unit, 2 * (num % unit), unit), infinity(F)})
Nearest(F, num, den) ==
  LET scale == ScaleOf(F, num \div den) IN NearestAt(F, scale, num, den * 2 ^ scale)

Power(n) == IF n < 0 THEN 1 ELSE 2 ^ n
\* n * 2 ^ shift / d, rounded.
Scaled(F, n, shift, d) == Nearest(F, n * Power(shift), d * Power(-shift))

HardConvert(F, G, x) ==
  SignOf(F, x, G, IF ~isFinite(F, x) THEN convertSpecialValue(F, G, x)
                  ELSE Scaled(G, Magnitude(F, x), Unit(F) - Unit(G), 1))

\* A sum that is not negative is positive, but for that of two negative zeros.
RoundedSum(F, sum, negatives) ==
  Nearest(F, IF sum < 0 THEN -sum ELSE sum, 1)
    + IF sum < 0 \/ (sum = 0 /\ negatives) THEN signBitMask(F) ELSE 0
HardAdd(F, x, y) ==
  CASE isInf(F, x) /\ isInf(F, y) -> IF x = y THEN x ELSE quietNan(F)
    [] isInf(F, x) -> x
    [] isInf(F, y) -> y
    [] OTHER -> RoundedSum(F, NumberOf(F, x) + NumberOf(F, y),
                           isNegative(F, x) /\ isNegative(F, y))

HardMultiply(F, x, y) ==
  LET zero == isZero(F, x) \/ isZero(F, y)
      infinite == isInf(F, x) \/ isInf(F, y)
      bits == IF infinite THEN infinity(F)
              ELSE Scaled(F, Digits(F, x) * Digits(F, y), Scale(F, x) + Scale(F, y) + Unit(F), 1)
  IN IF zero /\ infinite THEN quietNan(F) ELSE SignOf(F, x, F, SignOf(F, y, F, bits))

HardDivide(F, x, y) ==
  LET invalid == (isZero(F, x) /\ isZero(F, y)) \/ (isInf(F, x) /\ isInf(F, y))
      bits == IF isInf(F, x) \/ isZero(F, y) THEN infinity(F)
              ELSE IF isInf(F, y) \/ isZero(F, x) THEN 0
              ELSE Scaled(F, Digits(F, x), Scale(F, x) - Scale(F, y) - Unit(F), Digits(F, y))
  IN IF invalid THEN quietNan(F) ELSE SignOf(F, x, F, SignOf(F, y, F, bits))

HardOperation(op, F, x, y) ==
  CASE isNan(F, x) \/ isNan(F, y) -> quietNan(F)
    [] op \in {"+", "-"} -> HardAdd(F, x, IF op = "+" THEN y ELSE negateBits(F, y))
    [] op = "*" -> HardMultiply(F, x, y)
    [] op = "/" -> HardDivide(F, x, y)

\* The value as a number, infinities beyond every finite one.
Number(F, x) == IF isInf(F, x)
  THEN (IF isNegative(F, x) THEN -1 ELSE 1) * 2 ^ (Scale(F, maximum(F)) + F.sig + 1)
  ELSE NumberOf(F, x)
Compared(op, a, b) ==
  CASE op = "==" -> a = b [] op = "<" -> a < b [] op = "<=" -> a <= b
    [] op = "!=" -> a # b [] op = ">" -> a > b [] op = ">=" -> a >= b
HardCompare(op, F, x, y) ==
  IF isNan(F, x) \/ isNan(F, y) THEN op = "!=" ELSE Compared(op, Number(F, x), Number(F, y))
=============================================================================
