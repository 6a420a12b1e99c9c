--------------------------- MODULE Ieee754Binary ---------------------------
(***************************************************************************)
(* zisc/ieee_754_binary-inl.hpp and its two implementations: the software  *)
(* one works on the bits (internal/ieee_754_binary_software_impl-inl.hpp)  *)
(* and computes in the next wider format of the machine, the hardware one  *)
(* (internal/ieee_754_binary_hardware_impl-inl.hpp) leaves everything to   *)
(* the machine.                                                            *)
(***************************************************************************)
EXTENDS MachineFloat

CONSTANTS
  Narrow,  \* the format of the library's own arithmetic (kHalf)
  Wide     \* the format that the machine computes in (kSingle)
ASSUME BinaryAssumption ==
  /\ \A F \in {Narrow, Wide} : F.exp \in Nat \ {0, 1} /\ F.sig \in Nat \ {0, 1}
  /\ Wide.exp > Narrow.exp /\ Wide.sig >= 2 * Narrow.sig + 3

VARIABLE binary  \* the call that was made: its name, its two arguments and its result

binaryVars == <<binary>>

-----------------------------------------------------------------------------
(* Conversion in software                                                  *)

\* MUTANT: a tie is rounded away from zero.
RoundTiesUp(F, bits, trailing) ==
  IF 2 ^ (F.exp + F.sig) <= trailing THEN bits + 1 ELSE bits
\* round(): trailing is an integer of the width of F whose top bit is a half.
Round(F, bits, trailing) ==
  LET middle == 2 ^ (F.exp + F.sig)
  IN IF middle < trailing \/ (trailing = middle /\ bits % 2 = 1) THEN bits + 1 ELSE bits

\* scaledDown() of a normal or a subnormal value, without its sign.
DownFinite(F, G, x) ==
  LET lower == exponentBias(F) + 1 - exponentBias(G)
      upper == exponentBias(F) + 1 + exponentBias(G)
      exp == getBiasedExponent(F, x)
      real == getRealSignificandBits(F, x)
      shift == IF exp < lower THEN lower - exp ELSE 0
      diff == F.sig - G.sig
      Trailing(bits) == getSignificandBits(F, bits) * 2 ^ (1 + F.exp)
      bits == (IF shift > 0 THEN 0 ELSE (exp - lower + 1) * implicitBit(G))
              + getSignificandBits(F, real \div 2 ^ shift) \div 2 ^ diff
  IN IF exp >= upper THEN infinity(G)
     ELSE IF shift <= G.sig THEN Round(F, bits, Trailing(real * 2 ^ (G.sig - shift)))
     ELSE IF shift - G.sig <= F.sig THEN Round(F, 0, Trailing(real \div 2 ^ (shift - G.sig)))
     ELSE 0

scaledDown(F, G, x) ==
  SignOf(F, x, G, IF isNormal(F, x) \/ isSubnormal(F, x) THEN DownFinite(F, G, x)
                                                         ELSE convertSpecialValue(F, G, x))

BitWidth(n) == Min({w \in 0..30 : n < 2 ^ w})

\* scaledUp() of a normal or a subnormal value, without its sign: the leading
\* bit of a subnormal significand becomes the implicit bit.
UpFinite(F, G, x) ==
  LET exp == getBiasedExponent(F, x) + (exponentBias(G) - exponentBias(F))
      sig == getSignificandBits(F, x) * 2 ^ (G.sig - F.sig)
      lift == BitWidth(implicitBit(G)) - BitWidth(sig)
  IN IF isNormal(F, x) THEN exp * implicitBit(G) + sig
     ELSE (1 + exp - lift) * implicitBit(G) + getSignificandBits(G, sig * 2 ^ lift)

scaledUp(F, G, x) ==
  SignOf(F, x, G, IF isNormal(F, x) \/ isSubnormal(F, x) THEN UpFinite(F, G, x)
                                                         ELSE convertSpecialValue(F, G, x))

\* convertTo(), as the conversion operators of Ieee754Binary call it.
convertTo(F, G, x) ==
  CASE F = G -> x
    [] F.exp + F.sig > G.exp + G.sig -> scaledDown(F, G, x)
    [] OTHER -> scaledUp(F, G, x)

-----------------------------------------------------------------------------
(* The operators of the software implementation                            *)

\* MUTANT: doOperation in the narrow format itself, the result cut off.
doOperationCut(op, x, y) ==
  LET z == HardOperation(op, Wide, convertTo(Narrow, Wide, x), convertTo(Narrow, Wide, y))
  IN convertTo(Wide, Narrow, z - (z % 2 ^ (Wide.sig - Narrow.sig)))
\* doOperation() of kHalf: the machine computes in kSingle.
doOperation(op, x, y) ==
  convertTo(Wide, Narrow,
            HardOperation(op, Wide, convertTo(Narrow, Wide, x), convertTo(Narrow, Wide, y)))

SoftEqual(F, x, y) == ~(isNan(F, x) \/ isNan(F, y)) /\ getSigned(F, x) = getSigned(F, y)
SoftLess(F, x, y) == ~(isNan(F, x) \/ isNan(F, y)) /\ getSigned(F, x) < getSigned(F, y)
SoftLessEqual(F, x, y) == ~(isNan(F, x) \/ isNan(F, y)) /\ getSigned(F, x) <= getSigned(F, y)
SoftCompare(op, F, x, y) ==
  CASE op = "==" -> SoftEqual(F, x, y)
    [] op = "!=" -> ~SoftEqual(F, x, y)
    [] op = "<" -> SoftLess(F, x, y)
    [] op = "<=" -> SoftLessEqual(F, x, y)
    [] op = ">" -> SoftLess(F, y, x)
    [] op = ">=" -> SoftLessEqual(F, y, x)

(* Ieee754Binary: the members pass on to the implementation of the build.   *)
\* The conversion operators.
Cast(impl, F, G, x) == IF F = G THEN x
                       ELSE IF impl = "software" THEN convertTo(F, G, x) ELSE HardConvert(F, G, x)
\* Sums, differences, products and quotients of kHalf.
Arithmetic(impl, op, x, y) ==
  IF impl = "software" THEN doOperation(op, x, y) ELSE HardOperation(op, Narrow, x, y)
Comparison(impl, op, F, x, y) ==
  IF impl = "software" THEN SoftCompare(op, F, x, y) ELSE HardCompare(op, F, x, y)

\* The classification of the overloads for std::floating_point: by comparison
\* with the limits.
lowest(F) == negateBits(F, maximum(F))
Absolute(F, x) == IF SoftCompare("<", F, x, 0) THEN negateBits(F, x) ELSE x
ClassOf(F, x) ==
  LET Le(a, b) == SoftCompare("<=", F, a, b)
      d == Absolute(F, x)
      finite == Le(lowest(F), x) /\ Le(x, maximum(F))
      inf == SoftCompare("==", F, d, infinity(F))
  IN [finite |-> finite, inf |-> inf, nan |-> ~(finite \/ inf),
      normal |-> Le(minimum(F), d) /\ Le(d, maximum(F)),
      subnormal |-> SoftCompare("<", F, 0, d) /\ SoftCompare("<", F, d, minimum(F))]
\* The member functions of Ieee754Binary, and the class numeric_limits.
ClassBits(F, x) ==
  [finite |-> isFinite(F, x), inf |-> isInf(F, x), nan |-> isNan(F, x),
   normal |-> isNormal(F, x), subnormal |-> isSubnormal(F, x)]

limits(F) ==
  [min |-> minimum(F), lowest |-> lowest(F), max |-> maximum(F), epsilon |-> epsilon(F),
   round_error |-> roundError(F), infinity |-> infinity(F), quiet_NaN |-> quietNan(F),
   signaling_NaN |-> signalingNan(F), denorm_min |-> 1]

-----------------------------------------------------------------------------
Orders == {"==", "!=", "<", "<=", ">", ">="}

NoBinary == <<"none">>
binaryInit == binary = NoBinary

Done(op, x, y, result) == binary' = <<op, x, y, result>>

Shrink == \E x \in Patterns(Wide) : Done("shrink", x, 0, Cast("software", Wide, Narrow, x))
Grow == \E x \in Patterns(Narrow) : Done("grow", x, 0, Cast("software", Narrow, Wide, x))
Calculate == \E op \in {"+", "-", "*", "/"}, x, y \in Patterns(Narrow) :
  Done(op, x, y, Arithmetic("software", op, x, y))
Compare == \E op \in Orders, x, y \in Patterns(Narrow) :
  Done(op, x, y, Comparison("software", op, Narrow, x, y))
Classify == \E x \in Patterns(Wide) : Done("class", x, 0, ClassBits(Wide, x))

binaryNext == binary = NoBinary /\ (Shrink \/ Grow \/ Calculate \/ Compare \/ Classify)
binarySpec == binaryInit /\ [][binaryNext]_binaryVars

-----------------------------------------------------------------------------
(* Properties                                                              *)

Same(F, x, y) == x = y \/ (isNan(F, x) /\ isNan(F, y))

\* A value that is more than half of the smallest subnormal of the narrow
\* format by less than the last bit of its own significand.
JustAboveHalf(x) == getSignificandExponentBits(Wide, x) =
  (exponentBias(Wide) - exponentBias(Narrow) - Narrow.sig) * implicitBit(Wide) + 1

\* Every conversion gives the bits that the machine gives: the nearest value,
\* ties to even, over the whole range of normal, subnormal, infinite and
\* undefined values, with the sign of zero; the values just above the tie
\* between zero and the smallest subnormal are the exception.
ConversionsAgree ==
  /\ binary[1] = "shrink" /\ ~JustAboveHalf(binary[2]) =>
       Same(Narrow, binary[4], Cast("hardware", Wide, Narrow, binary[2]))
  /\ binary[1] = "grow" =>
       /\ Same(Wide, binary[4], Cast("hardware", Narrow, Wide, binary[2]))
       /\ Same(Narrow, convertTo(Wide, Narrow, binary[4]), binary[2])

\* The comment in round(): "Rounding to nearest, tie-break rule is 'nearest
\* even'", for every value that is converted.
RoundsToNearest == binary[1] = "shrink" =>
  Same(Narrow, binary[4], Cast("hardware", Wide, Narrow, binary[2]))

\* The detour over the wide format rounds twice, and still every sum,
\* difference, product and quotient is the exact one rounded once; and the
\* comparisons of the bits order the values, with no order for a NaN and one
\* zero.
OperationsAgree ==
  /\ binary[1] \in {"+", "-", "*", "/"} =>
       Same(Narrow, binary[4], Arithmetic("hardware", binary[1], binary[2], binary[3]))
  /\ binary[1] \in Orders =>
       binary[4] = Comparison("hardware", binary[1], Narrow, binary[2], binary[3])

\* The two families of classification functions, by the bits and by
\* comparison with the limits, agree on every value; and the limits are what
\* they are named: no finite value lies outside of lowest and max, no positive
\* one below denorm_min, no normal one below min, none between one and one plus
\* epsilon, and the rounding error is half a unit.
ClassesAgree == binary[1] = "class" =>
  LET x == binary[2]
      L == limits(Wide)
      Le(a, b) == HardCompare("<=", Wide, a, b)
      positive == HardCompare("<", Wide, 0, x)
  IN /\ binary[4] = ClassOf(Wide, x)
     /\ isFinite(Wide, x) => Le(L.lowest, x) /\ Le(x, L.max)
     /\ positive => Le(L.denorm_min, x) /\ (isNormal(Wide, x) <=> Le(L.min, x) /\ x # L.infinity)
     /\ HardCompare("<", Wide, one(Wide), x) => Le(HardAdd(Wide, one(Wide), L.epsilon), x)
     /\ HardAdd(Wide, L.round_error, L.round_error) = one(Wide)
     /\ L.quiet_NaN # L.signaling_NaN /\ isNan(Wide, L.quiet_NaN) /\ isNan(Wide, L.signaling_NaN)
=============================================================================
