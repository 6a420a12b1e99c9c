----------------------------- MODULE FloatMath -----------------------------
(***************************************************************************)
(* The floating point functions of zisc (math/math-inl.hpp): sums that     *)
(* carry a compensation, numbers held as the sum of a pair of Floats,      *)
(* polynomials in Estrin's form, the decomposition of a number into a      *)
(* significand and a power of two, and the cases of a power.               *)
(*                                                                         *)
(* The functions run on the machine of MachineFloat in small formats: one  *)
(* of an even number of digits, as float has, and one of an odd number, as *)
(* double has.  The polynomials are evaluated with integers.  The          *)
(* logarithm and the exponential themselves are not modelled.              *)
(***************************************************************************)
EXTENDS MachineFloat, Sequences
LOCAL INSTANCE SequencesExt

CONSTANTS
  MathFloats,    \* formats of Float
  PowerFloat,    \* the format of the arguments of pow()
  SubnormalLift, \* log() multiplies a subnormal number by 2 to this power
  LdexpStep      \* the step between the exponents that ldexp() is given

VARIABLES
  computed,  \* the last call: its name, format, arguments and result
  running   \* a running sum: format, terms, total and compensation

mathVars == <<computed, running>>

-----------------------------------------------------------------------------
(* Arithmetic                                                              *)

Plus(F, x, y) == HardOperation("+", F, x, y)
Minus(F, x, y) == HardOperation("-", F, x, y)
Times(F, x, y) == HardOperation("*", F, x, y)
Inverted(F, x) == HardOperation("/", F, one(F), x)
LessThan(F, x, y) == HardCompare("<", F, x, y)
mla(F, x, y, z) == Plus(F, Times(F, x, y), z)

\* A sum is evaluated from left to right.
SumFrom(F, terms) == FoldLeft(LAMBDA a, b : Plus(F, a, b), Head(terms), Tail(terms))
Minuses(F, terms) == [i \in DOMAIN terms |-> negateBits(F, terms[i])]

\* upper(): the number without the lower half of its digits.
upper(F, x) == x - (x % 2 ^ ((F.sig + 2) \div 2))
lower(F, x) == Minus(F, x, upper(F, x))

-----------------------------------------------------------------------------
(* Numbers as pairs.  An operand is the sequence of one or two Floats.     *)

pairAdd(F, x, y) ==
  LET r == Plus(F, x[1], y[1])
  IN <<r, SumFrom(F, <<x[1], negateBits(F, r), y[1]>> \o Tail(x) \o Tail(y))>>

\* What the sum r of a and b has lost, whichever is larger.
LostIn(F, a, b, r, v) == Plus(F, Minus(F, a, Minus(F, r, v)), Minus(F, b, v))
pairAdd2(F, x, y) ==
  LET r == Plus(F, x[1], y[1])
      lost == LostIn(F, x[1], y[1], r, Minus(F, r, x[1]))
      lows == Tail(x) \o Tail(y)
  IN <<r, IF lows = <<>> THEN lost ELSE Plus(F, lost, SumFrom(F, lows))>>

\* The four products of the halves of two numbers.
HighHigh(F, x, y) == Times(F, upper(F, x), upper(F, y))
HighLow(F, x, y) == Times(F, upper(F, x), lower(F, y))
LowHigh(F, x, y) == Times(F, lower(F, x), upper(F, y))
LowLow(F, x, y) == Times(F, lower(F, x), lower(F, y))
CrossTerms(F, x, y) == (IF Len(y) = 2 THEN <<Times(F, x[1], y[2])>> ELSE <<>>)
                       \o (IF Len(x) = 2 THEN <<Times(F, x[2], y[1])>> ELSE <<>>)

pairMul(F, x, y) ==
  LET r == Times(F, x[1], y[1])
  IN <<r, SumFrom(F, <<HighHigh(F, x[1], y[1]), negateBits(F, r), LowHigh(F, x[1], y[1]),
                     HighLow(F, x[1], y[1]), LowLow(F, x[1], y[1])>> \o CrossTerms(F, x, y))>>
\* mul() and squ() with a single Float as the result.
pairSquareRounded(F, x) ==
  LET cross == Times(F, upper(F, x[1]), x[2])
      middle == HighLow(F, x[1], x[1])
  IN SumFrom(F, <<cross, cross, LowLow(F, x[1], x[1]), Plus(F, middle, middle),
                HighHigh(F, x[1], x[1])>>)
pairMulRounded(F, x, y) ==
  SumFrom(F, <<Times(F, x[2], upper(F, y[1])), Times(F, upper(F, x[1]), y[2]), LowLow(F, x[1], y[1]),
             HighLow(F, x[1], y[1]), LowHigh(F, x[1], y[1]), HighHigh(F, x[1], y[1])>>)
pairSquare(F, x) ==
  LET r == Times(F, x[1], x[1])
      high == upper(F, x[1])
  IN <<r, SumFrom(F, <<HighHigh(F, x[1], x[1]), negateBits(F, r),
                     Times(F, Plus(F, high, high), lower(F, x[1])), LowLow(F, x[1], x[1]),
                     Times(F, x[1], Plus(F, x[2], x[2]))>>)>>

\* What 1 exceeds the product of x and y by.
Remainder(F, x, y) ==
  Minuses(F, <<HighHigh(F, x, y), HighLow(F, x, y), LowHigh(F, x, y), LowLow(F, x, y)>>)
pairRec(F, x) ==
  LET t == Inverted(F, x[1])
      tail == IF Len(x) = 2 THEN Minuses(F, <<Times(F, x[2], t)>>) ELSE <<>>
  IN <<t, Times(F, t, SumFrom(F, <<one(F)>> \o Remainder(F, x[1], t) \o tail))>>
pairDiv(F, x, y) ==
  LET t == Inverted(F, y[1])
      q == Times(F, t, x[1])
      u == SumFrom(F, <<negateBits(F, q), HighHigh(F, x[1], t), HighLow(F, x[1], t),
                      LowHigh(F, x[1], t), LowLow(F, x[1], t),
                      Times(F, q, SumFrom(F, <<one(F)>> \o Remainder(F, y[1], t)))>>)
  IN <<q, Plus(F, Times(F, t, Minus(F, x[2], Times(F, q, y[2]))), u)>>
pairNormalize(F, x) ==
  LET r == Plus(F, x[1], x[2]) IN <<r, SumFrom(F, <<x[1], negateBits(F, r), x[2]>>)>>
pairScale(F, x, s) == <<Times(F, s, x[1]), Times(F, s, x[2])>>

-----------------------------------------------------------------------------
(* Polynomials: c is the table of the constants, o the offset and p[i] the *)
(* i-th power of the variable.                                             *)

MulAdd(x, y, z) == x * y + z
poly2(c, o, p) == MulAdd(p[1], c[o + 1], c[o])
poly3(c, o, p) == MulAdd(p[2], c[o + 2], poly2(c, o, p))
poly4(c, o, p) == MulAdd(p[2], poly2(c, o + 2, p), poly2(c, o, p))
poly5(c, o, p) == MulAdd(p[4], c[o + 4], poly4(c, o, p))
poly6(c, o, p) == MulAdd(p[4], poly2(c, o + 4, p), poly4(c, o, p))
poly7(c, o, p) == MulAdd(p[4], poly3(c, o + 4, p), poly4(c, o, p))
poly8(c, o, p) == MulAdd(p[4], poly4(c, o + 4, p), poly4(c, o, p))
poly9(c, o, p) == MulAdd(p[8], c[o + 8], poly8(c, o, p))
poly10(c, o, p) == MulAdd(p[8], poly2(c, o + 8, p), poly8(c, o, p))
poly11(c, o, p) == MulAdd(p[8], poly3(c, o + 8, p), poly8(c, o, p))
poly12(c, o, p) == MulAdd(p[8], poly4(c, o + 8, p), poly8(c, o, p))
poly13(c, o, p) == MulAdd(p[8], poly5(c, o + 8, p), poly8(c, o, p))
poly14(c, o, p) == MulAdd(p[8], poly6(c, o + 8, p), poly8(c, o, p))
poly15(c, o, p) == MulAdd(p[8], poly7(c, o + 8, p), poly8(c, o, p))
poly16(c, o, p) == MulAdd(p[8], poly8(c, o + 8, p), poly8(c, o, p))
poly17(c, o, p) == MulAdd(p[16], c[o + 16], poly16(c, o, p))
poly18(c, o, p) == MulAdd(p[16], poly2(c, o + 16, p), poly16(c, o, p))
poly19(c, o, p) == MulAdd(p[16], poly3(c, o + 16, p), poly16(c, o, p))
\* The polynomials of 2 to 19 terms.
Polynomials(c, o, p) ==
  <<poly2(c, o, p), poly3(c, o, p), poly4(c, o, p), poly5(c, o, p), poly6(c, o, p), poly7(c, o, p),
    poly8(c, o, p), poly9(c, o, p), poly10(c, o, p), poly11(c, o, p), poly12(c, o, p),
    poly13(c, o, p), poly14(c, o, p), poly15(c, o, p), poly16(c, o, p), poly17(c, o, p),
    poly18(c, o, p), poly19(c, o, p)>>

-----------------------------------------------------------------------------
(* Integers and powers of two                                              *)

\* The conversions from int and to int, which drops the fraction.
IntToFloat(F, n) == SignOf(F, IF n < 0 THEN signBitMask(F) ELSE 0, F,
                        Scaled(F, IF n < 0 THEN -n ELSE n, -Unit(F), 1))
FloatToInt(F, x) == LET n == Magnitude(F, x) \div 2 ^ (-Unit(F)) IN IF isNegative(F, x) THEN -n ELSE n
mathAbs(F, x) == getSignificandExponentBits(F, x)
copysign(F, x, y) == mathAbs(F, x) + (y - mathAbs(F, y))
mulsign(F, x, y) == IF isNegative(F, y) THEN negateBits(F, x) ELSE x
sign(F, x) == mulsign(F, one(F), x)

\* Above k = 2 ^ digits every number is an even integer.  A number that does
\* not fit in an int is above k.
AboveDigits(F, x) == ~LessThan(F, mathAbs(F, x), IntToFloat(F, 2 ^ (F.sig + 1)))
isInt(F, x) ==
  /\ ~isNan(F, x)
  /\ AboveDigits(F, x) \/ mathAbs(F, x) = mathAbs(F, IntToFloat(F, FloatToInt(F, x)))
isOddFloat(F, x) == FloatToInt(F, x) % 2 = 1 /\ ~AboveDigits(F, x)
\* MUTANT: half is added to a negative number, too.
rintUp(F, x) == IntToFloat(F, FloatToInt(F, Plus(F, x, roundError(F))))
\* rint(): half away from zero, then the fraction is dropped.
rint(F, x) == IntToFloat(F, FloatToInt(F, Plus(F, x, copysign(F, roundError(F), x))))

ilogb2(F, x) == getBiasedExponent(F, x) - exponentBias(F)
ldexp3(F, x, e) == x + e * implicitBit(F)
\* The reduction of log(): x is m times 2 ^ e, m near 1.
ThreeQuarters(F) == roundError(F) + 2 ^ (F.sig - 1)
Reduced(F, y, e, lift) == [m |-> ldexp3(F, y, -e), e |-> e - lift]
logReduce(F, x) ==
  LET subnormal == LessThan(F, x, minimum(F))
      y == IF subnormal THEN Times(F, x, IntToFloat(F, 2 ^ SubnormalLift)) ELSE x
  IN Reduced(F, y, ilogb2(F, Times(F, y, Inverted(F, ThreeQuarters(F)))),
             IF subnormal THEN SubnormalLift ELSE 0)

\* The powers of two of float and of double: the constants of ldexp() and the
\* exponents that a number may have; below them is zero, above them infinity.
Binary32 == [shift |-> 6, up |-> 4, bias |-> 127, top |-> 255, least |-> -149, most |-> 127]
Binary64 == [shift |-> 9, up |-> 7, bias |-> 1023, top |-> 2047, least |-> -1074, most |-> 1023]
ZeroPower == -100000
InfinitePower == 100000
PowerOfTwo(T, k) == CASE k < T.least -> ZeroPower [] k > T.most -> InfinitePower [] OTHER -> k
TimesPower(T, a, b) == CASE ZeroPower \in {a, b} -> ZeroPower
                         [] InfinitePower \in {a, b} -> InfinitePower
                         [] OTHER -> PowerOfTwo(T, a + b)
LdexpQuotient(T, e) ==
  LET m == IF e < 0 THEN -1 ELSE 0 IN ((m + e) \div 2 ^ T.shift - m) * 2 ^ T.up
\* ldexp() of 2 ^ a: four times the quotient, then the rest of the exponent.
ldexp(T, a, e) ==
  LET m == LdexpQuotient(T, e)
      u == CASE m + T.bias <= 0 -> ZeroPower
             [] m + T.bias >= T.top -> InfinitePower
             [] OTHER -> m
      y == TimesPower(T, TimesPower(T, TimesPower(T, TimesPower(T, a, u), u), u), u)
  IN TimesPower(T, y, e - 4 * m)

-----------------------------------------------------------------------------
(* pow(): the value of exp(y * log(|x|)) is any positive number.           *)

\* MUTANT: the base is taken for odd.
PowerSignBase(F, x, y) == IF isNegative(F, x) /\ ~isZero(F, x) THEN -1 ELSE 1
PowerSign(F, x, y) ==
  IF isNegative(F, x) /\ ~isZero(F, x) /\ isInt(F, y) /\ isOddFloat(F, y) THEN -1 ELSE 1
\* An infinite exponent: the sign of (|x| - 1) * exponent, a zero has none.
PowerOfInfinity(F, x, y) ==
  LET efx == mulsign(F, Minus(F, mathAbs(F, x), one(F)), y)
  IN CASE isZero(F, efx) -> one(F)
       [] isNegative(F, efx) -> 0
       [] OTHER -> infinity(F)
\* A zero or infinite base: < binds less than the product of the signs.
PowerOfLimit(F, x, y) ==
  LET odd == isInt(F, y) /\ isOddFloat(F, y)
      minus == (odd /\ isNegative(F, x)) # (isZero(F, x) # isNegative(F, y))
  IN IF minus THEN 0 ELSE infinity(F)
powFloat(F, x, y, magnitude) ==
  CASE isZero(F, y) \/ x = one(F) -> one(F)
    [] isInf(F, x) \/ isZero(F, x) -> PowerOfLimit(F, x, y)
    [] isInf(F, y) -> PowerOfInfinity(F, x, y)
    [] OTHER -> IF PowerSign(F, x, y) = -1 THEN negateBits(F, magnitude) ELSE magnitude

-----------------------------------------------------------------------------
NoMath == <<"none">>
NoRunning == [terms |-> <<>>]

mathInit == computed = NoMath /\ running = NoRunning

\* The numbers from four to eight, and pairs of one and a half or a quarter
\* of its last digit; the second operand goes from minus sixteen to sixteen.
Four(F) == one(F) + 2 * implicitBit(F)
Singles(F) == {<<Four(F) + d>> : d \in 0..(implicitBit(F) - 1)}
Pairs(F) == {<<x[1], low>> : x \in Singles(F),
             low \in {negateBits(F, Four(F) - (F.sig + 1) * implicitBit(F)),
                      Four(F) - (F.sig + 2) * implicitBit(F)}}
Second(F, operands) ==
  {[i \in DOMAIN x |-> SignOf(F, s, F, x[i] + e * implicitBit(F))] :
    x \in operands, s \in {0, signBitMask(F)}, e \in {0, 1}}

Fresh == computed = NoMath /\ running = NoRunning
Respond(op, F, x, y, result) ==
  /\ computed' = <<op, F, x, y, result>>
  /\ UNCHANGED running
AddPairs == Fresh /\ \E F \in MathFloats :
  \E x \in Singles(F) \cup Pairs(F), y \in Second(F, Singles(F) \cup Pairs(F)) :
    Respond("add", F, x, y, [ordered |-> pairAdd(F, x, y), any |-> pairAdd2(F, x, y)])
MultiplyPairs == Fresh /\ \E F \in MathFloats :
  \E x \in Singles(F) \cup Pairs(F), y \in Second(F, Singles(F)) :
    Respond("mul", F, x, y, [pair |-> pairMul(F, x, y)])
CombinePairs == Fresh /\ \E F \in MathFloats : \E x \in Pairs(F), y \in Second(F, Pairs(F)) :
  Respond("pairs", F, x, y, [mul |-> pairMul(F, x, y), rounded |-> pairMulRounded(F, x, y),
                             div |-> pairDiv(F, x, y)])
TransformPair == Fresh /\ \E F \in MathFloats : \E x \in Pairs(F) :
  Respond("pair", F, x, <<>>,
          [squ |-> pairSquare(F, x), rounded |-> pairSquareRounded(F, x), rec |-> pairRec(F, x),
           single |-> pairRec(F, <<x[1]>>), norm |-> pairNormalize(F, x),
           twice |-> pairScale(F, x, one(F) + implicitBit(F))])
Evaluate == Fresh /\ \E o \in {0, 2}, k \in 0..20 :
  Respond("poly", 3, o, k, Polynomials([i \in 0..20 |-> IF i = k THEN 1 ELSE 0], o,
                                       [i \in {1, 2, 4, 8, 16} |-> 3 ^ i]))
Decompose == Fresh /\ \E F \in MathFloats : \E x \in Patterns(F) :
  /\ isFinite(F, x)
  /\ Respond("parts", F, x, 0, [int |-> isInt(F, x), odd |-> isOddFloat(F, x), rint |-> rint(F, x),
                                sign |-> sign(F, x)])
Logarithm == Fresh /\ \E F \in MathFloats : \E x \in 1..maximum(F) :
  Respond("log", F, x, 0, logReduce(F, x))
Load == Fresh /\ \E T \in {Binary32, Binary64}, e \in -9..9 :
  Respond("ldexp", T, e, 0,
          [a \in {T.least, T.least + 1, -T.bias, -1, 0, 1, T.bias - 1, T.most} |->
             [i \in 0..LdexpStep |-> ldexp(T, a, e * LdexpStep + i)]])
RaiseFloat == Fresh /\ \E x, y \in Patterns(PowerFloat), m \in {0, one(PowerFloat) + 1} :
  Respond("pow", PowerFloat, x, y, [m |-> m, power |-> powFloat(PowerFloat, x, y, m)])

\* Math::add() with a compensation: one term more.
\* MUTANT: the parts are subtracted in one order, whichever is larger.
LostOrdered(F, lhs, rhs, t) == Plus(F, Minus(F, lhs, t), rhs)
Lost(F, lhs, rhs, t) ==
  IF ~LessThan(F, mathAbs(F, lhs), mathAbs(F, rhs)) THEN Plus(F, Minus(F, lhs, t), rhs)
                                                    ELSE Plus(F, Minus(F, rhs, t), lhs)
Begin == /\ Fresh
         /\ \E F \in MathFloats : running' = [F |-> F, terms |-> <<>>, total |-> 0, lost |-> 0]
         /\ UNCHANGED computed
Terms(F) == {SignOf(F, s, F, e * implicitBit(F) + d) :
             s \in {0, signBitMask(F)}, d \in {0, 1, 5, 7},
             e \in {exponentBias(F) - 3, exponentBias(F), exponentBias(F) + 3}}
AddTerm ==
  /\ running # NoRunning /\ Len(running.terms) < 3
  /\ \E x \in Terms(running.F) :
       LET F == running.F
           t == Plus(F, running.total, x)
       IN running' = [F |-> F, terms |-> Append(running.terms, x), total |-> t,
                      lost |-> Plus(F, running.lost, Lost(F, running.total, x, t))]
  /\ UNCHANGED computed

mathNext == \/ AddPairs \/ MultiplyPairs \/ CombinePairs \/ TransformPair \/ Evaluate \/ Decompose
            \/ Logarithm \/ Load \/ RaiseFloat \/ Begin \/ AddTerm
mathSpec == mathInit /\ [][mathNext]_mathVars

-----------------------------------------------------------------------------
(* Properties                                                              *)

\* A pair as an integer, in units of the smallest Float.
PairNumber(F, x) == NumberOf(F, x[1]) + IF Len(x) = 2 THEN NumberOf(F, x[2]) ELSE 0
OneUnit(F) == 2 ^ (-Unit(F))
Distance(n, m) == IF n < m THEN m - n ELSE n - m
\* n is m up to some units in the last of so many digits, and a last bit.
Close(n, m, units, digits, bit) == Distance(n, m) <= units * (Distance(m, 0) \div 2 ^ digits) + bit
Total(F, terms) == FoldLeft(LAMBDA sum, x : sum + NumberOf(F, x), 0, terms)

\* What a rounding loses is kept: the sum of two Floats is the pair of add2(),
\* and of add() when the larger comes first, the product is the pair of mul()
\* when the number of digits is even, and the compensation of Math::add() is
\* exactly what its total lacks, as a Float.  The operations on pairs have an
\* error of a few units in the last of twice the digits.
LossIsKept ==
  LET F == computed[2]
      x == PairNumber(F, computed[3])
      y == PairNumber(F, computed[4])
      r == computed[5]
      u == OneUnit(F)
      digits == F.sig + 1
      single == Len(computed[3]) = 1 /\ Len(computed[4]) = 1
      ordered == mathAbs(F, computed[3][1]) >= mathAbs(F, computed[4][1])
  IN CASE computed[1] = "add" ->
            /\ Distance(PairNumber(F, r.any), x + y) <= IF single THEN 0 ELSE 2
            /\ ordered => Distance(PairNumber(F, r.ordered), x + y) <= IF single THEN 0 ELSE 2
       [] computed[1] = "mul" ->
            IF single /\ digits % 2 = 0 THEN PairNumber(F, r.pair) * u = x * y
            ELSE Close(PairNumber(F, r.pair) * u, x * y, 4, 2 * digits, u)
       [] computed[1] = "pairs" ->
            /\ Close(PairNumber(F, r.mul) * u, x * y, 6, 2 * digits, u)
            /\ Close(NumberOf(F, r.rounded) * u, x * y, 2, digits, u)
            /\ Close(PairNumber(F, r.div) * y, x * u, 8, 2 * digits, Distance(y, 0))
       [] computed[1] = "pair" ->
            /\ Close(PairNumber(F, r.squ) * u, x * x, 6, 2 * digits, u)
            /\ Close(NumberOf(F, r.rounded) * u, x * x, 2, digits, u)
            /\ Close(PairNumber(F, r.rec) * x, u * u, 8, 2 * digits, x)
            /\ Close(PairNumber(F, r.single) * NumberOf(F, computed[3][1]), u * u, 8, 2 * digits, x)
            /\ PairNumber(F, r.norm) = x /\ PairNumber(F, r.twice) = 2 * x
       [] OTHER -> running.terms # <<>> =>
            LET G == running.F
                missing == Total(G, running.terms) - NumberOf(G, running.total)
                nearest == Magnitude(G, Nearest(G, Distance(missing, 0), 1))
            IN NumberOf(G, running.lost) = IF missing < 0 THEN -nearest ELSE nearest

\* The number below a half, and an odd number without a digit after the point,
\* which rint() rounds to the integer above.
RintMisses(F, x) == \/ mathAbs(F, x) = roundError(F) - 1
                    \/ mathAbs(F, x) >= IntToFloat(F, 2 ^ F.sig) /\ ~AboveDigits(F, x)
\* The polynomials evaluate each of their terms with its own power; isInt(),
\* isOdd() and rint() decide as the numbers themselves do; log() splits its
\* argument, subnormal or not, into a power of two and a number in [0.75, 1.5);
\* ldexp() multiplies by the power of two without a rounding or an overflow on
\* the way.
EvaluationIsExact ==
  LET F == computed[2]
      x == NumberOf(F, computed[3])
      r == computed[5]
      u == OneUnit(F)
  IN CASE computed[1] = "poly" ->
            \A n \in 2..19 : r[n - 1] = IF computed[4] - computed[3] \in 0..(n - 1)
                                          THEN computed[2] ^ (computed[4] - computed[3]) ELSE 0
       [] computed[1] = "parts" ->
            /\ r.int <=> x % u = 0
            /\ r.odd /\ r.int <=> x % (2 * u) = u
            /\ ~RintMisses(F, computed[3]) => /\ NumberOf(F, r.rint) % u = 0
                                         /\ 2 * Distance(NumberOf(F, r.rint), x) <= u
            /\ NumberOf(F, r.sign) * Distance(x, 0) = x * u
       [] computed[1] = "log" ->
            /\ 3 * u <= 4 * NumberOf(F, r.m) /\ 2 * NumberOf(F, r.m) < 3 * u
            /\ x * Power(-r.e) = NumberOf(F, r.m) * Power(r.e)
       [] computed[1] = "ldexp" ->
            \A a \in DOMAIN r : \A i \in DOMAIN r[a] :
              r[a][i] = PowerOfTwo(F, a + computed[3] * LdexpStep + i)
       [] OTHER -> TRUE

\* pow() of a zero, of an infinity and of one, and the signs of powers, are those
\* of the C library, apart from NaN and from the odd powers of a negative zero
\* or infinity.
PowersOfLimits == computed[1] = "pow" =>
  LET F == computed[2]
      x == computed[3]
      y == computed[4]
      u == OneUnit(F)
      whole == isInf(F, y) \/ NumberOf(F, y) % u = 0
      odd == isFinite(F, y) /\ NumberOf(F, y) % (2 * u) = u
      limit == isZero(F, x) \/ isInf(F, x)
      expected == CASE isZero(F, y) \/ x = one(F) -> one(F)
                    [] isInf(F, y) /\ mathAbs(F, x) = one(F) -> one(F)
                    [] isInf(F, y) \/ limit ->
                         IF (mathAbs(F, x) > one(F)) = isNegative(F, y) THEN 0 ELSE infinity(F)
                    [] OTHER -> IF isNegative(F, x) /\ odd THEN negateBits(F, computed[5].m)
                                                           ELSE computed[5].m
  IN \/ isNan(F, x) \/ isNan(F, y)
     \/ isNegative(F, x) /\ ~limit /\ ~whole
     \/ isNegative(F, x) /\ limit /\ odd
     \/ computed[5].power = expected
=============================================================================
