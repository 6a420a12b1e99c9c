--------------------------- MODULE RandomEngines ---------------------------
(***************************************************************************)
(* zisc/random: the PCG engine on 8 bits, which the library instantiates   *)
(* (PcgLcgRxsMXs8), the xoshiro engine on words of WordBits bits, and the  *)
(* correlated multi-jittered sampler, with the conversion to a float of    *)
(* utility-inl.hpp.                                                        *)
(*                                                                         *)
(* first, drawn, outputs and calls only observe.                           *)
(***************************************************************************)
EXTENDS MachineFloat, Bitwise

CONSTANTS
  PcgSeeds,        \* seeds of PcgEngine
  WordBits,        \* xoshiro: the bits of a word, and the shifts a, b and c
  ShiftA, ShiftB, ShiftC,
  Roots,           \* kRootN of CorrelatedMultiJitteredEngine
  PatternSeeds,    \* p, as its upper and its lower 16 bits
  HashBits,        \* the bits of a hash that reach the float
  Hashes,          \* hashes
  Float            \* the format of the floats
ASSUME RandomAssumption ==
  /\ PcgSeeds \subseteq 0..255 /\ PatternSeeds \subseteq (0..65535) \X (0..65535)
  /\ WordBits \in Nat \ {0} /\ {ShiftA, ShiftB, ShiftC} \subseteq 1..(WordBits - 1)
  /\ HashBits \in Nat \ {0} /\ Hashes \subseteq 0..(2 ^ HashBits - 1)
  /\ Roots \subseteq 2..16

VARIABLES
  engine,   \* the kind of engine at work
  state,    \* state_: a word (PCG) or four words (xoshiro)
  first,    \* the state after setSeed()
  drawn,    \* the number of calls of generate()
  outputs,  \* the numbers that were generated
  sample    \* CMJ: one call of the sampler and its result

randomVars == <<engine, state, first, drawn, outputs, sample>>

-----------------------------------------------------------------------------
(* PCG                                                                     *)

ToByte(n) == n % 256
increment(base) == IF base = "mcg" THEN 0 ELSE 77
\* MUTANT: the multiplier is not 1 modulo 4.
multiplierOdd == 143
multiplier == 141
mcgMultiplier == 217
bump(base, s) == ToByte(s * multiplier + increment(base))
pcgSeeded(base, seed) == IF base = "mcg" THEN seed | 3 ELSE bump(base, ToByte(seed + increment(base)))
getPeriodPow2(base) == IF base = "mcg" THEN 6 ELSE 8
\* isEndOfPeriod() of a wider integer.
isEndOfPeriod(base, n) == n = 2 ^ getPeriodPow2(base) - 1

\* MUTANT: the middle of the word is not folded in.
outputShift(s) ==
  LET a == shiftR(s, 2 + shiftR(s, 6))
      b == ToByte(a * mcgMultiplier)
  IN b ^^ shiftR(b, 6)
\* output(): a shift by the top opbits bits, a product and a shift.
output(s) ==
  LET a == s ^^ shiftR(s, 2 + shiftR(s, 6))
      b == ToByte(a * mcgMultiplier)
  IN b ^^ shiftR(b, 6)

\* generate(), kOutputPrevious: the output comes from the old state.
PcgGenerate ==
  /\ engine \in {"lcg", "mcg"} /\ drawn < 2 ^ getPeriodPow2(engine)
  /\ state' = bump(engine, state)
  /\ outputs' = outputs \cup {output(state)}
  /\ drawn' = drawn + 1
  /\ UNCHANGED <<engine, first, sample>>

-----------------------------------------------------------------------------
(* xoshiro                                                                 *)

Word(n) == n % 2 ^ WordBits
rotateLeft(x, k) == Word(x * 2 ^ k) | shiftR(x, WordBits - k)
generateRandom(method, s) ==
  CASE method = "+" -> Word(s[0] + s[3])
    [] method = "++" -> Word(rotateLeft(Word(s[0] + s[3]), ShiftA) + s[0])
    [] method = "**" -> Word(rotateLeft(Word(s[1] * 5), 7 % WordBits) * 9)

\* MUTANT: the last word is shifted, not rotated.
nextStateLost(s) ==
  LET s2 == s[2] ^^ s[0]
      s3 == s[3] ^^ s[1]
      s1 == s[1] ^^ s2
      s0 == s[0] ^^ s3
  IN [i \in 0..3 |-> CASE i = 0 -> s0 [] i = 1 -> s1 [] i = 2 -> s2 ^^ Word(s[1] * 2 ^ ShiftB)
                       [] i = 3 -> Word(s3 * 2 ^ ShiftC)]
nextState(s) ==
  LET t == Word(s[1] * 2 ^ ShiftB)
      s2 == s[2] ^^ s[0]
      s3 == s[3] ^^ s[1]
      s1 == s[1] ^^ s2
      s0 == s[0] ^^ s3
  IN [i \in 0..3 |-> CASE i = 0 -> s0 [] i = 1 -> s1 [] i = 2 -> s2 ^^ t
                       [] i = 3 -> rotateLeft(s3, ShiftC)]

Methods == {"+", "++", "**"}
\* generate(), until the state of the seed comes back.
XoshiroGenerate ==
  /\ engine \in Methods /\ (drawn = 0 \/ state # first)
  /\ outputs' = outputs \cup {generateRandom(engine, state)}
  /\ state' = nextState(state)
  /\ drawn' = drawn + 1
  /\ UNCHANGED <<engine, first, sample>>

-----------------------------------------------------------------------------
(* Correlated multi-jittered sampling.  Integers of 32 bits: permuteImpl   *)
(* depends on the bits of the mask w and on some shifts of p only, so its  *)
(* products are taken modulo w + 1.                                        *)

makeWMask(w) == Min({2 ^ k - 1 : k \in 0..9} \cap {m \in 0..511 : m >= w})

permuteImpl(w, i, p) ==
  LET M(n) == n % (w + 1)
      Low(n) == M((p[1] * (65536 \div 2 ^ n)) + p[2] \div 2 ^ n)   \* p >> n, for 8 <= n < 16
      High(n) == M(p[1] \div 2 ^ (n - 16))                          \* p >> n, for 16 <= n
      Fold(x, n) == x ^^ shiftR(x, n)
      i1 == M((i ^^ M(p[2])) * M(35133))                             \* 0xe170893d
      i2 == Fold(i1 ^^ High(16), 4)
      i3 == M((i2 ^^ Low(8)) * M(60223))                            \* 0x0929eb3f
      i4 == Fold(i3 ^^ High(23), 1)
      i5 == M(i4 * M(1 | (p[1] \div 2048)))
      i6 == Fold(M(i5 * M(64105)), 11)                              \* 0x6935fa69
      i7 == Fold(M(i6 * M(45827)), 2)                               \* 0x74dcb303
      i8 == Fold(M(i7 * M(7363)), 2)                                \* 0x9e501cc3
      i9 == M(i8 * M(41951))                                        \* 0xc860a3df
  IN Fold(i9, 5)

\* i + p in 32 bits, modulo n.
PlusSeed(i, p, n) ==
  LET lo == p[2] + i
      wraps == p[1] = 65535 /\ lo >= 65536
  IN IF wraps THEN (lo - 65536) % n
     ELSE (((p[1] % n) * (65536 % n)) + lo) % n

\* The cycle of the mask is followed until it is back below l.
Walk(l, w, i, p) ==
  LET walk[j \in 0..w] == LET k == permuteImpl(w, j, p) IN IF l <= k THEN walk[k] ELSE k
  IN walk[i]
\* MUTANT: what falls outside is folded back.
permuteFold(l, i, p) ==
  LET w == makeWMask(l - 1) IN PlusSeed(permuteImpl(w, i, p) % l, p, l)
permute(l, i, p) ==
  LET w == makeWMask(l - 1)
  IN IF l = w + 1 THEN PlusSeed(permuteImpl(w, i, p), p, w + 1)
     ELSE PlusSeed(Walk(l, w, i, p), p, l)

\* mapTo01(): the upper digits of the integer, over 2 ^ digits.
\* MUTANT: one bit too many is kept.
mapTo01Long(x) ==
  LET digits == Float.sig + 1
      v == IF digits < HashBits THEN x \div 2 ^ (HashBits - digits - 1) ELSE x
  IN Scaled(Float, v, -digits - Unit(Float), 1)
mapTo01(x) ==
  LET digits == Float.sig + 1
      v == IF digits < HashBits THEN x \div 2 ^ (HashBits - digits) ELSE x * 2 ^ (digits - HashBits)
  IN Scaled(Float, v, -digits - Unit(Float), 1)

ToFloat(n) == Scaled(Float, n, -Unit(Float), 1)
invert(n) == HardDivide(Float, one(Float), ToFloat(n))
Jitter(inv, cell, x) == HardMultiply(Float, inv, HardAdd(Float, ToFloat(cell), x))

\* generate1d(s, p) and generate2d(s, p): the seeds of the permutations and
\* of the hashes are multiples of p, and u and v any hashes.
generate1d(root, s, p, u) ==
  LET sx == permute(root * root, s, p)
  IN [cell |-> sx, x |-> Jitter(invert(root * root), sx, mapTo01(u))]
Sample2d(root, s2, sx, sy, u, v) ==
  [column |-> sx, part |-> sy, row |-> s2,
   x |-> HardMultiply(Float, invert(root),
                      HardAdd(Float, ToFloat(sx), Jitter(invert(root), sy, mapTo01(u)))),
   y |-> Jitter(invert(root * root), s2, mapTo01(v))]
Permuted2d(root, s2, q, r, u, v) ==
  Sample2d(root, s2, permute(root, s2 % root, q), permute(root, s2 \div root, r), u, v)
generate2d(root, s, p, q, r, u, v) ==
  Permuted2d(root, permute(root * root, s, p), q, r, u, v)

\* generate(lower, upper) of the base class.
generateBetween(lower, upper, u) ==
  LET width == HardAdd(Float, upper, negateBits(Float, lower))
  IN HardAdd(Float, lower, HardMultiply(Float, width, mapTo01(u)))

NoSample == [of |-> "none"]

\* All samples of one pattern, one hash for all of them.
Pattern ==
  /\ engine = "cmj" /\ sample = NoSample
  /\ \E root \in Roots, p, q \in PatternSeeds :
       sample' = [of |-> "pattern", root |-> root, p |-> p, q |-> q, result |->
                  [s \in 0..(root * root - 1) |-> generate2d(root, s, p, q, p, 0, 0)]]
  /\ UNCHANGED <<engine, state, first, drawn, outputs>>

Line ==
  /\ engine = "cmj" /\ sample = NoSample
  /\ \E root \in Roots, p \in PatternSeeds, u \in Hashes :
       \E s \in 0..(root * root - 1) :
         sample' = [of |-> "line", root |-> root, result |-> generate1d(root, s, p, u)]
  /\ UNCHANGED <<engine, state, first, drawn, outputs>>

Interval ==
  /\ engine = "cmj" /\ sample = NoSample
  /\ \E lower, upper \in 0..4, u \in Hashes :
       /\ lower < upper
       /\ sample' = [of |-> "interval", lower |-> ToFloat(lower), upper |-> ToFloat(upper),
                     result |-> generateBetween(ToFloat(lower), ToFloat(upper), u)]
  /\ UNCHANGED <<engine, state, first, drawn, outputs>>

-----------------------------------------------------------------------------
NoWords == [i \in 0..3 |-> 0]
\* setSeed() of the engines.
randomInit ==
  /\ \/ \E base \in {"lcg", "mcg"}, seed \in PcgSeeds :
          engine = base /\ state = pcgSeeded(base, seed)
     \/ \E method \in Methods, seed \in 0..(2 ^ WordBits - 1) :
          engine = method /\ state = [i \in 0..3 |-> seed]
     \/ engine = "cmj" /\ state = NoWords
  /\ first = state /\ drawn = 0 /\ outputs = {} /\ sample = NoSample

randomNext == PcgGenerate \/ XoshiroGenerate \/ Pattern \/ Line \/ Interval
randomSpec == randomInit /\ [][randomNext]_randomVars

-----------------------------------------------------------------------------
(* Properties                                                              *)

\* The PCG state comes back to that of the seed after exactly
\* 2 ^ getPeriodPow2() numbers, when isEndOfPeriod() says so; the outputs of
\* a period of the LCG are all numbers, each of them once, and the MCG
\* repeats none.
PeriodIsFull == engine \in {"lcg", "mcg"} =>
  /\ drawn > 0 => (state = first <=> isEndOfPeriod(engine, drawn - 1))
  /\ Cardinality(outputs) = drawn

\* The step of xoshiro loses nothing: no state but that of the seed 0 ever
\* becomes 0, where the engine would stay for ever, and the state of the seed
\* comes back within the period.  With the seed 0 all outputs are 0.
NeverStuck == engine \in Methods =>
  /\ state = NoWords <=> first = NoWords
  /\ first = NoWords => outputs \subseteq {0}
  /\ drawn < 2 ^ (4 * WordBits)

\* A seed whose sums with the indices wrap around in 32 bits; for a number of
\* samples that is no power of two the remainder of such a sum is wrong.
NearWrap(p) == p[1] = 65535 /\ p[2] >= 65536 - 256

\* The samples of a pattern are stratified: one of them in every row and in
\* every column of the fine grid, and one in every cell of the coarse grid.
MultiJittered ==
  /\ sample.of = "pattern"
  /\ NearWrap(sample.p) \/ NearWrap(sample.q) => sample.root \in {2, 4, 8, 16}
  =>
  LET n == sample.root * sample.root
      R == sample.result
      all == DOMAIN R
  IN /\ {R[s].row : s \in all} = 0..(n - 1)
     /\ {(R[s].column * sample.root) + R[s].part : s \in all} = 0..(n - 1)
     /\ {<<R[s].column, R[s].row \div sample.root>> : s \in all} =
          (0..(sample.root - 1)) \X (0..(sample.root - 1))

\* The comments of generate1d, "Generate a [0, 1) float random number", and of
\* generate, "x satisfying [lower, upper)": the upper bound is never reached.
BelowUpper ==
  /\ sample.of = "line" => HardCompare("<", Float, sample.result.x, one(Float))
  /\ sample.of = "interval" => HardCompare("<", Float, sample.result, sample.upper)

\* The samples stay where they belong: at least the lower bound and at most the
\* upper one, and a sample of the line inside of its cell or on its border.
InTheirCells ==
  /\ sample.of = "interval" => /\ HardCompare("<=", Float, sample.lower, sample.result)
                               /\ HardCompare("<=", Float, sample.result, sample.upper)
  /\ sample.of = "line" =>
       LET Border(k) == HardMultiply(Float, invert(sample.root * sample.root), ToFloat(k))
           cell == sample.result.cell
       IN /\ HardCompare("<=", Float, Border(cell), sample.result.x)
          /\ HardCompare("<=", Float, sample.result.x, Border(cell + 1))
=============================================================================
