----------------------------- MODULE MCStructures -----------------------------
(* Structures for TLC: the requests for memory, the formats of numbers, the *)
(* arguments of functions, and what is interchangeable.                     *)
EXTENDS Structures, MCRandomEngines, MCText, TLC

Blocks1To8 == {<<1, 1>>, <<3, 2>>, <<2, 8>>}
Blocks1To64 == {<<1, 1>>, <<10, 8>>, <<5, 64>>}

\* permuteIndex for a small array is the identity; the reversal stands for the
\* spreading of a large one.
Reversed == [i \in Slots |-> CountMax - 1 - i]
AnyRequest == [size : BOOLEAN, alignment : BOOLEAN]

Narrow3 == Format(3, 2)
Wide4 == Format(4, 7)
EvenAndOddDigits == {Format(4, 3), Format(4, 4)}

Fraction6 == {-3, -1, 0, 2, 4, 6}
Bases6 == {-3, -1, 0, 1, 2, 5}

\* Threads, tenants, callers and requesters are the users, and items are values.
Symmetry == Permutations(Users) \cup Permutations(Values)
=============================================================================
