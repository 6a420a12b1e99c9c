------------------------------ MODULE JsonText ------------------------------
(***************************************************************************)
(* zisc/string: strings whose length is part of the type                   *)
(* (constant_string-inl.hpp) and the values of JSON text                   *)
(* (json_value_parser-inl.hpp).                                            *)
(*                                                                         *)
(* A character is a string of length one, Nul the end of a C string, and a *)
(* BasicConstantString<Char, kN> the sequence of its kN characters, the    *)
(* last one Nul.  The functions that read numbers are the C library's: they*)
(* get a pointer only, so they take the memory from there to the next Nul. *)
(***************************************************************************)
EXTENDS Integers, Sequences, FiniteSets
LOCAL INSTANCE SequencesExt

CONSTANTS
  LongBits,   \* bits of long and long long
  NarrowBits, \* bits of a narrower integer
  JsonTexts,  \* texts that are tested and read
  JsonRests,  \* what can follow a value in memory
  Pieces      \* characters of the constant strings
ASSUME TextAssumption ==
  /\ NarrowBits \in 2..LongBits /\ LongBits \in 2..20

VARIABLE json  \* a call and its result
jsonVars == <<json>>

-----------------------------------------------------------------------------
(* constant_string-inl.hpp                                                 *)

Nul == "NUL"
toString(chars) == Append(chars, Nul)
stringSize(s) == Len(s) - 1
\* MUTANT: the second string is put behind the Nul of the first one.
concatenateArrays(lhs, rhs) == lhs \o SubSeq(rhs, 1, stringSize(rhs))
\* The characters without Nul, into a string made of Nul.
concatenate(lhs, rhs) ==
  SubSeq(lhs, 1, stringSize(lhs)) \o SubSeq(rhs, 1, stringSize(rhs)) \o <<Nul>>
stringsEqual(lhs, rhs) ==
  stringSize(lhs) = stringSize(rhs) /\ \A i \in 1..stringSize(lhs) : lhs[i] = rhs[i]
viewEqual(view, s) ==
  Len(view) = stringSize(s) /\ \A i \in 1..stringSize(s) : view[i] = s[i]
\* toCStr(), as a C function reads it: up to the first Nul.
Longest(s, S) == CHOOSE n \in 0..Len(s) :
  (\A i \in 1..n : s[i] \in S) /\ (n < Len(s) => s[n + 1] \notin S)
\* 1 if the character at i is one of S, to be skipped.
Optional(s, i, S) == IF i \in DOMAIN s /\ s[i] \in S THEN 1 ELSE 0
Past(s, n) == SubSeq(s, n + 1, Len(s))
toCStr(s) == SubSeq(s, 1, Longest(s, ToSet(s) \ {Nul}))

-----------------------------------------------------------------------------
(* The patterns: isBool(), isInteger(), isFloat() and isString()           *)

DigitValue == [d \in {"0", "1", "2", "3", "4", "5", "6", "7", "8", "9"} |->
                CHOOSE n \in 0..9 : ToString(n) = d]
Digit == DOMAIN DigitValue
AreDigits(s) == s # <<>> /\ ToSet(s) \subseteq Digit

truePattern == toString(<<"t", "r", "u", "e">>)
falsePattern == toString(<<"f", "a", "l", "s", "e">>)
isBool(v) == viewEqual(v, truePattern) \/ viewEqual(v, falsePattern)

Unsigned(v) == Past(v, Optional(v, 1, {"-"}))
isInteger(v) == LET d == Unsigned(v) IN AreDigits(d) /\ (d[1] = "0" => Len(d) = 1)
isFraction(s) == s = <<>> \/ (s[1] = "." /\ AreDigits(Tail(s)))
isExponent(s) ==
  s = <<>> \/ (s[1] \in {"e", "E"} /\ AreDigits(Past(s, 1 + Optional(s, 2, {"+", "-"}))))
isFloat(v) == \E i, j \in 0..Len(v) :
  i <= j /\ isInteger(SubSeq(v, 1, i)) /\ isFraction(SubSeq(v, i + 1, j)) /\ isExponent(Past(v, j))

Quote == "\""
Backslash == "\\"
Escaped == {Quote, Backslash, "b", "f", "n", "r", "t"}
Control == {"\n", "\r", "\t", "\f", "BS"}
\* One character of the text between the quotes: plain, the second one of an
\* escape, or no match.
inString(at, c) ==
  CASE at = "plain" /\ c = Backslash -> "escape"
    [] at = "plain" /\ c \notin Control \cup {Quote, Backslash} -> "plain"
    [] at = "escape" /\ c \in Escaped -> "plain"
    [] OTHER -> "bad"
isString(v) ==
  /\ Len(v) >= 2 /\ v[1] = Quote /\ v[Len(v)] = Quote
  /\ FoldLeft(inString, "plain", SubSeq(v, 2, Len(v) - 1)) = "plain"

-----------------------------------------------------------------------------
(* The values                                                              *)

toCxxBool(v) == viewEqual(v, truePattern)

Blank == {" ", "\t", "\r", "\n"}
SmallerOf(a, b) == IF a < b THEN a ELSE b
DecimalValue(digits) == FoldLeft(LAMBDA n, d : 10 * n + DigitValue[d], 0, digits)
\* strtoll and strtoull: blanks, a sign, digits; a result out of range is the
\* nearest number, and strtoull negates what it has read as an unsigned number.
SignAndDigits(memory) ==
  LET number == Past(memory, Longest(memory, Blank))
      digits == Past(number, Optional(number, 1, {"+", "-"}))
  IN [negative |-> number # <<>> /\ number[1] = "-",
      value |-> DecimalValue(SubSeq(digits, 1, Longest(digits, Digit)))]
strtoll(memory) ==
  LET m == SignAndDigits(memory)
  IN IF m.negative THEN -SmallerOf(m.value, 2 ^ (LongBits - 1))
                   ELSE SmallerOf(m.value, 2 ^ (LongBits - 1) - 1)
strtoull(memory) ==
  LET m == SignAndDigits(memory)
      n == SmallerOf(m.value, 2 ^ LongBits - 1)
  IN (IF m.negative THEN -n ELSE n) % 2 ^ LongBits
\* The conversion to an integer of another width.
ToUnsigned(n, bits) == n % 2 ^ bits
ToSigned(n, bits) == ((n + 2 ^ (bits - 1)) % 2 ^ bits) - 2 ^ (bits - 1)
toCxxSigned(memory, bits) ==
  IF bits = LongBits THEN strtoll(memory) ELSE ToSigned(strtoll(memory), bits)
toCxxUnsigned(memory, bits) ==
  IF bits = LongBits THEN strtoull(memory) ELSE ToUnsigned(strtoull(memory), bits)
\* strtod(), as the text that it reads: digits and a point among them, and an
\* exponent if there is one.
strtod(memory) ==
  LET number == Past(memory, Longest(memory, Blank))
      sign == Optional(number, 1, {"+", "-"})
      whole == sign + Longest(Past(number, sign), Digit)
      point == whole + Optional(number, whole + 1, {"."})
      mantissa == IF point = whole THEN whole ELSE point + Longest(Past(number, point), Digit)
      mark == mantissa + Optional(number, mantissa + 1, {"e", "E"})
      power == mark + Optional(number, mark + 1, {"+", "-"})
      digits == Longest(Past(number, power), Digit)
  IN SubSeq(number, 1, IF mark > mantissa /\ digits > 0 THEN power + digits ELSE mantissa)

\* MUTANT: \b is read as b.
getEscapedCharacterPlain(c) ==
  CASE c = "f" -> "\f" [] c = "n" -> "\n" [] c = "r" -> "\r" [] c = "t" -> "\t"
    [] c \in {Quote, Backslash, "b"} -> c [] OTHER -> Nul
getEscapedCharacter(c) ==
  CASE c = "b" -> "BS" [] c = "f" -> "\f" [] c = "n" -> "\n" [] c = "r" -> "\r" [] c = "t" -> "\t"
    [] c \in {Quote, Backslash} -> c [] OTHER -> Nul
\* toCxxStringImpl(): the characters between the quotes, an escape is one
\* character.  It runs twice, for the size and for the characters.
readChar(r, c) ==
  IF r.escape THEN [out |-> Append(r.out, getEscapedCharacter(c)), escape |-> FALSE]
  ELSE IF c = Backslash THEN [r EXCEPT !.escape = TRUE]
  ELSE [r EXCEPT !.out = Append(@, c)]
toCxxString(v) ==
  FoldLeft(readChar, [out |-> <<>>, escape |-> FALSE], SubSeq(v, 2, Len(v) - 1)).out

-----------------------------------------------------------------------------
NoJson == [op |-> "none"]
jsonInit == json = NoJson

ReadValue ==
  /\ json = NoJson
  /\ \E v \in JsonTexts, rest \in JsonRests :
       json' = [op |-> "read", text |-> v, memory |-> v \o rest]
ConcatenateStrings ==
  /\ json = NoJson
  /\ \E l, r \in Pieces :
       json' = [op |-> "strings", l |-> l, r |-> r, sum |-> concatenate(toString(l), toString(r))]

jsonNext == ReadValue \/ ConcatenateStrings
jsonSpec == jsonInit /\ [][jsonNext]_jsonVars

-----------------------------------------------------------------------------
(* Properties                                                              *)

\* The JSON text of a string, as the grammar has it: what isString() accepts
\* and toCxxString() has to undo.
Escape(c) == CASE c = "BS" -> <<Backslash, "b">> [] c = "\f" -> <<Backslash, "f">>
               [] c = "\n" -> <<Backslash, "n">> [] c = "\r" -> <<Backslash, "r">>
               [] c = "\t" -> <<Backslash, "t">> [] c \in {Quote, Backslash} -> <<Backslash, c>>
               [] OTHER -> <<c>>
Quoted(chars) ==
  <<Quote>> \o FlattenSeq([i \in DOMAIN chars |-> Escape(chars[i])]) \o <<Quote>>

\* The values of the text that the patterns accept: a number ends where its text
\* ends, whatever follows it in memory, so that the C functions, which know no
\* end, read this text and no more.  An integer is what it says if it fits, and
\* modulo 2 ^ bits otherwise as long as it fits into long; a string is the one
\* whose text it is.
ValuesAreExact == json.op = "read" =>
  LET v == json.text
      value == IF v[1] = "-" THEN -DecimalValue(Unsigned(v)) ELSE DecimalValue(v)
      long == -(2 ^ (LongBits - 1))..(2 ^ (LongBits - 1) - 1)
  IN /\ isInteger(v) => /\ isFloat(v)
                        /\ value \in long => /\ toCxxSigned(json.memory, LongBits) = value
                                             /\ toCxxUnsigned(json.memory, NarrowBits) = value % 2 ^ NarrowBits
                        /\ value \in -(2 ^ (NarrowBits - 1))..(2 ^ (NarrowBits - 1) - 1)
                             => toCxxSigned(json.memory, NarrowBits) = value
                        /\ value \in 0..(2 ^ LongBits - 1) => toCxxUnsigned(json.memory, LongBits) = value
     /\ isFloat(v) => strtod(json.memory) = v
     /\ isString(v) => Quoted(toCxxString(v)) = v
     /\ Cardinality({k \in {"bool", "float", "string"} :
          CASE k = "bool" -> isBool(v) [] k = "float" -> isFloat(v) [] k = "string" -> isString(v)}) <= 1

\* A sum is the string of all characters of both, with one Nul at its end, and
\* two strings are equal if they have the same characters.
StringsAreExact == json.op = "strings" =>
  /\ json.sum = toString(json.l \o json.r) /\ toCStr(json.sum) = json.l \o json.r
  /\ stringSize(json.sum) = Len(json.l) + Len(json.r)
  /\ stringsEqual(toString(json.l), toString(json.r)) <=> json.l = json.r
  /\ viewEqual(json.l, toString(json.r)) <=> json.l = json.r

\* Constant strings and values of text are exact.
TextIsExact == ValuesAreExact /\ StringsAreExact
=============================================================================
