------------------------------- MODULE MCText -------------------------------
(* The texts and the rows that TLC reads, and the columns they are for.     *)
EXTENDS CsvReader
LOCAL INSTANCE SequencesExt

Enclosed(s) == <<Quote>> \o s \o <<Quote>>
NumberTexts == BoundedSeq({"-", "0", "1", "9", ".", "e", "+"}, 4) \ {<<>>}
StringTexts == {Enclosed(s) : s \in BoundedSeq({"a", Quote, Backslash, "b", "n", "\n"}, 3)}
Texts == NumberTexts \cup StringTexts \cup {<<"t", "r", "u", "e">>, <<"t", "r">>}
Rests == {<<>>, <<",", "1">>, <<" ", "2">>, <<"}">>}
TwoPieces == BoundedSeq({"a", "b"}, 3)

Named == <<"string", "integer">>
Numeric == <<"bool", "float">>
NamedAndNumeric == {Named, Numeric}
Strings == {<<>>, <<"a", ",", Quote>>, <<"\n", " ">>}
Rows == [c \in NamedAndNumeric |->
  IF c = Named THEN Strings \X {-8, 7}
               ELSE BOOLEAN \X {<<"0">>, <<"-", "1", ".", "9", "e", "1">>}]
Junk == {<<>>, <<"a", ",", "1">>, [i \in 1..20 |-> " "]}
=============================================================================
