------------------------------ MODULE CsvReader ------------------------------
(***************************************************************************)
(* zisc/string/csv-inl.hpp: append() reads a stream line by line, matches  *)
(* each line with the pattern made of the types of the columns, and stores *)
(* the values of the fields as a record.                                   *)
(*                                                                         *)
(* A stream is what is left of its characters, with eofbit and failbit.    *)
(* The clients of the model write a stream of lines, each the text of a    *)
(* row or something else, and append it; expected observes what is asked.  *)
(***************************************************************************)
EXTENDS JsonText
LOCAL INSTANCE SequencesExt

CONSTANTS
  ColumnTypes,  \* Type, Types...: sequences of "bool", "integer", "float", "string"
  CsvRows,      \* rows that are written: columns -> sequences of values
  CsvJunk,      \* other lines
  MaxCharsPerLine,
  MaxLines      \* bound: lines of a stream
ASSUME CsvAssumption == MaxCharsPerLine \in Nat \ {0} /\ MaxLines \in Nat

VARIABLES
  columns,   \* the types of this Csv
  records,   \* data_
  stream,    \* [chars, eof, fail]
  csvState,  \* "idle", "append" (in the loop) or "undefined"
  expected   \* the records that were asked for, and whether all lines fit
csvVars == <<columns, records, stream, csvState, expected>>

NoStream == [chars |-> <<>>, eof |-> FALSE, fail |-> FALSE]
csvInit ==
  /\ columns \in ColumnTypes
  /\ records = <<>> /\ stream = NoStream /\ csvState = "idle"
  /\ expected = [rows |-> <<>>, fit |-> TRUE]

-----------------------------------------------------------------------------
(* The pattern and the match of a line                                     *)

\* getCsvPattern(): "\s*(" type ")\s*", joined by ",".
csvPattern(types) ==
  LET column(type) ==
        concatenate(concatenate(toString(<<"(">>), toString(<<type>>)), toString(<<")">>))
  IN FoldLeft(LAMBDA p, type : concatenate(concatenate(p, toString(<<",">>)), column(type)),
              column(Head(types)), Tail(types))
\* The groups of the compiled pattern.
csvRegex(types) == SelectSeq(toCStr(csvPattern(types)), LAMBDA c : c \notin {"(", ")", ","})

inLanguage(type, v) == CASE type = "bool" -> isBool(v) [] type = "integer" -> isInteger(v)
                         [] type = "float" -> isFloat(v) [] type = "string" -> isString(v)
\* regex_match: the ways to cut a line into columns at its commas, as the
\* first and the last position of the field of each column.  No field begins
\* or ends with a blank, so the blanks around it belong to \s*.
FieldOf(line, from, to) ==
  LET part == SubSeq(line, from, to)
      front == Longest(part, Blank)
      back == IF front = Len(part) THEN 0 ELSE Longest(Reverse(part), Blank)
  IN <<from + front, to - back>>
Matches(line, groups) ==
  LET n == Len(groups)
      commas == {i \in DOMAIN line : line[i] = ","}
      cuts == {c \in [0..n -> commas \cup {0, Len(line) + 1}] :
                 c[0] = 0 /\ c[n] = Len(line) + 1 /\ \A k \in 1..n : c[k - 1] < c[k]}
      fields(c) == [k \in 1..n |-> FieldOf(line, c[k - 1] + 1, c[k] - 1)]
  IN {f \in {fields(c) : c \in cuts} :
        \A k \in 1..n : inLanguage(groups[k], SubSeq(line, f[k][1], f[k][2]))}

-----------------------------------------------------------------------------
(* The values of the fields                                                *)

\* toCxxField(): a field is a pointer into the line and a length.
toCxxField(line, type, field) ==
  LET view == SubSeq(line, field[1], field[2])
      memory == Past(line, field[1] - 1)
  IN CASE type = "bool" -> toCxxBool(view)
       [] type = "integer" -> toCxxSigned(memory, NarrowBits)
       [] type = "float" -> strtod(memory)
       [] type = "string" -> toCxxString(view)
\* MUTANT: a field is read from the group before, the first one from the line.
toCxxRecordShifted(line, match) == [k \in DOMAIN columns |->
  toCxxField(line, columns[k], IF k = 1 THEN <<1, Len(line)>> ELSE match[k - 1])]
toCxxRecord(line, match) == [k \in DOMAIN columns |-> toCxxField(line, columns[k], match[k])]
\* Without a match every group is the empty text at the end of the line.
NoMatch(line) == [k \in DOMAIN columns |-> <<Len(line) + 1, Len(line)>>]

-----------------------------------------------------------------------------
(* append()                                                                *)

\* istream::getline(s, n): up to n - 1 characters and the newline behind them.
\* With none within reach it sets eofbit at the end of the stream and failbit
\* in a longer line; a stream that is not good gives an empty line.
getline(s, n) ==
  LET len == Longest(s.chars, ToSet(s.chars) \ {"\n"})
      good == ~s.eof /\ ~s.fail
  IN CASE ~good -> [line |-> <<>>, left |-> [s EXCEPT !.fail = TRUE]]
       [] good /\ len < n /\ len < Len(s.chars) ->
            [line |-> SubSeq(s.chars, 1, len), left |-> [s EXCEPT !.chars = Past(s.chars, len + 1)]]
       [] good /\ len < n /\ len = Len(s.chars) ->
            [line |-> s.chars, left |-> [chars |-> <<>>, eof |-> TRUE, fail |-> len = 0]]
       [] good /\ len >= n ->
            [line |-> SubSeq(s.chars, 1, n - 1),
             left |-> [s EXCEPT !.chars = Past(s.chars, n - 1), !.fail = TRUE]]

\* The end of the loop: whatever the last getline() has read is dropped.
AppendEnd ==
  /\ csvState = "append"
  /\ getline(stream, MaxCharsPerLine).left.eof
  /\ stream' = NoStream /\ csvState' = "idle"
  /\ UNCHANGED <<columns, records, expected>>

\* One turn: the result of the match is ignored.  Without a match a number is 0
\* and a bool false, and the first character of a string is taken off an empty
\* text, which is undefined.
AppendLine ==
  /\ csvState = "append"
  /\ LET read == getline(stream, MaxCharsPerLine)
         matches == Matches(read.line, csvRegex(columns))
         match == IF matches # {} THEN CHOOSE m \in matches : TRUE ELSE NoMatch(read.line)
     IN /\ ~read.left.eof
        /\ IF matches = {} /\ "string" \in ToSet(columns)
             THEN csvState' = "undefined" /\ UNCHANGED <<records, stream>>
             ELSE /\ records' = Append(records, toCxxRecord(read.line, match))
                  /\ stream' = read.left /\ UNCHANGED csvState
  /\ Len(records) < 2 * MaxLines
  /\ UNCHANGED <<columns, expected>>

csvClear ==
  /\ csvState = "idle"
  /\ records' = <<>> /\ expected' = [rows |-> <<>>, fit |-> TRUE]
  /\ UNCHANGED <<columns, stream, csvState>>

-----------------------------------------------------------------------------
(* The clients                                                             *)

\* The text of a value, and of a row with blanks around its fields.
Decimal(n) == (IF n < 0 THEN <<"-">> ELSE <<>>) \o <<ToString(IF n < 0 THEN -n ELSE n)>>
Shown(type, x) ==
  CASE type = "bool" -> IF x THEN SubSeq(truePattern, 1, 4) ELSE SubSeq(falsePattern, 1, 5)
    [] type = "integer" -> Decimal(x)
    [] type = "float" -> x
    [] type = "string" -> Quoted(x)
RowText(row, pad) == FlattenSeq([k \in DOMAIN columns |->
  (IF k = 1 THEN <<>> ELSE <<",">>) \o pad \o Shown(columns[k], row[k]) \o pad])
\* What a line stands for: a row, or zeros.
Zeros == [k \in DOMAIN columns |-> CASE columns[k] = "bool" -> FALSE [] columns[k] = "integer" -> 0
                                     [] columns[k] \in {"float", "string"} -> <<>>]
CsvLine(text, row) == [text |-> text, row |-> row]
Lines == {CsvLine(RowText(r, pad), r) : r \in CsvRows[columns], pad \in {<<>>, <<" ">>}}
           \cup {CsvLine(j, Zeros) : j \in CsvJunk}

\* append() of a stream of lines, the last one with or without its newline.
csvAppend ==
  /\ csvState = "idle"
  /\ \E n \in 0..(MaxLines - Len(records)) : \E lines \in [1..n -> Lines], whole \in BOOLEAN :
       LET complete == IF whole THEN n ELSE n - 1
           text == FlattenSeq([k \in 1..n |-> Append(lines[k].text, "\n")])
       IN /\ n = 0 => whole
          /\ stream' = [NoStream EXCEPT !.chars = SubSeq(text, 1, Len(text) - (IF whole THEN 0 ELSE 1))]
          /\ expected' = [rows |-> expected.rows \o [k \in 1..complete |-> lines[k].row],
                          fit |-> expected.fit /\ \A k \in 1..n : Len(lines[k].text) < MaxCharsPerLine]
  /\ csvState' = "append"
  /\ UNCHANGED <<columns, records>>

csvNext == csvAppend \/ AppendLine \/ AppendEnd \/ csvClear
csvSpec == csvInit /\ [][csvNext]_csvVars

-----------------------------------------------------------------------------
(* Properties                                                              *)

\* As long as all lines fit into the buffer, what append() stores are the values
\* of the rows, in their order and each in its column, whatever blanks, commas
\* and escapes the text of a row holds; a line that is no row counts as a row of
\* zeros, and the line behind the last newline is not read.
RecordsAreLines == expected.fit =>
  /\ IsPrefix(records, expected.rows)
  /\ csvState = "idle" => records = expected.rows
=============================================================================
