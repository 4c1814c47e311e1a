------------------------------ MODULE CsvText ------------------------------
(***************************************************************************)
(* CSV text, as the capture, the parser and the plotter write and read it  *)
(* (csv_escape and split_csv_line in crates/canrush-core/src/capture.rs,   *)
(* parser.rs and plot.rs, and in crates/canrush-cli/src/main.rs).          *)
(*                                                                         *)
(* A text is a sequence of characters, of which a comma, a quote, a line   *)
(* break and any other are told apart.  What is formatted from a number or *)
(* an enumeration holds none of these and is one symbol, <<"value", v>>;   *)
(* a number in such a text is told apart by the format it is printed with. *)
(***************************************************************************)
EXTENDS Naturals, Sequences, SequencesExt

Char(c) == <<"char", c>>
Comma   == Char(",")
Quote   == Char("quote")
Newline == Char("newline")
Special == {Comma, Quote, Newline}

\* The texts that a user may choose.
Text == Seq({"char"} \X STRING)

\* The text of a value, and the value of such a text.
Field(value) == << <<"value", value>> >>
IsField(text) == Len(text) = 1 /\ text[1][1] = "value"
FieldOf(text) == text[1][2]

\* A number printed as Rust prints it with these formats, and read again.  A
\* text printed in one base is not read in the other anywhere.
Decimal(n)     == <<"{}", n>>
UpperHex(n)    == <<"{:X}", n>>
PrefixedHex(n) == <<"0x{:X}", n>>

ReadAs(formats, text) == IF text[1] \in formats THEN {text[2]} ELSE {}

ReadDecimal(text) == ReadAs({"{}"}, text)
ReadHex(text)     == ReadAs({"{:X}"}, text)
\* parse_can_id, with 0x in front or without.
ReadCanId(text)   == ReadAs({"{:X}", "0x{:X}"}, text)

\* Mutated form of Escape: quotes are not doubled.
EscapeOnce(text) ==
  IF ToSet(text) \cap Special = {} THEN text ELSE <<Quote>> \o text \o <<Quote>>

\* csv_escape.
Escape(text) ==
  IF ToSet(text) \cap Special = {} THEN text
  ELSE <<Quote>> \o FlattenSeq([i \in 1 .. Len(text) |->
                                  IF text[i] = Quote THEN <<Quote, Quote>> ELSE <<text[i]>>])
                 \o <<Quote>>

\* A row as it is written: its columns with commas between them.
Joined(columns) ==
  FlattenSeq([i \in 1 .. Len(columns) |->
                IF i = 1 THEN columns[i] ELSE <<Comma>> \o columns[i]])

\* One more character at the end of the last of these texts.
Grown(texts, c) == Front(texts) \o <<Append(Last(texts), c)>>

\* split_csv_line, one character: a quote inside quotes waits for the next
\* character, with which it may be a pair that stands for one quote.
Scanned(at, c) ==
  IF c = Quote
  THEN IF at.mode = "quote"
       THEN [columns |-> Grown(at.columns, c), mode |-> "inside"]
       ELSE [columns |-> at.columns, mode |-> IF at.mode = "inside" THEN "quote" ELSE "inside"]
  ELSE IF c = Comma /\ at.mode # "inside"
       THEN [columns |-> Append(at.columns, <<>>), mode |-> "outside"]
       ELSE [columns |-> Grown(at.columns, c),
             mode    |-> IF at.mode = "inside" THEN "inside" ELSE "outside"]

\* split_csv_line.
SplitLine(line) ==
  FoldLeft(Scanned, [columns |-> << <<>> >>, mode |-> "outside"], line).columns

\* writeln! of each row.
FileText(rows) == FlattenSeq([i \in 1 .. Len(rows) |-> rows[i] \o <<Newline>>])

\* BufRead::lines, one character.
LineRead(lines, c) == IF c = Newline THEN Append(lines, <<>>) ELSE Grown(lines, c)

\* What is kept of these items, pushed one after the other in the order of
\* their arrival.
KeptOf(items, Accepts(_)) ==
  FoldLeft(LAMBDA kept, item : IF Accepts(item) THEN Append(kept, item) ELSE kept, <<>>, items)

\* The lines of a text that are not empty.
FileLines(text) ==
  KeptOf(FoldLeft(LineRead, << <<>> >>, text), LAMBDA line : line # <<>>)

\* A file is read row by row, and refused as a whole when one row is.
ReadRows(text, ReadRow(_)) ==
  LET read == [i \in 1 .. Len(FileLines(text)) |-> ReadRow(FileLines(text)[i])]
  IN  IF \E i \in DOMAIN read : read[i] = {} THEN {}
      ELSE {[i \in DOMAIN read |-> CHOOSE row \in read[i] : TRUE]}
=============================================================================
