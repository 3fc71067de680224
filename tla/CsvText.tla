------------------------------- MODULE CsvText -------------------------------
(***************************************************************************)
(* The text of a CSV file: how csv.ts writes one and how csv-import.ts     *)
(* reads one.  A text is a sequence of symbols; of the characters only     *)
(* those the two sides treat differently are told apart.                   *)
(***************************************************************************)
EXTENDS Naturals, Sequences, SequencesExt

Letter == "a"
LongNumber == "9"       \* a run of twelve digits or more
Formula == "="          \* any of = + - @
Tab == "t"
Mark == "'"
Quote == "Q"
CR == "r"
LF == "n"
Space == " "
BOM == "bom"
Comma == ","
Semicolon == ";"
Bar == "|"
Symbols == {Letter, LongNumber, Formula, Tab, Mark, Quote, CR, LF, Space, BOM,
            Comma, Semicolon, Bar}

-----------------------------------------------------------------------------
(* csv.ts                                                                   *)

neutralise(text) ==
    IF text # <<>> /\ text[1] \in {Formula, Tab, CR} THEN <<Mark>> \o text ELSE text
preserveDigits(text) == IF ToSet(text) = {LongNumber} THEN <<Mark>> \o text ELSE text
Safe(text) == preserveDigits(neutralise(text))

Doubled(text) == FlattenSeq([i \in DOMAIN text |->
                    IF text[i] = Quote THEN <<Quote, Quote>> ELSE <<text[i]>>])

cellUnquoted(text) == Safe(text)

cell(text) ==
    IF ToSet(Safe(text)) \intersect {Quote, Comma, LF, CR} # {}
    THEN <<Quote>> \o Doubled(Safe(text)) \o <<Quote>> ELSE Safe(text)

Joined(parts, glue) ==
    FlattenSeq([i \in DOMAIN parts |-> IF i = 1 THEN parts[i] ELSE glue \o parts[i]])
csvRow(row) == Joined([i \in DOMAIN row |-> cell(row[i])], <<Comma>>)
toCsv(rows) == <<BOM>> \o Joined([i \in DOMAIN rows |-> csvRow(rows[i])], <<CR, LF>>)
                       \o <<CR, LF>>

-----------------------------------------------------------------------------
(* csv-import.ts                                                            *)

decodeUpload(text) == IF text # <<>> /\ text[1] = BOM THEN Tail(text) ELSE text

FirstLine(text) ==
    LET breaks == {i \in DOMAIN text : text[i] \in {CR, LF}}
    IN  IF breaks = {} THEN text
        ELSE SubSeq(text, 1, (CHOOSE i \in breaks : \A j \in breaks : i <= j) - 1)

(* Occurrences outside quoted runs of the line.                              *)
Outside(line, d) ==
    Cardinality({i \in DOMAIN line : line[i] = d
        /\ Cardinality({j \in 1 .. i - 1 : line[j] = Quote}) % 2 = 0})

(* The candidate found most often, the first of several.                     *)
Candidates == <<Comma, Semicolon, Tab, Bar>>
sniffDelimiter(line) ==
    Candidates[CHOOSE k \in 1 .. 4 :
        /\ \A j \in 1 .. k - 1 : Outside(line, Candidates[j]) < Outside(line, Candidates[k])
        /\ \A j \in k + 1 .. 4 : Outside(line, Candidates[j]) <= Outside(line, Candidates[k])]

(* The scanner: records so far, the one being read, its last field, whether
   it is inside quotes, and whether the symbol was consumed with the last.   *)
Scanner == [rows |-> <<>>, row |-> <<>>, field |-> <<>>, quoted |-> FALSE, skip |-> FALSE]

EndField(s) == [s EXCEPT !.row = Append(@, s.field), !.field = <<>>]
EndRecord(s) == [s EXCEPT !.rows = Append(@, Append(s.row, s.field)), !.row = <<>>,
                          !.field = <<>>]

Scan(text, d, s, i) ==
    LET ch == text[i]
        next == IF i < Len(text) THEN text[i + 1] ELSE BOM
        plain == [s EXCEPT !.field = Append(@, ch)] IN
    CASE s.skip -> [s EXCEPT !.skip = FALSE]
      [] ~s.skip /\ s.quoted ->
           IF ch # Quote THEN plain
           ELSE IF next = Quote THEN [plain EXCEPT !.skip = TRUE]
           ELSE [s EXCEPT !.quoted = FALSE]
      [] ~s.skip /\ ~s.quoted ->
           CASE ch = Quote -> [s EXCEPT !.quoted = TRUE]
             [] ch = d -> EndField(s)
             [] ch = CR -> IF next = LF THEN s ELSE EndRecord(s)
             [] ch = LF -> EndRecord(s)
             [] OTHER -> plain

Trimmed(text) ==
    LET kept == {i \in DOMAIN text : text[i] \notin {Space, Tab, CR, LF, BOM}}
    IN  IF kept = {} THEN <<>>
        ELSE SubSeq(text, CHOOSE i \in kept : \A j \in kept : i <= j,
                          CHOOSE i \in kept : \A j \in kept : i >= j)
BlankRow(row) == \A i \in DOMAIN row : Trimmed(row[i]) = <<>>

NotBlank(rows) == SelectSeq(rows, LAMBDA row : ~BlankRow(row))

(* The scanner after the whole text.                                         *)
Scanned(text, d) ==
    LET scan[i \in 0 .. Len(text)] == IF i = 0 THEN Scanner ELSE Scan(text, d, scan[i - 1], i)
    IN  scan[Len(text)]

parseDelimited(text) ==
    LET s == Scanned(text, sniffDelimiter(FirstLine(text)))
        all == IF s.field # <<>> \/ s.row # <<>> THEN EndRecord(s).rows ELSE s.rows
    IN  [headers |-> [i \in DOMAIN Head(all) |-> Trimmed(Head(all)[i])],
         rows |-> NotBlank(Tail(all))]
=============================================================================
