-------------------------------- MODULE Csv --------------------------------
(***************************************************************************)
(* From a file to the batches of an import: the CSV that the server writes *)
(* (common/csv.ts, products.controller.ts) or a spreadsheet saves, read    *)
(* one character at a time (lib/csv/parse.ts), previewed row by row        *)
(* (lib/csv/products.ts) and cut into batches (lib/csv/chunk.ts).  A cell  *)
(* is a sequence of characters: a few that mean something to a CSV, the    *)
(* digit "1", and "x" for all others.                                      *)
(***************************************************************************)
EXTENDS Integers, Sequences, FiniteSets, SequencesExt

CONSTANTS
    Tables,    \* tables to write: sequences of rows of cells, one per column of Header
    Doubled,   \* keys that two products of the catalogue have
    MinName,   \* fewest characters of a name
    MaxBytes,  \* budget of a batch
    MaxRows    \* most rows of a batch

Quote == "q"
CR == "r"
LF == "n"
Mark == "B"          \* the byte order mark
Sep == "S"           \* the four characters sep=
Candidates == <<",", ";", "t">>
White == {CR, LF, " ", "t"}

\* The columns the reader knows, and the ones it must have.
Header == <<<<"N">>, <<"P">>, <<"D">>>>
NameAt == 1
PriceAt == 2

ASSUME CsvAssumption ==
    /\ \A tb \in Tables : \A i \in DOMAIN tb : Len(tb[i]) = Len(Header)
    /\ {MinName, MaxBytes, MaxRows} \subseteq Nat \ {0}

VARIABLES
    table,    \* what was written
    stage,    \* "read", "preview", "cut" or "done"
    text,     \* what is left to read
    delimiter,
    field, cells, rows,
    quoted,   \* inside quotes
    opened,   \* the field began with a quote
    valid,    \* rows still to be put in a batch
    batch, batches

reader == <<text, field, cells, rows, quoted, opened>>
cutter == <<valid, batch, batches>>
vars == <<table, stage, delimiter, reader, cutter>>

-----------------------------------------------------------------------------
(* Writing.                                                                *)

Join(parts, glue) ==
    FlattenSeq([i \in 1..Len(parts) |-> IF i = 1 THEN parts[i] ELSE glue \o parts[i]])

\* A cell is quoted if it holds a separator, a quote or the end of a line.
ToCell(c, d) ==
    IF ToSet(c) \cap {d, Quote, CR, LF} = {} THEN c
    ELSE <<Quote>>
         \o FlattenSeq([i \in 1..Len(c) |-> IF c[i] = Quote THEN <<Quote, Quote>> ELSE <<c[i]>>])
         \o <<Quote>>

Lines(tb, d) ==
    LET all == <<Header>> \o tb IN
    [i \in 1..Len(all) |-> Join([j \in 1..Len(all[i]) |-> ToCell(all[i][j], d)], <<d>>)]

\* The export of the catalogue and the template: a mark, the directive and the table.
CsvForExcel(tb) == <<Mark, Sep, ",", CR, LF>> \o Join(Lines(tb, ","), <<CR, LF>>)

\* What a spreadsheet saves: its own separator and ends of line, no directive.
Sheets(tb) ==
    {Join(Lines(tb, d), eol) \o last :
        d \in ToSet(Candidates), eol \in {<<CR, LF>>, <<CR>>, <<LF>>}, last \in {<<>>, <<LF>>}}

-----------------------------------------------------------------------------
(* Reading.                                                                *)

Unmarked(t) == IF t # <<>> /\ Head(t) = Mark THEN Tail(t) ELSE t

\* How long the line of the directive is, 0 without one.
Directive(t) ==
    IF ~(Len(t) > 2 /\ t[1] = Sep /\ t[2] \in ToSet(Candidates)) THEN 0
    ELSE IF t[3] = LF THEN 3
    ELSE IF Len(t) > 3 /\ t[3] = CR /\ t[4] = LF THEN 4 ELSE 0

\* Mutant: separators are counted in the whole file.
DetectDelimiterAnywhere(t) ==
    LET Count(c) == Cardinality({i \in DOMAIN t : t[i] = c})
        Better(c, best) == IF Count(c) > Count(best) THEN c ELSE best
    IN  Better("t", Better(";", ","))

\* The candidate that the first record has most of outside quotes, a comma in doubt.
DetectDelimiter(t) ==
    LET Outside(i) == Cardinality({j \in 1..(i - 1) : t[j] = Quote}) % 2 = 0
        First == {i \in DOMAIN t : \A j \in 1..i : t[j] \in {CR, LF} => ~Outside(j)}
        Count(c) == Cardinality({i \in First : t[i] = c /\ Outside(i)})
        Better(c, best) == IF Count(c) > Count(best) THEN c ELSE best
    IN  Better("t", Better(";", ","))

Init ==
    \E tb \in Tables : \E raw \in Sheets(tb) \cup {CsvForExcel(tb)} :
        LET t == Unmarked(raw)  skip == Directive(t) IN
        /\ table = tb /\ stage = "read"
        /\ delimiter = IF skip > 0 THEN t[2] ELSE DetectDelimiter(t)
        /\ text = SubSeq(t, skip + 1, Len(t))
        /\ field = <<>> /\ cells = <<>> /\ rows = <<>> /\ quoted = FALSE /\ opened = FALSE
        /\ valid = <<>> /\ batch = <<>> /\ batches = <<>>

Ch == Head(text)
Then == IF Len(text) > 1 THEN text[2] ELSE ""
Skip(k) == text' = SubSeq(text, k + 1, Len(text))
Reading == stage = "read" /\ text # <<>> /\ UNCHANGED <<table, stage, delimiter, cutter>>

Keep(c) == field' = Append(field, c) /\ UNCHANGED <<cells, rows, opened>>
EndField == field' = <<>> /\ opened' = FALSE /\ cells' = Append(cells, field)
EndRecord ==
    /\ field' = <<>> /\ opened' = FALSE /\ cells' = <<>>
    /\ rows' = Append(rows, Append(cells, field))

\* A doubled quote inside quotes is one quote.
EscapedQuote ==
    /\ Reading /\ quoted /\ Ch = Quote /\ Then = Quote
    /\ Keep(Quote) /\ Skip(2) /\ UNCHANGED quoted

CloseQuote ==
    /\ Reading /\ quoted /\ Ch = Quote /\ Then # Quote
    /\ quoted' = FALSE /\ Skip(1) /\ UNCHANGED <<field, cells, rows, opened>>

\* A CRLF inside quotes is kept as LF.
QuotedLineEnd ==
    /\ Reading /\ quoted /\ Ch = CR /\ Then = LF
    /\ Keep(LF) /\ Skip(2) /\ UNCHANGED quoted

QuotedChar ==
    /\ Reading /\ quoted /\ Ch # Quote /\ ~(Ch = CR /\ Then = LF)
    /\ Keep(Ch) /\ Skip(1) /\ UNCHANGED quoted

\* Only at the beginning of a field does a quote open.
Opens == Ch = Quote /\ field = <<>> /\ ~opened

OpenQuote ==
    /\ Reading /\ ~quoted /\ Opens
    /\ quoted' = TRUE /\ opened' = TRUE /\ Skip(1) /\ UNCHANGED <<field, cells, rows>>

Delimit ==
    /\ Reading /\ ~quoted /\ Ch = delimiter
    /\ EndField /\ Skip(1) /\ UNCHANGED <<rows, quoted>>

EndOfLine ==
    /\ Reading /\ ~quoted /\ Ch \in {CR, LF}
    /\ EndRecord /\ Skip(IF Ch = CR /\ Then = LF THEN 2 ELSE 1) /\ UNCHANGED quoted

PlainChar ==
    /\ Reading /\ ~quoted /\ ~Opens /\ Ch \notin {delimiter, CR, LF}
    /\ Keep(Ch) /\ Skip(1) /\ UNCHANGED quoted

\* The end of the file ends the last record, unless a line end has.
Finish ==
    /\ stage = "read" /\ text = <<>>
    /\ stage' = "preview"
    /\ IF field # <<>> \/ cells # <<>> THEN EndRecord ELSE UNCHANGED <<field, cells, rows, opened>>
    /\ UNCHANGED <<table, delimiter, text, quoted, cutter>>

Blank(c) == ToSet(c) \subseteq White
IsBlankRow(row) == \A j \in DOMAIN row : Blank(row[j])

\* The records, each with the number its row has in the file.
Records ==
    SelectSeq([i \in 1..(Len(rows) - 1) |-> [line |-> i + 1, cells |-> rows[i + 1]]],
              LAMBDA r : ~IsBlankRow(r.cells))

-----------------------------------------------------------------------------
(* Previewing.                                                             *)

Cell(r, j) == IF j <= Len(r.cells) THEN r.cells[j] ELSE <<>>

Trim(c) ==
    LET ink == {i \in DOMAIN c : c[i] \notin White} IN
    IF ink = {} THEN <<>>
    ELSE SubSeq(c, CHOOSE i \in ink : \A j \in ink : i <= j, CHOOSE i \in ink : \A j \in ink : j <= i)

\* productKey: white space counts as one blank.
ProductKey(c) ==
    LET t == Trim(c) IN
    FlattenSeq([i \in 1..Len(t) |-> IF t[i] \notin White THEN <<t[i]>>
                                    ELSE IF t[i - 1] \in White THEN <<>> ELSE <<" ">>])

KeyOf(r) == ProductKey(Cell(r, NameAt))

\* Mutant: the first of two rows of one name is taken.
RepeatedLater(r, all) ==
    \E i \in DOMAIN all : all[i].line < r.line /\ KeyOf(all[i]) = KeyOf(r)

\* Every row of a name that comes twice is an error: nobody guesses which one counts.
Repeated(r, all) ==
    \E i \in DOMAIN all : all[i].line # r.line /\ KeyOf(all[i]) = KeyOf(r)

IsError(r, all) ==
    \/ \E j \in DOMAIN r.cells : j > Len(Header) /\ ~Blank(r.cells[j])
    \/ Len(Trim(Cell(r, NameAt))) < MinName
    \/ Repeated(r, all)
    \/ KeyOf(r) \in Doubled
    \/ "1" \notin ToSet(Cell(r, PriceAt))

BuildPreview ==
    /\ stage = "preview" /\ stage' = "cut"
    /\ valid' = LET all == Records IN SelectSeq(all, LAMBDA r : ~IsError(r, all))
    /\ UNCHANGED <<table, delimiter, reader, batch, batches>>

-----------------------------------------------------------------------------
(* Cutting.                                                                *)

\* Bytes of a row in the body, with its comma.
Weight(r) == FoldLeft(LAMBDA n, c : n + Len(c), 1, r.cells)
Bytes(b) == FoldLeft(LAMBDA n, r : n + Weight(r), 0, b)

\* The row does not fit with the ones before it.
IsFull(r) == batch # <<>> /\ (Bytes(batch) + Weight(r) > MaxBytes \/ Len(batch) >= MaxRows)

ChunkByBytes ==
    /\ stage = "cut" /\ valid # <<>>
    /\ LET r == Head(valid) IN
       IF IsFull(r) THEN batches' = Append(batches, batch) /\ batch' = <<r>>
       ELSE batch' = Append(batch, r) /\ UNCHANGED batches
    /\ valid' = Tail(valid)
    /\ UNCHANGED <<table, stage, delimiter, reader>>

LastBatch ==
    /\ stage = "cut" /\ valid = <<>> /\ stage' = "done"
    /\ batches' = IF batch = <<>> THEN batches ELSE Append(batches, batch)
    /\ batch' = <<>>
    /\ UNCHANGED <<table, delimiter, reader, valid>>

Next ==
    \/ EscapedQuote \/ CloseQuote \/ QuotedLineEnd \/ QuotedChar
    \/ OpenQuote \/ Delimit \/ EndOfLine \/ PlainChar \/ Finish
    \/ BuildPreview \/ ChunkByBytes \/ LastBatch

Spec == Init /\ [][Next]_vars
-----------------------------------------------------------------------------
(* Properties                                                              *)

\* A cell as it comes back: a CRLF in it has become LF.
AsRead(c) ==
    FlattenSeq([i \in 1..Len(c) |->
        IF c[i] = CR /\ i < Len(c) /\ c[i + 1] = LF THEN <<>> ELSE <<c[i]>>])

\* What was written is what is read, whoever wrote it and whatever is in the cells: every
\* row that is not blank comes back cell by cell and with the number it has in the file.
RoundTrip ==
    stage \notin {"read"} =>
        /\ rows[1] = Header
        /\ Records = SelectSeq(
             [i \in 1..Len(table) |->
                [line |-> i + 1, cells |-> [j \in 1..Len(Header) |-> AsRead(table[i][j])]]],
             LAMBDA r : ~IsBlankRow(r.cells))

\* What Import takes for granted of a file: a name that comes in two of its rows, in
\* whatever spelling, is sent in none, nor is one that two products of the catalogue have.
SentOnce ==
    LET all == Records  sent == FlattenSeq(batches) IN
    \A i \in DOMAIN sent :
        /\ KeyOf(sent[i]) \notin Doubled \cup {<<>>}
        /\ Cardinality({j \in DOMAIN all : KeyOf(all[j]) = KeyOf(sent[i])}) = 1

\* Cutting drops and repeats no row and keeps their order; a batch is over its budget only
\* if it is a single row.
BatchesFit ==
    /\ stage = "done" =>
         LET all == Records IN FlattenSeq(batches) = SelectSeq(all, LAMBDA r : ~IsError(r, all))
    /\ \A i \in DOMAIN batches :
         /\ Len(batches[i]) \in 1..MaxRows
         /\ Bytes(batches[i]) > MaxBytes => Len(batches[i]) = 1

\* The good rows of a file reach the server, each in one batch of a size it takes.
GoodRowsAreSent == SentOnce /\ BatchesFit
=============================================================================
