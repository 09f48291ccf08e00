------------------------------ MODULE CsvTable ------------------------------
(***************************************************************************)
(* The CSV adapter: packages/ingest/src/csv.ts, which turns a text into    *)
(* records with physical line numbers and the records into the cells of a  *)
(* RawTable.                                                               *)
(*                                                                         *)
(* A text is a sequence of characters; of Papa Parse only what the adapter *)
(* relies on is modelled: fields and records end at delimiters and line    *)
(* breaks outside quotes, records of nothing but blanks are skipped, and   *)
(* the cursor stands after the terminator of the record reported.  Line    *)
(* breaks are of one kind.  Positions count from 1, so that a cursor c is  *)
(* the position of the last character before it.                           *)
(***************************************************************************)
EXTENDS FiniteSetsExt, Sequences, Naturals

CONSTANTS Text,          \* the texts that may be read
          TabDelimited,  \* is the delimiter a tab, hence white space?
          RowsIncludingHeader, Columns, NonemptyCells, CellCharacters,  \* limits
          PreviewRows,
          HeaderRow, FirstColumn, LastColumn   \* choices, 0 for none

Char == {"text", "delimiter", "newline", "space", "quote"}

ASSUME CsvAssumption ==
    /\ Text \subseteq Seq(Char) /\ TabDelimited \in BOOLEAN
    /\ {RowsIncludingHeader, Columns, NonemptyCells, CellCharacters} \subseteq Nat
    /\ PreviewRows \in Nat \ {0}
    /\ HeaderRow \cup FirstColumn \cup LastColumn \subseteq Nat

VARIABLES
    text,         \* the decoded file
    pc,           \* where parseCsv is: "records", "select", "cells", "done", "failed"
    failure,      \* detail of the error, "none" without one
    prevCursor,   \* prevCursor
    records,      \* records
    skipped,      \* skippedBlankLines
    table,        \* the range selected, as indices of records and of columns
    read,         \* tableRecords whose cells were emitted
    cells,        \* cells
    nonempty      \* nonempty

vars == <<text, pc, failure, prevCursor, records, skipped, table, read, cells, nonempty>>

-----------------------------------------------------------------------------
(* The text                                                                *)

Quoted(p) == Cardinality({i \in 1..p : text[i] = "quote"}) % 2 = 1
Terminators == {p \in DOMAIN text : text[p] = "newline" /\ ~Quoted(p)}
Delimiters == {p \in DOMAIN text : text[p] = "delimiter" /\ ~Quoted(p)}

(* makeLineIndex: the line of a position.                                  *)
Line(p) == Cardinality({i \in 1..p - 1 : text[i] = "newline"}) + 1

(* Papa Parse: where records begin, where the one at p ends, and whether   *)
(* it is skipped (skipEmptyLines: 'greedy').                               *)
Begins == {p \in DOMAIN text : p = 1 \/ p - 1 \in Terminators}
End(p) == Min({e \in Terminators : e >= p} \cup {Len(text)})
BlankRecord(p) == \A i \in p..End(p) : text[i] # "text"
Pending(cursor) == {p \in Begins : p > cursor /\ ~BlankRecord(p)}

(* The number of characters in each field of the record at p: a character  *)
(* is of the field numbered by the delimiters up to it.                    *)
Fields(p) ==
    LET body == p..(IF End(p) \in Terminators THEN End(p) - 1 ELSE End(p))
        Number(i) == Cardinality(Delimiters \cap p..i) + 1
    IN [k \in 1..Cardinality(Delimiters \cap body) + 1 |->
           Cardinality({i \in body \ Delimiters : Number(i) = k /\ text[i] # "quote"})]

-----------------------------------------------------------------------------
Fail(detail) == pc' = "failed" /\ failure' = detail

Init ==
    /\ text \in Text
    /\ Cardinality({i \in DOMAIN text : text[i] = "quote"}) % 2 = 0
    /\ \A i \in {q \in DOMAIN text : text[q] = "quote"} :
          \A p \in DOMAIN text \cap {IF Quoted(i) THEN i - 1 ELSE i + 1} :
              text[p] \in {"delimiter", "newline"}
    /\ pc = "records" /\ failure = "none"
    /\ prevCursor = 0 /\ records = <<>> /\ skipped = FALSE
    /\ table = [header |-> 0, first |-> 0, last |-> 0]
    /\ read = 0 /\ cells = {} /\ nonempty = 0

(* isBlankGapChar                                                          *)
Gap == {"newline", "space"} \cup (IF TabDelimited THEN {"delimiter"} ELSE {})

(* Where the record that ends at e starts, seen from the cursor.           *)
StartOf(e) == Min({p \in prevCursor + 1..e : text[p] \notin Gap})

(* Mutant: the line of the position after the record.                      *)
EndLineAfter(e) == Line(e + 1)

EndLine(e) == Line(e)

(* Mutant: the cursor is moved past the character after the terminator.    *)
ReadRecordPast ==
    /\ pc = "records" /\ Pending(prevCursor) # {}
    /\ LET p == Min(Pending(prevCursor)) IN
       /\ records' = Append(records, [fields |-> Fields(p), at |-> p,
                                      startLine |-> Line(StartOf(End(p))),
                                      endLine |-> EndLine(End(p))])
       /\ skipped' = (skipped \/ StartOf(End(p)) > prevCursor + 1)
       /\ prevCursor' = End(p) + 1
    /\ UNCHANGED <<text, pc, failure, table, read, cells, nonempty>>

(* The step callback of parseCsvRecords.                                   *)
ReadRecord ==
    /\ pc = "records" /\ Pending(prevCursor) # {}
    /\ LET p == Min(Pending(prevCursor)) IN
       /\ records' = Append(records, [fields |-> Fields(p), at |-> p,
                                      startLine |-> Line(StartOf(End(p))),
                                      endLine |-> EndLine(End(p))])
       /\ skipped' = (skipped \/ StartOf(End(p)) > prevCursor + 1)
       /\ prevCursor' = End(p)
    /\ UNCHANGED <<text, pc, failure, table, read, cells, nonempty>>

RecordsRead ==
    /\ pc = "records" /\ Pending(prevCursor) = {}
    /\ IF records = <<>> THEN Fail("no-records") ELSE pc' = "select" /\ UNCHANGED failure
    /\ UNCHANGED <<text, prevCursor, records, skipped, table, read, cells, nonempty>>

-----------------------------------------------------------------------------
(* The range                                                               *)

Width(k) == Len(records[k].fields)

(* modalHeaderRecord: the first record of the most frequent width.         *)
ModalHeader ==
    LET sample == 1..Min({PreviewRows, Len(records)})
        Count(k) == Cardinality({j \in sample : Width(j) = Width(k)})
    IN Min({k \in sample : \A j \in sample : Count(k) >= Count(j)})

HeaderAt(row) ==
    IF row = 0 THEN {ModalHeader} ELSE {k \in DOMAIN records : records[k].startLine = row}

(* Mutant: the volume is that of the records, not of the lines they span.  *)
VolumeOfRecords(header, first, last) ==
    (Len(records) - header + 1) * (last - first + 1)

(* The positions of the range, which need not hold a cell.                 *)
Volume(header, first, last) ==
    (records[Len(records)].endLine - records[header].startLine + 1) * (last - first + 1)

SelectRange(row, first, lastOption) ==
    /\ pc = "select"
    /\ IF HeaderAt(row) = {} THEN Fail("header-row") /\ UNCHANGED table
       ELSE LET header == Min(HeaderAt(row))
                widest == Max({Width(k) : k \in header..Len(records)})
                last == IF lastOption = 0 THEN widest ELSE lastOption
            IN \/ /\ Len(records) - header + 1 > RowsIncludingHeader
                  /\ Fail("rows-including-header") /\ UNCHANGED table
               \/ /\ Len(records) - header + 1 <= RowsIncludingHeader
                  /\ first < 1 \/ first > last
                  /\ Fail("column-range-invalid") /\ UNCHANGED table
               \/ /\ Len(records) - header + 1 <= RowsIncludingHeader
                  /\ first >= 1 /\ first <= last
                  /\ IF last - first + 1 > Columns THEN Fail("columns") /\ UNCHANGED table
                     ELSE IF Volume(header, first, last) > NonemptyCells
                     THEN Fail("range-cells") /\ UNCHANGED table
                     ELSE /\ pc' = "cells" /\ UNCHANGED failure
                          /\ table' = [header |-> header, first |-> first, last |-> last]
    /\ UNCHANGED <<text, prevCursor, records, skipped, read, cells, nonempty>>

-----------------------------------------------------------------------------
(* The cells                                                               *)

Valued(k, c) == c \in 1..Width(k) /\ records[k].fields[c] > 0

(* Mutant: a ragged header leaves no placeholder.                          *)
CellsOfPresent(k) ==
    {[row |-> records[k].startLine, column |-> c, type |-> IF Valued(k, c) THEN "text" ELSE "blank"] :
        c \in {c \in table.first..table.last :
                  Valued(k, c) \/ (k = table.header /\ c <= Width(k))}}

(* A cell for each value, and in the header for each position.             *)
CellsOf(k) ==
    {[row |-> records[k].startLine, column |-> c, type |-> IF Valued(k, c) THEN "text" ELSE "blank"] :
        c \in {c \in table.first..table.last : Valued(k, c) \/ k = table.header}}

EmitRecord ==
    /\ pc = "cells"
    /\ LET k == table.header + read
           values == {c \in table.first..table.last : Valued(k, c)}
       IN /\ k <= Len(records)
          /\ IF \E c \in values : records[k].fields[c] > CellCharacters
             THEN Fail("cell.characters") /\ UNCHANGED <<read, cells, nonempty>>
             ELSE IF nonempty + Cardinality(values) > NonemptyCells
             THEN Fail("nonempty-cells") /\ UNCHANGED <<read, cells, nonempty>>
             ELSE /\ read' = read + 1
                  /\ cells' = cells \cup CellsOf(k)
                  /\ nonempty' = nonempty + Cardinality(values)
                  /\ UNCHANGED <<pc, failure>>
    /\ UNCHANGED <<text, prevCursor, records, skipped, table>>

FirstRow == records[table.header].startLine
LastRow == records[Len(records)].endLine

(* The table is checked against its contract before it is returned.        *)
Finish ==
    /\ pc = "cells" /\ table.header + read > Len(records)
    /\ IF FirstRow <= LastRow /\ table.first <= table.last
       THEN pc' = "done" /\ UNCHANGED failure
       ELSE Fail("raw-table-contract-violation")
    /\ UNCHANGED <<text, prevCursor, records, skipped, table, read, cells, nonempty>>

(* checkAbort, before each record and each row.                            *)
Abort ==
    /\ pc \in {"records", "cells"}
    /\ Fail("cancelled")
    /\ UNCHANGED <<text, prevCursor, records, skipped, table, read, cells, nonempty>>

Next ==
    \/ ReadRecord \/ RecordsRead
    \/ \E row \in HeaderRow, first \in FirstColumn, last \in LastColumn :
          SelectRange(row, first, last)
    \/ EmitRecord \/ Finish \/ Abort

Spec == Init /\ [][Next]_vars

-----------------------------------------------------------------------------
(* Properties                                                              *)

(* Records never share a line, so the row of a cell tells its record.      *)
LinesDisjoint ==
    \A k \in DOMAIN records :
        /\ records[k].startLine <= records[k].endLine
        /\ k > 1 => records[k - 1].endLine < records[k].startLine

(* The true records of the text from the header on.                        *)
TrueRecords == {p \in Begins : ~BlankRecord(p) /\ p >= records[table.header].at}

(* Nothing is lost or moved between columns: the table holds a value for   *)
(* each field of the text that has one, and only those, in its columns.    *)
ValuesOfText ==
    pc = "done" =>
        \A c \in table.first..table.last :
            Cardinality({cell \in cells : cell.column = c /\ cell.type = "text"})
                = Cardinality({p \in TrueRecords : c \in DOMAIN Fields(p) /\ Fields(p)[c] > 0})

(* The lines on which a value of the record at p may stand: up to the last *)
(* of the record, past those of the records before it.                     *)
RowsOf(p) ==
    {row \in FirstRow..LastRow :
        row <= Line(End(p)) /\ \A q \in TrueRecords : q < p => Line(End(q)) < row}

(* A table that is returned is whole and bounded: a place holds one cell,  *)
(* the line and the column of a value lead back to the field of the text   *)
(* it is from and every field with a value is found there, whatever was    *)
(* quoted or skipped; each column has a place in the header; no cell is    *)
(* outside the range, which has no more positions than the limit.          *)
(* (parseCsv)                                                              *)
TableWhole ==
    pc = "done" =>
        /\ \A cell, other \in cells :
              cell.row = other.row /\ cell.column = other.column => cell = other
        /\ \A p \in TrueRecords, c \in table.first..table.last :
              c \in DOMAIN Fields(p) /\ Fields(p)[c] > 0
                  <=> \E cell \in cells :
                         cell.column = c /\ cell.type = "text" /\ cell.row \in RowsOf(p)
        /\ \A c \in table.first..table.last :
              \E cell \in cells : cell.row = FirstRow /\ cell.column = c
        /\ \A cell \in cells :
              cell.row \in FirstRow..LastRow /\ cell.column \in table.first..table.last
        /\ Cardinality((FirstRow..LastRow) \X (table.first..table.last)) <= NonemptyCells

(* "empty fields are 'blank' cells; absent fields (ragged rows) emit       *)
(* nothing": of each record of the table, a blank stands for each field    *)
(* that is empty and for no other.  (parseCsv, comment of csv.ts)          *)
BlankForEmpty ==
    pc = "done" =>
        \A k \in table.header..Len(records), c \in table.first..table.last :
            c \in 1..Width(k) /\ ~Valued(k, c)
                <=> \E cell \in cells :
                       /\ cell.row = records[k].startLine /\ cell.column = c
                       /\ cell.type = "blank"

(* "a RawCell's row is the 1-based physical line where its record STARTS". *)
StartsAtRecord == \A k \in DOMAIN records : records[k].startLine = Line(records[k].at)

(* "no selection can address more physical rows than the ingestion cap     *)
(* admits": every row of a table lies in the envelope of evidence.         *)
RowsAddressable == pc = "done" => \A cell \in cells : cell.row <= RowsIncludingHeader
=============================================================================
