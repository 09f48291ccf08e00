----------------------------- MODULE SheetReader -----------------------------
(***************************************************************************)
(* From the parts of a workbook to the cells of a table, and to the        *)
(* preview of the upload screen: ingest/src/xlsx.ts and inspect.ts,        *)
(* scanSheetXml of xlsx-meta.ts, and the header row that                   *)
(* apps/web/src/upload/derive.ts suggests.                                 *)
(*                                                                         *)
(* The cells of a sheet part are in the order they are written, each with  *)
(* a shape: "styled" is an empty element <c .../>, "bare" a formula with   *)
(* no value, "empty" an empty string.  Of the workbook library only what   *)
(* the adapter relies on is modelled: it yields the cells of the sheet     *)
(* but for the styled and the bare ones.                                   *)
(***************************************************************************)
EXTENDS Package, Integers

CONSTANTS RowsIncludingHeader, MaxColumns, NonemptyCells, VisibleSheets,   \* limits
          PreviewRows

ASSUME ReaderAssumption ==
    /\ {RowsIncludingHeader, MaxColumns, NonemptyCells, VisibleSheets} \subseteq Nat
    /\ PreviewRows \in Nat \ {0}

Unset == 0    \* an option that is undefined

VisibleOf(sheets) == {i \in DOMAIN sheets : Visible(sheets[i])}
SelectError(sheets, options) ==
    LET visible == VisibleOf(sheets)
        chosen == {i \in DOMAIN sheets : sheets[i].id = options.sheet}
    IN FirstOf(<<Unless(Cardinality(visible) <= VisibleSheets, "LIMIT_EXCEEDED", "xlsx.visible-sheets"),
                 Unless(options.sheet >= 0 => chosen # {}, "INVALID_FILE", "xlsx.sheet-not-found"),
                 Unless(options.sheet >= 0 /\ ~options.allowHidden =>
                           \A i \in chosen : Visible(sheets[i]),
                        "UNSUPPORTED", "xlsx.sheet-hidden-requires-opt-in"),
                 Unless(options.sheet >= 0 \/ visible # {}, "UNSUPPORTED", "xlsx.no-visible-sheets")>>)
SelectSheet(sheets, options) ==
    sheets[IF options.sheet >= 0 THEN options.sheet + 1 ELSE Min(VisibleOf(sheets))]

-----------------------------------------------------------------------------
(* What the library yields of a part, by place                             *)

Data(part) == {i \in DOMAIN part.cells : part.cells[i].shape \notin {"styled", "bare"}}
RowsOf(part) == {part.cells[i].row : i \in Data(part)}
Width(part, row) == Cardinality({i \in Data(part) : part.cells[i].row = row})
FirstRows(rows, n) == {r \in rows : Cardinality({s \in rows : s < r}) < n}

(* The first row of a band whose width most rows of the band have; of two  *)
(* widths met equally often, the one met first.                            *)
ModalRow(rows, width(_)) ==
    LET alike(r) == Cardinality({s \in rows : width(s) = width(r)})
    IN Min({r \in rows : \A s \in rows : alike(r) >= alike(s)})
ModalHeaderRow(part) ==
    ModalRow(FirstRows(RowsOf(part), PreviewRows), LAMBDA r : Width(part, r))

(* The rows after the header only.                                         *)
BelowHeader(part, header) ==
    BoundsOf({part.cells[i] : i \in {j \in Data(part) : part.cells[j].row > header}})
ContentBounds(part, header) ==
    BoundsOf({part.cells[i] : i \in {j \in Data(part) : part.cells[j].row >= header}})
HeaderOf(part, options) ==
    IF options.header # Unset THEN options.header ELSE ModalHeaderRow(part)
ResolveBounds(part, options) ==
    LET content == ContentBounds(part, HeaderOf(part, options))
    IN [content EXCEPT !.firstRow = HeaderOf(part, options),
            !.firstColumn = IF options.firstColumn # Unset THEN options.firstColumn ELSE @,
            !.lastColumn = IF options.lastColumn # Unset THEN options.lastColumn ELSE @]
Rows(bounds) == bounds.lastRow - bounds.firstRow + 1
Columns(bounds) == bounds.lastColumn - bounds.firstColumn + 1
ResolveError(part, options) ==
    IF Data(part) = {} THEN Error("INVALID_FILE", "xlsx.empty-sheet")
    ELSE LET header == HeaderOf(part, options)
             bounds == ResolveBounds(part, options)
         IN FirstOf(<<Unless(\E r \in RowsOf(part) : r >= header,
                             "INVALID_FILE", "xlsx.header-row-beyond-content"),
                      Unless(bounds.firstColumn <= bounds.lastColumn,
                             "INVALID_FILE", "xlsx.column-range-invalid"),
                      Unless(Rows(bounds) <= RowsIncludingHeader,
                             "LIMIT_EXCEEDED", "rows-including-header"),
                      Unless(Columns(bounds) <= MaxColumns, "LIMIT_EXCEEDED", "columns")>>)

-----------------------------------------------------------------------------
(* The cells of a range                                                    *)

Within(place, bounds) == /\ place.row \in bounds.firstRow..bounds.lastRow
                         /\ place.column \in bounds.firstColumn..bounds.lastColumn
MapCell(cell) ==
    [row |-> cell.row, column |-> cell.column, text |-> cell.text,
     type |-> CASE cell.shape \in {"date", "badDate"} -> "date"
                [] cell.shape = "empty" -> "blank"
                [] cell.shape = "long" -> "text"
                [] OTHER -> cell.shape]
Blank(row, column) == [row |-> row, column |-> column, text |-> 0, type |-> "blank"]
FormulaCell(cell) == [MapCell(cell) EXCEPT !.type = "formula"]

CellsIn(part, bounds) == {part.cells[i] : i \in {j \in Data(part) : Within(part.cells[j], bounds)}}
Nonblank(cells) == {c \in cells : c.type # "blank"}
EmitError(part, bounds) ==
    LET cells == CellsIn(part, bounds)
    IN FirstOf(<<Unless(Rows(bounds) * Columns(bounds) <= NonemptyCells,
                        "LIMIT_EXCEEDED", "range-cells"),
                 Unless(\A c \in cells : c.shape # "long", "LIMIT_EXCEEDED", "cell.characters"),
                 Unless(Cardinality(Nonblank({MapCell(c) : c \in cells})) <= NonemptyCells,
                        "LIMIT_EXCEEDED", "nonempty-cells")>>)
(* A place of the header row is written even when nothing is there.        *)
EmitCells(part, bounds) ==
    LET cells == {MapCell(c) : c \in CellsIn(part, bounds)}
        header == {Blank(bounds.firstRow, c) : c \in bounds.firstColumn..bounds.lastColumn}
    IN Nonblank(cells) \cup
          {b \in header : \A c \in Nonblank(cells) : c.row # b.row \/ c.column # b.column}

(* The pattern of scanSheetXml goes from an opening <c ...> to the next    *)
(* </c>.  An empty element has none: the formula found after it is read    *)
(* with the coordinates of the first element of the run.                   *)
OpeningOf(part, i) ==
    LET run == {j \in 1..i : \A k \in j..i - 1 : part.cells[k].shape = "styled"}
    IN part.cells[Min(run)]
FormulaOnly(part, bounds) ==
    {[MapCell(OpeningOf(part, i)) EXCEPT !.type = "formula", !.text = part.cells[i].text] :
        i \in {j \in DOMAIN part.cells : part.cells[j].shape = "bare"
                                          /\ Within(OpeningOf(part, j), bounds)}}
(* Without the look at the places that are taken.                          *)
OverFormulas(cells, formulas) == cells \cup formulas
WithFormulas(cells, formulas) ==
    cells \cup {f \in formulas : \A c \in cells : c.row # f.row \/ c.column # f.column}

Overlap(a, b) == /\ a.firstRow <= b.lastRow /\ a.lastRow >= b.firstRow
                 /\ a.firstColumn <= b.lastColumn /\ a.lastColumn >= b.firstColumn
Disclosures(part, bounds) ==
    {w \in {"merged-cells", "hidden-rows", "hidden-columns", "formula-cells", "invalid-date"} :
        \/ w = "merged-cells" /\ \E m \in part.merges : Overlap(m, bounds)
        \/ w = "hidden-rows" /\ \E r \in part.hiddenRows : r \in bounds.firstRow..bounds.lastRow
        \/ w = "hidden-columns"
              /\ \E c \in part.hiddenColumns : c \in bounds.firstColumn..bounds.lastColumn
        \/ w = "formula-cells" /\ (\/ \E c \in CellsIn(part, bounds) : c.shape = "formula"
                                   \/ FormulaOnly(part, bounds) # {})
        \/ w = "invalid-date" /\ \E c \in CellsIn(part, bounds) : c.shape = "badDate"}
BookWarnings(parts, sheets) ==
    {w \in {"external-refs", "hidden-sheets", "multi-sheet"} :
        \/ w = "external-refs" /\ HasExternalContent(parts)
        \/ w = "hidden-sheets" /\ \E i \in DOMAIN sheets : ~Visible(sheets[i])
        \/ w = "multi-sheet" /\ Cardinality(VisibleOf(sheets)) > 1}

-----------------------------------------------------------------------------
(* The preview and what the upload screen makes of it                      *)

(* The band starts at the first row with a cell and takes PreviewRows      *)
(* rows of the sheet, of which those with an emitted cell are listed.      *)
PreviewBounds(part) ==
    LET first == Min(RowsOf(part))
        last == Min({first + PreviewRows - 1, Max(RowsOf(part))})
        band == BoundsOf({part.cells[i] : i \in {j \in Data(part) :
                                                   part.cells[j].row \in first..last}})
    IN [band EXCEPT !.lastRow = last]
PreviewError(part) ==
    IF Data(part) = {} THEN Accepted ELSE EmitError(part, PreviewBounds(part))
PreviewCells(part) ==
    IF Data(part) = {} THEN {} ELSE EmitCells(part, PreviewBounds(part))
PreviewNumbers(cells) == {c.row : c \in cells}

(* The widths are counted as the rows are read, and another width takes    *)
(* over only when it is met more often: of two, the one that got there     *)
(* first.  Blank cells do not count.                                       *)
SuggestHeaderRow(cells, rows) ==
    LET width(r) == Cardinality({c \in Nonblank(cells) : c.row = r})
        met(r) == Cardinality({s \in rows : s <= r /\ width(s) = width(r)})
        most == Max({met(r) : r \in rows})
        winner == Min({r \in rows : met(r) = most})
    IN IF rows = {} THEN Unset ELSE Min({r \in rows : width(r) = width(winner)})
SheetChoices(sheets) ==
    [visible |-> VisibleOf(sheets), hidden |-> DOMAIN sheets \ VisibleOf(sheets)]

-----------------------------------------------------------------------------
(* The preview of a CSV file: the records with their lines and fields      *)

CsvPreviewCells(records) ==
    UNION {{[row |-> records[i].line, column |-> c, text |-> records[i].fields[c],
             type |-> IF records[i].fields[c] = "none" THEN "blank" ELSE "text"] :
               c \in DOMAIN records[i].fields} : i \in 1..Min({PreviewRows, Len(records)})}
CsvPreviewNumbers(records) == {records[i].line : i \in 1..Min({PreviewRows, Len(records)})}
ModalHeaderRecord(records) ==
    LET sample == 1..Min({PreviewRows, Len(records)})
    IN records[ModalRow(sample, LAMBDA i : Len(records[i].fields))].line
=============================================================================
