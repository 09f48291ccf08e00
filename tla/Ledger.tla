------------------------------- MODULE Ledger --------------------------------
(***************************************************************************)
(* From a raw table to a normalized one: packages/normalize, profile.ts    *)
(* (proposed columns and quality issues) and normalize.ts (the approved    *)
(* transforms and the ledger that records them).                           *)
(*                                                                         *)
(* A text is a record: what it folds to (foldKey), how it is written       *)
(* ("plain", a "variant" spelling, "padded" with blanks), what it reads as *)
(* and, for a decimal, which.  NoText is the absent or null value.  A raw  *)
(* table has a sequence of headers and, by row and column, its cells;      *)
(* longName says that its workbook and sheet have names beyond a note.     *)
(***************************************************************************)
EXTENDS Decimal, SequencesExt

CONSTANTS NumericPercent,   \* thresholds.numericInferenceFraction
          DatePercent,      \* thresholds.dateInferenceFraction
          MaxInputDigits,   \* numeric.maxInputSignificantDigits
          MaxNumberDigits,  \* numeric.excelNumericMaxSignificantDigits
          HeaderRow         \* sourceRef.headerRow

ASSUME LedgerAssumption ==
    /\ NumericPercent \in 51..100 /\ DatePercent \in 51..100
    /\ {MaxInputDigits, MaxNumberDigits, HeaderRow} \subseteq Nat

Text(fold, form, kind, dec) == [fold |-> fold, form |-> form, kind |-> kind, dec |-> dec]
NoText == Text("", "plain", "none", Zero)
Cell(type, text, cached) == [type |-> type, text |-> text, cached |-> cached]
Absent == Cell("absent", NoText, NoText)

Trim(t) == IF t.form = "padded" THEN [t EXCEPT !.form = "plain"] ELSE t
IsDecimalText(t) == t.kind = "decimal" /\ t.form # "padded"
Percent(texts, P(_), percent) ==
    100 * Len(SelectSeq(texts, P)) >= percent * Len(texts)

-----------------------------------------------------------------------------
(* The profile                                                             *)

Rows(raw) == DOMAIN raw.cells
Columns(raw) == DOMAIN raw.headers
CellAt(raw, r, c) == raw.cells[r][c]
CellText(raw, r, c) == CellAt(raw, r, c).text
DataRows(raw) == {r \in Rows(raw) : \E c \in Columns(raw) : CellAt(raw, r, c) # Absent}
(* Rows in their order, and of a sequence what satisfies P: SelectSeq with *)
(* a definition that a proof can open.                                     *)
RowsIn(rows) ==
    [k \in 1..Cardinality(rows) |->
        CHOOSE r \in rows : Cardinality({q \in rows : q < r}) = k - 1]
Keep(items, P(_)) ==
    LET at == RowsIn({i \in DOMAIN items : P(items[i])}) IN [k \in DOMAIN at |-> items[at[k]]]
DataRowSeq(raw) == RowsIn(DataRows(raw))

(* The texts of a column that its type is voted on.                        *)
TextsIn(raw, rows, c) ==
    SelectSeq([i \in DOMAIN rows |-> CellText(raw, rows[i], c)], LAMBDA t : t # NoText)
SampleColumn(raw, c) == TextsIn(raw, DataRowSeq(raw), c)
VoteType(texts) ==
    LET numeric(t) == t.kind \in {"decimal"}
        date(t) == t.kind = "date"
        boolean(t) == t.kind = "boolean"
        leadingZero == \E i \in DOMAIN texts : texts[i].kind = "leadingZero"
        point(t) == t.dec.scale > 0
    IN IF texts = <<>> THEN "text"
       ELSE IF leadingZero /\ Percent(texts, numeric, NumericPercent) THEN "identifier"
       ELSE IF Percent(texts, date, DatePercent) THEN "date"
       ELSE IF Percent(texts, numeric, NumericPercent)
       THEN IF \E i \in DOMAIN texts : point(texts[i]) THEN "decimal" ELSE "integer"
       ELSE IF Percent(texts, boolean, NumericPercent) THEN "boolean"
       ELSE IF 2 * Len(SelectSeq(texts, numeric)) > Len(texts) THEN "mixed"
       ELSE "text"
ProposeRole(header, type) ==
    IF type = "date" THEN "date"
    ELSE IF type = "identifier" \/ header.names = "id" THEN "identifier"
    ELSE CASE type \in {"integer", "decimal"} -> "measure"
           [] type = "text" -> "dimension"
           [] OTHER -> "unknown"

(* Two columns of one slug are told apart by their order.                  *)
ColumnId(raw, c) ==
    LET same == {d \in 1..c : raw.headers[d].slug = raw.headers[c].slug}
    IN <<raw.headers[c].slug, Cardinality(same)>>
ColumnOfType(raw, c, type) ==
    [id |-> ColumnId(raw, c), sourceColumn |-> c, type |-> type,
     role |-> ProposeRole(raw.headers[c], type), unit |-> "unknown",
     additive |-> FALSE, confirmed |-> FALSE]
ProposedColumn(raw, c) == ColumnOfType(raw, c, VoteType(SampleColumn(raw, c)))
ProposedColumns(raw) == [c \in Columns(raw) |-> ProposedColumn(raw, c)]

Issue(id, kind, row, field, original, normalized, action, canonical) ==
    [id |-> id, kind |-> kind, sourceRow |-> row, fieldId |-> field,
     original |-> original, normalized |-> normalized, status |-> "proposed",
     action |-> action, canonicalSourceRow |-> canonical]
NoField == <<"", 0>>
NoRow == 0
When(condition, item) == IF condition THEN <<item>> ELSE <<>>

(* Blank headers, then those that fold to an earlier one.                  *)
HeaderIssues(raw) ==
    LET issue(c, id) == Issue(<<id, 0, c>>, "header", HeaderRow, ColumnId(raw, c),
                              NoText, NoText, "confirm-type", NoRow)
        first(c) == Min({d \in 1..c : ~raw.headers[d].blank
                                          /\ raw.headers[d].fold = raw.headers[c].fold})
    IN FlattenSeq([c \in Columns(raw) |-> When(raw.headers[c].blank, issue(c, "header"))])
       \o FlattenSeq([c \in Columns(raw) |->
              When(~raw.headers[c].blank /\ raw.headers[first(c)].label # raw.headers[c].label,
                   issue(c, "ambiguous"))])

(* Rows of the same texts as an earlier one: the first is canonical.       *)
RowKey(raw, r) == [c \in Columns(raw) |-> CellText(raw, r, c)]
NearestCopy(raw, r) ==
    LET same == {q \in DataRows(raw) : q < r /\ RowKey(raw, q) = RowKey(raw, r)}
    IN IF same = {} THEN r ELSE Max(same)
Canonical(raw, r) == Min({q \in DataRows(raw) : q <= r /\ RowKey(raw, q) = RowKey(raw, r)})
DuplicateIssue(raw, r, canonical) ==
    When(canonical # r, Issue(<<"duplicate", r, 0>>, "duplicate", r, NoField,
                              CellText(raw, r, 1), NoText, "exclude-row", canonical))
DuplicatesIn(raw, rows) ==
    FlattenSeq([i \in DOMAIN rows |-> DuplicateIssue(raw, rows[i], Canonical(raw, rows[i]))])
DuplicateIssues(raw) == DuplicatesIn(raw, DataRowSeq(raw))

(* Spellings that fold to an earlier one of their column.  The id names    *)
(* the row only.                                                           *)
Spelling(raw, r, c) ==
    CellText(raw, Min({q \in DataRows(raw) : q <= r
                           /\ CellText(raw, q, c).fold = CellText(raw, r, c).fold}), c)
CategoryId(r, c) == <<"category", r, 0>>
CategoryIssue(raw, r, p) ==
    Issue(CategoryId(r, p.sourceColumn), "category", r, p.id, CellText(raw, r, p.sourceColumn),
          Spelling(raw, r, p.sourceColumn), "map-category", NoRow)
Varies(raw, r, c) ==
    CellText(raw, r, c) # NoText /\ Spelling(raw, r, c) # CellText(raw, r, c)
CategoriesIn(raw, rows, columns) ==
    FlattenSeq([c \in DOMAIN columns |-> FlattenSeq([i \in DOMAIN rows |->
        When(columns[c].type \in {"text", "mixed"} /\ Varies(raw, rows[i], c),
             CategoryIssue(raw, rows[i], columns[c]))])])
CategoryIssues(raw) == CategoriesIn(raw, DataRowSeq(raw), ProposedColumns(raw))

(* Missing values; the first of a row has no column in its id.             *)
Missing(raw, r) == {c \in Columns(raw) : CellText(raw, r, c) = NoText}
MissingIssues(raw) ==
    LET rows == DataRowSeq(raw)
        issue(r, c) == Issue(<<"missing", r, IF c = Min(Missing(raw, r)) THEN 0 ELSE c>>,
                             "missing", r, ColumnId(raw, c), NoText, NoText, "none", NoRow)
    IN FlattenSeq([i \in DOMAIN rows |-> FlattenSeq([c \in Columns(raw) |->
           When(c \in Missing(raw, rows[i]), issue(rows[i], c))])])

(* Formulas, ambiguous dates, excess digits and texts amid numbers.        *)
CellIssue(id, kind, r, column, original, normalized, action) ==
    Issue(<<id, r, column.sourceColumn>>, kind, r, column.id, original, normalized, action, NoRow)
InputLimit(cell) == IF cell.type = "number" THEN MaxNumberDigits ELSE MaxInputDigits
IssuesOfCell(cell, t, r, column) ==
    When(cell.type = "formula",
         CellIssue("formula", "formula-cache", r, column, t, cell.cached, "use-cache"))
    \o When(t.kind = "slashDate",
            CellIssue("date", "ambiguous-date", r, column, t, NoText, "confirm-type"))
    \o When(t.kind = "decimal" /\ SignificantDigits(t.dec) > InputLimit(cell),
            CellIssue("precision", "precision", r, column, t, t, "confirm-type"))
    \o When(/\ t.kind # "decimal" /\ cell.type # "formula"
            /\ column.type \in {"decimal", "integer", "mixed"},
            CellIssue("malformed", "malformed", r, column, t, t, "none"))
CellsIn(raw, rows, columns) ==
    FlattenSeq([c \in DOMAIN columns |-> FlattenSeq([i \in DOMAIN rows |->
        IF CellText(raw, rows[i], c) = NoText THEN <<>>
        ELSE IssuesOfCell(CellAt(raw, rows[i], c), CellText(raw, rows[i], c), rows[i],
                          columns[c])])])
CellIssues(raw) == CellsIn(raw, DataRowSeq(raw), ProposedColumns(raw))

ProfileTable(raw) ==
    [columns |-> ProposedColumns(raw),
     issues |-> HeaderIssues(raw) \o DuplicateIssues(raw) \o CategoryIssues(raw)
                    \o MissingIssues(raw) \o CellIssues(raw)]

-----------------------------------------------------------------------------
(* The normalization                                                       *)

Flag(text) == Text(text.fold, "plain", "flag", Zero)
ToCellValue(text, column) ==
    CASE text = NoText -> NoText
      [] column.type = "boolean" /\ text.kind = "boolean" -> Flag(text)
      [] column.type \in {"decimal", "integer"} /\ text.kind = "decimal" -> Trim(text)
      [] OTHER -> text

IssuesOf(q, kind, approved) == q.kind = kind /\ q.id \in approved
Excluded(issues, approved) ==
    {issues[i].sourceRow : i \in {j \in DOMAIN issues : IssuesOf(issues[j], "duplicate", approved)}}
Mapped(issues, approved, r, column) ==
    {issues[i].normalized : i \in {j \in DOMAIN issues :
        /\ IssuesOf(issues[j], "category", approved)
        /\ issues[j].sourceRow = r /\ issues[j].fieldId = column.id}}

(* Is the cached result of a formula used: the column opted in, the cell   *)
(* approved, a result there.                                               *)
CacheUsed(cell, r, column, plan) ==
    /\ column.id \in plan.useCaches
    /\ <<"formula", r, column.sourceColumn>> \in plan.issueIds
    /\ cell.cached # NoText
NormalizedValue(raw, issues, plan, r, column) ==
    LET cell == CellAt(raw, r, column.sourceColumn)
        mapped == Mapped(issues, plan.issueIds, r, column)
    IN IF cell.type = "formula"
       THEN IF CacheUsed(cell, r, column, plan) THEN ToCellValue(cell.cached, column) ELSE NoText
       ELSE IF mapped # {} THEN CHOOSE t \in mapped : TRUE
       ELSE ToCellValue(cell.text, column)

Recorded(q, approved) ==
    IF q.id \in approved THEN [q EXCEPT !.status = "resolved"]
    ELSE IF q.kind = "missing" THEN [q EXCEPT !.status = "unresolved"] ELSE q

(* The plan names issues the profile proposes, or nothing is normalized.   *)
PlanKnown(raw, plan) == plan.issueIds \subseteq {q.id : q \in Range(ProfileTable(raw).issues)}
NormalizeProfiled(raw, profile, plan) ==
    LET columns == IF plan.columns = <<>> THEN profile.columns ELSE plan.columns
        kept == DataRows(raw) \ Excluded(profile.issues, plan.issueIds)
        fields == {columns[i].id : i \in DOMAIN columns}
        column(f) == CHOOSE p \in Range(columns) : p.id = f
        rows == [r \in kept |-> [f \in fields |->
                    NormalizedValue(raw, profile.issues, plan, r, column(f))]]
    IN [columns |-> columns, rows |-> rows,
        qualityIssues |-> [i \in DOMAIN profile.issues |->
                              Recorded(profile.issues[i], plan.issueIds)],
        calendarDates |-> {}, longName |-> raw.longName,
        revision |-> [columns |-> columns, rows |-> rows, approved |-> plan.issueIds]]
NormalizeTable(raw, plan) == NormalizeProfiled(raw, ProfileTable(raw), plan)

(* originalValue: what the cell held, from the ledger.                     *)
ToldOf(table, r, f) ==
    {i \in DOMAIN table.qualityIssues :
        LET q == table.qualityIssues[i]
        IN q.sourceRow = r /\ q.fieldId = f /\ q.original # NoText}
OriginalValue(table, r, f) ==
    LET told == ToldOf(table, r, f)
    IN IF told # {} THEN table.qualityIssues[Min(told)].original
       ELSE IF r \in DOMAIN table.rows THEN table.rows[r][f] ELSE NoText
=============================================================================
