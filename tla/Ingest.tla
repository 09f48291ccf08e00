-------------------------------- MODULE Ingest -------------------------------
(***************************************************************************)
(* One file through the upload: inspectSource (ingest/src/inspect.ts), the *)
(* choices the configure panel offers of what was found, and parseSource   *)
(* (ingest/src/index.ts, xlsx.ts) with them.  Both begin with the same     *)
(* preflight, whose inflater calls back for each chunk of each entry.      *)
(* Cells of a CSV file are the matter of CsvTable; of such a file only the *)
(* inspection is here.                                                     *)
(***************************************************************************)
EXTENDS SheetReader

CONSTANTS None,             \* null
          Sources,          \* files the user submits
          CompressedBytes,  \* limit
          ColumnChoices     \* bounds of columns passed to the parser: <<first, last>>

ASSUME IngestAssumption == CompressedBytes \in Nat /\ ColumnChoices \subseteq Nat \X Nat

(* A file is taken for an archive by its first bytes, so it has some.  An  *)
(* entry ends with a last chunk, and a part has one cell at a place.       *)
ASSUME SourceAssumption ==
    \A file \in Sources :
        /\ file.bytes \in Nat
        /\ file.magic = "zip" =>
              /\ file.bytes > 0
              /\ file.archive.directory \in Seq(DirectoryEntry)
              /\ file.archive.locals \in Seq(LocalEntry)
              /\ \A i \in DOMAIN file.archive.locals :
                    LET cells == file.archive.locals[i].part.cells
                    IN \A j, k \in DOMAIN cells :
                          cells[j].row = cells[k].row /\ cells[j].column = cells[k].column => j = k

VARIABLES source,      \* the bytes submitted
          operation,   \* "inspect" or "parse"
          options,     \* the ParseOptions of the operation
          step,        \* where it is
          failure,     \* the error it ended with
          entry,       \* the local entry that streams
          chunks,      \* its chunks accepted so far
          expanded,    \* totalExpanded
          order,       \* the files stored, in order of arrival
          inspection,  \* the last inspection, or None
          table        \* the table parsed, or None

vars == <<source, operation, options, step, failure, entry, chunks, expanded, order,
          inspection, table>>

Defaults == [sheet |-> -1, header |-> Unset, firstColumn |-> Unset, lastColumn |-> Unset,
             allowHidden |-> FALSE]

Init ==
    /\ source \in Sources /\ operation = "inspect" /\ options = Defaults
    /\ step = "submitted" /\ failure = Accepted
    /\ entry = 1 /\ chunks = 0 /\ expanded = 0 /\ order = <<>>
    /\ inspection = None /\ table = None

streamed == <<entry, chunks, expanded, order>>
Fail(error) == /\ step' = "failed" /\ failure' = error
               /\ UNCHANGED <<source, operation, options, streamed, inspection, table>>

-----------------------------------------------------------------------------
(* Preflight                                                               *)

(* The first bytes decide the format; inspectSource takes an empty file    *)
(* for a CSV file without text.                                            *)
DetectError ==
    FirstOf(<<Unless(operation = "parse" => source.bytes > 0, "INVALID_FILE", "empty-input"),
              Unless(source.bytes <= CompressedBytes, "LIMIT_EXCEEDED", "input-bytes"),
              Unless(source.magic # "ole", "UNSUPPORTED", "ole2-container")>>)
CsvError ==
    FirstOf(<<Unless(source.utf8, "INVALID_FILE", "csv.invalid-utf8"),
              Unless(source.records # <<>>, "INVALID_FILE", "csv.empty"),
              Unless(~source.ambiguous, "AMBIGUOUS_INPUT", "csv.ambiguous-delimiter")>>)

InspectCsv ==
    LET cells == CsvPreviewCells(source.records)
        rows == CsvPreviewNumbers(source.records)
    IN /\ inspection' = [sheets |-> <<>>, sheet |-> 0, cells |-> cells, rows |-> rows,
                         suggested |-> SuggestHeaderRow(cells, rows), warnings |-> {}]
       /\ step' = "done"
       /\ UNCHANGED <<source, operation, options, failure, streamed, table>>

Submit ==
    /\ step = "submitted"
    /\ IF DetectError # Accepted THEN Fail(DetectError)
       ELSE IF source.magic # "zip"
       THEN IF CsvError # Accepted THEN Fail(CsvError) ELSE InspectCsv
       ELSE LET scanned == ScanCentralDirectory(source.archive)
            IN IF scanned # Accepted THEN Fail(scanned)
               ELSE /\ step' = "inflating"
                    /\ UNCHANGED <<source, operation, options, failure, streamed,
                                   inspection, table>>

(* onfile and ondata: a local entry begins, one more chunk of it arrives,  *)
(* and with the last one the entry is stored.                              *)
Local == source.archive.locals[entry]
EntryBytesWith(n) == FoldLeft(+, 0, SubSeq(Local.chunks, 1, n))
Unexpected == RecordsOf(source.archive, Local.path, Local.spelling) = {}
Declared == source.archive.directory[Min(RecordsOf(source.archive, Local.path, Local.spelling))]
ChunkError ==
    LET bytes == EntryBytesWith(chunks + 1)
        total == expanded + Local.chunks[chunks + 1]
    IN FirstOf(<<Unless(~Local.corrupt, "INVALID_FILE", "zip.entry-corrupt"),
                 Unless(bytes <= EntryBytes, "LIMIT_EXCEEDED", "zip.entry-bytes"),
                 Unless(total <= ExpandedBytes, "LIMIT_EXCEEDED", "zip.expanded-bytes"),
                 Unless(total <= Max({source.bytes, 1}) * ExpansionRatio,
                        "LIMIT_EXCEEDED", "zip.expansion-ratio")>>)
(* The final check without the look at what is stored.                     *)
FinalSizeOnly ==
    Unless(Declared.size \in {EntryBytesWith(Len(Local.chunks)), Sentinel},
           "INVALID_FILE", "zip.size-mismatch")
FinalError ==
    FirstOf(<<Unless(Declared.size \in {EntryBytesWith(Len(Local.chunks)), Sentinel},
                     "INVALID_FILE", "zip.size-mismatch"),
              Unless(IsDirectory(Local.path) \/ Local.path \notin Range(order),
                     "INVALID_FILE", "zip.duplicate-local-entry")>>)

Chunk ==
    /\ step = "inflating" /\ entry <= Len(source.archive.locals)
    /\ LET final == chunks + 1 = Len(Local.chunks)
       IN CASE Unexpected -> Fail(Error("INVALID_FILE", "zip.unexpected-local-entry"))
            [] ~Unexpected /\ ChunkError # Accepted -> Fail(ChunkError)
            [] ~Unexpected /\ ChunkError = Accepted /\ final /\ FinalError # Accepted ->
                  Fail(FinalError)
            [] OTHER ->
                  /\ expanded' = expanded + Local.chunks[chunks + 1]
                  /\ chunks' = IF final THEN 0 ELSE chunks + 1
                  /\ entry' = IF final THEN entry + 1 ELSE entry
                  /\ order' = IF final /\ ~IsDirectory(Local.path) THEN Append(order, Local.path)
                              ELSE order
                  /\ UNCHANGED <<source, operation, options, step, failure, inspection, table>>

(* The stream is over: every file of the directory must have come.  The    *)
(* stored entries are all the workbook parser is given.                    *)
Repack ==
    /\ step = "inflating" /\ entry > Len(source.archive.locals)
    /\ IF Cardinality(Range(order)) # Cardinality(Files(source.archive))
       THEN Fail(Error("INVALID_FILE", "zip.truncated-archive"))
       ELSE /\ step' = "preflighted"
            /\ UNCHANGED <<source, operation, options, failure, streamed, inspection, table>>

-----------------------------------------------------------------------------
(* The workbook                                                            *)

Parts ==
    [path \in Range(order) |->
        LET stored == {i \in DOMAIN source.archive.locals :
                          source.archive.locals[i].path = path}
        IN source.archive.locals[Max(stored)].part]
PartOf(parts, sheet) == parts[sheet.target]

(* A workbook without a visible sheet is inspected, with an empty preview. *)
InspectXlsx ==
    /\ step = "preflighted" /\ operation = "inspect"
    /\ IF MetaError(Parts) # Accepted THEN Fail(MetaError(Parts))
       ELSE LET sheets == SheetInfos(Parts)
                selected == SelectError(sheets, options)
                unseen == selected.detail = "xlsx.no-visible-sheets"
                sheet == SelectSheet(sheets, options)
                cells == IF unseen THEN {} ELSE PreviewCells(PartOf(Parts, sheet))
                rows == PreviewNumbers(cells)
            IN IF ~unseen /\ selected # Accepted THEN Fail(selected)
               ELSE IF ~unseen /\ sheet.target \notin DOMAIN Parts
               THEN Fail(Error("INVALID_FILE", "xlsx.sheet-part-missing"))
               ELSE IF ~unseen /\ PreviewError(PartOf(Parts, sheet)) # Accepted
               THEN Fail(PreviewError(PartOf(Parts, sheet)))
               ELSE /\ inspection' = [sheets |-> sheets,
                                      sheet |-> IF unseen THEN -1 ELSE sheet.id,
                                      cells |-> cells, rows |-> rows,
                                      suggested |-> SuggestHeaderRow(cells, rows),
                                      warnings |-> BookWarnings(Parts, sheets)]
                    /\ step' = "done"
                    /\ UNCHANGED <<source, operation, options, failure, streamed, table>>

ParseXlsx ==
    /\ step = "preflighted" /\ operation = "parse"
    /\ IF MetaError(Parts) # Accepted THEN Fail(MetaError(Parts))
       ELSE LET sheets == SheetInfos(Parts)
                sheet == SelectSheet(sheets, options)
                part == PartOf(Parts, sheet)
                bounds == ResolveBounds(part, options)
                cells == WithFormulas(EmitCells(part, bounds), FormulaOnly(part, bounds))
                shared == \E c, d \in cells : c # d /\ c.row = d.row /\ c.column = d.column
            IN IF SelectError(sheets, options) # Accepted THEN Fail(SelectError(sheets, options))
               ELSE IF sheet.target \notin DOMAIN Parts
               THEN Fail(Error("INVALID_FILE", "xlsx.sheet-part-missing"))
               ELSE IF ResolveError(part, options) # Accepted THEN Fail(ResolveError(part, options))
               ELSE IF EmitError(part, bounds) # Accepted THEN Fail(EmitError(part, bounds))
               ELSE IF shared THEN Fail(Error("INTERNAL", "raw-table-contract-violation"))
               ELSE /\ table' = [sheet |-> sheet.id, range |-> bounds, cells |-> cells,
                                 warnings |-> BookWarnings(Parts, sheets)
                                     \cup Disclosures(part, bounds)
                                     \cup (IF Visible(sheet) THEN {} ELSE {"hidden-selected"})]
                    /\ step' = "done"
                    /\ UNCHANGED <<source, operation, options, failure, streamed, inspection>>

-----------------------------------------------------------------------------
(* The configure panel: another sheet is inspected, hidden ones after an   *)
(* opt-in; the header row is left as it is or taken from the rows listed.  *)

Run(op, chosen) ==
    /\ operation' = op /\ options' = chosen /\ step' = "submitted"
    /\ entry' = 1 /\ chunks' = 0 /\ expanded' = 0 /\ order' = <<>>
    /\ UNCHANGED <<source, failure>>

ChooseSheet ==
    /\ step = "done" /\ operation = "inspect" /\ source.magic = "zip"
    /\ LET choices == SheetChoices(inspection.sheets)
       IN \E i \in choices.visible \cup choices.hidden :
             /\ inspection.sheets[i].id # inspection.sheet
             /\ Run("inspect", [Defaults EXCEPT !.sheet = inspection.sheets[i].id,
                                                !.allowHidden = i \in choices.hidden])
    /\ UNCHANGED <<inspection, table>>

Proceed ==
    /\ step = "done" /\ operation = "inspect" /\ source.magic = "zip"
    /\ \E header \in {Unset} \cup inspection.rows, columns \in ColumnChoices :
          Run("parse", [options EXCEPT !.header = header, !.firstColumn = columns[1],
                                       !.lastColumn = columns[2]])
    /\ UNCHANGED <<inspection, table>>

Next == Submit \/ Chunk \/ Repack \/ InspectXlsx \/ ParseXlsx \/ ChooseSheet \/ Proceed
Spec == Init /\ [][Next]_vars

-----------------------------------------------------------------------------
(* Properties                                                              *)

Selected == PartOf(Parts, SelectSheet(SheetInfos(Parts), options))
WithinCaps(bytes) == bytes <= ExpandedBytes /\ bytes <= Max({source.bytes, 1}) * ExpansionRatio

(* What the inflater keeps never exceeds the limits, and the parser is     *)
(* given exactly the files the central directory names, each once, from    *)
(* one local entry of the size declared: an archive whose directory and    *)
(* whose entries tell two stories is refused.                              *)
(* (scanCentralDirectory, inflateBounded, preflightZip)                    *)
PackageAdmitted ==
    LET archive == source.archive
        locals(path) == {i \in DOMAIN archive.locals : archive.locals[i].path = path}
        size(i) == FoldLeft(+, 0, archive.locals[i].chunks)
    IN /\ WithinCaps(expanded)
       /\ step \in {"preflighted", "done"} /\ source.magic = "zip" =>
             /\ Range(order) = Files(archive) /\ Len(order) = Cardinality(Files(archive))
             /\ \A i \in DOMAIN archive.directory :
                   LET record == archive.directory[i]
                   IN Bounded(record) => \A k \in locals(record.path) : size(k) = record.size
             /\ \A path \in Files(archive) : Cardinality(locals(path)) = 1

(* A table never breaks its own contract: a place holds one cell, in the   *)
(* range, whatever formulas the scan of the sheet adds to the cells of the *)
(* library; every column has a cell in the header row; the limit on cells  *)
(* bounds the cells of both kinds together; and a formula is disclosed.    *)
(* (parseXlsx, emitCells, scanSheetXml, checkRawTable)                     *)
TableSound ==
    /\ failure.code # "INTERNAL"
    /\ table # None =>
          LET places == {<<c.row, c.column>> : c \in table.cells}
          IN /\ Cardinality(places) = Cardinality(table.cells)
             /\ \A c \in table.cells : Within(c, table.range)
             /\ {table.range.firstRow} \X (table.range.firstColumn..table.range.lastColumn)
                    \subseteq places
             /\ Cardinality(Nonblank(table.cells)) <= NonemptyCells
             /\ (\E c \in table.cells : c.type = "formula") => "formula-cells" \in table.warnings

(* What the user saw is what is parsed: a header row the preview offers is *)
(* accepted, its table starts there, and every cell previewed from there   *)
(* on is a cell of the table; a sheet that is not visible is read only     *)
(* after the opt-in, and said to be.                                       *)
(* (inspectSource, parseSource, ConfigurePanel)                            *)
PreviewHolds ==
    LET asPreviewed == options.firstColumn = Unset /\ options.lastColumn = Unset
    IN operation = "parse" =>
          /\ step = "failed" /\ asPreviewed => failure.code = "LIMIT_EXCEEDED"
                                               \/ inspection.rows = {}
          /\ table # None =>
                /\ options.header # Unset => table.range.firstRow = options.header
                /\ asPreviewed => \A c \in Nonblank(inspection.cells) :
                       c.row >= table.range.firstRow => c \in table.cells
                /\ ~Visible(inspection.sheets[table.sheet + 1]) =>
                       options.allowHidden /\ "hidden-selected" \in table.warnings

(* The row the panel shows as the header is the header the parser takes    *)
(* when the user leaves the choice as it is.                               *)
(* (suggestHeaderRow, modalHeaderRow, modalHeaderRecord)                   *)
HeaderAsShown ==
    /\ inspection # None /\ source.magic # "zip" =>
          inspection.suggested = ModalHeaderRecord(source.records)
    /\ table # None /\ options.header = Unset => table.range.firstRow = inspection.suggested

(* A formula below the header row is a cell of the table, at its own       *)
(* physical coordinates, whether the file caches its value or not.         *)
(* (scanSheetXml, parseXlsx)                                               *)
FormulasInPlace ==
    table # None =>
        \A i \in DOMAIN Selected.cells :
            LET cell == Selected.cells[i]
            IN cell.shape \in {"formula", "bare"} /\ Within(cell, table.range)
                    /\ cell.row > table.range.firstRow =>
                  FormulaCell(cell) \in table.cells
=============================================================================
