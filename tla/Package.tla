------------------------------ MODULE Package --------------------------------
(***************************************************************************)
(* The ZIP container of a workbook and what its parts say of it:           *)
(* ingest/src/zip-preflight.ts and xlsx-meta.ts.                           *)
(*                                                                         *)
(* An archive is its end record, its central directory, the local entries  *)
(* the inflater meets and the contents of its parts by path.  A path is    *)
(* the sequence of its segments; sizes are small numbers and Sentinel is   *)
(* the size 0xffffffff.  Part contents are what the regular expressions    *)
(* of xml-mini.ts find in them.                                            *)
(***************************************************************************)
EXTENDS SequencesExt, FiniteSetsExt, Naturals

CONSTANTS MaxEntries, EntryBytes, ExpandedBytes, ExpansionRatio,   \* limits
          Sentinel

ASSUME PackageAssumption ==
    {MaxEntries, EntryBytes, ExpandedBytes, ExpansionRatio} \subseteq Nat /\ Sentinel \notin Nat

(* What the preflight reads of an archive, and xml-mini.ts of a part.      *)
Path == Seq(STRING)
Bounds == [firstRow : Nat, lastRow : Nat, firstColumn : Nat, lastColumn : Nat]
Cell == [row : Nat \ {0}, column : Nat \ {0}, shape : STRING, text : Nat]
Part == [types : SUBSET STRING, workbook : Path,
         sheets : Seq([visibility : STRING, rel : Nat]), targets : Seq(Path),
         dimension : Bounds, cells : Seq(Cell),
         hiddenRows : SUBSET Nat, hiddenColumns : SUBSET Nat, merges : SUBSET Bounds]
DirectoryEntry == [path : Path, spelling : STRING, size : Nat \cup {Sentinel},
                   flags : SUBSET STRING, method : STRING, zip64 : BOOLEAN]
LocalEntry == [path : Path, spelling : STRING, chunks : Seq(Nat) \ {<<>>},
               corrupt : BOOLEAN, part : Part]

Error(code, detail) == [code |-> code, detail |-> detail]
Accepted == Error("none", "none")
(* What is thrown first of a sequence of checks.                           *)
FirstOf(checks) ==
    LET thrown == {i \in DOMAIN checks : checks[i] # Accepted}
    IN IF thrown = {} THEN Accepted ELSE checks[Min(thrown)]
Unless(holds, code, detail) == IF holds THEN Accepted ELSE Error(code, detail)

-----------------------------------------------------------------------------
(* The central directory, before anything is inflated                      *)

IsDirectory(path) == Len(path) > 1 /\ Last(path) = ""
SegmentError(path, i) ==
    CASE path[i] = "" /\ ~(i = Len(path) /\ IsDirectory(path)) -> Error("INVALID_FILE", "zip.path-invalid")
      [] path[i] = "." -> Error("INVALID_FILE", "zip.path-invalid")
      [] path[i] = ".." -> Error("INVALID_FILE", "zip.path-traversal")
      [] path[i] = "__proto__" -> Error("INVALID_FILE", "zip.path-reserved")
      [] OTHER -> Accepted
PathError(path) ==
    FirstOf(<<Unless(path # <<"">>, "INVALID_FILE", "zip.path-empty")>>
            \o [i \in DOMAIN path |-> SegmentError(path, i)]
            \o <<Unless(path = <<>> \/ path[1] # "C:", "INVALID_FILE", "zip.path-absolute")>>)

(* The end record, or its ZIP64 form when a field holds the sentinel.      *)
GeometryError(end) ==
    FirstOf(<<Unless(end.found, "INVALID_FILE", "zip.eocd-missing"),
              Unless(end.wide => end.located, "INVALID_FILE", "zip.zip64-eocd-missing"),
              Unless(end.disks = 1 /\ end.onDisk = end.entries, "UNSUPPORTED", "zip.multi-disk"),
              Unless(end.inside, "INVALID_FILE", "zip.central-directory-out-of-bounds"),
              Unless(end.entries <= MaxEntries, "LIMIT_EXCEEDED", "zip.entries")>>)

Bounded(record) == ~IsDirectory(record.path) /\ record.size # Sentinel
DeclaredTotal(directory, i) ==
    FoldLeft(LAMBDA total, r : IF Bounded(r) THEN total + r.size ELSE total, 0,
             SubSeq(directory, 1, i))
RecordError(directory, i) ==
    LET record == directory[i]
    IN FirstOf(<<Unless(record.size = Sentinel => record.zip64,
                        "INVALID_FILE", "zip.size-sentinel-without-zip64"),
                 PathError(record.path),
                 Unless("encrypted" \notin record.flags, "UNSUPPORTED", "zip.encrypted-entry"),
                 Unless("masked" \notin record.flags, "UNSUPPORTED", "zip.masked-central-directory"),
                 Unless("patched" \notin record.flags, "UNSUPPORTED", "zip.patched-data"),
                 Unless(record.method \in {"stored", "deflated"}, "UNSUPPORTED", "zip.compression-method"),
                 Unless(\A j \in 1..i - 1 : directory[j].path # record.path,
                        "INVALID_FILE", "zip.duplicate-entry"),
                 Unless(Bounded(record) => record.size <= EntryBytes, "LIMIT_EXCEEDED", "zip.entry-bytes"),
                 Unless(Bounded(record) => DeclaredTotal(directory, i) <= ExpandedBytes,
                        "LIMIT_EXCEEDED", "zip.expanded-bytes")>>)
ScanCentralDirectory(archive) ==
    FirstOf(<<GeometryError(archive.end)>> \o
            [i \in DOMAIN archive.directory |-> RecordError(archive.directory, i)])

(* The record a local entry is looked up by: the name as it is spelt.      *)
RecordsOf(archive, path, spelling) ==
    {i \in DOMAIN archive.directory : /\ archive.directory[i].path = path
                                      /\ archive.directory[i].spelling = spelling}
Files(archive) ==
    {archive.directory[i].path : i \in {j \in DOMAIN archive.directory :
                                           ~IsDirectory(archive.directory[j].path)}}

-----------------------------------------------------------------------------
(* The parts of the workbook                                               *)

ContentTypes == <<"[Content_Types].xml">>
RootRels == <<"_rels", ".rels">>

Visible(sheet) == sheet.visibility = "visible"
Marked(names, mark) == \E path \in names : path[Len(path)] = mark
ClassifyError(names, types) ==
    FirstOf(<<Unless(~Marked(names, "EncryptionInfo"), "UNSUPPORTED", "xlsx.encrypted-package"),
              Unless(~Marked(names, "vbaProject.bin"), "UNSUPPORTED", "xlsx.macro-enabled"),
              Unless(~Marked(names, "workbook.bin"), "UNSUPPORTED", "xlsx.binary-workbook"),
              Unless("macroEnabled" \notin types, "UNSUPPORTED", "xlsx.macro-enabled"),
              Unless("sheet.binary" \notin types, "UNSUPPORTED", "xlsx.binary-workbook"),
              Unless(~Marked(names, "mimetype"), "UNSUPPORTED", "xlsx.ods-masquerade")>>)

(* The root relationships decide, then the content types.                  *)
NoPath == <<"">>
WorkbookPath(parts) ==
    IF RootRels \in DOMAIN parts /\ parts[RootRels].workbook # NoPath THEN parts[RootRels].workbook
    ELSE IF "sheet.main" \in parts[ContentTypes].types THEN parts[ContentTypes].workbook
    ELSE NoPath
RelsPath(path) == SubSeq(path, 1, Len(path) - 1) \o <<"_rels", path[Len(path)]>>

MetaError(parts) ==
    IF ContentTypes \notin DOMAIN parts THEN Error("UNSUPPORTED", "xlsx.not-a-workbook")
    ELSE LET path == WorkbookPath(parts)
         IN FirstOf(<<ClassifyError(DOMAIN parts, parts[ContentTypes].types),
                      Unless(path # NoPath, "UNSUPPORTED", "xlsx.not-a-workbook"),
                      Unless(path \in DOMAIN parts, "INVALID_FILE", "xlsx.workbook-missing"),
                      Unless(path \in DOMAIN parts => parts[path].sheets # <<>>,
                             "INVALID_FILE", "xlsx.no-sheets")>>)

(* Bounds of the cells a part writes, when it declares none.               *)
NoBounds == [firstRow |-> 0, lastRow |-> 0, firstColumn |-> 0, lastColumn |-> 0]
BoundsOf(places) ==
    IF places = {} THEN NoBounds
    ELSE LET rows == {p.row : p \in places}
             columns == {p.column : p \in places}
         IN [firstRow |-> Min(rows), lastRow |-> Max(rows),
             firstColumn |-> Min(columns), lastColumn |-> Max(columns)]
ScanSheetBounds(part) == BoundsOf({part.cells[i] : i \in DOMAIN part.cells})
Dimensions(part) == IF part.dimension # NoBounds THEN part.dimension ELSE ScanSheetBounds(part)

(* A sheet with its part, NoPath when its relationship is not internal.    *)
SheetInfos(parts) ==
    LET path == WorkbookPath(parts)
        rels == IF RelsPath(path) \in DOMAIN parts THEN parts[RelsPath(path)].targets
                ELSE [s \in {} |-> NoPath]
        target(s) == IF s.rel \in DOMAIN rels THEN rels[s.rel] ELSE NoPath
    IN [i \in DOMAIN parts[path].sheets |->
           LET s == parts[path].sheets[i]
           IN [id |-> i - 1, visibility |-> s.visibility, target |-> target(s),
               dimensions |-> IF target(s) \in DOMAIN parts THEN Dimensions(parts[target(s)])
                              ELSE NoBounds]]
HasExternalContent(parts) ==
    \/ \E path \in DOMAIN parts : path[Len(path)] \in {"connections.xml", "comments1.xml"}
    \/ \E path \in DOMAIN parts : "external" \in parts[path].types
=============================================================================
