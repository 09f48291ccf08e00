------------------------------ MODULE MCIngest -------------------------------
(* Workbooks of one or two small sheets and every single departure from a  *)
(* well-formed archive, and CSV files of a few records.                    *)
EXTENDS Ingest

C(row, column, shape) == [row |-> row, column |-> column, shape |-> shape, text |-> 10 * row + column]
Area(r1, r2, c1, c2) ==
    [firstRow |-> r1, lastRow |-> r2, firstColumn |-> c1, lastColumn |-> c2]
EmptyPart ==
    [types |-> {}, workbook |-> NoPath, sheets |-> <<>>, targets |-> <<>>, dimension |-> NoBounds,
     cells |-> <<>>, hiddenRows |-> {}, hiddenColumns |-> {}, merges |-> {}]
Sheet(cells) == [EmptyPart EXCEPT !.cells = cells]

Titled == Sheet(<<C(2, 1, "text"), C(3, 1, "text"), C(3, 2, "text"), C(4, 1, "text"),
                  C(4, 2, "number"), C(6, 1, "date"), C(6, 2, "formula")>>)
Sparse == [Sheet(<<C(1, 1, "text"), C(1, 2, "text"), C(2, 1, "text"), C(2, 2, "empty"),
                   C(3, 2, "badDate")>>)
              EXCEPT !.dimension = Area(1, 3, 1, 2), !.hiddenRows = {2}, !.hiddenColumns = {2},
                     !.merges = {Area(3, 4, 1, 1)}]
Tied == Sheet(<<C(1, 1, "text"), C(2, 1, "text"), C(2, 2, "number"), C(3, 1, "text"),
                C(3, 2, "number"), C(4, 1, "text")>>)
Formulas == Sheet(<<C(1, 1, "text"), C(1, 2, "bare"), C(1, 3, "text"), C(2, 1, "number"),
                    C(2, 2, "styled"), C(2, 3, "bare"), C(3, 1, "boolean"), C(3, 2, "bare"),
                    C(4, 1, "error"), C(5, 2, "bare")>>)
Uncached == Sheet(<<C(1, 1, "text"), C(1, 2, "text"), C(2, 1, "number"), C(2, 2, "bare"),
                    C(3, 1, "bare"), C(3, 2, "number")>>)
Narrowing == Sheet(<<C(1, 1, "text"), C(1, 2, "text"), C(1, 3, "text"), C(2, 1, "text")>>)
Long == Sheet(<<C(1, 1, "text"), C(5, 1, "long")>>)
Wide == Sheet([i \in 1..4 |-> C(1, i, "text")])
Tall == Sheet([i \in 1..6 |-> C(i, 1, "text")])
Scattered == Sheet(<<C(1, 1, "text"), C(3, 4, "text")>>)
SheetParts == {Titled, Sparse, Tied, Formulas, Uncached, Narrowing, Long, Wide, Tall,
               Scattered, EmptyPart}

Book == <<"xl", "workbook.xml">>
SheetPath(i) == <<"xl", "sheets", IF i = 0 THEN "sheet1.xml" ELSE "sheet2.xml">>
Entry(path, pieces, part) ==
    [path |-> path, spelling |-> "slash", chunks |-> pieces, corrupt |-> FALSE, part |-> part]
Typed(types) == [EmptyPart EXCEPT !.types = types, !.workbook = Book]
Listed(states) == [i \in DOMAIN states |-> [visibility |-> states[i], rel |-> i]]
Entries(states, first, second) ==
    <<Entry(ContentTypes, <<1>>, Typed({"sheet.main"})),
      Entry(<<"xl", "">>, <<0>>, EmptyPart),
      Entry(RootRels, <<1>>, Typed({})),
      Entry(Book, <<1>>, [EmptyPart EXCEPT !.sheets = Listed(states)]),
      Entry(RelsPath(Book), <<1>>,
            [EmptyPart EXCEPT !.targets = [i \in DOMAIN states |-> SheetPath(i - 1)]]),
      Entry(SheetPath(0), <<1, 1>>, first), Entry(SheetPath(1), <<1>>, second)>>
Record(e) == [path |-> e.path, spelling |-> e.spelling, size |-> FoldLeft(+, 0, e.chunks),
              flags |-> {}, method |-> "deflated", zip64 |-> FALSE]
EndRecord(n) == [found |-> TRUE, wide |-> FALSE, located |-> FALSE, disks |-> 1, onDisk |-> n,
                 entries |-> n, inside |-> TRUE]
Archive(entries) == [end |-> EndRecord(Len(entries)), directory |-> [i \in DOMAIN entries |-> Record(entries[i])],
                     locals |-> entries]
NoArchive == Archive(<<>>)
File(bytes, archive) == [bytes |-> bytes, magic |-> "zip", archive |-> archive, utf8 |-> TRUE,
                         records |-> <<>>, ambiguous |-> FALSE]
Workbook(entries) == File(5, Archive(entries))

Plain == Entries(<<"visible", "visible">>, Titled, Sparse)
One == Archive(Plain)
Workbooks ==
    {Workbook(Entries(<<"visible", "hidden">>, part, Tied)) : part \in SheetParts}
    \cup {Workbook(Entries(<<"visible", "visible">>, part, Uncached)) : part \in SheetParts}
    \cup {Workbook(Entries(<<"hidden", "veryHidden">>, Titled, Sparse)),
          Workbook(Entries(<<"visible", "visible", "visible">>, Titled, Sparse)),
          Workbook(Entries(<<>>, Titled, Sparse))}
With(entries, i, path, types) ==
    [entries EXCEPT ![i].path = path, ![i].part = Typed(types)]
(* The second entry, a directory, gives its place to another.              *)
Contents ==
    {Workbook(With(Plain, i, path, {"sheet.main"})) :
        i \in {1, 3, 4, 5, 6}, path \in {<<"xl", "other.xml">>}}
    \cup {Workbook(With(Plain, 2, <<"xl", name>>, {})) :
             name \in {"EncryptionInfo", "vbaProject.bin", "workbook.bin", "mimetype", "connections.xml"}}
    \cup {Workbook([Plain EXCEPT ![1].part.types = types, ![3].part.workbook = NoPath]) :
             types \in {{"macroEnabled"}, {"sheet.binary"}, {"sheet.main"}, {}, {"sheet.main", "external"}}}
Paths ==
    {Workbook([Plain EXCEPT ![2].path = path]) :
        path \in {<<"">>, <<"a", "", "b">>, <<".", "a">>, <<"..", "a">>, <<"__proto__">>,
                  <<"C:", "a">>, Book}}
Streams ==
    {File(5, [One EXCEPT !.locals = locals]) :
        locals \in {SubSeq(Plain, 1, 6), Plain \o <<Plain[7]>>, Plain \o <<Plain[2]>>,
                    [Plain EXCEPT ![7].path = <<"xl", "other.xml">>],
                    [Plain EXCEPT ![7] = Plain[6]],
                    [Plain EXCEPT ![6].spelling = "backslash"],
                    [Plain EXCEPT ![6].corrupt = TRUE],
                    [Plain EXCEPT ![6].chunks = <<1, 1, 1>>],
                    [Plain EXCEPT ![6].chunks = <<1>>],
                    [Plain EXCEPT ![6].chunks = <<2, 2, 1>>]}}
    \cup {File(5, [One EXCEPT !.directory[6].size = Sentinel, !.directory[6].zip64 = zip64,
                              !.locals[6].chunks = pieces]) :
             zip64 \in BOOLEAN, pieces \in {<<2, 1>>, <<3, 2>>}}
    \cup {File(bytes, One) : bytes \in {1, 2, 9, 10}}
Directories ==
    {File(5, [One EXCEPT !.directory[6].flags = {flag}]) : flag \in {"encrypted", "masked", "patched"}}
    \cup {File(5, [One EXCEPT !.directory[6].method = "bzip2"]),
          File(5, [One EXCEPT !.directory[6].size = 5]),
          File(5, [One EXCEPT !.directory[6].size = 4, !.directory[7].size = 4]),
          File(5, [One EXCEPT !.end.found = FALSE]), File(5, [One EXCEPT !.end.wide = TRUE]),
          File(5, [One EXCEPT !.end.wide = TRUE, !.end.located = TRUE]),
          File(5, [One EXCEPT !.end.disks = 2]), File(5, [One EXCEPT !.end.inside = FALSE]),
          File(5, [One EXCEPT !.end.onDisk = 9, !.end.entries = 9])}
Line(n, fields) == [line |-> n, fields |-> fields]
Csv(records) == [File(5, NoArchive) EXCEPT !.magic = "text", !.records = records]
Csvs ==
    {Csv(<<Line(1, <<"a", "b">>), Line(2, <<"c", "d">>), Line(4, <<"e", "f">>)>>),
     Csv(<<Line(1, <<"a">>), Line(2, <<"c", "d">>), Line(3, <<"e", "f">>), Line(4, <<"g">>)>>),
     Csv(<<>>), [Csv(<<>>) EXCEPT !.magic = "ole"], [Csv(<<>>) EXCEPT !.bytes = 0],
     [Csv(<<Line(1, <<"a">>)>>) EXCEPT !.ambiguous = TRUE],
     [Csv(<<Line(1, <<"a">>)>>) EXCEPT !.utf8 = FALSE]}
(* Three columns of which two values are missing, one in each record.      *)
GapCsv == Csv(<<Line(1, <<"a", "b", "c">>), Line(2, <<"d", "none", "e">>),
                Line(3, <<"f", "g", "none">>)>>)
MCSources == Workbooks \cup Contents \cup Paths \cup Streams \cup Directories \cup Csvs \cup {GapCsv}
MCColumns == {<<0, 0>>, <<2, 0>>, <<2, 1>>}
=============================================================================
