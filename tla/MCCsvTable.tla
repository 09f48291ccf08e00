---------------------------- MODULE MCCsvTable -----------------------------
(* Texts of up to MaxUnits units: text, delimiters, line breaks, spaces   *)
(* and quoted fields that hold a line break.                               *)
EXTENDS CsvTable, SequencesExt

CONSTANT MaxUnits

MCUnit == {<<c>> : c \in Char \ {"quote"}}
              \cup {<<"quote", "newline", "quote">>, <<"quote", "text", "newline", "quote">>}
MCText == {FlattenSeq(units) : units \in BoundedSeq(MCUnit, MaxUnits)}
=============================================================================
