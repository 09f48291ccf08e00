---------------------------- MODULE MCUploadFlow ----------------------------
(* Two files, one of them with an ambiguous delimiter; one visible and one *)
(* hidden sheet; a column whose type and one whose cache is to be decided. *)
EXTENDS UploadFlow

CONSTANTS book, text, shown1, hidden1, typed, cached, typeIssue, cacheIssue, duplicate

MCOfColumn == [i \in Issue |-> IF i = cacheIssue THEN cached ELSE typed]
=============================================================================
