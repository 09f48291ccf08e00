----------------------------- MODULE EvidenceView ----------------------------
(***************************************************************************)
(* The evidence dialog: apps/web/src/evidence, model.ts (the subject of a  *)
(* finding and its caveats), EvidencePanel.tsx, ExpressionTrace.tsx and    *)
(* SourceRowsTable.tsx.  It draws a snapshot, a table and one finding, and *)
(* keeps how many pages of each selection are loaded.  Labels, the texts   *)
(* of the caveats and the fingerprint of the file are left out.            *)
(***************************************************************************)
EXTENDS Analysis

CONSTANTS PanelPage,    \* EVIDENCE_PAGE_SIZE
          PanelRows     \* DEFAULT_MAX_ROWS

ASSUME EvidenceViewAssumption == {PanelPage, PanelRows} \subseteq Nat \ {0}

(* resolveEvidenceSubject refuses a finding that names what is not there.  *)
SubjectResolves(snapshot, finding) ==
    /\ \A i \in DOMAIN finding.metricIds : HasId(snapshot.metrics, finding.metricIds[i])
    /\ \A i \in DOMAIN finding.provenanceIds :
          HasId(snapshot.provenance, finding.provenanceIds[i])
ResolveSubject(snapshot, finding) ==
    [finding |-> finding,
     metrics |-> [i \in DOMAIN finding.metricIds |->
                     ById(snapshot.metrics, finding.metricIds[i])],
     proofs |-> [i \in DOMAIN finding.provenanceIds |->
                    ById(snapshot.provenance, finding.provenanceIds[i])]]

(* Each selection once, where it is first named.                           *)
SubjectSelections(subject) ==
    FoldLeft(LAMBDA seen, s : IF HasId(seen, s.id) THEN seen ELSE Append(seen, s),
             <<>>, SelectionsOf(subject.proofs))
SubjectTransformIds(subject) == UNION {p.transformIds : p \in Range(subject.proofs)}
TransformIssues(subject, table) ==
    SelectSeq(table.qualityIssues, LAMBDA q : q.id \in SubjectTransformIds(subject))
OwnersOf(metrics, proof) == SelectSeq(metrics, LAMBDA m : m.proof = proof.id)

(* What is told beside a finding, a metric and a selection.                *)
SubjectCaveats(subject) == IF subject.finding.scope.complete THEN {} ELSE {"partial"}
MetricCaveats(metric) == metric.warnings \cup (IF metric.defined THEN {} ELSE {"undefined"})
OpenIssues(selection, table) ==
    {q \in Range(table.qualityIssues) :
        /\ q.sourceRow \in Range(SelectionRows(selection.spans))
        /\ q.status \in {"unresolved", "proposed"}}
SelectionCaveats(selection, table) ==
    LET kinds == {q.kind : q \in OpenIssues(selection, table)}
        told == (IF kinds \cap {"missing", "malformed"} # {} THEN {"missing"} ELSE {})
                    \cup (IF "formula-cache" \in kinds THEN {"cache"} ELSE {})
    IN IF told = {} /\ kinds # {} THEN {"open"} ELSE told

(* expressionOperands, and the operands the trace cannot show.             *)
ExpressionOperands(e) ==
    LET of(op) == {t \in Leaves(e) : t.op = op}
    IN [metrics |-> {t.metric : t \in of("metric")},
        selections |-> {t.selection : t \in of("sum")},
        issues |-> UNION {Range(t.issueIds) : t \in of("count-issues")}]
TraceMissing(snapshot, subject, proof) ==
    LET operands == ExpressionOperands(proof.expression)
    IN {id \in operands.metrics : ~HasId(snapshot.metrics, id)}
           \cup {id \in operands.selections : ~HasId(SubjectSelections(subject), id)}
InputsList(snapshot, subject) ==
    LET named == UNION {ExpressionOperands(p.expression).metrics : p \in Range(subject.proofs)}
    IN SelectSeq(snapshot.metrics, LAMBDA m : m.id \in named)

(* ResultLine: the proof evaluated again beside the result that is stored. *)
ResultsAgree(a, b) == Parse(a) = Parse(b)
ResultLine(snapshot, table, proof) ==
    LET evaluated == EvaluateProof(proof, table, snapshot.metrics, snapshot.provenance)
    IN IF ~evaluated.defined THEN "undefined"
       ELSE IF proof.defined /\ ResultsAgree(evaluated.value, proof.result) THEN "verified"
       ELSE "mismatch"

-----------------------------------------------------------------------------
(* The rows of a selection after so many pages, and one of their cells.    *)

SpanTokens(selection) == selection.spans
PageOf(table, selection, k) ==
    ReadEvidencePage(table, selection, (k - 1) * PanelPage, PanelPage)
PagesLoaded(table, selection, count) ==
    CHOOSE n \in 1..count :
        /\ \A k \in 1..n - 1 : PageOf(table, selection, k).next # 0
        /\ n < count => PageOf(table, selection, n).next = 0
RowsShown(table, selection, count) ==
    FlattenSeq([k \in 1..PagesLoaded(table, selection, count) |->
                   PageOf(table, selection, k).rows])
CanLoadMore(table, selection, count) ==
    LET last == PageOf(table, selection, PagesLoaded(table, selection, count))
    IN /\ last.next # 0
       /\ Len(RowsShown(table, selection, count)) < Min({last.total, PanelRows})

VisibleColumns(table, selection) ==
    LET named == SelectSeq(table.columns, LAMBDA c : c.id \in selection.fieldIds)
    IN IF named = <<>> THEN table.columns ELSE named
CellIssuesOf(table, r, f) ==
    SelectSeq(table.qualityIssues, LAMBDA q : q.sourceRow = r /\ q.fieldId = f)

(* CellBody: the first change of the cell, its original struck through.    *)
Struck(table, r, f) ==
    LET changes == SelectSeq(CellIssuesOf(table, r, f),
                             LAMBDA q : q.original # NoText /\ q.normalized # table.rows[r][f])
    IN [i \in 1..Min({1, Len(changes)}) |-> changes[i].original]

-----------------------------------------------------------------------------
(* What the dialog shows of a finding.  The caveats of a figure stand      *)
(* beside it among the inputs, those of a selection beside its rows.       *)
ProofShown(snapshot, table, subject, proof) ==
    [proof |-> proof.id, missing |-> TraceMissing(snapshot, subject, proof),
     result |-> ResultLine(snapshot, table, proof)]
SelectionShown(table, selection) ==
    [id |-> selection.id, spans |-> SpanTokens(selection), count |-> selection.rowCount,
     caveats |-> SelectionCaveats(selection, table),
     columns |-> VisibleColumns(table, selection)]
EvidencePanel(snapshot, table, finding) ==
    LET subject == ResolveSubject(snapshot, finding)
        selections == SubjectSelections(subject)
        inputs == InputsList(snapshot, subject)
    IN [caveats |-> SubjectCaveats(subject),
        proofs |-> [i \in DOMAIN subject.proofs |->
                       ProofShown(snapshot, table, subject, subject.proofs[i])],
        inputs |-> [i \in DOMAIN inputs |->
                       [id |-> inputs[i].id, caveats |-> MetricCaveats(inputs[i])]],
        selections |-> [i \in DOMAIN selections |-> SelectionShown(table, selections[i])],
        transforms |-> TransformIssues(subject, table)]
=============================================================================
