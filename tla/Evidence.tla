------------------------------ MODULE Evidence -------------------------------
(***************************************************************************)
(* What a figure rests on: spans of source rows (packages/provenance,      *)
(* spans.ts and evidence.ts), proofs and their evaluation over a           *)
(* normalized table (contracts/src/evaluate.ts, provenance/src/proof.ts).  *)
(***************************************************************************)
EXTENDS Ledger

CONSTANTS MaxExpandedRows,   \* MAX_EXPANDED_ROWS
          MaxEvidencePage    \* MAX_EVIDENCE_PAGE

ASSUME EvidenceAssumption == {MaxExpandedRows, MaxEvidencePage} \subseteq Nat \ {0}

Span(first, last) == [first |-> first, last |-> last]
SpanLength(s) == s.last - s.first + 1

(* canonicalizeSpans, and its twin toSpans: the maximal runs of the rows.  *)
HullOfRows(rows) == IF rows = {} THEN <<>> ELSE <<Span(Min(rows), Max(rows))>>
CanonicalizeSpans(rows) ==
    LET starts == RowsIn({r \in rows : r - 1 \notin rows})
        lastOf(r) == Min({q \in rows : q >= r /\ q + 1 \notin rows})
    IN [i \in DOMAIN starts |-> Span(starts[i], lastOf(starts[i]))]

(* selectionRows: every row of every span, in the order of the spans.      *)
SelectionRows(spans) ==
    FlattenSeq([i \in DOMAIN spans |->
                   [k \in 1..SpanLength(spans[i]) |-> spans[i].first + k - 1]])
SpanRowCount(spans) ==
    LET upTo[i \in 0..Len(spans)] == IF i = 0 THEN 0 ELSE upTo[i - 1] + SpanLength(spans[i])
    IN upTo[Len(spans)]

(* expandSpans refuses spans out of the envelope before it expands them.   *)
Expandable(spans) ==
    /\ \A i \in DOMAIN spans : /\ spans[i].first >= 1 /\ spans[i].last <= MaxExpandedRows
                               /\ spans[i].first <= spans[i].last
    /\ SpanRowCount(spans) <= MaxExpandedRows
ValidSpans(spans, rowCount) ==
    /\ \A i \in DOMAIN spans :
          /\ 1 <= spans[i].first /\ spans[i].first <= spans[i].last
          /\ i > 1 => spans[i].first > spans[i - 1].last + 1
    /\ SpanRowCount(spans) = rowCount

Selection(id, rows, fields, excluded) ==
    [id |-> id, spans |-> CanonicalizeSpans(rows), rowCount |-> Cardinality(rows),
     fieldIds |-> fields, excludedRowIds |-> excluded]
CheckSelection(selection, table) ==
    /\ ValidSpans(selection.spans, selection.rowCount)
    /\ Expandable(selection.spans)
    /\ Range(SelectionRows(selection.spans)) \subseteq DOMAIN table.rows
SelectionsOf(proofs) == FlattenSeq([i \in DOMAIN proofs |-> proofs[i].selections])
HasId(items, id) == \E i \in DOMAIN items : items[i].id = id
ById(items, id) == items[Min({i \in DOMAIN items : items[i].id = id})]

(* readEvidencePage: a page of the rows of a selection; next 0 is the end. *)
ReadEvidencePage(table, selection, offset, pageSize) ==
    LET contributing == Keep(SelectionRows(selection.spans),
                             LAMBDA r : r \in DOMAIN table.rows)
        end == IF offset + pageSize < Len(contributing)
               THEN offset + pageSize ELSE Len(contributing)
    IN [rows |-> SubSeq(contributing, offset + 1, end), total |-> Len(contributing),
        next |-> IF offset + pageSize < Len(contributing) THEN end ELSE 0]
PageRefused(offset, pageSize) == offset < 0 \/ pageSize \notin 1..MaxEvidencePage

(* evidenceRow: what the ledger says of the row; the last original of a    *)
(* field wins.                                                             *)
EvidenceRow(table, row) ==
    [values |-> table.rows[row],
     transforms |-> SelectSeq(table.qualityIssues, LAMBDA q : q.sourceRow = row),
     originals |-> [f \in {g \in DOMAIN table.rows[row] : ToldOf(table, row, g) # {}} |->
                       table.qualityIssues[Max(ToldOf(table, row, f))].original]]

-----------------------------------------------------------------------------
(* Expressions.  An outcome is defined with a value or says which rule     *)
(* failed.                                                                 *)

SumOf(selection, field) == [op |-> "sum", selection |-> selection, field |-> field]
CountIssues(ids) == [op |-> "count-issues", issueIds |-> ids]
MetricOf(id) == [op |-> "metric", metric |-> id]
Literal(value) == [op |-> "literal", value |-> value]
Binary(op, left, right) == [op |-> op, left |-> left, right |-> right]

Defined(value) == [defined |-> TRUE, value |-> value, rule |-> "none"]
Undefined(rule) == [defined |-> FALSE, value |-> Zero, rule |-> rule]

IsAmount(t) == IsDecimalText(t) /\ IsDecimal(t.dec)
SumRows(table, rows, field) ==
    IF \E i \in DOMAIN rows : rows[i] \notin DOMAIN table.rows
    THEN Undefined("row.missing")
    ELSE IF \E i \in DOMAIN rows : ~IsAmount(table.rows[rows[i]][field])
    THEN Undefined("operand.notDecimal")
    ELSE Defined(FoldLeft(LAMBDA total, r : AddDecimal(total, table.rows[r][field].dec),
                          Zero, rows))
EvaluateSum(ctx, e) ==
    IF ~HasId(ctx.selections, e.selection) THEN Undefined("selection.missing")
    ELSE LET selection == ById(ctx.selections, e.selection)
         IN IF e.field \notin selection.fieldIds THEN Undefined("fieldId.missing")
            ELSE SumRows(ctx.table, SelectionRows(selection.spans), e.field)
EvaluateCount(ctx, e) ==
    IF ~IsInjective(e.issueIds) THEN Undefined("issueIds.duplicate")
    ELSE IF \E i \in DOMAIN e.issueIds : ~HasId(ctx.table.qualityIssues, e.issueIds[i])
    THEN Undefined("issueIds.missing")
    ELSE Defined(Whole(Len(e.issueIds)))
Combine(op, l, r) ==
    CASE ~l.defined -> l
      [] l.defined /\ ~r.defined -> r
      [] l.defined /\ r.defined /\ op = "divide" /\ IsZeroDecimal(r.value) ->
            Undefined("divideByZero")
      [] OTHER -> Defined(CASE op = "add" -> AddDecimal(l.value, r.value)
                            [] op = "subtract" -> SubtractDecimal(l.value, r.value)
                            [] op = "multiply" -> MultiplyDecimal(l.value, r.value)
                            [] op = "divide" -> DivideDecimal(l.value, r.value))

(* An expression is a tree.  A place in it is the path that leads there,   *)
(* by the operands and, from a metric, into the expression of its proof;   *)
(* what is in progress at a place are the metrics on the way.              *)
ProofOf(ctx, id) == ById(ctx.proofs, ById(ctx.metrics, id).proof)
TermAt(ctx, e, path) ==
    FoldLeft(LAMBDA t, step : IF step = "metric" THEN ProofOf(ctx, t.metric).expression
                              ELSE t[step], e, path)
ActiveAt(ctx, e, path) ==
    {TermAt(ctx, e, SubSeq(path, 1, k - 1)).metric : k \in {i \in DOMAIN path : path[i] = "metric"}}
EvaluateNamed(ctx, id, active, proved) ==
    IF ~HasId(ctx.metrics, id) THEN Undefined("metric.missing")
    ELSE IF id \in active THEN Undefined("metric.cycle")
    ELSE IF ~ById(ctx.metrics, id).defined THEN Undefined("metric.undefined")
    ELSE IF ~HasId(ctx.proofs, ById(ctx.metrics, id).proof) THEN Undefined("proof.missing")
    ELSE proved
EvaluateExpression(ctx, e) ==
    LET outcome[path \in Seq({"left", "right", "metric"})] ==
            LET t == TermAt(ctx, e, path)
                next(step) == outcome[Append(path, step)]
            IN CASE t.op = "literal" -> Defined(t.value)
                 [] t.op = "metric" ->
                      EvaluateNamed(ctx, t.metric, ActiveAt(ctx, e, path), next("metric"))
                 [] t.op = "sum" -> EvaluateSum(ctx, t)
                 [] t.op = "count-issues" -> EvaluateCount(ctx, t)
                 [] OTHER -> Combine(t.op, next("left"), next("right"))
    IN outcome[<<>>]

(* The operands that are no operation themselves.                          *)
Leaves(e) ==
    LET below[path \in Seq({"left", "right"})] ==
            LET t == FoldLeft(LAMBDA u, side : u[side], e, path)
            IN IF t.op \in {"literal", "metric", "sum", "count-issues"} THEN {t}
               ELSE below[Append(path, "left")] \cup below[Append(path, "right")]
    IN below[<<>>]

(* buildEvalContext, where the first of an id wins; evaluateMetric, and    *)
(* evaluateProof of one proof among its siblings.                          *)
EvalContext(table, metrics, proofs) ==
    [table |-> table, metrics |-> metrics, proofs |-> proofs,
     selections |-> SelectionsOf(proofs)]
EvaluateMetric(id, ctx) == EvaluateExpression(ctx, MetricOf(id))
EvaluateProof(proof, table, metrics, siblings) ==
    EvaluateExpression(EvalContext(table, metrics,
                                   IF HasId(siblings, proof.id) THEN siblings
                                   ELSE <<proof>> \o siblings), proof.expression)
=============================================================================
