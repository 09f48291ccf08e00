------------------------------ MODULE Pipeline -------------------------------
(***************************************************************************)
(* One dataset from its raw table to its two reports, in the steps of      *)
(* app/controller.ts and workers/supervisor.ts: profile, normalize the     *)
(* plan the user approves, analyze, run a cost scenario, build the export  *)
(* model, write the workbook and the deck.  The user may approve another   *)
(* plan when a snapshot is already there, and run the scenario again.  A   *)
(* plan comes from one of the two reviews of the app or, with additive     *)
(* measures, from a caller of the packages.                                *)
(***************************************************************************)
EXTENDS Workbook, Preview, EvidenceView, WorkspaceView

CONSTANTS Uploads,        \* raw tables of files the user chooses
          Samples,        \* images of the bound sample
          Packaged,       \* raw tables of callers of the packages
          Measured,       \* columns these declare additive measures
          CostChanges,    \* cost changes typed, in percent
          SamplePeriod,   \* SAMPLE_SCOPE_BASE
          Replanned,      \* tables the user plans again
          MaxPlans,       \* bound: plans approved for one of these
          MaxMoves        \* bound: controls moved in one review of a table

(* What was read of a file: its columns in their order, finitely many rows *)
(* by their numbers, and a text in each cell.                              *)
RawTable(src) ==
    /\ Len(src.headers) \in Nat /\ Columns(src) = 1..Len(src.headers)
    /\ Rows(src) \subseteq Nat \ {0} /\ IsFiniteSet(Rows(src))
    /\ \A r \in Rows(src) : \A c \in Columns(src) : "kind" \in DOMAIN CellText(src, r, c)
Tables == Uploads \cup Samples \cup Packaged
ASSUME RawAssumption == \A src \in Tables : RawTable(src)
ASSUME MovesAssumption == MaxMoves \in [Tables -> Nat]

VARIABLES raw,        \* the raw table
          bound,      \* is it the bound sample
          plans,      \* plans approved so far
          table,      \* the normalized table, none or one
          snapshot,   \* the analysis
          scenario,   \* the cost scenario
          typed,      \* what was typed for it
          model,      \* the export model
          workbook,   \* the workbook written from it
          deck,       \* the deck written from it
          refused     \* what was last refused

vars == <<raw, bound, plans, table, snapshot, scenario, typed, model, workbook, deck, refused>>

None == <<>>
IsThere(x) == x # None

(* A review has controls; the user moves some of them, in any order.       *)
Plan(issueIds, columns, caches) ==
    [issueIds |-> issueIds, columns |-> columns, useCaches |-> caches]
Actionable(issues) == {q.id : q \in {t \in Range(issues) : t.action # "none"}}
Moved(controls, most) == {{}} \cup {Range(chosen) : chosen \in [1..most -> controls]}

(* The review of the session: every proposed change is ticked until the    *)
(* user unticks it, one issue at a time.  Where there is nothing to review *)
(* the same plan is taken unread.                                          *)
SessionPlans(profile, most) ==
    {Plan(Actionable(profile.issues) \ unticked, profile.columns, {}) :
        unticked \in Moved(Actionable(profile.issues), most)}

(* The review of an upload: nothing is approved until the user ticks it.   *)
(* The copies of one row are one group, spellings are ticked one by one,   *)
(* a column is confirmed with its questions of type or made a text, and    *)
(* the results of its formulas are taken or not.                           *)
ControlOf(q) ==
    CASE q.action = "exclude-row" -> <<"group", q.canonicalSourceRow>>
      [] q.action = "map-category" -> <<"category", q.id>>
      [] q.action = "confirm-type" -> <<"confirm", q.fieldId>>
      [] q.action = "use-cache" -> <<"cache", q.fieldId>>
      [] OTHER -> <<"none", q.id>>
Controls(profile) ==
    {ControlOf(q) : q \in {t \in Range(profile.issues) : t.action # "none"}}
        \cup {<<kind, c.id>> : kind \in {"confirm", "text"}, c \in Range(profile.columns)}
AsText(c) == [c EXCEPT !.type = "text", !.role = "unknown", !.additive = FALSE,
                       !.confirmed = TRUE]
Confirmed(c) == [c EXCEPT !.confirmed = TRUE]
Decided(c, moved) ==
    IF <<"text", c.id>> \in moved THEN AsText(c)
    ELSE IF <<"confirm", c.id>> \in moved THEN Confirmed(c) ELSE c
UploadPlan(profile, moved) ==
    Plan({q.id : q \in {t \in Range(profile.issues) :
                            t.action # "none" /\ ControlOf(t) \in moved}},
         [i \in DOMAIN profile.columns |-> Decided(profile.columns[i], moved)],
         {c.id : c \in {d \in Range(profile.columns) : <<"cache", d.id>> \in moved}})
UploadPlans(profile, most) ==
    {UploadPlan(profile, moved) : moved \in {m \in Moved(Controls(profile), most) :
        \A c \in Range(profile.columns) : ~({<<"confirm", c.id>>, <<"text", c.id>>} \subseteq m)}}

(* A caller of the packages approves what it likes, confirms every column  *)
(* and declares its date and its measures, which no control of a review    *)
(* does.                                                                   *)
MeasuredIds == {Field(slug) : slug \in Measured}
AsDeclared(c) ==
    IF c.id \in MeasuredIds
    THEN [Confirmed(c) EXCEPT !.role = "measure", !.additive = TRUE, !.unit = "USD"]
    ELSE IF c.id = Field("date")
    THEN [Confirmed(c) EXCEPT !.type = "date", !.role = "date"] ELSE Confirmed(c)
PackagePlans(profile, most) ==
    LET some == Moved(Actionable(profile.issues), most)
    IN {Plan(ids, [i \in DOMAIN profile.columns |-> AsDeclared(profile.columns[i])], caches) :
           ids \in some \cup {Actionable(profile.issues) \ left : left \in some},
           caches \in {{}, MeasuredIds}}

Plans(src) ==
    LET profile == ProfileTable(src)
    IN IF src \in Packaged THEN PackagePlans(profile, MaxMoves[src])
       ELSE SessionPlans(profile, MaxMoves[src]) \cup UploadPlans(profile, MaxMoves[src])

ScopeOf ==
    IF bound THEN Scope(SamplePeriod, {}, TRUE)
    ELSE Scope(IF raw \in Packaged THEN SamplePeriod ELSE NoPeriod, {}, FALSE)

Init ==
    /\ \/ raw \in Uploads \cup Packaged /\ bound = FALSE
       \/ raw \in Samples /\ bound = TRUE
    /\ plans = 0 /\ refused = "none"
    /\ table = None /\ snapshot = None /\ scenario = None /\ typed = None
    /\ model = None /\ workbook = None /\ deck = None

Refuse(what) == /\ refused' = what
                /\ UNCHANGED <<raw, bound, plans, table, snapshot, scenario, typed, model, workbook, deck>>

(* A plan is normalized at once; none follows the model.                   *)
Approve(plan) == PlanKnown(raw, plan) /\ table' = <<NormalizeTable(raw, plan)>>
Review == \E plan \in Plans(raw) : Approve(plan)

Normalize ==
    /\ ~IsThere(model)
    /\ plans < (IF raw \in Replanned THEN MaxPlans ELSE 1) /\ plans' = plans + 1
    /\ Review
    /\ refused' = "none"
    /\ UNCHANGED <<raw, bound, snapshot, scenario, typed, model, workbook, deck>>

AnalyzeRefused == UsesPack(table[1], bound) /\ PackRefused(table[1], ScopeOf)
AnalyzeKeepingScenario ==
    /\ IsThere(table) /\ ~IsThere(model)
    /\ IF AnalyzeRefused THEN Refuse("analyze")
       ELSE /\ snapshot' = <<Analyze(table[1], ScopeOf, bound)>> /\ refused' = "none"
            /\ UNCHANGED <<raw, bound, plans, table, scenario, typed, model, workbook, deck>>
AnalyzeTable ==
    /\ IsThere(table) /\ ~IsThere(model)
    /\ IF AnalyzeRefused THEN Refuse("analyze")
       ELSE /\ snapshot' = <<Analyze(table[1], ScopeOf, bound)>>
            /\ scenario' = None /\ typed' = None /\ refused' = "none"
            /\ UNCHANGED <<raw, bound, plans, table, model, workbook, deck>>

(* The panel parses what was typed and the engine checks it again; the     *)
(* panel's own refusal sends nothing.                                      *)
SubmitScenario ==
    /\ IsThere(snapshot) /\ ~IsThere(model)
    /\ \E text \in CostChanges :
          LET change == ParsePercentInput(text)
          IN IF ~PercentAccepted(text) THEN Refuse("typed")
             ELSE IF ~CostChangeAccepted(change) \/ ~BaselineDefined(snapshot[1])
             THEN Refuse("scenario")
             ELSE /\ scenario' = <<RunScenario(snapshot[1], change)>> /\ typed' = <<text>>
                  /\ refused' = "none"
                  /\ UNCHANGED <<raw, bound, plans, table, snapshot, model, workbook, deck>>

ScenarioOr == IF IsThere(scenario) THEN scenario[1] ELSE NoScenario
BuildModel ==
    /\ IsThere(table) /\ IsThere(snapshot) /\ ~IsThere(model)
    /\ IF ModelRefused(table[1], snapshot[1], IsThere(scenario), ScenarioOr)
       THEN Refuse("model")
       ELSE /\ model' = <<BuildExportModel(table[1], snapshot[1], IsThere(scenario), ScenarioOr)>>
            /\ refused' = "none"
            /\ UNCHANGED <<raw, bound, plans, table, snapshot, scenario, typed, workbook, deck>>

WriteWorkbook ==
    /\ IsThere(model) /\ ~IsThere(workbook)
    /\ IF WorkbookRefused(model[1]) THEN Refuse("workbook")
       ELSE /\ workbook' = <<BuildWorkbook(model[1])>> /\ refused' = "none"
            /\ UNCHANGED <<raw, bound, plans, table, snapshot, scenario, typed, model, deck>>
WriteDeck ==
    /\ IsThere(model) /\ ~IsThere(deck)
    /\ IF DeckRefused(model[1]) THEN Refuse("deck")
       ELSE /\ deck' = <<BuildPresentation(model[1])>> /\ refused' = "none"
            /\ UNCHANGED <<raw, bound, plans, table, snapshot, scenario, typed, model, workbook>>

Next == Normalize \/ AnalyzeTable \/ SubmitScenario \/ BuildModel \/ WriteWorkbook \/ WriteDeck
Spec == Init /\ [][Next]_vars

-----------------------------------------------------------------------------
(* Properties                                                              *)

TwiceNamed(items) == UniqueIds(items) # {}

(* A row of data is kept, or excluded by one approved issue in favour of a *)
(* kept row of the same texts; a kept cell is told, by its value or by the *)
(* ledger, as it was but for blanks around a number and the spelling of a  *)
(* yes or no; and the summary counts every row.  The table has a value for *)
(* every column of every row, and the ledger names columns and kept rows.  *)
(* (normalizeTable, originalValue, qualitySummaryOf)                       *)
RowsTold ==
    IsThere(table) =>
        LET t == table[1]
            excluding(r) == {i \in DOMAIN t.qualityIssues :
                /\ t.qualityIssues[i].kind = "duplicate" /\ t.qualityIssues[i].sourceRow = r
                /\ t.qualityIssues[i].status = "resolved"}
            told(r, c) == OriginalValue(t, r, ColumnId(raw, c))
        IN /\ \A r \in DataRows(raw) :
                 IF r \in DOMAIN t.rows THEN excluding(r) = {}
                 ELSE /\ Cardinality(excluding(r)) = 1
                      /\ \A i \in excluding(r) :
                            LET kept == t.qualityIssues[i].canonicalSourceRow
                            IN kept \in DOMAIN t.rows /\ RowKey(raw, kept) = RowKey(raw, r)
           /\ \A r \in DOMAIN t.rows : \A c \in Columns(raw) :
                 \/ told(r, c) = CellText(raw, r, c)
                 \/ told(r, c).kind = "decimal" /\ told(r, c) = Trim(CellText(raw, r, c))
                 \/ told(r, c).kind = "flag" /\ told(r, c) = Flag(CellText(raw, r, c))
           /\ \A r \in DOMAIN t.rows :
                 LET originals == EvidenceRow(t, r).originals
                 IN \A f \in DOMAIN originals : originals[f] = OriginalValue(t, r, f)
           /\ CheckNormalizedTable(t) \cap {"row.values.columns", "issue.fieldId",
                                            "issue.canonicalRow"} = {}
           /\ QualitySummaryOf(t).rawRows = Cardinality(DataRows(raw))

(* A row of data is in the cleaned sheet, in the order of the source, or in*)
(* the quality sheet as an excluded copy, never in both; and the preview   *)
(* of the workbook counts the rows of its sheet and those of the file.     *)
(* (buildWorkbook, qualitySummaryOf, WorkbookPreview)                      *)
RowsExported ==
    IsThere(workbook) =>
        LET clean == workbook[1].clean
            kept == {row.sourceRow : row \in Range(clean)}
            copies == {q.sourceRow : q \in {i \in Range(workbook[1].quality) :
                                                i.kind = "duplicate" /\ i.status = "resolved"}}
        IN /\ kept \cup copies = DataRows(raw) /\ kept \cap copies = {}
           /\ \A i, j \in DOMAIN clean : i < j => clean[i].sourceRow < clean[j].sourceRow
           /\ WorkbookPreview(model[1]).retained = Len(clean)
           /\ WorkbookPreview(model[1]).raw = Cardinality(DataRows(raw))

(* Nothing of the source is lost, by the normalization or on the way to    *)
(* the workbook.                                                           *)
RowsAccounted == RowsTold /\ RowsExported

(* Every figure of a snapshot is what its proof evaluates to over the rows *)
(* it names, and every amount of the scenario is within half of the last   *)
(* digit shown of its own; both satisfy the contract otherwise.  A count   *)
(* whose issues share an id has no value.  The amounts of the rows that    *)
(* the evidence of a sum lists add up to it.                               *)
(* (analyze, runScenario, evaluateMetric, evaluateProof, buildSum)         *)
FiguresRecompute ==
    LET ctx == EvalContext(table[1], snapshot[1].metrics \o scenario[1].metrics,
                           snapshot[1].provenance \o scenario[1].provenance)
        close(m) ==
            LET outcome == EvaluateMetric(m.id, ctx)
                half == CASE m.unit = "pp" -> Dec(FALSE, 2, 1)
                          [] m.unit = "ratio" -> Dec(FALSE, 2, 3)
                          [] OTHER -> Dec(FALSE, 5, 2)
            IN outcome.defined /\ ~Less(half, AbsDecimal(SubtractDecimal(outcome.value, m.value)))
        current == IsThere(snapshot) /\ snapshot[1].revision = table[1].revision
    IN /\ current => CheckAnalysisSnapshot(snapshot[1], table[1]) \subseteq
                         IF TwiceNamed(table[1].qualityIssues) THEN {"metric.evaluate"} ELSE {}
       /\ current /\ IsThere(scenario) =>
             /\ CheckScenarioResult(scenario[1], snapshot[1], table[1]) \subseteq
                    {"proof.result.mismatch", "metric.value.mismatch"}
             /\ \A i \in DOMAIN scenario[1].metrics : close(scenario[1].metrics[i])
       /\ current => \A p \in Range(snapshot[1].provenance) : \A s \in Range(p.selections) :
             LET total == SumField(table[1], Range(SelectionRows(s.spans)), p.expression.field)
             IN /\ Compare(total, p.result) = 0
                /\ EvaluateProof(p, table[1], snapshot[1].metrics,
                                 snapshot[1].provenance).value = Parse(total)

(* A model mixes nothing, whatever plans, analyses and scenarios came      *)
(* before: it holds the table that is there, every proof of its figures    *)
(* and of its scenario is of the revision of this table, its summary counts*)
(* this table, and its scenario is the one that the snapshot gives.        *)
(* (buildExportModel, runScenario, the controller's analysis)              *)
ModelOfOneRevision ==
    IsThere(model) =>
        LET m == model[1]
        IN /\ m.table = table[1] /\ m.qualitySummary = QualitySummaryOf(m.table)
           /\ \A p \in Range(m.provenance) \cup Range(m.scenario.provenance) :
                 p.revision = m.table.revision
           /\ m.hasScenario => m.scenario = RunScenario(snapshot[1], m.scenario.costChange)

(* The value a formula of the metrics sheet shows, computed from the clean *)
(* sheet and the other rows of its own sheet: a text matches whatever its  *)
(* case, a cell that is not a number adds nothing, a ratio to what is not  *)
(* positive is blank.                                                      *)
SheetSum(sheet, field, matches(_)) ==
    FoldLeft(LAMBDA total, row : IF matches(row) /\ row.cells[field].type = "number"
                                 THEN AddDecimal(total, row.cells[field].dec) ELSE total,
             Zero, sheet)
SheetAt(book, id) ==
    LET m == CHOOSE i \in DOMAIN book.kpis : book.kpis[i].metric = id IN book.kpis[m].cached
SheetBlank(book, row) ==
    row.formula.op = "ratio" /\ ~Less(Zero, SheetAt(book, row.formula.positive))
SheetValue(book, row) ==
    LET f == row.formula
        at(id) == SheetAt(book, id)
        dated(r) == LET d == {g \in DOMAIN r.cells : g = Field("date")}
                    IN \A g \in d : r.texts[g].dec.coefficient \in f.period.first..f.period.last
        placed(r) == \A t \in f.regions : r.texts[RegionField].fold = t.fold
                                             /\ r.texts[RegionField].form # "padded"
    IN CASE f.op = "sumifs" -> SheetSum(book.clean, f.field, LAMBDA r : dated(r) /\ placed(r))
         [] f.op = "sum" -> SheetSum(book.clean, f.field, LAMBDA r : TRUE)
         [] f.op = "minus" -> SubtractDecimal(at(f.left), at(f.right))
         [] f.op = "ratio" ->
              DivideDecimal(IF f.from THEN SubtractDecimal(at(f.numerator), at(f.positive))
                                      ELSE at(f.numerator), at(f.positive))
         [] OTHER -> row.cached

(* The two reports tell the same figures: the model satisfies the contract *)
(* the writers assert and its charts show the values of its metrics, so    *)
(* that neither is refused but for its size; every formula of the workbook *)
(* recomputes the value written beside it, every link leads to the row of  *)
(* the metric's proof, every line of a slide shows what the workbook shows *)
(* of that metric, and no bar is longer than its track.                    *)
(* (assertExportModel, numericParity, buildWorkbook, formulaForMetric,     *)
(* renderSlide)                                                            *)
ReportsAgree ==
    LET book == workbook[1]
        rows == book.kpis
        linked(row) == row.defined => /\ row.link # 0
                                      /\ book.methodology[row.link - 1] = row.metric
        shown(line) == \A i \in DOMAIN rows : rows[i].metric = line.metric =>
                           line.shown = rows[i].defined
                           /\ (line.shown => Compare(line.value, rows[i].cached) = 0)
        slides == deck[1].slides
    IN /\ IsThere(model) =>
             /\ CheckExportModel(model[1]) = {} /\ NumericParity(model[1])
             /\ model[1].hasScenario /\ model[1].scenario.defined => Len(model[1].slides) = 6
       /\ IsThere(workbook) =>
             /\ \A i \in DOMAIN rows : /\ rows[i].defined =>
                                             /\ ~SheetBlank(book, rows[i])
                                             /\ Compare(SheetValue(book, rows[i]), rows[i].cached) = 0
                                       /\ linked(rows[i])
             /\ \A i \in DOMAIN book.summary : linked(book.summary[i])
       /\ IsThere(workbook) /\ IsThere(deck) =>
             \A i \in DOMAIN slides : \A k \in DOMAIN slides[i].lines : shown(slides[i].lines[k])
       /\ IsThere(deck) => \A i \in DOMAIN slides : \A k \in DOMAIN slides[i].bars :
             slides[i].bars[k].length \in 0..slides[i].bars[k].track

(* The dialog of a finding: what the finding names is there, no selection  *)
(* is drawn twice, every operand of the trace has its value, each proof    *)
(* evaluates to the result it states, and the rows loaded page after page  *)
(* are the first of the selection, all of them when the panel can hold     *)
(* them.  Rows with a cached formula value in a column that is added say   *)
(* so, or the dialog lists the change by which the value was taken.        *)
CachedRows(s) ==
    {r \in Range(SelectionRows(s.spans)) : \E c \in Columns(raw) :
        ColumnId(raw, c) \in s.fieldIds /\ raw.cells[r][c].type = "formula"}
SelectionTells(panel, s, own, most) ==
    LET loaded(k) == RowsShown(table[1], s, k)
    IN /\ \/ "cache" \in own.caveats
          \/ CachedRows(s) \subseteq
                 {q.sourceRow : q \in {t \in Range(panel.transforms) : t.kind = "formula-cache"}}
       /\ s.fieldIds \subseteq {c.id : c \in Range(own.columns)}
       /\ \A k \in 1..most : loaded(k) = SubSeq(SelectionRows(s.spans), 1, Len(loaded(k)))
       /\ \E k \in 1..most : /\ ~CanLoadMore(table[1], s, k)
                             /\ Len(loaded(k)) >= Min({s.rowCount, PanelRows})
PanelTells(panel, subject) ==
    LET counted(p) == p.expression.op = "count-issues" /\ TwiceNamed(table[1].qualityIssues)
    IN /\ ~TwiceNamed(panel.selections)
       /\ \A i \in DOMAIN panel.proofs :
             /\ panel.proofs[i].missing = {}
             /\ counted(subject.proofs[i]) \/ panel.proofs[i].result = "verified"
       /\ \A s \in Range(SubjectSelections(subject)) :
             SelectionTells(panel, s, ById(panel.selections, s.id),
                            PagesLoaded(table[1], s, s.rowCount + 1))
DialogTells(finding) ==
    /\ SubjectResolves(snapshot[1], finding)
    /\ PanelTells(EvidencePanel(snapshot[1], table[1], finding),
                  ResolveSubject(snapshot[1], finding))

(* Every selection of a snapshot holds rows of the table with an amount in *)
(* each of its columns, and none that was left out.  Its pages of evidence *)
(* list each of these rows once, in the order of the source: none of the   *)
(* pages is refused, each leads to the next and the last to none.  This is *)
(* so of the rows that the envelope of evidence admits.                    *)
(* (canonicalizeSpans, expandSpans, readEvidencePage, buildSum)            *)
RowsAdmitted == Rows(raw) \subseteq 1..MaxExpandedRows
EvidenceComplete ==
    IsThere(snapshot) /\ snapshot[1].revision = table[1].revision /\ RowsAdmitted =>
       \A p \in Range(snapshot[1].provenance) : \A k \in DOMAIN p.selections :
          LET s == p.selections[k]
              pages == (s.rowCount + MaxEvidencePage - 1) \div MaxEvidencePage
              page(i) == ReadEvidencePage(table[1], s, (i - 1) * MaxEvidencePage, MaxEvidencePage)
              listed == FlattenSeq([i \in 1..pages |-> page(i).rows])
          IN /\ CheckSelection(s, table[1])
             /\ listed = RowsIn(Range(listed)) /\ Len(listed) = s.rowCount
             /\ \A r \in Range(listed) : \A f \in s.fieldIds : IsAmount(table[1].rows[r][f])
             /\ Range(listed) \cap s.excludedRowIds = {}
             /\ \A i \in 1..pages : ~PageRefused((i - 1) * MaxEvidencePage, MaxEvidencePage)
             /\ \A i \in 1..pages : page(i).next = IF i < pages THEN i * MaxEvidencePage ELSE 0

(* The preview of a slide shows the first lines of the deck's, its chart   *)
(* and its source rows, with a higher mark for a greater value; that of    *)
(* the scenario shows nothing of a metric that the deck shows otherwise.   *)
ChartTells(own, real) ==
    LET marks == FlattenSeq(own.marks)
        values == FlattenSeq(own.bars)
    IN /\ own.chart = real.chart /\ own.bars = SubSeq(real.bars, 1, Len(own.bars))
       /\ \A i, j \in DOMAIN marks : Less(marks[i], marks[j]) => Less(values[i], values[j])
DrawnAs(own, real) ==
    /\ own.kind = real.kind /\ Len(own.chart) = Len(real.chart)
    /\ \A line \in Range(own.lines), there \in Range(real.lines) :
          line.metric = there.metric => line = there
    /\ own.kind # "scenario" =>
          own.lines = SubSeq(real.lines, 1, Len(own.lines))
          /\ Len(own.lines) >= Min({PreviewLines, Len(real.lines)})
    /\ own.bars = real.bars
    /\ own.kind = "methodology" => own.spans = real.footer.spans
    /\ \A k \in DOMAIN own.chart : ChartTells(own.chart[k], real.chart[k])
PreviewTells(slide, real) == DrawnAs(SlidePreview(model[1], slide), real)

(* Every surface shows one figure: the dialog its exact value, the         *)
(* workspace the nearest at the digits it shows, and of a ratio what the   *)
(* slide shows too; a compact amount of a slide is never above its value,  *)
(* and no count has a fraction, which the workspace refuses to show.  The  *)
(* text of a finding leaves no place for a figure open, its chart marks a  *)
(* point of it, a chart of the engine is drawn on the axis it declares     *)
(* unless a value is negative, and the scenario is plotted as in the deck. *)
(* The dialog of every finding tells its proofs and their rows.  What the  *)
(* preview shows of a report is in the report.                             *)
(* (formatDecimal, formatMetricValue of the three surfaces, findingBody,   *)
(* prepareChart, scenarioChartSpec, SlidePreview)                          *)
SurfacesAgree ==
    LET shown(m) ==
            LET strip == WorkspaceShows(m.value, m.unit)
                slide == SlideShows(m.value, m.unit)
                exact == IF m.unit = "ratio" THEN MultiplyDecimal(m.value, Hundred) ELSE m.value
                compact == FormatCompact(m.value)
                half == Dec(FALSE, 5, strip.scale + 1)
            IN /\ ~WorkspaceRefuses(m.value, m.unit)
               /\ Compare(EvidenceShows(m.value, m.unit), exact) = 0
               /\ ~Less(half, AbsDecimal(SubtractDecimal(strip, exact)))
               /\ Compare(slide, IF m.unit = "ratio" THEN strip ELSE exact) = 0
               /\ ~Less(AbsDecimal(m.value),
                        MultiplyDecimal(Magnitude(compact.shown), Whole(compact.factor)))
        told(f) ==
            /\ Resolved(snapshot[1], f) = ParamPlan(f.bodyKey)
            /\ \A c \in Range(HeroChart(snapshot[1], f)) :
                  c.id = f.chartId /\ EmphasisKeyFor(c, f) # <<>>
        plain(c) == \E v \in Range(ChartPlot(c).values) : Less(v, Zero)
        plot == ScenarioPlot(snapshot[1], scenario[1])
        drawn == SelectSeq(model[1].charts, LAMBDA c : c.id = Id("chart-scenario"))
    IN /\ IsThere(snapshot) =>
             /\ \A m \in Range(snapshot[1].metrics) : m.defined => shown(m)
             /\ ~TwiceNamed(HeadlineMetrics(snapshot[1]))
             /\ \A f \in Range(snapshot[1].findings) :
                   told(f) /\ (snapshot[1].revision = table[1].revision => DialogTells(f))
             /\ \A c \in Range(snapshot[1].charts) :
                   plain(c) \/ PrepareChart(ChartPlot(c)) = Declared(ChartPlot(c))
       /\ IsThere(model) /\ IsThere(scenario) /\ plot # <<>> =>
             drawn # <<>> /\ plot[1].values = ChartPlot(drawn[1]).values
       /\ IsThere(deck) => \A i \in DOMAIN model[1].slides :
             PreviewTells(model[1].slides[i], deck[1].slides[i])

(* The cost change of a scenario is the percentage that was typed.         *)
(* (parsePercentInput)                                                     *)
TypedPercentExact ==
    IsThere(scenario) =>
        Compare(MultiplyDecimal(scenario[1].costChange, Hundred), typed[1].dec) = 0

(* The scenario is plotted on the domain declared for it, which depends on *)
(* the snapshot alone: a scenario submitted again does not move the axis.  *)
(* (scenarioChartSpec, prepareChart)                                       *)
AxisFixed ==
    IsThere(snapshot) /\ IsThere(scenario) =>
        \A plot \in Range(ScenarioPlot(snapshot[1], scenario[1])) :
            PrepareChart(plot) = Declared(plot)

(* "what you read here is what downloads": every figure that the preview   *)
(* of a slide shows is on the slide.  (SlidePreview, layoutScenario)       *)
PreviewIsDeck ==
    IsThere(deck) => \A i \in DOMAIN model[1].slides :
        Range(SlidePreview(model[1], model[1].slides[i]).lines) \subseteq
            Range(deck[1].slides[i].lines)

(* "scaled to its declared domain": the mark of a value stands to the      *)
(* track as the value to the greatest of the domain.  (MiniChart)          *)
MarksToScale ==
    IsThere(model) => \A c \in Range(model[1].charts) : \A p \in Range(c.points) :
        \A v \in Range(p.values) :
            ~Less(v, Zero) /\ ~Less(c.max, v) =>
                MarkHeight(v, c) = DivideDecimal(MultiplyDecimal(v, Whole(MarkTrack)), c.max)

(* In the rows of the evidence a cell is struck where its value is not the *)
(* one of the source.  (CellBody)                                          *)
ChangesShown ==
    IsThere(snapshot) /\ snapshot[1].revision = table[1].revision =>
        \A p \in Range(snapshot[1].provenance) : \A s \in Range(p.selections) :
            \A r \in Range(SelectionRows(s.spans)) : \A f \in s.fieldIds :
                LET changes == SelectSeq(CellIssuesOf(table[1], r, f),
                                         LAMBDA q : q.original # NoText)
                IN changes # <<>> =>
                       (Struck(table[1], r, f) # <<>>
                            <=> changes[1].original # table[1].rows[r][f])
=============================================================================
