# Rowfolio: models and proofs

Rowfolio reads a spreadsheet in the browser, lets its user review the columns
and quality issues found in it, computes findings, shows the source rows behind
each of them, recomputes a cost scenario, and exports a workbook and a
presentation. Two kinds of things can go wrong, and this project is about both:
what happens *between* two steps (an answer that comes too late, a file picked
while another is parsed, a cancel that loses a table), and what one part tells
of a figure, a row or a file and another part tells otherwise.

Paths below are relative to the repository's root; `app/`, `workers/`,
`upload/`, `landing/`, `demo/`, `workspace/`, `briefing/`, `evidence/` stand for
`apps/web/src/<dir>/`.

1. [The system](#1-the-system) 2. [Modules](#2-modules) 3. [Runs](#3-runs)
4. [Fairness](#4-fairness) 5. [Proofs](#5-proofs) 6. [Disagreements found](#6-disagreements-found)
7. [What is not modelled](#7-what-is-not-modelled) 8. [Plan](#8-plan)

## 1. The system

### Components, their state and how they interact

| component | state it keeps | operations | interacts with |
| --- | --- | --- | --- |
| **Worker client** `workers/client.ts` | attached instance, the one request in flight, its watchdog, `terminated` | `request`, `cancel`, `dispose`; timer, error and message handlers | `postMessage` to a worker; its promise is awaited by the controller |
| **Worker supervisor** `workers/supervisor.ts` | retained raw tables | `handleMessage` for ingest, profile, normalize, analyze, scenario, export, dispose | runs in the worker; concurrent, since each handler awaits its engine |
| **Session state and reducer** `app/state.ts`, `app/reducer.ts` | phase, pending source, committed dataset, scenario, export, request ids, revision | one case per action | pure; dispatched to by the controller |
| **Session controller** `app/controller.ts` | session, two worker clients, last source, Blob URLs | select, retry, sample, approve, cancel, adopt, scenario, export, replay, clear | awaits clients and main-thread promises, guards each continuation by the live request id |
| **Upload flow** `upload/controller.ts` | stage, selection, opted-in hidden sheets, decisions, job counter, prior outcome | pick, inspect, configure, parse, decide, submit, cancel, retry | its parse goes through the controller's analysis client; its outcome is adopted by the session |
| **Landing timeline** `demo/loopClock.ts`, `landing/SpreadStage.tsx` | status, time, frame handle, automatic pause | start, pause, resume, seek, replay, tick, autoGate | animation frames, tab and viewport visibility, motion preference |
| **CSV adapter** `packages/ingest/src/csv.ts` | cursor, records, cells | `parseCsv` | Papa Parse; runs in the worker behind `ingest` |
| **XLSX adapter, ZIP preflight, inspection** `packages/ingest/src/` | per call | `parseXlsx`, `preflightZip`, `inspect` | as above |
| **Normalize and profile** `packages/normalize/src/` | none | proposals and issues; approval plan to typed rows | runs on the table the supervisor retains |
| **Analysis, scenario** `packages/analysis/src/`, `packages/scenario/src/` | none | metrics, findings, evidence; cost scenario | evaluated in the worker |
| **Provenance and evidence** `packages/provenance/src/`, `evidence/model.ts` | page | spans to rows, paging, traces | reads the committed dataset |
| **Contracts** `packages/contracts/src/` | none | schema validation, semantic checks, progress checks, decimals, expressions | every worker boundary |
| **Export model and writers** `packages/export-*/src/` | none | briefing model, workbook, presentation | model on the main thread, writers in the export worker, which assert the contract of the model again |
| **Language system** `packages/i18n/src/` | locale | catalogs, plurals, formatting and parsing of numbers | every view; the writers and the evidence format on their own |
| **Guided demo** `demo/controller.ts` | step, status, epoch, dwell timer | start, pause, resume, next, back, replay, exit; steps suspended at two awaits | a host it is given; no part of the app creates one |
| **Views** `landing/`, `workspace/`, `briefing/`, `evidence/` | which panel is open | buttons | call the controllers in the phases in which they are offered |

### What is hard

* *Concurrency.* One thread runs the views and controllers, but every `await`
  is a point at which another user action may run. Two workers run engines at
  the same time; within a worker, handlers interleave at their awaits.
* *Failure.* Workers crash, hang in a synchronous parse (hence the watchdog),
  answer late or malformed. Losing an instance loses the tables it retained.
* *Ordering.* Results of superseded work arrive after newer work has begun.
  The defences are a request id, a revision, an export epoch, a job counter and
  an abort signal, each with a scope of its own.
* *Partial failure.* A parse succeeds and its profile fails; one export format
  fails; a new source fails after parts of the old session were released.
* *Coordinates.* A cell is found again only by its physical row and column, so
  records with quoted line breaks, skipped lines and ragged rows matter; a
  workbook is read by two parsers whose coordinates have to agree.
* *Two tellings of one thing.* A figure is computed by the engine, evaluated
  again by the contract, recomputed by the formulas of the workbook and rounded
  by four formatters. A file is inspected and parsed by different code. An
  archive has a directory and local entries. Each pair can disagree.

### What makes each component correct

* transport: every promise settles exactly once, for its own reasons; no
  instance leaks; a table whose ingest succeeded stays as long as its instance;
* session: the phase never claims data or work that is not there; a committed
  dataset is replaced only by a complete new one; scenario, export and artifacts
  belong to the dataset on show;
* upload flow: the stage shows the latest job; nothing hidden is parsed without
  consent; what is submitted is what was decided; the last outcome survives;
* timeline: it plays exactly while frames are scheduled, never jumps, and a
  pause of the reader stays;
* CSV: no value is lost or moved, lines identify records, tables are bounded;
* packages: only what directory and entries agree on is read, within limits;
  what was previewed is what is parsed;
* normalization: every row and original value can be told from the table;
* engine: every figure follows from the rows its proof names; those rows can be
  read page by page;
* reports and views: whatever plans and scenarios came before, a model mixes
  nothing of two of them and is accepted, no row is missing from the workbook,
  and every surface shows the same figure;
* guide: one thing moves it at a time, only on request, and it never sticks.

## 2. Modules

| module | models | uses |
| --- | --- | --- |
| `RequestLedger` | abstract: what a caller of the transport is promised | |
| `WorkerClient` | client and supervisor, message queues, instances | refines `RequestLedger` |
| `WorkerClientProofs` | theorems about `WorkerClient` | |
| `SessionReducer` | the reducer, as operators from session to session | |
| `Session`, `SessionProofs` | the controller: suspended calls over two clients; its theorems | `SessionReducer` |
| `UploadFlow`, `UploadFlowProofs` | the stage machine of the upload review and its theorems | |
| `LoopClock`, `LoopClockProofs` | the landing timeline and its theorems | |
| `GuidedDemo`, `GuidedDemoProofs` | the guided tour and its theorems | |
| `CsvTable`, `CsvTableProofs` | the CSV adapter as a step machine and its theorems | |
| `Package` | ZIP directory, paths, parts and content types of a workbook | |
| `SheetReader` | sheet selection, bounds, cells, formulas, preview, header row | `Package` |
| `Ingest`, `IngestProofs` | one file: preflight chunk by chunk, inspection, choices, parse; its theorems | `SheetReader` |
| `Decimal` | exact decimal arithmetic, rounding | |
| `Statistics` | relative change, quantiles, outliers, trends, axis ceilings | `Decimal` |
| `Arithmetic` | what the two mean, in integers: the reference for `ArithmeticSound` | `Statistics` |
| `Ledger` | profile, quality issues, normalization and its ledger | `Decimal` |
| `Evidence` | row spans, selections, pages, proofs and their evaluation | `Ledger` |
| `Analysis`, `SamplePack` | the generic analysis; the rule pack of the sample | `Evidence`, `Statistics` |
| `Scenario` | the cost scenario | `SamplePack` |
| `Contract` | the semantic checkers of the documents | `Scenario` |
| `Briefing` | the export model | `Contract` |
| `Workbook`, `Deck` | what the two reports show, and their formulas | `Briefing` |
| `Display` | numbers as shown and as typed | `Decimal` |
| `WorkspaceView` | figures, findings and charts of the workspace | `Briefing`, `Display` |
| `Preview` | the preview of the reports | `Deck`, `Display` |
| `EvidenceView` | the dialog of a finding | `Analysis` |
| `Pipeline`, `PipelineProofs` | one dataset through all of these, in the steps of the user; its theorems | `Workbook`, `Preview`, `EvidenceView`, `WorkspaceView` |
| `MC*` | finite instances of the above | |

A definition whose comment begins with `Mutant:`, or that stands before the
definition it varies and is named for the slip it makes, is the code with one
plausible bug. No specification uses it; substituting it for the definition it
varies makes one of the runs fail, which shows that the property can be broken.

### WorkerClient

`worker`, `inFlight`, `terminated`, `watchdog` are the fields of the class;
`promise` is the state of what `request` returned, `grace` the instance that
`dispose` lets finish; `inbox`, `running`, `outbox` and `rawTables` are one
instance's message queues and supervisor. Each entry point of the main thread is
one step: `RequestPosted` and its refusals (`RequestTerminated`, `RequestBusy`,
`RequestUnencodable`, `RequestNoWorker`, `RequestUnpostable`), `Cancel`,
`WatchdogFires`, `WorkerError`, `DisposeClient`, `GraceEnds`, `HandleMessage`.
In the worker, `Dispatch` takes a message, `ReportProgress`, `Succeed`, `Throw`
end or report it in any order, which is what asynchronous handlers allow. An
instance may also stay silent for ever or post what the client rejects
(`PostMalformed`). A request stands for its (requestId, sessionId, revision).
Not modelled: a worker that itself answers CANCELLED; nothing aborts an
engine's signal from outside (`packages/ingest/src/abort.ts:12`).

### SessionReducer and Session

`SessionReducer` has one operator for each case of `appReducer`
that decides phase, ids, dataset, scenario or export; `Session` has the
controller. A *job* is a suspended call: its kind, the step it awaits, its
source. Its promise settling and its continuation running are one step, since a
microtask runs before the next event; for the same reason a handler that
rejects promises (cancel, dispose) is one step with the continuations of the
calls it rejects. Between two steps anything else may happen.

* A dataset is known by the number of its source, an export run by its number
  and what it was built from (`Model`).
* A request id is reused once no one holds it: ids are only compared.
* The clients are the caller's side of `WorkerClient`: one in flight, a
  busy one refuses, cancel, crash and timeout lose instance and tables. A
  mismatch of source hashes and errors of an engine are failures of a step.
* The views are guards: an action of the user is offered in the phases in which
  a control is on screen. The landing page hands over a file in any phase.
  The upload flow begins a parse only while the session is idle.
* `RenderFlow` mounts and unmounts the upload flow as the view does.
* `clearing` counts calls of `clearSession` that wait out the dispose grace.
* Finding selection, evidence, notices, stage labels, input text and locale are
  left out; so is the prepared-sample shortcut's content, but not its steps.

### UploadFlow

`shown` are the fields of `UploadState`; a job is a running `runInspect` or
`runParse` with what it captured. A signal is aborted exactly when its job is
not the latest, so `Latest` stands for both guards. Actions that start a job
are the controller's methods, offered in the stages in which `UploadFlow`,
`ConfigurePanel` and `ReviewPanel` offer them and while their controls
are not disabled. `consent` remembers the hidden sheets the user allowed.
`reset`, which nothing calls, is left out.

### LoopClock

Time is counted in chapters, `Jump` is the time between two frames, and
`lastNow` tells only whether the last frame is from before a pause, which is
what decides a jump. `captured` is the preference of the first render (see
section 6). Scrolling and what a frame draws are left out.

### GuidedDemo

`state` is the public state of `DemoController`, `epoch` its counter, `dwell`
the armed timer with what its callback captured. A call of `enterStep` is a
member of `calls` from the await it stands at ("performing", "waiting"), since
it is called with `void` and several may be suspended at once. Each command of
the reader is an action; `Performed`, `Rejects`, `Ready` are the continuations,
`DwellOver` the timer, `ResetDone` the reset a replay awaits. What the host
answers, and whether the reader prefers reduced motion, is a choice at the time
it is asked. The host is the interface the controller declares; no part of the
application implements it.

### CsvTable

A text is a sequence of characters of five kinds, one of the constant `Text`: the
theorems take any set of texts, the run those of up to `MaxUnits` units. Of Papa Parse only what the
adapter relies on is modelled: quotes, terminators, greedy skipping of blank
records, the cursor after a record. Then come the steps of `parseCsv`: one per
record (`ReadRecord`), the selection of the range (`SelectRange`, with an
optional header row and columns), one per row of cells (`EmitRecord`), the final
contract check (`Finish`), and a cancel before any record or row (`Abort`).
Line breaks are of one kind and quotes are well formed; delimiter detection and
decoding are left out, an empty text fails like one without records. Calling
`parseCsv` with a range is an action with the options as parameters.

### Package, SheetReader, Ingest

An archive is what the preflight looks at: its end record, its central directory,
the local entries in the order they stream with the sizes of their chunks, and
the contents of its parts. Paths are sequences of segments, so that traversal,
drive letters and a repeated path under another spelling are cases and not
strings. `Ingest` is `inspectSource` and `parseSource`: `Submit` detects the
format and scans the directory, `Chunk` is one call of the inflater's callback
with its limits, `Repack` the end of the stream, `InspectXlsx` and `ParseXlsx`
what is read from the stored parts, `ChooseSheet` and `Proceed` the configure
panel, which offers what the inspection found and nothing else.

A sheet part has its cells in the order they are written, each with a shape, of
which "styled" (an empty element) and "bare" (a formula without a value) are
those the two parsers treat differently. Of SheetJS only what `xlsx.ts` and
`inspect.ts` rely on is modelled: it yields the cells but for these two
(`packages/ingest/src/xlsx-meta.ts:196`). Of fflate: entries stream one after
another, in chunks, with an error for a corrupt one.

Only the inspection of CSV files is here; their parse is `CsvTable`. The abort
signal is left out (it is checked in `CsvTable`), as are number formats.

### Decimal to Scenario

A decimal string is a record of sign, coefficient and scale, so "0.50" and "0.5"
are different values with the same number, as in the code. A text is a record of
what the rules tell apart: what it folds to, how it is written, what it reads
as. A raw table has headers and, by row and column, its cells. With that,
`ProfileTable`, `NormalizeTable`, `Analyze`, `RunScenario`, `BuildExportModel`,
`BuildWorkbook`, `BuildPresentation` are functions from documents to documents,
translated one operator per function of the code. They share the operators of
the checkers in `Contract`, which yield the *names of the rules broken*, so that
a property can say which ones a document may break.

`Ledger`: types by share of the values, roles, the kinds of issues, their
ids (which may coincide), then the approved transforms in the order of the code:
duplicates excluded, categories mapped, formula caches used, numbers, dates and
flags converted; and what a reader is told of an original value.
`Evidence`: spans are the maximal runs of rows, a page is read at an offset,
a proof is an expression over columns, other proofs and issues. An expression is
a tree, evaluated by a function of the *paths* in it, which lead by the operands
and from a metric into the expression of its proof; the metrics met on a path are
those in progress, so that a cycle is found where the code finds it. No operator
of these modules is declared `RECURSIVE`, which would keep theorems out of every
module above them. `RowsIn` gives rows, and places of a sequence, in their order;
`Keep` is a filter defined by it, for sequences a proof has to look into.
`Analysis` and `SamplePack` choose metrics, findings and charts; text keys are
kept only where a view depends on them.

### Pipeline and the views

`Pipeline` puts one dataset through these functions in the steps of
`app/controller.ts` and `workers/supervisor.ts`: a plan is approved and
normalized (again, when the user goes back), analyzed, a typed percentage
becomes a scenario, a model is built and written twice. Each step can be
refused, for the reasons of the code.

A plan is what a review sends once some of its controls were moved. The review of
the session (`workspace/ReviewPanel.tsx`) has one box per issue, all ticked, and
leaves columns and caches as proposed (`SessionPlans`). That of an upload
(`upload/ReviewPanel.tsx`, `upload/controller.ts`) starts with nothing decided: a
group of copies, a spelling, a column confirmed with its questions of type, a
column turned into text, the cached results of a formula column, each on its
own (`UploadPlans`). No control of either makes a column an additive measure, so
what the app analyzes of an upload has counts and no totals
(`upload.noMeasures`). Totals come from callers of the packages, which declare
their measures (`tests/integration/pipeline/fixtures.ts`): the tables `Packaged`,
with the columns `Measured` (`PackagePlans`). Their scope has a period and is not
complete; their own scenario over totals is left out. `MaxMoves` bounds the
controls moved in a review of a table; the theorems hold for any bound.

`Pipeline` is `Session` with the data put back in and the concurrency taken
out; the freshness of what meets in `BuildModel` is
what connects them (`ModelRefused` compares the revisions that `Session` protects).
The raw tables are constants. `RawAssumption` says what they are: columns in
their order, finitely many rows by their physical numbers, a text in each cell,
which is what is left of an adapter's table (`TableWhole`, `TableSound`) once the
places without a cell are read as empty.

Views are functions of these documents and are compared in the properties, not
stored: `WorkspaceView` (strip, findings, charts), `EvidenceView` (the wired
dialog of `evidence/`; `workspace/EvidencePanel.tsx` is only a fallback and left
out), `Preview` (slides and workbook sheets on the screen), `Deck`
(what is drawn on a slide: lines, chart, bars with their length, source rows),
`Workbook` (rows with the cached value *and* the formula beside it, links).

## 3. Runs

Passing runs:

| run | instance | states | what it shows |
| --- | --- | --- | --- |
| `worker_client` | 3 requests, 2 instances, 1 table, queue of 1 | 131,612 | `OwnAnswer`, `OwnTimeout`, `NoLostPromise`, `NoLeakedWorker`, `TablesRetained`, the refinement of the ledger, and that promises settle and a disposed client ends |
| `session` | 2 sources, 1 export, 1 teardown, crashes | 791,496 | `PhaseAgrees`, `NoParkedPhase`, `NoStrandedJob`, `ResultsOfDataset`, `DatasetChanges` |
| `session_exports` | 2 sources, 2 exports, crashes, no teardown | 1,263,543 | artifacts of two runs never mix; no pipeline or export is refused |
| `session_live` | 2 sources, 1 export, crashes | 172,220 | work that shows progress ends |
| `upload_flow` | 2 files, 2 sheets, 2 columns, 3 issues, 4 jobs | 12,883 | `StageFollowsJob`, `ParseConsented`, `PlanCoherent`, `PriorSurvives`, `WorkEnds` |
| `loop_clock` | 3 chapters, 2 changes of preference | 354 | `NoTimeSkipped`, `PlaysByFrames`, `UserPauseStays` |
| `guided_demo` | 4 steps of which 3 awaited, 4 commands | 28,899 | `OneDriver`, `OnlyAsked`, `RunsOn` |
| `csv_table` | all texts of up to 6 units; limits of 2 records, 2 columns, 5 positions, 2 characters | 229,251 | `LinesDisjoint`, `ValuesOfText`, `TableWhole` |
| `ingest` | workbooks of 2 sheets, every single departure from a good archive, some CSV files | 13,491 | `PackageAdmitted`, `TableSound`, `PreviewHolds` |
| `pipeline` | 48 uploads and 45 tables of callers of the packages (2 to 4 rows, some of 8 and 20), 4 sample images of 7 rows, up to 3 controls moved, 4 typed percentages, 2 plans | 11,659 | `RowsAccounted`, `FiguresRecompute`, `ModelOfOneRevision`, `ReportsAgree`, `EvidenceComplete`, `SurfacesAgree`; and, as an assumption evaluated first, that the arithmetic is that of the integers (`ArithmeticSound`) |

Runs that end in a counterexample: `percent_typed`, `scenario_binding`
(section 6).

### What the properties of the data say

They compare two independent tellings, never a definition with itself.

* `ValuesOfText` counts per column, `TableWhole` leads back from the line and the
  column of a value to the record of the text and its field, over lines that
  quoted breaks and skipped records take away (`RowsOf`).
* `RowsAccounted`: the normalized table against the raw one, through what the
  evidence tells of originals (`RowsTold`), and the sheets of the workbook and
  the counts of its preview against the raw table (`RowsExported`).
* `FiguresRecompute`: the value the engine wrote against the evaluation of its
  proof over the rows the proof names, by the checker of the contract, and a sum
  against the amounts of the rows its evidence lists. A
  scenario's amounts are rounded and its proofs are not
  (`contracts/src/semantics.ts:536`), so there they agree to half a digit.
* `ModelOfOneRevision`: a model may be built from a snapshot of an *earlier*
  table, since plans approved again may give the same revision; then nothing in
  it, neither proof nor count nor scenario, is of another table than the one it
  holds.
* `ReportsAgree`: the builder, which checks little, against the contract the
  writers assert; formulas of the workbook evaluated over its own sheets
  against the value cached beside them, with the guard that leaves a ratio blank
  when what it is relative to is not positive (`SheetBlank`); links against rows;
  slides against sheets.
* `EvidenceComplete`: the pages of a selection, concatenated, against the rows
  the engine compared. It is claimed of tables whose rows are within the
  envelope of evidence (`RowsAdmitted`): others are accepted by the CSV adapter
  all the same (`RowsAddressable`, section 6) and have no pages.
* `SurfacesAgree`: the four formatters, the text and chart of a finding, its dialog
  against what the finding names, the scenario's chart on screen and in the deck,
  and the preview of the slides against the deck.
* `PackageAdmitted`: what is handed to the parser against both the directory
  and the entries; `TableSound`: cells of both parsers together against the
  contract and the limits; `PreviewHolds`: what was chosen from a preview
  against what is parsed.

### Bounds

* *worker_client.* Three requests: an ingest, the profile that needs its table,
  one that needs none. Two suffice for a late answer to meet a newer request,
  the third for a client that went through both. Two instances: every loss of
  one is followed by another, and a third request finds no worker. A queue of
  one loses no behaviour of interest: a message waits, is delivered, or is lost
  with its instance; what overtakes it is in `running`.
* *session.* Superseding takes two sources; a third repeats the second, since
  nothing remembers more than the live one and the last dataset. An export meets
  a source, a scenario, a cancel and a teardown. Three request ids, four with
  teardowns, cover the jobs alive at once; actions of the user leave one in
  reserve so that a pipeline never lacks an id when it rotates, which is a bound
  of the instance. Overlapping exports need two, in a run without teardowns: with one,
  the property fails (`MCStaleExport.cfg`).
* *upload_flow.* Four jobs: a pick, a choice of sheet, a parse, and a retry or
  another file, with late completions of all of them.
* *loop_clock.* `Jump` has no time, one chapter and more than a loop.
  For longer loops there is the proof.
* *guided_demo.* The code has six steps, of which the last awaits nothing, as
  here; steps in the middle are alike. Four commands: enter, pause, step, resume, with late answers of each.
  For any number of both there is the proof of the safety properties.
* *csv_table.* Six units hold three records and a skipped line between them, and
  limits of two records, two columns, two characters and five positions are
  below, at and above what occurs, so that each error is reached but one:
  `nonempty-cells` cannot be, since the range has been checked (`csv.ts:246`).
  `TabDelimited = FALSE`; with TRUE the same properties hold.
* *ingest.* Eleven sheets (titled, sparse, with ties, uncached and styled cells,
  at and above each limit) as the first of a workbook beside a hidden or a
  visible second; for the package a good archive with one thing changed: each
  flag, size, path, content type, end record, and each way the stream can
  differ from the directory (missing, repeated, renamed, corrupt, larger,
  smaller, in other chunks). Limits (8 entries, 4 bytes an entry, 11 expanded,
  ratio 3; 5 rows, 3 columns, 12 cells) are met and exceeded by some of them. Two departures at
  once are not combined: the first one found ends the operation.
* *pipeline.* Uploads are all pairs of six row patterns (a spelling, a padding,
  a missing value, a formula, a negative amount, an empty row), which between
  them meet each rule of the profile, and three or four rows with copies in
  groups of one and two, several spellings, in one row and in many, and formulas
  that repeat; one table with dates that can be read two ways, leading
  zeros and a repeated heading; one of twenty rows in which the numeric share is
  above its threshold; one with a name too long for a note. The callers of the
  packages have such rows too, and a calendar with dates outside the period,
  unreadable ones and gaps. In a review of these one control is moved, or of a
  caller's issues all or all but one taken; in the tables with copies, spellings
  and formulas together up to three, and in an image of the sample two. So
  kinds, groups, columns and caches are approved in part: one spelling of two in
  a row, one of two groups of copies, a spelling of a row that goes or of the
  copy it goes for, a column made a text beside a cache that is taken. Images of the sample
  have two months, two regions and a repeated row, in the three situations the
  rules distinguish (below target, above, at a loss). Percentages typed: with a fraction, with a
  percent sign and negative, out of range, with a plus sign. Thresholds are scaled with the tables
  (2 periods of trend, 4 rows for outliers); `Precision` is 3 digits for 40,
  because TLC's integers have 32 bits: figures are chosen so that quotients
  repeat and are cut. Two plans suffice for a stale table, snapshot and scenario.

Deadlock is not checked where the system may stop: a disposed client, a bounded
number of sources, jobs or commands, a parsed text, written reports. The
timeline never stops, and its run checks deadlock.

## 4. Fairness

* `WorkerClient.FairSpec`: weak fairness of the watchdog and of the end
  of the dispose grace. Both are `setTimeout`s (`client.ts:151`,
  `client.ts:200`). Nothing is assumed of workers or callers: promises settle
  although instances hang.
* `Session.FairSpec`: a promise that a call awaits settles, with success or
  failure; the grace ends. For requests to workers that is what
  `EveryPromiseSettles` shows of the transport. The fetch of the sample, the
  inspection of a file and the model build run on the main thread without a
  watchdog: that they settle is an assumption. Users are not assumed to act.
  Fairness is per side (sources and scenarios, exports), so a phase that is
  waiting for one is not helped by fairness for the other.
* `UploadFlow.FairSpec`: each job's port settles, on the same grounds.
* `GuidedDemo.Spec`: the dwell timer fires, an action of the host settles or
  `Rejects` (which `RunsOn` admits as an end), and `waitReady` settles: it is
  given a timeout (`demo/controller.ts:262`). The reader is not assumed to act.
* `LoopClock`, `CsvTable`, `Ingest` and `Pipeline` have safety properties only.

## 5. Proofs

All theorems hold for every value of the constants that satisfies the named
assumptions of the module; TLC evaluates these assumptions in each run.

**WorkerClientProofs** (from `RequestAssumption` and `BoundAssumption`).
`TypeCorrect` is inductive by itself, one step per action over lemmas on the
shared helpers (`Terminate`, `FailInFlight`, `Take`, `Post`, `EnsureWorker`).
The other properties are not inductive. That a timer belongs to its own request
holds because a watchdog is armed only for what is in flight; that nothing leaks
because an attached instance is forgotten only when it is terminated or moved to
the grace, which a disposed client does once. The invariant is

    Inv == TypeOK /\ SlotInv /\ DisposedInv /\ NoLeakedWorker /\ OwnAnswer /\ OwnTimeout

where `SlotInv` ties pending promise, request in flight and watchdog together,
and `DisposedInv` says that a disposed client has neither instance nor request,
and that only a disposed client has an instance in its grace. From `Invariance` follow `AnswersAreOwn`, `TimeoutsAreOwn`,
`PromisesAreKept`, `WorkersAreReleased`. `ImplementsLedger` is the refinement: a
promise's code is the ledger's entry, `~terminated` is `open`; each action of
the client is an admission, a refusal, a settlement, a closing or a stutter.

**LoopClockProofs** (from `LoopAssumption`). The invariant adds to the checked
properties that a frame is scheduled only while playing (also after a change of
the preference), that nothing starts before the component is mounted, and that a
pause of the reader is never marked as automatic. The last makes
`UserPauseStays` hold: `autoGate` resumes only what it paused itself.

**GuidedDemoProofs** (from `GuideAssumption` and `NoneAssumption`), for a tour of
any length, any set of awaited steps and any number of commands. `OneDriver` is
not inductive: a command supersedes everything only if no suspended call is of an
epoch to come, and a timer that fires enters a step that exists only if none is
armed on the last one. `Inv` adds both. `DrivenOnce` is `OneDriver`;
`ReaderDecides` is the action property `OnlyAsked`, by one lemma per action from
`Inv`: a call or a timer of an old epoch falls through its guard, one of the live
epoch is by `OneDriver` that of the step shown.

`TablesAreKept` is about messages in flight, so `Inv` says nothing of it. `TableInv`
adds that an instance that was never created has been sent and has posted
nothing, that the attached instance has no dispose in its queue, and that it
retains the table of every ingest whose success it has *posted*, delivered or
not: the table is retained before the message is sent, and nothing but a dispose,
which detaches the instance in the same step, clears it.

**SessionProofs** (from `OptionsAssumption`, `BoundAssumption`, `RidAssumption`
and `NoneAssumption`), for any number of request ids, sources, exports and
teardowns, with or without crashes. None of the properties is inductive, and no
two of them together. The invariant has two layers. `Sound` is about a session
alone: every operation of the reducer keeps it, and `Calmer` says what those that
end something leave behind, so that a handler which rejects several promises is
a chain of such operations. Around it:

    Inv == /\ TypeOK /\ Sound(session) /\ JobShape /\ JobInFlight
           /\ LiveRequest /\ LiveScenario /\ LiveExport /\ FlowMounted
           /\ FreeRids # {} /\ refused \cap SourceKind = {}

`JobInFlight` (a job waits for a worker exactly when its client has it in flight)
is what makes cancelling complete; `LiveRequest` (the live request is that of a
source whose phase shows how far it is, or of an export, and nobody else has the
analysis client meanwhile) is what the guards by request id rely on, and is
strong enough only with `LiveScenario` and `LiveExport` beside it, since those
jobs survive a new source. `FlowMounted` excludes a parse of the upload flow
while the session works. From `Invariance`: `Agreement`, `Progress`,
`NothingStranded`, `OneDataset`, `DatasetSurvives` (an action property, one lemma
per action) and `SourcesAdmitted`. `OneRun` and `ClientsFree` have `MaxClears = 0`
as a hypothesis, because they are false otherwise: a teardown lets a model build
survive into the next session (section 6, `MCStaleExport.cfg`). Their invariant
`ExportOnShow` says that an export in flight is the one on show.

**UploadFlowProofs** (from `InputAssumption` and `NoneAssumption`), for any files,
sheets, columns and issues and any number of jobs.

    Inv == TypeOK /\ JobsInOrder /\ StageOfJob /\ ConsentKept /\ PlansCoherent

`StageOfJob` ties the stage to the latest job and gives that job the file and the
prior outcome on show, which is what a late completion restores. `ConsentKept`
follows the consent from the tick to the selection, into the job that captured
it, and back from a retry. `PlansCoherent` is about the decisions and also about
the plan submitted before, which an aborted review brings back.

**CsvTableProofs** (from `CsvAssumption`), for every text and every range and limit.
Induction over the text is replaced by induction over the steps: `RecordInv` says
that the records read are those of the text that begin up to the cursor, in order,
each on lines of its own; `RangeInv` that the cells emitted are those of the rows
that were passed. `OwnLines` needs that the line of a position only grows, and
that a record ends on the line of its last character; `NothingLost` counts the
values on both sides by a bijection between the records and the places where
records begin; `WholeTable` that a line where a record starts belongs to no other
(`RowOfOne`) and that the size of a range is the number of its places.

**IngestProofs** (from the assumptions of `Package`, `SheetReader` and `Ingest`),
for every file, every limit and every choice of the user.

    Inv == StreamInv /\ ViewInv /\ TableSound /\ PreviewHolds

`StreamInv` says of the entries that came so far that each is announced with its
size, that no two store one file, and that what is stored is what they store.
An archive read to its end is therefore `Read`: directory and entries agree,
each file once. The last check compares two numbers; that equal numbers mean equal
sets is `Admitted`'s argument, from the stored paths being among the files.
`Read` is a predicate of the archive alone, so the second reading (the parse)
can fail only for a limit: this is how `PreviewKept` gets past the preflight.
`ViewInv` says that the inspection on show is that of the sheet the options select
(`Shows`). The rest is the reader: bounds hold the cells they are made of
(`BoundsHold`), a header row that was listed leaves a row and an ordered range
(`ResolveLimit`), a previewed cell from there on is emitted (`CellKept`).
`SoundTable` needs that a place holds one cell once the formulas of the scan are
added (`EmittedWithFormulas`): the runs of empty elements before two formulas do
not meet (`OpeningsApart`), so two formulas never get one place.
`SourceAssumption` says what is assumed of a file: an archive has bytes, an entry
has a last chunk, and a part writes a place once. A part that writes a place
twice may end in `INTERNAL`, which is the check of the table contract at work
(`packages/ingest/src/xlsx.ts:341`).

Both files begin with lemmas about `Min` and `Max` (which the
library defines by `CHOOSE`, so that they mean something only of sets that are
bounded), about the size of an interval and of a rectangle, and about the first
member of a set at which most is reached. Where they would need induction they take
the least counterexample instead.

**PipelineProofs** (from `RawAssumption` and the assumptions of the modules below),
for every raw table, every plan of its reviews, every percentage typed, in every
order of approvals, analyses, scenarios and exports. The invariant is

    TablePlanned /\ Derived

`TablePlanned` (`TableFromPlan`): the raw table is the chosen one, and the table,
if any, is that raw table normalized by a plan of its reviews (`PlansNamed`): one
that names issues its profile proposes and decides about its columns, each of
which keeps its name and its place (`DecisionKeepsColumn`). Nothing else is asked
of a plan, so neither which controls were moved nor how many matters. `Derived`
(`EachFromTheLast`) says what everything else was made from: the snapshot is the
analysis of a table that *some* plan made of this file, which need not be the
table that is there; the scenario was run on the snapshot that is there, with the
percentage that was typed; the model was built from the three that are there,
and each report from this model. Neither property of the runs is inductive
without it: what a later step makes of a table is bounded only by what the table
is. From the invariant:

* `Accounted` (`RowsAccounted`). The ledger is a concatenation of five families
  of issues, never unfolded. The lemmas say of each family which issues are in
  it and what such an issue tells (`IssueTells`: its original is what the cell
  holds, its column exists, it leaves a row out exactly if it is a duplicate), and
  of the repeated rows that each has one issue, once. A row left out is therefore
  left out by one issue; that its canonical row is kept needs that the canonical
  row is the *first* of its texts, so not repeated itself. The value told for a
  cell goes through its first issue, or through the transforms that leave no
  issue. The rows left out and the issues that say so are as many
  (`RowsCounted`), which is what makes the summary right, and the workbook's
  two sheets are the kept rows and those issues.
* `EvidencePaged` (`EvidenceComplete`). The spans of a finite set of rows are its
  maximal runs, apart and ascending (`SpansAreRuns`), so the rows of the spans
  are the rows in their order; a page is a cut of them, and places of the
  concatenated pages are places of a page by division (`PageFound`), for any
  `MaxEvidencePage`. That a selection of the engine is such a set, of rows with
  amounts, and that no excluded copy is among them, is shown for every branch of
  the generic analysis and of the rule pack (`AnalysisProves`). A snapshot of the
  same revision as the table that is there selects the same rows of it, since
  the revision determines rows and ledger (`SameRevision`).
* `OneRevision` (`ModelOfOneRevision`), by the same argument: the model was not
  refused as stale, so table and snapshot have one revision; every proof of an
  analysis carries that of its table, every proof of a scenario that of its
  snapshot.

`UNION {...} \cup x` is written with parentheses wherever it occurs, because the
parsers of TLC and of the prover group it differently.

*Only model-checked*:

* `FiguresRecompute`, `ReportsAgree` and `SurfacesAgree`. They are about what
  folds over rows, decimal arithmetic with powers of ten, `SelectSeq`, and the
  evaluation of an expression along its paths compute: for every input that
  needs induction over data, and the community modules' folds and `SelectSeq` have
  no theorems here. What these properties need of the *order* of steps (that
  model, snapshot, scenario and reports belong together) is `EachFromTheLast`.
* All liveness (`EveryPromiseSettles`, `DisposeReleasesWorkers`, `WorkEnds` of both
  machines, `RunsOn`), which is out of the prover's reach, like `ENABLED`.
* `ArithmeticSound`, which TLC evaluates as an assumption over bounded inputs.

## 6. Disagreements found

Each is a run with a counterexample:

* `percent_typed`: half a percent typed as "0.5" is read as five percent,
  because the leading zero is dropped before digits are counted
  (`workspace/ScenarioPanel.tsx:144`, against its comment at line 127). The
  comment of the function (line 115) also promises "+8%", which is refused.
* `scenario_binding`: an export records the scenario committed when the model
  build *ends*, its model has the one from its start
  (`app/controller.ts:798`, against line 134).

Two configurations are kept for reference and end in a counterexample too:

* `MCBlankCells.cfg` (`MCCsvTable`, `BlankForEmpty`): "empty fields are 'blank'
  cells; absent fields (ragged rows) emit nothing" (`packages/ingest/src/csv.ts:10`).
  The code does neither: an empty field past the header has no cell, and a header
  shorter than the widest record gets a blank for each field it does not have
  (lines 258 to 277, whose own comments say so). In the counterexample a record
  "x," follows a header "x". `TableWhole` states what the code does.
* `MCStaleExport.cfg` (`MCSession`, `StaleCommitsDropped`): a model build that
  ends within the dispose grace of `clearSession` starts an export on a fresh
  client; its artifacts are accepted later by a session that happens to be at
  the same revision (`app/reducer.ts:313`, against `app/state.ts:81`).

Stated in the modules and refuted when put alone in place of the properties of
the base configuration:

* `RetryHasBytes` (`MCSession`): a failed ingest offers Try again, which inspects
  a buffer that was transferred to the worker and is empty
  (`app/controller.ts:570`, against its comment at line 151).
* `ReviewedTableKept` (`MCSession`): Back on an error banner cancels the client
  whose worker retains the table under review
  (`workspace/WorkspaceScreen.tsx:341`, against line 313).
* `LinksAlive` (`MCSession`): a source that fails leaves the retained dataset
  with download links whose Blob URLs were revoked when it began
  (`app/controller.ts:481`).
* `ArmsAsPreferred` (`MCLoopClock`): the clock sees the motion preference of the
  first render (`landing/SpreadStage.tsx:174`). After a change it is also left
  without listeners, so the stage stays still.
* `StartsAtRecord` (`MCCsvTable`): after a line of delimiters only, the next
  record is given the line of the skipped one (`packages/ingest/src/csv.ts:124`,
  against line 6). The same search makes a record that begins with a space report
  skipped blank lines that do not exist, and a skipped row of delimiters not reported.
* `RowsAddressable` (`MCCsvTable`): the limit on rows counts records, the
  evidence's counts lines (`packages/provenance/src/spans.ts:29`), so a table with
  long quoted cells is accepted and its rows cannot be expanded.
* `SelectedIsOpted` (`MCUploadFlow`): a retried parse forgets which hidden sheets
  were ticked (`upload/controller.ts:458`). What is parsed was consented to all
  the same (`ParseConsented`).
* `StepsReady` (`MCGuidedDemo`): the guide "awaits a real readiness predicate",
  but `next` while paused enters a step, and `resume` arms the timer on it
  whatever it still waits for; `awaitingReady` stays set meanwhile. A rejected
  action leaves the guide running and stuck, which `RunsOn` excludes.
* `FormulasInPlace` (`MCIngest`): the scan for formulas takes an empty styled
  element for the start of the next cell and gives it that cell's formula
  (`packages/ingest/src/xlsx-meta.ts:238`).
* `HeaderAsShown` (`MCIngest`): the header row the panel suggests
  (`upload/derive.ts:55`) is not always the one the parser takes when the
  suggestion is left alone.
* `ChangesShown` (`MCPipeline`): the evidence strikes the original of a cell
  whose value was *not* changed by the issue, and not one that was
  (`evidence/SourceRowsTable.tsx:63` compares with the wrong side).
* `AxisFixed` (`MCPipeline`): the axis of the scenario chart is meant to stay
  fixed (`workspace/stageModel.ts:80`) and is widened by a larger value when the
  chart is prepared (`packages/charts/src/model.ts:132`).
* `PreviewIsDeck` (`MCPipeline`): "what you read here is what downloads"
  (`briefing/SlidePreview.tsx:6`), but the scenario slide lists baseline margin,
  scenario margin and contribution, the deck cost, contribution and margin.
* `MarksToScale` (`MCPipeline`): marks are "scaled to its declared domain"
  (`briefing/SlidePreview.tsx:63`), but to one where the domain ends below it,
  so the marks of ratios are too low.

Permitted by the properties, because the code decides so, and worth knowing:

* Two variant spellings in one row get issues of one id (`packages/normalize/src/profile.ts:277`,
  against its scheme at line 6), so a count over such issues has no value and the
  snapshot is not contract-clean; `FiguresRecompute` admits exactly that.
* Blanks around a number and the spelling of a yes or no change without an entry
  in the ledger. A normalized table may break its contract; nothing checks it before the writers do, and `RowsAccounted` asks only
  for the rules the ledger and the evidence rely on.
* A category mapping approved for a formula cell is recorded as resolved and not
  applied; a date column turned off makes the sample's analysis fail.
* A very long sheet name refuses the whole export model; a finding with more
  metrics than a slide has lines refuses the deck while the workbook is written.
* Metric caveats are shown in the evidence for operands only, not for the figure itself.
* The copy of the downtime finding says "increased" of a decrease.

Noticed on the way and not checked: a superseded inspection of an ambiguous file
leaves it in the pending-picker slot; a preview keeps showing a hidden sheet
whose opt-in was withdrawn; with tab and stage both hidden, either becoming
visible resumes the timeline; a download claimed on the landing page stays
claimed after its sample failed (`workspace/WorkspaceScreen.tsx:80`).

## 7. What is not modelled

* Validation of schemas, hashes and versions (a malformed message is an error to
  the modules above); the contract's rules about translation keys and currencies.
* Of ingest: decoding, the choice of the CSV delimiter, number formats,
  the abort signal of the XLSX adapter. SheetJS, fflate and
  Papa Parse are assumptions, stated where they are used.
* Of the writers: styles, geometry, the guard that a text fits its box (which can
  refuse a deck), package parts and bytes. Minimal widths of preview bars.
* Of the language system: catalogs, plurals, grouping, digits of a script, and
  the switch of the locale.
* Layout, focus, direction and drawing of all views; the host of the guided demo.
* Build and audit scripts, which have no behaviour at run time.

`PROJECT.json` lists each part with its reason, and every hazard with the
properties that cover it.

## 8. Plan

Done: transport, session, upload flow, timeline, guide, ingest, and the data from
raw table to reports and views; of all of them the safety properties are proved,
but for the three of the data named at the end of section 5. In order of what
matters most among the rest:

1. *Arithmetic proofs*: that addition and comparison of `Decimal` are those of
   the numbers, and a fold over rows their sum, by induction lemmas stated for
   these folds alone; then `FiguresRecompute` for sums.
2. *Ledger of the session*: an abstract session that owns one dataset at a time,
   implemented by `Session`.
3. *Language*: the provider's switch of locale while catalogs are loading.
4. *Session with a locale* and the claimed download, whose state is in the views.
