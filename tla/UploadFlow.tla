----------------------------- MODULE UploadFlow -----------------------------
(***************************************************************************)
(* The upload flow of the web app: the stage machine of                    *)
(* apps/web/src/upload/controller.ts, driven by the controls UploadFlow    *)
(* and its panels offer in each stage.                                     *)
(*                                                                         *)
(* runInspect and runParse are coroutines: each carries a job id, keeps    *)
(* what it was started with, and resumes when its port settles.  Starting  *)
(* or cancelling anything moves jobSeq on, and aborts the signal of the    *)
(* job before, so an aborted job is one that is not the latest.            *)
(*                                                                         *)
(* A table is known by the file and the selection it was parsed from.      *)
(* Progress text and the contents of inspections are left out.             *)
(***************************************************************************)
EXTENDS Naturals

CONSTANTS File,        \* files the user may pick
          Ambiguous,   \* those whose delimiter is a choice of the user
          Sheet,       \* sheets of a workbook
          Hidden,      \* those that are not visible
          DefaultSheet,\* inspection.defaultSheetId
          Row,         \* header rows to choose from
          Column,      \* proposed columns, all unconfirmed
          Issue,       \* issues of the profile
          OfColumn,    \* the column of an issue
          ConfirmType, \* issues whose action is confirm-type
          UseCache,    \* issues whose action is use-cache
          None,        \* undefined or null
          MaxJobs      \* bound on the jobs started or cancelled

ASSUME InputAssumption ==
    /\ Ambiguous \subseteq File /\ Hidden \subseteq Sheet /\ DefaultSheet \in Sheet \ Hidden
    /\ OfColumn \in [Issue -> Column]
    /\ ConfirmType \subseteq Issue /\ UseCache \subseteq Issue \ ConfirmType
    /\ None \notin File \cup Sheet \cup Row
    /\ MaxJobs \in Nat

VARIABLES
    stage,       \* state.stage
    file,        \* state.file
    prior,       \* state.prior, the outcome last submitted
    inspected,   \* the sheet state.inspection previews, None without one
    selection,   \* state.selection
    opted,       \* state.optedHiddenSheets
    busy,        \* configure: is a job showing progress?
    table,       \* state.table
    decisions,   \* state.decisions
    retryStep,   \* state.retryStep
    jobSeq,      \* jobSeq
    jobs,        \* jobs[id]: the coroutine of job id, None once it ended
    consent      \* history: hidden sheets of this file the user allows

shown == <<stage, file, prior, inspected, selection, opted, busy, table, decisions, retryStep>>
vars == <<shown, jobSeq, jobs, consent>>

Id == 1..MaxJobs
Stage == {"idle", "inspecting", "configure", "parsing", "review", "confirm-replace", "error"}
Selection == [sheet : Sheet \cup {None}, row : Row \cup {None},
              allowHidden : BOOLEAN, delimiter : BOOLEAN]
Table == [file : File, selection : Selection]
Decisions == [approved : SUBSET Issue, overrides : [Column -> {"proposed", "confirmed", "text"}],
              cache : SUBSET Column]
Outcome == [table : Table, plan : Decisions]
Run == [step : {"inspect", "parse", "profile"}, file : File, selection : Selection,
        inspected : Sheet \cup {None}, opted : SUBSET Hidden, prior : Outcome \cup {None}]

(* null is no step and none of the records that the state holds.           *)
ASSUME NoneAssumption == None \notin {"inspect", "parse"} \cup Table \cup Outcome \cup Run

NoSelection == [sheet |-> None, row |-> None, allowHidden |-> FALSE, delimiter |-> FALSE]
EmptyDecisions ==
    [approved |-> {}, overrides |-> [c \in Column |-> "proposed"], cache |-> {}]

TypeOK ==
    /\ stage \in Stage
    /\ file \in File \cup {None}
    /\ prior \in Outcome \cup {None}
    /\ inspected \in Sheet \cup {None}
    /\ selection \in Selection
    /\ opted \subseteq Hidden /\ consent \subseteq Hidden
    /\ busy \in BOOLEAN
    /\ table \in Table \cup {None}
    /\ decisions \in Decisions
    /\ retryStep \in {"inspect", "parse", None}
    /\ jobSeq \in Nat
    /\ jobs \in [Id -> Run \cup {None}]

-----------------------------------------------------------------------------
(* emit: every stage names the fields it has, the others are gone.         *)

Forget == inspected' = None /\ selection' = NoSelection /\ opted' = {} /\ retryStep' = None
NoReview == table' = None /\ decisions' = EmptyDecisions

EmitIdle(p) ==
    /\ stage' = "idle" /\ file' = None /\ prior' = p /\ busy' = FALSE
    /\ Forget /\ NoReview

EmitInspecting(f, p) ==
    /\ stage' = "inspecting" /\ file' = f /\ prior' = p /\ busy' = FALSE
    /\ Forget /\ NoReview

EmitConfigure(f, p, seen, sel, opts, working) ==
    /\ stage' = "configure" /\ file' = f /\ prior' = p
    /\ inspected' = seen /\ selection' = sel /\ opted' = opts /\ busy' = working
    /\ retryStep' = None
    /\ NoReview

EmitParsing(f, p, seen, sel) ==
    /\ stage' = "parsing" /\ file' = f /\ prior' = p
    /\ inspected' = seen /\ selection' = sel /\ opted' = {} /\ busy' = FALSE
    /\ retryStep' = None
    /\ NoReview

EmitReview(run) ==
    /\ stage' = "review" /\ file' = run.file /\ prior' = run.prior
    /\ inspected' = run.inspected /\ selection' = run.selection /\ opted' = run.opted
    /\ busy' = FALSE /\ retryStep' = None
    /\ table' = [file |-> run.file, selection |-> run.selection]
    /\ decisions' = EmptyDecisions

EmitError(run, step) ==
    /\ stage' = "error" /\ file' = run.file /\ prior' = run.prior /\ busy' = FALSE
    /\ inspected' = run.inspected /\ selection' = run.selection /\ opted' = {}
    /\ retryStep' = step
    /\ NoReview

-----------------------------------------------------------------------------
(* Jobs                                                                    *)

(* newJob followed by the coroutine's first call of a port.                *)
Start(run) ==
    /\ jobSeq < MaxJobs
    /\ jobSeq' = jobSeq + 1
    /\ jobs' = [jobs EXCEPT ![jobSeq + 1] = run]

Inspect(f, sel, opts, p) ==
    Start([step |-> "inspect", file |-> f, selection |-> sel, inspected |-> None,
           opted |-> opts, prior |-> p])

Parse(f, sel, seen, opts, p) ==
    Start([step |-> "parse", file |-> f, selection |-> sel, inspected |-> seen,
           opted |-> opts, prior |-> p])

(* Mutant: a coroutine never asks whether its job is still the latest.     *)
AnyJob(id) == TRUE

(* job.id = jobSeq: no later job was started and none was cancelled.       *)
Latest(id) == id = jobSeq

(* The coroutine of job id resumes at `step` and ends.                     *)
Ends(id, step) ==
    /\ jobs[id] # None /\ jobs[id].step = step
    /\ jobs' = [jobs EXCEPT ![id] = None]
    /\ UNCHANGED <<jobSeq, consent>>

Init ==
    /\ stage = "idle" /\ file = None /\ prior = None
    /\ inspected = None /\ selection = NoSelection /\ opted = {} /\ busy = FALSE
    /\ table = None /\ decisions = EmptyDecisions /\ retryStep = None
    /\ jobSeq = 0 /\ jobs = [id \in Id |-> None] /\ consent = {}

-----------------------------------------------------------------------------
(* Picking a file                                                          *)

Pick(f, p) ==
    /\ EmitInspecting(f, p)
    /\ Inspect(f, NoSelection, {}, p)
    /\ consent' = {}

(* acceptFile: the drop zone shows while idle and behind the dialog.       *)
AcceptFile(f) ==
    /\ stage \in {"idle", "confirm-replace"}
    /\ \/ prior = None /\ Pick(f, prior)
       \/ /\ prior # None
          /\ stage' = "confirm-replace" /\ file' = f
          /\ UNCHANGED <<prior, inspected, selection, opted, busy, table, decisions,
                         retryStep, jobSeq, jobs, consent>>

ConfirmReplace == stage = "confirm-replace" /\ Pick(file, prior)

DeclineReplace ==
    /\ stage = "confirm-replace"
    /\ EmitIdle(prior)
    /\ UNCHANGED <<jobSeq, jobs, consent>>

-----------------------------------------------------------------------------
(* The configure stage: its controls are disabled while a job is at work.  *)

Configuring == stage = "configure" /\ ~busy
Inspected == Configuring /\ inspected # None

(* selectSheet with the opt-ins opts: the header row is forgotten and the  *)
(* sheet inspected.                                                        *)
Select(sheet, opts) ==
    LET sel == [selection EXCEPT !.sheet = sheet, !.row = None,
                                 !.allowHidden = (sheet \in Hidden)]
    IN /\ sheet \notin Hidden \/ sheet \in opts
       /\ EmitConfigure(file, prior, inspected, sel, opts, TRUE)
       /\ Inspect(file, sel, opts, prior)

SelectSheet(sheet) == Inspected /\ Select(sheet, opted) /\ UNCHANGED consent

(* Mutant: any sheet can be opted into.                                    *)
OptIntoAnySheet(sheet) ==
    /\ Inspected /\ sheet \notin opted
    /\ Select(sheet, opted \cup {sheet})
    /\ consent' = consent \cup {sheet}

(* Ticking a hidden sheet opts into it and selects it.                     *)
OptIntoHiddenSheet(sheet) ==
    /\ Inspected /\ sheet \in Hidden \ opted
    /\ Select(sheet, opted \cup {sheet})
    /\ consent' = consent \cup {sheet}

(* Mutant: withdrawing the opt-in leaves the sheet selected.               *)
RevokeKeepingSelection(sheet) ==
    /\ Inspected /\ sheet \in opted
    /\ EmitConfigure(file, prior, inspected, selection, opted \ {sheet}, busy)
    /\ consent' = consent \ {sheet}
    /\ UNCHANGED <<jobSeq, jobs>>

(* Unticking it falls back to the default sheet, without inspecting it.    *)
RevokeHiddenSheet(sheet) ==
    /\ Inspected /\ sheet \in opted
    /\ LET sel == IF selection.sheet = sheet
                  THEN [selection EXCEPT !.sheet = DefaultSheet, !.allowHidden = FALSE]
                  ELSE selection
       IN EmitConfigure(file, prior, inspected, sel, opted \ {sheet}, busy)
    /\ consent' = consent \ {sheet}
    /\ UNCHANGED <<jobSeq, jobs>>

(* chooseDelimiter: offered only while the delimiter is ambiguous.         *)
ChooseDelimiter ==
    /\ Configuring /\ inspected = None
    /\ EmitConfigure(file, prior, inspected, selection, opted, TRUE)
    /\ Inspect(file, [NoSelection EXCEPT !.delimiter = TRUE], opted, prior)
    /\ UNCHANGED consent

SetHeaderRow(row) ==
    /\ Inspected
    /\ EmitConfigure(file, prior, inspected, [selection EXCEPT !.row = row], opted, busy)
    /\ UNCHANGED <<jobSeq, jobs, consent>>

Proceed ==
    /\ Inspected
    /\ EmitParsing(file, prior, inspected, selection)
    /\ Parse(file, selection, inspected, opted, prior)
    /\ UNCHANGED consent

-----------------------------------------------------------------------------
(* What the ports answer                                                   *)

(* The sheet inspected: the one asked for, or the default one.             *)
Target(sel) == IF sel.sheet = None THEN DefaultSheet ELSE sel.sheet

InspectSucceeds(id) ==
    LET run == jobs[id] IN
    /\ Ends(id, "inspect")
    /\ run.file \in Ambiguous => run.selection.delimiter
    /\ IF Latest(id)
       THEN EmitConfigure(run.file, run.prior, Target(run.selection),
                [run.selection EXCEPT !.sheet = Target(run.selection),
                                      !.allowHidden = (Target(run.selection) \in Hidden)],
                run.opted, FALSE)
       ELSE UNCHANGED shown

(* AMBIGUOUS_INPUT: the delimiter is asked for.                            *)
InspectAmbiguous(id) ==
    LET run == jobs[id] IN
    /\ Ends(id, "inspect")
    /\ run.file \in Ambiguous /\ ~run.selection.delimiter
    /\ IF Latest(id)
       THEN EmitConfigure(run.file, run.prior, None,
                          [NoSelection EXCEPT !.sheet = run.selection.sheet], run.opted, FALSE)
       ELSE UNCHANGED shown

(* The error of a failed inspection remembers neither it nor a selection.  *)
InspectFails(id) ==
    LET run == [jobs[id] EXCEPT !.inspected = None, !.selection = NoSelection] IN
    /\ Ends(id, "inspect")
    /\ IF Latest(id) THEN EmitError(run, "inspect") ELSE UNCHANGED shown

(* The parse resolves and the same job profiles the table.                 *)
ParseSucceeds(id) ==
    /\ jobs[id] # None /\ jobs[id].step = "parse"
    /\ jobs' = [jobs EXCEPT ![id] = IF Latest(id) THEN [@ EXCEPT !.step = "profile"] ELSE None]
    /\ UNCHANGED <<shown, jobSeq, consent>>

ProfileSucceeds(id) ==
    /\ Ends(id, "profile")
    /\ IF Latest(id) THEN EmitReview(jobs[id]) ELSE UNCHANGED shown

(* Mutant: a failed profile is not caught.                                 *)
OnlyParseFails(id) ==
    \/ /\ Ends(id, "parse")
       /\ IF Latest(id) THEN EmitError(jobs[id], "parse") ELSE UNCHANGED shown
    \/ Ends(id, "profile") /\ UNCHANGED shown

ParseFails(id) ==
    /\ \E step \in {"parse", "profile"} : Ends(id, step)
    /\ IF Latest(id) THEN EmitError(jobs[id], "parse") ELSE UNCHANGED shown

(* The port rejects CANCELLED though this job was not: its worker was.     *)
PortCancelled(id) ==
    /\ \E step \in {"inspect", "parse", "profile"} : Ends(id, step)
    /\ IF Latest(id) THEN EmitIdle(jobs[id].prior) ELSE UNCHANGED shown

-----------------------------------------------------------------------------
(* The review stage                                                        *)

Decide(d) ==
    /\ stage = "review"
    /\ decisions' = d
    /\ UNCHANGED <<stage, file, prior, inspected, selection, opted, busy, table, retryStep,
                   jobSeq, jobs, consent>>

Of(column, issues) == {i \in issues : OfColumn[i] = column}

(* Only issues that no column decision governs have a checkbox.            *)
ToggleIssue(issue) ==
    /\ issue \in Issue \ (ConfirmType \cup UseCache)
    /\ \E approved \in {decisions.approved \cup {issue}, decisions.approved \ {issue}} :
          Decide([decisions EXCEPT !.approved = approved])

(* A column is offered until it is decided.                                *)
Undecided(column) == decisions.overrides[column] = "proposed"

ConfirmColumn(column) ==
    /\ Undecided(column)
    /\ Decide([decisions EXCEPT !.overrides[column] = "confirmed",
                                !.approved = @ \cup Of(column, ConfirmType)])

DowngradeColumnToText(column) ==
    /\ Undecided(column)
    /\ Decide([decisions EXCEPT !.overrides[column] = "text",
                                !.approved = @ \ Of(column, ConfirmType)])

(* Mutant: withdrawing the consent leaves the issues approved.             *)
ToggleCacheOnly(column) ==
    /\ Of(column, UseCache) # {}
    /\ IF column \in decisions.cache
       THEN Decide([decisions EXCEPT !.cache = @ \ {column}])
       ELSE Decide([decisions EXCEPT !.cache = @ \cup {column},
                                     !.approved = @ \cup Of(column, UseCache)])

ToggleFormulaCache(column) ==
    /\ Of(column, UseCache) # {}
    /\ IF column \in decisions.cache
       THEN Decide([decisions EXCEPT !.cache = @ \ {column},
                                     !.approved = @ \ Of(column, UseCache)])
       ELSE Decide([decisions EXCEPT !.cache = @ \cup {column},
                                     !.approved = @ \cup Of(column, UseCache)])

EditSelection ==
    /\ stage = "review"
    /\ EmitConfigure(file, prior, inspected, selection, opted, FALSE)
    /\ UNCHANGED <<jobSeq, jobs, consent>>

Submit ==
    /\ stage = "review"
    /\ EmitIdle([table |-> table, plan |-> decisions])
    /\ UNCHANGED <<jobSeq, jobs, consent>>

-----------------------------------------------------------------------------
(* Cancel buttons, and the buttons of the error surface                    *)

Cancel ==
    /\ stage \in {"inspecting", "parsing", "configure", "error"}
    /\ stage = "configure" => inspected # None \/ ~busy
    /\ jobSeq < MaxJobs
    /\ jobSeq' = jobSeq + 1
    /\ EmitIdle(prior)
    /\ UNCHANGED <<jobs, consent>>

(* A failed parse is repeated as it was, but for the opt-ins it knew.      *)
Retry ==
    /\ stage = "error"
    /\ \/ /\ retryStep = "inspect"
          /\ EmitInspecting(file, prior)
          /\ Inspect(file, NoSelection, {}, prior)
       \/ /\ retryStep = "parse"
          /\ EmitParsing(file, prior, inspected, selection)
          /\ Parse(file, selection, inspected, {}, prior)
    /\ UNCHANGED consent

-----------------------------------------------------------------------------
Settles(id) ==
    \/ InspectSucceeds(id) \/ InspectAmbiguous(id) \/ InspectFails(id)
    \/ ParseSucceeds(id) \/ ProfileSucceeds(id) \/ ParseFails(id) \/ PortCancelled(id)

Next ==
    \/ \E id \in Id : Settles(id)
    \/ \E f \in File : AcceptFile(f)
    \/ ConfirmReplace \/ DeclineReplace
    \/ \E s \in Sheet : SelectSheet(s) \/ OptIntoHiddenSheet(s) \/ RevokeHiddenSheet(s)
    \/ ChooseDelimiter \/ Proceed
    \/ \E row \in Row : SetHeaderRow(row)
    \/ \E i \in Issue : ToggleIssue(i)
    \/ \E c \in Column :
          ConfirmColumn(c) \/ DowngradeColumnToText(c) \/ ToggleFormulaCache(c)
    \/ EditSelection \/ Submit \/ Cancel \/ Retry

Spec == Init /\ [][Next]_vars

(* The ports settle: parse and profile are watched by the worker client,   *)
(* that an inspection ends is an assumption.                               *)
FairSpec == Spec /\ \A id \in Id : WF_vars(Settles(id))

-----------------------------------------------------------------------------
(* Properties                                                              *)

Working == stage \in {"inspecting", "parsing"} \/ busy

(* The stage follows the latest job: a stage shows work exactly while the  *)
(* latest job is running, for the file on show, and a superseded job never *)
(* takes the stage over.  Every variable has its type.                     *)
StageFollowsJob ==
    /\ TypeOK
    /\ Working <=> /\ jobSeq > 0 /\ jobs[jobSeq] # None
                   /\ jobs[jobSeq].file = file
                   /\ (jobs[jobSeq].step = "inspect") <=> (stage # "parsing")

(* No hidden sheet is parsed or reviewed without the user's consent at the *)
(* time, however selection, opt-in, retry and editing interleave.          *)
ParseConsented ==
    stage \in {"parsing", "review"} /\ selection.sheet \in Hidden
        => selection.sheet \in consent /\ selection.allowHidden

(* What is submitted is coherent: unverified caches are approved exactly   *)
(* for the columns consented to, and a type that was refused or never      *)
(* decided is not approved.                                                *)
PlanCoherent ==
    prior # None =>
        /\ \A i \in UseCache : i \in prior.plan.approved <=> OfColumn[i] \in prior.plan.cache
        /\ \A i \in ConfirmType :
              i \in prior.plan.approved <=> prior.plan.overrides[OfColumn[i]] = "confirmed"

(* The last outcome survives failures, cancels and late completions: it is *)
(* replaced only by that of the table under review.                        *)
PriorSurvives ==
    [][prior' # prior => stage = "review" /\ prior'.table = table]_vars

(* A stage that shows work comes to an end.                                *)
WorkEnds == Working ~> ~Working

(* "Pick a sheet (visible or explicitly opted-in hidden sheet)" (types.ts, *)
(* selectSheet): the sheet selected is visible or ticked.                  *)
SelectedIsOpted ==
    stage \in {"configure", "review"} /\ selection.sheet \in Hidden => selection.sheet \in opted
=============================================================================
