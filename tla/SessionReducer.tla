--------------------------- MODULE SessionReducer ---------------------------
(***************************************************************************)
(* The session state of the web app (apps/web/src/app/state.ts) and the    *)
(* reducer that is the only thing to change it (app/reducer.ts).  A        *)
(* reducer case is an operator from a session, and the fields of the       *)
(* dispatched action, to the next session.                                 *)
(*                                                                         *)
(* A dataset is known by the number of the source it was read from, a      *)
(* scenario result by the dataset it was computed on.  Selection, evidence *)
(* and wording (findings, notices, stage names, inputs) are left out.      *)
(***************************************************************************)
EXTENDS Integers

CONSTANTS Rid,     \* request ids
          None     \* null

Format == {"xlsx", "pptx"}
PendingPhase == {"reading", "profiling", "needsReview", "analyzing"}
WorkingPhase == PendingPhase \ {"needsReview"}
DatasetPhase == {"ready", "exporting"}

Source == Nat \ {0}
Model == [run : Nat, src : Source, scenario : Source \cup {None}]
Pending == [kind : {"sample", "upload"}, src : Source, parsed : BOOLEAN]
Export == [building : BOOLEAN, epoch : Int, model : Model \cup {None},
           artifacts : [Format -> Model \cup {None}],
           scenarioId : Source \cup {None}]

(* null is no id, no number, and none of the records that a session holds. *)
ASSUME NoneAssumption == None \notin Rid \cup Int \cup Model \cup Pending

Session == [phase : PendingPhase \cup DatasetPhase \cup {"idle"},
            revision : Nat,
            requestId : Rid \cup {None},
            pending : Pending \cup {None},
            active : Source \cup {None},
            error : {"none", "plain", "retry"},
            scenario : Source \cup {None},
            scenarioRequestId : Rid \cup {None},
            export : Export]

NoArtifacts == [f \in Format |-> None]
(* Mutant: a fresh session starts with the epoch of revision 0.            *)
InitialExportOfEpochZero ==
    [building |-> FALSE, epoch |-> 0, model |-> None,
     artifacts |-> NoArtifacts, scenarioId |-> None]
InitialExport ==
    [building |-> FALSE, epoch |-> -1, model |-> None,
     artifacts |-> NoArtifacts, scenarioId |-> None]
InitialSession ==
    [phase |-> "idle", revision |-> 0, requestId |-> None, pending |-> None,
     active |-> None, error |-> "none", scenario |-> None,
     scenarioRequestId |-> None, export |-> InitialExport]

IsCurrent(s, r) == s.requestId = r

-----------------------------------------------------------------------------
(* The source pipeline                                                     *)

(* source.begin *)
SourceBegin(s, kind, src) ==
    [s EXCEPT !.revision = @ + 1, !.phase = "reading",
              !.pending = [kind |-> kind, src |-> src, parsed |-> FALSE],
              !.requestId = None, !.error = "none"]

(* request.start *)
RequestStart(s, r) == [s EXCEPT !.requestId = r]

(* ingest.done *)
IngestDone(s, r) ==
    IF IsCurrent(s, r) /\ s.pending # None
    THEN [s EXCEPT !.phase = "profiling", !.pending.parsed = TRUE]
    ELSE s

(* profile.done: only an upload with actionable issues pauses for review.  *)
ProfileDone(s, r, actionable) ==
    IF IsCurrent(s, r) /\ s.pending # None
    THEN [s EXCEPT !.phase = IF s.pending.kind = "sample" \/ ~actionable
                             THEN "analyzing" ELSE "needsReview"]
    ELSE s

(* review.approve *)
ReviewApprove(s) ==
    IF s.phase = "needsReview" /\ s.pending # None
    THEN [s EXCEPT !.phase = "analyzing"]
    ELSE s

(* Mutant: the scenario of the replaced dataset is kept.                   *)
AnalyzeDoneKeepingScenario(s, r, src) ==
    IF IsCurrent(s, r) /\ s.pending # None
    THEN [s EXCEPT !.phase = "ready", !.active = src, !.pending = None,
                   !.requestId = None, !.scenarioRequestId = None,
                   !.export.model = None, !.export.artifacts = NoArtifacts]
    ELSE s

(* Mutant: the export of the replaced dataset stays on show.               *)
AnalyzeDoneKeepingExport(s, r, src) ==
    IF IsCurrent(s, r) /\ s.pending # None
    THEN [s EXCEPT !.phase = "ready", !.active = src, !.pending = None,
                   !.requestId = None,
                   !.scenario = None, !.scenarioRequestId = None]
    ELSE s

(* analyze.done: the pending source becomes the committed dataset.         *)
AnalyzeDone(s, r, src) ==
    IF IsCurrent(s, r) /\ s.pending # None
    THEN [s EXCEPT !.phase = "ready", !.active = src, !.pending = None,
                   !.requestId = None,
                   !.scenario = None, !.scenarioRequestId = None,
                   !.export.model = None, !.export.artifacts = NoArtifacts]
    ELSE s

Retained(s) == IF s.active # None THEN "ready" ELSE "idle"

(* request.failed *)
RequestFailed(s, r, error) ==
    IF IsCurrent(s, r)
    THEN [s EXCEPT !.phase = Retained(s), !.pending = None,
                   !.requestId = None, !.error = error]
    ELSE s

(* request.cancelled *)
RequestCancelled(s, r) ==
    IF IsCurrent(s, r)
    THEN [s EXCEPT !.phase = Retained(s), !.pending = None,
                   !.requestId = None, !.error = "none"]
    ELSE s

(* upload.deferToPicker *)
DeferToPicker(s, r) ==
    IF IsCurrent(s, r)
    THEN [s EXCEPT !.phase = "idle", !.pending = None,
                   !.requestId = None, !.error = "none"]
    ELSE s

-----------------------------------------------------------------------------
(* Scenario                                                                *)

(* scenario.submit *)
ScenarioSubmit(s, r) ==
    IF s.phase = "ready" /\ s.scenarioRequestId = None
    THEN [s EXCEPT !.scenarioRequestId = r]
    ELSE s

(* scenario.done *)
ScenarioDone(s, r, src) ==
    IF s.scenarioRequestId = r
    THEN [s EXCEPT !.scenario = src, !.scenarioRequestId = None]
    ELSE s

(* scenario.failed *)
ScenarioFailed(s, r) ==
    IF s.scenarioRequestId = r
    THEN [s EXCEPT !.scenarioRequestId = None, !.error = "plain"]
    ELSE s

(* scenario.reset *)
ScenarioReset(s) == [s EXCEPT !.scenario = None, !.scenarioRequestId = None]

-----------------------------------------------------------------------------
(* Export                                                                  *)

CurrentEpoch(s) == s.export.epoch = s.revision

(* Mutant: the artifacts of the last run are kept until they are replaced. *)
ExportBeginKeepingArtifacts(s, model) ==
    IF s.phase = "ready"
    THEN [s EXCEPT !.phase = "exporting",
                   !.export = [building |-> TRUE, epoch |-> s.revision,
                               model |-> model, artifacts |-> s.export.artifacts,
                               scenarioId |-> s.scenario]]
    ELSE s

(* export.begin *)
ExportBegin(s, model) ==
    IF s.phase = "ready"
    THEN [s EXCEPT !.phase = "exporting",
                   !.export = [building |-> TRUE, epoch |-> s.revision,
                               model |-> model, artifacts |-> NoArtifacts,
                               scenarioId |-> s.scenario]]
    ELSE s

(* export.done *)
ExportDone(s, format, model) ==
    IF CurrentEpoch(s) THEN [s EXCEPT !.export.artifacts[format] = model] ELSE s

(* export.finished *)
ExportFinished(s) ==
    IF CurrentEpoch(s)
    THEN [s EXCEPT !.phase = "ready", !.export.building = FALSE]
    ELSE s

(* session.replay *)
Replay(s) ==
    IF s.active # None
    THEN [s EXCEPT !.phase = "ready", !.scenario = None, !.error = "none",
                   !.scenarioRequestId = None, !.export = InitialExport]
    ELSE s
=============================================================================
