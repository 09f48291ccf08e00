--------------------------- MODULE SessionProofs ---------------------------
(***************************************************************************)
(* Proofs about Session, for any request ids and parse options, any number *)
(* of sources, exports and teardowns, with workers that crash or not.      *)
(***************************************************************************)
EXTENDS Session, FiniteSetTheorems, TLAPS

(* What a session says by itself: the phase agrees with its data, and its  *)
(* results are of its dataset.  The epoch of an export is not ahead of the *)
(* revision, and is current only while the dataset is on show.             *)
Sound(s) ==
    /\ s \in Session
    /\ s.pending # None <=> s.phase \in PendingPhase
    /\ s.phase \in PendingPhase \ {"reading"} => s.pending.parsed
    /\ s.phase \in DatasetPhase => s.active # None
    /\ s.scenario \in {None, s.active}
    /\ s.export.model = None \/ s.export.model.src = s.active
    /\ s.export.epoch <= s.revision
    /\ CurrentEpoch(s) => s.phase \in DatasetPhase
    /\ s.phase = "exporting" => CurrentEpoch(s)

AnalysisSteps == {"ingest", "profile", "normalize", "analyze"}

(* The steps that a kind of job has; an export has the model it exports.   *)
Shaped(job) ==
    /\ job.kind \in SourceKind => job.step \in {"load"} \cup AnalysisSteps
    /\ job.kind = "flow" => job.step \in {"ingest", "profile"}
    /\ job.kind = "scenario" => job.step = "scenario"
    /\ job.kind = "export" => /\ job.step \in {"model"} \cup Format
                              /\ job.model # None /\ job.model.src = job.src
JobShape == \A r \in Rid : jobs[r] # None => Shaped(jobs[r])

(* A job waits for a worker exactly when its client has it in flight.      *)
JobInFlight ==
    \A r \in Rid :
        /\ r \in Waiting(analysis) <=> At(r, Kind \ {"export"}, WorkerStep)
        /\ r \in Waiting(exporter) <=> At(r, {"export"}, Format)

(* The live request is that of a source, whose phase shows how far it is,  *)
(* or of an export; no other job uses the analysis client meanwhile.       *)
LiveRequest ==
    /\ session.phase \in WorkingPhase =>
          \E r \in Rid : session.requestId = r /\ At(r, SourceKind, WorkerStep \cup MainStep)
    /\ \A r \in Rid : session.requestId = r /\ jobs[r] # None =>
          /\ jobs[r].kind \in SourceKind \cup {"export"}
          /\ jobs[r].kind \in SourceKind =>
                /\ session.phase \in WorkingPhase
                /\ jobs[r].src = session.pending.src
                /\ session.phase = "reading" => jobs[r].step \in {"load", "ingest"}
    /\ session.phase \in PendingPhase => Waiting(analysis) \subseteq {session.requestId}

(* The scenario awaited is computed on the committed dataset.              *)
LiveScenario ==
    \A r \in Rid : session.scenarioRequestId = r /\ jobs[r] # None =>
        jobs[r].kind = "scenario" /\ jobs[r].src = session.active

(* An export on show is the one its client has in flight.                  *)
LiveExport ==
    session.phase = "exporting" =>
        \E r \in Waiting(exporter) : jobs[r].model = session.export.model

(* The upload flow is at work only while the session is idle, and a table  *)
(* under review leaves the client free.                                    *)
FlowMounted ==
    /\ flow.stage # "idle" => session.phase = "idle" /\ flow.src # None
    /\ flow.stage = "review" => Waiting(analysis) = {}

(* The inductive invariant.                                                *)
Inv ==
    /\ TypeOK
    /\ Sound(session)
    /\ JobShape /\ JobInFlight
    /\ LiveRequest /\ LiveScenario /\ LiveExport
    /\ FlowMounted
    /\ FreeRids # {}
    /\ refused \cap SourceKind = {}

(* While nothing is torn down, an export in flight is on show: the export  *)
(* client is free whenever a model is being built.                         *)
ExportOnShow ==
    /\ clearing = 0
    /\ \A r \in Waiting(exporter) : session.phase = "exporting" /\ session.requestId = r
    /\ \A r \in Rid : session.requestId = r /\ At(r, {"export"}, {"model"}) =>
          session.phase = "ready"
    /\ ArtifactsOfOneRun
    /\ "export" \notin refused

-----------------------------------------------------------------------------
(* The reducer on its own                                                  *)

(* Session t is s with some of its work ended: what t still shows as at    *)
(* work is what s showed.                                                  *)
Calmer(s, t) ==
    /\ \/ t.scenarioRequestId = None
       \/ t.scenarioRequestId = s.scenarioRequestId /\ t.active = s.active
    /\ \/ /\ t.phase = s.phase /\ t.pending = s.pending /\ t.requestId = s.requestId
          /\ t.phase = "exporting" => t.export.model = s.export.model
       \/ /\ t.phase \in {"idle", "ready"}
          /\ \/ t.requestId = None
             \/ s.phase \in DatasetPhase /\ t.requestId = s.requestId

LEMMA CalmerTransitive ==
    ASSUME NEW s, NEW t, NEW u, Calmer(s, t), Calmer(t, u)
    PROVE  Calmer(s, u)
BY DEF Calmer, DatasetPhase

(* What an operation of the reducer ends leaves a sound session behind.    *)
Ends(s, t) == Sound(t) /\ Calmer(s, t)

(* A request that ends takes its pending source along.                     *)
LEMMA FailedSound ==
    ASSUME NEW s, Sound(s), NEW r \in Rid, NEW error \in {"none", "plain", "retry"}
    PROVE  /\ Ends(s, RequestFailed(s, r, error))
           /\ RequestFailed(s, r, error).active = s.active
           /\ s.requestId = r => /\ RequestFailed(s, r, error).phase \in {"idle", "ready"}
                                 /\ RequestFailed(s, r, error).requestId = None
           /\ s.requestId # r => RequestFailed(s, r, error) = s
<1>1. CASE s.requestId = r
  <2> DEFINE t == RequestFailed(s, r, error)
  <2>1. t = [s EXCEPT !.phase = Retained(s), !.pending = None,
                      !.requestId = None, !.error = error]
      BY <1>1 DEF RequestFailed, IsCurrent
  <2> HIDE DEF t
  <2>2. /\ Sound(t) /\ t.phase \in {"idle", "ready"}
        /\ t.active = s.active /\ t.requestId = None
        /\ t.scenarioRequestId = s.scenarioRequestId
    <3>1. /\ t.phase \in {"idle", "ready"} /\ t.active = s.active /\ t.requestId = None
          /\ t.scenarioRequestId = s.scenarioRequestId
        BY <2>1 DEF Sound, Retained, Session
    <3>2. Sound(t)
        BY <2>1, NoneAssumption, ZenonT(60)
           DEF NoneAssumption, Sound, CurrentEpoch, Retained, Session, PendingPhase, DatasetPhase
    <3> QED
        BY <3>1, <3>2
  <2> QED
      BY <1>1, <2>2 DEF t, Ends, Calmer
<1>2. CASE s.requestId # r
    BY <1>2 DEF RequestFailed, IsCurrent, Ends, Calmer
<1> QED
    BY <1>1, <1>2

LEMMA CancelledSound ==
    ASSUME NEW s, Sound(s), NEW r \in Rid
    PROVE  /\ Ends(s, RequestCancelled(s, r))
           /\ RequestCancelled(s, r).active = s.active
           /\ s.requestId = r => /\ RequestCancelled(s, r).phase \in {"idle", "ready"}
                                 /\ RequestCancelled(s, r).requestId = None
           /\ s.requestId # r => RequestCancelled(s, r) = s
<1>1. RequestCancelled(s, r) = RequestFailed(s, r, "none")
    BY DEF RequestCancelled, RequestFailed
<1> QED
    BY <1>1, FailedSound

(* Only a source that is pending is handed to the picker.                  *)
LEMMA DeferSound ==
    ASSUME NEW s, Sound(s), NEW r \in Rid, s.requestId = r => s.phase \in PendingPhase
    PROVE  /\ Ends(s, DeferToPicker(s, r))
           /\ DeferToPicker(s, r).active = s.active
           /\ s.requestId = r => /\ DeferToPicker(s, r).phase = "idle"
                                 /\ DeferToPicker(s, r).requestId = None
           /\ s.requestId # r => DeferToPicker(s, r) = s
<1>1. CASE s.requestId = r
  <2> DEFINE t == DeferToPicker(s, r)
  <2>1. t = [s EXCEPT !.phase = "idle", !.pending = None,
                      !.requestId = None, !.error = "none"]
      BY <1>1 DEF DeferToPicker, IsCurrent
  <2> HIDE DEF t
  <2>2. /\ Sound(t) /\ t.phase = "idle"
        /\ t.active = s.active /\ t.requestId = None
        /\ t.scenarioRequestId = s.scenarioRequestId
      BY <1>1, <2>1, NoneAssumption
         DEF NoneAssumption, Sound, CurrentEpoch, Session, PendingPhase, DatasetPhase
  <2> QED
      BY <1>1, <2>2 DEF t, Ends, Calmer
<1>2. CASE s.requestId # r
    BY <1>2 DEF DeferToPicker, IsCurrent, Ends, Calmer
<1> QED
    BY <1>1, <1>2

(* A scenario that ends, in a result or not, changes the scenario alone.   *)
LEMMA ScenarioEnds ==
    ASSUME NEW s, Sound(s), NEW r \in Rid, NEW src \in Source,
           s.scenarioRequestId = r => src = s.active,
           NEW t \in {ScenarioFailed(s, r), ScenarioDone(s, r, src), ScenarioReset(s)}
    PROVE  Ends(s, t) /\ t.active = s.active /\ t.phase = s.phase /\ t.requestId = s.requestId
<1>1. \/ t = s
      \/ t = [s EXCEPT !.scenarioRequestId = None, !.error = "plain"]
      \/ src = s.active /\ t = [s EXCEPT !.scenario = src, !.scenarioRequestId = None]
      \/ t = [s EXCEPT !.scenario = None, !.scenarioRequestId = None]
    BY DEF ScenarioFailed, ScenarioDone, ScenarioReset
<1>2. /\ t.phase = s.phase /\ t.active = s.active
      /\ t.requestId = s.requestId /\ t.pending = s.pending
      /\ t.scenarioRequestId \in {None, s.scenarioRequestId}
      /\ t.export = s.export
    BY <1>1, ZenonT(60) DEF Sound, Session
<1>3. t.scenario \in {None, s.active} /\ t \in Session /\ t.revision = s.revision
    BY <1>1, ZenonT(60) DEF Sound, Session
<1>4. Sound(t)
    BY <1>2, <1>3 DEF Sound, CurrentEpoch
<1> QED
    BY <1>2, <1>4 DEF Ends, Calmer

LEMMA ScenarioFails ==
    ASSUME NEW s, Sound(s), NEW r \in Rid
    PROVE  /\ Ends(s, ScenarioFailed(s, r)) /\ ScenarioFailed(s, r).active = s.active
           /\ ScenarioFailed(s, r).phase = s.phase
           /\ ScenarioFailed(s, r).requestId = s.requestId
           /\ s.scenarioRequestId = r => ScenarioFailed(s, r).scenarioRequestId = None
           /\ s.scenarioRequestId # r => ScenarioFailed(s, r) = s
<1> DEFINE t == ScenarioFailed(s, r)
<1>1. \/ t = s /\ s.scenarioRequestId # r
      \/ t = [s EXCEPT !.scenarioRequestId = None, !.error = "plain"] /\ s.scenarioRequestId = r
    BY DEF ScenarioFailed
<1> HIDE DEF t
<1>2. /\ Sound(t) /\ t.phase = s.phase /\ t.active = s.active
      /\ t.requestId = s.requestId /\ t.pending = s.pending
      /\ t.scenarioRequestId \in {None, s.scenarioRequestId}
      /\ t.export = s.export
      /\ s.scenarioRequestId = r => t.scenarioRequestId = None
      /\ s.scenarioRequestId # r => t = s
    BY <1>1, ZenonT(60) DEF Sound, CurrentEpoch, Session, PendingPhase, DatasetPhase
<1> QED
    BY <1>2 DEF t, Ends, Calmer

(* An export that is finished leaves the dataset on show.                  *)
LEMMA FinishedSound ==
    ASSUME NEW s, Sound(s)
    PROVE  /\ Ends(s, ExportFinished(s)) /\ ExportFinished(s).active = s.active
           /\ ExportFinished(s).phase # "exporting"
           /\ ExportFinished(s).requestId = s.requestId
           /\ s.phase \notin DatasetPhase => ExportFinished(s) = s
           /\ s.phase \in DatasetPhase => ExportFinished(s).phase \in {"ready"}
           /\ ExportFinished(s).export.model = s.export.model
           /\ ExportFinished(s).export.artifacts = s.export.artifacts
<1> DEFINE t == ExportFinished(s)
<1>1. CASE CurrentEpoch(s)
  <2>1. t = [s EXCEPT !.phase = "ready", !.export.building = FALSE]
      BY <1>1 DEF ExportFinished
  <2> HIDE DEF t
  <2>2. /\ t.phase = "ready" /\ t.active = s.active /\ t.requestId = s.requestId
        /\ t.scenarioRequestId = s.scenarioRequestId /\ s.phase \in DatasetPhase
        /\ t.export.model = s.export.model /\ t.export.artifacts = s.export.artifacts
        /\ t.export.epoch = s.export.epoch /\ t.revision = s.revision
      BY <1>1, <2>1 DEF Sound, Session, Export
  <2>3. Sound(t)
    <3> DEFINE e == [s.export EXCEPT !.building = FALSE]
    <3>1. t = [s EXCEPT !.phase = "ready", !.export = e]
        BY <2>1
    <3>2. e \in Export
        BY DEF Sound, Session, Export
    <3> HIDE DEF e
    <3>3. t \in Session
        BY <3>1, <3>2 DEF Sound, Session, DatasetPhase
    <3> QED
        BY <2>1, <2>2, <3>3 DEF Sound, CurrentEpoch, Session, PendingPhase, DatasetPhase
  <2> QED
      BY <2>2, <2>3 DEF t, Ends, Calmer
<1>2. CASE ~CurrentEpoch(s)
    BY <1>2 DEF ExportFinished, Ends, Calmer, Sound, DatasetPhase, Session
<1> QED
    BY <1>1, <1>2

(* An artifact that arrives changes the artifacts alone.                   *)
LEMMA DoneSound ==
    ASSUME NEW s, Sound(s), NEW f \in Format, NEW model \in Model
    PROVE  /\ Ends(s, ExportDone(s, f, model)) /\ ExportDone(s, f, model).active = s.active
           /\ ExportDone(s, f, model).phase = s.phase
           /\ ExportDone(s, f, model).requestId = s.requestId
           /\ ExportDone(s, f, model).export.model = s.export.model
           /\ \A g \in Format : ExportDone(s, f, model).export.artifacts[g] \in
                                     {model, s.export.artifacts[g]}
<1> DEFINE t == ExportDone(s, f, model)
<1>1. t = s \/ t = [s EXCEPT !.export.artifacts[f] = model]
    BY DEF ExportDone
<1> HIDE DEF t
<1>2. /\ t.phase = s.phase /\ t.active = s.active /\ t.requestId = s.requestId
      /\ t.scenarioRequestId = s.scenarioRequestId /\ t.pending = s.pending
      /\ t.export.model = s.export.model /\ t.export.epoch = s.export.epoch
      /\ t.revision = s.revision /\ t.scenario = s.scenario
    BY <1>1 DEF Sound, Session, Export
<1>3. /\ t \in Session
      /\ \A g \in Format : t.export.artifacts[g] \in {model, s.export.artifacts[g]}
    BY <1>1 DEF Sound, Session, Export
<1>4. Sound(t)
    BY <1>2, <1>3 DEF Sound, CurrentEpoch
<1> QED
    BY <1>2, <1>3, <1>4 DEF t, Ends, Calmer

LEMMA InitialSound ==
    /\ Sound(InitialSession)
    /\ \A s : Calmer(s, InitialSession)
<1>1. InitialSession \in Session
    BY DEF InitialSession, InitialExport, NoArtifacts, Session, Export
<1>2. Sound(InitialSession)
    BY <1>1 DEF Sound, CurrentEpoch, InitialSession, InitialExport, PendingPhase, DatasetPhase
<1> QED
    BY <1>2 DEF Calmer, InitialSession

LEMMA ReplaySound ==
    ASSUME NEW s, Sound(s), s.phase = "ready"
    PROVE  Ends(s, Replay(s)) /\ Replay(s).active = s.active
<1> DEFINE t == Replay(s)
<1>1. s.active # None /\ s.pending = None
    BY DEF Sound, DatasetPhase, PendingPhase
<1>2. t = [s EXCEPT !.phase = "ready", !.scenario = None, !.error = "none",
                    !.scenarioRequestId = None, !.export = InitialExport]
    BY <1>1 DEF Replay
<1> HIDE DEF t
<1>3. /\ t \in Session /\ t.phase = "ready" /\ t.active = s.active
      /\ t.pending = s.pending /\ t.requestId = s.requestId /\ t.scenarioRequestId = None
      /\ t.scenario = None /\ t.revision = s.revision
      /\ t.export.model = None /\ t.export.epoch = -1
  <2>1. InitialExport \in Export /\ InitialExport.model = None /\ InitialExport.epoch = -1
      BY DEF InitialExport, Export, NoArtifacts
  <2> QED
      BY <1>2, <2>1 DEF Sound, Session
<1>4. Sound(t)
    BY <1>1, <1>3 DEF Sound, CurrentEpoch, DatasetPhase, PendingPhase, Session
<1> QED
    BY <1>3, <1>4 DEF t, Ends, Calmer

(* The committed dataset comes with no results, and no request is live.    *)
LEMMA AnalyzeSound ==
    ASSUME NEW s, Sound(s), NEW r \in Rid, NEW src \in Source
    PROVE  /\ Ends(s, AnalyzeDone(s, r, src))
           /\ AnalyzeDone(s, r, src).active \in {s.active, src}
           /\ s.phase \in PendingPhase /\ s.requestId = r =>
                 AnalyzeDone(s, r, src).phase = "ready" /\ AnalyzeDone(s, r, src).requestId = None
           /\ AnalyzeDone(s, r, src).active = s.active \/ s.pending # None
<1> DEFINE t == AnalyzeDone(s, r, src)
<1>1. CASE s.requestId = r /\ s.pending # None
  <2>1. t = [s EXCEPT !.phase = "ready", !.active = src, !.pending = None,
                      !.requestId = None, !.scenario = None, !.scenarioRequestId = None,
                      !.export.model = None, !.export.artifacts = NoArtifacts]
      BY <1>1 DEF AnalyzeDone, IsCurrent
  <2> HIDE DEF t
  <2>2. NoArtifacts \in [Format -> Model \cup {None}]
      BY DEF NoArtifacts
  <2>3. /\ t.phase = "ready" /\ t.active = src /\ t.pending = None /\ t.requestId = None
        /\ t.scenario = None /\ t.scenarioRequestId = None /\ t.revision = s.revision
        /\ t.export.model = None /\ t.export.epoch = s.export.epoch
      BY <2>1 DEF Sound, Session, Export
  <2>4. t \in Session
    <3> DEFINE e == [s.export EXCEPT !.model = None, !.artifacts = NoArtifacts]
    <3>1. t = [s EXCEPT !.phase = "ready", !.active = src, !.pending = None,
                        !.requestId = None, !.scenario = None, !.scenarioRequestId = None,
                        !.export = e]
        BY <2>1
    <3>2. e \in Export
        BY <2>2 DEF Sound, Session, Export
    <3> HIDE DEF e
    <3> QED
        BY <3>1, <3>2 DEF Sound, Session, DatasetPhase
  <2>5. Sound(t)
      BY <1>1, <2>3, <2>4, NoneAssumption
         DEF Sound, CurrentEpoch, DatasetPhase, PendingPhase, Source, NoneAssumption
  <2> QED
      BY <1>1, <2>3, <2>5 DEF t, Ends, Calmer
<1>2. CASE ~(s.requestId = r /\ s.pending # None)
    BY <1>2 DEF AnalyzeDone, IsCurrent, Ends, Calmer, Sound
<1> QED
    BY <1>1, <1>2

(* A source that begins is read under a new revision.                      *)
LEMMA BeginSound ==
    ASSUME NEW s, Sound(s), NEW kind \in SourceKind, NEW src \in Source, NEW r \in Rid
    PROVE  LET t == RequestStart(SourceBegin(s, kind, src), r)
           IN /\ Sound(t) /\ t.phase = "reading" /\ t.requestId = r /\ t.active = s.active
              /\ t.pending = [kind |-> kind, src |-> src, parsed |-> FALSE]
              /\ t.scenarioRequestId = s.scenarioRequestId
              /\ ~CurrentEpoch(t)
              /\ t.export = s.export
<1> DEFINE t == RequestStart(SourceBegin(s, kind, src), r)
           p == [kind |-> kind, src |-> src, parsed |-> FALSE]
<1>1. p \in Pending /\ p # None
  <2>1. p \in Pending
      BY DEF Pending, SourceKind
  <2> QED
      BY <2>1, NoneAssumption DEF NoneAssumption
<1> HIDE DEF p
<1>2. t = [s EXCEPT !.revision = s.revision + 1, !.phase = "reading", !.pending = p,
                    !.requestId = r, !.error = "none"]
    BY DEF RequestStart, SourceBegin, Sound, Session, p
<1> HIDE DEF t
<1>3. /\ t.phase = "reading" /\ t.requestId = r /\ t.active = s.active /\ t.pending = p
      /\ t.scenarioRequestId = s.scenarioRequestId /\ t.scenario = s.scenario
      /\ t.export = s.export /\ t.revision = s.revision + 1
    BY <1>2 DEF Sound, Session
<1>4. t \in Session
  <2>1. s.revision + 1 \in Nat
      BY DEF Sound, Session
  <2> QED
      BY <1>1, <1>2, <2>1 DEF Sound, Session, PendingPhase
<1>5. ~CurrentEpoch(t)
    BY <1>3 DEF Sound, CurrentEpoch, Session, Export
<1>6. Sound(t)
    BY <1>1, <1>3, <1>4, <1>5 DEF Sound, Session, Export, DatasetPhase, PendingPhase
<1> QED
    BY <1>3, <1>5, <1>6 DEF t, p

(* A request that starts is the live one.                                  *)
LEMMA StartSound ==
    ASSUME NEW s, Sound(s), NEW r \in Rid
    PROVE  LET t == RequestStart(s, r)
           IN /\ Sound(t) /\ t.requestId = r /\ t.phase = s.phase /\ t.pending = s.pending
              /\ t.active = s.active /\ t.scenarioRequestId = s.scenarioRequestId
              /\ t.export = s.export
BY DEF RequestStart, Sound, Session, CurrentEpoch

(* A source that is parsed stays pending: its phase moves on.              *)
LEMMA ParsedSound ==
    ASSUME NEW s, Sound(s), NEW r \in Rid, s.requestId = r, s.phase \in PendingPhase
    PROVE  LET t == IngestDone(s, r)
           IN /\ Sound(t) /\ t.requestId = r /\ t.phase = "profiling"
              /\ t.pending.src = s.pending.src
              /\ t.active = s.active /\ t.scenarioRequestId = s.scenarioRequestId
              /\ t.export = s.export
<1> DEFINE t == IngestDone(s, r)
           p == [s.pending EXCEPT !.parsed = TRUE]
<1>1. s.pending \in Pending
    BY DEF Sound, Session
<1>2. p \in Pending /\ p.parsed /\ p.src = s.pending.src
    BY <1>1 DEF Pending
<1>3. p # None
    BY <1>2, NoneAssumption DEF NoneAssumption
<1>4. t = [s EXCEPT !.phase = "profiling", !.pending = p]
    BY <1>1, NoneAssumption DEF IngestDone, IsCurrent, NoneAssumption
<1> HIDE DEF t, p
<1>5. /\ t.phase = "profiling" /\ t.requestId = r /\ t.active = s.active /\ t.pending = p
      /\ t.scenarioRequestId = s.scenarioRequestId /\ t.scenario = s.scenario
      /\ t.export = s.export /\ t.revision = s.revision
    BY <1>4 DEF Sound, Session
<1>6. t \in Session
    BY <1>2, <1>4 DEF Sound, Session, PendingPhase
<1>7. Sound(t)
    BY <1>2, <1>3, <1>5, <1>6 DEF Sound, CurrentEpoch, DatasetPhase, PendingPhase
<1> QED
    BY <1>2, <1>5, <1>7 DEF t

(* A phase is changed to a later one of a parsed source.                   *)
LEMMA PhaseSound ==
    ASSUME NEW s, Sound(s), s.phase \in PendingPhase \ {"reading"},
           NEW phase \in {"needsReview", "analyzing"},
           NEW t, t = [s EXCEPT !.phase = phase]
    PROVE  /\ Sound(t) /\ t.phase = phase /\ t.requestId = s.requestId
           /\ t.pending = s.pending /\ t.active = s.active
           /\ t.scenarioRequestId = s.scenarioRequestId /\ t.export = s.export
<1>1. /\ t.phase = phase /\ t.requestId = s.requestId /\ t.active = s.active
      /\ t.pending = s.pending
      /\ t.scenarioRequestId = s.scenarioRequestId /\ t.scenario = s.scenario
      /\ t.export = s.export /\ t.revision = s.revision
    BY DEF Sound, Session
<1>2. t \in Session
    BY DEF Sound, Session, PendingPhase
<1>3. Sound(t)
    BY <1>1, <1>2 DEF Sound, CurrentEpoch, DatasetPhase, PendingPhase
<1> QED
    BY <1>1, <1>3

(* A scenario is awaited beside whatever is on show.                       *)
LEMMA SubmitSound ==
    ASSUME NEW s, Sound(s), NEW r \in Rid
    PROVE  LET t == ScenarioSubmit(s, r)
           IN /\ Sound(t) /\ t.requestId = s.requestId /\ t.phase = s.phase
              /\ t.pending = s.pending /\ t.active = s.active /\ t.export = s.export
              /\ t.scenarioRequestId \in {r, s.scenarioRequestId}
<1> DEFINE t == ScenarioSubmit(s, r)
<1>1. t = s \/ t = [s EXCEPT !.scenarioRequestId = r]
    BY DEF ScenarioSubmit
<1> HIDE DEF t
<1>2. /\ t \in Session
      /\ t.phase = s.phase /\ t.requestId = s.requestId /\ t.active = s.active
      /\ t.pending = s.pending /\ t.scenario = s.scenario
      /\ t.scenarioRequestId \in {r, s.scenarioRequestId}
      /\ t.export = s.export /\ t.revision = s.revision
    BY <1>1 DEF Sound, Session
<1>3. Sound(t)
    BY <1>2 DEF Sound, CurrentEpoch
<1> QED
    BY <1>2, <1>3 DEF t

(* An export begins with the epoch of the session.                         *)
LEMMA ExportSound ==
    ASSUME NEW s, Sound(s), NEW model \in Model, model.src = s.active
    PROVE  LET t == ExportBegin(s, model)
           IN /\ Sound(t) /\ t.requestId = s.requestId /\ t.active = s.active
              /\ t.pending = s.pending /\ t.scenarioRequestId = s.scenarioRequestId
              /\ s.phase # "ready" => t = s
              /\ s.phase = "ready" => /\ t.phase = "exporting" /\ t.export.model = model
                                      /\ t.export.artifacts = NoArtifacts
<1> DEFINE t == ExportBegin(s, model)
           e == [building |-> TRUE, epoch |-> s.revision, model |-> model,
                 artifacts |-> NoArtifacts, scenarioId |-> s.scenario]
<1>1. CASE s.phase # "ready"
    BY <1>1 DEF ExportBegin
<1>2. CASE s.phase = "ready"
  <2>1. e \in Export
      BY DEF Sound, Session, Export, NoArtifacts
  <2>2. t = [s EXCEPT !.phase = "exporting", !.export = e]
      BY <1>2 DEF ExportBegin
  <2>3. e.model = model /\ e.epoch = s.revision /\ e.artifacts = NoArtifacts
      OBVIOUS
  <2> HIDE DEF t, e
  <2>4. /\ t.phase = "exporting" /\ t.requestId = s.requestId /\ t.active = s.active
        /\ t.pending = s.pending /\ t.scenario = s.scenario
        /\ t.scenarioRequestId = s.scenarioRequestId
        /\ t.export = e /\ t.revision = s.revision
      BY <2>2 DEF Sound, Session
  <2>5. t \in Session
      BY <2>1, <2>2 DEF Sound, Session, DatasetPhase
  <2>6. Sound(t)
      BY <1>2, <2>3, <2>4, <2>5
         DEF Sound, CurrentEpoch, Session, DatasetPhase, PendingPhase
  <2> QED
      BY <1>2, <2>3, <2>4, <2>6 DEF t
<1> QED
    BY <1>1, <1>2

-----------------------------------------------------------------------------
(* Clients and the jobs they reject                                        *)

LEMMA ClientFacts ==
    /\ \A c \in Client, r \in Rid : Posted(c, r) \in Client /\ Waiting(Posted(c, r)) = {r}
    /\ \A c \in Client : Answered(c) \in Client /\ Waiting(Answered(c)) = {}
    /\ \A opts \in Options \cup {None} :
          FreshClient(opts) \in Client /\ Waiting(FreshClient(opts)) = {}
    /\ \A c \in Client \cup {None} : /\ Cancelled(c) \in Client \cup {None}
                                    /\ Waiting(Cancelled(c)) = {}
    /\ \A c \in Client, src \in Source : [c EXCEPT !.tables = @ \cup {src}] \in Client
<1>1. ASSUME NEW c \in Client, NEW r \in Rid
      PROVE  Posted(c, r) \in Client /\ Waiting(Posted(c, r)) = {r}
  <2>1. Posted(c, r) \in Client /\ Posted(c, r).inFlight = r
      BY DEF Posted, Client
  <2> QED
      BY <2>1, NoneAssumption, RidAssumption DEF NoneAssumption, RidAssumption, Waiting
<1>2. ASSUME NEW c \in Client
      PROVE  Answered(c) \in Client /\ Waiting(Answered(c)) = {}
  <2>1. Answered(c) \in Client /\ Answered(c).inFlight = None
      BY DEF Answered, Client
  <2> QED
      BY <2>1 DEF Waiting
<1>3. ASSUME NEW opts \in Options \cup {None}
      PROVE  FreshClient(opts) \in Client /\ Waiting(FreshClient(opts)) = {}
  <2>1. FreshClient(opts) \in Client /\ FreshClient(opts).inFlight = None
      BY DEF FreshClient, Client
  <2> QED
      BY <2>1 DEF Waiting
<1>4. ASSUME NEW c \in Client \cup {None}
      PROVE  Cancelled(c) \in Client \cup {None} /\ Waiting(Cancelled(c)) = {}
  <2>1. CASE c = None
      BY <2>1 DEF Cancelled, Waiting
  <2>2. CASE c # None
    <3>1. c.opts \in Options \cup {None}
        BY <2>2 DEF Client
    <3> QED
        BY <1>3, <2>2, <3>1 DEF Cancelled
  <2> QED
      BY <2>1, <2>2
<1>5. ASSUME NEW c \in Client, NEW src \in Source
      PROVE  [c EXCEPT !.tables = @ \cup {src}] \in Client
    BY DEF Client
<1> QED
    BY <1>1, <1>2, <1>3, <1>4, <1>5

(* A client has at most one request in flight.                             *)
LEMMA OneWaiting ==
    ASSUME NEW c \in Client \cup {None}
    PROVE  /\ Waiting(c) \subseteq Rid
           /\ \A q, r \in Waiting(c) : q = r
BY DEF Waiting, Client

LEMMA RejectionEnds ==
    ASSUME NEW s, Sound(s), NEW r \in Rid
    PROVE  /\ Ends(s, Rejection(s, r)) /\ Rejection(s, r).active = s.active
           /\ jobs[r].kind \in SourceKind /\ s.requestId = r =>
                 Rejection(s, r).phase \in {"idle", "ready"}
           /\ jobs[r].kind = "export" => Rejection(s, r).phase # "exporting"
           /\ s.requestId # r /\ s.phase \notin DatasetPhase =>
                 Rejection(s, r).phase = s.phase
           /\ s.requestId # r /\ s.scenarioRequestId # r /\ s.phase \notin DatasetPhase =>
                 Rejection(s, r) = s
<1>1. CASE jobs[r].kind \in SourceKind
    BY <1>1, CancelledSound DEF Rejection, SourceKind
<1>2. CASE jobs[r].kind = "scenario"
    BY <1>2, ScenarioFails DEF Rejection, SourceKind
<1>3. CASE jobs[r].kind = "export"
    BY <1>3, FinishedSound DEF Rejection, SourceKind
<1>4. CASE jobs[r].kind \notin SourceKind \cup {"scenario", "export"}
    BY <1>4 DEF Rejection, SourceKind, Ends, Calmer
<1> QED
    BY <1>1, <1>2, <1>3, <1>4

(* What the jobs of one client that are rejected do to a session.          *)
LEMMA AfterRejectingEnds ==
    ASSUME NEW s, Sound(s), NEW c \in Client \cup {None}
    PROVE  LET t == AfterRejecting(s, Waiting(c))
           IN /\ Ends(s, t) /\ t.active = s.active
              /\ \A r \in Waiting(c) :
                    /\ jobs[r].kind \in SourceKind /\ s.requestId = r =>
                          t.phase \in {"idle", "ready"}
                    /\ jobs[r].kind = "export" => t.phase # "exporting"
              /\ s.requestId \notin Waiting(c) /\ s.phase \notin DatasetPhase =>
                    t.phase = s.phase
              /\ s.requestId \notin Waiting(c) /\ s.scenarioRequestId \notin Waiting(c)
                    /\ s.phase \notin DatasetPhase => t = s
<1>1. CASE Waiting(c) = {}
    BY <1>1 DEF AfterRejecting, Ends, Calmer
<1>2. CASE Waiting(c) # {}
  <2>1. PICK r \in Rid : Waiting(c) = {r}
      BY <1>2, OneWaiting
  <2>2. AfterRejecting(s, Waiting(c)) = Rejection(s, r)
      BY <2>1 DEF AfterRejecting
  <2> QED
      BY <2>1, <2>2, RejectionEnds
<1> QED
    BY <1>1, <1>2

(* What is still at work in the calmer session was at work before.         *)
LEMMA CalmerPending ==
    ASSUME NEW s, NEW t, Calmer(s, t)
    PROVE  /\ t.phase \in PendingPhase =>
                 t.phase = s.phase /\ t.requestId = s.requestId /\ t.pending = s.pending
           /\ t.phase = "exporting" =>
                 s.phase = "exporting" /\ t.export.model = s.export.model
           /\ t.requestId \in {None, s.requestId}
           /\ t.scenarioRequestId \in {None, s.scenarioRequestId}
BY DEF Calmer, PendingPhase

(* Both clients are cancelled or disposed of after session s has ended     *)
(* some of the work.                                                       *)
LEMMA BothRejected ==
    ASSUME Inv, NEW s, Ends(session, s), NEW t,
           t = AfterRejecting(AfterRejecting(s, Waiting(analysis)), Waiting(exporter))
    PROVE  /\ Ends(session, t) /\ t.active = s.active
           /\ t.phase \in WorkingPhase => session.requestId \notin CancelledJobs
           /\ t.phase = "exporting" => Waiting(exporter) \cap CancelledJobs = {}
<1> DEFINE u == AfterRejecting(s, Waiting(analysis))
<1>1. analysis \in Client \cup {None} /\ exporter \in Client \cup {None}
    BY DEF Inv, TypeOK
<1>2. /\ Ends(s, u) /\ u.active = s.active
      /\ \A r \in Waiting(analysis) : jobs[r].kind \in SourceKind /\ s.requestId = r =>
             u.phase \in {"idle", "ready"}
    BY <1>1, AfterRejectingEnds DEF Ends
<1>3. /\ Ends(u, t) /\ t.active = u.active
      /\ \A r \in Waiting(exporter) : jobs[r].kind = "export" => t.phase # "exporting"
    BY <1>1, <1>2, AfterRejectingEnds DEF Ends
<1> HIDE DEF u
<1>4. Ends(session, t)
    BY <1>2, <1>3, CalmerTransitive DEF Ends
<1>5. ASSUME t.phase \in WorkingPhase PROVE session.requestId \notin CancelledJobs
  <2>1. /\ u.phase = t.phase /\ s.phase = t.phase /\ session.phase = t.phase
        /\ s.requestId = session.requestId
      BY <1>2, <1>3, <1>5, CalmerPending DEF Ends, WorkingPhase
  <2>2. PICK r \in Rid : session.requestId = r /\ At(r, SourceKind, WorkerStep \cup MainStep)
      BY <1>5, <2>1 DEF Inv, LiveRequest
  <2>3. r \notin Waiting(exporter)
      BY <2>2 DEF Inv, JobInFlight, At, SourceKind
  <2>4. r \notin Waiting(analysis)
      BY <1>2, <1>5, <2>1, <2>2 DEF At, WorkingPhase, PendingPhase
  <2> QED
      BY <2>2, <2>3, <2>4 DEF CancelledJobs
<1>6. t.phase = "exporting" => Waiting(exporter) = {}
    BY <1>1, <1>3, OneWaiting DEF Inv, JobInFlight, At
<1> QED
    BY <1>2, <1>3, <1>4, <1>5, <1>6

-----------------------------------------------------------------------------
(* Request ids                                                             *)

LEMMA NewRidFree ==
    ASSUME FreeRids # {}
    PROVE  /\ NewRid \in Rid /\ jobs[NewRid] = None
           /\ NewRid # session.requestId /\ NewRid # session.scenarioRequestId
<1>1. NewRid \in FreeRids
    BY DEF NewRid
<1> QED
    BY <1>1 DEF FreeRids

(* The id in reserve is there when the new one is taken.                   *)
LEMMA ReserveKept ==
    ASSUME RidInReserve
    PROVE  FreeRids # {} /\ FreeRids \ {NewRid} # {}
<1>1. Cardinality(FreeRids) > 1
    BY DEF RidInReserve
<1>2. Cardinality({}) = 0 /\ Cardinality({NewRid}) = 1
    BY FS_EmptySet, FS_Singleton
<1>3. FreeRids # {} /\ FreeRids # {NewRid}
    BY <1>1, <1>2
<1> QED
    BY <1>3

-----------------------------------------------------------------------------
(* Steps that only end work                                                *)

LEMMA WithoutJobs ==
    ASSUME Inv, NEW R \in SUBSET Rid, jobs' = Without(R)
    PROVE  /\ jobs' \in [Rid -> Job \cup {None}]
           /\ \A r \in Rid : jobs'[r] = IF r \in R THEN None ELSE jobs[r]
BY DEF Without, Inv, TypeOK

(* The flow that is rendered is mounted only while the session is idle.    *)
LEMMA RenderMounted ==
    ASSUME Inv, NEW rs, RenderFlow(session', rs),
           Waiting(analysis)' \subseteq Waiting(analysis) \/ session.phase # "idle"
    PROVE  flow' \in Flow /\ picker' \in Source \cup {None} /\ FlowMounted'
<1>1. CASE flow' = NoFlow /\ picker' = picker
    BY <1>1 DEF NoFlow, Flow, FlowMounted, Inv, TypeOK
<1>2. CASE flow' = [stage |-> "idle", src |-> picker] /\ picker' = None
    BY <1>2 DEF Flow, FlowMounted, Inv, TypeOK
<1>3. CASE session'.phase = "idle" /\ session.phase = "idle" /\ flow' = flow /\ picker' = picker
    BY <1>3 DEF FlowMounted, Inv, TypeOK
<1> QED
    BY <1>1, <1>2, <1>3 DEF RenderFlow

(* Where the jobs R end, together with the work of theirs that the session *)
(* shows, the invariant is kept.                                           *)
LEMMA CalmInv ==
    ASSUME Inv, NEW R \in SUBSET Rid, jobs' = Without(R),
           Ends(session, session'),
           session'.phase \in WorkingPhase => session.requestId \notin R,
           session'.phase = "exporting" => Waiting(exporter) \cap R = {},
           analysis' \in Client \cup {None}, exporter' \in Client \cup {None},
           Waiting(analysis)' = Waiting(analysis) \ R,
           Waiting(exporter)' = Waiting(exporter) \ R,
           flow' \in Flow, FlowMounted', picker' \in Source \cup {None},
           lastSource' \in {"none", "attached", "detached"},
           urls' \subseteq Nat \X Format,
           clearing' \in Nat, begun' \in Nat, prepared' \in Nat,
           refused' \subseteq Kind, refused' \cap SourceKind = {}
    PROVE  Inv'
<1>1. /\ jobs' \in [Rid -> Job \cup {None}]
      /\ \A r \in Rid : jobs'[r] = IF r \in R THEN None ELSE jobs[r]
    BY WithoutJobs
<1>2. /\ session'.phase \in PendingPhase =>
            /\ session'.phase = session.phase /\ session'.requestId = session.requestId
            /\ session'.pending = session.pending
      /\ session'.phase = "exporting" =>
            session.phase = "exporting" /\ session'.export.model = session.export.model
      /\ session'.requestId \in {None, session.requestId}
      /\ session'.scenarioRequestId \in {None, session.scenarioRequestId}
    BY CalmerPending DEF Ends
<1>3. TypeOK' /\ Sound(session)'
    BY <1>1 DEF TypeOK, Ends, Sound
<1>4. JobShape'
    BY <1>1 DEF Inv, JobShape
<1>5. JobInFlight'
    BY <1>1 DEF Inv, JobInFlight, At
<1>6. LiveRequest'
  <2>1. session'.phase \in WorkingPhase =>
            \E r \in Rid : session'.requestId = r /\ At(r, SourceKind, WorkerStep \cup MainStep)'
      BY <1>1, <1>2 DEF Inv, LiveRequest, At, WorkingPhase
  <2>2. ASSUME NEW r \in Rid, session'.requestId = r, jobs'[r] # None
        PROVE  /\ jobs'[r].kind \in SourceKind \cup {"export"}
               /\ jobs'[r].kind \in SourceKind =>
                    /\ session'.phase \in WorkingPhase
                    /\ jobs'[r].src = session'.pending.src
                    /\ session'.phase = "reading" => jobs'[r].step \in {"load", "ingest"}
    <3>1. session.requestId = r /\ jobs[r] # None /\ jobs'[r] = jobs[r]
        BY <1>1, <1>2, <2>2, NoneAssumption DEF NoneAssumption
    <3>2. jobs[r].kind \in SourceKind => session.phase \in WorkingPhase
        BY <3>1 DEF Inv, LiveRequest
    <3>3. jobs[r].kind \in SourceKind =>
            session'.phase = session.phase /\ session'.pending = session.pending
        BY <2>2, <3>2, NoneAssumption
           DEF Ends, Calmer, WorkingPhase, PendingPhase, DatasetPhase, NoneAssumption
    <3> QED
        BY <3>1, <3>3 DEF Inv, LiveRequest
  <2>3. session'.phase \in PendingPhase => Waiting(analysis)' \subseteq {session'.requestId}
      BY <1>2 DEF Inv, LiveRequest
  <2> QED
      BY <2>1, <2>2, <2>3 DEF LiveRequest
<1>7. LiveScenario'
  <2>1. ASSUME NEW r \in Rid, session'.scenarioRequestId = r, jobs'[r] # None
        PROVE  jobs'[r].kind = "scenario" /\ jobs'[r].src = session'.active
    <3>1. /\ session.scenarioRequestId = r /\ session'.active = session.active
          /\ jobs'[r] = jobs[r]
        BY <1>1, <2>1, NoneAssumption DEF NoneAssumption, Ends, Calmer
    <3> QED
        BY <2>1, <3>1 DEF Inv, LiveScenario
  <2> QED
      BY <2>1 DEF LiveScenario
<1>8. LiveExport'
  <2>1. ASSUME session'.phase = "exporting"
        PROVE  \E r \in Waiting(exporter)' : jobs'[r].model = session'.export.model
    <3>1. PICK r \in Waiting(exporter) : jobs[r].model = session.export.model
        BY <1>2, <2>1 DEF Inv, LiveExport
    <3>2. r \in Rid /\ r \notin R
        BY <2>1, <3>1, OneWaiting DEF Inv, TypeOK
    <3> QED
        BY <1>1, <1>2, <2>1, <3>1, <3>2
  <2> QED
      BY <2>1 DEF LiveExport
<1>9. FreeRids' # {}
  <2>1. FreeRids \subseteq FreeRids'
      BY <1>1, <1>2, NoneAssumption DEF FreeRids, NoneAssumption
  <2> QED
      BY <2>1 DEF Inv
<1> QED
    BY <1>3, <1>4, <1>5, <1>6, <1>7, <1>8, <1>9 DEF Inv

(* The same where one job ends and the teardown is not involved.           *)
LEMMA EndInv ==
    ASSUME Inv, NEW r \in Rid, jobs' = Without({r}),
           Ends(session, session'),
           session'.phase \in WorkingPhase => session.requestId # r,
           session'.phase = "exporting" => r \notin Waiting(exporter),
           analysis' \in Client \cup {None}, exporter' \in Client \cup {None},
           Waiting(analysis)' = Waiting(analysis) \ {r},
           Waiting(exporter)' = Waiting(exporter) \ {r},
           flow' \in Flow, FlowMounted', picker' \in Source \cup {None},
           urls' \subseteq Nat \X Format, UNCHANGED <<clearing, history, refused>>
    PROVE  Inv'
<1>1. /\ lastSource' \in {"none", "attached", "detached"}
      /\ clearing' \in Nat /\ begun' \in Nat /\ prepared' \in Nat
      /\ refused' \subseteq Kind /\ refused' \cap SourceKind = {}
    BY DEF Inv, TypeOK, history
<1>2. /\ {r} \in SUBSET Rid
      /\ session'.phase \in WorkingPhase => session.requestId \notin {r}
      /\ session'.phase = "exporting" => Waiting(exporter) \cap {r} = {}
    OBVIOUS
<1> QED
    BY <1>1, <1>2, CalmInv

LEMMA DropInv ==
    ASSUME Inv, NEW r \in Rid, DropResult(r),
           Ends(session, session'),
           session'.phase \in WorkingPhase => session.requestId # r,
           session'.phase = "exporting" => r \notin Waiting(exporter),
           analysis' \in Client \cup {None}, exporter' \in Client \cup {None},
           Waiting(analysis)' = Waiting(analysis) \ {r},
           Waiting(exporter)' = Waiting(exporter) \ {r}
    PROVE  Inv'
<1>1. /\ jobs' = Without({r}) /\ RenderFlow(session', {})
      /\ UNCHANGED <<urls, clearing, history, refused>>
    BY DEF DropResult
<1>2. flow' \in Flow /\ picker' \in Source \cup {None} /\ FlowMounted'
    BY <1>1, RenderMounted
<1>3. urls' \subseteq Nat \X Format
    BY <1>1 DEF Inv, TypeOK
<1> QED
    BY <1>1, <1>2, <1>3, EndInv

LEMMA FlowKept ==
    ASSUME Inv, flow' = flow, session.phase = "idle" => session'.phase = "idle",
           Waiting(analysis)' \subseteq Waiting(analysis) \/ session.phase # "idle"
    PROVE  flow' \in Flow /\ FlowMounted'
BY DEF Inv, TypeOK, FlowMounted

(* A job of the analysis client that is answered, or fails, is the one in  *)
(* flight.                                                                 *)
LEMMA AnswerFacts ==
    ASSUME Inv, NEW r \in Waiting(analysis)
    PROVE  /\ r \in Rid /\ Waiting(analysis) = {r} /\ r \notin Waiting(exporter)
           /\ analysis \in Client /\ jobs[r] \in Job
           /\ jobs[r].kind # "export" /\ jobs[r].step \in WorkerStep
           /\ Answered(analysis) \in Client /\ Waiting(Answered(analysis)) = {}
<1>1. analysis \in Client /\ r \in Rid /\ Waiting(analysis) = {r}
    BY OneWaiting DEF Inv, TypeOK, Waiting
<1>2. At(r, Kind \ {"export"}, WorkerStep)
    BY <1>1 DEF Inv, JobInFlight
<1>3. jobs[r] \in Job /\ jobs[r].kind # "export" /\ jobs[r].step \in WorkerStep
    BY <1>1, <1>2 DEF At, Inv, TypeOK
<1>4. r \notin Waiting(exporter)
    BY <1>1, <1>3 DEF Inv, JobInFlight, At
<1> QED
    BY <1>1, <1>3, <1>4, ClientFacts

(* A job that waits for the main thread is with no client.                 *)
LEMMA MainFacts ==
    ASSUME Inv, NEW r \in Rid, At(r, Kind, MainStep)
    PROVE  /\ jobs[r] \in Job
           /\ Waiting(analysis) \ {r} = Waiting(analysis)
           /\ Waiting(exporter) \ {r} = Waiting(exporter) /\ r \notin Waiting(exporter)
<1>1. jobs[r] \in Job /\ jobs[r].step \in MainStep
    BY DEF Inv, TypeOK, At
<1>2. r \notin Waiting(analysis) /\ r \notin Waiting(exporter)
    BY <1>1 DEF Inv, JobInFlight, At, MainStep, WorkerStep, Format
<1> QED
    BY <1>1, <1>2

(* A live source job is pending.                                           *)
LEMMA LiveSource ==
    ASSUME Inv, NEW r \in Rid, jobs[r] # None, jobs[r].kind \in SourceKind,
           session.requestId = r
    PROVE  /\ session.phase \in WorkingPhase /\ session.phase \in PendingPhase
           /\ session.pending \in Pending /\ jobs[r].src = session.pending.src
           /\ session.phase = "reading" => jobs[r].step \in {"load", "ingest"}
BY DEF Inv, LiveRequest, WorkingPhase, Sound, Session

LEMMA SourceUnreadableInv ==
    ASSUME Inv, NEW r \in Rid, SourceUnreadable(r)
    PROVE  Inv'
<1>1. /\ At(r, Kind, MainStep) /\ UNCHANGED <<analysis, exporter>> /\ DropResult(r)
    BY DEF SourceUnreadable, At, Kind, MainStep, clients
<1>2. PICK error \in {"plain", "retry"} : session' = RequestFailed(session, r, error)
    BY DEF SourceUnreadable
<1>3. /\ Ends(session, session')
      /\ session'.phase \in WorkingPhase => session.requestId # r
    BY <1>2, FailedSound DEF Inv, WorkingPhase, PendingPhase
<1> QED
    BY <1>1, <1>3, MainFacts, DropInv DEF Inv, TypeOK

(* Only the load of a live upload is handed to the picker.                 *)
LEMMA SourceAmbiguousInv ==
    ASSUME Inv, NEW r \in Rid, SourceAmbiguous(r)
    PROVE  Inv'
<1>1. /\ At(r, Kind, MainStep) /\ jobs[r].kind \in SourceKind
      /\ session' = DeferToPicker(session, r) /\ jobs' = Without({r})
      /\ UNCHANGED <<analysis, exporter, urls, clearing, history, refused>>
    BY DEF SourceAmbiguous, At, Kind, SourceKind, MainStep, clients
<1>2. session.requestId = r => session.phase \in PendingPhase
    BY <1>1, LiveSource DEF At
<1>3. /\ Ends(session, session')
      /\ session'.phase \in WorkingPhase => session.requestId # r
    BY <1>1, <1>2, DeferSound DEF Inv, WorkingPhase, PendingPhase
<1>4. jobs[r].src \in Source
    BY <1>1, MainFacts DEF Job
<1>5. flow' \in Flow /\ picker' \in Source \cup {None} /\ FlowMounted'
  <2>1. CASE flow' = [stage |-> "idle", src |-> jobs[r].src] /\ picker' = None
      BY <1>4, <2>1 DEF Flow, FlowMounted
  <2>2. CASE session' = session /\ picker' = jobs[r].src /\ flow' = flow
      BY <1>1, <1>4, <2>2, FlowKept
  <2> QED
      BY <2>1, <2>2 DEF SourceAmbiguous
<1> QED
    BY <1>1, <1>3, <1>5, MainFacts, EndInv DEF Inv, TypeOK

LEMMA StaleResultInv ==
    ASSUME Inv, NEW r \in Rid, StaleResult(r)
    PROVE  Inv'
<1>1. /\ r \in Waiting(analysis) /\ session.requestId # r
      /\ analysis' = Answered(analysis) /\ session' = session /\ exporter' = exporter
      /\ DropResult(r)
    BY DEF StaleResult, Answers, Superseded
<1>2. Ends(session, session')
    BY <1>1 DEF Inv, Ends, Calmer
<1> QED
    BY <1>1, <1>2, AnswerFacts, DropInv DEF Inv, TypeOK

(* The snapshot of the live source is committed.                           *)
LEMMA AnalyzedInv ==
    ASSUME Inv, NEW r \in Rid, Analyzed(r)
    PROVE  Inv'
<1>1. /\ r \in Waiting(analysis) /\ jobs[r] # None /\ jobs[r].kind \in SourceKind
      /\ session.requestId = r
      /\ session' = AnalyzeDone(session, r, jobs[r].src)
      /\ analysis' = Answered(analysis) /\ exporter' = exporter
      /\ DropResult(r)
    BY DEF Analyzed, Answers, Superseded, At, SourceKind
<1>2. jobs[r].src \in Source /\ session.phase \in PendingPhase
    BY <1>1, AnswerFacts, LiveSource DEF Job
<1>3. Ends(session, session') /\ session'.phase = "ready"
    BY <1>1, <1>2, AnalyzeSound DEF Inv
<1> QED
    BY <1>1, <1>3, AnswerFacts, DropInv DEF Inv, TypeOK, WorkingPhase, PendingPhase

LEMMA AnalysisFailsInv ==
    ASSUME Inv, NEW r \in Rid, AnalysisFails(r)
    PROVE  Inv'
<1>1. /\ r \in Waiting(analysis) /\ jobs' = Without({r})
      /\ UNCHANGED <<exporter, urls, clearing, history, refused>>
    BY DEF AnalysisFails
<1>2. analysis' \in Client \cup {None} /\ Waiting(analysis)' = Waiting(analysis) \ {r}
    BY <1>1, AnswerFacts, ClientFacts DEF AnalysisFails
<1>3. /\ Ends(session, session')
      /\ session'.phase \in WorkingPhase => session.requestId # r
      /\ jobs[r].kind = "flow" => session' = session
  <2>1. CASE jobs[r].kind \in SourceKind
        /\ \E error \in {"plain", "retry"} : session' = RequestFailed(session, r, error)
      BY <2>1, FailedSound DEF Inv, WorkingPhase, PendingPhase, SourceKind
  <2>2. CASE jobs[r].kind = "scenario" /\ session' = ScenarioFailed(session, r)
    <3>1. jobs[r] # None /\ jobs[r].kind \notin SourceKind \cup {"export"}
        BY <1>1, <2>2, AnswerFacts, RidAssumption DEF RidAssumption, SourceKind
    <3>2. session.requestId # r
        BY <3>1 DEF Inv, LiveRequest
    <3> QED
        BY <2>2, <3>2, ScenarioFails DEF Inv
  <2>3. CASE jobs[r].kind = "flow" /\ session' = session
    <3>1. jobs[r] # None /\ jobs[r].kind \notin SourceKind \cup {"export"}
        BY <1>1, <2>3, AnswerFacts, RidAssumption DEF RidAssumption, SourceKind
    <3>2. session.requestId # r
        BY <3>1 DEF Inv, LiveRequest
    <3> QED
        BY <2>3, <3>2 DEF Inv, Ends, Calmer
  <2> QED
      BY <2>1, <2>2, <2>3 DEF AnalysisFails
<1>4. flow' \in Flow /\ picker' \in Source \cup {None} /\ FlowMounted'
  <2>1. CASE RenderFlow(session', {})
      BY <1>2, <2>1, RenderMounted
  <2>2. CASE FlowAwaits(r) /\ flow' = [flow EXCEPT !.stage = "error"] /\ UNCHANGED picker
    <3>1. session' = session /\ flow.stage = "parsing"
        BY <1>3, <2>2 DEF FlowAwaits
    <3> QED
        BY <2>2, <3>1 DEF Inv, TypeOK, Flow, FlowMounted
  <2> QED
      BY <2>1, <2>2 DEF AnalysisFails
<1>5. urls' \subseteq Nat \X Format
    BY <1>1 DEF Inv, TypeOK
<1> QED
    BY <1>1, <1>2, <1>3, <1>4, <1>5, AnswerFacts, EndInv DEF Inv, TypeOK

LEMMA FlowProfiledInv ==
    ASSUME Inv, NEW r \in Rid, FlowProfiled(r)
    PROVE  Inv'
<1>1. /\ r \in Waiting(analysis) /\ At(r, {"flow"}, {"profile"})
      /\ analysis' = Answered(analysis) /\ jobs' = Without({r})
      /\ UNCHANGED <<session, exporter, picker, urls, clearing, history, refused>>
    BY DEF FlowProfiled, Answers
<1>2. session.requestId # r
    BY <1>1, AnswerFacts DEF Inv, LiveRequest, At, SourceKind
<1>3. Ends(session, session')
    BY <1>1 DEF Inv, Ends, Calmer
<1>4. flow' \in Flow /\ FlowMounted'
  <2>1. CASE FlowAwaits(r) /\ flow' = [flow EXCEPT !.stage = "review"]
      BY <1>1, <2>1, AnswerFacts DEF Inv, TypeOK, Flow, FlowMounted, FlowAwaits
  <2>2. CASE flow' = flow
      BY <1>1, <2>2, AnswerFacts, FlowKept
  <2> QED
      BY <2>1, <2>2 DEF FlowProfiled
<1> QED
    BY <1>1, <1>2, <1>3, <1>4, AnswerFacts, EndInv DEF Inv, TypeOK

(* The scenario that arrives was computed on the committed dataset.        *)
LEMMA ScenarioAnsweredInv ==
    ASSUME Inv, NEW r \in Rid, ScenarioAnswered(r)
    PROVE  Inv'
<1>1. /\ r \in Waiting(analysis) /\ At(r, {"scenario"}, {"scenario"})
      /\ session' = ScenarioDone(session, r, jobs[r].src)
      /\ analysis' = Answered(analysis) /\ jobs' = Without({r})
      /\ UNCHANGED <<exporter, flow, picker, urls, clearing, history, refused>>
    BY DEF ScenarioAnswered, Answers, Kept
<1>2. session.requestId # r
    BY <1>1, AnswerFacts DEF Inv, LiveRequest, At, SourceKind
<1>3. /\ jobs[r].src \in Source
      /\ session.scenarioRequestId = r => jobs[r].src = session.active
    BY <1>1, AnswerFacts DEF Inv, LiveScenario, At, Job
<1>4. Ends(session, session') /\ session'.phase = session.phase
    BY <1>1, <1>3, AnswerFacts, ScenarioEnds DEF Inv
<1>5. flow' \in Flow /\ FlowMounted'
    BY <1>1, <1>4, AnswerFacts, FlowKept
<1> QED
    BY <1>1, <1>2, <1>4, <1>5, AnswerFacts, EndInv DEF Inv, TypeOK

(* Steps that end no job.                                                  *)
LEMMA StillInv ==
    ASSUME Inv, UNCHANGED <<jobs, history, refused>>, Ends(session, session'),
           analysis' \in Client \cup {None}, exporter' \in Client \cup {None},
           Waiting(analysis)' = Waiting(analysis), Waiting(exporter)' = Waiting(exporter),
           flow' \in Flow, FlowMounted', picker' \in Source \cup {None},
           urls' \subseteq Nat \X Format, clearing' \in Nat
    PROVE  Inv'
<1>1. jobs' = Without({})
    BY DEF Without, Inv, TypeOK
<1>2. /\ lastSource' \in {"none", "attached", "detached"}
      /\ begun' \in Nat /\ prepared' \in Nat
      /\ refused' \subseteq Kind /\ refused' \cap SourceKind = {}
    BY DEF Inv, TypeOK, history
<1>3. /\ {} \in SUBSET Rid /\ session.requestId \notin {}
      /\ Waiting(exporter) \cap {} = {}
      /\ Waiting(analysis)' = Waiting(analysis) \ {}
      /\ Waiting(exporter)' = Waiting(exporter) \ {}
    OBVIOUS
<1> QED
    BY <1>1, <1>2, <1>3, CalmInv

LEMMA IdleCrashInv ==
    ASSUME Inv, IdleCrash
    PROVE  Inv'
<1>1. /\ analysis # None /\ analysis.inFlight = None /\ analysis' = Cancelled(analysis)
      /\ UNCHANGED <<session, jobs, exporter, flow, picker, urls, clearing, history, refused>>
    BY DEF IdleCrash
<1>2. analysis' \in Client \cup {None} /\ Waiting(analysis)' = {} /\ Waiting(analysis) = {}
    BY <1>1, ClientFacts DEF Inv, TypeOK, Waiting
<1>3. Ends(session, session') /\ flow' \in Flow /\ FlowMounted'
    BY <1>1, <1>2, FlowKept DEF Inv, Ends, Calmer
<1> QED
    BY <1>1, <1>2, <1>3, StillInv DEF Inv, TypeOK

LEMMA ResetScenarioInv ==
    ASSUME Inv, ResetScenario
    PROVE  Inv'
<1>1. /\ session.phase \in DatasetPhase /\ session' = ScenarioReset(session)
      /\ UNCHANGED <<jobs, analysis, exporter, flow, picker, urls, clearing, history, refused>>
    BY DEF ResetScenario, Kept
<1>2. session' = [session EXCEPT !.scenario = None, !.scenarioRequestId = None]
    BY <1>1 DEF ScenarioReset
<1>3. /\ session'.phase = session.phase /\ session'.active = session.active
      /\ session'.requestId = session.requestId /\ session'.pending = session.pending
      /\ session'.scenarioRequestId = None /\ session'.export = session.export
      /\ session'.scenario = None /\ session'.revision = session.revision
      /\ session' \in Session
    BY <1>2 DEF Inv, Sound, Session
<1>4. Ends(session, session')
    BY <1>3 DEF Inv, Sound, CurrentEpoch, Ends, Calmer
<1>5. flow' \in Flow /\ FlowMounted'
    BY <1>1, <1>3, FlowKept
<1> QED
    BY <1>1, <1>4, <1>5, StillInv DEF Inv, TypeOK

LEMMA ReplayInv ==
    ASSUME Inv, ReplaySession
    PROVE  Inv'
<1>1. /\ session.phase = "ready" /\ session' = Replay(session)
      /\ UNCHANGED <<jobs, analysis, exporter, flow, picker, urls, clearing, history, refused>>
    BY DEF ReplaySession, ExportVars
<1>2. Ends(session, session')
    BY <1>1, ReplaySound DEF Inv
<1>3. flow' \in Flow /\ FlowMounted'
    BY <1>1, FlowKept
<1> QED
    BY <1>1, <1>2, <1>3, StillInv DEF Inv, TypeOK

-----------------------------------------------------------------------------
(* Cancelling and teardown                                                 *)

(* The live work is cancelled at the reducer first.                        *)
LEMMA LiveWorkEnds ==
    ASSUME NEW s, Sound(s)
    PROVE  /\ Ends(s, LiveWorkCancelled(s)) /\ LiveWorkCancelled(s).active = s.active
           /\ LiveWorkCancelled(s).scenarioRequestId = None
<1> DEFINE t == IF s.requestId = None THEN s ELSE RequestCancelled(s, s.requestId)
<1>1. s.requestId \in Rid \cup {None} /\ s.scenarioRequestId \in Rid \cup {None}
    BY DEF Sound, Session
<1>2. Ends(s, t) /\ t.active = s.active
    BY <1>1, CancelledSound DEF Ends, Calmer
<1>3. t.scenarioRequestId \in Rid \cup {None}
    BY <1>2 DEF Ends, Sound, Session
<1>4. LiveWorkCancelled(s) = IF t.scenarioRequestId = None THEN t
                             ELSE ScenarioFailed(t, t.scenarioRequestId)
    BY DEF LiveWorkCancelled
<1> HIDE DEF t
<1>5. CASE t.scenarioRequestId = None
    BY <1>2, <1>4, <1>5
<1>6. CASE t.scenarioRequestId # None
  <2>1. /\ Ends(t, LiveWorkCancelled(s)) /\ LiveWorkCancelled(s).active = t.active
        /\ LiveWorkCancelled(s).scenarioRequestId = None
      BY <1>2, <1>3, <1>4, <1>6, ScenarioFails DEF Ends
  <2> QED
      BY <1>2, <2>1, CalmerTransitive DEF Ends
<1> QED
    BY <1>5, <1>6

(* Jobs that are cancelled are those of both clients, in full.             *)
LEMMA CancelledFacts ==
    ASSUME Inv
    PROVE  /\ CancelledJobs \in SUBSET Rid
           /\ Waiting(analysis) \ CancelledJobs = {} /\ Waiting(exporter) \ CancelledJobs = {}
           /\ Cancelled(analysis) \in Client \cup {None}
           /\ Cancelled(exporter) \in Client \cup {None}
           /\ Waiting(Cancelled(analysis)) = {} /\ Waiting(Cancelled(exporter)) = {}
BY ClientFacts, OneWaiting DEF Inv, TypeOK, CancelledJobs

LEMMA CancelWorkInv ==
    ASSUME Inv, CancelWork
    PROVE  Inv'
<1>1. /\ session' = AfterRejecting(AfterRejecting(LiveWorkCancelled(session),
                                                  Waiting(analysis)), Waiting(exporter))
      /\ analysis' = Cancelled(analysis) /\ exporter' = Cancelled(exporter)
      /\ jobs' = Without(CancelledJobs) /\ RenderFlow(session', CancelledJobs)
      /\ UNCHANGED <<urls, clearing, history, refused>>
    BY DEF CancelWork, CancelClients
<1>2. /\ Ends(session, session')
      /\ session'.phase \in WorkingPhase => session.requestId \notin CancelledJobs
      /\ session'.phase = "exporting" => Waiting(exporter) \cap CancelledJobs = {}
    BY <1>1, LiveWorkEnds, BothRejected DEF Inv
<1>3. flow' \in Flow /\ picker' \in Source \cup {None} /\ FlowMounted'
    BY <1>1, CancelledFacts, RenderMounted
<1> QED
    BY <1>1, <1>2, <1>3, CancelledFacts, CalmInv DEF Inv, TypeOK, history

(* Clients that are disposed of take their jobs along; the session follows *)
(* at once or when the grace of the workers ends.                          *)
LEMMA ClearSessionInv ==
    ASSUME Inv, ClearSession
    PROVE  Inv'
<1> DEFINE s == AfterRejecting(AfterRejecting(session, Waiting(analysis)), Waiting(exporter))
<1>1. /\ analysis' = None /\ exporter' = None
      /\ jobs' = Without(CancelledJobs) /\ RenderFlow(session', CancelledJobs)
      /\ urls' = {} /\ UNCHANGED <<history, refused>>
      /\ session' \in {s, InitialSession} /\ clearing' \in {clearing, clearing + 1}
    BY DEF ClearSession
<1>2. /\ Ends(session, s)
      /\ s.phase \in WorkingPhase => session.requestId \notin CancelledJobs
      /\ s.phase = "exporting" => Waiting(exporter) \cap CancelledJobs = {}
  <2>1. Ends(session, session)
      BY DEF Inv, Ends, Calmer
  <2> QED
      BY <2>1, BothRejected
<1>3. /\ Ends(session, InitialSession)
      /\ InitialSession.phase \notin WorkingPhase \cup {"exporting"}
    BY InitialSound DEF Ends, InitialSession, WorkingPhase, PendingPhase
<1> HIDE DEF s
<1>4. Waiting(analysis)' = {} /\ Waiting(exporter)' = {}
    BY <1>1 DEF Waiting
<1>5. flow' \in Flow /\ picker' \in Source \cup {None} /\ FlowMounted'
    BY <1>1, <1>4, RenderMounted
<1>6. clearing' \in Nat
    BY <1>1 DEF Inv, TypeOK
<1> QED
    BY <1>1, <1>2, <1>3, <1>4, <1>5, <1>6, CancelledFacts, CalmInv DEF Inv, TypeOK, history

LEMMA ClearEndsInv ==
    ASSUME Inv, ClearEnds
    PROVE  Inv'
<1>1. /\ session' = InitialSession /\ flow' = NoFlow /\ clearing' = clearing - 1 /\ clearing > 0
      /\ UNCHANGED <<jobs, analysis, exporter, picker, urls, history, refused>>
    BY DEF ClearEnds, clients
<1>2. Ends(session, session')
    BY <1>1, InitialSound DEF Ends
<1>3. flow' \in Flow /\ FlowMounted' /\ clearing' \in Nat
    BY <1>1 DEF NoFlow, Flow, FlowMounted, Inv, TypeOK
<1> QED
    BY <1>1, <1>2, <1>3, StillInv DEF Inv, TypeOK

(* The flow that is aborted loses the request of the client.               *)
LEMMA FlowAbortInv ==
    ASSUME Inv, FlowAbort
    PROVE  Inv'
<1>1. /\ session.phase = "idle" /\ session' = AfterRejecting(session, Waiting(analysis))
      /\ analysis' = Cancelled(analysis) /\ jobs' = Without(Waiting(analysis))
      /\ flow' = NoFlow
      /\ UNCHANGED <<exporter, picker, urls, clearing, history, refused>>
    BY DEF FlowAbort
<1>2. Ends(session, session')
    BY <1>1, AfterRejectingEnds DEF Inv, TypeOK
<1>3. session'.phase \notin WorkingPhase \cup {"exporting"}
    BY <1>1, <1>2, CalmerPending DEF Ends, WorkingPhase, PendingPhase
<1>4. /\ Waiting(analysis) \in SUBSET Rid
      /\ Waiting(exporter) \ Waiting(analysis) = Waiting(exporter)
    BY OneWaiting DEF Inv, TypeOK, JobInFlight, At
<1>5. analysis' \in Client \cup {None} /\ Waiting(analysis)' = Waiting(analysis) \ Waiting(analysis)
    BY <1>1, ClientFacts DEF Inv, TypeOK
<1>6. flow' \in Flow /\ FlowMounted'
    BY <1>1 DEF NoFlow, Flow, FlowMounted
<1> QED
    BY <1>1, <1>2, <1>3, <1>4, <1>5, <1>6, CalmInv DEF Inv, TypeOK, history

(* The cancelled export leaves what is pending alone, but for the source   *)
(* that is live when the dialog of an older export is cancelled.           *)
LEMMA CancelExportInv ==
    ASSUME Inv, CancelExport
    PROVE  Inv'
<1> DEFINE s == IF session.requestId = None THEN session
                ELSE RequestCancelled(session, session.requestId)
<1>1. /\ session' = AfterRejecting(s, Waiting(exporter))
      /\ exporter' = Cancelled(exporter) /\ jobs' = Without(Waiting(exporter))
      /\ RenderFlow(session', {})
      /\ UNCHANGED <<analysis, urls, clearing, history, refused>>
    BY DEF CancelExport
<1>2. /\ Ends(session, s)
      /\ session.requestId = None \/ s.phase \in {"idle", "ready"}
  <2>1. session.requestId \in Rid \cup {None}
      BY DEF Inv, Sound, Session
  <2> QED
      BY <2>1, CancelledSound DEF Inv, Ends, Calmer
<1> HIDE DEF s
<1>3. /\ Ends(s, session')
      /\ \A r \in Waiting(exporter) : jobs[r].kind = "export" => session'.phase # "exporting"
    BY <1>1, <1>2, AfterRejectingEnds DEF Ends, Inv, TypeOK
<1>4. /\ Waiting(exporter) \in SUBSET Rid
      /\ Waiting(analysis) \ Waiting(exporter) = Waiting(analysis)
      /\ \A r \in Waiting(exporter) : jobs[r].kind = "export"
    BY OneWaiting DEF Inv, TypeOK, JobInFlight, At
<1>5. Ends(session, session')
    BY <1>2, <1>3, CalmerTransitive DEF Ends
<1>6. session'.phase \in WorkingPhase => session.requestId \notin Waiting(exporter)
    BY <1>2, <1>3, <1>4, CalmerPending, NoneAssumption
       DEF Ends, WorkingPhase, PendingPhase, NoneAssumption
<1>7. session'.phase = "exporting" => Waiting(exporter) \cap Waiting(exporter) = {}
    BY <1>3, <1>4
<1>8. exporter' \in Client \cup {None} /\ Waiting(exporter)' = Waiting(exporter) \ Waiting(exporter)
    BY <1>1, ClientFacts DEF Inv, TypeOK
<1>9. flow' \in Flow /\ picker' \in Source \cup {None} /\ FlowMounted'
    BY <1>1, RenderMounted
<1> QED
    BY <1>1, <1>4, <1>5, <1>6, <1>7, <1>8, <1>9, CalmInv DEF Inv, TypeOK, history

-----------------------------------------------------------------------------
(* Sources                                                                 *)

(* A source cancels what was at work, and its load is the live request.    *)
LEMMA BeginInv ==
    ASSUME Inv, NEW kind \in SourceKind, BeginSource(kind),
           lastSource' \in {"none", "attached", "detached"}
    PROVE  Inv'
<1> DEFINE src == begun + 1
           q == NewRid
           job == SourceJob(kind, "load", src)
           s == RequestStart(SourceBegin(LiveWorkCancelled(session), kind, src), q)
<1>1. /\ session' = AfterRejecting(AfterRejecting(s, Waiting(analysis)), Waiting(exporter))
      /\ analysis' = Cancelled(analysis) /\ exporter' = Cancelled(exporter)
      /\ jobs' = WithJob(Without(CancelledJobs), q, job)
      /\ begun' = begun + 1 /\ urls' = {} /\ flow' = NoFlow
      /\ UNCHANGED <<picker, clearing, prepared, refused>>
    BY DEF BeginSource, CancelClients
<1>2. /\ q \in Rid /\ jobs[q] = None
      /\ q # session.requestId /\ q # session.scenarioRequestId
    BY NewRidFree DEF Inv
<1>3. \E x \in FreeRids : x # q
    BY ReserveKept DEF BeginSource
<1>4. src \in Source
    BY DEF Inv, TypeOK, Source
<1>5. /\ job \in Job /\ job # None /\ job.kind = kind /\ job.step = "load" /\ job.src = src
  <2>1. job \in Job /\ job.kind = kind /\ job.step = "load" /\ job.src = src
      BY <1>4 DEF SourceJob, Job, Kind, MainStep
  <2> QED
      BY <2>1, RidAssumption DEF RidAssumption
<1>6. /\ Sound(s) /\ s.phase = "reading" /\ s.requestId = q /\ s.pending.src = src
      /\ s.scenarioRequestId = None
  <2>1. Sound(LiveWorkCancelled(session)) /\ LiveWorkCancelled(session).scenarioRequestId = None
      BY LiveWorkEnds DEF Inv, Ends
  <2> HIDE DEF src, q
  <2>2. /\ Sound(s) /\ s.phase = "reading" /\ s.requestId = q
        /\ s.pending = [kind |-> kind, src |-> src, parsed |-> FALSE]
        /\ s.scenarioRequestId = LiveWorkCancelled(session).scenarioRequestId
      BY <1>2, <1>4, <2>1, BeginSound
  <2> QED
      BY <2>1, <2>2
<1> HIDE DEF src, q, job, s
<1>7. session' = s
  <2>1. /\ analysis \in Client \cup {None} /\ exporter \in Client \cup {None}
        /\ q \notin Waiting(analysis) /\ q \notin Waiting(exporter)
        /\ None \notin Waiting(analysis) /\ None \notin Waiting(exporter)
      BY <1>2, OneWaiting, NoneAssumption DEF Inv, TypeOK, JobInFlight, At, NoneAssumption
  <2>2. AfterRejecting(s, Waiting(analysis)) = s
      BY <1>6, <2>1, AfterRejectingEnds DEF DatasetPhase
  <2>3. AfterRejecting(s, Waiting(exporter)) = s
      BY <1>6, <2>1, AfterRejectingEnds DEF DatasetPhase
  <2> QED
      BY <1>1, <2>2, <2>3
<1>8. /\ jobs' \in [Rid -> Job \cup {None}]
      /\ \A x \in Rid : jobs'[x] = IF x = q THEN job
                                   ELSE IF x \in CancelledJobs THEN None ELSE jobs[x]
  <2>1. jobs' = [Without(CancelledJobs) EXCEPT ![q] = job]
      BY <1>1 DEF WithJob
  <2>2. Without(CancelledJobs) \in [Rid -> Job \cup {None}]
      BY DEF Without, Inv, TypeOK
  <2> QED
      BY <1>2, <1>5, <2>1, <2>2 DEF Without
<1>9. /\ analysis' \in Client \cup {None} /\ Waiting(analysis)' = {}
      /\ exporter' \in Client \cup {None} /\ Waiting(exporter)' = {}
    BY <1>1, CancelledFacts
<1>10. TypeOK' /\ Sound(session)'
    BY <1>1, <1>4, <1>6, <1>7, <1>8, <1>9 DEF Inv, TypeOK, Sound, NoFlow, Flow, src, Source
<1>11. JobShape'
    BY <1>5, <1>8 DEF Inv, JobShape, Shaped, SourceKind
<1>12. JobInFlight'
  <2>1. job.step \notin WorkerStep \cup Format
      BY <1>5 DEF WorkerStep, Format
  <2> QED
      BY <1>8, <1>9, <2>1 DEF Inv, JobInFlight, At, CancelledJobs
<1>13. LiveRequest'
    BY <1>2, <1>5, <1>6, <1>7, <1>8, <1>9
       DEF LiveRequest, At, WorkingPhase, PendingPhase, MainStep
<1>14. LiveScenario' /\ LiveExport' /\ FlowMounted'
    BY <1>1, <1>6, <1>7, NoneAssumption
       DEF LiveScenario, LiveExport, FlowMounted, NoFlow, NoneAssumption
<1>15. FreeRids' # {}
  <2>1. PICK x \in FreeRids : x # q
      BY <1>3
  <2>2. x \in FreeRids'
      BY <1>6, <1>7, <1>8, <2>1, NoneAssumption DEF FreeRids, NoneAssumption
  <2> QED
      BY <2>2
<1> QED
    BY <1>1, <1>10, <1>11, <1>12, <1>13, <1>14, <1>15 DEF Inv

(* The job q of a source goes on: it is the live request, and the one that *)
(* the analysis client has in flight once the jobs R are gone.             *)
LEMMA SourceStep ==
    ASSUME Inv, NEW q \in Rid, NEW R \in SUBSET Rid, NEW job \in Job,
           job.kind \in SourceKind, job.step \in AnalysisSteps,
           jobs' \in [Rid -> Job \cup {None}],
           \A x \in Rid : jobs'[x] = IF x = q THEN job ELSE IF x \in R THEN None ELSE jobs[x],
           Waiting(analysis) \subseteq R \cup {q}, Waiting(exporter) \cap (R \cup {q}) = {},
           analysis' \in Client, Waiting(analysis)' = {q}, exporter' = exporter,
           Sound(session'), session'.requestId = q, session'.phase \in WorkingPhase,
           session'.pending.src = job.src,
           session'.phase = "reading" => job.step = "ingest",
           session'.scenarioRequestId = session.scenarioRequestId,
           session'.active = session.active, session.scenarioRequestId # q,
           FreeRids' # {},
           flow' \in Flow, FlowMounted', picker' \in Source \cup {None},
           lastSource' \in {"none", "attached", "detached"},
           urls' \subseteq Nat \X Format,
           clearing' = clearing, begun' = begun, prepared' = prepared, refused' = refused
    PROVE  Inv'
<1>1. TypeOK'
    BY DEF Inv, TypeOK, Sound
<1>2. job # None
    BY RidAssumption DEF RidAssumption
<1>3. JobShape'
    BY DEF Inv, JobShape, Shaped, SourceKind
<1>4. JobInFlight'
  <2>1. job.step \in WorkerStep /\ job.kind \in Kind \ {"export"}
      BY DEF AnalysisSteps, WorkerStep, SourceKind, Kind
  <2> QED
      BY <1>2, <2>1 DEF Inv, JobInFlight, At
<1>5. LiveRequest'
    BY <1>2 DEF LiveRequest, At, WorkingPhase, PendingPhase, AnalysisSteps, WorkerStep
<1>6. LiveScenario'
    BY DEF Inv, LiveScenario
<1>7. LiveExport'
    BY DEF LiveExport, WorkingPhase, PendingPhase
<1> QED
    BY <1>1, <1>3, <1>4, <1>5, <1>6, <1>7 DEF Inv

(* A step of the client that is free for it.                               *)
LEMMA RequestFacts ==
    ASSUME NEW client \in Client, Waiting(client) = {}, NEW q \in Rid, NEW step,
           NEW s, NEW js \in [Rid -> Job \cup {None}], js[q] \in Job,
           step \in AnalysisSteps,
           RequestOn(client, s, js, q, step)
    PROVE  /\ analysis' \in Client /\ Waiting(analysis)' = {q}
           /\ session' = s /\ refused' = refused
           /\ jobs' = [js EXCEPT ![q].step = step]
           /\ jobs' \in [Rid -> Job \cup {None}]
           /\ jobs'[q] \in Job /\ jobs'[q].step = step
           /\ jobs'[q].kind = js[q].kind /\ jobs'[q].src = js[q].src
           /\ \A x \in Rid \ {q} : jobs'[x] = js[x]
<1>1. /\ analysis' = Posted(client, q) /\ session' = s /\ refused' = refused
      /\ jobs' = [js EXCEPT ![q].step = step]
    BY DEF RequestOn, Step
<1>2. step \in WorkerStep
    BY DEF AnalysisSteps, WorkerStep
<1> DEFINE job == [js[q] EXCEPT !.step = step]
<1>3. job \in Job /\ job.step = step /\ job.kind = js[q].kind /\ job.src = js[q].src
    BY <1>2 DEF Job
<1>4. jobs' = [js EXCEPT ![q] = job]
    BY <1>1
<1> HIDE DEF job
<1>5. /\ jobs' \in [Rid -> Job \cup {None}] /\ jobs'[q] = job
      /\ \A x \in Rid \ {q} : jobs'[x] = js[x]
    BY <1>3, <1>4
<1> QED
    BY <1>1, <1>3, <1>5, ClientFacts

(* The live request is no scenario's.                                      *)
LEMMA SourceIsNoScenario ==
    ASSUME Inv, NEW r \in Rid, jobs[r] # None, jobs[r].kind \in SourceKind
    PROVE  session.scenarioRequestId # r
BY DEF Inv, LiveScenario, SourceKind

(* A live load finds the client free, whichever client it is.              *)
LEMMA LiveLoad ==
    ASSUME Inv, NEW r \in Rid, SourceLoaded(r), session.requestId = r
    PROVE  /\ Waiting(analysis) = {}
           /\ \E client \in Client : /\ Waiting(client) = {}
                                     /\ RequestOn(client, session, jobs, r, "ingest")
           /\ RenderFlow(session', {})
           /\ lastSource' \in {"detached", lastSource}
           /\ UNCHANGED <<urls, clearing, begun, prepared>>
<1> DEFINE opts == IF jobs[r].kind = "sample" THEN Manifest ELSE Default
           client == EnsureAnalysis(analysis, opts)
           lost == IF client = analysis THEN {} ELSE Waiting(analysis)
<1>1. /\ At(r, Kind, MainStep) /\ jobs[r] # None /\ jobs[r].kind \in SourceKind
    BY DEF SourceLoaded, At, Kind, SourceKind, MainStep
<1>2. /\ RequestOn(client, AfterRejecting(session, lost), Without(lost), r, "ingest")
      /\ RenderFlow(session', lost)
      /\ lastSource' \in {"detached", lastSource}
      /\ UNCHANGED <<urls, clearing, begun, prepared>>
    BY DEF SourceLoaded, Superseded
<1>3. Waiting(analysis) = {}
  <2>1. Waiting(analysis) \subseteq {r}
      BY <1>1, LiveSource DEF Inv, LiveRequest
  <2>2. r \notin Waiting(analysis)
      BY <1>1, MainFacts
  <2> QED
      BY <2>1, <2>2
<1>4. client \in Client /\ Waiting(client) = {}
  <2>1. opts \in Options
      BY OptionsAssumption DEF OptionsAssumption
  <2>2. FreshClient(opts) \in Client /\ Waiting(FreshClient(opts)) = {}
      BY <2>1, ClientFacts
  <2> QED
      BY <1>3, <2>2 DEF EnsureAnalysis, Inv, TypeOK
<1>5. lost = {}
    BY <1>3
<1>6. AfterRejecting(session, lost) = session /\ Without(lost) = jobs
    BY <1>5 DEF AfterRejecting, Without, Inv, TypeOK
<1> HIDE DEF client, lost
<1> QED
    BY <1>2, <1>3, <1>4, <1>5, <1>6

LEMMA SourceLoadedInv ==
    ASSUME Inv, NEW r \in Rid, SourceLoaded(r)
    PROVE  Inv'
<1>1. /\ At(r, Kind, MainStep) /\ jobs[r] # None /\ jobs[r].kind \in SourceKind
      /\ jobs[r].step = "load" /\ exporter' = exporter
    BY DEF SourceLoaded, At, Kind, SourceKind, MainStep
<1>2. CASE session.requestId # r
  <2>1. session' = session /\ analysis' = analysis /\ DropResult(r)
      BY <1>2 DEF SourceLoaded, Superseded
  <2>2. Ends(session, session')
      BY <2>1 DEF Inv, Ends, Calmer
  <2> QED
      BY <1>1, <1>2, <2>1, <2>2, MainFacts, DropInv DEF Inv, TypeOK
<1>3. CASE session.requestId = r
  <2>1. /\ Waiting(analysis) = {} /\ RenderFlow(session', {})
        /\ lastSource' \in {"detached", lastSource}
        /\ UNCHANGED <<urls, clearing, begun, prepared>>
      BY <1>3, LiveLoad
  <2>2. /\ session.phase \in WorkingPhase /\ session.phase # "idle"
        /\ session.pending.src = jobs[r].src
      BY <1>1, <1>3, LiveSource DEF WorkingPhase, PendingPhase
  <2>3. PICK client \in Client : /\ Waiting(client) = {}
                                 /\ RequestOn(client, session, jobs, r, "ingest")
      BY <1>3, LiveLoad
  <2>4. /\ analysis' \in Client /\ Waiting(analysis)' = {r}
        /\ session' = session /\ refused' = refused
        /\ jobs' \in [Rid -> Job \cup {None}]
        /\ jobs'[r] \in Job /\ jobs'[r].step = "ingest"
        /\ jobs'[r].kind = jobs[r].kind /\ jobs'[r].src = jobs[r].src
        /\ \A x \in Rid \ {r} : jobs'[x] = jobs[x]
    <3>1. jobs \in [Rid -> Job \cup {None}] /\ jobs[r] \in Job /\ "ingest" \in AnalysisSteps
        BY <1>1, MainFacts DEF Inv, TypeOK, AnalysisSteps
    <3> QED
        BY <2>3, <3>1, RequestFacts
  <2>5. flow' \in Flow /\ picker' \in Source \cup {None} /\ FlowMounted'
      BY <2>1, <2>2, RenderMounted
  <2>6. FreeRids' # {}
    <3>1. FreeRids \subseteq FreeRids'
        BY <1>1, <2>4 DEF FreeRids
    <3> QED
        BY <3>1 DEF Inv
  <2>7. /\ \A x \in Rid : jobs'[x] = IF x = r THEN jobs'[r] ELSE IF x \in {} THEN None ELSE jobs[x]
        /\ Waiting(analysis) \subseteq {} \cup {r}
        /\ Waiting(exporter) \cap ({} \cup {r}) = {}
        /\ {} \in SUBSET Rid /\ "ingest" \in AnalysisSteps
      BY <1>1, <2>1, <2>4, MainFacts DEF AnalysisSteps
  <2>8. session.scenarioRequestId # r /\ Sound(session)
      BY <1>1, SourceIsNoScenario DEF Inv
  <2>9. lastSource' \in {"none", "attached", "detached"} /\ urls' \subseteq Nat \X Format
      BY <2>1 DEF Inv, TypeOK
  <2> QED
      BY <1>1, <1>3, <2>1, <2>2, <2>4, <2>5, <2>6, <2>7, <2>8, <2>9, SourceStep, SMTT(40)
<1> QED
    BY <1>2, <1>3

(* The job moves to the id q as it is.                                     *)
LEMMA RotatedFacts ==
    ASSUME Inv, NEW r \in Rid, NEW q \in Rid, q # r
    PROVE  /\ Rotated(r, q) \in [Rid -> Job \cup {None}] /\ Rotated(r, q)[q] = jobs[r]
           /\ \A x \in Rid \ {q} : Rotated(r, q)[x] = IF x = r THEN None ELSE jobs[x]
BY DEF Rotated, Inv, TypeOK

(* A step of the live pipeline on the client that has just answered it:    *)
(* the job moves on under a new id q.                                      *)
LEMMA PipelineInv ==
    ASSUME Inv, NEW r \in Waiting(analysis), jobs[r].kind \in SourceKind,
           session.requestId = r,
           NEW q \in Rid, jobs[q] = None, session.scenarioRequestId # q,
           NEW s, Sound(s), s.requestId = q, s.phase \in WorkingPhase \ {"reading"},
           s.pending.src = jobs[r].src, s.active = session.active,
           s.scenarioRequestId = session.scenarioRequestId,
           NEW step \in AnalysisSteps, NEW client \in Client, Waiting(client) = {},
           NEW js \in [Rid -> Job \cup {None}], js[q] = jobs[r],
           \A x \in Rid \ {q} : js[x] = IF x = r THEN None ELSE jobs[x],
           RequestOn(client, s, js, q, step),
           UNCHANGED <<exporter, flow, picker, urls, clearing, history>>
    PROVE  Inv'
<1>1. /\ r \in Rid /\ jobs[r] \in Job /\ jobs[r] # None /\ Waiting(analysis) = {r}
      /\ r \notin Waiting(exporter)
    BY AnswerFacts, RidAssumption DEF RidAssumption
<1>2. js[q] \in Job
    BY <1>1
<1>3. /\ analysis' \in Client /\ Waiting(analysis)' = {q}
      /\ session' = s /\ refused' = refused
      /\ jobs' \in [Rid -> Job \cup {None}]
      /\ jobs'[q] \in Job /\ jobs'[q].step = step
      /\ jobs'[q].kind = js[q].kind /\ jobs'[q].src = js[q].src
      /\ \A x \in Rid \ {q} : jobs'[x] = js[x]
    BY <1>1, <1>2, RequestFacts
<1>4. /\ \A x \in Rid : jobs'[x] = IF x = q THEN jobs'[q] ELSE IF x \in {r} THEN None ELSE jobs[x]
      /\ {r} \in SUBSET Rid
      /\ Waiting(analysis) \subseteq {r} \cup {q}
    BY <1>1, <1>2, <1>3
<1>5. Waiting(exporter) \cap ({r} \cup {q}) = {}
    BY <1>1 DEF Inv, JobInFlight, At
<1>6. session.phase \in WorkingPhase /\ session.phase # "idle" /\ session.scenarioRequestId # r
    BY <1>1, LiveSource, SourceIsNoScenario DEF WorkingPhase, PendingPhase
<1>7. flow' \in Flow /\ FlowMounted'
    BY <1>3, <1>6 DEF Inv, TypeOK, FlowMounted
<1>8. FreeRids' # {}
  <2>1. q # r
      BY <1>1
  <2> QED
      BY <1>1, <1>3, <1>4, <1>6, <2>1 DEF FreeRids
<1>9. /\ lastSource' \in {"none", "attached", "detached"} /\ urls' \subseteq Nat \X Format
      /\ picker' \in Source \cup {None} /\ begun' = begun /\ prepared' = prepared
    BY DEF Inv, TypeOK, history
<1>10. /\ session.scenarioRequestId # q
       /\ session'.phase # "reading" /\ session'.phase \in WorkingPhase
    BY <1>3, <1>6
<1>11. jobs'[q].kind \in SourceKind /\ jobs'[q].src = session'.pending.src
    BY <1>3
<1> QED
    BY <1>11, <1>3, <1>4, <1>5, <1>7, <1>8, <1>9, <1>10, SourceStep, SMTT(60)

LEMMA IngestedInv ==
    ASSUME Inv, NEW r \in Rid, Ingested(r)
    PROVE  Inv'
<1> DEFINE client == [Answered(analysis) EXCEPT !.tables = @ \cup {jobs[r].src}]
           s == IngestDone(session, r)
<1>1. /\ r \in Waiting(analysis) /\ jobs[r] # None /\ jobs[r].kind \in SourceKind
      /\ session.requestId = r
      /\ RequestOn(client, s, jobs, r, "profile")
      /\ UNCHANGED <<exporter, flow, picker, urls, clearing, history>>
    BY DEF Ingested, Answers, Superseded, At, Kept
<1>2. /\ jobs[r] \in Job /\ Answered(analysis) \in Client
      /\ Waiting(Answered(analysis)) = {}
    BY <1>1, AnswerFacts
<1>3. client \in Client /\ Waiting(client) = {}
  <2>1. client \in Client
      BY <1>2, ClientFacts DEF Job
  <2>2. client.inFlight = None
      BY <1>2 DEF Answered, Client
  <2> QED
      BY <2>1, <2>2 DEF Waiting
<1>4. /\ Sound(s) /\ s.requestId = r /\ s.phase = "profiling"
      /\ s.pending.src = jobs[r].src /\ s.active = session.active
      /\ s.scenarioRequestId = session.scenarioRequestId
  <2>1. session.phase \in PendingPhase /\ session.pending.src = jobs[r].src
      BY <1>1, LiveSource
  <2> QED
      BY <1>1, <2>1, ParsedSound DEF Inv
<1>5. "profile" \in AnalysisSteps /\ s.phase \in WorkingPhase /\ s.phase # "reading"
    BY <1>4 DEF AnalysisSteps, WorkingPhase, PendingPhase
<1> HIDE DEF client, s
<1>6. /\ analysis' \in Client /\ Waiting(analysis)' = {r}
      /\ session' = s /\ refused' = refused
      /\ jobs' \in [Rid -> Job \cup {None}]
      /\ jobs'[r] \in Job /\ jobs'[r].step = "profile"
      /\ jobs'[r].kind = jobs[r].kind /\ jobs'[r].src = jobs[r].src
      /\ \A x \in Rid \ {r} : jobs'[x] = jobs[x]
    BY <1>1, <1>2, <1>3, <1>5, RequestFacts DEF Inv, TypeOK
<1>7. /\ \A x \in Rid : jobs'[x] = IF x = r THEN jobs'[r] ELSE IF x \in {} THEN None ELSE jobs[x]
      /\ {} \in SUBSET Rid
      /\ Waiting(analysis) \subseteq {} \cup {r} /\ Waiting(exporter) \cap ({} \cup {r}) = {}
    BY <1>1, <1>6, AnswerFacts
<1>8. FreeRids' # {}
  <2>1. FreeRids \subseteq FreeRids'
      BY <1>1, <1>4, <1>6 DEF FreeRids
  <2> QED
      BY <2>1 DEF Inv
<1>9. /\ session.phase # "idle" /\ session.scenarioRequestId # r
    BY <1>1, LiveSource, SourceIsNoScenario DEF PendingPhase
<1>10. flow' \in Flow /\ FlowMounted'
    BY <1>1, <1>6, <1>9 DEF Inv, TypeOK, FlowMounted
<1>11. /\ lastSource' \in {"none", "attached", "detached"} /\ urls' \subseteq Nat \X Format
       /\ picker' \in Source \cup {None}
       /\ clearing' = clearing /\ begun' = begun /\ prepared' = prepared
    BY <1>1 DEF Inv, TypeOK, history
<1> QED
    BY <1>1, <1>4, <1>5, <1>6, <1>7, <1>8, <1>9, <1>10, <1>11, SourceStep, SMTT(40)

(* What the profile decides: the review, or the next step under a new id.  *)
LEMMA ProfiledFacts ==
    ASSUME Inv, NEW r \in Rid, jobs[r] # None, jobs[r].kind \in SourceKind,
           jobs[r].step = "profile", session.requestId = r, NEW actionable \in BOOLEAN
    PROVE  LET s == ProfileDone(session, r, actionable)
           IN /\ Sound(s) /\ s.requestId = r /\ s.phase \in {"analyzing", "needsReview"}
              /\ s.pending = session.pending /\ s.active = session.active
              /\ s.scenarioRequestId = session.scenarioRequestId
<1>1. session.phase \in PendingPhase \ {"reading"} /\ session.pending # None
    BY LiveSource DEF Inv, Sound
<1>2. PICK phase \in {"needsReview", "analyzing"} :
          ProfileDone(session, r, actionable) = [session EXCEPT !.phase = phase]
    BY <1>1 DEF ProfileDone, IsCurrent
<1> QED
    BY <1>1, <1>2, PhaseSound DEF Inv

LEMMA ProfiledInv ==
    ASSUME Inv, NEW r \in Rid, Profiled(r)
    PROVE  Inv'
<1>1. /\ r \in Waiting(analysis) /\ jobs[r] # None /\ jobs[r].kind \in SourceKind
      /\ jobs[r].step = "profile" /\ session.requestId = r
      /\ UNCHANGED <<exporter, flow, picker, urls, clearing, history>>
    BY DEF Profiled, Answers, Superseded, At, Kept
<1>2. PICK actionable \in BOOLEAN :
          LET s == ProfileDone(session, r, actionable)
          IN IF s.phase = "needsReview"
             THEN /\ session' = s
                  /\ analysis' = Answered(analysis)
                  /\ jobs' = Without({r})
                  /\ UNCHANGED refused
             ELSE RequestOn(Answered(analysis), RequestStart(s, NewRid),
                            Rotated(r, NewRid), NewRid, "normalize")
    BY DEF Profiled
<1> DEFINE s == ProfileDone(session, r, actionable)
<1>3. /\ Sound(s) /\ s.requestId = r /\ s.phase \in {"analyzing", "needsReview"}
      /\ s.pending = session.pending /\ s.active = session.active
      /\ s.scenarioRequestId = session.scenarioRequestId
    BY <1>1, ProfiledFacts
<1>4. /\ session.phase \in WorkingPhase /\ session.pending.src = jobs[r].src
      /\ session.phase # "idle"
    BY <1>1, LiveSource DEF WorkingPhase, PendingPhase
<1>5. /\ Answered(analysis) \in Client /\ Waiting(Answered(analysis)) = {}
      /\ Waiting(analysis) = {r} /\ r \notin Waiting(exporter)
    BY <1>1, AnswerFacts
<1>6. CASE s.phase = "needsReview"
  <2>1. /\ session' = s /\ analysis' = Answered(analysis) /\ jobs' = Without({r})
        /\ refused' = refused
      BY <1>2, <1>6
  <2> HIDE DEF s
  <2>2. /\ jobs' \in [Rid -> Job \cup {None}]
        /\ \A x \in Rid : jobs'[x] = IF x = r THEN None ELSE jobs[x]
      BY <2>1, WithoutJobs
  <2>3. TypeOK' /\ Sound(session)'
      BY <1>1, <1>3, <1>5, <2>1, <2>2 DEF Inv, TypeOK, history, Sound
  <2>4. JobShape' /\ JobInFlight'
      BY <1>1, <1>5, <2>1, <2>2 DEF Inv, JobShape, JobInFlight, At
  <2>5. LiveRequest'
      BY <1>3, <1>5, <1>6, <2>1, <2>2 DEF LiveRequest, WorkingPhase
  <2>6. LiveScenario' /\ LiveExport' /\ FlowMounted'
      BY <1>1, <1>3, <1>4, <1>5, <1>6, <2>1, <2>2
         DEF Inv, LiveScenario, LiveExport, FlowMounted
  <2>7. FreeRids \subseteq FreeRids'
      BY <1>1, <1>3, <2>1, <2>2 DEF FreeRids
  <2> QED
      BY <2>1, <2>3, <2>4, <2>5, <2>6, <2>7 DEF Inv
<1>7. CASE s.phase # "needsReview"
  <2> DEFINE q == NewRid
             t == RequestStart(s, q)
  <2>1. RequestOn(Answered(analysis), t, Rotated(r, q), q, "normalize")
      BY <1>2, <1>7
  <2>2. q \in Rid /\ jobs[q] = None /\ session.scenarioRequestId # q
      BY NewRidFree DEF Inv
  <2> HIDE DEF q, s
  <2>3. /\ Sound(t) /\ t.requestId = q /\ t.phase = s.phase /\ t.pending = s.pending
        /\ t.active = s.active /\ t.scenarioRequestId = s.scenarioRequestId
      BY <1>3, <2>2, StartSound
  <2> HIDE DEF t
  <2>4. /\ t.phase \in WorkingPhase \ {"reading"} /\ "normalize" \in AnalysisSteps
        /\ t.pending.src = jobs[r].src /\ t.active = session.active
        /\ t.scenarioRequestId = session.scenarioRequestId
      BY <1>3, <1>4, <1>7, <2>3 DEF AnalysisSteps, WorkingPhase, PendingPhase
  <2> QED
      BY <1>1, <1>5, <2>1, <2>2, <2>3, <2>4, RotatedFacts, PipelineInv
<1> QED
    BY <1>6, <1>7

LEMMA NormalizedInv ==
    ASSUME Inv, NEW r \in Rid, Normalized(r)
    PROVE  Inv'
<1> DEFINE q == NewRid
           t == RequestStart(session, q)
<1>1. /\ r \in Waiting(analysis) /\ jobs[r] # None /\ jobs[r].kind \in SourceKind
      /\ jobs[r].step = "normalize" /\ session.requestId = r
      /\ RequestOn(Answered(analysis), t, Rotated(r, q), q, "analyze")
      /\ UNCHANGED <<exporter, flow, picker, urls, clearing, history>>
    BY DEF Normalized, Answers, Superseded, At, Kept
<1>2. q \in Rid /\ jobs[q] = None /\ session.scenarioRequestId # q
    BY NewRidFree DEF Inv
<1> HIDE DEF q
<1>3. /\ session.phase \in WorkingPhase \ {"reading"} /\ session.pending.src = jobs[r].src
    BY <1>1, LiveSource
<1>4. /\ Answered(analysis) \in Client /\ Waiting(Answered(analysis)) = {}
    BY <1>1, AnswerFacts
<1>5. /\ Sound(t) /\ t.requestId = q /\ t.phase = session.phase /\ t.pending = session.pending
      /\ t.active = session.active /\ t.scenarioRequestId = session.scenarioRequestId
    BY <1>2, StartSound DEF Inv
<1> HIDE DEF t
<1>6. /\ t.phase \in WorkingPhase \ {"reading"} /\ "analyze" \in AnalysisSteps
      /\ t.pending.src = jobs[r].src
    BY <1>3, <1>5 DEF AnalysisSteps
<1>7. /\ Rotated(r, q) \in [Rid -> Job \cup {None}] /\ Rotated(r, q)[q] = jobs[r]
      /\ \A x \in Rid \ {q} : Rotated(r, q)[x] = IF x = r THEN None ELSE jobs[x]
    BY <1>1, <1>2, RotatedFacts
<1> QED
    BY <1>1, <1>2, <1>4, <1>5, <1>6, <1>7, PipelineInv

(* A source that skips or ends its review asks for its normalization, or   *)
(* fails where there is no client.                                         *)
LEMMA NormalizeInv ==
    ASSUME Inv, RidInReserve, Waiting(analysis) = {},
           NEW kind \in SourceKind, NEW src \in Source,
           NEW s, Sound(s), s.requestId = NewRid, s.phase = "analyzing", s.pending.src = src,
           s.active = session.active, s.scenarioRequestId = session.scenarioRequestId,
           Normalize(s, NewRid, kind, src),
           flow' \in Flow, FlowMounted', picker' \in Source \cup {None},
           urls' \subseteq Nat \X Format,
           UNCHANGED <<exporter, clearing, history>>
    PROVE  Inv'
<1> DEFINE q == NewRid
           job == SourceJob(kind, "normalize", src)
           js == WithJob(jobs, q, job)
<1>1. /\ q \in Rid /\ jobs[q] = None
      /\ q # session.requestId /\ q # session.scenarioRequestId
    BY NewRidFree DEF Inv
<1>2. PICK x \in FreeRids : x # q
    BY ReserveKept
<1>3. CASE analysis = None
  <2>1. /\ session' = RequestFailed(s, q, "plain")
        /\ UNCHANGED <<analysis, jobs, refused>>
      BY <1>3 DEF Normalize
  <2> HIDE DEF q
  <2>2. /\ Sound(session') /\ session'.phase \in {"idle", "ready"}
        /\ session'.requestId = None /\ session'.active = session.active
        /\ session'.scenarioRequestId \in {None, session.scenarioRequestId}
      BY <1>1, <2>1, FailedSound, CalmerPending DEF Ends, q
  <2>3. Ends(session, session')
      BY <2>2 DEF Ends, Calmer
  <2> QED
      BY <2>1, <2>3, StillInv DEF Inv, TypeOK
<1>4. CASE analysis # None
  <2>1. RequestOn(analysis, s, js, q, "normalize")
      BY <1>4 DEF Normalize
  <2>2. /\ job \in Job /\ job.kind = kind /\ job.src = src
      BY DEF SourceJob, Job, Kind, WorkerStep
  <2> HIDE DEF q, job
  <2>3. /\ js \in [Rid -> Job \cup {None}] /\ js[q] = job
        /\ \A y \in Rid \ {q} : js[y] = jobs[y]
      BY <1>1, <2>2 DEF WithJob, Inv, TypeOK
  <2> HIDE DEF js
  <2>4. analysis \in Client /\ "normalize" \in AnalysisSteps
      BY <1>4 DEF Inv, TypeOK, AnalysisSteps
  <2>5. /\ analysis' \in Client /\ Waiting(analysis)' = {q}
        /\ session' = s /\ refused' = refused
        /\ jobs' \in [Rid -> Job \cup {None}]
        /\ jobs'[q] \in Job /\ jobs'[q].step = "normalize"
        /\ jobs'[q].kind = kind /\ jobs'[q].src = src
        /\ \A y \in Rid \ {q} : jobs'[y] = jobs[y]
      BY <1>1, <2>1, <2>2, <2>3, <2>4, RequestFacts
  <2>6. /\ \A y \in Rid : jobs'[y] = IF y = q THEN jobs'[q]
                                    ELSE IF y \in {} THEN None ELSE jobs[y]
        /\ {} \in SUBSET Rid /\ Waiting(analysis) \subseteq {} \cup {q}
      BY <2>5
  <2>7. Waiting(exporter) \cap ({} \cup {q}) = {}
      BY <1>1 DEF Inv, JobInFlight, At
  <2>8. FreeRids' # {}
      BY <1>2, <2>5 DEF FreeRids, q
  <2>9. /\ lastSource' \in {"none", "attached", "detached"}
        /\ begun' = begun /\ prepared' = prepared /\ clearing' = clearing
      BY DEF Inv, TypeOK, history
  <2>10. /\ s.requestId = q /\ s.phase \in WorkingPhase /\ s.phase # "reading"
      BY DEF q, WorkingPhase, PendingPhase
  <2> QED
      BY <1>1, <2>4, <2>5, <2>6, <2>7, <2>8, <2>9, <2>10, SourceStep
<1> QED
    BY <1>3, <1>4

(* The review that is approved leads to the analysis of what was pending.  *)
LEMMA ApprovedFacts ==
    ASSUME Inv, session.phase = "needsReview"
    PROVE  LET s == RequestStart(ReviewApprove(session), NewRid)
           IN /\ Sound(s) /\ s.requestId = NewRid /\ s.phase = "analyzing"
              /\ s.pending = session.pending /\ s.active = session.active
              /\ s.scenarioRequestId = session.scenarioRequestId
<1> DEFINE t == ReviewApprove(session)
<1>1. t = [session EXCEPT !.phase = "analyzing"]
    BY DEF ReviewApprove, Inv, Sound, PendingPhase
<1> HIDE DEF t
<1>2. /\ Sound(t) /\ t.phase = "analyzing" /\ t.pending = session.pending
      /\ t.active = session.active /\ t.scenarioRequestId = session.scenarioRequestId
    BY <1>1, PhaseSound DEF Inv, PendingPhase
<1>3. NewRid \in Rid
    BY NewRidFree DEF Inv
<1>4. /\ Sound(RequestStart(t, NewRid)) /\ RequestStart(t, NewRid).requestId = NewRid
      /\ RequestStart(t, NewRid).phase = t.phase
      /\ RequestStart(t, NewRid).pending = t.pending
      /\ RequestStart(t, NewRid).active = t.active
      /\ RequestStart(t, NewRid).scenarioRequestId = t.scenarioRequestId
    BY <1>2, <1>3, StartSound
<1> QED
    BY <1>2, <1>4 DEF t

(* A session under review has nothing in flight on its client.             *)
LEMMA ApproveInv ==
    ASSUME Inv, ApproveReview
    PROVE  Inv'
<1> DEFINE s == RequestStart(ReviewApprove(session), NewRid)
           kind == session.pending.kind
           src == session.pending.src
<1>1. /\ session.phase = "needsReview" /\ RidInReserve
      /\ Normalize(s, NewRid, kind, src)
      /\ RenderFlow(session', {})
      /\ UNCHANGED <<exporter, urls, clearing, history>>
    BY DEF ApproveReview
<1>2. session.pending \in Pending /\ session.pending # None
    BY <1>1 DEF Inv, Sound, Session, PendingPhase
<1>3. kind \in SourceKind /\ src \in Source
    BY <1>2 DEF Pending, SourceKind
<1>4. /\ Sound(s) /\ s.requestId = NewRid /\ s.phase = "analyzing" /\ s.pending.src = src
      /\ s.active = session.active /\ s.scenarioRequestId = session.scenarioRequestId
    BY <1>1, ApprovedFacts
<1> HIDE DEF s, kind, src
<1>5. Waiting(analysis) = {}
  <2>1. ASSUME NEW r \in Waiting(analysis) PROVE FALSE
    <3>1. session.requestId = r /\ jobs[r] # None /\ jobs[r].kind \in SourceKind
        BY <1>1, <2>1, AnswerFacts, RidAssumption
           DEF Inv, LiveRequest, PendingPhase, RidAssumption
    <3> QED
        BY <1>1, <2>1, <3>1, AnswerFacts, LiveSource DEF WorkingPhase
  <2> QED
      BY <2>1
<1>6. flow' \in Flow /\ picker' \in Source \cup {None} /\ FlowMounted'
    BY <1>1, RenderMounted
<1>7. urls' \subseteq Nat \X Format
    BY <1>1 DEF Inv, TypeOK
<1> QED
    BY <1>1, <1>3, <1>4, <1>5, <1>6, <1>7, NormalizeInv

(* The source that is adopted has been parsed and reviewed by the flow.    *)
LEMMA AdoptedFacts ==
    ASSUME Inv, flow.stage = "review"
    PROVE  LET s == ProfileDone(IngestDone(RequestStart(SourceBegin(session, "upload", flow.src),
                                                        NewRid), NewRid), NewRid, FALSE)
           IN /\ Sound(s) /\ s.requestId = NewRid /\ s.phase = "analyzing"
              /\ s.pending.src = flow.src /\ s.active = session.active
              /\ s.scenarioRequestId = session.scenarioRequestId
              /\ s.export = session.export
<1> DEFINE begin == RequestStart(SourceBegin(session, "upload", flow.src), NewRid)
           parsed == IngestDone(begin, NewRid)
           s == ProfileDone(parsed, NewRid, FALSE)
<1>1. flow.src \in Source
    BY DEF Inv, TypeOK, Flow, FlowMounted
<1>2. NewRid \in Rid /\ "upload" \in SourceKind
    BY NewRidFree DEF Inv, SourceKind
<1>3. /\ Sound(begin) /\ begin.requestId = NewRid /\ begin.phase = "reading"
      /\ begin.pending = [kind |-> "upload", src |-> flow.src, parsed |-> FALSE]
      /\ begin.active = session.active
      /\ begin.scenarioRequestId = session.scenarioRequestId
      /\ begin.export = session.export
    BY <1>1, <1>2, BeginSound DEF Inv
<1> HIDE DEF begin
<1>4. /\ Sound(parsed) /\ parsed.requestId = NewRid /\ parsed.phase = "profiling"
      /\ parsed.pending.src = flow.src
      /\ parsed.active = session.active
      /\ parsed.scenarioRequestId = session.scenarioRequestId
      /\ parsed.export = session.export
    BY <1>2, <1>3, ParsedSound DEF PendingPhase
<1> HIDE DEF parsed
<1>5. s = [parsed EXCEPT !.phase = "analyzing"]
    BY <1>4 DEF ProfileDone, IsCurrent, Sound, PendingPhase
<1> HIDE DEF s
<1>6. /\ Sound(s) /\ s.requestId = NewRid /\ s.phase = "analyzing" /\ s.pending.src = flow.src
      /\ s.active = session.active /\ s.scenarioRequestId = session.scenarioRequestId
      /\ s.export = session.export
    BY <1>4, <1>5, PhaseSound DEF PendingPhase
<1> QED
    BY <1>6 DEF s, parsed, begin

(* The table that is adopted leaves the client free.                       *)
LEMMA AdoptInv ==
    ASSUME Inv, AdoptUploadOutcome
    PROVE  Inv'
<1> DEFINE s == ProfileDone(IngestDone(RequestStart(SourceBegin(session, "upload", flow.src),
                                                    NewRid), NewRid), NewRid, FALSE)
<1>1. /\ flow.stage = "review" /\ RidInReserve
      /\ Normalize(s, NewRid, "upload", flow.src)
      /\ urls' = {} /\ flow' = NoFlow
      /\ UNCHANGED <<exporter, picker, clearing, history>>
    BY DEF AdoptUploadOutcome
<1>2. /\ Sound(s) /\ s.requestId = NewRid /\ s.phase = "analyzing" /\ s.pending.src = flow.src
      /\ s.active = session.active /\ s.scenarioRequestId = session.scenarioRequestId
    BY <1>1, AdoptedFacts
<1> HIDE DEF s
<1>3. flow.src \in Source /\ Waiting(analysis) = {} /\ "upload" \in SourceKind
    BY <1>1 DEF Inv, TypeOK, Flow, FlowMounted, SourceKind
<1>4. /\ flow' \in Flow /\ FlowMounted' /\ picker' \in Source \cup {None}
      /\ urls' \subseteq Nat \X Format
    BY <1>1 DEF NoFlow, Flow, FlowMounted, Inv, TypeOK
<1> QED
    BY <1>1, <1>2, <1>3, <1>4, NormalizeInv

-----------------------------------------------------------------------------
(* The upload flow and the scenarios                                       *)

(* The job q of the flow or of a scenario goes on beside the session: it   *)
(* is the one that the analysis client has in flight once the jobs R are   *)
(* gone.                                                                   *)
LEMMA SideStep ==
    ASSUME Inv, NEW q \in Rid, NEW R \in SUBSET Rid, NEW job \in Job,
           job.kind \in {"flow", "scenario"}, Shaped(job), job.step \in WorkerStep,
           jobs' \in [Rid -> Job \cup {None}],
           \A x \in Rid : jobs'[x] = IF x = q THEN job ELSE IF x \in R THEN None ELSE jobs[x],
           Waiting(analysis) \subseteq R \cup {q}, Waiting(exporter) \cap (R \cup {q}) = {},
           analysis' \in Client, Waiting(analysis)' = {q}, exporter' = exporter,
           Sound(session'), session.phase \notin PendingPhase,
           session'.phase \notin PendingPhase,
           session'.phase = "exporting" =>
              session.phase = "exporting" /\ session'.export.model = session.export.model,
           session'.requestId \in {None, session.requestId}, session'.requestId # q,
           session'.scenarioRequestId \in {None, q, session.scenarioRequestId},
           session'.active = session.active,
           session'.scenarioRequestId = q => job.kind = "scenario" /\ job.src = session.active,
           FreeRids' # {}, flow' \in Flow, FlowMounted', begun' \in Nat,
           picker' = picker, lastSource' = lastSource, urls' = urls,
           clearing' = clearing, prepared' = prepared, refused' = refused
    PROVE  Inv'
<1>1. TypeOK'
    BY DEF Inv, TypeOK, Sound
<1>2. job # None
    BY RidAssumption DEF RidAssumption
<1>3. JobShape'
    BY DEF Inv, JobShape
<1>4. JobInFlight'
  <2>1. job.kind \in Kind \ {"export"}
      BY DEF Kind, SourceKind
  <2> QED
      BY <1>2, <2>1 DEF Inv, JobInFlight, At
<1>5. LiveRequest'
  <2>1. ASSUME NEW r \in Rid, session'.requestId = r, jobs'[r] # None
        PROVE  jobs'[r].kind \in SourceKind \cup {"export"} /\ jobs'[r].kind \notin SourceKind
      BY <2>1, NoneAssumption DEF Inv, LiveRequest, WorkingPhase, NoneAssumption
  <2> QED
      BY <2>1 DEF LiveRequest, WorkingPhase
<1>6. LiveScenario'
    BY NoneAssumption DEF Inv, LiveScenario, NoneAssumption
<1>7. LiveExport'
  <2>1. ASSUME session'.phase = "exporting"
        PROVE  \E r \in Waiting(exporter)' : jobs'[r].model = session'.export.model
    <3>1. PICK r \in Waiting(exporter) : jobs[r].model = session.export.model
        BY <2>1 DEF Inv, LiveExport
    <3>2. r \in Rid /\ r \notin R \cup {q}
        BY <3>1, OneWaiting DEF Inv, TypeOK
    <3> QED
        BY <2>1, <3>1, <3>2
  <2> QED
      BY <2>1 DEF LiveExport
<1> QED
    BY <1>1, <1>3, <1>4, <1>5, <1>6, <1>7 DEF Inv

(* Only a source at work shares its id with the request in flight.         *)
LEMMA NotWaiting ==
    ASSUME Inv, session.phase \notin WorkingPhase
    PROVE  session.requestId \notin Waiting(analysis)
<1>1. ASSUME NEW r \in Waiting(analysis), session.requestId = r PROVE FALSE
  <2>1. r \in Rid /\ jobs[r] \in Job /\ jobs[r].kind # "export" /\ jobs[r] # None
      BY <1>1, AnswerFacts, RidAssumption DEF RidAssumption
  <2> QED
      BY <1>1, <2>1 DEF Inv, LiveRequest
<1> QED
    BY <1>1

(* The client of a flow that parses is free, but for one that waits for an *)
(* older request under the same options.                                   *)
LEMMA FlowParseInv ==
    ASSUME Inv, NEW opts \in Options, FlowParse(opts)
    PROVE  Inv'
<1> DEFINE src == begun + 1
           q == NewRid
           aborted == IF flow.stage = "idle" THEN analysis ELSE Cancelled(analysis)
           client == EnsureAnalysis(aborted, opts)
           lost == IF client = analysis THEN {} ELSE Waiting(analysis)
           job == SourceJob("flow", "ingest", src)
<1>1. /\ session.phase = "idle" /\ RidInReserve /\ begun' = begun + 1
      /\ session' = AfterRejecting(session, lost)
      /\ IF Waiting(client) = {}
         THEN /\ analysis' = Posted(client, q)
              /\ jobs' = WithJob(Without(lost), q, job)
              /\ flow' = [stage |-> "parsing", src |-> src]
              /\ refused' = refused
         ELSE /\ analysis' = client
              /\ jobs' = Without(lost)
              /\ flow' = [stage |-> "error", src |-> src]
              /\ refused' = refused \cup {"flow"}
      /\ UNCHANGED <<exporter, picker, lastSource, urls, clearing, prepared>>
    BY DEF FlowParse
<1>2. /\ client \in Client /\ lost \in SUBSET Rid
      /\ lost \in {{}, Waiting(analysis)}
      /\ client # analysis => lost = Waiting(analysis)
      /\ Waiting(client) # {} => client = analysis
  <2>1. /\ aborted \in Client \cup {None}
        /\ Waiting(aborted) # {} => aborted = analysis
      BY ClientFacts DEF Inv, TypeOK
  <2>2. FreshClient(opts) \in Client /\ Waiting(FreshClient(opts)) = {}
      BY ClientFacts
  <2>3. Waiting(analysis) \in SUBSET Rid
      BY OneWaiting DEF Inv, TypeOK
  <2>4. client \in {aborted, FreshClient(opts)} /\ client # None
    <3>1. FreshClient(opts) # None
        BY <2>2, RidAssumption DEF RidAssumption
    <3> QED
        BY <3>1 DEF EnsureAnalysis
  <2> HIDE DEF aborted, client
  <2> QED
      BY <2>1, <2>2, <2>3, <2>4
<1> HIDE DEF client
<1>3. /\ Ends(session, session') /\ session'.active = session.active
  <2>1. CASE lost = {}
      BY <1>1, <2>1 DEF AfterRejecting, Inv, Ends, Calmer
  <2>2. CASE lost = Waiting(analysis)
      BY <1>1, <2>2, AfterRejectingEnds, ZenonT(60) DEF Inv, TypeOK
  <2> QED
      BY <1>2, <2>1, <2>2
<1> HIDE DEF lost
<1>4. session'.phase = "idle"
  <2>1. CASE lost = {}
      BY <1>1, <2>1 DEF AfterRejecting
  <2>2. CASE lost = Waiting(analysis)
      BY <1>1, <2>2, NotWaiting, AfterRejectingEnds
         DEF Inv, TypeOK, WorkingPhase, PendingPhase, DatasetPhase
  <2> QED
      BY <1>2, <2>1, <2>2
<1>5. src \in Source /\ src # None /\ begun' \in Nat
    BY <1>1, NoneAssumption DEF Inv, TypeOK, Source, NoneAssumption
<1>6. CASE Waiting(client) = {}
  <2>1. /\ q \in Rid /\ jobs[q] = None
        /\ q # session.requestId /\ q # session.scenarioRequestId
      BY NewRidFree DEF Inv
  <2>2. PICK x \in FreeRids : x # q
      BY <1>1, ReserveKept
  <2>3. /\ job \in Job /\ job.kind = "flow" /\ job.step = "ingest"
      BY <1>5 DEF SourceJob, Job, Kind, WorkerStep
  <2>4. /\ analysis' = Posted(client, q) /\ jobs' = WithJob(Without(lost), q, job)
        /\ flow' = [stage |-> "parsing", src |-> src] /\ refused' = refused
      BY <1>1, <1>6
  <2> HIDE DEF q, job, src
  <2>5. Shaped(job) /\ job.step \in WorkerStep
      BY <2>3 DEF Shaped, SourceKind, WorkerStep
  <2>6. /\ jobs' \in [Rid -> Job \cup {None}]
        /\ \A y \in Rid : jobs'[y] = IF y = q THEN job
                                     ELSE IF y \in lost THEN None ELSE jobs[y]
    <3>1. Without(lost) \in [Rid -> Job \cup {None}]
        BY DEF Without, Inv, TypeOK
    <3> QED
        BY <2>1, <2>3, <2>4, <3>1 DEF WithJob, Without
  <2>7. analysis' \in Client /\ Waiting(analysis)' = {q}
      BY <1>2, <2>1, <2>4, ClientFacts
  <2>8. Waiting(analysis) \subseteq lost \cup {q} /\ Waiting(exporter) \cap (lost \cup {q}) = {}
      BY <1>2, <1>6, <2>1 DEF Inv, JobInFlight, At
  <2>9. flow' \in Flow /\ FlowMounted'
      BY <1>4, <1>5, <2>4 DEF Flow, FlowMounted
  <2>10. /\ session'.requestId \in {None, session.requestId} /\ session'.requestId # q
         /\ session'.scenarioRequestId \in {None, session.scenarioRequestId}
         /\ session'.scenarioRequestId # q
      BY <1>3, <2>1, CalmerPending, NoneAssumption DEF Ends, NoneAssumption
  <2>11. FreeRids' # {}
      BY <2>2, <2>6, <2>10, NoneAssumption DEF FreeRids, NoneAssumption
  <2>12. /\ session.phase \notin PendingPhase /\ session'.phase \notin PendingPhase
         /\ session'.phase # "exporting" /\ Sound(session')
      BY <1>1, <1>3, <1>4 DEF PendingPhase, Ends
  <2>13. /\ exporter' = exporter /\ picker' = picker /\ lastSource' = lastSource
         /\ urls' = urls /\ clearing' = clearing /\ prepared' = prepared
      BY <1>1
  <2> QED
      BY <1>2, <1>3, <1>5, <2>1, <2>3, <2>4, <2>5, <2>6, <2>7, <2>8, <2>9, <2>10, <2>11,
         <2>12, <2>13, SideStep, SMTT(60)
<1>7. CASE Waiting(client) # {}
  <2>1. /\ client = analysis /\ lost = {}
      BY <1>2, <1>7, OneWaiting DEF lost
  <2>2. /\ analysis' = analysis /\ jobs' = Without({})
        /\ flow' = [stage |-> "error", src |-> src] /\ refused' = refused \cup {"flow"}
      BY <1>1, <1>7, <2>1
  <2> HIDE DEF src
  <2>3. flow' \in Flow /\ FlowMounted'
      BY <1>4, <1>5, <2>2 DEF Flow, FlowMounted
  <2>4. refused' \subseteq Kind /\ refused' \cap SourceKind = {}
      BY <2>2 DEF Inv, TypeOK, Kind, SourceKind
  <2>5. /\ {} \in SUBSET Rid /\ session.requestId \notin {}
        /\ Waiting(exporter) \cap {} = {}
        /\ Waiting(analysis)' = Waiting(analysis) \ {}
        /\ Waiting(exporter)' = Waiting(exporter) \ {}
      BY <1>1, <2>2
  <2> QED
      BY <1>1, <1>3, <1>5, <2>2, <2>3, <2>4, <2>5, CalmInv DEF Inv, TypeOK
<1> QED
    BY <1>6, <1>7

(* The table is profiled for the flow at once.                             *)
LEMMA FlowParsedInv ==
    ASSUME Inv, NEW r \in Rid, FlowParsed(r)
    PROVE  Inv'
<1> DEFINE client == [analysis EXCEPT !.tables = @ \cup {jobs[r].src}]
           job == [jobs[r] EXCEPT !.step = "profile"]
<1>1. /\ r \in Waiting(analysis) /\ jobs[r] # None /\ jobs[r].kind = "flow"
      /\ analysis' = Posted(client, r) /\ jobs' = [jobs EXCEPT ![r].step = "profile"]
      /\ UNCHANGED <<session, refused, exporter, flow, picker, urls, clearing, history>>
    BY DEF FlowParsed, Answers, At, Kept, Step
<1>2. /\ analysis \in Client /\ jobs[r] \in Job /\ Waiting(analysis) = {r}
      /\ r \notin Waiting(exporter)
    BY <1>1, AnswerFacts
<1>3. analysis' \in Client /\ Waiting(analysis)' = {r}
    BY <1>1, <1>2, ClientFacts DEF Job
<1>4. /\ job \in Job /\ job.kind = "flow" /\ job.step = "profile"
      /\ jobs' = [jobs EXCEPT ![r] = job]
    BY <1>1, <1>2 DEF Job, WorkerStep
<1> HIDE DEF job, client
<1>5. Shaped(job) /\ job.step \in WorkerStep
    BY <1>4 DEF Shaped, SourceKind, WorkerStep
<1>6. /\ jobs' \in [Rid -> Job \cup {None}]
      /\ \A x \in Rid : jobs'[x] = IF x = r THEN job ELSE IF x \in {} THEN None ELSE jobs[x]
    BY <1>4 DEF Inv, TypeOK
<1>7. /\ session.requestId # r /\ session.scenarioRequestId # r
    BY <1>1 DEF Inv, LiveRequest, LiveScenario, SourceKind
<1>8. session.phase \notin PendingPhase
    BY <1>1, <1>2, <1>7 DEF Inv, LiveRequest
<1>9. flow' \in Flow /\ FlowMounted'
    BY <1>1, <1>2, <1>3 DEF Inv, TypeOK, FlowMounted
<1>10. FreeRids' # {}
  <2>1. FreeRids \subseteq FreeRids'
      BY <1>1, <1>6 DEF FreeRids
  <2> QED
      BY <2>1 DEF Inv
<1>11. /\ {} \in SUBSET Rid /\ Waiting(analysis) \subseteq {} \cup {r}
       /\ Waiting(exporter) \cap ({} \cup {r}) = {}
    BY <1>2
<1>12. /\ lastSource' = lastSource /\ begun' \in Nat /\ prepared' = prepared
       /\ Sound(session') /\ session' = session
    BY <1>1 DEF Inv, TypeOK, history
<1> QED
    BY <1>1, <1>3, <1>4, <1>5, <1>6, <1>7, <1>8, <1>9, <1>10, <1>11, <1>12, SideStep

(* A scenario is sent, or refused by a busy client and at an end.          *)
LEMMA SubmitScenarioInv ==
    ASSUME Inv, SubmitScenario
    PROVE  Inv'
<1> DEFINE q == NewRid
           s == ScenarioSubmit(session, q)
           client == IF analysis = None THEN FreshClient(None) ELSE analysis
           job == SourceJob("scenario", "scenario", session.active)
<1>1. /\ session.phase \in DatasetPhase /\ session.scenarioRequestId = None /\ RidInReserve
      /\ IF Waiting(client) = {}
         THEN /\ session' = s
              /\ analysis' = Posted(client, q)
              /\ jobs' = WithJob(jobs, q, job)
              /\ refused' = refused
         ELSE /\ session' = ScenarioFailed(s, q)
              /\ refused' = refused \cup {"scenario"}
              /\ analysis' = analysis /\ jobs' = jobs
      /\ UNCHANGED <<exporter, flow, picker, urls, clearing, history>>
    BY DEF SubmitScenario, Kept
<1>2. /\ q \in Rid /\ jobs[q] = None
      /\ q # session.requestId /\ q # session.scenarioRequestId
    BY NewRidFree DEF Inv
<1>3. PICK x \in FreeRids : x # q
    BY <1>1, ReserveKept
<1>4. session.active \in Source
    BY <1>1 DEF Inv, Sound, Session
<1>5. client \in Client
    BY ClientFacts DEF Inv, TypeOK
<1> HIDE DEF q, client
<1>6. /\ Sound(s) /\ s.requestId = session.requestId /\ s.phase = session.phase
      /\ s.pending = session.pending /\ s.active = session.active /\ s.export = session.export
      /\ s.scenarioRequestId \in {q, session.scenarioRequestId}
    BY <1>2, SubmitSound DEF Inv
<1> HIDE DEF s
<1>7. CASE Waiting(client) = {}
  <2>1. /\ session' = s /\ analysis' = Posted(client, q) /\ jobs' = WithJob(jobs, q, job)
        /\ refused' = refused
      BY <1>1, <1>7
  <2>2. /\ job \in Job /\ job.kind = "scenario" /\ job.step = "scenario"
        /\ job.src = session.active
      BY <1>4 DEF SourceJob, Job, Kind, WorkerStep
  <2> HIDE DEF job
  <2>3. Shaped(job) /\ job.step \in WorkerStep
      BY <2>2 DEF Shaped, SourceKind, WorkerStep
  <2>4. /\ jobs' \in [Rid -> Job \cup {None}]
        /\ \A y \in Rid : jobs'[y] = IF y = q THEN job
                                     ELSE IF y \in {} THEN None ELSE jobs[y]
      BY <1>2, <2>1, <2>2 DEF WithJob, Inv, TypeOK
  <2>5. analysis' \in Client /\ Waiting(analysis)' = {q}
      BY <1>2, <1>5, <2>1, ClientFacts
  <2>6. Waiting(analysis) = {}
      BY <1>7 DEF client, Waiting
  <2>7. /\ {} \in SUBSET Rid /\ Waiting(analysis) \subseteq {} \cup {q}
        /\ Waiting(exporter) \cap ({} \cup {q}) = {}
      BY <1>2, <2>6 DEF Inv, JobInFlight, At
  <2>8. flow' \in Flow /\ FlowMounted'
      BY <1>1, <1>6, <2>1 DEF Inv, TypeOK, FlowMounted, DatasetPhase
  <2>9. FreeRids' # {}
      BY <1>1, <1>3, <1>6, <2>1, <2>4, NoneAssumption DEF FreeRids, NoneAssumption
  <2>10. session.phase \notin PendingPhase
      BY <1>1 DEF PendingPhase, DatasetPhase
  <2>11. lastSource' = lastSource /\ begun' \in Nat /\ prepared' = prepared
      BY <1>1 DEF Inv, TypeOK, history
  <2>12. /\ Sound(session') /\ session'.phase \notin PendingPhase
         /\ session'.phase = "exporting" =>
               session.phase = "exporting" /\ session'.export.model = session.export.model
         /\ session'.requestId \in {None, session.requestId} /\ session'.requestId # q
         /\ session'.active = session.active
         /\ session'.scenarioRequestId \in {None, q, session.scenarioRequestId}
      BY <1>2, <1>6, <2>1, <2>10
  <2>13. picker' = picker /\ urls' = urls /\ clearing' = clearing /\ exporter' = exporter
      BY <1>1
  <2> QED
      BY <1>2, <2>1, <2>2, <2>3, <2>4, <2>5, <2>7, <2>8, <2>9, <2>10, <2>11, <2>12, <2>13,
         SideStep, SMTT(60)
<1>8. CASE Waiting(client) # {}
  <2>1. /\ session' = ScenarioFailed(s, q) /\ analysis' = analysis /\ jobs' = jobs
        /\ refused' = refused \cup {"scenario"}
      BY <1>1, <1>8
  <2>2. /\ Ends(s, session') /\ session'.active = s.active
        /\ s.scenarioRequestId = q => session'.scenarioRequestId = None
        /\ s.scenarioRequestId # q => session' = s
      BY <1>2, <1>6, <2>1, ScenarioFails
  <2>3. session'.scenarioRequestId = None
      BY <1>1, <1>6, <2>2
  <2>4. Ends(session, session')
      BY <1>6, <2>2, <2>3 DEF Ends, Calmer
  <2>5. jobs' = Without({})
      BY <2>1 DEF Without, Inv, TypeOK
  <2>6. refused' \subseteq Kind /\ refused' \cap SourceKind = {}
      BY <2>1 DEF Inv, TypeOK, Kind, SourceKind
  <2>7. /\ {} \in SUBSET Rid /\ session.requestId \notin {}
        /\ Waiting(exporter) \cap {} = {}
        /\ Waiting(analysis)' = Waiting(analysis) \ {}
        /\ Waiting(exporter)' = Waiting(exporter) \ {}
      BY <1>1, <2>1
  <2>8. flow' \in Flow /\ FlowMounted'
      BY <1>1, <2>1 DEF Inv, TypeOK, FlowMounted, DatasetPhase
  <2>9. /\ lastSource' \in {"none", "attached", "detached"}
        /\ begun' \in Nat /\ prepared' \in Nat
      BY <1>1 DEF Inv, TypeOK, history
  <2> QED
      BY <1>1, <2>1, <2>4, <2>5, <2>6, <2>7, <2>8, <2>9, CalmInv DEF Inv, TypeOK
<1> QED
    BY <1>7, <1>8

-----------------------------------------------------------------------------
(* Exports                                                                 *)

(* An export is not the request of a source, and has its model.            *)
LEMMA ExportFacts ==
    ASSUME Inv, NEW r \in Rid, jobs[r] # None, jobs[r].kind = "export"
    PROVE  /\ jobs[r] \in Job /\ jobs[r].model \in Model
           /\ jobs[r].model.src = jobs[r].src
           /\ jobs[r].step \in {"model"} \cup Format
           /\ session.phase \in WorkingPhase => session.requestId # r
           /\ r \notin Waiting(analysis)
<1>1. jobs[r] \in Job
    BY DEF Inv, TypeOK
<1>2. Shaped(jobs[r])
    BY DEF Inv, JobShape
<1>3. session.phase \in WorkingPhase => session.requestId # r
    BY DEF Inv, LiveRequest, At, SourceKind
<1>4. r \notin Waiting(analysis)
    BY DEF Inv, JobInFlight, At
<1> QED
    BY <1>1, <1>2, <1>3, <1>4 DEF Shaped, Job

LEMMA PrepareExportInv ==
    ASSUME Inv, PrepareExport
    PROVE  Inv'
<1> DEFINE q == NewRid
           model == [run |-> prepared + 1, src |-> session.active,
                     scenario |-> session.scenario]
           job == [kind |-> "export", step |-> "model", src |-> session.active,
                   model |-> model]
<1>1. /\ session.phase = "ready" /\ RidInReserve
      /\ prepared' = prepared + 1
      /\ session' = RequestStart(session, q) /\ jobs' = WithJob(jobs, q, job)
      /\ UNCHANGED <<exporter, urls, begun, lastSource, analysis, flow, picker, clearing, refused>>
    BY DEF PrepareExport, ExportVars
<1>2. /\ q \in Rid /\ jobs[q] = None
      /\ q # session.requestId /\ q # session.scenarioRequestId
    BY NewRidFree DEF Inv
<1>3. PICK x \in FreeRids : x # q
    BY <1>1, ReserveKept
<1>4. model \in Model /\ model # None /\ model.src = session.active
  <2>1. /\ session.active \in Source /\ session.scenario \in Source \cup {None}
        /\ prepared + 1 \in Nat
      BY <1>1 DEF Inv, TypeOK, Sound, Session, DatasetPhase
  <2>2. model \in Model /\ model.src = session.active
      BY <2>1 DEF Model
  <2> QED
      BY <2>2, NoneAssumption DEF NoneAssumption
<1> HIDE DEF q, model
<1>5. /\ job \in Job /\ job # None /\ job.kind = "export" /\ job.step = "model"
      /\ job.model = model /\ job.src = session.active
  <2>1. /\ job \in Job /\ job.kind = "export" /\ job.step = "model"
        /\ job.model = model /\ job.src = session.active
      BY <1>1, <1>4 DEF Job, Kind, MainStep, Inv, Sound, Session, DatasetPhase
  <2> QED
      BY <2>1, RidAssumption DEF RidAssumption
<1> HIDE DEF job
<1>6. /\ jobs' \in [Rid -> Job \cup {None}]
      /\ \A y \in Rid : jobs'[y] = IF y = q THEN job ELSE jobs[y]
    BY <1>1, <1>2, <1>5 DEF WithJob, Inv, TypeOK
<1>7. /\ Sound(session') /\ session'.requestId = q /\ session'.phase = "ready"
      /\ session'.active = session.active
      /\ session'.scenarioRequestId = session.scenarioRequestId
    BY <1>1, <1>2, StartSound DEF Inv
<1>8. TypeOK' /\ Sound(session)'
    BY <1>1, <1>6, <1>7 DEF Inv, TypeOK, Sound
<1>9. JobShape'
    BY <1>4, <1>5, <1>6 DEF Inv, JobShape, Shaped, SourceKind
<1>10. JobInFlight'
    BY <1>1, <1>2, <1>5, <1>6 DEF Inv, JobInFlight, At, WorkerStep, Format
<1>11. LiveRequest'
    BY <1>5, <1>6, <1>7 DEF LiveRequest, WorkingPhase, PendingPhase, SourceKind
<1>12. LiveScenario'
    BY <1>2, <1>6, <1>7 DEF Inv, LiveScenario
<1>13. LiveExport' /\ FlowMounted'
    BY <1>1, <1>7 DEF LiveExport, FlowMounted, Inv
<1>14. FreeRids' # {}
    BY <1>3, <1>6, <1>7 DEF FreeRids
<1> QED
    BY <1>1, <1>8, <1>9, <1>10, <1>11, <1>12, <1>13, <1>14 DEF Inv

LEMMA ModelSupersededInv ==
    ASSUME Inv, NEW r \in Rid, ModelSuperseded(r)
    PROVE  Inv'
<1>1. /\ At(r, Kind, MainStep) /\ jobs[r] # None /\ jobs[r].kind = "export"
      /\ jobs' = Without({r})
      /\ UNCHANGED <<session, analysis, exporter, flow, picker, urls, clearing, history, refused>>
    BY DEF ModelSuperseded, ExportVars, At, Kind, MainStep
<1>2. Ends(session, session')
    BY <1>1 DEF Inv, Ends, Calmer
<1>3. flow' \in Flow /\ FlowMounted'
    BY <1>1 DEF Inv, TypeOK, FlowMounted
<1> QED
    BY <1>1, <1>2, <1>3, ExportFacts, MainFacts, EndInv DEF Inv, TypeOK

LEMMA ModelFailsInv ==
    ASSUME Inv, NEW r \in Rid, ModelFails(r)
    PROVE  Inv'
<1>1. /\ At(r, Kind, MainStep) /\ session' = RequestFailed(session, r, "plain")
      /\ UNCHANGED <<analysis, exporter>> /\ DropResult(r)
    BY DEF ModelFails, At, Kind, MainStep, clients
<1>2. /\ Ends(session, session')
      /\ session'.phase \in WorkingPhase => session.requestId # r
    BY <1>1, FailedSound DEF Inv, WorkingPhase, PendingPhase
<1> QED
    BY <1>1, <1>2, MainFacts, DropInv DEF Inv, TypeOK

(* The export r asks the export client for the format f; the session may   *)
(* have begun to show it.                                                  *)
LEMMA FormatStep ==
    ASSUME Inv, NEW r \in Rid, jobs[r] # None, jobs[r].kind = "export",
           NEW f \in Format, jobs' = Step(jobs, r, f),
           Waiting(exporter) \subseteq {r},
           exporter' \in Client, Waiting(exporter)' = {r}, analysis' = analysis,
           Sound(session'), session'.requestId = session.requestId,
           session'.active = session.active,
           session'.scenarioRequestId \in {None, session.scenarioRequestId},
           session'.phase # session.phase =>
              session.phase = "ready" /\ session'.phase = "exporting",
           session'.phase \in PendingPhase => session'.pending = session.pending,
           session'.phase = "exporting" => session'.export.model = jobs[r].model,
           urls' \subseteq Nat \X Format,
           flow' = flow, picker' = picker, clearing' = clearing, history' = history,
           refused' = refused
    PROVE  Inv'
<1> DEFINE job == [jobs[r] EXCEPT !.step = f]
<1>1. /\ jobs[r] \in Job /\ jobs[r].model \in Model /\ r \notin Waiting(analysis)
      /\ jobs[r].model.src = jobs[r].src
    BY ExportFacts
<1>2. /\ job \in Job /\ job.kind = "export" /\ job.step = f
      /\ job.model = jobs[r].model /\ job.src = jobs[r].src
    BY <1>1 DEF Job, Format, WorkerStep
<1>3. jobs' = [jobs EXCEPT ![r] = job]
    BY DEF Step
<1> HIDE DEF job
<1>4. /\ jobs' \in [Rid -> Job \cup {None}] /\ job # None
      /\ \A x \in Rid : jobs'[x] = IF x = r THEN job ELSE jobs[x]
    BY <1>2, <1>3, RidAssumption DEF Inv, TypeOK, RidAssumption
<1>5. TypeOK' /\ Sound(session)'
    BY <1>4 DEF Inv, TypeOK, Sound, history
<1>6. JobShape'
    BY <1>1, <1>2, <1>4, NoneAssumption DEF Inv, JobShape, Shaped, SourceKind, NoneAssumption
<1>7. JobInFlight'
    BY <1>1, <1>2, <1>4 DEF Inv, JobInFlight, At
<1>8. LiveRequest'
  <2>1. session'.phase \in WorkingPhase =>
            \E x \in Rid : session'.requestId = x /\ At(x, SourceKind, WorkerStep \cup MainStep)'
    <3>1. ASSUME session'.phase \in WorkingPhase
          PROVE  \E x \in Rid : session'.requestId = x
                                 /\ At(x, SourceKind, WorkerStep \cup MainStep)'
      <4>1. session.phase \in WorkingPhase
          BY <3>1 DEF WorkingPhase, PendingPhase
      <4>2. PICK x \in Rid : session.requestId = x
                             /\ At(x, SourceKind, WorkerStep \cup MainStep)
          BY <4>1 DEF Inv, LiveRequest
      <4>3. x # r
          BY <4>2 DEF At, SourceKind
      <4> QED
          BY <1>4, <4>2, <4>3 DEF At
    <3> QED
        BY <3>1
  <2>2. ASSUME NEW x \in Rid, session'.requestId = x, jobs'[x] # None
        PROVE  /\ jobs'[x].kind \in SourceKind \cup {"export"}
               /\ jobs'[x].kind \in SourceKind =>
                    /\ session'.phase \in WorkingPhase
                    /\ jobs'[x].src = session'.pending.src
                    /\ session'.phase = "reading" => jobs'[x].step \in {"load", "ingest"}
    <3>1. CASE x = r
        BY <1>2, <1>4, <3>1 DEF SourceKind
    <3>2. CASE x # r
      <4>1. jobs'[x] = jobs[x] /\ session.requestId = x
          BY <1>4, <2>2, <3>2
      <4>2. jobs[x].kind \in SourceKind =>
                session'.phase = session.phase /\ session'.pending = session.pending
          BY <2>2, <4>1, LiveSource DEF WorkingPhase, PendingPhase
      <4> QED
          BY <2>2, <4>1, <4>2 DEF Inv, LiveRequest
    <3> QED
        BY <3>1, <3>2
  <2>3. session'.phase \in PendingPhase => Waiting(analysis)' \subseteq {session'.requestId}
      BY DEF Inv, LiveRequest, PendingPhase
  <2> QED
      BY <2>1, <2>2, <2>3 DEF LiveRequest
<1>9. LiveScenario'
    BY <1>4, NoneAssumption DEF Inv, LiveScenario, NoneAssumption
<1>10. LiveExport'
    BY <1>2, <1>4 DEF LiveExport
<1>11. FlowMounted'
    BY DEF Inv, FlowMounted
<1>12. FreeRids \subseteq FreeRids'
    BY <1>4, NoneAssumption DEF FreeRids, NoneAssumption
<1> QED
    BY <1>5, <1>6, <1>7, <1>8, <1>9, <1>10, <1>11, <1>12 DEF Inv

(* The export begins, or ends at once where the client is still busy.      *)
LEMMA ModelBuiltInv ==
    ASSUME Inv, NEW r \in Rid, ModelBuilt(r)
    PROVE  Inv'
<1> DEFINE s == ExportBegin(session, jobs[r].model)
<1>1. /\ At(r, Kind, MainStep) /\ jobs[r] # None /\ jobs[r].kind = "export"
      /\ session.requestId = r /\ session.active = jobs[r].src
      /\ IF Waiting(exporter) = {}
         THEN /\ session' = s
              /\ exporter' = Posted(ExportClient, r)
              /\ jobs' = Step(jobs, r, "xlsx")
              /\ refused' = refused
         ELSE /\ session' = ExportFinished(s)
              /\ jobs' = Without({r})
              /\ refused' = refused \cup {"export"}
              /\ exporter' = exporter
      /\ UNCHANGED <<analysis, flow, picker, urls, clearing, history>>
    BY DEF ModelBuilt, At, Kind, MainStep, Superseded
<1>2. /\ jobs[r].model \in Model /\ jobs[r].model.src = session.active
      /\ session.phase \notin WorkingPhase
    BY <1>1, ExportFacts
<1>3. /\ Sound(s) /\ s.requestId = session.requestId /\ s.active = session.active
      /\ s.pending = session.pending /\ s.scenarioRequestId = session.scenarioRequestId
      /\ session.phase # "ready" => s = session
      /\ session.phase = "ready" => s.phase = "exporting" /\ s.export.model = jobs[r].model
    BY <1>2, ExportSound DEF Inv
<1> HIDE DEF s
<1>4. CASE Waiting(exporter) = {}
  <2>1. /\ session' = s /\ exporter' = Posted(ExportClient, r)
        /\ jobs' = Step(jobs, r, "xlsx") /\ refused' = refused
      BY <1>1, <1>4
  <2>2. exporter' \in Client /\ Waiting(exporter)' = {r}
    <3>1. ExportClient \in Client
        BY ClientFacts DEF ExportClient, Inv, TypeOK
    <3> QED
        BY <2>1, <3>1, ClientFacts
  <2>3. session.phase # "exporting"
      BY <1>4 DEF Inv, LiveExport
  <2>4. /\ session'.phase # session.phase =>
              session.phase = "ready" /\ session'.phase = "exporting"
        /\ session'.phase = "exporting" => session'.export.model = jobs[r].model
      BY <1>3, <2>1, <2>3
  <2>5. "xlsx" \in Format /\ urls' \subseteq Nat \X Format
      BY <1>1 DEF Format, Inv, TypeOK
  <2> QED
      BY <1>1, <1>3, <1>4, <2>1, <2>2, <2>4, <2>5, FormatStep
<1>5. CASE Waiting(exporter) # {}
  <2>1. /\ session' = ExportFinished(s) /\ jobs' = Without({r})
        /\ refused' = refused \cup {"export"} /\ exporter' = exporter
      BY <1>1, <1>5
  <2>2. /\ Ends(s, session') /\ session'.phase # "exporting"
        /\ s.phase \notin DatasetPhase => session' = s
        /\ s.phase \in DatasetPhase => session'.phase = "ready"
        /\ session'.requestId = s.requestId
      BY <1>3, <2>1, FinishedSound
  <2>3. Ends(session, session')
    <3>1. CASE session.phase = "ready"
        BY <1>3, <2>2, <3>1 DEF Ends, Calmer, DatasetPhase
    <3>2. CASE session.phase # "ready"
        BY <1>3, <2>2, <3>2
    <3> QED
        BY <3>1, <3>2
  <2>4. session'.phase \notin WorkingPhase
      BY <1>2, <2>2, <2>3, CalmerPending DEF Ends, WorkingPhase, PendingPhase
  <2>5. refused' \subseteq Kind /\ refused' \cap SourceKind = {}
      BY <2>1 DEF Inv, TypeOK, Kind, SourceKind
  <2>6. flow' \in Flow /\ FlowMounted'
    <3>1. flow.stage # "idle" => session' = session
        BY <1>3, <2>2 DEF Inv, FlowMounted, DatasetPhase
    <3> QED
        BY <1>1, <3>1 DEF Inv, TypeOK, FlowMounted
  <2>7. /\ {r} \in SUBSET Rid
        /\ Waiting(analysis)' = Waiting(analysis) \ {r}
        /\ Waiting(exporter)' = Waiting(exporter) \ {r}
      BY <1>1, <2>1, MainFacts
  <2>8. /\ lastSource' \in {"none", "attached", "detached"}
        /\ begun' \in Nat /\ prepared' \in Nat
      BY <1>1 DEF Inv, TypeOK, history
  <2> QED
      BY <1>1, <2>1, <2>2, <2>3, <2>4, <2>5, <2>6, <2>7, <2>8, CalmInv DEF Inv, TypeOK
<1> QED
    BY <1>4, <1>5

(* A format that is settled is that of the export in flight.               *)
LEMMA SettledFacts ==
    ASSUME Inv, NEW r \in Waiting(exporter)
    PROVE  /\ r \in Rid /\ Waiting(exporter) = {r} /\ exporter \in Client
           /\ jobs[r] # None /\ jobs[r].kind = "export" /\ jobs[r].step \in Format
           /\ session.phase = "exporting" => session.export.model = jobs[r].model
<1>1. r \in Rid /\ Waiting(exporter) = {r} /\ exporter \in Client
    BY OneWaiting DEF Inv, TypeOK, Waiting
<1>2. At(r, {"export"}, Format)
    BY <1>1 DEF Inv, JobInFlight
<1>3. session.phase = "exporting" => session.export.model = jobs[r].model
    BY <1>1 DEF Inv, LiveExport
<1> QED
    BY <1>1, <1>2, <1>3 DEF At

(* After a format the next one is asked for, or the export is finished.    *)
LEMMA NextFormatInv ==
    ASSUME Inv, NEW r \in Waiting(exporter), NEW s, NEW client \in Client,
           Waiting(client) = {}, NextFormat(r, s, client),
           Ends(session, s), s.phase = session.phase, s.requestId = session.requestId,
           s.active = session.active, s.export.model = session.export.model,
           urls' \subseteq Nat \X Format,
           UNCHANGED <<analysis, flow, picker, clearing, history, refused>>
    PROVE  Inv'
<1>1. /\ r \in Rid /\ Waiting(exporter) = {r} /\ exporter \in Client
      /\ jobs[r] # None /\ jobs[r].kind = "export" /\ jobs[r].step \in Format
      /\ session.phase = "exporting" => session.export.model = jobs[r].model
    BY SettledFacts
<1>2. CASE jobs[r].step = "xlsx"
  <2>1. /\ session' = s /\ exporter' = Posted(client, r) /\ jobs' = Step(jobs, r, "pptx")
      BY <1>2 DEF NextFormat
  <2>2. exporter' \in Client /\ Waiting(exporter)' = {r}
      BY <1>1, <2>1, ClientFacts
  <2>3. /\ session'.scenarioRequestId \in {None, session.scenarioRequestId}
        /\ session'.phase \in PendingPhase => session'.pending = session.pending
        /\ session'.phase = "exporting" => session'.export.model = jobs[r].model
        /\ Sound(session')
      BY <1>1, <2>1, CalmerPending DEF Ends
  <2>4. "pptx" \in Format
      BY DEF Format
  <2> QED
      BY <1>1, <2>1, <2>2, <2>3, <2>4, FormatStep
<1>3. CASE jobs[r].step # "xlsx"
  <2>1. /\ session' = ExportFinished(s) /\ exporter' = client /\ jobs' = Without({r})
      BY <1>3 DEF NextFormat
  <2>2. /\ Ends(s, session') /\ session'.phase # "exporting"
        /\ s.phase \notin DatasetPhase => session' = s
      BY <2>1, FinishedSound DEF Ends
  <2>3. Ends(session, session')
      BY <2>2, CalmerTransitive DEF Ends
  <2>4. session'.phase \in WorkingPhase => session.requestId # r
      BY <1>1, <2>3, ExportFacts, CalmerPending DEF Ends, WorkingPhase
  <2>5. flow' \in Flow /\ FlowMounted'
      BY <2>2 DEF Inv, TypeOK, FlowMounted, DatasetPhase
  <2>6. r \notin Waiting(analysis)
      BY <1>1, ExportFacts
  <2> QED
      BY <1>1, <2>1, <2>2, <2>3, <2>4, <2>5, <2>6, EndInv DEF Inv, TypeOK
<1> QED
    BY <1>2, <1>3

LEMMA ExportAnsweredInv ==
    ASSUME Inv, NEW r \in Rid, ExportAnswered(r)
    PROVE  Inv'
<1> DEFINE s == ExportDone(session, jobs[r].step, jobs[r].model)
<1>1. /\ r \in Waiting(exporter)
      /\ urls' = urls \cup {<<jobs[r].model.run, jobs[r].step>>}
      /\ NextFormat(r, s, Answered(exporter))
      /\ UNCHANGED <<analysis, flow, picker, clearing, history, refused>>
    BY DEF ExportAnswered, ExportVars
<1>2. jobs[r].model \in Model /\ jobs[r].step \in Format /\ exporter \in Client
    BY <1>1, SettledFacts, ExportFacts
<1>3. /\ Ends(session, s) /\ s.phase = session.phase /\ s.requestId = session.requestId
      /\ s.active = session.active /\ s.export.model = session.export.model
    BY <1>2, DoneSound DEF Inv
<1>4. urls' \subseteq Nat \X Format
    BY <1>1, <1>2 DEF Inv, TypeOK, Model
<1>5. Answered(exporter) \in Client /\ Waiting(Answered(exporter)) = {}
    BY <1>2, ClientFacts
<1> HIDE DEF s
<1> QED
    BY <1>1, <1>3, <1>4, <1>5, NextFormatInv

LEMMA FormatFailsInv ==
    ASSUME Inv, NEW r \in Rid, FormatFails(r)
    PROVE  Inv'
<1>1. /\ r \in Waiting(exporter)
      /\ UNCHANGED <<urls, analysis, flow, picker, clearing, history, refused>>
    BY DEF FormatFails, ExportVars
<1>2. PICK client \in {Answered(exporter), Cancelled(exporter)} : NextFormat(r, session, client)
    BY DEF FormatFails
<1>3. client \in Client /\ Waiting(client) = {}
  <2>1. exporter \in Client /\ exporter.opts \in Options \cup {None} /\ exporter # None
      BY <1>1, SettledFacts, RidAssumption DEF Client, RidAssumption
  <2> QED
      BY <1>2, <2>1, ClientFacts DEF Cancelled
<1>4. Ends(session, session)
    BY DEF Inv, Ends, Calmer
<1> QED
    BY <1>1, <1>2, <1>3, <1>4, NextFormatInv DEF Inv, TypeOK

-----------------------------------------------------------------------------
(* Every step                                                              *)

LEMMA InitInv == Init => Inv
<1> SUFFICES ASSUME Init PROVE Inv
    OBVIOUS
<1>1. /\ Sound(session) /\ session.phase = "idle"
      /\ session.requestId = None /\ session.scenarioRequestId = None
    BY InitialSound DEF Init, InitialSession
<1>2. \A r \in Rid : jobs[r] = None
    BY DEF Init
<1>3. Waiting(analysis) = {} /\ Waiting(exporter) = {}
    BY DEF Init, Waiting
<1>4. TypeOK
    BY <1>1 DEF Init, TypeOK, Sound, NoFlow, Flow
<1>5. JobShape /\ JobInFlight
    BY <1>2, <1>3 DEF JobShape, JobInFlight, At
<1>6. LiveRequest /\ LiveScenario /\ LiveExport
    BY <1>1, <1>2 DEF LiveRequest, LiveScenario, LiveExport, WorkingPhase, PendingPhase
<1>7. FlowMounted
    BY DEF Init, FlowMounted, NoFlow
<1>8. FreeRids = Rid
    BY <1>1, <1>2, NoneAssumption DEF FreeRids, NoneAssumption
<1> QED
    BY <1>1, <1>4, <1>5, <1>6, <1>7, <1>8, RidAssumption DEF Inv, Init, RidAssumption

LEMMA NextInv == Inv /\ [Next]_vars => Inv'
<1> SUFFICES ASSUME Inv, [Next]_vars PROVE Inv'
    OBVIOUS
<1>1. ASSUME NEW r \in Rid, SourceSettles(r) PROVE Inv'
    BY <1>1, SourceLoadedInv, SourceUnreadableInv, SourceAmbiguousInv, StaleResultInv,
       IngestedInv, ProfiledInv, NormalizedInv, AnalyzedInv, FlowParsedInv, FlowProfiledInv,
       ScenarioAnsweredInv, AnalysisFailsInv DEF SourceSettles
<1>2. ASSUME NEW r \in Rid, ExportSettles(r) PROVE Inv'
    BY <1>2, ModelSupersededInv, ModelBuiltInv, ModelFailsInv, ExportAnsweredInv,
       FormatFailsInv DEF ExportSettles
<1>3. CASE SelectSource
    BY <1>3, BeginInv DEF SelectSource, SourceKind
<1>4. CASE RetrySource
  <2>1. lastSource' \in {"none", "attached", "detached"}
      BY <1>4 DEF RetrySource, Inv, TypeOK
  <2> QED
      BY <1>4, <2>1, BeginInv DEF RetrySource, SourceKind
<1>5. CASE UseSample
  <2>1. lastSource' \in {"none", "attached", "detached"}
      BY <1>5 DEF UseSample, Inv, TypeOK
  <2> QED
      BY <1>5, <2>1, BeginInv DEF UseSample, SourceKind
<1>6. CASE \/ ApproveReview \/ CancelWork \/ IdleCrash
           \/ \E opts \in Options : FlowParse(opts)
           \/ FlowAbort \/ AdoptUploadOutcome
    BY <1>6, ApproveInv, CancelWorkInv, IdleCrashInv, FlowParseInv, FlowAbortInv, AdoptInv
<1>7. CASE \/ SubmitScenario \/ ResetScenario
           \/ PrepareExport \/ CancelExport
           \/ ReplaySession \/ ClearSession \/ ClearEnds
    BY <1>7, SubmitScenarioInv, ResetScenarioInv, PrepareExportInv, CancelExportInv,
       ReplayInv, ClearSessionInv, ClearEndsInv
<1>8. CASE UNCHANGED vars
  <2>1. UNCHANGED <<session, jobs, analysis, exporter, flow, picker, urls, clearing, history,
                    refused>>
      BY <1>8 DEF vars, clients
  <2>2. Ends(session, session') /\ flow' \in Flow /\ FlowMounted'
      BY <2>1 DEF Inv, TypeOK, FlowMounted, Ends, Calmer
  <2> QED
      BY <2>1, <2>2, StillInv DEF Inv, TypeOK
<1> QED
    BY <1>1, <1>2, <1>3, <1>4, <1>5, <1>6, <1>7, <1>8 DEF Next

LEMMA Invariance == Spec => []Inv
<1>1. Spec => Init /\ [][Next]_vars
    BY PTL DEF Spec
<1> QED
    BY <1>1, InitInv, NextInv, PTL

-----------------------------------------------------------------------------
(* The properties                                                          *)

(* The phase on show agrees with the data of the session.                  *)
THEOREM Agreement == Spec => []PhaseAgrees
<1>1. Inv => PhaseAgrees
    BY DEF Inv, Sound, PhaseAgrees
<1> QED
    BY Invariance, <1>1, PTL

(* A phase that shows progress has a job at work under the live request,   *)
(* for the source or the export that it shows.                             *)
THEOREM Progress == Spec => []NoParkedPhase
<1>1. Inv => NoParkedPhase
  <2> SUFFICES ASSUME Inv PROVE NoParkedPhase
      OBVIOUS
  <2>1. ASSUME session.phase \in WorkingPhase
        PROVE  \E r \in Rid : /\ session.requestId = r
                              /\ At(r, SourceKind, WorkerStep \cup MainStep)
                              /\ jobs[r].src = session.pending.src
    <3>1. PICK r \in Rid : session.requestId = r /\ At(r, SourceKind, WorkerStep \cup MainStep)
        BY <2>1 DEF Inv, LiveRequest
    <3>2. jobs[r].src = session.pending.src
        BY <3>1, LiveSource DEF At
    <3> QED
        BY <3>1, <3>2
  <2>2. session.phase = "exporting" =>
           /\ CurrentEpoch(session)
           /\ \E r \in Waiting(exporter) : jobs[r].model = session.export.model
      BY DEF Inv, Sound, LiveExport
  <2> QED
      BY <2>1, <2>2 DEF NoParkedPhase
<1> QED
    BY Invariance, <1>1, PTL

(* Every job that waits for a worker is the one its client has in flight.  *)
THEOREM NothingStranded == Spec => []NoStrandedJob
<1>1. Inv => NoStrandedJob
  <2> SUFFICES ASSUME Inv, NEW r \in Rid, At(r, Kind, WorkerStep)
               PROVE  r \in IF jobs[r].kind = "export" THEN Waiting(exporter)
                            ELSE Waiting(analysis)
      BY DEF NoStrandedJob
  <2>1. CASE jobs[r].kind = "export"
    <3>1. jobs[r].step \in Format
        BY <2>1, ExportFacts DEF At, WorkerStep
    <3> QED
        BY <2>1, <3>1 DEF Inv, JobInFlight, At
  <2>2. CASE jobs[r].kind # "export"
      BY <2>2 DEF Inv, JobInFlight, At
  <2> QED
      BY <2>1, <2>2
<1> QED
    BY Invariance, <1>1, PTL

(* The scenario and the export model on show are of the committed dataset. *)
THEOREM OneDataset == Spec => []ResultsOfDataset
<1>1. Inv => ResultsOfDataset
    BY DEF Inv, Sound, ResultsOfDataset
<1> QED
    BY Invariance, <1>1, PTL

-----------------------------------------------------------------------------
(* The committed dataset                                                   *)

(* A request that is refused fails, and takes no dataset along.            *)
LEMMA RequestKeepsDataset ==
    ASSUME NEW client, NEW s, Sound(s), NEW js, NEW r \in Rid, NEW step,
           RequestOn(client, s, js, r, step)
    PROVE  session'.active = s.active
<1>1. session' = s \/ session' = RequestFailed(s, r, "plain")
    BY DEF RequestOn
<1> QED
    BY <1>1, FailedSound

LEMMA NormalizeKeepsDataset ==
    ASSUME NEW s, Sound(s), NEW r \in Rid, NEW kind, NEW src, Normalize(s, r, kind, src)
    PROVE  session'.active = s.active
<1>1. CASE analysis = None
  <2>1. session' = RequestFailed(s, r, "plain")
      BY <1>1 DEF Normalize
  <2> QED
      BY <2>1, FailedSound
<1>2. CASE analysis # None
    BY <1>2, RequestKeepsDataset DEF Normalize
<1> QED
    BY <1>1, <1>2

LEMMA CancelKeepsDataset ==
    ASSUME Inv, NEW s, Sound(s), CancelClients(s)
    PROVE  session'.active = s.active
<1>1. /\ analysis \in Client \cup {None} /\ exporter \in Client \cup {None}
      /\ session' = AfterRejecting(AfterRejecting(s, Waiting(analysis)), Waiting(exporter))
    BY DEF Inv, TypeOK, CancelClients
<1> QED
    BY <1>1, AfterRejectingEnds DEF Ends

(* What settles a job of the analysis client, or of the main thread on its *)
(* way there, commits a dataset only when the live source is analyzed.     *)
LEMMA SourceDataset ==
    ASSUME Inv, NEW r \in Rid, SourceSettles(r)
    PROVE  \/ session'.active = session.active
           \/ session.pending # None /\ session'.active = session.pending.src
<1>1. CASE SourceLoaded(r)
  <2>1. CASE session.requestId # r
      BY <1>1, <2>1 DEF SourceLoaded, Superseded
  <2>2. CASE session.requestId = r
    <3> DEFINE opts == IF jobs[r].kind = "sample" THEN Manifest ELSE Default
               client == EnsureAnalysis(analysis, opts)
               lost == IF client = analysis THEN {} ELSE Waiting(analysis)
               s == AfterRejecting(session, lost)
    <3>1. RequestOn(client, s, Without(lost), r, "ingest")
        BY <1>1, <2>2 DEF SourceLoaded, Superseded
    <3>2. Sound(s) /\ s.active = session.active
      <4>1. CASE lost = {}
          BY <4>1 DEF AfterRejecting, Inv
      <4>2. CASE lost = Waiting(analysis)
          BY <4>2, AfterRejectingEnds DEF Inv, TypeOK, Ends
      <4> QED
          BY <4>1, <4>2
    <3> HIDE DEF s, client, lost
    <3> QED
        BY <3>1, <3>2, RequestKeepsDataset
  <2> QED
      BY <2>1, <2>2
<1>2. CASE SourceUnreadable(r)
  <2>1. PICK error \in {"plain", "retry"} : session' = RequestFailed(session, r, error)
      BY <1>2 DEF SourceUnreadable
  <2> QED
      BY <2>1, FailedSound DEF Inv
<1>3. CASE SourceAmbiguous(r)
  <2>1. session' = DeferToPicker(session, r)
      BY <1>3 DEF SourceAmbiguous
  <2> QED
      BY <2>1 DEF DeferToPicker, Inv, Sound, Session
<1>4. CASE StaleResult(r) \/ FlowParsed(r) \/ FlowProfiled(r)
    BY <1>4 DEF StaleResult, FlowParsed, FlowProfiled
<1>5. CASE Ingested(r)
  <2>1. /\ jobs[r] # None /\ jobs[r].kind \in SourceKind /\ session.requestId = r
      BY <1>5 DEF Ingested, Answers, Superseded, At
  <2>2. Sound(IngestDone(session, r)) /\ IngestDone(session, r).active = session.active
      BY <2>1, LiveSource, ParsedSound DEF Inv
  <2> QED
      BY <1>5, <2>2, RequestKeepsDataset DEF Ingested
<1>6. CASE Profiled(r)
  <2>1. /\ jobs[r] # None /\ jobs[r].kind \in SourceKind /\ session.requestId = r
        /\ jobs[r].step = "profile"
      BY <1>6 DEF Profiled, Answers, Superseded, At
  <2>2. PICK actionable \in BOOLEAN :
            LET s == ProfileDone(session, r, actionable)
            IN \/ session' = s
               \/ RequestOn(Answered(analysis), RequestStart(s, NewRid),
                            Rotated(r, NewRid), NewRid, "normalize")
      BY <1>6 DEF Profiled
  <2> DEFINE s == ProfileDone(session, r, actionable)
  <2>3. Sound(s) /\ s.active = session.active
      BY <2>1, ProfiledFacts
  <2> HIDE DEF s
  <2>4. NewRid \in Rid
      BY NewRidFree DEF Inv
  <2>5. Sound(RequestStart(s, NewRid)) /\ RequestStart(s, NewRid).active = s.active
      BY <2>3, <2>4, StartSound
  <2>6. \/ session' = s
        \/ RequestOn(Answered(analysis), RequestStart(s, NewRid),
                     Rotated(r, NewRid), NewRid, "normalize")
      BY <2>2 DEF s
  <2> QED
      BY <2>3, <2>4, <2>5, <2>6, RequestKeepsDataset
<1>7. CASE Normalized(r)
  <2>1. NewRid \in Rid
      BY NewRidFree DEF Inv
  <2>2. /\ Sound(RequestStart(session, NewRid))
        /\ RequestStart(session, NewRid).active = session.active
      BY <2>1, StartSound DEF Inv
  <2> QED
      BY <1>7, <2>1, <2>2, RequestKeepsDataset DEF Normalized
<1>8. CASE Analyzed(r)
  <2>1. /\ jobs[r] # None /\ jobs[r].kind \in SourceKind /\ session.requestId = r
        /\ session' = AnalyzeDone(session, r, jobs[r].src)
      BY <1>8 DEF Analyzed, Answers, Superseded, At, SourceKind
  <2>2. jobs[r].src = session.pending.src /\ session.pending # None
      BY <2>1, LiveSource DEF Inv, Sound
  <2>3. session.pending.src \in Source
      BY <2>1, LiveSource DEF Pending
  <2> QED
      BY <2>1, <2>2, <2>3, AnalyzeSound DEF Inv
<1>9. CASE ScenarioAnswered(r)
  <2>1. session' = ScenarioDone(session, r, jobs[r].src)
      BY <1>9 DEF ScenarioAnswered
  <2> QED
      BY <2>1 DEF ScenarioDone, Inv, Sound, Session
<1>10. CASE AnalysisFails(r)
  <2>1. \/ \E error \in {"plain", "retry"} : session' = RequestFailed(session, r, error)
        \/ session' = ScenarioFailed(session, r)
        \/ session' = session
      BY <1>10 DEF AnalysisFails
  <2> QED
      BY <2>1, FailedSound, ScenarioFails DEF Inv
<1> QED
    BY <1>1, <1>2, <1>3, <1>4, <1>5, <1>6, <1>7, <1>8, <1>9, <1>10 DEF SourceSettles

(* No export touches the dataset.                                          *)
LEMMA ExportDataset ==
    ASSUME Inv, NEW r \in Rid, ExportSettles(r)
    PROVE  session'.active = session.active
<1>1. CASE ModelSuperseded(r)
    BY <1>1 DEF ModelSuperseded
<1>2. CASE ModelBuilt(r)
  <2> DEFINE s == ExportBegin(session, jobs[r].model)
  <2>1. session' = s \/ session' = ExportFinished(s)
      BY <1>2 DEF ModelBuilt
  <2>2. jobs[r].model \in Model /\ jobs[r].model.src = session.active
      BY <1>2, ExportFacts DEF ModelBuilt, At
  <2>3. Sound(s) /\ s.active = session.active
      BY <2>2, ExportSound DEF Inv
  <2> HIDE DEF s
  <2> QED
      BY <2>1, <2>3, FinishedSound
<1>3. CASE ModelFails(r)
    BY <1>3, FailedSound DEF ModelFails, Inv
<1>4. ASSUME NEW s, NEW client, NextFormat(r, s, client), Sound(s)
      PROVE  session'.active = s.active
  <2>1. session' = s \/ session' = ExportFinished(s)
      BY <1>4 DEF NextFormat
  <2> QED
      BY <1>4, <2>1, FinishedSound
<1>5. CASE ExportAnswered(r)
  <2>1. jobs[r].model \in Model /\ jobs[r].step \in Format
      BY <1>5, SettledFacts, ExportFacts DEF ExportAnswered
  <2>2. /\ Sound(ExportDone(session, jobs[r].step, jobs[r].model))
        /\ ExportDone(session, jobs[r].step, jobs[r].model).active = session.active
      BY <2>1, DoneSound DEF Inv, Ends
  <2> QED
      BY <1>4, <1>5, <2>2 DEF ExportAnswered
<1>6. CASE FormatFails(r)
    BY <1>4, <1>6 DEF FormatFails, Inv
<1> QED
    BY <1>1, <1>2, <1>3, <1>5, <1>6 DEF ExportSettles

(* The committed dataset is replaced only by the one that was pending, and *)
(* lost only to a teardown: nothing that fails, is cancelled or superseded *)
(* touches it.                                                             *)
THEOREM DatasetSurvives == Spec => DatasetChanges
<1> DEFINE Changes == session'.active # session.active =>
              \/ session.pending # None /\ session'.active = session.pending.src
              \/ session' = InitialSession
<1>1. ASSUME Inv, [Next]_vars PROVE [Changes]_vars
  <2>1. CASE \E r \in Rid : SourceSettles(r) \/ ExportSettles(r)
      BY <1>1, <2>1, SourceDataset, ExportDataset
  <2>2. ASSUME NEW kind \in SourceKind, BeginSource(kind)
        PROVE  session'.active = session.active
    <3> DEFINE s == RequestStart(SourceBegin(LiveWorkCancelled(session), kind, begun + 1), NewRid)
    <3>1. CancelClients(s)
        BY <2>2 DEF BeginSource
    <3>2. NewRid \in Rid /\ begun + 1 \in Source
        BY <1>1, NewRidFree DEF Inv, TypeOK, Source
    <3>3. /\ Sound(LiveWorkCancelled(session))
          /\ LiveWorkCancelled(session).active = session.active
        BY <1>1, LiveWorkEnds DEF Inv, Ends
    <3>4. Sound(s) /\ s.active = session.active
        BY <3>2, <3>3, BeginSound
    <3> HIDE DEF s
    <3> QED
        BY <1>1, <3>1, <3>4, CancelKeepsDataset
  <2>3. CASE SelectSource \/ RetrySource \/ UseSample
      BY <2>2, <2>3 DEF SelectSource, RetrySource, UseSample, SourceKind
  <2>4. CASE ApproveReview
    <3> DEFINE s == RequestStart(ReviewApprove(session), NewRid)
    <3>1. /\ session.phase = "needsReview"
          /\ Normalize(s, NewRid, session.pending.kind, session.pending.src)
        BY <2>4 DEF ApproveReview
    <3>2. Sound(s) /\ s.active = session.active /\ NewRid \in Rid
        BY <1>1, <3>1, ApprovedFacts, NewRidFree DEF Inv
    <3> HIDE DEF s
    <3> QED
        BY <3>1, <3>2, NormalizeKeepsDataset
  <2>5. CASE CancelWork
      BY <1>1, <2>5, LiveWorkEnds, CancelKeepsDataset DEF CancelWork, Inv, Ends
  <2>6. CASE IdleCrash
      BY <2>6 DEF IdleCrash
  <2>7. CASE (\E opts \in Options : FlowParse(opts)) \/ FlowAbort
    <3>1. session' \in {AfterRejecting(session, {}), AfterRejecting(session, Waiting(analysis))}
        BY <2>7 DEF FlowParse, FlowAbort
    <3>2. AfterRejecting(session, {}) = session
        BY DEF AfterRejecting
    <3> QED
        BY <1>1, <3>1, <3>2, AfterRejectingEnds DEF Inv, TypeOK
  <2>8. CASE AdoptUploadOutcome
    <3> DEFINE s == ProfileDone(IngestDone(RequestStart(SourceBegin(session, "upload", flow.src),
                                                        NewRid), NewRid), NewRid, FALSE)
    <3>1. flow.stage = "review" /\ Normalize(s, NewRid, "upload", flow.src)
        BY <2>8 DEF AdoptUploadOutcome
    <3>2. Sound(s) /\ s.active = session.active /\ NewRid \in Rid
        BY <1>1, <3>1, AdoptedFacts, NewRidFree DEF Inv
    <3> HIDE DEF s
    <3> QED
        BY <3>1, <3>2, NormalizeKeepsDataset
  <2>9. CASE SubmitScenario
    <3> DEFINE s == ScenarioSubmit(session, NewRid)
    <3>1. session' = s \/ session' = ScenarioFailed(s, NewRid)
        BY <2>9 DEF SubmitScenario
    <3>2. NewRid \in Rid
        BY <1>1, NewRidFree DEF Inv
    <3>3. Sound(s) /\ s.active = session.active
        BY <1>1, <3>2, SubmitSound DEF Inv
    <3> HIDE DEF s
    <3> QED
        BY <3>1, <3>2, <3>3, ScenarioFails
  <2>10. CASE ResetScenario
      BY <1>1, <2>10 DEF ResetScenario, ScenarioReset, Inv, Sound, Session
  <2>11. CASE PrepareExport
      BY <1>1, <2>11, NewRidFree, StartSound DEF PrepareExport, Inv
  <2>12. CASE CancelExport
    <3> DEFINE s == IF session.requestId = None THEN session
                    ELSE RequestCancelled(session, session.requestId)
    <3>1. session' = AfterRejecting(s, Waiting(exporter))
        BY <2>12 DEF CancelExport
    <3>2. Sound(s) /\ s.active = session.active
      <4>1. session.requestId \in Rid \cup {None}
          BY <1>1 DEF Inv, Sound, Session
      <4> QED
          BY <1>1, <4>1, CancelledSound DEF Inv, Ends
    <3> HIDE DEF s
    <3> QED
        BY <1>1, <3>1, <3>2, AfterRejectingEnds DEF Inv, TypeOK
  <2>13. CASE ReplaySession
      BY <1>1, <2>13, ReplaySound DEF ReplaySession, Inv
  <2>14. CASE ClearSession
    <3> DEFINE s == AfterRejecting(session, Waiting(analysis))
    <3>1. session' \in {AfterRejecting(s, Waiting(exporter)), InitialSession}
        BY <2>14 DEF ClearSession
    <3>2. Sound(s) /\ s.active = session.active
        BY <1>1, AfterRejectingEnds DEF Inv, TypeOK, Ends
    <3> HIDE DEF s
    <3> QED
        BY <1>1, <3>1, <3>2, AfterRejectingEnds DEF Inv, TypeOK
  <2>15. CASE ClearEnds
      BY <2>15 DEF ClearEnds
  <2>16. CASE UNCHANGED vars
      BY <2>16
  <2> QED
      BY <1>1, <2>1, <2>3, <2>4, <2>5, <2>6, <2>7, <2>8, <2>9, <2>10, <2>11, <2>12, <2>13,
         <2>14, <2>15, <2>16 DEF Next
<1>2. Inv /\ [Next]_vars => [Changes]_vars
    BY <1>1
<1>3. Spec => [][Next]_vars
    BY PTL DEF Spec
<1> QED
    BY Invariance, <1>2, <1>3, PTL DEF DatasetChanges

-----------------------------------------------------------------------------
(* Exports while nothing is torn down                                      *)

(* Session t shows the export that s shows.                                *)
SameExport(s, t) ==
    t.export.model = s.export.model /\ t.export.artifacts = s.export.artifacts

LEMMA ExportUntouched ==
    ASSUME NEW s, Sound(s), NEW r, NEW error, NEW src, NEW kind, NEW actionable,
           NEW t \in {s, RequestFailed(s, r, error), RequestCancelled(s, r), DeferToPicker(s, r),
                      ScenarioSubmit(s, r), ScenarioDone(s, r, src), ScenarioFailed(s, r),
                      ScenarioReset(s), RequestStart(s, r), SourceBegin(s, kind, src),
                      IngestDone(s, r), ProfileDone(s, r, actionable), ReviewApprove(s)}
    PROVE  SameExport(s, t)
<1>1. CASE t \in {s, RequestFailed(s, r, error), RequestCancelled(s, r), DeferToPicker(s, r)}
    BY <1>1 DEF RequestFailed, RequestCancelled, DeferToPicker, SameExport, Sound, Session
<1>2. CASE t \in {ScenarioSubmit(s, r), ScenarioDone(s, r, src), ScenarioFailed(s, r),
                  ScenarioReset(s)}
    BY <1>2 DEF ScenarioSubmit, ScenarioDone, ScenarioFailed, ScenarioReset,
       SameExport, Sound, Session
<1>3. CASE t \in {RequestStart(s, r), SourceBegin(s, kind, src)}
    BY <1>3 DEF RequestStart, SourceBegin, SameExport, Sound, Session
<1>4. CASE t = IngestDone(s, r)
    BY <1>4 DEF IngestDone, SameExport, Sound, Session
<1>5. CASE t \in {ProfileDone(s, r, actionable), ReviewApprove(s)}
    BY <1>5 DEF ProfileDone, ReviewApprove, SameExport, Sound, Session
<1> QED
    BY <1>1, <1>2, <1>3, <1>4, <1>5

(* A rejection at most finishes the export on show.                        *)
LEMMA RejectionShows ==
    ASSUME NEW s, Sound(s), NEW c \in Client \cup {None}
    PROVE  SameExport(s, AfterRejecting(s, Waiting(c)))
<1>1. ASSUME NEW r \in Rid PROVE SameExport(s, Rejection(s, r))
  <2>1. Rejection(s, r) \in {s, RequestCancelled(s, r), ScenarioFailed(s, r), ExportFinished(s)}
      BY DEF Rejection
  <2>2. SameExport(s, ExportFinished(s))
      BY FinishedSound DEF SameExport
  <2> QED
      BY <2>1, <2>2, ExportUntouched
<1>2. CASE Waiting(c) = {}
    BY <1>2 DEF AfterRejecting, SameExport
<1>3. CASE Waiting(c) # {}
  <2>1. PICK r \in Rid : Waiting(c) = {r}
      BY <1>3, OneWaiting
  <2>2. AfterRejecting(s, Waiting(c)) = Rejection(s, r)
      BY <2>1 DEF AfterRejecting
  <2> QED
      BY <1>1, <2>1, <2>2
<1> QED
    BY <1>2, <1>3

(* Both clients are cancelled on session s.                                *)
LEMMA CancelShows ==
    ASSUME Inv, NEW s, Sound(s), CancelClients(s)
    PROVE  SameExport(s, session') /\ session'.requestId \in {None, s.requestId}
<1> DEFINE u == AfterRejecting(s, Waiting(analysis))
<1>1. /\ analysis \in Client \cup {None} /\ exporter \in Client \cup {None}
      /\ session' = AfterRejecting(u, Waiting(exporter))
    BY DEF Inv, TypeOK, CancelClients
<1>2. Ends(s, u) /\ SameExport(s, u)
    BY <1>1, AfterRejectingEnds, RejectionShows
<1> HIDE DEF u
<1>3. Ends(u, session') /\ SameExport(u, session')
    BY <1>1, <1>2, AfterRejectingEnds, RejectionShows DEF Ends
<1> QED
    BY <1>2, <1>3, CalmerPending DEF Ends, SameExport

LEMMA LiveWorkShows ==
    ASSUME NEW s, Sound(s)
    PROVE  SameExport(s, LiveWorkCancelled(s)) /\ LiveWorkCancelled(s).requestId = None
<1> DEFINE t == IF s.requestId = None THEN s ELSE RequestCancelled(s, s.requestId)
<1>1. s.requestId \in Rid \cup {None}
    BY DEF Sound, Session
<1>2. Ends(s, t) /\ t.requestId = None /\ SameExport(s, t)
    BY <1>1, CancelledSound, ExportUntouched, ZenonT(60) DEF Ends, Calmer, SameExport
<1>3. LiveWorkCancelled(s) = IF t.scenarioRequestId = None THEN t
                             ELSE ScenarioFailed(t, t.scenarioRequestId)
    BY DEF LiveWorkCancelled
<1> HIDE DEF t
<1>4. t.scenarioRequestId \in Rid \cup {None}
    BY <1>2 DEF Ends, Sound, Session
<1>5. CASE t.scenarioRequestId = None
    BY <1>2, <1>3, <1>5
<1>6. CASE t.scenarioRequestId # None
  <2>1. LiveWorkCancelled(s) = ScenarioFailed(t, t.scenarioRequestId)
      BY <1>3, <1>6
  <2>2. /\ SameExport(t, LiveWorkCancelled(s))
        /\ LiveWorkCancelled(s).requestId = t.requestId
      BY <1>2, <1>4, <1>6, <2>1, ScenarioFails, ExportUntouched DEF Ends
  <2> QED
      BY <1>2, <2>2 DEF SameExport
<1> QED
    BY <1>5, <1>6

LEMMA OneRunKept ==
    ASSUME ExportOnShow, SameExport(session, session')
    PROVE  ArtifactsOfOneRun'
BY DEF ExportOnShow, ArtifactsOfOneRun, SameExport

LEMMA NoneBeside ==
    ASSUME ExportOnShow, session.phase # "exporting"
    PROVE  Waiting(exporter) = {}
BY DEF ExportOnShow

(* An export in flight stays on show, or no export is in flight and none   *)
(* that is being built is live beside another phase than ready.            *)
LEMMA ShowKept ==
    ASSUME Inv, Inv', ExportOnShow, clearing' = clearing, "export" \notin refused',
           ArtifactsOfOneRun',
           \A x \in Rid : At(x, {"export"}, {"model"})' => At(x, {"export"}, {"model"}),
           \/ /\ session'.phase = session.phase /\ session'.requestId = session.requestId
              /\ Waiting(exporter)' \subseteq Waiting(exporter)
           \/ /\ Waiting(exporter)' = {}
              /\ \/ session'.requestId = None
                 \/ session'.phase \in WorkingPhase \cup {"ready"}
                 \/ session'.requestId = session.requestId /\ session.phase # "ready"
    PROVE  ExportOnShow'
<1>1. \A r \in Waiting(exporter)' : session'.phase = "exporting" /\ session'.requestId = r
    BY DEF ExportOnShow
<1>2. ASSUME NEW r \in Rid, session'.requestId = r, At(r, {"export"}, {"model"})'
      PROVE  session'.phase = "ready"
  <2>1. At(r, {"export"}, {"model"}) /\ jobs'[r] # None /\ jobs'[r].kind = "export"
      BY <1>2 DEF At
  <2>2. session'.phase \notin WorkingPhase
      BY <1>2, <2>1 DEF Inv, LiveRequest, At, SourceKind
  <2>3. session'.requestId # None
      BY <1>2, NoneAssumption DEF NoneAssumption
  <2> QED
      BY <1>2, <2>1, <2>2, <2>3 DEF ExportOnShow
<1> QED
    BY <1>1, <1>2 DEF ExportOnShow

(* A source asks its client for a step, and no export is in flight.        *)
LEMMA RequestShows ==
    ASSUME Inv, Inv', ExportOnShow, Waiting(exporter) = {},
           NEW client, NEW s, Sound(s), NEW js \in [Rid -> Job \cup {None}], NEW q \in Rid,
           NEW step \in AnalysisSteps, RequestOn(client, s, js, q, step),
           js[q] \in Job, js[q].kind \in SourceKind,
           \A x \in Rid \ {q} : js[x] \in {None, jobs[x]},
           s.requestId = q, s.phase \in WorkingPhase, SameExport(session, s),
           exporter' = exporter, clearing' = clearing
    PROVE  ExportOnShow'
<1>1. CASE Waiting(client) = {}
  <2> DEFINE job == [js[q] EXCEPT !.step = step]
  <2>1. session' = s /\ jobs' = [js EXCEPT ![q] = job] /\ refused' = refused
      BY <1>1 DEF RequestOn, Step
  <2>2. job.step # "model"
      BY DEF Job, AnalysisSteps
  <2> HIDE DEF job
  <2>3. \A x \in Rid : At(x, {"export"}, {"model"})' => At(x, {"export"}, {"model"})
      BY <2>1, <2>2 DEF At
  <2> QED
      BY <2>1, <2>3, OneRunKept, ShowKept DEF ExportOnShow
<1>2. CASE Waiting(client) # {}
  <2>1. /\ session' = RequestFailed(s, q, "plain") /\ jobs' = [js EXCEPT ![q] = None]
        /\ refused' = refused \cup {js[q].kind}
      BY <1>2 DEF RequestOn
  <2>2. session'.requestId = None
      BY <2>1, FailedSound
  <2>3. SameExport(session, session')
    <3>1. SameExport(s, session')
        BY <2>1, ExportUntouched
    <3> QED
        BY <3>1 DEF SameExport
  <2>4. \A x \in Rid : At(x, {"export"}, {"model"})' => At(x, {"export"}, {"model"})
      BY <2>1 DEF At
  <2>5. "export" \notin refused'
      BY <2>1 DEF ExportOnShow, SourceKind
  <2> QED
      BY <2>2, <2>3, <2>4, <2>5, OneRunKept, ShowKept
<1> QED
    BY <1>1, <1>2

LEMMA NormalizeShows ==
    ASSUME Inv, Inv', ExportOnShow, Waiting(exporter) = {}, FreeRids # {},
           NEW s, Sound(s), NEW kind \in SourceKind, NEW src \in Source,
           Normalize(s, NewRid, kind, src),
           s.requestId = NewRid, s.phase = "analyzing", SameExport(session, s),
           exporter' = exporter, clearing' = clearing
    PROVE  ExportOnShow'
<1> DEFINE q == NewRid
           job == SourceJob(kind, "normalize", src)
           js == WithJob(jobs, q, job)
<1>1. q \in Rid
    BY NewRidFree
<1>2. job \in Job /\ job.kind = kind
    BY DEF SourceJob, Job, Kind, WorkerStep
<1>3. CASE analysis = None
  <2>1. session' = RequestFailed(s, q, "plain") /\ jobs' = jobs /\ refused' = refused
      BY <1>3 DEF Normalize
  <2> HIDE DEF q
  <2>2. session'.requestId = None
      BY <1>1, <2>1, FailedSound DEF q
  <2>3. SameExport(session, session')
    <3>1. SameExport(s, session')
        BY <2>1, ExportUntouched
    <3> QED
        BY <3>1 DEF SameExport
  <2>4. \A x \in Rid : At(x, {"export"}, {"model"})' => At(x, {"export"}, {"model"})
      BY <2>1 DEF At
  <2> QED
      BY <2>1, <2>2, <2>3, <2>4, OneRunKept, ShowKept DEF ExportOnShow
<1>4. CASE analysis # None
  <2>1. RequestOn(analysis, s, js, q, "normalize")
      BY <1>4 DEF Normalize
  <2> HIDE DEF job, q
  <2>2. /\ js \in [Rid -> Job \cup {None}] /\ js[q] \in Job /\ js[q].kind \in SourceKind
        /\ \A x \in Rid \ {q} : js[x] \in {None, jobs[x]}
      BY <1>1, <1>2 DEF WithJob, Inv, TypeOK
  <2>3. /\ "normalize" \in AnalysisSteps /\ s.phase \in WorkingPhase /\ s.requestId = q
      BY DEF AnalysisSteps, WorkingPhase, PendingPhase, q
  <2> HIDE DEF js
  <2> QED
      BY <1>1, <2>1, <2>2, <2>3, RequestShows
<1> QED
    BY <1>3, <1>4

(* A step that leaves the session as it shows, and no export newly built.  *)
LEMMA StillShows ==
    ASSUME Inv, Inv', ExportOnShow, clearing' = clearing, "export" \notin refused',
           SameExport(session, session'),
           session'.phase = session.phase, session'.requestId = session.requestId,
           Waiting(exporter)' \subseteq Waiting(exporter),
           \A x \in Rid : At(x, {"export"}, {"model"})' => At(x, {"export"}, {"model"})
    PROVE  ExportOnShow'
BY OneRunKept, ShowKept

(* Jobs that end are not newly built.                                      *)
LEMMA EndShows ==
    ASSUME NEW R, jobs' = Without(R), NEW x \in Rid, At(x, {"export"}, {"model"})'
    PROVE  At(x, {"export"}, {"model"})
BY DEF Without, At

(* A request that fails is the live one, or leaves the session as it is.   *)
LEMMA FailureShows ==
    ASSUME Inv, Inv', ExportOnShow, clearing' = clearing, refused' = refused,
           exporter' = exporter, NEW r \in Rid, jobs' = Without({r}),
           session.requestId = r => session.phase # "exporting",
           NEW error \in {"none", "plain", "retry"},
           session' \in {session, RequestFailed(session, r, error), DeferToPicker(session, r)}
    PROVE  ExportOnShow'
<1>1. SameExport(session, session')
    BY ExportUntouched DEF Inv
<1>2. \/ session' = session
      \/ session.requestId = r /\ session'.requestId = None
  <2>1. CASE session' = RequestFailed(session, r, error)
      BY <2>1, FailedSound DEF Inv
  <2>2. CASE session' = DeferToPicker(session, r)
      BY <2>2 DEF DeferToPicker, IsCurrent, Inv, Sound, Session
  <2> QED
      BY <2>1, <2>2
<1>3. "export" \notin refused'
    BY DEF ExportOnShow
<1>4. CASE session' = session
    BY <1>1, <1>3, <1>4, EndShows, StillShows
<1>5. CASE session.requestId = r /\ session'.requestId = None
    BY <1>1, <1>3, <1>5, EndShows, NoneBeside, OneRunKept, ShowKept
<1> QED
    BY <1>2, <1>4, <1>5

(* What settles a source, a flow or a scenario starts or ends no export.   *)
LEMMA SourceShows ==
    ASSUME Inv, Inv', ExportOnShow, NEW r \in Rid, SourceSettles(r)
    PROVE  ExportOnShow'
<1>1. ASSUME jobs[r] # None, jobs[r].kind \in SourceKind, session.requestId = r
      PROVE  /\ session.phase \in WorkingPhase /\ session.phase \in PendingPhase
             /\ session.phase \notin {"exporting", "ready"} /\ Waiting(exporter) = {}
  <2>1. session.phase \in WorkingPhase
      BY <1>1, LiveSource
  <2> QED
      BY <2>1, NoneBeside DEF WorkingPhase, PendingPhase
<1>2. /\ exporter' = exporter /\ clearing' = clearing
    BY DEF SourceSettles, SourceLoaded, SourceUnreadable, SourceAmbiguous, StaleResult, Ingested,
       Profiled, Normalized, Analyzed, FlowParsed, FlowProfiled, ScenarioAnswered, AnalysisFails,
       Kept, DropResult, clients
<1>3. CASE SourceLoaded(r)
  <2>1. jobs[r] # None /\ jobs[r].kind \in SourceKind /\ jobs[r] \in Job
      BY <1>3 DEF SourceLoaded, At, Inv, TypeOK
  <2>2. CASE session.requestId # r
    <3>1. session' = session /\ jobs' = Without({r}) /\ refused' = refused
        BY <1>3, <2>2 DEF SourceLoaded, Superseded, DropResult
    <3> QED
        BY <1>2, <2>2, <3>1, FailureShows
  <2>3. CASE session.requestId = r
    <3>1. PICK client \in Client : RequestOn(client, session, jobs, r, "ingest")
        BY <1>3, <2>3, LiveLoad
    <3>2. /\ jobs \in [Rid -> Job \cup {None}] /\ Sound(session)
          /\ "ingest" \in AnalysisSteps /\ SameExport(session, session)
        BY DEF Inv, TypeOK, AnalysisSteps, SameExport
    <3> QED
        BY <1>1, <1>2, <2>1, <2>3, <3>1, <3>2, RequestShows
  <2> QED
      BY <2>2, <2>3
<1>4. CASE SourceUnreadable(r) \/ SourceAmbiguous(r)
  <2>1. /\ jobs[r] # None /\ jobs[r].kind \in SourceKind
        /\ jobs' = Without({r}) /\ refused' = refused
      BY <1>4 DEF SourceUnreadable, SourceAmbiguous, At, DropResult, SourceKind
  <2>2. \/ \E error \in {"plain", "retry"} : session' = RequestFailed(session, r, error)
        \/ session' = DeferToPicker(session, r)
      BY <1>4 DEF SourceUnreadable, SourceAmbiguous
  <2> QED
      BY <1>1, <1>2, <2>1, <2>2, FailureShows
<1>5. CASE StaleResult(r) \/ FlowProfiled(r)
  <2>1. session' = session /\ jobs' = Without({r}) /\ refused' = refused
      BY <1>5 DEF StaleResult, FlowProfiled, DropResult
  <2>2. "export" \notin refused' /\ SameExport(session, session')
      BY <2>1 DEF ExportOnShow, SameExport
  <2> QED
      BY <1>2, <2>1, <2>2, EndShows, StillShows
<1>6. CASE Ingested(r)
  <2>1. /\ jobs[r] # None /\ jobs[r].kind \in SourceKind /\ jobs[r] \in Job
        /\ session.requestId = r
        /\ RequestOn([Answered(analysis) EXCEPT !.tables = @ \cup {jobs[r].src}],
                     IngestDone(session, r), jobs, r, "profile")
      BY <1>6 DEF Ingested, Answers, Superseded, At, Inv, TypeOK
  <2> DEFINE s == IngestDone(session, r)
  <2>2. Sound(s) /\ s.requestId = r /\ s.phase \in WorkingPhase
      BY <1>1, <2>1, ParsedSound DEF Inv, WorkingPhase, PendingPhase
  <2>3. SameExport(session, s)
      BY ExportUntouched DEF Inv
  <2>4. jobs \in [Rid -> Job \cup {None}] /\ "profile" \in AnalysisSteps
      BY DEF Inv, TypeOK, AnalysisSteps
  <2> HIDE DEF s
  <2> QED
      BY <1>1, <1>2, <2>1, <2>2, <2>3, <2>4, RequestShows DEF s
<1>7. CASE Profiled(r)
  <2>1. /\ jobs[r] # None /\ jobs[r].kind \in SourceKind /\ jobs[r] \in Job
        /\ session.requestId = r /\ jobs[r].step = "profile"
      BY <1>7 DEF Profiled, Answers, Superseded, At, Inv, TypeOK
  <2>2. PICK actionable \in BOOLEAN :
            LET s == ProfileDone(session, r, actionable)
            IN IF s.phase = "needsReview"
               THEN /\ session' = s
                    /\ analysis' = Answered(analysis)
                    /\ jobs' = Without({r})
                    /\ UNCHANGED refused
               ELSE RequestOn(Answered(analysis), RequestStart(s, NewRid),
                              Rotated(r, NewRid), NewRid, "normalize")
      BY <1>7 DEF Profiled
  <2> DEFINE s == ProfileDone(session, r, actionable)
             q == NewRid
             t == RequestStart(s, q)
  <2>3. /\ Sound(s) /\ s.requestId = r /\ s.phase \in {"analyzing", "needsReview"}
      BY <2>1, ProfiledFacts
  <2>4. SameExport(session, s)
      BY ExportUntouched DEF Inv
  <2>5. CASE s.phase = "needsReview"
    <3>1. session' = s /\ jobs' = Without({r}) /\ refused' = refused
        BY <2>2, <2>5
    <3> HIDE DEF s
    <3>2. "export" \notin refused' /\ SameExport(session, session')
        BY <2>4, <3>1 DEF ExportOnShow
    <3> QED
        BY <1>1, <1>2, <2>1, <2>3, <3>1, <3>2, EndShows, OneRunKept, ShowKept
  <2>6. CASE s.phase # "needsReview"
    <3>1. RequestOn(Answered(analysis), t, Rotated(r, q), q, "normalize")
        BY <2>2, <2>6
    <3>2. q \in Rid /\ q # r
        BY <2>1, NewRidFree DEF Inv
    <3> HIDE DEF q, s
    <3>3. /\ Sound(t) /\ t.requestId = q /\ t.phase = s.phase
        BY <2>3, <3>2, StartSound
    <3>4. SameExport(session, t)
      <4>1. SameExport(s, t)
          BY <2>3, ExportUntouched
      <4> QED
          BY <2>4, <4>1 DEF SameExport
    <3> HIDE DEF t
    <3>5. t.phase \in WorkingPhase /\ "normalize" \in AnalysisSteps
        BY <2>3, <2>6, <3>3 DEF AnalysisSteps, WorkingPhase, PendingPhase
    <3>6. /\ Rotated(r, q) \in [Rid -> Job \cup {None}] /\ Rotated(r, q)[q] = jobs[r]
          /\ \A x \in Rid \ {q} : Rotated(r, q)[x] \in {None, jobs[x]}
        BY <3>2, RotatedFacts
    <3> QED
        BY <1>1, <1>2, <2>1, <3>1, <3>2, <3>3, <3>4, <3>5, <3>6, RequestShows
  <2> QED
      BY <2>5, <2>6
<1>8. CASE Normalized(r)
  <2> DEFINE q == NewRid
             t == RequestStart(session, q)
  <2>1. /\ jobs[r] # None /\ jobs[r].kind \in SourceKind /\ jobs[r] \in Job
        /\ session.requestId = r
        /\ RequestOn(Answered(analysis), t, Rotated(r, q), q, "analyze")
      BY <1>8 DEF Normalized, Answers, Superseded, At, Inv, TypeOK
  <2>2. q \in Rid /\ q # r
      BY <2>1, NewRidFree DEF Inv
  <2> HIDE DEF q
  <2>3. Sound(t) /\ t.requestId = q /\ t.phase \in WorkingPhase
      BY <1>1, <2>1, <2>2, StartSound DEF Inv
  <2>4. SameExport(session, t)
      BY ExportUntouched DEF Inv
  <2> HIDE DEF t
  <2>5. /\ Rotated(r, q) \in [Rid -> Job \cup {None}] /\ Rotated(r, q)[q] = jobs[r]
        /\ \A x \in Rid \ {q} : Rotated(r, q)[x] \in {None, jobs[x]}
        /\ "analyze" \in AnalysisSteps
      BY <2>2, RotatedFacts DEF AnalysisSteps
  <2> QED
      BY <1>1, <1>2, <2>1, <2>2, <2>3, <2>4, <2>5, RequestShows
<1>9. CASE Analyzed(r)
  <2>1. /\ jobs[r] # None /\ jobs[r].kind \in SourceKind /\ session.requestId = r
        /\ session' = AnalyzeDone(session, r, jobs[r].src)
        /\ jobs' = Without({r}) /\ refused' = refused
      BY <1>9 DEF Analyzed, Answers, Superseded, At, SourceKind, DropResult
  <2>2. session.pending # None
      BY <1>1, <2>1 DEF Inv, Sound
  <2>3. /\ session'.requestId = None
        /\ session'.export.artifacts = NoArtifacts
      BY <2>1, <2>2 DEF AnalyzeDone, IsCurrent, Inv, Sound, Session, Export
  <2>4. ArtifactsOfOneRun' /\ "export" \notin refused'
      BY <2>1, <2>3 DEF ArtifactsOfOneRun, NoArtifacts, ExportOnShow
  <2> QED
      BY <1>1, <1>2, <2>1, <2>3, <2>4, EndShows, ShowKept
<1>10. CASE FlowParsed(r)
  <2>1. /\ session' = session /\ refused' = refused /\ jobs[r] \in Job /\ jobs[r].kind = "flow"
        /\ jobs' = [jobs EXCEPT ![r].step = "profile"]
      BY <1>10 DEF FlowParsed, Answers, At, Step, Inv, TypeOK
  <2>2. \A x \in Rid : At(x, {"export"}, {"model"})' => At(x, {"export"}, {"model"})
      BY <2>1 DEF At, Inv, TypeOK, Job
  <2>3. "export" \notin refused' /\ SameExport(session, session')
      BY <2>1 DEF ExportOnShow, SameExport
  <2> QED
      BY <1>2, <2>1, <2>2, <2>3, StillShows
<1>11. CASE ScenarioAnswered(r)
  <2>1. /\ session' = ScenarioDone(session, r, jobs[r].src) /\ jobs' = Without({r})
        /\ refused' = refused
      BY <1>11 DEF ScenarioAnswered
  <2>2. session'.phase = session.phase /\ session'.requestId = session.requestId
      BY <2>1 DEF ScenarioDone, Inv, Sound, Session
  <2>3. "export" \notin refused' /\ SameExport(session, session')
      BY <2>1, ExportUntouched DEF ExportOnShow, Inv
  <2> QED
      BY <1>2, <2>1, <2>2, <2>3, EndShows, StillShows
<1>12. CASE AnalysisFails(r)
  <2>1. /\ r \in Waiting(analysis) /\ jobs' = Without({r}) /\ refused' = refused
      BY <1>12 DEF AnalysisFails
  <2>2. \/ /\ jobs[r].kind \in SourceKind
           /\ \E error \in {"plain", "retry"} : session' = RequestFailed(session, r, error)
        \/ session' = ScenarioFailed(session, r)
        \/ session' = session
      BY <1>12 DEF AnalysisFails
  <2>3. jobs[r] # None
      BY <2>1, AnswerFacts, RidAssumption DEF RidAssumption
  <2>4. CASE /\ jobs[r].kind \in SourceKind
             /\ \E error \in {"plain", "retry"} : session' = RequestFailed(session, r, error)
      BY <1>1, <1>2, <2>1, <2>3, <2>4, FailureShows
  <2>5. CASE session' \in {session, ScenarioFailed(session, r)}
    <3>1. session'.phase = session.phase /\ session'.requestId = session.requestId
        BY <2>5, ScenarioFails DEF Inv
    <3>2. "export" \notin refused' /\ SameExport(session, session')
        BY <2>1, <2>5, ExportUntouched DEF ExportOnShow, Inv
    <3> QED
        BY <1>2, <2>1, <3>1, <3>2, EndShows, StillShows
  <2> QED
      BY <2>2, <2>4, <2>5
<1> QED
    BY <1>3, <1>4, <1>5, <1>6, <1>7, <1>8, <1>9, <1>10, <1>11, <1>12 DEF SourceSettles

(* An export begins only on a client that is free, and once it has begun   *)
(* it is the one on show until it is finished.                             *)
LEMMA ExportShows ==
    ASSUME Inv, Inv', ExportOnShow, NEW r \in Rid, ExportSettles(r)
    PROVE  ExportOnShow'
<1>1. CASE ModelSuperseded(r)
  <2>1. /\ session' = session /\ exporter' = exporter /\ jobs' = Without({r})
        /\ clearing' = clearing /\ refused' = refused
      BY <1>1 DEF ModelSuperseded, ExportVars
  <2>2. "export" \notin refused' /\ SameExport(session, session')
      BY <2>1 DEF ExportOnShow, SameExport
  <2> QED
      BY <2>1, <2>2, EndShows, StillShows
<1>2. CASE ModelFails(r)
  <2>1. /\ session' = RequestFailed(session, r, "plain") /\ exporter' = exporter
        /\ jobs' = Without({r}) /\ clearing' = clearing /\ refused' = refused
        /\ At(r, {"export"}, {"model"})
      BY <1>2 DEF ModelFails, DropResult, clients
  <2>2. session.requestId = r => session.phase # "exporting"
      BY <2>1 DEF ExportOnShow
  <2> QED
      BY <2>1, <2>2, FailureShows
<1>3. CASE ModelBuilt(r)
  <2> DEFINE s == ExportBegin(session, jobs[r].model)
  <2>1. /\ At(r, {"export"}, {"model"}) /\ session.requestId = r
        /\ session.active = jobs[r].src
      BY <1>3 DEF ModelBuilt, Superseded
  <2>2. session.phase = "ready" /\ Waiting(exporter) = {}
      BY <2>1, NoneBeside DEF ExportOnShow
  <2>3. /\ session' = s /\ exporter' = Posted(ExportClient, r)
        /\ jobs' = Step(jobs, r, "xlsx") /\ refused' = refused /\ clearing' = clearing
      BY <1>3, <2>2 DEF ModelBuilt
  <2>4. jobs[r].model \in Model /\ jobs[r].model.src = session.active /\ jobs[r] \in Job
      BY <2>1, ExportFacts DEF At
  <2>5. /\ s.requestId = r /\ s.phase = "exporting" /\ s.export.artifacts = NoArtifacts
      BY <2>1, <2>2, <2>4, ExportSound DEF Inv
  <2> HIDE DEF s
  <2>6. Waiting(exporter)' = {r}
    <3>1. ExportClient \in Client
        BY ClientFacts DEF ExportClient, Inv, TypeOK
    <3> QED
        BY <2>3, <3>1, ClientFacts
  <2>7. ~At(r, {"export"}, {"model"})'
      BY <2>3, <2>4 DEF Step, At, Job, Inv, TypeOK
  <2>8. ArtifactsOfOneRun'
      BY <2>3, <2>5 DEF ArtifactsOfOneRun, NoArtifacts
  <2> QED
      BY <2>3, <2>5, <2>6, <2>7, <2>8 DEF ExportOnShow
<1>4. ASSUME NEW s, NEW client \in Client, Waiting(client) = {}, NextFormat(r, s, client),
             r \in Waiting(exporter), Sound(s), s.phase = session.phase,
             s.requestId = session.requestId, s.export.epoch = session.export.epoch,
             s.revision = session.revision,
             \A f \in Format : s.export.artifacts[f] \in {None, s.export.model},
             clearing' = clearing, refused' = refused
      PROVE  ExportOnShow'
  <2>1. /\ session.phase = "exporting" /\ session.requestId = r
        /\ jobs[r] \in Job
      BY <1>4, SettledFacts DEF ExportOnShow, Inv, TypeOK
  <2>2. CASE jobs[r].step = "xlsx"
    <3>1. /\ session' = s /\ exporter' = Posted(client, r) /\ jobs' = Step(jobs, r, "pptx")
        BY <1>4, <2>2 DEF NextFormat
    <3>2. Waiting(exporter)' = {r}
        BY <1>4, <3>1, ClientFacts
    <3>3. ~At(r, {"export"}, {"model"})'
        BY <2>1, <3>1 DEF Step, At, Job, Inv, TypeOK
    <3>4. ArtifactsOfOneRun'
        BY <1>4, <3>1 DEF ArtifactsOfOneRun
    <3> QED
        BY <1>4, <2>1, <3>1, <3>2, <3>3, <3>4 DEF ExportOnShow
  <2>3. CASE jobs[r].step # "xlsx"
    <3>1. session' = ExportFinished(s) /\ exporter' = client /\ jobs' = Without({r})
        BY <1>4, <2>3 DEF NextFormat
    <3>2. /\ session'.phase = "ready"
          /\ SameExport(s, session')
        BY <1>4, <2>1, <3>1, FinishedSound DEF SameExport, DatasetPhase
    <3>3. ArtifactsOfOneRun'
        BY <1>4, <3>2 DEF ArtifactsOfOneRun, SameExport
    <3> QED
        BY <1>4, <3>1, <3>2, <3>3 DEF ExportOnShow
  <2> QED
      BY <2>2, <2>3
<1>5. CASE ExportAnswered(r)
  <2> DEFINE s == ExportDone(session, jobs[r].step, jobs[r].model)
  <2>1. /\ r \in Waiting(exporter) /\ NextFormat(r, s, Answered(exporter))
        /\ clearing' = clearing /\ refused' = refused
      BY <1>5 DEF ExportAnswered, ExportVars
  <2>2. /\ exporter \in Client /\ jobs[r].model \in Model /\ jobs[r].step \in Format
        /\ session.phase = "exporting" /\ session.export.model = jobs[r].model
      BY <2>1, SettledFacts, ExportFacts DEF ExportOnShow
  <2>3. /\ Sound(s) /\ s.phase = session.phase /\ s.requestId = session.requestId
        /\ s.export.model = session.export.model
        /\ \A g \in Format : s.export.artifacts[g] \in {jobs[r].model, session.export.artifacts[g]}
      BY <2>2, DoneSound DEF Inv, Ends
  <2>4. s.export.epoch = session.export.epoch /\ s.revision = session.revision
      BY DEF ExportDone, Inv, Sound, Session, Export
  <2>5. \A f \in Format : s.export.artifacts[f] \in {None, s.export.model}
      BY <2>2, <2>3 DEF ExportOnShow, ArtifactsOfOneRun
  <2>6. Answered(exporter) \in Client /\ Waiting(Answered(exporter)) = {}
      BY <2>2, ClientFacts
  <2> HIDE DEF s
  <2> QED
      BY <1>4, <2>1, <2>3, <2>4, <2>5, <2>6
<1>6. CASE FormatFails(r)
  <2>1. /\ r \in Waiting(exporter) /\ clearing' = clearing /\ refused' = refused
      BY <1>6 DEF FormatFails, ExportVars
  <2>2. PICK client \in {Answered(exporter), Cancelled(exporter)} :
            NextFormat(r, session, client)
      BY <1>6 DEF FormatFails
  <2>3. client \in Client /\ Waiting(client) = {}
    <3>1. exporter \in Client /\ exporter.opts \in Options \cup {None} /\ exporter # None
        BY <2>1, SettledFacts, RidAssumption DEF Client, RidAssumption
    <3> QED
        BY <2>2, <3>1, ClientFacts DEF Cancelled
  <2>4. \A f \in Format : session.export.artifacts[f] \in {None, session.export.model}
      BY DEF ExportOnShow, ArtifactsOfOneRun
  <2> QED
      BY <1>4, <2>1, <2>2, <2>3, <2>4 DEF Inv
<1> QED
    BY <1>1, <1>2, <1>3, <1>5, <1>6 DEF ExportSettles

(* A new source ends the exports in flight.                                *)
LEMMA BeginShows ==
    ASSUME Inv, ExportOnShow, NEW kind \in SourceKind, BeginSource(kind)
    PROVE  ExportOnShow'
<1>1. analysis \in Client \cup {None} /\ exporter \in Client \cup {None} /\ Sound(session)
    BY DEF Inv, TypeOK
<1> DEFINE q == NewRid
           src == begun + 1
           job == SourceJob(kind, "load", src)
           s == RequestStart(SourceBegin(LiveWorkCancelled(session), kind, src), q)
<1>2. /\ CancelClients(s) /\ jobs' = WithJob(Without(CancelledJobs), q, job)
      /\ clearing' = clearing /\ refused' = refused
    BY DEF BeginSource
<1>3. q \in Rid /\ src \in Source
    BY NewRidFree DEF Inv, TypeOK, Source
<1>4. Sound(LiveWorkCancelled(session)) /\ SameExport(session, LiveWorkCancelled(session))
    BY <1>1, LiveWorkEnds, LiveWorkShows DEF Ends
<1>5. job.step = "load"
    BY DEF SourceJob
<1> HIDE DEF q, src, job
<1>6. Sound(s) /\ s.requestId = q /\ s.export = LiveWorkCancelled(session).export
  <2>1. Sound(LiveWorkCancelled(session)) /\ q \in Rid /\ src \in Source
      BY <1>3, <1>4
  <2>2. Sound(s) /\ s.requestId = q
      BY <2>1, BeginSound, ZenonT(60)
  <2>3. s.export = LiveWorkCancelled(session).export
      BY <2>1, BeginSound
  <2> QED
      BY <2>2, <2>3
<1> HIDE DEF s
<1>7. SameExport(s, session') /\ session'.requestId \in {None, q}
    BY <1>2, <1>6, CancelShows
<1>8. Waiting(exporter)' = {}
    BY <1>1, <1>2, ClientFacts DEF CancelClients
<1>9. jobs'[q].step = "load"
  <2>1. Without(CancelledJobs) \in [Rid -> Job \cup {None}]
      BY DEF Without, Inv, TypeOK
  <2>2. jobs'[q] = job
      BY <1>2, <1>3, <2>1 DEF WithJob
  <2> QED
      BY <1>5, <2>2
<1>10. SameExport(session, session')
    BY <1>4, <1>6, <1>7 DEF SameExport
<1>11. \A x \in Rid : session'.requestId = x => x = q
    BY <1>7, NoneAssumption DEF NoneAssumption
<1>12. ArtifactsOfOneRun'
    BY <1>10, OneRunKept
<1> QED
    BY <1>2, <1>8, <1>9, <1>11, <1>12 DEF ExportOnShow, At

(* The steps of the user.                                                  *)
LEMMA UserShows ==
    ASSUME Inv, Inv', ExportOnShow, MaxClears = 0,
           \/ SelectSource \/ RetrySource \/ UseSample \/ ApproveReview \/ CancelWork
           \/ IdleCrash \/ \E opts \in Options : FlowParse(opts)
           \/ FlowAbort \/ AdoptUploadOutcome \/ SubmitScenario \/ ResetScenario
           \/ PrepareExport \/ CancelExport
           \/ ReplaySession \/ ClearSession \/ ClearEnds
    PROVE  ExportOnShow'
<1>1. analysis \in Client \cup {None} /\ exporter \in Client \cup {None} /\ Sound(session)
    BY DEF Inv, TypeOK
<1>2. CASE SelectSource \/ RetrySource \/ UseSample
    BY <1>2, BeginShows DEF SelectSource, RetrySource, UseSample, SourceKind
<1>3. CASE ApproveReview
  <2> DEFINE s == RequestStart(ReviewApprove(session), NewRid)
  <2>1. /\ session.phase = "needsReview" /\ RidInReserve
        /\ Normalize(s, NewRid, session.pending.kind, session.pending.src)
        /\ exporter' = exporter /\ clearing' = clearing
      BY <1>3 DEF ApproveReview
  <2>2. /\ Sound(s) /\ s.requestId = NewRid /\ s.phase = "analyzing"
      BY <2>1, ApprovedFacts
  <2>3. session.pending.kind \in SourceKind /\ session.pending.src \in Source
      BY <1>1, <2>1 DEF Sound, Session, PendingPhase, Pending, SourceKind
  <2>4. SameExport(session, s)
    <3>1. SameExport(session, ReviewApprove(session)) /\ Sound(session)
        BY <1>1, ExportUntouched
    <3>2. s.export = ReviewApprove(session).export
      <4>1. ReviewApprove(session) \in Session
          BY <1>1 DEF ReviewApprove, Sound, Session, PendingPhase
      <4> QED
          BY <4>1 DEF RequestStart, Session
    <3> QED
        BY <3>1, <3>2 DEF SameExport
  <2> HIDE DEF s
  <2> QED
      BY <2>1, <2>2, <2>3, <2>4, ReserveKept, NoneBeside, NormalizeShows
<1>4. CASE CancelWork
  <2> DEFINE t == LiveWorkCancelled(session)
  <2>1. /\ CancelClients(t) /\ jobs' = Without(CancelledJobs)
        /\ clearing' = clearing /\ refused' = refused
      BY <1>4 DEF CancelWork
  <2>2. Sound(t) /\ SameExport(session, t) /\ t.requestId = None
      BY <1>1, LiveWorkEnds, LiveWorkShows DEF Ends
  <2> HIDE DEF t
  <2>3. SameExport(t, session') /\ session'.requestId = None
      BY <2>1, <2>2, CancelShows
  <2>4. Waiting(exporter)' = {}
      BY <1>1, <2>1, ClientFacts DEF CancelClients
  <2>5. SameExport(session, session') /\ "export" \notin refused'
      BY <2>1, <2>2, <2>3 DEF SameExport, ExportOnShow
  <2> QED
      BY <2>1, <2>3, <2>4, <2>5, EndShows, OneRunKept, ShowKept
<1>5. CASE IdleCrash \/ ResetScenario
  <2>1. /\ jobs' = jobs /\ exporter' = exporter /\ clearing' = clearing /\ refused' = refused
        /\ session' \in {session, ScenarioReset(session)}
      BY <1>5 DEF IdleCrash, ResetScenario, Kept
  <2>2. session'.phase = session.phase /\ session'.requestId = session.requestId
      BY <1>1, <2>1 DEF ScenarioReset, Sound, Session
  <2>3. SameExport(session, session') /\ "export" \notin refused'
      BY <1>1, <2>1, ExportUntouched DEF ExportOnShow
  <2>4. \A x \in Rid : At(x, {"export"}, {"model"})' => At(x, {"export"}, {"model"})
      BY <2>1 DEF At
  <2> QED
      BY <2>1, <2>2, <2>3, <2>4, StillShows
<1>6. CASE (\E opts \in Options : FlowParse(opts)) \/ FlowAbort
  <2>1. /\ session.phase = "idle" /\ exporter' = exporter /\ clearing' = clearing
        /\ session' \in {AfterRejecting(session, {}), AfterRejecting(session, Waiting(analysis))}
        /\ refused' \in {refused, refused \cup {"flow"}}
      BY <1>6 DEF FlowParse, FlowAbort
  <2>2. AfterRejecting(session, {}) = session
      BY DEF AfterRejecting
  <2>3. /\ SameExport(session, session')
        /\ session'.requestId \in {None, session.requestId}
    <3>1. CASE session' = session
        BY <3>1 DEF SameExport
    <3>2. CASE session' = AfterRejecting(session, Waiting(analysis))
        BY <1>1, <3>2, AfterRejectingEnds, RejectionShows, CalmerPending DEF Ends
    <3> QED
        BY <2>1, <2>2, <3>1, <3>2
  <2>4. Waiting(exporter)' = {} /\ "export" \notin refused'
      BY <2>1, NoneBeside DEF ExportOnShow
  <2>5. \A x \in Rid : At(x, {"export"}, {"model"})' => At(x, {"export"}, {"model"})
    <3>1. ASSUME NEW R PROVE Without(R) \in [Rid -> Job \cup {None}]
        BY DEF Without, Inv, TypeOK
    <3>2. ASSUME NEW R, NEW job, job.step = "ingest", jobs' = WithJob(Without(R), NewRid, job),
                 NEW x \in Rid, At(x, {"export"}, {"model"})'
          PROVE  At(x, {"export"}, {"model"})
        BY <3>1, <3>2 DEF WithJob, Without, At
    <3>3. \/ \E R : jobs' = Without(R)
          \/ \E R, job : job.step = "ingest" /\ jobs' = WithJob(Without(R), NewRid, job)
      <4>1. CASE FlowAbort
          BY <4>1 DEF FlowAbort
      <4>2. CASE \E opts \in Options : FlowParse(opts)
        <5>1. SourceJob("flow", "ingest", begun + 1).step = "ingest"
            BY DEF SourceJob
        <5> QED
            BY <4>2, <5>1 DEF FlowParse
      <4> QED
          BY <1>6, <4>1, <4>2
    <3> QED
        BY <3>2, <3>3, EndShows
  <2> QED
      BY <2>1, <2>3, <2>4, <2>5, OneRunKept, ShowKept
<1>7. CASE AdoptUploadOutcome
  <2> DEFINE s == ProfileDone(IngestDone(RequestStart(SourceBegin(session, "upload", flow.src),
                                                      NewRid), NewRid), NewRid, FALSE)
  <2>1. /\ session.phase = "idle" /\ flow.stage = "review" /\ RidInReserve
        /\ Normalize(s, NewRid, "upload", flow.src)
        /\ exporter' = exporter /\ clearing' = clearing
      BY <1>7 DEF AdoptUploadOutcome
  <2>2. /\ Sound(s) /\ s.requestId = NewRid /\ s.phase = "analyzing"
        /\ s.export = session.export
      BY <2>1, AdoptedFacts
  <2>3. flow.src \in Source /\ "upload" \in SourceKind /\ SameExport(session, s)
      BY <2>1, <2>2 DEF Inv, TypeOK, Flow, FlowMounted, SourceKind, SameExport
  <2> HIDE DEF s
  <2> QED
      BY <2>1, <2>2, <2>3, ReserveKept, NoneBeside, NormalizeShows
<1>8. CASE SubmitScenario
  <2> DEFINE q == NewRid
             s == ScenarioSubmit(session, q)
             job == SourceJob("scenario", "scenario", session.active)
  <2>1. /\ session' \in {s, ScenarioFailed(s, q)} /\ jobs' \in {jobs, WithJob(jobs, q, job)}
        /\ exporter' = exporter /\ clearing' = clearing
        /\ refused' \in {refused, refused \cup {"scenario"}}
      BY <1>8 DEF SubmitScenario, Kept
  <2>2. q \in Rid
      BY NewRidFree DEF Inv
  <2>3. job.step = "scenario"
      BY DEF SourceJob
  <2> HIDE DEF q, job
  <2>4. /\ Sound(s) /\ s.phase = session.phase /\ s.requestId = session.requestId
        /\ s.export = session.export
      BY <1>1, <2>2, SubmitSound
  <2> HIDE DEF s
  <2>5. /\ session'.phase = session.phase /\ session'.requestId = session.requestId
        /\ SameExport(session, session')
    <3>1. /\ ScenarioFailed(s, q).phase = s.phase /\ ScenarioFailed(s, q).requestId = s.requestId
          /\ SameExport(s, ScenarioFailed(s, q))
        BY <2>2, <2>4, ScenarioFails, ExportUntouched
    <3>2. SameExport(session, s)
        BY <1>1, ExportUntouched DEF s
    <3> QED
        BY <2>1, <2>4, <3>1, <3>2 DEF SameExport
  <2>6. \A x \in Rid : At(x, {"export"}, {"model"})' => At(x, {"export"}, {"model"})
      BY <2>1, <2>2, <2>3 DEF At, WithJob, Inv, TypeOK
  <2>7. "export" \notin refused'
      BY <2>1 DEF ExportOnShow
  <2> QED
      BY <2>1, <2>5, <2>6, <2>7, StillShows
<1>9. CASE PrepareExport
  <2> DEFINE q == NewRid
  <2>1. /\ session.phase = "ready" /\ session' = RequestStart(session, q)
        /\ exporter' = exporter /\ clearing' = clearing /\ refused' = refused
      BY <1>9 DEF PrepareExport, ExportVars
  <2>2. q \in Rid
      BY NewRidFree DEF Inv
  <2> HIDE DEF q
  <2>3. session'.phase = "ready" /\ SameExport(session, session')
      BY <1>1, <2>1, <2>2, StartSound, ExportUntouched
  <2> QED
      BY <2>1, <2>3, NoneBeside, OneRunKept DEF ExportOnShow
<1>10. CASE CancelExport
  <2> DEFINE s == IF session.requestId = None THEN session
                  ELSE RequestCancelled(session, session.requestId)
  <2>1. /\ session' = AfterRejecting(s, Waiting(exporter))
        /\ exporter' = Cancelled(exporter) /\ jobs' = Without(Waiting(exporter))
        /\ clearing' = clearing /\ refused' = refused
      BY <1>10 DEF CancelExport
  <2>2. Sound(s) /\ s.requestId = None /\ SameExport(session, s)
    <3>1. session.requestId \in Rid \cup {None}
        BY <1>1 DEF Sound, Session
    <3> QED
        BY <1>1, <3>1, CancelledSound, ExportUntouched DEF Ends, SameExport
  <2> HIDE DEF s
  <2>3. session'.requestId = None /\ SameExport(s, session')
      BY <1>1, <2>1, <2>2, AfterRejectingEnds, RejectionShows, CalmerPending DEF Ends
  <2>4. SameExport(session, session') /\ "export" \notin refused'
      BY <2>1, <2>2, <2>3 DEF SameExport, ExportOnShow
  <2>5. Waiting(exporter)' = {}
      BY <1>1, <2>1, ClientFacts
  <2> QED
      BY <2>1, <2>3, <2>4, <2>5, EndShows, OneRunKept, ShowKept
<1>11. CASE ReplaySession
  <2>1. /\ session.phase = "ready" /\ session' = Replay(session) /\ jobs' = jobs
        /\ exporter' = exporter /\ clearing' = clearing /\ refused' = refused
      BY <1>11 DEF ReplaySession, ExportVars
  <2>2. session'.phase = "ready" /\ session'.export = InitialExport
      BY <1>1, <2>1 DEF Replay, Sound, Session, DatasetPhase
  <2>3. ArtifactsOfOneRun'
      BY <2>2 DEF ArtifactsOfOneRun, InitialExport, NoArtifacts
  <2> QED
      BY <2>1, <2>2, <2>3, NoneBeside DEF ExportOnShow
<1>12. CASE ClearSession \/ ClearEnds
    BY <1>12 DEF ClearSession, ClearEnds, ExportOnShow, Inv, TypeOK
<1> QED
    BY <1>2, <1>3, <1>4, <1>5, <1>6, <1>7, <1>8, <1>9, <1>10, <1>11, <1>12

LEMMA InitShow == Init /\ MaxClears = 0 => ExportOnShow
BY DEF Init, ExportOnShow, ArtifactsOfOneRun, InitialSession, InitialExport, NoArtifacts,
   Waiting, At

LEMMA NextShow ==
    ASSUME Inv, Inv', ExportOnShow, MaxClears = 0, [Next]_vars
    PROVE  ExportOnShow'
<1>1. CASE \E r \in Rid : SourceSettles(r) \/ ExportSettles(r)
    BY <1>1, SourceShows, ExportShows
<1>2. CASE \/ SelectSource \/ RetrySource \/ UseSample \/ ApproveReview \/ CancelWork
           \/ IdleCrash \/ \E opts \in Options : FlowParse(opts)
           \/ FlowAbort \/ AdoptUploadOutcome \/ SubmitScenario \/ ResetScenario
           \/ PrepareExport \/ CancelExport
           \/ ReplaySession \/ ClearSession \/ ClearEnds
    BY <1>2, UserShows
<1>3. CASE UNCHANGED vars
  <2>1. /\ session' = session /\ jobs' = jobs /\ exporter' = exporter
        /\ clearing' = clearing /\ refused' = refused
      BY <1>3 DEF vars, clients
  <2>2. /\ "export" \notin refused' /\ SameExport(session, session')
        /\ Waiting(exporter)' = Waiting(exporter)
      BY <2>1 DEF ExportOnShow, SameExport, Waiting
  <2>3. \A x \in Rid : At(x, {"export"}, {"model"})' => At(x, {"export"}, {"model"})
      BY <2>1 DEF At
  <2> QED
      BY <2>1, <2>2, <2>3, StillShows
<1> QED
    BY <1>1, <1>2, <1>3 DEF Next

LEMMA ShowInvariance ==
    ASSUME MaxClears = 0
    PROVE  Spec => []ExportOnShow
<1>1. Init => ExportOnShow
    BY InitShow
<1>2. Inv /\ Inv' /\ ExportOnShow /\ [Next]_vars => ExportOnShow'
    BY NextShow
<1>3. Spec => Init /\ [][Next]_vars
    BY PTL DEF Spec
<1> QED
    BY Invariance, <1>1, <1>2, <1>3, PTL

(* The artifacts offered are those of the export whose model is on show,   *)
(* as long as the data is never cleared.                                   *)
THEOREM OneRun ==
    ASSUME MaxClears = 0
    PROVE  Spec => []ArtifactsOfOneRun
<1>1. ExportOnShow => ArtifactsOfOneRun
    BY DEF ExportOnShow
<1> QED
    BY ShowInvariance, <1>1, PTL

(* No source and no export is refused by a busy client, as long as the     *)
(* data is never cleared; no source is, whatever is cleared, by Inv alone. *)
THEOREM ClientsFree ==
    ASSUME MaxClears = 0
    PROVE  Spec => []NeverRefused
<1>1. Inv /\ ExportOnShow => NeverRefused
    BY DEF Inv, ExportOnShow, NeverRefused
<1> QED
    BY Invariance, ShowInvariance, <1>1, PTL

(* No source is ever refused, even beside a teardown: it cancels what the  *)
(* analysis client still waits for before it asks for anything.            *)
THEOREM SourcesAdmitted == Spec => [](refused \cap SourceKind = {})
<1>1. Inv => refused \cap SourceKind = {}
    BY DEF Inv
<1> QED
    BY Invariance, <1>1, PTL
=============================================================================
