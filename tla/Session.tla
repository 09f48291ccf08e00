------------------------------ MODULE Session ------------------------------
(***************************************************************************)
(* SessionController (apps/web/src/app/controller.ts): the orchestrator    *)
(* that runs sources, scenarios and exports as asynchronous jobs over two  *)
(* worker clients and folds their results into the session.                *)
(*                                                                         *)
(* A job is a suspended call of the controller.  It is known by the        *)
(* request id it reports under, and waits either for a promise of the main *)
(* thread (load, model) or for the request a client has in flight.  A      *)
(* promise settles in an event of its own and its continuation, a          *)
(* microtask, runs before the next event: the two are one step, and so are *)
(* a handler and the continuations of the promises it rejects.             *)
(*                                                                         *)
(* The clients are those of WorkerClient seen from the caller's side: one  *)
(* request in flight, a busy client refuses, cancel and a timeout lose the *)
(* worker and the tables it retained, an ingest leaves its table behind.   *)
(***************************************************************************)
EXTENDS SessionReducer, FiniteSets

CONSTANTS Options,    \* parse options a worker can be created with
          Manifest,   \* those of the prepared sample
          Default,    \* those derived from inspecting an upload
          Crashes,    \* may workers crash or time out?
          MaxSources, \* bound on the sources begun or parsed
          MaxExports, \* bound on the exports prepared
          MaxClears   \* bound on the teardowns waiting out their grace

ASSUME OptionsAssumption == {Manifest, Default} \subseteq Options /\ None \notin Options
ASSUME BoundAssumption ==
    /\ MaxSources \in Nat /\ MaxExports \in Nat /\ MaxClears \in Nat
    /\ Crashes \in BOOLEAN

VARIABLES
    session,   \* this.state
    jobs,      \* jobs[r]: the suspended call that reports under r
    analysis,  \* this.analysis
    exporter,  \* this.exportClient
    flow,      \* the mounted upload flow: its stage and its source
    picker,    \* the pending-picker slot
    lastSource,\* this.lastSource: are its bytes still attached?
    urls,      \* Blob URLs registered and not revoked, by run and format
    clearing,  \* calls of clearSession waiting out the dispose grace
    begun,     \* sources begun or parsed so far
    prepared,  \* exports prepared so far
    refused    \* kinds of job a busy client has refused

clients == <<analysis, exporter>>
history == <<lastSource, begun, prepared>>
vars == <<session, jobs, clients, flow, picker, urls, clearing, history, refused>>

SourceKind == {"sample", "upload"}
Kind == SourceKind \cup {"flow", "scenario", "export"}
WorkerStep == {"ingest", "profile", "normalize", "analyze", "scenario", "xlsx", "pptx"}
MainStep == {"load", "model"}
Job == [kind : Kind, step : WorkerStep \cup MainStep, src : Source,
        model : Model \cup {None}]
Client == [opts : Options \cup {None}, worker : BOOLEAN,
           inFlight : Rid \cup {None}, tables : SUBSET Source]
Flow == [stage : {"idle", "parsing", "review", "error"}, src : Source \cup {None}]
NoFlow == [stage |-> "idle", src |-> None]

(* An id can always be made; null is no job and no client.                 *)
ASSUME RidAssumption == Rid # {} /\ None \notin Job \cup Client

TypeOK ==
    /\ session \in Session
    /\ jobs \in [Rid -> Job \cup {None}]
    /\ analysis \in Client \cup {None}
    /\ exporter \in Client \cup {None}
    /\ flow \in Flow
    /\ picker \in Source \cup {None}
    /\ lastSource \in {"none", "attached", "detached"}
    /\ urls \subseteq Nat \X Format
    /\ clearing \in Nat
    /\ begun \in Nat /\ prepared \in Nat
    /\ refused \subseteq Kind

Init ==
    /\ session = InitialSession
    /\ jobs = [r \in Rid |-> None]
    /\ analysis = None /\ exporter = None
    /\ flow = NoFlow /\ picker = None /\ lastSource = "none"
    /\ urls = {} /\ clearing = 0
    /\ begun = 0 /\ prepared = 0 /\ refused = {}

-----------------------------------------------------------------------------
(* Request ids and jobs                                                    *)

(* ids.request(): an id nobody holds.  User actions leave one in reserve   *)
(* for the rotation of a running pipeline.                                 *)
FreeRids == {r \in Rid : /\ jobs[r] = None
                         /\ r \notin {session.requestId, session.scenarioRequestId}}
NewRid == CHOOSE r \in FreeRids : TRUE
RidInReserve == Cardinality(FreeRids) > 1

SourceJob(kind, step, src) == [kind |-> kind, step |-> step, src |-> src, model |-> None]
At(r, kinds, steps) == jobs[r] # None /\ jobs[r].kind \in kinds /\ jobs[r].step \in steps
Without(rs) == [r \in Rid |-> IF r \in rs THEN None ELSE jobs[r]]
WithJob(js, r, job) == [js EXCEPT ![r] = job]
Step(js, r, step) == [js EXCEPT ![r].step = step]

(* Mutant: a continuation never checks that its request is still live.     *)
NeverSuperseded(r) == FALSE

(* The live request has rotated away from r.                               *)
Superseded(r) == session.requestId # r

-----------------------------------------------------------------------------
(* Clients, as the controller sees them                                    *)

FreshClient(opts) ==
    [opts |-> opts, worker |-> FALSE, inFlight |-> None, tables |-> {}]
Waiting(client) == IF client = None THEN {} ELSE {client.inFlight} \ {None}
Posted(client, r) == [client EXCEPT !.inFlight = r, !.worker = TRUE]
Answered(client) == [client EXCEPT !.inFlight = None]
Cancelled(client) == IF client = None THEN None ELSE FreshClient(client.opts)

(* ensureAnalysis: the same client, unless the parse options differ.       *)
EnsureAnalysis(client, opts) ==
    IF client # None /\ client.opts = opts THEN client ELSE FreshClient(opts)
ExportClient == IF exporter = None THEN FreshClient(None) ELSE exporter

(* What the continuation of job r does to session s when its request is    *)
(* rejected CANCELLED.                                                     *)
Rejection(s, r) ==
    IF jobs[r].kind \in SourceKind THEN RequestCancelled(s, r)
    ELSE IF jobs[r].kind = "scenario" THEN ScenarioFailed(s, r)
    ELSE IF jobs[r].kind = "export" THEN ExportFinished(s)
    ELSE s

AfterRejecting(s, rs) == IF rs = {} THEN s ELSE Rejection(s, CHOOSE r \in rs : TRUE)

(* Mutant: a flow that was unmounted still shows its result.               *)
IsFlowJob(r) == jobs[r].kind = "flow"

(* Does the mounted flow wait for job r?                                   *)
FlowAwaits(r) == jobs[r].kind = "flow" /\ flow = [stage |-> "parsing", src |-> jobs[r].src]

(* The upload flow once the session is s and the jobs rs are rejected.  It *)
(* unmounts whenever the session is not idle, and a flow that mounts opens *)
(* with the file left in the picker slot.                                  *)
RenderFlow(s, rs) ==
    \/ /\ s.phase # "idle"
       /\ flow' = NoFlow
       /\ UNCHANGED picker
    \/ /\ s.phase = "idle" /\ session.phase # "idle"
       /\ flow' = [stage |-> "idle", src |-> picker]
       /\ picker' = None
    \/ /\ s.phase = "idle" /\ session.phase = "idle"
       /\ flow' = IF \E r \in rs : FlowAwaits(r) THEN NoFlow ELSE flow
       /\ UNCHANGED picker

-----------------------------------------------------------------------------
(* cancelWork                                                              *)

(* The synchronous part: the live request and scenario at the reducer.     *)
LiveWorkCancelled(s) ==
    LET t == IF s.requestId = None THEN s ELSE RequestCancelled(s, s.requestId)
    IN IF t.scenarioRequestId = None THEN t ELSE ScenarioFailed(t, t.scenarioRequestId)

(* Both clients cancelled, then the continuations on session s.            *)
CancelClients(s) ==
    /\ session' = AfterRejecting(AfterRejecting(s, Waiting(analysis)), Waiting(exporter))
    /\ analysis' = Cancelled(analysis)
    /\ exporter' = Cancelled(exporter)

(* Mutant: the export client drops its request without rejecting it.       *)
RejectedByAnalysis == Waiting(analysis)

CancelledJobs == Waiting(analysis) \cup Waiting(exporter)

(* The Cancel button of a pending phase, the Back button of the banner.    *)
CancelWork ==
    /\ session.phase \in PendingPhase \/ session.error # "none"
    /\ CancelClients(LiveWorkCancelled(session))
    /\ jobs' = Without(CancelledJobs)
    /\ RenderFlow(session', CancelledJobs)
    /\ UNCHANGED <<urls, clearing, history, refused>>

-----------------------------------------------------------------------------
(* Sources: selectSource and useSample                                     *)

BeginSource(kind) ==
    /\ begun < MaxSources /\ RidInReserve
    /\ begun' = begun + 1
    /\ CancelClients(RequestStart(SourceBegin(LiveWorkCancelled(session), kind, begun + 1),
                                  NewRid))
    /\ jobs' = WithJob(Without(CancelledJobs), NewRid, SourceJob(kind, "load", begun + 1))
    /\ urls' = {}
    /\ flow' = NoFlow
    /\ UNCHANGED <<picker, clearing, prepared, refused>>

(* A file handed over by the landing page; its bytes are kept for a retry. *)
SelectSource == BeginSource("upload") /\ lastSource' = "attached"

(* Try again: the same bytes are selected once more.                       *)
RetrySource ==
    /\ session.error = "retry" /\ lastSource # "none"
    /\ BeginSource("upload")
    /\ UNCHANGED lastSource

UseSample ==
    /\ session.phase \notin WorkingPhase
    /\ BeginSource("sample")
    /\ UNCHANGED lastSource

(* A continuation that only ends its job.                                  *)
DropResult(r) ==
    /\ jobs' = Without({r})
    /\ RenderFlow(session', {})
    /\ UNCHANGED <<urls, clearing, history, refused>>

(* Job r asks `client` for `step` on session s; a busy client refuses and  *)
(* the pipeline fails.                                                     *)
RequestOn(client, s, js, r, step) ==
    IF Waiting(client) = {}
    THEN /\ analysis' = Posted(client, r)
         /\ session' = s
         /\ jobs' = Step(js, r, step)
         /\ UNCHANGED refused
    ELSE /\ analysis' = client
         /\ session' = RequestFailed(s, r, "plain")
         /\ jobs' = [js EXCEPT ![r] = None]
         /\ refused' = refused \cup {js[r].kind}

(* The live upload is of lastSource; detached bytes cannot be read.        *)
Readable(r) == jobs[r].kind = "sample" \/ Superseded(r) \/ lastSource = "attached"

(* The assets are fetched or the file is inspected: ingest it.  Replacing  *)
(* the client disposes the old one, which rejects what it has in flight.   *)
(* Posting the bytes transfers them, which detaches them here.             *)
SourceLoaded(r) ==
    /\ At(r, SourceKind, {"load"}) /\ Readable(r)
    /\ UNCHANGED exporter
    /\ \/ /\ Superseded(r)
          /\ UNCHANGED <<session, analysis>>
          /\ DropResult(r)
       \/ /\ ~Superseded(r)
          /\ LET opts == IF jobs[r].kind = "sample" THEN Manifest ELSE Default
                 client == EnsureAnalysis(analysis, opts)
                 lost == IF client = analysis THEN {} ELSE Waiting(analysis)
             IN /\ RequestOn(client, AfterRejecting(session, lost), Without(lost), r, "ingest")
                /\ RenderFlow(session', lost)
                /\ lastSource' = IF jobs[r].kind = "upload" /\ Waiting(client) = {}
                                 THEN "detached" ELSE lastSource
          /\ UNCHANGED <<urls, clearing, begun, prepared>>

(* The fetch or the inspection rejects.                                    *)
SourceUnreadable(r) ==
    /\ At(r, SourceKind, {"load"})
    /\ \E error \in {"plain"} \cup
            (IF jobs[r].kind = "upload" /\ Readable(r) THEN {"retry"} ELSE {}) :
          session' = RequestFailed(session, r, error)
    /\ UNCHANGED clients
    /\ DropResult(r)

(* The inspection rejects with an ambiguous delimiter: the file goes to    *)
(* the picker slot, whether or not the request is still live.              *)
SourceAmbiguous(r) ==
    /\ At(r, {"upload"}, {"load"}) /\ Readable(r)
    /\ session' = DeferToPicker(session, r)
    /\ jobs' = Without({r})
    /\ \/ /\ session'.phase = "idle" /\ session.phase # "idle"
          /\ flow' = [stage |-> "idle", src |-> jobs[r].src]
          /\ picker' = None
       \/ /\ session' = session
          /\ picker' = jobs[r].src
          /\ UNCHANGED flow
    /\ UNCHANGED <<clients, urls, clearing, history, refused>>

Answers(r, kinds, steps) == r \in Waiting(analysis) /\ At(r, kinds, steps)
Kept == UNCHANGED <<exporter, flow, picker, urls, clearing, history>>

(* The result of job r arrives after the session moved on.                 *)
StaleResult(r) ==
    /\ Answers(r, SourceKind, WorkerStep)
    /\ Superseded(r)
    /\ analysis' = Answered(analysis)
    /\ UNCHANGED <<session, exporter>>
    /\ DropResult(r)

(* ingest: the worker retains the table.                                   *)
Ingested(r) ==
    /\ Answers(r, SourceKind, {"ingest"}) /\ ~Superseded(r)
    /\ RequestOn([Answered(analysis) EXCEPT !.tables = @ \cup {jobs[r].src}],
                 IngestDone(session, r), jobs, r, "profile")
    /\ Kept

(* The pipeline moves to a fresh request id n.                             *)
Rotated(r, n) == [jobs EXCEPT ![r] = None, ![n] = jobs[r]]

Profiled(r) ==
    /\ Answers(r, SourceKind, {"profile"}) /\ ~Superseded(r)
    /\ jobs[r].src \in analysis.tables
    /\ \E actionable \in BOOLEAN :
          LET s == ProfileDone(session, r, actionable)
          IN IF s.phase = "needsReview"
             THEN /\ session' = s
                  /\ analysis' = Answered(analysis)
                  /\ jobs' = Without({r})
                  /\ UNCHANGED refused
             ELSE RequestOn(Answered(analysis), RequestStart(s, NewRid),
                            Rotated(r, NewRid), NewRid, "normalize")
    /\ Kept

(* Mutant: the pipeline keeps reporting under the id of its normalize.     *)
NormalizedUnrotated(r) ==
    /\ Answers(r, SourceKind, {"normalize"}) /\ ~Superseded(r)
    /\ jobs[r].src \in analysis.tables
    /\ RequestOn(Answered(analysis), RequestStart(session, NewRid), jobs, r, "analyze")
    /\ Kept

Normalized(r) ==
    /\ Answers(r, SourceKind, {"normalize"}) /\ ~Superseded(r)
    /\ jobs[r].src \in analysis.tables
    /\ RequestOn(Answered(analysis), RequestStart(session, NewRid),
                 Rotated(r, NewRid), NewRid, "analyze")
    /\ Kept

(* The snapshot is committed: the worker's, or at once after normalize the *)
(* one prepared with the sample.                                           *)
Analyzed(r) ==
    /\ \/ Answers(r, SourceKind, {"analyze"})
       \/ Answers(r, {"sample"}, {"normalize"}) /\ jobs[r].src \in analysis.tables
    /\ ~Superseded(r)
    /\ session' = AnalyzeDone(session, r, jobs[r].src)
    /\ analysis' = Answered(analysis)
    /\ UNCHANGED exporter
    /\ DropResult(r)

(* The request ends in an error; a timeout or a crash also costs the       *)
(* worker.  Before review an upload's failure offers a retry.              *)
AnalysisFails(r) ==
    /\ r \in Waiting(analysis)
    /\ analysis' \in {Answered(analysis)} \cup (IF Crashes THEN {Cancelled(analysis)} ELSE {})
    /\ \/ /\ jobs[r].kind \in SourceKind
          /\ \E error \in {"plain"} \cup
                  (IF At(r, {"upload"}, {"ingest", "profile"}) THEN {"retry"} ELSE {}) :
                session' = RequestFailed(session, r, error)
       \/ jobs[r].kind = "scenario" /\ session' = ScenarioFailed(session, r)
       \/ jobs[r].kind = "flow" /\ UNCHANGED session
    /\ jobs' = Without({r})
    /\ \/ ~FlowAwaits(r) /\ RenderFlow(session', {})
       \/ FlowAwaits(r) /\ flow' = [flow EXCEPT !.stage = "error"] /\ UNCHANGED picker
    /\ UNCHANGED <<exporter, urls, clearing, history, refused>>

(* worker.onerror with nothing in flight.                                  *)
IdleCrash ==
    /\ Crashes
    /\ analysis # None /\ analysis.worker /\ analysis.inFlight = None
    /\ analysis' = Cancelled(analysis)
    /\ UNCHANGED <<session, jobs, exporter, flow, picker, urls, clearing, history, refused>>

(* Job r, new, asks the live analysis client to normalize; there may be no *)
(* client while the session is being cleared.                              *)
Normalize(s, r, kind, src) ==
    LET js == WithJob(jobs, r, SourceJob(kind, "normalize", src))
    IN IF analysis = None
       THEN /\ session' = RequestFailed(s, r, "plain")
            /\ UNCHANGED <<analysis, jobs, refused>>
       ELSE RequestOn(analysis, s, js, r, "normalize")

ApproveReview ==
    /\ session.phase = "needsReview" /\ session.pending.parsed
    /\ RidInReserve
    /\ Normalize(RequestStart(ReviewApprove(session), NewRid), NewRid,
                 session.pending.kind, session.pending.src)
    /\ RenderFlow(session', {})
    /\ UNCHANGED <<exporter, urls, clearing, history>>

-----------------------------------------------------------------------------
(* The upload flow, mounted while the session is idle                      *)

(* The flow's proceed or retry: a previous job of the flow is aborted,     *)
(* which cancels the client, and parseViaWorker ingests on the client with *)
(* the chosen options.                                                     *)
FlowParse(opts) ==
    /\ session.phase = "idle" /\ flow.stage # "parsing"
    /\ begun < MaxSources /\ RidInReserve
    /\ begun' = begun + 1
    /\ LET aborted == IF flow.stage = "idle" THEN analysis ELSE Cancelled(analysis)
           client == EnsureAnalysis(aborted, opts)
           lost == IF client = analysis THEN {} ELSE Waiting(analysis)
           job == SourceJob("flow", "ingest", begun + 1)
       IN /\ session' = AfterRejecting(session, lost)
          /\ IF Waiting(client) = {}
             THEN /\ analysis' = Posted(client, NewRid)
                  /\ jobs' = WithJob(Without(lost), NewRid, job)
                  /\ flow' = [stage |-> "parsing", src |-> begun + 1]
                  /\ UNCHANGED refused
             ELSE /\ analysis' = client
                  /\ jobs' = Without(lost)
                  /\ flow' = [stage |-> "error", src |-> begun + 1]
                  /\ refused' = refused \cup {"flow"}
    /\ UNCHANGED <<exporter, picker, lastSource, urls, clearing, prepared>>

(* parseViaWorker resolves and profileViaWorker follows at once.           *)
FlowParsed(r) ==
    /\ Answers(r, {"flow"}, {"ingest"})
    /\ analysis' = Posted([analysis EXCEPT !.tables = @ \cup {jobs[r].src}], r)
    /\ jobs' = Step(jobs, r, "profile")
    /\ UNCHANGED <<session, refused>> /\ Kept

FlowProfiled(r) ==
    /\ Answers(r, {"flow"}, {"profile"})
    /\ jobs[r].src \in analysis.tables
    /\ analysis' = Answered(analysis)
    /\ jobs' = Without({r})
    /\ flow' = IF FlowAwaits(r) THEN [flow EXCEPT !.stage = "review"] ELSE flow
    /\ UNCHANGED <<session, exporter, picker, urls, clearing, history, refused>>

(* The flow is cancelled: its abort signal cancels the client.             *)
FlowAbort ==
    /\ session.phase = "idle" /\ flow.stage # "idle"
    /\ session' = AfterRejecting(session, Waiting(analysis))
    /\ analysis' = Cancelled(analysis)
    /\ jobs' = Without(Waiting(analysis))
    /\ flow' = NoFlow
    /\ UNCHANGED <<exporter, picker, urls, clearing, history, refused>>

(* adoptUploadOutcome: the session skips to normalize on the live worker.  *)
AdoptUploadOutcome ==
    /\ session.phase = "idle" /\ flow.stage = "review" /\ RidInReserve
    /\ LET begin == RequestStart(SourceBegin(session, "upload", flow.src), NewRid)
       IN Normalize(ProfileDone(IngestDone(begin, NewRid), NewRid, FALSE), NewRid,
                    "upload", flow.src)
    /\ urls' = {}
    /\ flow' = NoFlow
    /\ UNCHANGED <<exporter, picker, clearing, history>>

-----------------------------------------------------------------------------
(* Scenario                                                                *)

(* submitScenario: the request is sent even when the reducer ignored the   *)
(* submit (the panel also shows while exporting).                          *)
SubmitScenario ==
    /\ session.phase \in DatasetPhase /\ session.scenarioRequestId = None
    /\ RidInReserve
    /\ LET s == ScenarioSubmit(session, NewRid)
           client == IF analysis = None THEN FreshClient(None) ELSE analysis
           job == SourceJob("scenario", "scenario", session.active)
       IN IF Waiting(client) = {}
          THEN /\ session' = s
               /\ analysis' = Posted(client, NewRid)
               /\ jobs' = WithJob(jobs, NewRid, job)
               /\ UNCHANGED refused
          ELSE /\ session' = ScenarioFailed(s, NewRid)
               /\ refused' = refused \cup {"scenario"}
               /\ UNCHANGED <<analysis, jobs>>
    /\ Kept

ScenarioAnswered(r) ==
    /\ Answers(r, {"scenario"}, {"scenario"})
    /\ session' = ScenarioDone(session, r, jobs[r].src)
    /\ analysis' = Answered(analysis)
    /\ jobs' = Without({r})
    /\ UNCHANGED refused /\ Kept

ResetScenario ==
    /\ session.phase \in DatasetPhase /\ session.scenario # None
    /\ session' = ScenarioReset(session)
    /\ UNCHANGED <<jobs, analysis, refused>> /\ Kept

-----------------------------------------------------------------------------
(* Export                                                                  *)

ExportVars == UNCHANGED <<analysis, flow, picker, clearing, refused>>

(* prepareExport up to the model build, which reads the session's dataset  *)
(* and scenario.                                                           *)
PrepareExport ==
    /\ session.phase = "ready" /\ session.active # None
    /\ prepared < MaxExports /\ RidInReserve
    /\ prepared' = prepared + 1
    /\ session' = RequestStart(session, NewRid)
    /\ LET model == [run |-> prepared + 1, src |-> session.active,
                     scenario |-> session.scenario]
       IN jobs' = WithJob(jobs, NewRid, [kind |-> "export", step |-> "model",
                                         src |-> session.active, model |-> model])
    /\ UNCHANGED <<exporter, urls, begun, lastSource>> /\ ExportVars

(* The model is built for a session that moved on.                         *)
ModelSuperseded(r) ==
    /\ At(r, {"export"}, {"model"})
    /\ Superseded(r) \/ session.active # jobs[r].src
    /\ jobs' = Without({r})
    /\ UNCHANGED <<session, exporter, urls, history>> /\ ExportVars

(* export.begin, and the first format is requested of the export client; a *)
(* client still busy with an older export would refuse both formats.       *)
ModelBuilt(r) ==
    /\ At(r, {"export"}, {"model"})
    /\ ~Superseded(r) /\ session.active = jobs[r].src
    /\ LET s == ExportBegin(session, jobs[r].model)
       IN IF Waiting(exporter) = {}
          THEN /\ session' = s
               /\ exporter' = Posted(ExportClient, r)
               /\ jobs' = Step(jobs, r, "xlsx")
               /\ UNCHANGED refused
          ELSE /\ session' = ExportFinished(s)
               /\ jobs' = Without({r})
               /\ refused' = refused \cup {"export"}
               /\ UNCHANGED exporter
    /\ UNCHANGED <<analysis, flow, picker, urls, clearing, history>>

ModelFails(r) ==
    /\ At(r, {"export"}, {"model"})
    /\ session' = RequestFailed(session, r, "plain")
    /\ UNCHANGED clients
    /\ DropResult(r)

(* Mutant: the loop ends without export.finished.                          *)
NextFormatUnfinished(r, s, client) ==
    IF jobs[r].step = "xlsx"
    THEN /\ session' = s
         /\ exporter' = Posted(client, r)
         /\ jobs' = Step(jobs, r, "pptx")
    ELSE /\ session' = s
         /\ exporter' = client
         /\ jobs' = Without({r})

(* After xlsx the loop goes on to pptx, after pptx the export is finished. *)
NextFormat(r, s, client) ==
    IF jobs[r].step = "xlsx"
    THEN /\ session' = s
         /\ exporter' = Posted(client, r)
         /\ jobs' = Step(jobs, r, "pptx")
    ELSE /\ session' = ExportFinished(s)
         /\ exporter' = client
         /\ jobs' = Without({r})

(* A format arrives: its bytes are registered as a Blob URL, whatever the  *)
(* epoch.                                                                  *)
ExportAnswered(r) ==
    /\ r \in Waiting(exporter) /\ jobs[r].step \in Format
    /\ urls' = urls \cup {<<jobs[r].model.run, jobs[r].step>>}
    /\ NextFormat(r, ExportDone(session, jobs[r].step, jobs[r].model), Answered(exporter))
    /\ UNCHANGED history /\ ExportVars

(* A format fails, or comes without its bytes: the other is still tried.   *)
FormatFails(r) ==
    /\ r \in Waiting(exporter) /\ jobs[r].step \in Format
    /\ \/ NextFormat(r, session, Answered(exporter))
       \/ Crashes /\ NextFormat(r, session, Cancelled(exporter))
    /\ UNCHANGED <<urls, history>> /\ ExportVars

(* The Cancel button of the dialog or of the exporting phase.              *)
CancelExport ==
    /\ session.export.building \/ session.phase = "exporting"
    /\ LET s == IF session.requestId = None THEN session
                ELSE RequestCancelled(session, session.requestId)
       IN session' = AfterRejecting(s, Waiting(exporter))
    /\ exporter' = Cancelled(exporter)
    /\ jobs' = Without(Waiting(exporter))
    /\ RenderFlow(session', {})
    /\ UNCHANGED <<analysis, urls, clearing, history, refused>>

-----------------------------------------------------------------------------
(* Replay and teardown                                                     *)

ReplaySession ==
    /\ session.phase = "ready"
    /\ session' = Replay(session)
    /\ UNCHANGED <<jobs, exporter, urls, history>> /\ ExportVars

HasWorker(client) == client # None /\ client.worker

(* clearSession: both clients are disposed, which rejects what they have   *)
(* in flight; the session itself is reset once their workers' grace ends.  *)
ClearSession ==
    /\ clearing < MaxClears
    /\ LET s == AfterRejecting(AfterRejecting(session, Waiting(analysis)), Waiting(exporter))
       IN IF HasWorker(analysis) \/ HasWorker(exporter)
          THEN session' = s /\ clearing' = clearing + 1
          ELSE session' = InitialSession /\ UNCHANGED clearing
    /\ analysis' = None /\ exporter' = None
    /\ jobs' = Without(CancelledJobs)
    /\ urls' = {}
    /\ RenderFlow(session', CancelledJobs)
    /\ UNCHANGED <<history, refused>>

(* session.clear, after which the app leaves for the landing page.         *)
ClearEnds ==
    /\ clearing > 0
    /\ clearing' = clearing - 1
    /\ session' = InitialSession
    /\ flow' = NoFlow
    /\ UNCHANGED <<jobs, clients, picker, urls, history, refused>>

-----------------------------------------------------------------------------
(* What the environment does to job r: a promise settles.                  *)
SourceSettles(r) ==
    \/ SourceLoaded(r) \/ SourceUnreadable(r) \/ SourceAmbiguous(r) \/ StaleResult(r)
    \/ Ingested(r) \/ Profiled(r) \/ Normalized(r) \/ Analyzed(r)
    \/ FlowParsed(r) \/ FlowProfiled(r) \/ ScenarioAnswered(r) \/ AnalysisFails(r)
ExportSettles(r) ==
    \/ ModelSuperseded(r) \/ ModelBuilt(r) \/ ModelFails(r)
    \/ ExportAnswered(r) \/ FormatFails(r)

Next ==
    \/ \E r \in Rid : SourceSettles(r) \/ ExportSettles(r)
    \/ SelectSource \/ RetrySource \/ UseSample \/ ApproveReview \/ CancelWork \/ IdleCrash
    \/ \E opts \in Options : FlowParse(opts)
    \/ FlowAbort \/ AdoptUploadOutcome
    \/ SubmitScenario \/ ResetScenario
    \/ PrepareExport \/ CancelExport
    \/ ReplaySession \/ ClearSession \/ ClearEnds

Spec == Init /\ [][Next]_vars

(* Requests to a worker settle because each has a watchdog, the teardown   *)
(* because its grace is a timer.  The fetch of the sample, the inspection  *)
(* of a file and the model build have no watchdog: that they settle is an  *)
(* assumption.  Users are not assumed to do anything.                      *)
FairSpec == /\ Spec
            /\ WF_vars(\E r \in Rid : SourceSettles(r))
            /\ WF_vars(\E r \in Rid : ExportSettles(r))
            /\ WF_vars(ClearEnds)

-----------------------------------------------------------------------------
(* Properties                                                              *)

(* The phase agrees with the data it shows: a source is pending exactly in *)
(* the pending phases and its table is there once it is profiled, and      *)
(* results are shown only of a committed dataset (in PhaseBody a ready     *)
(* phase without one renders nothing).  Every variable has its type.       *)
PhaseAgrees ==
    /\ TypeOK
    /\ session.pending # None <=> session.phase \in PendingPhase
    /\ session.phase \in PendingPhase \ {"reading"} => session.pending.parsed
    /\ session.phase \in DatasetPhase => session.active # None

(* No phase is parked: a phase that shows progress has a live job that     *)
(* reports under the live request id, for the source that is pending, and  *)
(* an exporting phase has one that reports under the current epoch.        *)
NoParkedPhase ==
    /\ session.phase \in WorkingPhase =>
          \E r \in Rid : /\ session.requestId = r
                         /\ At(r, SourceKind, WorkerStep \cup MainStep)
                         /\ jobs[r].src = session.pending.src
    /\ session.phase = "exporting" =>
          /\ CurrentEpoch(session)
          /\ \E r \in Waiting(exporter) : jobs[r].model = session.export.model

(* A job that waits for a worker is the one its client has in flight: no   *)
(* cancel, teardown or replacement of a client strands a suspended call.   *)
NoStrandedJob ==
    \A r \in Rid :
        At(r, Kind, WorkerStep) =>
            r \in IF jobs[r].kind = "export" THEN Waiting(exporter) ELSE Waiting(analysis)

(* The results on show are of one dataset: the committed scenario was      *)
(* computed on the committed dataset, and the export model was built from  *)
(* it.                                                                     *)
ResultsOfDataset ==
    /\ session.scenario \in {None, session.active}
    /\ session.export.model = None \/ session.export.model.src = session.active

(* The artifacts offered were built by the run whose model is on show: a   *)
(* superseded or cancelled export commits nothing to a later one.          *)
ArtifactsOfOneRun ==
    \A f \in Format : session.export.artifacts[f] \in {None, session.export.model}

(* Sources and exports are never refused by a busy client: a source first  *)
(* cancels what is in flight, and no export begins before the last ends.   *)
NeverRefused == refused \cap (SourceKind \cup {"export"}) = {}

(* The committed dataset is replaced only by that of the pending source,   *)
(* and lost only to a teardown: no failed, cancelled or superseded upload  *)
(* destroys or overwrites it.                                              *)
DatasetChanges ==
    [][session'.active # session.active =>
          \/ session.pending # None /\ session'.active = session.pending.src
          \/ session' = InitialSession]_vars

(* Work that shows progress comes to an end, whatever the workers do.      *)
WorkEnds ==
    /\ session.phase \in WorkingPhase ~> session.phase \notin WorkingPhase
    /\ session.phase = "exporting" ~> session.phase # "exporting"

-----------------------------------------------------------------------------
(* Claims of the code's own comments that the runs refute                  *)

(* "export artifacts bind the committed scenario + locale captured at      *)
(* export.begin" (controller.ts, sequencing contract): the scenario the    *)
(* export state names is the one its model was built with.                 *)
ExportBindsScenario ==
    session.export.model # None =>
        session.export.scenarioId = session.export.model.scenario

(* "commits are dropped once it no longer matches" (ExportState.epoch):    *)
(* also after a teardown, the artifacts offered are those of the run whose *)
(* model is on show.                                                       *)
StaleCommitsDropped == ArtifactsOfOneRun

(* "a failed upload must never destroy a valid session" (source.begin):    *)
(* the artifacts offered for download have live Blob URLs.                 *)
LinksAlive ==
    \A f \in Format :
        session.phase = "ready" /\ clearing = 0 /\ session.export.artifacts[f] # None
            => <<session.export.artifacts[f].run, f>> \in urls

(* "cancelling terminates that worker and discards the retained table"     *)
(* (adoptUploadOutcome, on why it does not cancel): with no crash, an      *)
(* upload under review still has its table when it is adopted.             *)
ReviewedTableKept ==
    session.phase = "idle" /\ flow.stage = "review" /\ analysis # None
        => flow.src \in analysis.tables

(* "Last source handed to selectSource - retained so a failed upload can   *)
(* retry": where Try again is offered, the bytes it reads are there.       *)
RetryHasBytes == session.error = "retry" => lastSource = "attached"
=============================================================================
