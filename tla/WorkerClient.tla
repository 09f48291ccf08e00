---------------------------- MODULE WorkerClient ----------------------------
(***************************************************************************)
(* The worker transport of the web app: WorkerClient                       *)
(* (apps/web/src/workers/client.ts), which serialises requests over one    *)
(* dedicated worker, and WorkerSupervisor (supervisor.ts), the dispatcher  *)
(* inside that worker.                                                     *)
(*                                                                         *)
(* The client side runs on the main thread, so each of its entry points    *)
(* (request, cancel, dispose, a timer, a message or error event) is one    *)
(* step.  Messages travel in per-instance FIFO queues; terminating an      *)
(* instance and detaching its handlers loses whatever is still queued.     *)
(* A supervisor handles messages concurrently (handleMessage awaits), so   *)
(* the answers of two requests may overtake each other.                    *)
(*                                                                         *)
(* Request ids are fresh, so a request is its own (requestId, sessionId,   *)
(* revision) context and is issued at most once.                           *)
(***************************************************************************)
EXTENDS Naturals, Sequences

CONSTANTS Request,    \* requests callers may issue
          Worker,     \* instances the factory can produce
          Table,      \* raw tables
          Ingests,    \* requests whose operation is `ingest`
          Lookups,    \* requests whose operation is `profile` or `normalize`
          TableOf,    \* the table an ingest produces, or a lookup needs
          Dispose,    \* the dispose message
          None,       \* null
          MaxQueue    \* bound on the messages an instance has queued

ASSUME RequestAssumption ==
    /\ Ingests \subseteq Request
    /\ Lookups \subseteq Request \ Ingests
    /\ TableOf \in [Ingests \cup Lookups -> Table]
    /\ None \notin Request \cup Worker
    /\ Dispose \notin Request
ASSUME BoundAssumption == MaxQueue \in Nat

VARIABLES
    worker,      \* this.worker
    inFlight,    \* this.inFlight, by its request
    terminated,  \* this.terminated
    grace,       \* instance waiting out the dispose grace period
    watchdog,    \* requests whose watchdog timer is armed
    promise,     \* promise[r]: state of the promise request() returned
    spawned,     \* instances ever created
    live,        \* instances created and not terminated
    inbox,       \* inbox[w]: messages posted to w and not yet handled
    running,     \* running[w]: requests w is working on
    outbox,      \* outbox[w]: messages posted by w and not yet delivered
    rawTables    \* rawTables[w]: tables the supervisor in w retains

clientVars == <<worker, inFlight, terminated, grace, watchdog, promise>>
workerVars == <<spawned, live, inbox, running, outbox, rawTables>>
vars == <<clientVars, workerVars>>

Refusal == {"REFUSED_TERMINATED", "REFUSED_BUSY", "SCHEMA_MISMATCH", "INTERNAL"}
Outcome == Refusal \cup {"SUCCESS", "ERROR", "UNKNOWN_TABLE", "CANCELLED", "TIMEOUT"}

(* A promise remembers the request it was settled on behalf of and the     *)
(* instance that answered.                                                 *)
Promise == [code : Outcome \cup {"unissued", "pending"},
            cause : Request \cup {None}, by : Worker \cup {None}]
Message == [kind : {"progress", "success", "error", "unknownTable", "malformed"},
            of : Request \cup {Dispose}]

TypeOK ==
    /\ worker \in Worker \cup {None}
    /\ inFlight \in Request \cup {None}
    /\ terminated \in BOOLEAN
    /\ grace \in Worker \cup {None}
    /\ watchdog \subseteq Request
    /\ promise \in [Request -> Promise]
    /\ spawned \subseteq Worker
    /\ live \subseteq spawned
    /\ inbox \in [Worker -> Seq(Request \cup {Dispose})]
    /\ running \in [Worker -> SUBSET Request]
    /\ outbox \in [Worker -> Seq(Message)]
    /\ rawTables \in [Worker -> SUBSET Table]

Init ==
    /\ worker = None /\ inFlight = None /\ terminated = FALSE /\ grace = None
    /\ watchdog = {}
    /\ promise = [r \in Request |-> [code |-> "unissued", cause |-> None, by |-> None]]
    /\ spawned = {} /\ live = {}
    /\ inbox = [w \in Worker |-> <<>>]
    /\ running = [w \in Worker |-> {}]
    /\ outbox = [w \in Worker |-> <<>>]
    /\ rawTables = [w \in Worker |-> {}]

-----------------------------------------------------------------------------
(* Client helpers                                                          *)

Settled(code, cause, by) == [code |-> code, cause |-> cause, by |-> by]

(* Mutant: the timers are not cleared when the request settles.            *)
FailKeepingTimers(code, cause, by) ==
    /\ promise' = IF inFlight = None THEN promise
                  ELSE [promise EXCEPT ![inFlight] = Settled(code, cause, by)]
    /\ watchdog' = IF code = "TIMEOUT" THEN watchdog \ {cause} ELSE watchdog
    /\ inFlight' = None

(* failInFlight: reject the promise in flight, if any, and clear its timer. *)
FailInFlight(code, cause, by) ==
    /\ promise' = IF inFlight = None THEN promise
                  ELSE [promise EXCEPT ![inFlight] = Settled(code, cause, by)]
    /\ watchdog' = watchdog \ {inFlight, cause}  \* a timer that fired is spent
    /\ inFlight' = None

(* worker.terminate() with the handlers detached: the instance, what it    *)
(* retained and every message still queued to or from it are gone.  The    *)
(* null instance has nothing to lose.                                      *)
Wiped(f, w, empty) == [v \in Worker |-> IF v = w THEN empty ELSE f[v]]
Terminate(w) ==
    /\ live' = live \ {w}
    /\ inbox' = Wiped(inbox, w, <<>>)
    /\ outbox' = Wiped(outbox, w, <<>>)
    /\ running' = Wiped(running, w, {})
    /\ rawTables' = Wiped(rawTables, w, {})
    /\ UNCHANGED spawned

(* Mutant: the instance is detached but not terminated.                    *)
DetachOnly == worker' = None /\ UNCHANGED workerVars

(* recreateWorker: terminate and detach; the next request spawns another.  *)
RecreateWorker == worker' = None /\ Terminate(worker)

(* ensureWorker: keep the attached instance or create a fresh one.         *)
EnsureWorker(w) ==
    /\ IF worker # None THEN w = worker ELSE w \notin spawned
    /\ worker' = w
    /\ spawned' = spawned \cup {w}
    /\ live' = live \cup {w}

-----------------------------------------------------------------------------
(* request()                                                               *)

Refuse(r, code) ==
    /\ promise[r].code = "unissued"
    /\ promise' = [promise EXCEPT ![r] = Settled(code, r, None)]
    /\ UNCHANGED <<worker, inFlight, terminated, grace, watchdog, workerVars>>

RequestTerminated(r) == terminated /\ Refuse(r, "REFUSED_TERMINATED")

RequestBusy(r) == ~terminated /\ inFlight # None /\ Refuse(r, "REFUSED_BUSY")

(* encodeRequest throws: the envelope does not satisfy the wire schema.    *)
RequestUnencodable(r) ==
    /\ ~terminated /\ inFlight = None
    /\ Refuse(r, "SCHEMA_MISMATCH")

(* The worker factory throws.                                              *)
RequestNoWorker(r) ==
    /\ ~terminated /\ inFlight = None /\ worker = None
    /\ Refuse(r, "INTERNAL")

(* Mutant: the request is posted with no watchdog.                         *)
PostedUnwatched(r) ==
    /\ ~terminated /\ inFlight = None
    /\ promise[r].code = "unissued"
    /\ promise' = [promise EXCEPT ![r] = Settled("pending", None, None)]
    /\ inFlight' = r
    /\ \E w \in Worker : /\ EnsureWorker(w)
                         /\ inbox' = [inbox EXCEPT ![w] = Append(@, r)]
    /\ UNCHANGED <<watchdog, terminated, grace, running, outbox, rawTables>>

(* The message is posted and the watchdog armed.                           *)
RequestPosted(r) ==
    /\ ~terminated /\ inFlight = None
    /\ promise[r].code = "unissued"
    /\ promise' = [promise EXCEPT ![r] = Settled("pending", None, None)]
    /\ inFlight' = r
    /\ watchdog' = watchdog \cup {r}
    /\ \E w \in Worker : /\ EnsureWorker(w)
                         /\ inbox' = [inbox EXCEPT ![w] = Append(@, r)]
    /\ UNCHANGED <<terminated, grace, running, outbox, rawTables>>

(* postMessage throws: the promise fails but the instance is kept.         *)
RequestUnpostable(r) ==
    /\ ~terminated /\ inFlight = None
    /\ promise[r].code = "unissued"
    /\ promise' = [promise EXCEPT ![r] = Settled("INTERNAL", r, None)]
    /\ \E w \in Worker : EnsureWorker(w)
    /\ UNCHANGED <<inFlight, terminated, grace, watchdog,
                   inbox, running, outbox, rawTables>>

IssueRequest(r) ==
    \/ RequestTerminated(r) \/ RequestBusy(r) \/ RequestUnencodable(r)
    \/ RequestNoWorker(r) \/ RequestPosted(r) \/ RequestUnpostable(r)

-----------------------------------------------------------------------------
(* cancel(), the watchdog, worker errors, dispose()                        *)

(* Mutant: the request in flight is dropped without rejecting its promise. *)
CancelSilently ==
    /\ inFlight # None \/ worker # None
    /\ inFlight' = None /\ watchdog' = watchdog \ {inFlight}
    /\ RecreateWorker
    /\ UNCHANGED <<promise, terminated, grace>>

Cancel ==
    /\ inFlight # None \/ worker # None
    /\ FailInFlight("CANCELLED", inFlight, None)
    /\ RecreateWorker
    /\ UNCHANGED <<terminated, grace>>

(* The timer armed for r fires; it fails whatever is in flight.            *)
WatchdogFires(r) ==
    /\ r \in watchdog
    /\ FailInFlight("TIMEOUT", r, None)
    /\ RecreateWorker
    /\ UNCHANGED <<terminated, grace>>

(* worker.onerror on the attached instance.                                *)
WorkerError ==
    /\ worker # None
    /\ FailInFlight("INTERNAL", inFlight, worker)
    /\ RecreateWorker
    /\ UNCHANGED <<terminated, grace>>

(* Mutant: the worker reference is dropped before anything terminates it.  *)
DisposeForgetting ==
    /\ ~terminated
    /\ terminated' = TRUE
    /\ FailInFlight("CANCELLED", inFlight, None)
    /\ worker' = None
    /\ UNCHANGED <<grace, workerVars>>

DisposeClient ==
    /\ ~terminated
    /\ terminated' = TRUE
    /\ FailInFlight("CANCELLED", inFlight, None)
    /\ grace' = worker
    /\ worker' = None
    /\ inbox' = IF worker = None THEN inbox
                ELSE [inbox EXCEPT ![worker] = Append(@, Dispose)]
    /\ UNCHANGED <<spawned, live, running, outbox, rawTables>>

GraceEnds ==
    /\ grace # None
    /\ grace' = None
    /\ Terminate(grace)
    /\ UNCHANGED <<worker, inFlight, terminated, watchdog, promise>>

-----------------------------------------------------------------------------
(* handleMessage: what the client does with a message from instance w      *)

Take(w) == outbox' = [outbox EXCEPT ![w] = Tail(@)]

(* Mutant: only the session and revision are compared.                     *)
SameSession(m) == TRUE

(* Freshness guard: does the message echo the context in flight?           *)
Current(m) == m.of = inFlight

DropMessage(w) ==
    LET m == Head(outbox[w]) IN
    /\ \/ inFlight = None
       \/ m.kind # "malformed" /\ ~Current(m)
       \/ Current(m) /\ m.kind = "progress"
    /\ Take(w)
    /\ UNCHANGED <<clientVars, spawned, live, inbox, running, rawTables>>

MalformedMessage(w) ==
    /\ inFlight # None
    /\ Head(outbox[w]).kind = "malformed"
    /\ FailInFlight("SCHEMA_MISMATCH", inFlight, w)
    /\ Take(w)
    /\ UNCHANGED <<worker, terminated, grace, spawned, live, inbox, running, rawTables>>

Terminal == [success |-> "SUCCESS", error |-> "ERROR", unknownTable |-> "UNKNOWN_TABLE"]

(* Mutant: the promise settles but the request stays in flight.            *)
SettleKeepingInFlight(w) ==
    LET m == Head(outbox[w]) IN
    /\ inFlight # None
    /\ m.kind \in DOMAIN Terminal
    /\ Current(m)
    /\ promise' = [promise EXCEPT ![m.of] = Settled(Terminal[m.kind], m.of, w)]
    /\ Take(w)
    /\ UNCHANGED <<watchdog, inFlight>>
    /\ UNCHANGED <<worker, terminated, grace, spawned, live, inbox, running, rawTables>>

TerminalMessage(w) ==
    LET m == Head(outbox[w]) IN
    /\ inFlight # None
    /\ m.kind \in DOMAIN Terminal
    /\ Current(m)
    /\ FailInFlight(Terminal[m.kind], m.of, w)
    /\ Take(w)
    /\ UNCHANGED <<worker, terminated, grace, spawned, live, inbox, running, rawTables>>

HandleMessage(w) ==
    /\ w \in {worker, grace} \ {None}
    /\ outbox[w] # <<>>
    /\ DropMessage(w) \/ MalformedMessage(w) \/ TerminalMessage(w)

-----------------------------------------------------------------------------
(* The supervisor inside instance w                                        *)

Post(w, kind, r) ==
    outbox' = [outbox EXCEPT ![w] = Append(@, [kind |-> kind, of |-> r])]

SupervisorVars(w) == UNCHANGED <<clientVars, spawned, live>>

(* Mutant: dispose is started like an operation.                           *)
DispatchDisposeToo(w) ==
    LET r == Head(inbox[w]) IN
    /\ w \in live /\ inbox[w] # <<>>
    /\ inbox' = [inbox EXCEPT ![w] = Tail(@)]
    /\ \/ /\ r \in Lookups /\ TableOf[r] \notin rawTables[w]
          /\ Post(w, "unknownTable", r)
          /\ UNCHANGED <<running, rawTables>>
       \/ /\ r \in Lookups => TableOf[r] \in rawTables[w]
          /\ running' = [running EXCEPT ![w] = @ \cup {r}]
          /\ UNCHANGED <<outbox, rawTables>>
    /\ SupervisorVars(w)

(* handleMessage up to its first await: a lookup reads the retained tables *)
(* at once, dispose clears them.                                           *)
Dispatch(w) ==
    LET r == Head(inbox[w]) IN
    /\ w \in live /\ inbox[w] # <<>>
    /\ inbox' = [inbox EXCEPT ![w] = Tail(@)]
    /\ \/ /\ r = Dispose
          /\ rawTables' = [rawTables EXCEPT ![w] = {}]
          /\ Post(w, "success", Dispose)
          /\ UNCHANGED running
       \/ /\ r \in Lookups /\ TableOf[r] \notin rawTables[w]
          /\ Post(w, "unknownTable", r)
          /\ UNCHANGED <<running, rawTables>>
       \/ /\ r \in Request /\ (r \in Lookups => TableOf[r] \in rawTables[w])
          /\ running' = [running EXCEPT ![w] = @ \cup {r}]
          /\ UNCHANGED <<outbox, rawTables>>
    /\ SupervisorVars(w)

ReportProgress(w, r) ==
    /\ w \in live /\ r \in running[w]
    /\ Len(outbox[w]) < MaxQueue
    /\ Post(w, "progress", r)
    /\ UNCHANGED <<inbox, running, rawTables>>
    /\ SupervisorVars(w)

(* Mutant: the ingest answers without retaining its table.                 *)
SucceedUnretained(w, r) ==
    /\ w \in live /\ r \in running[w]
    /\ running' = [running EXCEPT ![w] = @ \ {r}]
    /\ Post(w, "success", r)
    /\ UNCHANGED <<inbox, rawTables>>
    /\ SupervisorVars(w)

Succeed(w, r) ==
    /\ w \in live /\ r \in running[w]
    /\ running' = [running EXCEPT ![w] = @ \ {r}]
    /\ rawTables' = IF r \in Ingests
                    THEN [rawTables EXCEPT ![w] = @ \cup {TableOf[r]}]
                    ELSE rawTables
    /\ Post(w, "success", r)
    /\ UNCHANGED inbox
    /\ SupervisorVars(w)

Throw(w, r) ==
    /\ w \in live /\ r \in running[w]
    /\ running' = [running EXCEPT ![w] = @ \ {r}]
    /\ Post(w, "error", r)
    /\ UNCHANGED <<inbox, rawTables>>
    /\ SupervisorVars(w)

(* A message that fails the client's envelope or response validation while *)
(* r is still running.  The supervisor validates what it posts, so this is *)
(* the environment the client defends against, not the supervisor's doing. *)
PostMalformed(w, r) ==
    /\ w \in live /\ r \in running[w]
    /\ Len(outbox[w]) < MaxQueue
    /\ Post(w, "malformed", r)
    /\ UNCHANGED <<inbox, running, rawTables>>
    /\ SupervisorVars(w)

-----------------------------------------------------------------------------
Next ==
    \/ \E r \in Request : IssueRequest(r) \/ WatchdogFires(r)
    \/ Cancel \/ WorkerError \/ DisposeClient \/ GraceEnds
    \/ \E w \in Worker : HandleMessage(w) \/ Dispatch(w)
    \/ \E w \in Worker, r \in Request :
          ReportProgress(w, r) \/ Succeed(w, r) \/ Throw(w, r) \/ PostMalformed(w, r)

Spec == Init /\ [][Next]_vars

(* Only the browser's timers are assumed fair: setTimeout callbacks run.   *)
(* Nothing is assumed of the worker, which may hang in a synchronous parse. *)
FairSpec == /\ Spec
            /\ \A r \in Request : WF_vars(WatchdogFires(r))
            /\ WF_vars(GraceEnds)

-----------------------------------------------------------------------------
(* Properties                                                              *)

(* A promise that worker output settled was settled by a message about the *)
(* same request: an answer to an older request never reaches a newer one   *)
(* (the request/session/revision guard of handleMessage).                  *)
OwnAnswer ==
    \A r \in Request :
        promise[r].code \in {"SUCCESS", "ERROR", "UNKNOWN_TABLE"} => promise[r].cause = r

(* A promise is rejected TIMEOUT only by its own watchdog: every settling  *)
(* path clears the timer, so a leftover timer never kills a later request. *)
OwnTimeout ==
    \A r \in Request : promise[r].code = "TIMEOUT" => promise[r].cause = r

(* No caller waits on a promise the client has forgotten: a pending        *)
(* promise is the one in flight and its watchdog is armed.                 *)
NoLostPromise ==
    \A r \in Request : promise[r].code = "pending" => inFlight = r /\ r \in watchdog

(* Every instance other than the attached one (or the one waiting out the  *)
(* dispose grace) has been terminated: cancel, timeout and crash leak none. *)
NoLeakedWorker == live \subseteq {worker, grace}

(* While an instance stays attached it retains every table whose ingest    *)
(* the caller saw succeed on it, so the follow-up profile or normalize     *)
(* request finds the table.                                                *)
TablesRetained ==
    \A r \in Ingests :
        promise[r].code = "SUCCESS" /\ promise[r].by = worker
            => TableOf[r] \in rawTables[worker]

(* Abstract view: the client implements the ledger of promises.            *)
Ledger == INSTANCE RequestLedger
            WITH ledger <- [r \in Request |-> promise[r].code], open <- ~terminated

LedgerSpec == Ledger!Spec

(* Every promise settles, even when the worker never answers.              *)
EveryPromiseSettles ==
    \A r \in Request : promise[r].code = "pending" ~> promise[r].code \in Outcome

(* A disposed client ends with no instance running.                        *)
DisposeReleasesWorkers == terminated ~> (live = {})
=============================================================================
