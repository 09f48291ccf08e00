------------------------- MODULE WorkerClientProofs -------------------------
(***************************************************************************)
(* What TLAPS proves of WorkerClient, for any number of requests and       *)
(* instances and any queue bound.  The inductive invariant Inv ties the    *)
(* promise, the in-flight slot and the timer of a request together; most   *)
(* safety properties are its conjuncts, and the refinement of              *)
(* RequestLedger is read off it.  TableInv, inductive relative to Inv,     *)
(* follows the tables an instance retains.                                 *)
(***************************************************************************)
EXTENDS WorkerClient, SequenceTheorems, TLAPS

USE RequestAssumption, BoundAssumption

-----------------------------------------------------------------------------
(* Type correctness                                                        *)

(* A wiped map keeps its type.                                             *)
LEMMA WipedType ==
    ASSUME NEW S, NEW f \in [Worker -> S], NEW w, NEW empty \in S
    PROVE  Wiped(f, w, empty) \in [Worker -> S]
BY DEF Wiped

(* Terminating an instance keeps the types of the worker-side variables.   *)
LEMMA TerminateType ==
    ASSUME TypeOK, NEW w, Terminate(w)
    PROVE  /\ spawned' \subseteq Worker /\ live' \subseteq spawned'
           /\ inbox' \in [Worker -> Seq(Request \cup {Dispose})]
           /\ running' \in [Worker -> SUBSET Request]
           /\ outbox' \in [Worker -> Seq(Message)]
           /\ rawTables' \in [Worker -> SUBSET Table]
<1>1. <<>> \in Seq(Request \cup {Dispose}) /\ <<>> \in Seq(Message)
  BY EmptySeq
<1>2. {} \in SUBSET Request /\ {} \in SUBSET Table
  OBVIOUS
<1>3. inbox' \in [Worker -> Seq(Request \cup {Dispose})]
  BY <1>1, WipedType DEF TypeOK, Terminate
<1>4. outbox' \in [Worker -> Seq(Message)]
  BY <1>1, WipedType DEF TypeOK, Terminate
<1>5. running' \in [Worker -> SUBSET Request]
  BY <1>2, WipedType DEF TypeOK, Terminate
<1>6. rawTables' \in [Worker -> SUBSET Table]
  BY <1>2, WipedType DEF TypeOK, Terminate
<1>7. spawned' \subseteq Worker /\ live' \subseteq spawned'
  BY DEF TypeOK, Terminate
<1> QED
  BY <1>3, <1>4, <1>5, <1>6, <1>7

(* Failing the request in flight keeps the types of the client variables.  *)
LEMMA FailType ==
    ASSUME TypeOK, NEW code \in Outcome, NEW cause \in Request \cup {None},
           NEW by \in Worker \cup {None}, FailInFlight(code, cause, by)
    PROVE  /\ promise' \in [Request -> Promise]
           /\ watchdog' \subseteq Request
           /\ inFlight' = None
BY DEF TypeOK, FailInFlight, Settled, Promise

(* Taking the head of an outbox keeps its type.                            *)
LEMMA TakeType ==
    ASSUME TypeOK, NEW w \in Worker, outbox[w] # <<>>, Take(w)
    PROVE  /\ outbox' \in [Worker -> Seq(Message)]
           /\ Head(outbox[w]) \in Message
<1>1. outbox[w] \in Seq(Message)
  BY DEF TypeOK
<1>2. Head(outbox[w]) \in Message /\ Tail(outbox[w]) \in Seq(Message)
  BY <1>1, HeadTailProperties
<1> QED
  BY <1>2 DEF TypeOK, Take

(* Posting a message keeps the type of the outboxes.                       *)
LEMMA PostType ==
    ASSUME TypeOK, NEW w \in Worker, NEW r \in Request \cup {Dispose},
           NEW kind \in {"progress", "success", "error", "unknownTable", "malformed"},
           Post(w, kind, r)
    PROVE  outbox' \in [Worker -> Seq(Message)]
<1>1. [kind |-> kind, of |-> r] \in Message
  BY DEF Message
<1>2. Append(outbox[w], [kind |-> kind, of |-> r]) \in Seq(Message)
  BY <1>1, AppendProperties DEF TypeOK
<1> QED
  BY <1>2 DEF TypeOK, Post

(* Attaching an instance keeps the types of the variables it touches.      *)
LEMMA EnsureType ==
    ASSUME TypeOK, NEW w \in Worker, EnsureWorker(w)
    PROVE  worker' \in Worker /\ spawned' \subseteq Worker /\ live' \subseteq spawned'
BY DEF TypeOK, EnsureWorker

(* Refusing a request only settles its own promise.                        *)
LEMMA RefuseType ==
    ASSUME TypeOK, NEW r \in Request, NEW code \in Refusal, Refuse(r, code)
    PROVE  TypeOK'
<1>1. Settled(code, r, None) \in Promise
  BY DEF Settled, Promise, Outcome
<1> QED
  BY <1>1 DEF Refuse, TypeOK, workerVars

LEMMA IssueType ==
    ASSUME TypeOK, NEW r \in Request, IssueRequest(r)
    PROVE  TypeOK'
<1>1. CASE RequestTerminated(r)
  BY <1>1, RefuseType DEF RequestTerminated, Refusal
<1>2. CASE RequestBusy(r)
  BY <1>2, RefuseType DEF RequestBusy, Refusal
<1>3. CASE RequestUnencodable(r)
  BY <1>3, RefuseType DEF RequestUnencodable, Refusal
<1>4. CASE RequestNoWorker(r)
  BY <1>4, RefuseType DEF RequestNoWorker, Refusal
<1>5. CASE RequestPosted(r)
  <2>1. Settled("pending", None, None) \in Promise
    BY DEF Settled, Promise
  <2>2. PICK w \in Worker : EnsureWorker(w) /\ inbox' = [inbox EXCEPT ![w] = Append(@, r)]
    BY <1>5 DEF RequestPosted
  <2>3. Append(inbox[w], r) \in Seq(Request \cup {Dispose})
    BY AppendProperties DEF TypeOK
  <2>4. inbox' \in [Worker -> Seq(Request \cup {Dispose})]
    BY <2>2, <2>3 DEF TypeOK
  <2> QED
    BY <1>5, <2>1, <2>2, <2>4, EnsureType DEF RequestPosted, TypeOK
<1>6. CASE RequestUnpostable(r)
  <2>1. Settled("INTERNAL", r, None) \in Promise
    BY DEF Settled, Promise, Outcome, Refusal
  <2>2. PICK w \in Worker : EnsureWorker(w)
    BY <1>6 DEF RequestUnpostable
  <2> QED
    BY <1>6, <2>1, <2>2, EnsureType DEF RequestUnpostable, TypeOK
<1> QED
  BY <1>1, <1>2, <1>3, <1>4, <1>5, <1>6 DEF IssueRequest

(* Steps that fail the request in flight and replace the worker.           *)
LEMMA RecreateType ==
    ASSUME TypeOK, NEW code \in Outcome, NEW cause \in Request \cup {None},
           NEW by \in Worker \cup {None}, FailInFlight(code, cause, by),
           RecreateWorker, UNCHANGED <<terminated, grace>>
    PROVE  TypeOK'
BY FailType, TerminateType DEF RecreateWorker, TypeOK

LEMMA DisposeType ==
    ASSUME TypeOK, DisposeClient
    PROVE  TypeOK'
<1>1. "CANCELLED" \in Outcome /\ inFlight \in Request \cup {None}
  BY DEF Outcome, TypeOK
<1>2. /\ promise' \in [Request -> Promise] /\ watchdog' \subseteq Request
      /\ inFlight' = None
  BY <1>1, FailType DEF DisposeClient
<1>3. inbox' \in [Worker -> Seq(Request \cup {Dispose})]
  <2>1. CASE worker = None
    BY <2>1 DEF DisposeClient, TypeOK
  <2>2. CASE worker # None
    <3>1. worker \in Worker
      BY <2>2 DEF TypeOK
    <3>2. Append(inbox[worker], Dispose) \in Seq(Request \cup {Dispose})
      BY <3>1, AppendProperties DEF TypeOK
    <3> QED
      BY <2>2, <3>1, <3>2 DEF DisposeClient, TypeOK
  <2> QED
    BY <2>1, <2>2
<1> QED
  BY <1>2, <1>3 DEF DisposeClient, TypeOK

LEMMA HandleType ==
    ASSUME TypeOK, NEW w \in Worker, HandleMessage(w)
    PROVE  TypeOK'
<1>1. outbox[w] # <<>>
  BY DEF HandleMessage
<1>2. CASE DropMessage(w)
  BY <1>1, <1>2, TakeType DEF DropMessage, TypeOK, clientVars
<1>3. CASE MalformedMessage(w)
  <2>1. "SCHEMA_MISMATCH" \in Outcome /\ inFlight \in Request \cup {None}
    BY DEF Outcome, Refusal, TypeOK
  <2>2. /\ promise' \in [Request -> Promise] /\ watchdog' \subseteq Request
        /\ inFlight' = None
    BY <1>3, <2>1, FailType DEF MalformedMessage
  <2> QED
    BY <1>1, <1>3, <2>2, TakeType DEF MalformedMessage, TypeOK
<1>4. CASE TerminalMessage(w)
  <2> DEFINE m == Head(outbox[w])
  <2>1. Terminal[m.kind] \in Outcome
    BY <1>4 DEF TerminalMessage, Terminal, Outcome
  <2>2. m.of = inFlight /\ inFlight \in Request \cup {None}
    BY <1>4 DEF TerminalMessage, Current, TypeOK
  <2>3. FailInFlight(Terminal[m.kind], m.of, w)
    BY <1>4 DEF TerminalMessage
  <2> HIDE DEF m
  <2>4. /\ promise' \in [Request -> Promise] /\ watchdog' \subseteq Request
        /\ inFlight' = None
    BY <2>1, <2>2, <2>3, FailType
  <2> QED
    BY <1>1, <1>4, <2>4, TakeType DEF TerminalMessage, TypeOK
<1> QED
  BY <1>2, <1>3, <1>4 DEF HandleMessage

LEMMA DispatchType ==
    ASSUME TypeOK, NEW w \in Worker, Dispatch(w)
    PROVE  TypeOK'
<1> DEFINE r == Head(inbox[w])
<1>1. r \in Request \cup {Dispose} /\ Tail(inbox[w]) \in Seq(Request \cup {Dispose})
  BY HeadTailProperties DEF Dispatch, TypeOK
<1>2. inbox' \in [Worker -> Seq(Request \cup {Dispose})]
  BY <1>1 DEF Dispatch, TypeOK
<1>3. CASE /\ r = Dispose /\ rawTables' = [rawTables EXCEPT ![w] = {}]
           /\ Post(w, "success", Dispose) /\ UNCHANGED running
  <2>1. outbox' \in [Worker -> Seq(Message)]
    BY <1>3, PostType
  <2> QED
    BY <1>2, <1>3, <2>1 DEF Dispatch, SupervisorVars, TypeOK, clientVars
<1>4. CASE Post(w, "unknownTable", r) /\ UNCHANGED <<running, rawTables>>
  <2>1. outbox' \in [Worker -> Seq(Message)]
    BY <1>1, <1>4, PostType
  <2> QED
    BY <1>2, <1>4, <2>1 DEF Dispatch, SupervisorVars, TypeOK, clientVars
<1>5. CASE /\ r \in Request /\ running' = [running EXCEPT ![w] = @ \cup {r}]
           /\ UNCHANGED <<outbox, rawTables>>
  BY <1>2, <1>5 DEF Dispatch, SupervisorVars, TypeOK, clientVars
<1> QED
  BY <1>3, <1>4, <1>5 DEF Dispatch

LEMMA WorkType ==
    ASSUME TypeOK, NEW w \in Worker, NEW r \in Request,
           ReportProgress(w, r) \/ Succeed(w, r) \/ Throw(w, r) \/ PostMalformed(w, r)
    PROVE  TypeOK'
<1>1. CASE ReportProgress(w, r)
  BY <1>1, PostType DEF ReportProgress, SupervisorVars, TypeOK, clientVars
<1>2. CASE Succeed(w, r)
  <2>1. rawTables' \in [Worker -> SUBSET Table]
    BY <1>2 DEF Succeed, TypeOK
  <2> QED
    BY <1>2, <2>1, PostType DEF Succeed, SupervisorVars, TypeOK, clientVars
<1>3. CASE Throw(w, r)
  BY <1>3, PostType DEF Throw, SupervisorVars, TypeOK, clientVars
<1>4. CASE PostMalformed(w, r)
  BY <1>4, PostType DEF PostMalformed, SupervisorVars, TypeOK, clientVars
<1> QED
  BY <1>1, <1>2, <1>3, <1>4

(* Every variable of the transport keeps its type, whatever the worker     *)
(* posts and whenever callers request, cancel or dispose.                  *)
THEOREM TypeCorrect == Spec => []TypeOK
<1>1. Init => TypeOK
  <2> SUFFICES ASSUME Init PROVE TypeOK
    OBVIOUS
  <2>1. promise \in [Request -> Promise]
    BY DEF Init, Promise
  <2>2. /\ inbox \in [Worker -> Seq(Request \cup {Dispose})]
        /\ outbox \in [Worker -> Seq(Message)]
    BY EmptySeq DEF Init
  <2> QED
    BY <2>1, <2>2 DEF Init, TypeOK
<1>2. TypeOK /\ [Next]_vars => TypeOK'
  <2> SUFFICES ASSUME TypeOK, [Next]_vars PROVE TypeOK'
    OBVIOUS
  <2>1. CASE \E r \in Request : IssueRequest(r)
    BY <2>1, IssueType
  <2>2. ASSUME NEW r \in Request, WatchdogFires(r) PROVE TypeOK'
    BY <2>2, RecreateType DEF WatchdogFires, Outcome
  <2>3. CASE Cancel
    <3>1. "CANCELLED" \in Outcome /\ inFlight \in Request \cup {None}
      BY DEF Outcome, TypeOK
    <3> QED
      BY <2>3, <3>1, RecreateType DEF Cancel
  <2>4. CASE WorkerError
    <3>1. /\ "INTERNAL" \in Outcome /\ inFlight \in Request \cup {None}
          /\ worker \in Worker \cup {None}
      BY DEF Outcome, Refusal, TypeOK
    <3> QED
      BY <2>4, <3>1, RecreateType DEF WorkerError
  <2>5. CASE DisposeClient
    BY <2>5, DisposeType
  <2>6. CASE GraceEnds
    BY <2>6, TerminateType DEF GraceEnds, TypeOK
  <2>7. CASE \E w \in Worker : HandleMessage(w) \/ Dispatch(w)
    BY <2>7, HandleType, DispatchType
  <2>8. CASE \E w \in Worker, r \in Request :
               ReportProgress(w, r) \/ Succeed(w, r) \/ Throw(w, r) \/ PostMalformed(w, r)
    BY <2>8, WorkType
  <2>9. CASE UNCHANGED vars
    BY <2>9 DEF vars, clientVars, workerVars, TypeOK
  <2> QED
    BY <2>1, <2>2, <2>3, <2>4, <2>5, <2>6, <2>7, <2>8, <2>9 DEF Next
<1> QED
  BY <1>1, <1>2, PTL DEF Spec

-----------------------------------------------------------------------------
(* The inductive invariant                                                 *)

(* The in-flight slot, its promise and its timer stand or fall together.   *)
SlotInv ==
    /\ \A r \in Request : promise[r].code = "pending" <=> r = inFlight
    /\ \A r \in Request : r \in watchdog <=> r = inFlight

(* A disposed client is detached and idle; only it has an instance in the  *)
(* grace period.                                                           *)
DisposedInv ==
    /\ terminated => worker = None /\ inFlight = None
    /\ ~terminated => grace = None

Inv == TypeOK /\ SlotInv /\ DisposedInv /\ NoLeakedWorker /\ OwnAnswer /\ OwnTimeout

(* What failing the request in flight does to the slot and to the causes   *)
(* recorded in the promises.                                               *)
LEMMA FailSlot ==
    ASSUME TypeOK, SlotInv, OwnAnswer, OwnTimeout,
           NEW code \in Outcome, NEW cause \in Request \cup {None},
           NEW by \in Worker \cup {None}, FailInFlight(code, cause, by),
           inFlight # None /\ code \in {"SUCCESS", "ERROR", "UNKNOWN_TABLE", "TIMEOUT"}
               => cause = inFlight
    PROVE  SlotInv' /\ OwnAnswer' /\ OwnTimeout' /\ inFlight' = None
<1>1. code # "pending"
  BY DEF Outcome, Refusal
<1>2. CASE inFlight = None
  BY <1>2 DEF FailInFlight, SlotInv, OwnAnswer, OwnTimeout, TypeOK
<1>3. CASE inFlight # None
  <2>1. inFlight \in Request
    BY <1>3 DEF TypeOK
  <2>2. \A r \in Request : promise'[r] = IF r = inFlight THEN Settled(code, cause, by)
                                        ELSE promise[r]
    BY <1>3, <2>1 DEF FailInFlight, TypeOK
  <2>3. \A r \in Request : promise'[r].code # "pending" /\ r \notin watchdog'
    BY <1>1, <2>2 DEF FailInFlight, SlotInv, Settled
  <2>4. SlotInv'
    BY <2>3 DEF FailInFlight, SlotInv
  <2>5. OwnAnswer' /\ OwnTimeout'
    BY <1>3, <2>2 DEF OwnAnswer, OwnTimeout, Settled
  <2> QED
    BY <2>4, <2>5 DEF FailInFlight
<1> QED
  BY <1>2, <1>3

(* Failing the request in flight and replacing the worker preserves Inv.   *)
LEMMA RecreateInv ==
    ASSUME Inv, TypeOK', NEW code \in Outcome, NEW cause \in Request \cup {None},
           NEW by \in Worker \cup {None}, FailInFlight(code, cause, by),
           inFlight # None /\ code \in {"SUCCESS", "ERROR", "UNKNOWN_TABLE", "TIMEOUT"}
               => cause = inFlight,
           RecreateWorker, UNCHANGED <<terminated, grace>>
    PROVE  Inv'
<1>1. SlotInv' /\ OwnAnswer' /\ OwnTimeout' /\ inFlight' = None
  BY FailSlot DEF Inv
<1>2. NoLeakedWorker' /\ DisposedInv'
  BY <1>1 DEF Inv, NoLeakedWorker, DisposedInv, RecreateWorker, Terminate
<1> QED
  BY <1>1, <1>2 DEF Inv

(* Steps of the supervisor leave every client variable alone.              *)
LEMMA ClientUnchangedInv ==
    ASSUME Inv, TypeOK', UNCHANGED <<clientVars, spawned, live>>
    PROVE  Inv'
BY DEF Inv, clientVars, SlotInv, DisposedInv, NoLeakedWorker, OwnAnswer, OwnTimeout

LEMMA RefuseInv ==
    ASSUME Inv, TypeOK', NEW r \in Request, NEW code \in Refusal, Refuse(r, code)
    PROVE  Inv'
<1>1. \A q \in Request : promise'[q] = IF q = r THEN Settled(code, r, None) ELSE promise[q]
  BY DEF Refuse, Inv, TypeOK
<1>2. code \notin {"pending", "SUCCESS", "ERROR", "UNKNOWN_TABLE", "TIMEOUT"}
  BY DEF Refusal
<1>3. r # inFlight
  BY DEF Refuse, Inv, SlotInv
<1>4. SlotInv'
  BY <1>1, <1>2, <1>3 DEF Refuse, Inv, SlotInv, Settled
<1>5. OwnAnswer' /\ OwnTimeout'
  BY <1>1, <1>2 DEF Inv, OwnAnswer, OwnTimeout, Settled
<1> QED
  BY <1>4, <1>5 DEF Refuse, Inv, DisposedInv, NoLeakedWorker, workerVars

LEMMA IssueInv ==
    ASSUME Inv, TypeOK', NEW r \in Request, IssueRequest(r)
    PROVE  Inv'
<1>1. CASE RequestTerminated(r) \/ RequestBusy(r) \/ RequestUnencodable(r) \/ RequestNoWorker(r)
  BY <1>1, RefuseInv
     DEF RequestTerminated, RequestBusy, RequestUnencodable, RequestNoWorker, Refusal
<1>2. ASSUME ~terminated, NEW w \in Worker, EnsureWorker(w), UNCHANGED <<terminated, grace>>
      PROVE  NoLeakedWorker'
  BY <1>2 DEF Inv, DisposedInv, NoLeakedWorker, EnsureWorker, TypeOK
<1>3. CASE RequestPosted(r)
  <2>1. \A q \in Request : promise'[q] = IF q = r THEN Settled("pending", None, None)
                                        ELSE promise[q]
    BY <1>3 DEF RequestPosted, Inv, TypeOK
  <2>2. SlotInv'
    BY <1>3, <2>1 DEF RequestPosted, Inv, SlotInv, Settled
  <2>3. OwnAnswer' /\ OwnTimeout'
    BY <2>1 DEF Inv, OwnAnswer, OwnTimeout, Settled
  <2>4. NoLeakedWorker' /\ DisposedInv'
    BY <1>2, <1>3 DEF RequestPosted, Inv, DisposedInv
  <2> QED
    BY <2>2, <2>3, <2>4 DEF Inv
<1>4. CASE RequestUnpostable(r)
  <2>1. \A q \in Request : promise'[q] = IF q = r THEN Settled("INTERNAL", r, None)
                                        ELSE promise[q]
    BY <1>4 DEF RequestUnpostable, Inv, TypeOK
  <2>2. SlotInv'
    BY <1>4, <2>1 DEF RequestUnpostable, Inv, SlotInv, Settled
  <2>3. OwnAnswer' /\ OwnTimeout'
    BY <2>1 DEF Inv, OwnAnswer, OwnTimeout, Settled
  <2>4. NoLeakedWorker' /\ DisposedInv'
    BY <1>2, <1>4 DEF RequestUnpostable, Inv, DisposedInv
  <2> QED
    BY <2>2, <2>3, <2>4 DEF Inv
<1> QED
  BY <1>1, <1>3, <1>4 DEF IssueRequest

LEMMA HandleInv ==
    ASSUME Inv, TypeOK', NEW w \in Worker, HandleMessage(w)
    PROVE  Inv'
<1>1. CASE DropMessage(w)
  BY <1>1, ClientUnchangedInv DEF DropMessage
<1>2. ASSUME NEW code \in Outcome, NEW cause \in Request \cup {None},
             FailInFlight(code, cause, w), cause = inFlight,
             UNCHANGED <<worker, terminated, grace, spawned, live>>
      PROVE  Inv'
  <2>1. SlotInv' /\ OwnAnswer' /\ OwnTimeout' /\ inFlight' = None
    BY <1>2, FailSlot DEF Inv
  <2> QED
    BY <1>2, <2>1 DEF Inv, NoLeakedWorker, DisposedInv
<1>3. inFlight \in Request \cup {None}
  BY DEF Inv, TypeOK
<1>4. CASE MalformedMessage(w)
  BY <1>2, <1>3, <1>4 DEF MalformedMessage, Outcome, Refusal
<1>5. CASE TerminalMessage(w)
  <2> DEFINE m == Head(outbox[w])
  <2>1. Terminal[m.kind] \in Outcome /\ m.of = inFlight
    BY <1>5 DEF TerminalMessage, Terminal, Outcome, Current
  <2>2. FailInFlight(Terminal[m.kind], m.of, w)
    BY <1>5 DEF TerminalMessage
  <2> HIDE DEF m
  <2> QED
    BY <1>2, <1>3, <1>5, <2>1, <2>2 DEF TerminalMessage
<1> QED
  BY <1>1, <1>4, <1>5 DEF HandleMessage

LEMMA InitInv == Init => Inv
<1> SUFFICES ASSUME Init PROVE Inv
  OBVIOUS
<1>1. TypeOK
  <2>1. promise \in [Request -> Promise]
    BY DEF Init, Promise
  <2>2. /\ inbox \in [Worker -> Seq(Request \cup {Dispose})]
        /\ outbox \in [Worker -> Seq(Message)]
    BY EmptySeq DEF Init
  <2> QED
    BY <2>1, <2>2 DEF Init, TypeOK
<1>2. \A r \in Request : promise[r].code = "unissued" /\ r # None
  BY DEF Init
<1> QED
  BY <1>1, <1>2 DEF Init, Inv, SlotInv, DisposedInv, NoLeakedWorker, OwnAnswer, OwnTimeout

LEMMA StepInv ==
    ASSUME Inv, TypeOK', Next
    PROVE  Inv'
<1>1. CASE \E r \in Request : IssueRequest(r)
  BY <1>1, IssueInv
<1>2. ASSUME NEW r \in Request, WatchdogFires(r) PROVE Inv'
  <2>1. r = inFlight
    BY <1>2 DEF WatchdogFires, Inv, SlotInv
  <2> QED
    BY <1>2, <2>1, RecreateInv DEF WatchdogFires, Outcome
<1>3. inFlight \in Request \cup {None} /\ worker \in Worker \cup {None}
  BY DEF Inv, TypeOK
<1>4. CASE Cancel
  BY <1>3, <1>4, RecreateInv DEF Cancel, Outcome
<1>5. CASE WorkerError
  BY <1>3, <1>5, RecreateInv DEF WorkerError, Outcome, Refusal
<1>6. CASE DisposeClient
  <2>1. SlotInv' /\ OwnAnswer' /\ OwnTimeout' /\ inFlight' = None
    BY <1>3, <1>6, FailSlot DEF DisposeClient, Inv, Outcome
  <2> QED
    BY <1>6, <2>1 DEF DisposeClient, Inv, DisposedInv, NoLeakedWorker
<1>7. CASE GraceEnds
  BY <1>7 DEF GraceEnds, Terminate, Inv, SlotInv, DisposedInv, NoLeakedWorker,
              OwnAnswer, OwnTimeout, TypeOK
<1>8. ASSUME NEW w \in Worker, HandleMessage(w) \/ Dispatch(w) PROVE Inv'
  BY <1>8, HandleInv, ClientUnchangedInv DEF Dispatch, SupervisorVars
<1>9. ASSUME NEW w \in Worker, NEW r \in Request,
             ReportProgress(w, r) \/ Succeed(w, r) \/ Throw(w, r) \/ PostMalformed(w, r)
      PROVE  Inv'
  BY <1>9, ClientUnchangedInv
     DEF ReportProgress, Succeed, Throw, PostMalformed, SupervisorVars
<1> QED
  BY <1>1, <1>2, <1>4, <1>5, <1>6, <1>7, <1>8, <1>9 DEF Next

(* Inv holds throughout.                                                   *)
THEOREM Invariance == Spec => []Inv
<1>1. Inv /\ TypeOK' /\ [Next]_vars => Inv'
  <2> SUFFICES ASSUME Inv, TypeOK', [Next]_vars PROVE Inv'
    OBVIOUS
  <2>1. CASE UNCHANGED vars
    BY <2>1, ClientUnchangedInv DEF vars, workerVars
  <2> QED
    BY <2>1, StepInv
<1> QED
  BY <1>1, InitInv, TypeCorrect, PTL DEF Spec

(* An answer settles only the promise of the request it answers: the       *)
(* freshness guard of handleMessage never lets a late reply through.       *)
THEOREM AnswersAreOwn == Spec => []OwnAnswer
BY Invariance, PTL DEF Inv

(* A watchdog kills only the request it was armed for.                     *)
THEOREM TimeoutsAreOwn == Spec => []OwnTimeout
BY Invariance, PTL DEF Inv

(* cancel, timeout, crash and dispose terminate every instance they detach. *)
THEOREM WorkersAreReleased == Spec => []NoLeakedWorker
BY Invariance, PTL DEF Inv

(* A pending promise is the one in flight, with its watchdog armed: no     *)
(* path of the client forgets a caller.                                    *)
THEOREM PromisesAreKept == Spec => []NoLostPromise
<1>1. Inv => NoLostPromise
  BY DEF Inv, SlotInv, NoLostPromise
<1> QED
  BY <1>1, Invariance, PTL

-----------------------------------------------------------------------------
(* The tables an instance retains                                          *)

(* The messages of a queue.                                                *)
Queued(queue) == {queue[i] : i \in DOMAIN queue}

(* A message that is appended is queued last.                              *)
LEMMA QueuedAppend ==
    ASSUME NEW S, NEW s \in Seq(S), NEW x \in S
    PROVE  Queued(Append(s, x)) = Queued(s) \cup {x}
<1> DEFINE t == Append(s, x)
<1>1. /\ t \in Seq(S) /\ Len(t) = Len(s) + 1
      /\ \A i \in 1..Len(s) : t[i] = s[i]
      /\ t[Len(s) + 1] = x
  BY AppendProperties
<1>2. /\ Len(s) \in Nat /\ DOMAIN s = 1..Len(s) /\ DOMAIN t = 1..Len(t)
  BY <1>1, LenProperties
<1> HIDE DEF t
<1> QED
  BY <1>1, <1>2 DEF Queued, t

(* The first of the queued messages is one of them.                        *)
LEMMA QueuedHeadTail ==
    ASSUME NEW S, NEW s \in Seq(S), s # <<>>
    PROVE  Head(s) \in Queued(s) /\ Queued(Tail(s)) \subseteq Queued(s)
<1>1. /\ Tail(s) \in Seq(S) /\ Len(Tail(s)) = Len(s) - 1
      /\ \A i \in 1..Len(Tail(s)) : Tail(s)[i] = s[i + 1]
      /\ Head(s) = s[1] /\ Len(s) \in Nat \ {0}
  BY HeadTailProperties, LenProperties, EmptySeq
<1>2. DOMAIN s = 1..Len(s) /\ DOMAIN Tail(s) = 1..Len(Tail(s))
  BY <1>1, LenProperties
<1> QED
  BY <1>1, <1>2 DEF Queued

(* An instance that was never created has posted nothing and has been sent *)
(* nothing.                                                                *)
UnspawnedInv ==
    /\ worker \in spawned \cup {None}
    /\ \A w \in Worker \ spawned : inbox[w] = <<>> /\ outbox[w] = <<>>
    /\ \A r \in Request : promise[r].code = "SUCCESS" => promise[r].by \in spawned

(* The attached instance is never told to dispose, and retains the table   *)
(* of every ingest whose success it posts: on its way, or seen.            *)
RetainInv ==
    worker # None =>
        /\ Dispose \notin Queued(inbox[worker])
        /\ \A r \in Ingests :
              [kind |-> "success", of |-> r] \in Queued(outbox[worker]) =>
                  TableOf[r] \in rawTables[worker]

TableInv == UnspawnedInv /\ RetainInv /\ TablesRetained

(* Refusing or failing a promise is no success.                            *)
LEMMA NoSuccess ==
    ASSUME TableInv, TypeOK, NEW q, NEW p, p.code # "SUCCESS",
           promise' \in {promise, [promise EXCEPT ![q] = p]},
           NEW r \in Request, promise'[r].code = "SUCCESS"
    PROVE  promise'[r] = promise[r] /\ promise[r].code = "SUCCESS" /\ promise[r].by \in spawned
BY DEF TypeOK, TableInv, UnspawnedInv

(* Nothing is attached after the instance is terminated.                   *)
LEMMA DetachTables ==
    ASSUME Inv, TableInv, worker' = None, NEW w, Terminate(w),
           \A r \in Request : promise'[r].code = "SUCCESS" =>
               promise'[r] = promise[r] /\ promise[r].by \in spawned
    PROVE  TableInv'
<1>1. UnspawnedInv'
  BY DEF Terminate, Wiped, Inv, TypeOK, TableInv, UnspawnedInv
<1>2. RetainInv'
  BY DEF RetainInv
<1>3. TablesRetained'
  BY DEF TablesRetained, Inv, TypeOK
<1> QED
  BY <1>1, <1>2, <1>3 DEF TableInv

(* Failing the request in flight and replacing the worker.                 *)
LEMMA RecreateTables ==
    ASSUME Inv, TableInv, NEW code, code # "SUCCESS", NEW cause, NEW by,
           FailInFlight(code, cause, by), RecreateWorker
    PROVE  TableInv'
<1>1. \A r \in Request : promise'[r].code = "SUCCESS" =>
          promise'[r] = promise[r] /\ promise[r].by \in spawned
  <2>1. promise' \in {promise, [promise EXCEPT ![inFlight] = Settled(code, cause, by)]}
    BY DEF FailInFlight
  <2>2. Settled(code, cause, by).code # "SUCCESS"
    BY DEF Settled
  <2> QED
    BY <2>1, <2>2, NoSuccess DEF Inv
<1> QED
  BY <1>1, DetachTables DEF RecreateWorker

(* A request that attaches an instance finds it as it was left, or new.    *)
LEMMA EnsureTables ==
    ASSUME Inv, TableInv, NEW w \in Worker, EnsureWorker(w), NEW r \in Request,
           inbox' \in {inbox, [inbox EXCEPT ![w] = Append(@, r)]},
           UNCHANGED <<outbox, rawTables>>, NEW p, p.code # "SUCCESS",
           promise' = [promise EXCEPT ![r] = p]
    PROVE  TableInv'
<1>1. worker' = w /\ spawned' = spawned \cup {w} /\ (w = worker \/ w \notin spawned)
  BY DEF EnsureWorker
<1>2. \A q \in Request : promise'[q].code = "SUCCESS" =>
          promise'[q] = promise[q] /\ promise[q].code = "SUCCESS" /\ promise[q].by \in spawned
  BY NoSuccess DEF Inv
<1>3. UnspawnedInv'
  BY <1>1, <1>2 DEF Inv, TypeOK, TableInv, UnspawnedInv
<1>4. /\ Dispose \notin Queued(inbox[w])
      /\ \A q \in Ingests : [kind |-> "success", of |-> q] \in Queued(outbox[w]) =>
             TableOf[q] \in rawTables[w]
  <2>1. CASE w = worker
    BY <2>1, RequestAssumption DEF TableInv, RetainInv
  <2>2. CASE w \notin spawned
    BY <2>2 DEF TableInv, UnspawnedInv, Queued
  <2> QED
    BY <1>1, <2>1, <2>2
<1>5. Dispose \notin Queued(inbox'[w])
  <2>1. /\ inbox \in [Worker -> Seq(Request \cup {Dispose})] /\ r # Dispose
    BY DEF Inv, TypeOK
  <2>2. Queued(Append(inbox[w], r)) = Queued(inbox[w]) \cup {r}
    BY <2>1, QueuedAppend
  <2>3. inbox'[w] \in {inbox[w], Append(inbox[w], r)}
    BY <2>1
  <2> QED
    BY <1>4, <2>1, <2>2, <2>3
<1>6. RetainInv'
  BY <1>1, <1>4, <1>5 DEF RetainInv
<1>7. TablesRetained'
  BY <1>1, <1>2 DEF TableInv, TablesRetained
<1> QED
  BY <1>3, <1>6, <1>7 DEF TableInv

(* The instance posts a message: a success only with its table retained.   *)
LEMMA PostTables ==
    ASSUME Inv, TableInv, NEW w \in live, NEW kind, NEW r \in Request \cup {Dispose},
           kind \in {"progress", "success", "error", "unknownTable", "malformed"},
           Post(w, kind, r), UNCHANGED <<clientVars, spawned, live>>,
           inbox' \in {inbox, [inbox EXCEPT ![w] = Tail(@)]},
           inbox' # inbox => inbox[w] # <<>>,
           w = worker => rawTables[w] \subseteq rawTables'[w],
           \A v \in Worker \ {w} : rawTables'[v] = rawTables[v],
           kind = "success" /\ r \in Ingests => TableOf[r] \in rawTables'[w]
    PROVE  TableInv'
<1>1. w \in Worker /\ w \in spawned
  BY DEF Inv, TypeOK
<1>2. /\ inbox \in [Worker -> Seq(Request \cup {Dispose})]
      /\ outbox \in [Worker -> Seq(Message)] /\ [kind |-> kind, of |-> r] \in Message
  BY DEF Inv, TypeOK, Message
<1>3. /\ outbox'[w] = Append(outbox[w], [kind |-> kind, of |-> r])
      /\ \A v \in Worker \ {w} : outbox'[v] = outbox[v] /\ inbox'[v] = inbox[v]
  BY <1>1, <1>2 DEF Post
<1>4. Queued(outbox'[w]) = Queued(outbox[w]) \cup {[kind |-> kind, of |-> r]}
  BY <1>1, <1>2, <1>3, QueuedAppend
<1>5. Queued(inbox'[w]) \subseteq Queued(inbox[w])
  <2>1. CASE inbox' = inbox
    BY <2>1
  <2>2. CASE inbox' # inbox
    <3>1. inbox'[w] = Tail(inbox[w]) /\ inbox[w] # <<>>
      BY <1>1, <1>2, <2>2
    <3> QED
      BY <1>1, <1>2, <3>1, QueuedHeadTail
  <2> QED
    BY <2>1, <2>2
<1>6. UnspawnedInv'
  BY <1>1, <1>3 DEF TableInv, UnspawnedInv, clientVars
<1>7. RetainInv'
  <2> SUFFICES ASSUME worker # None PROVE RetainInv'
    BY DEF RetainInv, clientVars
  <2>1. worker' = worker /\ worker \in Worker
    BY DEF clientVars, Inv, TypeOK
  <2>2. CASE worker = w
    BY <1>4, <1>5, <2>1, <2>2 DEF TableInv, RetainInv
  <2>3. CASE worker # w
    BY <1>3, <2>1, <2>3 DEF TableInv, RetainInv
  <2> QED
    BY <2>2, <2>3
<1>8. TablesRetained'
  <2>1. \A q \in Request : promise[q].code = "SUCCESS" => promise[q].by \in Worker
    BY DEF TableInv, UnspawnedInv, Inv, TypeOK
  <2> QED
    BY <2>1 DEF TableInv, TablesRetained, clientVars
<1> QED
  BY <1>6, <1>7, <1>8 DEF TableInv

(* The supervisor starts a request, or answers it at once.                 *)
LEMMA DispatchTables ==
    ASSUME Inv, TableInv, NEW w \in Worker, Dispatch(w)
    PROVE  TableInv'
<1> DEFINE r == Head(inbox[w])
<1>1. /\ inbox[w] \in Seq(Request \cup {Dispose}) /\ inbox[w] # <<>> /\ w \in live
      /\ inbox' = [inbox EXCEPT ![w] = Tail(@)] /\ UNCHANGED <<clientVars, spawned, live>>
  BY DEF Inv, TypeOK, Dispatch, SupervisorVars
<1>2. /\ r \in Queued(inbox[w]) /\ Queued(Tail(inbox[w])) \subseteq Queued(inbox[w])
      /\ r \in Request \cup {Dispose}
  BY <1>1, QueuedHeadTail, HeadTailProperties
<1>3. CASE /\ r = Dispose
           /\ rawTables' = [rawTables EXCEPT ![w] = {}]
           /\ Post(w, "success", Dispose)
  <2>1. w # worker
    BY <1>2, <1>3 DEF TableInv, RetainInv, Inv, TypeOK
  <2>2. \A v \in Worker \ {w} : rawTables'[v] = rawTables[v]
    BY <1>3 DEF Inv, TypeOK
  <2> QED
    BY <1>1, <1>3, <2>1, <2>2, PostTables
<1>4. CASE Post(w, "unknownTable", r) /\ UNCHANGED <<running, rawTables>>
  <2> HIDE DEF r
  <2> QED
    BY <1>1, <1>2, <1>4, PostTables
<1>5. CASE UNCHANGED <<outbox, rawTables>>
  <2>1. /\ inbox'[w] = Tail(inbox[w])
        /\ \A v \in Worker \ {w} : inbox'[v] = inbox[v]
    BY <1>1 DEF Inv, TypeOK
  <2>2. w \in spawned
    BY <1>1 DEF Inv, TypeOK
  <2>3. UnspawnedInv'
    BY <1>1, <1>5, <2>1, <2>2 DEF TableInv, UnspawnedInv, clientVars
  <2>4. RetainInv'
    BY <1>1, <1>2, <1>5, <2>1 DEF TableInv, RetainInv, clientVars, Inv, TypeOK
  <2> QED
    BY <1>1, <1>5, <2>3, <2>4 DEF TableInv, TablesRetained, clientVars
<1> QED
  BY <1>3, <1>4, <1>5 DEF Dispatch

(* What is running reports, succeeds or fails.                             *)
LEMMA WorkTables ==
    ASSUME Inv, TableInv, NEW w \in Worker, NEW r \in Request,
           ReportProgress(w, r) \/ Succeed(w, r) \/ Throw(w, r) \/ PostMalformed(w, r)
    PROVE  TableInv'
<1>1. CASE ReportProgress(w, r)
  BY <1>1, PostTables DEF ReportProgress, SupervisorVars
<1>2. CASE Succeed(w, r)
  <2>1. /\ rawTables[w] \subseteq rawTables'[w]
        /\ \A v \in Worker \ {w} : rawTables'[v] = rawTables[v]
        /\ r \in Ingests => TableOf[r] \in rawTables'[w]
    BY <1>2 DEF Succeed, Inv, TypeOK
  <2> QED
    BY <1>2, <2>1, PostTables DEF Succeed, SupervisorVars
<1>3. CASE Throw(w, r)
  BY <1>3, PostTables DEF Throw, SupervisorVars
<1>4. CASE PostMalformed(w, r)
  BY <1>4, PostTables DEF PostMalformed, SupervisorVars
<1> QED
  BY <1>1, <1>2, <1>3, <1>4

(* A success the client believes was posted by the attached instance: the  *)
(* request in flight is its own, and one disposed has none in flight.      *)
LEMMA HandleTables ==
    ASSUME Inv, TableInv, NEW w \in Worker, HandleMessage(w)
    PROVE  TableInv'
<1> DEFINE m == Head(outbox[w])
<1>1. /\ outbox \in [Worker -> Seq(Message)] /\ outbox[w] # <<>> /\ Take(w)
      /\ UNCHANGED <<worker, spawned, inbox, rawTables>>
  BY DEF Inv, TypeOK, HandleMessage, DropMessage, MalformedMessage, TerminalMessage, clientVars
<1>2. /\ m \in Message /\ m \in Queued(outbox[w])
      /\ Queued(Tail(outbox[w])) \subseteq Queued(outbox[w])
  BY <1>1, QueuedHeadTail, HeadTailProperties
<1>3. /\ outbox'[w] = Tail(outbox[w])
      /\ \A v \in Worker \ {w} : outbox'[v] = outbox[v]
  BY <1>1 DEF Take
<1>4. RetainInv'
  BY <1>1, <1>2, <1>3 DEF TableInv, RetainInv, Inv, TypeOK
<1>5. \A v \in Worker \ spawned : outbox'[v] = <<>>
  BY <1>1, <1>3 DEF TableInv, UnspawnedInv
<1>6. ASSUME \A r \in Request : promise'[r].code = "SUCCESS" => promise'[r] = promise[r]
      PROVE  TableInv'
  BY <1>1, <1>4, <1>5, <1>6 DEF TableInv, UnspawnedInv, TablesRetained
<1>7. CASE DropMessage(w)
  BY <1>6, <1>7 DEF DropMessage, clientVars
<1>8. CASE MalformedMessage(w)
  BY <1>6, <1>8 DEF MalformedMessage, FailInFlight, Settled, Inv, TypeOK
<1>9. CASE TerminalMessage(w)
  <2>1. /\ inFlight # None /\ inFlight \in Request /\ m.of = inFlight
        /\ m.kind \in {"success", "error", "unknownTable"}
        /\ promise' = [promise EXCEPT ![inFlight] = Settled(Terminal[m.kind], m.of, w)]
    BY <1>9 DEF TerminalMessage, FailInFlight, Current, Terminal, Inv, TypeOK
  <2>2. worker = w
    BY <2>1 DEF HandleMessage, Inv, DisposedInv
  <2>3. CASE m.kind # "success"
    <3>1. Terminal[m.kind] # "SUCCESS"
      BY <2>1, <2>3 DEF Terminal
    <3> QED
      BY <1>6, <2>1, <3>1 DEF Settled, Inv, TypeOK
  <2>4. CASE m.kind = "success"
    <3>1. m = [kind |-> "success", of |-> inFlight]
      BY <1>2, <2>1, <2>4 DEF Message
    <3>2. inFlight \in Ingests => TableOf[inFlight] \in rawTables[w]
      BY <1>2, <2>2, <3>1 DEF TableInv, RetainInv, Inv, TypeOK
    <3>3. \A r \in Request : promise'[r] = IF r = inFlight THEN Settled("SUCCESS", inFlight, w)
                                           ELSE promise[r]
      BY <2>1, <2>4 DEF Inv, TypeOK, Terminal
    <3>4. w \in spawned
      BY <2>2 DEF TableInv, UnspawnedInv
    <3>5. UnspawnedInv'
      BY <1>1, <1>5, <3>3, <3>4 DEF TableInv, UnspawnedInv, Settled
    <3>6. TablesRetained'
      BY <1>1, <2>2, <3>2, <3>3 DEF TableInv, TablesRetained, Settled
    <3> QED
      BY <1>4, <3>5, <3>6 DEF TableInv
  <2> QED
    BY <2>3, <2>4
<1> QED
  BY <1>7, <1>8, <1>9 DEF HandleMessage

(* Every step of the transport.                                            *)
LEMMA StepTables ==
    ASSUME Inv, TableInv, [Next]_vars
    PROVE  TableInv'
<1>1. ASSUME NEW r \in Request, IssueRequest(r) PROVE TableInv'
  <2>1. CASE RequestTerminated(r) \/ RequestBusy(r) \/ RequestUnencodable(r) \/ RequestNoWorker(r)
    <3>1. PICK code \in Refusal : Refuse(r, code)
      BY <2>1
         DEF RequestTerminated, RequestBusy, RequestUnencodable, RequestNoWorker, Refusal
    <3>2. promise' = [promise EXCEPT ![r] = Settled(code, r, None)]
      BY <3>1 DEF Refuse
    <3>3. Settled(code, r, None).code # "SUCCESS"
      BY <3>1 DEF Refusal, Settled
    <3>4. \A q \in Request : promise'[q].code = "SUCCESS" => promise'[q] = promise[q]
      BY <3>2, <3>3 DEF Inv, TypeOK
    <3> QED
      BY <3>1, <3>4 DEF Refuse, workerVars, TableInv, UnspawnedInv, RetainInv, TablesRetained
  <2>2. CASE RequestPosted(r) \/ RequestUnpostable(r)
    <3>1. PICK w \in Worker :
              /\ EnsureWorker(w) /\ inbox' \in {inbox, [inbox EXCEPT ![w] = Append(@, r)]}
      BY <2>2 DEF RequestPosted, RequestUnpostable
    <3>2. PICK code \in {"pending", "INTERNAL"}, cause \in {None, r} :
              promise' = [promise EXCEPT ![r] = Settled(code, cause, None)]
      BY <2>2 DEF RequestPosted, RequestUnpostable
    <3>3. Settled(code, cause, None).code # "SUCCESS" /\ UNCHANGED <<outbox, rawTables>>
      BY <2>2 DEF RequestPosted, RequestUnpostable, Settled
    <3> QED
      BY <3>1, <3>2, <3>3, EnsureTables
  <2> QED
    BY <1>1, <2>1, <2>2 DEF IssueRequest
<1>2. ASSUME NEW r \in Request, WatchdogFires(r) PROVE TableInv'
  BY <1>2, RecreateTables DEF WatchdogFires
<1>3. CASE Cancel \/ WorkerError
  BY <1>3, RecreateTables DEF Cancel, WorkerError
<1>4. CASE DisposeClient
  <2>1. promise' \in {promise, [promise EXCEPT ![inFlight] = Settled("CANCELLED", inFlight, None)]}
    BY <1>4 DEF DisposeClient, FailInFlight
  <2>2. \A r \in Request : promise'[r].code = "SUCCESS" =>
            promise'[r] = promise[r] /\ promise[r].by \in spawned
    <3>1. Settled("CANCELLED", inFlight, None).code # "SUCCESS"
      BY DEF Settled
    <3> QED
      BY <2>1, <3>1, NoSuccess DEF Inv
  <2>3. UnspawnedInv'
    BY <1>4, <2>2 DEF DisposeClient, Inv, TypeOK, TableInv, UnspawnedInv
  <2>4. RetainInv'
    BY <1>4 DEF DisposeClient, RetainInv
  <2>5. TablesRetained'
    BY <1>4, <2>2 DEF DisposeClient, TablesRetained, Inv, TypeOK
  <2> QED
    BY <2>3, <2>4, <2>5 DEF TableInv
<1>5. CASE GraceEnds
  <2>1. worker' = None
    BY <1>5 DEF GraceEnds, Inv, DisposedInv
  <2>2. \A r \in Request : promise'[r].code = "SUCCESS" =>
            promise'[r] = promise[r] /\ promise[r].by \in spawned
    BY <1>5 DEF GraceEnds, TableInv, UnspawnedInv
  <2> QED
    BY <1>5, <2>1, <2>2, DetachTables DEF GraceEnds
<1>6. ASSUME NEW w \in Worker, HandleMessage(w) \/ Dispatch(w) PROVE TableInv'
  BY <1>6, HandleTables, DispatchTables
<1>7. ASSUME NEW w \in Worker, NEW r \in Request,
             ReportProgress(w, r) \/ Succeed(w, r) \/ Throw(w, r) \/ PostMalformed(w, r)
      PROVE  TableInv'
  BY <1>7, WorkTables
<1>8. CASE UNCHANGED vars
  BY <1>8 DEF vars, clientVars, workerVars, TableInv, UnspawnedInv, RetainInv, TablesRetained
<1> QED
  BY <1>1, <1>2, <1>3, <1>4, <1>5, <1>6, <1>7, <1>8 DEF Next

(* A profile or normalize that follows a successful ingest finds its table *)
(* on the instance that is still attached: only a dispose empties one, and *)
(* no dispose is queued for an instance the client still uses.             *)
THEOREM TablesAreKept == Spec => []TablesRetained
<1>1. Init => TableInv
  BY DEF Init, TableInv, UnspawnedInv, RetainInv, TablesRetained
<1>2. Inv /\ TableInv /\ [Next]_vars => TableInv'
  BY StepTables
<1>3. TableInv => TablesRetained
  BY DEF TableInv
<1> QED
  BY <1>1, <1>2, <1>3, Invariance, PTL DEF Spec

-----------------------------------------------------------------------------
(* Refinement of RequestLedger                                             *)

(* The abstract ledger, read off the promises.                             *)
codes == [r \in Request |-> promise[r].code]

(* Settling on the spot a request that was never issued.                   *)
LEMMA RefuseStep ==
    ASSUME Inv, NEW r \in Request, NEW code \in Outcome, promise[r].code = "unissued",
           NEW cause, NEW by,
           promise' = [promise EXCEPT ![r] = Settled(code, cause, by)], UNCHANGED terminated
    PROVE  Ledger!Refuse(r, code)
<1>1. codes' = [codes EXCEPT ![r] = code]
  BY DEF codes, Settled, Inv, TypeOK
<1> QED
  BY <1>1 DEF Ledger!Refuse, codes

(* Failing the request in flight is a Settle of it, or nothing at all.     *)
LEMMA FailStep ==
    ASSUME Inv, NEW code \in Outcome, NEW cause, NEW by,
           FailInFlight(code, cause, by), UNCHANGED terminated
    PROVE  [Ledger!Next]_<<codes, ~terminated>>
<1>1. CASE inFlight = None
  BY <1>1 DEF FailInFlight, codes
<1>2. CASE inFlight # None
  <2>1. inFlight \in Request /\ promise[inFlight].code = "pending"
    BY <1>2 DEF Inv, TypeOK, SlotInv
  <2>2. codes' = [codes EXCEPT ![inFlight] = code]
    BY <1>2, <2>1 DEF FailInFlight, codes, Settled, Inv, TypeOK
  <2>3. Ledger!Settle(inFlight, code)
    BY <2>1, <2>2 DEF Ledger!Settle, codes
  <2> QED
    BY <2>1, <2>3 DEF Ledger!Next
<1> QED
  BY <1>1, <1>2

LEMMA IssueStep ==
    ASSUME Inv, NEW r \in Request, IssueRequest(r)
    PROVE  Ledger!Next
<1>1. ASSUME NEW code \in Refusal, Refuse(r, code) PROVE Ledger!Next
  BY <1>1, RefuseStep DEF Refuse, Ledger!Next, Outcome
<1>2. CASE RequestTerminated(r) \/ RequestBusy(r) \/ RequestUnencodable(r) \/ RequestNoWorker(r)
  BY <1>1, <1>2
     DEF RequestTerminated, RequestBusy, RequestUnencodable, RequestNoWorker, Refusal
<1>3. CASE RequestPosted(r)
  <2>1. codes' = [codes EXCEPT ![r] = "pending"]
    BY <1>3 DEF RequestPosted, codes, Settled, Inv, TypeOK
  <2>2. Ledger!Pending = {}
    BY <1>3 DEF RequestPosted, Ledger!Pending, codes, Inv, SlotInv
  <2>3. Ledger!Admit(r)
    BY <1>3, <2>1, <2>2 DEF RequestPosted, Ledger!Admit, codes
  <2> QED
    BY <2>3 DEF Ledger!Next
<1>4. CASE RequestUnpostable(r)
  BY <1>4, RefuseStep DEF RequestUnpostable, Ledger!Next, Outcome, Refusal
<1> QED
  BY <1>2, <1>3, <1>4 DEF IssueRequest

LEMMA DisposeStep ==
    ASSUME Inv, DisposeClient
    PROVE  Ledger!Close
<1>1. \A r \in Request : promise'[r].code
         = IF promise[r].code = "pending" THEN "CANCELLED" ELSE promise[r].code
  BY DEF DisposeClient, FailInFlight, Settled, Inv, TypeOK, SlotInv
<1>2. Ledger!Pending = {r \in Request : promise[r].code = "pending"}
  BY DEF Ledger!Pending
<1> QED
  BY <1>1, <1>2 DEF DisposeClient, Ledger!Close

LEMMA HandleStep ==
    ASSUME Inv, NEW w \in Worker, HandleMessage(w)
    PROVE  [Ledger!Next]_<<codes, ~terminated>>
<1>1. CASE DropMessage(w)
  BY <1>1 DEF DropMessage, clientVars, codes
<1>2. CASE MalformedMessage(w)
  BY <1>2, FailStep DEF MalformedMessage, Outcome, Refusal
<1>3. CASE TerminalMessage(w)
  <2> DEFINE m == Head(outbox[w])
  <2>1. Terminal[m.kind] \in Outcome
    BY <1>3 DEF TerminalMessage, Terminal, Outcome
  <2>2. FailInFlight(Terminal[m.kind], m.of, w) /\ UNCHANGED terminated
    BY <1>3 DEF TerminalMessage
  <2> HIDE DEF m
  <2> QED
    BY <2>1, <2>2, FailStep
<1> QED
  BY <1>1, <1>2, <1>3 DEF HandleMessage

(* Every step of the client is a step of the ledger or a stutter.          *)
LEMMA LedgerStep ==
    ASSUME Inv, [Next]_vars
    PROVE  [Ledger!Next]_<<codes, ~terminated>>
<1>1. CASE \E r \in Request : IssueRequest(r)
  BY <1>1, IssueStep
<1>2. ASSUME NEW r \in Request, WatchdogFires(r)
      PROVE  [Ledger!Next]_<<codes, ~terminated>>
  BY <1>2, FailStep DEF WatchdogFires, Outcome
<1>3. CASE Cancel
  BY <1>3, FailStep DEF Cancel, Outcome
<1>4. CASE WorkerError
  BY <1>4, FailStep DEF WorkerError, Outcome, Refusal
<1>5. CASE DisposeClient
  BY <1>5, DisposeStep DEF Ledger!Next
<1>6. CASE GraceEnds
  BY <1>6 DEF GraceEnds, codes
<1>7. ASSUME NEW w \in Worker, HandleMessage(w) \/ Dispatch(w)
      PROVE  [Ledger!Next]_<<codes, ~terminated>>
  BY <1>7, HandleStep DEF Dispatch, SupervisorVars, clientVars, codes
<1>8. ASSUME NEW w \in Worker, NEW r \in Request,
             ReportProgress(w, r) \/ Succeed(w, r) \/ Throw(w, r) \/ PostMalformed(w, r)
      PROVE  [Ledger!Next]_<<codes, ~terminated>>
  BY <1>8 DEF ReportProgress, Succeed, Throw, PostMalformed, SupervisorVars, clientVars, codes
<1>9. CASE UNCHANGED vars
  BY <1>9 DEF vars, clientVars, codes
<1> QED
  BY <1>1, <1>2, <1>3, <1>4, <1>5, <1>6, <1>7, <1>8, <1>9 DEF Next

(* WorkerClient implements RequestLedger: promises are admitted one at a   *)
(* time, settle once, and none is pending after dispose.                   *)
THEOREM ImplementsLedger == Spec => LedgerSpec
<1>1. Init => Ledger!Init
  BY DEF Init, Ledger!Init
<1>2. Inv /\ [Next]_vars => [Ledger!Next]_(Ledger!vars)
  BY LedgerStep DEF Ledger!vars, codes
<1> QED
  BY <1>1, <1>2, Invariance, PTL DEF Spec, LedgerSpec, Ledger!Spec
=============================================================================
