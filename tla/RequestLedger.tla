--------------------------- MODULE RequestLedger ---------------------------
(***************************************************************************)
(* What a WorkerClient promises to its callers, with no worker, message or *)
(* timer in sight: every request is a promise that is admitted at most     *)
(* once, at most one promise is pending at a time, a promise is settled    *)
(* once and never changes again, and a disposed client admits nothing and  *)
(* leaves nothing pending.                                                 *)
(***************************************************************************)

CONSTANTS Request,  \* the requests callers may issue
          Outcome   \* how a promise can settle (neither "unissued" nor "pending")

VARIABLES ledger,   \* ledger[r]: "unissued", "pending" or an Outcome
          open      \* FALSE once dispose() has been called

vars == <<ledger, open>>

Pending == {r \in Request : ledger[r] = "pending"}

LedgerTypeOK == /\ ledger \in [Request -> Outcome \cup {"unissued", "pending"}]
                /\ open \in BOOLEAN

Init == /\ ledger = [r \in Request |-> "unissued"]
        /\ open = TRUE

(* request() accepted: the promise is now the only pending one.            *)
Admit(r) == /\ open
            /\ Pending = {}
            /\ ledger[r] = "unissued"
            /\ ledger' = [ledger EXCEPT ![r] = "pending"]
            /\ UNCHANGED open

(* request() rejected on the spot, without disturbing the pending promise. *)
Refuse(r, o) == /\ ledger[r] = "unissued"
                /\ ledger' = [ledger EXCEPT ![r] = o]
                /\ UNCHANGED open

(* The pending promise resolves or rejects.                                *)
Settle(r, o) == /\ ledger[r] = "pending"
                /\ ledger' = [ledger EXCEPT ![r] = o]
                /\ UNCHANGED open

(* dispose(): whatever is pending is cancelled in the same step.           *)
Close == /\ open
         /\ open' = FALSE
         /\ ledger' = [r \in Request |->
                         IF r \in Pending THEN "CANCELLED" ELSE ledger[r]]

Next == \/ \E r \in Request : Admit(r)
        \/ \E r \in Request, o \in Outcome : Refuse(r, o) \/ Settle(r, o)
        \/ Close

Spec == Init /\ [][Next]_vars
=============================================================================
