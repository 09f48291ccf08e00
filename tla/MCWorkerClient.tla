--------------------------- MODULE MCWorkerClient ---------------------------
(***************************************************************************)
(* A small instance of WorkerClient: one ingest, the lookup that follows   *)
(* it, and one request of another kind, over two or three instances.       *)
(***************************************************************************)
EXTENDS WorkerClient

CONSTANTS ingest, lookup, other, t1

MCRequest == {ingest, lookup, other}
MCIngests == {ingest}
MCLookups == {lookup}
MCTableOf == [r \in {ingest, lookup} |-> t1]
=============================================================================
