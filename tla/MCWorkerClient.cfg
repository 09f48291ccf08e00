\* Three requests, two instances; timers are fair, the worker side is not.
SPECIFICATION FairSpec
CONSTANTS
    ingest = ingest
    lookup = lookup
    other = other
    t1 = t1
    Request <- MCRequest
    Worker = {w1, w2}
    Table = {t1}
    Ingests <- MCIngests
    Lookups <- MCLookups
    TableOf <- MCTableOf
    Dispose = Dispose
    None = None
    MaxQueue = 1
INVARIANTS TypeOK OwnAnswer OwnTimeout NoLostPromise NoLeakedWorker TablesRetained
PROPERTIES LedgerSpec EveryPromiseSettles DisposeReleasesWorkers
CHECK_DEADLOCK FALSE
