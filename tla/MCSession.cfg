SPECIFICATION Spec
CONSTANTS
    Rid = {r1, r2, r3, r4}
    None = none
    Options = {manifest, default}
    Manifest = manifest
    Default = default
    Crashes = TRUE
    MaxSources = 2
    MaxExports = 1
    MaxClears = 1
INVARIANTS
    PhaseAgrees
    NoParkedPhase
    NoStrandedJob
    ResultsOfDataset
PROPERTIES
    DatasetChanges
CHECK_DEADLOCK FALSE
