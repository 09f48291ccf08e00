SPECIFICATION Spec
CONSTANTS
    Rid = {r1, r2, r3}
    None = none
    Options = {manifest, default}
    Manifest = manifest
    Default = default
    Crashes = FALSE
    MaxSources = 2
    MaxExports = 2
    MaxClears = 1
INVARIANTS
    StaleCommitsDropped
CHECK_DEADLOCK FALSE
