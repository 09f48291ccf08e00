SPECIFICATION Spec
CONSTANTS
    Rid = {r1, r2, r3}
    None = none
    Options = {manifest, default}
    Manifest = manifest
    Default = default
    Crashes = TRUE
    MaxSources = 2
    MaxExports = 2
    MaxClears = 0
INVARIANTS
    ArtifactsOfOneRun
    NeverRefused
CHECK_DEADLOCK FALSE
