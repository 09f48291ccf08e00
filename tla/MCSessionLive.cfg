SPECIFICATION FairSpec
CONSTANTS
    Rid = {r1, r2, r3}
    None = none
    Options = {manifest, default}
    Manifest = manifest
    Default = default
    Crashes = TRUE
    MaxSources = 2
    MaxExports = 1
    MaxClears = 0
PROPERTIES
    WorkEnds
CHECK_DEADLOCK FALSE
