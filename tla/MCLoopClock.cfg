SPECIFICATION Spec
CONSTANTS
    Loop = 3
    Jump = {0, 1, 4}
    MaxFlips = 2
INVARIANTS
    NoTimeSkipped
    PlaysByFrames
PROPERTIES
    UserPauseStays
