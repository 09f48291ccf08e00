SPECIFICATION Spec
CONSTANTS
    MaxEntries = 8
    EntryBytes = 4
    ExpandedBytes = 11
    ExpansionRatio = 3
    Sentinel = Sentinel
    None = None
    RowsIncludingHeader = 5
    MaxColumns = 3
    NonemptyCells = 12
    VisibleSheets = 2
    PreviewRows = 3
    CompressedBytes = 9
    Sources <- MCSources
    ColumnChoices <- MCColumns
INVARIANTS
    PackageAdmitted
    TableSound
    PreviewHolds
CHECK_DEADLOCK FALSE
