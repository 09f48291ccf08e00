\* Limits small enough to be met: two columns, two records, five positions.
SPECIFICATION Spec
CONSTANTS
    Text <- MCText
    MaxUnits = 6
    TabDelimited = FALSE
    RowsIncludingHeader = 2
    Columns = 2
    NonemptyCells = 5
    CellCharacters = 2
    PreviewRows = 3
    HeaderRow = {0, 1, 2}
    FirstColumn = {1, 2}
    LastColumn = {0, 1, 3}
INVARIANTS
    LinesDisjoint
    ValuesOfText
    TableWhole
CHECK_DEADLOCK FALSE
