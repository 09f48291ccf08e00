\* Texts of four units, read without options: an empty field beside the header.
SPECIFICATION Spec
CONSTANTS
    Text <- MCText
    MaxUnits = 4
    TabDelimited = FALSE
    RowsIncludingHeader = 2
    Columns = 2
    NonemptyCells = 5
    CellCharacters = 2
    PreviewRows = 3
    HeaderRow = {0}
    FirstColumn = {1}
    LastColumn = {0}
INVARIANT
    BlankForEmpty
CHECK_DEADLOCK FALSE
