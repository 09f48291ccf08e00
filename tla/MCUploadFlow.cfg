\* Four jobs: a file can be picked, configured, parsed and retried or replaced.
SPECIFICATION FairSpec
CONSTANTS
    book = book
    text = text
    shown1 = shown1
    hidden1 = hidden1
    typed = typed
    cached = cached
    typeIssue = typeIssue
    cacheIssue = cacheIssue
    duplicate = duplicate
    File = {book, text}
    Ambiguous = {text}
    Sheet = {shown1, hidden1}
    Hidden = {hidden1}
    DefaultSheet = shown1
    Row = {row1}
    Column = {typed, cached}
    Issue = {typeIssue, cacheIssue, duplicate}
    OfColumn <- MCOfColumn
    ConfirmType = {typeIssue}
    UseCache = {cacheIssue}
    None = none
    MaxJobs = 4
INVARIANTS
    StageFollowsJob
    ParseConsented
    PlanCoherent
PROPERTIES
    PriorSurvives
    WorkEnds
CHECK_DEADLOCK FALSE
