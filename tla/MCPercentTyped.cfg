SPECIFICATION Spec
CONSTANTS
    Precision = 3
    MaxLength = 20
    NumericPercent = 95
    DatePercent = 95
    MaxInputDigits = 6
    MaxNumberDigits = 4
    HeaderRow = 1
    MaxExpandedRows = 50
    MaxEvidencePage = 2
    OutlierMinRows = 4
    CatalogColumns = {"revenue", "operating_cost"}
    SampleColumnIds <- MCSampleColumns
    SampleCurrency <- MCSampleCurrency
    MinComparisonRows = 2
    TargetGap <- MCGap
    OrdersIncrease <- MCGap
    PeriodChange <- MCTwentieth
    TrendPeriods = 2
    CostMin <- MCMin
    CostMax <- MCMax
    TypedStep <- MCStep
    PercentMin <- MCMin
    PercentMax <- MCMax
    PercentStep <- MCStep
    MaxFraction = 9
    GroupDigits = 1
    PanelPage = 2
    PanelRows = 4
    MaxStrip = 4
    PreviewLines = 3
    PreviewKpis = 4
    PreviewPoints = 8
    MarkTrack = 88
    SampleRequiredIds <- MCSampleRequired
    MaxExportRows = 6
    MaxLines = 8
    MaxKpis = 6
    MaxPoints = 12
    Uploads <- MCUploads
    Samples <- MCSamples
    Packaged <- MCPackaged
    Measured <- MCMeasured
    MaxMoves <- MCMaxMoves
    CostChanges <- MCCostChanges
    SamplePeriod <- MCPeriod
    MaxPlans = 2
    Replanned <- MCReplanned
INVARIANT TypedPercentExact
CHECK_DEADLOCK FALSE
