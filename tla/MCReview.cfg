CONSTANTS
    Agent = {"security", "style", "architecture"}
    PathOrder <- Order
    LineTolerance = 3
    TitleSimilarity = 50
    MinConfidence = 1
    MinSeverity = 2
    MaxPosted = 2
    SnapTolerance = 5
    MaxPromptTokens = 100
    MaxFileDiffLines = 100
    CriticMaxFindings = 3
    MergeLineWindow = 8
    MergeMaxPairs = 3
    Diffs <- TwoFiles
    Reported <- Findings
    MaxReported = 1
    Judgements <- Verdicting
    MaxVerdicts = 1
    Raises = TRUE
    EnableCritic = TRUE
    EnableLlmMerge = TRUE
SPECIFICATION Spec
INVARIANTS
    ReviewTypeOK
    ReportsAreAccountedFor
    SourcesAreAuthors
    SeverityIsEarned
    ConfidenceIsEarned
    LinesAreReported
    CommentsAreOnTheDiff
    OneCallEach
    LoweredIsMarked
PROPERTY
    ImplementsLedger
CHECK_DEADLOCK FALSE
