CONSTANTS
    Agent = {"security", "style", "architecture"}
    PathOrder <- PrefixOrder
    LineTolerance = 3
    TitleSimilarity = 50
    MinConfidence = 1
    MinSeverity = 2
    MaxPosted = 2
    SnapTolerance = 5
    MaxPromptTokens = 100
    MaxFileDiffLines = 100
    CriticMaxFindings = 3
    MergeLineWindow = 8
    MergeMaxPairs = 3
    Diffs <- InPrefixDirectory
    Reported <- OfPrefixDirectory
    MaxReported = 1
    Judgements <- Verdicting
    MaxVerdicts = 1
    Raises = FALSE
    EnableCritic = FALSE
    EnableLlmMerge = FALSE
SPECIFICATION Spec
INVARIANT
    CommentsFitAnyPath
CHECK_DEADLOCK FALSE
