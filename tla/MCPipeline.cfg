CONSTANTS
    Agent = {"security", "style"}
    PathOrder <- Order
    LineTolerance = 3
    TitleSimilarity = 50
    MinConfidence = 1
    MinSeverity = 1
    MaxPosted = 2
    SnapTolerance = 5
    MaxPromptTokens = 5
    MaxFileDiffLines = 3
    MergeLineWindow = 8
    MergeMaxPairs = 24
    FileShapes <- Files
    Reports <- Findings
    Asked <- FivePairs
    MaxFiles = 4
    MaxFindings = 4
    MaxDecisions = 3
    MaxLines = 6
    CriticMaxFindings = 2
    CriticMaxFileLines = 4
    CriticContextRadius = 2
SPECIFICATION Spec
INVARIANTS
    PromptFits
    MostFilesSurvive
    CoverageIsDisclosed
    CollapseUnderstatesNothing
    CapKeepsTheTop
    GroupsAreConnected
    ExcerptIsTheDiff
    EvidenceIsShown
CHECK_DEADLOCK FALSE
