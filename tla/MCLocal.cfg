CONSTANTS
    Results <- ManyResults
    Faults <- AllFaults
SPECIFICATION Spec
INVARIANTS
    LocalTypeOK
    SavedIsWhatWasShown
    ResultSurvivesTheStore
    RowTellsTheRun
    ReaderIsToldEverything
    BillAddsUp
PROPERTY
    LocalImplementsLifecycle
CHECK_DEADLOCK FALSE
