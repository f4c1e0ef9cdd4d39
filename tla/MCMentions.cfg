CONSTANTS
    r1 = r1
    r2 = r2
    d1 = d1
    d2 = d2
    NoDelivery = NoDelivery
    Request = {r1, r2}
    Delivery = {d1, d2}
    MaxHead = 1
    Faults <- AllFaults
    EventKinds <- OpenedAndComments
    CommentKinds <- AllComments
    MaxCrashes = 1
    MaxMentions = 1
    ReviewOnSynchronize = FALSE
SPECIFICATION Spec
SYMMETRY Symmetry
INVARIANTS
    IInv
    CallsRecordedOnce
    TasksOwnTheirRows
PROPERTIES
    ImplementsLifecycle
CHECK_DEADLOCK FALSE
