CONSTANTS
    r1 = r1
    r2 = r2
    d1 = d1
    d2 = d2
    NoDelivery = NoDelivery
    Request = {r1, r2}
    Delivery = {d1, d2}
    MaxHead = 1
    Faults <- HandledFaults
    EventKinds <- OpenedAndComments
    CommentKinds <- BareOrQuestion
    MaxCrashes = 0
    MaxMentions = 1
    ReviewOnSynchronize = FALSE
SPECIFICATION FairSpec
INVARIANTS
    UndeliveredIsLegible
    AnswersAreBilled
PROPERTY
    RecordedDeliveriesSettle
CHECK_DEADLOCK FALSE
