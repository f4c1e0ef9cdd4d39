CONSTANTS
    r1 = r1
    r2 = r2
    r3 = r3
    d1 = d1
    d2 = d2
    NoDelivery = NoDelivery
    Request = {r1, r2, r3}
    Delivery = {d1, d2}
    MaxHead = 2
    Faults <- AllFaults
    EventKinds <- PullRequestOnly
    CommentKinds <- NoComments
    MaxCrashes = 1
    MaxMentions = 1
    ReviewOnSynchronize = TRUE
SPECIFICATION Spec
SYMMETRY Symmetry
INVARIANTS
    TypeOK
    OneReviewPerDelivery
    PublishedIsOnRecord
    RecordedPostingIsReal
CHECK_DEADLOCK FALSE
