CONSTANTS
    r1 = r1
    r2 = r2
    d1 = d1
    d2 = d2
    NoDelivery = NoDelivery
    Request = {r1, r2}
    Delivery = {d1, d2}
    MaxHead = 1
    Faults <- Connection
    EventKinds = {"opened"}
    CommentKinds <- NoComments
    MaxCrashes = 0
    MaxMentions = 1
    ReviewOnSynchronize = FALSE
SPECIFICATION Spec
INVARIANT UnsettledMeansDied
CHECK_DEADLOCK FALSE
