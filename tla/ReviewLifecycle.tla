--------------------------- MODULE ReviewLifecycle ---------------------------
(***************************************************************************)
(* What the service promises about one delivery, whatever requests repeat  *)
(* it and whatever fails: it is recorded at most once, its record moves    *)
(* only forward, and it leads to at most one review on the pull request,   *)
(* of a run whose record has begun and has not failed.  A delivery that    *)
(* was answered instead may be taken for failed, and only when an answer   *)
(* of the database may be lost.                                            *)
(***************************************************************************)
EXTENDS Naturals

CONSTANTS
    Delivery,
    MayUndo         \* whether what was recorded may be reported as not

VARIABLES
    status,         \* the state of each delivery's record
    published       \* how many reviews of it are on the pull request

vars == <<status, published>>

Init ==
    /\ status = [d \in Delivery |-> "unrecorded"]
    /\ published = [d \in Delivery |-> 0]

Move(d, from, to) ==
    /\ status[d] \in from
    /\ status' = [status EXCEPT ![d] = to]
    /\ UNCHANGED published

Accept(d) == Move(d, {"unrecorded"}, "pending")

Begin(d) == Move(d, {"pending"}, "running")

Succeed(d) == Move(d, {"pending", "running"}, "succeeded")

\* A mention that was answered never runs a review.
Answer(d) == Move(d, {"pending"}, "answered")

Undo(d) == MayUndo /\ Move(d, {"answered"}, "failed")

GiveUp(d) == Move(d, {"pending", "running"}, "failed")

\* A run whose result could not be saved is posted as "running".
PostReview(d) ==
    /\ status[d] \in {"running", "succeeded"}
    /\ published[d] = 0
    /\ published' = [published EXCEPT ![d] = 1]
    /\ UNCHANGED status

Next == \E d \in Delivery :
    \/ Accept(d) \/ Begin(d) \/ Succeed(d) \/ Answer(d) \/ Undo(d)
    \/ GiveUp(d) \/ PostReview(d)

Spec == Init /\ [][Next]_vars
=============================================================================
