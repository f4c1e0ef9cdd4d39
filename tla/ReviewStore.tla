----------------------------- MODULE ReviewStore -----------------------------
(***************************************************************************)
(* The reviews table of one pull request, and the repository methods that  *)
(* read and write it (db/repository.py).  A review's id is its position in *)
(* the table, so the newest row (created_at DESC LIMIT 1) is the one with  *)
(* the largest id.  Each method is one transaction, hence one step; that a *)
(* method raises, before it wrote or after, is modelled by its callers.    *)
(***************************************************************************)
EXTENDS Naturals, Sequences, FiniteSets, FiniteSetsExt

CONSTANTS
    Delivery,       \* the values of the X-GitHub-Delivery header
    MaxHead         \* bound: the pull request's heads are 1 .. MaxHead

ASSUME MaxHeadAssumption == MaxHead \in Nat \ {0}

VARIABLES
    reviews,        \* the table: a sequence of rows
    cutoff          \* rows 1 .. cutoff were created more than an hour ago

NoSha == 0         \* the empty head_sha of an issue_comment's row
Sha == 1 .. MaxHead

Source == {"webhook", "mention"}
Status == {"pending", "running", "succeeded", "failed"}

\* "graph" stands for every call a run of the review graph returns.
Call == {"graph", "intent", "answer", "reconsider"}

Row == [source   : Source,
        delivery : Delivery,
        head     : Sha \cup {NoSha},
        status   : Status,
        findings : BOOLEAN,         \* whether any finding row was stored
        calls    : SUBSET Call,     \* the agent_calls rows
        posted   : Nat,             \* posted_review_id, 0 for NULL
        comments : {0, 1}]          \* posted_comment_count

NewRow(source, d, head) ==
    [source |-> source, delivery |-> d, head |-> head, status |-> "pending",
     findings |-> FALSE, calls |-> {}, posted |-> 0, comments |-> 0]

Review == DOMAIN reviews

-----------------------------------------------------------------------------
(* Writes.  start_review fails on the UNIQUE constraint of delivery_id, and *)
(* finish_review on that of (review_id, agent).                             *)

\* Mutant: delivery_id without its UNIQUE constraint.
DuplicateIgnored(d) == FALSE

DuplicateDelivery(d) == \E i \in Review : reviews[i].delivery = d

start_review(source, d, head) ==
    /\ ~DuplicateDelivery(d)
    /\ reviews' = Append(reviews, NewRow(source, d, head))

mark_running(i) == reviews' = [reviews EXCEPT ![i].status = "running"]

DuplicateCall(i, calls) == reviews[i].calls \cap calls # {}

finish_review(i, calls, findings) ==
    /\ ~DuplicateCall(i, calls)
    /\ reviews' = [reviews EXCEPT ![i].status = "succeeded",
                                  ![i].calls = @ \cup calls,
                                  ![i].findings = findings]

fail_review(i) == reviews' = [reviews EXCEPT ![i].status = "failed"]

\* Mutant: the two columns swapped.
record_posted_swapped(i, id, count) ==
    reviews' = [reviews EXCEPT ![i].posted = count, ![i].comments = id]

record_posted_review(i, id, count) ==
    reviews' = [reviews EXCEPT ![i].posted = id, ![i].comments = count]

-----------------------------------------------------------------------------
(* Reads.  A lookup returns a review id, or 0 for None.                     *)

Newest(ids) == IF ids = {} THEN 0 ELSE Max(ids)

find_review_by_delivery(d) == Newest({i \in Review : reviews[i].delivery = d})

find_latest_review_for_head(h) == Newest({i \in Review : reviews[i].head = h})

\* The review whose findings a mention is shown, 0 when there is no such
\* review or when it reported nothing.
latest_findings ==
    LET latest == Newest({i \in Review : /\ reviews[i].status = "succeeded"
                                         /\ reviews[i].source # "mention"})
    IN  IF latest # 0 /\ reviews[latest].findings THEN latest ELSE 0

count_recent_mentions ==
    Cardinality({i \in Review : i > cutoff /\ reviews[i].source = "mention"})
=============================================================================
