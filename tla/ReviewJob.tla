------------------------------ MODULE ReviewJob ------------------------------
(***************************************************************************)
(* review_pull_request (jobs.py): fetch the diff, review it, record the    *)
(* result, post it.  It runs as the background task of a request, so its   *)
(* control state is the request's.  Between two awaits nothing else of the *)
(* process runs, so a step is one awaited call and the straight-line code  *)
(* up to the next one.                                                     *)
(*                                                                         *)
(* An awaited call fails in one of the ways named by Faults:               *)
(*   "store"      a repository method raises, and has changed nothing;     *)
(*   "commit"     it raises although its transaction was committed, the    *)
(*                answer to COMMIT being lost;                             *)
(*   "github"     GitHub answers an error status, a GitHubError;           *)
(*   "transport"  httpx raises (timeout, connection reset), which is not a *)
(*                GitHubError; a POST may or may not have taken effect;    *)
(*   "graph"      the review graph raises;                                 *)
(*   "model"      the model's client raises what its callers do not catch. *)
(***************************************************************************)
EXTENDS ReviewStore

CONSTANTS
    Request,        \* the HTTP requests the service receives
    NoDelivery,     \* not a delivery id
    Faults          \* the kinds of failure that happen

ASSUME NoDeliveryAssumption == NoDelivery \notin Delivery

ASSUME FaultsAssumption ==
    Faults \subseteq {"store", "commit", "github", "transport", "graph", "model"}

VARIABLES
    pc,             \* what each request does next
    mem,            \* the local variables of each request's coroutine
    sent,           \* the deliveries GitHub has made, external
    pull,           \* the pull request on GitHub, external
    posts           \* what the service put on the pull request, external

Result == {"none", "clean", "unanchored", "anchored"}

Local == [delivery : Delivery \cup {NoDelivery},
          row      : Nat,                  \* review_id
          diff     : Sha \cup {NoSha},   \* the head the diff was fetched at
          prior    : Nat,                  \* the review a mention is about
          calls    : SUBSET Call,          \* extra_calls, outcome.calls
          ask      : {"answer", "reconsider"},
          result   : Result,               \* what the graph returned
          posted   : Nat,                  \* posted_id
          comments : {0, 1}]               \* the count posted with it

Blank == [delivery |-> NoDelivery, row |-> 0, diff |-> NoSha, prior |-> 0,
          calls |-> {}, ask |-> "answer", result |-> "none", posted |-> 0, comments |-> 0]

Post == [review   : Nat,
         kind     : {"review", "explanation", "reply", "comment"},
         commit   : Sha \cup {NoSha},    \* what GitHub pins the anchors to
         diff     : Sha \cup {NoSha},    \* what was reviewed, for properties
         comments : {0, 1}]

Fault(kind) == kind \in Faults

Goto(r, label) == pc' = [pc EXCEPT ![r] = label]

\* The coroutine ends and its locals are gone.
Return(r) == /\ Goto(r, "done")
             /\ mem' = [mem EXCEPT ![r] = Blank]

\* PullRequestRef.head_sha, bound when the request was accepted.
RefHead(r) == sent[mem[r].delivery].head

\* GitHub accepts a post; with no commit_id it means the latest commit.
Publish(post) ==
    posts' = Append(posts,
                    [post EXCEPT !.commit = IF @ = NoSha THEN pull.head ELSE @])

-----------------------------------------------------------------------------
(* _fetch, with the explanation and the failure it records.                *)

\* Mutant: GitHubError is not caught, and nobody fails the row.
FetchUncaught(r) ==
    /\ pc[r] = "fetch"
    /\ \/ /\ Goto(r, "markRunning")
          /\ mem' = [mem EXCEPT ![r].diff = pull.head]
       \/ (Fault("github") \/ Fault("transport")) /\ Return(r)
    /\ UNCHANGED <<reviews, cutoff, sent, pull, posts>>

Fetch(r) ==
    /\ pc[r] = "fetch"
    /\ \/ /\ Goto(r, "markRunning")
          /\ mem' = [mem EXCEPT ![r].diff = pull.head]
       \/ /\ Fault("github")
          /\ \E label \in {"explain", "fail"} : Goto(r, label)
          /\ UNCHANGED mem
       \/ /\ Fault("transport")
          /\ Return(r)
    /\ UNCHANGED <<reviews, cutoff, sent, pull, posts>>

Explanation(r) == [review |-> mem[r].row, kind |-> "explanation",
                   commit |-> NoSha, diff |-> NoSha, comments |-> 0]

\* _say: GitHub's refusal is swallowed, a lost connection is not.
Explain(r) ==
    /\ pc[r] = "explain"
    /\ \/ /\ Publish(Explanation(r))
          /\ \/ Goto(r, "fail") /\ UNCHANGED mem
             \/ Fault("transport") /\ Return(r)
       \/ /\ Fault("github")
          /\ Goto(r, "fail")
          /\ UNCHANGED <<mem, posts>>
       \/ /\ Fault("transport")
          /\ Return(r)
          /\ UNCHANGED posts
    /\ UNCHANGED <<reviews, cutoff, sent, pull>>

\* fail_review, from any of its callers; should it raise too, the exception is
\* logged, and the row keeps its status unless it was committed.
Fail(r) ==
    /\ pc[r] = "fail"
    /\ fail_review(mem[r].row) \/ (Fault("store") /\ UNCHANGED reviews)
    /\ Return(r)
    /\ UNCHANGED <<cutoff, sent, pull, posts>>

-----------------------------------------------------------------------------
(* review_pull_request once there is a diff.                               *)

MarkRunning(r) ==
    /\ pc[r] = "markRunning"
    /\ \/ /\ mark_running(mem[r].row)
          /\ \/ Goto(r, "review") /\ UNCHANGED mem
             \/ Fault("commit") /\ Return(r)
       \/ /\ Fault("store")
          /\ Return(r)
          /\ UNCHANGED reviews
    /\ UNCHANGED <<cutoff, sent, pull, posts>>

\* graph.ainvoke; the graph's calls join the caller's.
RunGraph(r) ==
    /\ pc[r] = "review"
    /\ \/ /\ \E result \in Result \ {"none"} :
                 mem' = [mem EXCEPT ![r].result = result,
                                    ![r].calls = @ \cup {"graph"}]
          /\ Goto(r, "finish")
       \/ /\ Fault("graph")
          /\ Goto(r, "fail")
          /\ UNCHANGED mem
    /\ UNCHANGED <<reviews, cutoff, sent, pull, posts>>

\* The result is posted whether or not it could be saved, or is known to be.
Finish(r) ==
    /\ pc[r] = "finish"
    /\ \/ finish_review(mem[r].row, mem[r].calls, mem[r].result # "clean")
       \/ /\ Fault("store") \/ DuplicateCall(mem[r].row, mem[r].calls)
          /\ UNCHANGED reviews
    /\ Goto(r, "post")
    /\ UNCHANGED <<mem, cutoff, sent, pull, posts>>

-----------------------------------------------------------------------------
(* _post and _create_review.                                               *)

\* The inline comments of a result; one stands for any positive number.
Inline(result) == IF result = "anchored" THEN 1 ELSE 0

build_review(r) ==
    [review |-> mem[r].row, kind |-> "review", commit |-> RefHead(r),
     diff |-> mem[r].diff, comments |-> Inline(mem[r].result)]

degrade(payload) == [payload EXCEPT !.comments = 0, !.commit = NoSha]

\* Mutant: a review whose posting is in doubt is recorded as failed.
SendOrFail(r, payload) ==
    \/ /\ Publish(payload)
       /\ \/ /\ Goto(r, "record")
             /\ mem' = [mem EXCEPT ![r].posted = Len(posts) + 1,
                                   ![r].comments = payload.comments]
          \/ Fault("transport") /\ Goto(r, "fail") /\ UNCHANGED mem

\* create_review answers, or its answer is lost after it took effect or before.
Send(r, payload) ==
    \/ /\ Publish(payload)
       /\ \/ /\ Goto(r, "record")
             /\ mem' = [mem EXCEPT ![r].posted = Len(posts) + 1,
                                   ![r].comments = payload.comments]
          \/ Fault("transport") /\ Return(r)
    \/ /\ Fault("transport")
       /\ Return(r)
       /\ UNCHANGED posts

\* Mutant: a review GitHub refuses is recorded as failed.
SendReviewOrFail(r) ==
    /\ pc[r] = "post"
    /\ \/ Send(r, build_review(r))
       \/ Fault("github") /\ Goto(r, "fail") /\ UNCHANGED <<mem, posts>>
    /\ UNCHANGED <<reviews, cutoff, sent, pull>>

\* A 422 is retried once, and only when there are anchors to remove.
SendReview(r) ==
    /\ pc[r] = "post"
    /\ \/ Send(r, build_review(r))
       \/ /\ Fault("github")
          /\ \/ /\ build_review(r).comments # 0
                /\ Goto(r, "repost")
                /\ UNCHANGED mem
             \/ Return(r)
          /\ UNCHANGED posts
    /\ UNCHANGED <<reviews, cutoff, sent, pull>>

\* Mutant: the posting of the degraded review is not recorded.
SendDegradedUnrecorded(r) ==
    /\ pc[r] = "repost"
    /\ Publish(degrade(build_review(r))) \/ (Fault("github") /\ UNCHANGED posts)
    /\ Return(r)
    /\ UNCHANGED <<reviews, cutoff, sent, pull>>

SendDegraded(r) ==
    /\ pc[r] = "repost"
    /\ \/ Send(r, degrade(build_review(r)))
       \/ /\ Fault("github")
          /\ Return(r)
          /\ UNCHANGED posts
    /\ UNCHANGED <<reviews, cutoff, sent, pull>>

\* Mutant: the count is that of the result and not of what was posted.
RecordResult(r) ==
    /\ pc[r] = "record"
    /\ record_posted_review(mem[r].row, mem[r].posted, Inline(mem[r].result))
    /\ Return(r)
    /\ UNCHANGED <<cutoff, sent, pull, posts>>

\* Mutant: a mention finishes its row although the review it ran did.
RecordThenFinish(r) ==
    /\ pc[r] = "record"
    /\ record_posted_review(mem[r].row, mem[r].posted, mem[r].comments)
    /\ IF reviews[mem[r].row].source = "mention"
       THEN Goto(r, "finishMention") /\ UNCHANGED mem
       ELSE Return(r)
    /\ UNCHANGED <<cutoff, sent, pull, posts>>

Record(r) ==
    /\ pc[r] = "record"
    /\ \/ record_posted_review(mem[r].row, mem[r].posted, mem[r].comments)
       \/ Fault("store") /\ UNCHANGED reviews
    /\ Return(r)
    /\ UNCHANGED <<cutoff, sent, pull, posts>>

JobStep(r) ==
    \/ Fetch(r) \/ Explain(r) \/ Fail(r)
    \/ MarkRunning(r) \/ RunGraph(r) \/ Finish(r)
    \/ SendReview(r) \/ SendDegraded(r) \/ Record(r)
=============================================================================
