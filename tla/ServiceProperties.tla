-------------------------- MODULE ServiceProperties --------------------------
(***************************************************************************)
(* The properties of WebhookService.                                       *)
(***************************************************************************)
EXTENDS WebhookService

\* Every variable keeps its type.
TypeOK ==
    /\ reviews \in Seq(Row)
    /\ cutoff \in 0 .. Len(reviews)
    /\ pc \in [Request -> Labels]
    /\ mem \in [Request -> Local]
    /\ sent \in [Delivery -> Payload]
    /\ pull \in [open : BOOLEAN, draft : BOOLEAN, head : Sha]
    /\ posts \in Seq(Post)
    /\ knowsSelf \in BOOLEAN
    /\ crashes \in 0 .. MaxCrashes

ReviewPosts(i) == {k \in DOMAIN posts : posts[k].review = i /\ posts[k].kind = "review"}

ReviewsOf(d) == {i \in Review : reviews[i].delivery = d}

PublishedFor(d) == UNION {ReviewPosts(i) : i \in ReviewsOf(d)}

\* However often a delivery is repeated, concurrently or after a crash, and
\* whatever is retried on the way out, the pull request gets at most one review
\* for it (api/webhook.py "4. Idempotency", jobs.py _create_review).
OneReviewPerDelivery ==
    \A d \in Delivery : Cardinality(PublishedFor(d)) <= 1

\* No review sits on the pull request that the table does not know to have
\* run: its row is "succeeded", or "running" when the save failed, and never
\* "pending" or "failed" (jobs.py:92-98, the worse orphan).
PublishedIsOnRecord ==
    \A k \in DOMAIN posts : posts[k].kind = "review" =>
        /\ posts[k].review \in Review
        /\ reviews[posts[k].review].status \in {"running", "succeeded"}

\* What a row says of its posting is what is on the pull request: that post is
\* its review, with as many inline comments as the row counts, none when the
\* review was degraded (jobs.py _post, _create_review).
RecordedPostingIsReal ==
    \A i \in Review : reviews[i].posted # 0 =>
        /\ reviews[i].posted \in ReviewPosts(i)
        /\ posts[reviews[i].posted].comments = reviews[i].comments

\* Saving a result never trips the one-call-per-agent constraint: a mention
\* whose review already settled the row does not settle it again, and the
\* classifier's call is folded into the one save (dispatch.py:106-114).
CallsRecordedOnce ==
    \A r \in Request : pc[r] \in {"finish", "finishMention"} =>
        ~DuplicateCall(mem[r].row, mem[r].calls)

\* No two coroutines work on one row, and a coroutine works on the row of the
\* delivery it was accepted for.
TasksOwnTheirRows ==
    \A r \in Request : pc[r] \in TaskLabels =>
        /\ mem[r].row \in Review
        /\ reviews[mem[r].row].delivery = mem[r].delivery
        /\ \A q \in Request \ {r} : pc[q] \in TaskLabels => mem[q].row # mem[r].row

Working(i) == \E r \in Request : pc[r] \in TaskLabels /\ mem[r].row = i

\* When every failure is one the code handles, the table tells what became of a
\* review that ran: without a posting it is on no pull request, and with one it
\* is (jobs.py:148-151).
UndeliveredIsLegible ==
    \A i \in Review : "graph" \in reviews[i].calls /\ ~Working(i) =>
        (reviews[i].posted = 0 <=> ReviewPosts(i) = {})

\* When every failure is one the code handles, whoever was given an answer is
\* on record with every call that made it, the classifier's and, where there was
\* a diff to look at, the one that looked (mentions/dispatch.py:147-151).
AnswersAreBilled ==
    \A k \in DOMAIN posts :
        LET row == reviews[posts[k].review] IN
        posts[k].kind \in {"reply", "comment"} /\ ~Working(posts[k].review) =>
            /\ row.status = "succeeded"
            /\ "intent" \in row.calls
            /\ posts[k].diff # NoSha => row.calls \cap {"answer", "reconsider"} # {}

-----------------------------------------------------------------------------
(* The abstract promise, under the mapping from the table and the posts.   *)

\* A row that succeeded without a run of the graph is a mention's, answered.
Standing(row) == IF row.status = "succeeded" /\ "graph" \notin row.calls THEN "answered"
                 ELSE row.status

RecordOf(d) == IF ReviewsOf(d) = {} THEN "unrecorded"
               ELSE Standing(reviews[CHOOSE i \in ReviewsOf(d) : TRUE])

RecordStatus == [d \in Delivery |-> RecordOf(d)]

PublishedCount == [d \in Delivery |-> Cardinality(PublishedFor(d))]

Lifecycle == INSTANCE ReviewLifecycle WITH MayUndo <- Fault("commit"),
                                           status <- RecordStatus,
                                           published <- PublishedCount

\* The service implements ReviewLifecycle: the table and the pull request move
\* only as that specification allows.  A mention's row that was saved is failed
\* when its save is not known to have happened (mentions/dispatch.py:109-122),
\* and no other settled row ever changes.
ImplementsLifecycle == Lifecycle!Spec

-----------------------------------------------------------------------------
(* Liveness.                                                               *)

Settled(d) == RecordOf(d) \in {"answered", "succeeded", "failed"}

\* When neither the store nor the connection to GitHub fails and the process
\* stays up, every recorded delivery reaches "succeeded" or "failed", whatever
\* GitHub, the graph and the model answer.
RecordedDeliveriesSettle ==
    \A d \in Delivery : RecordOf(d) # "unrecorded" ~> Settled(d)
=============================================================================
