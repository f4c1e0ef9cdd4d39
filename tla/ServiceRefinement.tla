-------------------------- MODULE ServiceRefinement --------------------------
(***************************************************************************)
(* WebhookService implements ReviewLifecycle: each of its steps is, under  *)
(* the mapping of ServiceProperties, a step of that specification or a     *)
(* stutter.  The invariant IInv says which row and which posts a delivery  *)
(* has, and so what each kind of step does to the two mapped variables.    *)
(***************************************************************************)
EXTENDS ServiceSafety

-----------------------------------------------------------------------------
(* The mapped variables.                                                   *)

\* What the mapping says of a delivery with a row, and of one without.
Mapped ==
    /\ \A i \in Review :
          LET d == reviews[i].delivery IN
          /\ d \in Delivery
          /\ ReviewsOf(d) = {i}
          /\ RecordOf(d) = Standing(reviews[i])
          /\ Cardinality(PublishedFor(d)) = IF ReviewPosts(i) = {} THEN 0 ELSE 1
    /\ \A d \in Delivery : ReviewsOf(d) = {} =>
          /\ RecordOf(d) = "unrecorded"
          /\ Cardinality(PublishedFor(d)) = 0

LEMMA InvariantMaps == IInv => Mapped
<1>. SUFFICES ASSUME IInv PROVE Mapped
  OBVIOUS
<1>1. ASSUME NEW i \in Review
      PROVE  LET d == reviews[i].delivery IN
             /\ d \in Delivery
             /\ ReviewsOf(d) = {i}
             /\ RecordOf(d) = Standing(reviews[i])
             /\ Cardinality(PublishedFor(d)) = IF ReviewPosts(i) = {} THEN 0 ELSE 1
  <2>. DEFINE d == reviews[i].delivery
  <2>1. d \in Delivery
    BY TypesOfState DEF Row
  <2>2. ReviewsOf(d) = {i}
    BY DEF IInv, RowsAreApart, ReviewsOf
  <2>3. RecordOf(d) = Standing(reviews[i]) /\ PublishedFor(d) = ReviewPosts(i)
    BY <2>2 DEF RecordOf, PublishedFor
  <2>4. Cardinality(PublishedFor(d)) = IF PublishedFor(d) = {} THEN 0 ELSE 1
    <3>1. CASE PublishedFor(d) = {}
      BY <3>1, FS_EmptySet
    <3>2. CASE \E k : PublishedFor(d) = {k}
      BY <3>2, FS_Singleton
    <3>. QED  BY <2>1, <3>1, <3>2, PublishedForIsSmall
  <2>. QED  BY <2>1, <2>2, <2>3, <2>4
<1>2. ASSUME NEW d \in Delivery, ReviewsOf(d) = {}
      PROVE  RecordOf(d) = "unrecorded" /\ Cardinality(PublishedFor(d)) = 0
  <2>1. PublishedFor(d) = {}
    BY <1>2 DEF PublishedFor
  <2>. QED  BY <1>2, <2>1, FS_EmptySet DEF RecordOf
<1>. QED  BY <1>1, <1>2 DEF Mapped

\* A delivery whose row and reviews a step leaves alone.
LEMMA OtherDelivery ==
    ASSUME Mapped, Mapped', NEW e \in Delivery,
           \A i \in Review : i \in Review' /\ reviews'[i].delivery = reviews[i].delivery,
           \A i \in Review' \ Review : reviews'[i].delivery # e,
           \A i \in Review : reviews[i].delivery = e =>
              /\ Standing(reviews'[i]) = Standing(reviews[i])
              /\ ReviewPosts(i)' = {} <=> ReviewPosts(i) = {}
    PROVE  /\ RecordStatus'[e] = RecordStatus[e]
           /\ PublishedCount'[e] = PublishedCount[e]
<1>. SUFFICES /\ RecordOf(e)' = RecordOf(e)
              /\ Cardinality(PublishedFor(e))' = Cardinality(PublishedFor(e))
  BY DEF RecordStatus, PublishedCount
<1>1. CASE ReviewsOf(e) = {}
  <2>1. ReviewsOf(e)' = {}
    BY <1>1 DEF ReviewsOf
  <2>. QED  BY <1>1, <2>1 DEF Mapped
<1>2. CASE ReviewsOf(e) # {}
  <2>1. PICK i \in Review : reviews[i].delivery = e
    BY <1>2 DEF ReviewsOf
  <2>2. i \in Review' /\ reviews'[i].delivery = e
    BY <2>1
  <2>. QED  BY <2>1, <2>2 DEF Mapped
<1>. QED  BY <1>1, <1>2

\* A step that changes neither what a row stands for nor the reviews on the pull
\* request.
LEMMA StutterMaps ==
    ASSUME Mapped, Mapped', Review' = Review,
           \A i \in Review : /\ reviews'[i].delivery = reviews[i].delivery
                             /\ Standing(reviews'[i]) = Standing(reviews[i]),
           \A i : ReviewPosts(i)' = ReviewPosts(i)
    PROVE  UNCHANGED Lifecycle!vars
<1>1. \A e \in Delivery : /\ RecordStatus'[e] = RecordStatus[e]
                          /\ PublishedCount'[e] = PublishedCount[e]
  BY OtherDelivery
<1>2. RecordStatus' = RecordStatus /\ PublishedCount' = PublishedCount
  BY <1>1 DEF RecordStatus, PublishedCount
<1>. QED  BY <1>2 DEF Lifecycle!vars

\* A step that writes a task's row.
LEMMA WriteMaps ==
    ASSUME IInv, Mapped, Mapped', NEW i \in Review, NEW row \in Row,
           row.delivery = reviews[i].delivery,
           NEW from, Standing(reviews[i]) \in from,
           reviews' = [reviews EXCEPT ![i] = row],
           UNCHANGED posts
    PROVE  LET d == reviews[i].delivery IN
           d \in Delivery /\ Lifecycle!Move(d, from, Standing(row))
<1>. DEFINE d == reviews[i].delivery
<1>1. /\ Review' = Review /\ reviews'[i] = row
      /\ \A j \in Review : j # i => reviews'[j] = reviews[j]
  BY TypesOfState, Updated DEF Review
<1>2. \A j : ReviewPosts(j)' = ReviewPosts(j)
  BY DEF ReviewPosts
<1>3. d \in Delivery /\ RecordStatus[d] = Standing(reviews[i])
  BY DEF Mapped, RecordStatus
<1>4. RecordStatus'[d] = Standing(row) /\ PublishedCount'[d] = PublishedCount[d]
  BY <1>1, <1>2, <1>3 DEF Mapped, RecordStatus, PublishedCount
<1>5. ASSUME NEW e \in Delivery, e # d
      PROVE  RecordStatus'[e] = RecordStatus[e] /\ PublishedCount'[e] = PublishedCount[e]
  BY <1>1, <1>2, <1>5, OtherDelivery
<1>6. RecordStatus' = [RecordStatus EXCEPT ![d] = Standing(row)] /\ UNCHANGED PublishedCount
  BY <1>3, <1>4, <1>5 DEF RecordStatus, PublishedCount
<1>. QED  BY <1>3, <1>6 DEF Lifecycle!Move

\* A step that publishes the first review of a task's row.
LEMMA PostMaps ==
    ASSUME IInv, Mapped, Mapped', NEW i \in Review, NEW post \in Post,
           post.kind = "review", post.review = i, ReviewPosts(i) = {},
           posts' = Append(posts, post),
           UNCHANGED reviews
    PROVE  LET d == reviews[i].delivery IN
           /\ d \in Delivery
           /\ RecordStatus[d] = Standing(reviews[i])
           /\ UNCHANGED RecordStatus
           /\ PublishedCount[d] = 0
           /\ PublishedCount' = [PublishedCount EXCEPT ![d] = 1]
<1>. DEFINE d == reviews[i].delivery
<1>1. /\ ReviewPosts(i)' # {}
      /\ \A j : j # i => ReviewPosts(j)' = ReviewPosts(j)
  BY PostsAppended
<1>2. Review' = Review
  BY DEF Review
<1>3. d \in Delivery /\ RecordStatus[d] = Standing(reviews[i]) /\ PublishedCount[d] = 0
  BY DEF Mapped, RecordStatus, PublishedCount
<1>4. RecordStatus'[d] = RecordStatus[d] /\ PublishedCount'[d] = 1
  BY <1>1, <1>2, <1>3 DEF Mapped, RecordStatus, PublishedCount
<1>5. ASSUME NEW e \in Delivery, e # d
      PROVE  RecordStatus'[e] = RecordStatus[e] /\ PublishedCount'[e] = PublishedCount[e]
  BY <1>1, <1>2, <1>5, OtherDelivery
<1>. QED  BY <1>3, <1>4, <1>5 DEF RecordStatus, PublishedCount

\* A step that adds the row of a delivery that had none.
LEMMA AcceptMaps ==
    ASSUME IInv, Mapped, Mapped', NEW d \in Delivery, NEW row \in Row,
           row.delivery = d, row.status = "pending", ~DuplicateDelivery(d),
           reviews' = Append(reviews, row),
           UNCHANGED posts
    PROVE  /\ RecordStatus[d] = "unrecorded"
           /\ RecordStatus' = [RecordStatus EXCEPT ![d] = "pending"]
           /\ UNCHANGED PublishedCount
<1>. DEFINE fresh == Len(reviews) + 1
<1>1. /\ Review' = Review \cup {fresh} /\ fresh \notin Review
      /\ \A i \in Review : reviews'[i] = reviews[i]
      /\ reviews'[fresh] = row
  BY TypesOfState, Appended DEF Review
<1>. HIDE DEF fresh
<1>2. \A j : ReviewPosts(j)' = ReviewPosts(j)
  BY DEF ReviewPosts
<1>3. ReviewPosts(fresh) = {}
  BY <1>1 DEF IInv, PublishedIsOnRecord, ReviewPosts
<1>4. RecordStatus[d] = "unrecorded" /\ PublishedCount[d] = 0
  BY DEF Mapped, RecordStatus, PublishedCount, ReviewsOf, DuplicateDelivery
<1>5. RecordStatus'[d] = "pending" /\ PublishedCount'[d] = 0
  BY <1>1, <1>2, <1>3 DEF Mapped, RecordStatus, PublishedCount, Standing
<1>6. ASSUME NEW e \in Delivery, e # d
      PROVE  RecordStatus'[e] = RecordStatus[e] /\ PublishedCount'[e] = PublishedCount[e]
  BY <1>1, <1>2, <1>6, OtherDelivery
<1>. QED  BY <1>4, <1>5, <1>6 DEF RecordStatus, PublishedCount

-----------------------------------------------------------------------------
(* The steps.                                                              *)

\* A step that leaves the table and the pull request's reviews alone.
LEMMA QuietMaps ==
    ASSUME Mapped, Mapped', UNCHANGED <<reviews, posts>>
    PROVE  UNCHANGED Lifecycle!vars
<1>1. \A i : ReviewPosts(i)' = ReviewPosts(i)
  BY DEF ReviewPosts
<1>. QED  BY <1>1, StutterMaps DEF Review

\* A step that posts something else than a review.
LEMMA SayMaps ==
    ASSUME IInv, Mapped, Mapped', NEW post \in Post, post.kind # "review",
           posts' = Append(posts, post), UNCHANGED reviews
    PROVE  UNCHANGED Lifecycle!vars
<1>1. \A i : ReviewPosts(i)' = ReviewPosts(i)
  BY PostsAppended
<1>. QED  BY <1>1, StutterMaps DEF Review

LEMMA FailMaps ==
    ASSUME IInv, Mapped, Mapped', NEW r \in Request, Fail(r)
    PROVE  [Lifecycle!Next]_Lifecycle!vars
<1>. pc[r] \in TaskLabels /\ pc[r] = "fail" /\ UNCHANGED posts
  BY DEF Fail, TaskLabels, JobLabels
<1>1. CASE fail_review(mem[r].row)
  <2>. DEFINE row == [reviews[mem[r].row] EXCEPT !.status = "failed"]
              d == reviews[mem[r].row].delivery
  <2>1. row \in Row /\ row.delivery = d /\ row.status = "failed"
    BY RowOfTask DEF Row, Status
  <2>2. reviews' = [reviews EXCEPT ![mem[r].row] = row]
    BY <1>1 DEF fail_review
  <2>. HIDE DEF row
  <2>3. Standing(row) = "failed"
    BY <2>1 DEF Standing
  <2>4. CASE reviews[mem[r].row].status \in {"pending", "running"}
    <3>1. Standing(reviews[mem[r].row]) \in {"pending", "running"}
      BY <2>4 DEF Standing
    <3>2. d \in Delivery /\ Lifecycle!Move(d, {"pending", "running"}, Standing(row))
      BY <2>1, <2>2, <3>1, RowOfTask, WriteMaps
    <3>3. Lifecycle!GiveUp(d)
      BY <2>3, <3>2 DEF Lifecycle!GiveUp
    <3>. QED  BY <3>2, <3>3 DEF Lifecycle!Next
  <2>5. CASE Fault("commit") /\ Standing(reviews[mem[r].row]) = "answered"
    <3>1. d \in Delivery /\ Lifecycle!Move(d, {"answered"}, Standing(row))
      BY <2>1, <2>2, <2>5, RowOfTask, WriteMaps
    <3>2. Lifecycle!Undo(d)
      BY <2>3, <2>5, <3>1 DEF Lifecycle!Undo
    <3>. QED  BY <3>1, <3>2 DEF Lifecycle!Next
  <2>. QED  BY <2>4, <2>5, TaskAtLabel DEF At
<1>2. CASE UNCHANGED reviews
  BY <1>2, QuietMaps
<1>. QED  BY <1>1, <1>2 DEF Fail

LEMMA MarkRunningMaps ==
    ASSUME IInv, Mapped, Mapped', NEW r \in Request, MarkRunning(r)
    PROVE  [Lifecycle!Next]_Lifecycle!vars
<1>. pc[r] \in TaskLabels /\ pc[r] = "markRunning" /\ UNCHANGED posts
  BY DEF MarkRunning, TaskLabels, JobLabels
<1>1. CASE mark_running(mem[r].row)
  <2>. DEFINE row == [reviews[mem[r].row] EXCEPT !.status = "running"]
              d == reviews[mem[r].row].delivery
  <2>1. row \in Row /\ row.delivery = d /\ row.status = "running"
    BY RowOfTask DEF Row, Status
  <2>2. reviews' = [reviews EXCEPT ![mem[r].row] = row]
    BY <1>1 DEF mark_running
  <2>. HIDE DEF row
  <2>3. Standing(reviews[mem[r].row]) = "pending" /\ Standing(row) = "running"
    BY <2>1, TaskAtLabel DEF At, Unbegun, Standing
  <2>4. d \in Delivery /\ Lifecycle!Move(d, {"pending"}, Standing(row))
    BY <2>1, <2>2, <2>3, RowOfTask, WriteMaps
  <2>5. Lifecycle!Begin(d)
    BY <2>3, <2>4 DEF Lifecycle!Begin
  <2>. QED  BY <2>4, <2>5 DEF Lifecycle!Next
<1>2. CASE UNCHANGED reviews
  BY <1>2, QuietMaps
<1>. QED  BY <1>1, <1>2 DEF MarkRunning

\* finish_review, called by the job or by the mention.
LEMMA SaveMaps ==
    ASSUME IInv, Mapped, Mapped', NEW r \in Request,
           pc[r] \in {"finish", "finishMention"}, NEW findings \in BOOLEAN,
           finish_review(mem[r].row, mem[r].calls, findings), UNCHANGED posts
    PROVE  [Lifecycle!Next]_Lifecycle!vars
<1>. pc[r] \in TaskLabels
  BY DEF TaskLabels, JobLabels, MentionLabels
<1>. DEFINE row == [reviews[mem[r].row] EXCEPT !.status = "succeeded",
                                               !.calls = @ \cup mem[r].calls,
                                               !.findings = findings]
            d == reviews[mem[r].row].delivery
<1>1. /\ reviews[mem[r].row] \in Row
      /\ reviews[mem[r].row].calls \cup mem[r].calls \in SUBSET Call
  BY RowOfTask, TypesOfState DEF Row, Local
<1>2. row \in Row /\ row.delivery = d /\ row.status = "succeeded"
  BY <1>1 DEF Row, Status
<1>3. reviews' = [reviews EXCEPT ![mem[r].row] = row]
  BY DEF finish_review
<1>4. row.calls = mem[r].calls
  BY <1>1, TaskAtLabel DEF At, Posting, Row
<1>. HIDE DEF row
<1>5. CASE pc[r] = "finish"
  <2>1. Standing(reviews[mem[r].row]) \in {"pending", "running"}
    BY <1>5, TaskAtLabel DEF At, Unfinished, Standing
  <2>2. Standing(row) = "succeeded"
    BY <1>2, <1>4, <1>5, TaskAtLabel DEF At, Standing
  <2>3. d \in Delivery /\ Lifecycle!Move(d, {"pending", "running"}, Standing(row))
    BY <1>2, <1>3, <2>1, RowOfTask, WriteMaps
  <2>4. Lifecycle!Succeed(d)
    BY <2>2, <2>3 DEF Lifecycle!Succeed
  <2>. QED  BY <2>3, <2>4 DEF Lifecycle!Next
<1>6. CASE pc[r] = "finishMention"
  <2>1. Standing(reviews[mem[r].row]) = "pending"
    BY <1>6, TaskAtLabel DEF At, Unbegun, MentionLabels, Standing
  <2>2. Standing(row) = "answered"
    BY <1>2, <1>4, <1>6, TaskAtLabel DEF At, MentionLabels, Standing
  <2>3. d \in Delivery /\ Lifecycle!Move(d, {"pending"}, Standing(row))
    BY <1>2, <1>3, <2>1, RowOfTask, WriteMaps
  <2>4. Lifecycle!Answer(d)
    BY <2>2, <2>3 DEF Lifecycle!Answer
  <2>. QED  BY <2>3, <2>4 DEF Lifecycle!Next
<1>. QED  BY <1>5, <1>6

LEMMA RecordMaps ==
    ASSUME IInv, Mapped, Mapped', NEW r \in Request, Record(r)
    PROVE  UNCHANGED Lifecycle!vars
<1>. pc[r] \in TaskLabels /\ pc[r] = "record" /\ UNCHANGED posts
  BY DEF Record, TaskLabels, JobLabels
<1>1. CASE record_posted_review(mem[r].row, mem[r].posted, mem[r].comments)
  <2>. DEFINE row == [reviews[mem[r].row] EXCEPT !.posted = mem[r].posted,
                                                 !.comments = mem[r].comments]
              d == reviews[mem[r].row].delivery
  <2>1. /\ reviews[mem[r].row] \in Row
        /\ mem[r].posted \in Nat /\ mem[r].comments \in {0, 1}
    BY RowOfTask, TypesOfState DEF Local
  <2>2. row \in Row /\ row.delivery = d /\ Standing(row) = Standing(reviews[mem[r].row])
    BY <2>1 DEF Row, Standing
  <2>3. reviews' = [reviews EXCEPT ![mem[r].row] = row]
    BY <1>1 DEF record_posted_review
  <2>. HIDE DEF row
  <2>4. /\ Review' = Review
        /\ \A i \in Review : /\ reviews'[i].delivery = reviews[i].delivery
                             /\ Standing(reviews'[i]) = Standing(reviews[i])
    BY <2>2, <2>3, RowOfTask, TypesOfState, Updated DEF Review
  <2>5. \A i : ReviewPosts(i)' = ReviewPosts(i)
    BY DEF ReviewPosts
  <2>. QED  BY <2>4, <2>5, StutterMaps
<1>2. CASE UNCHANGED reviews
  BY <1>2, QuietMaps
<1>. QED  BY <1>1, <1>2 DEF Record

LEMMA SendMaps ==
    ASSUME IInv, Mapped, Mapped', NEW r \in Request, pc[r] \in {"post", "repost"},
           NEW payload \in Post, payload.review = mem[r].row, payload.kind = "review",
           Send(r, payload), UNCHANGED reviews
    PROVE  [Lifecycle!Next]_Lifecycle!vars
<1>. pc[r] \in TaskLabels
  BY DEF TaskLabels, JobLabels
<1>1. CASE Publish(payload)
  <2>. DEFINE post == [payload EXCEPT !.commit = IF @ = NoSha THEN pull.head ELSE @]
              d == reviews[mem[r].row].delivery
  <2>1. post \in Post /\ post.review = mem[r].row /\ post.kind = "review"
    BY TypesOfState DEF Post, Sha
  <2>2. posts' = Append(posts, post)
    BY <1>1 DEF Publish
  <2>3. /\ Standing(reviews[mem[r].row]) \in {"running", "succeeded"}
        /\ ReviewPosts(mem[r].row) = {}
    BY TaskAtLabel DEF At, Posting
  <2>. HIDE DEF post
  <2>4. /\ d \in Delivery /\ RecordStatus[d] \in {"running", "succeeded"}
        /\ UNCHANGED RecordStatus /\ PublishedCount[d] = 0
        /\ PublishedCount' = [PublishedCount EXCEPT ![d] = 1]
    BY <2>1, <2>2, <2>3, TaskDelivery, PostMaps
  <2>5. Lifecycle!PostReview(d)
    BY <2>4 DEF Lifecycle!PostReview
  <2>. QED  BY <2>4, <2>5 DEF Lifecycle!Next
<1>2. CASE UNCHANGED posts
  BY <1>2, QuietMaps
<1>. QED  BY <1>1, <1>2 DEF Send

LEMMA AcceptStepMaps ==
    ASSUME IInv, Mapped, Mapped', NEW r \in Request, pc[r] \in HandlerLabels,
           NEW source \in Source, NEW task, Accept(r, source, task)
    PROVE  [Lifecycle!Next]_Lifecycle!vars
<1>. DEFINE d == mem[r].delivery
            row == NewRow(source, d, RefHead(r))
<1>. UNCHANGED posts
  BY DEF Accept
<1>1. CASE start_review(source, d, RefHead(r))
  <2>1. d \in Delivery
    BY DEF IInv, HandlersHaveDeliveries
  <2>2. RefHead(r) \in Sha \cup {NoSha}
    BY <2>1, TypesOfState DEF RefHead, Payload
  <2>3. row \in Row /\ row.delivery = d /\ row.status = "pending"
    BY <2>1, <2>2 DEF NewRow, Row, Status
  <2>4. ~DuplicateDelivery(d) /\ reviews' = Append(reviews, row)
    BY <1>1 DEF start_review
  <2>. HIDE DEF row
  <2>5. /\ RecordStatus[d] = "unrecorded"
        /\ RecordStatus' = [RecordStatus EXCEPT ![d] = "pending"]
        /\ UNCHANGED PublishedCount
    BY <2>1, <2>3, <2>4, AcceptMaps
  <2>6. Lifecycle!Accept(d)
    BY <2>5 DEF Lifecycle!Accept, Lifecycle!Move
  <2>. QED  BY <2>1, <2>6 DEF Lifecycle!Next
<1>2. CASE UNCHANGED reviews
  BY <1>2, QuietMaps
<1>. QED  BY <1>1, <1>2 DEF Accept

LEMMA JobStepMaps ==
    ASSUME IInv, Mapped, Mapped', NEW r \in Request, JobStep(r)
    PROVE  [Lifecycle!Next]_Lifecycle!vars
<1>1. CASE Fetch(r) \/ RunGraph(r)
  BY <1>1, QuietMaps DEF Fetch, RunGraph
<1>2. CASE Explain(r)
  <2>. pc[r] \in TaskLabels /\ mem[r] \in Local /\ UNCHANGED reviews
    BY <1>2, TypesOfState DEF Explain, TaskLabels, JobLabels
  <2>1. CASE Publish(Explanation(r))
    <3>. DEFINE post == [Explanation(r) EXCEPT
                           !.commit = IF @ = NoSha THEN pull.head ELSE @]
    <3>1. posts' = Append(posts, post)
      BY <2>1 DEF Publish
    <3>2. post \in Post /\ post.kind # "review"
      BY TypesOfState DEF Explanation, Post, Sha, Local
    <3>. HIDE DEF post
    <3>. QED  BY <3>1, <3>2, SayMaps
  <2>2. CASE UNCHANGED posts
    BY <2>2, QuietMaps
  <2>. QED  BY <1>2, <2>1, <2>2 DEF Explain
<1>3. CASE Fail(r)
  BY <1>3, FailMaps
<1>4. CASE MarkRunning(r)
  BY <1>4, MarkRunningMaps
<1>5. CASE Finish(r)
  <2>. pc[r] \in {"finish", "finishMention"} /\ UNCHANGED posts
    BY <1>5 DEF Finish
  <2>1. CASE finish_review(mem[r].row, mem[r].calls, mem[r].result # "clean")
    BY <2>1, SaveMaps
  <2>2. CASE UNCHANGED reviews
    BY <2>2, QuietMaps
  <2>. QED  BY <1>5, <2>1, <2>2 DEF Finish
<1>6. CASE SendReview(r)
  <2>. pc[r] \in {"post", "repost"} /\ UNCHANGED reviews
    BY <1>6 DEF SendReview
  <2>1. CASE Send(r, build_review(r))
    <3>1. /\ build_review(r) \in Post /\ build_review(r).review = mem[r].row
          /\ build_review(r).kind = "review"
      BY <1>6, BuiltReview DEF SendReview
    <3>. QED  BY <2>1, <3>1, SendMaps
  <2>2. CASE UNCHANGED posts
    BY <2>2, QuietMaps
  <2>. QED  BY <1>6, <2>1, <2>2 DEF SendReview
<1>7. CASE SendDegraded(r)
  <2>. pc[r] \in {"post", "repost"} /\ UNCHANGED reviews
    BY <1>7 DEF SendDegraded
  <2>. DEFINE payload == degrade(build_review(r))
  <2>1. CASE Send(r, payload)
    <3>1. payload \in Post /\ payload.review = mem[r].row /\ payload.kind = "review"
      BY BuiltReview
    <3>. QED  BY <2>1, <3>1, SendMaps
  <2>2. CASE UNCHANGED posts
    BY <2>2, QuietMaps
  <2>. QED  BY <1>7, <2>1, <2>2 DEF SendDegraded
<1>8. CASE Record(r)
  BY <1>8, RecordMaps
<1>. QED  BY <1>1, <1>2, <1>3, <1>4, <1>5, <1>6, <1>7, <1>8 DEF JobStep

LEMMA MentionStepMaps ==
    ASSUME IInv, Mapped, Mapped', NEW r \in Request, MentionStep(r)
    PROVE  [Lifecycle!Next]_Lifecycle!vars
<1>1. CASE LatestFindings(r) \/ Classify(r) \/ FetchToAnswer(r) \/ Answer(r)
  BY <1>1, QuietMaps DEF LatestFindings, Classify, FetchToAnswer, Answer
<1>2. CASE PostReply(r)
  <2>. UNCHANGED reviews /\ mem[r] \in Local
    BY <1>2, TypesOfState DEF PostReply
  <2>1. CASE posts' = Append(posts, Reply(r))
    <3>1. Reply(r) \in Post /\ Reply(r).kind # "review"
      BY DEF Reply, Post, Local
    <3>. QED  BY <2>1, <3>1, SayMaps
  <2>2. CASE UNCHANGED posts
    BY <2>2, QuietMaps
  <2>. QED  BY <1>2, <2>1, <2>2 DEF PostReply
<1>3. CASE FinishMention(r)
  <2>. pc[r] \in {"finish", "finishMention"} /\ UNCHANGED posts
    BY <1>3 DEF FinishMention
  <2>1. CASE finish_review(mem[r].row, mem[r].calls, FALSE)
    BY <2>1, SaveMaps
  <2>2. CASE UNCHANGED reviews
    BY <2>2, QuietMaps
  <2>. QED  BY <1>3, <2>1, <2>2 DEF FinishMention
<1>. QED  BY <1>1, <1>2, <1>3 DEF MentionStep

LEMMA NextMaps ==
    ASSUME IInv, Mapped, Mapped', [Next]_vars
    PROVE  [Lifecycle!Next]_Lifecycle!vars
<1>1. CASE GitHub
  <2>1. UNCHANGED <<reviews, posts>>
    BY <1>1 DEF GitHub, HourPasses, Open, MarkReady, Reopen, Push, WriteComment, Deliver
  <2>. QED  BY <2>1, QuietMaps
<1>2. ASSUME NEW r \in Request, Receive(r) PROVE UNCHANGED Lifecycle!vars
  BY <1>2, QuietMaps DEF Receive
<1>3. ASSUME NEW r \in Request, Step(r) PROVE [Lifecycle!Next]_Lifecycle!vars
  <2>1. CASE LookupDelivery(r) \/ LookupHead(r) \/ CountMentions(r)
    BY <2>1, QuietMaps DEF LookupDelivery, LookupHead, CountMentions
  <2>2. CASE StartReview(r)
    BY <2>2, AcceptStepMaps DEF StartReview, HandlerLabels, Source
  <2>3. CASE StartMention(r)
    BY <2>3, AcceptStepMaps DEF StartMention, HandlerLabels, Source
  <2>4. CASE JobStep(r)
    BY <2>4, JobStepMaps
  <2>5. CASE MentionStep(r)
    BY <2>5, MentionStepMaps
  <2>. QED  BY <1>3, <2>1, <2>2, <2>3, <2>4, <2>5 DEF Step, HandlerStep
<1>4. CASE Crash
  BY <1>4, QuietMaps DEF Crash
<1>5. CASE UNCHANGED vars
  BY <1>5, QuietMaps DEF vars
<1>. QED  BY <1>1, <1>2, <1>3, <1>4, <1>5 DEF Next

LEMMA InitMaps == Init => Lifecycle!Init
<1>. SUFFICES ASSUME Init PROVE Lifecycle!Init
  OBVIOUS
<1>1. Mapped
  BY InitIInv, InvariantMaps
<1>2. Review = {}
  BY DEF Init, Review
<1>3. \A d \in Delivery : ReviewsOf(d) = {}
  BY <1>2 DEF ReviewsOf
<1>4. \A d \in Delivery : RecordOf(d) = "unrecorded" /\ Cardinality(PublishedFor(d)) = 0
  BY <1>1, <1>3 DEF Mapped
<1>. QED  BY <1>4 DEF Lifecycle!Init, RecordStatus, PublishedCount

\* The service implements ReviewLifecycle: a delivery is recorded at most once,
\* its record only moves forward, and at most one review of it is published, by
\* a run that has begun and has not failed.  Only an answered mention is ever
\* taken for failed, and only where the answer to a COMMIT may be lost.
THEOREM Refinement == Spec => ImplementsLifecycle
<1>1. IInv /\ IInv' /\ [Next]_vars => [Lifecycle!Next]_Lifecycle!vars
  <2>1. IInv' => Mapped'
    BY InvariantMaps, PTL
  <2>. QED  BY <2>1, InvariantMaps, NextMaps
<1>. QED  BY <1>1, InitMaps, Invariance, PTL DEF Spec, ImplementsLifecycle, Lifecycle!Spec

==============================================================================
