---------------------------- MODULE ServiceSafety ----------------------------
(***************************************************************************)
(* IInv is an inductive invariant of WebhookService, for every number of   *)
(* requests and deliveries and every bound, and the safety invariants      *)
(* follow from it.                                                         *)
(*                                                                         *)
(* A step of a task moves one coroutine and changes at most its own row,   *)
(* or adds at most one post about it.  TaskStep proves once that such a    *)
(* step keeps what IInv says of the others; each action then only has to   *)
(* show where it leaves its own task.                                      *)
(*                                                                         *)
(* SettlingInv is inductive beside it where nothing fails but what the     *)
(* code handles: what the table then tells of answers and of postings.     *)
(***************************************************************************)
EXTENDS ServiceInvariant, SequenceTheorems, FiniteSetTheorems, WellFoundedInduction, TLAPS

\* The coroutine r goes on at label, with the locals m.
Resumes(r, label, m) ==
    /\ pc' = [pc EXCEPT ![r] = label]
    /\ mem' = [mem EXCEPT ![r] = m]

Environment == <<cutoff, sent, pull, knowsSelf, crashes>>

-----------------------------------------------------------------------------
(* Sequences.                                                              *)

LEMMA Updated ==
    ASSUME NEW S, NEW s \in Seq(S), NEW i \in DOMAIN s, NEW e \in S
    PROVE  /\ [s EXCEPT ![i] = e] \in Seq(S)
           /\ Len([s EXCEPT ![i] = e]) = Len(s)
           /\ DOMAIN [s EXCEPT ![i] = e] = DOMAIN s
           /\ \A j \in DOMAIN s : [s EXCEPT ![i] = e][j] = IF j = i THEN e ELSE s[j]
<1>1. DOMAIN s = 1 .. Len(s)
  BY LenProperties
<1>. QED  BY <1>1, ExceptSeq, LenProperties

LEMMA Appended ==
    ASSUME NEW S, NEW s \in Seq(S), NEW e \in S
    PROVE  /\ Append(s, e) \in Seq(S)
           /\ Len(s) \in Nat
           /\ Len(Append(s, e)) = Len(s) + 1
           /\ DOMAIN s = 1 .. Len(s)
           /\ DOMAIN Append(s, e) = DOMAIN s \cup {Len(s) + 1}
           /\ Len(s) + 1 \notin DOMAIN s
           /\ \A j \in DOMAIN s : Append(s, e)[j] = s[j]
           /\ Append(s, e)[Len(s) + 1] = e
<1>1. Append(s, e) \in Seq(S) /\ Len(Append(s, e)) = Len(s) + 1
  BY AppendProperties
<1>2. Len(s) \in Nat /\ DOMAIN s = 1 .. Len(s)
  BY LenProperties
<1>3. DOMAIN Append(s, e) = 1 .. (Len(s) + 1)
  BY <1>1, LenProperties
<1>. QED  BY <1>1, <1>2, <1>3, AppendProperties

-----------------------------------------------------------------------------
(* One step of a task.                                                     *)

LEMMA TypesOfState ==
    ASSUME IInv
    PROVE  /\ reviews \in Seq(Row) /\ Len(reviews) \in Nat
           /\ Review = 1 .. Len(reviews)
           /\ \A i \in Review : reviews[i] \in Row
           /\ posts \in Seq(Post) /\ Len(posts) \in Nat
           /\ DOMAIN posts = 1 .. Len(posts)
           /\ \A k \in DOMAIN posts : posts[k] \in Post
           /\ pc \in [Request -> Labels] /\ mem \in [Request -> Local]
           /\ sent \in [Delivery -> Payload]
           /\ pull \in [open : BOOLEAN, draft : BOOLEAN, head : Sha]
<1>1. reviews \in Seq(Row) /\ posts \in Seq(Post)
  BY DEF IInv, TypeOK
<1>. QED  BY <1>1, LenProperties, ElementOfSeq DEF IInv, TypeOK, Review

\* The row of a task is its delivery's.
LEMMA TaskDelivery ==
    ASSUME IInv, NEW r \in Request, pc[r] \in TaskLabels
    PROVE  /\ mem[r].row \in Review
           /\ mem[r].delivery \in Delivery
<1>. QED  BY TypesOfState DEF IInv, TasksAreAt, At, Row

\* A step of the task r that changes at most its own row and adds at most posts
\* about it.
LEMMA TaskStep ==
    ASSUME IInv,
           NEW r \in Request, pc[r] \in TaskLabels,
           NEW label \in TaskLabels \cup {"done"}, NEW m \in Local,
           Resumes(r, label, m),
           label \in TaskLabels \/ m.calls = {},
           label \in TaskLabels => m.row = mem[r].row /\ At(label, m)',
           reviews' \in Seq(Row), DOMAIN reviews' = DOMAIN reviews,
           Len(reviews') = Len(reviews),
           \A i \in Review : i # mem[r].row => reviews'[i] = reviews[i],
           \A i \in Review : reviews'[i].delivery = reviews[i].delivery,
           posts' \in Seq(Post), DOMAIN posts \subseteq DOMAIN posts',
           \A k \in DOMAIN posts : posts'[k] = posts[k],
           \A k \in DOMAIN posts' \ DOMAIN posts : posts'[k].review = mem[r].row,
           PostsAreApart', PublishedIsOnRecord', RecordedPostingIsReal',
           UNCHANGED Environment
    PROVE  IInv'
<1>1. TypeOK'
  <2>1. pc' \in [Request -> Labels] /\ mem' \in [Request -> Local]
    BY TypesOfState DEF Resumes, Labels
  <2>. QED  BY <2>1 DEF IInv, TypeOK, Environment
<1>2. /\ \A q \in Request : q # r => pc'[q] = pc[q] /\ mem'[q] = mem[q]
      /\ pc'[r] = label /\ mem'[r] = m
  BY TypesOfState DEF Resumes
<1>3. RowsAreApart'
  BY DEF IInv, RowsAreApart, Review
<1>4. HandlersHaveDeliveries'
  BY <1>2 DEF IInv, HandlersHaveDeliveries, TaskLabels, HandlerLabels, JobLabels,
              MentionLabels
<1>5. TasksAreApart' /\ OthersHaveNoCalls'
  BY <1>2 DEF IInv, TasksAreApart, OthersHaveNoCalls
<1>6. TasksAreAt'
  <2>. SUFFICES ASSUME NEW q \in Request, pc'[q] \in TaskLabels
                PROVE  At(pc[q], mem[q])'
    BY DEF TasksAreAt
  <2>1. CASE q = r
    BY <1>2, <2>1
  <2>2. CASE q # r
    <3>1. pc'[q] = pc[q] /\ mem'[q] = mem[q] /\ At(pc[q], mem[q])
      BY <1>2, <2>2 DEF IInv, TasksAreAt
    <3>2. mem[q].row \in Review /\ mem[q].row # mem[r].row
      BY <2>2, <3>1 DEF IInv, TasksAreApart, At
    <3>3. reviews'[mem[q].row] = reviews[mem[q].row]
      BY <3>2
    <3>4. ReviewPosts(mem[q].row)' = ReviewPosts(mem[q].row)
      BY <3>1, <3>2 DEF ReviewPosts
    <3>5. \A k \in ReviewPosts(mem[q].row) : posts'[k] = posts[k]
      BY DEF ReviewPosts
    <3>. QED  BY <3>1, <3>2, <3>3, <3>4, <3>5 DEF At, Standing, Review
  <2>. QED  BY <2>1, <2>2
<1>. QED  BY <1>1, <1>3, <1>4, <1>5, <1>6 DEF IInv

\* It only moves on.
LEMMA QuietStep ==
    ASSUME IInv,
           NEW r \in Request, pc[r] \in TaskLabels,
           NEW label \in TaskLabels \cup {"done"}, NEW m \in Local,
           Resumes(r, label, m),
           label \in TaskLabels \/ m.calls = {},
           label \in TaskLabels => m.row = mem[r].row /\ At(label, m),
           UNCHANGED <<reviews, posts>>,
           UNCHANGED Environment
    PROVE  IInv'
<1>1. /\ UNCHANGED <<Review, PostsAreApart, PublishedIsOnRecord, RecordedPostingIsReal>>
      /\ At(label, m)' = At(label, m)
  BY DEF Review, PostsAreApart, PublishedIsOnRecord, RecordedPostingIsReal, At,
         Standing, ReviewPosts
<1>2. PostsAreApart' /\ PublishedIsOnRecord' /\ RecordedPostingIsReal'
  BY <1>1 DEF IInv
<1>3. label \in TaskLabels => m.row = mem[r].row /\ At(label, m)'
  BY <1>1
<1>. QED  BY <1>2, <1>3, TypesOfState, TaskStep

\* It writes its row.
LEMMA WriteStep ==
    ASSUME IInv,
           NEW r \in Request, pc[r] \in TaskLabels,
           NEW label \in TaskLabels \cup {"done"}, NEW m \in Local,
           Resumes(r, label, m),
           label \in TaskLabels \/ m.calls = {},
           NEW row \in Row, row.delivery = reviews[mem[r].row].delivery,
           reviews' = [reviews EXCEPT ![mem[r].row] = row],
           \/ ReviewPosts(mem[r].row) = {}
           \/ row.status \in {"running", "succeeded"},
           row.posted # 0 => /\ row.posted \in ReviewPosts(mem[r].row)
                             /\ posts[row.posted].comments = row.comments,
           label \in TaskLabels => m.row = mem[r].row /\ At(label, m)',
           UNCHANGED posts,
           UNCHANGED Environment
    PROVE  IInv'
<1>1. mem[r].row \in Review
  BY TaskDelivery
<1>2. /\ reviews' \in Seq(Row) /\ DOMAIN reviews' = DOMAIN reviews
      /\ Len(reviews') = Len(reviews)
      /\ \A i \in Review : reviews'[i] = IF i = mem[r].row THEN row ELSE reviews[i]
  BY <1>1, TypesOfState, Updated DEF Review
<1>3. \A i : ReviewPosts(i)' = ReviewPosts(i)
  BY DEF ReviewPosts
<1>4. PublishedIsOnRecord'
  BY <1>1, <1>2 DEF IInv, PublishedIsOnRecord, ReviewPosts, Review
<1>5. RecordedPostingIsReal'
  BY <1>1, <1>2, <1>3 DEF IInv, RecordedPostingIsReal, Review
<1>6. PostsAreApart'
  BY DEF IInv, PostsAreApart
<1>. QED  BY <1>1, <1>2, <1>4, <1>5, <1>6, TypesOfState, TaskStep DEF Review

\* It posts, and a review only when its row has none.
LEMMA PostStep ==
    ASSUME IInv,
           NEW r \in Request, pc[r] \in TaskLabels,
           NEW label \in TaskLabels \cup {"done"}, NEW m \in Local,
           Resumes(r, label, m),
           label \in TaskLabels \/ m.calls = {},
           NEW post \in Post, post.review = mem[r].row,
           posts' = Append(posts, post),
           post.kind = "review" => /\ ReviewPosts(mem[r].row) = {}
                                   /\ pc[r] \in Posting,
           label \in TaskLabels => m.row = mem[r].row /\ At(label, m)',
           UNCHANGED reviews,
           UNCHANGED Environment
    PROVE  IInv'
<1>1. mem[r].row \in Review /\ At(pc[r], mem[r])
  BY TaskDelivery DEF IInv, TasksAreAt
<1>2. /\ posts' \in Seq(Post)
      /\ DOMAIN posts' = DOMAIN posts \cup {Len(posts) + 1}
      /\ Len(posts) + 1 \notin DOMAIN posts
      /\ \A k \in DOMAIN posts : posts'[k] = posts[k]
      /\ posts'[Len(posts) + 1] = post
  BY TypesOfState, Appended
<1>3. PostsAreApart'
  BY <1>2 DEF IInv, PostsAreApart, ReviewPosts
<1>4. PublishedIsOnRecord'
  BY <1>1, <1>2 DEF IInv, PublishedIsOnRecord, At, Standing, Review
<1>5. RecordedPostingIsReal'
  BY <1>2 DEF IInv, RecordedPostingIsReal, ReviewPosts, Review
<1>. QED  BY <1>2, <1>3, <1>4, <1>5, TypesOfState, TaskStep

\* It goes on elsewhere with the locals it has.
LEMMA GotoStep ==
    ASSUME IInv,
           NEW r \in Request, pc[r] \in TaskLabels,
           NEW label \in TaskLabels, Goto(r, label), At(label, mem[r]),
           UNCHANGED <<mem, reviews, posts>>,
           UNCHANGED Environment
    PROVE  IInv'
<1>1. Resumes(r, label, mem[r]) /\ mem[r] \in Local
  BY TypesOfState DEF Resumes, Goto
<1>. QED  BY <1>1, QuietStep

LEMMA ReturnResumes ==
    ASSUME NEW r \in Request, Return(r)
    PROVE  Resumes(r, "done", Blank) /\ Blank \in Local /\ Blank.calls = {}
<1>. QED  BY DEF Return, Goto, Resumes, Blank, Local, Result

\* It ends.
LEMMA ReturnStep ==
    ASSUME IInv,
           NEW r \in Request, pc[r] \in TaskLabels, Return(r),
           UNCHANGED <<reviews, posts>>,
           UNCHANGED Environment
    PROVE  IInv'
<1>1. "done" \notin TaskLabels
  BY DEF TaskLabels, JobLabels, MentionLabels
<1>. QED  BY <1>1, ReturnResumes, QuietStep

LEMMA TaskAtLabel ==
    ASSUME IInv, NEW r \in Request, pc[r] \in TaskLabels
    PROVE  At(pc[r], mem[r])
<1>. QED  BY DEF IInv, TasksAreAt

LEMMA PostsAppended ==
    ASSUME IInv, NEW post \in Post, posts' = Append(posts, post)
    PROVE  /\ posts'[Len(posts) + 1] = post
           /\ \A i : ReviewPosts(i)' =
                IF post.kind = "review" /\ post.review = i
                THEN ReviewPosts(i) \cup {Len(posts) + 1} ELSE ReviewPosts(i)
<1>1. /\ DOMAIN posts' = DOMAIN posts \cup {Len(posts) + 1}
      /\ Len(posts) + 1 \notin DOMAIN posts
      /\ \A k \in DOMAIN posts : posts'[k] = posts[k]
      /\ posts'[Len(posts) + 1] = post
  BY TypesOfState, Appended
<1>. QED  BY <1>1 DEF ReviewPosts

\* It posts something that is not a review.
LEMMA SayStep ==
    ASSUME IInv,
           NEW r \in Request, pc[r] \in TaskLabels,
           NEW label \in TaskLabels \cup {"done"}, NEW m \in Local,
           Resumes(r, label, m),
           label \in TaskLabels \/ m.calls = {},
           NEW post \in Post, post.review = mem[r].row, post.kind # "review",
           posts' = Append(posts, post),
           label \in TaskLabels => /\ m.row = mem[r].row
                                   /\ label # "record"
                                   /\ At(label, m),
           UNCHANGED reviews,
           UNCHANGED Environment
    PROVE  IInv'
<1>1. ReviewPosts(m.row)' = ReviewPosts(m.row)
  BY PostsAppended
<1>2. label \in TaskLabels => m.row = mem[r].row /\ At(label, m)'
  BY <1>1 DEF At, Standing, Review
<1>. QED  BY <1>2, PostStep

-----------------------------------------------------------------------------
(* The actions of ReviewJob.                                               *)

LEMMA FetchStep ==
    ASSUME IInv, NEW r \in Request, Fetch(r), UNCHANGED <<knowsSelf, crashes>>
    PROVE  IInv'
<1>. pc[r] = "fetch" /\ pc[r] \in TaskLabels /\ UNCHANGED Environment
  BY DEF Fetch, TaskLabels, JobLabels, Environment
<1>. {"markRunning", "explain", "fail"} \subseteq TaskLabels
  BY DEF TaskLabels, JobLabels
<1>. DEFINE fetched == [mem[r] EXCEPT !.diff = pull.head]
<1>1. /\ fetched \in Local
      /\ fetched.row = mem[r].row /\ fetched.delivery = mem[r].delivery
  BY TypesOfState, ZenonT(60) DEF Local
<1>2. At("explain", mem[r]) /\ At("fail", mem[r]) /\ At("markRunning", fetched)
  BY <1>1, TaskAtLabel DEF At, Standing, Unbegun, Unfinished, Posting, MentionLabels
<1>3. CASE Goto(r, "markRunning") /\ mem' = [mem EXCEPT ![r].diff = pull.head]
  <2>1. Resumes(r, "markRunning", fetched)
    BY <1>3 DEF Resumes, Goto
  <2>. QED  BY <1>1, <1>2, <2>1, QuietStep DEF Fetch
<1>4. CASE (Goto(r, "explain") \/ Goto(r, "fail")) /\ UNCHANGED mem
  BY <1>2, <1>4, GotoStep DEF Fetch
<1>5. CASE Return(r)
  BY <1>5, ReturnStep DEF Fetch
<1>. QED  BY <1>3, <1>4, <1>5 DEF Fetch

LEMMA ExplainStep ==
    ASSUME IInv, NEW r \in Request, Explain(r), UNCHANGED <<knowsSelf, crashes>>
    PROVE  IInv'
<1>. pc[r] = "explain" /\ pc[r] \in TaskLabels /\ UNCHANGED Environment
  BY DEF Explain, TaskLabels, JobLabels, Environment
<1>. "fail" \in TaskLabels /\ "done" \notin TaskLabels
  BY DEF TaskLabels, JobLabels, MentionLabels
<1>1. At("fail", mem[r])
  BY TaskAtLabel DEF At, Standing, Unbegun, Unfinished, Posting, MentionLabels
<1>2. CASE Publish(Explanation(r))
  <2>. DEFINE post == [Explanation(r) EXCEPT
                         !.commit = IF @ = NoSha THEN pull.head ELSE @]
  <2>1. posts' = Append(posts, post)
    BY <1>2 DEF Publish
  <2>2. post \in Post /\ post.review = mem[r].row /\ post.kind = "explanation"
    BY TypesOfState DEF Explanation, Post, Sha, Local
  <2>3. CASE Goto(r, "fail") /\ UNCHANGED mem
    <3>1. Resumes(r, "fail", mem[r]) /\ mem[r] \in Local
      BY <2>3, TypesOfState DEF Resumes, Goto
    <3>. QED  BY <1>1, <2>1, <2>2, <3>1, SayStep DEF Explain
  <2>4. CASE Return(r)
    BY <2>1, <2>2, <2>4, ReturnResumes, SayStep DEF Explain
  <2>. QED  BY <1>2, <2>3, <2>4 DEF Explain
<1>3. CASE Goto(r, "fail") /\ UNCHANGED <<mem, posts>>
  BY <1>1, <1>3, GotoStep DEF Explain
<1>4. CASE Return(r) /\ UNCHANGED posts
  BY <1>4, ReturnStep DEF Explain
<1>. QED  BY <1>2, <1>3, <1>4 DEF Explain

\* What every write of a task's row starts from.
LEMMA RowOfTask ==
    ASSUME IInv, NEW r \in Request, pc[r] \in TaskLabels
    PROVE  /\ mem[r].row \in Review /\ reviews[mem[r].row] \in Row
           /\ reviews[mem[r].row].posted # 0 =>
                /\ reviews[mem[r].row].posted \in ReviewPosts(mem[r].row)
                /\ posts[reviews[mem[r].row].posted].comments
                     = reviews[mem[r].row].comments
<1>. QED  BY TaskDelivery, TypesOfState DEF IInv, RecordedPostingIsReal

LEMMA FailStep ==
    ASSUME IInv, NEW r \in Request, Fail(r), UNCHANGED <<knowsSelf, crashes>>
    PROVE  IInv'
<1>. pc[r] = "fail" /\ pc[r] \in TaskLabels /\ UNCHANGED Environment
  BY DEF Fail, TaskLabels, JobLabels, Environment
<1>1. CASE fail_review(mem[r].row)
  <2>. DEFINE row == [reviews[mem[r].row] EXCEPT !.status = "failed"]
  <2>1. row \in Row /\ row.delivery = reviews[mem[r].row].delivery
        /\ row.posted = reviews[mem[r].row].posted
        /\ row.comments = reviews[mem[r].row].comments
    BY RowOfTask DEF Row, Status
  <2>2. reviews' = [reviews EXCEPT ![mem[r].row] = row]
    BY <1>1 DEF fail_review
  <2>3. ReviewPosts(mem[r].row) = {}
    BY TaskAtLabel DEF At
  <2>4. "done" \notin TaskLabels
    BY DEF TaskLabels, JobLabels, MentionLabels
  <2>5. Return(r) /\ UNCHANGED posts
    BY DEF Fail
  <2>. HIDE DEF row
  <2>. QED  BY <2>1, <2>2, <2>3, <2>4, <2>5, RowOfTask, ReturnResumes, WriteStep
<1>2. CASE UNCHANGED reviews
  BY <1>2, ReturnStep DEF Fail
<1>. QED  BY <1>1, <1>2 DEF Fail

LEMMA MarkRunningStep ==
    ASSUME IInv, NEW r \in Request, MarkRunning(r), UNCHANGED <<knowsSelf, crashes>>
    PROVE  IInv'
<1>. pc[r] = "markRunning" /\ pc[r] \in TaskLabels /\ UNCHANGED Environment
  BY DEF MarkRunning, TaskLabels, JobLabels, Environment
<1>1. CASE mark_running(mem[r].row)
  <2>. DEFINE row == [reviews[mem[r].row] EXCEPT !.status = "running"]
  <2>1. /\ row \in Row /\ row.delivery = reviews[mem[r].row].delivery
        /\ row.status = "running" /\ row.calls = reviews[mem[r].row].calls
        /\ row.posted = reviews[mem[r].row].posted
        /\ row.comments = reviews[mem[r].row].comments
    BY RowOfTask DEF Row, Status
  <2>2. reviews' = [reviews EXCEPT ![mem[r].row] = row]
    BY <1>1 DEF mark_running
  <2>. HIDE DEF row
  <2>3. At("markRunning", mem[r])
    BY TaskAtLabel
  <2>4. UNCHANGED posts
    BY DEF MarkRunning
  <2>5. CASE Goto(r, "review") /\ UNCHANGED mem
    <3>1. mem[r].row \in Review' /\ reviews'[mem[r].row] = row
      BY <2>2, RowOfTask DEF Review
    <3>2. mem'[r] = mem[r] /\ ReviewPosts(mem[r].row)' = ReviewPosts(mem[r].row)
      BY <2>4, <2>5 DEF ReviewPosts
    <3>3. At("review", mem[r])'
      BY <2>1, <2>3, <3>1, <3>2
      DEF At, Standing, Unbegun, Unfinished, Posting, MentionLabels
    <3>4. Resumes(r, "review", mem[r]) /\ mem[r] \in Local /\ "review" \in TaskLabels
      BY <2>5, TypesOfState DEF Resumes, Goto, TaskLabels, JobLabels
    <3>. QED  BY <2>1, <2>2, <2>4, <2>5, <3>3, <3>4, RowOfTask, WriteStep
  <2>6. CASE Return(r)
    <3>1. "done" \notin TaskLabels
      BY DEF TaskLabels, JobLabels, MentionLabels
    <3>. QED  BY <2>1, <2>2, <2>4, <2>6, <3>1, RowOfTask, ReturnResumes, WriteStep
  <2>. QED  BY <1>1, <2>5, <2>6 DEF MarkRunning
<1>2. CASE Return(r) /\ UNCHANGED reviews
  BY <1>2, ReturnStep DEF MarkRunning
<1>. QED  BY <1>1, <1>2 DEF MarkRunning

LEMMA RunGraphStep ==
    ASSUME IInv, NEW r \in Request, RunGraph(r), UNCHANGED <<knowsSelf, crashes>>
    PROVE  IInv'
<1>. pc[r] = "review" /\ pc[r] \in TaskLabels /\ UNCHANGED Environment
  BY DEF RunGraph, TaskLabels, JobLabels, Environment
<1>. "finish" \in TaskLabels /\ "fail" \in TaskLabels
  BY DEF TaskLabels, JobLabels
<1>1. At("review", mem[r]) /\ At("fail", mem[r])
  BY TaskAtLabel DEF At, Standing, Unbegun, Unfinished, Posting, MentionLabels
<1>2. ASSUME NEW result \in Result \ {"none"}, Goto(r, "finish"),
             mem' = [mem EXCEPT ![r].result = result, ![r].calls = @ \cup {"graph"}]
      PROVE  IInv'
  <2>. DEFINE m == [mem[r] EXCEPT !.result = result, !.calls = @ \cup {"graph"}]
  <2>. mem[r] \in Local /\ mem[r].calls \cup {"graph"} \in SUBSET Call
    BY TypesOfState DEF Local, Call
  <2>1. /\ m \in Local /\ m.row = mem[r].row /\ m.delivery = mem[r].delivery
        /\ "graph" \in m.calls
    BY DEF Local
  <2>2. Resumes(r, "finish", m)
    BY <1>2, TypesOfState DEF Resumes, Goto
  <2>. HIDE DEF m
  <2>3. At("finish", m)
    BY <1>1, <2>1 DEF At, Unbegun, Unfinished, Posting, MentionLabels
  <2>. QED  BY <2>1, <2>2, <2>3, QuietStep DEF RunGraph
<1>3. CASE Goto(r, "fail") /\ UNCHANGED mem
  BY <1>1, <1>3, GotoStep DEF RunGraph
<1>. QED  BY <1>2, <1>3 DEF RunGraph

LEMMA FinishStep ==
    ASSUME IInv, NEW r \in Request, Finish(r), UNCHANGED <<knowsSelf, crashes>>
    PROVE  IInv'
<1>. pc[r] = "finish" /\ pc[r] \in TaskLabels /\ UNCHANGED Environment
  BY DEF Finish, TaskLabels, JobLabels, Environment
<1>. /\ "post" \in TaskLabels /\ Goto(r, "post") /\ UNCHANGED <<mem, posts>>
     /\ mem[r] \in Local
  BY TypesOfState DEF TaskLabels, JobLabels, Finish
<1>1. At("finish", mem[r])
  BY TaskAtLabel
<1>2. CASE finish_review(mem[r].row, mem[r].calls, mem[r].result # "clean")
  <2>. DEFINE row == [reviews[mem[r].row] EXCEPT !.status = "succeeded",
                                                 !.calls = @ \cup mem[r].calls,
                                                 !.findings = mem[r].result # "clean"]
  <2>1. reviews[mem[r].row] \in Row
        /\ reviews[mem[r].row].calls \cup mem[r].calls \in SUBSET Call
        /\ (mem[r].result # "clean") \in BOOLEAN
    BY RowOfTask DEF Row, Local
  <2>2. /\ row \in Row /\ row.delivery = reviews[mem[r].row].delivery
        /\ row.status = "succeeded"
        /\ row.calls = reviews[mem[r].row].calls \cup mem[r].calls
        /\ row.posted = reviews[mem[r].row].posted
        /\ row.comments = reviews[mem[r].row].comments
    BY <2>1 DEF Row, Status
  <2>3. reviews' = [reviews EXCEPT ![mem[r].row] = row]
    BY <1>2 DEF finish_review
  <2>. HIDE DEF row
  <2>4. At("post", mem[r])'
    <3>1. mem[r].row \in Review' /\ reviews'[mem[r].row] = row
      BY <2>3, RowOfTask DEF Review
    <3>2. mem'[r] = mem[r] /\ ReviewPosts(mem[r].row)' = ReviewPosts(mem[r].row)
      BY DEF ReviewPosts
    <3>. QED  BY <1>1, <2>2, <3>1, <3>2
              DEF At, Standing, Unbegun, Unfinished, Posting, MentionLabels
  <2>5. Resumes(r, "post", mem[r])
    BY TypesOfState DEF Resumes, Goto
  <2>. QED  BY <2>2, <2>3, <2>4, <2>5, RowOfTask, WriteStep
<1>3. CASE UNCHANGED reviews
  <2>1. At("post", mem[r])
    BY <1>1 DEF At, Standing, Unbegun, Unfinished, Posting, MentionLabels
  <2>. QED  BY <1>3, <2>1, GotoStep
<1>. QED  BY <1>2, <1>3 DEF Finish

LEMMA SendStep ==
    ASSUME IInv, NEW r \in Request, pc[r] \in {"post", "repost"},
           NEW payload \in Post,
           payload.review = mem[r].row, payload.kind = "review",
           Send(r, payload),
           UNCHANGED reviews,
           UNCHANGED Environment
    PROVE  IInv'
<1>. pc[r] \in TaskLabels /\ "record" \in TaskLabels /\ "done" \notin TaskLabels
  BY DEF TaskLabels, JobLabels, MentionLabels
<1>1. At(pc[r], mem[r]) /\ pc[r] \in Posting /\ ReviewPosts(mem[r].row) = {}
  BY TaskAtLabel DEF At, Posting
<1>2. CASE Publish(payload)
  <2>. DEFINE post == [payload EXCEPT !.commit = IF @ = NoSha THEN pull.head ELSE @]
  <2>1. posts' = Append(posts, post)
    BY <1>2 DEF Publish
  <2>2. /\ post \in Post /\ post.review = mem[r].row /\ post.kind = "review"
        /\ post.comments = payload.comments
    BY TypesOfState DEF Post, Sha
  <2>. HIDE DEF post
  <2>3. ASSUME Goto(r, "record"),
               mem' = [mem EXCEPT ![r].posted = Len(posts) + 1,
                                  ![r].comments = payload.comments]
        PROVE  IInv'
    <3>1. Len(posts) + 1 \in Nat /\ payload.comments \in {0, 1} /\ mem[r] \in Local
      BY TypesOfState DEF Post
    <3>. DEFINE sending == [mem[r] EXCEPT !.posted = Len(posts) + 1,
                                          !.comments = payload.comments]
    <3>2. /\ sending \in Local
          /\ sending.row = mem[r].row /\ sending.delivery = mem[r].delivery
          /\ sending.posted = Len(posts) + 1 /\ sending.comments = payload.comments
      BY <3>1 DEF Local
    <3>3. mem' = [mem EXCEPT ![r] = sending]
      BY <2>3, TypesOfState
    <3>. HIDE DEF sending
    <3>4. PICK m \in Local :
            /\ mem' = [mem EXCEPT ![r] = m]
            /\ m.row = mem[r].row /\ m.delivery = mem[r].delivery
            /\ m.posted = Len(posts) + 1 /\ m.comments = payload.comments
      BY <3>2, <3>3
    <3>5. Resumes(r, "record", m)
      BY <2>3, <3>4, TypesOfState DEF Resumes, Goto
    <3>6. /\ posts'[Len(posts) + 1] = post
          /\ Len(posts) + 1 \in ReviewPosts(m.row)'
      BY <2>1, <2>2, <3>4, PostsAppended
    <3>7. At("record", m)'
      BY <1>1, <2>2, <3>4, <3>6
      DEF At, Posting, Unbegun, Unfinished, MentionLabels, Review
    <3>. QED  BY <1>1, <2>1, <2>2, <3>4, <3>5, <3>7, PostStep
  <2>4. CASE Return(r)
    BY <1>1, <2>1, <2>2, <2>4, ReturnResumes, PostStep
  <2>. QED  BY <1>2, <2>3, <2>4 DEF Send
<1>3. CASE Return(r) /\ UNCHANGED posts
  BY <1>3, ReturnStep
<1>. QED  BY <1>2, <1>3 DEF Send

LEMMA BuiltReview ==
    ASSUME IInv, NEW r \in Request, pc[r] \in {"post", "repost"}
    PROVE  /\ build_review(r) \in Post
           /\ build_review(r).review = mem[r].row
           /\ build_review(r).kind = "review"
           /\ degrade(build_review(r)) \in Post
           /\ degrade(build_review(r)).review = mem[r].row
           /\ degrade(build_review(r)).kind = "review"
<1>. pc[r] \in TaskLabels
  BY DEF TaskLabels, JobLabels
<1>1. mem[r].delivery \in Delivery /\ mem[r] \in Local
  BY TaskDelivery, TypesOfState
<1>2. RefHead(r) \in Sha \cup {NoSha}
  BY <1>1, TypesOfState DEF RefHead, Payload
<1>3. /\ build_review(r) \in Post /\ build_review(r).review = mem[r].row
      /\ build_review(r).kind = "review"
  BY <1>1, <1>2 DEF build_review, Post, Inline, Local
<1>. HIDE DEF build_review
<1>. QED  BY <1>3 DEF degrade, Post

LEMMA SendReviewStep ==
    ASSUME IInv, NEW r \in Request, SendReview(r), UNCHANGED <<knowsSelf, crashes>>
    PROVE  IInv'
<1>. pc[r] = "post" /\ pc[r] \in TaskLabels /\ UNCHANGED Environment
  BY DEF SendReview, TaskLabels, JobLabels, Environment
<1>. "repost" \in TaskLabels
  BY DEF TaskLabels, JobLabels
<1>1. At("repost", mem[r])
  BY TaskAtLabel DEF At, Standing, Unbegun, Unfinished, Posting, MentionLabels
<1>2. /\ build_review(r) \in Post /\ build_review(r).review = mem[r].row
      /\ build_review(r).kind = "review"
  BY BuiltReview
<1>3. CASE Send(r, build_review(r))
  BY <1>2, <1>3, SendStep DEF SendReview
<1>4. CASE Goto(r, "repost") /\ UNCHANGED <<mem, posts>>
  BY <1>1, <1>4, GotoStep DEF SendReview
<1>5. CASE Return(r) /\ UNCHANGED posts
  BY <1>5, ReturnStep DEF SendReview
<1>. QED  BY <1>3, <1>4, <1>5 DEF SendReview

LEMMA SendDegradedStep ==
    ASSUME IInv, NEW r \in Request, SendDegraded(r), UNCHANGED <<knowsSelf, crashes>>
    PROVE  IInv'
<1>. pc[r] = "repost" /\ pc[r] \in TaskLabels /\ UNCHANGED Environment
  BY DEF SendDegraded, TaskLabels, JobLabels, Environment
<1>. DEFINE payload == degrade(build_review(r))
<1>1. payload \in Post /\ payload.review = mem[r].row /\ payload.kind = "review"
  BY BuiltReview
<1>2. CASE Send(r, payload)
  BY <1>1, <1>2, SendStep DEF SendDegraded
<1>3. CASE Return(r) /\ UNCHANGED posts
  BY <1>3, ReturnStep DEF SendDegraded
<1>. QED  BY <1>2, <1>3 DEF SendDegraded

LEMMA RecordStep ==
    ASSUME IInv, NEW r \in Request, Record(r), UNCHANGED <<knowsSelf, crashes>>
    PROVE  IInv'
<1>. pc[r] = "record" /\ pc[r] \in TaskLabels /\ UNCHANGED Environment
  BY DEF Record, TaskLabels, JobLabels, Environment
<1>1. CASE record_posted_review(mem[r].row, mem[r].posted, mem[r].comments)
  <2>. DEFINE row == [reviews[mem[r].row] EXCEPT !.posted = mem[r].posted,
                                                 !.comments = mem[r].comments]
  <2>1. /\ mem[r] \in Local /\ reviews[mem[r].row] \in Row
        /\ mem[r].posted \in Nat /\ mem[r].comments \in {0, 1}
    BY RowOfTask, TypesOfState DEF Local
  <2>2. /\ row \in Row /\ row.delivery = reviews[mem[r].row].delivery
        /\ row.status = reviews[mem[r].row].status
        /\ row.posted = mem[r].posted /\ row.comments = mem[r].comments
    BY <2>1 DEF Row
  <2>3. reviews' = [reviews EXCEPT ![mem[r].row] = row]
    BY <1>1 DEF record_posted_review
  <2>. HIDE DEF row
  <2>4. /\ row.status \in {"running", "succeeded"}
        /\ row.posted \in ReviewPosts(mem[r].row)
        /\ posts[row.posted].comments = row.comments
    BY <2>2, TaskAtLabel DEF At, Standing, Posting
  <2>5. "done" \notin TaskLabels
    BY DEF TaskLabels, JobLabels, MentionLabels
  <2>. QED  BY <2>2, <2>3, <2>4, <2>5, ReturnResumes, WriteStep DEF Record
<1>2. CASE UNCHANGED reviews
  BY <1>2, ReturnStep DEF Record
<1>. QED  BY <1>1, <1>2 DEF Record

-----------------------------------------------------------------------------
(* The actions of MentionDispatch.                                         *)

\* A bounded set of naturals has a largest element.
LEMMA LargestExists ==
    ASSUME NEW n \in Nat, NEW ids \in SUBSET (1 .. n), ids # {}
    PROVE  \E x \in ids : \A y \in ids : x >= y
<1>. DEFINE below == {ss \in Nat \X Nat : ss[1] < ss[2]}
            distances == {n - i : i \in ids}
<1>1. IsWellFoundedOn(below, Nat)
  BY NatLessThanWellFounded DEF OpToRel
<1>2. distances \subseteq Nat /\ distances # {}
  <2>1. \A i \in ids : n - i \in Nat
    OBVIOUS
  <2>2. PICK i \in ids : TRUE
    OBVIOUS
  <2>. QED  BY <2>1, <2>2
<1>3. \A i, j \in Nat : <<i, j>> \in below <=> i < j
  OBVIOUS
<1>. HIDE DEF below
<1>4. PICK d \in distances : \A e \in distances : <<e, d>> \notin below
  BY <1>1, <1>2, WFMin
<1>5. \A e \in distances : d <= e
  <2>. SUFFICES ASSUME NEW e \in distances PROVE d <= e
    OBVIOUS
  <2>1. d \in Nat /\ e \in Nat /\ ~(e < d)
    BY <1>2, <1>4, <1>3
  <2>. QED  BY <2>1
<1>6. PICK x \in ids : d = n - x
  OBVIOUS
<1>7. \A y \in ids : n - y \in distances
  OBVIOUS
<1>8. \A y \in ids : x >= y
  <2>. SUFFICES ASSUME NEW y \in ids PROVE x >= y
    OBVIOUS
  <2>1. n - x <= n - y
    BY <1>5, <1>6, <1>7
  <2>2. x \in 1 .. n /\ y \in 1 .. n
    OBVIOUS
  <2>. HIDE DEF distances
  <2>. QED  BY <2>1, <2>2
<1>. QED  BY <1>8

\* A lookup returns a review id or 0.
LEMMA NewestType ==
    ASSUME NEW n \in Nat, NEW ids \in SUBSET (1 .. n)
    PROVE  Newest(ids) \in ids \cup {0}
<1>1. CASE ids = {}
  BY <1>1 DEF Newest
<1>2. CASE ids # {}
  <2>1. Max(ids) \in ids
    BY <1>2, LargestExists DEF Max
  <2>. QED  BY <1>2, <2>1 DEF Newest
<1>. QED  BY <1>1, <1>2

LEMMA LatestFindingsType ==
    ASSUME IInv
    PROVE  latest_findings \in Nat
<1>. DEFINE ids == {i \in Review : /\ reviews[i].status = "succeeded"
                                   /\ reviews[i].source # "mention"}
<1>1. ids \in SUBSET (1 .. Len(reviews)) /\ Len(reviews) \in Nat
  BY TypesOfState
<1>2. Newest(ids) \in ids \cup {0}
  BY <1>1, NewestType
<1>. QED  BY <1>1, <1>2 DEF latest_findings

LEMMA LatestFindingsStep ==
    ASSUME IInv, NEW r \in Request, LatestFindings(r), UNCHANGED <<knowsSelf, crashes>>
    PROVE  IInv'
<1>. pc[r] = "latestFindings" /\ pc[r] \in TaskLabels /\ UNCHANGED Environment
  BY DEF LatestFindings, TaskLabels, MentionLabels, Environment
<1>. "classify" \in TaskLabels /\ "fail" \in TaskLabels /\ mem[r] \in Local
  BY TypesOfState DEF TaskLabels, JobLabels, MentionLabels
<1>1. At("classify", mem[r]) /\ At("fail", mem[r])
  BY TaskAtLabel DEF At, Standing, Unbegun, Unfinished, Posting, MentionLabels
<1>2. CASE Goto(r, "classify") /\ mem' = [mem EXCEPT ![r].prior = latest_findings]
  <2>. DEFINE m == [mem[r] EXCEPT !.prior = latest_findings]
  <2>1. /\ m \in Local /\ m.row = mem[r].row /\ m.delivery = mem[r].delivery
        /\ m.calls = mem[r].calls
    BY LatestFindingsType DEF Local
  <2>2. Resumes(r, "classify", m)
    BY <1>2 DEF Resumes, Goto
  <2>. HIDE DEF m
  <2>3. At("classify", m)
    BY <1>1, <2>1 DEF At
  <2>. QED  BY <2>1, <2>2, <2>3, QuietStep DEF LatestFindings
<1>3. CASE Goto(r, "fail") /\ UNCHANGED mem
  BY <1>1, <1>3, GotoStep DEF LatestFindings
<1>. QED  BY <1>2, <1>3 DEF LatestFindings

LEMMA ClassifyStep ==
    ASSUME IInv, NEW r \in Request, Classify(r), UNCHANGED <<knowsSelf, crashes>>
    PROVE  IInv'
<1>. pc[r] = "classify" /\ pc[r] \in TaskLabels /\ UNCHANGED Environment
  BY DEF Classify, TaskLabels, MentionLabels, Environment
<1>. DEFINE Ahead == {"fetch", "reply", "fetchToAnswer"}
<1>1. \A action : Route(r, action) \in Ahead
  BY DEF Route
<1>2. Ahead \subseteq TaskLabels /\ "fail" \in TaskLabels
  BY DEF TaskLabels, JobLabels, MentionLabels
<1>3. At("fail", mem[r]) /\ \A label \in Ahead : At(label, mem[r])
  BY TaskAtLabel DEF At, Standing, Unbegun, Unfinished, Posting, MentionLabels
<1>4. CASE Goto(r, Route(r, "full_review")) /\ UNCHANGED mem
  BY <1>1, <1>2, <1>3, <1>4, GotoStep DEF Classify
<1>5. ASSUME NEW action \in Action, NEW target \in BOOLEAN,
             mem' = [mem EXCEPT ![r].calls = {"intent"}, ![r].ask = Ask(action, target)],
             Goto(r, Route(r, action))
      PROVE  IInv'
  <2>. DEFINE m == [mem[r] EXCEPT !.calls = {"intent"}, !.ask = Ask(action, target)]
  <2>1. mem[r] \in Local /\ Ask(action, target) \in {"answer", "reconsider"}
        /\ {"intent"} \in SUBSET Call
    BY TypesOfState DEF Ask, Call
  <2>2. /\ m \in Local /\ m.row = mem[r].row /\ m.delivery = mem[r].delivery
        /\ "graph" \notin m.calls
    BY <2>1 DEF Local
  <2>3. Resumes(r, Route(r, action), m)
    BY <1>5, TypesOfState DEF Resumes, Goto
  <2>. HIDE DEF m
  <2>4. At(Route(r, action), m)
    BY <1>1, <1>3, <2>2 DEF At
  <2>. QED  BY <1>1, <1>2, <2>2, <2>3, <2>4, QuietStep DEF Classify
<1>6. CASE Goto(r, "fail") /\ UNCHANGED mem
  BY <1>2, <1>3, <1>6, GotoStep DEF Classify
<1>. QED  BY <1>4, <1>5, <1>6 DEF Classify

LEMMA FetchToAnswerStep ==
    ASSUME IInv, NEW r \in Request, FetchToAnswer(r), UNCHANGED <<knowsSelf, crashes>>
    PROVE  IInv'
<1>. pc[r] = "fetchToAnswer" /\ pc[r] \in TaskLabels /\ UNCHANGED Environment
  BY DEF FetchToAnswer, TaskLabels, MentionLabels, Environment
<1>. DEFINE Ahead == {"answer", "finishMention", "fail"}
<1>1. Ahead \subseteq TaskLabels
  BY DEF TaskLabels, JobLabels, MentionLabels
<1>2. \A label \in Ahead : At(label, mem[r])
  BY TaskAtLabel DEF At, Standing, Unbegun, Unfinished, Posting, MentionLabels
<1>3. CASE Goto(r, "answer") /\ mem' = [mem EXCEPT ![r].diff = pull.head]
  <2>. DEFINE m == [mem[r] EXCEPT !.diff = pull.head]
  <2>1. /\ m \in Local /\ m.row = mem[r].row /\ m.delivery = mem[r].delivery
        /\ m.calls = mem[r].calls
    BY TypesOfState, ZenonT(60) DEF Local
  <2>2. Resumes(r, "answer", m)
    BY <1>3 DEF Resumes, Goto
  <2>. HIDE DEF m
  <2>3. At("answer", m)
    BY <1>2, <2>1 DEF At
  <2>. QED  BY <1>1, <2>1, <2>2, <2>3, QuietStep DEF FetchToAnswer
<1>4. CASE (Goto(r, "finishMention") \/ Goto(r, "fail")) /\ UNCHANGED mem
  BY <1>1, <1>2, <1>4, GotoStep DEF FetchToAnswer
<1>. QED  BY <1>3, <1>4 DEF FetchToAnswer

LEMMA AnswerStep ==
    ASSUME IInv, NEW r \in Request, Answer(r), UNCHANGED <<knowsSelf, crashes>>
    PROVE  IInv'
<1>. pc[r] = "answer" /\ pc[r] \in TaskLabels /\ UNCHANGED Environment
  BY DEF Answer, TaskLabels, MentionLabels, Environment
<1>. DEFINE Ahead == {"reply", "finishMention", "fail"}
<1>1. Ahead \subseteq TaskLabels
  BY DEF TaskLabels, JobLabels, MentionLabels
<1>2. \A label \in Ahead : At(label, mem[r])
  BY TaskAtLabel DEF At, Standing, Unbegun, Unfinished, Posting, MentionLabels
<1>3. ASSUME NEW label \in {"reply", "finishMention"}, Goto(r, label),
             mem' = [mem EXCEPT ![r].calls = @ \cup {mem[r].ask}]
      PROVE  IInv'
  <2>. DEFINE m == [mem[r] EXCEPT !.calls = @ \cup {mem[r].ask}]
  <2>1. mem[r] \in Local /\ mem[r].calls \cup {mem[r].ask} \in SUBSET Call
    BY TypesOfState DEF Local, Call
  <2>2. /\ m \in Local /\ m.row = mem[r].row /\ m.delivery = mem[r].delivery
        /\ "graph" \notin m.calls
    <3>1. "graph" \notin mem[r].calls /\ mem[r].ask # "graph"
      BY <2>1, TaskAtLabel DEF At, MentionLabels, Local
    <3>. QED  BY <2>1, <3>1 DEF Local
  <2>3. Resumes(r, label, m)
    BY <1>3 DEF Resumes, Goto
  <2>. HIDE DEF m
  <2>4. At(label, m)
    BY <1>2, <2>2 DEF At
  <2>. QED  BY <1>1, <2>2, <2>3, <2>4, QuietStep DEF Answer
<1>4. CASE Goto(r, "fail") /\ UNCHANGED mem
  BY <1>1, <1>2, <1>4, GotoStep DEF Answer
<1>. QED  BY <1>3, <1>4 DEF Answer

LEMMA PostReplyStep ==
    ASSUME IInv, NEW r \in Request, PostReply(r), UNCHANGED <<knowsSelf, crashes>>
    PROVE  IInv'
<1>. /\ pc[r] = "reply" /\ pc[r] \in TaskLabels /\ UNCHANGED Environment
     /\ UNCHANGED <<mem, reviews>> /\ mem[r] \in Local
  BY TypesOfState DEF PostReply, TaskLabels, MentionLabels, Environment
<1>. DEFINE Ahead == {"finishMention", "fail"}
<1>1. Ahead \subseteq TaskLabels /\ "record" \notin Ahead
  BY DEF TaskLabels, JobLabels, MentionLabels
<1>2. \A label \in Ahead : At(label, mem[r])
  BY TaskAtLabel DEF At, Standing, Unbegun, Unfinished, Posting, MentionLabels
<1>3. PICK label \in Ahead : Goto(r, label)
  BY DEF PostReply
<1>4. CASE posts' = Append(posts, Reply(r))
  <2>1. /\ Reply(r) \in Post /\ Reply(r).review = mem[r].row
        /\ Reply(r).kind # "review"
    BY DEF Reply, Post, Local
  <2>2. Resumes(r, label, mem[r])
    BY <1>3, TypesOfState DEF Resumes, Goto
  <2>. QED  BY <1>1, <1>2, <1>4, <2>1, <2>2, SayStep
<1>5. CASE UNCHANGED posts
  BY <1>1, <1>2, <1>3, <1>5, GotoStep
<1>. QED  BY <1>4, <1>5 DEF PostReply

LEMMA FinishMentionStep ==
    ASSUME IInv, NEW r \in Request, FinishMention(r), UNCHANGED <<knowsSelf, crashes>>
    PROVE  IInv'
<1>. pc[r] = "finishMention" /\ pc[r] \in TaskLabels /\ UNCHANGED Environment
  BY DEF FinishMention, TaskLabels, MentionLabels, Environment
<1>. "fail" \in TaskLabels /\ "done" \notin TaskLabels
  BY DEF TaskLabels, JobLabels, MentionLabels
<1>1. At("fail", mem[r]) /\ ReviewPosts(mem[r].row) = {}
  BY TaskAtLabel DEF At, Standing, Unbegun, Unfinished, Posting, MentionLabels
<1>2. CASE /\ finish_review(mem[r].row, mem[r].calls, FALSE)
           /\ \/ Return(r)
              \/ Fault("commit") /\ Goto(r, "fail") /\ UNCHANGED mem
  <2>. DEFINE row == [reviews[mem[r].row] EXCEPT !.status = "succeeded",
                                                 !.calls = @ \cup mem[r].calls,
                                                 !.findings = FALSE]
  <2>1. mem[r] \in Local /\ reviews[mem[r].row] \in Row
        /\ reviews[mem[r].row].calls \cup mem[r].calls \in SUBSET Call
    BY RowOfTask, TypesOfState DEF Row, Local
  <2>2. /\ row \in Row /\ row.delivery = reviews[mem[r].row].delivery
        /\ row.status = "succeeded"
        /\ row.calls = reviews[mem[r].row].calls \cup mem[r].calls
        /\ row.posted = reviews[mem[r].row].posted
        /\ row.comments = reviews[mem[r].row].comments
    BY <2>1 DEF Row, Status
  <2>3. reviews' = [reviews EXCEPT ![mem[r].row] = row] /\ UNCHANGED posts
    BY <1>2 DEF finish_review, FinishMention
  <2>. HIDE DEF row
  <2>4. CASE Return(r)
    BY <1>1, <2>2, <2>3, <2>4, RowOfTask, ReturnResumes, WriteStep
  <2>5. CASE Fault("commit") /\ Goto(r, "fail") /\ UNCHANGED mem
    <3>1. mem[r].row \in Review' /\ reviews'[mem[r].row] = row
      BY <2>3, RowOfTask DEF Review
    <3>2. mem'[r] = mem[r] /\ ReviewPosts(mem[r].row)' = ReviewPosts(mem[r].row)
      BY <2>3, <2>5 DEF ReviewPosts
    <3>3. At("finishMention", mem[r])
      BY TaskAtLabel
    <3>4. At("fail", mem[r])'
      BY <2>2, <2>5, <3>1, <3>2, <3>3
      DEF At, Standing, Fault, Unbegun, Unfinished, Posting, MentionLabels
    <3>5. Resumes(r, "fail", mem[r])
      BY <2>5, TypesOfState DEF Resumes, Goto
    <3>. QED  BY <2>1, <2>2, <2>3, <3>2, <3>4, <3>5, RowOfTask, WriteStep
  <2>. QED  BY <1>2, <2>4, <2>5
<1>3. CASE Goto(r, "fail") /\ UNCHANGED <<mem, reviews>>
  BY <1>1, <1>3, GotoStep DEF FinishMention
<1>. QED  BY <1>2, <1>3 DEF FinishMention

-----------------------------------------------------------------------------
(* The endpoint, GitHub and the crash.                                     *)

\* A step of a handler before there is a row.
LEMMA HandlerMove ==
    ASSUME IInv,
           NEW r \in Request, pc[r] \notin TaskLabels,
           NEW label \in HandlerLabels \cup {"done"}, NEW m \in Local,
           Resumes(r, label, m),
           label \in HandlerLabels => m.delivery \in Delivery,
           m.calls = {},
           UNCHANGED <<reviews, posts>>,
           UNCHANGED Environment
    PROVE  IInv'
<1>1. /\ \A q \in Request : q # r => pc'[q] = pc[q] /\ mem'[q] = mem[q]
      /\ pc'[r] = label /\ mem'[r] = m
  BY TypesOfState DEF Resumes
<1>2. label \notin TaskLabels /\ label \in Labels
  BY DEF HandlerLabels, TaskLabels, JobLabels, MentionLabels, Labels
<1>3. TypeOK'
  <2>1. pc' \in [Request -> Labels] /\ mem' \in [Request -> Local]
    BY <1>2, TypesOfState DEF Resumes
  <2>. QED  BY <2>1 DEF IInv, TypeOK, Environment
<1>4. HandlersHaveDeliveries' /\ OthersHaveNoCalls'
  BY <1>1 DEF IInv, HandlersHaveDeliveries, OthersHaveNoCalls
<1>5. TasksAreAt' /\ TasksAreApart'
  BY <1>1, <1>2 DEF IInv, TasksAreAt, TasksAreApart, At, Standing, Review, ReviewPosts
<1>6. RowsAreApart' /\ PostsAreApart' /\ PublishedIsOnRecord' /\ RecordedPostingIsReal'
  BY DEF IInv, RowsAreApart, PostsAreApart, PublishedIsOnRecord,
         RecordedPostingIsReal, ReviewPosts, Review
<1>. QED  BY <1>3, <1>4, <1>5, <1>6 DEF IInv

LEMMA ReceiveStep ==
    ASSUME IInv, NEW r \in Request, Receive(r), UNCHANGED <<knowsSelf, crashes>>
    PROVE  IInv'
<1>. pc[r] \notin TaskLabels /\ UNCHANGED <<reviews, posts>> /\ UNCHANGED Environment
  BY DEF Receive, TaskLabels, JobLabels, MentionLabels, Environment
<1>1. PICK d \in Delivery, label \in {"countMentions", "lookupDelivery", "done"} :
         /\ Goto(r, label)
         /\ mem' = IF label = "done" THEN mem ELSE [mem EXCEPT ![r].delivery = d]
  BY DEF Receive, EntryPoint
<1>. DEFINE m == [mem[r] EXCEPT !.delivery = d]
<1>2. /\ m \in Local /\ m.delivery = d /\ m.calls = {}
      /\ mem[r] \in Local /\ mem[r].calls = {}
  <2>1. mem[r] \in Local /\ mem[r].calls = {}
    BY TypesOfState DEF IInv, OthersHaveNoCalls
  <2>. QED  BY <2>1 DEF Local
<1>3. CASE label = "done"
  <2>1. Resumes(r, label, mem[r])
    BY <1>1, <1>3, TypesOfState DEF Resumes, Goto
  <2>. QED  BY <1>2, <1>3, <2>1, HandlerMove DEF HandlerLabels
<1>4. CASE label # "done"
  <2>1. Resumes(r, label, m)
    BY <1>1, <1>4 DEF Resumes, Goto
  <2>. QED  BY <1>2, <2>1, HandlerMove DEF HandlerLabels
<1>. QED  BY <1>3, <1>4

\* A lookup goes on or ends the request.
LEMMA LookupMove ==
    ASSUME IInv, NEW r \in Request, pc[r] \in HandlerLabels,
           NEW label \in HandlerLabels,
           (Goto(r, label) /\ UNCHANGED mem) \/ Return(r),
           UNCHANGED <<reviews, posts>>,
           UNCHANGED Environment
    PROVE  IInv'
<1>. pc[r] \notin TaskLabels /\ "done" \notin HandlerLabels
  BY DEF HandlerLabels, TaskLabels, JobLabels, MentionLabels
<1>1. mem[r] \in Local /\ mem[r].delivery \in Delivery /\ mem[r].calls = {}
  BY TypesOfState DEF IInv, HandlersHaveDeliveries, OthersHaveNoCalls
<1>2. CASE Goto(r, label) /\ UNCHANGED mem
  <2>1. Resumes(r, label, mem[r])
    BY <1>2, TypesOfState DEF Resumes, Goto
  <2>. QED  BY <1>1, <2>1, HandlerMove
<1>3. CASE Return(r)
  BY <1>3, ReturnResumes, HandlerMove
<1>. QED  BY <1>2, <1>3

LEMMA LookupsStep ==
    ASSUME IInv, NEW r \in Request,
           LookupDelivery(r) \/ LookupHead(r) \/ CountMentions(r),
           UNCHANGED <<knowsSelf, crashes>>
    PROVE  IInv'
<1>. {"lookupDelivery", "lookupHead", "countMentions", "start", "startMention"}
        \subseteq HandlerLabels
  BY DEF HandlerLabels
<1>1. CASE LookupDelivery(r)
  BY <1>1, LookupMove DEF LookupDelivery, StoreRaises, Environment
<1>2. CASE LookupHead(r)
  BY <1>2, LookupMove DEF LookupHead, StoreRaises, Environment
<1>3. CASE CountMentions(r)
  BY <1>3, LookupMove DEF CountMentions, StoreRaises, Environment
<1>. QED  BY <1>1, <1>2, <1>3

\* The row a request gets is new: no other task has it, no post is about it and
\* no other row has its delivery.
LEMMA AcceptStep ==
    ASSUME IInv, NEW r \in Request, pc[r] \in HandlerLabels,
           NEW source \in Source, NEW task \in {"fetch", "latestFindings"},
           Accept(r, source, task), UNCHANGED <<knowsSelf, crashes>>
    PROVE  IInv'
<1>. UNCHANGED posts /\ UNCHANGED Environment
  BY DEF Accept, Environment
<1>1. mem[r].delivery \in Delivery /\ mem[r] \in Local /\ mem[r].calls = {}
  <2>1. pc[r] \notin TaskLabels
    BY DEF HandlerLabels, TaskLabels, JobLabels, MentionLabels
  <2>. QED  BY <2>1, TypesOfState DEF IInv, HandlersHaveDeliveries, OthersHaveNoCalls
<1>2. CASE Return(r) /\ UNCHANGED reviews
  BY <1>2, LookupMove
<1>3. CASE /\ start_review(source, mem[r].delivery, RefHead(r))
           /\ \/ mem' = [mem EXCEPT ![r].row = Len(reviews) + 1] /\ Goto(r, task)
              \/ Return(r)
  <2>. DEFINE row == NewRow(source, mem[r].delivery, RefHead(r))
              fresh == Len(reviews) + 1
  <2>1. /\ row \in Row /\ row.delivery = mem[r].delivery /\ row.status = "pending"
        /\ row.calls = {} /\ row.posted = 0
    <3>1. RefHead(r) \in Sha \cup {NoSha}
      BY <1>1, TypesOfState DEF RefHead, Payload
    <3>. QED  BY <1>1, <3>1 DEF NewRow, Row, Status
  <2>2. reviews' = Append(reviews, row) /\ \A i \in Review : reviews[i].delivery # row.delivery
    BY <1>3, <2>1 DEF start_review, DuplicateDelivery
  <2>. HIDE DEF row
  <2>3. /\ reviews' \in Seq(Row) /\ Len(reviews) \in Nat /\ Len(reviews') = fresh
        /\ Review' = Review \cup {fresh} /\ fresh \notin Review
        /\ \A i \in Review : reviews'[i] = reviews[i]
        /\ reviews'[fresh] = row
    BY <2>1, <2>2, TypesOfState, Appended DEF Review
  <2>4. PICK label \in {task, "done"}, m \in Local :
          /\ Resumes(r, label, m) /\ m.calls = {}
          /\ label = task => m.row = fresh /\ m.delivery = mem[r].delivery
    <3>1. CASE mem' = [mem EXCEPT ![r].row = Len(reviews) + 1] /\ Goto(r, task)
      <4>. DEFINE accepted == [mem[r] EXCEPT !.row = fresh]
      <4>1. /\ accepted \in Local /\ accepted.row = fresh
            /\ accepted.delivery = mem[r].delivery /\ accepted.calls = {}
        BY <1>1, <2>3 DEF Local
      <4>2. mem' = [mem EXCEPT ![r] = accepted]
        BY <3>1
      <4>3. pc' = [pc EXCEPT ![r] = task]
        BY <3>1 DEF Goto
      <4>. HIDE DEF accepted
      <4>. QED  BY <4>1, <4>2, <4>3 DEF Resumes
    <3>2. CASE Return(r)
      BY <3>2, ReturnResumes
    <3>. QED  BY <1>3, <3>1, <3>2
  <2>5. /\ \A q \in Request : q # r => pc'[q] = pc[q] /\ mem'[q] = mem[q]
        /\ pc'[r] = label /\ mem'[r] = m
    BY <2>4, TypesOfState DEF Resumes
  <2>6. /\ label \notin HandlerLabels /\ label \in Labels
        /\ label \in TaskLabels => label = task
    BY DEF TaskLabels, JobLabels, MentionLabels, HandlerLabels, Labels
  <2>7. TypeOK'
    <3>1. pc' \in [Request -> Labels] /\ mem' \in [Request -> Local]
      BY <2>4, <2>6, TypesOfState DEF Resumes
    <3>2. cutoff' \in 0 .. Len(reviews')
      BY <2>3 DEF IInv, TypeOK, Environment
    <3>. QED  BY <2>3, <3>1, <3>2 DEF IInv, TypeOK, Environment
  <2>8. RowsAreApart'
    BY <2>2, <2>3 DEF IInv, RowsAreApart, Review
  <2>9. HandlersHaveDeliveries' /\ OthersHaveNoCalls'
    BY <2>4, <2>5, <2>6 DEF IInv, HandlersHaveDeliveries, OthersHaveNoCalls
  <2>10. \A i : ReviewPosts(i)' = ReviewPosts(i)
    BY DEF ReviewPosts
  <2>11. ReviewPosts(fresh) = {}
    BY <2>3 DEF IInv, PublishedIsOnRecord, ReviewPosts
  <2>12. \A q \in Request \ {r} : pc'[q] \in TaskLabels =>
            pc[q] \in TaskLabels /\ At(pc[q], mem[q]) /\ mem[q].row \in Review
    BY <2>5, TaskAtLabel, TaskDelivery
  <2>13. TasksAreAt'
    <3>. SUFFICES ASSUME NEW q \in Request, pc'[q] \in TaskLabels
                  PROVE  At(pc[q], mem[q])'
      BY DEF TasksAreAt
    <3>1. CASE q = r
      <4>1. label = task
        BY <2>5, <2>6, <3>1
      <4>2. At(task, m)'
        BY <2>1, <2>3, <2>4, <2>10, <2>11, <4>1
        DEF At, Standing, Unbegun, Unfinished, Posting, MentionLabels, Review
      <4>. QED  BY <2>5, <3>1, <4>1, <4>2
    <3>2. CASE q # r
      <4>1. /\ pc'[q] = pc[q] /\ mem'[q] = mem[q] /\ At(pc[q], mem[q])
            /\ mem[q].row \in Review
        BY <2>5, <2>12, <3>2
      <4>2. reviews'[mem[q].row] = reviews[mem[q].row] /\ mem[q].row \in Review'
        BY <2>3, <4>1
      <4>3. ReviewPosts(mem[q].row)' = ReviewPosts(mem[q].row)
        BY <4>1 DEF ReviewPosts
      <4>. QED  BY <4>1, <4>2, <4>3 DEF At, Standing
    <3>. QED  BY <3>1, <3>2
  <2>14. TasksAreApart'
    BY <2>3, <2>4, <2>5, <2>6, <2>12 DEF IInv, TasksAreApart
  <2>15. PostsAreApart' /\ PublishedIsOnRecord'
    BY <2>3 DEF IInv, PostsAreApart, PublishedIsOnRecord
  <2>16. RecordedPostingIsReal'
    BY <2>1, <2>3, <2>10 DEF IInv, RecordedPostingIsReal
  <2>. QED  BY <2>7, <2>8, <2>9, <2>13, <2>14, <2>15, <2>16 DEF IInv
<1>. QED  BY <1>2, <1>3 DEF Accept, StoreRaises

LEMMA GitHubStep ==
    ASSUME IInv, GitHub
    PROVE  IInv'
<1>1. ASSUME NEW d \in Delivery, NEW payload \in Payload, Deliver(d, payload),
             pull' \in [open : BOOLEAN, draft : BOOLEAN, head : Sha]
      PROVE  TypeOK' /\ UNCHANGED <<reviews, pc, mem, posts>>
  BY <1>1 DEF IInv, TypeOK, Deliver
<1>2. ASSUME NEW d \in Delivery,
             Open(d) \/ MarkReady(d) \/ Reopen(d) \/ Push(d) \/ WriteComment(d)
      PROVE  TypeOK' /\ UNCHANGED <<reviews, pc, mem, posts>>
  <2>1. ASSUME NEW action \in PullRequestActions, NEW draft \in BOOLEAN, NEW head \in Sha
        PROVE  PullRequestEvent(action, draft, head) \in Payload
    BY DEF PullRequestEvent, NotSent, Payload, Author
  <2>2. pull \in [open : BOOLEAN, draft : BOOLEAN, head : Sha]
    BY TypesOfState
  <2>3. {"opened", "ready_for_review", "reopened", "synchronize"} \subseteq PullRequestActions
    BY DEF PullRequestActions, TriggerActions
  <2>4. CASE Open(d)
    BY <1>1, <2>1, <2>2, <2>3, <2>4 DEF Open
  <2>5. CASE MarkReady(d)
    BY <1>1, <2>1, <2>2, <2>3, <2>5 DEF MarkReady
  <2>6. CASE Reopen(d)
    BY <1>1, <2>1, <2>2, <2>3, <2>6 DEF Reopen
  <2>7. CASE Push(d)
    <3>1. pull.head + 1 \in Sha
      BY <2>2, <2>7, MaxHeadAssumption DEF Push, Sha
    <3>. QED  BY <1>1, <2>1, <2>2, <2>3, <2>7, <3>1 DEF Push
  <2>8. CASE WriteComment(d)
    BY <1>1, <2>2, <2>8, ServiceAssumption DEF WriteComment, Payload, Comment
  <2>. QED  BY <1>2, <2>4, <2>5, <2>6, <2>7, <2>8
<1>3. ASSUME HourPasses
      PROVE  TypeOK' /\ UNCHANGED <<reviews, pc, mem, posts>>
  BY <1>3, TypesOfState DEF HourPasses, IInv, TypeOK
<1>4. TypeOK' /\ UNCHANGED <<reviews, pc, mem, posts>>
  BY <1>2, <1>3 DEF GitHub
<1>. QED  BY <1>4 DEF IInv, RowsAreApart, HandlersHaveDeliveries, OthersHaveNoCalls,
            TasksAreAt, TasksAreApart, PostsAreApart, PublishedIsOnRecord, RecordedPostingIsReal,
            At, Standing, ReviewPosts, Review

LEMMA CrashStep ==
    ASSUME IInv, Crash
    PROVE  IInv'
<1>1. /\ \A r \in Request : pc'[r] \in {"idle", "done"}
      /\ UNCHANGED <<reviews, posts>>
  BY DEF Crash
<1>2. TypeOK'
  <2>1. Blank \in Local
    BY DEF Blank, Local, Result
  <2>2. crashes' \in 0 .. MaxCrashes
    BY ServiceAssumption DEF IInv, TypeOK, Crash
  <2>. QED  BY <2>1, <2>2 DEF IInv, TypeOK, Crash, Labels, SelfLogin
<1>3. \A r \in Request : /\ pc'[r] \notin TaskLabels /\ pc'[r] \notin HandlerLabels
                         /\ mem'[r].calls = {}
  BY <1>1 DEF TaskLabels, JobLabels, MentionLabels, HandlerLabels, Crash, Blank
<1>. QED  BY <1>1, <1>2, <1>3
          DEF IInv, RowsAreApart, HandlersHaveDeliveries, OthersHaveNoCalls,
              TasksAreAt, TasksAreApart,
              PostsAreApart, PublishedIsOnRecord, RecordedPostingIsReal, ReviewPosts,
              Review

-----------------------------------------------------------------------------
(* The invariant and what follows from it.                                 *)

LEMMA InitIInv == Init => IInv
<1>. SUFFICES ASSUME Init PROVE IInv
  OBVIOUS
<1>1. reviews = <<>> /\ posts = <<>> /\ DOMAIN reviews = {} /\ DOMAIN posts = {}
      /\ reviews \in Seq(Row) /\ posts \in Seq(Post) /\ Len(reviews) = 0
  BY DEF Init
<1>2. \A r \in Request : pc[r] = "idle"
  BY DEF Init
<1>3. TypeOK
  <2>1. Blank \in Local /\ NotSent \in Payload
    BY DEF Blank, Local, Result, NotSent, Payload, Author
  <2>2. 1 \in Sha
    BY MaxHeadAssumption DEF Sha
  <2>3. knowsSelf \in BOOLEAN
    BY DEF Init, SelfLogin
  <2>4. pull \in [open : BOOLEAN, draft : BOOLEAN, head : Sha]
    BY <2>2 DEF Init
  <2>5. pc \in [Request -> Labels] /\ mem \in [Request -> Local]
        /\ sent \in [Delivery -> Payload]
    BY <2>1 DEF Init, Labels
  <2>6. cutoff \in 0 .. Len(reviews) /\ crashes \in 0 .. MaxCrashes
    BY <1>1, ServiceAssumption DEF Init
  <2>. QED  BY <1>1, <2>3, <2>4, <2>5, <2>6 DEF TypeOK
<1>4. \A r \in Request : /\ pc[r] \notin TaskLabels /\ pc[r] \notin HandlerLabels
                         /\ mem[r].calls = {}
  BY <1>2 DEF TaskLabels, JobLabels, MentionLabels, HandlerLabels, Init, Blank
<1>. QED  BY <1>1, <1>3, <1>4
          DEF IInv, RowsAreApart, HandlersHaveDeliveries, OthersHaveNoCalls,
              TasksAreAt, TasksAreApart,
              PostsAreApart, PublishedIsOnRecord, RecordedPostingIsReal, Review

LEMMA TaskStepIInv ==
    ASSUME IInv, NEW r \in Request, Step(r)
    PROVE  IInv'
<1>. UNCHANGED <<knowsSelf, crashes>>
  BY DEF Step
<1>1. CASE HandlerStep(r)
  <2>1. CASE LookupDelivery(r) \/ LookupHead(r) \/ CountMentions(r)
    BY <2>1, LookupsStep
  <2>2. CASE StartReview(r)
    BY <2>2, AcceptStep DEF StartReview, HandlerLabels, Source
  <2>3. CASE StartMention(r)
    BY <2>3, AcceptStep DEF StartMention, HandlerLabels, Source
  <2>. QED  BY <1>1, <2>1, <2>2, <2>3 DEF HandlerStep
<1>2. CASE JobStep(r)
  BY <1>2, FetchStep, ExplainStep, FailStep, MarkRunningStep, RunGraphStep,
     FinishStep, SendReviewStep, SendDegradedStep, RecordStep DEF JobStep
<1>3. CASE MentionStep(r)
  BY <1>3, LatestFindingsStep, ClassifyStep, FetchToAnswerStep, AnswerStep,
     PostReplyStep, FinishMentionStep DEF MentionStep
<1>. QED  BY <1>1, <1>2, <1>3 DEF Step

LEMMA NextIInv == IInv /\ [Next]_vars => IInv'
<1>. SUFFICES ASSUME IInv, [Next]_vars PROVE IInv'
  OBVIOUS
<1>1. CASE GitHub
  BY <1>1, GitHubStep
<1>2. ASSUME NEW r \in Request, Receive(r), UNCHANGED <<knowsSelf, crashes>>
      PROVE  IInv'
  BY <1>2, ReceiveStep
<1>3. ASSUME NEW r \in Request, Step(r) PROVE IInv'
  BY <1>3, TaskStepIInv
<1>4. CASE Crash
  BY <1>4, CrashStep
<1>5. CASE UNCHANGED vars
  BY <1>5 DEF vars, IInv, TypeOK, RowsAreApart, HandlersHaveDeliveries, OthersHaveNoCalls,
     TasksAreAt, TasksAreApart, PostsAreApart, PublishedIsOnRecord, RecordedPostingIsReal, At,
     Standing, ReviewPosts, Review
<1>. QED  BY <1>1, <1>2, <1>3, <1>4, <1>5 DEF Next

\* Whatever GitHub sends, repeats and answers, wherever the process dies and
\* however requests interleave, the table, the tasks and the pull request fit
\* together (webhook.py, jobs.py and dispatch.py at every await).
THEOREM Invariance == Spec => []IInv
<1>. QED  BY InitIInv, NextIInv, PTL DEF Spec

\* Every variable keeps its type.
THEOREM TypeCorrect == Spec => []TypeOK
<1>1. IInv => TypeOK
  BY DEF IInv
<1>. QED  BY <1>1, Invariance, PTL

\* No two coroutines work on one row, each on the row of its own delivery.
THEOREM TasksAlwaysOwnTheirRows == Spec => []TasksOwnTheirRows
<1>1. IInv => TasksOwnTheirRows
  <2>. SUFFICES ASSUME IInv, NEW r \in Request, pc[r] \in TaskLabels
                PROVE  /\ mem[r].row \in Review
                       /\ reviews[mem[r].row].delivery = mem[r].delivery
                       /\ \A q \in Request \ {r} :
                             pc[q] \in TaskLabels => mem[q].row # mem[r].row
    BY DEF TasksOwnTheirRows
  <2>1. At(pc[r], mem[r])
    BY TaskAtLabel
  <2>. QED  BY <2>1 DEF At, IInv, TasksAreApart
<1>. QED  BY <1>1, Invariance, PTL

\* A review on the pull request is never one whose row is pending or failed.
THEOREM PublishedIsAlwaysOnRecord == Spec => []PublishedIsOnRecord
<1>1. IInv => PublishedIsOnRecord
  BY DEF IInv
<1>. QED  BY <1>1, Invariance, PTL

\* What a row says of its posting is what is on the pull request.
THEOREM RecordedPostingIsAlwaysReal == Spec => []RecordedPostingIsReal
<1>1. IInv => RecordedPostingIsReal
  BY DEF IInv
<1>. QED  BY <1>1, Invariance, PTL

\* The reviews published for a delivery are none or one.
LEMMA PublishedForIsSmall ==
    ASSUME IInv, NEW d \in Delivery
    PROVE  PublishedFor(d) = {} \/ \E k : PublishedFor(d) = {k}
<1>. SUFFICES ASSUME NEW j \in PublishedFor(d), NEW k \in PublishedFor(d) PROVE j = k
  OBVIOUS
<1>1. PICK i \in ReviewsOf(d) : j \in ReviewPosts(i)
  BY DEF PublishedFor
<1>2. PICK h \in ReviewsOf(d) : k \in ReviewPosts(h)
  BY DEF PublishedFor
<1>3. i = h
  BY DEF IInv, RowsAreApart, ReviewsOf
<1>. QED  BY <1>1, <1>2, <1>3 DEF IInv, PostsAreApart, ReviewPosts

\* A delivery leads to at most one review on the pull request, however often it
\* is repeated, raced, retried or interrupted.
THEOREM AtMostOneReviewPerDelivery == Spec => []OneReviewPerDelivery
<1>1. IInv => OneReviewPerDelivery
  <2>. SUFFICES ASSUME IInv, NEW d \in Delivery
                PROVE  Cardinality(PublishedFor(d)) <= 1
    BY DEF OneReviewPerDelivery
  <2>1. CASE PublishedFor(d) = {}
    BY <2>1, FS_EmptySet
  <2>2. CASE \E k : PublishedFor(d) = {k}
    BY <2>2, FS_Singleton
  <2>. QED  BY <2>1, <2>2, PublishedForIsSmall
<1>. QED  BY <1>1, Invariance, PTL

\* No row has any call before its result is saved, so saving never trips the
\* constraint on (review, agent).
THEOREM CallsAreRecordedOnce == Spec => []CallsRecordedOnce
<1>1. IInv => CallsRecordedOnce
  <2>. SUFFICES ASSUME IInv, NEW r \in Request, pc[r] \in {"finish", "finishMention"}
                PROVE  ~DuplicateCall(mem[r].row, mem[r].calls)
    BY DEF CallsRecordedOnce
  <2>1. At(pc[r], mem[r])
    BY TaskAtLabel DEF TaskLabels, JobLabels, MentionLabels
  <2>. QED  BY <2>1 DEF At, Posting, DuplicateCall
<1>. QED  BY <1>1, Invariance, PTL

-----------------------------------------------------------------------------
(* When every failure is one the code handles, the table tells what became *)
(* of what was posted.  SettlingInv, on top of IInv, is what is on its way *)
(* there: a step of a task only has to account for its own row.            *)

LEMMA OnlyHandledFaults ==
    ASSUME HandledOnly
    PROVE  ~Fault("store") /\ ~Fault("commit") /\ ~Fault("transport")
<1>. QED  BY DEF HandledOnly, Fault

\* A step of r, of which only the row it works on is in question.
LEMMA OwnRowStep ==
    ASSUME IInv, SettlingInv,
           NEW r \in Request, NEW label, NEW m, NEW row,
           Resumes(r, label, m), BillInHand(label, m),
           pc[r] \in {"record", "finishMention"} => mem[r].row = row,
           Review \subseteq Review', Review' \subseteq Review \cup {row},
           \A i \in Review : i # row => reviews'[i] = reviews[i],
           DOMAIN posts \subseteq DOMAIN posts',
           \A k \in DOMAIN posts : posts'[k] = posts[k],
           \A k \in DOMAIN posts' \ DOMAIN posts : posts'[k].review = row,
           row \in Review' => PostingOnItsWay(row)',
           \A k \in DOMAIN posts' :
              posts'[k].kind \in {"reply", "comment"} /\ posts'[k].review = row =>
                 row \in Review' /\ BillOnItsWay(posts[k])'
    PROVE  SettlingInv'
<1>1. /\ \A q \in Request : q # r => pc'[q] = pc[q] /\ mem'[q] = mem[q]
      /\ pc'[r] = label /\ mem'[r] = m
  BY TypesOfState DEF Resumes
<1>2. BillsAreInHand'
  BY <1>1 DEF SettlingInv, BillsAreInHand, BillInHand
<1>3. ASSUME NEW i \in Review', i # row PROVE PostingOnItsWay(i)'
  <2>1. i \in Review /\ reviews'[i] = reviews[i] /\ PostingOnItsWay(i)
    BY <1>3 DEF SettlingInv
  <2>2. ReviewPosts(i)' = ReviewPosts(i)
    BY <1>3 DEF ReviewPosts
  <2>. QED  BY <1>1, <1>3, <2>1, <2>2 DEF PostingOnItsWay
<1>4. ASSUME NEW k \in DOMAIN posts', posts'[k].kind \in {"reply", "comment"},
             posts'[k].review # row
      PROVE  posts'[k].review \in Review' /\ BillOnItsWay(posts[k])'
  <2>1. k \in DOMAIN posts /\ posts'[k] = posts[k]
    BY <1>4
  <2>2. posts[k].review \in Review /\ BillOnItsWay(posts[k])
    BY <1>4, <2>1 DEF SettlingInv
  <2>. QED  BY <1>1, <1>4, <2>1, <2>2 DEF BillOnItsWay
<1>. QED  BY <1>2, <1>3, <1>4 DEF SettlingInv

\* It only moves on.
LEMMA QuietSettles ==
    ASSUME IInv, SettlingInv,
           NEW r \in Request, pc[r] \notin {"record", "finishMention"},
           NEW label, NEW m, Resumes(r, label, m), BillInHand(label, m),
           UNCHANGED <<reviews, posts>>
    PROVE  SettlingInv'
<1>1. /\ \A q \in Request : q # r => pc'[q] = pc[q] /\ mem'[q] = mem[q]
      /\ pc'[r] = label /\ mem'[r] = m
  BY TypesOfState DEF Resumes
<1>2. BillsAreInHand'
  BY <1>1 DEF SettlingInv, BillsAreInHand, BillInHand
<1>3. ASSUME NEW i \in Review' PROVE PostingOnItsWay(i)'
  BY <1>1 DEF SettlingInv, PostingOnItsWay, ReviewPosts, Review
<1>4. ASSUME NEW k \in DOMAIN posts', posts'[k].kind \in {"reply", "comment"}
      PROVE  posts'[k].review \in Review' /\ BillOnItsWay(posts[k])'
  BY <1>1, <1>4 DEF SettlingInv, BillOnItsWay, Review
<1>. QED  BY <1>2, <1>3, <1>4 DEF SettlingInv

LEMMA GotoSettles ==
    ASSUME IInv, SettlingInv,
           NEW r \in Request, pc[r] \notin {"record", "finishMention"},
           NEW label, Goto(r, label), BillInHand(label, mem[r]),
           UNCHANGED <<mem, reviews, posts>>
    PROVE  SettlingInv'
<1>1. Resumes(r, label, mem[r])
  BY TypesOfState DEF Resumes, Goto
<1>. QED  BY <1>1, QuietSettles

LEMMA ReturnSettles ==
    ASSUME IInv, SettlingInv,
           NEW r \in Request, pc[r] \notin {"record", "finishMention"}, Return(r),
           UNCHANGED <<reviews, posts>>
    PROVE  SettlingInv'
<1>1. BillInHand("done", Blank)
  BY DEF BillInHand, Unread, HandlerLabels, Asked
<1>. QED  BY <1>1, ReturnResumes, QuietSettles

\* A task that is not about to answer, nor to post, works on a row about which
\* nothing was said but explanations.
LEMMA NothingPostedYet ==
    ASSUME IInv, SettlingInv, HandledOnly,
           NEW r \in Request, pc[r] \in TaskLabels,
           pc[r] \notin Posting \cup {"finishMention"}
    PROVE  /\ ReviewPosts(mem[r].row) = {}
           /\ \A k \in DOMAIN posts : posts[k].review = mem[r].row =>
                 posts[k].kind \notin {"reply", "comment"}
<1>1. At(pc[r], mem[r]) /\ ReviewPosts(mem[r].row) = {}
  BY TaskAtLabel DEF At, Posting
<1>2. reviews[mem[r].row].status # "succeeded"
  <2>1. pc[r] \in Unbegun \cup Unfinished \cup {"fail"}
    BY DEF TaskLabels, JobLabels, MentionLabels, Posting, Unbegun, Unfinished
  <2>. QED  BY <1>1, <2>1, OnlyHandledFaults DEF At
<1>3. ASSUME NEW k \in DOMAIN posts, posts[k].review = mem[r].row,
             posts[k].kind \in {"reply", "comment"}
      PROVE  FALSE
  <2>1. BillOnItsWay(posts[k])
    BY <1>3 DEF SettlingInv
  <2>2. PICK q \in Request : pc[q] = "finishMention" /\ mem[q].row = mem[r].row
    BY <1>2, <1>3, <2>1 DEF BillOnItsWay
  <2>3. q = r
    BY <2>2 DEF IInv, TasksAreApart, TaskLabels, MentionLabels
  <2>. QED  BY <2>2, <2>3
<1>. QED  BY <1>1, <1>3

\* Such a task writes its row.
LEMMA WriteSettles ==
    ASSUME IInv, SettlingInv, HandledOnly,
           NEW r \in Request, pc[r] \in TaskLabels,
           pc[r] \notin Posting \cup {"finishMention"},
           NEW label, NEW m, Resumes(r, label, m), BillInHand(label, m),
           NEW row, reviews' = [reviews EXCEPT ![mem[r].row] = row],
           UNCHANGED posts
    PROVE  SettlingInv'
<1>1. PICK own \in Review : own = mem[r].row
  BY TaskDelivery
<1>2. Review' = Review /\ \A i \in Review : i # own => reviews'[i] = reviews[i]
  BY <1>1, TypesOfState DEF Review
<1>3. ReviewPosts(own)' = {}
  BY <1>1, NothingPostedYet DEF ReviewPosts
<1>4. \A k \in DOMAIN posts' : posts'[k].review = own =>
         posts'[k].kind \notin {"reply", "comment"}
  BY <1>1, NothingPostedYet
<1>5. PostingOnItsWay(own)'
  BY <1>3 DEF PostingOnItsWay
<1>. QED  BY <1>1, <1>2, <1>4, <1>5, OwnRowStep

\* A post that is not an answer, of a task that does not answer; a review is in
\* the hands of a task that records it.
LEMMA PostSettles ==
    ASSUME IInv, SettlingInv,
           NEW r \in Request, pc[r] \in TaskLabels,
           pc[r] \notin {"record", "finishMention"},
           NEW label, NEW m, Resumes(r, label, m), BillInHand(label, m),
           NEW post \in Post, post.review = mem[r].row,
           posts' = Append(posts, post),
           post.kind \notin {"reply", "comment"},
           post.kind = "review" => label = "record" /\ m.row = mem[r].row,
           UNCHANGED reviews
    PROVE  SettlingInv'
<1>1. PICK own \in Review : own = mem[r].row
  BY TaskDelivery
<1>2. /\ DOMAIN posts' = DOMAIN posts \cup {Len(posts) + 1}
      /\ Len(posts) + 1 \notin DOMAIN posts
      /\ \A k \in DOMAIN posts : posts'[k] = posts[k]
      /\ posts'[Len(posts) + 1] = post
  BY TypesOfState, Appended
<1>3. Review' = Review
  BY DEF Review
<1>4. /\ \A q \in Request : q # r => pc'[q] = pc[q] /\ mem'[q] = mem[q]
      /\ pc'[r] = label /\ mem'[r] = m
  BY TypesOfState DEF Resumes
<1>5. PostingOnItsWay(own)'
  <2>1. PostingOnItsWay(own)
    BY DEF SettlingInv
  <2>2. CASE post.kind = "review"
    BY <1>1, <1>4, <2>2 DEF PostingOnItsWay
  <2>3. CASE post.kind # "review"
    <3>1. ReviewPosts(own)' = ReviewPosts(own)
      BY <1>2, <2>3 DEF ReviewPosts
    <3>. QED  BY <1>4, <2>1, <3>1 DEF PostingOnItsWay
  <2>. QED  BY <2>2, <2>3
<1>6. ASSUME NEW k \in DOMAIN posts', posts'[k].kind \in {"reply", "comment"},
             posts'[k].review = own
      PROVE  BillOnItsWay(posts[k])'
  <2>1. k \in DOMAIN posts /\ posts'[k] = posts[k]
    BY <1>2, <1>6
  <2>2. BillOnItsWay(posts[k])
    BY <1>6, <2>1 DEF SettlingInv
  <2>. QED  BY <1>4, <2>1, <2>2 DEF BillOnItsWay
<1>. QED  BY <1>1, <1>2, <1>3, <1>5, <1>6, OwnRowStep

-----------------------------------------------------------------------------
(* The actions of ReviewJob.                                               *)

LEMMA NotInQuestion ==
    ASSUME NEW label \in JobLabels \ {"record"}, NEW m
    PROVE  BillInHand(label, m)
<1>. QED  BY DEF BillInHand, JobLabels, Unread, HandlerLabels, Asked

LEMMA FetchSettles ==
    ASSUME IInv, SettlingInv, HandledOnly, NEW r \in Request, Fetch(r)
    PROVE  SettlingInv'
<1>. pc[r] = "fetch" /\ UNCHANGED <<reviews, posts>>
  BY DEF Fetch
<1>. {"markRunning", "explain", "fail"} \subseteq JobLabels \ {"record"}
  BY DEF JobLabels
<1>1. CASE Goto(r, "markRunning") /\ mem' = [mem EXCEPT ![r].diff = pull.head]
  <2>1. PICK m : mem' = [mem EXCEPT ![r] = m]
    BY <1>1
  <2>2. Resumes(r, "markRunning", m)
    BY <1>1, <2>1 DEF Resumes, Goto
  <2>. QED  BY <2>2, NotInQuestion, QuietSettles
<1>2. CASE \E label \in {"explain", "fail"} : Goto(r, label) /\ UNCHANGED mem
  BY <1>2, NotInQuestion, GotoSettles
<1>. QED  BY <1>1, <1>2, OnlyHandledFaults DEF Fetch

LEMMA ExplainSettles ==
    ASSUME IInv, SettlingInv, HandledOnly, NEW r \in Request, Explain(r)
    PROVE  SettlingInv'
<1>. pc[r] = "explain" /\ pc[r] \in TaskLabels /\ UNCHANGED reviews
  BY DEF Explain, TaskLabels, JobLabels
<1>. BillInHand("fail", mem[r])
  BY NotInQuestion DEF JobLabels
<1>1. Goto(r, "fail") /\ UNCHANGED mem
  BY OnlyHandledFaults DEF Explain
<1>2. Resumes(r, "fail", mem[r])
  BY <1>1, TypesOfState DEF Resumes, Goto
<1>3. CASE Publish(Explanation(r))
  <2>. DEFINE post == [Explanation(r) EXCEPT !.commit = IF @ = NoSha THEN pull.head ELSE @]
  <2>1. posts' = Append(posts, post)
    BY <1>3 DEF Publish
  <2>2. post \in Post /\ post.review = mem[r].row /\ post.kind = "explanation"
    BY TypesOfState DEF Explanation, Post, Sha, Local
  <2>. HIDE DEF post
  <2>. QED  BY <1>2, <2>1, <2>2, PostSettles
<1>4. CASE UNCHANGED posts
  BY <1>1, <1>4, GotoSettles
<1>. QED  BY <1>3, <1>4, OnlyHandledFaults DEF Explain

LEMMA FailSettles ==
    ASSUME IInv, SettlingInv, HandledOnly, NEW r \in Request, Fail(r)
    PROVE  SettlingInv'
<1>. pc[r] = "fail" /\ pc[r] \in TaskLabels /\ UNCHANGED posts
  BY DEF Fail, TaskLabels, JobLabels
<1>1. Resumes(r, "done", Blank) /\ BillInHand("done", Blank)
  BY ReturnResumes DEF Fail, BillInHand, Unread, HandlerLabels, Asked
<1>2. reviews' = [reviews EXCEPT ![mem[r].row] = [reviews[mem[r].row] EXCEPT !.status = "failed"]]
  BY OnlyHandledFaults DEF Fail, fail_review
<1>. QED  BY <1>1, <1>2, WriteSettles DEF Posting

LEMMA MarkRunningSettles ==
    ASSUME IInv, SettlingInv, HandledOnly, NEW r \in Request, MarkRunning(r)
    PROVE  SettlingInv'
<1>. pc[r] = "markRunning" /\ pc[r] \in TaskLabels /\ UNCHANGED posts
  BY DEF MarkRunning, TaskLabels, JobLabels
<1>1. Resumes(r, "review", mem[r]) /\ BillInHand("review", mem[r])
  BY OnlyHandledFaults, TypesOfState, NotInQuestion DEF MarkRunning, Resumes, Goto, JobLabels
<1>2. reviews' = [reviews EXCEPT ![mem[r].row] = [reviews[mem[r].row] EXCEPT !.status = "running"]]
  BY OnlyHandledFaults DEF MarkRunning, mark_running
<1>. QED  BY <1>1, <1>2, WriteSettles DEF Posting

LEMMA RunGraphSettles ==
    ASSUME IInv, SettlingInv, HandledOnly, NEW r \in Request, RunGraph(r)
    PROVE  SettlingInv'
<1>. pc[r] = "review" /\ UNCHANGED <<reviews, posts>>
  BY DEF RunGraph
<1>. {"finish", "fail"} \subseteq JobLabels \ {"record"}
  BY DEF JobLabels
<1>1. ASSUME NEW result, Goto(r, "finish"),
             mem' = [mem EXCEPT ![r].result = result, ![r].calls = @ \cup {"graph"}]
      PROVE  SettlingInv'
  <2>1. PICK m : mem' = [mem EXCEPT ![r] = m]
    BY <1>1, TypesOfState
  <2>2. Resumes(r, "finish", m)
    BY <1>1, <2>1 DEF Resumes, Goto
  <2>. QED  BY <2>2, NotInQuestion, QuietSettles
<1>2. CASE Goto(r, "fail") /\ UNCHANGED mem
  BY <1>2, NotInQuestion, GotoSettles
<1>. QED  BY <1>1, <1>2 DEF RunGraph

LEMMA FinishSettles ==
    ASSUME IInv, SettlingInv, HandledOnly, NEW r \in Request, Finish(r)
    PROVE  SettlingInv'
<1>. pc[r] = "finish" /\ pc[r] \in TaskLabels /\ UNCHANGED <<mem, posts>>
  BY DEF Finish, TaskLabels, JobLabels
<1>1. Goto(r, "post") /\ Resumes(r, "post", mem[r]) /\ BillInHand("post", mem[r])
  BY TypesOfState, NotInQuestion DEF Finish, Resumes, Goto, JobLabels
<1>2. CASE finish_review(mem[r].row, mem[r].calls, mem[r].result # "clean")
  <2>1. PICK row : reviews' = [reviews EXCEPT ![mem[r].row] = row]
    BY <1>2, TypesOfState DEF finish_review
  <2>. QED  BY <1>1, <2>1, WriteSettles DEF Posting
<1>3. CASE UNCHANGED reviews
  BY <1>1, <1>3, GotoSettles
<1>. QED  BY <1>2, <1>3 DEF Finish

LEMMA SendSettles ==
    ASSUME IInv, SettlingInv, HandledOnly,
           NEW r \in Request, pc[r] \in {"post", "repost"},
           NEW payload \in Post, payload.review = mem[r].row, payload.kind = "review",
           Send(r, payload), UNCHANGED reviews
    PROVE  SettlingInv'
<1>. pc[r] \in TaskLabels
  BY DEF TaskLabels, JobLabels
<1>1. /\ Publish(payload) /\ Goto(r, "record")
      /\ mem' = [mem EXCEPT ![r].posted = Len(posts) + 1, ![r].comments = payload.comments]
  BY OnlyHandledFaults DEF Send
<1>2. PICK m : mem' = [mem EXCEPT ![r] = m] /\ m.row = mem[r].row
  <2>. DEFINE sending == [mem[r] EXCEPT !.posted = Len(posts) + 1,
                                        !.comments = payload.comments]
  <2>1. mem' = [mem EXCEPT ![r] = sending]
    BY <1>1, TypesOfState
  <2>2. sending.row = mem[r].row
    BY TypesOfState DEF Local
  <2>. HIDE DEF sending
  <2>. QED  BY <2>1, <2>2
<1>3. Resumes(r, "record", m) /\ BillInHand("record", m)
  BY <1>1, <1>2 DEF Resumes, Goto, BillInHand, Unread, HandlerLabels, Asked
<1>. DEFINE post == [payload EXCEPT !.commit = IF @ = NoSha THEN pull.head ELSE @]
<1>4. /\ posts' = Append(posts, post)
      /\ post \in Post /\ post.review = mem[r].row /\ post.kind = "review"
  BY <1>1, TypesOfState DEF Publish, Post, Sha
<1>. HIDE DEF post
<1>. QED  BY <1>2, <1>3, <1>4, PostSettles

LEMMA SendReviewSettles ==
    ASSUME IInv, SettlingInv, HandledOnly, NEW r \in Request, SendReview(r)
    PROVE  SettlingInv'
<1>. pc[r] = "post" /\ UNCHANGED reviews
  BY DEF SendReview
<1>1. CASE Send(r, build_review(r))
  <2>1. /\ build_review(r) \in Post /\ build_review(r).review = mem[r].row
        /\ build_review(r).kind = "review"
    BY BuiltReview
  <2>. QED  BY <1>1, <2>1, SendSettles
<1>2. CASE Goto(r, "repost") /\ UNCHANGED <<mem, posts>>
  BY <1>2, NotInQuestion, GotoSettles DEF JobLabels
<1>3. CASE Return(r) /\ UNCHANGED posts
  BY <1>3, ReturnSettles
<1>. QED  BY <1>1, <1>2, <1>3 DEF SendReview

LEMMA SendDegradedSettles ==
    ASSUME IInv, SettlingInv, HandledOnly, NEW r \in Request, SendDegraded(r)
    PROVE  SettlingInv'
<1>. pc[r] = "repost" /\ UNCHANGED reviews
  BY DEF SendDegraded
<1>. DEFINE payload == degrade(build_review(r))
<1>1. CASE Send(r, payload)
  <2>1. payload \in Post /\ payload.review = mem[r].row /\ payload.kind = "review"
    BY BuiltReview
  <2>. HIDE DEF payload
  <2>. QED  BY <1>1, <2>1, SendSettles
<1>2. CASE Return(r) /\ UNCHANGED posts
  BY <1>2, ReturnSettles
<1>. QED  BY <1>1, <1>2 DEF SendDegraded

\* What was posted is on record from here on.
LEMMA RecordSettles ==
    ASSUME IInv, SettlingInv, HandledOnly, NEW r \in Request, Record(r)
    PROVE  SettlingInv'
<1>. pc[r] = "record" /\ pc[r] \in TaskLabels /\ UNCHANGED posts
  BY DEF Record, TaskLabels, JobLabels
<1>1. Resumes(r, "done", Blank) /\ BillInHand("done", Blank)
  BY ReturnResumes DEF Record, BillInHand, Unread, HandlerLabels, Asked
<1>2. reviews' = [reviews EXCEPT ![mem[r].row].posted = mem[r].posted,
                                 ![mem[r].row].comments = mem[r].comments]
  BY OnlyHandledFaults DEF Record, record_posted_review
<1>3. PICK own \in Review : own = mem[r].row
  BY TaskDelivery
<1>4. /\ Review' = Review
      /\ \A i \in Review : i # own => reviews'[i] = reviews[i]
      /\ reviews'[own].posted = mem[r].posted
      /\ reviews'[own].status = reviews[own].status
      /\ reviews'[own].calls = reviews[own].calls
  BY <1>2, <1>3, TypesOfState DEF Review, Row
<1>5. mem[r].posted # 0
  BY TaskAtLabel, TypesOfState DEF At, ReviewPosts
<1>6. PostingOnItsWay(own)'
  BY <1>4, <1>5 DEF PostingOnItsWay
<1>7. \A q \in Request : q # r => pc'[q] = pc[q] /\ mem'[q] = mem[q]
  BY <1>1, TypesOfState DEF Resumes
<1>8. ASSUME NEW k \in DOMAIN posts', posts'[k].kind \in {"reply", "comment"},
             posts'[k].review = own
      PROVE  BillOnItsWay(posts[k])'
  <2>1. BillOnItsWay(posts[k]) /\ posts'[k] = posts[k]
    BY <1>8 DEF SettlingInv
  <2>. QED  BY <1>4, <1>7, <1>8, <2>1 DEF BillOnItsWay
<1>. QED  BY <1>1, <1>3, <1>4, <1>6, <1>8, OwnRowStep

-----------------------------------------------------------------------------
(* The actions of MentionDispatch.                                         *)

LEMMA BillOfTask ==
    ASSUME SettlingInv, NEW r \in Request
    PROVE  BillInHand(pc[r], mem[r])
<1>. QED  BY DEF SettlingInv, BillsAreInHand

LEMMA LatestFindingsSettles ==
    ASSUME IInv, SettlingInv, HandledOnly, NEW r \in Request, LatestFindings(r)
    PROVE  SettlingInv'
<1>. pc[r] = "latestFindings" /\ UNCHANGED <<reviews, posts>>
  BY DEF LatestFindings
<1>1. Goto(r, "classify") /\ mem' = [mem EXCEPT ![r].prior = latest_findings]
  BY OnlyHandledFaults DEF LatestFindings
<1>2. PICK m : mem' = [mem EXCEPT ![r] = m] /\ m.diff = mem[r].diff
  <2>. DEFINE shown == [mem[r] EXCEPT !.prior = latest_findings]
  <2>1. mem' = [mem EXCEPT ![r] = shown] /\ shown.diff = mem[r].diff
    BY <1>1, TypesOfState DEF Local
  <2>. HIDE DEF shown
  <2>. QED  BY <2>1
<1>3. BillInHand("classify", m)
  BY <1>2, BillOfTask DEF BillInHand, Unread, Asked
<1>. QED  BY <1>1, <1>2, <1>3, QuietSettles DEF Resumes, Goto

LEMMA ClassifySettles ==
    ASSUME IInv, SettlingInv, HandledOnly, NEW r \in Request, Classify(r)
    PROVE  SettlingInv'
<1>. pc[r] = "classify" /\ UNCHANGED <<reviews, posts>>
  BY DEF Classify
<1>1. mem[r].diff = NoSha
  BY BillOfTask DEF BillInHand, Unread
<1>2. CASE Goto(r, Route(r, "full_review")) /\ UNCHANGED mem
  <2>1. BillInHand("fetch", mem[r]) /\ Route(r, "full_review") = "fetch"
    BY NotInQuestion DEF JobLabels, Route
  <2>. QED  BY <1>2, <2>1, GotoSettles
<1>3. ASSUME NEW action \in Action, NEW target \in BOOLEAN,
             mem' = [mem EXCEPT ![r].calls = {"intent"}, ![r].ask = Ask(action, target)],
             Goto(r, Route(r, action))
      PROVE  SettlingInv'
  <2>1. PICK m : mem' = [mem EXCEPT ![r] = m] /\ m.diff = NoSha /\ m.calls = {"intent"}
    <3>. DEFINE told == [mem[r] EXCEPT !.calls = {"intent"}, !.ask = Ask(action, target)]
    <3>1. /\ mem' = [mem EXCEPT ![r] = told]
          /\ told.diff = mem[r].diff /\ told.calls = {"intent"}
      BY <1>3, TypesOfState DEF Local
    <3>. HIDE DEF told
    <3>. QED  BY <1>1, <3>1
  <2>2. BillInHand(Route(r, action), m)
    BY <2>1 DEF Route, BillInHand, Paid, Unread, HandlerLabels, Asked
  <2>. QED  BY <1>3, <2>1, <2>2, QuietSettles DEF Resumes, Goto
<1>4. CASE Goto(r, "fail") /\ UNCHANGED mem
  BY <1>4, NotInQuestion, GotoSettles DEF JobLabels
<1>. QED  BY <1>2, <1>3, <1>4 DEF Classify

LEMMA FetchToAnswerSettles ==
    ASSUME IInv, SettlingInv, HandledOnly, NEW r \in Request, FetchToAnswer(r)
    PROVE  SettlingInv'
<1>. pc[r] = "fetchToAnswer" /\ UNCHANGED <<reviews, posts>>
  BY DEF FetchToAnswer
<1>1. "intent" \in mem[r].calls /\ mem[r].diff = NoSha
  BY BillOfTask DEF BillInHand, Unread, Asked
<1>2. CASE Goto(r, "answer") /\ mem' = [mem EXCEPT ![r].diff = pull.head]
  <2>1. PICK m : mem' = [mem EXCEPT ![r] = m] /\ m.calls = mem[r].calls
    <3>. DEFINE looked == [mem[r] EXCEPT !.diff = pull.head]
    <3>1. mem' = [mem EXCEPT ![r] = looked] /\ looked.calls = mem[r].calls
      BY <1>2, TypesOfState DEF Local
    <3>. HIDE DEF looked
    <3>. QED  BY <3>1
  <2>2. BillInHand("answer", m)
    BY <1>1, <2>1 DEF BillInHand, Unread, HandlerLabels, Asked
  <2>. QED  BY <1>2, <2>1, <2>2, QuietSettles DEF Resumes, Goto
<1>3. CASE Goto(r, "finishMention") /\ UNCHANGED mem
  <2>1. BillInHand("finishMention", mem[r])
    BY <1>1 DEF BillInHand, Paid, Unread, HandlerLabels, Asked
  <2>. QED  BY <1>3, <2>1, GotoSettles
<1>. QED  BY <1>2, <1>3, OnlyHandledFaults DEF FetchToAnswer

LEMMA AnswerSettles ==
    ASSUME IInv, SettlingInv, HandledOnly, NEW r \in Request, Answer(r)
    PROVE  SettlingInv'
<1>. pc[r] = "answer" /\ UNCHANGED <<reviews, posts>>
  BY DEF Answer
<1>1. "intent" \in mem[r].calls /\ mem[r].ask \in {"answer", "reconsider"}
  BY BillOfTask, TypesOfState DEF BillInHand, Asked, Local
<1>2. ASSUME NEW label \in {"reply", "finishMention"}, Goto(r, label),
             mem' = [mem EXCEPT ![r].calls = @ \cup {mem[r].ask}]
      PROVE  SettlingInv'
  <2>1. PICK m : mem' = [mem EXCEPT ![r] = m] /\ m.calls = mem[r].calls \cup {mem[r].ask}
    <3>. DEFINE told == [mem[r] EXCEPT !.calls = @ \cup {mem[r].ask}]
    <3>1. mem' = [mem EXCEPT ![r] = told] /\ told.calls = mem[r].calls \cup {mem[r].ask}
      BY <1>2, TypesOfState DEF Local
    <3>. HIDE DEF told
    <3>. QED  BY <3>1
  <2>2. BillInHand(label, m)
    BY <1>1, <2>1 DEF BillInHand, Paid, Unread, HandlerLabels, Asked
  <2>. QED  BY <1>2, <2>1, <2>2, QuietSettles DEF Resumes, Goto
<1>3. CASE Goto(r, "fail") /\ UNCHANGED mem
  BY <1>3, NotInQuestion, GotoSettles DEF JobLabels
<1>. QED  BY <1>2, <1>3 DEF Answer

LEMMA PostReplySettles ==
    ASSUME IInv, SettlingInv, HandledOnly, NEW r \in Request, PostReply(r)
    PROVE  SettlingInv'
<1>. pc[r] = "reply" /\ pc[r] \in TaskLabels /\ UNCHANGED <<mem, reviews>>
  BY DEF PostReply, TaskLabels, MentionLabels
<1>1. Goto(r, "finishMention")
  BY OnlyHandledFaults DEF PostReply
<1>2. /\ Resumes(r, "finishMention", mem[r]) /\ BillInHand("finishMention", mem[r])
      /\ Paid(mem[r].calls, mem[r].diff)
  BY <1>1, BillOfTask, TypesOfState
  DEF Resumes, Goto, BillInHand, Unread, HandlerLabels, Asked
<1>3. CASE posts' = Append(posts, Reply(r))
  <2>1. PICK own \in Review : own = mem[r].row
    BY TaskDelivery
  <2>2. /\ Reply(r) \in Post /\ Reply(r).review = own
        /\ Reply(r).kind # "review" /\ Reply(r).diff = mem[r].diff
    BY <2>1, TypesOfState DEF Reply, Post, Local
  <2>3. /\ DOMAIN posts' = DOMAIN posts \cup {Len(posts) + 1}
        /\ Len(posts) + 1 \notin DOMAIN posts
        /\ \A k \in DOMAIN posts : posts'[k] = posts[k]
        /\ posts'[Len(posts) + 1] = Reply(r)
    BY <1>3, <2>2, TypesOfState, Appended
  <2>4. pc'[r] = "finishMention" /\ \A q \in Request : mem'[q] = mem[q]
    BY <1>2, TypesOfState DEF Resumes
  <2>5. ReviewPosts(own)' = {}
    <3>1. ReviewPosts(own) = {}
      BY <2>1, NothingPostedYet DEF Posting
    <3>. QED  BY <2>2, <2>3, <3>1 DEF ReviewPosts
  <2>6. \A k \in DOMAIN posts :
           posts[k].review = own => posts[k].kind \notin {"reply", "comment"}
    BY <2>1, NothingPostedYet DEF Posting
  <2>7. ASSUME NEW k \in DOMAIN posts', posts'[k].kind \in {"reply", "comment"},
               posts'[k].review = own
        PROVE  BillOnItsWay(posts[k])'
    <3>1. posts'[k] = Reply(r)
      BY <2>3, <2>6, <2>7
    <3>2. /\ pc'[r] = "finishMention" /\ mem'[r].row = posts'[k].review
          /\ Paid(mem'[r].calls, posts'[k].diff)
      BY <1>2, <2>1, <2>2, <2>4, <3>1
    <3>. QED  BY <3>2 DEF BillOnItsWay
  <2>8. PostingOnItsWay(own)' /\ Review' = Review
    BY <2>5 DEF PostingOnItsWay, Review
  <2>. QED  BY <1>2, <2>1, <2>2, <2>3, <2>7, <2>8, OwnRowStep
<1>4. CASE UNCHANGED posts
  BY <1>1, <1>2, <1>4, GotoSettles
<1>. QED  BY <1>3, <1>4, OnlyHandledFaults DEF PostReply

\* The calls of the answer are on record from here on.
LEMMA FinishMentionSettles ==
    ASSUME IInv, SettlingInv, HandledOnly, NEW r \in Request, FinishMention(r)
    PROVE  SettlingInv'
<1>. pc[r] = "finishMention" /\ pc[r] \in TaskLabels /\ UNCHANGED posts
  BY DEF FinishMention, TaskLabels, MentionLabels
<1>1. At("finishMention", mem[r]) /\ mem[r].row \in Review
  BY TaskAtLabel, TaskDelivery
<1>2. ~DuplicateCall(mem[r].row, mem[r].calls)
  BY <1>1 DEF At, Posting, DuplicateCall
<1>3. Return(r) /\ finish_review(mem[r].row, mem[r].calls, FALSE)
  BY <1>2, OnlyHandledFaults DEF FinishMention
<1>4. Resumes(r, "done", Blank) /\ BillInHand("done", Blank)
  BY <1>3, ReturnResumes DEF BillInHand, Unread, HandlerLabels, Asked
<1>5. PICK own \in Review : own = mem[r].row
  BY <1>1
<1>6. /\ Review' = Review
      /\ \A i \in Review : i # own => reviews'[i] = reviews[i]
      /\ reviews'[own].status = "succeeded"
      /\ reviews'[own].calls = reviews[own].calls \cup mem[r].calls
  BY <1>3, <1>5, TypesOfState DEF Review, Row, finish_review
<1>7. PostingOnItsWay(own)'
  BY <1>1, <1>5 DEF PostingOnItsWay, ReviewPosts, At
<1>8. \A q \in Request : q # r => pc'[q] = pc[q] /\ mem'[q] = mem[q]
  BY <1>4, TypesOfState DEF Resumes
<1>9. ASSUME NEW k \in DOMAIN posts', posts'[k].kind \in {"reply", "comment"},
             posts'[k].review = own
      PROVE  BillOnItsWay(posts[k])'
  <2>1. BillOnItsWay(posts[k]) /\ posts'[k] = posts[k]
    BY <1>9 DEF SettlingInv
  <2>2. CASE Paid(reviews[own].calls, posts[k].diff)
    BY <1>6, <1>9, <2>1, <2>2 DEF BillOnItsWay, Paid
  <2>3. ASSUME NEW q \in Request, pc[q] = "finishMention", mem[q].row = own,
               Paid(mem[q].calls, posts[k].diff)
        PROVE  BillOnItsWay(posts[k])'
    BY <1>6, <1>8, <1>9, <2>1, <2>3 DEF BillOnItsWay, Paid
  <2>. QED  BY <1>9, <2>1, <2>2, <2>3 DEF BillOnItsWay
<1>. QED  BY <1>4, <1>5, <1>6, <1>7, <1>9, OwnRowStep

-----------------------------------------------------------------------------
(* The endpoint, and the whole.                                            *)

LEMMA ReceiveSettles ==
    ASSUME IInv, SettlingInv, NEW r \in Request, Receive(r)
    PROVE  SettlingInv'
<1>. pc[r] = "idle" /\ UNCHANGED <<reviews, posts>>
  BY DEF Receive
<1>1. PICK d \in Delivery, label \in {"countMentions", "lookupDelivery", "done"} :
         /\ Goto(r, label)
         /\ mem' = IF label = "done" THEN mem ELSE [mem EXCEPT ![r].delivery = d]
  BY DEF Receive, EntryPoint
<1>2. PICK m : mem' = [mem EXCEPT ![r] = m] /\ m.diff = mem[r].diff
  <2>1. CASE label = "done"
    BY <1>1, <2>1, TypesOfState
  <2>2. CASE label # "done"
    <3>. DEFINE accepted == [mem[r] EXCEPT !.delivery = d]
    <3>1. mem' = [mem EXCEPT ![r] = accepted] /\ accepted.diff = mem[r].diff
      BY <1>1, <2>2, TypesOfState DEF Local
    <3>. HIDE DEF accepted
    <3>. QED  BY <3>1
  <2>. QED  BY <2>1, <2>2
<1>3. BillInHand(label, m)
  BY <1>2, BillOfTask DEF BillInHand, Unread, Asked
<1>. QED  BY <1>1, <1>2, <1>3, QuietSettles DEF Resumes, Goto

LEMMA LookupsSettle ==
    ASSUME IInv, SettlingInv, NEW r \in Request,
           LookupDelivery(r) \/ LookupHead(r) \/ CountMentions(r)
    PROVE  SettlingInv'
<1>1. /\ pc[r] \in HandlerLabels /\ UNCHANGED <<reviews, posts>>
      /\ \/ Return(r)
         \/ UNCHANGED mem /\ \E label \in HandlerLabels : Goto(r, label)
  BY DEF LookupDelivery, LookupHead, CountMentions, StoreRaises, HandlerLabels
<1>2. pc[r] \notin {"record", "finishMention"}
  BY <1>1 DEF HandlerLabels
<1>3. CASE Return(r)
  BY <1>1, <1>2, <1>3, ReturnSettles
<1>4. ASSUME NEW label \in HandlerLabels, Goto(r, label), UNCHANGED mem
      PROVE  SettlingInv'
  <2>1. BillInHand(label, mem[r])
    BY <1>1, BillOfTask DEF BillInHand, Unread, HandlerLabels, Asked
  <2>. QED  BY <1>1, <1>2, <1>4, <2>1, GotoSettles
<1>. QED  BY <1>1, <1>3, <1>4

LEMMA AcceptSettles ==
    ASSUME IInv, SettlingInv, HandledOnly, NEW r \in Request, pc[r] \in HandlerLabels,
           NEW source \in Source, NEW task \in {"fetch", "latestFindings"},
           Accept(r, source, task)
    PROVE  SettlingInv'
<1>. UNCHANGED posts /\ pc[r] \notin {"record", "finishMention"}
  BY DEF Accept, HandlerLabels
<1>1. CASE Return(r) /\ UNCHANGED reviews
  BY <1>1, ReturnSettles
<1>2. CASE /\ start_review(source, mem[r].delivery, RefHead(r))
           /\ mem' = [mem EXCEPT ![r].row = Len(reviews) + 1] /\ Goto(r, task)
  <2>1. PICK m : mem' = [mem EXCEPT ![r] = m] /\ m.diff = mem[r].diff
    <3>. DEFINE accepted == [mem[r] EXCEPT !.row = Len(reviews) + 1]
    <3>1. mem' = [mem EXCEPT ![r] = accepted] /\ accepted.diff = mem[r].diff
      BY <1>2, TypesOfState DEF Local
    <3>. HIDE DEF accepted
    <3>. QED  BY <3>1
  <2>2. Resumes(r, task, m) /\ BillInHand(task, m)
    BY <1>2, <2>1, BillOfTask DEF Resumes, Goto, BillInHand, Unread, Asked
  <2>3. PICK own : own = Len(reviews) + 1
    OBVIOUS
  <2>4. /\ Review' = Review \cup {own} /\ own \notin Review
        /\ \A i \in Review : reviews'[i] = reviews[i]
    <3>1. PICK row \in Row : reviews' = Append(reviews, row)
      <4>1. mem[r].delivery \in Delivery
        <5>. QED  BY DEF IInv, HandlersHaveDeliveries
      <4>2. RefHead(r) \in Sha \cup {NoSha}
        BY <4>1, TypesOfState DEF RefHead, Payload
      <4>3. NewRow(source, mem[r].delivery, RefHead(r)) \in Row
        BY <4>1, <4>2 DEF NewRow, Row, Status
      <4>. QED  BY <1>2, <4>3 DEF start_review
    <3>. QED  BY <2>3, <3>1, TypesOfState, Appended DEF Review
  <2>5. \A k \in DOMAIN posts :
           posts[k].kind \in {"review", "reply", "comment"} => posts[k].review # own
    BY <2>4 DEF SettlingInv, IInv, PublishedIsOnRecord
  <2>6. PostingOnItsWay(own)'
    BY <2>5 DEF PostingOnItsWay, ReviewPosts
  <2>. QED  BY <2>2, <2>4, <2>5, <2>6, OwnRowStep
<1>. QED  BY <1>1, <1>2, OnlyHandledFaults DEF Accept, StoreRaises

LEMMA InitSettling == ASSUME Init PROVE SettlingInv
<1>1. Review = {} /\ DOMAIN posts = {}
  BY DEF Init, Review
<1>2. \A r \in Request : BillInHand(pc[r], mem[r])
  BY DEF Init, BillInHand, Unread, Asked, Blank
<1>. QED  BY <1>1, <1>2 DEF SettlingInv, BillsAreInHand

LEMMA StepSettles ==
    ASSUME IInv, SettlingInv, HandledOnly, NEW r \in Request, Step(r)
    PROVE  SettlingInv'
<1>1. CASE HandlerStep(r)
  <2>1. CASE LookupDelivery(r) \/ LookupHead(r) \/ CountMentions(r)
    BY <2>1, LookupsSettle
  <2>2. CASE StartReview(r)
    BY <2>2, AcceptSettles DEF StartReview, HandlerLabels, Source
  <2>3. CASE StartMention(r)
    BY <2>3, AcceptSettles DEF StartMention, HandlerLabels, Source
  <2>. QED  BY <1>1, <2>1, <2>2, <2>3 DEF HandlerStep
<1>2. CASE JobStep(r)
  BY <1>2, FetchSettles, ExplainSettles, FailSettles, MarkRunningSettles, RunGraphSettles,
     FinishSettles, SendReviewSettles, SendDegradedSettles, RecordSettles DEF JobStep
<1>3. CASE MentionStep(r)
  BY <1>3, LatestFindingsSettles, ClassifySettles, FetchToAnswerSettles, AnswerSettles,
     PostReplySettles, FinishMentionSettles DEF MentionStep
<1>. QED  BY <1>1, <1>2, <1>3 DEF Step

LEMMA NextSettling ==
    ASSUME HandledOnly, IInv, SettlingInv, [Next]_vars
    PROVE  SettlingInv'
<1>1. CASE GitHub
  <2>1. UNCHANGED <<reviews, pc, mem, posts>>
    BY <1>1 DEF GitHub, Open, MarkReady, Reopen, Push, WriteComment, HourPasses, Deliver
  <2>. QED  BY <2>1 DEF SettlingInv, BillsAreInHand, BillInHand, PostingOnItsWay,
                        BillOnItsWay, ReviewPosts, Review
<1>2. ASSUME NEW r \in Request, Receive(r) PROVE SettlingInv'
  BY <1>2, ReceiveSettles
<1>3. ASSUME NEW r \in Request, Step(r) PROVE SettlingInv'
  BY <1>3, StepSettles
<1>4. ~Crash
  BY DEF Crash, HandledOnly, IInv, TypeOK
<1>5. CASE UNCHANGED vars
  BY <1>5 DEF vars, SettlingInv, BillsAreInHand, BillInHand, PostingOnItsWay,
              BillOnItsWay, ReviewPosts, Review
<1>. QED  BY <1>1, <1>2, <1>3, <1>4, <1>5 DEF Next

\* As long as nothing fails but what the code handles and the process stays up,
\* what was posted is in the table or in the hands of the task that puts it there.
THEOREM SettlingInvariance ==
    ASSUME HandledOnly
    PROVE  Spec => []SettlingInv
<1>. QED  BY InitSettling, NextSettling, Invariance, PTL DEF Spec

\* Under the same failures the table tells what became of every review that ran:
\* without a posting it is on no pull request, and with one it is.
THEOREM UndeliveredIsAlwaysLegible ==
    ASSUME HandledOnly
    PROVE  Spec => []UndeliveredIsLegible
<1>1. IInv /\ SettlingInv => UndeliveredIsLegible
  <2>. SUFFICES ASSUME IInv, SettlingInv, NEW i \in Review, ~Working(i)
                PROVE  reviews[i].posted = 0 <=> ReviewPosts(i) = {}
    BY DEF UndeliveredIsLegible
  <2>1. PostingOnItsWay(i)
    BY DEF SettlingInv
  <2>2. ReviewPosts(i) = {} \/ reviews[i].posted # 0
    BY <2>1 DEF PostingOnItsWay, Working, TaskLabels, JobLabels
  <2>. QED  BY <2>2 DEF IInv, RecordedPostingIsReal
<1>. QED  BY <1>1, Invariance, SettlingInvariance, PTL

\* And whoever was given an answer is on record with every call that made it.
THEOREM AnswersAreAlwaysBilled ==
    ASSUME HandledOnly
    PROVE  Spec => []AnswersAreBilled
<1>1. SettlingInv => AnswersAreBilled
  <2>. SUFFICES ASSUME SettlingInv, NEW k \in DOMAIN posts,
                       posts[k].kind \in {"reply", "comment"},
                       ~Working(posts[k].review)
                PROVE  /\ reviews[posts[k].review].status = "succeeded"
                       /\ Paid(reviews[posts[k].review].calls, posts[k].diff)
    BY DEF AnswersAreBilled, Paid
  <2>1. BillOnItsWay(posts[k])
    BY DEF SettlingInv
  <2>. QED  BY <2>1 DEF BillOnItsWay, Working, TaskLabels, MentionLabels
<1>. QED  BY <1>1, SettlingInvariance, PTL
==============================================================================
