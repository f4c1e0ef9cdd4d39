-------------------------- MODULE ServiceInvariant ---------------------------
(***************************************************************************)
(* The inductive invariant of WebhookService.  Its core is At: what the    *)
(* table and the pull request hold for a task, given only the label the    *)
(* task has reached.  Because no two tasks share a row, what one of them   *)
(* does leaves the others' At alone.                                       *)
(***************************************************************************)
EXTENDS ServiceProperties

Unbegun == MentionLabels \cup {"fetch", "explain", "markRunning"}
Unfinished == {"review", "finish"}
Posting == {"post", "repost", "record"}

\* A task at label, with the locals m.
At(label, m) ==
    /\ m.row \in Review
    /\ reviews[m.row].delivery = m.delivery
    /\ label \in Unbegun => reviews[m.row].status = "pending"
    /\ label \in Unfinished => reviews[m.row].status = "running"
    /\ label = "fail" => \/ reviews[m.row].status \in {"pending", "running"}
                         \/ Fault("commit") /\ Standing(reviews[m.row]) = "answered"
    /\ label \in Posting => Standing(reviews[m.row]) \in {"running", "succeeded"}
    /\ label \notin Posting \cup {"fail"} => reviews[m.row].calls = {}
    /\ label \in MentionLabels => "graph" \notin m.calls
    /\ label = "finish" => "graph" \in m.calls
    /\ label # "record" => ReviewPosts(m.row) = {}
    /\ label = "record" => /\ m.posted \in ReviewPosts(m.row)
                           /\ posts[m.posted].comments = m.comments

TasksAreAt == \A r \in Request : pc[r] \in TaskLabels => At(pc[r], mem[r])

TasksAreApart == \A r, q \in Request :
    /\ pc[r] \in TaskLabels
    /\ pc[q] \in TaskLabels
    /\ mem[r].row = mem[q].row
    => r = q

HandlersHaveDeliveries == \A r \in Request :
    pc[r] \in HandlerLabels => mem[r].delivery \in Delivery

OthersHaveNoCalls == \A r \in Request :
    pc[r] \notin TaskLabels => mem[r].calls = {}

RowsAreApart == \A i, j \in Review :
    reviews[i].delivery = reviews[j].delivery => i = j

PostsAreApart == \A j, k \in DOMAIN posts :
    /\ posts[j].kind = "review"
    /\ posts[k].kind = "review"
    /\ posts[j].review = posts[k].review
    => j = k

\* The table, the tasks and the pull request fit together: every task is where
\* its row and the posts say, rows, tasks and posts are one to one, and nothing
\* is on the pull request that the table does not know of (webhook.py steps 2 to
\* 4 and jobs.py, with every failure and crash between any two awaits).
IInv ==
    /\ TypeOK
    /\ RowsAreApart
    /\ HandlersHaveDeliveries
    /\ OthersHaveNoCalls
    /\ TasksAreAt
    /\ TasksAreApart
    /\ PostsAreApart
    /\ PublishedIsOnRecord
    /\ RecordedPostingIsReal

-----------------------------------------------------------------------------
(* With handled failures only: what is on the way to the table.            *)

\* Nothing fails but what the code handles, and the process stays up.
HandledOnly ==
    /\ Faults \subseteq {"github", "graph", "model"}
    /\ MaxCrashes = 0

Unread == HandlerLabels \cup {"idle", "latestFindings", "classify", "fetchToAnswer"}
Asked == {"fetchToAnswer", "answer", "reply", "finishMention"}

\* What the calls of an answer have to hold, given the diff it was made from.
Paid(calls, looked) ==
    /\ "intent" \in calls
    /\ looked # NoSha => calls \cap {"answer", "reconsider"} # {}

\* A mention has seen a diff only once it fetched one, and keeps its calls.
BillInHand(label, m) ==
    /\ label \in Unread => m.diff = NoSha
    /\ label \in Asked => "intent" \in m.calls
    /\ label \in {"reply", "finishMention"} => Paid(m.calls, m.diff)

BillsAreInHand == \A r \in Request : BillInHand(pc[r], mem[r])

\* A review that was posted is on record, or its task is about to record it.
PostingOnItsWay(i) ==
    \/ ReviewPosts(i) = {}
    \/ reviews[i].posted # 0
    \/ \E r \in Request : pc[r] = "record" /\ mem[r].row = i

\* The calls of an answer that was given are on record, or its task is about to
\* save them.
BillOnItsWay(post) ==
    \/ /\ reviews[post.review].status = "succeeded"
       /\ Paid(reviews[post.review].calls, post.diff)
    \/ \E r \in Request : /\ pc[r] = "finishMention" /\ mem[r].row = post.review
                          /\ Paid(mem[r].calls, post.diff)

\* What was posted is in the table or in the hands of the one task that will
\* put it there (jobs.py _post, dispatch.py "extra_calls").
SettlingInv ==
    /\ BillsAreInHand
    /\ \A i \in Review : PostingOnItsWay(i)
    /\ \A k \in DOMAIN posts :
          posts[k].kind \in {"reply", "comment"} =>
              posts[k].review \in Review /\ BillOnItsWay(posts[k])
=============================================================================
