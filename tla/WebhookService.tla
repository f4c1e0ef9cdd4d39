--------------------------- MODULE WebhookService ----------------------------
(***************************************************************************)
(* The whole service around one pull request: GitHub makes deliveries and  *)
(* sends each of them any number of times, the endpoint (api/webhook.py)   *)
(* screens a request, looks the delivery and the commit up, and accepts    *)
(* it; an accepted request goes on as the background task of ReviewJob or  *)
(* MentionDispatch.  Requests interleave at their awaits.  A crash loses   *)
(* every coroutine and keeps the table.                                    *)
(***************************************************************************)
EXTENDS MentionDispatch

CONSTANTS
    EventKinds,     \* bound: what happens on the pull request
    CommentKinds,   \* bound: the comments people write
    MaxCrashes,     \* bound: crashes of the process
    MaxMentions,    \* settings.max_mention_responses_per_hour
    ReviewOnSynchronize     \* settings.review_on_synchronize

VARIABLES
    knowsSelf,      \* deps.self_login is not None
    crashes

vars == <<reviews, cutoff, pc, mem, sent, pull, posts, knowsSelf, crashes>>

TriggerActions == {"opened", "reopened", "ready_for_review"}
PullRequestActions == TriggerActions \cup {"synchronize"}
CommentEvents == {"issue_comment", "pull_request_review_comment"}

\* Who wrote a comment: the account of the token (a person's, and the owner),
\* somebody trusted, a stranger, or a GitHub app.
Author == {"self", "collaborator", "stranger", "bot"}
Comment == [action : {"created", "edited"}, author : Author,
            text : {"none", "bare", "words"}]

ASSUME ServiceAssumption ==
    /\ EventKinds \subseteq PullRequestActions \cup CommentEvents
    /\ CommentKinds \subseteq Comment
    /\ MaxCrashes \in Nat
    /\ MaxMentions \in Nat
    /\ ReviewOnSynchronize \in BOOLEAN

Payload == [event  : {"none", "pull_request"} \cup CommentEvents,
            action : PullRequestActions \cup {"none", "created", "edited"},
            draft  : BOOLEAN,
            head   : Sha \cup {NoSha},
            author : Author,
            text   : {"none", "bare", "words"}]

NotSent == [event |-> "none", action |-> "none", draft |-> FALSE,
            head |-> NoSha, author |-> "stranger", text |-> "none"]

HandlerLabels == {"lookupDelivery", "lookupHead", "start", "countMentions",
                  "startMention"}
JobLabels == {"fetch", "explain", "fail", "markRunning", "review", "finish",
              "post", "repost", "record"}
MentionLabels == {"latestFindings", "classify", "fetchToAnswer", "answer",
                  "reply", "finishMention"}
TaskLabels == JobLabels \cup MentionLabels
Labels == HandlerLabels \cup TaskLabels \cup {"idle", "done"}

\* whoami at startup; without an answer the service runs without a login.
SelfLogin == {TRUE, ~(Fault("github") \/ Fault("transport"))}

Init ==
    /\ reviews = <<>>
    /\ cutoff = 0
    /\ pc = [r \in Request |-> "idle"]
    /\ mem = [r \in Request |-> Blank]
    /\ sent = [d \in Delivery |-> NotSent]
    /\ pull \in [open : BOOLEAN, draft : {FALSE}, head : {1}] \* open before the hook?
    /\ posts = <<>>
    /\ knowsSelf \in SelfLogin
    /\ crashes = 0

-----------------------------------------------------------------------------
(* What happens on GitHub.  Every event of the hook is one delivery.       *)

Deliver(d, payload) ==
    /\ sent[d] = NotSent
    /\ sent' = [sent EXCEPT ![d] = payload]
    /\ UNCHANGED <<reviews, cutoff, pc, mem, posts, knowsSelf, crashes>>

PullRequestEvent(action, draft, head) ==
    [NotSent EXCEPT !.event = "pull_request", !.action = action,
                    !.draft = draft, !.head = head]

Open(d) ==
    /\ "opened" \in EventKinds /\ ~pull.open
    /\ \E draft \in BOOLEAN :
          /\ draft => "ready_for_review" \in EventKinds
          /\ pull' = [pull EXCEPT !.open = TRUE, !.draft = draft]
          /\ Deliver(d, PullRequestEvent("opened", draft, pull.head))

MarkReady(d) ==
    /\ "ready_for_review" \in EventKinds /\ pull.open /\ pull.draft
    /\ pull' = [pull EXCEPT !.draft = FALSE]
    /\ Deliver(d, PullRequestEvent("ready_for_review", FALSE, pull.head))

\* Closed and opened again; closing is not a trigger.
Reopen(d) ==
    /\ "reopened" \in EventKinds /\ pull.open
    /\ Deliver(d, PullRequestEvent("reopened", pull.draft, pull.head))
    /\ UNCHANGED pull

Push(d) ==
    /\ "synchronize" \in EventKinds /\ pull.open /\ pull.head < MaxHead
    /\ pull' = [pull EXCEPT !.head = @ + 1]
    /\ Deliver(d, PullRequestEvent("synchronize", pull.draft, pull.head + 1))

\* Only a comment in an inline thread carries the pull request's head.
WriteComment(d) ==
    /\ pull.open
    /\ \E event \in CommentEvents \cap EventKinds, c \in CommentKinds :
          /\ c.author = "self" => posts # <<>>
          /\ Deliver(d, [event |-> event, action |-> c.action, draft |-> FALSE,
                         head |-> IF event = "issue_comment" THEN NoSha
                                  ELSE pull.head,
                         author |-> c.author, text |-> c.text])
    /\ UNCHANGED pull

HourPasses ==
    /\ cutoff < Len(reviews)
    /\ CommentEvents \cap EventKinds # {}
    /\ cutoff' = cutoff + 1
    /\ UNCHANGED <<reviews, pc, mem, sent, pull, posts, knowsSelf, crashes>>

GitHub ==
    \/ \E d \in Delivery :
          Open(d) \/ MarkReady(d) \/ Reopen(d) \/ Push(d) \/ WriteComment(d)
    \/ HourPasses

-----------------------------------------------------------------------------
(* The endpoint.                                                           *)

\* _handle_comment up to its first await.
Addressed(p) ==
    /\ p.action = "created"
    /\ ~(knowsSelf /\ p.author = "self")
    /\ p.author \in {"self", "collaborator"}
    /\ p.text # "none"

\* github_webhook up to its first lookup.
Triggers(p) ==
    /\ \/ p.action \in TriggerActions
       \/ ReviewOnSynchronize /\ p.action = "synchronize"
    /\ ~p.draft

EntryPoint(p) ==
    CASE p.event \in CommentEvents /\ Addressed(p)  -> "countMentions"
      [] p.event = "pull_request" /\ Triggers(p)    -> "lookupDelivery"
      [] OTHER                                      -> "done"

\* A request with a bad signature or for a repository that is not listed is
\* turned away; so is what nobody asked the service to act on.
Receive(r) ==
    /\ pc[r] = "idle"
    /\ \E d \in Delivery, authentic \in BOOLEAN :
          /\ sent[d] # NotSent
          /\ LET label == IF authentic THEN EntryPoint(sent[d]) ELSE "done" IN
                /\ Goto(r, label)
                /\ mem' = IF label = "done" THEN mem
                          ELSE [mem EXCEPT ![r].delivery = d]
    /\ UNCHANGED <<reviews, cutoff, sent, pull, posts>>

\* An awaited store call of the handler raises: the request answers 500.
StoreRaises(r) ==
    /\ Fault("store")
    /\ Return(r)

LookupDelivery(r) ==
    /\ pc[r] = "lookupDelivery"
    /\ \/ IF find_review_by_delivery(mem[r].delivery) # 0
          THEN Return(r)
          ELSE Goto(r, "lookupHead") /\ UNCHANGED mem
       \/ StoreRaises(r)
    /\ UNCHANGED <<reviews, cutoff, sent, pull, posts>>

\* Only a failed review of the commit is repeated.
AlreadyReviewed(h) ==
    LET already == find_latest_review_for_head(h)
    IN  already # 0 /\ reviews[already].status # "failed"

LookupHead(r) ==
    /\ pc[r] = "lookupHead"
    /\ \/ IF AlreadyReviewed(RefHead(r))
          THEN Return(r)
          ELSE Goto(r, "start") /\ UNCHANGED mem
       \/ StoreRaises(r)
    /\ UNCHANGED <<reviews, cutoff, sent, pull, posts>>

CountMentions(r) ==
    /\ pc[r] = "countMentions"
    /\ \/ IF count_recent_mentions >= MaxMentions
          THEN Return(r)
          ELSE Goto(r, "startMention") /\ UNCHANGED mem
       \/ StoreRaises(r)
    /\ UNCHANGED <<reviews, cutoff, sent, pull, posts>>

\* Mutant: the second copy of a delivery takes the recorded review over.
AcceptOrResume(r, source, task) ==
    /\ \/ /\ start_review(source, mem[r].delivery, RefHead(r))
          /\ mem' = [mem EXCEPT ![r].row = Len(reviews) + 1]
       \/ /\ DuplicateDelivery(mem[r].delivery)
          /\ mem' = [mem EXCEPT ![r].row = find_review_by_delivery(mem[r].delivery)]
          /\ UNCHANGED reviews
    /\ Goto(r, task)
    /\ UNCHANGED <<cutoff, sent, pull, posts>>

\* start_review, then the 202 and the background task; the loser of a race
\* between two copies of a delivery is ignored.  A row whose insert raised has no
\* task, and its delivery is a duplicate from then on.
Accept(r, source, task) ==
    /\ \/ /\ start_review(source, mem[r].delivery, RefHead(r))
          /\ \/ /\ mem' = [mem EXCEPT ![r].row = Len(reviews) + 1]
                /\ Goto(r, task)
             \/ /\ Fault("commit")
                /\ Return(r)
       \/ /\ DuplicateDelivery(mem[r].delivery)
          /\ Return(r)
          /\ UNCHANGED reviews
       \/ /\ StoreRaises(r)
          /\ UNCHANGED reviews
    /\ UNCHANGED <<cutoff, sent, pull, posts>>

StartReview(r) == pc[r] = "start" /\ Accept(r, "webhook", "fetch")

StartMention(r) == pc[r] = "startMention" /\ Accept(r, "mention", "latestFindings")

HandlerStep(r) ==
    \/ LookupDelivery(r) \/ LookupHead(r) \/ StartReview(r)
    \/ CountMentions(r) \/ StartMention(r)

-----------------------------------------------------------------------------

\* The process dies and starts again: whoami is asked anew, and may fail.
Crash ==
    /\ crashes < MaxCrashes
    /\ crashes' = crashes + 1
    /\ pc' = [r \in Request |-> IF pc[r] = "idle" THEN "idle" ELSE "done"]
    /\ mem' = [r \in Request |-> Blank]
    /\ knowsSelf' \in SelfLogin
    /\ UNCHANGED <<reviews, cutoff, sent, pull, posts>>

\* A request goes on once it has been received.
Step(r) ==
    /\ HandlerStep(r) \/ JobStep(r) \/ MentionStep(r)
    /\ UNCHANGED <<knowsSelf, crashes>>

Next ==
    \/ GitHub
    \/ \E r \in Request : Receive(r) /\ UNCHANGED <<knowsSelf, crashes>>
    \/ \E r \in Request : Step(r)
    \/ Crash

Spec == Init /\ [][Next]_vars

\* The event loop resumes every coroutine whose call has returned, and every
\* call returns: GitHub's and the model's have timeouts.
Fairness == \A r \in Request : WF_vars(Step(r))

FairSpec == Spec /\ Fairness
=============================================================================
