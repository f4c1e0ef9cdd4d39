--------------------------- MODULE MentionDispatch ---------------------------
(***************************************************************************)
(* respond_to_mention (mentions/dispatch.py): read a comment addressed to  *)
(* the bot, and review the pull request, answer the question or reconsider *)
(* a finding.  A review runs review_pull_request of ReviewJob on the       *)
(* mention's own row, which then settles it; otherwise the mention settles *)
(* the row itself.                                                         *)
(***************************************************************************)
EXTENDS ReviewJob

Action == {"full_review", "focused_review", "answer_question", "reconsider"}

Event(r) == sent[mem[r].delivery]

\* A comment with nothing but the handle in it is not put to the model.
IsBare(r) == Event(r).text = "bare"

\* Where handle_mention goes with an intent.
Route(r, action) ==
    IF action \in {"full_review", "focused_review"} THEN "fetch"
    ELSE IF mem[r].prior = 0 THEN "reply"       \* "I haven't reviewed this yet"
    ELSE "fetchToAnswer"

\* A reconsider that names no real finding is answered as a question.
Ask(action, target) ==
    IF action = "reconsider" /\ target THEN "reconsider" ELSE "answer"

\* Answer where the question was asked: in the thread or the conversation.
Reply(r) ==
    [review |-> mem[r].row,
     kind |-> IF Event(r).event = "pull_request_review_comment"
              THEN "reply" ELSE "comment",
     commit |-> NoSha, diff |-> mem[r].diff, comments |-> 0]

-----------------------------------------------------------------------------

LatestFindings(r) ==
    /\ pc[r] = "latestFindings"
    /\ \/ /\ mem' = [mem EXCEPT ![r].prior = latest_findings]
          /\ Goto(r, "classify")
       \/ /\ Fault("store")
          /\ Goto(r, "fail")
          /\ UNCHANGED mem
    /\ UNCHANGED <<reviews, cutoff, sent, pull, posts>>

\* A refusal or an API error reads as answer_question; the thread's own
\* finding, or the model's guess, may or may not be one that was reported.
Classify(r) ==
    /\ pc[r] = "classify"
    /\ \/ /\ IsBare(r)
          /\ Goto(r, Route(r, "full_review"))
          /\ UNCHANGED mem
       \/ /\ ~IsBare(r)
          /\ \E action \in Action, target \in BOOLEAN :
                /\ mem' = [mem EXCEPT ![r].calls = {"intent"},
                                      ![r].ask = Ask(action, target)]
                /\ Goto(r, Route(r, action))
       \/ /\ ~IsBare(r) /\ Fault("model")
          /\ Goto(r, "fail")
          /\ UNCHANGED mem
    /\ UNCHANGED <<reviews, cutoff, sent, pull, posts>>

FetchToAnswer(r) ==
    /\ pc[r] = "fetchToAnswer"
    /\ \/ /\ mem' = [mem EXCEPT ![r].diff = pull.head]
          /\ Goto(r, "answer")
       \/ /\ Fault("github")
          /\ Goto(r, "finishMention")
          /\ UNCHANGED mem
       \/ /\ Fault("transport")
          /\ Goto(r, "fail")
          /\ UNCHANGED mem
    /\ UNCHANGED <<reviews, cutoff, sent, pull, posts>>

\* Mutant: the answer's call takes the place of the classifier's.
AnswerAlone(r) ==
    /\ pc[r] = "answer"
    /\ \/ /\ mem' = [mem EXCEPT ![r].calls = {mem[r].ask}]
          /\ \E label \in {"reply", "finishMention"} : Goto(r, label)
       \/ /\ Fault("model")
          /\ Goto(r, "fail")
          /\ UNCHANGED mem
    /\ UNCHANGED <<reviews, cutoff, sent, pull, posts>>

\* reconsider or answer_question; no usable answer leaves nothing to post.
Answer(r) ==
    /\ pc[r] = "answer"
    /\ \/ /\ mem' = [mem EXCEPT ![r].calls = @ \cup {mem[r].ask}]
          /\ \E label \in {"reply", "finishMention"} : Goto(r, label)
       \/ /\ Fault("model")
          /\ Goto(r, "fail")
          /\ UNCHANGED mem
    /\ UNCHANGED <<reviews, cutoff, sent, pull, posts>>

\* _post_reply: GitHub's refusal loses the reply and not the row; a lost
\* connection fails the row.
PostReply(r) ==
    /\ pc[r] = "reply"
    /\ \/ /\ posts' = Append(posts, Reply(r))
          /\ \/ Goto(r, "finishMention")
             \/ Fault("transport") /\ Goto(r, "fail")
       \/ /\ \/ Fault("github") /\ Goto(r, "finishMention")
             \/ Fault("transport") /\ Goto(r, "fail")
          /\ UNCHANGED posts
    /\ UNCHANGED <<mem, reviews, cutoff, sent, pull>>

\* A save that raises fails the row, a save that was committed included.
FinishMention(r) ==
    /\ pc[r] = "finishMention"
    /\ \/ /\ finish_review(mem[r].row, mem[r].calls, FALSE)
          /\ \/ Return(r)
             \/ Fault("commit") /\ Goto(r, "fail") /\ UNCHANGED mem
       \/ /\ Fault("store") \/ DuplicateCall(mem[r].row, mem[r].calls)
          /\ Goto(r, "fail")
          /\ UNCHANGED <<mem, reviews>>
    /\ UNCHANGED <<cutoff, sent, pull, posts>>

MentionStep(r) ==
    \/ LatestFindings(r) \/ Classify(r) \/ FetchToAnswer(r)
    \/ Answer(r) \/ PostReply(r) \/ FinishMention(r)
=============================================================================
