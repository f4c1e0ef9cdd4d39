------------------------------ MODULE MCService ------------------------------
(***************************************************************************)
(* WebhookService on small instances.                                      *)
(***************************************************************************)
EXTENDS ServiceInvariant, TLC

\* Requests and delivery ids are interchangeable in the safety runs.
Symmetry == Permutations(Request) \cup Permutations(Delivery)

PullRequestOnly == {"opened", "reopened", "ready_for_review", "synchronize"}
OpenedAndComments == {"opened", "issue_comment", "pull_request_review_comment"}

AllFaults == {"store", "commit", "github", "transport", "graph", "model"}
HandledFaults == {"github", "graph", "model"}
Connection == {"transport"}
NoFaults == {}

Written(action, author, text) ==
    [action |-> action, author |-> author, text |-> text]
NoComments == {}
OneQuestion == {Written("created", "collaborator", "words")}
BareOrQuestion == OneQuestion \cup {Written("created", "collaborator", "bare")}
AllComments == BareOrQuestion \cup {Written("created", "self", "words"),
                                   Written("edited", "collaborator", "words")}
=============================================================================
