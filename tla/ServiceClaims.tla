---------------------------- MODULE ServiceClaims ----------------------------
(***************************************************************************)
(* What the repository's comments say of the service and the code does not *)
(* keep.  Each claim is checked by a run of its own, which finds it        *)
(* violated.                                                               *)
(***************************************************************************)
EXTENDS MCService

\* A commit is reviewed once: of two webhook reviews of it, the earlier failed
\* (persistence.py:204-208; README.md:215).
OneReviewPerCommit ==
    \A i, j \in Review :
        /\ i < j
        /\ reviews[i].source = "webhook" /\ reviews[j].source = "webhook"
        /\ reviews[i].head = reviews[j].head
        => reviews[i].status = "failed"

\* A pull request that leaves its draft state is reviewed: the delivery is only
\* turned away when the commit was, or may yet be, reviewed (webhook.py:244-246).
ReadyIsReviewed ==
    [][\A r \in Request : pc[r] = "lookupHead" /\ pc'[r] = "done" =>
          \E i \in Review : /\ reviews[i].head = RefHead(r)
                            /\ \/ reviews[i].source = "webhook"
                               \/ "graph" \in reviews[i].calls
                               \/ Working(i)]_vars

\* As long as the process has not died, a row that is not settled has a task at
\* work on it (persistence.py:115-120; jobs.py:9-11).
UnsettledMeansDied ==
    crashes = 0 => \A i \in Review :
        reviews[i].status \in {"pending", "running"} => Working(i)

\* Inline comments are pinned to the commit whose diff was reviewed
\* (github/positions.py:61-63).
AnchorsFitTheDiff ==
    \A k \in DOMAIN posts : posts[k].comments # 0 => posts[k].commit = posts[k].diff
=============================================================================
