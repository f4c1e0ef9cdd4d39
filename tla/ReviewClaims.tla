---------------------------- MODULE ReviewClaims -----------------------------
(***************************************************************************)
(* What the comments of the review pipeline say of it and the code does    *)
(* not keep.                                                               *)
(***************************************************************************)
EXTENDS MCReview

\* A posted finding is about a file of the diff, under that file's own name, so
\* that its comment can be placed (anchors.py:1-8, github/positions.py:3-8).
CommentsFitAnyPath ==
    \A f \in Posted : f.file \in Paths(budget.files)

\* A finding is retracted only by the call that was shown it
\* (graph/critic.py:343-345, "the one that was never shown").
VerdictsAreAnswers ==
    [][retracted' <= Cardinality({i \in Judged :
          \E k \in DOMAIN answers :
              /\ k = by_path(budget.files, findings[i].file)
              /\ \E n \in DOMAIN answers[k] : /\ answers[k][n].index = i
                                             /\ answers[k][n].judgement.verdict = "drop"})]_retracted
=============================================================================
