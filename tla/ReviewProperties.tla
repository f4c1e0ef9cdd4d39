--------------------------- MODULE ReviewProperties --------------------------
(***************************************************************************)
(* The properties of ReviewGraph.                                          *)
(***************************************************************************)
EXTENDS ReviewGraph

\* Every variable keeps its type.
ReviewTypeOK ==
    /\ stage \in Stage
    /\ diff \in Diffs
    /\ Paths(budget.files) \cup budget.skipped \cup budget.truncated
           \subseteq Paths(diff)
    /\ running \subseteq Agent
    /\ \A i \in DOMAIN findings :
          /\ findings[i].line \in Nat
          /\ findings[i].severity \in Severity
          /\ findings[i].amended \in BOOLEAN
          /\ Range(findings[i].sources) \subseteq Agent
          /\ findings[i].raised # {} /\ findings[i].raised \subseteq reports
    /\ reports \subseteq [agent : Agent, number : 1 .. MaxReported, finding : Reported]
    /\ DOMAIN answers \subseteq DOMAIN budget.files
    /\ retracted \in Nat /\ suppressed \in Nat
    /\ Range(calls) \subseteq Agent \cup {"critic", "merge"}

Posted == IF stage = "done" THEN Range(findings) ELSE {}

\* A report on a file that was reviewed.  A path is normalized by collapse, and
\* again to look it up.
OfTheDiff(r) ==
    \E i \in DOMAIN budget.files :
        normalize_path(budget.files[i].path) = normalize_path(normalize_path(r.finding.file))

\* The reports that no posted finding stands for, those about files that were
\* not reviewed apart.
Unposted == {r \in reports : OfTheDiff(r) /\ \A f \in Posted : r \notin f.raised}

\* Nothing that was reported on the diff vanishes: it is in one posted finding,
\* or the counts of withheld and retracted findings say that something is not
\* (graph/dedupe.py:189-199, models.py:124-146).
ReportsAreAccountedFor ==
    stage = "done" =>
        /\ Unposted = {} <=> retracted + suppressed = 0
        /\ retracted + suppressed <= Cardinality(Unposted)
        /\ \A f, g \in Posted : f # g => f.raised \cap g.raised = {}

\* Whatever merged it, a finding names exactly the agents that raised it, once
\* each (graph/dedupe.py:152-156, models.py:21-24).
SourcesAreAuthors ==
    \A i \in DOMAIN findings :
        /\ Range(findings[i].sources) = {r.agent : r \in findings[i].raised}
        /\ IsInjective(findings[i].sources)

Worst(f) == Max({r.finding.severity : r \in f.raised})

\* No answer of the model rates a finding above what its agents said, and only
\* what was rated high comes down (graph/critic.py "Severity is never raised").
SeverityIsEarned ==
    \A f \in Posted : f.severity <= Worst(f) /\ (f.severity < Worst(f) => Worst(f) = High)

\* Agreement does not raise confidence: a finding is as sure as the surest of
\* its reports, and no judgement makes it surer (graph/dedupe.py:161-167).
ConfidenceIsEarned ==
    \A i \in DOMAIN findings :
        findings[i].confidence = Max({r.finding.confidence : r \in findings[i].raised})

\* Through collapsing, anchoring and merging, no line drifts: the one a finding
\* is about is near a line that one of its reports named (anchors.py SNAP_TOLERANCE).
LinesAreReported ==
    \A i \in DOMAIN findings : findings[i].line # NoLine =>
        \E r \in findings[i].raised :
            /\ r.finding.line # NoLine
            /\ Distance(r.finding.line, findings[i].line) <= SnapTolerance

\* An inline comment sits on a line of a file of the diff, where a comment may
\* be: one that does not makes GitHub refuse the whole review (anchors.py).
CommentsAreOnTheDiff ==
    \A f \in Posted : \E i \in DOMAIN budget.files :
        /\ f.file = budget.files[i].path
        /\ f.line # NoLine => f.line \in anchorable_lines(budget.files[i])

\* The calls of a run can be stored: an agent, the critic and the merge pass
\* call once each (db/models.py UNIQUE(review_id, agent)).
OneCallEach == IsInjective(calls)

\* What the critic lowered says so, up to the merge pass, which forgets it
\* (models.py:111-120, graph/dedupe.py:159-175).
LoweredIsMarked ==
    "merge" \notin Range(calls) =>
        \A i \in DOMAIN findings : findings[i].severity < Worst(findings[i])
                                      => findings[i].amended

-----------------------------------------------------------------------------
(* The abstract promise, under the mapping from findings to claims.         *)

LedgerState ==
    CASE stage \in {"prepare", "agents"} -> "open"
      [] stage \in {"critic", "merge"}   -> "checking"
      [] OTHER                           -> stage

Claims == {findings[i].raised : i \in DOMAIN findings}

Foreign == {r \in reports : ~OfTheDiff(r)}

Ledger == INSTANCE ReviewLedger WITH state <- LedgerState,
                                     claims <- Claims,
                                     foreign <- Foreign

\* The graph implements ReviewLedger: step by step, no claim is split, comes
\* back, or goes away uncounted, and nothing is held back before the end.
ImplementsLedger == Ledger!Spec
=============================================================================
