------------------------------- MODULE Critic --------------------------------
(***************************************************************************)
(* The pure half of the critic pass (graph/critic.py): which findings are  *)
(* judged, how they are grouped into calls, and what becomes of the        *)
(* answers.  A verdict names a finding by its position in the list.        *)
(***************************************************************************)
EXTENDS Anchors

CONSTANTS
    CriticMaxFindings   \* settings.critic_max_findings

ASSUME CriticAssumption == CriticMaxFindings \in Nat

\* What a verdict says: reworded is a title or body that differs, severity is 0
\* for None, prevents is code_prevents_it.
Judgement == [verdict : {"keep", "amend", "drop"}, prevents : BOOLEAN,
              severity : {0} \cup Severity, reworded : BOOLEAN]

Kept == [verdict |-> "keep", prevents |-> FALSE, severity |-> 0, reworded |-> FALSE]

\* The findings with a line that is in the diff, the earliest of them; the cap is
\* tested after a finding is taken, so it never leaves none.
judgeable(findings, files) ==
    LET Judged(i) == /\ findings[i].line # NoLine
                     /\ by_path(files, findings[i].file) # 0
                     /\ findings[i].line \in
                            anchorable_lines(files[by_path(files, findings[i].file)])
        eligible == {i \in DOMAIN findings : Judged(i)}
    IN  {i \in eligible :
           Cardinality({j \in eligible : j < i}) < Max({1, CriticMaxFindings})}

\* The calls: the files with a finding to judge, in the order of their first.
by_file(findings, files, judged) ==
    LET File(i) == by_path(files, findings[i].file)
        first == {i \in judged : \A j \in judged : File(j) = File(i) => i <= j}
    IN  [k \in 1 .. Cardinality(first) |-> File(Nth(first, k))]

\* Mutant: a severity of None is taken for a lower one.
amend_to_none(finding, judgement) ==
    LET lowers == /\ judgement.severity < finding.severity
                  /\ judgement.prevents
                  /\ finding.severity = High
        severity == IF lowers THEN judgement.severity ELSE finding.severity
    IN  [finding EXCEPT !.severity = severity,
                        !.amended = @ \/ lowers \/ judgement.reworded]

\* Mutant: what may not be lowered is lowered.
amend_as_told(finding, judgement) ==
    LET severity == IF judgement.severity # 0 THEN judgement.severity ELSE finding.severity
    IN  [finding EXCEPT !.severity = severity, !.amended = TRUE]

\* Mutant: only a rewording counts as an amendment.
amend_unmarked(finding, judgement) ==
    LET lowers == /\ judgement.severity \in 1 .. finding.severity - 1
                  /\ judgement.prevents
                  /\ finding.severity = High
        severity == IF lowers THEN judgement.severity ELSE finding.severity
    IN  [finding EXCEPT !.severity = severity, !.amended = @ \/ judgement.reworded]

\* A severity only comes down, from high, and when the code prevents the problem;
\* an amendment that changes nothing is none.
amend(finding, judgement) ==
    LET lowers == /\ judgement.severity \in 1 .. finding.severity - 1
                  /\ judgement.prevents
                  /\ finding.severity = High
        severity == IF lowers THEN judgement.severity ELSE finding.severity
    IN  [finding EXCEPT !.severity = severity,
                        !.amended = @ \/ lowers \/ judgement.reworded]

\* The first verdict on a finding that was asked about.
first_verdict(verdicts, asked, i) ==
    LET about == Filter(verdicts, LAMBDA v : v.index = i)
    IN  IF i \notin asked \/ about = <<>> THEN Kept ELSE about[1].judgement

\* Mutant: every verdict of a drop is counted, on whatever finding.
apply_verdicts_overcounted(findings, verdicts, asked) ==
    LET Told(i) == first_verdict(verdicts, asked, i)
        survivors == Filter([i \in DOMAIN findings |-> i],
                               LAMBDA i : Told(i).verdict # "drop")
        After(i) == IF Told(i).verdict = "amend" THEN amend(findings[i], Told(i))
                    ELSE findings[i]
    IN  [findings  |-> [k \in DOMAIN survivors |-> After(survivors[k])],
         retracted |-> Len(Filter(verdicts, LAMBDA v : v.judgement.verdict = "drop"))]

apply_verdicts(findings, verdicts, asked) ==
    LET Told(i) == first_verdict(verdicts, asked, i)
        survivors == Filter([i \in DOMAIN findings |-> i],
                               LAMBDA i : Told(i).verdict # "drop")
        After(i) == IF Told(i).verdict = "amend" THEN amend(findings[i], Told(i))
                    ELSE findings[i]
    IN  [findings  |-> [k \in DOMAIN survivors |-> After(survivors[k])],
         retracted |-> Len(findings) - Len(survivors)]
=============================================================================
