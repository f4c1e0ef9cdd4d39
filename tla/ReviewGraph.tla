----------------------------- MODULE ReviewGraph -----------------------------
(***************************************************************************)
(* One run of the review graph (graph/build.py, graph/nodes.py): the diff  *)
(* is fitted to the budget, the agents review it at once, and finalize     *)
(* collapses, anchors, checks, merges, ranks and cuts what they found.     *)
(* The agents' requests and the critic's, one for each file, are answered  *)
(* in any order; each may fail, or raise what its caller does not catch,   *)
(* which ends the run.  The code between two awaits is one step.           *)
(***************************************************************************)
EXTENDS Budget, Critic, LlmMerge

CONSTANTS
    Diffs,              \* bound: the diffs
    Reported,           \* bound: what an agent may report
    MaxReported,        \* bound: how many findings an agent reports
    Judgements,         \* bound: what a verdict may say
    MaxVerdicts,        \* bound: how many verdicts or decisions an answer holds
    Raises,             \* whether a request raises what nobody catches
    EnableCritic,       \* settings.enable_critic
    EnableLlmMerge      \* settings.enable_llm_merge

ASSUME GraphAssumption ==
    /\ Diffs \subseteq Seq(Entry)
    /\ Reported \subseteq Reportable
    /\ {MaxReported, MaxVerdicts} \subseteq Nat
    /\ Judgements \subseteq Judgement
    /\ Agent \cap {"critic", "merge"} = {}
    /\ {Raises, EnableCritic, EnableLlmMerge} \subseteq BOOLEAN

VARIABLES
    stage,          \* the node at work
    diff,           \* the diff's entries
    budget,         \* what prepare_diff wrote
    running,        \* the agents whose request is not answered
    findings,       \* the findings in hand
    reports,        \* every report of every agent, a history
    answers,        \* the verdicts of each call of the critic, by file
    retracted,      \* retracted_count
    suppressed,     \* suppressed_count
    calls           \* who made a call, in order

vars == <<stage, diff, budget, running, findings, reports, answers,
          retracted, suppressed, calls>>

Stage == {"prepare", "agents", "critic", "merge", "done", "raised"}

Init ==
    /\ stage = "prepare"
    /\ diff \in Diffs
    /\ budget = [files |-> <<>>, skipped |-> {}, truncated |-> {}]
    /\ running = {}
    /\ findings = <<>>
    /\ reports = {}
    /\ answers = <<>>
    /\ retracted = 0
    /\ suppressed = 0
    /\ calls = <<>>

Raise == Raises /\ stage' = "raised"

-----------------------------------------------------------------------------
(* prepare and the agents.                                                 *)

\* Without a file to review the agents are passed over: finalize has nothing to
\* do and asks nobody.
Prepare ==
    /\ stage = "prepare"
    /\ LET fitted == build_budget(parse_diff(diff)) IN
          \/ /\ budget' = fitted
             /\ stage' = IF is_empty(fitted) THEN "done" ELSE "agents"
             /\ running' = IF is_empty(fitted) THEN {} ELSE Agent
          \/ /\ ~is_empty(fitted)
             /\ Raise
             /\ UNCHANGED <<budget, running>>
    /\ UNCHANGED <<diff, findings, reports, answers, retracted, suppressed, calls>>

\* An agent answers with findings, some of which may have been cut off, or with
\* none because it failed, refused or could not be parsed.
RunAgent(a) ==
    /\ stage = "agents" /\ a \in running
    /\ \/ /\ \E found \in BoundedSeq(Reported, MaxReported) :
                LET Report(i) == [agent |-> a, number |-> i, finding |-> found[i]] IN
                /\ findings' = findings \o [i \in DOMAIN found |->
                                              from_finding(found[i], a, Report(i))]
                /\ reports' = reports \cup {Report(i) : i \in DOMAIN found}
          /\ running' = running \ {a}
          /\ calls' = Append(calls, a)
          /\ UNCHANGED stage
       \/ Raise /\ UNCHANGED <<running, findings, reports, calls>>
    /\ UNCHANGED <<diff, budget, answers, retracted, suppressed>>

-----------------------------------------------------------------------------
(* finalize.  It goes on as far as the next request to the model.          *)

Finish(ready) ==
    LET cut == rank_and_cut(ready) IN
    /\ stage' = "done"
    /\ findings' = cut.kept
    /\ suppressed' = cut.withheld

\* From the critic, or past it, to the merge pass or the end.
AfterCritic(checked) ==
    IF EnableLlmMerge /\ candidate_pairs(checked) # {}
    THEN stage' = "merge" /\ findings' = checked /\ UNCHANGED suppressed
    ELSE Finish(checked)

Judged == judgeable(findings, budget.files)
Questions == by_file(findings, budget.files, Judged)

Collapse ==
    /\ stage = "agents" /\ running = {}
    /\ LET anchored == anchor_findings(collapse(findings), budget.files)
           judged == judgeable(anchored, budget.files)
       IN  IF EnableCritic /\ judged # {}
           THEN stage' = "critic" /\ findings' = anchored /\ UNCHANGED suppressed
           ELSE AfterCritic(anchored)
    /\ UNCHANGED <<diff, budget, running, reports, answers, retracted, calls>>

\* One call of the critic answers, with verdicts on whatever it names; one that
\* failed, refused or could not be parsed decides nothing.
JudgeOneFile(i) ==
    /\ stage = "critic" /\ i \in Range(Questions) \ DOMAIN answers
    /\ \/ /\ \E said \in BoundedSeq([index : 1 .. Len(findings) + 1, judgement : Judgements],
                                    MaxVerdicts) :
                answers' = [k \in DOMAIN answers \cup {i} |->
                               IF k = i THEN said ELSE answers[k]]
          /\ UNCHANGED stage
       \/ Raise /\ UNCHANGED answers
    /\ UNCHANGED <<diff, budget, running, findings, reports, retracted, suppressed, calls>>

\* gather returns once every call has answered, in the order they were made.
Verdicts == FlattenSeq([k \in DOMAIN Questions |-> answers[Questions[k]]])

\* Mutant: a call is recorded for every file that was judged.
ReviewFindingsPerFile ==
    /\ stage = "critic"
    /\ DOMAIN answers = Range(Questions)
    /\ LET checked == apply_verdicts(findings, Verdicts, Judged) IN
          /\ AfterCritic(checked.findings)
          /\ retracted' = checked.retracted
    /\ calls' = calls \o [k \in DOMAIN Questions |-> "critic"]
    /\ answers' = <<>>
    /\ UNCHANGED <<diff, budget, running, reports>>

ReviewFindings ==
    /\ stage = "critic"
    /\ DOMAIN answers = Range(Questions)
    /\ LET checked == apply_verdicts(findings, Verdicts, Judged) IN
          /\ AfterCritic(checked.findings)
          /\ retracted' = checked.retracted
    /\ calls' = Append(calls, "critic")
    /\ answers' = <<>>
    /\ UNCHANGED <<diff, budget, running, reports>>

\* The merge pass: decisions on any pairs, or none when the call failed.
MergeFindings ==
    /\ stage = "merge"
    /\ \/ /\ \E decisions \in BoundedSeq([left : 1 .. Len(findings) + 1,
                                           right : 1 .. Len(findings) + 1,
                                           same_defect : {TRUE}], MaxVerdicts) :
                Finish(apply_decisions(findings, decisions, candidate_pairs(findings)))
          /\ calls' = Append(calls, "merge")
       \/ Raise /\ UNCHANGED <<findings, suppressed, calls>>
    /\ UNCHANGED <<diff, budget, running, reports, answers, retracted>>

Next ==
    \/ Prepare
    \/ \E a \in Agent : RunAgent(a)
    \/ Collapse
    \/ \E i \in DOMAIN budget.files : JudgeOneFile(i)
    \/ ReviewFindings
    \/ MergeFindings

Spec == Init /\ [][Next]_vars
=============================================================================
