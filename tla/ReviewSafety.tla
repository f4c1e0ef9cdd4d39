---------------------------- MODULE ReviewSafety -----------------------------
(***************************************************************************)
(* A run of the review graph, whatever the diff, the agents and the        *)
(* answers: its calls can be stored, and its findings are typed, name      *)
(* their authors, are rated as their reports were, and sit on the diff.    *)
(*                                                                         *)
(* GraphInv says of every finding in hand what it owes to its reports;     *)
(* PlaceInv, where normalizing changes no path of the diff, where it is.   *)
(***************************************************************************)
EXTENDS ReviewProperties, PipelineSafety

\* Who may still call has not called: an agent as long as it is running, the
\* critic and the merge pass until their stage is over.
CallInv ==
    /\ stage \in Stage
    /\ running \subseteq Agent
    /\ calls \in Seq(Agent \cup {"critic", "merge"})
    /\ OneCallEach
    /\ Range(calls) \cap running = {}
    /\ stage = "prepare" => calls = <<>>
    /\ stage \in {"agents", "critic"} => "critic" \notin Range(calls)
    /\ stage \in {"agents", "critic", "merge"} => "merge" \notin Range(calls)

\* A call of somebody who has not called keeps the calls apart.
LEMMA CallAppended ==
    ASSUME NEW S, NEW s \in Seq(S), NEW x \in S, IsInjective(s), x \notin Range(s)
    PROVE  /\ Append(s, x) \in Seq(S)
           /\ IsInjective(Append(s, x))
           /\ Range(Append(s, x)) = Range(s) \cup {x}
<1> DEFINE t == Append(s, x)
<1>1. /\ t \in Seq(S)
      /\ DOMAIN t = 1 .. Len(s) + 1
      /\ \A i \in 1 .. Len(s) : t[i] = s[i]
      /\ t[Len(s) + 1] = x
      /\ DOMAIN s = 1 .. Len(s)
      /\ Len(s) \in Nat
  OBVIOUS
<1> HIDE DEF t
<1>2. 1 .. Len(s) + 1 = (1 .. Len(s)) \cup {Len(s) + 1}
  BY <1>1
<1>3. \A i \in 1 .. Len(s) : t[i] # x
  BY <1>1 DEF Range
<1>4. IsInjective(t)
  <2> SUFFICES ASSUME NEW a \in DOMAIN t, NEW b \in DOMAIN t, t[a] = t[b]
               PROVE  a = b
    BY DEF IsInjective
  <2>1. CASE a \in 1 .. Len(s) /\ b \in 1 .. Len(s)
    BY <2>1, <1>1 DEF IsInjective
  <2>2. CASE a = Len(s) + 1 \/ b = Len(s) + 1
    BY <2>2, <1>1, <1>2, <1>3
  <2> QED
    BY <2>1, <2>2, <1>1, <1>2
<1>5. Range(t) = Range(s) \cup {x}
  BY <1>1, <1>2 DEF Range
<1> QED
  BY <1>1, <1>4, <1>5 DEF t

\* Past the critic the run merges or is done.
LEMMA AfterCriticStage ==
    ASSUME NEW checked, AfterCritic(checked)
    PROVE  stage' \in {"merge", "done"}
BY DEF AfterCritic, Finish

LEMMA InitCallInv == ASSUME Init PROVE CallInv
BY DEF Init, CallInv, Stage, OneCallEach, IsInjective, Range

LEMMA NextCallInv == ASSUME CallInv, [Next]_vars PROVE CallInv'
<1> USE GraphAssumption DEF GraphAssumption
<1>1. CASE Prepare
  <2>1. /\ calls' = <<>>
        /\ stage' \in {"done", "agents", "raised"}
        /\ running' \subseteq Agent
    BY <1>1 DEF Prepare, Raise, CallInv
  <2> QED
    BY <2>1 DEF CallInv, Stage, OneCallEach, IsInjective, Range
<1>2. ASSUME NEW a \in Agent, RunAgent(a) PROVE CallInv'
  <2>1. CASE Raise /\ UNCHANGED <<running, findings, reports, calls>>
    BY <2>1 DEF CallInv, Raise, Stage, OneCallEach
  <2>2. CASE /\ running' = running \ {a}
             /\ calls' = Append(calls, a)
             /\ UNCHANGED stage
    <3>1. a \in running /\ stage = "agents"
      BY <1>2 DEF RunAgent
    <3>2. a \notin Range(calls) /\ IsInjective(calls)
      BY <3>1 DEF CallInv, OneCallEach
    <3>3. /\ calls' \in Seq(Agent \cup {"critic", "merge"})
          /\ IsInjective(calls')
          /\ Range(calls') = Range(calls) \cup {a}
      BY <3>2, <2>2, CallAppended, a \in Agent \cup {"critic", "merge"} DEF CallInv
    <3>4. a # "critic" /\ a # "merge"
      OBVIOUS
    <3> QED
      BY <3>1, <3>3, <3>4, <2>2 DEF CallInv, OneCallEach
  <2> QED
    BY <1>2, <2>1, <2>2 DEF RunAgent
<1>3. CASE Collapse
  <2>1. stage = "agents" /\ UNCHANGED <<running, calls>>
    BY <1>3 DEF Collapse
  <2>2. stage' \in {"critic", "merge", "done"}
    BY <1>3, AfterCriticStage DEF Collapse
  <2> QED
    BY <2>1, <2>2 DEF CallInv, Stage, OneCallEach
<1>4. ASSUME NEW i \in DOMAIN budget.files, JudgeOneFile(i) PROVE CallInv'
  <2>1. UNCHANGED <<running, calls>> /\ (stage' = stage \/ stage' = "raised")
    BY <1>4 DEF JudgeOneFile, Raise
  <2> QED
    BY <2>1 DEF CallInv, Stage, OneCallEach
<1>5. CASE ReviewFindings
  <2>1. stage = "critic" /\ UNCHANGED running /\ calls' = Append(calls, "critic")
    BY <1>5 DEF ReviewFindings
  <2>2. stage' \in {"merge", "done"}
    BY <1>5, AfterCriticStage DEF ReviewFindings
  <2>3. /\ calls' \in Seq(Agent \cup {"critic", "merge"})
        /\ IsInjective(calls')
        /\ Range(calls') = Range(calls) \cup {"critic"}
    BY <2>1, CallAppended, "critic" \in Agent \cup {"critic", "merge"} DEF CallInv, OneCallEach
  <2> QED
    BY <2>1, <2>2, <2>3 DEF CallInv, Stage, OneCallEach
<1>6. CASE MergeFindings
  <2>1. CASE Raise /\ UNCHANGED <<findings, suppressed, calls>>
    BY <1>6, <2>1 DEF MergeFindings, Raise, CallInv, Stage, OneCallEach
  <2>2. CASE stage' = "done" /\ calls' = Append(calls, "merge")
    <3>1. stage = "merge" /\ UNCHANGED running
      BY <1>6 DEF MergeFindings
    <3>2. /\ calls' \in Seq(Agent \cup {"critic", "merge"})
          /\ IsInjective(calls')
          /\ Range(calls') = Range(calls) \cup {"merge"}
      BY <3>1, <2>2, CallAppended, "merge" \in Agent \cup {"critic", "merge"}
         DEF CallInv, OneCallEach
    <3> QED
      BY <3>1, <3>2, <2>2 DEF CallInv, Stage, OneCallEach
  <2> QED
    BY <1>6, <2>1, <2>2 DEF MergeFindings, Finish
<1>7. CASE UNCHANGED vars
  BY <1>7 DEF vars, CallInv, OneCallEach
<1> QED
  BY <1>1, <1>2, <1>3, <1>4, <1>5, <1>6, <1>7 DEF Next

\* Whatever the agents, the diff and the answers, an agent, the critic and the
\* merge pass each appear at most once in the calls of a run, so that storing
\* them never trips UNIQUE(review_id, agent) (db/models.py).
THEOREM CallsAreApart == Spec => []OneCallEach
<1>1. CallInv => OneCallEach
  BY DEF CallInv
<1> QED
  BY InitCallInv, NextCallInv, <1>1, PTL DEF Spec

-----------------------------------------------------------------------------
(* What every finding in hand owes to the reports it stands for.           *)

\* It is rated as one of its reports is, or below them when one of them is high.
Earned(f) ==
    /\ \E r \in f.raised : f.severity <= r.finding.severity
    /\ \A r \in f.raised : f.severity < r.finding.severity =>
                              \E q \in f.raised : q.finding.severity = High

\* It is as sure as the surest of them.
Sure(f) ==
    /\ \E r \in f.raised : f.confidence = r.finding.confidence
    /\ \A r \in f.raised : r.finding.confidence <= f.confidence

\* It names its authors, once each.
Sound(f) ==
    /\ f.raised # {}
    /\ IsInjective(f.sources)
    /\ Range(f.sources) = {r.agent : r \in f.raised}
    /\ Earned(f)
    /\ Sure(f)

\* It is on a line one of them names, or, once anchored, near one.
Said(f) == f.line # NoLine => \E r \in f.raised : r.finding.line = f.line
Placed(f) ==
    f.line # NoLine =>
        \E r \in f.raised : /\ r.finding.line # NoLine
                            /\ Distance(r.finding.line, f.line) <= SnapTolerance

\* It is rated below none of its reports, or marked.
Rated(f) == \A r \in f.raised : r.finding.severity <= f.severity
Marked(f) == f.amended \/ Rated(f)

\* A comment may be put on it.
OnDiff(f, files) ==
    LET i == by_path(files, f.file)
    IN  /\ i # 0
        /\ f.file = files[i].path
        /\ f.line # NoLine => f.line \in anchorable_lines(files[i])

\* No path of a diff is changed by being normalized.
PlainPaths == \A d \in Diffs : \A i \in DOMAIN d : normalize_path(d[i].path) = d[i].path

Report == [agent : Agent, number : 1 .. MaxReported, finding : Reported]

\* A report, and what it says.
LEMMA ReportFields ==
    ASSUME NEW r \in Report
    PROVE  /\ r.agent \in Agent /\ r.finding.severity \in 1 .. 3
           /\ r.finding.line \in Nat /\ r.finding.confidence \in Nat
BY GraphAssumption DEF Report, GraphAssumption, Reportable, Severity, High

\* What depends on the ratings, the authors and the reports alone.
LEMMA SameSound ==
    ASSUME NEW f, NEW g, Sound(f), g.severity = f.severity,
           g.confidence = f.confidence, g.sources = f.sources, g.raised = f.raised
    PROVE  Sound(g) /\ (Rated(f) => Rated(g))
BY DEF Sound, Earned, Sure, Rated

\* A line that is said is near itself.
LEMMA SaidIsPlaced ==
    ASSUME NEW R \in SUBSET Report, NEW f \in Finding(R), Said(f)
    PROVE  Placed(f)
<1> SUFFICES ASSUME f.line # NoLine
             PROVE  \E r \in f.raised : /\ r.finding.line # NoLine
                                        /\ Distance(r.finding.line, f.line) <= SnapTolerance
  BY DEF Placed
<1>1. PICK r \in f.raised : r.finding.line = f.line
  BY DEF Said
<1>2. Distance(f.line, f.line) <= SnapTolerance
  <2>1. f.line \in Nat
    BY FindingFields
  <2>2. Distance(f.line, f.line) = 0
    BY <2>1, DistanceFacts
  <2> QED
    BY <2>2, AnchorsAssumption
<1> QED
  BY <1>1, <1>2

\* A merged finding keeps the line of a member, and its reports.
LEMMA MadePlaced ==
    ASSUME NEW pool, NEW g, NEW members, MadeOf(g, members, pool)
    PROVE  /\ (\A f \in pool : Said(f)) => Said(g)
           /\ (\A f \in pool : Placed(f)) => Placed(g)
<1>1. /\ members \in Seq(pool) /\ Merges(g, members)
  BY DEF MadeOf
<1>2. PICK i \in DOMAIN members : g.line = members[i].line
  BY <1>1 DEF Merges
<1>3. members[i] \in pool /\ members[i].raised \subseteq g.raised
  <2>1. members[i] \in pool
    BY <1>1
  <2>2. g.raised = UNION {members[m].raised : m \in DOMAIN members}
    BY <1>1 DEF Merges
  <2> QED
    BY <2>1, <2>2
<1>4. ASSUME \A f \in pool : Said(f) PROVE Said(g)
  BY <1>2, <1>3, <1>4 DEF Said
<1>5. ASSUME \A f \in pool : Placed(f) PROVE Placed(g)
  BY <1>2, <1>3, <1>5 DEF Placed
<1> QED
  BY <1>4, <1>5

\* Merged from what is sound, a finding is, and is rated if they are.
LEMMA MadeSound ==
    ASSUME NEW R \in SUBSET Report, NEW pool \in SUBSET Finding(R),
           \A f \in pool : Sound(f), NEW g, NEW members, MadeOf(g, members, pool)
    PROVE  Sound(g) /\ ((\A f \in pool : Rated(f)) => Rated(g))
<1> DEFINE D == DOMAIN members
<1>1. /\ members \in Seq(pool) /\ members # <<>>
      /\ Merges(g, members)
  BY DEF MadeOf
<1>2. \A i \in D : members[i] \in pool
  BY <1>1
<1>3. \A i \in D : /\ Sound(members[i]) /\ members[i].severity \in {1, 2, 3}
                   /\ members[i].confidence \in Nat
                   /\ members[i].raised \subseteq Report
  <2> TAKE i \in D
  <2>1. members[i] \in pool /\ members[i] \in Finding(R)
    BY <1>2
  <2> QED
    BY <2>1, FindingFields
<1> HIDE DEF D
<1>4. /\ IsInjective(g.sources)
      /\ Range(g.sources) = UNION {Range(members[i].sources) : i \in D}
      /\ g.raised = UNION {members[i].raised : i \in D}
      /\ \A i \in D : members[i].severity <= g.severity
  BY <1>1 DEF Merges, D
<1>5. PICK top \in D : g.severity = members[top].severity
  BY <1>1 DEF Merges, D
<1>6. Range(g.sources) = {r.agent : r \in g.raised}
  <2>1. \A i \in D : Range(members[i].sources) = {r.agent : r \in members[i].raised}
    BY <1>3 DEF Sound
  <2>2. ASSUME NEW a PROVE a \in Range(g.sources) <=> \E r \in g.raised : a = r.agent
    <3>1. a \in Range(g.sources) <=> \E i \in D : a \in Range(members[i].sources)
      BY <1>4
    <3>2. \A i \in D : a \in Range(members[i].sources) <=> \E r \in members[i].raised : a = r.agent
      BY <2>1
    <3>3. (\E r \in g.raised : a = r.agent) <=> \E i \in D : \E r \in members[i].raised : a = r.agent
      BY <1>4
    <3> QED
      BY <3>1, <3>2, <3>3
  <2> QED
    BY <2>2
<1>7. g.raised # {}
  <2>1. members[top].raised # {}
    BY <1>3 DEF Sound
  <2> QED
    BY <1>4, <2>1
<1>8. \E r \in g.raised : g.severity <= r.finding.severity
  <2>1. PICK r \in members[top].raised : members[top].severity <= r.finding.severity
    BY <1>3 DEF Sound, Earned
  <2> QED
    BY <1>4, <1>5, <2>1
<1>9. ASSUME NEW r \in g.raised, g.severity < r.finding.severity
      PROVE  \E q \in g.raised : q.finding.severity = High
  <2>1. PICK i \in D : r \in members[i].raised
    BY <1>4
  <2>2. members[i].severity < r.finding.severity
    <3>1. r.finding.severity \in Int /\ members[i].severity \in Int /\ g.severity \in Int
      BY <1>3, <1>5, <2>1, ReportFields
    <3>2. members[i].severity <= g.severity
      BY <1>4
    <3> QED
      BY <1>9, <3>1, <3>2
  <2>3. \E q \in members[i].raised : q.finding.severity = High
    BY <1>3, <2>1, <2>2 DEF Sound, Earned
  <2> QED
    BY <1>4, <2>3
<1>10. ASSUME \A f \in pool : Rated(f) PROVE Rated(g)
  <2> SUFFICES ASSUME NEW r \in g.raised PROVE r.finding.severity <= g.severity
    BY DEF Rated
  <2>1. PICK i \in D : r \in members[i].raised
    BY <1>4
  <2>2. r.finding.severity <= members[i].severity
    BY <1>2, <1>10, <2>1 DEF Rated, D
  <2>3. r.finding.severity \in Int /\ members[i].severity \in Int /\ g.severity \in Int
    BY <1>3, <1>5, <2>1, ReportFields
  <2>4. members[i].severity <= g.severity
    BY <1>4
  <2> QED
    BY <2>2, <2>3, <2>4
<1>11. PICK sure \in D : g.confidence = members[sure].confidence
  BY <1>1 DEF Merges, D
<1>12. \E r \in g.raised : g.confidence = r.finding.confidence
  <2>1. PICK r \in members[sure].raised : members[sure].confidence = r.finding.confidence
    BY <1>3 DEF Sound, Sure
  <2> QED
    BY <1>4, <1>11, <2>1
<1>13. ASSUME NEW r \in g.raised PROVE r.finding.confidence <= g.confidence
  <2>1. PICK i \in D : r \in members[i].raised
    BY <1>4
  <2>2. r.finding.confidence <= members[i].confidence
    BY <1>3, <2>1 DEF Sound, Sure
  <2>3. members[i].confidence <= g.confidence
    BY <1>1 DEF Merges, D
  <2>4. /\ r.finding.confidence \in Nat /\ members[i].confidence \in Nat
        /\ g.confidence \in Nat
    BY <1>3, <1>11, <2>1, ReportFields
  <2> QED
    BY <2>2, <2>3, <2>4
<1> QED
  BY <1>4, <1>6, <1>7, <1>8, <1>9, <1>10, <1>12, <1>13 DEF Sound, Earned, Sure

\* Judged, a finding stays sound, and what is lowered is marked.
LEMMA JudgedSound ==
    ASSUME NEW R \in SUBSET Report, NEW f \in Finding(R), Sound(f), NEW g, JudgedTo(g, f)
    PROVE  Sound(g) /\ (Marked(f) => Marked(g)) /\ (Placed(f) => Placed(g))
<1>1. /\ g.sources = f.sources /\ g.raised = f.raised
      /\ g.line = f.line /\ g.confidence = f.confidence
  BY JudgedFinding
<1>2. CASE g.severity = f.severity /\ (f.amended => g.amended)
  BY <1>1, <1>2, SameSound DEF Marked, Placed
<1>3. CASE f.severity = High /\ g.severity \in {1, 2} /\ g.amended
  <2>1. PICK q \in f.raised : High <= q.finding.severity
    BY <1>3 DEF Sound, Earned
  <2>2. q.finding.severity \in 1 .. 3
    <3>1. q \in Report
      BY FindingFields
    <3> QED
      BY <3>1, ReportFields
  <2>3. q.finding.severity = High
    BY <2>1, <2>2 DEF High
  <2>4. Earned(g)
    BY <1>1, <1>3, <2>2, <2>3 DEF Earned, High
  <2> QED
    BY <1>1, <1>3, <2>4 DEF Sound, Sure, Marked, Placed
<1> QED
  BY <1>2, <1>3 DEF JudgedTo

-----------------------------------------------------------------------------
(* What each pass over the findings keeps.                                  *)

Held(fs, R) == fs \in Seq(Finding(R)) /\ \A i \in DOMAIN fs : Sound(fs[i])
AllMarked(fs) == \A i \in DOMAIN fs : Marked(fs[i])
AllSaid(fs) == \A i \in DOMAIN fs : Said(fs[i])
AllPlaced(fs) == \A i \in DOMAIN fs : Placed(fs[i])
AllOnDiff(fs, files) == \A i \in DOMAIN fs : OnDiff(fs[i], files)

PlainFiles(files) == \A i \in DOMAIN files : normalize_path(files[i].path) = files[i].path

\* Collapsed, what was reported is sound and rated as high as any report, on a
\* line that was reported.
LEMMA CollapseHolds ==
    ASSUME NEW R \in SUBSET Report, NEW fs, Held(fs, R), AllMarked(fs), AllSaid(fs),
           \A i \in DOMAIN fs : ~fs[i].amended
    PROVE  Held(collapse(fs), R) /\ AllMarked(collapse(fs)) /\ AllSaid(collapse(fs))
<1> DEFINE out == collapse(fs)
           pool == {Named(fs[i]) : i \in DOMAIN fs}
<1>1. /\ fs \in Seq(Finding(R))
      /\ \A i \in DOMAIN fs : fs[i] \in Finding(R) /\ Sound(fs[i]) /\ Rated(fs[i])
  <2>1. fs \in Seq(Finding(R)) /\ \A i \in DOMAIN fs : Sound(fs[i]) /\ Rated(fs[i])
    BY DEF Held, AllMarked, Marked
  <2>2. \A i \in DOMAIN fs : fs[i] \in Finding(R)
    BY <2>1
  <2> QED
    BY <2>1, <2>2
<1>2. \A i \in DOMAIN fs : IsInjective(fs[i].sources)
  BY <1>1 DEF Sound
<1>3. /\ out \in Seq(Finding(R))
      /\ \A k \in DOMAIN out : \E members : MadeOf(out[k], members, pool)
  BY <1>1, <1>2, CollapsedFindings
<1>4. \A f \in pool : f \in Finding(R) /\ Sound(f) /\ Rated(f) /\ Said(f)
  <2> SUFFICES ASSUME NEW i \in DOMAIN fs
               PROVE  /\ Named(fs[i]) \in Finding(R)
                      /\ Sound(Named(fs[i])) /\ Rated(Named(fs[i])) /\ Said(Named(fs[i]))
    OBVIOUS
  <2>1. /\ Named(fs[i]) \in Finding(R)
        /\ Named(fs[i]).severity = fs[i].severity
        /\ Named(fs[i]).line = fs[i].line
        /\ Named(fs[i]).confidence = fs[i].confidence
        /\ Named(fs[i]).sources = fs[i].sources
        /\ Named(fs[i]).raised = fs[i].raised
    BY <1>1, NamedFinding
  <2>2. Said(Named(fs[i]))
    BY <2>1 DEF AllSaid, Said
  <2> QED
    BY <1>1, <2>1, <2>2, SameSound
<1> HIDE DEF out, pool
<1>5. ASSUME NEW k \in DOMAIN out PROVE Sound(out[k]) /\ Rated(out[k]) /\ Said(out[k])
  <2>1. PICK members : MadeOf(out[k], members, pool)
    BY <1>3
  <2>2. pool \in SUBSET Finding(R)
    BY <1>4
  <2> QED
    BY <1>4, <2>1, <2>2, MadeSound, MadePlaced
<1>6. Held(out, R) /\ AllMarked(out) /\ AllSaid(out)
  BY <1>3, <1>5 DEF Held, AllMarked, AllSaid, Marked
<1> QED
  BY <1>6 DEF out

\* Anchored, a finding is where a comment may be put, near where it was reported.
LEMMA AnchorHolds ==
    ASSUME NEW R \in SUBSET Report, NEW fs, Held(fs, R), AllMarked(fs), AllSaid(fs),
           NEW files \in Seq(Entry)
    PROVE  LET out == anchor_findings(fs, files)
           IN  /\ Held(out, R) /\ AllMarked(out) /\ AllPlaced(out)
               /\ PlainFiles(files) => AllOnDiff(out, files)
<1> DEFINE out == anchor_findings(fs, files)
<1>1. /\ fs \in Seq(Finding(R))
      /\ \A i \in DOMAIN fs : Sound(fs[i]) /\ Marked(fs[i]) /\ Said(fs[i])
  BY DEF Held, AllMarked, AllSaid
<1>2. out \in Seq(Finding(R)) /\ \E src : AnchoredFrom(out, fs, files, src)
  BY <1>1, AnchoredFindings
<1>3. PICK src : AnchoredFrom(out, fs, files, src)
  BY <1>2
<1> HIDE DEF out
<1>4. ASSUME NEW k \in DOMAIN out
      PROVE  /\ Sound(out[k]) /\ Marked(out[k]) /\ Placed(out[k])
             /\ PlainFiles(files) => OnDiff(out[k], files)
  <2> DEFINE f == fs[src[k]]
             g == out[k]
             i == by_path(files, f.file)
  <2>1. src[k] \in DOMAIN fs /\ AnchoredTo(g, f, files)
    <3>1. k \in 1 .. Len(out) /\ DOMAIN fs = 1 .. Len(fs)
      BY <1>1, <1>2
    <3> QED
      BY <1>3, <3>1 DEF AnchoredFrom, Picks
  <2>2. f \in Finding(R) /\ Sound(f) /\ Marked(f) /\ Said(f)
    <3>1. f \in Finding(R)
      BY <1>1, <2>1
    <3> QED
      BY <1>1, <2>1, <3>1
  <2> HIDE DEF f, g
  <2>3. /\ g.file = normalize_path(f.file) /\ g.severity = f.severity
        /\ g.confidence = f.confidence /\ g.sources = f.sources
        /\ g.amended = f.amended /\ g.raised = f.raised
    BY <2>1, <2>2, AnchoredFinding
  <2>4. Sound(g) /\ Marked(g)
    BY <2>2, <2>3, SameSound DEF Marked
  <2>5. ASSUME PlainFiles(files) PROVE OnDiff(g, files)
    <3>1. i # 0 /\ (g.line # NoLine => g.line \in anchorable_lines(files[i]))
      BY <2>1 DEF AnchoredTo
    <3>2. i \in DOMAIN files /\ normalize_path(files[i].path) = normalize_path(f.file)
      BY <3>1, ByPath
    <3>3. g.file = files[i].path /\ normalize_path(g.file) = normalize_path(f.file)
      BY <2>3, <2>5, <3>2 DEF PlainFiles
    <3>4. by_path(files, g.file) = i
      BY <3>3 DEF by_path
    <3> HIDE DEF i
    <3> QED
      BY <3>1, <3>3, <3>4 DEF OnDiff
  <2>6. Placed(g)
    <3>1. g.line # NoLine => f.line # NoLine /\ Distance(f.line, g.line) <= SnapTolerance
      BY <2>1 DEF AnchoredTo
    <3> QED
      BY <2>2, <2>3, <3>1 DEF Said, Placed
  <2> QED
    BY <2>4, <2>5, <2>6 DEF g
<1>5. /\ Held(out, R) /\ AllMarked(out) /\ AllPlaced(out)
      /\ PlainFiles(files) => AllOnDiff(out, files)
  BY <1>2, <1>4 DEF Held, AllMarked, AllPlaced, AllOnDiff
<1> QED
  BY <1>5 DEF out

LEMMA JudgeHolds ==
    ASSUME NEW R \in SUBSET Report, NEW fs, Held(fs, R), AllMarked(fs), AllPlaced(fs),
           NEW verdicts, NEW asked
    PROVE  LET out == apply_verdicts(fs, verdicts, asked).findings
           IN  /\ Held(out, R) /\ AllMarked(out) /\ AllPlaced(out)
               /\ \A files : AllOnDiff(fs, files) => AllOnDiff(out, files)
               /\ apply_verdicts(fs, verdicts, asked).retracted \in Nat
<1> DEFINE out == apply_verdicts(fs, verdicts, asked).findings
           retract == apply_verdicts(fs, verdicts, asked).retracted
<1>1. /\ fs \in Seq(Finding(R))
      /\ \A i \in DOMAIN fs : Sound(fs[i]) /\ Marked(fs[i]) /\ Placed(fs[i])
  BY DEF Held, AllMarked, AllPlaced
<1>2. /\ out \in Seq(Finding(R)) /\ retract \in Nat
      /\ \E src : JudgedFrom(out, fs, src)
  BY <1>1, JudgedFindings
<1>3. PICK src : JudgedFrom(out, fs, src)
  BY <1>2
<1> HIDE DEF out, retract
<1>4. ASSUME NEW k \in DOMAIN out
      PROVE  /\ Sound(out[k]) /\ Marked(out[k]) /\ Placed(out[k])
             /\ \A files : AllOnDiff(fs, files) => OnDiff(out[k], files)
  <2> DEFINE f == fs[src[k]]
             g == out[k]
  <2>1. src[k] \in DOMAIN fs /\ JudgedTo(g, f)
    <3>1. k \in 1 .. Len(out) /\ DOMAIN fs = 1 .. Len(fs)
      BY <1>1, <1>2
    <3> QED
      BY <1>3, <3>1 DEF JudgedFrom, Picks
  <2>2. /\ f \in Finding(R) /\ Sound(f) /\ Marked(f) /\ Placed(f)
        /\ \A files : AllOnDiff(fs, files) => OnDiff(f, files)
    <3>1. f \in Finding(R)
      BY <1>1, <2>1
    <3> QED
      BY <1>1, <2>1, <3>1 DEF AllOnDiff
  <2> HIDE DEF f, g
  <2>3. g.file = f.file /\ g.line = f.line
    BY <2>1, <2>2, JudgedFinding
  <2>4. Sound(g) /\ Marked(g) /\ Placed(g)
    BY <2>1, <2>2, JudgedSound
  <2>5. \A files : OnDiff(f, files) => OnDiff(g, files)
    BY <2>3 DEF OnDiff
  <2> QED
    BY <2>2, <2>4, <2>5 DEF g
<1>5. /\ Held(out, R) /\ AllMarked(out) /\ AllPlaced(out)
      /\ \A files : AllOnDiff(fs, files) => AllOnDiff(out, files)
  BY <1>2, <1>4 DEF Held, AllMarked, AllPlaced, AllOnDiff
<1> QED
  BY <1>2, <1>5 DEF out, retract

\* The merge pass forgets what was lowered, and keeps the rest.
LEMMA MergeHolds ==
    ASSUME NEW R \in SUBSET Report, NEW fs, Held(fs, R), AllPlaced(fs),
           NEW T, NEW decisions \in Seq(T)
    PROVE  LET out == apply_decisions(fs, decisions, candidate_pairs(fs))
           IN  /\ Held(out, R) /\ AllPlaced(out)
               /\ \A files : PlainFiles(files) /\ files \in Seq(Entry) /\ AllOnDiff(fs, files)
                                => AllOnDiff(out, files)
<1> DEFINE out == apply_decisions(fs, decisions, candidate_pairs(fs))
           pool == Range(fs)
<1>1. /\ fs \in Seq(Finding(R)) /\ \A i \in DOMAIN fs : Sound(fs[i])
      /\ \A i \in DOMAIN fs : IsInjective(fs[i].sources)
  BY DEF Held, Sound
<1>2. /\ out \in Seq(Finding(R))
      /\ \A k \in DOMAIN out : \E members : MadeOf(out[k], members, pool)
  BY <1>1, MergedFindings
<1>3. pool \in SUBSET Finding(R) /\ \A f \in pool : Sound(f) /\ Placed(f)
  BY <1>1 DEF AllPlaced, Range
<1>4. \A files : AllOnDiff(fs, files) => \A f \in pool : OnDiff(f, files)
  BY DEF AllOnDiff, Range
<1> HIDE DEF out, pool
<1>5. ASSUME NEW k \in DOMAIN out
      PROVE  /\ Sound(out[k]) /\ Placed(out[k])
             /\ \A files : PlainFiles(files) /\ files \in Seq(Entry) /\ AllOnDiff(fs, files)
                              => OnDiff(out[k], files)
  <2> DEFINE g == out[k]
  <2>1. PICK members : MadeOf(g, members, pool)
    BY <1>2
  <2>2. Sound(g) /\ Placed(g)
    BY <1>3, <2>1, MadeSound, MadePlaced
  <2>3. ASSUME NEW files, PlainFiles(files), files \in Seq(Entry), AllOnDiff(fs, files)
        PROVE  OnDiff(g, files)
    <3> DEFINE D == DOMAIN members
               m1 == members[1]
               i == by_path(files, m1.file)
    <3>1. /\ members \in Seq(pool) /\ members # <<>> /\ Merges(g, members)
          /\ \A m \in D : normalize_path(members[m].file) = normalize_path(m1.file)
      BY <2>1 DEF MadeOf
    <3>2. 1 \in D /\ \A m \in D : members[m] \in pool
      BY <3>1
    <3>3. \A m \in D : OnDiff(members[m], files)
      BY <1>4, <2>3, <3>2
    <3>4. /\ i # 0 /\ i \in DOMAIN files
          /\ m1.file = files[i].path /\ normalize_path(files[i].path) = files[i].path
      <4>1. i # 0 /\ m1.file = files[i].path
        BY <3>2, <3>3 DEF OnDiff
      <4>2. i \in DOMAIN files
        BY <2>3, <4>1, ByPath
      <4> QED
        BY <2>3, <4>1, <4>2 DEF PlainFiles
    <3>5. g.file = m1.file
      BY <3>1, <3>4 DEF Merges
    <3>6. PICK m \in D : g.line = members[m].line
      BY <3>1 DEF Merges
    <3>7. by_path(files, members[m].file) = i
      <4>1. normalize_path(members[m].file) = normalize_path(m1.file)
        BY <3>1
      <4> QED
        BY <4>1 DEF by_path
    <3>8. g.line # NoLine => g.line \in anchorable_lines(files[i])
      <4>1. OnDiff(members[m], files)
        BY <3>3
      <4> HIDE DEF i
      <4> QED
        BY <3>6, <3>7, <4>1 DEF OnDiff
    <3>9. by_path(files, g.file) = i
      BY <3>5
    <3> HIDE DEF i, m1
    <3> QED
      BY <3>4, <3>5, <3>8, <3>9 DEF OnDiff
  <2> QED
    BY <2>2, <2>3
<1>6. /\ Held(out, R) /\ AllPlaced(out)
      /\ \A files : PlainFiles(files) /\ files \in Seq(Entry) /\ AllOnDiff(fs, files)
                       => AllOnDiff(out, files)
  BY <1>2, <1>5 DEF Held, AllPlaced, AllOnDiff
<1> QED
  BY <1>6 DEF out

LEMMA RankHolds ==
    ASSUME NEW R \in SUBSET Report, NEW fs, Held(fs, R)
    PROVE  LET cut == rank_and_cut(fs)
           IN  /\ Held(cut.kept, R)
               /\ AllMarked(fs) => AllMarked(cut.kept)
               /\ AllPlaced(fs) => AllPlaced(cut.kept)
               /\ \A files : AllOnDiff(fs, files) => AllOnDiff(cut.kept, files)
               /\ cut.withheld \in Nat
<1> DEFINE out == rank_and_cut(fs).kept
<1>1. fs \in Seq(Finding(R)) /\ \A i \in DOMAIN fs : Sound(fs[i])
  BY DEF Held
<1>2. /\ out \in Seq(Finding(R)) /\ rank_and_cut(fs).withheld \in Nat
      /\ \E src : KeptFrom(out, fs, src)
  BY <1>1, RankedFindings
<1>3. PICK src : KeptFrom(out, fs, src)
  BY <1>2
<1> HIDE DEF out
<1>4. \A k \in DOMAIN out : src[k] \in DOMAIN fs /\ out[k] = fs[src[k]]
  <2>1. DOMAIN out = 1 .. Len(out) /\ DOMAIN fs = 1 .. Len(fs)
    BY <1>1, <1>2
  <2> QED
    BY <1>3, <2>1 DEF KeptFrom, Picks
<1>5. /\ Held(out, R)
      /\ AllMarked(fs) => AllMarked(out)
      /\ AllPlaced(fs) => AllPlaced(out)
      /\ \A files : AllOnDiff(fs, files) => AllOnDiff(out, files)
  BY <1>1, <1>2, <1>4 DEF Held, AllMarked, AllPlaced, AllOnDiff
<1> QED
  BY <1>2, <1>5 DEF out

-----------------------------------------------------------------------------
(* The invariant of the graph.                                             *)

GraphInv ==
    /\ CallInv
    /\ diff \in Diffs
    /\ budget.files \in Seq(Entry)
    /\ Paths(budget.files) \cup budget.skipped \cup budget.truncated \subseteq Paths(diff)
    /\ reports \subseteq Report /\ IsFiniteSet(reports)
    /\ Held(findings, reports)
    /\ AllPlaced(findings)
    /\ DOMAIN answers \subseteq DOMAIN budget.files
    /\ retracted \in Nat /\ suppressed \in Nat
    /\ stage = "prepare" => findings = <<>> /\ reports = {} /\ answers = <<>>
    /\ stage = "agents" => \A i \in DOMAIN findings : ~findings[i].amended /\ Said(findings[i])
    /\ "merge" \notin Range(calls) => AllMarked(findings)

\* Past the agents, every finding has its place.
PlaceInv ==
    stage \in {"critic", "merge", "done"} => AllOnDiff(findings, budget.files)

\* As an agent reported it, a finding stands for one report.
LEMMA ReportedFinding ==
    ASSUME NEW r \in Report
    PROVE  LET f == from_finding(r.finding, r.agent, r)
           IN  /\ \A R : r \in R => f \in Finding(R)
               /\ Sound(f) /\ Rated(f) /\ Said(f) /\ ~f.amended
               /\ f.raised = {r} /\ f.file = r.finding.file
<1> DEFINE f == from_finding(r.finding, r.agent, r)
<1>1. r.agent \in Agent /\ r.finding \in Reportable
  BY GraphAssumption DEF Report, GraphAssumption
<1>2. /\ f.file = r.finding.file /\ f.line = r.finding.line
      /\ f.severity = r.finding.severity /\ f.confidence = r.finding.confidence
      /\ f.sources = <<r.agent>>
      /\ f.amended = FALSE /\ f.raised = {r}
  BY DEF from_finding
<1>3. \A R : r \in R => f \in Finding(R)
  BY <1>1 DEF from_finding, Reportable, Finding
<1> HIDE DEF f
<1>4. r.finding.severity \in 1 .. 3 /\ r.finding.confidence \in Nat
  BY ReportFields
<1>5. IsInjective(f.sources) /\ Range(f.sources) = {r.agent}
  BY <1>2 DEF IsInjective, Range
<1>6. Sound(f)
  <2>1. Range(f.sources) = {q.agent : q \in f.raised}
    BY <1>2, <1>5
  <2>2. f.raised # {} /\ Earned(f) /\ Sure(f)
    BY <1>2, <1>4 DEF Earned, Sure
  <2> QED
    BY <1>5, <2>1, <2>2 DEF Sound
<1>7. Rated(f) /\ Said(f)
  BY <1>2, <1>4 DEF Rated, Said
<1> QED
  BY <1>2, <1>3, <1>6, <1>7 DEF f

\* What is held for some reports is for more.
LEMMA HeldForMore ==
    ASSUME NEW R, NEW S, R \subseteq S, NEW fs, Held(fs, R)
    PROVE  Held(fs, S)
<1>1. \A f \in Finding(R) : f \in Finding(S)
  BY DEF Finding
<1>2. fs \in Seq(Finding(R))
  BY DEF Held
<1>3. fs \in Seq(Finding(S))
  <2> DEFINE A == Finding(R)
             B == Finding(S)
  <2>1. fs \in Seq(A) /\ \A f \in A : f \in B
    BY <1>1, <1>2
  <2> HIDE DEF A, B
  <2>2. fs \in Seq(B)
    BY <2>1
  <2> QED
    BY <2>2 DEF B
<1> QED
  BY <1>3 DEF Held

\* Two lists of findings put together.
LEMMA HeldTogether ==
    ASSUME NEW R, NEW s, NEW t, Held(s, R), Held(t, R)
    PROVE  /\ Held(s \o t, R)
           /\ DOMAIN (s \o t) = 1 .. Len(s) + Len(t)
           /\ \A i \in DOMAIN (s \o t) :
                 \/ i \in DOMAIN s /\ (s \o t)[i] = s[i]
                 \/ i - Len(s) \in DOMAIN t /\ (s \o t)[i] = t[i - Len(s)]
<1> DEFINE T == Finding(R)
<1>1. s \in Seq(T) /\ t \in Seq(T)
  BY DEF Held
<1> HIDE DEF T
<1>2. /\ s \o t \in Seq(T)
      /\ DOMAIN (s \o t) = 1 .. Len(s) + Len(t)
      /\ \A i \in DOMAIN (s \o t) :
            \/ i \in DOMAIN s /\ (s \o t)[i] = s[i]
            \/ i - Len(s) \in DOMAIN t /\ (s \o t)[i] = t[i - Len(s)]
  BY <1>1
<1>3. \A i \in DOMAIN (s \o t) : Sound((s \o t)[i])
  BY <1>2 DEF Held
<1> QED
  BY <1>2, <1>3 DEF Held, T

\* Past the critic.
LEMMA AfterCriticHolds ==
    ASSUME NEW R \in SUBSET Report, NEW checked, Held(checked, R), AllMarked(checked),
           AllPlaced(checked), suppressed \in Nat, AfterCritic(checked)
    PROVE  /\ Held(findings', R) /\ AllMarked(findings') /\ AllPlaced(findings')
           /\ suppressed' \in Nat
           /\ \A files : AllOnDiff(checked, files) => AllOnDiff(findings', files)
<1>1. CASE findings' = checked /\ UNCHANGED suppressed
  BY <1>1
<1>2. CASE Finish(checked)
  <2>1. /\ findings' = rank_and_cut(checked).kept
        /\ suppressed' = rank_and_cut(checked).withheld
    BY <1>2 DEF Finish
  <2> QED
    BY <2>1, RankHolds
<1> QED
  BY <1>1, <1>2 DEF AfterCritic

LEMMA InitGraphInv == ASSUME Init PROVE GraphInv /\ PlaceInv
<1>1. CallInv
  BY InitCallInv
<1>2. Held(findings, reports) /\ AllMarked(findings) /\ AllPlaced(findings)
  BY DEF Init, Held, AllMarked, AllPlaced
<1>3. Paths(<<>>) = {} /\ IsFiniteSet({})
  BY FS_EmptySet DEF Paths
<1> QED
  BY <1>1, <1>2, <1>3 DEF Init, GraphInv, PlaceInv

LEMMA PrepareHolds ==
    ASSUME GraphInv, CallInv', Prepare PROVE GraphInv' /\ (PlaceInv => PlaceInv')
<1> DEFINE fitted == build_budget(parse_diff(diff))
<1>1. /\ stage = "prepare" /\ findings = <<>> /\ reports = {} /\ answers = <<>>
      /\ UNCHANGED <<diff, findings, reports, answers, retracted, suppressed, calls>>
      /\ budget' = fitted \/ UNCHANGED budget
  BY DEF Prepare, GraphInv
<1>2. /\ fitted.files \in Seq(Entry)
      /\ Paths(fitted.files) \cup fitted.skipped \cup fitted.truncated \subseteq Paths(diff)
  <2>1. diff \in Seq(Entry)
    BY GraphAssumption DEF GraphAssumption, GraphInv
  <2> QED
    BY <2>1, FittedDiff
<1> HIDE DEF fitted
<1>3. /\ (budget.files)' \in Seq(Entry)
      /\ (Paths(budget.files) \cup budget.skipped \cup budget.truncated)' \subseteq Paths(diff)
  <2>1. CASE budget' = fitted
    BY <1>2, <2>1 DEF Paths
  <2>2. CASE UNCHANGED budget
    BY <2>2 DEF GraphInv
  <2> QED
    BY <1>1, <2>1, <2>2
<1>4. Held(findings, reports)' /\ AllMarked(findings)' /\ AllPlaced(findings)'
  BY <1>1 DEF Held, AllMarked, AllPlaced
<1>5. (DOMAIN answers \subseteq DOMAIN budget.files)'
  <2>1. answers' = <<>>
    BY <1>1
  <2> QED
    BY <2>1
<1>6. /\ AllOnDiff(findings, budget.files)'
      /\ \A i \in DOMAIN findings' : ~findings'[i].amended /\ Said(findings'[i])
  <2>1. findings' = <<>>
    BY <1>1
  <2> QED
    BY <2>1 DEF AllOnDiff
<1> QED
  BY <1>1, <1>3, <1>4, <1>5, <1>6 DEF GraphInv, PlaceInv

LEMMA RunAgentHolds ==
    ASSUME GraphInv, CallInv', NEW a \in Agent, RunAgent(a)
    PROVE  GraphInv' /\ (PlaceInv => PlaceInv')
<1>1. /\ stage = "agents" /\ "merge" \notin Range(calls)
      /\ UNCHANGED <<diff, budget, answers, retracted, suppressed>>
  BY DEF RunAgent, GraphInv, CallInv
<1>2. CASE Raise /\ UNCHANGED <<running, findings, reports, calls>>
  BY <1>1, <1>2 DEF Raise, GraphInv, PlaceInv
<1>3. ASSUME NEW found \in BoundedSeq(Reported, MaxReported),
             findings' = findings \o [i \in DOMAIN found |->
                 from_finding(found[i], a, [agent |-> a, number |-> i, finding |-> found[i]])],
             reports' = reports \cup {[agent |-> a, number |-> i, finding |-> found[i]] :
                                         i \in DOMAIN found},
             UNCHANGED stage
      PROVE  GraphInv' /\ (PlaceInv => PlaceInv')
  <2> DEFINE One(i) == [agent |-> a, number |-> i, finding |-> found[i]]
             new == [i \in DOMAIN found |-> from_finding(found[i], a, One(i))]
             more == {One(i) : i \in DOMAIN found}
             R == reports \cup more
  <2>1. /\ findings' = findings \o new /\ reports' = R
    BY <1>3
  <2>2. PICK n \in 0 .. MaxReported : found \in [1 .. n -> Reported]
    BY DEF BoundedSeq, SeqOf
  <2>3. /\ MaxReported \in Nat /\ n \in Nat /\ DOMAIN found = 1 .. n
        /\ \A i \in 1 .. n : One(i) \in Report
    BY <2>2, GraphAssumption DEF GraphAssumption, Report
  <2>4. \A i \in 1 .. n : /\ from_finding(found[i], a, One(i)) \in Finding(R)
                          /\ Sound(new[i]) /\ Rated(new[i]) /\ Said(new[i])
                          /\ ~new[i].amended
    <3> TAKE i \in 1 .. n
    <3> DEFINE r == One(i)
    <3>1. r \in Report /\ r \in R /\ r.finding = found[i] /\ r.agent = a
      BY <2>3
    <3>2. new[i] = from_finding(r.finding, r.agent, r)
      BY <2>3
    <3> HIDE DEF r, R, new
    <3>3. /\ new[i] \in Finding(R) /\ Sound(new[i]) /\ Rated(new[i]) /\ Said(new[i])
          /\ ~new[i].amended
      BY <3>1, <3>2, ReportedFinding
    <3> QED
      BY <2>3, <3>3 DEF new
  <2>5. new \in Seq(Finding(R)) /\ DOMAIN new = 1 .. n
    <3>1. new \in [1 .. n -> Finding(R)]
      BY <2>3, <2>4
    <3> HIDE DEF new, R
    <3> QED
      BY <2>3, <3>1
  <2>6. R \subseteq Report /\ IsFiniteSet(R)
    <3>1. reports \subseteq Report /\ IsFiniteSet(reports)
      BY DEF GraphInv
    <3>2. IsFiniteSet(more)
      <4> DEFINE f == [i \in 1 .. n |-> One(i)]
      <4>1. f \in Surjection(1 .. n, more)
        BY <2>3 DEF Surjection
      <4>2. IsFiniteSet(1 .. n)
        BY <2>3, FS_Interval
      <4> HIDE DEF f, more
      <4> QED
        BY <4>1, <4>2, FS_Surjection
    <3>3. more \subseteq Report
      BY <2>3
    <3> HIDE DEF more
    <3> QED
      BY <3>1, <3>2, <3>3, FS_Union
  <2> HIDE DEF new, R, more
  <2>7. Held(new, R)
    BY <2>4, <2>5 DEF Held
  <2>8. Held(findings, R)
    BY HeldForMore DEF GraphInv, R
  <2>9. /\ Held(findings', reports')
        /\ \A i \in DOMAIN findings' : \/ \E j \in DOMAIN findings : findings'[i] = findings[j]
                                       \/ \E j \in DOMAIN new : findings'[i] = new[j]
    BY <2>1, <2>7, <2>8, HeldTogether
  <2>10. /\ \A i \in DOMAIN findings' : ~findings'[i].amended /\ Said(findings'[i])
         /\ AllMarked(findings)'
    BY <1>1, <2>4, <2>5, <2>9 DEF GraphInv, AllMarked, Marked
  <2>11. AllPlaced(findings)'
    <3> SUFFICES ASSUME NEW i \in DOMAIN findings' PROVE Placed(findings'[i])
      BY DEF AllPlaced
    <3>1. findings'[i] \in Finding(reports')
      <4>1. findings' \in Seq(Finding(reports'))
        BY <2>9 DEF Held
      <4> QED
        BY <4>1
    <3>2. reports' \in SUBSET Report /\ Said(findings'[i])
      BY <2>1, <2>6, <2>10
    <3> QED
      BY <3>1, <3>2, SaidIsPlaced
  <2> QED
    BY <1>1, <1>3, <2>1, <2>6, <2>9, <2>10, <2>11 DEF GraphInv, PlaceInv
<1> QED
  BY <1>2, <1>3 DEF RunAgent

\* Under the assumption, the paths of what is reviewed are plain.
LEMMA BudgetIsPlain == ASSUME PlainPaths, GraphInv PROVE PlainFiles(budget.files)
<1> SUFFICES ASSUME NEW i \in DOMAIN budget.files
             PROVE  normalize_path(budget.files[i].path) = budget.files[i].path
  BY DEF PlainFiles
<1>1. budget.files[i].path \in Paths(diff) /\ diff \in Diffs
  BY DEF GraphInv, Paths
<1>2. PICK j \in DOMAIN diff : diff[j].path = budget.files[i].path
  BY <1>1 DEF Paths
<1> QED
  BY <1>1, <1>2 DEF PlainPaths

LEMMA CollapseStepHolds ==
    ASSUME GraphInv, CallInv', Collapse
    PROVE  GraphInv' /\ (PlainPaths => PlaceInv')
<1> DEFINE anchored == anchor_findings(collapse(findings), budget.files)
<1>1. /\ stage = "agents" /\ "merge" \notin Range(calls)
      /\ UNCHANGED <<diff, budget, running, reports, answers, retracted, calls>>
      /\ \/ stage' = "critic" /\ findings' = anchored /\ UNCHANGED suppressed
         \/ AfterCritic(anchored)
  BY DEF Collapse, GraphInv, CallInv
<1>2. /\ reports \in SUBSET Report /\ Held(findings, reports) /\ AllMarked(findings)
      /\ AllSaid(findings) /\ \A i \in DOMAIN findings : ~findings[i].amended
      /\ budget.files \in Seq(Entry) /\ suppressed \in Nat
  BY <1>1 DEF GraphInv, AllSaid
<1>3. /\ Held(collapse(findings), reports) /\ AllMarked(collapse(findings))
      /\ AllSaid(collapse(findings))
  BY <1>2, CollapseHolds
<1>4. /\ Held(anchored, reports) /\ AllMarked(anchored) /\ AllPlaced(anchored)
      /\ PlainFiles(budget.files) => AllOnDiff(anchored, budget.files)
  BY <1>2, <1>3, AnchorHolds
<1> HIDE DEF anchored
<1>5. /\ Held(findings', reports) /\ AllMarked(findings') /\ AllPlaced(findings')
      /\ suppressed' \in Nat
      /\ PlainFiles(budget.files) => AllOnDiff(findings', budget.files)
      /\ stage' \in {"critic", "merge", "done"}
  <2>1. CASE stage' = "critic" /\ findings' = anchored /\ UNCHANGED suppressed
    BY <1>2, <1>4, <2>1
  <2>2. CASE AfterCritic(anchored)
    BY <1>2, <1>4, <2>2, AfterCriticHolds, AfterCriticStage
  <2> QED
    BY <1>1, <2>1, <2>2
<1>6. GraphInv'
  BY <1>1, <1>5 DEF GraphInv
<1> QED
  BY <1>1, <1>5, <1>6, BudgetIsPlain DEF PlaceInv

LEMMA JudgeOneFileHolds ==
    ASSUME GraphInv, CallInv', NEW i \in DOMAIN budget.files, JudgeOneFile(i)
    PROVE  GraphInv' /\ (PlaceInv => PlaceInv')
<1>1. /\ stage = "critic" /\ stage' \in {"critic", "raised"}
      /\ UNCHANGED <<diff, budget, running, findings, reports, retracted, suppressed, calls>>
  BY DEF JudgeOneFile, Raise
<1>2. (DOMAIN answers \subseteq DOMAIN budget.files)'
  <2>1. CASE UNCHANGED answers
    BY <1>1, <2>1 DEF GraphInv
  <2>2. ASSUME NEW said, answers' = [k \in DOMAIN answers \cup {i} |->
                                        IF k = i THEN said ELSE answers[k]]
        PROVE  (DOMAIN answers \subseteq DOMAIN budget.files)'
    <3>1. DOMAIN answers' = DOMAIN answers \cup {i}
      BY <2>2
    <3> QED
      BY <1>1, <3>1 DEF GraphInv
  <2> QED
    BY <2>1, <2>2 DEF JudgeOneFile
<1> QED
  BY <1>1, <1>2 DEF GraphInv, PlaceInv

LEMMA ReviewFindingsHolds ==
    ASSUME GraphInv, CallInv', ReviewFindings PROVE GraphInv' /\ (PlaceInv => PlaceInv')
<1> DEFINE checked == apply_verdicts(findings, Verdicts, Judged)
<1>1. /\ stage = "critic" /\ "merge" \notin Range(calls)
      /\ AfterCritic(checked.findings) /\ retracted' = checked.retracted
      /\ answers' = <<>>
      /\ UNCHANGED <<diff, budget, running, reports>>
  BY DEF ReviewFindings, GraphInv, CallInv
<1>2. /\ reports \in SUBSET Report /\ Held(findings, reports) /\ AllMarked(findings)
      /\ AllPlaced(findings) /\ suppressed \in Nat /\ (PlaceInv => AllOnDiff(findings, budget.files))
  BY <1>1 DEF GraphInv, PlaceInv
<1>3. /\ Held(checked.findings, reports) /\ AllMarked(checked.findings)
      /\ AllPlaced(checked.findings)
      /\ PlaceInv => AllOnDiff(checked.findings, budget.files)
      /\ checked.retracted \in Nat
  BY <1>2, JudgeHolds
<1> HIDE DEF checked
<1>4. /\ Held(findings', reports) /\ AllMarked(findings') /\ AllPlaced(findings')
      /\ suppressed' \in Nat
      /\ PlaceInv => AllOnDiff(findings', budget.files)
      /\ stage' \in {"merge", "done"}
  BY <1>1, <1>2, <1>3, AfterCriticHolds, AfterCriticStage
<1> QED
  BY <1>1, <1>3, <1>4 DEF GraphInv, PlaceInv

\* An answer of the merge pass is a list.
LEMMA DecisionsAreListed ==
    ASSUME NEW decisions \in BoundedSeq([left : 1 .. Len(findings) + 1,
                                         right : 1 .. Len(findings) + 1,
                                         same_defect : {TRUE}], MaxVerdicts)
    PROVE  \E T : decisions \in Seq(T)
<1> DEFINE T == [left : 1 .. Len(findings) + 1, right : 1 .. Len(findings) + 1,
                 same_defect : {TRUE}]
<1>1. PICK n \in 0 .. MaxVerdicts : decisions \in [1 .. n -> T]
  BY DEF BoundedSeq, SeqOf
<1>2. n \in Nat
  BY GraphAssumption DEF GraphAssumption
<1> HIDE DEF T
<1>3. decisions \in Seq(T)
  BY <1>1, <1>2
<1> QED
  BY <1>3

LEMMA MergeFindingsHolds ==
    ASSUME GraphInv, CallInv', MergeFindings
    PROVE  GraphInv' /\ (PlainPaths /\ PlaceInv => PlaceInv')
<1>1. /\ stage = "merge"
      /\ UNCHANGED <<diff, budget, running, reports, answers, retracted>>
  BY DEF MergeFindings
<1>2. CASE Raise /\ UNCHANGED <<findings, suppressed, calls>>
  BY <1>1, <1>2 DEF Raise, GraphInv, PlaceInv
<1>3. ASSUME NEW T, NEW decisions \in Seq(T),
             Finish(apply_decisions(findings, decisions, candidate_pairs(findings))),
             calls' = Append(calls, "merge")
      PROVE  GraphInv' /\ (PlainPaths /\ PlaceInv => PlaceInv')
  <2> DEFINE merged == apply_decisions(findings, decisions, candidate_pairs(findings))
  <2>1. /\ reports \in SUBSET Report /\ Held(findings, reports) /\ AllPlaced(findings)
        /\ budget.files \in Seq(Entry)
        /\ PlaceInv => AllOnDiff(findings, budget.files)
    BY <1>1 DEF GraphInv, PlaceInv
  <2>2. /\ Held(merged, reports) /\ AllPlaced(merged)
        /\ PlainFiles(budget.files) /\ PlaceInv => AllOnDiff(merged, budget.files)
    BY <2>1, MergeHolds
  <2>3. /\ findings' = rank_and_cut(merged).kept /\ stage' = "done"
        /\ suppressed' = rank_and_cut(merged).withheld
    BY <1>3 DEF Finish
  <2> HIDE DEF merged
  <2>4. /\ Held(findings', reports) /\ AllPlaced(findings') /\ suppressed' \in Nat
        /\ PlainFiles(budget.files) /\ PlaceInv => AllOnDiff(findings', budget.files)
    BY <2>1, <2>2, <2>3, RankHolds
  <2>5. "merge" \in Range(calls')
    <3>1. calls \in Seq(Agent \cup {"critic", "merge"})
      BY DEF GraphInv, CallInv
    <3>2. Len(calls) + 1 \in DOMAIN calls' /\ calls'[Len(calls) + 1] = "merge"
      BY <1>3, <3>1
    <3> QED
      BY <3>2 DEF Range
  <2>6. GraphInv'
    BY <1>1, <2>3, <2>4, <2>5 DEF GraphInv
  <2> QED
    BY <1>1, <2>4, <2>6, BudgetIsPlain DEF PlaceInv
<1> QED
  BY <1>2, <1>3, DecisionsAreListed DEF MergeFindings

LEMMA NextGraphInv ==
    ASSUME GraphInv, [Next]_vars
    PROVE  GraphInv' /\ (PlainPaths /\ PlaceInv => PlaceInv')
<1>1. CallInv'
  BY NextCallInv DEF GraphInv
<1>2. CASE Prepare
  BY <1>1, <1>2, PrepareHolds
<1>3. ASSUME NEW a \in Agent, RunAgent(a)
      PROVE  GraphInv' /\ (PlainPaths /\ PlaceInv => PlaceInv')
  BY <1>1, <1>3, RunAgentHolds
<1>4. CASE Collapse
  BY <1>1, <1>4, CollapseStepHolds
<1>5. ASSUME NEW i \in DOMAIN budget.files, JudgeOneFile(i)
      PROVE  GraphInv' /\ (PlainPaths /\ PlaceInv => PlaceInv')
  BY <1>1, <1>5, JudgeOneFileHolds
<1>6. CASE ReviewFindings
  BY <1>1, <1>6, ReviewFindingsHolds
<1>7. CASE MergeFindings
  BY <1>1, <1>7, MergeFindingsHolds
<1>8. CASE UNCHANGED vars
  BY <1>1, <1>8 DEF vars, GraphInv, PlaceInv
<1> QED
  BY <1>2, <1>3, <1>4, <1>5, <1>6, <1>7, <1>8 DEF Next

\* The worst of a finding's reports is one of them.
LEMMA WorstIsReported ==
    ASSUME NEW f, f.raised # {}, f.raised \subseteq Report
    PROVE  /\ \E r \in f.raised : Worst(f) = r.finding.severity
           /\ \A r \in f.raised : r.finding.severity <= Worst(f)
           /\ Worst(f) \in 1 .. 3
<1> DEFINE S == {r.finding.severity : r \in f.raised}
<1>1. S \in SUBSET Nat /\ S # {} /\ \A x \in S : x <= 3 /\ x \in 1 .. 3
  BY ReportFields
<1>2. Worst(f) = Max(S)
  BY DEF Worst
<1> HIDE DEF S
<1>3. Max(S) \in S /\ \A x \in S : x <= Max(S)
  BY <1>1, MaxOfBounded
<1> QED
  BY <1>1, <1>2, <1>3 DEF S

-----------------------------------------------------------------------------
(* The theorems.                                                            *)

\* Whatever the diffs, the reports and the answers, every variable of a run of
\* the graph keeps its type: the budget names files of the diff, findings name
\* agents and stand for reports, and the counts never go below zero
\* (graph/nodes.py, graph/state.py).
THEOREM ReviewIsTyped == Spec => []ReviewTypeOK
<1>1. GraphInv => ReviewTypeOK
  <2> SUFFICES ASSUME GraphInv PROVE ReviewTypeOK
    OBVIOUS
  <2>1. ASSUME NEW i \in DOMAIN findings
        PROVE  /\ findings[i].line \in Nat /\ findings[i].severity \in Severity
               /\ findings[i].amended \in BOOLEAN
               /\ Range(findings[i].sources) \subseteq Agent
               /\ findings[i].raised # {} /\ findings[i].raised \subseteq reports
    <3>1. findings[i] \in Finding(reports) /\ Sound(findings[i])
      <4>1. findings \in Seq(Finding(reports)) /\ Sound(findings[i])
        BY DEF GraphInv, Held
      <4> QED
        BY <4>1
    <3>2. findings[i].sources \in Seq(Agent)
      BY <3>1, FindingFields
    <3>3. Range(findings[i].sources) \subseteq Agent
      BY <3>2 DEF Range
    <3> QED
      BY <3>1, <3>3, FindingFields DEF Sound, Severity, High
  <2>2. Range(calls) \subseteq Agent \cup {"critic", "merge"}
    BY DEF GraphInv, CallInv, Range
  <2>3. stage \in Stage /\ running \subseteq Agent
    BY DEF GraphInv, CallInv
  <2> QED
    BY <2>1, <2>2, <2>3 DEF GraphInv, ReviewTypeOK, Report
<1> QED
  BY InitGraphInv, NextGraphInv, <1>1, PTL DEF Spec

\* Whatever merged a finding, clusters or the decisions of a model, it names
\* exactly the agents that raised it, once each (graph/dedupe.py:152-156).
THEOREM SourcesAreAlwaysAuthors == Spec => []SourcesAreAuthors
<1>1. GraphInv => SourcesAreAuthors
  BY DEF GraphInv, Held, Sound, SourcesAreAuthors
<1> QED
  BY InitGraphInv, NextGraphInv, <1>1, PTL DEF Spec

\* Whatever the critic and the merge pass answer, no finding is rated above what
\* its agents said, and only what was rated high comes down
\* (graph/critic.py:131-167).
THEOREM SeverityIsAlwaysEarned == Spec => []SeverityIsEarned
<1>1. GraphInv => SeverityIsEarned
  <2> SUFFICES ASSUME GraphInv, NEW f \in Posted
               PROVE  f.severity <= Worst(f) /\ (f.severity < Worst(f) => Worst(f) = High)
    BY DEF SeverityIsEarned
  <2>1. PICK i \in DOMAIN findings : f = findings[i]
    BY DEF Posted, Range
  <2>2. f \in Finding(reports) /\ Sound(f)
    <3>1. findings \in Seq(Finding(reports)) /\ Sound(f)
      BY <2>1 DEF GraphInv, Held
    <3> QED
      BY <2>1, <3>1
  <2>3. f.raised \subseteq Report /\ f.raised # {} /\ f.severity \in {1, 2, 3}
    BY <2>2, FindingFields DEF GraphInv, Sound
  <2>4. /\ \E r \in f.raised : Worst(f) = r.finding.severity
        /\ \A r \in f.raised : r.finding.severity <= Worst(f)
        /\ Worst(f) \in 1 .. 3
    BY <2>3, WorstIsReported
  <2>5. f.severity <= Worst(f)
    <3>1. PICK r \in f.raised : f.severity <= r.finding.severity
      BY <2>2 DEF Sound, Earned
    <3>2. r.finding.severity \in 1 .. 3 /\ r.finding.severity <= Worst(f)
      BY <2>3, <2>4, ReportFields
    <3> QED
      BY <2>3, <2>4, <3>1, <3>2
  <2>6. ASSUME f.severity < Worst(f) PROVE Worst(f) = High
    <3>1. PICK q \in f.raised : q.finding.severity = High
      BY <2>2, <2>4, <2>6 DEF Sound, Earned
    <3>2. q.finding.severity <= Worst(f)
      BY <2>4
    <3> QED
      BY <2>4, <3>1, <3>2 DEF High
  <2> QED
    BY <2>5, <2>6
<1> QED
  BY InitGraphInv, NextGraphInv, <1>1, PTL DEF Spec

\* Whatever the reports and the answers, neither agreement nor a judgement makes
\* a finding surer than the surest of its reports (graph/dedupe.py:161-167).
THEOREM ConfidenceIsAlwaysEarned == Spec => []ConfidenceIsEarned
<1>1. GraphInv => ConfidenceIsEarned
  <2> SUFFICES ASSUME GraphInv, NEW i \in DOMAIN findings
               PROVE  findings[i].confidence
                         = Max({r.finding.confidence : r \in findings[i].raised})
    BY DEF ConfidenceIsEarned
  <2> DEFINE f == findings[i]
             S == {r.finding.confidence : r \in f.raised}
  <2>1. f \in Finding(reports) /\ Sound(f)
    <3>1. findings \in Seq(Finding(reports)) /\ Sound(f)
      BY DEF GraphInv, Held
    <3> QED
      BY <3>1
  <2> HIDE DEF f
  <2>2. f.raised \subseteq Report /\ f.confidence \in Nat
    BY <2>1, FindingFields DEF GraphInv
  <2>3. S \in SUBSET Nat /\ f.confidence \in S /\ \A x \in S : x <= f.confidence
    BY <2>1, <2>2, ReportFields DEF Sound, Sure
  <2> HIDE DEF S
  <2>4. Max(S) \in S /\ \A x \in S : x <= Max(S)
    BY <2>2, <2>3, MaxOfBounded
  <2>5. f.confidence = Max(S)
    BY <2>2, <2>3, <2>4
  <2> QED
    BY <2>5 DEF f, S
<1> QED
  BY InitGraphInv, NextGraphInv, <1>1, PTL DEF Spec

\* However often findings are collapsed, anchored and merged, a finding with a
\* line is within the tolerance of a line one of its reports named: it is moved
\* once, and merging takes the line of a member (anchors.py:28-75,
\* graph/dedupe.py:159-175).
THEOREM LinesAreAlwaysReported == Spec => []LinesAreReported
<1>1. GraphInv => LinesAreReported
  BY DEF GraphInv, AllPlaced, Placed, LinesAreReported
<1> QED
  BY InitGraphInv, NextGraphInv, <1>1, PTL DEF Spec

\* Up to the merge pass, which forgets it, what the critic lowered says so
\* (models.py:111-120, graph/dedupe.py:159-175).
THEOREM LoweredIsAlwaysMarked == Spec => []LoweredIsMarked
<1>1. GraphInv => LoweredIsMarked
  <2> SUFFICES ASSUME GraphInv, "merge" \notin Range(calls), NEW i \in DOMAIN findings,
                      findings[i].severity < Worst(findings[i])
               PROVE  findings[i].amended
    BY DEF LoweredIsMarked
  <2> DEFINE f == findings[i]
  <2>1. f \in Finding(reports) /\ Sound(f) /\ Marked(f)
    <3>1. findings \in Seq(Finding(reports)) /\ Sound(f) /\ Marked(f)
      BY DEF GraphInv, Held, AllMarked
    <3> QED
      BY <3>1
  <2>2. f.severity < Worst(f)
    OBVIOUS
  <2> HIDE DEF f
  <2>3. f.raised \subseteq Report /\ f.raised # {} /\ f.severity \in {1, 2, 3}
    BY <2>1, FindingFields DEF GraphInv, Sound
  <2>4. /\ \E r \in f.raised : Worst(f) = r.finding.severity
        /\ Worst(f) \in 1 .. 3
    BY <2>3, WorstIsReported
  <2>5. ~Rated(f)
    BY <2>2, <2>3, <2>4 DEF Rated
  <2> QED
    BY <2>1, <2>5 DEF Marked, f
<1> QED
  BY InitGraphInv, NextGraphInv, <1>1, PTL DEF Spec

\* In a repository without directories named as the prefixes of a diff, every
\* comment is on a line of a file of the diff where GitHub takes one
\* (anchors.py:32-75); where there are, normalize_path makes it false.
THEOREM CommentsAreAlwaysOnTheDiff ==
    ASSUME PlainPaths PROVE Spec => []CommentsAreOnTheDiff
<1> DEFINE IInv == GraphInv /\ PlaceInv
<1>1. Init => IInv
  BY InitGraphInv
<1>2. IInv /\ [Next]_vars => IInv'
  BY NextGraphInv
<1>3. IInv => CommentsAreOnTheDiff
  <2> SUFFICES ASSUME IInv, NEW f \in Posted
               PROVE  \E i \in DOMAIN budget.files :
                         /\ f.file = budget.files[i].path
                         /\ f.line # NoLine => f.line \in anchorable_lines(budget.files[i])
    BY DEF CommentsAreOnTheDiff
  <2>1. OnDiff(f, budget.files)
    BY DEF Posted, Range, PlaceInv, AllOnDiff
  <2> DEFINE i == by_path(budget.files, f.file)
  <2>2. i # 0 /\ i \in DOMAIN budget.files
    BY <2>1, ByPath DEF OnDiff, GraphInv
  <2> QED
    BY <2>1, <2>2 DEF OnDiff
<1> QED
  BY <1>1, <1>2, <1>3, PTL DEF Spec
=============================================================================
