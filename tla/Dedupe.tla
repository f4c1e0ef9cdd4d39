------------------------------- MODULE Dedupe --------------------------------
(***************************************************************************)
(* Findings, and the deterministic half of merging them (graph/dedupe.py). *)
(* A severity is its SEVERITY_RANK, a confidence a natural number, a title *)
(* its set of words, a path its sequence of components; a category and a   *)
(* body play no part in any decision and are left out.                     *)
(***************************************************************************)
EXTENDS Selection

CONSTANTS
    Agent,              \* the reviewers
    PathOrder,          \* how paths compare as strings: a number for each
    LineTolerance,      \* settings.dedupe_line_tolerance
    TitleSimilarity,    \* settings.dedupe_title_similarity, in percent
    MinConfidence,      \* settings.min_confidence
    MinSeverity,        \* settings.min_severity
    MaxPosted           \* settings.max_posted_findings

ASSUME DedupeAssumption ==
    {LineTolerance, TitleSimilarity, MinConfidence, MinSeverity, MaxPosted} \subseteq Nat

NoLine == 0             \* line is None
High == 3
Severity == 1 .. High

\* A report is one finding of one agent, before anything is merged.  raised is
\* a history: the reports a finding stands for, of which the code keeps only the
\* authors, in sources.
from_finding(finding, agent, report) ==
    [file       |-> finding.file,
     line       |-> finding.line,
     severity   |-> finding.severity,
     title      |-> finding.title,
     confidence |-> finding.confidence,
     sources    |-> <<agent>>,
     amended    |-> FALSE,
     raised     |-> {report}]

\* "./" and one "a/" or "b/" are taken off.
normalize_path(path) ==
    LET cleaned == SubSeq(path, Min({i \in DOMAIN path : path[i] # "."}), Len(path))
    IN  IF Len(cleaned) > 1 /\ cleaned[1] \in {"a", "b"} THEN Tail(cleaned) ELSE cleaned

\* Every path there is, and every name a path is given, has a place in the order.
Path == DOMAIN PathOrder

ASSUME PathAssumption ==
    /\ IsInjective(PathOrder)
    /\ \A path \in Path : PathOrder[path] \in Nat /\ normalize_path(path) \in Path

\* What an agent reports, and a finding that stands for some of the reports.
Reportable == [file : Path, line : Nat, severity : Severity, title : SUBSET STRING,
               confidence : Nat]

Finding(Report) == [file : Path, line : Nat, severity : Severity, title : SUBSET STRING,
                    confidence : Nat, sources : Seq(Agent), amended : BOOLEAN,
                    raised : SUBSET Report]

\* The overlap of two titles in percent.
jaccard(left, right) ==
    IF left = {} \/ right = {} THEN 0
    ELSE (100 * Cardinality(left \cap right)) \div Cardinality(left \cup right)

Distance(m, n) == IF m < n THEN n - m ELSE m - n

-----------------------------------------------------------------------------
(* Clusters.  A cluster is the sequence of its members, all of one file.    *)

lines_compatible(cluster, line) ==
    IF line = NoLine
    THEN \A i \in DOMAIN cluster : cluster[i].line = NoLine
    ELSE \E i \in DOMAIN cluster : /\ cluster[i].line # NoLine
                                   /\ Distance(line, cluster[i].line) <= LineTolerance

titles_match(cluster, title) ==
    \E i \in DOMAIN cluster : jaccard(cluster[i].title, title) >= TitleSimilarity

\* Severity first, confidence to break a tie.
AtLeastAs(m, n) ==
    \/ m.severity > n.severity
    \/ m.severity = n.severity /\ m.confidence >= n.confidence

\* Mutant: the first member speaks for the others.
FirstReported(members) == members[1]

\* The first of the most severe and then most confident members.
Representative(members) ==
    members[Min({i \in DOMAIN members :
                   \A j \in DOMAIN members : AtLeastAs(members[i], members[j])})]

\* Mutant: whoever repeats a finding is forgotten.
SourcesOfFirst(members) == members[1].sources

\* Everyone who raised a member, each once, in order of appearance.
Sources(members) ==
    FoldLeft(LAMBDA sources, m : sources \o Filter(m.sources, LAMBDA a : ~Contains(sources, a)),
             <<>>, members)

representative_line(members) ==
    LET lines == {members[i].line : i \in DOMAIN members} \ {NoLine}
    IN  IF lines = {} THEN NoLine ELSE Min(lines)

\* Mutant: agreement raises confidence.
merge_corroborated(members) ==
    IF Len(members) = 1 THEN members[1]
    ELSE [Representative(members) EXCEPT
             !.line       = representative_line(members),
             !.confidence = @ + Len(members) - 1,
             !.sources    = Sources(members),
             !.raised     = UNION {members[i].raised : i \in DOMAIN members}]

\* One finding for a cluster; amended is not carried over.
merge(members) ==
    IF Len(members) = 1 THEN members[1]
    ELSE [file       |-> members[1].file,
          line       |-> representative_line(members),
          severity   |-> Representative(members).severity,
          title      |-> Representative(members).title,
          confidence |-> Max({members[i].confidence : i \in DOMAIN members}),
          sources    |-> Sources(members),
          amended    |-> FALSE,
          raised     |-> UNION {members[i].raised : i \in DOMAIN members}]

\* One finding at a time joins the first cluster that takes it.
collapse(findings) ==
    LET Takes(cluster, f) == /\ cluster[1].file = f.file
                             /\ lines_compatible(cluster, f.line)
                             /\ titles_match(cluster, f.title)
        Place(clusters, finding) ==
            LET f == [finding EXCEPT !.file = normalize_path(@)]
                takers == {i \in DOMAIN clusters : Takes(clusters[i], f)}
            IN  IF takers = {} THEN Append(clusters, <<f>>)
                ELSE [clusters EXCEPT ![Min(takers)] = Append(@, f)]
        clusters == FoldLeft(Place, <<>>, findings)
    IN  [i \in DOMAIN clusters |-> merge(clusters[i])]

-----------------------------------------------------------------------------
(* Ranking.                                                                *)

\* f is posted before g: more severe, then more confident, then raised by more
\* agents, then by place.
Outranks(f, g) ==
    \/ f.severity > g.severity
    \/ /\ f.severity = g.severity
       /\ \/ f.confidence > g.confidence
          \/ /\ f.confidence = g.confidence
             /\ \/ Len(f.sources) > Len(g.sources)
                \/ /\ Len(f.sources) = Len(g.sources)
                   /\ \/ PathOrder[f.file] < PathOrder[g.file]
                      \/ f.file = g.file /\ f.line < g.line

Passes(f) == f.confidence >= MinConfidence /\ f.severity >= MinSeverity

\* Mutant: what is below a floor is not counted.
rank_and_cut_uncounted(findings) ==
    LET surviving == SortedBy(Filter(findings, Passes), Outranks)
        kept == SubSeq(surviving, 1, Min({MaxPosted, Len(surviving)}))
    IN  [kept |-> kept, withheld |-> Len(surviving) - Len(kept)]

\* Mutant: the cap is taken off before the findings are ranked.
rank_after_cut(findings) ==
    LET surviving == Filter(findings, Passes)
        kept == SubSeq(surviving, 1, Min({MaxPosted, Len(surviving)}))
    IN  [kept |-> SortedBy(kept, Outranks), withheld |-> Len(findings) - Len(kept)]

\* What is posted, and how many are withheld: below a floor or past the cap.
rank_and_cut(findings) ==
    LET surviving == SortedBy(Filter(findings, Passes), Outranks)
        kept == SubSeq(surviving, 1, Min({MaxPosted, Len(surviving)}))
    IN  [kept |-> kept, withheld |-> Len(findings) - Len(kept)]
=============================================================================
