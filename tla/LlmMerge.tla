------------------------------ MODULE LlmMerge -------------------------------
(***************************************************************************)
(* The pure half of the merge pass (graph/llm_merge.py): the pairs the     *)
(* model is asked about, and the groups its answers make.                  *)
(***************************************************************************)
EXTENDS Dedupe

CONSTANTS
    MergeLineWindow,    \* settings.merge_line_window
    MergeMaxPairs       \* settings.merge_max_pairs

ASSUME LlmMergeAssumption == {MergeLineWindow, MergeMaxPairs} \subseteq Nat

\* Two findings of different agents in one file, both without a line or close.
Candidate(f, g) ==
    /\ normalize_path(f.file) = normalize_path(g.file)
    /\ Range(f.sources) \cap Range(g.sources) = {}
    /\ \/ f.line = NoLine /\ g.line = NoLine
       \/ /\ f.line # NoLine /\ g.line # NoLine
          /\ Distance(f.line, g.line) <= MergeLineWindow

\* The first pairs by position; the cap is tested after a pair is taken.
candidate_pairs(findings) ==
    LET pairs == {p \in (DOMAIN findings) \X (DOMAIN findings) :
                    p[1] < p[2] /\ Candidate(findings[p[1]], findings[p[2]])}
        Earlier(p, q) == p[1] < q[1] \/ (p[1] = q[1] /\ p[2] < q[2])
    IN  {p \in pairs : Cardinality({q \in pairs : Earlier(q, p)}) < Max({1, MergeMaxPairs})}

\* The root of a position in the forest.
find(parent, index) ==
    LET root[i \in DOMAIN parent] == IF parent[i] = i THEN i ELSE root[parent[i]]
    IN  root[index]

\* The pair a decision is about, whichever way round it is given.
Key(decision) == <<Min({decision.left, decision.right}), Max({decision.left, decision.right})>>

\* Mutant: the position and not its root is attached.
join_positions(parent, key) == [parent EXCEPT ![key[1]] = find(parent, key[2])]

join(parent, key) == [parent EXCEPT ![find(parent, key[1])] = find(parent, key[2])]

\* Only decisions on the pairs that were asked about count.
forest(size, decisions, pairs) ==
    FoldLeft(LAMBDA parent, d : IF d.same_defect /\ Key(d) \in pairs THEN join(parent, Key(d))
                                ELSE parent,
             [i \in 1 .. size |-> i], decisions)

\* The members of each group in the input's order, the groups in that of their roots.
groups(size, decisions, pairs) ==
    LET parent == forest(size, decisions, pairs)
        roots == Filter([i \in 1 .. size |-> i], LAMBDA i : parent[i] = i)
    IN  [k \in DOMAIN roots |->
            Filter([i \in 1 .. size |-> i], LAMBDA i : find(parent, i) = roots[k])]

merge_group(members) ==
    IF Len(members) = 1 THEN members[1]
    ELSE [merge(members) EXCEPT !.file = normalize_path(@)]

apply_decisions(findings, decisions, pairs) ==
    LET grouped == groups(Len(findings), decisions, pairs)
    IN  [k \in DOMAIN grouped |->
            merge_group([i \in DOMAIN grouped[k] |-> findings[grouped[k][i]]])]
=============================================================================
