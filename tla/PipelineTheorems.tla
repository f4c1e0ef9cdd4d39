-------------------------- MODULE PipelineTheorems ---------------------------
(***************************************************************************)
(* What PipelineChecks checks up to a length, for inputs of every length:  *)
(* the lemmas of PipelineSafety at work on any diff, any list of findings  *)
(* and any list of decisions.                                              *)
(***************************************************************************)
EXTENDS PipelineChecks, PipelineSafety

Decision == [left : 1 .. Size, right : 1 .. Size, same_defect : BOOLEAN]

\* What the input is at any length.
FilesInput ==
    /\ input \in Seq(Entry)
    /\ \A i \in DOMAIN input : PathOrder[input[i].path] = i

FindingsInput ==
    /\ input \in Seq(Finding(Nat))
    /\ \A i \in DOMAIN input : input[i].raised = {i} /\ IsInjective(input[i].sources)

LinesInput == input \in Seq(LineSort \cup {"@@"})

InputInv ==
    /\ kind = "files" => FilesInput
    /\ kind = "findings" => FindingsInput
    /\ kind = "decisions" => input \in Seq(Decision)
    /\ kind = "lines" => LinesInput

LEMMA ReportMade ==
    ASSUME NEW r \in Reportable, NEW a \in Agent, NEW n \in Nat
    PROVE  LET f == from_finding(r, a, n)
           IN  f \in Finding(Nat) /\ f.raised = {n} /\ IsInjective(f.sources)
<1>1. /\ r.file \in Path /\ r.line \in Nat /\ r.severity \in Severity
      /\ r.title \in SUBSET STRING /\ r.confidence \in Nat
  BY DEF Reportable
<1>2. <<a>> \in Seq(Agent) /\ IsInjective(<<a>>)
  <2>1. DOMAIN <<a>> = {1}
    OBVIOUS
  <2> QED
    BY <2>1 DEF IsInjective
<1> QED
  BY <1>1, <1>2 DEF from_finding, Finding

\* What holds of every element and of a further one holds of every element.
LEMMA Appended ==
    ASSUME NEW T, NEW s \in Seq(T), NEW e \in T
    PROVE  LET t == Append(s, e)
           IN  /\ t \in Seq(T)
               /\ \A i \in DOMAIN t : \/ i \in DOMAIN s /\ t[i] = s[i]
                                      \/ i = Len(s) + 1 /\ t[i] = e
OBVIOUS

LEMMA InputInvariance == Spec => []InputInv
<1>1. Init => InputInv
  BY DEF Init, InputInv, FilesInput, FindingsInput, LinesInput
<1>2. InputInv /\ [Next]_<<kind, input>> => InputInv'
  <2> SUFFICES ASSUME InputInv, [Next]_<<kind, input>> PROVE InputInv'
    OBVIOUS
  <2>1. CASE NextFile
    <3>1. PICK shape \in FileShapes, path \in Path :
              PathOrder[path] = Len(input) + 1 /\ Extend(EntryOf(shape, path))
      BY <2>1 DEF NextFile, Path
    <3> DEFINE e == EntryOf(shape, path)
    <3>2. e \in Entry /\ e.path = path
      BY InputAssumption DEF InputAssumption, EntryOf
    <3> HIDE DEF e
    <3>3. kind = "files" /\ kind' = "files" /\ input' = Append(input, e)
      BY <2>1, <3>1 DEF NextFile, Extend, e
    <3>4. FilesInput
      BY <3>3 DEF InputInv
    <3>5. /\ input' \in Seq(Entry)
          /\ \A i \in DOMAIN input' : \/ i \in DOMAIN input /\ input'[i] = input[i]
                                      \/ i = Len(input) + 1 /\ input'[i] = e
      BY <3>2, <3>3, <3>4, Appended DEF FilesInput
    <3>6. \A i \in DOMAIN input' : PathOrder[input'[i].path] = i
      BY <3>1, <3>2, <3>4, <3>5 DEF FilesInput
    <3> QED
      BY <3>3, <3>5, <3>6 DEF InputInv, FilesInput
  <2>2. CASE NextFinding
    <3>1. PICK r \in Reports, a \in Agent : Extend(from_finding(r, a, Len(input) + 1))
      BY <2>2 DEF NextFinding
    <3> DEFINE n == Len(input) + 1
               f == from_finding(r, a, n)
    <3>2. kind = "findings" /\ kind' = "findings" /\ input' = Append(input, f)
      BY <2>2, <3>1 DEF NextFinding, Extend
    <3>3. FindingsInput
      BY <3>2 DEF InputInv
    <3>4. n \in Nat /\ r \in Reportable
      BY <3>3, InputAssumption DEF FindingsInput, InputAssumption
    <3>5. f \in Finding(Nat) /\ f.raised = {n} /\ IsInjective(f.sources)
      <4> HIDE DEF n
      <4> QED
        BY <3>4, ReportMade
    <3> HIDE DEF f
    <3>6. /\ input' \in Seq(Finding(Nat))
          /\ \A i \in DOMAIN input' : \/ i \in DOMAIN input /\ input'[i] = input[i]
                                      \/ i = Len(input) + 1 /\ input'[i] = f
      BY <3>2, <3>3, <3>5, Appended DEF FindingsInput
    <3>7. \A i \in DOMAIN input' : input'[i].raised = {i} /\ IsInjective(input'[i].sources)
      BY <3>3, <3>5, <3>6 DEF FindingsInput
    <3> QED
      BY <3>2, <3>6, <3>7 DEF InputInv, FindingsInput
  <2>3. CASE NextDecision
    <3>1. PICK left \in 1 .. Size, right \in 1 .. Size, same \in BOOLEAN :
              Extend([left |-> left, right |-> right, same_defect |-> same])
      BY <2>3 DEF NextDecision
    <3> DEFINE d == [left |-> left, right |-> right, same_defect |-> same]
    <3>2. d \in Decision
      BY DEF Decision
    <3> HIDE DEF d
    <3>3. kind = "decisions" /\ kind' = "decisions" /\ input' = Append(input, d)
      BY <2>3, <3>1 DEF NextDecision, Extend, d
    <3>4. input' \in Seq(Decision)
      BY <3>2, <3>3, Appended DEF InputInv
    <3> QED
      BY <3>3, <3>4 DEF InputInv
  <2>4. CASE NextLine
    <3>1. PICK e \in LineSort \cup {"@@"} : Extend(e)
      BY <2>4 DEF NextLine
    <3>2. kind = "lines" /\ kind' = "lines" /\ input' = Append(input, e)
      BY <2>4, <3>1 DEF NextLine, Extend
    <3>3. input' \in Seq(LineSort \cup {"@@"})
      BY <3>2, Appended DEF InputInv, LinesInput
    <3> QED
      BY <3>2, <3>3 DEF InputInv, LinesInput
  <2>5. CASE UNCHANGED <<kind, input>>
    BY <2>5 DEF InputInv, FilesInput, FindingsInput, LinesInput
  <2> QED
    BY <2>1, <2>2, <2>3, <2>4, <2>5 DEF Next
<1> QED
  BY <1>1, <1>2, PTL DEF Spec

-----------------------------------------------------------------------------
(* Collapsing and ranking.                                                 *)

LEMMA CollapsedIsTyped ==
    ASSUME FindingsInput
    PROVE  Collapsed \in Seq(Finding(Nat))
<1>1. input \in Seq(Finding(Nat)) /\ \A i \in DOMAIN input : IsInjective(input[i].sources)
  BY DEF FindingsInput
<1> QED
  BY <1>1, CollapsedFindings DEF Collapsed

\* However many findings there are, what is posted is in order, and what passes the
\* floors and is withheld is no better than anything that is posted
\* (graph/dedupe.py:188-230).
THEOREM CapAlwaysKeepsTheTop == Spec => []CapKeepsTheTop
<1>1. InputInv => CapKeepsTheTop
  <2> SUFFICES ASSUME InputInv, kind = "findings"
               PROVE  LET posted == rank_and_cut(Collapsed).kept IN
                      \A k \in DOMAIN posted :
                          /\ \A n \in DOMAIN posted : n < k => AtLeastAs(posted[n], posted[k])
                          /\ \A f \in Range(Collapsed) \ Range(posted) :
                                Passes(f) => AtLeastAs(posted[k], f)
    BY DEF CapKeepsTheTop
  <2> DEFINE c == Collapsed
             posted == rank_and_cut(c).kept
  <2>1. c \in Seq(Finding(Nat))
    BY CollapsedIsTyped DEF InputInv
  <2> HIDE DEF c
  <2>2. PICK src : KeptFrom(posted, c, src)
    BY <2>1, RankedFindings
  <2> HIDE DEF posted
  <2>3. \A k, n \in DOMAIN posted : n < k => AtLeastAs(posted[n], posted[k])
    BY <2>2 DEF KeptFrom
  <2>4. ASSUME NEW k \in DOMAIN posted, NEW f \in Range(c) \ Range(posted), Passes(f)
        PROVE  AtLeastAs(posted[k], f)
    <3>1. PICK i \in DOMAIN c : c[i] = f
      BY DEF Range
    <3>2. \A l \in DOMAIN posted : posted[l] # f
      BY DEF Range
    <3> QED
      BY <2>2, <2>4, <3>1, <3>2 DEF KeptFrom
  <2> QED
    BY <2>3, <2>4 DEF posted, c
<1> QED
  BY <1>1, InputInvariance, PTL

\* A row for each report: the one finding that stands for it.
LEMMA IntoOneFinding ==
    ASSUME FindingsInput
    PROVE  \E row : \A i \in DOMAIN input :
              /\ row[i] \in DOMAIN Collapsed
              /\ \A k \in DOMAIN Collapsed : i \in Collapsed[k].raised <=> k = row[i]
              /\ Collapsed[row[i]].file = normalize_path(input[i].file)
              /\ Collapsed[row[i]].severity >= input[i].severity
              /\ Collapsed[row[i]].confidence >= input[i].confidence
              /\ Collapsed[row[i]].line <= input[i].line
<1>1. input \in Seq(Finding(Nat)) /\ DOMAIN input = 1 .. Len(input)
      /\ \A i \in DOMAIN input : input[i].raised = {i} /\ IsInjective(input[i].sources)
  BY DEF FindingsInput
<1>2. PICK c \in Clusters(Nat) :
          /\ \A k \in DOMAIN c : Uniform(c[k])
          /\ Clustered(c, input, Len(input))
          /\ Collapsed = [k \in DOMAIN c |-> merge(c[k])]
  <2>0. input \in Seq(Finding(Nat))
    BY <1>1
  <2>1. \E c \in Clusters(Nat) :
            /\ \A k \in DOMAIN c : Uniform(c[k])
            /\ Clustered(c, input, Len(input))
            /\ collapse(input) = [k \in DOMAIN c |-> merge(c[k])]
    BY <2>0, CollapseClusters
  <2> QED
    BY <2>1, Zenon DEF Collapsed
<1>3. PICK row, col : PlacedAt(c, input, Len(input), row, col)
  BY <1>2 DEF Clustered
<1>4. ASSUME NEW k \in DOMAIN c
      PROVE  /\ c[k] \in Seq(Finding(Nat)) /\ c[k] # <<>>
             /\ \A m \in DOMAIN c[k] : \E i \in DOMAIN input :
                   row[i] = k /\ col[i] = m /\ c[k][m] = Named(input[i])
  <2>1. c[k] \in Seq(Finding(Nat)) /\ c[k] # <<>>
    BY <1>2 DEF Clusters
  <2>2. \A m \in DOMAIN c[k] : \E i \in DOMAIN input : row[i] = k /\ col[i] = m
    BY <1>1, <1>3 DEF PlacedAt
  <2> QED
    BY <1>1, <1>3, <2>1, <2>2 DEF PlacedAt
<1>5. ASSUME NEW i \in DOMAIN input
      PROVE  /\ Named(input[i]).file = normalize_path(input[i].file)
             /\ Named(input[i]).line = input[i].line
             /\ Named(input[i]).severity = input[i].severity
             /\ Named(input[i]).confidence = input[i].confidence
             /\ Named(input[i]).sources = input[i].sources
             /\ Named(input[i]).raised = {i}
  <2>1. input[i] \in Finding(Nat)
    BY <1>1
  <2> QED
    BY <1>1, <2>1, NamedFinding
<1>6. ASSUME NEW k \in DOMAIN c
      PROVE  /\ \A m \in DOMAIN c[k] : IsInjective(c[k][m].sources)
             /\ merge(c[k]).file = c[k][1].file
             /\ \A m \in DOMAIN c[k] : c[k][m].severity <= merge(c[k]).severity
             /\ \A m \in DOMAIN c[k] : c[k][m].confidence <= merge(c[k]).confidence
             /\ \A m \in DOMAIN c[k] : c[k][m].line # NoLine => merge(c[k]).line <= c[k][m].line
             /\ \E m \in DOMAIN c[k] : merge(c[k]).line = c[k][m].line
             /\ merge(c[k]).raised = UNION {c[k][m].raised : m \in DOMAIN c[k]}
  <2>1. \A m \in DOMAIN c[k] : IsInjective(c[k][m].sources)
    BY <1>1, <1>4, <1>5
  <2>2. c[k] \in Seq(Finding(Nat)) /\ c[k] # <<>>
    BY <1>4
  <2> QED
    BY <2>1, <2>2, MergedFinding
<1>7. ASSUME NEW i \in DOMAIN input, NEW k \in DOMAIN c
      PROVE  i \in merge(c[k]).raised <=> k = row[i]
  <2>1. ASSUME i \in merge(c[k]).raised PROVE k = row[i]
    <3>1. PICK m \in DOMAIN c[k] : i \in c[k][m].raised
      BY <1>6, <2>1
    <3>2. PICK j \in DOMAIN input : row[j] = k /\ c[k][m] = Named(input[j])
      BY <1>4
    <3> QED
      BY <1>5, <3>1, <3>2
  <2>2. ASSUME k = row[i] PROVE i \in merge(c[k]).raised
    <3>1. col[i] \in DOMAIN c[k] /\ c[k][col[i]] = Named(input[i])
      BY <1>1, <1>3, <2>2 DEF PlacedAt
    <3> QED
      BY <1>5, <1>6, <3>1
  <2> QED
    BY <2>1, <2>2
<1>8. ASSUME NEW i \in DOMAIN input
      PROVE  /\ row[i] \in DOMAIN Collapsed
             /\ \A k \in DOMAIN Collapsed : i \in Collapsed[k].raised <=> k = row[i]
             /\ Collapsed[row[i]].file = normalize_path(input[i].file)
             /\ Collapsed[row[i]].severity >= input[i].severity
             /\ Collapsed[row[i]].confidence >= input[i].confidence
             /\ Collapsed[row[i]].line <= input[i].line
  <2> DEFINE k == row[i]
             m == col[i]
             g == merge(c[k])
             h == c[k][m]
  <2>1. k \in DOMAIN c /\ m \in DOMAIN c[k] /\ h = Named(input[i])
    BY <1>1, <1>3 DEF PlacedAt
  <2>2. \A l \in DOMAIN c : Collapsed[l] = merge(c[l])
    BY <1>2
  <2>3. DOMAIN Collapsed = DOMAIN c
    BY <1>2
  <2>4. c[k][1].file = h.file /\ (c[k][1].line = NoLine <=> h.line = NoLine)
    BY <1>2, <2>1 DEF Uniform
  <2>5. /\ g.file = normalize_path(input[i].file)
        /\ input[i].severity <= g.severity /\ input[i].confidence <= g.confidence
    BY <1>5, <1>6, <2>1, <2>4
  <2>6. g.line <= input[i].line
    <3>1. CASE h.line # NoLine
      BY <1>5, <1>6, <2>1, <3>1
    <3>2. CASE h.line = NoLine
      <4>1. PICK n \in DOMAIN c[k] : g.line = c[k][n].line
        BY <1>6, <2>1
      <4>2. c[k][n].line = NoLine
        BY <1>2, <2>1, <2>4, <3>2 DEF Uniform
      <4> QED
        BY <1>5, <2>1, <3>2, <4>1, <4>2 DEF NoLine
    <3> QED
      BY <3>1, <3>2
  <2>7. /\ input[i].severity \in Nat /\ input[i].confidence \in Nat
        /\ g.severity \in Nat /\ g.confidence \in Nat
    <3>1. input[i] \in Finding(Nat)
      BY <1>1
    <3>2. c[k] \in Seq(Finding(Nat)) /\ c[k] # <<>>
      BY <1>4, <2>1
    <3>3. g \in Finding(Nat)
      BY <1>6, <2>1, <3>2, MergedFinding
    <3> QED
      BY <3>1, <3>3, FindingFields
  <2>8. Collapsed[k] = g
    BY <2>1, <2>2
  <2>9. \A l \in DOMAIN Collapsed : i \in Collapsed[l].raised <=> l = k
    BY <1>7, <2>2, <2>3
  <2> HIDE DEF g, h, k
  <2>10. g.severity >= input[i].severity /\ g.confidence >= input[i].confidence
    BY <2>5, <2>7
  <2> QED
    BY <2>1, <2>3, <2>5, <2>6, <2>8, <2>9, <2>10 DEF k
<1> QED
  BY <1>8

\* However many findings there are and in whatever order, each report goes into
\* one of the collapsed ones, which is no less severe, no less confident and no
\* further down its file than the report (graph/dedupe.py:137-185).
THEOREM CollapseNeverUnderstates == Spec => []CollapseUnderstatesNothing
<1>1. InputInv => CollapseUnderstatesNothing
  <2> SUFFICES ASSUME InputInv, kind = "findings", NEW i \in DOMAIN input
               PROVE  LET into == {k \in DOMAIN Collapsed : i \in Collapsed[k].raised} IN
                      /\ Cardinality(into) = 1
                      /\ \A k \in into :
                            /\ Collapsed[k].file = normalize_path(input[i].file)
                            /\ Collapsed[k].severity >= input[i].severity
                            /\ Collapsed[k].confidence >= input[i].confidence
                            /\ Collapsed[k].line <= input[i].line
    BY DEF CollapseUnderstatesNothing
  <2> DEFINE c == Collapsed
             into == {k \in DOMAIN c : i \in c[k].raised}
  <2>1. PICK row : /\ row[i] \in DOMAIN c
                   /\ \A k \in DOMAIN c : i \in c[k].raised <=> k = row[i]
                   /\ c[row[i]].file = normalize_path(input[i].file)
                   /\ c[row[i]].severity >= input[i].severity
                   /\ c[row[i]].confidence >= input[i].confidence
                   /\ c[row[i]].line <= input[i].line
    BY IntoOneFinding DEF InputInv
  <2> HIDE DEF c
  <2>2. into = {row[i]}
    BY <2>1
  <2>3. Cardinality(into) = 1
    <3>1. Cardinality({row[i]}) = 1
      BY FS_Singleton
    <3> QED
      BY <2>2, <3>1
  <2> QED
    BY <2>1, <2>2, <2>3 DEF c
<1> QED
  BY <1>1, InputInvariance, PTL

-----------------------------------------------------------------------------
(* The groups of the merge pass.                                           *)

\* Whatever the model decides, on however many findings and in whatever order,
\* two of them are merged exactly when decisions on pairs that were asked about
\* connect them (graph/llm_merge.py:183-190).
THEOREM GroupsAreAlwaysConnected == Spec => []GroupsAreConnected
<1>1. InputInv => GroupsAreConnected
  <2> SUFFICES ASSUME InputInv, kind = "decisions", NEW i \in 1 .. Size, NEW j \in 1 .. Size
               PROVE  Connected(i, j)
                      <=> \E k \in DOMAIN Grouped : {i, j} \subseteq Range(Grouped[k])
    BY DEF GroupsAreConnected
  <2> DEFINE n == Size
             g == Grouped
             J == SameDefect
  <2>1. n \in Nat /\ Asked \in SUBSET ((1 .. n) \X (1 .. n)) /\ input \in Seq(Decision)
    BY InputAssumption DEF InputAssumption, Size, InputInv
  <2>2. J = Accepted(input, Asked)
    BY DEF SameDefect, Accepted
  <2> HIDE DEF n
  <2>3. PICK R : LeadsTo(forest(n, input, Asked), n, input, Asked, Len(input), R)
    BY <2>1, ForestOfDecisions
  <2>4. IsRoots(forest(n, input, Asked), n, R)
    BY <2>3 DEF LeadsTo
  <2>5. PICK root : /\ DOMAIN groups(n, input, Asked) = 1 .. Len(groups(n, input, Asked))
                    /\ GroupedBy(groups(n, input, Asked), n, R, root)
    BY <2>1, <2>4, GroupsByRoot
  <2>6. g = groups(n, input, Asked)
    BY DEF Grouped, n
  <2> HIDE DEF g, J
  <2>7. /\ DOMAIN g = 1 .. Len(g)
        /\ \A k \in DOMAIN g : \A x \in 1 .. n : x \in Range(g[k]) <=> R[x] = root[k]
        /\ \A x \in 1 .. n : \E k \in DOMAIN g : R[x] = root[k]
    BY <2>5, <2>6 DEF GroupedBy
  <2>8. ASSUME NEW p \in J PROVE p[1] \in 1 .. n /\ p[2] \in 1 .. n /\ R[p[1]] = R[p[2]]
    <3>1. PICK k \in DOMAIN input : input[k].same_defect /\ p = Key(input[k])
      BY <2>2, <2>8 DEF Accepted
    <3>2. p \in Asked
      BY <2>2, <2>8 DEF Accepted
    <3>3. k \in 1 .. Len(input)
      BY <2>1
    <3> QED
      BY <2>1, <2>3, <3>1, <3>2, <3>3 DEF LeadsTo
  <2>9. ASSUME NEW S \in SUBSET (1 .. n), \A p \in J : p[1] \in S <=> p[2] \in S
        PROVE  \A x \in 1 .. n : x \in S <=> R[x] \in S
    BY <2>2, <2>3, <2>9 DEF LeadsTo, ClosedUnder
  <2>10. i \in 1 .. n /\ j \in 1 .. n
    BY DEF n
  <2>11. Connected(i, j) <=> \A S \in SUBSET (1 .. n) :
                                /\ i \in S
                                /\ \A p \in J : p[1] \in S <=> p[2] \in S
                                => j \in S
    BY DEF Connected, n, J
  <2>12. ASSUME Connected(i, j) PROVE \E k \in DOMAIN g : {i, j} \subseteq Range(g[k])
    <3> DEFINE S == {x \in 1 .. n : R[x] = R[i]}
    <3>1. S \in SUBSET (1 .. n) /\ i \in S /\ \A p \in J : p[1] \in S <=> p[2] \in S
      BY <2>8, <2>10
    <3>2. j \in S
      <4> HIDE DEF S
      <4> QED
        BY <2>11, <2>12, <3>1
    <3>3. PICK k \in DOMAIN g : R[i] = root[k]
      BY <2>7, <2>10
    <3> QED
      BY <2>7, <2>10, <3>2, <3>3
  <2>13. ASSUME NEW k \in DOMAIN g, {i, j} \subseteq Range(g[k]) PROVE Connected(i, j)
    <3>1. R[i] = R[j]
      BY <2>7, <2>10, <2>13
    <3>2. ASSUME NEW S \in SUBSET (1 .. n), i \in S,
                 \A p \in J : p[1] \in S <=> p[2] \in S
          PROVE  j \in S
      BY <2>9, <2>10, <3>1, <3>2
    <3> QED
      BY <2>11, <3>2
  <2> QED
    BY <2>12, <2>13 DEF g
<1> QED
  BY <1>1, InputInvariance, PTL

-----------------------------------------------------------------------------
(* The budget.  Places of files in the diff, of which a sequence of files  *)
(* is given by those it picks.                                             *)

LEMMA PicksOfPicks ==
    ASSUME NEW l \in Nat, NEW m \in Nat, NEW n \in Nat,
           NEW a, Picks(a, m, n), NEW b, Picks(b, l, m)
    PROVE  Picks([k \in 1 .. l |-> a[b[k]]], l, n)
BY DEF Picks

LEMMA TokensAreCounted ==
    ASSUME NEW file \in Entry
    PROVE  Tokens(file) \in Nat
<1>1. Len(file.hunks) \in 0 .. Len(file.hunks)
  BY DEF Entry, Hunks
<1> QED
  BY <1>1, LinesAreCounted DEF Tokens

\* w gives the tokens of the files at some places.
SumOfTokens(w, files) ==
    IsSum(w, [i \in 1 .. Len(files) |-> Tokens(files[i])], 1 .. Len(files))

LEMMA TokensOfPicked ==
    ASSUME NEW files \in Seq(Entry), NEW w, SumOfTokens(w, files),
           NEW m \in Nat, NEW src, Picks(src, m, Len(files)),
           NEW out, out = [k \in 1 .. m |-> files[src[k]]]
    PROVE  TokensOf(out) = w[Places(src, 1 .. m)]
<1> DEFINE n == Len(files)
           g == [i \in 1 .. n |-> Tokens(files[i])]
           h == [k \in DOMAIN out |-> Tokens(out[k])]
<1>1. \A k \in 1 .. m : src[k] \in 1 .. n
  BY DEF Picks
<1>2. \A i \in 1 .. n : files[i] \in Entry
  OBVIOUS
<1> HIDE DEF n
<1>3. \A k \in 1 .. m : g[src[k]] \in Nat /\ g[src[k]] = Tokens(files[src[k]])
  BY <1>1, <1>2, TokensAreCounted
<1>4. DOMAIN h = 1 .. m /\ \A k \in 1 .. m : h[k] = Tokens(files[src[k]])
  OBVIOUS
<1>5. h = [k \in 1 .. m |-> h[k]]
  OBVIOUS
<1>6. TokensOf(out) = Total(h)
  BY DEF TokensOf
<1> HIDE DEF g, h
<1>7. h \in [1 .. m -> Nat] /\ \A k \in 1 .. m : h[k] = g[src[k]]
  BY <1>3, <1>4, <1>5
<1>8. Total(h) = w[Places(src, 1 .. m)]
  <2>1. IsSum(w, g, 1 .. n) /\ Picks(src, m, n)
    BY DEF SumOfTokens, g, n
  <2> QED
    BY <1>7, <2>1, TotalOfPicked
<1> QED
  BY <1>6, <1>8

\* What fits: all but the n largest, and not one more.
FitBy(fit, files, src, n) ==
    /\ Picks(src, Len(files), Len(files))
    /\ \A i \in 1 .. Len(files) : \E k \in 1 .. Len(files) : src[k] = i
    /\ \A k, l \in 1 .. Len(files) :
          k < l => Tokens(files[src[k]]) >= Tokens(files[src[l]])
    /\ n \in 0 .. Len(files) - 1
    /\ fit.files = [k \in 1 .. Len(files) - n |-> files[src[n + k]]]
    /\ fit.dropped = [k \in 1 .. n |-> files[src[k]]]
    /\ n = Len(files) - 1 \/ TokensOf(fit.files) <= MaxPromptTokens
    /\ n # 0 => ~(TokensOf([k \in 1 .. Len(files) - n + 1 |-> files[src[n - 1 + k]]])
                     <= MaxPromptTokens)

LEMMA FittedBySize ==
    ASSUME NEW files \in Seq(Entry), files # <<>>
    PROVE  \E src, n : FitBy(fit_to_budget(files), files, src, n)
<1> DEFINE D == DOMAIN files
           N == Len(files)
           L == {p \in D \X D : Tokens(files[p[1]]) > Tokens(files[p[2]])}
           by_size == Arranged(files, Stable(L, D))
           Part(k) == SubSeq(by_size, k + 1, N)
           may == {k \in 0 .. N - 1 : \/ k = N - 1
                                      \/ TokensOf(Part(k)) <= MaxPromptTokens}
           n == Min(may)
<1>1. N \in Nat /\ N # 0 /\ D = 1 .. N
  OBVIOUS
<1>2. SortedBy(files, LAMBDA f, g : Tokens(f) > Tokens(g)) = by_size
  <2>1. Stable(L, D) = {p \in D \X D : \/ Tokens(files[p[1]]) > Tokens(files[p[2]])
                                       \/ p[1] < p[2] /\ ~(Tokens(files[p[2]]) > Tokens(files[p[1]]))}
    <3>1. \A p \in D \X D : /\ p \in L <=> Tokens(files[p[1]]) > Tokens(files[p[2]])
                            /\ <<p[2], p[1]>> \in L <=> Tokens(files[p[2]]) > Tokens(files[p[1]])
      OBVIOUS
    <3> HIDE DEF L
    <3> QED
      BY <3>1 DEF Stable
  <2> QED
    BY <2>1 DEF SortedBy
<1>3. WeaklyOrders(L, D)
  BY TokensOrder
<1>4. by_size \in Seq(Entry) /\ Len(by_size) = N /\ \E src : SortedAt(by_size, files, L, src)
  <2> HIDE DEF L
  <2> QED
    BY <1>3, SortedElements
<1>5. PICK src : SortedAt(by_size, files, L, src)
  BY <1>4
<1>6. fit_to_budget(files) = [files |-> Part(n), dropped |-> SubSeq(by_size, 1, n)]
  <2> HIDE DEF by_size, L, D
  <2> QED
    BY <1>2 DEF fit_to_budget
<1>7. \A i, j \in D : <<i, j>> \in L <=> Tokens(files[i]) > Tokens(files[j])
  OBVIOUS
<1> HIDE DEF by_size, L, Part, N
<1>8. n \in may /\ \A k \in may : n <= k
  <2>1. may \in SUBSET Nat /\ may # {}
    <3>1. N - 1 \in may
      BY <1>1
    <3>2. may \in SUBSET Nat
      BY <1>1
    <3> QED
      BY <3>1, <3>2
  <2> HIDE DEF may
  <2> QED
    BY <2>1, MinExists
<1> HIDE DEF n
<1>9. n \in 0 .. N - 1 /\ (n = N - 1 \/ TokensOf(Part(n)) <= MaxPromptTokens)
  BY <1>8
<1>10. n # 0 => ~(TokensOf(Part(n - 1)) <= MaxPromptTokens)
  <2>1. n # 0 => n - 1 \in 0 .. N - 1 /\ ~(n <= n - 1)
    BY <1>1, <1>9
  <2> QED
    BY <1>8, <2>1
<1> HIDE DEF may
<1>11. \A k \in 1 .. N : src[k] \in D /\ by_size[k] = files[src[k]]
  BY <1>1, <1>5 DEF SortedAt, Picks, N
<1>12. ASSUME NEW k \in 0 .. N - 1
       PROVE  Part(k) = [i \in 1 .. N - k |-> files[src[k + i]]]
  <2>1. Part(k) = [i \in 1 .. N - k |-> by_size[k + i]]
    BY <1>1, <1>4 DEF Part
  <2>2. \A i \in 1 .. N - k : k + i \in 1 .. N
    BY <1>1
  <2> QED
    BY <1>11, <2>1, <2>2
<1>13. SubSeq(by_size, 1, n) = [i \in 1 .. n |-> files[src[i]]]
  <2>1. SubSeq(by_size, 1, n) = [i \in 1 .. n |-> by_size[i]]
    BY <1>1, <1>4, <1>9
  <2>2. \A i \in 1 .. n : i \in 1 .. N
    BY <1>1, <1>9
  <2> QED
    BY <1>11, <2>1, <2>2
<1>14. ASSUME NEW k \in 1 .. N, NEW l \in 1 .. N, k < l
       PROVE  Tokens(files[src[k]]) >= Tokens(files[src[l]])
  <2>1. ~(Tokens(files[src[l]]) > Tokens(files[src[k]]))
    BY <1>1, <1>5, <1>7, <1>11, <1>14 DEF SortedAt, N
  <2>2. Tokens(files[src[k]]) \in Nat /\ Tokens(files[src[l]]) \in Nat
    <3>1. files[src[k]] \in Entry /\ files[src[l]] \in Entry
      BY <1>11
    <3> QED
      BY <3>1, TokensAreCounted
  <2> QED
    BY <2>1, <2>2
<1>15. n # 0 => ~(TokensOf([k \in 1 .. N - n + 1 |-> files[src[n - 1 + k]]]) <= MaxPromptTokens)
  <2>1. n # 0 => n - 1 \in 0 .. N - 1 /\ N - (n - 1) = N - n + 1
    BY <1>1, <1>9
  <2> QED
    BY <1>10, <1>12, <2>1
<1>16. Picks(src, N, N) /\ \A i \in 1 .. N : \E k \in 1 .. N : src[k] = i
  BY <1>5 DEF SortedAt, N
<1>17. Part(n) = [k \in 1 .. N - n |-> files[src[n + k]]]
  BY <1>9, <1>12
<1> DEFINE fit == fit_to_budget(files)
           small == Part(n)
           large == SubSeq(by_size, 1, n)
<1> HIDE DEF small, large, fit
<1>18. fit.files = small /\ fit.dropped = large
  <2>1. fit = [files |-> small, dropped |-> large]
    BY <1>6 DEF fit, small, large
  <2> QED
    BY <2>1
<1>19. FitBy(fit, files, src, n)
  <2>1. /\ fit.files = [k \in 1 .. N - n |-> files[src[n + k]]]
        /\ fit.dropped = [k \in 1 .. n |-> files[src[k]]]
        /\ n = N - 1 \/ TokensOf(fit.files) <= MaxPromptTokens
    BY <1>9, <1>13, <1>17, <1>18 DEF small, large
  <2> QED
    BY <1>9, <1>14, <1>15, <1>16, <2>1 DEF FitBy, N
<1> QED
  BY <1>19 DEF fit

\* The files of a diff as they are cut, and those of them that may be shown.
CutDiff(diff) == [i \in 1 .. Len(diff) |-> truncated_to(diff[i], MaxFileDiffLines)]

Candidates(diff) == {i \in DOMAIN diff : Reviewable(diff[i])}

PathsAt(files, at) == {files[i].path : i \in at}

LEMMA CutFiles ==
    ASSUME NEW diff \in Seq(Entry)
    PROVE  /\ CutDiff(diff) \in Seq(Entry) /\ Len(CutDiff(diff)) = Len(diff)
           /\ DOMAIN CutDiff(diff) = 1 .. Len(diff)
           /\ \A i \in 1 .. Len(diff) : CutDiff(diff)[i].path = diff[i].path
<1> DEFINE n == Len(diff)
           c == CutDiff(diff)
<1>1. n \in Nat /\ \A i \in 1 .. n : diff[i] \in Entry
  OBVIOUS
<1> HIDE DEF n
<1>2. c = [i \in 1 .. n |-> truncated_to(diff[i], MaxFileDiffLines)]
  BY DEF CutDiff, n
<1>3. \A i \in 1 .. n : truncated_to(diff[i], MaxFileDiffLines) \in Entry
                        /\ truncated_to(diff[i], MaxFileDiffLines).path = diff[i].path
  BY <1>1, TruncatedEntry
<1> HIDE DEF c
<1>4. c \in [1 .. n -> Entry] /\ \A i \in 1 .. n : c[i].path = diff[i].path
  BY <1>2, <1>3
<1>5. c \in Seq(Entry) /\ Len(c) = n /\ DOMAIN c = 1 .. n
  BY <1>1, <1>4
<1> QED
  BY <1>4, <1>5 DEF n, c

LEMMA SelectedPaths ==
    ASSUME NEW files \in Seq(Entry), NEW at \in SUBSET (DOMAIN files)
    PROVE  Paths(Selected(files, at)) = PathsAt(files, at)
<1> DEFINE s == Selected(files, at)
<1>1. s \in Seq(Entry) /\ DOMAIN s = 1 .. Len(s)
  BY SelectionPicks
<1>2. PICK src : PickedAt(s, files, at, src)
  BY SelectionPicks
<1> HIDE DEF s
<1>3. \A k \in DOMAIN s : src[k] \in at /\ s[k] = files[src[k]]
  BY <1>1, <1>2 DEF PickedAt
<1>4. \A i \in at : \E k \in DOMAIN s : src[k] = i
  BY <1>1, <1>2 DEF PickedAt
<1>5. ASSUME NEW x PROVE x \in Paths(s) <=> x \in PathsAt(files, at)
  <2>1. x \in Paths(s) <=> \E k \in DOMAIN s : s[k].path = x
    BY DEF Paths
  <2>2. x \in PathsAt(files, at) <=> \E i \in at : files[i].path = x
    BY DEF PathsAt
  <2> QED
    BY <1>3, <1>4, <2>1, <2>2
<1>6. Paths(s) = PathsAt(files, at)
  <2> HIDE DEF s
  <2> QED
    BY <1>5
<1> QED
  BY <1>6 DEF s

\* What build_budget starts from.
Reviewables(diff) == Filter(parse_diff(diff).files, Reviewable)
KeptOf(diff) == [i \in DOMAIN Reviewables(diff) |->
                    truncated_to(Reviewables(diff)[i], MaxFileDiffLines)]
SkippedOf(diff) == parse_diff(diff).unparseable
                   \cup Paths(Filter(parse_diff(diff).files, LAMBDA f : ~Reviewable(f)))
TruncatedOf(diff) == Paths(Filter(KeptOf(diff), LAMBDA f : f.omitted > 0))

LEMMA KeptFiles ==
    ASSUME NEW diff \in Seq(Entry)
    PROVE  \E q, m : /\ m \in Nat /\ Picks(q, m, Len(diff))
                     /\ Places(q, 1 .. m) = Candidates(diff)
                     /\ KeptOf(diff) = [k \in 1 .. m |-> CutDiff(diff)[q[k]]]
<1> DEFINE N == Len(diff)
           files == parse_diff(diff).files
           some == {i \in DOMAIN diff : Readable(diff[i])}
           may == {i \in DOMAIN files : Reviewable(files[i])}
           s == Reviewables(diff)
           m == Len(s)
<1>1. files = Selected(diff, some)
  BY DEF parse_diff, Filter
<1>2. N \in Nat /\ DOMAIN diff = 1 .. N
  OBVIOUS
<1>3. files \in Seq(Entry) /\ DOMAIN files = 1 .. Len(files) /\ Len(files) \in Nat
  <2>1. files \in Seq(Entry)
    BY <1>1, SelectionPicks
  <2> HIDE DEF files
  <2> QED
    BY <2>1
<1>4. s = Selected(files, may)
  BY DEF Reviewables, Filter
<1>5. some \subseteq DOMAIN diff /\ may \subseteq DOMAIN files
  OBVIOUS
<1>6. \A i \in DOMAIN diff : i \in some <=> Readable(diff[i])
  OBVIOUS
<1>7. \A j \in DOMAIN files : j \in may <=> Reviewable(files[j])
  OBVIOUS
<1> HIDE DEF files, some, may, s
<1>8. PICK p : PickedAt(files, diff, some, p)
  BY <1>1, <1>5, SelectionPicks
<1>9. PICK r : PickedAt(s, files, may, r)
  BY <1>3, <1>4, <1>5, SelectionPicks
<1>10. s \in Seq(Entry) /\ DOMAIN s = 1 .. m /\ m \in Nat
  <2>1. s \in Seq(Entry)
    BY <1>3, <1>4, <1>5, SelectionPicks
  <2> QED
    BY <2>1
<1> HIDE DEF m, N
<1> DEFINE q == [k \in 1 .. m |-> p[r[k]]]
<1>11. Picks(p, Len(files), N) /\ Picks(r, m, Len(files))
  BY <1>8, <1>9 DEF PickedAt, N, m
<1>12. Picks(q, m, N)
  BY <1>2, <1>3, <1>10, <1>11, PicksOfPicks
<1>13. \A k \in 1 .. m : /\ r[k] \in may /\ s[k] = files[r[k]] /\ r[k] \in DOMAIN files
                         /\ p[r[k]] \in some /\ files[r[k]] = diff[p[r[k]]]
                         /\ p[r[k]] \in 1 .. N
  BY <1>2, <1>8, <1>3, <1>5, <1>9 DEF PickedAt, m
<1>14. \A k \in 1 .. m : q[k] \in 1 .. N /\ s[k] = diff[q[k]] /\ Reviewable(diff[q[k]])
  BY <1>7, <1>13
<1>15. ASSUME NEW i \in Candidates(diff) PROVE \E k \in 1 .. m : q[k] = i
  <2>1. i \in DOMAIN diff /\ Reviewable(diff[i])
    BY DEF Candidates
  <2>2. i \in some
    BY <1>6, <2>1 DEF Reviewable, Readable
  <2>3. PICK j \in 1 .. Len(files) : p[j] = i
    BY <1>8, <2>2 DEF PickedAt
  <2>4. files[j] = diff[i]
    BY <1>8, <2>3 DEF PickedAt
  <2>5. j \in may
    BY <1>3, <1>7, <2>1, <2>3, <2>4
  <2>6. PICK k \in 1 .. m : r[k] = j
    BY <1>9, <2>5 DEF PickedAt, m
  <2> QED
    BY <2>3, <2>6
<1>16. Places(q, 1 .. m) = Candidates(diff)
  <2>1. \A k \in 1 .. m : q[k] \in Candidates(diff)
    BY <1>2, <1>14 DEF Candidates
  <2> HIDE DEF q
  <2> QED
    BY <1>15, <2>1 DEF Places
<1>17. KeptOf(diff) = [k \in 1 .. m |-> truncated_to(s[k], MaxFileDiffLines)]
  BY <1>10 DEF KeptOf, s
<1>18. \A i \in 1 .. N : CutDiff(diff)[i] = truncated_to(diff[i], MaxFileDiffLines)
  BY DEF CutDiff, N
<1> HIDE DEF q
<1>19. KeptOf(diff) = [k \in 1 .. m |-> CutDiff(diff)[q[k]]]
  BY <1>14, <1>17, <1>18
<1> QED
  BY <1>10, <1>12, <1>16, <1>19 DEF N

LEMMA KeptPaths ==
    ASSUME NEW diff \in Seq(Entry)
    PROVE  /\ SkippedOf(diff) = PathsAt(diff, DOMAIN diff \ Candidates(diff))
           /\ TruncatedOf(diff) = PathsAt(diff, {i \in Candidates(diff) :
                                                    CutDiff(diff)[i].omitted > 0})
<1> DEFINE files == parse_diff(diff).files
           some == {i \in DOMAIN diff : Readable(diff[i])}
           none == {i \in DOMAIN diff : ~Readable(diff[i])}
           noise == {j \in DOMAIN files : ~Reviewable(files[j])}
<1>1. /\ files = Selected(diff, some)
      /\ parse_diff(diff).unparseable = Paths(Selected(diff, none))
  BY DEF parse_diff, Filter
<1>2. some \in SUBSET (DOMAIN diff) /\ none \in SUBSET (DOMAIN diff)
      /\ noise \in SUBSET (DOMAIN files)
  OBVIOUS
<1>3. /\ \A i \in DOMAIN diff : (i \in some <=> Readable(diff[i])) /\ (i \in none <=> i \notin some)
      /\ \A j \in DOMAIN files : j \in noise <=> ~Reviewable(files[j])
  OBVIOUS
<1>4. SkippedOf(diff) = parse_diff(diff).unparseable \cup Paths(Selected(files, noise))
  BY DEF SkippedOf, Filter
<1> HIDE DEF files, some, none, noise
<1>5. PICK p : PickedAt(files, diff, some, p)
  BY <1>1, <1>2, SelectionPicks
<1>6. files \in Seq(Entry) /\ DOMAIN files = 1 .. Len(files)
  <2>1. files \in Seq(Entry)
    BY <1>1, <1>2, SelectionPicks
  <2> QED
    BY <2>1
<1>7. SkippedOf(diff) = PathsAt(diff, none) \cup PathsAt(files, noise)
  BY <1>1, <1>2, <1>4, <1>6, SelectedPaths
<1>8. \A j \in DOMAIN files : p[j] \in some /\ files[j] = diff[p[j]]
  BY <1>5, <1>6 DEF PickedAt
<1>9. \A i \in some : \E j \in DOMAIN files : p[j] = i
  BY <1>5, <1>6 DEF PickedAt
<1>10. \A i \in DOMAIN diff : Reviewable(diff[i]) => i \in some
  BY <1>3 DEF Reviewable, Readable
<1>11. ASSUME NEW x
       PROVE  x \in SkippedOf(diff) <=> x \in PathsAt(diff, DOMAIN diff \ Candidates(diff))
  <2>1. x \in SkippedOf(diff) <=> \/ \E i \in none : diff[i].path = x
                                  \/ \E j \in noise : files[j].path = x
    BY <1>7 DEF PathsAt
  <2>2. x \in PathsAt(diff, DOMAIN diff \ Candidates(diff))
           <=> \E i \in DOMAIN diff : ~Reviewable(diff[i]) /\ diff[i].path = x
    BY DEF PathsAt, Candidates
  <2>3. ASSUME NEW j \in noise PROVE p[j] \in DOMAIN diff /\ ~Reviewable(diff[p[j]])
                                     /\ files[j].path = diff[p[j]].path
    BY <1>2, <1>3, <1>8
  <2>4. ASSUME NEW i \in DOMAIN diff, ~Reviewable(diff[i]), i \in some
        PROVE  \E j \in noise : files[j].path = diff[i].path
    BY <1>3, <1>8, <1>9, <2>4
  <2> QED
    BY <1>2, <1>3, <1>10, <2>1, <2>2, <2>3, <2>4
<1> DEFINE k == KeptOf(diff)
           over == {j \in DOMAIN k : k[j].omitted > 0}
           c == CutDiff(diff)
<1>12. PICK q, m : /\ m \in Nat /\ Picks(q, m, Len(diff))
                   /\ Places(q, 1 .. m) = Candidates(diff)
                   /\ k = [j \in 1 .. m |-> c[q[j]]]
  BY KeptFiles
<1>13. /\ c \in Seq(Entry) /\ DOMAIN c = 1 .. Len(diff)
       /\ \A i \in 1 .. Len(diff) : c[i].path = diff[i].path
  BY CutFiles
<1>14. TruncatedOf(diff) = Paths(Selected(k, over))
  BY DEF TruncatedOf, Filter
<1>15. over \in SUBSET (DOMAIN k) /\ \A j \in DOMAIN k : j \in over <=> k[j].omitted > 0
  OBVIOUS
<1> HIDE DEF k, c, over
<1>16. \A j \in 1 .. m : q[j] \in Candidates(diff) /\ q[j] \in 1 .. Len(diff)
  BY <1>12 DEF Places, Picks
<1>17. k \in Seq(Entry) /\ DOMAIN k = 1 .. m /\ \A j \in 1 .. m : k[j] = c[q[j]]
  <2>1. \A j \in 1 .. m : c[q[j]] \in Entry
    BY <1>13, <1>16
  <2>2. k \in [1 .. m -> Entry] /\ m \in Nat /\ \A j \in 1 .. m : k[j] = c[q[j]]
    BY <1>12, <2>1
  <2> QED
    BY <2>2
<1>18. TruncatedOf(diff) = PathsAt(k, over)
  BY <1>14, <1>15, <1>17, SelectedPaths
<1>19. \A i \in Candidates(diff) : \E j \in 1 .. m : q[j] = i
  BY <1>12 DEF Places
<1>20. ASSUME NEW x
       PROVE  x \in TruncatedOf(diff)
                 <=> x \in PathsAt(diff, {i \in Candidates(diff) : c[i].omitted > 0})
  <2>1. x \in TruncatedOf(diff) <=> \E j \in over : k[j].path = x
    BY <1>18 DEF PathsAt
  <2>2. x \in PathsAt(diff, {i \in Candidates(diff) : c[i].omitted > 0})
           <=> \E i \in Candidates(diff) : c[i].omitted > 0 /\ diff[i].path = x
    BY DEF PathsAt
  <2>3. \A j \in 1 .. m : k[j].path = diff[q[j]].path /\ (j \in over <=> c[q[j]].omitted > 0)
    BY <1>13, <1>15, <1>16, <1>17
  <2> QED
    BY <1>15, <1>16, <1>17, <1>19, <2>1, <2>2, <2>3
<1> QED
  BY <1>11, <1>20 DEF c

\* The files that fit a diff: the candidates without the n largest, where one fewer
\* would have been too few.
FitsDiff(fit, diff, w, order, m, n) ==
    /\ m \in Nat /\ Picks(order, m, Len(diff)) /\ Places(order, 1 .. m) = Candidates(diff)
    /\ n \in 0 .. m
    /\ fit.files = [j \in 1 .. m - n |-> CutDiff(diff)[order[n + j]]]
    /\ fit.dropped = [j \in 1 .. n |-> CutDiff(diff)[order[j]]]
    /\ m - n = 1 \/ TokensOf(fit.files) <= MaxPromptTokens
    /\ n # 0 => /\ \A k, l \in 1 .. m : k < l => Tokens(CutDiff(diff)[order[k]])
                                                     >= Tokens(CutDiff(diff)[order[l]])
                /\ ~(w[Places(order, n .. m)] <= MaxPromptTokens)

FitOf(diff) == IF TokensOf(KeptOf(diff)) > MaxPromptTokens THEN fit_to_budget(KeptOf(diff))
               ELSE [files |-> KeptOf(diff), dropped |-> <<>>]

LEMMA FitOfDiff ==
    ASSUME NEW diff \in Seq(Entry), NEW w, SumOfTokens(w, CutDiff(diff))
    PROVE  \E order, m, n : FitsDiff(FitOf(diff), diff, w, order, m, n)
<1> DEFINE N == Len(diff)
           c == CutDiff(diff)
           k == KeptOf(diff)
           fit == FitOf(diff)
<1>1. PICK q, m : /\ m \in Nat /\ Picks(q, m, N)
                  /\ Places(q, 1 .. m) = Candidates(diff)
                  /\ k = [j \in 1 .. m |-> c[q[j]]]
  BY KeptFiles
<1>2. c \in Seq(Entry) /\ Len(c) = N /\ DOMAIN c = 1 .. N /\ N \in Nat
  BY CutFiles
<1>3. SumOfTokens(w, c)
  OBVIOUS
<1>4. fit = IF TokensOf(k) > MaxPromptTokens THEN fit_to_budget(k)
            ELSE [files |-> k, dropped |-> <<>>]
  BY DEF FitOf
<1> HIDE DEF c, k, fit, N
<1>5. \A j \in 1 .. m : q[j] \in 1 .. N
  BY <1>1 DEF Picks
<1>6. k \in Seq(Entry) /\ Len(k) = m /\ \A j \in 1 .. m : k[j] = c[q[j]]
  <2>1. \A j \in 1 .. m : c[q[j]] \in Entry
    BY <1>2, <1>5
  <2>2. k \in [1 .. m -> Entry] /\ \A j \in 1 .. m : k[j] = c[q[j]]
    BY <1>1, <2>1
  <2> QED
    BY <1>1, <2>2
<1>7. TokensOf(k) \in Nat /\ (m = 0 => TokensOf(k) = 0)
  <2> DEFINE t == [j \in DOMAIN k |-> Tokens(k[j])]
  <2>1. t \in [1 .. m -> Nat]
    <3>1. DOMAIN k = 1 .. m /\ \A j \in 1 .. m : k[j] \in Entry
      BY <1>6
    <3> QED
      BY <3>1, TokensAreCounted
  <2> HIDE DEF t
  <2>2. Total(t) \in Nat /\ (m = 0 => Total(t) = 0)
    BY <1>1, <2>1, TotalOfNumbers
  <2> QED
    BY <2>2 DEF TokensOf, t
<1>8. CASE ~(TokensOf(k) > MaxPromptTokens)
  <2>1. fit.files = k /\ fit.dropped = <<>>
    BY <1>4, <1>8
  <2>2. TokensOf(k) <= MaxPromptTokens
    BY <1>7, <1>8, BudgetAssumption DEF BudgetAssumption
  <2>3. m - 0 = m /\ 0 \in 0 .. m /\ \A j \in 1 .. m : q[0 + j] = q[j]
    BY <1>1
  <2>4. fit.files = [j \in 1 .. m - 0 |-> c[q[0 + j]]]
    BY <1>1, <2>1, <2>3
  <2>5. fit.dropped = [j \in 1 .. 0 |-> c[q[j]]]
    BY <2>1
  <2>6. FitsDiff(fit, diff, w, q, m, 0)
    BY <1>1, <2>1, <2>2, <2>3, <2>4, <2>5 DEF FitsDiff, c, N
  <2> QED
    BY <2>6 DEF fit
<1>9. CASE TokensOf(k) > MaxPromptTokens
  <2>1. fit = fit_to_budget(k) /\ k # <<>>
    <3>1. m # 0
      BY <1>7, <1>9, BudgetAssumption DEF BudgetAssumption
    <3> QED
      BY <1>4, <1>6, <1>9, <3>1
  <2>2. PICK src, n : FitBy(fit, k, src, n)
    BY <1>6, <2>1, FittedBySize
  <2> DEFINE order == [j \in 1 .. m |-> q[src[j]]]
  <2>3. Picks(src, m, m) /\ n \in 0 .. m - 1 /\ (\A i \in 1 .. m : \E j \in 1 .. m : src[j] = i)
    BY <1>6, <2>2 DEF FitBy
  <2>4. Picks(order, m, N)
    BY <1>1, <1>2, <2>3, PicksOfPicks
  <2>5. \A j \in 1 .. m : src[j] \in 1 .. m /\ order[j] = q[src[j]] /\ k[src[j]] = c[order[j]]
    BY <1>6, <2>3 DEF Picks
  <2> HIDE DEF order
  <2>6. Places(order, 1 .. m) = Candidates(diff)
    <3>1. ASSUME NEW x \in Places(order, 1 .. m) PROVE x \in Places(q, 1 .. m)
      <4>1. PICK j \in 1 .. m : x = order[j]
        BY DEF Places
      <4> QED
        BY <2>5, <4>1 DEF Places
    <3>2. ASSUME NEW x \in Places(q, 1 .. m) PROVE x \in Places(order, 1 .. m)
      <4>1. PICK i \in 1 .. m : x = q[i]
        BY DEF Places
      <4>2. PICK j \in 1 .. m : src[j] = i
        BY <2>3
      <4> QED
        BY <2>5, <4>1, <4>2 DEF Places
    <3> QED
      BY <1>1, <3>1, <3>2
  <2>7. fit.files = [j \in 1 .. m - n |-> c[order[n + j]]]
    <3>1. fit.files = [j \in 1 .. m - n |-> k[src[n + j]]]
      BY <1>6, <2>2 DEF FitBy
    <3>2. \A j \in 1 .. m - n : n + j \in 1 .. m
      BY <1>1, <2>3
    <3> QED
      BY <2>5, <3>1, <3>2
  <2>8. fit.dropped = [j \in 1 .. n |-> c[order[j]]]
    <3>1. fit.dropped = [j \in 1 .. n |-> k[src[j]]]
      BY <2>2 DEF FitBy
    <3>2. \A j \in 1 .. n : j \in 1 .. m
      BY <1>1, <2>3
    <3> QED
      BY <2>5, <3>1, <3>2
  <2>9. m - n = 1 \/ TokensOf(fit.files) <= MaxPromptTokens
    <3>1. n = m - 1 \/ TokensOf(fit.files) <= MaxPromptTokens
      BY <1>6, <2>2 DEF FitBy
    <3> QED
      BY <1>1, <2>3, <3>1
  <2>10. \A i, j \in 1 .. m : i < j => Tokens(c[order[i]]) >= Tokens(c[order[j]])
    <3>1. \A i, j \in 1 .. m : i < j => Tokens(k[src[i]]) >= Tokens(k[src[j]])
      BY <1>6, <2>2 DEF FitBy
    <3> QED
      BY <2>5, <3>1
  <2>11. ASSUME n # 0 PROVE ~(w[Places(order, n .. m)] <= MaxPromptTokens)
    <3> DEFINE l == m - n + 1
               s == [j \in 1 .. l |-> order[n - 1 + j]]
    <3>1. l \in Nat /\ \A j \in 1 .. l : n - 1 + j \in 1 .. m
      BY <1>1, <2>3, <2>11
    <3>2. ~(TokensOf([j \in 1 .. l |-> k[src[n - 1 + j]]]) <= MaxPromptTokens)
      BY <1>6, <2>2, <2>11 DEF FitBy
    <3>3. [j \in 1 .. l |-> k[src[n - 1 + j]]] = [j \in 1 .. l |-> c[s[j]]]
      BY <2>5, <3>1
    <3>4. Picks(s, l, N)
      <4>1. \A i, j \in 1 .. l : n - 1 + i = n - 1 + j => i = j
        BY <2>3
      <4> QED
        BY <2>4, <3>1, <4>1 DEF Picks
    <3>5. Places(s, 1 .. l) = Places(order, n .. m)
      <4>1. \A j \in n .. m : j - n + 1 \in 1 .. l /\ n - 1 + (j - n + 1) = j
        BY <1>1, <2>3
      <4>2. \A j \in 1 .. l : n - 1 + j \in n .. m
        BY <1>1, <2>3
      <4>3. \A j \in 1 .. l : s[j] = order[n - 1 + j]
        OBVIOUS
      <4> HIDE DEF s, l
      <4>4. \A x : x \in Places(s, 1 .. l) <=> x \in Places(order, n .. m)
        BY <4>1, <4>2, <4>3 DEF Places
      <4> QED
        BY <4>4
    <3> HIDE DEF s, l
    <3>6. TokensOf([j \in 1 .. l |-> c[s[j]]]) = w[Places(s, 1 .. l)]
      <4>1. Picks(s, l, Len(c))
        BY <1>2, <3>4
      <4>2. c \in Seq(Entry) /\ l \in Nat
        BY <1>2, <3>1
      <4> QED
        BY <1>3, <4>1, <4>2, TokensOfPicked
    <3> QED
      BY <3>2, <3>3, <3>5, <3>6
  <2>12. n \in 0 .. m
    BY <1>1, <2>3
  <2>13. FitsDiff(fit, diff, w, order, m, n)
    BY <1>1, <2>4, <2>6, <2>7, <2>8, <2>9, <2>10, <2>11, <2>12 DEF FitsDiff, c, N
  <2> QED
    BY <2>13 DEF fit
<1> QED
  BY <1>8, <1>9

\* The budgeted diff: the files at show, in the order of their paths.
Budgeted(b, diff, shown, w, show, l) ==
    /\ l \in Nat /\ Picks(show, l, Len(diff)) /\ Places(show, 1 .. l) = shown
    /\ b.files = [j \in 1 .. l |-> CutDiff(diff)[show[j]]]
    /\ TokensOf(b.files) = w[shown]
    /\ b.skipped = PathsAt(diff, DOMAIN diff \ shown)
    /\ b.truncated = TruncatedOf(diff)

LEMMA BudgetedFiles ==
    ASSUME NEW diff \in Seq(Entry), NEW w, SumOfTokens(w, CutDiff(diff)),
           NEW order, NEW m, NEW n, FitsDiff(FitOf(diff), diff, w, order, m, n)
    PROVE  /\ TokensOf(FitOf(diff).files) = w[Places(order, n + 1 .. m)]
           /\ \E show : Budgeted(build_budget(parse_diff(diff)), diff,
                                 Places(order, n + 1 .. m), w, show, m - n)
<1> DEFINE N == Len(diff)
           c == CutDiff(diff)
           fit == FitOf(diff)
           b == build_budget(parse_diff(diff))
           files == fit.files
           shown == Places(order, n + 1 .. m)
           D == DOMAIN files
           L == {p \in D \X D : PathOrder[files[p[1]].path] < PathOrder[files[p[2]].path]}
           sorted == Arranged(files, Stable(L, D))
<1>1. /\ b.files = SortedBy(files, LAMBDA f, g : PathOrder[f.path] < PathOrder[g.path])
      /\ b.skipped = SkippedOf(diff) \cup Paths(fit.dropped)
      /\ b.truncated = TruncatedOf(diff)
  BY DEF build_budget, FitOf, KeptOf, Reviewables, SkippedOf, TruncatedOf
<1> HIDE DEF fit, b
<1>2. b.files = sorted
  <2>1. Stable(L, D) = {p \in D \X D :
             \/ PathOrder[files[p[1]].path] < PathOrder[files[p[2]].path]
             \/ p[1] < p[2] /\ ~(PathOrder[files[p[2]].path] < PathOrder[files[p[1]].path])}
    <3>1. \A p \in D \X D :
             /\ p \in L <=> PathOrder[files[p[1]].path] < PathOrder[files[p[2]].path]
             /\ <<p[2], p[1]>> \in L
                  <=> PathOrder[files[p[2]].path] < PathOrder[files[p[1]].path]
      OBVIOUS
    <3> HIDE DEF L
    <3> QED
      BY <3>1 DEF Stable
  <2>2. SortedBy(files, LAMBDA f, g : PathOrder[f.path] < PathOrder[g.path]) = sorted
    <3> HIDE DEF files
    <3> QED
      BY <2>1 DEF SortedBy
  <2> HIDE DEF sorted
  <2> QED
    BY <1>1, <2>2
<1>3. /\ m \in Nat /\ Picks(order, m, N) /\ Places(order, 1 .. m) = Candidates(diff)
      /\ n \in 0 .. m
      /\ files = [j \in 1 .. m - n |-> c[order[n + j]]]
      /\ fit.dropped = [j \in 1 .. n |-> c[order[j]]]
  BY DEF FitsDiff, fit, c, N
<1>4. /\ c \in Seq(Entry) /\ Len(c) = N /\ DOMAIN c = 1 .. N /\ N \in Nat
      /\ \A i \in 1 .. N : c[i].path = diff[i].path
  BY CutFiles
<1> HIDE DEF c, files, N, L, D, sorted
<1> DEFINE l == m - n
           s == [j \in 1 .. l |-> order[n + j]]
<1>5. l \in Nat /\ n \in Nat /\ \A j \in 1 .. l : n + j \in 1 .. m
  BY <1>3
<1>6. Picks(s, l, N)
  <2>1. \A i, j \in 1 .. l : n + i = n + j => i = j
    BY <1>5
  <2> QED
    BY <1>3, <1>5, <2>1 DEF Picks
<1>7. Places(s, 1 .. l) = shown
  <2>1. \A j \in n + 1 .. m : j - n \in 1 .. l /\ n + (j - n) = j
    BY <1>3
  <2>2. \A j \in 1 .. l : n + j \in n + 1 .. m
    BY <1>3
  <2>3. \A j \in 1 .. l : s[j] = order[n + j]
    OBVIOUS
  <2> HIDE DEF s, l
  <2>4. \A x : x \in Places(s, 1 .. l) <=> x \in Places(order, n + 1 .. m)
    BY <2>1, <2>2, <2>3 DEF Places
  <2> QED
    BY <2>4
<1>8. files = [j \in 1 .. l |-> c[s[j]]]
  BY <1>3
<1> HIDE DEF l, s, shown
<1>9. files \in Seq(Entry) /\ Len(files) = l /\ D = 1 .. l
  <2>1. \A j \in 1 .. l : c[s[j]] \in Entry
    BY <1>4, <1>6 DEF Picks
  <2>2. files \in [1 .. l -> Entry]
    BY <1>8, <2>1
  <2> QED
    BY <1>5, <2>2 DEF D
<1>10. sorted \in Seq(Entry) /\ Len(sorted) = l /\ \E place : SortedAt(sorted, files, L, place)
  <2>1. WeaklyOrders(L, DOMAIN files)
    BY <1>9, TokensOrder DEF L, D
  <2> QED
    BY <1>9, <2>1, SortedElements DEF sorted, D
<1>11. PICK place : SortedAt(sorted, files, L, place)
  BY <1>10
<1> DEFINE show == [j \in 1 .. l |-> s[place[j]]]
<1>12. /\ Picks(place, l, l) /\ \A j \in 1 .. l : sorted[j] = files[place[j]]
       /\ \A i \in 1 .. l : \E j \in 1 .. l : place[j] = i
  BY <1>9, <1>11 DEF SortedAt
<1>13. Picks(show, l, N)
  BY <1>4, <1>5, <1>6, <1>12, PicksOfPicks
<1>14. \A j \in 1 .. l : place[j] \in 1 .. l /\ show[j] = s[place[j]] /\ sorted[j] = c[show[j]]
  BY <1>8, <1>12 DEF Picks
<1> HIDE DEF show
<1>15. Places(show, 1 .. l) = shown
  <2>1. ASSUME NEW x \in Places(show, 1 .. l) PROVE x \in Places(s, 1 .. l)
    <3>1. PICK j \in 1 .. l : x = show[j]
      BY DEF Places
    <3> QED
      BY <1>14, <3>1 DEF Places
  <2>2. ASSUME NEW x \in Places(s, 1 .. l) PROVE x \in Places(show, 1 .. l)
    <3>1. PICK i \in 1 .. l : x = s[i]
      BY DEF Places
    <3>2. PICK j \in 1 .. l : place[j] = i
      BY <1>12
    <3> QED
      BY <1>14, <3>1, <3>2 DEF Places
  <2> QED
    BY <1>7, <2>1, <2>2
<1>16. b.files = [j \in 1 .. l |-> c[show[j]]]
  <2>1. DOMAIN sorted = 1 .. l /\ sorted = [j \in 1 .. l |-> sorted[j]]
    BY <1>5, <1>10
  <2> QED
    BY <1>2, <1>14, <2>1
<1>17. TokensOf(files) = w[shown]
  <2>1. Picks(s, l, Len(c))
    BY <1>4, <1>6
  <2>2. SumOfTokens(w, c)
    BY DEF c
  <2> QED
    BY <1>4, <1>5, <1>7, <1>8, <2>1, <2>2, TokensOfPicked
<1>18. TokensOf(b.files) = w[shown]
  <2>1. Picks(show, l, Len(c))
    BY <1>4, <1>13
  <2>2. SumOfTokens(w, c)
    BY DEF c
  <2>3. sorted = [j \in 1 .. l |-> c[show[j]]]
    BY <1>2, <1>16
  <2>4. TokensOf(sorted) = w[Places(show, 1 .. l)]
    <3>1. c \in Seq(Entry) /\ l \in Nat
      BY <1>4, <1>5
    <3> QED
      BY <2>1, <2>2, <2>3, <3>1, TokensOfPicked
  <2> QED
    BY <1>2, <1>15, <2>4
<1>19. b.skipped = PathsAt(diff, DOMAIN diff \ shown)
  <2>1. SkippedOf(diff) = PathsAt(diff, DOMAIN diff \ Candidates(diff))
    BY KeptPaths
  <2>2. DOMAIN diff = 1 .. N
    BY DEF N
  <2>3. \A j \in 1 .. m : order[j] \in Candidates(diff) /\ order[j] \in 1 .. N
    BY <1>3 DEF Places, Picks
  <2>4. \A i \in Candidates(diff) : \E j \in 1 .. m : order[j] = i
    BY <1>3 DEF Places
  <2>5. \A j \in 1 .. m : j \in 1 .. n \/ j \in n + 1 .. m
    BY <1>3
  <2>6. \A j \in 1 .. n : j \in 1 .. m /\ j \notin n + 1 .. m
    BY <1>3
  <2>7. \A i : i \in shown <=> \E j \in n + 1 .. m : order[j] = i
    BY DEF shown, Places
  <2>8. \A j \in n + 1 .. m : j \in 1 .. m
    BY <1>3
  <2>9. \A j \in 1 .. n : order[j] \notin shown
    BY <1>3, <2>6, <2>7, <2>8 DEF Picks
  <2>10. \A i \in DOMAIN diff : i \notin shown
            <=> i \notin Candidates(diff) \/ \E j \in 1 .. n : order[j] = i
    BY <2>3, <2>4, <2>5, <2>7, <2>8, <2>9
  <2>11. \A x : x \in Paths(fit.dropped) <=> \E j \in 1 .. n : diff[order[j]].path = x
    <3>1. DOMAIN fit.dropped = 1 .. n /\ \A j \in 1 .. n : fit.dropped[j].path = diff[order[j]].path
      BY <1>3, <1>4, <2>3, <2>6
    <3> QED
      BY <3>1 DEF Paths
  <2>12. ASSUME NEW x PROVE x \in b.skipped <=> x \in PathsAt(diff, DOMAIN diff \ shown)
    <3>1. x \in b.skipped <=> \/ \E i \in DOMAIN diff : i \notin Candidates(diff) /\ diff[i].path = x
                              \/ \E j \in 1 .. n : diff[order[j]].path = x
      BY <1>1, <2>1, <2>11 DEF PathsAt
    <3>2. x \in PathsAt(diff, DOMAIN diff \ shown)
             <=> \E i \in DOMAIN diff : i \notin shown /\ diff[i].path = x
      BY DEF PathsAt
    <3>3. \A j \in 1 .. n : order[j] \in DOMAIN diff
      BY <2>2, <2>3, <2>6
    <3> QED
      BY <2>9, <2>10, <3>1, <3>2, <3>3
  <2> QED
    BY <2>12
<1>20. Budgeted(b, diff, shown, w, show, l)
  BY <1>1, <1>5, <1>13, <1>15, <1>16, <1>18, <1>19 DEF Budgeted, c, N
<1> QED
  BY <1>17, <1>20 DEF b, shown, l, files, fit

\* The budget of a diff as it is input.
InBudget(w, order, m, n, show) ==
    /\ SumOfTokens(w, CutDiff(input))
    /\ FitsDiff(FitOf(input), input, w, order, m, n)
    /\ TokensOf(FitOf(input).files) = w[Places(order, n + 1 .. m)]
    /\ Budgeted(Fitted, input, Places(order, n + 1 .. m), w, show, m - n)

LEMMA InputBudget ==
    ASSUME FilesInput
    PROVE  \E w, order, m, n, show : InBudget(w, order, m, n, show)
<1>1. input \in Seq(Entry)
  BY DEF FilesInput
<1> DEFINE c == CutDiff(input)
           N == Len(c)
           g == [i \in 1 .. N |-> Tokens(c[i])]
<1>2. c \in Seq(Entry)
  BY <1>1, CutFiles
<1> HIDE DEF c
<1>3. N \in Nat /\ \A i \in 1 .. N : c[i] \in Entry
  BY <1>2
<1>4. g \in [1 .. N -> Nat]
  <2> HIDE DEF N
  <2> QED
    BY <1>3, TokensAreCounted
<1> HIDE DEF g, N
<1>5. PICK w : IsSum(w, g, 1 .. N)
  BY <1>3, <1>4, TotalIsSum
<1>6. SumOfTokens(w, CutDiff(input))
  BY <1>5 DEF SumOfTokens, g, N, c
<1>7. PICK order, m, n : FitsDiff(FitOf(input), input, w, order, m, n)
  BY <1>1, <1>6, FitOfDiff
<1>8. /\ TokensOf(FitOf(input).files) = w[Places(order, n + 1 .. m)]
      /\ \E show : Budgeted(Fitted, input, Places(order, n + 1 .. m), w, show, m - n)
  BY <1>1, <1>6, <1>7, BudgetedFiles DEF Fitted
<1> QED
  BY <1>6, <1>7, <1>8 DEF InBudget

\* However many files a diff has and however large they are, the prompt is within the
\* budget, or it is a single file (diff/budget.py:137-153).
THEOREM PromptAlwaysFits == Spec => []PromptFits
<1>1. InputInv => PromptFits
  <2> SUFFICES ASSUME InputInv, kind = "files"
               PROVE  TokensOf(Fitted.files) <= MaxPromptTokens \/ Len(Fitted.files) = 1
    BY DEF PromptFits
  <2>1. PICK w, order, m, n, show : InBudget(w, order, m, n, show)
    BY InputBudget DEF InputInv
  <2> DEFINE files == Fitted.files
  <2>2. TokensOf(files) = TokensOf(FitOf(input).files)
    BY <2>1 DEF InBudget, Budgeted
  <2>3. m - n = 1 \/ TokensOf(FitOf(input).files) <= MaxPromptTokens
    BY <2>1 DEF InBudget, FitsDiff
  <2>4. m - n \in Nat /\ files = [j \in 1 .. m - n |-> CutDiff(input)[show[j]]]
    BY <2>1 DEF InBudget, Budgeted
  <2> HIDE DEF files
  <2>5. Len(files) = m - n
    BY <2>4
  <2> QED
    BY <2>2, <2>3, <2>5 DEF files
<1> QED
  BY <1>1, InputInvariance, PTL

\* A file that is cut keeps a hunk, and says so.
LEMMA CutKeepsAHunk ==
    ASSUME NEW file \in Entry, NEW limit, file.hunks # <<>>
    PROVE  /\ truncated_to(file, limit).hunks # <<>>
           /\ \/ truncated_to(file, limit).omitted > 0
              \/ truncated_to(file, limit).hunks = file.hunks
<1> DEFINE h == file.hunks
           may == {n \in 0 .. Len(h) : \A k \in 2 .. n : LinesUpTo(h, k) <= limit}
           keep == Max(may)
           o == file.omitted + Len(h) - keep
           part == SubSeq(h, 1, keep)
           t == truncated_to(file, limit)
<1>1. h \in Hunks /\ Len(h) \in Nat /\ file.omitted \in Nat /\ Len(h) # 0
  BY DEF Entry, Hunks
<1>2. t.hunks = part /\ t.omitted = o
  BY DEF truncated_to, Entry
<1> HIDE DEF h, t
<1>3. keep \in 1 .. Len(h)
  <2>1. may \in SUBSET Nat /\ 1 \in may /\ \A x \in may : x <= Len(h)
    BY <1>1
  <2>2. keep \in may /\ \A x \in may : x <= keep
    <3> HIDE DEF may
    <3> QED
      BY <1>1, <2>1, MaxOfBounded
  <2>3. keep \in 0 .. Len(h) /\ 1 <= keep
    <3>1. may \subseteq 0 .. Len(h)
      OBVIOUS
    <3> HIDE DEF may
    <3> QED
      BY <2>1, <2>2, <3>1
  <2> HIDE DEF keep
  <2> QED
    BY <1>1, <2>3
<1> HIDE DEF keep
<1> DEFINE T == [added : LineSet, context : LineSet, removed : Nat]
<1>4. h \in Seq(T)
  BY <1>1 DEF Hunks
<1> HIDE DEF T
<1>5. part # <<>> /\ (keep = Len(h) => part = h)
  <2>1. Len(part) = keep
    BY <1>1, <1>3, <1>4
  <2>2. part # <<>>
    BY <1>3, <2>1
  <2>3. keep = Len(h) => part = h
    BY <1>4
  <2> QED
    BY <2>2, <2>3
<1>6. keep # Len(h) => o > 0
  BY <1>1, <1>3
<1> QED
  BY <1>2, <1>5, <1>6 DEF t, h

\* Every file of a diff is reviewed or named as skipped, and what is reviewed in part
\* holds something and is named as truncated, for diffs of every length
\* (diff/budget.py:1-9).
THEOREM CoverageIsAlwaysDisclosed == Spec => []CoverageIsDisclosed
<1>1. InputInv => CoverageIsDisclosed
  <2> SUFFICES ASSUME InputInv, kind = "files"
               PROVE  /\ \A i \in DOMAIN input :
                            Reviewed(input[i]) <=> input[i].path \notin Fitted.skipped
                      /\ \A i \in DOMAIN Fitted.files :
                            LET whole == input[PathOrder[Fitted.files[i].path]]
                            IN  /\ Fitted.files[i].hunks # <<>>
                                /\ Tokens(Fitted.files[i]) < Tokens(whole)
                                      => whole.path \in Fitted.truncated
    BY DEF CoverageIsDisclosed
  <2>1. PICK w, order, m, n, show : InBudget(w, order, m, n, show)
    BY InputBudget DEF InputInv
  <2> DEFINE b == Fitted
             N == Len(input)
             c == CutDiff(input)
             shown == Places(order, n + 1 .. m)
             l == m - n
  <2>2. /\ input \in Seq(Entry) /\ DOMAIN input = 1 .. N /\ N \in Nat
        /\ \A i \in 1 .. N : PathOrder[input[i].path] = i
    BY DEF InputInv, FilesInput
  <2>3. /\ l \in Nat /\ Picks(show, l, N) /\ Places(show, 1 .. l) = shown
        /\ b.files = [j \in 1 .. l |-> c[show[j]]]
        /\ b.skipped = PathsAt(input, DOMAIN input \ shown)
        /\ b.truncated = TruncatedOf(input)
    BY <2>1 DEF InBudget, Budgeted
  <2>4. /\ m \in Nat /\ n \in 0 .. m /\ Places(order, 1 .. m) = Candidates(input)
    BY <2>1 DEF InBudget, FitsDiff
  <2>5. shown \subseteq Candidates(input)
    <3>1. \A j \in n + 1 .. m : j \in 1 .. m
      BY <2>4
    <3> QED
      BY <2>4, <3>1 DEF Places
  <2>6. /\ \A i \in 1 .. N : c[i].path = input[i].path
        /\ \A i \in 1 .. N : c[i] = truncated_to(input[i], MaxFileDiffLines)
    BY <2>2, CutFiles DEF CutDiff
  <2> HIDE DEF b, N, c, shown, l
  <2>7. \A j \in 1 .. l : show[j] \in 1 .. N /\ show[j] \in shown /\ b.files[j] = c[show[j]]
    BY <2>3 DEF Picks, Places
  <2>8. \A i \in shown : \E j \in 1 .. l : show[j] = i
    BY <2>3 DEF Places
  <2>9. DOMAIN b.files = 1 .. l
    BY <2>3
  <2>10. ASSUME NEW i \in DOMAIN input
         PROVE  Reviewed(input[i]) <=> input[i].path \notin b.skipped
    <3>1. Reviewed(input[i]) <=> \E j \in 1 .. l : b.files[j].path = input[i].path
      BY <2>9 DEF Reviewed, b
    <3>2. \A j \in 1 .. l : b.files[j].path = input[show[j]].path
      BY <2>6, <2>7
    <3>3. \A j \in 1 .. l : b.files[j].path = input[i].path => show[j] = i
      BY <2>2, <2>7, <3>2
    <3>4. Reviewed(input[i]) <=> i \in shown
      BY <2>7, <2>8, <3>1, <3>2, <3>3
    <3>5. input[i].path \in b.skipped
             <=> \E x \in DOMAIN input : x \notin shown /\ input[x].path = input[i].path
      BY <2>3 DEF PathsAt
    <3>6. \A x \in DOMAIN input : input[x].path = input[i].path => x = i
      BY <2>2
    <3> QED
      BY <3>4, <3>5, <3>6
  <2>11. ASSUME NEW j \in DOMAIN b.files
         PROVE  LET whole == input[PathOrder[b.files[j].path]]
                IN  /\ b.files[j].hunks # <<>>
                    /\ Tokens(b.files[j]) < Tokens(whole) => whole.path \in b.truncated
    <3> DEFINE i == show[j]
               f == input[i]
               t == truncated_to(f, MaxFileDiffLines)
    <3>1. i \in 1 .. N /\ i \in shown /\ b.files[j] = t /\ b.files[j].path = f.path
      BY <2>6, <2>7, <2>9
    <3>2. PathOrder[b.files[j].path] = i
      BY <2>2, <3>1
    <3>3. f \in Entry /\ f.hunks # <<>> /\ i \in Candidates(input)
      BY <2>2, <2>5, <3>1 DEF Candidates, Reviewable
    <3> HIDE DEF i, f
    <3>4. t.hunks # <<>> /\ (t.omitted > 0 \/ t.hunks = f.hunks)
      BY <3>3, CutKeepsAHunk
    <3>5. t \in Entry
      BY <3>3, TruncatedEntry
    <3> HIDE DEF t
    <3>6. ASSUME Tokens(t) < Tokens(f) PROVE f.path \in b.truncated
      <4>1. t.hunks # f.hunks
        <5>1. SUFFICES ASSUME t.hunks = f.hunks PROVE FALSE
          OBVIOUS
        <5>2. Tokens(t) = Tokens(f)
          BY <5>1 DEF Tokens
        <5>3. Tokens(f) \in Nat
          BY <3>3, TokensAreCounted
        <5> QED
          BY <3>6, <5>2, <5>3
      <4>2. t.omitted > 0
        BY <3>4, <4>1
      <4>3. CutDiff(input)[i].omitted > 0
        BY <2>6, <3>1, <4>2 DEF c, f, t
      <4>4. b.truncated = PathsAt(input, {x \in Candidates(input) : CutDiff(input)[x].omitted > 0})
        BY <2>2, <2>3, KeptPaths
      <4> QED
        BY <3>3, <4>3, <4>4 DEF PathsAt, f
    <3>7. input[PathOrder[b.files[j].path]] = f
      BY <3>2 DEF f
    <3> QED
      BY <3>1, <3>4, <3>6, <3>7
  <2> QED
    BY <2>10, <2>11 DEF b
<1> QED
  BY <1>1, InputInvariance, PTL

\* Of files in descending order, a choice of more than those after the first n has
\* at least the tokens of the last ones and one more.
LEMMA MoreIsTooMuch ==
    ASSUME NEW files \in Seq(Entry), NEW w, SumOfTokens(w, files),
           NEW m \in Nat, NEW order, Picks(order, m, Len(files)),
           \A k, l \in 1 .. m : k < l => Tokens(files[order[k]]) >= Tokens(files[order[l]]),
           NEW n \in 1 .. m, NEW choice \in SUBSET Places(order, 1 .. m),
           Cardinality(choice) > m - n
    PROVE  w[choice] >= w[Places(order, n .. m)]
<1> DEFINE N == Len(files)
           g == [i \in 1 .. N |-> Tokens(files[i])]
           h == [k \in 1 .. m |-> Tokens(files[order[k]])]
           at == {k \in 1 .. m : order[k] \in choice}
           j == m - n + 1
<1>1. \A k \in 1 .. m : order[k] \in 1 .. N /\ files[order[k]] \in Entry
  BY DEF Picks
<1>2. \A k \in 1 .. m : h[k] \in Nat /\ h[k] = g[order[k]]
  BY <1>1, TokensAreCounted
<1>3. \A k, l \in 1 .. m : k < l => h[k] >= h[l]
  OBVIOUS
<1>4. IsSum(w, g, 1 .. N)
  BY DEF SumOfTokens
<1>5. h = [k \in 1 .. m |-> h[k]]
  OBVIOUS
<1> HIDE DEF g, h, N
<1>6. h \in [1 .. m -> Nat]
  BY <1>2, <1>5
<1>7. PICK v : IsSum(v, h, 1 .. m)
  BY <1>6, TotalIsSum
<1>8. \A t \in SUBSET (1 .. m) : v[t] = w[Places(order, t)]
  <2>1. Picks(order, m, N) /\ \A k \in 1 .. m : h[k] = g[order[k]]
    BY <1>2 DEF N
  <2> QED
    BY <1>4, <1>7, <2>1, SumOfPicked
<1>9. at \in SUBSET (1 .. m) /\ Places(order, at) = choice
  <2>1. \A k \in 1 .. m : k \in at <=> order[k] \in choice
    OBVIOUS
  <2>2. \A x \in choice : \E k \in 1 .. m : order[k] = x
    BY DEF Places
  <2>3. at \subseteq 1 .. m
    OBVIOUS
  <2> HIDE DEF at
  <2>4. \A x : x \in Places(order, at) <=> x \in choice
    BY <2>1, <2>2, <2>3 DEF Places
  <2> QED
    BY <2>3, <2>4
<1> HIDE DEF at
<1>10. Cardinality(at) = Cardinality(choice) /\ Cardinality(at) \in Nat
  <2>1. Cardinality(at) = Cardinality(choice)
    BY <1>9, PlacesAreApart
  <2>2. IsFiniteSet(1 .. m)
    BY FS_Interval
  <2>3. Cardinality(at) \in Nat
    BY <1>9, <2>2, FS_Subset, FS_CardinalityType
  <2> QED
    BY <2>1, <2>3
<1>11. j \in 0 .. m /\ Cardinality(at) >= j /\ m - j + 1 = n
  BY <1>10
<1> HIDE DEF j
<1>12. v[at] >= v[m - j + 1 .. m]
  BY <1>2, <1>3, <1>7, <1>9, <1>11, LastOnesAreLeast
<1>13. (n .. m) \in SUBSET (1 .. m)
  OBVIOUS
<1> QED
  BY <1>8, <1>9, <1>11, <1>12, <1>13

\* However many files a diff has, no choice of them that fits has more files than are
\* shown: dropping the largest first lets the most survive (diff/budget.py:139-142).
THEOREM MostFilesAlwaysSurvive == Spec => []MostFilesSurvive
<1>1. InputInv => MostFilesSurvive
  <2> DEFINE kept == [i \in DOMAIN input |-> truncated_to(input[i], MaxFileDiffLines)]
             g == [i \in DOMAIN input |-> Tokens(kept[i])]
  <2> SUFFICES ASSUME InputInv, kind = "files",
                      NEW choice \in SUBSET {i \in DOMAIN input : Reviewable(input[i])},
                      SumFunctionOnSet(g, choice) <= MaxPromptTokens
               PROVE  Cardinality(choice) <= Len(Fitted.files)
    BY DEF MostFilesSurvive
  <2>1. PICK w, order, m, n, show : InBudget(w, order, m, n, show)
    BY InputBudget DEF InputInv
  <2> DEFINE files == Fitted.files
             N == Len(input)
             c == CutDiff(input)
  <2>2. input \in Seq(Entry) /\ N \in Nat /\ DOMAIN input = 1 .. N
    BY DEF InputInv, FilesInput
  <2>3. c \in Seq(Entry) /\ Len(c) = N
    BY <2>2, CutFiles
  <2>4. kept = c
    BY <2>2 DEF CutDiff
  <2>5. g = [i \in 1 .. Len(c) |-> Tokens(c[i])]
    BY <2>2, <2>3, <2>4
  <2> HIDE DEF kept, g, c, files
  <2>6. SumOfTokens(w, c) /\ IsSum(w, g, 1 .. N)
    BY <2>1, <2>3, <2>5 DEF InBudget, SumOfTokens, c
  <2> HIDE DEF N
  <2>7. /\ m \in Nat /\ n \in 0 .. m /\ Picks(order, m, N)
        /\ Places(order, 1 .. m) = Candidates(input)
        /\ n # 0 => /\ \A k, l \in 1 .. m : k < l => Tokens(c[order[k]]) >= Tokens(c[order[l]])
                    /\ ~(w[Places(order, n .. m)] <= MaxPromptTokens)
    BY <2>1 DEF InBudget, FitsDiff, c, N
  <2>8. Len(files) = m - n
    <3>1. m - n \in Nat /\ files = [j \in 1 .. m - n |-> CutDiff(input)[show[j]]]
      BY <2>1 DEF InBudget, Budgeted, files
    <3> QED
      BY <3>1
  <2>9. choice \in SUBSET Places(order, 1 .. m) /\ choice \in SUBSET (1 .. N)
    BY <2>2, <2>7 DEF Candidates
  <2>10. w[choice] <= MaxPromptTokens
    <3>1. \A i \in 1 .. N : g[i] \in Nat
      BY <2>3, <2>5, TokensAreCounted
    <3>2. IsFiniteSet(1 .. N)
      BY <2>2, FS_Interval
    <3> DEFINE D == 1 .. N
    <3>3. IsSum(w, g, D) /\ IsFiniteSet(D) /\ (\A i \in D : g[i] \in Nat) /\ choice \in SUBSET D
      BY <2>6, <2>9, <3>1, <3>2
    <3> HIDE DEF D
    <3>4. SumFunctionOnSet(g, choice) = w[choice]
      BY <3>3, SumOverSet
    <3> QED
      BY <3>4
  <2>11. Cardinality(choice) \in Nat /\ Cardinality(choice) <= m
    <3>1. IsFiniteSet(1 .. m) /\ Cardinality(1 .. m) = m
      BY <2>7, FS_Interval
    <3>2. /\ IsFiniteSet(Places(order, 1 .. m))
          /\ Cardinality(Places(order, 1 .. m)) = Cardinality(1 .. m)
      BY <2>7, PlacesAreApart
    <3> DEFINE P == Places(order, 1 .. m)
    <3>3. IsFiniteSet(P) /\ Cardinality(P) = m /\ choice \subseteq P
      BY <2>9, <3>1, <3>2
    <3> HIDE DEF P
    <3>4. IsFiniteSet(choice) /\ Cardinality(choice) <= Cardinality(P)
      BY <3>3, FS_Subset
    <3>5. Cardinality(choice) \in Nat
      BY <3>4, FS_CardinalityType
    <3> QED
      BY <3>3, <3>4, <3>5
  <2>12. SUFFICES ASSUME Cardinality(choice) > m - n PROVE FALSE
    <3> DEFINE many == Cardinality(choice)
    <3>1. many \in Nat /\ m \in Nat /\ n \in Nat
      BY <2>7, <2>11
    <3> HIDE DEF many
    <3>2. ~(many > m - n) => many <= m - n
      BY <3>1
    <3> QED
      BY <2>8, <3>2 DEF many, files
  <2>13. n \in 1 .. m
    BY <2>7, <2>11, <2>12
  <2>14. w[choice] >= w[Places(order, n .. m)]
    <3>1. Picks(order, m, Len(c))
      BY <2>3, <2>7
    <3>2. \A k, l \in 1 .. m : k < l => Tokens(c[order[k]]) >= Tokens(c[order[l]])
      BY <2>7, <2>13
    <3> QED
      BY <2>3, <2>6, <2>7, <2>9, <2>12, <2>13, <3>1, <3>2, MoreIsTooMuch
  <2>15. w[choice] \in Nat /\ w[Places(order, n .. m)] \in Nat
    <3>1. Places(order, n .. m) \in SUBSET (1 .. N)
      <4>1. \A k \in n .. m : k \in 1 .. m
        BY <2>7, <2>13
      <4> QED
        BY <2>7, <4>1 DEF Picks, Places
    <3> QED
      BY <2>6, <2>9, <3>1 DEF IsSum
  <2> QED
    BY <2>7, <2>10, <2>13, <2>14, <2>15, BudgetAssumption DEF BudgetAssumption
<1> QED
  BY <1>1, InputInvariance, PTL

-----------------------------------------------------------------------------
(* What the critic is shown.                                               *)

\* The pieces of a sequence, and the pieces of one of them.
LEMMA PieceOf ==
    ASSUME NEW S, NEW s \in Seq(S),
           NEW a \in 1 .. Len(s), NEW b \in 1 .. Len(s), a <= b
    PROVE  /\ SubSeq(s, a, b) \in Seq(S) /\ SubSeq(s, a, b) \in SubSeqs(s)
           /\ Len(SubSeq(s, a, b)) = b - a + 1
           /\ \A i \in 1 .. b - a + 1 : SubSeq(s, a, b)[i] = s[a + i - 1]
<1> DEFINE i == a - 1
<1>1. i \in 0 .. Len(s) /\ b \in 0 .. Len(s) /\ i + 1 = a
  OBVIOUS
<1> HIDE DEF i
<1>2. SubSeq(s, a, b) = SubSeq(s, i + 1, b)
  BY <1>1
<1>3. SubSeq(s, a, b) \in SubSeqs(s)
  BY <1>1, <1>2, SMTT(30) DEF SubSeqs
<1> QED
  BY <1>3, SubSeqProperties

LEMMA WholeIsPiece ==
    ASSUME NEW S, NEW s \in Seq(S)
    PROVE  s \in SubSeqs(s)
<1>1. 0 \in 0 .. Len(s) /\ Len(s) \in 0 .. Len(s) /\ 0 + 1 = 1
  OBVIOUS
<1>2. s = SubSeq(s, 1, Len(s))
  OBVIOUS
<1> QED
  BY <1>1, <1>2 DEF SubSeqs

LEMMA PieceOfPiece ==
    ASSUME NEW S, NEW s \in Seq(S),
           NEW a \in 1 .. Len(s), NEW b \in 1 .. Len(s), a <= b,
           NEW p \in a .. b, NEW q \in a .. b, p <= q
    PROVE  SubSeq(s, p, q) \in SubSeqs(SubSeq(s, a, b))
<1> DEFINE t == SubSeq(s, a, b)
           i == p - a + 1
           j == q - a + 1
<1>1. /\ a \in Nat /\ b \in Nat /\ p \in Nat /\ q \in Nat
      /\ p \in 1 .. Len(s) /\ q \in 1 .. Len(s)
  OBVIOUS
<1>2. /\ t \in Seq(S) /\ Len(t) = b - a + 1
      /\ \A k \in 1 .. b - a + 1 : t[k] = s[a + k - 1]
  BY PieceOf
<1>3. i \in 1 .. b - a + 1 /\ j \in 1 .. b - a + 1 /\ i <= j
  OBVIOUS
<1>4. /\ SubSeq(s, p, q) \in Seq(S) /\ Len(SubSeq(s, p, q)) = q - p + 1
      /\ \A k \in 1 .. q - p + 1 : SubSeq(s, p, q)[k] = s[p + k - 1]
  BY <1>1, PieceOf
<1>5. /\ SubSeq(t, i, j) \in Seq(S) /\ SubSeq(t, i, j) \in SubSeqs(t)
      /\ Len(SubSeq(t, i, j)) = j - i + 1
      /\ \A k \in 1 .. j - i + 1 : SubSeq(t, i, j)[k] = t[i + k - 1]
  <2> HIDE DEF t, i, j
  <2>1. i \in 1 .. Len(t) /\ j \in 1 .. Len(t)
    BY <1>2, <1>3
  <2>2. t \in Seq(S) /\ i <= j
    BY <1>2, <1>3
  <2> QED
    BY <2>1, <2>2, PieceOf
<1>6. j - i + 1 = q - p + 1
  BY <1>1
<1>7. ASSUME NEW k \in 1 .. q - p + 1 PROVE SubSeq(t, i, j)[k] = SubSeq(s, p, q)[k]
  <2>1. i + k - 1 \in 1 .. b - a + 1 /\ a + (i + k - 1) - 1 = p + k - 1
    BY <1>1
  <2> HIDE DEF t, i, j
  <2>2. SubSeq(t, i, j)[k] = t[i + k - 1]
    BY <1>5, <1>6
  <2>3. t[i + k - 1] = s[p + k - 1]
    BY <1>2, <2>1
  <2> QED
    BY <1>4, <2>2, <2>3
<1> HIDE DEF t, i, j
<1>8. SubSeq(t, i, j) = SubSeq(s, p, q)
  <2> DEFINE u == SubSeq(t, i, j)
             v == SubSeq(s, p, q)
  <2>1. u \in Seq(S) /\ v \in Seq(S) /\ Len(u) = Len(v) /\ Len(v) = q - p + 1
    BY <1>4, <1>5, <1>6
  <2>2. \A k \in 1 .. Len(v) : u[k] = v[k]
    BY <1>7, <2>1
  <2> HIDE DEF u, v
  <2>3. u = v
    BY <2>1, <2>2
  <2> QED
    BY <2>3 DEF u, v
<1> QED
  BY <1>5, <1>8 DEF t

\* A hunk whose header comes first, and whose numbers are those of its lines.
NumberedLine == [number : Nat, text : LineSort \cup {"@@"}]

IsNumbered(hunk) ==
    /\ hunk.numbered \in Seq(NumberedLine) /\ Len(hunk.numbered) > 0
    /\ hunk.added \in SUBSET Nat /\ hunk.context \in SUBSET Nat
    /\ 0 \notin hunk.added \cup hunk.context
    /\ \A i \in DOMAIN hunk.numbered :
          /\ hunk.numbered[i].text \in InNewFile <=> hunk.numbered[i].number # NoLine
          /\ hunk.numbered[i].number \in {NoLine} \cup hunk.added \cup hunk.context

LEMMA HunkIsNumbered ==
    ASSUME NEW start \in Nat, start # 0, NEW lines \in Seq(LineSort \cup {"@@"})
    PROVE  IsNumbered(to_hunk(start, lines))
<1> DEFINE number(i) == target_line_no(start, lines, i)
           rest == [i \in DOMAIN lines |-> [number |-> number(i), text |-> lines[i]]]
           hunk == to_hunk(start, lines)
<1>1. /\ DOMAIN lines = 1 .. Len(lines) /\ Len(lines) \in Nat
      /\ \A i \in DOMAIN lines : lines[i] \in LineSort \cup {"@@"}
  OBVIOUS
<1>2. ASSUME NEW i \in DOMAIN lines
      PROVE  /\ number(i) \in Nat
             /\ lines[i] \in InNewFile <=> number(i) # NoLine
  <2> DEFINE before == {k \in 1 .. i - 1 : lines[k] \in InNewFile}
  <2>1. before \in SUBSET (1 .. i - 1) /\ i - 1 \in Nat
    BY <1>1
  <2>2. Cardinality(before) \in Nat
    <3> HIDE DEF before
    <3>1. Cardinality(before) \in 0 .. i - 1
      BY <2>1, NthEnumerates
    <3> QED
      BY <2>1, <3>1
  <2> HIDE DEF before
  <2>3. start + Cardinality(before) \in Nat /\ start + Cardinality(before) # 0
    BY <2>2
  <2>4. number(i) = IF lines[i] \in InNewFile THEN start + Cardinality(before) ELSE NoLine
    BY DEF target_line_no, before
  <2> QED
    BY <2>3, <2>4 DEF NoLine
<1>3. ASSUME NEW i \in DOMAIN lines, lines[i] \in InNewFile
      PROVE  number(i) \in hunk.added \cup hunk.context
  <2>1. hunk.added = Numbers(start, lines, "added") /\ hunk.context = Numbers(start, lines, "context")
    BY DEF to_hunk
  <2>2. i \in LinesOf(lines, "added") \/ i \in LinesOf(lines, "context")
    BY <1>3 DEF LinesOf, InNewFile
  <2> QED
    BY <2>1, <2>2 DEF Numbers
<1>4. /\ hunk.added \in SUBSET Nat /\ hunk.context \in SUBSET Nat
      /\ 0 \notin hunk.added \cup hunk.context
  <2>1. \A i \in LinesOf(lines, "added") \cup LinesOf(lines, "context") :
            number(i) \in Nat /\ number(i) # 0
    BY <1>2 DEF LinesOf, InNewFile, NoLine
  <2>2. hunk.added = Numbers(start, lines, "added") /\ hunk.context = Numbers(start, lines, "context")
    BY DEF to_hunk
  <2> QED
    BY <2>1, <2>2 DEF Numbers
<1>5. hunk.numbered = <<Header>> \o rest
  BY DEF to_hunk
<1>6. Header \in NumberedLine /\ Header.number = NoLine /\ Header.text = "@@"
  BY DEF Header, NumberedLine, NoLine
<1>7. /\ rest \in Seq(NumberedLine) /\ Len(rest) = Len(lines)
      /\ \A i \in 1 .. Len(lines) : rest[i].number = number(i) /\ rest[i].text = lines[i]
  <2>1. \A i \in DOMAIN lines : rest[i] \in NumberedLine
    BY <1>1, <1>2 DEF NumberedLine
  <2> HIDE DEF NumberedLine
  <2>2. rest \in [1 .. Len(lines) -> NumberedLine]
    BY <1>1, <2>1
  <2>3. \A i \in 1 .. Len(lines) : rest[i].number = number(i) /\ rest[i].text = lines[i]
    BY <1>1
  <2> HIDE DEF rest
  <2> QED
    BY <1>1, <2>2, <2>3
<1> HIDE DEF rest, hunk, number
<1>8. /\ hunk.numbered \in Seq(NumberedLine)
      /\ Len(hunk.numbered) = 1 + Len(lines)
      /\ hunk.numbered[1] = Header
      /\ \A i \in 1 .. Len(lines) : hunk.numbered[i + 1] = rest[i]
  <2> DEFINE S == NumberedLine
             h == Header
  <2> HIDE DEF S, h
  <2>1. h \in S /\ rest \in Seq(S) /\ hunk.numbered = <<h>> \o rest /\ Len(rest) = Len(lines)
    BY <1>5, <1>6, <1>7 DEF S, h
  <2>2. /\ <<h>> \o rest \in Seq(S) /\ Len(<<h>> \o rest) = 1 + Len(rest)
        /\ (<<h>> \o rest)[1] = h
        /\ \A i \in 1 .. Len(rest) : (<<h>> \o rest)[i + 1] = rest[i]
    BY <2>1
  <2> QED
    BY <2>1, <2>2 DEF S, h
<1>9. ASSUME NEW i \in DOMAIN hunk.numbered
      PROVE  /\ hunk.numbered[i].text \in InNewFile <=> hunk.numbered[i].number # NoLine
             /\ hunk.numbered[i].number \in {NoLine} \cup hunk.added \cup hunk.context
  <2>1. i \in 1 .. 1 + Len(lines)
    BY <1>8
  <2>2. CASE i = 1
    BY <1>6, <1>8, <2>2 DEF InNewFile
  <2>3. CASE i # 1
    <3>1. i - 1 \in DOMAIN lines /\ (i - 1) + 1 = i
      BY <1>1, <2>1, <2>3
    <3>2. hunk.numbered[i].number = number(i - 1) /\ hunk.numbered[i].text = lines[i - 1]
      BY <1>1, <1>7, <1>8, <3>1
    <3> QED
      BY <1>2, <1>3, <3>1, <3>2
  <2> QED
    BY <2>2, <2>3
<1>10. Len(hunk.numbered) > 0
  BY <1>1, <1>8
<1> QED
  BY <1>4, <1>8, <1>9, <1>10 DEF IsNumbered, hunk

\* The least and the greatest of some positions.
LEMMA EndsOf ==
    ASSUME NEW n \in Nat, NEW at \in SUBSET (1 .. n), at # {}
    PROVE  /\ Min(at) \in at /\ Max(at) \in at
           /\ \A i \in at : Min(at) <= i /\ i <= Max(at)
<1>1. at \in SUBSET Nat /\ \A i \in at : i <= n
  OBVIOUS
<1> QED
  BY <1>1, MaxOfBounded, MinExists

\* A span is a piece of its hunk, and holds what is between two lines in range.
LEMMA SpanIsPiece ==
    ASSUME NEW hunk, IsNumbered(hunk), NEW line
    PROVE  /\ span(hunk, line) \in Seq(NumberedLine)
           /\ span(hunk, line) # <<>> => span(hunk, line) \in SubSeqs(hunk.numbered)
           /\ \A i, j \in in_range(hunk, line) :
                 /\ span(hunk, line) # <<>>
                 /\ SubSeq(hunk.numbered, Min({i, j}), Max({i, j}))
                        \in SubSeqs(span(hunk, line))
<1> DEFINE s == hunk.numbered
           n == Len(s)
           at == in_range(hunk, line)
           a == Min(at)
           b == Max(at)
           S == NumberedLine
<1>1. s \in Seq(S) /\ n \in Nat /\ DOMAIN s = 1 .. n
  BY DEF IsNumbered
<1>2. at \in SUBSET (1 .. n)
  BY <1>1 DEF in_range
<1>3. span(hunk, line) = IF at = {} THEN <<>> ELSE SubSeq(s, a, b)
  BY DEF span
<1> HIDE DEF at, s, S
<1>4. CASE at = {}
  BY <1>3, <1>4 DEF at
<1>5. CASE at # {}
  <2>1. a \in at /\ b \in at /\ \A i \in at : a <= i /\ i <= b
    <3> HIDE DEF n
    <3> QED
      BY <1>1, <1>2, <1>5, EndsOf
  <2> HIDE DEF a, b
  <2>2. a \in 1 .. n /\ b \in 1 .. n /\ a <= b
    BY <1>2, <2>1
  <2> DEFINE t == SubSeq(s, a, b)
  <2>3. t \in Seq(S) /\ t \in SubSeqs(s) /\ Len(t) = b - a + 1
    BY <1>1, <2>2, PieceOf
  <2> HIDE DEF t
  <2>4. t # <<>>
    <3>1. Len(t) > 0
      BY <2>2, <2>3
    <3> QED
      BY <3>1
  <2>5. ASSUME NEW i \in at, NEW j \in at
        PROVE  SubSeq(s, Min({i, j}), Max({i, j})) \in SubSeqs(t)
    <3> DEFINE p == Min({i, j})
               q == Max({i, j})
    <3>1. {i, j} \in SUBSET (1 .. n) /\ {i, j} # {}
      BY <1>2
    <3>2. p \in {i, j} /\ q \in {i, j} /\ p <= i /\ i <= q
      <4> HIDE DEF n
      <4> QED
        BY <1>1, <3>1, EndsOf
    <3> HIDE DEF p, q
    <3>3. p \in a .. b /\ q \in a .. b /\ p <= q
      <4>1. p \in Nat /\ q \in Nat /\ i \in Nat /\ a \in Nat /\ b \in Nat
        BY <1>2, <2>2, <3>2
      <4>2. a <= p /\ p <= b /\ a <= q /\ q <= b
        BY <2>1, <3>2
      <4> QED
        BY <3>2, <4>1, <4>2
    <3>4. SubSeq(s, p, q) \in SubSeqs(SubSeq(s, a, b))
      BY <1>1, <2>2, <3>3, PieceOfPiece
    <3> QED
      BY <3>4 DEF p, q, t
  <2>6. span(hunk, line) = t
    BY <1>3, <1>5 DEF t
  <2> QED
    BY <2>3, <2>4, <2>5, <2>6 DEF at, s, S
<1> QED
  BY <1>4, <1>5

\* The segments of a window are the spans of the hunks that have one.
LEMMA WindowOfSpans ==
    ASSUME NEW file, NEW line, NEW n \in Nat, DOMAIN file.hunks = 1 .. n,
           \A h \in DOMAIN file.hunks : IsNumbered(file.hunks[h])
    PROVE  /\ \A segment \in Range(window(file, line)) : \E h \in DOMAIN file.hunks :
                 segment = span(file.hunks[h], line) /\ segment # <<>>
           /\ \A h \in DOMAIN file.hunks :
                 span(file.hunks[h], line) # <<>>
                 => span(file.hunks[h], line) \in Range(window(file, line))
<1> DEFINE spans == [h \in DOMAIN file.hunks |-> span(file.hunks[h], line)]
           at == {h \in DOMAIN spans : spans[h] # <<>>}
           S == Seq(NumberedLine)
           w == Selected(spans, at)
<1>1. spans \in Seq(S) /\ DOMAIN spans = DOMAIN file.hunks
  <2>1. \A h \in 1 .. n : span(file.hunks[h], line) \in S
    BY SpanIsPiece
  <2>2. spans \in [1 .. n -> S]
    BY <2>1
  <2> HIDE DEF spans, S
  <2> QED
    BY <2>2
<1>2. window(file, line) = w
  BY DEF window, Filter
<1>3. at \in SUBSET (DOMAIN spans)
  OBVIOUS
<1>4. \A h \in DOMAIN file.hunks : spans[h] = span(file.hunks[h], line)
  OBVIOUS
<1>5. \A h \in DOMAIN file.hunks : h \in at <=> spans[h] # <<>>
  OBVIOUS
<1> HIDE DEF spans, at, S
<1>6. /\ DOMAIN w = 1 .. Cardinality(at)
      /\ \A k \in 1 .. Cardinality(at) : Nth(at, k) \in at /\ w[k] = spans[Nth(at, k)]
      /\ \A i \in at : \E k \in 1 .. Cardinality(at) : Nth(at, k) = i /\ w[k] = spans[i]
  BY <1>1, <1>3, SelectedElements
<1> HIDE DEF w
<1>7. ASSUME NEW segment \in Range(w)
      PROVE  \E h \in DOMAIN file.hunks : segment = span(file.hunks[h], line) /\ segment # <<>>
  <2>1. PICK k \in DOMAIN w : segment = w[k]
    BY DEF Range
  <2> QED
    BY <1>1, <1>3, <1>4, <1>5, <1>6, <2>1
<1>8. ASSUME NEW h \in DOMAIN file.hunks, span(file.hunks[h], line) # <<>>
      PROVE  span(file.hunks[h], line) \in Range(w)
  <2>1. h \in at
    BY <1>4, <1>5, <1>8
  <2>2. PICK k \in DOMAIN w : w[k] = spans[h]
    BY <1>6, <2>1
  <2> QED
    BY <1>4, <2>2 DEF Range
<1> QED
  BY <1>2, <1>7, <1>8

\* A file of the diff as the parser numbers it.
FileIsNumbered(file) ==
    /\ \E n \in Nat : DOMAIN file.hunks = 1 .. n
    /\ \A h \in DOMAIN file.hunks : IsNumbered(file.hunks[h])

LEMMA PieceIsFaithful ==
    ASSUME NEW file, FileIsNumbered(file), NEW h \in DOMAIN file.hunks,
           NEW segment \in SubSeqs(file.hunks[h].numbered)
    PROVE  Faithful(segment, file)
<1> DEFINE hunk == file.hunks[h]
           s == hunk.numbered
           S == NumberedLine
<1>1. /\ IsNumbered(hunk) /\ s \in Seq(S) /\ Len(s) \in Nat /\ DOMAIN s = 1 .. Len(s)
      /\ hunk \in Range(file.hunks)
  BY DEF FileIsNumbered, IsNumbered, Range
<1>2. hunk.added \cup hunk.context \subseteq anchorable_lines(file)
  BY DEF anchorable_lines, added_lines, context_lines
<1>3. \A i \in DOMAIN s : /\ s[i].text \in InNewFile <=> s[i].number # NoLine
                          /\ s[i].number \in {NoLine} \cup anchorable_lines(file)
  BY <1>1, <1>2 DEF IsNumbered
<1>4. segment \in SubSeqs(s)
  OBVIOUS
<1> HIDE DEF s, S, hunk
<1>5. \A i \in DOMAIN segment : \E k \in DOMAIN s : segment[i] = s[k]
  <2>1. PICK a \in 0 .. Len(s), b \in 0 .. Len(s) : segment = SubSeq(s, a + 1, b)
    BY <1>4 DEF SubSeqs
  <2>2. \A i \in DOMAIN segment : a + i \in DOMAIN s /\ segment[i] = s[a + i]
    BY <1>1, <2>1
  <2> QED
    BY <2>2
<1>6. \A i \in DOMAIN segment :
          /\ segment[i].text \in InNewFile <=> segment[i].number # NoLine
          /\ segment[i].number \in {NoLine} \cup anchorable_lines(file)
  BY <1>3, <1>5
<1> QED
  BY <1>1, <1>4, <1>6 DEF Faithful, s

\* Whatever the findings listed in it, a block shows pieces of the diff alone.
LEMMA BlockIsFaithful ==
    ASSUME NEW file, FileIsNumbered(file), NEW findings, NEW indices,
           NEW excerpt \in Range(Block(findings, file, indices).code),
           NEW segment \in Range(excerpt)
    PROVE  Faithful(segment, file)
<1> DEFINE windows == [k \in DOMAIN indices |-> window(file, findings[indices[k]].line)]
           code == Block(findings, file, indices).code
<1>1. \/ code = <<numbered_text(file)>>
      \/ code = windows
  BY DEF Block
<1>2. excerpt \in Range(code)
  OBVIOUS
<1> HIDE DEF code
<1>3. \E h \in DOMAIN file.hunks : segment \in SubSeqs(file.hunks[h].numbered)
  <2>1. CASE code = <<numbered_text(file)>>
    <3>1. excerpt = numbered_text(file)
      BY <1>2, <2>1 DEF Range
    <3>2. PICK h \in DOMAIN file.hunks : segment = file.hunks[h].numbered
      BY <3>1 DEF numbered_text, Range
    <3>3. segment \in Seq(NumberedLine)
      BY <3>2 DEF FileIsNumbered, IsNumbered
    <3> QED
      BY <3>2, <3>3, WholeIsPiece
  <2>2. CASE code = windows
    <3>1. PICK k \in DOMAIN indices : excerpt = window(file, findings[indices[k]].line)
      BY <1>2, <2>2 DEF Range
    <3> DEFINE line == findings[indices[k]].line
    <3>2. excerpt = window(file, line)
      BY <3>1
    <3> HIDE DEF line
    <3>3. PICK n \in Nat : DOMAIN file.hunks = 1 .. n
      BY DEF FileIsNumbered
    <3>4. \A h \in DOMAIN file.hunks : IsNumbered(file.hunks[h])
      BY DEF FileIsNumbered
    <3>5. PICK h \in DOMAIN file.hunks : segment = span(file.hunks[h], line) /\ segment # <<>>
      BY <3>2, <3>3, <3>4, WindowOfSpans
    <3> QED
      BY <3>4, <3>5, SpanIsPiece
  <2> QED
    BY <1>1, <2>1, <2>2
<1> QED
  BY <1>3, PieceIsFaithful

\* A block shows the evidence of each finding listed in it.
LEMMA BlockIsEvidence ==
    ASSUME NEW file, FileIsNumbered(file), NEW findings, NEW indices,
           NEW k \in DOMAIN indices, NEW line \in Nat, line # NoLine,
           line = findings[indices[k]].line
    PROVE  Evidenced(Block(findings, file, indices), file, line)
<1> DEFINE windows == [l \in DOMAIN indices |-> window(file, findings[indices[l]].line)]
           code == Block(findings, file, indices).code
<1>1. \/ code = <<numbered_text(file)>>
      \/ code = windows
  BY DEF Block
<1>2. PICK n \in Nat : DOMAIN file.hunks = 1 .. n
  BY DEF FileIsNumbered
<1>3. \A h \in DOMAIN file.hunks : IsNumbered(file.hunks[h])
  BY DEF FileIsNumbered
<1> HIDE DEF code
<1> SUFFICES ASSUME NEW hunk \in Range(file.hunks),
                    NEW i \in DOMAIN hunk.numbered, NEW j \in DOMAIN hunk.numbered,
                    hunk.numbered[i].number = line, Close(line, hunk.numbered[j].number)
             PROVE  \E excerpt \in Range(code) : \E segment \in Range(excerpt) :
                        SubSeq(hunk.numbered, Min({i, j}), Max({i, j})) \in SubSeqs(segment)
  BY DEF Evidenced, code
<1>4. PICK h \in DOMAIN file.hunks : hunk = file.hunks[h]
  BY DEF Range
<1> DEFINE s == hunk.numbered
           p == Min({i, j})
           q == Max({i, j})
<1>5. /\ IsNumbered(hunk) /\ s \in Seq(NumberedLine)
      /\ Len(s) \in Nat /\ DOMAIN s = 1 .. Len(s)
  BY <1>3, <1>4 DEF IsNumbered
<1>6. CASE code = <<numbered_text(file)>>
  <2>1. numbered_text(file) \in Range(code)
    BY <1>6 DEF Range
  <2>2. s \in Range(numbered_text(file))
    BY <1>4 DEF Range, numbered_text
  <2>3. SubSeq(s, p, q) \in SubSeqs(s)
    <3>1. {i, j} \in SUBSET (1 .. Len(s)) /\ {i, j} # {}
      BY <1>5
    <3>2. p \in {i, j} /\ q \in {i, j} /\ p <= i /\ i <= q
      BY <1>5, <3>1, EndsOf
    <3> HIDE DEF p, q, s
    <3>3. p \in 1 .. Len(s) /\ q \in 1 .. Len(s) /\ p <= q
      BY <1>5, <3>1, <3>2
    <3> QED
      BY <1>5, <3>3, PieceOf
  <2> HIDE DEF p, q, s
  <2> QED
    BY <2>1, <2>2, <2>3 DEF p, q, s
<1>7. CASE code = windows
  <2>1. window(file, line) \in Range(code)
    BY <1>7 DEF Range
  <2>2. Distance(line, line) = 0 /\ CriticContextRadius \in Nat
    BY ExcerptAssumption DEF Distance, ExcerptAssumption
  <2>3. i \in in_range(hunk, line) /\ j \in in_range(hunk, line)
    <3>1. InRange(s[i], line)
      BY <2>2 DEF InRange
    <3>2. InRange(s[j], line)
      <4>1. s[j] \in NumberedLine
        <5>1. j \in DOMAIN s
          OBVIOUS
        <5> HIDE DEF s
        <5> QED
          BY <1>5, <5>1
      <4>2. s[j].number \in Nat
        BY <4>1 DEF NumberedLine
      <4>3. Distance(s[j].number, line) = Distance(line, s[j].number)
        BY <4>2 DEF Distance
      <4> QED
        BY <4>3 DEF InRange, Close
    <3> QED
      BY <3>1, <3>2 DEF in_range
  <2>4. /\ span(hunk, line) # <<>>
        /\ SubSeq(s, p, q) \in SubSeqs(span(hunk, line))
    BY <1>5, <2>3, SpanIsPiece
  <2>5. span(hunk, line) \in Range(window(file, line))
    BY <1>2, <1>3, <1>4, <2>4, WindowOfSpans
  <2> HIDE DEF p, q, s
  <2> QED
    BY <2>1, <2>4, <2>5 DEF p, q, s
<1> QED
  BY <1>1, <1>6, <1>7

\* The findings of one file make one block, with as many of them as the cap lets.
MessageIsBlock(message, file, lines) ==
    /\ DOMAIN message = {1} /\ Len(message) = 1
    /\ \E indices :
          /\ message[1] = Block(FindingsOn(file, lines), file, indices)
          /\ Len(indices) = Min({Len(lines), Max({1, CriticMaxFindings})})
          /\ DOMAIN indices = 1 .. Len(indices)
          /\ \A k \in DOMAIN indices : indices[k] \in DOMAIN lines

LEMMA MessageOfFile ==
    ASSUME NEW file, NEW lines \in Seq(anchorable_lines(file)), Len(lines) > 0,
           anchorable_lines(file) \in SUBSET Nat, NoLine \notin anchorable_lines(file)
    PROVE  MessageIsBlock(Message(file, lines), file, lines)
<1> DEFINE n == Len(lines)
           findings == FindingsOn(file, lines)
           files == <<file>>
           judged == judgeable(findings, files)
           cap == Max({1, CriticMaxFindings})
           m == Min({n, cap})
<1>1. /\ n \in Nat /\ n > 0 /\ DOMAIN lines = 1 .. n
      /\ \A i \in 1 .. n : lines[i] \in anchorable_lines(file) /\ lines[i] # NoLine
  OBVIOUS
<1>2. /\ DOMAIN findings = 1 .. n
      /\ \A i \in 1 .. n : findings[i].file = file.path /\ findings[i].line = lines[i]
  BY <1>1 DEF FindingsOn
<1>3. cap \in Nat /\ cap >= 1
  <2> DEFINE S == {1, CriticMaxFindings}
  <2>1. CriticMaxFindings \in Nat
    BY CriticAssumption DEF CriticAssumption
  <2>2. PICK b \in Nat : \A x \in S : x <= b
    <3>1. CriticMaxFindings + 1 \in Nat /\ \A x \in S : x <= CriticMaxFindings + 1
      BY <2>1
    <3> QED
      BY <3>1
  <2>3. S \in SUBSET Nat /\ S # {} /\ 1 \in S
    BY <2>1
  <2> HIDE DEF S
  <2>4. Max(S) \in S /\ \A x \in S : x <= Max(S)
    BY <2>2, <2>3, MaxOfBounded
  <2> QED
    BY <2>3, <2>4 DEF S
<1> HIDE DEF cap
<1>4. m \in 1 .. n /\ m <= cap /\ (m = n \/ m = cap)
  <2> DEFINE S == {n, cap}
  <2>1. S \in SUBSET Nat /\ S # {}
    BY <1>1, <1>3
  <2> HIDE DEF S
  <2>2. Min(S) \in S /\ \A x \in S : Min(S) <= x
    BY <2>1, MinExists
  <2> QED
    BY <1>1, <1>3, <2>2 DEF S
<1>5. by_path(files, file.path) = 1
  <2> DEFINE i == by_path(files, file.path)
  <2>1. files \in Seq({file}) /\ Len(files) = 1 /\ DOMAIN files = {1} /\ files[1] = file
    OBVIOUS
  <2> HIDE DEF files
  <2>2. /\ i \in 0 .. Len(files)
        /\ i = 0 => \A j \in DOMAIN files :
                       normalize_path(files[j].path) # normalize_path(file.path)
    BY <2>1, ByPath
  <2> QED
    BY <2>1, <2>2
<1>6. files[1] = file
  OBVIOUS
<1> HIDE DEF n, m, findings, files
<1>7. judged = 1 .. m
  <2> DEFINE Judged(i) ==
                 /\ findings[i].line # NoLine
                 /\ by_path(files, findings[i].file) # 0
                 /\ findings[i].line \in
                        anchorable_lines(files[by_path(files, findings[i].file)])
             eligible == {i \in DOMAIN findings : Judged(i)}
  <2>1. \A i \in 1 .. n : Judged(i)
    BY <1>1, <1>2, <1>5, <1>6
  <2>2. judged = {i \in eligible : Cardinality({j \in eligible : j < i}) < cap}
    BY DEF judgeable, cap
  <2> HIDE DEF Judged
  <2>3. eligible = 1 .. n
    BY <1>2, <2>1
  <2> HIDE DEF eligible, judged
  <2>4. \A i \in 1 .. n : Cardinality({j \in eligible : j < i}) = i - 1
    <3> TAKE i \in 1 .. n
    <3>1. {j \in eligible : j < i} = 1 .. i - 1
      BY <1>1, <2>3
    <3>2. Cardinality(1 .. i - 1) = i - 1
      <4>1. i - 1 \in Int /\ i - 1 >= 0 /\ 1 \in Int /\ (i - 1) - 1 + 1 = i - 1
        BY <1>1
      <4> QED
        BY <4>1, FS_Interval
    <3> QED
      BY <3>1, <3>2
  <2>5. \A i \in 1 .. n : i \in judged <=> i - 1 < cap
    BY <2>2, <2>3, <2>4
  <2>6. judged \subseteq 1 .. n
    BY <2>2, <2>3
  <2>7. \A i \in 1 .. n : i - 1 < cap <=> i <= m
    BY <1>1, <1>3, <1>4
  <2>8. ASSUME NEW i \in judged PROVE i \in 1 .. m
    <3>1. i \in 1 .. n /\ i <= m
      BY <2>5, <2>6, <2>7
    <3> QED
      BY <1>1, <1>4, <3>1
  <2>9. ASSUME NEW i \in 1 .. m PROVE i \in judged
    <3>1. i \in 1 .. n /\ i <= m
      BY <1>1, <1>4
    <3> QED
      BY <2>5, <2>7, <3>1
  <2> QED
    BY <2>8, <2>9
<1> DEFINE order == by_file(findings, files, judged)
<1>8. DOMAIN order = {1} /\ order[1] = 1
  <2> DEFINE F(i) == by_path(files, findings[i].file)
             first == {i \in judged : \A j \in judged : F(j) = F(i) => i <= j}
  <2>1. \A i \in judged : F(i) = 1
    BY <1>1, <1>2, <1>4, <1>5, <1>7
  <2>2. first = {1}
    <3>1. judged \in SUBSET Nat /\ 1 \in judged /\ \A i \in judged : 1 <= i
      BY <1>1, <1>4, <1>7
    <3> HIDE DEF F, judged
    <3>2. \A i \in first : i = 1
      BY <2>1, <3>1
    <3>3. 1 \in first
      BY <3>1
    <3> QED
      BY <3>2, <3>3
  <2>3. order = [k \in 1 .. Cardinality(first) |-> F(Nth(first, k))]
    BY DEF by_file
  <2>4. 1 \in judged
    BY <1>1, <1>4, <1>7
  <2> HIDE DEF F, first, order, judged
  <2>5. Cardinality(first) = 1
    BY <2>2, FS_Singleton
  <2>6. Nth(first, 1) = 1
    <3>1. first \in SUBSET (1 .. 1) /\ 1 \in Nat /\ 1 \in 1 .. Cardinality(first)
      BY <2>2, <2>5
    <3> QED
      BY <2>2, <3>1, NthEnumerates
  <2> QED
    BY <2>1, <2>3, <2>4, <2>5, <2>6
<1> DEFINE ids == [i \in DOMAIN findings |-> i]
           at == {i \in DOMAIN ids : ids[i] \in judged
                                     /\ by_path(files, findings[ids[i]].file) = order[1]}
           about == Selected(ids, at)
           message == user_message(findings, files, judged)
<1>9. message[1] = Block(findings, file, about) /\ DOMAIN message = {1} /\ Len(message) = 1
  <2> HIDE DEF judged
  <2> DEFINE About(k) == Selected(ids, {i \in DOMAIN ids :
                             ids[i] \in judged /\ by_path(files, findings[ids[i]].file) = order[k]})
  <2>1. message = [k \in DOMAIN order |-> Block(findings, files[order[k]], About(k))]
    BY DEF user_message, Filter
  <2>2. About(1) = about
    OBVIOUS
  <2> HIDE DEF About, order, about, message
  <2>3. message = [k \in {1} |-> Block(findings, files[order[k]], About(k))]
    BY <1>8, <2>1
  <2>4. DOMAIN message = 1 .. 1
    BY <2>3
  <2>5. Len(message) = 1
    BY <2>4
  <2> QED
    BY <1>6, <1>8, <2>2, <2>3, <2>5
<1>10. /\ Len(about) = m /\ DOMAIN about = 1 .. m
       /\ \A k \in 1 .. m : about[k] \in 1 .. n
  <2>1. ids \in Seq(1 .. n) /\ DOMAIN ids = 1 .. n /\ \A i \in 1 .. n : ids[i] = i
    <3>1. ids \in [1 .. n -> 1 .. n]
      BY <1>2
    <3>2. \A i \in 1 .. n : ids[i] = i
      BY <1>2
    <3> HIDE DEF ids
    <3> QED
      BY <1>1, <3>1, <3>2
  <2> HIDE DEF ids, order
  <2>2. at = 1 .. m
    <3>1. \A i \in DOMAIN ids : i \in at <=> i \in 1 .. m
      BY <1>2, <1>5, <1>7, <1>8, <2>1
    <3>2. 1 .. m \subseteq DOMAIN ids /\ at \subseteq DOMAIN ids
      BY <1>1, <1>4, <2>1
    <3> HIDE DEF at
    <3> QED
      BY <3>1, <3>2
  <2>3. Cardinality(1 .. m) = m
    <3>1. m \in Nat /\ m >= 1
      BY <1>1, <1>4
    <3> QED
      BY <3>1, FS_Interval
  <2> HIDE DEF at, judged
  <2>4. at \in SUBSET (DOMAIN ids) /\ Cardinality(at) = m
    BY <1>1, <1>4, <2>1, <2>2, <2>3
  <2>5. ids \in Seq(1 .. n) /\ at \in SUBSET (DOMAIN ids)
    BY <2>1, <2>4
  <2>6. /\ Len(about) = Cardinality(at) /\ DOMAIN about = 1 .. Cardinality(at)
        /\ \A k \in 1 .. Cardinality(at) : Nth(at, k) \in at /\ about[k] = ids[Nth(at, k)]
    BY <2>5, SelectedElements
  <2> HIDE DEF about
  <2> QED
    BY <2>1, <2>4, <2>6
<1>11. Message(file, lines) = message
  BY DEF Message, findings, files
<1> HIDE DEF message, about, judged
<1>12. \A k \in DOMAIN about : about[k] \in DOMAIN lines
  BY <1>1, <1>10
<1>13. /\ message[1] = Block(FindingsOn(file, lines), file, about)
       /\ Len(about) = Min({Len(lines), Max({1, CriticMaxFindings})})
       /\ DOMAIN about = 1 .. Len(about)
  BY <1>9, <1>10 DEF findings, m, n, cap
<1> QED
  BY <1>9, <1>11, <1>12, <1>13, Zenon DEF MessageIsBlock

\* The lines that may be reported are those with a number.
LEMMA NumbersOfFile ==
    ASSUME NEW file, FileIsNumbered(file)
    PROVE  anchorable_lines(file) \in SUBSET Nat /\ NoLine \notin anchorable_lines(file)
<1>1. \A h \in DOMAIN file.hunks :
          LET lines == file.hunks[h].added \cup file.hunks[h].context
          IN  lines \in SUBSET Nat /\ 0 \notin lines
  BY DEF FileIsNumbered, IsNumbered
<1> QED
  BY <1>1 DEF anchorable_lines, added_lines, context_lines, NoLine

\* The file made of the input.
LEMMA InputIsNumbered ==
    ASSUME LinesInput
    PROVE  FileIsNumbered(Numbered)
<1> DEFINE n == Len(input)
           T == LineSort \cup {"@@"}
           headers == {i \in DOMAIN input : input[i] = "@@"}
           N == Cardinality(headers)
           Top(k) == Nth(headers, k)
           Bottom(k) == IF k < N THEN Top(k + 1) - 1 ELSE n
           Start(k) == k + Cardinality({i \in 1 .. Top(k) - 1 : input[i] \in InNewFile})
<1>1. input \in Seq(T) /\ n \in Nat /\ DOMAIN input = 1 .. n
  BY DEF LinesInput
<1>2. Numbered.hunks = [k \in 1 .. N |-> to_hunk(Start(k), SubSeq(input, Top(k) + 1, Bottom(k)))]
  BY DEF Numbered
<1>3. headers \in SUBSET (1 .. n)
  BY <1>1
<1> HIDE DEF n, T, headers
<1>4. /\ N \in 0 .. n
      /\ \A k \in 1 .. N : Top(k) \in headers
      /\ \A k, l \in 1 .. N : k < l => Top(k) < Top(l)
  BY <1>1, <1>3, NthEnumerates
<1> HIDE DEF N, Top
<1>5. ASSUME NEW k \in 1 .. N
      PROVE  /\ Start(k) \in Nat /\ Start(k) # 0
             /\ SubSeq(input, Top(k) + 1, Bottom(k)) \in Seq(T)
  <2>1. k \in Nat /\ k # 0 /\ N \in Nat /\ Top(k) \in 1 .. n
    <3>1. N \in Nat
      BY <1>1, <1>4
    <3>2. k \in Nat /\ k # 0
      BY <3>1
    <3>3. Top(k) \in headers
      BY <1>4
    <3> QED
      BY <1>3, <3>1, <3>2, <3>3
  <2> DEFINE t == Top(k)
             b == Bottom(k)
             before == {i \in 1 .. t - 1 : input[i] \in InNewFile}
  <2>2. Cardinality(before) \in Nat
    <3>1. before \in SUBSET (1 .. t - 1) /\ t - 1 \in Nat
      BY <1>1, <2>1
    <3> HIDE DEF before, t
    <3>2. Cardinality(before) \in 0 .. t - 1
      BY <3>1, NthEnumerates
    <3> QED
      BY <3>1, <3>2
  <2>3. Start(k) \in Nat /\ Start(k) # 0
    <3> HIDE DEF before
    <3>1. Start(k) = k + Cardinality(before)
      BY DEF before
    <3> QED
      BY <2>1, <2>2, <3>1
  <2>4. b \in t .. n
    <3>1. CASE k < N
      <4>1. k + 1 \in 1 .. N /\ k < k + 1
        BY <2>1, <3>1
      <4>2. Top(k + 1) \in 1 .. n /\ Top(k) < Top(k + 1)
        BY <1>3, <1>4, <4>1
      <4> QED
        BY <1>1, <2>1, <3>1, <4>2
    <3>2. CASE ~(k < N)
      BY <1>1, <2>1, <3>2
    <3> QED
      BY <3>1, <3>2
  <2> HIDE DEF b, t
  <2>5. t \in 1 .. n
    BY <2>1 DEF t
  <2>6. t + 1 \in 1 .. Len(input) + 1 /\ b \in (t + 1) - 1 .. Len(input)
    BY <1>1, <2>4, <2>5 DEF n
  <2>7. SubSeq(input, t + 1, b) \in Seq(T)
    BY <1>1, <2>6, SubSeqProperties
  <2> QED
    BY <2>3, <2>7 DEF b, t
<1>6. \A k \in 1 .. N : IsNumbered(to_hunk(Start(k), SubSeq(input, Top(k) + 1, Bottom(k))))
  <2> TAKE k \in 1 .. N
  <2> DEFINE s == Start(k)
             lines == SubSeq(input, Top(k) + 1, Bottom(k))
  <2>1. s \in Nat /\ s # 0 /\ lines \in Seq(LineSort \cup {"@@"})
    BY <1>5 DEF T
  <2> HIDE DEF s, lines
  <2>2. IsNumbered(to_hunk(s, lines))
    BY <2>1, HunkIsNumbered
  <2> QED
    BY <2>2 DEF s, lines
<1> HIDE DEF Start, Bottom
<1>7. N \in Nat /\ DOMAIN Numbered.hunks = 1 .. N
  BY <1>1, <1>2, <1>4
<1>8. \A k \in 1 .. N : IsNumbered(Numbered.hunks[k])
  BY <1>2, <1>6
<1> QED
  BY <1>7, <1>8 DEF FileIsNumbered

\* ExcerptIsTheDiff of diffs of every length: whatever is shown to the critic is
\* pieces of the diff as it reads, numbered as it may be reported.
THEOREM ExcerptIsAlwaysTheDiff == Spec => []ExcerptIsTheDiff
<1>1. InputInv => ExcerptIsTheDiff
  <2> SUFFICES ASSUME InputInv, kind = "lines",
                      NEW first \in anchorable_lines(Numbered),
                      NEW second \in anchorable_lines(Numbered),
                      NEW block \in Range(Message(Numbered, <<first, second>>)),
                      NEW excerpt \in Range(block.code), NEW segment \in Range(excerpt)
               PROVE  Faithful(segment, Numbered)
    BY DEF ExcerptIsTheDiff
  <2> DEFINE file == Numbered
             lines == <<first, second>>
  <2>1. FileIsNumbered(file)
    BY InputIsNumbered DEF InputInv
  <2>2. lines \in Seq(anchorable_lines(file)) /\ Len(lines) > 0
    OBVIOUS
  <2> HIDE DEF file, lines
  <2>3. MessageIsBlock(Message(file, lines), file, lines)
    <3>1. anchorable_lines(file) \in SUBSET Nat /\ NoLine \notin anchorable_lines(file)
      BY <2>1, NumbersOfFile
    <3> QED
      BY <2>2, <3>1, MessageOfFile
  <2>4. block = Message(file, lines)[1]
    BY <2>3 DEF MessageIsBlock, Range, file, lines
  <2>5. PICK indices : block = Block(FindingsOn(file, lines), file, indices)
    BY <2>3, <2>4 DEF MessageIsBlock
  <2>6. Faithful(segment, file)
    BY <2>1, <2>5, BlockIsFaithful
  <2> QED
    BY <2>6 DEF file
<1> QED
  BY <1>1, InputInvariance, PTL

\* EvidenceIsShown of diffs of every length: as many findings as the cap lets are
\* judged, each of them beside its line and all that is near it.
THEOREM EvidenceIsAlwaysShown == Spec => []EvidenceIsShown
<1>1. InputInv => EvidenceIsShown
  <2> SUFFICES ASSUME InputInv, kind = "lines",
                      NEW first \in anchorable_lines(Numbered),
                      NEW second \in anchorable_lines(Numbered)
               PROVE  LET lines == <<first, second>>
                          message == Message(Numbered, lines)
                      IN  /\ Len(message) = 1
                          /\ Len(message[1].findings) = Min({2, Max({1, CriticMaxFindings})})
                          /\ \A f \in Range(message[1].findings) :
                                Evidenced(message[1], Numbered, lines[f])
    BY DEF EvidenceIsShown
  <2> DEFINE file == Numbered
             lines == <<first, second>>
             message == Message(file, lines)
  <2>1. FileIsNumbered(file)
    BY InputIsNumbered DEF InputInv
  <2>2. /\ lines \in Seq(anchorable_lines(file)) /\ Len(lines) = 2 /\ Len(lines) > 0
    OBVIOUS
  <2> HIDE DEF file, lines
  <2>3. anchorable_lines(file) \in SUBSET Nat /\ NoLine \notin anchorable_lines(file)
    BY <2>1, NumbersOfFile
  <2>4. MessageIsBlock(message, file, lines)
    BY <2>2, <2>3, MessageOfFile
  <2> HIDE DEF message
  <2>5. Len(message) = 1
    BY <2>4 DEF MessageIsBlock
  <2>6. PICK indices :
          /\ message[1] = Block(FindingsOn(file, lines), file, indices)
          /\ Len(indices) = Min({Len(lines), Max({1, CriticMaxFindings})})
          /\ \A k \in DOMAIN indices : indices[k] \in DOMAIN lines
    BY <2>4 DEF MessageIsBlock
  <2>7. message[1].findings = indices
    BY <2>6 DEF Block
  <2>8. ASSUME NEW k \in DOMAIN indices
        PROVE  Evidenced(message[1], file, lines[indices[k]])
    <3> DEFINE f == indices[k]
               line == lines[f]
    <3>1. f \in DOMAIN lines
      BY <2>6
    <3> HIDE DEF f
    <3>2. line = FindingsOn(file, lines)[f].line
      BY <3>1 DEF FindingsOn
    <3>3. line \in anchorable_lines(file)
      <4> DEFINE A == anchorable_lines(file)
      <4>1. lines \in Seq(A) /\ f \in DOMAIN lines
        BY <2>2, <3>1
      <4> HIDE DEF A
      <4>2. lines[f] \in A
        BY <4>1
      <4> QED
        BY <4>2 DEF A
    <3> HIDE DEF line
    <3>4. line \in Nat /\ line # NoLine
      BY <2>3, <3>3
    <3>5. line = FindingsOn(file, lines)[indices[k]].line
      BY <3>2 DEF f
    <3>6. Evidenced(Block(FindingsOn(file, lines), file, indices), file, line)
      BY <2>1, <3>4, <3>5, BlockIsEvidence
    <3> QED
      BY <2>6, <3>6 DEF line, f
  <2>9. \A f \in Range(message[1].findings) : Evidenced(message[1], file, lines[f])
    BY <2>7, <2>8 DEF Range
  <2>10. Len(message[1].findings) = Min({2, Max({1, CriticMaxFindings})})
    BY <2>2, <2>6, <2>7
  <2> QED
    BY <2>5, <2>9, <2>10 DEF message, file, lines
<1> QED
  BY <1>1, InputInvariance, PTL
=============================================================================
