--------------------------- MODULE PipelineSafety ----------------------------
(***************************************************************************)
(* What the pure algorithms of the pipeline guarantee, for every input:    *)
(* merging, collapsing, anchoring, judging, grouping, ranking, budgeting.  *)
(***************************************************************************)
EXTENDS Budget, Critic, LlmMerge, SequenceFacts

\* The fields of a finding.
LEMMA FindingFields ==
    ASSUME NEW R, NEW f \in Finding(R)
    PROVE  /\ f.file \in Path /\ f.line \in Nat /\ f.severity \in {1, 2, 3}
           /\ f.confidence \in Nat /\ f.sources \in Seq(Agent) /\ f.amended \in BOOLEAN
           /\ f.raised \in SUBSET R /\ f.title \in SUBSET STRING
<1>1. 1 .. 3 = {1, 2, 3}
  OBVIOUS
<1> QED
  BY <1>1 DEF Finding, Severity, High

-----------------------------------------------------------------------------
(* Merging the members of a cluster.                                       *)

LEMMA RepresentativeExists ==
    ASSUME NEW R, NEW members \in Seq(Finding(R)), members # <<>>
    PROVE  \E i \in DOMAIN members :
              /\ Representative(members) = members[i]
              /\ \A j \in DOMAIN members : AtLeastAs(members[i], members[j])
<1> DEFINE n == Len(members)
           sev == [i \in 1 .. n |-> members[i].severity]
           M == Max({sev[i] : i \in 1 .. n})
           conf == [i \in 1 .. n |-> IF sev[i] = M THEN members[i].confidence + 1 ELSE 0]
           best == {i \in DOMAIN members :
                      \A j \in DOMAIN members : AtLeastAs(members[i], members[j])}
<1>1. n \in Nat /\ n # 0 /\ DOMAIN members = 1 .. n
  OBVIOUS
<1>2. \A i \in 1 .. n : members[i].severity \in Nat /\ members[i].confidence \in Nat
  <2> TAKE i \in 1 .. n
  <2>1. members[i] \in Finding(R)
    OBVIOUS
  <2> QED
    BY <2>1, FindingFields
<1> HIDE DEF n
<1>3. sev \in [1 .. n -> Nat]
  BY <1>2
<1>4. M \in {sev[i] : i \in 1 .. n} /\ \A i \in 1 .. n : sev[i] <= M
  <2> HIDE DEF sev
  <2>1. LET S == {sev[i] : i \in 1 .. n}
        IN  Max(S) \in S /\ \A i \in 1 .. n : sev[i] <= Max(S)
    BY <1>1, <1>3, MaxOfValues
  <2> QED
    BY <2>1
<1>5. PICK a \in 1 .. n : sev[a] = M
  BY <1>4
<1> HIDE DEF M
<1>6. conf \in [1 .. n -> Nat]
  BY <1>2
<1>7. PICK b \in 1 .. n : \A i \in 1 .. n : conf[i] <= conf[b]
  <2> HIDE DEF conf
  <2>1. LET S == {conf[i] : i \in 1 .. n}
        IN  Max(S) \in S /\ \A i \in 1 .. n : conf[i] <= Max(S)
    BY <1>1, <1>6, MaxOfValues
  <2> QED
    BY <2>1
<1>8. sev[b] = M
  <2>1. conf[a] = members[a].confidence + 1 /\ members[a].confidence \in Nat
    BY <1>2, <1>5
  <2>2. conf[a] <= conf[b]
    BY <1>7
  <2> QED
    BY <2>1, <2>2
<1>9. ASSUME NEW j \in 1 .. n PROVE AtLeastAs(members[b], members[j])
  <2>1. members[b].severity = M /\ members[j].severity <= M /\ M \in Nat
    BY <1>2, <1>4, <1>8
  <2>2. CASE members[j].severity = M
    <3>1. conf[j] = members[j].confidence + 1 /\ conf[b] = members[b].confidence + 1
      BY <1>8, <2>2
    <3>2. conf[j] <= conf[b]
      BY <1>7
    <3> QED
      BY <1>2, <2>1, <2>2, <3>1, <3>2 DEF AtLeastAs
  <2>3. CASE members[j].severity # M
    BY <1>2, <2>1, <2>3 DEF AtLeastAs
  <2> QED
    BY <2>2, <2>3
<1>10. best \in SUBSET Nat /\ best # {}
  BY <1>1, <1>9
<1>11. Min(best) \in best
  BY <1>10, MinExists
<1> QED
  BY <1>11 DEF Representative

\* The place of a cluster is that of a member, and before every other's.
LEMMA LineOfMember ==
    ASSUME NEW R, NEW members \in Seq(Finding(R)), members # <<>>
    PROVE  /\ \E i \in DOMAIN members : representative_line(members) = members[i].line
           /\ \A i \in DOMAIN members : members[i].line # NoLine =>
                 representative_line(members) <= members[i].line
<1> DEFINE lines == {members[i].line : i \in DOMAIN members} \ {NoLine}
<1>1. \A i \in DOMAIN members : members[i].line \in Nat
  <2>1. \A i \in DOMAIN members : members[i] \in Finding(R)
    OBVIOUS
  <2> QED
    BY <2>1, FindingFields
<1>2. 1 \in DOMAIN members
  OBVIOUS
<1>3. CASE lines = {}
  <2>1. representative_line(members) = NoLine
    BY <1>3 DEF representative_line
  <2>2. \A i \in DOMAIN members : members[i].line = NoLine
    BY <1>3
  <2> QED
    BY <1>2, <2>1, <2>2
<1>4. CASE lines # {}
  <2>1. lines \in SUBSET Nat
    BY <1>1
  <2>2. Min(lines) \in lines /\ \A x \in lines : Min(lines) <= x
    BY <1>4, <2>1, MinExists
  <2>3. representative_line(members) = Min(lines)
    BY <1>4 DEF representative_line
  <2> QED
    BY <2>2, <2>3
<1> QED
  BY <1>3, <1>4

\* What is new in t is added to s.
LEMMA SourcesAdded ==
    ASSUME NEW s \in Seq(Agent), NEW t \in Seq(Agent), IsInjective(s), IsInjective(t)
    PROVE  LET u == s \o Filter(t, LAMBDA a : ~Contains(s, a))
           IN  u \in Seq(Agent) /\ IsInjective(u) /\ Range(u) = Range(s) \cup Range(t)
<1> DEFINE at == {i \in DOMAIN t : ~Contains(s, t[i])}
           new == Selected(t, at)
           u == s \o new
<1>1. /\ new \in Seq(Agent) /\ Len(new) = Cardinality(at) /\ Cardinality(at) \in Nat
      /\ DOMAIN new = 1 .. Cardinality(at)
      /\ \A k \in 1 .. Cardinality(at) : Nth(at, k) \in at /\ new[k] = t[Nth(at, k)]
      /\ \A k, l \in 1 .. Cardinality(at) : k < l => Nth(at, k) < Nth(at, l)
      /\ \A i \in at : \E k \in 1 .. Cardinality(at) : new[k] = t[i]
  <2>1. at \in SUBSET (DOMAIN t)
    OBVIOUS
  <2> HIDE DEF at
  <2>2. Cardinality(at) \in 0 .. Len(t) /\ Len(t) \in Nat
    BY <2>1, SelectedElements
  <2>3. /\ new \in Seq(Agent) /\ Len(new) = Cardinality(at) /\ DOMAIN new = 1 .. Cardinality(at)
        /\ \A k \in 1 .. Cardinality(at) : Nth(at, k) \in at /\ new[k] = t[Nth(at, k)]
    BY <2>1, SelectedElements
  <2>4. /\ \A k, l \in 1 .. Cardinality(at) : k < l => Nth(at, k) < Nth(at, l)
        /\ \A i \in at : \E k \in 1 .. Cardinality(at) : new[k] = t[i]
    BY <2>1, SelectedElements
  <2> QED
    BY <2>2, <2>3, <2>4
<1>2. \A a : Contains(s, a) <=> a \in Range(s)
  BY DEF Contains, Range
<1>3. Range(new) = Range(t) \ Range(s)
  <2>1. ASSUME NEW a \in Range(new) PROVE a \in Range(t) /\ a \notin Range(s)
    <3>1. PICK k \in 1 .. Cardinality(at) : a = new[k]
      BY <1>1 DEF Range
    <3>2. Nth(at, k) \in at /\ a = t[Nth(at, k)]
      BY <1>1, <3>1
    <3> QED
      BY <1>2, <3>2 DEF Range
  <2>2. ASSUME NEW a \in Range(t), a \notin Range(s) PROVE a \in Range(new)
    <3>1. PICK i \in DOMAIN t : a = t[i]
      BY DEF Range
    <3>2. i \in at
      BY <1>2, <2>2, <3>1
    <3> HIDE DEF at, new
    <3> QED
      BY <1>1, <3>1, <3>2 DEF Range
  <2> QED
    BY <2>1, <2>2
<1>4. IsInjective(new)
  <2> SUFFICES ASSUME NEW k \in 1 .. Cardinality(at), NEW l \in 1 .. Cardinality(at),
                      new[k] = new[l]
               PROVE  k = l
    BY <1>1 DEF IsInjective
  <2>1. Nth(at, k) = Nth(at, l)
    <3>1. Nth(at, k) \in DOMAIN t /\ Nth(at, l) \in DOMAIN t /\ t[Nth(at, k)] = t[Nth(at, l)]
      BY <1>1
    <3> QED
      BY <3>1 DEF IsInjective
  <2>2. Nth(at, k) \in Nat
    BY <1>1
  <2>3. ~(k < l) /\ ~(l < k)
    BY <1>1, <2>1, <2>2
  <2> QED
    BY <1>1, <2>3
<1> HIDE DEF new, at
<1>5. /\ u \in Seq(Agent)
      /\ DOMAIN u = 1 .. Len(s) + Len(new) /\ Len(s) \in Nat /\ Len(new) \in Nat
      /\ \A i \in 1 .. Len(s) + Len(new) : u[i] = IF i <= Len(s) THEN s[i] ELSE new[i - Len(s)]
  <2>1. /\ u \in Seq(Agent) /\ Len(u) = Len(s) + Len(new)
        /\ \A i \in 1 .. Len(s) + Len(new) : u[i] = IF i <= Len(s) THEN s[i] ELSE new[i - Len(s)]
    BY <1>1, ConcatProperties
  <2> HIDE DEF u
  <2> QED
    BY <1>1, <2>1
<1>6. Range(u) = Range(s) \cup Range(t)
  <2>1. Range(u) = Range(s) \cup Range(new)
    BY <1>1, RangeConcatenation
  <2> QED
    BY <1>3, <2>1
<1>7. IsInjective(u)
  <2> HIDE DEF u
  <2> SUFFICES ASSUME NEW i \in DOMAIN u, NEW j \in DOMAIN u, u[i] = u[j]
               PROVE  i = j
    BY DEF IsInjective
  <2>1. CASE i <= Len(s) /\ j <= Len(s)
    BY <1>5, <2>1 DEF IsInjective
  <2>2. CASE i <= Len(s) /\ ~(j <= Len(s))
    <3>1. u[i] = s[i] /\ i \in DOMAIN s /\ u[j] = new[j - Len(s)] /\ j - Len(s) \in DOMAIN new
      BY <1>1, <1>5, <2>2
    <3> QED
      BY <1>3, <3>1 DEF Range
  <2>3. CASE j <= Len(s) /\ ~(i <= Len(s))
    <3>1. u[j] = s[j] /\ j \in DOMAIN s /\ u[i] = new[i - Len(s)] /\ i - Len(s) \in DOMAIN new
      BY <1>1, <1>5, <2>3
    <3> QED
      BY <1>3, <3>1 DEF Range
  <2>4. CASE ~(j <= Len(s)) /\ ~(i <= Len(s))
    <3>1. u[j] = new[j - Len(s)] /\ u[i] = new[i - Len(s)]
      BY <1>5, <2>4
    <3>2. i - Len(s) \in DOMAIN new /\ j - Len(s) \in DOMAIN new
      BY <1>1, <1>5, <2>4
    <3>3. i - Len(s) = j - Len(s)
      BY <1>4, <3>1, <3>2 DEF IsInjective
    <3> QED
      BY <1>5, <3>3
  <2> QED
    BY <2>1, <2>2, <2>3, <2>4
<1> QED
  BY <1>5, <1>6, <1>7 DEF Filter, new, at

\* The agents of a cluster are those of its members, each once.
LEMMA SourcesOfAll ==
    ASSUME NEW R, NEW members \in Seq(Finding(R)),
           \A i \in DOMAIN members : IsInjective(members[i].sources)
    PROVE  /\ Sources(members) \in Seq(Agent)
           /\ IsInjective(Sources(members))
           /\ Range(Sources(members)) = UNION {Range(members[i].sources) : i \in DOMAIN members}
<1> DEFINE N == Len(members)
           D == DOMAIN members
           Add(s, m) == s \o Filter(m.sources, LAMBDA a : ~Contains(s, a))
           TT == {s \in Seq(Agent) : IsInjective(s)}
           Eq(it) == it = [t \in SUBSET D |->
                             IF t = {} THEN <<>> ELSE Add(it[t \ {Max(t)}], members[Max(t)])]
           iter == CHOOSE it : Eq(it)
           step == [i \in 1 .. N |-> [s \in TT |-> Add(s, members[i])]]
           Of(n) == UNION {Range(members[i].sources) : i \in 1 .. n}
           T == [n \in 0 .. N |-> {s \in TT : Range(s) = Of(n)}]
<1>1. N \in Nat /\ D = 1 .. N
  OBVIOUS
<1>2. \A i \in 1 .. N : members[i].sources \in Seq(Agent) /\ IsInjective(members[i].sources)
  <2> TAKE i \in 1 .. N
  <2>1. members[i] \in Finding(R)
    OBVIOUS
  <2> QED
    BY <1>1, <2>1, FindingFields
<1>3. Sources(members) = iter[D]
  BY DEF Sources, FoldLeft, MapThenFoldSet
<1> HIDE DEF D, N
<1>4. ASSUME NEW i \in 1 .. N, NEW s \in TT
      PROVE  /\ Add(s, members[i]) \in TT
             /\ Range(Add(s, members[i])) = Range(s) \cup Range(members[i].sources)
  BY <1>2, SourcesAdded
<1>5. <<>> \in TT /\ Range(<<>>) = {}
  BY DEF IsInjective, Range
<1> HIDE DEF Add, TT
<1>6. Eq(iter)
  <2>1. step \in [1 .. N -> [TT -> TT]]
    BY <1>4
  <2>2. PICK x \in [SUBSET (1 .. N) -> TT] : IsFold(x, N, <<>>, step)
    <3>1. <<>> \in TT /\ N \in Nat
      BY <1>1, <1>5
    <3> HIDE DEF step
    <3> QED
      BY <2>1, <3>1, FoldExists, Zenon
  <2>3. ASSUME NEW t \in SUBSET (1 .. N), t # {}
        PROVE  step[Max(t)][x[t \ {Max(t)}]] = Add(x[t \ {Max(t)}], members[Max(t)])
    <3>1. Max(t) \in 1 .. N
      BY <1>1, <2>3, MaxOfPrefix
    <3>2. x[t \ {Max(t)}] \in TT
      OBVIOUS
    <3> QED
      BY <3>1, <3>2
  <2> HIDE DEF step
  <2>4. Eq(x)
    BY <1>1, <2>2, <2>3 DEF IsFold
  <2> QED
    BY <2>4
<1> HIDE DEF iter
<1>7. iter[{}] = <<>>
  BY <1>6
<1>8. ASSUME NEW n \in 1 .. N
      PROVE  iter[1 .. n] = Add(iter[1 .. n - 1], members[n])
  <2>1. (1 .. n) \in SUBSET D
    BY <1>1
  <2>2. (1 .. n) # {} /\ Max(1 .. n) = n /\ (1 .. n) \ {n} = 1 .. n - 1
    <3>1. n \in Nat /\ n # 0
      BY <1>1
    <3> QED
      BY <3>1, InitialSegment
  <2>3. \A t \in SUBSET D :
            iter[t] = IF t = {} THEN <<>> ELSE Add(iter[t \ {Max(t)}], members[Max(t)])
    BY <1>6
  <2>4. iter[1 .. n] = Add(iter[(1 .. n) \ {Max(1 .. n)}], members[Max(1 .. n)])
    BY <2>1, <2>2, <2>3
  <2> QED
    BY <2>2, <2>4
<1>9. iter[1 .. N] \in T[N]
  <2>1. iter[{}] \in T[0]
    <3>1. Of(0) = {}
      OBVIOUS
    <3> QED
      BY <1>1, <1>5, <1>7, <3>1
  <2>2. ASSUME NEW n \in 1 .. N, iter[1 .. n - 1] \in T[n - 1] PROVE iter[1 .. n] \in T[n]
    <3>1. n - 1 \in 0 .. N /\ n \in 0 .. N
      BY <1>1
    <3>2. iter[1 .. n - 1] \in TT /\ Range(iter[1 .. n - 1]) = Of(n - 1)
      BY <2>2, <3>1
    <3>3. iter[1 .. n] \in TT /\ Range(iter[1 .. n]) = Of(n - 1) \cup Range(members[n].sources)
      BY <1>4, <1>8, <3>2
    <3>4. 1 .. n = (1 .. n - 1) \cup {n}
      BY <1>1
    <3>5. Of(n) = Of(n - 1) \cup Range(members[n].sources)
      BY <3>4
    <3> QED
      BY <3>1, <3>3, <3>5
  <2> HIDE DEF T
  <2> QED
    BY <1>1, <2>1, <2>2, FoldAlongPrefixes
<1>10. N \in 0 .. N
  BY <1>1
<1>11. iter[D] \in TT /\ Range(iter[D]) = Of(N)
  BY <1>1, <1>9, <1>10
<1> QED
  BY <1>1, <1>3, <1>11 DEF TT, D

\* What a merged finding says, and of which reports.
LEMMA MergedFinding ==
    ASSUME NEW R, NEW members \in Seq(Finding(R)), members # <<>>,
           \A i \in DOMAIN members : IsInjective(members[i].sources)
    PROVE  LET m == merge(members)
               D == DOMAIN members
           IN  /\ m \in Finding(R)
               /\ m.file = members[1].file
               /\ \E i \in D : m.line = members[i].line
               /\ \A i \in D : members[i].line # NoLine => m.line <= members[i].line
               /\ \E i \in D : m.severity = members[i].severity
               /\ \A i \in D : members[i].severity <= m.severity
               /\ \E i \in D : m.confidence = members[i].confidence
               /\ \A i \in D : members[i].confidence <= m.confidence
               /\ IsInjective(m.sources)
               /\ Range(m.sources) = UNION {Range(members[i].sources) : i \in D}
               /\ m.raised = UNION {members[i].raised : i \in D}
               /\ Len(members) = 1 => m = members[1]
<1> DEFINE m == merge(members)
           D == DOMAIN members
           Goal(f) ==
               /\ f \in Finding(R)
               /\ f.file = members[1].file
               /\ \E i \in D : f.line = members[i].line
               /\ \A i \in D : members[i].line # NoLine => f.line <= members[i].line
               /\ \E i \in D : f.severity = members[i].severity
               /\ \A i \in D : members[i].severity <= f.severity
               /\ \E i \in D : f.confidence = members[i].confidence
               /\ \A i \in D : members[i].confidence <= f.confidence
               /\ IsInjective(f.sources)
               /\ Range(f.sources) = UNION {Range(members[i].sources) : i \in D}
               /\ f.raised = UNION {members[i].raised : i \in D}
<1>1. D = 1 .. Len(members) /\ Len(members) \in Nat /\ Len(members) # 0 /\ 1 \in D
  OBVIOUS
<1>2. \A i \in D : members[i] \in Finding(R)
  OBVIOUS
<1>3. \A i \in D : /\ members[i].line \in Nat /\ members[i].severity \in {1, 2, 3}
                   /\ members[i].confidence \in Nat /\ members[i].file \in Path
                   /\ members[i].raised \in SUBSET R /\ members[i].title \in SUBSET STRING
  BY <1>2, FindingFields
<1>4. CASE Len(members) = 1
  <2>1. m = members[1] /\ D = {1}
    BY <1>1, <1>4 DEF merge
  <2>2. Goal(members[1])
    BY <1>2, <1>3, <2>1
  <2> QED
    BY <2>1, <2>2
<1>5. CASE Len(members) # 1
  <2> DEFINE conf == [i \in 1 .. Len(members) |-> members[i].confidence]
             C == Max({members[i].confidence : i \in D})
             L == representative_line(members)
             src == Sources(members)
             ris == UNION {members[i].raised : i \in D}
  <2>1. PICK r \in D : /\ Representative(members) = members[r]
                       /\ \A j \in D : AtLeastAs(members[r], members[j])
    BY RepresentativeExists
  <2>2. /\ \E i \in D : L = members[i].line
        /\ \A i \in D : members[i].line # NoLine => L <= members[i].line
    BY LineOfMember
  <2>3. /\ src \in Seq(Agent) /\ IsInjective(src)
        /\ Range(src) = UNION {Range(members[i].sources) : i \in D}
    BY SourcesOfAll
  <2>4. /\ C \in Nat /\ \A i \in D : members[i].confidence <= C
        /\ \E i \in D : C = members[i].confidence
    <3>1. conf \in [1 .. Len(members) -> Nat]
      BY <1>1, <1>3
    <3>2. {members[i].confidence : i \in D} = {conf[i] : i \in 1 .. Len(members)}
      BY <1>1
    <3> HIDE DEF conf
    <3>3. LET S == {conf[i] : i \in 1 .. Len(members)}
          IN  Max(S) \in S /\ \A i \in 1 .. Len(members) : conf[i] <= Max(S)
      BY <1>1, <3>1, MaxOfValues
    <3>4. C \in {conf[i] : i \in 1 .. Len(members)} /\ \A i \in D : conf[i] <= C
      BY <1>1, <3>2, <3>3
    <3>5. \A i \in D : conf[i] = members[i].confidence /\ conf[i] \in Nat
      BY <1>1, <1>3 DEF conf
    <3> HIDE DEF C
    <3> QED
      BY <1>1, <3>4, <3>5
  <2>5. L \in Nat /\ ris \in SUBSET R
    BY <1>3, <2>2
  <2>6. m = [file |-> members[1].file, line |-> L,
             severity |-> members[r].severity, title |-> members[r].title,
             confidence |-> C, sources |-> src, amended |-> FALSE, raised |-> ris]
    BY <1>5, <2>1 DEF merge
  <2> HIDE DEF m, L, C, src, ris
  <2>7. members[r].severity \in Severity
    BY <1>2 DEF Finding
  <2>8. m \in Finding(R)
    BY <1>1, <1>3, <2>3, <2>4, <2>5, <2>6, <2>7 DEF Finding
  <2>9. \A j \in D : members[j].severity <= members[r].severity
    BY <1>3, <2>1 DEF AtLeastAs
  <2>10. Goal(m)
    BY <2>1, <2>2, <2>3, <2>4, <2>6, <2>8, <2>9 DEF ris
  <2> QED
    BY <1>5, <2>10 DEF m
<1> QED
  BY <1>4, <1>5

-----------------------------------------------------------------------------
(* Collapsing.                                                             *)

Named(f) == [f EXCEPT !.file = normalize_path(@)]

LEMMA NamedFinding ==
    ASSUME NEW R, NEW f \in Finding(R)
    PROVE  /\ Named(f) \in Finding(R)
           /\ Named(f).file = normalize_path(f.file)
           /\ Named(f).line = f.line /\ Named(f).severity = f.severity
           /\ Named(f).confidence = f.confidence /\ Named(f).sources = f.sources
           /\ Named(f).amended = f.amended /\ Named(f).raised = f.raised
<1>1. f.file \in Path /\ normalize_path(f.file) \in Path
  BY FindingFields, PathAssumption
<1> QED
  BY <1>1 DEF Named, Finding

\* A cluster is of one file, and has either lines only or none.
Uniform(cluster) ==
    \A i \in DOMAIN cluster : /\ cluster[i].file = cluster[1].file
                              /\ cluster[i].line = NoLine <=> cluster[1].line = NoLine

\* The first n findings are in the clusters, each at a row and a column of its
\* own, and nothing else is.
PlacedAt(clusters, findings, n, row, col) ==
    /\ \A i \in 1 .. n : /\ row[i] \in DOMAIN clusters
                         /\ col[i] \in DOMAIN clusters[row[i]]
                         /\ clusters[row[i]][col[i]] = Named(findings[i])
    /\ \A i, j \in 1 .. n : row[i] = row[j] /\ col[i] = col[j] => i = j
    /\ \A k \in DOMAIN clusters : \A m \in DOMAIN clusters[k] :
          \E i \in 1 .. n : row[i] = k /\ col[i] = m

Clustered(clusters, findings, n) ==
    \E row, col \in [1 .. n -> Nat] : PlacedAt(clusters, findings, n, row, col)

Clusters(R) == Seq(Seq(Finding(R)) \ {<<>>})

\* A finding that no cluster takes starts one.
LEMMA ClusterStarted ==
    ASSUME NEW R, NEW findings \in Seq(Finding(R)), NEW n \in 1 .. Len(findings),
           NEW c \in Clusters(R), \A k \in DOMAIN c : Uniform(c[k])
    PROVE  LET d == Append(c, <<Named(findings[n])>>)
           IN  /\ d \in Clusters(R)
               /\ \A k \in DOMAIN d : Uniform(d[k])
               /\ Clustered(c, findings, n - 1) => Clustered(d, findings, n)
<1> DEFINE f == Named(findings[n])
           d == Append(c, <<f>>)
           K == Len(c) + 1
<1>1. n \in Nat /\ n # 0 /\ findings[n] \in Finding(R)
  OBVIOUS
<1>2. f \in Finding(R)
  BY <1>1, NamedFinding
<1> HIDE DEF f
<1>3. <<f>> \in Seq(Finding(R)) \ {<<>>}
  BY <1>2
<1>4. /\ d \in Clusters(R) /\ DOMAIN d = 1 .. K /\ d[K] = <<f>> /\ DOMAIN c = 1 .. Len(c)
      /\ Len(c) \in Nat /\ \A k \in DOMAIN c : d[k] = c[k] /\ k # K
  <2>1. /\ d \in Clusters(R) /\ Len(d) = K /\ d[K] = <<f>>
        /\ \A k \in 1 .. Len(c) : d[k] = c[k]
    BY <1>3, AppendProperties DEF Clusters
  <2>2. DOMAIN d = 1 .. Len(d) /\ DOMAIN c = 1 .. Len(c) /\ Len(c) \in Nat
    BY <2>1, LenProperties DEF Clusters
  <2> HIDE DEF d
  <2> QED
    BY <2>1, <2>2
<1> HIDE DEF d
<1>5. /\ \A k \in 1 .. K : k \in DOMAIN c \/ k = K
      /\ \A k \in DOMAIN c : k \in DOMAIN d
  BY <1>4
<1> HIDE DEF K
<1>6. \A k \in DOMAIN d : Uniform(d[k])
  <2>1. Uniform(<<f>>)
    BY DEF Uniform
  <2> QED
    BY <1>4, <1>5, <2>1
<1>7. d = Append(c, <<Named(findings[n])>>)
  BY DEF d, f
<1> SUFFICES ASSUME Clustered(c, findings, n - 1)
             PROVE  Clustered(d, findings, n)
  BY <1>4, <1>6, <1>7
<1>8. PICK row \in [1 .. n - 1 -> Nat], col \in [1 .. n - 1 -> Nat] :
          PlacedAt(c, findings, n - 1, row, col)
  BY DEF Clustered
<1> USE DEF PlacedAt
<1> DEFINE rows == [i \in 1 .. n |-> IF i = n THEN K ELSE row[i]]
           cols == [i \in 1 .. n |-> IF i = n THEN 1 ELSE col[i]]
<1>9. /\ \A i \in 1 .. n : i = n \/ i \in 1 .. n - 1
      /\ \A i \in 1 .. n - 1 : i # n /\ i \in 1 .. n
      /\ n \in 1 .. n
  BY <1>1
<1>10. K \in Nat /\ K \in DOMAIN d /\ DOMAIN <<f>> = {1} /\ <<f>>[1] = f
  BY <1>4 DEF K
<1>11. /\ rows \in [1 .. n -> Nat] /\ cols \in [1 .. n -> Nat]
       /\ rows[n] = K /\ cols[n] = 1
       /\ \A i \in 1 .. n - 1 : rows[i] = row[i] /\ cols[i] = col[i]
  BY <1>9, <1>10
<1> HIDE DEF rows, cols
<1>12. ASSUME NEW i \in 1 .. n
       PROVE  /\ rows[i] \in DOMAIN d /\ cols[i] \in DOMAIN d[rows[i]]
              /\ d[rows[i]][cols[i]] = Named(findings[i])
  <2>1. CASE i = n
    BY <1>4, <1>10, <1>11, <2>1 DEF f
  <2>2. CASE i \in 1 .. n - 1
    <3>1. rows[i] = row[i] /\ cols[i] = col[i] /\ row[i] \in DOMAIN c
      BY <1>8, <1>11, <2>2
    <3>2. d[row[i]] = c[row[i]] /\ row[i] \in DOMAIN d
      BY <1>4, <1>5, <3>1
    <3> QED
      BY <1>8, <2>2, <3>1, <3>2
  <2> QED
    BY <1>9, <2>1, <2>2
<1>13. ASSUME NEW i \in 1 .. n, NEW j \in 1 .. n, rows[i] = rows[j], cols[i] = cols[j]
       PROVE  i = j
  <2>1. \A h \in 1 .. n - 1 : rows[h] # K
    BY <1>4, <1>8, <1>11
  <2> QED
    BY <1>8, <1>9, <1>11, <1>13, <2>1
<1>14. ASSUME NEW k \in DOMAIN d, NEW m \in DOMAIN d[k]
       PROVE  \E i \in 1 .. n : rows[i] = k /\ cols[i] = m
  <2>1. CASE k = K
    BY <1>4, <1>9, <1>10, <1>11, <2>1
  <2>2. CASE k \in DOMAIN c
    <3>1. PICK i \in 1 .. n - 1 : row[i] = k /\ col[i] = m
      BY <1>4, <1>8, <2>2
    <3> QED
      BY <1>9, <1>11, <3>1
  <2> QED
    BY <1>4, <1>5, <2>1, <2>2
<1>15. Clustered(d, findings, n)
  <2>1. PlacedAt(d, findings, n, rows, cols)
    BY <1>12, <1>13, <1>14
  <2> HIDE DEF PlacedAt
  <2> QED
    BY <1>11, <2>1 DEF Clustered
<1> QED
  BY <1>15

\* A finding that a cluster takes is its last member.
LEMMA ClusterJoined ==
    ASSUME NEW R, NEW findings \in Seq(Finding(R)), NEW n \in 1 .. Len(findings),
           NEW c \in Clusters(R), \A k \in DOMAIN c : Uniform(c[k]), NEW h \in DOMAIN c,
           c[h][1].file = Named(findings[n]).file,
           c[h][1].line = NoLine <=> Named(findings[n]).line = NoLine
    PROVE  LET d == [c EXCEPT ![h] = Append(@, Named(findings[n]))]
           IN  /\ d \in Clusters(R)
               /\ \A k \in DOMAIN d : Uniform(d[k])
               /\ Clustered(c, findings, n - 1) => Clustered(d, findings, n)
<1> DEFINE f == Named(findings[n])
           e == Append(c[h], f)
           d == [c EXCEPT ![h] = Append(@, f)]
           K == Len(c[h]) + 1
<1>1. n \in Nat /\ n # 0 /\ findings[n] \in Finding(R)
  OBVIOUS
<1>2. f \in Finding(R)
  BY <1>1, NamedFinding
<1>3. c[h][1].file = f.file /\ (c[h][1].line = NoLine <=> f.line = NoLine)
  OBVIOUS
<1> HIDE DEF f
<1>4. /\ c[h] \in Seq(Finding(R)) /\ c[h] # <<>> /\ Len(c[h]) \in Nat /\ 1 \in DOMAIN c[h]
      /\ DOMAIN c[h] = 1 .. Len(c[h]) /\ h \in 1 .. Len(c)
  BY DEF Clusters
<1>5. /\ e \in Seq(Finding(R)) \ {<<>>} /\ DOMAIN e = 1 .. K /\ e[K] = f
      /\ \A m \in DOMAIN c[h] : e[m] = c[h][m] /\ m # K
  <2>1. /\ e \in Seq(Finding(R)) /\ e # <<>> /\ Len(e) = K /\ e[K] = f
        /\ \A m \in 1 .. Len(c[h]) : e[m] = c[h][m]
    BY <1>2, <1>4, AppendProperties
  <2> HIDE DEF e
  <2>2. DOMAIN e = 1 .. Len(e)
    BY <2>1
  <2> QED
    BY <1>4, <2>1, <2>2
<1>6. /\ d \in Clusters(R) /\ DOMAIN d = DOMAIN c /\ d[h] = e
      /\ \A k \in DOMAIN c : k # h => d[k] = c[k]
  <2> HIDE DEF e
  <2>1. d = [c EXCEPT ![h] = e]
    BY DEF e
  <2>2. d \in Seq(Seq(Finding(R)) \ {<<>>})
    BY <1>4, <1>5, <2>1, ExceptSeq DEF Clusters
  <2> QED
    BY <2>1, <2>2 DEF Clusters
<1> HIDE DEF d, e
<1>7. /\ \A m \in 1 .. K : m \in DOMAIN c[h] \/ m = K
      /\ \A m \in DOMAIN c[h] : m \in DOMAIN e
      /\ K \in DOMAIN e /\ 1 \in DOMAIN c[h] /\ K \in Nat
  BY <1>4, <1>5
<1> HIDE DEF K
<1>8. Uniform(e)
  BY <1>3, <1>5, <1>7 DEF Uniform
<1>9. \A k \in DOMAIN d : Uniform(d[k])
  BY <1>6, <1>8
<1>10. d = [c EXCEPT ![h] = Append(@, Named(findings[n]))]
  BY DEF d, e, f
<1> SUFFICES ASSUME Clustered(c, findings, n - 1)
             PROVE  Clustered(d, findings, n)
  BY <1>6, <1>9, <1>10
<1>11. PICK row \in [1 .. n - 1 -> Nat], col \in [1 .. n - 1 -> Nat] :
          PlacedAt(c, findings, n - 1, row, col)
  BY DEF Clustered
<1> USE DEF PlacedAt
<1> DEFINE rows == [i \in 1 .. n |-> IF i = n THEN h ELSE row[i]]
           cols == [i \in 1 .. n |-> IF i = n THEN K ELSE col[i]]
<1>12. /\ \A i \in 1 .. n : i = n \/ i \in 1 .. n - 1
       /\ \A i \in 1 .. n - 1 : i # n /\ i \in 1 .. n
       /\ n \in 1 .. n
  BY <1>1
<1>13. /\ rows \in [1 .. n -> Nat] /\ cols \in [1 .. n -> Nat]
       /\ rows[n] = h /\ cols[n] = K
       /\ \A i \in 1 .. n - 1 : rows[i] = row[i] /\ cols[i] = col[i]
  BY <1>4, <1>7, <1>12
<1> HIDE DEF rows, cols
<1>14. ASSUME NEW i \in 1 .. n
       PROVE  /\ rows[i] \in DOMAIN d /\ cols[i] \in DOMAIN d[rows[i]]
              /\ d[rows[i]][cols[i]] = Named(findings[i])
  <2>1. CASE i = n
    BY <1>5, <1>6, <1>7, <1>13, <2>1 DEF f
  <2>2. CASE i \in 1 .. n - 1
    <3>1. rows[i] = row[i] /\ cols[i] = col[i] /\ row[i] \in DOMAIN c /\ col[i] \in DOMAIN c[row[i]]
      BY <1>11, <1>13, <2>2
    <3>2. CASE row[i] = h
      BY <1>5, <1>6, <1>7, <1>11, <2>2, <3>1, <3>2
    <3>3. CASE row[i] # h
      BY <1>6, <1>11, <2>2, <3>1, <3>3
    <3> QED
      BY <3>2, <3>3
  <2> QED
    BY <1>12, <2>1, <2>2
<1>15. ASSUME NEW i \in 1 .. n, NEW j \in 1 .. n, rows[i] = rows[j], cols[i] = cols[j]
       PROVE  i = j
  <2>1. ASSUME NEW g \in 1 .. n - 1, rows[g] = h PROVE cols[g] # K
    <3>1. row[g] = h /\ col[g] \in DOMAIN c[h]
      BY <1>11, <1>13, <2>1
    <3> QED
      BY <1>5, <1>13, <3>1
  <2>2. CASE i = n \/ j = n
    BY <1>12, <1>13, <1>15, <2>1, <2>2
  <2>3. CASE i \in 1 .. n - 1 /\ j \in 1 .. n - 1
    BY <1>11, <1>13, <1>15, <2>3
  <2> QED
    BY <1>12, <2>2, <2>3
<1>16. ASSUME NEW k \in DOMAIN d, NEW m \in DOMAIN d[k]
       PROVE  \E i \in 1 .. n : rows[i] = k /\ cols[i] = m
  <2>1. CASE k = h /\ m = K
    BY <1>12, <1>13, <2>1
  <2>2. CASE k # h \/ m # K
    <3>1. k \in DOMAIN c /\ m \in DOMAIN c[k]
      BY <1>5, <1>6, <1>7, <2>2
    <3>2. PICK i \in 1 .. n - 1 : row[i] = k /\ col[i] = m
      BY <1>11, <3>1
    <3> QED
      BY <1>12, <1>13, <3>2
  <2> QED
    BY <2>1, <2>2
<1>17. Clustered(d, findings, n)
  <2>1. PlacedAt(d, findings, n, rows, cols)
    BY <1>14, <1>15, <1>16
  <2> HIDE DEF PlacedAt
  <2> QED
    BY <1>13, <2>1 DEF Clustered
<1> QED
  BY <1>17

\* A cluster of c that is of the same file takes f.
Joined(d, c, f) ==
    \E h \in DOMAIN c : /\ d = [c EXCEPT ![h] = Append(@, f)]
                        /\ c[h][1].file = f.file
                        /\ c[h][1].line = NoLine <=> f.line = NoLine

\* What collapse merges: clusters of one file each, in which every finding is
\* once.
LEMMA CollapseClusters ==
    ASSUME NEW R, NEW findings \in Seq(Finding(R))
    PROVE  \E c \in Clusters(R) :
              /\ \A k \in DOMAIN c : Uniform(c[k])
              /\ Clustered(c, findings, Len(findings))
              /\ collapse(findings) = [k \in DOMAIN c |-> merge(c[k])]
<1> DEFINE N == Len(findings)
           D == DOMAIN findings
           Takes(cluster, f) == /\ cluster[1].file = f.file
                                /\ lines_compatible(cluster, f.line)
                                /\ titles_match(cluster, f.title)
           Place(c, finding) ==
               LET f == [finding EXCEPT !.file = normalize_path(@)]
                   takers == {i \in DOMAIN c : Takes(c[i], f)}
               IN  IF takers = {} THEN Append(c, <<f>>)
                   ELSE [c EXCEPT ![Min(takers)] = Append(@, f)]
           Eq(it) == it = [t \in SUBSET D |->
                             IF t = {} THEN <<>> ELSE Place(it[t \ {Max(t)}], findings[Max(t)])]
           iter == CHOOSE it : Eq(it)
           TT == {c \in Clusters(R) : \A k \in DOMAIN c : Uniform(c[k])}
           step == [i \in 1 .. N |-> [c \in TT |-> Place(c, findings[i])]]
           T == [n \in 0 .. N |-> {c \in TT : Clustered(c, findings, n)}]
<1>1. N \in Nat /\ D = 1 .. N
  OBVIOUS
<1>2. collapse(findings) = [k \in DOMAIN iter[D] |-> merge(iter[D][k])]
  BY DEF collapse, FoldLeft, MapThenFoldSet
<1>3. ASSUME NEW n \in 1 .. N, NEW c \in TT
      PROVE  \/ Place(c, findings[n]) = Append(c, <<Named(findings[n])>>)
             \/ Joined(Place(c, findings[n]), c, Named(findings[n]))
  <2> DEFINE f == Named(findings[n])
             takers == {i \in DOMAIN c : Takes(c[i], f)}
  <2>1. Place(c, findings[n]) = IF takers = {} THEN Append(c, <<f>>)
                                ELSE [c EXCEPT ![Min(takers)] = Append(@, f)]
    BY DEF Named
  <2>2. CASE takers = {}
    BY <2>1, <2>2
  <2>3. CASE takers # {}
    <3>1. takers \in SUBSET Nat
      BY DEF Clusters
    <3>2. Min(takers) \in takers
      BY <2>3, <3>1, MinExists
    <3> DEFINE h == Min(takers)
    <3>3. h \in DOMAIN c /\ Takes(c[h], f)
      BY <3>2
    <3>4. Place(c, findings[n]) = [c EXCEPT ![h] = Append(@, f)]
      BY <2>1, <2>3
    <3> HIDE DEF h, f
    <3>5. Uniform(c[h]) /\ 1 \in DOMAIN c[h]
      BY <3>3 DEF Clusters
    <3>6. c[h][1].line = NoLine <=> f.line = NoLine
      BY <3>3, <3>5 DEF lines_compatible, Uniform
    <3> QED
      BY <3>3, <3>4, <3>6 DEF f, Joined
  <2> QED
    BY <2>2, <2>3
<1> HIDE DEF Place
<1>4. ASSUME NEW n \in 1 .. N, NEW c \in TT
      PROVE  /\ Place(c, findings[n]) \in TT
             /\ Clustered(c, findings, n - 1) => Clustered(Place(c, findings[n]), findings, n)
  <2>1. n \in 1 .. Len(findings) /\ c \in Clusters(R) /\ \A k \in DOMAIN c : Uniform(c[k])
    OBVIOUS
  <2>2. CASE Place(c, findings[n]) = Append(c, <<Named(findings[n])>>)
    BY <2>1, <2>2, ClusterStarted
  <2>3. CASE Joined(Place(c, findings[n]), c, Named(findings[n]))
    <3>1. PICK h \in DOMAIN c :
               /\ Place(c, findings[n]) = [c EXCEPT ![h] = Append(@, Named(findings[n]))]
               /\ c[h][1].file = Named(findings[n]).file
               /\ c[h][1].line = NoLine <=> Named(findings[n]).line = NoLine
      BY <2>3 DEF Joined
    <3> DEFINE d == [c EXCEPT ![h] = Append(@, Named(findings[n]))]
    <3>2. /\ d \in Clusters(R)
          /\ \A k \in DOMAIN d : Uniform(d[k])
          /\ Clustered(c, findings, n - 1) => Clustered(d, findings, n)
      BY <2>1, <3>1, ClusterJoined
    <3>3. Place(c, findings[n]) = d
      BY <3>1
    <3> HIDE DEF d
    <3> QED
      BY <3>2, <3>3
  <2> QED
    BY <1>3, <2>2, <2>3
<1>5. <<>> \in TT /\ Clustered(<<>>, findings, 0)
  <2> DEFINE none == [i \in 1 .. 0 |-> 0]
  <2>1. none \in [1 .. 0 -> Nat] /\ PlacedAt(<<>>, findings, 0, none, none)
    BY DEF PlacedAt
  <2> HIDE DEF none
  <2> QED
    <3>1. Clustered(<<>>, findings, 0)
      BY <2>1 DEF Clustered
    <3>2. <<>> \in TT
      BY DEF Clusters
    <3> QED
      BY <3>1, <3>2
<1> HIDE DEF TT, D, N
<1>6. Eq(iter)
  <2>1. step \in [1 .. N -> [TT -> TT]]
    BY <1>4
  <2>2. PICK x \in [SUBSET (1 .. N) -> TT] : IsFold(x, N, <<>>, step)
    <3>1. <<>> \in TT /\ N \in Nat
      BY <1>1, <1>5
    <3> HIDE DEF step
    <3> QED
      BY <2>1, <3>1, FoldExists, Zenon
  <2>3. ASSUME NEW t \in SUBSET (1 .. N), t # {}
        PROVE  step[Max(t)][x[t \ {Max(t)}]] = Place(x[t \ {Max(t)}], findings[Max(t)])
    <3>1. Max(t) \in 1 .. N
      BY <1>1, <2>3, MaxOfPrefix
    <3>2. x[t \ {Max(t)}] \in TT
      OBVIOUS
    <3> QED
      BY <3>1, <3>2
  <2> HIDE DEF step
  <2>4. Eq(x)
    BY <1>1, <2>2, <2>3 DEF IsFold
  <2> QED
    BY <2>4
<1> HIDE DEF iter
<1>7. iter[{}] = <<>>
  BY <1>6
<1>8. ASSUME NEW n \in 1 .. N
      PROVE  iter[1 .. n] = Place(iter[1 .. n - 1], findings[n])
  <2>1. (1 .. n) \in SUBSET D
    BY <1>1
  <2>2. (1 .. n) # {} /\ Max(1 .. n) = n /\ (1 .. n) \ {n} = 1 .. n - 1
    <3>1. n \in Nat /\ n # 0
      BY <1>1
    <3> QED
      BY <3>1, InitialSegment
  <2>3. \A t \in SUBSET D :
            iter[t] = IF t = {} THEN <<>> ELSE Place(iter[t \ {Max(t)}], findings[Max(t)])
    BY <1>6
  <2>4. iter[1 .. n] = Place(iter[(1 .. n) \ {Max(1 .. n)}], findings[Max(1 .. n)])
    BY <2>1, <2>2, <2>3
  <2> QED
    BY <2>2, <2>4
<1>9. iter[1 .. N] \in T[N]
  <2>1. iter[{}] \in T[0]
    BY <1>1, <1>5, <1>7
  <2>2. ASSUME NEW n \in 1 .. N, iter[1 .. n - 1] \in T[n - 1] PROVE iter[1 .. n] \in T[n]
    <3>1. n - 1 \in 0 .. N /\ n \in 0 .. N
      BY <1>1
    <3>2. iter[1 .. n - 1] \in TT /\ Clustered(iter[1 .. n - 1], findings, n - 1)
      BY <2>2, <3>1
    <3>3. iter[1 .. n] \in TT /\ Clustered(iter[1 .. n], findings, n)
      BY <1>4, <1>8, <3>2
    <3> QED
      BY <3>1, <3>3
  <2> HIDE DEF T
  <2> QED
    BY <1>1, <2>1, <2>2, FoldAlongPrefixes
<1>10. N \in 0 .. N
  BY <1>1
<1>11. iter[D] \in TT /\ Clustered(iter[D], findings, N)
  BY <1>1, <1>9, <1>10
<1> QED
  BY <1>2, <1>11 DEF TT, N

-----------------------------------------------------------------------------
(* Anchoring.                                                              *)

LEMMA ByPath ==
    ASSUME NEW S, NEW files \in Seq(S), NEW path
    PROVE  LET i == by_path(files, path)
           IN  /\ i \in 0 .. Len(files)
               /\ i # 0 => i \in DOMAIN files
                           /\ normalize_path(files[i].path) = normalize_path(path)
               /\ i = 0 => \A j \in DOMAIN files :
                              normalize_path(files[j].path) # normalize_path(path)
<1> DEFINE named == {i \in DOMAIN files : normalize_path(files[i].path) = normalize_path(path)}
           S0 == {0} \cup named
<1>1. Len(files) \in Nat /\ DOMAIN files = 1 .. Len(files)
  OBVIOUS
<1>2. S0 \in SUBSET Nat /\ S0 # {} /\ \A x \in S0 : x <= Len(files)
  BY <1>1
<1>3. Max(S0) \in S0 /\ \A x \in S0 : x <= Max(S0)
  <2> HIDE DEF S0
  <2> QED
    BY <1>1, <1>2, MaxOfBounded
<1>4. by_path(files, path) = Max(S0)
  BY DEF by_path
<1> DEFINE i == Max(S0)
<1>5. i \in S0 /\ \A x \in S0 : x <= i
  BY <1>3
<1> HIDE DEF i
<1>6. \A j \in named : j \in Nat /\ j # 0 /\ j <= i
  BY <1>1, <1>5
<1>7. i = 0 => named = {}
  <2> HIDE DEF named
  <2> QED
    BY <1>6
<1>8. /\ i \in 0 .. Len(files)
      /\ i # 0 => i \in DOMAIN files /\ normalize_path(files[i].path) = normalize_path(path)
      /\ i = 0 => \A j \in DOMAIN files : normalize_path(files[j].path) # normalize_path(path)
  BY <1>1, <1>5, <1>7
<1> QED
  BY <1>4, <1>8 DEF i

\* How far apart two lines are, from either.
LEMMA DistanceFacts ==
    ASSUME NEW m \in Nat, NEW n \in Nat
    PROVE  Distance(m, n) \in Nat /\ Distance(m, n) = Distance(n, m) /\ Distance(m, m) = 0
BY DEF Distance

LEMMA NearestExists ==
    ASSUME NEW lines \in SUBSET Nat, lines # {}, NEW line \in Nat
    PROVE  Nearest(lines, line) \in lines
<1> DEFINE far == {Distance(n, line) : n \in lines}
           M == Min(far)
           best == {n \in lines : Distance(n, line) = M}
           b == Min(best)
<1>1. \A n \in lines : n \in Nat /\ Distance(n, line) \in Nat
  BY DEF Distance
<1>2. M \in far /\ \A x \in far : M <= x
  <2>1. far \in SUBSET Nat /\ far # {}
    BY <1>1
  <2> HIDE DEF far
  <2> QED
    BY <2>1, MinExists
<1> HIDE DEF M
<1>3. b \in best /\ \A x \in best : b <= x
  <2>1. best \in SUBSET Nat /\ best # {}
    BY <1>1, <1>2
  <2> HIDE DEF best
  <2> QED
    BY <2>1, MinExists
<1> HIDE DEF b
<1>4. \A m \in lines : \/ Distance(b, line) < Distance(m, line)
                       \/ Distance(b, line) = Distance(m, line) /\ b <= m
  <2> TAKE m \in lines
  <2>1. Distance(b, line) = M /\ M \in Nat /\ Distance(m, line) \in Nat /\ M <= Distance(m, line)
    BY <1>1, <1>2, <1>3
  <2>2. Distance(m, line) = M => b <= m
    BY <1>3
  <2> QED
    BY <2>1, <2>2
<1>5. b \in lines
  BY <1>3
<1> QED
  BY <1>4, <1>5 DEF Nearest

\* The lines of an entry are numbers.
LEMMA LinesOfEntry ==
    ASSUME NEW file \in Entry
    PROVE  /\ anchorable_lines(file) \in SUBSET Nat
           /\ added_lines(file) \subseteq anchorable_lines(file)
           /\ file.path \in Path
<1>1. \A i \in DOMAIN file.hunks : file.hunks[i].added \in SUBSET Nat
                                   /\ file.hunks[i].context \in SUBSET Nat
  <2> TAKE i \in DOMAIN file.hunks
  <2> DEFINE T == [added : LineSet, context : LineSet, removed : Nat]
             h == file.hunks
  <2>1. h[i] \in T
    <3>1. h \in Seq(T) /\ i \in DOMAIN h
      BY DEF Entry, Hunks
    <3> HIDE DEF T, h
    <3> QED
      BY <3>1
  <2>2. file.hunks[i].added \in LineSet /\ file.hunks[i].context \in LineSet
    BY <2>1
  <2> QED
    BY <2>2 DEF LineSet
<1>2. file.path \in Path
  BY DEF Entry
<1> QED
  BY <1>1, <1>2 DEF anchorable_lines, added_lines, context_lines

\* A line is moved, and not far, to a line a comment may be on, or taken away.
LEMMA AnchoredLine ==
    ASSUME NEW file \in Entry, NEW line \in Nat
    PROVE  LET to == nearest_anchor(file, line)
           IN  \/ to = NoLine
               \/ to \in anchorable_lines(file) /\ Distance(line, to) <= SnapTolerance
<1> DEFINE A == Near(added_lines(file), line)
           C == Near(anchorable_lines(file), line)
<1>1. /\ A \in SUBSET Nat /\ C \in SUBSET Nat
      /\ A \subseteq anchorable_lines(file) /\ C \subseteq anchorable_lines(file)
  BY LinesOfEntry DEF Near
<1>2. \A n \in A \cup C : n \in Nat /\ Distance(line, n) <= SnapTolerance
  <2> TAKE n \in A \cup C
  <2>1. n \in Nat /\ Distance(n, line) <= SnapTolerance
    BY <1>1 DEF Near
  <2> QED
    BY <2>1, DistanceFacts
<1>3. Distance(line, line) <= SnapTolerance
  BY DistanceFacts, AnchorsAssumption
<1> HIDE DEF A, C
<1>4. /\ A # {} => Nearest(A, line) \in A
      /\ C # {} => Nearest(C, line) \in C
  BY <1>1, NearestExists
<1> QED
  BY <1>1, <1>2, <1>3, <1>4 DEF nearest_anchor, A, C

\* g is f where a comment may be.
AnchoredTo(g, f, files) ==
    LET i == by_path(files, f.file)
    IN  /\ i # 0
        /\ g.line # NoLine => /\ g.line \in anchorable_lines(files[i])
                               /\ f.line # NoLine
                               /\ Distance(f.line, g.line) <= SnapTolerance
        /\ g.line \in Nat
        /\ g = [f EXCEPT !.file = normalize_path(@), !.line = g.line]

AnchoredFrom(out, findings, files, src) ==
    /\ Picks(src, Len(out), Len(findings))
    /\ \A k \in DOMAIN out : AnchoredTo(out[k], findings[src[k]], files)
    /\ \A i \in DOMAIN findings :
          by_path(files, findings[i].file) # 0 => \E k \in DOMAIN out : src[k] = i

LEMMA AnchoredFinding ==
    ASSUME NEW R, NEW f \in Finding(R), NEW files, NEW g, AnchoredTo(g, f, files)
    PROVE  /\ g \in Finding(R)
           /\ g.file = normalize_path(f.file) /\ g.severity = f.severity
           /\ g.confidence = f.confidence /\ g.sources = f.sources
           /\ g.amended = f.amended /\ g.raised = f.raised
<1>1. f.file \in Path /\ normalize_path(f.file) \in Path
  BY FindingFields, PathAssumption
<1>2. g.line \in Nat /\ g = [f EXCEPT !.file = normalize_path(@), !.line = g.line]
  BY DEF AnchoredTo
<1> QED
  BY <1>1, <1>2 DEF Finding

\* Every finding about a file of the diff is kept, anchored, and no other is.
LEMMA AnchoredFindings ==
    ASSUME NEW R, NEW findings \in Seq(Finding(R)), NEW files \in Seq(Entry)
    PROVE  LET out == anchor_findings(findings, files)
           IN  /\ out \in Seq(Finding(R))
               /\ \E src : AnchoredFrom(out, findings, files, src)
<1> DEFINE at == {i \in DOMAIN findings : by_path(files, findings[i].file) # 0}
           placed == Selected(findings, at)
           Anchor(f) == IF f.line = NoLine THEN NoLine
                        ELSE nearest_anchor(files[by_path(files, f.file)], f.line)
           Moved(f) == [f EXCEPT !.file = normalize_path(@), !.line = Anchor(f)]
           out == anchor_findings(findings, files)
<1>1. at \in SUBSET (DOMAIN findings)
  OBVIOUS
<1>2. /\ placed \in Seq(Finding(R)) /\ Len(placed) \in Nat
      /\ DOMAIN placed = 1 .. Len(placed)
      /\ \E src : PickedAt(placed, findings, at, src)
  <2> HIDE DEF at
  <2> QED
    BY <1>1, SelectionPicks
<1>3. PICK src : PickedAt(placed, findings, at, src)
  BY <1>2
<1>4. out = [k \in DOMAIN placed |-> Moved(placed[k])]
  BY DEF anchor_findings, Filter
<1> HIDE DEF placed, out
<1>5. ASSUME NEW f \in Finding(R), by_path(files, f.file) # 0
      PROVE  AnchoredTo(Moved(f), f, files)
  <2> DEFINE i == by_path(files, f.file)
             a == Anchor(f)
  <2>1. files[i] \in Entry
    <3>1. i \in DOMAIN files
      BY <1>5, ByPath
    <3> QED
      BY <3>1
  <2>2. f.line \in Nat
    BY FindingFields
  <2>3. a # NoLine => /\ a \in anchorable_lines(files[i])
                      /\ f.line # NoLine /\ Distance(f.line, a) <= SnapTolerance
    BY <2>1, <2>2, AnchoredLine
  <2>4. a \in Nat
    BY <2>1, <2>3, LinesOfEntry DEF NoLine
  <2>5. Moved(f) = [f EXCEPT !.file = normalize_path(@), !.line = a]
    OBVIOUS
  <2> HIDE DEF a, Moved
  <2>6. Moved(f).line = a
    BY <2>5 DEF Finding
  <2> QED
    BY <1>5, <2>3, <2>4, <2>5, <2>6 DEF AnchoredTo
<1>6. ASSUME NEW k \in DOMAIN placed
      PROVE  /\ src[k] \in at /\ placed[k] = findings[src[k]]
             /\ AnchoredTo(Moved(placed[k]), placed[k], files)
  <2>1. src[k] \in at /\ placed[k] = findings[src[k]]
    BY <1>2, <1>3 DEF PickedAt
  <2>2. placed[k] \in Finding(R) /\ by_path(files, placed[k].file) # 0
    BY <1>2, <2>1
  <2> HIDE DEF Moved
  <2> QED
    BY <1>5, <2>1, <2>2
<1> HIDE DEF Moved
<1>7. DOMAIN out = DOMAIN placed /\ \A k \in DOMAIN placed : out[k] = Moved(placed[k])
  BY <1>4
<1>8. \A k \in DOMAIN placed : out[k] \in Finding(R)
  <2> TAKE k \in DOMAIN placed
  <2>1. placed[k] \in Finding(R)
    BY <1>2
  <2> QED
    BY <1>6, <1>7, <2>1, AnchoredFinding
<1>9. out \in Seq(Finding(R)) /\ Len(out) = Len(placed)
  <2>1. out \in [1 .. Len(placed) -> Finding(R)]
    BY <1>2, <1>4, <1>7, <1>8
  <2> QED
    BY <1>2, <2>1
<1>10. AnchoredFrom(out, findings, files, src)
  BY <1>2, <1>3, <1>6, <1>7, <1>9 DEF AnchoredFrom, PickedAt
<1> QED
  BY <1>9, <1>10 DEF out

-----------------------------------------------------------------------------
(* Judging.                                                                *)

\* g is f as it was, or f amended: no more severe, and marked when less.
JudgedTo(g, f) ==
    /\ g = [f EXCEPT !.severity = g.severity, !.amended = g.amended]
    /\ g.amended \in BOOLEAN
    /\ \/ g.severity = f.severity /\ (f.amended => g.amended)
       \/ f.severity = High /\ g.severity \in {1, 2} /\ g.amended

LEMMA JudgedFinding ==
    ASSUME NEW R, NEW f \in Finding(R), NEW g, JudgedTo(g, f)
    PROVE  /\ g \in Finding(R)
           /\ g.file = f.file /\ g.line = f.line
           /\ g.confidence = f.confidence
           /\ g.sources = f.sources /\ g.raised = f.raised
<1>1. g.severity \in Severity
  <2>1. f.severity \in Severity /\ {1, 2} \subseteq Severity
    BY DEF Finding, Severity, High
  <2> QED
    BY <2>1 DEF JudgedTo
<1>2. g = [f EXCEPT !.severity = g.severity, !.amended = g.amended] /\ g.amended \in BOOLEAN
  BY DEF JudgedTo
<1> QED
  BY <1>1, <1>2 DEF Finding

LEMMA AmendedFinding ==
    ASSUME NEW R, NEW f \in Finding(R), NEW judgement
    PROVE  JudgedTo(amend(f, judgement), f) /\ JudgedTo(f, f)
<1> DEFINE lowers == /\ judgement.severity \in 1 .. f.severity - 1
                     /\ judgement.prevents
                     /\ f.severity = High
           s == IF lowers THEN judgement.severity ELSE f.severity
           m == f.amended \/ lowers \/ judgement.reworded
           g == amend(f, judgement)
<1>1. f.severity \in {1, 2, 3} /\ f.amended \in BOOLEAN
  BY FindingFields
<1>2. g = [f EXCEPT !.severity = s, !.amended = m]
  BY DEF amend
<1>3. m \in BOOLEAN /\ (lowers => m) /\ (f.amended => m)
  OBVIOUS
<1>4. lowers => f.severity = High /\ s \in {1, 2}
  BY <1>1 DEF High
<1>5. ~lowers => s = f.severity
  OBVIOUS
<1> HIDE DEF lowers, s, m, g
<1>6. g.severity = s /\ g.amended = m
  BY <1>2 DEF Finding
<1>7. JudgedTo(g, f)
  BY <1>2, <1>3, <1>4, <1>5, <1>6 DEF JudgedTo
<1>8. f = [f EXCEPT !.severity = f.severity, !.amended = f.amended]
  BY DEF Finding
<1>9. JudgedTo(f, f)
  BY <1>1, <1>8 DEF JudgedTo
<1> QED
  BY <1>7, <1>9 DEF g

JudgedFrom(out, findings, src) ==
    /\ Picks(src, Len(out), Len(findings))
    /\ \A k \in DOMAIN out : JudgedTo(out[k], findings[src[k]])

\* What survives is what was, amended or not, and the rest is counted.
LEMMA JudgedFindings ==
    ASSUME NEW R, NEW findings \in Seq(Finding(R)), NEW verdicts, NEW asked
    PROVE  LET out == apply_verdicts(findings, verdicts, asked).findings
               retracted == apply_verdicts(findings, verdicts, asked).retracted
           IN  /\ out \in Seq(Finding(R))
               /\ retracted \in Nat /\ retracted = Len(findings) - Len(out)
               /\ \E src : JudgedFrom(out, findings, src)
<1> DEFINE index == [i \in DOMAIN findings |-> i]
           Told(i) == first_verdict(verdicts, asked, i)
           at == {i \in DOMAIN index : Told(index[i]).verdict # "drop"}
           left == Selected(index, at)
           After(i) == IF Told(i).verdict = "amend" THEN amend(findings[i], Told(i))
                       ELSE findings[i]
           out == [k \in DOMAIN left |-> After(left[k])]
<1>1. DOMAIN findings = 1 .. Len(findings) /\ Len(findings) \in Nat
  OBVIOUS
<1>2. index \in Seq(Nat) /\ Len(index) = Len(findings) /\ DOMAIN index = DOMAIN findings
  <2>1. index \in [1 .. Len(findings) -> Nat]
    BY <1>1
  <2> QED
    BY <1>1, <2>1
<1>3. \A i \in DOMAIN findings : index[i] = i
  OBVIOUS
<1>4. at \in SUBSET (DOMAIN index)
  OBVIOUS
<1>5. apply_verdicts(findings, verdicts, asked)
         = [findings |-> out, retracted |-> Len(findings) - Len(left)]
  BY DEF apply_verdicts, Filter
<1> HIDE DEF index, at
<1>6. /\ left \in Seq(Nat) /\ Len(left) = Cardinality(at) /\ DOMAIN left = 1 .. Len(left)
      /\ Cardinality(at) \in 0 .. Len(findings)
  <2>1. Cardinality(at) \in 0 .. Len(index)
    BY <1>2, <1>4, SelectedElements
  <2>2. left \in Seq(Nat) /\ Len(left) = Cardinality(at) /\ DOMAIN left = 1 .. Len(left)
    BY <1>2, <1>4, SelectionPicks
  <2> QED
    BY <1>2, <2>1, <2>2
<1>7. PICK src : PickedAt(left, index, at, src)
  BY <1>2, <1>4, SelectionPicks
<1> HIDE DEF left
<1>8. ASSUME NEW k \in DOMAIN left
      PROVE  /\ out[k] \in Finding(R) /\ JudgedTo(out[k], findings[src[k]])
  <2>1. src[k] \in DOMAIN findings /\ left[k] = src[k]
    BY <1>2, <1>3, <1>4, <1>6, <1>7 DEF PickedAt
  <2>2. out[k] = After(src[k]) /\ findings[src[k]] \in Finding(R)
    BY <2>1
  <2>3. JudgedTo(After(src[k]), findings[src[k]])
    <3> HIDE DEF Told
    <3> QED
      BY <2>2, AmendedFinding
  <2> HIDE DEF out, After
  <2> QED
    BY <2>2, <2>3, JudgedFinding
<1> HIDE DEF After
<1>9. DOMAIN out = DOMAIN left
  OBVIOUS
<1>10. out \in Seq(Finding(R)) /\ Len(out) = Len(left)
  <2>1. out \in [1 .. Len(left) -> Finding(R)] /\ Len(left) \in Nat
    BY <1>6, <1>8
  <2> HIDE DEF out
  <2> QED
    BY <2>1
<1> HIDE DEF out
<1>11. JudgedFrom(out, findings, src)
  BY <1>2, <1>7, <1>8, <1>9, <1>10 DEF JudgedFrom, PickedAt
<1>12. Len(findings) - Len(left) \in Nat
  BY <1>1, <1>6
<1> QED
  BY <1>5, <1>10, <1>11, <1>12

-----------------------------------------------------------------------------
(* Ranking.                                                                *)

\* Who outranks whom depends on five numbers, in turn.
LEMMA OutranksByNumbers ==
    ASSUME NEW R, NEW f \in Finding(R), NEW g \in Finding(R)
    PROVE  /\ {f.severity, f.confidence, Len(f.sources), PathOrder[f.file], f.line} \subseteq Nat
           /\ Outranks(f, g) <=>
                 \/ f.severity > g.severity
                 \/ /\ f.severity = g.severity
                    /\ \/ f.confidence > g.confidence
                       \/ /\ f.confidence = g.confidence
                          /\ \/ Len(f.sources) > Len(g.sources)
                             \/ /\ Len(f.sources) = Len(g.sources)
                                /\ \/ PathOrder[f.file] < PathOrder[g.file]
                                   \/ /\ PathOrder[f.file] = PathOrder[g.file]
                                      /\ f.line < g.line
<1>1. f.file \in Path /\ g.file \in Path /\ Len(f.sources) \in Nat
      /\ f.severity \in Nat /\ f.confidence \in Nat /\ f.line \in Nat
  BY FindingFields
<1>2. f.file = g.file <=> PathOrder[f.file] = PathOrder[g.file]
  BY <1>1, PathAssumption DEF IsInjective, Path
<1>3. PathOrder[f.file] \in Nat
  BY <1>1, PathAssumption
<1> QED
  BY <1>1, <1>2, <1>3 DEF Outranks

LEMMA OutranksWeakly ==
    ASSUME NEW R, NEW findings \in Seq(Finding(R))
    PROVE  WeaklyOrders({p \in (DOMAIN findings) \X (DOMAIN findings) :
                            Outranks(findings[p[1]], findings[p[2]])}, DOMAIN findings)
<1> DEFINE D == DOMAIN findings
           L == {p \in D \X D : Outranks(findings[p[1]], findings[p[2]])}
<1>1. \A i \in D : findings[i] \in Finding(R)
  OBVIOUS
<1>2. \A i, j \in D : <<i, j>> \in L <=> Outranks(findings[i], findings[j])
  OBVIOUS
<1> HIDE DEF D, L
<1>3. ASSUME NEW i \in D, NEW j \in D, NEW k \in D
      PROVE  /\ <<i, i>> \notin L
             /\ <<i, j>> \in L /\ <<j, k>> \in L => <<i, k>> \in L
             /\ <<i, k>> \in L => <<i, j>> \in L \/ <<j, k>> \in L
  <2> DEFINE f == findings[i]
             g == findings[j]
             h == findings[k]
  <2>1. f \in Finding(R) /\ g \in Finding(R) /\ h \in Finding(R)
    BY <1>1
  <2> HIDE DEF f, g, h
  <2> DEFINE N == {f, g, h}
             sv == [x \in N |-> x.severity]
             cf == [x \in N |-> x.confidence]
             ln == [x \in N |-> Len(x.sources)]
             po == [x \in N |-> PathOrder[x.file]]
             li == [x \in N |-> x.line]
             Above(x, y) ==
                 \/ sv[x] > sv[y]
                 \/ sv[x] = sv[y] /\ cf[x] > cf[y]
                 \/ sv[x] = sv[y] /\ cf[x] = cf[y] /\ ln[x] > ln[y]
                 \/ sv[x] = sv[y] /\ cf[x] = cf[y] /\ ln[x] = ln[y] /\ po[x] < po[y]
                 \/ sv[x] = sv[y] /\ cf[x] = cf[y] /\ ln[x] = ln[y] /\ po[x] = po[y]
                    /\ li[x] < li[y]
  <2>2. \A x \in N : x \in Finding(R)
    BY <2>1
  <2>3. \A x \in N : /\ sv[x] \in Nat /\ cf[x] \in Nat /\ ln[x] \in Nat
                     /\ po[x] \in Nat /\ li[x] \in Nat
    BY <2>2, OutranksByNumbers
  <2>4. \A x, y \in N : Outranks(x, y) <=> Above(x, y)
    <3> TAKE x, y \in N
    <3>1. x \in Finding(R) /\ y \in Finding(R)
      BY <2>2
    <3> QED
      BY <3>1, OutranksByNumbers
  <2>5. f \in N /\ g \in N /\ h \in N
    OBVIOUS
  <2> HIDE DEF N, sv, cf, ln, po, li
  <2>6. ~Above(f, f)
    BY <2>3, <2>5
  <2>7. Above(f, g) /\ Above(g, h) => Above(f, h)
    BY <2>3, <2>5, SMTT(30)
  <2>8. Above(f, h) => Above(f, g) \/ Above(g, h)
    BY <2>3, <2>5, SMTT(60)
  <2>9. /\ ~Outranks(f, f)
        /\ Outranks(f, g) /\ Outranks(g, h) => Outranks(f, h)
        /\ Outranks(f, h) => Outranks(f, g) \/ Outranks(g, h)
    <3> HIDE DEF Above
    <3> QED
      BY <2>4, <2>5, <2>6, <2>7, <2>8
  <2> QED
    BY <1>2, <2>9 DEF f, g, h
<1>4. WeaklyOrders(L, D)
  BY <1>3 DEF WeaklyOrders
<1> QED
  BY <1>4 DEF L, D

\* What is kept is the best of what passes, in order.
KeptFrom(out, findings, src) ==
    /\ Picks(src, Len(out), Len(findings))
    /\ \A k \in DOMAIN out : out[k] = findings[src[k]] /\ Passes(out[k])
    /\ \A k, l \in DOMAIN out : k < l => AtLeastAs(out[k], out[l])
    /\ \A i \in DOMAIN findings : Passes(findings[i]) =>
          \/ \E k \in DOMAIN out : src[k] = i
          \/ \A k \in DOMAIN out : AtLeastAs(out[k], findings[i])

LEMMA RankedFindings ==
    ASSUME NEW R, NEW findings \in Seq(Finding(R))
    PROVE  LET cut == rank_and_cut(findings)
           IN  /\ cut.kept \in Seq(Finding(R))
               /\ Len(cut.kept) <= MaxPosted
               /\ cut.withheld \in Nat /\ cut.withheld = Len(findings) - Len(cut.kept)
               /\ \E src : KeptFrom(cut.kept, findings, src)
<1> DEFINE at == {i \in DOMAIN findings : Passes(findings[i])}
           passing == Selected(findings, at)
           D == DOMAIN passing
           L == {p \in D \X D : Outranks(passing[p[1]], passing[p[2]])}
           sorted == Arranged(passing, Stable(L, D))
           M == Min({MaxPosted, Len(sorted)})
           kept == SubSeq(sorted, 1, M)
<1>1. at \in SUBSET (DOMAIN findings) /\ Len(findings) \in Nat
      /\ DOMAIN findings = 1 .. Len(findings)
  OBVIOUS
<1>2. \A i \in DOMAIN findings : i \in at <=> Passes(findings[i])
  OBVIOUS
<1> HIDE DEF at
<1>3. /\ passing \in Seq(Finding(R)) /\ Len(passing) = Cardinality(at) /\ D = 1 .. Len(passing)
      /\ Len(passing) \in 0 .. Len(findings)
  <2>1. Cardinality(at) \in 0 .. Len(findings)
    BY <1>1, SelectedElements
  <2>2. passing \in Seq(Finding(R)) /\ Len(passing) = Cardinality(at) /\ D = 1 .. Len(passing)
    BY <1>1, SelectionPicks
  <2> QED
    BY <2>1, <2>2
<1>4. PICK sel : PickedAt(passing, findings, at, sel)
  BY <1>1, SelectionPicks
<1>5. rank_and_cut(findings)
         = [kept |-> kept, withheld |-> Len(findings) - Len(kept)]
  <2>1. SortedBy(passing, Outranks) = sorted
    <3> HIDE DEF passing
    <3>1. Stable(L, D) = {p \in D \X D : \/ Outranks(passing[p[1]], passing[p[2]])
                                         \/ p[1] < p[2] /\ ~Outranks(passing[p[2]], passing[p[1]])}
      <4>1. \A p \in D \X D : /\ p \in L <=> Outranks(passing[p[1]], passing[p[2]])
                              /\ <<p[2], p[1]>> \in L <=> Outranks(passing[p[2]], passing[p[1]])
        OBVIOUS
      <4> HIDE DEF L
      <4> QED
        BY <4>1 DEF Stable
    <3> QED
      BY <3>1 DEF SortedBy
  <2>2. Filter(findings, Passes) = passing
    BY DEF Filter, at
  <2> HIDE DEF passing, sorted, D, L
  <2> QED
    BY <2>1, <2>2 DEF rank_and_cut
<1> HIDE DEF passing
<1>6. WeaklyOrders(L, D)
  BY <1>3, OutranksWeakly
<1>7. sorted \in Seq(Finding(R)) /\ Len(sorted) = Len(passing)
  <2> HIDE DEF L
  <2> QED
    BY <1>3, <1>6, SortedElements
<1>8. PICK place : SortedAt(sorted, passing, L, place)
  <2> HIDE DEF L
  <2> QED
    BY <1>3, <1>6, SortedElements
<1>9. \A i, j \in D : <<i, j>> \in L <=> Outranks(passing[i], passing[j])
  OBVIOUS
<1> HIDE DEF L, D, sorted
<1>10. M \in Nat /\ M <= MaxPosted /\ M <= Len(sorted)
       /\ (M = MaxPosted \/ M = Len(sorted))
  <2>1. {MaxPosted, Len(sorted)} \in SUBSET Nat /\ {MaxPosted, Len(sorted)} # {}
    BY <1>3, <1>7, DedupeAssumption DEF DedupeAssumption
  <2>2. M \in {MaxPosted, Len(sorted)} /\ \A x \in {MaxPosted, Len(sorted)} : M <= x
    BY <2>1, MinExists
  <2> QED
    BY <2>1, <2>2
<1> HIDE DEF M
<1>11. /\ kept \in Seq(Finding(R)) /\ Len(kept) = M /\ DOMAIN kept = 1 .. M
       /\ \A k \in 1 .. M : kept[k] = sorted[k]
  <2>1. Len(sorted) \in Nat /\ sorted \in Seq(Finding(R))
    BY <1>3, <1>7
  <2> QED
    BY <1>10, <2>1
<1> HIDE DEF kept
<1> DEFINE src == [k \in 1 .. M |-> sel[place[k]]]
<1>12. \A k \in D : /\ place[k] \in D /\ sorted[k] = passing[place[k]]
                    /\ sel[place[k]] \in at
                    /\ passing[place[k]] = findings[sel[place[k]]]
  BY <1>3, <1>4, <1>8 DEF PickedAt, SortedAt, Picks
<1>13. 1 .. M \subseteq D
  BY <1>3, <1>7, <1>10
<1>14. \A k \in 1 .. M : /\ src[k] = sel[place[k]] /\ src[k] \in at
                         /\ kept[k] = findings[src[k]]
  BY <1>11, <1>12, <1>13
<1>15. Picks(src, M, Len(findings))
  <2>1. src \in [1 .. M -> 1 .. Len(findings)]
    BY <1>1, <1>14
  <2>2. ASSUME NEW k \in 1 .. M, NEW l \in 1 .. M, src[k] = src[l] PROVE k = l
    <3>1. place[k] \in 1 .. Len(passing) /\ place[l] \in 1 .. Len(passing)
          /\ sel[place[k]] = sel[place[l]]
      BY <1>3, <1>12, <1>13, <1>14, <2>2
    <3>2. place[k] = place[l]
      BY <1>4, <3>1 DEF PickedAt, Picks
    <3>3. k \in 1 .. Len(passing) /\ l \in 1 .. Len(passing)
      BY <1>3, <1>13
    <3> QED
      BY <1>8, <3>2, <3>3 DEF SortedAt, Picks
  <2> HIDE DEF src
  <2> QED
    BY <2>1, <2>2 DEF Picks
<1> HIDE DEF src
<1>16. ASSUME NEW k \in D, NEW l \in D, k < l PROVE AtLeastAs(sorted[k], sorted[l])
  <2> DEFINE f == passing[place[k]]
             g == passing[place[l]]
  <2>1. <<place[l], place[k]>> \notin L
    BY <1>3, <1>8, <1>16 DEF SortedAt
  <2>2. ~Outranks(g, f) /\ f \in Finding(R) /\ g \in Finding(R)
    BY <1>3, <1>9, <1>12, <2>1 DEF D
  <2>3. f = sorted[k] /\ g = sorted[l]
    BY <1>12
  <2> HIDE DEF f, g
  <2>4. AtLeastAs(f, g)
    BY <2>2, FindingFields DEF Outranks, AtLeastAs
  <2> QED
    BY <2>3, <2>4
<1>17. \A k, l \in 1 .. M : k < l => AtLeastAs(kept[k], kept[l])
  BY <1>11, <1>13, <1>16
<1>18. ASSUME NEW i \in DOMAIN findings, Passes(findings[i])
       PROVE  \/ \E k \in 1 .. M : src[k] = i
              \/ \A k \in 1 .. M : AtLeastAs(kept[k], findings[i])
  <2>1. PICK j \in 1 .. Len(passing) : sel[j] = i
    BY <1>2, <1>4, <1>18 DEF PickedAt
  <2>2. PICK l \in 1 .. Len(passing) : place[l] = j
    BY <1>8 DEF SortedAt
  <2>3. l \in D /\ sorted[l] = findings[i]
    BY <1>3, <1>12, <2>1, <2>2
  <2>4. CASE l \in 1 .. M
    BY <1>14, <2>1, <2>2, <2>4
  <2>5. CASE l \notin 1 .. M
    <3>1. \A k \in 1 .. M : k < l
      BY <1>10, <2>5
    <3> QED
      BY <1>11, <1>13, <1>16, <2>3, <3>1
  <2> QED
    BY <2>4, <2>5
<1>19. \A k \in 1 .. M : Passes(kept[k])
  BY <1>1, <1>2, <1>14
<1>20. KeptFrom(kept, findings, src)
  BY <1>11, <1>14, <1>15, <1>17, <1>18, <1>19 DEF KeptFrom
<1>21. Len(findings) - Len(kept) \in Nat
  BY <1>1, <1>3, <1>7, <1>10, <1>11
<1> QED
  BY <1>5, <1>10, <1>11, <1>20, <1>21

-----------------------------------------------------------------------------
(* The groups of the merge pass.                                           *)

\* Only R says of every position where it leads to in parent.
IsRoots(parent, n, R) ==
    /\ parent \in [1 .. n -> 1 .. n] /\ R \in [1 .. n -> 1 .. n]
    /\ R = [i \in 1 .. n |-> IF parent[i] = i THEN i ELSE R[parent[i]]]
    /\ \A i \in 1 .. n : parent[R[i]] = R[i]
    /\ \A Q : Q = [i \in 1 .. n |-> IF parent[i] = i THEN i ELSE Q[parent[i]]] => Q = R

LEMMA RootIsFound ==
    ASSUME NEW n, NEW parent, NEW R, IsRoots(parent, n, R), NEW i \in 1 .. n
    PROVE  find(parent, i) = R[i]
<1> DEFINE Eq(Q) == Q = [j \in 1 .. n |-> IF parent[j] = j THEN j ELSE Q[parent[j]]]
<1>1. DOMAIN parent = 1 .. n
  BY DEF IsRoots
<1>2. Eq(R) /\ \A Q : Eq(Q) => Q = R
  BY DEF IsRoots
<1> HIDE DEF Eq
<1>3. (CHOOSE Q : Eq(Q)) = R
  BY <1>2
<1>4. find(parent, i) = (CHOOSE Q : Eq(Q))[i]
  BY <1>1 DEF find, Eq
<1> QED
  BY <1>3, <1>4

\* Joining two positions makes one tree of theirs.
Joining(R, n, key) == [i \in 1 .. n |-> IF R[i] = R[key[1]] THEN R[key[2]] ELSE R[i]]

LEMMA RootsJoined ==
    ASSUME NEW n, NEW parent, NEW R, IsRoots(parent, n, R),
           NEW key, key[1] \in 1 .. n, key[2] \in 1 .. n
    PROVE  IsRoots(join(parent, key), n, Joining(R, n, key))
<1> DEFINE a == R[key[1]]
           b == R[key[2]]
           p == join(parent, key)
           S == Joining(R, n, key)
           D == 1 .. n
           Eq(Q) == \A i \in D : Q[i] = IF p[i] = i THEN i ELSE Q[p[i]]
<1>1. /\ parent \in [D -> D] /\ R \in [D -> D]
      /\ \A i \in D : R[i] = IF parent[i] = i THEN i ELSE R[parent[i]]
      /\ \A i \in D : parent[R[i]] = R[i]
  BY DEF IsRoots
<1>2. \A Q : Q = [i \in D |-> IF parent[i] = i THEN i ELSE Q[parent[i]]] => Q = R
  BY DEF IsRoots
<1>3. p = [parent EXCEPT ![a] = b]
  <2>1. find(parent, key[1]) = a /\ find(parent, key[2]) = b
    BY RootIsFound
  <2> QED
    BY <2>1 DEF join
<1>4. a \in D /\ b \in D /\ R[a] = a /\ R[b] = b /\ parent[a] = a /\ parent[b] = b
  BY <1>1
<1>5. S \in [D -> D] /\ \A i \in D : S[i] = IF R[i] = a THEN b ELSE R[i]
  BY <1>1, <1>4 DEF Joining
<1> HIDE DEF p, a, b, S, D
<1>6. p \in [D -> D] /\ p[a] = b /\ \A i \in D : i # a => p[i] = parent[i]
  BY <1>1, <1>3, <1>4
<1>7. \A i \in D : S[i] = IF p[i] = i THEN i ELSE S[p[i]]
  <2> TAKE i \in D
  <2>1. CASE i = a
    BY <1>4, <1>5, <1>6, <2>1
  <2>2. CASE i # a
    BY <1>1, <1>4, <1>5, <1>6, <2>2
  <2> QED
    BY <2>1, <2>2
<1>8. \A i \in D : p[S[i]] = S[i]
  <2> TAKE i \in D
  <2>1. CASE R[i] = a
    BY <1>4, <1>5, <1>6, <2>1
  <2>2. CASE R[i] # a
    BY <1>1, <1>5, <1>6, <2>2
  <2> QED
    BY <2>1, <2>2
<1>9. ASSUME NEW Q, Q = [i \in D |-> IF p[i] = i THEN i ELSE Q[p[i]]]
      PROVE  Q = S
  <2>1. Eq(Q)
    BY <1>9
  <2>2. \A i \in D : R[i] # a => Q[i] = R[i]
    <3> DEFINE Q2 == [i \in D |-> IF R[i] = a THEN a ELSE Q[i]]
    <3>1. \A i \in D : Q2[i] = IF parent[i] = i THEN i ELSE Q2[parent[i]]
      <4> TAKE i \in D
      <4>1. CASE i = a
        BY <1>4, <4>1
      <4>2. CASE i # a /\ parent[i] = i
        BY <1>1, <1>6, <2>1, <4>2
      <4>3. CASE i # a /\ parent[i] # i
        BY <1>1, <1>6, <2>1, <4>3
      <4> QED
        BY <4>1, <4>2, <4>3
    <3>2. Q2 = [i \in D |-> IF parent[i] = i THEN i ELSE Q2[parent[i]]]
      BY <3>1
    <3>3. \A i \in D : Q2[i] = IF R[i] = a THEN a ELSE Q[i]
      OBVIOUS
    <3> HIDE DEF Q2
    <3>4. Q2 = R
      BY <1>2, <3>2
    <3> QED
      BY <3>3, <3>4
  <2>3. \A i \in D : R[i] = a => Q[i] = b
    <3>1. CASE a = b
      <4>1. p = parent
        BY <1>1, <1>3, <1>4, <3>1
      <4>2. Q = R
        BY <1>2, <1>9, <4>1
      <4> QED
        BY <3>1, <4>2
    <3>2. CASE a # b
      <4> DEFINE Q3 == [i \in D |-> IF R[i] = a THEN IF Q[i] = b THEN a ELSE b ELSE R[i]]
      <4>1. Q[b] = b /\ Q[a] = b
        BY <1>4, <1>6, <2>1, <2>2, <3>2
      <4>2. \A i \in D : Q3[i] = IF parent[i] = i THEN i ELSE Q3[parent[i]]
        <5> TAKE i \in D
        <5>1. CASE i = a
          BY <1>4, <4>1, <5>1
        <5>2. CASE i # a /\ parent[i] = i
          BY <1>1, <5>2
        <5>3. CASE i # a /\ parent[i] # i
          BY <1>1, <1>6, <2>1, <5>3
        <5> QED
          BY <5>1, <5>2, <5>3
      <4>3. Q3 = [i \in D |-> IF parent[i] = i THEN i ELSE Q3[parent[i]]]
        BY <4>2
      <4>4. \A i \in D : R[i] = a /\ Q[i] # b => Q3[i] = b
        OBVIOUS
      <4> HIDE DEF Q3
      <4>5. Q3 = R
        BY <1>2, <4>3
      <4> QED
        BY <3>2, <4>4, <4>5
    <3> QED
      BY <3>1, <3>2
  <2>4. \A i \in D : Q[i] = S[i]
    BY <1>5, <2>2, <2>3
  <2>5. DOMAIN Q = D
    BY <1>9
  <2>6. Q = [i \in D |-> Q[i]]
    BY <1>9
  <2> QED
    BY <1>5, <2>4, <2>6
<1>10. S = [i \in D |-> IF p[i] = i THEN i ELSE S[p[i]]]
  BY <1>5, <1>7
<1>11. IsRoots(p, n, S)
  BY <1>5, <1>6, <1>8, <1>9, <1>10 DEF IsRoots, D
<1> QED
  BY <1>11 DEF p, S

\* The pairs that were asked about and judged the same.
Accepted(decisions, pairs) ==
    {Key(decisions[k]) : k \in {k \in DOMAIN decisions : decisions[k].same_defect}} \cap pairs

ClosedUnder(S, J) == \A p \in J : p[1] \in S <=> p[2] \in S

\* R is what the first m decisions make of the positions: accepted pairs lead to
\* one root, and no root is further away than accepted pairs reach.
LeadsTo(parent, n, decisions, pairs, m, R) ==
    /\ IsRoots(parent, n, R)
    /\ \A k \in 1 .. m : decisions[k].same_defect /\ Key(decisions[k]) \in pairs =>
          R[Key(decisions[k])[1]] = R[Key(decisions[k])[2]]
    /\ \A S \in SUBSET (1 .. n) : ClosedUnder(S, Accepted(decisions, pairs)) =>
          \A i \in 1 .. n : i \in S <=> R[i] \in S

Decided(parent, d, pairs) ==
    IF d.same_defect /\ Key(d) \in pairs THEN join(parent, Key(d)) ELSE parent

LEMMA DecisionTaken ==
    ASSUME NEW n, NEW pairs \in SUBSET ((1 .. n) \X (1 .. n)), NEW T,
           NEW decisions \in Seq(T), NEW m \in DOMAIN decisions, NEW parent, NEW R,
           LeadsTo(parent, n, decisions, pairs, m - 1, R)
    PROVE  \E Q : LeadsTo(Decided(parent, decisions[m], pairs), n, decisions, pairs, m, Q)
<1> DEFINE d == decisions[m]
           key == Key(d)
           p == Decided(parent, d, pairs)
           D == 1 .. n
           Agreed(Q, k) == decisions[k].same_defect /\ Key(decisions[k]) \in pairs =>
                              Q[Key(decisions[k])[1]] = Q[Key(decisions[k])[2]]
           Respects(Q, S) == \A i \in D : i \in S <=> Q[i] \in S
           J == Accepted(decisions, pairs)
<1>1. /\ IsRoots(parent, n, R) /\ R \in [D -> D]
      /\ \A k \in 1 .. m - 1 : Agreed(R, k)
      /\ \A S \in SUBSET D : ClosedUnder(S, J) => Respects(R, S)
  BY DEF LeadsTo, IsRoots
<1>2. \A k \in 1 .. m : k \in 1 .. m - 1 \/ k = m
  OBVIOUS
<1>3. CASE ~(d.same_defect /\ key \in pairs)
  <2>1. p = parent
    BY <1>3 DEF Decided
  <2>2. \A k \in 1 .. m : Agreed(R, k)
    BY <1>1, <1>2, <1>3
  <2>3. LeadsTo(p, n, decisions, pairs, m, R)
    BY <1>1, <2>1, <2>2 DEF LeadsTo
  <2> QED
    BY <2>3
<1>4. CASE d.same_defect /\ key \in pairs
  <2> DEFINE Q == Joining(R, n, key)
  <2>1. p = join(parent, key)
    BY <1>4 DEF Decided
  <2>2. key[1] \in D /\ key[2] \in D
    BY <1>4
  <2>3. IsRoots(p, n, Q)
    <3> HIDE DEF key
    <3> QED
      BY <1>1, <2>1, <2>2, RootsJoined
  <2>4. \A i \in D : Q[i] = IF R[i] = R[key[1]] THEN R[key[2]] ELSE R[i]
    BY DEF Joining
  <2> HIDE DEF Q, p
  <2>5. Q[key[1]] = Q[key[2]]
    BY <2>2, <2>4
  <2>6. \A k \in 1 .. m : Agreed(Q, k)
    <3> TAKE k \in 1 .. m
    <3>1. CASE k = m
      BY <2>5, <3>1
    <3>2. CASE k \in 1 .. m - 1
      <4> DEFINE e == Key(decisions[k])
      <4>1. SUFFICES ASSUME decisions[k].same_defect, e \in pairs
                     PROVE  Q[e[1]] = Q[e[2]]
        OBVIOUS
      <4>2. e[1] \in D /\ e[2] \in D
        BY <4>1
      <4>3. R[e[1]] = R[e[2]]
        BY <1>1, <3>2, <4>1
      <4> QED
        BY <2>4, <4>2, <4>3
    <3> QED
      BY <1>2, <3>1, <3>2
  <2>7. ASSUME NEW S \in SUBSET D, ClosedUnder(S, J) PROVE Respects(Q, S)
    <3>1. Respects(R, S)
      BY <1>1, <2>7
    <3>2. key \in J
      BY <1>4 DEF Accepted
    <3>3. key[1] \in S <=> key[2] \in S
      BY <2>7, <3>2 DEF ClosedUnder
    <3>4. R[key[1]] \in S <=> R[key[2]] \in S
      BY <2>2, <3>1, <3>3
    <3> QED
      BY <2>4, <3>1, <3>4
  <2>8. LeadsTo(p, n, decisions, pairs, m, Q)
    BY <2>3, <2>6, <2>7 DEF LeadsTo
  <2> QED
    BY <2>8 DEF p
<1> QED
  BY <1>3, <1>4

LEMMA ForestOfDecisions ==
    ASSUME NEW n, NEW pairs \in SUBSET ((1 .. n) \X (1 .. n)), NEW A,
           NEW decisions \in Seq(A)
    PROVE  \E R : LeadsTo(forest(n, decisions, pairs), n, decisions, pairs, Len(decisions), R)
<1> DEFINE N == Len(decisions)
           D == DOMAIN decisions
           own == [i \in 1 .. n |-> i]
           Op(parent, d) == Decided(parent, d, pairs)
           TT == {p \in [1 .. n -> 1 .. n] : \E R : IsRoots(p, n, R)}
           Eq(it) == it = [t \in SUBSET D |->
                             IF t = {} THEN own ELSE Op(it[t \ {Max(t)}], decisions[Max(t)])]
           iter == CHOOSE it : Eq(it)
           step == [i \in 1 .. N |-> [p \in TT |-> Op(p, decisions[i])]]
           T == [m \in 0 .. N |-> {p \in TT : \E R : LeadsTo(p, n, decisions, pairs, m, R)}]
<1>1. N \in Nat /\ D = 1 .. N
  OBVIOUS
<1>2. forest(n, decisions, pairs) = iter[D]
  BY DEF forest, FoldLeft, MapThenFoldSet, Decided
<1> HIDE DEF D
<1>3. ASSUME NEW i \in 1 .. N, NEW p \in TT
      PROVE  Op(p, decisions[i]) \in TT
  <2> DEFINE d == decisions[i]
             key == Key(d)
  <2>1. PICK R : IsRoots(p, n, R)
    OBVIOUS
  <2>2. CASE d.same_defect /\ key \in pairs
    <3>1. key[1] \in 1 .. n /\ key[2] \in 1 .. n
      BY <2>2
    <3>2. Op(p, d) = join(p, key)
      BY <2>2 DEF Decided
    <3> HIDE DEF key
    <3>3. IsRoots(join(p, key), n, Joining(R, n, key))
      BY <2>1, <3>1, RootsJoined
    <3>4. join(p, key) \in [1 .. n -> 1 .. n]
      BY <3>3 DEF IsRoots
    <3> QED
      BY <3>2, <3>3, <3>4
  <2>3. CASE ~(d.same_defect /\ key \in pairs)
    BY <2>3 DEF Decided
  <2> QED
    BY <2>2, <2>3
<1>4. own \in TT /\ LeadsTo(own, n, decisions, pairs, 0, own)
  <2>1. IsRoots(own, n, own)
    BY DEF IsRoots
  <2>2. own \in [1 .. n -> 1 .. n] /\ \A i \in 1 .. n : own[i] = i
    OBVIOUS
  <2> HIDE DEF own
  <2> QED
    BY <2>1, <2>2 DEF LeadsTo
<1> HIDE DEF TT, N, Op, own
<1>5. Eq(iter)
  <2>1. step \in [1 .. N -> [TT -> TT]]
    BY <1>3
  <2>2. PICK x \in [SUBSET (1 .. N) -> TT] : IsFold(x, N, own, step)
    <3> HIDE DEF step
    <3> QED
      BY <1>1, <1>4, <2>1, FoldExists, Zenon
  <2>3. ASSUME NEW t \in SUBSET (1 .. N), t # {}
        PROVE  step[Max(t)][x[t \ {Max(t)}]] = Op(x[t \ {Max(t)}], decisions[Max(t)])
    <3>1. Max(t) \in 1 .. N
      BY <1>1, <2>3, MaxOfPrefix
    <3>2. x[t \ {Max(t)}] \in TT
      OBVIOUS
    <3> QED
      BY <3>1, <3>2
  <2> HIDE DEF step
  <2>4. Eq(x)
    BY <1>1, <2>2, <2>3 DEF IsFold
  <2> QED
    BY <2>4
<1> HIDE DEF iter
<1>6. iter[{}] = own
  BY <1>5
<1>7. ASSUME NEW m \in 1 .. N
      PROVE  iter[1 .. m] = Op(iter[1 .. m - 1], decisions[m])
  <2>1. (1 .. m) \in SUBSET D
    BY <1>1
  <2>2. (1 .. m) # {} /\ Max(1 .. m) = m /\ (1 .. m) \ {m} = 1 .. m - 1
    <3>1. m \in Nat /\ m # 0
      BY <1>1
    <3> QED
      BY <3>1, InitialSegment
  <2>3. \A t \in SUBSET D :
            iter[t] = IF t = {} THEN own ELSE Op(iter[t \ {Max(t)}], decisions[Max(t)])
    BY <1>5
  <2>4. iter[1 .. m] = Op(iter[(1 .. m) \ {Max(1 .. m)}], decisions[Max(1 .. m)])
    BY <2>1, <2>2, <2>3
  <2> QED
    BY <2>2, <2>4
<1>8. iter[1 .. N] \in T[N]
  <2>1. iter[{}] \in T[0]
    BY <1>1, <1>4, <1>6
  <2>2. ASSUME NEW m \in 1 .. N, iter[1 .. m - 1] \in T[m - 1] PROVE iter[1 .. m] \in T[m]
    <3>1. m - 1 \in 0 .. N /\ m \in 0 .. N /\ m \in DOMAIN decisions
      BY <1>1 DEF D
    <3>2. iter[1 .. m - 1] \in TT
      BY <2>2, <3>1
    <3>3. PICK R : LeadsTo(iter[1 .. m - 1], n, decisions, pairs, m - 1, R)
      BY <2>2, <3>1
    <3>4. iter[1 .. m] \in TT
      BY <1>3, <1>7, <3>2
    <3>5. \E Q : LeadsTo(iter[1 .. m], n, decisions, pairs, m, Q)
      <4>1. PICK Q : LeadsTo(Decided(iter[1 .. m - 1], decisions[m], pairs), n,
                             decisions, pairs, m, Q)
        BY <3>1, <3>3, DecisionTaken
      <4>2. iter[1 .. m] = Decided(iter[1 .. m - 1], decisions[m], pairs)
        BY <1>7 DEF Op
      <4> QED
        BY <4>1, <4>2
    <3> QED
      BY <3>1, <3>4, <3>5
  <2> HIDE DEF T
  <2> QED
    BY <1>1, <2>1, <2>2, FoldAlongPrefixes
<1>9. N \in 0 .. N
  BY <1>1
<1>10. \E R : LeadsTo(iter[D], n, decisions, pairs, N, R)
  BY <1>1, <1>8, <1>9
<1> QED
  BY <1>2, <1>10 DEF N

\* The groups are what leads to the same root, one for each root.
GroupedBy(out, n, R, root) ==
    /\ root \in [1 .. Len(out) -> 1 .. n]
    /\ \A k, l \in 1 .. Len(out) : root[k] = root[l] => k = l
    /\ \A k \in 1 .. Len(out) :
          /\ out[k] \in Seq(1 .. n) \ {<<>>} /\ IsInjective(out[k])
          /\ \A i \in 1 .. n : i \in Range(out[k]) <=> R[i] = root[k]
    /\ \A i \in 1 .. n : \E k \in 1 .. Len(out) : R[i] = root[k]

LEMMA GroupsByRoot ==
    ASSUME NEW n \in Nat, NEW decisions, NEW pairs, NEW R,
           IsRoots(forest(n, decisions, pairs), n, R)
    PROVE  LET out == groups(n, decisions, pairs)
           IN  /\ out \in Seq(Seq(1 .. n) \ {<<>>}) /\ DOMAIN out = 1 .. Len(out)
               /\ \E root : GroupedBy(out, n, R, root)
<1> DEFINE parent == forest(n, decisions, pairs)
           index == [i \in 1 .. n |-> i]
           atR == {i \in DOMAIN index : parent[index[i]] = index[i]}
           root == Selected(index, atR)
           At(k) == {i \in DOMAIN index : find(parent, index[i]) = root[k]}
           out == [k \in DOMAIN root |-> Selected(index, At(k))]
           K == Len(root)
<1>1. groups(n, decisions, pairs) = out
  BY DEF groups, Filter
<1> HIDE DEF parent
<1>2. /\ index \in Seq(1 .. n) /\ Len(index) = n /\ DOMAIN index = 1 .. n
      /\ \A i \in 1 .. n : index[i] = i
  <2>1. index \in [1 .. n -> 1 .. n]
    OBVIOUS
  <2> QED
    BY <2>1
<1>3. /\ R \in [1 .. n -> 1 .. n]
      /\ \A i \in 1 .. n : R[i] = IF parent[i] = i THEN i ELSE R[parent[i]]
      /\ \A i \in 1 .. n : parent[R[i]] = R[i]
      /\ \A i \in 1 .. n : find(parent, i) = R[i]
  <2>1. IsRoots(parent, n, R)
    BY DEF parent
  <2>2. \A i \in 1 .. n : find(parent, i) = R[i]
    BY <2>1, RootIsFound
  <2> QED
    BY <2>1, <2>2 DEF IsRoots
<1> HIDE DEF index
<1>4. atR \in SUBSET (DOMAIN index) /\ \A i \in 1 .. n : i \in atR <=> parent[i] = i
  BY <1>2
<1> HIDE DEF atR
<1>5. root \in Seq(1 .. n) /\ K = Cardinality(atR) /\ K \in Nat /\ DOMAIN root = 1 .. K
  BY <1>2, <1>4, SelectionPicks
<1>6. PICK src : PickedAt(root, index, atR, src)
  BY <1>2, <1>4, SelectionPicks
<1>7. \A k \in 1 .. K : src[k] \in 1 .. n /\ root[k] = src[k] /\ parent[root[k]] = root[k]
  BY <1>2, <1>4, <1>6 DEF PickedAt
<1>8. /\ root \in [1 .. K -> 1 .. n]
      /\ \A k, l \in 1 .. K : root[k] = root[l] => k = l
      /\ \A i \in 1 .. n : \E k \in 1 .. K : R[i] = root[k]
  <2>1. root \in [1 .. K -> 1 .. n]
    BY <1>5
  <2>2. \A k, l \in 1 .. K : root[k] = root[l] => k = l
    BY <1>6, <1>7 DEF PickedAt, Picks
  <2>3. ASSUME NEW i \in 1 .. n PROVE \E k \in 1 .. K : R[i] = root[k]
    <3>1. R[i] \in atR
      BY <1>3, <1>4
    <3>2. PICK k \in 1 .. K : src[k] = R[i]
      BY <1>6, <3>1 DEF PickedAt
    <3> QED
      BY <1>7, <3>2
  <2> QED
    BY <2>1, <2>2, <2>3
<1> HIDE DEF root, K
<1>9. ASSUME NEW k \in 1 .. K
      PROVE  /\ out[k] \in Seq(1 .. n) \ {<<>>} /\ IsInjective(out[k])
             /\ \A i \in 1 .. n : i \in Range(out[k]) <=> R[i] = root[k]
  <2> DEFINE at == At(k)
             g == Selected(index, at)
  <2>1. out[k] = g
    BY <1>5
  <2>2. at \in SUBSET (DOMAIN index) /\ \A i \in 1 .. n : i \in at <=> R[i] = root[k]
    BY <1>2, <1>3
  <2> HIDE DEF at, At, out
  <2>3. g \in Seq(1 .. n) /\ Len(g) \in Nat /\ DOMAIN g = 1 .. Len(g)
    BY <1>2, <2>2, SelectionPicks
  <2>4. PICK s : PickedAt(g, index, at, s)
    BY <1>2, <2>2, SelectionPicks
  <2> HIDE DEF g
  <2>5. \A j \in 1 .. Len(g) : s[j] \in at /\ g[j] = s[j]
    BY <1>2, <2>2, <2>4 DEF PickedAt
  <2>6. \A i \in 1 .. n : i \in Range(g) <=> i \in at
    <3> TAKE i \in 1 .. n
    <3>1. ASSUME i \in Range(g) PROVE i \in at
      BY <2>3, <2>5, <3>1 DEF Range
    <3>2. ASSUME i \in at PROVE i \in Range(g)
      <4>1. PICK j \in 1 .. Len(g) : s[j] = i
        BY <2>4, <3>2 DEF PickedAt
      <4> QED
        BY <2>3, <2>5, <4>1 DEF Range
    <3> QED
      BY <3>1, <3>2
  <2>7. IsInjective(g)
    BY <2>3, <2>4, <2>5 DEF IsInjective, PickedAt, Picks
  <2>8. g # <<>>
    <3>1. root[k] \in 1 .. n /\ R[root[k]] = root[k]
      BY <1>3, <1>7, <1>8
    <3>2. root[k] \in Range(g)
      BY <2>2, <2>6, <3>1
    <3> QED
      BY <3>2 DEF Range
  <2> QED
    BY <2>1, <2>2, <2>3, <2>6, <2>7, <2>8
<1>10. out \in Seq(Seq(1 .. n) \ {<<>>}) /\ Len(out) = K /\ DOMAIN out = 1 .. K
  <2>1. DOMAIN out = 1 .. K
    BY <1>5
  <2>2. out \in [1 .. K -> Seq(1 .. n) \ {<<>>}]
    <3>1. out = [k \in 1 .. K |-> out[k]]
      BY <1>5
    <3> HIDE DEF out
    <3> QED
      BY <1>9, <3>1
  <2> HIDE DEF out
  <2> QED
    BY <1>5, <2>1, <2>2 DEF K
<1> HIDE DEF out
<1>11. GroupedBy(out, n, R, root)
  BY <1>8, <1>9, <1>10 DEF GroupedBy
<1> QED
  BY <1>1, <1>10, <1>11

\* m says of members what a merged finding says.
Merges(m, members) ==
    LET D == DOMAIN members IN
    /\ m.file \in {members[1].file, normalize_path(members[1].file)}
    /\ \E i \in D : m.line = members[i].line
    /\ \E i \in D : m.severity = members[i].severity
    /\ \A i \in D : members[i].severity <= m.severity
    /\ \E i \in D : m.confidence = members[i].confidence
    /\ \A i \in D : members[i].confidence <= m.confidence
    /\ IsInjective(m.sources)
    /\ Range(m.sources) = UNION {Range(members[i].sources) : i \in D}
    /\ m.raised = UNION {members[i].raised : i \in D}
    /\ Len(members) = 1 => m = members[1]

LEMMA MergedGroup ==
    ASSUME NEW R, NEW members \in Seq(Finding(R)), members # <<>>,
           \A i \in DOMAIN members : IsInjective(members[i].sources)
    PROVE  /\ merge_group(members) \in Finding(R)
           /\ Merges(merge_group(members), members)
           /\ merge(members) \in Finding(R)
           /\ Merges(merge(members), members)
           /\ merge(members).file = members[1].file
<1> DEFINE m == merge(members)
           g == merge_group(members)
           D == DOMAIN members
           Says(f) ==
               /\ \E i \in D : f.line = members[i].line
               /\ \E i \in D : f.severity = members[i].severity
               /\ \A i \in D : members[i].severity <= f.severity
               /\ \E i \in D : f.confidence = members[i].confidence
               /\ \A i \in D : members[i].confidence <= f.confidence
               /\ IsInjective(f.sources)
               /\ Range(f.sources) = UNION {Range(members[i].sources) : i \in D}
               /\ f.raised = UNION {members[i].raised : i \in D}
               /\ Len(members) = 1 => f = members[1]
<1>1. m \in Finding(R) /\ m.file = members[1].file /\ Says(m)
  BY MergedFinding
<1>2. Merges(m, members)
  BY <1>1 DEF Merges
<1>3. CASE Len(members) = 1
  <2>1. g = m
    BY <1>3 DEF merge_group, merge
  <2> QED
    BY <1>1, <1>2, <2>1
<1>4. CASE Len(members) # 1
  <2>1. g = [m EXCEPT !.file = normalize_path(@)]
    BY <1>4 DEF merge_group
  <2>2. m.file \in Path /\ normalize_path(m.file) \in Path
    BY <1>1, FindingFields, PathAssumption
  <2> HIDE DEF m, g, Says
  <2>3. /\ g \in Finding(R) /\ g.file = normalize_path(m.file) /\ g.line = m.line
        /\ g.severity = m.severity /\ g.confidence = m.confidence
        /\ g.sources = m.sources /\ g.raised = m.raised
    BY <1>1, <2>1, <2>2 DEF Finding
  <2>4. g.file = normalize_path(members[1].file)
    BY <1>1, <2>3
  <2>5. Says(g)
    BY <1>1, <1>4, <2>3 DEF Says
  <2>6. Merges(g, members)
    BY <2>4, <2>5 DEF Merges, Says
  <2> QED
    BY <1>1, <1>2, <2>3, <2>6 DEF m, g
<1> QED
  BY <1>3, <1>4

-----------------------------------------------------------------------------
(* What becomes of each finding when some are merged.                      *)

\* g is merged from members of the pool, all of one file.
MadeOf(g, members, pool) ==
    /\ members \in Seq(pool) \ {<<>>}
    /\ Merges(g, members)
    /\ \A m \in DOMAIN members :
          normalize_path(members[m].file) = normalize_path(members[1].file)

\* Every finding goes into one of out, which stands for what they stand for.
Accounts(out, findings, row) ==
    /\ row \in [DOMAIN findings -> DOMAIN out]
    /\ \A k \in DOMAIN out :
          /\ \E i \in DOMAIN findings : row[i] = k
          /\ out[k].raised = UNION {findings[i].raised : i \in {i \in DOMAIN findings : row[i] = k}}

\* A finding goes into one of its file.
FiledBy(out, findings, row) ==
    \A i \in DOMAIN findings : out[row[i]].file = normalize_path(findings[i].file)

LEMMA CollapsedFindings ==
    ASSUME NEW R, NEW findings \in Seq(Finding(R)),
           \A i \in DOMAIN findings : IsInjective(findings[i].sources)
    PROVE  LET out == collapse(findings)
               pool == {Named(findings[i]) : i \in DOMAIN findings}
           IN  /\ out \in Seq(Finding(R))
               /\ \A k \in DOMAIN out : \E members : MadeOf(out[k], members, pool)
               /\ \E row : Accounts(out, findings, row) /\ FiledBy(out, findings, row)
<1> DEFINE out == collapse(findings)
           D == DOMAIN findings
           N == Len(findings)
           pool == {Named(findings[i]) : i \in D}
<1>1. N \in Nat /\ D = 1 .. N /\ \A i \in D : findings[i] \in Finding(R)
  OBVIOUS
<1>2. PICK c \in Clusters(R) : /\ \A k \in DOMAIN c : Uniform(c[k])
                               /\ Clustered(c, findings, N)
                               /\ out = [k \in DOMAIN c |-> merge(c[k])]
  BY CollapseClusters
<1>3. PICK row \in [1 .. N -> Nat], col \in [1 .. N -> Nat] : PlacedAt(c, findings, N, row, col)
  BY <1>2 DEF Clustered
<1> HIDE DEF out
<1>4. DOMAIN out = DOMAIN c /\ \A k \in DOMAIN c : out[k] = merge(c[k])
  BY <1>2
<1>5. \A i \in D : /\ Named(findings[i]) \in Finding(R)
                   /\ Named(findings[i]).file = normalize_path(findings[i].file)
                   /\ Named(findings[i]).sources = findings[i].sources
                   /\ Named(findings[i]).raised = findings[i].raised
  BY <1>1, NamedFinding
<1>6. ASSUME NEW k \in DOMAIN c
      PROVE  /\ c[k] \in Seq(Finding(R)) /\ c[k] # <<>> /\ 1 \in DOMAIN c[k]
             /\ \A m \in DOMAIN c[k] : \E i \in D : /\ row[i] = k /\ col[i] = m
                                                    /\ c[k][m] = Named(findings[i])
             /\ \A i \in D : row[i] = k => /\ col[i] \in DOMAIN c[k]
                                           /\ c[k][col[i]] = Named(findings[i])
  <2>1. c[k] \in Seq(Finding(R)) \ {<<>>}
    BY DEF Clusters
  <2>2. 1 \in DOMAIN c[k]
    BY <2>1
  <2>3. \A i \in D : row[i] = k => /\ col[i] \in DOMAIN c[k]
                                   /\ c[k][col[i]] = Named(findings[i])
    BY <1>1, <1>3 DEF PlacedAt
  <2>4. ASSUME NEW m \in DOMAIN c[k]
        PROVE  \E i \in D : row[i] = k /\ col[i] = m /\ c[k][m] = Named(findings[i])
    <3>1. PICK i \in 1 .. N : row[i] = k /\ col[i] = m
      BY <1>3 DEF PlacedAt
    <3> QED
      BY <1>1, <2>3, <3>1
  <2> QED
    BY <2>1, <2>2, <2>3, <2>4
<1>7. ASSUME NEW k \in DOMAIN c
      PROVE  /\ out[k] \in Finding(R)
             /\ Merges(out[k], c[k])
             /\ out[k].file = c[k][1].file
             /\ c[k] \in Seq(pool)
  <2>1. \A m \in DOMAIN c[k] : IsInjective(c[k][m].sources)
    BY <1>5, <1>6
  <2>2. /\ merge(c[k]) \in Finding(R) /\ Merges(merge(c[k]), c[k])
        /\ merge(c[k]).file = c[k][1].file
    BY <1>6, <2>1, MergedGroup
  <2>3. c[k] \in Seq(pool)
    <3>1. \A m \in DOMAIN c[k] : c[k][m] \in pool
      BY <1>6
    <3> HIDE DEF pool
    <3>2. c[k] \in [1 .. Len(c[k]) -> pool] /\ Len(c[k]) \in Nat
      BY <1>6, <3>1
    <3> QED
      BY <3>2
  <2> QED
    BY <1>4, <2>2, <2>3
<1>8. ASSUME NEW k \in DOMAIN c PROVE MadeOf(out[k], c[k], pool)
  <2>1. \A m \in DOMAIN c[k] : c[k][m].file = c[k][1].file
    BY <1>2 DEF Uniform
  <2> QED
    BY <1>6, <1>7, <2>1 DEF MadeOf
<1>9. out \in Seq(Finding(R))
  <2>1. DOMAIN c = 1 .. Len(c) /\ Len(c) \in Nat
    BY DEF Clusters
  <2>2. out \in [1 .. Len(c) -> Finding(R)]
    BY <1>2, <1>4, <1>7, <2>1
  <2> QED
    BY <2>1, <2>2
<1>10. Accounts(out, findings, row)
  <2>1. row \in [D -> DOMAIN out]
    BY <1>1, <1>3, <1>4 DEF PlacedAt
  <2>2. ASSUME NEW k \in DOMAIN out
        PROVE  /\ \E i \in D : row[i] = k
               /\ out[k].raised = UNION {findings[i].raised : i \in {i \in D : row[i] = k}}
    <3>1. \E i \in D : row[i] = k
      BY <1>4, <1>6
    <3>2. out[k].raised = UNION {c[k][m].raised : m \in DOMAIN c[k]}
      BY <1>4, <1>7 DEF Merges
    <3>3. ASSUME NEW r PROVE (\E m \in DOMAIN c[k] : r \in c[k][m].raised)
                                <=> \E i \in {i \in D : row[i] = k} : r \in findings[i].raised
      <4>1. ASSUME NEW m \in DOMAIN c[k], r \in c[k][m].raised
            PROVE  \E i \in {i \in D : row[i] = k} : r \in findings[i].raised
        <5>1. PICK i \in D : row[i] = k /\ c[k][m] = Named(findings[i])
          BY <1>4, <1>6
        <5> QED
          BY <1>5, <4>1, <5>1
      <4>2. ASSUME NEW i \in D, row[i] = k, r \in findings[i].raised
            PROVE  \E m \in DOMAIN c[k] : r \in c[k][m].raised
        <5>1. col[i] \in DOMAIN c[k] /\ c[k][col[i]] = Named(findings[i])
          BY <1>4, <1>6, <4>2
        <5>2. Named(findings[i]).raised = findings[i].raised
          BY <1>5
        <5> QED
          BY <4>2, <5>1, <5>2
      <4> QED
        BY <4>1, <4>2
    <3> QED
      BY <3>1, <3>2, <3>3, ZenonT(60)
  <2> QED
    BY <2>1, <2>2 DEF Accounts
<1>11. FiledBy(out, findings, row)
  <2> SUFFICES ASSUME NEW i \in D PROVE out[row[i]].file = normalize_path(findings[i].file)
    BY DEF FiledBy
  <2>1. row[i] \in DOMAIN c
    BY <1>1, <1>3 DEF PlacedAt
  <2>2. col[i] \in DOMAIN c[row[i]] /\ c[row[i]][col[i]] = Named(findings[i])
    BY <1>6, <2>1
  <2>3. c[row[i]][col[i]].file = c[row[i]][1].file
    BY <1>2, <2>1, <2>2 DEF Uniform
  <2> QED
    BY <1>5, <1>7, <2>1, <2>2, <2>3
<1> QED
  BY <1>4, <1>8, <1>9, <1>10, <1>11 DEF out

\* The pairs that are asked about are of one file each.
LEMMA PairsOfOneFile ==
    ASSUME NEW findings
    PROVE  /\ candidate_pairs(findings) \in SUBSET ((DOMAIN findings) \X (DOMAIN findings))
           /\ \A p \in candidate_pairs(findings) :
                 normalize_path(findings[p[1]].file) = normalize_path(findings[p[2]].file)
BY DEF candidate_pairs, Candidate

LEMMA MergedFindings ==
    ASSUME NEW R, NEW findings \in Seq(Finding(R)),
           \A i \in DOMAIN findings : IsInjective(findings[i].sources),
           NEW T, NEW decisions \in Seq(T)
    PROVE  LET out == apply_decisions(findings, decisions, candidate_pairs(findings))
           IN  /\ out \in Seq(Finding(R))
               /\ \A k \in DOMAIN out : \E members : MadeOf(out[k], members, Range(findings))
               /\ \E row : Accounts(out, findings, row)
<1> DEFINE n == Len(findings)
           D == DOMAIN findings
           pairs == candidate_pairs(findings)
           grouped == groups(n, decisions, pairs)
           Of(g) == [i \in DOMAIN g |-> findings[g[i]]]
           out == [k \in DOMAIN grouped |-> merge_group(Of(grouped[k]))]
           File(i) == normalize_path(findings[i].file)
<1>1. n \in Nat /\ D = 1 .. n /\ \A i \in D : findings[i] \in Finding(R)
  OBVIOUS
<1>2. apply_decisions(findings, decisions, pairs) = out
  BY DEF apply_decisions
<1>3. /\ pairs \in SUBSET ((1 .. n) \X (1 .. n))
      /\ \A p \in pairs : File(p[1]) = File(p[2])
  BY <1>1, PairsOfOneFile
<1> HIDE DEF pairs, File
<1>4. PICK root : LeadsTo(forest(n, decisions, pairs), n, decisions, pairs, Len(decisions), root)
  BY <1>3, ForestOfDecisions
<1>5. IsRoots(forest(n, decisions, pairs), n, root)
  BY <1>4 DEF LeadsTo
<1>6. \A i \in 1 .. n : root[i] \in 1 .. n /\ File(root[i]) = File(i)
  <2> TAKE i \in 1 .. n
  <2> DEFINE S == {j \in 1 .. n : File(j) = File(i)}
  <2>1. ClosedUnder(S, Accepted(decisions, pairs))
    BY <1>3 DEF ClosedUnder, Accepted
  <2>2. S \in SUBSET (1 .. n) /\ i \in S
    OBVIOUS
  <2> HIDE DEF S
  <2>3. root[i] \in S
    BY <1>4, <2>1, <2>2 DEF LeadsTo
  <2> QED
    BY <1>5, <2>3 DEF IsRoots, S
<1>7. /\ grouped \in Seq(Seq(1 .. n) \ {<<>>}) /\ DOMAIN grouped = 1 .. Len(grouped)
      /\ \E r : GroupedBy(grouped, n, root, r)
  BY <1>1, <1>5, GroupsByRoot
<1>8. PICK r : GroupedBy(grouped, n, root, r)
  BY <1>7
<1> HIDE DEF grouped
<1>9. ASSUME NEW k \in DOMAIN grouped
      PROVE  /\ Of(grouped[k]) \in Seq(Range(findings)) /\ Of(grouped[k]) # <<>>
             /\ Of(grouped[k]) \in Seq(Finding(R))
             /\ DOMAIN Of(grouped[k]) = DOMAIN grouped[k]
             /\ \A m \in DOMAIN grouped[k] :
                   /\ grouped[k][m] \in 1 .. n /\ root[grouped[k][m]] = r[k]
                   /\ Of(grouped[k])[m] = findings[grouped[k][m]]
  <2> DEFINE g == grouped[k]
             ms == Of(g)
  <2>1. g \in Seq(1 .. n) /\ g # <<>> /\ Len(g) \in Nat /\ DOMAIN g = 1 .. Len(g)
        /\ \A i \in 1 .. n : i \in Range(g) <=> root[i] = r[k]
    <3>1. k \in 1 .. Len(grouped)
      BY <1>7
    <3>2. /\ g \in Seq(1 .. n) \ {<<>>}
          /\ \A i \in 1 .. n : i \in Range(g) <=> root[i] = r[k]
      BY <1>8, <3>1 DEF GroupedBy
    <3> HIDE DEF g
    <3> QED
      BY <3>2
  <2>2. \A m \in DOMAIN g : g[m] \in 1 .. n /\ g[m] \in Range(g)
    BY <2>1 DEF Range
  <2>3. ms = [m \in DOMAIN g |-> findings[g[m]]]
    OBVIOUS
  <2> HIDE DEF g, ms, Of
  <2>4. \A m \in DOMAIN g : /\ ms[m] = findings[g[m]] /\ ms[m] \in Range(findings)
                            /\ ms[m] \in Finding(R) /\ root[g[m]] = r[k]
    BY <1>1, <2>1, <2>2, <2>3 DEF Range
  <2>5. /\ ms \in [1 .. Len(g) -> Range(findings)] /\ ms \in [1 .. Len(g) -> Finding(R)]
        /\ Len(g) # 0 /\ DOMAIN ms = DOMAIN g
    BY <2>1, <2>3, <2>4
  <2>6. ms \in Seq(Range(findings)) /\ ms \in Seq(Finding(R)) /\ ms # <<>>
    <3>1. ms \in Seq(Range(findings))
      BY <2>1, <2>5
    <3>2. ms \in Seq(Finding(R))
      BY <2>1, <2>5
    <3>3. 1 \in DOMAIN ms
      BY <2>1, <2>5
    <3> QED
      BY <3>1, <3>2, <3>3
  <2> QED
    BY <2>2, <2>4, <2>5, <2>6 DEF ms, g
<1>10. DOMAIN out = DOMAIN grouped /\ \A k \in DOMAIN grouped : out[k] = merge_group(Of(grouped[k]))
  OBVIOUS
<1>11. ASSUME NEW k \in DOMAIN grouped
       PROVE  /\ out[k] \in Finding(R) /\ Merges(out[k], Of(grouped[k]))
              /\ MadeOf(out[k], Of(grouped[k]), Range(findings))
  <2> DEFINE ms == Of(grouped[k])
  <2> HIDE DEF Of, out
  <2>1. /\ ms \in Seq(Range(findings)) /\ ms # <<>> /\ ms \in Seq(Finding(R))
        /\ 1 \in DOMAIN ms
        /\ \A m \in DOMAIN ms : \E i \in 1 .. n : root[i] = r[k] /\ ms[m] = findings[i]
    <3>1. ms \in Seq(Range(findings)) /\ ms # <<>> /\ ms \in Seq(Finding(R))
          /\ \A m \in DOMAIN ms : \E i \in 1 .. n : root[i] = r[k] /\ ms[m] = findings[i]
      BY <1>9
    <3> HIDE DEF ms
    <3>2. 1 \in DOMAIN ms
      BY <3>1
    <3> QED
      BY <3>1, <3>2
  <2>2. out[k] = merge_group(ms)
    BY <1>10
  <2> HIDE DEF ms
  <2>3. \A m \in DOMAIN ms : IsInjective(ms[m].sources)
    BY <1>1, <2>1
  <2>4. merge_group(ms) \in Finding(R) /\ Merges(merge_group(ms), ms)
    BY <2>1, <2>3, MergedGroup
  <2>5. \A m \in DOMAIN ms : normalize_path(ms[m].file) = File(r[k])
    BY <1>6, <2>1 DEF File
  <2>6. MadeOf(out[k], ms, Range(findings))
    BY <2>1, <2>2, <2>4, <2>5 DEF MadeOf
  <2> QED
    BY <2>2, <2>4, <2>6 DEF ms
<1> HIDE DEF Of, out
<1>12. out \in Seq(Finding(R))
  <2>1. out \in [1 .. Len(grouped) -> Finding(R)] /\ Len(grouped) \in Nat
    BY <1>7, <1>10, <1>11 DEF out
  <2> QED
    BY <2>1
<1> DEFINE row == [i \in D |-> CHOOSE k \in DOMAIN grouped : root[i] = r[k]]
<1>13. \A i \in D : row[i] \in DOMAIN grouped /\ root[i] = r[row[i]]
  <2> TAKE i \in D
  <2>1. \E k \in DOMAIN grouped : root[i] = r[k]
    BY <1>1, <1>7, <1>8 DEF GroupedBy
  <2> QED
    BY <2>1
<1>14. \A i \in D, k \in DOMAIN grouped : row[i] = k <=> root[i] = r[k]
  BY <1>7, <1>8, <1>13 DEF GroupedBy
<1>15. row \in [D -> DOMAIN out]
  BY <1>10, <1>13
<1> HIDE DEF row
<1>16. ASSUME NEW k \in DOMAIN grouped
       PROVE  /\ \E i \in D : row[i] = k
              /\ out[k].raised = UNION {findings[i].raised : i \in {i \in D : row[i] = k}}
  <2> DEFINE g == grouped[k]
             ms == Of(g)
  <2>1. /\ ms # <<>> /\ ms \in Seq(Finding(R)) /\ DOMAIN ms = DOMAIN g
        /\ \A m \in DOMAIN g : g[m] \in 1 .. n /\ root[g[m]] = r[k] /\ ms[m] = findings[g[m]]
    BY <1>9
  <2>2. \A i \in 1 .. n : root[i] = r[k] => \E m \in DOMAIN g : g[m] = i
    <3>1. \A i \in 1 .. n : i \in Range(g) <=> root[i] = r[k]
      BY <1>7, <1>8 DEF GroupedBy
    <3> QED
      BY <3>1 DEF Range
  <2>3. out[k].raised = UNION {ms[m].raised : m \in DOMAIN ms}
    BY <1>11 DEF Merges
  <2> HIDE DEF g, ms
  <2>4. 1 \in DOMAIN g
    BY <2>1
  <2>5. \E i \in D : row[i] = k
    BY <1>1, <1>14, <2>1, <2>4
  <2>6. \A m \in DOMAIN g : row[g[m]] = k /\ g[m] \in D
    BY <1>1, <1>14, <2>1
  <2>7. \A i \in D : row[i] = k => \E m \in DOMAIN g : g[m] = i
    BY <1>1, <1>14, <2>2
  <2>8. ASSUME NEW x PROVE (\E m \in DOMAIN ms : x \in ms[m].raised)
                              <=> \E i \in {i \in D : row[i] = k} : x \in findings[i].raised
    BY <2>1, <2>6, <2>7
  <2> QED
    BY <2>3, <2>5, <2>8, ZenonT(60)
<1>17. Accounts(out, findings, row)
  BY <1>10, <1>15, <1>16 DEF Accounts
<1>18. \A k \in DOMAIN out : \E members : MadeOf(out[k], members, Range(findings))
  BY <1>10, <1>11
<1> QED
  BY <1>2, <1>12, <1>17, <1>18 DEF pairs

-----------------------------------------------------------------------------
(* The budget.                                                             *)

LEMMA PathsOfSelected ==
    ASSUME NEW files \in Seq(Entry), NEW at \in SUBSET (DOMAIN files)
    PROVE  /\ Selected(files, at) \in Seq(Entry)
           /\ Paths(Selected(files, at)) \subseteq Paths(files)
<1> DEFINE s == Selected(files, at)
<1>1. s \in Seq(Entry) /\ DOMAIN s = 1 .. Len(s)
  BY SelectionPicks
<1>2. PICK src : PickedAt(s, files, at, src)
  BY SelectionPicks
<1> HIDE DEF s
<1>3. \A k \in DOMAIN s : src[k] \in DOMAIN files /\ s[k] = files[src[k]]
  BY <1>1, <1>2 DEF PickedAt
<1> QED
  BY <1>1, <1>3 DEF Paths, s

LEMMA PathsOfSorted ==
    ASSUME NEW files \in Seq(Entry), NEW L, WeaklyOrders(L, DOMAIN files)
    PROVE  LET s == Arranged(files, Stable(L, DOMAIN files))
           IN  s \in Seq(Entry) /\ Len(s) = Len(files) /\ Paths(s) = Paths(files)
<1> DEFINE s == Arranged(files, Stable(L, DOMAIN files))
<1>1. s \in Seq(Entry) /\ Len(s) = Len(files)
  BY SortedElements
<1>2. PICK src : SortedAt(s, files, L, src)
  BY SortedElements
<1> HIDE DEF s
<1>3. DOMAIN s = 1 .. Len(files) /\ DOMAIN files = 1 .. Len(files)
  BY <1>1
<1>4. /\ \A k \in DOMAIN s : src[k] \in DOMAIN files /\ s[k] = files[src[k]]
      /\ \A i \in DOMAIN files : \E k \in DOMAIN s : src[k] = i
  BY <1>2, <1>3 DEF SortedAt, Picks
<1>5. ASSUME NEW x PROVE x \in Paths(s) <=> x \in Paths(files)
  <2>1. ASSUME x \in Paths(s) PROVE x \in Paths(files)
    BY <1>4, <2>1 DEF Paths
  <2>2. ASSUME x \in Paths(files) PROVE x \in Paths(s)
    <3>1. PICK i \in DOMAIN files : files[i].path = x
      BY <2>2 DEF Paths
    <3>2. PICK k \in DOMAIN s : src[k] = i
      BY <1>4
    <3> QED
      BY <1>4, <3>1, <3>2 DEF Paths
  <2> QED
    BY <2>1, <2>2
<1> QED
  BY <1>1, <1>5 DEF s

LEMMA PathsOfPart ==
    ASSUME NEW files \in Seq(Entry), NEW m \in Nat, m # 0, NEW n \in Nat, n <= Len(files)
    PROVE  /\ SubSeq(files, m, n) \in Seq(Entry)
           /\ Paths(SubSeq(files, m, n)) \subseteq Paths(files)
<1> DEFINE s == SubSeq(files, m, n)
<1>1. s \in Seq(Entry)
  OBVIOUS
<1>2. \A k \in DOMAIN s : \E i \in DOMAIN files : s[k] = files[i]
  <2> TAKE k \in DOMAIN s
  <2>1. s[k] = files[k + m - 1] /\ k + m - 1 \in DOMAIN files
    OBVIOUS
  <2> QED
    BY <2>1
<1> QED
  BY <1>1, <1>2 DEF Paths

\* The lines and the tokens of a file are numbers.
LEMMA LinesAreCounted ==
    ASSUME NEW file \in Entry, NEW n \in 0 .. Len(file.hunks)
    PROVE  LinesUpTo(file.hunks, n) \in Nat
<1> DEFINE T == [added : LineSet, context : LineSet, removed : Nat]
           h == file.hunks
           count == [i \in 1 .. n |-> line_count(h[i])]
<1>1. h \in Seq(T)
  BY DEF Entry, Hunks
<1>2. n \in Nat /\ \A i \in 1 .. n : i \in DOMAIN h
  BY <1>1
<1> HIDE DEF h
<1>3. ASSUME NEW i \in 1 .. n PROVE line_count(h[i]) \in Nat
  <2>1. h[i] \in T
    <3> HIDE DEF T
    <3> QED
      BY <1>1, <1>2
  <2>2. /\ IsFiniteSet(h[i].added) /\ IsFiniteSet(h[i].context) /\ h[i].removed \in Nat
    BY <2>1 DEF LineSet
  <2>3. Cardinality(h[i].added) \in Nat /\ Cardinality(h[i].context) \in Nat
    BY <2>2, FS_CardinalityType
  <2> QED
    BY <2>2, <2>3 DEF line_count
<1>4. count \in [1 .. n -> Nat]
  BY <1>3
<1>5. Total(count) \in Nat
  <2> HIDE DEF count
  <2> QED
    BY <1>2, <1>4, TotalOfNumbers
<1> QED
  BY <1>5 DEF LinesUpTo, h

\* Truncated, a file is a file of that name.
LEMMA TruncatedEntry ==
    ASSUME NEW file \in Entry, NEW limit
    PROVE  truncated_to(file, limit) \in Entry /\ truncated_to(file, limit).path = file.path
<1> DEFINE h == file.hunks
           may == {n \in 0 .. Len(h) : \A k \in 2 .. n : LinesUpTo(h, k) <= limit}
           keep == Max(may)
           o == file.omitted + Len(h) - keep
           part == SubSeq(h, 1, keep)
<1>1. h \in Hunks /\ Len(h) \in Nat /\ file.omitted \in Nat
  BY DEF Entry, Hunks
<1>2. truncated_to(file, limit) = [file EXCEPT !.hunks = part, !.omitted = o]
  BY DEF truncated_to
<1> HIDE DEF h
<1>3. keep \in 0 .. Len(h)
  <2>1. may \in SUBSET Nat /\ 0 \in may /\ \A x \in may : x <= Len(h)
    BY <1>1
  <2>2. keep \in may
    <3> HIDE DEF may
    <3> QED
      BY <1>1, <2>1, MaxOfBounded
  <2> QED
    BY <2>2
<1> HIDE DEF keep
<1>4. part \in Hunks /\ o \in Nat
  <2>1. part \in Hunks
    <3> DEFINE T == [added : LineSet, context : LineSet, removed : Nat]
    <3>1. h \in Seq(T)
      BY <1>1 DEF Hunks
    <3> HIDE DEF T
    <3>2. part \in Seq(T)
      BY <1>1, <1>3, <3>1
    <3> QED
      BY <3>2 DEF Hunks, T
  <2> QED
    BY <1>1, <1>3, <2>1
<1> HIDE DEF part, o
<1> QED
  BY <1>2, <1>4 DEF Entry

\* Tokens and paths order the files of a diff.
LEMMA TokensOrder ==
    ASSUME NEW files \in Seq(Entry)
    PROVE  /\ WeaklyOrders({p \in (DOMAIN files) \X (DOMAIN files) :
                               Tokens(files[p[1]]) > Tokens(files[p[2]])}, DOMAIN files)
           /\ WeaklyOrders({p \in (DOMAIN files) \X (DOMAIN files) :
                               PathOrder[files[p[1]].path] < PathOrder[files[p[2]].path]},
                           DOMAIN files)
<1> DEFINE D == DOMAIN files
           tokens == [i \in D |-> Tokens(files[i])]
           place == [i \in D |-> PathOrder[files[i].path]]
           L == {p \in D \X D : Tokens(files[p[1]]) > Tokens(files[p[2]])}
           P == {p \in D \X D : PathOrder[files[p[1]].path] < PathOrder[files[p[2]].path]}
<1>1. ASSUME NEW i \in D PROVE tokens[i] \in Nat /\ place[i] \in Nat
  <2>1. files[i] \in Entry
    OBVIOUS
  <2>2. Len(files[i].hunks) \in 0 .. Len(files[i].hunks) /\ files[i].path \in Path
    BY <2>1 DEF Entry, Hunks
  <2>3. Tokens(files[i]) \in Nat
    BY <2>1, <2>2, LinesAreCounted DEF Tokens
  <2> QED
    BY <2>2, <2>3, PathAssumption
<1>2. /\ \A i, j \in D : <<i, j>> \in L <=> tokens[i] > tokens[j]
      /\ \A i, j \in D : <<i, j>> \in P <=> place[i] < place[j]
  OBVIOUS
<1> HIDE DEF tokens, place, L, P
<1>3. ASSUME NEW i \in D, NEW j \in D, NEW k \in D
      PROVE  /\ <<i, i>> \notin L
             /\ <<i, j>> \in L /\ <<j, k>> \in L => <<i, k>> \in L
             /\ <<i, k>> \in L => <<i, j>> \in L \/ <<j, k>> \in L
             /\ <<i, i>> \notin P
             /\ <<i, j>> \in P /\ <<j, k>> \in P => <<i, k>> \in P
             /\ <<i, k>> \in P => <<i, j>> \in P \/ <<j, k>> \in P
  <2>1. /\ tokens[i] \in Nat /\ tokens[j] \in Nat /\ tokens[k] \in Nat
        /\ place[i] \in Nat /\ place[j] \in Nat /\ place[k] \in Nat
    BY <1>1
  <2>2. /\ <<i, i>> \in L <=> tokens[i] > tokens[i]
        /\ <<i, j>> \in L <=> tokens[i] > tokens[j]
        /\ <<j, k>> \in L <=> tokens[j] > tokens[k]
        /\ <<i, k>> \in L <=> tokens[i] > tokens[k]
    BY <1>2
  <2>3. /\ <<i, i>> \in P <=> place[i] < place[i]
        /\ <<i, j>> \in P <=> place[i] < place[j]
        /\ <<j, k>> \in P <=> place[j] < place[k]
        /\ <<i, k>> \in P <=> place[i] < place[k]
    BY <1>2
  <2> DEFINE ti == tokens[i]
             tj == tokens[j]
             tk == tokens[k]
             pi == place[i]
             pj == place[j]
             pk == place[k]
  <2>4. /\ ti \in Nat /\ tj \in Nat /\ tk \in Nat
        /\ pi \in Nat /\ pj \in Nat /\ pk \in Nat
    BY <2>1
  <2>5. /\ <<i, i>> \in L <=> ti > ti
        /\ <<i, j>> \in L <=> ti > tj
        /\ <<j, k>> \in L <=> tj > tk
        /\ <<i, k>> \in L <=> ti > tk
    BY <2>2
  <2>6. /\ <<i, i>> \in P <=> pi < pi
        /\ <<i, j>> \in P <=> pi < pj
        /\ <<j, k>> \in P <=> pj < pk
        /\ <<i, k>> \in P <=> pi < pk
    BY <2>3
  <2> HIDE DEF ti, tj, tk, pi, pj, pk
  <2> QED
    BY <2>4, <2>5, <2>6
<1> HIDE DEF D
<1>4. WeaklyOrders(L, D)
  BY <1>3, Zenon DEF WeaklyOrders
<1>5. WeaklyOrders(P, D)
  BY <1>3, Zenon DEF WeaklyOrders
<1> QED
  BY <1>4, <1>5 DEF L, P, D

\* What is reviewed and what is dropped to fit are files of the input.
LEMMA FittedFiles ==
    ASSUME NEW files \in Seq(Entry), files # <<>>
    PROVE  LET fit == fit_to_budget(files)
           IN  /\ fit.files \in Seq(Entry) /\ fit.dropped \in Seq(Entry)
               /\ Paths(fit.files) \cup Paths(fit.dropped) \subseteq Paths(files)
<1> DEFINE D == DOMAIN files
           N == Len(files)
           L == {p \in D \X D : Tokens(files[p[1]]) > Tokens(files[p[2]])}
           by_size == Arranged(files, Stable(L, D))
           may == {k \in 0 .. N - 1 :
                     \/ k = N - 1
                     \/ TokensOf(SubSeq(by_size, k + 1, N)) <= MaxPromptTokens}
           n == Min(may)
<1>1. N \in Nat /\ N # 0 /\ D = 1 .. N
  OBVIOUS
<1>2. SortedBy(files, LAMBDA f, g : Tokens(f) > Tokens(g)) = by_size
  <2>1. Stable(L, D) = {p \in D \X D : \/ Tokens(files[p[1]]) > Tokens(files[p[2]])
                                       \/ p[1] < p[2] /\ ~(Tokens(files[p[2]]) > Tokens(files[p[1]]))}
    <3>1. \A p \in D \X D : /\ p \in L <=> Tokens(files[p[1]]) > Tokens(files[p[2]])
                            /\ <<p[2], p[1]>> \in L <=> Tokens(files[p[2]]) > Tokens(files[p[1]])
      OBVIOUS
    <3> HIDE DEF L
    <3> QED
      BY <3>1 DEF Stable
  <2> QED
    BY <2>1 DEF SortedBy
<1>3. WeaklyOrders(L, D)
  BY TokensOrder
<1>4. by_size \in Seq(Entry) /\ Len(by_size) = N /\ Paths(by_size) = Paths(files)
  <2> HIDE DEF L
  <2> QED
    BY <1>3, PathsOfSorted
<1>5. fit_to_budget(files) = [files |-> SubSeq(by_size, n + 1, N), dropped |-> SubSeq(by_size, 1, n)]
  <2> HIDE DEF by_size, L, D
  <2> QED
    BY <1>2 DEF fit_to_budget
<1> HIDE DEF by_size, L
<1>6. n \in 0 .. N - 1
  <2>1. may \in SUBSET Nat /\ may # {}
    <3>1. N - 1 \in may
      BY <1>1
    <3>2. may \in SUBSET Nat
      BY <1>1
    <3> QED
      BY <3>1, <3>2
  <2> HIDE DEF may
  <2>2. n \in may
    BY <2>1, MinExists
  <2> QED
    BY <2>2 DEF may
<1> HIDE DEF n
<1>7. /\ SubSeq(by_size, n + 1, N) \in Seq(Entry)
      /\ Paths(SubSeq(by_size, n + 1, N)) \subseteq Paths(files)
  BY <1>1, <1>4, <1>6, PathsOfPart
<1>8. /\ SubSeq(by_size, 1, n) \in Seq(Entry)
      /\ Paths(SubSeq(by_size, 1, n)) \subseteq Paths(files)
  <2>1. n \in Nat /\ n <= Len(by_size) /\ 1 \in Nat /\ 1 # 0
    BY <1>1, <1>4, <1>6
  <2> QED
    BY <1>4, <2>1, PathsOfPart
<1> QED
  BY <1>5, <1>7, <1>8

\* What is reviewed, what is skipped and what is cut are files of the diff.
LEMMA FittedDiff ==
    ASSUME NEW diff \in Seq(Entry)
    PROVE  LET b == build_budget(parse_diff(diff))
           IN  /\ b.files \in Seq(Entry)
               /\ Paths(b.files) \cup b.skipped \cup b.truncated \subseteq Paths(diff)
<1> DEFINE parsed == parse_diff(diff)
           reviewable == Filter(parsed.files, Reviewable)
           unreadable == Filter(diff, LAMBDA e : ~Readable(e))
           noise == Filter(parsed.files, LAMBDA f : ~Reviewable(f))
           kept == [i \in DOMAIN reviewable |-> truncated_to(reviewable[i], MaxFileDiffLines)]
           cut == Filter(kept, LAMBDA f : f.omitted > 0)
           fit == IF TokensOf(kept) > MaxPromptTokens THEN fit_to_budget(kept)
                  ELSE [files |-> kept, dropped |-> <<>>]
           D == DOMAIN fit.files
           L == {p \in D \X D : PathOrder[fit.files[p[1]].path] < PathOrder[fit.files[p[2]].path]}
           sorted == Arranged(fit.files, Stable(L, D))
<1>1. parsed = [files |-> Filter(diff, Readable), unparseable |-> Paths(unreadable)]
  BY DEF parse_diff
<1>2. /\ Filter(diff, Readable) \in Seq(Entry)
      /\ Paths(Filter(diff, Readable)) \subseteq Paths(diff)
      /\ unreadable \in Seq(Entry) /\ Paths(unreadable) \subseteq Paths(diff)
  <2>1. /\ Filter(diff, Readable) = Selected(diff, {i \in DOMAIN diff : Readable(diff[i])})
        /\ unreadable = Selected(diff, {i \in DOMAIN diff : ~Readable(diff[i])})
    BY DEF Filter
  <2> QED
    BY <2>1, PathsOfSelected
<1>3. /\ parsed.files \in Seq(Entry) /\ Paths(parsed.files) \subseteq Paths(diff)
      /\ parsed.unparseable \subseteq Paths(diff)
  <2> HIDE DEF parsed, unreadable
  <2> QED
    BY <1>1, <1>2
<1> HIDE DEF parsed, unreadable
<1>4. /\ reviewable \in Seq(Entry) /\ Paths(reviewable) \subseteq Paths(diff)
      /\ Paths(noise) \subseteq Paths(diff)
  <2>1. /\ reviewable = Selected(parsed.files, {i \in DOMAIN parsed.files : Reviewable(parsed.files[i])})
        /\ noise = Selected(parsed.files, {i \in DOMAIN parsed.files : ~Reviewable(parsed.files[i])})
    BY DEF Filter
  <2>2. /\ reviewable \in Seq(Entry) /\ Paths(reviewable) \subseteq Paths(parsed.files)
        /\ Paths(noise) \subseteq Paths(parsed.files)
    BY <1>3, <2>1, PathsOfSelected
  <2> QED
    BY <1>3, <2>2
<1> HIDE DEF reviewable, noise
<1>5. /\ kept \in Seq(Entry) /\ Len(kept) = Len(reviewable)
      /\ Paths(kept) = Paths(reviewable)
  <2>1. ASSUME NEW i \in DOMAIN reviewable
        PROVE  kept[i] \in Entry /\ kept[i].path = reviewable[i].path
    <3>1. reviewable[i] \in Entry
      BY <1>4
    <3> QED
      BY <3>1, TruncatedEntry
  <2>2. DOMAIN kept = DOMAIN reviewable
    OBVIOUS
  <2>3. kept \in Seq(Entry) /\ Len(kept) = Len(reviewable)
    <3>1. kept \in [1 .. Len(reviewable) -> Entry] /\ Len(reviewable) \in Nat
      BY <1>4, <2>1
    <3> HIDE DEF kept
    <3> QED
      BY <3>1
  <2> HIDE DEF kept
  <2> QED
    BY <2>1, <2>2, <2>3 DEF Paths
<1>6. Paths(cut) \subseteq Paths(kept)
  <2> HIDE DEF kept
  <2>1. cut = Selected(kept, {i \in DOMAIN kept : kept[i].omitted > 0})
    BY DEF Filter
  <2> QED
    BY <1>5, <2>1, PathsOfSelected
<1> HIDE DEF kept, cut
<1>7. /\ fit.files \in Seq(Entry) /\ fit.dropped \in Seq(Entry)
      /\ Paths(fit.files) \cup Paths(fit.dropped) \subseteq Paths(diff)
  <2>1. CASE TokensOf(kept) > MaxPromptTokens
    <3>1. kept # <<>>
      <4>1. SUFFICES ASSUME kept = <<>> PROVE FALSE
        OBVIOUS
      <4> DEFINE none == [i \in DOMAIN kept |-> Tokens(kept[i])]
      <4>2. none \in [1 .. 0 -> Nat]
        BY <4>1
      <4>3. Total(none) = 0
        <5> HIDE DEF none
        <5> QED
          BY <4>2, TotalOfNumbers
      <4> QED
        BY <2>1, <4>3, BudgetAssumption DEF TokensOf, BudgetAssumption
    <3>2. fit = fit_to_budget(kept)
      BY <2>1
    <3> QED
      BY <1>4, <1>5, <3>1, <3>2, FittedFiles
  <2>2. CASE ~(TokensOf(kept) > MaxPromptTokens)
    <3>1. fit = [files |-> kept, dropped |-> <<>>]
      BY <2>2
    <3>2. Paths(<<>>) = {}
      BY DEF Paths
    <3> HIDE DEF fit
    <3> QED
      BY <1>4, <1>5, <3>1, <3>2
  <2> QED
    BY <2>1, <2>2
<1>8. /\ build_budget(parsed).files = SortedBy(fit.files, LAMBDA f, g : PathOrder[f.path] < PathOrder[g.path])
      /\ build_budget(parsed).skipped = (parsed.unparseable \cup Paths(noise)) \cup Paths(fit.dropped)
      /\ build_budget(parsed).truncated = Paths(cut)
  BY DEF build_budget, kept, reviewable, noise, cut
<1> HIDE DEF fit
<1>9. SortedBy(fit.files, LAMBDA f, g : PathOrder[f.path] < PathOrder[g.path]) = sorted
  <2>1. Stable(L, D) = {p \in D \X D :
             \/ PathOrder[fit.files[p[1]].path] < PathOrder[fit.files[p[2]].path]
             \/ p[1] < p[2] /\ ~(PathOrder[fit.files[p[2]].path] < PathOrder[fit.files[p[1]].path])}
    <3>1. \A p \in D \X D :
             /\ p \in L <=> PathOrder[fit.files[p[1]].path] < PathOrder[fit.files[p[2]].path]
             /\ <<p[2], p[1]>> \in L
                  <=> PathOrder[fit.files[p[2]].path] < PathOrder[fit.files[p[1]].path]
      OBVIOUS
    <3> HIDE DEF L
    <3> QED
      BY <3>1 DEF Stable
  <2> QED
    BY <2>1 DEF SortedBy
<1>10. WeaklyOrders(L, D)
  BY <1>7, TokensOrder
<1>11. sorted \in Seq(Entry) /\ Paths(sorted) = Paths(fit.files)
  <2> HIDE DEF L
  <2> QED
    BY <1>7, <1>10, PathsOfSorted
<1> HIDE DEF sorted
<1> QED
  BY <1>3, <1>4, <1>5, <1>6, <1>7, <1>8, <1>9, <1>11 DEF parsed
=============================================================================
