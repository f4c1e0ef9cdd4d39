---------------------------- MODULE LedgerSafety -----------------------------
(***************************************************************************)
(* Nothing that is reported on the diff is lost uncounted: what becomes of *)
(* claims, one pass after another, and the graph as a ReviewLedger.        *)
(***************************************************************************)
EXTENDS ReviewSafety

\* The claims of which nothing is left, those that are away apart.
Gone(after, before, away) ==
    {c \in before : c \cap UNION after = {} /\ ~(c \subseteq away)}

\* Claims are joined to others that are apart, and n says whether some are gone,
\* and of no more than are.
Loses(after, before, away, n) ==
    /\ \A c \in after : \E parts \in SUBSET before : parts # {} /\ c = UNION parts
    /\ \A c, d \in after : c # d => c \cap d = {}
    /\ n <= Cardinality(Gone(after, before, away))
    /\ n = 0 <=> Gone(after, before, away) = {}

\* Sets that are apart, and none of them empty.
Disjoint(claims) ==
    /\ {} \notin claims
    /\ \A c, d \in claims : c # d => c \cap d = {}

LEMMA LosesIsDisjoint ==
    ASSUME NEW A, Disjoint(A), NEW B, NEW away, NEW n, Loses(B, A, away, n)
    PROVE  Disjoint(B) /\ UNION B \subseteq UNION A
<1>1. ASSUME NEW b \in B PROVE b # {} /\ b \subseteq UNION A
  <2>1. PICK parts \in SUBSET A : parts # {} /\ b = UNION parts
    BY DEF Loses
  <2>2. PICK a \in parts : a # {}
    BY <2>1 DEF Disjoint
  <2> QED
    BY <2>1, <2>2
<1> QED
  BY <1>1 DEF Loses, Disjoint

\* A set of claims that stays loses nothing.
LEMMA LosesNothing ==
    ASSUME NEW A, Disjoint(A), NEW away
    PROVE  Loses(A, A, away, 0)
<1>1. \A c \in A : {c} \in SUBSET A /\ {c} # {} /\ c = UNION {c}
  OBVIOUS
<1>2. Gone(A, A, away) = {}
  BY DEF Gone, Disjoint
<1>3. Cardinality(Gone(A, A, away)) = 0
  BY <1>2, FS_EmptySet
<1>4. \A c \in A : \E parts \in SUBSET A : parts # {} /\ c = UNION parts
  BY <1>1
<1>5. 0 <= Cardinality(Gone(A, A, away)) /\ (0 = 0 <=> Gone(A, A, away) = {})
  BY <1>2, <1>3
<1>6. \A c, d \in A : c # d => c \cap d = {}
  BY DEF Disjoint
<1> QED
  BY <1>4, <1>5, <1>6 DEF Loses

\* What is lost in two steps is lost in one.
LEMMA LosesComposes ==
    ASSUME NEW A, Disjoint(A), IsFiniteSet(A), NEW B, NEW C, NEW away,
           NEW m \in Nat, NEW n \in Nat, Loses(B, A, away, m), Loses(C, B, away, n)
    PROVE  Loses(C, A, away, m + n)
<1> DEFINE first == Gone(B, A, away)
           second == Gone(C, B, away)
           both == Gone(C, A, away)
<1>1. /\ Disjoint(B) /\ UNION B \subseteq UNION A
      /\ Disjoint(C) /\ UNION C \subseteq UNION B
  BY LosesIsDisjoint
<1>2. ASSUME NEW c \in C PROVE \E parts \in SUBSET A : parts # {} /\ c = UNION parts
  <2> DEFINE parts == {a \in A : a \subseteq c}
  <2>1. PICK bs \in SUBSET B : bs # {} /\ c = UNION bs
    BY DEF Loses
  <2>2. ASSUME NEW x \in c PROVE \E a \in parts : x \in a
    <3>1. PICK b \in bs : x \in b
      BY <2>1
    <3>2. PICK as \in SUBSET A : b = UNION as
      BY DEF Loses
    <3>3. PICK a \in as : x \in a
      BY <3>1, <3>2
    <3>4. a \subseteq c
      BY <2>1, <3>2
    <3> QED
      BY <3>3, <3>4
  <2>3. c = UNION parts
    BY <2>2
  <2>4. parts \in SUBSET A /\ parts # {}
    <3>1. c # {}
      BY <1>1 DEF Disjoint
    <3> QED
      BY <2>2, <3>1
  <2> HIDE DEF parts
  <2> QED
    BY <2>3, <2>4
<1>3. first \subseteq both
  <2> SUFFICES ASSUME NEW a \in first PROVE a \in both
    OBVIOUS
  <2>1. a \in A /\ a \cap UNION B = {} /\ ~(a \subseteq away)
    BY DEF Gone
  <2>2. a \cap UNION C = {}
    BY <1>1, <2>1
  <2> QED
    BY <2>1, <2>2 DEF Gone
<1>4. ASSUME NEW b \in second
      PROVE  \E a \in both \ first : a # {} /\ a \subseteq b
  <2>1. b \in B /\ b \cap UNION C = {} /\ ~(b \subseteq away)
    BY DEF Gone
  <2>2. PICK as \in SUBSET A : b = UNION as
    BY <2>1 DEF Loses
  <2>3. PICK a \in as : ~(a \subseteq away)
    BY <2>1, <2>2
  <2>4. a \subseteq b /\ a # {}
    BY <2>2, <2>3
  <2>5. a \in both
    BY <2>1, <2>3, <2>4 DEF Gone
  <2>6. a \notin first
    BY <2>1, <2>4 DEF Gone
  <2> QED
    BY <2>4, <2>5, <2>6
<1> DEFINE rep == [b \in second |-> CHOOSE a \in both \ first : a # {} /\ a \subseteq b]
<1>5. \A b \in second : rep[b] \in both \ first /\ rep[b] # {} /\ rep[b] \subseteq b
  BY <1>4
<1>6. rep \in Injection(second, both \ first)
  <2>1. ASSUME NEW b \in second, NEW d \in second, rep[b] = rep[d] PROVE b = d
    <3>1. b \in B /\ d \in B /\ b \cap d # {}
      BY <1>5, <2>1 DEF Gone
    <3> QED
      BY <1>1, <3>1 DEF Disjoint
  <2>2. rep \in [second -> both \ first]
    BY <1>5
  <2> HIDE DEF rep, second, both, first
  <2> QED
    BY <2>1, <2>2 DEF Injection, IsInjective
<1>7. IsFiniteSet(both) /\ IsFiniteSet(first) /\ IsFiniteSet(both \ first)
  <2>1. both \in SUBSET A /\ first \in SUBSET A /\ both \ first \in SUBSET A
    BY DEF Gone
  <2> QED
    BY <2>1, FS_Subset
<1> HIDE DEF rep
<1>8. IsFiniteSet(second) /\ Cardinality(second) <= Cardinality(both \ first)
  <2> HIDE DEF second, both, first
  <2> QED
    BY <1>6, <1>7, FS_Injection
<1>9. Cardinality(both) = Cardinality(first) + Cardinality(both \ first)
  <2> HIDE DEF both, first
  <2>1. both \cap first = first
    BY <1>3
  <2>2. Cardinality(both \ first) = Cardinality(both) - Cardinality(both \cap first)
    BY <1>7, FS_Difference
  <2>3. Cardinality(first) \in Nat /\ Cardinality(both) \in Nat
    BY <1>7, FS_CardinalityType
  <2>4. Cardinality(both \cap first) = Cardinality(first)
    BY <2>1
  <2> DEFINE x == Cardinality(first)
             y == Cardinality(both)
             z == Cardinality(both \ first)
             w == Cardinality(both \cap first)
  <2>5. z = y - w /\ w = x /\ x \in Nat /\ y \in Nat
    BY <2>2, <2>3, <2>4
  <2> HIDE DEF x, y, z, w
  <2>6. y = x + z
    BY <2>5
  <2> QED
    BY <2>6 DEF x, y, z
<1>10. m + n <= Cardinality(both)
  <2>1. m <= Cardinality(first) /\ n <= Cardinality(second)
    BY DEF Loses
  <2>2. /\ Cardinality(first) \in Nat /\ Cardinality(both \ first) \in Nat
        /\ Cardinality(second) \in Nat
    BY <1>7, <1>8, FS_CardinalityType
  <2> HIDE DEF both, first, second
  <2> QED
    BY <1>8, <1>9, <2>1, <2>2
<1>11. both = {} => first = {} /\ second = {}
  BY <1>3, <1>4
<1>12. ASSUME first = {}, second = {} PROVE both = {}
  <2> SUFFICES ASSUME NEW a \in both PROVE FALSE
    OBVIOUS
  <2>1. a \in A /\ a # {} /\ a \cap UNION C = {} /\ ~(a \subseteq away)
    BY DEF Gone, Disjoint
  <2>2. a \cap UNION B # {}
    BY <1>12, <2>1 DEF Gone
  <2>3. PICK b \in B : a \cap b # {}
    BY <2>2
  <2>4. a \subseteq b
    <3>1. PICK as \in SUBSET A : b = UNION as
      BY DEF Loses
    <3>2. PICK e \in as : a \cap e # {}
      BY <2>3, <3>1
    <3>3. a = e
      BY <2>1, <3>2 DEF Disjoint
    <3> QED
      BY <3>1, <3>2, <3>3
  <2>5. b \cap UNION C # {}
    BY <1>12, <2>1, <2>4 DEF Gone
  <2>6. PICK c \in C : b \cap c # {}
    BY <2>5
  <2>7. b \subseteq c
    <3>1. PICK bs \in SUBSET B : c = UNION bs
      BY DEF Loses
    <3>2. PICK d \in bs : b \cap d # {}
      BY <2>6, <3>1
    <3>3. b = d
      BY <1>1, <3>2 DEF Disjoint
    <3> QED
      BY <3>1, <3>2, <3>3
  <2> QED
    BY <2>1, <2>4, <2>7
<1>13. m = 0 <=> first = {}
  BY DEF Loses
<1>14. n = 0 <=> second = {}
  BY DEF Loses
<1>15. m + n = 0 <=> both = {}
  <2> HIDE DEF both, first, second
  <2> QED
    BY <1>11, <1>12, <1>13, <1>14
<1> QED
  BY <1>1, <1>2, <1>10, <1>15 DEF Loses, Disjoint

-----------------------------------------------------------------------------
(* What each pass over the findings does to their claims.                   *)

ClaimsOf(fs) == {fs[i].raised : i \in DOMAIN fs}
Apart(fs) == \A i, j \in DOMAIN fs : i # j => fs[i].raised \cap fs[j].raised = {}
NonEmpty(fs) == \A i \in DOMAIN fs : fs[i].raised # {}

LEMMA ClaimsAreDisjoint ==
    ASSUME NEW fs, Apart(fs), NonEmpty(fs)
    PROVE  Disjoint(ClaimsOf(fs))
BY DEF Apart, NonEmpty, ClaimsOf, Disjoint

\* Merging joins claims and loses none.
LEMMA JoinedClaims ==
    ASSUME NEW fs, NEW out, NEW row, Accounts(out, fs, row), Apart(fs), NonEmpty(fs), NEW away
    PROVE  /\ Apart(out) /\ NonEmpty(out)
           /\ UNION ClaimsOf(out) = UNION ClaimsOf(fs)
           /\ Loses(ClaimsOf(out), ClaimsOf(fs), away, 0)
<1> DEFINE D == DOMAIN fs
           E == DOMAIN out
<1>1. /\ row \in [D -> E]
      /\ \A k \in E : \E i \in D : row[i] = k
      /\ \A k \in E : out[k].raised = UNION {fs[i].raised : i \in {i \in D : row[i] = k}}
  BY DEF Accounts
<1>2. \A x : \A k \in E : x \in out[k].raised <=> \E i \in D : row[i] = k /\ x \in fs[i].raised
  BY <1>1
<1>3. Apart(out)
  <2> SUFFICES ASSUME NEW k \in E, NEW l \in E, k # l, NEW x \in out[k].raised,
                      x \in out[l].raised
               PROVE  FALSE
    BY DEF Apart
  <2>1. PICK i \in D : row[i] = k /\ x \in fs[i].raised
    BY <1>2
  <2>2. PICK j \in D : row[j] = l /\ x \in fs[j].raised
    BY <1>2
  <2> QED
    BY <2>1, <2>2 DEF Apart
<1>4. NonEmpty(out)
  <2> SUFFICES ASSUME NEW k \in E PROVE out[k].raised # {}
    BY DEF NonEmpty
  <2>1. PICK i \in D : row[i] = k
    BY <1>1
  <2>2. PICK x : x \in fs[i].raised
    BY DEF NonEmpty
  <2> QED
    BY <1>2, <2>1, <2>2
<1>5. ASSUME NEW x PROVE x \in UNION ClaimsOf(out) <=> x \in UNION ClaimsOf(fs)
  <2>1. ASSUME NEW k \in E, x \in out[k].raised PROVE x \in UNION ClaimsOf(fs)
    BY <1>2, <2>1 DEF ClaimsOf
  <2>2. ASSUME NEW i \in D, x \in fs[i].raised PROVE x \in UNION ClaimsOf(out)
    <3>1. row[i] \in E /\ x \in out[row[i]].raised
      BY <1>1, <1>2, <2>2
    <3> QED
      BY <3>1 DEF ClaimsOf
  <2> QED
    BY <2>1, <2>2 DEF ClaimsOf
<1>6. ASSUME NEW c \in ClaimsOf(out)
      PROVE  \E parts \in SUBSET ClaimsOf(fs) : parts # {} /\ c = UNION parts
  <2>1. PICK k \in E : c = out[k].raised
    BY DEF ClaimsOf
  <2> DEFINE parts == {fs[i].raised : i \in {i \in D : row[i] = k}}
  <2>2. parts # {} /\ parts \in SUBSET ClaimsOf(fs) /\ c = UNION parts
    BY <1>1, <2>1 DEF ClaimsOf
  <2> HIDE DEF parts
  <2> QED
    BY <2>2
<1>7. Gone(ClaimsOf(out), ClaimsOf(fs), away) = {}
  <2> SUFFICES ASSUME NEW i \in D, fs[i].raised \cap UNION ClaimsOf(out) = {} PROVE FALSE
    BY DEF Gone, ClaimsOf
  <2>1. PICK x : x \in fs[i].raised
    BY DEF NonEmpty
  <2>2. x \in UNION ClaimsOf(fs)
    BY <2>1 DEF ClaimsOf
  <2> QED
    BY <1>5, <2>1, <2>2
<1>8. Disjoint(ClaimsOf(out))
  BY <1>3, <1>4, ClaimsAreDisjoint
<1>9. Cardinality(Gone(ClaimsOf(out), ClaimsOf(fs), away)) = 0
  BY <1>7, FS_EmptySet
<1>10. Loses(ClaimsOf(out), ClaimsOf(fs), away, 0)
  <2>1. 0 <= Cardinality(Gone(ClaimsOf(out), ClaimsOf(fs), away))
    BY <1>9
  <2>2. \A c, d \in ClaimsOf(out) : c # d => c \cap d = {}
    BY <1>8 DEF Disjoint
  <2> QED
    BY <1>6, <1>7, <2>1, <2>2 DEF Loses
<1> QED
  BY <1>3, <1>4, <1>5, <1>10

\* Some findings are kept, for what they stood for.
Thins(out, fs, src) ==
    /\ Picks(src, Len(out), Len(fs))
    /\ \A k \in DOMAIN out : out[k].raised = fs[src[k]].raised

\* The places that are left out.
Left(fs, src) == DOMAIN fs \ Range(src)

LEMMA KeptClaims ==
    ASSUME NEW S, NEW fs \in Seq(S), NEW out \in Seq(S), NEW src, Thins(out, fs, src),
           Apart(fs), NonEmpty(fs)
    PROVE  /\ Apart(out) /\ NonEmpty(out) /\ ClaimsOf(out) \subseteq ClaimsOf(fs)
           /\ \A i \in DOMAIN fs : fs[i].raised \cap UNION ClaimsOf(out) = {}
                                      <=> i \in Left(fs, src)
           /\ IsFiniteSet(Left(fs, src))
           /\ Cardinality(Left(fs, src)) = Len(fs) - Len(out)
<1> DEFINE m == Len(out)
           n == Len(fs)
<1>1. /\ m \in Nat /\ n \in Nat /\ DOMAIN out = 1 .. m /\ DOMAIN fs = 1 .. n
      /\ src \in [1 .. m -> 1 .. n]
      /\ \A k, l \in 1 .. m : src[k] = src[l] => k = l
      /\ \A k \in 1 .. m : out[k].raised = fs[src[k]].raised
  <2>1. m \in Nat /\ DOMAIN out = 1 .. m
    OBVIOUS
  <2>2. n \in Nat /\ DOMAIN fs = 1 .. n
    OBVIOUS
  <2>3. Picks(src, m, n) /\ \A k \in DOMAIN out : out[k].raised = fs[src[k]].raised
    BY DEF Thins
  <2> HIDE DEF m, n
  <2>4. src \in [1 .. m -> 1 .. n] /\ \A k, l \in 1 .. m : src[k] = src[l] => k = l
    BY <2>3 DEF Picks
  <2> QED
    BY <2>1, <2>2, <2>3, <2>4
<1> HIDE DEF m, n
<1>2. \A k \in 1 .. m : src[k] \in 1 .. n
  BY <1>1
<1>3. Apart(out)
  BY <1>1, <1>2 DEF Apart
<1>4. NonEmpty(out) /\ ClaimsOf(out) \subseteq ClaimsOf(fs)
  BY <1>1, <1>2 DEF NonEmpty, ClaimsOf
<1>5. Range(src) = {src[k] : k \in 1 .. m}
  BY <1>1 DEF Range
<1>6. ASSUME NEW i \in 1 .. n
      PROVE  fs[i].raised \cap UNION ClaimsOf(out) = {} <=> i \in Left(fs, src)
  <2>1. ASSUME i \in Left(fs, src) PROVE fs[i].raised \cap UNION ClaimsOf(out) = {}
    <3> SUFFICES ASSUME NEW k \in 1 .. m PROVE fs[i].raised \cap out[k].raised = {}
      BY <1>1 DEF ClaimsOf
    <3>1. src[k] # i
      BY <1>5, <2>1 DEF Left
    <3> QED
      BY <1>1, <1>2, <3>1 DEF Apart
  <2>2. ASSUME i \notin Left(fs, src) PROVE fs[i].raised \cap UNION ClaimsOf(out) # {}
    <3>1. PICK k \in 1 .. m : src[k] = i
      BY <1>1, <1>5, <2>2 DEF Left
    <3>2. out[k].raised = fs[i].raised /\ fs[i].raised # {}
      BY <1>1, <3>1 DEF NonEmpty
    <3> QED
      BY <1>1, <3>2 DEF ClaimsOf
  <2> QED
    BY <2>1, <2>2
<1>7. IsFiniteSet(Left(fs, src)) /\ Cardinality(Left(fs, src)) = n - m
  <2> DEFINE at == Range(src)
  <2>1. at \in SUBSET (1 .. n)
    BY <1>2, <1>5
  <2>2. src \in Bijection(1 .. m, at)
    <3>1. src \in [1 .. m -> at]
      BY <1>1, <1>5
    <3>2. src \in Injection(1 .. m, at)
      BY <1>1, <3>1 DEF Injection, IsInjective
    <3>3. src \in Surjection(1 .. m, at)
      BY <1>5, <3>1 DEF Surjection
    <3> QED
      BY <3>2, <3>3 DEF Bijection
  <2>3. IsFiniteSet(1 .. m) /\ Cardinality(1 .. m) = m
        /\ IsFiniteSet(1 .. n) /\ Cardinality(1 .. n) = n
    <3>1. Cardinality(1 .. m) = IF 1 > m THEN 0 ELSE m - 1 + 1
      BY <1>1, FS_Interval
    <3>2. Cardinality(1 .. n) = IF 1 > n THEN 0 ELSE n - 1 + 1
      BY <1>1, FS_Interval
    <3> QED
      BY <1>1, <3>1, <3>2, FS_Interval
  <2> HIDE DEF at
  <2>4. Cardinality(at) = m
    <3>1. ExistsBijection(1 .. m, at)
      BY <2>2 DEF ExistsBijection
    <3> QED
      BY <2>3, <3>1, FS_Bijection
  <2>5. (1 .. n) \cap at = at
    BY <2>1
  <2>6. /\ IsFiniteSet((1 .. n) \ at)
        /\ Cardinality((1 .. n) \ at) = Cardinality(1 .. n) - Cardinality((1 .. n) \cap at)
    BY <2>3, FS_Difference
  <2>7. Cardinality((1 .. n) \cap at) = m
    BY <2>4, <2>5
  <2>8. Left(fs, src) = (1 .. n) \ at
    BY <1>1 DEF Left, at
  <2> QED
    BY <2>3, <2>6, <2>7, <2>8
<1> QED
  BY <1>1, <1>3, <1>4, <1>6, <1>7 DEF m, n

\* What is left out is lost, and what is away is not counted.
LEMMA ThinnedClaims ==
    ASSUME NEW S, NEW fs \in Seq(S), NEW out \in Seq(S), NEW src, Thins(out, fs, src),
           Apart(fs), NonEmpty(fs), NEW away, NEW n,
           \/ /\ (UNION ClaimsOf(fs)) \cap away = {}
              /\ n = Len(fs) - Len(out)
           \/ /\ \A i \in Left(fs, src) : fs[i].raised \subseteq away
              /\ n = 0
    PROVE  Loses(ClaimsOf(out), ClaimsOf(fs), away, n)
<1> DEFINE A == ClaimsOf(fs)
           B == ClaimsOf(out)
           left == Left(fs, src)
<1>1. /\ Apart(out) /\ NonEmpty(out) /\ B \subseteq A
      /\ \A i \in DOMAIN fs : fs[i].raised \cap UNION B = {} <=> i \in left
      /\ IsFiniteSet(left) /\ Cardinality(left) = Len(fs) - Len(out)
  BY KeptClaims
<1>2. Disjoint(B)
  BY <1>1, ClaimsAreDisjoint
<1>3. \A c \in B : {c} \in SUBSET A /\ {c} # {} /\ c = UNION {c}
  BY <1>1
<1>4. \A c \in B : \E parts \in SUBSET A : parts # {} /\ c = UNION parts
  BY <1>3
<1>5. left \subseteq DOMAIN fs
  BY DEF Left
<1> HIDE DEF left
<1>6. Gone(B, A, away) = {fs[i].raised : i \in {i \in left : ~(fs[i].raised \subseteq away)}}
  BY <1>1, <1>5 DEF Gone, ClaimsOf
<1> HIDE DEF A, B
<1>7. CASE (UNION ClaimsOf(fs)) \cap away = {} /\ n = Len(fs) - Len(out)
  <2> DEFINE G == Gone(B, A, away)
             f == [i \in left |-> fs[i].raised]
  <2>1. ASSUME NEW i \in left PROVE ~(fs[i].raised \subseteq away)
    <3>1. i \in DOMAIN fs
      BY <1>5
    <3>2. PICK x : x \in fs[i].raised
      BY <3>1 DEF NonEmpty
    <3>3. x \in UNION ClaimsOf(fs)
      BY <3>1, <3>2 DEF ClaimsOf
    <3> QED
      BY <1>7, <3>2, <3>3
  <2>2. G = {fs[i].raised : i \in left}
    <3>1. ASSUME NEW i \in left PROVE fs[i].raised \in G
      BY <1>6, <2>1
    <3>2. ASSUME NEW c \in G PROVE \E i \in left : c = fs[i].raised
      BY <1>6
    <3> QED
      BY <3>1, <3>2
  <2>3. f \in Bijection(left, G)
    <3>1. f \in [left -> G]
      BY <2>2
    <3>2. ASSUME NEW i \in left, NEW j \in left, f[i] = f[j] PROVE i = j
      <4>1. fs[i].raised = fs[j].raised /\ fs[i].raised # {}
        BY <1>5, <3>2 DEF NonEmpty
      <4> QED
        BY <1>5, <4>1 DEF Apart
    <3>3. \A c \in G : \E i \in left : f[i] = c
      BY <2>2
    <3> HIDE DEF f, G
    <3> QED
      BY <3>1, <3>2, <3>3 DEF Bijection, Injection, Surjection, IsInjective
  <2> HIDE DEF f, G
  <2>4. Cardinality(G) = Cardinality(left)
    <3>1. ExistsBijection(left, G)
      BY <2>3 DEF ExistsBijection
    <3> QED
      BY <1>1, <3>1, FS_Bijection
  <2>5. Cardinality(left) = 0 <=> left = {}
    BY <1>1, FS_EmptySet
  <2>6. n = Cardinality(G) /\ Cardinality(G) \in Nat
    BY <1>1, <1>7, <2>4, FS_CardinalityType
  <2>7. G = {} <=> left = {}
    BY <2>2
  <2>8. n = 0 <=> G = {}
    BY <2>4, <2>5, <2>6, <2>7
  <2>9. n <= Cardinality(G) /\ (n = 0 <=> G = {})
    BY <2>6, <2>8
  <2> QED
    BY <1>2, <1>4, <2>9 DEF Loses, Disjoint, G, A, B
<1>8. CASE (\A i \in left : fs[i].raised \subseteq away) /\ n = 0
  <2>1. Gone(B, A, away) = {}
    BY <1>6, <1>8
  <2>2. Cardinality(Gone(B, A, away)) = 0
    BY <2>1, FS_EmptySet
  <2>3. n <= Cardinality(Gone(B, A, away)) /\ (n = 0 <=> Gone(B, A, away) = {})
    BY <1>8, <2>1, <2>2
  <2> QED
    BY <1>2, <1>4, <2>3 DEF Loses, Disjoint, A, B
<1> QED
  BY <1>7, <1>8 DEF left

LEMMA ClaimsAreFinite ==
    ASSUME NEW S, NEW fs \in Seq(S)
    PROVE  IsFiniteSet(ClaimsOf(fs))
<1> DEFINE f == [i \in DOMAIN fs |-> fs[i].raised]
<1>1. f \in Surjection(DOMAIN fs, ClaimsOf(fs))
  <2>1. f \in [DOMAIN fs -> ClaimsOf(fs)]
    BY DEF ClaimsOf
  <2>2. \A c \in ClaimsOf(fs) : \E i \in DOMAIN fs : f[i] = c
    BY DEF ClaimsOf
  <2> HIDE DEF f
  <2> QED
    BY <2>1, <2>2 DEF Surjection
<1>2. IsFiniteSet(DOMAIN fs)
  <2>1. DOMAIN fs = 1 .. Len(fs) /\ Len(fs) \in Nat
    OBVIOUS
  <2> QED
    BY <2>1, FS_Interval
<1> HIDE DEF f
<1> QED
  BY <1>1, <1>2, FS_Surjection

\* What is not ranked, or cut, is withheld.
LEMMA RankedClaims ==
    ASSUME NEW R, NEW fs \in Seq(Finding(R)), Apart(fs), NonEmpty(fs),
           NEW away, (UNION ClaimsOf(fs)) \cap away = {}
    PROVE  LET cut == rank_and_cut(fs)
           IN  /\ Apart(cut.kept) /\ cut.withheld \in Nat
               /\ Loses(ClaimsOf(cut.kept), ClaimsOf(fs), away, cut.withheld)
<1> DEFINE out == rank_and_cut(fs).kept
           held == rank_and_cut(fs).withheld
<1>1. /\ out \in Seq(Finding(R)) /\ held \in Nat /\ held = Len(fs) - Len(out)
      /\ \E src : KeptFrom(out, fs, src)
  BY RankedFindings
<1>2. PICK src : KeptFrom(out, fs, src)
  BY <1>1
<1> HIDE DEF out, held
<1>3. Thins(out, fs, src)
  BY <1>2 DEF KeptFrom, Thins
<1>4. Apart(out)
  BY <1>1, <1>3, KeptClaims
<1>5. Loses(ClaimsOf(out), ClaimsOf(fs), away, held)
  BY <1>1, <1>3, ThinnedClaims
<1> QED
  BY <1>1, <1>4, <1>5 DEF out, held

\* What is judged wrong is counted as retracted.
LEMMA JudgedClaims ==
    ASSUME NEW R, NEW fs \in Seq(Finding(R)), Apart(fs), NonEmpty(fs),
           NEW away, (UNION ClaimsOf(fs)) \cap away = {}, NEW verdicts, NEW asked
    PROVE  LET checked == apply_verdicts(fs, verdicts, asked)
           IN  /\ Apart(checked.findings) /\ NonEmpty(checked.findings)
               /\ checked.findings \in Seq(Finding(R)) /\ checked.retracted \in Nat
               /\ Loses(ClaimsOf(checked.findings), ClaimsOf(fs), away, checked.retracted)
<1> DEFINE out == apply_verdicts(fs, verdicts, asked).findings
           gone == apply_verdicts(fs, verdicts, asked).retracted
<1>1. /\ out \in Seq(Finding(R)) /\ gone \in Nat /\ gone = Len(fs) - Len(out)
      /\ \E src : JudgedFrom(out, fs, src)
  BY JudgedFindings
<1>2. PICK src : JudgedFrom(out, fs, src)
  BY <1>1
<1> HIDE DEF out, gone
<1>3. Thins(out, fs, src)
  <2>1. ASSUME NEW k \in DOMAIN out PROVE out[k].raised = fs[src[k]].raised
    <3>1. src[k] \in DOMAIN fs /\ JudgedTo(out[k], fs[src[k]])
      <4>1. k \in 1 .. Len(out) /\ DOMAIN fs = 1 .. Len(fs)
        BY <1>1
      <4> QED
        BY <1>2, <4>1 DEF JudgedFrom, Picks
    <3>2. fs[src[k]] \in Finding(R)
      BY <3>1
    <3> QED
      BY <3>1, <3>2, JudgedFinding
  <2> QED
    BY <1>2, <2>1 DEF JudgedFrom, Thins
<1>4. Apart(out) /\ NonEmpty(out)
  BY <1>1, <1>3, KeptClaims
<1>5. Loses(ClaimsOf(out), ClaimsOf(fs), away, gone)
  BY <1>1, <1>3, ThinnedClaims
<1> QED
  BY <1>1, <1>4, <1>5 DEF out, gone

\* Anchoring drops what is about no file of the diff, which is all that is away.
LEMMA AnchoredClaims ==
    ASSUME NEW R, NEW fs \in Seq(Finding(R)), Apart(fs), NonEmpty(fs),
           NEW files \in Seq(Entry), NEW away,
           \A i \in DOMAIN fs : \A r \in fs[i].raised :
               r \in away <=> by_path(files, fs[i].file) = 0
    PROVE  LET out == anchor_findings(fs, files)
           IN  /\ Apart(out) /\ NonEmpty(out) /\ out \in Seq(Finding(R))
               /\ (UNION ClaimsOf(out)) \cap away = {}
               /\ Loses(ClaimsOf(out), ClaimsOf(fs), away, 0)
<1> DEFINE out == anchor_findings(fs, files)
<1>1. /\ out \in Seq(Finding(R))
      /\ \E src : AnchoredFrom(out, fs, files, src)
  BY AnchoredFindings
<1>2. PICK src : AnchoredFrom(out, fs, files, src)
  BY <1>1
<1> HIDE DEF out
<1>3. ASSUME NEW k \in DOMAIN out
      PROVE  /\ src[k] \in DOMAIN fs /\ by_path(files, fs[src[k]].file) # 0
             /\ out[k].raised = fs[src[k]].raised
  <2>1. src[k] \in DOMAIN fs /\ AnchoredTo(out[k], fs[src[k]], files)
    <3>1. k \in 1 .. Len(out) /\ DOMAIN fs = 1 .. Len(fs)
      BY <1>1
    <3> QED
      BY <1>2, <3>1 DEF AnchoredFrom, Picks
  <2>2. fs[src[k]] \in Finding(R)
    BY <2>1
  <2>3. by_path(files, fs[src[k]].file) # 0
    BY <2>1 DEF AnchoredTo
  <2> QED
    BY <2>1, <2>2, <2>3, AnchoredFinding
<1>4. Thins(out, fs, src)
  BY <1>2, <1>3 DEF AnchoredFrom, Thins
<1>5. Apart(out) /\ NonEmpty(out)
  BY <1>1, <1>4, KeptClaims
<1>6. (UNION ClaimsOf(out)) \cap away = {}
  <2> SUFFICES ASSUME NEW k \in DOMAIN out, NEW r \in out[k].raised PROVE r \notin away
    BY DEF ClaimsOf
  <2> QED
    BY <1>3
<1>7. ASSUME NEW i \in Left(fs, src) PROVE fs[i].raised \subseteq away
  <2>1. i \in DOMAIN fs /\ \A k \in DOMAIN out : src[k] # i
    <3>1. DOMAIN src = DOMAIN out
      <4>1. DOMAIN out = 1 .. Len(out)
        BY <1>1
      <4> QED
        BY <1>2, <4>1 DEF AnchoredFrom, Picks
    <3> QED
      BY <3>1 DEF Left, Range
  <2>2. by_path(files, fs[i].file) = 0
    BY <1>2, <2>1 DEF AnchoredFrom
  <2> QED
    BY <2>1, <2>2
<1>8. Loses(ClaimsOf(out), ClaimsOf(fs), away, 0)
  BY <1>1, <1>4, <1>7, ThinnedClaims
<1> QED
  BY <1>1, <1>5, <1>6, <1>8 DEF out

-----------------------------------------------------------------------------
(* The account of the graph.                                                *)

\* Every report a claim of its own.
Singles == {{r} : r \in reports}

\* A finding as it was reported.
AsReported(f) == \E r \in reports : f.raised = {r} /\ f.file = r.finding.file

LedgerInv ==
    /\ Apart(findings)
    /\ stage \in {"prepare", "agents"} =>
          /\ \A i \in DOMAIN findings : AsReported(findings[i])
          /\ Claims = Singles
          /\ \A r \in reports : r.agent \notin running
    /\ stage \in {"critic", "merge", "done"} =>
          /\ Loses(Claims, Singles, Foreign, retracted + suppressed)
          /\ (UNION Claims) \cap Foreign = {}
    /\ stage \in {"prepare", "agents", "critic"} => retracted = 0
    /\ stage \in {"prepare", "agents", "critic", "merge"} => suppressed = 0

\* What a pass of finalize does to the claims.
Passing ==
    /\ stage \in {"agents", "critic", "merge"} /\ stage' \in {"critic", "merge", "done"}
    /\ UNCHANGED <<budget, reports>>
    /\ Loses(Claims', Claims, Foreign, (retracted' - retracted) + (suppressed' - suppressed))
    /\ Apart(findings')
    /\ (UNION Claims') \cap Foreign = {}
    /\ retracted' \in Nat /\ suppressed' \in Nat
    /\ retracted <= retracted' /\ suppressed <= suppressed'
    /\ stage' = "critic" => retracted' = 0
    /\ stage' # "done" => suppressed' = 0

\* Two steps that lose claims, of findings in hand.
LEMMA PassesCompose ==
    ASSUME NEW R, NEW f \in Seq(Finding(R)), Apart(f), NonEmpty(f), NEW g, NEW h, NEW away,
           NEW m \in Nat, NEW n \in Nat,
           Loses(ClaimsOf(g), ClaimsOf(f), away, m), Loses(ClaimsOf(h), ClaimsOf(g), away, n)
    PROVE  Loses(ClaimsOf(h), ClaimsOf(f), away, m + n)
<1>1. Disjoint(ClaimsOf(f)) /\ IsFiniteSet(ClaimsOf(f))
  BY ClaimsAreDisjoint, ClaimsAreFinite
<1> QED
  BY <1>1, LosesComposes

\* Fewer claims have nothing more to do with what is away.
LEMMA StillNotAway ==
    ASSUME NEW g, Apart(g), NonEmpty(g), NEW h, NEW away, NEW n,
           Loses(ClaimsOf(h), ClaimsOf(g), away, n), (UNION ClaimsOf(g)) \cap away = {}
    PROVE  (UNION ClaimsOf(h)) \cap away = {}
<1>1. UNION ClaimsOf(h) \subseteq UNION ClaimsOf(g)
  BY ClaimsAreDisjoint, LosesIsDisjoint
<1> QED
  BY <1>1

LEMMA AfterCriticClaims ==
    ASSUME NEW R, NEW checked \in Seq(Finding(R)), Apart(checked), NonEmpty(checked),
           NEW away, (UNION ClaimsOf(checked)) \cap away = {},
           suppressed = 0, AfterCritic(checked)
    PROVE  /\ Apart(findings') /\ suppressed' \in Nat
           /\ Loses(ClaimsOf(findings'), ClaimsOf(checked), away, suppressed')
           /\ (UNION ClaimsOf(findings')) \cap away = {}
           /\ stage' \in {"merge", "done"} /\ (stage' # "done" => suppressed' = 0)
<1>1. CASE stage' = "merge" /\ findings' = checked /\ UNCHANGED suppressed
  BY <1>1, ClaimsAreDisjoint, LosesNothing
<1>2. CASE Finish(checked)
  <2>1. /\ findings' = rank_and_cut(checked).kept
        /\ suppressed' = rank_and_cut(checked).withheld
        /\ stage' = "done"
    BY <1>2 DEF Finish
  <2>2. /\ Apart(findings') /\ suppressed' \in Nat
        /\ Loses(ClaimsOf(findings'), ClaimsOf(checked), away, suppressed')
    BY <2>1, RankedClaims
  <2> QED
    BY <2>1, <2>2, StillNotAway
<1> QED
  BY <1>1, <1>2 DEF AfterCritic

\* The findings in hand stand for reports.
LEMMA InHand ==
    ASSUME GraphInv
    PROVE  /\ findings \in Seq(Finding(reports)) /\ NonEmpty(findings)
           /\ \A i \in DOMAIN findings : IsInjective(findings[i].sources)
           /\ Claims = ClaimsOf(findings)
BY DEF GraphInv, Held, Sound, NonEmpty, Claims, ClaimsOf

LEMMA NothingMore == \A n \in Nat : 0 + n = n /\ (0 - 0) + (n - 0) = n
OBVIOUS

LEMMA CollapsePasses ==
    ASSUME GraphInv, LedgerInv, Collapse
    PROVE  Passing
<1> DEFINE collapsed == collapse(findings)
           anchored == anchor_findings(collapsed, budget.files)
           F == Finding(reports)
<1>1. /\ findings \in Seq(F) /\ NonEmpty(findings) /\ Apart(findings)
      /\ Claims = ClaimsOf(findings)
      /\ \A i \in DOMAIN findings : IsInjective(findings[i].sources)
  BY InHand DEF LedgerInv
<1>2. /\ stage = "agents"
      /\ UNCHANGED <<diff, budget, running, reports, answers, retracted, calls>>
      /\ \/ stage' = "critic" /\ findings' = anchored /\ UNCHANGED suppressed
         \/ AfterCritic(anchored)
  BY DEF Collapse
<1>3. /\ retracted = 0 /\ suppressed = 0
      /\ \A i \in DOMAIN findings : AsReported(findings[i])
      /\ budget.files \in Seq(Entry)
  BY <1>2 DEF LedgerInv, GraphInv
<1>4. /\ collapsed \in Seq(F)
      /\ \E row : Accounts(collapsed, findings, row) /\ FiledBy(collapsed, findings, row)
  BY <1>1, CollapsedFindings
<1>5. PICK row : Accounts(collapsed, findings, row) /\ FiledBy(collapsed, findings, row)
  BY <1>4
<1> HIDE DEF collapsed
<1>6. /\ Apart(collapsed) /\ NonEmpty(collapsed)
      /\ Loses(ClaimsOf(collapsed), ClaimsOf(findings), Foreign, 0)
  BY <1>1, <1>5, JoinedClaims
<1>7. ASSUME NEW k \in DOMAIN collapsed, NEW r \in collapsed[k].raised
      PROVE  r \in Foreign <=> by_path(budget.files, collapsed[k].file) = 0
  <2>1. PICK i \in DOMAIN findings : row[i] = k /\ r \in findings[i].raised
    BY <1>5 DEF Accounts
  <2>2. r \in reports /\ findings[i].file = r.finding.file
    BY <1>3, <2>1 DEF AsReported
  <2>3. collapsed[k].file = normalize_path(r.finding.file)
    BY <1>5, <2>1, <2>2 DEF FiledBy
  <2> DEFINE j == by_path(budget.files, collapsed[k].file)
             at == normalize_path(collapsed[k].file)
  <2>4. /\ j # 0 => j \in DOMAIN budget.files /\ normalize_path(budget.files[j].path) = at
        /\ j = 0 => \A l \in DOMAIN budget.files : normalize_path(budget.files[l].path) # at
    BY <1>3, ByPath
  <2>5. OfTheDiff(r) <=> \E l \in DOMAIN budget.files : normalize_path(budget.files[l].path) = at
    BY <2>3 DEF OfTheDiff
  <2> HIDE DEF j, at
  <2>6. j = 0 <=> ~OfTheDiff(r)
    BY <2>4, <2>5
  <2> QED
    BY <2>2, <2>6 DEF Foreign, j
<1>8. /\ Apart(anchored) /\ NonEmpty(anchored) /\ anchored \in Seq(F)
      /\ (UNION ClaimsOf(anchored)) \cap Foreign = {}
      /\ Loses(ClaimsOf(anchored), ClaimsOf(collapsed), Foreign, 0)
  BY <1>3, <1>4, <1>6, <1>7, AnchoredClaims
<1> HIDE DEF anchored
<1>9. Loses(ClaimsOf(anchored), ClaimsOf(findings), Foreign, 0)
  <2>1. Loses(ClaimsOf(anchored), ClaimsOf(findings), Foreign, 0 + 0)
    <3>1. 0 \in Nat
      OBVIOUS
    <3> QED
      BY <1>1, <1>6, <1>8, <3>1, PassesCompose
  <2> QED
    BY <2>1
<1>10. /\ Apart(findings') /\ suppressed' \in Nat
       /\ Loses(ClaimsOf(findings'), ClaimsOf(findings), Foreign, suppressed')
       /\ (UNION ClaimsOf(findings')) \cap Foreign = {}
       /\ stage' \in {"critic", "merge", "done"} /\ (stage' # "done" => suppressed' = 0)
  <2>1. CASE stage' = "critic" /\ findings' = anchored /\ UNCHANGED suppressed
    BY <1>3, <1>8, <1>9, <2>1
  <2>2. CASE AfterCritic(anchored)
    <3>1. /\ Apart(findings') /\ suppressed' \in Nat
          /\ Loses(ClaimsOf(findings'), ClaimsOf(anchored), Foreign, suppressed')
          /\ (UNION ClaimsOf(findings')) \cap Foreign = {}
          /\ stage' \in {"merge", "done"} /\ (stage' # "done" => suppressed' = 0)
      BY <1>3, <1>8, <2>2, AfterCriticClaims
    <3>2. Loses(ClaimsOf(findings'), ClaimsOf(findings), Foreign, 0 + suppressed')
      <4>1. 0 \in Nat
        OBVIOUS
      <4> QED
        BY <1>1, <1>9, <3>1, <4>1, PassesCompose
    <3>3. 0 + suppressed' = suppressed'
      <4>1. suppressed' \in Nat
        BY <3>1
      <4> QED
        BY <4>1, NothingMore
    <3> QED
      BY <3>1, <3>2, <3>3
  <2> QED
    BY <1>2, <2>1, <2>2
<1>11. (retracted' - retracted) + (suppressed' - suppressed) = suppressed'
  <2>1. retracted' = 0 /\ retracted = 0 /\ suppressed = 0 /\ suppressed' \in Nat
    BY <1>2, <1>3, <1>10
  <2> QED
    BY <2>1, NothingMore
<1>12. Claims' = ClaimsOf(findings')
  BY DEF Claims, ClaimsOf
<1> QED
  BY <1>1, <1>2, <1>3, <1>10, <1>11, <1>12 DEF Passing

LEMMA ReviewPasses ==
    ASSUME GraphInv, LedgerInv, ReviewFindings
    PROVE  Passing
<1> DEFINE checked == apply_verdicts(findings, Verdicts, Judged)
           F == Finding(reports)
<1>1. /\ findings \in Seq(F) /\ NonEmpty(findings) /\ Apart(findings)
      /\ Claims = ClaimsOf(findings)
  BY InHand DEF LedgerInv
<1>2. /\ stage = "critic"
      /\ UNCHANGED <<diff, budget, running, reports>>
      /\ AfterCritic(checked.findings) /\ retracted' = checked.retracted
  BY DEF ReviewFindings
<1>3. /\ retracted = 0 /\ suppressed = 0 /\ (UNION ClaimsOf(findings)) \cap Foreign = {}
  BY <1>1, <1>2 DEF LedgerInv
<1>4. /\ Apart(checked.findings) /\ NonEmpty(checked.findings)
      /\ checked.findings \in Seq(F) /\ checked.retracted \in Nat
      /\ Loses(ClaimsOf(checked.findings), ClaimsOf(findings), Foreign, checked.retracted)
  BY <1>1, <1>3, JudgedClaims
<1> HIDE DEF checked
<1>5. (UNION ClaimsOf(checked.findings)) \cap Foreign = {}
  BY <1>1, <1>3, <1>4, StillNotAway
<1>6. /\ Apart(findings') /\ suppressed' \in Nat
      /\ Loses(ClaimsOf(findings'), ClaimsOf(checked.findings), Foreign, suppressed')
      /\ (UNION ClaimsOf(findings')) \cap Foreign = {}
      /\ stage' \in {"merge", "done"} /\ (stage' # "done" => suppressed' = 0)
  BY <1>2, <1>3, <1>4, <1>5, AfterCriticClaims
<1>7. Loses(ClaimsOf(findings'), ClaimsOf(findings), Foreign, checked.retracted + suppressed')
  BY <1>1, <1>4, <1>6, PassesCompose
<1>8. (retracted' - retracted) + (suppressed' - suppressed) = checked.retracted + suppressed'
  BY <1>2, <1>3, <1>4, <1>6
<1>9. Claims' = ClaimsOf(findings')
  BY DEF Claims, ClaimsOf
<1> QED
  BY <1>1, <1>2, <1>3, <1>4, <1>6, <1>7, <1>8, <1>9 DEF Passing

LEMMA MergePasses ==
    ASSUME GraphInv, LedgerInv, MergeFindings, ~Raise
    PROVE  Passing
<1> DEFINE F == Finding(reports)
<1>1. /\ findings \in Seq(F) /\ NonEmpty(findings) /\ Apart(findings)
      /\ Claims = ClaimsOf(findings)
      /\ \A i \in DOMAIN findings : IsInjective(findings[i].sources)
  BY InHand DEF LedgerInv
<1>2. /\ stage = "merge"
      /\ UNCHANGED <<diff, budget, running, reports, answers, retracted>>
  BY DEF MergeFindings
<1>3. /\ retracted \in Nat /\ suppressed = 0 /\ (UNION ClaimsOf(findings)) \cap Foreign = {}
  BY <1>1, <1>2 DEF LedgerInv, GraphInv
<1>4. PICK decisions, T :
          /\ decisions \in Seq(T)
          /\ Finish(apply_decisions(findings, decisions, candidate_pairs(findings)))
  <2>1. PICK decisions \in BoundedSeq([left : 1 .. Len(findings) + 1,
                                       right : 1 .. Len(findings) + 1,
                                       same_defect : {TRUE}], MaxVerdicts) :
            Finish(apply_decisions(findings, decisions, candidate_pairs(findings)))
    BY DEF MergeFindings
  <2> QED
    BY <2>1, DecisionsAreListed
<1> DEFINE merged == apply_decisions(findings, decisions, candidate_pairs(findings))
<1>5. merged \in Seq(F) /\ \E row : Accounts(merged, findings, row)
  BY <1>1, <1>4, MergedFindings
<1>6. PICK row : Accounts(merged, findings, row)
  BY <1>5
<1>7. /\ findings' = rank_and_cut(merged).kept /\ stage' = "done"
      /\ suppressed' = rank_and_cut(merged).withheld
  BY <1>4 DEF Finish
<1> HIDE DEF merged
<1>8. /\ Apart(merged) /\ NonEmpty(merged)
      /\ UNION ClaimsOf(merged) = UNION ClaimsOf(findings)
      /\ Loses(ClaimsOf(merged), ClaimsOf(findings), Foreign, 0)
  BY <1>1, <1>6, JoinedClaims
<1>9. (UNION ClaimsOf(merged)) \cap Foreign = {}
  BY <1>3, <1>8
<1>10. /\ Apart(findings') /\ suppressed' \in Nat
       /\ Loses(ClaimsOf(findings'), ClaimsOf(merged), Foreign, suppressed')
  BY <1>5, <1>7, <1>8, <1>9, RankedClaims
<1>11. (UNION ClaimsOf(findings')) \cap Foreign = {}
  BY <1>8, <1>9, <1>10, StillNotAway
<1>12. Loses(ClaimsOf(findings'), ClaimsOf(findings), Foreign, 0 + suppressed')
  <2>1. 0 \in Nat
    OBVIOUS
  <2> QED
    BY <1>1, <1>8, <1>10, <2>1, PassesCompose
<1>13. (retracted' - retracted) + (suppressed' - suppressed) = 0 + suppressed'
  BY <1>2, <1>3, <1>10
<1>14. Claims' = ClaimsOf(findings')
  BY DEF Claims, ClaimsOf
<1> QED
  BY <1>1, <1>2, <1>3, <1>7, <1>10, <1>11, <1>12, <1>13, <1>14 DEF Passing

\* The reports, each for itself.
LEMMA SinglesAreApart ==
    ASSUME GraphInv PROVE Disjoint(Singles) /\ IsFiniteSet(Singles)
<1>1. Disjoint(Singles)
  BY DEF Singles, Disjoint
<1>2. IsFiniteSet(Singles)
  <2> DEFINE f == [r \in reports |-> {r}]
  <2>1. f \in Surjection(reports, Singles)
    <3>1. f \in [reports -> Singles]
      BY DEF Singles
    <3>2. \A c \in Singles : \E r \in reports : f[r] = c
      BY DEF Singles
    <3> HIDE DEF f
    <3> QED
      BY <3>1, <3>2 DEF Surjection
  <2> HIDE DEF f
  <2> QED
    BY <2>1, FS_Surjection DEF GraphInv
<1> QED
  BY <1>1, <1>2

LEMMA InitLedgerInv == ASSUME Init PROVE LedgerInv
BY DEF Init, LedgerInv, Apart, Claims, Singles

\* What a pass loses is counted on top.
LEMMA PassingCounts ==
    ASSUME GraphInv, LedgerInv, Passing PROVE LedgerInv'
<1>1. Loses(Claims, Singles, Foreign, retracted + suppressed)
  <2>1. CASE stage = "agents"
    <3>1. Claims = Singles /\ retracted = 0 /\ suppressed = 0
      BY <2>1 DEF LedgerInv
    <3>2. retracted + suppressed = 0
      BY <3>1
    <3> QED
      BY <3>1, <3>2, SinglesAreApart, LosesNothing
  <2>2. CASE stage \in {"critic", "merge"}
    BY <2>2 DEF LedgerInv
  <2> QED
    BY <2>1, <2>2 DEF Passing
<1> DEFINE m == retracted + suppressed
           n == (retracted' - retracted) + (suppressed' - suppressed)
<1>2. m \in Nat /\ n \in Nat /\ m + n = retracted' + suppressed'
  <2>1. /\ retracted \in Nat /\ suppressed \in Nat /\ retracted' \in Nat /\ suppressed' \in Nat
        /\ retracted <= retracted' /\ suppressed <= suppressed'
    BY DEF GraphInv, Passing
  <2> DEFINE a == retracted
             b == suppressed
             c == retracted'
             d == suppressed'
  <2>2. a \in Nat /\ b \in Nat /\ c \in Nat /\ d \in Nat /\ a <= c /\ b <= d
    BY <2>1
  <2> HIDE DEF a, b, c, d
  <2>3. /\ a + b \in Nat /\ (c - a) + (d - b) \in Nat
        /\ (a + b) + ((c - a) + (d - b)) = c + d
    BY <2>2
  <2> QED
    BY <2>3 DEF a, b, c, d
<1>3. Loses(Claims', Claims, Foreign, n)
  BY DEF Passing
<1> HIDE DEF m, n
<1>4. Loses(Claims', Singles, Foreign, m + n)
  <2>1. Loses(Claims, Singles, Foreign, m)
    BY <1>1 DEF m
  <2> QED
    BY <1>2, <1>3, <2>1, SinglesAreApart, LosesComposes
<1>5. Loses(Claims', Singles, Foreign, retracted' + suppressed')
  BY <1>2, <1>4
<1>6. Singles' = Singles /\ Foreign' = Foreign
  BY DEF Passing, Singles, Foreign, OfTheDiff
<1>7. Loses(Claims, Singles, Foreign, retracted + suppressed)'
  BY <1>5, <1>6 DEF Loses, Gone
<1>8. ((UNION Claims) \cap Foreign = {})'
  BY <1>6 DEF Passing
<1>9. Apart(findings)'
  BY DEF Passing, Apart
<1> QED
  BY <1>7, <1>8, <1>9 DEF Passing, LedgerInv

\* An agent's reports are new, and claims of their own.
LEMMA RunAgentCounts ==
    ASSUME GraphInv, LedgerInv, GraphInv', NEW a \in Agent, RunAgent(a), stage' # "raised"
    PROVE  LedgerInv' /\ reports \subseteq reports' /\ stage' = "agents"
<1>1. /\ stage = "agents" /\ a \in running
      /\ UNCHANGED <<diff, budget, answers, retracted, suppressed>>
  BY DEF RunAgent
<1>2. PICK found \in BoundedSeq(Reported, MaxReported) :
         /\ findings' = findings \o [i \in DOMAIN found |->
                from_finding(found[i], a, [agent |-> a, number |-> i, finding |-> found[i]])]
         /\ reports' = reports \cup {[agent |-> a, number |-> i, finding |-> found[i]] :
                                        i \in DOMAIN found}
         /\ running' = running \ {a}
         /\ UNCHANGED stage
  BY DEF RunAgent, Raise
<1> DEFINE One(i) == [agent |-> a, number |-> i, finding |-> found[i]]
           new == [i \in DOMAIN found |-> from_finding(found[i], a, One(i))]
           more == {One(i) : i \in DOMAIN found}
<1>3. /\ \A i \in DOMAIN findings : AsReported(findings[i])
      /\ Claims = Singles /\ Apart(findings)
      /\ \A r \in reports : r.agent \notin running
      /\ retracted = 0 /\ suppressed = 0
  BY <1>1 DEF LedgerInv
<1>4. PICK n \in 0 .. MaxReported : found \in [1 .. n -> Reported]
  BY DEF BoundedSeq, SeqOf
<1>5. n \in Nat /\ DOMAIN found = 1 .. n
  BY <1>4, GraphAssumption DEF GraphAssumption
<1>6. /\ findings' = findings \o new /\ reports' = reports \cup more
      /\ \A i \in 1 .. n : new[i].raised = {One(i)} /\ new[i].file = One(i).finding.file
      /\ DOMAIN new = 1 .. n /\ more = {One(i) : i \in 1 .. n}
  BY <1>2, <1>5 DEF from_finding
<1>7. \A i \in 1 .. n : One(i) \notin reports
  BY <1>1, <1>3
<1>8. \A i, j \in 1 .. n : One(i) = One(j) => i = j
  OBVIOUS
<1>9. findings \in Seq(Finding(reports))
  BY InHand
<1>10. new \in Seq(Finding(reports'))
  <2>1. ASSUME NEW i \in 1 .. n PROVE new[i] \in Finding(reports')
    <3> DEFINE r == One(i)
    <3>1. r \in Report /\ r \in reports' /\ r.finding = found[i] /\ r.agent = a
      <4>1. r \in reports'
        BY <1>6
      <4> QED
        BY <4>1 DEF GraphInv
    <3>2. new[i] = from_finding(r.finding, r.agent, r)
      BY <1>5
    <3> HIDE DEF r, new
    <3> QED
      BY <3>1, <3>2, ReportedFinding
  <2>2. new \in [1 .. n -> Finding(reports')]
    BY <1>5, <2>1
  <2> HIDE DEF new
  <2> QED
    BY <1>5, <2>2
<1> DEFINE o == Len(findings)
<1>11. /\ o \in Nat /\ DOMAIN findings = 1 .. o /\ DOMAIN findings' = 1 .. o + n
       /\ \A i \in 1 .. o : findings'[i] = findings[i]
       /\ \A i \in o + 1 .. o + n : findings'[i] = new[i - o]
  <2> DEFINE F == Finding(reports)
             G == Finding(reports')
             all == findings \o new
  <2>1. findings \in Seq(F) /\ new \in Seq(G)
    BY <1>9, <1>10
  <2> HIDE DEF new, F, G
  <2>2. Len(new) = n
    BY <1>5, <1>6, <2>1
  <2>3. DOMAIN findings = 1 .. Len(findings) /\ Len(findings) \in Nat
    BY <2>1
  <2>4. DOMAIN all = 1 .. Len(findings) + Len(new)
    BY <2>1, Concatenated
  <2>5. \A i \in 1 .. Len(findings) : all[i] = findings[i]
    BY <2>1, Concatenated
  <2>6. \A i \in Len(findings) + 1 .. Len(findings) + Len(new) : all[i] = new[i - Len(findings)]
    BY <2>1, Concatenated
  <2>7. findings' = all
    BY <1>6
  <2> HIDE DEF all
  <2> QED
    BY <2>2, <2>3, <2>4, <2>5, <2>6, <2>7
<1> HIDE DEF new, o
<1>12. \A i \in o + 1 .. o + n : i - o \in 1 .. n
  BY <1>5, <1>11
<1>13. 1 .. o + n = (1 .. o) \cup (o + 1 .. o + n)
  BY <1>5, <1>11
<1>14. ASSUME NEW i \in DOMAIN findings'
       PROVE  \/ i \in 1 .. o /\ findings'[i] = findings[i]
              \/ /\ i - o \in 1 .. n /\ findings'[i] = new[i - o]
                 /\ findings'[i].raised = {One(i - o)}
                 /\ findings'[i].file = One(i - o).finding.file
  BY <1>6, <1>11, <1>12, <1>13
<1>15. ASSUME NEW i \in DOMAIN findings'
       PROVE  \E r \in reports' : findings'[i].raised = {r} /\ findings'[i].file = r.finding.file
  <2>1. CASE i \in 1 .. o /\ findings'[i] = findings[i]
    BY <1>3, <1>6, <1>11, <2>1 DEF AsReported
  <2>2. CASE /\ i - o \in 1 .. n /\ findings'[i] = new[i - o]
             /\ findings'[i].raised = {One(i - o)}
             /\ findings'[i].file = One(i - o).finding.file
    <3>1. One(i - o) \in reports'
      BY <1>6, <2>2
    <3> QED
      BY <2>2, <3>1
  <2> QED
    BY <1>14, <2>1, <2>2
<1>16. \A i \in 1 .. o : findings[i].raised \subseteq reports
  BY <1>3, <1>11 DEF AsReported
<1>17. Apart(findings)'
  <2> SUFFICES ASSUME NEW i \in DOMAIN findings', NEW j \in DOMAIN findings', i # j
               PROVE  findings'[i].raised \cap findings'[j].raised = {}
    BY DEF Apart
  <2>1. CASE i \in 1 .. o /\ j \in 1 .. o
    BY <1>3, <1>11, <2>1 DEF Apart
  <2>2. CASE i \in 1 .. o /\ j \notin 1 .. o
    BY <1>7, <1>11, <1>14, <1>16, <2>2
  <2>3. CASE i \notin 1 .. o /\ j \in 1 .. o
    BY <1>7, <1>11, <1>14, <1>16, <2>3
  <2>4. CASE i \notin 1 .. o /\ j \notin 1 .. o
    <3>1. /\ i - o \in 1 .. n /\ findings'[i].raised = {One(i - o)}
          /\ j - o \in 1 .. n /\ findings'[j].raised = {One(j - o)}
      BY <1>14, <2>4
    <3>2. i - o # j - o
      BY <1>5, <1>11
    <3>3. One(i - o) # One(j - o)
      BY <1>8, <3>1, <3>2
    <3> HIDE DEF One
    <3> QED
      BY <3>1, <3>3
  <2> QED
    BY <2>1, <2>2, <2>3, <2>4
<1>18. Claims' = Singles'
  <2>1. ASSUME NEW c \in Claims' PROVE c \in Singles'
    BY <1>15 DEF Claims, Singles
  <2>2. ASSUME NEW r \in reports PROVE {r} \in Claims'
    <3>1. {r} \in Claims
      BY <1>3 DEF Singles
    <3>2. PICK i \in DOMAIN findings : findings[i].raised = {r}
      BY <3>1 DEF Claims
    <3>3. i \in DOMAIN findings' /\ findings'[i] = findings[i]
      BY <1>11, <1>13
    <3> QED
      BY <3>2, <3>3 DEF Claims
  <2>3. ASSUME NEW k \in 1 .. n PROVE {One(k)} \in Claims'
    <3>1. o + k \in o + 1 .. o + n /\ (o + k) - o = k
      BY <1>5, <1>11
    <3>2. o + k \in DOMAIN findings' /\ findings'[o + k] = new[k]
      BY <1>11, <1>13, <3>1
    <3> QED
      BY <1>6, <3>2 DEF Claims
  <2>4. ASSUME NEW c \in Singles' PROVE c \in Claims'
    BY <1>6, <2>2, <2>3 DEF Singles
  <2> QED
    BY <2>1, <2>4
<1>19. \A r \in reports' : r.agent \notin running'
  BY <1>2, <1>3, <1>6
<1> QED
  BY <1>1, <1>2, <1>3, <1>6, <1>15, <1>17, <1>18, <1>19 DEF LedgerInv, AsReported

LEMMA NextLedgerInv ==
    ASSUME GraphInv, LedgerInv, [Next]_vars, GraphInv' PROVE LedgerInv'
<1>1. CASE stage' = "raised" /\ UNCHANGED findings
  BY <1>1 DEF LedgerInv, Apart
<1>2. CASE Prepare
  <2>1. /\ stage = "prepare" /\ findings = <<>> /\ reports = {}
        /\ UNCHANGED <<findings, reports, retracted, suppressed>>
        /\ stage' \in {"agents", "done", "raised"}
    BY <1>2 DEF Prepare, Raise, GraphInv
  <2>2. Claims' = {} /\ Singles' = {} /\ Foreign' = {} /\ Apart(findings)'
    BY <2>1 DEF Claims, Singles, Foreign, Apart
  <2>3. retracted' = 0 /\ suppressed' = 0 /\ retracted' + suppressed' = 0
    BY <2>1 DEF LedgerInv
  <2>4. Loses({}, {}, {}, 0)
    BY LosesNothing DEF Disjoint
  <2>5. Loses(Claims, Singles, Foreign, retracted + suppressed)'
    BY <2>2, <2>3, <2>4 DEF Loses, Gone
  <2>6. ((UNION Claims) \cap Foreign = {})'
    BY <2>2
  <2> QED
    BY <2>1, <2>2, <2>3, <2>5, <2>6 DEF LedgerInv
<1>3. ASSUME NEW a \in Agent, RunAgent(a) PROVE LedgerInv'
  <2>1. CASE stage' = "raised"
    BY <1>1, <1>3, <2>1 DEF RunAgent
  <2>2. CASE stage' # "raised"
    BY <1>3, <2>2, RunAgentCounts
  <2> QED
    BY <2>1, <2>2
<1>4. CASE Collapse
  BY <1>4, CollapsePasses, PassingCounts
<1>5. ASSUME NEW i \in DOMAIN budget.files, JudgeOneFile(i) PROVE LedgerInv'
  <2>1. /\ stage = "critic" /\ stage' \in {"critic", "raised"}
        /\ UNCHANGED <<diff, budget, running, findings, reports, retracted, suppressed, calls>>
    BY <1>5 DEF JudgeOneFile, Raise
  <2>2. Claims' = Claims /\ Singles' = Singles /\ Foreign' = Foreign
    BY <2>1 DEF Claims, Singles, Foreign, OfTheDiff
  <2> QED
    BY <2>1, <2>2 DEF LedgerInv, Apart, Loses, Gone
<1>6. CASE ReviewFindings
  BY <1>6, ReviewPasses, PassingCounts
<1>7. CASE MergeFindings
  <2>1. CASE Raise
    BY <1>1, <1>7, <2>1 DEF Raise, MergeFindings, Finish
  <2>2. CASE ~Raise
    BY <1>7, <2>2, MergePasses, PassingCounts
  <2> QED
    BY <2>1, <2>2
<1>8. CASE UNCHANGED vars
  <2>1. UNCHANGED <<stage, budget, running, findings, reports, retracted, suppressed>>
    BY <1>8 DEF vars
  <2>2. Claims' = Claims /\ Singles' = Singles /\ Foreign' = Foreign
    BY <2>1 DEF Claims, Singles, Foreign, OfTheDiff
  <2> QED
    BY <2>1, <2>2 DEF LedgerInv, Apart, AsReported, Loses, Gone
<1> QED
  BY <1>2, <1>3, <1>4, <1>5, <1>6, <1>7, <1>8 DEF Next

\* What ReviewSafety says of every finding, and what becomes of the claims.
AccountInv == GraphInv /\ LedgerInv

LEMMA AccountInvariance == Spec => []AccountInv
<1>1. Init => AccountInv
  BY InitGraphInv, InitLedgerInv DEF AccountInv
<1>2. AccountInv /\ [Next]_vars => AccountInv'
  BY NextGraphInv, NextLedgerInv DEF AccountInv
<1> QED
  BY <1>1, <1>2, PTL DEF Spec

\* However collapse, the critic, the merge pass and the cut go about it, what
\* was reported on the diff is in one posted finding, or the counts of retracted
\* and withheld findings say that something is not (graph/dedupe.py:189-199,
\* models.py:124-146).
THEOREM ReportsAreAlwaysAccountedFor == Spec => []ReportsAreAccountedFor
<1>1. AccountInv => ReportsAreAccountedFor
  <2> SUFFICES ASSUME AccountInv, stage = "done"
               PROVE  /\ Unposted = {} <=> retracted + suppressed = 0
                      /\ retracted + suppressed <= Cardinality(Unposted)
                      /\ \A f, g \in Posted : f # g => f.raised \cap g.raised = {}
    BY DEF ReportsAreAccountedFor
  <2> DEFINE gone == Gone(Claims, Singles, Foreign)
             n == retracted + suppressed
             alone == [r \in Unposted |-> {r}]
  <2>1. n <= Cardinality(gone) /\ (n = 0 <=> gone = {})
    BY DEF AccountInv, LedgerInv, Loses
  <2>2. \A r : r \in UNION Claims <=> \E f \in Posted : r \in f.raised
    BY DEF Claims, Posted, Range
  <2>3. \A r \in reports : r \in Unposted <=> {r} \in gone
    BY <2>2 DEF Unposted, Gone, Singles, Foreign
  <2>4. Unposted \subseteq reports /\ gone \subseteq Singles
    BY DEF Unposted, Gone
  <2>5. alone \in Bijection(Unposted, gone)
    <3>1. alone \in [Unposted -> gone]
      BY <2>3, <2>4
    <3>2. \A c \in gone : \E r \in Unposted : alone[r] = c
      BY <2>3, <2>4 DEF Singles
    <3>3. \A r, s \in Unposted : alone[r] = alone[s] => r = s
      OBVIOUS
    <3> HIDE DEF alone, gone
    <3> QED
      BY <3>1, <3>2, <3>3 DEF Bijection, Injection, IsInjective, Surjection
  <2>6. IsFiniteSet(Unposted)
    BY <2>4, FS_Subset DEF AccountInv, GraphInv
  <2>7. Cardinality(gone) = Cardinality(Unposted)
    <3> HIDE DEF alone, gone
    <3>1. ExistsBijection(Unposted, gone)
      BY <2>5 DEF ExistsBijection
    <3> QED
      BY <2>6, <3>1, FS_Bijection
  <2>8. Unposted = {} <=> gone = {}
    BY <2>3, <2>4 DEF Singles
  <2>9. ASSUME NEW f \in Posted, NEW g \in Posted, f # g PROVE f.raised \cap g.raised = {}
    <3>1. PICK i \in DOMAIN findings, j \in DOMAIN findings : f = findings[i] /\ g = findings[j]
      BY DEF Posted, Range
    <3> QED
      BY <2>9, <3>1 DEF AccountInv, LedgerInv, Apart
  <2> HIDE DEF gone, n, alone
  <2>10. (Unposted = {} <=> n = 0) /\ n <= Cardinality(Unposted)
    BY <2>1, <2>7, <2>8
  <2> QED
    BY <2>9, <2>10 DEF n
<1> QED
  BY <1>1, AccountInvariance, PTL

-----------------------------------------------------------------------------
(* The graph as a ReviewLedger.                                             *)

LEMMA LedgerCounts == \A S : Ledger!Cardinality(S) = Cardinality(S)
BY DEF Ledger!Cardinality, Cardinality

\* A request that raises ends the run with the books as they are.
LEMMA RaiseMaps ==
    ASSUME stage \in {"prepare", "agents", "critic", "merge"}, stage' = "raised",
           UNCHANGED <<budget, findings, reports, retracted, suppressed>>
    PROVE  Ledger!Raise
<1>1. LedgerState \in {"open", "checking"} /\ LedgerState' = "raised"
  BY DEF LedgerState
<1>2. Claims' = Claims /\ Foreign' = Foreign
  BY DEF Claims, Foreign, OfTheDiff
<1> QED
  BY <1>1, <1>2 DEF Ledger!Raise

\* Preparing, and an answer of the critic, are no business of the ledger's.
LEMMA StutterMaps ==
    ASSUME LedgerState' = LedgerState, UNCHANGED <<findings, reports, retracted, suppressed>>,
           UNCHANGED budget \/ reports = {}
    PROVE  UNCHANGED Ledger!ledger
<1>1. Claims' = Claims /\ Foreign' = Foreign
  BY DEF Claims, Foreign, OfTheDiff
<1> QED
  BY <1>1 DEF Ledger!ledger

LEMMA PassingMaps ==
    ASSUME AccountInv, Passing PROVE Ledger!Account
<1>1. /\ \/ LedgerState = "open" /\ LedgerState' \in {"checking", "done"}
         \/ LedgerState = "checking" /\ LedgerState' \in {"checking", "done"}
      /\ stage' = "done" => LedgerState' = "done"
  BY DEF Passing, LedgerState
<1>2. Foreign' = Foreign
  BY DEF Passing, Foreign, OfTheDiff
<1>3. suppressed' # suppressed => LedgerState' = "done"
  BY <1>1 DEF Passing, AccountInv, LedgerInv
<1>4. Ledger!Joined /\ Ledger!Apart
  BY DEF Passing, Loses, Ledger!Joined, Ledger!Apart
<1> QED
  BY <1>1, <1>2, <1>3, <1>4, LedgerCounts DEF Passing, Loses, Gone, Ledger!Account

\* Nothing was there to be reviewed.
LEMMA NothingMaps ==
    ASSUME stage = "prepare", stage' = "done", findings = <<>>, reports = {},
           retracted = 0, suppressed = 0,
           UNCHANGED <<findings, reports, retracted, suppressed>>
    PROVE  Ledger!Account
<1>1. Claims = {} /\ Claims' = {} /\ Foreign = {} /\ Foreign' = {}
  BY DEF Claims, Foreign
<1>2. LedgerState = "open" /\ LedgerState' = "done"
  BY DEF LedgerState
<1>3. Ledger!Joined /\ Ledger!Apart
  BY <1>1 DEF Ledger!Joined, Ledger!Apart
<1> DEFINE gone == {c \in Claims : c \cap UNION Claims' = {} /\ ~(c \subseteq Foreign)}
           counted == (retracted' - retracted) + (suppressed' - suppressed)
<1>4. gone = {} /\ Cardinality(gone) = 0 /\ counted = 0
  <2>1. gone = {}
    BY <1>1
  <2> HIDE DEF gone
  <2> QED
    BY <2>1, FS_EmptySet
<1>5. (UNION Claims') \cap Foreign = {}
  BY <1>1
<1>6. retracted <= retracted' /\ suppressed <= suppressed' /\ suppressed' = suppressed
  OBVIOUS
<1>7. counted <= Cardinality(gone) /\ (counted = 0 <=> gone = {})
  BY <1>4
<1> QED
  BY <1>1, <1>2, <1>3, <1>5, <1>6, <1>7, LedgerCounts DEF Ledger!Account

LEMMA RunAgentMaps ==
    ASSUME AccountInv, GraphInv', NEW a \in Agent, RunAgent(a), stage' # "raised"
    PROVE  Ledger!Collect
<1>1. /\ stage = "agents" /\ stage' = "agents" /\ UNCHANGED <<budget, retracted, suppressed>>
      /\ Claims = Singles /\ Claims' = Singles' /\ reports \subseteq reports'
  <2>1. stage = "agents" /\ UNCHANGED <<budget, retracted, suppressed>>
    BY DEF RunAgent
  <2>2. LedgerInv' /\ reports \subseteq reports' /\ stage' = "agents"
    BY RunAgentCounts DEF AccountInv
  <2> QED
    BY <2>1, <2>2 DEF AccountInv, LedgerInv
<1>2. LedgerState = "open" /\ LedgerState' = "open"
  BY <1>1 DEF LedgerState
<1>3. Claims \subseteq Claims'
  BY <1>1 DEF Singles
<1>4. ASSUME NEW c \in Claims' \ Claims
      PROVE  Cardinality(c) = 1 /\ c \cap UNION Claims = {}
  <2>1. PICK r \in reports' : c = {r}
    BY <1>1 DEF Singles
  <2>2. r \notin reports
    BY <1>1, <2>1 DEF Singles
  <2> QED
    BY <1>1, <2>1, <2>2, FS_Singleton DEF Singles
<1>5. Foreign \subseteq Foreign' /\ Foreign' \ Foreign \subseteq UNION Claims'
  <2>1. Foreign \subseteq Foreign'
    BY <1>1 DEF Foreign, OfTheDiff
  <2>2. ASSUME NEW r \in Foreign' PROVE r \in UNION Claims'
    <3>1. r \in reports'
      BY DEF Foreign
    <3> QED
      BY <1>1, <3>1 DEF Singles
  <2> QED
    BY <2>1, <2>2
<1> QED
  BY <1>1, <1>2, <1>3, <1>4, <1>5, LedgerCounts DEF Ledger!Collect

LEMMA NextMapsToLedger ==
    ASSUME AccountInv, [Next]_vars, GraphInv'
    PROVE  [Ledger!Next]_Ledger!ledger
<1>1. CASE Prepare
  <2>1. /\ stage = "prepare" /\ findings = <<>> /\ reports = {}
        /\ UNCHANGED <<findings, reports, retracted, suppressed>>
        /\ \/ stage' \in {"agents", "done"}
           \/ stage' = "raised" /\ UNCHANGED budget
    BY <1>1 DEF Prepare, Raise, AccountInv, GraphInv
  <2>2. CASE stage' = "agents"
    <3>1. LedgerState' = LedgerState
      BY <2>1, <2>2 DEF LedgerState
    <3> QED
      BY <2>1, <3>1, StutterMaps
  <2>3. CASE stage' = "done"
    <3>1. retracted = 0 /\ suppressed = 0
      BY <2>1 DEF AccountInv, LedgerInv
    <3>2. Ledger!Account
      BY <2>1, <2>3, <3>1, NothingMaps
    <3> QED
      BY <3>2 DEF Ledger!Next
  <2>4. CASE stage' = "raised" /\ UNCHANGED budget
    <3>1. Ledger!Raise
      BY <2>1, <2>4, RaiseMaps
    <3> QED
      BY <3>1 DEF Ledger!Next
  <2> QED
    BY <2>1, <2>2, <2>3, <2>4
<1>2. ASSUME NEW a \in Agent, RunAgent(a) PROVE Ledger!Next
  <2>1. CASE stage' = "raised"
    <3>1. stage = "agents" /\ UNCHANGED <<budget, findings, reports, retracted, suppressed>>
      BY <1>2, <2>1 DEF RunAgent, Raise
    <3>2. Ledger!Raise
      BY <2>1, <3>1, RaiseMaps
    <3> QED
      BY <3>2 DEF Ledger!Next
  <2>2. CASE stage' # "raised"
    <3>1. Ledger!Collect
      BY <1>2, <2>2, RunAgentMaps
    <3> QED
      BY <3>1 DEF Ledger!Next
  <2> QED
    BY <2>1, <2>2
<1>3. CASE Collapse
  <2>1. Ledger!Account
    BY <1>3, CollapsePasses, PassingMaps DEF AccountInv
  <2> QED
    BY <2>1 DEF Ledger!Next
<1>4. ASSUME NEW i \in DOMAIN budget.files, JudgeOneFile(i)
      PROVE  [Ledger!Next]_Ledger!ledger
  <2>1. /\ stage = "critic" /\ stage' \in {"critic", "raised"}
        /\ UNCHANGED <<budget, findings, reports, retracted, suppressed>>
    BY <1>4 DEF JudgeOneFile, Raise
  <2>2. CASE stage' = "critic"
    <3>1. LedgerState' = LedgerState
      BY <2>1, <2>2 DEF LedgerState
    <3> QED
      BY <2>1, <3>1, StutterMaps
  <2>3. CASE stage' = "raised"
    <3>1. Ledger!Raise
      BY <2>1, <2>3, RaiseMaps
    <3> QED
      BY <3>1 DEF Ledger!Next
  <2> QED
    BY <2>1, <2>2, <2>3
<1>5. CASE ReviewFindings
  <2>1. Ledger!Account
    BY <1>5, ReviewPasses, PassingMaps DEF AccountInv
  <2> QED
    BY <2>1 DEF Ledger!Next
<1>6. CASE MergeFindings
  <2>1. CASE Raise
    <3>1. /\ stage = "merge" /\ stage' = "raised"
          /\ UNCHANGED <<budget, findings, reports, retracted, suppressed>>
      BY <1>6, <2>1 DEF MergeFindings, Raise, Finish
    <3>2. Ledger!Raise
      BY <3>1, RaiseMaps
    <3> QED
      BY <3>2 DEF Ledger!Next
  <2>2. CASE ~Raise
    <3>1. Ledger!Account
      BY <1>6, <2>2, MergePasses, PassingMaps DEF AccountInv
    <3> QED
      BY <3>1 DEF Ledger!Next
  <2> QED
    BY <2>1, <2>2
<1>7. CASE UNCHANGED vars
  <2>1. UNCHANGED <<budget, findings, reports, retracted, suppressed>> /\ LedgerState' = LedgerState
    BY <1>7 DEF vars, LedgerState
  <2> QED
    BY <2>1, StutterMaps
<1> QED
  BY <1>1, <1>2, <1>3, <1>4, <1>5, <1>6, <1>7 DEF Next

\* Step by step the graph keeps the promise of ReviewLedger: an agent's answer
\* opens claims, collapse, the critic and the merge pass join them, and none is
\* split, comes back, or goes away uncounted (graph/nodes.py, graph/build.py).
THEOREM GraphImplementsLedger == Spec => ImplementsLedger
<1>1. Init => Ledger!Init
  BY DEF Init, LedgerState, Claims, Foreign, Ledger!Init
<1>2. AccountInv /\ AccountInv' /\ [Next]_vars => [Ledger!Next]_Ledger!ledger
  BY NextMapsToLedger DEF AccountInv
<1> QED
  BY <1>1, <1>2, AccountInvariance, PTL DEF Spec, ImplementsLedger, Ledger!Spec
=============================================================================
