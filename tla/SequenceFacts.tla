---------------------------- MODULE SequenceFacts ----------------------------
(***************************************************************************)
(* What the proofs about the pipeline need to know of sequences: extremes, *)
(* ranks, the elements that Selection picks, folds and sums.               *)
(***************************************************************************)
EXTENDS Selection, FiniteSetTheorems, SequenceTheorems,
        WellFoundedInduction, TLAPS

\* Induction, for a set and not for an operator: to be had from that every
\* nonempty set of natural numbers has a least element.
LEMMA SetInduction ==
    ASSUME NEW S, 0 \in S, \A n \in Nat : n \in S => n + 1 \in S
    PROVE  Nat \subseteq S
<1> DEFINE below == {ss \in Nat \X Nat : ss[1] < ss[2]}
           bad == Nat \ S
<1>1. IsWellFoundedOn(below, Nat)
  BY NatLessThanWellFounded DEF OpToRel
<1>2. \A i, j \in Nat : <<i, j>> \in below <=> i < j
  OBVIOUS
<1> HIDE DEF below
<1>3. ASSUME bad # {} PROVE FALSE
  <2>1. PICK d \in bad : \A e \in bad : <<e, d>> \notin below
    BY <1>1, <1>3, WFMin
  <2>2. d \in Nat /\ d # 0 /\ d \notin S
    BY <2>1
  <2>3. d - 1 \in Nat /\ d - 1 < d /\ (d - 1) + 1 = d
    BY <2>2
  <2>4. d - 1 \in S
    BY <2>1, <2>2, <2>3, <1>2
  <2> QED
    BY <2>2, <2>3, <2>4
<1> QED
  BY <1>3

\* The same up to a bound.
LEMMA InductionUpTo ==
    ASSUME NEW N \in Nat, NEW S, 0 \in S, \A n \in 1 .. N : n - 1 \in S => n \in S
    PROVE  0 .. N \subseteq S
<1> DEFINE T == {n \in Nat : n <= N => n \in S}
<1>1. 0 \in T
  OBVIOUS
<1>2. ASSUME NEW n \in Nat, n \in T PROVE n + 1 \in T
  <2> SUFFICES ASSUME n + 1 <= N PROVE n + 1 \in S
    OBVIOUS
  <2>1. n \in S /\ n + 1 \in 1 .. N /\ (n + 1) - 1 = n
    BY <1>2
  <2> QED
    BY <2>1
<1> HIDE DEF T
<1>3. Nat \subseteq T
  BY <1>1, <1>2, SetInduction
<1> QED
  BY <1>3 DEF T

-----------------------------------------------------------------------------
(* Extremes.                                                               *)

LEMMA MinExists ==
    ASSUME NEW S \in SUBSET Nat, S # {}
    PROVE  Min(S) \in S /\ \A x \in S : Min(S) <= x
<1> DEFINE below == {ss \in Nat \X Nat : ss[1] < ss[2]}
<1>1. IsWellFoundedOn(below, Nat)
  BY NatLessThanWellFounded DEF OpToRel
<1>2. \A i, j \in Nat : <<i, j>> \in below <=> i < j
  OBVIOUS
<1> HIDE DEF below
<1>3. PICK d \in S : \A e \in S : <<e, d>> \notin below
  BY <1>1, WFMin
<1>4. \A e \in S : d <= e
  <2> TAKE e \in S
  <2>1. d \in Nat /\ e \in Nat /\ ~(e < d)
    BY <1>2, <1>3
  <2> QED
    BY <2>1
<1> QED
  BY <1>4 DEF Min

LEMMA MaxOfBounded ==
    ASSUME NEW S \in SUBSET Nat, S # {}, NEW b \in Nat, \A x \in S : x <= b
    PROVE  Max(S) \in S /\ \A x \in S : x <= Max(S)
<1> DEFINE far == {b - x : x \in S}
<1>1. far \in SUBSET Nat /\ far # {}
  <2>1. \A x \in S : x \in Nat /\ b - x \in Nat
    OBVIOUS
  <2> QED
    BY <2>1
<1>2. Min(far) \in far /\ \A y \in far : Min(far) <= y
  BY <1>1, MinExists
<1>3. PICK d \in S : Min(far) = b - d
  BY <1>2
<1>4. \A x \in S : d >= x
  <2> TAKE x \in S
  <2>1. b - d <= b - x
    BY <1>2, <1>3
  <2> QED
    BY <2>1
<1> QED
  BY <1>4 DEF Max

\* The values of a finite sequence of numbers have an upper bound.
LEMMA ValuesAreBounded ==
    ASSUME NEW n \in Nat, NEW g \in [1 .. n -> Nat]
    PROVE  \E b \in Nat : \A i \in 1 .. n : g[i] <= b
<1> DEFINE S == {m \in 0 .. n : \E b \in Nat : \A i \in 1 .. m : g[i] <= b}
<1>1. 0 \in S
  OBVIOUS
<1>2. ASSUME NEW m \in 1 .. n, m - 1 \in S PROVE m \in S
  <2>1. PICK b \in Nat : \A i \in 1 .. m - 1 : g[i] <= b
    BY <1>2
  <2>2. g[m] \in Nat /\ \A i \in 1 .. m : i \in 1 .. m - 1 \/ i = m
    BY <1>2
  <2>3. CASE g[m] <= b
    BY <2>1, <2>2, <2>3
  <2>4. CASE b <= g[m]
    <3>1. \A i \in 1 .. m : g[i] \in Nat
      OBVIOUS
    <3> QED
      BY <2>1, <2>2, <2>4, <3>1, SMTT(30)
  <2> QED
    BY <2>2, <2>3, <2>4
<1> HIDE DEF S
<1>3. n \in S
  BY <1>1, <1>2, InductionUpTo, n \in 0 .. n
<1> QED
  BY <1>3 DEF S

LEMMA MaxOfValues ==
    ASSUME NEW n \in Nat, n # 0, NEW g \in [1 .. n -> Nat]
    PROVE  LET S == {g[i] : i \in 1 .. n}
           IN  Max(S) \in S /\ \A i \in 1 .. n : g[i] <= Max(S)
<1>1. PICK b \in Nat : \A i \in 1 .. n : g[i] <= b
  BY ValuesAreBounded
<1> DEFINE S == {g[i] : i \in 1 .. n}
<1>2. S \in SUBSET Nat /\ g[1] \in S /\ \A x \in S : x <= b
  BY <1>1
<1> HIDE DEF S
<1>3. Max(S) \in S /\ \A x \in S : x <= Max(S)
  BY <1>2, MaxOfBounded
<1> QED
  BY <1>3 DEF S

-----------------------------------------------------------------------------
(* Ranks.                                                                  *)

\* R orders D strictly and totally.
Orders(R, D) ==
    /\ \A i \in D : <<i, i>> \notin R
    /\ \A i, j \in D : i # j => <<i, j>> \in R \/ <<j, i>> \in R
    /\ \A i, j, k \in D : <<i, j>> \in R /\ <<j, k>> \in R => <<i, k>> \in R

Before(R, D, i) == {j \in D : <<j, i>> \in R}

\* What goes earlier has fewer before it.
LEMMA RankGrows ==
    ASSUME NEW D, IsFiniteSet(D), NEW R, Orders(R, D),
           NEW i \in D, NEW j \in D, <<i, j>> \in R
    PROVE  Cardinality(Before(R, D, i)) < Cardinality(Before(R, D, j))
<1> DEFINE A == Before(R, D, i)
           B == Before(R, D, j)
<1>1. A \subseteq B /\ i \in B /\ i \notin A /\ B \subseteq D
  BY DEF Before, Orders
<1>2. IsFiniteSet(B) /\ IsFiniteSet(A)
  BY <1>1, FS_Subset
<1>3. Cardinality(A) <= Cardinality(B) /\ Cardinality(A) # Cardinality(B)
  BY <1>1, <1>2, FS_Subset
<1>4. Cardinality(A) \in Nat /\ Cardinality(B) \in Nat
  BY <1>2, FS_CardinalityType
<1> QED
  BY <1>3, <1>4

\* The ranks of the elements of a finite set are its first numbers, each once.
LEMMA RankIsOnto ==
    ASSUME NEW D, IsFiniteSet(D), NEW R, Orders(R, D)
    PROVE  /\ \A i \in D : Cardinality(Before(R, D, i)) \in 0 .. Cardinality(D) - 1
           /\ \A i, j \in D :
                 <<i, j>> \in R <=> Cardinality(Before(R, D, i)) < Cardinality(Before(R, D, j))
           /\ \A k \in 1 .. Cardinality(D) :
                 \E i \in D : Cardinality(Before(R, D, i)) = k - 1
<1> DEFINE n == Cardinality(D)
           rank == [i \in D |-> Cardinality(Before(R, D, i))]
<1>1. n \in Nat
  BY FS_CardinalityType
<1>2. ASSUME NEW i \in D PROVE rank[i] \in 0 .. n - 1
  <2> DEFINE A == Before(R, D, i)
  <2>1. A \in SUBSET (D \ {i})
    BY DEF Before, Orders
  <2>2. IsFiniteSet(D \ {i}) /\ Cardinality(D \ {i}) = n - 1
    BY FS_RemoveElement
  <2>3. IsFiniteSet(A) /\ Cardinality(A) <= n - 1
    BY <2>1, <2>2, FS_Subset
  <2>4. Cardinality(A) \in Nat
    BY <2>3, FS_CardinalityType
  <2> QED
    BY <1>1, <2>3, <2>4
<1>3. ASSUME NEW i \in D, NEW j \in D, <<i, j>> \in R PROVE rank[i] < rank[j]
  BY <1>3, RankGrows
<1>4. ASSUME NEW i \in D, NEW j \in D, rank[i] < rank[j] PROVE <<i, j>> \in R
  <2>1. i # j /\ rank[i] \in Nat /\ rank[j] \in Nat
    BY <1>1, <1>2, <1>4
  <2>2. CASE <<j, i>> \in R
    BY <1>3, <1>4, <2>1, <2>2
  <2> QED
    BY <2>1, <2>2 DEF Orders
<1>5. ASSUME NEW i \in D, NEW j \in D, rank[i] = rank[j] PROVE i = j
  <2>1. rank[i] \in Nat /\ ~(rank[i] < rank[j]) /\ ~(rank[j] < rank[i])
    BY <1>1, <1>2, <1>5
  <2> HIDE DEF rank
  <2> QED
    BY <1>3, <2>1 DEF Orders
<1>6. rank \in Injection(D, 0 .. n - 1)
  <2>1. rank \in [D -> 0 .. n - 1]
    BY <1>2
  <2> HIDE DEF rank, n
  <2> QED
    BY <1>5, <2>1 DEF Injection, IsInjective
<1>7. IsFiniteSet(0 .. n - 1) /\ Cardinality(0 .. n - 1) = n
  BY <1>1, FS_Interval
<1>8. rank \in Surjection(D, 0 .. n - 1)
  <2> HIDE DEF rank
  <2> QED
    BY <1>6, <1>7, FS_Injection
<1>9. \A k \in 0 .. n - 1 : \E i \in D : rank[i] = k
  <2> HIDE DEF rank, n
  <2> QED
    BY <1>8 DEF Surjection
<1>10. ASSUME NEW k \in 1 .. n PROVE \E i \in D : rank[i] = k - 1
  <2>1. k - 1 \in 0 .. n - 1
    BY <1>1
  <2> QED
    BY <1>9, <2>1
<1> QED
  BY <1>2, <1>3, <1>4, <1>10

-----------------------------------------------------------------------------
(* What Selection picks.                                                   *)

\* The positions from first to last are those of the set, each once.
LEMMA NthEnumerates ==
    ASSUME NEW n \in Nat, NEW at \in SUBSET (1 .. n)
    PROVE  /\ IsFiniteSet(at) /\ Cardinality(at) \in 0 .. n
           /\ \A k \in 1 .. Cardinality(at) : Nth(at, k) \in at
           /\ \A k, l \in 1 .. Cardinality(at) : k < l => Nth(at, k) < Nth(at, l)
           /\ \A i \in at : \E k \in 1 .. Cardinality(at) : Nth(at, k) = i
<1> DEFINE R == {p \in (1 .. n) \X (1 .. n) : p[1] < p[2]}
           N == Cardinality(at)
<1>1. IsFiniteSet(at) /\ N \in 0 .. n
  <2>1. IsFiniteSet(1 .. n) /\ Cardinality(1 .. n) = n
    BY FS_Interval
  <2>2. IsFiniteSet(at) /\ N <= n
    BY <2>1, FS_Subset
  <2> QED
    BY <2>2, FS_CardinalityType
<1>2. \A i, j \in at : <<i, j>> \in R <=> i < j
  OBVIOUS
<1>3. Orders(R, at)
  <2> HIDE DEF R
  <2>1. \A i \in at : i \in Nat
    OBVIOUS
  <2> QED
    BY <1>2, <2>1 DEF Orders
<1> DEFINE rank == [i \in at |-> Cardinality({j \in at : j < i})]
<1>4. \A i \in at : Cardinality(Before(R, at, i)) = rank[i]
  <2> TAKE i \in at
  <2>1. Before(R, at, i) = {j \in at : j < i}
    BY <1>2 DEF Before
  <2> QED
    BY <2>1
<1>5. \A k \in Nat : Nth(at, k) = CHOOSE i \in at : rank[i] = k - 1
  BY DEF Nth
<1> HIDE DEF R, rank, N
<1>6. \A i \in at : rank[i] \in 0 .. N - 1
  BY <1>1, <1>3, <1>4, RankIsOnto DEF N
<1>7. \A i, j \in at : i < j <=> rank[i] < rank[j]
  <2>1. \A i, j \in at :
            <<i, j>> \in R <=> Cardinality(Before(R, at, i)) < Cardinality(Before(R, at, j))
    BY <1>1, <1>3, RankIsOnto
  <2> TAKE i, j \in at
  <2>2. <<i, j>> \in R <=> i < j
    BY <1>2
  <2>3. Cardinality(Before(R, at, i)) = rank[i] /\ Cardinality(Before(R, at, j)) = rank[j]
    BY <1>4
  <2> QED
    BY <2>1, <2>2, <2>3
<1>8. \A k \in 1 .. N : \E i \in at : rank[i] = k - 1
  BY <1>1, <1>3, <1>4, RankIsOnto, ZenonT(60) DEF N
<1>9. ASSUME NEW k \in 1 .. N PROVE Nth(at, k) \in at /\ rank[Nth(at, k)] = k - 1
  <2>1. k \in Nat
    BY <1>1
  <2> QED
    BY <1>5, <1>8, <2>1
<1>10. ASSUME NEW k \in 1 .. N, NEW l \in 1 .. N, k < l PROVE Nth(at, k) < Nth(at, l)
  <2>1. k - 1 < l - 1
    BY <1>1, <1>10
  <2> QED
    BY <1>7, <1>9, <2>1
<1>11. ASSUME NEW i \in at PROVE \E k \in 1 .. N : Nth(at, k) = i
  <2> DEFINE k == rank[i] + 1
  <2>1. k \in 1 .. N /\ k - 1 = rank[i] /\ rank[i] \in Nat
    BY <1>1, <1>6
  <2> HIDE DEF k
  <2> DEFINE m == Nth(at, k)
  <2>2. m \in at /\ rank[m] = rank[i]
    BY <1>9, <2>1
  <2> HIDE DEF m
  <2>3. m \in Nat /\ i \in Nat /\ ~(m < i) /\ ~(i < m)
    BY <1>7, <2>1, <2>2
  <2>4. m = i
    BY <2>3
  <2> QED
    BY <2>1, <2>4 DEF m
<1> QED
  BY <1>1, <1>9, <1>10, <1>11 DEF N

\* What is selected are the elements at the positions, in their order.
LEMMA SelectedElements ==
    ASSUME NEW T, NEW seq \in Seq(T), NEW at \in SUBSET (DOMAIN seq)
    PROVE  /\ Selected(seq, at) \in Seq(T)
           /\ Len(Selected(seq, at)) = Cardinality(at)
           /\ DOMAIN Selected(seq, at) = 1 .. Cardinality(at)
           /\ Cardinality(at) \in 0 .. Len(seq)
           /\ \A k \in 1 .. Cardinality(at) :
                 Nth(at, k) \in at /\ Selected(seq, at)[k] = seq[Nth(at, k)]
           /\ \A k, l \in 1 .. Cardinality(at) : k < l => Nth(at, k) < Nth(at, l)
           /\ \A i \in at : \E k \in 1 .. Cardinality(at) :
                 Nth(at, k) = i /\ Selected(seq, at)[k] = seq[i]
<1> DEFINE n == Len(seq)
           N == Cardinality(at)
           sel == Selected(seq, at)
<1>1. n \in Nat /\ DOMAIN seq = 1 .. n /\ \A i \in 1 .. n : seq[i] \in T
  OBVIOUS
<1>2. /\ N \in 0 .. n
      /\ \A k \in 1 .. N : Nth(at, k) \in at
      /\ \A k, l \in 1 .. N : k < l => Nth(at, k) < Nth(at, l)
      /\ \A i \in at : \E k \in 1 .. N : Nth(at, k) = i
  BY <1>1, NthEnumerates
<1>3. sel = [k \in 1 .. N |-> seq[Nth(at, k)]]
  BY DEF Selected
<1>4. sel \in [1 .. N -> T]
  BY <1>1, <1>2, <1>3
<1> HIDE DEF n, N, sel
<1>5. sel \in Seq(T) /\ Len(sel) = N
  BY <1>1, <1>2, <1>4
<1> QED
  BY <1>2, <1>3, <1>5 DEF n, N, sel

\* What is arranged by a total order is every element, once, in that order.
ArrangedAt(out, seq, R, place) ==
    /\ place \in [1 .. Len(seq) -> 1 .. Len(seq)]
    /\ \A k \in 1 .. Len(seq) : out[k] = seq[place[k]]
    /\ \A k, l \in 1 .. Len(seq) : k < l => <<place[k], place[l]>> \in R
    /\ \A i \in 1 .. Len(seq) : \E k \in 1 .. Len(seq) : place[k] = i

LEMMA ArrangedElements ==
    ASSUME NEW T, NEW seq \in Seq(T), NEW R, Orders(R, DOMAIN seq)
    PROVE  /\ Arranged(seq, R) \in Seq(T)
           /\ Len(Arranged(seq, R)) = Len(seq)
           /\ \E place : ArrangedAt(Arranged(seq, R), seq, R, place)
<1> DEFINE n == Len(seq)
           D == DOMAIN seq
           rank == [j \in D |-> Cardinality({i \in D : <<i, j>> \in R})]
           place == [k \in D |-> Ranked(D, R, k)]
<1>1. n \in Nat /\ D = 1 .. n /\ \A i \in D : seq[i] \in T
  OBVIOUS
<1>2. IsFiniteSet(D) /\ Cardinality(D) = n
  <2>1. IsFiniteSet(1 .. n) /\ Cardinality(1 .. n) = IF 1 > n THEN 0 ELSE n - 1 + 1
    BY <1>1, FS_Interval
  <2> QED
    BY <1>1, <2>1
<1>3. Orders(R, D)
  OBVIOUS
<1>4. \A j \in D : Cardinality(Before(R, D, j)) = rank[j]
  BY DEF Before
<1>5. Arranged(seq, R) = [k \in D |-> seq[place[k]]]
  BY DEF Arranged
<1>6. \A k \in D : place[k] = CHOOSE j \in D : rank[j] = k - 1
  BY DEF Ranked
<1> HIDE DEF D, rank, place
<1>7. /\ \A i \in D : rank[i] \in 0 .. n - 1
      /\ \A i, j \in D : <<i, j>> \in R <=> rank[i] < rank[j]
      /\ \A k \in 1 .. n : \E i \in D : rank[i] = k - 1
  BY <1>2, <1>3, <1>4, RankIsOnto
<1>8. ASSUME NEW k \in D PROVE place[k] \in D /\ rank[place[k]] = k - 1
  <2>1. \E j \in D : rank[j] = k - 1
    BY <1>1, <1>7
  <2>2. place[k] = CHOOSE j \in D : rank[j] = k - 1
    BY <1>6
  <2> QED
    BY <2>1, <2>2
<1>9. place \in [D -> D]
  BY <1>8 DEF place
<1>10. ASSUME NEW k \in D, NEW l \in D, k < l PROVE <<place[k], place[l]>> \in R
  <2>1. k - 1 < l - 1
    BY <1>1, <1>10
  <2> QED
    BY <1>7, <1>8, <2>1
<1>11. ASSUME NEW i \in D PROVE \E k \in D : place[k] = i
  <2> DEFINE k == rank[i] + 1
  <2>1. k \in D /\ k - 1 = rank[i] /\ rank[i] \in Nat
    <3>1. rank[i] \in 0 .. n - 1
      BY <1>7
    <3> QED
      BY <1>1, <3>1
  <2> HIDE DEF k
  <2>2. place[k] \in D /\ rank[place[k]] = rank[i]
    BY <1>8, <2>1
  <2>3. ~(rank[i] < rank[place[k]]) /\ ~(rank[place[k]] < rank[i])
    BY <2>1, <2>2
  <2>4. place[k] = i
    BY <1>3, <1>7, <2>2, <2>3 DEF Orders
  <2> QED
    BY <2>1, <2>4
<1>12. Arranged(seq, R) \in [1 .. n -> T]
  BY <1>1, <1>5, <1>9
<1>13. Arranged(seq, R) \in Seq(T) /\ Len(Arranged(seq, R)) = n
  BY <1>1, <1>12
<1>14. ArrangedAt(Arranged(seq, R), seq, R, place)
  BY <1>1, <1>5, <1>9, <1>10, <1>11 DEF ArrangedAt
<1> QED
  BY <1>13, <1>14

-----------------------------------------------------------------------------
(* Where the elements of a selected or sorted sequence come from.          *)

\* The elements of one sequence come from places of another, each from one of
\* its own.
Picks(src, m, n) ==
    /\ src \in [1 .. m -> 1 .. n]
    /\ \A k, l \in 1 .. m : src[k] = src[l] => k = l

\* A selection picks its elements.
PickedAt(out, seq, at, src) ==
    /\ Picks(src, Len(out), Len(seq))
    /\ \A k \in 1 .. Len(out) : src[k] \in at /\ out[k] = seq[src[k]]
    /\ \A i \in at : \E k \in 1 .. Len(out) : src[k] = i

LEMMA SelectionPicks ==
    ASSUME NEW S, NEW seq \in Seq(S), NEW at \in SUBSET (DOMAIN seq)
    PROVE  LET out == Selected(seq, at)
           IN  /\ out \in Seq(S)
               /\ Len(out) = Cardinality(at) /\ Cardinality(at) \in Nat
               /\ DOMAIN out = 1 .. Len(out)
               /\ \E src : PickedAt(out, seq, at, src)
<1> DEFINE out == Selected(seq, at)
           n == Cardinality(at)
           src == [k \in 1 .. n |-> Nth(at, k)]
<1>1. /\ out \in Seq(S) /\ Len(out) = n /\ n \in Nat
      /\ \A k \in 1 .. n : Nth(at, k) \in at /\ out[k] = seq[Nth(at, k)]
      /\ DOMAIN seq = 1 .. Len(seq)
  <2>1. Cardinality(at) \in 0 .. Len(seq) /\ Len(seq) \in Nat /\ DOMAIN seq = 1 .. Len(seq)
    BY SelectedElements
  <2>2. /\ out \in Seq(S) /\ Len(out) = n
        /\ \A k \in 1 .. n : Nth(at, k) \in at /\ out[k] = seq[Nth(at, k)]
    BY SelectedElements
  <2> QED
    BY <2>1, <2>2
<1>2. /\ \A k, l \in 1 .. n : k < l => Nth(at, k) < Nth(at, l)
      /\ \A i \in at : \E k \in 1 .. n : Nth(at, k) = i
  BY SelectedElements
<1> HIDE DEF n, out
<1>3. /\ src \in [1 .. n -> 1 .. Len(seq)]
      /\ \A k \in 1 .. n : src[k] \in at /\ out[k] = seq[src[k]]
      /\ \A i \in at : \E k \in 1 .. n : src[k] = i
      /\ \A k, l \in 1 .. n : k < l => src[k] < src[l]
  BY <1>1, <1>2
<1> HIDE DEF src
<1>4. ASSUME NEW k \in 1 .. n, NEW l \in 1 .. n, src[k] = src[l] PROVE k = l
  <2>1. src[k] \in Nat /\ k \in Nat /\ l \in Nat
    BY <1>1, <1>3
  <2>2. ~(k < l) /\ ~(l < k)
    BY <1>3, <1>4, <2>1
  <2> QED
    BY <2>1, <2>2
<1>5. Picks(src, n, Len(seq))
  BY <1>3, <1>4 DEF Picks
<1>6. PickedAt(out, seq, at, src)
  BY <1>1, <1>3, <1>5 DEF PickedAt
<1> QED
  BY <1>1, <1>6 DEF n, out

\* An order that may leave elements on a level.
WeaklyOrders(L, D) ==
    /\ \A i \in D : <<i, i>> \notin L
    /\ \A i, j, k \in D : <<i, j>> \in L /\ <<j, k>> \in L => <<i, k>> \in L
    /\ \A i, j, k \in D : <<i, k>> \in L => <<i, j>> \in L \/ <<j, k>> \in L

\* What a stable sort orders by: L, and the places of what is on a level.
Stable(L, D) == {p \in D \X D : p \in L \/ (p[1] < p[2] /\ <<p[2], p[1]>> \notin L)}

LEMMA StableOrders ==
    ASSUME NEW D \in SUBSET Nat, NEW L, WeaklyOrders(L, D)
    PROVE  Orders(Stable(L, D), D)
<1>1. \A i, j \in D : <<i, j>> \in Stable(L, D)
                         <=> <<i, j>> \in L \/ (i < j /\ <<j, i>> \notin L)
  BY DEF Stable
<1>2. \A i \in D : <<i, i>> \notin Stable(L, D)
  <2> TAKE i \in D
  <2>1. i \in Nat
    OBVIOUS
  <2> QED
    BY <1>1, <2>1 DEF WeaklyOrders
<1>3. \A i, j \in D : i # j => <<i, j>> \in Stable(L, D) \/ <<j, i>> \in Stable(L, D)
  <2> TAKE i, j \in D
  <2>1. i \in Nat /\ j \in Nat
    OBVIOUS
  <2> QED
    BY <1>1, <2>1 DEF WeaklyOrders
<1>4. ASSUME NEW i \in D, NEW j \in D, NEW k \in D,
             <<i, j>> \in Stable(L, D), <<j, k>> \in Stable(L, D)
      PROVE  <<i, k>> \in Stable(L, D)
  <2>1. i \in Nat /\ j \in Nat /\ k \in Nat
    OBVIOUS
  <2>2. CASE <<i, j>> \in L /\ <<j, k>> \in L
    BY <1>1, <2>2 DEF WeaklyOrders
  <2>3. CASE <<i, j>> \in L /\ <<j, k>> \notin L
    BY <1>1, <1>4, <2>3 DEF WeaklyOrders
  <2>4. CASE <<i, j>> \notin L /\ <<j, k>> \in L
    BY <1>1, <1>4, <2>4 DEF WeaklyOrders
  <2>5. CASE <<i, j>> \notin L /\ <<j, k>> \notin L
    <3>0. i < j /\ j < k
      BY <1>1, <1>4, <2>5
    <3>1. i < k
      BY <2>1, <3>0
    <3>2. <<j, i>> \notin L /\ <<k, j>> \notin L
      BY <1>1, <1>4, <2>5
    <3>3. <<k, i>> \notin L
      BY <3>2 DEF WeaklyOrders
    <3> QED
      BY <1>1, <3>1, <3>3
  <2> QED
    BY <2>2, <2>3, <2>4, <2>5
<1> QED
  BY <1>2, <1>3, <1>4 DEF Orders

SortedAt(out, seq, L, src) ==
    /\ Picks(src, Len(seq), Len(seq))
    /\ \A k \in 1 .. Len(seq) : out[k] = seq[src[k]]
    /\ \A k, l \in 1 .. Len(seq) : k < l => <<src[l], src[k]>> \notin L
    /\ \A i \in 1 .. Len(seq) : \E k \in 1 .. Len(seq) : src[k] = i

\* A sort moves the elements about, so that none is before a smaller one.
LEMMA SortedElements ==
    ASSUME NEW T, NEW seq \in Seq(T), NEW L, WeaklyOrders(L, DOMAIN seq)
    PROVE  LET out == Arranged(seq, Stable(L, DOMAIN seq))
           IN  /\ out \in Seq(T) /\ Len(out) = Len(seq)
               /\ \E src : SortedAt(out, seq, L, src)
<1> DEFINE n == Len(seq)
           D == DOMAIN seq
           R == Stable(L, D)
           out == Arranged(seq, R)
<1>1. n \in Nat /\ D = 1 .. n
  OBVIOUS
<1>2. Orders(R, D)
  <2>1. D \in SUBSET Nat
    BY <1>1
  <2> QED
    BY <2>1, StableOrders
<1>3. out \in Seq(T) /\ Len(out) = n
  <2> HIDE DEF R
  <2> QED
    BY <1>2, ArrangedElements
<1>4. PICK src : ArrangedAt(out, seq, R, src)
  <2> HIDE DEF R
  <2> QED
    BY <1>2, ArrangedElements
<1> USE DEF ArrangedAt
<1>5. ASSUME NEW k \in 1 .. n, NEW l \in 1 .. n, src[k] = src[l] PROVE k = l
  <2>1. \A i \in D : <<i, i>> \notin R
    BY <1>2 DEF Orders
  <2>2. src[k] \in D /\ ~(k < l) /\ ~(l < k)
    BY <1>1, <1>4, <1>5, <2>1
  <2> QED
    BY <1>1, <2>2
<1>6. ASSUME NEW k \in 1 .. n, NEW l \in 1 .. n, k < l PROVE <<src[l], src[k]>> \notin L
  <2>1. <<src[k], src[l]>> \in R /\ src[k] \in D /\ src[l] \in D
    BY <1>1, <1>4, <1>6
  <2>2. \/ <<src[k], src[l]>> \in L
        \/ <<src[l], src[k]>> \notin L
    BY <2>1 DEF Stable
  <2> QED
    BY <2>1, <2>2 DEF WeaklyOrders
<1> HIDE DEF n, out
<1>7. Picks(src, n, n)
  BY <1>4, <1>5 DEF Picks, n
<1>8. SortedAt(out, seq, L, src)
  BY <1>4, <1>6, <1>7 DEF SortedAt, n
<1> QED
  BY <1>3, <1>8 DEF n, out

-----------------------------------------------------------------------------
(* Folds.  FoldLeft(op, base, seq) is iter[DOMAIN seq], for an iter that   *)
(* CHOOSE takes from those with one equation.  That there is one is shown  *)
(* with op in the form of a function for each position; then the chosen    *)
(* one has the equation, and what a fold computes is shown by induction    *)
(* over the length of the prefix.                                          *)

LEMMA InitialSegment ==
    ASSUME NEW n \in Nat, n # 0
    PROVE  /\ (1 .. n) # {}
           /\ Max(1 .. n) = n
           /\ (1 .. n) \ {n} = 1 .. n - 1
<1>1. Max(1 .. n) \in 1 .. n /\ \A x \in 1 .. n : x <= Max(1 .. n)
  <2>1. (1 .. n) \in SUBSET Nat /\ n \in 1 .. n /\ \A x \in 1 .. n : x <= n
    OBVIOUS
  <2> QED
    BY <2>1, MaxOfBounded
<1>2. n \in 1 .. n
  OBVIOUS
<1>3. Max(1 .. n) = n
  <2> DEFINE m == Max(1 .. n)
  <2>1. m \in 1 .. n /\ n <= m
    BY <1>1, <1>2
  <2> HIDE DEF m
  <2>2. m = n
    BY <2>1
  <2> QED
    BY <2>2 DEF m
<1>4. (1 .. n) \ {n} = 1 .. n - 1
  OBVIOUS
<1>5. (1 .. n) # {}
  BY <1>2
<1> QED
  BY <1>3, <1>4, <1>5

IsFold(it, N, base, step) ==
    \A t \in SUBSET (1 .. N) :
        it[t] = IF t = {} THEN base ELSE step[Max(t)][it[t \ {Max(t)}]]

LEMMA FoldExists ==
    ASSUME NEW N \in Nat, NEW T, NEW base \in T, NEW step \in [1 .. N -> [T -> T]]
    PROVE  \E it \in [SUBSET (1 .. N) -> T] : IsFold(it, N, base, step)
<1> DEFINE Eq(it, m) == \A t \in SUBSET (1 .. m) :
                  it[t] = IF t = {} THEN base ELSE step[Max(t)][it[t \ {Max(t)}]]
           S == {m \in 0 .. N : \E it \in [SUBSET (1 .. m) -> T] : Eq(it, m)}
<1>1. 0 \in S
  <2> DEFINE first == [t \in SUBSET (1 .. 0) |-> base]
  <2>1. first \in [SUBSET (1 .. 0) -> T] /\ Eq(first, 0)
    OBVIOUS
  <2> HIDE DEF first, Eq
  <2>2. 0 \in 0 .. N
    OBVIOUS
  <2> QED
    BY <2>1, <2>2
<1>2. ASSUME NEW m \in 1 .. N, m - 1 \in S PROVE m \in S
  <2>1. PICK it \in [SUBSET (1 .. m - 1) -> T] : Eq(it, m - 1)
    BY <1>2
  <2> DEFINE next == [t \in SUBSET (1 .. m) |->
                         IF m \in t THEN step[m][it[t \ {m}]] ELSE it[t]]
  <2>2. \A t \in SUBSET (1 .. m) : t \ {m} \in SUBSET (1 .. m - 1)
    OBVIOUS
  <2>3. ASSUME NEW t \in SUBSET (1 .. m), m \notin t PROVE t \in SUBSET (1 .. m - 1)
    BY <2>2, <2>3
  <2>4. next \in [SUBSET (1 .. m) -> T]
    <3>1. ASSUME NEW t \in SUBSET (1 .. m) PROVE next[t] \in T
      <4>1. step[m] \in [T -> T]
        OBVIOUS
      <4>2. CASE m \in t
        BY <2>1, <2>2, <4>1, <4>2
      <4>3. CASE m \notin t
        BY <2>1, <2>3, <4>3
      <4> QED
        BY <4>2, <4>3
    <3> QED
      BY <3>1
  <2>5. ASSUME NEW t \in SUBSET (1 .. m)
        PROVE  next[t] = IF t = {} THEN base ELSE step[Max(t)][next[t \ {Max(t)}]]
    <3>1. CASE m \in t
      <4>1. Max(t) = m
        <5>1. t \in SUBSET Nat /\ t # {} /\ m \in Nat /\ \A x \in t : x <= m
          BY <3>1
        <5>2. Max(t) \in t /\ \A x \in t : x <= Max(t)
          BY <5>1, MaxOfBounded
        <5>3. Max(t) <= m /\ m <= Max(t) /\ Max(t) \in Nat
          BY <3>1, <5>1, <5>2
        <5> QED
          BY <5>3
      <4>2. t \ {m} \in SUBSET (1 .. m) /\ m \notin t \ {m}
        OBVIOUS
      <4>3. next[t] = step[m][it[t \ {m}]] /\ next[t \ {m}] = it[t \ {m}]
        BY <3>1, <4>2
      <4> HIDE DEF next
      <4> QED
        BY <3>1, <4>1, <4>3
    <3>2. CASE m \notin t
      <4>1. t \in SUBSET (1 .. m - 1)
        BY <2>3, <3>2
      <4>2. next[t] = it[t]
        BY <3>2
      <4>3. CASE t = {}
        BY <2>1, <4>1, <4>2, <4>3
      <4>4. CASE t # {}
        <5>1. t \ {Max(t)} \in SUBSET (1 .. m) /\ m \notin t \ {Max(t)}
          BY <3>2
        <5>2. next[t \ {Max(t)}] = it[t \ {Max(t)}]
          BY <5>1
        <5> HIDE DEF next
        <5> QED
          BY <2>1, <4>1, <4>2, <4>4, <5>2
      <4> QED
        BY <4>3, <4>4
    <3> QED
      BY <3>1, <3>2
  <2> HIDE DEF next
  <2>6. Eq(next, m)
    BY <2>5
  <2> HIDE DEF Eq
  <2>7. m \in 0 .. N
    OBVIOUS
  <2> QED
    BY <2>4, <2>6, <2>7
<1> HIDE DEF S
<1>3. N \in S
  BY <1>1, <1>2, InductionUpTo, N \in 0 .. N
<1> QED
  BY <1>3 DEF S, IsFold

LEMMA MaxOfPrefix ==
    ASSUME NEW N \in Nat, NEW t \in SUBSET (1 .. N), t # {}
    PROVE  Max(t) \in 1 .. N
<1>1. t \in SUBSET Nat /\ \A x \in t : x <= N
  OBVIOUS
<1> QED
  BY <1>1, MaxOfBounded

\* The equation of a fold, along the prefixes of its sequence.
LEMMA FoldAlongPrefixes ==
    ASSUME NEW N \in Nat, NEW it, NEW T,
           it[{}] \in T[0],
           \A n \in 1 .. N : it[1 .. n - 1] \in T[n - 1] => it[1 .. n] \in T[n]
    PROVE  it[1 .. N] \in T[N]
<1> DEFINE S == {n \in 0 .. N : it[1 .. n] \in T[n]}
<1>1. 0 \in S
  <2>1. 1 .. 0 = {}
    OBVIOUS
  <2> QED
    BY <2>1
<1>2. \A n \in 1 .. N : n - 1 \in S => n \in S
  OBVIOUS
<1> HIDE DEF S
<1>3. N \in S
  BY <1>1, <1>2, InductionUpTo, N \in 0 .. N
<1> QED
  BY <1>3 DEF S

-----------------------------------------------------------------------------
(* Sums.  In whatever order numbers are added up, the sum is the same.      *)

\* Induction over the subsets of a finite set.
LEMMA SubsetInduction ==
    ASSUME NEW S, IsFiniteSet(S), NEW P, {} \in P,
           \A t \in SUBSET S : t # {} /\ (\A x \in t : t \ {x} \in P) => t \in P
    PROVE  SUBSET S \subseteq P
<1> DEFINE T == {m \in Nat : \A t \in SUBSET S : Cardinality(t) = m => t \in P}
<1>1. \A t \in SUBSET S : IsFiniteSet(t) /\ Cardinality(t) \in Nat
  BY FS_Subset, FS_CardinalityType
<1>2. 0 \in T
  BY <1>1, FS_EmptySet
<1>3. ASSUME NEW m \in Nat, m \in T PROVE m + 1 \in T
  <2> SUFFICES ASSUME NEW t \in SUBSET S, Cardinality(t) = m + 1 PROVE t \in P
    OBVIOUS
  <2>1. t # {}
    BY FS_EmptySet
  <2>2. ASSUME NEW x \in t PROVE t \ {x} \in P
    <3>1. Cardinality(t \ {x}) = m
      BY <1>1, FS_RemoveElement
    <3> QED
      BY <1>3, <3>1
  <2> QED
    BY <2>1, <2>2
<1> HIDE DEF T
<1>4. Nat \subseteq T
  BY <1>2, <1>3, SetInduction
<1> QED
  BY <1>1, <1>4 DEF T

\* w gives the sum of g over each part of S.
IsSum(w, g, S) ==
    /\ w[{}] = 0
    /\ \A t \in SUBSET S : w[t] \in Nat /\ \A x \in t : w[t] = w[t \ {x}] + g[x]

LEMMA SumIsUnordered ==
    ASSUME NEW S, IsFiniteSet(S), NEW g, \A x \in S : g[x] \in Nat, NEW w, w[{}] = 0,
           NEW first,
           \A t \in SUBSET S : t # {} =>
               first[t] \in t /\ w[t] = w[t \ {first[t]}] + g[first[t]]
    PROVE  IsSum(w, g, S)
<1> DEFINE P == {t \in SUBSET S :
                   w[t] \in Nat /\ \A x \in t : w[t \ {x}] \in Nat /\ w[t] = w[t \ {x}] + g[x]}
<1>1. {} \in P
  OBVIOUS
<1>2. ASSUME NEW t \in SUBSET S, t # {}, \A x \in t : t \ {x} \in P
      PROVE  t \in P
  <2> DEFINE p == first[t]
  <2>1. p \in t /\ w[t] = w[t \ {p}] + g[p]
    BY <1>2
  <2> HIDE DEF p
  <2>2. g[p] \in Nat /\ \A x \in t : w[t \ {x}] \in Nat
    BY <1>2, <2>1
  <2>3. ASSUME NEW x \in t, x # p PROVE w[t] = w[t \ {x}] + g[x]
    <3> DEFINE both == t \ {p, x}
               a == w[both]
               b == w[t \ {p}]
               c == w[t \ {x}]
    <3>1. (t \ {p}) \ {x} = both /\ (t \ {x}) \ {p} = both
      OBVIOUS
    <3>2. w[(t \ {p}) \ {x}] \in Nat /\ b = w[(t \ {p}) \ {x}] + g[x]
      <4>1. t \ {p} \in P /\ x \in t \ {p}
        BY <1>2, <2>1, <2>3
      <4> QED
        BY <4>1
    <3>3. c = w[(t \ {x}) \ {p}] + g[p]
      <4>1. t \ {x} \in P /\ p \in t \ {x}
        BY <1>2, <2>1, <2>3
      <4> QED
        BY <4>1
    <3>4. a \in Nat /\ b = a + g[x] /\ c = a + g[p] /\ w[t] = b + g[p] /\ g[x] \in Nat
      <4>1. g[x] \in Nat
        OBVIOUS
      <4> QED
        BY <2>1, <3>1, <3>2, <3>3, <4>1
    <3> HIDE DEF a, b, c
    <3>5. w[t] = c + g[x]
      BY <2>2, <3>4
    <3> QED
      BY <3>5 DEF c
  <2>4. w[t] \in Nat
    <3>1. w[t \ {p}] \in Nat
      BY <2>1, <2>2
    <3> QED
      BY <2>1, <2>2, <3>1
  <2> QED
    BY <2>1, <2>2, <2>3, <2>4
<1> HIDE DEF P
<1>3. SUBSET S \subseteq P
  BY <1>1, <1>2, SubsetInduction
<1> QED
  BY <1>3 DEF P, IsSum

\* The total of a sequence is the sum over its positions.
LEMMA TotalIsSum ==
    ASSUME NEW N \in Nat, NEW g \in [1 .. N -> Nat]
    PROVE  \E w : IsSum(w, g, 1 .. N) /\ Total(g) = w[1 .. N]
<1> DEFINE D == DOMAIN g
           Eq(it) == it = [t \in SUBSET D |->
                             IF t = {} THEN 0 ELSE it[t \ {Max(t)}] + g[Max(t)]]
           iter == CHOOSE it : Eq(it)
           step == [i \in 1 .. N |-> [s \in Nat |-> s + g[i]]]
           last == [t \in SUBSET (1 .. N) |-> Max(t)]
<1>1. D = 1 .. N
  OBVIOUS
<1>2. Total(g) = iter[D]
  BY DEF Total, FoldLeft, MapThenFoldSet
<1>3. \A i \in 1 .. N : g[i] \in Nat
  OBVIOUS
<1> HIDE DEF D
<1>4. Eq(iter)
  <2>1. step \in [1 .. N -> [Nat -> Nat]]
    BY <1>3
  <2>2. PICK x \in [SUBSET (1 .. N) -> Nat] : IsFold(x, N, 0, step)
    <3> HIDE DEF step
    <3>1. 0 \in Nat
      OBVIOUS
    <3> QED
      BY <2>1, <3>1, FoldExists, Zenon
  <2>3. ASSUME NEW t \in SUBSET (1 .. N), t # {}
        PROVE  step[Max(t)][x[t \ {Max(t)}]] = x[t \ {Max(t)}] + g[Max(t)]
    <3>1. Max(t) \in 1 .. N
      BY <2>3, MaxOfPrefix
    <3>2. x[t \ {Max(t)}] \in Nat
      OBVIOUS
    <3> QED
      BY <3>1, <3>2
  <2> HIDE DEF step
  <2>4. Eq(x)
    BY <1>1, <2>2, <2>3 DEF IsFold
  <2> QED
    BY <2>4
<1> HIDE DEF iter
<1>5. iter[{}] = 0
  BY <1>4
<1>6. ASSUME NEW t \in SUBSET (1 .. N), t # {}
      PROVE  last[t] \in t /\ iter[t] = iter[t \ {last[t]}] + g[last[t]]
  <2>1. t \in SUBSET Nat /\ \A x \in t : x <= N
    OBVIOUS
  <2>2. Max(t) \in t
    BY <1>6, <2>1, MaxOfBounded
  <2>3. iter[t] = iter[t \ {Max(t)}] + g[Max(t)]
    BY <1>1, <1>4, <1>6
  <2>4. last[t] = Max(t)
    OBVIOUS
  <2> HIDE DEF last
  <2> QED
    BY <2>2, <2>3, <2>4
<1> HIDE DEF last
<1>7. IsSum(iter, g, 1 .. N)
  <2>1. IsFiniteSet(1 .. N)
    BY FS_Interval
  <2> HIDE DEF Eq
  <2> QED
    BY <1>3, <1>5, <1>6, <2>1, SumIsUnordered
<1> QED
  BY <1>1, <1>2, <1>7

\* A sum of numbers is a number.
LEMMA TotalOfNumbers ==
    ASSUME NEW N \in Nat, NEW g \in [1 .. N -> Nat]
    PROVE  Total(g) \in Nat /\ (N = 0 => Total(g) = 0)
<1>1. PICK w : IsSum(w, g, 1 .. N) /\ Total(g) = w[1 .. N]
  BY TotalIsSum
<1>2. (1 .. N) \in SUBSET (1 .. N) /\ (N = 0 => 1 .. N = {})
  OBVIOUS
<1> QED
  BY <1>1, <1>2 DEF IsSum

\* The sum over a set, by the operator of the community modules.
LEMMA SumOverSet ==
    ASSUME NEW S, IsFiniteSet(S), NEW g, \A x \in S : g[x] \in Nat,
           NEW w, IsSum(w, g, S)
    PROVE  \A t \in SUBSET S : SumFunctionOnSet(g, t) = w[t]
<1> SUFFICES ASSUME NEW u \in SUBSET S PROVE SumFunctionOnSet(g, u) = w[u]
  OBVIOUS
<1> DEFINE some(t) == CHOOSE x \in t : TRUE
           Eq(it) == it = [t \in SUBSET u |-> IF t = {} THEN 0 ELSE g[some(t)] + it[t \ {some(t)}]]
           iter == CHOOSE it : Eq(it)
           part == [t \in SUBSET u |-> w[t]]
<1>1. SumFunctionOnSet(g, u) = iter[u]
  BY DEF SumFunctionOnSet, FoldFunctionOnSet, MapThenFoldSet
<1>2. \A t \in SUBSET u : t # {} => some(t) \in t
  OBVIOUS
<1>3. IsFiniteSet(u) /\ \A t \in SUBSET u : t \in SUBSET S
  BY FS_Subset
<1> HIDE DEF some
<1>4. ASSUME NEW t \in SUBSET u, t # {}
      PROVE  w[t] = g[some(t)] + w[t \ {some(t)}]
  <2> DEFINE x == some(t)
             rest == t \ {x}
  <2>1. t \in SUBSET S /\ rest \in SUBSET S /\ x \in t /\ x \in S
    BY <1>2, <1>4
  <2>2. w[t] = w[rest] + g[x] /\ w[rest] \in Nat /\ g[x] \in Nat
    BY <2>1 DEF IsSum
  <2> HIDE DEF x, rest
  <2>3. w[t] = g[x] + w[rest]
    BY <2>2
  <2> QED
    BY <2>3 DEF x, rest
<1>5. Eq(iter)
  <2>1. Eq(part)
    <3>1. w[{}] = 0
      BY DEF IsSum
    <3>2. \A t \in SUBSET u : t \ {some(t)} \in SUBSET u
      OBVIOUS
    <3>3. \A t \in SUBSET u :
              part[t] = IF t = {} THEN 0 ELSE g[some(t)] + part[t \ {some(t)}]
      BY <1>4, <3>1, <3>2
    <3>4. DOMAIN part = SUBSET u /\ part = [t \in SUBSET u |-> part[t]]
      OBVIOUS
    <3> HIDE DEF part
    <3> QED
      BY <3>3, <3>4
  <2> HIDE DEF part
  <2> QED
    BY <2>1
<1> HIDE DEF iter
<1>6. iter[{}] = 0 /\ \A t \in SUBSET u : t # {} => iter[t] = g[some(t)] + iter[t \ {some(t)}]
  BY <1>5
<1> HIDE DEF Eq
<1> DEFINE P == {t \in SUBSET u : iter[t] = w[t]}
<1>7. {} \in P
  BY <1>6 DEF IsSum
<1>8. ASSUME NEW t \in SUBSET u, t # {}, \A x \in t : t \ {x} \in P
      PROVE  t \in P
  <2>1. iter[t \ {some(t)}] = w[t \ {some(t)}]
    BY <1>2, <1>8
  <2> QED
    BY <1>4, <1>6, <1>8, <2>1
<1> HIDE DEF P
<1>9. SUBSET u \subseteq P
  BY <1>3, <1>7, <1>8, SubsetInduction
<1> QED
  BY <1>1, <1>9 DEF P

\* The places that src gives to some positions.
Places(src, t) == {src[k] : k \in t}

\* The sum of what a sequence picks is that over the positions it picks.
LEMMA SumOfPicked ==
    ASSUME NEW n, NEW g, NEW w, IsSum(w, g, 1 .. n),
           NEW m \in Nat, NEW src, Picks(src, m, n),
           NEW h, NEW v, IsSum(v, h, 1 .. m), \A k \in 1 .. m : h[k] = g[src[k]]
    PROVE  \A t \in SUBSET (1 .. m) : v[t] = w[Places(src, t)]
<1> DEFINE D == 1 .. m
           P == {t \in SUBSET D : v[t] = w[Places(src, t)]}
<1>1. {} \in P
  <2>1. Places(src, {}) = {}
    BY DEF Places
  <2> QED
    BY <2>1 DEF IsSum
<1>2. ASSUME NEW t \in SUBSET D, t # {}, \A x \in t : t \ {x} \in P
      PROVE  t \in P
  <2> DEFINE image == Places(src, t)
  <2>1. PICK x \in t : TRUE
    BY <1>2
  <2>2. v[t] = v[t \ {x}] + g[src[x]]
    <3>1. h[x] = g[src[x]]
      BY <2>1
    <3>2. v[t] = v[t \ {x}] + h[x]
      BY <2>1 DEF IsSum
    <3> QED
      BY <3>1, <3>2
  <2>3. v[t \ {x}] = w[Places(src, t \ {x})]
    BY <1>2, <2>1
  <2>4. image \in SUBSET (1 .. n) /\ src[x] \in image
    BY <2>1 DEF Picks, Places
  <2>5. image \ {src[x]} = Places(src, t \ {x})
    BY <2>1 DEF Picks, Places
  <2> HIDE DEF image
  <2>6. w[image] = w[image \ {src[x]}] + g[src[x]]
    BY <2>4 DEF IsSum
  <2>7. v[t] = w[image]
    BY <2>2, <2>3, <2>5, <2>6
  <2> QED
    BY <2>7 DEF image
<1> HIDE DEF P
<1>3. IsFiniteSet(D)
  BY FS_Interval
<1> HIDE DEF D
<1>4. SUBSET D \subseteq P
  BY <1>1, <1>2, <1>3, SubsetInduction
<1> QED
  BY <1>4 DEF P, D

LEMMA TotalOfPicked ==
    ASSUME NEW n, NEW g, NEW w, IsSum(w, g, 1 .. n),
           NEW m \in Nat, NEW src, Picks(src, m, n),
           NEW h \in [1 .. m -> Nat], \A k \in 1 .. m : h[k] = g[src[k]]
    PROVE  Total(h) = w[Places(src, 1 .. m)]
<1>1. PICK v : IsSum(v, h, 1 .. m) /\ Total(h) = v[1 .. m]
  BY TotalIsSum
<1>2. \A t \in SUBSET (1 .. m) : v[t] = w[Places(src, t)]
  BY <1>1, SumOfPicked
<1>3. (1 .. m) \in SUBSET (1 .. m)
  OBVIOUS
<1> QED
  BY <1>1, <1>2, <1>3

LEMMA PlacesAreApart ==
    ASSUME NEW n, NEW m \in Nat, NEW src, Picks(src, m, n)
    PROVE  \A t \in SUBSET (1 .. m) :
              IsFiniteSet(Places(src, t)) /\ Cardinality(Places(src, t)) = Cardinality(t)
<1> DEFINE D == 1 .. m
           P == {t \in SUBSET D : /\ IsFiniteSet(Places(src, t))
                                  /\ Cardinality(Places(src, t)) = Cardinality(t)}
<1>1. {} \in P
  <2>1. Places(src, {}) = {}
    BY DEF Places
  <2> QED
    BY <2>1, FS_EmptySet
<1>2. IsFiniteSet(D)
  BY FS_Interval
<1>3. ASSUME NEW t \in SUBSET D, t # {}, \A x \in t : t \ {x} \in P
      PROVE  t \in P
  <2>1. PICK x \in t : TRUE
    BY <1>3
  <2>2. /\ IsFiniteSet(Places(src, t \ {x}))
        /\ Cardinality(Places(src, t \ {x})) = Cardinality(t \ {x})
    BY <1>3, <2>1
  <2>3. /\ Places(src, t) = Places(src, t \ {x}) \cup {src[x]}
        /\ src[x] \notin Places(src, t \ {x})
    BY <2>1 DEF Picks, Places
  <2>4. /\ IsFiniteSet(Places(src, t))
        /\ Cardinality(Places(src, t)) = Cardinality(t \ {x}) + 1
    <3> DEFINE image == Places(src, t \ {x})
               whole == image \cup {src[x]}
    <3>1. IsFiniteSet(image) /\ src[x] \notin image /\ Places(src, t) = whole
      BY <2>2, <2>3
    <3>2. Cardinality(image) = Cardinality(t \ {x})
      BY <2>2
    <3> HIDE DEF image
    <3>3. IsFiniteSet(whole) /\ Cardinality(whole) = Cardinality(image) + 1
      BY <3>1, FS_AddElement
    <3> QED
      BY <3>1, <3>2, <3>3
  <2>5. IsFiniteSet(t) /\ Cardinality(t) \in Nat
    BY <1>2, FS_Subset, FS_CardinalityType
  <2>6. Cardinality(t \ {x}) = Cardinality(t) - 1
    BY <2>1, <2>5, FS_RemoveElement
  <2>7. Cardinality(Places(src, t)) = Cardinality(t)
    BY <2>4, <2>5, <2>6
  <2> QED
    BY <2>4, <2>7
<1> HIDE DEF P, D
<1>4. SUBSET D \subseteq P
  BY <1>1, <1>2, <1>3, SubsetInduction
<1> QED
  BY <1>4 DEF P, D

\* Of numbers in descending order, no choice of so many has less than the last ones.
LEMMA LastOnesAreLeast ==
    ASSUME NEW m \in Nat, NEW h, \A k \in 1 .. m : h[k] \in Nat,
           \A k, l \in 1 .. m : k < l => h[k] >= h[l],
           NEW v, IsSum(v, h, 1 .. m),
           NEW j \in 0 .. m, NEW c \in SUBSET (1 .. m), Cardinality(c) >= j
    PROVE  v[c] >= v[m - j + 1 .. m]
<1> DEFINE S == {i \in 0 .. m : \A t \in SUBSET (1 .. m) :
                     Cardinality(t) >= i => v[t] >= v[m - i + 1 .. m]}
<1>1. \A t \in SUBSET (1 .. m) : IsFiniteSet(t) /\ Cardinality(t) \in Nat /\ v[t] \in Nat
  <2>1. IsFiniteSet(1 .. m)
    BY FS_Interval
  <2> QED
    BY <2>1, FS_Subset, FS_CardinalityType DEF IsSum
<1>2. 0 \in S
  <2>1. m - 0 + 1 .. m = {} /\ v[{}] = 0
    BY DEF IsSum
  <2> QED
    BY <1>1, <2>1
<1>3. ASSUME NEW i \in 1 .. m, i - 1 \in S PROVE i \in S
  <2> SUFFICES ASSUME NEW t \in SUBSET (1 .. m), Cardinality(t) >= i
               PROVE  v[t] >= v[m - i + 1 .. m]
    OBVIOUS
  <2> DEFINE x == Min(t)
             y == m - i + 1
             rest == t \ {x}
             tail == m - (i - 1) + 1 .. m
  <2>1. t # {}
    BY <1>1, FS_EmptySet
  <2>2. x \in t /\ \A z \in t : x <= z
    BY <2>1, MinExists
  <2>3. y \in 1 .. m /\ (y .. m) \ {y} = tail /\ y \in y .. m /\ (y .. m) \in SUBSET (1 .. m)
    OBVIOUS
  <2> HIDE DEF x
  <2>4. x \in 1 .. m /\ t \in SUBSET (x .. m)
    BY <2>2
  <2>5. x <= y
    <3>1. IsFiniteSet(x .. m) /\ Cardinality(x .. m) = m - x + 1
      BY <2>4, FS_Interval
    <3>2. Cardinality(t) <= m - x + 1
      BY <2>4, <3>1, FS_Subset
    <3>3. Cardinality(t) \in Nat
      BY <1>1
    <3> QED
      BY <2>4, <3>2, <3>3
  <2>6. Cardinality(rest) >= i - 1
    <3>1. Cardinality(rest) = Cardinality(t) - 1
      BY <1>1, <2>2, FS_RemoveElement
    <3> QED
      BY <1>1, <3>1
  <2>7. v[rest] >= v[tail]
    BY <1>3, <2>6
  <2>8. v[t] = v[rest] + h[x] /\ v[rest] \in Nat
    BY <1>1, <2>2 DEF IsSum
  <2>9. v[y .. m] = v[tail] + h[y] /\ v[tail] \in Nat
    <3>1. v[y .. m] = v[(y .. m) \ {y}] + h[y]
      BY <2>3 DEF IsSum
    <3>2. tail \in SUBSET (1 .. m)
      BY <2>3
    <3> QED
      BY <1>1, <2>3, <3>1, <3>2
  <2> HIDE DEF y, rest, tail
  <2>10. h[x] >= h[y] /\ h[x] \in Nat /\ h[y] \in Nat
    <3>1. h[x] \in Nat /\ h[y] \in Nat
      BY <2>3, <2>4
    <3>2. CASE x = y
      BY <3>1, <3>2
    <3>3. CASE x < y
      BY <2>3, <2>4, <3>3
    <3> QED
      BY <2>3, <2>4, <2>5, <3>1, <3>2, <3>3
  <2> DEFINE a == v[rest]
             b == v[tail]
             d == h[x]
             e == h[y]
  <2>11. a \in Nat /\ b \in Nat /\ d \in Nat /\ e \in Nat /\ a >= b /\ d >= e
    BY <2>7, <2>8, <2>9, <2>10
  <2>12. v[t] = a + d /\ v[y .. m] = b + e
    BY <2>8, <2>9
  <2> HIDE DEF a, b, d, e
  <2>13. a + d >= b + e
    BY <2>11
  <2> QED
    BY <2>12, <2>13 DEF y
<1> HIDE DEF S
<1>4. j \in S
  BY <1>2, <1>3, InductionUpTo
<1> QED
  BY <1>4 DEF S

\* Where the elements of a concatenation come from.
LEMMA Concatenated ==
    ASSUME NEW A, NEW B, NEW s \in Seq(A), NEW t \in Seq(B)
    PROVE  /\ DOMAIN s = 1 .. Len(s) /\ DOMAIN (s \o t) = 1 .. Len(s) + Len(t)
           /\ Len(s \o t) = Len(s) + Len(t)
           /\ \A i \in 1 .. Len(s) : (s \o t)[i] = s[i]
           /\ \A i \in Len(s) + 1 .. Len(s) + Len(t) : (s \o t)[i] = t[i - Len(s)]
OBVIOUS
=============================================================================
