------------------------------ MODULE Selection ------------------------------
(***************************************************************************)
(* Python's [x for x in seq if ...] and sorted(seq, key=...), given by the *)
(* place of each element: how many go before it; and sum().  The provers   *)
(* know nothing of SelectSeq, and this is what it comes to.                *)
(***************************************************************************)
EXTENDS SequencesExt

\* The k-th of the positions at.
Nth(at, k) == CHOOSE i \in at : Cardinality({j \in at : j < i}) = k - 1

\* The elements at some positions, in their order.
Selected(seq, at) == [k \in 1 .. Cardinality(at) |-> seq[Nth(at, k)]]

\* The elements that pass a test, in their order.
Filter(seq, Test(_)) == Selected(seq, {i \in DOMAIN seq : Test(seq[i])})

\* The k-th of the positions at, in the order of the pairs before.
Ranked(at, before, k) ==
    CHOOSE i \in at : Cardinality({j \in at : <<j, i>> \in before}) = k - 1

\* The elements in that order.
Arranged(seq, before) == [k \in DOMAIN seq |-> seq[Ranked(DOMAIN seq, before, k)]]

\* sorted() is stable: what is not less keeps its place.
SortedBy(seq, Less(_, _)) ==
    Arranged(seq, {p \in (DOMAIN seq) \X (DOMAIN seq) :
                      \/ Less(seq[p[1]], seq[p[2]])
                      \/ p[1] < p[2] /\ ~Less(seq[p[2]], seq[p[1]])})

Total(counts) == FoldLeft(+, 0, counts)
=============================================================================
