----------------------------- MODULE LocalSafety -----------------------------
(***************************************************************************)
(* Theorems about LocalReview, for every set of results and of failures.   *)
(***************************************************************************)
EXTENDS LocalReview, SequenceFacts

Label == {"main", "start", "graph", "fail", "close", "finish", "dispose", "print", "exited"}

Kind == {"store", "graph", "close", "interrupt", "crash"}

\* How far the coroutine got, and what is on its way out of it.
Control ==
    /\ pc \in Label
    /\ leaving \in {"none"} \cup (Kind \cap Faults)
    /\ faults \subseteq Kind \cap Faults
    /\ persisting \in BOOLEAN
    /\ leaving = "none" => faults \subseteq {"store"}
    /\ leaving # "none" => leaving \in faults
    /\ pc \in {"main", "start", "graph", "finish", "print"} => leaving = "none"
    /\ pc \in {"main", "start", "graph"} => faults = {}
    /\ pc = "fail" => leaving = "graph"
    /\ "graph" \in faults => leaving # "none"

\* Where there is a result: from the graph's return on, and never with what the
\* graph or the store raised.
ResultHeld ==
    /\ result = NoResult \/ result \in Results
    /\ pc \in {"main", "start", "graph", "fail"} => ~result.returned
    /\ pc \in {"finish", "print"} => result.returned
    /\ pc \in {"close", "dispose"} /\ leaving = "none" => result.returned
    /\ result.returned => leaving \notin {"store", "graph"}
    /\ "graph" \in faults => ~result.returned

\* What the table holds at each point.
RowHeld ==
    /\ persisting => given.database
    /\ row.status \in {"none", "pending", "failed", "succeeded"}
    /\ ~given.database => row.status = "none"
    /\ pc \in {"main", "start"} => row = NoRow
    /\ pc \in {"graph", "fail", "finish"} /\ given.database => row = start_review
    /\ pc = "close" /\ leaving = "none" /\ given.database => row = start_review
    /\ row.status = "failed" => "graph" \in faults
    /\ row.status = "succeeded" => result.returned /\ row = finish_review
    /\ row.status = "none" /\ given.database => ~result.returned /\ "graph" \notin faults
    /\ leaving = "graph" /\ pc \in {"close", "dispose", "exited"} => row.status # "pending"
    /\ leaving = "none" /\ pc \in {"dispose", "print", "exited"} /\ row.status = "pending"
           => "store" \in faults
    /\ leaving = "none" /\ pc \in {"dispose", "print"} /\ persisting
           => row.status = "succeeded"

\* What was printed.
ShownHeld ==
    /\ pc # "exited" => shown = Nothing
    /\ shown.how \in {"nothing", "markdown", "console"}
    /\ pc = "exited" /\ leaving = "none" /\ result.returned => shown.how # "nothing"
    /\ shown.saved => /\ row.status = "succeeded"
                      /\ shown.text = print_console(result)

LocalInv == Control /\ ResultHeld /\ RowHeld /\ ShownHeld

-----------------------------------------------------------------------------

\* The row a result makes depends on the result alone.
LEMMA FinishReviewFollows ==
    result' = result => finish_review' = finish_review
BY DEF finish_review

\* The states of the rows that are written.
LEMMA StartedIsPending ==
    /\ NoRow.status = "none"
    /\ start_review.status = "pending"
    /\ row = start_review => fail_review.status = "failed"
    /\ finish_review.status = "succeeded"
BY DEF start_review, NoRow, fail_review, finish_review

USE DEF Label, Kind

\* Init establishes the invariant.
LEMMA InitInv == Init => LocalInv
<1> SUFFICES ASSUME Init PROVE LocalInv
    OBVIOUS
<1> USE DEF Init
<1>1. Control
    BY DEF Control
<1>2. ResultHeld
    BY DEF ResultHeld, NoResult
<1>3. RowHeld
    BY StartedIsPending DEF RowHeld, NoResult
<1>4. ShownHeld
    BY DEF ShownHeld, Nothing
<1> QED
    BY <1>1, <1>2, <1>3, <1>4 DEF LocalInv

LEMMA MainInv == LocalInv /\ Main => LocalInv'
<1> SUFFICES ASSUME LocalInv, Main PROVE LocalInv'
    OBVIOUS
<1> USE DEF LocalInv, Main
<1>1. Control'
    BY DEF Control
<1>2. ResultHeld'
    BY DEF Control, ResultHeld
<1>3. RowHeld'
    BY StartedIsPending, FinishReviewFollows DEF Control, ResultHeld, RowHeld
<1>4. ShownHeld'
    BY DEF ResultHeld, ShownHeld, Nothing
<1> QED
    BY <1>1, <1>2, <1>3, <1>4

LEMMA StartInv == LocalInv /\ StartReview => LocalInv'
<1> SUFFICES ASSUME LocalInv, StartReview PROVE LocalInv'
    OBVIOUS
<1> USE DEF LocalInv, StartReview, StoreRaises, Raised, Returned, Written
<1>1. Control'
    BY DEF Control
<1>2. ResultHeld'
    BY DEF Control, ResultHeld
<1>3. RowHeld'
    BY StartedIsPending, FinishReviewFollows DEF Control, ResultHeld, RowHeld
<1>4. ShownHeld'
    BY DEF Control, ResultHeld, ShownHeld, Nothing
<1> QED
    BY <1>1, <1>2, <1>3, <1>4

LEMMA GraphInv == LocalInv /\ RunGraph => LocalInv'
<1> SUFFICES ASSUME LocalInv, RunGraph PROVE LocalInv'
    OBVIOUS
<1> USE DEF LocalInv, RunGraph, Raised, Returned
<1>1. Control'
    BY DEF Control
<1>2. ResultHeld'
    BY ResultsAssumption DEF Control, ResultHeld, NoResult
<1>3. RowHeld'
    BY StartedIsPending, FinishReviewFollows DEF Control, ResultHeld, RowHeld
<1>4. ShownHeld'
    BY DEF Control, ShownHeld, Nothing
<1> QED
    BY <1>1, <1>2, <1>3, <1>4

LEMMA FailInv == LocalInv /\ FailReview => LocalInv'
<1> SUFFICES ASSUME LocalInv, FailReview PROVE LocalInv'
    OBVIOUS
<1> USE DEF LocalInv, FailReview, StoreRaises, Raised, Returned, Written
<1>1. Control'
    BY DEF Control
<1>2. ResultHeld'
    BY DEF Control, ResultHeld
<1>3. RowHeld'
    BY StartedIsPending, FinishReviewFollows DEF Control, ResultHeld, RowHeld
<1>4. ShownHeld'
    BY DEF Control, ResultHeld, ShownHeld, Nothing
<1> QED
    BY <1>1, <1>2, <1>3, <1>4

LEMMA CloseInv == LocalInv /\ CloseClient => LocalInv'
<1> SUFFICES ASSUME LocalInv, CloseClient PROVE LocalInv'
    OBVIOUS
<1> USE DEF LocalInv, CloseClient, Raised, Returned
<1>1. Control'
    BY DEF Control
<1>2. ResultHeld'
    BY DEF Control, ResultHeld
<1>3. RowHeld'
    BY StartedIsPending, FinishReviewFollows DEF Control, ResultHeld, RowHeld
<1>4. ShownHeld'
    BY DEF Control, ResultHeld, ShownHeld, Nothing
<1> QED
    BY <1>1, <1>2, <1>3, <1>4

LEMMA FinishInv == LocalInv /\ FinishReview => LocalInv'
<1> SUFFICES ASSUME LocalInv, FinishReview PROVE LocalInv'
    OBVIOUS
<1> USE DEF LocalInv, FinishReview, StoreRaises, Raised, Returned, Written
<1>1. Control'
    BY DEF Control
<1>2. ResultHeld'
    BY DEF Control, ResultHeld
<1>3. RowHeld'
    BY StartedIsPending, FinishReviewFollows DEF Control, ResultHeld, RowHeld
<1>4. ShownHeld'
    BY DEF Control, ResultHeld, ShownHeld, Nothing
<1> QED
    BY <1>1, <1>2, <1>3, <1>4

LEMMA DisposeInv == LocalInv /\ Dispose => LocalInv'
<1> SUFFICES ASSUME LocalInv, Dispose PROVE LocalInv'
    OBVIOUS
<1> USE DEF LocalInv, Dispose, Raised, Returned
<1>1. Control'
    BY DEF Control
<1>2. ResultHeld'
    BY DEF Control, ResultHeld
<1>3. RowHeld'
    BY StartedIsPending, FinishReviewFollows DEF Control, ResultHeld, RowHeld
<1>4. ShownHeld'
    BY DEF Control, ResultHeld, ShownHeld, Nothing
<1> QED
    BY <1>1, <1>2, <1>3, <1>4

LEMMA ShowInv == LocalInv /\ Show => LocalInv'
<1> SUFFICES ASSUME LocalInv, Show PROVE LocalInv'
    OBVIOUS
<1> USE DEF LocalInv, Show, Returned
<1>1. Control'
    BY DEF Control
<1>2. ResultHeld'
    BY DEF Control, ResultHeld
<1>3. RowHeld'
    BY StartedIsPending, FinishReviewFollows DEF Control, ResultHeld, RowHeld
<1>4. print_console(result)' = print_console(result)
    OBVIOUS
<1>5. ShownHeld'
    BY <1>4 DEF Control, ResultHeld, RowHeld, ShownHeld, Nothing
<1> QED
    BY <1>1, <1>2, <1>3, <1>5

LEMMA CrashInv == LocalInv /\ Crash => LocalInv'
<1> SUFFICES ASSUME LocalInv, Crash PROVE LocalInv'
    OBVIOUS
<1> USE DEF LocalInv, Crash, Raised
<1>1. Control'
    BY DEF Control
<1>2. ResultHeld'
    BY DEF Control, ResultHeld
<1>3. RowHeld'
    BY StartedIsPending, FinishReviewFollows DEF Control, ResultHeld, RowHeld
<1>4. ShownHeld'
    BY DEF Control, ResultHeld, ShownHeld, Nothing
<1> QED
    BY <1>1, <1>2, <1>3, <1>4

\* A step that changes nothing keeps the invariant.
LEMMA StutterInv == LocalInv /\ UNCHANGED vars => LocalInv'
<1> SUFFICES ASSUME LocalInv, UNCHANGED vars PROVE LocalInv'
    OBVIOUS
<1> USE DEF LocalInv, vars
<1>1. Control' /\ ResultHeld'
    BY DEF Control, ResultHeld
<1>2. RowHeld'
    BY FinishReviewFollows DEF RowHeld
<1>3. print_console(result)' = print_console(result)
    OBVIOUS
<1>4. ShownHeld'
    BY <1>3 DEF ShownHeld, Nothing
<1> QED
    BY <1>1, <1>2, <1>4

\* The inductive invariant holds in every reachable state.
THEOREM LocalInvariance == Spec => []LocalInv
<1>1. LocalInv /\ [Next]_vars => LocalInv'
    BY MainInv, StartInv, GraphInv, FailInv, CloseInv, FinishInv, DisposeInv, ShowInv,
       CrashInv, StutterInv DEF Next
<1> QED
    BY InitInv, <1>1, PTL DEF Spec

-----------------------------------------------------------------------------

\* An id is printed only of a review that is in the table as it was printed
\* (review_local.py:107-116).
THEOREM SavedIsAlwaysWhatWasShown == Spec => []SavedIsWhatWasShown
<1>1. LocalInv => SavedIsWhatWasShown
  <2> SUFFICES ASSUME LocalInv, shown.saved PROVE SavedIsWhatWasShown
      BY DEF SavedIsWhatWasShown
  <2>1. row.status = "succeeded" /\ row = finish_review /\ shown.text = print_console(result)
      BY DEF LocalInv, RowHeld, ShownHeld
  <2>2. /\ row.total_cost_usd = total_cost(result)
        /\ row.findings = [i \in DOMAIN result.findings |-> finding_row(result.findings[i], i - 1)]
      BY <2>1 DEF finish_review
  <2>3. /\ shown.text.cost = total_cost(result)
        /\ DOMAIN shown.text.findings = DOMAIN result.findings
        /\ \A i \in DOMAIN result.findings :
              /\ shown.text.findings[i].title = result.findings[i].title
              /\ shown.text.findings[i].file = result.findings[i].file
              /\ shown.text.findings[i].line = result.findings[i].line
      BY <2>1 DEF print_console
  <2>4. \A i \in DOMAIN result.findings :
              /\ row.findings[i].title = result.findings[i].title
              /\ row.findings[i].file = result.findings[i].file
              /\ row.findings[i].line = result.findings[i].line
      BY <2>2 DEF finding_row
  <2> QED
      BY <2>1, <2>2, <2>3, <2>4 DEF SavedIsWhatWasShown
<1> QED
    BY LocalInvariance, <1>1, PTL

\* A database that fails never costs a review that was made
\* (review_local.py:107-109).
THEOREM ResultAlwaysSurvivesTheStore == Spec => []ResultSurvivesTheStore
<1>1. LocalInv => ResultSurvivesTheStore
    BY DEF LocalInv, Control, ResultHeld, ShownHeld, ResultSurvivesTheStore
<1> QED
    BY LocalInvariance, <1>1, PTL

\* A row tells what became of the run (review_local.py:88-100).
THEOREM RowAlwaysTellsTheRun == Spec => []RowTellsTheRun
<1>1. LocalInv => RowTellsTheRun
    BY DEF LocalInv, Control, ResultHeld, RowHeld, RowTellsTheRun
<1> QED
    BY LocalInvariance, <1>1, PTL

-----------------------------------------------------------------------------
(* LocalReview implements ReviewLifecycle.                                 *)

\* What a step may do to the status of the row.
StatusMoves ==
    \/ row'.status = row.status
    \/ row.status = "none" /\ row'.status = "pending"
    \/ row.status = "pending" /\ row'.status \in {"succeeded", "failed"}

LEMMA StatusStep == LocalInv /\ [Next]_vars => StatusMoves
<1> SUFFICES ASSUME LocalInv, [Next]_vars PROVE StatusMoves
    OBVIOUS
<1> USE StartedIsPending DEF LocalInv, RowHeld, StatusMoves
<1>1. CASE Main
    BY <1>1 DEF Main
<1>2. CASE StartReview
    BY <1>2 DEF StartReview, StoreRaises, Written
<1>3. CASE RunGraph
    BY <1>3 DEF RunGraph
<1>4. CASE FailReview
    BY <1>4 DEF FailReview, StoreRaises, Written
<1>5. CASE CloseClient
    BY <1>5 DEF CloseClient
<1>6. CASE FinishReview
    BY <1>6 DEF FinishReview, StoreRaises, Written
<1>7. CASE Dispose
    BY <1>7 DEF Dispose
<1>8. CASE Show
    BY <1>8 DEF Show
<1>9. CASE Crash
    BY <1>9 DEF Crash
<1>10. CASE UNCHANGED vars
    BY <1>10 DEF vars
<1> QED
    BY <1>1, <1>2, <1>3, <1>4, <1>5, <1>6, <1>7, <1>8, <1>9, <1>10 DEF Next

\* The refinement: one delivery, recorded once, moved forward, never published.
THEOREM LocalRefinement == Spec => LocalImplementsLifecycle
<1>1. Init => Lifecycle!Init
    BY StartedIsPending DEF Init, Lifecycle!Init
<1>2. LocalInv /\ [Next]_vars => [Lifecycle!Next]_(Lifecycle!vars)
  <2> SUFFICES ASSUME LocalInv, [Next]_vars PROVE [Lifecycle!Next]_(Lifecycle!vars)
      OBVIOUS
  <2> DEFINE S == [d \in {"cli"} |-> IF row.status = "none" THEN "unrecorded" ELSE row.status]
  <2>1. StatusMoves
      BY StatusStep
  <2>2. CASE row'.status = row.status
      BY <2>2 DEF Lifecycle!vars
  <2>3. CASE row.status = "none" /\ row'.status = "pending"
    <3>1. S["cli"] = "unrecorded" /\ S' = [S EXCEPT !["cli"] = "pending"]
        BY <2>3
    <3> QED
        BY <3>1 DEF Lifecycle!Next, Lifecycle!Accept, Lifecycle!Move
  <2>4. CASE row.status = "pending" /\ row'.status = "succeeded"
    <3>1. S["cli"] = "pending" /\ S' = [S EXCEPT !["cli"] = "succeeded"]
        BY <2>4
    <3> QED
        BY <3>1 DEF Lifecycle!Next, Lifecycle!Succeed, Lifecycle!Move
  <2>5. CASE row.status = "pending" /\ row'.status = "failed"
    <3>1. S["cli"] = "pending" /\ S' = [S EXCEPT !["cli"] = "failed"]
        BY <2>5
    <3> QED
        BY <3>1 DEF Lifecycle!Next, Lifecycle!GiveUp, Lifecycle!Move
  <2> QED
      BY <2>1, <2>2, <2>3, <2>4, <2>5 DEF StatusMoves
<1> QED
    BY LocalInvariance, <1>1, <1>2, PTL DEF Spec, LocalImplementsLifecycle, Lifecycle!Spec

-----------------------------------------------------------------------------
(* What is stored, and what a reader is told, of any result.               *)

\* A result is one the graph may return, or there is none yet.
Given(r) ==
    /\ r.findings \in Seq(Range(r.findings))
    /\ \A f \in Range(r.findings) : f.severity \in Severity
    /\ r.calls \in Seq(Range(r.calls))
    /\ \A call \in Range(r.calls) : {call.input, call.output, call.cache_read} \subseteq Nat

LEMMA ResultIsGiven == LocalInv => Given(result)
<1> SUFFICES ASSUME LocalInv PROVE Given(result)
    OBVIOUS
<1>1. CASE result = NoResult
  <2>1. result.findings = <<>> /\ result.calls = <<>>
      BY <1>1 DEF NoResult
  <2> QED
      BY <2>1 DEF Given, Range
<1>2. CASE result \in Results
    BY <1>2, ResultsAssumption DEF Given
<1> QED
    BY <1>1, <1>2 DEF LocalInv, ResultHeld

\* Every variable keeps its type.
THEOREM LocalIsTyped == Spec => []LocalTypeOK
<1>1. LocalInv => LocalTypeOK
    BY DEF LocalInv, Control, ResultHeld, RowHeld, ShownHeld, LocalTypeOK
<1> QED
    BY LocalInvariance, <1>1, PTL

\* A model with a price has no free tokens.
LEMMA NothingIsFree ==
    ASSUME NEW call, {call.input, call.output, call.cache_read} \subseteq Nat,
           cost_of(call) = [known |-> TRUE, amount |-> 0]
    PROVE  call.input + call.output = 0 /\ call.cache_read = 0
<1> DEFINE x == call.input
           y == call.output
           z == call.cache_read
           price == PRICES[call.model]
<1>1. call.model \in DOMAIN PRICES /\ x * price.input + y * price.output + z * price.cache_read = 0
    BY DEF cost_of, Unknown
<1>2. \/ price = ModelPrice(10, 50, 1)
      \/ price = ModelPrice(30, 150, 3)
      \/ price = ModelPrice(50, 250, 5)
    BY <1>1 DEF PRICES
<1>3. x \in Nat /\ y \in Nat /\ z \in Nat
    OBVIOUS
<1>4. \/ x * 10 + y * 50 + z * 1 = 0
      \/ x * 30 + y * 150 + z * 3 = 0
      \/ x * 50 + y * 250 + z * 5 = 0
  <2> HIDE DEF x, y, z, price
  <2> QED
      BY <1>1, <1>2 DEF ModelPrice
<1> HIDE DEF x, y, z
<1>5. x = 0 /\ y = 0 /\ z = 0
    BY <1>3, <1>4
<1> QED
    BY <1>5 DEF x, y, z

\* What is stored adds up to the price of the calls, and no call that used a token
\* looks free (pricing.py:54-92, persistence.py:111-140).
THEOREM BillAlwaysAddsUp == Spec => []BillAddsUp
<1>1. LocalInv => BillAddsUp
  <2> SUFFICES ASSUME LocalInv, row.status = "succeeded" PROVE BillAddsUp
      BY DEF BillAddsUp
  <2> DEFINE calls == result.calls
             amounts == [i \in DOMAIN calls |-> cost_of(calls[i]).amount]
             known == [i \in DOMAIN row.calls |->
                          IF row.calls[i].cost_usd.known THEN row.calls[i].cost_usd.amount
                          ELSE 0]
  <2>1. /\ row.calls = [i \in DOMAIN calls |-> call_row(calls[i])]
        /\ row.total_cost_usd = Total(amounts)
      BY DEF LocalInv, RowHeld, finish_review, total_cost
  <2>2. calls \in Seq(Range(calls))
        /\ \A i \in DOMAIN calls : {calls[i].input, calls[i].output, calls[i].cache_read} \subseteq Nat
      BY ResultIsGiven DEF Given, Range
  <2>3. DOMAIN row.calls = DOMAIN calls
        /\ \A i \in DOMAIN calls : row.calls[i].cost_usd = cost_of(calls[i])
      BY <2>1 DEF call_row
  <2>4. Len(row.calls) = Len(calls)
    <3> HIDE DEF calls
    <3>1. DOMAIN calls = 1 .. Len(calls) /\ Len(calls) \in Nat
        BY <2>2
    <3> QED
        BY <2>1, <3>1
  <2>5. \A i \in DOMAIN calls :
            cost_of(calls[i]).amount =
                IF cost_of(calls[i]).known THEN cost_of(calls[i]).amount ELSE 0
      BY DEF cost_of, Unknown
  <2>6. known = amounts
      BY <2>3, <2>5
  <2>7. ASSUME NEW i \in DOMAIN row.calls,
               row.calls[i].cost_usd = [known |-> TRUE, amount |-> 0]
        PROVE  calls[i].input + calls[i].output = 0 /\ calls[i].cache_read = 0
    <3>1. cost_of(calls[i]) = [known |-> TRUE, amount |-> 0]
        BY <2>3, <2>7
    <3> QED
        BY <2>2, <2>3, <3>1, NothingIsFree
  <2> HIDE DEF amounts, known
  <2>8. row.total_cost_usd = Total(known)
      BY <2>1, <2>6
  <2> QED
      BY <2>4, <2>7, <2>8 DEF BillAddsUp, known
<1> QED
    BY LocalInvariance, <1>1, PTL

-----------------------------------------------------------------------------
(* What a reader is told.                                                  *)

\* Positions that are told apart are all there are.
LEMMA PartsAddUp ==
    ASSUME NEW n \in Nat, NEW A, NEW B, A \cup B = 1 .. n, A \cap B = {}
    PROVE  /\ Cardinality(A) \in Nat /\ Cardinality(B) \in Nat
           /\ Cardinality(A) + Cardinality(B) = n
<1>1. IsFiniteSet(1 .. n) /\ Cardinality(1 .. n) = n
    BY FS_Interval
<1>2. IsFiniteSet(A) /\ IsFiniteSet(B)
    BY <1>1, FS_Subset
<1>3. Cardinality(A \cup B) = Cardinality(A) + Cardinality(B) - Cardinality(A \cap B)
    BY <1>2, FS_Union
<1>4. Cardinality(A \cap B) = 0
    BY FS_EmptySet
<1>5. Cardinality(A) \in Nat /\ Cardinality(B) \in Nat
    BY <1>2, FS_CardinalityType
<1> DEFINE a == Cardinality(A)
           b == Cardinality(B)
<1>6. n = a + b - 0
    BY <1>1, <1>3, <1>4
<1> HIDE DEF a, b
<1>7. a + b = n
  <2>1. a \in Nat /\ b \in Nat
      BY <1>5 DEF a, b
  <2> QED
      BY <1>6, <2>1
<1> QED
    BY <1>5, <1>7 DEF a, b

\* The findings of a severity.
Under(fs, s) == {i \in DOMAIN fs : fs[i].severity = s}

Indexed(fs) == {[under |-> s, entry |-> index_entry(f)] : s \in Severity, f \in Range(fs)}

LEMMA GroupOfTheIndex ==
    ASSUME NEW fs, fs \in Seq(Range(fs)), NEW s \in Severity
    PROVE  LET group == Entries(fs, s)
               n == Cardinality(Under(fs, s))
           IN  /\ n \in Nat /\ group \in Seq(Indexed(fs)) /\ Len(group) = n
               /\ \A k \in 1 .. n : group[k].under = s
               /\ \A i \in Under(fs, s) : \E k \in 1 .. n :
                     group[k] = [under |-> s, entry |-> index_entry(fs[i])]
<1> DEFINE at == Under(fs, s)
           n == Cardinality(at)
           some == Selected(fs, at)
           group == [k \in DOMAIN some |-> [under |-> s, entry |-> index_entry(some[k])]]
<1>1. at \in SUBSET (DOMAIN fs)
    BY DEF Under
<1>2. /\ some \in Seq(Range(fs)) /\ DOMAIN some = 1 .. n /\ n \in 0 .. Len(fs)
      /\ \A i \in at : \E k \in 1 .. n : Nth(at, k) = i /\ some[k] = fs[i]
  <2> HIDE DEF at, n, some
  <2>1. /\ Selected(fs, at) \in Seq(Range(fs))
        /\ DOMAIN Selected(fs, at) = 1 .. Cardinality(at)
        /\ Cardinality(at) \in 0 .. Len(fs)
        /\ \A i \in at : \E k \in 1 .. Cardinality(at) :
              Nth(at, k) = i /\ Selected(fs, at)[k] = fs[i]
      BY <1>1, SelectedElements
  <2> QED
      BY <2>1 DEF n, some
<1>3. Entries(fs, s) = group
    BY DEF Entries, OfSeverity, Filter, Under
<1>4. n \in Nat
    BY <1>2
<1>5. ASSUME NEW k \in 1 .. n
      PROVE  group[k] \in Indexed(fs) /\ group[k].under = s
  <2>1. some[k] \in Range(fs)
      BY <1>2
  <2> QED
      BY <1>2, <2>1 DEF Indexed
<1>6. ASSUME NEW i \in at
      PROVE  \E k \in 1 .. n : group[k] = [under |-> s, entry |-> index_entry(fs[i])]
    BY <1>2
<1>7. group \in [1 .. n -> Indexed(fs)]
    BY <1>2, <1>5
<1> HIDE DEF group, n, at
<1>8. group \in Seq(Indexed(fs)) /\ Len(group) = n
    BY <1>4, <1>7
<1> QED
    BY <1>3, <1>4, <1>5, <1>6, <1>8 DEF n, at

LEMMA ThreeJoined ==
    ASSUME NEW T, NEW A \in Seq(T), NEW B \in Seq(T), NEW C \in Seq(T)
    PROVE  LET a == Len(A)
               b == Len(B)
               c == Len(C)
               all == (A \o B) \o C
           IN  /\ Len(all) = (a + b) + c /\ DOMAIN all = 1 .. (a + b) + c
               /\ \A i \in 1 .. a : all[i] = A[i]
               /\ \A k \in 1 .. b : all[a + k] = B[k]
               /\ \A k \in 1 .. c : all[(a + b) + k] = C[k]
<1> DEFINE a == Len(A)
           b == Len(B)
           c == Len(C)
           top == A \o B
           all == top \o C
<1>1. top \in Seq(T)
    OBVIOUS
<1>2. Len(top) = a + b
    OBVIOUS
<1>3. \A i \in 1 .. a : top[i] = A[i]
    OBVIOUS
<1>4. \A k \in 1 .. b : top[a + k] = B[k]
    OBVIOUS
<1> HIDE DEF top
<1>5. Len(all) = (a + b) + c
  <2>1. Len(all) = Len(top) + c
      BY <1>1
  <2> HIDE DEF all
  <2> QED
      BY <1>2, <2>1
<1>6. DOMAIN all = 1 .. (a + b) + c
    BY <1>1, <1>2, SMTT(30)
<1>7. \A i \in 1 .. a + b : all[i] = top[i]
    BY <1>1, <1>2
<1>8. \A k \in 1 .. c : all[(a + b) + k] = C[k]
    BY <1>1, <1>2
<1> HIDE DEF all
<1>9. \A k \in 1 .. b : a + k \in 1 .. a + b
    OBVIOUS
<1>10. \A i \in 1 .. a : i \in 1 .. a + b
    OBVIOUS
<1>11. /\ \A i \in 1 .. a : all[i] = A[i]
       /\ \A k \in 1 .. b : all[a + k] = B[k]
    BY <1>3, <1>4, <1>7, <1>9, <1>10
<1> QED
    BY <1>5, <1>6, <1>8, <1>11 DEF all, top

LEMMA IndexIsWhole ==
    ASSUME NEW fs, fs \in Seq(Range(fs)), \A f \in Range(fs) : f.severity \in Severity
    PROVE  LET listed == index(fs)
           IN  /\ Len(listed) = Len(fs) /\ DOMAIN listed = 1 .. Len(fs)
               /\ \A f \in Range(fs) :
                     [under |-> f.severity, entry |-> index_entry(f)] \in Range(listed)
               /\ \A i, j \in DOMAIN listed : i < j => listed[i].under >= listed[j].under
<1> DEFINE n == Len(fs)
           a == Cardinality(Under(fs, 3))
           b == Cardinality(Under(fs, 2))
           c == Cardinality(Under(fs, 1))
           A == Entries(fs, 3)
           B == Entries(fs, 2)
           C == Entries(fs, 1)
           T == Indexed(fs)
           listed == (A \o B) \o C
<1>1. n \in Nat /\ DOMAIN fs = 1 .. n /\ \A i \in 1 .. n : fs[i].severity \in {1, 2, 3}
  <2>1. Len(fs) \in Nat /\ DOMAIN fs = 1 .. Len(fs)
      OBVIOUS
  <2>2. \A i \in DOMAIN fs : fs[i].severity \in {1, 2, 3}
      BY DEF Range, Severity, High
  <2> QED
      BY <2>1, <2>2
<1>2. /\ a \in Nat /\ A \in Seq(T) /\ Len(A) = a /\ \A k \in 1 .. a : A[k].under = 3
      /\ \A i \in Under(fs, 3) : \E k \in 1 .. a :
            A[k] = [under |-> 3, entry |-> index_entry(fs[i])]
  <2>1. 3 \in Severity
    BY DEF Severity, High
  <2> QED
    BY <2>1, GroupOfTheIndex
<1>3. /\ b \in Nat /\ B \in Seq(T) /\ Len(B) = b /\ \A k \in 1 .. b : B[k].under = 2
      /\ \A i \in Under(fs, 2) : \E k \in 1 .. b :
            B[k] = [under |-> 2, entry |-> index_entry(fs[i])]
  <2>1. 2 \in Severity
    BY DEF Severity, High
  <2> QED
    BY <2>1, GroupOfTheIndex
<1>4. /\ c \in Nat /\ C \in Seq(T) /\ Len(C) = c /\ \A k \in 1 .. c : C[k].under = 1
      /\ \A i \in Under(fs, 1) : \E k \in 1 .. c :
            C[k] = [under |-> 1, entry |-> index_entry(fs[i])]
  <2>1. 1 \in Severity
    BY DEF Severity, High
  <2> QED
    BY <2>1, GroupOfTheIndex
<1>5. index(fs) = listed
    BY DEF index, High
<1>6. a + b + c = n
  <2> DEFINE U == Under(fs, 3) \cup Under(fs, 2)
  <2>1. /\ Under(fs, 3) \cap Under(fs, 2) = {} /\ U \cap Under(fs, 1) = {}
        /\ U \cup Under(fs, 1) = 1 .. n
      BY <1>1 DEF Under
  <2>2. Cardinality(U) + c = n
    <3> HIDE DEF U, n
    <3> QED
        BY <1>1, <2>1, PartsAddUp
  <2>3. IsFiniteSet(Under(fs, 3)) /\ IsFiniteSet(Under(fs, 2))
    <3>1. Under(fs, 3) \subseteq 1 .. n /\ Under(fs, 2) \subseteq 1 .. n
        BY <1>1 DEF Under
    <3> HIDE DEF n
    <3> QED
        BY <1>1, <3>1, FS_Interval, FS_Subset
  <2>4. Cardinality(U) = a + b - Cardinality(Under(fs, 3) \cap Under(fs, 2))
      BY <2>3, FS_Union
  <2>5. Cardinality(U) = a + b - 0
      BY <2>1, <2>4, FS_EmptySet
  <2> HIDE DEF U, a, b, c, n
  <2> QED
      BY <1>2, <1>3, <1>4, <2>2, <2>5
<1> HIDE DEF a, b, c, A, B, C, T, n
<1>7. (a + b) + c = n
    BY <1>2, <1>3, <1>4, <1>6
<1>8. /\ Len(listed) = n /\ DOMAIN listed = 1 .. n
      /\ \A i \in 1 .. a : listed[i] = A[i]
      /\ \A k \in 1 .. b : listed[a + k] = B[k]
      /\ \A k \in 1 .. c : listed[(a + b) + k] = C[k]
  <2>1. A \in Seq(T) /\ B \in Seq(T) /\ C \in Seq(T)
      BY <1>2, <1>3, <1>4
  <2>2. Len(A) = a /\ Len(B) = b /\ Len(C) = c
      BY <1>2, <1>3, <1>4
  <2>3. Len(listed) = (Len(A) + Len(B)) + Len(C)
      BY <2>1, ThreeJoined
  <2>4. DOMAIN listed = 1 .. (Len(A) + Len(B)) + Len(C)
      BY <2>1, ThreeJoined
  <2>5. \A i \in 1 .. Len(A) : listed[i] = A[i]
      BY <2>1, ThreeJoined
  <2>6. \A k \in 1 .. Len(B) : listed[Len(A) + k] = B[k]
      BY <2>1, ThreeJoined
  <2>7. \A k \in 1 .. Len(C) : listed[(Len(A) + Len(B)) + k] = C[k]
      BY <2>1, ThreeJoined
  <2> HIDE DEF listed
  <2> QED
      BY <1>7, <2>2, <2>3, <2>4, <2>5, <2>6, <2>7
<1>9. /\ \A i \in 1 .. a : listed[i] = A[i]
      /\ \A k \in 1 .. b : listed[a + k] = B[k]
      /\ \A k \in 1 .. c : listed[(a + b) + k] = C[k]
    BY <1>8
<1> HIDE DEF listed
<1>10. ASSUME NEW i \in 1 .. n
       PROVE  listed[i].under = IF i <= a THEN 3 ELSE IF i <= a + b THEN 2 ELSE 1
  <2>1. CASE i <= a
    <3>1. i \in 1 .. a
        BY <1>2, <2>1
    <3> QED
        BY <1>2, <1>9, <2>1, <3>1
  <2>2. CASE ~(i <= a) /\ i <= a + b
    <3>1. i - a \in 1 .. b /\ a + (i - a) = i
        BY <1>2, <1>3, <2>2
    <3> QED
        BY <1>3, <1>9, <2>2, <3>1
  <2>3. CASE ~(i <= a) /\ ~(i <= a + b)
    <3>1. i - (a + b) \in 1 .. c /\ (a + b) + (i - (a + b)) = i
        BY <1>2, <1>3, <1>4, <1>6, <2>3
    <3> QED
        BY <1>4, <1>9, <2>3, <3>1
  <2> QED
      BY <2>1, <2>2, <2>3
<1>11. ASSUME NEW i \in 1 .. n, NEW j \in 1 .. n, i < j
       PROVE  listed[i].under >= listed[j].under
  <2>1. j <= a => i <= a
      BY <1>2, <1>11
  <2>2. j <= a + b => i <= a + b
      BY <1>2, <1>3, <1>11
  <2> QED
      BY <1>10, <2>1, <2>2
<1>12. ASSUME NEW i \in 1 .. n
       PROVE  \E k \in 1 .. n :
                 listed[k] = [under |-> fs[i].severity, entry |-> index_entry(fs[i])]
  <2>1. CASE fs[i].severity = 3
    <3>1. PICK k \in 1 .. a : A[k] = [under |-> 3, entry |-> index_entry(fs[i])]
        BY <1>1, <1>2, <2>1 DEF Under
    <3>2. k \in 1 .. n
        BY <1>2, <1>3, <1>4, <1>6
    <3> QED
        BY <1>9, <2>1, <3>1, <3>2
  <2>2. CASE fs[i].severity = 2
    <3>1. PICK k \in 1 .. b : B[k] = [under |-> 2, entry |-> index_entry(fs[i])]
        BY <1>1, <1>3, <2>2 DEF Under
    <3>2. a + k \in 1 .. n
        BY <1>2, <1>3, <1>4, <1>6
    <3> QED
        BY <1>9, <2>2, <3>1, <3>2
  <2>3. CASE fs[i].severity = 1
    <3>1. PICK k \in 1 .. c : C[k] = [under |-> 1, entry |-> index_entry(fs[i])]
        BY <1>1, <1>4, <2>3 DEF Under
    <3>2. (a + b) + k \in 1 .. n
        BY <1>2, <1>3, <1>4, <1>6
    <3> QED
        BY <1>9, <2>3, <3>1, <3>2
  <2> QED
      BY <1>1, <2>1, <2>2, <2>3
<1>13. \A f \in Range(fs) : [under |-> f.severity, entry |-> index_entry(f)] \in Range(listed)
  <2> SUFFICES ASSUME NEW f \in Range(fs)
               PROVE  [under |-> f.severity, entry |-> index_entry(f)] \in Range(listed)
      OBVIOUS
  <2>1. PICK i \in 1 .. n : f = fs[i]
      BY <1>1 DEF Range
  <2>2. PICK k \in 1 .. n : listed[k] = [under |-> f.severity, entry |-> index_entry(f)]
      BY <1>12, <2>1
  <2> QED
      BY <1>8, <2>2 DEF Range
<1> QED
    BY <1>5, <1>8, <1>11, <1>13 DEF n

\* The parts of a selection are those of the elements selected.
LEMMA SelectionOfAll ==
    ASSUME NEW fs, fs \in Seq(Range(fs)), NEW at \in SUBSET (DOMAIN fs)
    PROVE  LET some == Selected(fs, at)
           IN  /\ DOMAIN some = 1 .. Cardinality(at) /\ Cardinality(at) \in Nat
               /\ \A i \in at : \E k \in DOMAIN some : some[k] = fs[i]
<1>1. /\ DOMAIN Selected(fs, at) = 1 .. Cardinality(at)
      /\ Cardinality(at) \in 0 .. Len(fs)
      /\ \A i \in at : \E k \in 1 .. Cardinality(at) :
            Nth(at, k) = i /\ Selected(fs, at)[k] = fs[i]
    BY SelectedElements
<1>2. Len(fs) \in Nat
    OBVIOUS
<1> QED
    BY <1>1, <1>2

\* Whoever reads a review is given every finding: in the index under its severity,
\* and its reasoning on exactly one surface, a comment on its line or the note
\* (render.py:142-153, github/positions.py:58-85).
THEOREM ReaderIsAlwaysToldEverything == Spec => []ReaderIsToldEverything
<1>1. LocalInv => ReaderIsToldEverything
  <2> SUFFICES ASSUME LocalInv PROVE ReaderIsToldEverything
      OBVIOUS
  <2> DEFINE fs == result.findings
             review == build_review(result)
             InFull(f) == [title |-> f.title, file |-> f.file, body |-> f.body]
             off == {i \in DOMAIN fs : Unplaced(fs[i])}
             on == {i \in DOMAIN fs : ~Unplaced(fs[i])}
             note == Selected(fs, off)
             inline == Selected(fs, on)
             full == [i \in DOMAIN note |-> InFull(note[i])]
             comments == [i \in DOMAIN inline |-> to_review_comment(inline[i])]
             listed == index(fs)
  <2>1. fs \in Seq(Range(fs)) /\ \A f \in Range(fs) : f.severity \in Severity
      BY ResultIsGiven DEF Given
  <2>2. /\ review.comments = comments /\ review.body.in_full = full
        /\ degrade(review).body.index = listed
    <3>1. review.comments = comments
        BY DEF build_review, Filter
    <3>2. review.body = render_summary(result)
        BY DEF build_review
    <3>3. render_summary(result).in_full = full
        BY DEF render_summary, unplaced_note, Filter
    <3>4. degrade(review).body = review.body
        BY DEF degrade, build_review
    <3>5. render_summary(result).index = listed
        BY DEF render_summary
    <3> HIDE DEF review, full, comments, listed
    <3> QED
        BY <3>1, <3>2, <3>3, <3>4, <3>5
  <2> HIDE DEF review
  <2>3. /\ Len(listed) = Len(fs) /\ DOMAIN listed = 1 .. Len(fs)
        /\ \A f \in Range(fs) :
              [under |-> f.severity, entry |-> index_entry(f)] \in Range(listed)
        /\ \A i, j \in DOMAIN listed : i < j => listed[i].under >= listed[j].under
    <3> HIDE DEF fs
    <3> QED
        BY <2>1, IndexIsWhole
  <2> HIDE DEF listed
  <2>4. off \in SUBSET (DOMAIN fs) /\ on \in SUBSET (DOMAIN fs)
      OBVIOUS
  <2>5. /\ DOMAIN note = 1 .. Cardinality(off) /\ Cardinality(off) \in Nat
        /\ \A i \in off : \E k \in DOMAIN note : note[k] = fs[i]
    <3> HIDE DEF off, on, fs
    <3> QED
        BY <2>1, <2>4, SelectionOfAll
  <2>6. /\ DOMAIN inline = 1 .. Cardinality(on) /\ Cardinality(on) \in Nat
        /\ \A i \in on : \E k \in DOMAIN inline : inline[k] = fs[i]
    <3> HIDE DEF off, on, fs
    <3> QED
        BY <2>1, <2>4, SelectionOfAll
  <2> HIDE DEF note, inline
  <2>7. Len(full) = Cardinality(off) /\ Len(comments) = Cardinality(on)
      BY <2>5, <2>6
  <2>8. Cardinality(on) + Cardinality(off) = Len(fs)
    <3>1. Len(fs) \in Nat /\ on \cup off = 1 .. Len(fs) /\ on \cap off = {}
      <4>1. Len(fs) \in Nat /\ DOMAIN fs = 1 .. Len(fs)
        <5> HIDE DEF fs
        <5> QED
            BY <2>1
      <4> QED
          BY <4>1
    <3> HIDE DEF on, off, fs
    <3> QED
        BY <3>1, PartsAddUp
  <2>9. ASSUME NEW f \in Range(fs)
        PROVE  IF f.line = NoLine THEN InFull(f) \in Range(full)
               ELSE to_review_comment(f) \in Range(comments)
    <3>1. PICK i \in DOMAIN fs : f = fs[i]
        BY DEF Range
    <3>2. CASE f.line = NoLine
      <4>1. i \in off
          BY <3>1, <3>2 DEF Unplaced
      <4>2. PICK k \in DOMAIN note : note[k] = f
          BY <2>5, <3>1, <4>1
      <4>3. k \in DOMAIN full /\ full[k] = InFull(f)
          BY <4>2
      <4> QED
          BY <3>2, <4>3 DEF Range
    <3>3. CASE f.line # NoLine
      <4>1. i \in on
          BY <3>1, <3>3 DEF Unplaced
      <4>2. PICK k \in DOMAIN inline : inline[k] = f
          BY <2>6, <3>1, <4>1
      <4>3. k \in DOMAIN comments /\ comments[k] = to_review_comment(f)
          BY <4>2
      <4> QED
          BY <3>3, <4>3 DEF Range
    <3> QED
        BY <3>2, <3>3
  <2> HIDE DEF on, off, full, comments
  <2>10. Len(review.comments) + Len(review.body.in_full) = Len(fs)
      BY <2>2, <2>7, <2>8
  <2> QED
      BY <2>2, <2>3, <2>9, <2>10 DEF ReaderIsToldEverything, review
<1> QED
    BY LocalInvariance, <1>1, PTL
=============================================================================
