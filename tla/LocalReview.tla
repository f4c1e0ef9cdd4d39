----------------------------- MODULE LocalReview -----------------------------
(***************************************************************************)
(* A review from the command line (scripts/review_local.py): one process,  *)
(* one coroutine, a store that may be no store.  A step is one awaited     *)
(* call and the straight-line code up to the next.  A call to the database *)
(* that raises may have taken effect; an interrupt cancels the coroutine   *)
(* where it waits, is not an Exception, and passes the handlers by, but    *)
(* not the finalizers.                                                     *)
(***************************************************************************)
EXTENDS Rendering

CONSTANTS
    Results,        \* bound: what the graph returns
    Faults          \* the kinds of failure that happen

ASSUME ResultsAssumption ==
    \A r \in Results :
        /\ r.returned = TRUE
        /\ r.findings \in Seq(Range(r.findings))
        /\ \A f \in Range(r.findings) : f.severity \in Severity
        /\ r.calls \in Seq(Range(r.calls))
        /\ \A call \in Range(r.calls) : {call.input, call.output, call.cache_read} \subseteq Nat

ASSUME LocalFaultsAssumption ==
    Faults \subseteq {"store", "graph", "close", "interrupt", "crash"}

VARIABLES
    given,          \* the file, the key and the database there are, and --markdown
    pc,             \* what the process does next
    leaving,        \* the exception on its way out of run(), or "none"
    result,         \* what the graph returned
    persisting,     \* whether there is a row to name
    row,            \* the row of this review, external
    shown,          \* what was printed
    faults          \* what went wrong, a history

vars == <<given, pc, leaving, result, persisting, row, shown, faults>>

NoResult == [findings |-> <<>>, calls |-> <<>>, suppressed_count |-> 0, retracted_count |-> 0,
             skipped_files |-> {}, truncated_files |-> {}, returned |-> FALSE]

NoRow == [status |-> "none", findings |-> <<>>, calls |-> <<>>, suppressed_count |-> 0,
          retracted_count |-> 0, total_cost_usd |-> 0]

Nothing == [how |-> "nothing", saved |-> FALSE]

Init ==
    /\ given \in [file : BOOLEAN, key : BOOLEAN, database : BOOLEAN, markdown : BOOLEAN]
    /\ pc = "main"
    /\ leaving = "none"
    /\ result = NoResult
    /\ persisting = FALSE
    /\ row = NoRow
    /\ shown = Nothing
    /\ faults = {}

\* An awaited call raises, and label is where that leads.
Raised(kind, label) ==
    /\ kind \in Faults
    /\ faults' = faults \cup {kind}
    /\ leaving' = kind
    /\ pc' = label

Returned(label) == pc' = label /\ UNCHANGED <<leaving, faults>>

\* The store raises, or the wait for it is interrupted, before it wrote or after.
StoreRaises(kinds, written, label) ==
    /\ given.database
    /\ \E kind \in kinds : Raised(kind, label)
    /\ row' \in {row, written}

Written(written) == row' = IF given.database THEN written ELSE row

-----------------------------------------------------------------------------
(* What the store writes.                                                  *)

start_review == [NoRow EXCEPT !.status = "pending"]

call_row(call) == [agent |-> call.agent, cost_usd |-> cost_of(call), error |-> call.error]

finding_row(f, ordinal) ==
    [ordinal |-> ordinal, file |-> f.file, line |-> f.line, severity |-> f.severity,
     title |-> f.title, body |-> f.body, sources |-> f.sources]

\* The row of a result, with its children, in one transaction.
finish_review ==
    [status           |-> "succeeded",
     findings         |-> [i \in DOMAIN result.findings |-> finding_row(result.findings[i], i - 1)],
     calls            |-> [i \in DOMAIN result.calls |-> call_row(result.calls[i])],
     suppressed_count |-> result.suppressed_count,
     retracted_count  |-> result.retracted_count,
     total_cost_usd   |-> total_cost(result)]

\* Mutant: a status of its own.
fail_review_as_error == [row EXCEPT !.status = "error"]

fail_review == [row EXCEPT !.status = "failed"]

-----------------------------------------------------------------------------
(* main() and run().                                                       *)

\* Without the file or the key the process ends; the store is opened lazily.
Main ==
    /\ pc = "main"
    /\ pc' = IF given.file /\ given.key THEN "start" ELSE "exited"
    /\ persisting' = (given.file /\ given.key /\ given.database)
    /\ UNCHANGED <<given, leaving, result, row, shown, faults>>

StartReview ==
    /\ pc = "start"
    /\ \/ Written(start_review) /\ Returned("graph")
       \/ StoreRaises({"store", "interrupt"}, start_review, "dispose")
    /\ UNCHANGED <<given, result, persisting, shown>>

\* Mutant: a failure of the graph is not recorded.
RunGraphUncaught ==
    /\ pc = "graph"
    /\ \/ result' \in Results /\ Returned("close")
       \/ UNCHANGED result /\ (Raised("graph", "close") \/ Raised("interrupt", "close"))
    /\ UNCHANGED <<given, persisting, row, shown>>

RunGraph ==
    /\ pc = "graph"
    /\ \/ result' \in Results /\ Returned("close")
       \/ UNCHANGED result /\ (Raised("graph", "fail") \/ Raised("interrupt", "close"))
    /\ UNCHANGED <<given, persisting, row, shown>>

\* In the handler: should it raise too, that exception goes on instead.
FailReview ==
    /\ pc = "fail"
    /\ \/ Written(fail_review) /\ Returned("close")
       \/ StoreRaises({"store", "interrupt"}, fail_review, "close")
    /\ UNCHANGED <<given, result, persisting, shown>>

\* Mutant: the handler does not raise again.
CloseClientAndGoOn ==
    /\ pc = "close"
    /\ \/ pc' = "finish" /\ leaving' = "none" /\ UNCHANGED faults
       \/ Raised("close", "dispose") \/ Raised("interrupt", "dispose")
    /\ UNCHANGED <<given, result, persisting, row, shown>>

\* The model's client is closed, whatever is on its way out.
CloseClient ==
    /\ pc = "close"
    /\ \/ Returned(IF leaving = "none" THEN "finish" ELSE "dispose")
       \/ Raised("close", "dispose") \/ Raised("interrupt", "dispose")
    /\ UNCHANGED <<given, result, persisting, row, shown>>

\* Mutant: a result that could not be saved is not shown.
FinishReviewOrRaise ==
    /\ pc = "finish"
    /\ \/ Written(finish_review) /\ Returned("dispose")
       \/ StoreRaises({"store", "interrupt"}, finish_review, "dispose")
    /\ UNCHANGED <<given, result, persisting, shown>>

\* Mutant: whether the result was saved is not looked at.
FinishReviewUnchecked ==
    /\ pc = "finish"
    /\ \/ Written(finish_review) /\ Returned("dispose")
       \/ /\ given.database /\ "store" \in Faults
          /\ faults' = faults \cup {"store"}
          /\ row' \in {row, finish_review}
          /\ pc' = "dispose" /\ UNCHANGED leaving
       \/ StoreRaises({"interrupt"}, finish_review, "dispose")
    /\ UNCHANGED <<given, result, persisting, shown>>

\* A write that raises is logged, and the result goes on without its id.
FinishReview ==
    /\ pc = "finish"
    /\ \/ Written(finish_review) /\ Returned("dispose") /\ UNCHANGED persisting
       \/ /\ given.database /\ "store" \in Faults
          /\ faults' = faults \cup {"store"}
          /\ row' \in {row, finish_review}
          /\ persisting' = FALSE
          /\ pc' = "dispose" /\ UNCHANGED leaving
       \/ StoreRaises({"interrupt"}, finish_review, "dispose") /\ UNCHANGED persisting
    /\ UNCHANGED <<given, result, shown>>

\* The engine, if there is one, is disposed of, whatever is on its way out.
Dispose ==
    /\ pc = "dispose"
    /\ \/ Returned(IF leaving = "none" THEN "print" ELSE "exited")
       \/ given.database /\ (Raised("close", "exited") \/ Raised("interrupt", "exited"))
    /\ UNCHANGED <<given, result, persisting, row, shown>>

\* The id is printed with the console summary, and only of what was saved.
Show ==
    /\ pc = "print"
    /\ shown' = IF given.markdown
                THEN [how |-> "markdown", saved |-> FALSE, text |-> render_summary(result)]
                ELSE [how |-> "console", saved |-> persisting, text |-> print_console(result)]
    /\ Returned("exited")
    /\ UNCHANGED <<given, result, persisting, row>>

\* The process dies.
Crash ==
    /\ pc # "exited"
    /\ Raised("crash", "exited")
    /\ UNCHANGED <<given, result, persisting, row, shown>>

Next ==
    \/ Main \/ StartReview \/ RunGraph \/ FailReview \/ CloseClient
    \/ FinishReview \/ Dispose \/ Show \/ Crash

Spec == Init /\ [][Next]_vars

-----------------------------------------------------------------------------

\* Every variable keeps its type.
LocalTypeOK ==
    /\ pc \in {"main", "start", "graph", "fail", "close", "finish", "dispose", "print", "exited"}
    /\ leaving \in {"none"} \cup Faults
    /\ result \in {NoResult} \cup Results
    /\ persisting \in BOOLEAN
    /\ row.status \in {"none", "pending", "failed", "succeeded"}
    /\ shown.how \in {"nothing", "markdown", "console"}
    /\ faults \subseteq Faults

\* An id is printed only of a review that is in the table as it was printed: the
\* same findings in the same order, at the same price (review_local.py:107-116,
\* "worse than printing nothing").
SavedIsWhatWasShown ==
    shown.saved =>
        /\ row.status = "succeeded"
        /\ row.total_cost_usd = shown.text.cost
        /\ DOMAIN row.findings = DOMAIN shown.text.findings
        /\ \A i \in DOMAIN row.findings :
              /\ row.findings[i].title = shown.text.findings[i].title
              /\ row.findings[i].file = shown.text.findings[i].file
              /\ row.findings[i].line = shown.text.findings[i].line

\* A database that fails, at whatever point and whether or not it wrote, never
\* costs a review that was made (review_local.py:107-109).
ResultSurvivesTheStore ==
    pc = "exited" /\ result.returned /\ faults \subseteq {"store"} =>
        shown.how # "nothing"

\* A row tells what became of the run: there is one before the model is asked,
\* "failed" is a failure of the graph, "succeeded" a whole result, and what is
\* left "pending" was cut short by more than the graph (review_local.py:88-100).
RowTellsTheRun ==
    /\ (result.returned \/ "graph" \in faults) /\ given.database => row.status # "none"
    /\ row.status = "failed" => "graph" \in faults /\ ~result.returned
    /\ row.status = "succeeded" => result.returned /\ row = finish_review
    /\ pc = "exited" /\ row.status = "pending" => faults \ {"graph"} # {}

\* Whoever reads the review is given every finding: in the index once, under its
\* severity, and with its reasoning on exactly one surface, a comment on its line
\* or the note; and without the comments it is still listed (render.py:142-153).
ReaderIsToldEverything ==
    LET review == build_review(result)
        findings == result.findings
        listed == degrade(review).body.index
        InFull(f) == [title |-> f.title, file |-> f.file, body |-> f.body]
    IN  /\ Len(review.comments) + Len(review.body.in_full) = Len(findings)
        /\ Len(listed) = Len(findings)
        /\ \A f \in Range(findings) :
              /\ [under |-> f.severity, entry |-> index_entry(f)] \in Range(listed)
              /\ IF f.line = NoLine THEN InFull(f) \in Range(review.body.in_full)
                 ELSE to_review_comment(f) \in Range(review.comments)
        /\ \A i, j \in DOMAIN listed : i < j => listed[i].under >= listed[j].under

\* The row moves as that of a delivery to the service does: once, and forward.
Lifecycle == INSTANCE ReviewLifecycle WITH
    Delivery  <- {"cli"},
    MayUndo   <- FALSE,
    status    <- [d \in {"cli"} |-> IF row.status = "none" THEN "unrecorded" ELSE row.status],
    published <- [d \in {"cli"} |-> 0]

\* A review from the command line implements ReviewLifecycle, of which it is the
\* one delivery, never published: what is settled stays as it is, whatever is
\* raised, interrupted or written twice on the way out (persistence.py:111-140).
LocalImplementsLifecycle == Lifecycle!Spec

\* What is stored adds up: the total is that of the priced calls, and no call that
\* used a token looks free (pricing.py:58-69).
BillAddsUp ==
    row.status = "succeeded" =>
        /\ Len(row.calls) = Len(result.calls)
        /\ row.total_cost_usd =
               Total([i \in DOMAIN row.calls |->
                         IF row.calls[i].cost_usd.known THEN row.calls[i].cost_usd.amount
                         ELSE 0])
        /\ \A i \in DOMAIN row.calls :
              row.calls[i].cost_usd = [known |-> TRUE, amount |-> 0]
                  => /\ result.calls[i].input + result.calls[i].output = 0
                     /\ result.calls[i].cache_read = 0
=============================================================================
