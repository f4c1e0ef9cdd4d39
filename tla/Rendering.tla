------------------------------ MODULE Rendering ------------------------------
(***************************************************************************)
(* What a reader is told of a result: its price (pricing.py), the summary  *)
(* and the comments (render.py), the review they make (positions.py) and   *)
(* what the console shows (review_local.py).  A text is the record of what *)
(* it says, in the order it says it; layout, labels and wording are left   *)
(* out, and so is the focus, which a review by command line never has.     *)
(***************************************************************************)
EXTENDS Selection

NoLine == 0             \* line is None
High == 3
Severity == 1 .. High

-----------------------------------------------------------------------------
(* Prices, in ten-millionths of a dollar, of a token.                       *)

ModelPrice(input, output, cache_read) ==
    [input |-> input, output |-> output, cache_read |-> cache_read]

PRICES ==
    [m \in {"claude-haiku-4-5", "claude-sonnet-4-6", "claude-sonnet-5",
            "claude-opus-4-6", "claude-opus-4-7", "claude-opus-4-8", "claude-opus-5"} |->
        CASE m = "claude-haiku-4-5"                         -> ModelPrice(10, 50, 1)
          [] m \in {"claude-sonnet-4-6", "claude-sonnet-5"} -> ModelPrice(30, 150, 3)
          [] OTHER                                          -> ModelPrice(50, 250, 5)]

Unknown == [known |-> FALSE, amount |-> 0]      \* a cost of None

\* Mutant: a model without a price is free.
cost_of_free(call) ==
    [known |-> TRUE,
     amount |-> IF call.model \notin DOMAIN PRICES THEN 0
                ELSE call.input * PRICES[call.model].input
                     + call.output * PRICES[call.model].output
                     + call.cache_read * PRICES[call.model].cache_read]

cost_of(call) ==
    IF call.model \notin DOMAIN PRICES THEN Unknown
    ELSE [known |-> TRUE,
          amount |-> call.input * PRICES[call.model].input
                     + call.output * PRICES[call.model].output
                     + call.cache_read * PRICES[call.model].cache_read]

\* Calls without a price add nothing.
total_cost(result) ==
    Total([i \in DOMAIN result.calls |-> cost_of(result.calls[i]).amount])

-----------------------------------------------------------------------------
(* The summary and the comments.                                           *)

render_comment(f) ==
    [title |-> f.title, body |-> f.body, severity |-> f.severity, sources |-> f.sources]

OfSeverity(findings, severity) == Filter(findings, LAMBDA f : f.severity = severity)

index_entry(f) ==
    [file |-> f.file, line |-> f.line, title |-> f.title, agents |-> Len(f.sources)]

Entries(findings, severity) ==
    LET group == OfSeverity(findings, severity)
    IN  [i \in DOMAIN group |-> [under |-> severity, entry |-> index_entry(group[i])]]

\* Mutant: the lowest group is forgotten.
index_of_defects(findings) == Entries(findings, High) \o Entries(findings, 2)

\* The groups from high to low, each under its heading.
index(findings) == Entries(findings, High) \o Entries(findings, 2) \o Entries(findings, 1)

headline(findings) == [severity \in Severity |-> Len(OfSeverity(findings, severity))]

\* "No issues found", or only none above the threshold, "in the files reviewed"
\* when some were not.
no_findings_verdict(result) ==
    [clean |-> result.suppressed_count = 0, scoped |-> result.skipped_files # {}]

Unplaced(f) == f.line = NoLine

\* Findings without a line, in full: no comment carries them.
unplaced_note(findings) ==
    LET unplaced == Filter(findings, Unplaced)
    IN  [i \in DOMAIN unplaced |->
            [title |-> unplaced[i].title, file |-> unplaced[i].file, body |-> unplaced[i].body]]

coverage_note(result) ==
    [shortened |-> result.truncated_files, not_reviewed |-> result.skipped_files]

Errored(calls) == Filter(calls, LAMBDA call : call.error)

footer(result) ==
    [cost    |-> total_cost(result),
     tokens  |-> Total([i \in DOMAIN result.calls |->
                           result.calls[i].input + result.calls[i].output]),
     errored |-> LET failed == Errored(result.calls)
                 IN  [i \in DOMAIN failed |-> failed[i].agent]]

render_summary(result) ==
    [verdict   |-> no_findings_verdict(result),     \* said when there are no findings
     headline  |-> headline(result.findings),       \* said when there are
     index     |-> index(result.findings),
     not_shown |-> result.suppressed_count,
     withdrawn |-> result.retracted_count,
     in_full   |-> unplaced_note(result.findings),
     coverage  |-> coverage_note(result),
     footer    |-> footer(result)]

-----------------------------------------------------------------------------
(* The review, and the console.                                            *)

to_review_comment(f) == [path |-> f.file, line |-> f.line, body |-> render_comment(f)]

build_review(result) ==
    LET inline == Filter(result.findings, LAMBDA f : ~Unplaced(f))
    IN  [body     |-> render_summary(result),
         comments |-> [i \in DOMAIN inline |-> to_review_comment(inline[i])]]

\* The note that is added to the body is left out.
degrade(payload) == [payload EXCEPT !.comments = <<>>]

\* What was withdrawn is not shown here.
print_console(result) ==
    [findings |-> [i \in DOMAIN result.findings |->
                      [severity |-> result.findings[i].severity,
                       file     |-> result.findings[i].file,
                       line     |-> result.findings[i].line,
                       title    |-> result.findings[i].title,
                       sources  |-> result.findings[i].sources]],
     more      |-> result.suppressed_count,
     skipped   |-> result.skipped_files,
     shortened |-> result.truncated_files,
     calls     |-> {[agent |-> call.agent, error |-> call.error] : call \in Range(result.calls)},
     cost      |-> total_cost(result)]
=============================================================================
