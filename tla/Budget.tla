------------------------------- MODULE Budget --------------------------------
(***************************************************************************)
(* What of a diff the agents are shown, and the record of what they are    *)
(* not (diff/budget.py).                                                   *)
(***************************************************************************)
EXTENDS Anchors

CONSTANTS
    MaxPromptTokens,    \* settings.max_prompt_tokens
    MaxFileDiffLines    \* settings.max_file_diff_lines

ASSUME BudgetAssumption == {MaxPromptTokens, MaxFileDiffLines} \subseteq Nat

\* What count_tokens answers for files: here, a token a line.
Tokens(file) == LinesUpTo(file.hunks, Len(file.hunks))
TokensOf(files) == Total([i \in DOMAIN files |-> Tokens(files[i])])

\* Neither binary, nor noise, nor without content.
Reviewable(file) == file.kind = "text" /\ file.hunks # <<>>

\* Mutant: the smallest files go first.
fit_smallest_first(files) ==
    LET by_size == SortedBy(files, LAMBDA f, g : Tokens(f) < Tokens(g))
        n == Min({k \in 0 .. Len(files) - 1 :
                    \/ k = Len(files) - 1
                    \/ TokensOf(SubSeq(by_size, k + 1, Len(files))) <= MaxPromptTokens})
    IN  [files |-> SubSeq(by_size, n + 1, Len(files)), dropped |-> SubSeq(by_size, 1, n)]

\* Mutant: two files are kept whatever their size.
fit_to_two(files) ==
    LET by_size == SortedBy(files, LAMBDA f, g : Tokens(f) > Tokens(g))
        n == Min({k \in 0 .. Len(files) - 1 :
                    \/ k >= Len(files) - 2
                    \/ TokensOf(SubSeq(by_size, k + 1, Len(files))) <= MaxPromptTokens})
    IN  [files |-> SubSeq(by_size, n + 1, Len(files)), dropped |-> SubSeq(by_size, 1, n)]

\* Whole files are dropped, the largest first, until the rest fits; one is kept.
fit_to_budget(files) ==
    LET by_size == SortedBy(files, LAMBDA f, g : Tokens(f) > Tokens(g))
        n == Min({k \in 0 .. Len(files) - 1 :
                    \/ k = Len(files) - 1
                    \/ TokensOf(SubSeq(by_size, k + 1, Len(files))) <= MaxPromptTokens})
    IN  [files |-> SubSeq(by_size, n + 1, Len(files)), dropped |-> SubSeq(by_size, 1, n)]

\* A parsed diff: its files, and the paths of the entries nothing could read.
build_budget(parsed) ==
    LET reviewable == Filter(parsed.files, Reviewable)
        skipped == parsed.unparseable
                   \cup Paths(Filter(parsed.files, LAMBDA f : ~Reviewable(f)))
        kept == [i \in DOMAIN reviewable |-> truncated_to(reviewable[i], MaxFileDiffLines)]
        fit == IF TokensOf(kept) > MaxPromptTokens THEN fit_to_budget(kept)
               ELSE [files |-> kept, dropped |-> <<>>]
    IN  [files     |-> SortedBy(fit.files, LAMBDA f, g : PathOrder[f.path] < PathOrder[g.path]),
         skipped   |-> skipped \cup Paths(fit.dropped),
         truncated |-> Paths(Filter(kept, LAMBDA f : f.omitted > 0))]

is_empty(budget) == budget.files = <<>>
=============================================================================
