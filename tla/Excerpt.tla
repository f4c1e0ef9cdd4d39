------------------------------- MODULE Excerpt -------------------------------
(***************************************************************************)
(* The code the critic is shown beside the findings it judges: the lines   *)
(* of a hunk with their numbers (diff/parser.py), and the whole file or a  *)
(* window around each finding (graph/critic.py).                           *)
(***************************************************************************)
EXTENDS Critic

CONSTANTS
    CriticMaxFileLines, \* settings.critic_max_file_lines
    CriticContextRadius \* settings.critic_context_radius

ASSUME ExcerptAssumption == {CriticMaxFileLines, CriticContextRadius} \subseteq Nat

\* unidiff's lines of a hunk: "none" is its remark on a missing newline.
LineSort == {"added", "context", "removed", "none"}
InNewFile == {"added", "context"}

\* target_line_no: only a line of the new file has one.
target_line_no(start, lines, i) ==
    IF lines[i] \in InNewFile
    THEN start + Cardinality({k \in 1 .. i - 1 : lines[k] \in InNewFile})
    ELSE NoLine

\* The positions of the lines of a sort, and their numbers.
LinesOf(lines, sort) == {i \in DOMAIN lines : lines[i] = sort}
Numbers(start, lines, sort) == {target_line_no(start, lines, i) : i \in LinesOf(lines, sort)}

Header == [number |-> NoLine, text |-> "@@"]

\* Mutant: the number is counted from the top of the hunk.
to_hunk_counting(start, lines) ==
    [added    |-> Numbers(start, lines, "added"),
     context  |-> Numbers(start, lines, "context"),
     removed  |-> Cardinality(LinesOf(lines, "removed")),
     numbered |-> <<Header>> \o [i \in DOMAIN lines |->
                                    [number |-> start + i - 1, text |-> lines[i]]]]

\* A hunk with its header first, and each line beside its number.
to_hunk(start, lines) ==
    [added    |-> Numbers(start, lines, "added"),
     context  |-> Numbers(start, lines, "context"),
     removed  |-> Cardinality(LinesOf(lines, "removed")),
     numbered |-> <<Header>> \o [i \in DOMAIN lines |->
                                    [number |-> target_line_no(start, lines, i),
                                     text |-> lines[i]]]]

InRange(entry, line) ==
    entry.number # NoLine /\ Distance(entry.number, line) <= CriticContextRadius

in_range(hunk, line) == {i \in DOMAIN hunk.numbered : InRange(hunk.numbered[i], line)}

\* Mutant: what has no number is left out.
span_of_numbers(hunk, line) == Selected(hunk.numbered, in_range(hunk, line))

\* From the first line in range to the last, with whatever is between them.
span(hunk, line) ==
    LET at == in_range(hunk, line)
    IN  IF at = {} THEN <<>> ELSE SubSeq(hunk.numbered, Min(at), Max(at))

\* Hunks are not joined: each has a segment of its own, with a mark between.
window(file, line) ==
    Filter([h \in DOMAIN file.hunks |-> span(file.hunks[h], line)], LAMBDA s : s # <<>>)

shown_lines(file) == Total([h \in DOMAIN file.hunks |-> Len(file.hunks[h].numbered)])

\* The whole of a file: its hunks follow one another, each from its header.
numbered_text(file) == [h \in DOMAIN file.hunks |-> file.hunks[h].numbered]

\* The block of a file: the excerpts of its code, each of them segments of the
\* diff, and the findings listed under it.  A file is sent whole, or when it is
\* too large as the window of each finding.
Block(findings, file, indices) ==
    [path     |-> file.path,
     findings |-> indices,
     code     |-> IF shown_lines(file) <= CriticMaxFileLines THEN <<numbered_text(file)>>
                  ELSE [k \in DOMAIN indices |-> window(file, findings[indices[k]].line)]]

\* One block for each file with a finding to judge.
user_message(findings, files, judged) ==
    LET order == by_file(findings, files, judged)
        About(k) == Filter([i \in DOMAIN findings |-> i],
                           LAMBDA i : i \in judged /\ by_path(files, findings[i].file) = order[k])
    IN  [k \in DOMAIN order |-> Block(findings, files[order[k]], About(k))]
=============================================================================
