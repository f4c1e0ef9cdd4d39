--------------------------- MODULE PipelineChecks ----------------------------
(***************************************************************************)
(* The pure algorithms of the pipeline against what they are for, over all *)
(* inputs up to a length: the input grows by one element a step, and the   *)
(* invariants look at what an algorithm makes of it.                       *)
(***************************************************************************)
EXTENDS Budget, LlmMerge, Excerpt

CONSTANTS
    FileShapes,         \* bound: what a diff is made of
    Reports,            \* bound: what agents report
    Asked,              \* bound: the pairs the merge pass asked about
    MaxFiles,           \* bound: the length of a diff,
    MaxFindings,        \* bound: of a list of findings,
    MaxDecisions,       \* bound: of a list of decisions,
    MaxLines            \* bound: and of the text of a file's hunks

\* The file of a shape at a path.
EntryOf(shape, path) == [path |-> path, kind |-> shape.kind, hunks |-> shape.hunks,
                         omitted |-> shape.omitted]

Size == MaxDecisions + 1

ASSUME InputAssumption ==
    /\ \A shape \in FileShapes, path \in Path : EntryOf(shape, path) \in Entry
    /\ Reports \subseteq Reportable
    /\ MaxDecisions \in Nat
    /\ Asked \subseteq (1 .. Size) \X (1 .. Size)

VARIABLES
    kind,               \* what the input is
    input

Init == kind \in {"files", "findings", "decisions", "lines"} /\ input = <<>>

Extend(e) == input' = Append(input, e) /\ UNCHANGED kind

\* A further file of the diff, with the next of the paths.
NextFile ==
    /\ kind = "files" /\ Len(input) < MaxFiles
    /\ \E shape \in FileShapes, path \in DOMAIN PathOrder :
          PathOrder[path] = Len(input) + 1 /\ Extend(EntryOf(shape, path))

\* A further finding; the report it stands for is its number.
NextFinding ==
    /\ kind = "findings" /\ Len(input) < MaxFindings
    /\ \E r \in Reports, a \in Agent : Extend(from_finding(r, a, Len(input) + 1))

\* A further decision on two of Size findings.
NextDecision ==
    /\ kind = "decisions" /\ Len(input) < MaxDecisions
    /\ \E left, right \in 1 .. Size, same \in BOOLEAN :
          Extend([left |-> left, right |-> right, same_defect |-> same])

\* A further line of a file's hunks, or the header of the next of them.
NextLine ==
    /\ kind = "lines" /\ Len(input) < MaxLines
    /\ \E e \in LineSort \cup {"@@"} : (input = <<>> => e = "@@") /\ Extend(e)

Next == NextFile \/ NextFinding \/ NextDecision \/ NextLine

Spec == Init /\ [][Next]_<<kind, input>>

-----------------------------------------------------------------------------
(* The budget.                                                             *)

Fitted == build_budget(parse_diff(input))

Reviewed(file) == \E i \in DOMAIN Fitted.files : Fitted.files[i].path = file.path

\* The prompt is within the budget, or it is a single file, which is kept
\* whatever its size (diff/budget.py:137-153).
PromptFits ==
    kind = "files" =>
        TokensOf(Fitted.files) <= MaxPromptTokens \/ Len(Fitted.files) = 1

\* No choice of files that fits has more of them than are kept: dropping the
\* largest first lets more files survive (diff/budget.py:139-142).
MostFilesSurvive ==
    kind = "files" =>
    LET kept == [i \in DOMAIN input |-> truncated_to(input[i], MaxFileDiffLines)]
        candidates == {i \in DOMAIN input : Reviewable(input[i])}
    IN  \A choice \in SUBSET candidates :
            SumFunctionOnSet([i \in DOMAIN input |-> Tokens(kept[i])], choice)
                <= MaxPromptTokens
            => Cardinality(choice) <= Len(Fitted.files)

\* Every file is reviewed or named as skipped, and what is reviewed in part is
\* a part that holds something and is named as truncated (diff/budget.py:1-9).
CoverageIsDisclosed ==
    kind = "files" =>
    /\ \A i \in DOMAIN input : Reviewed(input[i]) <=> input[i].path \notin Fitted.skipped
    /\ \A i \in DOMAIN Fitted.files :
          LET whole == input[PathOrder[Fitted.files[i].path]]
          IN  /\ Fitted.files[i].hunks # <<>>
              /\ Tokens(Fitted.files[i]) < Tokens(whole) => whole.path \in Fitted.truncated

-----------------------------------------------------------------------------
(* Collapsing and ranking.                                                 *)

Collapsed == collapse(input)

\* Each report goes into one finding, which is no less severe and no less
\* confident than it, and no further down its file (graph/dedupe.py:137-185).
CollapseUnderstatesNothing ==
    kind = "findings" =>
    \A i \in DOMAIN input :
        LET into == {k \in DOMAIN Collapsed : i \in Collapsed[k].raised} IN
        /\ Cardinality(into) = 1
        /\ \A k \in into :
              /\ Collapsed[k].file = normalize_path(input[i].file)
              /\ Collapsed[k].severity >= input[i].severity
              /\ Collapsed[k].confidence >= input[i].confidence
              /\ Collapsed[k].line <= input[i].line

\* What is posted is in order, and whatever passes the floors and is withheld is
\* no better than anything that is posted (graph/dedupe.py:188-230).
CapKeepsTheTop ==
    kind = "findings" =>
    LET posted == rank_and_cut(Collapsed).kept IN
    \A k \in DOMAIN posted :
        /\ \A n \in DOMAIN posted : n < k => AtLeastAs(posted[n], posted[k])
        /\ \A f \in Range(Collapsed) \ Range(posted) :
              Passes(f) => AtLeastAs(posted[k], f)

-----------------------------------------------------------------------------
(* The groups of the merge pass.                                           *)

Grouped == groups(Size, input, Asked)

\* The pairs that were asked about and judged the same.
SameDefect == {Key(input[k]) : k \in {k \in DOMAIN input : input[k].same_defect}} \cap Asked

\* In every set of findings that holds i and is closed under SameDefect.
Connected(i, j) ==
    \A S \in SUBSET (1 .. Size) :
        /\ i \in S
        /\ \A p \in SameDefect : p[1] \in S <=> p[2] \in S
        => j \in S

\* Two findings are merged exactly when decisions on pairs that were asked about
\* connect them, whatever the order of the decisions (graph/llm_merge.py:183-190).
GroupsAreConnected ==
    kind = "decisions" =>
    \A i, j \in 1 .. Size :
        Connected(i, j) <=> \E k \in DOMAIN Grouped : {i, j} \subseteq Range(Grouped[k])

-----------------------------------------------------------------------------
(* What the critic is shown.                                               *)

\* The file whose hunks are the input; a line is missing between two hunks.
Numbered ==
    LET headers == {i \in DOMAIN input : input[i] = "@@"}
        Top(k) == Nth(headers, k)
        Bottom(k) == IF k < Cardinality(headers) THEN Top(k + 1) - 1 ELSE Len(input)
        Start(k) == k + Cardinality({i \in 1 .. Top(k) - 1 : input[i] \in InNewFile})
    IN  [path |-> <<"x">>, kind |-> "text", omitted |-> 0,
         hunks |-> [k \in 1 .. Cardinality(headers) |->
                       to_hunk(Start(k), SubSeq(input, Top(k) + 1, Bottom(k)))]]

\* The message about a finding on each of some lines of a file.
FindingsOn(file, lines) == [i \in DOMAIN lines |-> [file |-> file.path, line |-> lines[i]]]

Message(file, lines) ==
    LET findings == FindingsOn(file, lines)
    IN  user_message(findings, <<file>>, judgeable(findings, <<file>>))

\* A segment is a piece of one hunk as it reads, and the numbers in it are those
\* of the lines that may be reported.
Faithful(segment, file) ==
    /\ \E hunk \in Range(file.hunks) : segment \in SubSeqs(hunk.numbered)
    /\ \A i \in DOMAIN segment :
          /\ segment[i].text \in InNewFile <=> segment[i].number # NoLine
          /\ segment[i].number \in {NoLine} \cup anchorable_lines(file)

\* An excerpt is pieces of the diff as it reads, none made of two hunks, and the
\* numbers in it are those of the lines that may be reported
\* (diff/parser.py:284-287, "No silent joins").
ExcerptIsTheDiff ==
    kind = "lines" =>
    \A first, second \in anchorable_lines(Numbered) : first <= second =>
        \A block \in Range(Message(Numbered, <<first, second>>)) :
            \A excerpt \in Range(block.code) : \A segment \in Range(excerpt) :
                Faithful(segment, Numbered)

Close(m, n) == n # NoLine /\ Distance(m, n) <= CriticContextRadius

\* A line of a file is shown with all that stands between it and each line near.
Evidenced(block, file, line) ==
    \A hunk \in Range(file.hunks) : \A i, j \in DOMAIN hunk.numbered :
        hunk.numbered[i].number = line /\ Close(line, hunk.numbered[j].number)
        => \E excerpt \in Range(block.code) : \E segment \in Range(excerpt) :
              SubSeq(hunk.numbered, Min({i, j}), Max({i, j})) \in SubSeqs(segment)

\* The findings of a file are judged in one call, as many of them as the cap lets,
\* and each against its own line and all that stands between it and each line near
\* it, removed lines included (diff/parser.py "Contiguity", graph/critic.py:454-481).
EvidenceIsShown ==
    kind = "lines" =>
    \A first, second \in anchorable_lines(Numbered) : first <= second =>
        LET lines == <<first, second>>
            message == Message(Numbered, lines)
        IN  /\ Len(message) = 1
            /\ Len(message[1].findings) = Min({2, Max({1, CriticMaxFindings})})
            /\ \A f \in Range(message[1].findings) :
                  Evidenced(message[1], Numbered, lines[f])
=============================================================================
