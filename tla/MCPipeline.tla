----------------------------- MODULE MCPipeline ------------------------------
(***************************************************************************)
(* PipelineChecks on small inputs.                                         *)
(***************************************************************************)
EXTENDS PipelineChecks

\* A hunk of n added lines.
Lines(n) == [added |-> 1 .. n, context |-> {}, removed |-> 0]
File(sort, hunks) == [kind |-> sort, hunks |-> hunks, omitted |-> 0]

\* Files of one line to five, one longer than a file may be, one whose first
\* hunk alone is, a binary file, one without content, and one that
\* cannot be read.
Files == {File("text", <<Lines(n)>>) : n \in {1, 2, 5}}
         \cup {File("text", <<Lines(2), Lines(2)>>), File("text", <<Lines(3), Lines(2)>>),
               File("binary", <<>>), File("text", <<>>),
               File("unreadable", <<>>)}

X == <<"x">>
Y == <<"y">>
Order == (X :> 1) @@ (Y :> 2) @@ (<<"z">> :> 3) @@ (<<"z", "x">> :> 4) @@ (<<"a", "x">> :> 5)

\* Findings a tolerance apart and more, of every severity.
Says(file, line, severity, confidence, words) ==
    [file |-> file, line |-> line, severity |-> severity, confidence |-> confidence,
     title |-> words]
Findings == {
    Says(X, 1, 1, 3, {"u", "v"}),
    Says(X, 4, 3, 1, {"u", "v", "w"}),
    Says(<<"a", "x">>, 7, 2, 2, {"u", "v"}),
    Says(X, NoLine, 2, 2, {"u", "v"}),
    Says(Y, 1, 2, 3, {"v"}),
    Says(Y, 1, 2, 0, {"v"})}

\* All pairs of four findings but one.
FivePairs == {<<1, 2>>, <<1, 3>>, <<2, 3>>, <<2, 4>>, <<3, 4>>}

-----------------------------------------------------------------------------
(* Selection against the library's operators.                               *)

ASSUME FilterIsSelectSeq ==
    \A s \in BoundedSeq(1 .. 3, 4), T \in SUBSET (1 .. 3) :
        Filter(s, LAMBDA x : x \in T) = SelectSeq(s, LAMBDA x : x \in T)

ASSUME SortedIsSort ==
    \A s \in BoundedSeq(1 .. 3, 4) :
        SortedBy(s, LAMBDA x, y : x < y) = SortSeq(s, LAMBDA x, y : x < y)

ASSUME TotalIsSum == \A s \in BoundedSeq(0 .. 2, 4) : Total(s) = SumFunction(s)
=============================================================================
