------------------------------ MODULE MCReview -------------------------------
(***************************************************************************)
(* ReviewGraph on small diffs.                                             *)
(***************************************************************************)
EXTENDS ReviewProperties

X == <<"x">>
Y == <<"y">>
Z == <<"z">>
Order == (X :> 1) @@ (Y :> 2) @@ (Z :> 3) @@ (<<"b", "x">> :> 6) @@ (<<".", "x">> :> 7)

Hunk(added, context, removed) == [added |-> added, context |-> context, removed |-> removed]
File(path, kind, hunks) == [path |-> path, kind |-> kind, hunks |-> hunks, omitted |-> 0]

FileX == File(X, "text", <<Hunk({3}, {2}, 1), Hunk({20}, {}, 0)>>)
FileY == File(Y, "text", <<Hunk({1}, {}, 0)>>)

\* A diff of two files and an entry that cannot be read, and one with nothing to
\* review.
TwoFiles == {<<FileX, File(Z, "unreadable", <<>>), FileY>>,
             <<File(Y, "noise", <<Hunk({1}, {}, 0)>>)>>}

Says(file, line, severity, confidence, title) ==
    [file |-> file, line |-> line, severity |-> severity, confidence |-> confidence,
     title |-> {title}]

\* Two words for one place, a place nearby, a line outside the diff, and a file
\* outside of it.
Findings == {
    Says(X, 3, 3, 2, "v"),
    Says(<<"b", "x">>, 4, 2, 2, "v"),
    Says(<<".", "x">>, 2, 3, 1, "w"),
    Says(X, 9, 1, 2, "w"),
    Says(Y, 1, 3, 2, "v"),
    Says(Z, 1, 3, 2, "v")}

Verdict(verdict, prevents, severity, reworded) ==
    [verdict |-> verdict, prevents |-> prevents, severity |-> severity,
     reworded |-> reworded]
Verdicting == {Verdict("drop", FALSE, 0, FALSE), Verdict("amend", TRUE, 1, FALSE),
               Verdict("amend", FALSE, 1, FALSE), Verdict("amend", TRUE, 3, FALSE),
               Verdict("amend", TRUE, 0, TRUE)}

-----------------------------------------------------------------------------
(* A repository with directories named as the prefixes of a diff are.       *)

AX == <<"a", "x">>
ABX == <<"a", "b", "x">>
PrefixOrder == Order @@ (AX :> 4) @@ (ABX :> 5)
InPrefixDirectory == {<<File(path, "text", <<Hunk({3}, {2}, 1)>>)>> : path \in {AX, ABX}}
OfPrefixDirectory == {Says(path, 3, 3, 2, "v") : path \in {AX, ABX}}
=============================================================================
