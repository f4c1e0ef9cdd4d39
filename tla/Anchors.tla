------------------------------- MODULE Anchors -------------------------------
(***************************************************************************)
(* A file of a diff with its line bookkeeping (diff/parser.py), and the    *)
(* check of every reported place against it (anchors.py).                  *)
(***************************************************************************)
EXTENDS Dedupe

CONSTANTS
    SnapTolerance       \* SNAP_TOLERANCE

ASSUME AnchorsAssumption == SnapTolerance \in Nat

Paths(files) == {files[i].path : i \in DOMAIN files}

\* A diff is its entries.  One that cannot be read makes the parser go entry by
\* entry, so that the others are still read.
Readable(entry) == entry.kind # "unreadable"

parse_diff(entries) ==
    [files       |-> Filter(entries, Readable),
     unparseable |-> Paths(Filter(entries, LAMBDA e : ~Readable(e)))]

\* A hunk is its added and context lines by their number in the new file, and
\* the number of its removed lines.
line_count(hunk) == Cardinality(hunk.added) + Cardinality(hunk.context) + hunk.removed

\* An entry of a diff, and of one that was read the file.
LineSet == {lines \in SUBSET Nat : IsFiniteSet(lines)}
Hunks == Seq([added : LineSet, context : LineSet, removed : Nat])
Entry == [path : Path, kind : {"text", "binary", "noise", "unreadable"},
          hunks : Hunks, omitted : Nat]

\* The lines of the first n hunks.
LinesUpTo(hunks, n) == Total([i \in 1 .. n |-> line_count(hunks[i])])

added_lines(file) == UNION {file.hunks[i].added : i \in DOMAIN file.hunks}

context_lines(file) == UNION {file.hunks[i].context : i \in DOMAIN file.hunks}

anchorable_lines(file) == added_lines(file) \cup context_lines(file)

\* Mutant: the first hunk too is dropped when it is over the limit.
truncated_to_nothing(file, max_lines) ==
    LET keep == Max({n \in 0 .. Len(file.hunks) :
                       \A k \in 1 .. n : LinesUpTo(file.hunks, k) <= max_lines})
    IN  [file EXCEPT !.hunks = SubSeq(@, 1, keep),
                     !.omitted = @ + Len(file.hunks) - keep]

\* Whole hunks up to the limit, and at least one.
truncated_to(file, max_lines) ==
    LET keep == Max({n \in 0 .. Len(file.hunks) :
                       \A k \in 2 .. n : LinesUpTo(file.hunks, k) <= max_lines})
    IN  [file EXCEPT !.hunks = SubSeq(@, 1, keep),
                     !.omitted = @ + Len(file.hunks) - keep]

Near(lines, line) == {n \in lines : Distance(n, line) <= SnapTolerance}

\* The nearest of some lines, and of two at the same distance the earlier.
Nearest(lines, line) ==
    CHOOSE n \in lines : \A m \in lines :
        \/ Distance(n, line) < Distance(m, line)
        \/ Distance(n, line) = Distance(m, line) /\ n <= m

\* Mutant: a line that is near the diff is left where it is.
nearest_anchor_unmoved(file, line) ==
    IF Near(anchorable_lines(file), line) # {} THEN line ELSE NoLine

\* Mutant: a line snaps to the nearest of the diff, however far that is.
nearest_anchor_anywhere(file, line) ==
    IF line \in anchorable_lines(file) THEN line
    ELSE IF anchorable_lines(file) # {} THEN Nearest(anchorable_lines(file), line)
    ELSE NoLine

\* An added line is preferred to one of context.
nearest_anchor(file, line) ==
    IF line \in anchorable_lines(file) THEN line
    ELSE IF Near(added_lines(file), line) # {}
         THEN Nearest(Near(added_lines(file), line), line)
    ELSE IF Near(anchorable_lines(file), line) # {}
         THEN Nearest(Near(anchorable_lines(file), line), line)
    ELSE NoLine

\* by_path: the files with a normalized path, of which the dictionary keeps the
\* last; 0 when there is none.
by_path(files, path) ==
    Max({0} \cup {i \in DOMAIN files : normalize_path(files[i].path) = normalize_path(path)})

\* A finding about a file that is not in the diff is dropped, one on a line that
\* is not near the diff loses its line.
anchor_findings(findings, files) ==
    LET placed == Filter(findings, LAMBDA f : by_path(files, f.file) # 0)
        Anchor(f) == IF f.line = NoLine THEN NoLine
                     ELSE nearest_anchor(files[by_path(files, f.file)], f.line)
    IN  [i \in DOMAIN placed |->
            [placed[i] EXCEPT !.file = normalize_path(@), !.line = Anchor(placed[i])]]
=============================================================================
