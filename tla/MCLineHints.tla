---------------------------- MODULE MCLineHints -----------------------------
(* Small instances of LineHints for TLC: one file, a path header, and up   *)
(* to MaxBody pieces below the first hunk header.                          *)
EXTENDS LineHints

CONSTANT MaxBody

Piece(mark, text, real) == [mark |-> mark, text |-> text, real |-> real, start |-> 0]
Header(first) == [mark |-> "@", text |-> <<>>, real |-> FALSE, start |-> first]

\* "+++ b/c", of the file c
PathHeader == Piece("+", <<"+", "+", Blank, "c">>, FALSE)

Texts == {<<>>, <<"a">>, <<"b">>, <<Blank, "a">>, <<"a", Blank, Blank, "b">>, <<"a", Secret>>}

Body == {Piece(mark, text, TRUE) : mark \in {"+", Blank}, text \in Texts}
          \union {Piece("-", <<"b">>, TRUE), Header(7)}
          \union {Piece("+", <<"b">>, FALSE), Piece("c", <<>>, FALSE)}

\* No diff, a deleted file, and files that have their first hunk at line 3.
MCDiffs == {<<>>, <<PathHeader, Header(0), Piece("-", <<"b">>, TRUE)>>}
             \union {<<PathHeader, Header(3)>> \o body : body \in BoundedSeq(Body, MaxBody)}

MCHints == {<<>>, <<Blank>>, <<"b">>, <<"c">>, <<"a", Blank, "b">>, <<"+", "b">>,
            <<"a", Blank, Blank, "b">>, <<Blank, "a", Blank, Blank, "b">>,
            <<"a", Redacted>>, <<Blank, "a">>}
=============================================================================
