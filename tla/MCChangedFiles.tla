--------------------------- MODULE MCChangedFiles ----------------------------
(* Small instances of ChangedFiles for TLC: a pull request that changes any *)
(* of five files, in the order git lists them, in any of the given ways.    *)
EXTENDS ChangedFiles

CONSTANTS p1, p2, p3, noise, odd, short

\* git diff prints "my file.py", which is read as "le.py", a name of its own.
MCPaths == {p1, p2, p3, noise, odd}
MCNameOf == [p \in MCPaths |-> IF p = odd THEN short ELSE p]
MCNoise == {noise}

\* A line git prints, the first piece of one with a form feed in it, and the
\* tail of that one.
Line(p, kind) == [kind |-> kind, path |-> p, nl |-> TRUE, tail |-> FALSE]
Torn(p) == [Line(p, "text") EXCEPT !.nl = FALSE]
Rest(p, kind) == [Line(p, kind) EXCEPT !.tail = TRUE]

Text(p, size) == [n \in 1..size |-> Line(p, "text")]
Change(p, status, size) == <<Line(p, "header")>> \o status \o Text(p, size)

Usual(p) == {Change(p, <<>>, n) : n \in {1, 2, 3, 5}}
              \union {Change(p, <<Line(p, "deleted")>>, 2), Change(p, <<Line(p, "renamed")>>, 2),
                      Change(p, <<Line(p, "added"), Line(p, "binary")>>, 1)}

\* A path whose type changes is deleted and added.  Then texts with tails: with
\* more pieces than the limit but no more newlines, with more of both, with a
\* bare carriage return, and with a tail of each kind that matters.
Unusual(p, other) ==
  {Change(p, <<Line(p, "deleted")>>, 1) \o Change(p, <<Line(p, "added")>>, 2)}
    \union {Change(p, <<>>, n) \o <<Torn(p), Rest(p, "text")>> : n \in {3, 4}}
    \union {Change(p, <<>>, 1) \o <<Rest(p, "text"), Line(p, "text")>>}
    \union {Change(p, <<>>, 1) \o <<Torn(p), Rest(other, kind), Line(p, "text")>> :
              kind \in {"header", "broken", "deleted", "binary"}}

Unchanged == <<>>

MCOutputs ==
  {a \o b \o c \o d \o e :
     a \in Usual(p1) \union Unusual(p1, p3) \union {Unchanged},
     b \in {Unchanged, Change(noise, <<>>, 1)},
     c \in Usual(p2) \union {Unchanged}, d \in {Unchanged, Change(odd, <<>>, 1)},
     e \in Usual(p3) \union {Unchanged}}
=============================================================================
