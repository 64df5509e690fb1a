------------------------------ MODULE LineHints -------------------------------
(***************************************************************************)
(* Where the finding of an LLM ends up in a review: _verify_line_hint of   *)
(* app/agents/security_agent.py decides whether its line_hint is in the    *)
(* diff, and _map_hint_to_line of app/services/github_reviewer.py looks    *)
(* for the line to comment on, one line of the diff after the other.       *)
(*                                                                         *)
(* The diff is what str.splitlines makes of git's output, as pieces.  A    *)
(* piece is `real` when it is a line of the file as git counts them.  Not  *)
(* real are the path header "+++ b/path", which starts with a plus, and    *)
(* the tail of a line that holds a form feed (or another separator known   *)
(* to Python and not to git), which starts with any character.             *)
(***************************************************************************)
EXTENDS Integers, Sequences, FiniteSets, SequencesExt

CONSTANTS
  Diffs,      \* diffs of a changed file; empty when the LLM named another file
  Hints       \* line_hints the LLM may give

Blank == " "                     \* any white space
Secret == "secret"               \* what a pattern of redact_secrets matches
Redacted == "[REDACTED_SECRET]"

\* The mark is the first character of a piece, "@" that of a hunk header; the
\* start of a header is the first line of its hunk in the new file.
IsPiece(x) ==
  /\ DOMAIN x = {"mark", "text", "real", "start"}
  /\ x.text \in Seq(Range(x.text))
  /\ x.real \in BOOLEAN /\ x.start \in Nat

\* Lines come after a hunk header, and the header is itself no tail.
IsDiff(d) ==
  /\ \A n \in DOMAIN d : IsPiece(d[n])
  /\ \A n \in DOMAIN d : d[n].real => \E m \in 1..n - 1 : d[m].mark = "@"

ASSUME DiffsAssumption == \A d \in Diffs : d \in Seq(Range(d)) /\ IsDiff(d)

VARIABLES
  diff, hint, \* the input: diff_text of the finding's file, its line_hint
  pc,         \* "verify", "scan", "inline" or "summary"
  next,       \* the piece the loop is at
  target,     \* target_line
  line        \* the line of the comment

vars == <<diff, hint, pc, next, target, line>>

NoLine == -1

Init ==
  /\ diff \in Diffs /\ hint \in Hints
  /\ pc = "verify" /\ next = 1 /\ target = 0 /\ line = NoLine

-----------------------------------------------------------------------------
(* Text: a sequence of characters, or of whatever the searches tell apart. *)

\* Python's s in t.
Occurs(s, t) ==
  \E k \in 0..Len(t) - Len(s) : \A n \in DOMAIN s : t[k + n] = s[n]

\* The first n characters of t with every run of white space made one blank,
\* and none at the beginning.
Joined(t) ==
  LET joined[n \in 0..Len(t)] ==
        IF n = 0 THEN <<>>
        ELSE LET out == joined[n - 1] IN
             IF t[n] = Blank /\ (out = <<>> \/ Last(out) = Blank) THEN out
             ELSE Append(out, t[n])
  IN  joined

\* " ".join(t.split())
Normalized(t) ==
  LET all == Joined(t)[Len(t)]
  IN  IF all # <<>> /\ Last(all) = Blank THEN Front(all) ELSE all

\* The diff as one text; the end of a piece is white space.
WholeText == FlattenSeq([n \in DOMAIN diff |-> <<diff[n].mark>> \o diff[n].text \o <<Blank>>])

\* redact_secrets, on what the LLM is shown.
Shown(t) == [n \in DOMAIN t |-> IF t[n] = Secret THEN Redacted ELSE t[n]]

-----------------------------------------------------------------------------

\* Mutant of Verified: only the hint is normalized.
VerifiedRaw == hint # <<>> /\ Occurs(Normalized(hint), WholeText)

\* _verify_line_hint, against the diff that was not redacted.
Verified == hint # <<>> /\ Occurs(Normalized(hint), Normalized(WholeText))

\* A finding of low confidence goes to the summary, as does one of a file
\* that has no diff.
Verify ==
  /\ pc = "verify"
  /\ pc' = IF Verified /\ diff # <<>> THEN "scan" ELSE "summary"
  /\ UNCHANGED <<diff, hint, next, target, line>>

Scanning == pc = "scan" /\ next <= Len(diff)

\* Pieces that start like a context line or an added line.
Candidate(n) == diff[n].mark \in {"+", Blank}

\* Mutant of Matches: the hint must be in the line.
MatchesWhole(n) == Candidate(n) /\ Occurs(hint, diff[n].text)

\* The hint is in the line, or the line, which may be empty, in the hint.
Matches(n) ==
  Candidate(n) /\ (Occurs(hint, diff[n].text) \/ Occurs(diff[n].text, hint))

\* Mutant of ReadHeader: lines are counted from zero.
ReadHeaderFromZero ==
  /\ Scanning
  /\ diff[next].mark = "@"
  /\ target' = diff[next].start - 1 /\ next' = next + 1
  /\ UNCHANGED <<diff, hint, pc, line>>

ReadHeader ==
  /\ Scanning
  /\ diff[next].mark = "@"
  /\ target' = diff[next].start /\ next' = next + 1
  /\ UNCHANGED <<diff, hint, pc, line>>

PlaceComment ==
  /\ Scanning
  /\ Matches(next)
  /\ pc' = "inline" /\ line' = target
  /\ UNCHANGED <<diff, hint, next, target>>

\* Mutant of CountLine: target_line counts the added lines only.
CountAddedLine ==
  /\ Scanning
  /\ Candidate(next) /\ ~Matches(next)
  /\ target' = IF diff[next].mark = "+" THEN target + 1 ELSE target
  /\ next' = next + 1
  /\ UNCHANGED <<diff, hint, pc, line>>

CountLine ==
  /\ Scanning
  /\ Candidate(next) /\ ~Matches(next)
  /\ target' = target + 1 /\ next' = next + 1
  /\ UNCHANGED <<diff, hint, pc, line>>

\* Removed lines, other headers, and tails that start with something else.
PassOver ==
  /\ Scanning
  /\ diff[next].mark # "@" /\ ~Candidate(next)
  /\ next' = next + 1
  /\ UNCHANGED <<diff, hint, pc, target, line>>

NotFound ==
  /\ pc = "scan" /\ next > Len(diff)
  /\ pc' = "summary"
  /\ UNCHANGED <<diff, hint, next, target, line>>

Next == Verify \/ ReadHeader \/ PlaceComment \/ CountLine \/ PassOver \/ NotFound

Spec == Init /\ [][Next]_vars

-----------------------------------------------------------------------------
\* Every variable has a value the code can give it.
TypeOK ==
  /\ IsDiff(diff) /\ hint \in Hints
  /\ pc \in {"verify", "scan", "inline", "summary"}
  /\ next \in 1..Len(diff) + 1
  /\ target \in Nat /\ line \in Nat \union {NoLine}

\* The hunk of piece n starts at h.
HunkOf(n, h) ==
  h \in 1..n - 1 /\ diff[h].mark = "@" /\ \A m \in h + 1..n - 1 : diff[m].mark # "@"

\* Splitting at a form feed made a piece that counts as a line, before n.
Split(h, n) == \E m \in h + 1..n - 1 : Candidate(m) /\ ~diff[m].real

\* The number in the new file of the line at n, as git counts.
LineOf(h, n) ==
  diff[h].start + Cardinality({m \in h + 1..n - 1 : Candidate(m) /\ diff[m].real})

\* The line of a comment is the number, in the file the pull request leaves
\* behind, of the line it was placed for.  What is excepted is a hint found
\* in the path header, whose comment is on line 0, or in a piece that is, or
\* comes after, the tail of a line that holds a form feed.
CommentLineIsReal ==
  pc = "inline" /\ diff[next].real =>
    \A h \in DOMAIN diff : HunkOf(next, h) => line = LineOf(h, next) \/ Split(h, next)

\* A line in which the hint may be found, for the LLM quoted it as it was
\* shown to it, with or without its mark.
Quotes(n) ==
  /\ diff[n].real /\ Candidate(n)
  /\ Normalized(diff[n].text) # <<>>
  /\ hint \in {Shown(diff[n].text), <<diff[n].mark>> \o Shown(diff[n].text)}

\* A finding that quotes a line of the new file is commented inline, and not
\* further down than that line: neither the verification nor the search
\* loses it.  What is excepted is a line with a redacted secret, of which the
\* LLM can only quote the placeholder.
QuotedLinesArePlaced ==
  pc \in {"inline", "summary"} =>
    \A n \in DOMAIN diff : Quotes(n) /\ Shown(diff[n].text) = diff[n].text
                             => pc = "inline" /\ next <= n

=============================================================================
