---------------------------- MODULE ChangedFiles -----------------------------
(***************************************************************************)
(* From the output of git diff to the batches of files an LLM is asked     *)
(* about: _parse_diff_output and get_pr_diff of                            *)
(* app/services/diff_extractor.py, then _batch_files of                    *)
(* app/agents/security_agent.py.  Each loop takes one step per iteration.  *)
(*                                                                         *)
(* splitlines cuts the output into pieces.  They are the lines git prints, *)
(* but for lines of a changed file that hold a bare carriage return, a     *)
(* form feed or another separator only Python splits at: what comes after  *)
(* it is a piece of its own, a tail.  A piece has the kind its first words *)
(* make the parser take it for, so that a tail may have any; count("
")   *)
(* counts only the pieces that end in a newline.  The text of a file is    *)
(* the sequence of the positions of its pieces in the output.              *)
(***************************************************************************)
EXTENDS Integers, Sequences, FiniteSets, SequencesExt

CONSTANTS
  Outputs,      \* outputs of git diff
  Paths,        \* paths of changed files
  NameOf,       \* the fourth word of a header but for two characters: the
                \* path, unless git quotes it or there is a space in it
  Noise,        \* the paths and names that match _NOISE_PATTERNS
  MaxLines,     \* _MAX_DIFF_LINES_PER_FILE
  SmallBelow,   \* the 50 of _batch_files
  BatchLines,   \* its 200
  BatchFiles    \* its 5

StatusKinds == {"added", "deleted", "renamed", "binary"}

\* A broken header is "diff --git " and no fourth word.
Kinds == {"header", "broken", "text"} \union StatusKinds

Pieces == [kind : Kinds, path : Paths, nl : BOOLEAN, tail : BOOLEAN]

\* What git prints begins with a header and ends in a newline, and a header of
\* git is never broken.  Only text has tails: after a bare carriage return,
\* which is read as a newline, and after every other separator.  That a file is
\* binary is said last, where its text would be.
IsOutput(out) ==
  LET Git(n, kinds) == out[n].kind \in kinds /\ ~out[n].tail
      Between(n, m) == \E h \in (n..m) \union (m..n) : Git(h, {"header"})
  IN  /\ out # <<>> => Git(1, {"header"})
      /\ \A n \in DOMAIN out :
           /\ out[n].kind = "broken" => out[n].tail
           /\ ~out[n].nl => n < Len(out) /\ out[n + 1].tail
           /\ out[n].tail => n > 1 /\ (out[n - 1].tail \/ out[n - 1].kind = "text")
      /\ \A n, m \in DOMAIN out :
           Git(n, {"binary"}) /\ (out[m].tail \/ (n < m /\ Git(m, StatusKinds)))
             => Between(n, m)

ASSUME OutputsAssumption == \A out \in Outputs : out \in Seq(Pieces) /\ IsOutput(out)

ASSUME NamesAssumption == DOMAIN NameOf = Paths

ASSUME LimitsAssumption ==
  /\ MaxLines \in Nat /\ BatchFiles \in Nat \ {0}
  /\ SmallBelow \in Nat /\ BatchLines \in Nat /\ SmallBelow <= BatchLines

VARIABLES
  output,       \* the input, diff_text
  pc,           \* "parse", "cut", "sort", "fill" or "done"
  next,         \* the piece or file the loop is at
  current,      \* current_file with its lines; <<>> or a sequence of one file
  files,        \* files, then processed_files
  cut,          \* processed_files so far
  small, large, \* small_files and large_files
  batch,        \* current_batch
  batchLines,   \* current_lines
  batches

vars == <<output, pc, next, current, files, cut, small, large, batch, batchLines, batches>>

Init ==
  /\ output \in Outputs
  /\ pc = "parse" /\ next = 1
  /\ current = <<>> /\ files = <<>> /\ cut = <<>> /\ small = <<>> /\ large = <<>>
  /\ batch = <<>> /\ batchLines = 0 /\ batches = <<>>

\* A file is known by its header: `at` is the position of it.
File(n) == [at |-> n, name |-> NameOf[output[n].path], status |-> "modified", text |-> <<>>]

-----------------------------------------------------------------------------
(* _parse_diff_output: a piece at a time.                                  *)

\* The file that was being read joins the others, unless it is noise.
Saved ==
  IF current # <<>> /\ current[1].name \notin Noise THEN Append(files, current[1]) ELSE files

Reading(kinds) == pc = "parse" /\ next <= Len(output) /\ output[next].kind \in kinds

\* Mutant of ReadHeader: current_diff_lines is not emptied.
ReadHeaderKeepsLines ==
  /\ Reading({"header", "broken"})
  /\ files' = Saved /\ next' = next + 1
  /\ current' = <<[File(next) EXCEPT !.text = IF current = <<>> THEN <<>> ELSE current[1].text]>>
  /\ UNCHANGED <<output, pc, cut, small, large, batch, batchLines, batches>>

\* After a broken header no file is being read until the next header.
ReadHeader ==
  /\ Reading({"header", "broken"})
  /\ files' = Saved /\ next' = next + 1
  /\ current' = IF output[next].kind = "header" THEN <<File(next)>> ELSE <<>>
  /\ UNCHANGED <<output, pc, cut, small, large, batch, batchLines, batches>>

\* A mode, rename or binary line sets the status and is no text.
ReadStatus ==
  /\ Reading(StatusKinds)
  /\ current' = [n \in DOMAIN current |-> [current[n] EXCEPT !.status = output[next].kind]]
  /\ next' = next + 1
  /\ UNCHANGED <<output, pc, files, cut, small, large, batch, batchLines, batches>>

ReadText ==
  /\ Reading({"text"})
  /\ current' = [n \in DOMAIN current |-> [current[n] EXCEPT !.text = Append(@, next)]]
  /\ next' = next + 1
  /\ UNCHANGED <<output, pc, files, cut, small, large, batch, batchLines, batches>>

EndOfOutput ==
  /\ pc = "parse" /\ next > Len(output)
  /\ files' = Saved /\ current' = <<>> /\ pc' = "cut" /\ next' = 1
  /\ UNCHANGED <<output, cut, small, large, batch, batchLines, batches>>

-----------------------------------------------------------------------------
(* get_pr_diff: binary files are dropped, long diffs truncated.            *)

\* What is added to the pieces that are kept: a newline, and a line.
Remark == <<0, 0>>

\* The pieces of a text that end in a newline, and count("\n").
Newlines(text) == {i \in DOMAIN text : text[i] = 0 \/ output[text[i]].nl}

LineCount(text) == Cardinality(Newlines(text))

\* The newlines decide whether a text is cut, the pieces where.
Truncated(f) ==
  IF LineCount(f.text) > MaxLines THEN [f EXCEPT !.text = SubSeq(@, 1, MaxLines) \o Remark] ELSE f

CutFile ==
  /\ pc = "cut" /\ next <= Len(files)
  /\ cut' = IF files[next].status = "binary" THEN cut ELSE Append(cut, Truncated(files[next]))
  /\ next' = next + 1
  /\ UNCHANGED <<output, pc, current, files, small, large, batch, batchLines, batches>>

EndOfCut ==
  /\ pc = "cut" /\ next > Len(files)
  /\ files' = cut /\ cut' = <<>> /\ pc' = "sort" /\ next' = 1
  /\ UNCHANGED <<output, current, small, large, batch, batchLines, batches>>

-----------------------------------------------------------------------------
(* _batch_files.                                                           *)

SortFile ==
  /\ pc = "sort" /\ next <= Len(files)
  /\ IF LineCount(files[next].text) < SmallBelow
       THEN small' = Append(small, files[next]) /\ UNCHANGED large
       ELSE large' = Append(large, files[next]) /\ UNCHANGED small
  /\ next' = next + 1
  /\ UNCHANGED <<output, pc, current, files, cut, batch, batchLines, batches>>

EndOfSort ==
  /\ pc = "sort" /\ next > Len(files)
  /\ pc' = "fill" /\ next' = 1
  /\ UNCHANGED <<output, current, files, cut, small, large, batch, batchLines, batches>>

\* Mutant of Full: the new file's lines are not counted.
FullIgnoresFile(f) == batchLines > BatchLines \/ Len(batch) >= BatchFiles

Full(f) == batchLines + LineCount(f.text) > BatchLines \/ Len(batch) >= BatchFiles

AddToBatch ==
  /\ pc = "fill" /\ next <= Len(small) /\ ~Full(small[next])
  /\ batch' = Append(batch, small[next])
  /\ batchLines' = batchLines + LineCount(small[next].text)
  /\ next' = next + 1
  /\ UNCHANGED <<output, pc, current, files, cut, small, large, batches>>

\* Mutant of CloseBatch: the file that does not fit is left out.
CloseBatchDropsFile ==
  /\ pc = "fill" /\ next <= Len(small) /\ Full(small[next])
  /\ batches' = Append(batches, batch)
  /\ batch' = <<>> /\ batchLines' = 0
  /\ next' = next + 1
  /\ UNCHANGED <<output, pc, current, files, cut, small, large>>

\* Mutant of CloseBatch: current_lines goes on counting.
CloseBatchKeepsCount ==
  /\ pc = "fill" /\ next <= Len(small) /\ Full(small[next])
  /\ batches' = Append(batches, batch)
  /\ batch' = <<small[next]>> /\ batchLines' = batchLines + LineCount(small[next].text)
  /\ next' = next + 1
  /\ UNCHANGED <<output, pc, current, files, cut, small, large>>

CloseBatch ==
  /\ pc = "fill" /\ next <= Len(small) /\ Full(small[next])
  /\ batches' = Append(batches, batch)
  /\ batch' = <<small[next]>> /\ batchLines' = LineCount(small[next].text)
  /\ next' = next + 1
  /\ UNCHANGED <<output, pc, current, files, cut, small, large>>

Alone == [n \in DOMAIN large |-> <<large[n]>>]

EndOfFill ==
  /\ pc = "fill" /\ next > Len(small)
  /\ batches' = batches \o (IF batch = <<>> THEN <<>> ELSE <<batch>>) \o Alone
  /\ pc' = "done"
  /\ UNCHANGED <<output, next, current, files, cut, small, large, batch, batchLines>>

Next ==
  \/ ReadHeader \/ ReadStatus \/ ReadText \/ EndOfOutput
  \/ CutFile \/ EndOfCut
  \/ SortFile \/ EndOfSort
  \/ AddToBatch \/ CloseBatch \/ EndOfFill

Spec == Init /\ [][Next]_vars
-----------------------------------------------------------------------------
Names == Paths \union Range(NameOf)
Statuses == {"modified"} \union StatusKinds
Files == [at : Nat, name : Names, status : Statuses, text : Seq(Nat)]

\* Every variable has a value the code can give it: in particular the open
\* batch never exceeds its limits, and is empty only before its first file.
TypeOK ==
  /\ IsOutput(output)
  /\ pc \in {"parse", "cut", "sort", "fill", "done"}
  /\ next \in Nat \ {0}
  /\ current \in Seq(Files) /\ Len(current) <= 1
  /\ files \in Seq(Files) /\ cut \in Seq(Files)
  /\ small \in Seq(Files) /\ large \in Seq(Files)
  /\ batch \in Seq(Files) /\ Len(batch) <= BatchFiles
  /\ batchLines \in 0..BatchLines /\ (batch = <<>> => batchLines = 0)
  /\ batches \in Seq(Seq(Files))

\* The headers that git printed, and the pieces from one to the next.
GitHeaders == {n \in DOMAIN output : output[n].kind = "header" /\ ~output[n].tail}
Own(h) == {n \in h + 1..Len(output) : GitHeaders \intersect h + 1..n = {}}
OwnOf(h, kinds) == {n \in Own(h) : output[n].kind \in kinds}

\* The tails in a changed file that the parser takes for what git says of it.
Posing(h, kinds) == {n \in OwnOf(h, kinds) : output[n].tail}

\* A path that _parse_diff_output reads as it is.
Plain(h) == NameOf[output[h].path] = output[h].path

ToReview(h) == output[h].path \notin Noise /\ OwnOf(h, {"binary"}) = {}

\* Where the file of a header is in the batches.
Placed(h) ==
  UNION {{<<b, n>> : n \in {m \in DOMAIN batches[b] : batches[b][m].at = h}} : b \in DOMAIN batches}

\* Every change git printed that is text and no noise is in exactly one batch,
\* and no other is in any; a path that changes its type is two changes.  What
\* is excepted is a path that is not read as it is, since the filter sees
\* another name, and a text with a tail that says "Binary files".
EachChangeReviewedOnce ==
  pc = "done" =>
    \A h \in GitHeaders : Plain(h) /\ Posing(h, {"binary"}) = {}
      => Cardinality(Placed(h)) = IF ToReview(h) THEN 1 ELSE 0

\* The first of some pieces of the output, up to the limit.
FirstOf(lines) == {n \in lines : Cardinality({m \in lines : m <= n}) <= MaxLines}

\* A file has these pieces of the output in order; the first ones, and the
\* remark after them, if there are more newlines in them than the limit.
HasText(f, lines) ==
  LET long == Cardinality({n \in lines : output[n].nl}) > MaxLines
      kept == IF long THEN SubSeq(f.text, 1, MaxLines) ELSE f.text
  IN  /\ Range(kept) = IF long THEN FirstOf(lines) ELSE lines
      /\ \A k, m \in DOMAIN kept : k < m => kept[k] < kept[m]
      /\ long => f.text = kept \o Remark

\* What the LLM is asked about under one name is of one changed file, never a
\* line of the next; and it is all the text of that change, in order and up to
\* the limit, unless a tail in it is taken for a header or a status.
BatchesHoldOwnText ==
  pc = "done" =>
    \A b \in DOMAIN batches : \A n \in DOMAIN batches[b] :
      LET f == batches[b][n]
      IN  /\ \E h \in GitHeaders : {f.at} \union (Range(f.text) \ {0}) \subseteq {h} \union Own(h)
          /\ f.at \in GitHeaders /\ Posing(f.at, Kinds \ {"text"}) = {}
               => HasText(f, OwnOf(f.at, {"text"}))

\* The newlines of all files of a batch, each known by its file and its place.
LinesOf(b) == Cardinality(UNION {{n} \X Newlines(b[n].text) : n \in DOMAIN b})

\* No request to the LLM is empty, over both limits, or mixes a large file
\* with others.
BatchLimits ==
  \A b \in DOMAIN batches :
    /\ Len(batches[b]) \in 1..BatchFiles
    /\ \/ Len(batches[b]) = 1
       \/ /\ LinesOf(batches[b]) <= BatchLines
          /\ \A n \in DOMAIN batches[b] : LineCount(batches[b][n].text) < SmallBelow
=============================================================================
