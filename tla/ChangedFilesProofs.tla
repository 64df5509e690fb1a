-------------------------- MODULE ChangedFilesProofs --------------------------
(***************************************************************************)
(* What TLAPS proves of ChangedFiles, for any output of git diff, any      *)
(* noise filter and any limits: that every change is asked about once,     *)
(* with its own text, in batches within their limits.                      *)
(*                                                                         *)
(* The invariant has one part per loop of the code, which says what the    *)
(* loop has made of the pieces or files it has passed: Parsing, Cutting,   *)
(* Sorting, Filling and, for what the last one returns, Finished.  It      *)
(* speaks of what the parser sees; SaidByGit, SectionIsOwn and Owned lead  *)
(* from there to what git printed.                                         *)
(***************************************************************************)
EXTENDS ChangedFiles, FiniteSetTheorems, SequenceTheorems, TLAPS

\* The headers of a sequence of files, each of which is there once.
Ats(s) == {s[n].at : n \in DOMAIN s}
Distinct(s) == \A n, m \in DOMAIN s : s[n].at = s[m].at => n = m

\* The headers of the files that a loop at the n-th has passed.
AtsBelow(s, n) == {s[k].at : k \in {m \in DOMAIN s : m < n}}

\* The headers of a sequence of batches, and that each is there once.
AllAts(bs) == UNION {Ats(bs[b]) : b \in DOMAIN bs}
Apart(bs) ==
  \A b, c \in DOMAIN bs : \A n \in DOMAIN bs[b], m \in DOMAIN bs[c] :
    bs[b][n].at = bs[c][m].at => b = c /\ n = m

\* The pieces the parser takes for a header, where the file before them ends,
\* and what it takes for a part of that file.
Headers == {n \in DOMAIN output : output[n].kind = "header"}
Breaks == {n \in DOMAIN output : output[n].kind \in {"header", "broken"}}
Section(h) == {n \in h + 1..Len(output) : Breaks \intersect h + 1..n = {}}
OfKind(h, kind) == {n \in Section(h) : output[n].kind = kind}

\* The last that is said of a file before n is that it is binary.
SaysBinary(h, n) ==
  \E m \in OfKind(h, "binary") :
    m < n /\ \A k \in Section(h) : m < k /\ k < n => output[k].kind \notin StatusKinds

\* The files the noise filter lets pass, and of these the ones with a text.
Named == {h \in Headers : NameOf[output[h].path] \notin Noise}
Reviewed == {h \in Named : ~SaysBinary(h, Len(output) + 1)}

\* The text of a file is what is kept of the one in its section.
HasReadText(f) ==
  /\ HasText(f, OfKind(f.at, "text"))
  /\ Range(f.text) \ {0} \subseteq OfKind(f.at, "text")

Increasing(t) == \A k, m \in DOMAIN t : k < m => t[k] < t[m]

\* What is known of a file when the lines before n have been read,
ReadUpTo(f, n) ==
  /\ f.at \in Headers /\ f.at < n
  /\ f.name = NameOf[output[f.at].path]
  /\ Range(f.text) = {m \in OfKind(f.at, "text") : m < n}
  /\ Increasing(f.text)
  /\ f.status = "binary" <=> SaysBinary(f.at, n)

\* and when all have.
Whole(f) == ReadUpTo(f, Len(output) + 1)

\* The loop is in the section of the file it reads, if any, the last so far;
\* those before are whole and in files, but for noise.
Parsing ==
  /\ current = <<>> => Ats(files) = {h \in Named : h < next}
  /\ current # <<>> =>
       /\ ReadUpTo(current[1], next)
       /\ Breaks \intersect current[1].at + 1..next - 1 = {}
       /\ Ats(files) = {h \in Named : h < current[1].at}
  /\ Distinct(files)
  /\ \A n \in DOMAIN files : Whole(files[n])

\* The files passed are cut, but for the binary ones.
Cutting ==
  /\ Ats(files) = Named /\ Distinct(files)
  /\ \A n \in DOMAIN files : Whole(files[n])
  /\ Ats(cut) = AtsBelow(files, next) \intersect Reviewed /\ Distinct(cut)
  /\ \A n \in DOMAIN cut : HasReadText(cut[n])

\* The files of the headers hs are in small or in large, with their text.
Sorted(hs) ==
  /\ Ats(small) \union Ats(large) = hs /\ Ats(small) \intersect Ats(large) = {}
  /\ Distinct(small) /\ Distinct(large)
  /\ \A n \in DOMAIN small : HasReadText(small[n]) /\ LineCount(small[n].text) < SmallBelow
  /\ \A n \in DOMAIN large : HasReadText(large[n])

Sorting ==
  /\ Ats(files) = Reviewed /\ Distinct(files)
  /\ \A n \in DOMAIN files : HasReadText(files[n])
  /\ Sorted(AtsBelow(files, next))

\* What a batch of small files keeps to.
Fits(b) ==
  /\ Len(b) <= BatchFiles /\ LinesOf(b) <= BatchLines
  /\ \A n \in DOMAIN b : HasReadText(b[n]) /\ LineCount(b[n].text) < SmallBelow

\* The closed batches and the open one hold the small files passed so far,
\* each in one place.
Pending == Append(batches, batch)

Filling ==
  /\ Sorted(Reviewed)
  /\ Apart(Pending)
  /\ AllAts(Pending) = AtsBelow(small, next)
  /\ \A b \in DOMAIN batches : batches[b] # <<>>
  /\ \A b \in DOMAIN Pending : Fits(Pending[b])
  /\ LinesOf(batch) = batchLines

\* Every file to review is in one place of the batches.
Finished ==
  /\ Apart(batches)
  /\ AllAts(batches) = Reviewed
  /\ BatchLimits
  /\ \A b \in DOMAIN batches : \A n \in DOMAIN batches[b] : HasReadText(batches[b][n])

\* What a stage uses is empty before it.
Unused ==
  /\ pc = "parse" => cut = <<>>
  /\ pc \in {"parse", "cut"} => small = <<>> /\ large = <<>>
  /\ pc \in {"parse", "cut", "sort"} => batch = <<>> /\ batchLines = 0 /\ batches = <<>>

IInv ==
  /\ output \in Outputs
  /\ TypeOK
  /\ Unused
  /\ pc = "parse" => Parsing
  /\ pc = "cut" => Cutting
  /\ pc = "sort" => Sorting
  /\ pc = "fill" => Filling
  /\ pc = "done" => Finished

-----------------------------------------------------------------------------
(* Sequences of files.                                                     *)

\* Where the elements of a sequence are when one is appended.
LEMMA AppendPlaces ==
  ASSUME NEW S, NEW s \in Seq(S), NEW e \in S
  PROVE  LET t == Append(s, e)
             last == Len(s) + 1
         IN  /\ DOMAIN t = DOMAIN s \union {last} /\ last \notin DOMAIN s
             /\ \A n \in DOMAIN s : t[n] = s[n]
             /\ t[last] = e
  BY AppendProperties, LenProperties

\* A file whose header is new joins a sequence.
LEMMA AppendOnce ==
  ASSUME NEW S, NEW s \in Seq(S), NEW f \in S
  PROVE  /\ Ats(Append(s, f)) = Ats(s) \union {f.at}
         /\ Distinct(s) /\ f.at \notin Ats(s) => Distinct(Append(s, f))
  <1> DEFINE t == Append(s, f)
  <1>1. /\ DOMAIN t = DOMAIN s \union {Len(s) + 1} /\ Len(s) + 1 \notin DOMAIN s
        /\ \A n \in DOMAIN s : t[n] = s[n]
        /\ t[Len(s) + 1] = f
    BY AppendProperties, LenProperties
  <1> HIDE DEF t
  <1>2. Ats(t) = Ats(s) \union {f.at}
    BY <1>1 DEF Ats
  <1>3. ASSUME Distinct(s), f.at \notin Ats(s) PROVE Distinct(t)
    BY <1>1, <1>3 DEF Ats, Distinct
  <1>4. QED
    BY <1>2, <1>3 DEF t

\* A loop passes the files one by one, from none to all.
LEMMA PassesAll ==
  ASSUME NEW S, NEW s \in Seq(S), NEW n \in Nat \ {0}
  PROVE  /\ AtsBelow(s, 1) = {}
         /\ n > Len(s) => AtsBelow(s, n) = Ats(s)
         /\ n <= Len(s) =>
              /\ n \in DOMAIN s /\ s[n] \in S
              /\ AtsBelow(s, n + 1) = AtsBelow(s, n) \union {s[n].at}
              /\ Distinct(s) => s[n].at \notin AtsBelow(s, n)
  <1>1. Len(s) \in Nat /\ DOMAIN s = 1..Len(s)
    BY LenProperties
  <1>2. AtsBelow(s, 1) = {}
    BY <1>1 DEF AtsBelow
  <1>3. ASSUME n > Len(s) PROVE AtsBelow(s, n) = Ats(s)
    <2>1. {m \in DOMAIN s : m < n} = DOMAIN s
      BY <1>1, <1>3
    <2>2. QED
      BY <2>1 DEF AtsBelow, Ats
  <1>4. ASSUME n <= Len(s)
        PROVE  /\ n \in DOMAIN s /\ s[n] \in S
               /\ AtsBelow(s, n + 1) = AtsBelow(s, n) \union {s[n].at}
               /\ Distinct(s) => s[n].at \notin AtsBelow(s, n)
    <2>1. n \in DOMAIN s /\ s[n] \in S
      BY <1>1, <1>4, ElementOfSeq
    <2>2. {m \in DOMAIN s : m < n + 1} = {m \in DOMAIN s : m < n} \union {n}
      BY <1>1, <2>1
    <2>3. AtsBelow(s, n + 1) = AtsBelow(s, n) \union {s[n].at}
      BY <2>2 DEF AtsBelow
    <2>4. ASSUME Distinct(s), NEW m \in DOMAIN s, m < n PROVE s[m].at # s[n].at
      BY <1>1, <2>1, <2>4 DEF Distinct
    <2>5. QED
      BY <2>1, <2>3, <2>4 DEF AtsBelow
  <1>5. QED
    BY <1>2, <1>3, <1>4

\* A batch of its own for a file whose header is new.
LEMMA OpenOnce ==
  ASSUME NEW S, NEW bs \in Seq(Seq(S)), NEW f \in S
  PROVE  /\ AllAts(Append(bs, <<f>>)) = AllAts(bs) \union {f.at}
         /\ Apart(bs) /\ f.at \notin AllAts(bs) => Apart(Append(bs, <<f>>))
  <1> DEFINE cs == Append(bs, <<f>>)
             last == Len(bs) + 1
  <1>1. /\ DOMAIN cs = DOMAIN bs \union {last} /\ last \notin DOMAIN bs
        /\ \A b \in DOMAIN bs : cs[b] = bs[b]
        /\ cs[last] = <<f>>
    <2>1. <<f>> \in Seq(S)
      OBVIOUS
    <2>2. QED
      BY <2>1, AppendProperties, LenProperties
  <1>2. DOMAIN cs[last] = {1} /\ cs[last][1] = f
    BY <1>1
  <1> HIDE DEF cs, last
  <1>3. AllAts(cs) = AllAts(bs) \union {f.at}
    BY <1>1, <1>2 DEF AllAts, Ats
  <1>4. ASSUME Apart(bs), f.at \notin AllAts(bs) PROVE Apart(cs)
    <2>1. \A b \in DOMAIN bs : \A n \in DOMAIN bs[b] : bs[b][n].at # f.at
      BY <1>4 DEF AllAts, Ats
    <2>2. QED
      BY <1>1, <1>2, <1>4, <2>1 DEF Apart
  <1>5. QED
    BY <1>3, <1>4 DEF cs

\* A file whose header is new joins the last batch.
LEMMA GrowOnce ==
  ASSUME NEW S, NEW bs \in Seq(Seq(S)), NEW b \in Seq(S), NEW f \in S
  PROVE  LET old == Append(bs, b)
             new == Append(bs, Append(b, f))
         IN  /\ AllAts(new) = AllAts(old) \union {f.at}
             /\ Apart(old) /\ f.at \notin AllAts(old) => Apart(new)
  <1> DEFINE old == Append(bs, b)
             new == Append(bs, Append(b, f))
             last == Len(bs) + 1
             place == Len(b) + 1
  <1>1. /\ DOMAIN old = DOMAIN bs \union {last} /\ last \notin DOMAIN bs
        /\ DOMAIN new = DOMAIN old
        /\ \A c \in DOMAIN bs : old[c] = bs[c] /\ new[c] = bs[c]
        /\ old[last] = b /\ new[last] = Append(b, f)
    BY AppendProperties, LenProperties
  <1>2. /\ DOMAIN new[last] = DOMAIN b \union {place} /\ place \notin DOMAIN b
        /\ \A n \in DOMAIN b : new[last][n] = b[n]
        /\ new[last][place] = f
    BY <1>1, AppendProperties, LenProperties
  <1> HIDE DEF old, new, last, place
  <1>3. AllAts(new) = AllAts(old) \union {f.at}
    <2> DEFINE rest == UNION {Ats(bs[c]) : c \in DOMAIN bs}
    <2>1. Ats(new[last]) = Ats(old[last]) \union {f.at}
      BY <1>1, <1>2 DEF Ats
    <2>2. \A c \in DOMAIN bs : Ats(old[c]) = Ats(bs[c]) /\ Ats(new[c]) = Ats(bs[c])
      BY <1>1
    <2>3. DOMAIN old = DOMAIN bs \union {last} /\ DOMAIN new = DOMAIN bs \union {last}
      BY <1>1
    <2>4. /\ AllAts(old) = rest \union Ats(old[last])
          /\ AllAts(new) = rest \union Ats(new[last])
      BY <2>2, <2>3, Zenon DEF AllAts
    <2>5. QED
      BY <2>1, <2>4
  <1>4. ASSUME Apart(old), f.at \notin AllAts(old) PROVE Apart(new)
    <2>1. \A c \in DOMAIN old : \A n \in DOMAIN old[c] : old[c][n].at # f.at
      BY <1>4 DEF AllAts, Ats
    <2>2. \A c \in DOMAIN new : \A n \in DOMAIN new[c] :
            \/ n \in DOMAIN old[c] /\ new[c][n] = old[c][n]
            \/ c = last /\ n = place /\ new[c][n] = f
      BY <1>1, <1>2
    <2>3. QED
      BY <1>1, <1>4, <2>1, <2>2 DEF Apart
  <1>5. QED
    BY <1>3, <1>4 DEF old, new

\* An empty batch holds nothing.
LEMMA EmptyBatch ==
  ASSUME NEW S, NEW bs \in Seq(Seq(S))
  PROVE  /\ AllAts(Append(bs, <<>>)) = AllAts(bs)
         /\ Apart(Append(bs, <<>>)) => Apart(bs)
  <1> DEFINE cs == Append(bs, <<>>)
             last == Len(bs) + 1
  <1>1. /\ DOMAIN cs = DOMAIN bs \union {last} /\ last \notin DOMAIN bs
        /\ \A b \in DOMAIN bs : cs[b] = bs[b]
        /\ cs[last] = <<>>
    <2>1. <<>> \in Seq(S)
      OBVIOUS
    <2>2. QED
      BY <2>1, AppendProperties, LenProperties
  <1>2. DOMAIN cs[last] = {}
    BY <1>1
  <1> HIDE DEF cs, last
  <1>3. AllAts(cs) = AllAts(bs)
    BY <1>1, <1>2 DEF AllAts, Ats
  <1>4. Apart(cs) => Apart(bs)
    BY <1>1 DEF Apart
  <1>5. QED
    BY <1>3, <1>4 DEF cs

\* Files in batches of their own follow.
LEMMA AloneOnce ==
  ASSUME NEW S, NEW bs \in Seq(Seq(S)), NEW s \in Seq(S)
  PROVE  LET all == bs \o [n \in DOMAIN s |-> <<s[n]>>]
         IN  /\ AllAts(all) = AllAts(bs) \union Ats(s)
             /\ Apart(bs) /\ Distinct(s) /\ AllAts(bs) \intersect Ats(s) = {} => Apart(all)
  <1> DEFINE each == [n \in DOMAIN s |-> <<s[n]>>]
             all == bs \o each
  <1>1. each \in Seq(Seq(S)) /\ Len(each) = Len(s) /\ DOMAIN each = 1..Len(s) /\ DOMAIN s = 1..Len(s)
    <2>1. Len(s) \in Nat /\ DOMAIN s = 1..Len(s) /\ \A n \in 1..Len(s) : s[n] \in S
      BY LenProperties, ElementOfSeq
    <2>2. each \in [1..Len(s) -> Seq(S)]
      BY <2>1
    <2>3. each \in Seq(Seq(S))
      BY <2>1, <2>2, SeqDef
    <2>4. DOMAIN each = 1..Len(each) /\ DOMAIN each = 1..Len(s) /\ Len(each) \in Nat
      BY <2>1, <2>2, <2>3, LenProperties
    <2>5. QED
      BY <2>1, <2>3, <2>4
  <1>2. \A n \in DOMAIN s : each[n] = <<s[n]>>
    OBVIOUS
  <1> HIDE DEF each
  <1>3. /\ Len(bs) \in Nat /\ DOMAIN bs = 1..Len(bs) /\ DOMAIN all = 1..Len(bs) + Len(s)
        /\ \A b \in DOMAIN bs : all[b] = bs[b]
        /\ \A n \in DOMAIN s : all[Len(bs) + n] = <<s[n]>>
    <2>6. Len(bs) \in Nat /\ DOMAIN bs = 1..Len(bs) /\ Len(s) \in Nat
      BY LenProperties
    <2>7. /\ all \in Seq(Seq(S)) /\ Len(all) = Len(bs) + Len(each)
          /\ \A k \in 1..Len(bs) + Len(each) :
               all[k] = IF k <= Len(bs) THEN bs[k] ELSE each[k - Len(bs)]
      BY <1>1, ConcatProperties
    <2>1. /\ Len(bs) \in Nat /\ DOMAIN bs = 1..Len(bs) /\ Len(s) \in Nat
          /\ all \in Seq(Seq(S)) /\ Len(all) = Len(bs) + Len(s)
          /\ \A k \in 1..Len(bs) + Len(s) : all[k] = IF k <= Len(bs) THEN bs[k] ELSE each[k - Len(bs)]
      BY <1>1, <2>6, <2>7
    <2>2. ASSUME NEW n \in DOMAIN s PROVE all[Len(bs) + n] = <<s[n]>>
      <3>1. Len(bs) + n \in 1..Len(bs) + Len(s) /\ ~(Len(bs) + n <= Len(bs)) /\ Len(bs) + n - Len(bs) = n
        BY <1>1, <2>1
      <3>2. all[Len(bs) + n] = each[n]
        BY <2>1, <3>1
      <3>3. QED
        BY <1>2, <3>2
    <2>3. DOMAIN all = 1..Len(bs) + Len(s)
      BY <2>1, LenProperties
    <2>4. \A b \in DOMAIN bs : all[b] = bs[b]
      BY <2>1
    <2>5. QED
      BY <2>1, <2>2, <2>3, <2>4
  <1> HIDE DEF all
  <1>4. \A n \in DOMAIN s : /\ Len(bs) + n \in DOMAIN all /\ DOMAIN all[Len(bs) + n] = {1}
                            /\ all[Len(bs) + n][1] = s[n]
    BY <1>1, <1>3
  <1>5. \A b \in DOMAIN all : b \in DOMAIN bs \/ \E n \in DOMAIN s : b = Len(bs) + n
    <2> SUFFICES ASSUME NEW b \in DOMAIN all, b \notin DOMAIN bs PROVE b - Len(bs) \in DOMAIN s
      BY <1>1, <1>3
    <2> QED
      BY <1>1, <1>3
  <1>6. AllAts(all) = AllAts(bs) \union Ats(s)
    <2>1. \A b \in DOMAIN bs : b \in DOMAIN all /\ Ats(all[b]) = Ats(bs[b])
      BY <1>1, <1>3
    <2>2. \A n \in DOMAIN s : Ats(all[Len(bs) + n]) = {s[n].at}
      BY <1>4 DEF Ats
    <2>3. AllAts(all) \subseteq AllAts(bs) \union Ats(s)
      <3> SUFFICES ASSUME NEW b \in DOMAIN all PROVE Ats(all[b]) \subseteq AllAts(bs) \union Ats(s)
        BY DEF AllAts
      <3>1. CASE b \in DOMAIN bs
        BY <2>1, <3>1 DEF AllAts
      <3>2. ASSUME NEW n \in DOMAIN s, b = Len(bs) + n PROVE Ats(all[b]) \subseteq Ats(s)
        <4>1. Ats(all[b]) = {s[n].at} /\ s[n].at \in Ats(s)
          BY <2>2, <3>2 DEF Ats
        <4>2. QED
          BY <4>1
      <3>3. QED
        BY <1>5, <3>1, <3>2
    <2>4. AllAts(bs) \subseteq AllAts(all)
      BY <2>1 DEF AllAts
    <2>5. Ats(s) \subseteq AllAts(all)
      <3> SUFFICES ASSUME NEW n \in DOMAIN s PROVE s[n].at \in AllAts(all)
        BY DEF Ats
      <3>1. s[n].at \in Ats(all[Len(bs) + n]) /\ Len(bs) + n \in DOMAIN all
        BY <1>4, <2>2
      <3>2. QED
        BY <3>1 DEF AllAts
    <2>6. QED
      BY <2>3, <2>4, <2>5
  <1>7. ASSUME Apart(bs), Distinct(s), AllAts(bs) \intersect Ats(s) = {} PROVE Apart(all)
    <2>1. ASSUME NEW b \in DOMAIN bs, NEW n \in DOMAIN bs[b], NEW m \in DOMAIN s
          PROVE  bs[b][n].at # s[m].at
      <3>1. bs[b][n].at \in AllAts(bs)
        BY DEF AllAts, Ats
      <3>2. s[m].at \in Ats(s)
        BY DEF Ats
      <3>3. QED
        BY <1>7, <3>1, <3>2
    <2>2. \A b \in DOMAIN all : \A n \in DOMAIN all[b] :
            \/ b \in DOMAIN bs /\ n \in DOMAIN bs[b] /\ all[b][n] = bs[b][n]
            \/ n = 1 /\ \E m \in DOMAIN s : b = Len(bs) + m /\ all[b][n] = s[m]
      BY <1>3, <1>4, <1>5
    <2>3. SUFFICES ASSUME NEW b \in DOMAIN all, NEW c \in DOMAIN all,
                          NEW n \in DOMAIN all[b], NEW m \in DOMAIN all[c],
                          all[b][n].at = all[c][m].at
                   PROVE  b = c /\ n = m
      BY DEF Apart
    <2>4. CASE b \in DOMAIN bs /\ n \in DOMAIN bs[b] /\ all[b][n] = bs[b][n]
      <3>1. c \in DOMAIN bs /\ m \in DOMAIN bs[c] /\ all[c][m] = bs[c][m]
        BY <2>1, <2>2, <2>3, <2>4
      <3>2. QED
        BY <1>7, <2>3, <2>4, <3>1 DEF Apart
    <2>5. ASSUME NEW k \in DOMAIN s, n = 1, b = Len(bs) + k, all[b][n] = s[k]
          PROVE  b = c /\ n = m
      <3>1. PICK l \in DOMAIN s : m = 1 /\ c = Len(bs) + l /\ all[c][m] = s[l]
        BY <2>1, <2>2, <2>3, <2>5
      <3>2. k = l
        BY <1>7, <2>3, <2>5, <3>1 DEF Distinct
      <3>3. QED
        BY <2>5, <3>1, <3>2
    <2>6. QED
      BY <2>2, <2>4, <2>5
  <1>8. QED
    BY <1>6, <1>7 DEF all, each

-----------------------------------------------------------------------------
(* The lines of a batch.                                                   *)

\* A text has no more newlines than pieces.
LEMMA LineCountType ==
  ASSUME NEW t \in Seq(Nat)
  PROVE  IsFiniteSet(Newlines(t)) /\ LineCount(t) \in Nat /\ LineCount(t) <= Len(t)
  <1> DEFINE length == Len(t)
  <1>1. length \in Nat /\ DOMAIN t = 1..length
    BY LenProperties
  <1> HIDE DEF length
  <1>2. IsFiniteSet(1..length) /\ Cardinality(1..length) = length
    BY <1>1, FS_Interval
  <1>3. Newlines(t) \subseteq 1..length
    BY <1>1 DEF Newlines
  <1>4. IsFiniteSet(Newlines(t)) /\ Cardinality(Newlines(t)) <= length
    BY <1>2, <1>3, FS_Subset
  <1>5. QED
    BY <1>4, FS_CardinalityType DEF LineCount, length

\* A batch with one file more has that file's lines more.
LEMMA LinesAdd ==
  ASSUME NEW b \in Seq(Files), NEW f \in Files
  PROVE  /\ LinesOf(<<>>) = 0
         /\ LinesOf(b) \in Nat
         /\ LinesOf(Append(b, f)) = LinesOf(b) + LineCount(f.text)
  <1> DEFINE places(s) == UNION {{n} \X Newlines(s[n].text) : n \in DOMAIN s}
             new == Append(b, f)
             last == Len(b) + 1
             more == {last} \X Newlines(f.text)
  <1>1. LinesOf(<<>>) = 0
    <2>1. places(<<>>) = {}
      OBVIOUS
    <2>2. QED
      BY <2>1, FS_EmptySet DEF LinesOf
  <1>2. \A n \in DOMAIN b : IsFiniteSet({n} \X Newlines(b[n].text))
    <2> SUFFICES ASSUME NEW n \in DOMAIN b PROVE IsFiniteSet({n} \X Newlines(b[n].text))
      OBVIOUS
    <2>1. b[n] \in Files
      BY ElementOfSeq, LenProperties
    <2>2. b[n].text \in Seq(Nat)
      BY <2>1 DEF Files
    <2>3. IsFiniteSet(Newlines(b[n].text))
      BY <2>2, LineCountType
    <2>4. QED
      BY <2>3, FS_Singleton, FS_Product
  <1>3. IsFiniteSet(places(b))
    <2>6. Len(b) \in Nat /\ DOMAIN b = 1..Len(b)
      BY LenProperties
    <2>1. IsFiniteSet(DOMAIN b)
      BY <2>6, FS_Interval
    <2> DEFINE each == {{n} \X Newlines(b[n].text) : n \in DOMAIN b}
    <2> DEFINE image == [n \in DOMAIN b |-> {n} \X Newlines(b[n].text)]
    <2>3. image \in [DOMAIN b -> each] /\ \A t \in each : \E n \in DOMAIN b : image[n] = t
      OBVIOUS
    <2> HIDE DEF image, each
    <2>4. IsFiniteSet(each)
      <3>1. image \in Surjection(DOMAIN b, each)
        BY <2>3 DEF Surjection
      <3>2. QED
        BY <2>1, <3>1, FS_Surjection
    <2>5. \A t \in each : IsFiniteSet(t)
      BY <1>2 DEF each
    <2>7. IsFiniteSet(UNION each)
      BY <2>4, <2>5, FS_UNION
    <2>8. QED
      BY <2>7 DEF each
  <1>4. LinesOf(b) \in Nat
    BY <1>3, FS_CardinalityType DEF LinesOf
  <1>5. f.text \in Seq(Nat)
    BY DEF Files
  <1>6. IsFiniteSet(more) /\ Cardinality(more) = LineCount(f.text)
    <2> DEFINE N == Newlines(f.text)
    <2>1. IsFiniteSet(N) /\ Cardinality(N) \in Nat
      BY <1>5, LineCountType DEF LineCount
    <2>2. IsFiniteSet({last}) /\ Cardinality({last}) = 1
      BY FS_Singleton
    <2> HIDE DEF N
    <2>3. IsFiniteSet({last} \X N) /\ Cardinality({last} \X N) = 1 * Cardinality(N)
      BY <2>1, <2>2, FS_Product
    <2>4. QED
      BY <2>1, <2>3 DEF N, LineCount
  <1>7. /\ DOMAIN new = DOMAIN b \union {last} /\ last \notin DOMAIN b
        /\ \A n \in DOMAIN b : new[n] = b[n]
        /\ new[last] = f
    BY AppendProperties, LenProperties
  <1> HIDE DEF new, last
  <1>8. places(new) = places(b) \union more
    BY <1>7
  <1>9. places(b) \intersect more = {}
    BY <1>7
  <1>10. Cardinality(places(b) \union more) = Cardinality(places(b)) + Cardinality(more)
    <2>1. /\ Cardinality(places(b)) \in Nat /\ Cardinality(more) \in Nat
          /\ Cardinality(places(b) \intersect more) = 0
      BY <1>3, <1>6, <1>9, FS_CardinalityType, FS_EmptySet
    <2> DEFINE some == places(b)
    <2>2. IsFiniteSet(some) /\ Cardinality(some) \in Nat /\ Cardinality(some \intersect more) = 0
      BY <1>3, <2>1
    <2> HIDE DEF some, more
    <2>3. Cardinality(some \union more)
            = Cardinality(some) + Cardinality(more) - Cardinality(some \intersect more)
      BY <1>6, <2>2, FS_Union
    <2>4. Cardinality(some \union more) = Cardinality(some) + Cardinality(more)
      BY <2>1, <2>2, <2>3
    <2>5. QED
      BY <2>4 DEF some
  <1>11. QED
    BY <1>1, <1>4, <1>6, <1>8, <1>10 DEF LinesOf, new

-----------------------------------------------------------------------------
(* The lines of a file.                                                    *)

\* What the assumptions say of an output.
LEMMA OutputLines ==
  ASSUME output \in Outputs
  PROVE  /\ Len(output) \in Nat /\ DOMAIN output = 1..Len(output)
         /\ \A n \in DOMAIN output : /\ output[n].path \in Paths /\ output[n].kind \in Kinds
                                     /\ output[n].nl \in BOOLEAN /\ output[n].tail \in BOOLEAN
         /\ IsOutput(output)
  <1>1. output \in Seq(Pieces) /\ IsOutput(output)
    BY OutputsAssumption
  <1>2. \A n \in DOMAIN output : output[n] \in Pieces
    BY <1>1, LenProperties, ElementOfSeq
  <1>3. QED
    BY <1>1, <1>2, LenProperties DEF Pieces

\* The next header, even a broken one, ends the section of the file before it,
LEMMA HeaderEnds ==
  ASSUME output \in Outputs, NEW f \in Files, NEW n \in Breaks, ReadUpTo(f, n)
  PROVE  Whole(f)
  <1>1. /\ n \in 1..Len(output) /\ f.at \in 1..Len(output) /\ f.at < n
        /\ Len(output) \in Nat
    BY OutputLines DEF ReadUpTo, Headers, Breaks
  <1>2. \A m \in Section(f.at) : m \in Nat /\ m < n /\ m < Len(output) + 1
    <2> SUFFICES ASSUME NEW m \in f.at + 1..Len(output), ~(m < n)
                 PROVE  n \in f.at + 1..m
      BY <1>1 DEF Section
    <2> QED
      BY <1>1
  <1>3. \A kind : \A m \in OfKind(f.at, kind) : m < n /\ m < Len(output) + 1
    BY <1>2 DEF OfKind
  <1>4. f.at < Len(output) + 1
    BY <1>1
  <1>5. SaysBinary(f.at, n) <=> SaysBinary(f.at, Len(output) + 1)
    BY <1>2, <1>3 DEF SaysBinary
  <1>6. QED
    BY <1>3, <1>4, <1>5 DEF Whole, ReadUpTo

\* and so does the end of the output.
LEMMA EndEnds ==
  ASSUME output \in Outputs, NEW f \in Files, NEW n \in Nat, n > Len(output), ReadUpTo(f, n)
  PROVE  Whole(f)
  <1>1. Len(output) \in Nat /\ f.at \in 1..Len(output)
    BY OutputLines DEF ReadUpTo, Headers
  <1>2. \A m \in Section(f.at) : m < n /\ m < Len(output) + 1
    BY <1>1 DEF Section
  <1>3. \A kind : \A m \in OfKind(f.at, kind) : m < n /\ m < Len(output) + 1
    BY <1>2 DEF OfKind
  <1>4. f.at < Len(output) + 1
    BY <1>1
  <1>5. SaysBinary(f.at, n) <=> SaysBinary(f.at, Len(output) + 1)
    BY <1>2, <1>3 DEF SaysBinary
  <1>6. QED
    BY <1>3, <1>4, <1>5 DEF Whole, ReadUpTo

\* The file of a header has no line before the one after it.
LEMMA HeaderBegins ==
  ASSUME output \in Outputs, NEW n \in Headers
  PROVE  File(n) \in Files /\ File(n).at = n /\ ReadUpTo(File(n), n + 1)
  <1>1. n \in 1..Len(output) /\ Len(output) \in Nat /\ output[n].path \in Paths
    BY OutputLines DEF Headers
  <1>2. NameOf[output[n].path] \in Names
    BY <1>1, NamesAssumption DEF Names, Range
  <1>3. File(n) \in Files
    BY <1>1, <1>2 DEF File, Files, Statuses
  <1>4. \A kind : \A m \in OfKind(n, kind) : ~(m < n + 1)
    BY <1>1 DEF OfKind, Section
  <1>5. Range(<<>>) = {} /\ Increasing(<<>>)
    BY DEF Range, Increasing
  <1>6. File(n).at = n /\ n < n + 1
    BY <1>1 DEF File
  <1>7. /\ File(n).name = NameOf[output[n].path]
        /\ File(n).status = "modified" /\ File(n).text = <<>>
    BY DEF File
  <1>8. ~SaysBinary(n, n + 1)
    BY <1>4 DEF SaysBinary
  <1>9. QED
    BY <1>3, <1>4, <1>5, <1>6, <1>7, <1>8 DEF ReadUpTo

\* The line n is in the section of the last header before it.
LEMMA InSection ==
  ASSUME output \in Outputs, NEW h \in Headers, NEW n \in DOMAIN output, h < n,
         Breaks \intersect h + 1..n - 1 = {}, n \notin Breaks
  PROVE  /\ n \in Section(h) /\ n \in Nat
         /\ Breaks \intersect h + 1..(n + 1) - 1 = {}
  <1>1. h \in 1..Len(output) /\ n \in 1..Len(output) /\ Len(output) \in Nat
    BY OutputLines DEF Headers
  <1>2. Breaks \intersect h + 1..n = {}
    BY <1>1
  <1>3. (n + 1) - 1 = n /\ n \in h + 1..Len(output)
    BY <1>1
  <1>4. n \in Section(h)
    BY <1>2, <1>3 DEF Section
  <1>5. QED
    BY <1>1, <1>2, <1>3, <1>4

\* A status line that is read is the last that says what the file is.
LEMMA StatusRead ==
  ASSUME output \in Outputs, NEW f \in Files, NEW n \in DOMAIN output, ReadUpTo(f, n),
         Breaks \intersect f.at + 1..n - 1 = {},
         output[n].kind \in StatusKinds
  PROVE  LET g == [f EXCEPT !.status = output[n].kind]
         IN  g \in Files /\ g.at = f.at /\ ReadUpTo(g, n + 1)
  <1> DEFINE g == [f EXCEPT !.status = output[n].kind]
  <1>1. /\ g \in Files /\ g.at = f.at /\ g.name = f.name /\ g.text = f.text
        /\ g.status = output[n].kind
    BY DEF Files, Statuses
  <1> HIDE DEF g
  <1>2. f.at \in Headers /\ f.at < n /\ n \notin Breaks /\ f.at \in Nat
    BY DEF ReadUpTo, Headers, Breaks, Files, StatusKinds
  <1>3. n \in Section(f.at) /\ n \in Nat
    BY <1>2, InSection
  <1>4. \A m \in Section(f.at) : m \in Int /\ (m < n + 1 <=> m < n \/ m = n)
    BY <1>2, <1>3, OutputLines DEF Section
  <1>5. n \notin OfKind(f.at, "text")
    BY DEF OfKind, StatusKinds
  <1>6. {m \in OfKind(f.at, "text") : m < n + 1} = {m \in OfKind(f.at, "text") : m < n}
    BY <1>4, <1>5 DEF OfKind
  <1>7. g.status = "binary" <=> SaysBinary(f.at, n + 1)
    <2>1. CASE output[n].kind = "binary"
      <3>1. n \in OfKind(f.at, "binary") /\ n < n + 1
        BY <1>3, <2>1 DEF OfKind
      <3>2. \A k \in Section(f.at) : ~(n < k /\ k < n + 1)
        BY <1>3, <1>4
      <3>3. QED
        BY <1>1, <2>1, <3>1, <3>2 DEF SaysBinary
    <2>2. CASE output[n].kind # "binary"
      <3>1. ASSUME NEW m \in OfKind(f.at, "binary"), m < n + 1
            PROVE  m < n /\ n \in Section(f.at) /\ n < n + 1
        BY <1>3, <1>4, <2>2, <3>1 DEF OfKind
      <3>2. QED
        BY <1>1, <2>2, <3>1 DEF SaysBinary
    <2>3. QED
      BY <2>1, <2>2
  <1>8. f.at < n + 1
    BY <1>2, <1>3
  <1>9. ReadUpTo(g, n + 1)
    BY <1>1, <1>6, <1>7, <1>8 DEF ReadUpTo
  <1>10. QED
    BY <1>1, <1>9 DEF g

\* A text line that is read is the last line of the text.
LEMMA TextRead ==
  ASSUME output \in Outputs, NEW f \in Files, NEW n \in DOMAIN output, ReadUpTo(f, n),
         Breaks \intersect f.at + 1..n - 1 = {},
         output[n].kind = "text"
  PROVE  LET g == [f EXCEPT !.text = Append(@, n)]
         IN  g \in Files /\ g.at = f.at /\ ReadUpTo(g, n + 1)
  <1> DEFINE g == [f EXCEPT !.text = Append(@, n)]
             last == Len(f.text) + 1
  <1>1. f.at \in Headers /\ f.at < n /\ n \notin Breaks /\ f.at \in Nat
    BY DEF ReadUpTo, Headers, Breaks, Files
  <1>2. n \in Section(f.at) /\ n \in Nat
    BY <1>1, InSection
  <1>3. f.text \in Seq(Nat)
    BY DEF Files
  <1>4. /\ g \in Files /\ g.at = f.at /\ g.name = f.name /\ g.text = Append(f.text, n)
        /\ g.status = f.status
    BY <1>2, <1>3, AppendProperties DEF Files
  <1>5. /\ DOMAIN g.text = DOMAIN f.text \union {last}
        /\ \A k \in DOMAIN f.text : g.text[k] = f.text[k] /\ k \in Nat /\ k < last
        /\ g.text[last] = n
    BY <1>2, <1>3, <1>4, AppendProperties, LenProperties
  <1> HIDE DEF g, last
  <1>6. \A m \in Section(f.at) : m \in Int /\ (m < n + 1 <=> m < n \/ m = n)
    BY <1>1, <1>2, OutputLines DEF Section
  <1>7. n \in OfKind(f.at, "text") /\ n \notin OfKind(f.at, "binary") /\ output[n].kind \notin StatusKinds
    BY <1>2 DEF OfKind, StatusKinds
  <1>8. Range(g.text) = Range(f.text) \union {n}
    BY <1>5 DEF Range
  <1>9. Range(g.text) = {m \in OfKind(f.at, "text") : m < n + 1}
    BY <1>6, <1>7, <1>8 DEF ReadUpTo, OfKind
  <1>10. \A k \in DOMAIN f.text : f.text[k] < n
    BY DEF ReadUpTo, Range
  <1>11. Increasing(g.text)
    <2> SUFFICES ASSUME NEW k \in DOMAIN g.text, NEW m \in DOMAIN g.text, k < m
                 PROVE  g.text[k] < g.text[m]
      BY DEF Increasing
    <2>1. k # last
      BY <1>3, <1>5, LenProperties DEF last
    <2>2. CASE m = last
      BY <1>5, <1>10, <2>1, <2>2
    <2>3. CASE m # last
      BY <1>5, <2>1, <2>3 DEF ReadUpTo, Increasing
    <2>4. QED
      BY <2>2, <2>3
  <1>12. g.status = "binary" <=> SaysBinary(f.at, n + 1)
    <2>1. \A m \in OfKind(f.at, "binary") : m < n + 1 <=> m < n
      BY <1>6, <1>7 DEF OfKind
    <2>2. \A k \in Section(f.at) : output[k].kind \in StatusKinds => (k < n + 1 <=> k < n)
      BY <1>6, <1>7
    <2>3. SaysBinary(f.at, n + 1) <=> SaysBinary(f.at, n)
      BY <2>1, <2>2 DEF SaysBinary
    <2>4. QED
      BY <1>4, <2>3 DEF ReadUpTo
  <1>13. f.at < n + 1
    BY <1>1, <1>2
  <1>14. ReadUpTo(g, n + 1)
    BY <1>4, <1>9, <1>11, <1>12, <1>13 DEF ReadUpTo
  <1>15. QED
    BY <1>4, <1>14 DEF g

-----------------------------------------------------------------------------
(* What is kept of a long diff.                                            *)

\* The line at place k of a file is the k-th of its lines.
LEMMA PlaceIsRank ==
  ASSUME NEW t \in Seq(Nat), Increasing(t), NEW k \in DOMAIN t
  PROVE  Cardinality({m \in Range(t) : m <= t[k]}) = k
  <1> DEFINE T == {m \in Range(t) : m <= t[k]}
             f == [j \in 1..k |-> t[j]]
  <1>1. /\ Len(t) \in Nat /\ DOMAIN t = 1..Len(t) /\ k \in Nat /\ 1..k \subseteq DOMAIN t
        /\ \A j \in DOMAIN t : t[j] \in Nat
    BY LenProperties
  <1>2. ASSUME NEW j \in 1..k PROVE t[j] \in T
    <2>1. j = k \/ t[j] < t[k]
      BY <1>1 DEF Increasing
    <2>2. t[j] <= t[k] /\ t[j] \in Range(t)
      BY <1>1, <2>1 DEF Range
    <2>3. QED
      BY <2>2
  <1>3. ASSUME NEW m \in T PROVE \E j \in 1..k : t[j] = m
    <2>1. PICK j \in DOMAIN t : t[j] = m
      BY DEF Range
    <2>2. ~(k < j)
      BY <1>1, <2>1 DEF Increasing
    <2>3. QED
      BY <1>1, <2>1, <2>2
  <1>4. \A i, j \in 1..k : t[i] = t[j] => i = j
    BY <1>1 DEF Increasing
  <1> HIDE DEF T
  <1>5. f \in Bijection(1..k, T)
    BY <1>2, <1>3, <1>4 DEF Bijection, Injection, Surjection, IsInjective
  <1>6. ExistsBijection(1..k, T)
    BY <1>5 DEF ExistsBijection
  <1>7. QED
    BY <1>1, <1>6, FS_CountingElements DEF T

\* The newlines of a text are those of its pieces.
LEMMA NewlinesCounted ==
  ASSUME output \in Outputs, NEW t \in Seq(Nat), Increasing(t), Range(t) \subseteq DOMAIN output
  PROVE  LineCount(t) = Cardinality({n \in Range(t) : output[n].nl})
  <1> DEFINE ended == {n \in Range(t) : output[n].nl}
             f == [i \in Newlines(t) |-> t[i]]
  <1>1. /\ DOMAIN t = 1..Len(t) /\ Len(t) \in Nat
        /\ \A i \in DOMAIN t : t[i] \in Nat \ {0} /\ t[i] \in Range(t)
    BY LenProperties, OutputLines DEF Range
  <1>2. \A i \in Newlines(t) : i \in DOMAIN t /\ t[i] \in ended
    BY <1>1 DEF Newlines
  <1>3. \A n \in ended : \E i \in Newlines(t) : t[i] = n
    BY DEF Newlines, Range
  <1>4. \A i, j \in Newlines(t) : t[i] = t[j] => i = j
    BY <1>1, <1>2 DEF Increasing
  <1> HIDE DEF ended
  <1>5. f \in Bijection(Newlines(t), ended)
    BY <1>2, <1>3, <1>4 DEF Bijection, Injection, Surjection, IsInjective
  <1>6. ExistsBijection(Newlines(t), ended)
    BY <1>5 DEF ExistsBijection
  <1>7. IsFiniteSet(Newlines(t))
    BY LineCountType
  <1>8. Cardinality(ended) = Cardinality(Newlines(t))
    BY <1>6, <1>7, FS_Bijection
  <1>9. QED
    BY <1>8 DEF LineCount, ended

\* What get_pr_diff keeps of a file is its first pieces and a remark, if it has
\* more newlines than the limit, and all of it otherwise.
LEMMA TruncatedKeepsFirst ==
  ASSUME output \in Outputs, NEW f \in Files, Whole(f)
  PROVE  /\ Truncated(f) \in Files /\ Truncated(f).at = f.at
         /\ HasReadText(Truncated(f))
  <1> DEFINE t == f.text
             lines == OfKind(f.at, "text")
             first == FirstOf(lines)
             newlines == Cardinality({n \in lines : output[n].nl})
  <1>1. /\ t \in Seq(Nat) /\ Len(t) \in Nat /\ DOMAIN t = 1..Len(t)
        /\ \A k \in DOMAIN t : t[k] \in Nat
        /\ MaxLines \in Nat
    BY LenProperties, LimitsAssumption DEF Files
  <1>2. Increasing(t)
    BY DEF Whole, ReadUpTo
  <1>3. Range(t) = lines /\ lines \subseteq DOMAIN output
    <2>1. Range(t) = {m \in lines : m < Len(output) + 1}
      BY DEF Whole, ReadUpTo
    <2>2. f.at \in Nat /\ Len(output) \in Nat /\ DOMAIN output = 1..Len(output)
      BY OutputLines DEF Files
    <2>3. \A m \in lines : m < Len(output) + 1 /\ m \in DOMAIN output
      BY <2>2 DEF OfKind, Section
    <2>4. QED
      BY <2>1, <2>3
  <1>4. \A k \in DOMAIN t : t[k] \in first <=> k <= MaxLines
    <2> SUFFICES ASSUME NEW k \in DOMAIN t PROVE t[k] \in first <=> k <= MaxLines
      OBVIOUS
    <2>1. t[k] \in lines
      BY <1>3 DEF Range
    <2>2. Cardinality({m \in lines : m <= t[k]}) = k
      BY <1>1, <1>2, <1>3, PlaceIsRank
    <2>3. QED
      BY <2>1, <2>2 DEF FirstOf
  <1>5. first \subseteq lines
    BY DEF FirstOf
  <1>6. first = {t[k] : k \in {j \in DOMAIN t : j <= MaxLines}}
    BY <1>3, <1>4, <1>5 DEF Range
  <1>7. LineCount(t) = newlines /\ LineCount(t) \in Nat /\ LineCount(t) <= Len(t)
    BY <1>1, <1>2, <1>3, NewlinesCounted, LineCountType
  <1> HIDE DEF t, lines, first, newlines
  <1>8. CASE ~(LineCount(t) > MaxLines)
    <2>1. Truncated(f) = f
      BY <1>8 DEF Truncated, t
    <2>2. ~(newlines > MaxLines)
      BY <1>7, <1>8
    <2>3. HasText(f, lines)
      BY <1>2, <1>3, <2>2 DEF HasText, Increasing, t, newlines
    <2>4. QED
      BY <1>3, <2>1, <2>3 DEF HasReadText, t, lines
  <1>9. CASE LineCount(t) > MaxLines
    <2> DEFINE kept == SubSeq(t, 1, MaxLines)
               g == Truncated(f)
    <2>1. /\ kept \in Seq(Nat) /\ DOMAIN kept = 1..MaxLines /\ Len(kept) = MaxLines
          /\ \A k \in 1..MaxLines : kept[k] = t[k]
          /\ Len(t) > MaxLines
      BY <1>1, <1>7, <1>9, SubSeqProperties
    <2>2. g = [f EXCEPT !.text = kept \o Remark]
      BY <1>9 DEF Truncated, t
    <2>3. Remark \in Seq(Nat) /\ kept \o Remark \in Seq(Nat) /\ Len(Remark) = 2
      BY <2>1 DEF Remark
    <2> HIDE DEF kept
    <2>4. g \in Files /\ g.at = f.at /\ g.text = kept \o Remark
      BY <2>2, <2>3 DEF Files
    <2> HIDE DEF g
    <2>5. SubSeq(g.text, 1, MaxLines) = kept
      BY <1>1, <2>1, <2>3, <2>4
    <2>6. newlines > MaxLines
      BY <1>7, <1>9
    <2>7. Range(kept) = first
      <3>1. {j \in DOMAIN t : j <= MaxLines} = 1..MaxLines
        BY <1>1, <2>1
      <3>2. QED
        BY <1>6, <2>1, <3>1 DEF Range
    <2>8. \A k, m \in DOMAIN kept : k < m => kept[k] < kept[m]
      BY <1>1, <1>2, <2>1 DEF Increasing
    <2>9. HasText(g, lines)
      BY <2>4, <2>5, <2>6, <2>7, <2>8 DEF HasText, newlines, first
    <2>10. Range(g.text) \ {0} \subseteq lines
      <3>1. /\ DOMAIN g.text = 1..MaxLines + 2
            /\ \A k \in 1..MaxLines + 2 :
                 g.text[k] = IF k <= MaxLines THEN kept[k] ELSE Remark[k - MaxLines]
        <4>1. /\ Len(kept \o Remark) = Len(kept) + Len(Remark)
              /\ \A k \in 1..Len(kept) + Len(Remark) :
                   (kept \o Remark)[k] = IF k <= Len(kept) THEN kept[k] ELSE Remark[k - Len(kept)]
          BY <2>1, <2>3, ConcatProperties
        <4>2. DOMAIN (kept \o Remark) = 1..Len(kept \o Remark)
          BY <2>3, LenProperties
        <4>3. QED
          BY <2>1, <2>3, <2>4, <4>1, <4>2
      <3>2. \A k \in 1..MaxLines + 2 : g.text[k] = 0 \/ (k \in DOMAIN kept /\ g.text[k] = kept[k])
        BY <1>1, <2>1, <3>1 DEF Remark
      <3>3. QED
        BY <1>5, <2>7, <3>1, <3>2 DEF Range
    <2>11. QED
      BY <2>4, <2>9, <2>10 DEF HasReadText, lines, g
  <1>10. QED
    BY <1>1, <1>7, <1>8, <1>9

-----------------------------------------------------------------------------
(* The steps.                                                              *)

\* The output is an input: what is said of its lines stays as it is.
LEMMA SameOutput ==
  ASSUME output' = output
  PROVE  /\ Headers' = Headers /\ Breaks' = Breaks /\ Named' = Named /\ Reviewed' = Reviewed
         /\ \A f, n : ReadUpTo(f, n)' <=> ReadUpTo(f, n)
         /\ \A f : Whole(f)' <=> Whole(f)
         /\ \A f : HasReadText(f)' <=> HasReadText(f)
         /\ \A t : LineCount(t)' = LineCount(t)
         /\ \A b : LinesOf(b)' = LinesOf(b)
         /\ \A b : Fits(b)' <=> Fits(b)
  <1>1. Headers' = Headers /\ Breaks' = Breaks
    BY DEF Headers, Breaks
  <1>2. \A h : Section(h)' = Section(h)
    BY <1>1 DEF Section
  <1>3. \A h, kind : OfKind(h, kind)' = OfKind(h, kind)
    BY <1>2 DEF OfKind
  <1>4. \A h, n : SaysBinary(h, n)' <=> SaysBinary(h, n)
    BY <1>2, <1>3 DEF SaysBinary
  <1>5. Named' = Named /\ Reviewed' = Reviewed
    BY <1>1, <1>4 DEF Named, Reviewed
  <1>6. \A f, n : ReadUpTo(f, n)' <=> ReadUpTo(f, n)
    BY <1>1, <1>3, <1>4 DEF ReadUpTo
  <1>7. \A f : Whole(f)' <=> Whole(f)
    BY <1>6 DEF Whole
  <1>8. \A f : HasReadText(f)' <=> HasReadText(f)
    <2> SUFFICES ASSUME NEW f PROVE HasReadText(f)' <=> HasReadText(f)
      OBVIOUS
    <2>1. \A lines : HasText(f, lines)' <=> HasText(f, lines)
      BY DEF HasText, FirstOf
    <2>2. OfKind(f.at, "text")' = OfKind(f.at, "text")
      BY <1>3
    <2>3. QED
      BY <2>1, <2>2 DEF HasReadText
  <1>9. \A t : Newlines(t)' = Newlines(t)
    BY DEF Newlines
  <1>10. (\A t : LineCount(t)' = LineCount(t)) /\ (\A b : LinesOf(b)' = LinesOf(b))
    BY <1>9 DEF LineCount, LinesOf
  <1>11. \A b : Fits(b)' <=> Fits(b)
    BY <1>8, <1>10 DEF Fits
  <1>12. QED
    BY <1>1, <1>5, <1>6, <1>7, <1>8, <1>10, <1>11

\* It stays an output of git diff.
LEMMA SameInput ==
  ASSUME IsOutput(output), output' = output
  PROVE  IsOutput(output)'
  BY DEF IsOutput

\* The first loop begins where the output does.
LEMMA InitIInv == Init => IInv
  <1> SUFFICES ASSUME Init PROVE IInv
    OBVIOUS
  <1>1. TypeOK
    BY OutputLines, LimitsAssumption DEF Init, TypeOK, Files
  <1>2. Parsing
    <2>1. {h \in Named : h < 1} = {}
      BY OutputLines DEF Init, Named, Headers
    <2>2. QED
      BY <2>1 DEF Init, Parsing, Distinct, Ats
  <1>3. QED
    BY <1>1, <1>2 DEF Init, IInv, Unused

\* The files read so far, when the one being read is complete.
LEMMA SavedFiles ==
  ASSUME IInv, pc = "parse", next \in Breaks \/ next > Len(output)
  PROVE  /\ Saved \in Seq(Files)
         /\ Distinct(Saved) /\ Ats(Saved) = {h \in Named : h < next}
         /\ \A n \in DOMAIN Saved : Whole(Saved[n])
  <1>1. output \in Outputs /\ Parsing /\ files \in Seq(Files) /\ next \in Nat \ {0}
    BY DEF IInv, TypeOK
  <1>2. \A h \in Headers : h \in Nat \ {0}
    BY <1>1, OutputLines DEF Headers
  <1>3. CASE current = <<>>
    <2>1. Saved = files
      BY <1>3 DEF Saved
    <2>2. QED
      BY <1>1, <1>3, <2>1 DEF Parsing
  <1>4. CASE current # <<>>
    <2> DEFINE c == current[1]
    <2>1. c \in Files
      BY <1>4 DEF IInv, TypeOK
    <2>2. /\ ReadUpTo(c, next) /\ Breaks \intersect c.at + 1..next - 1 = {}
          /\ Ats(files) = {h \in Named : h < c.at}
          /\ Distinct(files) /\ \A n \in DOMAIN files : Whole(files[n])
      BY <1>1, <1>4 DEF Parsing
    <2>3. Whole(c)
      BY <1>1, <2>1, <2>2, HeaderEnds, EndEnds
    <2>4. c.at \in Headers /\ c.at < next /\ (c.at \in Named <=> c.name \notin Noise)
      BY <2>2 DEF ReadUpTo, Named
    <2> HIDE DEF c
    <2>5. \A h \in Headers : h < next <=> h < c.at \/ h = c.at
      <3> SUFFICES ASSUME NEW h \in Headers, h < next, ~(h < c.at), h # c.at PROVE FALSE
        BY <1>1, <1>2, <2>4
      <3>1. h \in c.at + 1..next - 1 /\ h \in Breaks
        BY <1>1, <1>2, <2>4 DEF Headers, Breaks
      <3>2. QED
        BY <2>2, <3>1
    <2>6. CASE c.name \in Noise
      <3>1. Saved = files
        BY <2>6 DEF Saved, c
      <3>2. {h \in Named : h < next} = {h \in Named : h < c.at}
        BY <2>4, <2>5, <2>6 DEF Named
      <3>3. QED
        BY <1>1, <2>2, <3>1, <3>2
    <2>7. CASE c.name \notin Noise
      <3>1. Saved = Append(files, c)
        BY <1>4, <2>7 DEF Saved, c
      <3>2. {h \in Named : h < next} = {h \in Named : h < c.at} \union {c.at}
        BY <2>4, <2>5, <2>7 DEF Named
      <3>3. c.at \notin Ats(files)
        BY <1>2, <2>2, <2>4
      <3>4. Distinct(Saved) /\ Ats(Saved) = {h \in Named : h < next}
        BY <1>1, <2>1, <2>2, <3>1, <3>2, <3>3, AppendOnce
      <3>5. Saved \in Seq(Files) /\ \A n \in DOMAIN Saved : Whole(Saved[n])
        BY <1>1, <2>1, <2>2, <2>3, <3>1, AppendProperties, LenProperties
      <3>6. QED
        BY <3>4, <3>5
    <2>8. QED
      BY <2>6, <2>7
  <1>5. QED
    BY <1>3, <1>4

\* A header ends one file and, unless it is broken, begins another.
LEMMA HeaderStep == IInv /\ ReadHeader => IInv'
  <1> SUFFICES ASSUME IInv, ReadHeader PROVE IInv'
    OBVIOUS
  <1>1. /\ output \in Outputs /\ output' = output /\ pc = "parse" /\ pc' = "parse"
        /\ next \in Nat \ {0} /\ next' = next + 1 /\ next \in Breaks
        /\ files' = Saved
        /\ current' = IF output[next].kind = "header" THEN <<File(next)>> ELSE <<>>
        /\ UNCHANGED <<cut, small, large, batch, batchLines, batches>>
    BY OutputLines DEF IInv, TypeOK, ReadHeader, Reading, Breaks
  <1>2. /\ files' \in Seq(Files)
        /\ Distinct(files') /\ Ats(files') = {h \in Named : h < next}
        /\ \A n \in DOMAIN files' : Whole(files'[n])
    BY <1>1, SavedFiles
  <1>3. current' \in Seq(Files) /\ Len(current') <= 1 /\ Parsing'
    <2>1. CASE next \in Headers
      <3>1. File(next) \in Files /\ File(next).at = next /\ ReadUpTo(File(next), next + 1)
        BY <1>1, <2>1, HeaderBegins
      <3>2. current' = <<File(next)>>
        BY <1>1, <2>1 DEF Headers
      <3>3. /\ current' \in Seq(Files) /\ Len(current') = 1 /\ current' # <<>>
            /\ current'[1] = File(next)
        BY <3>1, <3>2
      <3>4. Breaks' \intersect current'[1].at + 1..next' - 1 = {}
        BY <1>1, <3>1, <3>3
      <3>5. QED
        BY <1>1, <1>2, <3>1, <3>3, <3>4, SameOutput DEF Parsing, Distinct
    <2>2. CASE next \notin Headers
      <3>1. current' = <<>>
        BY <1>1, <2>2 DEF Headers, Breaks
      <3>2. {h \in Named : h < next + 1} = {h \in Named : h < next}
        BY <1>1, <2>2, OutputLines DEF Named, Headers
      <3>3. Ats(files)' = {h \in Named : h < next}
        BY <1>2 DEF Ats
      <3>4. QED
        BY <1>1, <1>2, <3>1, <3>2, <3>3, SameOutput DEF Parsing, Distinct
    <2>3. QED
      BY <2>1, <2>2
  <1>4. TypeOK'
    BY <1>1, <1>2, <1>3, SameInput DEF IInv, TypeOK
  <1>5. QED
    BY <1>1, <1>3, <1>4 DEF IInv, Unused

\* A line before the first header, or after a broken one, is of no file.
LEMMA LineSkipped ==
  ASSUME IInv, Reading({"text"} \union StatusKinds), current = <<>>, current' = <<>>,
         next' = next + 1,
         UNCHANGED <<output, pc, files, cut, small, large, batch, batchLines, batches>>
  PROVE  IInv'
  <1>1. /\ output \in Outputs /\ pc = "parse" /\ Parsing /\ next \in Nat \ {0}
        /\ next \notin Headers
    BY DEF IInv, TypeOK, Reading, Headers, StatusKinds
  <1>2. TypeOK'
    BY <1>1, SameInput DEF IInv, TypeOK
  <1>3. {h \in Named : h < next + 1} = {h \in Named : h < next}
    BY <1>1, OutputLines DEF Named, Headers
  <1>4. Ats(files)' = Ats(files)
    BY DEF Ats
  <1>5. Parsing'
    BY <1>1, <1>3, <1>4, SameOutput DEF Parsing, Distinct
  <1>6. QED
    BY <1>1, <1>2, <1>5 DEF IInv, Unused

\* The file that the next line, no header, is of, if there is one.
LEMMA LineOfCurrent ==
  ASSUME IInv, Reading({"text"} \union StatusKinds), current # <<>>
  PROVE  /\ current = <<current[1]>> /\ current[1] \in Files
         /\ next \in DOMAIN output /\ next \notin Breaks
         /\ ReadUpTo(current[1], next)
         /\ Breaks \intersect current[1].at + 1..next - 1 = {}
         /\ Breaks \intersect current[1].at + 1..(next + 1) - 1 = {}
  <1>1. /\ output \in Outputs /\ pc = "parse" /\ next \in Nat \ {0} /\ next \in DOMAIN output
        /\ next \notin Breaks /\ Parsing
    BY OutputLines DEF IInv, TypeOK, Reading, StatusKinds, Breaks
  <1>2. current = <<current[1]>> /\ current[1] \in Files
    <2>1. current \in Seq(Files) /\ Len(current) = 1 /\ DOMAIN current = 1..1
      <3>1. current \in Seq(Files) /\ Len(current) <= 1
        BY DEF IInv, TypeOK
      <3>2. Len(current) \in Nat \ {0}
        BY <3>1, EmptySeq
      <3> DEFINE length == Len(current)
      <3>3. length <= 1 /\ length \in Nat \ {0}
        BY <3>1, <3>2
      <3> HIDE DEF length
      <3>4. length = 1
        BY <3>3
      <3>5. QED
        BY <3>1, <3>4, LenProperties DEF length
    <2>2. current[1] \in Files
      BY <2>1, ElementOfSeq
    <2>3. QED
      BY <2>1, <2>2, SeqEqual
  <1>3. ReadUpTo(current[1], next) /\ Breaks \intersect current[1].at + 1..next - 1 = {}
    BY <1>1 DEF Parsing
  <1>4. Breaks \intersect current[1].at + 1..(next + 1) - 1 = {}
    BY <1>1, <1>3, InSection DEF ReadUpTo
  <1>5. QED
    BY <1>1, <1>2, <1>3, <1>4

\* A line that is read adds to the current file.
LEMMA LineStep ==
  ASSUME IInv, Reading({"text"} \union StatusKinds), current # <<>>, NEW g \in Files,
         g.at = current[1].at, ReadUpTo(g, next + 1),
         current' = <<g>>, next' = next + 1,
         UNCHANGED <<output, pc, files, cut, small, large, batch, batchLines, batches>>
  PROVE  IInv'
  <1>1. Breaks \intersect current[1].at + 1..(next + 1) - 1 = {}
    BY LineOfCurrent
  <1>2. pc = "parse" /\ Parsing /\ next \in Nat \ {0}
    BY DEF IInv, TypeOK, Reading
  <1>3. current' \in Seq(Files) /\ Len(current') = 1 /\ current'[1] = g /\ current' # <<>>
    OBVIOUS
  <1>4. TypeOK'
    BY <1>2, <1>3, SameInput DEF IInv, TypeOK
  <1>5. Parsing'
    BY <1>1, <1>2, <1>3, SameOutput DEF Parsing, Distinct
  <1>6. QED
    BY <1>2, <1>4, <1>5 DEF IInv, Unused

LEMMA StatusStep == IInv /\ ReadStatus => IInv'
  <1> SUFFICES ASSUME IInv, ReadStatus PROVE IInv'
    OBVIOUS
  <1> DEFINE f == current[1]
             g == [f EXCEPT !.status = output[next].kind]
  <1>1. Reading({"text"} \union StatusKinds) /\ output[next].kind \in StatusKinds
    BY DEF ReadStatus, Reading
  <1>2. output \in Outputs
    BY DEF IInv
  <1>3. CASE current = <<>>
    <2>1. current' = <<>>
      BY <1>3 DEF ReadStatus
    <2>2. QED
      BY <1>1, <1>3, <2>1, LineSkipped DEF ReadStatus
  <1>4. CASE current # <<>>
    <2>1. /\ current = <<f>> /\ f \in Files /\ next \in DOMAIN output
          /\ ReadUpTo(f, next) /\ Breaks \intersect f.at + 1..next - 1 = {}
      BY <1>1, <1>4, LineOfCurrent
    <2>2. g \in Files /\ g.at = f.at /\ ReadUpTo(g, next + 1)
      BY <1>1, <1>2, <2>1, StatusRead
    <2>3. current' = <<g>>
      <3>1. current' = [n \in DOMAIN current |-> [current[n] EXCEPT !.status = output[next].kind]]
        BY DEF ReadStatus
      <3> HIDE DEF g
      <3>2. DOMAIN current = {1} /\ DOMAIN <<g>> = {1} /\ <<g>>[1] = g
        BY <2>1
      <3>3. QED
        BY <3>1, <3>2 DEF g
    <2> HIDE DEF g
    <2>4. QED
      BY <1>1, <1>4, <2>2, <2>3, LineStep DEF ReadStatus
  <1>5. QED
    BY <1>3, <1>4

LEMMA TextStep == IInv /\ ReadText => IInv'
  <1> SUFFICES ASSUME IInv, ReadText PROVE IInv'
    OBVIOUS
  <1> DEFINE f == current[1]
             g == [f EXCEPT !.text = Append(@, next)]
  <1>1. Reading({"text"} \union StatusKinds) /\ output[next].kind = "text"
    BY DEF ReadText, Reading
  <1>2. output \in Outputs
    BY DEF IInv
  <1>3. CASE current = <<>>
    <2>1. current' = <<>>
      BY <1>3 DEF ReadText
    <2>2. QED
      BY <1>1, <1>3, <2>1, LineSkipped DEF ReadText
  <1>4. CASE current # <<>>
    <2>1. /\ current = <<f>> /\ f \in Files /\ next \in DOMAIN output
          /\ ReadUpTo(f, next) /\ Breaks \intersect f.at + 1..next - 1 = {}
      BY <1>1, <1>4, LineOfCurrent
    <2>2. g \in Files /\ g.at = f.at /\ ReadUpTo(g, next + 1)
      BY <1>1, <1>2, <2>1, TextRead
    <2>3. current' = <<g>>
      <3>1. current' = [n \in DOMAIN current |-> [current[n] EXCEPT !.text = Append(@, next)]]
        BY DEF ReadText
      <3>2. DOMAIN current = {1}
        BY <2>1
      <3>3. \A n \in DOMAIN current : [current[n] EXCEPT !.text = Append(@, next)] = g
        BY <3>2
      <3>4. [n \in DOMAIN current |-> [current[n] EXCEPT !.text = Append(@, next)]]
              = [n \in DOMAIN current |-> g]
        BY <3>3, Zenon
      <3> HIDE DEF g
      <3>5. [n \in {1} |-> g] = <<g>>
        OBVIOUS
      <3>6. QED
        BY <3>1, <3>2, <3>4, <3>5
    <2> HIDE DEF g
    <2>4. QED
      BY <1>1, <1>4, <2>2, <2>3, LineStep DEF ReadText
  <1>5. QED
    BY <1>3, <1>4

\* The end of the output ends the last file.
LEMMA OutputEnds == IInv /\ EndOfOutput => IInv'
  <1> SUFFICES ASSUME IInv, EndOfOutput PROVE IInv'
    OBVIOUS
  <1>1. /\ output \in Outputs /\ output' = output /\ pc = "parse" /\ pc' = "cut"
        /\ next \in Nat \ {0} /\ next' = 1 /\ next > Len(output)
        /\ files' = Saved /\ current' = <<>> /\ cut' = <<>>
        /\ UNCHANGED <<cut, small, large, batch, batchLines, batches>>
    BY DEF IInv, TypeOK, EndOfOutput, Unused
  <1>2. /\ files' \in Seq(Files)
        /\ Distinct(files') /\ Ats(files') = {h \in Named : h < next}
        /\ \A n \in DOMAIN files' : Whole(files'[n])
    BY <1>1, SavedFiles
  <1>3. {h \in Named : h < next} = Named
    BY <1>1, OutputLines DEF Named, Headers
  <1>4. TypeOK'
    BY <1>1, <1>2, SameInput DEF IInv, TypeOK
  <1>5. AtsBelow(files', 1) = {}
    BY <1>2, PassesAll
  <1>6. Ats(cut') = {} /\ Distinct(cut') /\ DOMAIN cut' = {}
    BY <1>1 DEF Ats, Distinct
  <1>7. Ats(cut)' = AtsBelow(files, next)' \intersect Reviewed'
    BY <1>1, <1>5, <1>6 DEF Ats, AtsBelow
  <1>8. Ats(files') = Named'
    BY <1>1, <1>2, <1>3, SameOutput
  <1>9. (\A n \in DOMAIN files : Whole(files[n]))'
    BY <1>1, <1>2, SameOutput
  <1>10. Cutting'
    <2>1. Ats(files)' = Named' /\ Distinct(files)' /\ Distinct(cut)'
      BY <1>2, <1>6, <1>8 DEF Ats, Distinct
    <2>2. (\A n \in DOMAIN cut : HasReadText(cut[n]))'
      BY <1>6
    <2>3. QED
      BY <1>7, <1>9, <2>1, <2>2 DEF Cutting
  <1>11. QED
    BY <1>1, <1>4, <1>10 DEF IInv, Unused

\* The file that the second loop is at is dropped, or kept as it should be.
LEMMA CutStep == IInv /\ CutFile => IInv'
  <1> SUFFICES ASSUME IInv, CutFile PROVE IInv'
    OBVIOUS
  <1> DEFINE f == files[next]
             g == Truncated(f)
  <1>1. /\ output \in Outputs /\ output' = output /\ pc = "cut" /\ pc' = "cut"
        /\ next \in Nat \ {0} /\ next' = next + 1 /\ next <= Len(files)
        /\ files \in Seq(Files) /\ files' = files /\ cut \in Seq(Files)
        /\ Cutting
        /\ UNCHANGED <<current, small, large, batch, batchLines, batches>>
    BY DEF IInv, TypeOK, CutFile
  <1>2. /\ next \in DOMAIN files /\ f \in Files
        /\ AtsBelow(files, next + 1) = AtsBelow(files, next) \union {f.at}
        /\ f.at \notin AtsBelow(files, next)
    BY <1>1, PassesAll DEF Cutting
  <1>3. Whole(f) /\ f.at \in Named
    BY <1>1, <1>2 DEF Cutting, Ats
  <1>4. f.status = "binary" <=> f.at \notin Reviewed
    BY <1>3 DEF Whole, ReadUpTo, Reviewed
  <1>5. g \in Files /\ g.at = f.at /\ HasReadText(g)
    BY <1>1, <1>2, <1>3, TruncatedKeepsFirst
  <1> HIDE DEF f, g
  <1>6. /\ cut' \in Seq(Files) /\ Distinct(cut')
        /\ Ats(cut') = AtsBelow(files, next + 1) \intersect Reviewed
        /\ \A n \in DOMAIN cut' : HasReadText(cut'[n])
    <2>1. /\ Distinct(cut) /\ Ats(cut) = AtsBelow(files, next) \intersect Reviewed
          /\ \A n \in DOMAIN cut : HasReadText(cut[n])
      BY <1>1 DEF Cutting
    <2>2. CASE f.status = "binary"
      <3>1. cut' = cut
        BY <2>2 DEF CutFile, f
      <3>2. QED
        BY <1>1, <1>2, <1>4, <2>1, <2>2, <3>1
    <2>3. CASE f.status # "binary"
      <3>1. cut' = Append(cut, g)
        BY <2>3 DEF CutFile, f, g
      <3>2. g.at \notin Ats(cut)
        BY <1>2, <1>5, <2>1
      <3>3. Distinct(cut') /\ Ats(cut') = Ats(cut) \union {g.at}
        BY <1>1, <1>5, <2>1, <3>1, <3>2, AppendOnce
      <3>4. cut' \in Seq(Files) /\ \A n \in DOMAIN cut' : HasReadText(cut'[n])
        BY <1>1, <1>5, <2>1, <3>1, AppendProperties, LenProperties
      <3>5. QED
        BY <1>2, <1>4, <1>5, <2>1, <2>3, <3>3, <3>4
    <2>4. QED
      BY <2>2, <2>3
  <1>7. TypeOK'
    BY <1>1, <1>6, SameInput DEF IInv, TypeOK
  <1>8. Cutting'
    <2>1. /\ Named' = Named /\ Reviewed' = Reviewed
          /\ (\A n \in DOMAIN files : Whole(files[n]))'
          /\ (\A n \in DOMAIN cut : HasReadText(cut[n]))'
      BY <1>1, <1>6, SameOutput DEF Cutting
    <2>2. (Ats(files) = Named /\ Distinct(files))'
      BY <1>1, <2>1 DEF Cutting, Ats, Distinct
    <2>3. Ats(cut)' = AtsBelow(files, next)' \intersect Reviewed'
      BY <1>1, <1>6, <2>1 DEF Ats, AtsBelow
    <2>4. Distinct(cut)'
      BY <1>6 DEF Distinct
    <2>5. QED
      BY <2>1, <2>2, <2>3, <2>4 DEF Cutting
  <1>9. QED
    BY <1>1, <1>7, <1>8 DEF IInv, Unused

\* The files that are left are those to review.
LEMMA CutEnds == IInv /\ EndOfCut => IInv'
  <1> SUFFICES ASSUME IInv, EndOfCut PROVE IInv'
    OBVIOUS
  <1>1. /\ output \in Outputs /\ output' = output /\ pc = "cut" /\ pc' = "sort"
        /\ next \in Nat \ {0} /\ next' = 1 /\ next > Len(files)
        /\ files \in Seq(Files) /\ cut \in Seq(Files) /\ files' = cut /\ cut' = <<>>
        /\ small' = <<>> /\ large' = <<>>
        /\ Cutting
        /\ UNCHANGED <<current, small, large, batch, batchLines, batches>>
    BY DEF IInv, TypeOK, EndOfCut, Unused
  <1>2. Ats(cut) = Reviewed
    <2>1. AtsBelow(files, next) = Named
      BY <1>1, PassesAll DEF Cutting
    <2>2. QED
      BY <1>1, <2>1 DEF Cutting, Reviewed
  <1>3. TypeOK'
    BY <1>1, SameInput DEF IInv, TypeOK
  <1>4. Sorting'
    <2>1. AtsBelow(files, next)' = {}
      <3>1. AtsBelow(cut, 1) = {}
        BY <1>1, PassesAll
      <3>2. QED
        BY <1>1, <3>1 DEF AtsBelow
    <2>2. /\ Ats(small)' = {} /\ Ats(large)' = {} /\ Distinct(small)' /\ Distinct(large)'
          /\ (DOMAIN small)' = {} /\ (DOMAIN large)' = {}
      BY <1>1 DEF Ats, Distinct
    <2>3. Sorted(AtsBelow(files, next))'
      BY <2>1, <2>2 DEF Sorted
    <2>4. Ats(files)' = Reviewed' /\ Distinct(files)'
      BY <1>1, <1>2, SameOutput DEF Cutting, Ats, Distinct
    <2>5. (\A n \in DOMAIN files : HasReadText(files[n]))'
      BY <1>1, SameOutput DEF Cutting
    <2>6. QED
      BY <2>3, <2>4, <2>5 DEF Sorting
  <1>5. QED
    BY <1>1, <1>3, <1>4 DEF IInv, Unused

\* The file that the third loop is at joins the small ones or the large ones.
LEMMA SortStep == IInv /\ SortFile => IInv'
  <1> SUFFICES ASSUME IInv, SortFile PROVE IInv'
    OBVIOUS
  <1> DEFINE f == files[next]
             hs == AtsBelow(files, next)
  <1>1. /\ output \in Outputs /\ output' = output /\ pc = "sort" /\ pc' = "sort"
        /\ next \in Nat \ {0} /\ next' = next + 1 /\ next <= Len(files)
        /\ files \in Seq(Files) /\ files' = files
        /\ small \in Seq(Files) /\ large \in Seq(Files)
        /\ Sorting
        /\ UNCHANGED <<current, cut, batch, batchLines, batches>>
    BY DEF IInv, TypeOK, SortFile
  <1>2. /\ next \in DOMAIN files /\ f \in Files
        /\ AtsBelow(files, next + 1) = hs \union {f.at} /\ f.at \notin hs
    BY <1>1, PassesAll DEF Sorting
  <1>3. HasReadText(f) /\ Sorted(hs)
    BY <1>1, <1>2 DEF Sorting
  <1>4. /\ f.at \notin Ats(small) /\ f.at \notin Ats(large)
        /\ Ats(small) \union Ats(large) = hs /\ Ats(small) \intersect Ats(large) = {}
        /\ Distinct(small) /\ Distinct(large)
    BY <1>2, <1>3 DEF Sorted
  <1>5. /\ small' \in Seq(Files) /\ large' \in Seq(Files)
        /\ Ats(small') \union Ats(large') = hs \union {f.at}
        /\ Ats(small') \intersect Ats(large') = {}
        /\ Distinct(small') /\ Distinct(large')
        /\ \A n \in DOMAIN small' : HasReadText(small'[n]) /\ LineCount(small'[n].text) < SmallBelow
        /\ \A n \in DOMAIN large' : HasReadText(large'[n])
    <2>1. CASE LineCount(f.text) < SmallBelow
      <3>1. small' = Append(small, f) /\ large' = large
        BY <2>1 DEF SortFile
      <3> HIDE DEF f, hs
      <3>2. Distinct(small') /\ Ats(small') = Ats(small) \union {f.at}
        BY <1>1, <1>2, <1>4, <3>1, AppendOnce
      <3>3. /\ small' \in Seq(Files)
            /\ \A n \in DOMAIN small' : HasReadText(small'[n]) /\ LineCount(small'[n].text) < SmallBelow
        BY <1>1, <1>2, <1>3, <2>1, <3>1, AppendProperties, LenProperties DEF Sorted
      <3>4. \A n \in DOMAIN large' : HasReadText(large'[n])
        BY <1>3, <3>1 DEF Sorted
      <3>5. QED
        BY <1>1, <1>4, <3>1, <3>2, <3>3, <3>4
    <2>2. CASE ~(LineCount(f.text) < SmallBelow)
      <3>1. large' = Append(large, f) /\ small' = small
        BY <2>2 DEF SortFile
      <3> HIDE DEF f, hs
      <3>2. Distinct(large') /\ Ats(large') = Ats(large) \union {f.at}
        BY <1>1, <1>2, <1>4, <3>1, AppendOnce
      <3>3. large' \in Seq(Files) /\ \A n \in DOMAIN large' : HasReadText(large'[n])
        BY <1>1, <1>2, <1>3, <3>1, AppendProperties, LenProperties DEF Sorted
      <3>4. \A n \in DOMAIN small' : HasReadText(small'[n]) /\ LineCount(small'[n].text) < SmallBelow
        BY <1>3, <3>1 DEF Sorted
      <3>5. QED
        BY <1>1, <1>4, <3>1, <3>2, <3>3, <3>4
    <2>3. QED
      BY <2>1, <2>2
  <1>6. TypeOK'
    BY <1>1, <1>5, SameInput DEF IInv, TypeOK
  <1>7. Sorting'
    <2>1. AtsBelow(files, next)' = hs \union {f.at}
      BY <1>1, <1>2 DEF AtsBelow
    <2> HIDE DEF f, hs
    <2>2. /\ (\A n \in DOMAIN small : HasReadText(small[n]) /\ LineCount(small[n].text) < SmallBelow)'
          /\ (\A n \in DOMAIN large : HasReadText(large[n]))'
          /\ (\A n \in DOMAIN files : HasReadText(files[n]))'
      BY <1>1, <1>5, SameOutput DEF Sorting
    <2>3. Sorted(AtsBelow(files, next))'
      BY <1>5, <2>1, <2>2 DEF Sorted, Ats, Distinct
    <2>4. (Ats(files) = Reviewed /\ Distinct(files))'
      BY <1>1, SameOutput DEF Sorting, Ats, Distinct
    <2>5. QED
      BY <2>2, <2>3, <2>4 DEF Sorting
  <1>8. QED
    BY <1>1, <1>6, <1>7 DEF IInv, Unused

\* What is sorted stays as it is.
LEMMA SortedStays ==
  ASSUME Sorted(Reviewed), UNCHANGED <<output, small, large>>
  PROVE  Sorted(Reviewed)'
  <1>1. /\ (\A n \in DOMAIN small : HasReadText(small[n]) /\ LineCount(small[n].text) < SmallBelow)'
        /\ (\A n \in DOMAIN large : HasReadText(large[n]))'
    BY SameOutput DEF Sorted
  <1>2. /\ Reviewed' = Reviewed /\ Ats(small)' = Ats(small) /\ Ats(large)' = Ats(large)
        /\ Distinct(small)' = Distinct(small) /\ Distinct(large)' = Distinct(large)
    BY SameOutput DEF Ats, Distinct
  <1>3. QED
    BY <1>1, <1>2 DEF Sorted

\* Sorting is over: no batch holds a file yet.
LEMMA SortEnds == IInv /\ EndOfSort => IInv'
  <1> SUFFICES ASSUME IInv, EndOfSort PROVE IInv'
    OBVIOUS
  <1>1. /\ output \in Outputs /\ output' = output /\ pc = "sort" /\ pc' = "fill"
        /\ next \in Nat \ {0} /\ next' = 1 /\ next > Len(files)
        /\ files \in Seq(Files) /\ small \in Seq(Files)
        /\ Sorting
        /\ batch = <<>> /\ batchLines = 0 /\ batches = <<>>
        /\ UNCHANGED <<current, files, cut, small, large, batch, batchLines, batches>>
    BY DEF IInv, TypeOK, EndOfSort, Unused
  <1>2. AtsBelow(files, next) = Reviewed
    BY <1>1, PassesAll DEF Sorting
  <1>3. Sorted(Reviewed)'
    BY <1>1, <1>2, SortedStays DEF Sorting
  <1>4. TypeOK'
    BY <1>1, SameInput DEF IInv, TypeOK
  <1>5. Pending' = <<<<>>>>
    BY <1>1 DEF Pending
  <1>6. Apart(Pending)' /\ AllAts(Pending)' = {}
    BY <1>5 DEF Apart, AllAts, Ats
  <1>7. AtsBelow(small, next)' = {}
    <2>1. AtsBelow(small, 1) = {}
      BY <1>1, PassesAll
    <2>2. QED
      BY <1>1, <2>1 DEF AtsBelow
  <1>8. LinesOf(<<>>) = 0
    <2>1. UNION {{n} \X Newlines(<<>>[n].text) : n \in DOMAIN <<>>} = {}
      OBVIOUS
    <2>2. QED
      BY <2>1, FS_EmptySet DEF LinesOf
  <1>9. Fits(<<>>)
    BY <1>8, LimitsAssumption DEF Fits
  <1>10. (\A b \in DOMAIN Pending : Fits(Pending[b]))'
    BY <1>1, <1>5, <1>9, SameOutput
  <1>11. Filling'
    BY <1>1, <1>3, <1>6, <1>7, <1>8, <1>10, SameOutput DEF Filling
  <1>12. QED
    BY <1>1, <1>4, <1>11 DEF IInv, Unused

\* The small file that the last loop is at.
LEMMA NextSmall ==
  ASSUME IInv, pc = "fill", next <= Len(small)
  PROVE  LET f == small[next]
         IN  /\ f \in Files /\ HasReadText(f) /\ LineCount(f.text) \in Nat /\ LineCount(f.text) < SmallBelow
             /\ f.at \notin AllAts(Pending)
             /\ AtsBelow(small, next + 1) = AllAts(Pending) \union {f.at}
  <1>1. next \in Nat \ {0} /\ small \in Seq(Files) /\ Filling
    BY DEF IInv, TypeOK
  <1> DEFINE f == small[next]
  <1>2. /\ next \in DOMAIN small /\ f \in Files
        /\ AtsBelow(small, next + 1) = AtsBelow(small, next) \union {f.at}
        /\ f.at \notin AtsBelow(small, next)
    BY <1>1, PassesAll DEF Filling, Sorted
  <1>3. HasReadText(f) /\ LineCount(f.text) < SmallBelow
    BY <1>1, <1>2 DEF Filling, Sorted
  <1>4. LineCount(f.text) \in Nat
    BY <1>2, LineCountType DEF Files
  <1>5. QED
    BY <1>1, <1>2, <1>3, <1>4 DEF Filling

\* The closed batches and the open one.
LEMMA PendingBatches ==
  ASSUME IInv, pc = "fill"
  PROVE  /\ Fits(batch) /\ \A b \in DOMAIN batches : Fits(batches[b])
         /\ Pending \in Seq(Seq(Files))
  <1>1. batches \in Seq(Seq(Files)) /\ batch \in Seq(Files)
    BY DEF IInv, TypeOK
  <1>2. \A b \in DOMAIN Pending : Fits(Pending[b])
    BY DEF IInv, Filling
  <1>3. /\ DOMAIN Pending = 1..Len(batches) + 1 /\ DOMAIN batches = 1..Len(batches)
        /\ Len(batches) \in Nat /\ Pending \in Seq(Seq(Files))
        /\ Pending[Len(batches) + 1] = batch
        /\ \A b \in 1..Len(batches) : Pending[b] = batches[b]
    BY <1>1, AppendProperties, LenProperties DEF Pending
  <1>4. Fits(batch)
    BY <1>2, <1>3
  <1>5. ASSUME NEW b \in DOMAIN batches PROVE Fits(batches[b])
    BY <1>2, <1>3
  <1>6. QED
    BY <1>3, <1>4, <1>5

\* A batch of a single small file.
LEMMA SingleFits ==
  ASSUME NEW f \in Files, HasReadText(f), LineCount(f.text) < SmallBelow, LineCount(f.text) \in Nat
  PROVE  Fits(<<f>>) /\ LinesOf(<<f>>) = LineCount(f.text)
  <1>1. <<>> \in Seq(Files) /\ Append(<<>>, f) = <<f>>
    OBVIOUS
  <1>2. LinesOf(<<>>) = 0 /\ LinesOf(<<f>>) = LinesOf(<<>>) + LineCount(f.text)
    BY <1>1, LinesAdd
  <1>3. LinesOf(<<f>>) = LineCount(f.text)
    BY <1>2
  <1>4. Len(<<f>>) = 1 /\ DOMAIN <<f>> = {1} /\ <<f>>[1] = f
    OBVIOUS
  <1>5. LineCount(f.text) <= BatchLines /\ 1 <= BatchFiles
    BY LimitsAssumption
  <1>6. QED
    BY <1>3, <1>4, <1>5 DEF Fits

\* The file joins the open batch.
LEMMA AddStep == IInv /\ AddToBatch => IInv'
  <1> SUFFICES ASSUME IInv, AddToBatch PROVE IInv'
    OBVIOUS
  <1> DEFINE f == small[next]
             new == Append(batch, f)
  <1>1. /\ output \in Outputs /\ output' = output /\ pc = "fill" /\ pc' = "fill"
        /\ next \in Nat \ {0} /\ next' = next + 1 /\ next <= Len(small)
        /\ small \in Seq(Files) /\ small' = small /\ large' = large
        /\ batch \in Seq(Files) /\ batches \in Seq(Seq(Files)) /\ batchLines \in Nat
        /\ Filling
        /\ batch' = new /\ batchLines' = batchLines + LineCount(f.text)
        /\ ~Full(f)
        /\ UNCHANGED <<current, files, cut, batches>>
    BY LimitsAssumption DEF IInv, TypeOK, AddToBatch
  <1>2. /\ f \in Files /\ HasReadText(f) /\ LineCount(f.text) \in Nat /\ LineCount(f.text) < SmallBelow
        /\ f.at \notin AllAts(Pending)
        /\ AtsBelow(small, next + 1) = AllAts(Pending) \union {f.at}
    BY <1>1, NextSmall
  <1> HIDE DEF f
  <1>3. /\ Len(batch) \in Nat /\ Len(batch) < BatchFiles
        /\ batchLines + LineCount(f.text) <= BatchLines
    BY <1>1, <1>2, LenProperties, LimitsAssumption DEF Full
  <1>4. new \in Seq(Files) /\ Len(new) = Len(batch) + 1 /\ new # <<>>
    BY <1>1, <1>2, AppendProperties
  <1>5. LinesOf(new) = batchLines + LineCount(f.text)
    <2>1. LinesOf(Append(batch, f)) = LinesOf(batch) + LineCount(f.text)
      BY <1>1, <1>2, LinesAdd
    <2>2. LinesOf(batch) = batchLines
      BY <1>1 DEF Filling
    <2>3. QED
      BY <2>1, <2>2
  <1>6. Fits(new)
    <2>1. Fits(batch)
      BY <1>1, PendingBatches
    <2>2. \A n \in DOMAIN new : HasReadText(new[n]) /\ LineCount(new[n].text) < SmallBelow
      BY <1>1, <1>2, <2>1, AppendProperties, LenProperties DEF Fits
    <2> HIDE DEF new
    <2>3. Len(new) <= BatchFiles /\ LinesOf(new) <= BatchLines
      BY <1>3, <1>4, <1>5, LimitsAssumption
    <2>4. QED
      BY <2>2, <2>3 DEF Fits
  <1>7. Pending' = Append(batches, new)
    BY <1>1 DEF Pending
  <1>8. Apart(Append(batches, new)) /\ AllAts(Append(batches, new)) = AtsBelow(small, next + 1)
    <2>1. /\ Apart(Append(batches, batch)) /\ f.at \notin AllAts(Append(batches, batch))
          /\ AtsBelow(small, next + 1) = AllAts(Append(batches, batch)) \union {f.at}
      BY <1>1, <1>2 DEF Filling, Pending
    <2>2. /\ AllAts(Append(batches, new)) = AllAts(Append(batches, batch)) \union {f.at}
          /\ Apart(Append(batches, batch)) /\ f.at \notin AllAts(Append(batches, batch))
               => Apart(Append(batches, new))
      BY <1>1, <1>2, GrowOnce
    <2>3. QED
      BY <2>1, <2>2
  <1> HIDE DEF new
  <1>9. \A b \in DOMAIN Append(batches, new) : Fits(Append(batches, new)[b])
    <2>1. \A b \in DOMAIN batches : Fits(batches[b])
      BY <1>1, PendingBatches
    <2>2. /\ DOMAIN Append(batches, new) = DOMAIN batches \union {Len(batches) + 1}
          /\ \A b \in DOMAIN batches : Append(batches, new)[b] = batches[b]
          /\ Append(batches, new)[Len(batches) + 1] = new
      <3>1. batches \in Seq(Seq(Files)) /\ new \in Seq(Files)
        BY <1>1, <1>4
      <3>2. QED
        BY <3>1, AppendPlaces
    <2>3. ASSUME NEW b \in DOMAIN Append(batches, new) PROVE Fits(Append(batches, new)[b])
      <3>1. CASE b \in DOMAIN batches
        BY <2>1, <2>2, <3>1
      <3>2. CASE b = Len(batches) + 1
        BY <1>6, <2>2, <3>2
      <3>3. QED
        BY <2>2, <3>1, <3>2
    <2>4. QED
      BY <2>3
  <1>10. TypeOK'
    <2>1. batchLines + LineCount(f.text) \in 0..BatchLines /\ Len(batch) + 1 <= BatchFiles
      BY <1>1, <1>2, <1>3, LimitsAssumption
    <2>2. /\ batch' \in Seq(Files) /\ Len(batch') <= BatchFiles /\ batch' # <<>>
          /\ batchLines' \in 0..BatchLines
      BY <1>1, <1>4, <2>1
    <2>3. QED
      BY <1>1, <2>2, SameInput DEF IInv, TypeOK
  <1>11. Filling'
    <2>1. Sorted(Reviewed)'
      BY <1>1, SortedStays DEF Filling
    <2>2. Apart(Pending)' /\ AllAts(Pending)' = AtsBelow(small, next)'
      <3>1. Apart(Pending)' <=> Apart(Append(batches, new))
        BY <1>7 DEF Apart
      <3>2. AllAts(Pending)' = AllAts(Append(batches, new))
        BY <1>7 DEF AllAts, Ats
      <3>3. AtsBelow(small, next)' = AtsBelow(small, next + 1)
        BY <1>1 DEF AtsBelow
      <3>4. QED
        BY <1>8, <3>1, <3>2, <3>3
    <2>3. (\A b \in DOMAIN Pending : Fits(Pending[b]))'
      BY <1>1, <1>7, <1>9, SameOutput
    <2>4. (\A b \in DOMAIN batches : batches[b] # <<>>)'
      BY <1>1 DEF Filling
    <2>5. LinesOf(batch)' = batchLines'
      BY <1>1, <1>5, SameOutput
    <2>6. QED
      BY <2>1, <2>2, <2>3, <2>4, <2>5 DEF Filling
  <1>12. QED
    BY <1>1, <1>10, <1>11 DEF IInv, Unused

\* A file that does not fit closes the open batch, which is not empty: any
\* small file fits in an empty one.
LEMMA CloseStep == IInv /\ CloseBatch => IInv'
  <1> SUFFICES ASSUME IInv, CloseBatch PROVE IInv'
    OBVIOUS
  <1> DEFINE f == small[next]
             new == Append(Pending, <<f>>)
  <1>1. /\ output \in Outputs /\ output' = output /\ pc = "fill" /\ pc' = "fill"
        /\ next \in Nat \ {0} /\ next' = next + 1 /\ next <= Len(small)
        /\ small \in Seq(Files) /\ small' = small /\ large' = large
        /\ batch \in Seq(Files) /\ batches \in Seq(Seq(Files)) /\ batchLines \in Nat
        /\ batch = <<>> => batchLines = 0
        /\ Filling
        /\ batches' = Pending /\ batch' = <<f>> /\ batchLines' = LineCount(f.text)
        /\ Full(f)
        /\ UNCHANGED <<current, files, cut>>
    BY LimitsAssumption DEF IInv, TypeOK, CloseBatch, Pending
  <1>2. /\ f \in Files /\ HasReadText(f) /\ LineCount(f.text) \in Nat /\ LineCount(f.text) < SmallBelow
        /\ f.at \notin AllAts(Pending)
        /\ AtsBelow(small, next + 1) = AllAts(Pending) \union {f.at}
    BY <1>1, NextSmall
  <1> HIDE DEF f
  <1>3. batch # <<>>
    <2> SUFFICES ASSUME batch = <<>> PROVE FALSE
      OBVIOUS
    <2>1. Len(batch) = 0 /\ batchLines = 0
      BY <1>1
    <2>2. LineCount(f.text) <= BatchLines /\ ~(0 >= BatchFiles)
      BY <1>2, LimitsAssumption
    <2>3. QED
      BY <1>1, <1>2, <2>1, <2>2, LimitsAssumption DEF Full
  <1>4. /\ Fits(batch) /\ \A b \in DOMAIN batches : Fits(batches[b])
        /\ Pending \in Seq(Seq(Files))
    BY <1>1, PendingBatches
  <1>5. Fits(<<f>>) /\ LinesOf(<<f>>) = LineCount(f.text)
    BY <1>2, SingleFits
  <1>6. <<f>> \in Seq(Files) /\ Len(<<f>>) = 1 /\ <<f>> # <<>>
    BY <1>2
  <1>7. Pending' = new
    BY <1>1 DEF Pending
  <1>8. Apart(new) /\ AllAts(new) = AtsBelow(small, next + 1)
    <2>1. /\ AllAts(new) = AllAts(Pending) \union {f.at}
          /\ Apart(Pending) /\ f.at \notin AllAts(Pending) => Apart(new)
      BY <1>2, <1>4, OpenOnce
    <2>2. Apart(Pending)
      BY <1>1 DEF Filling
    <2>3. QED
      BY <1>2, <2>1, <2>2
  <1>9. /\ \A b \in DOMAIN new : Fits(new[b])
        /\ \A b \in DOMAIN Pending : Pending[b] # <<>>
    <2>1. \A b \in DOMAIN Pending : Fits(Pending[b])
      BY <1>1 DEF Filling
    <2>2. \A b \in DOMAIN new : Fits(new[b])
      <3>1. /\ DOMAIN new = DOMAIN Pending \union {Len(Pending) + 1}
            /\ \A b \in DOMAIN Pending : new[b] = Pending[b]
            /\ new[Len(Pending) + 1] = <<f>>
        BY <1>4, <1>6, AppendPlaces
      <3> HIDE DEF new
      <3>2. QED
        BY <1>5, <2>1, <3>1
    <2>3. \A b \in DOMAIN batches : batches[b] # <<>>
      BY <1>1 DEF Filling
    <2>4. \A b \in DOMAIN Pending : Pending[b] # <<>>
      <3>1. /\ DOMAIN Pending = DOMAIN batches \union {Len(batches) + 1}
            /\ \A b \in DOMAIN batches : Pending[b] = batches[b]
            /\ Pending[Len(batches) + 1] = batch
        BY <1>1, AppendPlaces DEF Pending
      <3>2. QED
        BY <1>3, <2>3, <3>1
    <2>5. QED
      BY <2>2, <2>4
  <1> HIDE DEF new
  <1>10. TypeOK'
    <2>1. LineCount(f.text) \in 0..BatchLines /\ 1 <= BatchFiles
      BY <1>2, LimitsAssumption
    <2>2. /\ batch' \in Seq(Files) /\ Len(batch') <= BatchFiles /\ batch' # <<>>
          /\ batchLines' \in 0..BatchLines /\ batches' \in Seq(Seq(Files))
      BY <1>1, <1>4, <1>6, <2>1
    <2>3. QED
      BY <1>1, <2>2, SameInput DEF IInv, TypeOK
  <1>11. Filling'
    <2>1. Sorted(Reviewed)'
      BY <1>1, SortedStays DEF Filling
    <2>2. Apart(Pending)' /\ AllAts(Pending)' = AtsBelow(small, next)'
      <3>1. Apart(Pending)' <=> Apart(new)
        BY <1>7 DEF Apart
      <3>2. AllAts(Pending)' = AllAts(new)
        BY <1>7 DEF AllAts, Ats
      <3>3. AtsBelow(small, next)' = AtsBelow(small, next + 1)
        BY <1>1 DEF AtsBelow
      <3>4. QED
        BY <1>8, <3>1, <3>2, <3>3
    <2>3. (\A b \in DOMAIN Pending : Fits(Pending[b]))'
      BY <1>1, <1>7, <1>9, SameOutput
    <2>4. (\A b \in DOMAIN batches : batches[b] # <<>>)'
      BY <1>1, <1>9
    <2>5. LinesOf(batch)' = batchLines'
      BY <1>1, <1>5, SameOutput
    <2>6. QED
      BY <2>1, <2>2, <2>3, <2>4, <2>5 DEF Filling
  <1>12. QED
    BY <1>1, <1>10, <1>11 DEF IInv, Unused

\* The last batch, if it holds anything, and the large files.
LEMMA FillEnds == IInv /\ EndOfFill => IInv'
  <1> SUFFICES ASSUME IInv, EndOfFill PROVE IInv'
    OBVIOUS
  <1> DEFINE closed == IF batch = <<>> THEN batches ELSE Pending
  <1>1. /\ output \in Outputs /\ output' = output /\ pc = "fill" /\ pc' = "done"
        /\ next \in Nat \ {0} /\ next > Len(small)
        /\ small \in Seq(Files) /\ large \in Seq(Files)
        /\ batch \in Seq(Files) /\ batches \in Seq(Seq(Files))
        /\ Filling
        /\ batches' = batches \o (IF batch = <<>> THEN <<>> ELSE <<batch>>) \o Alone
        /\ UNCHANGED <<next, current, files, cut, small, large, batch, batchLines>>
    BY DEF IInv, TypeOK, EndOfFill
  <1>2. /\ Fits(batch) /\ \A b \in DOMAIN batches : Fits(batches[b])
        /\ Pending \in Seq(Seq(Files)) /\ \A b \in DOMAIN Pending : Fits(Pending[b])
    BY <1>1, PendingBatches DEF Filling
  <1>3. AllAts(Pending) = Ats(small)
    BY <1>1, PassesAll DEF Filling
  <1>4. /\ closed \in Seq(Seq(Files)) /\ batches' = closed \o Alone
        /\ Apart(closed) /\ AllAts(closed) = Ats(small)
        /\ \A b \in DOMAIN closed : Fits(closed[b]) /\ closed[b] # <<>>
    <2>1. CASE batch = <<>>
      <3>1. closed = batches /\ batches \o <<>> = batches
        BY <1>1, <2>1, ConcatEmptySeq
      <3>2. Apart(closed) /\ AllAts(closed) = Ats(small)
        BY <1>1, <1>3, <2>1, <3>1, EmptyBatch DEF Filling, Pending
      <3>3. \A b \in DOMAIN closed : Fits(closed[b]) /\ closed[b] # <<>>
        BY <1>1, <1>2, <3>1 DEF Filling
      <3>4. QED
        BY <1>1, <2>1, <3>1, <3>2, <3>3
    <2>2. CASE batch # <<>>
      <3>1. closed = Pending /\ Pending = batches \o <<batch>>
        BY <1>1, <2>2, AppendIsConcat DEF Pending
      <3>2. Apart(closed) /\ AllAts(closed) = Ats(small)
        BY <1>1, <1>3, <3>1 DEF Filling
      <3>3. \A b \in DOMAIN Pending : Pending[b] # <<>>
        <4>1. /\ DOMAIN Pending = DOMAIN batches \union {Len(batches) + 1}
              /\ \A b \in DOMAIN batches : Pending[b] = batches[b]
              /\ Pending[Len(batches) + 1] = batch
          BY <1>1, AppendPlaces DEF Pending
        <4>2. QED
          BY <1>1, <2>2, <4>1 DEF Filling
      <3>4. QED
        BY <1>1, <1>2, <2>2, <3>1, <3>2, <3>3
    <2>3. QED
      BY <2>1, <2>2
  <1> HIDE DEF closed
  <1>5. /\ Sorted(Reviewed)
        /\ Distinct(large) /\ Ats(small) \intersect Ats(large) = {}
        /\ Ats(small) \union Ats(large) = Reviewed
        /\ \A n \in DOMAIN large : HasReadText(large[n]) /\ large[n] \in Files
    BY <1>1, LenProperties, ElementOfSeq DEF Filling, Sorted
  <1>6. Apart(batches') /\ AllAts(batches') = Reviewed
    <2>1. /\ AllAts(closed \o Alone) = AllAts(closed) \union Ats(large)
          /\ Apart(closed) /\ Distinct(large) /\ AllAts(closed) \intersect Ats(large) = {}
               => Apart(closed \o Alone)
      BY <1>1, <1>4, AloneOnce DEF Alone
    <2>2. QED
      BY <1>4, <1>5, <2>1
  <1>7. /\ batches' \in Seq(Seq(Files))
        /\ \A b \in DOMAIN batches' :
             \/ Fits(batches'[b]) /\ batches'[b] # <<>>
             \/ \E n \in DOMAIN large : batches'[b] = <<large[n]>>
    <2>1. /\ Alone \in Seq(Seq(Files)) /\ Len(Alone) \in Nat /\ DOMAIN Alone = 1..Len(Alone)
          /\ \A n \in DOMAIN Alone : n \in DOMAIN large /\ Alone[n] = <<large[n]>>
      <3>1. Len(large) \in Nat /\ DOMAIN large = 1..Len(large)
        BY <1>1, LenProperties
      <3>2. Alone \in [1..Len(large) -> Seq(Files)]
        BY <1>5, <3>1 DEF Alone
      <3>3. Alone \in Seq(Seq(Files))
        BY <3>1, <3>2, SeqDef
      <3>4. QED
        BY <3>1, <3>3, LenProperties DEF Alone
    <2>2. /\ batches' \in Seq(Seq(Files)) /\ Len(batches') = Len(closed) + Len(Alone)
          /\ \A b \in 1..Len(closed) + Len(Alone) :
               batches'[b] = IF b <= Len(closed) THEN closed[b] ELSE Alone[b - Len(closed)]
      BY <1>4, <2>1, ConcatProperties
    <2>3. /\ Len(closed) \in Nat /\ DOMAIN closed = 1..Len(closed)
          /\ DOMAIN batches' = 1..Len(closed) + Len(Alone)
      BY <1>4, <2>2, LenProperties
    <2>4. ASSUME NEW b \in DOMAIN batches'
          PROVE  \/ b \in DOMAIN closed /\ batches'[b] = closed[b]
                 \/ \E n \in DOMAIN large : batches'[b] = <<large[n]>>
      <3>1. CASE b <= Len(closed)
        BY <2>2, <2>3, <3>1
      <3>2. CASE ~(b <= Len(closed))
        <4>1. b - Len(closed) \in DOMAIN Alone /\ batches'[b] = Alone[b - Len(closed)]
          BY <2>1, <2>2, <2>3, <3>2
        <4>2. QED
          BY <2>1, <4>1
      <3>3. QED
        BY <3>1, <3>2
    <2>5. QED
      BY <1>4, <2>2, <2>4
  <1>8. ASSUME NEW b \in DOMAIN batches'
        PROVE  /\ Len(batches'[b]) \in 1..BatchFiles
               /\ \/ Len(batches'[b]) = 1
                  \/ /\ LinesOf(batches'[b]) <= BatchLines
                     /\ \A n \in DOMAIN batches'[b] : LineCount(batches'[b][n].text) < SmallBelow
               /\ \A n \in DOMAIN batches'[b] : HasReadText(batches'[b][n])
    <2>1. CASE Fits(batches'[b]) /\ batches'[b] # <<>>
      <3>1. Len(batches'[b]) \in Nat \ {0}
        BY <1>7, <2>1, LenProperties, ElementOfSeq, EmptySeq
      <3>2. QED
        BY <2>1, <3>1, LimitsAssumption DEF Fits
    <2>2. ASSUME NEW n \in DOMAIN large, batches'[b] = <<large[n]>>
          PROVE  /\ Len(batches'[b]) = 1 /\ 1 \in 1..BatchFiles
                 /\ \A m \in DOMAIN batches'[b] : HasReadText(batches'[b][m])
      <3>1. /\ Len(<<large[n]>>) = 1 /\ DOMAIN <<large[n]>> = {1} /\ <<large[n]>>[1] = large[n]
        OBVIOUS
      <3>2. QED
        BY <1>5, <2>2, <3>1, LimitsAssumption
    <2>3. QED
      BY <1>7, <2>1, <2>2
  <1>9. TypeOK'
    BY <1>1, <1>7, SameInput DEF IInv, TypeOK
  <1>10. Finished'
    <2>1. (\A b \in DOMAIN batches : \A n \in DOMAIN batches[b] : HasReadText(batches[b][n]))'
      BY <1>1, <1>8, SameOutput
    <2>2. BatchLimits'
      BY <1>1, <1>8, SameOutput DEF BatchLimits
    <2>3. Apart(batches)' /\ AllAts(batches)' = Reviewed'
      BY <1>1, <1>6, SameOutput DEF Apart, AllAts, Ats
    <2>4. QED
      BY <2>1, <2>2, <2>3 DEF Finished
  <1>11. QED
    BY <1>1, <1>9, <1>10 DEF IInv, Unused

LEMMA NextIInv == IInv /\ [Next]_vars => IInv'
  <1> SUFFICES ASSUME IInv, [Next]_vars PROVE IInv'
    OBVIOUS
  <1>1. CASE UNCHANGED vars
    <2>1. UNCHANGED <<output, pc, next, current, files, cut, small, large, batch, batchLines, batches>>
      BY <1>1 DEF vars
    <2>2. TypeOK' /\ Unused'
      BY <2>1, SameInput DEF IInv, TypeOK, Unused
    <2>3. pc = "parse" => Parsing'
      <3> SUFFICES ASSUME Parsing PROVE Parsing'
        BY DEF IInv
      <3>1. (\A n \in DOMAIN files : Whole(files[n]))'
        BY <2>1, SameOutput DEF Parsing
      <3>2. current # <<>> => ReadUpTo(current[1], next)'
        BY <2>1, SameOutput DEF Parsing
      <3>3. QED
        BY <2>1, <3>1, <3>2, SameOutput DEF Parsing, Distinct, Ats
    <2>4. pc = "cut" => Cutting'
      <3> SUFFICES ASSUME Cutting PROVE Cutting'
        BY DEF IInv
      <3>1. /\ (\A n \in DOMAIN files : Whole(files[n]))'
            /\ (\A n \in DOMAIN cut : HasReadText(cut[n]))'
        BY <2>1, SameOutput DEF Cutting
      <3>2. QED
        BY <2>1, <3>1, SameOutput DEF Cutting, Distinct, Ats, AtsBelow
    <2>5. pc = "sort" => Sorting'
      <3> SUFFICES ASSUME Sorting PROVE Sorting'
        BY DEF IInv
      <3>1. /\ (\A n \in DOMAIN small : HasReadText(small[n]) /\ LineCount(small[n].text) < SmallBelow)'
            /\ (\A n \in DOMAIN large : HasReadText(large[n]))'
            /\ (\A n \in DOMAIN files : HasReadText(files[n]))'
        BY <2>1, SameOutput DEF Sorting, Sorted
      <3>2. Sorted(AtsBelow(files, next))'
        <4>1. /\ Ats(small)' = Ats(small) /\ Ats(large)' = Ats(large)
              /\ AtsBelow(files, next)' = AtsBelow(files, next)
          BY <2>1 DEF Ats, AtsBelow
        <4>2. Distinct(small)' = Distinct(small) /\ Distinct(large)' = Distinct(large)
          BY <2>1 DEF Distinct
        <4>3. QED
          BY <3>1, <4>1, <4>2 DEF Sorting, Sorted
      <3>3. QED
        BY <2>1, <3>1, <3>2, SameOutput DEF Sorting, Distinct, Ats
    <2>6. pc = "fill" => Filling'
      <3> SUFFICES ASSUME Filling PROVE Filling'
        BY DEF IInv
      <3>1. Sorted(Reviewed)'
        BY <2>1, SortedStays DEF Filling
      <3>2. (\A b \in DOMAIN Pending : Fits(Pending[b]))'
        BY <2>1, SameOutput DEF Filling, Pending
      <3>3. Pending' = Pending
        BY <2>1 DEF Pending
      <3>4. QED
        <4>1. /\ AllAts(Pending)' = AllAts(Pending)
              /\ AtsBelow(small, next)' = AtsBelow(small, next)
          BY <2>1, <3>3 DEF AllAts, Ats, AtsBelow
        <4>2. Apart(Pending)' = Apart(Pending)
          BY <3>3 DEF Apart
        <4>3. LinesOf(batch)' = LinesOf(batch)
          BY <2>1, SameOutput
        <4>4. (\A b \in DOMAIN batches : batches[b] # <<>>)'
          BY <2>1 DEF Filling
        <4>5. QED
          BY <2>1, <3>1, <3>2, <4>1, <4>2, <4>3, <4>4 DEF Filling
    <2>7. pc = "done" => Finished'
      <3> SUFFICES ASSUME Finished PROVE Finished'
        BY DEF IInv
      <3>1. (\A b \in DOMAIN batches : \A n \in DOMAIN batches[b] : HasReadText(batches[b][n]))'
        BY <2>1, SameOutput DEF Finished
      <3>2. QED
        <4>1. AllAts(batches)' = AllAts(batches)
          BY <2>1 DEF AllAts, Ats
        <4>2. Apart(batches)' = Apart(batches)
          BY <2>1 DEF Apart
        <4>3. BatchLimits' = BatchLimits
          BY <2>1, SameOutput DEF BatchLimits
        <4>4. QED
          BY <2>1, <3>1, <4>1, <4>2, <4>3, SameOutput DEF Finished
    <2>8. QED
      BY <2>1, <2>2, <2>3, <2>4, <2>5, <2>6, <2>7 DEF IInv
  <1>2. QED
    BY <1>1, HeaderStep, StatusStep, TextStep, OutputEnds, CutStep, CutEnds, SortStep, SortEnds,
       AddStep, CloseStep, FillEnds DEF Next

\* The inductive invariant.
LEMMA FilesInvariant == Spec => []IInv
  BY InitIInv, NextIInv, PTL DEF Spec

-----------------------------------------------------------------------------
\* Every variable keeps its type: in particular the open batch stays within
\* its limits, whatever files there are.
THEOREM FilesTypeCorrect == Spec => []TypeOK
  <1>1. IInv => TypeOK
    BY DEF IInv
  <1>2. QED
    BY FilesInvariant, <1>1, PTL

\* What git says of a change is what the parser reads of it, unless a tail says
\* that the change is binary.
LEMMA SaidByGit ==
  ASSUME output \in Outputs, NEW h \in GitHeaders, Posing(h, {"binary"}) = {}
  PROVE  SaysBinary(h, Len(output) + 1) <=> OwnOf(h, {"binary"}) # {}
  <1>1. /\ h \in 1..Len(output) /\ Len(output) \in Nat /\ DOMAIN output = 1..Len(output)
        /\ IsOutput(output)
    BY OutputLines DEF GitHeaders
  <1>2. Section(h) \subseteq Own(h)
    BY DEF Section, Own, GitHeaders, Breaks
  <1>3. SaysBinary(h, Len(output) + 1) => OwnOf(h, {"binary"}) # {}
    BY <1>2 DEF SaysBinary, OfKind, OwnOf
  <1>4. ASSUME NEW m \in OwnOf(h, {"binary"}) PROVE SaysBinary(h, Len(output) + 1)
    <2>1. m \in Own(h) /\ m \in DOMAIN output /\ output[m].kind = "binary" /\ ~output[m].tail
      BY <1>1 DEF OwnOf, Own, Posing
    <2>2. ASSUME NEW k \in Own(h), NEW n \in (k..m) \union (m..k),
                 output[n].kind = "header", ~output[n].tail
          PROVE  FALSE
      <3>1. n \in h + 1..k \/ n \in h + 1..m
        BY <1>1, <2>1 DEF Own
      <3>2. n \in GitHeaders
        BY <1>1, <2>1, <2>2 DEF GitHeaders, Own
      <3>3. QED
        BY <2>1, <3>1, <3>2 DEF Own
    <2>3. \A k \in Own(h) : k \in DOMAIN output /\ ~output[k].tail
      BY <1>1, <2>1, <2>2 DEF IsOutput, Own
    <2>4. \A k \in Own(h) : m < k => output[k].kind \notin StatusKinds
      BY <1>1, <2>1, <2>2, <2>3 DEF IsOutput
    <2>5. Breaks \intersect h + 1..m = {}
      <3> SUFFICES ASSUME NEW n \in Breaks, n \in h + 1..m PROVE FALSE
        OBVIOUS
      <3>1. n \in Own(h)
        BY <1>1, <2>1 DEF Own, GitHeaders
      <3>2. n \in GitHeaders
        BY <1>1, <2>3, <3>1 DEF IsOutput, Breaks, GitHeaders
      <3>3. QED
        BY <2>1, <3>2 DEF Own
    <2>6. m \in OfKind(h, "binary") /\ m < Len(output) + 1
      BY <1>1, <2>1, <2>5 DEF OfKind, Section, Own
    <2>7. QED
      BY <1>2, <2>4, <2>6 DEF SaysBinary
  <1>5. QED
    BY <1>3, <1>4

\* Whatever git prints, each change that is text and no noise is in one place
\* of the batches _batch_files returns, and no other is in any, but for paths
\* that _parse_diff_output misreads and tails that say "Binary files".
THEOREM ChangesAreReviewedOnce == Spec => []EachChangeReviewedOnce
  <1>1. IInv => EachChangeReviewedOnce
    <2> SUFFICES ASSUME IInv, pc = "done", NEW h \in GitHeaders,
                        Plain(h), Posing(h, {"binary"}) = {}
                 PROVE  Cardinality(Placed(h)) = IF ToReview(h) THEN 1 ELSE 0
      BY DEF EachChangeReviewedOnce
    <2>1. Apart(batches) /\ AllAts(batches) = Reviewed /\ output \in Outputs
      BY DEF IInv, Finished
    <2>2. ToReview(h) <=> h \in AllAts(batches)
      <3>1. SaysBinary(h, Len(output) + 1) <=> OwnOf(h, {"binary"}) # {}
        BY <2>1, SaidByGit
      <3>2. h \in Headers
        BY DEF GitHeaders, Headers
      <3>3. QED
        BY <2>1, <3>1, <3>2 DEF ToReview, Plain, Reviewed, Named
    <2>3. ASSUME h \in AllAts(batches) PROVE \E spot : Placed(h) = {spot}
      <3>1. PICK b \in DOMAIN batches : \E n \in DOMAIN batches[b] : batches[b][n].at = h
        BY <2>3 DEF AllAts, Ats
      <3>2. PICK n \in DOMAIN batches[b] : batches[b][n].at = h
        BY <3>1
      <3>3. <<b, n>> \in Placed(h)
        BY <3>2 DEF Placed
      <3>4. ASSUME NEW spot \in Placed(h) PROVE spot = <<b, n>>
        <4>1. PICK c \in DOMAIN batches :
                spot \in {<<c, m>> : m \in {k \in DOMAIN batches[c] : batches[c][k].at = h}}
          BY DEF Placed
        <4>2. PICK m \in DOMAIN batches[c] : batches[c][m].at = h /\ spot = <<c, m>>
          BY <4>1
        <4>3. c = b /\ m = n
          BY <2>1, <3>2, <4>2 DEF Apart
        <4>4. QED
          BY <4>2, <4>3
      <3>5. QED
        BY <3>3, <3>4
    <2>4. ASSUME h \notin AllAts(batches) PROVE Placed(h) = {}
      <3> SUFFICES ASSUME NEW b \in DOMAIN batches, NEW n \in DOMAIN batches[b]
                   PROVE  batches[b][n].at # h
        BY DEF Placed
      <3>1. QED
        BY <2>4 DEF AllAts, Ats
    <2>5. QED
      BY <2>2, <2>3, <2>4, FS_EmptySet, FS_Singleton
  <1>2. QED
    BY FilesInvariant, <1>1, PTL

\* Every piece the parser has passed is of one of git's changes.
Owned ==
  \A n \in DOMAIN output :
    n < next \/ pc # "parse" => \E h \in GitHeaders : n \in {h} \union Own(h)

LEMMA OwnedInvariant == Spec => []Owned
  <1>1. Init => Owned
    BY OutputLines DEF Init, Owned
  <1>2. IInv /\ Owned /\ [Next]_vars => Owned'
    <2> SUFFICES ASSUME IInv, Owned, [Next]_vars PROVE Owned'
      OBVIOUS
    <2>1. output' = output
      BY DEF Next, vars, ReadHeader, ReadStatus, ReadText, EndOfOutput, CutFile, EndOfCut,
             SortFile, EndOfSort, AddToBatch, CloseBatch, EndOfFill
    <2>2. GitHeaders' = GitHeaders /\ \A h : Own(h)' = Own(h)
      BY <2>1 DEF GitHeaders, Own
    <2>3. /\ output \in Outputs /\ Len(output) \in Nat /\ DOMAIN output = 1..Len(output)
          /\ next \in Nat \ {0} /\ IsOutput(output)
      BY OutputLines DEF IInv, TypeOK
    <2>4. CASE Reading(Kinds) /\ next' = next + 1 /\ pc' = pc
      <3>1. ASSUME NEW n \in DOMAIN output, n < next + 1
            PROVE  \E h \in GitHeaders : n \in {h} \union Own(h)
        <4>1. CASE n < next
          BY <4>1 DEF Owned
        <4>2. CASE n = next /\ n \in GitHeaders
          BY <4>2
        <4>3. CASE n = next /\ n \notin GitHeaders
          <5>1. n # 1
            BY <2>3, <4>3 DEF IsOutput, GitHeaders
          <5>2. n - 1 \in DOMAIN output /\ n - 1 < next
            BY <2>3, <3>1, <4>3, <5>1
          <5>3. PICK h \in GitHeaders : n - 1 \in {h} \union Own(h)
            BY <5>2 DEF Owned
          <5>4. h \in Nat /\ n \in h + 1..Len(output) /\ GitHeaders \intersect h + 1..n - 1 = {}
            BY <2>3, <3>1, <5>3 DEF GitHeaders, Own
          <5>5. GitHeaders \intersect h + 1..n = {}
            BY <2>3, <4>3, <5>4
          <5>6. QED
            BY <5>4, <5>5 DEF Own
        <4>4. QED
          BY <2>3, <3>1, <4>1, <4>2, <4>3
      <3>2. QED
        BY <2>1, <2>2, <2>4, <3>1 DEF Owned, Reading
    <2>5. CASE \A n \in DOMAIN output : n < next \/ pc # "parse"
      BY <2>1, <2>2, <2>5 DEF Owned
    <2>6. CASE UNCHANGED vars
      BY <2>1, <2>2, <2>6 DEF Owned, vars
    <2>7. QED
      <3>1. CASE pc # "parse"
        BY <2>5, <3>1
      <3>2. CASE pc = "parse"
        <4>1. CASE ReadHeader \/ ReadStatus \/ ReadText
          BY <2>4, <4>1 DEF ReadHeader, ReadStatus, ReadText, Reading, Kinds, StatusKinds
        <4>2. CASE EndOfOutput
          BY <2>3, <2>5, <4>2 DEF EndOfOutput
        <4>3. QED
          BY <2>6, <3>2, <4>1, <4>2 DEF Next, CutFile, EndOfCut, SortFile, EndOfSort,
             AddToBatch, CloseBatch, EndOfFill
      <3>3. QED
        BY <3>1, <3>2
  <1>3. QED
    BY FilesInvariant, <1>1, <1>2, PTL DEF Spec

\* What a file has in its section is what its change has, unless a tail poses
\* as more than text.
LEMMA SectionIsOwn ==
  ASSUME output \in Outputs, NEW h \in GitHeaders, Posing(h, Kinds \ {"text"}) = {}
  PROVE  OfKind(h, "text") = OwnOf(h, {"text"})
  <1>1. DOMAIN output = 1..Len(output) /\ Len(output) \in Nat /\ h \in Nat /\ IsOutput(output)
    BY OutputLines DEF GitHeaders
  <1>2. ASSUME NEW n \in Own(h) PROVE Breaks \intersect h + 1..n = {}
    <2> SUFFICES ASSUME NEW k \in Breaks, k \in h + 1..n PROVE FALSE
      OBVIOUS
    <2>1. k \in Own(h)
      BY <1>1, <1>2 DEF Own, GitHeaders
    <2>2. ~output[k].tail
      BY <2>1 DEF Posing, OwnOf, Breaks, Kinds
    <2>3. k \in GitHeaders
      BY <1>1, <2>2 DEF Breaks, IsOutput, GitHeaders
    <2>4. QED
      BY <1>2, <2>3 DEF Own
  <1>3. Section(h) = Own(h)
    BY <1>2 DEF Section, Own, GitHeaders, Breaks
  <1>4. QED
    BY <1>3 DEF OfKind, OwnOf

\* The LLM is asked about a file with lines of one change only, and with all
\* the text git printed for it, in order and up to the limit, unless a tail of
\* it poses as more than text.
THEOREM OwnTextIsAskedAbout == Spec => []BatchesHoldOwnText
  <1>1. IInv /\ Owned => BatchesHoldOwnText
    <2> SUFFICES ASSUME IInv, Owned, pc = "done",
                        NEW b \in DOMAIN batches, NEW n \in DOMAIN batches[b]
                 PROVE  LET f == batches[b][n]
                        IN  /\ \E h \in GitHeaders :
                                 {f.at} \union (Range(f.text) \ {0}) \subseteq {h} \union Own(h)
                            /\ f.at \in GitHeaders /\ Posing(f.at, Kinds \ {"text"}) = {}
                                 => HasText(f, OwnOf(f.at, {"text"}))
      BY DEF BatchesHoldOwnText
    <2> DEFINE f == batches[b][n]
    <2>1. HasReadText(f) /\ f.at \in Headers /\ output \in Outputs
      <3>1. f.at \in AllAts(batches)
        BY DEF AllAts, Ats
      <3>2. QED
        BY <3>1 DEF IInv, Finished, Reviewed, Named
    <2> HIDE DEF f
    <2>2. f.at \in DOMAIN output /\ DOMAIN output = 1..Len(output) /\ Len(output) \in Nat
      BY <2>1, OutputLines DEF Headers
    <2>3. PICK h \in GitHeaders : f.at \in {h} \union Own(h)
      BY <2>2 DEF Owned
    <2>4. Section(f.at) \subseteq Own(h)
      <3> SUFFICES ASSUME NEW k \in Section(f.at) PROVE k \in Own(h)
        OBVIOUS
      <3>1. h \in Nat /\ h <= f.at /\ GitHeaders \intersect h + 1..f.at = {}
        BY <2>2, <2>3 DEF GitHeaders, Own
      <3>2. k \in f.at + 1..Len(output) /\ GitHeaders \intersect f.at + 1..k = {}
        BY DEF Section, GitHeaders, Breaks
      <3>3. GitHeaders \intersect h + 1..k = {}
        BY <2>2, <3>1, <3>2
      <3>4. QED
        BY <2>2, <3>1, <3>2, <3>3 DEF Own
    <2>5. {f.at} \union (Range(f.text) \ {0}) \subseteq {h} \union Own(h)
      BY <2>1, <2>3, <2>4 DEF HasReadText, OfKind
    <2>6. f.at \in GitHeaders /\ Posing(f.at, Kinds \ {"text"}) = {}
            => HasText(f, OwnOf(f.at, {"text"}))
      BY <2>1, SectionIsOwn DEF HasReadText
    <2>7. QED
      BY <2>5, <2>6 DEF f
  <1>2. QED
    BY FilesInvariant, OwnedInvariant, <1>1, PTL

\* A request to the LLM is never empty, over both limits or a mix of large
\* files and others, whatever the limits are.
THEOREM BatchesKeepLimits == Spec => []BatchLimits
  <1>1. IInv => BatchLimits
    <2> SUFFICES ASSUME IInv PROVE BatchLimits
      OBVIOUS
    <2>1. CASE pc = "done"
      BY <2>1 DEF IInv, Finished
    <2>2. CASE pc = "fill"
      <3> SUFFICES ASSUME NEW b \in DOMAIN batches
                   PROVE  /\ Len(batches[b]) \in 1..BatchFiles
                          /\ LinesOf(batches[b]) <= BatchLines
                          /\ \A n \in DOMAIN batches[b] : LineCount(batches[b][n].text) < SmallBelow
        BY DEF BatchLimits
      <3>1. Fits(batches[b]) /\ batches[b] # <<>>
        BY <2>2, PendingBatches DEF IInv, Filling
      <3>2. batches \in Seq(Seq(Files))
        BY DEF IInv, TypeOK
      <3>3. batches[b] \in Seq(Files)
        BY <3>2, LenProperties, ElementOfSeq
      <3>4. Len(batches[b]) \in Nat \ {0}
        BY <3>1, <3>3, EmptySeq
      <3>5. QED
        BY <3>1, <3>4, LimitsAssumption DEF Fits
    <2>3. CASE pc \in {"parse", "cut", "sort"}
      BY <2>3 DEF IInv, Unused, BatchLimits
    <2>4. QED
      BY <2>1, <2>2, <2>3 DEF IInv, TypeOK
  <1>2. QED
    BY FilesInvariant, <1>1, PTL
=============================================================================
