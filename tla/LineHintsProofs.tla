--------------------------- MODULE LineHintsProofs ---------------------------
(***************************************************************************)
(* What TLAPS proves of LineHints, for any set of diffs and any hints.     *)
(*                                                                         *)
(* A comment is on its line: the counter of the loop is the line number of *)
(* the piece it is at (IInv).                                              *)
(*                                                                         *)
(* A quoted line is found: what _verify_line_hint makes of a text keeps    *)
(* its parts as parts, so a hint that is a piece of the diff passes it     *)
(* (VerbatimIsVerified), and the loop stops at that piece at the latest    *)
(* (Searched).  The lemmas about Joined and FlattenSeq, which go through a *)
(* text, are by induction in the form of a least counterexample.           *)
(***************************************************************************)
EXTENDS LineHints, FiniteSetTheorems, SequenceTheorems, TLAPS

\* The pieces of a hunk that count as lines, between its header and n.
Lines(h, n) == {m \in h + 1..n - 1 : Candidate(m) /\ diff[m].real}

\* target_line is right for the piece the loop is at, and line for the one
\* it stopped at.
Right(count) == \A h \in DOMAIN diff :
  HunkOf(next, h) => count = LineOf(h, next) \/ Split(h, next)

IInv ==
  /\ diff \in Diffs
  /\ TypeOK
  /\ pc = "verify" => next = 1
  /\ pc = "scan" => Right(target)
  /\ pc = "inline" => next \in DOMAIN diff /\ Right(line)

\* The lines of a hunk are finitely many.
LEMMA LinesAreFinite ==
  ASSUME NEW h \in Int, NEW n \in Int
  PROVE  IsFiniteSet(Lines(h, n)) /\ Cardinality(Lines(h, n)) \in Nat
  <1>1. IsFiniteSet(h + 1..n - 1)
    BY FS_Interval
  <1>2. Lines(h, n) \subseteq h + 1..n - 1
    BY DEF Lines
  <1>3. IsFiniteSet(Lines(h, n))
    BY <1>1, <1>2, FS_Subset
  <1>4. QED
    BY <1>3, FS_CardinalityType

\* A piece that counts makes one line more.
LEMMA OneLineMore ==
  ASSUME NEW h \in Int, NEW n \in Int, h < n, Candidate(n), diff[n].real
  PROVE  Cardinality(Lines(h, n + 1)) = Cardinality(Lines(h, n)) + 1
  <1>1. Lines(h, n + 1) = Lines(h, n) \union {n}
    BY DEF Lines
  <1>2. n \notin Lines(h, n)
    BY DEF Lines
  <1>3. QED
    BY <1>1, <1>2, LinesAreFinite, FS_AddElement

\* Any other piece makes none.
LEMMA NoLineMore ==
  ASSUME NEW h \in Int, NEW n \in Int, ~Candidate(n)
  PROVE  Lines(h, n + 1) = Lines(h, n)
  BY DEF Lines

\* A search that has not begun.
LEMMA InitIInv == Init => IInv
  <1> SUFFICES ASSUME Init PROVE IInv
    OBVIOUS
  <1>1. IsDiff(diff) /\ Len(diff) \in Nat
    BY DiffsAssumption DEF Init
  <1>2. QED
    BY <1>1 DEF Init, IInv, TypeOK

\* Passing over the piece next, which is no header, keeps the count right.
LEMMA CountStaysRight ==
  ASSUME IInv, pc = "scan", next \in DOMAIN diff, diff[next].mark # "@",
         UNCHANGED diff, next' = next + 1,
         target' = IF Candidate(next) THEN target + 1 ELSE target
  PROVE  Right(target)'
  <1> SUFFICES ASSUME NEW h \in DOMAIN diff, HunkOf(next + 1, h), ~Split(h, next + 1)
               PROVE  target' = diff[h].start + Cardinality(Lines(h, next + 1))
    BY DEF Right, HunkOf, Split, LineOf, Lines, Candidate
  <1>1. next \in Int /\ h \in Int /\ diff[h].start \in Nat /\ target \in Nat
    BY DiffsAssumption DEF IInv, TypeOK, IsDiff, IsPiece
  <1>2. h # next
    BY DEF HunkOf
  <1>3. h < next /\ HunkOf(next, h) /\ ~Split(h, next)
    BY <1>1, <1>2 DEF HunkOf, Split
  <1>4. target = diff[h].start + Cardinality(Lines(h, next))
    BY <1>3 DEF IInv, Right, LineOf, Lines
  <1>5. CASE Candidate(next)
    <2>1. diff[next].real
      BY <1>1, <1>3, <1>5 DEF Split
    <2>2. Cardinality(Lines(h, next + 1)) = Cardinality(Lines(h, next)) + 1
      BY <1>1, <1>3, <1>5, <2>1, OneLineMore
    <2>3. target' = target + 1
      BY <1>5
    <2>4. Cardinality(Lines(h, next)) \in Nat
      BY <1>1, LinesAreFinite
    <2>5. QED
      BY <1>1, <1>4, <2>2, <2>3, <2>4
  <1>6. CASE ~Candidate(next)
    BY <1>1, <1>4, <1>6, NoLineMore
  <1>7. QED
    BY <1>5, <1>6

\* A hunk header sets the count to the number of the line that follows it.
LEMMA HeaderSetsCount ==
  ASSUME IInv, next \in DOMAIN diff, diff[next].mark = "@",
         UNCHANGED diff, next' = next + 1, target' = diff[next].start
  PROVE  Right(target)'
  <1>1. next \in Int /\ diff[next].start \in Nat
    BY DEF IInv, TypeOK, IsDiff, IsPiece
  <1>2. ASSUME NEW h \in DOMAIN diff, HunkOf(next + 1, h)
        PROVE  target' = diff[h].start + Cardinality(Lines(h, next + 1))
    <2>1. h = next
      BY <1>1, <1>2 DEF HunkOf
    <2>2. Lines(h, next + 1) = {}
      BY <1>1, <2>1 DEF Lines
    <2>3. QED
      BY <1>1, <2>1, <2>2, FS_EmptySet
  <1>3. QED
    BY <1>2 DEF Right, HunkOf, Split, LineOf, Lines, Candidate

\* Every step of the loop keeps the count right.
LEMMA NextIInv == IInv /\ [Next]_vars => IInv'
  <1> SUFFICES ASSUME IInv, [Next]_vars PROVE IInv'
    OBVIOUS
  <1>1. diff \in Diffs /\ IsDiff(diff) /\ Len(diff) \in Nat /\ DOMAIN diff = 1..Len(diff)
    BY DiffsAssumption DEF IInv
  <1>2. diff' = diff /\ hint' = hint
    BY DEF Next, vars, Verify, ReadHeader, PlaceComment, CountLine, PassOver, NotFound
  <1>3. \A n \in DOMAIN diff : diff[n].start \in Nat
    BY <1>1 DEF IsDiff, IsPiece
  <1>4. TypeOK'
    <2> USE <1>1, <1>2, <1>3 DEF IInv, TypeOK, Scanning
    <2>1. IsDiff(diff)'
      BY DEF IsDiff
    <2>2. CASE Verify
      BY <2>1, <2>2 DEF Verify
    <2>3. CASE ReadHeader
      BY <2>1, <2>3 DEF ReadHeader
    <2>4. CASE PlaceComment
      BY <2>1, <2>4 DEF PlaceComment
    <2>5. CASE CountLine
      BY <2>1, <2>5 DEF CountLine
    <2>6. CASE PassOver
      BY <2>1, <2>6 DEF PassOver
    <2>7. CASE NotFound
      BY <2>1, <2>7 DEF NotFound
    <2>8. CASE UNCHANGED vars
      BY <2>1, <2>8 DEF vars
    <2>9. QED
      BY <2>2, <2>3, <2>4, <2>5, <2>6, <2>7, <2>8 DEF Next
  <1>5. CASE Verify
    <2>1. next' = 1 /\ pc' # "verify" /\ pc' # "inline"
      BY <1>5 DEF Verify, IInv
    <2>2. Right(target)'
      BY <2>1 DEF Right, HunkOf
    <2>3. QED
      BY <1>1, <1>2, <1>4, <2>1, <2>2 DEF IInv
  <1>6. CASE ReadHeader
    <2>1. Right(target)'
      BY <1>1, <1>2, <1>6, HeaderSetsCount DEF ReadHeader, Scanning, IInv, TypeOK
    <2>2. QED
      BY <1>1, <1>2, <1>4, <1>6, <2>1 DEF ReadHeader, Scanning, IInv
  <1>7. CASE PlaceComment
    <2>1. Right(line)'
      BY <1>2, <1>7 DEF PlaceComment, Scanning, IInv, Right, HunkOf, Split, LineOf, Candidate
    <2>2. next' \in DOMAIN diff'
      BY <1>1, <1>2, <1>7 DEF PlaceComment, Scanning, IInv, TypeOK
    <2>3. pc' = "inline"
      BY <1>7 DEF PlaceComment
    <2>4. QED
      BY <1>1, <1>2, <1>4, <2>1, <2>2, <2>3 DEF IInv
  <1>8. ASSUME CountLine \/ PassOver PROVE IInv'
    <2>1. /\ pc = "scan" /\ pc' = "scan" /\ next' = next + 1 /\ next \in DOMAIN diff
          /\ diff[next].mark # "@"
          /\ target' = IF Candidate(next) THEN target + 1 ELSE target
      <3>1. pc = "scan" /\ next <= Len(diff)
        BY <1>8 DEF CountLine, PassOver, Scanning
      <3>2. next \in DOMAIN diff
        BY <1>1, <3>1 DEF IInv, TypeOK
      <3>3. CASE CountLine
        BY <3>1, <3>2, <3>3 DEF CountLine, Candidate, Blank
      <3>4. CASE PassOver
        BY <3>1, <3>2, <3>4 DEF PassOver
      <3>5. QED
        BY <1>8, <3>3, <3>4
    <2>2. Right(target)'
      BY <1>2, <2>1, CountStaysRight
    <2>3. QED
      BY <1>1, <1>2, <1>4, <2>1, <2>2 DEF IInv
  <1>9. CASE NotFound
    BY <1>1, <1>2, <1>4, <1>9 DEF NotFound, IInv
  <1>10. CASE UNCHANGED vars
    BY <1>4, <1>10 DEF vars, IInv, Right, HunkOf, Split, LineOf, Candidate
  <1>11. QED
    BY <1>5, <1>6, <1>7, <1>8, <1>9, <1>10 DEF Next

\* Every variable of the search keeps its type: in particular the loop stays
\* within the diff, and no line number is negative.
THEOREM HintTypeCorrect == Spec => []TypeOK
  <1>1. IInv => TypeOK
    BY DEF IInv
  <1>2. QED
    BY InitIInv, NextIInv, <1>1, PTL DEF Spec

\* _map_hint_to_line returns the number in the new file of the line it
\* stopped at, whatever the diff: hunk headers, removed lines and lines of
\* other headers in any order.
THEOREM CommentsAreOnTheirLine == Spec => []CommentLineIsReal
  <1>1. IInv => CommentLineIsReal
    BY DEF IInv, Right, CommentLineIsReal
  <1>2. QED
    BY InitIInv, NextIInv, <1>1, PTL DEF Spec

-----------------------------------------------------------------------------
(* Induction, and the functions that are defined by recursion. *)

\* A set of numbers that is not empty has a least one.
LEMMA LeastNumber ==
  ASSUME NEW T, T \subseteq Nat, T # {}
  PROVE  \E n \in T : \A m \in T : n <= m
  <1> DEFINE R == {ss \in Nat \X Nat : ss[1] < ss[2]}
  <1>1. IsWellFoundedOn(R, Nat)
    BY NatLessThanWellFounded DEF OpToRel
  <1>2. \A n \in Nat, m \in Nat : m < n => <<m, n>> \in R
    OBVIOUS
  <1> HIDE DEF R
  <1>3. PICK n \in T : \A m \in T : ~(<<m, n>> \in R)
    BY <1>1, WFMin
  <1>4. ASSUME NEW m \in T PROVE n <= m
    <2>1. n \in Nat /\ m \in Nat
      OBVIOUS
    <2>2. ~(m < n)
      BY <1>2, <1>3, <2>1
    <2>3. QED
      BY <2>1, <2>2
  <1>5. QED
    BY <1>4

\* Induction over 0..N: a set that holds 0 and, with a number below N, the
\* next one, holds them all.
LEMMA UpToInduction ==
  ASSUME NEW T, NEW N \in Nat, 0 \in T,
         \A n \in 0..N-1 : n \in T => n + 1 \in T
  PROVE  0..N \subseteq T
  <1> SUFFICES ASSUME ~(0..N \subseteq T) PROVE FALSE
    OBVIOUS
  <1> DEFINE U == {n \in 0..N : n \notin T}
  <1>1. U \subseteq Nat /\ U # {}
    OBVIOUS
  <1> HIDE DEF U
  <1>2. PICK n \in U : \A m \in U : n <= m
    BY <1>1, LeastNumber
  <1>3. n \in 0..N /\ n # 0 /\ n \notin T
    BY <1>2 DEF U
  <1>4. n - 1 \in 0..N-1 /\ ~(n <= n-1)
    BY <1>3
  <1>5. n - 1 \in T
    BY <1>2, <1>4 DEF U
  <1>6. QED
    BY <1>3, <1>4, <1>5

\* f is defined by recursion: it begins with base and goes on by step.
Recursion(f, N, base, step) ==
  f[0] = base /\ \A n \in 1..N : f[n] = step[n][f[n - 1]]

\* There is a function that a recursion over 0..N describes.  What TLA+ makes
\* of f[n \in 0..N] == ... is a CHOOSE that means nothing without this.
LEMMA RecursionIsDefined ==
  ASSUME NEW V, NEW N \in Nat, NEW base \in V, NEW step,
         \A n \in 1..N, v \in V : step[n][v] \in V
  PROVE  \E f \in [0..N -> V] : Recursion(f, N, base, step)
  <1> DEFINE Good(f, k) == f[0] = base /\ \A n \in 1..k : f[n] = step[n][f[n - 1]]
             T == {k \in 0..N : \E f \in [0..k -> V] : Good(f, k)}
  <1>1. 0 \in T
    <2>1. Good([n \in 0..0 |-> base], 0)
      OBVIOUS
    <2>2. [n \in 0..0 |-> base] \in [0..0 -> V] /\ 0 \in 0..N
      OBVIOUS
    <2> HIDE DEF Good
    <2>3. QED
      BY <2>1, <2>2
  <1>2. ASSUME NEW k \in 0..N - 1, k \in T PROVE k + 1 \in T
    <2>1. PICK f \in [0..k -> V] : Good(f, k)
      BY <1>2
    <2> DEFINE g == [n \in 0..k + 1 |-> IF n <= k THEN f[n] ELSE step[k + 1][f[k]]]
    <2>2. f[k] \in V /\ step[k + 1][f[k]] \in V
      OBVIOUS
    <2>3. g \in [0..k + 1 -> V]
      BY <2>2
    <2>4. \A n \in 0..k : g[n] = f[n]
      OBVIOUS
    <2>5. g[k + 1] = step[k + 1][f[k]]
      OBVIOUS
    <2> HIDE DEF g
    <2>6. Good(g, k + 1)
      <3>1. g[0] = base
        BY <2>1, <2>4
      <3>2. ASSUME NEW n \in 1..k + 1 PROVE g[n] = step[n][g[n - 1]]
        <4>1. CASE n = k + 1
          BY <2>4, <2>5, <4>1
        <4>2. CASE n # k + 1
          BY <2>1, <2>4, <4>2
        <4>3. QED
          BY <4>1, <4>2
      <3>3. QED
        BY <3>1, <3>2
    <2>7. QED
      BY <2>3, <2>6
  <1> HIDE DEF T
  <1>3. 0..N \subseteq T
    BY <1>1, <1>2, UpToInduction
  <1>4. QED
    BY <1>3 DEF T, Recursion

\* Joined is what its equation says: the loop of str.split and str.join, one
\* character after the other.
LEMMA JoinedFacts ==
  ASSUME NEW S, NEW t \in Seq(S)
  PROVE  /\ Joined(t) \in [0..Len(t) -> Seq(S)]
         /\ Joined(t)[0] = <<>>
         /\ \A n \in 1..Len(t) : Joined(t)[n] =
              IF t[n] = Blank /\ (Joined(t)[n - 1] = <<>> \/ Last(Joined(t)[n - 1]) = Blank)
              THEN Joined(t)[n - 1] ELSE Append(Joined(t)[n - 1], t[n])
  <1> DEFINE After(n, out) == IF t[n] = Blank /\ (out = <<>> \/ Last(out) = Blank) THEN out ELSE Append(out, t[n])
             step == [n \in 1..Len(t) |-> [out \in Seq(S) |-> After(n, out)]]
             Eq(g) == g = [n \in 0..Len(t) |-> IF n = 0 THEN <<>> ELSE After(n, g[n - 1])]
  <1>1. \A n \in 1..Len(t), out \in Seq(S) : After(n, out) \in Seq(S)
    OBVIOUS
  <1>2. \A n \in 1..Len(t), out \in Seq(S) : step[n][out] = After(n, out)
    OBVIOUS
  <1>3. Joined(t) = CHOOSE g : Eq(g)
    BY DEF Joined
  <1>0. Len(t) \in Nat /\ <<>> \in Seq(S)
    OBVIOUS
  <1> HIDE DEF After, step
  <1>4. PICK f \in [0..Len(t) -> Seq(S)] :
           f[0] = <<>> /\ \A n \in 1..Len(t) : f[n] = step[n][f[n - 1]]
    <2>1. \A n \in 1..Len(t), v \in Seq(S) : step[n][v] \in Seq(S)
      BY <1>1, <1>2
    <2> DEFINE V == Seq(S)
               N == Len(t)
               base == <<>>
    <2>2. N \in Nat /\ base \in V /\ \A n \in 1..N, v \in V : step[n][v] \in V
      BY <1>0, <2>1
    <2> HIDE DEF V, N, base
    <2>3. \E f \in [0..N -> V] : Recursion(f, N, base, step)
      BY <2>2, RecursionIsDefined
    <2>4. QED
      BY <2>3 DEF V, N, base, Recursion
  <1>5. Eq(f)
    <2>1. \A n \in 0..Len(t) : f[n] = IF n = 0 THEN <<>> ELSE After(n, f[n - 1])
      BY <1>0, <1>2, <1>4
    <2>2. QED
      BY <2>1, <1>4
  <1>6. Eq(Joined(t))
    <2> HIDE DEF Eq
    <2>1. QED
      BY <1>3, <1>5
  <1> DEFINE j == Joined(t)
  <1>7. j = [n \in 0..Len(t) |-> IF n = 0 THEN <<>> ELSE After(n, j[n - 1])]
    BY <1>6
  <1> HIDE DEF j, Eq
  <1>8. j[0] = <<>> /\ \A n \in 1..Len(t) : j[n] = After(n, j[n - 1])
    BY <1>7, <1>0
  <1> DEFINE T == {n \in 0..Len(t) : j[n] \in Seq(S)}
  <1>9. 0 \in T
    <2>1. 0 \in 0..Len(t)
      BY <1>0
    <2>2. QED
      BY <1>8, <1>0, <2>1
  <1>10. \A n \in 0..Len(t) - 1 : n \in T => n + 1 \in T
    BY <1>8, <1>0, <1>1
  <1>11. 0..Len(t) \subseteq T
    <2> HIDE DEF T
    <2>1. QED
      BY <1>9, <1>10, <1>0, UpToInduction
  <1>12. j \in [0..Len(t) -> Seq(S)]
    BY <1>7, <1>11
  <1>13. QED
    BY <1>8, <1>12 DEF j, After

\* FlattenSeq is what concatenating one sequence after the other ends with.
LEMMA FlattenFacts ==
  ASSUME NEW S, NEW seqs \in Seq(Seq(S)), seqs # <<>>
  PROVE  \E f \in [1..Len(seqs) -> Seq(S)] :
           /\ \A n \in 2..Len(seqs) : f[n] = f[n - 1] \o seqs[n]
           /\ f[1] = seqs[1]
           /\ FlattenSeq(seqs) = f[Len(seqs)]
  <1> DEFINE N == Len(seqs)
             V == Seq(S)
             base == <<>>
             Cat(n, out) == out \o seqs[n]
             step == [n \in 1..N |-> [out \in V |-> Cat(n, out)]]
             Eq(g) == g = [n \in 1..N |-> IF n = 1 THEN seqs[n] ELSE Cat(n, g[n - 1])]
  <1>1. N \in Nat /\ N > 0 /\ Len(seqs) # 0 /\ base \in V /\ \A n \in 1..N : seqs[n] \in V
    OBVIOUS
  <1>2. ASSUME NEW n \in 1..N, NEW out \in V PROVE Cat(n, out) \in V
    <2> DEFINE q == seqs[n]
    <2>1. q \in V /\ out \in V
      BY <1>1
    <2> HIDE DEF q
    <2>2. out \o q \in V
      BY <2>1
    <2>3. QED
      BY <2>2 DEF q
  <1>3. Cat(1, base) = seqs[1]
    <2> DEFINE q == seqs[1]
    <2>1. q \in Seq(S)
      BY <1>1
    <2> HIDE DEF q
    <2>2. <<>> \o q = q
      BY <2>1
    <2>3. QED
      BY <2>2 DEF q
  <1>4. FlattenSeq(seqs) = (CHOOSE g : Eq(g))[N]
    BY <1>1, Zenon DEF FlattenSeq
  <1> HIDE DEF N, V, base, Cat, Eq
  <1>20. \A n \in 1..N, out \in V : step[n][out] = Cat(n, out) /\ step[n][out] \in V
    BY <1>2
  <1> HIDE DEF step
  <1>5. PICK r \in [0..N -> V] : Recursion(r, N, base, step)
    BY <1>1, <1>20, RecursionIsDefined
  <1> DEFINE f == [n \in 1..N |-> r[n]]
  <1>6. f \in [1..N -> V]
    BY <1>1
  <1>7. f[1] = seqs[1]
    <2>1. 1 \in 1..N /\ 1 - 1 = 0
      BY <1>1
    <2>2. r[1] = step[1][r[1 - 1]] /\ r[0] = base
      BY <1>5, <2>1 DEF Recursion
    <2>3. f[1] = step[1][base]
      BY <2>1, <2>2
    <2>4. QED
      BY <1>1, <1>3, <1>20, <2>1, <2>3
  <1>8. ASSUME NEW n \in 2..N PROVE f[n] = Cat(n, f[n - 1])
    <2>1. n \in 1..N /\ n - 1 \in 1..N /\ n - 1 \in 0..N
      BY <1>1
    <2>2. r[n] = step[n][r[n - 1]] /\ r[n - 1] \in V
      BY <1>5, <2>1 DEF Recursion
    <2>3. r[n] = Cat(n, r[n - 1])
      BY <1>20, <2>1, <2>2
    <2>4. QED
      BY <2>1, <2>3
  <1> HIDE DEF f
  <1>9. Eq(f)
    <2>1. \A n \in 1..N : f[n] = IF n = 1 THEN seqs[n] ELSE Cat(n, f[n - 1])
      BY <1>1, <1>7, <1>8
    <2>2. QED
      BY <1>6, <2>1 DEF Eq
  <1>10. PICK g : Eq(g) /\ g = CHOOSE h : Eq(h)
    BY <1>9
  <1>11. \A n \in 1..N : g[n] = IF n = 1 THEN seqs[n] ELSE Cat(n, g[n - 1])
    BY <1>1, <1>10 DEF Eq
  <1>12. FlattenSeq(seqs) = g[N]
    BY <1>4, <1>10
  <1> DEFINE T == {n \in 0..N : n > 0 => g[n] = f[n]}
  <1>13. 0 \in T
    BY <1>1
  <1>14. ASSUME NEW n \in 0..N - 1, n \in T PROVE n + 1 \in T
    <2>1. n + 1 \in 1..N /\ n + 1 - 1 = n
      BY <1>1
    <2>2. CASE n = 0
      BY <1>7, <1>11, <2>1, <2>2
    <2>3. CASE n # 0
      BY <1>8, <1>11, <1>14, <2>1, <2>3
    <2>4. QED
      BY <2>2, <2>3
  <1>15. N \in T
    <2> HIDE DEF T
    <2>1. 0..N \subseteq T
      BY <1>1, <1>13, <1>14, UpToInduction
    <2>2. QED
      BY <1>1, <2>1
  <1>16. FlattenSeq(seqs) = f[N]
    BY <1>1, <1>12, <1>15
  <1>17. QED
    BY <1>6, <1>7, <1>8, <1>16, Zenon DEF N, V, Cat

\* s stands in u, after the first a characters.
Part(s, u, a) ==
  a + Len(s) <= Len(u) /\ \A i \in 1..Len(s) : u[a + i] = s[i]

\* What stands in p stands in p \o q.
LEMMA PartsAfterConcat ==
  ASSUME NEW S, NEW s \in Seq(S), NEW p \in Seq(S), NEW q \in Seq(S), NEW a \in Nat, Part(s, p, a)
  PROVE  Part(s, p \o q, a)
  <1>1. Len(p \o q) = Len(p) + Len(q) /\ \A i \in 1..Len(p) : (p \o q)[i] = p[i]
    OBVIOUS
  <1>2. a + Len(s) <= Len(p \o q)
    BY <1>1 DEF Part
  <1>3. ASSUME NEW i \in 1..Len(s) PROVE (p \o q)[a + i] = s[i]
    <2>1. a + i \in 1..Len(p)
      BY DEF Part
    <2>2. QED
      BY <1>1, <2>1 DEF Part
  <1>4. QED
    BY <1>2, <1>3 DEF Part

\* What stands in a part stands in the whole.
LEMMA PartOfPart ==
  ASSUME NEW S, NEW s \in Seq(S), NEW t \in Seq(S), NEW u \in Seq(S),
         NEW a \in Nat, NEW b \in Nat, Part(t, u, a), Part(s, t, b)
  PROVE  Part(s, u, a + b)
  <1>1. Len(s) \in Nat /\ Len(t) \in Nat /\ Len(u) \in Nat /\ b + Len(s) <= Len(t) /\ a + Len(t) <= Len(u)
    BY DEF Part
  <1>2. ASSUME NEW i \in 1..Len(s) PROVE u[a + b + i] = s[i]
    <2>1. b + i \in 1..Len(t) /\ a + (b + i) = a + b + i
      BY <1>1
    <2>2. u[a + (b + i)] = t[b + i] /\ t[b + i] = s[i]
      BY <2>1 DEF Part
    <2>3. QED
      BY <2>1, <2>2
  <1>3. QED
    BY <1>1, <1>2 DEF Part

\* q stands in p \o q, after p.
LEMMA ConcatEndsInPart ==
  ASSUME NEW S, NEW p \in Seq(S), NEW q \in Seq(S)
  PROVE  Part(q, p \o q, Len(p))
  BY DEF Part

\* Each of the sequences stands somewhere in all of them in a row.
LEMMA PiecesArePartsOfAll ==
  ASSUME NEW S, NEW seqs \in Seq(Seq(S)), NEW n \in 1..Len(seqs)
  PROVE  /\ FlattenSeq(seqs) \in Seq(S)
         /\ \E a \in Nat : Part(seqs[n], FlattenSeq(seqs), a)
  <1>0. seqs # <<>>
    OBVIOUS
  <1>1. PICK f \in [1..Len(seqs) -> Seq(S)] :
           /\ \A m \in 2..Len(seqs) : f[m] = f[m - 1] \o seqs[m]
           /\ f[1] = seqs[1]
           /\ FlattenSeq(seqs) = f[Len(seqs)]
    BY <1>0, FlattenFacts, Zenon
  <1> DEFINE N == Len(seqs)
             V == Seq(S)
             s == seqs[n]
             Cat(p, m) == p \o seqs[m]
  <1>2. N \in Nat /\ n \in 1..N /\ s \in V /\ \A m \in 1..N : seqs[m] \in V
    OBVIOUS
  <1>3. \A m \in 1..N : f[m] \in V
    OBVIOUS
  <1>4. \A m \in 2..N : f[m] = Cat(f[m - 1], m)
    BY <1>1, Zenon
  <1>5. ASSUME NEW p \in V, NEW a \in Nat, Part(s, p, a), NEW m \in 1..N
        PROVE  Part(s, Cat(p, m), a)
    <2> DEFINE q == seqs[m]
    <2>1. q \in Seq(S) /\ s \in Seq(S) /\ p \in Seq(S)
      BY <1>2
    <2> HIDE DEF q, s
    <2>2. Part(s, p \o q, a)
      BY <1>5, <2>1, PartsAfterConcat
    <2>3. QED
      BY <2>2 DEF q
  <1>6. ASSUME NEW p \in V PROVE Part(s, Cat(p, n), Len(p)) /\ Len(p) \in Nat
    <2>1. s \in Seq(S) /\ p \in Seq(S)
      BY <1>2
    <2>2. Part(s, p \o s, Len(p))
      <3> HIDE DEF s
      <3>1. QED
        BY <2>1, ConcatEndsInPart
    <2>3. QED
      BY <2>1, <2>2
  <1> HIDE DEF N, V, s, Cat
  <1>7. PICK a \in Nat : Part(s, f[n], a)
    <2>1. CASE n = 1
      <3>1. Part(s, f[n], 0)
        <4>1. f[n] = s /\ Len(s) \in Nat
          BY <1>1, <2>1, <1>2 DEF s, V
        <4>2. Part(s, s, 0)
          BY <4>1 DEF Part
        <4>3. QED
          BY <4>1, <4>2
      <3>2. QED
        BY <3>1
    <2>2. CASE n # 1
      <3>1. n \in 2..N /\ n - 1 \in 1..N
        BY <1>2, <2>2
      <3>2. f[n] = Cat(f[n - 1], n) /\ f[n - 1] \in V
        BY <1>3, <1>4, <3>1
      <3>3. QED
        BY <1>6, <3>2
    <2>3. QED
      BY <2>1, <2>2
  <1> DEFINE T == {m \in 0..N - n : Part(s, f[n + m], a)}
  <1>8. 0 \in T
    BY <1>2, <1>7
  <1>9. ASSUME NEW m \in 0..N - n - 1, m \in T PROVE m + 1 \in T
    <2>1. /\ n + m \in 1..N /\ n + (m + 1) \in 2..N /\ n + (m + 1) \in 1..N
          /\ n + (m + 1) - 1 = n + m /\ m + 1 \in 0..N - n
      BY <1>2
    <2>2. f[n + (m + 1)] = Cat(f[n + m], n + (m + 1)) /\ f[n + m] \in V
      BY <1>3, <1>4, <2>1
    <2>3. Part(s, f[n + m], a)
      BY <1>9
    <2>4. QED
      BY <1>5, <2>1, <2>2, <2>3
  <1>10. Part(s, f[N], a)
    <2>1. N - n \in Nat /\ n + (N - n) = N
      BY <1>2
    <2>2. 0..N - n \subseteq T
      <3> HIDE DEF T
      <3>1. QED
        BY <1>8, <1>9, <2>1, UpToInduction
    <2>3. N - n \in T
      <3> HIDE DEF T
      <3>1. N - n \in 0..N - n
        BY <2>1
      <3>2. QED
        BY <2>2, <3>1
    <2>4. Part(s, f[n + (N - n)], a)
      BY <2>3
    <2>5. QED
      BY <2>1, <2>4
  <1>11. N \in 1..N
    BY <1>2
  <1>12. QED
    BY <1>1, <1>3, <1>10, <1>11 DEF N, V, s

\* p is how u ends.
Ends(p, u) ==
  Len(p) <= Len(u) /\ \A i \in 1..Len(p) : u[Len(u) - Len(p) + i] = p[i]

\* p is how u begins.
Begins(p, u) ==
  Len(p) <= Len(u) /\ \A i \in 1..Len(p) : u[i] = p[i]

\* Appending leaves what is there where it is.
LEMMA AppendFacts ==
  ASSUME NEW S, NEW p \in Seq(S), NEW c \in S
  PROVE  /\ Append(p, c) \in Seq(S)
         /\ Len(Append(p, c)) = Len(p) + 1
         /\ \A i \in 1..Len(p) : Append(p, c)[i] = p[i]
         /\ Append(p, c)[Len(p) + 1] = c
         /\ Len(p) \in Nat
  OBVIOUS

\* The last element, and the length of a sequence that has none.
LEMMA LastIsAtEnd ==
  ASSUME NEW S, NEW p \in Seq(S)
  PROVE  Last(p) = p[Len(p)] /\ Len(p) \in Nat /\ (p = <<>> <=> Len(p) = 0)
  BY DEF Last

\* Joining a part of a text gives how the joined text up to there ends: they
\* differ in what stands before the part, and a blank the part begins with.
LEMMA JoinedPart ==
  ASSUME NEW S, NEW s \in Seq(S), NEW u \in Seq(S), NEW a \in Nat, Part(s, u, a)
  PROVE  Ends(Joined(s)[Len(s)], Joined(u)[a + Len(s)])
  <1> DEFINE p(k) == Joined(s)[k]
             q(k) == Joined(u)[a + k]
             N == Len(s)
             T == {k \in 0..N : Ends(p(k), q(k))}
  <1>1. N \in Nat /\ a + N <= Len(u) /\ Len(u) \in Nat
    BY DEF Part
  <1>2. \A k \in 0..N : a + k \in 0..Len(u)
    BY <1>1
  <1>3. \A k \in 0..N : p(k) \in Seq(S) /\ q(k) \in Seq(S)
    BY <1>2, JoinedFacts
  <1>4. p(0) = <<>>
    BY JoinedFacts
  <1> HIDE DEF p, q, T
  <1>5. 0 \in T
    <2>1. 0 \in 0..N /\ Len(p(0)) = 0 /\ Len(q(0)) \in Nat
      BY <1>1, <1>3, <1>4
    <2>2. QED
      BY <2>1 DEF T, Ends
  <1>6. ASSUME NEW k \in 0..N - 1, k \in T PROVE k + 1 \in T
    <2> DEFINE c == s[k + 1]
               Blanks(out) == c = Blank /\ (out = <<>> \/ Last(out) = Blank)
    <2>1. k \in 0..N /\ k + 1 \in 1..N /\ k + 1 \in 0..N /\ a + (k + 1) - 1 = a + k /\ k + 1 - 1 = k
          /\ a + (k + 1) \in 1..Len(u) /\ a + k \in 0..Len(u)
      BY <1>1
    <2>2. c \in S /\ u[a + (k + 1)] = c
      BY <2>1 DEF Part
    <2> DEFINE pp == p(k)
               qq == q(k)
    <2>3. p(k + 1) = IF Blanks(pp) THEN pp ELSE Append(pp, c)
      BY <2>1, JoinedFacts DEF p
    <2>4. q(k + 1) = IF Blanks(qq) THEN qq ELSE Append(qq, c)
      <3> DEFINE n == a + (k + 1)
                 j == Joined(u)
      <3>1. j[n] = IF u[n] = Blank /\ (j[n - 1] = <<>> \/ Last(j[n - 1]) = Blank)
                   THEN j[n - 1] ELSE Append(j[n - 1], u[n])
        BY <2>1, JoinedFacts
      <3>2. q(k + 1) = j[n] /\ qq = j[n - 1]
        BY <2>1 DEF q
      <3>3. u[n] = c
        BY <2>2
      <3> HIDE DEF n, j, c, qq
      <3>4. QED
        BY <3>1, <3>2, <3>3
    <2>5. pp \in Seq(S) /\ qq \in Seq(S) /\ Ends(pp, qq)
      BY <1>3, <1>6, <2>1 DEF T
    <2> HIDE DEF c, pp, qq
    <2>6. Len(pp) \in Nat /\ Len(qq) \in Nat
      BY <2>5
    <2>7. CASE Blanks(pp) /\ Blanks(qq)
      BY <2>1, <2>3, <2>4, <2>5, <2>7 DEF T
    <2>8. CASE ~Blanks(pp) /\ ~Blanks(qq)
      <3>1. Ends(Append(pp, c), Append(qq, c))
        <4> DEFINE x == Append(pp, c)
                   y == Append(qq, c)
        <4>1. /\ Len(x) = Len(pp) + 1 /\ Len(y) = Len(qq) + 1
              /\ \A i \in 1..Len(pp) : x[i] = pp[i]
              /\ \A i \in 1..Len(qq) : y[i] = qq[i]
              /\ x[Len(pp) + 1] = c /\ y[Len(qq) + 1] = c
          BY <2>2, <2>5, AppendFacts
        <4> HIDE DEF x, y
        <4>2. Len(x) <= Len(y) /\ Len(y) - Len(x) = Len(qq) - Len(pp)
          BY <2>5, <2>6, <4>1 DEF Ends
        <4>3. ASSUME NEW i \in 1..Len(x) PROVE y[Len(qq) - Len(pp) + i] = x[i]
          <5>1. CASE i \in 1..Len(pp)
            <6>1. Len(qq) - Len(pp) + i \in 1..Len(qq)
              BY <2>5, <2>6, <5>1 DEF Ends
            <6>2. QED
              BY <2>5, <4>1, <5>1, <6>1 DEF Ends
          <5>2. CASE i = Len(pp) + 1
            <6>1. Len(qq) - Len(pp) + i = Len(qq) + 1
              BY <2>6, <5>2
            <6>2. QED
              BY <4>1, <5>2, <6>1
          <5>3. i \in 1..Len(pp) \/ i = Len(pp) + 1
            <6>1. Len(x) = Len(pp) + 1
              BY <4>1
            <6>2. QED
              BY <2>6, <6>1
          <5>4. QED
            BY <5>1, <5>2, <5>3
        <4>4. QED
          BY <4>2, <4>3 DEF Ends, x, y
      <3>2. QED
        BY <2>1, <2>3, <2>4, <2>8, <3>1 DEF T
    <2>9. CASE Blanks(pp) /\ ~Blanks(qq)
      <3>1. pp = <<>> \/ Last(pp) = Blank
        BY <2>9
      <3>2. pp = <<>>
        <4>1. ASSUME pp # <<>> PROVE FALSE
          <5>1. Last(pp) = Last(qq) /\ qq # <<>>
            BY <2>5, <2>6, <4>1, LastIsAtEnd DEF Ends
          <5>2. QED
            BY <2>9, <3>1, <4>1, <5>1
        <4>2. QED
          BY <4>1
      <3>3. Ends(<<>>, Append(qq, c))
        BY <2>2, <2>5, AppendFacts DEF Ends
      <3>4. QED
        BY <2>1, <2>3, <2>4, <2>9, <3>2, <3>3 DEF T
    <2>10. CASE ~Blanks(pp) /\ Blanks(qq)
      <3>1. c = Blank /\ pp # <<>> /\ Last(pp) # Blank /\ (qq = <<>> \/ Last(qq) = Blank)
        BY <2>10
      <3>2. Last(pp) = Last(qq) /\ qq # <<>>
        BY <2>5, <2>6, <3>1, LastIsAtEnd DEF Ends
      <3>3. QED
        BY <3>1, <3>2
    <2>11. QED
      BY <2>7, <2>8, <2>9, <2>10
  <1>7. N \in T
    <2>1. 0..N \subseteq T
      BY <1>1, <1>5, <1>6, UpToInduction
    <2>2. QED
      BY <1>1, <2>1
  <1>8. QED
    BY <1>7 DEF T, p, q

\* A joined text begins with the joined beginning of the text.
LEMMA JoinedGrows ==
  ASSUME NEW S, NEW u \in Seq(S), NEW n \in 0..Len(u)
  PROVE  Begins(Joined(u)[n], Joined(u)[Len(u)])
  <1> DEFINE q(k) == Joined(u)[n + k]
             N == Len(u) - n
             T == {k \in 0..N : Begins(q(0), q(k))}
  <1>1. N \in Nat /\ n \in Nat /\ Len(u) \in Nat
    OBVIOUS
  <1>2. ASSUME NEW k \in 0..N PROVE q(k) \in Seq(S)
    <2>1. n + k \in 0..Len(u)
      BY <1>1
    <2>2. QED
      BY <2>1, JoinedFacts
  <1>3. ASSUME NEW k \in 0..N - 1
        PROVE  q(k + 1) = q(k) \/ \E c \in S : q(k + 1) = Append(q(k), c)
    <2>1. n + (k + 1) \in 1..Len(u) /\ n + (k + 1) - 1 = n + k
      BY <1>1
    <2>2. u[n + (k + 1)] \in S
      BY <2>1
    <2>3. \/ Joined(u)[n + (k + 1)] = Joined(u)[n + (k + 1) - 1]
          \/ Joined(u)[n + (k + 1)] = Append(Joined(u)[n + (k + 1) - 1], u[n + (k + 1)])
      <3> DEFINE d == n + (k + 1)
                 j == Joined(u)
      <3>1. d \in 1..Len(u)
        BY <2>1
      <3> HIDE DEF d
      <3>2. j[d] = IF u[d] = Blank /\ (j[d - 1] = <<>> \/ Last(j[d - 1]) = Blank)
                   THEN j[d - 1] ELSE Append(j[d - 1], u[d])
        BY <3>1, JoinedFacts
      <3> HIDE DEF j
      <3>3. j[d] = j[d - 1] \/ j[d] = Append(j[d - 1], u[d])
        BY <3>2
      <3>4. QED
        BY <3>3 DEF d, j
    <2>4. QED
      BY <2>1, <2>2, <2>3
  <1> HIDE DEF q, N, T
  <1>4. 0 \in T
    <2>1. 0 \in 0..N /\ q(0) \in Seq(S)
      BY <1>1, <1>2
    <2>2. Begins(q(0), q(0))
      BY <2>1 DEF Begins
    <2>3. QED
      BY <2>1, <2>2 DEF T
  <1>5. ASSUME NEW k \in 0..N - 1, k \in T PROVE k + 1 \in T
    <2> DEFINE p == q(0)
               r == q(k)
    <2>1. k \in 0..N /\ k + 1 \in 0..N /\ 0 \in 0..N
      BY <1>1
    <2>2. p \in Seq(S) /\ r \in Seq(S) /\ Begins(p, r)
      BY <1>2, <1>5, <2>1 DEF T
    <2>3. q(k + 1) = r \/ \E c \in S : q(k + 1) = Append(r, c)
      BY <1>3
    <2> HIDE DEF p, r
    <2>4. ASSUME NEW c \in S PROVE Begins(p, Append(r, c))
      BY <2>2, AppendFacts DEF Begins
    <2>5. Begins(p, q(k + 1))
      BY <2>2, <2>3, <2>4
    <2>6. QED
      BY <2>1, <2>5 DEF T, p
  <1>6. N \in T
    <2>1. 0..N \subseteq T
      BY <1>1, <1>4, <1>5, UpToInduction
    <2>2. QED
      BY <1>1, <2>1
  <1>7. n + 0 = n /\ n + N = Len(u)
    BY <1>1 DEF N
  <1>8. QED
    BY <1>6, <1>7 DEF T, q

\* Normalizing drops the blank a joined text may end with.
LEMMA NormalizedFacts ==
  ASSUME NEW S, NEW t \in Seq(S)
  PROVE  LET all == Joined(t)[Len(t)] IN
         /\ all \in Seq(S)
         /\ Normalized(t) \in Seq(S)
         /\ \A i \in 1..Len(Normalized(t)) : Normalized(t)[i] = all[i]
         /\ Len(Normalized(t)) = IF all # <<>> /\ Last(all) = Blank THEN Len(all) - 1 ELSE Len(all)
  <1> DEFINE all == Joined(t)[Len(t)]
  <1>1. all \in Seq(S)
    BY JoinedFacts
  <1>2. Normalized(t) = IF all # <<>> /\ Last(all) = Blank THEN Front(all) ELSE all
    BY DEF Normalized
  <1> HIDE DEF all
  <1>3. ASSUME all # <<>>
        PROVE  /\ Front(all) \in Seq(S) /\ Len(Front(all)) = Len(all) - 1
               /\ \A i \in 1..Len(all) - 1 : Front(all)[i] = all[i]
    <2>1. Len(all) \in Nat \ {0}
      BY <1>1, <1>3, LastIsAtEnd
    <2>2. /\ SubSeq(all, 1, Len(all) - 1) \in Seq(S)
          /\ Len(SubSeq(all, 1, Len(all) - 1)) = Len(all) - 1
          /\ \A i \in 1..Len(all) - 1 : SubSeq(all, 1, Len(all) - 1)[i] = all[i]
      <3> DEFINE e == Len(all) - 1
      <3>1. 1 \in Int /\ e \in Int /\ e <= Len(all) /\ e >= 0
        BY <2>1
      <3>2. SubSeq(all, 1, e) = [i \in 1..e |-> all[i]]
        BY <1>1, <2>1, <3>1
      <3>3. [i \in 1..e |-> all[i]] \in Seq(S) /\ Len([i \in 1..e |-> all[i]]) = e
        BY <1>1, <2>1, <3>1
      <3>4. QED
        BY <3>2, <3>3
    <2>5. QED
      BY <2>2 DEF Front
  <1>4. QED
    BY <1>1, <1>2, <1>3 DEF all

\* The heart of _verify_line_hint: what stands in a text verbatim is found in
\* it after both had their white space normalized, wherever it begins and ends.
LEMMA PartsAreFoundNormalized ==
  ASSUME NEW S, NEW s \in Seq(S), NEW u \in Seq(S), NEW a \in Nat, Part(s, u, a)
  PROVE  Occurs(Normalized(s), Normalized(u))
  <1> DEFINE p == Joined(s)[Len(s)]
             m == Joined(u)[a + Len(s)]
             q == Joined(u)[Len(u)]
             x == Normalized(s)
             y == Normalized(u)
  <1>1. Len(s) \in Nat /\ Len(u) \in Nat /\ a + Len(s) \in 0..Len(u)
    BY DEF Part
  <1>2. p \in Seq(S) /\ q \in Seq(S) /\ m \in Seq(S)
    <2>1. Len(s) \in 0..Len(s) /\ Len(u) \in 0..Len(u)
      BY <1>1
    <2>2. Joined(s) \in [0..Len(s) -> Seq(S)] /\ Joined(u) \in [0..Len(u) -> Seq(S)]
      BY JoinedFacts
    <2>3. QED
      BY <1>1, <2>1, <2>2
  <1>3. Ends(p, m)
    BY JoinedPart
  <1>4. Begins(m, q)
    BY <1>1, JoinedGrows
  <1>5. /\ x \in Seq(S)
        /\ \A i \in 1..Len(x) : x[i] = p[i]
        /\ Len(x) = IF p # <<>> /\ Last(p) = Blank THEN Len(p) - 1 ELSE Len(p)
    BY NormalizedFacts
  <1>6. /\ y \in Seq(S)
        /\ \A i \in 1..Len(y) : y[i] = q[i]
        /\ Len(y) = IF q # <<>> /\ Last(q) = Blank THEN Len(q) - 1 ELSE Len(q)
    BY NormalizedFacts
  <1> HIDE DEF p, m, q, x, y
  <1> DEFINE k == Len(m) - Len(p)
  <1>7. /\ Len(p) \in Nat /\ Len(m) \in Nat /\ Len(q) \in Nat /\ Len(x) \in Nat /\ Len(y) \in Nat
        /\ k \in Nat /\ k + Len(p) = Len(m) /\ Len(m) <= Len(q) /\ Len(x) <= Len(p)
    BY <1>2, <1>3, <1>4, <1>5, <1>6, LastIsAtEnd DEF Ends, Begins
  <1>8. \A i \in 1..Len(p) : q[k + i] = p[i]
    <2> SUFFICES ASSUME NEW i \in 1..Len(p) PROVE q[k + i] = p[i]
      OBVIOUS
    <2>1. m[k + i] = p[i]
      BY <1>3 DEF Ends
    <2>2. k + i \in 1..Len(m)
      BY <1>7
    <2>3. QED
      BY <1>4, <2>1, <2>2 DEF Begins
  <1> HIDE DEF k
  <1>9. ASSUME p # <<>> PROVE k + Len(x) <= Len(y)
    <2>1. CASE Len(y) = Len(q)
      BY <1>7, <2>1
    <2>2. CASE Len(y) = Len(q) - 1 /\ Len(x) = Len(p) - 1
      BY <1>7, <2>2
    <2>3. CASE Len(y) = Len(q) - 1 /\ Len(x) = Len(p) /\ Last(q) = Blank /\ ~(p # <<>> /\ Last(p) = Blank)
      <3>1. CASE k + Len(p) < Len(q)
        BY <1>7, <2>3, <3>1
      <3>2. CASE k + Len(p) = Len(q)
        <4>1. Last(q) = Last(p)
          BY <1>2, <1>7, <1>8, <1>9, <3>2, LastIsAtEnd
        <4>2. QED
          BY <2>3, <1>9, <4>1
      <3>3. QED
        BY <1>7, <3>1, <3>2
    <2>4. QED
      BY <1>5, <1>6, <1>7, <2>1, <2>2, <2>3
  <1>10. DOMAIN x = 1..Len(x)
    BY <1>5
  <1>11. CASE p # <<>>
    <2>1. k \in 0..Len(y) - Len(x)
      BY <1>7, <1>9, <1>11
    <2>2. ASSUME NEW i \in 1..Len(x) PROVE y[k + i] = x[i]
      <3>1. k + i \in 1..Len(y) /\ i \in 1..Len(p)
        BY <1>7, <1>9, <1>11
      <3>2. QED
        BY <1>5, <1>6, <1>8, <3>1
    <2>3. QED
      BY <1>10, <2>1, <2>2 DEF Occurs, x, y
  <1>12. CASE p = <<>>
    <2>1. Len(x) = 0
      BY <1>2, <1>5, <1>7, <1>12, LastIsAtEnd
    <2>2. 0 \in 0..Len(y) - Len(x) /\ \A i \in 1..Len(x) : y[0 + i] = x[i]
      BY <1>7, <2>1
    <2>3. QED
      BY <1>10, <2>2 DEF Occurs, x, y
  <1>13. QED
    BY <1>11, <1>12

-----------------------------------------------------------------------------
(* A quoted line is found. *)

\* The loop has seen no piece that matches before the one it is at; a search
\* that ended in the summary was not begun, or saw none at all.
Searched ==
  /\ pc \in {"scan", "inline"} => \A m \in 1..next - 1 : ~Matches(m)
  /\ pc = "summary" => ~(Verified /\ diff # <<>>) \/ \A m \in DOMAIN diff : ~Matches(m)

\* Every step of the loop passes over a piece that does not match.
LEMMA NextSearched == IInv /\ Searched /\ [Next]_vars => Searched'
  <1> SUFFICES ASSUME IInv, Searched, [Next]_vars PROVE Searched'
    OBVIOUS
  <1>1. diff' = diff /\ hint' = hint
    BY DEF Next, vars, Verify, ReadHeader, PlaceComment, CountLine, PassOver, NotFound
  <1>2. Verified' = Verified
    BY <1>1 DEF Verified, WholeText
  <1>3. \A m : Matches(m)' = Matches(m)
    BY <1>1 DEF Matches, Candidate
  <1>4. next \in Nat /\ DOMAIN diff = 1..Len(diff) /\ next <= Len(diff) + 1
    BY DiffsAssumption DEF IInv, TypeOK
  <1>5. CASE Verify
    <2>1. next' = 1 /\ pc' \in {"scan", "summary"}
      BY <1>5 DEF Verify, IInv
    <2>2. pc' = "summary" => ~(Verified /\ diff # <<>>)
      BY <1>5 DEF Verify
    <2>3. QED
      BY <1>1, <1>2, <2>1, <2>2 DEF Searched
  <1>6. ASSUME ReadHeader \/ CountLine \/ PassOver PROVE Searched'
    <2>1. pc = "scan" /\ pc' = "scan" /\ next' = next + 1 /\ ~Matches(next)
      BY <1>6 DEF ReadHeader, CountLine, PassOver, Scanning, Matches, Candidate, Blank
    <2>2. \A m \in 1..next - 1 : ~Matches(m)
      BY <2>1 DEF Searched
    <2>3. \A m \in 1..next' - 1 : ~Matches(m)'
      BY <1>3, <1>4, <2>1, <2>2
    <2>4. QED
      BY <2>1, <2>3 DEF Searched
  <1>7. CASE PlaceComment
    <2>1. pc = "scan" /\ pc' = "inline" /\ next' = next
      BY <1>7 DEF PlaceComment, Scanning
    <2>2. QED
      BY <1>3, <2>1 DEF Searched
  <1>8. CASE NotFound
    <2>1. pc = "scan" /\ pc' = "summary" /\ next > Len(diff)
      BY <1>8 DEF NotFound
    <2>2. \A m \in DOMAIN diff : ~Matches(m)
      BY <1>4, <2>1 DEF Searched
    <2>3. QED
      BY <1>1, <1>3, <2>1, <2>2 DEF Searched
  <1>9. CASE UNCHANGED vars
    <2>1. pc' = pc /\ next' = next
      BY <1>9 DEF vars
    <2>2. QED
      BY <1>1, <1>2, <1>3, <2>1 DEF Searched
  <1>10. QED
    BY <1>5, <1>6, <1>7, <1>8, <1>9 DEF Next

\* _verify_line_hint accepts every hint that stands in the diff verbatim: a part
\* of a line, or lines in a row, wherever its white space is.
THEOREM VerbatimIsVerified ==
  ASSUME NEW S, WholeText \in Seq(S), hint \in Seq(S), hint # <<>>,
         NEW a \in Nat, Part(hint, WholeText, a)
  PROVE  Verified
  BY PartsAreFoundNormalized DEF Verified

\* A hint that quotes a line of the diff is verified, whatever its blanks.
LEMMA QuotesAreVerified ==
  ASSUME IInv, NEW n \in DOMAIN diff, Quotes(n), Shown(diff[n].text) = diff[n].text
  PROVE  Verified
  <1> DEFINE Piece(m) == <<diff[m].mark>> \o diff[m].text \o <<Blank>>
             pieces == [m \in DOMAIN diff |-> Piece(m)]
             S == UNION {Range(diff[m].text) \union {diff[m].mark, Blank} : m \in DOMAIN diff}
             text == diff[n].text
             mark == diff[n].mark
  <1>1. n \in 1..Len(diff) /\ DOMAIN diff = 1..Len(diff) /\ Len(diff) \in Nat
    BY DiffsAssumption DEF IInv
  <1>2. ASSUME NEW m \in DOMAIN diff
        PROVE  diff[m].text \in Seq(S) /\ diff[m].mark \in S /\ Blank \in S
    <2>1. diff[m].text \in Seq(Range(diff[m].text))
      BY DEF IInv, TypeOK, IsDiff, IsPiece
    <2>2. Range(diff[m].text) \subseteq S
      OBVIOUS
    <2>3. diff[m].mark \in S /\ Blank \in S
      OBVIOUS
    <2> HIDE DEF S
    <2>4. diff[m].text \in Seq(S)
      BY <2>1, <2>2
    <2>5. QED
      BY <2>3, <2>4
  <1> HIDE DEF S
  <1>3. ASSUME NEW c \in S, NEW t \in Seq(S), Blank \in S
        PROVE  /\ <<c>> \o t \o <<Blank>> \in Seq(S)
               /\ Part(t, <<c>> \o t \o <<Blank>>, 1)
               /\ Part(<<c>> \o t, <<c>> \o t \o <<Blank>>, 0)
               /\ <<c>> \o t \in Seq(S) /\ <<c>> \o t # <<>>
    <2>1. <<c>> \in Seq(S) /\ <<Blank>> \in Seq(S) /\ Len(<<c>>) = 1
      BY <1>3
    <2> DEFINE head == <<c>>
               tail == <<Blank>>
               line1 == head \o t
    <2> HIDE DEF head, tail
    <2>2. line1 \in Seq(S) /\ Len(line1) = 1 + Len(t) /\ Len(t) \in Nat
      BY <2>1 DEF head
    <2>3. Part(t, line1, 1)
      BY <2>1, ConcatEndsInPart DEF head
    <2> HIDE DEF line1
    <2>4. Part(line1, line1, 0)
      BY <2>2 DEF Part
    <2>5. tail \in Seq(S)
      BY <2>1 DEF tail
    <2>6. Part(t, line1 \o tail, 1) /\ Part(line1, line1 \o tail, 0) /\ line1 \o tail \in Seq(S)
      BY <2>2, <2>3, <2>4, <2>5, PartsAfterConcat
    <2>7. line1 # <<>>
      BY <2>2
    <2>8. QED
      BY <2>2, <2>6, <2>7 DEF line1, head, tail
  <1>4. text \in Seq(S) /\ mark \in S /\ Blank \in S
    BY <1>2
  <1>5. \A m \in DOMAIN diff : Piece(m) \in Seq(S)
    BY <1>2, <1>3
  <1>6. hint # <<>> /\ hint \in Seq(S) /\ \E b \in Nat : Part(hint, Piece(n), b)
    <2>1. hint \in {text, <<mark>> \o text}
      BY DEF Quotes
    <2>2. CASE hint = text
      <3>1. text # <<>>
        <4>1. ASSUME text = <<>> PROVE Normalized(text) = <<>>
          <5>1. <<>> \in Seq(S) /\ Len(<<>>) = 0
            OBVIOUS
          <5>2. Joined(<<>>)[0] = <<>>
            BY <5>1, JoinedFacts
          <5>3. QED
            BY <4>1, <5>1, <5>2 DEF Normalized
        <4>2. QED
          BY <4>1 DEF Quotes
      <3>2. QED
        BY <1>3, <1>4, <2>2, <3>1
    <2>3. CASE hint = <<mark>> \o text
      BY <1>3, <1>4, <2>3
    <2>4. QED
      BY <2>1, <2>2, <2>3
  <1> HIDE DEF Piece, text, mark
  <1>7. pieces \in Seq(Seq(S)) /\ Len(pieces) = Len(diff) /\ pieces[n] = Piece(n)
    BY <1>1, <1>5
  <1>8. WholeText = FlattenSeq(pieces)
    BY DEF WholeText, Piece
  <1> HIDE DEF pieces
  <1>9. WholeText \in Seq(S) /\ \E a \in Nat : Part(Piece(n), WholeText, a)
    BY <1>1, <1>7, <1>8, PiecesArePartsOfAll
  <1>10. PICK a \in Nat : Part(Piece(n), WholeText, a)
    BY <1>9
  <1>11. PICK b \in Nat : Part(hint, Piece(n), b)
    BY <1>6
  <1>12. Part(hint, WholeText, a + b)
    BY <1>5, <1>6, <1>9, <1>10, <1>11, PartOfPart
  <1>13. a + b \in Nat
    OBVIOUS
  <1>14. QED
    BY <1>6, <1>9, <1>12, <1>13, VerbatimIsVerified

\* The loop stops at a line that the hint quotes.
LEMMA QuotesMatch ==
  ASSUME IInv, NEW n \in DOMAIN diff, Quotes(n), Shown(diff[n].text) = diff[n].text
  PROVE  Matches(n)
  <1> DEFINE S == Range(diff[n].text) \union {diff[n].mark}
             text == diff[n].text
             mark == diff[n].mark
  <1>1. Candidate(n) /\ hint \in {text, <<mark>> \o text}
    BY DEF Quotes
  <1>2. text \in Seq(S) /\ mark \in S
    <2>1. diff[n].text \in Seq(Range(diff[n].text))
      BY DEF IInv, TypeOK, IsDiff, IsPiece
    <2>2. Range(diff[n].text) \subseteq S /\ mark \in S
      OBVIOUS
    <2> HIDE DEF S
    <2>3. QED
      BY <2>1, <2>2
  <1> HIDE DEF S, text, mark
  <1>3. Occurs(hint, text) \/ Occurs(text, hint)
    <2>1. CASE hint = text
      <3>1. Len(text) \in Nat /\ DOMAIN text = 1..Len(text) /\ 0 \in 0..Len(text) - Len(text)
        BY <1>2
      <3>2. QED
        BY <2>1, <3>1 DEF Occurs
    <2>2. CASE hint = <<mark>> \o text
      <3>1. Part(text, hint, 1)
        <4> DEFINE head == <<mark>>
        <4>1. head \in Seq(S) /\ Len(head) = 1
          BY <1>2
        <4> HIDE DEF head
        <4>2. Part(text, head \o text, 1)
          BY <1>2, <4>1, ConcatEndsInPart
        <4>3. QED
          BY <2>2, <4>2 DEF head
      <3>2. Len(hint) = Len(text) + 1 /\ Len(text) \in Nat /\ DOMAIN text = 1..Len(text)
        BY <1>2, <2>2
      <3>3. QED
        BY <3>1, <3>2 DEF Part, Occurs
    <2>3. QED
      BY <1>1, <2>1, <2>2
  <1>4. QED
    BY <1>1, <1>3 DEF Matches, text

\* A finding that quotes a line of the new file without a secret is commented
\* inline, at that line or one before it: str.split, str.join and the search
\* for the hint, over diffs of any length and any text, lose none.
THEOREM QuotesArePlaced == Spec => []QuotedLinesArePlaced
  <1>1. Init => Searched
    BY DEF Init, Searched
  <1>2. IInv /\ Searched => QuotedLinesArePlaced
    <2> SUFFICES ASSUME IInv, Searched, pc \in {"inline", "summary"}, NEW n \in DOMAIN diff,
                        Quotes(n), Shown(diff[n].text) = diff[n].text
                 PROVE  pc = "inline" /\ next <= n
      BY DEF QuotedLinesArePlaced
    <2>1. Verified /\ Matches(n)
      BY QuotesAreVerified, QuotesMatch
    <2>2. n \in 1..Len(diff) /\ diff # <<>> /\ next \in Nat
      BY DiffsAssumption DEF IInv, TypeOK
    <2>3. pc # "summary"
      BY <2>1, <2>2 DEF Searched
    <2>4. n \notin 1..next - 1
      BY <2>1, <2>3 DEF Searched
    <2>5. QED
      BY <2>2, <2>3, <2>4
  <1>3. QED
    BY InitIInv, NextIInv, NextSearched, <1>1, <1>2, PTL DEF Spec
=============================================================================
