-------------------------- MODULE RedactionProofs ---------------------------
(***************************************************************************)
(* Proofs about redaction and recall, for documents and markers of any     *)
(* length, any rules and any number of findings.                           *)
(*                                                                         *)
(* The reference is a recursive function on the positions: TailsExist and  *)
(* TailsUnroll give its equations, Kept and Gone what it makes of a        *)
(* stretch that no span covers and of the inside of a span.  Facts about   *)
(* all positions are proved by their least counterexample (UpTo).          *)
(*                                                                         *)
(* Both loops replace spans from the end of the text.                      *)
(* DoneAfter(text, e, fs) says that the text is as found up to e and as    *)
(* the reference has it behind e; OneReplacement moves e to the start of   *)
(* the span replaced.  For findings that overlap the loop of the agent has *)
(* a weaker invariant: a character left in the text stands at or before    *)
(* its own position and in none of the spans treated so far (Survivors).   *)
(***************************************************************************)
EXTENDS Recall, SequenceTheorems, FiniteSetTheorems, WellFoundedInduction, TLAPS

-----------------------------------------------------------------------------
(* Induction over an interval, by its least counterexample.                *)

\* A set of numbers has a least one.
LEMMA Least ==
    ASSUME NEW S \in SUBSET Nat, S # {}
    PROVE  \E x \in S : \A y \in S : x <= y
<1>1. PICK x \in S : \A y \in S : ~(<<y, x>> \in OpToRel(<, Nat))
  <2> HIDE DEF IsWellFoundedOn
  <2> QED BY NatLessThanWellFounded, WFMin, Zenon
<1>2. \A y \in S : ~(y < x)
  <2> SUFFICES ASSUME NEW y \in S, y < x PROVE <<y, x>> \in OpToRel(<, Nat)
    BY <1>1, Zenon
  <2>1. <<y, x>> \in {ss \in Nat \X Nat : ss[1] < ss[2]}
    OBVIOUS
  <2> QED BY <2>1, Zenon DEF OpToRel
<1> QED BY <1>2

\* A set with 0 and the successors of its members below m has all of 0 .. m.
LEMMA UpTo ==
    ASSUME NEW m \in Nat, NEW S, 0 \in S,
           \A n \in 0 .. (m - 1) : n \in S => n + 1 \in S
    PROVE  \A n \in 0 .. m : n \in S
<1> DEFINE T == {n \in 0 .. m : n \notin S}
<1> SUFFICES ASSUME T # {} PROVE FALSE
  OBVIOUS
<1>1. PICK x \in T : \A y \in T : x <= y
  <2>1. T \in SUBSET Nat
    OBVIOUS
  <2> HIDE DEF T
  <2> QED BY <2>1, Least
<1>2. x \in 0 .. m /\ x \notin S /\ x # 0
  BY <1>1
<1>3. x - 1 \in 0 .. (m - 1) /\ x - 1 \in 0 .. m /\ (x - 1) + 1 = x
  BY <1>2
<1>4. x - 1 \notin T
  BY <1>1, <1>2, <1>3
<1> QED BY <1>2, <1>3, <1>4

-----------------------------------------------------------------------------
(* The reference.                                                          *)

Text == Seq(0 .. L)

LEMMA Assoc ==
    ASSUME NEW s \in Text, NEW t \in Text, NEW u \in Text
    PROVE  (s \o t) \o u = s \o (t \o u)
<1> DEFINE S == 0 .. L
<1>1. s \in Seq(S) /\ t \in Seq(S) /\ u \in Seq(S)
  BY DEF Text
<1> HIDE DEF S
<1> QED BY <1>1, ConcatAssociative

LEMMA Joins ==
    ASSUME NEW s \in Text, NEW t \in Text
    PROVE  /\ s \o t \in Text
           /\ Len(s) \in Nat /\ Len(t) \in Nat
           /\ Len(s \o t) = Len(s) + Len(t)
           /\ \A i \in 1 .. Len(s) + Len(t) :
                 (s \o t)[i] = IF i <= Len(s) THEN s[i] ELSE t[i - Len(s)]
<1>1. Len(s) \in Nat /\ Len(t) \in Nat
  BY DEF Text
<1> QED BY <1>1, ConcatProperties, Zenon DEF Text

LEMMA Part ==
    ASSUME NEW s \in Text, NEW m \in Nat \ {0}, NEW n \in 0 .. Len(s)
    PROVE  /\ SubSeq(s, m, n) \in Text
           /\ Len(SubSeq(s, m, n)) = IF m <= n THEN n - m + 1 ELSE 0
           /\ \A i \in 1 .. (n - m + 1) : SubSeq(s, m, n)[i] = s[m + i - 1]
<1> DEFINE S == 0 .. L
<1>1. s \in Seq(S)
  BY DEF Text
<1> HIDE DEF S
<1>2. Len(s) \in Nat /\ \A i \in 1 .. Len(s) : s[i] \in S
  BY <1>1, ElementOfSeq, LenProperties
<1>3. m \in Int /\ n \in Int /\ \A i \in m .. n : s[i] \in S
  BY <1>2
<1>4. /\ SubSeq(s, m, n) \in Seq(S)
      /\ Len(SubSeq(s, m, n)) = IF m <= n THEN n - m + 1 ELSE 0
      /\ \A i \in 1 .. (n - m + 1) : SubSeq(s, m, n)[i] = s[m + i - 1]
  BY <1>3, SubSeqProperties
<1> QED BY <1>4 DEF S, Text

LEMMA TextType ==
    ASSUME NEW s \in Text
    PROVE  Len(s) \in Nat /\ \A i \in 1 .. Len(s) : s[i] \in 0 .. L
<1> DEFINE S == 0 .. L
<1>1. s \in Seq(S)
  BY DEF Text
<1> HIDE DEF S
<1>2. Len(s) \in Nat /\ \A i \in 1 .. Len(s) : s[i] \in S
  BY <1>1, ElementOfSeq, LenProperties
<1> QED BY <1>2 DEF S

LEMMA SameText ==
    ASSUME NEW s \in Text, NEW t \in Text, Len(s) = Len(t),
           \A i \in 1 .. Len(s) : s[i] = t[i]
    PROVE  s = t
BY SeqEqual, Zenon DEF Text

LEMMA MarkerType == marker \in Text /\ Len(marker) = MarkerLength
<1>1. marker \in [1 .. MarkerLength -> 0 .. L]
  BY RedactionAssumption DEF marker
<1> QED BY <1>1, RedactionAssumption DEF Text

LEMMA PieceType ==
    ASSUME NEW i \in 1 .. L, NEW fs
    PROVE  Piece(i, fs) \in Text
<1>1. <<i>> \in Text /\ << >> \in Text
  BY RedactionAssumption DEF Text
<1> QED BY <1>1, MarkerType DEF Piece

\* The equation that defines Tails(fs).
Unrolled(fs, t) ==
    t = [n \in 0 .. L |-> IF n = 0 THEN << >> ELSE Piece(L - n + 1, fs) \o t[n - 1]]

LEMMA TailsChosen ==
    ASSUME NEW fs, NEW t, Unrolled(fs, t)
    PROVE  Unrolled(fs, Tails(fs))
<1>1. Tails(fs) = CHOOSE h : Unrolled(fs, h)
  BY DEF Tails, Unrolled
<1> QED BY <1>1, Zenon

\* There is a function that satisfies it, built up from 0.
LEMMA TailsExist ==
    ASSUME NEW fs
    PROVE  \E t \in [0 .. L -> Text] : Unrolled(fs, t)
<1> DEFINE Built(m, t) ==
        \A n \in 0 .. m :
            t[n] = IF n = 0 THEN << >> ELSE Piece(L - n + 1, fs) \o t[n - 1]
           S == {m \in 0 .. L : \E t \in [0 .. m -> Text] : Built(m, t)}
<1>1. 0 \in S
  <2>1. [n \in 0 .. 0 |-> << >>] \in [0 .. 0 -> Text]
    BY DEF Text
  <2>2. Built(0, [n \in 0 .. 0 |-> << >>])
    OBVIOUS
  <2>3. 0 \in 0 .. L
    BY RedactionAssumption
  <2> HIDE DEF Built
  <2> QED BY <2>1, <2>2, <2>3
<1>2. ASSUME NEW m \in 0 .. (L - 1), m \in S PROVE m + 1 \in S
  <2>1. PICK t \in [0 .. m -> Text] : Built(m, t)
    BY <1>2
  <2>2. m \in Nat /\ m + 1 \in 0 .. L /\ L - (m + 1) + 1 \in 1 .. L /\ (m + 1) - 1 = m
    BY RedactionAssumption
  <2> DEFINE u == [n \in 0 .. (m + 1) |->
                      IF n = m + 1 THEN Piece(L - (m + 1) + 1, fs) \o t[m] ELSE t[n]]
  <2>3. Piece(L - (m + 1) + 1, fs) \o t[m] \in Text
    <3>1. Piece(L - (m + 1) + 1, fs) \in Text /\ t[m] \in Text
      BY <2>1, <2>2, PieceType
    <3> QED BY <3>1 DEF Text
  <2>4. u \in [0 .. (m + 1) -> Text]
    <3>1. ASSUME NEW n \in 0 .. (m + 1), n # m + 1 PROVE t[n] \in Text
      BY <2>1, <2>2, <3>1
    <3> QED BY <2>3, <3>1
  <2>5. ASSUME NEW n \in 0 .. (m + 1)
        PROVE  u[n] = IF n = 0 THEN << >> ELSE Piece(L - n + 1, fs) \o u[n - 1]
    <3>1. CASE n = m + 1
      <4>1. u[n] = Piece(L - n + 1, fs) \o t[m]
        BY <2>2, <3>1
      <4>2. u[n - 1] = t[m] /\ n # 0
        BY <2>2, <3>1
      <4> QED BY <4>1, <4>2, Zenon
    <3>2. CASE n # m + 1
      <4>1. n \in 0 .. m /\ u[n] = t[n]
        BY <2>2, <3>2
      <4>2. ASSUME n # 0 PROVE u[n - 1] = t[n - 1]
        BY <2>2, <3>2, <4>1, <4>2
      <4>3. t[n] = IF n = 0 THEN << >> ELSE Piece(L - n + 1, fs) \o t[n - 1]
        BY <2>1, <4>1
      <4> QED BY <4>1, <4>2, <4>3, Zenon
    <3> QED BY <3>1, <3>2
  <2>6. Built(m + 1, u)
    BY <2>5
  <2> HIDE DEF u, Built
  <2> QED BY <2>2, <2>4, <2>6
<1>3. L \in S
  <2> HIDE DEF S
  <2>1. \A n \in 0 .. L : n \in S
    BY <1>1, <1>2, UpTo, RedactionAssumption
  <2> QED BY <2>1, RedactionAssumption
<1>4. PICK t \in [0 .. L -> Text] : Built(L, t)
  BY <1>3
<1>5. t = [n \in 0 .. L |-> IF n = 0 THEN << >> ELSE Piece(L - n + 1, fs) \o t[n - 1]]
  BY <1>4
<1> QED BY <1>4, <1>5 DEF Unrolled

\* The text from position i on.
Rest(i, fs) == Tails(fs)[L - i + 1]

\* So Tails is what its definition says.
LEMMA TailsUnroll ==
    ASSUME NEW fs
    PROVE  /\ \A i \in 1 .. (L + 1) : Rest(i, fs) \in Text
           /\ Rest(L + 1, fs) = << >>
           /\ \A i \in 1 .. L : Rest(i, fs) = Piece(i, fs) \o Rest(i + 1, fs)
<1>1. PICK t \in [0 .. L -> Text] : Unrolled(fs, t)
  BY TailsExist
<1>2. Unrolled(fs, Tails(fs))
  BY <1>1, TailsChosen
<1>3. \A n \in 0 .. L : Tails(fs)[n] =
          IF n = 0 THEN << >> ELSE Piece(L - n + 1, fs) \o Tails(fs)[n - 1]
  <2> DEFINE T == Tails(fs)
  <2>1. T = [n \in 0 .. L |-> IF n = 0 THEN << >> ELSE Piece(L - n + 1, fs) \o T[n - 1]]
    BY <1>2 DEF Unrolled
  <2> HIDE DEF T
  <2>2. \A n \in 0 .. L : T[n] = IF n = 0 THEN << >> ELSE Piece(L - n + 1, fs) \o T[n - 1]
    BY <2>1
  <2> QED BY <2>2 DEF T
<1>4. Rest(L + 1, fs) = << >>
  <2>1. L - (L + 1) + 1 = 0 /\ 0 \in 0 .. L
    BY RedactionAssumption
  <2> QED BY <1>3, <2>1 DEF Rest
<1>5. ASSUME NEW i \in 1 .. L PROVE Rest(i, fs) = Piece(i, fs) \o Rest(i + 1, fs)
  <2>1. /\ L - i + 1 \in 0 .. L /\ L - i + 1 # 0
        /\ L - (L - i + 1) + 1 = i
        /\ (L - i + 1) - 1 = L - (i + 1) + 1
    BY RedactionAssumption
  <2> QED BY <1>3, <2>1 DEF Rest
<1>6. \A i \in 1 .. (L + 1) : Rest(i, fs) \in Text
  <2> DEFINE S == {n \in 0 .. L : Rest(L + 1 - n, fs) \in Text}
  <2>1. 0 \in S
    <3>1. 0 \in 0 .. L /\ L + 1 - 0 = L + 1 /\ << >> \in Text
      BY RedactionAssumption DEF Text
    <3> QED BY <1>4, <3>1
  <2>2. ASSUME NEW n \in 0 .. (L - 1), n \in S PROVE n + 1 \in S
    <3>1. /\ L + 1 - (n + 1) \in 1 .. L /\ (L + 1 - (n + 1)) + 1 = L + 1 - n
          /\ n + 1 \in 0 .. L
      BY RedactionAssumption
    <3>2. Rest(L + 1 - (n + 1), fs) = Piece(L + 1 - (n + 1), fs) \o Rest(L + 1 - n, fs)
      BY <1>5, <3>1
    <3>3. Piece(L + 1 - (n + 1), fs) \in Text /\ Rest(L + 1 - n, fs) \in Text
      BY <2>2, <3>1, PieceType
    <3>4. Rest(L + 1 - (n + 1), fs) \in Text
      BY <3>2, <3>3, Joins
    <3> QED BY <3>1, <3>4
  <2>3. \A n \in 0 .. L : n \in S
    <3> HIDE DEF S
    <3> QED BY <2>1, <2>2, UpTo, RedactionAssumption
  <2> SUFFICES ASSUME NEW i \in 1 .. (L + 1) PROVE Rest(i, fs) \in Text
    OBVIOUS
  <2>4. L + 1 - i \in 0 .. L /\ L + 1 - (L + 1 - i) = i
    BY RedactionAssumption
  <2> QED BY <2>3, <2>4
<1> QED BY <1>4, <1>5, <1>6

LEMMA DocumentType ==
    /\ Document \in Text
    /\ Len(Document) = L
    /\ \A i \in 1 .. L : Document[i] = i
<1>1. Document \in [1 .. L -> 0 .. L]
  BY RedactionAssumption DEF Document
<1> QED BY <1>1, RedactionAssumption DEF Text, Document

\* Positions that nothing covers are kept.
LEMMA Kept ==
    ASSUME NEW fs, NEW j \in 1 .. (L + 1), NEW i \in 1 .. j,
           \A k \in i .. (j - 1) : ~Covered(k, fs)
    PROVE  Rest(i, fs) = SubSeq(Document, i, j - 1) \o Rest(j, fs)
<1> DEFINE Doc(k) == SubSeq(Document, k, j - 1)
           S == {n \in 0 .. (j - i) : Rest(j - n, fs) = Doc(j - n) \o Rest(j, fs)}
<1> i \in Nat /\ j \in Nat /\ j - i \in Nat /\ L \in Nat
  BY RedactionAssumption
<1>1. \A k \in i .. j : Doc(k) \in Text
  BY DocumentType DEF Text
<1>2. Rest(j, fs) \in Text
  BY TailsUnroll
<1>3. 0 \in S
  <2>1. j - 0 = j /\ 0 \in 0 .. (j - i)
    OBVIOUS
  <2>2. Doc(j) = << >>
    BY SubSeqEmpty
  <2>3. Rest(j, fs) = << >> \o Rest(j, fs)
    BY <1>2, ConcatEmptySeq DEF Text
  <2> QED BY <2>1, <2>2, <2>3
<1>4. ASSUME NEW n \in 0 .. (j - i - 1), n \in S PROVE n + 1 \in S
  <2> DEFINE k == j - (n + 1)
  <2>1. /\ k \in i .. (j - 1) /\ k \in 1 .. L /\ k + 1 = j - n /\ k + 1 \in i .. j
        /\ k \in i .. j /\ j - 1 \in k .. L /\ n + 1 \in 0 .. (j - i)
    OBVIOUS
  <2> HIDE DEF k
  <2>2. Rest(k, fs) = <<k>> \o Rest(k + 1, fs)
    BY <2>1, TailsUnroll DEF Piece
  <2>3. Doc(k) = <<k>> \o Doc(k + 1)
    BY <2>1, DocumentType, SubSeqRecursiveFirst DEF Text
  <2>4. Rest(k + 1, fs) = Doc(k + 1) \o Rest(j, fs)
    BY <1>4, <2>1
  <2>5. <<k>> \in Text /\ Doc(k + 1) \in Text
    BY <1>1, <2>1 DEF Text
  <2> HIDE DEF Doc
  <2>6. <<k>> \o (Doc(k + 1) \o Rest(j, fs)) = (<<k>> \o Doc(k + 1)) \o Rest(j, fs)
    BY <1>2, <2>5, Assoc
  <2>7. Rest(k, fs) = Doc(k) \o Rest(j, fs)
    BY <2>2, <2>3, <2>4, <2>6
  <2> QED BY <2>1, <2>7 DEF k
<1>5. j - i \in S
  <2> HIDE DEF S
  <2>1. \A n \in 0 .. (j - i) : n \in S
    BY <1>3, <1>4, UpTo
  <2> QED BY <2>1
<1>6. j - (j - i) = i
  OBVIOUS
<1> QED BY <1>5, <1>6

\* Positions that are joined to the one before leave nothing.
LEMMA Gone ==
    ASSUME NEW fs, NEW j \in 1 .. (L + 1), NEW i \in 1 .. j,
           \A k \in i .. (j - 1) : Covered(k, fs) /\ Joined(k, fs)
    PROVE  Rest(i, fs) = Rest(j, fs)
<1> DEFINE S == {n \in 0 .. (j - i) : Rest(j - n, fs) = Rest(j, fs)}
<1> i \in Nat /\ j \in Nat /\ j - i \in Nat /\ L \in Nat
  BY RedactionAssumption
<1>1. 0 \in S
  <2>1. j - 0 = j /\ 0 \in 0 .. (j - i)
    OBVIOUS
  <2> QED BY <2>1
<1>2. ASSUME NEW n \in 0 .. (j - i - 1), n \in S PROVE n + 1 \in S
  <2> DEFINE k == j - (n + 1)
  <2>1. /\ k \in i .. (j - 1) /\ k \in 1 .. L /\ k + 1 = j - n
        /\ k + 1 \in 1 .. (L + 1) /\ n + 1 \in 0 .. (j - i)
    OBVIOUS
  <2> HIDE DEF k
  <2>2. Rest(k, fs) = << >> \o Rest(k + 1, fs)
    BY <2>1, TailsUnroll DEF Piece
  <2>3. Rest(k, fs) = Rest(k + 1, fs)
    BY <2>1, <2>2, TailsUnroll, ConcatEmptySeq DEF Text
  <2> QED BY <1>2, <2>1, <2>3 DEF k
<1>3. j - i \in S
  <2> HIDE DEF S
  <2>1. \A n \in 0 .. (j - i) : n \in S
    BY <1>1, <1>2, UpTo
  <2> QED BY <2>1
<1>4. j - (j - i) = i
  OBVIOUS
<1> QED BY <1>3, <1>4

-----------------------------------------------------------------------------
(* What the reference leaves.                                              *)

\* What is said of the text from position i on.
Faithful(i, fs) ==
    LET r == Rest(i, fs)
    IN  /\ \A j \in 1 .. Len(r) : r[j] # 0 => r[j] \in i .. L /\ ~Covered(r[j], fs)
        /\ \A k \in i .. L : ~Covered(k, fs) => \E j \in 1 .. Len(r) : r[j] = k
        /\ \A j, k \in 1 .. Len(r) : j < k /\ r[j] # 0 /\ r[k] # 0 => r[j] < r[k]

\* A position that is kept comes before what is left of the later ones.
LEMMA KeptIsFaithful ==
    ASSUME NEW fs, NEW i \in 1 .. L, ~Covered(i, fs), Faithful(i + 1, fs)
    PROVE  Faithful(i, fs)
<1> DEFINE r == Rest(i, fs)
           q == Rest(i + 1, fs)
<1>1. /\ q \in Text /\ <<i>> \in Text /\ Len(<<i>>) = 1 /\ <<i>>[1] = i /\ L \in Nat
      /\ r = <<i>> \o q
  <2>1. i + 1 \in 1 .. (L + 1)
    BY RedactionAssumption
  <2>2. q \in Text /\ r = Piece(i, fs) \o q
    BY <2>1, TailsUnroll
  <2>3. <<i>> \in Text /\ Len(<<i>>) = 1 /\ <<i>>[1] = i /\ L \in Nat
    BY RedactionAssumption DEF Text
  <2>4. Piece(i, fs) = <<i>>
    BY DEF Piece
  <2> QED BY <2>2, <2>3, <2>4
<1>2. Len(q) \in Nat /\ \A j \in 1 .. Len(q) : q[j] \in 0 .. L
  BY <1>1, TextType
<1>3. /\ Len(r) = 1 + Len(q)
      /\ \A j \in 1 .. Len(r) : r[j] = IF j <= 1 THEN <<i>>[j] ELSE q[j - 1]
  <2> DEFINE p == <<i>>
  <2>1. p \in Text /\ Len(p) = 1
    BY <1>1
  <2> HIDE DEF p, q
  <2>2. /\ Len(p \o q) = Len(p) + Len(q)
        /\ \A j \in 1 .. Len(p) + Len(q) :
              (p \o q)[j] = IF j <= Len(p) THEN p[j] ELSE q[j - Len(p)]
    BY <1>1, <2>1, Joins
  <2> QED BY <1>1, <2>1, <2>2 DEF p
<1>4. /\ r[1] = i /\ 1 \in 1 .. Len(r)
      /\ \A j \in 1 .. Len(q) : r[j + 1] = q[j] /\ j + 1 \in 1 .. Len(r)
  BY <1>1, <1>2, <1>3
<1>5. \A j \in 1 .. Len(r) : j = 1 \/ (j - 1 \in 1 .. Len(q) /\ r[j] = q[j - 1])
  BY <1>2, <1>3
<1>6. /\ \A j \in 1 .. Len(q) : q[j] # 0 => q[j] \in (i + 1) .. L /\ ~Covered(q[j], fs)
      /\ \A k \in (i + 1) .. L : ~Covered(k, fs) => \E j \in 1 .. Len(q) : q[j] = k
      /\ \A j, k \in 1 .. Len(q) : j < k /\ q[j] # 0 /\ q[k] # 0 => q[j] < q[k]
  BY DEF Faithful
<1> HIDE DEF r, q
<1>7. ASSUME NEW j \in 1 .. Len(r), r[j] # 0 PROVE r[j] \in i .. L /\ ~Covered(r[j], fs)
  <2>1. CASE j = 1
    BY <1>1, <1>4, <2>1
  <2>2. CASE j # 1
    <3>1. j - 1 \in 1 .. Len(q) /\ r[j] = q[j - 1]
      BY <1>5, <2>2
    <3>2. r[j] \in (i + 1) .. L /\ ~Covered(r[j], fs)
      BY <1>6, <1>7, <3>1
    <3> QED BY <1>1, <3>2
  <2> QED BY <2>1, <2>2
<1>8. ASSUME NEW k \in i .. L, ~Covered(k, fs) PROVE \E j \in 1 .. Len(r) : r[j] = k
  <2>1. CASE k = i
    BY <1>4, <2>1
  <2>2. CASE k # i
    <3>1. k \in (i + 1) .. L
      BY <1>1, <2>2
    <3>2. PICK j \in 1 .. Len(q) : q[j] = k
      BY <1>6, <1>8, <3>1
    <3> QED BY <1>4, <3>2
  <2> QED BY <2>1, <2>2
<1>9. ASSUME NEW j \in 1 .. Len(r), NEW k \in 1 .. Len(r), j < k, r[j] # 0, r[k] # 0
      PROVE  r[j] < r[k]
  <2>1. k - 1 \in 1 .. Len(q) /\ r[k] = q[k - 1] /\ j \in Nat /\ k \in Nat
    <3>1. j \in Nat /\ k \in Nat /\ k # 1
      BY <1>2, <1>3, <1>9
    <3> QED BY <1>5, <3>1
  <2>2. q[k - 1] \in (i + 1) .. L
    BY <1>6, <1>9, <2>1
  <2>3. CASE j = 1
    BY <1>1, <1>4, <2>1, <2>2, <2>3
  <2>4. CASE j # 1
    <3>1. j - 1 \in 1 .. Len(q) /\ r[j] = q[j - 1] /\ j - 1 < k - 1
      BY <1>5, <1>9, <2>1, <2>4
    <3> QED BY <1>6, <1>9, <2>1, <3>1
  <2> QED BY <2>3, <2>4
<1>10. Faithful(i, fs)
  BY <1>7, <1>8, <1>9 DEF Faithful, r
<1> QED BY <1>10

\* A position that is covered leaves a marker or nothing.
LEMMA CoveredIsFaithful ==
    ASSUME NEW fs, NEW i \in 1 .. L, Covered(i, fs), Faithful(i + 1, fs)
    PROVE  Faithful(i, fs)
<1> DEFINE r == Rest(i, fs)
           q == Rest(i + 1, fs)
           p == Piece(i, fs)
<1>1. /\ q \in Text /\ p \in Text /\ L \in Nat /\ r = p \o q
  <2>1. i + 1 \in 1 .. (L + 1)
    BY RedactionAssumption
  <2> QED BY <2>1, TailsUnroll, PieceType, RedactionAssumption
<1>2. \A j \in 1 .. Len(p) : p[j] = 0
  <2>1. p = << >> \/ p = marker
    BY DEF Piece
  <2>2. CASE p = << >>
    BY <2>2
  <2>3. CASE p = marker
    <3>1. \A j \in 1 .. MarkerLength : marker[j] = 0
      BY DEF marker
    <3> QED BY <2>3, <3>1, MarkerType
  <2> QED BY <2>1, <2>2, <2>3
<1>3. /\ \A j \in 1 .. Len(q) : q[j] # 0 => q[j] \in (i + 1) .. L /\ ~Covered(q[j], fs)
      /\ \A k \in (i + 1) .. L : ~Covered(k, fs) => \E j \in 1 .. Len(q) : q[j] = k
      /\ \A j, k \in 1 .. Len(q) : j < k /\ q[j] # 0 /\ q[k] # 0 => q[j] < q[k]
  BY DEF Faithful
<1> HIDE DEF p, q
<1>4. /\ Len(p) \in Nat /\ Len(q) \in Nat /\ Len(r) = Len(p) + Len(q)
      /\ \A j \in 1 .. Len(r) : r[j] = IF j <= Len(p) THEN p[j] ELSE q[j - Len(p)]
  <2>1. /\ Len(p) \in Nat /\ Len(q) \in Nat /\ Len(p \o q) = Len(p) + Len(q)
        /\ \A j \in 1 .. Len(p) + Len(q) :
              (p \o q)[j] = IF j <= Len(p) THEN p[j] ELSE q[j - Len(p)]
    BY <1>1, Joins
  <2> QED BY <1>1, <2>1
<1> HIDE DEF r
<1>5. ASSUME NEW j \in 1 .. Len(r), r[j] # 0
      PROVE  j \in Nat /\ j - Len(p) \in 1 .. Len(q) /\ r[j] = q[j - Len(p)]
  <2>1. CASE j <= Len(p)
    <3>1. j \in 1 .. Len(p)
      BY <1>4, <2>1
    <3> QED BY <1>2, <1>4, <1>5, <2>1, <3>1
  <2>2. CASE ~(j <= Len(p))
    BY <1>4, <2>2
  <2> QED BY <2>1, <2>2
<1>6. ASSUME NEW j \in 1 .. Len(r), r[j] # 0 PROVE r[j] \in i .. L /\ ~Covered(r[j], fs)
  <2>1. r[j] \in (i + 1) .. L /\ ~Covered(r[j], fs)
    BY <1>3, <1>5, <1>6
  <2> QED BY <1>1, <2>1
<1>7. ASSUME NEW k \in i .. L, ~Covered(k, fs) PROVE \E j \in 1 .. Len(r) : r[j] = k
  <2>1. k \in (i + 1) .. L
    <3>1. k # i
      BY <1>7
    <3> QED BY <1>1, <3>1
  <2>2. PICK j \in 1 .. Len(q) : q[j] = k
    BY <1>3, <1>7, <2>1
  <2>3. /\ Len(p) + j \in 1 .. Len(r) /\ ~(Len(p) + j <= Len(p))
        /\ (Len(p) + j) - Len(p) = j
    BY <1>4
  <2>4. r[Len(p) + j] = k
    BY <1>4, <2>2, <2>3
  <2> QED BY <2>3, <2>4
<1>8. ASSUME NEW j \in 1 .. Len(r), NEW k \in 1 .. Len(r), j < k, r[j] # 0, r[k] # 0
      PROVE  r[j] < r[k]
  <2>1. /\ j \in Nat /\ j - Len(p) \in 1 .. Len(q) /\ r[j] = q[j - Len(p)]
        /\ k \in Nat /\ k - Len(p) \in 1 .. Len(q) /\ r[k] = q[k - Len(p)]
    BY <1>5, <1>8
  <2>2. j - Len(p) < k - Len(p)
    BY <1>4, <1>8, <2>1
  <2> QED BY <1>3, <1>8, <2>1, <2>2
<1>9. Faithful(i, fs)
  BY <1>6, <1>7, <1>8 DEF Faithful, r
<1> QED BY <1>9

(***************************************************************************)
(* What DisjointIsExact and ToolIsExact compare with leaves exactly the    *)
(* characters that no finding covers, in their order.                      *)
(***************************************************************************)
THEOREM ReferenceIsFaithful ==
    ASSUME NEW fs
    PROVE  LET r == Reference(fs)
           IN  /\ \A i \in 1 .. L : (\E j \in 1 .. Len(r) : r[j] = i) <=> ~Covered(i, fs)
               /\ \A j, k \in 1 .. Len(r) : j < k /\ r[j] # 0 /\ r[k] # 0 => r[j] < r[k]
<1> DEFINE S == {n \in 0 .. L : Faithful(L + 1 - n, fs)}
<1> L \in Nat
  BY RedactionAssumption
<1>1. 0 \in S
  <2>1. L + 1 - 0 = L + 1 /\ 0 \in 0 .. L
    OBVIOUS
  <2>2. Rest(L + 1, fs) = << >> /\ Len(<< >>) = 0
    BY TailsUnroll
  <2>3. Faithful(L + 1, fs)
    BY <2>2 DEF Faithful
  <2> QED BY <2>1, <2>3
<1>2. ASSUME NEW n \in 0 .. (L - 1), n \in S PROVE n + 1 \in S
  <2>1. /\ L + 1 - (n + 1) \in 1 .. L /\ (L + 1 - (n + 1)) + 1 = L + 1 - n
        /\ n + 1 \in 0 .. L
    OBVIOUS
  <2>2. Faithful((L + 1 - (n + 1)) + 1, fs)
    BY <1>2, <2>1
  <2>3. Faithful(L + 1 - (n + 1), fs)
    BY <2>1, <2>2, KeptIsFaithful, CoveredIsFaithful
  <2> QED BY <2>1, <2>3
<1>3. L \in S
  <2> HIDE DEF S
  <2>1. \A n \in 0 .. L : n \in S
    BY <1>1, <1>2, UpTo
  <2> QED BY <2>1
<1>4. Faithful(1, fs)
  <2>1. L + 1 - L = 1
    OBVIOUS
  <2> QED BY <1>3, <2>1
<1>5. Rest(1, fs) = Reference(fs)
  <2>1. L - 1 + 1 = L
    OBVIOUS
  <2> QED BY <2>1 DEF Rest, Reference
<1>6. ASSUME NEW i \in 1 .. L, NEW j \in 1 .. Len(Rest(1, fs)), Rest(1, fs)[j] = i
      PROVE  ~Covered(i, fs)
  <2>1. i # 0
    OBVIOUS
  <2> QED BY <1>4, <1>6, <2>1 DEF Faithful
<1> QED BY <1>4, <1>5, <1>6 DEF Faithful

-----------------------------------------------------------------------------
(* One replacement.                                                        *)

LEMMA Cut ==
    ASSUME NEW s \in Text, NEW t \in Text, NEW a \in 0 .. Len(s)
    PROVE  /\ SubSeq(s \o t, 1, a) = SubSeq(s, 1, a)
           /\ SubSeq(s \o t, Len(s) + 1, Len(s \o t)) = t
<1>1. /\ s \o t \in Text /\ Len(s) \in Nat /\ Len(t) \in Nat
      /\ Len(s \o t) = Len(s) + Len(t)
      /\ \A i \in 1 .. Len(s) + Len(t) :
            (s \o t)[i] = IF i <= Len(s) THEN s[i] ELSE t[i - Len(s)]
  BY Joins
<1> DEFINE st == s \o t
<1>2. SubSeq(st, 1, a) = SubSeq(s, 1, a)
  <2>1. a \in 0 .. Len(st) /\ 1 \in Nat \ {0}
    BY <1>1
  <2>2. \A i \in 1 .. a : st[i] = s[i]
    BY <1>1
  <2> HIDE DEF st
  <2>3. /\ SubSeq(st, 1, a) \in Text /\ Len(SubSeq(st, 1, a)) = a
        /\ \A i \in 1 .. a : SubSeq(st, 1, a)[i] = st[i]
    <3>1. st \in Text
      BY <1>1 DEF st
    <3> QED BY <2>1, <3>1, Part
  <2>4. /\ SubSeq(s, 1, a) \in Text /\ Len(SubSeq(s, 1, a)) = a
        /\ \A i \in 1 .. a : SubSeq(s, 1, a)[i] = s[i]
    BY <2>1, Part
  <2> QED BY <2>2, <2>3, <2>4, SameText
<1>3. SubSeq(st, Len(s) + 1, Len(st)) = t
  <2> DEFINE u == SubSeq(st, Len(s) + 1, Len(st))
  <2>1. /\ Len(st) \in 0 .. Len(st) /\ Len(s) + 1 \in Nat \ {0}
        /\ \A i \in 1 .. Len(t) : st[Len(s) + i] = t[i]
    BY <1>1
  <2> HIDE DEF st
  <2>2. /\ u \in Text /\ Len(u) = Len(t)
        /\ \A i \in 1 .. Len(t) : u[i] = st[(Len(s) + 1) + i - 1]
    <3>1. st \in Text /\ Len(st) = Len(s) + Len(t)
      BY <1>1 DEF st
    <3>2. /\ u \in Text
          /\ Len(u) = IF Len(s) + 1 <= Len(st) THEN Len(st) - (Len(s) + 1) + 1 ELSE 0
          /\ \A i \in 1 .. (Len(st) - (Len(s) + 1) + 1) : u[i] = st[(Len(s) + 1) + i - 1]
      BY <2>1, <3>1, Part
    <3> QED BY <1>1, <3>1, <3>2
  <2>3. \A i \in 1 .. Len(t) : u[i] = t[i]
    BY <1>1, <2>1, <2>2
  <2> HIDE DEF u
  <2>4. u = t
    BY <2>2, <2>3, SameText
  <2> QED BY <2>4 DEF u
<1> QED BY <1>2, <1>3

\* A text that is as it should be after e: the document up to e, then the rest.
DoneAfter(text, e, fs) == text = SubSeq(Document, 1, e) \o Rest(e + 1, fs)

\* Nothing is done yet if nothing covers what comes after e.
LEMMA NothingToDo ==
    ASSUME NEW fs, NEW e \in 0 .. L, \A k \in (e + 1) .. L : ~Covered(k, fs)
    PROVE  DoneAfter(Document, e, fs)
<1> L \in Nat /\ e \in Nat /\ e + 1 \in 1 .. (L + 1) /\ L + 1 \in 1 .. (L + 1) /\ (L + 1) - 1 = L
  BY RedactionAssumption
<1>1. Rest(e + 1, fs) = SubSeq(Document, e + 1, L) \o Rest(L + 1, fs)
  BY Kept
<1>2. SubSeq(Document, e + 1, L) \in Text
  BY DocumentType DEF Text
<1>3. Rest(e + 1, fs) = SubSeq(Document, e + 1, L)
  BY <1>1, <1>2, TailsUnroll, ConcatEmptySeq DEF Text
<1>4. SubSeq(Document, 1, e) \o SubSeq(Document, e + 1, L) = SubSeq(Document, 1, L)
  BY DocumentType, ConcatAdjacentSubSeq DEF Text
<1>5. SubSeq(Document, 1, L) = Document
  BY DocumentType, SubSeqFull DEF Text
<1> QED BY <1>3, <1>4, <1>5 DEF DoneAfter

(***************************************************************************)
(* The text is done after the end e of a span; the span, from a, is a      *)
(* whole group of the findings fs, and nothing lies between s and a.  Then *)
(* the replacement of the span leaves a text that is done after s.         *)
(***************************************************************************)
LEMMA OneReplacement ==
    ASSUME NEW fs, NEW s \in 0 .. L, NEW a \in 0 .. L, NEW e \in 0 .. L,
           s <= a, a < e,
           \A k \in (s + 1) .. a : ~Covered(k, fs),
           Covered(a + 1, fs), ~Joined(a + 1, fs),
           \A k \in (a + 2) .. e : Covered(k, fs) /\ Joined(k, fs),
           NEW text, DoneAfter(text, e, fs)
    PROVE  DoneAfter(Assign(text, a, e, marker), s, fs)
<1> DEFINE doc == SubSeq(Document, 1, e)
           rest == Rest(e + 1, fs)
           kept == SubSeq(Document, s + 1, a)
           first == SubSeq(Document, 1, s)
<1> L \in Nat /\ s \in Nat /\ a \in Nat /\ e \in Nat
  BY RedactionAssumption
<1>1. doc \in Text /\ Len(doc) = e /\ kept \in Text /\ first \in Text
  BY DocumentType DEF Text
<1>2. rest \in Text /\ Rest(a + 1, fs) \in Text
  <2>1. e + 1 \in 1 .. (L + 1) /\ a + 1 \in 1 .. (L + 1)
    OBVIOUS
  <2> QED BY <2>1, TailsUnroll
<1>3. text = doc \o rest
  BY DEF DoneAfter
<1>4. SubSeq(text, 1, a) = SubSeq(doc, 1, a) /\ SubSeq(text, e + 1, Len(text)) = rest
  <2>1. a \in 0 .. Len(doc)
    BY <1>1
  <2> HIDE DEF doc, rest
  <2> QED BY <1>1, <1>2, <1>3, <2>1, Cut
<1>5. SubSeq(doc, 1, a) = SubSeq(Document, 1, a)
  <2>1. doc \o SubSeq(Document, e + 1, L) = SubSeq(Document, 1, L)
    BY DocumentType, ConcatAdjacentSubSeq DEF Text
  <2>2. SubSeq(Document, 1, L) = Document
    BY DocumentType, SubSeqFull DEF Text
  <2>3. SubSeq(Document, e + 1, L) \in Text /\ a \in 0 .. Len(doc)
    BY <1>1, DocumentType DEF Text
  <2> HIDE DEF doc
  <2> QED BY <1>1, <2>1, <2>2, <2>3, Cut
<1>6. SubSeq(Document, 1, a) = first \o kept
  BY DocumentType, ConcatAdjacentSubSeq DEF Text
<1>7. Rest(a + 1, fs) = marker \o rest
  <2>1. Rest(a + 1, fs) = marker \o Rest(a + 2, fs)
    <3>1. a + 1 \in 1 .. L /\ (a + 1) + 1 = a + 2
      OBVIOUS
    <3>2. Rest(a + 1, fs) = Piece(a + 1, fs) \o Rest(a + 2, fs)
      BY <3>1, TailsUnroll
    <3> QED BY <3>2 DEF Piece
  <2>2. Rest(a + 2, fs) = rest
    <3>1. e + 1 \in 1 .. (L + 1) /\ a + 2 \in 1 .. (e + 1) /\ (e + 1) - 1 = e
      OBVIOUS
    <3> QED BY <3>1, Gone
  <2> QED BY <2>1, <2>2
<1>8. Rest(s + 1, fs) = kept \o Rest(a + 1, fs)
  <2>1. a + 1 \in 1 .. (L + 1) /\ s + 1 \in 1 .. (a + 1) /\ (a + 1) - 1 = a
    OBVIOUS
  <2> QED BY <2>1, Kept
<1>9. Assign(text, a, e, marker) = ((first \o kept) \o marker) \o rest
  BY <1>4, <1>5, <1>6 DEF Assign
<1>10. ((first \o kept) \o marker) \o rest = first \o (kept \o (marker \o rest))
  <2> HIDE DEF first, kept, rest
  <2>1. first \o kept \in Text /\ marker \o rest \in Text
    BY <1>1, <1>2, MarkerType, Joins
  <2>2. ((first \o kept) \o marker) \o rest = (first \o kept) \o (marker \o rest)
    <3> DEFINE fk == first \o kept
    <3>1. fk \in Text /\ marker \in Text /\ rest \in Text
      BY <1>2, <2>1, MarkerType
    <3> HIDE DEF fk
    <3>2. (fk \o marker) \o rest = fk \o (marker \o rest)
      BY <3>1, Assoc
    <3> USE DEF fk
    <3> QED BY <3>2, Zenon
  <2>3. (first \o kept) \o (marker \o rest) = first \o (kept \o (marker \o rest))
    <3> DEFINE mr == marker \o rest
    <3>1. first \in Text /\ kept \in Text /\ mr \in Text
      BY <1>1, <2>1
    <3> HIDE DEF mr
    <3>2. (first \o kept) \o mr = first \o (kept \o mr)
      BY <3>1, Assoc
    <3> USE DEF mr
    <3> QED BY <3>2, Zenon
  <2> QED BY <2>2, <2>3, Zenon
<1> QED BY <1>7, <1>8, <1>9, <1>10 DEF DoneAfter

-----------------------------------------------------------------------------
(* The inductive invariant.                                                *)

RedactionTypeOK ==
    /\ regex \subseteq Finding
    /\ presidio \subseteq Finding
    /\ findings \subseteq Finding
    /\ todo \subseteq findings
    /\ merged \in Seq(Span)
    /\ chars \in Text
    /\ pc \in {"detected", "stored", "agent", "tool"}

\* The findings that the loop under way has treated.
Done == findings \ todo

\* Up to the first span that was applied, the text is the document.
Untouched(cs, dn) ==
    \A i \in 1 .. L : (\A g \in dn : i <= g.start) => i <= Len(cs) /\ cs[i] = i

\* What is left of the document has not moved to the right, and nothing of it
\* belongs to a span that was applied.
Survivors(cs, dn) ==
    \A j \in 1 .. Len(cs) : cs[j] # 0 => j <= cs[j] /\ ~Covered(cs[j], dn)

Long(fs) == \A f \in fs : f.end - f.start >= MarkerLength

Disjoint(fs) == \A f, g \in fs : f # g => ~Overlap(f, g)

\* _apply_redactions: s lies after the spans to do and before those done.
Boundary(s, td, dn) == (\A f \in td : f.end <= s) /\ (\A g \in dn : s <= g.start)

AgentInv ==
    /\ \A f \in todo, g \in Done : f.start <= g.start
    /\ Untouched(chars, Done)
    /\ Long(findings) => Survivors(chars, Done)
    /\ Disjoint(findings) =>
          \A s \in 0 .. L : Boundary(s, todo, Done) => DoneAfter(chars, s, findings)

\* Where the last of the groups ms ends.
End(ms) == IF ms = << >> THEN 0 ELSE ms[Len(ms)].end

Ordered(ms) == \A k \in 1 .. Len(ms) : \A j \in 1 .. (k - 1) : ms[j].end <= ms[k].start

\* The groups ms cover and join what the findings dn cover and join.
GroupedAs(ms, dn, i) ==
    /\ Covered(i, dn) <=> \E k \in 1 .. Len(ms) : ms[k].start < i /\ i <= ms[k].end
    /\ Joined(i, dn) <=> \E k \in 1 .. Len(ms) : ms[k].start + 1 < i /\ i <= ms[k].end

Grouping(ms, dn) == Ordered(ms) /\ \A i \in 1 .. End(ms) : GroupedAs(ms, dn, i)

\* Nothing in dn lies after e.
ClearAfter(e, dn) == \A i \in (e + 1) .. L : ~Covered(i, dn)

ToolInv ==
    /\ Grouping(merged, Done)
    /\ \A f \in todo : \A k \in 1 .. Len(merged) : merged[k].start <= f.start
    /\ todo # {} => chars = Document /\ ClearAfter(End(merged), Done)
    /\ todo = {} => DoneAfter(chars, End(merged), findings)

RedactionInv ==
    /\ RedactionTypeOK
    /\ pc \in {"detected", "stored"} => chars = Document /\ merged = << >> /\ todo = {}
    /\ pc = "agent" => AgentInv
    /\ pc = "tool" => ToolInv

-----------------------------------------------------------------------------
(* A turn of the loop of _apply_redactions.                                *)

LEMMA FindingType ==
    ASSUME NEW f \in Finding
    PROVE  /\ f.start \in 0 .. L /\ f.end \in 0 .. L /\ f.start < f.end
           /\ [start |-> f.start, end |-> f.end] \in Span
BY DEF Finding, Span

LEMMA SpanType ==
    ASSUME NEW g \in Span
    PROVE  g.start \in 0 .. L /\ g.end \in 0 .. L /\ g.start < g.end
BY DEF Span

\* What a slice assignment of the marker returns.
LEMMA AssignMarker ==
    ASSUME NEW s \in Text, NEW a \in 0 .. Len(s), NEW e \in Nat, a < e
    PROVE  LET t == Assign(s, a, e, marker)
           IN  /\ t \in Text
               /\ Len(t) = a + MarkerLength + (IF e < Len(s) THEN Len(s) - e ELSE 0)
               /\ \A j \in 1 .. Len(t) :
                     t[j] = IF j <= a THEN s[j]
                            ELSE IF j <= a + MarkerLength THEN 0
                            ELSE s[j - a - MarkerLength + e]
<1> DEFINE p == SubSeq(s, 1, a)
           q == SubSeq(s, e + 1, Len(s))
           t == (p \o marker) \o q
<1>1. Len(s) \in Nat /\ MarkerLength \in Nat /\ a \in Nat
  BY RedactionAssumption DEF Text
<1>2. /\ p \in Text /\ Len(p) = a
      /\ \A j \in 1 .. a : p[j] = s[j]
  BY <1>1, Part
<1>3. /\ q \in Text /\ Len(q) = IF e < Len(s) THEN Len(s) - e ELSE 0
      /\ \A j \in 1 .. Len(q) : q[j] = s[e + j]
  <2>1. e + 1 \in Nat \ {0} /\ Len(s) \in 0 .. Len(s)
    BY <1>1
  <2>2. /\ q \in Text
        /\ Len(q) = IF e + 1 <= Len(s) THEN Len(s) - (e + 1) + 1 ELSE 0
        /\ \A j \in 1 .. (Len(s) - (e + 1) + 1) : q[j] = s[(e + 1) + j - 1]
    BY <2>1, Part
  <2>3. Len(q) = IF e < Len(s) THEN Len(s) - e ELSE 0
    BY <1>1, <2>2
  <2>4. ASSUME NEW j \in 1 .. Len(q) PROVE q[j] = s[e + j]
    <3>1. j \in 1 .. (Len(s) - (e + 1) + 1) /\ (e + 1) + j - 1 = e + j
      BY <1>1, <2>3
    <3> QED BY <2>2, <3>1
  <2> QED BY <2>2, <2>3, <2>4
<1>4. marker \in Text /\ Len(marker) = MarkerLength
      /\ \A j \in 1 .. MarkerLength : marker[j] = 0
  BY MarkerType DEF marker
<1> HIDE DEF p, q
<1>5. /\ p \o marker \in Text /\ Len(p \o marker) = a + MarkerLength
      /\ \A j \in 1 .. (a + MarkerLength) :
            (p \o marker)[j] = IF j <= a THEN p[j] ELSE marker[j - a]
  BY <1>2, <1>4, Joins
<1> DEFINE pm == p \o marker
<1> HIDE DEF pm
<1>6. /\ pm \o q \in Text /\ Len(pm \o q) = (a + MarkerLength) + Len(q)
      /\ \A j \in 1 .. ((a + MarkerLength) + Len(q)) :
            (pm \o q)[j] = IF j <= a + MarkerLength THEN pm[j] ELSE q[j - (a + MarkerLength)]
  <2>1. pm \in Text /\ Len(pm) = a + MarkerLength
    BY <1>5 DEF pm
  <2>2. /\ pm \o q \in Text /\ Len(pm \o q) = Len(pm) + Len(q)
        /\ \A j \in 1 .. Len(pm) + Len(q) :
              (pm \o q)[j] = IF j <= Len(pm) THEN pm[j] ELSE q[j - Len(pm)]
    BY <1>3, <2>1, Joins
  <2> QED BY <2>1, <2>2
<1>7. Len(q) \in Nat
  BY <1>1, <1>3
<1>8. ASSUME NEW j \in 1 .. ((a + MarkerLength) + Len(q))
      PROVE  (pm \o q)[j] = IF j <= a THEN s[j]
                            ELSE IF j <= a + MarkerLength THEN 0
                            ELSE s[j - a - MarkerLength + e]
  <2>1. CASE j <= a
    <3>1. j \in 1 .. (a + MarkerLength) /\ j <= a + MarkerLength /\ j \in 1 .. a
      BY <1>1, <2>1
    <3> QED BY <1>2, <1>5, <1>6, <2>1, <3>1 DEF pm
  <2>2. CASE ~(j <= a) /\ j <= a + MarkerLength
    <3>1. j \in 1 .. (a + MarkerLength) /\ j - a \in 1 .. MarkerLength
      BY <1>1, <2>2
    <3> QED BY <1>4, <1>5, <1>6, <2>2, <3>1 DEF pm
  <2>3. CASE ~(j <= a + MarkerLength)
    <3>1. /\ j - (a + MarkerLength) \in 1 .. Len(q) /\ ~(j <= a)
          /\ e + (j - (a + MarkerLength)) = j - a - MarkerLength + e
      BY <1>1, <1>7, <2>3
    <3> QED BY <1>3, <1>6, <2>3, <3>1
  <2> QED BY <2>1, <2>2, <2>3
<1>9. Assign(s, a, e, marker) = pm \o q
  BY DEF Assign, pm, p, q
<1>10. Len(pm \o q) = a + MarkerLength + (IF e < Len(s) THEN Len(s) - e ELSE 0)
  BY <1>1, <1>3, <1>6
<1> QED BY <1>6, <1>8, <1>9, <1>10

\* The text before the spans that were applied reaches as far as they do not.
LEMMA Reaches ==
    ASSUME NEW cs \in Text, NEW dn \in SUBSET Finding, NEW f \in Finding,
           \A g \in dn : f.start <= g.start, Untouched(cs, dn)
    PROVE  f.start \in 0 .. Len(cs)
<1>1. f.start \in 0 .. L /\ Len(cs) \in Nat
  BY FindingType, TextType
<1>2. CASE f.start = 0
  BY <1>1, <1>2
<1>3. CASE f.start # 0
  <2>1. f.start \in 1 .. L
    BY <1>1, <1>3, RedactionAssumption
  <2>2. f.start <= Len(cs)
    BY <2>1 DEF Untouched
  <2> QED BY <1>1, <2>1, <2>2
<1> QED BY <1>2, <1>3

LEMMA SpliceUntouched ==
    ASSUME NEW cs \in Text, NEW dn \in SUBSET Finding, NEW f \in Finding,
           \A g \in dn : f.start <= g.start, Untouched(cs, dn)
    PROVE  /\ Assign(cs, f.start, f.end, marker) \in Text
           /\ Untouched(Assign(cs, f.start, f.end, marker), dn \cup {f})
<1> DEFINE t == Assign(cs, f.start, f.end, marker)
<1>1. /\ f.start \in 0 .. L /\ f.end \in Nat /\ f.start < f.end
      /\ f.start \in 0 .. Len(cs) /\ Len(cs) \in Nat /\ MarkerLength \in Nat /\ L \in Nat
  <2>1. f.start \in 0 .. L /\ f.end \in 0 .. L /\ f.start < f.end
    BY FindingType
  <2>2. f.start \in 0 .. Len(cs) /\ Len(cs) \in Nat
    BY Reaches, TextType
  <2> QED BY <2>1, <2>2, RedactionAssumption
<1>2. /\ t \in Text
      /\ Len(t) = f.start + MarkerLength + (IF f.end < Len(cs) THEN Len(cs) - f.end ELSE 0)
      /\ \A j \in 1 .. Len(t) :
            t[j] = IF j <= f.start THEN cs[j]
                   ELSE IF j <= f.start + MarkerLength THEN 0
                   ELSE cs[j - f.start - MarkerLength + f.end]
  BY <1>1, AssignMarker
<1> HIDE DEF t
<1>3. f.start <= Len(t) /\ Len(t) \in Nat
  BY <1>1, <1>2
<1>4. ASSUME NEW i \in 1 .. L, \A g \in dn \cup {f} : i <= g.start
      PROVE  i <= Len(t) /\ t[i] = i
  <2>1. i <= f.start /\ \A g \in dn : i <= g.start
    BY <1>4
  <2>2. i <= Len(t) /\ i \in 1 .. Len(t)
    BY <1>1, <1>3, <2>1
  <2>3. cs[i] = i
    BY <2>1 DEF Untouched
  <2> QED BY <1>2, <2>1, <2>2, <2>3
<1>5. Untouched(t, dn \cup {f})
  BY <1>4 DEF Untouched
<1> QED BY <1>2, <1>5 DEF t

\* A position behind a marker of m characters that took the place of a .. e.
LEMMA Shift ==
    ASSUME NEW j \in Nat, NEW a \in Nat, NEW e \in Nat, NEW m \in Nat, NEW c \in Nat,
           NEW n \in Nat, n = a + m + (c - e), a + m < j, j <= n, e - a >= m
    PROVE  /\ j <= j - a - m + e /\ e < j - a - m + e
           /\ j - a - m + e <= c /\ j - a - m + e \in Int
OBVIOUS

LEMMA SpliceSurvivors ==
    ASSUME NEW cs \in Text, NEW dn \in SUBSET Finding, NEW f \in Finding,
           \A g \in dn : f.start <= g.start, Untouched(cs, dn),
           f.end - f.start >= MarkerLength, Survivors(cs, dn)
    PROVE  Survivors(Assign(cs, f.start, f.end, marker), dn \cup {f})
<1> DEFINE t == Assign(cs, f.start, f.end, marker)
<1>1. /\ f.start \in 0 .. L /\ f.end \in Nat /\ f.start < f.end
      /\ f.start \in 0 .. Len(cs) /\ Len(cs) \in Nat /\ MarkerLength \in Nat /\ L \in Nat
  <2>1. f.start \in 0 .. L /\ f.end \in 0 .. L /\ f.start < f.end
    BY FindingType
  <2>2. f.start \in 0 .. Len(cs) /\ Len(cs) \in Nat
    BY Reaches, TextType
  <2> QED BY <2>1, <2>2, RedactionAssumption
<1>2. /\ Len(t) = f.start + MarkerLength + (IF f.end < Len(cs) THEN Len(cs) - f.end ELSE 0)
      /\ \A j \in 1 .. Len(t) :
            t[j] = IF j <= f.start THEN cs[j]
                   ELSE IF j <= f.start + MarkerLength THEN 0
                   ELSE cs[j - f.start - MarkerLength + f.end]
  BY <1>1, AssignMarker
<1> HIDE DEF t
<1>3. \A j \in 1 .. Len(cs) : cs[j] \in 0 .. L
  BY TextType
<1>4. ASSUME NEW j \in 1 .. Len(t), t[j] # 0
      PROVE  j <= t[j] /\ ~Covered(t[j], dn \cup {f})
  <2>1. Len(t) \in Nat
    BY <1>1, <1>2
  <2>2. CASE j <= f.start
    <3>1. j \in 1 .. L /\ j \in 1 .. Len(cs) /\ t[j] = cs[j]
      BY <1>1, <1>2, <2>1, <2>2
    <3>2. \A g \in dn : j <= g.start
      <4> TAKE g \in dn
      <4>1. g \in Finding /\ f.start <= g.start
        OBVIOUS
      <4>2. g.start \in 0 .. L
        BY <4>1, FindingType
      <4> QED BY <1>1, <2>1, <2>2, <4>1, <4>2
    <3>3. t[j] = j
      BY <3>1, <3>2 DEF Untouched
    <3>4. ~Covered(t[j], dn)
      BY <1>4, <3>1 DEF Survivors
    <3>5. ~(f.start < t[j])
      BY <1>1, <2>2, <3>3, <3>1
    <3> QED BY <3>1, <3>3, <3>4, <3>5 DEF Covered
  <2>3. CASE f.start + MarkerLength < j
    <3> DEFINE k == j - f.start - MarkerLength + f.end
    <3>1. k \in 1 .. Len(cs) /\ j <= k /\ f.end < k
      <4>1. j <= Len(t) /\ j \in Nat /\ f.start \in Nat
        BY <1>1, <2>1
      <4>2. f.end < Len(cs)
        BY <1>1, <1>2, <2>1, <2>3, <4>1
      <4>3. Len(t) = f.start + MarkerLength + (Len(cs) - f.end)
        BY <1>2, <4>2
      <4>4. f.end - f.start >= MarkerLength
        OBVIOUS
      <4>5. j <= k /\ f.end < k /\ k <= Len(cs) /\ k \in Int
        <5> DEFINE a == f.start
                   e == f.end
                   c == Len(cs)
                   n == Len(t)
        <5>1. /\ j \in Nat /\ a \in Nat /\ e \in Nat /\ MarkerLength \in Nat
              /\ c \in Nat /\ n \in Nat
          BY <1>1, <2>1, <4>1, RedactionAssumption
        <5>2. /\ n = a + MarkerLength + (c - e) /\ a + MarkerLength < j /\ j <= n
              /\ e - a >= MarkerLength
          BY <2>3, <4>1, <4>3, <4>4, Zenon
        <5>3. k = j - a - MarkerLength + e
          BY Zenon
        <5> HIDE DEF a, e, c, n, k
        <5>4. j <= k /\ e < k /\ k <= c /\ k \in Int
          BY <5>1, <5>2, <5>3, Shift
        <5> USE DEF a, e, c, n
        <5> QED BY <5>4, Zenon
      <4> QED BY <1>1, <4>5
    <3>2. t[j] = cs[k]
      BY <1>1, <1>2, <2>1, <2>3
    <3> HIDE DEF k
    <3>3. k <= cs[k] /\ ~Covered(cs[k], dn)
      BY <1>4, <3>1, <3>2 DEF Survivors
    <3>4. j <= cs[k] /\ ~(cs[k] <= f.end)
      BY <1>1, <1>3, <2>1, <3>1, <3>3
    <3> QED BY <3>2, <3>3, <3>4 DEF Covered
  <2>4. CASE f.start < j /\ j <= f.start + MarkerLength
    BY <1>1, <1>2, <1>4, <2>1, <2>4
  <2> QED BY <1>1, <2>1, <2>2, <2>3, <2>4
<1>5. Survivors(t, dn \cup {f})
  BY <1>4 DEF Survivors
<1> QED BY <1>5 DEF t

\* With disjoint findings, a turn is one replacement.
LEMMA SpliceExact ==
    ASSUME NEW fs \in SUBSET Finding, NEW td \in SUBSET fs, NEW f \in td, Disjoint(fs),
           \A g \in td : g.start <= f.start,
           \A g \in fs \ td : f.start <= g.start,
           NEW cs,
           \A s \in 0 .. L : Boundary(s, td, fs \ td) => DoneAfter(cs, s, fs),
           NEW s \in 0 .. L, Boundary(s, td \ {f}, fs \ (td \ {f}))
    PROVE  DoneAfter(Assign(cs, f.start, f.end, marker), s, fs)
<1>1. \A g \in fs : g.start \in 0 .. L /\ g.end \in 0 .. L /\ g.start < g.end
  BY FindingType
<1>2. \A g \in fs \ {f} : f.end <= g.start \/ g.end <= f.start
  BY <1>1 DEF Disjoint, Overlap
<1>3. f \in fs /\ f.start \in 0 .. L /\ f.end \in 0 .. L /\ f.start < f.end /\ L \in Nat
  BY <1>1, RedactionAssumption
<1>4. Boundary(f.end, td, fs \ td)
  <2>1. ASSUME NEW g \in td PROVE g.end <= f.end
    <3>1. CASE g = f
      BY <1>3, <3>1
    <3>2. CASE g # f
      BY <1>1, <1>2, <1>3, <3>2
    <3> QED BY <3>1, <3>2
  <2>2. ASSUME NEW g \in fs \ td PROVE f.end <= g.start
    BY <1>1, <1>2, <1>3
  <2> QED BY <2>1, <2>2 DEF Boundary
<1>5. DoneAfter(cs, f.end, fs)
  BY <1>3, <1>4
<1>6. s <= f.start
  BY <1>3 DEF Boundary
<1>7. ASSUME NEW k \in (s + 1) .. f.start PROVE ~Covered(k, fs)
  <2> SUFFICES ASSUME NEW g \in fs, g.start < k, k <= g.end PROVE FALSE
    BY DEF Covered
  <2>1. CASE g \in td \ {f}
    <3>1. g.end <= s
      BY <2>1 DEF Boundary
    <3> QED BY <1>1, <1>3, <3>1
  <2>2. CASE g \notin td \ {f}
    <3>1. f.start <= g.start
      BY <1>3, <2>2
    <3> QED BY <1>1, <1>3, <3>1
  <2> QED BY <2>1, <2>2
<1>8. Covered(f.start + 1, fs)
  BY <1>3 DEF Covered
<1>9. ~Joined(f.start + 1, fs)
  <2> SUFFICES ASSUME NEW g \in fs, g.start + 1 < f.start + 1, f.start + 1 <= g.end PROVE FALSE
    BY DEF Joined
  <2>1. g # f
    BY <1>3
  <2> QED BY <1>1, <1>2, <1>3, <2>1
<1>10. ASSUME NEW k \in (f.start + 2) .. f.end PROVE Covered(k, fs) /\ Joined(k, fs)
  <2>1. f.start < k /\ f.start + 1 < k /\ k <= f.end
    BY <1>3
  <2> QED BY <1>3, <2>1 DEF Covered, Joined
<1> QED BY <1>3, <1>5, <1>6, <1>7, <1>8, <1>9, <1>10, OneReplacement

-----------------------------------------------------------------------------
(* The two loops of tool_sanitize.                                         *)

\* The groups of a sequence are spans.
LEMMA GroupType ==
    ASSUME NEW ms \in Seq(Span)
    PROVE  /\ Len(ms) \in Nat
           /\ \A k \in 1 .. Len(ms) : /\ ms[k] \in Span
                                      /\ ms[k].start \in 0 .. L
                                      /\ ms[k].end \in 0 .. L
                                      /\ ms[k].start < ms[k].end
           /\ ms # << >> => Len(ms) \in 1 .. Len(ms)
           /\ ms = << >> => Len(ms) = 0
           /\ End(ms) \in 0 .. L
<1>1. Len(ms) \in Nat /\ \A k \in 1 .. Len(ms) : ms[k] \in Span
  OBVIOUS
<1>2. \A k \in 1 .. Len(ms) : /\ ms[k].start \in 0 .. L
                              /\ ms[k].end \in 0 .. L
                              /\ ms[k].start < ms[k].end
  BY <1>1, SpanType
<1>3. ms # << >> => Len(ms) \in 1 .. Len(ms)
  BY <1>1, EmptySeq
<1>4. ms = << >> => Len(ms) = 0
  OBVIOUS
<1>5. End(ms) \in 0 .. L
  <2>1. CASE ms = << >>
    BY <2>1, RedactionAssumption DEF End
  <2>2. CASE ms # << >>
    BY <1>2, <1>3, <2>2 DEF End
  <2> QED BY <2>1, <2>2
<1> QED BY <1>1, <1>2, <1>3, <1>4, <1>5

\* A position after the end of the last group is in none.
LEMMA NoGroupAfterEnd ==
    ASSUME NEW ms \in Seq(Span), Ordered(ms), NEW k \in 1 .. Len(ms)
    PROVE  ms[k].end <= End(ms)
<1>1. /\ Len(ms) \in Nat /\ Len(ms) \in 1 .. Len(ms) /\ ms # << >>
      /\ \A j \in 1 .. Len(ms) : /\ ms[j].start \in 0 .. L /\ ms[j].end \in 0 .. L
                                 /\ ms[j].start < ms[j].end
  BY GroupType
<1>2. End(ms) = ms[Len(ms)].end
  BY <1>1 DEF End
<1>3. CASE k = Len(ms)
  BY <1>1, <1>2, <1>3
<1>4. CASE k # Len(ms)
  <2>1. k \in 1 .. (Len(ms) - 1)
    BY <1>1, <1>4
  <2>2. ms[k].end <= ms[Len(ms)].start
    BY <1>1, <2>1 DEF Ordered
  <2> QED BY <1>1, <1>2, <2>2, RedactionAssumption
<1> QED BY <1>3, <1>4

\* A span that starts within the last group extends it.
LEMMA ExtendStep ==
    ASSUME NEW ms \in Seq(Span), NEW dn \in SUBSET Finding, NEW f \in Finding,
           Grouping(ms, dn), ClearAfter(End(ms), dn),
           \A k \in 1 .. Len(ms) : ms[k].start <= f.start,
           ms # << >>, f.start < ms[Len(ms)].end,
           NEW ns, ns = [ms EXCEPT ![Len(ms)] = Extend(ms[Len(ms)], f)]
    PROVE  /\ ns \in Seq(Span)
           /\ \A k \in 1 .. Len(ns) : ns[k].start <= f.start
           /\ Grouping(ns, dn \cup {f})
           /\ ClearAfter(End(ns), dn \cup {f})
<1> DEFINE n == Len(ms)
           a == ms[n].start
           b == ms[n].end
           e == IF b < f.end THEN f.end ELSE b
<1>1. /\ n \in Nat /\ n \in 1 .. n
      /\ \A k \in 1 .. n : /\ ms[k] \in Span
                           /\ ms[k].start \in 0 .. L /\ ms[k].end \in 0 .. L
                           /\ ms[k].start < ms[k].end
  BY GroupType
<1>2. f.start \in 0 .. L /\ f.end \in 0 .. L /\ f.start < f.end /\ L \in Nat
  BY FindingType, RedactionAssumption
<1>3. /\ a \in 0 .. L /\ b \in 0 .. L /\ a < b /\ a <= f.start /\ f.start < b
      /\ e \in 0 .. L /\ a < e /\ b <= e /\ f.end <= e
  BY <1>1, <1>2
<1>4. Extend(ms[n], f) \in Span /\ Extend(ms[n], f).start = a /\ Extend(ms[n], f).end = e
  BY <1>3 DEF Extend, Span
<1>5. /\ ns \in Seq(Span) /\ Len(ns) = n
      /\ \A k \in 1 .. n : /\ ns[k].start = ms[k].start
                           /\ ns[k].end = IF k = n THEN e ELSE ms[k].end
  <2>1. /\ ns \in Seq(Span) /\ Len(ns) = n
        /\ \A k \in 1 .. n : ns[k] = IF k = n THEN Extend(ms[n], f) ELSE ms[k]
    BY <1>1, <1>4, ExceptSeq
  <2> QED BY <1>4, <2>1
<1>6. ns # << >> /\ End(ns) = e /\ End(ms) = b
  <2>1. ns # << >>
    <3>1. Len(ns) # 0 /\ ns \in Seq(Span)
      <4> HIDE DEF n, a, b, e
      <4> QED BY <1>1, <1>5
    <3> QED BY <3>1, GroupType, Zenon
  <2>2. End(ns) = ns[n].end
    BY <1>5, <2>1 DEF End
  <2>3. ns[n].end = e
    BY <1>1, <1>5
  <2> QED BY <2>1, <2>2, <2>3 DEF End
<1> HIDE DEF a, b, e, n
<1>7. Ordered(ns)
  <2> SUFFICES ASSUME NEW k \in 1 .. n, NEW j \in 1 .. (k - 1)
               PROVE  ns[j].end <= ns[k].start
    BY <1>5 DEF Ordered
  <2>1. j \in 1 .. n /\ j # n
    BY <1>1
  <2>2. ms[j].end <= ms[k].start
    BY DEF Grouping, Ordered, n
  <2> QED BY <1>5, <2>1, <2>2
<1>8. ASSUME NEW k \in 1 .. n, k # n PROVE ms[k].end <= a
  BY <1>1, <1>8 DEF Grouping, Ordered, n, a
<1>9. ASSUME NEW i \in 1 .. e
      PROVE  /\ Covered(i, dn \cup {f}) <=> \E k \in 1 .. n : ns[k].start < i /\ i <= ns[k].end
             /\ Joined(i, dn \cup {f}) <=> \E k \in 1 .. n : ns[k].start + 1 < i /\ i <= ns[k].end
  <2>1. i \in 1 .. L /\ i \in Nat
    BY <1>2, <1>3
  <2>2. /\ Covered(i, dn \cup {f}) <=> Covered(i, dn) \/ (f.start < i /\ i <= f.end)
        /\ Joined(i, dn \cup {f}) <=> Joined(i, dn) \/ (f.start + 1 < i /\ i <= f.end)
    BY DEF Covered, Joined
  <2>3. /\ ns[n].start = a /\ ns[n].end = e /\ ms[n].start = a /\ ms[n].end = b
        /\ \A k \in 1 .. n : k # n => ns[k].start = ms[k].start /\ ns[k].end = ms[k].end
    BY <1>1, <1>5 DEF a, b
  <2>4. CASE i <= b
    <3>1. GroupedAs(ms, dn, i)
      BY <1>3, <1>6, <2>1, <2>4 DEF Grouping
    <3>2. /\ (f.start < i /\ i <= f.end) => a < i
          /\ (f.start + 1 < i /\ i <= f.end) => a + 1 < i
          /\ i <= e
      BY <1>2, <1>3, <2>1, <2>4
    <3>3. /\ (\E k \in 1 .. n : ns[k].start < i /\ i <= ns[k].end) <=>
                (\E k \in 1 .. n : ms[k].start < i /\ i <= ms[k].end)
          /\ (\E k \in 1 .. n : ns[k].start + 1 < i /\ i <= ns[k].end) <=>
                (\E k \in 1 .. n : ms[k].start + 1 < i /\ i <= ms[k].end)
      BY <1>1, <2>3, <2>4, <3>2
    <3>4. /\ a < i => \E k \in 1 .. n : ms[k].start < i /\ i <= ms[k].end
          /\ a + 1 < i => \E k \in 1 .. n : ms[k].start + 1 < i /\ i <= ms[k].end
      BY <1>1, <2>3, <2>4
    <3> QED BY <2>2, <3>1, <3>2, <3>3, <3>4 DEF GroupedAs, n
  <2>5. CASE ~(i <= b)
    <3>1. f.start < i /\ f.start + 1 < i /\ i <= f.end
      <4>1. i <= e /\ b < i
        BY <1>3, <2>1, <2>5
      <4>2. i <= f.end
        BY <1>2, <1>3, <2>1, <4>1 DEF e
      <4> QED BY <1>2, <1>3, <2>1, <4>1, <4>2
    <3>2. a < i /\ a + 1 < i /\ i <= e
      BY <1>2, <1>3, <2>1, <3>1
    <3> QED BY <1>1, <2>2, <2>3, <3>1, <3>2
  <2> QED BY <2>4, <2>5
<1>10. Grouping(ns, dn \cup {f})
  BY <1>5, <1>6, <1>7, <1>9 DEF Grouping, GroupedAs
<1>11. ClearAfter(End(ns), dn \cup {f})
  <2> SUFFICES ASSUME NEW i \in (e + 1) .. L PROVE ~Covered(i, dn \cup {f})
    BY <1>6 DEF ClearAfter
  <2>1. i \in (b + 1) .. L /\ ~(i <= f.end)
    BY <1>2, <1>3
  <2>2. ~Covered(i, dn)
    BY <1>6, <2>1 DEF ClearAfter
  <2> QED BY <2>1, <2>2 DEF Covered
<1> QED BY <1>5, <1>10, <1>11 DEF n

\* Another span begins a new group.
LEMMA AppendStep ==
    ASSUME NEW ms \in Seq(Span), NEW dn \in SUBSET Finding, NEW f \in Finding,
           Grouping(ms, dn), ClearAfter(End(ms), dn),
           \A k \in 1 .. Len(ms) : ms[k].start <= f.start,
           ~(ms # << >> /\ f.start < ms[Len(ms)].end),
           NEW ns, ns = Append(ms, [start |-> f.start, end |-> f.end])
    PROVE  /\ ns \in Seq(Span)
           /\ \A k \in 1 .. Len(ns) : ns[k].start <= f.start
           /\ Grouping(ns, dn \cup {f})
           /\ ClearAfter(End(ns), dn \cup {f})
<1> DEFINE n == Len(ms)
           b == End(ms)
<1>1. /\ n \in Nat /\ b \in 0 .. L
      /\ \A k \in 1 .. n : /\ ms[k].start \in 0 .. L /\ ms[k].end \in 0 .. L
                           /\ ms[k].start < ms[k].end
  BY GroupType
<1>2. /\ f.start \in 0 .. L /\ f.end \in 0 .. L /\ f.start < f.end /\ L \in Nat
      /\ [start |-> f.start, end |-> f.end] \in Span
  BY FindingType, RedactionAssumption
<1>3. b <= f.start
  BY <1>1, <1>2, GroupType DEF End
<1>4. \A k \in 1 .. n : ms[k].end <= b
  BY NoGroupAfterEnd DEF Grouping
<1>5. /\ ns \in Seq(Span) /\ Len(ns) = n + 1
      /\ ns[n + 1].start = f.start /\ ns[n + 1].end = f.end
      /\ \A k \in 1 .. n : ns[k] = ms[k]
  <2>1. /\ ns \in Seq(Span) /\ Len(ns) = n + 1
        /\ ns[n + 1] = [start |-> f.start, end |-> f.end]
        /\ \A k \in 1 .. n : ns[k] = ms[k]
    BY <1>2, AppendProperties
  <2> QED BY <2>1
<1>6. ns # << >> /\ End(ns) = f.end
  BY <1>1, <1>5 DEF End
<1> HIDE DEF b, n
<1>7. Ordered(ns)
  <2> SUFFICES ASSUME NEW k \in 1 .. (n + 1), NEW j \in 1 .. (k - 1)
               PROVE  ns[j].end <= ns[k].start
    BY <1>5 DEF Ordered
  <2>1. j \in 1 .. n
    BY <1>1
  <2>2. CASE k = n + 1
    <3>1. ns[j].end <= b
      BY <1>4, <1>5, <2>1
    <3> QED BY <1>1, <1>2, <1>3, <1>5, <2>1, <2>2, <3>1
  <2>3. CASE k # n + 1
    <3>1. k \in 1 .. n
      BY <1>1, <2>3
    <3>2. ms[j].end <= ms[k].start
      BY <3>1 DEF Grouping, Ordered, n
    <3> QED BY <1>5, <2>1, <3>1, <3>2
  <2> QED BY <2>2, <2>3
<1>8. ASSUME NEW i \in 1 .. f.end
      PROVE  /\ Covered(i, dn \cup {f}) <=>
                   \E k \in 1 .. (n + 1) : ns[k].start < i /\ i <= ns[k].end
             /\ Joined(i, dn \cup {f}) <=>
                   \E k \in 1 .. (n + 1) : ns[k].start + 1 < i /\ i <= ns[k].end
  <2>1. i \in 1 .. L /\ i \in Nat
    BY <1>2
  <2>2. /\ Covered(i, dn \cup {f}) <=> Covered(i, dn) \/ (f.start < i /\ i <= f.end)
        /\ Joined(i, dn \cup {f}) <=> Joined(i, dn) \/ (f.start + 1 < i /\ i <= f.end)
    BY DEF Covered, Joined
  <2>3. /\ (\E k \in 1 .. (n + 1) : ns[k].start < i /\ i <= ns[k].end) <=>
              \/ \E k \in 1 .. n : ms[k].start < i /\ i <= ms[k].end
              \/ f.start < i /\ i <= f.end
        /\ (\E k \in 1 .. (n + 1) : ns[k].start + 1 < i /\ i <= ns[k].end) <=>
              \/ \E k \in 1 .. n : ms[k].start + 1 < i /\ i <= ms[k].end
              \/ f.start + 1 < i /\ i <= f.end
    <3>1. 1 .. (n + 1) = (1 .. n) \cup {n + 1}
      BY <1>1
    <3> QED BY <1>5, <3>1
  <2>4. /\ Covered(i, dn) <=> \E k \in 1 .. n : ms[k].start < i /\ i <= ms[k].end
        /\ Joined(i, dn) <=> \E k \in 1 .. n : ms[k].start + 1 < i /\ i <= ms[k].end
    <3>1. CASE i <= b
      <4>1. i \in 1 .. b
        BY <1>1, <2>1, <3>1
      <4> QED BY <4>1 DEF Grouping, GroupedAs, n, b
    <3>2. CASE ~(i <= b)
      <4>1. i \in (b + 1) .. L
        BY <1>1, <2>1, <3>2
      <4>2. ~Covered(i, dn)
        BY <4>1 DEF ClearAfter, b
      <4>3. ~Joined(i, dn)
        <5>1. \A g \in dn : g.start \in 0 .. L
          BY FindingType
        <5> QED BY <2>1, <4>2, <5>1 DEF Covered, Joined
      <4>4. \A k \in 1 .. n : ~(i <= ms[k].end)
        BY <1>1, <1>4, <2>1, <3>2
      <4> QED BY <4>2, <4>3, <4>4
    <3> QED BY <3>1, <3>2
  <2> QED BY <2>2, <2>3, <2>4
<1>9. Grouping(ns, dn \cup {f})
  BY <1>5, <1>6, <1>7, <1>8 DEF Grouping, GroupedAs
<1>10. ClearAfter(End(ns), dn \cup {f})
  <2> SUFFICES ASSUME NEW i \in (f.end + 1) .. L PROVE ~Covered(i, dn \cup {f})
    BY <1>6 DEF ClearAfter
  <2>1. i \in (b + 1) .. L /\ ~(i <= f.end)
    BY <1>1, <1>2, <1>3
  <2>2. ~Covered(i, dn)
    BY <2>1 DEF ClearAfter, b
  <2> QED BY <2>1, <2>2 DEF Covered
<1>11. ASSUME NEW k \in 1 .. (n + 1) PROVE ns[k].start <= f.start
  <2>1. CASE k = n + 1
    BY <1>2, <1>5, <2>1
  <2>2. CASE k # n + 1
    <3>1. k \in 1 .. n
      BY <1>1, <2>2
    <3> QED BY <1>5, <3>1 DEF n
  <2> QED BY <2>1, <2>2
<1> QED BY <1>5, <1>9, <1>10, <1>11

\* The last group is replaced.
LEMMA ReplaceStep ==
    ASSUME NEW ms \in Seq(Span), ms # << >>, NEW fs \in SUBSET Finding, Grouping(ms, fs),
           NEW text, DoneAfter(text, End(ms), fs),
           NEW ns, ns = SubSeq(ms, 1, Len(ms) - 1)
    PROVE  LET g == ms[Len(ms)]
           IN  /\ ns \in Seq(Span)
               /\ Grouping(ns, fs)
               /\ DoneAfter(Assign(text, g.start, g.end, marker), End(ns), fs)
<1> DEFINE n == Len(ms)
           a == ms[n].start
           e == ms[n].end
           s == End(ns)
<1>1. /\ n \in Nat /\ n \in 1 .. n /\ L \in Nat
      /\ \A k \in 1 .. n : /\ ms[k] \in Span
                           /\ ms[k].start \in 0 .. L /\ ms[k].end \in 0 .. L
                           /\ ms[k].start < ms[k].end
  BY GroupType, RedactionAssumption
<1>2. /\ ns \in Seq(Span) /\ Len(ns) = n - 1
      /\ \A k \in 1 .. (n - 1) : ns[k] = ms[k]
  <2>1. n - 1 \in Nat /\ \A k \in 1 .. (n - 1) : ms[k] \in Span
    BY <1>1
  <2>2. /\ ns \in Seq(Span)
        /\ Len(ns) = IF 1 <= n - 1 THEN (n - 1) - 1 + 1 ELSE 0
        /\ \A k \in 1 .. ((n - 1) - 1 + 1) : ns[k] = ms[1 + k - 1]
    BY <2>1, SubSeqProperties
  <2>3. Len(ns) = n - 1
    <3> HIDE DEF n
    <3> QED BY <2>1, <2>2
  <2>4. ASSUME NEW k \in 1 .. (n - 1) PROVE ns[k] = ms[k]
    <3>1. k \in 1 .. ((n - 1) - 1 + 1) /\ 1 + k - 1 = k
      BY <1>1
    <3> QED BY <2>2, <3>1
  <2> QED BY <2>2, <2>3, <2>4
<1>3. a \in 0 .. L /\ e \in 0 .. L /\ a < e /\ End(ms) = e
  BY <1>1 DEF End
<1>4. ASSUME NEW k \in 1 .. (n - 1) PROVE ms[k].end <= a
  BY <1>1 DEF Grouping, Ordered
<1>5. s \in 0 .. L /\ s <= a
  <2>1. s \in 0 .. L
    BY <1>2, GroupType
  <2>2. CASE ns = << >>
    <3>1. s = 0
      BY <2>2 DEF End
    <3> QED BY <1>1, <1>3, <3>1
  <2>3. CASE ns # << >>
    <3>1. Len(ns) \in 1 .. Len(ns)
      BY <1>2, <2>3, GroupType
    <3>2. s = ms[n - 1].end /\ n - 1 \in 1 .. (n - 1)
      BY <1>2, <2>3, <3>1 DEF End
    <3> QED BY <1>4, <2>1, <3>2
  <2> QED BY <2>1, <2>2, <2>3
<1>6. Ordered(ns)
  <2> SUFFICES ASSUME NEW k \in 1 .. (n - 1), NEW j \in 1 .. (k - 1)
               PROVE  ns[j].end <= ns[k].start
    BY <1>2 DEF Ordered
  <2>1. j \in 1 .. (n - 1) /\ k \in 1 .. n
    BY <1>1
  <2>2. ms[j].end <= ms[k].start
    BY <2>1 DEF Grouping, Ordered
  <2> QED BY <1>2, <2>1, <2>2
<1>7. \A k \in 1 .. (n - 1) : ms[k].end <= s
  <2>1. \A k \in 1 .. Len(ns) : ns[k].end <= End(ns)
    BY <1>2, <1>6, NoGroupAfterEnd
  <2> QED BY <1>2, <2>1
<1>8. \A i \in 1 .. e :
         /\ Covered(i, fs) <=> \E k \in 1 .. n : ms[k].start < i /\ i <= ms[k].end
         /\ Joined(i, fs) <=> \E k \in 1 .. n : ms[k].start + 1 < i /\ i <= ms[k].end
  BY <1>3 DEF Grouping, GroupedAs
<1>9. 1 .. n = (1 .. (n - 1)) \cup {n}
  BY <1>1
<1> HIDE DEF n, a, e, s
<1>10. Grouping(ns, fs)
  <2> SUFFICES ASSUME NEW i \in 1 .. s PROVE GroupedAs(ns, fs, i)
    BY <1>6 DEF Grouping, s
  <2>1. i \in 1 .. e /\ ~(a < i) /\ ~(a + 1 < i)
    BY <1>3, <1>5
  <2>2. /\ (\E k \in 1 .. n : ms[k].start < i /\ i <= ms[k].end) <=>
              (\E k \in 1 .. (n - 1) : ns[k].start < i /\ i <= ns[k].end)
        /\ (\E k \in 1 .. n : ms[k].start + 1 < i /\ i <= ms[k].end) <=>
              (\E k \in 1 .. (n - 1) : ns[k].start + 1 < i /\ i <= ns[k].end)
    BY <1>2, <1>9, <2>1 DEF a
  <2> QED BY <1>2, <1>8, <2>1, <2>2 DEF GroupedAs
<1>11. \A k \in (s + 1) .. a : ~Covered(k, fs)
  <2> SUFFICES ASSUME NEW i \in (s + 1) .. a PROVE ~Covered(i, fs)
    OBVIOUS
  <2>1. i \in 1 .. e /\ ~(a < i)
    BY <1>3, <1>5
  <2>2. \A k \in 1 .. (n - 1) : ~(i <= ms[k].end)
    BY <1>1, <1>3, <1>5, <1>7, <2>1
  <2>3. \A k \in 1 .. n : ~(ms[k].start < i /\ i <= ms[k].end)
    BY <1>9, <2>1, <2>2 DEF a
  <2> QED BY <1>8, <2>1, <2>3
<1>12. Covered(a + 1, fs) /\ ~Joined(a + 1, fs)
  <2>1. a + 1 \in 1 .. e /\ a < a + 1 /\ a + 1 <= e /\ ~(a + 1 < a + 1)
    BY <1>3
  <2>2. \E k \in 1 .. n : ms[k].start < a + 1 /\ a + 1 <= ms[k].end
    BY <1>1, <2>1 DEF a, e
  <2>3. \A k \in 1 .. (n - 1) : ~(a + 1 <= ms[k].end)
    BY <1>1, <1>3, <1>4
  <2>4. \A k \in 1 .. n : ~(ms[k].start + 1 < a + 1 /\ a + 1 <= ms[k].end)
    BY <1>9, <2>1, <2>3 DEF a
  <2> QED BY <1>8, <2>1, <2>2, <2>4
<1>13. \A k \in (a + 2) .. e : Covered(k, fs) /\ Joined(k, fs)
  <2> SUFFICES ASSUME NEW i \in (a + 2) .. e PROVE Covered(i, fs) /\ Joined(i, fs)
    OBVIOUS
  <2>1. i \in 1 .. e /\ a < i /\ a + 1 < i /\ i <= e
    BY <1>3
  <2>2. /\ \E k \in 1 .. n : ms[k].start < i /\ i <= ms[k].end
        /\ \E k \in 1 .. n : ms[k].start + 1 < i /\ i <= ms[k].end
    BY <1>1, <2>1 DEF a, e
  <2> QED BY <1>8, <2>1, <2>2
<1>14. DoneAfter(text, e, fs)
  BY <1>3
<1>15. DoneAfter(Assign(text, a, e, marker), s, fs)
  BY <1>3, <1>5, <1>11, <1>12, <1>13, <1>14, OneReplacement
<1> QED BY <1>2, <1>10, <1>15 DEF a, e, s, n

-----------------------------------------------------------------------------
(* The invariant.                                                          *)

LEMMA RedactionInitially == RedactionInit => RedactionInv
<1> SUFFICES ASSUME RedactionInit PROVE RedactionInv
  OBVIOUS
<1>1. ASSUME NEW n, NEW S \in Reports(n) PROVE S \subseteq Finding
  <2>1. CASE S = {}
    BY <2>1
  <2>2. ASSUME NEW s \in [1 .. n -> Finding], S = {s[i] : i \in 1 .. n}
        PROVE  S \subseteq Finding
    BY <2>2
  <2> QED BY <2>1, <2>2 DEF Reports
<1>2. regex \subseteq Finding /\ presidio \subseteq Finding
  <2>1. /\ regex \in Reports(MaxFindings)
        /\ presidio \in Reports(MaxFindings - Cardinality(regex))
    BY DEF RedactionInit
  <2> QED BY <1>1, <2>1
<1>3. << >> \in Seq(Span)
  OBVIOUS
<1>4. chars \in Text
  BY DocumentType, Zenon DEF RedactionInit
<1> QED BY <1>2, <1>3, <1>4 DEF RedactionInit, RedactionInv, RedactionTypeOK

LEMMA SpliceKeeps ==
    ASSUME RedactionInv, NEW f \in Finding, Splice(f)
    PROVE  RedactionInv'
<1>1. /\ pc = "agent" /\ pc' = "agent" /\ f \in todo
      /\ \A g \in todo : g.start <= f.start
      /\ chars' = Assign(chars, f.start, f.end, marker)
      /\ todo' = todo \ {f} /\ findings' = findings /\ merged' = merged
      /\ regex' = regex /\ presidio' = presidio
  BY DEF Splice, RedactionInv
<1>2. /\ RedactionTypeOK /\ AgentInv
  BY <1>1 DEF RedactionInv
<1>3. /\ findings \in SUBSET Finding /\ todo \in SUBSET findings
      /\ chars \in Text /\ Done \in SUBSET Finding
  BY <1>2 DEF RedactionTypeOK, Done
<1>4. Done' = Done \cup {f}
  BY <1>1, <1>3 DEF Done
<1>5. \A g \in Done : f.start <= g.start
  BY <1>1, <1>2 DEF AgentInv
<1>6. chars' \in Text /\ Untouched(chars', Done')
  BY <1>1, <1>2, <1>3, <1>4, <1>5, SpliceUntouched DEF AgentInv
<1>7. RedactionTypeOK'
  BY <1>1, <1>2, <1>6 DEF RedactionTypeOK
<1>8. ASSUME NEW h \in todo', NEW g \in Done' PROVE h.start <= g.start
  <2>1. CASE g \in Done
    BY <1>1, <1>2, <2>1 DEF AgentInv
  <2>2. CASE g = f
    BY <1>1, <2>2
  <2> QED BY <1>4, <2>1, <2>2
<1>9. ASSUME Long(findings) PROVE Survivors(chars', Done')
  <2>1. Survivors(chars, Done) /\ f.end - f.start >= MarkerLength
    BY <1>1, <1>2, <1>3, <1>9 DEF AgentInv, Long
  <2> QED BY <1>1, <1>2, <1>3, <1>4, <1>5, <2>1, SpliceSurvivors DEF AgentInv
<1>10. ASSUME Disjoint(findings), NEW s \in 0 .. L, Boundary(s, todo', Done')
       PROVE  DoneAfter(chars', s, findings)
  <2>1. \A t \in 0 .. L : Boundary(t, todo, findings \ todo) => DoneAfter(chars, t, findings)
    BY <1>2, <1>10 DEF AgentInv, Done
  <2>2. Boundary(s, todo \ {f}, findings \ (todo \ {f}))
    BY <1>1, <1>10 DEF Done
  <2>3. \A g \in findings \ todo : f.start <= g.start
    BY <1>5 DEF Done
  <2> QED BY <1>1, <1>3, <1>10, <2>1, <2>2, <2>3, SpliceExact
<1>11. AgentInv'
  BY <1>1, <1>6, <1>8, <1>9, <1>10 DEF AgentInv
<1> QED BY <1>1, <1>7, <1>11 DEF RedactionInv

LEMMA GroupKeeps ==
    ASSUME RedactionInv, NEW f \in Finding, Group(f)
    PROVE  RedactionInv'
<1>1. /\ pc = "tool" /\ pc' = "tool" /\ f \in todo
      /\ \A g \in todo : ~Before(g, f)
      /\ merged' = IF merged # << >> /\ f.start < merged[Len(merged)].end
                   THEN [merged EXCEPT ![Len(merged)] = Extend(merged[Len(merged)], f)]
                   ELSE Append(merged, [start |-> f.start, end |-> f.end])
      /\ todo' = todo \ {f} /\ findings' = findings /\ chars' = chars
      /\ regex' = regex /\ presidio' = presidio
  BY DEF Group, RedactionInv
<1>2. RedactionTypeOK /\ ToolInv
  BY <1>1 DEF RedactionInv
<1>3. /\ merged \in Seq(Span) /\ Done \in SUBSET Finding
      /\ Done' = Done \cup {f} /\ todo # {}
      /\ todo \subseteq Finding
  BY <1>1, <1>2 DEF RedactionTypeOK, Done
<1>4. /\ Grouping(merged, Done) /\ ClearAfter(End(merged), Done)
      /\ \A k \in 1 .. Len(merged) : merged[k].start <= f.start
      /\ chars = Document
  BY <1>1, <1>2, <1>3 DEF ToolInv
<1>5. /\ merged' \in Seq(Span)
      /\ \A k \in 1 .. Len(merged') : merged'[k].start <= f.start
      /\ Grouping(merged', Done')
      /\ ClearAfter(End(merged'), Done')
  <2>1. CASE merged # << >> /\ f.start < merged[Len(merged)].end
    BY <1>1, <1>3, <1>4, <2>1, ExtendStep
  <2>2. CASE ~(merged # << >> /\ f.start < merged[Len(merged)].end)
    BY <1>1, <1>3, <1>4, <2>2, AppendStep
  <2> QED BY <2>1, <2>2
<1>6. RedactionTypeOK'
  BY <1>1, <1>2, <1>5 DEF RedactionTypeOK
<1>7. ASSUME NEW g \in todo', NEW k \in 1 .. Len(merged') PROVE merged'[k].start <= g.start
  <2>1. f.start <= g.start
    <3>1. g \in Finding /\ ~Before(g, f)
      BY <1>1, <1>3
    <3>2. g.start \in 0 .. L /\ f.start \in 0 .. L
      BY <3>1, FindingType
    <3> QED BY <3>1, <3>2, RedactionAssumption DEF Before
  <2>2. g.start \in 0 .. L /\ f.start \in 0 .. L /\ merged'[k].start \in 0 .. L
    BY <1>1, <1>3, <1>5, FindingType, GroupType
  <2>3. merged'[k].start <= f.start
    BY <1>5
  <2> QED BY <2>1, <2>2, <2>3, RedactionAssumption
<1>8. ASSUME todo' = {} PROVE DoneAfter(chars', End(merged'), findings')
  <2>1. Done' = findings
    BY <1>1, <1>8 DEF Done
  <2>2. End(merged') \in 0 .. L
    BY <1>5, GroupType
  <2>3. \A k \in (End(merged') + 1) .. L : ~Covered(k, findings)
    BY <1>5, <2>1 DEF ClearAfter
  <2> QED BY <1>1, <1>4, <2>2, <2>3, NothingToDo
<1>9. ToolInv'
  BY <1>1, <1>4, <1>5, <1>7, <1>8 DEF ToolInv
<1> QED BY <1>1, <1>6, <1>9 DEF RedactionInv

LEMMA ReplaceKeeps ==
    ASSUME RedactionInv, Replace
    PROVE  RedactionInv'
<1> DEFINE g == merged[Len(merged)]
<1>1. /\ pc = "tool" /\ pc' = "tool" /\ todo = {} /\ todo' = {} /\ merged # << >>
      /\ chars' = Assign(chars, g.start, g.end, marker)
      /\ merged' = SubSeq(merged, 1, Len(merged) - 1)
      /\ findings' = findings /\ regex' = regex /\ presidio' = presidio
  BY DEF Replace, RedactionInv
<1>2. RedactionTypeOK /\ ToolInv
  BY <1>1 DEF RedactionInv
<1>3. /\ merged \in Seq(Span) /\ findings \in SUBSET Finding
      /\ Done = findings /\ Done' = findings
  BY <1>1, <1>2 DEF RedactionTypeOK, Done
<1>4. Grouping(merged, findings) /\ DoneAfter(chars, End(merged), findings)
  BY <1>1, <1>2, <1>3 DEF ToolInv
<1>5. /\ merged' \in Seq(Span)
      /\ Grouping(merged', findings)
      /\ DoneAfter(chars', End(merged'), findings)
  BY <1>1, <1>3, <1>4, ReplaceStep
<1>6. chars' \in Text
  <2> DEFINE e == End(merged')
  <2>1. e \in 0 .. L
    BY <1>5, GroupType
  <2>2. SubSeq(Document, 1, e) \in Text
    BY <2>1, DocumentType, Part
  <2>3. Rest(e + 1, findings) \in Text
    <3>1. e + 1 \in 1 .. (L + 1)
      BY <2>1, RedactionAssumption
    <3> QED BY <3>1, TailsUnroll
  <2>4. chars' = SubSeq(Document, 1, e) \o Rest(e + 1, findings)
    BY <1>5 DEF DoneAfter
  <2> QED BY <2>2, <2>3, <2>4, Joins
<1>7. RedactionTypeOK'
  BY <1>1, <1>2, <1>3, <1>5, <1>6 DEF RedactionTypeOK
<1>8. ToolInv'
  BY <1>1, <1>3, <1>5 DEF ToolInv
<1> QED BY <1>1, <1>7, <1>8 DEF RedactionInv

LEMMA RedactionStep == RedactionInv /\ [RedactionNext]_redactionVars => RedactionInv'
<1> SUFFICES ASSUME RedactionInv, [RedactionNext]_redactionVars PROVE RedactionInv'
  OBVIOUS
<1>1. CASE Merge
  <2>1. findings' \subseteq Finding
    BY <1>1 DEF Merge, _merge_findings, RedactionInv, RedactionTypeOK
  <2>2. /\ pc = "detected" /\ pc' = "stored" /\ todo' = {} /\ merged' = merged
        /\ chars' = chars /\ regex' = regex /\ presidio' = presidio
    BY <1>1 DEF Merge, RedactionInv
  <2> QED BY <2>1, <2>2 DEF RedactionInv, RedactionTypeOK
<1>2. CASE _apply_redactions
  <2>1. /\ pc = "stored" /\ pc' = "agent" /\ todo' = findings /\ findings' = findings
        /\ merged' = merged /\ chars' = chars /\ regex' = regex /\ presidio' = presidio
    BY <1>2 DEF _apply_redactions
  <2>2. RedactionTypeOK' /\ chars' = Document /\ Done' = {}
    BY <2>1 DEF RedactionInv, RedactionTypeOK, Done
  <2>3. Untouched(chars', {}) /\ Survivors(chars', {})
    BY <2>2, DocumentType, RedactionAssumption DEF Untouched, Survivors, Covered
  <2>4. ASSUME NEW s \in 0 .. L, Boundary(s, findings, {})
        PROVE  DoneAfter(chars', s, findings)
    <3>1. \A f \in findings : f.end \in 0 .. L /\ f.end <= s
      BY <2>4, FindingType DEF Boundary, RedactionInv, RedactionTypeOK
    <3>2. \A k \in (s + 1) .. L : ~Covered(k, findings)
      BY <3>1, RedactionAssumption DEF Covered
    <3> QED BY <2>2, <3>2, NothingToDo
  <2>5. AgentInv'
    BY <2>1, <2>2, <2>3, <2>4 DEF AgentInv
  <2> QED BY <2>1, <2>2, <2>5 DEF RedactionInv
<1>3. CASE tool_sanitize
  <2>1. /\ pc = "stored" /\ pc' = "tool" /\ todo' = findings /\ findings' = findings
        /\ merged' = merged /\ chars' = chars /\ regex' = regex /\ presidio' = presidio
    BY <1>3 DEF tool_sanitize
  <2>2. RedactionTypeOK' /\ chars' = Document /\ Done' = {} /\ merged' = << >>
    BY <2>1 DEF RedactionInv, RedactionTypeOK, Done
  <2>3. End(merged') = 0 /\ Grouping(merged', {}) /\ ClearAfter(End(merged'), {})
    <3>1. Len(merged') = 0 /\ End(merged') = 0
      BY <2>2 DEF End
    <3>2. Ordered(merged')
      BY <3>1 DEF Ordered
    <3> QED BY <3>1, <3>2 DEF Grouping, ClearAfter, Covered
  <2>4. ASSUME findings = {} PROVE DoneAfter(chars', 0, findings)
    <3>1. \A k \in (0 + 1) .. L : ~Covered(k, findings)
      BY <2>4 DEF Covered
    <3>2. 0 \in 0 .. L
      BY RedactionAssumption
    <3> QED BY <2>2, <3>1, <3>2, NothingToDo
  <2>5. \A k : ~(k \in 1 .. Len(merged'))
    BY <2>2
  <2>6. ToolInv'
    BY <2>1, <2>2, <2>3, <2>4, <2>5 DEF ToolInv
  <2> QED BY <2>1, <2>2, <2>6 DEF RedactionInv
<1>4. ASSUME NEW f \in Finding, Splice(f) PROVE RedactionInv'
  BY <1>4, SpliceKeeps
<1>5. ASSUME NEW f \in Finding, Group(f) PROVE RedactionInv'
  BY <1>5, GroupKeeps
<1>6. CASE Replace
  BY <1>6, ReplaceKeeps
<1>7. CASE UNCHANGED redactionVars
  <2>1. /\ pc' = pc /\ todo' = todo /\ findings' = findings /\ merged' = merged
        /\ chars' = chars /\ regex' = regex /\ presidio' = presidio
    BY <1>7 DEF redactionVars
  <2>2. Done' = Done
    BY <2>1 DEF Done
  <2>3. (AgentInv <=> AgentInv') /\ (ToolInv <=> ToolInv') /\ RedactionTypeOK'
    BY <2>1, <2>2 DEF AgentInv, ToolInv, RedactionInv, RedactionTypeOK
  <2> QED BY <2>1, <2>3 DEF RedactionInv
<1> QED BY <1>1, <1>2, <1>3, <1>4, <1>5, <1>6, <1>7 DEF RedactionNext

-----------------------------------------------------------------------------
(* The theorems about redaction.                                           *)

LEMMA RedactionAlways == RedactionSpec => []RedactionInv
BY RedactionInitially, RedactionStep, PTL DEF RedactionSpec

\* What is done after position 0 is the reference.
LEMMA DoneIsReference ==
    ASSUME NEW text, NEW fs, DoneAfter(text, 0, fs)
    PROVE  text = Reference(fs)
<1>1. 0 + 1 = 1 /\ 1 \in 1 .. (L + 1) /\ L - 1 + 1 = L
  BY RedactionAssumption
<1>2. Rest(1, fs) \in Text /\ Rest(1, fs) = Reference(fs)
  BY <1>1, TailsUnroll DEF Rest, Reference
<1>3. SubSeq(Document, 1, 0) = << >>
  BY SubSeqEmpty
<1>4. << >> \o Rest(1, fs) = Rest(1, fs)
  BY <1>2, ConcatEmptySeq DEF Text
<1> QED BY <1>1, <1>2, <1>3, <1>4 DEF DoneAfter

(***************************************************************************)
(* DisjointIsExact: _apply_redactions of the sanitizer agent replaces each *)
(* of any number of disjoint spans by one marker and keeps all else.       *)
(***************************************************************************)
THEOREM RedactionIsExact == RedactionSpec => []DisjointIsExact
<1>1. RedactionInv => DisjointIsExact
  <2> SUFFICES ASSUME RedactionInv, Applied,
                      \A f, g \in findings : f # g => ~Overlap(f, g)
               PROVE  chars = Reference(findings)
    BY DEF DisjointIsExact
  <2>1. AgentInv /\ todo = {} /\ findings \subseteq Finding /\ Disjoint(findings)
    BY DEF Applied, RedactionInv, RedactionTypeOK, Disjoint
  <2>2. 0 \in 0 .. L /\ Boundary(0, todo, Done)
    <3>1. \A g \in findings : g.start \in 0 .. L
      BY <2>1, FindingType
    <3>2. \A g \in findings : 0 <= g.start
      BY <3>1
    <3> QED BY <2>1, <3>2, RedactionAssumption DEF Boundary, Done
  <2>3. DoneAfter(chars, 0, findings)
    BY <2>1, <2>2 DEF AgentInv
  <2> QED BY <2>3, DoneIsReference
<1> QED BY <1>1, RedactionAlways, PTL

(***************************************************************************)
(* LongFindingsAreCovered: if no finding is shorter than the marker, no    *)
(* character of a finding is left by _apply_redactions, however findings   *)
(* overlap.                                                                *)
(***************************************************************************)
THEOREM NothingLongIsLeft == RedactionSpec => []LongFindingsAreCovered
<1>1. RedactionInv => LongFindingsAreCovered
  <2> SUFFICES ASSUME RedactionInv, Applied,
                      \A f \in findings : f.end - f.start >= MarkerLength,
                      NEW i \in 1 .. Len(chars), Covered(chars[i], findings)
               PROVE  FALSE
    BY DEF LongFindingsAreCovered
  <2>1. AgentInv /\ todo = {} /\ findings \subseteq Finding /\ Long(findings) /\ Done = findings
    BY DEF Applied, RedactionInv, RedactionTypeOK, Long, Done
  <2>2. Survivors(chars, findings)
    BY <2>1 DEF AgentInv
  <2>3. chars[i] = 0
    BY <2>2 DEF Survivors
  <2>4. PICK f \in findings : f.start < chars[i]
    BY DEF Covered
  <2>5. f.start \in 0 .. L
    BY <2>1, FindingType
  <2> QED BY <2>3, <2>4, <2>5
<1> QED BY <1>1, RedactionAlways, PTL

(***************************************************************************)
(* ToolIsExact: tool_sanitize replaces each maximal group of any findings  *)
(* by one marker and keeps all else.                                       *)
(***************************************************************************)
THEOREM ToolRedactionIsExact == RedactionSpec => []ToolIsExact
<1>1. RedactionInv => ToolIsExact
  <2> SUFFICES ASSUME RedactionInv, pc = "tool", todo = {}, merged = << >>
               PROVE  chars = Reference(findings)
    BY DEF ToolIsExact
  <2>1. DoneAfter(chars, 0, findings)
    BY DEF RedactionInv, ToolInv, End
  <2> QED BY <2>1, DoneIsReference
<1> QED BY <1>1, RedactionAlways, PTL

-----------------------------------------------------------------------------
(* Recall.                                                                 *)

LEMMA MaxMin ==
    ASSUME NEW a \in Nat, NEW b \in Nat
    PROVE  /\ Max({a, b}) = IF a < b THEN b ELSE a
           /\ Min({a, b}) = IF a < b THEN a ELSE b
<1> DEFINE m == IF a < b THEN b ELSE a
           n == IF a < b THEN a ELSE b
<1>1. m \in {a, b} /\ (\A y \in {a, b} : m >= y)
      /\ \A x \in {a, b} : (\A y \in {a, b} : x >= y) => x = m
  OBVIOUS
<1>2. n \in {a, b} /\ (\A y \in {a, b} : n <= y)
      /\ \A x \in {a, b} : (\A y \in {a, b} : x <= y) => x = n
  OBVIOUS
<1> HIDE DEF m, n
<1>3. Max({a, b}) = m
  BY <1>1 DEF Max
<1>4. Min({a, b}) = n
  BY <1>2 DEF Min
<1> QED BY <1>3, <1>4 DEF m, n

\* The length of the intersection.
Common(a, b) ==
    LET s == IF a.start < b.start THEN b.start ELSE a.start
        t == IF a.end < b.end THEN a.end ELSE b.end
    IN  IF t <= s THEN 0 ELSE t - s

Length(a) == a.end - a.start

Proper(a) == a.start \in Nat /\ a.end \in Nat /\ a.start < a.end

Hit(a, b) == 2 * _iou(a, b).num >= _iou(a, b).den

\* A hit, without the division.
LEMMA HitMeans ==
    ASSUME NEW a, NEW b, Proper(a), Proper(b), Hit(a, b)
    PROVE  3 * Common(a, b) >= Length(a) + Length(b) /\ Common(a, b) > 0
<1>1. /\ Max({a.start, b.start}) = IF a.start < b.start THEN b.start ELSE a.start
      /\ Min({a.end, b.end}) = IF a.end < b.end THEN a.end ELSE b.end
  BY MaxMin DEF Proper
<1> DEFINE s == IF a.start < b.start THEN b.start ELSE a.start
           t == IF a.end < b.end THEN a.end ELSE b.end
<1>2. s \in Nat /\ t \in Nat
  BY DEF Proper
<1>3. _iou(a, b) = IF t <= s THEN [num |-> 0, den |-> 1]
                   ELSE [num |-> t - s,
                         den |-> (a.end - a.start) + (b.end - b.start) - (t - s)]
  BY <1>1, Zenon DEF _iou
<1>4. Common(a, b) = IF t <= s THEN 0 ELSE t - s
  BY DEF Common
<1> HIDE DEF s, t
<1>5. ~(t <= s)
  BY <1>3 DEF Hit
<1>6. 2 * (t - s) >= (a.end - a.start) + (b.end - b.start) - (t - s)
  BY <1>3, <1>5 DEF Hit
<1> QED BY <1>2, <1>4, <1>5, <1>6 DEF Proper, Length

\* Cardinalities of positions are lengths.
LEMMA PositionsCount ==
    ASSUME NEW a, NEW b, Proper(a), Proper(b)
    PROVE  /\ Cardinality(Positions(a)) = Length(a)
           /\ Common(a, b) > 0 =>
                 Cardinality(Positions(a) \cap Positions(b)) = Common(a, b)
<1>1. Cardinality(Positions(a)) = Length(a)
  <2>1. a.start + 1 \in Int /\ a.end \in Int /\ ~(a.start + 1 > a.end)
    BY DEF Proper
  <2>2. Cardinality((a.start + 1) .. a.end) = a.end - (a.start + 1) + 1
    BY <2>1, FS_Interval
  <2>3. a.end - (a.start + 1) + 1 = a.end - a.start
    BY DEF Proper
  <2> QED BY <2>2, <2>3 DEF Positions, Length
<1>2. ASSUME Common(a, b) > 0
      PROVE  Cardinality(Positions(a) \cap Positions(b)) = Common(a, b)
  <2> DEFINE s == IF a.start < b.start THEN b.start ELSE a.start
             t == IF a.end < b.end THEN a.end ELSE b.end
  <2>1. s \in Nat /\ t \in Nat
    BY DEF Proper
  <2>2. Positions(a) \cap Positions(b) = (s + 1) .. t
    BY DEF Proper, Positions
  <2>3. Common(a, b) = IF t <= s THEN 0 ELSE t - s
    BY DEF Common
  <2> HIDE DEF s, t
  <2>4. ~(t <= s) /\ Common(a, b) = t - s
    BY <1>2, <2>3
  <2>5. s + 1 \in Int /\ t \in Int /\ ~(s + 1 > t) /\ t - (s + 1) + 1 = t - s
    BY <2>1, <2>4
  <2>6. Cardinality((s + 1) .. t) = t - (s + 1) + 1
    BY <2>5, FS_Interval
  <2> QED BY <2>2, <2>4, <2>5, <2>6
<1> QED BY <1>1, <1>2

\* What _compute_recall counts, for one and for two labels.
LEMMA RecallCounts ==
    ASSUME NEW e, NEW f, NEW d
    PROVE  /\ _compute_recall({e}, {d}).true_positive = 1 => Hit(e, d)
           /\ _compute_recall({e, f}, {d}).true_positive = 2 => Hit(e, d) /\ Hit(f, d)
<1>1. \A E : _compute_recall(E, {d}).true_positive = Cardinality({x \in E : Hit(x, d)})
  BY DEF _compute_recall, Hit
<1>2. ASSUME Cardinality({x \in {e} : Hit(x, d)}) = 1 PROVE Hit(e, d)
  <2>1. CASE ~Hit(e, d)
    <3>1. {x \in {e} : Hit(x, d)} = {}
      BY <2>1, Zenon
    <3> QED BY <1>2, <3>1, FS_EmptySet
  <2> QED BY <2>1
<1>3. ASSUME Cardinality({x \in {e, f} : Hit(x, d)}) = 2 PROVE Hit(e, d) /\ Hit(f, d)
  <2> DEFINE H == {x \in {e, f} : Hit(x, d)}
  <2>1. ASSUME NEW y, H \subseteq {y} PROVE FALSE
    <3>1. IsFiniteSet({y}) /\ Cardinality({y}) = 1
      BY FS_Singleton
    <3>2. Cardinality(H) <= 1
      BY <2>1, <3>1, FS_Subset
    <3> QED BY <1>3, <3>2
  <2>2. CASE ~Hit(e, d)
    <3>1. H \subseteq {f}
      BY <2>2
    <3> QED BY <2>1, <3>1
  <2>3. CASE ~Hit(f, d)
    <3>1. H \subseteq {e}
      BY <2>3
    <3> QED BY <2>1, <3>1
  <2> QED BY <2>2, <2>3
<1> QED BY <1>1, <1>2, <1>3

\* Two parts, each of at least a third of itself and the whole, are its halves.
LEMMA TwoHalves ==
    ASSUME NEW p \in Nat, NEW q \in Nat, NEW x \in Nat, NEW y \in Nat, NEW z \in Nat,
           p <= x, q <= y, p + q <= z, 3 * p >= x + z, 3 * q >= y + z
    PROVE  p = x /\ q = y /\ x + y = z /\ x = y
<1>1. 3 * (p + q) >= x + y + 2 * z
  OBVIOUS
<1>2. p + q >= z
  BY <1>1
<1> QED BY <1>1, <1>2

\* One detection that is credited for two disjoint labels is both of them.
LEMMA CreditedTwice ==
    ASSUME NEW e, NEW f, NEW d, Proper(e), Proper(f), Proper(d),
           e.end <= f.start,
           3 * Common(e, d) >= Length(e) + Length(d),
           3 * Common(f, d) >= Length(f) + Length(d)
    PROVE  /\ d.start = e.start /\ e.end = f.start /\ f.end = d.end
           /\ Length(e) = Length(f)
<1>1. /\ e.start \in Nat /\ e.end \in Nat /\ e.start < e.end
      /\ f.start \in Nat /\ f.end \in Nat /\ f.start < f.end
      /\ d.start \in Nat /\ d.end \in Nat /\ d.start < d.end
  BY DEF Proper
<1>2. /\ Common(e, d) \in Nat /\ Common(f, d) \in Nat
      /\ Common(e, d) <= Length(e) /\ Common(f, d) <= Length(f)
      /\ Common(e, d) + Common(f, d) <= Length(d)
  <2>1. Common(e, d) \in Nat /\ Common(e, d) <= Length(e)
    BY <1>1 DEF Common, Length
  <2>2. Common(f, d) \in Nat /\ Common(f, d) <= Length(f)
    BY <1>1 DEF Common, Length
  <2>3. Common(e, d) + Common(f, d) <= Length(d)
    BY <1>1 DEF Common, Length
  <2> QED BY <2>1, <2>2, <2>3
<1>3. /\ Length(e) \in Nat /\ Length(f) \in Nat /\ Length(d) \in Nat
  BY <1>1 DEF Length
<1>4. /\ Common(e, d) = Length(e) /\ Common(f, d) = Length(f)
      /\ Length(e) + Length(f) = Length(d) /\ Length(e) = Length(f)
  BY <1>2, <1>3, TwoHalves
<1>5. d.start <= e.start /\ f.end <= d.end
  <2>1. Common(e, d) = e.end - e.start /\ Common(f, d) = f.end - f.start
    BY <1>4 DEF Length
  <2>2. d.start <= e.start
    BY <1>1, <2>1 DEF Common
  <2>3. f.end <= d.end
    BY <1>1, <2>1 DEF Common
  <2> QED BY <2>2, <2>3
<1> QED BY <1>1, <1>4, <1>5 DEF Length

LEMMA SidesOf ==
    ASSUME NEW e, NEW f, NEW d, Proper(e), Proper(f), Proper(d),
           d.start = e.start, e.end = f.start, f.end = d.end
    PROVE  Positions(d) = Positions(e) \cup Positions(f)
BY DEF Positions, Proper

(***************************************************************************)
(* RecallIsNotInflated: for spans in a document of any length, what        *)
(* _compute_recall credits at the threshold of one half is at least half   *)
(* covered, and is credited twice only for two adjacent equal halves.      *)
(***************************************************************************)
THEOREM RecallIsHonest == RedactionSpec => []RecallIsNotInflated
<1>1. RedactionInv => RecallIsNotInflated
  <2> SUFFICES ASSUME RedactionInv, NEW d \in presidio, NEW e \in Span, NEW f \in Span
               PROVE  /\ _compute_recall({e}, {d}).true_positive = 1 =>
                            2 * Cardinality(Positions(e) \cap Positions(d))
                               >= Cardinality(Positions(e))
                      /\ _compute_recall({e, f}, {d}).true_positive = 2 /\ ~Overlap(e, f) =>
                            /\ Positions(d) = Positions(e) \cup Positions(f)
                            /\ Cardinality(Positions(e)) = Cardinality(Positions(f))
    BY DEF RecallIsNotInflated
  <2>1. Proper(d) /\ Proper(e) /\ Proper(f)
    <3>1. d \in Finding
      BY DEF RedactionInv, RedactionTypeOK
    <3>2. /\ d.start \in 0 .. L /\ d.end \in 0 .. L /\ d.start < d.end
          /\ e.start \in 0 .. L /\ e.end \in 0 .. L /\ e.start < e.end
          /\ f.start \in 0 .. L /\ f.end \in 0 .. L /\ f.start < f.end
      BY <3>1, FindingType, SpanType
    <3> QED BY <3>2, RedactionAssumption DEF Proper
  <2>2. ASSUME Hit(e, d)
        PROVE  2 * Cardinality(Positions(e) \cap Positions(d)) >= Cardinality(Positions(e))
    <3>1. 3 * Common(e, d) >= Length(e) + Length(d) /\ Common(e, d) > 0
      BY <2>1, <2>2, HitMeans
    <3>2. Common(e, d) <= Length(d) /\ Common(e, d) \in Nat
          /\ Length(e) \in Nat /\ Length(d) \in Nat
      BY <2>1 DEF Common, Length, Proper
    <3>3. 2 * Common(e, d) >= Length(e)
      BY <3>1, <3>2
    <3> QED BY <2>1, <3>1, <3>3, PositionsCount
  <2>3. ASSUME Hit(e, d), Hit(f, d), ~Overlap(e, f)
        PROVE  /\ Positions(d) = Positions(e) \cup Positions(f)
               /\ Cardinality(Positions(e)) = Cardinality(Positions(f))
    <3>1. /\ 3 * Common(e, d) >= Length(e) + Length(d)
          /\ 3 * Common(f, d) >= Length(f) + Length(d)
      BY <2>1, <2>3, HitMeans
    <3>2. e.end <= f.start \/ f.end <= e.start
      BY <2>1, <2>3 DEF Overlap, Proper
    <3>3. CASE e.end <= f.start
      <4>1. /\ d.start = e.start /\ e.end = f.start /\ f.end = d.end
            /\ Length(e) = Length(f)
        BY <2>1, <3>1, <3>3, CreditedTwice
      <4> QED BY <2>1, <4>1, SidesOf, PositionsCount
    <3>4. CASE f.end <= e.start
      <4>1. /\ d.start = f.start /\ f.end = e.start /\ e.end = d.end
            /\ Length(f) = Length(e)
        BY <2>1, <3>1, <3>4, CreditedTwice
      <4>2. Positions(d) = Positions(f) \cup Positions(e)
        BY <2>1, <4>1, SidesOf
      <4> QED BY <2>1, <4>1, <4>2, PositionsCount
    <3> QED BY <3>2, <3>3, <3>4
  <2> QED BY <2>2, <2>3, RecallCounts
<1> QED BY <1>1, RedactionAlways, PTL
=============================================================================
