-------------------------- MODULE ChatStreamProofs --------------------------
(***************************************************************************)
(* What a client of ChatStream sees, for every set of texts and markers,   *)
(* however the text is cut into pieces, and whatever the holdback and the  *)
(* bounds on retries and faults are: on a turn with tools no tool markup   *)
(* goes out live, and what went out live together with what the parse      *)
(* added is the answer, sent again in the named cases only.                *)
(*                                                                         *)
(* The two ideas are that a letter goes out only where no marker can begin *)
(* whatever follows (Ruled), which stays true when the text grows, and     *)
(* that the queue always carries the difference between what the client    *)
(* has and what was put (Chain).                                           *)
(***************************************************************************)
EXTENDS ChatStream, SequenceTheorems, WellFoundedInduction, TLAPS

-----------------------------------------------------------------------------
(* Least and greatest elements.                                             *)

LEMMA LeastIsLeast ==
  ASSUME NEW S, S \subseteq Nat, S # {}
  PROVE  Least(S) \in S /\ \A j \in S: Least(S) <= j
<1>1. PICK i \in S: \A j \in S: ~(<<j, i>> \in OpToRel(<, Nat))
  BY NatLessThanWellFounded, WFMin
<1>2. \A j \in S: i <= j
  <2>1. SUFFICES ASSUME NEW j \in S, j < i PROVE FALSE
    OBVIOUS
  <2>2. <<j, i>> \in OpToRel(<, Nat)
    BY <2>1 DEF OpToRel
  <2> QED
    BY <1>1, <2>2
<1> QED
  BY <1>2 DEF Least

LEMMA GreatestExists ==
  ASSUME NEW S, NEW n \in Nat, S \subseteq 1 .. n, S # {}
  PROVE  \E i \in S: \A j \in S: j <= i
<1> DEFINE T == {n - i: i \in S}
<1>1. T \subseteq Nat /\ T # {}
  <2>1. \A i \in S: n - i \in Nat
    OBVIOUS
  <2> QED
    BY <2>1
<1>2. Least(T) \in T /\ \A j \in T: Least(T) <= j
  BY <1>1, LeastIsLeast
<1>3. PICK i \in S: Least(T) = n - i
  BY <1>2
<1>4. \A j \in S: n - i <= n - j
  BY <1>2, <1>3
<1> QED
  BY <1>4

-----------------------------------------------------------------------------
(* Prefixes and rests.                                                      *)

LEMMA RestIs ==
  ASSUME NEW S, NEW s \in Seq(S), NEW n \in 0 .. Len(s)
  PROVE  /\ Rest(s, n) \in Seq(S) /\ Len(Rest(s, n)) = Len(s) - n
         /\ \A k \in 1 .. Len(s) - n: Rest(s, n)[k] = s[n + k]
<1>1. Len(s) \in Nat /\ n \in Int /\ n + 1 \in Int
  OBVIOUS
<1>2. \A i \in n + 1 .. Len(s): s[i] \in S
  BY ElementOfSeq
<1>3. /\ SubSeq(s, n + 1, Len(s)) \in Seq(S)
      /\ Len(SubSeq(s, n + 1, Len(s))) =
           IF n + 1 <= Len(s) THEN Len(s) - (n + 1) + 1 ELSE 0
      /\ \A k \in 1 .. Len(s) - (n + 1) + 1:
           SubSeq(s, n + 1, Len(s))[k] = s[n + 1 + k - 1]
  BY <1>1, <1>2, SubSeqProperties
<1> QED
  BY <1>1, <1>3 DEF Rest

LEMMA FrontIs ==
  ASSUME NEW S, NEW s \in Seq(S), NEW n \in 0 .. Len(s)
  PROVE  /\ SubSeq(s, 1, n) \in Seq(S) /\ Len(SubSeq(s, 1, n)) = n
         /\ \A k \in 1 .. n: SubSeq(s, 1, n)[k] = s[k]
<1>1. \A i \in 1 .. n: s[i] \in S
  BY ElementOfSeq
<1>2. /\ SubSeq(s, 1, n) \in Seq(S)
      /\ Len(SubSeq(s, 1, n)) = IF 1 <= n THEN n - 1 + 1 ELSE 0
      /\ \A k \in 1 .. n - 1 + 1: SubSeq(s, 1, n)[k] = s[1 + k - 1]
  BY <1>1, SubSeqProperties
<1> QED
  BY <1>2

LEMMA PrefixIs ==
  ASSUME NEW S, NEW s \in Seq(S), NEW t \in Seq(S)
  PROVE  IsPrefix(s, t) <=>
           Len(s) <= Len(t) /\ \A i \in 1 .. Len(s): s[i] = t[i]
<1>1. SubSeq(s, 1, Len(s)) = s
  BY SubSeqFull
<1>2. ASSUME Len(s) <= Len(t)
      PROVE  /\ SubSeq(t, 1, Len(s)) \in Seq(S)
             /\ Len(SubSeq(t, 1, Len(s))) = Len(s)
             /\ \A i \in 1 .. Len(s): SubSeq(t, 1, Len(s))[i] = t[i]
  <2>1. Len(s) \in 0 .. Len(t)
    BY <1>2
  <2> QED
    BY <2>1, FrontIs
<1>3. ASSUME Len(s) <= Len(t), \A i \in 1 .. Len(s): s[i] = t[i]
      PROVE  s = SubSeq(t, 1, Len(s))
  BY <1>2, <1>3, SeqEqual
<1> QED
  BY <1>1, <1>2, <1>3 DEF IsPrefix

\* A prefix is what one gets by cutting off the rest.
LEMMA PrefixRest ==
  ASSUME NEW S, NEW s \in Seq(S), NEW t \in Seq(S), IsPrefix(s, t)
  PROVE  s \o Rest(t, Len(s)) = t
<1>1. Len(s) \in 0 .. Len(t) /\ \A i \in 1 .. Len(s): s[i] = t[i]
  BY PrefixIs
<1>2. /\ Rest(t, Len(s)) \in Seq(S) /\ Len(Rest(t, Len(s))) = Len(t) - Len(s)
      /\ \A k \in 1 .. Len(t) - Len(s): Rest(t, Len(s))[k] = t[Len(s) + k]
  BY <1>1, RestIs
<1>3. /\ s \o Rest(t, Len(s)) \in Seq(S) /\ Len(s \o Rest(t, Len(s))) = Len(t)
      /\ \A i \in 1 .. Len(t): (s \o Rest(t, Len(s)))[i] =
           IF i <= Len(s) THEN s[i] ELSE Rest(t, Len(s))[i - Len(s)]
  BY <1>1, <1>2, ConcatProperties
<1>4. ASSUME NEW i \in 1 .. Len(t), ~(i <= Len(s))
      PROVE  Rest(t, Len(s))[i - Len(s)] = t[i]
  <2>1. i - Len(s) \in 1 .. Len(t) - Len(s) /\ Len(s) + (i - Len(s)) = i
    BY <1>1, <1>4
  <2> QED
    BY <1>2, <2>1
<1>5. \A i \in 1 .. Len(t): (s \o Rest(t, Len(s)))[i] = t[i]
  BY <1>1, <1>3, <1>4
<1> QED
  BY <1>3, <1>5, SeqEqual

\* Cutting and putting together again.
LEMMA FrontRest ==
  ASSUME NEW S, NEW s \in Seq(S), NEW n \in 0 .. Len(s)
  PROVE  IsPrefix(SubSeq(s, 1, n), s) /\ SubSeq(s, 1, n) \o Rest(s, n) = s
<1> DEFINE u == SubSeq(s, 1, n)
<1>1. /\ u \in Seq(S) /\ Len(u) = n /\ n <= Len(s)
      /\ \A k \in 1 .. n: u[k] = s[k]
  BY FrontIs
<1> HIDE DEF u
<1>2. Len(u) <= Len(s) /\ \A k \in 1 .. Len(u): u[k] = s[k]
  BY <1>1
<1>3. IsPrefix(u, s)
  BY <1>1, <1>2, PrefixIs
<1>4. u \o Rest(s, Len(u)) = s
  BY <1>1, <1>3, PrefixRest
<1> QED
  BY <1>1, <1>3, <1>4 DEF u

LEMMA ConcatPrefix ==
  ASSUME NEW S, NEW s \in Seq(S), NEW t \in Seq(S)
  PROVE  IsPrefix(s, s \o t) /\ IsPrefix(s, s) /\ IsPrefix(<<>>, s)
<1>1. Len(s) \in Nat /\ Len(t) \in Nat
  BY LenProperties
<1>2. /\ s \o t \in Seq(S) /\ Len(s \o t) = Len(s) + Len(t)
      /\ \A i \in 1 .. Len(s) + Len(t):
           (s \o t)[i] = IF i <= Len(s) THEN s[i] ELSE t[i - Len(s)]
  BY ConcatProperties
<1>3. IsPrefix(s, s \o t)
  <2>1. Len(s) <= Len(s \o t) /\ \A i \in 1 .. Len(s): s[i] = (s \o t)[i]
    BY <1>1, <1>2
  <2> QED
    BY <1>2, <2>1, PrefixIs
<1>4. IsPrefix(s, s)
  BY <1>1, PrefixIs
<1>5. IsPrefix(<<>>, s)
  <2>1. <<>> \in Seq(S) /\ Len(<<>>) = 0
    BY EmptySeq
  <2>2. Len(<<>>) <= Len(s) /\ \A i \in 1 .. Len(<<>>): <<>>[i] = s[i]
    BY <1>1, <2>1
  <2> QED
    BY <2>1, <2>2, PrefixIs
<1> QED
  BY <1>3, <1>4, <1>5

LEMMA PrefixTransitive ==
  ASSUME NEW S, NEW s \in Seq(S), NEW t \in Seq(S), NEW u \in Seq(S),
         IsPrefix(s, t), IsPrefix(t, u)
  PROVE  IsPrefix(s, u)
<1>1. Len(s) \in Nat /\ Len(t) \in Nat /\ Len(u) \in Nat
  BY LenProperties
<1>2. Len(s) <= Len(t) /\ \A i \in 1 .. Len(s): s[i] = t[i]
  BY PrefixIs
<1>3. Len(t) <= Len(u) /\ \A i \in 1 .. Len(t): t[i] = u[i]
  BY PrefixIs
<1>4. Len(s) <= Len(u) /\ \A i \in 1 .. Len(s): s[i] = u[i]
  BY <1>1, <1>2, <1>3
<1> QED
  BY <1>4, PrefixIs

LEMMA Associative ==
  ASSUME NEW S
  PROVE  \A s, t, u \in Seq(S): (s \o t) \o u = s \o (t \o u)
  BY ConcatAssociative

\* What is said grows by a piece and what is released of it stays a prefix.
LEMMA ConcatFront ==
  ASSUME NEW S, NEW s \in Seq(S), NEW t \in Seq(S), NEW n \in 0 .. Len(t)
  PROVE  /\ s \o SubSeq(t, 1, n) \in Seq(S)
         /\ Len(s \o SubSeq(t, 1, n)) = Len(s) + n
         /\ (s \o SubSeq(t, 1, n)) \o Rest(t, n) = s \o t
         /\ IsPrefix(s \o SubSeq(t, 1, n), s \o t)
<1> DEFINE u == SubSeq(t, 1, n)
           v == Rest(t, n)
<1>1. u \in Seq(S) /\ Len(u) = n /\ v \in Seq(S) /\ u \o v = t
  BY FrontIs, RestIs, FrontRest
<1> HIDE DEF u, v
<1>2. (s \o u) \o v = s \o (u \o v)
  <2>1. \A a, b, c \in Seq(S): (a \o b) \o c = a \o (b \o c)
    BY Associative, SMTT(30)
  <2>2. s \in Seq(S) /\ u \in Seq(S) /\ v \in Seq(S)
    BY <1>1
  <2> QED
    BY <2>1, <2>2, Zenon
<1>3. s \o u \in Seq(S) /\ Len(s \o u) = Len(s) + n
  BY <1>1, ConcatProperties
<1>4. IsPrefix(s \o u, (s \o u) \o v)
  BY <1>1, <1>3, ConcatPrefix
<1>5. (s \o u) \o v = s \o t
  BY <1>1, <1>2
<1>6. IsPrefix(s \o u, s \o t)
  BY <1>4, <1>5
<1> QED
  BY <1>3, <1>5, <1>6 DEF u, v

-----------------------------------------------------------------------------
(* Markers.                                                                 *)

Alphabet == Letters \cup UNION {Range(m): m \in Markers}

\* Whatever follows s, no marker begins at its place i.
Ruled(s, i) ==
  \A m \in Markers:
    \E k \in 1 .. Len(m): i - 1 + k <= Len(s) /\ s[i - 1 + k] # m[k]

LEMMA MarkersTyped ==
  /\ \A m \in Markers: m \in Seq(Alphabet)
  /\ \A t \in Texts: t \in Seq(Letters)
  /\ \A s \in Seq(Letters): s \in Seq(Alphabet)
<1>1. \A R, T: R \subseteq T => \A s \in Seq(R): s \in Seq(T)
  OBVIOUS
<1>2. ASSUME NEW m \in Markers PROVE m \in Seq(Alphabet)
  <2>1. m \in Seq(Range(m)) /\ Range(m) \subseteq Alphabet
    BY StreamAssumption DEF StreamAssumption, Alphabet
  <2> QED
    BY <1>1, <2>1
<1>3. ASSUME NEW t \in Texts PROVE t \in Seq(Letters)
  <2>1. t \in Seq(Range(t))
    BY StreamAssumption DEF StreamAssumption
  <2>2. Range(t) \subseteq Letters
    BY DEF Letters, Range
  <2> QED
    BY <1>1, <2>1, <2>2
<1>4. Letters \subseteq Alphabet
  BY DEF Alphabet
<1> QED
  BY <1>1, <1>2, <1>3, <1>4

\* What it means that a marker begins at a place, or may begin there.
LEMMA BeginIs ==
  ASSUME NEW s \in Seq(Alphabet), NEW i \in 1 .. Len(s), NEW m \in Markers
  PROVE  /\ IsPrefix(m, Rest(s, i - 1)) <=>
              /\ i - 1 + Len(m) <= Len(s)
              /\ \A k \in 1 .. Len(m): m[k] = s[i - 1 + k]
         /\ IsPrefix(Rest(s, i - 1), m) <=>
              /\ Len(s) <= i - 1 + Len(m)
              /\ \A k \in 1 .. Len(s) - (i - 1): s[i - 1 + k] = m[k]
<1> DEFINE r == Rest(s, i - 1)
<1>1. Len(s) \in Nat /\ m \in Seq(Alphabet) /\ Len(m) \in Nat
  BY MarkersTyped, LenProperties
<1>2. i - 1 \in 0 .. Len(s)
  BY <1>1
<1>3. /\ r \in Seq(Alphabet) /\ Len(r) = Len(s) - (i - 1)
      /\ \A k \in 1 .. Len(s) - (i - 1): r[k] = s[i - 1 + k]
  BY <1>2, RestIs
<1> HIDE DEF r
<1>4. IsPrefix(m, r) <=>
        Len(m) <= Len(r) /\ \A k \in 1 .. Len(m): m[k] = r[k]
  BY <1>1, <1>3, PrefixIs
<1>5. IsPrefix(r, m) <=>
        Len(r) <= Len(m) /\ \A k \in 1 .. Len(r): r[k] = m[k]
  BY <1>1, <1>3, PrefixIs
<1>6. IsPrefix(m, r) <=>
        /\ i - 1 + Len(m) <= Len(s)
        /\ \A k \in 1 .. Len(m): m[k] = s[i - 1 + k]
  BY <1>1, <1>3, <1>4
<1>7. IsPrefix(r, m) <=>
        /\ Len(s) <= i - 1 + Len(m)
        /\ \A k \in 1 .. Len(s) - (i - 1): s[i - 1 + k] = m[k]
  BY <1>1, <1>3, <1>5
<1> QED
  BY <1>6, <1>7 DEF r

LEMMA UndoubtedIsRuled ==
  ASSUME NEW s \in Seq(Alphabet), NEW i \in 1 .. Len(s), i \notin Doubts(s)
  PROVE  Ruled(s, i)
<1>1. SUFFICES ASSUME NEW m \in Markers,
                      \A k \in 1 .. Len(m):
                        i - 1 + k <= Len(s) => s[i - 1 + k] = m[k]
               PROVE  FALSE
  BY DEF Ruled
<1>2. Len(s) \in Nat /\ m \in Seq(Alphabet) /\ Len(m) \in Nat
  BY MarkersTyped, LenProperties
<1>3. ~IsPrefix(m, Rest(s, i - 1)) /\ ~IsPrefix(Rest(s, i - 1), m)
  <2>1. i \in DOMAIN s
    BY LenProperties
  <2> QED
    BY <2>1 DEF Doubts
<1>4. CASE i - 1 + Len(m) <= Len(s)
  <2>1. \A k \in 1 .. Len(m): m[k] = s[i - 1 + k]
    BY <1>1, <1>2, <1>4
  <2> QED
    BY <1>3, <1>4, <2>1, BeginIs
<1>5. CASE ~(i - 1 + Len(m) <= Len(s))
  <2>1. Len(s) <= i - 1 + Len(m)
    BY <1>2, <1>5
  <2>2. \A k \in 1 .. Len(s) - (i - 1): s[i - 1 + k] = m[k]
    BY <1>1, <1>2, <1>5
  <2> QED
    BY <1>3, <2>1, <2>2, BeginIs
<1> QED
  BY <1>4, <1>5

\* Where a marker is ruled out none begins, now or when the text has grown.
LEMMA RuledIsUnmarked ==
  ASSUME NEW s \in Seq(Alphabet), NEW t \in Seq(Alphabet), IsPrefix(s, t),
         NEW i \in 1 .. Len(s), Ruled(s, i)
  PROVE  Ruled(t, i) /\ i \notin Marks(t)
<1>1. Len(s) \in Nat /\ Len(t) \in Nat /\ Len(s) <= Len(t)
      /\ \A k \in 1 .. Len(s): s[k] = t[k]
  BY PrefixIs, LenProperties
<1>2. i \in 1 .. Len(t)
  BY <1>1
<1>3. ASSUME NEW m \in Markers
      PROVE  \E k \in 1 .. Len(m):
               i - 1 + k <= Len(t) /\ t[i - 1 + k] # m[k]
  <2>1. PICK k \in 1 .. Len(m): i - 1 + k <= Len(s) /\ s[i - 1 + k] # m[k]
    BY DEF Ruled
  <2>2. i - 1 + k \in 1 .. Len(s)
    BY <1>1, <2>1
  <2> QED
    BY <1>1, <2>1, <2>2
<1>4. \A m \in Markers: ~IsPrefix(m, Rest(t, i - 1))
  BY <1>2, <1>3, BeginIs
<1> QED
  BY <1>3, <1>4 DEF Ruled, Marks

\* Text in front moves the places.
LEMMA RuledMoves ==
  ASSUME NEW p \in Seq(Alphabet), NEW s \in Seq(Alphabet),
         NEW i \in 1 .. Len(s), Ruled(s, i)
  PROVE  Ruled(p \o s, Len(p) + i)
<1> DEFINE t == p \o s
           j == Len(p) + i
<1>1. /\ Len(p) \in Nat /\ Len(s) \in Nat /\ Len(t) = Len(p) + Len(s)
      /\ \A k \in 1 .. Len(p) + Len(s):
           t[k] = IF k <= Len(p) THEN p[k] ELSE s[k - Len(p)]
  BY ConcatProperties, LenProperties
<1>2. i \in Nat /\ i >= 1 /\ i <= Len(s) /\ j = Len(p) + i /\ j \in Nat
  BY <1>1
<1> HIDE DEF t, j
<1>3. ASSUME NEW m \in Markers
      PROVE  \E k \in 1 .. Len(m): j - 1 + k <= Len(t) /\ t[j - 1 + k] # m[k]
  <2>1. PICK k \in 1 .. Len(m): i - 1 + k <= Len(s) /\ s[i - 1 + k] # m[k]
    BY DEF Ruled
  <2>2. k \in Nat /\ k >= 1
    <3>1. Len(m) \in Nat
      BY MarkersTyped, LenProperties
    <3> QED
      BY <3>1
  <2> DEFINE q == j - 1 + k
  <2>3. /\ q = j - 1 + k /\ q \in 1 .. Len(p) + Len(s) /\ ~(q <= Len(p))
        /\ q - Len(p) = i - 1 + k
    BY <1>1, <1>2, <2>1, <2>2
  <2> HIDE DEF q
  <2>4. t[q] = s[q - Len(p)]
    BY <1>1, <2>3
  <2>5. t[j - 1 + k] # m[k]
    BY <2>1, <2>3, <2>4
  <2>6. j - 1 + k <= Len(t)
    BY <1>1, <2>3
  <2> QED
    BY <2>5, <2>6
<1>4. Ruled(t, j)
  BY <1>3 DEF Ruled
<1> QED
  BY <1>4 DEF t, j

LEMMA MarksMove ==
  ASSUME NEW p \in Seq(Alphabet), NEW s \in Seq(Alphabet),
         NEW i \in Marks(s)
  PROVE  Len(p) + i \in Marks(p \o s)
<1> DEFINE t == p \o s
           j == Len(p) + i
<1>1. /\ Len(p) \in Nat /\ Len(s) \in Nat /\ Len(t) = Len(p) + Len(s)
      /\ t \in Seq(Alphabet)
      /\ \A k \in 1 .. Len(p) + Len(s):
           t[k] = IF k <= Len(p) THEN p[k] ELSE s[k - Len(p)]
  BY ConcatProperties, LenProperties
<1>2. i \in 1 .. Len(s)
  BY LenProperties DEF Marks
<1>3. PICK m \in Markers: IsPrefix(m, Rest(s, i - 1))
  BY DEF Marks
<1>4. i - 1 + Len(m) <= Len(s) /\ \A k \in 1 .. Len(m): m[k] = s[i - 1 + k]
  BY <1>2, <1>3, BeginIs
<1>5. Len(m) \in Nat
  BY MarkersTyped, LenProperties
<1>6. /\ j = Len(p) + i /\ j \in Nat /\ i \in Nat /\ i >= 1
      /\ j \in 1 .. Len(t) /\ j - 1 + Len(m) <= Len(t)
  BY <1>1, <1>2, <1>4, <1>5
<1> HIDE DEF t, j
<1>7. ASSUME NEW k \in 1 .. Len(m) PROVE m[k] = t[j - 1 + k]
  <2> DEFINE q == j - 1 + k
  <2>1. /\ q = j - 1 + k /\ q \in 1 .. Len(p) + Len(s) /\ ~(q <= Len(p))
        /\ q - Len(p) = i - 1 + k
    BY <1>1, <1>4, <1>5, <1>6
  <2> HIDE DEF q
  <2>2. t[q] = s[q - Len(p)]
    BY <1>1, <2>1
  <2> QED
    BY <1>4, <2>1, <2>2
<1>8. IsPrefix(m, Rest(t, j - 1))
  BY <1>1, <1>6, <1>7, BeginIs
<1>9. j \in DOMAIN t
  BY <1>1, <1>6, LenProperties
<1>10. j \in Marks(t)
  BY <1>8, <1>9 DEF Marks
<1> QED
  BY <1>10 DEF t, j

LEMMA MarksStay ==
  ASSUME NEW s \in Seq(Alphabet), NEW t \in Seq(Alphabet), IsPrefix(s, t),
         NEW i \in Marks(s)
  PROVE  i \in Marks(t)
<1>1. Len(s) \in Nat /\ Len(t) \in Nat /\ Len(s) <= Len(t)
      /\ \A k \in 1 .. Len(s): s[k] = t[k]
  BY PrefixIs, LenProperties
<1>2. i \in 1 .. Len(s) /\ i \in 1 .. Len(t) /\ i \in DOMAIN t
  BY <1>1, LenProperties DEF Marks
<1>3. PICK m \in Markers: IsPrefix(m, Rest(s, i - 1))
  BY DEF Marks
<1>4. i - 1 + Len(m) <= Len(s) /\ \A k \in 1 .. Len(m): m[k] = s[i - 1 + k]
  BY <1>2, <1>3, BeginIs
<1>5. Len(m) \in Nat
  BY MarkersTyped, LenProperties
<1>6. i - 1 + Len(m) <= Len(t)
  BY <1>1, <1>2, <1>4, <1>5
<1>7. ASSUME NEW k \in 1 .. Len(m) PROVE m[k] = t[i - 1 + k]
  <2>1. i - 1 + k \in 1 .. Len(s)
    BY <1>1, <1>2, <1>4, <1>5
  <2> QED
    BY <1>1, <1>4, <2>1
<1>8. IsPrefix(m, Rest(t, i - 1))
  BY <1>2, <1>6, <1>7, BeginIs
<1> QED
  BY <1>2, <1>8 DEF Marks

LEMMA CalmIs ==
  ASSUME NEW s \in Seq(Alphabet)
  PROVE  Calm(s) \in 0 .. Len(s)
<1> DEFINE bad == {i \in DOMAIN s: \E m \in Markers: m[1] = s[i]}
<1>1. Len(s) \in Nat /\ DOMAIN s = 1 .. Len(s) /\ bad \subseteq 1 .. Len(s)
  BY LenProperties
<1>2. CASE bad = {}
  BY <1>1, <1>2 DEF Calm
<1>3. CASE bad # {}
  <2> DEFINE top == CHOOSE i \in bad: \A j \in bad: j <= i
  <2>1. \E i \in bad: \A j \in bad: j <= i
    <3> HIDE DEF bad
    <3> QED
      BY <1>1, <1>3, GreatestExists
  <2>2. top \in bad
    <3> HIDE DEF bad
    <3> QED
      BY <2>1
  <2>3. Calm(s) = Len(s) - top
    BY <1>3 DEF Calm
  <2> HIDE DEF top, bad
  <2> QED
    BY <1>1, <2>2, <2>3
<1> QED
  BY <1>2, <1>3

\* What the filter lets out of a text: as much as is free of markers whatever
\* follows, and then a marker, the beginning of one, or a short end.
LetsOut(f, s, n) ==
  /\ n \in 0 .. Len(s)
  /\ f.out = SubSeq(s, 1, n)
  /\ \A i \in 1 .. n: Ruled(s, i)
  /\ f.silent \in BOOLEAN
  /\ f.silent => f.held = <<>> /\ n + 1 \in Marks(s)
  /\ ~f.silent =>
       /\ f.held = Rest(s, n)
       /\ \/ Len(Rest(s, n)) <= Holdback
          \/ \E m \in Markers: IsPrefix(Rest(s, n), m)

LEMMA ReleaseIs ==
  ASSUME NEW s \in Seq(Alphabet), NEW n \in 0 .. Len(s), NEW b \in BOOLEAN,
         \A i \in 1 .. n: Ruled(s, i), b => n + 1 \in Marks(s),
         \/ b
         \/ Len(Rest(s, n)) <= Holdback
         \/ \E m \in Markers: IsPrefix(Rest(s, n), m)
  PROVE  LetsOut(Release(s, n, b), s, n)
<1> DEFINE f == Release(s, n, b)
<1>1. /\ f.out = SubSeq(s, 1, n) /\ f.silent = b
      /\ f.held = IF b THEN <<>> ELSE Rest(s, n)
  BY DEF Release
<1> HIDE DEF f
<1>2. f.silent => f.held = <<>> /\ n + 1 \in Marks(s)
  BY <1>1
<1>3. ~f.silent =>
        /\ f.held = Rest(s, n)
        /\ \/ Len(Rest(s, n)) <= Holdback
           \/ \E m \in Markers: IsPrefix(Rest(s, n), m)
  BY <1>1
<1>4. LetsOut(f, s, n)
  BY <1>1, <1>2, <1>3, Zenon DEF LetsOut
<1> QED
  BY <1>4 DEF f

LEMMA FilteredIs ==
  ASSUME NEW s \in Seq(Alphabet)
  PROVE  \E n \in 0 .. Len(s): LetsOut(Filtered(s), s, n)
<1>1. Len(s) \in Nat /\ DOMAIN s = 1 .. Len(s)
  BY LenProperties
<1>2. \A i \in 1 .. Len(s): i \notin Doubts(s) => Ruled(s, i)
  BY UndoubtedIsRuled
<1>3. CASE Doubts(s) # {}
  <2> DEFINE i == Least(Doubts(s))
             n == i - 1
  <2>1. Doubts(s) \subseteq 1 .. Len(s)
    BY <1>1 DEF Doubts
  <2>2. Doubts(s) \subseteq Nat
    BY <2>1
  <2>3. i \in Doubts(s) /\ \A j \in Doubts(s): i <= j
    BY <1>3, <2>2, LeastIsLeast
  <2>4. Filtered(s) = Release(s, n, i \in Marks(s))
    BY <1>3 DEF Filtered
  <2> HIDE DEF i
  <2>5. i \in 1 .. Len(s) /\ n \in 0 .. Len(s) /\ n + 1 = i
    BY <1>1, <2>1, <2>3
  <2>6. ASSUME NEW j \in 1 .. n PROVE Ruled(s, j)
    <3>1. j \in 1 .. Len(s) /\ ~(i <= j)
      BY <1>1, <2>5
    <3> QED
      BY <1>2, <2>3, <3>1
  <2>7. i \notin Marks(s) => \E m \in Markers: IsPrefix(Rest(s, i - 1), m)
    BY <2>3 DEF Doubts, Marks
  <2> HIDE DEF n
  <2>8. CASE i \in Marks(s)
    <3>1. (i \in Marks(s)) = TRUE /\ n + 1 \in Marks(s)
      BY <2>5, <2>8
    <3>2. Filtered(s) = Release(s, n, TRUE)
      BY <2>4, <3>1
    <3>3. LetsOut(Release(s, n, TRUE), s, n)
      BY <2>5, <2>6, <3>1, ReleaseIs
    <3> QED
      BY <2>5, <3>2, <3>3
  <2>9. CASE i \notin Marks(s)
    <3>1. (i \in Marks(s)) = FALSE
      BY <2>9
    <3>2. Filtered(s) = Release(s, n, FALSE)
      BY <2>4, <2>9, <3>1
    <3>3. \E m \in Markers: IsPrefix(Rest(s, n), m)
      BY <2>7, <2>9 DEF n
    <3>4. LetsOut(Release(s, n, FALSE), s, n)
      BY <2>5, <2>6, <3>3, ReleaseIs
    <3> QED
      BY <2>5, <3>2, <3>4
  <2> QED
    BY <2>8, <2>9
<1>4. CASE Doubts(s) = {}
  <2> DEFINE h == IF Calm(s) < Holdback THEN Calm(s) ELSE Holdback
             n == Len(s) - h
  <2>1. Holdback \in Nat
    BY StreamAssumption DEF StreamAssumption
  <2>2. Calm(s) \in 0 .. Len(s)
    BY CalmIs
  <2>3. h \in 0 .. Len(s) /\ h <= Holdback
    BY <1>1, <2>1, <2>2
  <2>4. Filtered(s) = Release(s, n, FALSE)
    BY <1>4 DEF Filtered
  <2> HIDE DEF h
  <2>5. n \in 0 .. Len(s) /\ Len(s) - n = h
    BY <1>1, <2>3
  <2> HIDE DEF n
  <2>6. \A j \in 1 .. n: Ruled(s, j)
    BY <1>1, <1>2, <1>4, <2>5
  <2>7. Len(Rest(s, n)) <= Holdback
    BY <2>3, <2>5, RestIs
  <2>8. LetsOut(Release(s, n, FALSE), s, n)
    BY <2>5, <2>6, <2>7, ReleaseIs
  <2> QED
    BY <2>4, <2>5, <2>8
<1> QED
  BY <1>3, <1>4

\* Before is the text up to the first marker.
LEMMA BeforeIs ==
  ASSUME NEW R, R \subseteq Alphabet, NEW s \in Seq(R)
  PROVE  /\ Before(s) \in Seq(R)
         /\ \A l \in Seq(R):
              IsPrefix(l, s) /\ (\A i \in 1 .. Len(l): i \notin Marks(s)) =>
                /\ IsPrefix(l, Before(s))
                /\ Len(l) + 1 \in Marks(s) => l = Before(s)
<1>1. Len(s) \in Nat /\ DOMAIN s = 1 .. Len(s)
  BY LenProperties
<1>2. CASE Marks(s) = {}
  BY <1>2 DEF Before
<1>3. CASE Marks(s) # {}
  <2> DEFINE i == Least(Marks(s))
             n == i - 1
             b == SubSeq(s, 1, n)
  <2>1. Marks(s) \subseteq 1 .. Len(s)
    BY <1>1 DEF Marks
  <2>2. Marks(s) \subseteq Nat
    BY <2>1
  <2>3. i \in Marks(s) /\ \A j \in Marks(s): i <= j
    BY <1>3, <2>2, LeastIsLeast
  <2>4. Before(s) = b
    BY <1>3 DEF Before
  <2> HIDE DEF i
  <2>5. i \in 1 .. Len(s) /\ n \in 0 .. Len(s) /\ n + 1 = i
    BY <1>1, <2>1, <2>3
  <2> HIDE DEF n
  <2>6. b \in Seq(R) /\ Len(b) = n /\ \A k \in 1 .. n: b[k] = s[k]
    BY <2>5, FrontIs
  <2> HIDE DEF b
  <2>7. ASSUME NEW l \in Seq(R), IsPrefix(l, s),
               \A j \in 1 .. Len(l): j \notin Marks(s)
        PROVE  /\ IsPrefix(l, b)
               /\ Len(l) + 1 \in Marks(s) => l = b
    <3>1. Len(l) \in Nat /\ \A k \in 1 .. Len(l): l[k] = s[k]
      BY <2>7, PrefixIs, LenProperties
    <3>2. Len(l) <= n
      BY <2>3, <2>5, <2>7, <3>1
    <3>3. ASSUME NEW k \in 1 .. Len(l) PROVE l[k] = b[k]
      <4>1. k \in 1 .. n
        BY <2>5, <3>1, <3>2
      <4> QED
        BY <2>6, <3>1, <4>1
    <3>4. IsPrefix(l, b)
      BY <2>6, <3>2, <3>3, PrefixIs
    <3>5. ASSUME Len(l) + 1 \in Marks(s) PROVE l = b
      <4>1. Len(l) = n
        BY <2>3, <2>5, <3>1, <3>2, <3>5
      <4> QED
        BY <2>6, <3>3, <4>1, SeqEqual
    <3> QED
      BY <3>4, <3>5
  <2> QED
    BY <2>4, <2>6, <2>7
<1> QED
  BY <1>2, <1>3

LEMMA StripTyped ==
  ASSUME NEW R, NEW s \in Seq(R)
  PROVE  Strip(s) \in Seq(R)
<1> DEFINE ink == {i \in DOMAIN s: s[i] # Space}
           top == CHOOSE i \in ink: \A j \in ink: j <= i
<1>1. Len(s) \in Nat /\ ink \subseteq 1 .. Len(s)
  BY LenProperties
<1>2. CASE ink = {}
  BY <1>2, EmptySeq DEF Strip
<1>3. CASE ink # {}
  <2>1. Strip(s) = SubSeq(s, Least(ink), top)
    BY <1>3 DEF Strip
  <2> HIDE DEF ink
  <2>2. ink \subseteq Nat
    BY <1>1
  <2>3. Least(ink) \in 1 .. Len(s)
    BY <1>1, <1>3, <2>2, LeastIsLeast
  <2>4. \E i \in ink: \A j \in ink: j <= i
    BY <1>1, <1>3, GreatestExists
  <2>5. top \in ink
    BY <2>4
  <2> HIDE DEF top
  <2>6. top \in 1 .. Len(s)
    BY <1>1, <2>5
  <2>7. \A k \in Least(ink) .. top: s[k] \in R
    BY <1>1, <2>3, <2>6, ElementOfSeq
  <2>8. SubSeq(s, Least(ink), top) \in Seq(R)
    BY <2>3, <2>6, <2>7, SubSeqProperties
  <2> QED
    BY <2>1, <2>8
<1> QED
  BY <1>2, <1>3

\* Strip changes nothing of a beginning that neither begins nor ends with white
\* space.
LEMMA StripKeeps ==
  ASSUME NEW R, NEW s \in Seq(R), NEW l \in Seq(R), l # <<>>, IsPrefix(l, s),
         l[1] # Space, l[Len(l)] # Space
  PROVE  IsPrefix(l, Strip(s))
<1> DEFINE ink == {i \in DOMAIN s: s[i] # Space}
           top == CHOOSE i \in ink: \A j \in ink: j <= i
<1>1. /\ Len(s) \in Nat /\ Len(l) \in Nat /\ Len(l) # 0 /\ Len(l) <= Len(s)
      /\ \A i \in 1 .. Len(l): l[i] = s[i]
  BY PrefixIs, LenProperties, EmptySeq
<1>2. ink \subseteq 1 .. Len(s) /\ ink \subseteq Nat
  BY <1>1, LenProperties
<1>3. 1 \in ink /\ Len(l) \in ink
  <2>1. 1 \in 1 .. Len(l) /\ Len(l) \in 1 .. Len(l)
    BY <1>1
  <2>2. 1 \in DOMAIN s /\ Len(l) \in DOMAIN s
    BY <1>1, <2>1, LenProperties
  <2>3. s[1] # Space /\ s[Len(l)] # Space
    BY <1>1, <2>1
  <2> QED
    BY <2>2, <2>3
<1>4. Strip(s) = SubSeq(s, Least(ink), top)
  BY <1>3 DEF Strip
<1> HIDE DEF ink
<1>5. Least(ink) = 1
  <2>1. Least(ink) \in ink /\ \A j \in ink: Least(ink) <= j
    BY <1>2, <1>3, LeastIsLeast
  <2>2. Least(ink) \in 1 .. Len(s) /\ Least(ink) <= 1
    BY <1>2, <1>3, <2>1
  <2> HIDE DEF top
  <2> QED
    BY <2>2
<1>6. top \in ink /\ Len(l) <= top
  <2>1. \E i \in ink: \A j \in ink: j <= i
    BY <1>1, <1>2, <1>3, GreatestExists
  <2>2. top \in ink /\ \A j \in ink: j <= top
    BY <2>1
  <2> QED
    BY <1>3, <2>2
<1> HIDE DEF top
<1>7. top \in 0 .. Len(s)
  BY <1>1, <1>2, <1>6
<1> DEFINE t == SubSeq(s, 1, top)
<1>8. t \in Seq(R) /\ Len(t) = top /\ \A k \in 1 .. top: t[k] = s[k]
  BY <1>7, FrontIs
<1>9. Strip(s) = t
  BY <1>4, <1>5
<1> HIDE DEF t
<1>10. \A k \in 1 .. Len(l): l[k] = t[k]
  <2>1. \A k \in 1 .. Len(l): k \in 1 .. top
    BY <1>1, <1>6, <1>7
  <2> QED
    BY <1>1, <1>8, <2>1
<1> QED
  BY <1>6, <1>8, <1>9, <1>10, PrefixIs

-----------------------------------------------------------------------------
(* Types.                                                                   *)

Items == [what: Whys \cup {"delta", "[DONE]", "None"}, content: Seq(Letters)]

LEMMA ItemsTyped ==
  /\ \A w \in Whys \cup {"delta", "[DONE]", "None"}: \A s \in Seq(Letters):
       Item(w, s) \in Items /\ <<Item(w, s)>> \in Seq(Items)
  /\ \A w \in Whys: Bye(w) \in Seq(Items)
  /\ \A s \in Seq(Letters): Content(s) \in Seq(Items)
  /\ <<>> \in Seq(Letters)
<1>1. <<>> \in Seq(Letters)
  BY EmptySeq
<1>2. ASSUME NEW w \in Whys \cup {"delta", "[DONE]", "None"},
             NEW s \in Seq(Letters)
      PROVE  Item(w, s) \in Items
  BY DEF Item, Items
<1>3. ASSUME NEW a \in Items, NEW b \in Items
      PROVE  <<a>> \in Seq(Items) /\ <<a, b>> \in Seq(Items)
  OBVIOUS
<1>4. ASSUME NEW w \in Whys PROVE Bye(w) \in Seq(Items)
  <2>1. Item(w, <<>>) \in Items /\ Item("[DONE]", <<>>) \in Items
    BY <1>1, <1>2
  <2> QED
    BY <1>3, <2>1 DEF Bye
<1>5. ASSUME NEW s \in Seq(Letters) PROVE Content(s) \in Seq(Items)
  <2>1. Item("delta", s) \in Items
    BY <1>2
  <2>2. <<>> \in Seq(Items)
    BY EmptySeq
  <2> QED
    BY <1>3, <2>1, <2>2 DEF Content
<1> QED
  BY <1>1, <1>2, <1>3, <1>4, <1>5

LEMMA PutTyped ==
  ASSUME queue \in Seq(Items), NEW items \in Seq(Items), Put(items)
  PROVE  queue' \in Seq(Items)
  BY ConcatProperties DEF Put

\* What one step of decoding adds to what went out: the same to the queue, and
\* nothing for a client that has gone.
Sends(x) ==
  /\ x \in Seq(Letters)
  /\ live' = live \o x
  /\ queue' = queue \o Content(x)

LEMMA EmitSends ==
  ASSUME TypeOK, NEW piece \in Seq(Letters), Emit(piece)
  PROVE  /\ \E x: Sends(x)
         /\ ~connected => UNCHANGED <<pending, silenced, live, queue>>
         /\ kind # "tools" /\ connected =>
              live' = live \o piece /\ UNCHANGED <<pending, silenced>>
         /\ kind = "tools" /\ silenced =>
              UNCHANGED <<pending, silenced, live, queue>>
         /\ kind = "tools" /\ connected /\ ~silenced =>
              \E n \in 0 .. Len(pending \o piece):
                /\ LetsOut([out |-> SubSeq(pending \o piece, 1, n),
                            held |-> pending', silent |-> silenced'],
                           pending \o piece, n)
                /\ live' = live \o SubSeq(pending \o piece, 1, n)
         /\ silenced' \in BOOLEAN /\ pending' \in Seq(Letters)
<1>1. /\ live \in Seq(Letters) /\ pending \in Seq(Letters)
      /\ queue \in Seq(Items) /\ silenced \in BOOLEAN
  BY DEF TypeOK, Items
<1>2. CASE UNCHANGED <<pending, silenced, live, queue>>
           /\ (~connected \/ (kind = "tools" /\ silenced))
  <2>1. live = live \o <<>> /\ queue = queue \o <<>>
    BY <1>1, ConcatEmptySeq
  <2>2. Content(<<>>) = <<>>
    BY DEF Content
  <2>3. Sends(<<>>)
    BY <1>2, <2>1, <2>2, ItemsTyped DEF Sends
  <2> QED
    BY <1>1, <1>2, <2>3
<1>3. CASE connected /\ kind # "tools"
  <2>1. /\ live' = live \o piece /\ queue' = queue \o Content(piece)
        /\ UNCHANGED <<pending, silenced>>
    BY <1>3 DEF Emit, Put
  <2>2. Sends(piece)
    BY <2>1 DEF Sends
  <2> QED
    BY <1>1, <1>3, <2>1, <2>2
<1>4. CASE connected /\ kind = "tools" /\ ~silenced
  <2> DEFINE t == pending \o piece
             f == Filtered(t)
  <2>1. t \in Seq(Letters) /\ t \in Seq(Alphabet)
    <3>1. t \in Seq(Letters)
      BY <1>1, ConcatProperties
    <3> QED
      BY <3>1, MarkersTyped
  <2>2. /\ live' = live \o f.out /\ pending' = f.held /\ silenced' = f.silent
        /\ queue' = queue \o Content(f.out)
    BY <1>4 DEF Emit, Put
  <2> HIDE DEF t, f
  <2>3. PICK n \in 0 .. Len(t): LetsOut(f, t, n)
    BY <2>1, FilteredIs DEF f
  <2>4. f.out = SubSeq(t, 1, n) /\ f.silent \in BOOLEAN
    BY <2>3 DEF LetsOut
  <2>5. f.out \in Seq(Letters) /\ Rest(t, n) \in Seq(Letters)
    BY <2>1, <2>4, FrontIs, RestIs
  <2>6. f.held \in Seq(Letters)
    <3>1. f.held = <<>> \/ f.held = Rest(t, n)
      BY <2>3 DEF LetsOut
    <3> QED
      BY <2>5, <3>1, ItemsTyped
  <2>7. Sends(f.out)
    BY <2>2, <2>5 DEF Sends
  <2>8. LetsOut([out |-> SubSeq(t, 1, n), held |-> pending',
                 silent |-> silenced'], t, n)
    BY <2>2, <2>3 DEF LetsOut
  <2> QED
    BY <1>4, <2>2, <2>3, <2>4, <2>6, <2>7, <2>8 DEF t
<1>5. ~connected \/ (kind = "tools" /\ silenced) =>
        UNCHANGED <<pending, silenced, live, queue>>
  BY DEF Emit
<1>6. \/ ~connected \/ (kind = "tools" /\ silenced)
      \/ connected /\ kind # "tools"
      \/ connected /\ kind = "tools" /\ ~silenced
  OBVIOUS
<1> QED
  BY <1>2, <1>3, <1>4, <1>5, <1>6

LEMMA ChoiceTyped ==
  ASSUME full \in Seq(Letters)
  PROVE  \A answer \in Answers(full) \cup Forced(full): answer \in Seq(Letters)
<1>1. Letters \subseteq Alphabet
  BY DEF Alphabet
<1>2. Before(full) \in Seq(Letters)
  BY <1>1, BeforeIs
<1>3. Strip(full) \in Seq(Letters)
  BY StripTyped
<1>4. Strip(Before(full)) \in Seq(Letters)
  BY <1>2, StripTyped
<1>5. <<>> \in Seq(Letters) /\ <<Sorry>> \in Seq(Letters)
  <2>1. Sorry \in Letters
    BY DEF Letters
  <2> QED
    BY <2>1, EmptySeq
<1> QED
  BY <1>3, <1>4, <1>5 DEF Answers, Forced

LEMMA RemainderTyped ==
  ASSUME NEW a \in Seq(Letters), live \in Seq(Letters)
  PROVE  Remainder(a) \in Seq(Letters)
<1>1. <<NL>> \in Seq(Letters)
  <2>1. NL \in Letters
    BY DEF Letters
  <2> QED
    BY <2>1
<1>2. <<NL>> \o a \in Seq(Letters)
  BY <1>1, ConcatProperties
<1>3. ASSUME IsPrefix(live, a) PROVE Rest(a, Len(live)) \in Seq(Letters)
  <2>1. Len(live) \in 0 .. Len(a)
    BY <1>3, PrefixIs, LenProperties
  <2> QED
    BY <2>1, RestIs
<1> QED
  BY <1>2, <1>3 DEF Remainder

\* The first half of a text.
LEMMA HalfTyped ==
  ASSUME NEW t \in Seq(Letters)
  PROVE  SubSeq(t, 1, Len(t) \div 2) \in Seq(Letters)
<1>1. \A n \in Nat: n \div 2 \in 0 .. n
  OBVIOUS
<1>2. Len(t) \div 2 \in 0 .. Len(t)
  BY <1>1, LenProperties
<1> QED
  BY <1>2, FrontIs

LEMMA TypeStep ==
  ASSUME TypeOK, [Next]_vars
  PROVE  TypeOK'
<1>1. /\ queue \in Seq(Items) /\ text \in Seq(Letters) /\ said \in Seq(Letters)
      /\ full \in Seq(Letters) /\ pending \in Seq(Letters)
      /\ live \in Seq(Letters) /\ final \in Seq(Letters)
      /\ got \in Seq(Letters)
  BY DEF TypeOK, Items
<1>2. MaxRetries \in Nat /\ MaxFaults \in Nat
  BY StreamAssumption DEF StreamAssumption
<1>3. CASE UNCHANGED vars
  BY <1>3 DEF TypeOK, vars, textVars, clientVars
<1>4. CASE Start
  <2>1. queue' \in Seq(Items)
    <3>1. <<Item("delta", <<>>)>> \in Seq(Items)
      BY ItemsTyped
    <3> QED
      BY <1>1, <1>4, <3>1, PutTyped DEF Start
  <2>2. text' \in Seq(Letters)
    BY <1>4, MarkersTyped DEF Start
  <2> QED
    BY <1>4, <2>1, <2>2 DEF TypeOK, Start, clientVars, Items
<1>5. CASE Decode
  <2>1. PICK n \in 1 .. Len(text): /\ said' = said \o SubSeq(text, 1, n)
                                  /\ text' = Rest(text, n)
                                  /\ Emit(SubSeq(text, 1, n))
    BY <1>5 DEF Decode
  <2>2. n \in 0 .. Len(text)
    BY <1>1, LenProperties
  <2>3. SubSeq(text, 1, n) \in Seq(Letters) /\ Rest(text, n) \in Seq(Letters)
    BY <1>1, <2>2, FrontIs, RestIs
  <2>4. said' \in Seq(Letters) /\ text' \in Seq(Letters)
    BY <1>1, <2>1, <2>3, ConcatProperties
  <2>5. PICK x: Sends(x)
    BY <2>1, <2>3, EmitSends
  <2>6. pending' \in Seq(Letters) /\ silenced' \in BOOLEAN
    BY <2>1, <2>3, EmitSends
  <2>7. live' \in Seq(Letters) /\ queue' \in Seq(Items)
    BY <1>1, <2>5, ItemsTyped, ConcatProperties DEF Sends
  <2> QED
    BY <1>5, <2>4, <2>6, <2>7 DEF TypeOK, Decode, clientVars, Items
<1>6. CASE EndOfStream
  BY <1>6 DEF TypeOK, EndOfStream, clientVars
<1>7. CASE Judge
  <2>1. queue' \in Seq(Items)
    <3>1. Bye("stopped") \in Seq(Items)
      BY ItemsTyped DEF Whys
    <3> QED
      BY <1>1, <1>7, <3>1, PutTyped DEF Judge
  <2> QED
    BY <1>7, <2>1 DEF TypeOK, Judge, textVars, clientVars, Items
<1>8. CASE Retry
  <2>1. tries' \in 0 .. MaxRetries
    BY <1>2, <1>8 DEF TypeOK, Retry
  <2> QED
    BY <1>8, <2>1 DEF TypeOK, Retry, textVars, clientVars
<1>9. CASE Retried
  <2>1. full' \in Seq(Letters)
    BY <1>1, <1>9, MarkersTyped, HalfTyped DEF Retried
  <2>2. faults' \in 0 .. MaxFaults /\ cut' \in {"no", "first", "retry"}
    BY <1>2, <1>9 DEF TypeOK, Retried
  <2> QED
    BY <1>9, <2>1, <2>2 DEF TypeOK, Retried, clientVars
<1>10. CASE Deliver
  <2>1. queue' \in Seq(Items) /\ final' \in Seq(Letters)
    <3>1. CASE ~connected
      BY <1>1, <1>10, <3>1 DEF Deliver
    <3>2. CASE connected /\ final' = full /\ Put(Bye("complete"))
      BY <1>1, <3>2, ItemsTyped, PutTyped DEF Whys
    <3>3. CASE connected /\ final' = <<>> /\ Put(Bye("calls"))
      BY <1>1, <3>3, ItemsTyped, PutTyped DEF Whys
    <3>4. ASSUME NEW a \in Answers(full), final' = a,
                 Put(Content(Remainder(a)) \o Bye("complete"))
          PROVE  queue' \in Seq(Items) /\ final' \in Seq(Letters)
      <4>1. a \in Seq(Letters) /\ Remainder(a) \in Seq(Letters)
        BY <1>1, ChoiceTyped, RemainderTyped
      <4>2. Content(Remainder(a)) \in Seq(Items)
            /\ Bye("complete") \in Seq(Items)
        BY <4>1, ItemsTyped DEF Whys
      <4>3. Content(Remainder(a)) \o Bye("complete") \in Seq(Items)
        BY <4>2, ConcatProperties
      <4> QED
        BY <1>1, <3>4, <4>1, <4>3, PutTyped
    <3>5. ASSUME NEW a \in Forced(full), final' = a,
                 Put(Content(a) \o Bye("complete"))
          PROVE  queue' \in Seq(Items) /\ final' \in Seq(Letters)
      <4>1. a \in Seq(Letters)
        BY <1>1, ChoiceTyped
      <4>2. Content(a) \in Seq(Items) /\ Bye("complete") \in Seq(Items)
        BY <4>1, ItemsTyped DEF Whys
      <4>3. Content(a) \o Bye("complete") \in Seq(Items)
        BY <4>2, ConcatProperties
      <4> QED
        BY <1>1, <3>5, <4>1, <4>3, PutTyped
    <3> QED
      BY <1>10, <3>1, <3>2, <3>3, <3>4, <3>5 DEF Deliver
  <2>2. reset' \in BOOLEAN
    BY <1>10 DEF TypeOK, Deliver
  <2> QED
    BY <1>10, <2>1, <2>2 DEF TypeOK, Deliver, clientVars, Items
<1>11. CASE Close
  <2>1. <<Item("None", <<>>)>> \in Seq(Items)
    BY ItemsTyped
  <2>2. queue' \in Seq(Items)
    BY <1>1, <1>11, <2>1, PutTyped DEF Close
  <2> QED
    BY <1>11, <2>2 DEF TypeOK, Close, textVars, clientVars, Items
<1>12. CASE Read
  <2>1. Head(queue) \in Items /\ Tail(queue) \in Seq(Items)
    BY <1>1, <1>12, HeadTailProperties DEF Read
  <2>2. got' \in Seq(Letters)
    BY <1>1, <1>12, <2>1, ConcatProperties DEF Read, Items
  <2>3. ending' \in Whys \cup {"none"}
    BY <1>12, <2>1 DEF TypeOK, Read, Items
  <2> QED
    BY <1>12, <2>1, <2>2, <2>3 DEF TypeOK, Read, textVars, Items
<1>13. CASE Ask
  BY <1>13 DEF TypeOK, Ask, textVars
<1>14. CASE Raise
  <2>1. queue' \in Seq(Items)
    <3>1. Bye("error") \in Seq(Items)
      BY ItemsTyped DEF Whys
    <3> QED
      BY <1>1, <1>14, <3>1, PutTyped DEF Raise
  <2>2. faults' \in 0 .. MaxFaults
    BY <1>2, <1>14 DEF TypeOK, Raise
  <2> QED
    BY <1>14, <2>1, <2>2 DEF TypeOK, Raise, textVars, clientVars, Items
<1>15. CASE Leave
  BY <1>15 DEF TypeOK, Leave, textVars
<1>16. CASE StopRequest
  BY <1>16 DEF TypeOK, StopRequest, textVars, clientVars
<1> QED
  BY <1>3, <1>4, <1>5, <1>6, <1>7, <1>8, <1>9, <1>10, <1>11, <1>12, <1>13,
     <1>14, <1>15, <1>16 DEF Next, Produce, Consume

LEMMA InitTyped == Init => TypeOK
<1> SUFFICES ASSUME Init PROVE TypeOK
  OBVIOUS
<1>1. <<>> \in Seq(Letters) /\ <<>> \in Seq(Items)
  BY EmptySeq
<1>2. tries \in 0 .. MaxRetries /\ faults \in 0 .. MaxFaults
  BY StreamAssumption DEF StreamAssumption, Init
<1> QED
  BY <1>1, <1>2 DEF Init, TypeOK, Items

\* Every variable of the stream keeps its type.
THEOREM TypeCorrect == Spec => []TypeOK
  BY InitTyped, TypeStep, PTL DEF Spec

-----------------------------------------------------------------------------
(* No markup goes out.                                                      *)

\* What went out of a turn with tools is a beginning of what was said in which
\* every letter is ruled out; what follows it is a marker if the filter has
\* gone silent, and otherwise what is pending.
Told ==
  kind = "tools" =>
    /\ IsPrefix(live, said)
    /\ \A i \in 1 .. Len(live): Ruled(said, i)
    /\ silenced => Len(live) + 1 \in Marks(said)
    /\ ~silenced /\ connected =>
         /\ said = live \o pending
         /\ Len(pending) <= Holdback \/ \E m \in Markers: IsPrefix(pending, m)

LEMMA ToldInit == Init => Told
<1> SUFFICES ASSUME Init PROVE Told
  OBVIOUS
<1>1. /\ live = <<>> /\ said = <<>> /\ pending = <<>> /\ silenced = FALSE
      /\ <<>> \in Seq(Letters) /\ Len(<<>>) = 0
  BY EmptySeq DEF Init
<1>2. IsPrefix(<<>>, <<>>)
  BY <1>1, ConcatPrefix
<1>3. <<>> = <<>> \o <<>>
  BY <1>1, ConcatEmptySeq
<1>4. 0 <= Holdback
  BY StreamAssumption DEF StreamAssumption
<1>5. \A i \in 1 .. 0: Ruled(said, i)
  OBVIOUS
<1> QED
  BY <1>1, <1>2, <1>3, <1>4, <1>5 DEF Told

LEMMA LetterSequences ==
  \A a, b, c \in Seq(Alphabet): (a \o b) \o c = a \o (b \o c)
  BY Associative

\* The promise: l went out of the text s, and the filter is now as f says.
Kept(f, l, s) ==
  /\ IsPrefix(l, s)
  /\ \A i \in 1 .. Len(l): Ruled(s, i)
  /\ f.silent => Len(l) + 1 \in Marks(s)
  /\ ~f.silent =>
       /\ s = l \o f.held
       /\ Len(f.held) <= Holdback \/ \E m \in Markers: IsPrefix(f.held, m)

\* The filter keeps its promise when a piece is added to what is pending.
LEMMA ToldGrows ==
  ASSUME NEW l \in Seq(Alphabet), NEW p \in Seq(Alphabet),
         NEW piece \in Seq(Alphabet), NEW f, NEW n \in 0 .. Len(p \o piece),
         LetsOut(f, p \o piece, n),
         \A i \in 1 .. Len(l): Ruled(l \o p, i),
         NEW new, new = l \o SubSeq(p \o piece, 1, n),
         NEW all, all = (l \o p) \o piece
  PROVE  Kept(f, new, all)
<1> DEFINE t == p \o piece
           old == l \o p
<1>1. t \in Seq(Alphabet) /\ old \in Seq(Alphabet) /\ n \in 0 .. Len(t)
      /\ Len(old) = Len(l) + Len(p)
  BY ConcatProperties
<1>2. all = l \o t
  <2>1. l \in Seq(Alphabet) /\ p \in Seq(Alphabet) /\ piece \in Seq(Alphabet)
    OBVIOUS
  <2>2. (l \o p) \o piece = l \o (p \o piece)
    BY <2>1, LetterSequences, Zenon
  <2> QED
    BY <2>2, Zenon
<1>3. /\ LetsOut(f, t, n) /\ \A i \in 1 .. Len(l): Ruled(old, i)
      /\ all = old \o piece /\ new = l \o SubSeq(t, 1, n)
  OBVIOUS
<1> HIDE DEF t, old
<1>4. all \in Seq(Alphabet) /\ IsPrefix(old, all)
  BY <1>1, <1>3, ConcatProperties, ConcatPrefix
<1>5. /\ new \in Seq(Alphabet) /\ Len(new) = Len(l) + n
      /\ new \o Rest(t, n) = all /\ IsPrefix(new, all)
  <2>1. /\ l \o SubSeq(t, 1, n) \in Seq(Alphabet)
        /\ Len(l \o SubSeq(t, 1, n)) = Len(l) + n
        /\ (l \o SubSeq(t, 1, n)) \o Rest(t, n) = l \o t
        /\ IsPrefix(l \o SubSeq(t, 1, n), l \o t)
    BY <1>1, ConcatFront
  <2> QED
    BY <1>2, <1>3, <2>1
<1>6. Len(l) \in Nat /\ Len(p) \in Nat /\ n \in Nat /\ n <= Len(t)
      /\ Len(t) \in Nat
  BY <1>1, LenProperties
<1>7. ASSUME NEW i \in 1 .. Len(new) PROVE Ruled(all, i)
  <2>1. CASE i <= Len(l)
    <3>1. i \in 1 .. Len(l) /\ i \in 1 .. Len(old)
      BY <1>1, <1>5, <1>6, <2>1
    <3>2. Ruled(old, i)
      BY <1>3, <3>1
    <3> QED
      BY <1>1, <1>4, <3>1, <3>2, RuledIsUnmarked
  <2>2. CASE ~(i <= Len(l))
    <3> DEFINE j == i - Len(l)
    <3>1. j \in 1 .. n /\ j \in 1 .. Len(t) /\ Len(l) + j = i
      BY <1>5, <1>6, <2>2
    <3> HIDE DEF j
    <3>2. Ruled(t, j)
      BY <1>3, <3>1 DEF LetsOut
    <3>3. Ruled(l \o t, Len(l) + j)
      BY <1>1, <3>1, <3>2, RuledMoves
    <3> QED
      BY <1>2, <3>1, <3>3
  <2> QED
    BY <2>1, <2>2
<1>8. ASSUME f.silent PROVE Len(new) + 1 \in Marks(all)
  <2>1. n + 1 \in Marks(t)
    BY <1>3, <1>8 DEF LetsOut
  <2>2. Len(l) + (n + 1) \in Marks(l \o t)
    BY <1>1, <2>1, MarksMove
  <2>3. Len(l) + (n + 1) = Len(new) + 1
    BY <1>5, <1>6
  <2> QED
    BY <1>2, <2>2, <2>3
<1>9. ASSUME ~f.silent
      PROVE  /\ all = new \o f.held
             /\ Len(f.held) <= Holdback
                \/ \E m \in Markers: IsPrefix(f.held, m)
  <2>1. /\ f.held = Rest(t, n)
        /\ \/ Len(Rest(t, n)) <= Holdback
           \/ \E m \in Markers: IsPrefix(Rest(t, n), m)
    BY <1>3, <1>9 DEF LetsOut
  <2> QED
    BY <1>5, <2>1
<1> QED
  BY <1>5, <1>7, <1>8, <1>9 DEF Kept

LEMMA OutsideDecode ==
  ASSUME Next, ~Decode
  PROVE  UNCHANGED <<kind, said, pending, silenced, live>>
         /\ (connected' => connected)
  BY DEF Next, Produce, Consume, Start, EndOfStream, Judge, Retry, Retried,
         Deliver, Close, Read, Ask, Raise, Leave, StopRequest, textVars

LEMMA ToldDecode ==
  ASSUME TypeOK, Told, Decode, kind = "tools"
  PROVE  Told'
<1>1. /\ text \in Seq(Letters) /\ said \in Seq(Letters)
      /\ pending \in Seq(Letters) /\ live \in Seq(Letters)
  BY DEF TypeOK
<1>2. PICK k \in 1 .. Len(text): /\ said' = said \o SubSeq(text, 1, k)
                                /\ Emit(SubSeq(text, 1, k))
  BY DEF Decode
<1> DEFINE piece == SubSeq(text, 1, k)
<1>3. piece \in Seq(Letters)
  <2>1. k \in 0 .. Len(text)
    BY <1>1, LenProperties
  <2> QED
    BY <1>1, <2>1, FrontIs
<1>4. said' = said \o piece /\ Emit(piece)
  BY <1>2
<1> HIDE DEF piece
<1>5. /\ live \in Seq(Alphabet) /\ said \in Seq(Alphabet)
      /\ pending \in Seq(Alphabet) /\ piece \in Seq(Alphabet)
  BY <1>1, <1>3, MarkersTyped
<1>6. /\ IsPrefix(live, said)
      /\ \A i \in 1 .. Len(live): Ruled(said, i)
      /\ silenced => Len(live) + 1 \in Marks(said)
      /\ ~silenced /\ connected => said = live \o pending
  BY DEF Told
<1>7. said' \in Seq(Alphabet) /\ IsPrefix(said, said')
  BY <1>4, <1>5, ConcatProperties, ConcatPrefix
<1>8. UNCHANGED <<kind, connected>>
  BY DEF Decode
<1>9. CASE UNCHANGED <<pending, silenced, live>> /\ (~connected \/ silenced)
  <2>1. IsPrefix(live, said')
    BY <1>5, <1>6, <1>7, PrefixTransitive
  <2>2. ASSUME NEW i \in 1 .. Len(live) PROVE Ruled(said', i)
    <3>1. i \in 1 .. Len(said)
      BY <1>5, <1>6, PrefixIs, LenProperties
    <3> QED
      BY <1>5, <1>6, <1>7, <3>1, RuledIsUnmarked
  <2>3. silenced => Len(live) + 1 \in Marks(said')
    BY <1>5, <1>6, <1>7, MarksStay
  <2> QED
    BY <1>8, <1>9, <2>1, <2>2, <2>3 DEF Told
<1>10. CASE connected /\ ~silenced
  <2>1. PICK n \in 0 .. Len(pending \o piece):
          /\ LetsOut([out |-> SubSeq(pending \o piece, 1, n),
                      held |-> pending', silent |-> silenced'],
                     pending \o piece, n)
          /\ live' = live \o SubSeq(pending \o piece, 1, n)
    BY <1>3, <1>4, <1>10, EmitSends
  <2> DEFINE f == [out |-> SubSeq(pending \o piece, 1, n),
                   held |-> pending', silent |-> silenced']
  <2>2. LetsOut(f, pending \o piece, n)
    BY <2>1
  <2>3. f.held = pending' /\ f.silent = silenced'
    OBVIOUS
  <2> HIDE DEF f
  <2>4. /\ said = live \o pending /\ said' = (live \o pending) \o piece
        /\ \A i \in 1 .. Len(live): Ruled(live \o pending, i)
    BY <1>4, <1>6, <1>10
  <2>5. Kept(f, live', said')
    BY <1>5, <2>1, <2>2, <2>4, ToldGrows
  <2>6. /\ silenced' => Len(live') + 1 \in Marks(said')
        /\ ~silenced' =>
             /\ said' = live' \o pending'
             /\ Len(pending') <= Holdback
                \/ \E m \in Markers: IsPrefix(pending', m)
    BY <2>3, <2>5 DEF Kept
  <2>7. /\ IsPrefix(live', said')
        /\ \A i \in 1 .. Len(live'): Ruled(said', i)
    BY <2>5 DEF Kept
  <2> QED
    BY <2>6, <2>7 DEF Told
<1>11. ~connected \/ silenced => UNCHANGED <<pending, silenced, live>>
  BY <1>3, <1>4, EmitSends
<1> QED
  BY <1>9, <1>10, <1>11

LEMMA ToldStep ==
  ASSUME TypeOK, Told, [Next]_vars
  PROVE  Told'
<1>1. CASE UNCHANGED vars
  BY <1>1 DEF Told, vars, textVars
<1>2. CASE Next /\ ~Decode
  BY <1>2, OutsideDecode DEF Told
<1>3. CASE Decode
  <2>1. kind' = kind
    BY <1>3 DEF Decode
  <2>2. CASE kind = "tools"
    BY <1>3, <2>2, ToldDecode
  <2>3. CASE kind # "tools"
    BY <2>1, <2>3 DEF Told
  <2> QED
    BY <2>2, <2>3
<1> QED
  BY <1>1, <1>2, <1>3

LEMMA ToldIsNoMarkup ==
  ASSUME TypeOK, Told
  PROVE  NoMarkupLeaks
<1>1. SUFFICES ASSUME kind = "tools"
               PROVE  /\ IsPrefix(live, Before(said))
                      /\ silenced => live = Before(said)
  BY DEF NoMarkupLeaks, Told
<1>2. /\ said \in Seq(Letters) /\ live \in Seq(Letters)
      /\ said \in Seq(Alphabet) /\ live \in Seq(Alphabet)
  BY MarkersTyped DEF TypeOK
<1>3. /\ IsPrefix(live, said) /\ \A i \in 1 .. Len(live): Ruled(said, i)
      /\ silenced => Len(live) + 1 \in Marks(said)
  BY <1>1 DEF Told
<1>4. ASSUME NEW i \in 1 .. Len(live) PROVE i \notin Marks(said)
  <2>1. i \in 1 .. Len(said)
    BY <1>2, <1>3, PrefixIs, LenProperties
  <2>2. IsPrefix(said, said)
    BY <1>2, ConcatPrefix
  <2>3. Ruled(said, i)
    BY <1>3
  <2> QED
    BY <1>2, <2>1, <2>2, <2>3, RuledIsUnmarked
<1>5. Letters \subseteq Alphabet
  BY DEF Alphabet
<1> QED
  BY <1>2, <1>3, <1>4, <1>5, BeforeIs

\* However the text of a turn with tools is cut into pieces, no letter of tool
\* markup goes out live, and everything before it does.
THEOREM NoMarkup == Spec => []NoMarkupLeaks
<1>1. Init => TypeOK /\ Told
  BY InitTyped, ToldInit
<1>2. (TypeOK /\ Told) /\ [Next]_vars => (TypeOK /\ Told)'
  BY TypeStep, ToldStep
<1>3. TypeOK /\ Told => NoMarkupLeaks
  BY ToldIsNoMarkup
<1> QED
  BY <1>1, <1>2, <1>3, PTL DEF Spec

-----------------------------------------------------------------------------
(* An attempt that was cut.                                                 *)

\* Until the first attempt is judged, a cut is that of a stop which is still
\* requested; once it was judged, its cut has led elsewhere.
Cuts ==
  /\ pc \in {"queued", "decode"} => cut = "no"
  /\ pc = "judge" /\ cut = "first" => stop
  /\ pc \in {"parse", "retry"} => cut # "first"

LEMMA CutsStep ==
  ASSUME Cuts, [Next]_vars
  PROVE  Cuts'
<1>1. CASE UNCHANGED vars
  BY <1>1 DEF Cuts, vars
<1>2. CASE Start
  BY <1>2 DEF Cuts, Start
<1>3. CASE Decode
  BY <1>3 DEF Cuts, Decode
<1>4. CASE EndOfStream
  BY <1>4 DEF Cuts, EndOfStream
<1>5. CASE Judge
  BY <1>5 DEF Cuts, Judge, Stopped
<1>6. CASE Retry
  BY <1>6 DEF Cuts, Retry
<1>7. CASE Retried
  BY <1>7 DEF Cuts, Retried
<1>8. CASE Deliver \/ Close \/ Raise
  BY <1>8 DEF Cuts, Deliver, Close, Raise
<1>9. CASE Read \/ Leave \/ Ask \/ StopRequest
  BY <1>9 DEF Cuts, Read, Leave, Ask, StopRequest
<1> QED
  BY <1>1, <1>2, <1>3, <1>4, <1>5, <1>6, <1>7, <1>8, <1>9
     DEF Next, Produce, Consume

\* A request whose attempt a stop has cut is not closed without an error before
\* both ranks have forgotten their live slots.
THEOREM CutReset == Spec => CutMeansReset
<1>1. Init => TypeOK /\ Cuts
  BY InitTyped DEF Init, Cuts
<1>2. (TypeOK /\ Cuts) /\ [Next]_vars => (TypeOK /\ Cuts)'
  BY TypeStep, CutsStep
<1>3. (TypeOK /\ Cuts) /\ [Next]_vars =>
        [pc # "close" /\ pc' = "close" /\ faults' = faults
           /\ (cut = "first" \/ (cut = "retry" /\ ~connected)) => reset']_vars
  <2> SUFFICES ASSUME TypeOK, Cuts, Next, pc # "close", pc' = "close",
                      faults' = faults,
                      cut = "first" \/ (cut = "retry" /\ ~connected)
               PROVE  reset'
    OBVIOUS
  <2>1. Judge \/ Deliver \/ Raise
    BY DEF Next, Produce, Consume, Start, Decode, EndOfStream, Retry, Retried,
           Close, Read, Ask, Leave, StopRequest
  <2>2. CASE Judge
    BY <2>2 DEF Judge, Stopped, Cuts
  <2>3. CASE Deliver
    BY <2>3 DEF Deliver, Cuts
  <2>4. CASE Raise
    <3>1. faults' = faults + 1 /\ faults \in Nat
      BY <2>4 DEF Raise, TypeOK
    <3> QED
      BY <3>1
  <2> QED
    BY <2>1, <2>2, <2>3, <2>4
<1> QED
  BY <1>1, <1>2, <1>3, PTL DEF Spec, CutMeansReset

-----------------------------------------------------------------------------
(* The whole answer.                                                        *)

\* g[i] is the content that a client with the content c has when it has read i
\* items of q.  Only deltas have a content, and none comes after the end.
Chained(g, q, c) ==
  /\ g \in [0 .. Len(q) -> Seq(Letters)]
  /\ g[0] = c
  /\ \A i \in 1 .. Len(q): g[i] = g[i - 1] \o q[i].content
  /\ \A i \in 1 .. Len(q): q[i].what # "delta" => q[i].content = <<>>
  /\ \A i, j \in 1 .. Len(q):
       i < j /\ q[i].what \in Whys => q[j].what # "delta"

\* One queue after the other: h is g and then k.
Joined(h, q, g, r, k) ==
  /\ Chained(h, q \o r, g[0])
  /\ \A i \in 0 .. Len(q): h[i] = g[i]
  /\ \A i \in 0 .. Len(r): h[Len(q) + i] = k[i]

\* The first tells no end, or the second has no content.
Joinable(q, r) ==
  \/ \A i \in 1 .. Len(q): q[i].what \notin Whys
  \/ \A i \in 1 .. Len(r): r[i].what # "delta"

LEMMA ChainConcat ==
  ASSUME NEW q \in Seq(Items), NEW r \in Seq(Items), NEW c, NEW g, NEW k,
         Chained(g, q, c), Chained(k, r, g[Len(q)]), Joinable(q, r)
  PROVE  g[0] = c /\ \E h: Joined(h, q, g, r, k)
<1> DEFINE t == q \o r
           n == Len(q)
           m == Len(r)
           h == [i \in 0 .. n + m |-> IF i <= n THEN g[i] ELSE k[i - n]]
<1>1. /\ n \in Nat /\ m \in Nat /\ Len(t) = n + m
      /\ \A i \in 1 .. n + m: t[i] = IF i <= n THEN q[i] ELSE r[i - n]
  BY ConcatProperties, LenProperties
<1>2. /\ g \in [0 .. n -> Seq(Letters)] /\ g[0] = c
      /\ \A i \in 1 .. n: g[i] = g[i - 1] \o q[i].content
      /\ \A i \in 1 .. n: q[i].what # "delta" => q[i].content = <<>>
      /\ \A i, j \in 1 .. n:
           i < j /\ q[i].what \in Whys => q[j].what # "delta"
  BY DEF Chained
<1>3. /\ k \in [0 .. m -> Seq(Letters)] /\ k[0] = g[n]
      /\ \A i \in 1 .. m: k[i] = k[i - 1] \o r[i].content
      /\ \A i \in 1 .. m: r[i].what # "delta" => r[i].content = <<>>
      /\ \A i, j \in 1 .. m:
           i < j /\ r[i].what \in Whys => r[j].what # "delta"
  BY DEF Chained
<1>4. \/ \A i \in 1 .. n: q[i].what \notin Whys
      \/ \A i \in 1 .. m: r[i].what # "delta"
  BY DEF Joinable
<1> HIDE DEF t, n, m
\* Where each place of t comes from.
<1>5. ASSUME NEW i \in 1 .. n + m
      PROVE  \/ i \in 1 .. n /\ t[i] = q[i]
             \/ /\ i - n \in 1 .. m /\ ~(i <= n)
                /\ t[i] = r[i - n]
  BY <1>1
<1>6. \A i \in 0 .. n: h[i] = g[i]
  BY <1>1
<1>7. \A i \in 0 .. m: h[n + i] = k[i]
  <2>1. ASSUME NEW i \in 0 .. m PROVE h[n + i] = k[i]
    <3>1. n + i \in 0 .. n + m /\ n + i - n = i
      BY <1>1
    <3>2. CASE n + i <= n
      <4>1. i = 0 /\ n + i = n /\ n \in 0 .. n
        BY <1>1, <3>2
      <4> QED
        BY <1>3, <1>6, <4>1
    <3>3. CASE ~(n + i <= n)
      <4> DEFINE p == n + i
      <4>1. p \in 0 .. n + m /\ p - n = i /\ ~(p <= n)
        BY <1>1, <3>1, <3>3
      <4> HIDE DEF p
      <4>2. h[p] = k[p - n]
        BY <4>1
      <4> QED
        BY <4>1, <4>2 DEF p
    <3> QED
      BY <3>2, <3>3
  <2> QED
    BY <2>1
<1>8. h \in [0 .. n + m -> Seq(Letters)]
  <2>1. ASSUME NEW i \in 0 .. n + m
        PROVE  (IF i <= n THEN g[i] ELSE k[i - n]) \in Seq(Letters)
    <3>1. CASE i <= n
      <4>1. i \in 0 .. n
        BY <1>1, <3>1
      <4> QED
        BY <1>2, <3>1, <4>1
    <3>2. CASE ~(i <= n)
      <4>1. i - n \in 0 .. m
        BY <1>1, <3>2
      <4> QED
        BY <1>3, <3>2, <4>1
    <3> QED
      BY <3>1, <3>2
  <2> QED
    BY <2>1
<1> HIDE DEF h
<1>9. ASSUME NEW i \in 1 .. n + m PROVE h[i] = h[i - 1] \o t[i].content
  <2>1. CASE i \in 1 .. n /\ t[i] = q[i]
    <3>1. i \in 0 .. n /\ i - 1 \in 0 .. n
      BY <1>1, <2>1
    <3>2. h[i] = g[i] /\ h[i - 1] = g[i - 1]
      BY <1>6, <3>1
    <3> QED
      BY <1>2, <2>1, <3>2
  <2>2. CASE i - n \in 1 .. m /\ t[i] = r[i - n]
    <3> DEFINE j == i - n
    <3>1. /\ j \in 1 .. m /\ j \in 0 .. m /\ j - 1 \in 0 .. m
          /\ n + j = i /\ n + (j - 1) = i - 1
      BY <1>1, <2>2
    <3>2. t[i] = r[j]
      BY <2>2
    <3> HIDE DEF j
    <3>3. h[n + j] = k[j] /\ h[n + (j - 1)] = k[j - 1]
      BY <1>7, <3>1
    <3>4. h[i] = k[j] /\ h[i - 1] = k[j - 1]
      BY <3>1, <3>3
    <3> QED
      BY <1>3, <3>1, <3>2, <3>4
  <2> QED
    BY <1>5, <2>1, <2>2
<1>10. ASSUME NEW i \in 1 .. n + m, t[i].what # "delta"
       PROVE  t[i].content = <<>>
  BY <1>2, <1>3, <1>5, <1>10
<1>11. ASSUME NEW i \in 1 .. n + m, NEW j \in 1 .. n + m, i < j,
              t[i].what \in Whys
       PROVE  t[j].what # "delta"
  <2>1. CASE i \in 1 .. n /\ t[i] = q[i]
    <3>1. CASE j \in 1 .. n /\ t[j] = q[j]
      BY <1>2, <1>11, <2>1, <3>1
    <3>2. CASE j - n \in 1 .. m /\ t[j] = r[j - n]
      BY <1>4, <1>11, <2>1, <3>2
    <3> QED
      BY <1>5, <3>1, <3>2
  <2>2. CASE i - n \in 1 .. m /\ ~(i <= n) /\ t[i] = r[i - n]
    <3>1. j - n \in 1 .. m /\ t[j] = r[j - n] /\ i - n < j - n
      BY <1>1, <1>5, <1>11, <2>2
    <3> QED
      BY <1>3, <1>11, <2>2, <3>1
  <2> QED
    BY <1>5, <2>1, <2>2
<1>12. h[0] = c
  BY <1>1, <1>2, <1>6
<1>13. Chained(h, t, c)
  BY <1>1, <1>8, <1>9, <1>10, <1>11, <1>12 DEF Chained
<1>14. Joined(h, q, g, r, k)
  <2>1. g[0] = c
    BY <1>2
  <2> QED
    BY <1>6, <1>7, <1>13, <2>1 DEF Joined, n, m, t
<1> QED
  BY <1>2, <1>14

\* q takes a client from the content c to l, and nothing but why is in it that
\* tells the client how the stream has ended.
Brings(q, c, l, why) ==
  \E g:
    /\ Chained(g, q, c) /\ g[Len(q)] = l
    /\ \A i \in 1 .. Len(q):
         q[i].what \in Whys => q[i].what = why /\ g[i] = l

LEMMA BringsBoth ==
  ASSUME NEW q \in Seq(Items), NEW r \in Seq(Items), NEW c, NEW l, NEW m,
         NEW why, Brings(q, c, l, "none"), Brings(r, l, m, why)
  PROVE  Brings(q \o r, c, m, why)
<1>1. PICK g: /\ Chained(g, q, c) /\ g[Len(q)] = l
              /\ \A i \in 1 .. Len(q):
                   q[i].what \in Whys => q[i].what = "none" /\ g[i] = l
  BY DEF Brings
<1>2. PICK k: /\ Chained(k, r, l) /\ k[Len(r)] = m
              /\ \A i \in 1 .. Len(r):
                   r[i].what \in Whys => r[i].what = why /\ k[i] = m
  BY DEF Brings
<1>3. \A i \in 1 .. Len(q): q[i].what \notin Whys
  BY <1>1 DEF Whys
<1>4. PICK h: /\ Chained(h, q \o r, c)
              /\ \A i \in 0 .. Len(q): h[i] = g[i]
              /\ \A i \in 0 .. Len(r): h[Len(q) + i] = k[i]
  <2>1. Chained(k, r, g[Len(q)])
    BY <1>1, <1>2
  <2>2. Joinable(q, r)
    BY <1>3 DEF Joinable
  <2>3. g[0] = c /\ \E h: Joined(h, q, g, r, k)
    BY <1>1, <2>1, <2>2, ChainConcat
  <2> QED
    BY <2>3 DEF Joined
<1> DEFINE t == q \o r
<1>5. /\ Len(q) \in Nat /\ Len(r) \in Nat /\ Len(t) = Len(q) + Len(r)
      /\ \A i \in 1 .. Len(q) + Len(r):
           t[i] = IF i <= Len(q) THEN q[i] ELSE r[i - Len(q)]
  BY ConcatProperties, LenProperties
<1> HIDE DEF t
<1>6. h[Len(t)] = m
  <2>1. Len(r) \in 0 .. Len(r)
    BY <1>5
  <2> QED
    BY <1>2, <1>4, <1>5, <2>1
<1>7. ASSUME NEW i \in 1 .. Len(t), t[i].what \in Whys
      PROVE  t[i].what = why /\ h[i] = m
  <2> DEFINE j == i - Len(q)
  <2>1. ~(i <= Len(q))
    BY <1>3, <1>5, <1>7
  <2>2. /\ j \in 1 .. Len(r) /\ j \in 0 .. Len(r) /\ Len(q) + j = i
        /\ t[i] = r[j]
    BY <1>5, <2>1
  <2> HIDE DEF j
  <2>3. r[j].what = why /\ k[j] = m
    BY <1>2, <1>7, <2>2
  <2>4. h[Len(q) + j] = k[j]
    BY <1>4, <2>2
  <2> QED
    BY <2>2, <2>3, <2>4
<1>8. Chained(h, t, c)
  BY <1>4 DEF t
<1>9. Brings(t, c, m, why)
  BY <1>6, <1>7, <1>8 DEF Brings
<1> QED
  BY <1>9 DEF t

\* What has no content brings none.
LEMMA BringsNothing ==
  ASSUME NEW c \in Seq(Letters), NEW q \in Seq(Items), NEW why,
         \A i \in 1 .. Len(q):
           /\ q[i].what # "delta" /\ q[i].content = <<>>
           /\ q[i].what \in Whys => q[i].what = why
  PROVE  Brings(q, c, c, why)
<1> DEFINE g == [i \in 0 .. Len(q) |-> c]
<1>1. Len(q) \in Nat /\ c \o <<>> = c
  BY LenProperties, ConcatEmptySeq
<1>2. /\ g \in [0 .. Len(q) -> Seq(Letters)]
      /\ \A i \in 0 .. Len(q): g[i] = c
  OBVIOUS
<1> HIDE DEF g
<1>3. g[0] = c /\ g[Len(q)] = c
  BY <1>1, <1>2
<1>4. ASSUME NEW i \in 1 .. Len(q)
      PROVE  g[i] = c /\ g[i] = g[i - 1] \o q[i].content
  <2>1. g[i] = c /\ g[i - 1] = c
    BY <1>1, <1>2
  <2>2. q[i].content = <<>>
    OBVIOUS
  <2> QED
    BY <1>1, <2>1, <2>2
<1>5. Chained(g, q, c)
  <2>1. \A i \in 1 .. Len(q): q[i].what # "delta" /\ q[i].content = <<>>
    OBVIOUS
  <2> QED
    BY <1>2, <1>3, <1>4, <2>1 DEF Chained
<1>6. \A i \in 1 .. Len(q): q[i].what \in Whys => q[i].what = why /\ g[i] = c
  BY <1>4
<1> QED
  BY <1>3, <1>5, <1>6 DEF Brings

LEMMA BringsBye ==
  ASSUME NEW c \in Seq(Letters)
  PROVE  /\ Brings(<<>>, c, c, "none")
         /\ Brings(<<Item("None", <<>>)>>, c, c, "none")
         /\ \A w \in Whys: Brings(Bye(w), c, c, w)
<1>1. Brings(<<>>, c, c, "none")
  <2> DEFINE q == <<>>
  <2>1. q \in Seq(Items) /\ Len(q) = 0
    BY EmptySeq
  <2> HIDE DEF q
  <2>2. \A i \in 1 .. Len(q): FALSE
    BY <2>1
  <2>3. Brings(q, c, c, "none")
    BY <2>1, <2>2, BringsNothing
  <2> QED
    BY <2>3 DEF q
<1>2. Brings(<<Item("None", <<>>)>>, c, c, "none")
  <2> DEFINE q == <<Item("None", <<>>)>>
  <2>1. q \in Seq(Items)
    BY ItemsTyped
  <2>2. /\ \A i \in 1 .. Len(q): q[i] = Item("None", <<>>)
        /\ "None" \notin Whys
    BY DEF Whys
  <2> HIDE DEF q
  <2>3. ASSUME NEW i \in 1 .. Len(q)
        PROVE  /\ q[i].what # "delta" /\ q[i].content = <<>>
               /\ q[i].what \in Whys => q[i].what = "none"
    <3>1. q[i].what = "None" /\ q[i].content = <<>>
      BY <2>2 DEF Item
    <3> QED
      BY <2>2, <3>1
  <2>4. Brings(q, c, c, "none")
    BY <2>1, <2>3, BringsNothing
  <2> QED
    BY <2>4 DEF q
<1>3. ASSUME NEW w \in Whys PROVE Brings(Bye(w), c, c, w)
  <2> DEFINE q == Bye(w)
  <2>1. q \in Seq(Items)
    BY ItemsTyped
  <2>2. /\ \A i \in 1 .. Len(q): q[i] = Item(w, <<>>)
                               \/ q[i] = Item("[DONE]", <<>>)
        /\ "[DONE]" \notin Whys /\ w # "delta"
    BY DEF Whys, Bye
  <2> HIDE DEF q
  <2>3. ASSUME NEW i \in 1 .. Len(q)
        PROVE  /\ q[i].what # "delta" /\ q[i].content = <<>>
               /\ q[i].what \in Whys => q[i].what = w
    <3>1. q[i].what \in {w, "[DONE]"} /\ q[i].content = <<>>
      BY <2>2 DEF Item
    <3> QED
      BY <2>2, <3>1
  <2>4. Brings(q, c, c, w)
    BY <2>1, <2>3, BringsNothing
  <2> QED
    BY <2>4 DEF q
<1> QED
  BY <1>1, <1>2, <1>3

LEMMA BringsOne ==
  ASSUME NEW c \in Seq(Letters), NEW w \in Whys \cup {"delta", "[DONE]", "None"},
         NEW x \in Seq(Letters), w # "delta" => x = <<>>, NEW why,
         w \in Whys => w = why
  PROVE  Brings(<<Item(w, x)>>, c, c \o x, why)
<1> DEFINE g == [i \in 0 .. 1 |-> IF i = 0 THEN c ELSE c \o x]
           q == <<Item(w, x)>>
<1>1. c \o x \in Seq(Letters)
  BY ConcatProperties
<1>2. /\ g \in [0 .. 1 -> Seq(Letters)] /\ g[0] = c /\ g[1] = c \o x
      /\ Len(q) = 1 /\ q[1] = Item(w, x)
  BY <1>1
<1> HIDE DEF g, q
<1>3. q[1].what = w /\ q[1].content = x
  BY <1>2 DEF Item
<1>4. \A i \in 1 .. Len(q): i = 1 /\ i - 1 = 0
  BY <1>2
<1>5. Chained(g, q, c)
  <2>1. \A i \in 1 .. Len(q): g[i] = g[i - 1] \o q[i].content
    BY <1>2, <1>3, <1>4
  <2>2. \A i \in 1 .. Len(q): q[i].what # "delta" => q[i].content = <<>>
    BY <1>3, <1>4
  <2>3. \A i, j \in 1 .. Len(q): ~(i < j)
    BY <1>2
  <2> QED
    BY <1>2, <2>1, <2>2, <2>3 DEF Chained
<1>6. Brings(q, c, c \o x, why)
  BY <1>2, <1>3, <1>4, <1>5 DEF Brings
<1> QED
  BY <1>6 DEF q

LEMMA BringsContent ==
  ASSUME NEW c \in Seq(Letters), NEW x \in Seq(Letters)
  PROVE  Brings(Content(x), c, c \o x, "none")
<1>1. CASE x = <<>>
  <2>1. c \o x = c /\ Content(x) = <<>>
    BY <1>1, ConcatEmptySeq DEF Content
  <2> QED
    BY <2>1, BringsBye
<1>2. CASE x # <<>>
  <2>1. Content(x) = <<Item("delta", x)>>
    BY <1>2 DEF Content
  <2>2. "delta" \notin Whys
    BY DEF Whys
  <2> QED
    BY <2>1, <2>2, BringsOne
<1> QED
  BY <1>1, <1>2

\* One item less.
LEMMA ChainTail ==
  ASSUME NEW q \in Seq(Items), q # <<>>, NEW c, NEW g, Chained(g, q, c)
  PROVE  /\ Chained([i \in 0 .. Len(Tail(q)) |-> g[i + 1]], Tail(q), g[1])
         /\ g[1] = c \o Head(q).content /\ Head(q) = q[1]
         /\ 1 \in 1 .. Len(q) /\ Len(q) = Len(Tail(q)) + 1
         /\ Tail(q) \in Seq(Items)
         /\ \A i \in 1 .. Len(Tail(q)): i + 1 \in 1 .. Len(q)
                                     /\ Tail(q)[i] = q[i + 1]
<1> DEFINE t == Tail(q)
           n == Len(t)
           h == [i \in 0 .. n |-> g[i + 1]]
<1>1. /\ t \in Seq(Items) /\ n \in Nat /\ Len(q) = n + 1 /\ Head(q) = q[1]
      /\ \A i \in 1 .. n: t[i] = q[i + 1]
  BY HeadTailProperties, LenProperties
<1>2. /\ g \in [0 .. n + 1 -> Seq(Letters)] /\ g[0] = c
      /\ \A i \in 1 .. n + 1: g[i] = g[i - 1] \o q[i].content
      /\ \A i \in 1 .. n + 1: q[i].what # "delta" => q[i].content = <<>>
      /\ \A i, j \in 1 .. n + 1:
           i < j /\ q[i].what \in Whys => q[j].what # "delta"
  BY <1>1 DEF Chained
<1> HIDE DEF t, n
<1>3. \A i \in 1 .. n: i + 1 \in 1 .. Len(q) /\ t[i] = q[i + 1]
  BY <1>1
<1>4. g[1] = c \o Head(q).content
  <2>1. 1 \in 1 .. n + 1 /\ 1 - 1 = 0
    BY <1>1
  <2> QED
    BY <1>1, <1>2, <2>1
<1>5. h \in [0 .. n -> Seq(Letters)]
  <2>1. \A i \in 0 .. n: i + 1 \in 0 .. n + 1
    BY <1>1
  <2> QED
    BY <1>2, <2>1
<1>6. \A i \in 0 .. n: h[i] = g[i + 1]
  OBVIOUS
<1>7. Len(t) = n
  BY DEF n
<1> HIDE DEF h
<1>8. ASSUME NEW i \in 1 .. n PROVE h[i] = h[i - 1] \o t[i].content
  <2> DEFINE j == i + 1
  <2>1. /\ i \in 0 .. n /\ i - 1 \in 0 .. n /\ j \in 1 .. n + 1
        /\ j = i + 1 /\ i - 1 + 1 = j - 1
    BY <1>1
  <2> HIDE DEF j
  <2>2. h[i] = g[i + 1] /\ h[i - 1] = g[i - 1 + 1]
    BY <1>6, <2>1
  <2>3. h[i] = g[j] /\ h[i - 1] = g[j - 1]
    BY <2>1, <2>2
  <2>4. t[i] = q[j] /\ g[j] = g[j - 1] \o q[j].content
    BY <1>2, <1>3, <2>1
  <2> QED
    BY <2>3, <2>4
<1>9. ASSUME NEW i \in 1 .. n, t[i].what # "delta" PROVE t[i].content = <<>>
  <2>1. i + 1 \in 1 .. n + 1 /\ t[i] = q[i + 1]
    BY <1>1, <1>3
  <2> QED
    BY <1>2, <1>9, <2>1
<1>10. ASSUME NEW i \in 1 .. n, NEW j \in 1 .. n, i < j, t[i].what \in Whys
       PROVE  t[j].what # "delta"
  <2>1. /\ i + 1 \in 1 .. n + 1 /\ j + 1 \in 1 .. n + 1 /\ i + 1 < j + 1
        /\ t[i] = q[i + 1] /\ t[j] = q[j + 1]
    BY <1>1, <1>3, <1>10
  <2> QED
    BY <1>2, <1>10, <2>1
<1>11. h[0] = g[1]
  BY <1>1, <1>6
<1>12. Chained(h, t, g[1])
  BY <1>5, <1>7, <1>8, <1>9, <1>10, <1>11 DEF Chained
<1>13. 1 \in 1 .. Len(q) /\ Len(q) = Len(t) + 1
  BY <1>1, <1>7
<1> QED
  BY <1>1, <1>3, <1>4, <1>7, <1>12, <1>13 DEF h, n, t

\* Without tools the text goes out as it is said, and as long as there was no
\* retry what is parsed is what was said.
Plain ==
  /\ kind # "tools" =>
       tries = 0 /\ pc # "retry" /\ (connected => live = said)
  /\ pc = "retry" => tries # 0
  /\ tries = 0 /\ pc \in {"judge", "parse"} => full = said

LEMMA PlainStep ==
  ASSUME TypeOK, Plain, [Next]_vars
  PROVE  Plain'
<1>1. CASE UNCHANGED vars
  BY <1>1 DEF Plain, vars, textVars
<1>2. CASE Decode
  <2>1. PICK n \in 1 .. Len(text): /\ said' = said \o SubSeq(text, 1, n)
                                  /\ Emit(SubSeq(text, 1, n))
    BY <1>2 DEF Decode
  <2>2. SubSeq(text, 1, n) \in Seq(Letters)
    <3>1. text \in Seq(Letters) /\ n \in 0 .. Len(text)
      BY LenProperties DEF TypeOK
    <3> QED
      BY <3>1, FrontIs
  <2>3. kind # "tools" /\ connected => live' = live \o SubSeq(text, 1, n)
    BY <2>1, <2>2, EmitSends
  <2>4. UNCHANGED <<kind, pc, connected, tries>> /\ pc = "decode"
    BY <1>2 DEF Decode
  <2> QED
    BY <2>1, <2>3, <2>4 DEF Plain
<1>3. CASE Start
  BY <1>3 DEF Plain, Start
<1>4. CASE EndOfStream
  BY <1>4 DEF Plain, EndOfStream
<1>5. CASE Judge
  BY <1>5 DEF Plain, Judge, textVars
<1>6. CASE Retry
  <2>1. tries' # 0
    BY <1>6 DEF TypeOK, Retry
  <2> QED
    BY <1>6, <2>1 DEF Plain, Retry, textVars
<1>7. CASE Retried \/ Deliver
  BY <1>7 DEF Plain, Retried, Deliver
<1>8. CASE Close \/ Raise
  BY <1>8 DEF Plain, Close, Raise, textVars
<1>9. CASE Read \/ Leave \/ Ask \/ StopRequest
  BY <1>9 DEF Plain, Read, Leave, Ask, StopRequest, textVars
<1> QED
  BY <1>1, <1>2, <1>3, <1>4, <1>5, <1>6, <1>7, <1>8, <1>9
     DEF Next, Produce, Consume

\* What a client with the content c may be told.
Outcome(why, c) ==
  /\ why = "complete" =>
       \/ kind # "final" /\ c = final
       \/ kind = "final" /\ c = live \o final
       \/ kind = "tools" /\ final = <<>> /\ c = live
       \/ /\ kind = "tools" /\ ~IsPrefix(live, final)
          /\ tries > 0 \/ Space \in {live[1], live[Len(live)]}
          /\ c = live \o <<NL>> \o final
  /\ why = "calls" => c = live
  /\ why = "stopped" => IsPrefix(c, said)

Open == pc \notin {"close", "done"}

\* With g the ends that are in the queue fit what the client has by then.
Settled(g) ==
  /\ Chained(g, queue, got)
  /\ \A i \in 1 .. Len(queue):
       queue[i].what \in Whys => Outcome(queue[i].what, g[i])
  /\ ending # "none" => \A i \in 1 .. Len(queue): queue[i].what # "delta"

\* What is in the queue for a client that reads: while the producer is at work
\* what takes the client to all that was put, and afterwards no end that does
\* not fit.
Owed ==
  reader = "reading" =>
    /\ connected
    /\ Open => Brings(queue, got, live, "none")
    /\ ~Open => \E g: Settled(g)

\* What the client was told is true, and stays true.
Ended == ending # "none" => ~Open /\ Outcome(ending, got)

Chain == TypeOK /\ Told /\ Plain /\ Owed /\ Ended

\* The producer puts items before it goes on.
LEMMA OwedPut ==
  ASSUME Chain, Open, NEW items \in Seq(Items), NEW l, NEW why, Put(items),
         UNCHANGED clientVars, UNCHANGED connected,
         connected => Brings(items, live, l, why),
         Open' => live' = l /\ why = "none",
         connected /\ ~Open' => Outcome(why, l)'
  PROVE  Owed' /\ Ended'
<1>1. ending = "none" /\ Ended'
  BY DEF Chain, Ended, clientVars
<1>2. SUFFICES ASSUME reader = "reading" PROVE Owed'
  BY <1>1 DEF Owed, clientVars
<1>3. connected /\ Brings(queue, got, live, "none") /\ queue \in Seq(Items)
  BY <1>2 DEF Chain, Owed, TypeOK, Items
<1>4. queue' = queue \o items /\ Brings(items, live, l, why)
  BY <1>3 DEF Put
<1>5. Brings(queue', got, l, why)
  BY <1>3, <1>4, BringsBoth
<1>6. CASE Open'
  <2>1. live' = l /\ why = "none"
    BY <1>6
  <2> QED
    BY <1>3, <1>5, <1>6, <2>1 DEF Owed, clientVars
<1>7. CASE ~Open'
  <2>1. Outcome(why, l)'
    BY <1>3, <1>7
  <2>2. PICK g: /\ Chained(g, queue', got)
                /\ \A i \in 1 .. Len(queue'):
                     queue'[i].what \in Whys => queue'[i].what = why /\ g[i] = l
    BY <1>5 DEF Brings
  <2>3. \A i \in 1 .. Len(queue'):
          queue'[i].what \in Whys => Outcome(queue[i].what, g[i])'
    BY <2>1, <2>2 DEF Outcome
  <2>4. ending' = "none" /\ got' = got /\ connected'
    BY <1>1, <1>3 DEF clientVars
  <2>5. Settled(g)'
    BY <2>2, <2>3, <2>4 DEF Settled
  <2> QED
    BY <1>7, <2>4, <2>5 DEF Owed
<1> QED
  BY <1>6, <1>7

LEMMA OutcomeStays ==
  ASSUME UNCHANGED <<kind, said, live, final, tries>>, NEW why, NEW c,
         Outcome(why, c)
  PROVE  Outcome(why, c)'
  BY DEF Outcome

\* A step that neither puts nor reads.
LEMMA OwedKept ==
  ASSUME Chain, UNCHANGED <<kind, said, live, final, queue, got, ending>>,
         Open' = Open, ~Open => tries' = tries,
         reader' = "reading" => reader = "reading" /\ connected'
  PROVE  Owed' /\ Ended'
<1>1. Owed /\ Ended
  BY DEF Chain
<1>2. Ended'
  BY <1>1, OutcomeStays DEF Ended
<1>3. SUFFICES ASSUME reader' = "reading" PROVE Owed'
  BY <1>2 DEF Owed
<1>4. reader = "reading" /\ connected /\ connected'
  BY <1>1, <1>3 DEF Owed
<1>5. CASE Open
  <2>1. Brings(queue, got, live, "none")
    BY <1>1, <1>4, <1>5 DEF Owed
  <2>2. queue' = queue /\ got' = got /\ live' = live /\ Open'
    BY <1>5
  <2>3. Brings(queue', got', live', "none")
    BY <2>1, <2>2
  <2> QED
    BY <1>4, <2>2, <2>3 DEF Owed
<1>6. CASE ~Open
  <2>1. PICK g: Settled(g)
    BY <1>1, <1>4, <1>6 DEF Owed
  <2>2. /\ ~Open' /\ queue' = queue /\ got' = got /\ ending' = ending
        /\ tries' = tries
    BY <1>6
  <2>3. \A i \in 1 .. Len(queue):
          queue[i].what \in Whys => Outcome(queue[i].what, g[i])'
    BY <2>1, <2>2, OutcomeStays DEF Settled
  <2>4. Settled(g)'
    BY <2>1, <2>2, <2>3 DEF Settled
  <2> QED
    BY <1>4, <2>2, <2>4 DEF Owed
<1> QED
  BY <1>5, <1>6

\* h is what is left of g when an item was read.
Left(g, h) ==
  /\ Chained(h, queue', got')
  /\ g[1] = got' /\ 1 \in 1 .. Len(queue)
  /\ Len(queue') \in Nat /\ Len(queue) = Len(queue') + 1
  /\ \A i \in 0 .. Len(queue'): h[i] = g[i + 1]
  /\ \A i \in 1 .. Len(queue'):
       i + 1 \in 1 .. Len(queue) /\ queue'[i] = queue[i + 1]

LEMMA ReadLeaves ==
  ASSUME queue \in Seq(Items), Read, NEW g, Chained(g, queue, got)
  PROVE  \E h: Left(g, h)
<1> DEFINE t == Tail(queue)
           h == [i \in 0 .. Len(t) |-> g[i + 1]]
<1>1. queue # <<>> /\ queue' = t /\ got' = got \o Head(queue).content
  BY DEF Read
<1>2. /\ Chained(h, t, g[1]) /\ g[1] = got \o Head(queue).content
      /\ 1 \in 1 .. Len(queue) /\ Len(queue) = Len(t) + 1
      /\ t \in Seq(Items)
      /\ \A i \in 1 .. Len(t): i + 1 \in 1 .. Len(queue) /\ t[i] = queue[i + 1]
  BY <1>1, ChainTail
<1>3. \A i \in 0 .. Len(t): h[i] = g[i + 1]
  OBVIOUS
<1>4. Len(t) \in Nat
  BY <1>2, LenProperties
<1> HIDE DEF t, h
<1> QED
  BY <1>1, <1>2, <1>3, <1>4 DEF Left

\* The client reads an item.
LEMMA OwedRead ==
  ASSUME Chain, Read
  PROVE  Owed' /\ Ended'
<1> DEFINE it == Head(queue)
<1>1. /\ Owed /\ Ended /\ queue \in Seq(Items) /\ got \in Seq(Letters)
      /\ queue # <<>> /\ reader = "reading"
  BY DEF Chain, TypeOK, Items, Read
<1>2. /\ queue' = Tail(queue) /\ got' = got \o it.content
      /\ ending' = IF it.what \in {"delta", "[DONE]", "None"} THEN ending
                   ELSE it.what
      /\ UNCHANGED <<kind, said, live, final, tries, connected, pc>>
  BY DEF Read, textVars
<1>3. it \in Items /\ it = queue[1]
  BY <1>1, HeadTailProperties
<1>4. /\ it.what \in Whys => ending' = it.what
      /\ it.what \notin Whys => ending' = ending
  BY <1>2, <1>3 DEF Items, Whys
<1>5. connected /\ connected' /\ Open' = Open
  BY <1>1, <1>2 DEF Owed, Open
<1>6. CASE Open
  <2>1. PICK g: /\ Chained(g, queue, got) /\ g[Len(queue)] = live
                /\ \A i \in 1 .. Len(queue): queue[i].what \in Whys =>
                     queue[i].what = "none" /\ g[i] = live
    BY <1>1, <1>6 DEF Owed, Brings
  <2>2. Chained(g, queue, got)
    BY <2>1
  <2>3. PICK h: Left(g, h)
    BY <1>1, <2>2, ReadLeaves
  <2>4. h[Len(queue')] = live
    <3>1. Len(queue') \in 0 .. Len(queue')
      BY <2>3 DEF Left
    <3> QED
      BY <2>1, <2>3, <3>1 DEF Left
  <2>5. \A i \in 1 .. Len(queue): queue[i].what \notin Whys
    BY <2>1 DEF Whys
  <2>6. \A i \in 1 .. Len(queue'): queue'[i].what \notin Whys
    BY <2>3, <2>5 DEF Left
  <2>7. Brings(queue', got', live, "none")
    <3>1. Chained(h, queue', got')
      BY <2>3 DEF Left
    <3> QED
      BY <2>4, <2>6, <3>1 DEF Brings
  <2>8. ending' = ending
    BY <1>3, <1>4, <2>3, <2>5 DEF Left
  <2>9. ending = "none"
    BY <1>1, <1>6 DEF Ended
  <2> QED
    BY <1>2, <1>5, <1>6, <2>7, <2>8, <2>9 DEF Owed, Ended
<1>7. CASE ~Open
  <2>1. PICK g: Settled(g)
    BY <1>1, <1>7 DEF Owed
  <2>2. Chained(g, queue, got)
    BY <2>1 DEF Settled
  <2>3. PICK h: Left(g, h)
    BY <1>1, <2>2, ReadLeaves
  <2>4. ASSUME NEW i \in 1 .. Len(queue'), queue'[i].what \in Whys
        PROVE  Outcome(queue[i].what, h[i])'
    <3>1. i + 1 \in 1 .. Len(queue) /\ queue'[i] = queue[i + 1]
          /\ h[i] = g[i + 1]
      BY <2>3 DEF Left
    <3>2. Outcome(queue[i + 1].what, g[i + 1])
      BY <2>1, <2>4, <3>1 DEF Settled
    <3>3. Outcome(queue'[i].what, h[i])
      BY <3>1, <3>2
    <3> QED
      BY <1>2, <3>3 DEF Outcome
  <2>5. it.what \in Whys => Outcome(it.what, got')
    BY <1>3, <2>1, <2>3 DEF Settled, Left
  <2>6. ASSUME ending' # "none", NEW i \in 1 .. Len(queue')
        PROVE  queue'[i].what # "delta"
    <3>1. i + 1 \in 1 .. Len(queue) /\ 1 < i + 1 /\ queue'[i] = queue[i + 1]
      BY <2>3 DEF Left
    <3>2. CASE it.what \in Whys
      <4>1. \A j, k \in 1 .. Len(queue):
              j < k /\ queue[j].what \in Whys => queue[k].what # "delta"
        BY <2>2 DEF Chained
      <4> QED
        BY <1>3, <2>3, <3>1, <3>2, <4>1 DEF Left
    <3>3. CASE it.what \notin Whys
      BY <1>4, <2>1, <2>6, <3>1, <3>3 DEF Settled
    <3> QED
      BY <3>2, <3>3
  <2>7. Owed'
    <3>1. Chained(h, queue', got')
      BY <2>3 DEF Left
    <3>2. Settled(h)'
      BY <2>4, <2>6, <3>1 DEF Settled
    <3> QED
      BY <1>5, <1>7, <3>2 DEF Owed
  <2>8. ASSUME ending' # "none" PROVE Outcome(ending, got)'
    <3>1. CASE it.what \in Whys
      <4>1. ending' = it.what
        BY <1>4, <3>1
      <4> QED
        BY <1>2, <2>5, <3>1, <4>1 DEF Outcome
    <3>2. CASE it.what \notin Whys
      <4>1. ending' = ending /\ Outcome(ending, got)
        BY <1>1, <1>4, <2>8, <3>2 DEF Ended
      <4>2. it.what # "delta"
        BY <1>3, <2>1, <2>3, <2>8, <4>1 DEF Settled, Left
      <4>3. it.content = <<>>
        BY <1>3, <2>2, <2>3, <4>2 DEF Chained, Left
      <4>4. got' = got
        BY <1>1, <1>2, <4>3, ConcatEmptySeq
      <4> QED
        BY <1>2, <4>1, <4>4 DEF Outcome
    <3> QED
      BY <3>1, <3>2
  <2> QED
    BY <1>5, <1>7, <2>7, <2>8 DEF Ended
<1> QED
  BY <1>6, <1>7

\* The end of the queue comes after everything else.
LEMMA OwedClose ==
  ASSUME Chain, Close
  PROVE  Owed' /\ Ended'
<1>1. /\ Owed /\ Ended /\ queue \in Seq(Items) /\ got \in Seq(Letters)
  BY DEF Chain, TypeOK, Items
<1>2. /\ UNCHANGED <<kind, said, live, final, tries, got, ending, reader,
                       connected>>
      /\ ~Open /\ ~Open' /\ Put(<<Item("None", <<>>)>>)
  BY DEF Close, textVars, clientVars, Open
<1>3. Ended'
  BY <1>1, <1>2, OutcomeStays DEF Ended
<1>4. SUFFICES ASSUME reader = "reading" PROVE Owed'
  BY <1>2, <1>3 DEF Owed
<1> DEFINE r == <<Item("None", <<>>)>>
<1>5. connected /\ connected' /\ queue' = queue \o r
  BY <1>1, <1>2, <1>4 DEF Owed, Put
<1>6. PICK g: Settled(g)
  BY <1>1, <1>2, <1>4 DEF Owed
<1>7. Chained(g, queue, got) /\ g[Len(queue)] \in Seq(Letters)
  <2>1. Chained(g, queue, got)
    BY <1>6 DEF Settled
  <2>2. Len(queue) \in 0 .. Len(queue)
    BY <1>1, LenProperties
  <2> QED
    BY <2>1, <2>2 DEF Chained
<1>8. r \in Seq(Items) /\ Len(r) = 1 /\ r[1].what = "None"
  BY ItemsTyped DEF Item
<1> HIDE DEF r
<1>9. PICK k: Chained(k, r, g[Len(queue)])
  <2>1. Brings(r, g[Len(queue)], g[Len(queue)], "none")
    BY <1>7, BringsBye DEF r
  <2> QED
    BY <2>1 DEF Brings
<1>10. \A i \in 1 .. Len(r): r[i].what # "delta"
  BY <1>8
<1>11. PICK h: /\ Chained(h, queue \o r, got)
               /\ \A i \in 0 .. Len(queue): h[i] = g[i]
  <2>1. Joinable(queue, r)
    BY <1>10 DEF Joinable
  <2>2. queue \in Seq(Items)
    BY <1>1
  <2>3. g[0] = got /\ \E h: Joined(h, queue, g, r, k)
    BY <1>7, <1>8, <1>9, <2>1, <2>2, ChainConcat
  <2> QED
    BY <2>3 DEF Joined
<1>12. /\ Len(queue) \in Nat /\ Len(queue') = Len(queue) + 1
       /\ \A i \in 1 .. Len(queue) + 1:
            queue'[i] = IF i <= Len(queue) THEN queue[i] ELSE r[i - Len(queue)]
  <2>1. /\ Len(queue \o r) = Len(queue) + Len(r)
        /\ \A i \in 1 .. Len(queue) + Len(r): (queue \o r)[i] =
             IF i <= Len(queue) THEN queue[i] ELSE r[i - Len(queue)]
    BY <1>1, <1>8, ConcatProperties
  <2> QED
    BY <1>1, <1>5, <1>8, <2>1, LenProperties
<1>13. ASSUME NEW i \in 1 .. Len(queue')
       PROVE  \/ i \in 1 .. Len(queue) /\ queue'[i] = queue[i]
              \/ queue'[i].what = "None"
  <2>1. CASE i <= Len(queue)
    BY <1>12, <2>1
  <2>2. CASE ~(i <= Len(queue))
    <3>1. i - Len(queue) = 1
      BY <1>12, <2>2
    <3> QED
      BY <1>8, <1>12, <2>2, <3>1
  <2> QED
    BY <2>1, <2>2
<1>14. ASSUME NEW i \in 1 .. Len(queue'), queue'[i].what \in Whys
       PROVE  Outcome(queue[i].what, h[i])'
  <2>1. i \in 1 .. Len(queue) /\ queue'[i] = queue[i]
    BY <1>13, <1>14 DEF Whys
  <2>2. h[i] = g[i]
    BY <1>11, <1>12, <2>1
  <2>3. Outcome(queue[i].what, g[i])
    BY <1>6, <1>14, <2>1 DEF Settled
  <2>4. Outcome(queue'[i].what, h[i])
    BY <2>1, <2>2, <2>3
  <2> QED
    BY <1>2, <2>4 DEF Outcome
<1>15. ASSUME ending' # "none", NEW i \in 1 .. Len(queue')
       PROVE  queue'[i].what # "delta"
  BY <1>2, <1>6, <1>13, <1>15 DEF Settled
<1>16. Chained(h, queue', got')
  BY <1>2, <1>5, <1>11
<1>17. Settled(h)'
  BY <1>14, <1>15, <1>16 DEF Settled
<1> QED
  BY <1>2, <1>5, <1>17 DEF Owed

\* Without a retry only white space keeps the answer of a turn with tools from
\* beginning with what went out.
LEMMA AgainIsExcused ==
  ASSUME Chain, kind = "tools", pc = "parse", NEW a \in Answers(full),
         a # <<>>, live # <<>>, ~IsPrefix(live, a)
  PROVE  tries > 0 \/ Space \in {live[1], live[Len(live)]}
<1>1. /\ said \in Seq(Letters) /\ live \in Seq(Letters) /\ tries \in Nat
      /\ Letters \subseteq Alphabet
  BY DEF Chain, TypeOK, Alphabet
<1>2. SUFFICES ASSUME tries = 0, live[1] # Space, live[Len(live)] # Space
               PROVE  FALSE
  BY <1>1
<1>3. full = said
  BY <1>2 DEF Chain, Plain
<1>4. IsPrefix(live, said)
  BY DEF Chain, Told
<1>5. IsPrefix(live, Before(said)) /\ Before(said) \in Seq(Letters)
  <2>1. NoMarkupLeaks
    BY ToldIsNoMarkup DEF Chain
  <2> QED
    BY <1>1, <2>1, BeforeIs DEF NoMarkupLeaks
<1>6. IsPrefix(live, Strip(said))
  BY <1>1, <1>2, <1>4, StripKeeps
<1>7. IsPrefix(live, Strip(Before(said)))
  BY <1>1, <1>2, <1>5, StripKeeps
<1> QED
  BY <1>3, <1>6, <1>7 DEF Answers

\* What the producer puts when the answer is parsed.
LEMMA OwedDeliver ==
  ASSUME Chain, Deliver
  PROVE  Owed' /\ Ended'
<1>1. /\ queue \in Seq(Items) /\ live \in Seq(Letters) /\ full \in Seq(Letters)
      /\ <<NL>> \in Seq(Letters)
  <2>1. NL \in Letters
    BY DEF Letters
  <2> QED
    BY <2>1 DEF Chain, TypeOK, Items
<1>2. /\ UNCHANGED <<kind, said, live, tries, connected>>
      /\ UNCHANGED clientVars /\ Open /\ ~Open' /\ pc = "parse"
  BY DEF Deliver, Open
<1>3. CASE ~connected
  <2>1. <<>> \in Seq(Items) /\ Put(<<>>)
    BY <1>3, EmptySeq DEF Deliver, Put
  <2> QED
    BY <1>2, <1>3, <2>1, OwedPut
<1>4. CASE connected /\ kind = "plain" /\ final' = full /\ Put(Bye("complete"))
  <2>1. live = full
    BY <1>2, <1>4 DEF Chain, Plain
  <2>2. Outcome("complete", live)'
    BY <1>2, <1>4, <2>1 DEF Outcome
  <2>3. Bye("complete") \in Seq(Items)
        /\ Brings(Bye("complete"), live, live, "complete")
    BY <1>1, ItemsTyped, BringsBye DEF Whys
  <2> QED
    BY <1>2, <1>4, <2>2, <2>3, OwedPut
<1>5. CASE connected /\ final' = <<>> /\ Put(Bye("calls"))
  <2>1. Outcome("calls", live)'
    BY <1>2 DEF Outcome
  <2>2. Bye("calls") \in Seq(Items)
        /\ Brings(Bye("calls"), live, live, "calls")
    BY <1>1, ItemsTyped, BringsBye DEF Whys
  <2> QED
    BY <1>2, <1>5, <2>1, <2>2, OwedPut
<1>6. ASSUME connected, kind = "tools", NEW a \in Answers(full), final' = a,
             Put(Content(Remainder(a)) \o Bye("complete"))
      PROVE  Owed' /\ Ended'
  <2>1. PICK x: a \in Seq(Letters) /\ x \in Seq(Letters) /\ x = Remainder(a)
    BY <1>1, ChoiceTyped, RemainderTyped
  <2> PICK l: l = live \o x
    OBVIOUS
  <2>2. live \o <<>> = live /\ <<>> \o a = a
    BY <1>1, <2>1, ConcatEmptySeq
  <2>3. Outcome("complete", l)'
    <3>1. CASE live = <<>> \/ a = <<>>
      <4>1. x = a
        BY <2>1, <3>1 DEF Remainder
      <4>2. l = a \/ (a = <<>> /\ l = live)
        BY <2>2, <3>1, <4>1
      <4>3. kind' = "tools" /\ final' = a /\ live' = live
        BY <1>2, <1>6
      <4> QED
        BY <4>2, <4>3 DEF Outcome
    <3>2. CASE ~(live = <<>> \/ a = <<>>) /\ IsPrefix(live, a)
      <4>1. x = Rest(a, Len(live))
        BY <2>1, <3>2 DEF Remainder
      <4>2. l = a
        BY <1>1, <2>1, <3>2, <4>1, PrefixRest
      <4>3. kind' = "tools" /\ final' = a
        BY <1>2, <1>6
      <4> QED
        BY <4>2, <4>3 DEF Outcome
    <3>3. CASE ~(live = <<>> \/ a = <<>>) /\ ~IsPrefix(live, a)
      <4>1. x = <<NL>> \o a
        BY <2>1, <3>3 DEF Remainder
      <4>2. l = live \o <<NL>> \o a
        <5>1. \A s, t, u \in Seq(Letters): (s \o t) \o u = s \o (t \o u)
          BY Associative, SMTT(30)
        <5>2. (live \o <<NL>>) \o a = live \o (<<NL>> \o a)
          BY <1>1, <2>1, <5>1, Zenon
        <5> QED
          BY <4>1, <5>2
      <4>3. tries > 0 \/ Space \in {live[1], live[Len(live)]}
        BY <1>2, <1>6, <3>3, AgainIsExcused
      <4> QED
        BY <1>2, <1>6, <3>3, <4>2, <4>3 DEF Outcome
    <3> QED
      BY <3>1, <3>2, <3>3
  <2>4. /\ Content(x) \in Seq(Items) /\ Bye("complete") \in Seq(Items)
        /\ Brings(Content(x), live, l, "none")
        /\ l \in Seq(Letters)
    BY <1>1, <2>1, ItemsTyped, BringsContent, ConcatProperties DEF Whys
  <2>5. Brings(Bye("complete"), l, l, "complete")
    BY <2>4, BringsBye DEF Whys
  <2>6. Brings(Content(x) \o Bye("complete"), live, l, "complete")
    BY <2>4, <2>5, BringsBoth
  <2>7. Content(x) \o Bye("complete") \in Seq(Items)
    BY <2>4, ConcatProperties
  <2>8. Put(Content(x) \o Bye("complete"))
    BY <1>6, <2>1
  <2> QED
    BY <1>2, <2>3, <2>6, <2>7, <2>8, OwedPut
<1>7. ASSUME connected, kind = "final", NEW a \in Forced(full), final' = a,
             Put(Content(a) \o Bye("complete"))
      PROVE  Owed' /\ Ended'
  <2> PICK l: l = live \o a
    OBVIOUS
  <2>1. a \in Seq(Letters) /\ l \in Seq(Letters)
    BY <1>1, ChoiceTyped, ConcatProperties
  <2>2. Outcome("complete", l)'
    BY <1>2, <1>7 DEF Outcome
  <2>3. /\ Content(a) \in Seq(Items) /\ Bye("complete") \in Seq(Items)
        /\ Brings(Content(a), live, l, "none")
    BY <1>1, <2>1, ItemsTyped, BringsContent DEF Whys
  <2>4. Brings(Bye("complete"), l, l, "complete")
    BY <2>1, BringsBye DEF Whys
  <2>5. Brings(Content(a) \o Bye("complete"), live, l, "complete")
    BY <1>1, <2>1, <2>3, <2>4, BringsBoth
  <2>6. Content(a) \o Bye("complete") \in Seq(Items)
    BY <2>3, ConcatProperties
  <2> QED
    BY <1>2, <1>7, <2>2, <2>5, <2>6, OwedPut
<1> QED
  BY <1>3, <1>4, <1>5, <1>6, <1>7 DEF Deliver

LEMMA OwedDecode ==
  ASSUME Chain, Decode
  PROVE  Owed' /\ Ended'
<1>1. /\ UNCHANGED clientVars /\ UNCHANGED connected /\ Open /\ Open'
      /\ TypeOK /\ live \in Seq(Letters) /\ text \in Seq(Letters)
  BY DEF Decode, Open, Chain, TypeOK
<1>2. PICK n \in 1 .. Len(text): Emit(SubSeq(text, 1, n))
  BY DEF Decode
<1>3. SubSeq(text, 1, n) \in Seq(Letters)
  <2>1. n \in 0 .. Len(text)
    BY <1>1, LenProperties
  <2> QED
    BY <1>1, <2>1, FrontIs
<1>4. PICK x: Sends(x)
  BY <1>1, <1>2, <1>3, EmitSends
<1>5. ~connected => queue' = queue
  BY <1>1, <1>2, <1>3, EmitSends
<1>6. Put(Content(x))
  BY <1>4, <1>5 DEF Put, Sends
<1>7. /\ x \in Seq(Letters) /\ live' = live \o x
      /\ Content(x) \in Seq(Items)
  BY <1>4, ItemsTyped DEF Sends
<1>8. Brings(Content(x), live, live \o x, "none")
  BY <1>1, <1>7, BringsContent
<1> QED
  BY <1>1, <1>6, <1>7, <1>8, OwedPut

\* What was put so far is a part of what was said.
LEMMA LiveIsSaid ==
  ASSUME Chain, connected
  PROVE  IsPrefix(live, said)
<1>1. said \in Seq(Letters)
  BY DEF Chain, TypeOK
<1>2. CASE kind # "tools"
  <2>1. live = said
    BY <1>2 DEF Chain, Plain
  <2> QED
    BY <1>1, <2>1, ConcatPrefix
<1>3. CASE kind = "tools"
  BY <1>3 DEF Chain, Told
<1> QED
  BY <1>1, <1>2, <1>3

LEMMA OwedStep ==
  ASSUME Chain, [Next]_vars
  PROVE  Owed' /\ Ended'
<1>1. /\ queue \in Seq(Items) /\ live \in Seq(Letters)
      /\ (reader = "reading" => connected)
  BY DEF Chain, TypeOK, Items, Owed
<1>2. CASE UNCHANGED vars
  BY <1>1, <1>2, OwedKept DEF vars, textVars, clientVars, Open
<1>3. CASE Start
  <2> DEFINE items == <<Item("delta", <<>>)>>
  <2>1. items \in Seq(Items) /\ <<>> \in Seq(Letters)
    BY ItemsTyped
  <2>2. live \o <<>> = live
    BY <1>1, ConcatEmptySeq
  <2>3. Brings(items, live, live, "none")
    <3>1. "delta" \notin Whys
      BY DEF Whys
    <3>2. Brings(items, live, live \o <<>>, "none")
      BY <1>1, <2>1, <3>1, BringsOne
    <3> QED
      BY <2>2, <3>2
  <2>4. /\ Put(items) /\ UNCHANGED clientVars /\ UNCHANGED connected
        /\ live' = live /\ Open /\ Open'
    BY <1>3 DEF Start, Open
  <2> HIDE DEF items
  <2> QED
    BY <2>1, <2>3, <2>4, OwedPut
<1>4. CASE Decode
  BY <1>4, OwedDecode
<1>5. CASE EndOfStream
  BY <1>1, <1>5, OwedKept DEF EndOfStream, clientVars, Open
<1>6. CASE Judge
  <2>1. CASE Stopped
    <3>1. /\ Put(Bye("stopped")) /\ UNCHANGED clientVars
          /\ UNCHANGED <<connected, live, said>> /\ Open /\ ~Open'
      BY <1>6, <2>1 DEF Judge, Open, textVars
    <3>2. Bye("stopped") \in Seq(Items)
          /\ Brings(Bye("stopped"), live, live, "stopped")
      BY <1>1, ItemsTyped, BringsBye DEF Whys
    <3>3. connected => Outcome("stopped", live)'
      BY <3>1, LiveIsSaid DEF Outcome
    <3> QED
      BY <3>1, <3>2, <3>3, OwedPut
  <2>2. CASE ~Stopped
    BY <1>1, <1>6, <2>2, OwedKept DEF Judge, Open, textVars, clientVars
  <2> QED
    BY <2>1, <2>2
<1>7. CASE Retry
  BY <1>1, <1>7, OwedKept DEF Retry, Open, textVars, clientVars
<1>8. CASE Retried
  BY <1>1, <1>8, OwedKept DEF Retried, Open, clientVars
<1>9. CASE Deliver
  BY <1>9, OwedDeliver
<1>10. CASE Close
  BY <1>10, OwedClose
<1>11. CASE Raise
  <2>1. /\ Put(Bye("error")) /\ UNCHANGED clientVars
        /\ UNCHANGED <<connected, live>> /\ Open /\ ~Open'
    BY <1>11 DEF Raise, Open, textVars
  <2>2. Bye("error") \in Seq(Items)
        /\ Brings(Bye("error"), live, live, "error")
    BY <1>1, ItemsTyped, BringsBye DEF Whys
  <2>3. Outcome("error", live)'
    BY DEF Outcome
  <2> QED
    BY <2>1, <2>2, <2>3, OwedPut
<1>12. CASE Read
  BY <1>12, OwedRead
<1>13. CASE Leave \/ Ask
  BY <1>13, OwedKept DEF Leave, Ask, Open, textVars
<1>14. CASE StopRequest
  BY <1>1, <1>14, OwedKept DEF StopRequest, Open, textVars, clientVars
<1> QED
  BY <1>2, <1>3, <1>4, <1>5, <1>6, <1>7, <1>8, <1>9, <1>10, <1>11, <1>12,
     <1>13, <1>14 DEF Next, Produce, Consume

LEMMA ChainInit == Init => Chain
<1> SUFFICES ASSUME Init PROVE Chain
  OBVIOUS
<1>1. TypeOK /\ Told
  BY InitTyped, ToldInit
<1>2. Plain /\ Ended /\ Open
  BY DEF Init, Plain, Ended, Open
<1>3. Brings(queue, got, live, "none")
  <2>1. <<>> \in Seq(Letters) /\ queue = <<>> /\ got = <<>> /\ live = <<>>
    BY EmptySeq DEF Init
  <2>2. Brings(<<>>, <<>>, <<>>, "none")
    BY <2>1, BringsBye
  <2> QED
    BY <2>1, <2>2
<1>4. Owed
  BY <1>2, <1>3 DEF Owed, Init
<1> QED
  BY <1>1, <1>2, <1>4 DEF Chain

\* A client that is told how the stream has ended has what it was told: the
\* answer once; or again after what went out, which on a turn with tools takes a
\* retry or white space at an end of what went out, and on a forced final turn
\* is always so; what went out before the calls; or a part of what was said.
THEOREM Whole == Spec => []WholeAnswer
<1>1. Init => Chain
  BY ChainInit
<1>2. Chain /\ [Next]_vars => Chain'
  BY TypeStep, ToldStep, PlainStep, OwedStep DEF Chain
<1>3. Chain => WholeAnswer
  BY DEF Chain, Ended, Outcome, WholeAnswer
<1> QED
  BY <1>1, <1>2, <1>3, PTL DEF Spec
=============================================================================
