------------------------- MODULE PromptCacheProofs -------------------------
(***************************************************************************)
(* What the ranks take on trust in PromptCache, for every set of sessions, *)
(* prompts and generations, every tokeniser and all values of the limits:  *)
(* as long as no suffix has changed in its text form and no derived        *)
(* session was kept off a cache (causes = {}), a slot whose counter agrees *)
(* with its cache is what its key says, and equal lengths mean equal       *)
(* prefixes.                                                               *)
(*                                                                         *)
(* GoodSlots is what every slot is at any time, live or parked; Ready is   *)
(* what a rank knows between its prepare and the end of the generation.    *)
(* Typed is what holds whatever has happened.                              *)
(***************************************************************************)
EXTENDS PromptCache, SequenceTheorems, WellFoundedInduction, TLAPS

-----------------------------------------------------------------------------
(* Sequences.                                                               *)

LEMMA LeastExists ==
  ASSUME NEW S, S \subseteq Nat, S # {}
  PROVE  \E i \in S: \A j \in S: i <= j
<1>1. PICK i \in S: \A j \in S: ~(<<j, i>> \in OpToRel(<, Nat))
  BY NatLessThanWellFounded, WFMin
<1>2. \A j \in S: i <= j
  <2>1. SUFFICES ASSUME NEW j \in S, j < i PROVE FALSE
    OBVIOUS
  <2>2. <<j, i>> \in OpToRel(<, Nat)
    BY <2>1 DEF OpToRel
  <2> QED
    BY <1>1, <2>2
<1> QED
  BY <1>2

\* Two sequences share what Common counts.
LEMMA CommonIs ==
  ASSUME NEW S, NEW a \in Seq(S), NEW b \in Seq(S)
  PROVE  /\ Common(a, b) \in 0 .. Smaller(Len(a), Len(b))
         /\ \A i \in 1 .. Common(a, b): a[i] = b[i]
<1> DEFINE m == Smaller(Len(a), Len(b))
           Shared(n) == /\ \A i \in 1 .. n: a[i] = b[i]
                        /\ n < m => a[n + 1] # b[n + 1]
           D == {i \in 1 .. m: a[i] # b[i]}
<1>1. m \in Nat
  BY DEF Smaller
<1>2. \E n \in 0 .. m: Shared(n)
  <2> HIDE DEF m
  <2>1. CASE D = {}
    <3>1. \A i \in 1 .. m: a[i] = b[i]
      BY <2>1
    <3>2. m \in 0 .. m /\ Shared(m)
      BY <1>1, <3>1
    <3> QED
      BY <3>2
  <2>2. CASE D # {}
    <3>1. PICK i \in D: \A j \in D: i <= j
      <4>1. D \subseteq Nat
        BY <1>1
      <4> HIDE DEF D
      <4> QED
        BY <2>2, <4>1, LeastExists
    <3>2. i - 1 \in 0 .. m /\ \A k \in 1 .. i - 1: k \in 1 .. m /\ k \notin D
      BY <1>1, <3>1
    <3>3. Shared(i - 1)
      BY <3>1, <3>2
    <3> QED
      BY <3>2, <3>3
  <2> QED
    BY <2>1, <2>2
<1>3. Common(a, b) \in 0 .. m /\ Shared(Common(a, b))
  BY <1>2 DEF Common
<1> QED
  BY <1>3

LEMMA TakeIs ==
  ASSUME NEW S, NEW s \in Seq(S), NEW n \in Int
  PROVE  /\ Take(s, n) \in Seq(S)
         /\ Len(Take(s, n)) = IF n <= 0 THEN 0 ELSE Smaller(n, Len(s))
         /\ \A i \in 1 .. Len(Take(s, n)): Take(s, n)[i] = s[i]
<1> DEFINE k == Smaller(n, Len(s))
<1>1. k \in Int /\ k <= Len(s) /\ k <= n /\ (k = n \/ k = Len(s))
  BY DEF Smaller
<1>2. \A i \in 1 .. k: s[i] \in S
  BY <1>1
<1> HIDE DEF k
<1>3. /\ SubSeq(s, 1, k) \in Seq(S)
      /\ Len(SubSeq(s, 1, k)) = IF 1 <= k THEN k - 1 + 1 ELSE 0
      /\ \A i \in 1 .. k - 1 + 1: SubSeq(s, 1, k)[i] = s[1 + i - 1]
  BY <1>1, <1>2, SubSeqProperties
<1>4. Len(s) \in Nat
  OBVIOUS
<1>5. Take(s, n) = SubSeq(s, 1, k)
  BY DEF Take, k
<1>6. Len(Take(s, n)) = IF n <= 0 THEN 0 ELSE k
  BY <1>1, <1>3, <1>4, <1>5
<1>7. \A i \in 1 .. Len(Take(s, n)): Take(s, n)[i] = s[i]
  BY <1>1, <1>3, <1>4, <1>5
<1> QED
  BY <1>3, <1>5, <1>6, <1>7 DEF k

LEMMA RemovedAt ==
  ASSUME NEW S, NEW s \in Seq(S), NEW i \in 1 .. Len(s)
  PROVE  RemoveAt(s, i) \in Seq(S) /\ Len(RemoveAt(s, i)) = Len(s) - 1
<1>1. /\ \A j \in 1 .. i - 1: s[j] \in S
      /\ \A j \in i + 1 .. Len(s): s[j] \in S
  OBVIOUS
<1>2. /\ SubSeq(s, 1, i - 1) \in Seq(S)
      /\ Len(SubSeq(s, 1, i - 1)) = i - 1
  BY <1>1, SubSeqProperties
<1>3. /\ SubSeq(s, i + 1, Len(s)) \in Seq(S)
      /\ Len(SubSeq(s, i + 1, Len(s))) = Len(s) - i
  BY <1>1, SubSeqProperties
<1> DEFINE u == SubSeq(s, 1, i - 1)
           v == SubSeq(s, i + 1, Len(s))
<1>4. u \o v \in Seq(S) /\ Len(u \o v) = Len(u) + Len(v)
  BY <1>2, <1>3, ConcatProperties
<1>5. RemoveAt(s, i) = u \o v
  BY DEF RemoveAt
<1>6. Len(u) = i - 1 /\ Len(v) = Len(s) - i /\ Len(s) \in Nat
  BY <1>2, <1>3
<1> HIDE DEF u, v
<1>7. Len(u) + Len(v) = Len(s) - 1
  BY <1>6
<1> QED
  BY <1>4, <1>5, <1>7

\* One sequence begins another; what is put before both makes no difference.
Opens(s, t) == Len(s) <= Len(t) /\ \A i \in 1 .. Len(s): s[i] = t[i]

LEMMA LongerOpens ==
  ASSUME NEW S, NEW ids \in Seq(S), NEW gen \in Seq(S), NEW t \in Seq(S),
         Opens(t, gen)
  PROVE  /\ ids \o t \in Seq(S) /\ Len(ids \o t) >= Len(ids)
         /\ Opens(ids \o t, ids \o gen)
<1> DEFINE k == ids \o t
           a == ids \o gen
<1>1. /\ k \in Seq(S) /\ Len(k) = Len(ids) + Len(t)
      /\ \A i \in 1 .. Len(k): k[i] =
           IF i <= Len(ids) THEN ids[i] ELSE t[i - Len(ids)]
  BY ConcatProperties
<1>2. /\ Len(a) = Len(ids) + Len(gen)
      /\ \A i \in 1 .. Len(a): a[i] =
           IF i <= Len(ids) THEN ids[i] ELSE gen[i - Len(ids)]
  BY ConcatProperties
<1>3. /\ Len(ids) \in Nat /\ Len(t) \in Nat /\ Len(gen) \in Nat
      /\ Len(t) <= Len(gen) /\ \A i \in 1 .. Len(t): t[i] = gen[i]
  BY DEF Opens
<1> HIDE DEF k, a
<1>4. ASSUME NEW i \in 1 .. Len(k)
      PROVE  k[i] = a[i]
  <2>1. i \in 1 .. Len(a) /\ i \in Int
    BY <1>1, <1>2, <1>3
  <2>2. ~(i <= Len(ids)) => i - Len(ids) \in 1 .. Len(t)
    BY <1>1, <1>3
  <2> QED
    BY <1>1, <1>2, <1>3, <2>1, <2>2
<1>5. Len(k) >= Len(ids) /\ Len(k) <= Len(a)
  BY <1>1, <1>2, <1>3
<1> QED
  BY <1>1, <1>4, <1>5 DEF k, a, Opens

-----------------------------------------------------------------------------
(* Slots.                                                                   *)

Names == Sessions \cup {NoSession}

\* A slot's counter is no longer than its cache, a slot without a key counts
\* nothing and a cache of the counted length is what its key says.  Rank 1,
\* which never has its generation stopped behind its back, counts exactly.
GoodSlots(r) ==
  {s \in SlotType:
     s.kv # NoKv =>
       /\ s.len <= Len(s.kv)
       /\ s.ids = <<>> => s.len = 0
       /\ Honest(s)
       /\ r = 1 => s.len = Len(s.kv)}

Parked(S) == {s \in Seq(S): Len(s) < ResidentSlots}

\* A memory is a live slot and parked ones.
Memories(S) == [live: S, parked: Parked(S)]

LEMMA Sizes ==
  /\ ResidentSlots \in Nat \ {0} /\ MinReuse \in Nat /\ MinSuffix \in Nat
  /\ Bucket \in Nat /\ KeyLimit \in Nat /\ MaxRequests \in Nat
  /\ NoSession \notin Sessions /\ NoKv \notin Seq(Tokens)
  /\ Generations \subseteq Seq(Tokens)
  /\ \A p \in Prompts: p.sess \in Names /\ p.ids \in Seq(Tokens) \ {<<>>}
  /\ <<>> \in Seq(Tokens) /\ Len(<<>>) = 0 /\ <<>> # NoKv
<1>1. <<>> \in Seq(Tokens) /\ Len(<<>>) = 0
  BY EmptySeq
<1>2. NoKv \notin Seq(Tokens)
  BY SizesAssumption DEF SizesAssumption
<1>3. <<>> # NoKv
  BY <1>1, <1>2
<1> QED
  BY <1>1, <1>3, SizesAssumption DEF SizesAssumption, Names

LEMMA SlotTypes ==
  ASSUME NEW kv \in Seq(Tokens) \cup {NoKv}, NEW ids \in Seq(Tokens),
         NEW len \in Nat, NEW input \in Nat, NEW sess \in Names
  PROVE  Slot(kv, ids, len, input, sess) \in SlotType
  BY DEF Slot, SlotType, Names

LEMMA EmptyGood ==
  ASSUME NEW r
  PROVE  /\ Empty \in GoodSlots(r) /\ Empty.kv = NoKv /\ Empty.len = 0
         /\ \A sess \in Names: Fresh(sess) \in GoodSlots(r)
<1>1. <<>> \in Seq(Tokens) /\ Len(<<>>) = 0
  OBVIOUS
<1>2. Empty \in SlotType /\ \A sess \in Names: Fresh(sess) \in SlotType
  BY <1>1, SlotTypes DEF Empty, Fresh, Names
<1>3. Empty.kv = NoKv /\ Empty.len = 0
  BY DEF Empty, Slot
<1>4. \A sess \in Names:
        /\ Fresh(sess).kv = <<>> /\ Fresh(sess).ids = <<>>
        /\ Fresh(sess).len = 0
  BY DEF Fresh, Slot
<1>5. \A sess \in Names: Fresh(sess) \in GoodSlots(r)
  BY <1>1, <1>2, <1>4 DEF GoodSlots, Honest
<1> QED
  BY <1>2, <1>3, <1>5 DEF GoodSlots

LEMMA WithoutType ==
  ASSUME NEW S, NEW parked \in Seq(S), NEW sess
  PROVE  /\ Without(parked, sess) \in Seq(S)
         /\ Len(Without(parked, sess)) <= Len(parked)
<1>1. CASE IsParked(parked, sess)
  <2>1. Place(parked, sess) \in 1 .. Len(parked)
    BY <1>1 DEF IsParked, Place
  <2> QED
    BY <1>1, <2>1, RemovedAt DEF Without
<1>2. CASE ~IsParked(parked, sess)
  BY <1>2 DEF Without
<1> QED
  BY <1>1, <1>2

\* The eviction comes to an end, and nothing that it leaves is new.
LEMMA EvictedType ==
  ASSUME NEW S, NEW h, NEW parked \in Seq(S), ResidentSlots > 1
  PROVE  /\ Evicted(h, parked) \in Seq(S)
         /\ Len(Evicted(h, parked)) < ResidentSlots
<1> DEFINE Left(n) == SubSeq(parked, n + 1, Len(parked))
           Enough == {n \in 0 .. Len(parked): Fits(h, Left(n))}
           Most(n) == /\ Fits(h, Left(n))
                      /\ \A k \in 0 .. Len(parked): Fits(h, Left(k)) => n <= k
<1>1. ResidentSlots \in Nat
  BY Sizes
<1>2. \A n \in 0 .. Len(parked): Left(n) \in Seq(S)
  <2>1. ASSUME NEW n \in 0 .. Len(parked)
        PROVE  Left(n) \in Seq(S)
    <3>1. \A i \in n + 1 .. Len(parked): parked[i] \in S
      OBVIOUS
    <3> QED
      BY <3>1, SubSeqProperties
  <2> QED
    BY <2>1
<1>3. Len(parked) \in Enough
  <2>1. Left(Len(parked)) = <<>>
    BY SubSeqEmpty
  <2> HIDE DEF Left
  <2>2. Fits(h, Left(Len(parked)))
    BY <1>1, <2>1 DEF Fits
  <2> QED
    BY <2>2
<1>4. \E n \in 0 .. Len(parked): Most(n)
  <2> HIDE DEF Left
  <2>1. PICK n \in Enough: \A k \in Enough: n <= k
    <3>1. Enough \subseteq Nat /\ Enough # {}
      BY <1>3
    <3> HIDE DEF Enough
    <3> QED
      BY <3>1, LeastExists
  <2> QED
    BY <2>1
<1>5. PICK n \in 0 .. Len(parked): Most(n) /\ Evicted(h, parked) = Left(n)
  BY <1>4 DEF Evicted
<1> QED
  BY <1>2, <1>5 DEF Fits

LEMMA StashType ==
  ASSUME NEW S, NEW m \in Memories(S)
  PROVE  Stash(m) \in Memories(S) /\ Stash(m).live = m.live
<1>1. CASE ResidentSlots <= 1 \/ m.live.kv = NoKv \/ m.live.ids = <<>>
  BY <1>1 DEF Stash
<1>2. CASE ~(ResidentSlots <= 1 \/ m.live.kv = NoKv \/ m.live.ids = <<>>)
  <2> DEFINE all == Append(Without(m.parked, m.live.sess), m.live)
  <2>1. ResidentSlots > 1
    BY <1>2, Sizes
  <2>2. m.parked \in Seq(S) /\ m.live \in S
    BY DEF Memories, Parked
  <2>3. all \in Seq(S)
    BY <2>2, WithoutType
  <2> HIDE DEF all
  <2>4. Evicted(m.live, all) \in Parked(S)
    BY <2>1, <2>3, EvictedType DEF Parked
  <2>5. Stash(m) = [m EXCEPT !.parked = Evicted(m.live, all)]
    BY <1>2 DEF Stash, all
  <2> QED
    BY <2>4, <2>5 DEF Memories
<1> QED
  BY <1>1, <1>2

LEMMA SwitchType ==
  ASSUME NEW S, Empty \in S, NEW m \in Memories(S), NEW sess \in Names
  PROVE  SwitchSession(m, sess) \in Memories(S)
<1>1. RestoreResident(m, sess) \in Memories(S)
  <2>1. CASE ~(ResidentSlots > 1 /\ IsParked(m.parked, sess))
    BY <2>1 DEF RestoreResident
  <2>2. CASE ResidentSlots > 1 /\ IsParked(m.parked, sess)
    <3> DEFINE slot == m.parked[Place(m.parked, sess)]
               left == [m EXCEPT !.parked = Without(@, sess)]
    <3>1. m.parked \in Seq(S) /\ Len(m.parked) < ResidentSlots
      BY DEF Memories, Parked
    <3>2. slot \in S
      BY <2>2, <3>1 DEF IsParked, Place
    <3>3. Without(m.parked, sess) \in Parked(S)
      <4>1. /\ Without(m.parked, sess) \in Seq(S)
            /\ Len(Without(m.parked, sess)) <= Len(m.parked)
        BY <3>1, WithoutType
      <4>2. Len(Without(m.parked, sess)) \in Nat /\ Len(m.parked) \in Nat
        BY <3>1, <4>1
      <4> QED
        BY <3>1, <4>1, <4>2, Sizes DEF Parked
    <3>4. left \in Memories(S)
      BY <3>3 DEF Memories
    <3>5. RestoreResident(m, sess) = [Stash(left) EXCEPT !.live = slot]
      BY <2>2 DEF RestoreResident
    <3> HIDE DEF left, slot
    <3>6. Stash(left) \in Memories(S)
      BY <3>4, StashType
    <3> QED
      BY <3>2, <3>5, <3>6 DEF Memories
  <2> QED
    BY <2>1, <2>2
<1>2. [m EXCEPT !.live = Empty] \in Memories(S)
  BY DEF Memories
<1> QED
  BY <1>1, <1>2 DEF SwitchSession

-----------------------------------------------------------------------------
(* What a rank makes of its memory for a prompt.                            *)

\* A request as the prepare sees it.
Asks(p) == p.sess \in Names /\ p.ids \in Seq(Tokens) \ {<<>>}

\* The live slot is what the prompt p will be prefilled into.
Begins(h, p) ==
  /\ h.kv # NoKv /\ h.len < Len(p.ids)
  /\ Len(h.kv) = h.len => h.kv = SubSeq(p.ids, 1, h.len)

\* A memory after the prepare: the prompt uses the live slot, or keeps off it.
Outcomes(r, p) ==
  {n \in [live: GoodSlots(r), parked: Parked(GoodSlots(r)), uses: BOOLEAN,
          keeps: BOOLEAN]:
     /\ n.uses => n.keeps = FALSE /\ Begins(n.live, p)
     /\ n.uses = FALSE => n.keeps = TRUE}

LEMMA UsingOutcome ==
  ASSUME NEW r, NEW p, NEW m \in Memories(GoodSlots(r)), Begins(m.live, p)
  PROVE  Using(m) \in Outcomes(r, p)
  BY DEF Using, Outcomes, Memories

LEMMA BypassOutcome ==
  ASSUME NEW r, NEW p, NEW m \in Memories(GoodSlots(r))
  PROVE  Bypass(m, TRUE) \in Outcomes(r, p)
  BY DEF Bypass, Outcomes, Memories

LEMMA NothingBegins ==
  ASSUME NEW p, Asks(p), NEW h, h.kv = <<>>, h.len = 0
  PROVE  Begins(h, p)
<1>1. <<>> \in Seq(Tokens) /\ Len(<<>>) = 0 /\ <<>> # NoKv
  BY Sizes
<1>2. Len(p.ids) \in Nat \ {0}
  BY DEF Asks
<1>3. SubSeq(p.ids, 1, 0) = <<>>
  BY SubSeqEmpty
<1> QED
  BY <1>1, <1>2, <1>3 DEF Begins

LEMMA RebuildOutcome ==
  ASSUME NEW r, NEW p, Asks(p), NEW m \in Memories(GoodSlots(r))
  PROVE  Rebuild(m, p.sess) \in Outcomes(r, p)
<1> DEFINE new == [m EXCEPT !.live = Fresh(p.sess)]
<1>1. Fresh(p.sess) \in GoodSlots(r)
  BY EmptyGood DEF Asks
<1>2. new \in Memories(GoodSlots(r)) /\ new.live = Fresh(p.sess)
  BY <1>1 DEF Memories
<1>3. Fresh(p.sess).kv = <<>> /\ Fresh(p.sess).len = 0
  BY DEF Fresh, Slot
<1>4. Rebuild(m, p.sess) = Using(new)
  BY DEF Rebuild
<1> HIDE DEF new
<1>5. Begins(new.live, p)
  BY <1>2, <1>3, NothingBegins
<1> QED
  BY <1>2, <1>4, <1>5, UsingOutcome

\* What is kept under an empty key counts nothing.
LEMMA ColdOutcome ==
  ASSUME NEW r, NEW p, Asks(p), NEW m \in Memories(GoodSlots(r)),
         m.live.kv = NoKv \/ m.live.ids = <<>>
  PROVE  Cold(m, p.sess) \in Outcomes(r, p)
<1> DEFINE kv == IF m.live.kv = NoKv THEN <<>> ELSE m.live.kv
           h == [Fresh(p.sess) EXCEPT !.kv = kv]
           new == [m EXCEPT !.live = h]
<1>1. m.live \in GoodSlots(r) /\ m.live \in SlotType
  BY DEF Memories, GoodSlots
<1>2. <<>> \in Seq(Tokens) /\ Len(<<>>) = 0 /\ <<>> # NoKv /\ p.sess \in Names
  BY Sizes DEF Asks
<1>3. kv \in Seq(Tokens) /\ kv # NoKv
  BY <1>1, <1>2 DEF SlotType
<1>4. r = 1 => Len(kv) = 0
  BY <1>1, <1>2 DEF GoodSlots
<1>5. h = Slot(kv, <<>>, 0, 0, p.sess)
  BY DEF Fresh, Slot
<1> HIDE DEF kv
<1>6. h.kv = kv /\ h.ids = <<>> /\ h.len = 0 /\ h \in SlotType
  <2>1. Slot(kv, <<>>, 0, 0, p.sess) \in SlotType
    BY <1>2, <1>3, SlotTypes
  <2> QED
    BY <1>5, <2>1 DEF Slot
<1>7. Cold(m, p.sess) = Using(new)
  BY DEF Cold, kv
<1> HIDE DEF h
<1>8. h \in GoodSlots(r)
  BY <1>2, <1>3, <1>4, <1>6 DEF GoodSlots, Honest
<1>9. Begins(h, p)
  <2>1. Len(p.ids) \in Nat \ {0}
    BY DEF Asks
  <2>2. SubSeq(p.ids, 1, 0) = <<>>
    BY SubSeqEmpty
  <2>3. Len(kv) = 0 => kv = <<>>
    BY <1>3
  <2> QED
    BY <1>3, <1>6, <2>1, <2>2, <2>3 DEF Begins
<1>10. new \in Memories(GoodSlots(r)) /\ new.live = h
  BY <1>8 DEF Memories
<1> QED
  BY <1>7, <1>9, <1>10, UsingOutcome

LEMMA BacktrackedIs ==
  ASSUME NEW n \in Nat \ {0}, NEW reuse \in 0 .. n
  PROVE  /\ Backtracked(n, reuse) \in 0 .. reuse
         /\ Backtracked(n, reuse) < n
<1> DEFINE exact == IF reuse = n THEN reuse - 1 ELSE reuse
           down == IF Bucket = 0 THEN exact ELSE (exact \div Bucket) * Bucket
           bucketed == IF exact > MinReuse /\ down >= MinReuse
                       THEN down ELSE exact
           more == IF n - bucketed < MinSuffix
                   THEN MinSuffix - (n - bucketed) ELSE 0
<1>1. exact \in Nat /\ exact <= reuse /\ exact < n
  OBVIOUS
<1>2. Bucket \in Nat /\ MinReuse \in Nat /\ MinSuffix \in Nat
  BY Sizes
<1> HIDE DEF exact
<1>3. down \in Nat /\ down <= exact
  <2>1. ASSUME Bucket # 0
        PROVE  /\ exact \div Bucket \in Nat
               /\ (exact \div Bucket) * Bucket \in Nat
               /\ (exact \div Bucket) * Bucket <= exact
    BY <1>1, <1>2, <2>1
  <2> QED
    BY <1>1, <2>1
<1> HIDE DEF down
<1>4. bucketed \in Nat /\ bucketed <= exact
  BY <1>1, <1>3
<1> HIDE DEF bucketed
<1>5. more \in Nat
  BY <1>2, <1>4
<1> HIDE DEF more
<1>6. Smaller(bucketed, more) \in Nat /\ Smaller(bucketed, more) <= bucketed
  BY <1>4, <1>5 DEF Smaller
<1>7. Backtracked(n, reuse) = IF bucketed > MinReuse
        THEN bucketed - Smaller(bucketed, more) ELSE bucketed
  BY DEF Backtracked, exact, down, bucketed, more
<1> QED
  BY <1>1, <1>4, <1>6, <1>7

LEMMA TrimmedIs ==
  ASSUME NEW r, NEW h \in GoodSlots(r), h.kv # NoKv, NEW n \in 0 .. h.len
  PROVE  /\ Trimmed(h, n) \in GoodSlots(r)
         /\ Trimmed(h, n).kv # NoKv /\ Trimmed(h, n).len = n
         /\ Trimmed(h, n).kv \in Seq(Tokens)
         /\ Len(Trimmed(h, n).kv) = Len(h.kv) - (h.len - n)
         /\ \A i \in 1 .. Len(Trimmed(h, n).kv): Trimmed(h, n).kv[i] = h.kv[i]
<1> DEFINE k == Len(h.kv) - Smaller(h.len - n, Len(h.kv))
           kv == SubSeq(h.kv, 1, k)
           t == [h EXCEPT !.kv = kv, !.len = n]
<1>1. /\ h \in SlotType /\ h.kv \in Seq(Tokens) /\ h.len \in Nat
      /\ h.ids \in Seq(Tokens)
  BY DEF GoodSlots, SlotType
<1>2. /\ h.len <= Len(h.kv) /\ (h.ids = <<>> => h.len = 0) /\ Honest(h)
      /\ r = 1 => h.len = Len(h.kv)
  BY DEF GoodSlots
<1>3. Len(h.kv) \in Nat
  BY <1>1
<1>4. k = Len(h.kv) - (h.len - n) /\ k \in 0 .. Len(h.kv)
  BY <1>1, <1>2, <1>3 DEF Smaller
<1>5. Trimmed(h, n) = t
  BY DEF Trimmed
<1> HIDE DEF k
<1>6. kv \in Seq(Tokens) /\ Len(kv) = k /\ \A i \in 1 .. k: kv[i] = h.kv[i]
  <2>1. \A i \in 1 .. k: h.kv[i] \in Tokens
    BY <1>1, <1>3, <1>4
  <2>2. /\ SubSeq(h.kv, 1, k) \in Seq(Tokens)
        /\ Len(SubSeq(h.kv, 1, k)) = IF 1 <= k THEN k - 1 + 1 ELSE 0
        /\ \A i \in 1 .. k - 1 + 1: SubSeq(h.kv, 1, k)[i] = h.kv[1 + i - 1]
    BY <1>4, <2>1, SubSeqProperties
  <2>3. k \in Nat
    BY <1>3, <1>4
  <2>4. \A i \in 1 .. k: SubSeq(h.kv, 1, k)[i] = h.kv[i]
    BY <2>2, <2>3
  <2> QED
    BY <2>2, <2>3, <2>4
<1> HIDE DEF kv
<1>7. /\ t \in SlotType /\ t.kv = kv /\ t.len = n /\ t.ids = h.ids
      /\ kv # NoKv
  <2>1. n \in Nat /\ h \in SlotType
    BY <1>1
  <2>2. kv \in Seq(Tokens) /\ kv # NoKv
    BY <1>6, Sizes
  <2> QED
    BY <2>1, <2>2 DEF SlotType
<1> HIDE DEF t
<1>8. n <= k /\ (r = 1 => n = k) /\ (n = k => h.len = Len(h.kv))
  BY <1>1, <1>2, <1>3, <1>4
<1>9. Honest(t)
  <2>1. SUFFICES ASSUME n = k, NEW i \in DOMAIN kv \cap DOMAIN h.ids
                 PROVE  kv[i] = h.ids[i]
    BY <1>6, <1>7 DEF Honest
  <2>2. i \in 1 .. k /\ i \in DOMAIN h.kv /\ i \in DOMAIN h.ids
    BY <1>1, <1>3, <1>4, <1>6
  <2>3. h.kv[i] = h.ids[i]
    BY <1>2, <1>8, <2>1, <2>2 DEF Honest
  <2> QED
    BY <1>6, <2>2, <2>3
<1>10. t \in GoodSlots(r)
  <2>1. t.ids = <<>> => t.len = 0
    BY <1>1, <1>2, <1>7
  <2> QED
    BY <1>6, <1>7, <1>8, <1>9, <2>1 DEF GoodSlots
<1> QED
  BY <1>4, <1>5, <1>6, <1>7, <1>10

LEMMA ReuseOutcome ==
  ASSUME NEW r, NEW p, Asks(p), NEW m \in Memories(GoodSlots(r)),
         m.live.kv # NoKv, NEW trims
  PROVE  Reuse(m, p, Common(m.live.ids, p.ids), trims) \in Outcomes(r, p)
<1> DEFINE h == m.live
           reuse == Common(h.ids, p.ids)
           n == Len(p.ids)
           final == Backtracked(n, reuse)
           first == [m EXCEPT !.live = Trimmed(@, reuse)]
           new == [m EXCEPT !.live = Trimmed(@, final)]
<1>1. /\ h \in GoodSlots(r) /\ h.kv \in Seq(Tokens) /\ h.len \in Nat
      /\ h.ids \in Seq(Tokens) /\ h.kv # NoKv
  BY DEF Memories, GoodSlots, SlotType
<1>2. n \in Nat \ {0} /\ p.ids \in Seq(Tokens)
  BY DEF Asks
<1>3. /\ reuse \in 0 .. Smaller(Len(h.ids), n)
      /\ \A i \in 1 .. reuse: h.ids[i] = p.ids[i]
  <2> DEFINE ids == h.ids
             q == p.ids
  <2>1. ids \in Seq(Tokens) /\ q \in Seq(Tokens)
    BY <1>1, <1>2
  <2> HIDE DEF ids, q
  <2>2. /\ Common(ids, q) \in 0 .. Smaller(Len(ids), Len(q))
        /\ \A i \in 1 .. Common(ids, q): ids[i] = q[i]
    BY ONLY <2>1, CommonIs
  <2> QED
    BY <2>2 DEF ids, q
<1>4. reuse \in Nat /\ reuse <= n /\ reuse <= Len(h.ids)
  <2>1. Len(h.ids) \in Nat
    BY <1>1
  <2> HIDE DEF reuse, n
  <2> QED
    BY <1>2, <1>3, <2>1 DEF Smaller
<1>5. final \in 0 .. reuse /\ final < n
  <2> HIDE DEF reuse, n
  <2> QED
    BY <1>2, <1>4, BacktrackedIs DEF final
<1>6. Stash(m) \in Memories(GoodSlots(r))
  BY StashType
<1>7. ASSUME ~(h.len < reuse)
      PROVE  /\ first \in Memories(GoodSlots(r))
             /\ Stash(first) \in Memories(GoodSlots(r))
  <2>1. reuse \in 0 .. h.len
    BY <1>1, <1>4, <1>7
  <2>2. Trimmed(h, reuse) \in GoodSlots(r)
    <3> HIDE DEF reuse
    <3> QED
      BY <1>1, <2>1, TrimmedIs
  <2>3. first \in Memories(GoodSlots(r))
    BY <2>2 DEF Memories
  <2> QED
    BY <2>3, StashType
<1>8. ASSUME ~(h.len < reuse) PROVE Using(new) \in Outcomes(r, p)
  <2> DEFINE t == Trimmed(h, final)
  <2> HIDE DEF final, reuse
  <2>1. final \in 0 .. h.len
    BY <1>1, <1>4, <1>5, <1>8
  <2>2. /\ t \in GoodSlots(r) /\ t.kv # NoKv /\ t.len = final
        /\ t.kv \in Seq(Tokens) /\ Len(t.kv) = Len(h.kv) - (h.len - final)
        /\ \A i \in 1 .. Len(t.kv): t.kv[i] = h.kv[i]
    BY <1>1, <2>1, TrimmedIs
  <2>3. new \in Memories(GoodSlots(r)) /\ new.live = t
    BY <2>2 DEF Memories
  <2> HIDE DEF t, new
  <2>4. ASSUME Len(t.kv) = final PROVE t.kv = SubSeq(p.ids, 1, final)
    <3>1. Len(h.kv) = h.len /\ Len(h.kv) \in Nat
      BY <1>1, <2>1, <2>2, <2>4
    <3>2. Honest(h)
      BY <1>1 DEF GoodSlots
    <3>3. \A i \in 1 .. final: t.kv[i] = p.ids[i]
      <4>1. ASSUME NEW i \in 1 .. final PROVE t.kv[i] = p.ids[i]
        <5>1. i \in 1 .. Len(h.kv) /\ i \in 1 .. Len(h.ids) /\ i \in 1 .. reuse
          BY <1>1, <1>4, <1>5, <2>1, <3>1
        <5>2. h.kv[i] = h.ids[i]
          BY <1>1, <3>1, <3>2, <5>1 DEF Honest
        <5> QED
          BY <1>3, <2>2, <2>4, <5>1, <5>2
      <4> QED
        BY <4>1
    <3>4. /\ SubSeq(p.ids, 1, final) \in Seq(Tokens)
          /\ Len(SubSeq(p.ids, 1, final)) = final
          /\ \A i \in 1 .. final: SubSeq(p.ids, 1, final)[i] = p.ids[i]
      <4>1. \A i \in 1 .. final: p.ids[i] \in Tokens
        BY <1>2, <1>5
      <4>2. /\ SubSeq(p.ids, 1, final) \in Seq(Tokens)
            /\ Len(SubSeq(p.ids, 1, final)) =
                 IF 1 <= final THEN final - 1 + 1 ELSE 0
            /\ \A i \in 1 .. final - 1 + 1:
                 SubSeq(p.ids, 1, final)[i] = p.ids[1 + i - 1]
        BY <2>1, <4>1, SubSeqProperties
      <4>3. final \in Nat
        BY <2>1
      <4>4. \A i \in 1 .. final: SubSeq(p.ids, 1, final)[i] = p.ids[i]
        BY <4>2, <4>3
      <4> QED
        BY <4>2, <4>3, <4>4
    <3> QED
      BY <2>2, <2>4, <3>3, <3>4, SeqEqual
  <2>5. Begins(t, p)
    BY <1>5, <2>2, <2>4 DEF Begins, n
  <2> QED
    BY <2>3, <2>5, UsingOutcome
<1>9. \/ Reuse(m, p, reuse, trims) = Rebuild(Stash(m), p.sess)
      \/ /\ ~(h.len < reuse)
         /\ \/ Reuse(m, p, reuse, trims) = Rebuild(Stash(first), p.sess)
            \/ Reuse(m, p, reuse, trims) = Using(new)
  BY DEF Reuse
<1>10. CASE Reuse(m, p, reuse, trims) = Rebuild(Stash(m), p.sess)
  BY <1>6, <1>10, RebuildOutcome
<1>11. CASE /\ ~(h.len < reuse)
            /\ Reuse(m, p, reuse, trims) = Rebuild(Stash(first), p.sess)
  BY <1>7, <1>11, RebuildOutcome
<1>12. CASE /\ ~(h.len < reuse)
            /\ Reuse(m, p, reuse, trims) = Using(new)
  BY <1>8, <1>12
<1> QED
  BY <1>9, <1>10, <1>11, <1>12

\* Whatever a rank remembers, and whether its trims fail or not.
LEMMA PreparedOutcome ==
  ASSUME NEW r, NEW p, Asks(p), NEW before \in Memories(GoodSlots(r)), NEW trims
  PROVE  LET new == Prepared(before, p, trims)
         IN  new.uses \/ new.keeps => new \in Outcomes(r, p)
<1> DEFINE m == SwitchSession(before, p.sess)
           reuse == Common(m.live.ids, p.ids)
<1>1. m \in Memories(GoodSlots(r))
  BY SwitchType, EmptyGood DEF Asks
<1>2. Bypass(m, FALSE).uses = FALSE /\ Bypass(m, FALSE).keeps = FALSE
  BY DEF Bypass
<1> HIDE DEF m
<1>3. Stash(m) \in Memories(GoodSlots(r))
  BY <1>1, StashType
<1>4. /\ Rebuild(m, p.sess) \in Outcomes(r, p)
      /\ Rebuild(Stash(m), p.sess) \in Outcomes(r, p)
      /\ Bypass(m, TRUE) \in Outcomes(r, p)
  BY <1>1, <1>3, RebuildOutcome, BypassOutcome
<1>5. CASE m.live.kv = NoKv \/ m.live.ids = <<>>
  <2>1. Prepared(before, p, trims) = Cold(m, p.sess)
    BY <1>5 DEF Prepared, m
  <2> QED
    BY <1>1, <1>5, <2>1, ColdOutcome
<1>6. CASE ~(m.live.kv = NoKv \/ m.live.ids = <<>>)
  <2>1. Reuse(m, p, reuse, trims) \in Outcomes(r, p)
    BY <1>1, <1>6, ReuseOutcome
  <2>2. Prepared(before, p, trims) \in
          {Rebuild(m, p.sess), Rebuild(Stash(m), p.sess), Bypass(m, TRUE),
           Reuse(m, p, reuse, trims), Bypass(m, FALSE)}
    BY <1>6 DEF Prepared, m, reuse
  <2> QED
    BY <1>2, <1>4, <2>1, <2>2
<1> QED
  BY <1>5, <1>6

-----------------------------------------------------------------------------
(* The inductive invariant.                                                 *)

Before == {"start", "prepared", "failed"}
Running == {"admit", "decode", "finished"}

Asked == [kind: {"chat", "prewarm"}, sess: Names, ids: Seq(Tokens) \ {<<>>},
          gen: Seq(Tokens), end: Ends \cup {"open"}, full: BOOLEAN]

Plans == [kv: Seq(Tokens) \cup {NoKv}, reuse: Nat]

Types ==
  /\ holder \in [Ranks -> SlotType]
  /\ resident \in [Ranks -> Seq(SlotType)]
  /\ inUse \in [Ranks -> BOOLEAN]
  /\ preserve \in [Ranks -> BOOLEAN]
  /\ at \in [Ranks -> {"idle"} \cup Before \cup Running]
  /\ plan \in [Ranks -> Plans]
  /\ req \in Asked \cup {NoRequest}
  /\ janitor \in {"off", "idle release"}
  /\ count \in 0 .. MaxRequests

\* What a rank remembers is good at any time.
Memory(r) ==
  [live |-> holder[r], parked |-> resident[r]] \in Memories(GoodSlots(r))

\* The ranks are on the same side of the vote.
Stages ==
  \/ Idle /\ BothAt({"idle"})
  \/ ~Idle /\ BothAt(Before)
  \/ ~Idle /\ BothAt(Running)

\* Between its prepare and the end of the generation a rank either keeps off
\* its live slot or has it in use, for the plan or not at all.
Ready(r) ==
  at[r] \in {"prepared", "admit", "decode"} =>
    /\ plan[r].kv = NoKv =>
         plan[r].reuse = 0 /\ (preserve[r] \/ holder[r].kv = NoKv)
    /\ plan[r].kv # NoKv =>
         /\ plan[r].reuse <= Len(plan[r].kv) /\ plan[r].reuse < Len(req.ids)
         /\ Len(plan[r].kv) = plan[r].reuse =>
              plan[r].kv = SubSeq(req.ids, 1, plan[r].reuse)
         /\ r = 1 => Len(plan[r].kv) = plan[r].reuse
         /\ ~preserve[r]
         /\ \/ holder[r] = Empty
            \/ holder[r].kv = plan[r].kv /\ holder[r].len = plan[r].reuse

\* After the vote both ranks have the same beginning of the prompt.
Sound(r) == plan[r].kv # NoKv => plan[r].kv = SubSeq(req.ids, 1, plan[r].reuse)
Voted ==
  BothAt(Running) =>
    /\ Physical(0) = Physical(1) /\ Suffix(0) = Suffix(1)
    /\ \A r \in Ranks: Sound(r)
    /\ req.kind = "prewarm" => Len(req.gen) = 1

IInv ==
  /\ Types /\ Stages /\ Voted
  /\ \A r \in Ranks: Memory(r) /\ Ready(r)

LEMMA RanksAre == 0 \in Ranks /\ 1 \in Ranks /\ \A r \in Ranks: r = 0 \/ r = 1
  BY DEF Ranks

LEMMA InitIInv == Init => IInv
<1>1. SUFFICES ASSUME Init PROVE IInv
  OBVIOUS
<1>2. NoPlan \in Plans /\ 0 \in 0 .. MaxRequests
  BY Sizes DEF NoPlan, Plans
<1>3. \A r: Empty \in GoodSlots(r) /\ Empty \in SlotType
  BY EmptyGood DEF GoodSlots
<1>4. \A r: <<>> \in Parked(GoodSlots(r)) /\ <<>> \in Seq(SlotType)
  BY Sizes DEF Parked
<1>5. Types
  BY <1>1, <1>2, <1>3, <1>4 DEF Init, Types
<1>6. Stages
  BY <1>1 DEF Init, Stages, Idle, NoRequest, BothAt
<1>7. ~BothAt(Running) /\ \A r \in Ranks: Ready(r)
  BY <1>1, RanksAre DEF Init, BothAt, Running, Ready
<1>8. \A r \in Ranks: Memory(r)
  BY <1>1, <1>3, <1>4 DEF Init, Memory, Memories
<1> QED
  BY <1>5, <1>6, <1>7, <1>8 DEF IInv, Voted

-----------------------------------------------------------------------------
(* Steps that drop caches, and those that end a request.                    *)

\* A rank's memory is left alone, or its live slot is dropped, with the parked
\* ones or without.
Emptied(r) ==
  \/ /\ holder'[r] = holder[r] /\ resident'[r] = resident[r]
     /\ preserve'[r] = preserve[r]
  \/ /\ holder'[r] = Empty /\ preserve'[r] = FALSE
     /\ resident'[r] = resident[r] \/ resident'[r] = <<>>

MemoryTypes ==
  /\ holder \in [Ranks -> SlotType] /\ resident \in [Ranks -> Seq(SlotType)]
  /\ inUse \in [Ranks -> BOOLEAN] /\ preserve \in [Ranks -> BOOLEAN]

LEMMA EmptiedMemory ==
  ASSUME NEW r, Memory(r), Emptied(r)
  PROVE  Memory(r)'
<1>1. Empty \in GoodSlots(r) /\ <<>> \in Parked(GoodSlots(r))
  BY EmptyGood, Sizes DEF Parked
<1> QED
  BY <1>1 DEF Memory, Memories, Emptied

LEMMA DropEmpties ==
  ASSUME Types, NEW r \in Ranks, NEW all \in BOOLEAN, Drop(r, all)
  PROVE  MemoryTypes' /\ \A q \in Ranks: Emptied(q)
<1>1. Empty \in SlotType /\ <<>> \in Seq(SlotType)
  BY EmptyGood DEF GoodSlots
<1> QED
  BY <1>1 DEF Types, Drop, Emptied, MemoryTypes

LEMMA DropBothEmpties ==
  ASSUME Types, NEW all \in BOOLEAN, DropBoth(all)
  PROVE  MemoryTypes' /\ \A q \in Ranks: Emptied(q)
<1>1. Empty \in SlotType /\ <<>> \in Seq(SlotType)
  BY EmptyGood DEF GoodSlots
<1> QED
  BY <1>1 DEF Types, DropBoth, Emptied, MemoryTypes

LEMMA NothingEmpties ==
  ASSUME Types, UNCHANGED <<holder, resident, preserve>>,
         inUse' \in [Ranks -> BOOLEAN]
  PROVE  MemoryTypes' /\ \A q \in Ranks: Emptied(q)
  BY DEF Types, Emptied, MemoryTypes

\* Caches may be dropped behind a request's back.
LEMMA AsideIInv ==
  ASSUME IInv, MemoryTypes', \A r \in Ranks: Emptied(r),
         UNCHANGED <<at, plan, req, count>>,
         janitor' \in {"off", "idle release"}
  PROVE  IInv'
<1>1. Types'
  BY DEF IInv, Types, MemoryTypes
<1>2. Stages' /\ Voted'
  BY DEF IInv, Stages, Voted, Idle, BothAt, Physical, Suffix, Sound
<1>3. ASSUME NEW r \in Ranks PROVE Memory(r)' /\ Ready(r)'
  <2>1. Memory(r)'
    BY EmptiedMemory DEF IInv
  <2>2. Ready(r)'
    BY EmptyGood DEF IInv, Ready, Emptied
  <2> QED
    BY <2>1, <2>2
<1> QED
  BY <1>1, <1>2, <1>3 DEF IInv

\* A request is closed.
LEMMA CloseIInv ==
  ASSUME IInv, Close, MemoryTypes', \A r \in Ranks: Memory(r)',
         UNCHANGED <<janitor, count>>
  PROVE  IInv'
<1>1. NoPlan \in Plans
  BY DEF NoPlan, Plans
<1>2. Types'
  BY <1>1 DEF IInv, Types, MemoryTypes, Close
<1>3. \A r \in Ranks: at'[r] = "idle"
  BY DEF Close
<1>4. Stages'
  BY <1>3 DEF Stages, Idle, BothAt, Close, NoRequest
<1>5. Voted' /\ \A r \in Ranks: Ready(r)'
  BY <1>3, RanksAre DEF Voted, BothAt, Running, Ready
<1> QED
  BY <1>2, <1>4, <1>5 DEF IInv

LEMMA OutsideIInv ==
  ASSUME IInv,
         \/ \E r \in Ranks: Expire(r)
         \/ Reset \/ JanitorBroadcast \/ JanitorRelease
  PROVE  IInv'
<1>1. Types /\ janitor \in {"off", "idle release"} /\ TRUE \in BOOLEAN
  BY DEF IInv, Types
<1>2. CASE \E r \in Ranks: Expire(r)
  BY <1>1, <1>2, DropEmpties, AsideIInv DEF Expire
<1>3. CASE Reset
  BY <1>1, <1>3, DropBothEmpties, AsideIInv DEF Reset
<1>4. CASE JanitorBroadcast
  <2>1. MemoryTypes' /\ \A q \in Ranks: Emptied(q)
    <3>1. CASE Drop(1, TRUE)
      BY <1>1, <3>1, RanksAre, DropEmpties
    <3>2. CASE UNCHANGED <<holder, resident, inUse, preserve>>
      BY <1>1, <3>2, NothingEmpties DEF Types
    <3> QED
      BY <1>4, <3>1, <3>2 DEF JanitorBroadcast
  <2> QED
    BY <1>1, <1>4, <2>1, AsideIInv DEF JanitorBroadcast
<1>5. CASE JanitorRelease
  BY <1>1, <1>5, RanksAre, DropEmpties, AsideIInv DEF JanitorRelease
<1> QED
  BY <1>2, <1>3, <1>4, <1>5

LEMMA EndIInv ==
  ASSUME IInv, Abort \/ Complete \/ CompletePrewarm
  PROVE  IInv'
<1>1. Types /\ \A r \in Ranks: Memory(r)
  BY DEF IInv
<1>2. MemoryTypes' /\ \A q \in Ranks: Emptied(q)
  <2>1. CASE Abort
    <3>1. inUse' \in [Ranks -> BOOLEAN]
      BY <2>1 DEF Abort
    <3> QED
      BY <1>1, <2>1, <3>1, NothingEmpties DEF Abort
  <2>2. CASE DropBoth(FALSE)
    BY <1>1, <2>2, DropBothEmpties
  <2>3. CASE UNCHANGED <<holder, resident, inUse, preserve>>
    BY <1>1, <2>3, NothingEmpties DEF Types
  <2> QED
    BY <2>1, <2>2, <2>3 DEF Complete, CompletePrewarm
<1>3. \A r \in Ranks: Memory(r)'
  BY <1>1, <1>2, EmptiedMemory
<1>4. Close /\ UNCHANGED <<janitor, count>>
  BY DEF Abort, Complete, CompletePrewarm
<1> QED
  BY <1>2, <1>3, <1>4, CloseIInv

-----------------------------------------------------------------------------
(* A request up to its generation.                                          *)

LEMMA ArriveIInv ==
  ASSUME IInv, NEW kind \in {"chat", "prewarm"}, NEW p \in Prompts,
         Arrive(kind, p)
  PROVE  IInv'
<1>1. p.sess \in Names /\ p.ids \in Seq(Tokens) \ {<<>>} /\ <<>> \in Seq(Tokens)
  BY Sizes
<1>2. req' \in Asked /\ req'.kind # "none"
  BY <1>1 DEF Arrive, Asked
<1>3. count' \in 0 .. MaxRequests
  <2>1. count \in 0 .. MaxRequests
    BY DEF IInv, Types
  <2>2. count < MaxRequests /\ count' = count + 1
    BY DEF Arrive
  <2> QED
    BY <2>1, <2>2, Sizes
<1>4. \A r \in Ranks: at'[r] = "start"
  BY DEF Arrive
<1>5. at' \in [Ranks -> {"idle"} \cup Before \cup Running]
  BY DEF Arrive, Before
<1>6. Types'
  BY <1>2, <1>3, <1>5 DEF IInv, Types, Arrive
<1>7. Stages'
  BY <1>2, <1>4 DEF Stages, Idle, BothAt, Before
<1>8. Voted' /\ \A r \in Ranks: Ready(r)'
  BY <1>4, RanksAre DEF Voted, BothAt, Running, Ready
<1>9. \A r \in Ranks: Memory(r)'
  BY DEF IInv, Arrive, Memory
<1> QED
  BY <1>6, <1>7, <1>8, <1>9 DEF IInv

\* One rank goes on: the other one is as ready as it was.
OnlyRank(r) ==
  \A q \in Ranks \ {r}:
    /\ holder'[q] = holder[q] /\ resident'[q] = resident[q]
    /\ preserve'[q] = preserve[q]
    /\ at'[q] = at[q] /\ plan'[q] = plan[q]

LEMMA OthersReady ==
  ASSUME IInv, NEW r \in Ranks, OnlyRank(r), req' = req
  PROVE  \A q \in Ranks \ {r}: Memory(q)' /\ Ready(q)'
<1>1. ASSUME NEW q \in Ranks \ {r}
      PROVE  Memory(q)' /\ Ready(q)'
  <2>1. Memory(q) /\ Ready(q)
    BY DEF IInv
  <2>2. Memory(q)'
    BY <2>1 DEF OnlyRank, Memory
  <2>3. Ready(q)'
    BY <2>1 DEF OnlyRank, Ready
  <2> QED
    BY <2>2, <2>3
<1> QED
  BY <1>1

\* Who is in a request has one.
LEMMA InRequest ==
  ASSUME IInv, NEW r \in Ranks, at[r] # "idle"
  PROVE  /\ req \in Asked /\ ~Idle /\ Asks(req)
         /\ at[r] \in Before => BothAt(Before)
         /\ at[r] \in Running => BothAt(Running)
<1>1. ~Idle
  BY DEF IInv, Stages, BothAt
<1>2. req \in Asked
  <2>1. NoRequest.kind = "none"
    BY DEF NoRequest
  <2>2. req \in Asked \cup {NoRequest}
    BY DEF IInv, Types
  <2> QED
    BY <1>1, <2>1, <2>2 DEF Idle
<1> QED
  BY <1>1, <1>2 DEF IInv, Stages, BothAt, Before, Running, Asked, Asks

LEMMA PrepareIInv ==
  ASSUME IInv, NEW r \in Ranks, Prepare(r), causes' = {}
  PROVE  IInv'
<1>1. at[r] = "start" /\ Types /\ Memory(r)
  BY DEF Prepare, IInv
<1>2. req \in Asked /\ ~Idle /\ Asks(req) /\ BothAt(Before)
  BY <1>1, InRequest DEF Before
<1>3. PICK trims \in {"ok", "first", "later"}:
        LET new == Prepared([live |-> holder[r], parked |-> resident[r]],
                            req, trims)
        IN  /\ holder' = [holder EXCEPT ![r] = new.live]
            /\ resident' = [resident EXCEPT ![r] = new.parked]
            /\ preserve' = [preserve EXCEPT ![r] = new.keeps]
            /\ plan' = [plan EXCEPT ![r] =
                 IF new.uses THEN [kv |-> new.live.kv, reuse |-> new.live.len]
                 ELSE NoPlan]
            /\ Blame("bypassed", ~new.uses /\ ~new.keeps)
  BY DEF Prepare
<1> DEFINE new == Prepared([live |-> holder[r], parked |-> resident[r]],
                           req, trims)
           mine == IF new.uses
                   THEN [kv |-> new.live.kv, reuse |-> new.live.len]
                   ELSE NoPlan
<1>4. new \in Outcomes(r, req)
  <2>1. new.uses \/ new.keeps
    BY <1>3 DEF Blame
  <2> HIDE DEF new
  <2>2. new.uses \/ new.keeps => new \in Outcomes(r, req)
    BY <1>1, <1>2, PreparedOutcome DEF Memory, new
  <2> QED
    BY <2>1, <2>2
<1>5. /\ holder' = [holder EXCEPT ![r] = new.live]
      /\ resident' = [resident EXCEPT ![r] = new.parked]
      /\ preserve' = [preserve EXCEPT ![r] = new.keeps]
      /\ plan' = [plan EXCEPT ![r] = mine]
      /\ at' = [at EXCEPT ![r] = "prepared"]
      /\ inUse' = [inUse EXCEPT ![r] = TRUE]
      /\ UNCHANGED <<req, janitor, count>>
  BY <1>3 DEF Prepare
<1> HIDE DEF new
<1>6. /\ new.live \in GoodSlots(r) /\ new.live \in SlotType
      /\ new.parked \in Parked(GoodSlots(r)) /\ new.keeps \in BOOLEAN
      /\ new.uses \in BOOLEAN
  BY <1>4 DEF Outcomes, GoodSlots
<1>7. new.parked \in Seq(SlotType)
  <2>1. GoodSlots(r) \subseteq SlotType
    BY DEF GoodSlots
  <2>2. new.parked \in Seq(GoodSlots(r))
    BY <1>6 DEF Parked
  <2> QED
    BY <2>1, <2>2, SeqMonotonic
<1>8. mine \in Plans
  BY <1>6 DEF Plans, SlotType, NoPlan
<1>9. new.uses =>
        /\ mine.kv = new.live.kv /\ mine.reuse = new.live.len
        /\ ~new.keeps /\ Begins(new.live, req)
  BY <1>4 DEF Outcomes
<1>10. ~new.uses => mine.kv = NoKv /\ mine.reuse = 0 /\ new.keeps
  BY <1>4, <1>6 DEF Outcomes, NoPlan
<1> HIDE DEF mine
<1>11. Types'
  BY <1>1, <1>5, <1>6, <1>7, <1>8 DEF Types, Before
<1>12. Stages'
  BY <1>1, <1>2, <1>5 DEF Types, Stages, Idle, BothAt, Before
<1>13. Voted'
  BY <1>1, <1>5 DEF Types, Voted, BothAt, Running
<1>14. \A q \in Ranks \ {r}: Memory(q)' /\ Ready(q)'
  <2>1. OnlyRank(r) /\ req' = req
    BY <1>1, <1>5 DEF OnlyRank, Types
  <2> QED
    BY <2>1, OthersReady
<1>15. /\ holder'[r] = new.live /\ resident'[r] = new.parked
       /\ preserve'[r] = new.keeps /\ plan'[r] = mine /\ req' = req
  BY <1>1, <1>5 DEF Types
<1>16. Memory(r)'
  BY <1>6, <1>15 DEF Memory, Memories
<1>17. Ready(r)'
  <2>1. CASE new.uses
    <3>1. r = 1 => Len(new.live.kv) = new.live.len
      BY <1>6, <1>9, <2>1 DEF GoodSlots, Begins
    <3>2. new.live.len <= Len(new.live.kv)
      BY <1>6, <1>9, <2>1 DEF GoodSlots, Begins
    <3> QED
      BY <1>9, <1>15, <2>1, <3>1, <3>2 DEF Ready, Begins
  <2>2. CASE ~new.uses
    BY <1>10, <1>15, <2>2 DEF Ready
  <2> QED
    BY <2>1, <2>2
<1> QED
  BY <1>11, <1>12, <1>13, <1>14, <1>16, <1>17 DEF IInv

LEMMA PrepareFailsIInv ==
  ASSUME IInv, NEW r \in Ranks, PrepareFails(r)
  PROVE  IInv'
<1>1. at[r] = "start" /\ Types
  BY DEF PrepareFails, IInv
<1>2. BothAt(Before) /\ ~Idle
  BY <1>1, InRequest DEF Before
<1>3. Types' /\ at'[r] = "failed"
  BY <1>1 DEF Types, PrepareFails, Before
<1>4. Stages'
  BY <1>1, <1>2 DEF Types, PrepareFails, Stages, Idle, BothAt, Before
<1>5. Voted'
  BY <1>3 DEF Voted, BothAt, Running
<1>6. \A q \in Ranks \ {r}: Memory(q)' /\ Ready(q)'
  <2>1. OnlyRank(r) /\ req' = req
    BY <1>1 DEF OnlyRank, Types, PrepareFails
  <2> QED
    BY <2>1, OthersReady
<1>7. Memory(r)' /\ Ready(r)'
  BY <1>3 DEF IInv, PrepareFails, Memory, Ready
<1> QED
  BY <1>3, <1>4, <1>5, <1>6, <1>7 DEF IInv

LEMMA AdmitIInv ==
  ASSUME IInv, NEW r \in Ranks, Admit(r)
  PROVE  IInv'
<1>1. at[r] = "admit" /\ Types /\ Memory(r) /\ Ready(r)
  BY DEF Admit, IInv
<1>2. BothAt(Running) /\ ~Idle
  BY <1>1, InRequest DEF Running
<1>3. PICK n \in 0 .. Len(resident[r]):
        \E left \in [1 .. n -> DOMAIN resident[r]]:
          resident' = [resident EXCEPT ![r] = [i \in 1 .. n |-> @[left[i]]]]
  BY DEF Admit
<1>4. PICK left \in [1 .. n -> DOMAIN resident[r]]:
        resident' = [resident EXCEPT ![r] = [i \in 1 .. n |-> @[left[i]]]]
  BY <1>3
<1> DEFINE kept == [i \in 1 .. n |-> resident[r][left[i]]]
<1>5. kept \in Parked(GoodSlots(r)) /\ kept \in Seq(SlotType)
  <2>1. resident[r] \in Seq(GoodSlots(r)) /\ Len(resident[r]) < ResidentSlots
    BY <1>1 DEF Memory, Memories, Parked
  <2>2. n \in Nat /\ n <= Len(resident[r]) /\ Len(resident[r]) \in Nat
    BY <2>1
  <2>3. \A i \in 1 .. n: resident[r][left[i]] \in GoodSlots(r)
    BY <1>4, <2>1
  <2>4. kept \in [1 .. n -> GoodSlots(r)]
    BY <2>3
  <2> HIDE DEF kept
  <2>5. kept \in Seq(GoodSlots(r)) /\ Len(kept) = n
    BY <2>2, <2>4, SeqDef
  <2>6. GoodSlots(r) \subseteq SlotType
    BY DEF GoodSlots
  <2>7. kept \in Seq(SlotType)
    BY <2>5, <2>6, SeqMonotonic
  <2>8. n < ResidentSlots
    BY <2>1, <2>2, Sizes
  <2> QED
    BY <2>5, <2>7, <2>8 DEF Parked
<1>6. /\ resident' = [resident EXCEPT ![r] = kept]
      /\ at' = [at EXCEPT ![r] = "decode"]
      /\ UNCHANGED <<inUse, preserve, plan, req, janitor, count>>
  BY <1>4 DEF Admit
<1> HIDE DEF kept
<1>7. \/ holder' = holder
      \/ plan[r].kv = NoKv /\ holder' = [holder EXCEPT ![r] = Empty]
  BY DEF Admit
<1>8. Empty \in SlotType /\ Empty \in GoodSlots(r) /\ Empty.kv = NoKv
  BY EmptyGood DEF GoodSlots
<1>9. Types'
  BY <1>1, <1>5, <1>6, <1>7, <1>8 DEF Types, Running
<1>10. Stages' /\ BothAt(Running)'
  BY <1>1, <1>2, <1>6 DEF Types, Stages, Idle, BothAt, Running
<1>11. Voted'
  BY <1>2, <1>6 DEF IInv, Voted, Physical, Suffix, Sound
<1>12. \A q \in Ranks \ {r}: Memory(q)' /\ Ready(q)'
  <2>1. OnlyRank(r) /\ req' = req
    BY <1>1, <1>6, <1>7 DEF OnlyRank, Types
  <2> QED
    BY <2>1, OthersReady
<1>13. /\ resident'[r] = kept /\ plan'[r] = plan[r] /\ req' = req
       /\ preserve'[r] = preserve[r]
       /\ holder'[r] = holder[r] \/ (plan[r].kv = NoKv /\ holder'[r] = Empty)
  BY <1>1, <1>6, <1>7 DEF Types
<1>14. Memory(r)'
  BY <1>1, <1>5, <1>8, <1>13 DEF Memory, Memories
<1>15. Ready(r)'
  BY <1>1, <1>8, <1>13 DEF Ready
<1> QED
  BY <1>9, <1>10, <1>11, <1>12, <1>14, <1>15 DEF IInv

-----------------------------------------------------------------------------
(* The votes.                                                               *)

LEMMA StartDecodeIs ==
  ASSUME Types, ~Idle, NEW where \in Running, NEW ends, ends \subseteq Ends,
         NEW gens, gens \subseteq Generations, StartDecode(where, ends, gens)
  PROVE  /\ req' \in Asked /\ req'.kind = req.kind /\ req'.ids = req.ids
         /\ req'.gen \in gens
         /\ at' \in [Ranks -> {"idle"} \cup Before \cup Running]
         /\ \A r \in Ranks: at'[r] = where
<1>1. req \in Asked
  <2>1. NoRequest.kind = "none"
    BY DEF NoRequest
  <2> QED
    BY <2>1 DEF Types, Idle
<1>2. PICK end \in ends, gen \in gens, full \in BOOLEAN:
        req' = [req EXCEPT !.end = end, !.gen = gen, !.full = full]
  BY DEF StartDecode
<1>3. end \in Ends \cup {"open"} /\ gen \in Seq(Tokens)
  BY Sizes
<1> QED
  BY <1>1, <1>2, <1>3 DEF Asked, StartDecode

\* What the vote of a chat compares: what was fed, what is counted.
LEMMA CountedIsSound ==
  ASSUME IInv, NEW r \in Ranks, at[r] = "prepared", Physical(r) = Counter(r)
  PROVE  Sound(r)
<1>1. SUFFICES ASSUME plan[r].kv # NoKv
               PROVE  plan[r].kv = SubSeq(req.ids, 1, plan[r].reuse)
  BY DEF Sound
<1>2. /\ plan[r].reuse <= Len(plan[r].kv)
      /\ Len(plan[r].kv) = plan[r].reuse =>
           plan[r].kv = SubSeq(req.ids, 1, plan[r].reuse)
      /\ holder[r] = Empty \/ holder[r].len = plan[r].reuse
  BY <1>1 DEF IInv, Ready
<1>3. plan[r].kv \in Seq(Tokens) /\ plan[r].reuse \in Nat
  BY <1>1 DEF IInv, Types, Plans
<1>4. Len(plan[r].kv) \in Nat
  BY <1>3
<1>5. Len(plan[r].kv) = holder[r].len
  BY <1>1 DEF Physical, Counter
<1>6. CASE holder[r] = Empty
  <2>1. Len(plan[r].kv) = 0
    BY <1>5, <1>6, EmptyGood
  <2> QED
    BY <1>2, <1>3, <2>1
<1>7. CASE holder[r].len = plan[r].reuse
  BY <1>2, <1>5, <1>7
<1> QED
  BY <1>2, <1>6, <1>7

LEMMA ConsensusIInv ==
  ASSUME IInv, Consensus
  PROVE  IInv'
<1>1. /\ Types /\ \A r \in Ranks: at[r] = "prepared" /\ Memory(r) /\ Ready(r)
      /\ req.kind = "chat" /\ UNCHANGED <<janitor, count>>
  BY DEF IInv, Consensus, BothAt
<1>2. req \in Asked /\ ~Idle
  BY <1>1, RanksAre, InRequest
<1>3. /\ req' \in Asked /\ req'.kind = req.kind /\ req'.ids = req.ids
      /\ at' \in [Ranks -> {"idle"} \cup Before \cup Running]
      /\ \A r \in Ranks: at'[r] = "admit"
  <2>1. StartDecode("admit", Ends, Generations) /\ "admit" \in Running
    BY DEF Consensus, Running
  <2> QED
    BY <1>1, <1>2, <2>1, StartDecodeIs
<1>4. Stages'
  BY <1>1, <1>3 DEF Stages, Idle, BothAt, Running
<1>5. CASE Agreed
  <2>1. UNCHANGED <<holder, resident, inUse, preserve, plan>>
    BY <1>5 DEF Consensus
  <2>2. Types'
    BY <1>1, <1>3, <2>1 DEF Types
  <2>3. ASSUME NEW r \in Ranks PROVE Memory(r)' /\ Ready(r)' /\ Sound(r)'
    <3>1. Memory(r)'
      BY <1>1, <2>1 DEF Memory
    <3>2. Ready(r)'
      BY <1>1, <1>3, <2>1 DEF Ready
    <3>3. Sound(r)
      BY <1>1, <1>5, CountedIsSound DEF Agreed
    <3>4. Sound(r)'
      BY <1>3, <2>1, <3>3 DEF Sound
    <3> QED
      BY <3>1, <3>2, <3>4
  <2>4. /\ Physical(0) = Physical(1) /\ Suffix(0) = Suffix(1)
    BY <1>5 DEF Agreed, Vote
  <2>5. Voted'
    BY <1>1, <1>3, <2>1, <2>3, <2>4 DEF Voted, Physical, Suffix
  <2> QED
    BY <1>4, <2>2, <2>3, <2>5 DEF IInv
<1>6. CASE ~Agreed
  <2>1. DropBoth(FALSE) /\ plan' = [r \in Ranks |-> NoPlan]
    BY <1>6 DEF Consensus
  <2>2. MemoryTypes' /\ \A r \in Ranks: Emptied(r) /\ Memory(r)'
    BY <1>1, <2>1, DropBothEmpties, EmptiedMemory
  <2>3. NoPlan \in Plans /\ NoPlan.kv = NoKv /\ NoPlan.reuse = 0
    BY DEF NoPlan, Plans
  <2>4. Types'
    BY <1>1, <1>3, <2>1, <2>2, <2>3 DEF Types, MemoryTypes
  <2>5. \A r \in Ranks: holder'[r].kv = NoKv /\ plan'[r] = NoPlan
    BY <2>1, EmptyGood DEF DropBoth
  <2>6. \A r \in Ranks: Ready(r)' /\ Sound(r)'
    BY <2>3, <2>5 DEF Ready, Sound
  <2>7. Voted'
    BY <1>1, <1>3, <2>3, <2>5, <2>6, RanksAre DEF Voted, Physical, Suffix
  <2> QED
    BY <1>4, <2>2, <2>4, <2>6, <2>7 DEF IInv
<1> QED
  BY <1>5, <1>6

\* A prewarm compares the lengths of the two ranks only: rank 1's are right.
LEMMA EqualIsSound ==
  ASSUME IInv, BothAt({"prepared"}), Physical(0) = Physical(1),
         Suffix(0) = Suffix(1)
  PROVE  \A r \in Ranks: Sound(r)
<1>1. \A r \in Ranks:
        /\ at[r] = "prepared" /\ Ready(r) /\ plan[r].reuse \in Nat
        /\ plan[r].kv # NoKv => Len(plan[r].kv) \in Nat
  <2> TAKE r \in Ranks
  <2>1. at[r] = "prepared"
    BY DEF BothAt
  <2>2. Ready(r)
    BY DEF IInv
  <2>3. plan[r] \in Plans
    BY DEF IInv, Types
  <2>4. /\ plan[r].reuse \in Nat
        /\ plan[r].kv # NoKv => plan[r].kv \in Seq(Tokens)
    BY <2>3 DEF Plans
  <2> QED
    BY <2>1, <2>2, <2>4
<1>2. Len(req.ids) \in Nat
  BY <1>1, RanksAre, InRequest DEF Asked
<1>3. plan[0].reuse = plan[1].reuse
  BY <1>1, <1>2, RanksAre DEF Suffix
<1>4. ASSUME NEW r \in Ranks, plan[r].kv # NoKv
      PROVE  Len(plan[r].kv) = plan[r].reuse
  <2>1. CASE plan[1].kv # NoKv
    <3>1. Len(plan[1].kv) = plan[1].reuse
      BY <1>1, <2>1, RanksAre DEF Ready
    <3>2. r = 0 => Len(plan[0].kv) = Len(plan[1].kv)
      BY <1>4, <2>1 DEF Physical
    <3> QED
      BY <1>3, <3>1, <3>2, RanksAre
  <2>2. CASE plan[1].kv = NoKv
    <3>1. r = 0
      BY <1>4, <2>2, RanksAre
    <3>2. Len(plan[0].kv) = 0
      BY <1>4, <2>2, <3>1 DEF Physical
    <3>3. plan[0].reuse <= Len(plan[0].kv)
      BY <1>1, <1>4, <3>1 DEF Ready
    <3> QED
      BY <1>1, <3>1, <3>2, <3>3
  <2> QED
    BY <2>1, <2>2
<1> QED
  BY <1>1, <1>4 DEF Ready, Sound

LEMMA PrewarmVoteIInv ==
  ASSUME IInv, PrewarmVote
  PROVE  IInv'
<1>1. /\ Types /\ \A r \in Ranks: Memory(r) /\ Ready(r)
      /\ req.kind = "prewarm" /\ UNCHANGED <<janitor, count>>
      /\ \A r \in Ranks: at[r] \in {"prepared", "failed"}
  BY DEF IInv, PrewarmVote, BothAt
<1>2. CASE \E r \in Ranks: Skips(r)
  <2>1. PICK lost \in SUBSET Ranks:
          holder' = [r \in Ranks |-> IF r \in lost THEN Empty ELSE holder[r]]
    <3> DEFINE lost == {r \in Ranks: at[r] = "failed" /\ ~preserve[r]}
    <3>1. holder' = [r \in Ranks |-> IF r \in lost THEN Empty ELSE holder[r]]
      BY <1>2 DEF PrewarmVote
    <3>2. lost \in SUBSET Ranks
      OBVIOUS
    <3> QED
      BY <3>1, <3>2
  <2>2. /\ Close /\ inUse' = [r \in Ranks |-> FALSE]
        /\ UNCHANGED <<resident, preserve>>
    BY <1>2 DEF PrewarmVote
  <2>3. Empty \in SlotType
    BY EmptyGood DEF GoodSlots
  <2>4. MemoryTypes'
    BY <1>1, <2>1, <2>2, <2>3 DEF Types, MemoryTypes
  <2>5. ASSUME NEW r \in Ranks PROVE Memory(r)'
    <3>1. Empty \in GoodSlots(r)
      BY EmptyGood
    <3>2. holder'[r] \in {Empty, holder[r]} /\ resident'[r] = resident[r]
      BY <2>1, <2>2
    <3> QED
      BY <1>1, <3>1, <3>2 DEF Memory, Memories
  <2> QED
    BY <1>1, <2>2, <2>4, <2>5, CloseIInv
<1>3. CASE /\ ~(\E r \in Ranks: Skips(r))
           /\ Physical(0) # Physical(1) \/ Suffix(0) # Suffix(1)
  <2>1. Close /\ DropBoth(TRUE)
    BY <1>3 DEF PrewarmVote
  <2>2. MemoryTypes' /\ \A r \in Ranks: Memory(r)'
    BY <1>1, <2>1, DropBothEmpties, EmptiedMemory
  <2> QED
    BY <1>1, <2>1, <2>2, CloseIInv
<1>4. CASE /\ ~(\E r \in Ranks: Skips(r))
           /\ Physical(0) = Physical(1) /\ Suffix(0) = Suffix(1)
  <2> DEFINE gens == {g \in Generations: Len(g) = 1}
  <2>1. /\ StartDecode("decode", {"done"}, gens)
        /\ preserve' = [r \in Ranks |-> FALSE]
        /\ UNCHANGED <<holder, resident, inUse, plan>>
    BY <1>4 DEF PrewarmVote
  <2>2. \A r \in Ranks: /\ at[r] = "prepared"
                        /\ plan[r].kv = NoKv => ~preserve[r]
    BY <1>1, <1>4 DEF Skips
  <2>3. ~Idle
    BY <1>1 DEF Idle
  <2>4. /\ req' \in Asked /\ req'.kind = req.kind /\ req'.ids = req.ids
        /\ req'.gen \in gens
        /\ at' \in [Ranks -> {"idle"} \cup Before \cup Running]
        /\ \A r \in Ranks: at'[r] = "decode"
    <3>1. "decode" \in Running /\ {"done"} \subseteq Ends
          /\ gens \subseteq Generations
      BY DEF Running, Ends
    <3> HIDE DEF gens
    <3> QED
      BY <1>1, <2>1, <2>3, <3>1, StartDecodeIs
  <2>5. Types'
    BY <1>1, <2>1, <2>4 DEF Types
  <2>6. Stages'
    BY <1>1, <2>4 DEF Stages, Idle, BothAt, Running
  <2>7. \A r \in Ranks: Sound(r)
    BY <1>4, <2>2, EqualIsSound DEF BothAt
  <2>8. ASSUME NEW r \in Ranks PROVE Memory(r)' /\ Ready(r)' /\ Sound(r)'
    <3>1. Memory(r)' /\ preserve'[r] = FALSE
      BY <1>1, <2>1 DEF Memory
    <3>2. Ready(r)'
      BY <1>1, <2>1, <2>2, <2>4, <3>1 DEF Ready
    <3>3. Sound(r)'
      BY <2>1, <2>4, <2>7 DEF Sound
    <3> QED
      BY <3>1, <3>2, <3>3
  <2>9. Voted'
    BY <1>4, <2>1, <2>4, <2>8 DEF Voted, Physical, Suffix
  <2> QED
    BY <2>5, <2>6, <2>8, <2>9 DEF IInv
<1> QED
  BY <1>2, <1>3, <1>4

-----------------------------------------------------------------------------
(* The end of a rank's generation.                                          *)

\* The tokens of the request, and what is a beginning of them.
Answered == req.ids \o req.gen
Starts(s) == s \in Seq(Tokens) /\ Opens(s, Answered)

LEMMA AnsweredIs ==
  ASSUME req \in Asked
  PROVE  /\ req.ids \in Seq(Tokens) /\ req.gen \in Seq(Tokens)
         /\ Len(req.ids) \in Nat \ {0} /\ Len(req.gen) \in Nat
         /\ req.sess \in Names /\ Starts(req.ids) /\ Starts(Answered)
         /\ Answered \in Seq(Tokens)
         /\ Len(Answered) = Len(req.ids) + Len(req.gen)
         /\ \A i \in 1 .. Len(req.gen): Answered[Len(req.ids) + i] = req.gen[i]
<1>1. /\ req.ids \in Seq(Tokens) /\ req.ids # <<>> /\ req.gen \in Seq(Tokens)
      /\ req.sess \in Names
  BY DEF Asked
<1>2. Len(req.ids) \in Nat \ {0} /\ Len(req.gen) \in Nat
  BY <1>1
<1>3. /\ Answered \in Seq(Tokens)
      /\ Len(Answered) = Len(req.ids) + Len(req.gen)
      /\ \A i \in 1 .. Len(Answered): Answered[i] =
           IF i <= Len(req.ids) THEN req.ids[i] ELSE req.gen[i - Len(req.ids)]
  BY <1>1, ConcatProperties DEF Answered
<1> DEFINE ids == req.ids
           gen == req.gen
           a == Answered
<1>4. /\ a \in Seq(Tokens) /\ Len(a) = Len(ids) + Len(gen)
      /\ \A i \in 1 .. Len(a): a[i] =
           IF i <= Len(ids) THEN ids[i] ELSE gen[i - Len(ids)]
      /\ Len(ids) \in Nat \ {0} /\ Len(gen) \in Nat /\ ids \in Seq(Tokens)
  BY <1>1, <1>2, <1>3
<1> HIDE DEF ids, gen, a
<1>5. Len(ids) <= Len(a) /\ \A i \in 1 .. Len(ids): ids[i] = a[i]
  BY <1>4
<1>6. Len(a) <= Len(a) /\ \A i \in 1 .. Len(a): a[i] = a[i]
  BY <1>4
<1>7. \A i \in 1 .. Len(gen): a[Len(ids) + i] = gen[i]
  <2> TAKE i \in 1 .. Len(gen)
  <2>1. /\ Len(ids) + i \in 1 .. Len(a) /\ ~(Len(ids) + i <= Len(ids))
        /\ Len(ids) + i - Len(ids) = i
    BY <1>4
  <2> QED
    BY <1>4, <2>1
<1>8. Starts(ids) /\ Starts(a)
  BY <1>4, <1>5, <1>6 DEF Starts, Opens, a
<1> QED
  BY <1>1, <1>2, <1>3, <1>7, <1>8 DEF ids, gen, a

\* Rank r rewrites its memory and ends.
Ended(r) ==
  /\ MemoryTypes' /\ Memory(r)'
  /\ \A q \in Ranks \ {r}: /\ holder'[q] = holder[q]
                           /\ resident'[q] = resident[q]
                           /\ preserve'[q] = preserve[q]

LEMMA FinishedIInv ==
  ASSUME IInv, NEW r \in Ranks, at[r] = "decode",
         at' = [at EXCEPT ![r] = "finished"],
         UNCHANGED <<plan, req, janitor, count>>, Ended(r)
  PROVE  IInv'
<1>1. Types /\ BothAt(Running) /\ ~Idle
  BY InRequest DEF IInv, Running
<1>2. /\ at' \in [Ranks -> {"idle"} \cup Before \cup Running]
      /\ at'[r] = "finished" /\ \A q \in Ranks: at'[q] \in Running
      /\ \A q \in Ranks \ {r}: at'[q] = at[q]
  BY <1>1 DEF Types, BothAt, Running
<1>3. Types'
  BY <1>1, <1>2 DEF Types, Ended, MemoryTypes
<1>4. Stages'
  BY <1>1, <1>2 DEF Stages, Idle, BothAt
<1>5. Voted'
  BY <1>1 DEF IInv, Voted, BothAt, Physical, Suffix, Sound
<1>6. \A q \in Ranks \ {r}: Memory(q)' /\ Ready(q)'
  <2>1. OnlyRank(r)
    BY <1>2 DEF OnlyRank, Ended
  <2> QED
    BY <2>1, OthersReady
<1>7. Memory(r)' /\ Ready(r)'
  BY <1>2 DEF Ended, Ready
<1> QED
  BY <1>3, <1>4, <1>5, <1>6, <1>7 DEF IInv

LEMMA RewriteEnds ==
  ASSUME IInv, NEW r \in Ranks, NEW s \in GoodSlots(r),
         holder' = [holder EXCEPT ![r] = s],
         inUse' = [inUse EXCEPT ![r] = FALSE],
         UNCHANGED <<resident, preserve>>
  PROVE  Ended(r)
<1>1. Types /\ Memory(r) /\ s \in SlotType
  BY DEF IInv, GoodSlots
<1>2. MemoryTypes'
  BY <1>1 DEF Types, MemoryTypes
<1>3. holder'[r] = s /\ \A q \in Ranks \ {r}: holder'[q] = holder[q]
  BY <1>1 DEF Types
<1>4. Memory(r)'
  BY <1>1, <1>3 DEF Memory, Memories
<1> QED
  BY <1>2, <1>3, <1>4 DEF Ended

LEMMA DropEnds ==
  ASSUME IInv, NEW r \in Ranks, NEW all \in BOOLEAN, Drop(r, all)
  PROVE  Ended(r)
<1>1. Types /\ Memory(r)
  BY DEF IInv
<1>2. MemoryTypes' /\ Emptied(r)
  BY <1>1, DropEmpties
<1>3. Memory(r)'
  BY <1>1, <1>2, EmptiedMemory
<1>4. \A q \in Ranks \ {r}: /\ holder'[q] = holder[q]
                            /\ resident'[q] = resident[q]
                            /\ preserve'[q] = preserve[q]
  BY <1>1 DEF Types, Drop
<1> QED
  BY <1>2, <1>3, <1>4 DEF Ended

\* What the counts and the key limit make of the key, the slot is good.
LEMMA RecordedGood ==
  ASSUME IInv, NEW r \in Ranks, req \in Asked,
         NEW kv, kv = NoKv \/ Starts(kv), NEW n \in Int, n >= 0 - 1
  PROVE  Recorded(r, kv, n) \in GoodSlots(r)
<1> DEFINE seen == IF KeyLimit = 0 THEN n ELSE Smaller(n, KeyLimit)
           key == IF req.full THEN req.ids \o Take(req.gen, seen) ELSE req.ids
           sess == IF req.sess = NoSession THEN holder[r].sess ELSE req.sess
           known == Take(key, Len(kv))
<1>1. /\ req.ids \in Seq(Tokens) /\ req.gen \in Seq(Tokens)
      /\ Len(req.ids) \in Nat \ {0} /\ Len(req.gen) \in Nat
      /\ req.sess \in Names /\ Starts(req.ids)
      /\ Len(Answered) = Len(req.ids) + Len(req.gen)
      /\ \A i \in 1 .. Len(req.gen): Answered[Len(req.ids) + i] = req.gen[i]
  BY AnsweredIs
<1>2. sess \in Names
  <2>1. holder[r].sess \in Names
    BY DEF IInv, Types, SlotType, Names
  <2> QED
    BY <1>1, <2>1
<1>3. seen \in Int
  BY Sizes DEF Smaller
<1>4. key \in Seq(Tokens) /\ Len(key) >= 1 /\ Starts(key)
  <2>1. CASE req.full
    <3> DEFINE t == Take(req.gen, seen)
    <3> HIDE DEF seen
    <3>1. /\ t \in Seq(Tokens)
          /\ Len(t) = IF seen <= 0 THEN 0 ELSE Smaller(seen, Len(req.gen))
          /\ \A i \in 1 .. Len(t): t[i] = req.gen[i]
      BY <1>1, <1>3, TakeIs
    <3>2. Len(t) <= Len(req.gen)
      <4> HIDE DEF t
      <4> QED
        BY <1>1, <1>3, <3>1 DEF Smaller
    <3> HIDE DEF t
    <3> DEFINE k == req.ids \o t
    <3>3. /\ k \in Seq(Tokens) /\ Len(k) >= Len(req.ids)
          /\ Opens(k, req.ids \o req.gen)
      <4>1. /\ t \in Seq(Tokens) /\ req.ids \in Seq(Tokens)
            /\ req.gen \in Seq(Tokens) /\ Opens(t, req.gen)
        BY <1>1, <3>1, <3>2 DEF Opens
      <4> QED
        BY <4>1, LongerOpens
    <3>4. key = k
      BY <2>1 DEF t
    <3> HIDE DEF k, key, t
    <3>5. Starts(k)
      BY <3>3 DEF Starts, Opens, Answered
    <3>6. Len(k) >= 1
      <4>1. Len(k) \in Nat
        BY <3>3
      <4> QED
        BY <1>1, <3>3, <4>1
    <3> QED
      BY <3>3, <3>4, <3>5, <3>6
  <2>2. CASE ~req.full
    BY <1>1, <2>2
  <2> QED
    BY <2>1, <2>2
<1> HIDE DEF seen, key, sess
<1>5. CASE kv = NoKv
  <2> DEFINE s == Slot(NoKv, key, Len(req.ids) + n, Len(req.ids), sess)
  <2>1. Recorded(r, kv, n) = s
    BY <1>5 DEF Recorded, key, seen, sess
  <2>2. Len(req.ids) + n \in Nat /\ Len(req.ids) \in Nat
    BY <1>1
  <2>3. s \in SlotType /\ s.kv = NoKv
    BY <1>2, <1>4, <2>2, SlotTypes DEF Slot
  <2> QED
    BY <2>1, <2>3 DEF GoodSlots
<1>6. CASE kv # NoKv
  <2> DEFINE s == Slot(kv, known, Len(kv), Len(req.ids), sess)
  <2>1. Recorded(r, kv, n) = s
    BY <1>6 DEF Recorded, key, seen, sess, known
  <2>2. kv \in Seq(Tokens) /\ Len(kv) \in Nat /\ Starts(kv)
    BY <1>6 DEF Starts, Opens
  <2>3. /\ known \in Seq(Tokens)
        /\ Len(known) = IF Len(kv) <= 0 THEN 0 ELSE Smaller(Len(kv), Len(key))
        /\ \A i \in 1 .. Len(known): known[i] = key[i]
    BY <1>4, <2>2, TakeIs
  <2> HIDE DEF known
  <2>4. Len(known) \in Nat /\ Len(known) <= Len(key) /\ Len(known) <= Len(kv)
    BY <1>4, <2>2, <2>3 DEF Smaller
  <2>5. \A i \in 1 .. Len(known): kv[i] = known[i]
    BY <1>4, <2>2, <2>3, <2>4 DEF Starts, Opens
  <2>6. known = <<>> => Len(kv) = 0
    BY <1>4, <2>2, <2>3 DEF Smaller
  <2>7. s \in SlotType
    BY <1>1, <1>2, <2>2, <2>3, SlotTypes
  <2>8. s.kv = kv /\ s.ids = known /\ s.len = Len(kv)
    BY DEF Slot
  <2> HIDE DEF s
  <2>9. Honest(s)
    BY <2>2, <2>3, <2>5, <2>8 DEF Honest
  <2> QED
    BY <2>1, <2>2, <2>6, <2>7, <2>8, <2>9 DEF GoodSlots
<1> QED
  BY <1>5, <1>6

LEMMA RecordEnds ==
  ASSUME IInv, NEW r \in Ranks, req \in Asked,
         NEW kv, kv = NoKv \/ Starts(kv),
         NEW counts \in SUBSET Int, \A n \in counts: n >= 0 - 1,
         Record(r, kv, counts)
  PROVE  Ended(r)
<1>1. PICK n \in counts:
        \/ /\ holder' = [holder EXCEPT ![r] = Empty]
           /\ resident' = [resident EXCEPT ![r] = <<>>]
           /\ preserve' = [preserve EXCEPT ![r] = FALSE]
        \/ /\ holder' = [holder EXCEPT ![r] = Recorded(r, kv, n)]
           /\ UNCHANGED <<resident, preserve>>
  BY DEF Record
<1>2. inUse' = [inUse EXCEPT ![r] = FALSE]
  BY DEF Record
<1>3. CASE /\ holder' = [holder EXCEPT ![r] = Empty]
           /\ resident' = [resident EXCEPT ![r] = <<>>]
           /\ preserve' = [preserve EXCEPT ![r] = FALSE]
  <2>1. Drop(r, TRUE)
    BY <1>2, <1>3 DEF Drop
  <2> QED
    BY <2>1, DropEnds
<1>4. CASE /\ holder' = [holder EXCEPT ![r] = Recorded(r, kv, n)]
           /\ UNCHANGED <<resident, preserve>>
  <2>1. Recorded(r, kv, n) \in GoodSlots(r)
    BY RecordedGood
  <2> QED
    BY <1>2, <1>4, <2>1, RewriteEnds
<1> QED
  BY <1>1, <1>3, <1>4

LEMMA KeepPrefixEnds ==
  ASSUME IInv, NEW r \in Ranks, req \in Asked,
         NEW kv, preserve[r] \/ kv = NoKv \/ Starts(kv), KeepPrefix(r, kv)
  PROVE  Ended(r)
<1>1. CASE Drop(r, FALSE)
  BY <1>1, DropEnds
<1>2. CASE /\ ~preserve[r] /\ kv # NoKv /\ Len(kv) >= Len(req.ids)
           /\ holder' = [holder EXCEPT ![r] =
                           Slot(SubSeq(kv, 1, Len(req.ids)), req.ids,
                                Len(req.ids), Len(req.ids), @.sess)]
           /\ inUse' = [inUse EXCEPT ![r] = FALSE]
           /\ UNCHANGED <<resident, preserve>>
  <2> DEFINE n == Len(req.ids)
             u == SubSeq(kv, 1, n)
             s == Slot(u, req.ids, n, n, holder[r].sess)
  <2>1. /\ req.ids \in Seq(Tokens) /\ n \in Nat \ {0} /\ Starts(req.ids)
        /\ kv \in Seq(Tokens) /\ n <= Len(kv) /\ Starts(kv)
        /\ holder[r].sess \in Names /\ Types
    BY <1>2, AnsweredIs DEF Starts, Opens, IInv, Types, SlotType, Names
  <2> HIDE DEF n
  <2>2. \A i \in 1 .. n: kv[i] \in Tokens
    BY <2>1
  <2>3. u \in Seq(Tokens) /\ Len(u) = n /\ \A i \in 1 .. n: u[i] = kv[i]
    <3>1. /\ u \in Seq(Tokens) /\ Len(u) = IF 1 <= n THEN n - 1 + 1 ELSE 0
          /\ \A i \in 1 .. n - 1 + 1: u[i] = kv[1 + i - 1]
      BY <2>1, <2>2, SubSeqProperties
    <3> HIDE DEF u
    <3> QED
      BY <2>1, <3>1
  <2> HIDE DEF u
  <2>4. s \in SlotType
    BY <2>1, <2>3, SlotTypes
  <2>5. s.kv = u /\ s.ids = req.ids /\ s.len = n
    BY DEF Slot
  <2>6. holder' = [holder EXCEPT ![r] = s]
    BY <1>2, <2>1 DEF n, u, Types
  <2> HIDE DEF s
  <2>7. Honest(s)
    BY <2>1, <2>3, <2>5 DEF Honest, Starts, Opens, n
  <2>8. req.ids # <<>>
    BY <2>1 DEF n
  <2>9. s \in GoodSlots(r)
    BY <2>1, <2>3, <2>4, <2>5, <2>7, <2>8 DEF GoodSlots
  <2> QED
    BY <1>2, <2>6, <2>9, RewriteEnds
<1> QED
  BY <1>1, <1>2 DEF KeepPrefix

\* What a rank that has not set its cache aside works on begins the answer.
LEMMA HolderStarts ==
  ASSUME IInv, NEW r \in Ranks, at[r] = "decode", ~preserve[r]
  PROVE  holder[r].kv = NoKv \/ Starts(holder[r].kv)
<1>1. Ready(r) /\ Sound(r) /\ req \in Asked /\ plan[r] \in Plans
  <2>1. BothAt(Running) /\ req \in Asked
    BY InRequest DEF Running
  <2> QED
    BY <2>1 DEF IInv, Voted, Types
<1>2. SUFFICES ASSUME holder[r].kv # NoKv PROVE Starts(holder[r].kv)
  OBVIOUS
<1>3. plan[r].kv # NoKv
  BY <1>1, <1>2 DEF Ready
<1>4. /\ holder[r].kv = plan[r].kv /\ plan[r].reuse < Len(req.ids)
      /\ plan[r].kv = SubSeq(req.ids, 1, plan[r].reuse)
  BY <1>1, <1>2, <1>3, EmptyGood DEF Ready, Sound
<1> DEFINE ids == req.ids
           n == plan[r].reuse
           u == SubSeq(ids, 1, n)
<1>5. n \in Nat /\ ids \in Seq(Tokens) /\ n < Len(ids) /\ Starts(ids)
  BY <1>1, <1>4, AnsweredIs DEF Plans
<1>6. u \in Seq(Tokens) /\ Len(u) = n /\ \A i \in 1 .. n: u[i] = ids[i]
  <2> HIDE DEF n, ids
  <2>1. \A i \in 1 .. n: ids[i] \in Tokens
    BY <1>5
  <2>2. /\ u \in Seq(Tokens) /\ Len(u) = IF 1 <= n THEN n - 1 + 1 ELSE 0
        /\ \A i \in 1 .. n - 1 + 1: u[i] = ids[1 + i - 1]
    BY <1>5, <2>1, SubSeqProperties
  <2> HIDE DEF u
  <2> QED
    BY <1>5, <2>2
<1>7. holder[r].kv = u
  BY <1>4
<1> HIDE DEF ids, n, u
<1>8. Len(ids) \in Nat /\ Len(Answered) \in Nat
  BY <1>1, AnsweredIs DEF ids
<1>9. Starts(u)
  BY <1>5, <1>6, <1>8 DEF Starts, Opens
<1> QED
  BY <1>7, <1>9

\* What is fed after the part of the prompt that is reused is the rest of it.
LEMMA AfterIs ==
  ASSUME IInv, NEW r \in Ranks, at[r] = "decode", Attached(r), ~Recodes(r)
  PROVE  After(r) = Answered
<1>1. /\ Ready(r) /\ Sound(r) /\ req \in Asked /\ plan[r] \in Plans
      /\ plan[r].kv # NoKv
  <2>1. BothAt(Running) /\ req \in Asked
    BY InRequest DEF Running
  <2> QED
    BY <2>1 DEF IInv, Voted, Types, Attached
<1>2. Feed(r) = SubSeq(req.ids, plan[r].reuse + 1, Len(req.ids))
  BY DEF Recodes
<1> DEFINE ids == req.ids
           gen == req.gen
           n == plan[r].reuse
           u == SubSeq(ids, 1, n)
           v == SubSeq(ids, n + 1, Len(ids))
<1>3. n \in Nat /\ ids \in Seq(Tokens) /\ n < Len(ids)
  BY <1>1, AnsweredIs DEF Ready, Plans
<1>4. plan[r].kv = u
  BY <1>1 DEF Sound
<1>5. After(r) = u \o v \o gen /\ Answered = ids \o gen
  BY <1>2, <1>4 DEF After, Answered
<1> HIDE DEF ids, gen, n
<1>6. u \o v = ids
  <2>1. \A i \in 1 .. Len(ids): ids[i] \in Tokens
    BY <1>3
  <2>2. \A i \in 1 .. n: i \in 1 .. Len(ids)
    BY <1>3
  <2>3. \A i \in n + 1 .. Len(ids): i \in 1 .. Len(ids)
    BY <1>3
  <2>4. /\ u \in Seq(Tokens) /\ Len(u) = IF 1 <= n THEN n - 1 + 1 ELSE 0
        /\ \A i \in 1 .. n - 1 + 1: u[i] = ids[1 + i - 1]
    BY <1>3, <2>1, <2>2, SubSeqProperties
  <2>5. /\ v \in Seq(Tokens)
        /\ Len(v) = IF n + 1 <= Len(ids) THEN Len(ids) - (n + 1) + 1 ELSE 0
        /\ \A i \in 1 .. Len(ids) - (n + 1) + 1: v[i] = ids[n + 1 + i - 1]
    BY <1>3, <2>1, <2>3, SubSeqProperties
  <2> HIDE DEF u, v
  <2>6. /\ Len(u) = n /\ \A i \in 1 .. n: u[i] = ids[i]
        /\ Len(v) = Len(ids) - n
        /\ \A i \in 1 .. Len(ids) - n: v[i] = ids[n + i]
    BY <1>3, <2>4, <2>5
  <2>7. /\ u \o v \in Seq(Tokens) /\ Len(u \o v) = Len(u) + Len(v)
        /\ \A i \in 1 .. Len(u \o v): (u \o v)[i] =
             IF i <= Len(u) THEN u[i] ELSE v[i - Len(u)]
    <3>1. u \in Seq(Tokens) /\ v \in Seq(Tokens)
      BY <2>4, <2>5
    <3> QED
      BY ONLY <3>1, ConcatProperties
  <2> DEFINE w == u \o v
  <2>8. w \in Seq(Tokens) /\ Len(w) = Len(u) + Len(v)
        /\ \A i \in 1 .. Len(w): w[i] =
             IF i <= Len(u) THEN u[i] ELSE v[i - Len(u)]
    BY <2>7
  <2> HIDE DEF w
  <2>9. Len(w) = Len(ids)
    BY <1>3, <2>6, <2>8
  <2>10. \A i \in 1 .. Len(ids): w[i] = ids[i]
    <3> TAKE i \in 1 .. Len(ids)
    <3>1. CASE i <= n
      BY <1>3, <2>6, <2>8, <2>9, <3>1
    <3>2. CASE ~(i <= n)
      <4>1. i - n \in 1 .. Len(ids) - n /\ n + (i - n) = i
        BY <1>3, <3>2
      <4>2. w[i] = v[i - n]
        BY <1>3, <2>6, <2>8, <2>9, <3>2
      <4> QED
        BY <2>6, <4>1, <4>2
    <3> QED
      BY <3>1, <3>2
  <2>11. w = ids
    BY <1>3, <2>8, <2>9, <2>10, SeqEqual
  <2> QED
    BY <2>11 DEF w
<1> QED
  BY <1>5, <1>6

LEMMA AfterStarts ==
  ASSUME IInv, NEW r \in Ranks, at[r] = "decode", ~preserve[r], ~Recodes(r)
  PROVE  After(r) = NoKv \/ Starts(After(r))
<1>1. Ready(r) /\ req \in Asked
  <2>1. req \in Asked
    BY InRequest DEF Running
  <2> QED
    BY <2>1 DEF IInv
<1>2. CASE Attached(r)
  BY <1>1, <1>2, AnsweredIs, AfterIs
<1>3. CASE ~Attached(r)
  BY <1>1, <1>3 DEF After, Attached, Ready
<1> QED
  BY <1>2, <1>3

\* A slot that is left to itself: rank 0's counter is behind, at worst.
LEMMA LeaveEnds ==
  ASSUME IInv, NEW r \in Ranks, at[r] = "decode", ~Recodes(r),
         preserve[r] \/ r = 0,
         Leave(r, After(r))
  PROVE  Ended(r)
<1>1. /\ Ready(r) /\ req \in Asked /\ Types /\ Memory(r)
      /\ plan[r] \in Plans
  <2>1. req \in Asked
    BY InRequest DEF Running
  <2> QED
    BY <2>1 DEF IInv, Types
<1> DEFINE s == [holder[r] EXCEPT !.kv = After(r)]
<1>2. holder[r] \in SlotType /\ holder[r] \in GoodSlots(r)
  BY <1>1 DEF Memory, Memories, Types
<1>3. holder' = [holder EXCEPT ![r] = s]
  BY <1>1 DEF Leave, Types
<1>4. inUse' = [inUse EXCEPT ![r] = FALSE] /\ UNCHANGED <<resident, preserve>>
  BY DEF Leave
<1>5. s \in GoodSlots(r)
  <2>1. CASE ~Attached(r)
    <3>1. After(r) = holder[r].kv
      BY <2>1 DEF After
    <3>2. s = holder[r]
      BY <1>2, <3>1 DEF SlotType
    <3> QED
      BY <1>2, <3>2
  <2>2. CASE Attached(r)
    <3>1. /\ plan[r].kv # NoKv /\ holder[r].kv # NoKv
          /\ After(r) = Answered
      BY <2>2, AfterIs DEF Attached
    <3>2. /\ r = 0 /\ holder[r].len = plan[r].reuse
          /\ plan[r].reuse < Len(req.ids)
      <4>1. holder[r] # Empty
        BY <3>1, EmptyGood
      <4> HIDE DEF s
      <4> QED
        BY <1>1, <3>1, <4>1 DEF Ready
    <3>3. /\ Answered \in Seq(Tokens) /\ Len(req.ids) \in Nat
          /\ Len(req.gen) \in Nat
          /\ Len(Answered) = Len(req.ids) + Len(req.gen)
      BY <1>1, AnsweredIs
    <3>4. holder[r].len < Len(Answered)
      <4>1. plan[r].reuse \in Nat
        BY <1>1 DEF Plans
      <4> DEFINE a == Len(req.ids)
                 b == Len(req.gen)
                 c == Len(Answered)
      <4>2. a \in Nat /\ b \in Nat /\ c = a + b /\ plan[r].reuse < a
        BY <3>2, <3>3
      <4> HIDE DEF a, b, c
      <4>3. plan[r].reuse < c
        BY <4>1, <4>2
      <4> QED
        BY <3>2, <4>3 DEF c
    <3>5. /\ s \in SlotType /\ s.kv = Answered
          /\ s.ids = holder[r].ids /\ s.len = holder[r].len
      <4> DEFINE h == holder[r]
                 a == After(r)
      <4>1. h \in SlotType /\ a \in Seq(Tokens) /\ a = Answered
        BY <1>2, <3>1, <3>3
      <4> HIDE DEF h, a
      <4>2. /\ [h EXCEPT !.kv = a] \in SlotType
            /\ [h EXCEPT !.kv = a].kv = a
            /\ [h EXCEPT !.kv = a].ids = h.ids
            /\ [h EXCEPT !.kv = a].len = h.len
        BY <4>1 DEF SlotType
      <4> QED
        BY <4>1, <4>2 DEF h, a
    <3>6. s.ids = <<>> => s.len = 0
      BY <1>2, <3>1, <3>5 DEF GoodSlots
    <3> HIDE DEF s
    <3>7. s.len <= Len(Answered) /\ s.len # Len(Answered)
      <4> DEFINE c == Len(Answered)
      <4>1. s.len \in Nat /\ c \in Nat /\ s.len < c
        <5>1. holder[r].len \in Nat
          BY <1>2 DEF SlotType
        <5>2. c \in Nat
          BY <1>1, AnsweredIs
        <5>3. s.len = holder[r].len
          BY <3>5
        <5> QED
          BY <3>4, <5>1, <5>2, <5>3
      <4> HIDE DEF c
      <4>2. s.len <= c /\ s.len # c
        BY <4>1
      <4> QED
        BY <4>2 DEF c
    <3> QED
      BY <3>2, <3>5, <3>6, <3>7 DEF GoodSlots, Honest
  <2> QED
    BY <2>1, <2>2
<1> HIDE DEF s
<1> QED
  BY <1>3, <1>4, <1>5, RewriteEnds

LEMMA FinishIInv ==
  ASSUME IInv, NEW r \in Ranks, Finish(r), causes' = {}
  PROVE  IInv'
<1>1. /\ at[r] = "decode" /\ at' = [at EXCEPT ![r] = "finished"]
      /\ UNCHANGED <<plan, req, janitor, count>> /\ ~Recodes(r)
  BY DEF Finish, Blame
<1>2. req \in Asked
  BY <1>1, InRequest DEF Running
<1> DEFINE seen == {Len(req.gen)} \cup {Len(req.gen) - r}
<1>3. /\ seen \in SUBSET Int /\ \A n \in seen: n >= 0 - 1
      /\ {0} \in SUBSET Int /\ \A n \in {0}: n >= 0 - 1
  <2>1. Len(req.gen) \in Nat /\ (r = 0 \/ r = 1)
    BY <1>2, AnsweredIs, RanksAre
  <2> QED
    BY <2>1
<1>4. \/ ~preserve[r] /\ Record(r, After(r), seen)
      \/ preserve[r] /\ Leave(r, After(r))
      \/ KeepPrefix(r, After(r))
      \/ r = 0 /\ Leave(r, After(r))
      \/ KeepPrefix(r, holder[r].kv)
      \/ ~preserve[r] /\ Record(r, holder[r].kv, {0})
      \/ Drop(r, FALSE)
  <2>1. r = 0 \/ r = 1
    BY RanksAre
  <2> QED
    BY <2>1 DEF Finish
<1> HIDE DEF seen
<1>5. CASE ~preserve[r] /\ Record(r, After(r), seen)
  <2>1. After(r) = NoKv \/ Starts(After(r))
    BY <1>1, <1>5, AfterStarts
  <2>2. Ended(r)
    BY <1>2, <1>3, <1>5, <2>1, RecordEnds
  <2> QED
    BY <1>1, <2>2, FinishedIInv
<1>6. CASE ~preserve[r] /\ Record(r, holder[r].kv, {0})
  <2>1. holder[r].kv = NoKv \/ Starts(holder[r].kv)
    BY <1>1, <1>6, HolderStarts
  <2>2. Ended(r)
    BY <1>2, <1>3, <1>6, <2>1, RecordEnds
  <2> QED
    BY <1>1, <2>2, FinishedIInv
<1>7. CASE (preserve[r] \/ r = 0) /\ Leave(r, After(r))
  <2>1. Ended(r)
    BY <1>1, <1>7, LeaveEnds
  <2> QED
    BY <1>1, <2>1, FinishedIInv
<1>8. CASE KeepPrefix(r, After(r))
  <2>1. preserve[r] \/ After(r) = NoKv \/ Starts(After(r))
    BY <1>1, AfterStarts
  <2>2. Ended(r)
    BY <1>2, <1>8, <2>1, KeepPrefixEnds
  <2> QED
    BY <1>1, <2>2, FinishedIInv
<1>9. CASE KeepPrefix(r, holder[r].kv)
  <2>1. preserve[r] \/ holder[r].kv = NoKv \/ Starts(holder[r].kv)
    BY <1>1, HolderStarts
  <2>2. Ended(r)
    BY <1>2, <1>9, <2>1, KeepPrefixEnds
  <2> QED
    BY <1>1, <2>2, FinishedIInv
<1>10. CASE Drop(r, FALSE)
  <2>1. Ended(r)
    BY <1>10, DropEnds
  <2> QED
    BY <1>1, <2>1, FinishedIInv
<1> QED
  BY <1>4, <1>5, <1>6, <1>7, <1>8, <1>9, <1>10

\* The token that a prewarm generates is trimmed off again: if the rank still
\* has its cache at the end it is the prompt's.
LEMMA FinishPrewarmIInv ==
  ASSUME IInv, NEW r \in Ranks, FinishPrewarm(r), causes' = {}
  PROVE  IInv'
<1>1. /\ at[r] = "decode" /\ at' = [at EXCEPT ![r] = "finished"]
      /\ UNCHANGED <<plan, req, janitor, count>> /\ req.kind = "prewarm"
      /\ ~Recodes(r)
  BY DEF FinishPrewarm, Blame
<1>2. /\ req \in Asked /\ Ready(r) /\ Len(req.gen) = 1
  <2>1. BothAt(Running) /\ req \in Asked
    BY <1>1, InRequest DEF Running
  <2> QED
    BY <1>1, <2>1 DEF IInv, Voted
<1>3. CASE plan[r].kv = NoKv
  <2>1. Drop(r, FALSE)
    BY <1>3 DEF FinishPrewarm
  <2>2. Ended(r)
    BY <2>1, DropEnds
  <2> QED
    BY <1>1, <2>2, FinishedIInv
<1>4. CASE plan[r].kv # NoKv
  <2> DEFINE kv == After(r)
             left == IF kv = NoKv THEN kv ELSE SubSeq(kv, 1, Len(kv) - 1)
             n == Len(req.ids)
             s == Slot(left, req.ids, n, n, req.sess)
  <2>1. /\ holder' = [holder EXCEPT ![r] = s]
        /\ inUse' = [inUse EXCEPT ![r] = FALSE]
        /\ UNCHANGED <<resident, preserve>>
    BY <1>4 DEF FinishPrewarm
  <2>2. left = NoKv \/ left = req.ids
    <3>1. CASE holder[r].kv = NoKv
      BY <3>1 DEF After, Attached
    <3>2. CASE holder[r].kv # NoKv
      <4>1. kv = Answered
        BY <1>1, <1>4, <3>2, AfterIs DEF Attached
      <4>2. /\ Answered \in Seq(Tokens) /\ Len(Answered) = n + 1
            /\ n \in Nat \ {0} /\ req.ids \in Seq(Tokens)
            /\ Starts(req.ids)
        BY <1>2, AnsweredIs
      <4>3. Answered # NoKv
        BY <4>2, Sizes
      <4>4. left = SubSeq(Answered, 1, n)
        BY <4>1, <4>2, <4>3
      <4> HIDE DEF n, left
      <4> DEFINE u == SubSeq(Answered, 1, n)
      <4>5. \A i \in 1 .. n: Answered[i] \in Tokens
        BY <4>2
      <4>6. /\ u \in Seq(Tokens) /\ Len(u) = IF 1 <= n THEN n - 1 + 1 ELSE 0
            /\ \A i \in 1 .. n - 1 + 1: u[i] = Answered[1 + i - 1]
        BY <4>2, <4>5, SubSeqProperties
      <4> HIDE DEF u
      <4>7. Len(u) = n /\ \A i \in 1 .. n: u[i] = Answered[i]
        BY <4>2, <4>6
      <4>8. Len(req.ids) = n /\ \A i \in 1 .. n: req.ids[i] = Answered[i]
        BY <4>2 DEF n, Starts, Opens
      <4>9. u = req.ids
        BY <4>2, <4>6, <4>7, <4>8, SeqEqual
      <4> QED
        BY <4>4, <4>9 DEF u
    <3> QED
      BY <3>1, <3>2
  <2>3. /\ req.ids \in Seq(Tokens) /\ n \in Nat \ {0}
        /\ req.sess \in Names
    BY <1>2, AnsweredIs
  <2> HIDE DEF left
  <2>4. s \in SlotType
    BY <2>2, <2>3, SlotTypes
  <2>5. s.kv = left /\ s.ids = req.ids /\ s.len = n
    BY DEF Slot
  <2>6. s \in GoodSlots(r)
    <3>1. req.ids # <<>>
      BY <2>3
    <3> HIDE DEF s
    <3>2. Honest(s)
      BY <2>2, <2>5 DEF Honest
    <3> QED
      BY <2>2, <2>3, <2>4, <2>5, <3>1, <3>2 DEF GoodSlots
  <2> HIDE DEF s
  <2>7. Ended(r)
    BY <2>1, <2>6, RewriteEnds
  <2> QED
    BY <1>1, <2>7, FinishedIInv
<1> QED
  BY <1>3, <1>4

-----------------------------------------------------------------------------
(* The types, whatever has happened.                                        *)

Limits ==
  /\ \A r \in Ranks: Len(resident[r]) < ResidentSlots
  /\ causes \subseteq {"bypassed", "recoded"}
Typed == Types /\ Stages /\ Limits

LEMMA SameTypes ==
  ASSUME Typed
  PROVE  /\ Types /\ Stages /\ Limits
         /\ \A r \in Ranks: /\ holder[r] \in SlotType /\ plan[r] \in Plans
                            /\ resident[r] \in Parked(SlotType)
         /\ Empty \in SlotType /\ NoPlan \in Plans
         /\ <<>> \in Parked(SlotType)
<1>1. Empty \in SlotType /\ NoPlan \in Plans /\ <<>> \in Parked(SlotType)
  BY EmptyGood, Sizes DEF GoodSlots, NoPlan, Plans, Parked
<1> QED
  BY <1>1 DEF Typed, Types, Limits, Parked

LEMMA LimitsStay ==
  ASSUME Typed, \A r \in Ranks: Emptied(r), UNCHANGED causes
  PROVE  Limits'
<1>1. ASSUME NEW r \in Ranks PROVE Len(resident'[r]) < ResidentSlots
  <2>1. Len(resident[r]) < ResidentSlots
    BY DEF Typed, Limits
  <2>2. Len(<<>>) = 0 /\ ResidentSlots \in Nat \ {0}
    BY Sizes
  <2>3. resident'[r] = resident[r] \/ resident'[r] = <<>>
    BY DEF Emptied
  <2>4. CASE resident'[r] = resident[r]
    BY <2>1, <2>4
  <2>5. CASE resident'[r] = <<>>
    BY <2>2, <2>5
  <2> QED
    BY <2>3, <2>4, <2>5
<1> QED
  BY <1>1 DEF Typed, Limits

LEMMA TypedAside ==
  ASSUME Typed, MemoryTypes', \A r \in Ranks: Emptied(r),
         UNCHANGED <<at, plan, req, count, causes>>,
         janitor' \in {"off", "idle release"}
  PROVE  Typed'
<1>1. Types' /\ Stages'
  BY DEF Typed, Types, MemoryTypes, Stages, Idle, BothAt
<1>2. Limits'
  BY LimitsStay
<1> QED
  BY <1>1, <1>2 DEF Typed

LEMMA OutsideTyped ==
  ASSUME Typed,
         \/ \E r \in Ranks: Expire(r)
         \/ Reset \/ JanitorBroadcast \/ JanitorRelease
  PROVE  Typed'
<1>1. Types /\ janitor \in {"off", "idle release"} /\ TRUE \in BOOLEAN
  BY DEF Typed, Types
<1>2. CASE \E r \in Ranks: Expire(r)
  BY <1>1, <1>2, DropEmpties, TypedAside DEF Expire
<1>3. CASE Reset
  BY <1>1, <1>3, DropBothEmpties, TypedAside DEF Reset
<1>4. CASE JanitorBroadcast
  <2>1. MemoryTypes' /\ \A q \in Ranks: Emptied(q)
    <3>1. CASE Drop(1, TRUE)
      BY <1>1, <3>1, RanksAre, DropEmpties
    <3>2. CASE UNCHANGED <<holder, resident, inUse, preserve>>
      BY <1>1, <3>2, NothingEmpties DEF Types
    <3> QED
      BY <1>4, <3>1, <3>2 DEF JanitorBroadcast
  <2> QED
    BY <1>1, <1>4, <2>1, TypedAside DEF JanitorBroadcast
<1>5. CASE JanitorRelease
  BY <1>1, <1>5, RanksAre, DropEmpties, TypedAside DEF JanitorRelease
<1> QED
  BY <1>2, <1>3, <1>4, <1>5

LEMMA CloseTyped ==
  ASSUME Typed, Close, MemoryTypes', \A r \in Ranks: Emptied(r),
         UNCHANGED <<janitor, count, causes>>
  PROVE  Typed'
<1>1. Types' /\ Limits'
  BY SameTypes, LimitsStay DEF Types, MemoryTypes, Close
<1>2. Stages'
  <2>1. \A r \in Ranks: at'[r] = "idle"
    BY DEF Close
  <2> QED
    BY <2>1 DEF Stages, Idle, BothAt, Close, NoRequest
<1> QED
  BY <1>1, <1>2 DEF Typed

LEMMA EndTyped ==
  ASSUME Typed, Abort \/ Complete \/ CompletePrewarm
  PROVE  Typed'
<1>1. Types
  BY DEF Typed
<1>2. MemoryTypes' /\ \A q \in Ranks: Emptied(q)
  <2>1. CASE Abort
    <3>1. inUse' \in [Ranks -> BOOLEAN]
      BY <2>1 DEF Abort
    <3> QED
      BY <1>1, <2>1, <3>1, NothingEmpties DEF Abort
  <2>2. CASE DropBoth(FALSE)
    BY <1>1, <2>2, DropBothEmpties
  <2>3. CASE UNCHANGED <<holder, resident, inUse, preserve>>
    BY <1>1, <2>3, NothingEmpties DEF Types
  <2> QED
    BY <2>1, <2>2, <2>3 DEF Complete, CompletePrewarm
<1>3. Close /\ UNCHANGED <<janitor, count, causes>>
  BY DEF Abort, Complete, CompletePrewarm
<1> QED
  BY <1>2, <1>3, CloseTyped

LEMMA ArriveTyped ==
  ASSUME Typed, NEW kind \in {"chat", "prewarm"}, NEW p \in Prompts,
         Arrive(kind, p)
  PROVE  Typed'
<1>1. p.sess \in Names /\ p.ids \in Seq(Tokens) \ {<<>>} /\ <<>> \in Seq(Tokens)
  BY Sizes
<1>2. req' \in Asked /\ req'.kind # "none"
  BY <1>1 DEF Arrive, Asked
<1>3. count' \in 0 .. MaxRequests
  <2>1. count \in 0 .. MaxRequests
    BY DEF Typed, Types
  <2>2. count < MaxRequests /\ count' = count + 1
    BY DEF Arrive
  <2> QED
    BY <2>1, <2>2, Sizes
<1>4. /\ \A r \in Ranks: at'[r] = "start"
      /\ at' \in [Ranks -> {"idle"} \cup Before \cup Running]
  BY DEF Arrive, Before
<1>5. Types' /\ Limits'
  BY <1>2, <1>3, <1>4 DEF Typed, Types, Limits, Arrive
<1>6. Stages'
  BY <1>2, <1>4 DEF Stages, Idle, BothAt, Before
<1> QED
  BY <1>5, <1>6 DEF Typed

\* What a trim leaves of a cache, down to a part of what is counted.
LEMMA TrimmedType ==
  ASSUME NEW h \in SlotType, h.kv # NoKv, NEW n \in 0 .. h.len
  PROVE  Trimmed(h, n) \in SlotType
<1> DEFINE k == Len(h.kv) - Smaller(h.len - n, Len(h.kv))
           kv == SubSeq(h.kv, 1, k)
<1>1. h.kv \in Seq(Tokens) /\ h.len \in Nat /\ Len(h.kv) \in Nat
  BY DEF SlotType
<1>2. k \in 0 .. Len(h.kv)
  BY <1>1 DEF Smaller
<1> HIDE DEF k
<1>3. \A i \in 1 .. k: h.kv[i] \in Tokens
  BY <1>1, <1>2
<1>4. kv \in Seq(Tokens)
  BY <1>1, <1>2, <1>3, SubSeqProperties
<1>5. Trimmed(h, n) = [h EXCEPT !.kv = kv, !.len = n]
  BY DEF Trimmed, k
<1>6. n \in Nat
  BY <1>1
<1> HIDE DEF kv
<1> QED
  BY <1>4, <1>5, <1>6 DEF SlotType

\* The part that is reused is counted, or the cache is not trimmed.
LEMMA ReuseType ==
  ASSUME NEW p, Asks(p), NEW m \in Memories(SlotType), m.live.kv # NoKv,
         NEW trims
  PROVE  LET new == Reuse(m, p, Common(m.live.ids, p.ids), trims)
         IN  \/ \E left \in Memories(SlotType): new = Rebuild(left, p.sess)
             \/ \E left \in Memories(SlotType): new = Using(left)
<1> DEFINE h == m.live
           reuse == Common(h.ids, p.ids)
           n == Len(p.ids)
           final == Backtracked(n, reuse)
           first == [m EXCEPT !.live = Trimmed(@, reuse)]
           last == [m EXCEPT !.live = Trimmed(@, final)]
<1>1. /\ h \in SlotType /\ h.len \in Nat /\ h.ids \in Seq(Tokens)
      /\ h.kv # NoKv
  BY DEF Memories, SlotType
<1>2. n \in Nat \ {0} /\ p.ids \in Seq(Tokens)
  BY DEF Asks
<1>3. reuse \in 0 .. n
  <2> DEFINE ids == h.ids
  <2>1. ids \in Seq(Tokens) /\ p.ids \in Seq(Tokens)
    BY <1>1, <1>2
  <2> HIDE DEF ids
  <2>2. Common(ids, p.ids) \in 0 .. Smaller(Len(ids), Len(p.ids))
    BY <2>1, CommonIs
  <2>3. Len(ids) \in Nat /\ Len(p.ids) \in Nat
    BY <2>1
  <2> QED
    BY <2>2, <2>3 DEF Smaller, ids
<1> HIDE DEF reuse
<1>4. final \in 0 .. reuse
  BY <1>2, <1>3, BacktrackedIs
<1> HIDE DEF final, n
<1>5. Stash(m) \in Memories(SlotType)
  BY StashType
<1>6. ~(h.len < reuse) =>
        first \in Memories(SlotType) /\ last \in Memories(SlotType)
  <2>1. SUFFICES ASSUME ~(h.len < reuse)
                 PROVE  /\ first \in Memories(SlotType)
                        /\ last \in Memories(SlotType)
    OBVIOUS
  <2>2. reuse \in 0 .. h.len /\ final \in 0 .. h.len
    BY <1>1, <1>3, <1>4, <2>1
  <2>3. Trimmed(h, reuse) \in SlotType /\ Trimmed(h, final) \in SlotType
    BY <1>1, <2>2, TrimmedType
  <2> QED
    BY <2>3 DEF Memories
<1>7. ~(h.len < reuse) => Stash(first) \in Memories(SlotType)
  BY <1>6, StashType
<1>8. \/ Reuse(m, p, reuse, trims) = Rebuild(Stash(m), p.sess)
      \/ /\ ~(h.len < reuse)
         /\ \/ Reuse(m, p, reuse, trims) = Rebuild(Stash(first), p.sess)
            \/ Reuse(m, p, reuse, trims) = Using(last)
  BY DEF Reuse, final, n
<1> HIDE DEF first, last
<1> QED
  BY <1>5, <1>6, <1>7, <1>8 DEF reuse

LEMMA PreparedType ==
  ASSUME NEW p, Asks(p), NEW before \in Memories(SlotType), NEW trims
  PROVE  LET new == Prepared(before, p, trims)
         IN  /\ [live |-> new.live, parked |-> new.parked]
                  \in Memories(SlotType)
             /\ new.keeps \in BOOLEAN /\ new.uses \in BOOLEAN
<1> DEFINE Fine(new) == /\ [live |-> new.live, parked |-> new.parked]
                             \in Memories(SlotType)
                        /\ new.keeps \in BOOLEAN /\ new.uses \in BOOLEAN
           m == SwitchSession(before, p.sess)
           reuse == Common(m.live.ids, p.ids)
<1>1. p.sess \in Names /\ Empty \in SlotType /\ Fresh(p.sess) \in SlotType
  BY EmptyGood DEF Asks, GoodSlots
<1>2. m \in Memories(SlotType)
  BY <1>1, SwitchType
<1> HIDE DEF m
<1>3. Stash(m) \in Memories(SlotType)
  BY <1>2, StashType
<1>4. \A left \in Memories(SlotType):
        /\ Fine(Using(left)) /\ Fine(Rebuild(left, p.sess))
        /\ Fine(Bypass(left, TRUE)) /\ Fine(Bypass(left, FALSE))
  BY <1>1 DEF Using, Rebuild, Bypass, Memories
<1>5. Fine(Cold(m, p.sess))
  <2> DEFINE kv == IF m.live.kv = NoKv THEN <<>> ELSE m.live.kv
             left == [m EXCEPT !.live = [Fresh(p.sess) EXCEPT !.kv = kv]]
  <2>1. kv \in Seq(Tokens) \cup {NoKv}
    BY <1>2, Sizes DEF Memories, SlotType
  <2>2. Cold(m, p.sess) = Using(left)
    BY DEF Cold
  <2> HIDE DEF kv
  <2>3. [Fresh(p.sess) EXCEPT !.kv = kv] \in SlotType
    BY <1>1, <2>1 DEF SlotType
  <2>4. left \in Memories(SlotType)
    BY <1>2, <2>3 DEF Memories
  <2> HIDE DEF left, Fine
  <2> QED
    BY <1>4, <2>2, <2>4
<1> HIDE DEF Fine
<1>6. m.live.kv # NoKv => Fine(Reuse(m, p, reuse, trims))
  <2> DEFINE new == Reuse(m, p, reuse, trims)
  <2>1. m.live.kv # NoKv =>
          \/ \E left \in Memories(SlotType): new = Rebuild(left, p.sess)
          \/ \E left \in Memories(SlotType): new = Using(left)
    BY <1>2, ReuseType
  <2> HIDE DEF new
  <2>2. m.live.kv # NoKv => Fine(new)
    BY <1>4, <2>1
  <2> QED
    BY <2>2 DEF new
<1>7. \/ Prepared(before, p, trims) \in
           {Cold(m, p.sess), Rebuild(m, p.sess), Rebuild(Stash(m), p.sess),
            Bypass(m, TRUE), Bypass(m, FALSE)}
      \/ /\ m.live.kv # NoKv
         /\ Prepared(before, p, trims) = Reuse(m, p, reuse, trims)
  BY DEF Prepared, m
<1> HIDE DEF reuse
<1>8. Fine(Prepared(before, p, trims))
  BY <1>2, <1>3, <1>4, <1>5, <1>6, <1>7
<1> QED
  BY <1>8 DEF Fine

\* One rank goes on, on its side of the vote.
Kept ==
  /\ holder \in [Ranks -> SlotType] /\ resident \in [Ranks -> Parked(SlotType)]
  /\ inUse \in [Ranks -> BOOLEAN] /\ preserve \in [Ranks -> BOOLEAN]

LEMMA RankTyped ==
  ASSUME Typed, NEW r \in Ranks, Kept', plan' \in [Ranks -> Plans],
         NEW where, at' = [at EXCEPT ![r] = where],
         \/ at[r] \in Before /\ where \in Before
         \/ at[r] \in Running /\ where \in Running,
         UNCHANGED <<req, janitor, count>>,
         causes' \subseteq {"bypassed", "recoded"}
  PROVE  Typed'
<1>1. /\ Types /\ at' \in [Ranks -> {"idle"} \cup Before \cup Running]
      /\ at'[r] = where /\ \A q \in Ranks \ {r}: at'[q] = at[q]
  BY DEF Typed, Types
<1>2. Types' /\ Limits'
  <2>1. resident' \in [Ranks -> Seq(SlotType)]
        /\ \A q \in Ranks: Len(resident'[q]) < ResidentSlots
    BY DEF Kept, Parked
  <2> QED
    BY <1>1, <2>1 DEF Types, Limits, Kept
<1>3. Stages'
  <2>1. /\ at[r] \in Before => ~Idle /\ BothAt(Before)
        /\ at[r] \in Running => ~Idle /\ BothAt(Running)
    BY DEF Typed, Stages, BothAt, Before, Running
  <2>2. Idle' = Idle
    BY DEF Idle
  <2> QED
    BY <1>1, <2>1, <2>2 DEF Stages, BothAt
<1> QED
  BY <1>2, <1>3 DEF Typed

LEMMA Requested ==
  ASSUME Typed, NEW r \in Ranks, at[r] # "idle"
  PROVE  /\ req \in Asked /\ ~Idle /\ Asks(req)
         /\ at[r] \in Before => BothAt(Before)
         /\ at[r] \in Running => BothAt(Running)
<1>1. ~Idle
  BY DEF Typed, Stages, BothAt
<1>2. req \in Asked
  <2>1. NoRequest.kind = "none"
    BY DEF NoRequest
  <2>2. req \in Asked \cup {NoRequest}
    BY DEF Typed, Types
  <2> QED
    BY <1>1, <2>1, <2>2 DEF Idle
<1> QED
  BY <1>1, <1>2 DEF Typed, Stages, BothAt, Before, Running, Asked, Asks

LEMMA KeptNow == Typed => Kept /\ plan \in [Ranks -> Plans]
                       /\ causes \subseteq {"bypassed", "recoded"}
  BY DEF Typed, Types, Limits, Kept, Parked

LEMMA PrepareTyped ==
  ASSUME Typed, NEW r \in Ranks, Prepare(r)
  PROVE  Typed'
<1>1. at[r] = "start" /\ Asks(req)
  BY Requested DEF Prepare
<1>2. [live |-> holder[r], parked |-> resident[r]] \in Memories(SlotType)
  BY SameTypes DEF Memories
<1>3. PICK trims \in {"ok", "first", "later"}:
        LET new == Prepared([live |-> holder[r], parked |-> resident[r]],
                            req, trims)
        IN  /\ holder' = [holder EXCEPT ![r] = new.live]
            /\ resident' = [resident EXCEPT ![r] = new.parked]
            /\ preserve' = [preserve EXCEPT ![r] = new.keeps]
            /\ plan' = [plan EXCEPT ![r] =
                 IF new.uses THEN [kv |-> new.live.kv, reuse |-> new.live.len]
                 ELSE NoPlan]
            /\ Blame("bypassed", ~new.uses /\ ~new.keeps)
  BY DEF Prepare
<1> DEFINE new == Prepared([live |-> holder[r], parked |-> resident[r]],
                           req, trims)
<1>4. /\ [live |-> new.live, parked |-> new.parked] \in Memories(SlotType)
      /\ new.keeps \in BOOLEAN /\ new.uses \in BOOLEAN
  BY <1>1, <1>2, PreparedType
<1>5. /\ holder' = [holder EXCEPT ![r] = new.live]
      /\ resident' = [resident EXCEPT ![r] = new.parked]
      /\ preserve' = [preserve EXCEPT ![r] = new.keeps]
      /\ plan' = [plan EXCEPT ![r] =
           IF new.uses THEN [kv |-> new.live.kv, reuse |-> new.live.len]
           ELSE NoPlan]
      /\ causes' \subseteq causes \cup {"bypassed"}
      /\ at' = [at EXCEPT ![r] = "prepared"]
      /\ inUse' = [inUse EXCEPT ![r] = TRUE]
      /\ UNCHANGED <<req, janitor, count>>
  BY <1>3 DEF Prepare, Blame
<1> HIDE DEF new
<1>6. new.live \in SlotType /\ new.parked \in Parked(SlotType)
  BY <1>4 DEF Memories
<1>7. Kept'
  BY <1>4, <1>5, <1>6, KeptNow DEF Kept
<1>8. plan' \in [Ranks -> Plans]
  <2>1. [kv |-> new.live.kv, reuse |-> new.live.len] \in Plans
    BY <1>6 DEF Plans, SlotType
  <2> QED
    BY <1>5, <2>1, KeptNow, SameTypes
<1>9. causes' \subseteq {"bypassed", "recoded"}
  BY <1>5, KeptNow
<1> QED
  BY <1>1, <1>5, <1>7, <1>8, <1>9, RankTyped DEF Before

LEMMA PrepareFailsTyped ==
  ASSUME Typed, NEW r \in Ranks, PrepareFails(r)
  PROVE  Typed'
<1>1. Kept' /\ plan' \in [Ranks -> Plans]
      /\ causes' \subseteq {"bypassed", "recoded"}
  BY KeptNow DEF PrepareFails, Kept
<1> QED
  BY <1>1, RankTyped DEF PrepareFails, Before

LEMMA AdmitTyped ==
  ASSUME Typed, NEW r \in Ranks, Admit(r)
  PROVE  Typed'
<1>0. PICK n \in 0 .. Len(resident[r]):
        \E left \in [1 .. n -> DOMAIN resident[r]]:
          resident' = [resident EXCEPT ![r] = [i \in 1 .. n |-> @[left[i]]]]
  BY DEF Admit
<1>1. PICK left \in [1 .. n -> DOMAIN resident[r]]:
        resident' = [resident EXCEPT ![r] = [i \in 1 .. n |-> @[left[i]]]]
  BY <1>0
<1> DEFINE kept == [i \in 1 .. n |-> resident[r][left[i]]]
<1>2. resident[r] \in Seq(SlotType) /\ Len(resident[r]) < ResidentSlots
  BY SameTypes DEF Parked
<1>3. kept \in Parked(SlotType)
  <2>1. n \in Nat /\ n <= Len(resident[r]) /\ Len(resident[r]) \in Nat
    BY <1>2
  <2>2. \A i \in 1 .. n: resident[r][left[i]] \in SlotType
    BY <1>1, <1>2
  <2>3. kept \in [1 .. n -> SlotType]
    BY <2>2
  <2> HIDE DEF kept
  <2>4. kept \in Seq(SlotType) /\ Len(kept) = n
    BY <2>1, <2>3, SeqDef
  <2> QED
    BY <1>2, <2>1, <2>4, Sizes DEF Parked
<1>4. resident' = [resident EXCEPT ![r] = kept]
  BY <1>1, KeptNow DEF Kept
<1> HIDE DEF kept
<1>5. holder' = holder \/ holder' = [holder EXCEPT ![r] = Empty]
  BY DEF Admit
<1>6. Kept' /\ plan' \in [Ranks -> Plans]
      /\ causes' \subseteq {"bypassed", "recoded"}
  BY <1>3, <1>4, <1>5, KeptNow, SameTypes DEF Admit, Kept
<1> QED
  BY <1>6, RankTyped DEF Admit, Running

LEMMA ConsensusTyped ==
  ASSUME Typed, Consensus
  PROVE  Typed'
<1>1. /\ Types /\ ~Idle
      /\ StartDecode("admit", Ends, Generations)
      /\ UNCHANGED <<janitor, causes, count>>
  BY RanksAre, Requested DEF Typed, Consensus, BothAt
<1>2. /\ req' \in Asked /\ req'.kind = req.kind
      /\ at' \in [Ranks -> {"idle"} \cup Before \cup Running]
      /\ \A r \in Ranks: at'[r] = "admit"
  <2>1. "admit" \in Running
    BY DEF Running
  <2> QED
    BY <1>1, <2>1, StartDecodeIs
<1>3. MemoryTypes' /\ (\A q \in Ranks: Emptied(q)) /\ plan' \in [Ranks -> Plans]
  <2>1. CASE UNCHANGED <<holder, resident, inUse, preserve, plan>>
    BY <1>1, <2>1, NothingEmpties DEF Types
  <2>2. CASE DropBoth(FALSE) /\ plan' = [r \in Ranks |-> NoPlan]
    BY <1>1, <2>2, DropBothEmpties, SameTypes
  <2> QED
    BY <2>1, <2>2 DEF Consensus
<1>4. Types' /\ Limits'
  BY <1>1, <1>2, <1>3, LimitsStay DEF Types, MemoryTypes
<1>5. Stages'
  BY <1>1, <1>2 DEF Stages, Idle, BothAt, Running
<1> QED
  BY <1>4, <1>5 DEF Typed

LEMMA PrewarmVoteTyped ==
  ASSUME Typed, PrewarmVote
  PROVE  Typed'
<1>1. Types /\ req.kind = "prewarm" /\ UNCHANGED <<janitor, causes, count>>
  BY DEF Typed, PrewarmVote
<1>2. CASE \E r \in Ranks: Skips(r)
  <2> DEFINE lost == {r \in Ranks: at[r] = "failed" /\ ~preserve[r]}
  <2>1. /\ Close /\ inUse' = [r \in Ranks |-> FALSE]
        /\ UNCHANGED <<resident, preserve>>
        /\ holder' = [r \in Ranks |-> IF r \in lost THEN Empty ELSE holder[r]]
    BY <1>2 DEF PrewarmVote
  <2>2. MemoryTypes' /\ \A q \in Ranks: Emptied(q)
    BY <1>1, <2>1, SameTypes DEF Types, MemoryTypes, Emptied
  <2> QED
    BY <1>1, <2>1, <2>2, CloseTyped
<1>3. CASE Close /\ DropBoth(TRUE)
  BY <1>1, <1>3, DropBothEmpties, CloseTyped
<1>4. CASE /\ StartDecode("decode", {"done"}, {g \in Generations: Len(g) = 1})
           /\ preserve' = [r \in Ranks |-> FALSE]
           /\ UNCHANGED <<holder, resident, inUse, plan>>
  <2> DEFINE gens == {g \in Generations: Len(g) = 1}
  <2>1. /\ req' \in Asked /\ req'.kind = req.kind
        /\ at' \in [Ranks -> {"idle"} \cup Before \cup Running]
        /\ \A r \in Ranks: at'[r] = "decode"
    <3>1. /\ "decode" \in Running /\ {"done"} \subseteq Ends
          /\ gens \subseteq Generations /\ ~Idle
      BY <1>1 DEF Running, Ends, Idle
    <3> HIDE DEF gens
    <3> QED
      BY <1>1, <1>4, <3>1, StartDecodeIs DEF gens
  <2>2. Types' /\ Limits'
    BY <1>1, <1>4, <2>1 DEF Typed, Types, Limits
  <2>3. Stages'
    BY <1>1, <2>1 DEF Stages, Idle, BothAt, Running
  <2> QED
    BY <2>2, <2>3 DEF Typed
<1> QED
  BY <1>2, <1>3, <1>4 DEF PrewarmVote

\* A cache is a sequence of tokens, whatever is fed.
Caches == Seq(Tokens) \cup {NoKv}

LEMMA BeginningType ==
  ASSUME NEW s \in Seq(Tokens), NEW m \in Nat, NEW n \in Int, n <= Len(s)
  PROVE  SubSeq(s, m + 1, n) \in Seq(Tokens)
<1>1. \A i \in m + 1 .. n: s[i] \in Tokens
  OBVIOUS
<1>2. m + 1 \in Int
  OBVIOUS
<1> QED
  BY <1>1, <1>2, SubSeqProperties

LEMMA AfterType ==
  ASSUME Typed, NEW r \in Ranks, req \in Asked
  PROVE  After(r) \in Caches
<1>1. /\ holder[r].kv \in Caches /\ plan[r].kv \in Caches
      /\ plan[r].reuse \in Nat
  BY SameTypes DEF SlotType, Plans, Caches
<1>2. CASE Attached(r)
  <2> DEFINE ids == req.ids
             rest == SubSeq(ids, plan[r].reuse + 1, Len(ids))
  <2>1. ids \in Seq(Tokens) /\ req.gen \in Seq(Tokens) /\ Len(ids) \in Nat
    BY DEF Asked
  <2>2. rest \in Seq(Tokens)
    <3> HIDE DEF ids
    <3> QED
      BY <1>1, <2>1, BeginningType
  <2>3. Feed(r) = rest \/ (rest \in DOMAIN Recoded /\ Feed(r) = Recoded[rest])
    BY DEF Feed, Fed
  <2>4. Feed(r) \in Seq(Tokens)
    BY <2>2, <2>3, SizesAssumption DEF SizesAssumption
  <2>5. plan[r].kv \in Seq(Tokens)
    BY <1>1, <1>2 DEF Attached, Caches
  <2>6. plan[r].kv \o Feed(r) \in Seq(Tokens)
    BY <2>4, <2>5, ConcatProperties
  <2>7. plan[r].kv \o Feed(r) \o req.gen \in Seq(Tokens)
    BY <2>1, <2>6, ConcatProperties
  <2> QED
    BY <1>2, <2>7 DEF After, Caches
<1>3. CASE ~Attached(r)
  BY <1>1, <1>3 DEF After
<1> QED
  BY <1>2, <1>3

LEMMA RecordedType ==
  ASSUME Typed, NEW r \in Ranks, req \in Asked, NEW kv \in Caches,
         NEW n \in Int, n >= 0 - 1
  PROVE  Recorded(r, kv, n) \in SlotType
<1> DEFINE seen == IF KeyLimit = 0 THEN n ELSE Smaller(n, KeyLimit)
           key == IF req.full THEN req.ids \o Take(req.gen, seen) ELSE req.ids
           sess == IF req.sess = NoSession THEN holder[r].sess ELSE req.sess
<1>1. /\ req.ids \in Seq(Tokens) /\ req.gen \in Seq(Tokens)
      /\ Len(req.ids) \in Nat \ {0} /\ req.sess \in Names
  BY AnsweredIs
<1>2. sess \in Names
  <2>1. holder[r].sess \in Names
    BY SameTypes DEF SlotType, Names
  <2> QED
    BY <1>1, <2>1
<1>3. seen \in Int
  BY Sizes DEF Smaller
<1> HIDE DEF seen, sess
<1>4. key \in Seq(Tokens)
  <2>1. Take(req.gen, seen) \in Seq(Tokens)
    BY <1>1, <1>3, TakeIs
  <2>2. req.ids \o Take(req.gen, seen) \in Seq(Tokens)
    BY <1>1, <2>1, ConcatProperties
  <2> QED
    BY <1>1, <2>2
<1> HIDE DEF key
<1>5. CASE kv = NoKv
  <2>1. Len(req.ids) + n \in Nat /\ Len(req.ids) \in Nat
    BY <1>1
  <2>2. Slot(NoKv, key, Len(req.ids) + n, Len(req.ids), sess) \in SlotType
    BY <1>2, <1>4, <2>1, SlotTypes
  <2> QED
    BY <1>5, <2>2 DEF Recorded, key, seen, sess
<1>6. CASE kv # NoKv
  <2>1. kv \in Seq(Tokens) /\ Len(kv) \in Nat /\ Len(req.ids) \in Nat
    BY <1>1, <1>6 DEF Caches
  <2>2. Take(key, Len(kv)) \in Seq(Tokens)
    BY <1>4, <2>1, TakeIs
  <2>3. Slot(kv, Take(key, Len(kv)), Len(kv), Len(req.ids), sess) \in SlotType
    BY <1>2, <2>1, <2>2, SlotTypes
  <2> QED
    BY <1>6, <2>3 DEF Recorded, key, seen, sess
<1> QED
  BY <1>5, <1>6

LEMMA RewriteKept ==
  ASSUME Typed, NEW r \in Ranks, NEW s \in SlotType,
         holder' = [holder EXCEPT ![r] = s],
         inUse' = [inUse EXCEPT ![r] = FALSE], UNCHANGED <<resident, preserve>>
  PROVE  Kept'
  BY KeptNow DEF Kept

LEMMA DropKept ==
  ASSUME Typed, NEW r \in Ranks, NEW all \in BOOLEAN, Drop(r, all)
  PROVE  Kept'
  BY KeptNow, SameTypes DEF Kept, Drop

LEMMA RecordKept ==
  ASSUME Typed, NEW r \in Ranks, req \in Asked, NEW kv \in Caches,
         NEW counts \in SUBSET Int, \A n \in counts: n >= 0 - 1,
         Record(r, kv, counts)
  PROVE  Kept'
<1>1. PICK n \in counts:
        \/ /\ holder' = [holder EXCEPT ![r] = Empty]
           /\ resident' = [resident EXCEPT ![r] = <<>>]
           /\ preserve' = [preserve EXCEPT ![r] = FALSE]
        \/ /\ holder' = [holder EXCEPT ![r] = Recorded(r, kv, n)]
           /\ UNCHANGED <<resident, preserve>>
  BY DEF Record
<1>2. inUse' = [inUse EXCEPT ![r] = FALSE]
  BY DEF Record
<1>3. Recorded(r, kv, n) \in SlotType
  BY RecordedType
<1> QED
  BY <1>1, <1>2, <1>3, KeptNow, SameTypes DEF Kept

LEMMA LeaveKept ==
  ASSUME Typed, NEW r \in Ranks, NEW kv \in Caches, Leave(r, kv)
  PROVE  Kept'
<1>1. [holder[r] EXCEPT !.kv = kv] \in SlotType
  BY SameTypes DEF SlotType, Caches
<1>2. holder' = [holder EXCEPT ![r] = [holder[r] EXCEPT !.kv = kv]]
  BY KeptNow DEF Leave, Kept
<1> QED
  BY <1>1, <1>2, RewriteKept DEF Leave

LEMMA KeepPrefixKept ==
  ASSUME Typed, NEW r \in Ranks, req \in Asked, NEW kv \in Caches,
         KeepPrefix(r, kv)
  PROVE  Kept'
<1>1. CASE Drop(r, FALSE)
  BY <1>1, DropKept
<1>2. CASE ~Drop(r, FALSE)
  <2> DEFINE n == Len(req.ids)
             s == Slot(SubSeq(kv, 1, n), req.ids, n, n, holder[r].sess)
  <2>1. /\ kv # NoKv /\ n <= Len(kv)
        /\ holder' = [holder EXCEPT ![r] =
                        Slot(SubSeq(kv, 1, n), req.ids, n, n, @.sess)]
        /\ inUse' = [inUse EXCEPT ![r] = FALSE]
        /\ UNCHANGED <<resident, preserve>>
    BY <1>2 DEF KeepPrefix
  <2>2. /\ kv \in Seq(Tokens) /\ n \in Nat /\ req.ids \in Seq(Tokens)
        /\ holder[r].sess \in Names
    BY <2>1, SameTypes DEF Caches, Asked, SlotType, Names
  <2>3. holder' = [holder EXCEPT ![r] = s]
    BY <2>1, KeptNow DEF Kept
  <2> HIDE DEF n
  <2>4. SubSeq(kv, 0 + 1, n) \in Seq(Tokens)
    BY <2>1, <2>2, BeginningType
  <2> DEFINE u == SubSeq(kv, 1, n)
  <2>5. /\ u \in Seq(Tokens) \cup {NoKv}
        /\ s = Slot(u, req.ids, n, n, holder[r].sess)
    BY <2>4
  <2> HIDE DEF u
  <2>6. s \in SlotType
    BY <2>2, <2>5, SlotTypes
  <2> HIDE DEF s
  <2> QED
    BY <2>1, <2>3, <2>6, RewriteKept
<1> QED
  BY <1>1, <1>2

LEMMA FinishTyped ==
  ASSUME Typed, NEW r \in Ranks, Finish(r)
  PROVE  Typed'
<1>1. /\ at[r] = "decode" /\ at' = [at EXCEPT ![r] = "finished"]
      /\ UNCHANGED <<plan, req, janitor, count>>
      /\ causes' \subseteq causes \cup {"recoded"}
  BY DEF Finish, Blame
<1>2. req \in Asked
  BY <1>1, Requested DEF Running
<1>3. After(r) \in Caches /\ holder[r].kv \in Caches
  BY <1>2, AfterType, SameTypes DEF SlotType, Caches
<1> DEFINE seen == {Len(req.gen)} \cup {Len(req.gen) - r}
<1>4. /\ seen \in SUBSET Int /\ \A n \in seen: n >= 0 - 1
      /\ {0} \in SUBSET Int /\ \A n \in {0}: n >= 0 - 1
  <2>1. Len(req.gen) \in Nat /\ (r = 0 \/ r = 1)
    BY <1>2, AnsweredIs, RanksAre
  <2> QED
    BY <2>1
<1>5. \E kv \in {After(r), holder[r].kv}:
        \/ Record(r, kv, seen) \/ Record(r, kv, {0}) \/ Leave(r, kv)
        \/ KeepPrefix(r, kv) \/ Drop(r, FALSE)
  BY DEF Finish
<1> HIDE DEF seen
<1>6. PICK kv \in Caches:
        \/ Record(r, kv, seen) \/ Record(r, kv, {0}) \/ Leave(r, kv)
        \/ KeepPrefix(r, kv) \/ Drop(r, FALSE)
  BY <1>3, <1>5
<1>7. Kept'
  <2>1. CASE Record(r, kv, seen)
    BY <1>2, <1>4, <2>1, RecordKept
  <2>2. CASE Record(r, kv, {0})
    BY <1>2, <1>4, <2>2, RecordKept
  <2>3. CASE Leave(r, kv)
    BY <2>3, LeaveKept
  <2>4. CASE KeepPrefix(r, kv)
    BY <1>2, <2>4, KeepPrefixKept
  <2>5. CASE Drop(r, FALSE)
    BY <2>5, DropKept
  <2> QED
    BY <1>6, <2>1, <2>2, <2>3, <2>4, <2>5
<1>8. plan' \in [Ranks -> Plans] /\ causes' \subseteq {"bypassed", "recoded"}
  BY <1>1, KeptNow
<1> QED
  BY <1>1, <1>7, <1>8, RankTyped DEF Running

LEMMA FinishPrewarmTyped ==
  ASSUME Typed, NEW r \in Ranks, FinishPrewarm(r)
  PROVE  Typed'
<1>1. /\ at[r] = "decode" /\ at' = [at EXCEPT ![r] = "finished"]
      /\ UNCHANGED <<plan, req, janitor, count>>
      /\ causes' \subseteq causes \cup {"recoded"}
  BY DEF FinishPrewarm, Blame
<1>2. req \in Asked
  BY <1>1, Requested DEF Running
<1>3. ASSUME plan[r].kv # NoKv PROVE Kept'
  <2> DEFINE kv == After(r)
             left == IF kv = NoKv THEN kv ELSE SubSeq(kv, 1, Len(kv) - 1)
             n == Len(req.ids)
             s == Slot(left, req.ids, n, n, req.sess)
  <2>1. /\ holder' = [holder EXCEPT ![r] = s]
        /\ inUse' = [inUse EXCEPT ![r] = FALSE]
        /\ UNCHANGED <<resident, preserve>>
    BY <1>3 DEF FinishPrewarm
  <2>2. kv \in Caches
    BY <1>2, AfterType
  <2> HIDE DEF kv
  <2>3. left \in Caches
    <3>1. CASE kv # NoKv
      <4>1. kv \in Seq(Tokens) /\ Len(kv) - 1 \in Int /\ Len(kv) - 1 <= Len(kv)
        BY <2>2, <3>1 DEF Caches
      <4>2. SubSeq(kv, 0 + 1, Len(kv) - 1) \in Seq(Tokens)
        BY <4>1, BeginningType
      <4> QED
        BY <3>1, <4>2 DEF Caches
    <3> QED
      BY <2>2, <3>1
  <2>4. req.ids \in Seq(Tokens) /\ n \in Nat /\ req.sess \in Names
    BY <1>2 DEF Asked
  <2> HIDE DEF left, n
  <2>5. s \in SlotType
    BY <2>3, <2>4, SlotTypes DEF Caches
  <2> HIDE DEF s
  <2> QED
    BY <2>1, <2>5, RewriteKept
<1>4. ASSUME plan[r].kv = NoKv PROVE Kept'
  <2>1. Drop(r, FALSE)
    BY <1>4 DEF FinishPrewarm
  <2> QED
    BY <2>1, DropKept
<1>5. plan' \in [Ranks -> Plans] /\ causes' \subseteq {"bypassed", "recoded"}
  BY <1>1, KeptNow
<1>6. Kept'
  BY <1>3, <1>4
<1> QED
  BY <1>1, <1>5, <1>6, RankTyped DEF Running

LEMMA NextTyped ==
  ASSUME Typed, [Next]_vars
  PROVE  Typed'
<1>1. ASSUME NEW p \in Prompts, NEW kind \in {"chat", "prewarm"},
             Arrive(kind, p)
      PROVE  Typed'
  BY <1>1, ArriveTyped
<1>2. ASSUME NEW r \in Ranks, Prepare(r) \/ PrepareFails(r) \/ Admit(r)
      PROVE  Typed'
  BY <1>2, PrepareTyped, PrepareFailsTyped, AdmitTyped
<1>3. ASSUME NEW r \in Ranks, Finish(r) \/ FinishPrewarm(r)
      PROVE  Typed'
  BY <1>3, FinishTyped, FinishPrewarmTyped
<1>4. CASE Consensus \/ PrewarmVote
  BY <1>4, ConsensusTyped, PrewarmVoteTyped
<1>5. CASE Abort \/ Complete \/ CompletePrewarm
  BY <1>5, EndTyped
<1>6. CASE \/ \E r \in Ranks: Expire(r)
           \/ Reset \/ JanitorBroadcast \/ JanitorRelease
  BY <1>6, OutsideTyped
<1>7. CASE UNCHANGED vars
  BY <1>7 DEF vars, Typed, Types, Stages, Limits, Idle, BothAt
<1> QED
  BY <1>1, <1>2, <1>3, <1>4, <1>5, <1>6, <1>7 DEF Next

\* The values have their types, less slots are parked than there are slots in
\* all, and there is a request exactly when no rank is idle: what the handlers
\* of both ranks count on when they index and compare the slots, whatever
\* suffixes become as text and whatever sessions are derived.
THEOREM TypeCorrect == Spec => []TypeOK
<1>1. Init => Typed
  BY InitIInv, Sizes DEF Init, IInv, Typed, Limits
<1>2. Typed /\ [Next]_vars => Typed'
  BY NextTyped
<1>3. Typed => TypeOK
  <2>1. SUFFICES ASSUME Typed PROVE TypeOK
    OBVIOUS
  <2>2. Idle <=> BothAt({"idle"})
    BY <2>1, RanksAre DEF Typed, Stages, BothAt, Before, Running
  <2>3. \A r \in Ranks: /\ at[r] \in {"idle"} \cup Before \cup Running
                        /\ plan[r] \in Plans
    BY <2>1 DEF Typed, Types
  <2> QED
    BY <2>1, <2>2, <2>3 DEF Typed, Types, Limits, TypeOK, Before, Running, Plans
<1> QED
  BY <1>1, <1>2, <1>3, PTL DEF Spec

-----------------------------------------------------------------------------
(* What follows for every behaviour.                                        *)

LEMMA NextIInv ==
  ASSUME IInv, [Next]_vars, causes' = {}
  PROVE  IInv'
<1>1. ASSUME NEW p \in Prompts, NEW kind \in {"chat", "prewarm"},
             Arrive(kind, p)
      PROVE  IInv'
  BY <1>1, ArriveIInv
<1>2. ASSUME NEW r \in Ranks, Prepare(r)
      PROVE  IInv'
  BY <1>2, PrepareIInv
<1>3. ASSUME NEW r \in Ranks, PrepareFails(r)
      PROVE  IInv'
  BY <1>3, PrepareFailsIInv
<1>4. ASSUME NEW r \in Ranks, Admit(r)
      PROVE  IInv'
  BY <1>4, AdmitIInv
<1>5. ASSUME NEW r \in Ranks, Finish(r)
      PROVE  IInv'
  BY <1>5, FinishIInv
<1>6. ASSUME NEW r \in Ranks, FinishPrewarm(r)
      PROVE  IInv'
  BY <1>6, FinishPrewarmIInv
<1>7. CASE Consensus
  BY <1>7, ConsensusIInv
<1>8. CASE PrewarmVote
  BY <1>8, PrewarmVoteIInv
<1>9. CASE Abort \/ Complete \/ CompletePrewarm
  BY <1>9, EndIInv
<1>10. CASE \/ \E r \in Ranks: Expire(r)
            \/ Reset \/ JanitorBroadcast \/ JanitorRelease
  BY <1>10, OutsideIInv
<1>11. CASE UNCHANGED vars
  BY <1>11 DEF vars, IInv, Types, Stages, Voted, Memory, Ready, Idle, BothAt,
               Physical, Suffix, Sound
<1> QED
  BY <1>1, <1>2, <1>3, <1>4, <1>5, <1>6, <1>7, <1>8, <1>9, <1>10, <1>11
     DEF Next

\* Nobody forgets what has happened.
LEMMA CausesStay ==
  ASSUME [Next]_vars
  PROVE  causes \subseteq causes'
<1>1. \A r \in Ranks: Prepare(r) \/ Finish(r) \/ FinishPrewarm(r)
                      => causes \subseteq causes'
  BY DEF Prepare, Finish, FinishPrewarm, Blame
<1>2. CASE \/ \E p \in Prompts, kind \in {"chat", "prewarm"}: Arrive(kind, p)
           \/ \E r \in Ranks: PrepareFails(r) \/ Admit(r) \/ Expire(r)
           \/ Consensus \/ Abort \/ Complete \/ PrewarmVote
           \/ CompletePrewarm \/ Reset \/ JanitorBroadcast \/ JanitorRelease
           \/ UNCHANGED vars
  BY <1>2 DEF Arrive, PrepareFails, Admit, Expire, Consensus, Abort, Complete,
              PrewarmVote, CompletePrewarm, Reset, JanitorBroadcast,
              JanitorRelease, vars
<1> QED
  BY <1>1, <1>2 DEF Next

LEMMA SpecIInv == Spec => [](causes = {} => IInv)
<1>1. Init => (causes = {} => IInv)
  BY InitIInv
<1>2. (causes = {} => IInv) /\ [Next]_vars => (causes = {} => IInv)'
  <2>1. SUFFICES ASSUME causes = {} => IInv, [Next]_vars, causes' = {}
                 PROVE  IInv'
    OBVIOUS
  <2>2. causes = {}
    BY <2>1, CausesStay
  <2> QED
    BY <2>1, <2>2, NextIInv
<1> QED
  BY <1>1, <1>2, PTL DEF Spec

\* As long as no suffix has changed in its text form and no derived session was
\* kept off a cache: a slot of any rank, live or parked, whose counter agrees
\* with its cache is what its key says, as far as both go: whatever was
\* trimmed, rebuilt, stashed, restored, evicted, expired, reset, cut off by a
\* stop or left by a guard before.  This is what a match of a prompt against
\* the key of a slot (_prepare_cached_prompt) relies on.
THEOREM KeysHonest == Spec => []KeysAreHonest
<1>1. (causes = {} => IInv) /\ TypeOK => KeysAreHonest
  <2>1. SUFFICES ASSUME IInv, NEW r \in Ranks
                 PROVE  /\ Honest(holder[r])
                        /\ \A i \in DOMAIN resident[r]: Honest(resident[r][i])
    BY DEF KeysAreHonest
  <2>2. /\ holder[r] \in GoodSlots(r)
        /\ resident[r] \in Seq(GoodSlots(r))
    BY <2>1 DEF IInv, Memory, Memories, Parked
  <2>3. \A s \in GoodSlots(r): Honest(s)
    BY DEF GoodSlots, Honest
  <2>4. \A i \in DOMAIN resident[r]: resident[r][i] \in GoodSlots(r)
    BY <2>2
  <2> QED
    BY <2>2, <2>3, <2>4
<1> QED
  BY <1>1, SpecIInv, TypeCorrect, PTL

\* As long as no suffix has changed in its text form and no derived session was
\* kept off a cache, a prefill that both ranks go into has suffixes of the same
\* length, and what a rank reuses is the beginning of the prompt: the lengths
\* that _prefix_plan_consensus and the prewarm's vote compare stand for the
\* tokens, which the ranks never compare.
THEOREM PlansSound == Spec => []PlanIsSound
<1>1. (causes = {} => IInv) => PlanIsSound
  <2>1. SUFFICES ASSUME IInv, BothAt({"admit", "decode"})
                 PROVE  /\ Physical(0) = Physical(1) /\ Suffix(0) = Suffix(1)
                        /\ \A r \in Ranks: Sound(r)
    BY DEF PlanIsSound, Sound
  <2>2. BothAt(Running)
    BY <2>1 DEF BothAt, Running
  <2> QED
    BY <2>1, <2>2 DEF IInv, Voted
<1> QED
  BY <1>1, SpecIInv, PTL
=============================================================================
