---------------------------- MODULE NewsPassProofs ----------------------------
(***************************************************************************)
(* Theorems about the news queues and the pass over them, for all genres,  *)
(* stories, limits and pushes: their types, that no list grows past its    *)
(* limit, and that an item which cannot be decoded leaves a list only for  *)
(* the dead letters.                                                       *)
(***************************************************************************)
EXTENDS NewsPass, SequenceTheorems, FiniteSetTheorems, TLAPS

-----------------------------------------------------------------------------
(* What the commands of Redis do to a list.                                 *)

\* LTRIM leaves the newest n items, and all of them where there are no more.
LEMMA Trimmed ==
  ASSUME NEW S, NEW s \in Seq(S), NEW n \in Nat \ {0}
  PROVE  /\ LastOf(s, n) \in Seq(S) /\ Len(LastOf(s, n)) \leq n
         /\ Len(LastOf(s, n)) # n => LastOf(s, n) = s
<1>. DEFINE m == IF Len(s) > n THEN Len(s) - n + 1 ELSE 1
<1>1. Len(s) \in Nat /\ m \in Int /\ m \geq 1
  OBVIOUS
<1>2. \A i \in m..Len(s) : s[i] \in S
  BY <1>1, ElementOfSeq
<1>3. LastOf(s, n) = SubSeq(s, m, Len(s))
  BY DEF LastOf
<1>4. /\ LastOf(s, n) \in Seq(S)
      /\ Len(LastOf(s, n)) = IF m <= Len(s) THEN Len(s) - m + 1 ELSE 0
  BY <1>1, <1>2, <1>3, SubSeqProperties
<1>5. m = 1 \/ Len(LastOf(s, n)) = n
  BY <1>1, <1>4
<1>6. SubSeq(s, 1, Len(s)) = s
  BY SubSeqFull
<1>7. Len(LastOf(s, n)) \leq n
  BY <1>1, <1>4
<1>8. CASE m = 1
  BY <1>3, <1>4, <1>6, <1>7, <1>8
<1>9. CASE Len(LastOf(s, n)) = n
  BY <1>4, <1>7, <1>9
<1>. QED BY <1>5, <1>8, <1>9

LEMMA PrefixTyped ==
  ASSUME NEW S, NEW s \in Seq(S), NEW k \in Nat, k \leq Len(s)
  PROVE  /\ SubSeq(s, 1, k) \in Seq(S) /\ Len(SubSeq(s, 1, k)) = k
         /\ \A i \in 1..k : SubSeq(s, 1, k)[i] = s[i]
<1>1. 1 \in Int /\ k \in Int /\ \A i \in 1..k : s[i] \in S
  BY ElementOfSeq
<1>2. /\ SubSeq(s, 1, k) \in Seq(S)
      /\ Len(SubSeq(s, 1, k)) = IF 1 <= k THEN k - 1 + 1 ELSE 0
      /\ \A i \in 1..k - 1 + 1 : SubSeq(s, 1, k)[i] = s[1 + i - 1]
  BY <1>1, SubSeqProperties
<1>3. Len(SubSeq(s, 1, k)) = k
  BY <1>2
<1>4. \A i \in 1..k : SubSeq(s, 1, k)[i] = s[i]
  <2>1. \A i \in 1..k : i \in 1..k - 1 + 1 /\ 1 + i - 1 = i
    OBVIOUS
  <2>. QED BY <1>2, <2>1, Zenon
<1>. QED BY <1>2, <1>3, <1>4

\* LMOVE key key RIGHT LEFT.
LEMMA RotatedKeeps ==
  ASSUME NEW S, NEW s \in Seq(S), s # <<>>
  PROVE  /\ Rotated(s) \in Seq(S) /\ Len(Rotated(s)) = Len(s)
         /\ Last(s) \in S
         /\ \A e : Contains(s, e) => Contains(Rotated(s), e)
<1>1. Len(s) \in Nat /\ Len(s) \geq 1 /\ Last(s) \in S
  BY EmptySeq, ElementOfSeq DEF Last
<1>2. /\ Front(s) \in Seq(S) /\ Len(Front(s)) = Len(s) - 1
      /\ \A i \in 1..Len(s) - 1 : Front(s)[i] = s[i]
  <2>1. Len(s) - 1 \in Nat /\ Len(s) - 1 \leq Len(s)
    BY <1>1
  <2>. QED BY <2>1, PrefixTyped DEF Front
<1>3. /\ Rotated(s) \in Seq(S) /\ Len(Rotated(s)) = Len(s)
      /\ Rotated(s)[1] = Last(s)
      /\ \A i \in 1..Len(s) - 1 : Rotated(s)[i + 1] = s[i]
  BY <1>1, <1>2, ConcatProperties DEF Rotated
<1>4. \A e : Contains(s, e) => Contains(Rotated(s), e)
  <2>1. SUFFICES ASSUME NEW i \in 1..Len(s)
                 PROVE  \E j \in 1..Len(s) : Rotated(s)[j] = s[i]
    BY <1>3 DEF Contains
  <2>2. CASE i = Len(s)
    BY <1>1, <1>3, <2>2 DEF Last
  <2>3. CASE i # Len(s)
    BY <1>1, <1>3, <2>3
  <2>. QED BY <2>2, <2>3
<1>. QED BY <1>1, <1>3, <1>4

\* LREM key 1 item.
LEMMA RemovedKeepsOthers ==
  ASSUME NEW S, NEW s \in Seq(S), NEW x
  PROVE  /\ WithoutPoison(s, x) \in Seq(S) /\ Len(WithoutPoison(s, x)) \leq Len(s)
         /\ \A e : e # x /\ Contains(s, e) => Contains(WithoutPoison(s, x), e)
<1>. DEFINE Before(i) == \E j \in 1..i : s[j] = x
            r == [i \in 1..Len(s) - 1 |-> IF Before(i) THEN s[i + 1] ELSE s[i]]
<1>1. Len(s) \in Nat /\ \A i \in 1..Len(s) : s[i] \in S
  BY ElementOfSeq
<1>2. ASSUME NEW i \in 1..Len(s)
      PROVE  Contains(SubSeq(s, 1, i), x) <=> Before(i)
  <2>1. /\ Len(SubSeq(s, 1, i)) = i
        /\ \A j \in 1..i : SubSeq(s, 1, i)[j] = s[j]
    BY <1>1, SubSeqProperties
  <2>. QED BY <2>1 DEF Contains
<1>3. CASE ~Contains(s, x)
  BY <1>1, <1>3 DEF WithoutPoison
<1>4. CASE Contains(s, x)
  <2>1. WithoutPoison(s, x) = r
    BY <1>1, <1>2, <1>4 DEF WithoutPoison
  <2>2. PICK k \in 1..Len(s) : s[k] = x
    BY <1>4 DEF Contains
  <2>3. Len(s) - 1 \in Nat
    BY <1>1, <2>2
  <2>4. r \in [1..Len(s) - 1 -> S]
    BY <1>1, <2>3
  <2>5. r \in Seq(S) /\ Len(r) = Len(s) - 1
    BY <2>3, <2>4, IsASeq, LenProperties
  <2>6. ASSUME NEW i \in 1..Len(s), s[i] # x
        PROVE  \E l \in 1..Len(s) - 1 : r[l] = s[i]
    <3>1. CASE Before(i - 1)
      <4>1. i - 1 \in 1..Len(s) - 1 /\ r[i - 1] = s[i]
        BY <1>1, <2>3, <3>1
      <4>. QED BY <4>1
    <3>2. CASE ~Before(i - 1)
      <4>1. ~Before(i) /\ i < k
        BY <1>1, <2>2, <2>6, <3>2
      <4>2. i \in 1..Len(s) - 1 /\ r[i] = s[i]
        BY <1>1, <2>2, <2>3, <4>1
      <4>. QED BY <4>2
    <3>. QED BY <3>1, <3>2
  <2>7. \A e : e # x /\ Contains(s, e) => Contains(r, e)
    BY <2>5, <2>6 DEF Contains
  <2>8. Len(r) \leq Len(s)
    BY <1>1, <2>5
  <2>. HIDE DEF r
  <2>. QED BY <2>1, <2>5, <2>7, <2>8
<1>. QED BY <1>3, <1>4

\* LPUSH and LTRIM of the dead letters.
LEMMA ShelvedTyped ==
  ASSUME StoreAssumption, deadLetter \in Seq(Item), Len(deadLetter) \leq DeadLetters,
         NEW x \in Item
  PROVE  /\ Shelved(x) \in Seq(Item) /\ Len(Shelved(x)) \leq DeadLetters
         /\ Contains(Shelved(x), x)
<1>. DEFINE d == <<x>> \o deadLetter
            n == IF Len(deadLetter) < DeadLetters THEN Len(deadLetter) + 1 ELSE DeadLetters
<1>1. DeadLetters \in Nat \ {0} /\ Len(deadLetter) \in Nat
  BY DEF StoreAssumption
<1>2. <<x>> \in Seq(Item) /\ Len(<<x>>) = 1 /\ <<x>>[1] = x
  OBVIOUS
<1>3. d \in Seq(Item) /\ Len(d) = 1 + Len(deadLetter) /\ d[1] = x
  BY <1>1, <1>2, ConcatProperties
<1>4. n \in Nat /\ n \geq 1 /\ n \leq Len(d) /\ n \leq DeadLetters
  BY <1>1, <1>3
<1>5. /\ SubSeq(d, 1, n) \in Seq(Item) /\ Len(SubSeq(d, 1, n)) = n
      /\ SubSeq(d, 1, n)[1] = x
  BY <1>3, <1>4, ElementOfSeq, SubSeqProperties
<1>6. Shelved(x) = SubSeq(d, 1, n)
  BY DEF Shelved
<1>. QED BY <1>4, <1>5, <1>6 DEF Contains

LEMMA ConcatKeeps ==
  ASSUME NEW S, NEW s \in Seq(S), NEW t \in Seq(S)
  PROVE  /\ s \o t \in Seq(S)
         /\ \A e : Contains(s, e) \/ Contains(t, e) => Contains(s \o t, e)
<1>1. /\ s \o t \in Seq(S) /\ Len(s \o t) = Len(s) + Len(t)
      /\ \A i \in 1..Len(s) + Len(t) :
           (s \o t)[i] = IF i <= Len(s) THEN s[i] ELSE t[i - Len(s)]
  BY ConcatProperties
<1>2. Len(s) \in Nat /\ Len(t) \in Nat
  OBVIOUS
<1>3. \A i \in 1..Len(s) : i \in 1..Len(s) + Len(t) /\ (s \o t)[i] = s[i]
  BY <1>1, <1>2
<1>4. ASSUME NEW i \in 1..Len(t)
      PROVE  \E j \in 1..Len(s) + Len(t) : (s \o t)[j] = t[i]
  <2>1. /\ i + Len(s) \in 1..Len(s) + Len(t) /\ ~(i + Len(s) <= Len(s))
        /\ (i + Len(s)) - Len(s) = i
    BY <1>2
  <2>2. (s \o t)[i + Len(s)] = t[i]
    BY <1>1, <2>1
  <2>. QED BY <2>1, <2>2
<1>. QED BY <1>1, <1>3, <1>4 DEF Contains

LEMMA AppendKeeps ==
  ASSUME NEW S, NEW s \in Seq(S), NEW x \in S
  PROVE  /\ Append(s, x) \in Seq(S)
         /\ \A e : Contains(s, e) => Contains(Append(s, x), e)
<1>1. Len(s) \in Nat /\ 1..Len(s) \subseteq 1..Len(s) + 1
  OBVIOUS
<1>. QED BY <1>1, AppendProperties DEF Contains

-----------------------------------------------------------------------------
(* An item that a list holds once.                                          *)

Once(s, e) == \A i, j \in 1..Len(s) : s[i] = e /\ s[j] = e => i = j

\* Every item of t is an item of s, another one for each place.
Picks(t, s) ==
  \E f \in [1..Len(t) -> 1..Len(s)] :
    /\ \A i \in 1..Len(t) : t[i] = s[f[i]]
    /\ \A i, j \in 1..Len(t) : f[i] = f[j] => i = j

LEMMA PicksKeep ==
  ASSUME NEW s, NEW t, Picks(t, s), NEW e
  PROVE  (Once(s, e) => Once(t, e)) /\ (Contains(t, e) => Contains(s, e))
<1>1. PICK f \in [1..Len(t) -> 1..Len(s)] :
        /\ \A i \in 1..Len(t) : t[i] = s[f[i]]
        /\ \A i, j \in 1..Len(t) : f[i] = f[j] => i = j
  BY DEF Picks
<1>2. \A i \in 1..Len(t) : f[i] \in 1..Len(s)
  BY <1>1
<1>. QED BY <1>1, <1>2 DEF Once, Contains

LEMMA ConcatOnce ==
  ASSUME NEW S, NEW s \in Seq(S), NEW t \in Seq(S), NEW e, ~Contains(t, e)
  PROVE  (Once(s, e) => Once(s \o t, e)) /\ (Contains(s \o t, e) => Contains(s, e))
<1>1. /\ Len(s \o t) = Len(s) + Len(t)
      /\ \A i \in 1..Len(s) + Len(t) :
           (s \o t)[i] = IF i <= Len(s) THEN s[i] ELSE t[i - Len(s)]
  BY ConcatProperties
<1>2. Len(s) \in Nat /\ Len(t) \in Nat
  OBVIOUS
<1>3. ASSUME NEW i \in 1..Len(s \o t), (s \o t)[i] = e
      PROVE  i \in 1..Len(s) /\ s[i] = e
  <2>1. CASE i <= Len(s)
    BY <1>1, <1>2, <1>3, <2>1
  <2>2. CASE ~(i <= Len(s))
    <3>1. i - Len(s) \in 1..Len(t) /\ t[i - Len(s)] = e
      BY <1>1, <1>2, <1>3, <2>2
    <3>. QED BY <1>3, <3>1 DEF Contains
  <2>. QED BY <2>1, <2>2
<1>. QED BY <1>3 DEF Once, Contains

\* Occurrences counts the places of an item.
LEMMA OnceCounts ==
  ASSUME NEW S, NEW s \in Seq(S), NEW e
  PROVE  /\ Once(s, e) => Occurrences(s, e) \leq 1
         /\ Occurrences(s, e) = 1 => Once(s, e)
<1>. DEFINE P == {i \in DOMAIN s : s[i] = e}
<1>1. DOMAIN s = 1..Len(s) /\ Len(s) \in Nat
  BY LenProperties
<1>2. IsFiniteSet(P)
  <2>1. IsFiniteSet(1..Len(s)) /\ P \in SUBSET (1..Len(s))
    BY <1>1, FS_Interval
  <2>. QED BY <2>1, FS_Subset
<1>3. Occurrences(s, e) = Cardinality(P)
  BY DEF Occurrences
<1>4. ASSUME Once(s, e) PROVE Occurrences(s, e) \leq 1
  <2>1. CASE P = {}
    <3>. HIDE DEF P
    <3>1. Cardinality(P) = 0
      BY <2>1, FS_EmptySet
    <3>. QED BY <1>3, <3>1
  <2>2. CASE P # {}
    <3>1. PICK k \in P : TRUE
      BY <2>2
    <3>2. P = {k}
      BY <1>1, <1>4, <3>1 DEF Once
    <3>. HIDE DEF P
    <3>3. Cardinality(P) = 1
      BY <3>2, FS_Singleton
    <3>. QED BY <1>3, <3>3
  <2>. QED BY <2>1, <2>2
<1>5. ASSUME Occurrences(s, e) = 1 PROVE Once(s, e)
  <2>1. PICK k : P = {k}
    <3>. HIDE DEF P
    <3>. QED BY <1>2, <1>3, <1>5, FS_Singleton
  <2>. QED BY <1>1, <2>1 DEF Once
<1>. QED BY <1>4, <1>5

\* What LTRIM leaves, place by place: the oldest d items are gone.
LEMMA TrimmedItems ==
  ASSUME NEW S, NEW s \in Seq(S), NEW n \in Nat \ {0}
  PROVE  \E d \in 0..Len(s) :
           /\ Len(LastOf(s, n)) = Len(s) - d
           /\ d = 0 \/ Len(s) - d = n
           /\ \A i \in 1..Len(s) - d : LastOf(s, n)[i] = s[i + d]
<1>. DEFINE d == IF Len(s) > n THEN Len(s) - n ELSE 0
            m == IF Len(s) > n THEN Len(s) - n + 1 ELSE 1
<1>1. Len(s) \in Nat /\ d \in 0..Len(s) /\ m = d + 1 /\ (d = 0 \/ Len(s) - d = n)
  OBVIOUS
<1>2. \A i \in m..Len(s) : s[i] \in S
  BY <1>1, ElementOfSeq
<1>3. LastOf(s, n) = SubSeq(s, m, Len(s))
  BY DEF LastOf
<1>. HIDE DEF m, d
<1>4. /\ Len(LastOf(s, n)) = IF m <= Len(s) THEN Len(s) - m + 1 ELSE 0
      /\ \A i \in 1..Len(s) - m + 1 : LastOf(s, n)[i] = s[m + i - 1]
  <2>1. m \in Int /\ Len(s) \in Int
    BY <1>1
  <2>. QED BY <1>2, <1>3, <2>1, SubSeqProperties
<1>5. Len(LastOf(s, n)) = Len(s) - d
  BY <1>1, <1>4
<1>6. \A i \in 1..Len(s) - d : i \in 1..Len(s) - m + 1 /\ m + i - 1 = i + d
  BY <1>1
<1>7. \A i \in 1..Len(s) - d : LastOf(s, n)[i] = s[i + d]
  BY <1>4, <1>6, Zenon
<1>. QED BY <1>1, <1>5, <1>7

LEMMA TrimmedPicks ==
  ASSUME NEW S, NEW s \in Seq(S), NEW n \in Nat \ {0}
  PROVE  Picks(LastOf(s, n), s)
<1>. DEFINE t == LastOf(s, n)
<1>1. PICK d \in 0..Len(s) : /\ Len(t) = Len(s) - d
                             /\ \A i \in 1..Len(s) - d : t[i] = s[i + d]
  BY TrimmedItems
<1>2. Len(s) \in Nat
  OBVIOUS
<1>. HIDE DEF t
<1>. DEFINE f == [i \in 1..Len(t) |-> i + d]
<1>3. f \in [1..Len(t) -> 1..Len(s)]
  BY <1>1, <1>2
<1>4. \A i \in 1..Len(t) : t[i] = s[f[i]]
  BY <1>1
<1>5. \A i, j \in 1..Len(t) : f[i] = f[j] => i = j
  BY <1>1, <1>2
<1>6. Picks(t, s)
  <2>. HIDE DEF f
  <2>. QED BY <1>3, <1>4, <1>5 DEF Picks
<1>. QED BY <1>6 DEF t

\* LMOVE, place by place: the last item is the first, the others move up by one.
LEMMA RotatedItems ==
  ASSUME NEW S, NEW s \in Seq(S), s # <<>>
  PROVE  /\ Len(Rotated(s)) = Len(s) /\ Rotated(s)[1] = s[Len(s)] /\ Last(s) = s[Len(s)]
         /\ \A i \in 2..Len(s) : Rotated(s)[i] = s[i - 1]
<1>1. Len(s) \in Nat /\ Len(s) \geq 1 /\ Last(s) \in S
  BY EmptySeq, ElementOfSeq DEF Last
<1>2. /\ Front(s) \in Seq(S) /\ Len(Front(s)) = Len(s) - 1
      /\ \A i \in 1..Len(s) - 1 : Front(s)[i] = s[i]
  <2>1. Len(s) - 1 \in Nat /\ Len(s) - 1 \leq Len(s)
    BY <1>1
  <2>. QED BY <2>1, PrefixTyped DEF Front
<1>3. /\ Len(Rotated(s)) = Len(s)
      /\ Rotated(s)[1] = Last(s)
      /\ \A i \in 1..Len(s) - 1 : Rotated(s)[i + 1] = s[i]
  BY <1>1, <1>2, ConcatProperties DEF Rotated
<1>4. \A i \in 2..Len(s) : i - 1 \in 1..Len(s) - 1 /\ (i - 1) + 1 = i
  BY <1>1
<1>. QED BY <1>3, <1>4 DEF Last

LEMMA RotatedPicks ==
  ASSUME NEW S, NEW s \in Seq(S), s # <<>>
  PROVE  Picks(Rotated(s), s)
<1>. DEFINE t == Rotated(s)
            f == [i \in 1..Len(s) |-> IF i = 1 THEN Len(s) ELSE i - 1]
<1>1. Len(s) \in Nat /\ Len(s) \geq 1
  BY EmptySeq
<1>2. Len(t) = Len(s) /\ t[1] = s[Len(s)] /\ \A i \in 2..Len(s) : t[i] = s[i - 1]
  BY RotatedItems
<1>. HIDE DEF t
<1>3. f \in [1..Len(t) -> 1..Len(s)]
  BY <1>1, <1>2
<1>4. \A i \in 1..Len(t) : t[i] = s[f[i]]
  BY <1>1, <1>2
<1>5. \A i, j \in 1..Len(t) : f[i] = f[j] => i = j
  BY <1>1, <1>2
<1>6. Picks(t, s)
  <2>. HIDE DEF f
  <2>. QED BY <1>3, <1>4, <1>5 DEF Picks
<1>. QED BY <1>6 DEF t

LEMMA RemovedPicks ==
  ASSUME NEW S, NEW s \in Seq(S), NEW x
  PROVE  Picks(WithoutPoison(s, x), s)
<1>. DEFINE Before(i) == Contains(SubSeq(s, 1, i), x)
            t == [i \in 1..Len(s) - 1 |-> IF Before(i) THEN s[i + 1] ELSE s[i]]
            f == [i \in 1..Len(s) - 1 |-> IF Before(i) THEN i + 1 ELSE i]
            id == [i \in 1..Len(s) |-> i]
<1>1. Len(s) \in Nat
  OBVIOUS
<1>2. CASE ~Contains(s, x)
  <2>1. /\ id \in [1..Len(s) -> 1..Len(s)]
        /\ \A i \in 1..Len(s) : s[i] = s[id[i]]
        /\ \A i, j \in 1..Len(s) : id[i] = id[j] => i = j
    OBVIOUS
  <2>. HIDE DEF id
  <2>. QED BY <1>2, <2>1 DEF WithoutPoison, Picks
<1>3. CASE Contains(s, x)
  <2>1. WithoutPoison(s, x) = t
    BY <1>3 DEF WithoutPoison
  <2>2. Len(s) - 1 \in Nat
    BY <1>1, <1>3 DEF Contains
  <2>3. Len(t) = Len(s) - 1
    <3>1. t \in [1..Len(s) - 1 -> S]
      BY <1>1, <2>2, ElementOfSeq
    <3>. HIDE DEF t
    <3>. QED BY <2>2, <3>1, IsASeq
  <2>4. f \in [1..Len(s) - 1 -> 1..Len(s)]
    BY <1>1, <2>2
  <2>5. \A i \in 1..Len(s) - 1 : t[i] = s[f[i]]
    OBVIOUS
  <2>6. ASSUME NEW i \in 1..Len(s) - 1, NEW j \in 1..Len(s) - 1, f[i] = f[j]
        PROVE  i = j
    <3>1. \A a, b \in 1..Len(s) - 1 : Before(a) /\ a < b => Before(b)
      <4>1. ASSUME NEW a \in 1..Len(s) - 1
            PROVE  /\ Len(SubSeq(s, 1, a)) = a
                   /\ \A c \in 1..a : SubSeq(s, 1, a)[c] = s[c]
        BY <1>1, PrefixTyped
      <4>. QED BY <1>1, <4>1 DEF Contains
    <3>. DEFINE B(a) == Before(a)
    <3>2. \A a, b \in 1..Len(s) - 1 : B(a) /\ a < b => B(b)
      BY <3>1
    <3>3. f[i] = (IF B(i) THEN i + 1 ELSE i) /\ f[j] = (IF B(j) THEN j + 1 ELSE j)
      OBVIOUS
    <3>. HIDE DEF B, f, t, Before
    <3>4. CASE B(i) /\ B(j)
      <4>1. i + 1 = j + 1
        BY <2>6, <3>3, <3>4
      <4>. QED BY <4>1
    <3>5. CASE ~B(i) /\ ~B(j)
      BY <2>6, <3>3, <3>5
    <3>6. CASE B(i) /\ ~B(j)
      <4>1. j = i + 1
        BY <2>6, <3>3, <3>6
      <4>2. i < j
        BY <4>1
      <4>. QED BY <3>2, <3>6, <4>2
    <3>7. CASE ~B(i) /\ B(j)
      <4>1. i = j + 1
        BY <2>6, <3>3, <3>7
      <4>2. j < i
        BY <4>1
      <4>. QED BY <3>2, <3>7, <4>2
    <3>. QED BY <3>4, <3>5, <3>6, <3>7
  <2>7. Picks(t, s)
    <3>. HIDE DEF f, t
    <3>. QED BY <2>3, <2>4, <2>5, <2>6 DEF Picks
  <2>. QED BY <2>1, <2>7
<1>. QED BY <1>2, <1>3

-----------------------------------------------------------------------------
(* What the commands do to the store.                                       *)

\* PoisonIsShelved, of one step.
Shelves ==
  \A g \in Genre, p \in Poison :
    StoredFor(g, p) /\ ~StoredFor(g, p)' =>
      Contains(deadLetter', p) \/ Len(queue'[g]) = MaxStories

\* QueueBound, of one step.
Bounded == \A g \in Genre : Within(queue[g], queue'[g])

Kept == StoreTypeOK' /\ Shelves /\ Bounded

USE StoreAssumption, PassAssumption

LEMMA WithinItself == ASSUME StoreTypeOK, NEW g \in Genre PROVE Within(queue[g], queue[g])
<1>1. queue[g] \in Seq(Item)
  BY DEF StoreTypeOK, Name
<1>2. Len(queue[g]) \in Nat
  BY <1>1
<1>. QED BY <1>2 DEF Within

\* A list changes only where a command is given it.
LEMMA OneList ==
  ASSUME StoreTypeOK, NEW m \in Name, NEW t \in Seq(Item),
         queue' = [queue EXCEPT ![m] = t],
         m \in Genre => Within(queue[m], t),
         \A p \in Poison : Contains(queue[m], p) =>
           \/ Contains(t, p) \/ Contains(deadLetter', p)
           \/ m \in Genre /\ Len(t) = MaxStories
  PROVE  queue' \in [Name -> Seq(Item)] /\ Bounded /\ Shelves
<1>1. /\ queue' \in [Name -> Seq(Item)]
      /\ queue'[m] = t /\ \A n \in Name \ {m} : queue'[n] = queue[n]
  BY DEF StoreTypeOK
<1>2. Bounded
  <2>1. SUFFICES ASSUME NEW g \in Genre PROVE Within(queue[g], queue'[g])
    BY DEF Bounded
  <2>2. CASE g = m
    BY <1>1, <2>1, <2>2
  <2>3. CASE g # m
    BY <1>1, <2>1, <2>3, WithinItself DEF Name
  <2>. QED BY <2>2, <2>3
<1>3. Shelves
  <2>1. SUFFICES ASSUME NEW g \in Genre, NEW p \in Poison, NEW n \in Name,
                        Norm[n] = g, Contains(queue[n], p), ~StoredFor(g, p)'
                 PROVE  Contains(deadLetter', p) \/ Len(queue'[g]) = MaxStories
    BY DEF Shelves, StoredFor
  <2>2. ~Contains(queue'[n], p)
    BY <2>1 DEF StoredFor
  <2>3. n = m
    BY <1>1, <2>1, <2>2
  <2>4. m \in Genre => g = m
    BY <2>1, <2>3 DEF StoreAssumption
  <2>. QED BY <1>1, <2>1, <2>2, <2>3, <2>4
<1>. QED BY <1>1, <1>2, <1>3

LEMMA PushKeeps ==
  ASSUME StoreTypeOK, NEW g \in Genre, NEW s \in Feed, Push(g, s)
  PROVE  Kept
<1>. DEFINE t == LastOf(Append(queue[g], s), MaxStories)
<1>1. g \in Name /\ queue[g] \in Seq(Item) /\ s \in Item /\ MaxStories \in Nat \ {0}
  BY DEF StoreTypeOK, StoreAssumption, Name, Item
<1>2. /\ Append(queue[g], s) \in Seq(Item)
      /\ \A e : Contains(queue[g], e) => Contains(Append(queue[g], s), e)
  BY <1>1, AppendKeeps
<1>3. /\ t \in Seq(Item) /\ Len(t) \leq MaxStories
      /\ Len(t) # MaxStories => t = Append(queue[g], s)
  BY <1>1, <1>2, Trimmed
<1>4. queue' = [queue EXCEPT ![g] = t]
  BY DEF Push
<1>5. queue' \in [Name -> Seq(Item)] /\ Bounded /\ Shelves
  <2>1. \A p \in Poison : Contains(queue[g], p) => Contains(t, p) \/ Len(t) = MaxStories
    BY <1>2, <1>3
  <2>. HIDE DEF t
  <2>2. Within(queue[g], t)
    BY <1>3 DEF Within
  <2>. QED BY <1>1, <1>3, <1>4, <2>1, <2>2, OneList
<1>6. /\ dedupe' \subseteq Genre \X Feed /\ known' \subseteq Name \cup {Blank}
      /\ pushes' \in 0..MaxPushes
  BY <1>1 DEF Push, StoreTypeOK, StoreAssumption
<1>7. UNCHANGED <<deadLetter, expired>>
  BY DEF Push
<1>. QED BY <1>5, <1>6, <1>7 DEF Kept, StoreTypeOK

LEMMA ExpireKeeps ==
  ASSUME StoreTypeOK, NEW key \in dedupe, Expire(key)
  PROVE  Kept
<1>1. UNCHANGED <<queue, known, deadLetter, pushes>>
  BY DEF Expire
<1>2. dedupe' \subseteq Genre \X Feed /\ expired' \subseteq Genre \X Feed
  BY DEF Expire, StoreTypeOK
<1>. QED BY <1>1, <1>2, WithinItself DEF Kept, StoreTypeOK, Bounded, Shelves, StoredFor

LEMMA ForgetKeeps ==
  ASSUME StoreTypeOK, NEW name, Forget(name)
  PROVE  Kept
BY WithinItself DEF Forget, Kept, StoreTypeOK, Bounded, Shelves, StoredFor

LEMMA UnchangedKeeps ==
  ASSUME StoreTypeOK, UNCHANGED storeVars
  PROVE  Kept
BY WithinItself DEF storeVars, Kept, StoreTypeOK, Bounded, Shelves, StoredFor

LEMMA RotateKeeps ==
  ASSUME StoreTypeOK, NEW g \in Genre, queue[g] # <<>>, Rotate(g)
  PROVE  Kept /\ Last(queue[g]) \in Item
<1>1. g \in Name /\ queue[g] \in Seq(Item) /\ Len(queue[g]) \in Nat
  BY DEF StoreTypeOK, Name
<1>2. /\ Rotated(queue[g]) \in Seq(Item) /\ Len(Rotated(queue[g])) = Len(queue[g])
      /\ Last(queue[g]) \in Item
      /\ \A e : Contains(queue[g], e) => Contains(Rotated(queue[g]), e)
  BY <1>1, RotatedKeeps
<1>3. queue' = [queue EXCEPT ![g] = Rotated(queue[g])]
  BY DEF Rotate
<1>4. queue' \in [Name -> Seq(Item)] /\ Bounded /\ Shelves
  <2>1. \A e : Contains(Rotated(queue[g]), e) => Contains(queue[g], e)
    BY <1>1, RotatedPicks, PicksKeep
  <2>2. Within(queue[g], Rotated(queue[g]))
    BY <1>1, <1>2, <2>1 DEF Within
  <2>. QED BY <1>1, <1>2, <1>3, <2>2, OneList
<1>5. UNCHANGED <<known, dedupe, deadLetter, expired, pushes>>
  BY DEF Rotate
<1>. QED BY <1>2, <1>4, <1>5 DEF Kept, StoreTypeOK

LEMMA QuarantineKeeps ==
  ASSUME StoreTypeOK, NEW g \in Genre, NEW x \in Item, Quarantine(g, x)
  PROVE  Kept
<1>1. /\ g \in Name /\ queue[g] \in Seq(Item) /\ Len(queue[g]) \in Nat
      /\ MaxStories \in Nat
      /\ deadLetter \in Seq(Item) /\ Len(deadLetter) \leq DeadLetters
  BY DEF StoreTypeOK, StoreAssumption, QueueBound, Name
<1>2. /\ queue' = [queue EXCEPT ![g] = WithoutPoison(queue[g], x)]
      /\ deadLetter' = Shelved(x)
      /\ UNCHANGED <<known, dedupe, expired, pushes>>
  BY DEF Quarantine
<1>3. /\ deadLetter' \in Seq(Item) /\ Len(deadLetter') \leq DeadLetters
      /\ Contains(deadLetter', x)
  BY <1>1, <1>2, ShelvedTyped
<1>4. /\ WithoutPoison(queue[g], x) \in Seq(Item)
      /\ Len(WithoutPoison(queue[g], x)) \leq Len(queue[g])
      /\ \A e : e # x /\ Contains(queue[g], e) => Contains(WithoutPoison(queue[g], x), e)
  BY <1>1, RemovedKeepsOthers
<1>5. Within(queue[g], WithoutPoison(queue[g], x))
  <2>1. \A e : Contains(WithoutPoison(queue[g], x), e) => Contains(queue[g], e)
    BY <1>1, RemovedPicks, PicksKeep
  <2>. QED BY <1>4, <2>1 DEF Within
<1>6. queue' \in [Name -> Seq(Item)] /\ Bounded /\ Shelves
  <2>1. \A p \in Poison : Contains(queue[g], p) =>
          Contains(WithoutPoison(queue[g], x), p) \/ Contains(deadLetter', p)
    BY <1>3, <1>4
  <2>. QED BY <1>1, <1>2, <1>4, <1>5, <2>1, OneList
<1>. QED BY <1>2, <1>3, <1>6 DEF Kept, StoreTypeOK

\* The list of an alias is emptied into that of its genre.
LEMMA MigrateKeeps ==
  ASSUME StoreTypeOK, NEW a \in Alias, Migrate(a)
  PROVE  Kept
<1>. DEFINE g == Norm[a]
            both == queue[g] \o queue[a]
            t == LastOf(both, MaxStories)
<1>1. /\ a \in Name /\ g \in Genre /\ g \in Name /\ a # g /\ a \notin Genre
      /\ MaxStories \in Nat \ {0}
  BY DEF StoreAssumption, Name
<1>2. queue \in [Name -> Seq(Item)]
  BY DEF StoreTypeOK
<1>3. queue[g] \in Seq(Item) /\ queue[a] \in Seq(Item)
  BY <1>1, <1>2
<1>4. /\ both \in Seq(Item)
      /\ \A e : Contains(queue[g], e) \/ Contains(queue[a], e) => Contains(both, e)
  BY <1>3, ConcatKeeps
<1>5. t \in Seq(Item) /\ Len(t) \leq MaxStories /\ (Len(t) # MaxStories => t = both)
  BY <1>1, <1>4, Trimmed
<1>6. queue' = [queue EXCEPT ![g] = t, ![a] = <<>>]
  BY DEF Migrate, Migrated
<1>. HIDE DEF t, both
<1>7. /\ queue' \in [Name -> Seq(Item)] /\ queue'[g] = t /\ queue'[a] = <<>>
      /\ \A n \in Name \ {a, g} : queue'[n] = queue[n]
  <2>1. <<>> \in Seq(Item)
    BY EmptySeq
  <2>. HIDE DEF g
  <2>. QED BY <1>1, <1>2, <1>5, <1>6, <2>1
<1>8. Bounded
  <2>1. SUFFICES ASSUME NEW h \in Genre PROVE Within(queue[h], queue'[h])
    BY DEF Bounded
  <2>2. CASE h = g
    BY <1>5, <1>7, <2>2 DEF Within
  <2>3. CASE h # g
    <3>1. h \in Name \ {a, g}
      BY <1>1, <2>1, <2>3 DEF Name
    <3>. QED BY <1>7, <3>1, WithinItself
  <2>. QED BY <2>2, <2>3
<1>9. Shelves
  <2>1. SUFFICES ASSUME NEW h \in Genre, NEW p \in Poison, NEW n \in Name,
                        Norm[n] = h, Contains(queue[n], p), ~StoredFor(h, p)'
                 PROVE  Len(queue'[h]) = MaxStories
    BY DEF Shelves, StoredFor
  <2>2. ~Contains(queue'[n], p) /\ ~Contains(queue'[h], p)
    BY <2>1 DEF StoredFor, StoreAssumption, Name
  <2>3. n \in {a, g}
    BY <1>7, <2>1, <2>2
  <2>4. h = g
    BY <1>1, <2>1, <2>3 DEF StoreAssumption
  <2>5. Contains(both, p) /\ ~Contains(t, p)
    BY <1>4, <1>7, <2>1, <2>2, <2>3, <2>4
  <2>. QED BY <1>5, <1>7, <2>4, <2>5
<1>10. /\ known' \subseteq Name \cup {Blank}
       /\ UNCHANGED <<dedupe, deadLetter, expired, pushes>>
  BY <1>1 DEF Migrate, StoreTypeOK
<1>. QED BY <1>7, <1>8, <1>9, <1>10 DEF Kept, StoreTypeOK

-----------------------------------------------------------------------------
(* Nothing is stored twice, and no story is lost but by a trim.             *)

\* A key that was never over stands for the story in its list: the only one, under no other
\* spelling.
StoredOnce ==
  \A g \in Genre, s \in Feed : <<g, s>> \notin expired =>
    /\ Once(queue[g], s)
    /\ Contains(queue[g], s) => <<g, s>> \in dedupe
    /\ \A a \in Alias : Norm[a] = g => ~Contains(queue[a], s)

\* LostOnlyByTrim, of one step.
Overflows ==
  \A g \in Genre, s \in Story :
    StoredFor(g, s) /\ ~StoredFor(g, s)' =>
      \/ \E t \in Feed : TakesIn(g, <<t>>)
      \/ \E a \in Alias : Norm[a] = g /\ TakesIn(g, queue[a])

Safe == StoredOnce' /\ Overflows

LEMMA SafeQueues ==
  ASSUME StoredOnce, UNCHANGED queue, expired \subseteq expired',
         \A key \in dedupe : key \in dedupe' \/ key \in expired'
  PROVE  Safe
<1>1. Overflows
  BY DEF Overflows, StoredFor
<1>2. StoredOnce'
  BY DEF StoredOnce
<1>. QED BY <1>1, <1>2 DEF Safe

\* A command that only moves the items of a list, or removes some that are no stories.
LEMMA SafeList ==
  ASSUME StoreTypeOK, StoredOnce, NEW m \in Name, NEW t \in Seq(Item),
         queue' = [queue EXCEPT ![m] = t], UNCHANGED <<dedupe, expired>>,
         Picks(t, queue[m]), \A s \in Story : Contains(queue[m], s) => Contains(t, s)
  PROVE  Safe
<1>1. queue'[m] = t /\ \A n \in Name \ {m} : queue'[n] = queue[n]
  BY DEF StoreTypeOK
<1>2. \A e : (Once(queue[m], e) => Once(t, e)) /\ (Contains(t, e) => Contains(queue[m], e))
  BY PicksKeep
<1>3. \A n \in Name : \A e : /\ Once(queue[n], e) => Once(queue'[n], e)
                             /\ Contains(queue'[n], e) => Contains(queue[n], e)
  BY <1>1, <1>2
<1>4. \A n \in Name, s \in Story : Contains(queue[n], s) => Contains(queue'[n], s)
  BY <1>1
<1>5. StoredOnce'
  BY <1>3 DEF StoredOnce, Name
<1>6. Overflows
  BY <1>4 DEF Overflows, StoredFor
<1>. QED BY <1>5, <1>6 DEF Safe

LEMMA SafePush ==
  ASSUME StoreTypeOK, StoredOnce, NEW g \in Genre, NEW s \in Feed, Push(g, s)
  PROVE  Safe
<1>. DEFINE all == Append(queue[g], s)
            t == LastOf(all, MaxStories)
<1>1. /\ g \in Name /\ queue[g] \in Seq(Item) /\ s \in Item /\ MaxStories \in Nat \ {0}
      /\ g \notin Alias
  BY DEF StoreTypeOK, StoreAssumption, Name, Item
<1>2. /\ all \in Seq(Item) /\ Len(all) = Len(queue[g]) + 1 /\ Len(queue[g]) \in Nat
      /\ \A i \in 1..Len(queue[g]) : all[i] = queue[g][i]
      /\ all[Len(queue[g]) + 1] = s
      /\ all = queue[g] \o <<s>>
  BY <1>1, AppendProperties, AppendIsConcat
<1>3. \A e : Contains(queue[g], e) => Contains(all, e)
  BY <1>1, AppendKeeps
<1>4. Picks(t, all) /\ (Len(t) # MaxStories => t = all)
  BY <1>1, <1>2, Trimmed, TrimmedPicks
<1>5. \A e : (Once(all, e) => Once(t, e)) /\ (Contains(t, e) => Contains(all, e))
  BY <1>4, PicksKeep
<1>6. \A e : e # s =>
        (Once(queue[g], e) => Once(all, e)) /\ (Contains(all, e) => Contains(queue[g], e))
  <2>. HIDE DEF all
  <2>1. \A i \in 1..Len(all) : i = Len(queue[g]) + 1 \/ i \in 1..Len(queue[g])
    BY <1>2
  <2>. QED BY <1>2, <2>1 DEF Once, Contains
<1>7. ~Contains(queue[g], s) => Once(all, s)
  <2>. HIDE DEF all
  <2>1. \A i \in 1..Len(all) : i = Len(queue[g]) + 1 \/ i \in 1..Len(queue[g])
    BY <1>2
  <2>. QED BY <1>2, <2>1 DEF Once, Contains
<1>8. queue' = [queue EXCEPT ![g] = t] /\ dedupe' = dedupe \cup {<<g, s>>} /\ expired' = expired
  BY DEF Push
<1>9. <<g, s>> \notin dedupe
  BY DEF Push, NotYetStored
<1>10. t = LastOf(queue[g] \o <<s>>, MaxStories) /\ Len(queue[g] \o <<s>>) = Len(all)
  BY <1>2
<1>11. \A i \in 1..Len(all) : all[i] \in Item
  BY <1>2, ElementOfSeq
<1>. HIDE DEF t, all
<1>12. queue'[g] = t /\ \A n \in Name \ {g} : queue'[n] = queue[n]
  BY <1>1, <1>8 DEF StoreTypeOK
<1>13. StoredOnce'
  <2>1. SUFFICES ASSUME NEW h \in Genre, NEW u \in Feed, <<h, u>> \notin expired
                 PROVE  /\ Once(queue'[h], u)
                        /\ Contains(queue'[h], u) => <<h, u>> \in dedupe'
                        /\ \A a \in Alias : Norm[a] = h => ~Contains(queue'[a], u)
    BY <1>8 DEF StoredOnce
  <2>2. /\ Once(queue[h], u)
        /\ Contains(queue[h], u) => <<h, u>> \in dedupe
        /\ \A a \in Alias : Norm[a] = h => ~Contains(queue[a], u)
    BY <2>1 DEF StoredOnce
  <2>3. \A a \in Alias : queue'[a] = queue[a]
    BY <1>1, <1>12 DEF Name
  <2>4. CASE h # g
    BY <1>8, <1>12, <2>2, <2>3, <2>4 DEF Name
  <2>5. CASE h = g /\ u # s
    BY <1>5, <1>6, <1>8, <1>12, <2>2, <2>3, <2>5
  <2>6. CASE h = g /\ u = s
    BY <1>5, <1>7, <1>8, <1>9, <1>12, <2>2, <2>3, <2>6
  <2>. QED BY <2>4, <2>5, <2>6
<1>14. Overflows
  <2>1. CASE Len(all) > MaxStories
    <3>1. TakesIn(g, <<s>>)
      BY <1>10, <1>12, <2>1 DEF TakesIn
    <3>2. \A h \in Genre, u \in Story : h # g /\ StoredFor(h, u) => StoredFor(h, u)'
      BY <1>12 DEF StoredFor, StoreAssumption, Name
    <3>. QED BY <3>1, <3>2 DEF Overflows
  <2>2. CASE ~(Len(all) > MaxStories)
    <3>1. t = all
      <4>1. LastOf(all, MaxStories) = SubSeq(all, 1, Len(all))
        BY <2>2 DEF LastOf
      <4>2. t = LastOf(all, MaxStories)
        BY DEF t
      <4>. QED BY <1>2, <4>1, <4>2, SubSeqFull
    <3>2. \A n \in Name : \A e : Contains(queue[n], e) => Contains(queue'[n], e)
      BY <1>3, <1>12, <3>1
    <3>. QED BY <3>2 DEF Overflows, StoredFor
  <2>. QED BY <2>1, <2>2
<1>. QED BY <1>13, <1>14 DEF Safe

LEMMA SafeMigrate ==
  ASSUME StoreTypeOK, StoredOnce, NEW a \in Alias, Migrate(a)
  PROVE  Safe
<1>. DEFINE g == Norm[a]
            both == queue[g] \o queue[a]
            t == LastOf(both, MaxStories)
<1>1. /\ a \in Name /\ g \in Genre /\ g \in Name /\ a # g /\ a \notin Genre
      /\ MaxStories \in Nat \ {0}
  BY DEF StoreAssumption, Name
<1>2. queue \in [Name -> Seq(Item)] /\ queue[g] \in Seq(Item) /\ queue[a] \in Seq(Item)
  BY <1>1 DEF StoreTypeOK
<1>3. \A e : Contains(queue[g], e) \/ Contains(queue[a], e) => Contains(both, e)
  BY <1>2, ConcatKeeps
<1>4. both \in Seq(Item)
  BY <1>2, ConcatKeeps
<1>5. Picks(t, both) /\ (~(Len(both) > MaxStories) => t = both)
  <2>. HIDE DEF both
  <2>1. ~(Len(both) > MaxStories) => t = SubSeq(both, 1, Len(both))
    BY DEF LastOf
  <2>. QED BY <1>1, <1>4, <2>1, TrimmedPicks, SubSeqFull
<1>6. \A e : (Once(both, e) => Once(t, e)) /\ (Contains(t, e) => Contains(both, e))
  BY <1>5, PicksKeep
<1>7. ASSUME NEW e, ~Contains(queue[a], e)
      PROVE  (Once(queue[g], e) => Once(both, e)) /\ (Contains(both, e) => Contains(queue[g], e))
  BY <1>2, <1>7, ConcatOnce
<1>8. /\ queue' = [queue EXCEPT ![g] = t, ![a] = <<>>]
      /\ UNCHANGED <<dedupe, expired>>
  BY DEF Migrate, Migrated
<1>9. Len(both) > MaxStories => TakesIn(g, queue[a]) \/ queue'[g] # t
  BY DEF TakesIn
<1>. HIDE DEF t, both
<1>10. queue'[g] = t /\ queue'[a] = <<>> /\ \A n \in Name \ {a, g} : queue'[n] = queue[n]
  <2>. HIDE DEF g
  <2>. QED BY <1>1, <1>2, <1>8
<1>11. \A e : ~Contains(<<>>, e) /\ Once(<<>>, e)
  BY EmptySeq DEF Contains, Once
<1>12. StoredOnce'
  <2>1. SUFFICES ASSUME NEW h \in Genre, NEW u \in Feed, <<h, u>> \notin expired
                 PROVE  /\ Once(queue'[h], u)
                        /\ Contains(queue'[h], u) => <<h, u>> \in dedupe
                        /\ \A b \in Alias : Norm[b] = h => ~Contains(queue'[b], u)
    BY <1>8 DEF StoredOnce
  <2>2. /\ Once(queue[h], u)
        /\ Contains(queue[h], u) => <<h, u>> \in dedupe
        /\ \A b \in Alias : Norm[b] = h => ~Contains(queue[b], u)
    BY <2>1 DEF StoredOnce
  <2>3. ASSUME NEW b \in Alias, Norm[b] = h PROVE ~Contains(queue'[b], u)
    <3>1. b \in Name /\ b # g
      BY <1>1 DEF StoreAssumption, Name
    <3>. QED BY <1>10, <1>11, <2>2, <2>3, <3>1
  <2>4. CASE h = g
    BY <1>6, <1>7, <1>10, <2>2, <2>3, <2>4
  <2>5. CASE h # g
    <3>1. h \in Name \ {a, g}
      BY <1>1, <2>5 DEF Name
    <3>. QED BY <1>10, <2>2, <2>3, <3>1
  <2>. QED BY <2>4, <2>5
<1>13. Overflows
  <2>1. ASSUME NEW h \in Genre, h # g, NEW u, StoredFor(h, u) PROVE StoredFor(h, u)'
    BY <1>1, <1>10, <2>1 DEF StoredFor, StoreAssumption
  <2>2. CASE Len(both) > MaxStories
    BY <1>9, <1>10, <2>1, <2>2 DEF Overflows
  <2>3. CASE ~(Len(both) > MaxStories)
    <3>1. t = both
      BY <1>5, <2>3
    <3>2. \A u : StoredFor(g, u) => StoredFor(g, u)'
      <4>1. SUFFICES ASSUME NEW u, NEW n \in Name, Norm[n] = g, Contains(queue[n], u)
                     PROVE  StoredFor(g, u)'
        BY DEF StoredFor
      <4>2. CASE n \in {a, g}
        <5>1. Contains(queue'[g], u) /\ Norm[g] = g
          BY <1>1, <1>3, <1>10, <3>1, <4>1, <4>2 DEF StoreAssumption
        <5>. QED BY <1>1, <5>1 DEF StoredFor
      <4>3. CASE n \notin {a, g}
        BY <1>10, <4>1, <4>3 DEF StoredFor
      <4>. QED BY <4>2, <4>3
    <3>. QED BY <2>1, <3>2 DEF Overflows
  <2>. QED BY <2>2, <2>3
<1>. QED BY <1>12, <1>13 DEF Safe

-----------------------------------------------------------------------------
(* The pass.                                                                *)

PassTyped ==
  /\ pc \in {"idle", "genres", "length", "forget", "walk", "draw", "move", "show",
             "quarantine"}
  /\ names \subseteq Name \cup {Blank} /\ active \subseteq Genre
  /\ genre \in Genre \cup {Nothing}
  /\ left \in 0..MaxPerGenre /\ attempts \in Nat
  /\ moved \in Item \cup {Nothing}
  /\ shown \in Seq(Story)
  /\ backdrop \in [Genre -> {"unread", "read", "failed"}]
  /\ poisoned \in BOOLEAN /\ faults \in 0..MaxFaults

\* What a pass knows at each call: of which genre it is, that a story is still wanted,
\* and what the item is that was moved.
PassInv ==
  /\ pc \in {"length", "forget", "draw", "move", "show", "quarantine"} => genre \in Genre
  /\ pc \in {"move", "show", "quarantine"} => left > 0
  /\ pc = "show" => moved \in Story \cup Untitled
  /\ pc = "quarantine" => moved \in Poison

IInv == StoreTypeOK /\ PassTyped /\ PassInv

\* The invariant holds in every state a service may start in.
LEMMA InitInv == Init => IInv
<1>. SUFFICES ASSUME Init PROVE IInv
  OBVIOUS
<1>1. StoreTypeOK
  <2>1. queue \in [Name -> Seq(Item)]
    BY DEF Init, StoreInit, StoreAssumption
  <2>2. known \subseteq Name \cup {Blank} /\ dedupe \subseteq Genre \X Feed
    BY DEF Init, StoreInit
  <2>3. deadLetter \in Seq(Item) /\ Len(deadLetter) \leq DeadLetters
    <3>1. deadLetter = <<>> /\ <<>> \in Seq(Item) /\ Len(<<>>) = 0
      BY EmptySeq DEF Init, StoreInit
    <3>. QED BY <3>1 DEF StoreAssumption
  <2>4. expired \subseteq Genre \X Feed /\ pushes \in 0..MaxPushes
    BY DEF Init, StoreInit, StoreAssumption
  <2>. QED BY <2>1, <2>2, <2>3, <2>4 DEF StoreTypeOK
<1>2. PassTyped
  <2>1. <<>> \in Seq(Story)
    BY EmptySeq
  <2>2. backdrop \in [Genre -> {"unread", "read", "failed"}] /\ poisoned \in BOOLEAN
    BY DEF Init
  <2>3. left \in 0..MaxPerGenre /\ attempts \in Nat /\ faults \in 0..MaxFaults
    BY DEF Init, StoreAssumption, PassAssumption
  <2>. QED BY <2>1, <2>2, <2>3 DEF Init, PassTyped
<1>3. PassInv
  BY DEF Init, PassInv
<1>. QED BY <1>1, <1>2, <1>3 DEF IInv

\* A step of the pass that leaves the store alone.
LEMMA ReaderStep ==
  ASSUME IInv, UNCHANGED storeVars, PassTyped', PassInv'
  PROVE  IInv' /\ Shelves /\ Bounded
BY UnchangedKeeps DEF IInv, Kept

\* The end of a pass forgets everything but the backdrops.
LEMMA IdleTyped ==
  ASSUME Idle, backdrop' \in [Genre -> {"unread", "read", "failed"}], faults' \in 0..MaxFaults
  PROVE  PassTyped' /\ PassInv'
<1>1. <<>> \in Seq(Story)
  BY EmptySeq
<1>2. left' \in 0..MaxPerGenre /\ attempts' \in Nat
  BY DEF Idle, StoreAssumption, PassAssumption
<1>3. poisoned' \in BOOLEAN
  BY DEF Idle
<1>. QED BY <1>1, <1>2, <1>3 DEF Idle, PassTyped, PassInv

LEMMA TryForgetKeeps ==
  ASSUME IInv, NEW name, TryForget(name)
  PROVE  Kept /\ faults' \in 0..MaxFaults
<1>1. CASE Forget(name) /\ UNCHANGED faults
  BY <1>1, ForgetKeeps DEF IInv, PassTyped
<1>2. CASE faults < MaxFaults /\ faults' = faults + 1 /\ UNCHANGED storeVars
  <2>1. faults' \in 0..MaxFaults
    BY <1>2 DEF IInv, PassTyped, PassAssumption
  <2>. QED BY <1>2, <2>1, UnchangedKeeps DEF IInv
<1>. QED BY <1>1, <1>2 DEF TryForget

LEMMA ClientsStep ==
  ASSUME IInv, Clients
  PROVE  IInv' /\ Shelves /\ Bounded
<1>1. UNCHANGED passVars
  BY DEF Clients
<1>2. Kept
  BY PushKeeps, ExpireKeeps DEF Clients, IInv
<1>3. PassTyped' /\ PassInv'
  BY <1>1 DEF IInv, PassTyped, PassInv, passVars
<1>. QED BY <1>2, <1>3 DEF IInv, Kept

LEMMA GenresStep ==
  ASSUME IInv,
         BeginPass \/ LookAtBlank \/ LookAtAlias \/ LookAtGenre \/ GenreLength \/ ForgetGenre
           \/ GenresReturns
  PROVE  IInv' /\ Shelves /\ Bounded
<1>. USE DEF IInv, PassTyped, PassInv
<1>1. CASE BeginPass
  BY <1>1, ReaderStep DEF BeginPass, StoreTypeOK
<1>2. CASE LookAtBlank
  <2>1. Kept /\ faults' \in 0..MaxFaults
    BY <1>2, TryForgetKeeps DEF LookAtBlank
  <2>2. PassTyped' /\ PassInv'
    BY <1>2, <2>1 DEF LookAtBlank
  <2>. QED BY <2>1, <2>2 DEF Kept
<1>3. CASE LookAtAlias
  <2>1. PICK a \in names \cap Alias : Migrate(a) /\ names' = names \ {a} /\ genre' = Norm[a]
    BY <1>3 DEF LookAtAlias
  <2>2. Kept
    BY <2>1, MigrateKeeps
  <2>3. genre' \in Genre
    BY <2>1 DEF StoreAssumption, Name
  <2>4. PassTyped' /\ PassInv'
    BY <1>3, <2>1, <2>3 DEF LookAtAlias
  <2>. QED BY <2>2, <2>4 DEF Kept
<1>4. CASE LookAtGenre
  BY <1>4, ReaderStep DEF LookAtGenre
<1>5. CASE GenreLength
  BY <1>5, ReaderStep DEF GenreLength
<1>6. CASE ForgetGenre
  <2>1. Kept /\ faults' \in 0..MaxFaults
    BY <1>6, TryForgetKeeps DEF ForgetGenre
  <2>2. PassTyped' /\ PassInv'
    BY <1>6, <2>1 DEF ForgetGenre
  <2>. QED BY <2>1, <2>2 DEF Kept
<1>7. CASE GenresReturns
  BY <1>7, ReaderStep DEF GenresReturns
<1>. QED BY <1>1, <1>2, <1>3, <1>4, <1>5, <1>6, <1>7

LEMMA GenreStep ==
  ASSUME IInv, OpenGenre \/ BackdropFails \/ PassReturns \/ CloseGenre \/ PassFails
  PROVE  IInv' /\ Shelves /\ Bounded
<1>. USE DEF IInv, PassTyped, PassInv
<1>1. CASE OpenGenre
  <2>1. PICK g \in active :
          /\ backdrop' = [backdrop EXCEPT ![g] = "read"]
          /\ active' = active \ {g} /\ genre' = g /\ left' = PassLength(g)
    BY <1>1 DEF OpenGenre
  <2>2. g \in Genre /\ Len(queue[g]) \in Nat
    BY DEF StoreTypeOK, Name
  <2>3. left' \in 0..MaxPerGenre
    BY <2>1, <2>2 DEF PassLength, PassAssumption
  <2>4. shown' \in Seq(Story)
    BY <1>1, EmptySeq DEF OpenGenre
  <2>5. poisoned' \in BOOLEAN
    BY <1>1 DEF OpenGenre
  <2>6. UNCHANGED <<storeVars, names, attempts, moved, faults>> /\ pc' = "draw"
    BY <1>1 DEF OpenGenre
  <2>7. PassTyped' /\ PassInv'
    BY <2>1, <2>2, <2>3, <2>4, <2>5, <2>6
  <2>. QED BY <2>6, <2>7, ReaderStep
<1>2. CASE BackdropFails
  <2>1. faults' \in 0..MaxFaults
    BY <1>2 DEF BackdropFails, PassAssumption
  <2>2. backdrop' \in [Genre -> {"unread", "read", "failed"}]
    BY <1>2 DEF BackdropFails
  <2>. QED BY <1>2, <2>1, <2>2, IdleTyped, ReaderStep DEF BackdropFails
<1>3. CASE PassReturns
  <2>1. faults' \in 0..MaxFaults /\ backdrop' \in [Genre -> {"unread", "read", "failed"}]
    BY <1>3 DEF PassReturns
  <2>. QED BY <1>3, <2>1, IdleTyped, ReaderStep DEF PassReturns
<1>4. CASE CloseGenre
  <2>1. shown' \in Seq(Story)
    BY <1>4, EmptySeq DEF CloseGenre
  <2>2. left' \in 0..MaxPerGenre /\ attempts' \in Nat
    BY <1>4 DEF CloseGenre, StoreAssumption, PassAssumption
  <2>3. poisoned' \in BOOLEAN
    BY <1>4 DEF CloseGenre
  <2>4. PassTyped' /\ PassInv'
    BY <1>4, <2>1, <2>2, <2>3 DEF CloseGenre
  <2>. QED BY <1>4, <2>4, ReaderStep DEF CloseGenre
<1>5. CASE PassFails
  <2>1. faults' \in 0..MaxFaults /\ backdrop' \in [Genre -> {"unread", "read", "failed"}]
    BY <1>5 DEF PassFails, PassAssumption
  <2>. QED BY <1>5, <2>1, IdleTyped, ReaderStep DEF PassFails
<1>. QED BY <1>1, <1>2, <1>3, <1>4, <1>5

LEMMA StoryStep ==
  ASSUME IInv, NextBegins \/ Move \/ ShowStory \/ QuarantineItem
  PROVE  IInv' /\ Shelves /\ Bounded
<1>. USE DEF IInv, PassTyped, PassInv
<1>1. CASE NextBegins
  <2>1. attempts' \in Nat
    BY <1>1 DEF NextBegins, StoreTypeOK, StoreAssumption, Name
  <2>2. PassTyped' /\ PassInv'
    BY <1>1, <2>1 DEF NextBegins
  <2>. QED BY <1>1, <2>2, ReaderStep DEF NextBegins
<1>2. CASE Move
  <2>1. genre \in Genre /\ queue[genre] # <<>> /\ Rotate(genre)
    BY <1>2 DEF Move
  <2>2. Kept /\ moved' \in Item
    BY <1>2, <2>1, RotateKeeps DEF Move
  <2>3. attempts' \in Nat
    BY <1>2 DEF Move, StoreAssumption
  <2>4. PassTyped' /\ PassInv'
    BY <1>2, <2>2, <2>3 DEF Move, Item
  <2>. QED BY <2>2, <2>4 DEF Kept
<1>3. CASE ShowStory
  <2>1. left' \in 0..MaxPerGenre /\ attempts' \in Nat
    BY <1>3 DEF ShowStory, StoreAssumption, PassAssumption
  <2>2. shown' \in Seq(Story)
    <3>1. CASE moved \in Untitled
      BY <1>3, <3>1 DEF ShowStory
    <3>2. CASE moved \in Story /\ moved \notin Untitled
      BY <1>3, <3>2, AppendProperties DEF ShowStory
    <3>. QED BY <1>3, <3>1, <3>2 DEF ShowStory
  <2>3. PassTyped' /\ PassInv'
    BY <1>3, <2>1, <2>2 DEF ShowStory
  <2>. QED BY <1>3, <2>3, ReaderStep DEF ShowStory
<1>4. CASE QuarantineItem
  <2>1. genre \in Genre /\ moved \in Item /\ Quarantine(genre, moved)
    BY <1>4 DEF QuarantineItem, Item
  <2>2. Kept
    BY <2>1, QuarantineKeeps
  <2>3. poisoned' \in BOOLEAN
    BY <1>4 DEF QuarantineItem
  <2>4. PassTyped' /\ PassInv'
    BY <1>4, <2>3 DEF QuarantineItem
  <2>. QED BY <2>2, <2>4 DEF Kept
<1>. QED BY <1>1, <1>2, <1>3, <1>4

LEMMA NextInv == IInv /\ [Next]_vars => IInv' /\ Shelves /\ Bounded
<1>. SUFFICES ASSUME IInv, [Next]_vars PROVE IInv' /\ Shelves /\ Bounded
  OBVIOUS
<1>1. CASE UNCHANGED vars
  <2>1. PassTyped' /\ PassInv'
    BY <1>1 DEF vars, passVars, IInv, PassTyped, PassInv
  <2>. QED BY <1>1, <2>1, ReaderStep DEF vars
<1>2. CASE Next
  BY <1>2, GenresStep, GenreStep, StoryStep, ClientsStep DEF Next, PassStep
<1>. QED BY <1>1, <1>2

-----------------------------------------------------------------------------
(* The stories of a pass.                                                   *)

LEMMA InitOnce == Init => StoredOnce
<1>1. SUFFICES ASSUME Init, NEW g \in Genre, NEW s \in Feed, <<g, s>> \notin expired
               PROVE  /\ Once(queue[g], s)
                      /\ Contains(queue[g], s) => <<g, s>> \in dedupe
                      /\ \A a \in Alias : Norm[a] = g => ~Contains(queue[a], s)
  BY DEF StoredOnce
<1>2. g \in Name /\ Norm[g] = g /\ queue[g] \in Seq(Item) /\ Alias \subseteq Name
  BY <1>1 DEF Init, StoreInit, StoreAssumption, Name
<1>3. CASE StoredFor(g, s)
  <2>1. <<g, s>> \in dedupe \ expired
    BY <1>1, <1>3 DEF Init, StoreInit
  <2>2. /\ Occurrences(queue[g], s) = 1
        /\ \A a \in Alias : Norm[a] = g => ~Contains(queue[a], s)
    BY <1>1, <2>1 DEF Init, StoreInit
  <2>. QED BY <1>2, <2>1, <2>2, OnceCounts
<1>4. CASE ~StoredFor(g, s)
  BY <1>2, <1>4 DEF StoredFor, Once, Contains
<1>. QED BY <1>3, <1>4

LEMMA SafeStore ==
  ASSUME StoredOnce, UNCHANGED storeVars
  PROVE  Safe
  BY SafeQueues DEF storeVars

LEMMA SafeForget ==
  ASSUME StoredOnce, NEW name, TryForget(name)
  PROVE  Safe
  BY SafeQueues, SafeStore DEF TryForget, Forget

LEMMA SafeStep == IInv /\ StoredOnce /\ [Next]_vars => Safe
<1>. SUFFICES ASSUME IInv, StoredOnce, [Next]_vars PROVE Safe
  OBVIOUS
<1>1. CASE UNCHANGED vars
  BY <1>1, SafeStore DEF vars
<1>2. CASE Clients
  <2>1. ASSUME NEW g \in Genre, NEW s \in Feed, Push(g, s) PROVE Safe
    BY <2>1, SafePush DEF IInv
  <2>2. ASSUME NEW key \in dedupe, Expire(key) PROVE Safe
    BY <2>2, SafeQueues DEF Expire
  <2>. QED BY <1>2, <2>1, <2>2 DEF Clients
<1>3. CASE LookAtBlank
  BY <1>3, SafeForget DEF LookAtBlank
<1>4. CASE ForgetGenre
  BY <1>4, SafeForget DEF ForgetGenre
<1>5. CASE LookAtAlias
  BY <1>5, SafeMigrate DEF LookAtAlias, IInv
<1>6. CASE Move
  <2>1. genre \in Genre /\ queue[genre] # <<>> /\ Rotate(genre)
    BY <1>6 DEF Move, IInv, PassInv
  <2>2. genre \in Name /\ queue[genre] \in Seq(Item)
    BY <2>1 DEF IInv, StoreTypeOK, Name
  <2>3. /\ Rotated(queue[genre]) \in Seq(Item) /\ Picks(Rotated(queue[genre]), queue[genre])
        /\ \A e : Contains(queue[genre], e) => Contains(Rotated(queue[genre]), e)
    BY <2>1, <2>2, RotatedKeeps, RotatedPicks
  <2>4. /\ queue' = [queue EXCEPT ![genre] = Rotated(queue[genre])]
        /\ UNCHANGED <<dedupe, expired>>
    BY <2>1 DEF Rotate
  <2>. QED BY <2>2, <2>3, <2>4, SafeList DEF IInv
<1>7. CASE QuarantineItem
  <2>1. genre \in Genre /\ moved \in Poison /\ Quarantine(genre, moved)
    BY <1>7 DEF QuarantineItem, IInv, PassInv
  <2>2. genre \in Name /\ queue[genre] \in Seq(Item) /\ moved \notin Story
    BY <2>1 DEF IInv, StoreTypeOK, StoreAssumption, Name
  <2>. DEFINE t == WithoutPoison(queue[genre], moved)
  <2>3. /\ t \in Seq(Item) /\ Picks(t, queue[genre])
        /\ \A e : e # moved /\ Contains(queue[genre], e) => Contains(t, e)
    BY <2>2, RemovedKeepsOthers, RemovedPicks
  <2>4. queue' = [queue EXCEPT ![genre] = t] /\ UNCHANGED <<dedupe, expired>>
    BY <2>1 DEF Quarantine
  <2>5. \A s \in Story : Contains(queue[genre], s) => Contains(t, s)
    BY <2>2, <2>3
  <2>. HIDE DEF t
  <2>. QED BY <2>2, <2>3, <2>4, <2>5, SafeList DEF IInv
<1>8. CASE UNCHANGED storeVars
  BY <1>8, SafeStore
<1>. QED
  BY <1>1, <1>2, <1>3, <1>4, <1>5, <1>6, <1>7, <1>8
  DEF Next, PassStep, BeginPass, LookAtGenre, GenreLength, GenresReturns, OpenGenre,
      BackdropFails, PassReturns, CloseGenre, NextBegins, ShowStory, PassFails

\* Of the items of list q, the last n at least are not in S, nor any that is stored behind them.
Ahead(q, n, S) ==
  \E k \in 0..Len(q) : n + k \leq Len(q) /\ \A i \in 1..Len(q) : i > k => q[i] \notin S

\* LMOVE takes such an item, and puts it out of the way.
LEMMA AheadRotated ==
  ASSUME NEW q \in Seq(Item), q # <<>>, NEW n \in Nat, n > 0, NEW S, Ahead(q, n, S),
         NEW T \in SUBSET {Last(q)}, T = {} \/ Once(q, Last(q))
  PROVE  Last(q) \notin S /\ Ahead(Rotated(q), n - 1, S \cup T)
<1>1. PICK k \in 0..Len(q) : n + k \leq Len(q) /\ \A i \in 1..Len(q) : i > k => q[i] \notin S
  BY DEF Ahead
<1>. DEFINE t == Rotated(q)
<1>2. /\ Len(t) = Len(q) /\ Last(q) = q[Len(q)]
      /\ \A i \in 2..Len(q) : t[i] = q[i - 1]
  BY RotatedItems
<1>. HIDE DEF t
<1>3. Len(q) \in Nat /\ Len(q) \in 1..Len(q) /\ Len(q) > k /\ k + 1 \in 0..Len(q)
  BY <1>1
<1>4. Last(q) \notin S
  BY <1>1, <1>2, <1>3
<1>5. ASSUME NEW i \in 1..Len(q), i > k + 1 PROVE t[i] \notin S \cup T
  <2>1. i - 1 \in 1..Len(q) /\ i - 1 > k /\ i - 1 # Len(q) /\ i \in 2..Len(q)
    BY <1>3, <1>5
  <2>2. t[i] = q[i - 1] /\ q[i - 1] \notin S
    BY <1>1, <1>2, <2>1
  <2>3. T = {} \/ q[i - 1] # Last(q)
    BY <1>2, <1>3, <2>1 DEF Once
  <2>. QED BY <2>2, <2>3
<1>6. (n - 1) + (k + 1) \leq Len(q)
  BY <1>1, <1>3
<1>7. Ahead(t, n - 1, S \cup T)
  BY <1>2, <1>3, <1>5, <1>6 DEF Ahead
<1>. QED BY <1>4, <1>7 DEF t

\* A push that trims the list drops the oldest items, and leaves as many as its limit.
LEMMA AheadPushed ==
  ASSUME NEW q \in Seq(Item), MaxStories \in Nat \ {0},
         NEW n \in Int, n \leq MaxStories, NEW S, Ahead(q, n, S), NEW x \in Item, x \notin S
  PROVE  Ahead(LastOf(Append(q, x), MaxStories), n, S)
<1>1. PICK k \in 0..Len(q) : n + k \leq Len(q) /\ \A i \in 1..Len(q) : i > k => q[i] \notin S
  BY DEF Ahead
<1>. DEFINE all == Append(q, x)
            t == LastOf(all, MaxStories)
<1>2. /\ all \in Seq(Item) /\ Len(all) = Len(q) + 1 /\ Len(q) \in Nat
      /\ all[Len(q) + 1] = x /\ \A i \in 1..Len(q) : all[i] = q[i]
  BY AppendProperties
<1>. HIDE DEF all
<1>3. PICK d \in 0..Len(all) :
        /\ Len(t) = Len(all) - d
        /\ d = 0 \/ Len(all) - d = MaxStories
        /\ \A i \in 1..Len(all) - d : t[i] = all[i + d]
  <2>1. all \in Seq(Item) /\ MaxStories \in Nat \ {0}
    BY <1>2
  <2>. QED BY <2>1, TrimmedItems, Zenon
<1>. HIDE DEF t
<1>4. d \in Nat /\ Len(t) \in Nat
  BY <1>2, <1>3
<1>. DEFINE l == IF k < d THEN 0 ELSE k - d
<1>5. l \in 0..Len(t) /\ n + l \leq Len(t) /\ l + d \geq k
  BY <1>1, <1>2, <1>3, <1>4
<1>. HIDE DEF l
<1>6. ASSUME NEW i \in 1..Len(t), i > l PROVE t[i] \notin S
  <2>1. i + d \in 1..Len(q) + 1 /\ i + d > k /\ i \in 1..Len(all) - d
    BY <1>2, <1>3, <1>4, <1>5, <1>6
  <2>2. t[i] = all[i + d]
    BY <1>3, <2>1
  <2>3. all[i + d] \notin S
    <3>. DEFINE j == i + d
    <3>. SUFFICES all[j] \notin S
      OBVIOUS
    <3>1. j \in 1..Len(q) + 1 /\ j > k
      BY <2>1
    <3>. HIDE DEF j
    <3>2. CASE j = Len(q) + 1
      BY <1>2, <3>2
    <3>3. CASE j # Len(q) + 1
      <4>1. j \in 1..Len(q)
        BY <1>2, <3>1, <3>3
      <4>. QED BY <1>1, <1>2, <3>1, <4>1
    <3>. QED BY <3>2, <3>3
  <2>. QED BY <2>2, <2>3
<1>7. Ahead(t, n, S)
  BY <1>5, <1>6 DEF Ahead
<1>. QED BY <1>7 DEF t, all

\* The stories of the pass that clients push.
Seen == {s \in Feed : Contains(shown, s)}

\* While no key is over and nothing is quarantined, the stories a pass has shown are out of the
\* way of those it has still to show, and a client that pushes one again is refused.
WalkInv ==
  MaxPerGenre \leq MaxStories /\ expired = {} /\ ~poisoned =>
    /\ \A s \in Feed : Once(shown, s)
    /\ pc \in {"draw", "move", "show"} => \A s \in Seen : <<genre, s>> \in dedupe
    /\ pc \in {"draw", "move"} => Ahead(queue[genre], left, Seen)
    /\ pc = "show" => /\ Ahead(queue[genre], left - 1, Seen \cup ({moved} \cap Feed))
                      /\ moved \in Feed => moved \notin Seen /\ <<genre, moved>> \in dedupe

\* A pass that is not at a genre has shown nothing that could be shown again.
LEMMA NothingSeen ==
  ASSUME shown' = <<>>, pc' \notin {"draw", "move", "show"}
  PROVE  WalkInv'
<1>1. \A s : Once(<<>>, s)
  BY EmptySeq DEF Once
<1>. QED BY <1>1 DEF WalkInv

LEMMA WalkFrame ==
  ASSUME WalkInv, UNCHANGED <<storeVars, genre, shown, poisoned>>,
         pc' \in {"draw", "move"} => pc \in {"draw", "move"} /\ left' = left,
         pc' # "show"
  PROVE  WalkInv'
<1>1. Seen' = Seen
  BY DEF Seen
<1>. QED BY <1>1 DEF WalkInv, storeVars

\* While Genres asks for the lists, nothing is shown.
LEMMA WalkAway ==
  ASSUME WalkInv, expired' = expired, UNCHANGED <<shown, poisoned>>,
         pc' \notin {"draw", "move", "show"}
  PROVE  WalkInv'
  BY DEF WalkInv

LEMMA WalkPush ==
  ASSUME IInv, WalkInv, NEW g \in Genre, NEW s \in Feed, Push(g, s), UNCHANGED passVars
  PROVE  WalkInv'
<1>1. SUFFICES ASSUME MaxPerGenre \leq MaxStories, expired = {}, ~poisoned PROVE WalkInv'
  BY DEF WalkInv, Push, passVars
<1>2. /\ UNCHANGED <<pc, genre, left, moved, shown, poisoned>> /\ expired' = expired
      /\ dedupe' = dedupe \cup {<<g, s>>} /\ <<g, s>> \notin dedupe
      /\ queue' = [queue EXCEPT ![g] = LastOf(Append(@, s), MaxStories)]
  BY DEF Push, NotYetStored, passVars
<1>3. Seen' = Seen
  BY <1>2 DEF Seen
<1>4. /\ g \in Name /\ queue \in [Name -> Seq(Item)] /\ queue[g] \in Seq(Item) /\ s \in Item
      /\ MaxStories \in Nat \ {0}
  BY DEF IInv, StoreTypeOK, StoreAssumption, Name, Item
<1>5. left \in Int /\ left - 1 \in Int /\ left \leq MaxStories /\ left - 1 \leq MaxStories
  BY <1>1, <1>4 DEF IInv, PassTyped, PassAssumption
<1>6. ASSUME NEW n \in Int, n \leq MaxStories, NEW S, Ahead(queue[genre], n, S),
             s \notin S \/ genre # g, genre \in Genre
      PROVE  Ahead(queue'[genre], n, S)
  <2>1. CASE genre # g
    BY <1>2, <1>4, <1>6, <2>1 DEF Name
  <2>2. CASE genre = g
    <3>1. queue'[genre] = LastOf(Append(queue[g], s), MaxStories)
      BY <1>2, <1>4, <2>2
    <3>. QED BY <1>4, <1>6, <2>2, <3>1, AheadPushed
  <2>. QED BY <2>1, <2>2
<1>7. pc \in {"draw", "move", "show"} => genre \in Genre /\ (s \notin Seen \/ genre # g)
  BY <1>1, <1>2 DEF WalkInv, IInv, PassInv
<1>8. pc \in {"draw", "move"} => Ahead(queue'[genre], left, Seen)
  BY <1>1, <1>5, <1>6, <1>7 DEF WalkInv
<1>9. ASSUME pc = "show"
      PROVE  Ahead(queue'[genre], left - 1, Seen \cup ({moved} \cap Feed))
  <2>1. s \notin Seen \cup ({moved} \cap Feed) \/ genre # g
    BY <1>1, <1>2, <1>7, <1>9 DEF WalkInv
  <2>2. Ahead(queue[genre], left - 1, Seen \cup ({moved} \cap Feed))
    BY <1>1, <1>9 DEF WalkInv
  <2>. QED BY <1>5, <1>6, <1>7, <1>9, <2>1, <2>2
<1>. QED BY <1>1, <1>2, <1>3, <1>8, <1>9 DEF WalkInv

LEMMA WalkOpens ==
  ASSUME IInv, OpenGenre
  PROVE  WalkInv'
<1>1. PICK g \in active : genre' = g /\ left' = PassLength(g)
  BY DEF OpenGenre
<1>2. pc' = "draw" /\ shown' = <<>> /\ queue' = queue
  BY DEF OpenGenre, storeVars
<1>3. g \in Genre /\ queue[g] \in Seq(Item) /\ Len(queue[g]) \in Nat
  BY DEF IInv, StoreTypeOK, PassTyped, Name
<1>4. Seen' = {} /\ \A s : Once(<<>>, s)
  BY <1>2, EmptySeq DEF Seen, Contains, Once
<1>5. left' \leq Len(queue[g]) /\ left' \in Nat
  BY <1>1, <1>3 DEF PassLength, PassAssumption
<1>6. Ahead(queue[g], left', {})
  <2>1. 0 \in 0..Len(queue[g]) /\ left' + 0 \leq Len(queue[g])
    BY <1>3, <1>5
  <2>. QED BY <2>1 DEF Ahead
<1>. QED BY <1>1, <1>2, <1>4, <1>6 DEF WalkInv

LEMMA WalkMoves ==
  ASSUME IInv, StoredOnce, WalkInv, Move
  PROVE  WalkInv'
<1>1. SUFFICES ASSUME MaxPerGenre \leq MaxStories, expired = {}, ~poisoned PROVE WalkInv'
  BY DEF WalkInv, Move, Rotate
<1>2. /\ pc = "move" /\ genre \in Genre /\ queue[genre] # <<>> /\ left > 0 /\ left \in Nat
      /\ genre \in Name /\ queue \in [Name -> Seq(Item)] /\ queue[genre] \in Seq(Item)
  BY DEF Move, IInv, PassInv, PassTyped, StoreTypeOK, Name, PassAssumption
<1>3. /\ queue' = [queue EXCEPT ![genre] = Rotated(@)]
      /\ moved' = Last(queue[genre]) /\ UNCHANGED <<genre, left, shown, poisoned, dedupe, expired>>
      /\ pc' \in {"show", "quarantine"}
  BY DEF Move, Rotate
<1>. DEFINE q == queue[genre]
            T == {moved'} \cap Feed
<1>4. /\ Ahead(q, left, Seen) /\ \A s \in Feed : Once(shown, s)
      /\ \A s \in Seen : <<genre, s>> \in dedupe
  BY <1>1, <1>2 DEF WalkInv
<1>5. Seen' = Seen /\ queue'[genre] = Rotated(q)
  BY <1>2, <1>3 DEF Seen
<1>6. moved' \in Feed => Once(q, moved') /\ <<genre, moved'>> \in dedupe
  <2>1. Contains(q, moved')
    <3>1. Len(q) \in Nat /\ Len(q) \geq 1
      BY <1>2, EmptySeq
    <3>. QED BY <1>3, <3>1 DEF Contains, Last
  <2>. QED BY <1>1, <1>2, <2>1 DEF StoredOnce
<1>7. Last(q) \notin Seen /\ Ahead(Rotated(q), left - 1, Seen \cup T)
  <2>1. T \in SUBSET {Last(q)} /\ (T = {} \/ Once(q, Last(q)))
    BY <1>3, <1>6
  <2>. HIDE DEF q, T
  <2>2. q \in Seq(Item) /\ q # <<>>
    BY <1>2 DEF q
  <2>. QED BY <1>2, <1>4, <2>1, <2>2, AheadRotated
<1>. HIDE DEF q
<1>8. Ahead(queue'[genre], left - 1, Seen \cup ({moved'} \cap Feed))
  BY <1>5, <1>7
<1>9. moved' \in Feed => moved' \notin Seen /\ <<genre, moved'>> \in dedupe
  BY <1>3, <1>6, <1>7 DEF q
<1>. QED BY <1>3, <1>4, <1>5, <1>8, <1>9 DEF WalkInv

LEMMA WalkShows ==
  ASSUME IInv, WalkInv, ShowStory
  PROVE  WalkInv'
<1>1. SUFFICES ASSUME MaxPerGenre \leq MaxStories, expired = {}, ~poisoned PROVE WalkInv'
  BY DEF WalkInv, ShowStory, storeVars
<1>2. /\ pc = "show" /\ pc' = "draw" /\ left' = left - 1 /\ moved \in Story \cup Untitled
      /\ UNCHANGED <<storeVars, genre, poisoned>> /\ shown \in Seq(Story)
      /\ shown' = IF moved \in Untitled THEN shown ELSE Append(shown, moved)
  BY DEF ShowStory, IInv, PassInv, PassTyped
<1>3. /\ Ahead(queue[genre], left - 1, Seen \cup ({moved} \cap Feed))
      /\ moved \in Feed => moved \notin Seen /\ <<genre, moved>> \in dedupe
      /\ \A s \in Feed : Once(shown, s)
      /\ \A s \in Seen : <<genre, s>> \in dedupe
  BY <1>1, <1>2 DEF WalkInv
<1>4. Seen' = Seen \cup ({moved} \cap Feed) /\ \A s \in Feed : Once(shown', s)
  <2>1. CASE moved \in Untitled
    <3>1. moved \notin Feed /\ shown' = shown
      BY <1>2, <2>1 DEF StoreAssumption
    <3>. QED BY <1>3, <3>1 DEF Seen
  <2>2. CASE moved \notin Untitled
    <3>1. /\ shown' = Append(shown, moved) /\ Len(shown') = Len(shown) + 1
          /\ Len(shown) \in Nat /\ shown'[Len(shown) + 1] = moved
          /\ \A i \in 1..Len(shown) : shown'[i] = shown[i]
      BY <1>2, <2>2, AppendProperties
    <3>2. \A i \in 1..Len(shown') : i = Len(shown) + 1 \/ i \in 1..Len(shown)
      BY <3>1
    <3>3. \A i \in 1..Len(shown) : i \in 1..Len(shown')
      BY <3>1
    <3>4. \A s : Contains(shown', s) <=> Contains(shown, s) \/ s = moved
      BY <3>1, <3>2, <3>3 DEF Contains
    <3>5. Seen' = Seen \cup ({moved} \cap Feed)
      BY <3>4 DEF Seen
    <3>6. ASSUME NEW s \in Feed PROVE Once(shown', s)
      <4>1. Once(shown, s) /\ (s = moved => ~Contains(shown, s))
        BY <1>3 DEF Seen
      <4>. QED BY <3>1, <3>2, <4>1 DEF Once, Contains
    <3>. QED BY <3>5, <3>6
  <2>. QED BY <2>1, <2>2
<1>. QED BY <1>2, <1>3, <1>4 DEF WalkInv, storeVars

LEMMA WalkStep == IInv /\ StoredOnce /\ WalkInv /\ [Next]_vars => WalkInv'
<1>. SUFFICES ASSUME IInv, StoredOnce, WalkInv, [Next]_vars PROVE WalkInv'
  OBVIOUS
<1>1. CASE UNCHANGED vars
  <2>1. Seen' = Seen
    BY <1>1 DEF Seen, vars, passVars
  <2>. QED BY <1>1, <2>1 DEF WalkInv, vars, storeVars, passVars
<1>2. CASE Clients
  <2>1. ASSUME NEW g \in Genre, NEW s \in Feed, Push(g, s), UNCHANGED passVars PROVE WalkInv'
    BY <2>1, WalkPush
  <2>2. ASSUME NEW key \in dedupe, Expire(key) PROVE WalkInv'
    BY <2>2 DEF Expire, WalkInv
  <2>. QED BY <1>2, <2>1, <2>2 DEF Clients
<1>3. CASE BeginPass
  BY <1>3, WalkAway DEF BeginPass, storeVars
<1>4. ASSUME NEW name, TryForget(name) PROVE expired' = expired
  BY <1>4 DEF TryForget, Forget, storeVars
<1>5. CASE LookAtBlank
  BY <1>4, <1>5, WalkAway DEF LookAtBlank
<1>6. CASE LookAtAlias
  BY <1>6, WalkAway DEF LookAtAlias, Migrate
<1>7. CASE LookAtGenre
  BY <1>7, WalkAway DEF LookAtGenre, storeVars
<1>8. CASE GenreLength
  BY <1>8, WalkAway DEF GenreLength, storeVars
<1>9. CASE ForgetGenre
  BY <1>4, <1>9, WalkAway DEF ForgetGenre
<1>10. CASE GenresReturns
  BY <1>10, WalkAway DEF GenresReturns, storeVars
<1>11. CASE OpenGenre
  BY <1>11, WalkOpens
<1>12. CASE BackdropFails \/ PassReturns \/ PassFails
  BY <1>12, NothingSeen DEF BackdropFails, PassReturns, PassFails, Idle
<1>13. CASE CloseGenre
  BY <1>13, NothingSeen DEF CloseGenre
<1>14. CASE NextBegins
  BY <1>14, WalkFrame DEF NextBegins
<1>15. CASE Move
  BY <1>15, WalkMoves
<1>16. CASE ShowStory
  BY <1>16, WalkShows
<1>17. CASE QuarantineItem
  BY <1>17 DEF QuarantineItem, WalkInv
<1>. QED
  BY <1>1, <1>2, <1>3, <1>5, <1>6, <1>7, <1>8, <1>9, <1>10, <1>11, <1>12, <1>13, <1>14, <1>15,
     <1>16, <1>17
  DEF Next, PassStep

-----------------------------------------------------------------------------
\* The variables keep their types, and with them their limits: stories of a genre left to show,
\* dead letters, passes cut short.
THEOREM TypeCorrect == Spec => []TypeOK
<1>1. IInv => TypeOK
  BY DEF IInv, PassTyped, TypeOK
<1>. QED BY <1>1, InitInv, NextInv, PTL DEF Spec

\* Whatever clients push while a pass rotates, quarantines or migrates lists, none that takes
\* something in is longer than the limit, and none that was longer already grows, for every
\* limit and every number of genres, however long the lists in Redis are at the start.
THEOREM ListsAreBounded == Spec => QueueBound
<1>1. Bounded => [Bounded]_storeVars
  OBVIOUS
<1>. QED BY <1>1, InitInv, NextInv, PTL DEF Spec, QueueBound, Bounded

\* In no step does an item that cannot be decoded get lost on its way to the dead letters:
\* it leaves the store with the entry that records it, or a full list pushes it out.
THEOREM PoisonReachesDeadLetters == Spec => PoisonIsShelved
<1>1. Shelves => [Shelves]_storeVars
  OBVIOUS
<1>. QED BY <1>1, InitInv, NextInv, PTL DEF Spec, PoisonIsShelved, Shelves

\* Whatever is pushed again, rotated, migrated or quarantined, a story whose key was never over
\* is in the list of its genre at most once.
THEOREM NothingStoredTwice == Spec => []NoDuplicates
<1>1. IInv /\ StoredOnce => NoDuplicates
  <2>1. IInv => \A g \in Genre : queue[g] \in Seq(Item)
    BY DEF IInv, StoreTypeOK, Name
  <2>. QED BY <2>1, OnceCounts DEF StoredOnce, NoDuplicates
<1>2. IInv /\ StoredOnce /\ [Next]_vars => StoredOnce'
  BY SafeStep DEF Safe
<1>. QED BY <1>1, <1>2, InitInv, NextInv, InitOnce, PTL DEF Spec

\* A story leaves the store only from a list that takes in more than its limit allows.
THEOREM LostByTrimAlone == Spec => LostOnlyByTrim
<1>1. Overflows => [Overflows]_storeVars
  OBVIOUS
<1>2. IInv /\ StoredOnce /\ [Next]_vars => StoredOnce' /\ Overflows
  BY SafeStep DEF Safe
<1>. QED BY <1>1, <1>2, InitInv, NextInv, InitOnce, PTL DEF Spec, LostOnlyByTrim, Overflows

\* No pass shows a story twice, however many stories clients push while it runs and whichever of
\* them the limit drops, as long as no key is over and nothing was quarantined.
THEOREM NoStoryShownTwice == Spec => []NoRepeats
<1>1. IInv /\ WalkInv => NoRepeats
  <2>1. IInv => shown \in Seq(Story)
    BY DEF IInv, PassTyped
  <2>. QED BY <2>1, OnceCounts DEF WalkInv, NoRepeats
<1>2. Init => WalkInv
  <2>1. \A s : Once(<<>>, s)
    BY EmptySeq DEF Once
  <2>. QED BY <2>1 DEF Init, WalkInv
<1>3. IInv /\ StoredOnce /\ [Next]_vars => StoredOnce'
  BY SafeStep DEF Safe
<1>. QED BY <1>1, <1>2, <1>3, InitInv, NextInv, InitOnce, WalkStep, PTL DEF Spec
===============================================================================
