----------------------------- MODULE SeqLemmas -----------------------------
(***************************************************************************)
(* Facts about sequences, least elements and recursions that the proofs of *)
(* several components use.                                                 *)
(***************************************************************************)
EXTENDS Integers, SequencesExt, SequenceTheorems, WellFoundedInduction, TLAPS

\* Appending an element keeps a sequence in its type.
LEMMA AppendType ==
  ASSUME NEW S, NEW s \in Seq(S), NEW e \in S
  PROVE  /\ Append(s, e) \in Seq(S)
         /\ Len(Append(s, e)) = Len(s) + 1
         /\ \A i \in 1..Len(s) : Append(s, e)[i] = s[i]
         /\ Append(s, e)[Len(s) + 1] = e
  OBVIOUS

\* RemoveAt drops one element and keeps the order of the others.
LEMMA RemoveAtType ==
  ASSUME NEW S, NEW s \in Seq(S), NEW k \in 1..Len(s)
  PROVE  /\ RemoveAt(s, k) \in Seq(S)
         /\ Len(RemoveAt(s, k)) = Len(s) - 1
         /\ \A i \in 1..Len(s) - 1 :
              RemoveAt(s, k)[i] = s[IF i < k THEN i ELSE i + 1]
<1> DEFINE a == SubSeq(s, 1, k - 1)
           b == SubSeq(s, k + 1, Len(s))
<1>1. Len(s) \in Nat
  BY LenProperties
<1>2. \A i \in 1..Len(s) : s[i] \in S
  BY ElementOfSeq
<1>3. a \in Seq(S) /\ Len(a) = k - 1 /\ \A i \in 1..k - 1 : a[i] = s[i]
  <2>1. \A i \in 1..k - 1 : s[i] \in S
    BY <1>1, <1>2
  <2>2. /\ a \in Seq(S) /\ Len(a) = IF 1 <= k - 1 THEN k - 1 - 1 + 1 ELSE 0
        /\ \A i \in 1..k - 1 - 1 + 1 : a[i] = s[1 + i - 1]
    BY <1>1, <2>1, SubSeqProperties
  <2> QED BY <1>1, <2>2
<1>4. /\ b \in Seq(S) /\ Len(b) = Len(s) - k
      /\ \A i \in 1..Len(s) - k : b[i] = s[k + i]
  <2>1. \A i \in k + 1..Len(s) : s[i] \in S
    BY <1>1, <1>2
  <2>2. /\ b \in Seq(S)
        /\ Len(b) = IF k + 1 <= Len(s) THEN Len(s) - (k + 1) + 1 ELSE 0
        /\ \A i \in 1..Len(s) - (k + 1) + 1 : b[i] = s[k + 1 + i - 1]
    BY <1>1, <2>1, SubSeqProperties
  <2> QED BY <1>1, <2>2
<1>5. /\ a \o b \in Seq(S) /\ Len(a \o b) = Len(a) + Len(b)
      /\ \A i \in 1..Len(a) + Len(b) :
           (a \o b)[i] = IF i <= Len(a) THEN a[i] ELSE b[i - Len(a)]
  BY <1>3, <1>4, ConcatProperties
<1>6. RemoveAt(s, k) = a \o b
  BY DEF RemoveAt
<1>7. ASSUME NEW i \in 1..Len(s) - 1
      PROVE  RemoveAt(s, k)[i] = s[IF i < k THEN i ELSE i + 1]
  <2> HIDE DEF a, b
  <2>1. i \in 1..Len(a) + Len(b)
    BY <1>1, <1>3, <1>4
  <2>2. CASE i < k
    BY <2>1, <2>2, <1>1, <1>3, <1>5, <1>6
  <2>3. CASE ~(i < k)
    <3>1. i - Len(a) \in 1..Len(s) - k /\ ~(i <= Len(a))
      BY <2>3, <1>1, <1>3
    <3>2. b[i - Len(a)] = s[k + (i - Len(a))]
      BY <3>1, <1>4
    <3> QED BY <2>1, <2>3, <3>1, <3>2, <1>1, <1>3, <1>5, <1>6
  <2> QED BY <2>2, <2>3
<1> HIDE DEF a, b
<1>8. Len(a \o b) = Len(s) - 1
  BY <1>1, <1>3, <1>4, <1>5
<1> QED BY <1>5, <1>6, <1>7, <1>8

\* What is left of a sequence after its first n elements.
LEMMA DropType ==
  ASSUME NEW S, NEW s \in Seq(S), NEW n \in 0..Len(s)
  PROVE  SubSeq(s, n + 1, Len(s)) \in Seq(S)
<1>1. Len(s) \in Nat /\ \A i \in 1..Len(s) : s[i] \in S
  BY LenProperties, ElementOfSeq
<1>2. \A i \in n + 1..Len(s) : s[i] \in S
  BY <1>1
<1> QED BY <1>1, <1>2, SubSeqProperties

\* The first n elements of a sequence, and how many they are.
LEMMA TakeType ==
  ASSUME NEW S, NEW s \in Seq(S), NEW n \in 0..Len(s)
  PROVE  SubSeq(s, 1, n) \in Seq(S) /\ Len(SubSeq(s, 1, n)) = n
<1>1. Len(s) \in Nat /\ \A i \in 1..Len(s) : s[i] \in S
  BY LenProperties, ElementOfSeq
<1>2. \A i \in 1..n : s[i] \in S
  BY <1>1
<1>3. SubSeq(s, 1, n) \in Seq(S) /\ Len(SubSeq(s, 1, n)) = IF 1 <= n THEN n - 1 + 1 ELSE 0
  BY <1>1, <1>2, SubSeqProperties
<1> QED BY <1>1, <1>3

\* A stretch in the middle of a sequence.
LEMMA SliceType ==
  ASSUME NEW S, NEW s \in Seq(S), NEW m \in 0..Len(s), NEW n \in m..Len(s)
  PROVE  SubSeq(s, m + 1, n) \in Seq(S) /\ Len(SubSeq(s, m + 1, n)) = n - m
<1>1. Len(s) \in Nat /\ \A i \in 1..Len(s) : s[i] \in S
  BY LenProperties, ElementOfSeq
<1>2. \A i \in m + 1..n : s[i] \in S
  BY <1>1
<1>3. /\ SubSeq(s, m + 1, n) \in Seq(S)
      /\ Len(SubSeq(s, m + 1, n)) = IF m + 1 <= n THEN n - (m + 1) + 1 ELSE 0
  BY <1>1, <1>2, SubSeqProperties
<1> QED BY <1>1, <1>3

\* What was taken from the front of a sequence is a prefix of it.
LEMMA TakeIsPrefix ==
  ASSUME NEW S, NEW s \in Seq(S), NEW n \in 0..Len(s)
  PROVE  IsPrefix(SubSeq(s, 1, n), s)
<1> DEFINE t == SubSeq(s, 1, n)
<1>1. t \in Seq(S) /\ Len(t) = n
  BY TakeType
<1>2. SubSeq(t, 1, Len(t)) = t
  BY <1>1, SubSeqFull
<1>3. Len(t) <= Len(s) /\ SubSeq(s, 1, Len(t)) = t
  BY <1>1, LenProperties
<1> HIDE DEF t
<1>4. IsPrefix(t, s)
  BY <1>2, <1>3 DEF IsPrefix
<1> QED BY <1>4 DEF t

\* The first m elements and the k after them are the first m + k.
LEMMA TakeMore ==
  ASSUME NEW S, NEW s \in Seq(S), NEW m \in 0..Len(s), NEW n \in m..Len(s)
  PROVE  SubSeq(s, 1, m) \o SubSeq(s, m + 1, n) = SubSeq(s, 1, n)
<1>1. Len(s) \in Nat /\ 1 \in 1..Len(s) + 1 /\ m \in 1 - 1..Len(s)
  BY LenProperties
<1> QED BY <1>1, ConcatAdjacentSubSeq

\* The first j of the k elements after the first m.
LEMMA TakeOfSlice ==
  ASSUME NEW S, NEW s \in Seq(S), NEW m \in 0..Len(s), NEW n \in m..Len(s),
         NEW j \in 0..n - m
  PROVE  SubSeq(SubSeq(s, m + 1, n), 1, j) = SubSeq(s, m + 1, m + j)
<1>1. Len(s) \in Nat /\ \A i \in 1..Len(s) : s[i] \in S
  BY LenProperties, ElementOfSeq
<1> DEFINE t == SubSeq(s, m + 1, n)
           u == SubSeq(t, 1, j)
           v == SubSeq(s, m + 1, m + j)
<1>2. \A i \in m + 1..n : s[i] \in S
  BY <1>1
<1>3. /\ t \in Seq(S) /\ Len(t) = n - m
      /\ \A i \in 1..n - (m + 1) + 1 : t[i] = s[m + 1 + i - 1]
  BY <1>1, <1>2, SubSeqProperties, SliceType
<1>4. \A i \in 1..j : t[i] \in S
  BY <1>1, <1>3, ElementOfSeq
<1>5. /\ u \in Seq(S) /\ Len(u) = IF 1 <= j THEN j - 1 + 1 ELSE 0
      /\ \A i \in 1..j - 1 + 1 : u[i] = t[1 + i - 1]
  <2> HIDE DEF t
  <2> QED BY <1>1, <1>4, SubSeqProperties
<1>6. \A i \in m + 1..m + j : s[i] \in S
  BY <1>1
<1>7. /\ v \in Seq(S) /\ Len(v) = IF m + 1 <= m + j THEN m + j - (m + 1) + 1 ELSE 0
      /\ \A i \in 1..m + j - (m + 1) + 1 : v[i] = s[m + 1 + i - 1]
  BY <1>1, <1>6, SubSeqProperties
<1> HIDE DEF t, u, v
<1>8. Len(u) = j /\ Len(v) = j
  BY <1>1, <1>5, <1>7
<1>9. ASSUME NEW i \in 1..Len(u) PROVE u[i] = v[i]
  <2>1. u[i] = t[i]
    BY <1>5, <1>8
  <2>2. t[i] = s[m + i]
    BY <1>1, <1>3, <1>8
  <2>3. v[i] = s[m + i]
    BY <1>1, <1>7, <1>8
  <2> QED BY <2>1, <2>2, <2>3
<1>10. u = v
  BY <1>5, <1>7, <1>8, <1>9, SeqEqual
<1> QED BY <1>10 DEF t, u, v

\* A set of numbers that is not empty has a least one.
LEMMA LeastOf ==
  ASSUME NEW T \in SUBSET Nat, T # {}
  PROVE  \E x \in T : \A y \in T : x <= y
<1> DEFINE Below == {pair \in Nat \X Nat : pair[1] < pair[2]}
<1>1. IsWellFoundedOn(Below, Nat)
  BY NatLessThanWellFounded DEF OpToRel
<1> HIDE DEF Below
<1>2. PICK x \in T : \A y \in T : <<y, x>> \notin Below
  BY <1>1, WFMin
<1>3. \A y \in T : ~(y < x)
  BY <1>2 DEF Below
<1> QED BY <1>2, <1>3

\* RemoveFirst keeps a sequence in its type.
LEMMA RemoveFirstType ==
  ASSUME NEW S, NEW s \in Seq(S), NEW e
  PROVE  RemoveFirst(s, e) \in Seq(S)
<1>1. CASE \E i \in 1..Len(s) : s[i] = e
  <2> DEFINE at == {i \in 1..Len(s) : s[i] = e}
             first == CHOOSE i \in at : \A j \in at : i <= j
  <2>1. at # {} /\ at \in SUBSET Nat
    BY <1>1
  <2>2. \E i \in at : \A j \in at : i <= j
    BY <2>1, LeastOf
  <2>3. first \in at
    BY <2>2
  <2>4. SelectInSeq(s, LAMBDA v : v = e) = first
    BY <2>1 DEF SelectInSeq, Min
  <2>5. RemoveFirst(s, e) = RemoveAt(s, first)
    BY <1>1, <2>4 DEF RemoveFirst
  <2> HIDE DEF first
  <2> QED BY <2>3, <2>5, RemoveAtType
<1> QED BY <1>1 DEF RemoveFirst

\* A function that is defined from its value at the number before exists.
Steps(f, n, S, base, step) ==
  f \in [0..n -> S] /\ f[0] = base /\ \A k \in 1..n : f[k] = step[k][f[k - 1]]

LEMMA Recursion ==
  ASSUME NEW n \in Nat, NEW S, NEW base \in S, NEW step \in [1..n -> [S -> S]]
  PROVE  \E f : Steps(f, n, S, base, step)
<1> DEFINE Obeys(f, m) == f[0] = base /\ \A k \in 1..m : f[k] = step[k][f[k - 1]]
           T == {m \in 0..n : ~\E f \in [0..n -> S] : Obeys(f, m)}
<1>1. T = {}
  <2> SUFFICES ASSUME T # {} PROVE FALSE
    OBVIOUS
  <2>0. T \in SUBSET Nat
    OBVIOUS
  <2>1. PICK m \in T : \A y \in T : m <= y
    <3> HIDE DEF T
    <3> QED BY <2>0, LeastOf
  <2>2. CASE m = 0
    <3> DEFINE f == [k \in 0..n |-> base]
    <3>1. f \in [0..n -> S] /\ Obeys(f, 0)
      OBVIOUS
    <3> HIDE DEF f, Obeys
    <3> QED BY <2>1, <2>2, <3>1
  <2>3. CASE m # 0
    <3>1. m \in 1..n /\ m - 1 \in 0..n /\ m - 1 \notin T /\ m \in 0..n
      <4>1. m \in 0..n
        BY <2>1
      <4> HIDE DEF T
      <4>2. m \in 1..n /\ m - 1 \in 0..n /\ ~(m <= m - 1)
        BY <2>3, <4>1
      <4> QED BY <2>1, <4>1, <4>2
    <3>2. PICK f \in [0..n -> S] : Obeys(f, m - 1)
      BY <3>1
    <3> DEFINE g == [f EXCEPT ![m] = step[m][f[m - 1]]]
    <3>3. step[m] \in [S -> S] /\ f[m - 1] \in S
      BY <3>1
    <3>4. g \in [0..n -> S] /\ g[m] = step[m][f[m - 1]] /\ \A k \in 0..n : k # m => g[k] = f[k]
      BY <3>1, <3>3
    <3> HIDE DEF g
    <3>5. ASSUME NEW k \in 1..m PROVE g[k] = step[k][g[k - 1]]
      <4>1. k \in 0..n /\ k - 1 \in 0..n /\ k - 1 # m
        BY <3>1
      <4>2. CASE k = m
        BY <3>4, <4>1, <4>2
      <4>3. CASE k # m
        <5>1. k \in 1..m - 1
          BY <3>1, <4>3
        <5> QED BY <3>2, <3>4, <4>1, <4>3, <5>1
      <4> QED BY <4>2, <4>3
    <3>6. g[0] = base
      BY <3>1, <3>2, <3>4
    <3>7. Obeys(g, m)
      BY <3>5, <3>6
    <3> HIDE DEF Obeys
    <3> QED BY <2>1, <3>1, <3>4, <3>7
  <2> QED BY <2>2, <2>3
<1>2. n \in 0..n
  OBVIOUS
<1>3. \E f \in [0..n -> S] : Obeys(f, n)
  BY <1>1, <1>2, Zenon
<1> QED BY <1>3 DEF Steps

\* A sequence over a set is one over every larger set.
LEMMA SeqWider ==
  ASSUME NEW S, NEW T, S \subseteq T, NEW s \in Seq(S)
  PROVE  s \in Seq(T)
  OBVIOUS

\* A sequence and nothing behind it.
LEMMA NothingMore ==
  ASSUME NEW S, NEW s \in Seq(S)
  PROVE  s \o <<>> = s
  OBVIOUS

\* The k elements of a sequence after the first m.
LEMMA SliceOf ==
  ASSUME NEW S, NEW s \in Seq(S), NEW m \in Nat, NEW k \in Nat, NEW r \in Nat,
         Len(s) = m + k + r
  PROVE  /\ SubSeq(s, m + 1, m + k) \in Seq(S) /\ Len(SubSeq(s, m + 1, m + k)) = k
         /\ \A i \in 1..k : SubSeq(s, m + 1, m + k)[i] = s[m + i]
<1>1. \A i \in m + 1..m + k : s[i] \in S
  <2>1. \A i \in 1..m + k + r : s[i] \in S
    BY ElementOfSeq
  <2> QED BY <2>1
<1>2. /\ SubSeq(s, m + 1, m + k) \in Seq(S)
      /\ Len(SubSeq(s, m + 1, m + k)) = IF m + 1 <= m + k THEN m + k - (m + 1) + 1 ELSE 0
      /\ \A i \in 1..m + k - (m + 1) + 1 : SubSeq(s, m + 1, m + k)[i] = s[m + 1 + i - 1]
  BY <1>1, SubSeqProperties
<1> QED BY <1>2

IsSlice(t, s, S, m, k) ==
  t \in Seq(S) /\ Len(t) = k /\ \A i \in 1..k : t[i] = s[m + i]

\* A stretch of a sequence, by its elements.
LEMMA IsSliceOf ==
  ASSUME NEW S, NEW s \in Seq(S), NEW m \in Nat, NEW k \in Nat, NEW r \in Nat,
         Len(s) = m + k + r
  PROVE  IsSlice(SubSeq(s, m + 1, m + k), s, S, m, k)
BY SliceOf DEF IsSlice

IsJoin(w, s, t, S, m, k) ==
  /\ w \in Seq(S) /\ Len(w) = m + k
  /\ \A i \in 1..m + k : w[i] = IF i <= m THEN s[i] ELSE t[i - m]

\* Two sequences one behind the other, by their elements.
LEMMA IsJoinOf ==
  ASSUME NEW S, NEW s \in Seq(S), NEW t \in Seq(S), NEW m \in Nat, NEW k \in Nat,
         Len(s) = m, Len(t) = k
  PROVE  IsJoin(s \o t, s, t, S, m, k)
<1>1. /\ s \o t \in Seq(S) /\ Len(s \o t) = m + k
      /\ \A i \in 1..m + k : (s \o t)[i] = IF i <= m THEN s[i] ELSE t[i - m]
  BY ConcatProperties
<1> QED BY <1>1, Zenon DEF IsJoin

\* Two functions that begin alike and go on alike are the same.
LEMMA SameSteps ==
  ASSUME NEW n \in Nat, NEW f, NEW g, f[0] = g[0],
         \A k \in 1..n : f[k - 1] = g[k - 1] => f[k] = g[k]
  PROVE  \A k \in 0..n : f[k] = g[k]
<1> DEFINE T == {k \in 0..n : f[k] # g[k]}
<1>1. T \in SUBSET Nat /\ \A k : k \in T <=> k \in 0..n /\ f[k] # g[k]
  OBVIOUS
<1> HIDE DEF T
<1>2. T = {}
  <2> SUFFICES ASSUME T # {} PROVE FALSE
    OBVIOUS
  <2>1. PICK k \in T : \A j \in T : k <= j
    BY <1>1, LeastOf
  <2>2. k \in 0..n /\ f[k] # g[k] /\ k # 0
    BY <1>1
  <2>3. k \in 1..n /\ k - 1 \in 0..n /\ ~(k <= k - 1)
    BY <2>2
  <2>4. f[k - 1] = g[k - 1]
    BY <1>1, <2>1, <2>3
  <2> QED BY <2>2, <2>3, <2>4
<1> QED BY <1>1, <1>2
=============================================================================
