--------------------------- MODULE SequenceFacts ---------------------------
(***************************************************************************)
(* What the helpers on sequences that the queues of dd_ftp are modelled    *)
(* with do to the elements: which are in the result, and that none is      *)
(* there twice.                                                            *)
(***************************************************************************)
EXTENDS Naturals, Sequences, SequencesExt, FiniteSetTheorems, SequenceTheorems, TLAPS

LEMMA EmptyElements ==
  ToSet(<<>>) = {} /\ IsInjective(<<>>)
BY DEF ToSet, IsInjective

LEMMA OneElement ==
  ASSUME NEW S, NEW e \in S
  PROVE  <<e>> \in Seq(S) /\ ToSet(<<e>>) = {e} /\ IsInjective(<<e>>)
BY DEF ToSet, IsInjective

LEMMA AppendElements ==
  ASSUME NEW S, NEW s \in Seq(S), NEW e \in S
  PROVE  /\ Append(s, e) \in Seq(S)
         /\ ToSet(Append(s, e)) = ToSet(s) \cup {e}
         /\ IsInjective(s) /\ e \notin ToSet(s) => IsInjective(Append(s, e))
<1>1. /\ Append(s, e) \in Seq(S)
      /\ Len(Append(s, e)) = Len(s) + 1
      /\ \A i \in 1..Len(s) : Append(s, e)[i] = s[i]
      /\ Append(s, e)[Len(s) + 1] = e
  BY AppendProperties
<1>2. ToSet(Append(s, e)) = ToSet(s) \cup {e}
  BY <1>1 DEF ToSet
<1>3. IsInjective(s) /\ e \notin ToSet(s) => IsInjective(Append(s, e))
  BY <1>1 DEF ToSet, IsInjective
<1> QED BY <1>1, <1>2, <1>3

LEMMA ConcatElements ==
  ASSUME NEW S, NEW s \in Seq(S), NEW t \in Seq(S)
  PROVE  /\ s \o t \in Seq(S)
         /\ ToSet(s \o t) = ToSet(s) \cup ToSet(t)
         /\ IsInjective(s) /\ IsInjective(t) /\ ToSet(s) \cap ToSet(t) = {}
              => IsInjective(s \o t)
<1>1. /\ s \o t \in Seq(S)
      /\ Len(s \o t) = Len(s) + Len(t)
      /\ \A i \in 1..Len(s) : (s \o t)[i] = s[i]
      /\ \A i \in 1..Len(t) : (s \o t)[Len(s) + i] = t[i]
  BY ConcatProperties
<1>2. \A i \in (Len(s) + 1)..(Len(s) + Len(t)) :
        i - Len(s) \in 1..Len(t) /\ (s \o t)[i] = t[i - Len(s)]
  <2> TAKE i \in (Len(s) + 1)..(Len(s) + Len(t))
  <2>1. i - Len(s) \in 1..Len(t) /\ i = Len(s) + (i - Len(s))
    OBVIOUS
  <2> QED BY <2>1, <1>1
<1>3. ToSet(s \o t) = ToSet(s) \cup ToSet(t)
  <2>1. ASSUME NEW x \in ToSet(s \o t) PROVE x \in ToSet(s) \cup ToSet(t)
    <3>1. PICK i \in 1..(Len(s) + Len(t)) : x = (s \o t)[i]
      BY <2>1, <1>1 DEF ToSet
    <3>2. CASE i \in 1..Len(s)
      BY <3>1, <3>2, <1>1 DEF ToSet
    <3>3. CASE i \in (Len(s) + 1)..(Len(s) + Len(t))
      BY <3>1, <3>3, <1>2 DEF ToSet
    <3> QED BY <3>2, <3>3
  <2>2. ASSUME NEW x \in ToSet(s) PROVE x \in ToSet(s \o t)
    BY <2>2, <1>1 DEF ToSet
  <2>3. ASSUME NEW x \in ToSet(t) PROVE x \in ToSet(s \o t)
    <3>1. PICK i \in 1..Len(t) : x = t[i]
      BY <2>3 DEF ToSet
    <3>2. Len(s) + i \in 1..Len(s \o t) /\ (s \o t)[Len(s) + i] = x
      BY <3>1, <1>1
    <3> QED BY <3>2, <1>1 DEF ToSet
  <2> QED BY <2>1, <2>2, <2>3
<1>4. ASSUME IsInjective(s), IsInjective(t), ToSet(s) \cap ToSet(t) = {}
      PROVE  IsInjective(s \o t)
  <2>1. \A i \in 1..Len(s), k \in 1..Len(t) : s[i] # t[k]
    BY <1>4 DEF ToSet
  <2>2. ASSUME NEW i \in 1..(Len(s) + Len(t)), NEW k \in 1..(Len(s) + Len(t)),
               (s \o t)[i] = (s \o t)[k]
        PROVE  i = k
    <3>1. CASE i \in 1..Len(s) /\ k \in 1..Len(s)
      BY <3>1, <2>2, <1>1, <1>4 DEF IsInjective
    <3>2. CASE i \notin 1..Len(s) /\ k \notin 1..Len(s)
      <4>1. i - Len(s) = k - Len(s)
        BY <3>2, <2>2, <1>2, <1>4 DEF IsInjective
      <4> QED BY <4>1
    <3>3. CASE i \in 1..Len(s) /\ k \notin 1..Len(s)
      BY <3>3, <2>1, <2>2, <1>1, <1>2
    <3>4. CASE i \notin 1..Len(s) /\ k \in 1..Len(s)
      BY <3>4, <2>1, <2>2, <1>1, <1>2
    <3> QED BY <3>1, <3>2, <3>3, <3>4
  <2> QED BY <2>2, <1>1 DEF IsInjective
<1> QED BY <1>1, <1>3, <1>4

LEMMA TailElements ==
  ASSUME NEW S, NEW s \in Seq(S), s # <<>>
  PROVE  /\ Head(s) \in S
         /\ Tail(s) \in Seq(S)
         /\ Len(Tail(s)) = Len(s) - 1
         /\ ToSet(s) = ToSet(Tail(s)) \cup {Head(s)}
         /\ IsInjective(s) => IsInjective(Tail(s)) /\ Head(s) \notin ToSet(Tail(s))
<1>1. /\ Len(s) \in Nat \ {0}
      /\ Head(s) = s[1] /\ Head(s) \in S
      /\ Tail(s) \in Seq(S)
      /\ Len(Tail(s)) = Len(s) - 1
      /\ \A i \in 1..Len(Tail(s)) : Tail(s)[i] = s[i + 1]
  BY HeadTailProperties, EmptySeq
<1>2. \A i \in 2..Len(s) : i - 1 \in 1..Len(Tail(s)) /\ s[i] = Tail(s)[i - 1]
  <2> TAKE i \in 2..Len(s)
  <2>1. i - 1 \in 1..Len(Tail(s)) /\ (i - 1) + 1 = i
    BY <1>1
  <2> QED BY <2>1, <1>1
<1>3. ToSet(s) = ToSet(Tail(s)) \cup {Head(s)}
  <2>1. ASSUME NEW x \in ToSet(s) PROVE x \in ToSet(Tail(s)) \cup {Head(s)}
    <3>1. PICK i \in 1..Len(s) : x = s[i]
      BY <2>1 DEF ToSet
    <3>2. CASE i = 1
      BY <3>1, <3>2, <1>1
    <3>3. CASE i \in 2..Len(s)
      <4>1. i - 1 \in 1..Len(Tail(s)) /\ x = Tail(s)[i - 1]
        BY <3>1, <3>3, <1>2
      <4>2. DOMAIN Tail(s) = 1..Len(Tail(s))
        BY <1>1
      <4> QED BY <4>1, <4>2 DEF ToSet
    <3> QED BY <3>2, <3>3, <1>1
  <2>2. ASSUME NEW x \in ToSet(Tail(s)) PROVE x \in ToSet(s)
    <3>1. PICK i \in 1..Len(Tail(s)) : x = Tail(s)[i]
      BY <2>2, <1>1 DEF ToSet
    <3>2. i + 1 \in 1..Len(s) /\ x = s[i + 1]
      BY <3>1, <1>1
    <3> QED BY <3>2 DEF ToSet
  <2>3. Head(s) \in ToSet(s)
    BY <1>1 DEF ToSet
  <2> QED BY <2>1, <2>2, <2>3
<1>4. IsInjective(s) => IsInjective(Tail(s)) /\ Head(s) \notin ToSet(Tail(s))
  BY <1>1 DEF ToSet, IsInjective
<1> QED BY <1>1, <1>3, <1>4

LEMMA RemoveAtIndices ==
  ASSUME NEW S, NEW s \in Seq(S), NEW i \in 1..Len(s)
  PROVE  /\ RemoveAt(s, i) \in Seq(S)
         /\ Len(RemoveAt(s, i)) = Len(s) - 1
         /\ \A k \in 1..(i - 1) : RemoveAt(s, i)[k] = s[k]
         /\ \A k \in i..(Len(s) - 1) : RemoveAt(s, i)[k] = s[k + 1]
<1> DEFINE l == SubSeq(s, 1, i - 1)
           r == SubSeq(s, i + 1, Len(s))
           d == RemoveAt(s, i)
<1>1. /\ l \in Seq(S) /\ Len(l) = i - 1 /\ \A k \in 1..(i - 1) : l[k] = s[k]
      /\ r \in Seq(S) /\ Len(r) = Len(s) - i /\ \A k \in 1..(Len(s) - i) : r[k] = s[i + k]
  BY SubSeqProperties
<1>2. /\ d \in Seq(S)
      /\ Len(d) = Len(s) - 1
      /\ \A k \in 1..(i - 1) : d[k] = s[k]
      /\ \A k \in i..(Len(s) - 1) : d[k] = s[k + 1]
  <2>1. d = l \o r
    BY DEF RemoveAt
  <2> HIDE DEF l, r, d
  <2>2. d \in Seq(S) /\ Len(d) = Len(s) - 1
    BY <1>1, <2>1, ConcatProperties
  <2>3. \A k \in 1..(i - 1) : d[k] = s[k]
    BY <1>1, <2>1, ConcatProperties
  <2>4. ASSUME NEW k \in i..(Len(s) - 1) PROVE d[k] = s[k + 1]
    <3>1. PICK m \in 1..Len(r) : k = Len(l) + m /\ k + 1 = i + m
      <4>1. /\ k - (i - 1) \in 1..Len(r) /\ k = Len(l) + (k - (i - 1))
            /\ k + 1 = i + (k - (i - 1))
        BY <1>1
      <4> QED BY <4>1
    <3>2. l \in Seq(S) /\ r \in Seq(S)
      BY <1>1
    <3>3. (l \o r)[Len(l) + m] = r[m]
      BY <3>2, ConcatProperties
    <3>4. r[m] = s[i + m]
      BY <1>1, <3>1
    <3> QED BY <2>1, <3>1, <3>3, <3>4
  <2> QED BY <2>2, <2>3, <2>4
<1> QED BY <1>2

LEMMA RemoveAtElements ==
  ASSUME NEW S, NEW s \in Seq(S), NEW i \in 1..Len(s)
  PROVE  /\ RemoveAt(s, i) \in Seq(S)
         /\ Len(RemoveAt(s, i)) = Len(s) - 1
         /\ ToSet(RemoveAt(s, i)) \subseteq ToSet(s)
         /\ IsInjective(s) => /\ IsInjective(RemoveAt(s, i))
                              /\ ToSet(RemoveAt(s, i)) = ToSet(s) \ {s[i]}
<1> DEFINE d == RemoveAt(s, i)
<1>2. /\ d \in Seq(S)
      /\ Len(d) = Len(s) - 1
      /\ \A k \in 1..(i - 1) : d[k] = s[k]
      /\ \A k \in i..(Len(s) - 1) : d[k] = s[k + 1]
  BY RemoveAtIndices
<1> HIDE DEF d
<1>3. \A k \in 1..Len(s) : k < i => k \in 1..Len(d) /\ s[k] = d[k]
  BY <1>2
<1>4. \A k \in 1..Len(s) : k > i => k - 1 \in 1..Len(d) /\ s[k] = d[k - 1]
  <2> TAKE k \in 1..Len(s)
  <2> HAVE k > i
  <2>1. k - 1 \in i..(Len(s) - 1) /\ (k - 1) + 1 = k
    OBVIOUS
  <2> QED BY <2>1, <1>2
<1>5. \A k \in 1..Len(d) : \E m \in 1..Len(s) : m # i /\ d[k] = s[m]
  <2> TAKE k \in 1..Len(d)
  <2>1. CASE k < i
    BY <2>1, <1>2
  <2>2. CASE k >= i
    <3>1. k + 1 \in 1..Len(s) /\ k + 1 # i /\ d[k] = s[k + 1]
      BY <2>2, <1>2
    <3> QED BY <3>1
  <2> QED BY <2>1, <2>2, <1>2
<1>6. ToSet(d) \subseteq ToSet(s)
  BY <1>2, <1>5 DEF ToSet
<1>7. ASSUME IsInjective(s) PROVE IsInjective(d)
  <2>1. ASSUME NEW k \in 1..Len(d), NEW m \in 1..Len(d), d[k] = d[m]
        PROVE  k = m
    <3>1. CASE k < i /\ m < i
      BY <3>1, <2>1, <1>2, <1>7 DEF IsInjective
    <3>2. CASE k < i /\ m >= i
      <4>1. k \in 1..Len(s) /\ m + 1 \in 1..Len(s) /\ s[k] = s[m + 1]
        BY <3>2, <2>1, <1>2
      <4> QED BY <4>1, <3>2, <1>7 DEF IsInjective
    <3>3. CASE k >= i /\ m < i
      <4>1. m \in 1..Len(s) /\ k + 1 \in 1..Len(s) /\ s[m] = s[k + 1]
        BY <3>3, <2>1, <1>2
      <4> QED BY <4>1, <3>3, <1>7 DEF IsInjective
    <3>4. CASE k >= i /\ m >= i
      <4>1. m + 1 \in 1..Len(s) /\ k + 1 \in 1..Len(s) /\ s[m + 1] = s[k + 1]
        BY <3>4, <2>1, <1>2
      <4>2. m + 1 = k + 1
        BY <4>1, <1>7 DEF IsInjective
      <4> QED BY <4>2, <1>2
    <3> QED BY <3>1, <3>2, <3>3, <3>4, <1>2
  <2> QED BY <2>1, <1>2 DEF IsInjective
<1>8. ASSUME IsInjective(s) PROVE ToSet(d) = ToSet(s) \ {s[i]}
  <2>1. ASSUME NEW x \in ToSet(d) PROVE x \in ToSet(s) \ {s[i]}
    <3>1. PICK m \in 1..Len(s) : m # i /\ x = s[m]
      BY <2>1, <1>2, <1>5 DEF ToSet
    <3> QED BY <3>1, <1>8 DEF ToSet, IsInjective
  <2>2. ASSUME NEW x \in ToSet(s) \ {s[i]} PROVE x \in ToSet(d)
    <3>1. PICK m \in 1..Len(s) : x = s[m] /\ m # i
      BY <2>2 DEF ToSet
    <3>2. CASE m < i
      BY <3>1, <3>2, <1>2, <1>3 DEF ToSet
    <3>3. CASE m > i
      BY <3>1, <3>3, <1>2, <1>4 DEF ToSet
    <3> QED BY <3>1, <3>2, <3>3
  <2> QED BY <2>1, <2>2
<1> QED BY <1>2, <1>6, <1>7, <1>8 DEF d

(* A finite set is written out once each, in an order nobody asks for.     *)
LEMMA SetToSeqElements ==
  ASSUME NEW S, IsFiniteSet(S)
  PROVE  /\ SetToSeq(S) \in Seq(S) /\ IsInjective(SetToSeq(S))
         /\ ToSet(SetToSeq(S)) = S
<1>1. PICK f \in [1..Cardinality(S) -> S] : IsInjective(f)
  <2>1. ExistsBijection(1..Cardinality(S), S)
    BY FS_CardinalityType
  <2> QED BY <2>1 DEF ExistsBijection, Bijection, Injection
<1>2. SetToSeq(S) \in [1..Cardinality(S) -> S] /\ IsInjective(SetToSeq(S))
  BY <1>1 DEF SetToSeq
<1>3. Cardinality(S) \in Nat
  BY FS_CardinalityType
<1>4. SetToSeq(S) \in Seq(S)
  BY <1>2, <1>3
<1>5. SetToSeq(S) \in Surjection(1..Cardinality(S), S)
  <2>1. SetToSeq(S) \in Injection(1..Cardinality(S), S)
    BY <1>2 DEF Injection
  <2>2. Cardinality(1..Cardinality(S)) = Cardinality(S)
    BY <1>3, FS_Interval
  <2> QED BY <2>1, <2>2, FS_Injection
<1>6. ToSet(SetToSeq(S)) = S
  BY <1>2, <1>5 DEF ToSet, Surjection
<1> QED BY <1>2, <1>4, <1>6

(* What is left of a sequence without its first n elements.                *)
LEMMA SuffixElements ==
  ASSUME NEW S, NEW s \in Seq(S), NEW n \in 0..Len(s)
  PROVE  LET t == SubSeq(s, n + 1, Len(s))
         IN  /\ t \in Seq(S)
             /\ ToSet(s) = {s[i] : i \in 1..n} \cup ToSet(t)
             /\ IsInjective(s) => IsInjective(t) /\ {s[i] : i \in 1..n} \cap ToSet(t) = {}
<1> DEFINE t == SubSeq(s, n + 1, Len(s))
<1>1. /\ Len(s) \in Nat /\ DOMAIN s = 1..Len(s)
      /\ t \in Seq(S) /\ Len(t) = Len(s) - n
      /\ \A i \in 1..(Len(s) - n) : t[i] = s[n + i]
  BY SubSeqProperties
<1> HIDE DEF t
<1>2. DOMAIN t = 1..(Len(s) - n)
  BY <1>1
<1>3. \A i \in (n + 1)..Len(s) : i - n \in 1..(Len(s) - n) /\ s[i] = t[i - n]
  <2> TAKE i \in (n + 1)..Len(s)
  <2>1. i - n \in 1..(Len(s) - n) /\ n + (i - n) = i
    BY <1>1
  <2> QED BY <2>1, <1>1
<1>4. ToSet(s) = {s[i] : i \in 1..n} \cup ToSet(t)
  <2>1. ASSUME NEW i \in 1..Len(s), i \notin 1..n PROVE s[i] \in ToSet(t)
    BY <2>1, <1>1, <1>2, <1>3 DEF ToSet
  <2>2. ASSUME NEW i \in 1..(Len(s) - n) PROVE t[i] \in ToSet(s)
    <3>1. n + i \in 1..Len(s)
      BY <1>1
    <3> QED BY <3>1, <1>1 DEF ToSet
  <2>3. \A x \in ToSet(s) : \E i \in 1..Len(s) : x = s[i]
    BY <1>1 DEF ToSet
  <2>4. \A x \in ToSet(t) : \E i \in 1..(Len(s) - n) : x = t[i]
    BY <1>2 DEF ToSet
  <2>5. {s[i] : i \in 1..n} \subseteq ToSet(s)
    BY <1>1 DEF ToSet
  <2> QED BY <2>1, <2>2, <2>3, <2>4, <2>5
<1>5. ASSUME IsInjective(s) PROVE IsInjective(t) /\ {s[i] : i \in 1..n} \cap ToSet(t) = {}
  <2>1. ASSUME NEW i \in 1..(Len(s) - n), NEW k \in 1..(Len(s) - n), t[i] = t[k] PROVE i = k
    <3>1. n + i \in 1..Len(s) /\ n + k \in 1..Len(s) /\ s[n + i] = s[n + k]
      BY <2>1, <1>1
    <3>2. n + i = n + k
      BY <3>1, <1>1, <1>5 DEF IsInjective
    <3> QED BY <3>2
  <2>2. ASSUME NEW i \in 1..n, NEW k \in 1..(Len(s) - n) PROVE s[i] # t[k]
    <3>1. n + k \in 1..Len(s) /\ i \in 1..Len(s) /\ n + k # i /\ t[k] = s[n + k]
      BY <1>1
    <3> QED BY <3>1, <1>1, <1>5 DEF IsInjective
  <2> QED BY <2>1, <2>2, <1>2 DEF IsInjective, ToSet
<1> QED BY <1>1, <1>4, <1>5 DEF t

(* A part of it from there on. *)
LEMMA SuffixOfSuffix ==
  ASSUME NEW S, NEW s \in Seq(S), NEW n \in 0..Len(s), NEW m \in 0..(Len(s) - n)
  PROVE  LET t == SubSeq(s, n + 1, Len(s))
         IN  /\ Len(t) = Len(s) - n
             /\ \A i \in 1..m : t[i] = s[n + i]
             /\ SubSeq(t, m + 1, Len(t)) = SubSeq(s, n + m + 1, Len(s))
<1> DEFINE t == SubSeq(s, n + 1, Len(s))
           u == SubSeq(t, m + 1, Len(t))
           v == SubSeq(s, n + m + 1, Len(s))
<1>1. /\ Len(s) \in Nat
      /\ t \in Seq(S) /\ Len(t) = Len(s) - n
      /\ \A i \in 1..(Len(s) - n) : t[i] = s[n + i]
  OBVIOUS
<1> HIDE DEF t
<1>2. /\ u \in Seq(S) /\ Len(u) = Len(s) - n - m
      /\ \A i \in 1..(Len(s) - n - m) : u[i] = t[m + i]
  BY <1>1
<1>3. /\ v \in Seq(S) /\ Len(v) = Len(s) - n - m
      /\ \A i \in 1..(Len(s) - n - m) : v[i] = s[n + m + i]
  BY <1>1
<1> HIDE DEF u, v
<1>4. \A i \in 1..(Len(s) - n - m) : u[i] = v[i]
  <2> TAKE i \in 1..(Len(s) - n - m)
  <2>1. m + i \in 1..(Len(s) - n) /\ n + (m + i) = n + m + i
    BY <1>1
  <2> QED BY <1>1, <1>2, <1>3, <2>1
<1>5. u = v
  BY <1>2, <1>3, <1>4, SeqEqual
<1>6. SubSeq(t, m + 1, Len(t)) = SubSeq(s, n + m + 1, Len(s))
  BY <1>5, Zenon DEF u, v
<1>7. \A i \in 1..m : t[i] = s[n + i]
  BY <1>1
<1>8. Len(t) = Len(s) - n
  BY <1>1
<1> QED BY <1>6, <1>7, <1>8, Zenon DEF t

-----------------------------------------------------------------------------
(* A set of numbers that is not empty has a least one.                     *)

LEMMA LeastInOrder ==
  ASSUME NEW R, IsWellFoundedOn(R, Nat), \A x, y \in Nat : x < y => <<x, y>> \in R,
         NEW S, S \subseteq Nat, S # {}
  PROVE  \E n \in S : \A m \in S : n <= m
<1>1. PICK n \in S : \A m \in S : ~(<<m, n>> \in R)
  BY WFMin
<1>2. \A m \in S : ~(m < n)
  BY <1>1
<1> QED BY <1>2

LEMMA LeastNumber ==
  ASSUME NEW S, S \subseteq Nat, S # {}
  PROVE  \E n \in S : \A m \in S : n <= m
<1>1. IsWellFoundedOn(OpToRel(<, Nat), Nat)
  BY NatLessThanWellFounded
<1>2. \A x, y \in Nat : x < y => <<x, y>> \in OpToRel(<, Nat)
  BY DEF OpToRel
<1> QED BY <1>1, <1>2, LeastInOrder

LEMMA MinIsIn ==
  ASSUME NEW S, S \subseteq Nat, S # {}
  PROVE  Min(S) \in S /\ \A m \in S : Min(S) <= m
BY LeastNumber DEF Min

(* Sequences of fewer things are sequences of more. *)
LEMMA SeqGrows ==
  ASSUME NEW S, NEW T, S \subseteq T, NEW s \in Seq(S)
  PROVE  s \in Seq(T)
<1>1. Len(s) \in Nat /\ s \in [1..Len(s) -> S]
  BY LenProperties
<1>2. s \in [1..Len(s) -> T]
  BY <1>1
<1> QED BY <1>1, <1>2, IsASeq
=============================================================================
