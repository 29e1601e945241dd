---------------------------- MODULE ScreenProofs ----------------------------
(***************************************************************************)
(* What the parts of the screen promise holds for any folders, names,      *)
(* sizes, texts and jobs.                                                  *)
(***************************************************************************)
EXTENDS TransferQueueProofs, TextField, QueuePane, Panes, ListView

-----------------------------------------------------------------------------
(* The order of the rows.                                                  *)

LEMMA SamePrefix ==
  ASSUME NEW a \in Seq(Nat), NEW b \in Seq(Nat), NEW k \in Nat, k <= Len(a), k <= Len(b)
  PROVE  SubSeq(a, 1, k) = SubSeq(b, 1, k) <=> \A i \in 1..k : a[i] = b[i]
<1>1. /\ SubSeq(a, 1, k) \in Seq(Nat) /\ Len(SubSeq(a, 1, k)) = k
      /\ \A i \in 1..k : SubSeq(a, 1, k)[i] = a[i]
  BY SubSeqProperties
<1>2. /\ SubSeq(b, 1, k) \in Seq(Nat) /\ Len(SubSeq(b, 1, k)) = k
      /\ \A i \in 1..k : SubSeq(b, 1, k)[i] = b[i]
  BY SubSeqProperties
<1>3. (\A i \in 1..k : a[i] = b[i]) => SubSeq(a, 1, k) = SubSeq(b, 1, k)
  BY <1>1, <1>2, SeqEqual
<1>4. SubSeq(a, 1, k) = SubSeq(b, 1, k) => \A i \in 1..k : a[i] = b[i]
  BY <1>1, <1>2
<1> QED BY <1>3, <1>4

(* Name a comes before name b, and k is as far as they agree. *)
LessAt(a, b, k) ==
  /\ k <= Len(a) /\ k < Len(b)
  /\ \A i \in 1..k : a[i] = b[i]
  /\ k = Len(a) \/ a[k + 1] < b[k + 1]

LEMMA NameLessAt ==
  ASSUME NEW a \in Seq(Nat), NEW b \in Seq(Nat)
  PROVE  NameLess(a, b) <=> \E k \in Nat : LessAt(a, b, k)
<1>1. Len(a) \in Nat /\ Len(b) \in Nat
  BY LenProperties
<1>2. ASSUME NEW k \in 0..Len(a), k < Len(b)
      PROVE  SubSeq(a, 1, k) = SubSeq(b, 1, k) <=> \A i \in 1..k : a[i] = b[i]
  BY <1>1, <1>2, SamePrefix
<1>3. NameLess(a, b) => \E k \in Nat : LessAt(a, b, k)
  BY <1>1, <1>2 DEF NameLess, LessAt
<1>4. (\E k \in Nat : LessAt(a, b, k)) => NameLess(a, b)
  BY <1>1, <1>2 DEF NameLess, LessAt
<1> QED BY <1>3, <1>4

LEMMA NameIrreflexive ==
  ASSUME NEW a \in Seq(Nat)
  PROVE  ~NameLess(a, a)
<1>1. ASSUME NEW k \in Nat, LessAt(a, a, k) PROVE FALSE
  <2>1. Len(a) \in Nat /\ k + 1 \in 1..Len(a)
    BY <1>1, LenProperties DEF LessAt
  <2>2. a[k + 1] \in Nat
    BY <2>1, ElementOfSeq
  <2> QED BY <1>1, <2>1, <2>2 DEF LessAt
<1> QED BY <1>1, NameLessAt

LEMMA NameTransitive ==
  ASSUME NEW a \in Seq(Nat), NEW b \in Seq(Nat), NEW c \in Seq(Nat),
         NameLess(a, b), NameLess(b, c)
  PROVE  NameLess(a, c)
<1>1. PICK k \in Nat : LessAt(a, b, k)
  BY NameLessAt
<1>2. PICK m \in Nat : LessAt(b, c, m)
  BY NameLessAt
<1>3. /\ Len(a) \in Nat /\ Len(b) \in Nat /\ Len(c) \in Nat
      /\ \A i \in 1..Len(a) : a[i] \in Nat
      /\ \A i \in 1..Len(b) : b[i] \in Nat
      /\ \A i \in 1..Len(c) : c[i] \in Nat
  BY LenProperties, ElementOfSeq
<1>4. CASE k < m
  <2>1. b[k + 1] = c[k + 1]
    BY <1>2, <1>4 DEF LessAt
  <2>2. \A i \in 1..k : a[i] = c[i]
    BY <1>1, <1>2, <1>4 DEF LessAt
  <2>3. LessAt(a, c, k)
    BY <1>1, <1>2, <1>3, <1>4, <2>1, <2>2 DEF LessAt
  <2> QED BY <2>3, NameLessAt
<1>5. CASE k = m
  <2>1. b[k + 1] < c[k + 1]
    BY <1>1, <1>2, <1>5 DEF LessAt
  <2>2. k = Len(a) \/ a[k + 1] < c[k + 1]
    <3>1. CASE k = Len(a)
      BY <3>1
    <3>2. CASE k # Len(a)
      <4>1. k + 1 \in 1..Len(a) /\ k + 1 \in 1..Len(b) /\ k + 1 \in 1..Len(c)
        BY <1>1, <1>2, <1>3, <1>5, <3>2 DEF LessAt
      <4>2. a[k + 1] \in Nat /\ b[k + 1] \in Nat /\ c[k + 1] \in Nat
        BY <1>3, <4>1
      <4> QED BY <1>1, <2>1, <3>2, <4>2 DEF LessAt
    <3> QED BY <3>1, <3>2
  <2>3. LessAt(a, c, k)
    BY <1>1, <1>2, <1>3, <1>5, <2>2 DEF LessAt
  <2> QED BY <2>3, NameLessAt
<1>6. CASE m < k
  <2>1. a[m + 1] = b[m + 1] /\ b[m + 1] < c[m + 1]
    BY <1>1, <1>2, <1>3, <1>6 DEF LessAt
  <2>2. \A i \in 1..m : a[i] = c[i]
    BY <1>1, <1>2, <1>6 DEF LessAt
  <2>3. LessAt(a, c, m)
    BY <1>1, <1>2, <1>3, <1>6, <2>1, <2>2 DEF LessAt
  <2> QED BY <2>3, NameLessAt
<1> QED BY <1>4, <1>5, <1>6

LEMMA NameTotal ==
  ASSUME NEW a \in Seq(Nat), NEW b \in Seq(Nat), a # b
  PROVE  NameLess(a, b) \/ NameLess(b, a)
<1> DEFINE D == {i \in Nat : i >= 1 /\ (i > Len(a) \/ i > Len(b) \/ a[i] # b[i])}
<1>1. /\ Len(a) \in Nat /\ Len(b) \in Nat
      /\ \A i \in 1..Len(a) : a[i] \in Nat
      /\ \A i \in 1..Len(b) : b[i] \in Nat
  BY LenProperties, ElementOfSeq
<1>2. Len(a) + 1 \in D
  BY <1>1
<1>3. PICK d \in D : \A i \in D : d <= i
  BY <1>2, LeastNumber
<1> DEFINE k == d - 1
<1>4. d \in Nat /\ d >= 1 /\ k \in Nat /\ k + 1 = d
  BY <1>3
<1>5. k <= Len(a) /\ k <= Len(b) /\ \A i \in 1..k : a[i] = b[i]
  <2>1. \A i \in 1..k : i \notin D /\ i \in Nat
    BY <1>3, <1>4
  <2>2. \A i \in 1..k : i <= Len(a) /\ i <= Len(b) /\ a[i] = b[i]
    BY <1>1, <2>1
  <2>3. k = 0 \/ k \in 1..k
    BY <1>4
  <2> QED BY <1>1, <1>4, <2>2, <2>3
<1>6. d > Len(a) \/ d > Len(b) \/ a[d] # b[d]
  BY <1>3
<1> HIDE DEF D, k
<1>7. CASE k = Len(a) /\ k = Len(b)
  <2>1. a = b
    BY <1>5, <1>7, SeqEqual
  <2> QED BY <2>1
<1>8. CASE k = Len(a) /\ k # Len(b)
  <2>1. LessAt(a, b, k)
    BY <1>1, <1>4, <1>5, <1>8 DEF LessAt
  <2> QED BY <1>4, <2>1, NameLessAt
<1>9. CASE k # Len(a) /\ k = Len(b)
  <2>1. LessAt(b, a, k)
    BY <1>1, <1>4, <1>5, <1>9 DEF LessAt
  <2> QED BY <1>4, <2>1, NameLessAt
<1>10. CASE k # Len(a) /\ k # Len(b)
  <2>1. d \in 1..Len(a) /\ d \in 1..Len(b)
    BY <1>1, <1>4, <1>5, <1>10
  <2>2. a[d] # b[d] /\ a[d] \in Nat /\ b[d] \in Nat
    BY <1>1, <1>6, <2>1
  <2>3. a[k + 1] < b[k + 1] \/ b[k + 1] < a[k + 1]
    BY <1>4, <2>2
  <2>4. LessAt(a, b, k) \/ LessAt(b, a, k)
    BY <1>1, <1>4, <1>5, <1>10, <2>3 DEF LessAt
  <2> QED BY <1>4, <2>4, NameLessAt
<1> QED BY <1>7, <1>8, <1>9, <1>10

(* What the order of entries looks at besides the name. *)
LEMMA EntryFacts ==
  ASSUME NEW a \in Name
  PROVE  a \in Seq(Nat) /\ Rank(a) \in Nat /\ Bytes[a] \in Nat
<1>1. a \in Seq(Nat) /\ Bytes[a] \in Nat
  BY PaneAssumption
<1>2. Len(a) \in Nat
  BY <1>1, LenProperties
<1> QED BY <1>1, <1>2 DEF Rank

LEMMA EntryCases ==
  ASSUME NEW a, NEW b, NEW key, NEW asc
  PROVE  EntryLess(a, b, key, asc) <=>
           IF Rank(a) # Rank(b) THEN Rank(a) < Rank(b)
           ELSE IF key = "Name" /\ (a \in Dirs) # (b \in Dirs) THEN a \in Dirs
           ELSE IF key = "Size" /\ Bytes[a] # Bytes[b]
                THEN IF asc THEN Bytes[a] < Bytes[b] ELSE Bytes[b] < Bytes[a]
           ELSE IF asc THEN NameLess(a, b) ELSE NameLess(b, a)
BY DEF EntryLess

LEMMA EntryIrreflexive ==
  ASSUME NEW a \in Name, NEW key, NEW asc
  PROVE  ~EntryLess(a, a, key, asc)
BY EntryFacts, EntryCases, NameIrreflexive

LEMMA EntryTotal ==
  ASSUME NEW a \in Name, NEW b \in Name, a # b, NEW key, NEW asc
  PROVE  EntryLess(a, b, key, asc) \/ EntryLess(b, a, key, asc)
<1>1. /\ Rank(a) \in Nat /\ Rank(b) \in Nat /\ Bytes[a] \in Nat /\ Bytes[b] \in Nat
      /\ NameLess(a, b) \/ NameLess(b, a)
  BY EntryFacts, NameTotal
<1> QED BY <1>1, EntryCases

LEMMA EntryTransitive ==
  ASSUME NEW a \in Name, NEW b \in Name, NEW c \in Name, NEW key, NEW asc,
         EntryLess(a, b, key, asc), EntryLess(b, c, key, asc)
  PROVE  EntryLess(a, c, key, asc)
<1>1. /\ Rank(a) \in Nat /\ Rank(b) \in Nat /\ Rank(c) \in Nat
      /\ Bytes[a] \in Nat /\ Bytes[b] \in Nat /\ Bytes[c] \in Nat
      /\ NameLess(a, b) /\ NameLess(b, c) => NameLess(a, c)
      /\ NameLess(c, b) /\ NameLess(b, a) => NameLess(c, a)
  BY EntryFacts, NameTransitive
<1> QED BY <1>1, EntryCases

(* In a finite strict order each place is that of one element: the one     *)
(* with so many others before it.                                          *)
LEMMA EachHasItsPlace ==
  ASSUME NEW V, IsFiniteSet(V), NEW A,
         \A i \in V : A[i] \subseteq V \ {i},
         \A i, k \in V : k \in A[i] => A[k] \subseteq A[i],
         \A i, k \in V : i = k \/ i \in A[k] \/ k \in A[i]
  PROVE  /\ Cardinality(V) \in Nat
         /\ \A at \in 1..Cardinality(V) : \E i \in V : Cardinality(A[i]) = at - 1
         /\ \A i, k \in V : Cardinality(A[i]) < Cardinality(A[k]) => i \in A[k]
         /\ \A i, k \in V : Cardinality(A[i]) = Cardinality(A[k]) => i = k
         /\ \A i \in V : Cardinality(A[i]) \in 0..(Cardinality(V) - 1)
<1> DEFINE n == Cardinality(V)
           r == [i \in V |-> Cardinality(A[i])]
<1>1. n \in Nat
  BY FS_CardinalityType
<1>2. \A i \in V : IsFiniteSet(A[i]) /\ Cardinality(A[i]) \in Nat
  BY FS_Subset, FS_CardinalityType
<1>3. \A i \in V : Cardinality(A[i]) < n
  <2> TAKE i \in V
  <2>1. A[i] \in SUBSET V /\ A[i] # V
    OBVIOUS
  <2>2. Cardinality(A[i]) <= n /\ Cardinality(A[i]) # n
    BY <2>1, FS_Subset
  <2> QED BY <1>1, <1>2, <2>2
<1>4. \A i, k \in V : k \in A[i] => Cardinality(A[k]) < Cardinality(A[i])
  <2> TAKE i, k \in V
  <2> HAVE k \in A[i]
  <2>1. A[k] \in SUBSET A[i] /\ A[k] # A[i]
    OBVIOUS
  <2>2. Cardinality(A[k]) <= Cardinality(A[i]) /\ Cardinality(A[k]) # Cardinality(A[i])
    BY <1>2, <2>1, FS_Subset
  <2> QED BY <1>2, <2>2
<1>5. \A i, k \in V : Cardinality(A[i]) = Cardinality(A[k]) => i = k
  BY <1>2, <1>4
<1>6. \A i, k \in V : Cardinality(A[i]) < Cardinality(A[k]) => i \in A[k]
  BY <1>2, <1>4
<1>7. \A i \in V : Cardinality(A[i]) \in 0..(n - 1)
  BY <1>1, <1>2, <1>3
<1>8. r \in Injection(V, 0..(n - 1))
  BY <1>5, <1>7 DEF Injection, IsInjective
<1>9. IsFiniteSet(0..(n - 1)) /\ Cardinality(0..(n - 1)) = n
  BY <1>1, FS_Interval
<1>10. r \in Surjection(V, 0..(n - 1))
  BY <1>8, <1>9, FS_Injection
<1>11. \A at \in 1..n : \E i \in V : Cardinality(A[i]) = at - 1
  <2> TAKE at \in 1..n
  <2>1. at - 1 \in 0..(n - 1)
    BY <1>1
  <2>2. \E i \in V : r[i] = at - 1
    BY <1>10, <2>1 DEF Surjection
  <2> QED BY <2>2
<1> QED BY <1>1, <1>5, <1>6, <1>7, <1>11

(* The positions of the entries that the view v lets through. *)
Passing(es, v) == {i \in DOMAIN es : EntryVisible(es[i], v[1], v[2])}

(* Those of them that are shown above the one at position i. *)
ShownAbove(es, v, i) == {k \in Passing(es, v) : EntryLess(es[k], es[i], v[3], v[4])}

LEMMA RowsByPlace ==
  ASSUME NEW es, NEW v
  PROVE  VisibleIndices(es, v) =
           [at \in 1..Cardinality(Passing(es, v)) |->
              CHOOSE i \in Passing(es, v) : Cardinality(ShownAbove(es, v, i)) = at - 1]
BY Zenon DEF VisibleIndices, Passing, ShownAbove

(* The rows are the entries that pass, each once, in the order asked for:  *)
(* sort_entries and visible_indices, whatever the filter and the order.    *)
THEOREM RowsAreSorted ==
  ASSUME NEW es \in Seq(Name), IsInjective(es), NEW v
  PROVE  LET s == VisibleIndices(es, v)
         IN  /\ s \in Seq(Passing(es, v)) /\ ToSet(s) = Passing(es, v) /\ IsInjective(s)
             /\ \A i, k \in 1..Len(s) :
                  i < k => EntryLess(es[s[i]], es[s[k]], v[3], v[4])
<1> DEFINE V == Passing(es, v)
           A == [i \in V |-> ShownAbove(es, v, i)]
           n == Cardinality(V)
           s == VisibleIndices(es, v)
<1>1. s = [at \in 1..n |-> CHOOSE i \in V : Cardinality(ShownAbove(es, v, i)) = at - 1]
  BY RowsByPlace
<1>2. Len(es) \in Nat /\ DOMAIN es = 1..Len(es) /\ \A i \in DOMAIN es : es[i] \in Name
  BY LenProperties, ElementOfSeq
<1>3. \A i \in V : es[i] \in Name
  BY <1>2 DEF Passing
<1>4. \A i, k \in V : es[i] = es[k] => i = k
  BY DEF Passing, IsInjective
<1>5. IsFiniteSet(V)
  <2>1. IsFiniteSet(1..Len(es))
    BY <1>2, FS_Interval
  <2>2. V \in SUBSET (1..Len(es))
    BY <1>2 DEF Passing
  <2> QED BY <2>1, <2>2, FS_Subset
<1>6. \A i \in V : A[i] \subseteq V \ {i}
  BY <1>3, EntryIrreflexive DEF ShownAbove
<1>7. \A i, k \in V : k \in A[i] => A[k] \subseteq A[i]
  BY <1>3, EntryTransitive DEF ShownAbove
<1>8. \A i, k \in V : i = k \/ i \in A[k] \/ k \in A[i]
  <2> TAKE i, k \in V
  <2>1. i = k \/ es[i] # es[k]
    BY <1>4
  <2>2. es[i] # es[k] => EntryLess(es[i], es[k], v[3], v[4]) \/ EntryLess(es[k], es[i], v[3], v[4])
    BY <1>3, EntryTotal
  <2> QED BY <2>1, <2>2 DEF ShownAbove
<1>9. \A i \in V : A[i] = ShownAbove(es, v, i)
  OBVIOUS
<1>10. \A i, k \in V : i \in A[k] => EntryLess(es[i], es[k], v[3], v[4])
  BY DEF ShownAbove
<1> HIDE DEF A, V, s
<1>11. /\ n \in Nat
       /\ \A at \in 1..n : \E i \in V : Cardinality(A[i]) = at - 1
       /\ \A i, k \in V : Cardinality(A[i]) < Cardinality(A[k]) => i \in A[k]
       /\ \A i, k \in V : Cardinality(A[i]) = Cardinality(A[k]) => i = k
       /\ \A i \in V : Cardinality(A[i]) \in 0..(n - 1)
  BY <1>5, <1>6, <1>7, <1>8, EachHasItsPlace
<1>12. \A at \in 1..n : \E i \in V : Cardinality(ShownAbove(es, v, i)) = at - 1
  BY <1>9, <1>11
<1>13. \A at \in 1..n : s[at] \in V /\ Cardinality(A[s[at]]) = at - 1
  BY <1>1, <1>9, <1>12
<1>14. s \in Seq(V) /\ Len(s) = n /\ DOMAIN s = 1..n
  <2>1. DOMAIN s = 1..n /\ s = [at \in 1..n |-> s[at]]
    BY <1>1
  <2>2. s \in [1..n -> V]
    BY <1>13, <2>1
  <2> HIDE DEF n
  <2> QED BY <1>11, <2>1, <2>2, IsASeq, LenProperties
<1> HIDE DEF n
<1>15. IsInjective(s)
  BY <1>13, <1>14 DEF IsInjective
<1>16. ToSet(s) = V
  <2>1. ToSet(s) \subseteq V
    BY <1>13, <1>14 DEF ToSet
  <2>2. ASSUME NEW i \in V PROVE i \in ToSet(s)
    <3> DEFINE at == Cardinality(A[i]) + 1
    <3>1. at \in 1..n /\ at - 1 = Cardinality(A[i])
      BY <1>11
    <3>2. s[at] \in V /\ Cardinality(A[s[at]]) = Cardinality(A[i])
      BY <1>13, <3>1
    <3>3. s[at] = i
      BY <1>11, <3>2
    <3> QED BY <1>14, <3>1, <3>3 DEF ToSet
  <2> QED BY <2>1, <2>2
<1>17. \A i, k \in 1..Len(s) : i < k => EntryLess(es[s[i]], es[s[k]], v[3], v[4])
  <2> TAKE i, k \in 1..Len(s)
  <2> HAVE i < k
  <2>1. /\ s[i] \in V /\ s[k] \in V
        /\ Cardinality(A[s[i]]) = i - 1 /\ Cardinality(A[s[k]]) = k - 1
    BY <1>13, <1>14
  <2>2. s[i] \in A[s[k]]
    BY <1>11, <2>1
  <2> QED BY <1>10, <2>1, <2>2
<1> QED BY <1>14, <1>15, <1>16, <1>17 DEF V, s

-----------------------------------------------------------------------------
(* What holds of a file pane in every state, in the form that each step    *)
(* keeps.                                                                  *)
Policies == {"Reset", "PreserveName"}

(* Rows that are taken from the cache are those that would be computed.    *)
CacheHolds ==
  Matches(cache, entries, buffer, view) => cache.idx = VisibleIndices(entries, view)

(* Each entry is there once, and what is marked and highlighted is there.  *)
RowsInv ==
  /\ buffer \in {1, 2}
  /\ entries \in Seq(Name) /\ IsInjective(entries)
  /\ selected \in Nat /\ anchor \in Nat \cup {NoAnchorRow}
  /\ CacheHolds /\ SelectionInRange /\ MarksAreListed

(* The listings under way.  The local pane uses no connection, and the     *)
(* listing it waits for is one of the folder it is in.                     *)
PlaceInv ==
  /\ cwd \in Folder
  /\ listings \subseteq [path : Folder, select : Policies, latest : BOOLEAN]
  /\ io.kind = "List" => io.select \in Policies
  /\ ~remote => /\ connected = FALSE /\ io.kind \in {"Idle", "Fs"}
                /\ \A t \in listings : t.latest => t.path = cwd
  /\ LocalShowsItsFolder

(* The rows as they would be computed now.                                 *)
RowsNow(es, v) == LET s == VisibleIndices(es, v) IN [at \in DOMAIN s |-> es[s[at]]]

LEMMA RowsAreEntries ==
  ASSUME NEW es \in Seq(Name), IsInjective(es), NEW v
  PROVE  RowsNow(es, v) \in Seq(Name) /\ ToSet(RowsNow(es, v)) \subseteq ToSet(es)
<1> DEFINE s == VisibleIndices(es, v)
           R == RowsNow(es, v)
<1>1. s \in Seq(Passing(es, v)) /\ ToSet(s) = Passing(es, v)
  BY RowsAreSorted
<1>2. Passing(es, v) \subseteq DOMAIN es
  BY DEF Passing
<1>3. R = [at \in DOMAIN s |-> es[s[at]]]
  BY DEF RowsNow
<1> HIDE DEF s, R
<1>4. Len(s) \in Nat /\ DOMAIN s = 1..Len(s) /\ \A at \in 1..Len(s) : s[at] \in DOMAIN es
  BY <1>1, <1>2, LenProperties, ElementOfSeq
<1>5. DOMAIN es = 1..Len(es) /\ \A i \in DOMAIN es : es[i] \in Name
  BY LenProperties, ElementOfSeq
<1>6. \A at \in 1..Len(s) : R[at] = es[s[at]] /\ R[at] \in Name
  BY <1>3, <1>4, <1>5
<1>7. R \in [1..Len(s) -> Name]
  BY <1>3, <1>4, <1>6
<1>8. R \in Seq(Name)
  BY <1>4, <1>7
<1>9. ToSet(R) \subseteq ToSet(es)
  BY <1>4, <1>6, <1>7 DEF ToSet
<1> QED BY <1>8, <1>9 DEF R

(* The rows on the screen are those, and are again once they are drawn.    *)
LEMMA RowsAreThose ==
  ASSUME CacheHolds
  PROVE  /\ visible = RowsNow(entries, view)
         /\ Lookup(cache, entries, buffer, view).idx = VisibleIndices(entries, view)
<1> DEFINE c == Lookup(cache, entries, buffer, view)
<1>1. c.idx = VisibleIndices(entries, view)
  BY DEF CacheHolds, Lookup
<1>2. visible = [at \in DOMAIN c.idx |-> entries[c.idx[at]]]
  BY DEF visible, RowsOf
<1> HIDE DEF c
<1>3. visible = RowsNow(entries, view)
  BY <1>1, <1>2 DEF RowsNow
<1> QED BY <1>1, <1>3 DEF c

LEMMA DrawnAgain ==
  ASSUME CacheHolds, Redraw, buffer' = buffer => entries' = entries
  PROVE  /\ CacheHolds'
         /\ visible' = RowsNow(entries', view')
         /\ RowsOf(cache', entries') = RowsNow(entries', view')
<1> DEFINE c == Lookup(cache, entries, buffer, view)
<1>1. c.idx = VisibleIndices(entries, view) /\ c.buffer = buffer /\ c.view = view
  BY DEF CacheHolds, Lookup, Matches
<1>2. cache' = Lookup(c, entries', buffer', view')
  BY DEF Redraw
<1> HIDE DEF c
<1>3. cache'.idx = VisibleIndices(entries', view')
  <2>1. CASE Matches(c, entries', buffer', view')
    BY <1>1, <1>2, <2>1 DEF Lookup, Matches
  <2>2. CASE ~Matches(c, entries', buffer', view')
    BY <1>2, <2>2 DEF Lookup
  <2> QED BY <2>1, <2>2
<1>4. CacheHolds'
  BY <1>3 DEF CacheHolds
<1>5. RowsOf(cache', entries') = RowsNow(entries', view')
  BY <1>3 DEF RowsOf, RowsNow
<1>6. Lookup(cache', entries', buffer', view').idx = VisibleIndices(entries', view')
  BY <1>3 DEF Lookup
<1>7. visible' = RowsNow(entries', view')
  BY <1>6 DEF visible, RowsOf, RowsNow
<1> QED BY <1>4, <1>5, <1>7

LEMMA BoundedInRange ==
  ASSUME NEW rows \in Seq(Name), NEW i \in Nat
  PROVE  Bounded(i, rows) \in Nat /\ (Bounded(i, rows) = 0 \/ Bounded(i, rows) < Len(rows))
<1>1. Len(rows) \in Nat
  BY LenProperties
<1> QED BY <1>1 DEF Bounded

(* Whatever the policy, the new highlight is a row, and the one that keeps *)
(* the name finds it if it is there.                                       *)
LEMMA ResolvedInRange ==
  ASSUME NEW rows \in Seq(Name), NEW names, NEW policy, selected \in Nat
  PROVE  LET i == ResolveSelect(rows, names, policy)
         IN  /\ i \in Nat /\ (i = 0 \/ i < Len(rows))
             /\ policy = "PreserveName" /\ (\A x, y \in names : x = y)
                  => names \cap ToSet(rows) \subseteq RowAt(rows, i)
<1> DEFINE i == ResolveSelect(rows, names, policy)
           k == CHOOSE h \in 1..Len(rows) : rows[h] \in names
<1>1. Len(rows) \in Nat /\ DOMAIN rows = 1..Len(rows)
  BY LenProperties
<1>2. CASE policy = "Reset"
  BY <1>2 DEF ResolveSelect
<1>3. CASE policy = "PreserveName" /\ names \cap ToSet(rows) # {}
  <2>1. \E h \in 1..Len(rows) : rows[h] \in names
    BY <1>1, <1>3 DEF ToSet
  <2>2. k \in 1..Len(rows) /\ rows[k] \in names
    BY <2>1
  <2>3. i = k - 1
    BY <1>3 DEF ResolveSelect
  <2> HIDE DEF i, k
  <2>4. i \in Nat /\ i < Len(rows) /\ i + 1 = k
    BY <1>1, <2>2, <2>3
  <2>5. RowAt(rows, i) = {rows[k]}
    BY <2>4 DEF RowAt
  <2> QED BY <2>2, <2>4, <2>5 DEF i
<1>4. CASE policy # "Reset" /\ ~(policy = "PreserveName" /\ names \cap ToSet(rows) # {})
  <2>1. i = Bounded(selected, rows)
    BY <1>4 DEF ResolveSelect
  <2> QED BY <1>4, <2>1, BoundedInRange
<1> QED BY <1>2, <1>3, <1>4

LEMMA OneIsSelected ==
  \A x, y \in selected_entry : x = y
BY DEF selected_entry, RowAt

(* What the rows of now are made of, and that they stay as long as the     *)
(* entries and the settings do.                                            *)
LEMMA RowsStay ==
  ASSUME RowsInv
  PROVE  /\ visible \in Seq(Name) /\ ToSet(visible) \subseteq ToSet(entries)
         /\ Redraw /\ UNCHANGED <<entries, buffer, view>> => CacheHolds' /\ visible' = visible
<1>1. visible = RowsNow(entries, view)
  BY RowsAreThose DEF RowsInv
<1>2. visible \in Seq(Name) /\ ToSet(visible) \subseteq ToSet(entries)
  BY <1>1, RowsAreEntries DEF RowsInv
<1>3. ASSUME Redraw, entries' = entries, buffer' = buffer, view' = view
      PROVE  CacheHolds' /\ visible' = visible
  BY <1>1, <1>3, DrawnAgain DEF RowsInv
<1> QED BY <1>2, <1>3

(* A step that leaves the entries, the settings, the highlight and the     *)
(* marks alone leaves them right.                                          *)
LEMMA LeftAlone ==
  ASSUME RowsInv, Redraw, UNCHANGED <<shown, entries, buffer, selected, marking, view>>
  PROVE  RowsInv' /\ SelectionFollowsName /\ OnlySeenIsMarked
<1>1. CacheHolds' /\ visible' = visible
  BY RowsStay
<1>2. SelectionInRange' /\ selected_entry' = selected_entry
  BY <1>1 DEF RowsInv, SelectionInRange, selected_entry
<1>3. MarksAreListed' /\ marks' = marks /\ anchor' = anchor
  BY DEF RowsInv, MarksAreListed, marking
<1>4. SelectionFollowsName
  BY <1>2 DEF SelectionFollowsName
<1>5. OnlySeenIsMarked
  BY <1>3 DEF OnlySeenIsMarked
<1> QED BY <1>1, <1>2, <1>3, <1>4, <1>5 DEF RowsInv

(* So does one that marks rows on the screen and moves among them.         *)
LEMMA MarkedOnScreen ==
  ASSUME RowsInv, Redraw, UNCHANGED <<shown, entries, buffer, view>>,
         selected' \in Nat, selected' = 0 \/ selected' < Len(visible),
         anchor' \in Nat \cup {NoAnchorRow}, OnlySeenIsMarked
  PROVE  RowsInv' /\ (selected' = selected => SelectionFollowsName)
<1>1. CacheHolds' /\ visible' = visible /\ ToSet(visible) \subseteq ToSet(entries)
  BY RowsStay
<1>2. SelectionInRange'
  BY <1>1 DEF SelectionInRange
<1>3. MarksAreListed'
  BY <1>1 DEF RowsInv, MarksAreListed, OnlySeenIsMarked
<1>4. selected' = selected => SelectionFollowsName
  BY <1>1 DEF SelectionFollowsName, selected_entry
<1> QED BY <1>1, <1>2, <1>3, <1>4 DEF RowsInv

(* A new listing: marks of what is gone go, and the highlight is resolved. *)
LEMMA Relisted ==
  ASSUME RowsInv, NEW f, NEW S, S \subseteq Name, IsFiniteSet(S), NEW select,
         SetEntries(f, S, select)
  PROVE  /\ RowsInv' /\ OnlySeenIsMarked
         /\ select = "PreserveName" \/ S = {} => SelectionFollowsName
<1>1. entries' \in Seq(Name) /\ IsInjective(entries)' /\ ToSet(entries') = S
  <2>1. entries' = SetToSeq(S)
    BY DEF SetEntries
  <2> QED BY <2>1, SetToSeqElements, SeqGrows
<1>2. buffer' \in {1, 2} /\ buffer' # buffer
  BY DEF SetEntries, RowsInv, NewBuffer
<1>3. CacheHolds' /\ visible' = RowsNow(entries', view') /\ RowsOf(cache', entries') = visible'
  BY <1>2, DrawnAgain DEF SetEntries, RowsInv
<1>4. visible' \in Seq(Name) /\ ToSet(visible') \subseteq S
  BY <1>1, <1>3, RowsAreEntries
<1>5. selected' = ResolveSelect(visible', selected_entry, select)
  BY <1>3 DEF SetEntries
<1>6. /\ selected' \in Nat /\ (selected' = 0 \/ selected' < Len(visible'))
      /\ select = "PreserveName" => selected_entry \cap ToSet(visible') \subseteq RowAt(visible', selected')
  BY <1>4, <1>5, ResolvedInRange, OneIsSelected DEF RowsInv
<1>7. SelectionInRange'
  BY <1>6 DEF SelectionInRange
<1>8. marks' \subseteq marks /\ marks' \subseteq {Path(f, n) : n \in S} /\ shown' = f /\ anchor' = anchor
  BY DEF SetEntries, MarksAfter
<1>9. MarksAreListed' /\ OnlySeenIsMarked
  BY <1>1, <1>8 DEF MarksAreListed, OnlySeenIsMarked
<1>10. select = "PreserveName" \/ S = {} => selected_entry \cap ToSet(visible') \subseteq selected_entry'
  BY <1>4, <1>6 DEF selected_entry
<1>11. select = "PreserveName" \/ S = {} => SelectionFollowsName
  BY <1>10 DEF SelectionFollowsName
<1> QED BY <1>1, <1>2, <1>3, <1>6, <1>7, <1>8, <1>9, <1>11 DEF RowsInv

LEMMA RangeIsSeen ==
  ASSUME RowsInv, NEW from \in Nat, NEW to \in Nat, MarkRange(from, to)
  PROVE  OnlySeenIsMarked
<1>1. Len(visible) \in Nat /\ DOMAIN visible = 1..Len(visible)
  BY RowsStay, LenProperties
<1>2. \A lo, hi \in Nat : VisibleRange(lo, hi) \subseteq ToSet(visible) \ DotNames
  BY <1>1 DEF VisibleRange, ToSet
<1>3. PICK lo \in Nat, hi \in Nat : marks' = marks \cup {Path(shown, n) : n \in VisibleRange(lo, hi)}
  BY DEF MarkRange
<1> QED BY <1>2, <1>3 DEF OnlySeenIsMarked

LEMMA SelectedIsSeen ==
  ASSUME RowsInv
  PROVE  selected_entry \subseteq ToSet(visible)
<1>1. Len(visible) \in Nat /\ DOMAIN visible = 1..Len(visible)
  BY RowsStay, LenProperties
<1> QED BY <1>1 DEF RowsInv, selected_entry, RowAt, ToSet

(* The keys and clicks that move the highlight, mark, and rearrange.       *)
ChoiceKept == RowsInv' /\ SelectionFollowsName /\ OnlySeenIsMarked

LEMMA SelectIndexKeeps ==
  ASSUME RowsInv, SelectIndex
  PROVE  ChoiceKept
<1>1. PICK i \in 0..Len(visible) : selected' = Bounded(i, visible)
  BY DEF SelectIndex
<1>2. visible \in Seq(Name) /\ i \in Nat
  BY RowsStay, LenProperties
<1>3. selected' \in Nat /\ (selected' = 0 \/ selected' < Len(visible))
  BY <1>1, <1>2, BoundedInRange
<1>4. Redraw /\ UNCHANGED <<shown, entries, buffer, view>> /\ marks' = marks /\ anchor' = anchor
  BY DEF SelectIndex, place, marking
<1>5. OnlySeenIsMarked
  BY <1>4 DEF OnlySeenIsMarked
<1> QED BY <1>3, <1>4, <1>5, MarkedOnScreen DEF ChoiceKept, SelectionFollowsName, RowsInv

LEMMA ChangeViewKeeps ==
  ASSUME RowsInv, ChangeView
  PROVE  ChoiceKept
<1>1. Redraw /\ UNCHANGED <<shown, entries, buffer, marks, anchor>> /\ Reselect
  BY DEF ChangeView, place, marking
<1>2. CacheHolds' /\ visible' = RowsNow(entries, view') /\ RowsOf(cache', entries') = visible'
  BY <1>1, DrawnAgain DEF RowsInv
<1>3. visible' \in Seq(Name)
  BY <1>2, RowsAreEntries DEF RowsInv
<1>4. selected' = ResolveSelect(visible', selected_entry, "PreserveName")
  BY <1>1, <1>2 DEF Reselect
<1>5. /\ selected' \in Nat /\ (selected' = 0 \/ selected' < Len(visible'))
      /\ selected_entry \cap ToSet(visible') \subseteq RowAt(visible', selected')
  BY <1>3, <1>4, ResolvedInRange, OneIsSelected DEF RowsInv
<1>6. SelectionInRange' /\ SelectionFollowsName
  BY <1>5 DEF SelectionInRange, SelectionFollowsName, selected_entry
<1>7. MarksAreListed' /\ OnlySeenIsMarked
  BY <1>1 DEF RowsInv, MarksAreListed, OnlySeenIsMarked
<1> QED BY <1>1, <1>2, <1>5, <1>6, <1>7 DEF RowsInv, ChoiceKept

LEMMA MarksKeep ==
  ASSUME RowsInv, MarkAllVisible \/ ToggleMark \/ ClearMarks
  PROVE  ChoiceKept
<1>1. Redraw /\ UNCHANGED <<shown, entries, buffer, view, selected>>
  BY DEF MarkAllVisible, ToggleMark, ClearMarks, place
<1>2. anchor' \in Nat \cup {NoAnchorRow}
  BY DEF MarkAllVisible, ToggleMark, ClearMarks, RowsInv
<1>3. OnlySeenIsMarked
  <2>1. CASE MarkAllVisible
    <3>1. MarkRange(0, Len(visible)) /\ Len(visible) \in Nat
      BY <2>1, RowsStay, LenProperties DEF MarkAllVisible
    <3> QED BY <3>1, RangeIsSeen
  <2>2. CASE ToggleMark
    BY <2>2, SelectedIsSeen DEF ToggleMark, OnlySeenIsMarked
  <2>3. CASE ClearMarks
    BY <2>3 DEF ClearMarks, OnlySeenIsMarked
  <2> QED BY <2>1, <2>2, <2>3
<1>4. selected' \in Nat /\ (selected' = 0 \/ selected' < Len(visible))
  BY <1>1 DEF RowsInv, SelectionInRange
<1> QED BY <1>1, <1>2, <1>3, <1>4, MarkedOnScreen DEF ChoiceKept

LEMMA ExtendMarkKeeps ==
  ASSUME RowsInv, NEW dir \in {-1, 1}, ExtendMark(dir)
  PROVE  ChoiceKept
<1>1. Redraw /\ UNCHANGED <<shown, entries, buffer, view>>
  BY DEF ExtendMark, place
<1>2. anchor' \in Nat /\ selected' \in Nat /\ selected' < Len(visible)
  BY DEF ExtendMark, RowsInv
<1>3. OnlySeenIsMarked
  BY <1>2, RangeIsSeen DEF ExtendMark
<1>4. SelectionFollowsName
  BY DEF SelectionFollowsName
<1> QED BY <1>1, <1>2, <1>3, <1>4, MarkedOnScreen DEF ChoiceKept

LEMMA ShiftClickKeeps ==
  ASSUME RowsInv, NEW i \in 0..Len(entries), ShiftClick(i)
  PROVE  ChoiceKept
<1>1. Redraw /\ UNCHANGED <<shown, entries, buffer, view>>
  BY DEF ShiftClick, place
<1>2. i \in Nat
  BY LenProperties DEF RowsInv
<1>3. anchor' \in Nat /\ selected' \in Nat /\ selected' < Len(visible)
  BY <1>2 DEF ShiftClick, RowsInv
<1>4. OnlySeenIsMarked
  BY <1>2, RangeIsSeen DEF ShiftClick, RowsInv
<1>5. SelectionFollowsName
  BY DEF SelectionFollowsName
<1> QED BY <1>1, <1>3, <1>4, <1>5, MarkedOnScreen DEF ChoiceKept

(* The listings that arrive.                                               *)
LEMMA ListableIsFinite ==
  ASSUME NEW S \in Listable
  PROVE  S \subseteq Name /\ IsFiniteSet(S)
BY PaneAssumption

LEMMA LocalListDoneKeeps ==
  ASSUME RowsInv, PlaceInv, NEW t \in listings, LocalListDone(t)
  PROVE  ChoiceKept
<1>1. t.select \in Policies
  BY DEF PlaceInv
<1>2. CASE IsAwaited(t)
  <2>1. PICK S \in Listable : SetEntries(t.path, S, t.select)
    BY <1>2 DEF LocalListDone
  <2>2. RowsInv' /\ OnlySeenIsMarked /\ (t.select = "PreserveName" => SelectionFollowsName)
    BY <2>1, ListableIsFinite, Relisted
  <2>3. t.select = "Reset" => SelectionFollowsName
    BY DEF LocalListDone, SelectionFollowsName, ArrivesAnew
  <2> QED BY <1>1, <2>2, <2>3 DEF Policies, ChoiceKept
<1>3. CASE ~IsAwaited(t)
  BY <1>3, LeftAlone DEF LocalListDone, ChoiceKept
<1> QED BY <1>2, <1>3

LEMMA ListDoneKeeps ==
  ASSUME RowsInv, PlaceInv, ListDone
  PROVE  ChoiceKept
<1>1. io.select \in Policies /\ io.kind = "List" /\ io' # io
  BY DEF PlaceInv, ListDone, Idle
<1>2. CASE \E S \in Listable : SetEntries(io.folder, S, io.select)
  <2>1. PICK S \in Listable : SetEntries(io.folder, S, io.select)
    BY <1>2
  <2>2. RowsInv' /\ OnlySeenIsMarked /\ (io.select = "PreserveName" => SelectionFollowsName)
    BY <2>1, ListableIsFinite, Relisted
  <2>3. io.select = "Reset" => SelectionFollowsName
    BY <1>1 DEF SelectionFollowsName, ArrivesAnew
  <2> QED BY <1>1, <2>2, <2>3 DEF Policies, ChoiceKept
<1>3. CASE Settled(cwd) /\ Redraw
  BY <1>3, LeftAlone DEF Settled, ChoiceKept
<1> QED BY <1>2, <1>3 DEF ListDone

LEMMA ConnectDoneKeeps ==
  ASSUME RowsInv, ConnectDone
  PROVE  ChoiceKept
<1>1. SelectionFollowsName
  BY DEF ConnectDone, SelectionFollowsName, ArrivesAnew
<1>2. CASE \E S \in Listable : SetEntries(cwd, S, "Reset")
  <2>1. PICK S \in Listable : SetEntries(cwd, S, "Reset")
    BY <1>2
  <2>2. RowsInv' /\ OnlySeenIsMarked
    BY <2>1, ListableIsFinite, Relisted
  <2> QED BY <1>1, <2>2 DEF ChoiceKept
<1>3. CASE Settled(cwd) /\ Redraw
  BY <1>3, LeftAlone DEF Settled, ChoiceKept
<1> QED BY <1>2, <1>3 DEF ConnectDone

LEMMA DisconnectSessionKeeps ==
  ASSUME RowsInv, DisconnectSession
  PROVE  ChoiceKept
<1>1. SetEntries(cwd, {}, "Reset")
  BY DEF DisconnectSession
<1>2. IsFiniteSet({}) /\ {} \subseteq Name
  BY FS_EmptySet
<1> QED BY <1>1, <1>2, Relisted DEF ChoiceKept

(* The steps that ask for a listing, or are about a prompt or an operation.*)
LEMMA AskingKeeps ==
  ASSUME RowsInv,
         \/ \E f \in Folder : NavigateLocal(f) \/ NavigateRemote(f) \/ RelistRemote(f) \/ Connect(f)
         \/ RefreshLocal \/ FsDone
         \/ OpenDeletePrompt \/ OpenRenamePrompt \/ ConfirmPrompt \/ CancelPrompt
  PROVE  ChoiceKept
<1>1. Redraw
  BY DEF NavigateLocal, NavigateRemote, RelistRemote, Connect, RefreshLocal, FsDone,
         OpenDeletePrompt, OpenRenamePrompt, ConfirmPrompt, CancelPrompt
<1>2. UNCHANGED <<shown, entries, buffer, selected, marking, view>>
  BY DEF NavigateLocal, NavigateRemote, RelistRemote, Connect, RefreshLocal, FsDone, Settled,
         OpenDeletePrompt, OpenRenamePrompt, ConfirmPrompt, CancelPrompt, place
<1> QED BY <1>1, <1>2, LeftAlone DEF ChoiceKept

LEMMA EachStepKeepsTheChoice ==
  ASSUME RowsInv, PlaceInv, FilesNext
  PROVE  ChoiceKept
<1>1. CASE SelectIndex \/ ChangeView
  BY <1>1, SelectIndexKeeps, ChangeViewKeeps
<1>2. CASE MarkAllVisible \/ ToggleMark \/ ClearMarks
  BY <1>2, MarksKeep
<1>3. CASE \E dir \in {-1, 1} : ExtendMark(dir)
  BY <1>3, ExtendMarkKeeps
<1>4. CASE \E i \in 0..Len(entries) : ShiftClick(i)
  BY <1>4, ShiftClickKeeps
<1>5. CASE \E t \in listings : LocalListDone(t)
  BY <1>5, LocalListDoneKeeps
<1>6. CASE ListDone \/ ConnectDone \/ DisconnectSession
  BY <1>6, ListDoneKeeps, ConnectDoneKeeps, DisconnectSessionKeeps
<1>7. CASE \/ \E f \in Folder : NavigateLocal(f) \/ NavigateRemote(f) \/ RelistRemote(f) \/ Connect(f)
           \/ RefreshLocal \/ FsDone
           \/ OpenDeletePrompt \/ OpenRenamePrompt \/ ConfirmPrompt \/ CancelPrompt
  BY <1>7, AskingKeeps
<1> QED BY <1>1, <1>2, <1>3, <1>4, <1>5, <1>6, <1>7 DEF FilesNext

(* The folder and the listings on their way, step by step.                 *)
LEMMA Requested ==
  ASSUME PlaceInv, NEW f \in Folder, NEW select \in Policies, RequestLocalList(f, select)
  PROVE  /\ listings' \subseteq [path : Folder, select : Policies, latest : BOOLEAN]
         /\ \A t \in listings' : t.latest => t.path = f
         /\ \E t \in listings' : t.latest
<1> DEFINE new == [path |-> f, select |-> select, latest |-> TRUE]
           old == {[t EXCEPT !.latest = FALSE] : t \in listings}
<1>1. listings' = old \cup {new}
  BY DEF RequestLocalList
<1>2. new \in [path : Folder, select : Policies, latest : BOOLEAN] /\ new.latest /\ new.path = f
  OBVIOUS
<1>3. \A t \in old : /\ t \in [path : Folder, select : Policies, latest : BOOLEAN]
                     /\ ~t.latest
  BY DEF PlaceInv
<1> HIDE DEF new, old
<1> QED BY <1>1, <1>2, <1>3

LEMMA PlaceUntouched ==
  ASSUME PlaceInv, UNCHANGED <<remote, cwd, shown, listings, io, connected>>
  PROVE  PlaceInv'
BY DEF PlaceInv, LocalShowsItsFolder

LEMMA KeysKeepPlace ==
  ASSUME PlaceInv,
         \/ SelectIndex \/ ChangeView \/ MarkAllVisible \/ ToggleMark \/ ClearMarks
         \/ \E dir \in {-1, 1} : ExtendMark(dir)
         \/ \E i \in 0..Len(entries) : ShiftClick(i)
         \/ OpenDeletePrompt \/ OpenRenamePrompt \/ CancelPrompt
  PROVE  PlaceInv'
<1>1. UNCHANGED <<remote, cwd, shown, listings, io, connected>>
  BY DEF SelectIndex, ChangeView, MarkAllVisible, ToggleMark, ClearMarks, ExtendMark, ShiftClick,
         OpenDeletePrompt, OpenRenamePrompt, CancelPrompt, place, work
<1> QED BY <1>1, PlaceUntouched

LEMMA ConfirmKeepsPlace ==
  ASSUME PlaceInv, ConfirmPrompt
  PROVE  PlaceInv'
<1>1. UNCHANGED <<remote, cwd, shown, listings, connected>>
  BY DEF ConfirmPrompt, place
<1>2. io' = io \/ io'.kind = "Fs"
  BY DEF ConfirmPrompt, RenameItem, StartNextDelete
<1> QED BY <1>1, <1>2 DEF PlaceInv, LocalShowsItsFolder

LEMMA LocalRequestsKeepPlace ==
  ASSUME PlaceInv, (\E f \in Folder : NavigateLocal(f)) \/ RefreshLocal
  PROVE  PlaceInv'
<1>1. PICK f \in Folder, select \in Policies :
        /\ RequestLocalList(f, select) /\ cwd' = f
        /\ UNCHANGED <<remote, io, connected>>
  BY DEF NavigateLocal, RefreshLocal, Settled, Policies, PlaceInv
<1> QED BY <1>1, Requested DEF PlaceInv, LocalShowsItsFolder

LEMMA RemoteRequestsKeepPlace ==
  ASSUME PlaceInv,
         \E f \in Folder : NavigateRemote(f) \/ RelistRemote(f) \/ Connect(f)
  PROVE  PlaceInv'
<1>1. PICK f \in Folder : NavigateRemote(f) \/ RelistRemote(f) \/ Connect(f)
  OBVIOUS
<1>2. remote /\ remote' = remote /\ cwd' \in Folder /\ listings' = listings
  BY <1>1 DEF NavigateRemote, RelistRemote, Connect, Settled, PlaceInv
<1>3. io'.kind = "List" => io'.select \in Policies
  BY <1>1 DEF NavigateRemote, RelistRemote, Connect, RequestList, Policies
<1> QED BY <1>2, <1>3 DEF PlaceInv, LocalShowsItsFolder

(* Of the local pane's listings the one awaited brings its folder, and the *)
(* others leave the pane as it is.                                         *)
LEMMA LocalListDoneKeepsPlace ==
  ASSUME PlaceInv, NEW t \in listings, LocalListDone(t)
  PROVE  PlaceInv'
<1>1. listings' = listings \ {t} /\ UNCHANGED <<remote, cwd, io, connected>>
  BY DEF LocalListDone
<1>2. CASE IsAwaited(t)
  <2>1. shown' = cwd
    BY <1>2 DEF LocalListDone, SetEntries, IsAwaited
  <2> QED BY <1>1, <2>1 DEF PlaceInv, LocalShowsItsFolder
<1>3. CASE ~IsAwaited(t)
  <2>1. shown' = shown
    BY <1>3 DEF LocalListDone
  <2>2. ~remote => ~t.latest
    BY <1>3 DEF PlaceInv, IsAwaited
  <2> QED BY <1>1, <2>1, <2>2 DEF PlaceInv, LocalShowsItsFolder
<1> QED BY <1>2, <1>3

LEMMA RemoteAnswersKeepPlace ==
  ASSUME PlaceInv, ListDone \/ ConnectDone \/ DisconnectSession
  PROVE  PlaceInv'
<1>1. remote
  BY DEF PlaceInv, ListDone, ConnectDone, DisconnectSession
<1>2. remote' = remote /\ cwd' = cwd /\ listings' = listings /\ io' = Idle
  BY DEF ListDone, ConnectDone, DisconnectSession, Settled
<1> QED BY <1>1, <1>2 DEF PlaceInv, LocalShowsItsFolder, Idle

LEMMA FsDoneKeepsPlace ==
  ASSUME PlaceInv, FsDone
  PROVE  PlaceInv'
<1>1. UNCHANGED <<remote, cwd, shown, connected>> /\ cwd \in Folder
  BY DEF FsDone, Settled, PlaceInv
<1>2. CASE io' = Idle /\ RequestLocalList(cwd, "PreserveName")
  <2>1. /\ listings' \subseteq [path : Folder, select : Policies, latest : BOOLEAN]
        /\ \A t \in listings' : t.latest => t.path = cwd
        /\ \E t \in listings' : t.latest
    BY <1>1, <1>2, Requested DEF Policies
  <2> QED BY <1>1, <1>2, <2>1 DEF PlaceInv, LocalShowsItsFolder, Idle
<1>3. CASE remote /\ RequestList(cwd, "PreserveName") /\ listings' = listings
  BY <1>1, <1>3 DEF PlaceInv, LocalShowsItsFolder, RequestList, Policies
<1>4. CASE io' = Idle /\ listings' = listings
  BY <1>1, <1>4 DEF PlaceInv, LocalShowsItsFolder, Idle
<1> QED BY <1>2, <1>3, <1>4 DEF FsDone

LEMMA EachStepKeepsPlace ==
  ASSUME PlaceInv, FilesNext
  PROVE  PlaceInv'
<1>1. CASE \/ SelectIndex \/ ChangeView \/ MarkAllVisible \/ ToggleMark \/ ClearMarks
           \/ \E dir \in {-1, 1} : ExtendMark(dir)
           \/ \E i \in 0..Len(entries) : ShiftClick(i)
           \/ OpenDeletePrompt \/ OpenRenamePrompt \/ CancelPrompt
  BY <1>1, KeysKeepPlace
<1>2. CASE ConfirmPrompt \/ FsDone
  BY <1>2, ConfirmKeepsPlace, FsDoneKeepsPlace
<1>3. CASE (\E f \in Folder : NavigateLocal(f)) \/ RefreshLocal
  BY <1>3, LocalRequestsKeepPlace
<1>4. CASE \E f \in Folder : NavigateRemote(f) \/ RelistRemote(f) \/ Connect(f)
  BY <1>4, RemoteRequestsKeepPlace
<1>5. CASE \E t \in listings : LocalListDone(t)
  BY <1>5, LocalListDoneKeepsPlace
<1>6. CASE ListDone \/ ConnectDone \/ DisconnectSession
  BY <1>6, RemoteAnswersKeepPlace
<1> QED BY <1>1, <1>2, <1>3, <1>4, <1>5, <1>6 DEF FilesNext

PaneIInv == RowsInv /\ PlaceInv

LEMMA PaneStarts ==
  FilesInit => PaneIInv
<1> SUFFICES ASSUME FilesInit PROVE PaneIInv
  OBVIOUS
<1>1. PICK S \in Listable : entries = SetToSeq(IF remote THEN {} ELSE S)
  BY DEF FilesInit
<1> DEFINE E == IF remote THEN {} ELSE S
<1>2. E \subseteq Name /\ IsFiniteSet(E)
  BY ListableIsFinite, FS_EmptySet
<1> HIDE DEF E
<1>3. entries = SetToSeq(E)
  BY <1>1 DEF E
<1>4. entries \in Seq(Name) /\ IsInjective(entries)
  BY <1>2, <1>3, SetToSeqElements, SeqGrows
<1>5. CacheHolds
  BY DEF FilesInit, NoCache, CacheHolds, Matches
<1>6. RowsInv
  BY <1>4, <1>5 DEF FilesInit, RowsInv, SelectionInRange, MarksAreListed
<1>7. PlaceInv
  BY PaneAssumption DEF FilesInit, PlaceInv, LocalShowsItsFolder, Idle
<1> QED BY <1>6, <1>7 DEF PaneIInv

LEMMA PaneKeeps ==
  PaneIInv /\ [FilesNext]_filesVars => PaneIInv'
<1>1. ASSUME PaneIInv, FilesNext PROVE PaneIInv'
  BY <1>1, EachStepKeepsTheChoice, EachStepKeepsPlace DEF PaneIInv, ChoiceKept
<1>2. ASSUME PaneIInv, UNCHANGED filesVars PROVE PaneIInv'
  <2>1. UNCHANGED <<buffer, entries, selected, anchor, cache, view, shown, marks>>
    BY <1>2 DEF filesVars, place, marking
  <2>2. CacheHolds'
    BY <1>2, <2>1 DEF PaneIInv, RowsInv, CacheHolds
  <2>3. visible' = visible
    BY <2>1 DEF visible
  <2>4. RowsInv'
    BY <1>2, <2>1, <2>2, <2>3 DEF PaneIInv, RowsInv, SelectionInRange, MarksAreListed
  <2>5. UNCHANGED <<remote, cwd, shown, listings, io, connected>>
    BY <1>2 DEF filesVars, place, work
  <2>6. PlaceInv'
    BY <1>2, <2>5, PlaceUntouched DEF PaneIInv
  <2> QED BY <2>4, <2>6 DEF PaneIInv
<1> QED BY <1>1, <1>2

LEMMA PaneImplied ==
  PaneIInv => PaneInv
BY RowsAreThose DEF PaneIInv, RowsInv, PlaceInv, PaneInv, RowsAreCurrent

(* The highlighted row, the cached rows, the marks and the folder of a     *)
(* pane always belong to the same listing.                                 *)
THEOREM PaneInvHolds == FilesSpec => []PaneInv
<1>1. FilesSpec => []PaneIInv
  BY PaneStarts, PaneKeeps, PTL DEF FilesSpec
<1> QED BY <1>1, PaneImplied, PTL

LEMMA ChoiceStep ==
  PaneIInv /\ [FilesNext]_filesVars => [SelectionFollowsName /\ OnlySeenIsMarked]_filesVars
BY EachStepKeepsTheChoice DEF PaneIInv, ChoiceKept

(* Filtering, sorting and refreshing keep the highlight on its entry, and  *)
(* only rows on the screen are marked: SetSortMode, ToggleHidden, the      *)
(* filter keys, ResolveSelect and mark_range.                              *)
THEOREM ChoiceIsKept == FilesSpec => StepsKeepTheChoice
<1>1. FilesSpec => []PaneIInv
  BY PaneStarts, PaneKeeps, PTL DEF FilesSpec
<1>2. FilesSpec => [][SelectionFollowsName /\ OnlySeenIsMarked]_filesVars
  BY <1>1, ChoiceStep, PTL DEF FilesSpec
<1> QED BY <1>2 DEF StepsKeepTheChoice

-----------------------------------------------------------------------------
(* The text field.                                                         *)
Field == [value : Seq(Char), cursor : Nat, anchor : {NoAnchor} \cup Nat]

InText(t) ==
  /\ t \in Field
  /\ t.cursor <= Len(t.value)
  /\ t.anchor <= Len(t.value)

LEMMA TextsJoin ==
  ASSUME NEW a \in Seq(Char), NEW b \in Seq(Char)
  PROVE  /\ a \o b \in Seq(Char) /\ Len(a \o b) = Len(a) + Len(b)
         /\ \A i \in 1..Len(a) : (a \o b)[i] = a[i]
         /\ \A i \in 1..Len(b) : (a \o b)[Len(a) + i] = b[i]
BY ConcatProperties

LEMMA ReplaceInText ==
  ASSUME NEW t, InText(t), NEW lo \in 0..Len(t.value), NEW hi \in lo..Len(t.value),
         NEW ins \in Seq(Char)
  PROVE  InText(Replace(t, lo, hi, ins))
<1> DEFINE l == SubSeq(t.value, 1, lo)
           r == SubSeq(t.value, hi + 1, Len(t.value))
<1>1. t.value \in Seq(Char) /\ Len(t.value) \in Nat /\ Len(ins) \in Nat
  BY LenProperties DEF InText, Field
<1>2. l \in Seq(Char) /\ Len(l) = lo /\ r \in Seq(Char) /\ Len(r) \in Nat
  BY <1>1, SubSeqProperties, LenProperties
<1>3. Replace(t, lo, hi, ins) = [value |-> l \o ins \o r, cursor |-> lo + Len(ins), anchor |-> NoAnchor]
  BY DEF Replace
<1> HIDE DEF l, r
<1> DEFINE m == l \o ins
<1>4. m \in Seq(Char) /\ Len(m) = lo + Len(ins)
  BY <1>2, TextsJoin
<1> HIDE DEF m
<1>5. m \o r \in Seq(Char) /\ Len(m \o r) = lo + Len(ins) + Len(r)
  <2>1. m \o r \in Seq(Char) /\ Len(m \o r) = Len(m) + Len(r)
    BY <1>2, <1>4, TextsJoin
  <2> QED BY <1>1, <1>2, <1>4, <2>1
<1>6. l \o ins \o r = m \o r
  BY DEF m
<1> QED BY <1>1, <1>2, <1>3, <1>5, <1>6 DEF InText, Field, NoAnchor

(* To put a character in place of a piece is to delete the piece and then  *)
(* to insert the character where it was.                                   *)
LEMMA ReplaceTwice ==
  ASSUME NEW t, InText(t), NEW lo \in 0..Len(t.value), NEW hi \in lo..Len(t.value),
         NEW ins \in Seq(Char)
  PROVE  Replace(DeleteRange(t, lo, hi), lo, lo, ins) = Replace(t, lo, hi, ins)
<1> DEFINE l == SubSeq(t.value, 1, lo)
           r == SubSeq(t.value, hi + 1, Len(t.value))
           v == l \o <<>> \o r
<1>1. t.value \in Seq(Char) /\ Len(t.value) \in Nat
  BY LenProperties DEF InText, Field
<1>2. l \in Seq(Char) /\ Len(l) = lo /\ r \in Seq(Char) /\ Len(r) \in Nat
  BY <1>1, SubSeqProperties, LenProperties
<1>3. DeleteRange(t, lo, hi) = [value |-> v, cursor |-> lo + Len(<<>>), anchor |-> NoAnchor]
  BY DEF DeleteRange, Replace
<1> HIDE DEF l, r
<1>4. l \o <<>> = l
  BY <1>2, ConcatEmptySeq
<1>5. v = l \o r
  BY <1>4
<1> HIDE DEF v
<1>6. /\ v \in Seq(Char) /\ Len(v) = lo + Len(r)
      /\ \A i \in 1..lo : v[i] = l[i]
      /\ \A i \in 1..Len(r) : v[lo + i] = r[i]
  <2>1. /\ l \o r \in Seq(Char) /\ Len(l \o r) = Len(l) + Len(r)
        /\ \A i \in 1..Len(l) : (l \o r)[i] = l[i]
        /\ \A i \in 1..Len(r) : (l \o r)[Len(l) + i] = r[i]
    BY <1>2, TextsJoin
  <2>2. Len(l) = lo
    BY <1>2
  <2> QED BY <1>5, <2>1, <2>2
<1>7. SubSeq(v, 1, lo) = l
  <2>1. /\ SubSeq(v, 1, lo) \in Seq(Char) /\ Len(SubSeq(v, 1, lo)) = lo
        /\ \A i \in 1..lo : SubSeq(v, 1, lo)[i] = v[i]
    BY <1>2, <1>6, SubSeqProperties
  <2> QED BY <1>2, <1>6, <2>1, SeqEqual
<1>8. SubSeq(v, lo + 1, Len(v)) = r
  <2> DEFINE u == SubSeq(v, lo + 1, Len(v))
  <2>1. u \in Seq(Char) /\ Len(u) = Len(r) /\ \A i \in 1..Len(r) : u[i] = v[lo + i]
    BY <1>2, <1>6, SubSeqProperties
  <2> HIDE DEF u
  <2>2. u = r
    BY <1>2, <1>6, <2>1, SeqEqual
  <2> QED BY <2>2 DEF u
<1>9. Replace(DeleteRange(t, lo, hi), lo, lo, ins)
        = [value |-> l \o ins \o r, cursor |-> lo + Len(ins), anchor |-> NoAnchor]
  <2> DEFINE d == DeleteRange(t, lo, hi)
  <2>1. d.value = v
    BY <1>3
  <2> HIDE DEF d
  <2>2. Replace(d, lo, lo, ins)
          = [value |-> SubSeq(d.value, 1, lo) \o ins \o SubSeq(d.value, lo + 1, Len(d.value)),
             cursor |-> lo + Len(ins), anchor |-> NoAnchor]
    BY DEF Replace
  <2> QED BY <1>7, <1>8, <2>1, <2>2 DEF d
<1>10. Replace(t, lo, hi, ins)
         = [value |-> l \o ins \o r, cursor |-> lo + Len(ins), anchor |-> NoAnchor]
  BY DEF Replace, l, r
<1> QED BY <1>9, <1>10

(* A run of characters has a beginning. *)
LEMMA BackOverStops ==
  ASSUME NEW v, NEW i \in Nat, NEW S
  PROVE  BackOver(v, i, S) \in 0..i
<1> DEFINE D == {d \in 0..i : i - d = 0 \/ v[i - d] \notin S}
<1>1. i \in D /\ D \subseteq Nat
  OBVIOUS
<1>2. PICK d \in D : \A e \in D : d <= e
  BY <1>1, LeastNumber
<1> DEFINE k == i - d
<1>3. k \in 0..i /\ (k = 0 \/ v[k] \notin S)
  BY <1>2
<1>4. ASSUME NEW m \in (k + 1)..i PROVE v[m] \in S
  <2>1. i - m \in Nat /\ i - m < d /\ i - m \in 0..i /\ i - (i - m) = m /\ m # 0
    BY <1>2
  <2>2. i - m \notin D
    BY <1>2, <2>1
  <2> QED BY <2>1, <2>2
<1> HIDE DEF k
<1> QED BY <1>3, <1>4 DEF BackOver

LEMMA SelectionInText ==
  ASSUME NEW t, InText(t), Selected(t)
  PROVE  SelStart(t) \in 0..Len(t.value) /\ SelEnd(t) \in SelStart(t)..Len(t.value)
<1>1. Len(t.value) \in Nat /\ t.cursor \in Nat /\ t.anchor \in Nat
  BY LenProperties DEF InText, Field, Selected
<1> QED BY <1>1 DEF InText, SelStart, SelEnd, Lower, Upper

LEMMA UnselectedInText ==
  ASSUME NEW t, InText(t)
  PROVE  /\ InText(Unselected(t)) /\ Unselected(t).value = t.value
         /\ Unselected(t).cursor = t.cursor
<1>1. Len(t.value) \in Nat
  BY LenProperties DEF InText, Field
<1> QED BY <1>1 DEF InText, Field, Unselected, NoAnchor

(* One piece of the text, from lo to hi, is replaced by ins: the selection *)
(* if there is one, else one at the cursor.                                *)
OnePiece(t, u) ==
  \E lo, hi \in 0..Len(t.value), ins \in {<<>>} \cup {<<ch>> : ch \in Char} :
    /\ lo <= hi
    /\ u = Replace(t, lo, hi, ins)
    /\ IF Selected(t) THEN lo = SelStart(t) /\ hi = SelEnd(t) ELSE t.cursor \in {lo, hi}

Local(t, u) == InText(u) /\ (u.value # t.value => OnePiece(t, u))

LEMMA PieceIsLocal ==
  ASSUME NEW t, InText(t), NEW lo \in 0..Len(t.value), NEW hi \in lo..Len(t.value),
         NEW ins \in {<<>>} \cup {<<ch>> : ch \in Char},
         IF Selected(t) THEN lo = SelStart(t) /\ hi = SelEnd(t) ELSE t.cursor \in {lo, hi}
  PROVE  Local(t, Replace(t, lo, hi, ins))
<1>1. ins \in Seq(Char)
  <2>1. <<>> \in Seq(Char) /\ \A ch \in Char : <<ch>> \in Seq(Char)
    BY OneElement
  <2> QED BY <2>1
<1>2. InText(Replace(t, lo, hi, ins))
  BY <1>1, ReplaceInText
<1>3. hi \in 0..Len(t.value) /\ lo <= hi
  BY LenProperties DEF InText, Field
<1>4. OnePiece(t, Replace(t, lo, hi, ins))
  BY <1>3 DEF OnePiece
<1> QED BY <1>2, <1>4 DEF Local

LEMMA WithoutSelectionIsLocal ==
  ASSUME NEW t, InText(t)
  PROVE  Local(t, WithoutSelection(t))
<1>1. CASE Selected(t)
  <2>1. WithoutSelection(t) = Replace(t, SelStart(t), SelEnd(t), <<>>)
    BY <1>1 DEF WithoutSelection, DeleteRange
  <2> QED BY <1>1, <2>1, SelectionInText, PieceIsLocal
<1>2. CASE ~Selected(t)
  BY <1>2, UnselectedInText DEF WithoutSelection, Local
<1> QED BY <1>1, <1>2

LEMMA InsertCharIsLocal ==
  ASSUME NEW t, InText(t), NEW ch \in Char
  PROVE  Local(t, InsertChar(t, ch))
<1> DEFINE u == WithoutSelection(t)
<1>1. InsertChar(t, ch) = Replace(u, u.cursor, u.cursor, <<ch>>)
  BY DEF InsertChar
<1>2. CASE Selected(t)
  <2>1. SelStart(t) \in 0..Len(t.value) /\ SelEnd(t) \in SelStart(t)..Len(t.value)
    BY <1>2, SelectionInText
  <2>2. u = DeleteRange(t, SelStart(t), SelEnd(t)) /\ u.cursor = SelStart(t)
    BY <1>2, <2>1 DEF WithoutSelection, DeleteRange, Replace
  <2> HIDE DEF u
  <2>3. InsertChar(t, ch) = Replace(t, SelStart(t), SelEnd(t), <<ch>>)
    <3>1. <<ch>> \in Seq(Char)
      BY OneElement
    <3> QED BY <1>1, <2>1, <2>2, <3>1, ReplaceTwice
  <2> QED BY <1>2, <2>1, <2>3, PieceIsLocal
<1>3. CASE ~Selected(t)
  <2>1. u.value = t.value /\ u.cursor = t.cursor
    BY <1>3, UnselectedInText DEF WithoutSelection
  <2> HIDE DEF u
  <2>2. InsertChar(t, ch) = Replace(t, t.cursor, t.cursor, <<ch>>)
    BY <1>1, <2>1 DEF Replace
  <2>3. t.cursor \in 0..Len(t.value) /\ t.cursor \in t.cursor..Len(t.value)
    BY LenProperties DEF InText, Field
  <2> QED BY <1>3, <2>2, <2>3, PieceIsLocal
<1> QED BY <1>2, <1>3

LEMMA BackspaceIsLocal ==
  ASSUME NEW t, InText(t)
  PROVE  Local(t, Backspace(t))
<1>1. CASE ~Selected(t) /\ t.cursor > 0
  <2>1. Backspace(t) = Replace(t, t.cursor - 1, t.cursor, <<>>)
    BY <1>1 DEF Backspace, DeleteRange
  <2>2. t.cursor - 1 \in 0..Len(t.value) /\ t.cursor \in (t.cursor - 1)..Len(t.value)
    BY <1>1, LenProperties DEF InText, Field
  <2> QED BY <1>1, <2>1, <2>2, PieceIsLocal
<1>2. CASE ~(~Selected(t) /\ t.cursor > 0)
  BY <1>2, WithoutSelectionIsLocal DEF Backspace
<1> QED BY <1>1, <1>2

LEMMA DeleteIsLocal ==
  ASSUME NEW t, InText(t)
  PROVE  Local(t, Delete(t))
<1>1. CASE ~Selected(t) /\ t.cursor < Len(t.value)
  <2>1. Delete(t) = Replace(t, t.cursor, t.cursor + 1, <<>>)
    BY <1>1 DEF Delete, DeleteRange
  <2>2. t.cursor \in 0..Len(t.value) /\ t.cursor + 1 \in t.cursor..Len(t.value)
    BY <1>1, LenProperties DEF InText, Field
  <2> QED BY <1>1, <2>1, <2>2, PieceIsLocal
<1>2. CASE ~(~Selected(t) /\ t.cursor < Len(t.value))
  BY <1>2, WithoutSelectionIsLocal DEF Delete
<1> QED BY <1>1, <1>2

LEMMA DeleteWordLeftIsLocal ==
  ASSUME NEW t, InText(t)
  PROVE  Local(t, DeleteWordLeft(t))
<1>1. CASE Selected(t)
  BY <1>1, WithoutSelectionIsLocal DEF DeleteWordLeft
<1>2. CASE ~Selected(t)
  <2> DEFINE b == BackOver(t.value, t.cursor, Blank)
             w == BackOver(t.value, b, Char \ Blank)
  <2>1. t.cursor \in Nat /\ Len(t.value) \in Nat /\ t.cursor <= Len(t.value)
    BY LenProperties DEF InText, Field
  <2>2. b \in 0..t.cursor
    BY <2>1, BackOverStops
  <2>3. w \in 0..b
    BY <2>1, <2>2, BackOverStops
  <2>4. DeleteWordLeft(t) = Replace(t, w, t.cursor, <<>>)
    BY <1>2 DEF DeleteWordLeft, DeleteRange
  <2> HIDE DEF b, w
  <2>5. w \in 0..Len(t.value) /\ t.cursor \in w..Len(t.value)
    BY <2>1, <2>2, <2>3
  <2> QED BY <1>2, <2>4, <2>5, PieceIsLocal
<1> QED BY <1>1, <1>2

(* Movements and drags leave the text alone and stay in it.                *)
LEMMA MoveToIsLocal ==
  ASSUME NEW t, InText(t), NEW i \in 0..Len(t.value), NEW shift
  PROVE  Local(t, MoveTo(t, i, shift))
<1> DEFINE a == IF ~shift THEN NoAnchor
                ELSE IF t.anchor = NoAnchor THEN t.cursor ELSE t.anchor
<1>1. Len(t.value) \in Nat /\ t.cursor <= Len(t.value) /\ t.anchor <= Len(t.value)
  BY LenProperties DEF InText, Field
<1>2. a \in {NoAnchor} \cup Nat /\ a <= Len(t.value)
  BY <1>1 DEF InText, Field, NoAnchor
<1>3. MoveTo(t, i, shift) = [t EXCEPT !.cursor = i, !.anchor = a]
  BY DEF MoveTo
<1> HIDE DEF a
<1>4. MoveTo(t, i, shift) = [value |-> t.value, cursor |-> i, anchor |-> a]
  BY <1>3 DEF InText, Field
<1> QED BY <1>1, <1>2, <1>4 DEF InText, Field, Local

LEMMA WalkIsLocal ==
  ASSUME InText(field), Walk
  PROVE  Local(field, field')
<1>1. PICK i \in 0..Len(field.value), shift \in BOOLEAN : field' = MoveTo(field, i, shift)
  <2>1. Len(field.value) \in Nat /\ field.cursor \in Nat /\ field.cursor <= Len(field.value)
    BY LenProperties DEF InText, Field
  <2> QED BY <2>1 DEF Walk, MoveCursor, MoveHome, MoveEnd, Lower, Upper
<1> QED BY <1>1, MoveToIsLocal

LEMMA DragIsLocal ==
  ASSUME InText(field), Drag
  PROVE  Local(field, field')
<1>1. PICK i \in 0..(MaxText + 1) : \/ field' = BeginDrag(field, i)
                                    \/ field' = ExtendDrag(field, i)
                                    \/ field' = SetCursor(field, i)
  BY DEF Drag
<1>2. Len(field.value) \in Nat /\ i \in Nat
  BY LenProperties, TextAssumption DEF InText, Field
<1>3. Lower(i, Len(field.value)) \in 0..Len(field.value)
  BY <1>2 DEF Lower
<1>4. CASE field' = SetCursor(field, i)
  BY <1>3, <1>4, MoveToIsLocal DEF SetCursor
<1>5. CASE field' = BeginDrag(field, i) \/ field' = ExtendDrag(field, i)
  <2> DEFINE k == Lower(i, Len(field.value))
  <2>1. \/ field' = [field EXCEPT !.cursor = k, !.anchor = k]
        \/ field' = [field EXCEPT !.cursor = k]
    BY <1>5 DEF BeginDrag, ExtendDrag
  <2> HIDE DEF k
  <2>2. \E a \in {k, field.anchor} : field' = [value |-> field.value, cursor |-> k, anchor |-> a]
    BY <2>1 DEF InText, Field
  <2>3. k \in 0..Len(field.value)
    BY <1>3 DEF k
  <2> QED BY <1>2, <2>2, <2>3 DEF InText, Field, Local
<1> QED BY <1>1, <1>4, <1>5

LEMMA FieldSteps ==
  ASSUME InText(field), TextNext
  PROVE  InText(field)' /\ EditIsLocal
<1>1. CASE Load
  <2>1. PICK v \in Texts : field' = FromStr(v)
    BY <1>1 DEF Load
  <2>2. v \in Seq(Char) /\ Len(v) \in Nat
    BY LenProperties DEF Texts
  <2>3. InText(field')
    BY <2>1, <2>2 DEF FromStr, InText, Field, NoAnchor
  <2> QED BY <1>1, <2>3 DEF EditIsLocal
<1>2. CASE Type \/ Erase \/ Walk \/ Drag
  <2>1. Local(field, field')
    BY <1>2, InsertCharIsLocal, BackspaceIsLocal, DeleteIsLocal, DeleteWordLeftIsLocal,
       WalkIsLocal, DragIsLocal DEF Type, Erase
  <2> QED BY <2>1 DEF Local, OnePiece, EditIsLocal
<1> QED BY <1>1, <1>2 DEF TextNext

LEMMA FieldStarts ==
  TextInit => InText(field)
<1>1. <<>> \in Seq(Char) /\ Len(<<>>) = 0
  OBVIOUS
<1> QED BY <1>1 DEF TextInit, FromStr, InText, Field, NoAnchor

LEMMA FieldKeeps ==
  /\ InText(field) /\ [TextNext]_field => InText(field)'
  /\ InText(field) /\ [TextNext]_field => [EditIsLocal]_field
  /\ InText(field) => CursorInText
<1>1. InText(field) => CursorInText
  BY LenProperties DEF InText, Field, CursorInText, NoAnchor
<1> QED BY <1>1, FieldSteps

(* No edit, movement or drag of text_field.rs takes the cursor or the      *)
(* anchor out of the text, and an edit changes one piece of it.            *)
THEOREM FieldIsSound == TextSpec => EditsAreSound
<1>1. TextSpec => []InText(field)
  BY FieldStarts, FieldKeeps, PTL DEF TextSpec
<1>2. TextSpec => []CursorInText /\ [][EditIsLocal]_field
  BY <1>1, FieldKeeps, PTL DEF TextSpec
<1> QED BY <1>2 DEF EditsAreSound

-----------------------------------------------------------------------------
(* The queue pane.                                                         *)
PaneRows ==
  /\ QueueInv
  /\ order \in Seq(Job) /\ IsInjective(order) /\ ToSet(order) = active

HighlightInv ==
  /\ PaneRows
  /\ selected_queue \in Nat
  /\ selected_queue = 0 \/ selected_queue < Len(visible_queue)

Listed == active \cup ToSet(pending) \cup ToSet(failed)

LEMMA ListsJoin ==
  ASSUME NEW a \in Seq(Job), NEW b \in Seq(Job), NEW c \in Seq(Job),
         IsInjective(a), IsInjective(b), IsInjective(c),
         ToSet(b) \cap ToSet(c) = {}, ToSet(a) \cap (ToSet(b) \cup ToSet(c)) = {}
  PROVE  /\ a \o b \o c \in Seq(Job) /\ IsInjective(a \o b \o c)
         /\ ToSet(a \o b \o c) = ToSet(a) \cup ToSet(b) \cup ToSet(c)
<1> DEFINE m == a \o b
<1>1. m \in Seq(Job) /\ ToSet(m) = ToSet(a) \cup ToSet(b) /\ IsInjective(m)
  BY ConcatElements
<1> HIDE DEF m
<1>2. /\ m \o c \in Seq(Job) /\ ToSet(m \o c) = ToSet(m) \cup ToSet(c)
      /\ IsInjective(m \o c)
  BY <1>1, ConcatElements
<1> QED BY <1>1, <1>2 DEF m

LEMMA QueueRows ==
  PaneRows => /\ visible_queue \in Seq(Job) /\ IsInjective(visible_queue)
              /\ ToSet(visible_queue) = Listed
<1> SUFFICES ASSUME PaneRows
             PROVE  /\ visible_queue \in Seq(Job) /\ IsInjective(visible_queue)
                    /\ ToSet(visible_queue) = Listed
  OBVIOUS
<1>1. /\ order \in Seq(Job) /\ pending \in Seq(Job) /\ failed \in Seq(Job)
      /\ IsInjective(order) /\ IsInjective(pending) /\ IsInjective(failed)
      /\ ToSet(pending) \cap ToSet(failed) = {}
      /\ ToSet(order) \cap (ToSet(pending) \cup ToSet(failed)) = {}
      /\ ToSet(order) = active
  BY DEF PaneRows, QueueInv, QueueTypeOK, OneHome
<1> QED BY <1>1, ListsJoin DEF visible_queue, Listed

LEMMA QueueRowsNext ==
  PaneRows' => /\ visible_queue' \in Seq(Job) /\ IsInjective(visible_queue')
               /\ ToSet(visible_queue') = Listed'
<1> SUFFICES ASSUME PaneRows'
             PROVE  /\ visible_queue' \in Seq(Job) /\ IsInjective(visible_queue')
                    /\ ToSet(visible_queue') = Listed'
  OBVIOUS
<1>1. /\ order' \in Seq(Job) /\ pending' \in Seq(Job) /\ failed' \in Seq(Job)
      /\ IsInjective(order') /\ IsInjective(pending') /\ IsInjective(failed')
      /\ ToSet(pending') \cap ToSet(failed') = {}
      /\ ToSet(order') \cap (ToSet(pending') \cup ToSet(failed')) = {}
      /\ ToSet(order') = active'
  BY DEF PaneRows, QueueInv, QueueTypeOK, OneHome
<1> QED BY <1>1, ListsJoin DEF visible_queue, Listed

LEMMA ClampedInRange ==
  ASSUME NEW rows \in Seq(Job), NEW i \in Nat
  PROVE  Clamped(i, rows) \in Nat /\ (Clamped(i, rows) = 0 \/ Clamped(i, rows) < Len(rows))
<1>1. Len(rows) \in Nat
  BY LenProperties
<1> QED BY <1>1 DEF Clamped

LEMMA PreservedInRange ==
  ASSUME NEW rows \in Seq(Job), NEW i \in Nat, NEW keep
  PROVE  LET k == Preserved(keep, i, rows)
         IN  /\ k \in Nat /\ (k = 0 \/ k < Len(rows))
             /\ (\A x, y \in keep : x = y) => keep \cap ToSet(rows) \subseteq Shown(rows, k)
<1> DEFINE k == Preserved(keep, i, rows)
           c == CHOOSE h \in 1..Len(rows) : rows[h] \in keep
<1>1. Len(rows) \in Nat /\ DOMAIN rows = 1..Len(rows)
  BY LenProperties
<1>2. CASE keep \cap ToSet(rows) = {}
  <2>1. k = Clamped(i, rows)
    BY <1>2 DEF Preserved
  <2> QED BY <1>2, <2>1, ClampedInRange
<1>3. CASE keep \cap ToSet(rows) # {}
  <2>1. \E h \in 1..Len(rows) : rows[h] \in keep
    BY <1>1, <1>3 DEF ToSet
  <2>2. c \in 1..Len(rows) /\ rows[c] \in keep
    BY <2>1
  <2>3. k = c - 1
    BY <1>3 DEF Preserved
  <2> HIDE DEF k, c
  <2>4. k \in Nat /\ k < Len(rows) /\ k + 1 = c
    BY <1>1, <2>2, <2>3
  <2>5. Shown(rows, k) = {rows[c]}
    BY <2>4 DEF Shown
  <2> QED BY <2>2, <2>4, <2>5 DEF k
<1> QED BY <1>2, <1>3

(* After a step that keeps the books of the queue, the handlers find the   *)
(* highlighted job again.                                                  *)
LEMMA Reselected ==
  ASSUME HighlightInv, PaneRows', NEW keep, PreserveSelection(keep)
  PROVE  /\ HighlightInv'
         /\ (\A x, y \in keep : x = y) => keep \cap ToSet(visible_queue') \subseteq selected_queue_job'
<1>1. visible_queue' \in Seq(Job)
  BY QueueRowsNext
<1>2. selected_queue' = Preserved(keep, selected_queue, visible_queue')
  BY DEF PreserveSelection
<1> QED BY <1>1, <1>2, PreservedInRange DEF HighlightInv, selected_queue_job

LEMMA FollowsSelection ==
  ASSUME HighlightInv, PaneRows', PreserveSelection(selected_queue_job)
  PROVE  HighlightInv' /\ HighlightFollowsJob
<1>1. \A x, y \in selected_queue_job : x = y
  BY DEF selected_queue_job, Shown
<1> QED BY <1>1, Reselected DEF HighlightFollowsJob

LEMMA WhoLeaves ==
  ASSUME PaneRows, PaneRows', Listed \ Listed' \subseteq completed' \cup cancelled' \cup selected_queue_job
  PROVE  LeavesWhenChosen
BY QueueRows, QueueRowsNext DEF LeavesWhenChosen

LEMMA SelectedIsListed ==
  ASSUME HighlightInv
  PROVE  selected_queue_job \subseteq Listed
<1>1. visible_queue \in Seq(Job) /\ ToSet(visible_queue) = Listed
  BY QueueRows DEF HighlightInv
<1>2. Len(visible_queue) \in Nat /\ DOMAIN visible_queue = 1..Len(visible_queue)
  BY <1>1, LenProperties
<1>3. \A i \in Nat : i < Len(visible_queue) => visible_queue[i + 1] \in ToSet(visible_queue)
  BY <1>2 DEF ToSet
<1> QED BY <1>1, <1>3 DEF HighlightInv, selected_queue_job, Shown

QueueKept == HighlightInv' /\ HighlightFollowsJob /\ LeavesWhenChosen /\ NoOvertaking

LEMMA QueueTransferKeeps ==
  ASSUME HighlightInv, NEW j \in Job, QueueTransfer(j)
  PROVE  QueueKept
<1>1. /\ PaneRows /\ Enqueue(j) /\ order' = order
      /\ PreserveSelection(selected_queue_job)
  BY DEF HighlightInv, QueueTransfer
<1>2. QueueInv' /\ ToSet(pending') = ToSet(pending) \cup {j}
  BY <1>1, EnqueueInv DEF PaneRows
<1>3. active' = active /\ failed' = failed /\ pending' = Append(pending, j)
  BY <1>1 DEF Enqueue
<1>4. PaneRows'
  BY <1>1, <1>2, <1>3 DEF PaneRows
<1>5. HighlightInv' /\ HighlightFollowsJob
  BY <1>1, <1>4, FollowsSelection
<1>6. LeavesWhenChosen
  BY <1>1, <1>2, <1>3, <1>4, WhoLeaves DEF Listed
<1>7. NoOvertaking
  BY <1>1, <1>3, PendingGrows DEF PaneRows
<1> QED BY <1>5, <1>6, <1>7 DEF QueueKept

LEMMA StartNextTransferKeeps ==
  ASSUME HighlightInv, StartNextTransfer
  PROVE  QueueKept
<1>1. /\ PaneRows /\ StartNext /\ order' = Append(order, Head(pending))
      /\ PreserveSelection(selected_queue_job)
  BY DEF HighlightInv, StartNextTransfer
<1>2. /\ QueueInv' /\ Head(pending) \in Job
      /\ ToSet(pending) = ToSet(pending') \cup {Head(pending)}
  BY <1>1, StartNextInv DEF PaneRows
<1>3. active' = active \cup {Head(pending)} /\ failed' = failed
  BY <1>1 DEF StartNext
<1>4. Head(pending) \notin active
  BY <1>1, <1>2 DEF PaneRows, QueueInv, OneHome
<1>5. order' \in Seq(Job) /\ IsInjective(order') /\ ToSet(order') = active'
  BY <1>1, <1>2, <1>3, <1>4, AppendElements DEF PaneRows
<1>6. PaneRows'
  BY <1>2, <1>5 DEF PaneRows
<1>7. HighlightInv' /\ HighlightFollowsJob
  BY <1>1, <1>6, FollowsSelection
<1>8. LeavesWhenChosen
  BY <1>1, <1>2, <1>3, <1>6, WhoLeaves DEF Listed
<1>9. NoOvertaking
  BY <1>1, PendingStarted DEF PaneRows
<1> QED BY <1>7, <1>8, <1>9 DEF QueueKept

LEMMA MarkTransferKeeps ==
  ASSUME HighlightInv, NEW j \in active, MarkTransfer(j)
  PROVE  QueueKept
<1>1. /\ PaneRows
      /\ MarkCompleted(j) \/ MarkFailed(j) \/ MarkCancelled(j)
      /\ PreserveSelection(selected_queue_job)
  BY DEF HighlightInv, MarkTransfer
<1>2. PICK i \in 1..Len(order) : order[i] = j /\ order' = RemoveAt(order, i)
  BY DEF MarkTransfer
<1>3. QueueInv' /\ pending' = pending /\ active' = active \ {j}
  BY <1>1, MarkInv DEF PaneRows
<1>4. order' \in Seq(Job) /\ IsInjective(order') /\ ToSet(order') = active'
  BY <1>1, <1>2, <1>3, RemoveAtElements DEF PaneRows
<1>5. PaneRows'
  BY <1>3, <1>4 DEF PaneRows
<1>6. HighlightInv' /\ HighlightFollowsJob
  BY <1>1, <1>5, FollowsSelection
<1>7. /\ ToSet(failed) \subseteq ToSet(failed')
      /\ j \in completed' \cup cancelled' \cup ToSet(failed')
  <2>1. CASE MarkFailed(j)
    <3>1. failed' = Append(failed, j) /\ failed \in Seq(Job) /\ j \in Job
      BY <1>1, <2>1 DEF MarkFailed, PaneRows, QueueInv, QueueTypeOK
    <3> QED BY <3>1, AppendElements
  <2>2. CASE MarkCompleted(j) \/ MarkCancelled(j)
    BY <2>2 DEF MarkCompleted, MarkCancelled
  <2> QED BY <1>1, <2>1, <2>2
<1>8. LeavesWhenChosen
  BY <1>1, <1>3, <1>5, <1>7, WhoLeaves DEF Listed
<1>9. NoOvertaking
  BY <1>1, <1>3, PendingKept DEF PaneRows
<1> QED BY <1>6, <1>8, <1>9 DEF QueueKept

(* A retry moves one failed job to the end of the waiting ones.            *)
LEMMA RetryMoves ==
  ASSUME PaneRows, NEW i \in 1..Len(failed), RetryAt(i), order' = order
  PROVE  PaneRows' /\ Listed' = Listed /\ NoOvertaking
<1>1. QueueInv' /\ ToSet(pending') = ToSet(pending) \cup {failed[i]}
  BY RetryAtInv DEF PaneRows
<1>2. active' = active /\ failed' = RemoveAt(failed, i) /\ pending' = Append(pending, failed[i])
  BY DEF RetryAt
<1>3. PaneRows'
  BY <1>1, <1>2 DEF PaneRows
<1>4. failed \in Seq(Job) /\ IsInjective(failed)
  BY DEF PaneRows, QueueInv, QueueTypeOK, OneHome
<1>5. failed[i] \in Job /\ failed[i] \in ToSet(failed)
  BY <1>4, LenProperties, ElementOfSeq DEF ToSet
<1>6. ToSet(failed') = ToSet(failed) \ {failed[i]}
  BY <1>2, <1>4, RemoveAtElements
<1>7. Listed' = Listed
  BY <1>1, <1>2, <1>5, <1>6 DEF Listed
<1>8. NoOvertaking
  BY <1>2, <1>5, PendingGrows DEF PaneRows
<1> QED BY <1>3, <1>7, <1>8

LEMMA RetryLastKeeps ==
  ASSUME HighlightInv, RetryLast
  PROVE  QueueKept
<1>1. PaneRows /\ failed # <<>> /\ RetryAt(Len(failed)) /\ order' = order
  BY DEF HighlightInv, RetryLast, RetryLastFailed
<1>2. Len(failed) \in 1..Len(failed)
  BY <1>1, EmptySeq, LenProperties DEF PaneRows, QueueInv, QueueTypeOK
<1>3. PaneRows' /\ Listed' = Listed /\ NoOvertaking
  BY <1>1, <1>2, RetryMoves
<1>4. HighlightInv'
  BY <1>3, Reselected DEF RetryLast
<1>5. LeavesWhenChosen
  BY <1>1, <1>3, WhoLeaves
<1> QED BY <1>3, <1>4, <1>5 DEF QueueKept, HighlightFollowsJob

LEMMA RetryOneKeeps ==
  ASSUME HighlightInv, NEW j \in selected_queue_job, RetryOne(j)
  PROVE  QueueKept
<1>1. PaneRows /\ order' = order /\ PreserveSelection({j})
  BY DEF HighlightInv, RetryOne
<1>2. PICK i \in 1..Len(failed) : failed[i] = j /\ RetryAt(i)
  BY DEF RetryOne, RetryFailed
<1>3. PaneRows' /\ Listed' = Listed /\ NoOvertaking
  BY <1>1, <1>2, RetryMoves
<1>4. selected_queue_job = {j}
  BY DEF selected_queue_job, Shown
<1>5. HighlightInv' /\ HighlightFollowsJob
  BY <1>1, <1>3, <1>4, FollowsSelection
<1>6. LeavesWhenChosen
  BY <1>1, <1>3, WhoLeaves
<1> QED BY <1>3, <1>5, <1>6 DEF QueueKept

LEMMA RetryAllKeeps ==
  ASSUME HighlightInv, RetryAll
  PROVE  QueueKept
<1>1. PaneRows /\ RetryAllFailed /\ order' = order /\ PreserveSelection({})
  BY DEF HighlightInv, RetryAll
<1>2. QueueInv' /\ ToSet(pending') = ToSet(pending) \cup ToSet(failed)
  BY <1>1, RetryAllFailedInv DEF PaneRows
<1>3. active' = active /\ failed' = <<>> /\ pending' = pending \o failed
  BY <1>1 DEF RetryAllFailed
<1>4. PaneRows'
  BY <1>1, <1>2, <1>3 DEF PaneRows
<1>5. Listed' = Listed
  BY <1>2, <1>3, EmptyElements DEF Listed
<1>6. HighlightInv'
  BY <1>1, <1>4, Reselected
<1>7. LeavesWhenChosen
  BY <1>1, <1>4, <1>5, WhoLeaves
<1>8. NoOvertaking
  BY <1>1, <1>3, PendingGrows DEF PaneRows, QueueInv, QueueTypeOK
<1> QED BY <1>6, <1>7, <1>8 DEF QueueKept, HighlightFollowsJob

(* What x or Delete removes is the highlighted job, and no other.          *)
LEMMA RemoveQueueJobKeeps ==
  ASSUME HighlightInv, NEW j \in selected_queue_job \ active, RemoveQueueJob(j)
  PROVE  QueueKept
<1>1. /\ PaneRows /\ order' = order /\ PreserveSelection({})
      /\ IF j \in ToSet(pending) THEN RemovePending(j) ELSE DismissFailed(j)
  BY DEF HighlightInv, RemoveQueueJob
<1>2. /\ pending \in Seq(Job) /\ IsInjective(pending)
      /\ failed \in Seq(Job) /\ IsInjective(failed)
      /\ ToSet(pending) \cap ToSet(failed) = {}
  BY <1>1 DEF PaneRows, QueueInv, QueueTypeOK, OneHome
<1>3. QueueInv' /\ active' = active
  BY <1>1, RemovePendingInv, DismissFailedInv DEF PaneRows, RemovePending, DismissFailed
<1>4. PaneRows'
  BY <1>1, <1>3 DEF PaneRows
<1>5. Listed' = Listed \ {j} /\ NoOvertaking
  <2>1. CASE j \in ToSet(pending)
    <3>1. PICK i \in 1..Len(pending) : pending[i] = j /\ pending' = RemoveAt(pending, i) /\ failed' = failed
      BY <1>1, <2>1 DEF RemovePending
    <3>2. ToSet(pending') = ToSet(pending) \ {j}
      BY <1>2, <3>1, RemoveAtElements
    <3>3. NoOvertaking
      BY <1>1, <1>3, <3>1, PendingRemoved DEF PaneRows
    <3> QED BY <1>2, <1>3, <2>1, <3>1, <3>2, <3>3 DEF Listed
  <2>2. CASE j \notin ToSet(pending)
    <3>1. PICK i \in 1..Len(failed) : failed[i] = j /\ failed' = RemoveAt(failed, i) /\ pending' = pending
      BY <1>1, <2>2 DEF DismissFailed
    <3>2. ToSet(failed') = ToSet(failed) \ {j}
      BY <1>2, <3>1, RemoveAtElements
    <3>3. NoOvertaking
      BY <1>1, <1>3, <3>1, PendingKept DEF PaneRows
    <3> QED BY <1>3, <2>2, <3>1, <3>2, <3>3 DEF Listed
  <2> QED BY <2>1, <2>2
<1>6. HighlightInv'
  BY <1>1, <1>4, Reselected
<1>7. selected_queue_job = {j}
  BY DEF selected_queue_job, Shown
<1>8. HighlightFollowsJob
  BY <1>4, <1>5, <1>7, QueueRowsNext DEF HighlightFollowsJob
<1>9. LeavesWhenChosen
  BY <1>1, <1>4, <1>5, <1>7, WhoLeaves
<1> QED BY <1>5, <1>6, <1>8, <1>9 DEF QueueKept

LEMMA ClearPendingTransfersKeeps ==
  ASSUME HighlightInv, ClearPendingTransfers
  PROVE  QueueKept
<1>1. PaneRows /\ ClearPending /\ order' = order /\ PreserveSelection(selected_queue_job)
  BY DEF HighlightInv, ClearPendingTransfers
<1>2. QueueInv' /\ active' = active
  BY <1>1, ClearPendingInv DEF PaneRows
<1>3. PaneRows'
  BY <1>1, <1>2 DEF PaneRows
<1>4. HighlightInv' /\ HighlightFollowsJob
  BY <1>1, <1>3, FollowsSelection
<1>5. NoOvertaking
  BY <1>1, PendingCleared DEF ClearPending
<1> QED BY <1>4, <1>5 DEF QueueKept, LeavesWhenChosen

LEMMA NavigateKeeps ==
  ASSUME HighlightInv, Navigate
  PROVE  QueueKept
<1>1. PaneRows /\ visible_queue \in Seq(Job)
  BY QueueRows DEF HighlightInv
<1>2. PICK i \in 0..Len(visible_queue) : Highlight(i)
  BY DEF Navigate
<1>3. i \in Nat /\ selected_queue' = Clamped(i, visible_queue) /\ UNCHANGED <<queueVars, order>>
  BY <1>1, <1>2, LenProperties DEF Highlight
<1>4. PaneRows' /\ visible_queue' = visible_queue /\ active' = active /\ pending' = pending
  BY <1>1, <1>3 DEF queueVars, visible_queue, PaneRows, QueueInv, QueueTypeOK, OneHome, NoStaleSpeed
<1>5. HighlightInv'
  BY <1>1, <1>3, <1>4, ClampedInRange DEF HighlightInv
<1>6. HighlightFollowsJob /\ LeavesWhenChosen
  BY <1>4 DEF HighlightFollowsJob, LeavesWhenChosen
<1>7. NoOvertaking
  BY <1>1, <1>4, PendingKept DEF PaneRows
<1> QED BY <1>5, <1>6, <1>7 DEF QueueKept

(* Jobs that enter past the reducer push the highlight to no row that is   *)
(* not there: the rows become more.                                        *)
LEMMA LengthsAdd ==
  ASSUME NEW a \in Seq(Job), NEW b \in Seq(Job), NEW c \in Seq(Job)
  PROVE  Len(a \o b \o c) = Len(a) + Len(b) + Len(c)
<1>1. a \o b \in Seq(Job) /\ Len(a \o b) = Len(a) + Len(b)
  BY ConcatProperties
<1> QED BY <1>1, ConcatProperties

LEMMA EnqueueUnseenKeeps ==
  ASSUME HighlightInv, NEW j \in Job, EnqueueUnseen(j)
  PROVE  QueueKept
<1>1. PaneRows /\ (Enqueue(j) \/ InsertFront(j)) /\ UNCHANGED <<order, selected_queue>>
  BY DEF HighlightInv, EnqueueUnseen
<1>2. QueueInv' /\ ToSet(pending') = ToSet(pending) \cup {j}
  BY <1>1, EnqueueInv, InsertFrontInv DEF PaneRows
<1>3. /\ active' = active /\ failed' = failed
      /\ pending' = Append(pending, j) \/ pending' = <<j>> \o pending
  BY <1>1 DEF Enqueue, InsertFront
<1>4. PaneRows'
  BY <1>1, <1>2, <1>3 DEF PaneRows
<1>5. /\ pending \in Seq(Job) /\ failed \in Seq(Job) /\ order \in Seq(Job)
      /\ <<j>> \in Seq(Job) /\ Len(<<j>>) = 1
  BY <1>1, OneElement DEF PaneRows, QueueInv, QueueTypeOK
<1>6. Len(visible_queue') = Len(visible_queue) + 1 /\ Len(visible_queue) \in Nat
  <2>2. pending' \in Seq(Job) /\ Len(pending') = Len(pending) + 1
    <3>1. Append(pending, j) \in Seq(Job) /\ Len(Append(pending, j)) = Len(pending) + 1
      BY <1>5, AppendProperties
    <3> DEFINE one == <<j>>
    <3>2. one \in Seq(Job) /\ Len(one) = 1
      BY <1>5
    <3>3. pending' = Append(pending, j) \/ pending' = one \o pending
      BY <1>3
    <3> HIDE DEF one
    <3>4. one \o pending \in Seq(Job) /\ Len(one \o pending) = Len(one) + Len(pending)
      BY <1>5, <3>2, ConcatProperties
    <3>5. Len(pending) \in Nat
      BY <1>5, LenProperties
    <3>6. CASE pending' = Append(pending, j)
      BY <3>1, <3>6
    <3>7. CASE pending' = one \o pending
      <4>1. pending' \in Seq(Job) /\ Len(pending') = Len(one) + Len(pending)
        BY <3>4, <3>7
      <4> QED BY <3>2, <3>5, <4>1
    <3> QED BY <3>3, <3>6, <3>7
  <2>3. /\ Len(visible_queue) = Len(order) + Len(pending) + Len(failed)
        /\ Len(visible_queue') = Len(order) + Len(pending') + Len(failed)
    <3>1. visible_queue' = order \o pending' \o failed
      BY <1>1, <1>3 DEF visible_queue
    <3>2. visible_queue = order \o pending \o failed
      BY DEF visible_queue
    <3> QED BY <1>5, <2>2, <3>1, <3>2, LengthsAdd
  <2>4. Len(order) \in Nat /\ Len(pending) \in Nat /\ Len(failed) \in Nat
    BY <1>5, LenProperties
  <2> QED BY <2>2, <2>3, <2>4
<1>7. HighlightInv'
  BY <1>1, <1>4, <1>6 DEF HighlightInv
<1>8. HighlightFollowsJob
  BY DEF HighlightFollowsJob
<1>9. LeavesWhenChosen
  BY <1>1, <1>2, <1>3, <1>4, WhoLeaves DEF Listed
<1>10. NoOvertaking
  BY <1>1, <1>3, <1>5, PendingGrows DEF PaneRows
<1> QED BY <1>7, <1>8, <1>9, <1>10 DEF QueueKept

LEMMA ProgressKeeps ==
  ASSUME HighlightInv, NEW j \in Job, UpdateActiveProgress(j), UNCHANGED <<order, selected_queue>>
  PROVE  QueueKept
<1>1. QueueInv' /\ pending' = pending /\ active' = active /\ failed' = failed
  BY UpdateActiveProgressInv DEF HighlightInv, PaneRows, UpdateActiveProgress
<1>2. PaneRows' /\ visible_queue' = visible_queue
  BY <1>1 DEF HighlightInv, PaneRows, visible_queue
<1>3. HighlightInv'
  BY <1>2 DEF HighlightInv
<1>4. HighlightFollowsJob /\ LeavesWhenChosen
  BY <1>2 DEF HighlightFollowsJob, LeavesWhenChosen, selected_queue_job
<1>5. NoOvertaking
  BY <1>1, PendingKept DEF HighlightInv, PaneRows
<1> QED BY <1>3, <1>4, <1>5 DEF QueueKept

(* A new connection leaves the failed jobs, and the highlight on one.      *)
LEMMA DropWorkersKeeps ==
  ASSUME HighlightInv, DropWorkers
  PROVE  QueueKept
<1> DEFINE waiting == pending \o failed
           i == Clamped(selected_queue, waiting)
<1>1. /\ active' = {} /\ order' = <<>> /\ pending' = <<>> /\ cancelled' = cancelled \cup active
      /\ selected_queue' = Preserved(Shown(waiting, i), i, failed)
      /\ UNCHANGED <<completed, failed, issued>>
      /\ last_progress' = last_progress \ active /\ last_speed' = last_speed \ active
  BY DEF DropWorkers, ClearProgress
<1>2. failed \in Seq(Job) /\ pending \in Seq(Job) /\ waiting \in Seq(Job)
  BY ConcatProperties DEF HighlightInv, PaneRows, QueueInv, QueueTypeOK
<1>3. QueueInv'
  BY <1>1, EmptyElements DEF HighlightInv, PaneRows, QueueInv, QueueTypeOK, OneHome, NoStaleSpeed
<1>4. PaneRows'
  BY <1>1, <1>3, EmptyElements DEF PaneRows
<1>5. visible_queue' = failed
  <2>1. visible_queue' = <<>> \o <<>> \o failed
    BY <1>1 DEF visible_queue
  <2>2. <<>> \in Seq(Job) /\ <<>> \o <<>> = <<>> /\ <<>> \o failed = failed
    BY <1>2, ConcatEmptySeq
  <2> QED BY <2>1, <2>2
<1>6. i \in Nat
  BY <1>2, ClampedInRange DEF HighlightInv
<1> HIDE DEF i, waiting
<1>7. selected_queue' \in Nat /\ (selected_queue' = 0 \/ selected_queue' < Len(failed))
  BY <1>1, <1>2, <1>6, PreservedInRange
<1>8. HighlightInv'
  BY <1>4, <1>5, <1>7 DEF HighlightInv
<1>9. NoOvertaking
  BY <1>1, PendingCleared
<1> QED BY <1>8, <1>9 DEF QueueKept, HighlightFollowsJob, LeavesWhenChosen

LEMMA QueuePaneSteps ==
  ASSUME HighlightInv, PaneNext
  PROVE  QueueKept
<1>1. CASE \E j \in Job : QueueTransfer(j) \/ EnqueueUnseen(j)
  BY <1>1, QueueTransferKeeps, EnqueueUnseenKeeps
<1>2. CASE StartNextTransfer
  BY <1>2, StartNextTransferKeeps
<1>3. CASE \E j \in active : MarkTransfer(j)
  BY <1>3, MarkTransferKeeps
<1>4. CASE RetryKey \/ RetryAll
  BY <1>4, RetryLastKeeps, RetryOneKeeps, RetryAllKeeps DEF RetryKey
<1>5. CASE CancelHighlighted
  BY <1>5, RemoveQueueJobKeeps DEF CancelHighlighted
<1>6. CASE ClearPendingTransfers \/ Navigate \/ DropWorkers
  BY <1>6, ClearPendingTransfersKeeps, NavigateKeeps, DropWorkersKeeps
<1>7. CASE \E j \in Job : UpdateActiveProgress(j) /\ UNCHANGED <<order, selected_queue>>
  BY <1>7, ProgressKeeps
<1> QED BY <1>1, <1>2, <1>3, <1>4, <1>5, <1>6, <1>7 DEF PaneNext

LEMMA QueuePaneStarts ==
  PaneInit => HighlightInv
BY QueueInitInv, EmptyElements DEF PaneInit, QueueInit, HighlightInv, PaneRows

LEMMA QueuePaneKeeps ==
  /\ HighlightInv /\ [PaneNext]_paneVars => HighlightInv'
  /\ HighlightInv /\ [PaneNext]_paneVars
       => [HighlightFollowsJob /\ LeavesWhenChosen /\ NoOvertaking]_paneVars
  /\ HighlightInv => OneHome /\ HighlightOnARow
<1>1. HighlightInv /\ UNCHANGED paneVars => HighlightInv'
  BY DEF HighlightInv, PaneRows, QueueInv, QueueTypeOK, OneHome, NoStaleSpeed, paneVars, queueVars,
         visible_queue
<1>2. HighlightInv => OneHome /\ HighlightOnARow
  BY QueueRows DEF HighlightInv, PaneRows, QueueInv, HighlightOnARow
<1> QED BY <1>1, <1>2, QueuePaneSteps DEF QueueKept

(* The highlight of the queue pane is on a row, goes with its job, and     *)
(* only what was chosen leaves: dispatch_queue and the queue keys.         *)
THEOREM KeysActOnTheirJob == PaneSpec => KeysActOnTheChosenJob
<1>1. PaneSpec => []HighlightInv
  BY QueuePaneStarts, QueuePaneKeeps, PTL DEF PaneSpec
<1>2. PaneSpec => /\ [](OneHome /\ HighlightOnARow)
                  /\ [][HighlightFollowsJob /\ LeavesWhenChosen /\ NoOvertaking]_paneVars
  BY <1>1, QueuePaneKeeps, PTL DEF PaneSpec
<1> QED BY <1>2 DEF KeysActOnTheChosenJob

-----------------------------------------------------------------------------
(* Lists, and the scrollbar beside them.                                   *)
LEMMA DivBounds ==
  ASSUME NEW a \in Int, NEW d \in Nat, d > 0
  PROVE  a \div d \in Int /\ d * (a \div d) <= a /\ a < d * (a \div d) + d
OBVIOUS

LEMMA TimesLess ==
  ASSUME NEW d \in Nat, d > 0, NEW p \in Int, NEW q \in Int, d * p < d * q
  PROVE  p < q
OBVIOUS

LEMMA TimesNext ==
  ASSUME NEW d \in Nat, NEW q \in Int
  PROVE  d * (q + 1) = d * q + d
OBVIOUS

LEMMA DivGrows ==
  ASSUME NEW a \in Int, NEW b \in Int, a <= b, NEW d \in Nat, d > 0
  PROVE  a \div d <= b \div d
<1> DEFINE p == a \div d
           q == b \div d
<1>1. p \in Int /\ q \in Int /\ d * p <= a /\ b < d * q + d
  BY DivBounds
<1> HIDE DEF p, q
<1>2. d * (q + 1) = d * q + d /\ d * p \in Int /\ d * q \in Int
  BY <1>1, TimesNext
<1>3. d * p < d * (q + 1)
  BY <1>1, <1>2
<1>4. p < q + 1
  BY <1>1, <1>3, TimesLess
<1>5. p <= q
  BY <1>1, <1>4
<1> QED BY <1>5 DEF p, q

LEMMA DivIs ==
  ASSUME NEW a \in Int, NEW d \in Nat, d > 0, NEW q \in Int, d * q <= a, a < d * q + d
  PROVE  a \div d = q
<1> DEFINE p == a \div d
<1>1. p \in Int /\ d * p <= a /\ a < d * p + d
  BY DivBounds
<1> HIDE DEF p
<1>2. /\ d * (q + 1) = d * q + d /\ d * (p + 1) = d * p + d
      /\ d * p \in Int /\ d * q \in Int
  BY <1>1, TimesNext
<1>3. d * p < d * (q + 1) /\ d * q < d * (p + 1)
  BY <1>1, <1>2
<1>4. p < q + 1 /\ q < p + 1
  BY <1>1, <1>3, TimesLess
<1>5. p = q
  BY <1>1, <1>4
<1> QED BY <1>5 DEF p

LEMMA LastRowIs ==
  ASSUME NEW n \in Nat
  PROVE  LastRow(n) \in Nat /\ (LastRow(n) = 0 \/ LastRow(n) < n) /\ (n > 0 => LastRow(n) = n - 1)
BY DEF LastRow, Most

(* The row that a point of the scrollbar stands for, rel lines below its   *)
(* top, is no less for a lower point, and the ends are the ends.           *)
BarValue(rel, denom, last) == (2 * rel * last + denom) \div (2 * denom)

LEMMA BarGrows ==
  ASSUME NEW rel \in Nat, NEW low \in Nat, rel <= low, NEW denom \in Nat, denom > 0, NEW last \in Nat
  PROVE  /\ BarValue(rel, denom, last) \in Int
         /\ BarValue(rel, denom, last) <= BarValue(low, denom, last)
<1>1. 2 * rel * last \in Nat /\ 2 * low * last \in Nat
  OBVIOUS
<1>2. 2 * rel * last <= 2 * low * last
  <2>1. low - rel \in Nat /\ 2 * (low - rel) * last \in Nat
    OBVIOUS
  <2>2. 2 * low * last = 2 * rel * last + 2 * (low - rel) * last
    OBVIOUS
  <2> QED BY <1>1, <2>1, <2>2
<1>3. /\ 2 * rel * last + denom \in Int /\ 2 * low * last + denom \in Int
      /\ 2 * rel * last + denom <= 2 * low * last + denom
      /\ 2 * denom \in Nat /\ 2 * denom > 0
  BY <1>1, <1>2
<1> QED BY <1>3, DivGrows, DivBounds DEF BarValue

LEMMA BarEnds ==
  ASSUME NEW denom \in Nat, denom > 0, NEW last \in Nat
  PROVE  BarValue(0, denom, last) = 0 /\ BarValue(denom, denom, last) = last
<1>1. 2 * denom \in Nat /\ 2 * denom > 0
  OBVIOUS
<1>2. 2 * 0 * last = 0 /\ (2 * denom) * 0 = 0 /\ (2 * denom) * last \in Nat
  OBVIOUS
<1>3. denom \div (2 * denom) = 0
  BY <1>1, <1>2, DivIs
<1>4. ((2 * denom) * last + denom) \div (2 * denom) = last
  BY <1>1, <1>2, DivIs
<1> QED BY <1>2, <1>3, <1>4 DEF BarValue

LEMMA BarRowIs ==
  ASSUME NEW y \in Nat, NEW n \in Nat
  PROVE  /\ Least(y, Height - 1) \in Nat /\ Least(y, Height - 1) <= Height - 1
         /\ Height - 1 \in Nat /\ Height - 1 > 0
         /\ BarRow(y, Height, n) = BarValue(Least(y, Height - 1), Height - 1, LastRow(n))
BY ListAssumption DEF Least, Most, BarRow, BarValue

LEMMA BarRowInList ==
  ASSUME NEW y \in Nat, NEW n \in Nat
  PROVE  BarRow(y, Height, n) \in Nat /\ BarRow(y, Height, n) <= LastRow(n)
<1> DEFINE rel == Least(y, Height - 1)
           denom == Height - 1
           last == LastRow(n)
<1>1. /\ rel \in Nat /\ rel <= denom /\ denom \in Nat /\ denom > 0 /\ last \in Nat
      /\ BarRow(y, Height, n) = BarValue(rel, denom, last)
  BY BarRowIs, LastRowIs
<1> HIDE DEF rel, denom, last
<1>2. /\ BarValue(rel, denom, last) \in Int
      /\ BarValue(0, denom, last) <= BarValue(rel, denom, last)
      /\ BarValue(rel, denom, last) <= BarValue(denom, denom, last)
  BY <1>1, BarGrows
<1>3. BarValue(0, denom, last) = 0 /\ BarValue(denom, denom, last) = last
  BY <1>1, BarEnds
<1> QED BY <1>1, <1>2, <1>3 DEF last

LEMMA BarSpans ==
  ASSUME row_count \in Nat
  PROVE  BarSpansList
<1> DEFINE denom == Height - 1
           last == LastRow(row_count)
<1>1. denom \in Nat /\ denom > 0 /\ last \in Nat /\ denom - 1 = Height - 2
  BY ListAssumption, LastRowIs
<1>2. ASSUME NEW y \in 0..denom
      PROVE  BarRow(y, Height, row_count) = BarValue(y, denom, last)
  <2>1. Least(y, denom) = y /\ y \in Nat
    BY <1>1 DEF Least
  <2> QED BY <2>1, BarRowIs
<1> HIDE DEF denom, last
<1>3. BarRow(0, Height, row_count) = 0 /\ BarRow(denom, Height, row_count) = last
  BY <1>1, <1>2, BarEnds
<1>4. ASSUME NEW y \in 0..(denom - 1)
      PROVE  BarRow(y, Height, row_count) <= BarRow(y + 1, Height, row_count)
  <2>1. y \in Nat /\ y + 1 \in Nat /\ y <= y + 1 /\ y \in 0..denom /\ y + 1 \in 0..denom
    BY <1>1
  <2> QED BY <1>1, <1>2, <2>1, BarGrows
<1> QED BY <1>1, <1>3, <1>4 DEF BarSpansList, denom, last

ListIInv ==
  /\ list_kind \in {"Pane", "KeyPicker", "Queue"}
  /\ row_count \in Nat /\ row \in Nat /\ RowInList
  /\ first_shown \in Nat
  /\ last_click \in [y : {NoRow} \cup Nat, chose : {NoRow} \cup Nat, clicks : Nat]
  /\ last_click.y # NoRow => last_click.clicks >= 1

LEMMA FrameSize ==
  /\ Border \in {0, 1}
  /\ RowsDrawn \in Nat /\ RowsDrawn >= 1 /\ RowsDrawn >= Height - 2
  /\ page_rows_for(Height) \in Nat /\ page_rows_for(Height) = Height - 2
BY ListAssumption DEF Border, RowsDrawn, page_rows_for, Most

LEMMA MovedKeeps ==
  ASSUME ListIInv, NEW i \in Nat, i = 0 \/ i < row_count, Moved(i)
  PROVE  ListIInv'
<1>1. last_click' = [last_click EXCEPT !.chose = NoRow]
  BY DEF Moved
<1>2. /\ last_click' \in [y : {NoRow} \cup Nat, chose : {NoRow} \cup Nat, clicks : Nat]
      /\ last_click'.y = last_click.y /\ last_click'.clicks = last_click.clicks
  BY <1>1 DEF ListIInv
<1>3. row' = i /\ UNCHANGED <<list_kind, row_count, first_shown>>
  BY DEF Moved
<1> QED BY <1>2, <1>3 DEF ListIInv, RowInList

LEMMA StepsInList ==
  ASSUME NEW i \in Nat, NEW n \in Nat, i = 0 \/ i < n
  PROVE  /\ StepUp(i) \in Nat /\ (StepUp(i) = 0 \/ StepUp(i) < n)
         /\ StepDown(i, n) \in Nat /\ (StepDown(i, n) = 0 \/ StepDown(i, n) < n)
BY LastRowIs DEF StepUp, StepDown

LEMMA WheelInList ==
  ASSUME NEW i \in Nat, NEW n \in Nat, i = 0 \/ i < n
  PROVE  /\ WheelUp(i) \in Nat /\ (WheelUp(i) = 0 \/ WheelUp(i) < n)
         /\ WheelDown(i, n) \in Nat /\ (WheelDown(i, n) = 0 \/ WheelDown(i, n) < n)
<1> DEFINE u == StepUp(i)
           w == StepUp(u)
           d == StepDown(i, n)
           e == StepDown(d, n)
<1>1. u \in Nat /\ (u = 0 \/ u < n) /\ d \in Nat /\ (d = 0 \/ d < n)
  BY StepsInList
<1> HIDE DEF u, d
<1>2. w \in Nat /\ (w = 0 \/ w < n) /\ e \in Nat /\ (e = 0 \/ e < n)
  BY <1>1, StepsInList
<1> HIDE DEF w, e
<1>3. /\ StepUp(w) \in Nat /\ (StepUp(w) = 0 \/ StepUp(w) < n)
      /\ StepDown(e, n) \in Nat /\ (StepDown(e, n) = 0 \/ StepDown(e, n) < n)
  BY <1>2, StepsInList
<1> QED BY <1>3 DEF WheelUp, WheelDown, u, w, d, e

LEMMA PagedInList ==
  ASSUME NEW i \in Nat, NEW n \in Nat, i = 0 \/ i < n, NEW dir \in {-1, 1}, NEW rows \in Nat
  PROVE  /\ Paged(i, n, dir, rows) \in Nat
         /\ (Paged(i, n, dir, rows) = 0 \/ Paged(i, n, dir, rows) < n)
         /\ Paged(i, n, dir, rows) <= i + rows /\ i <= Paged(i, n, dir, rows) + rows
<1> DEFINE last == LastRow(n)
<1>1. last \in Nat /\ (last = 0 \/ last < n) /\ i <= last
  BY LastRowIs
<1> HIDE DEF last
<1>2. Paged(i, n, dir, rows) = Least(Most(i + dir * rows, 0), last)
  BY DEF Paged, offset_index, last
<1>3. dir * rows \in {rows, -rows}
  OBVIOUS
<1> QED BY <1>1, <1>2, <1>3 DEF Least, Most

LEMMA PagesMeet ==
  ASSUME ListIInv
  PROVE  PagesJoin
<1> SUFFICES ASSUME NEW dir \in {-1, 1}
             PROVE  LET before == FirstShown(row, RowsDrawn)
                        after == FirstShown(Paged(row, row_count, dir, page_rows_for(Height)), RowsDrawn)
                    IN after <= before + RowsDrawn /\ before <= after + RowsDrawn
  BY DEF PagesJoin
<1> DEFINE rows == page_rows_for(Height)
           p == Paged(row, row_count, dir, rows)
           drawn == RowsDrawn
<1>1. drawn \in Nat /\ rows \in Nat /\ rows <= drawn
  BY FrameSize
<1>2. row \in Nat /\ p \in Nat /\ p <= row + rows /\ row <= p + rows
  BY <1>1, PagedInList DEF ListIInv, RowInList
<1> HIDE DEF rows, p, drawn
<1>3. LET before == FirstShown(row, drawn)
          after == FirstShown(p, drawn)
      IN after <= before + drawn /\ before <= after + drawn
  BY <1>1, <1>2 DEF FirstShown, Most
<1> QED BY <1>3 DEF rows, p, drawn

LEMMA ListMovesKeep ==
  ASSUME ListIInv, ListKeys \/ Jump \/ Wheel \/ apply_scrollbar_drag
  PROVE  ListIInv' /\ UNCHANGED first_shown
<1>1. row \in Nat /\ row_count \in Nat /\ (row = 0 \/ row < row_count)
  BY DEF ListIInv, RowInList
<1>2. PICK i : Moved(i) /\ i \in Nat /\ (i = 0 \/ i < row_count)
  <2>1. CASE ListKeys
    BY <1>1, <2>1, StepsInList DEF ListKeys
  <2>2. CASE Wheel
    BY <1>1, <2>2, WheelInList DEF Wheel
  <2>3. CASE Jump
    BY <1>1, <2>3, LastRowIs, PagedInList, FrameSize DEF Jump
  <2>4. CASE apply_scrollbar_drag
    <3>1. PICK y \in 0..Height : Moved(BarRow(y, Height, row_count))
      BY <2>4 DEF apply_scrollbar_drag
    <3>2. y \in Nat
      BY ListAssumption
    <3>3. BarRow(y, Height, row_count) \in Nat /\ BarRow(y, Height, row_count) <= LastRow(row_count)
      BY <1>1, <3>2, BarRowInList
    <3>4. LastRow(row_count) \in Nat /\ (LastRow(row_count) = 0 \/ LastRow(row_count) < row_count)
      BY <1>1, LastRowIs
    <3>5. BarRow(y, Height, row_count) = 0 \/ BarRow(y, Height, row_count) < row_count
      BY <1>1, <3>3, <3>4
    <3> QED BY <3>1, <3>3, <3>5
  <2> QED BY <2>1, <2>2, <2>3, <2>4
<1> QED BY <1>2, MovedKeeps DEF Moved

LEMMA DrawKeeps ==
  ASSUME ListIInv, Draw
  PROVE  ListIInv' /\ FrameShowsHighlight
<1> DEFINE drawn == RowsDrawn
           first == FirstShown(row, drawn)
<1>1. drawn \in Nat /\ drawn >= 1
  BY FrameSize
<1>2. first_shown' = first /\ UNCHANGED <<list_kind, row_count, row, last_click>>
  BY DEF Draw
<1> HIDE DEF drawn
<1>3. row \in Nat /\ first \in Nat /\ row >= first /\ row < first + drawn
  BY <1>1 DEF ListIInv, FirstShown, Most
<1> HIDE DEF first
<1>4. ListIInv'
  BY <1>2, <1>3 DEF ListIInv, RowInList
<1>5. row_count = 0 \/ row \in 0..(row_count - 1)
  BY DEF ListIInv, RowInList
<1>6. FrameShowsHighlight
  BY <1>2, <1>3, <1>5 DEF FrameShowsHighlight, Drawn, drawn
<1> QED BY <1>4, <1>6

LEMMA RowsChangeKeeps ==
  ASSUME ListIInv, RowsChange
  PROVE  ListIInv' /\ UNCHANGED first_shown
<1>1. PICK n \in 0..MaxRows, i \in 0..MaxRows :
        /\ row_count' = n /\ row' = Clipped(i, n)
        /\ last_click' = [last_click EXCEPT !.chose = NoRow]
        /\ UNCHANGED <<list_kind, first_shown>>
  BY DEF RowsChange
<1>2. n \in Nat /\ i \in Nat
  BY ListAssumption
<1>3. row' \in Nat /\ (row' = 0 \/ row' < n)
  BY <1>1, <1>2, LastRowIs DEF Clipped, Least
<1>4. /\ last_click' \in [y : {NoRow} \cup Nat, chose : {NoRow} \cup Nat, clicks : Nat]
      /\ last_click'.y = last_click.y /\ last_click'.clicks = last_click.clicks
  BY <1>1 DEF ListIInv
<1> QED BY <1>1, <1>2, <1>3, <1>4 DEF ListIInv, RowInList

LEMMA ClicksKeep ==
  ASSUME ListIInv,
         \/ \E y \in 0..(Height - 1) : SingleClick(y) \/ DoubleClick(y)
         \/ ClickElsewhere
  PROVE  ListIInv' /\ UNCHANGED first_shown
<1>1. ASSUME NEW y \in 0..(Height - 1), y >= Border
      PROVE  Chosen(y) \in Nat
  BY <1>1, ListAssumption, FrameSize DEF ListIInv, Chosen, RowUnder
<1>2. ASSUME NEW y \in 0..(Height - 1), SingleClick(y)
      PROVE  ListIInv' /\ UNCHANGED first_shown
  <2> DEFINE c == IF y >= Border /\ Chosen(y) < row_count THEN Chosen(y) ELSE NoRow
             k == Least(last_click.clicks + 1, 2)
  <2>1. /\ (row' = Chosen(y) /\ y >= Border /\ Chosen(y) < row_count) \/ row' = row
        /\ last_click' = [y |-> y, chose |-> c, clicks |-> k]
        /\ UNCHANGED <<list_kind, row_count, first_shown>>
    BY <1>2 DEF SingleClick
  <2>2. c \in {NoRow} \cup Nat /\ y \in Nat
    BY <1>1, ListAssumption
  <2>3. k \in Nat /\ k >= 1
    BY DEF ListIInv, Least
  <2> HIDE DEF c, k
  <2>4. row' \in Nat /\ (row' = 0 \/ row' < row_count)
    BY <1>1, <2>1 DEF ListIInv, RowInList
  <2>5. /\ last_click' \in [y : {NoRow} \cup Nat, chose : {NoRow} \cup Nat, clicks : Nat]
        /\ last_click'.clicks >= 1
    BY <2>1, <2>2, <2>3
  <2> QED BY <2>1, <2>4, <2>5 DEF ListIInv, RowInList
<1>3. ASSUME NEW y \in 0..(Height - 1), DoubleClick(y)
      PROVE  ListIInv' /\ UNCHANGED first_shown
  <2>1. /\ row' = Chosen(y) /\ y >= Border /\ Chosen(y) < row_count
        /\ last_click' = NoClick
        /\ UNCHANGED <<list_kind, row_count, first_shown>>
    BY <1>3 DEF DoubleClick, ForgetsClick
  <2> QED BY <1>1, <2>1 DEF ListIInv, RowInList, NoClick
<1>4. ASSUME ClickElsewhere
      PROVE  ListIInv' /\ UNCHANGED first_shown
  <2>1. /\ last_click' = [last_click EXCEPT !.y = NoRow, !.chose = NoRow]
        /\ UNCHANGED <<list_kind, row_count, row, first_shown>>
    BY <1>4 DEF ClickElsewhere
  <2>2. /\ last_click' \in [y : {NoRow} \cup Nat, chose : {NoRow} \cup Nat, clicks : Nat]
        /\ last_click'.y = NoRow
    BY <2>1 DEF ListIInv
  <2> QED BY <2>1, <2>2 DEF ListIInv, RowInList
<1> QED BY <1>2, <1>3, <1>4

LEMMA ListSteps ==
  ASSUME ListIInv, ListNext
  PROVE  ListIInv' /\ FrameShowsHighlight /\ TwoClicksOpen
<1>1. TwoClicksOpen
  BY ListAssumption DEF TwoClicksOpen, DoubleClick, IsDouble, ListIInv, NoRow
<1>2. CASE Draw
  BY <1>1, <1>2, DrawKeeps
<1>3. CASE ListKeys \/ Jump \/ Wheel \/ apply_scrollbar_drag
  BY <1>1, <1>3, ListMovesKeep DEF FrameShowsHighlight
<1>4. CASE RowsChange
  BY <1>1, <1>4, RowsChangeKeeps DEF FrameShowsHighlight
<1>5. CASE \/ \E y \in 0..(Height - 1) : SingleClick(y) \/ DoubleClick(y)
           \/ ClickElsewhere
  BY <1>1, <1>5, ClicksKeep DEF FrameShowsHighlight
<1> QED BY <1>2, <1>3, <1>4, <1>5 DEF ListNext

LEMMA ListStarts ==
  ListInit => ListIInv
BY ListAssumption DEF ListInit, ListIInv, RowInList, NoClick, NoRow

LEMMA ListKeeps ==
  /\ ListIInv /\ [ListNext]_listVars => ListIInv'
  /\ ListIInv /\ [ListNext]_listVars => [FrameShowsHighlight /\ TwoClicksOpen]_listVars
  /\ ListIInv => RowInList /\ PagesJoin /\ BarSpansList
<1>1. ListIInv /\ UNCHANGED listVars => ListIInv'
  BY DEF ListIInv, RowInList, listVars
<1>2. ListIInv => RowInList /\ PagesJoin /\ BarSpansList
  BY PagesMeet, BarSpans DEF ListIInv
<1> QED BY <1>1, <1>2, ListSteps

(* Keys, pages, wheel, scrollbar and clicks agree on the rows of a list of *)
(* any height and length: page_rows_for, apply_scrollbar_drag, the offset  *)
(* of a frame and the clicks read against it.                              *)
THEOREM MovesAgree == ListSpec => MovesAgreeOnRows
<1>1. ListSpec => []ListIInv
  BY ListStarts, ListKeeps, PTL DEF ListSpec
<1>2. ListSpec => /\ [](RowInList /\ PagesJoin /\ BarSpansList)
                  /\ [][FrameShowsHighlight /\ TwoClicksOpen]_listVars
  BY <1>1, ListKeeps, PTL DEF ListSpec
<1> QED BY <1>2 DEF MovesAgreeOnRows
=============================================================================
