------------------------ MODULE OverlayedMapProofs -------------------------
(***************************************************************************)
(* What each operation does to a well formed OverlayedMap and to the views *)
(* of its transactions, for any number of keys, values, extrinsics and     *)
(* nested transactions.                                                    *)
(***************************************************************************)
EXTENDS OverlayedChanges, FiniteSetTheorems, TLAPS

-----------------------------------------------------------------------------
(***************************************************************************)
(* Sequences                                                               *)
(***************************************************************************)
LEMMA SeqLen ==
  ASSUME NEW S, NEW s \in Seq(S)
  PROVE  Len(s) \in Nat /\ s \in [1 .. Len(s) -> S] /\ DOMAIN s = 1 .. Len(s)
OBVIOUS

LEMMA SeqElement ==
  ASSUME NEW S, NEW s \in Seq(S), NEW i \in 1 .. Len(s)
  PROVE  s[i] \in S
OBVIOUS

LEMMA SeqNotEmpty ==
  ASSUME NEW S, NEW s \in Seq(S), s # <<>>
  PROVE  Len(s) \in Nat \ {0}
OBVIOUS

LEMMA SameSeq ==
  ASSUME NEW S, NEW s \in Seq(S), NEW t \in Seq(S),
         Len(s) = Len(t), \A i \in 1 .. Len(s) : s[i] = t[i]
  PROVE  s = t
OBVIOUS

LEMMA SeqPrefix ==
  ASSUME NEW S, NEW s, NEW n \in Int, \A i \in 1 .. n : s[i] \in S
  PROVE  /\ SubSeq(s, 1, n) \in Seq(S)
         /\ Len(SubSeq(s, 1, n)) = IF 1 <= n THEN n ELSE 0
         /\ \A i \in 1 .. n : SubSeq(s, 1, n)[i] = s[i]
OBVIOUS

LEMMA SeqWhole ==
  ASSUME NEW S, NEW s \in Seq(S)
  PROVE  SubSeq(s, 1, Len(s)) = s
OBVIOUS

LEMMA SeqReplace ==
  ASSUME NEW S, NEW s \in Seq(S), NEW i \in 1 .. Len(s), NEW e \in S
  PROVE  /\ [s EXCEPT ![i] = e] \in Seq(S) /\ Len([s EXCEPT ![i] = e]) = Len(s)
         /\ \A j \in 1 .. Len(s) : [s EXCEPT ![i] = e][j] = IF j = i THEN e ELSE s[j]
OBVIOUS

LEMMA SeqAppend ==
  ASSUME NEW S, NEW s \in Seq(S), NEW e \in S
  PROVE  /\ Append(s, e) \in Seq(S) /\ Append(s, e) # <<>> /\ Len(Append(s, e)) = Len(s) + 1
         /\ \A i \in 1 .. Len(s) : Append(s, e)[i] = s[i]
         /\ Append(s, e)[Len(s) + 1] = e
OBVIOUS

-----------------------------------------------------------------------------
(***************************************************************************)
(* Counting the transactions that wrote a key                              *)
(***************************************************************************)
LEMMA WritersType ==
  ASSUME NEW m, NEW k, NEW i \in Nat, NEW n \in Nat
  PROVE  /\ IsFiniteSet({j \in i + 1 .. n : k \in m.dirty[j]})
         /\ Cardinality({j \in i + 1 .. n : k \in m.dirty[j]}) \in Nat
         /\ Writers(m, k, i) \in Nat
         /\ IsFiniteSet({j \in 1 .. i : k \in m.dirty[j]})
<1>1. IsFiniteSet(1 .. i) /\ IsFiniteSet(i + 1 .. n)
  BY FS_Interval
<1> DEFINE S == {j \in 1 .. i : k \in m.dirty[j]}
           T == {j \in i + 1 .. n : k \in m.dirty[j]}
<1>2. S \in SUBSET (1 .. i) /\ T \in SUBSET (i + 1 .. n)
  OBVIOUS
<1>3. Writers(m, k, i) = Cardinality(S)
  BY DEF Writers
<1> HIDE DEF S, T
<1>4. IsFiniteSet(S) /\ Cardinality(S) \in Nat /\ IsFiniteSet(T) /\ Cardinality(T) \in Nat
  BY <1>1, <1>2, FS_Subset, FS_CardinalityType, Zenon
<1> QED
  BY <1>3, <1>4 DEF S, T

LEMMA WritersNat ==
  ASSUME NEW m, NEW k, NEW i \in Nat
  PROVE  Writers(m, k, i) \in Nat
BY WritersType, Zenon

LEMMA WritersZero ==
  ASSUME NEW m, NEW k
  PROVE  Writers(m, k, 0) = 0
<1>1. {j \in 1 .. 0 : k \in m.dirty[j]} = {}
  OBVIOUS
<1> QED
  BY <1>1, FS_EmptySet DEF Writers

LEMMA WritersStep ==
  ASSUME NEW m, NEW k, NEW i \in Nat
  PROVE  Writers(m, k, i + 1) =
           Writers(m, k, i) + (IF k \in m.dirty[i + 1] THEN 1 ELSE 0)
<1> DEFINE S == {j \in 1 .. i : k \in m.dirty[j]}
           T == {j \in 1 .. i + 1 : k \in m.dirty[j]}
<1>1. IsFiniteSet(S)
  BY WritersType, Zenon
<1>2. Writers(m, k, i) = Cardinality(S) /\ Writers(m, k, i + 1) = Cardinality(T)
  BY DEF Writers
<1>3. i + 1 \notin S
  OBVIOUS
<1>4. CASE k \in m.dirty[i + 1]
  <2>1. T = S \cup {i + 1}
    BY <1>4
  <2> HIDE DEF S, T
  <2>2. Cardinality(T) = Cardinality(S) + 1
    BY <1>1, <1>3, <2>1, FS_AddElement
  <2> QED
    BY <1>2, <1>4, <2>2
<1>5. CASE k \notin m.dirty[i + 1]
  <2>1. T = S
    BY <1>5
  <2>2. Writers(m, k, i) \in Nat
    BY WritersType
  <2> HIDE DEF S, T
  <2> QED
    BY <1>2, <1>5, <2>1, <2>2
<1> QED
  BY <1>4, <1>5

LEMMA WritersSame ==
  ASSUME NEW m, NEW mm, NEW k, NEW i \in Nat,
         \A j \in 1 .. i : k \in m.dirty[j] <=> k \in mm.dirty[j]
  PROVE  Writers(m, k, i) = Writers(mm, k, i)
<1>1. {j \in 1 .. i : k \in m.dirty[j]} = {j \in 1 .. i : k \in mm.dirty[j]}
  OBVIOUS
<1> QED
  BY <1>1, Zenon DEF Writers

LEMMA WritersSplit ==
  ASSUME NEW m, NEW k, NEW i \in Nat, NEW n \in Nat, i <= n
  PROVE  Writers(m, k, n) =
           Writers(m, k, i) + Cardinality({j \in i + 1 .. n : k \in m.dirty[j]})
<1> DEFINE S == {j \in 1 .. i : k \in m.dirty[j]}
           T == {j \in i + 1 .. n : k \in m.dirty[j]}
           U == {j \in 1 .. n : k \in m.dirty[j]}
<1>1. IsFiniteSet(S) /\ IsFiniteSet(T) /\ Cardinality(S) \in Nat /\ Cardinality(T) \in Nat
  <2>1. IsFiniteSet(S) /\ IsFiniteSet(T)
    BY WritersType, Zenon
  <2> HIDE DEF S, T
  <2> QED
    BY <2>1, FS_CardinalityType
<1>2. U = S \cup T /\ S \cap T = {}
  OBVIOUS
<1>3. Writers(m, k, i) = Cardinality(S) /\ Writers(m, k, n) = Cardinality(U)
  BY DEF Writers
<1> HIDE DEF S, U
<1>4. Cardinality(U) = Cardinality(S) + Cardinality(T) - Cardinality(S \cap T)
  <2> HIDE DEF T
  <2> QED
    BY <1>1, <1>2, FS_Union
<1>5. Cardinality(S \cap T) = 0
  BY <1>2, FS_EmptySet
<1> HIDE DEF T
<1>6. Writers(m, k, n) = Writers(m, k, i) + Cardinality(T)
  BY <1>1, <1>3, <1>4, <1>5
<1> QED
  BY <1>6 DEF T

LEMMA WritersMonotone ==
  ASSUME NEW m, NEW k, NEW i \in Nat, NEW n \in Nat, i <= n
  PROVE  /\ Writers(m, k, i) \in Nat /\ Writers(m, k, n) \in Nat
         /\ Writers(m, k, i) <= Writers(m, k, n)
<1> DEFINE c == Cardinality({j \in i + 1 .. n : k \in m.dirty[j]})
<1>1. c \in Nat /\ Writers(m, k, i) \in Nat /\ Writers(m, k, n) \in Nat
  BY WritersType, Zenon
<1>2. Writers(m, k, n) = Writers(m, k, i) + c
  BY WritersSplit
<1> HIDE DEF c
<1> QED
  BY <1>1, <1>2

-----------------------------------------------------------------------------
(***************************************************************************)
(* The entry of a view that the first n versions of a key stand for        *)
(***************************************************************************)
WrittenBy(versions, n) == UNION {versions[j].extrinsics : j \in 1 .. n}
EntryAt(versions, n) ==
  IF n = 0 THEN Unknown ELSE [value |-> versions[n].value, by |-> WrittenBy(versions, n)]

\* The entry that a write leaves.
NewEntry(old, value, at) ==
  [value |-> value, by |-> IF old = Unknown THEN at ELSE old.by \cup at]

LEMMA EntryPrefix ==
  ASSUME NEW v, NEW w, NEW n \in Nat, \A j \in 1 .. n : v[j] = w[j]
  PROVE  EntryAt(v, n) = EntryAt(w, n)
<1>1. WrittenBy(v, n) = WrittenBy(w, n)
  BY DEF WrittenBy
<1>2. n # 0 => v[n] = w[n]
  OBVIOUS
<1> QED
  BY <1>1, <1>2 DEF EntryAt

LEMMA EntryType ==
  ASSUME NEW v \in Seq(Version), NEW n \in 1 .. Len(v)
  PROVE  EntryAt(v, n) \in ViewEntry /\ EntryAt(v, n) # Unknown
<1>1. \A j \in 1 .. n : v[j] \in Version
  BY SeqElement, SeqLen
<1>2. v[n].value \in Value \cup {Deleted} /\ \A j \in 1 .. n : v[j].extrinsics \in SUBSET Extrinsic
  BY <1>1 DEF Version
<1>3. WrittenBy(v, n) \in SUBSET Extrinsic
  BY <1>2 DEF WrittenBy
<1>4. EntryAt(v, n) \in ViewEntry
  BY <1>2, <1>3 DEF EntryAt, ViewEntry
<1> QED
  BY <1>4, UnknownIsNoEntry

\* OverlayedEntry::set on the versions: either a version is added or the last
\* one changed, and the entry they stand for is overwritten.
LEMMA WrittenVersions ==
  ASSUME NEW v \in Seq(Version), NEW first \in BOOLEAN,
         NEW value \in Value \cup {Deleted}, NEW at \in SUBSET Extrinsic
  PROVE  LET w == Written(v, first, value, at)
         IN  /\ w \in Seq(Version)
             /\ Len(w) = Len(v) + (IF first \/ v = <<>> THEN 1 ELSE 0)
             /\ Len(w) >= 1
             /\ \A j \in 1 .. Len(w) - 1 : w[j] = v[j]
             /\ EntryAt(w, Len(w)) = NewEntry(EntryAt(v, Len(v)), value, at)
<1> DEFINE w == Written(v, first, value, at)
           n == Len(v)
           old == WrittenBy(v, n)
           Claim(u) == /\ u \in Seq(Version)
                       /\ Len(u) = n + (IF first \/ v = <<>> THEN 1 ELSE 0)
                       /\ Len(u) >= 1
                       /\ \A j \in 1 .. Len(u) - 1 : u[j] = v[j]
                       /\ EntryAt(u, Len(u)) = NewEntry(EntryAt(v, n), value, at)
<1> SUFFICES Claim(w)
  OBVIOUS
<1>1. n \in Nat /\ \A j \in 1 .. n : v[j] \in Version
  BY SeqElement, SeqLen
<1>2. CASE first \/ v = <<>>
  <2> DEFINE e == [value |-> value, extrinsics |-> at]
  <2>1. e \in Version
    BY DEF Version
  <2>2. w = Append(v, e)
    BY <1>2 DEF Written
  <2> HIDE DEF w
  <2>3. /\ w \in Seq(Version) /\ Len(w) = n + 1 /\ \A j \in 1 .. n : w[j] = v[j]
        /\ w[n + 1] = e
    BY <2>1, <2>2, SeqAppend
  <2>4. WrittenBy(w, n + 1) = old \cup at
    <3>1. ASSUME NEW x
          PROVE  x \in WrittenBy(w, n + 1) <=> x \in old \/ x \in at
      BY <1>1, <2>3 DEF WrittenBy
    <3> QED
      BY <3>1
  <2>5. EntryAt(w, n + 1) = [value |-> value, by |-> old \cup at]
    <3>1. w[n + 1].value = value /\ n + 1 # 0
      BY <1>1, <2>3
    <3> QED
      BY <2>4, <3>1, Zenon DEF EntryAt
  <2>6. [value |-> value, by |-> old \cup at] = NewEntry(EntryAt(v, n), value, at)
    <3>1. CASE n = 0
      <4>1. old = {}
        BY <3>1 DEF WrittenBy
      <4> QED
        BY <3>1, <4>1, Zenon DEF EntryAt, NewEntry
    <3>2. CASE n # 0
      <4>1. EntryAt(v, n) # Unknown
        BY <1>1, <3>2, EntryType
      <4>2. EntryAt(v, n).by = old
        BY <3>2 DEF EntryAt
      <4> HIDE DEF old
      <4> QED
        BY <4>1, <4>2 DEF NewEntry
    <3> QED
      BY <3>1, <3>2
  <2> HIDE DEF e, old
  <2> QED
    <3>1. Len(w) = n + 1 /\ Len(w) >= 1 /\ Len(w) - 1 = n
      BY <1>1, <2>3
    <3> QED
      BY <1>2, <2>3, <2>5, <2>6, <3>1, Zenon
<1>3. CASE ~(first \/ v = <<>>)
  <2> DEFINE e == [v[n] EXCEPT !.value = value, !.extrinsics = @ \cup at]
  <2>1. n \in 1 .. n /\ v[n] \in Version
    BY <1>1, <1>3, SeqNotEmpty
  <2>2. e \in Version /\ e.value = value /\ e.extrinsics = v[n].extrinsics \cup at
    BY <2>1, Zenon DEF Version
  <2>3. w = [v EXCEPT ![n] = e]
    BY <1>3, <2>1, Zenon DEF Written, Version
  <2> HIDE DEF w, e
  <2>4. /\ w \in Seq(Version) /\ Len(w) = n /\ \A j \in 1 .. n - 1 : w[j] = v[j]
        /\ w[n] = e
    BY <1>1, <2>1, <2>2, <2>3, SeqReplace
  <2>5. WrittenBy(w, n) = old \cup at
    <3>1. ASSUME NEW x
          PROVE  x \in WrittenBy(w, n) <=> x \in old \/ x \in at
      BY <1>1, <2>1, <2>2, <2>4 DEF WrittenBy
    <3> QED
      BY <3>1
  <2>6. EntryAt(w, n) = [value |-> value, by |-> old \cup at]
    <3>1. w[n].value = value /\ n # 0
      BY <2>1, <2>2, <2>4
    <3> QED
      BY <2>5, <3>1 DEF EntryAt
  <2>7. EntryAt(v, n) # Unknown /\ EntryAt(v, n).by = old
    <3>1. EntryAt(v, n) # Unknown
      BY <2>1, EntryType
    <3> QED
      BY <2>1, <3>1 DEF EntryAt
  <2> HIDE DEF old
  <2> QED
    BY <1>1, <1>3, <2>1, <2>4, <2>6, <2>7 DEF NewEntry
<1> QED
  BY <1>2, <1>3

-----------------------------------------------------------------------------
(***************************************************************************)
(* One map: what the operations do to its versions and to its views        *)
(***************************************************************************)
Well(m) == m \in MapState /\ VersionsMatch(m)

\* The entry of k in the view of transaction i.
Seen(m, k, i) == EntryAt(m.changes[k], VersionsUpTo(m, k, i))

LEMMA WellFacts ==
  ASSUME NEW m, Well(m), NEW k \in Key
  PROVE  /\ m.changes \in [Key -> Seq(Version)] /\ m.dirty \in Seq(SUBSET Key)
         /\ m.changes[k] \in Seq(Version) /\ Len(m.changes[k]) \in Nat
         /\ Depth(m) = Len(m.dirty) /\ Depth(m) \in Nat
         /\ Writers(m, k, Depth(m)) \in Nat
         /\ Len(m.changes[k]) - Writers(m, k, Depth(m)) \in {0, 1}
<1>1. /\ m.changes \in [Key -> Seq(Version)] /\ m.dirty \in Seq(SUBSET Key)
      /\ m.changes[k] \in Seq(Version)
  BY DEF Well, MapState
<1>2. Len(m.changes[k]) \in Nat /\ Depth(m) = Len(m.dirty) /\ Depth(m) \in Nat
  BY <1>1, SeqLen DEF Depth
<1>3. Writers(m, k, Depth(m)) \in Nat
  BY <1>2, WritersType, Zenon
<1>4. Len(m.changes[k]) - Writers(m, k, Depth(m)) \in {0, 1}
  BY DEF Well, VersionsMatch
<1> QED
  BY <1>1, <1>2, <1>3, <1>4

LEMMA VersionsBounds ==
  ASSUME NEW m, Well(m), NEW k \in Key, NEW i \in 0 .. Depth(m)
  PROVE  /\ VersionsUpTo(m, k, i) \in 0 .. Len(m.changes[k])
         /\ VersionsUpTo(m, k, Depth(m)) = Len(m.changes[k])
         /\ i < Depth(m) /\ k \in m.dirty[Depth(m)]
               => VersionsUpTo(m, k, i) <= Len(m.changes[k]) - 1
<1> DEFINE D == Depth(m)
           L == Len(m.changes[k])
           W(j) == Writers(m, k, j)
<1>1. L \in Nat /\ D \in Nat /\ W(D) \in Nat /\ L - W(D) \in {0, 1} /\ i \in Nat /\ i <= D
  BY WellFacts
<1>2. VersionsUpTo(m, k, i) = (L - W(D)) + W(i) /\ VersionsUpTo(m, k, D) = (L - W(D)) + W(D)
  BY DEF VersionsUpTo
<1>3. W(i) \in Nat /\ W(i) <= W(D)
  BY <1>1, WritersMonotone
<1>4. i < D /\ k \in m.dirty[D] => W(i) <= W(D) - 1
  <2> SUFFICES ASSUME i < D, k \in m.dirty[D] PROVE W(i) <= W(D) - 1
    OBVIOUS
  <2> DEFINE d == D - 1
  <2>1. d \in Nat /\ i <= d /\ d + 1 = D
    BY <1>1
  <2> HIDE DEF d
  <2>2. W(i) \in Nat /\ W(d) \in Nat /\ W(i) <= W(d)
    BY <1>1, <2>1, WritersMonotone
  <2>3. W(d + 1) = W(d) + 1
    BY <2>1, WritersStep
  <2> HIDE DEF W
  <2> QED
    BY <2>1, <2>2, <2>3
<1> HIDE DEF D, L, W
<1>5. /\ VersionsUpTo(m, k, i) \in 0 .. L /\ VersionsUpTo(m, k, D) = L
      /\ i < D /\ k \in m.dirty[D] => VersionsUpTo(m, k, i) <= L - 1
  BY <1>1, <1>2, <1>3, <1>4
<1> QED
  BY <1>5 DEF D, L

\* What set, modify and clear_where do to a map: value is written to all keys.
WrittenTo(m, keys, value, at) ==
  [m EXCEPT !.changes = [k \in Key |-> IF k \in keys
                                       THEN Written(m.changes[k], FirstWrite(m, k), value, at)
                                       ELSE m.changes[k]],
            !.dirty = MarkDirty(m, keys)]

IsWrite(m, mm, keys, value, at) ==
  /\ Well(m)
  /\ keys \in SUBSET Key /\ value \in Value \cup {Deleted} /\ at \in SUBSET Extrinsic
  /\ mm = WrittenTo(m, keys, value, at)

LEMMA WrittenToState ==
  ASSUME NEW m, NEW mm, NEW keys, NEW value, NEW at, IsWrite(m, mm, keys, value, at)
  PROVE  /\ mm \in MapState /\ Depth(mm) = Depth(m)
         /\ mm.client = m.client /\ mm.mode = m.mode
         /\ \A j \in 1 .. Depth(m) - 1 : mm.dirty[j] = m.dirty[j]
         /\ Depth(m) > 0 => mm.dirty[Depth(m)] = m.dirty[Depth(m)] \cup keys
         /\ \A k \in Key :
               mm.changes[k] = IF k \in keys
                               THEN Written(m.changes[k], FirstWrite(m, k), value, at)
                               ELSE m.changes[k]
<1> DEFINE D == Depth(m)
           c == [k \in Key |-> IF k \in keys
                               THEN Written(m.changes[k], FirstWrite(m, k), value, at)
                               ELSE m.changes[k]]
           d == MarkDirty(m, keys)
<1>1. /\ m \in MapState /\ m.changes \in [Key -> Seq(Version)] /\ m.dirty \in Seq(SUBSET Key)
      /\ D = Len(m.dirty) /\ D \in Nat
  BY SeqLen DEF IsWrite, Well, MapState, Depth
<1>2. mm = [m EXCEPT !.changes = c, !.dirty = d]
  BY DEF IsWrite, WrittenTo
<1>3. /\ mm = [changes |-> c, dirty |-> d, client |-> m.client, mode |-> m.mode]
      /\ mm.changes = c /\ mm.dirty = d /\ mm.client = m.client /\ mm.mode = m.mode
  <2> HIDE DEF c, d
  <2> QED
    BY <1>1, <1>2, Zenon DEF MapState
<1>4. c \in [Key -> Seq(Version)]
  <2> SUFFICES ASSUME NEW k \in Key PROVE c[k] \in Seq(Version)
    OBVIOUS
  <2>1. FirstWrite(m, k) \in BOOLEAN
    BY DEF FirstWrite
  <2>2. m.changes[k] \in Seq(Version)
    BY <1>1
  <2>3. Written(m.changes[k], FirstWrite(m, k), value, at) \in Seq(Version)
    BY <2>1, <2>2, WrittenVersions DEF IsWrite
  <2> QED
    BY <2>2, <2>3
<1>5. /\ d \in Seq(SUBSET Key) /\ Len(d) = D
      /\ \A j \in 1 .. D - 1 : d[j] = m.dirty[j]
      /\ D > 0 => d[D] = m.dirty[D] \cup keys
  <2>1. CASE D = 0
    <3>1. d = m.dirty
      BY <2>1 DEF MarkDirty
    <3>2. m.dirty \in Seq(SUBSET Key) /\ D = Len(m.dirty)
      BY <1>1
    <3> HIDE DEF d, D
    <3>3. 1 .. D - 1 = {} /\ ~(D > 0)
      BY <2>1
    <3> QED
      BY <3>1, <3>2, <3>3
  <2>2. CASE D # 0
    <3>1. d = [m.dirty EXCEPT ![D] = m.dirty[D] \cup keys]
      BY <2>2 DEF MarkDirty
    <3> HIDE DEF d, D
    <3>2. D \in 1 .. Len(m.dirty)
      BY <1>1, <2>2
    <3>3. m.dirty[D] \cup keys \in SUBSET Key
      BY <1>1, <3>2, SeqElement DEF IsWrite
    <3>4. /\ d \in Seq(SUBSET Key) /\ Len(d) = Len(m.dirty)
          /\ \A j \in 1 .. Len(m.dirty) : d[j] = IF j = D THEN m.dirty[D] \cup keys ELSE m.dirty[j]
      BY <1>1, <3>1, <3>2, <3>3, SeqReplace
    <3> QED
      BY <1>1, <3>4
  <2> QED
    BY <2>1, <2>2
<1> HIDE DEF d
<1>6. mm \in MapState /\ Depth(mm) = D
  <2> HIDE DEF c
  <2> QED
    BY <1>1, <1>3, <1>4, <1>5 DEF MapState, Depth
<1> QED
  BY <1>3, <1>5, <1>6

LEMMA WrittenToKey ==
  ASSUME NEW m, NEW mm, NEW keys, NEW value, NEW at, IsWrite(m, mm, keys, value, at),
         NEW k \in Key, NEW D, D = Depth(m)
  PROVE  /\ Len(mm.changes[k]) - Writers(mm, k, D) \in {0, 1}
         /\ \A i \in 0 .. D - 1 : Seen(mm, k, i) = Seen(m, k, i)
         /\ Seen(mm, k, D) = IF k \in keys THEN NewEntry(Seen(m, k, D), value, at)
                                           ELSE Seen(m, k, D)
<1> DEFINE v     == m.changes[k]
           w     == mm.changes[k]
           first == FirstWrite(m, k)
           n(i)  == VersionsUpTo(m, k, i)
           W(i)  == Writers(m, k, i)
           WW(i) == Writers(mm, k, i)
<1>1. /\ Depth(mm) = D /\ w = IF k \in keys THEN Written(v, first, value, at) ELSE v
      /\ \A j \in 1 .. D - 1 : mm.dirty[j] = m.dirty[j]
      /\ D > 0 => mm.dirty[D] = m.dirty[D] \cup keys
  <2>1. Depth(mm) = Depth(m)
    BY WrittenToState
  <2>2. w = IF k \in keys THEN Written(v, first, value, at) ELSE v
    BY WrittenToState
  <2>3. /\ \A j \in 1 .. Depth(m) - 1 : mm.dirty[j] = m.dirty[j]
        /\ Depth(m) > 0 => mm.dirty[Depth(m)] = m.dirty[Depth(m)] \cup keys
    BY WrittenToState
  <2> QED
    BY <2>1, <2>2, <2>3
<1>2. /\ v \in Seq(Version) /\ Len(v) \in Nat /\ D \in Nat /\ W(D) \in Nat
      /\ Len(v) - W(D) \in {0, 1}
  BY WellFacts DEF IsWrite
<1>3. \A i \in 0 .. D : n(i) \in 0 .. Len(v)
  BY VersionsBounds DEF IsWrite
<1>4. Seen(m, k, D) = EntryAt(v, Len(v))
  BY <1>2, VersionsBounds DEF Seen, IsWrite
<1>5. ASSUME NEW i \in 0 .. D
      PROVE  /\ Seen(m, k, i) = EntryAt(v, n(i)) /\ n(i) = (Len(v) - W(D)) + W(i)
             /\ Seen(mm, k, i) = EntryAt(w, (Len(w) - WW(D)) + WW(i))
  BY <1>1 DEF Seen, VersionsUpTo
<1>6. ASSUME NEW i \in 0 .. D - 1
      PROVE  WW(i) = W(i) /\ W(i) \in Nat
  <2>1. \A j \in 1 .. i : k \in mm.dirty[j] <=> k \in m.dirty[j]
    <3> SUFFICES ASSUME NEW j \in 1 .. i PROVE mm.dirty[j] = m.dirty[j]
      OBVIOUS
    <3>1. j \in 1 .. D - 1
      BY <1>2
    <3> QED
      BY <1>1, <3>1
  <2>2. i \in Nat
    BY <1>2
  <2> QED
    BY <2>1, <2>2, WritersSame, WritersType, ZenonT(60)
<1> HIDE DEF v, w, first, n, W, WW
<1>7. CASE k \notin keys
  <2>1. w = v
    BY <1>1, <1>7
  <2>2. WW(D) = W(D)
    <3>1. \A j \in 1 .. D : k \in mm.dirty[j] <=> k \in m.dirty[j]
      <4> SUFFICES ASSUME NEW j \in 1 .. D PROVE k \in mm.dirty[j] <=> k \in m.dirty[j]
        OBVIOUS
      <4>1. j \in 1 .. D - 1 \/ (j = D /\ D > 0)
        BY <1>2
      <4> QED
        BY <1>1, <1>7, <4>1
    <3> QED
      BY <1>2, <3>1, WritersSame DEF WW, W
  <2>3. ASSUME NEW i \in 0 .. D PROVE Seen(mm, k, i) = Seen(m, k, i)
    <3>1. WW(i) = W(i)
      BY <1>2, <1>6, <2>2
    <3> QED
      BY <1>5, <2>1, <2>2, <3>1
  <2> QED
    BY <1>2, <1>7, <2>1, <2>2, <2>3 DEF w, WW
<1>8. CASE k \in keys
  <2>1. /\ w \in Seq(Version)
        /\ Len(w) = Len(v) + (IF first \/ v = <<>> THEN 1 ELSE 0)
        /\ Len(w) >= 1
        /\ \A j \in 1 .. Len(w) - 1 : w[j] = v[j]
        /\ EntryAt(w, Len(w)) = NewEntry(EntryAt(v, Len(v)), value, at)
    <3>1. first \in BOOLEAN
      BY DEF first, FirstWrite
    <3>2. w = Written(v, first, value, at)
      BY <1>1, <1>8
    <3> QED
      BY <1>2, <3>1, <3>2, WrittenVersions, Zenon DEF IsWrite
  <2>2. Len(w) \in Nat
    BY <2>1, SeqLen
  <2>3. first <=> D > 0 /\ k \notin m.dirty[D]
    BY DEF first, FirstWrite
  <2>4. CASE D = 0
    <3>1. W(D) = 0 /\ WW(D) = 0
      BY <2>4, WritersZero DEF W, WW
    <3>2. ~first /\ Len(v) \in {0, 1}
      <4>1. ~first
        BY <2>3, <2>4
      <4> QED
        BY <1>2, <3>1, <4>1
    <3>3. Len(w) = 1
      <4>1. CASE Len(v) = 0
        <5>1. v = <<>>
          BY <1>2, <4>1, SeqNotEmpty
        <5> QED
          BY <2>1, <4>1, <5>1
      <4>2. CASE Len(v) = 1
        <5>1. v # <<>>
          BY <4>2
        <5> QED
          BY <2>1, <3>2, <4>2, <5>1
      <4> QED
        BY <3>2, <4>1, <4>2
    <3>4. Seen(mm, k, D) = EntryAt(w, Len(w))
      BY <1>2, <1>5, <3>1, <3>3
    <3>5. 0 .. D - 1 = {} /\ Len(w) - WW(D) \in {0, 1}
      BY <2>4, <3>1, <3>3
    <3>6. Seen(mm, k, D) = NewEntry(Seen(m, k, D), value, at)
      BY <1>4, <2>1, <3>4
    <3> QED
      BY <1>8, <3>5, <3>6 DEF w, WW
  <2>5. CASE D > 0
    <3> DEFINE d == D - 1
    <3>1. d \in Nat /\ d + 1 = D /\ d \in 0 .. D - 1
      BY <1>2, <2>5
    <3>2. WW(d) = W(d) /\ W(d) \in Nat
      BY <1>6, <3>1
    <3> HIDE DEF d
    <3>3. k \in mm.dirty[D]
      BY <1>1, <1>8, <2>5
    <3>4. WW(D) = WW(d) + 1
      BY <3>1, <3>3, WritersStep DEF WW
    <3>5. W(D) = W(d) + (IF k \in m.dirty[D] THEN 1 ELSE 0)
      BY <3>1, WritersStep DEF W
    <3>6. CASE first
      <4>1. Len(w) = Len(v) + 1 /\ WW(D) = W(D) + 1
        BY <2>1, <2>3, <3>2, <3>4, <3>5, <3>6
      <4>2. Len(w) - WW(D) = Len(v) - W(D)
        BY <1>2, <4>1
      <4>3. ASSUME NEW i \in 0 .. D - 1 PROVE Seen(mm, k, i) = Seen(m, k, i)
        <5>1. i \in 0 .. D /\ WW(i) = W(i)
          BY <1>2, <1>6
        <5>2. n(i) \in Nat /\ \A j \in 1 .. n(i) : v[j] = w[j]
          BY <1>2, <1>3, <2>1, <4>1, <5>1
        <5>3. Seen(mm, k, i) = EntryAt(w, n(i)) /\ Seen(m, k, i) = EntryAt(v, n(i))
          BY <1>5, <4>2, <5>1
        <5> QED
          BY <5>2, <5>3, EntryPrefix
      <4>4. Seen(mm, k, D) = EntryAt(w, Len(w))
        <5>1. D \in 0 .. D /\ (Len(w) - WW(D)) + WW(D) = Len(w)
          BY <1>2, <2>2, <3>2, <3>4
        <5> QED
          BY <1>5, <5>1
      <4> QED
        BY <1>2, <1>4, <1>8, <2>1, <4>2, <4>3, <4>4 DEF w, WW
    <3>7. CASE ~first
      <4>1. k \in m.dirty[D] /\ WW(D) = W(D) /\ W(D) >= 1
        BY <2>3, <2>5, <3>2, <3>4, <3>5, <3>7
      <4>2. v # <<>>
        <5>1. Len(v) # 0
          BY <1>2, <4>1
        <5> QED
          BY <5>1
      <4>3. Len(w) = Len(v)
        BY <1>2, <2>1, <3>7, <4>2
      <4>4. ASSUME NEW i \in 0 .. D - 1 PROVE Seen(mm, k, i) = Seen(m, k, i)
        <5>1. i \in 0 .. D /\ i < D /\ WW(i) = W(i)
          BY <1>2, <1>6
        <5>2. n(i) \in Nat /\ n(i) <= Len(v) - 1
          BY <1>3, <4>1, <5>1, VersionsBounds DEF IsWrite, n, v
        <5>3. \A j \in 1 .. n(i) : v[j] = w[j]
          BY <1>2, <2>1, <4>3, <5>2
        <5>4. Seen(mm, k, i) = EntryAt(w, n(i)) /\ Seen(m, k, i) = EntryAt(v, n(i))
          BY <1>5, <4>1, <4>3, <5>1, SMTT(30)
        <5> QED
          BY <5>2, <5>3, <5>4, EntryPrefix
      <4>5. Seen(mm, k, D) = EntryAt(w, Len(w))
        <5>1. D \in 0 .. D /\ (Len(w) - WW(D)) + WW(D) = Len(w)
          BY <1>2, <2>2, <3>2, <3>4
        <5> QED
          BY <1>5, <5>1
      <4> QED
        BY <1>2, <1>4, <1>8, <2>1, <4>1, <4>3, <4>4, <4>5 DEF w, WW
    <3> QED
      BY <3>6, <3>7
  <2> QED
    BY <1>2, <2>4, <2>5
<1> QED
  BY <1>7, <1>8

LEMMA ViewIsSeen ==
  ASSUME NEW m, NEW i
  PROVE  ViewAt(m, i) = [k \in Key |-> Seen(m, k, i)]
BY DEF ViewAt, Seen, EntryAt, WrittenBy

LEMMA SameSeen ==
  ASSUME NEW m, NEW i, NEW mm, NEW ii, \A k \in Key : Seen(m, k, i) = Seen(mm, k, ii)
  PROVE  ViewAt(m, i) = ViewAt(mm, ii)
BY ViewIsSeen

\* A write keeps the map well formed and changes the view of the innermost
\* transaction only.
LEMMA WriteEffect ==
  ASSUME NEW m, NEW mm, NEW keys, NEW value, NEW at, IsWrite(m, mm, keys, value, at)
  PROVE  /\ Well(mm) /\ Depth(mm) = Depth(m)
         /\ mm.client = m.client /\ mm.mode = m.mode
         /\ \A i \in 0 .. Depth(m) - 1 : ViewAt(mm, i) = ViewAt(m, i)
         /\ ViewAt(mm, Depth(m)) =
              [k \in Key |-> IF k \in keys THEN NewEntry(ViewAt(m, Depth(m))[k], value, at)
                             ELSE ViewAt(m, Depth(m))[k]]
<1> DEFINE D == Depth(m)
<1>1. mm \in MapState /\ Depth(mm) = D /\ mm.client = m.client /\ mm.mode = m.mode
  BY WrittenToState
<1>2. ASSUME NEW k \in Key
      PROVE  /\ Len(mm.changes[k]) - Writers(mm, k, D) \in {0, 1}
             /\ \A i \in 0 .. D - 1 : Seen(mm, k, i) = Seen(m, k, i)
             /\ Seen(mm, k, D) = IF k \in keys THEN NewEntry(Seen(m, k, D), value, at)
                                               ELSE Seen(m, k, D)
  BY WrittenToKey
<1> HIDE DEF D
<1>3. Well(mm)
  BY <1>1, <1>2 DEF Well, VersionsMatch
<1>4. ASSUME NEW i \in 0 .. D - 1 PROVE ViewAt(mm, i) = ViewAt(m, i)
  BY <1>2, SameSeen
<1>5. ViewAt(mm, D) = [k \in Key |-> IF k \in keys THEN NewEntry(ViewAt(m, D)[k], value, at)
                                     ELSE ViewAt(m, D)[k]]
  BY <1>2, ViewIsSeen
<1> QED
  BY <1>1, <1>3, <1>4, <1>5 DEF D

LEMMA SetIsWrite ==
  ASSUME NEW m, Well(m), NEW k \in Key,
         NEW value \in Value \cup {Deleted}, NEW at \in SUBSET Extrinsic
  PROVE  IsWrite(m, Set(m, k, value, at), {k}, value, at)
<1> DEFINE new == Written(m.changes[k], FirstWrite(m, k), value, at)
           c   == [j \in Key |-> IF j \in {k}
                                THEN Written(m.changes[j], FirstWrite(m, j), value, at)
                                ELSE m.changes[j]]
<1>1. m \in MapState /\ m.changes \in [Key -> Seq(Version)]
  BY DEF Well, MapState
<1>2. c = [m.changes EXCEPT ![k] = new]
  BY <1>1
<1>3. Set(m, k, value, at) = [m EXCEPT !.changes = [m.changes EXCEPT ![k] = new],
                                           !.dirty = MarkDirty(m, {k})]
  BY <1>1 DEF Set, MapState
<1>4. WrittenTo(m, {k}, value, at) = [m EXCEPT !.changes = c, !.dirty = MarkDirty(m, {k})]
  BY DEF WrittenTo
<1> HIDE DEF c, new
<1>5. Set(m, k, value, at) = WrittenTo(m, {k}, value, at)
  BY <1>2, <1>3, <1>4
<1> QED
  BY <1>5 DEF IsWrite

LEMMA ModifyIsWrite ==
  ASSUME NEW m, Well(m), NEW k \in Key,
         NEW value \in Value \cup {Deleted}, NEW at \in SUBSET Extrinsic
  PROVE  \E by \in {at, {}} : IsWrite(m, Modify(m, k, value, at), {k}, value, by)
<1> DEFINE first == FirstWrite(m, k)
           by    == IF first \/ m.changes[k] = <<>> THEN at ELSE {}
<1>1. Modify(m, k, value, at) = Set(m, k, value, by)
  BY DEF Modify, Set
<1>2. by \in {at, {}} /\ by \in SUBSET Extrinsic
  OBVIOUS
<1> HIDE DEF by
<1> QED
  BY <1>1, <1>2, SetIsWrite

LEMMA ClearIsWrite ==
  ASSUME NEW m, Well(m), NEW keys \in SUBSET Key, NEW at \in SUBSET Extrinsic
  PROVE  IsWrite(m, ClearWhere(m, keys, at), {k \in keys : m.changes[k] # <<>>}, Deleted, at)
BY DEF IsWrite, WrittenTo, ClearWhere

LEMMA StartEffect ==
  ASSUME NEW m, Well(m), NEW mm, mm = Started(m)
  PROVE  /\ Well(mm) /\ Depth(mm) = Depth(m) + 1
         /\ mm.client = m.client /\ mm.mode = m.mode
         /\ \A i \in 0 .. Depth(m) : ViewAt(mm, i) = ViewAt(m, i)
         /\ ViewAt(mm, Depth(m) + 1) = ViewAt(m, Depth(m))
<1> DEFINE D == Depth(m)
           d == Append(m.dirty, {})
<1>1. m \in MapState /\ m.dirty \in Seq(SUBSET Key) /\ D = Len(m.dirty) /\ D \in Nat
  BY SeqLen DEF Well, MapState, Depth
<1>2. d \in Seq(SUBSET Key) /\ Len(d) = D + 1 /\ d[D + 1] = {} /\ \A j \in 1 .. D : d[j] = m.dirty[j]
  <2>1. {} \in SUBSET Key
    OBVIOUS
  <2> QED
    BY <1>1, <2>1, SeqAppend
<1> HIDE DEF d
<1>3. /\ mm.dirty = d /\ mm.changes = m.changes /\ mm.client = m.client /\ mm.mode = m.mode
      /\ mm \in MapState
  BY <1>1, <1>2, Zenon DEF MapState, Started, d
<1>4. Depth(mm) = D + 1
  BY <1>2, <1>3 DEF Depth
<1> HIDE DEF D
<1>5. ASSUME NEW k \in Key
      PROVE  /\ Writers(mm, k, D + 1) = Writers(m, k, D)
             /\ \A i \in 0 .. D : Writers(mm, k, i) = Writers(m, k, i)
  <2>1. ASSUME NEW i \in 0 .. D PROVE Writers(mm, k, i) = Writers(m, k, i)
    <3>1. i \in Nat /\ \A j \in 1 .. i : k \in mm.dirty[j] <=> k \in m.dirty[j]
      BY <1>1, <1>2, <1>3, SMTT(30)
    <3> QED
      BY <3>1, WritersSame
  <2>2. Writers(mm, k, D + 1) = Writers(mm, k, D) + 0
    <3>1. k \notin mm.dirty[D + 1]
      BY <1>2, <1>3
    <3> QED
      BY <1>1, <3>1, WritersStep, SMTT(30)
  <2>3. D \in 0 .. D /\ Writers(mm, k, D) \in Nat
    BY <1>1, WritersNat
  <2> QED
    BY <2>1, <2>2, <2>3
<1>6. Well(mm)
  BY <1>3, <1>4, <1>5, WellFacts DEF Well, VersionsMatch, D
<1>7. ASSUME NEW k \in Key
      PROVE  /\ \A i \in 0 .. D : Seen(mm, k, i) = Seen(m, k, i)
             /\ Seen(mm, k, D + 1) = Seen(m, k, D)
  BY <1>3, <1>4, <1>5 DEF Seen, VersionsUpTo, D
<1>8. ASSUME NEW i \in 0 .. D PROVE ViewAt(mm, i) = ViewAt(m, i)
  BY <1>7, SameSeen
<1>9. ViewAt(mm, D + 1) = ViewAt(m, D)
  BY <1>7, SameSeen
<1> QED
  BY <1>3, <1>4, <1>6, <1>8, <1>9 DEF D

\* rollback_transaction and exit_runtime on one map: the transactions from n + 1
\* on are gone, and each key lost a version for each of them that wrote it.
Undone(m, mm, n) ==
  /\ mm \in MapState
  /\ mm.dirty = SubSeq(m.dirty, 1, n)
  /\ \A k \in Key :
       mm.changes[k] = SubSeq(m.changes[k], 1,
                              Len(m.changes[k]) - Cardinality({j \in n + 1 .. Depth(m) : k \in m.dirty[j]}))

LEMMA UndoneEffect ==
  ASSUME NEW m, Well(m), NEW n \in 0 .. Depth(m), NEW mm, Undone(m, mm, n)
  PROVE  /\ Well(mm) /\ Depth(mm) = n
         /\ \A i \in 0 .. n : ViewAt(mm, i) = ViewAt(m, i)
<1> DEFINE D == Depth(m)
<1>1. m \in MapState /\ m.dirty \in Seq(SUBSET Key) /\ D = Len(m.dirty) /\ D \in Nat
  BY SeqLen DEF Well, MapState, Depth
<1>2. Len(mm.dirty) = n /\ \A j \in 1 .. n : mm.dirty[j] = m.dirty[j]
  <2>1. \A j \in 1 .. n : m.dirty[j] \in SUBSET Key
    BY <1>1, SeqElement
  <2>2. mm.dirty = SubSeq(m.dirty, 1, n)
    BY DEF Undone
  <2> QED
    BY <1>1, <2>1, <2>2, SeqPrefix
<1>3. Depth(mm) = n
  BY <1>2 DEF Depth
<1> HIDE DEF D
<1>4. ASSUME NEW k \in Key
      PROVE  /\ Len(mm.changes[k]) - Writers(mm, k, n) \in {0, 1}
             /\ \A i \in 0 .. n : Seen(mm, k, i) = Seen(m, k, i)
  <2> DEFINE c == Cardinality({j \in n + 1 .. Depth(m) : k \in m.dirty[j]})
             v == m.changes[k]
             w == mm.changes[k]
             W(i) == Writers(m, k, i)
             l == Len(v) - c
  <2>1. c \in Nat /\ W(D) = W(n) + c /\ W(n) \in Nat
    <3>1. n \in Nat /\ D \in Nat /\ n <= D
      BY <1>1 DEF D
    <3>2. c \in Nat
      BY <3>1, WritersType, Zenon DEF D
    <3>3. W(n) \in Nat
      BY <3>1, WritersNat
    <3>4. W(D) = W(n) + c
      BY <3>1, WritersSplit DEF D
    <3> QED
      BY <3>2, <3>3, <3>4
  <2>2. v \in Seq(Version) /\ Len(v) \in Nat /\ Len(v) - W(D) \in {0, 1}
    BY WellFacts DEF D
  <2>3. w = SubSeq(v, 1, l)
    BY Zenon DEF Undone
  <2> HIDE DEF c, v, w, W
  <2>4. l \in Nat /\ l <= Len(v) /\ l - W(n) = Len(v) - W(D)
    BY <2>1, <2>2
  <2> HIDE DEF l
  <2>5. w \in Seq(Version) /\ Len(w) = l /\ \A j \in 1 .. l : w[j] = v[j]
    <3>1. \A j \in 1 .. l : v[j] \in Version
      BY <2>2, <2>4, SeqElement
    <3> QED
      BY <2>3, <2>4, <3>1, SeqPrefix
  <2>6. ASSUME NEW i \in 0 .. n PROVE Writers(mm, k, i) = W(i) /\ W(i) \in Nat /\ W(i) <= W(n)
    <3>1. i \in Nat /\ n \in Nat /\ i <= n /\ \A j \in 1 .. i : k \in mm.dirty[j] <=> k \in m.dirty[j]
      BY <1>1, <1>2 DEF D
    <3>2. Writers(mm, k, i) = W(i)
      BY <3>1, WritersSame DEF W
    <3> QED
      BY <3>1, <3>2, WritersMonotone DEF W
  <2>7. n \in 0 .. n /\ n \in Nat
    BY <1>1 DEF D
  <2>8. Len(w) - Writers(mm, k, n) \in {0, 1}
    BY <2>2, <2>4, <2>5, <2>6, <2>7
  <2>9. ASSUME NEW i \in 0 .. n PROVE Seen(mm, k, i) = Seen(m, k, i)
    <3> DEFINE u == (Len(v) - W(D)) + W(i)
    <3>1. Seen(m, k, i) = EntryAt(v, u)
      BY DEF Seen, VersionsUpTo, D, W, v
    <3>2. Seen(mm, k, i) = EntryAt(w, (Len(w) - Writers(mm, k, n)) + Writers(mm, k, i))
      BY <1>3 DEF Seen, VersionsUpTo, w
    <3>3. Writers(mm, k, n) = W(n) /\ Writers(mm, k, i) = W(i) /\ W(i) \in Nat /\ W(i) <= W(n)
      BY <2>6, <2>7
    <3>4. (Len(w) - Writers(mm, k, n)) + Writers(mm, k, i) = u
      BY <2>4, <2>5, <3>3
    <3>5. u \in Nat /\ u <= l
      BY <2>1, <2>2, <2>4, <3>3
    <3> HIDE DEF u
    <3>6. \A j \in 1 .. u : v[j] = w[j]
      BY <2>4, <2>5, <3>5
    <3>7. EntryAt(v, u) = EntryAt(w, u)
      BY <3>5, <3>6, EntryPrefix
    <3> QED
      BY <3>1, <3>2, <3>4, <3>7
  <2> QED
    BY <2>8, <2>9 DEF w
<1>5. Well(mm)
  BY <1>3, <1>4 DEF Well, Undone, VersionsMatch
<1>6. ASSUME NEW i \in 0 .. n PROVE ViewAt(mm, i) = ViewAt(m, i)
  BY <1>4, SameSeen
<1> QED
  BY <1>3, <1>5, <1>6

LEMMA PrefixIsSeq ==
  ASSUME NEW S, NEW v \in Seq(S), NEW n \in Int, n <= Len(v)
  PROVE  SubSeq(v, 1, n) \in Seq(S)
<1>1. \A j \in 1 .. n : v[j] \in S
  BY SeqElement, SeqLen
<1> QED
  BY <1>1, SeqPrefix

LEMMA RolledBackIsUndone ==
  ASSUME NEW m, Well(m), Depth(m) > 0, NEW mm, mm = RolledBack(m)
  PROVE  /\ Undone(m, mm, Depth(m) - 1)
         /\ mm.client = m.client /\ mm.mode = m.mode
<1> DEFINE D == Depth(m)
           c == [k \in Key |-> IF k \in Last(m.dirty) THEN Front(m.changes[k])
                               ELSE m.changes[k]]
           d == SubSeq(m.dirty, 1, D - 1)
<1>1. /\ m \in MapState /\ m.changes \in [Key -> Seq(Version)] /\ m.dirty \in Seq(SUBSET Key)
      /\ D = Len(m.dirty) /\ D \in Nat /\ D > 0
  BY SeqLen DEF Well, MapState, Depth
<1>2. mm = [m EXCEPT !.changes = c, !.dirty = d]
  BY <1>1 DEF RolledBack, Front, Depth
<1>3. d \in Seq(SUBSET Key)
  BY <1>1, PrefixIsSeq
<1>4. ASSUME NEW k \in Key
      PROVE  /\ c[k] \in Seq(Version)
             /\ c[k] = SubSeq(m.changes[k], 1,
                             Len(m.changes[k]) - Cardinality({j \in (D - 1) + 1 .. D : k \in m.dirty[j]}))
  <2> DEFINE v == m.changes[k]
             S == {j \in (D - 1) + 1 .. D : k \in m.dirty[j]}
  <2>1. v \in Seq(Version) /\ Len(v) \in Nat
    BY <1>1, SeqLen
  <2>2. CASE k \in m.dirty[D]
    <3>1. S = {D}
      BY <1>1, <2>2
    <3>2. Cardinality(S) = 1
      <4> HIDE DEF S
      <4> QED
        BY <3>1, FS_Singleton
    <3>3. c[k] = SubSeq(v, 1, Len(v) - 1)
      BY <1>1, <2>2 DEF Last, Front, Depth
    <3>4. SubSeq(v, 1, Len(v) - 1) \in Seq(Version)
      BY <2>1, PrefixIsSeq
    <3> HIDE DEF S, v, c
    <3> QED
      BY <3>2, <3>3, <3>4, Zenon DEF S, v
  <2>3. CASE k \notin m.dirty[D]
    <3>1. S = {}
      BY <1>1, <2>3
    <3>2. Cardinality(S) = 0
      <4> HIDE DEF S
      <4> QED
        BY <3>1, FS_EmptySet
    <3>3. c[k] = v
      BY <1>1, <2>3 DEF Last, Depth
    <3>4. SubSeq(v, 1, Len(v)) = v /\ Len(v) - 0 = Len(v)
      BY <2>1, SeqWhole
    <3> HIDE DEF S, v, c
    <3> QED
      BY <2>1, <3>2, <3>3, <3>4 DEF S, v
  <2> QED
    BY <2>2, <2>3
<1>5. /\ mm = [changes |-> c, dirty |-> d, client |-> m.client, mode |-> m.mode]
      /\ mm.changes = c /\ mm.dirty = d /\ mm.client = m.client /\ mm.mode = m.mode
  <2> HIDE DEF c, d
  <2> QED
    BY <1>1, <1>2, Zenon DEF MapState
<1>6. c \in [Key -> Seq(Version)]
  BY <1>4, Zenon
<1> HIDE DEF c
<1>7. mm \in MapState
  BY <1>1, <1>3, <1>5, <1>6 DEF MapState
<1> QED
  BY <1>4, <1>5, <1>7, ZenonT(60) DEF Undone

LEMMA ExitedIsUndone ==
  ASSUME NEW m, Well(m), m.client <= Depth(m), NEW mm, mm = Exited(m)
  PROVE  /\ Undone(m, mm, m.client)
         /\ mm.client = m.client /\ mm.mode = "client"
<1> DEFINE D == Depth(m)
           n == m.client
           dangling(k) == Cardinality({i \in n + 1 .. D : k \in m.dirty[i]})
           c == [k \in Key |-> SubSeq(m.changes[k], 1, Len(m.changes[k]) - dangling(k))]
           d == SubSeq(m.dirty, 1, n)
<1>1. /\ m \in MapState /\ m.changes \in [Key -> Seq(Version)] /\ m.dirty \in Seq(SUBSET Key)
      /\ D = Len(m.dirty) /\ D \in Nat /\ n \in Nat /\ n <= D
  BY SeqLen DEF Well, MapState, Depth
<1>2. mm = [m EXCEPT !.mode = "client", !.changes = c, !.dirty = d]
  BY DEF Exited
<1>3. d \in Seq(SUBSET Key)
  BY <1>1, PrefixIsSeq
<1>4. c \in [Key -> Seq(Version)]
  <2> SUFFICES ASSUME NEW k \in Key
               PROVE  SubSeq(m.changes[k], 1, Len(m.changes[k]) - dangling(k)) \in Seq(Version)
    BY Zenon
  <2>1. dangling(k) \in Nat
    BY <1>1, WritersType, Zenon
  <2>2. m.changes[k] \in Seq(Version) /\ Len(m.changes[k]) \in Nat
    BY <1>1, SeqLen
  <2> DEFINE l == Len(m.changes[k]) - dangling(k)
  <2>3. l \in Int /\ l <= Len(m.changes[k])
    <3> HIDE DEF dangling
    <3> QED
      BY <2>1, <2>2
  <2> HIDE DEF l
  <2>4. SubSeq(m.changes[k], 1, l) \in Seq(Version)
    BY <2>2, <2>3, PrefixIsSeq
  <2> QED
    BY <2>4 DEF l
<1>5. /\ mm = [changes |-> c, dirty |-> d, client |-> n, mode |-> "client"]
      /\ mm.changes = c /\ mm.dirty = d /\ mm.client = n /\ mm.mode = "client"
  <2> HIDE DEF c, d
  <2> QED
    BY <1>1, <1>2, Zenon DEF MapState
<1>6. mm \in MapState
  <2> HIDE DEF c, d
  <2> QED
    BY <1>1, <1>3, <1>4, <1>5 DEF MapState
<1> QED
  BY <1>5, <1>6, Zenon DEF Undone

LEMMA MergedVersions ==
  ASSUME NEW v \in Seq(Version), Len(v) >= 2, NEW w, w = Merged(v)
  PROVE  /\ w \in Seq(Version) /\ Len(w) = Len(v) - 1
         /\ \A j \in 1 .. Len(v) - 2 : w[j] = v[j]
         /\ EntryAt(w, Len(w)) = EntryAt(v, Len(v))
<1> DEFINE n == Len(v)
           t == SubSeq(v, 1, n - 2)
           e == [ value |-> v[n].value, extrinsics |-> v[n - 1].extrinsics \cup v[n].extrinsics ]
<1>1. n \in Nat /\ n >= 2 /\ \A j \in 1 .. n : v[j] \in Version
  BY SeqElement, SeqLen
<1>2. v[n] \in Version /\ v[n - 1] \in Version
  BY <1>1
<1>3. e \in Version /\ e.value = v[n].value /\ e.extrinsics = v[n - 1].extrinsics \cup v[n].extrinsics
  BY <1>2 DEF Version
<1>4. t \in Seq(Version) /\ Len(t) = n - 2 /\ \A j \in 1 .. n - 2 : t[j] = v[j]
  <2> DEFINE l == n - 2
  <2>1. l \in Nat /\ \A j \in 1 .. l : v[j] \in Version
    BY <1>1
  <2> HIDE DEF l
  <2>2. SubSeq(v, 1, l) \in Seq(Version) /\ Len(SubSeq(v, 1, l)) = l
        /\ \A j \in 1 .. l : SubSeq(v, 1, l)[j] = v[j]
    BY <2>1, SeqPrefix
  <2> QED
    BY <2>2 DEF l
<1>5. w = Append(t, e)
  BY DEF Merged
<1> HIDE DEF t, e
<1>6. /\ w \in Seq(Version) /\ Len(w) = n - 1 /\ w[n - 1] = e
      /\ \A j \in 1 .. n - 2 : w[j] = v[j]
  <2>1. w \in Seq(Version) /\ Len(w) = Len(t) + 1 /\ w[Len(t) + 1] = e
        /\ \A j \in 1 .. Len(t) : w[j] = t[j]
    BY <1>3, <1>4, <1>5, SeqAppend
  <2>2. Len(t) + 1 = n - 1
    BY <1>1, <1>4
  <2> QED
    BY <1>4, <2>1, <2>2
<1> HIDE DEF n
<1>7. WrittenBy(w, n - 1) = WrittenBy(v, n)
  <2>1. ASSUME NEW x, x \in WrittenBy(w, n - 1) PROVE x \in WrittenBy(v, n)
    <3>1. PICK j \in 1 .. n - 1 : x \in w[j].extrinsics
      BY <2>1 DEF WrittenBy
    <3>2. CASE j \in 1 .. n - 2
      BY <1>1, <1>6, <3>1, <3>2 DEF WrittenBy
    <3>3. CASE j = n - 1
      BY <1>1, <1>3, <1>6, <3>1, <3>3 DEF WrittenBy
    <3> QED
      BY <1>1, <3>2, <3>3
  <2>2. ASSUME NEW x, x \in WrittenBy(v, n) PROVE x \in WrittenBy(w, n - 1)
    <3>1. PICK j \in 1 .. n : x \in v[j].extrinsics
      BY <2>2 DEF WrittenBy
    <3>2. CASE j \in 1 .. n - 2
      BY <1>1, <1>6, <3>1, <3>2 DEF WrittenBy
    <3>3. CASE j \in {n - 1, n}
      <4>1. x \in w[n - 1].extrinsics /\ n - 1 \in 1 .. n - 1
        BY <1>1, <1>3, <1>6, <3>1, <3>3
      <4> QED
        BY <4>1 DEF WrittenBy
    <3> QED
      BY <1>1, <3>2, <3>3
  <2> QED
    BY <2>1, <2>2, Zenon
<1>8. EntryAt(w, n - 1) = EntryAt(v, n)
  <2>1. n - 1 # 0 /\ n # 0 /\ w[n - 1].value = v[n].value
    BY <1>1, <1>3, <1>6, SMTT(30)
  <2> QED
    BY <1>7, <2>1 DEF EntryAt
<1> QED
  BY <1>6, <1>8 DEF n

LEMMA CommittedState ==
  ASSUME NEW m, Well(m), Depth(m) > 0, NEW mm, mm = Committed(m)
  PROVE  /\ mm.changes = [k \in Key |-> IF k \in m.dirty[Depth(m)] /\ HasPredecessor(m, k)
                                        THEN Merged(m.changes[k]) ELSE m.changes[k]]
         /\ mm.dirty \in Seq(SUBSET Key) /\ Len(mm.dirty) = Depth(m) - 1
         /\ \A j \in 1 .. Depth(m) - 2 : mm.dirty[j] = m.dirty[j]
         /\ Depth(m) > 1 =>
              mm.dirty[Depth(m) - 1] = m.dirty[Depth(m) - 1] \cup m.dirty[Depth(m)]
         /\ mm = [changes |-> mm.changes, dirty |-> mm.dirty, client |-> m.client, mode |-> m.mode]
<1> DEFINE D == Depth(m)
           written == m.dirty[D]
           outer == SubSeq(m.dirty, 1, D - 1)
           c == [k \in Key |-> IF k \in written /\ HasPredecessor(m, k)
                               THEN Merged(m.changes[k]) ELSE m.changes[k]]
           d == IF outer = <<>> THEN <<>> ELSE [outer EXCEPT ![Len(outer)] = @ \cup written]
<1>1. m \in MapState /\ m.dirty \in Seq(SUBSET Key) /\ D = Len(m.dirty) /\ D \in Nat /\ D > 0
  BY SeqLen DEF Well, MapState, Depth
<1>2. mm = [m EXCEPT !.changes = c, !.dirty = d]
  BY <1>1 DEF Committed, Last, Front, Depth
<1>3. /\ mm = [changes |-> c, dirty |-> d, client |-> m.client, mode |-> m.mode]
      /\ mm.changes = c /\ mm.dirty = d
  <2> HIDE DEF c, d
  <2> QED
    BY <1>1, <1>2, Zenon DEF MapState
<1>4. /\ d \in Seq(SUBSET Key) /\ Len(d) = D - 1
      /\ \A j \in 1 .. D - 2 : d[j] = m.dirty[j]
      /\ D > 1 => d[D - 1] = m.dirty[D - 1] \cup m.dirty[D]
  <2> DEFINE l == D - 1
  <2>1. l \in Nat /\ l <= D /\ D - 2 = l - 1 /\ \A j \in 1 .. D : m.dirty[j] \in SUBSET Key
    BY <1>1, SeqElement
  <2> HIDE DEF l, D
  <2>2. \A j \in 1 .. l : m.dirty[j] \in SUBSET Key
    BY <1>1, <2>1
  <2>3. outer \in Seq(SUBSET Key) /\ Len(outer) = l /\ \A j \in 1 .. l : outer[j] = m.dirty[j]
    <3>1. outer = SubSeq(m.dirty, 1, l)
      BY DEF l
    <3> HIDE DEF outer
    <3>2. /\ SubSeq(m.dirty, 1, l) \in Seq(SUBSET Key) /\ Len(SubSeq(m.dirty, 1, l)) = l
          /\ \A j \in 1 .. l : SubSeq(m.dirty, 1, l)[j] = m.dirty[j]
      BY <2>1, <2>2, SeqPrefix
    <3> QED
      BY <3>1, <3>2
  <2>4. CASE l = 0
    <3>1. outer = <<>>
      BY <2>3, <2>4, SeqNotEmpty
    <3>2. d = <<>>
      BY <3>1
    <3>3. D = 1
      <4>1. D \in Nat /\ l = D - 1
        BY <1>1 DEF l
      <4> QED
        BY <2>4, <4>1
    <3>4. ~(D > 1) /\ 1 .. D - 2 = {} /\ <<>> \in Seq(SUBSET Key) /\ Len(<<>>) = D - 1
      BY <3>3
    <3> HIDE DEF d
    <3> QED
      BY <3>2, <3>4
  <2>5. CASE l # 0
    <3>1. outer # <<>> /\ l \in 1 .. l
      <4> HIDE DEF outer
      <4>1. Len(outer) # 0
        BY <2>3, <2>5
      <4> QED
        BY <2>1, <2>5, <4>1
    <3>2. outer[l] = m.dirty[l]
      BY <2>3, <3>1
    <3>3. m.dirty[l] \in SUBSET Key /\ written \in SUBSET Key
      BY <1>1, <2>1, <2>2, <3>1
    <3>4. d = [outer EXCEPT ![l] = m.dirty[l] \cup written]
      BY <2>3, <3>1, <3>2, Zenon
    <3> HIDE DEF d, outer, written
    <3>5. m.dirty[l] \cup written \in SUBSET Key
      BY <3>3
    <3>6. /\ d \in Seq(SUBSET Key) /\ Len(d) = Len(outer)
          /\ \A j \in 1 .. Len(outer) : d[j] = IF j = l THEN m.dirty[l] \cup written ELSE outer[j]
      BY <2>3, <3>1, <3>4, <3>5, SeqReplace
    <3>7. d[l] = m.dirty[l] \cup written
      BY <2>3, <3>1, <3>6
    <3>8. ASSUME NEW j \in 1 .. l - 1 PROVE d[j] = m.dirty[j]
      <4>1. j \in 1 .. l /\ j # l
        BY <2>1
      <4> QED
        BY <2>3, <3>6, <4>1
    <3> QED
      BY <2>1, <2>3, <3>6, <3>7, <3>8 DEF l, written
  <2> QED
    BY <2>4, <2>5, Zenon
<1> HIDE DEF d
<1> QED
  BY <1>3, <1>4

LEMMA CommittedKey ==
  ASSUME NEW m, Well(m), Depth(m) > 0, NEW mm, mm = Committed(m),
         NEW k \in Key, NEW D, D = Depth(m)
  PROVE  /\ mm.changes[k] \in Seq(Version)
         /\ Len(mm.changes[k]) - Writers(mm, k, D - 1) \in {0, 1}
         /\ \A i \in 0 .. D - 2 : Seen(mm, k, i) = Seen(m, k, i)
         /\ Seen(mm, k, D - 1) = Seen(m, k, D)
<1> DEFINE v == m.changes[k]
           w == mm.changes[k]
           W(i) == Writers(m, k, i)
           WW(i) == Writers(mm, k, i)
           n(i) == VersionsUpTo(m, k, i)
           merge == k \in m.dirty[D] /\ HasPredecessor(m, k)
<1>1. /\ w = IF merge THEN Merged(v) ELSE v
      /\ \A j \in 1 .. D - 2 : mm.dirty[j] = m.dirty[j]
      /\ D > 1 => mm.dirty[D - 1] = m.dirty[D - 1] \cup m.dirty[D]
      /\ Depth(mm) = D - 1
  <2>1. Depth(mm) = Len(mm.dirty)
    BY DEF Depth
  <2>2. /\ mm.changes = [l \in Key |-> IF l \in m.dirty[D] /\ HasPredecessor(m, l)
                                       THEN Merged(m.changes[l]) ELSE m.changes[l]]
        /\ Len(mm.dirty) = D - 1
        /\ \A j \in 1 .. D - 2 : mm.dirty[j] = m.dirty[j]
        /\ D > 1 => mm.dirty[D - 1] = m.dirty[D - 1] \cup m.dirty[D]
    BY CommittedState, SMTT(30)
  <2>3. w = IF merge THEN Merged(v) ELSE v
    BY <2>2
  <2> QED
    BY <2>1, <2>2, <2>3
<1>2. /\ v \in Seq(Version) /\ Len(v) \in Nat /\ D \in Nat /\ D > 0 /\ W(D) \in Nat
      /\ Len(v) - W(D) \in {0, 1}
  BY WellFacts
<1>3. Seen(m, k, D) = EntryAt(v, Len(v))
  BY <1>2, VersionsBounds DEF Seen
<1>4. ASSUME NEW i \in Nat
      PROVE  /\ Seen(mm, k, i) = EntryAt(w, (Len(w) - WW(D - 1)) + WW(i))
             /\ Seen(m, k, i) = EntryAt(v, n(i))
             /\ n(i) = (Len(v) - W(D)) + W(i)
  BY <1>1 DEF Seen, VersionsUpTo
<1>5. ASSUME NEW i \in 0 .. D - 2
      PROVE  WW(i) = W(i) /\ W(i) \in Nat
  <2>1. i \in Nat /\ \A j \in 1 .. i : j \in 1 .. D - 2
    BY <1>2
  <2>2. \A j \in 1 .. i : k \in mm.dirty[j] <=> k \in m.dirty[j]
    BY <1>1, <2>1
  <2> QED
    BY <2>1, <2>2, WritersSame, WritersNat
<1>6. HasPredecessor(m, k) <=> IF D > 1 THEN k \in m.dirty[D - 1] ELSE Len(v) > 1
  BY DEF HasPredecessor
<1>7. D - 1 \in Nat
  BY <1>2
<1> HIDE DEF v, w, W, WW, n
<1>8. ASSUME merge, Len(v) >= 2
      PROVE  /\ w \in Seq(Version) /\ Len(w) = Len(v) - 1
             /\ \A j \in 1 .. Len(v) - 2 : w[j] = v[j]
             /\ EntryAt(w, Len(w)) = EntryAt(v, Len(v))
  BY <1>1, <1>2, <1>8, MergedVersions
<1>9. ASSUME Len(w) \in Nat, WW(D - 1) \in Nat, EntryAt(w, Len(w)) = EntryAt(v, Len(v))
      PROVE  Seen(mm, k, D - 1) = Seen(m, k, D)
  <2>1. (Len(w) - WW(D - 1)) + WW(D - 1) = Len(w)
    BY <1>9
  <2> QED
    BY <1>3, <1>4, <1>7, <1>9, <2>1
<1>10. WW(D - 1) \in Nat
  BY <1>7, WritersNat DEF WW
<1>11. CASE D = 1
  <2>1. WW(D - 1) = 0
    BY <1>11, WritersZero DEF WW
  <2>2. W(D) = IF k \in m.dirty[D] THEN 1 ELSE 0
    <3>1. W(0 + 1) = W(0) + (IF k \in m.dirty[0 + 1] THEN 1 ELSE 0)
      BY WritersStep DEF W
    <3>2. W(0) = 0
      BY WritersZero DEF W
    <3> QED
      BY <1>11, <3>1, <3>2
  <2>3. 0 .. D - 2 = {}
    BY <1>11
  <2>4. CASE merge
    <3>1. Len(v) > 1 /\ k \in m.dirty[D]
      BY <1>6, <1>11, <2>4
    <3>2. W(D) = 1
      BY <2>2, <3>1
    <3>3. Len(v) = 2
      <4>1. \A l \in Nat : l > 1 /\ l - 1 \in {0, 1} => l = 2
        OBVIOUS
      <4>2. Len(v) \in Nat /\ Len(v) - 1 \in {0, 1}
        BY <1>2, <3>2
      <4> QED
        BY <3>1, <4>1, <4>2, Zenon
    <3>4. w \in Seq(Version) /\ Len(w) = 1 /\ EntryAt(w, Len(w)) = EntryAt(v, Len(v))
      BY <1>8, <2>4, <3>3
    <3>5. Seen(mm, k, D - 1) = Seen(m, k, D)
      BY <1>9, <1>10, <3>4
    <3> QED
      BY <2>1, <2>3, <3>4, <3>5, SMTT(30) DEF w, WW
  <2>5. CASE ~merge
    <3>1. w = v
      BY <1>1, <2>5
    <3>2. Len(v) \in {0, 1}
      <4>1. CASE k \in m.dirty[D]
        <5>1. ~(Len(v) > 1)
          BY <1>6, <1>11, <2>5, <4>1
        <5>2. \A l \in Nat : ~(l > 1) => l \in {0, 1}
          OBVIOUS
        <5>3. Len(v) \in Nat
          BY <1>2
        <5> QED
          BY <5>1, <5>2, <5>3, Zenon
      <4>2. CASE k \notin m.dirty[D]
        <5>1. W(D) = 0
          BY <2>2, <4>2
        <5> QED
          BY <1>2, <5>1
      <4> QED
        BY <4>1, <4>2
    <3>3. Seen(mm, k, D - 1) = Seen(m, k, D)
      BY <1>2, <1>9, <1>10, <3>1
    <3>4. Len(w) - WW(D - 1) \in {0, 1}
      BY <2>1, <3>1, <3>2
    <3> QED
      BY <1>2, <2>3, <3>1, <3>3, <3>4 DEF w, WW
  <2> QED
    BY <2>4, <2>5
<1>12. CASE D > 1
  <2> DEFINE c == D - 2
             a == IF k \in m.dirty[D - 1] THEN 1 ELSE 0
             b == IF k \in m.dirty[D] THEN 1 ELSE 0
  <2>1. c \in Nat /\ c + 1 = D - 1 /\ (D - 1) + 1 = D /\ c \in 0 .. D - 2
    BY <1>2, <1>12
  <2>2. WW(c) = W(c) /\ W(c) \in Nat
    BY <1>5, <2>1
  <2> HIDE DEF c
  <2>3. W(D - 1) = W(c) + a
    <3>1. W(c + 1) = W(c) + (IF k \in m.dirty[c + 1] THEN 1 ELSE 0)
      BY <2>1, WritersStep DEF W
    <3> QED
      BY <2>1, <3>1
  <2>4. W(D) = W(D - 1) + b
    <3>1. W((D - 1) + 1) = W(D - 1) + (IF k \in m.dirty[(D - 1) + 1] THEN 1 ELSE 0)
      BY <1>7, WritersStep DEF W
    <3> QED
      BY <2>1, <3>1
  <2>5. WW(D - 1) = W(c) + (IF k \in m.dirty[D - 1] \/ k \in m.dirty[D] THEN 1 ELSE 0)
    <3>1. WW(c + 1) = WW(c) + (IF k \in mm.dirty[c + 1] THEN 1 ELSE 0)
      BY <2>1, WritersStep DEF WW
    <3>2. k \in mm.dirty[D - 1] <=> k \in m.dirty[D - 1] \/ k \in m.dirty[D]
      BY <1>1, <1>12
    <3> QED
      BY <2>1, <2>2, <3>1, <3>2
  <2>6. ASSUME NEW i \in 0 .. D - 2 PROVE i \in Nat /\ WW(i) = W(i) /\ W(i) \in Nat /\ W(i) <= W(c)
    <3>1. i \in Nat /\ i <= c
      BY <1>2 DEF c
    <3>2. W(i) <= W(c)
      BY <2>1, <3>1, WritersMonotone, SMTT(30) DEF W
    <3> QED
      BY <1>5, <3>1, <3>2
  <2>7. CASE merge
    <3>1. a = 1 /\ b = 1 /\ k \in m.dirty[D]
      BY <1>6, <1>12, <2>7
    <3>2. W(D) = W(c) + 2 /\ WW(D - 1) = W(c) + 1
      BY <2>2, <2>3, <2>4, <2>5, <3>1
    <3>3. Len(v) >= W(c) + 2 /\ Len(v) >= 2
      BY <1>2, <2>2, <3>2
    <3>4. /\ w \in Seq(Version) /\ Len(w) = Len(v) - 1
          /\ \A j \in 1 .. Len(v) - 2 : w[j] = v[j]
          /\ EntryAt(w, Len(w)) = EntryAt(v, Len(v))
      BY <1>8, <2>7, <3>3
    <3>5. Len(w) - WW(D - 1) = Len(v) - W(D) /\ Len(w) \in Nat
      BY <1>2, <2>2, <3>2, <3>3, <3>4, SMTT(30)
    <3>6. ASSUME NEW i \in 0 .. D - 2 PROVE Seen(mm, k, i) = Seen(m, k, i)
      <4>1. n(i) \in Nat /\ n(i) <= Len(v) - 2
        <5>1. n(i) = (Len(v) - W(D)) + W(i) /\ W(i) \in Nat /\ W(i) <= W(c)
          BY <1>4, <2>6
        <5>2. Len(v) - W(D) \in {0, 1} /\ Len(v) - W(D) = Len(v) - (W(c) + 2)
          BY <1>2, <3>2
        <5> QED
          BY <1>2, <2>2, <5>1, <5>2, SMTT(30)
      <4>2. \A j \in 1 .. n(i) : v[j] = w[j]
        BY <1>2, <3>4, <4>1, SMTT(30)
      <4>3. Seen(mm, k, i) = EntryAt(w, n(i)) /\ Seen(m, k, i) = EntryAt(v, n(i))
        BY <1>4, <2>6, <3>5
      <4> QED
        BY <4>1, <4>2, <4>3, EntryPrefix
    <3>7. Seen(mm, k, D - 1) = Seen(m, k, D)
      BY <1>9, <1>10, <3>4, <3>5, SMTT(30)
    <3> QED
      BY <1>2, <3>4, <3>5, <3>6, <3>7, SMTT(30) DEF w, WW
  <2>8. CASE ~merge
    <3>1. w = v /\ ~(k \in m.dirty[D] /\ k \in m.dirty[D - 1])
      BY <1>1, <1>6, <1>12, <2>8, SMTT(30)
    <3>2. WW(D - 1) = W(D)
      BY <2>2, <2>3, <2>4, <2>5, <3>1, SMTT(30)
    <3>3. ASSUME NEW i \in 0 .. D - 2 PROVE Seen(mm, k, i) = Seen(m, k, i)
      BY <1>4, <2>6, <3>1, <3>2, SMTT(30)
    <3>4. Seen(mm, k, D - 1) = Seen(m, k, D)
      BY <1>2, <1>9, <1>10, <3>1
    <3> QED
      BY <1>2, <3>1, <3>2, <3>3, <3>4, SMTT(30) DEF w, WW
  <2> QED
    BY <2>7, <2>8
<1> QED
  BY <1>2, <1>11, <1>12, SMTT(30)

LEMMA CommittedEffect ==
  ASSUME NEW m, Well(m), Depth(m) > 0, NEW mm, mm = Committed(m)
  PROVE  /\ Well(mm) /\ Depth(mm) = Depth(m) - 1
         /\ mm.client = m.client /\ mm.mode = m.mode
         /\ \A i \in 0 .. Depth(m) - 2 : ViewAt(mm, i) = ViewAt(m, i)
         /\ ViewAt(mm, Depth(m) - 1) = ViewAt(m, Depth(m))
<1> DEFINE D == Depth(m)
<1>1. /\ DOMAIN mm.changes = Key /\ mm.changes = [k \in Key |-> mm.changes[k]]
      /\ mm.dirty \in Seq(SUBSET Key) /\ Depth(mm) = D - 1
      /\ mm = [changes |-> mm.changes, dirty |-> mm.dirty, client |-> m.client, mode |-> m.mode]
  <2> DEFINE c == [k \in Key |-> IF k \in m.dirty[D] /\ HasPredecessor(m, k)
                                 THEN Merged(m.changes[k]) ELSE m.changes[k]]
  <2>1. Depth(mm) = Len(mm.dirty)
    BY DEF Depth
  <2>2. /\ mm.changes = c /\ mm.dirty \in Seq(SUBSET Key) /\ Len(mm.dirty) = D - 1
        /\ mm = [changes |-> mm.changes, dirty |-> mm.dirty, client |-> m.client, mode |-> m.mode]
    BY CommittedState
  <2>3. DOMAIN c = Key /\ c = [k \in Key |-> c[k]]
    OBVIOUS
  <2> HIDE DEF c
  <2> QED
    BY <2>1, <2>2, <2>3
<1>2. ASSUME NEW k \in Key
      PROVE  /\ mm.changes[k] \in Seq(Version)
             /\ Len(mm.changes[k]) - Writers(mm, k, D - 1) \in {0, 1}
             /\ \A i \in 0 .. D - 2 : Seen(mm, k, i) = Seen(m, k, i)
             /\ Seen(mm, k, D - 1) = Seen(m, k, D)
  BY CommittedKey
<1>3. mm.changes \in [Key -> Seq(Version)]
  BY <1>1, <1>2
<1>4. m.client \in Nat /\ m.mode \in {"client", "runtime"}
  BY DEF Well, MapState
<1> HIDE DEF D
<1>5. mm \in MapState /\ mm.client = m.client /\ mm.mode = m.mode
  BY <1>1, <1>3, <1>4 DEF MapState
<1>6. Well(mm)
  BY <1>1, <1>2, <1>5 DEF Well, VersionsMatch
<1>7. ASSUME NEW i \in 0 .. D - 2 PROVE ViewAt(mm, i) = ViewAt(m, i)
  BY <1>2, SameSeen
<1>8. ViewAt(mm, D - 1) = ViewAt(m, D)
  BY <1>2, SameSeen
<1> QED
  BY <1>1, <1>5, <1>6, <1>7, <1>8 DEF D

-----------------------------------------------------------------------------
(***************************************************************************)
(* The remaining operations on one map                                     *)
(***************************************************************************)
\* The innermost view has an entry exactly for the keys that have a version.
LEMMA TopEntry ==
  ASSUME NEW m, Well(m), NEW k \in Key
  PROVE  ViewAt(m, Depth(m))[k] # Unknown <=> m.changes[k] # <<>>
<1> DEFINE v == m.changes[k]
<1>1. v \in Seq(Version) /\ Len(v) \in Nat /\ Depth(m) \in Nat
  BY WellFacts
<1>2. ViewAt(m, Depth(m))[k] = EntryAt(v, Len(v))
  <2>1. Depth(m) \in 0 .. Depth(m)
    BY <1>1
  <2> QED
    BY <2>1, ViewIsSeen, VersionsBounds DEF Seen
<1> HIDE DEF v
<1>3. CASE v = <<>>
  <2>1. Len(v) = 0
    BY <1>3
  <2> QED
    BY <1>2, <1>3, <2>1 DEF EntryAt, v
<1>4. CASE v # <<>>
  <2>1. Len(v) \in 1 .. Len(v)
    BY <1>1, <1>4, SeqNotEmpty
  <2> QED
    BY <1>1, <1>2, <1>4, <2>1, EntryType DEF v
<1> QED
  BY <1>3, <1>4

\* Every view of a map without entries is empty.
LEMMA EmptyView ==
  ASSUME NEW m, Well(m), IsEmpty(m), NEW i \in 0 .. Depth(m)
  PROVE  ViewAt(m, i) = [k \in Key |-> Unknown]
<1> SUFFICES ASSUME NEW k \in Key PROVE Seen(m, k, i) = Unknown
  BY ViewIsSeen
<1>1. Len(m.changes[k]) = 0
  <2>1. m.changes[k] = <<>>
    BY DEF IsEmpty
  <2> QED
    BY <2>1
<1>2. VersionsUpTo(m, k, i) \in 0 .. 0
  BY <1>1, VersionsBounds
<1> QED
  BY <1>2 DEF Seen, EntryAt

LEMMA ViewType ==
  ASSUME NEW m, Well(m), NEW i \in 0 .. Depth(m)
  PROVE  ViewAt(m, i) \in [Key -> ViewEntry \cup {Unknown}]
<1> SUFFICES ASSUME NEW k \in Key PROVE Seen(m, k, i) \in ViewEntry \cup {Unknown}
  BY ViewIsSeen
<1>1. m.changes[k] \in Seq(Version) /\ Len(m.changes[k]) \in Nat
  BY WellFacts
<1> DEFINE n == VersionsUpTo(m, k, i)
<1>2. n \in 0 .. Len(m.changes[k])
  BY VersionsBounds
<1>3. Seen(m, k, i) = EntryAt(m.changes[k], n)
  BY DEF Seen
<1> HIDE DEF n
<1>4. CASE n = 0
  BY <1>3, <1>4 DEF EntryAt
<1>5. CASE n # 0
  <2>1. n \in 1 .. Len(m.changes[k])
    BY <1>1, <1>2, <1>5
  <2> QED
    BY <1>1, <1>3, <2>1, EntryType
<1> QED
  BY <1>4, <1>5

\* Maps without entries, whatever transactions are open, are well formed.
LEMMA NoEntriesWell ==
  ASSUME NEW m \in MapState, \A k \in Key : m.changes[k] = <<>>,
         \A i \in 1 .. Len(m.dirty) : m.dirty[i] = {}
  PROVE  Well(m) /\ IsEmpty(m)
<1> SUFFICES ASSUME NEW k \in Key
             PROVE  Len(m.changes[k]) - Writers(m, k, Depth(m)) \in {0, 1}
  BY DEF Well, VersionsMatch, IsEmpty
<1>1. Len(m.changes[k]) = 0
  <2>1. m.changes[k] = <<>>
    OBVIOUS
  <2> QED
    BY <2>1
<1>2. {j \in 1 .. Depth(m) : k \in m.dirty[j]} = {}
  BY DEF Depth
<1>3. Writers(m, k, Depth(m)) = 0
  BY <1>2, FS_EmptySet, Zenon DEF Writers
<1> QED
  BY <1>1, <1>3

LEMMA EmptyMapEffect ==
  /\ Well(EmptyMap) /\ IsEmpty(EmptyMap) /\ Depth(EmptyMap) = 0
  /\ EmptyMap.client = 0 /\ EmptyMap.mode = "client"
<1> DEFINE m == EmptyMap
<1>1. /\ m.changes = [k \in Key |-> <<>>] /\ m.dirty = <<>> /\ m.client = 0 /\ m.mode = "client"
      /\ m = [changes |-> m.changes, dirty |-> m.dirty, client |-> m.client, mode |-> m.mode]
  BY DEF EmptyMap
<1>2. <<>> \in Seq(Version) /\ <<>> \in Seq(SUBSET Key)
  OBVIOUS
<1> HIDE DEF m
<1>3. m.changes \in [Key -> Seq(Version)]
  BY <1>1, <1>2
<1>4. m \in MapState
  <2>1. m.dirty \in Seq(SUBSET Key) /\ m.client \in Nat /\ m.mode \in {"client", "runtime"}
    BY <1>1, <1>2
  <2>2. m = [changes |-> m.changes, dirty |-> m.dirty, client |-> m.client, mode |-> m.mode]
    BY <1>1
  <2> QED
    BY <1>3, <2>1, <2>2 DEF MapState
<1>5. Len(m.dirty) = 0
  BY <1>1
<1>6. Well(m) /\ IsEmpty(m)
  BY <1>1, <1>4, <1>5, NoEntriesWell
<1> QED
  BY <1>1, <1>5, <1>6 DEF m, Depth

LEMMA SpawnEffect ==
  ASSUME NEW m, Well(m), NEW mm, mm = SpawnChild(m)
  PROVE  /\ Well(mm) /\ IsEmpty(mm) /\ Depth(mm) = Depth(m)
         /\ mm.client = m.client /\ mm.mode = m.mode
<1> DEFINE d == [i \in DOMAIN m.dirty |-> {}]
           c == [k \in Key |-> <<>>]
<1>1. m \in MapState /\ m.dirty \in Seq(SUBSET Key) /\ Len(m.dirty) \in Nat
  BY SeqLen DEF Well, MapState
<1>2. d \in Seq(SUBSET Key) /\ Len(d) = Len(m.dirty) /\ \A i \in 1 .. Len(d) : d[i] = {}
  <2>1. DOMAIN m.dirty = 1 .. Len(m.dirty)
    BY <1>1, SeqLen
  <2> QED
    BY <1>1, <2>1
<1>3. c \in [Key -> Seq(Version)] /\ \A k \in Key : c[k] = <<>>
  OBVIOUS
<1>4. mm = [m EXCEPT !.changes = c, !.dirty = d]
  BY DEF SpawnChild, EmptyMap
<1> HIDE DEF c, d
<1>5. /\ mm \in MapState /\ mm.changes = c /\ mm.dirty = d
      /\ mm.client = m.client /\ mm.mode = m.mode
  BY <1>1, <1>2, <1>3, <1>4, ZenonT(60) DEF MapState
<1>6. Well(mm) /\ IsEmpty(mm)
  BY <1>2, <1>3, <1>5, NoEntriesWell
<1> QED
  BY <1>2, <1>5, <1>6 DEF Depth

LEMMA EnterEffect ==
  ASSUME NEW m, Well(m), NEW mm, mm = Entered(m)
  PROVE  /\ Well(mm) /\ Depth(mm) = Depth(m)
         /\ mm.client = Depth(m) /\ mm.mode = "runtime"
         /\ \A i \in 0 .. Depth(m) : ViewAt(mm, i) = ViewAt(m, i)
<1>1. m \in MapState /\ Depth(m) \in Nat
  BY SeqLen DEF Well, MapState, Depth
<1>2. /\ mm \in MapState /\ mm.changes = m.changes /\ mm.dirty = m.dirty
      /\ mm.client = Depth(m) /\ mm.mode = "runtime"
  BY <1>1, Zenon DEF MapState, Entered
<1>3. Depth(mm) = Depth(m)
  BY <1>2 DEF Depth
<1>4. \A k, i : Writers(mm, k, i) = Writers(m, k, i)
  BY <1>2 DEF Writers
<1>5. Well(mm)
  BY <1>2, <1>3, <1>4 DEF Well, VersionsMatch
<1>6. \A k, i : Seen(mm, k, i) = Seen(m, k, i)
  BY <1>2, <1>3, <1>4 DEF Seen, VersionsUpTo
<1> QED
  BY <1>2, <1>3, <1>5, <1>6, SameSeen
=============================================================================
