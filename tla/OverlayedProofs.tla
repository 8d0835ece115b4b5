-------------------------- MODULE OverlayedProofs --------------------------
(***************************************************************************)
(* Proofs that the overlay of a runtime call keeps its maps in step and    *)
(* implements nested transactions, for every instance: any number of keys, *)
(* values, child storages, extrinsics and nested transactions.             *)
(***************************************************************************)
EXTENDS OverlayedNested, OverlayedMapProofs

-----------------------------------------------------------------------------
(***************************************************************************)
(* All maps together.  The operators take the assignment of maps to areas  *)
(* as an argument, so that they apply before and after a step.             *)
(***************************************************************************)
\* Every map there is has n open transactions, c of them protected, and mode q.
InStep(ar, n, c, q) ==
  /\ ar = [a \in Area |-> ar[a]]
  /\ n \in Nat
  /\ q = "runtime" => c <= n
  /\ \A a \in Area : \/ a \in Child /\ ar[a] = None
                     \/ /\ Well(ar[a]) /\ Depth(ar[a]) = n
                        /\ ar[a].client = c /\ ar[a].mode = q

\* The invariant of the proofs: VersionsMatchDirty, with the types of the maps.
Lockstep == InStep(areas, Depth(TopMap), TopMap.client, TopMap.mode)

Blank == [k \in Key |-> Unknown]
AreaView(m, i) == IF m = None THEN Blank ELSE ViewAt(m, i)
ViewsOf(ar) ==
  [i \in 1 .. Depth(ar["top"]) + 1 |-> [a \in Area |-> AreaView(ar[a], i - 1)]]
Snapshot == [Area -> [Key -> ViewEntry \cup {Unknown}]]
IsStackOf(s, ar, n) ==
  /\ s \in Seq(Snapshot) /\ n \in Nat /\ Len(s) = n + 1
  /\ \A i \in 1 .. n + 1 : s[i] = [a \in Area |-> AreaView(ar[a], i - 1)]

LEMMA WellIsMap ==
  ASSUME NEW m, Well(m)
  PROVE  m # None
BY NoneIsNoMap DEF Well

LEMMA InStepTop ==
  ASSUME NEW ar, NEW n, NEW c, NEW q, InStep(ar, n, c, q)
  PROVE  /\ "top" \in Area /\ Well(ar["top"]) /\ ar["top"] # None
         /\ Depth(ar["top"]) = n /\ ar["top"].client = c /\ ar["top"].mode = q
         /\ c \in Nat
<1>1. "top" \in Area /\ "top" \notin Child
  BY ChildrenApart DEF Area
<1>2. Well(ar["top"]) /\ Depth(ar["top"]) = n /\ ar["top"].client = c /\ ar["top"].mode = q
  BY <1>1 DEF InStep
<1>3. c \in Nat
  BY <1>2 DEF Well, MapState
<1> QED
  BY <1>1, <1>2, <1>3, WellIsMap

LEMMA InStepMap ==
  ASSUME NEW ar, NEW n, NEW c, NEW q, InStep(ar, n, c, q), NEW a \in Area, ar[a] # None
  PROVE  Well(ar[a]) /\ Depth(ar[a]) = n /\ ar[a].client = c /\ ar[a].mode = q
BY DEF InStep

\* To show that maps are in step it suffices to look at each of them.
LEMMA ToInStep ==
  ASSUME NEW ar, NEW n \in Nat, NEW c, NEW q,
         ar = [a \in Area |-> ar[a]],
         q = "runtime" => c <= n,
         \A a \in Area : ar[a] = None => a \in Child,
         \A a \in Area : ar[a] # None => /\ Well(ar[a]) /\ Depth(ar[a]) = n
                                        /\ ar[a].client = c /\ ar[a].mode = q
  PROVE  InStep(ar, n, c, q)
BY DEF InStep

LEMMA AreaViewType ==
  ASSUME NEW ar, NEW n, NEW c, NEW q, InStep(ar, n, c, q), NEW a \in Area, NEW i \in 0 .. n
  PROVE  AreaView(ar[a], i) \in [Key -> ViewEntry \cup {Unknown}]
<1>1. CASE ar[a] = None
  BY <1>1 DEF AreaView, Blank
<1>2. CASE ar[a] # None
  BY <1>2, InStepMap, ViewType DEF AreaView
<1> QED
  BY <1>1, <1>2

LEMMA ViewsOfStack ==
  ASSUME NEW ar, NEW n, NEW c, NEW q, InStep(ar, n, c, q)
  PROVE  IsStackOf(ViewsOf(ar), ar, n)
<1> DEFINE s == ViewsOf(ar)
           view(i) == [a \in Area |-> AreaView(ar[a], i - 1)]
<1>1. n \in Nat /\ Depth(ar["top"]) = n
  BY InStepTop DEF InStep
<1>2. s = [i \in 1 .. n + 1 |-> view(i)]
  BY <1>1 DEF ViewsOf
<1>3. ASSUME NEW i \in 1 .. n + 1 PROVE view(i) \in Snapshot
  <2>1. i - 1 \in 0 .. n
    BY <1>1
  <2> QED
    BY <2>1, AreaViewType DEF Snapshot
<1> HIDE DEF s, view
<1>4. s \in [1 .. n + 1 -> Snapshot]
  BY <1>2, <1>3
<1>5. n + 1 \in Nat
  BY <1>1
<1>6. s \in Seq(Snapshot) /\ Len(s) = n + 1
  BY <1>4, <1>5
<1> QED
  BY <1>1, <1>2, <1>6 DEF s, view, IsStackOf

LEMMA ViewsAreOf == Views = ViewsOf(areas)
BY DEF Views, ViewsOf, AreaView, Blank, TopMap

\* The map a write goes to: that of the area, or the one spawned for it.
Target(ar, a) == IF ar[a] = None THEN SpawnChild(ar["top"]) ELSE ar[a]

LEMMA TargetEffect ==
  ASSUME NEW ar, NEW n, NEW c, NEW q, InStep(ar, n, c, q), NEW a \in Area,
         NEW m, m = Target(ar, a)
  PROVE  /\ Well(m) /\ Depth(m) = n /\ m.client = c /\ m.mode = q
         /\ \A i \in 0 .. n : AreaView(ar[a], i) = ViewAt(m, i)
<1>1. CASE ar[a] = None
  <2>1. m = SpawnChild(ar["top"])
    BY <1>1 DEF Target
  <2>2. Well(ar["top"]) /\ Depth(ar["top"]) = n /\ ar["top"].client = c /\ ar["top"].mode = q
    BY InStepTop
  <2>3. Well(m) /\ IsEmpty(m) /\ Depth(m) = n /\ m.client = c /\ m.mode = q
    BY <2>1, <2>2, SpawnEffect
  <2>4. ASSUME NEW i \in 0 .. n PROVE AreaView(ar[a], i) = ViewAt(m, i)
    BY <1>1, <2>3, EmptyView DEF AreaView, Blank
  <2> QED
    BY <2>3, <2>4
<1>2. CASE ar[a] # None
  BY <1>2, InStepMap DEF Target, AreaView
<1> QED
  BY <1>1, <1>2

Replaced(ar, br, a, mm) == br = [ar EXCEPT ![a] = mm]

\* The views s with innermost view top after a write of keys in area a.
Overwritten(s, top, n, a, keys, value, at) ==
  [s EXCEPT ![n + 1] = [top EXCEPT ![a] = [k \in Key |-> IF k \in keys
                                                         THEN NewEntry(top[a][k], value, at)
                                                         ELSE top[a][k]]]]

LEMMA WriteStep ==
  ASSUME NEW ar, NEW n, NEW c, NEW q, InStep(ar, n, c, q), NEW a \in Area,
         NEW mm, NEW keys, NEW value, NEW at, IsWrite(Target(ar, a), mm, keys, value, at),
         NEW br, Replaced(ar, br, a, mm),
         NEW s, s = ViewsOf(ar), NEW top, top = s[n + 1]
  PROVE  InStep(br, n, c, q) /\ ViewsOf(br) = Overwritten(s, top, n, a, keys, value, at)
<1> DEFINE m == Target(ar, a)
           new == [k \in Key |-> IF k \in keys THEN NewEntry(top[a][k], value, at) ELSE top[a][k]]
           t == ViewsOf(br)
           r == [s EXCEPT ![n + 1] = [top EXCEPT ![a] = new]]
<1>1. /\ Well(m) /\ Depth(m) = n /\ m.client = c /\ m.mode = q
      /\ \A i \in 0 .. n : AreaView(ar[a], i) = ViewAt(m, i)
  BY TargetEffect
<1>2. /\ ar = [b \in Area |-> ar[b]] /\ n \in Nat /\ (q = "runtime" => c <= n)
      /\ \A b \in Area : ar[b] = None => b \in Child
      /\ \A b \in Area : ar[b] # None => /\ Well(ar[b]) /\ Depth(ar[b]) = n
                                         /\ ar[b].client = c /\ ar[b].mode = q
  BY WellIsMap DEF InStep
<1>3. /\ Well(mm) /\ Depth(mm) = n /\ mm.client = c /\ mm.mode = q /\ mm # None
      /\ \A i \in 0 .. n - 1 : ViewAt(mm, i) = ViewAt(m, i)
      /\ ViewAt(mm, n) = [k \in Key |-> IF k \in keys THEN NewEntry(ViewAt(m, n)[k], value, at)
                                        ELSE ViewAt(m, n)[k]]
  <2>1. IsWrite(m, mm, keys, value, at)
    OBVIOUS
  <2> HIDE DEF m
  <2>2. /\ Well(mm) /\ Depth(mm) = Depth(m) /\ mm.client = m.client /\ mm.mode = m.mode
        /\ \A i \in 0 .. Depth(m) - 1 : ViewAt(mm, i) = ViewAt(m, i)
        /\ ViewAt(mm, Depth(m)) =
             [k \in Key |-> IF k \in keys THEN NewEntry(ViewAt(m, Depth(m))[k], value, at)
                            ELSE ViewAt(m, Depth(m))[k]]
    BY <2>1, WriteEffect
  <2> QED
    BY <1>1, <2>2, WellIsMap
<1>4. /\ br = [b \in Area |-> br[b]] /\ br[a] = mm
      /\ \A b \in Area : b # a => br[b] = ar[b]
  BY <1>2 DEF Replaced
<1>5. InStep(br, n, c, q)
  <2> HIDE DEF m
  <2>1. \A b \in Area : br[b] = None => b \in Child
    BY <1>2, <1>3, <1>4
  <2>2. \A b \in Area : br[b] # None => /\ Well(br[b]) /\ Depth(br[b]) = n
                                       /\ br[b].client = c /\ br[b].mode = q
    BY <1>2, <1>3, <1>4
  <2> QED
    BY <1>2, <1>4, <2>1, <2>2, ToInStep, SMTT(30)
<1>6. /\ s \in Seq(Snapshot) /\ Len(s) = n + 1
      /\ \A i \in 1 .. n + 1 : s[i] = [b \in Area |-> AreaView(ar[b], i - 1)]
  <2>1. IsStackOf(s, ar, n)
    BY ViewsOfStack
  <2> QED
    BY <2>1 DEF IsStackOf
<1>7. /\ t \in Seq(Snapshot) /\ Len(t) = n + 1
      /\ \A i \in 1 .. n + 1 : t[i] = [b \in Area |-> AreaView(br[b], i - 1)]
  <2>1. IsStackOf(t, br, n)
    BY <1>5, ViewsOfStack
  <2> HIDE DEF t
  <2> QED
    BY <2>1 DEF IsStackOf
<1>8. n + 1 \in 1 .. n + 1 /\ (n + 1) - 1 = n /\ n \in 0 .. n
  BY <1>2
<1>9. top = [b \in Area |-> AreaView(ar[b], n)]
  BY <1>6, <1>8
<1>10. new = AreaView(br[a], n)
  <2>1. top[a] = ViewAt(m, n)
    BY <1>1, <1>8, <1>9
  <2> QED
    BY <1>3, <1>4, <2>1, SMTT(30) DEF AreaView
<1> HIDE DEF m, new, t
<1>11. ASSUME NEW i \in 1 .. n PROVE t[i] = s[i]
  <2>1. i \in 1 .. n + 1 /\ i - 1 \in 0 .. n - 1 /\ i - 1 \in 0 .. n
    BY <1>2
  <2>2. \A b \in Area : AreaView(br[b], i - 1) = AreaView(ar[b], i - 1)
    BY <1>1, <1>3, <1>4, <2>1, SMTT(30) DEF AreaView
  <2> QED
    BY <1>6, <1>7, <2>1, <2>2
<1>12. t[n + 1] = [top EXCEPT ![a] = new]
  <2>1. t[n + 1] = [b \in Area |-> AreaView(br[b], n)]
    BY <1>7, <1>8
  <2>2. \A b \in Area : b # a => AreaView(br[b], n) = AreaView(ar[b], n)
    BY <1>4
  <2> QED
    BY <1>9, <1>10, <2>1, <2>2
<1>13. t = r
  <2> HIDE DEF r
  <2>1. DOMAIN t = 1 .. n + 1 /\ DOMAIN s = 1 .. n + 1
    BY <1>2, <1>6, <1>7, SeqLen
  <2>2. /\ DOMAIN r = DOMAIN s /\ r = [i \in DOMAIN s |-> r[i]]
        /\ \A i \in DOMAIN s : r[i] = IF i = n + 1 THEN [top EXCEPT ![a] = new] ELSE s[i]
    BY DEF r
  <2>3. t = [i \in 1 .. n + 1 |-> t[i]]
    BY <1>7, <2>1, SeqLen
  <2>4. \A i \in 1 .. n + 1 : i # n + 1 => i \in 1 .. n
    BY <1>2
  <2>5. \A i \in 1 .. n + 1 : t[i] = r[i]
    BY <1>11, <1>12, <2>1, <2>2, <2>4
  <2> QED
    BY <2>1, <2>2, <2>3, <2>5
<1> QED
  BY <1>5, <1>13 DEF t, new, Overwritten

\* What the transaction calls do to a stack of views.
Copied(s) == Append(s, s[Len(s)])
Popped(s) == SubSeq(s, 1, Len(s) - 1)
Folded(s) == Append(SubSeq(s, 1, Len(s) - 2), s[Len(s)])
Cut(s, n) == SubSeq(s, 1, n + 1)
NoViews == <<[a \in Area |-> Blank]>>

LEMMA StackFacts ==
  ASSUME NEW s, NEW ar, NEW n, IsStackOf(s, ar, n), NEW i \in 0 .. n
  PROVE  /\ s[i + 1] = [a \in Area |-> AreaView(ar[a], i)] /\ i + 1 \in 1 .. n + 1
         /\ s \in Seq(Snapshot) /\ Len(s) = n + 1 /\ n \in Nat
<1>1. n \in Nat /\ i + 1 \in 1 .. n + 1 /\ (i + 1) - 1 = i
  BY DEF IsStackOf
<1> QED
  BY <1>1 DEF IsStackOf

LEMMA UndoneStack ==
  ASSUME NEW s, NEW ar, NEW n, IsStackOf(s, ar, n),
         NEW t, NEW br, NEW l, IsStackOf(t, br, l), l <= n,
         \A a \in Area : \A i \in 0 .. l : AreaView(br[a], i) = AreaView(ar[a], i)
  PROVE  t = SubSeq(s, 1, l + 1)
<1> DEFINE r == SubSeq(s, 1, l + 1)
<1>1. s \in Seq(Snapshot) /\ Len(s) = n + 1 /\ n \in Nat /\ t \in Seq(Snapshot) /\ Len(t) = l + 1 /\ l \in Nat
  BY DEF IsStackOf
<1>2. r \in Seq(Snapshot) /\ Len(r) = l + 1 /\ \A i \in 1 .. l + 1 : r[i] = s[i]
  BY <1>1, PrefixIsSeq
<1>3. ASSUME NEW i \in 1 .. l + 1 PROVE t[i] = r[i]
  <2>1. i - 1 \in 0 .. l /\ i - 1 \in 0 .. n /\ (i - 1) + 1 = i
    BY <1>1
  <2>2. t[i] = [a \in Area |-> AreaView(br[a], i - 1)]
    BY <2>1, StackFacts
  <2>3. s[i] = [a \in Area |-> AreaView(ar[a], i - 1)]
    BY <2>1, StackFacts
  <2>4. \A a \in Area : AreaView(br[a], i - 1) = AreaView(ar[a], i - 1)
    BY <2>1
  <2> QED
    BY <1>2, <2>2, <2>3, <2>4
<1> HIDE DEF r
<1>4. t = r
  BY <1>1, <1>2, <1>3, SameSeq, SMTT(30)
<1> QED
  BY <1>4 DEF r

LEMMA SameStack ==
  ASSUME NEW s, NEW ar, NEW n, IsStackOf(s, ar, n), NEW t, NEW br, IsStackOf(t, br, n),
         \A a \in Area : \A i \in 0 .. n : AreaView(br[a], i) = AreaView(ar[a], i)
  PROVE  t = s
<1>1. s \in Seq(Snapshot) /\ Len(s) = n + 1 /\ n \in Nat /\ n <= n
  BY DEF IsStackOf
<1>2. t = SubSeq(s, 1, n + 1)
  BY <1>1, UndoneStack
<1> QED
  BY <1>1, <1>2

LEMMA StartedStack ==
  ASSUME NEW s, NEW ar, NEW n, IsStackOf(s, ar, n), NEW t, NEW br, IsStackOf(t, br, n + 1),
         \A a \in Area : \A i \in 0 .. n : AreaView(br[a], i) = AreaView(ar[a], i),
         \A a \in Area : AreaView(br[a], n + 1) = AreaView(ar[a], n)
  PROVE  t = Copied(s)
<1> DEFINE r == Append(s, s[Len(s)])
<1>1. s \in Seq(Snapshot) /\ Len(s) = n + 1 /\ n \in Nat /\ t \in Seq(Snapshot) /\ Len(t) = n + 2
  BY DEF IsStackOf
<1>2. s[n + 1] \in Snapshot
  <2>1. n + 1 \in 1 .. Len(s)
    BY <1>1
  <2> QED
    BY <1>1, <2>1, SeqElement
<1>3. /\ r \in Seq(Snapshot) /\ Len(r) = n + 2 /\ r[n + 2] = s[n + 1]
      /\ \A i \in 1 .. n + 1 : r[i] = s[i]
  BY <1>1, <1>2
<1>4. ASSUME NEW i \in 0 .. n + 1 PROVE t[i + 1] = [a \in Area |-> AreaView(br[a], i)]
  BY StackFacts
<1>5. ASSUME NEW i \in 0 .. n PROVE s[i + 1] = [a \in Area |-> AreaView(ar[a], i)]
  BY StackFacts
<1>6. t[n + 2] = s[n + 1]
  <2>1. n + 1 \in 0 .. n + 1 /\ n \in 0 .. n /\ (n + 1) + 1 = n + 2
    BY <1>1
  <2>2. t[n + 2] = [a \in Area |-> AreaView(br[a], n + 1)]
    BY <1>4, <2>1
  <2>3. s[n + 1] = [a \in Area |-> AreaView(ar[a], n)]
    BY <1>5, <2>1
  <2> QED
    BY <2>2, <2>3
<1>7. ASSUME NEW i \in 1 .. n + 1 PROVE t[i] = s[i]
  <2>1. i - 1 \in 0 .. n /\ i - 1 \in 0 .. n + 1 /\ (i - 1) + 1 = i
    BY <1>1
  <2>2. t[i] = [a \in Area |-> AreaView(br[a], i - 1)]
    BY <1>4, <2>1
  <2>3. s[i] = [a \in Area |-> AreaView(ar[a], i - 1)]
    BY <1>5, <2>1
  <2>4. \A a \in Area : AreaView(br[a], i - 1) = AreaView(ar[a], i - 1)
    BY <2>1
  <2> QED
    BY <2>2, <2>3, <2>4
<1> HIDE DEF r
<1>8. ASSUME NEW i \in 1 .. n + 2 PROVE t[i] = r[i]
  <2>1. i = n + 2 \/ i \in 1 .. n + 1
    BY <1>1
  <2> QED
    BY <1>3, <1>6, <1>7, <2>1
<1>9. t = r
  BY <1>1, <1>3, <1>8, SameSeq, SMTT(30)
<1> QED
  BY <1>9 DEF r, Copied

LEMMA CommittedStack ==
  ASSUME NEW s, NEW ar, NEW n, IsStackOf(s, ar, n), n > 0,
         NEW t, NEW br, IsStackOf(t, br, n - 1),
         \A a \in Area : \A i \in 0 .. n - 2 : AreaView(br[a], i) = AreaView(ar[a], i),
         \A a \in Area : AreaView(br[a], n - 1) = AreaView(ar[a], n)
  PROVE  t = Folded(s)
<1> DEFINE u == SubSeq(s, 1, n - 1)
           r == Append(u, s[n + 1])
<1>1. /\ s \in Seq(Snapshot) /\ Len(s) = n + 1 /\ n \in Nat /\ n - 1 \in Nat
      /\ t \in Seq(Snapshot) /\ Len(t) = n
  BY DEF IsStackOf
<1>2. s[n + 1] \in Snapshot
  <2>1. n + 1 \in 1 .. Len(s)
    BY <1>1
  <2> QED
    BY <1>1, <2>1, SeqElement
<1>3. u \in Seq(Snapshot) /\ Len(u) = n - 1 /\ \A i \in 1 .. n - 1 : u[i] = s[i]
  <2> DEFINE l == n - 1
  <2>1. l \in Nat /\ l <= Len(s)
    BY <1>1
  <2> HIDE DEF l
  <2>2. SubSeq(s, 1, l) \in Seq(Snapshot) /\ Len(SubSeq(s, 1, l)) = l
        /\ \A i \in 1 .. l : SubSeq(s, 1, l)[i] = s[i]
    BY <1>1, <2>1, PrefixIsSeq, SMTT(30)
  <2> QED
    BY <2>2 DEF l
<1> HIDE DEF u
<1>4. /\ r \in Seq(Snapshot) /\ Len(r) = n /\ r[n] = s[n + 1]
      /\ \A i \in 1 .. n - 1 : r[i] = u[i]
  BY <1>1, <1>2, <1>3
<1>5. t[n] = s[n + 1]
  <2>1. n - 1 \in 0 .. n - 1 /\ (n - 1) + 1 = n /\ n \in 0 .. n
    BY <1>1
  <2>2. t[n] = [a \in Area |-> AreaView(br[a], n - 1)]
    BY <2>1, StackFacts
  <2>3. s[n + 1] = [a \in Area |-> AreaView(ar[a], n)]
    BY <2>1, StackFacts
  <2> QED
    BY <2>2, <2>3, SMTT(30)
<1>6. ASSUME NEW i \in 1 .. n - 1 PROVE t[i] = s[i]
  <2>1. i - 1 \in 0 .. n - 1 /\ i - 1 \in 0 .. n /\ i - 1 \in 0 .. n - 2 /\ (i - 1) + 1 = i
    BY <1>1
  <2>2. t[i] = [a \in Area |-> AreaView(br[a], i - 1)]
    BY <2>1, StackFacts
  <2>3. s[i] = [a \in Area |-> AreaView(ar[a], i - 1)]
    BY <2>1, StackFacts
  <2>4. \A a \in Area : AreaView(br[a], i - 1) = AreaView(ar[a], i - 1)
    BY <2>1
  <2> QED
    BY <2>2, <2>3, <2>4
<1> HIDE DEF r
<1>7. ASSUME NEW i \in 1 .. n PROVE t[i] = r[i]
  <2>1. i = n \/ i \in 1 .. n - 1
    BY <1>1
  <2> QED
    BY <1>3, <1>4, <1>5, <1>6, <2>1
<1>8. t = r
  BY <1>1, <1>4, <1>7, SameSeq
<1>9. Len(s) - 2 = n - 1 /\ Len(s) = n + 1
  BY <1>1
<1> QED
  BY <1>8, <1>9 DEF r, u, Folded

\* The transaction calls apply the same operation to every map there is.
ForEachMap(ar, br, Op(_)) == br = [a \in Area |-> IF ar[a] # None THEN Op(ar[a]) ELSE None]

LEMMA StartStep ==
  ASSUME NEW ar, NEW n, NEW c, NEW q, InStep(ar, n, c, q),
         NEW br, ForEachMap(ar, br, Started)
  PROVE  InStep(br, n + 1, c, q) /\ ViewsOf(br) = Copied(ViewsOf(ar))
<1>1. /\ br = [a \in Area |-> br[a]]
      /\ \A a \in Area : ar[a] = None => br[a] = None
      /\ \A a \in Area : ar[a] # None => br[a] = Started(ar[a])
  BY DEF ForEachMap
<1>2. ASSUME NEW a \in Area, ar[a] # None
      PROVE  /\ Well(br[a]) /\ br[a] # None
             /\ Depth(br[a]) = n + 1 /\ br[a].client = c /\ br[a].mode = q
             /\ \A i \in 0 .. n : ViewAt(br[a], i) = ViewAt(ar[a], i)
             /\ ViewAt(br[a], n + 1) = ViewAt(ar[a], n)
  <2>1. Well(ar[a]) /\ Depth(ar[a]) = n /\ ar[a].client = c /\ ar[a].mode = q
    BY <1>2, InStepMap
  <2>2. br[a] = Started(ar[a])
    BY <1>1, <1>2
  <2>3. Well(br[a])
    BY <2>1, <2>2, StartEffect
  <2> QED
    BY <2>1, <2>2, <2>3, StartEffect, WellIsMap, SMTT(30)
<1>3. /\ n \in Nat /\ n + 1 \in Nat /\ (q = "runtime" => c <= n + 1)
      /\ \A a \in Area : ar[a] = None => a \in Child
  BY InStepTop, WellIsMap DEF InStep
<1>4. InStep(br, n + 1, c, q)
  BY <1>1, <1>2, <1>3, ToInStep
<1>5. \A a \in Area : \A i \in 0 .. n : AreaView(br[a], i) = AreaView(ar[a], i)
  BY <1>1, <1>2 DEF AreaView
<1>6. \A a \in Area : AreaView(br[a], n + 1) = AreaView(ar[a], n)
  BY <1>1, <1>2 DEF AreaView
<1>7. IsStackOf(ViewsOf(ar), ar, n) /\ IsStackOf(ViewsOf(br), br, n + 1)
  BY <1>4, ViewsOfStack
<1> QED
  BY <1>4, <1>5, <1>6, <1>7, StartedStack, SMTT(30)

LEMMA CommitStep ==
  ASSUME NEW ar, NEW n, NEW c, NEW q, InStep(ar, n, c, q), n > 0, q = "runtime" => c <= n - 1,
         NEW br, ForEachMap(ar, br, Committed)
  PROVE  InStep(br, n - 1, c, q) /\ ViewsOf(br) = Folded(ViewsOf(ar))
<1>1. /\ br = [a \in Area |-> br[a]]
      /\ \A a \in Area : ar[a] = None => br[a] = None
      /\ \A a \in Area : ar[a] # None => br[a] = Committed(ar[a])
  BY DEF ForEachMap
<1>2. ASSUME NEW a \in Area, ar[a] # None
      PROVE  /\ Well(br[a]) /\ br[a] # None
             /\ Depth(br[a]) = n - 1 /\ br[a].client = c /\ br[a].mode = q
             /\ \A i \in 0 .. n - 2 : ViewAt(br[a], i) = ViewAt(ar[a], i)
             /\ ViewAt(br[a], n - 1) = ViewAt(ar[a], n)
  <2>1. Well(ar[a]) /\ Depth(ar[a]) = n /\ ar[a].client = c /\ ar[a].mode = q
    BY <1>2, InStepMap
  <2>2. br[a] = Committed(ar[a])
    BY <1>1, <1>2
  <2>3. Well(br[a])
    BY <2>1, <2>2, CommittedEffect
  <2> QED
    BY <2>1, <2>2, <2>3, CommittedEffect, WellIsMap, SMTT(30)
<1>3. n \in Nat /\ n - 1 \in Nat /\ \A a \in Area : ar[a] = None => a \in Child
  BY WellIsMap DEF InStep
<1>4. InStep(br, n - 1, c, q)
  BY <1>1, <1>2, <1>3, ToInStep
<1>5. \A a \in Area : \A i \in 0 .. n - 2 : AreaView(br[a], i) = AreaView(ar[a], i)
  BY <1>1, <1>2 DEF AreaView
<1>6. \A a \in Area : AreaView(br[a], n - 1) = AreaView(ar[a], n)
  BY <1>1, <1>2 DEF AreaView
<1>7. IsStackOf(ViewsOf(ar), ar, n) /\ IsStackOf(ViewsOf(br), br, n - 1)
  BY <1>4, ViewsOfStack
<1> QED
  BY <1>4, <1>5, <1>6, <1>7, CommittedStack, SMTT(30)

LEMMA EnterStep ==
  ASSUME NEW ar, NEW n, NEW c, NEW q, InStep(ar, n, c, q),
         NEW br, ForEachMap(ar, br, Entered)
  PROVE  InStep(br, n, n, "runtime") /\ ViewsOf(br) = ViewsOf(ar)
<1>1. /\ br = [a \in Area |-> br[a]]
      /\ \A a \in Area : ar[a] = None => br[a] = None
      /\ \A a \in Area : ar[a] # None => br[a] = Entered(ar[a])
  BY DEF ForEachMap
<1>2. ASSUME NEW a \in Area, ar[a] # None
      PROVE  /\ Well(br[a]) /\ br[a] # None
             /\ Depth(br[a]) = n /\ br[a].client = n /\ br[a].mode = "runtime"
             /\ \A i \in 0 .. n : ViewAt(br[a], i) = ViewAt(ar[a], i)
  <2>1. Well(ar[a]) /\ Depth(ar[a]) = n
    BY <1>2, InStepMap, SMTT(30)
  <2>2. br[a] = Entered(ar[a])
    BY <1>1, <1>2
  <2>3. Well(br[a])
    BY <2>1, <2>2, EnterEffect
  <2> QED
    BY <2>1, <2>2, <2>3, EnterEffect, WellIsMap, SMTT(30)
<1>3. n \in Nat /\ n <= n /\ \A a \in Area : ar[a] = None => a \in Child
  BY WellIsMap DEF InStep
<1>4. InStep(br, n, n, "runtime")
  BY <1>1, <1>2, <1>3, ToInStep
<1>5. \A a \in Area : \A i \in 0 .. n : AreaView(br[a], i) = AreaView(ar[a], i)
  BY <1>1, <1>2 DEF AreaView
<1>6. IsStackOf(ViewsOf(ar), ar, n) /\ IsStackOf(ViewsOf(br), br, n)
  BY <1>4, ViewsOfStack
<1> QED
  BY <1>4, <1>5, <1>6, SameStack, SMTT(30)

LEMMA ExitStep ==
  ASSUME NEW ar, NEW n, NEW c, NEW q, InStep(ar, n, c, q), q = "runtime",
         NEW br, ForEachMap(ar, br, Exited)
  PROVE  InStep(br, c, c, "client") /\ ViewsOf(br) = Cut(ViewsOf(ar), c)
<1>1. /\ br = [a \in Area |-> br[a]]
      /\ \A a \in Area : ar[a] = None => br[a] = None
      /\ \A a \in Area : ar[a] # None => br[a] = Exited(ar[a])
  BY DEF ForEachMap
<1>2. n \in Nat /\ c \in Nat /\ c <= n /\ \A a \in Area : ar[a] = None => a \in Child
  BY InStepTop, WellIsMap, SMTT(30) DEF InStep
<1>3. ASSUME NEW a \in Area, ar[a] # None
      PROVE  /\ Well(br[a]) /\ br[a] # None
             /\ Depth(br[a]) = c /\ br[a].client = c /\ br[a].mode = "client"
             /\ \A i \in 0 .. c : ViewAt(br[a], i) = ViewAt(ar[a], i)
  <2>1. Well(ar[a]) /\ Depth(ar[a]) = n /\ ar[a].client = c
    BY <1>3, InStepMap
  <2>2. br[a] = Exited(ar[a])
    BY <1>1, <1>3
  <2>3. Undone(ar[a], br[a], c) /\ br[a].client = c /\ br[a].mode = "client"
    BY <1>2, <2>1, <2>2, ExitedIsUndone
  <2>4. c \in 0 .. Depth(ar[a])
    BY <1>2, <2>1
  <2>5. Well(br[a])
    BY <2>1, <2>3, <2>4, UndoneEffect, SMTT(30)
  <2> QED
    BY <2>1, <2>3, <2>4, <2>5, UndoneEffect, WellIsMap, SMTT(30)
<1>4. InStep(br, c, c, "client")
  BY <1>1, <1>2, <1>3, ToInStep, SMTT(30)
<1>5. \A a \in Area : \A i \in 0 .. c : AreaView(br[a], i) = AreaView(ar[a], i)
  BY <1>1, <1>3 DEF AreaView
<1>6. IsStackOf(ViewsOf(ar), ar, n) /\ IsStackOf(ViewsOf(br), br, c)
  BY <1>4, ViewsOfStack
<1> QED
  BY <1>2, <1>4, <1>5, <1>6, UndoneStack, SMTT(30) DEF Cut

\* A rollback also drops the child maps that it leaves empty: their views are
\* those of an area without a map.
RollbackMaps(ar, br) ==
  br = [a \in Area |->
          IF ar[a] = None THEN None
          ELSE IF a \in Child /\ IsEmpty(RolledBack(ar[a])) THEN None
               ELSE RolledBack(ar[a])]

LEMMA RollbackStep ==
  ASSUME NEW ar, NEW n, NEW c, NEW q, InStep(ar, n, c, q), n > 0, q = "runtime" => c <= n - 1,
         NEW br, RollbackMaps(ar, br)
  PROVE  InStep(br, n - 1, c, q) /\ ViewsOf(br) = Popped(ViewsOf(ar))
<1> DEFINE m(a) == RolledBack(ar[a])
<1>1. /\ br = [a \in Area |-> br[a]]
      /\ \A a \in Area : ar[a] = None => br[a] = None
      /\ \A a \in Area : ar[a] # None => \/ a \in Child /\ IsEmpty(m(a)) /\ br[a] = None
                                         \/ br[a] = m(a)
  BY DEF RollbackMaps
<1>2. n \in Nat /\ n - 1 \in Nat /\ n - 1 <= n /\ \A a \in Area : ar[a] = None => a \in Child
  BY WellIsMap, SMTT(30) DEF InStep
<1>3. ASSUME NEW a \in Area, ar[a] # None
      PROVE  /\ Well(m(a)) /\ m(a) # None
             /\ Depth(m(a)) = n - 1 /\ m(a).client = c /\ m(a).mode = q
             /\ \A i \in 0 .. n - 1 : ViewAt(m(a), i) = ViewAt(ar[a], i)
             /\ IsEmpty(m(a)) => \A i \in 0 .. n - 1 : ViewAt(ar[a], i) = Blank
  <2>1. Well(ar[a]) /\ Depth(ar[a]) = n /\ ar[a].client = c /\ ar[a].mode = q
    BY <1>3, InStepMap, SMTT(30)
  <2>2. Undone(ar[a], m(a), n - 1) /\ m(a).client = c /\ m(a).mode = q
    BY <2>1, RolledBackIsUndone
  <2>3. n - 1 \in 0 .. Depth(ar[a])
    BY <1>2, <2>1
  <2> HIDE DEF m
  <2>4. /\ Well(m(a)) /\ Depth(m(a)) = n - 1
        /\ \A i \in 0 .. n - 1 : ViewAt(m(a), i) = ViewAt(ar[a], i)
    BY <2>1, <2>2, <2>3, UndoneEffect, SMTT(30)
  <2>5. ASSUME IsEmpty(m(a)), NEW i \in 0 .. n - 1 PROVE ViewAt(ar[a], i) = Blank
    BY <2>4, <2>5, EmptyView DEF Blank
  <2> QED
    BY <2>2, <2>4, <2>5, WellIsMap, SMTT(30)
<1> HIDE DEF m
<1>4. \A a \in Area : br[a] = None => a \in Child
  BY <1>1, <1>2, <1>3
<1>5. \A a \in Area : br[a] # None => /\ Well(br[a]) /\ Depth(br[a]) = n - 1
                                     /\ br[a].client = c /\ br[a].mode = q
  BY <1>1, <1>3
<1>6. InStep(br, n - 1, c, q)
  BY <1>1, <1>2, <1>4, <1>5, ToInStep, SMTT(30)
<1>7. ASSUME NEW a \in Area, NEW i \in 0 .. n - 1
      PROVE  AreaView(br[a], i) = AreaView(ar[a], i)
  <2>1. CASE ar[a] = None
    BY <1>1, <2>1
  <2>2. CASE ar[a] # None
    BY <1>1, <1>3, <2>2 DEF AreaView
  <2> QED
    BY <2>1, <2>2
<1>8. IsStackOf(ViewsOf(ar), ar, n) /\ IsStackOf(ViewsOf(br), br, n - 1)
  BY <1>6, ViewsOfStack
<1>9. ViewsOf(br) = SubSeq(ViewsOf(ar), 1, (n - 1) + 1)
  BY <1>2, <1>7, <1>8, UndoneStack, SMTT(30)
<1>10. (n - 1) + 1 = Len(ViewsOf(ar)) - 1
  BY <1>2, <1>8 DEF IsStackOf
<1> QED
  BY <1>6, <1>9, <1>10 DEF Popped

LEMMA EmptyStep ==
  ASSUME NEW br, br = [a \in Area |-> IF a \in Child THEN None ELSE EmptyMap]
  PROVE  InStep(br, 0, 0, "client") /\ ViewsOf(br) = NoViews
<1>1. /\ br = [a \in Area |-> br[a]]
      /\ \A a \in Area : a \in Child => br[a] = None
      /\ \A a \in Area : a \notin Child => br[a] = EmptyMap
  OBVIOUS
<1>2. /\ Well(EmptyMap) /\ IsEmpty(EmptyMap) /\ Depth(EmptyMap) = 0
      /\ EmptyMap.client = 0 /\ EmptyMap.mode = "client" /\ EmptyMap # None
  BY EmptyMapEffect, WellIsMap
<1>3. InStep(br, 0, 0, "client")
  BY <1>1, <1>2 DEF InStep
<1>4. \A a \in Area : AreaView(br[a], 0) = Blank
  <2>1. ViewAt(EmptyMap, 0) = Blank
    BY <1>2, EmptyView DEF Blank
  <2> QED
    BY <1>1, <1>2, <2>1 DEF AreaView
<1>5. IsStackOf(ViewsOf(br), br, 0)
  BY <1>3, ViewsOfStack
<1>6. ViewsOf(br) \in Seq(Snapshot) /\ Len(ViewsOf(br)) = 1
  BY <1>5 DEF IsStackOf
<1>7. ViewsOf(br)[1] = [a \in Area |-> Blank]
  <2>1. ViewsOf(br)[0 + 1] = [a \in Area |-> AreaView(br[a], 0)]
    BY <1>5, StackFacts
  <2> QED
    BY <1>4, <2>1
<1>8. NoViews = <<[a \in Area |-> Blank]>>
  BY DEF NoViews
<1> DEFINE t == ViewsOf(br)
<1> HIDE DEF t
<1>9. t = <<t[1]>>
  BY <1>6 DEF t
<1> QED
  BY <1>3, <1>7, <1>8, <1>9 DEF t

-----------------------------------------------------------------------------
(***************************************************************************)
(* The steps of the overlay                                                *)
(***************************************************************************)
\* The operators of NestedTransactions are those of OverlayedProofs.
LEMMA NestedOperators ==
  /\ \A s : Nested!Started(s) = Copied(s)
  /\ \A s : Nested!RolledBack(s) = Popped(s)
  /\ \A s : Nested!Committed(s) = Folded(s)
  /\ \A s, n : Nested!Exited(s, n) = Cut(s, n)
  /\ Nested!EmptyStack = NoViews
  /\ \A old, value, at : Nested!Entry(old, value, at) = NewEntry(old, value, at)
<1>1. Nested!EmptyStack = NoViews
  BY DEF Nested!EmptyStack, NoViews, Blank
<1> QED
  BY <1>1 DEF Nested!Started, Copied, Nested!RolledBack, Popped, Nested!Committed, Folded,
              Nested!Exited, Cut, Nested!Entry, NewEntry

\* What a step has to show: the maps stay in step and the abstract variables
\* take the values s, c and q.
StepsTo(s, c, q) == Lockstep' /\ Views' = s /\ TopMap'.client = c /\ TopMap'.mode = q

LEMMA ToStepsTo ==
  ASSUME NEW n, NEW c, NEW q, NEW s, InStep(areas', n, c, q), ViewsOf(areas') = s
  PROVE  StepsTo(s, c, q)
<1>1. Depth(areas'["top"]) = n /\ areas'["top"].client = c /\ areas'["top"].mode = q
  BY InStepTop
<1>2. Views' = ViewsOf(areas')
  BY DEF Views, ViewsOf, AreaView, Blank, TopMap
<1> QED
  BY <1>1, <1>2 DEF StepsTo, Lockstep, TopMap

LEMMA LockstepFacts ==
  ASSUME Lockstep, NEW n, n = Depth(TopMap), NEW c, c = TopMap.client, NEW q, q = TopMap.mode
  PROVE  /\ InStep(areas, n, c, q) /\ n \in Nat /\ c \in Nat
         /\ IsStackOf(Views, areas, n) /\ Len(Views) = n + 1
<1>1. InStep(areas, n, c, q)
  BY DEF Lockstep
<1>2. IsStackOf(Views, areas, n)
  BY <1>1, ViewsOfStack, ViewsAreOf
<1> QED
  BY <1>1, <1>2, InStepTop DEF IsStackOf

LEMMA InitStep ==
  ASSUME Init
  PROVE  Lockstep /\ Nested!NestedInit
<1>1. InStep(areas, 0, 0, "client") /\ ViewsOf(areas) = Nested!EmptyStack
  BY EmptyStep, NestedOperators DEF Init
<1>2. Depth(TopMap) = 0 /\ TopMap.client = 0 /\ TopMap.mode = "client"
  BY <1>1, InStepTop DEF TopMap
<1> QED
  BY <1>1, <1>2, ViewsAreOf, SMTT(30) DEF Lockstep, Nested!NestedInit

LEMMA StartTransactionStep ==
  ASSUME Lockstep, StartTransaction
  PROVE  Lockstep' /\ Nested!Start
<1> DEFINE n == Depth(TopMap)
           c == TopMap.client
           q == TopMap.mode
<1>1. InStep(areas, n, c, q) /\ n \in Nat /\ Len(Views) = n + 1
  BY LockstepFacts
<1>2. ForEachMap(areas, areas', Started)
  BY DEF StartTransaction, Present, ForEachMap
<1>3. n < MaxDepth
  BY DEF StartTransaction
<1> HIDE DEF n, c, q
<1>4. InStep(areas', n + 1, c, q) /\ ViewsOf(areas') = Nested!Started(Views)
  BY <1>1, <1>2, StartStep, ViewsAreOf, NestedOperators, Zenon
<1>5. StepsTo(Nested!Started(Views), c, q)
  BY <1>4, ToStepsTo
<1>6. Nested!OpenTransactions < MaxDepth
  BY <1>1, <1>3 DEF Nested!OpenTransactions
<1> QED
  BY <1>5, <1>6 DEF StepsTo, Nested!Start, c, q

LEMMA CommitTransactionStep ==
  ASSUME Lockstep, CommitTransaction
  PROVE  Lockstep' /\ Nested!Commit
<1> DEFINE n == Depth(TopMap)
           c == TopMap.client
           q == TopMap.mode
<1>1. InStep(areas, n, c, q) /\ n \in Nat /\ c \in Nat /\ Len(Views) = n + 1
  BY LockstepFacts
<1>2. ForEachMap(areas, areas', Committed)
  BY DEF CommitTransaction, Present, ForEachMap
<1>3. n > 0 /\ (q = "runtime" => n > c)
  BY DEF CommitTransaction, CanClose, HasOpenRuntimeTransactions
<1> HIDE DEF n, c, q
<1>4. q = "runtime" => c <= n - 1
  BY <1>1, <1>3, SMTT(30)
<1>5. InStep(areas', n - 1, c, q) /\ ViewsOf(areas') = Nested!Committed(Views)
  BY <1>1, <1>2, <1>3, <1>4, CommitStep, ViewsAreOf, NestedOperators, SMTT(30)
<1>6. StepsTo(Nested!Committed(Views), c, q)
  BY <1>5, ToStepsTo, SMTT(30)
<1>7. Nested!OpenTransactions = n
  BY <1>1, SMTT(30) DEF Nested!OpenTransactions
<1>8. Nested!Closable
  BY <1>3, <1>7, SMTT(30) DEF Nested!Closable, c, q
<1> QED
  BY <1>6, <1>8 DEF StepsTo, Nested!Commit, c, q

LEMMA RollbackTransactionStep ==
  ASSUME Lockstep, RollbackTransaction
  PROVE  Lockstep' /\ Nested!Rollback
<1> DEFINE n == Depth(TopMap)
           c == TopMap.client
           q == TopMap.mode
<1>1. InStep(areas, n, c, q) /\ n \in Nat /\ c \in Nat /\ Len(Views) = n + 1
  BY LockstepFacts
<1>2. RollbackMaps(areas, areas')
  BY DEF RollbackTransaction, Present, RollbackMaps
<1>3. n > 0 /\ (q = "runtime" => n > c)
  BY SMTT(30) DEF RollbackTransaction, CanClose, HasOpenRuntimeTransactions
<1> HIDE DEF n, c, q
<1>4. q = "runtime" => c <= n - 1
  BY <1>1, <1>3
<1>5. InStep(areas', n - 1, c, q) /\ ViewsOf(areas') = Nested!RolledBack(Views)
  BY <1>1, <1>2, <1>3, <1>4, RollbackStep, ViewsAreOf, NestedOperators, SMTT(30)
<1>6. StepsTo(Nested!RolledBack(Views), c, q)
  BY <1>5, ToStepsTo
<1>7. Nested!OpenTransactions = n
  BY <1>1 DEF Nested!OpenTransactions
<1>8. Nested!Closable
  BY <1>3, <1>7 DEF Nested!Closable, c, q
<1> QED
  BY <1>6, <1>8 DEF StepsTo, Nested!Rollback, c, q

LEMMA EnterRuntimeStep ==
  ASSUME Lockstep, EnterRuntime
  PROVE  Lockstep' /\ Nested!Enter
<1> DEFINE n == Depth(TopMap)
           c == TopMap.client
           q == TopMap.mode
<1>1. InStep(areas, n, c, q) /\ n \in Nat /\ Len(Views) = n + 1
  BY LockstepFacts
<1>2. ForEachMap(areas, areas', Entered)
  BY DEF EnterRuntime, Present, ForEachMap
<1>3. q = "client"
  BY DEF EnterRuntime
<1> HIDE DEF n, c, q
<1>4. InStep(areas', n, n, "runtime") /\ ViewsOf(areas') = Views
  BY <1>1, <1>2, EnterStep, ViewsAreOf, SMTT(30)
<1>5. StepsTo(Views, n, "runtime")
  BY <1>4, ToStepsTo, SMTT(30)
<1>6. Nested!OpenTransactions = n
  BY <1>1 DEF Nested!OpenTransactions
<1> QED
  BY <1>3, <1>5, <1>6, SMTT(30) DEF StepsTo, Nested!Enter, q

LEMMA ExitRuntimeStep ==
  ASSUME Lockstep, ExitRuntime
  PROVE  Lockstep' /\ Nested!Exit
<1> DEFINE n == Depth(TopMap)
           c == TopMap.client
           q == TopMap.mode
<1>1. InStep(areas, n, c, q)
  BY LockstepFacts
<1>2. ForEachMap(areas, areas', Exited)
  BY DEF ExitRuntime, Present, ForEachMap
<1>3. q = "runtime"
  BY DEF ExitRuntime
<1> HIDE DEF n, c, q
<1>4. InStep(areas', c, c, "client") /\ ViewsOf(areas') = Nested!Exited(Views, c)
  BY <1>1, <1>2, <1>3, ExitStep, ViewsAreOf, NestedOperators, SMTT(30)
<1>5. StepsTo(Nested!Exited(Views, c), c, "client")
  BY <1>4, ToStepsTo
<1> QED
  BY <1>3, <1>5 DEF StepsTo, Nested!Exit, c, q

LEMMA DrainStorageChangesStep ==
  ASSUME Lockstep, DrainStorageChanges
  PROVE  Lockstep' /\ Nested!Drain
<1>1. InStep(areas', 0, 0, "client") /\ ViewsOf(areas') = Nested!EmptyStack
  BY EmptyStep, NestedOperators, SMTT(30) DEF DrainStorageChanges
<1>2. StepsTo(Nested!EmptyStack, 0, "client")
  BY <1>1, ToStepsTo, SMTT(30)
<1>3. Nested!OpenTransactions = 0
  <2>1. Depth(TopMap) = 0
    BY DEF DrainStorageChanges
  <2>2. Len(Views) = Depth(TopMap) + 1
    BY LockstepFacts
  <2> QED
    BY <2>1, <2>2 DEF Nested!OpenTransactions
<1> QED
  BY <1>2, <1>3 DEF StepsTo, Nested!Drain

\* The innermost views after a write.
Rewritten(a, keys, value, at) ==
  [Nested!Top EXCEPT ![a] = [k \in Key |-> IF k \in keys THEN Nested!Entry(Nested!Top[a][k], value, at)
                                           ELSE Nested!Top[a][k]]]

LEMMA AreaWritten ==
  ASSUME Lockstep, NEW a \in Area, NEW mm, NEW keys, NEW value, NEW at,
         IsWrite(Target(areas, a), mm, keys, value, at), Replaced(areas, areas', a, mm)
  PROVE  StepsTo(Nested!WithTop(Rewritten(a, keys, value, at)), TopMap.client, TopMap.mode)
<1> DEFINE n == Depth(TopMap)
           c == TopMap.client
           q == TopMap.mode
           new == [k \in Key |-> IF k \in keys THEN Nested!Entry(Views[n + 1][a][k], value, at)
                                 ELSE Views[n + 1][a][k]]
           t == [Views EXCEPT ![n + 1] = [Views[n + 1] EXCEPT ![a] = new]]
<1>1. InStep(areas, n, c, q) /\ Len(Views) = n + 1
  BY LockstepFacts, SMTT(30)
<1>2. InStep(areas', n, c, q) /\ ViewsOf(areas') = t
  <2> HIDE DEF n, c, q
  <2>1. /\ InStep(areas', n, c, q)
        /\ ViewsOf(areas') =
             [Views EXCEPT ![n + 1] =
                [Views[n + 1] EXCEPT ![a] = [k \in Key |-> IF k \in keys
                                                           THEN NewEntry(Views[n + 1][a][k], value, at)
                                                           ELSE Views[n + 1][a][k]]]]
    <3>1. PICK s : s = ViewsOf(areas)
      OBVIOUS
    <3>2. PICK top : top = s[n + 1]
      OBVIOUS
    <3>3. /\ InStep(areas', n, c, q)
          /\ ViewsOf(areas') = Overwritten(s, top, n, a, keys, value, at)
      BY <1>1, <3>1, <3>2, WriteStep
    <3> QED
      BY <3>1, <3>2, <3>3, ViewsAreOf, Zenon DEF Overwritten
  <2> QED
    BY <2>1, NestedOperators, Zenon
<1>3. t = Nested!WithTop(Rewritten(a, keys, value, at))
  BY <1>1 DEF Nested!WithTop, Rewritten, Nested!Top
<1> HIDE DEF t, n, c, q
<1>4. StepsTo(t, c, q)
  BY <1>2, ToStepsTo
<1> QED
  BY <1>3, <1>4 DEF c, q

LEMMA TopType ==
  ASSUME Lockstep
  PROVE  /\ Nested!Top = Views[Depth(TopMap) + 1]
         /\ Nested!Top = [a \in Area |-> AreaView(areas[a], Depth(TopMap))]
         /\ Nested!Top \in Snapshot
<1> DEFINE n == Depth(TopMap)
<1>1. IsStackOf(Views, areas, n) /\ n \in Nat /\ Len(Views) = n + 1
  BY LockstepFacts
<1> HIDE DEF n
<1>2. n \in 0 .. n /\ n + 1 \in 1 .. n + 1
  BY <1>1
<1>3. Views[n + 1] = [a \in Area |-> AreaView(areas[a], n)]
  BY <1>1, <1>2, StackFacts, SMTT(30)
<1>4. Views[n + 1] \in Snapshot
  BY <1>1, <1>2, SeqElement DEF IsStackOf
<1> QED
  BY <1>1, <1>3, <1>4 DEF n, Nested!Top

LEMMA OneKeyRewritten ==
  ASSUME Lockstep, NEW a \in Area, NEW k \in Key, NEW value, NEW at
  PROVE  Rewritten(a, {k}, value, at) = [Nested!Top EXCEPT ![a][k] = Nested!Entry(@, value, at)]
<1> DEFINE top == Nested!Top
<1>1. top \in Snapshot
  BY TopType
<1> HIDE DEF top
<1>2. top = [b \in Area |-> top[b]] /\ top[a] = [j \in Key |-> top[a][j]]
  BY <1>1 DEF Snapshot
<1>3. [j \in Key |-> IF j \in {k} THEN Nested!Entry(top[a][j], value, at) ELSE top[a][j]]
        = [top[a] EXCEPT ![k] = Nested!Entry(@, value, at)]
  BY <1>2, Zenon
<1> QED
  BY <1>2, <1>3, Zenon DEF top, Rewritten

LEMMA ExtrinsicIndexAt ==
  ASSUME NEW a
  PROVE  /\ ExtrinsicIndex(a) = Nested!At(a) /\ {} \in ExtrinsicIndex(a)
         /\ ExtrinsicIndex(a) \subseteq SUBSET Extrinsic
BY DEF ExtrinsicIndex, Nested!At

LEMMA SetStorageStep ==
  ASSUME Lockstep, NEW a \in Area, NEW k \in Key, NEW value \in Value \cup {Deleted},
         NEW at \in ExtrinsicIndex(a), SetStorage(a, k, value, at)
  PROVE  Lockstep' /\ Nested!Write(a, k, value, at)
<1> DEFINE m == Target(areas, a)
           mm == Set(m, k, value, at)
<1>1. Well(m)
  BY LockstepFacts, TargetEffect, SMTT(30)
<1>2. IsWrite(m, mm, {k}, value, at)
  BY <1>1, SetIsWrite, ExtrinsicIndexAt, SMTT(30)
<1>3. Replaced(areas, areas', a, mm)
  BY DEF SetStorage, MapFor, Target, TopMap, Replaced
<1> HIDE DEF m, mm
<1>4. StepsTo(Nested!WithTop(Rewritten(a, {k}, value, at)), TopMap.client, TopMap.mode)
  BY <1>2, <1>3, AreaWritten, SMTT(30) DEF m
<1> QED
  BY <1>4, OneKeyRewritten DEF StepsTo, Nested!Write

LEMMA AppendStorageStep ==
  ASSUME Lockstep, NEW k \in Key, NEW value \in Value,
         NEW at \in ExtrinsicIndex("top"), AppendStorage(k, value, at)
  PROVE  Lockstep' /\ \E by \in ExtrinsicIndex("top") : Nested!Write("top", k, value, by)
<1> DEFINE m == Target(areas, "top")
           mm == Modify(m, k, value, at)
<1>1. "top" \in Area /\ areas["top"] # None
  BY LockstepFacts, InStepTop, SMTT(30)
<1>2. Well(m) /\ m = areas["top"]
  BY <1>1, LockstepFacts, TargetEffect, SMTT(30) DEF Target
<1>3. PICK by \in {at, {}} : IsWrite(m, mm, {k}, value, by)
  BY <1>2, ModifyIsWrite, ExtrinsicIndexAt
<1>4. Replaced(areas, areas', "top", mm)
  BY <1>2, Zenon DEF AppendStorage, Replaced
<1> HIDE DEF m, mm
<1>5. StepsTo(Nested!WithTop(Rewritten("top", {k}, value, by)), TopMap.client, TopMap.mode)
  BY <1>1, <1>3, <1>4, AreaWritten DEF m
<1>6. by \in ExtrinsicIndex("top")
  BY ExtrinsicIndexAt, ZenonT(60)
<1> QED
  BY <1>1, <1>5, <1>6, OneKeyRewritten, SMTT(30) DEF StepsTo, Nested!Write

LEMMA ClearKeysStep ==
  ASSUME Lockstep, NEW a \in Area, NEW keys \in SUBSET Key,
         NEW at \in ExtrinsicIndex(a), ClearKeys(a, keys, at)
  PROVE  Lockstep' /\ Nested!Clear(a, keys, at)
<1> DEFINE m == Target(areas, a)
           mm == ClearWhere(m, keys, at)
           cleared == {k \in keys : m.changes[k] # <<>>}
           n == Depth(TopMap)
           top == Nested!Top
<1>1. /\ Well(m) /\ Depth(m) = n /\ n \in Nat
      /\ \A i \in 0 .. n : AreaView(areas[a], i) = ViewAt(m, i)
  BY LockstepFacts, TargetEffect, SMTT(30)
<1>2. IsWrite(m, mm, cleared, Deleted, at)
  BY <1>1, ClearIsWrite, ExtrinsicIndexAt
<1>3. Replaced(areas, areas', a, mm)
  BY DEF ClearKeys, MapFor, Target, TopMap, Replaced
<1>4. StepsTo(Nested!WithTop(Rewritten(a, cleared, Deleted, at)), TopMap.client, TopMap.mode)
  <2> HIDE DEF mm, cleared
  <2> QED
    BY <1>2, <1>3, AreaWritten, SMTT(30)
<1>5. \A k \in Key : k \in cleared <=> k \in keys /\ top[a][k] # Unknown
  <2>1. top[a] = ViewAt(m, n)
    BY <1>1, TopType, SMTT(30)
  <2> HIDE DEF m, n, top
  <2> QED
    BY <1>1, <2>1, TopEntry, SMTT(30)
<1> HIDE DEF cleared, m
<1>6. Rewritten(a, cleared, Deleted, at) =
        [top EXCEPT ![a] = [k \in Key |-> IF k \in keys /\ top[a][k] # Unknown
                                          THEN Nested!Entry(top[a][k], Deleted, at) ELSE top[a][k]]]
  BY <1>5, Zenon DEF Rewritten
<1> QED
  BY <1>4, <1>6 DEF StepsTo, Nested!Clear

\* Calls that leave the maps alone leave the views alone.
LEMMA AreasUnchanged ==
  ASSUME Lockstep, UNCHANGED areas
  PROVE  Lockstep' /\ UNCHANGED Nested!nestedVars
<1>1. InStep(areas', Depth(TopMap), TopMap.client, TopMap.mode)
  BY DEF Lockstep
<1>2. ViewsOf(areas') = Views
  BY ViewsAreOf
<1>3. StepsTo(Views, TopMap.client, TopMap.mode)
  BY <1>1, <1>2, ToStepsTo, SMTT(30)
<1> QED
  BY <1>3 DEF StepsTo, Nested!nestedVars

LEMMA NextStep ==
  ASSUME Lockstep, [Next]_overlayVars
  PROVE  Lockstep' /\ [Nested!NestedNext]_(Nested!nestedVars)
<1>1. ASSUME NEW a \in Area, NEW k \in Key, NEW value \in Value \cup {Deleted},
             NEW at \in ExtrinsicIndex(a), SetStorage(a, k, value, at)
      PROVE  Lockstep' /\ Nested!NestedNext
  <2>1. Lockstep' /\ Nested!Write(a, k, value, at)
    BY <1>1, SetStorageStep
  <2> QED
    BY <2>1, ExtrinsicIndexAt DEF Nested!NestedNext
<1>2. ASSUME NEW k \in Key, NEW value \in Value,
             NEW at \in ExtrinsicIndex("top"), AppendStorage(k, value, at)
      PROVE  Lockstep' /\ Nested!NestedNext
  <2>1. "top" \in Area /\ value \in Value \cup {Deleted}
    BY DEF Area
  <2>2. Lockstep' /\ \E by \in ExtrinsicIndex("top") : Nested!Write("top", k, value, by)
    BY <1>2, AppendStorageStep
  <2> QED
    BY <2>1, <2>2, ExtrinsicIndexAt DEF Nested!NestedNext
<1>3. ASSUME NEW a \in Tracked, NEW keys \in SUBSET Key,
             NEW at \in ExtrinsicIndex(a), ClearKeys(a, keys, at)
      PROVE  Lockstep' /\ Nested!NestedNext
  <2>1. a \in Area
    BY DEF Tracked
  <2>2. Lockstep' /\ Nested!Clear(a, keys, at)
    BY <1>3, <2>1, ClearKeysStep
  <2> QED
    BY <2>1, <2>2, ExtrinsicIndexAt, SMTT(30) DEF Nested!NestedNext
<1>4. CASE AddTransactionIndex
  BY <1>4, AreasUnchanged DEF AddTransactionIndex
<1>5. CASE StartTransaction
  BY <1>5, StartTransactionStep DEF Nested!NestedNext
<1>6. CASE RollbackTransaction
  BY <1>6, RollbackTransactionStep DEF Nested!NestedNext
<1>7. CASE CommitTransaction
  BY <1>7, CommitTransactionStep, SMTT(30) DEF Nested!NestedNext
<1>8. CASE EnterRuntime
  BY <1>8, EnterRuntimeStep, SMTT(30) DEF Nested!NestedNext
<1>9. CASE ExitRuntime
  BY <1>9, ExitRuntimeStep DEF Nested!NestedNext
<1>10. CASE DrainStorageChanges
  BY <1>10, DrainStorageChangesStep DEF Nested!NestedNext
<1>11. CASE UNCHANGED overlayVars
  BY <1>11, AreasUnchanged DEF overlayVars
<1> QED
  BY <1>1, <1>2, <1>3, <1>4, <1>5, <1>6, <1>7, <1>8, <1>9, <1>10, <1>11, SMTT(30) DEF Next

\* Lockstep is an invariant, for every number of nested transactions, every set
\* of child storages and every set of keys.
LEMMA LockstepAlways == Spec => []Lockstep
<1>1. Init => Lockstep
  BY InitStep
<1>2. Lockstep /\ [Next]_overlayVars => Lockstep'
  BY NextStep
<1> QED
  BY <1>1, <1>2, PTL DEF Spec

\* The code's `expect`s hold: in every map a key has one version per open
\* transaction that wrote it and at most one below them, and the maps of the top,
\* offchain and child storages agree on their transactions, so that
\* commit_transaction, rollback_transaction and exit_runtime never fail half way.
THEOREM DirtySetsExact == Spec => []VersionsMatchDirty
<1>1. Lockstep => VersionsMatchDirty
  <2> SUFFICES ASSUME Lockstep PROVE VersionsMatchDirty
    OBVIOUS
  <2>1. InStep(areas, Depth(TopMap), TopMap.client, TopMap.mode)
    BY DEF Lockstep
  <2>2. ASSUME NEW a \in Present
        PROVE  /\ VersionsMatch(areas[a]) /\ Depth(areas[a]) = Depth(TopMap)
               /\ areas[a].client = TopMap.client /\ areas[a].mode = TopMap.mode
    <3>1. a \in Area /\ areas[a] # None
      BY DEF Present
    <3> QED
      BY <2>1, <3>1, InStepMap, SMTT(30) DEF Well
  <2>3. TopMap.mode = "runtime" => TopMap.client <= Depth(TopMap)
    BY <2>1 DEF InStep
  <2> QED
    BY <2>2, <2>3 DEF VersionsMatchDirty
<1> QED
  BY <1>1, LockstepAlways, PTL

\* The overlay of versions and dirty sets (OverlayedChanges over OverlayedMap)
\* implements nested transactions that copy the whole storage: whatever is read,
\* rolled back or committed is what the stack of full views says, for the top,
\* offchain and child storages at once.
THEOREM OverlayRefinesNested == Spec => ImplementsNested
<1>1. Init => Nested!NestedInit
  BY InitStep
<1>2. Lockstep /\ [Next]_overlayVars => [Nested!NestedNext]_(Nested!nestedVars)
  BY NextStep
<1> QED
  BY <1>1, <1>2, LockstepAlways, PTL DEF Spec, ImplementsNested, Nested!NestedSpec
=============================================================================
