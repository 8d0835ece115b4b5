-------------------------- MODULE RefWindowProofs --------------------------
(***************************************************************************)
(* Pruning is safe whether or not the back end counts references, the      *)
(* index and the journal match the rows, and nothing is leaked.  The       *)
(* invariants differ for back ends without reference counting (Inv, Tight) *)
(* and with it (CountedInv).                                               *)
(***************************************************************************)
EXTENDS RefWindowHistory, RefWindowSafety

-----------------------------------------------------------------------------
(***************************************************************************)
(* Nothing is leaked.  A stored node is in the newest state or left the    *)
(* chain for good at an unpruned block (NoLeakIn), and the row of that     *)
(* block has it (RowsComplete): import takes a key off its row only when   *)
(* the key comes back.  revert_pending forgets the block that brought it   *)
(* back but not that it was taken off, hence ~reverted.                    *)
(***************************************************************************)
Leaves(d, end, k) ==
  \E n \in FirstUnpruned(d) .. end - 1 :
    k \in TrieBefore(d, n) /\ \A m \in n .. end - 1 : k \notin d.trie[m]

NoLeakIn(d, end) ==
  \A k \in Key : d.data[k] > 0 => k \in TrieBefore(d, end) \/ Leaves(d, end, k)

RowsComplete ==
  \A n \in DOMAIN deathRows : \A k \in TrieBefore(tx, n) :
    (\A m \in n .. windowEnd - 1 : k \notin tx.trie[m]) => k \in deathRows[n].deleted

Tight ==
  /\ NoLeakIn(tx, windowEnd)
  /\ phase = "open" => NoLeakIn(disk, windowEnd - noted)
  /\ RowsComplete

LEMMA TrieBeforeNext ==
  ASSUME NEW d, NEW n \in Nat
  PROVE  TrieBefore(d, n + 1) = d.trie[n]
BY DEF TrieBefore

\* Canonicalizing leaks nothing: a node that left the chain at a block pruned
\* now is in the row that prune_one executes.
LEMMA CanonicalizeTight ==
  ASSUME CountInsertions, TypeOK, TypeOK', Tight,
         NEW hash \in BlockHash, NEW nodes \in SUBSET Key, NEW upTo \in 0 .. MaxNumber,
         CanonicalizeBlock(hash, nodes, upTo)
  PROVE  Tight'
<1> DEFINE end      == windowEnd
           old      == TrieBefore(tx, end)
           inserted == nodes \ old
           deleted  == old \ nodes
           first    == pendingNumber + prunings
           noteTx   == NoteCanonicalTx(tx, end, hash, nodes)
<1>0. Canonicalized(hash, nodes, upTo)
  BY CanonicalizeEffect
<1>1. /\ pendingNumber \in Nat /\ prunings \in Nat /\ end \in Nat /\ upTo \in Nat
      /\ first <= upTo /\ upTo <= end + 1 /\ first <= end /\ noted \in 0 .. end
      /\ FirstUnpruned(tx) = first /\ FirstUnpruned(tx') = upTo
      /\ phase = "open" /\ windowEnd' = end + 1 /\ noted' = noted + 1 /\ disk' = disk
      /\ DOMAIN deathRows = pendingNumber .. end - 1
      /\ DOMAIN deathRows' = pendingNumber .. end
      /\ tx.data \in [Key -> Nat] /\ old \in SUBSET Key
  BY <1>0, Zenon DEF Canonicalized
<1>2. /\ tx'.trie[end] = nodes
      /\ \A n \in 0 .. end - 1 : tx'.trie[n] = tx.trie[n]
      /\ \A n \in 0 .. end : TrieBefore(tx', n) = TrieBefore(tx, n)
  <2>1. /\ tx'.trie = [m \in 0 .. end |-> IF m = end THEN nodes ELSE tx.trie[m]]
        /\ \A n \in 0 .. end : TrieBefore(tx', n) = TrieBefore(tx, n)
    BY <1>0, Zenon DEF Canonicalized
  <2> QED
    BY <1>1, <2>1
<1>3. /\ deathRows'[end].deleted = deleted
      /\ \A m \in pendingNumber .. end - 1 : \A k \in deathRows[m].deleted :
           k \notin inserted => k \in deathRows'[m].deleted
  <2>1. /\ deathRows'[end] = [hash |-> hash, deleted |-> deleted]
        /\ \A m \in pendingNumber .. end - 1 :
             deathRows'[m].deleted = {k \in deathRows[m].deleted :
                                       ~(Revived(deathIndex, k, inserted) /\ deathIndex[k] = m)}
    BY <1>0, Zenon DEF Canonicalized
  <2> HIDE DEF inserted, deleted
  <2> QED
    BY <2>1 DEF Revived
<1>4. RowsComplete'
  <2> SUFFICES ASSUME NEW n \in DOMAIN deathRows', NEW k \in TrieBefore(tx', n),
                      \A m \in n .. windowEnd' - 1 : k \notin tx'.trie[m]
               PROVE  k \in deathRows'[n].deleted
    BY DEF RowsComplete
  <2>1. /\ n \in pendingNumber .. end /\ k \in TrieBefore(tx, n)
        /\ \A m \in n .. end : k \notin tx'.trie[m]
    BY <1>1, <1>2
  <2>2. k \notin nodes
    BY <1>1, <1>2, <2>1
  <2>3. CASE n = end
    BY <1>3, <2>1, <2>2, <2>3
  <2>4. CASE n # end
    <3>1. n \in DOMAIN deathRows /\ \A m \in n .. windowEnd - 1 : k \notin tx.trie[m]
      BY <1>1, <1>2, <2>1, <2>4
    <3>2. k \in deathRows[n].deleted
      BY <2>1, <3>1 DEF Tight, RowsComplete
    <3> QED
      BY <1>1, <1>3, <2>2, <3>1, <3>2
  <2> QED
    BY <2>3, <2>4
<1>5. ASSUME NEW k \in Key, tx'.data[k] > 0, k \notin nodes
      PROVE  /\ tx.data[k] > 0
             /\ \A m \in first .. upTo - 1 : k \notin deathRows'[m].deleted
  <2> DEFINE S == {m \in first .. upTo - 1 : k \in deathRows'[m].deleted}
  <2>1. tx'.data[k] = Dereference(noteTx.data, k, Cardinality(S))
    BY <1>0 DEF Canonicalized, PruneTx
  <2>2. noteTx.data[k] = tx.data[k]
    BY <1>5 DEF NoteCanonicalTx, Put
  <2>3. Cardinality(S) = 0
    BY <1>5, <2>1 DEF Dereference
  <2>4. IsFiniteSet(S)
    <3>1. IsFiniteSet(first .. upTo - 1)
      <4>1. first \in Int /\ upTo - 1 \in Int
        BY <1>1
      <4> HIDE DEF first
      <4> QED
        BY <4>1, FS_Interval, Zenon
    <3> QED
      BY <3>1, FS_Subset, Zenon
  <2>5. S = {}
    BY <2>3, <2>4, FS_EmptySet
  <2>6. tx'.data[k] = tx.data[k]
    BY <2>1, <2>2, <2>3 DEF Dereference
  <2> QED
    BY <1>5, <2>5, <2>6, SMTT(30)
<1>6. NoLeakIn(tx', end + 1)
  <2> SUFFICES ASSUME NEW k \in Key, tx'.data[k] > 0, k \notin TrieBefore(tx', end + 1)
               PROVE  Leaves(tx', end + 1, k)
    BY DEF NoLeakIn
  <2>1. k \notin nodes
    <3>1. TrieBefore(tx', end + 1) = tx'.trie[end]
      <4>1. end \in Nat
        BY <1>1
      <4> HIDE DEF end
      <4> QED
        BY <4>1, TrieBeforeNext
    <3> QED
      BY <1>2, <3>1
  <2>2. tx.data[k] > 0 /\ \A m \in first .. upTo - 1 : k \notin deathRows'[m].deleted
    BY <1>5, <2>1
  <2>3. PICK n \in first .. end : k \in TrieBefore(tx', n) /\ \A m \in n .. end : k \notin tx'.trie[m]
    <3>1. CASE k \in old
      BY <1>1, <1>2, <2>1, <3>1
    <3>2. CASE k \notin old
      <4>1. Leaves(tx, end, k)
        BY <2>2, <3>2 DEF Tight, NoLeakIn
      <4>2. PICK n \in first .. end - 1 :
              k \in TrieBefore(tx, n) /\ \A m \in n .. end - 1 : k \notin tx.trie[m]
        BY <1>1, <4>1 DEF Leaves
      <4> QED
        BY <1>1, <1>2, <2>1, <4>2, SMTT(30)
    <3> QED
      BY <3>1, <3>2
  <2>4. k \in deathRows'[n].deleted
    <3>1. n \in DOMAIN deathRows' /\ windowEnd' - 1 = end
      BY <1>1
    <3> QED
      BY <1>4, <2>3, <3>1 DEF RowsComplete
  <2>5. n >= upTo
    BY <1>1, <2>2, <2>4
  <2>6. FirstUnpruned(tx') = upTo /\ (end + 1) - 1 = end /\ n \in upTo .. end
    BY <1>1, <2>5
  <2> QED
    BY <2>3, <2>6 DEF Leaves
<1>7. NoLeakIn(disk, windowEnd - noted)'
  <2>1. (windowEnd - noted)' = windowEnd - noted /\ disk' = disk
    BY <1>1
  <2>2. NoLeakIn(disk, windowEnd - noted)
    BY <1>1 DEF Tight
  <2> QED
    BY <2>1, <2>2
<1>8. NoLeakIn(tx, windowEnd)'
  BY <1>1, <1>6
<1> QED
  BY <1>4, <1>7, <1>8 DEF Tight

\* The rows rebuilt by RefWindow::new are complete: a node that left the chain
\* for good is in the journal record of the block it left at and in no later
\* record.
LEMMA RestartTight ==
  ASSUME CountInsertions, Inv, Tight, Restart
  PROVE  Tight'
<1> DEFINE end == IF phase = "open" THEN windowEnd - noted ELSE windowEnd
<1>1. DiskOK(disk, end) /\ ChainOK(disk, end) /\ NoLeakIn(disk, end) /\ end \in 0 .. MaxNumber
  <2>1. CASE phase = "open"
    <3>1. /\ DiskOK(disk, windowEnd - noted) /\ ChainOK(disk, windowEnd - noted)
          /\ NoLeakIn(disk, windowEnd - noted)
          /\ noted \in 0 .. windowEnd /\ windowEnd \in 0 .. MaxNumber
      BY <2>1 DEF Inv, TypeOK, Tight
    <3>2. windowEnd - noted \in 0 .. MaxNumber /\ end = windowEnd - noted
      BY <2>1, <3>1, MaxNumberAssumption
    <3> QED
      BY <3>1, <3>2
  <2>2. CASE phase # "open"
    BY <2>2 DEF Inv, TypeOK, Tight
  <2> QED
    BY <2>1, <2>2
<1> HIDE DEF end
<1>2. JournalEnd(disk) = end
  BY <1>1, JournalEndUnique
<1>3. /\ tx' = disk /\ disk' = disk /\ windowEnd' = end /\ (windowEnd - noted)' = end
      /\ deathRows' = RestoredRows(disk)
      /\ FirstUnpruned(disk) \in Nat /\ end \in Nat
  BY <1>1, <1>2, NoneAssumption, MaxNumberAssumption DEF Restart, DiskOK, FirstUnpruned
<1>4. ASSUME NEW n \in FirstUnpruned(disk) .. end - 1, NEW k \in TrieBefore(disk, n),
             \A m \in n .. end - 1 : k \notin disk.trie[m]
      PROVE  k \in RestoredRows(disk)[n].deleted
  <2>1. k \in disk.journal[n].deleted
    BY <1>1, <1>3, <1>4 DEF ChainOK
  <2>2. \A m \in n + 1 .. end - 1 : k \notin disk.journal[m].inserted
    BY <1>1, <1>3, <1>4 DEF ChainOK
  <2> QED
    BY <1>2, <2>1, <2>2 DEF RestoredRows
<1>5. DOMAIN RestoredRows(disk) = FirstUnpruned(disk) .. end - 1
  BY <1>2 DEF RestoredRows
<1>6. RowsComplete'
  BY <1>3, <1>4, <1>5 DEF RowsComplete
<1> QED
  BY <1>1, <1>3, <1>6 DEF Tight

\* No steps but those of the window happen under the history variable.
LEMMA HistoryIsRefWindow == HistorySpec => Spec
<1>1. HistoryInit => Init
  BY DEF HistoryInit
<1>2. [HistoryNext]_<<vars, reverted>> => [Next]_vars
  BY DEF HistoryNext, Next
<1> QED
  BY <1>1, <1>2, PTL DEF HistorySpec, Spec

LEMMA TightInvariance == ASSUME CountInsertions PROVE HistorySpec => [](~reverted => Tight)
<1>1. HistoryInit => Tight
  <2> SUFFICES ASSUME Init PROVE Tight
    BY DEF HistoryInit
  <2>1. /\ tx = EmptyDisk /\ disk = EmptyDisk /\ windowEnd = 0 /\ windowEnd - noted = 0
        /\ DOMAIN deathRows = {}
    BY DEF Init
  <2>2. NoLeakIn(EmptyDisk, 0)
    BY DEF NoLeakIn, EmptyDisk
  <2> QED
    BY <2>1, <2>2 DEF Tight, RowsComplete
<1>2. /\ Inv /\ TypeOK' /\ (~reverted => Tight) /\ [HistoryNext]_<<vars, reverted>>
      => (~reverted => Tight)'
  <2> SUFFICES ASSUME Inv, TypeOK', ~reverted => Tight, [HistoryNext]_<<vars, reverted>>,
                      ~reverted'
               PROVE  Tight'
    OBVIOUS
  <2>0. ASSUME UNCHANGED reverted PROVE Tight
    BY <2>0
  <2>1. ASSUME NEW hash \in BlockHash, NEW nodes \in SUBSET Key, NEW upTo \in 0 .. MaxNumber,
               CanonicalizeBlock(hash, nodes, upTo), UNCHANGED reverted
        PROVE  Tight'
    BY <2>0, <2>1, CanonicalizeTight DEF Inv
  <2>2. CASE DbCommit /\ UNCHANGED reverted
    <3>1. memory' = memory /\ tx' = tx /\ phase' = "committed"
      BY <2>2 DEF DbCommit
    <3> QED
      BY <2>0, <2>2, <3>1 DEF Tight, RowsComplete, memory
  <2>3. CASE ApplyPending /\ UNCHANGED reverted
    <3>1. /\ tx' = tx /\ disk' = tx /\ windowEnd' = windowEnd /\ (windowEnd - noted)' = windowEnd
          /\ DOMAIN deathRows' \subseteq DOMAIN deathRows
          /\ \A n \in DOMAIN deathRows' : deathRows'[n] = deathRows[n]
      BY <2>3, MaxNumberAssumption DEF ApplyPending, Inv, TypeOK
    <3>2. NoLeakIn(tx, windowEnd)' /\ NoLeakIn(disk, windowEnd - noted)'
      BY <2>0, <2>3, <3>1 DEF Tight
    <3>3. RowsComplete'
      BY <2>0, <2>3, <3>1 DEF Tight, RowsComplete
    <3> QED
      BY <3>2, <3>3 DEF Tight
  <2>4. CASE Restart /\ UNCHANGED reverted
    BY <2>0, <2>4, RestartTight
  <2>5. CASE RevertPending /\ reverted' = TRUE
    BY <2>5
  <2>6. CASE UNCHANGED <<vars, reverted>>
    <3>1. memory' = memory /\ tx' = tx /\ disk' = disk /\ phase' = phase
      BY <2>6 DEF vars
    <3>2. windowEnd' = windowEnd /\ noted' = noted /\ deathRows' = deathRows
      BY <3>1 DEF memory
    <3>3. Tight
      BY <2>0, <2>6
    <3> QED
      BY <3>1, <3>2, <3>3 DEF Tight, RowsComplete
  <2> QED
    BY <2>1, <2>2, <2>3, <2>4, <2>5, <2>6 DEF HistoryNext
<1>3. HistorySpec => []Inv /\ []TypeOK
  BY HistoryIsRefWindow, Invariance, WindowShape, PTL
<1> QED
  BY <1>1, <1>2, <1>3, PTL DEF HistorySpec

LEMMA NothingLeaksUncounted ==
  ASSUME CountInsertions PROVE HistorySpec => []NoLeakUnlessReverted
<1>1. TypeOK /\ (~reverted => Tight) => NoLeakUnlessReverted
  <2> SUFFICES ASSUME TypeOK, Tight, NEW k \in Key, tx.data[k] > 0
               PROVE  \/ \E n \in DOMAIN tx.trie : n + 1 >= windowEnd /\ k \in tx.trie[n]
                      \/ \E n \in DOMAIN deathRows :
                           n >= pendingNumber + prunings /\ k \in deathRows[n].deleted
    BY DEF NoLeakUnlessReverted, NoLeak
  <2>1. /\ pendingNumber \in Nat /\ prunings \in Nat /\ windowEnd \in Nat
        /\ FirstUnpruned(tx) = pendingNumber + prunings
        /\ DOMAIN deathRows = pendingNumber .. windowEnd - 1
        /\ DOMAIN tx.trie = 0 .. windowEnd - 1
    BY MaxNumberAssumption DEF TypeOK, DiskOK
  <2>2. k \in TrieBefore(tx, windowEnd) \/ Leaves(tx, windowEnd, k)
    BY DEF Tight, NoLeakIn
  <2>3. CASE k \in TrieBefore(tx, windowEnd)
    <3>1. windowEnd # 0 /\ k \in tx.trie[windowEnd - 1]
      BY <2>3 DEF TrieBefore
    <3>2. windowEnd - 1 \in DOMAIN tx.trie /\ (windowEnd - 1) + 1 >= windowEnd
      BY <2>1, <3>1
    <3> QED
      BY <3>1, <3>2
  <2>4. CASE Leaves(tx, windowEnd, k)
    <3>1. PICK n \in pendingNumber + prunings .. windowEnd - 1 :
            k \in TrieBefore(tx, n) /\ \A m \in n .. windowEnd - 1 : k \notin tx.trie[m]
      BY <2>1, <2>4 DEF Leaves
    <3>2. n \in DOMAIN deathRows /\ n >= pendingNumber + prunings
      BY <2>1
    <3> QED
      BY <3>1, <3>2 DEF Tight, RowsComplete
  <2> QED
    BY <2>2, <2>3, <2>4
<1> QED
  BY <1>1, HistoryIsRefWindow, WindowShape, TightInvariance, PTL

-----------------------------------------------------------------------------
(***************************************************************************)
(* Back ends that count references.  There the rows are never changed, so  *)
(* safety rests on arithmetic instead: a node's count is one for the state *)
(* of the last pruned block plus one per later block that creates it       *)
(* (CountsExact), and creations and deletions of a node alternate along    *)
(* the chain (Alternating), so that executing the rows below upTo takes    *)
(* off exactly the references that moved into the state of the block that  *)
(* is pruned last.                                                         *)
(***************************************************************************)
Has(d, n, k) == IF k \in TrieBefore(d, n) THEN 1 ELSE 0

Creations(d, lo, hi, k) == {n \in lo .. hi - 1 : k \in d.trie[n] /\ k \notin TrieBefore(d, n)}
Deletions(d, lo, hi, k) == {n \in lo .. hi - 1 : k \notin d.trie[n] /\ k \in TrieBefore(d, n)}

CountsExact(d, end) ==
  \A k \in Key :
    d.data[k] = Has(d, FirstUnpruned(d), k) + Cardinality(Creations(d, FirstUnpruned(d), end, k))

Alternating(d, end) ==
  \A k \in Key : \A lo, hi \in 0 .. end :
    lo <= hi =>
      Has(d, lo, k) + Cardinality(Creations(d, lo, hi, k))
        = Has(d, hi, k) + Cardinality(Deletions(d, lo, hi, k))

RecordsExact(d, end) ==
  \A n \in FirstUnpruned(d) .. end - 1 :
    /\ d.journal[n].inserted = {}
    /\ d.journal[n].deleted = TrieBefore(d, n) \ d.trie[n]

Counted(d, end) ==
  CountsExact(d, end) /\ Alternating(d, end) /\ RecordsExact(d, end)

RowsExact ==
  \A n \in DOMAIN deathRows : deathRows[n].deleted = TrieBefore(tx, n) \ tx.trie[n]

CountedInv ==
  /\ TypeOK
  /\ Counted(tx, windowEnd)
  /\ RowsFromJournal(tx, windowEnd)
  /\ RowsExact
  /\ phase = "open" => /\ Counted(disk, windowEnd - noted)
                       /\ RowsFromJournal(disk, windowEnd - noted)
                       /\ \A n \in 0 .. (windowEnd - noted) - 1 : disk.trie[n] = tx.trie[n]

LEMMA CountTypes ==
  ASSUME NEW d, NEW lo \in Nat, NEW hi \in Nat, NEW k
  PROVE  /\ IsFiniteSet(Creations(d, lo, hi, k)) /\ IsFiniteSet(Deletions(d, lo, hi, k))
         /\ Cardinality(Creations(d, lo, hi, k)) \in Nat
         /\ Cardinality(Deletions(d, lo, hi, k)) \in Nat
<1>1. IsFiniteSet(lo .. hi - 1)
  BY FS_Interval
<1>2. Creations(d, lo, hi, k) \in SUBSET (lo .. hi - 1) /\ Deletions(d, lo, hi, k) \in SUBSET (lo .. hi - 1)
  BY DEF Creations, Deletions
<1>3. IsFiniteSet(Creations(d, lo, hi, k)) /\ IsFiniteSet(Deletions(d, lo, hi, k))
  BY <1>1, <1>2, FS_Subset
<1> QED
  BY <1>3, FS_CardinalityType

LEMMA CreationsSplit ==
  ASSUME NEW d, NEW lo \in Nat, NEW mid \in Nat, NEW hi \in Nat, lo <= mid, mid <= hi, NEW k
  PROVE  Cardinality(Creations(d, lo, hi, k))
           = Cardinality(Creations(d, lo, mid, k)) + Cardinality(Creations(d, mid, hi, k))
<1> DEFINE S == Creations(d, lo, mid, k)
           T == Creations(d, mid, hi, k)
<1>1. Creations(d, lo, hi, k) = S \cup T
  BY DEF Creations
<1>2. S \cap T = {}
  BY DEF Creations
<1>3. /\ IsFiniteSet(S) /\ Cardinality(S) \in Nat
      /\ IsFiniteSet(T) /\ Cardinality(T) \in Nat
  BY CountTypes
<1> HIDE DEF S, T
<1>4. Cardinality(S \cup T) = Cardinality(S) + Cardinality(T) - Cardinality(S \cap T)
  BY <1>3, FS_Union
<1>5. Cardinality(S \cap T) = 0
  BY <1>2, FS_EmptySet
<1>6. Cardinality(S \cup T) = Cardinality(S) + Cardinality(T)
  BY <1>3, <1>4, <1>5
<1> QED
  BY <1>1, <1>6 DEF S, T

\* The chain e is the chain d with the state nodes appended.
Appends(d, e, end, nodes) ==
  /\ e.trie[end] = nodes
  /\ \A n \in 0 .. end - 1 : e.trie[n] = d.trie[n]
  /\ \A n \in 0 .. end : TrieBefore(e, n) = TrieBefore(d, n)

LEMMA AppendCounts ==
  ASSUME NEW d, NEW e, NEW end \in Nat, NEW nodes, Appends(d, e, end, nodes),
         NEW k, NEW lo \in 0 .. end
  PROVE  /\ \A hi \in 0 .. end : /\ Creations(e, lo, hi, k) = Creations(d, lo, hi, k)
                                 /\ Deletions(e, lo, hi, k) = Deletions(d, lo, hi, k)
                                 /\ Has(e, hi, k) = Has(d, hi, k)
         /\ Has(e, end + 1, k) = IF k \in nodes THEN 1 ELSE 0
         /\ Cardinality(Creations(e, lo, end + 1, k)) =
              Cardinality(Creations(d, lo, end, k))
                + IF k \in nodes /\ k \notin TrieBefore(d, end) THEN 1 ELSE 0
         /\ Cardinality(Deletions(e, lo, end + 1, k)) =
              Cardinality(Deletions(d, lo, end, k))
                + IF k \notin nodes /\ k \in TrieBefore(d, end) THEN 1 ELSE 0
<1> DEFINE C == Creations(d, lo, end, k)
           D == Deletions(d, lo, end, k)
<1>1. ASSUME NEW hi \in 0 .. end
      PROVE  /\ Creations(e, lo, hi, k) = Creations(d, lo, hi, k)
             /\ Deletions(e, lo, hi, k) = Deletions(d, lo, hi, k)
             /\ Has(e, hi, k) = Has(d, hi, k)
  BY DEF Appends, Creations, Deletions, Has
<1>2. Has(e, end + 1, k) = IF k \in nodes THEN 1 ELSE 0
  BY DEF Appends, Has, TrieBefore
<1>3. Creations(e, lo, end + 1, k) =
        IF k \in nodes /\ k \notin TrieBefore(d, end) THEN C \cup {end} ELSE C
  BY DEF Appends, Creations
<1>4. Deletions(e, lo, end + 1, k) =
        IF k \notin nodes /\ k \in TrieBefore(d, end) THEN D \cup {end} ELSE D
  BY DEF Appends, Deletions
<1>5. /\ end \notin C /\ IsFiniteSet(C) /\ Cardinality(C) \in Nat
      /\ end \notin D /\ IsFiniteSet(D) /\ Cardinality(D) \in Nat
  <2>1. end \notin C /\ end \notin D
    BY DEF Creations, Deletions
  <2> QED
    BY <2>1, CountTypes
<1> HIDE DEF C, D
<1>6. Cardinality(C \cup {end}) = Cardinality(C) + 1 /\ Cardinality(D \cup {end}) = Cardinality(D) + 1
  BY <1>5, FS_AddElement, Zenon
<1>7. Cardinality(Creations(e, lo, end + 1, k)) =
        Cardinality(C) + IF k \in nodes /\ k \notin TrieBefore(d, end) THEN 1 ELSE 0
  BY <1>3, <1>5, <1>6
<1>8. Cardinality(Deletions(e, lo, end + 1, k)) =
        Cardinality(D) + IF k \notin nodes /\ k \in TrieBefore(d, end) THEN 1 ELSE 0
  BY <1>4, <1>5, <1>6
<1> QED
  BY <1>1, <1>2, <1>7, <1>8 DEF C, D

\* Creations and deletions of a node keep alternating when a block is added.
LEMMA AppendAlternates ==
  ASSUME NEW d, NEW e, NEW end \in Nat, NEW nodes, Appends(d, e, end, nodes), Alternating(d, end)
  PROVE  Alternating(e, end + 1)
<1> SUFFICES ASSUME NEW k \in Key, NEW lo \in 0 .. end + 1, NEW hi \in 0 .. end + 1, lo <= hi
             PROVE  Has(e, lo, k) + Cardinality(Creations(e, lo, hi, k))
                      = Has(e, hi, k) + Cardinality(Deletions(e, lo, hi, k))
  BY DEF Alternating
<1>1. CASE hi <= end
  <2>1. lo \in 0 .. end /\ hi \in 0 .. end
    BY <1>1
  <2>2. Has(d, lo, k) + Cardinality(Creations(d, lo, hi, k))
          = Has(d, hi, k) + Cardinality(Deletions(d, lo, hi, k))
    BY <2>1 DEF Alternating
  <2>3. \A h \in 0 .. end : /\ Creations(e, lo, h, k) = Creations(d, lo, h, k)
                                 /\ Deletions(e, lo, h, k) = Deletions(d, lo, h, k)
                                 /\ Has(e, h, k) = Has(d, h, k)
    BY <2>1, AppendCounts
  <2>4. /\ Creations(e, lo, hi, k) = Creations(d, lo, hi, k)
        /\ Deletions(e, lo, hi, k) = Deletions(d, lo, hi, k)
        /\ Has(e, hi, k) = Has(d, hi, k)
    BY <2>1, <2>3
  <2>5. Has(e, lo, k) = Has(d, lo, k)
    BY <2>1, <2>3
  <2> QED
    BY <2>2, <2>4, <2>5, Zenon
<1>2. CASE hi = end + 1 /\ lo <= end
  <2>1. lo \in 0 .. end /\ end \in 0 .. end
    BY <1>2
  <2>2. Has(d, lo, k) + Cardinality(Creations(d, lo, end, k))
          = Has(d, end, k) + Cardinality(Deletions(d, lo, end, k))
    BY <2>1 DEF Alternating
  <2>3. \A h \in 0 .. end : Has(e, h, k) = Has(d, h, k)
    BY <2>1, AppendCounts
  <2>4. Has(e, lo, k) = Has(d, lo, k)
    BY <2>1, <2>3
  <2>5. /\ Has(e, end + 1, k) = IF k \in nodes THEN 1 ELSE 0
        /\ Cardinality(Creations(e, lo, end + 1, k)) =
             Cardinality(Creations(d, lo, end, k))
               + IF k \in nodes /\ k \notin TrieBefore(d, end) THEN 1 ELSE 0
        /\ Cardinality(Deletions(e, lo, end + 1, k)) =
             Cardinality(Deletions(d, lo, end, k))
               + IF k \notin nodes /\ k \in TrieBefore(d, end) THEN 1 ELSE 0
    BY <2>1, AppendCounts
  <2>6. /\ Cardinality(Creations(d, lo, end, k)) \in Nat
        /\ Cardinality(Deletions(d, lo, end, k)) \in Nat
    BY <2>1, CountTypes
  <2>7. /\ Has(d, end, k) = IF k \in TrieBefore(d, end) THEN 1 ELSE 0
        /\ Has(d, lo, k) \in Nat
    BY DEF Has
  <2> QED
    BY <1>2, <2>2, <2>4, <2>5, <2>6, <2>7
<1>3. CASE lo = end + 1
  <2>1. hi = lo
    BY <1>3
  <2>2. Creations(e, lo, lo, k) = {} /\ Deletions(e, lo, lo, k) = {}
    BY DEF Creations, Deletions
  <2> QED
    BY <2>1, <2>2
<1> QED
  BY <1>1, <1>2, <1>3

\* Executing the rows of first .. upTo - 1 leaves every node exactly the
\* references of the state of block upTo - 1 and of the blocks from upTo on.
LEMMA PruneCounts ==
  ASSUME ~CountInsertions, NEW d, NEW data \in [Key -> Nat],
         NEW first \in Nat, NEW upTo \in Nat, NEW end \in Nat, first <= upTo, upTo <= end,
         Alternating(d, end), NEW k \in Key,
         data[k] = Has(d, first, k) + Cardinality(Creations(d, first, end, k))
  PROVE  Dereference(data, k, Cardinality(Deletions(d, first, upTo, k)))
           = Has(d, upTo, k) + Cardinality(Creations(d, upTo, end, k))
<1>1. Cardinality(Creations(d, first, end, k))
        = Cardinality(Creations(d, first, upTo, k)) + Cardinality(Creations(d, upTo, end, k))
  BY CreationsSplit
<1>2. first \in 0 .. end /\ upTo \in 0 .. end
  OBVIOUS
<1>3. Has(d, first, k) + Cardinality(Creations(d, first, upTo, k))
        = Has(d, upTo, k) + Cardinality(Deletions(d, first, upTo, k))
  BY <1>2 DEF Alternating
<1>4. /\ Cardinality(Creations(d, first, upTo, k)) \in Nat
      /\ Cardinality(Creations(d, upTo, end, k)) \in Nat
      /\ Cardinality(Deletions(d, first, upTo, k)) \in Nat
  BY CountTypes
<1>5. Has(d, first, k) \in Nat /\ Has(d, upTo, k) \in Nat
  BY DEF Has
<1>6. data[k] = Has(d, upTo, k) + Cardinality(Deletions(d, first, upTo, k))
                  + Cardinality(Creations(d, upTo, end, k))
  BY <1>1, <1>3, <1>4, <1>5, SMTT(30)
<1> QED
  BY <1>4, <1>5, <1>6 DEF Dereference

LEMMA CanonicalizeCounted ==
  ASSUME ~CountInsertions, CountedInv, TypeOK',
         NEW hash \in BlockHash, NEW nodes \in SUBSET Key, NEW upTo \in 0 .. MaxNumber,
         CanonicalizeBlock(hash, nodes, upTo)
  PROVE  CountedInv'
<1> DEFINE end      == windowEnd
           old      == TrieBefore(tx, end)
           inserted == nodes \ old
           deleted  == old \ nodes
           first    == pendingNumber + prunings
           noteTx   == NoteCanonicalTx(tx, end, hash, nodes)
<1>0. TypeOK /\ Canonicalized(hash, nodes, upTo)
  BY CanonicalizeEffect, Zenon DEF CountedInv
<1>1. /\ pendingNumber \in Nat /\ prunings \in Nat /\ end \in Nat /\ upTo \in Nat
      /\ first <= upTo /\ upTo <= end + 1 /\ first <= end /\ noted \in 0 .. end
      /\ FirstUnpruned(tx) = first /\ FirstUnpruned(tx') = upTo
      /\ phase = "open" /\ windowEnd' = end + 1 /\ noted' = noted + 1 /\ disk' = disk
      /\ DOMAIN deathRows = pendingNumber .. end - 1
      /\ DOMAIN deathRows' = pendingNumber .. end
      /\ tx.data \in [Key -> Nat] /\ old \in SUBSET Key
  BY <1>0, Zenon DEF Canonicalized
<1>2. Appends(tx, tx', end, nodes)
  <2>1. /\ tx'.trie = [m \in 0 .. end |-> IF m = end THEN nodes ELSE tx.trie[m]]
        /\ \A n \in 0 .. end : TrieBefore(tx', n) = TrieBefore(tx, n)
    BY <1>0, Zenon DEF Canonicalized
  <2> QED
    BY <1>1, <2>1, SMTT(30) DEF Appends
<1>3. /\ deathRows'[end] = [hash |-> hash, deleted |-> deleted]
      /\ \A m \in pendingNumber .. end - 1 : /\ deathRows'[m].hash = deathRows[m].hash
                                             /\ deathRows'[m].deleted = deathRows[m].deleted
  <2>1. /\ deathRows'[end] = [hash |-> hash, deleted |-> deleted]
        /\ \A m \in pendingNumber .. end - 1 :
             /\ deathRows'[m].hash = deathRows[m].hash
             /\ deathRows'[m].deleted = {k \in deathRows[m].deleted :
                                          ~(Revived(deathIndex, k, inserted) /\ deathIndex[k] = m)}
    BY <1>0, Zenon DEF Canonicalized
  <2> HIDE DEF inserted, deleted
  <2> QED
    BY <2>1, ZenonT(60) DEF Revived
<1>4. \A n \in upTo .. end : tx'.journal[n] =
            IF n = end THEN JournalRecord(hash, inserted, deleted) ELSE tx.journal[n]
  BY <1>0, ZenonT(60) DEF Canonicalized
<1>5. RowsExact'
  <2> SUFFICES ASSUME NEW n \in DOMAIN deathRows'
               PROVE  deathRows'[n].deleted = TrieBefore(tx', n) \ tx'.trie[n]
    BY DEF RowsExact
  <2>1. CASE n = end
    BY <1>1, <1>2, <1>3, <2>1, SMTT(30) DEF Appends
  <2>2. CASE n # end
    <3>1. n \in pendingNumber .. end - 1 /\ n \in 0 .. end - 1 /\ n \in 0 .. end
      BY <1>1, <2>2
    <3>2. deathRows[n].deleted = TrieBefore(tx, n) \ tx.trie[n]
      BY <1>1, <3>1 DEF CountedInv, RowsExact
    <3> QED
      BY <1>2, <1>3, <3>1, <3>2, SMTT(30) DEF Appends
  <2> QED
    BY <2>1, <2>2
<1>6. Alternating(tx', end + 1)
  <2>1. Alternating(tx, end)
    BY DEF CountedInv, Counted
  <2> QED
    BY <1>1, <1>2, <2>1, AppendAlternates, SMTT(30)
<1>7. CountsExact(tx', end + 1)
  <2> SUFFICES ASSUME NEW k \in Key
               PROVE  tx'.data[k] = Has(tx', upTo, k) + Cardinality(Creations(tx', upTo, end + 1, k))
    BY <1>1 DEF CountsExact
  <2>1. tx.data[k] = Has(tx, first, k) + Cardinality(Creations(tx, first, end, k))
    BY <1>1 DEF CountedInv, Counted, CountsExact
  <2>2. noteTx.data[k] = tx.data[k] + IF k \in nodes /\ k \notin TrieBefore(tx, end) THEN 1 ELSE 0
    BY <1>1 DEF NoteCanonicalTx, Put
  <2>3. \A h \in 0 .. end : Has(tx', h, k) = Has(tx, h, k)
    BY <1>2, SMTT(30) DEF Appends, Has
  <2>4. Cardinality(Creations(tx', first, end + 1, k)) =
          Cardinality(Creations(tx, first, end, k))
            + IF k \in nodes /\ k \notin TrieBefore(tx, end) THEN 1 ELSE 0
    <3>1. first \in 0 .. end
      BY <1>1
    <3> QED
      BY <1>1, <1>2, <3>1, AppendCounts, SMTT(30)
  <2>5. Has(tx', first, k) = Has(tx, first, k) /\ Has(tx, first, k) \in Nat
    BY <1>1, <2>3 DEF Has
  <2>6. Cardinality(Creations(tx, first, end, k)) \in Nat
    BY <1>1, CountTypes
  <2>7. noteTx.data[k] = Has(tx', first, k) + Cardinality(Creations(tx', first, end + 1, k))
    BY <2>1, <2>2, <2>4, <2>5, <2>6, SMTT(30)
  <2>8. noteTx.data \in [Key -> Nat]
    BY <1>1, SMTT(30) DEF NoteCanonicalTx, Put
  <2>9. Dereference(noteTx.data, k, Cardinality(Deletions(tx', first, upTo, k)))
          = Has(tx', upTo, k) + Cardinality(Creations(tx', upTo, end + 1, k))
    <3>1. first \in Nat /\ end + 1 \in Nat
      BY <1>1
    <3> HIDE DEF noteTx, first, end
    <3> QED
      BY <1>1, <1>6, <2>7, <2>8, <3>1, PruneCounts, SMTT(30)
  <2>10. {m \in first .. upTo - 1 : k \in deathRows'[m].deleted} = Deletions(tx', first, upTo, k)
    <3>1. \A m \in first .. upTo - 1 : m \in DOMAIN deathRows'
      BY <1>1, SMTT(30)
    <3>2. \A m \in first .. upTo - 1 : deathRows'[m].deleted = TrieBefore(tx', m) \ tx'.trie[m]
      BY <1>5, <3>1, Zenon DEF RowsExact
    <3> HIDE DEF first
    <3> QED
      BY <3>2 DEF Deletions
  <2>11. tx'.data[k] = Dereference(noteTx.data, k,
                         Cardinality({m \in first .. upTo - 1 : k \in deathRows'[m].deleted}))
    <3>1. tx' = PruneTx(noteTx, deathRows', first, upTo)
      BY <1>0, Zenon DEF Canonicalized
    <3> HIDE DEF noteTx, first
    <3> QED
      BY <3>1 DEF PruneTx
  <2> QED
    BY <2>9, <2>10, <2>11, Zenon
<1>8. RecordsExact(tx', end + 1)
  <2>0. FirstUnpruned(tx') = upTo /\ (end + 1) - 1 = end
    BY <1>1
  <2> SUFFICES ASSUME NEW n \in upTo .. end
               PROVE  /\ tx'.journal[n].inserted = {}
                      /\ tx'.journal[n].deleted = TrieBefore(tx', n) \ tx'.trie[n]
    BY <2>0 DEF RecordsExact
  <2>1. CASE n = end
    <3>1. tx'.trie[end] = nodes /\ TrieBefore(tx', end) = old
      BY <1>1, <1>2, SMTT(30) DEF Appends
    <3> QED
      BY <1>4, <2>1, <3>1 DEF JournalRecord
  <2>2. CASE n # end
    <3>1. n \in FirstUnpruned(tx) .. end - 1 /\ n \in 0 .. end - 1 /\ n \in 0 .. end
      BY <1>1, <2>2, SMTT(30)
    <3>2. tx.journal[n].inserted = {} /\ tx.journal[n].deleted = TrieBefore(tx, n) \ tx.trie[n]
      BY <3>1, SMTT(30) DEF CountedInv, Counted, RecordsExact
    <3> QED
      BY <1>2, <1>4, <2>2, <3>1, <3>2, SMTT(30) DEF Appends
  <2> QED
    BY <2>1, <2>2
<1>9. RowsFromJournal(tx, windowEnd)'
  <2>0. FirstUnpruned(tx)' = upTo /\ (windowEnd - 1)' = end
    BY <1>1
  <2> SUFFICES ASSUME NEW n \in upTo .. end
               PROVE  /\ deathRows'[n].hash = tx'.journal[n].hash
                      /\ deathRows'[n].deleted \subseteq tx'.journal[n].deleted
    BY <2>0 DEF RowsFromJournal
  <2>1. CASE n = end
    BY <1>3, <1>4, <2>1, SMTT(30) DEF JournalRecord
  <2>2. CASE n # end
    <3>1. n \in FirstUnpruned(tx) .. end - 1 /\ n \in pendingNumber .. end - 1
      BY <1>1, <2>2
    <3> QED
      BY <1>3, <1>4, <2>2, <3>1, SMTT(30) DEF CountedInv, RowsFromJournal
  <2> QED
    BY <2>1, <2>2, SMTT(30)
<1>10. /\ Counted(disk, windowEnd - noted)' /\ RowsFromJournal(disk, windowEnd - noted)'
       /\ \A n \in 0 .. ((windowEnd - noted) - 1)' : disk'.trie[n] = tx'.trie[n]
  <2>1. (windowEnd - noted)' = windowEnd - noted /\ disk' = disk
    BY <1>1, SMTT(30)
  <2>2. /\ Counted(disk, windowEnd - noted) /\ RowsFromJournal(disk, windowEnd - noted)
        /\ FirstUnpruned(disk) = pendingNumber
        /\ \A n \in 0 .. (windowEnd - noted) - 1 : disk.trie[n] = tx.trie[n]
    BY <1>1, SMTT(30) DEF CountedInv, TypeOK
  <2>3. /\ \A n \in pendingNumber .. (windowEnd - noted) - 1 : n \in pendingNumber .. end - 1
        /\ \A n \in 0 .. (windowEnd - noted) - 1 : n \in 0 .. end - 1
    BY <1>1, SMTT(30)
  <2>4. Counted(disk, windowEnd - noted)'
    BY <2>1, <2>2
  <2>5. RowsFromJournal(disk, windowEnd - noted)'
    BY <1>3, <2>1, <2>2, <2>3, SMTT(30) DEF RowsFromJournal
  <2>6. \A n \in 0 .. ((windowEnd - noted) - 1)' : disk'.trie[n] = tx'.trie[n]
    BY <1>2, <2>1, <2>2, <2>3, SMTT(30) DEF Appends
  <2> QED
    BY <2>4, <2>5, <2>6
<1>11. Counted(tx, windowEnd)'
  BY <1>1, <1>6, <1>7, <1>8, SMTT(30) DEF Counted
<1> QED
  BY <1>5, <1>9, <1>10, <1>11 DEF CountedInv

\* The rows rebuilt by RefWindow::new are the ones that were in memory.
LEMMA RestartCounted ==
  ASSUME ~CountInsertions, CountedInv, TypeOK', Restart
  PROVE  CountedInv'
<1> DEFINE end == IF phase = "open" THEN windowEnd - noted ELSE windowEnd
<1>1. DiskOK(disk, end) /\ Counted(disk, end) /\ end \in 0 .. MaxNumber
  <2>1. CASE phase = "open"
    <3>1. /\ DiskOK(disk, windowEnd - noted) /\ Counted(disk, windowEnd - noted)
          /\ noted \in 0 .. windowEnd /\ windowEnd \in 0 .. MaxNumber
      BY <2>1 DEF CountedInv, TypeOK
    <3>2. windowEnd - noted \in 0 .. MaxNumber /\ end = windowEnd - noted
      BY <2>1, <3>1, MaxNumberAssumption, SMTT(30)
    <3> QED
      BY <3>1, <3>2, SMTT(30)
  <2>2. CASE phase # "open"
    BY <2>2 DEF CountedInv, TypeOK
  <2> QED
    BY <2>1, <2>2
<1> HIDE DEF end
<1>2. JournalEnd(disk) = end
  BY <1>1, JournalEndUnique, SMTT(30)
<1>3. /\ tx' = disk /\ disk' = disk /\ windowEnd' = end /\ (windowEnd - noted)' = end
      /\ deathRows' = RestoredRows(disk)
      /\ FirstUnpruned(disk) \in Nat /\ end \in Nat
  BY <1>1, <1>2, NoneAssumption, MaxNumberAssumption, SMTT(30) DEF Restart, DiskOK, FirstUnpruned
<1>4. /\ DOMAIN RestoredRows(disk) = FirstUnpruned(disk) .. end - 1
      /\ \A n \in FirstUnpruned(disk) .. end - 1 :
           /\ RestoredRows(disk)[n].hash = disk.journal[n].hash
           /\ RestoredRows(disk)[n].deleted = disk.journal[n].deleted
  <2>1. \A n \in FirstUnpruned(disk) .. end - 1 : disk.journal[n].inserted = {}
    BY <1>1 DEF Counted, RecordsExact
  <2>2. \A n \in FirstUnpruned(disk) .. end - 1 :
          \A m \in n + 1 .. end - 1 : m \in FirstUnpruned(disk) .. end - 1
    BY <1>3
  <2> QED
    BY <1>2, <2>1, <2>2, ZenonT(60) DEF RestoredRows
<1>5. RowsExact'
  BY <1>1, <1>3, <1>4 DEF RowsExact, Counted, RecordsExact
<1>6. RowsFromJournal(tx, windowEnd)' /\ RowsFromJournal(disk, windowEnd - noted)'
  BY <1>3, <1>4 DEF RowsFromJournal
<1>7. Counted(tx, windowEnd)' /\ Counted(disk, windowEnd - noted)'
  BY <1>1, <1>3
<1>8. \A n \in 0 .. ((windowEnd - noted) - 1)' : disk'.trie[n] = tx'.trie[n]
  BY <1>3
<1> QED
  BY <1>5, <1>6, <1>7, <1>8 DEF CountedInv

LEMMA CountedInvariance == ASSUME ~CountInsertions PROVE Spec => []CountedInv
<1>1. Init => CountedInv
  <2> SUFFICES ASSUME Init PROVE CountedInv
    BY SMTT(30)
  <2>1. TypeOK
    BY MaxNumberAssumption, NoneAssumption, SMTT(30)
       DEF Init, TypeOK, DiskOK, EmptyDisk, FirstUnpruned
  <2>2. /\ tx = EmptyDisk /\ disk = EmptyDisk /\ windowEnd = 0 /\ windowEnd - noted = 0
        /\ FirstUnpruned(EmptyDisk) = 0 /\ DOMAIN deathRows = {}
    <3>1. /\ tx = EmptyDisk /\ disk = EmptyDisk /\ windowEnd = 0 /\ noted = 0
          /\ EmptyDisk.lastPruned = None
      BY DEF Init, EmptyDisk
    <3>2. DOMAIN deathRows = {}
      BY DEF Init
    <3>3. FirstUnpruned(EmptyDisk) = 0
      BY <3>1 DEF FirstUnpruned
    <3> QED
      BY <3>1, <3>2, <3>3
  <2>3. \A k : /\ Creations(EmptyDisk, 0, 0, k) = {} /\ Deletions(EmptyDisk, 0, 0, k) = {}
               /\ Has(EmptyDisk, 0, k) = 0
    BY DEF Creations, Deletions, Has, TrieBefore
  <2>4. CountsExact(EmptyDisk, 0)
    <3>1. \A k \in Key : EmptyDisk.data[k] = 0
      BY DEF EmptyDisk
    <3> QED
      BY <2>2, <2>3, <3>1, FS_EmptySet, SMTT(30) DEF CountsExact
  <2>5. Alternating(EmptyDisk, 0)
    BY <2>3 DEF Alternating
  <2>6. RecordsExact(EmptyDisk, 0) /\ RowsFromJournal(EmptyDisk, 0) /\ RowsExact
    BY <2>2 DEF RecordsExact, RowsFromJournal, RowsExact
  <2>7. Counted(EmptyDisk, 0)
    BY <2>4, <2>5, <2>6 DEF Counted
  <2> QED
    BY <2>1, <2>2, <2>6, <2>7 DEF CountedInv
<1>2. CountedInv /\ TypeOK' /\ [Next]_vars => CountedInv'
  <2> SUFFICES ASSUME CountedInv, TypeOK', [Next]_vars
               PROVE  CountedInv'
    OBVIOUS
  <2>1. ASSUME NEW hash \in BlockHash, NEW nodes \in SUBSET Key, NEW upTo \in 0 .. MaxNumber,
               CanonicalizeBlock(hash, nodes, upTo)
        PROVE  CountedInv'
    BY <2>1, CanonicalizeCounted, SMTT(30)
  <2>2. CASE DbCommit
    <3>1. memory' = memory /\ tx' = tx /\ phase' = "committed"
      BY <2>2, SMTT(30) DEF DbCommit
    <3> QED
      BY <3>1 DEF CountedInv, memory, RowsFromJournal, RowsExact
  <2>3. CASE ApplyPending
    <3>1. /\ tx' = tx /\ disk' = tx /\ windowEnd' = windowEnd /\ (windowEnd - noted)' = windowEnd
          /\ FirstUnpruned(tx) = pendingNumber + prunings
          /\ pendingNumber \in Nat /\ prunings \in Nat /\ windowEnd \in Nat
          /\ DOMAIN deathRows = pendingNumber .. windowEnd - 1
          /\ deathRows' = [n \in pendingNumber + prunings .. windowEnd - 1 |-> deathRows[n]]
      BY <2>3, MaxNumberAssumption DEF ApplyPending, CountedInv, TypeOK
    <3>2. Counted(tx, windowEnd)' /\ Counted(disk, windowEnd - noted)'
      BY <3>1, SMTT(30) DEF CountedInv
    <3>3. RowsFromJournal(tx, windowEnd)' /\ RowsFromJournal(disk, windowEnd - noted)'
      BY <3>1, SMTT(30) DEF CountedInv, RowsFromJournal
    <3>4. RowsExact'
      BY <3>1 DEF CountedInv, RowsExact
    <3>5. \A n \in 0 .. ((windowEnd - noted) - 1)' : disk'.trie[n] = tx'.trie[n]
      BY <3>1, SMTT(30)
    <3> QED
      BY <3>2, <3>3, <3>4, <3>5, SMTT(30) DEF CountedInv
  <2>4. CASE RevertPending
    <3> DEFINE newMax == windowEnd - noted
    <3>1. /\ phase = "open" /\ windowEnd' = newMax /\ disk' = disk /\ tx' = disk
          /\ (windowEnd - noted)' = newMax
          /\ pendingNumber \in Nat /\ windowEnd \in Nat /\ newMax \in 0 .. windowEnd
          /\ FirstUnpruned(disk) = pendingNumber
          /\ DOMAIN deathRows = pendingNumber .. windowEnd - 1
          /\ deathRows' = [n \in pendingNumber .. newMax - 1 |-> deathRows[n]]
      BY <2>4, MaxNumberAssumption DEF CountedInv, TypeOK, RevertPending
    <3>2. /\ Counted(disk, newMax) /\ RowsFromJournal(disk, newMax)
          /\ \A n \in 0 .. newMax - 1 : disk.trie[n] = tx.trie[n]
      BY <3>1 DEF CountedInv
    <3> HIDE DEF newMax
    <3>3. Counted(tx, windowEnd)' /\ Counted(disk, windowEnd - noted)'
      BY <3>1, <3>2
    <3>4. RowsFromJournal(tx, windowEnd)' /\ RowsFromJournal(disk, windowEnd - noted)'
      BY <3>1, <3>2 DEF RowsFromJournal
    <3>5. RowsExact'
      <4> SUFFICES ASSUME NEW n \in pendingNumber .. newMax - 1
                   PROVE  deathRows[n].deleted = TrieBefore(disk, n) \ disk.trie[n]
        BY <3>1 DEF RowsExact
      <4>1. n \in DOMAIN deathRows /\ n \in 0 .. newMax - 1
        BY <3>1
      <4>2. deathRows[n].deleted = TrieBefore(tx, n) \ tx.trie[n]
        BY <4>1 DEF CountedInv, RowsExact
      <4>3. TrieBefore(tx, n) = TrieBefore(disk, n)
        BY <3>1, <3>2, <4>1 DEF TrieBefore
      <4> QED
        BY <3>2, <4>1, <4>2, <4>3
    <3>6. \A n \in 0 .. ((windowEnd - noted) - 1)' : disk'.trie[n] = tx'.trie[n]
      BY <3>1
    <3> QED
      BY <3>3, <3>4, <3>5, <3>6 DEF CountedInv
  <2>5. CASE Restart
    BY <2>5, RestartCounted, SMTT(30)
  <2>6. CASE UNCHANGED vars
    <3>1. memory' = memory /\ tx' = tx /\ disk' = disk /\ phase' = phase
      BY <2>6 DEF vars
    <3>2. windowEnd' = windowEnd /\ noted' = noted /\ deathRows' = deathRows
      BY <3>1 DEF memory
    <3> QED
      BY <3>1, <3>2 DEF CountedInv, RowsFromJournal, RowsExact
  <2> QED
    BY <2>1, <2>2, <2>3, <2>4, <2>5, <2>6 DEF Next
<1> QED
  BY <1>1, <1>2, WindowShape, PTL DEF Spec

-----------------------------------------------------------------------------
(***************************************************************************)
(* The promises of the window, whatever the back end counts.               *)
(***************************************************************************)

\* Pruning never deletes a node of the state of the last pruned block or of
\* any canonical block after it: not in the database and not in the open
\* transaction, for any number of nodes and blocks, with and without
\* reference counting, across failed commits and restarts (import, prune_one).
THEOREM PruningIsSafe == Spec => []RetainedStatesStored
<1>1. ASSUME ~CountInsertions, CountedInv PROVE RetainedStatesStored
  <2> SUFFICES ASSUME NEW d \in {disk, tx}, NEW n \in DOMAIN d.trie,
                      n + 1 >= FirstUnpruned(d), NEW k \in d.trie[n]
               PROVE  d.data[k] > 0
    BY DEF RetainedStatesStored
  <2>1. PICK end \in Nat : DiskOK(d, end) /\ Counted(d, end)
    <3>1. windowEnd \in Nat /\ noted \in 0 .. windowEnd
      BY <1>1, MaxNumberAssumption DEF CountedInv, TypeOK
    <3>2. windowEnd - noted \in Nat
      BY <3>1
    <3> QED
      BY <1>1, <3>1, <3>2 DEF CountedInv, TypeOK
  <2> DEFINE first == FirstUnpruned(d)
  <2>2. /\ first \in Nat /\ n \in Nat /\ n + 1 \in 0 .. end /\ first \in 0 .. end
        /\ first <= n + 1 /\ k \in Key
    BY <2>1, NoneAssumption DEF DiskOK, FirstUnpruned
  <2>3. Has(d, n + 1, k) = 1 /\ Has(d, first, k) \in Nat
    BY <2>2, SMTT(30) DEF Has, TrieBefore
  <2> HIDE DEF first
  <2>4. Has(d, first, k) + Cardinality(Creations(d, first, n + 1, k))
          = Has(d, n + 1, k) + Cardinality(Deletions(d, first, n + 1, k))
    BY <2>1, <2>2 DEF Counted, Alternating
  <2>5. Cardinality(Creations(d, first, end, k))
          = Cardinality(Creations(d, first, n + 1, k)) + Cardinality(Creations(d, n + 1, end, k))
    BY <2>2, CreationsSplit
  <2>6. /\ Cardinality(Creations(d, first, n + 1, k)) \in Nat
        /\ Cardinality(Creations(d, n + 1, end, k)) \in Nat
        /\ Cardinality(Deletions(d, first, n + 1, k)) \in Nat
    BY <2>2, CountTypes, SMTT(30)
  <2>7. d.data[k] = Has(d, first, k) + Cardinality(Creations(d, first, end, k))
    BY <2>1, <2>2 DEF Counted, CountsExact, first
  <2> QED
    BY <2>3, <2>4, <2>5, <2>6, <2>7
<1>2. CASE CountInsertions
  BY <1>2, PruningIsSafeUncounted
<1>3. CASE ~CountInsertions
  <2>1. CountedInv => RetainedStatesStored
    BY <1>1, <1>3
  <2>2. Spec => []CountedInv
    BY <1>3, CountedInvariance, SMTT(30)
  <2> QED
    BY <2>1, <2>2, PTL
<1> QED
  BY <1>2, <1>3

\* The index lookup of import is always in bounds and finds every key that
\* waits in a row, also after apply_pending moved the front of the deque and
\* revert_pending its back.
THEOREM IndexIsExact == Spec => []IndexMatchesRows
<1>1. CASE CountInsertions
  <2>1. Inv => IndexMatchesRows
    BY DEF Inv
  <2>2. Spec => []Inv
    BY <1>1, Invariance
  <2> QED
    BY <2>1, <2>2, PTL
<1>2. CASE ~CountInsertions
  <2>1. IndexMatchesRows
    BY <1>2, SMTT(30) DEF IndexMatchesRows
  <2> QED
    BY <2>1, PTL
<1> QED
  BY <1>1, <1>2

\* A node that stops while no transaction is open rebuilds from the journal at
\* least the window it had in memory (RefWindow::new).
THEOREM RestartForgetsNothing == Spec => []JournalRestoresWindow
<1>1. ASSUME ~CountInsertions, CountedInv PROVE JournalRestoresWindow
  <2> SUFFICES ASSUME noted = 0, prunings = 0, phase = "open"
               PROVE  /\ DOMAIN RestoredRows(disk) = DOMAIN deathRows
                      /\ \A n \in DOMAIN RestoredRows(disk) :
                           /\ RestoredRows(disk)[n].hash = deathRows[n].hash
                           /\ deathRows[n].deleted \subseteq RestoredRows(disk)[n].deleted
    BY DEF JournalRestoresWindow
  <2>1. /\ windowEnd \in 0 .. MaxNumber /\ windowEnd - noted = windowEnd
        /\ pendingNumber \in Nat /\ FirstUnpruned(disk) = pendingNumber
        /\ DOMAIN deathRows = pendingNumber .. windowEnd - 1
    BY <1>1, MaxNumberAssumption, SMTT(30) DEF CountedInv, TypeOK
  <2>2. DiskOK(disk, windowEnd) /\ Counted(disk, windowEnd) /\ RowsFromJournal(disk, windowEnd)
    BY <1>1, <2>1 DEF CountedInv, TypeOK
  <2>3. JournalEnd(disk) = windowEnd
    BY <2>1, <2>2, JournalEndUnique
  <2>4. \A n \in pendingNumber .. windowEnd - 1 : \A m \in n + 1 .. windowEnd - 1 :
          disk.journal[m].inserted = {}
    BY <2>1, <2>2, SMTT(30) DEF Counted, RecordsExact
  <2> QED
    BY <2>1, <2>2, <2>3, <2>4, ZenonT(60) DEF RestoredRows, RowsFromJournal
<1>2. CASE CountInsertions
  BY <1>2, RestartForgetsNothingUncounted
<1>3. CASE ~CountInsertions
  <2>1. CountedInv => JournalRestoresWindow
    BY <1>1, <1>3
  <2>2. Spec => []CountedInv
    BY <1>3, CountedInvariance
  <2> QED
    BY <2>1, <2>2, PTL
<1> QED
  BY <1>2, <1>3

\* Every node left in the state column belongs to the newest state or waits in
\* an unpruned row, as long as no operation was reverted: prune_one reaches
\* everything that is obsolete (import, prune_one, RefWindow::new).
THEOREM NothingLeaks == HistorySpec => []NoLeakUnlessReverted
<1>1. ASSUME ~CountInsertions, CountedInv PROVE NoLeakUnlessReverted
  <2> SUFFICES ASSUME NEW k \in Key, tx.data[k] > 0
               PROVE  \/ \E n \in DOMAIN tx.trie : n + 1 >= windowEnd /\ k \in tx.trie[n]
                      \/ \E n \in DOMAIN deathRows :
                           n >= pendingNumber + prunings /\ k \in deathRows[n].deleted
    BY SMTT(30) DEF NoLeakUnlessReverted, NoLeak
  <2> DEFINE first == pendingNumber + prunings
  <2>1. /\ pendingNumber \in Nat /\ prunings \in Nat /\ windowEnd \in Nat
        /\ FirstUnpruned(tx) = first /\ first \in 0 .. windowEnd
        /\ DOMAIN deathRows = pendingNumber .. windowEnd - 1
        /\ DOMAIN tx.trie = 0 .. windowEnd - 1
    BY <1>1, MaxNumberAssumption, SMTT(30) DEF CountedInv, TypeOK, DiskOK
  <2>2. tx.data[k] = Has(tx, first, k) + Cardinality(Creations(tx, first, windowEnd, k))
    BY <1>1, <2>1 DEF CountedInv, Counted, CountsExact
  <2>3. Has(tx, first, k) + Cardinality(Creations(tx, first, windowEnd, k))
          = Has(tx, windowEnd, k) + Cardinality(Deletions(tx, first, windowEnd, k))
    <3>1. Alternating(tx, windowEnd)
      BY <1>1 DEF CountedInv, Counted
    <3>2. windowEnd \in 0 .. windowEnd /\ first <= windowEnd
      BY <2>1
    <3> HIDE DEF first
    <3> QED
      BY <2>1, <3>1, <3>2, SMTT(30) DEF Alternating
  <2>4. CASE k \in TrieBefore(tx, windowEnd)
    <3>1. windowEnd # 0 /\ k \in tx.trie[windowEnd - 1]
      BY <2>4 DEF TrieBefore
    <3>2. windowEnd - 1 \in DOMAIN tx.trie /\ (windowEnd - 1) + 1 >= windowEnd
      BY <2>1, <3>1
    <3> QED
      BY <3>1, <3>2
  <2>5. CASE k \notin TrieBefore(tx, windowEnd)
    <3>1. Deletions(tx, first, windowEnd, k) # {}
      <4>1. Has(tx, windowEnd, k) = 0
        BY <2>5 DEF Has
      <4>2. Cardinality(Deletions(tx, first, windowEnd, k)) \in Nat
        BY <2>1, CountTypes
      <4>3. Cardinality(Deletions(tx, first, windowEnd, k)) # 0
        BY <2>2, <2>3, <4>1, <4>2
      <4> QED
        BY <4>3, FS_EmptySet
    <3>2. PICK n \in first .. windowEnd - 1 : k \notin tx.trie[n] /\ k \in TrieBefore(tx, n)
      BY <3>1 DEF Deletions
    <3>3. n \in DOMAIN deathRows /\ n >= first
      BY <2>1
    <3> QED
      BY <1>1, <3>2, <3>3 DEF CountedInv, RowsExact
  <2> QED
    BY <2>4, <2>5
<1>2. CASE CountInsertions
  BY <1>2, NothingLeaksUncounted
<1>3. CASE ~CountInsertions
  <2>1. CountedInv => NoLeakUnlessReverted
    BY <1>1, <1>3
  <2>2. Spec => []CountedInv
    BY <1>3, CountedInvariance
  <2> QED
    BY <2>1, <2>2, HistoryIsRefWindow, PTL
<1> QED
  BY <1>2, <1>3

=============================================================================
