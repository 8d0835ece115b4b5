-------------------------- MODULE RefWindowSafety --------------------------
(***************************************************************************)
(* The shape of the pruning window, and that pruning is safe on a back end *)
(* without reference counting: the rows never hold a key of a later state  *)
(* (Inv).                                                                  *)
(***************************************************************************)
EXTENDS RefWindow, FiniteSetTheorems, TLAPS

LEMMA DereferenceType ==
  ASSUME NEW data \in [Key -> Nat], NEW k \in Key, NEW times \in Nat
  PROVE  Dereference(data, k, times) \in Nat
BY DEF Dereference

LEMMA NoteShape ==
  ASSUME NEW d, NEW end \in Nat, DiskOK(d, end),
         NEW hash \in BlockHash, NEW nodes \in SUBSET Key
  PROVE  /\ DiskOK(NoteCanonicalTx(d, end, hash, nodes), end + 1)
         /\ FirstUnpruned(NoteCanonicalTx(d, end, hash, nodes)) = FirstUnpruned(d)
<1> DEFINE e == NoteCanonicalTx(d, end, hash, nodes)
<1>1. FirstUnpruned(e) = FirstUnpruned(d) /\ FirstUnpruned(d) \in Nat
  BY NoneAssumption DEF FirstUnpruned, NoteCanonicalTx, DiskOK
<1>2. TrieBefore(d, end) \in SUBSET Key
  BY DEF TrieBefore, DiskOK
<1>3. e.data \in [Key -> Nat]
  BY <1>2 DEF NoteCanonicalTx, Put, DiskOK
<1>4. e.journal \in [FirstUnpruned(d) .. end -> Record]
  <2>1. JournalRecord(hash, nodes \ TrieBefore(d, end), TrieBefore(d, end) \ nodes) \in Record
    BY <1>2 DEF JournalRecord, Record
  <2> QED
    BY <1>1, <2>1 DEF NoteCanonicalTx, DiskOK
<1>5. e.trie \in [0 .. end -> SUBSET Key]
  BY DEF NoteCanonicalTx, DiskOK
<1>6. e.lastPruned \in Nat \cup {None}
  BY DEF NoteCanonicalTx, DiskOK
<1> QED
  BY <1>1, <1>3, <1>4, <1>5, <1>6 DEF DiskOK

LEMMA PruneShape ==
  ASSUME NEW d, NEW rows, NEW first \in Nat, NEW upTo \in Nat, NEW end \in Nat,
         DiskOK(d, end), FirstUnpruned(d) = first, first <= upTo, upTo <= end
  PROVE  /\ DiskOK(PruneTx(d, rows, first, upTo), end)
         /\ FirstUnpruned(PruneTx(d, rows, first, upTo)) = upTo
<1> DEFINE e == PruneTx(d, rows, first, upTo)
<1>1. FirstUnpruned(e) = upTo
  BY NoneAssumption DEF FirstUnpruned, PruneTx, DiskOK
<1>2. e.journal \in [upTo .. end - 1 -> Record]
  BY DEF PruneTx, DiskOK
<1>3. e.data \in [Key -> Nat]
  <2>1. ASSUME NEW k \in Key PROVE e.data[k] \in Nat
    <3> DEFINE S == {m \in first .. upTo - 1 : k \in rows[m].deleted}
    <3>1. Cardinality(S) \in Nat
      <4>1. IsFiniteSet(first .. upTo - 1)
        BY FS_Interval
      <4>2. S \subseteq first .. upTo - 1
        OBVIOUS
      <4> QED
        BY <4>1, <4>2, FS_Subset, FS_CardinalityType
    <3>2. e.data[k] = Dereference(d.data, k, Cardinality(S))
      BY DEF PruneTx
    <3>3. d.data \in [Key -> Nat]
      BY DEF DiskOK
    <3> HIDE DEF S, e
    <3> QED
      BY <3>1, <3>2, <3>3, DereferenceType
  <2> QED
    BY <2>1 DEF PruneTx
<1>4. e.lastPruned \in Nat \cup {None} /\ e.trie = d.trie
  BY DEF PruneTx, DiskOK
<1> QED
  BY <1>1, <1>2, <1>3, <1>4 DEF DiskOK

LEMMA JournalEndUnique ==
  ASSUME NEW d, NEW end \in 0 .. MaxNumber, DiskOK(d, end)
  PROVE  JournalEnd(d) = end
<1>1. FirstUnpruned(d) \in Nat /\ FirstUnpruned(d) <= end
  BY NoneAssumption DEF DiskOK, FirstUnpruned
<1>2. DOMAIN d.journal = FirstUnpruned(d) .. end - 1
  BY DEF DiskOK
<1> DEFINE P(n) == /\ n \notin DOMAIN d.journal
                   /\ FirstUnpruned(d) .. n - 1 \subseteq DOMAIN d.journal
<1>3. end \in FirstUnpruned(d) .. MaxNumber /\ P(end)
  BY <1>1, <1>2, MaxNumberAssumption
<1>4. ASSUME NEW n \in FirstUnpruned(d) .. MaxNumber, P(n)
      PROVE  n = end
  <2>1. ~(n < end)
    BY <1>1, <1>2, <1>4, MaxNumberAssumption
  <2>2. ASSUME n > end PROVE FALSE
    <3>1. end \in FirstUnpruned(d) .. n - 1
      BY <1>1, <2>2, MaxNumberAssumption
    <3> QED
      BY <1>1, <1>2, <1>4, <3>1
  <2> QED
    BY <1>1, <2>1, <2>2, MaxNumberAssumption
<1> QED
  BY <1>3, <1>4 DEF JournalEnd

\* Whatever the interleaving of canonicalizations, commits, failures and
\* restarts, the window keeps its shape: contiguous rows and journal records
\* that trail each other by exactly the pending counters (RefWindow::new,
\* note_canonical, prune_one, apply_pending, revert_pending).
THEOREM WindowShape == Spec => []TypeOK
<1>1. Init => TypeOK
  BY MaxNumberAssumption, NoneAssumption
     DEF Init, TypeOK, DiskOK, EmptyDisk, FirstUnpruned
<1>2. TypeOK /\ [Next]_vars => TypeOK'
  <2> SUFFICES ASSUME TypeOK, [Next]_vars
               PROVE  TypeOK'
    OBVIOUS
  <2>1. ASSUME NEW hash \in BlockHash, NEW nodes \in SUBSET Key, NEW upTo \in 0 .. MaxNumber,
               CanonicalizeBlock(hash, nodes, upTo)
        PROVE  TypeOK'
    <3> DEFINE inserted == nodes \ TrieBefore(tx, windowEnd)
               deleted  == TrieBefore(tx, windowEnd) \ nodes
               first    == pendingNumber + prunings
               noteTx   == NoteCanonicalTx(tx, windowEnd, hash, nodes)
    <3>1. /\ pendingNumber \in Nat /\ prunings \in Nat /\ windowEnd \in Nat
          /\ first <= upTo /\ upTo <= windowEnd + 1 /\ windowEnd < MaxNumber
      BY <2>1, MaxNumberAssumption DEF TypeOK, CanonicalizeBlock
    <3>2. deleted \in SUBSET Key
      BY <3>1 DEF TrieBefore, TypeOK, DiskOK
    <3>3. pendingNumber <= windowEnd
      BY <3>1 DEF TypeOK, DiskOK
    <3>4. deathRows' \in [pendingNumber .. windowEnd -> Row]
      <4>1. deathRows' = ImportedRows(deathRows, deathIndex, windowEnd, hash, inserted, deleted)
        BY <2>1 DEF CanonicalizeBlock
      <4>2. DOMAIN deathRows \cup {windowEnd} = pendingNumber .. windowEnd
        BY <3>1, <3>3 DEF TypeOK
      <4> QED
        BY <3>1, <3>2, <4>1, <4>2 DEF ImportedRows, TypeOK, Row
    <3>5. deathIndex' \in [Key -> Nat \cup {None}]
      BY <2>1, <3>1 DEF CanonicalizeBlock, ImportedIndex, TypeOK
    <3>6. DiskOK(noteTx, windowEnd + 1) /\ FirstUnpruned(noteTx) = first
      BY <3>1, NoteShape DEF TypeOK
    <3>7. tx' = PruneTx(noteTx, deathRows', first, upTo)
      BY <2>1 DEF CanonicalizeBlock
    <3>8. DiskOK(tx', windowEnd + 1) /\ FirstUnpruned(tx') = upTo
      <4> HIDE DEF noteTx
      <4> QED
        BY <3>1, <3>6, <3>7, PruneShape, MaxNumberAssumption
    <3>9. /\ windowEnd' = windowEnd + 1 /\ noted' = noted + 1 /\ phase = "open"
          /\ prunings' = upTo - pendingNumber
          /\ UNCHANGED <<pendingNumber, disk, phase>>
      BY <2>1 DEF CanonicalizeBlock
    <3>10. DiskOK(disk, windowEnd - noted) /\ FirstUnpruned(disk) = pendingNumber
      BY <3>9 DEF TypeOK
    <3>11. noted \in 0 .. windowEnd
      BY DEF TypeOK
    <3>12. /\ windowEnd' \in 0 .. MaxNumber /\ noted' \in 0 .. windowEnd'
           /\ prunings' \in Nat /\ upTo = pendingNumber + prunings'
           /\ windowEnd' - noted' = windowEnd - noted /\ windowEnd' - 1 = windowEnd
      BY <3>1, <3>9, <3>11, MaxNumberAssumption
    <3>13. DiskOK(disk, windowEnd - noted)' /\ FirstUnpruned(disk)' = pendingNumber'
      BY <3>9, <3>10, <3>12, SMTT(30) DEF DiskOK, FirstUnpruned
    <3>14. DiskOK(tx, windowEnd)' /\ FirstUnpruned(tx)' = upTo
      BY <3>8, <3>9 DEF DiskOK, FirstUnpruned
    <3> QED
      BY <3>1, <3>4, <3>5, <3>9, <3>12, <3>13, <3>14 DEF TypeOK
  <2>2. CASE DbCommit
    BY <2>2 DEF DbCommit, memory, TypeOK, DiskOK, FirstUnpruned
  <2>3. CASE ApplyPending
    <3>1. /\ phase = "committed" /\ phase' = "open" /\ noted' = 0 /\ prunings' = 0
          /\ pendingNumber' = pendingNumber + prunings /\ disk = tx
          /\ UNCHANGED <<windowEnd, disk, tx>>
      BY <2>3 DEF ApplyPending, TypeOK
    <3>2. /\ pendingNumber \in Nat /\ prunings \in Nat /\ windowEnd \in 0 .. MaxNumber
          /\ DiskOK(tx, windowEnd) /\ FirstUnpruned(tx) = pendingNumber + prunings
          /\ deathRows \in [pendingNumber .. windowEnd - 1 -> Row]
      BY DEF TypeOK
    <3>3. deathRows' \in [pendingNumber' .. windowEnd' - 1 -> Row]
      BY <2>3, <3>1, <3>2 DEF ApplyPending
    <3>4. deathIndex' \in [Key -> Nat \cup {None}]
      BY <2>3 DEF ApplyPending, TypeOK
    <3>5. DiskOK(tx, windowEnd)' /\ FirstUnpruned(tx)' = pendingNumber'
      BY <3>1, <3>2 DEF DiskOK, FirstUnpruned
    <3>6. DiskOK(disk, windowEnd - noted)' /\ FirstUnpruned(disk)' = pendingNumber'
      BY <3>1, <3>2 DEF DiskOK, FirstUnpruned
    <3> QED
      BY <3>1, <3>2, <3>3, <3>4, <3>5, <3>6 DEF TypeOK
  <2>4. CASE RevertPending
    <3> DEFINE newMax == windowEnd - noted
    <3>1. /\ phase = "open" /\ phase' = "open" /\ noted' = 0 /\ prunings' = 0
          /\ windowEnd' = newMax /\ tx' = disk /\ UNCHANGED <<pendingNumber, disk>>
      BY <2>4 DEF RevertPending
    <3>2. /\ pendingNumber \in Nat /\ newMax \in 0 .. MaxNumber /\ newMax <= windowEnd
          /\ DiskOK(disk, newMax) /\ FirstUnpruned(disk) = pendingNumber
          /\ deathRows \in [pendingNumber .. windowEnd - 1 -> Row] /\ windowEnd \in Nat
      BY <3>1, MaxNumberAssumption DEF TypeOK
    <3>3. deathRows' = [n \in pendingNumber .. newMax - 1 |-> deathRows[n]]
      BY <2>4 DEF RevertPending
    <3>4. deathIndex' \in [Key -> Nat \cup {None}]
      BY <2>4 DEF RevertPending, TypeOK
    <3> HIDE DEF newMax
    <3>5. deathRows' \in [pendingNumber' .. windowEnd' - 1 -> Row]
      BY <3>1, <3>2, <3>3
    <3>6. DiskOK(tx, windowEnd)' /\ FirstUnpruned(tx)' = pendingNumber'
      BY <3>1, <3>2 DEF DiskOK, FirstUnpruned
    <3>7. DiskOK(disk, windowEnd - noted)' /\ FirstUnpruned(disk)' = pendingNumber'
      BY <3>1, <3>2 DEF DiskOK, FirstUnpruned
    <3> QED
      BY <3>1, <3>2, <3>4, <3>5, <3>6, <3>7 DEF TypeOK
  <2>5. CASE Restart
    <3> DEFINE end == IF phase = "open" THEN windowEnd - noted ELSE windowEnd
    <3>1. DiskOK(disk, end) /\ end \in 0 .. MaxNumber
      BY MaxNumberAssumption DEF TypeOK
    <3>2. JournalEnd(disk) = end
      BY <3>1, JournalEndUnique
    <3>3. FirstUnpruned(disk) \in Nat /\ FirstUnpruned(disk) <= end
      BY <3>1, NoneAssumption DEF DiskOK, FirstUnpruned
    <3> HIDE DEF end
    <3>4. RestoredRows(disk) \in [FirstUnpruned(disk) .. end - 1 -> Row]
      BY <3>1, <3>2, <3>3 DEF RestoredRows, DiskOK, Record, Row
    <3>5. RestoredIndex(RestoredRows(disk)) \in [Key -> Nat \cup {None}]
      BY <3>3, <3>4, <3>1 DEF RestoredIndex
    <3>6. /\ phase' = "open" /\ tx' = disk /\ disk' = disk
          /\ pendingNumber' = FirstUnpruned(disk) /\ windowEnd' = end
          /\ noted' = 0 /\ prunings' = 0
          /\ deathRows' = RestoredRows(disk)
          /\ deathIndex' = RestoredIndex(RestoredRows(disk))
      BY <2>5, <3>2 DEF Restart
    <3>7. DiskOK(disk, windowEnd - noted)' /\ FirstUnpruned(disk)' = pendingNumber'
      BY <3>1, <3>6 DEF DiskOK, FirstUnpruned
    <3>8. DiskOK(tx, windowEnd)' /\ FirstUnpruned(tx)' = FirstUnpruned(disk)
      BY <3>1, <3>6 DEF DiskOK, FirstUnpruned
    <3> QED
      BY <3>1, <3>3, <3>4, <3>5, <3>6, <3>7, <3>8 DEF TypeOK
  <2>6. CASE UNCHANGED vars
    BY <2>6 DEF vars, memory, TypeOK, DiskOK, FirstUnpruned
  <2> QED
    BY <2>1, <2>2, <2>3, <2>4, <2>5, <2>6 DEF Next
<1> QED
  BY <1>1, <1>2, PTL DEF Spec

-----------------------------------------------------------------------------
(***************************************************************************)
(* The inductive invariant behind RetainedStatesStored.  A row may only be *)
(* executed if none of its keys is in a later state (RowsDead); to keep    *)
(* that when a block is imported the index must find every dead key        *)
(* (IndexMatchesRows), and to regain it when the window is rebuilt from    *)
(* the journal, the records must say exactly which nodes each block added  *)
(* and removed, and a node that is absent from one state and present in a  *)
(* later one must have been inserted in between (ChainOK).                 *)
(***************************************************************************)
ChainOK(d, end) ==
  /\ \A n \in FirstUnpruned(d) .. end - 1 :
       /\ d.journal[n].inserted = d.trie[n] \ TrieBefore(d, n)
       /\ d.journal[n].deleted = TrieBefore(d, n) \ d.trie[n]
  /\ \A m, n \in 0 .. end - 1 : \A k \in Key :
       m < n /\ k \notin d.trie[m] /\ k \in d.trie[n] =>
         \E j \in m + 1 .. n : k \in d.trie[j] /\ k \notin d.trie[j - 1]
  /\ \A n \in 0 .. end - 1 :
       n + 1 >= FirstUnpruned(d) => \A k \in d.trie[n] : d.data[k] > 0

RowsDead ==
  \A m \in DOMAIN deathRows : \A k \in deathRows[m].deleted :
    \A n \in m .. windowEnd - 1 : k \notin tx.trie[n]

RowsFromJournal(d, end) ==
  \A n \in FirstUnpruned(d) .. end - 1 :
    /\ deathRows[n].hash = d.journal[n].hash
    /\ deathRows[n].deleted \subseteq d.journal[n].deleted

Inv ==
  /\ TypeOK
  /\ ChainOK(tx, windowEnd)
  /\ RowsFromJournal(tx, windowEnd)
  /\ phase = "open" => /\ ChainOK(disk, windowEnd - noted)
                       /\ RowsFromJournal(disk, windowEnd - noted)
                       /\ \A n \in 0 .. (windowEnd - noted) - 1 : disk.trie[n] = tx.trie[n]
  /\ RowsDead
  /\ IndexMatchesRows

LEMMA RestoredDead ==
  ASSUME CountInsertions, NEW d, NEW end \in 0 .. MaxNumber, DiskOK(d, end), ChainOK(d, end)
  PROVE  /\ \A m \in FirstUnpruned(d) .. end - 1 : \A k \in RestoredRows(d)[m].deleted :
              \A n \in m .. end - 1 : k \notin d.trie[n]
         /\ \A k \in Key : \A m, n \in FirstUnpruned(d) .. end - 1 :
              k \in RestoredRows(d)[m].deleted /\ k \in RestoredRows(d)[n].deleted => m = n
<1>1. FirstUnpruned(d) \in Nat /\ JournalEnd(d) = end /\ end \in Nat
  <2>1. JournalEnd(d) = end
    BY JournalEndUnique
  <2> QED
    BY <2>1, NoneAssumption, MaxNumberAssumption DEF FirstUnpruned, DiskOK
<1>2. ASSUME NEW m \in FirstUnpruned(d) .. end - 1, NEW k \in RestoredRows(d)[m].deleted
      PROVE  /\ k \in Key /\ k \in TrieBefore(d, m) /\ k \notin d.trie[m]
             /\ \A j \in m + 1 .. end - 1 : ~(k \in d.trie[j] /\ k \notin d.trie[j - 1])
  <2>1. /\ k \in d.journal[m].deleted
        /\ \A j \in m + 1 .. end - 1 : k \notin d.journal[j].inserted
    BY <1>1, <1>2 DEF RestoredRows
  <2>2. d.journal[m].deleted \in SUBSET Key
    BY <1>1 DEF DiskOK, Record
  <2>3. ASSUME NEW j \in m + 1 .. end - 1
        PROVE  d.journal[j].inserted = d.trie[j] \ d.trie[j - 1]
    BY <1>1 DEF ChainOK, TrieBefore
  <2> QED
    BY <1>1, <2>1, <2>2, <2>3, ZenonT(60) DEF ChainOK
<1>3. ASSUME NEW m \in FirstUnpruned(d) .. end - 1, NEW k \in RestoredRows(d)[m].deleted,
             NEW n \in m .. end - 1, k \in d.trie[n]
      PROVE  FALSE
  <2>1. m < n /\ m \in 0 .. end - 1 /\ n \in 0 .. end - 1
    BY <1>1, <1>2, <1>3
  <2>2. PICK j \in m + 1 .. n : k \in d.trie[j] /\ k \notin d.trie[j - 1]
    BY <1>2, <1>3, <2>1 DEF ChainOK
  <2> QED
    BY <1>1, <1>2, <2>1, <2>2
<1>4. ASSUME NEW k \in Key, NEW m \in FirstUnpruned(d) .. end - 1,
             NEW n \in FirstUnpruned(d) .. end - 1, m < n,
             k \in RestoredRows(d)[m].deleted, k \in RestoredRows(d)[n].deleted
      PROVE  FALSE
  <2>1. k \in d.trie[n - 1] /\ n - 1 \in m .. end - 1
    BY <1>1, <1>2, <1>4 DEF TrieBefore
  <2> QED
    BY <1>3, <1>4, <2>1
<1>5. ASSUME NEW k \in Key, NEW m \in FirstUnpruned(d) .. end - 1,
             NEW n \in FirstUnpruned(d) .. end - 1,
             k \in RestoredRows(d)[m].deleted, k \in RestoredRows(d)[n].deleted
      PROVE  m = n
  BY <1>1, <1>4, <1>5
<1> QED
  BY <1>3, <1>5

\* What canonicalizing a block does to each part of the window, whatever the
\* back end counts: the deque gains one row and loses the revived keys, the
\* chain gains one state, and the data is that of note_canonical followed by
\* prune_one.
Canonicalized(hash, nodes, upTo) ==
  LET end      == windowEnd
      old      == TrieBefore(tx, end)
      inserted == nodes \ old
      deleted  == old \ nodes
      first    == pendingNumber + prunings
      noteTx   == NoteCanonicalTx(tx, end, hash, nodes)
  IN
      /\ pendingNumber \in Nat /\ prunings \in Nat /\ end \in Nat /\ upTo \in Nat
      /\ first <= upTo /\ upTo <= end + 1 /\ first <= end /\ noted \in 0 .. end
      /\ FirstUnpruned(tx) = first /\ FirstUnpruned(tx') = upTo
      /\ phase = "open" /\ phase' = "open" /\ windowEnd' = end + 1
      /\ noted' = noted + 1 /\ pendingNumber' = pendingNumber /\ disk' = disk
      /\ DOMAIN deathRows = pendingNumber .. end - 1
      /\ DOMAIN deathRows' = pendingNumber .. end
      /\ tx.trie \in [0 .. end - 1 -> SUBSET Key]
      /\ tx.data \in [Key -> Nat]
      /\ \A m \in pendingNumber .. end - 1 : deathRows[m].deleted \in SUBSET Key
      /\ old \in SUBSET Key /\ (end > 0 => old = tx.trie[end - 1])
      /\ tx' = PruneTx(noteTx, deathRows', first, upTo)
      /\ tx'.trie = [m \in 0 .. end |-> IF m = end THEN nodes ELSE tx.trie[m]]
      /\ \A n \in upTo .. end : tx'.journal[n] =
            IF n = end THEN JournalRecord(hash, inserted, deleted) ELSE tx.journal[n]
      /\ \A n \in 0 .. end : TrieBefore(tx', n) = TrieBefore(tx, n)
      /\ deathRows' = ImportedRows(deathRows, deathIndex, end, hash, inserted, deleted)
      /\ deathIndex' = ImportedIndex(deathIndex, end, inserted, deleted)
      /\ deathRows'[end] = [hash |-> hash, deleted |-> deleted]
      /\ \A m \in pendingNumber .. end - 1 :
           /\ deathRows'[m].hash = deathRows[m].hash
           /\ deathRows'[m].deleted = {k \in deathRows[m].deleted :
                                        ~(Revived(deathIndex, k, inserted) /\ deathIndex[k] = m)}

LEMMA CanonicalizeEffect ==
  ASSUME TypeOK, TypeOK',
         NEW hash \in BlockHash, NEW nodes \in SUBSET Key, NEW upTo \in 0 .. MaxNumber,
         CanonicalizeBlock(hash, nodes, upTo)
  PROVE  Canonicalized(hash, nodes, upTo)
<1> DEFINE end      == windowEnd
           old      == TrieBefore(tx, end)
           inserted == nodes \ old
           deleted  == old \ nodes
           first    == pendingNumber + prunings
           noteTx   == NoteCanonicalTx(tx, end, hash, nodes)
<1>1. /\ pendingNumber \in Nat /\ prunings \in Nat /\ end \in Nat /\ upTo \in Nat
      /\ first <= upTo /\ upTo <= end + 1 /\ first <= end /\ noted \in 0 .. end
      /\ FirstUnpruned(tx) = first /\ FirstUnpruned(tx') = upTo
      /\ phase = "open" /\ phase' = "open" /\ windowEnd' = end + 1
      /\ noted' = noted + 1 /\ pendingNumber' = pendingNumber /\ disk' = disk
  <2>1. /\ pendingNumber \in Nat /\ prunings \in Nat /\ end \in 0 .. MaxNumber
        /\ noted \in 0 .. end /\ FirstUnpruned(tx) = first /\ first <= end
    BY DEF TypeOK, DiskOK
  <2>2. /\ first <= upTo /\ upTo <= end + 1 /\ phase = "open" /\ phase' = "open"
        /\ windowEnd' = end + 1 /\ noted' = noted + 1 /\ prunings' = upTo - pendingNumber
        /\ pendingNumber' = pendingNumber /\ disk' = disk
    BY DEF CanonicalizeBlock
  <2>3. FirstUnpruned(tx') = pendingNumber' + prunings'
    BY DEF TypeOK
  <2> QED
    BY <2>1, <2>2, <2>3, MaxNumberAssumption
<1>2. /\ DOMAIN deathRows = pendingNumber .. end - 1
      /\ DOMAIN deathRows' = pendingNumber .. end
      /\ tx.trie \in [0 .. end - 1 -> SUBSET Key]
      /\ tx.data \in [Key -> Nat]
      /\ \A m \in pendingNumber .. end - 1 : deathRows[m].deleted \in SUBSET Key
  <2>1. deathRows \in [pendingNumber .. end - 1 -> Row] /\ DiskOK(tx, end)
    BY DEF TypeOK
  <2>2. windowEnd' - 1 = end
    BY <1>1
  <2>3. deathRows' \in [pendingNumber .. end -> Row]
    BY <1>1, <2>2 DEF TypeOK
  <2> QED
    BY <2>1, <2>3 DEF DiskOK, Row
<1>3. old \in SUBSET Key /\ (end > 0 => old = tx.trie[end - 1])
  <2>1. CASE end = 0
    BY <2>1 DEF TrieBefore
  <2>2. CASE end > 0
    <3>1. end - 1 \in 0 .. end - 1 /\ old = tx.trie[end - 1]
      BY <1>1, <2>2 DEF TrieBefore
    <3> QED
      BY <1>2, <3>1
  <2> QED
    BY <1>1, <2>1, <2>2
<1>4. tx' = PruneTx(noteTx, deathRows', first, upTo)
  BY DEF CanonicalizeBlock
<1>5. /\ tx'.trie = [m \in 0 .. end |-> IF m = end THEN nodes ELSE tx.trie[m]]
      /\ \A n \in upTo .. end : tx'.journal[n] =
            IF n = end THEN JournalRecord(hash, inserted, deleted) ELSE tx.journal[n]
  <2>1. DOMAIN tx.trie \cup {end} = 0 .. end
    BY <1>1, <1>2
  <2>2. noteTx.trie = [m \in 0 .. end |-> IF m = end THEN nodes ELSE tx.trie[m]]
    BY <2>1, SMTT(30) DEF NoteCanonicalTx
  <2>3. DOMAIN tx.journal = first .. end - 1
    BY <1>1, Zenon DEF TypeOK, DiskOK
  <2>4. \A n \in upTo .. end : /\ n \in DOMAIN noteTx.journal \ (first .. upTo - 1)
                              /\ noteTx.journal[n] = IF n = end
                                    THEN JournalRecord(hash, inserted, deleted) ELSE tx.journal[n]
    BY <1>1, <2>3 DEF NoteCanonicalTx
  <2> HIDE DEF noteTx, inserted, deleted
  <2> QED
    BY <1>4, <2>2, <2>4 DEF PruneTx
<1>6. \A n \in 0 .. end : TrieBefore(tx', n) = TrieBefore(tx, n)
  BY <1>1, <1>5, SMTT(30) DEF TrieBefore
<1>7. /\ deathRows' = ImportedRows(deathRows, deathIndex, end, hash, inserted, deleted)
      /\ deathIndex' = ImportedIndex(deathIndex, end, inserted, deleted)
  BY DEF CanonicalizeBlock
<1>8. /\ deathRows'[end] = [hash |-> hash, deleted |-> deleted]
      /\ \A m \in pendingNumber .. end - 1 :
           /\ deathRows'[m].hash = deathRows[m].hash
           /\ deathRows'[m].deleted = {k \in deathRows[m].deleted :
                                        ~(Revived(deathIndex, k, inserted) /\ deathIndex[k] = m)}
  BY <1>1, <1>2, <1>7 DEF ImportedRows
<1> QED
  BY <1>1, <1>2, <1>3, <1>4, <1>5, <1>6, <1>7, <1>8, ZenonT(60) DEF Canonicalized

\* Canonicalizing a block and pruning rows preserves the invariant: import
\* takes every revived key off its row before prune_one executes any row.
LEMMA CanonicalizePreserves ==
  ASSUME CountInsertions, Inv, TypeOK',
         NEW hash \in BlockHash, NEW nodes \in SUBSET Key, NEW upTo \in 0 .. MaxNumber,
         CanonicalizeBlock(hash, nodes, upTo)
  PROVE  Inv'
<1> DEFINE end      == windowEnd
           old      == TrieBefore(tx, end)
           inserted == nodes \ old
           deleted  == old \ nodes
           first    == pendingNumber + prunings
           noteTx   == NoteCanonicalTx(tx, end, hash, nodes)
<1>0. TypeOK /\ Canonicalized(hash, nodes, upTo)
  BY CanonicalizeEffect, SMTT(30) DEF Inv
<1>1. /\ pendingNumber \in Nat /\ prunings \in Nat /\ end \in Nat /\ upTo \in Nat
      /\ first <= upTo /\ upTo <= end + 1 /\ first <= end /\ noted \in 0 .. end
      /\ FirstUnpruned(tx) = first /\ FirstUnpruned(tx') = upTo
      /\ phase = "open" /\ phase' = "open" /\ windowEnd' = end + 1
      /\ noted' = noted + 1 /\ pendingNumber' = pendingNumber /\ disk' = disk
  BY <1>0, SMTT(30) DEF Canonicalized
<1>2. /\ DOMAIN deathRows = pendingNumber .. end - 1
      /\ DOMAIN deathRows' = pendingNumber .. end
      /\ tx.trie \in [0 .. end - 1 -> SUBSET Key]
      /\ tx.data \in [Key -> Nat]
      /\ \A m \in pendingNumber .. end - 1 : deathRows[m].deleted \in SUBSET Key
  BY <1>0, ZenonT(60) DEF Canonicalized
<1>3. old \in SUBSET Key /\ (end > 0 => old = tx.trie[end - 1])
  BY <1>0 DEF Canonicalized
<1>4. tx' = PruneTx(noteTx, deathRows', first, upTo)
  BY <1>0 DEF Canonicalized
<1>5. /\ tx'.trie = [m \in 0 .. end |-> IF m = end THEN nodes ELSE tx.trie[m]]
      /\ \A n \in upTo .. end : tx'.journal[n] =
            IF n = end THEN JournalRecord(hash, inserted, deleted) ELSE tx.journal[n]
  BY <1>0, ZenonT(60) DEF Canonicalized
<1>6. \A n \in 0 .. end : TrieBefore(tx', n) = TrieBefore(tx, n)
  BY <1>0, Zenon DEF Canonicalized
<1>7. /\ deathRows' = ImportedRows(deathRows, deathIndex, end, hash, inserted, deleted)
      /\ deathIndex' = ImportedIndex(deathIndex, end, inserted, deleted)
  BY <1>0, ZenonT(60) DEF Canonicalized
<1>8. /\ deathRows'[end] = [hash |-> hash, deleted |-> deleted]
      /\ \A m \in pendingNumber .. end - 1 :
           /\ deathRows'[m].hash = deathRows[m].hash
           /\ deathRows'[m].deleted = {k \in deathRows[m].deleted :
                                        ~(Revived(deathIndex, k, inserted) /\ deathIndex[k] = m)}
  BY <1>0, Zenon DEF Canonicalized
<1>9. \A m \in pendingNumber .. end - 1 : \A k \in deathRows'[m].deleted :
        /\ k \in Key /\ k \in deathRows[m].deleted /\ deathIndex[k] = m /\ k \notin inserted
        /\ k \notin old /\ \A n \in m .. end - 1 : k \notin tx.trie[n]
  <2> SUFFICES ASSUME NEW m \in pendingNumber .. end - 1, NEW k \in deathRows'[m].deleted
               PROVE  /\ k \in Key /\ k \in deathRows[m].deleted /\ deathIndex[k] = m
                      /\ k \notin inserted
                      /\ k \notin old /\ \A n \in m .. end - 1 : k \notin tx.trie[n]
    OBVIOUS
  <2>1. k \in Key /\ k \in deathRows[m].deleted
    BY <1>2, <1>8, SMTT(30)
  <2>2. deathIndex[k] = m
    BY <1>2, <2>1 DEF Inv, IndexMatchesRows
  <2>3. k \notin inserted
    BY <1>1, <1>8, <2>2, NoneAssumption, SMTT(30) DEF Revived
  <2>4. \A n \in m .. end - 1 : k \notin tx.trie[n]
    BY <1>2, <2>1 DEF Inv, RowsDead
  <2>5. k \notin old
    BY <1>1, <1>3, <2>4
  <2> QED
    BY <2>1, <2>2, <2>3, <2>4, <2>5
<1>10. RowsDead'
  <2> SUFFICES ASSUME NEW m \in DOMAIN deathRows', NEW k \in deathRows'[m].deleted,
                      NEW n \in m .. windowEnd' - 1
               PROVE  k \notin tx'.trie[n]
    BY DEF RowsDead
  <2>1. m \in pendingNumber .. end /\ n \in m .. end
    BY <1>1, <1>2
  <2>2. /\ tx'.trie[end] = nodes
        /\ n < end => tx'.trie[n] = tx.trie[n]
    BY <1>1, <1>5, <2>1
  <2>3. CASE m = end
    <3>1. n = end /\ k \in deleted
      BY <1>1, <1>8, <2>1, <2>3
    <3> QED
      BY <2>2, <3>1
  <2>4. CASE m # end
    <3>1. m \in pendingNumber .. end - 1
      BY <1>1, <2>1, <2>4
    <3>2. k \notin nodes /\ \A i \in m .. end - 1 : k \notin tx.trie[i]
      BY <1>9, <3>1
    <3> HIDE DEF old, inserted
    <3> QED
      BY <1>1, <2>1, <2>2, <3>1, <3>2
  <2> QED
    BY <2>3, <2>4
<1>11. IndexMatchesRows'
  <2> SUFFICES ASSUME NEW k \in Key
               PROVE  /\ deathIndex'[k] # None =>
                           /\ deathIndex'[k] \in DOMAIN deathRows'
                           /\ k \in deathRows'[deathIndex'[k]].deleted
                      /\ \A n \in DOMAIN deathRows' :
                           k \in deathRows'[n].deleted => deathIndex'[k] = n
    BY DEF IndexMatchesRows
  <2>1. CASE k \in deleted
    <3>1. deathIndex'[k] = end
      BY <1>7, <2>1 DEF ImportedIndex
    <3> QED
      BY <1>1, <1>2, <1>8, <1>9, <2>1, <3>1
  <2>2. CASE k \notin deleted /\ Revived(deathIndex, k, inserted)
    <3>1. deathIndex'[k] = None
      BY <1>7, <2>2 DEF ImportedIndex
    <3>2. k \in inserted
      BY <2>2 DEF Revived
    <3>3. ASSUME NEW n \in DOMAIN deathRows', k \in deathRows'[n].deleted PROVE FALSE
      <4>1. n \in pendingNumber .. end - 1
        BY <1>1, <1>2, <1>8, <2>2, <3>3
      <4> QED
        BY <1>9, <3>2, <3>3, <4>1
    <3> QED
      BY <3>1, <3>3
  <2>3. CASE k \notin deleted /\ ~Revived(deathIndex, k, inserted)
    <3>1. deathIndex'[k] = deathIndex[k]
      BY <1>7, <2>3, SMTT(30) DEF ImportedIndex
    <3>2. deathIndex[k] # None => /\ deathIndex[k] \in pendingNumber .. end - 1
                                  /\ k \in deathRows[deathIndex[k]].deleted
      BY <1>2 DEF Inv, IndexMatchesRows
    <3>3. ASSUME deathIndex[k] # None
          PROVE  /\ deathIndex[k] \in DOMAIN deathRows'
                 /\ k \in deathRows'[deathIndex[k]].deleted
      BY <1>1, <1>2, <1>8, <2>3, <3>2, <3>3
    <3>4. ASSUME NEW n \in DOMAIN deathRows', k \in deathRows'[n].deleted
          PROVE  deathIndex[k] = n
      <4>1. n \in pendingNumber .. end - 1
        BY <1>1, <1>2, <1>8, <2>3, <3>4
      <4> QED
        BY <1>9, <3>4, <4>1
    <3> QED
      BY <3>1, <3>3, <3>4
  <2> QED
    BY <2>1, <2>2, <2>3
<1>12. ASSUME NEW k \in Key, k \in inserted \/ tx.data[k] > 0,
              \A m \in first .. upTo - 1 : k \notin deathRows'[m].deleted
       PROVE  tx'.data[k] > 0
  <2>1. noteTx.data[k] > 0
    BY <1>2, <1>12 DEF NoteCanonicalTx, Put
  <2>2. {m \in first .. upTo - 1 : k \in deathRows'[m].deleted} = {}
    BY <1>12
  <2>3. Cardinality({m \in first .. upTo - 1 : k \in deathRows'[m].deleted}) = 0
    BY <2>2, FS_EmptySet, Zenon
  <2>4. tx'.data[k] = Dereference(noteTx.data, k,
                        Cardinality({m \in first .. upTo - 1 : k \in deathRows'[m].deleted}))
    BY <1>4 DEF PruneTx
  <2> QED
    BY <2>1, <2>3, <2>4 DEF Dereference
<1>13. ChainOK(tx', end + 1)
  <2>1. \A n \in upTo .. end : /\ tx'.journal[n].inserted = tx'.trie[n] \ TrieBefore(tx', n)
                              /\ tx'.journal[n].deleted = TrieBefore(tx', n) \ tx'.trie[n]
    <3> SUFFICES ASSUME NEW n \in upTo .. end
                 PROVE  /\ tx'.journal[n].inserted = tx'.trie[n] \ TrieBefore(tx', n)
                        /\ tx'.journal[n].deleted = TrieBefore(tx', n) \ tx'.trie[n]
      OBVIOUS
    <3>1. n \in 0 .. end /\ TrieBefore(tx', n) = TrieBefore(tx, n)
      BY <1>1, <1>6
    <3>2. CASE n = end
      <4>1. tx'.trie[n] = nodes /\ tx'.journal[n] = JournalRecord(hash, inserted, deleted)
        BY <1>5, <3>1, <3>2, Zenon
      <4> QED
        BY <3>1, <3>2, <4>1 DEF JournalRecord
    <3>3. CASE n # end
      <4>1. tx'.trie[n] = tx.trie[n] /\ tx'.journal[n] = tx.journal[n]
        BY <1>5, <3>1, <3>3
      <4>2. n \in FirstUnpruned(tx) .. end - 1
        BY <1>1, <3>3
      <4> QED
        BY <3>1, <4>1, <4>2 DEF Inv, ChainOK
    <3> QED
      BY <3>2, <3>3
  <2>2. ASSUME NEW m \in 0 .. end, NEW n \in 0 .. end, NEW k \in Key,
               m < n, k \notin tx'.trie[m], k \in tx'.trie[n]
        PROVE  \E j \in m + 1 .. n : k \in tx'.trie[j] /\ k \notin tx'.trie[j - 1]
    <3>1. CASE n < end
      <4>1. m \in 0 .. end - 1 /\ n \in 0 .. end - 1 /\ k \notin tx.trie[m] /\ k \in tx.trie[n]
        BY <1>1, <1>5, <2>2, <3>1, SMTT(30)
      <4>2. PICK j \in m + 1 .. n : k \in tx.trie[j] /\ k \notin tx.trie[j - 1]
        BY <2>2, <4>1 DEF Inv, ChainOK
      <4> QED
        BY <1>1, <1>5, <3>1, <4>2
    <3>2. CASE n = end /\ k \notin tx.trie[end - 1]
      BY <1>1, <1>5, <2>2, <3>2
    <3>3. CASE n = end /\ k \in tx.trie[end - 1]
      <4>1. m \in 0 .. end - 1 /\ end - 1 \in 0 .. end - 1 /\ k \notin tx.trie[m] /\ m < end - 1
        BY <1>1, <1>5, <2>2, <3>3, SMTT(30)
      <4>2. PICK j \in m + 1 .. end - 1 : k \in tx.trie[j] /\ k \notin tx.trie[j - 1]
        BY <3>3, <4>1 DEF Inv, ChainOK
      <4> QED
        BY <1>1, <1>5, <3>3, <4>2
    <3>4. n < end \/ n = end
      BY <1>1
    <3> QED
      BY <3>1, <3>2, <3>3, <3>4, SMTT(30)
  <2>3. ASSUME NEW n \in 0 .. end, n + 1 >= upTo, NEW k \in tx'.trie[n]
        PROVE  tx'.data[k] > 0
    <3>1. k \in Key
      BY <1>1, <1>2, <1>5
    <3>2. ASSUME NEW m \in first .. upTo - 1 PROVE k \notin deathRows'[m].deleted
      <4>1. m \in pendingNumber .. end /\ n \in m .. windowEnd' - 1
        BY <1>1, <2>3
      <4>2. m \in DOMAIN deathRows'
        BY <1>2, <4>1
      <4> QED
        BY <1>10, <4>1, <4>2 DEF RowsDead
    <3>3. k \in inserted \/ tx.data[k] > 0
      <4>1. \A i \in 0 .. end - 1 : i + 1 >= first => \A x \in tx.trie[i] : tx.data[x] > 0
        BY <1>1 DEF Inv, ChainOK
      <4>2. CASE n < end
        BY <1>1, <1>5, <2>3, <4>1, <4>2
      <4>3. CASE n = end /\ k \in old
        BY <1>1, <1>3, <4>1, <4>3 DEF TrieBefore
      <4> QED
        BY <1>1, <1>5, <2>3, <4>2, <4>3, SMTT(30)
    <3> QED
      BY <1>12, <3>1, <3>2, <3>3
  <2>4. FirstUnpruned(tx') = upTo /\ (end + 1) - 1 = end
    BY <1>1
  <2> QED
    BY <2>1, <2>2, <2>3, <2>4 DEF ChainOK
<1>14. RowsFromJournal(tx, windowEnd)'
  <2>0. FirstUnpruned(tx)' = upTo /\ (windowEnd - 1)' = end
    BY <1>1
  <2> SUFFICES ASSUME NEW n \in upTo .. end
               PROVE  /\ deathRows'[n].hash = tx'.journal[n].hash
                      /\ deathRows'[n].deleted \subseteq tx'.journal[n].deleted
    BY <2>0, SMTT(30) DEF RowsFromJournal
  <2>1. CASE n = end
    <3>1. tx'.journal[n] = JournalRecord(hash, inserted, deleted)
      BY <1>5, <2>1, ZenonT(60)
    <3> QED
      BY <1>8, <2>1, <3>1 DEF JournalRecord
  <2>2. CASE n # end
    <3>1. tx'.journal[n] = tx.journal[n]
      BY <1>5, <2>2
    <3>2. n \in FirstUnpruned(tx) .. end - 1 /\ n \in pendingNumber .. end - 1
      BY <1>1, <2>2
    <3> QED
      BY <1>8, <3>1, <3>2 DEF RowsFromJournal, Inv
  <2> QED
    BY <2>1, <2>2
<1>15. RowsFromJournal(disk, windowEnd - noted)'
  <2>1. FirstUnpruned(disk) = pendingNumber /\ RowsFromJournal(disk, windowEnd - noted)
    BY <1>1 DEF Inv, TypeOK
  <2>2. (windowEnd - noted)' = windowEnd - noted /\ disk' = disk
    BY <1>1
  <2>3. \A n \in pendingNumber .. (windowEnd - noted) - 1 : n \in pendingNumber .. end - 1
    BY <1>1
  <2>4. \A n \in pendingNumber .. (windowEnd - noted) - 1 :
          /\ deathRows'[n].hash = disk.journal[n].hash
          /\ deathRows'[n].deleted \subseteq disk.journal[n].deleted
    BY <1>8, <2>1, <2>3 DEF RowsFromJournal
  <2> QED
    BY <2>1, <2>2, <2>4, SMTT(30) DEF RowsFromJournal
<1>16. ChainOK(disk, windowEnd - noted)'
  <2>1. (windowEnd - noted)' = windowEnd - noted /\ disk' = disk
    BY <1>1
  <2>2. ChainOK(disk, windowEnd - noted)
    BY <1>1 DEF Inv
  <2> QED
    BY <2>1, <2>2
<1>17. \A n \in 0 .. ((windowEnd - noted) - 1)' : disk'.trie[n] = tx'.trie[n]
  BY <1>1, <1>5, SMTT(30) DEF Inv
<1> QED
  BY <1>1, <1>10, <1>11, <1>13, <1>14, <1>15, <1>16, <1>17, SMTT(30) DEF Inv

\* apply_pending drops rows that are no longer in the journal; what remains
\* was dead before and stays indexed.
LEMMA ApplyPreserves ==
  ASSUME CountInsertions, Inv, TypeOK', ApplyPending
  PROVE  Inv'
<1> DEFINE start == pendingNumber + prunings
<1>1. /\ phase = "committed" /\ phase' = "open" /\ disk = tx
      /\ windowEnd' = windowEnd /\ disk' = disk /\ tx' = tx /\ noted' = 0
      /\ pendingNumber \in Nat /\ prunings \in Nat /\ windowEnd \in Nat
      /\ FirstUnpruned(tx) = start
      /\ DOMAIN deathRows = pendingNumber .. windowEnd - 1
      /\ deathRows' = [n \in start .. windowEnd - 1 |-> deathRows[n]]
      /\ deathIndex \in [Key -> Nat \cup {None}]
  BY MaxNumberAssumption, SMTT(30) DEF Inv, TypeOK, ApplyPending
<1>2. ChainOK(tx, windowEnd)' /\ RowsFromJournal(tx, windowEnd)'
  BY <1>1, SMTT(30) DEF Inv, ChainOK, RowsFromJournal
<1>3. ChainOK(disk, windowEnd - noted)' /\ RowsFromJournal(disk, windowEnd - noted)'
  <2>1. (windowEnd - noted)' = windowEnd' /\ disk' = tx'
    BY <1>1
  <2> QED
    BY <1>2, <2>1 DEF ChainOK, RowsFromJournal
<1>4. RowsDead'
  BY <1>1 DEF Inv, RowsDead
<1>5. IndexMatchesRows'
  <2> SUFFICES ASSUME NEW k \in Key
               PROVE  /\ deathIndex'[k] # None =>
                           /\ deathIndex'[k] \in DOMAIN deathRows'
                           /\ k \in deathRows'[deathIndex'[k]].deleted
                      /\ \A n \in DOMAIN deathRows' :
                           k \in deathRows'[n].deleted => deathIndex'[k] = n
    BY DEF IndexMatchesRows
  <2>1. /\ deathIndex[k] # None => /\ deathIndex[k] \in DOMAIN deathRows
                                    /\ k \in deathRows[deathIndex[k]].deleted
        /\ \A n \in DOMAIN deathRows : k \in deathRows[n].deleted => deathIndex[k] = n
    BY DEF Inv, IndexMatchesRows
  <2>2. deathIndex'[k] = IF \E n \in pendingNumber .. start - 1 : k \in deathRows[n].deleted
                         THEN None ELSE deathIndex[k]
    BY DEF ApplyPending
  <2>3. CASE \E n \in pendingNumber .. start - 1 : k \in deathRows[n].deleted
    <3>1. PICK n \in pendingNumber .. start - 1 : k \in deathRows[n].deleted
      BY <2>3
    <3>2. n \in DOMAIN deathRows
      <4>1. start <= windowEnd
        BY <1>1 DEF Inv, TypeOK, DiskOK
      <4> QED
        BY <1>1, <4>1
    <3> QED
      BY <1>1, <2>1, <2>2, <3>1, <3>2
  <2>4. CASE ~ \E n \in pendingNumber .. start - 1 : k \in deathRows[n].deleted
    BY <1>1, <2>1, <2>2, <2>4
  <2> QED
    BY <2>3, <2>4
<1>6. \A n \in 0 .. ((windowEnd - noted) - 1)' : disk'.trie[n] = tx'.trie[n]
  BY <1>1
<1> QED
  BY <1>2, <1>3, <1>4, <1>5, <1>6 DEF Inv

\* revert_pending leaves rows of committed blocks only, whose keys are dead in
\* the committed chain because it is a prefix of the abandoned one.
LEMMA RevertPreserves ==
  ASSUME CountInsertions, Inv, TypeOK', RevertPending
  PROVE  Inv'
<1> DEFINE newMax == windowEnd - noted
<1>1. /\ phase = "open" /\ windowEnd' = newMax /\ disk' = disk /\ tx' = disk /\ noted' = 0
      /\ pendingNumber \in Nat /\ windowEnd \in Nat /\ newMax \in 0 .. windowEnd
      /\ pendingNumber' = pendingNumber /\ phase' = phase
      /\ FirstUnpruned(disk) = pendingNumber
      /\ DOMAIN deathRows = pendingNumber .. windowEnd - 1
      /\ deathRows' = [n \in pendingNumber .. newMax - 1 |-> deathRows[n]]
      /\ deathIndex \in [Key -> Nat \cup {None}]
  BY MaxNumberAssumption DEF Inv, TypeOK, RevertPending
<1>2. /\ ChainOK(disk, newMax) /\ RowsFromJournal(disk, newMax)
      /\ \A n \in 0 .. newMax - 1 : disk.trie[n] = tx.trie[n]
  BY <1>1 DEF Inv
<1>3. deathIndex' = [k \in Key |-> IF deathIndex[k] # None /\ deathIndex[k] >= newMax
                                    THEN None ELSE deathIndex[k]]
  BY DEF RevertPending
<1>4. (windowEnd - noted)' = newMax
  BY <1>1
<1> HIDE DEF newMax
<1>5. ChainOK(tx, windowEnd)' /\ ChainOK(disk, windowEnd - noted)'
  <2>1. tx' = disk /\ disk' = disk /\ windowEnd' = newMax
    BY <1>1
  <2> QED
    BY <1>2, <1>4, <2>1
<1>6. RowsFromJournal(tx, windowEnd)' /\ RowsFromJournal(disk, windowEnd - noted)'
  BY <1>1, <1>2, <1>4 DEF RowsFromJournal
<1>7. RowsDead'
  <2> SUFFICES ASSUME NEW m \in DOMAIN deathRows', NEW k \in deathRows'[m].deleted,
                      NEW n \in m .. windowEnd' - 1
               PROVE  k \notin tx'.trie[n]
    BY DEF RowsDead
  <2>1. /\ m \in pendingNumber .. windowEnd - 1 /\ n \in m .. windowEnd - 1
        /\ n \in 0 .. newMax - 1 /\ k \in deathRows[m].deleted
    BY <1>1
  <2> QED
    BY <1>1, <1>2, <2>1 DEF Inv, RowsDead
<1>8. IndexMatchesRows'
  <2> SUFFICES ASSUME NEW k \in Key
               PROVE  /\ deathIndex'[k] # None =>
                           /\ deathIndex'[k] \in DOMAIN deathRows'
                           /\ k \in deathRows'[deathIndex'[k]].deleted
                      /\ \A n \in DOMAIN deathRows' :
                           k \in deathRows'[n].deleted => deathIndex'[k] = n
    BY DEF IndexMatchesRows
  <2>1. /\ deathIndex[k] # None => /\ deathIndex[k] \in DOMAIN deathRows
                                    /\ k \in deathRows[deathIndex[k]].deleted
        /\ \A n \in DOMAIN deathRows : k \in deathRows[n].deleted => deathIndex[k] = n
    BY DEF Inv, IndexMatchesRows
  <2> QED
    BY <1>1, <1>3, <2>1
<1> QED
  BY <1>1, <1>2, <1>4, <1>5, <1>6, <1>7, <1>8 DEF Inv

\* Rebuilding the window from the journal re-establishes the invariant from
\* the committed chain alone.
LEMMA RestartPreserves ==
  ASSUME CountInsertions, Inv, TypeOK', Restart
  PROVE  Inv'
<1> DEFINE end == IF phase = "open" THEN windowEnd - noted ELSE windowEnd
<1>1. DiskOK(disk, end) /\ ChainOK(disk, end) /\ end \in 0 .. MaxNumber
  <2>1. CASE phase = "open"
    <3>1. end = windowEnd - noted
      BY <2>1
    <3>2. ChainOK(disk, windowEnd - noted)
      BY <2>1 DEF Inv
    <3>3. DiskOK(disk, windowEnd - noted) /\ noted \in 0 .. windowEnd /\ windowEnd \in 0 .. MaxNumber
      BY <2>1 DEF Inv, TypeOK
    <3>4. windowEnd - noted \in 0 .. MaxNumber
      BY <3>3, MaxNumberAssumption
    <3> QED
      BY <3>1, <3>2, <3>3, <3>4
  <2>2. CASE phase # "open"
    <3>1. end = windowEnd /\ disk = tx
      BY <2>2 DEF Inv, TypeOK
    <3> QED
      BY <3>1, MaxNumberAssumption, SMTT(30) DEF Inv, TypeOK
  <2> QED
    BY <2>1, <2>2
<1> HIDE DEF end
<1>2. JournalEnd(disk) = end
  BY <1>1, JournalEndUnique
<1>3. /\ tx' = disk /\ disk' = disk /\ windowEnd' = end /\ (windowEnd - noted)' = end
      /\ deathRows' = RestoredRows(disk) /\ deathIndex' = RestoredIndex(RestoredRows(disk))
      /\ FirstUnpruned(disk) \in Nat /\ end \in Nat
  BY <1>1, <1>2, NoneAssumption, MaxNumberAssumption DEF Restart, DiskOK, FirstUnpruned
<1>4. DOMAIN RestoredRows(disk) = FirstUnpruned(disk) .. end - 1
  BY <1>2 DEF RestoredRows
<1>5. /\ \A m \in FirstUnpruned(disk) .. end - 1 : \A k \in RestoredRows(disk)[m].deleted :
           \A n \in m .. end - 1 : k \notin disk.trie[n]
      /\ \A k \in Key : \A m, n \in FirstUnpruned(disk) .. end - 1 :
           k \in RestoredRows(disk)[m].deleted /\ k \in RestoredRows(disk)[n].deleted => m = n
  BY <1>1, RestoredDead, SMTT(30)
<1>6. ChainOK(tx, windowEnd)' /\ ChainOK(disk, windowEnd - noted)'
  BY <1>1, <1>3, SMTT(30) DEF ChainOK
<1>7. RowsFromJournal(tx, windowEnd)' /\ RowsFromJournal(disk, windowEnd - noted)'
  BY <1>2, <1>3, ZenonT(60) DEF RowsFromJournal, RestoredRows
<1>8. RowsDead'
  BY <1>3, <1>4, <1>5 DEF RowsDead
<1>9. IndexMatchesRows'
  <2> DEFINE rows == RestoredRows(disk)
  <2>1. ASSUME NEW k \in Key
        PROVE  /\ RestoredIndex(rows)[k] # None =>
                    /\ RestoredIndex(rows)[k] \in DOMAIN rows
                    /\ k \in rows[RestoredIndex(rows)[k]].deleted
               /\ \A n \in DOMAIN rows : k \in rows[n].deleted => RestoredIndex(rows)[k] = n
    <3>1. CASE \E n \in DOMAIN rows : k \in rows[n].deleted
      <4>1. RestoredIndex(rows)[k] = CHOOSE n \in DOMAIN rows : k \in rows[n].deleted
        BY <3>1 DEF RestoredIndex
      <4>2. RestoredIndex(rows)[k] \in DOMAIN rows /\ k \in rows[RestoredIndex(rows)[k]].deleted
        BY <3>1, <4>1
      <4> QED
        BY <1>4, <1>5, <4>2
    <3>2. CASE ~ \E n \in DOMAIN rows : k \in rows[n].deleted
      BY <3>2 DEF RestoredIndex
    <3> QED
      BY <3>1, <3>2
  <2> QED
    BY <1>3, <2>1, SMTT(30) DEF IndexMatchesRows
<1>10. \A n \in 0 .. ((windowEnd - noted) - 1)' : disk'.trie[n] = tx'.trie[n]
  BY <1>3
<1> QED
  BY <1>6, <1>7, <1>8, <1>9, <1>10 DEF Inv

\* Inv is inductive on a back end without reference counting.
LEMMA Invariance == ASSUME CountInsertions PROVE Spec => []Inv
<1>1. Init => Inv
  <2> SUFFICES ASSUME Init PROVE Inv
    OBVIOUS
  <2>1. TypeOK
    BY MaxNumberAssumption, NoneAssumption
       DEF Init, TypeOK, DiskOK, EmptyDisk, FirstUnpruned
  <2>2. ChainOK(tx, windowEnd) /\ ChainOK(disk, windowEnd - noted)
    <3>1. /\ tx = EmptyDisk /\ disk = EmptyDisk /\ windowEnd = 0 /\ windowEnd - noted = 0
          /\ FirstUnpruned(EmptyDisk) = 0
      BY DEF Init, EmptyDisk, FirstUnpruned
    <3>2. ChainOK(EmptyDisk, 0)
      BY <3>1 DEF ChainOK
    <3> QED
      BY <3>1, <3>2, SMTT(30)
  <2>3. RowsFromJournal(tx, windowEnd) /\ RowsFromJournal(disk, windowEnd - noted)
    BY DEF Init, RowsFromJournal, EmptyDisk, FirstUnpruned
  <2>4. RowsDead /\ IndexMatchesRows
    BY DEF Init, RowsDead, IndexMatchesRows
  <2> QED
    BY <2>1, <2>2, <2>3, <2>4 DEF Inv, Init
<1>2. Inv /\ TypeOK' /\ [Next]_vars => Inv'
  <2> SUFFICES ASSUME Inv, TypeOK', [Next]_vars
               PROVE  Inv'
    OBVIOUS
  <2>1. ASSUME NEW hash \in BlockHash, NEW nodes \in SUBSET Key, NEW upTo \in 0 .. MaxNumber,
               CanonicalizeBlock(hash, nodes, upTo)
        PROVE  Inv'
    BY <2>1, CanonicalizePreserves
  <2>2. CASE DbCommit
    <3>1. memory' = memory /\ tx' = tx /\ disk' = tx /\ phase' = "committed"
      BY <2>2 DEF DbCommit
    <3>2. ChainOK(tx, windowEnd)' /\ RowsFromJournal(tx, windowEnd)'
      BY <3>1 DEF Inv, memory, RowsFromJournal
    <3>3. RowsDead' /\ IndexMatchesRows'
      BY <3>1 DEF Inv, memory, RowsDead, IndexMatchesRows
    <3> QED
      BY <3>1, <3>2, <3>3 DEF Inv
  <2>3. CASE ApplyPending
    BY <2>3, ApplyPreserves
  <2>4. CASE RevertPending
    BY <2>4, RevertPreserves
  <2>5. CASE Restart
    BY <2>5, RestartPreserves
  <2>6. CASE UNCHANGED vars
    <3>1. memory' = memory /\ tx' = tx /\ disk' = disk /\ phase' = phase
      BY <2>6 DEF vars
    <3>2. ChainOK(tx, windowEnd)' /\ RowsFromJournal(tx, windowEnd)'
      BY <3>1 DEF Inv, memory, RowsFromJournal
    <3>3. RowsDead' /\ IndexMatchesRows'
      BY <3>1 DEF Inv, memory, RowsDead, IndexMatchesRows
    <3>4. phase = "open" => /\ ChainOK(disk, windowEnd - noted)'
                            /\ RowsFromJournal(disk, windowEnd - noted)'
      BY <3>1 DEF Inv, memory, RowsFromJournal
    <3>5. windowEnd' = windowEnd /\ noted' = noted
      BY <3>1 DEF memory
    <3> QED
      BY <3>1, <3>2, <3>3, <3>4, <3>5 DEF Inv
  <2> QED
    BY <2>1, <2>2, <2>3, <2>4, <2>5, <2>6 DEF Next
<1> QED
  BY <1>1, <1>2, WindowShape, PTL DEF Spec

LEMMA PruningIsSafeUncounted ==
  ASSUME CountInsertions PROVE Spec => []RetainedStatesStored
<1>1. Inv => RetainedStatesStored
  <2> SUFFICES ASSUME Inv, NEW d \in {disk, tx}, NEW n \in DOMAIN d.trie,
                      n + 1 >= FirstUnpruned(d), NEW k \in d.trie[n]
               PROVE  d.data[k] > 0
    BY DEF RetainedStatesStored
  <2>1. PICK end : DiskOK(d, end) /\ ChainOK(d, end)
    BY DEF Inv, TypeOK
  <2> QED
    BY <2>1, ZenonT(60) DEF DiskOK, ChainOK
<1> QED
  BY <1>1, Invariance, PTL

LEMMA RestartForgetsNothingUncounted ==
  ASSUME CountInsertions PROVE Spec => []JournalRestoresWindow
<1>1. Inv => JournalRestoresWindow
  <2> SUFFICES ASSUME Inv, noted = 0, prunings = 0, phase = "open"
               PROVE  /\ DOMAIN RestoredRows(disk) = DOMAIN deathRows
                      /\ \A n \in DOMAIN RestoredRows(disk) :
                           /\ RestoredRows(disk)[n].hash = deathRows[n].hash
                           /\ deathRows[n].deleted \subseteq RestoredRows(disk)[n].deleted
    BY DEF JournalRestoresWindow
  <2>1. /\ windowEnd \in 0 .. MaxNumber /\ windowEnd - noted = windowEnd
        /\ pendingNumber \in Nat /\ FirstUnpruned(disk) = pendingNumber
        /\ DOMAIN deathRows = pendingNumber .. windowEnd - 1
    BY MaxNumberAssumption DEF Inv, TypeOK
  <2>2. DiskOK(disk, windowEnd) /\ ChainOK(disk, windowEnd) /\ RowsFromJournal(disk, windowEnd)
    BY <2>1 DEF Inv, TypeOK
  <2>3. JournalEnd(disk) = windowEnd
    BY <2>1, <2>2, JournalEndUnique
  <2>4. \A n \in 0 .. windowEnd - 1 : disk.trie[n] = tx.trie[n]
    BY <2>1 DEF Inv
  <2>5. ASSUME NEW n \in pendingNumber .. windowEnd - 1, NEW k \in deathRows[n].deleted,
               NEW m \in n + 1 .. windowEnd - 1
        PROVE  k \notin disk.journal[m].inserted
    <3>1. m \in 0 .. windowEnd - 1 /\ m \in n .. windowEnd - 1 /\ m \in pendingNumber .. windowEnd - 1
      BY <2>1
    <3>2. k \notin disk.trie[m]
      BY <2>1, <2>4, <3>1 DEF Inv, RowsDead
    <3> QED
      BY <2>1, <2>2, <3>1, <3>2 DEF ChainOK
  <2> QED
    BY <2>1, <2>2, <2>3, <2>5 DEF RestoredRows, RowsFromJournal
<1> QED
  BY <1>1, Invariance, PTL

=============================================================================
