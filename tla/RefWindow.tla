----------------------------- MODULE RefWindow -----------------------------
(***************************************************************************)
(* The pruning window of the state database                                *)
(* (client/state-db/src/pruning.rs, RefWindow).                            *)
(*                                                                         *)
(* When a block becomes canonical, the trie nodes it created are written   *)
(* to the state column at once, and the nodes it made obsolete go into a   *)
(* "death row".  A row is executed, its nodes deleted, when its block      *)
(* leaves the window.  A node that is created again while it waits in a    *)
(* row has to be taken off that row.  Every change goes first into a       *)
(* database transaction and into provisional in-memory state; the commit   *)
(* of the transaction is followed by apply_pending, its failure by         *)
(* revert_pending, and the process may stop at any point and rebuild the   *)
(* window from the journal.                                                *)
(*                                                                         *)
(* Rows are indexed by block number rather than by position: the VecDeque  *)
(* death_rows is the function deathRows on pendingNumber .. windowEnd - 1, *)
(* so that windowEnd stands for pending_number + death_rows.len().         *)
(***************************************************************************)
EXTENDS Integers, FiniteSets

CONSTANTS
  Key,              \* trie node keys
  BlockHash,        \* hashes of canonical blocks
  CountInsertions,  \* RefWindow.count_insertions: TRUE for a back end that
                    \* does not count references (RocksDB)
  MaxNumber,        \* bound on the number of blocks canonicalized
  None              \* Option::None

ASSUME CountInsertionsAssumption == CountInsertions \in BOOLEAN
ASSUME MaxNumberAssumption == MaxNumber \in Nat
ASSUME NoneAssumption == None \notin Nat

VARIABLES
  deathRows,     \* death_rows: block number -> [hash, deleted]
  deathIndex,    \* death_index: key -> number of the row that holds it
  pendingNumber, \* pending_number: number of the first row
  windowEnd,     \* pending_number + death_rows.len()
  noted,         \* pending_canonicalizations: rows added since the last commit
  prunings,      \* pending_prunings: rows pruned since the last commit
  disk,          \* what the database holds
  tx,            \* what it will hold once the open transaction is committed
  phase          \* "open", or "committed" between db.commit and apply_pending

memory == <<deathRows, deathIndex, pendingNumber, windowEnd, noted, prunings>>
vars == <<memory, disk, tx, phase>>

(***************************************************************************)
(* The database.  data is the state column with a reference count per      *)
(* node, journal the pruning journal, lastPruned the LAST_PRUNED record.   *)
(* trie is the canonical chain itself, the set of nodes of the state that  *)
(* each header commits to: the window never reads it.                      *)
(***************************************************************************)
EmptyDisk == [ data       |-> [k \in Key |-> 0],
               journal    |-> [n \in {} |-> None],
               lastPruned |-> None,
               trie       |-> [n \in {} |-> {}] ]

\* Mutant: restarts at the last pruned block instead of the one after it.
FirstUnprunedOffByOne(d) == IF d.lastPruned = None THEN 0 ELSE d.lastPruned
FirstUnpruned(d) == IF d.lastPruned = None THEN 0 ELSE d.lastPruned + 1

TrieBefore(d, n) == IF n = 0 THEN {} ELSE d.trie[n - 1]

(***************************************************************************)
(* The state column under Change::Set and Change::Remove: a plain          *)
(* key-value store keeps one copy of a node, a reference-counting one      *)
(* counts.                                                                 *)
(***************************************************************************)
Put(data, keys) ==
  [k \in Key |-> IF k \notin keys THEN data[k]
                 ELSE IF CountInsertions THEN 1 ELSE data[k] + 1]

Dereference(data, k, times) ==
  IF times = 0 THEN data[k]
  ELSE IF CountInsertions \/ data[k] <= times THEN 0 ELSE data[k] - times

-----------------------------------------------------------------------------
(***************************************************************************)
(* import: takes the keys that come back to life off the row the index     *)
(* names, indexes the newly deleted keys and appends the row.              *)
(***************************************************************************)
\* Mutant: a key that is inserted again stays in its row.
RevivedNever(index, k, inserted) == FALSE
Revived(index, k, inserted) == CountInsertions /\ k \in inserted /\ index[k] # None

ImportedRows(rows, index, end, hash, inserted, deleted) ==
  [n \in DOMAIN rows \cup {end} |->
     IF n = end
     THEN [hash |-> hash, deleted |-> deleted]
     ELSE [hash    |-> rows[n].hash,
           deleted |-> {k \in rows[n].deleted :
                          ~(Revived(index, k, inserted) /\ index[k] = n)}]]

\* Mutant: the index keeps naming the row a revived key was taken off.
ImportedIndexStale(index, end, inserted, deleted) ==
  [k \in Key |-> IF CountInsertions /\ k \in deleted THEN end ELSE index[k]]
ImportedIndex(index, end, inserted, deleted) ==
  [k \in Key |-> IF CountInsertions /\ k \in deleted THEN end
                 ELSE IF Revived(index, k, inserted) THEN None
                 ELSE index[k]]

(***************************************************************************)
(* note_canonical and prune_one as calls on the open transaction d.        *)
(* note_canonical writes the new nodes and the journal record of block n,  *)
(* and keeps the deleted nodes for the row.  prune_one deletes the nodes   *)
(* of the first row not pruned yet and its journal record, and records its *)
(* number; PruneTx is the effect of calling it for the rows of first ..   *)
(* upTo - 1.                                                               *)
(***************************************************************************)
JournalRecord(hash, inserted, deleted) ==
  [ hash     |-> hash,
    inserted |-> IF CountInsertions THEN inserted ELSE {},
    deleted  |-> deleted ]

NoteCanonicalTx(d, n, hash, nodes) ==
  LET inserted == nodes \ TrieBefore(d, n)
      deleted  == TrieBefore(d, n) \ nodes
  IN  [ data       |-> Put(d.data, inserted),
        journal    |-> [m \in DOMAIN d.journal \cup {n} |->
                          IF m = n THEN JournalRecord(hash, inserted, deleted)
                                   ELSE d.journal[m]],
        lastPruned |-> d.lastPruned,
        trie       |-> [m \in DOMAIN d.trie \cup {n} |->
                          IF m = n THEN nodes ELSE d.trie[m]] ]

PruneTx(d, rows, first, upTo) ==
  [ data       |-> [k \in Key |->
                      Dereference(d.data, k,
                             Cardinality({m \in first .. upTo - 1 : k \in rows[m].deleted}))],
    journal    |-> [m \in DOMAIN d.journal \ (first .. upTo - 1) |-> d.journal[m]],
    lastPruned |-> IF first < upTo THEN upTo - 1 ELSE d.lastPruned,
    trie       |-> d.trie ]

(***************************************************************************)
(* StateDbSync::canonicalize_block as the window sees it: the block hash,  *)
(* whose state consists of nodes, is noted and then the rows below upTo    *)
(* are pruned, in one call under the write lock.  How far it prunes is the *)
(* caller's choice (window size and pins) and may be nowhere.              *)
(***************************************************************************)
CanonicalizeBlock(hash, nodes, upTo) ==
  LET inserted == nodes \ TrieBefore(tx, windowEnd)
      deleted  == TrieBefore(tx, windowEnd) \ nodes
      first    == pendingNumber + prunings
  IN  /\ phase = "open"
      /\ windowEnd < MaxNumber
      /\ first <= upTo /\ upTo <= windowEnd + 1
      /\ deathRows' = ImportedRows(deathRows, deathIndex, windowEnd, hash, inserted, deleted)
      /\ deathIndex' = ImportedIndex(deathIndex, windowEnd, inserted, deleted)
      /\ windowEnd' = windowEnd + 1
      /\ noted' = noted + 1
      /\ prunings' = upTo - pendingNumber
      /\ tx' = PruneTx(NoteCanonicalTx(tx, windowEnd, hash, nodes), deathRows', first, upTo)
      /\ UNCHANGED <<pendingNumber, disk, phase>>

(***************************************************************************)
(* The database commits the transaction atomically.                        *)
(***************************************************************************)
DbCommit ==
  /\ phase = "open"
  /\ phase' = "committed"
  /\ disk' = tx
  /\ UNCHANGED <<memory, tx>>

(***************************************************************************)
(* apply_pending, after a successful commit: the pruned rows leave the     *)
(* deque and their keys leave the index.                                   *)
(***************************************************************************)
ApplyPending ==
  LET start  == pendingNumber + prunings
      pruned == UNION {deathRows[n].deleted : n \in pendingNumber .. start - 1}
  IN  /\ phase = "committed"
      /\ phase' = "open"
      /\ deathRows' = [n \in start .. windowEnd - 1 |-> deathRows[n]]
      /\ deathIndex' = [k \in Key |-> IF CountInsertions /\ k \in pruned
                                      THEN None ELSE deathIndex[k]]
      /\ pendingNumber' = start
      /\ noted' = 0
      /\ prunings' = 0
      /\ UNCHANGED <<windowEnd, disk, tx>>

(***************************************************************************)
(* revert_pending, after the operation or its commit failed: the rows      *)
(* added since the last commit are truncated, index entries that point     *)
(* into them dropped, and the pending prunings forgotten.  Keys that had   *)
(* been taken off a row are not put back.                                  *)
(***************************************************************************)
\* Mutant: the index keeps entries that point into the truncated rows.
RevertPendingKeepsIndex ==
  LET newMax == windowEnd - noted
  IN  /\ phase = "open"
      /\ deathRows' = [n \in pendingNumber .. newMax - 1 |-> deathRows[n]]
      /\ windowEnd' = newMax
      /\ noted' = 0
      /\ prunings' = 0
      /\ tx' = disk
      /\ UNCHANGED <<deathIndex, pendingNumber, disk, phase>>
\* Mutant: the rows are truncated but the pending prunings are kept.
RevertPendingKeepsPrunings ==
  LET newMax == windowEnd - noted
  IN  /\ phase = "open"
      /\ deathRows' = [n \in pendingNumber .. newMax - 1 |-> deathRows[n]]
      /\ deathIndex' = [k \in Key |-> IF deathIndex[k] # None /\ deathIndex[k] >= newMax
                                      THEN None ELSE deathIndex[k]]
      /\ windowEnd' = newMax
      /\ noted' = 0
      /\ tx' = disk
      /\ UNCHANGED <<pendingNumber, prunings, disk, phase>>
RevertPending ==
  LET newMax == windowEnd - noted
  IN  /\ phase = "open"
      /\ deathRows' = [n \in pendingNumber .. newMax - 1 |-> deathRows[n]]
      /\ deathIndex' = [k \in Key |-> IF deathIndex[k] # None /\ deathIndex[k] >= newMax
                                      THEN None ELSE deathIndex[k]]
      /\ windowEnd' = newMax
      /\ noted' = 0
      /\ prunings' = 0
      /\ tx' = disk
      /\ UNCHANGED <<pendingNumber, disk, phase>>

(***************************************************************************)
(* RefWindow::new: reads LAST_PRUNED and imports the journal records that  *)
(* follow it until one is missing.  A key ends in the row of a record that *)
(* deletes it unless a later record inserts it again (ReplayMatches, in    *)
(* MCRefWindow, compares this with the record-by-record import).           *)
(***************************************************************************)
JournalEnd(d) ==
  CHOOSE n \in FirstUnpruned(d) .. MaxNumber :
    /\ n \notin DOMAIN d.journal
    /\ FirstUnpruned(d) .. n - 1 \subseteq DOMAIN d.journal

\* Mutant: a key inserted by any record, even an earlier one, leaves its row.
RestoredRowsAnyInsertion(d) ==
  LET last == JournalEnd(d) - 1
  IN  [n \in FirstUnpruned(d) .. last |->
         [hash    |-> d.journal[n].hash,
          deleted |-> {k \in d.journal[n].deleted :
                         \A m \in FirstUnpruned(d) .. last : k \notin d.journal[m].inserted}]]
RestoredRows(d) ==
  LET last == JournalEnd(d) - 1
  IN  [n \in FirstUnpruned(d) .. last |->
         [hash    |-> d.journal[n].hash,
          deleted |-> {k \in d.journal[n].deleted :
                         \A m \in n + 1 .. last : k \notin d.journal[m].inserted}]]

RestoredIndex(rows) ==
  [k \in Key |-> IF CountInsertions /\ \E n \in DOMAIN rows : k \in rows[n].deleted
                 THEN CHOOSE n \in DOMAIN rows : k \in rows[n].deleted
                 ELSE None]

Restart ==
  /\ phase' = "open"
  /\ deathRows' = RestoredRows(disk)
  /\ deathIndex' = RestoredIndex(RestoredRows(disk))
  /\ pendingNumber' = FirstUnpruned(disk)
  /\ windowEnd' = JournalEnd(disk)
  /\ noted' = 0
  /\ prunings' = 0
  /\ tx' = disk
  /\ UNCHANGED disk

-----------------------------------------------------------------------------
Init ==
  /\ deathRows = [n \in {} |-> None]
  /\ deathIndex = [k \in Key |-> None]
  /\ pendingNumber = 0
  /\ windowEnd = 0
  /\ noted = 0
  /\ prunings = 0
  /\ disk = EmptyDisk
  /\ tx = EmptyDisk
  /\ phase = "open"

Next ==
  \/ \E hash \in BlockHash, nodes \in SUBSET Key, upTo \in 0 .. MaxNumber :
       CanonicalizeBlock(hash, nodes, upTo)
  \/ DbCommit
  \/ ApplyPending
  \/ RevertPending
  \/ Restart

Spec == Init /\ [][Next]_vars

-----------------------------------------------------------------------------
(***************************************************************************)
(* Properties                                                              *)
(***************************************************************************)
Row == [hash : BlockHash, deleted : SUBSET Key]
Record == [hash : BlockHash, inserted : SUBSET Key, deleted : SUBSET Key]

DiskOK(d, end) ==
  /\ d.data \in [Key -> Nat]
  /\ d.lastPruned \in Nat \cup {None}
  /\ FirstUnpruned(d) <= end
  /\ d.journal \in [FirstUnpruned(d) .. end - 1 -> Record]
  /\ d.trie \in [0 .. end - 1 -> SUBSET Key]

\* The shape of the window: the rows and the journal records form contiguous
\* ranges of block numbers, the window in memory covers exactly what the open
\* transaction will leave in the journal plus the rows pruned but not yet
\* applied, and the database trails it by the pending canonicalizations and
\* prunings.  Without it apply_pending and revert_pending would cut the deque
\* in the wrong place.
TypeOK ==
  /\ pendingNumber \in Nat
  /\ windowEnd \in 0 .. MaxNumber
  /\ noted \in 0 .. windowEnd
  /\ prunings \in Nat
  /\ deathRows \in [pendingNumber .. windowEnd - 1 -> Row]
  /\ deathIndex \in [Key -> Nat \cup {None}]
  /\ DiskOK(tx, windowEnd)
  /\ FirstUnpruned(tx) = pendingNumber + prunings
  /\ \/ /\ phase = "open"
        /\ DiskOK(disk, windowEnd - noted)
        /\ FirstUnpruned(disk) = pendingNumber
     \/ /\ phase = "committed"
        /\ disk = tx

\* The promise of the pruning window: every node of the state of the last
\* pruned block and of every canonical block after it is in the state column,
\* both in the database and in what the open transaction will leave there.
\* Executing a death row must not delete a node that was created again after
\* the row was written, whatever failed commits, reverts and restarts
\* happened in between (import and prune_one).
RetainedStatesStored ==
  \A d \in {disk, tx} : \A n \in DOMAIN d.trie :
    n + 1 >= FirstUnpruned(d) => \A k \in d.trie[n] : d.data[k] > 0

\* The index and the rows agree: a key the index places in a row is in that
\* row, so the lookup death_rows[block - pending_number] of import is in
\* bounds, and every key waiting in a row is indexed there, so that a
\* re-insertion finds it.  Both have to survive apply_pending, which moves
\* the front, and revert_pending, which moves the back.
IndexMatchesRows ==
  CountInsertions =>
    \A k \in Key :
      /\ deathIndex[k] # None =>
           deathIndex[k] \in DOMAIN deathRows /\ k \in deathRows[deathIndex[k]].deleted
      /\ \A n \in DOMAIN deathRows : k \in deathRows[n].deleted => deathIndex[k] = n

\* A restart never makes the window forget: whenever no transaction is open,
\* the window that RefWindow::new would rebuild from the journal has the rows
\* of the one in memory, and each rebuilt row has at least its keys (more
\* only where revert_pending did not put back keys taken off a row).
JournalRestoresWindow ==
  noted = 0 /\ prunings = 0 /\ phase = "open" =>
    LET restored == RestoredRows(disk)
    IN  /\ DOMAIN restored = DOMAIN deathRows
        /\ \A n \in DOMAIN restored :
             /\ restored[n].hash = deathRows[n].hash
             /\ deathRows[n].deleted \subseteq restored[n].deleted

\* Nothing is leaked: a node that is still in the database belongs to a
\* retained state or waits in a death row.
NoLeak ==
  phase = "open" =>
    \A k \in Key : tx.data[k] > 0 =>
      \/ \E n \in DOMAIN tx.trie : n + 1 >= windowEnd /\ k \in tx.trie[n]
      \/ \E n \in DOMAIN deathRows :
           n >= pendingNumber + prunings /\ k \in deathRows[n].deleted

=============================================================================
