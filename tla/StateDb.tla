------------------------------ MODULE StateDb ------------------------------
(***************************************************************************)
(* The state database (client/state-db/src/lib.rs, StateDbSync) over its   *)
(* two parts, and the transactions the client database runs on it          *)
(* (client/db/src/lib.rs, Backend).                                        *)
(*                                                                         *)
(* Every call holds the lock of StateDb, so each one is a step.  The block *)
(* import opens a transaction, calls insert_block and canonicalize_block,  *)
(* commits and calls apply_pending, or calls revert_pending if anything    *)
(* failed.  Readers pin and unpin blocks between any two of these calls,   *)
(* and the process may stop between any two of them.                       *)
(***************************************************************************)
EXTENDS Integers, Sequences, FiniteSets

CONSTANTS
  Key, Block, Number, Parent, StateOf, MaxBlocksPerLevel, None,
  CountInsertions,  \* the back end does not count references
  MaxNumber,        \* bound on canonicalized blocks, at least the tree's height
  MaxBlocks,        \* Constraints.max_blocks of "Constrained"
  MaxPins           \* bound on the references readers hold at a time

VARIABLES
  \* RefWindow
  deathRows, deathIndex, pendingNumber, windowEnd, noted, prunings, disk, tx,
  \* NonCanonicalOverlay
  lastCanonicalized, levels, parents, pendingCanonicalizations, pendingInsertions,
  values, overlayPins, pinnedInsertions, overlayDisk, overlayTx, mishaps,
  \* StateDbSync
  mode,    \* the PruningMode the database was created with
  pinned,  \* pinned: references readers hold to a block, 0 = absent
  phase

Window == INSTANCE RefWindow WITH BlockHash <- Block
Overlay == INSTANCE NonCanonicalOverlay

windowVars == <<deathRows, deathIndex, pendingNumber, windowEnd, noted, prunings, disk, tx>>
overlayVars == <<lastCanonicalized, levels, parents, pendingCanonicalizations,
                 pendingInsertions, values, overlayPins, pinnedInsertions,
                 overlayDisk, overlayTx, mishaps>>
vars == <<windowVars, overlayVars, mode, pinned, phase>>

-----------------------------------------------------------------------------
(***************************************************************************)
(* Queries                                                                 *)
(***************************************************************************)
\* RefWindow::have_block; there is a window only in constrained mode.
InWindow(b) ==
  \E n \in pendingNumber + prunings .. windowEnd - 1 : deathRows[n].hash = b

HaveBlock(b) == Overlay!HaveBlock(b) \/ InWindow(b)

IsPruned(b) ==
  IF Overlay!BestCanonical = None \/ Number[b] > Overlay!BestCanonical
  THEN ~Overlay!HaveBlock(b)
  ELSE mode = "Constrained" /\ (Number[b] < pendingNumber + prunings \/ ~InWindow(b))

\* StateDbSync::get: the overlay first, then the database.
Readable(b) == \A k \in StateOf[b] : values[k] > 0 \/ disk.data[k] > 0

(***************************************************************************)
(* prune: rows are pruned from the front as long as the window is larger   *)
(* than max_blocks and the next block is not pinned.  PruneUpTo is the     *)
(* first number left in a window that ends with the new block b.           *)
(***************************************************************************)
\* Mutant: pins are not looked at.
PruneUpToIgnoringPins(b) ==
  IF (windowEnd + 1) - (pendingNumber + prunings) <= MaxBlocks
  THEN pendingNumber + prunings
  ELSE (windowEnd + 1) - MaxBlocks
PruneUpTo(b) ==
  LET first   == pendingNumber + prunings
      hash(n) == IF n = windowEnd THEN b ELSE deathRows[n].hash
      stop(n) == (windowEnd + 1) - n <= MaxBlocks \/ pinned[hash(n)] > 0
  IN  IF \E n \in first .. windowEnd : stop(n)
      THEN CHOOSE n \in first .. windowEnd : stop(n) /\ \A m \in first .. n - 1 : ~stop(m)
      ELSE windowEnd + 1

\* Backend::have_state_at
HaveStateAt(b) == IF mode = "Constrained" THEN ~IsPruned(b) ELSE Readable(b)

-----------------------------------------------------------------------------
(***************************************************************************)
(* Calls of the block import.  Backend::try_commit_operation canonicalizes *)
(* finalized blocks first, in the order of their numbers, then inserts at  *)
(* most one block and may canonicalize once more.  The state of the new    *)
(* block's parent is available, the blocks finalized in the operation are  *)
(* ancestors of it, and genesis is finalized in the operation that inserts *)
(* it.  The parent may be on a fork that was discarded before, as long as  *)
(* a reader has it pinned.                                                 *)
(***************************************************************************)
LastCanonical ==
  IF pendingCanonicalizations # <<>>
  THEN pendingCanonicalizations[Len(pendingCanonicalizations)]
  ELSE IF lastCanonicalized = None THEN None ELSE lastCanonicalized.hash

DescendsFrom(b, h) == Parent[b] = h \/ h \in Overlay!Ancestors[b]

InsertBlock(b) ==
  /\ pendingInsertions = <<>>
  /\ ~HaveBlock(b)
  /\ Parent[b] \in Block => HaveStateAt(Parent[b])
  /\ pendingCanonicalizations # <<>> => DescendsFrom(b, LastCanonical)
  /\ Overlay!Insert(b)
  /\ UNCHANGED <<windowVars, pinned>>

\* ArchiveCanonical writes what the block inserted and deletes nothing.
ArchiveData(b) == Window!Put(tx.data, Overlay!Inserted(b))

CanonicalizeBlock(b) ==
  /\ LastCanonical \in {None, Parent[b]}
  /\ Overlay!Canonicalize(b)
  /\ IF mode = "Constrained"
     THEN Window!CanonicalizeBlock(b, StateOf[b], PruneUpTo(b))
     ELSE /\ tx' = [tx EXCEPT !.data = ArchiveData(b)]
          /\ UNCHANGED <<deathRows, deathIndex, pendingNumber, windowEnd, noted, prunings, disk>>
  /\ UNCHANGED pinned

DbCommit ==
  /\ LastCanonical = None => levels = <<>>
  /\ Window!DbCommit
  /\ Overlay!OverlayCommit
  /\ UNCHANGED pinned

\* Mutant: the window is not told.
ApplyPendingOverlayOnly ==
  /\ Overlay!ApplyOverlay
  /\ UNCHANGED <<windowVars, pinned>>
ApplyPending ==
  /\ Overlay!ApplyOverlay
  /\ Window!ApplyPending
  /\ UNCHANGED pinned

RevertPending ==
  /\ Window!RevertPending
  /\ Overlay!RevertOverlay
  /\ UNCHANGED pinned

(***************************************************************************)
(* revert_one (Backend::revert) and remove (Backend::remove_leaf_block)    *)
(***************************************************************************)
RevertOne == Overlay!RevertOne /\ UNCHANGED <<windowVars, pinned>>

Remove(b) == Overlay!RemoveLeaf(b) /\ UNCHANGED <<windowVars, pinned>>

(***************************************************************************)
(* Calls of readers, at any time: Backend::state_at pins the block,        *)
(* dropping the state unpins it.  state_at asks is_pruned first, in a call *)
(* of its own: the block was available at some earlier time, and whether   *)
(* it still is only pin's own check tells.                                 *)
(***************************************************************************)
References == LET sum[S \in SUBSET Block] ==
                    IF S = {} THEN 0
                    ELSE LET b == CHOOSE b \in S : TRUE IN pinned[b] + sum[S \ {b}]
              IN  sum[Block]

Pin(b) ==
  /\ References < MaxPins
  /\ HaveBlock(b)
  /\ pinned' = [pinned EXCEPT ![b] = @ + 1]
  /\ IF pinned[b] = 0 THEN Overlay!PinOverlay(b) ELSE UNCHANGED <<overlayVars, phase>>
  /\ UNCHANGED windowVars

Unpin(b) ==
  /\ pinned[b] > 0
  /\ pinned' = [pinned EXCEPT ![b] = @ - 1]
  /\ IF pinned[b] = 1 THEN Overlay!UnpinOverlay(b) ELSE UNCHANGED <<overlayVars, phase>>
  /\ UNCHANGED windowVars

Restart ==
  /\ Window!Restart
  /\ Overlay!RestartOverlay
  /\ pinned' = [b \in Block |-> 0]

Init ==
  /\ Window!Init
  /\ Overlay!InitOverlay
  /\ mode \in {"ArchiveCanonical", "Constrained"}
  /\ pinned = [b \in Block |-> 0]

ImportCall ==
  \/ \E b \in Block : InsertBlock(b)
  \/ \E b \in Block : CanonicalizeBlock(b)
  \/ DbCommit
  \/ ApplyPending
  \/ RevertPending
MaintenanceCall ==
  \/ RevertOne
  \/ \E b \in Block : Remove(b)
ReaderCall ==
  \/ \E b \in Block : Pin(b)
  \/ \E b \in Block : Unpin(b)

\* The mode is stored in the database (META) and never changes.
Next ==
  /\ (Overlay!Running /\ (ImportCall \/ MaintenanceCall \/ ReaderCall)) \/ Restart
  /\ UNCHANGED mode

Spec == Init /\ [][Next]_vars

-----------------------------------------------------------------------------
(***************************************************************************)
(* Properties                                                              *)
(***************************************************************************)
\* See NonCanonicalOverlay.
ValuesExact == Overlay!ValuesExact
\* See NonCanonicalOverlay.
LevelsWellFormed == Overlay!LevelsWellFormed
\* See NonCanonicalOverlay.
JournalRestoresOverlay == Overlay!JournalRestoresOverlay
\* See NonCanonicalOverlay.
InsertionFound == Overlay!InsertionFound
\* See NonCanonicalOverlay.
RevertsLastLevel == Overlay!RevertsLastLevel

\* With a pruning window the state database drives it only in the ways the
\* specification RefWindow allows, so that what is proved of the window holds
\* here: every step is a step of RefWindow or leaves the window alone.  (The
\* actions of RefWindow that have no parameter come first to save TLC work.)
WindowSteps ==
  [][mode = "Constrained" =>
       \/ UNCHANGED Window!vars
       \/ Window!DbCommit \/ Window!ApplyPending \/ Window!RevertPending \/ Window!Restart
       \/ Window!Next]_vars

\* b descends from base through blocks that are all in the overlay.
ExtendsBase(b, base) ==
  /\ base \in Overlay!Ancestors[b]
  /\ \A a \in {b} \cup Overlay!Ancestors[b] :
       base \in Overlay!Ancestors[a] => a \in Overlay!OverlayBlocks(levels)

Canonical(b) == LastCanonical # None /\ (b = LastCanonical \/ b \in Overlay!Ancestors[LastCanonical])

\* What is offered can be read.  At every point of a transaction, and after a
\* crash, StateDbSync::get finds every node of the state of each block in the
\* window and of each block of the overlay that extends the last canonical
\* block, whether it looks at the overlay before or after apply_pending and at
\* the database before or after the commit; until the commit the forks that
\* the open transaction discards can be read as well.  A pinned block of the
\* canonical chain can be read until it is unpinned, however many blocks are
\* canonicalized meanwhile and whether it was pinned before or after it became
\* canonical.  ArchiveCanonical keeps every canonical state ("All the canonical
\* nodes are kept in the DB").
StatesReadable ==
  \A b \in Block :
    \/ InWindow(b)
    \/ LastCanonical # None /\ ExtendsBase(b, LastCanonical)
    \/ phase = "open" /\ lastCanonicalized # None /\ ExtendsBase(b, lastCanonicalized.hash)
    \/ Canonical(b) /\ (pinned[b] > 0 \/ mode = "ArchiveCanonical")
    => Readable(b)

\* The promise of StateDb::pin for every block that was committed when it was
\* pinned, forks included: the pin prevents it from being pruned.
PinnedReadable ==
  \A b \in Block : overlayPins[b] > 0 => Readable(b)

\* The overlay and the window, which keep separate records on disk, agree on
\* the last canonical block: the number LAST_CANONICAL names is the last one
\* in the window's journal and the record there is for the same block, both in
\* the database and in the open transaction.
CanonAgreement ==
  mode = "Constrained" => \A p \in {<<disk, overlayDisk>>, <<tx, overlayTx>>} :
    LET d    == p[1]
        last == p[2].lastCanonical
    IN  IF last = None THEN DOMAIN d.trie = {}
        ELSE /\ DOMAIN d.trie = 0 .. last.number
             /\ d.trie[last.number] = StateOf[last.hash]
             /\ last.number \in DOMAIN d.journal => d.journal[last.number].hash = last.hash

\* The comment on revert_one: it reverts the blocks with the best number, so as
\* long as there are blocks it removes some.
RevertOneReverts ==
  [][RevertOne /\ Overlay!OverlayBlocks(levels) # {} =>
       Overlay!OverlayBlocks(levels') # Overlay!OverlayBlocks(levels)]_vars
=============================================================================
