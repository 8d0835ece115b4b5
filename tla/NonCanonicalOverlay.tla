------------------------ MODULE NonCanonicalOverlay ------------------------
(***************************************************************************)
(* The overlay of blocks that are not canonical yet                        *)
(* (client/state-db/src/noncanonical.rs, NonCanonicalOverlay).             *)
(*                                                                         *)
(* The changes of every imported block wait in memory, one level per block *)
(* number above the last canonical block, and in a journal on disk.  When  *)
(* a block of the first level becomes canonical its changes go to the      *)
(* database and its siblings are discarded with all their descendants,     *)
(* except for what readers have pinned.  As in RefWindow a change is       *)
(* provisional until apply_pending.                                        *)
(*                                                                         *)
(* A block is its hash: number, parent and changes are functions of it.    *)
(* The map `parents` is therefore the set of hashes it has an entry for.   *)
(***************************************************************************)
EXTENDS Integers, FiniteSets, SequencesExt

CONSTANTS
  Key,                \* trie node keys
  Block,              \* hashes of the blocks that may be imported
  Number,             \* [Block -> Nat]
  Parent,             \* parent hash of a block, outside Block for the first one
  StateOf,            \* [Block -> SUBSET Key], the nodes of the state of a block
  MaxBlocksPerLevel,  \* MAX_BLOCKS_PER_LEVEL
  None

VARIABLES
  lastCanonicalized,        \* last_canonicalized: [hash, number] or None
  levels,                   \* levels: sequence of sequences of [hash, index]
  parents,                  \* parents: the hashes with an entry
  pendingCanonicalizations, \* pending_canonicalizations
  pendingInsertions,        \* pending_insertions
  values,                   \* values: reference count of each node, 0 = absent
  overlayPins,              \* pinned: reference count of each block, 0 = absent
  pinnedInsertions,         \* pinned_insertions: its counter, 0 = absent
  overlayDisk,              \* LAST_CANONICAL and the journal in the database
  overlayTx,                \* the same in the open transaction
  mishaps,                  \* history: what went wrong so far, see below
  phase                     \* "open", or "committed" before apply_pending

overlayMemory == <<lastCanonicalized, levels, parents, pendingCanonicalizations,
                   pendingInsertions, values, overlayPins, pinnedInsertions>>
overlayVars == <<overlayMemory, overlayDisk, overlayTx, mishaps>>

ParentState(b) == IF Parent[b] \in Block THEN StateOf[Parent[b]] ELSE {}
Inserted(b) == StateOf[b] \ ParentState(b)
Deleted(b) == ParentState(b) \ StateOf[b]

\* The ancestors of b among the blocks of the tree.
Ancestors[b \in Block] ==
  IF Parent[b] \in Block THEN {Parent[b]} \cup Ancestors[Parent[b]] ELSE {}

(***************************************************************************)
(* The mishaps.  A history variable the code does not have; each is set by *)
(* the one kind of step named here, and only the properties that the step  *)
(* breaks make an exception for it.                                        *)
(*   "stray"    a block was put on a level without a path to the last      *)
(*              canonical block                                            *)
(*   "stale"    a commit of revert_one or remove failed, so the journal    *)
(*              holds records of blocks that memory has given up           *)
(*   "dropped"  revert_insertions dropped a level that had blocks          *)
(*   "panic"    an `expect` of revert_insertions failed; the process ends  *)
(***************************************************************************)
Running == "panic" \notin mishaps

-----------------------------------------------------------------------------
(***************************************************************************)
(* Levels                                                                  *)
(***************************************************************************)
HashesIn(level) == {level[i].hash : i \in DOMAIN level}
IndicesIn(level) == {level[i].index : i \in DOMAIN level}
OverlayBlocks(lvs) == UNION {HashesIn(lvs[i]) : i \in DOMAIN lvs}

\* The journal records of the blocks on the levels.
Records(lvs) ==
  UNION {{[number |-> Number[o.hash], index |-> o.index, hash |-> o.hash]
            : o \in Range(lvs[i])} : i \in DOMAIN lvs}

\* Mutant: the next index is the number of blocks.
AvailableIndexByLength(level) == Len(level)
\* OverlayLevel::available_index: the lowest free bit.
AvailableIndex(level) ==
  CHOOSE i \in 0 .. Len(level) :
    i \notin IndicesIn(level) /\ \A j \in 0 .. i - 1 : j \in IndicesIn(level)

Without(lvs, gone) ==
  [i \in DOMAIN lvs |-> SelectSeq(lvs[i], LAMBDA o : o.hash \notin gone)]

\* The descendants of h that discard_descendants and discard_journals reach,
\* walking from level to level: no block in between may be missing.
Descendants(lvs, h) ==
  {b \in OverlayBlocks(lvs) :
     /\ h \in Ancestors[b]
     /\ \A a \in Ancestors[b] : h \in Ancestors[a] => a \in OverlayBlocks(lvs)}

FrontBlockNumber == IF lastCanonicalized = None THEN 0 ELSE lastCanonicalized.number + 1

\* last_canonicalized_block_number; without a canonical block yet the code
\* reports the number of pending ones.
BestCanonical ==
  IF lastCanonicalized # None
  THEN lastCanonicalized.number + Len(pendingCanonicalizations)
  ELSE IF pendingCanonicalizations # <<>> THEN Len(pendingCanonicalizations) ELSE None

HaveBlock(h) ==
  /\ h \in parents \/ \E i \in DOMAIN pendingInsertions : pendingInsertions[i] = h
  /\ \A i \in DOMAIN pendingCanonicalizations : pendingCanonicalizations[i] # h

(***************************************************************************)
(* insert_values and discard_values for the nodes of a set of blocks.      *)
(***************************************************************************)
Users(k, blocks) == Cardinality({b \in blocks : k \in Inserted(b)})
InsertValues(vals, blocks) == [k \in Key |-> vals[k] + Users(k, blocks)]
DiscardValues(vals, blocks) ==
  [k \in Key |-> IF vals[k] < Users(k, blocks) THEN 0 ELSE vals[k] - Users(k, blocks)]

-----------------------------------------------------------------------------
(***************************************************************************)
(* insert.  On an empty overlay that has never seen a canonical block, the *)
(* parent of a block above genesis is taken to be canonical; this is       *)
(* remembered at once, not when the insertion is applied.                  *)
(***************************************************************************)
AssumeParent(b) == levels = <<>> /\ lastCanonicalized = None /\ Number[b] > 0

ValidInsert(b) ==
  LET front == FrontBlockNumber
  IN  lastCanonicalized # None =>
        /\ Number[b] >= front /\ Number[b] <= front + Len(levels)
        /\ IF Number[b] = front
           THEN lastCanonicalized = [hash |-> Parent[b], number |-> Number[b] - 1]
           ELSE Parent[b] \in parents

Insert(b) ==
  LET last  == IF AssumeParent(b)
               THEN [hash |-> Parent[b], number |-> Number[b] - 1]
               ELSE lastCanonicalized
      front == IF last = None THEN 0 ELSE last.number + 1
      i     == (Number[b] - front) + 1
      level == IF i > Len(levels) THEN <<>> ELSE levels[i]
      index == AvailableIndex(level)
      entry == Append(level, [hash |-> b, index |-> index])
  IN  /\ phase = "open"
      /\ ValidInsert(b)
      /\ Len(level) < MaxBlocksPerLevel
      /\ lastCanonicalized' = last
      /\ levels' = IF i > Len(levels) THEN Append(levels, entry)
                                      ELSE [levels EXCEPT ![i] = entry]
      /\ parents' = parents \cup {b}
      /\ values' = InsertValues(values, {b})
      /\ pendingInsertions' = Append(pendingInsertions, b)
      /\ overlayTx' = [ lastCanonical |-> IF AssumeParent(b) THEN last
                                          ELSE overlayTx.lastCanonical,
                        journal |-> {r \in overlayTx.journal :
                                       ~(r.number = Number[b] /\ r.index = index)}
                                    \cup {[number |-> Number[b], index |-> index, hash |-> b]} ]
      /\ mishaps' = IF lastCanonicalized = None \/ Parent[b] = lastCanonicalized.hash
                       \/ Parent[b] \in OverlayBlocks(levels)
                    THEN mishaps ELSE mishaps \cup {"stray"}
      /\ UNCHANGED <<pendingCanonicalizations, overlayPins, pinnedInsertions,
                     overlayDisk, phase>>

(***************************************************************************)
(* canonicalize: the block must be on the first level that has no pending  *)
(* canonicalization.  The transaction drops the journal records of that    *)
(* level and of the descendants of the other blocks on it.                 *)
(***************************************************************************)
FirstLevel == Len(pendingCanonicalizations) + 1

\* Mutant: blocks canonicalized before in the same transaction do not count.
CanonicalizedNumberFront == FrontBlockNumber
CanonicalizedNumber == FrontBlockNumber + Len(pendingCanonicalizations)

\* Mutant: the journal records of the forks above the level stay.
DiscardedByLevelOnly(b) == HashesIn(levels[FirstLevel])
DiscardedBy(b) ==
  LET level == levels[FirstLevel]
      above == SubSeq(levels, FirstLevel + 1, Len(levels))
  IN  HashesIn(level) \cup UNION {Descendants(above, s) : s \in HashesIn(level) \ {b}}

Canonicalize(b) ==
  /\ phase = "open"
  /\ FirstLevel <= Len(levels)
  /\ b \in HashesIn(levels[FirstLevel])
  /\ pendingCanonicalizations' = Append(pendingCanonicalizations, b)
  /\ overlayTx' = [ lastCanonical |-> [hash |-> b, number |-> CanonicalizedNumber],
                    journal |-> {r \in overlayTx.journal : \A i \in DOMAIN levels :
                                   \A o \in Range(levels[i]) :
                                     o.hash \in DiscardedBy(b) =>
                                       ~(r.number = Number[o.hash] /\ r.index = o.index)} ]
  /\ UNCHANGED <<lastCanonicalized, levels, parents, pendingInsertions, values,
                 overlayPins, pinnedInsertions, overlayDisk, mishaps, phase>>

OverlayCommit ==
  /\ phase = "open"
  /\ phase' = "committed"
  /\ overlayDisk' = overlayTx
  /\ UNCHANGED <<overlayMemory, overlayTx, mishaps>>

(***************************************************************************)
(* apply_pending.  Discarding one level: its blocks and the descendants of *)
(* all but the canonical one leave the overlay.  Those with a pinned block *)
(* in their subtree keep their nodes and their parent entry, with a count  *)
(* of those blocks; the canonical one counts only itself.                  *)
(***************************************************************************)
PinnedBelow(lvs, h, canonical) ==
  LET subtree == IF h = canonical THEN {h} ELSE {h} \cup Descendants(lvs, h)
  IN  Cardinality({b \in subtree : overlayPins[b] > 0})

ApplyCanonicalization(ov, h) ==
  LET level == HashesIn(Head(ov.levels))
      rest  == Tail(ov.levels)
      gone  == level \cup UNION {Descendants(rest, s) : s \in level \ {h}}
      freed == {b \in gone : PinnedBelow(rest, b, h) = 0}
  IN  [ levels  |-> Without(rest, gone),
        parents |-> ov.parents \ freed,
        values  |-> DiscardValues(ov.values, freed),
        pinnedInsertions |-> [b \in Block |-> IF b \in gone \ freed
                                              THEN PinnedBelow(rest, b, h)
                                              ELSE ov.pinnedInsertions[b]] ]

ApplyOverlay ==
  LET count == Len(pendingCanonicalizations)
      ov    == FoldLeft(ApplyCanonicalization,
                        [levels |-> levels, parents |-> parents, values |-> values,
                         pinnedInsertions |-> pinnedInsertions],
                        pendingCanonicalizations)
  IN  /\ phase = "committed"
      /\ phase' = "open"
      /\ levels' = ov.levels
      /\ parents' = ov.parents
      /\ values' = ov.values
      /\ pinnedInsertions' = ov.pinnedInsertions
      /\ lastCanonicalized' =
           IF count = 0 THEN lastCanonicalized
           ELSE [ hash   |-> Last(pendingCanonicalizations),
                  number |-> IF lastCanonicalized = None THEN count - 1
                             ELSE lastCanonicalized.number + count ]
      /\ pendingCanonicalizations' = <<>>
      /\ pendingInsertions' = <<>>
      /\ UNCHANGED <<overlayPins, overlayDisk, overlayTx, mishaps>>

(***************************************************************************)
(* revert_pending: pending canonicalizations are forgotten, pending        *)
(* insertions are taken out again, last one first.  The level of a block   *)
(* is the first one whose last block it is; the search expects the levels  *)
(* before it to have a block.  A level that becomes empty is taken to be   *)
(* the last one and it is the last one that goes, which a debug assertion  *)
(* backs.                                                                  *)
(***************************************************************************)
LevelOf(lvs, h) == CHOOSE i \in DOMAIN lvs : lvs[i] # <<>> /\ Last(lvs[i]).hash = h

\* Mutant: the nodes of the reverted block stay.
RevertInsertionKeepsValues(ov, h) ==
  LET i   == LevelOf(ov.levels, h)
      lvs == [ov.levels EXCEPT ![i] = Front(@)]
  IN  [ levels  |-> IF lvs[i] = <<>> THEN Front(lvs) ELSE lvs,
        parents |-> ov.parents \ {h},
        values  |-> ov.values,
        mishaps |-> ov.mishaps ]
RevertInsertion(ov, h) ==
  LET i   == LevelOf(ov.levels, h)
      lvs == [ov.levels EXCEPT ![i] = Front(@)]
  IN  [ levels  |-> IF lvs[i] = <<>> THEN Front(lvs) ELSE lvs,
        parents |-> ov.parents \ {h},
        values  |-> DiscardValues(ov.values, {h}),
        mishaps |-> ov.mishaps
                    \cup (IF lvs[i] = <<>> /\ Last(lvs) # <<>> THEN {"dropped"} ELSE {})
                    \cup (IF \E j \in 1 .. i - 1 : lvs[j] = <<>> THEN {"panic"} ELSE {}) ]

Reverted == FoldLeft(RevertInsertion,
                     [levels |-> levels, parents |-> parents, values |-> values,
                      mishaps |-> mishaps],
                     Reverse(pendingInsertions))

RevertOverlay ==
  /\ phase = "open"
  /\ pendingCanonicalizations' = <<>>
  /\ IF "panic" \in Reverted.mishaps
     THEN /\ mishaps' = mishaps \cup {"panic"}
          /\ UNCHANGED <<levels, parents, values, pendingInsertions>>
     ELSE /\ mishaps' = Reverted.mishaps
          /\ levels' = Reverted.levels
          /\ parents' = Reverted.parents
          /\ values' = Reverted.values
          /\ pendingInsertions' = <<>>
  /\ overlayTx' = overlayDisk
  /\ UNCHANGED <<lastCanonicalized, overlayPins, pinnedInsertions, overlayDisk, phase>>

(***************************************************************************)
(* revert_one and remove.  Their callers commit the journal deletions in a *)
(* transaction of their own, outside any other; when that commit fails     *)
(* they return the error, and memory stays as the call left it.            *)
(***************************************************************************)
NothingPending == pendingInsertions = <<>> /\ pendingCanonicalizations = <<>>

DropJournal(d, entries) ==
  [d EXCEPT !.journal = {r \in @ : \A o \in entries :
                           ~(r.number = Number[o.hash] /\ r.index = o.index)}]

CommitDeletions(entries) ==
  /\ \/ overlayDisk' = DropJournal(overlayDisk, entries) /\ UNCHANGED mishaps
     \/ mishaps' = mishaps \cup {"stale"} /\ UNCHANGED overlayDisk
  /\ overlayTx' = overlayDisk'

RevertOne ==
  /\ phase = "open" /\ NothingPending
  /\ levels # <<>>
  /\ levels' = Front(levels)
  /\ parents' = parents \ HashesIn(Last(levels))
  /\ values' = DiscardValues(values, HashesIn(Last(levels)))
  /\ CommitDeletions(Range(Last(levels)))
  /\ UNCHANGED <<lastCanonicalized, pendingCanonicalizations, pendingInsertions,
                 overlayPins, pinnedInsertions, phase>>

RemoveLeaf(b) ==
  \E i \in DOMAIN levels :
    LET lvs == Without(levels, {b})
    IN  /\ phase = "open" /\ NothingPending
        /\ b \in HashesIn(levels[i])
        /\ i # Len(levels) => \A c \in parents : Parent[c] # b
        /\ levels' = IF Last(lvs) = <<>> THEN Front(lvs) ELSE lvs
        /\ parents' = parents \ {b}
        /\ values' = DiscardValues(values, {b})
        /\ CommitDeletions({o \in Range(levels[i]) : o.hash = b})
        /\ UNCHANGED <<lastCanonicalized, pendingCanonicalizations, pendingInsertions,
                       overlayPins, pinnedInsertions, phase>>

(***************************************************************************)
(* pin and unpin.  unpin gives up one reference of the block and, once it  *)
(* has none left, one count of every retained block on the path from it to *)
(* the first ancestor that is not retained.                                *)
(***************************************************************************)
PinOverlay(b) ==
  /\ overlayPins' = IF \E i \in DOMAIN pendingInsertions : pendingInsertions[i] = b
                    THEN overlayPins
                    ELSE [overlayPins EXCEPT ![b] = @ + 1]
  /\ UNCHANGED <<lastCanonicalized, levels, parents, pendingCanonicalizations,
                 pendingInsertions, values, pinnedInsertions, overlayDisk, overlayTx,
                 mishaps, phase>>

RetainedPath(b) ==
  {a \in {b} \cup Ancestors[b] :
     \A c \in ({b} \cup Ancestors[b]) :
       /\ c = a \/ a \in Ancestors[c] => pinnedInsertions[c] > 0
       /\ a \in Ancestors[c] => c \in parents}

UnpinOverlay(b) ==
  LET path  == IF overlayPins[b] = 1 THEN RetainedPath(b) ELSE {}
      freed == {a \in path : pinnedInsertions[a] = 1}
  IN  /\ overlayPins' = [overlayPins EXCEPT ![b] = IF @ > 0 THEN @ - 1 ELSE 0]
      /\ pinnedInsertions' = [a \in Block |-> IF a \in path THEN pinnedInsertions[a] - 1
                                              ELSE pinnedInsertions[a]]
      /\ parents' = parents \ freed
      /\ values' = DiscardValues(values, freed)
      /\ UNCHANGED <<lastCanonicalized, levels, pendingCanonicalizations,
                     pendingInsertions, overlayDisk, overlayTx, mishaps, phase>>

(***************************************************************************)
(* NonCanonicalOverlay::new: the journal is read level by level from the   *)
(* one above LAST_CANONICAL to the first empty one, index by index.  What  *)
(* a restart finds is the end of a mishap unless it left its trace in the  *)
(* journal.  A failed commit may leave two records of one block in it; the *)
(* block is then loaded twice, a state that is not followed (RecordedOnce).*)
(***************************************************************************)
RecordedOnce == \A r, s \in overlayDisk.journal : r.hash = s.hash => r = s

RestoredLevels(d) ==
  LET first == d.lastCanonical.number + 1
      at(n) == {r \in d.journal : r.number = n}
      end   == CHOOSE n \in first .. first + Cardinality(d.journal) :
                 at(n) = {} /\ \A m \in first .. n - 1 : at(m) # {}
      level(n) == SetToSortSeq({[hash |-> r.hash, index |-> r.index] : r \in at(n)},
                               LAMBDA o, p : o.index < p.index)
  IN  IF d.lastCanonical = None THEN <<>>
      ELSE [i \in 1 .. end - first |-> level(first + i - 1)]

RestartOverlay ==
  /\ "stale" \in mishaps => RecordedOnce
  /\ phase' = "open"
  /\ lastCanonicalized' = overlayDisk.lastCanonical
  /\ levels' = RestoredLevels(overlayDisk)
  /\ parents' = OverlayBlocks(levels')
  /\ values' = InsertValues([k \in Key |-> 0], OverlayBlocks(levels'))
  /\ pendingCanonicalizations' = <<>>
  /\ pendingInsertions' = <<>>
  /\ overlayPins' = [b \in Block |-> 0]
  /\ pinnedInsertions' = [b \in Block |-> 0]
  /\ overlayTx' = overlayDisk
  /\ mishaps' = IF mishaps \subseteq {"panic"} THEN {}
                ELSE (IF overlayDisk.journal = Records(levels') THEN {} ELSE {"stale"})
                     \cup (IF \A b \in OverlayBlocks(levels') :
                              Parent[b] \in OverlayBlocks(levels') \cup {lastCanonicalized'.hash}
                           THEN {} ELSE {"stray"})
  /\ UNCHANGED overlayDisk

InitOverlay ==
  /\ lastCanonicalized = None
  /\ levels = <<>>
  /\ parents = {}
  /\ pendingCanonicalizations = <<>>
  /\ pendingInsertions = <<>>
  /\ values = [k \in Key |-> 0]
  /\ overlayPins = [b \in Block |-> 0]
  /\ pinnedInsertions = [b \in Block |-> 0]
  /\ overlayDisk = [lastCanonical |-> None, journal |-> {}]
  /\ overlayTx = overlayDisk
  /\ mishaps = {}

-----------------------------------------------------------------------------
(***************************************************************************)
(* Properties                                                              *)
(***************************************************************************)
\* The reference counts of the overlay's nodes are exact: every node counts
\* the blocks on the levels that inserted it plus the retained ones.  A count
\* that is too low frees a node in use (and trips the assertion in
\* discard_values and the expect in canonicalize), one too high leaks it.  The
\* exception is a level of blocks that revert_insertions dropped.
ValuesExact ==
  "dropped" \notin mishaps =>
    \A k \in Key :
      values[k] = Users(k, OverlayBlocks(levels))
                  + Users(k, {b \in Block : pinnedInsertions[b] > 0})

\* What the code expects wherever it says `expect`: every block on a level has
\* a parent entry and sits on the level of its number with a journal index of
\* its own, and pending canonicalizations lie on consecutive levels.  Unless a
\* block was put on a level without a path to the last canonical one,
\* reverting finds the pending insertions and takes them out and nothing else.
LevelsWellFormed ==
  /\ OverlayBlocks(levels) \subseteq parents
  /\ \A i \in DOMAIN levels :
       /\ Cardinality(IndicesIn(levels[i])) = Len(levels[i])
       /\ \A h \in HashesIn(levels[i]) : Number[h] = FrontBlockNumber + i - 1
  /\ Len(pendingCanonicalizations) <= Len(levels)
  /\ \A i \in DOMAIN pendingCanonicalizations :
       pendingCanonicalizations[i] \in HashesIn(levels[i])
  /\ "stray" \notin mishaps =>
       /\ Reverted.mishaps \subseteq {"stale"}
       /\ OverlayBlocks(Reverted.levels) = OverlayBlocks(levels) \ Range(pendingInsertions)

\* A restart finds the overlay that was in memory: whenever nothing is
\* pending, LAST_CANONICAL is the block the overlay builds on and the journal
\* holds the blocks of the levels under their indices.  Unless a commit of
\* revert_one or remove failed, or a level was dropped, it holds no other
\* record; if besides no block is without a path to the last canonical one,
\* NonCanonicalOverlay::new, which stops at the first number without a record,
\* finds all of them.
JournalRestoresOverlay ==
  NothingPending /\ phase = "open" =>
    /\ overlayDisk.lastCanonical = lastCanonicalized
    /\ Records(levels) \subseteq overlayDisk.journal
    /\ mishaps \cap {"stale", "dropped"} = {} => overlayDisk.journal = Records(levels)
    /\ mishaps = {} => OverlayBlocks(RestoredLevels(overlayDisk)) = OverlayBlocks(levels)

\* What the expects of revert_insertions say ("Hash is added in `insert` in
\* reverse order"): the search for a pending insertion meets no empty level
\* and finds it.
InsertionFound == Running

\* What the debug assertion of revert_insertions says: the level that a
\* reverted insertion leaves empty is the last one.
RevertsLastLevel ==
  \A n \in DOMAIN pendingInsertions :
    LET i == LevelOf(levels, pendingInsertions[n])
    IN  Len(levels[i]) = 1 => i = Len(levels)
=============================================================================
