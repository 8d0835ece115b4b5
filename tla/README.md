# TLA+ models and proofs for Substrate

Substrate is a framework for blockchain nodes: a client that stores, executes,
imports, finalizes and gossips blocks, and a runtime of pallets that the blocks
execute. This directory models the parts of the client that hold shared state across
failures, restarts and concurrent tasks, checks them with TLC on small instances, and
proves with TLAPS, for every instance, what matters most about the pruning window, the
overlay, the runtime API object, the GRANDPA authority sets and the notifications.
`PROJECT.json` lists all parts of the system, the lines each definition translates, the
hazards of the code and the property that covers each.

## Inventory

| Part | State | Operations | What makes it hard |
|---|---|---|---|
| Pruning window, `client/state-db/src/pruning.rs` | death rows, index, pending counters, journal | note_canonical, prune_one, apply, revert, replay | a node that dies may be revived before its row is pruned; failures between the calls |
| Non-canonical overlay, `noncanonical.rs` | levels of blocks, reference counts of values, pins, journal | insert, canonicalize, apply, revert, revert_one, remove, pin, unpin, replay | pins keep blocks that leave the levels; pending operations visible to readers |
| State database, `lib.rs`, driven by `client/db/src/lib.rs` | both of the above, pins | import, canonicalize, pin, unpin, crash | the database commits between a call and its apply |
| Overlay of a runtime call, `primitives/state-machine/src/overlayed_changes` | versions of values by transaction, dirty keys | read and write in three areas, nested transactions, enter and leave the runtime, drain | several maps with a transaction depth each that must stay in step |
| Runtime API object and state machine, `primitives/api`, `primitives/state-machine/src/lib.rs` | the overlay, cached storage root, recorder | call, execute_in_transaction, the four strategies, both runs | three layers open and close transactions on one stack, and calls fail in between |
| Peer set manager, `client/peerset` | membership, slots, reputations, reserved nodes, messages | seven requests, incoming, dropped, time | the network acts on messages it has not read yet |
| GRANDPA authority sets, `client/finality-grandpa` with `utils/fork-tree` | current and pending authority sets, stored set and voter state, voter, commands | block import, justification import, finalization, voter commands, votes, restart | two tasks share the set; import fails after it was changed; commands are asynchronous |
| Fork tree, `utils/fork-tree` | vectors of roots and children, best finalized number | import, five ways to finalize, prune, search | elements are swapped and opened in place while an index runs over them |
| Transaction pool, `client/transaction-pool` | ready and future queues, links by tags, bans, watchers, retracted and pruned transactions | submit, maintenance for a new best or final block, revalidation, block author | four tasks give way to each other at every validation |
| Notifications, `client/network/src/protocol/notifications` | state of a peer and of each of its connections, incoming requests, delays, handlers | messages of the Peerset, events of handlers and of libp2p, timers, API calls | commands and events of several connections cross each other and the Peerset's messages |
| Requests of justifications, `client/network/src/protocol/sync/extra_requests.rs` | tree, queued, active, failed and importing requests | schedule, match to peers, answer, import result, finality, reset | import queue, peers and finality answer on channels of their own |
| Block sync, import queue, client, BABE, gossip, allocator, caches | | | not modelled or only what the above needs of them, see *Plan* |
| Pallets, primitives, RPC, tooling | | | not modelled, see *Not modelled* |

How they interact: the import queue hands blocks to the GRANDPA import, which changes
the authority set and hands them to the client; the client runs the block through the
runtime API object, whose overlay yields the storage changes; the back end inserts
them into the state database, canonicalizes final blocks and prunes; readers pin
blocks meanwhile. The voter finalizes blocks in a task of its own. Blocks that
enact a change of authorities need a justification, which sync requests from peers and
hands to the import queue. The peer set manager decides to whom the network connects,
and the notifications behaviour opens and closes the substreams accordingly. New best
and final blocks prune the transaction pool, from which authors take transactions.

## Modules

| Module | Models |
|---|---|
| `RefWindow` | the pruning window over a key-value store that counts references or not |
| `RefWindowHistory` | the same with a history variable: whether an operation was reverted |
| `MCRefWindow` | its instance, with the journal replayed record by record |
| `RefWindowSafety`, `RefWindowProofs` | its theorems: shape and safety of a plain store; stores that count references, and leaks |
| `NonCanonicalOverlay` | the overlay of non-canonical blocks |
| `StateDb`, `MCStateDb` | `StateDbSync` and the transactions of the back end over `RefWindow` and `NonCanonicalOverlay`; a tree of two forks |
| `OverlayedMap` | the change set of one storage area, as operators |
| `NestedTransactions` | abstract: storage with nested transactions as a stack of full copies |
| `OverlayedChanges` | all areas of an overlay |
| `OverlayedNested` | that `OverlayedChanges` implements `NestedTransactions` |
| `OverlayedMapProofs`, `OverlayedProofs` | lemmas about one map; theorems about all of them |
| `MCOverlayedChanges`, `MCOverlayedIndex` | instances; the second only for index operations |
| `RuntimeApi`, `MCRuntimeApi` | API object, state machine and runtime over one stack of transactions |
| `RuntimeApiProofs` | its theorems |
| `PeersState` | peers, slots and reputations (`peersstate.rs`), as operators |
| `Peerset` | the manager and the network that uses it |
| `MCPeerset`, `MCPeersetScopes` | instances with reputations scaled down |
| `PeersetLink` | abstract: what the Peerset promises about one peer in one set |
| `NotifsHandler` | the handler of one connection, as operators |
| `Notifications`, `MCNotifications` | the behaviour, handlers, remote and API over `PeersetLink` |
| `NotificationsLemmas`, `NotificationsProofs` | lemmas about one operation of the behaviour; theorems |
| `ForkNodes` | the fork tree as the set of its nodes, as operators |
| `ForkTree` | the fork tree as nested vectors, as operators |
| `ExtraRequests`, `MCExtraRequests` | requests of justifications over `ForkTree`, with peers, import queue and finality |
| `BasePool` | ready and future queues (`graph/base_pool.rs`, `ready.rs`, `future.rs`), as operators |
| `TxPool`, `MCTxPool` | the pool, its maintenance, revalidation worker and author; one account on two forks |
| `AuthoritySet` | the authority set over `ForkNodes`, as operators |
| `GrandpaImport`, `MCGrandpaImport` | import worker, finalization, voter task, restart; two branches with five assignments of changes |
| `GrandpaProofs` | its theorems |

Variables keep the names of the fields they stand for, in camel case, and actions the
names of the functions. What runs under a lock, or without a point where another task can
act, is one action; a function that releases its lock is several, down to the accesses listed
below that are taken as one.

**State database.** Trie nodes are keys; a block's state is a set of keys, its change
set the difference to its parent's. `disk` is the database, `tx` the transaction being
built. `InsertBlock`, `CanonicalizeBlock`, `DbCommit`, `ApplyPending`, `RevertPending`,
`RevertOne`, `Remove`, `Pin`, `Unpin` and `Restart` interleave. `mode` never changes: it
lets one run cover `Constrained` and `ArchiveCanonical`. The commits of `revert_one` and of
`remove` may fail, after which the journal has records of blocks that memory does not have.
`mishaps` is a history variable that names what went wrong so far: a block inserted on a parent that
only a pin retains (`stray`), such a failed commit (`stale`), a level with blocks that
`revert_insertions` popped in place of an empty one (`dropped`), a failed `expect` there
(`panic`, which ends the process). Each property says which of them it excludes; the rest
holds whatever happened.

**Overlay and runtime API.** A value is a model value, `Deleted` or `Unknown` (not in
the overlay). The refinement maps the versions of every key to the copies of the
storage a simple implementation would have kept.

**Peer set.** The user of the Peerset is modelled by what it believes after reading
the messages, as `client/peerset/tests/fuzz.rs` does; it may call `incoming` and
`dropped` before it has read everything, except where the notifications behaviour
reads until nothing is pending (`MayCall`).

**Authority sets.** A change is named by the block that signals it, and a set of
authorities by the change that appointed it. The fork tree is the set of its nodes
(`ForkNodes`); that the vectors of the code do the same is `ForkTreeAgrees`. Votes of
other nodes are an assumption (`Justifies`): a majority justifies only blocks below one
tip, above the change that appointed it or, if that was forced, from the median it names on
(`FromMedian`), and not past the next change, which `finalize_block` itself assumes in a
comment. A vote of this node is three steps: `AskForVote` compares the set id, `ReadLimit` reads
the pending changes above the base of the round, `Vote` picks the target when the fork choice has
answered; imports, finality and commands come in between. `VoteWithinTransition` shows what
the limit read in the second step achieves in the third. The pallet lets no
branch signal a change while another is pending (`frame/grandpa`, `schedule_change`), and
the five assignments respect that.

**Transaction pool.** Validation is the runtime's: a transaction is stale once a tag it
provides was applied on the chain of the block it is validated at, and requires the tags
not applied there, as account nonces work. No operation holds the pool's lock from end to end;
a step is one call that takes it to write, together with the news of it to the watchers, and other
tasks act in between as they do at an await. Submission is `SubmitVerify` and `SubmitImport`, the
latter once for the import and once for the limits. Pruning a block is `PruneStart` (the tags of its
body, from the pool or from the runtime at the parent), `PruneBody` (`prune_tags`, the ban and the
validation of what was pruned), `PruneSubmit` for each result and for the limits, and
`PruneEnd` (InBlock to the watchers, `clear_stale`). `WorkerRemove` and `WorkerResubmit` are the two
halves of a revalidation. An author's iterator has a copy of the best transactions and reads the
queue as it is at each `ProposePush`. Taken as one step are: what `clear_stale` and `maintain`
read of the queue and what they do with it, `resubmit` with its restoring of transactions, and a
call with the events it fires. `events` and `finals` are the streams of notifications of best
and of final blocks, of which either may be read first. Three history variables name what the pool
cannot correct by itself: transactions that came in with an old result (`late`, `aged`), and tags
that a block was pruned without (`missed`).

**Notifications.** One peer in one set: other peers share nothing but the slots of the
Peerset, which `PeersetLink` leaves open. `b` is the state of the peer in the behaviour,
`conn` each connection with its handler, the commands on their way to it and the events on
their way back, `link` the Peerset, `ext` what the external API was told. An operation of the
behaviour yields an `Effect`: the new state, the commands it sends, the events it emits and the
call it makes to the Peerset. `Peerset` implements `PeersetLink` for every peer in every set
(`PeersetLinked`), so that what is shown over `PeersetLink` holds of the two together.
`polling` says that messages of the Peerset are being read: `poll` reads all before anything
else happens. `ok` turns false where the code logs a state mismatch or fails an assertion. One
assertion does fail (`OpenDesiredByRemote` of an enabled peer); as a release build does not
have it, the model goes on both ways (`DebugAssert`).

**Requests of justifications.** `extras` is the structure of `extra_requests.rs`, `peers` what
sync knows of its peers, `jobs` and `results` the two channels of the import queue. Finality
notifications that are ready at once are merged into the latest
(`build_network_future`), so `note` holds one. A response carries one justification.

## Runs

| Run | Instance | Shows |
|---|---|---|
| `ref_window` | 2 nodes, 5 blocks, plain store | retained states stay stored, index and rows agree, the journal rebuilds the window record by record, nothing leaks unless an operation failed |
| `state_db` | 6 blocks on two forks, 3 nodes, window of 1, 2 pins, or 5 blocks, 1 pin, `revert_one` and `remove` with failing commits; counting store; 173,418 states | values are counted exactly, levels are well formed and insertions can be reverted, both journals restore memory, but for named mishaps; whatever is offered can be read, both halves agree on what is canonical, and the window takes only steps of `RefWindow` |
| `overlay` | one dimension at a time: values, child storage, extrinsics, depth 4; 28,226 states | all maps have one depth and exact dirty sets (`VersionsMatchDirty`), and the overlay implements `NestedTransactions` |
| `runtime_api` | 4 strategies, 2 nested client transactions, depth 5; 138,368 states | no layer closes another's transaction, a failed call, and a run that wasm repeats, leave nothing behind (`FailedRunLeavesNoTrace`; which result is returned is not stated), the cached root is fresh unless the client rolled back |
| `peerset` | 2 peers, 1 slot each way, 1 set with everything or 2 sets without incoming connections and time; 103,349 states | slots are counted exactly and bounded, views never diverge, `PeersetLink` is implemented, only allowed peers are connected, reserved nodes are kept |
| `peerset_live` | 2 peers, 1 set, no incoming connections | a node that stays reserved gets connected |
| `grandpa` | 6 blocks on two branches, 5 assignments of changes; 178,119 states | memory and database agree, no change is lost, late or out of order, the voter ends with the current authorities, votes stay within the term of the authorities, as far as changes were known when the limit was read |
| `grandpa_assert` | the same | *violated*: the assertion in `import_justification` |
| `tx_pool` | 3 transactions, 2 of them watched, 6 scenarios of 2 or 3 blocks, limits 2 and 1, 1 finality watcher; 872,694 states | the queues agree with their indexes, a quiet pool fits the best block, a watcher told InBlock hears of that block again and in the end knows the block of the best chain |
| `notifications` | 2 connections, 1 delay, 1 incoming index, 2 events on their way; 597,884 states | every command is answered once, the API is told of every change, and one state mismatch and one failed assertion alone are reachable |
| `notif_live` | 1 connection, 2 delays, 2 incoming indices; 48,560 states | behaviour and Peerset agree on the slot, and a request ends with open substreams or the slot given back |
| `extra_requests` | 2 peers, 3 of 7 blocks imported; 247,679 states | a request is in one place, answers are taken for the right request, requests follow the roots; and, over all trees of 7 blocks, the fork tree of vectors agrees with the set of its nodes |

**Bounds.** Two trie nodes are enough for one that dies while another is revived, and
five canonical blocks let a node die, come back and die again across a pruning. Two
forks of two blocks after a common ancestor let a block be discarded with a
descendant and with a pinned sibling. Values in the overlay matter only by version, so
one value and deletion suffice; depth 4 covers commits into a level with and without a
value, inside and outside the runtime. Two peers compete for one slot. Six blocks hold
two changes on a branch and two that compete. Three transactions hold one that another
needs and two that replace each other; the scenarios let a transaction be retracted and
enacted at once, its requirement be lost, its tags be unknown when its block is pruned, and a
block lose its finality watchers to a later one; one of them has an author. Two connections of a peer are
what the state mismatch needs; with two connections one delay is enough for a timer that
fires late, and the liveness run has two with one connection. Six blocks besides genesis let a
node of the fork tree have two children, a root two descendants in line, and a second root
exist; the requests themselves use three of them, two in line and one on a fork. Behaviours are cut off by the number of
canonical blocks (`MaxNumber`, which the proofs leave arbitrary), pins (`MaxPins`), index
operations (`MaxIndexOps`), nested transactions (`MaxDepth`, `MaxNested`), seconds
between two polls (`MaxElapsed`), blocks a round of votes starts from (`Bases`; the proofs leave it
arbitrary), submissions (`submits` of a scenario), finality watchers
(`MaxFinality`) and events on their way from a handler (`MaxEvents`). `Notifications.cfg` does not
look beyond a state mismatch (`Sane`): after it the
behaviour is in no state its code expects. Where `scope` is a variable, it fixes which dimension a
behaviour explores: combinations of, say, child storage with depth 4, or of two sets with
incoming connections, or of two pins with `revert_one`, are not checked, and in `state_db` at
most one commit of `revert_one` or `remove` fails between two starts. A restart that finds two
records of one block is not followed (`RecordedOnce`). Reputations in `MCPeerset` are scaled down from 32
bits to a few values around the threshold.

**Deadlock** is checked for the window, the peer set and GRANDPA. The others may stop:
their instances run out of blocks, depth, submissions or room for events.

**Fairness** is assumed in two runs. In `peerset_live` the clock advances and the network reads
its messages (weak), and the periodic allocation runs (strong: messages in the queue keep disabling
it, but `poll_next` looks at the timer whenever the queue is empty, before it reads the
channel). In `notif_live` messages are read, handlers take their commands, and a substream that
was asked for is accepted or refused, which OPEN_TIMEOUT guarantees (weak); events of
handlers, delays that are over and the end of a dial are handled although polls of the Peerset
come in between (strong). Nothing is assumed of the Peerset, of the remote or of connections
ending.

## Proofs

The theorems hold for every value of the constants: any number of nodes, blocks, keys,
values, transactions, connections and messages, any tree of blocks and any assignment of
authority changes to it that the pallet allows.

| Theorem | States | Module |
|---|---|---|
| `WindowShape` | `TypeOK`: rows and journal are contiguous and in step with the pending counters | `RefWindowSafety` |
| `PruningIsSafe` | `RetainedStatesStored` | `RefWindowProofs` |
| `IndexIsExact` | `IndexMatchesRows` | `RefWindowProofs` |
| `RestartForgetsNothing` | `JournalRestoresWindow` | `RefWindowProofs` |
| `NothingLeaks` | `NoLeakUnlessReverted` | `RefWindowProofs` |
| `DirtySetsExact` | `VersionsMatchDirty` | `OverlayedProofs` |
| `OverlayRefinesNested` | `ImplementsNested`, the refinement of `NestedTransactions` | `OverlayedProofs` |
| `LayersBalance` | `TransactionsBalanced` | `RuntimeApiProofs` |
| `FailuresLeaveNoTrace` | `FailedRunLeavesNoTrace` | `RuntimeApiProofs` |
| `CachedRootIsFresh` | `CacheFreshUnlessDiscarded` | `RuntimeApiProofs` |
| `DiskIsMemory` | `DiskMatchesMemory` | `GrandpaProofs` |
| `ChangesInOrder` | `EnactedInOrder` | `GrandpaProofs` |
| `ChangesKept` | `ChangesKeptUntilDue` | `GrandpaProofs` |
| `VotesWithinTransition` | `VoteWithinTransition` | `GrandpaProofs` |
| `ApiIsInformed` | `ApiInformed` | `NotificationsProofs` |
| `PeersetIsAgreed` | `PeersetAgrees` | `NotificationsProofs` |

**Pruning window.** `RetainedStatesStored` is not inductive: whether pruning a row is safe
depends on what the row holds. For a store that does not count references, `Inv` adds
that the journal states what each block changed (`ChainOK`), that rows are what the journal
says minus what was revived (`RowsFromJournal`), that a key in a row is dead in every later
state (`RowsDead`) and that the index finds each of them; and the same of the database
while an operation is open, since a revert or restart goes back to it. That nothing leaks
needs the converse, `Tight`: a node that left the chain for good is in the row of the block
where it did. For a store that counts, revived keys stay in their rows, and `CountedInv`
says instead that the count of a node is one if the last pruned block has it, and one more
for each unpruned block that creates it anew (`CountsExact`); creations and deletions alternate
(`Alternating`), so a node of a retained state has a count left.

**Overlay.** `Lockstep` says that every map is well formed and that all have the depth,
protected depth and mode of the top map. `OverlayedMapProofs` shows what each operation
does to a well formed map and to its views, one per open transaction; the refinement maps
the overlay to the stack of those views.

**Runtime API.** `Inv` adds to `TransactionsBalanced` that the transactions below the one
a run works in still hold the view the call found (`SavedViewsKept`): it is what a failed run
returns to.

**Authority sets.** `IInv` says for each place where a task can be between two steps what it
holds: while the lock is held, how the set in memory follows from the one on disk and what
a failure restores; otherwise that the two are equal; and that the pending changes are a
fork tree of signals of imported blocks. The two properties about pending changes need a
second invariant, `KeptInv`, about the whole chain. Until a forced change takes effect, every
change that finality has not ruled out is pending or enacted, and after that still those
that follow a pending change or the current authorities (`Kept`). The set, the voter,
its commands and a verified justification only hold authorities whose branch carries no
pending change, so none of them makes a block final past one (`Justly`, `Voters`). TLC
checked it on the instance of `grandpa` before it was proved. `VotesWithinTransition` adds to it
what was read of the limit (`Bound`): every standard change that was imported then, follows the
voter's authorities, and lies above what is final and on one branch with the base, is covered by
one of the limits, since a root of the fork tree is at or below it and is due no earlier than the base
(`RootNotPassed`). Finality only grows meanwhile, so this still holds when the target is picked.

**Notifications.** `NotifInv` relates the state of the peer to what the API was told last,
and to which messages the Peerset may have queued (`LinkFits`), as long as the behaviour has
not met the state mismatch under *Findings*. `NotificationsLemmas` shows of each operation
that it reports exactly the openings, closings and drops that it causes (`Proper`).

**Assumptions** are named in the modules that declare the constants, and TLC evaluates
them on the instances. Most say that a constant has its type or that the value for an
absent option is none of the present ones (`CountInsertionsAssumption`, `MaxNumberAssumption`,
`NoneAssumption`, `NoneIsNoMap`, `UnknownIsNoEntry`, `ChildrenApart`, `NoneIsAbsent`, `NoneIsNoSet`,
`NoneIsNoSignal`, `NoVoteIsABlock`, `ScenarioAssumption`, `BasesAssumption`). Three are about the world: blocks form a
tree (`TreeAssumption`, `ReachedAssumption`), and the pallet signals no change while another
one of the branch is pending (`ApartAssumption`).

**Only model-checked.** Liveness, which TLAPS does not support here. What rests on
induction over data: the properties of `StateDb` (its journal is replayed by a fold) and
`ReplayMatches`. `VoterFollows`, since it selects from a sequence of commands. Everything about
the peer set, the transaction pool, the fork tree of vectors and the requests of justifications,
whose loops are recursive operators, and `PeersetLinked` with them.

## Findings

`grandpa_assert`: `import_justification` verifies without the lock; if the voter finalizes the
block before it calls `finalize_block`, its assertion fails.

The properties below are stated in the modules and do not hold; each fails with the
configuration given, which checks that property alone, or, where it is marked (+), once the
property takes the place of the invariants and properties that the configuration lists:

| Property | Configuration | What happens |
|---|---|---|
| `PinnedReadable` (`StateDb`) | `StateDbPinnedFork.cfg`, `MCStateDb` | `pin` protects the nodes a fork inserted, not those it shares with the canonical chain |
| `RevertOneReverts` (`StateDb`) | `StateDbRevertOne.cfg`, `MCStateDb` | `revert_one` pops a level that a discarded longer fork left empty, and reverts nothing |
| `InsertionFound` (`StateDb`) | `StateDb.cfg` (+), `MCStateDb` | `insert` accepts a parent that only a pin retains; `revert_insertions`, in search of such a block, meets an empty level below it, and its `expect` ("Hash is added in `insert` in reverse order") fails |
| `RevertsLastLevel` (`StateDb`) | `StateDb.cfg` (+), `MCStateDb` | likewise, but the level of the reverted block is not the last one, which the assertion says it is, and the last one is popped with its blocks |
| `VoteWithinAnyTransition` (`GrandpaImport`) | `GrandpaImport.cfg` (+), `MCGrandpaImport` | a change imported after the limit was read does not limit the vote, though `finalize_block` assumes "that honest voters will never vote past a transition block" (`environment.rs:1311`) |
| `RollbackDiscardsIndexOps` (`MCOverlayedIndex`) | `OverlayedIndexOps.cfg` | rolling back a transaction keeps its transaction index operations |
| `ReservedMaintained` (`Peerset`) | `PeersetBanBreaks.cfg`, `MCPeerset` | one banned reserved node ends the loop over all reserved nodes |
| `IteratorOrdered` (`TxPool`) | `TxPool.cfg` (+), `MCTxPool` | a ready transaction whose requirement was retracted with a block is returned before what provides it, until it is revalidated |
| `InBlockIncluded` (`TxPool`) | `TxPool.cfg` (+), `MCTxPool` | `resubmit_pruned` reports InBlock for a transaction that lost its place to another one of the block |

Seen while modelling, without a run of their own:

- *State database.* After a failed commit of `revert_one` or `remove`, the next start finds blocks
  that were given up. A failed first
  insertion leaves the assumed last canonicalized block. `last_canonicalized_block_number`
  returns the number of levels when nothing is canonical. In `ArchiveCanonical`, `pin`
  refuses canonical blocks. `Backend::finalize_block` does not call `apply_pending` (it is
  reached only from tests). `revert_one` and `remove` ignore pins.
- *Overlay and runtime API.* A comment of `exit_runtime` says open transactions are
  committed; they are rolled back. The second extrinsic that appends to a value is not
  recorded. "On an error, no prospective changes are written" does not hold for
  strategies without a transaction. A cached storage transaction survives rollbacks made
  outside of the runtime; the block builder's last write resets it in practice.
- *Peer set.* A peer that is dropped from one set and thereby banned may stay connected
  in another. An answer to `incoming` can be overtaken by a queued `Connect` and `Drop`; the
  notifications behaviour reads its messages in an order that avoids it.
- *Authority sets.* (a) Between the comparison of the set id and the read of the limit in
  `best_chain_containing`, another task may enact the change, and a vote of the old set
  is then not limited; `VoteWithinTransition` excludes this, by name, and changes imported after
  the read. (b) While `ChangeAuthorities`
  is queued, the old voter writes its state over the blank one of the new set
  (`VoterRecords`); a restart then combines the new set with rounds of the old. (c) A
  command the voter produces itself is handled before older ones in the channel; after a
  forced change on a branch that finality leaves, the voter can end with an older set,
  which `VoterFollows` excludes. (d) The limit ignores forced changes since "any existing
  forced change should preclude the voter from voting", but a restart loses the pause and
  a standard change lifts it. (e) Best finalized numbers of the fork tree are written only
  with other changes, which is why `DiskMatchesMemory` leaves them out. (f) A forced change
  may record a lower block than the previous change, and `get_set_id` searches the records
  by bisection.
- *Transaction pool.* (a) `remove_subtree_with_tag_filter` shadows `hash` in its loop, so a
  removed transaction stays in the `unlocks` of its provider. (b) `verify` returns a `HashMap`,
  whose order `resubmit_pruned` pairs with `pruned_hashes`. (c) `import_to_ready` takes futures
  out of their queue before it may fail with `TooLowPriority`. (d) A transaction that fails
  `check_is_known` is banned although it is in the pool. (e) A pruned transaction that is
  valid again but banned or of too low priority disappears without an event.
  (f) `resubmit` counts the initial status as ready. (g) A revalidation applied more than two
  prunings late moves a ready transaction to the future queue, where nothing revalidates it
  (`aged`), and one applied to a transaction submitted again meanwhile brings back an old
  result (`late`); `QuietPool` excludes these. (h) Limits are enforced by submissions only.
  (i) Notifications of best and of final blocks come in streams of their own; if the pool reads
  that a block is final before that it is best, its watchers never hear of the finality.
  (j) `Pool::prune` drops the tags of an extrinsic that the runtime does not call valid at the parent;
  what requires them keeps waiting in the future queue, where nothing revalidates it (`missed`,
  excluded by `QuietPool`). (k) Because of (b), a transaction that is pruned again after it came back
  late may get no event at all; `InBlockTracked` excludes `late`.
- *Notifications.* `NoOtherMismatch` excludes two steps: a connection that is being closed
  reports CloseDesired while another has made the peer `Incoming`; the code finds a state
  mismatch and leaves the peer `Poisoned` (`NeverPoisoned` fails). And a connection that is
  `OpeningThenClosing` reports OpenDesiredByRemote while another has made the peer `Enabled`: the
  assertion at `behaviour.rs:1504` omits that state, which the comment above it lists
  (`OpenDesiredAssertion` fails). `SinkFollows` fails: the API
  has the sink of the connection that opened first, but when it ends the sink is replaced only if
  that connection is listed before the others. The documentation says that CustomProtocolClosed is
  reported "when the last connection reports `NotifsHandlerOut::ClosedResult`" (`behaviour.rs:88`);
  the code, and the model, report it when they ask for the close. `RemoteAnswered` fails: a remote whose
  connection ends and comes back while the `Accept` of its first request waits is `Incoming` again,
  the Peerset ignores the second request as it takes the peer for connected, the first
  `Accept` is answered with `dropped`, and nothing answers the second.
  Entries of `incoming` whose call the Peerset ignored are never removed.
- *Requests of justifications.* `RequestsFollowRoots` excludes two steps. `on_block_finalized` keeps
  only requests of roots but does not queue the roots that finality has just opened, so their
  requests are lost. A failed import whose request has left the tree meanwhile queues it
  again. The documentation says that "extras are fetched in-order, and that obsolete changes
  are pruned" (`extra_requests.rs:38`). A justification of another engine is dropped with success.

## Not modelled

Contents and encodings of nodes, values and messages, cryptography, logging, metrics and
telemetry are abstracted away. The models cover a small part of the repository, most of
which is pallets, primitives, tests, weights and tooling. Left out of the modelled
parts: `ArchiveAll` (it keeps no state), memory limits and statistics, trie roots and
proofs, key iteration, benchmarking calls, GRANDPA hard forks, migrations, voting rules
(they only lower a vote) and the rounds of the external crate `finality-grandpa`; of the
pool `reject_future_transactions`, light clients, byte limits, propagation, imports
without notification during major sync, finality off the best chain, which makes a block
best without a notification, the size of the ban list, `ready_at`, and failures to read
the header or the body of a block; of the notifications sinks and their buffers, handshakes, fallback names
and keep-alive; of sync the ranges of blocks, ancestor search, announcements, state sync
and the requests that GRANDPA makes on start. That requests of justifications are
answered in the end is not stated: one that is put back to the front can starve the
others. Pallets are sequential application code; RPC, command line and tooling are input
and output.

## Plan

1. *Model:* BABE's epoch changes as a further user of `ForkTree`; ranges and ancestor search of
   block sync; leaves, metadata and the storage cache of the client database around `StateDb`;
   the allocator at 32 bits; the gossip engine.
2. *Compose:* import queue, `GrandpaImport` and the client over `StateDb`, so that one
   crash is a crash of all of them.
3. *Prove:* the remaining safety properties of the notifications, `VoterFollows` of GRANDPA
   with the commands as a function of their position, and the slot counts of the peer set once
   its loops are folds.
4. *Liveness:* that the voter runs with the current authorities in the end, and that
   revalidation reaches every transaction.
