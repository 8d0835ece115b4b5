------------------------------ MODULE BasePool ------------------------------
(***************************************************************************)
(* The queues of the transaction pool                                      *)
(* (client/transaction-pool/src/graph/base_pool.rs, ready.rs, future.rs):  *)
(* a graph of transactions linked by the tags they provide and require.    *)
(*                                                                         *)
(* A pool is a record:                                                     *)
(*   ready     transaction -> [requires, till, unlocks, offset]; unlocks   *)
(*             counts the occurrences of each transaction in the list, and *)
(*             offset is requires_offset                                   *)
(*   order     the ready transactions by insertion_id                      *)
(*   provided  provided_tags, None for a tag nobody provides               *)
(*   best      transactions that wait for no other in the queue            *)
(*   future    transaction -> [requires, till, missing]; wanted_tags is    *)
(*             the inverse of missing                                      *)
(*   waiting   the future transactions by imported_at                      *)
(*   pruned    recently_pruned, a pair of sets of tags                     *)
(*   slot      recently_pruned_index, 1 or 2                               *)
(*                                                                         *)
(* Hash maps are iterated in no particular order, so operations return the *)
(* set of their possible results.                                          *)
(***************************************************************************)
EXTENDS Integers, FiniteSets, Functions, SequencesExt

CONSTANTS
  Tx,           \* transactions, by hash
  Tag,
  Provides,     \* [Tx -> SUBSET Tag], not empty (verify_one rejects such transactions)
  Priority,     \* [Tx -> Nat]
  ReadyLimit,   \* Options.ready.count
  FutureLimit,  \* Options.future.count
  None

EmptyPool ==
  [ ready |-> [t \in {} |-> None], order |-> <<>>, provided |-> [g \in Tag |-> None],
    best |-> {}, future |-> [t \in {} |-> None], waiting |-> <<>>,
    pruned |-> <<{}, {}>>, slot |-> 1 ]

Ready(p) == DOMAIN p.ready
Future(p) == DOMAIN p.future
IsImported(p, t) == t \in Ready(p) \cup Future(p)

Nobody == [t \in Tx |-> 0]
Total(f, S) == FoldFunctionOnSet(+, 0, f, S)
Without(s, S) == SelectSeq(s, LAMBDA t : t \notin S)

-----------------------------------------------------------------------------
(***************************************************************************)
(* ReadyTransactions                                                       *)
(***************************************************************************)
\* What remove_subtree_with_tag_filter removes: a transaction that loses a tag
\* takes along all it unlocks.
Subtree(p, roots, filter) ==
  LET below(S) == {u \in Ready(p) : \E t \in S : Provides[t] \ filter # {}
                                               /\ p.ready[t].unlocks[u] > 0}
      reached[n \in Nat] == IF n = 0 THEN roots \cap Ready(p)
                            ELSE reached[n - 1] \cup below(reached[n - 1])
  IN  reached[Cardinality(Tx)]

\* The loop over the required tags of a removed transaction means to take it
\* off the unlocks of their providers, but `hash` is there the provider's own.
UnlinkRemoved(p, gone, q) ==
  LET times == Cardinality({<<t, g>> \in gone \X Tag : g \in p.ready[t].requires
                                                     /\ p.provided[g] = q})
  IN  [p.ready[q].unlocks EXCEPT ![q] = IF @ > times THEN @ - times ELSE 0]

\* Mutant of RemoveFromReady: the tags stay in provided_tags.
RemoveFromReadyKeepsTags(p, roots, filter) ==
  LET gone == Subtree(p, roots, filter)
  IN  [p EXCEPT !.ready = Restrict(@, Ready(p) \ gone), !.order = Without(@, gone),
                !.best = @ \ gone]

RemoveFromReady(p, roots, filter) ==
  LET gone == Subtree(p, roots, filter)
      lost == UNION {Provides[t] : t \in gone} \ filter
  IN  [p EXCEPT !.ready = [q \in Ready(p) \ gone |->
                             [p.ready[q] EXCEPT !.unlocks = UnlinkRemoved(p, gone, q)]],
                !.order = Without(@, gone),
                !.provided = [g \in Tag |-> IF g \in lost THEN None ELSE p.provided[g]],
                !.best = @ \ gone]

Replaced(p, t) == {p.provided[g] : g \in Provides[t]} \ {None}

TooLowPriority(p, t) ==
  /\ Replaced(p, t) # {}
  /\ Total(Priority, Replaced(p, t)) >= Priority[t]

\* ReadyTransactions::import of a transaction that is not TooLowPriority.
ImportReady(p, w) ==
  LET t == w.tx
      old == Replaced(p, t)
      unlocks == [u \in Tx |-> Total([o \in old |-> p.ready[o].unlocks[u]], old)]
      q == RemoveFromReady(p, old, Provides[t])
      needs(o) == Cardinality({g \in w.requires : q.provided[g] = o})
      new == [ requires |-> w.requires, till |-> w.till, unlocks |-> unlocks,
               offset |-> needs(None) ]
  IN  [q EXCEPT !.ready = [u \in Ready(q) \cup {t} |->
                             IF u = t THEN new
                             ELSE [q.ready[u] EXCEPT !.unlocks[t] = @ + needs(u)]],
                !.order = Append(@, t),
                !.provided = [g \in Tag |-> IF g \in Provides[t] THEN t ELSE q.provided[g]],
                !.best = IF new.offset = Cardinality(w.requires) THEN @ \cup {t} ELSE @]

\* ReadyTransactions::prune_tags: the provider goes, then every provider of its
\* requirements that unlocks nothing else; what it unlocks stays.
RECURSIVE PruneReady(_, _)
PruneReady(p, tags) ==
  IF tags = {} THEN p ELSE
  LET tag == CHOOSE g \in tags : TRUE
      t == p.provided[tag]
  IN  IF t = None THEN PruneReady(p, tags \ {tag}) ELSE
      LET r == p.ready[t]
          provided == [g \in Tag |-> IF g \in Provides[t] THEN None ELSE p.provided[g]]
          uses(q) == Cardinality({g \in r.requires : provided[g] = q})
          kept == [q \in Ready(p) \ {t} |->
                     [p.ready[q] EXCEPT !.unlocks[t] = IF @ > uses(q) THEN @ - uses(q) ELSE 0,
                                        !.offset = @ + r.unlocks[q]]]
          done == {q \in DOMAIN kept : uses(q) > 0 /\ kept[q].unlocks = Nobody}
          freed == {q \in DOMAIN kept : /\ p.ready[q].offset < Cardinality(kept[q].requires)
                                        /\ kept[q].offset >= Cardinality(kept[q].requires)}
      IN  PruneReady([p EXCEPT !.ready = kept, !.order = Without(@, {t}),
                               !.provided = provided, !.best = (@ \ {t}) \cup freed],
                     (tags \ {tag}) \cup UNION {Provides[q] : q \in done})

\* TransactionRef::cmp: the one that BestIterator takes first.
Better(p, t, u) ==
  \/ Priority[t] > Priority[u]
  \/ /\ Priority[t] = Priority[u]
     /\ \/ p.ready[t].till < p.ready[u].till
        \/ /\ p.ready[t].till = p.ready[u].till
           /\ \E i, j \in DOMAIN p.order : i < j /\ p.order[i] = t /\ p.order[j] = u

\* best_or_awaiting for the n entries of u in a list of unlocks: `await` is the
\* satisfied count of u in the awaiting map, 0 when it has none. Each time the
\* count reaches the number of requirements u goes to best and loses its entry.
Unlock(p, u, await, n) ==
  LET need == Cardinality(p.ready[u].requires)
      base == p.ready[u].offset
      start == IF await = 0 THEN base ELSE await
      first == IF need > start THEN need - start ELSE 1
      again == IF need > base THEN need - base ELSE 1
      rest == (n - first) % again
  IN  IF n < first THEN [best |-> FALSE, await |-> IF n = 0 THEN await ELSE start + n]
      ELSE [best |-> TRUE, await |-> IF rest = 0 THEN 0 ELSE base + rest]

\* A BestIterator has a copy of `best` and reads the rest in the queue as it is when
\* next is called: a transaction that left the queue is skipped, unless it is back
\* by the time it is looked up.
Iterator(p) == [best |-> p.best, awaiting |-> [t \in Tx |-> 0]]

IteratorNext(p, it) ==
  LET here == it.best \cap Ready(p)
  IN  CHOOSE t \in here : \A u \in here \ {t} : Better(p, t, u)

IteratorAfter(p, it) ==
  LET t == IteratorNext(p, it)
      after == [u \in Ready(p) |-> Unlock(p, u, it.awaiting[u], p.ready[t].unlocks[u])]
      skipped == {u \in it.best \ Ready(p) : Priority[u] > Priority[t]}
  IN  [ best |-> (it.best \ (skipped \cup {t})) \cup {u \in Ready(p) : after[u].best},
        awaiting |-> [u \in Tx |-> IF u \in Ready(p) THEN after[u].await ELSE it.awaiting[u]] ]

RECURSIVE Iterate(_, _, _)
Iterate(p, it, returned) ==
  IF it.best \cap Ready(p) = {} THEN returned
  ELSE Iterate(p, IteratorAfter(p, it), Append(returned, IteratorNext(p, it)))

\* All that the iterator returns while the queue does not change.
BestIterator(p) == Iterate(p, Iterator(p), <<>>)

-----------------------------------------------------------------------------
(***************************************************************************)
(* FutureTransactions                                                      *)
(***************************************************************************)
\* WaitingTransaction::new, missing_tags
Missing(p, requires) ==
  {g \in requires : p.provided[g] = None /\ g \notin p.pruned[1] \cup p.pruned[2]}

ImportFuture(p, w) ==
  [p EXCEPT !.future = [u \in Future(p) \cup {w.tx} |->
                          IF u = w.tx THEN [requires |-> w.requires, till |-> w.till,
                                            missing |-> Missing(p, w.requires)]
                          ELSE p.future[u]],
            !.waiting = Append(@, w.tx)]

RemoveFromFuture(p, txs) ==
  [p EXCEPT !.future = Restrict(@, Future(p) \ txs), !.waiting = Without(@, txs)]

\* satisfy_tags: the transactions that wait for nothing else leave the queue.
SatisfyTags(p, tags) ==
  LET freed == {u \in Future(p) : p.future[u].missing \subseteq tags}
      marked == [u \in Future(p) |-> [p.future[u] EXCEPT !.missing = @ \ tags]]
  IN  [ pool |-> RemoveFromFuture([p EXCEPT !.future = marked], freed),
        freed |-> {[tx |-> u, requires |-> p.future[u].requires, till |-> p.future[u].till] :
                     u \in freed} ]

-----------------------------------------------------------------------------
(***************************************************************************)
(* BasePool                                                                *)
(***************************************************************************)
Failed(p) == [pool |-> p, ok |-> FALSE, ready |-> FALSE,
              promoted |-> {}, failed |-> {}, removed |-> {}]

\* The rest of the loop of import_to_ready: `stack` holds the groups of waiting
\* transactions still to import, a group in the order of a hash set.
RECURSIVE ImportPromoted(_, _)
ImportPromoted(r, stack) ==
  IF stack = <<>> THEN {r} ELSE
  LET group == Last(stack)
      below == Front(stack)
  IN  IF group = {} THEN ImportPromoted(r, below) ELSE
      UNION {LET s == SatisfyTags(r.pool, Provides[w.tx])
                 left == Append(Append(below, group \ {w}), s.freed)
             IN  IF TooLowPriority(s.pool, w.tx)
                 THEN ImportPromoted([r EXCEPT !.pool = s.pool, !.failed = @ \cup {w.tx}], left)
                 ELSE ImportPromoted([r EXCEPT !.pool = ImportReady(s.pool, w),
                                               !.promoted = @ \cup {w.tx},
                                               !.removed = @ \cup (Ready(s.pool) \
                                                                   Ready(ImportReady(s.pool, w)))],
                                     left) : w \in group}

RemoveSubtree(p, roots) == RemoveFromFuture(RemoveFromReady(p, roots, {}), roots)

\* import_to_ready: what waits for the tags is taken from the future queue
\* before the transaction is known to enter the ready queue.
ImportToReady(p, w) ==
  LET s == SatisfyTags(p, Provides[w.tx])
      q == ImportReady(s.pool, w)
      start == [pool |-> q, ok |-> TRUE, ready |-> TRUE, promoted |-> {}, failed |-> {},
                removed |-> Ready(s.pool) \ Ready(q)]
      cycle(r) == Failed(RemoveFromReady(r.pool, r.promoted, {}))
  IN  IF TooLowPriority(s.pool, w.tx) THEN {Failed(s.pool)}
      ELSE {IF w.tx \in r.removed THEN cycle(r) ELSE r : r \in ImportPromoted(start, <<s.freed>>)}

\* BasePool::import
Import(p, w) ==
  IF IsImported(p, w.tx) THEN {Failed(p)}
  ELSE IF Missing(p, w.requires) # {}
       THEN {[Failed(ImportFuture(p, w)) EXCEPT !.ok = TRUE]}
       ELSE ImportToReady(p, w)

RECURSIVE PromoteAll(_, _)
PromoteAll(r, ws) ==
  IF ws = {} THEN {r} ELSE
  UNION {LET merge(i) == [r EXCEPT !.pool = i.pool,
                                   !.promoted = @ \cup (IF i.ok THEN {w.tx} ELSE {}) \cup i.promoted,
                                   !.invalid = @ \cup i.failed,
                                   !.usurped = @ \cup i.removed,
                                   !.dropped = @ \cup (IF i.ok THEN {} ELSE {w.tx})]
         IN  UNION {PromoteAll(merge(i), ws \ {w}) : i \in ImportToReady(r.pool, w)} : w \in ws}

\* BasePool::prune_tags. Two calls of it stay in recently_pruned.
PruneTags(p, tags) ==
  LET s == SatisfyTags([p EXCEPT !.pruned[p.slot] = tags, !.slot = 3 - @], tags)
      q == PruneReady(s.pool, tags)
  IN  PromoteAll([pool |-> q, pruned |-> Ready(p) \ Ready(q), promoted |-> {},
                  invalid |-> {}, usurped |-> {}, dropped |-> {}], s.freed)

\* BasePool::enforce_limits: the oldest go first, with all that depends on them.
RECURSIVE EnforceLimits(_)
EnforceLimits(p) ==
  IF Len(p.order) > ReadyLimit THEN EnforceLimits(RemoveSubtree(p, {Head(p.order)}))
  ELSE IF Len(p.waiting) > FutureLimit THEN EnforceLimits(RemoveSubtree(p, {Head(p.waiting)}))
  ELSE p
=============================================================================
