--------------------------- MODULE ExtraRequests ---------------------------
(***************************************************************************)
(* The requests for justifications that sync makes for imported blocks     *)
(* (client/network/src/protocol/sync/extra_requests.rs), the handlers of   *)
(* ChainSync that drive them (protocol/sync.rs), and what these handlers   *)
(* talk to: peers, the import queue and the client's finality              *)
(* notifications, each with a queue of its own in between.                 *)
(***************************************************************************)
EXTENDS ForkTree

CONSTANTS
  Peer,
  None,
  BestNumber,   \* the best numbers of peers
  Produced,     \* the blocks that are produced
  Enacting,     \* blocks whose import may enact a change, which needs a justification
  Forcing       \* blocks whose import may force one, which clears all requests

VARIABLES
  extras,     \* the ExtraRequests of ChainSync
  peers,      \* ChainSync's peers: their state and best number
  jobs,       \* justifications on their way to the import queue
  results,    \* what the import queue has done, on its way to ChainSync
  imported,   \* the blocks the client has
  final,      \* the last finalized block of the client
  note        \* the last of the finality notifications that wait, or None: those
              \* before it are dropped when they are read

extraVars == <<extras, peers, jobs, results, imported, final, note>>
clientVars == <<imported, final, note>>

\* A peer's state: NotConnected, Available, or the block whose justification it was
\* asked for (DownloadingJustification).
NotConnected == [state |-> "absent", best |-> 0]

NewExtraRequests ==
  [tree |-> EmptyTree, seen |-> 0, pending |-> <<>>, active |-> [p \in Peer |-> None],
   failed |-> {}, importing |-> {}]

ExtraInit ==
  /\ extras = NewExtraRequests
  /\ peers = [p \in Peer |-> NotConnected]
  /\ jobs = <<>> /\ results = <<>>
  /\ imported = {Genesis} /\ final = Genesis /\ note = None

RootBlocks(tree) == {tree.roots[k].block : k \in DOMAIN tree.roots}
Asked == {extras.active[p] : p \in Peer} \ {None}

-----------------------------------------------------------------------------
(***************************************************************************)
(* The operations of ExtraRequests                                         *)
(***************************************************************************)
\* Clears all but what is being imported and the best finalized number seen.
Reset(e) == [NewExtraRequests EXCEPT !.seen = e.seen, !.importing = e.importing]

Schedule(e, b) ==
  LET import == ImportTree(e.tree, b)
  IN  [e EXCEPT !.tree = import.tree,
                !.pending = IF import.result = "root" THEN Append(@, b) ELSE @]

\* (mutant) the peer keeps the request that is queued again
RequeueCopy(e, p) == [e EXCEPT !.pending = IF e.active[p] = None THEN @ ELSE <<e.active[p]>> \o @]
RequeueActive(e, p) ==
  [e EXCEPT !.active[p] = None,
            !.pending = IF e.active[p] = None THEN @ ELSE <<e.active[p]>> \o @]

\* on_response without a justification, and with one
OnEmptyResponse(e, p) ==
  [RequeueActive(e, p) EXCEPT !.failed = IF e.active[p] = None THEN @ ELSE @ \cup {<<e.active[p], p>>}]

\* (mutant) the peer keeps the request it has answered
OnResponseKeeps(e, p) == [e EXCEPT !.importing = IF e.active[p] = None THEN @ ELSE @ \cup {e.active[p]}]
OnResponse(e, p) ==
  [e EXCEPT !.active[p] = None,
            !.importing = IF e.active[p] = None THEN @ ELSE @ \cup {e.active[p]}]

\* try_finalize_root of a request that is being imported
FailedImport(e, b, reschedule) ==
  [e EXCEPT !.importing = @ \ {b}, !.pending = IF reschedule THEN <<b>> \o @ ELSE @]

Blocks(roots) == [k \in DOMAIN roots |-> roots[k].block]
\* (mutant) the requests that the finalized one held back are not queued
SuccessfulImportQuiet(e, b) ==
  IF b \notin RootBlocks(e.tree) THEN [e EXCEPT !.importing = @ \ {b}]
  ELSE [e EXCEPT !.tree = FinalizeRoot(@, b), !.seen = Number[b], !.pending = <<>>,
                 !.active = [p \in Peer |-> None], !.failed = {}, !.importing = @ \ {b}]
SuccessfulImport(e, b) ==
  LET tree == FinalizeRoot(e.tree, b)
  IN  IF b \notin RootBlocks(e.tree) THEN [e EXCEPT !.importing = @ \ {b}]
      ELSE [tree |-> tree, seen |-> Number[b], pending |-> Blocks(tree.roots),
            active |-> [p \in Peer |-> None], failed |-> {}, importing |-> e.importing \ {b}]

\* on_block_finalized: a finalized request that is being imported counts as imported,
\* otherwise the tree is pruned and only requests of its roots stay.
OnBlockFinalized(e, b) ==
  LET newer == Number[b] > e.seen
      tree  == IF newer THEN FinalizeWithAncestors(e.tree, b) ELSE e.tree
      roots == RootBlocks(tree)
  IN  IF b \in e.importing THEN SuccessfulImport(e, b)
      ELSE [e EXCEPT !.tree = tree, !.seen = IF newer THEN Number[b] ELSE @,
                     !.pending = SelectSeq(@, LAMBDA c : c \in roots),
                     !.active = [p \in Peer |-> IF @[p] \in roots THEN @[p] ELSE None],
                     !.failed = {f \in @ : f[1] \in roots}]

\* Whether Matcher::next may send the request of b to p.
CanAnswer(e, ps, b, p) ==
  /\ ps[p].state = "Available"
  /\ ps[p].best >= Number[b]
  /\ e.active[p] = None
  /\ <<b, p>> \notin e.failed

\* Matcher::next until it finds nothing, with so many requests remaining: the states
\* of the requests and the peers it may lead to.  A request that no peer of idle can
\* take goes to the back.
RECURSIVE Matched(_, _, _, _)
Matched(e, ps, idle, remaining) ==
  LET b       == Head(e.pending)
      takers  == {p \in idle : CanAnswer(e, ps, b, p)}
      sent(p) == [e EXCEPT !.pending = Tail(@), !.active[p] = b]
  IN  IF remaining = 0 \/ e.pending = <<>> THEN {[extras |-> e, peers |-> ps]}
      ELSE IF takers = {} THEN Matched([e EXCEPT !.pending = Append(Tail(@), b)], ps, idle, remaining - 1)
      ELSE UNION {Matched(sent(p), [ps EXCEPT ![p].state = b], idle, remaining) : p \in takers}

-----------------------------------------------------------------------------
(***************************************************************************)
(* ChainSync                                                               *)
(***************************************************************************)
\* justification_requests: idle are the peers that download no blocks.  If nothing is
\* sent, the queue is back in its order after one round.
JustificationRequests(idle) ==
  /\ \E m \in Matched(extras, peers, idle, Len(extras.pending)) :
        /\ m.peers # peers
        /\ extras' = m.extras /\ peers' = m.peers
  /\ UNCHANGED <<jobs, results, clientVars>>

\* on_block_justification.  A block that was not asked for makes p a bad peer, which
\* will be disconnected.
BlockJustification(p, response) ==
  /\ peers[p].state \in Block
  /\ peers' = [peers EXCEPT ![p].state = "Available"]
  /\ \/ response = "justification" /\ extras' = OnResponse(extras, p)
        /\ jobs' = IF extras.active[p] = None THEN jobs ELSE Append(jobs, extras.active[p])
     \/ response = "empty" /\ extras' = OnEmptyResponse(extras, p) /\ UNCHANGED jobs
     \/ response = "other block" /\ UNCHANGED <<extras, jobs>>
  /\ UNCHANGED <<results, clientVars>>

NewPeer(p, best) ==
  /\ peers[p] = NotConnected
  /\ peers' = [peers EXCEPT ![p] = [state |-> "Available", best |-> best]]
  /\ UNCHANGED <<extras, jobs, results, clientVars>>

PeerDisconnected(p) ==
  /\ peers[p] # NotConnected
  /\ peers' = [peers EXCEPT ![p] = NotConnected]
  /\ extras' = RequeueActive(extras, p)
  /\ UNCHANGED <<jobs, results, clientVars>>

\* on_blocks_processed and on_justification_import
ImportResult ==
  /\ results # <<>>
  /\ results' = Tail(results)
  /\ LET r == Head(results)
     IN  extras' = CASE r.type = "needs justification" -> Schedule(extras, r.block)
                     [] r.type = "clears requests" -> Reset(extras)
                     [] r.type \in {"success", "failure"} /\ r.block \notin extras.importing -> extras
                     [] r.type = "success" /\ r.block \in extras.importing -> SuccessfulImport(extras, r.block)
                     [] r.type = "failure" /\ r.block \in extras.importing -> FailedImport(extras, r.block, TRUE)
  /\ UNCHANGED <<peers, jobs, clientVars>>

\* The network task merges the notifications that are ready into the latest.
BlockFinalized ==
  /\ note # None
  /\ note' = None
  /\ extras' = OnBlockFinalized(extras, note)
  /\ UNCHANGED <<peers, jobs, results, imported, final>>

\* EXTRA_RETRY_WAIT after p had no answer
RetryWaitOver(b, p) ==
  /\ <<b, p>> \in extras.failed
  /\ extras' = [extras EXCEPT !.failed = @ \ {<<b, p>>}]
  /\ UNCHANGED <<peers, jobs, results, clientVars>>

-----------------------------------------------------------------------------
(***************************************************************************)
(* The import queue and the client                                         *)
(***************************************************************************)
ImportBlock(b) ==
  /\ b \in Produced \ imported /\ Parent[b] \in imported /\ Number[b] > Number[final]
  /\ imported' = imported \cup {b}
  /\ \/ b \in Enacting /\ results' = Append(results, [type |-> "needs justification", block |-> b])
     \/ b \in Forcing /\ results' = Append(results, [type |-> "clears requests", block |-> b])
     \/ UNCHANGED results
  /\ UNCHANGED <<extras, peers, jobs, final, note>>

\* apply_finality_with_block_hash for a block above the last finalized one; b is the
\* last of the blocks it notifies.
ApplyFinality(b) ==
  /\ IsDescendentOf(final, b)
  /\ final' = b
  /\ note' = b

\* The voter finalizes b.
Finalize(b) ==
  /\ b \in imported
  /\ ApplyFinality(b)
  /\ UNCHANGED <<extras, peers, jobs, results, imported>>

\* A justification of a block that is final already succeeds, and so does one of another
\* engine, which is dropped; one of a block of another fork fails, as does a bad one.
ImportJustification(success) ==
  /\ jobs # <<>>
  /\ jobs' = Tail(jobs)
  /\ \/ success /\ ApplyFinality(Head(jobs))
     \/ UNCHANGED <<final, note>>
  /\ results' = Append(results, [type |-> IF success THEN "success" ELSE "failure", block |-> Head(jobs)])
  /\ UNCHANGED <<extras, peers, imported>>

ExtraNext ==
  \/ \E idle \in SUBSET Peer : JustificationRequests(idle)
  \/ \E p \in Peer : \/ \E response \in {"justification", "empty", "other block"} : BlockJustification(p, response)
                     \/ \E best \in BestNumber : NewPeer(p, best)
                     \/ PeerDisconnected(p)
                     \/ \E b \in Block : RetryWaitOver(b, p)
  \/ ImportResult
  \/ BlockFinalized
  \/ \E b \in Block \ {Genesis} :
        \/ ImportBlock(b)
        \/ Finalize(b)
  \/ \E success \in BOOLEAN : ImportJustification(success)

ExtraSpec == ExtraInit /\ [][ExtraNext]_extraVars

-----------------------------------------------------------------------------
(***************************************************************************)
(* The tree of vectors against the set of its nodes                        *)
(***************************************************************************)
NodesOf(roots) == {n.block : n \in Range(PreOrder(roots))}

\* Every node is there once, under the highest node it descends from.
WellFormed(roots) ==
  /\ IsInjective(Blocks(PreOrder(roots)))
  /\ Range(Blocks(roots)) = Roots(NodesOf(roots))
  /\ \A n \in Range(PreOrder(roots)) :
        Range(Blocks(n.children)) = Children(NodesOf(roots), n.block)

\* What each operation does to the tree is what it does to the nodes.
OperationsAgree(tree, b, passing) ==
  LET nodes   == NodesOf(tree.roots)
      all     == FinalizeWithAncestors(tree, b)
      some    == FinalizeWithDescendentIf(tree, b, passing)
      ref     == FinalizeIf(nodes, b, passing)
      pruned  == Prune(tree, b, passing)
  IN  /\ WellFormed(all.roots) /\ NodesOf(all.roots) = Finalized(nodes, b)
      /\ FinalizesAnyWithDescendentIf(tree, b, passing) = FinalizesAny(nodes, b, passing)
      /\ some.ok = ref.ok
      /\ ref.ok => /\ WellFormed(some.tree.roots) /\ NodesOf(some.tree.roots) = ref.nodes
                   /\ some.final = ref.final /\ some.changed = ref.changed
      /\ Range(Blocks(FindNodeWhere(tree, b, passing))) = FindNode(nodes, b, passing)
      /\ WellFormed(pruned.roots) /\ NodesOf(pruned.roots) = Pruned(nodes, b, passing)

\* The trees that imports, ancestors first, and finalizations make.
InOrder(tree, b) == \A c \in NodesOf(tree.roots) : ~IsDescendentOf(b, c)
RECURSIVE Trees(_, _)
Trees(known, new) ==
  LET next == UNION {{ImportTree(t, b).tree : b \in {c \in Block \ {Genesis} : InOrder(t, c)}}
                     \cup {FinalizeWithAncestors(t, b) : b \in Block} : t \in new}
  IN  IF new = {} THEN known ELSE Trees(known \cup next, next \ known)

(***************************************************************************)
(* The vectors of the fork tree (utils/fork-tree/src/lib.rs), sorted by    *)
(* depth, opened in place and with elements swapped out, hold a well       *)
(* formed tree, and each operation on them keeps the nodes, finalizes the  *)
(* node and reports the error that the set of nodes says: for every tree   *)
(* made by imports and finalizations, every block and every predicate.     *)
(* This is what AuthoritySet relies on when it keeps the nodes alone.  It  *)
(* is a fact about constants, so it is looked at in the initial state.     *)
(***************************************************************************)
ForkTreeAgrees ==
  imported = {Genesis} /\ (\A p \in Peer : peers[p] = NotConnected) =>
    \A tree \in Trees({EmptyTree}, {EmptyTree}) :
      /\ WellFormed(tree.roots)
      /\ \A b \in Block, passing \in SUBSET NodesOf(tree.roots) :
            Number[b] > tree.best => OperationsAgree(tree, b, passing)

-----------------------------------------------------------------------------
(***************************************************************************)
(* A request is in one place only (extra_requests.rs): queued once, asked  *)
(* of one peer, or being imported, whatever fails, is finalized, or is     *)
(* reset meanwhile.                                                        *)
(***************************************************************************)
RequestedOnce ==
  /\ IsInjective(extras.pending)
  /\ \A p, q \in Peer : p # q /\ extras.active[p] # None => extras.active[p] # extras.active[q]
  /\ Range(extras.pending) \cap Asked = {}
  /\ extras.importing \cap (Range(extras.pending) \cup Asked) = {}

(***************************************************************************)
(* on_response takes the answer of a peer for the answer to its active     *)
(* request: "we assume that the request maps to the given response"        *)
(* (extra_requests.rs:124).  ChainSync and ExtraRequests keep one side     *)
(* each, and finality or a reset drops only one of them; still a peer with *)
(* an active request was asked for that block, or is about to be           *)
(* disconnected for an answer about another.                               *)
(***************************************************************************)
AnswersMatchRequests ==
  \A p \in Peer : extras.active[p] # None => peers[p].state \in {"Available", extras.active[p]}

Stale == (Range(extras.pending) \cup Asked) \ RootBlocks(extras.tree)
Lost == RootBlocks(extras.tree) \ (Range(extras.pending) \cup Asked \cup extras.importing)

(***************************************************************************)
(* Requests follow the roots of the tree ("extras are fetched in-order,    *)
(* and ... obsolete changes are pruned", extra_requests.rs:38), but for    *)
(* two steps: a finality notification may open a node without queueing the *)
(* requests of its children, and the failed import of a request that the   *)
(* tree has dropped meanwhile queues it again.                             *)
(***************************************************************************)
RequestsFollowRoots ==
  [][/\ Lost' \ Lost # {} => BlockFinalized /\ Lost' \cap RootBlocks(extras.tree) \subseteq Lost
     /\ Stale' \ Stale # {} => ImportResult /\ Head(results).type = "failure"]_extraVars
=============================================================================
