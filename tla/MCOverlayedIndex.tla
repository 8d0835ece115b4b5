------------------------- MODULE MCOverlayedIndex -------------------------
(***************************************************************************)
(* OverlayedChanges with the transaction index operations there were when  *)
(* each open transaction started.                                          *)
(***************************************************************************)
EXTENDS OverlayedChanges

VARIABLE indexAtStart

indexVars == <<overlayVars, indexAtStart>>

IndexInit == Init /\ indexAtStart = <<>>

IndexNext ==
  \/ StartTransaction /\ indexAtStart' = Append(indexAtStart, indexOps)
  \/ /\ RollbackTransaction \/ CommitTransaction
     /\ indexAtStart' = SubSeq(indexAtStart, 1, Len(indexAtStart) - 1)
  \/ AddTransactionIndex /\ UNCHANGED indexAtStart

IndexSpec == IndexInit /\ [][IndexNext]_indexVars

\* The comment on rollback_transaction, "Any changes made during that transaction
\* are discarded", said of the transaction index operations.
RollbackDiscardsIndexOps ==
  [][RollbackTransaction => indexOps' = indexAtStart[Len(indexAtStart)]]_indexVars
=============================================================================
