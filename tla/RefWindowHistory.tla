-------------------------- MODULE RefWindowHistory --------------------------
(***************************************************************************)
(* RefWindow with a history variable that remembers whether an operation   *)
(* was reverted.  revert_pending does not put a revived key back in the    *)
(* row that import took it off, so what the window promises about leaks    *)
(* depends on it.                                                          *)
(***************************************************************************)
EXTENDS RefWindow

\* Whether a failed operation was reverted so far.
VARIABLE reverted

HistoryInit == Init /\ reverted = FALSE
HistoryNext ==
  \/ /\ \/ \E hash \in BlockHash, nodes \in SUBSET Key, upTo \in 0 .. MaxNumber :
             CanonicalizeBlock(hash, nodes, upTo)
        \/ DbCommit
        \/ ApplyPending
        \/ Restart
     /\ UNCHANGED reverted
  \/ RevertPending /\ reverted' = TRUE
HistorySpec == HistoryInit /\ [][HistoryNext]_<<vars, reverted>>

\* Nothing is leaked as long as no operation was reverted.  The comment in
\* revert_pending concedes that nodes may be left behind after that.
NoLeakUnlessReverted == ~reverted => NoLeak

=============================================================================
