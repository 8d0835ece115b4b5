--------------------------- MODULE MCRuntimeApi ---------------------------
(***************************************************************************)
(* RuntimeApi with a variable that remembers whether changes were rolled   *)
(* back outside of the runtime since the storage root was cached.          *)
(***************************************************************************)
EXTENDS RuntimeApi

VARIABLE discarded

mcVars == <<apiVars, discarded>>

\* Rollbacks by the state machine, by exit_runtime and by the API object; none
\* of them goes through mark_dirty as the runtime's own do.
RollsBack ==
  /\ mode' # "runtime" \/ call'.native # call.native
  /\ \/ call' # None
     \/ OpenTransactions > client
     \/ returned' = Err /\ commitOnSuccess

MCInit == ApiInit /\ discarded = FALSE

MCNext ==
  /\ ApiNext
  /\ discarded' = /\ cache' # None
                  /\ \/ discarded
                     \/ call # None /\ RollsBack
                     \/ nested' < nested /\ stack' # Committed(stack)

MCSpec == MCInit /\ [][MCNext]_mcVars

\* A cached storage root is the one of the changes as they are, as long as only
\* the runtime itself rolls back; a cached root survives all other rollbacks.
CacheFreshUnlessDiscarded == ~discarded => CacheFresh
=============================================================================
