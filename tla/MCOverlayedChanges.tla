------------------------ MODULE MCOverlayedChanges ------------------------
(***************************************************************************)
(* An instance of OverlayedChanges that stays small enough for TLC: each   *)
(* behaviour is bounded in all dimensions but one, which `scope` names.    *)
(*   "values"      values are written, not only removed, and indexed       *)
(*   "children"    a child storage is written                              *)
(*   "extrinsics"  writes record the extrinsic they come from              *)
(*   "depth"       up to MaxDepth transactions are nested, otherwise two   *)
(***************************************************************************)
EXTENDS OverlayedNested

VARIABLE scope

scopeVars == <<overlayVars, scope>>

InScope(a, value, at) ==
  /\ a \in Child => scope = "children"
  /\ value # Deleted => scope = "values"
  /\ at # {} => scope = "extrinsics"

MCInit == Init /\ scope \in {"values", "children", "extrinsics", "depth"}

MCNext ==
  /\ \/ \E a \in Area : \E k \in Key, value \in Value \cup {Deleted}, at \in ExtrinsicIndex(a) :
          InScope(a, value, at) /\ SetStorage(a, k, value, at)
     \/ \E k \in Key, value \in Value, at \in ExtrinsicIndex("top") :
          InScope("top", value, at) /\ AppendStorage(k, value, at)
     \/ \E a \in Tracked : \E keys \in SUBSET Key, at \in ExtrinsicIndex(a) :
          InScope(a, Deleted, at) /\ ClearKeys(a, keys, at)
     \/ scope = "values" /\ AddTransactionIndex
     \/ (Depth(TopMap) < 2 \/ scope = "depth") /\ StartTransaction
     \/ RollbackTransaction
     \/ CommitTransaction
     \/ EnterRuntime
     \/ ExitRuntime
     \/ DrainStorageChanges
  /\ UNCHANGED scope

MCSpec == MCInit /\ [][MCNext]_scopeVars
=============================================================================
