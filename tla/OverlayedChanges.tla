-------------------------- MODULE OverlayedChanges --------------------------
(***************************************************************************)
(* The changes laid over the state while a runtime call executes           *)
(* (primitives/state-machine/src/overlayed_changes/mod.rs): one            *)
(* OverlayedMap for the top storage, one for the offchain storage and one  *)
(* for each child storage written so far, which open and close             *)
(* transactions in lockstep.  Child maps come into being in the middle of  *)
(* transactions and are dropped when a rollback leaves them empty.         *)
(***************************************************************************)
EXTENDS OverlayedMap

CONSTANTS
  Value, Unknown,
  Child,      \* child storages
  None,       \* a child storage without a map
  Extrinsic,  \* extrinsic indices
  MaxDepth,   \* bound on open transactions
  MaxIndexOps \* bound on transaction index operations

VARIABLES
  areas,   \* top, offchain and children: area -> OverlayedMap or None
  indexOps \* transaction_index_ops: their number

overlayVars == <<areas, indexOps>>

Area == {"top", "offchain"} \cup Child
Present == {a \in Area : areas[a] # None}
TopMap == areas["top"]
Tracked == Area \ {"offchain"}

\* extrinsic_index, which the calls pass on for all but the offchain map; there
\* is none while collect_extrinsics is off.
ExtrinsicIndex(a) == {{}} \cup {{e} : e \in IF a \in Tracked THEN Extrinsic ELSE {}}

\* What a map and an entry of a view look like.
Version == [value : Value \cup {Deleted}, extrinsics : SUBSET Extrinsic]
MapState == [changes : [Key -> Seq(Version)], dirty : Seq(SUBSET Key), client : Nat,
             mode : {"client", "runtime"}]
ViewEntry == [value : Value \cup {Deleted}, by : SUBSET Extrinsic]

ASSUME NoneIsNoMap == None \notin MapState
ASSUME UnknownIsNoEntry == Unknown \notin ViewEntry
ASSUME ChildrenApart == "top" \notin Child /\ "offchain" \notin Child

\* children.entry(..).or_insert_with(top.spawn_child())
MapFor(a) == IF areas[a] = None THEN SpawnChild(TopMap) ELSE areas[a]

Init ==
  /\ areas = [a \in Area |-> IF a \in Child THEN None ELSE EmptyMap]
  /\ indexOps = 0

-----------------------------------------------------------------------------
\* set_storage, set_child_storage, set_offchain_storage.
SetStorage(a, k, value, at) ==
  /\ areas' = [areas EXCEPT ![a] = Set(MapFor(a), k, value, at)]
  /\ UNCHANGED indexOps

\* value_mut_or_insert_with, on the top storage only.
AppendStorage(k, value, at) ==
  /\ areas' = [areas EXCEPT !["top"] = Modify(@, k, value, at)]
  /\ UNCHANGED indexOps

\* clear_prefix, clear_child_prefix and clear_child_storage.
ClearKeys(a, keys, at) ==
  /\ areas' = [areas EXCEPT ![a] = ClearWhere(MapFor(a), keys, at)]
  /\ UNCHANGED indexOps

AddTransactionIndex ==
  /\ indexOps < MaxIndexOps
  /\ indexOps' = indexOps + 1
  /\ UNCHANGED areas

StartTransaction ==
  /\ Depth(TopMap) < MaxDepth
  /\ areas' = [a \in Area |-> IF a \in Present THEN Started(areas[a]) ELSE None]
  /\ UNCHANGED indexOps

\* A child map that is empty afterwards is dropped (retain_map).
RollbackTransaction ==
  /\ CanClose(TopMap)
  /\ areas' = [a \in Area |->
                 IF a \notin Present THEN None
                 ELSE LET m == RolledBack(areas[a])
                      IN  IF a \in Child /\ IsEmpty(m) THEN None ELSE m]
  /\ UNCHANGED indexOps

CommitTransaction ==
  /\ CanClose(TopMap)
  /\ areas' = [a \in Area |-> IF a \in Present THEN Committed(areas[a]) ELSE None]
  /\ UNCHANGED indexOps

EnterRuntime ==
  /\ TopMap.mode = "client"
  /\ areas' = [a \in Area |-> IF a \in Present THEN Entered(areas[a]) ELSE None]
  /\ UNCHANGED indexOps

ExitRuntime ==
  /\ TopMap.mode = "runtime"
  /\ areas' = [a \in Area |-> IF a \in Present THEN Exited(areas[a]) ELSE None]
  /\ UNCHANGED indexOps

\* drain_storage_changes, which takes the maps and leaves default ones.
DrainStorageChanges ==
  /\ Depth(TopMap) = 0
  /\ areas' = [a \in Area |-> IF a \in Child THEN None ELSE EmptyMap]
  /\ indexOps' = 0

Next ==
  \/ \E a \in Area : \E k \in Key, value \in Value \cup {Deleted}, at \in ExtrinsicIndex(a) :
       SetStorage(a, k, value, at)
  \/ \E k \in Key, value \in Value, at \in ExtrinsicIndex("top") : AppendStorage(k, value, at)
  \/ \E a \in Tracked : \E keys \in SUBSET Key, at \in ExtrinsicIndex(a) : ClearKeys(a, keys, at)
  \/ AddTransactionIndex
  \/ StartTransaction
  \/ RollbackTransaction
  \/ CommitTransaction
  \/ EnterRuntime
  \/ ExitRuntime
  \/ DrainStorageChanges

Spec == Init /\ [][Next]_overlayVars

-----------------------------------------------------------------------------
(***************************************************************************)
(* Properties                                                              *)
(***************************************************************************)
\* What every `expect` in the transaction calls relies on.  The maps move in
\* lockstep: all have the depth, the mode and the protected transactions of the
\* top map, also one that was spawned between two of them, and in the runtime no
\* protected transaction is missing.  In each, a key has one version for every
\* open transaction that wrote it and at most one below them (see OverlayedMap).
VersionsMatchDirty ==
  /\ \A a \in Present : /\ VersionsMatch(areas[a])
                        /\ Depth(areas[a]) = Depth(TopMap)
                        /\ areas[a].client = TopMap.client
                        /\ areas[a].mode = TopMap.mode
  /\ TopMap.mode = "runtime" => TopMap.client <= Depth(TopMap)

(***************************************************************************)
(* The views the maps stand for: what each transaction sees of every area. *)
(***************************************************************************)
ViewAt(m, i) ==
  [k \in Key |->
     LET n == VersionsUpTo(m, k, i)
     IN  IF n = 0 THEN Unknown
         ELSE [ value |-> m.changes[k][n].value,
                by    |-> UNION {m.changes[k][j].extrinsics : j \in 1 .. n} ]]

Views ==
  [i \in 1 .. Depth(TopMap) + 1 |->
     [a \in Area |-> IF areas[a] = None THEN [k \in Key |-> Unknown] ELSE ViewAt(areas[a], i - 1)]]
=============================================================================
