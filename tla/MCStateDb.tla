----------------------------- MODULE MCStateDb -----------------------------
(***************************************************************************)
(* Instances of StateDb.  The block tree has a main chain g, a1, a2, a3    *)
(* and a fork b1, b2, b3; along both, nodes disappear and come back.       *)
(***************************************************************************)
EXTENDS StateDb

CONSTANTS g, a1, a2, b1, b2, a3, b3, x, y, z

MCNumber == [b \in Block |-> CASE b = g -> 0 [] b \in {a1, b1} -> 1
                               [] b \in {a2, b2} -> 2 [] b \in {a3, b3} -> 3]
MCParent == [b \in Block |-> CASE b = g -> None [] b \in {a1, b1} -> g
                               [] b = a2 -> a1 [] b = b2 -> b1 [] b = a3 -> a2 [] b = b3 -> b2]
MCStateOf == [b \in Block |-> CASE b = g -> {x, z} [] b = a1 -> {y} [] b = b1 -> {y, z}
                                [] b = a2 -> {x, y} [] b = b2 -> {x, z} [] b = a3 -> {x}
                                [] b = b3 -> {z}]

CONSTANT MaintenanceBlock  \* the blocks imported in the scope "maintenance"
VARIABLE scope

(***************************************************************************)
(* Two scopes, chosen in the initial state.  "readers": the whole tree and *)
(* up to MaxPins references, without the maintenance calls that take       *)
(* blocks out of the overlay.  "maintenance": a smaller tree and at most   *)
(* one reference, with those calls, at most one of which fails between two *)
(* starts of the process.                                                  *)
(***************************************************************************)
MCInit == Init /\ scope \in {"readers", "maintenance"}

MCNext ==
  /\ \/ /\ Overlay!Running
        /\ \/ ImportCall /\ (scope = "maintenance" => parents' \subseteq MaintenanceBlock)
           \/ MaintenanceCall /\ scope = "maintenance" /\ "stale" \notin mishaps
           \/ ReaderCall /\ (scope = "maintenance" => References' <= 1)
     \/ Restart
  /\ UNCHANGED <<mode, scope>>

MCSpec == MCInit /\ [][MCNext]_<<vars, scope>>
=============================================================================
