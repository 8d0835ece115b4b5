-------------------------- MODULE MCGrandpaImport --------------------------
(***************************************************************************)
(* Two branches that part after a1, and five assignments of digests to     *)
(* them.  As the GRANDPA pallet guarantees (frame/grandpa, schedule_change *)
(* fails while a change is pending), no branch signals a change before the *)
(* one below it is effective.                                              *)
(***************************************************************************)
EXTENDS GrandpaImport, TLC

CONSTANTS g, a1, a2, a3, b2, b3

MCBlock == {g, a1, a2, a3, b2, b3}
MCParent == (a1 :> g) @@ (a2 :> a1) @@ (a3 :> a2) @@ (b2 :> a1) @@ (b3 :> b2)
MCAbove == (g :> {}) @@ (a1 :> {g}) @@ (a2 :> {g, a1}) @@ (a3 :> {g, a1, a2})
           @@ (b2 :> {g, a1}) @@ (b3 :> {g, a1, b2})
MCNumber == (g :> 0) @@ (a1 :> 1) @@ (a2 :> 2) @@ (a3 :> 3) @@ (b2 :> 2) @@ (b3 :> 3)

Standard(d) == [kind |-> "standard", delay |-> d, median |-> 0]
Forced(d, m) == [kind |-> "forced", delay |-> d, median |-> m]
Digests(f) == f @@ [b \in MCBlock |-> None]

MCScenarios ==
  { \* a change that both branches share, then one on each
    [signal |-> Digests((a1 :> Standard(1)) @@ (a3 :> Standard(0)) @@ (b3 :> Standard(0))),
     tip |-> a3],
    \* changes in successive blocks
    [signal |-> Digests((a1 :> Standard(0)) @@ (a2 :> Standard(0)) @@ (b2 :> Standard(1))),
     tip |-> a3],
    \* forced changes on both branches, one that depends on a standard change
    [signal |-> Digests((a1 :> Standard(0)) @@ (a2 :> Forced(1, 1)) @@ (b2 :> Forced(1, 0))),
     tip |-> a3],
    \* a forced change before the branches part
    [signal |-> Digests((a1 :> Forced(1, 0)) @@ (a3 :> Standard(0)) @@ (b3 :> Standard(0))),
     tip |-> b3],
    \* a forced change on the branch that finality leaves
    [signal |-> Digests((b2 :> Forced(0, 0)) @@ (a3 :> Standard(0))), tip |-> a3] }
=============================================================================
