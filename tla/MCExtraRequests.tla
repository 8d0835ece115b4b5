-------------------------- MODULE MCExtraRequests --------------------------
(***************************************************************************)
(* Instances of ExtraRequests: a chain with a fork at its first block and  *)
(* one at genesis.                                                         *)
(***************************************************************************)
EXTENDS ExtraRequests

CONSTANTS g, a1, a2, b2, c1, c2, a3, p1, p2

MCParent == (a1 :> g) @@ (a2 :> a1) @@ (b2 :> a1) @@ (c1 :> g) @@ (c2 :> c1) @@ (a3 :> a2)
MCNumber == (g :> 0) @@ (a1 :> 1) @@ (a2 :> 2) @@ (b2 :> 2) @@ (c1 :> 1) @@ (c2 :> 2) @@ (a3 :> 3)
MCAbove == (g :> {}) @@ (a1 :> {g}) @@ (a2 :> {a1, g}) @@ (b2 :> {a1, g}) @@ (c1 :> {g}) @@ (c2 :> {c1, g})
           @@ (a3 :> {a2, a1, g})
Sym == Permutations(Peer)
=============================================================================
