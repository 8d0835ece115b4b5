------------------------------ MODULE MCTxPool ------------------------------
(***************************************************************************)
(* The nonces of one account, a0 and then a1 or its replacement x1, on two *)
(* forks.                                                                  *)
(***************************************************************************)
EXTENDS TxPool

CONSTANTS a0, a1, x1, A, B, g, b1, d1, d2, c1, c2, e2

MCTx == {a0, a1, x1}
MCTag == {A, B}
MCProvides == (a0 :> {A}) @@ (a1 :> {B}) @@ (x1 :> {B})
MCRequires == (a0 :> {}) @@ (a1 :> {A}) @@ (x1 :> {A})
MCPriority == (a0 :> 1) @@ (a1 :> 2) @@ (x1 :> 3)
MCLongevity == (a0 :> 10) @@ (a1 :> 10) @@ (x1 :> 2)
MCBlock == {g, b1, d1, d2, c1, c2, e2}
MCParent ==
  (g :> g) @@ (b1 :> g) @@ (d1 :> g) @@ (d2 :> d1) @@ (c1 :> g) @@ (c2 :> c1) @@ (e2 :> c1)
MCBody ==
  (g :> {}) @@ (b1 :> {a0, x1}) @@ (d1 :> {a0}) @@ (d2 :> {a1})
  @@ (c1 :> {}) @@ (c2 :> {a0}) @@ (e2 :> {})

Scenario(blocks, n) ==
  [blocks |-> blocks, submits |-> n, final |-> {}, unclear |-> {}, author |-> FALSE]

MCScenarios ==
  { \* a1 loses its place to x1 in a block, and a0 is in a block of both branches
    [Scenario({b1, c1, c2}, 3) EXCEPT !.unclear = {<<c1, a1>>}],
    \* the same, and b1 becomes final
    [Scenario({b1, c1, c2}, 2) EXCEPT !.final = {b1}],
    \* the blocks of one branch, more than there are finality watchers, become final
    [Scenario({d1, d2}, 2) EXCEPT !.final = {d1, d2}],
    \* what a0 makes ready on one branch it does not on the other
    Scenario({d1, c1, e2}, 2),
    \* the same with an author
    [Scenario({d1, c1}, 3) EXCEPT !.author = TRUE],
    \* the runtime cannot say which tags a0 provides when its block is pruned
    [Scenario({d1, c1, c2}, 2) EXCEPT !.unclear = {<<g, a0>>}] }
MCWatched == {a0, a1}
=============================================================================
