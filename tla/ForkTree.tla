------------------------------ MODULE ForkTree ------------------------------
(***************************************************************************)
(* The fork tree as it is: vectors of nodes with vectors of children       *)
(* (utils/fork-tree/src/lib.rs).  A node is its block and its children; a  *)
(* tree is its roots and best, the best finalized number, -1 for none.     *)
(* Predicates on the data of nodes are sets of blocks.                     *)
(***************************************************************************)
EXTENDS ForkNodes, SequencesExt

EmptyTree == [roots |-> <<>>, best |-> -1]
Leaf(b) == [block |-> b, children |-> <<>>]

\* swap_remove: the last element takes the place of the one removed.
SwapRemove(s, i) == SubSeq([s EXCEPT ![i] = Last(s)], 1, Len(s) - 1)
Positions(roots, b) == {k \in DOMAIN roots : roots[k].block = b}

\* The nodes in pre-order.
RECURSIVE PreOrder(_)
PreOrder(roots) == FlattenSeq([k \in DOMAIN roots |-> <<roots[k]>> \o PreOrder(roots[k].children)])

-----------------------------------------------------------------------------
(***************************************************************************)
(* rebalance: siblings are sorted by the depth of their branches.          *)
(***************************************************************************)
RECURSIVE MaxDepth(_)
MaxDepth(node) ==
  1 + Max({0} \cup {MaxDepth(node.children[k]) : k \in DOMAIN node.children})

ByDepth(roots) ==
  LET depths == {MaxDepth(roots[k]) : k \in DOMAIN roots}
      sorted == SetToSortSeq(depths, >)
  IN  FlattenSeq([d \in DOMAIN sorted |-> SelectSeq(roots, LAMBDA n : MaxDepth(n) = sorted[d])])

RECURSIVE Rebalance(_)
Rebalance(roots) ==
  LET sorted == ByDepth(roots)
  IN  [k \in DOMAIN sorted |-> [sorted[k] EXCEPT !.children = Rebalance(@)]]

-----------------------------------------------------------------------------
(***************************************************************************)
(* import: the first sibling that takes b, or has it, decides.             *)
(***************************************************************************)
RECURSIVE ImportNode(_, _)
ImportAmong(siblings, b) ==
  LET tried == [k \in DOMAIN siblings |-> ImportNode(siblings[k], b)]
      found == {k \in DOMAIN siblings : tried[k].result # "other"}
  IN  IF found = {} THEN [result |-> "other", siblings |-> siblings]
      ELSE [result |-> tried[Min(found)].result,
            siblings |-> [siblings EXCEPT ![Min(found)] = tried[Min(found)].node]]

ImportNode(node, b) ==
  LET below == ImportAmong(node.children, b)
      child == [node EXCEPT !.children = Append(@, Leaf(b))]
  IN  CASE node.block = b -> [result |-> "Duplicate", node |-> node]
        [] node.block # b /\ Number[b] <= Number[node.block] -> [result |-> "other", node |-> node]
        [] OTHER ->
             CASE below.result # "other" ->
                    [result |-> below.result, node |-> [node EXCEPT !.children = below.siblings]]
               [] below.result = "other" /\ IsDescendentOf(node.block, b) ->
                    [result |-> "child", node |-> child]
               [] OTHER -> [result |-> "other", node |-> node]

ImportTree(tree, b) ==
  LET among == ImportAmong(tree.roots, b)
  IN  CASE Number[b] <= tree.best -> [result |-> "Revert", tree |-> tree]
        [] Number[b] > tree.best /\ among.result = "Duplicate" -> [result |-> "Duplicate", tree |-> tree]
        [] Number[b] > tree.best /\ among.result = "child" ->
             [result |-> "child", tree |-> [tree EXCEPT !.roots = Rebalance(among.siblings)]]
        [] Number[b] > tree.best /\ among.result = "other" ->
             [result |-> "root", tree |-> [tree EXCEPT !.roots = Rebalance(Append(@, Leaf(b)))]]

-----------------------------------------------------------------------------
(***************************************************************************)
(* Finalization                                                            *)
(***************************************************************************)
FinalizeRootAt(tree, i) ==
  [roots |-> tree.roots[i].children, best |-> Number[tree.roots[i].block]]

\* finalize_root: unchanged if b is not a root.
FinalizeRoot(tree, b) ==
  IF Positions(tree.roots, b) = {} THEN tree ELSE FinalizeRootAt(tree, Min(Positions(tree.roots, b)))

\* The loop of finalize_with_ancestors, from the root at idx on.
\* (mutant) the node that takes the place of a removed one is not looked at
RECURSIVE OpenAncestorsSkipping(_, _, _)
OpenAncestorsSkipping(tree, b, idx) ==
  LET root == tree.roots[idx]
      rest == SwapRemove(tree.roots, idx)
  IN  IF idx > Len(tree.roots) THEN [tree EXCEPT !.best = Number[b]]
      ELSE IF root.block = b THEN FinalizeRootAt(tree, idx)
      ELSE IF IsDescendentOf(b, root.block) THEN OpenAncestorsSkipping(tree, b, idx + 1)
      ELSE IF IsDescendentOf(root.block, b)
           THEN OpenAncestorsSkipping([tree EXCEPT !.roots = rest \o root.children], b, idx + 1)
      ELSE OpenAncestorsSkipping([tree EXCEPT !.roots = rest], b, idx + 1)
RECURSIVE OpenAncestors(_, _, _)
OpenAncestors(tree, b, idx) ==
  LET root == tree.roots[idx]
      rest == SwapRemove(tree.roots, idx)
  IN  IF idx > Len(tree.roots) THEN [tree EXCEPT !.best = Number[b]]
      ELSE IF root.block = b THEN FinalizeRootAt(tree, idx)
      ELSE IF IsDescendentOf(b, root.block) THEN OpenAncestors(tree, b, idx + 1)
      ELSE IF IsDescendentOf(root.block, b)
           THEN OpenAncestors([tree EXCEPT !.roots = rest \o root.children], b, idx)
      ELSE OpenAncestors([tree EXCEPT !.roots = rest], b, idx)

FinalizeWithAncestors(tree, b) ==
  CASE Number[b] <= tree.best -> tree
    [] Number[b] > tree.best /\ Positions(tree.roots, b) # {} -> FinalizeRoot(tree, b)
    [] OTHER -> OpenAncestors(tree, b, 1)

PastChild(node, b) ==
  \E k \in DOMAIN node.children :
    Number[node.children[k].block] <= Number[b] /\ IsDescendentOf(node.children[k].block, b)

FinalizesAnyWithDescendentIf(tree, b, passing) ==
  LET nodes == PreOrder(tree.roots)
      found == {k \in DOMAIN nodes : nodes[k].block \in passing /\ OnBranch(nodes[k].block, b)}
  IN  CASE Number[b] <= tree.best -> "error"
        [] Number[b] > tree.best /\ found = {} -> "none"
        [] OTHER -> IF PastChild(nodes[Min(found)], b) THEN "error"
                    ELSE IF Positions(tree.roots, nodes[Min(found)].block) # {} THEN "root" ELSE "inner"

FinalizeWithDescendentIf(tree, b, passing) ==
  LET found == {k \in DOMAIN tree.roots : tree.roots[k].block \in passing /\ OnBranch(tree.roots[k].block, b)}
      left  == IF found = {} THEN tree.roots ELSE tree.roots[Min(found)].children
      stays(r) == \/ Number[r] > Number[b] /\ IsDescendentOf(b, r)
                  \/ r = b \/ IsDescendentOf(r, b)
      kept  == SelectSeq(left, LAMBDA n : stays(n.block))
  IN  [ok |-> Number[b] > tree.best /\ (found # {} => ~PastChild(tree.roots[Min(found)], b)),
       final |-> IF found = {} THEN {} ELSE {tree.roots[Min(found)].block},
       tree |-> [roots |-> kept, best |-> Number[b]],
       changed |-> found # {} \/ kept # left]

-----------------------------------------------------------------------------
(***************************************************************************)
(* Search and pruning.  The outcome of a search is the path of indices to  *)
(* the node, or whether b was a descendent.                                *)
(***************************************************************************)
RECURSIVE FindNodeIndexWhere(_, _, _)
FindNodeIndexWhere(node, b, passing) ==
  LET tried == [k \in DOMAIN node.children |-> FindNodeIndexWhere(node.children[k], b, passing)]
      ends  == {k \in DOMAIN tried : tried[k].found \/ tried[k].descendent}
      known == ends # {} \/ IsDescendentOf(node.block, b)
  IN  IF Number[b] < Number[node.block] THEN [found |-> FALSE, descendent |-> FALSE]
      ELSE IF ends # {} /\ tried[Min(ends)].found
           THEN [found |-> TRUE, path |-> <<Min(ends)>> \o tried[Min(ends)].path]
      ELSE IF known /\ node.block \in passing THEN [found |-> TRUE, path |-> <<>>]
      ELSE [found |-> FALSE, descendent |-> known]

RECURSIVE NodeAt(_, _)
NodeAt(node, path) ==
  IF path = <<>> THEN node ELSE NodeAt(node.children[Head(path)], Tail(path))

\* The node find_node_where returns, in a sequence.
FindNodeWhere(tree, b, passing) ==
  LET tried == [k \in DOMAIN tree.roots |-> FindNodeIndexWhere(tree.roots[k], b, passing)]
      found == {k \in DOMAIN tried : tried[k].found}
  IN  IF found = {} THEN <<>> ELSE <<NodeAt(tree.roots[Min(found)], tried[Min(found)].path)>>

\* At most one child of the new root stays.
Prune(tree, b, passing) ==
  LET new == FindNodeWhere(tree, b, passing)
      stays(c) == c = b \/ (Number[c] < Number[b] /\ IsDescendentOf(c, b))
      kept(cs) == {k \in DOMAIN cs : stays(cs[k].block)}
      root(n) == [n EXCEPT !.children = IF kept(@) = {} THEN <<>> ELSE <<@[Min(kept(@))]>>]
  IN  [tree EXCEPT !.roots = Rebalance(IF new = <<>> THEN @ ELSE <<root(new[1])>>)]
=============================================================================
