----------------------------- MODULE ForkNodes -----------------------------
(***************************************************************************)
(* The fork tree (utils/fork-tree/src/lib.rs) as the set of its nodes.     *)
(* The parent of a node is the highest of its ancestors in the set, so the *)
(* nodes say everything but the order of siblings.  ForkTree.tla has the   *)
(* vectors of the code, and ExtraRequests.tla compares the two.            *)
(***************************************************************************)
EXTENDS Integers, FiniteSets

CONSTANTS
  Block,    \* blocks that may be produced
  Genesis,
  Parent,   \* [Block \ {Genesis} -> Block]
  Number,   \* [Block -> Nat]
  Above     \* the ancestors of each block

ASSUME TreeAssumption ==
  /\ Genesis \in Block /\ Parent \in [Block \ {Genesis} -> Block]
  /\ Number \in [Block -> Nat] /\ Above \in [Block -> SUBSET Block]
  /\ Above[Genesis] = {} /\ Number[Genesis] = 0
  /\ \A b \in Block \ {Genesis} :
        /\ Above[b] = {Parent[b]} \cup Above[Parent[b]]
        /\ Number[b] = Number[Parent[b]] + 1

\* Block is a tree: every block is reached from Genesis.
ASSUME ReachedAssumption ==
  \A good \in SUBSET Block :
     Genesis \in good /\ (\A b \in Block \ {Genesis} : Parent[b] \in good => b \in good)
     => good = Block

IsDescendentOf(base, b) == base \in Above[b]
OnBranch(c, b) == c = b \/ IsDescendentOf(c, b)

Roots(nodes) == {c \in nodes : \A d \in nodes : ~IsDescendentOf(d, c)}
Below(nodes, c) == {d \in nodes : IsDescendentOf(c, d)}
Children(nodes, c) == Roots(Below(nodes, c))
First(nodes) == CHOOSE c \in nodes : \A d \in nodes : ~IsDescendentOf(d, c)

FinalizesPastChild(nodes, c, b) ==
  \E d \in Children(nodes, c) : Number[d] <= Number[b] /\ IsDescendentOf(d, b)

\* finalizes_any_with_descendent_if, for a predicate that holds of passing: the
\* first node in pre-order is the lowest of the chain of nodes below b.
FinalizesAny(nodes, b, passing) ==
  LET found == {c \in nodes \cap passing : OnBranch(c, b)}
  IN IF found = {} THEN "none"
     ELSE IF FinalizesPastChild(nodes, First(found), b) THEN "error"
     ELSE IF First(found) \in Roots(nodes) THEN "root" ELSE "inner"

\* (mutant) only nodes above the finalized block stay
RetainedAbove(nodes, b) == {c \in nodes : IsDescendentOf(b, c)}

Retained(nodes, b) ==
  LET stays(r) == IsDescendentOf(b, r) \/ OnBranch(r, b)
  IN {c \in nodes : \E r \in Roots(nodes) : stays(r) /\ OnBranch(r, c)}

\* finalize_with_descendent_if: the root that becomes final, if any, and the nodes
\* that stay.
FinalizeIf(nodes, b, passing) ==
  LET final == {c \in Roots(nodes) \cap passing : OnBranch(c, b)}
      left  == IF final = {} THEN nodes ELSE Below(nodes, First(final))
  IN  [ok |-> \A c \in final : ~FinalizesPastChild(nodes, c, b),
       final |-> final,
       nodes |-> Retained(left, b),
       changed |-> final # {} \/ Retained(left, b) # left]

\* finalize_root and finalize_with_ancestors
Finalized(nodes, b) == Below(nodes, b)

\* find_node_where: the highest node below b for which the predicate holds.
FindNode(nodes, b, passing) ==
  LET found == {c \in nodes \cap passing : IsDescendentOf(c, b)}
  IN  {c \in found : \A d \in found : OnBranch(d, c)}

\* prune: that node, and the branch of b above it.
Pruned(nodes, b, passing) ==
  LET root  == FindNode(nodes, b, passing)
      kept  == {d \in UNION {Children(nodes, c) : c \in root} : OnBranch(d, b)}
  IN  IF root = {} THEN nodes ELSE root \cup kept \cup UNION {Below(nodes, d) : d \in kept}
=============================================================================
