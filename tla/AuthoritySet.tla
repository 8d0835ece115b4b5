---------------------------- MODULE AuthoritySet ----------------------------
(***************************************************************************)
(* The GRANDPA authority set with its pending changes                      *)
(* (client/finality-grandpa/src/authorities.rs) over the fork tree that    *)
(* holds the standard changes (utils/fork-tree/src/lib.rs).                *)
(*                                                                         *)
(* A change is identified with the block that signals it.  The fork tree   *)
(* is the set of its nodes (ForkNodes).  The sorted list of forced changes *)
(* is a set too: at most one of them is on a branch.  Authorities are      *)
(* named by the change that appointed them.                                *)
(***************************************************************************)
EXTENDS ForkNodes, Sequences

CONSTANT None

VARIABLE
  signal    \* the change in each block's digest, None or [kind, delay, median]

Signal == [kind : {"standard", "forced"}, delay : Nat, median : Nat]

\* What an authority set looks like.
SetState ==
  [id : Nat, authorities : Block, standard : SUBSET Block, bestFinalized : Int,
   forced : SUBSET Block, changes : Seq(Nat \X Nat)]

ASSUME NoneIsNoSet == None \notin SetState
ASSUME NoneIsNoSignal == None \notin Signal

EffectiveNumber(c) == Number[c] + signal[c].delay

-----------------------------------------------------------------------------
(***************************************************************************)
(* The fork tree of pending standard changes                               *)
(***************************************************************************)
\* best_finalized_number, -1 until something was finalized.
Reverts(s, b) == Number[b] <= s.bestFinalized

EnactsStandardChange(s, b) ==
  IF Reverts(s, b) THEN "error"
  ELSE FinalizesAny(s.standard, b, {c \in s.standard : EffectiveNumber(c) = Number[b]})

Due(s, b) == {c \in s.standard : EffectiveNumber(c) <= Number[b]}

-----------------------------------------------------------------------------
(***************************************************************************)
(* The authority set.  The operations that can fail return a record with   *)
(* the field ok.                                                           *)
(***************************************************************************)
GenesisSet ==
  [id |-> 0, authorities |-> Genesis, standard |-> {}, bestFinalized |-> -1,
   forced |-> {}, changes |-> <<>>]

Failed == [ok |-> FALSE]

CanAddPendingChange(s, c) ==
  IF signal[c].kind = "standard"
  THEN ~Reverts(s, c) /\ c \notin s.standard
  ELSE \A d \in s.forced : ~OnBranch(d, c)

AddPendingChange(s, c) ==
  IF signal[c].kind = "standard"
  THEN [s EXCEPT !.standard = @ \cup {c}]
  ELSE [s EXCEPT !.forced = @ \cup {c}]

CurrentLimits(s, min) ==
  {EffectiveNumber(c) : c \in {r \in Roots(s.standard) : EffectiveNumber(r) >= min}}

ForcedDue(s, b) == {c \in s.forced : EffectiveNumber(c) = Number[b] /\ OnBranch(c, b)}

\* (mutant) a forced change is applied over the standard ones it needs
DependsOnNone(s, c) == FALSE

DependsOnStandard(s, c) ==
  \E r \in Roots(s.standard) :
     EffectiveNumber(r) <= signal[c].median /\ IsDescendentOf(r, c)

ForceChange(s, c) ==
  [id |-> s.id + 1, authorities |-> c, standard |-> {}, bestFinalized |-> -1,
   forced |-> {}, changes |-> Append(s.changes, <<s.id, signal[c].median>>)]

ApplyForcedChanges(s, b) ==
  IF ForcedDue(s, b) = {} THEN [ok |-> TRUE, applied |-> FALSE, set |-> s]
  ELSE LET c == First(ForcedDue(s, b))
       IN IF DependsOnStandard(s, c) THEN Failed
          ELSE [ok |-> TRUE, applied |-> TRUE, set |-> ForceChange(s, c)]

KeptForced(s, b) ==
  {c \in s.forced : EffectiveNumber(c) > Number[b] /\ IsDescendentOf(b, c)}

\* changed: the set has to be written; enacted: the authorities were replaced.
ApplyStandardChanges(s, b) ==
  LET r == FinalizeIf(s.standard, b, Due(s, b))
      pruned == [s EXCEPT !.standard = r.nodes, !.bestFinalized = Number[b],
                          !.forced = IF r.changed THEN KeptForced(s, b) ELSE @]
  IN IF Reverts(s, b) \/ ~r.ok THEN Failed
     ELSE [ok |-> TRUE, changed |-> r.changed, enacted |-> r.final # {},
           set |-> IF r.final = {} THEN pruned
                   ELSE [pruned EXCEPT !.id = @ + 1, !.authorities = First(r.final),
                                       !.changes = Append(@, <<s.id, Number[b]>>)]]
=============================================================================
