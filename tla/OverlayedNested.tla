-------------------------- MODULE OverlayedNested --------------------------
(***************************************************************************)
(* The maps of OverlayedChanges as an implementation of                    *)
(* NestedTransactions: the views of the open transactions are the stack.   *)
(***************************************************************************)
EXTENDS OverlayedChanges

Nested == INSTANCE NestedTransactions WITH stack <- Views, client <- TopMap.client, mode <- TopMap.mode

\* The versions and dirty sets implement a stack of full views: what a
\* transaction reads, what its rollback restores and what its commit hands to
\* the enclosing one are the same as if every transaction had copied the whole
\* storage, for all areas at once.
ImplementsNested == Nested!NestedSpec
=============================================================================
