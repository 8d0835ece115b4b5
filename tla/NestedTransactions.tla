------------------------- MODULE NestedTransactions -------------------------
(***************************************************************************)
(* What storage with nested transactions promises: a stack of views, each  *)
(* a full map from keys to entries, of which every access sees the top.    *)
(* Starting a transaction copies the top, rolling back drops it, and       *)
(* committing puts it in the place of the one below.                       *)
(***************************************************************************)
EXTENDS Integers, Sequences

CONSTANTS
  Area,      \* the key spaces: top storage, child storages, offchain storage
  Tracked,   \* the areas whose writes record their extrinsic
  Key, Value,
  Deleted,   \* the value of a removed key
  Unknown,   \* no entry: a read goes to the back end
  Extrinsic, \* extrinsic indices
  MaxDepth   \* bound on open transactions

VARIABLES
  stack,   \* views, the committed one first
  client,  \* transactions that were open when the runtime was entered
  mode     \* "client" or "runtime"

nestedVars == <<stack, client, mode>>

\* The extrinsic a write records, if any.
At(a) == {{}} \cup {{e} : e \in IF a \in Tracked THEN Extrinsic ELSE {}}
Top == stack[Len(stack)]
OpenTransactions == Len(stack) - 1
WithTop(view) == [stack EXCEPT ![Len(stack)] = view]

EmptyStack == <<[a \in Area |-> [k \in Key |-> Unknown]]>>

\* What the transaction calls do to a stack of views.
Started(s) == Append(s, s[Len(s)])
RolledBack(s) == SubSeq(s, 1, Len(s) - 1)
Committed(s) == Append(SubSeq(s, 1, Len(s) - 2), s[Len(s)])
Exited(s, n) == SubSeq(s, 1, n + 1)

\* A written key remembers all extrinsics that wrote it.
Entry(old, value, at) ==
  [value |-> value, by |-> IF old = Unknown THEN at ELSE old.by \cup at]

Write(a, k, value, at) ==
  /\ UNCHANGED <<client, mode>>
  /\ stack' = WithTop([Top EXCEPT ![a][k] = Entry(@, value, at)])

\* Only keys with an entry are marked as removed.
Clear(a, keys, at) ==
  LET view == Top
  IN  /\ UNCHANGED <<client, mode>>
      /\ stack' = WithTop([view EXCEPT ![a] =
                     [k \in Key |-> IF k \in keys /\ view[a][k] # Unknown
                                    THEN Entry(view[a][k], Deleted, at) ELSE view[a][k]]])

Start ==
  /\ OpenTransactions < MaxDepth
  /\ stack' = Started(stack)
  /\ UNCHANGED <<client, mode>>

\* The runtime closes only what was started after it was entered.
Closable == OpenTransactions > IF mode = "runtime" THEN client ELSE 0

Rollback ==
  /\ Closable
  /\ stack' = RolledBack(stack)
  /\ UNCHANGED <<client, mode>>

Commit ==
  /\ Closable
  /\ stack' = Committed(stack)
  /\ UNCHANGED <<client, mode>>

Enter ==
  /\ mode = "client"
  /\ mode' = "runtime"
  /\ client' = OpenTransactions
  /\ UNCHANGED stack

\* What the runtime did not close is rolled back.
Exit ==
  /\ mode = "runtime"
  /\ mode' = "client"
  /\ stack' = Exited(stack, client)
  /\ UNCHANGED client

\* The committed changes are handed over and an empty overlay remains.
Drain ==
  /\ OpenTransactions = 0
  /\ stack' = EmptyStack
  /\ client' = 0
  /\ mode' = "client"

NestedInit ==
  /\ stack = EmptyStack
  /\ client = 0
  /\ mode = "client"

NestedNext ==
  \/ Start
  \/ Rollback
  \/ Commit
  \/ Enter
  \/ Exit
  \/ Drain
  \/ \E a \in Area : \E k \in Key, value \in Value \cup {Deleted}, at \in At(a) : Write(a, k, value, at)
  \/ \E a \in Area : \E keys \in SUBSET Key, at \in At(a) : Clear(a, keys, at)

NestedSpec == NestedInit /\ [][NestedNext]_nestedVars
=============================================================================
