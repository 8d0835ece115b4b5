---------------------------- MODULE OverlayedMap ----------------------------
(***************************************************************************)
(* A set of changes with nested transactions                               *)
(* (primitives/state-machine/src/overlayed_changes/changeset.rs,           *)
(* OverlayedMap), as operators on a record:                                *)
(*                                                                         *)
(*   changes  the versions of every key, the last one current, <<>> for a  *)
(*            key without an entry; a version has the value and the set of *)
(*            extrinsics that wrote it                                     *)
(*   dirty    dirty_keys: per open transaction the keys written in it      *)
(*   client   num_client_transactions                                      *)
(*   mode     execution_mode                                               *)
(*                                                                         *)
(* Nothing records which transaction a version belongs to: the code infers *)
(* it from the dirty sets.                                                 *)
(***************************************************************************)
EXTENDS Integers, Sequences, FiniteSets

CONSTANTS
  Key,
  Deleted  \* the value None of a removed key

EmptyMap == [ changes |-> [k \in Key |-> <<>>],
              dirty   |-> <<>>,
              client  |-> 0,
              mode    |-> "client" ]

Depth(m) == Len(m.dirty)

IsEmpty(m) == \A k \in Key : m.changes[k] = <<>>

\* The depth of the child must match that of the parent it joins.
SpawnChild(m) ==
  [m EXCEPT !.changes = EmptyMap.changes, !.dirty = [i \in DOMAIN m.dirty |-> {}]]

-----------------------------------------------------------------------------
(***************************************************************************)
(* Writes                                                                  *)
(***************************************************************************)
\* insert_dirty: whether this is the first write to k in an open transaction.
FirstWrite(m, k) == Depth(m) > 0 /\ k \notin m.dirty[Depth(m)]

MarkDirty(m, keys) ==
  IF Depth(m) = 0 THEN m.dirty ELSE [m.dirty EXCEPT ![Depth(m)] = @ \cup keys]

\* OverlayedEntry::set; at is the extrinsic of the write, {} if not collected.
Written(versions, first, value, at) ==
  IF first \/ versions = <<>>
  THEN Append(versions, [value |-> value, extrinsics |-> at])
  ELSE [versions EXCEPT ![Len(versions)].value = value,
                        ![Len(versions)].extrinsics = @ \cup at]

Set(m, k, value, at) ==
  [m EXCEPT !.changes[k] = Written(@, FirstWrite(m, k), value, at),
            !.dirty = MarkDirty(m, {k})]

\* modify, and the caller's assignment through the reference it returns.  A
\* further write in the same transaction does not record its extrinsic.
Modify(m, k, value, at) ==
  LET first == FirstWrite(m, k)
      fresh == first \/ m.changes[k] = <<>>
  IN  [m EXCEPT !.changes[k] = Written(@, first, value, IF fresh THEN at ELSE {}),
                !.dirty = MarkDirty(m, {k})]

\* clear_where with a predicate that holds for keys.
ClearWhere(m, keys, at) ==
  LET cleared == {k \in keys : m.changes[k] # <<>>}
  IN  [m EXCEPT !.changes = [k \in Key |-> IF k \in cleared
                                           THEN Written(m.changes[k], FirstWrite(m, k), Deleted, at)
                                           ELSE m.changes[k]],
                !.dirty = MarkDirty(m, cleared)]

-----------------------------------------------------------------------------
(***************************************************************************)
(* Transactions                                                            *)
(***************************************************************************)
Started(m) == [m EXCEPT !.dirty = Append(@, {})]

HasOpenRuntimeTransactions(m) == Depth(m) > m.client

\* Whether close_transaction succeeds.
CanClose(m) == Depth(m) > 0 /\ (m.mode = "runtime" => HasOpenRuntimeTransactions(m))

Last(s) == s[Len(s)]
Front(s) == SubSeq(s, 1, Len(s) - 1)

RolledBack(m) ==
  [m EXCEPT !.changes = [k \in Key |-> IF k \in Last(m.dirty)
                                       THEN Front(m.changes[k]) ELSE m.changes[k]],
            !.dirty = Front(@)]

\* The last version replaces the one before it, whose extrinsics it joins.
\* Mutant: the extrinsics of the one before are forgotten.
MergedForgets(versions) ==
  LET n == Len(versions) IN Append(SubSeq(versions, 1, n - 2), versions[n])
Merged(versions) ==
  LET n == Len(versions)
  IN  Append(SubSeq(versions, 1, n - 2),
             [ value      |-> versions[n].value,
               extrinsics |-> versions[n - 1].extrinsics \cup versions[n].extrinsics ])

\* Whether the enclosing transaction wrote k or, if there is none, whether k
\* has a committed value.
\* Mutant: the committed value is not considered.
HasPredecessorOuter(m, k) == Depth(m) > 1 /\ k \in m.dirty[Depth(m) - 1]
HasPredecessor(m, k) ==
  IF Depth(m) > 1 THEN k \in m.dirty[Depth(m) - 1] ELSE Len(m.changes[k]) > 1

Committed(m) ==
  LET written == Last(m.dirty)
      outer   == Front(m.dirty)
  IN  [m EXCEPT !.changes = [k \in Key |-> IF k \in written /\ HasPredecessor(m, k)
                                           THEN Merged(m.changes[k]) ELSE m.changes[k]],
                !.dirty = IF outer = <<>> THEN <<>>
                          ELSE [outer EXCEPT ![Len(outer)] = @ \cup written]]

Entered(m) == [m EXCEPT !.mode = "runtime", !.client = Depth(m)]

\* exit_runtime: the transactions the runtime left open are rolled back, the
\* innermost first.  A key loses one version for each of them that wrote it.
Exited(m) ==
  LET dangling(k) == Cardinality({i \in m.client + 1 .. Depth(m) : k \in m.dirty[i]})
  IN  [m EXCEPT !.mode = "client",
                !.changes = [k \in Key |-> SubSeq(m.changes[k], 1, Len(m.changes[k]) - dangling(k))],
                !.dirty = SubSeq(@, 1, m.client)]

-----------------------------------------------------------------------------
(***************************************************************************)
(* What the map means: the versions of k that belong to the committed      *)
(* changes or to the first i transactions, and the view they give.         *)
(***************************************************************************)
Writers(m, k, i) == Cardinality({j \in 1 .. i : k \in m.dirty[j]})
VersionsUpTo(m, k, i) == (Len(m.changes[k]) - Writers(m, k, Depth(m))) + Writers(m, k, i)

\* The proof in the code, "A write to an OverlayedValue is recorded in the dirty
\* key set": a key has one version for each transaction that wrote it and at
\* most one more, the committed one.  Otherwise pop_transaction would panic or
\* take a version that belongs to another transaction.
VersionsMatch(m) ==
  \A k \in Key : Len(m.changes[k]) - Writers(m, k, Depth(m)) \in {0, 1}
=============================================================================
