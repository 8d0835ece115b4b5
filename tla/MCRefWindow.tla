---------------------------- MODULE MCRefWindow ----------------------------
(***************************************************************************)
(* Instances of RefWindow for TLC, and the record-by-record replay of the  *)
(* pruning journal that its Restart summarises.                            *)
(***************************************************************************)
EXTENDS RefWindowHistory, SequencesExt

\* RefWindow::new as the loop it is: the records from LAST_PRUNED + 1 on are
\* imported one after the other into an empty window.
Replay(d) ==
  LET first == FirstUnpruned(d)
      records == [i \in 1 .. JournalEnd(d) - first |-> d.journal[first + i - 1]]
      step(w, r) ==
        [ rows  |-> ImportedRows(w.rows, w.index, w.end, r.hash, r.inserted, r.deleted),
          index |-> ImportedIndex(w.index, w.end, r.inserted, r.deleted),
          end   |-> w.end + 1 ]
  IN  FoldLeft(step, [rows |-> [n \in {} |-> None], index |-> [k \in Key |-> None],
                      end |-> first], records)

\* Importing the journal one record at a time, as RefWindow::new does, builds
\* exactly the rows and the index that Restart installs.
ReplayMatches ==
  LET w == Replay(disk)
  IN  w.rows = RestoredRows(disk) /\ w.index = RestoredIndex(RestoredRows(disk))

=============================================================================
