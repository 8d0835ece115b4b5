----------------------------- MODULE RuntimeApi -----------------------------
(***************************************************************************)
(* Calls into the runtime: the runtime API object                          *)
(* (primitives/api/proc-macro/src/impl_runtime_apis.rs), the state machine *)
(* that runs a call natively, in wasm or both                              *)
(* (primitives/state-machine/src/lib.rs) and the externalities the runtime *)
(* works with (primitives/state-machine/src/ext.rs), on top of the overlay *)
(* of OverlayedChanges, here by its specification NestedTransactions.      *)
(*                                                                         *)
(* Each layer opens transactions of its own and closes them without        *)
(* looking: the API around a call, the state machine around a native run   *)
(* that may be repeated, the runtime wherever it likes.  A storage root    *)
(* computed on the way is cached with the back end transaction it made.    *)
(***************************************************************************)
EXTENDS NestedTransactions

CONSTANTS
  None,
  Err,
  Ok,          \* the values a successful call may return
  Strategy,    \* execution strategies in use
  MaxNested    \* bound on nested uses of execute_in_transaction

VARIABLES
  cache,           \* storage_transaction_cache: None or the changes it was made of
  commitOnSuccess, \* commit_on_success
  nested,          \* uses of execute_in_transaction in progress
  call,            \* the call in progress or None
  returned,        \* the result of the last call
  recorder         \* whether record_proof was called when the object was made

apiVars == <<nestedVars, cache, commitOnSuccess, nested, call, returned, recorder>>

Result == Ok \cup {Err}

\* What a view of the storage and a call in progress look like.
View == [Area -> [Key -> [value : Value \cup {Deleted}, by : SUBSET Extrinsic] \cup {Unknown}]]
Call == [strategy : Strategy, native : Result \cup {None}, depth : Nat, view : View]

\* None stands for an absent option, so it is neither a result nor a call.
ASSUME NoneIsAbsent == None \notin Result /\ None \notin Call

\* The changes that go into the back end transaction.
MainChanges == [a \in Tracked |-> Top[a]]

ApiInit ==
  /\ NestedInit
  /\ cache = None
  /\ commitOnSuccess = TRUE
  /\ nested = 0
  /\ call = None
  /\ returned = None
  /\ recorder \in BOOLEAN

-----------------------------------------------------------------------------
(***************************************************************************)
(* The state machine                                                       *)
(***************************************************************************)
\* The strategies that start a transaction around their first run.
Guarded(strategy) == strategy \in {"Both", "NativeElseWasm"}

\* The cache an execution works with: one of its own if a proof is recorded.
RunCache == IF recorder THEN None ELSE cache

\* execute_aux up to the call of the executor.
EnterWith(s) ==
  /\ stack' = s
  /\ client' = Len(s) - 1
  /\ mode' = "runtime"
  /\ cache' = RunCache

\* Whether a native run with this result is thrown away and repeated in wasm.
RunsAgain(strategy, result) ==
  \/ strategy = "Both"
  \/ strategy = "NativeElseWasm" /\ result = Err

\* The result if a native run was followed by one in wasm.  The handler of the
\* strategy Both takes the one of wasm if they disagree.
Chosen(strategy, native, wasm) ==
  IF strategy = "Both" /\ native = wasm THEN native ELSE wasm

\* commit_or_rollback of the API object.
CommitOrRollback(s, commit) ==
  IF ~commitOnSuccess THEN s
  ELSE IF commit THEN Committed(s) ELSE RolledBack(s)

-----------------------------------------------------------------------------
(***************************************************************************)
(* The API object                                                          *)
(***************************************************************************)
CallApiAt(strategy) ==
  /\ call = None
  /\ LET own == IF commitOnSuccess THEN Started(stack) ELSE stack
     IN  EnterWith(IF Guarded(strategy) THEN Started(own) ELSE own)
  /\ call' = [strategy |-> strategy, native |-> None, depth |-> OpenTransactions, view |-> Top]
  /\ UNCHANGED <<commitOnSuccess, nested, returned, recorder>>

\* The executor returns from a native run that is not kept.
\* Mutant: its changes are committed.
RepeatInWasmCommitted(result) ==
  /\ mode = "runtime"
  /\ call.native = None
  /\ RunsAgain(call.strategy, result)
  /\ EnterWith(Committed(Exited(stack, client)))
  /\ call' = [call EXCEPT !.native = result]
  /\ UNCHANGED <<commitOnSuccess, nested, returned, recorder>>
RepeatInWasm(result) ==
  /\ mode = "runtime"
  /\ call.native = None
  /\ RunsAgain(call.strategy, result)
  /\ EnterWith(RolledBack(Exited(stack, client)))
  /\ call' = [call EXCEPT !.native = result]
  /\ UNCHANGED <<commitOnSuccess, nested, returned, recorder>>

\* The executor returns from the run that is kept; the call is over.
Return(result, wasNative) ==
  /\ mode = "runtime"
  /\ wasNative => /\ call.native = None
                  /\ call.strategy # "AlwaysWasm"
                  /\ ~RunsAgain(call.strategy, result)
  /\ LET exited == Exited(stack, client)
         first  == call.native = None
         ours   == IF Guarded(call.strategy) /\ first THEN Committed(exited) ELSE exited
     IN  /\ returned' = IF first THEN result ELSE Chosen(call.strategy, call.native, result)
         /\ stack' = CommitOrRollback(ours, returned' # Err)
  /\ mode' = "client"
  /\ cache' = RunCache
  /\ call' = None
  /\ UNCHANGED <<client, commitOnSuccess, nested, recorder>>

\* execute_in_transaction, its start and its end, between which calls are made.
\* Mutant: no transaction is started.
ExecuteInTransactionUnmarked ==
  /\ call = None
  /\ nested < MaxNested
  /\ nested' = nested + 1
  /\ commitOnSuccess' = FALSE
  /\ UNCHANGED <<nestedVars, cache, call, returned, recorder>>
ExecuteInTransaction ==
  /\ call = None
  /\ nested < MaxNested
  /\ nested' = nested + 1
  /\ stack' = Started(stack)
  /\ commitOnSuccess' = FALSE
  /\ UNCHANGED <<client, mode, cache, call, returned, recorder>>

TransactionOutcome(commit) ==
  /\ call = None
  /\ nested > 0
  /\ nested' = nested - 1
  /\ commitOnSuccess' = TRUE
  /\ stack' = IF commit THEN Committed(stack) ELSE RolledBack(stack)
  /\ UNCHANGED <<client, mode, cache, call, returned, recorder>>

IntoStorageChanges ==
  /\ call = None
  /\ Drain
  /\ cache' = None
  /\ UNCHANGED <<commitOnSuccess, nested, call, returned, recorder>>

-----------------------------------------------------------------------------
(***************************************************************************)
(* What the runtime does through its externalities                         *)
(***************************************************************************)
RuntimeUnchanged == UNCHANGED <<commitOnSuccess, nested, call, returned, recorder>>

\* place_storage and the other writes, all of which call mark_dirty.
PlaceStorage(a, k, value) ==
  /\ mode = "runtime"
  /\ cache' = None
  /\ Write(a, k, value, {})
  /\ RuntimeUnchanged

\* storage_root computes the root of the changes unless one is cached.
StorageRoot ==
  /\ mode = "runtime"
  /\ cache' = IF cache = None THEN MainChanges ELSE cache
  /\ UNCHANGED nestedVars
  /\ RuntimeUnchanged

StorageStartTransaction ==
  /\ mode = "runtime"
  /\ Start
  /\ UNCHANGED cache
  /\ RuntimeUnchanged

\* mark_dirty comes first, whether there is something to roll back or not.
\* Mutant: the cache survives.
StorageRollbackTransactionClean ==
  /\ mode = "runtime"
  /\ Rollback
  /\ UNCHANGED cache
  /\ RuntimeUnchanged
StorageRollbackTransaction ==
  /\ mode = "runtime"
  /\ cache' = None
  /\ IF Closable THEN Rollback ELSE UNCHANGED nestedVars
  /\ RuntimeUnchanged

StorageCommitTransaction ==
  /\ mode = "runtime"
  /\ Commit
  /\ UNCHANGED cache
  /\ RuntimeUnchanged

ApiNext ==
  \/ \E strategy \in Strategy : CallApiAt(strategy)
  \/ \E result \in Result : RepeatInWasm(result)
  \/ \E result \in Result, wasNative \in BOOLEAN : Return(result, wasNative)
  \/ ExecuteInTransaction
  \/ \E commit \in BOOLEAN : TransactionOutcome(commit)
  \/ IntoStorageChanges
  \/ \E a \in Area, k \in Key, value \in Value : PlaceStorage(a, k, value)
  \/ StorageRoot
  \/ StorageStartTransaction
  \/ StorageRollbackTransaction
  \/ StorageCommitTransaction

ApiSpec == ApiInit /\ [][ApiNext]_apiVars

-----------------------------------------------------------------------------
(***************************************************************************)
(* Properties                                                              *)
(***************************************************************************)
\* "We only close a transaction when we opened one ourself", the proof all three
\* layers give for closing blindly: the transactions open between two calls are
\* those of execute_in_transaction, and a run starts on top of those of the call
\* it belongs to and can not get below them.
TransactionsBalanced ==
  /\ call = None => OpenTransactions = nested /\ mode = "client"
  /\ call # None =>
       /\ mode = "runtime"
       /\ call.depth = nested
       /\ client = call.depth + (IF commitOnSuccess THEN 1 ELSE 0)
                     + (IF Guarded(call.strategy) /\ call.native = None THEN 1 ELSE 0)
       /\ OpenTransactions >= client

Finishes == call # None /\ call' = None

\* A run that failed, or was repeated, leaves no trace, whatever was written or
\* left open before: the wasm run after a native one sees the storage the native
\* one saw, and commit_or_rollback restores the view of before the call.
FailedRunLeavesNoTrace ==
  [][\/ Finishes /\ returned' = Err /\ commitOnSuccess
     \/ call # None /\ call' # None /\ call'.native # call.native
       => stack'[Len(stack')] = call.view]_apiVars

\* A cached storage root is the one of the changes as they are, so that
\* into_storage_changes hands out a transaction with all changes.
CacheFresh == cache # None => cache = MainChanges
=============================================================================
