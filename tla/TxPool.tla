------------------------------- MODULE TxPool -------------------------------
(***************************************************************************)
(* The transaction pool of a full node                                     *)
(* (client/transaction-pool/src: lib.rs, revalidation.rs, graph/pool.rs,   *)
(* graph/validated_pool.rs, graph/rotator.rs, graph/listener.rs), with the *)
(* block author that reads it (client/basic-authorship).                   *)
(*                                                                         *)
(* Four tasks share the pool and run between each other's accesses to it:  *)
(* submissions, the maintenance run for every new best block, the          *)
(* revalidation worker, and the author. One step is one call that locks    *)
(* the queues, with the news of it to the watchers. Validation is the      *)
(* runtime's: a transaction is stale once a tag it provides was applied on *)
(* the chain of the block it is validated at, and requires the tags not    *)
(* applied there yet, the way account nonces work.                         *)
(***************************************************************************)
EXTENDS BasePool

CONSTANTS
  Block, Genesis,
  Parent,          \* [Block -> Block], Genesis its own
  Body,            \* [Block -> SUBSET Tx]
  Requires,        \* [Tx -> SUBSET Tag]
  Longevity,       \* [Tx -> Nat]
  Scenarios,       \* records of blocks, those that reach the node, submits, a bound
                   \* on the submissions, final, the blocks that may be finalized,
                   \* unclear, pairs <<block, tx>> the runtime answers Unknown for,
                   \* and author, whether the node is one
  Watched,         \* transactions submitted over RPC with a watcher
  MaxFinality      \* MAX_FINALITY_WATCHERS

VARIABLES
  vp,       \* ValidatedPool: [pool, banned, watch, finality]
  scenario,
  best,     \* the client's best block
  final,    \* and its last finalized one
  events,   \* notifications of best blocks the pool has not handled yet
  finals,   \* finalized blocks it has not been told of; either queue may be read first
  job,      \* the maintenance under way
  flight,   \* the submission under way, None or what verify_one returned
  worker,   \* RevalidationWorker: [inbox, number, members, batch]
  author,   \* None, or a proposal: [applied, iterator, failed]
  submits,  \* number of submissions
  late,     \* history: put in the pool by a submission or the worker with the
            \* result of a block that was no longer the best one, and not
            \* queued for revalidation since
  aged,     \* history: put in the pool by a validation at a block that more
            \* than two prunings followed
  missed    \* history: tags of a block that was pruned without them, as the
            \* runtime did not know the extrinsic at the parent, and that no block
            \* was pruned with since

chainVars == <<best, final, events, finals>>
vars == <<vp, scenario, best, final, events, finals, job, flight, worker, author, submits, late, aged, missed>>

-----------------------------------------------------------------------------
(***************************************************************************)
(* The chain and the runtime                                               *)
(***************************************************************************)
Chain ==
  LET up[n \in Nat, b \in Block] == IF n = 0 THEN {b} ELSE {b} \cup up[n - 1, Parent[b]]
  IN  [b \in Block |-> up[Cardinality(Block), b]]
Number == [b \in Block |-> Cardinality(Chain[b]) - 1]
Applied == [b \in Block |-> UNION {Provides[t] : t \in UNION {Body[c] : c \in Chain[b]}}]

\* verify_one after check_is_known, and ValidatedTransaction::valid_at
Validate(b, t) ==
  [ tx |-> t,
    kind |-> IF <<b, t>> \in scenario.unclear THEN "unknown"
             ELSE IF Provides[t] \cap Applied[b] # {} THEN "invalid" ELSE "valid",
    requires |-> Requires[t] \ Applied[b],
    till |-> Number[b] + Longevity[t] ]

\* check_is_known
Known(v, t, ignoreBanned) == (t \in v.banned /\ ~ignoreBanned) \/ IsImported(v.pool, t)

VerifyOne(v, b, t, ignoreBanned) ==
  IF Known(v, t, ignoreBanned) THEN [Validate(b, t) EXCEPT !.kind = "known"]
  ELSE Validate(b, t)

Verify(v, b, txs, ignoreBanned) == {VerifyOne(v, b, t, ignoreBanned) : t \in txs}

-----------------------------------------------------------------------------
(***************************************************************************)
(* Listener. watch[t] is None without a watcher, else what it was told     *)
(* last: <<"created">>, <<"future">>, <<"ready">>, <<"inblock", b>>,       *)
(* <<"retracted">>. finality_watchers is a sequence of [block, txs].       *)
(***************************************************************************)
Tell(v, txs, status) ==
  [v EXCEPT !.watch = [t \in Tx |-> IF t \in txs /\ v.watch[t] # None THEN status
                                    ELSE v.watch[t]]]

\* usurped, dropped, invalid, finalized: the watcher is done and removed.
Close(v, txs) == Tell(v, txs, None)

FinalityOf(v, b) ==
  UNION {v.finality[i].txs : i \in {j \in DOMAIN v.finality : v.finality[j].block = b}}
ForgetBlock(v, b) == [v EXCEPT !.finality = SelectSeq(@, LAMBDA e : e.block # b)]

RECURSIVE TimeOut(_)
TimeOut(v) ==
  IF Len(v.finality) <= MaxFinality THEN v
  ELSE TimeOut([Close(v, Head(v.finality).txs) EXCEPT !.finality = Tail(@)])

Pruned(v, b, txs) ==
  LET told == Tell(v, txs, <<"inblock", b>>)
      listed == \E i \in DOMAIN v.finality : v.finality[i].block = b
      join(e) == IF e.block = b THEN [e EXCEPT !.txs = @ \cup txs] ELSE e
  IN  IF txs = {} THEN v
      ELSE TimeOut([told EXCEPT !.finality =
                      IF listed THEN [i \in DOMAIN @ |-> join(@[i])]
                      ELSE Append(@, [block |-> b, txs |-> txs])])

\* Mutant of Retracted: the watchers are forgotten untold.
RetractedUntold(v, b) == ForgetBlock(v, b)

Retracted(v, b) == ForgetBlock(Tell(v, FinalityOf(v, b), <<"retracted">>), b)
Finalized(v, b) == ForgetBlock(Close(v, FinalityOf(v, b)), b)

\* fire_events
FireEvents(v, t, i) ==
  IF i.ready
  THEN Tell(Close(Close(Tell(v, {t}, <<"ready">>), i.failed), i.removed), i.promoted, <<"ready">>)
  ELSE Tell(v, {t}, <<"future">>)

-----------------------------------------------------------------------------
(***************************************************************************)
(* ValidatedPool                                                           *)
(***************************************************************************)
Ban(v, txs) == [v EXCEPT !.banned = @ \cup txs]

\* ValidatedPool::submit_one
SubmitOne(v, r) ==
  CASE r.kind = "valid" ->
         {IF i.ok THEN [v |-> FireEvents([v EXCEPT !.pool = i.pool], r.tx, i), ok |-> TRUE]
          ELSE [v |-> [v EXCEPT !.pool = i.pool], ok |-> FALSE] : i \in Import(v.pool, r)}
    [] r.kind = "unknown" -> {[v |-> Close(v, {r.tx}), ok |-> FALSE]}
    [] OTHER -> {[v |-> Ban(v, {r.tx}), ok |-> FALSE]}

\* ValidatedPool::enforce_limits
Limit(v) ==
  LET p == EnforceLimits(v.pool)
      gone == (Ready(v.pool) \cup Future(v.pool)) \ (Ready(p) \cup Future(p))
  IN  Close(Ban([v EXCEPT !.pool = p], gone), gone)

\* ValidatedPool::submit: what is left of it, the results and whether one was
\* imported. verify returned a hash map, so the order is any.
Submission(rs) == [results |-> rs, any |-> FALSE]
Submitted(s) == s.results = {} /\ ~s.any

SubmitStep(v, s) ==
  IF s.results = {} THEN {[v |-> Limit(v), s |-> Submission({})]}
  ELSE UNION {{[v |-> o.v, s |-> [results |-> s.results \ {r}, any |-> s.any \/ o.ok]] :
                 o \in SubmitOne(v, r)} : r \in s.results}

\* ValidatedPool::submit_and_watch; a watcher of a failed submission is dropped.
WatchStep(v, s, t) ==
  LET watched == [v EXCEPT !.watch[t] = IF @ = None THEN <<"created">> ELSE @]
  IN  IF \E r \in s.results : r.kind = "unknown" THEN {[v |-> v, s |-> Submission({})]}
      ELSE {[o EXCEPT !.v.watch[t] = IF @ = <<"created">> THEN None ELSE @] :
              o \in SubmitStep(watched, s)}

RemoveInvalid(v, txs) ==
  LET p == RemoveSubtree(v.pool, txs)
      gone == (Ready(v.pool) \cup Future(v.pool)) \ (Ready(p) \cup Future(p))
  IN  Close(Ban([v EXCEPT !.pool = p], txs), gone)

\* clear_stale: ready ones are found through the iterator. Bans end some time.
ClearStale(v, b) ==
  LET ready == {t \in Range(BestIterator(v.pool)) : v.pool.ready[t].till <= Number[b]}
      future == {t \in Future(v.pool) : v.pool.future[t].till <= Number[b]}
      w == RemoveInvalid(RemoveInvalid(v, ready), future)
  IN  {[w EXCEPT !.banned = kept] : kept \in {w.banned, {}}}

\* Pool::prune: the tags of what is in the pool, and of what the runtime knows at
\* the parent.
Answers(b, t) == Validate(Parent[b], t).kind = "valid"
TagsToPrune(v, b) ==
  UNION {Provides[t] : t \in {u \in Body[b] : IsImported(v.pool, u) \/ Answers(b, u)}}

\* ValidatedPool::prune_tags, then the ban and verify of Pool::prune_tags
PruneBlock(v, b, tags) ==
  {LET w == Ban(Close(Tell(Close(Close([v EXCEPT !.pool = s.pool], s.invalid), s.usurped),
                           s.promoted, <<"ready">>), s.dropped), Body[b])
   IN  [v |-> w, pruned |-> s.pruned, results |-> Verify(w, b, s.pruned, FALSE)] :
     s \in PruneTags(v.pool, tags)}

\* The end of resubmit_pruned. The results come in the order of a hash map, so that
\* the pruned_hashes[idx] of an InvalidTransaction may be any of them.
FirePruned(v, b, pruned, stale) ==
  UNION {ClearStale(Pruned(v, b, told \cup Body[b]), b) :
           told \in {S \in SUBSET pruned : Cardinality(S) = stale}}

RECURSIVE ImportEach(_, _, _)
ImportEach(p, rs, ends) ==
  IF rs = {} THEN {<<p, ends>>} ELSE
  UNION {LET set(f, S, x) == [t \in DOMAIN f \cup S |-> IF t \in S THEN x ELSE f[t]]
             after(i) == IF ~i.ok THEN set(ends, {r.tx}, "failed")
                         ELSE IF ~i.ready THEN set(ends, {r.tx}, "future")
                         ELSE set(set(set(ends, {r.tx} \cup i.promoted, "ready"),
                                      i.failed, "failed"), i.removed, "dropped")
         IN  UNION {ImportEach(i.pool, rs \ {r}, after(i)) : i \in Import(p, r)} : r \in rs}

\* ValidatedPool::resubmit: what it removes counts as having been ready; what
\* has no new result goes back with the one it has.
Resubmit(v, updated) ==
  LET roots == {r.tx : r \in updated}
      p == RemoveSubtree(v.pool, roots)
      gone == (Ready(v.pool) \cup Future(v.pool)) \ (Ready(p) \cup Future(p))
      fresh == {r \in updated : r.tx \in gone}
      kept == {[tx |-> t, kind |-> "valid", requires |-> v.pool.ready[t].requires,
                till |-> v.pool.ready[t].till] : t \in gone \ roots}
      told(w, ends) == LET is(x) == {t \in DOMAIN ends : ends[t] = x}
                        IN  Tell(Tell(Close(w, is("dropped") \cup is("failed")),
                                      is("future"), <<"future">>),
                                 is("ready") \ gone, <<"ready">>)
  IN  {told([v EXCEPT !.pool = o[1]], o[2]) : o \in ImportEach(p, fresh \cup kept, [t \in {} |-> ""])}

-----------------------------------------------------------------------------
(***************************************************************************)
(* Submissions                                                             *)
(***************************************************************************)
Idle == [ stage |-> "idle", hash |-> Genesis, retracted |-> {}, enacted |-> {},
          todo |-> {}, busy |-> {}, submission |-> Submission({}) ]

Init ==
  /\ vp = [pool |-> EmptyPool, banned |-> {}, watch |-> [t \in Tx |-> None], finality |-> <<>>]
  /\ scenario \in Scenarios
  /\ best = Genesis /\ final = Genesis
  /\ events = <<>> /\ finals = <<>>
  /\ job = Idle
  /\ flight = None
  /\ worker = [inbox |-> <<>>, number |-> 0, members |-> {}, batch |-> None, age |-> 0]
  /\ author = None
  /\ submits = 0
  /\ late = {}
  /\ aged = {}
  /\ missed = {}

\* History only: how many prunings ago, 3 standing for more than two.
Older(age) == IF age = 3 THEN 3 ELSE age + 1
Aged(rs, age) ==
  LET new == {r.tx : r \in {q \in rs : q.kind = "valid"}}
  IN  (aged \ new) \cup {t \in new : age > 2}

\* Pool::submit_one, submit_and_watch up to the validation
SubmitVerify(t) ==
  /\ flight = None /\ submits < scenario.submits
  /\ flight' = [at |-> best, age |-> 0, tx |-> t,
                submission |-> Submission({VerifyOne(vp, best, t, FALSE)})]
  /\ submits' = submits + 1
  /\ UNCHANGED <<scenario, vp, chainVars, job, worker, author, late, aged, missed>>

\* ... and from its result on: the import, then the limits.
SubmitImport ==
  /\ flight # None
  /\ LET t == flight.tx
         s == flight.submission
         new == ~IsImported(vp.pool, t) /\ s.results # {}
     IN  \E o \in IF t \in Watched THEN WatchStep(vp, s, t) ELSE SubmitStep(vp, s) :
           /\ vp' = o.v
           /\ flight' = IF Submitted(o.s) THEN None ELSE [flight EXCEPT !.submission = o.s]
           /\ late' = IF new /\ IsImported(o.v.pool, t) /\ flight.at # best
                      THEN late \cup {t} ELSE late
           /\ aged' = IF new THEN Aged(s.results, flight.age) ELSE aged
  /\ UNCHANGED <<scenario, chainVars, job, worker, author, submits, missed>>

-----------------------------------------------------------------------------
(***************************************************************************)
(* The client's notifications                                              *)
(***************************************************************************)
\* A longer chain that has the final block becomes the best one. The tree route
\* goes from the old best block to the parent of the new one, and there is none
\* to a child.
NewBest(b) ==
  /\ b \in scenario.blocks
  /\ Number[b] > Number[best] /\ final \in Chain[b]
  /\ events' = Append(events, [ hash |-> b, retracted |-> Chain[best] \ Chain[b],
                                enacted |-> Chain[Parent[b]] \ Chain[best] ])
  /\ best' = b
  /\ UNCHANGED <<scenario, vp, final, finals, job, flight, worker, author, submits, late, aged, missed>>

\* A block of the best chain becomes final, and with it those below, which are
\* notified in order (apply_finality_with_block_hash).
Finalize(b) ==
  /\ b \in (Chain[best] \ Chain[final]) \cap scenario.final
  /\ final' = b
  /\ finals' = finals \o SetToSortSeq(Chain[b] \ Chain[final], LAMBDA c, d : Number[c] < Number[d])
  /\ UNCHANGED <<scenario, vp, best, events, job, flight, worker, author, submits, late, aged, missed>>

-----------------------------------------------------------------------------
(***************************************************************************)
(* maintain, one event at a time                                           *)
(***************************************************************************)
RECURSIVE RetractAll(_, _)
RetractAll(v, bs) ==
  IF bs = {} THEN v
  ELSE LET b == CHOOSE c \in bs : TRUE IN RetractAll(Retracted(v, b), bs \ {b})

MaintainFinalized ==
  /\ job.stage = "idle" /\ finals # <<>>
  /\ vp' = Finalized(vp, Head(finals))
  /\ finals' = Tail(finals)
  /\ UNCHANGED <<scenario, best, final, events, job, flight, worker, author, submits, late, aged, missed>>

MaintainStart ==
  /\ job.stage = "idle" /\ events # <<>>
  /\ LET e == Head(events)
     IN  /\ vp' = RetractAll(vp, e.retracted)
         /\ job' = [Idle EXCEPT !.stage = "enacted", !.hash = e.hash, !.retracted = e.retracted,
                                !.enacted = e.enacted, !.todo = e.enacted]
  /\ events' = Tail(events)
  /\ UNCHANGED <<scenario, best, final, finals, flight, worker, author, submits, late, aged, missed>>

\* prune_known_txs_for_block up to the answers of the runtime
PruneStart(b) ==
  /\ b \in job.todo
  /\ job' = [job EXCEPT !.todo = @ \ {b},
                        !.busy = @ \cup {[block |-> b, stage |-> "tags", age |-> 0,
                                          tags |-> TagsToPrune(vp, b)]}]
  /\ UNCHANGED <<scenario, vp, chainVars, flight, worker, author, submits, late, aged, missed>>

\* ... up to the validation of what was pruned
PruneBody(p) ==
  /\ p \in job.busy /\ p.stage = "tags"
  /\ \E o \in PruneBlock(vp, p.block, p.tags) :
       /\ vp' = o.v
       /\ job' = [job EXCEPT !.busy =
                    {[q EXCEPT !.age = Older(@)] : q \in @ \ {p}} \cup
                    {[block |-> p.block, stage |-> "pruned", age |-> 0, pruned |-> o.pruned,
                      stale |-> Cardinality({r \in o.results : r.kind = "invalid"}),
                      submission |-> Submission(o.results)]}]
  /\ missed' = (missed \cup UNION {Provides[t] : t \in Body[p.block]}) \ p.tags
  /\ flight' = IF flight = None THEN None ELSE [flight EXCEPT !.age = Older(@)]
  /\ worker' = [worker EXCEPT !.age = Older(@),
                              !.inbox = [i \in DOMAIN @ |-> [@[i] EXCEPT !.age = Older(@)]]]
  /\ UNCHANGED <<scenario, chainVars, author, submits, late, aged>>

\* resubmit_pruned: the results, one at a time, and the limits,
PruneSubmit(p) ==
  /\ p \in job.busy /\ p.stage = "pruned" /\ ~Submitted(p.submission)
  /\ \E o \in SubmitStep(vp, p.submission) :
       /\ vp' = o.v
       /\ job' = [job EXCEPT !.busy = (@ \ {p}) \cup {[p EXCEPT !.submission = o.s]}]
       /\ aged' = Aged(p.submission.results \ o.s.results, p.age)
  /\ UNCHANGED <<scenario, chainVars, flight, worker, author, submits, late, missed>>

\* then fire_pruned and clear_stale.
PruneEnd(p) ==
  /\ p \in job.busy /\ p.stage = "pruned" /\ Submitted(p.submission)
  /\ vp' \in FirePruned(vp, p.block, p.pruned, p.stale)
  /\ job' = [job EXCEPT !.busy = @ \ {p}]
  /\ UNCHANGED <<scenario, chainVars, flight, worker, author, submits, late, aged, missed>>

\* All enacted blocks are joined before the new best one is pruned.
PruneBest ==
  /\ job.stage = "enacted" /\ job.todo = {} /\ job.busy = {}
  /\ job' = [job EXCEPT !.stage = "best", !.todo = {job.hash}]
  /\ UNCHANGED <<scenario, vp, chainVars, flight, worker, author, submits, late, aged, missed>>

\* The transactions of retracted blocks that no enacted block has
ResubmitRetracted ==
  /\ job.stage = "best" /\ job.todo = {} /\ job.busy = {}
  /\ LET log == UNION {Body[b] : b \in job.enacted \cup {job.hash}}
         txs == UNION {Body[b] : b \in job.retracted} \ log
     IN  job' = [job EXCEPT !.stage = "resubmit",
                            !.submission = Submission(Verify(vp, job.hash, txs, TRUE))]
  /\ UNCHANGED <<scenario, vp, chainVars, flight, worker, author, submits, late, aged, missed>>

\* The submit of resubmit_at
MaintainSubmit ==
  /\ job.stage = "resubmit" /\ ~Submitted(job.submission)
  /\ \E o \in SubmitStep(vp, job.submission) :
       /\ vp' = o.v
       /\ job' = [job EXCEPT !.submission = o.s]
       /\ aged' = Aged(job.submission.results \ o.s.results, 0)
  /\ UNCHANGED <<scenario, chainVars, flight, worker, author, submits, late, missed>>

\* Mutant of MaintainEnd: nothing is queued for revalidation.
MaintainEndQuiet ==
  /\ job.stage = "resubmit" /\ Submitted(job.submission)
  /\ late' = late \ Range(BestIterator(vp.pool))
  /\ job' = Idle
  /\ UNCHANGED <<scenario, vp, chainVars, flight, worker, author, submits, aged, missed>>

\* The ready transactions go to the revalidation queue.
MaintainEnd ==
  /\ job.stage = "resubmit" /\ Submitted(job.submission)
  /\ LET ready == Range(BestIterator(vp.pool))
     IN  /\ worker' = [worker EXCEPT !.inbox = Append(@, [ number |-> Number[job.hash],
                                                            txs |-> ready, age |-> 0 ])]
         /\ late' = late \ ready
  /\ job' = Idle
  /\ UNCHANGED <<scenario, vp, chainVars, flight, author, submits, aged, missed>>

-----------------------------------------------------------------------------
(***************************************************************************)
(* RevalidationWorker                                                      *)
(***************************************************************************)
WorkerReceive ==
  /\ worker.batch = None /\ worker.inbox # <<>>
  /\ worker' = [worker EXCEPT !.inbox = Tail(@), !.number = Head(worker.inbox).number,
                              !.age = Head(worker.inbox).age,
                              !.members = @ \cup Head(worker.inbox).txs]
  /\ UNCHANGED <<scenario, vp, chainVars, job, flight, author, submits, late, aged, missed>>

\* prepare_batch (the members fit in one batch) and the start of
\* batch_revalidate: at a block number, which the best chain resolves.
WorkerBatch ==
  /\ worker.batch = None /\ worker.members # {}
  /\ LET at == CHOOSE b \in Chain[best] : Number[b] = worker.number
         txs == worker.members \cap Ready(vp.pool)
     IN  worker' = [worker EXCEPT !.members = {}, !.batch = [at |-> at, results |-> {Validate(at, t) : t \in txs}]]
  /\ UNCHANGED <<scenario, vp, chainVars, job, flight, author, submits, late, aged, missed>>

\* ... and its end, remove_invalid and then resubmit. Unknown results are skipped.
Of(kind) == {r \in worker.batch.results : r.kind = kind}

WorkerRemove ==
  /\ worker.batch # None /\ Of("invalid") # {}
  /\ vp' = RemoveInvalid(vp, {r.tx : r \in Of("invalid")})
  /\ worker' = [worker EXCEPT !.batch.results = @ \ Of("invalid")]
  /\ UNCHANGED <<scenario, chainVars, job, flight, author, submits, late, aged, missed>>

WorkerResubmit ==
  /\ worker.batch # None /\ Of("invalid") = {}
  /\ LET old == IF worker.batch.at = best THEN {} ELSE {r.tx : r \in Of("valid")}
         queued == worker.members \cup UNION {worker.inbox[i].txs : i \in DOMAIN worker.inbox}
     IN  /\ vp' \in Resubmit(vp, Of("valid"))
         /\ late' = late \cup ((old \ queued) \cap Ready(vp'.pool))
  /\ worker' = [worker EXCEPT !.batch = None]
  /\ aged' = Aged(Of("valid"), worker.age)
  /\ UNCHANGED <<scenario, chainVars, job, flight, author, submits, missed>>

-----------------------------------------------------------------------------
(***************************************************************************)
(* Proposer::propose_with                                                  *)
(***************************************************************************)
\* The author builds on the best block from what the iterator returns,
ProposeStart ==
  /\ author = None /\ scenario.author
  /\ vp.pool.best # {}
  /\ author' = [applied |-> Applied[best], iterator |-> Iterator(vp.pool), failed |-> {}]
  /\ UNCHANGED <<scenario, vp, chainVars, job, flight, worker, submits, late, aged, missed>>

ProposePush ==
  /\ author # None
  /\ author.iterator.best \cap Ready(vp.pool) # {}
  /\ LET t == IteratorNext(vp.pool, author.iterator)
         good == Provides[t] \cap author.applied = {} /\ Requires[t] \subseteq author.applied
     IN  author' = [ applied |-> author.applied \cup (IF good THEN Provides[t] ELSE {}),
                     iterator |-> IteratorAfter(vp.pool, author.iterator),
                     failed |-> author.failed \cup (IF good THEN {} ELSE {t}) ]
  /\ UNCHANGED <<scenario, vp, chainVars, job, flight, worker, submits, late, aged, missed>>

\* until a deadline, and removes what did not apply, as unqueue_invalid.
ProposeEnd ==
  /\ author # None
  /\ vp' = RemoveInvalid(vp, author.failed)
  /\ author' = None
  /\ UNCHANGED <<scenario, chainVars, job, flight, worker, submits, late, aged, missed>>

Next ==
  \/ \E t \in Tx : SubmitVerify(t)
  \/ SubmitImport
  \/ \E b \in Block : NewBest(b)
  \/ \E b \in Block : Finalize(b)
  \/ MaintainFinalized
  \/ MaintainStart
  \/ \E b \in job.todo : PruneStart(b)
  \/ \E p \in job.busy : PruneBody(p)
  \/ \E p \in job.busy : PruneSubmit(p)
  \/ \E p \in job.busy : PruneEnd(p)
  \/ PruneBest
  \/ ResubmitRetracted
  \/ MaintainSubmit
  \/ MaintainEnd
  \/ WorkerReceive
  \/ WorkerBatch
  \/ WorkerRemove
  \/ WorkerResubmit
  \/ ProposeStart
  \/ ProposePush
  \/ ProposeEnd

Spec == Init /\ [][Next]_vars

-----------------------------------------------------------------------------
(***************************************************************************)
(* Properties                                                              *)
(***************************************************************************)
\* The two queues agree with their indexes whatever tasks interleave: what lists
\* a queue in order lists its transactions, each once; a tag is provided by the
\* one ready transaction that says so (HASH_READY, and the assertion of
\* ReadyTransactions::prune_tags); no transaction is in both queues; and a future
\* transaction waits for at least one tag, each of which no ready transaction
\* provides (import_to_ready takes it over otherwise).
QueuesConsistent ==
  LET p == vp.pool
  IN  /\ Range(p.order) = Ready(p) /\ IsInjective(p.order)
      /\ Range(p.waiting) = Future(p) /\ IsInjective(p.waiting)
      /\ \A g \in Tag, t \in Tx : p.provided[g] = t <=> t \in Ready(p) /\ g \in Provides[t]
      /\ Ready(p) \cap Future(p) = {}
      /\ p.best \subseteq Ready(p)
      /\ \A t \in Future(p) : /\ p.future[t].missing # {}
                              /\ \A g \in p.future[t].missing : p.provided[g] = None

\* No task is under way and nothing is left to do.
Quiet ==
  /\ events = <<>> /\ finals = <<>> /\ job = Idle /\ flight = None /\ author = None
  /\ worker.inbox = <<>> /\ worker.members = {} /\ worker.batch = None

\* The order ReadyTransactions::get promises: each transaction after those of
\* the queue that provide what it requires at block b.
Ordered(b, queue) ==
  \A i \in DOMAIN queue : Requires[queue[i]] \subseteq
    Applied[b] \cup UNION {Provides[queue[j]] : j \in 1..(i - 1)}

\* Once the pool is quiet it fits the best block: pruning, resubmission of
\* retracted transactions, submissions and revalidation, in any interleaving, leave
\* nothing of the chain or of a lost fork behind.
\* - Every ready transaction is still valid at the best block.
\* - The iterator returns each of them, once, in an order they can be applied.
\* - A transaction waits in the future queue only while a tag it requires has not
\*   been applied, also when a block applied it during the validation, for which
\*   recently_pruned covers two prunings (aged are validated earlier than that). It
\*   does wait, for good, for a tag whose block was pruned without it (missed).
\* The ready queue may lag behind for transactions that came in with a result from
\* an older block after the last revalidation was queued (late).
QuietPool ==
  Quiet =>
    /\ \A t \in Ready(vp.pool) \ late : Validate(best, t).kind # "invalid"
    /\ LET queue == BestIterator(vp.pool)
       IN  late = {} => /\ Range(queue) = Ready(vp.pool) /\ IsInjective(queue)
                        /\ Ordered(best, queue)
    /\ \A t \in Future(vp.pool) \ aged : ~(Requires[t] \subseteq Applied[best] \ missed)

\* A watcher told InBlock is registered for the finality, the retraction or the
\* timeout of that block, and when every notification was handled that block is on
\* the best chain. Then a watcher of a transaction that is in a block of the best
\* chain, and not in the pool, was told of that block last, also when the block it
\* was in before was retracted in the same reorganisation (late ones came back
\* into the pool after that, and resubmit_pruned may report another in their place).
InBlockTracked ==
  /\ \A t \in Tx, b \in Block : vp.watch[t] = <<"inblock", b>> =>
       /\ t \in FinalityOf(vp, b)
       /\ events = <<>> => b \in Chain[best]
  /\ events = <<>> /\ job = Idle =>
       \A b \in Chain[best] : \A t \in Body[b] \ late :
          vp.watch[t] = None \/ IsImported(vp.pool, t) \/ vp.watch[t] = <<"inblock", b>>

\* What ReadyTransactions::get says of its order (graph/ready.rs): "never return
\* transaction that requires a tag, which was not provided by one of the
\* previously returned transactions", taken of the tags the best block does not
\* have, once its maintenance is over. A transaction whose requirement was
\* pruned with a block stays in `best` after that block was retracted and its
\* transactions were resubmitted, until it is revalidated.
IteratorOrdered ==
  events = <<>> /\ job = Idle /\ late = {} => Ordered(best, BestIterator(vp.pool))

\* What TransactionStatus::InBlock says (transaction-pool/api/src/lib.rs):
\* "Transaction has been included in block with given hash". resubmit_pruned
\* fires it for a transaction that lost its place to another one of the block.
InBlockIncluded ==
  \A t \in Tx, b \in Block : vp.watch[t] = <<"inblock", b>> => t \in Body[b]
=============================================================================
