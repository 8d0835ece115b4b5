--------------------------- MODULE GrandpaImport ---------------------------
(***************************************************************************)
(* Authority set changes in a node: the import worker                      *)
(* (client/finality-grandpa/src/import.rs), the finalization both the      *)
(* worker and the voter perform (environment.rs, finalize_block), the      *)
(* voter task with its commands (lib.rs, VoterWork) and what survives a    *)
(* crash (aux_schema.rs).                                                  *)
(*                                                                         *)
(* The worker and the voter run in different tasks and share the authority *)
(* set through SharedData: an access waits while the set is locked, and    *)
(* the worker keeps it locked while it writes a block that changes it.     *)
(* The votes of the other authorities are an assumption: they justify only *)
(* ancestors of one tip, and never a block past the next change after the  *)
(* one that appointed them, as the note in finalize_block requires.        *)
(***************************************************************************)
EXTENDS AuthoritySet

CONSTANTS
  Scenarios,  \* set of [signal, tip]: the digests and the tip that finality follows
  Bases       \* bound on the blocks that a round of votes starts from

ASSUME BasesAssumption == Bases \subseteq Block

ASSUME ScenarioAssumption ==
  \A s \in Scenarios : s.signal \in [Block -> Signal \cup {None}]

\* schedule_change of the GRANDPA pallet fails while a change is pending, and
\* on_finalize ends that in the block at the effective number.
ASSUME ApartAssumption ==
  \A s \in Scenarios : \A c, d \in Block :
     s.signal[c] # None /\ s.signal[d] # None /\ IsDescendentOf(c, d) =>
       Number[c] + s.signal[c].delay < Number[d]

VARIABLES
  tip,
  aset,        \* the shared authority set
  locked,      \* SharedDataInner.locked
  chain,       \* the database: [blocks, finalized, aset, state]
  importer,    \* the import worker
  voter,       \* the environment of the voter, its pending command and vote
  voterState,  \* SharedVoterSetState: [id, paused]
  commands     \* voter_commands_rx

vars == <<signal, tip, aset, locked, chain, importer, voter, voterState, commands>>

-----------------------------------------------------------------------------
Idle == [pc |-> "idle"]

SetOf(s) == [id |-> s.id, authorities |-> s.authorities]
Live(set) == [id |-> set.id, paused |-> FALSE]
NoVote == [stage |-> "none"]
NewVoter(set, live) == [set |-> set, live |-> live, command |-> None, vote |-> NoVote]

ChangeAuthorities(s) == [kind |-> "change", set |-> SetOf(s)]
Pause == [kind |-> "pause"]

GrandpaInit ==
  /\ \E s \in Scenarios : signal = s.signal /\ tip = s.tip
  /\ aset = GenesisSet
  /\ locked = FALSE
  /\ chain = [blocks |-> {Genesis}, finalized |-> Genesis, aset |-> GenesisSet,
              state |-> Live(SetOf(GenesisSet))]
  /\ importer = Idle
  /\ voter = NewVoter(SetOf(GenesisSet), TRUE)
  /\ voterState = Live(SetOf(GenesisSet))
  /\ commands = <<>>

\* The changes signalled by b and its ancestors.
Signals(b) == {s \in Above[b] \cup {b} : signal[s] # None}

\* The honest majority of the authorities that change c appointed.  They vote for
\* blocks above the one that signals c; after a forced change they start at its
\* median, the block they take for the last finalized one.
WithinTransition(c, b) ==
  \A s \in Signals(b) :
     s # c /\ (c = Genesis \/ IsDescendentOf(c, s)) => Number[b] <= EffectiveNumber(s)
FromMedian(c, b) ==
  signal[c] # None /\ signal[c].kind = "forced"
  /\ IsDescendentOf(b, c) /\ Number[b] >= signal[c].median
Justifies(c, b) ==
  OnBranch(b, tip) /\ (OnBranch(c, b) \/ FromMedian(c, b)) /\ WithinTransition(c, b)

Appointed == {Genesis} \cup {s \in Block : signal[s] # None}

\* The id of a set is the number of changes up to the one that appointed it,
\* without the standard ones that a forced change discarded.
SetId(c) ==
  Cardinality({s \in Signals(c) :
                 signal[s].kind = "forced"
                 \/ \A f \in Signals(c) :
                      signal[f].kind = "forced" /\ IsDescendentOf(s, f)
                      => EffectiveNumber(s) <= signal[f].median})
Justifications(b) ==
  {[id |-> SetId(c), authorities |-> c] : c \in {d \in Appointed : Justifies(d, b)}}

-----------------------------------------------------------------------------
(***************************************************************************)
(* import_block                                                            *)
(***************************************************************************)
\* make_authorities_changes; an error restores the set and fails the import.
MakeAuthoritiesChanges(b) ==
  LET adds == signal[b] # None
      added == IF adds THEN AddPendingChange(aset, b) ELSE aset
      forced == ApplyForcedChanges(added, b)
      standard == EnactsStandardChange(added, b)
  IN IF adds /\ ~CanAddPendingChange(aset, b) THEN Failed
     ELSE IF ~forced.ok THEN Failed
     ELSE IF forced.applied
          THEN [ok |-> TRUE, set |-> forced.set, changed |-> TRUE, applied |-> "forced"]
     ELSE IF standard = "error" THEN Failed
     ELSE [ok |-> TRUE, set |-> added, changed |-> adds, applied |-> standard]

\* The lock is kept when there is something to restore.
Locks(changed) == changed

ImportBlock(b, j) ==
  LET made == MakeAuthoritiesChanges(b)
  IN /\ importer.pc = "idle"
     /\ ~locked
     /\ b \notin chain.blocks
     /\ Parent[b] \in chain.blocks
     /\ made.ok
     /\ aset' = made.set
     /\ locked' = Locks(made.changed)
     /\ importer' = [pc |-> "importing", block |-> b, justification |-> j,
                     applied |-> made.applied,
                     old |-> IF made.changed THEN aset ELSE None]
     /\ UNCHANGED <<signal, tip, chain, voter, voterState, commands>>

\* (mutant) the voter is not told of a forced change
CommandsOfImportPauseOnly ==
  LET b == importer.block
  IN IF signal[b] # None /\ signal[b].kind = "forced" THEN <<Pause>> ELSE <<>>

\* defuse: the commands, and what is left of the import.
CommandsOfImport ==
  LET b == importer.block
      pauses == signal[b] # None /\ signal[b].kind = "forced"
  IN (IF pauses THEN <<Pause>> ELSE <<>>)
     \o (IF importer.applied = "forced" THEN <<ChangeAuthorities(aset)>> ELSE <<>>)

AfterImport ==
  IF importer.justification = None \/ importer.applied = "inner" THEN Idle
  ELSE [pc |-> "verify", block |-> importer.block,
        justification |-> importer.justification, enacts |-> importer.applied = "root"]

\* The block with its auxiliary data, in one write.
WithBlock ==
  [chain EXCEPT !.blocks = @ \cup {importer.block},
                !.aset = IF importer.old # None THEN aset ELSE @,
                !.state = IF importer.applied = "forced" THEN Live(SetOf(aset)) ELSE @]

BlockImported ==
  /\ importer.pc = "importing"
  /\ Number[importer.block] > Number[chain.finalized]
  /\ chain' = WithBlock
  /\ locked' = FALSE
  /\ commands' = commands \o CommandsOfImport
  /\ importer' = AfterImport
  /\ UNCHANGED <<signal, tip, aset, voter, voterState>>

\* (mutant) the change stays when the block could not be written
KeepOld == aset

RestoreOld == IF importer.old # None THEN importer.old ELSE aset

BlockImportFails ==
  /\ importer.pc = "importing"
  /\ aset' = RestoreOld
  /\ locked' = FALSE
  /\ importer' = Idle
  /\ UNCHANGED <<signal, tip, chain, voter, voterState, commands>>

-----------------------------------------------------------------------------
(***************************************************************************)
(* finalize_block: runs under the lock of the authority set                *)
(***************************************************************************)
Refinalizes(b) == OnBranch(b, chain.finalized)

Finalizable(b) ==
  /\ ~Refinalizes(b)
  /\ ApplyStandardChanges(aset, b).ok
  /\ IsDescendentOf(chain.finalized, b)

FinalizedChain(b) ==
  LET applied == ApplyStandardChanges(aset, b)
  IN [chain EXCEPT !.finalized = b,
                   !.aset = IF applied.changed THEN applied.set ELSE @,
                   !.state = IF applied.enacted THEN Live(SetOf(applied.set)) ELSE @]

Finalize(b) ==
  /\ Finalizable(b)
  /\ aset' = ApplyStandardChanges(aset, b).set
  /\ chain' = FinalizedChain(b)

EnactedBy(b) == ApplyStandardChanges(aset, b).enacted
NewSet(b) == ApplyStandardChanges(aset, b).set

(***************************************************************************)
(* import_justification: with a block, or requested from the peers         *)
(***************************************************************************)
ImportJustification(b, j) ==
  /\ importer.pc = "idle"
  /\ b \in chain.blocks
  /\ importer' = [pc |-> "verify", block |-> b, justification |-> j, enacts |-> FALSE]
  /\ UNCHANGED <<signal, tip, aset, locked, chain, voter, voterState, commands>>

\* set_id() and current_authorities() take the lock one after the other.
ReadSetId ==
  /\ importer.pc = "verify"
  /\ ~locked
  /\ importer' = IF importer.justification.id = aset.id
                 THEN [importer EXCEPT !.pc = "verify authorities"] ELSE Idle
  /\ UNCHANGED <<signal, tip, aset, locked, chain, voter, voterState, commands>>

SignedByCurrent == importer.justification.authorities = aset.authorities

VerifyAuthorities ==
  /\ importer.pc = "verify authorities"
  /\ ~locked
  /\ importer' = IF SignedByCurrent THEN [importer EXCEPT !.pc = "finalize"] ELSE Idle
  /\ UNCHANGED <<signal, tip, aset, locked, chain, voter, voterState, commands>>

JustifiedRefinalizes ==
  /\ importer.pc = "finalize"
  /\ ~locked
  /\ Refinalizes(importer.block)
  /\ importer' = IF importer.enacts THEN [pc |-> "panicked"] ELSE Idle
  /\ UNCHANGED <<signal, tip, aset, locked, chain, voter, voterState, commands>>

JustifiedFinalizes ==
  LET b == importer.block
  IN /\ importer.pc = "finalize"
     /\ ~locked
     /\ Finalize(b)
     /\ commands' = IF EnactedBy(b) THEN Append(commands, ChangeAuthorities(NewSet(b)))
                    ELSE commands
     /\ importer' = IF importer.enacts /\ ~EnactedBy(b) THEN [pc |-> "panicked"] ELSE Idle
     /\ UNCHANGED <<signal, tip, locked, voter, voterState>>

\* An error of apply_standard_changes, of the client or of the database.
RestoreSet(b) == aset

JustifiedFails ==
  /\ importer.pc = "finalize"
  /\ ~locked
  /\ ~Refinalizes(importer.block)
  /\ aset' = RestoreSet(importer.block)
  /\ importer' = Idle
  /\ UNCHANGED <<signal, tip, locked, chain, voter, voterState, commands>>

-----------------------------------------------------------------------------
(***************************************************************************)
(* The voter task.  An error of the voter ends the node: Restart.          *)
(***************************************************************************)
Voting == voter.live /\ voter.command = None

VoterFinalizes(b) ==
  /\ Voting
  /\ ~locked
  /\ b \in chain.blocks
  /\ Justifies(voter.set.authorities, b)
  /\ Finalize(b)
  /\ voter' = [voter EXCEPT !.command = IF EnactedBy(b) THEN ChangeAuthorities(NewSet(b))
                                        ELSE None]
  /\ UNCHANGED <<signal, tip, locked, importer, voterState, commands>>

\* completed: the state is written; in a paused one this is an error.
VoterRecords ==
  /\ Voting
  /\ ~voterState.paused
  /\ chain' = [chain EXCEPT !.state = voterState]
  /\ UNCHANGED <<signal, tip, aset, locked, importer, voter, voterState, commands>>

\* handle_voter_command
Handle(c) ==
  IF c.kind = "change"
  THEN /\ ~locked
       /\ voterState' = Live(c.set)
       /\ voter' = NewVoter(c.set, TRUE)
       /\ chain' = [chain EXCEPT !.state = Live(c.set)]
  ELSE /\ voterState' = [voterState EXCEPT !.paused = TRUE]
       /\ voter' = NewVoter(voter.set, FALSE)
       /\ chain' = [chain EXCEPT !.state = [voterState EXCEPT !.paused = TRUE]]

\* The command that ended the voter comes before the ones in the channel.
HandleOwnCommand ==
  /\ voter.command # None
  /\ Handle(voter.command)
  /\ UNCHANGED <<signal, tip, aset, locked, importer, commands>>

HandleCommand ==
  /\ voter.command = None
  /\ commands # <<>>
  /\ Handle(Head(commands))
  /\ commands' = Tail(commands)
  /\ UNCHANGED <<signal, tip, aset, locked, importer>>

(***************************************************************************)
(* best_chain_containing: the set id is compared, then the limit is read,  *)
(* each under the lock, and the future waits for the fork choice before it *)
(* picks the target.  The base is the estimate of the last round: honest   *)
(* authorities voted for it, so it is within the term of the voter.        *)
(***************************************************************************)
VoteAllowed == voter.set.id = aset.id

AskForVote ==
  /\ Voting
  /\ ~locked
  /\ voter.vote.stage = "none"
  /\ VoteAllowed
  /\ voter' = [voter EXCEPT !.vote = [stage |-> "asked"]]
  /\ UNCHANGED <<signal, tip, aset, locked, chain, importer, voterState, commands>>

\* known is history: the changes imported when the limit was read, none if the set
\* changed after its id was compared.
ReadLimit(base) ==
  /\ Voting
  /\ ~locked
  /\ voter.vote.stage = "asked"
  /\ base \in chain.blocks
  /\ OnBranch(base, tip)
  /\ WithinTransition(voter.set.authorities, base)
  /\ voter' = [voter EXCEPT !.vote =
                 [stage |-> "limited", base |-> base,
                  limits |-> CurrentLimits(aset, Number[base]),
                  known |-> IF VoteAllowed THEN chain.blocks \cap Appointed ELSE {}]]
  /\ UNCHANGED <<signal, tip, aset, locked, chain, importer, voterState, commands>>

\* (mutant) the limit is the latest of the pending changes
LimitedLate(limits, best) ==
  IF limits = {} THEN Number[best]
  ELSE CHOOSE n \in limits : \A m \in limits : n >= m

Limited(limits, best) ==
  IF \E n \in limits : n < Number[best]
  THEN CHOOSE n \in limits : \A m \in limits : n <= m
  ELSE Number[best]

\* finality_target names a block on top of the base and of what is final; the
\* voting rule may lower the target, not below the base.
VoteTarget(best, target) ==
  /\ best \in chain.blocks
  /\ OnBranch(chain.finalized, best)
  /\ OnBranch(voter.vote.base, best)
  /\ OnBranch(target, best)
  /\ Number[voter.vote.base] <= Number[target]
  /\ Number[target] <= Limited(voter.vote.limits, best)

Vote ==
  /\ Voting
  /\ voter.vote.stage = "limited"
  /\ \E best, target \in Block : VoteTarget(best, target)
  /\ voter' = [voter EXCEPT !.vote = NoVote]
  /\ UNCHANGED <<signal, tip, aset, locked, chain, importer, voterState, commands>>

-----------------------------------------------------------------------------
\* The process stops at any point; load_persistent and VoterWork::new.
Restart ==
  /\ aset' = chain.aset
  /\ locked' = FALSE
  /\ importer' = Idle
  /\ voter' = NewVoter(SetOf(chain.aset), ~chain.state.paused)
  /\ voterState' = chain.state
  /\ commands' = <<>>
  /\ UNCHANGED <<signal, tip, chain>>

Justified(b) == {None} \cup Justifications(b)

GrandpaNext ==
  \/ \E b \in Block \ {Genesis} : \E j \in Justified(b) : ImportBlock(b, j)
  \/ BlockImported
  \/ BlockImportFails
  \/ \E b \in Block : \E j \in Justifications(b) : ImportJustification(b, j)
  \/ ReadSetId
  \/ VerifyAuthorities
  \/ JustifiedRefinalizes
  \/ JustifiedFinalizes
  \/ JustifiedFails
  \/ \E b \in Block : VoterFinalizes(b)
  \/ VoterRecords
  \/ HandleOwnCommand
  \/ HandleCommand
  \/ AskForVote
  \/ \E b \in Bases : ReadLimit(b)
  \/ Vote
  \/ Restart

GrandpaSpec == GrandpaInit /\ [][GrandpaNext]_vars
-----------------------------------------------------------------------------
(***************************************************************************)
(* Properties                                                              *)
(***************************************************************************)
Written(s) == [s EXCEPT !.bestFinalized = -1]

\* Whenever the set is not locked, a restart would load the set that is in
\* memory, up to the best finalized number of the fork tree, which
\* finalize_block writes only together with another change.  Importing,
\* finalizing, and the failure of either keep it so.
DiskMatchesMemory == ~locked => Written(aset) = Written(chain.aset)

ForcedDueIn(blocks) ==
  {f \in Appointed \ {Genesis} :
     signal[f].kind = "forced" /\ \E b \in blocks : OnBranch(f, b)
                                                  /\ Number[b] = EffectiveNumber(f)}

\* A standard change is kept until its block is final, and no longer.  Until a
\* forced change takes effect, every imported block that signals one and that
\* finality has not ruled out is either pending in the fork tree or its authorities
\* were appointed.  When a block at or after the effective number of a pending
\* change becomes final, the same write enacts that change.
ChangesKeptUntilDue ==
  /\ ForcedDueIn(chain.blocks) = {} =>
       \A s \in chain.blocks \cap (Appointed \ {Genesis}) :
          /\ signal[s].kind = "standard"
          /\ OnBranch(s, chain.finalized) \/ IsDescendentOf(chain.finalized, s)
          => s \in chain.aset.standard \/ OnBranch(s, chain.aset.authorities)
  /\ \A c \in chain.aset.standard :
       OnBranch(c, chain.finalized) => EffectiveNumber(c) > Number[chain.finalized]

EnactsInOrder ==
  LET old == chain.aset
      new == chain'.aset
  IN new.id # old.id =>
       /\ new.id = old.id + 1
       /\ Len(new.changes) = new.id /\ new.changes[new.id][1] = old.id
       /\ \/ /\ new.authorities \in Roots(old.standard)
             /\ OnBranch(new.authorities, chain'.finalized)
             /\ EffectiveNumber(new.authorities) <= Number[chain'.finalized]
          \/ /\ signal[new.authorities].kind = "forced"
             /\ \E b \in chain'.blocks \ chain.blocks :
                   /\ OnBranch(new.authorities, b)
                   /\ EffectiveNumber(new.authorities) = Number[b]
             /\ \A r \in Roots(old.standard) :
                   EffectiveNumber(r) <= signal[new.authorities].median
                   => ~IsDescendentOf(r, new.authorities)

\* Every write replaces the authorities by at most one change, records where the
\* old set ended, and takes the changes of a branch in their order: a standard
\* change is the lowest one pending below the block that becomes final, a forced
\* one takes effect with the import of a block at its effective number.
EnactedInOrder == [][EnactsInOrder]_vars

Changes == SelectSeq(commands, LAMBDA c : c.kind = "change")

\* The voter is never left behind: when it does not run with the current
\* authorities, the last command it will handle appoints them.  This is so as
\* long as no forced change took effect on a branch that finality leaves: there
\* the command of a change the voter enacts itself overtakes the queued one.
VoterFollows ==
  /\ ~locked
  /\ \A f \in ForcedDueIn(chain.blocks) : OnBranch(f, tip)
  /\ voter.set # SetOf(aset)
  => IF Changes # <<>> THEN Changes[Len(Changes)].set = SetOf(aset)
     ELSE voter.command = ChangeAuthorities(aset)

InTerm(v, known) ==
  \A s \in Signals(v) \cap known :
     signal[s].kind = "standard" /\ IsDescendentOf(voter.set.authorities, s)
     => Number[v] <= EffectiveNumber(s)

\* Whatever target best_chain_containing picks, it is not past a standard change
\* that follows the one that appointed the voter, if that change was imported when
\* the limit was read and the authorities did not change between the comparison of
\* the set id and that read.  What is imported or finalized while the future waits
\* for the fork choice does not matter.
VoteWithinTransition ==
  voter.vote.stage = "limited" =>
    \A best, target \in Block :
       VoteTarget(best, target) => InTerm(target, voter.vote.known)

\* The note in finalize_block, "honest voters will never vote past a transition
\* block": the same of changes that were imported later.
VoteWithinAnyTransition ==
  voter.vote.stage = "limited" /\ VoteAllowed =>
    \A best, target \in Block : VoteTarget(best, target) => InTerm(target, chain.blocks)

\* import_justification, "returns Ok when no authority set change should be
\* enacted; qed": finalizing the block that enacts a change enacts it.
JustificationEnacts == importer.pc # "panicked"
=============================================================================
