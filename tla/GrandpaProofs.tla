--------------------------- MODULE GrandpaProofs ---------------------------
(***************************************************************************)
(* What the import worker, the voter and a restart keep true of the        *)
(* authority set, for every tree of blocks and every assignment of digests *)
(* to them in which the changes of a branch follow one another.            *)
(***************************************************************************)
EXTENDS GrandpaImport, TLAPS

-----------------------------------------------------------------------------
(***************************************************************************)
(* The tree of blocks                                                      *)
(***************************************************************************)
LEMMA AncestorsLower ==
  ASSUME NEW b \in Block, NEW a \in Block, IsDescendentOf(a, b)
  PROVE  Number[a] < Number[b]
<1> DEFINE good == {x \in Block : \A y \in Above[x] : Number[y] < Number[x]}
<1>1. Genesis \in good
  BY TreeAssumption
<1>2. ASSUME NEW x \in Block \ {Genesis}, Parent[x] \in good
      PROVE  x \in good
  BY <1>2, TreeAssumption
<1>3. good = Block
  <2> HIDE DEF good
  <2>1. good \in SUBSET Block
    BY DEF good
  <2> QED BY <1>1, <1>2, <2>1, ReachedAssumption, Zenon
<1> QED BY <1>3 DEF IsDescendentOf

LEMMA AncestorsOfAncestors ==
  ASSUME NEW a \in Block, NEW b \in Block, NEW c \in Block,
         IsDescendentOf(a, b), IsDescendentOf(b, c)
  PROVE  IsDescendentOf(a, c)
<1> DEFINE good == {x \in Block : \A y \in Above[x] : Above[y] \subseteq Above[x]}
<1>1. Genesis \in good
  BY TreeAssumption
<1>2. ASSUME NEW x \in Block \ {Genesis}, Parent[x] \in good
      PROVE  x \in good
  BY <1>2, TreeAssumption
<1>3. good = Block
  <2> HIDE DEF good
  <2>1. good \in SUBSET Block
    BY DEF good
  <2> QED BY <1>1, <1>2, <2>1, ReachedAssumption, Zenon
<1> QED BY <1>3 DEF IsDescendentOf

\* Two ancestors of a block are on one branch.
LEMMA AncestorsCompare ==
  ASSUME NEW a \in Block, NEW b \in Block, NEW c \in Block,
         OnBranch(a, c), OnBranch(b, c)
  PROVE  OnBranch(a, b) \/ OnBranch(b, a)
<1> DEFINE good == {x \in Block : \A y, z \in Above[x] : y = z \/ y \in Above[z] \/ z \in Above[y]}
<1>1. Genesis \in good
  BY TreeAssumption
<1>2. ASSUME NEW x \in Block \ {Genesis}, Parent[x] \in good
      PROVE  x \in good
  BY <1>2, TreeAssumption
<1>3. good = Block
  <2> HIDE DEF good
  <2>1. good \in SUBSET Block
    BY DEF good
  <2> QED BY <1>1, <1>2, <2>1, ReachedAssumption, Zenon
<1> QED BY <1>3 DEF OnBranch, IsDescendentOf

LEMMA BranchFacts ==
  ASSUME NEW a \in Block, NEW b \in Block, NEW c \in Block
  PROVE  /\ OnBranch(a, b) /\ OnBranch(b, c) => OnBranch(a, c)
         /\ OnBranch(a, b) /\ IsDescendentOf(b, c) => IsDescendentOf(a, c)
         /\ IsDescendentOf(a, b) /\ OnBranch(b, c) => IsDescendentOf(a, c)
         /\ ~(IsDescendentOf(a, b) /\ OnBranch(b, a))
         /\ OnBranch(a, b) => Number[a] <= Number[b]
<1>1. IsDescendentOf(a, b) /\ IsDescendentOf(b, c) => IsDescendentOf(a, c)
  BY AncestorsOfAncestors
<1>2. ~(IsDescendentOf(a, b) /\ OnBranch(b, a))
  <2>1. Number[a] \in Nat /\ Number[b] \in Nat
    BY TreeAssumption
  <2> QED BY <2>1, AncestorsLower DEF OnBranch
<1>3. OnBranch(a, b) => Number[a] <= Number[b]
  <2>1. Number[a] \in Nat /\ Number[b] \in Nat
    BY TreeAssumption
  <2> QED BY <2>1, AncestorsLower DEF OnBranch
<1> QED BY <1>1, <1>2, <1>3, Zenon DEF OnBranch

\* Every node of the fork tree is under a root.
LEMMA RootAbove ==
  ASSUME NEW nodes \in SUBSET Block, NEW s \in nodes
  PROVE  \E r \in Roots(nodes) : OnBranch(r, s)
<1> DEFINE good == {x \in Block : (\E c \in nodes : OnBranch(c, x)) =>
                                    \E r \in Roots(nodes) : OnBranch(r, x)}
<1>1. Genesis \in good
  BY TreeAssumption DEF OnBranch, IsDescendentOf, Roots
<1>2. ASSUME NEW x \in Block \ {Genesis}, Parent[x] \in good
      PROVE  x \in good
  <2> SUFFICES ASSUME \E c \in nodes : OnBranch(c, x)
               PROVE  \E r \in Roots(nodes) : OnBranch(r, x)
    OBVIOUS
  <2>1. Parent[x] \in Block /\ Above[x] = {Parent[x]} \cup Above[Parent[x]]
    BY TreeAssumption
  <2>2. CASE \E c \in nodes : OnBranch(c, Parent[x])
    BY <1>2, <2>1, <2>2 DEF OnBranch, IsDescendentOf
  <2>3. CASE ~\E c \in nodes : OnBranch(c, Parent[x])
    BY <2>1, <2>3 DEF OnBranch, IsDescendentOf, Roots
  <2> QED BY <2>2, <2>3
<1>3. good = Block
  <2> HIDE DEF good
  <2>1. good \in SUBSET Block
    BY DEF good
  <2> QED BY <1>1, <1>2, <2>1, ReachedAssumption, Zenon
<1> QED BY <1>3 DEF OnBranch

\* The limits of a vote have a lowest one.
LEMMA LowestLimit ==
  ASSUME NEW limits \in SUBSET Nat, NEW best \in Block, \E n \in limits : n < Number[best]
  PROVE  \E k \in limits : \A m \in limits : k <= m
<1> DEFINE good == {x \in Block : (\E n \in limits : n <= Number[x]) =>
                                    \E k \in limits : \A m \in limits : k <= m}
<1>1. Genesis \in good
  BY TreeAssumption
<1>2. ASSUME NEW x \in Block \ {Genesis}, Parent[x] \in good
      PROVE  x \in good
  <2>1. /\ Parent[x] \in Block /\ Number[x] = Number[Parent[x]] + 1
        /\ Number[Parent[x]] \in Nat
    BY TreeAssumption
  <2>2. CASE \E n \in limits : n <= Number[Parent[x]]
    BY <1>2, <2>2, Zenon
  <2>3. CASE ~\E n \in limits : n <= Number[Parent[x]]
    BY <2>1, <2>3
  <2> QED BY <2>2, <2>3, Zenon
<1>3. good = Block
  <2> HIDE DEF good
  <2>1. good \in SUBSET Block
    BY DEF good
  <2> QED BY <1>1, <1>2, <2>1, ReachedAssumption, Zenon
<1>4. PICK n \in limits : n < Number[best]
  OBVIOUS
<1>5. n <= Number[best]
  BY <1>4, TreeAssumption
<1> QED BY <1>3, <1>5

LEMMA LimitedBelow ==
  ASSUME NEW limits \in SUBSET Nat, NEW n \in limits, NEW best \in Block
  PROVE  Limited(limits, best) \in Nat /\ Limited(limits, best) <= n
<1>1. CASE \E m \in limits : m < Number[best]
  <2>1. \E k \in limits : \A m \in limits : k <= m
    BY <1>1, LowestLimit
  <2>2. /\ Limited(limits, best) \in limits
        /\ \A m \in limits : Limited(limits, best) <= m
    BY <1>1, <2>1, Zenon DEF Limited
  <2> QED BY <2>2, Zenon
<1>2. CASE ~\E m \in limits : m < Number[best]
  BY <1>2, TreeAssumption DEF Limited
<1> QED BY <1>1, <1>2

-----------------------------------------------------------------------------
(***************************************************************************)
(* What the database has of the changes                                    *)
(***************************************************************************)
\* On a branch a change is effective before the next one is signalled.
SignalsApart ==
  \A c, d \in Block :
    signal[c] # None /\ signal[d] # None /\ IsDescendentOf(c, d) => EffectiveNumber(c) < Number[d]

SignalType == signal \in [Block -> Signal \cup {None}]

SignalsStandard(s) == s # Genesis /\ signal[s] \in Signal /\ signal[s].kind = "standard"

Follows(s, b) == OnBranch(s, b) \/ IsDescendentOf(b, s)

\* The authorities that may still act: no pending change appointed them or one they
\* follow.  Only such authorities are in the set, in the voter, in a command or behind
\* a justification that was verified, and they finalize nothing past a pending change.
ClearBlocks(ch) == {c \in ch.blocks : \A d \in ch.aset.standard : ~OnBranch(d, c)}

\* No pending change was due at the finalized block.
NonePassed(ch) ==
  \A s \in ch.aset.standard :
     OnBranch(s, ch.finalized) => EffectiveNumber(s) > Number[ch.finalized]

\* Every change that finality has not ruled out is pending or was enacted.
AllPending(ch) ==
  /\ OnBranch(ch.aset.authorities, ch.finalized)
  /\ \A s \in ch.blocks :
        SignalsStandard(s) /\ Follows(s, ch.finalized)
        => s \in ch.aset.standard \/ OnBranch(s, ch.aset.authorities)

\* The same of those that follow a pending change or the current authorities.
LaterPending(ch) ==
  \A f \in ch.aset.standard \cup {ch.aset.authorities} : \A s \in ch.blocks :
     SignalsStandard(s) /\ IsDescendentOf(f, s) /\ Follows(s, ch.finalized)
     => s \in ch.aset.standard

\* No block imported so far makes a pending forced change effective.
NoneDue(forced, blocks) ==
  \A c \in forced : \A b \in blocks : OnBranch(c, b) => Number[b] < EffectiveNumber(c)

Kept(ch) ==
  /\ ch.finalized \in ch.blocks
  /\ ch.aset.authorities \in ClearBlocks(ch)
  /\ \A s \in ch.aset.standard : SignalsStandard(s)
  /\ NonePassed(ch)
  /\ ForcedDueIn(ch.blocks) = {} => AllPending(ch)
  /\ LaterPending(ch)
  /\ NoneDue(ch.aset.forced, ch.blocks)

Placed(ch) == ch.blocks \in SUBSET Block /\ ch.aset.standard \in SUBSET ch.blocks

LEMMA KeptPlaces ==
  ASSUME NEW ch, Placed(ch), Kept(ch)
  PROVE  /\ ch.finalized \in Block /\ ch.aset.authorities \in Block
         /\ ch.aset.standard \in SUBSET Block
         /\ \A s \in ch.aset.standard : ~OnBranch(s, ch.aset.authorities)
BY DEF Placed, Kept, ClearBlocks

LEMMA SignalNumbers ==
  ASSUME NEW c \in Block, signal[c] \in Signal
  PROVE  /\ Number[c] \in Nat /\ EffectiveNumber(c) \in Nat
         /\ Number[c] <= EffectiveNumber(c)
         /\ signal[c] # None
<1>1. Number[c] \in Nat /\ signal[c].delay \in Nat
  BY TreeAssumption DEF Signal
<1>2. signal[c] # None
  BY NoneIsNoSignal
<1> QED BY <1>1, <1>2 DEF EffectiveNumber

LEMMA PendingNumbers ==
  ASSUME NEW ch, Placed(ch), Kept(ch), NEW c \in ch.aset.standard
  PROVE  /\ c \in Block /\ c \in ch.blocks
         /\ Number[c] \in Nat /\ EffectiveNumber(c) \in Nat
         /\ Number[c] <= EffectiveNumber(c)
         /\ signal[c] # None
<1>1. c \in Block /\ c \in ch.blocks /\ signal[c] \in Signal
  BY DEF Placed, Kept, SignalsStandard
<1> QED BY <1>1, SignalNumbers

-----------------------------------------------------------------------------
(***************************************************************************)
(* What finalization leaves of the fork tree                               *)
(***************************************************************************)
LEMMA FirstIsThere ==
  ASSUME NEW nodes, nodes # {}, \A c, d \in nodes : ~IsDescendentOf(c, d)
  PROVE  First(nodes) \in nodes
BY DEF First

LEMMA RetainedOnBranch ==
  ASSUME NEW nodes \in SUBSET Block, NEW b \in Block, NEW s \in nodes, Follows(s, b)
  PROVE  s \in Retained(nodes, b)
<1>1. PICK r \in Roots(nodes) : OnBranch(r, s)
  BY RootAbove
<1>2. r \in Block
  BY DEF Roots
<1>3. IsDescendentOf(b, r) \/ OnBranch(r, b)
  <2>1. CASE OnBranch(s, b)
    BY <1>1, <1>2, <2>1, BranchFacts
  <2>2. CASE IsDescendentOf(b, s)
    BY <1>1, <1>2, <2>2, AncestorsCompare DEF OnBranch
  <2> QED BY <2>1, <2>2 DEF Follows
<1> QED BY <1>1, <1>3 DEF Retained

\* A root on the branch of b becomes final: what stays is above it.
LEMMA RetainedBelow ==
  ASSUME NEW nodes \in SUBSET Block, NEW b \in Block,
         NEW f \in Roots(nodes), OnBranch(f, b), NEW s \in nodes, Follows(s, b), s # f
  PROVE  s \in Retained(Below(nodes, f), b)
<1>1. f \in Block /\ s \in Block /\ ~IsDescendentOf(s, f)
  BY DEF Roots
<1>2. OnBranch(f, s) \/ OnBranch(s, f)
  <2>1. CASE OnBranch(s, b)
    BY <1>1, <2>1, AncestorsCompare
  <2>2. CASE IsDescendentOf(b, s)
    BY <1>1, <2>2, BranchFacts DEF OnBranch
  <2> QED BY <2>1, <2>2 DEF Follows
<1>3. s \in Below(nodes, f) /\ Below(nodes, f) \in SUBSET Block
  BY <1>1, <1>2 DEF Below, OnBranch
<1> QED BY <1>3, RetainedOnBranch

\* The pending changes and the authorities that are left, without the one that became
\* final.
Enacted(s, new, b) ==
  /\ new.standard \subseteq s.standard /\ new.forced \subseteq s.forced
  /\ \/ new.authorities = s.authorities /\ new.id = s.id
     \/ /\ new.authorities \in s.standard /\ new.id = s.id + 1
        /\ OnBranch(new.authorities, b)
        /\ \A c \in new.standard : ~OnBranch(c, new.authorities)
  /\ \A c \in s.standard : Follows(c, b) => c \in new.standard \/ c = new.authorities
  /\ \A c \in new.standard : ~(c \in Roots(s.standard) /\ c \in Due(s, b) /\ OnBranch(c, b))

LEMMA NothingEnacted ==
  ASSUME NEW s, s.standard \in SUBSET Block, NEW b \in Block, NEW new,
         {c \in Roots(s.standard) \cap Due(s, b) : OnBranch(c, b)} = {},
         new.standard = Retained(s.standard, b), new.forced \subseteq s.forced,
         new.authorities = s.authorities, new.id = s.id
  PROVE  Enacted(s, new, b)
<1>1. new.standard \subseteq s.standard
  BY DEF Retained
<1>2. \A c \in s.standard : Follows(c, b) => c \in new.standard
  BY RetainedOnBranch
<1> QED BY <1>1, <1>2 DEF Enacted

LEMMA OneEnacted ==
  ASSUME NEW s, s.standard \in SUBSET Block, NEW b \in Block, NEW new,
         NEW f \in Roots(s.standard), OnBranch(f, b),
         new.standard = Retained(Below(s.standard, f), b), new.forced \subseteq s.forced,
         new.authorities = f, new.id = s.id + 1
  PROVE  Enacted(s, new, b)
<1>1. new.standard \subseteq s.standard /\ \A c \in new.standard : IsDescendentOf(f, c)
  BY DEF Retained, Below
<1>2. f \in s.standard /\ f \in Block
  BY DEF Roots
<1>3. \A c \in new.standard : ~OnBranch(c, f)
  BY <1>1, <1>2, BranchFacts
<1>4. \A c \in s.standard : Follows(c, b) => c \in new.standard \/ c = f
  BY RetainedBelow
<1>5. \A c \in new.standard : c \notin Roots(s.standard)
  BY <1>1, <1>2 DEF Roots
<1> QED BY <1>1, <1>2, <1>3, <1>4, <1>5 DEF Enacted

\* apply_standard_changes
LEMMA StandardEnacts ==
  ASSUME NEW s \in SetState, NEW b \in Block, ApplyStandardChanges(s, b).ok
  PROVE  Enacted(s, ApplyStandardChanges(s, b).set, b)
<1> DEFINE new == ApplyStandardChanges(s, b).set
           final == {c \in Roots(s.standard) \cap Due(s, b) : OnBranch(c, b)}
           f == First(final)
<1>1. /\ new.standard = Retained(IF final = {} THEN s.standard ELSE Below(s.standard, f), b)
      /\ new.authorities = IF final = {} THEN s.authorities ELSE f
      /\ new.id = IF final = {} THEN s.id ELSE s.id + 1
      /\ new.forced \subseteq s.forced
  BY Zenon DEF ApplyStandardChanges, FinalizeIf, Failed, SetState, KeptForced
<1>2. s.standard \in SUBSET Block
  BY DEF SetState
<1> HIDE DEF new
<1>3. CASE final = {}
  BY <1>1, <1>2, <1>3, NothingEnacted DEF new
<1>4. CASE final # {}
  <2>1. f \in final
    BY <1>4, FirstIsThere DEF Roots
  <2>2. f \in Roots(s.standard) /\ OnBranch(f, b)
    <3> HIDE DEF f
    <3> QED BY <2>1
  <2> HIDE DEF f, final
  <2> QED BY <1>1, <1>2, <1>4, <2>2, OneEnacted DEF new
<1> QED BY <1>3, <1>4, Zenon

-----------------------------------------------------------------------------
(***************************************************************************)
(* Finalization keeps the changes                                          *)
(***************************************************************************)
\* Authorities that may still act finalize nothing past a pending change.
LEMMA NotPast ==
  ASSUME NEW ch, Placed(ch), Kept(ch), NEW c \in ClearBlocks(ch), NEW b \in Block,
         Justifies(c, b), NEW d \in ch.aset.standard, OnBranch(d, b)
  PROVE  Number[b] <= EffectiveNumber(d)
<1>1. c \in Block /\ ~OnBranch(d, c)
  BY DEF ClearBlocks, Placed
<1>2. d \in Block /\ signal[d] # None
  BY PendingNumbers
<1>3. IsDescendentOf(c, d) /\ d # c
  <2>1. CASE OnBranch(c, b)
    BY <1>1, <1>2, <2>1, AncestorsCompare DEF OnBranch
  <2>2. CASE IsDescendentOf(b, c)
    BY <1>1, <1>2, <2>2, BranchFacts DEF OnBranch
  <2> QED BY <2>1, <2>2 DEF Justifies, FromMedian
<1>4. d \in Signals(b)
  BY <1>2, TreeAssumption DEF Signals, OnBranch, IsDescendentOf
<1> QED BY <1>3, <1>4 DEF Justifies, WithinTransition

LEMMA FinalNonePassed ==
  ASSUME SignalsApart, NEW old, Placed(old), Kept(old), NEW c \in ClearBlocks(old),
         NEW b \in Block, Justifies(c, b),
         NEW new, new.finalized = b, Enacted(old.aset, new.aset, b)
  PROVE  NonePassed(new)
<1> SUFFICES ASSUME NEW s \in new.aset.standard, OnBranch(s, b),
                    ~(EffectiveNumber(s) > Number[b])
             PROVE  FALSE
  BY DEF NonePassed
<1>1. s \in old.aset.standard
  BY DEF Enacted
<1>2. /\ s \in Block /\ Number[s] \in Nat /\ EffectiveNumber(s) \in Nat
      /\ Number[s] <= EffectiveNumber(s) /\ signal[s] # None /\ Number[b] \in Nat
  BY <1>1, PendingNumbers, TreeAssumption
<1>3. s \in Due(old.aset, b)
  BY <1>1, <1>2 DEF Due
<1>4. PICK d \in old.aset.standard : IsDescendentOf(d, s)
  BY <1>1, <1>3 DEF Enacted, Roots
<1>5. d \in Block /\ signal[d] # None /\ EffectiveNumber(d) \in Nat
  BY PendingNumbers
<1>6. Number[b] <= EffectiveNumber(d)
  <2>1. OnBranch(d, b)
    BY <1>2, <1>4, <1>5, BranchFacts DEF OnBranch
  <2> QED BY <2>1, NotPast
<1>7. EffectiveNumber(d) < Number[s]
  BY <1>2, <1>4, <1>5 DEF SignalsApart
<1> QED BY <1>2, <1>5, <1>6, <1>7

LEMMA FollowsBefore ==
  ASSUME NEW f \in Block, NEW b \in Block, IsDescendentOf(f, b),
         NEW s \in Block, Follows(s, b)
  PROVE  Follows(s, f)
<1>1. CASE OnBranch(s, b)
  BY <1>1, AncestorsCompare DEF OnBranch, Follows
<1>2. CASE IsDescendentOf(b, s)
  BY <1>2, AncestorsOfAncestors DEF Follows
<1> QED BY <1>1, <1>2 DEF Follows

MadeFinal(old, new, b) ==
  /\ Enacted(old.aset, new.aset, b)
  /\ new.finalized = b /\ new.blocks = old.blocks /\ b \in old.blocks
  /\ IsDescendentOf(old.finalized, b)

LEMMA FinalAllPending ==
  ASSUME NEW old, Placed(old), Kept(old), NEW b \in Block, NEW new, MadeFinal(old, new, b),
         AllPending(old)
  PROVE  AllPending(new)
<1> DEFINE A == old.aset.authorities
           N == new.aset.authorities
<1>1. /\ A \in Block /\ old.finalized \in Block /\ old.aset.standard \in SUBSET Block
      /\ \A s \in old.aset.standard : ~OnBranch(s, A)
  BY KeptPlaces
<1>2. OnBranch(A, b)
  BY <1>1, BranchFacts DEF AllPending, MadeFinal, OnBranch
<1>3. OnBranch(N, b) /\ N \in Block
  BY <1>1, <1>2 DEF MadeFinal, Enacted
<1>4. OnBranch(A, N)
  <2>1. CASE N = A
    BY <2>1 DEF OnBranch
  <2>2. CASE N # A
    BY <1>1, <1>2, <1>3, <2>2, AncestorsCompare DEF MadeFinal, Enacted
  <2> QED BY <2>1, <2>2
<1>5. ASSUME NEW s \in old.blocks, SignalsStandard(s), Follows(s, b)
      PROVE  s \in new.aset.standard \/ OnBranch(s, N)
  <2>1. s \in Block
    BY <1>5 DEF Placed
  <2>2. s \in old.aset.standard \/ OnBranch(s, A)
    BY <1>1, <1>5, <2>1, FollowsBefore DEF AllPending, MadeFinal
  <2>3. CASE s \in old.aset.standard
    BY <1>5, <2>3 DEF MadeFinal, Enacted, OnBranch
  <2>4. CASE OnBranch(s, A)
    BY <1>1, <1>3, <1>4, <2>1, <2>4, BranchFacts
  <2> QED BY <2>2, <2>3, <2>4
<1> QED BY <1>3, <1>5 DEF AllPending, MadeFinal

LEMMA FinalClear ==
  ASSUME NEW old, Placed(old), Kept(old), NEW b \in Block, NEW new, MadeFinal(old, new, b)
  PROVE  /\ ClearBlocks(old) \subseteq ClearBlocks(new)
         /\ new.aset.authorities \in ClearBlocks(new)
<1>1. ClearBlocks(old) \subseteq ClearBlocks(new)
  BY DEF ClearBlocks, MadeFinal, Enacted
<1>2. CASE new.aset.authorities = old.aset.authorities
  BY <1>1, <1>2 DEF Kept
<1>3. CASE new.aset.authorities # old.aset.authorities
  BY <1>3 DEF ClearBlocks, MadeFinal, Enacted, Placed
<1> QED BY <1>1, <1>2, <1>3

LEMMA FinalLaterPending ==
  ASSUME NEW old, Placed(old), Kept(old), NEW b \in Block, NEW new, MadeFinal(old, new, b)
  PROVE  LaterPending(new)
<1> DEFINE N == new.aset.authorities
<1> SUFFICES ASSUME NEW f \in new.aset.standard \cup {N}, NEW s \in old.blocks,
                    SignalsStandard(s), IsDescendentOf(f, s), Follows(s, b)
             PROVE  s \in new.aset.standard
  BY DEF LaterPending, MadeFinal
<1>1. s \in Block /\ old.finalized \in Block
  BY KeptPlaces, Zenon DEF Placed
<1>2. Follows(s, old.finalized)
  BY <1>1, FollowsBefore DEF MadeFinal
<1>3. f \in old.aset.standard \cup {old.aset.authorities} /\ f \in Block
  BY KeptPlaces DEF MadeFinal, Enacted
<1>4. s \in old.aset.standard
  BY <1>2, <1>3 DEF Kept, LaterPending
<1>5. s # N
  <2>1. ~IsDescendentOf(N, N)
    BY <1>3, KeptPlaces, BranchFacts DEF MadeFinal, Enacted, OnBranch
  <2>2. ~OnBranch(f, N) \/ f = N
    BY FinalClear DEF ClearBlocks
  <2> QED BY <2>1, <2>2 DEF OnBranch
<1> QED BY <1>4, <1>5 DEF MadeFinal, Enacted

LEMMA FinalKeeps ==
  ASSUME SignalsApart, NEW old, Placed(old), Kept(old), NEW c \in ClearBlocks(old),
         NEW b \in Block, Justifies(c, b), NEW new, MadeFinal(old, new, b)
  PROVE  Kept(new)
<1>1. NonePassed(new)
  BY FinalNonePassed DEF MadeFinal
<1>2. ForcedDueIn(new.blocks) = {} => AllPending(new)
  BY FinalAllPending DEF Kept, MadeFinal
<1>3. new.aset.authorities \in ClearBlocks(new) /\ LaterPending(new)
  BY FinalClear, FinalLaterPending
<1>4. NoneDue(new.aset.forced, new.blocks)
  BY DEF Kept, NoneDue, MadeFinal, Enacted
<1>5. new.finalized \in new.blocks /\ \A s \in new.aset.standard : SignalsStandard(s)
  BY DEF Kept, MadeFinal, Enacted
<1> QED BY <1>1, <1>2, <1>3, <1>4, <1>5 DEF Kept

-----------------------------------------------------------------------------
(***************************************************************************)
(* Importing a block keeps the changes                                     *)
(***************************************************************************)
\* A block of the database has its ancestors there.
Connected(blocks) == \A b \in blocks : Above[b] \subseteq blocks

Fresh(b, blocks) == b \in Block \ {Genesis} /\ b \notin blocks /\ Parent[b] \in blocks

\* A block whose parent is there brings no ancestor that is not.
LEMMA FreshConnected ==
  ASSUME NEW blocks \in SUBSET Block, Connected(blocks), NEW b, Fresh(b, blocks)
  PROVE  /\ Above[b] \subseteq blocks
         /\ Connected(blocks \cup {b})
         /\ ~IsDescendentOf(b, b)
         /\ \A c \in blocks : ~IsDescendentOf(b, c) /\ ~OnBranch(b, c)
BY TreeAssumption DEF Connected, Fresh, IsDescendentOf, OnBranch

ForcedSignals(forced) ==
  \A c \in forced : c # Genesis /\ signal[c] \in Signal /\ signal[c].kind = "forced"

\* What importing block b makes of a set: it adds the change the block signals, or a
\* forced change that is due at the block replaces everything.
NoneAt(forced, b) == \A c \in forced : ~(OnBranch(c, b) /\ EffectiveNumber(c) = Number[b])

SetAdded(old, new, b) ==
  /\ new.id = old.id /\ new.authorities = old.authorities
  /\ new.standard = old.standard \cup {c \in {b} : SignalsStandard(c)}
  /\ new.forced \subseteq old.forced \cup {b}
  /\ NoneAt(new.forced, b) /\ ForcedSignals(new.forced)

ForcedAt(b, c) ==
  /\ c \in Block \ {Genesis} /\ signal[c] \in Signal /\ signal[c].kind = "forced"
  /\ OnBranch(c, b) /\ Number[b] = EffectiveNumber(c)

SetForced(old, new, blocks, b) ==
  /\ new.id = old.id + 1 /\ new.standard = {} /\ new.forced = {}
  /\ new.authorities \in blocks \cup {b}
  /\ new.authorities \in old.forced \cup {b}
  /\ ForcedAt(b, new.authorities)

Grown(old, new, blocks, b) == SetAdded(old, new, b) \/ SetForced(old, new, blocks, b)

BlockAdded(old, new, b) ==
  /\ Fresh(b, old.blocks) /\ Connected(old.blocks)
  /\ new.blocks = old.blocks \cup {b} /\ new.finalized = old.finalized

LEMMA AddedNoneDue ==
  ASSUME NEW old, Placed(old), Kept(old), old.aset.forced \in SUBSET old.blocks,
         NEW b, NEW new, BlockAdded(old, new, b), SetAdded(old.aset, new.aset, b),
         NEW c \in new.aset.forced, NEW d \in new.blocks, OnBranch(c, d)
  PROVE  Number[d] < EffectiveNumber(c)
<1>1. b \in Block /\ b # Genesis /\ Parent[b] \in old.blocks /\ \A e \in old.blocks : ~OnBranch(b, e)
  BY FreshConnected DEF BlockAdded, Fresh, Placed
<1>2. CASE d # b
  <2>1. d \in old.blocks /\ c \in old.aset.forced
    BY <1>1, <1>2 DEF BlockAdded, SetAdded
  <2> QED BY <2>1 DEF Kept, NoneDue
<1>3. CASE d = b
  <2>1. /\ c \in Block /\ Number[c] \in Nat /\ EffectiveNumber(c) \in Nat
        /\ Number[c] <= EffectiveNumber(c)
    <3>1. c \in Block /\ signal[c] \in Signal
      BY <1>1 DEF SetAdded, ForcedSignals, Placed
    <3> QED BY <3>1, SignalNumbers
  <2>2. EffectiveNumber(c) # Number[b]
    BY <1>3 DEF SetAdded, NoneAt
  <2>3. CASE c = b
    BY <1>3, <2>1, <2>2, <2>3
  <2>4. CASE c # b
    <3>1. /\ OnBranch(c, Parent[b]) /\ Number[b] = Number[Parent[b]] + 1
          /\ Number[Parent[b]] \in Nat
      BY <1>1, <1>3, <2>4, TreeAssumption DEF OnBranch, IsDescendentOf
    <3>2. Number[Parent[b]] < EffectiveNumber(c)
      BY <1>1, <2>4, <3>1 DEF Kept, NoneDue, SetAdded
    <3> QED BY <1>3, <2>1, <2>2, <3>1, <3>2
  <2> QED BY <2>3, <2>4
<1> QED BY <1>2, <1>3

LEMMA AddedKeeps ==
  ASSUME NEW old, Placed(old), Kept(old), old.aset.forced \in SUBSET old.blocks,
         NEW b, NEW new, BlockAdded(old, new, b), SetAdded(old.aset, new.aset, b)
  PROVE  Kept(new) /\ ClearBlocks(old) \subseteq ClearBlocks(new)
<1> DEFINE added == {c \in {b} : SignalsStandard(c)}
<1>1. /\ added \subseteq {b} /\ \A s \in added : SignalsStandard(s)
      /\ SignalsStandard(b) => b \in added
  OBVIOUS
<1>2. new.aset.standard = old.aset.standard \cup added
  BY DEF SetAdded
<1> HIDE DEF added
<1>3. /\ \A c \in old.blocks : ~OnBranch(b, c)
      /\ old.finalized \in old.blocks /\ new.finalized = old.finalized
      /\ new.aset.authorities = old.aset.authorities
  BY FreshConnected, Zenon DEF BlockAdded, Placed, Kept, SetAdded
<1>4. ClearBlocks(old) \subseteq ClearBlocks(new)
  BY <1>1, <1>2, <1>3 DEF ClearBlocks, BlockAdded
<1>5. \A s \in new.aset.standard : SignalsStandard(s)
  BY <1>1, <1>2 DEF Kept
<1>6. NonePassed(new)
  BY <1>1, <1>2, <1>3 DEF Kept, NonePassed
<1>7. ForcedDueIn(new.blocks) = {} => AllPending(new)
  <2>1. ForcedDueIn(old.blocks) \subseteq ForcedDueIn(new.blocks)
    BY DEF ForcedDueIn, BlockAdded
  <2>2. ForcedDueIn(new.blocks) = {} => AllPending(old)
    BY <2>1 DEF Kept
  <2> QED BY <1>1, <1>2, <1>3, <2>2, Zenon DEF AllPending, BlockAdded
<1>8. LaterPending(new)
  <2>1. \A s \in old.blocks : ~IsDescendentOf(b, s)
    BY <1>3 DEF OnBranch
  <2> QED BY <1>1, <1>2, <1>3, <2>1 DEF Kept, LaterPending, BlockAdded
<1>9. NoneDue(new.aset.forced, new.blocks)
  BY AddedNoneDue, Zenon DEF NoneDue
<1>10. new.finalized \in new.blocks /\ new.aset.authorities \in ClearBlocks(new)
  BY <1>3, <1>4 DEF Kept, BlockAdded
<1> QED BY <1>4, <1>5, <1>6, <1>7, <1>8, <1>9, <1>10 DEF Kept

\* No standard change follows a forced one that is due.
LEMMA ForcedLast ==
  ASSUME SignalsApart, NEW old, Placed(old), Kept(old), NEW b, NEW new,
         BlockAdded(old, new, b), SetForced(old.aset, new.aset, old.blocks, b),
         NEW s \in new.blocks, SignalsStandard(s), IsDescendentOf(new.aset.authorities, s)
  PROVE  FALSE
<1> DEFINE c == new.aset.authorities
<1>1. /\ c \in Block /\ signal[c] # None /\ Number[b] = EffectiveNumber(c)
      /\ EffectiveNumber(c) \in Nat
  BY SignalNumbers DEF SetForced, ForcedAt
<1>2. s \in Block /\ signal[s] # None /\ Number[s] \in Nat
  <2>1. s \in Block /\ signal[s] \in Signal
    BY DEF SignalsStandard, BlockAdded, Placed, Fresh
  <2> QED BY <2>1, SignalNumbers
<1>3. EffectiveNumber(c) < Number[s]
  BY <1>1, <1>2 DEF SignalsApart
<1>4. s \in old.blocks
  BY <1>1, <1>2, <1>3 DEF BlockAdded
<1>5. c \in old.aset.forced
  <2>1. ~IsDescendentOf(b, s)
    BY <1>4, FreshConnected, Zenon DEF BlockAdded, Placed
  <2> QED BY <2>1 DEF SetForced
<1>6. Number[s] < EffectiveNumber(c)
  BY <1>4, <1>5 DEF Kept, NoneDue, OnBranch
<1> QED BY <1>1, <1>2, <1>3, <1>6

LEMMA ForcedKeeps ==
  ASSUME SignalsApart, NEW old, Placed(old), Kept(old), NEW b, NEW new,
         BlockAdded(old, new, b), SetForced(old.aset, new.aset, old.blocks, b)
  PROVE  Kept(new) /\ ClearBlocks(old) \subseteq ClearBlocks(new)
<1>1. new.aset.authorities \in ForcedDueIn(new.blocks)
  BY NoneIsNoSignal DEF SetForced, ForcedAt, ForcedDueIn, Appointed, BlockAdded
<1>2. ClearBlocks(old) \subseteq ClearBlocks(new) /\ new.aset.authorities \in ClearBlocks(new)
  BY DEF ClearBlocks, SetForced, BlockAdded
<1>3. LaterPending(new)
  BY ForcedLast DEF LaterPending, SetForced
<1>4. NonePassed(new) /\ NoneDue(new.aset.forced, new.blocks)
  BY DEF NonePassed, NoneDue, SetForced
<1>5. new.finalized \in new.blocks /\ \A s \in new.aset.standard : SignalsStandard(s)
  BY DEF Kept, BlockAdded, SetForced
<1> QED BY <1>1, <1>2, <1>3, <1>4, <1>5 DEF Kept

LEMMA GrownKeeps ==
  ASSUME SignalsApart, NEW old, Placed(old), Kept(old), old.aset.forced \in SUBSET old.blocks,
         NEW b, NEW new, BlockAdded(old, new, b),
         Grown(old.aset, new.aset, old.blocks, b)
  PROVE  Kept(new) /\ ClearBlocks(old) \subseteq ClearBlocks(new)
BY AddedKeeps, ForcedKeeps, Zenon DEF Grown

\* The sets of the voter and of the commands on their way to it: their ids tell them
\* from the current one.
ClearSets(ch) ==
  {set \in [id : Nat, authorities : ClearBlocks(ch)] :
     set.id <= ch.aset.id /\ (set.id = ch.aset.id => set.authorities = ch.aset.authorities)}

LEMMA ClearSetsGrow ==
  ASSUME NEW old, NEW new, ClearBlocks(old) \subseteq ClearBlocks(new), old.aset.id \in Nat,
         \/ new.aset.id = old.aset.id /\ new.aset.authorities = old.aset.authorities
         \/ new.aset.id = old.aset.id + 1
  PROVE  ClearSets(old) \subseteq ClearSets(new)
BY DEF ClearSets

-----------------------------------------------------------------------------
(***************************************************************************)
(* What the voter and the import worker hold                               *)
(***************************************************************************)
\* The justification the import worker holds.
Justly(ch, im) ==
  /\ im.pc = "importing" =>
       im.justification = None \/ Justifies(im.justification.authorities, im.block)
  /\ im.pc \in {"verify", "verify authorities", "finalize"} =>
       Justifies(im.justification.authorities, im.block) /\ im.block \in ch.blocks
  /\ im.pc = "finalize" => im.justification.authorities \in ClearBlocks(ch)

ClearChanges(ch) == {[kind |-> "change", set |-> s] : s \in ClearSets(ch)}

Commands(ch) == ClearChanges(ch) \cup {Pause}

VoterShape(v) ==
  v = [set |-> v.set, live |-> v.live, command |-> v.command, vote |-> v.vote]

Voters(ch, v, cs) ==
  /\ VoterShape(v)
  /\ v.set \in ClearSets(ch)
  /\ v.command \in ClearChanges(ch) \cup {None}
  /\ cs \in Seq(Commands(ch))

LEMMA JustifiedFacts ==
  ASSUME NEW b, NEW j
  PROVE  /\ j \in Justifications(b) => Justifies(j.authorities, b)
         /\ j \in Justified(b) => j = None \/ Justifies(j.authorities, b)
BY DEF Justified, Justifications

LEMMA VotersGrow ==
  ASSUME NEW old, NEW new, NEW v, NEW cs, Voters(old, v, cs),
         ClearSets(old) \subseteq ClearSets(new)
  PROVE  Voters(new, v, cs)
<1>1. ClearChanges(old) \subseteq ClearChanges(new)
  BY DEF ClearChanges
<1>2. Commands(old) \subseteq Commands(new)
  BY <1>1 DEF Commands
<1>3. cs \in Seq(Commands(new))
  <2>1. cs \in Seq(Commands(old))
    BY DEF Voters
  <2> QED BY <1>2, <2>1
<1> QED BY <1>1, <1>3, Zenon DEF Voters

LEMMA JustlyGrow ==
  ASSUME NEW old, NEW new, NEW im, Justly(old, im), old.blocks \subseteq new.blocks,
         ClearBlocks(old) \subseteq ClearBlocks(new)
  PROVE  Justly(new, im)
BY Zenon DEF Justly

\* Kept and ClearBlocks look at three fields of the database.
LEMMA SameKept ==
  ASSUME NEW old, NEW new, Kept(old), new.blocks = old.blocks,
         new.finalized = old.finalized, new.aset = old.aset
  PROVE  Kept(new) /\ ClearBlocks(new) = ClearBlocks(old) /\ ClearSets(new) = ClearSets(old)
<1>1. ClearBlocks(new) = ClearBlocks(old)
  BY DEF ClearBlocks
<1>2. ClearSets(new) = ClearSets(old)
  BY <1>1, Zenon DEF ClearSets
<1>3. Kept(new)
  BY <1>1, ZenonT(30) DEF Kept, NonePassed, AllPending, LaterPending
<1> QED BY <1>1, <1>2, <1>3

LEMMA ClearCurrent ==
  ASSUME NEW ch, Kept(ch), NEW s \in SetState, s.id = ch.aset.id,
         s.authorities = ch.aset.authorities
  PROVE  SetOf(s) \in ClearSets(ch) /\ ChangeAuthorities(s) \in ClearChanges(ch)
<1>1. s.id \in Nat
  BY Zenon DEF SetState
<1>2. SetOf(s) \in ClearSets(ch)
  BY <1>1 DEF Kept, SetOf, ClearSets
<1> QED BY <1>2 DEF ClearChanges, ChangeAuthorities

LEMMA NewVoterKeeps ==
  ASSUME NEW ch, NEW set \in ClearSets(ch), NEW live, NEW cs \in Seq(Commands(ch))
  PROVE  Voters(ch, NewVoter(set, live), cs)
BY DEF Voters, VoterShape, NewVoter

\* The set, the database and the voter of a chain that has only its genesis.
LEMMA GenesisIsSet == GenesisSet \in SetState
BY TreeAssumption DEF GenesisSet, SetState

LEMMA KeptGenesis ==
  ASSUME NEW ch, ch.blocks = {Genesis}, ch.finalized = Genesis, ch.aset = GenesisSet
  PROVE  Kept(ch) /\ SetOf(GenesisSet) \in ClearSets(ch)
<1>1. ClearBlocks(ch) = {Genesis} /\ ch.aset.authorities = Genesis
  BY DEF ClearBlocks, GenesisSet
<1>2. NonePassed(ch) /\ AllPending(ch) /\ LaterPending(ch)
  BY DEF NonePassed, AllPending, LaterPending, GenesisSet, SignalsStandard, OnBranch
<1>3. NoneDue(ch.aset.forced, ch.blocks) /\ \A s \in ch.aset.standard : SignalsStandard(s)
  BY DEF GenesisSet, NoneDue
<1>4. Kept(ch)
  BY <1>1, <1>2, <1>3, Zenon DEF Kept
<1> QED BY <1>4, GenesisIsSet, ClearCurrent

-----------------------------------------------------------------------------
(***************************************************************************)
(* The limit of a vote                                                     *)
(***************************************************************************)
\* A pending change is enacted no earlier than the first one on its branch.
LEMMA RootBefore ==
  ASSUME SignalsApart, NEW ch, Placed(ch), Kept(ch), NEW s \in ch.aset.standard,
         NEW r \in ch.aset.standard, OnBranch(r, s)
  PROVE  EffectiveNumber(r) <= EffectiveNumber(s)
<1>1. /\ r \in Block /\ signal[r] # None /\ EffectiveNumber(r) \in Nat
      /\ s \in Block /\ signal[s] # None /\ EffectiveNumber(s) \in Nat
      /\ Number[s] \in Nat /\ Number[s] <= EffectiveNumber(s)
  BY PendingNumbers, Zenon
<1>2. CASE IsDescendentOf(r, s)
  BY <1>1, <1>2 DEF SignalsApart
<1> QED BY <1>1, <1>2 DEF OnBranch

\* A block within the term of authorities that may act, on one branch with a change
\* that follows them: the change has a root that is due at the block or later.
LEMMA RootNotPassed ==
  ASSUME SignalsApart, NEW ch, Placed(ch), Kept(ch), NEW base \in Block,
         NEW c \in ClearBlocks(ch), WithinTransition(c, base),
         NEW s \in ch.aset.standard, IsDescendentOf(c, s), Follows(s, base),
         NEW r \in ch.aset.standard, OnBranch(r, s)
  PROVE  Number[base] <= EffectiveNumber(r)
<1>1. /\ r \in Block /\ s \in Block /\ c \in Block /\ signal[r] # None
      /\ Number[r] \in Nat /\ Number[base] \in Nat /\ EffectiveNumber(r) \in Nat
      /\ Number[r] <= EffectiveNumber(r) /\ ~OnBranch(r, c)
  BY PendingNumbers, TreeAssumption, Zenon DEF ClearBlocks, Placed
<1>2. OnBranch(r, base) \/ OnBranch(base, r)
  <2>1. CASE OnBranch(s, base)
    BY <1>1, <2>1, BranchFacts, Zenon
  <2>2. CASE IsDescendentOf(base, s)
    BY <1>1, <2>2, AncestorsCompare, Zenon DEF OnBranch
  <2> QED BY <2>1, <2>2 DEF Follows
<1>3. CASE OnBranch(base, r)
  <2>1. Number[base] <= Number[r]
    BY <1>1, <1>3, BranchFacts, Zenon
  <2> QED BY <1>1, <2>1
<1>4. CASE OnBranch(r, base)
  <2>1. IsDescendentOf(c, r) /\ r # c
    BY <1>1, AncestorsCompare DEF OnBranch
  <2>2. r \in Signals(base)
    BY <1>1, <1>4 DEF Signals, OnBranch, IsDescendentOf
  <2> QED BY <2>1, <2>2 DEF WithinTransition
<1> QED BY <1>2, <1>3, <1>4

\* So the limits that are read for that block hold the number of the root.
LEMMA LimitedByRoot ==
  ASSUME SignalsApart, NEW ch, Placed(ch), Kept(ch), NEW as, as.standard = ch.aset.standard,
         NEW base \in Block, NEW c \in ClearBlocks(ch), WithinTransition(c, base),
         NEW s \in ch.aset.standard, IsDescendentOf(c, s), Follows(s, base)
  PROVE  \E n \in CurrentLimits(as, Number[base]) : n <= EffectiveNumber(s)
<1>1. PICK standard : standard = ch.aset.standard
  OBVIOUS
<1>2. standard \in SUBSET Block /\ s \in standard /\ s \in Block
  BY <1>1, KeptPlaces
<1>3. PICK r \in Roots(standard) : OnBranch(r, s)
  BY <1>2, RootAbove, Zenon
<1>4. r \in ch.aset.standard
  BY <1>1, <1>3, Zenon DEF Roots
<1>5. EffectiveNumber(r) <= EffectiveNumber(s) /\ Number[base] <= EffectiveNumber(r)
  BY <1>3, <1>4, RootBefore, RootNotPassed, Zenon
<1>6. EffectiveNumber(r) >= Number[base]
  BY <1>4, <1>5, PendingNumbers, TreeAssumption
<1>7. EffectiveNumber(r) \in CurrentLimits(as, Number[base])
  BY <1>1, <1>3, <1>6, Zenon DEF CurrentLimits
<1> QED BY <1>5, <1>7, Zenon

-----------------------------------------------------------------------------
(***************************************************************************)
(* The inductive invariant of the set in memory and on disk                *)
(***************************************************************************)
\* Forced changes are on different branches, which CanAddPendingChange sees to, so
\* that there is a first among those that are due.
ForcedApart(forced) == \A c, d \in forced : ~IsDescendentOf(c, d)

\* A set whose changes were signalled in some of the blocks.
Sound(s, blocks) ==
  /\ s \in SetState
  /\ s.standard \subseteq blocks
  /\ s.forced \subseteq blocks
  /\ ForcedApart(s.forced)
  /\ ForcedSignals(s.forced)
  /\ Len(s.changes) = s.id

\* The set in memory, while the block that changes it is being written: the
\* authorities are those on disk or those of a forced change due at the block.
ForcedBy(old, new, b, c) ==
  /\ signal[c] \in Signal /\ signal[c].kind = "forced"
  /\ OnBranch(c, b)
  /\ EffectiveNumber(c) = Number[b]
  /\ \A r \in Roots(old.standard) :
        EffectiveNumber(r) <= signal[c].median => ~IsDescendentOf(r, c)
  /\ new.authorities = c
  /\ new.id = old.id + 1
  /\ Len(new.changes) = new.id
  /\ new.changes[new.id][1] = old.id

MadeFrom(old, new, b) ==
  new.id # old.id => \E c \in Block : ForcedBy(old, new, b, c)

ChainShape(c) ==
  c = [blocks |-> c.blocks, finalized |-> c.finalized, aset |-> c.aset, state |-> c.state]

Verifying(im) ==
  im.pc \in {"verify", "verify authorities", "finalize"} =>
    /\ im.block \in Block
    /\ im = [pc |-> im.pc, block |-> im.block,
             justification |-> im.justification, enacts |-> im.enacts]

Importing(lk, ch, im) ==
  im.pc = "importing" => Fresh(im.block, ch.blocks) /\ (lk <=> im.old # None)

WhileLocked(as, lk, ch, im) ==
  lk => /\ im.pc = "importing"
        /\ Sound(im.old, ch.blocks)
        /\ Written(im.old) = Written(ch.aset)
        /\ Sound(as, ch.blocks \cup {im.block})
        /\ MadeFrom(ch.aset, as, im.block)

WhileOpen(as, lk, ch) ==
  ~lk => Sound(as, ch.blocks) /\ Written(as) = Written(ch.aset)

SoundChain(ch) ==
  /\ ChainShape(ch)
  /\ ch.blocks \subseteq Block
  /\ Connected(ch.blocks)
  /\ Sound(ch.aset, ch.blocks)

\* Of the shared set, its lock, the database and the import worker.
Consistent(as, lk, ch, im) ==
  /\ lk \in BOOLEAN
  /\ SoundChain(ch)
  /\ Verifying(im)
  /\ Importing(lk, ch, im)
  /\ WhileLocked(as, lk, ch, im)
  /\ WhileOpen(as, lk, ch)

IInv == SignalType /\ Consistent(aset, locked, chain, importer)

-----------------------------------------------------------------------------
(***************************************************************************)
(* Sets and their fields                                                   *)
(***************************************************************************)
\* Two sets that are written the same differ in the best finalized number only.
LEMMA WrittenTheSame ==
  ASSUME NEW s \in SetState, NEW t \in SetState
  PROVE  Written(s) = Written(t) <=>
           /\ s.id = t.id /\ s.authorities = t.authorities /\ s.standard = t.standard
           /\ s.forced = t.forced /\ s.changes = t.changes
BY DEF Written, SetState

PrunedTo(new, s, nodes, n, forced) ==
  new = [s EXCEPT !.standard = nodes, !.bestFinalized = n, !.forced = forced]

EnactedTo(new, s, c, changes) ==
  new = [s EXCEPT !.id = s.id + 1, !.authorities = c, !.changes = changes]

LEMMA PrunedFields ==
  ASSUME NEW s \in SetState, NEW nodes \in SUBSET Block, NEW forced \in SUBSET Block,
         NEW n \in Int, NEW new, PrunedTo(new, s, nodes, n, forced)
  PROVE  /\ new \in SetState
         /\ new.id = s.id /\ new.changes = s.changes /\ new.authorities = s.authorities
         /\ new.standard = nodes /\ new.forced = forced
BY Zenon DEF PrunedTo, SetState

LEMMA EnactedFields ==
  ASSUME NEW s \in SetState, NEW c \in Block, NEW changes \in Seq(Nat \X Nat),
         NEW new, EnactedTo(new, s, c, changes)
  PROVE  /\ new \in SetState
         /\ new.id = s.id + 1 /\ new.authorities = c /\ new.changes = changes
         /\ new.standard = s.standard /\ new.forced = s.forced
<1>1. s.id + 1 \in Nat
  BY DEF SetState
<1> QED BY <1>1, Zenon DEF EnactedTo, SetState

LEMMA SoundGrows ==
  ASSUME NEW s, NEW blocks, NEW more, blocks \subseteq more, Sound(s, blocks)
  PROVE  Sound(s, more)
BY DEF Sound

-----------------------------------------------------------------------------
(***************************************************************************)
(* The operations of the authority set                                     *)
(***************************************************************************)
LEMMA AddedSound ==
  ASSUME NEW blocks \in SUBSET Block, Connected(blocks), NEW s, Sound(s, blocks),
         NEW b, Fresh(b, blocks), signal[b] \in Signal, CanAddPendingChange(s, b)
  PROVE  LET added == AddPendingChange(s, b) IN
         /\ Sound(added, blocks \cup {b})
         /\ added.id = s.id /\ added.changes = s.changes
         /\ Roots(s.standard) \subseteq Roots(added.standard)
<1> DEFINE added == AddPendingChange(s, b)
<1>1. /\ \A c \in blocks : ~IsDescendentOf(b, c)
      /\ ~IsDescendentOf(b, b)
  BY FreshConnected, Zenon
<1>2. CASE signal[b].kind = "standard"
  <2>1. added = [s EXCEPT !.standard = s.standard \cup {b}]
    BY <1>2 DEF AddPendingChange
  <2>2. /\ added \in SetState /\ added.id = s.id /\ added.changes = s.changes
        /\ added.forced = s.forced /\ added.standard = s.standard \cup {b}
    <3>1. s \in SetState /\ s.standard \cup {b} \in SUBSET Block
      BY DEF Sound, SetState, Fresh
    <3> QED BY <2>1, <3>1, Zenon DEF SetState
  <2>3. Sound(added, blocks \cup {b})
    BY <2>2 DEF Sound
  <2>4. Roots(s.standard) \subseteq Roots(added.standard)
    BY <1>1, <2>2 DEF Roots, Sound
  <2> QED BY <2>2, <2>3, <2>4
<1>3. CASE signal[b].kind # "standard"
  <2>1. added = [s EXCEPT !.forced = s.forced \cup {b}]
    BY <1>3 DEF AddPendingChange
  <2>2. /\ added \in SetState /\ added.id = s.id /\ added.changes = s.changes
        /\ added.forced = s.forced \cup {b} /\ added.standard = s.standard
    <3>1. s \in SetState /\ s.forced \cup {b} \in SUBSET Block
      BY DEF Sound, SetState, Fresh
    <3> QED BY <2>1, <3>1, Zenon DEF SetState
  <2>3. ForcedApart(added.forced)
    BY <1>1, <1>3, <2>2 DEF ForcedApart, CanAddPendingChange, Sound, OnBranch
  <2>4. ForcedSignals(added.forced)
    BY <1>3, <2>2 DEF ForcedSignals, Sound, Signal, Fresh
  <2> QED BY <2>2, <2>3, <2>4 DEF Sound
<1> QED BY <1>2, <1>3

LEMMA ForcedDueFirst ==
  ASSUME NEW s, NEW blocks, Sound(s, blocks), NEW b, ForcedDue(s, b) # {}
  PROVE  First(ForcedDue(s, b)) \in ForcedDue(s, b)
<1>1. ForcedApart(ForcedDue(s, b))
  BY DEF ForcedDue, ForcedApart, Sound
<1> QED BY <1>1, FirstIsThere DEF ForcedApart

LEMMA ForceChangeSound ==
  ASSUME NEW s, NEW blocks \in SUBSET Block, Sound(s, blocks), NEW c \in s.forced
  PROVE  LET new == ForceChange(s, c) IN
         /\ Sound(new, blocks)
         /\ new.id = s.id + 1
         /\ new.authorities = c
         /\ Len(new.changes) = new.id
         /\ new.changes[new.id][1] = s.id
<1> DEFINE new == ForceChange(s, c)
<1>1. /\ c \in Block /\ signal[c].median \in Nat
      /\ s.id \in Nat /\ s.changes \in Seq(Nat \X Nat) /\ Len(s.changes) = s.id
  BY DEF Sound, SetState, ForcedSignals, Signal
<1>2. /\ new.id = s.id + 1 /\ new.authorities = c /\ new.standard = {} /\ new.forced = {}
      /\ new.changes = Append(s.changes, <<s.id, signal[c].median>>)
  BY DEF ForceChange
<1>3. <<s.id, signal[c].median>> \in Nat \X Nat
  BY <1>1
<1>4. /\ new.changes \in Seq(Nat \X Nat)
      /\ Len(new.changes) = s.id + 1
      /\ new.changes[s.id + 1] = <<s.id, signal[c].median>>
  BY <1>1, <1>2, <1>3
<1>5. new \in SetState
  BY <1>1, <1>2, <1>4 DEF ForceChange, SetState
<1>6. Sound(new, blocks)
  BY <1>2, <1>4, <1>5 DEF Sound, ForcedApart, ForcedSignals
<1> QED BY <1>2, <1>4, <1>6

\* make_authorities_changes: the set with the change of the block's digest.
WithChange(s, b) == IF signal[b] # None THEN AddPendingChange(s, b) ELSE s

LEMMA WithChangeFields ==
  ASSUME SignalType, NEW s \in SetState, NEW b \in Block \ {Genesis}, NEW added,
         added = WithChange(s, b)
  PROVE  /\ added.id = s.id /\ added.authorities = s.authorities /\ added.changes = s.changes
         /\ added.forced \subseteq s.forced \cup {b}
         /\ added.standard = s.standard \cup {c \in {b} : SignalsStandard(c)}
<1>1. CASE signal[b] = None
  <2>1. {c \in {b} : SignalsStandard(c)} = {}
    BY <1>1, NoneIsNoSignal DEF SignalsStandard
  <2> QED BY <1>1, <2>1 DEF WithChange
<1>2. CASE signal[b] # None /\ signal[b].kind = "standard"
  <2>1. {c \in {b} : SignalsStandard(c)} = {b}
    BY <1>2 DEF SignalsStandard, SignalType
  <2>2. added = [s EXCEPT !.standard = s.standard \cup {b}]
    BY <1>2 DEF WithChange, AddPendingChange
  <2> QED BY <2>1, <2>2 DEF SetState
<1>3. CASE signal[b] # None /\ signal[b].kind # "standard"
  <2>1. {c \in {b} : SignalsStandard(c)} = {}
    BY <1>3 DEF SignalsStandard
  <2>2. added = [s EXCEPT !.forced = s.forced \cup {b}]
    BY <1>3 DEF WithChange, AddPendingChange
  <2> QED BY <2>1, <2>2 DEF SetState
<1> QED BY <1>1, <1>2, <1>3

LEMMA WithChangeSound ==
  ASSUME SignalType, NEW blocks \in SUBSET Block, Connected(blocks), NEW s, Sound(s, blocks),
         NEW b, Fresh(b, blocks), signal[b] # None => CanAddPendingChange(s, b)
  PROVE  /\ Sound(WithChange(s, b), blocks \cup {b})
         /\ Roots(s.standard) \subseteq Roots(WithChange(s, b).standard)
<1>1. CASE signal[b] = None
  BY <1>1, SoundGrows DEF WithChange
<1>2. CASE signal[b] # None
  <2>1. signal[b] \in Signal
    BY <1>2, Zenon DEF SignalType, Fresh
  <2> QED BY <1>2, <2>1, AddedSound DEF WithChange
<1> QED BY <1>1, <1>2

LEMMA MadeCases ==
  ASSUME NEW b, MakeAuthoritiesChanges(b).ok, NEW added, added = WithChange(aset, b),
         NEW due, due = First(ForcedDue(added, b))
  PROVE  LET made == MakeAuthoritiesChanges(b) IN
         /\ signal[b] # None => CanAddPendingChange(aset, b)
         /\ \/ /\ made.set = added /\ made.changed = (signal[b] # None)
               /\ ForcedDue(added, b) = {}
            \/ /\ made.set = ForceChange(added, due) /\ made.changed = TRUE
               /\ ForcedDue(added, b) # {} /\ ~DependsOnStandard(added, due)
BY ZenonT(30) DEF MakeAuthoritiesChanges, ApplyForcedChanges, WithChange, Failed

\* The forced change that is due at a block.
ForcedTo(added, b, due, new) ==
  ForcedDue(added, b) # {} /\ due = First(ForcedDue(added, b)) /\ new = ForceChange(added, due)

LEMMA ForceDue ==
  ASSUME NEW blocks \in SUBSET Block, NEW added, Sound(added, blocks), NEW b, NEW due, NEW new,
         ForcedTo(added, b, due, new)
  PROVE  /\ due \in added.forced /\ ForcedAt(b, due) /\ Sound(new, blocks)
         /\ new.id = added.id + 1 /\ new.authorities = due
         /\ new.standard = {} /\ new.forced = {}
         /\ Len(new.changes) = new.id /\ new.changes[new.id][1] = added.id
<1>1. due \in added.forced /\ OnBranch(due, b) /\ EffectiveNumber(due) = Number[b]
  BY ForcedDueFirst, Zenon DEF ForcedDue, ForcedTo
<1>2. due \in Block \ {Genesis} /\ signal[due] \in Signal /\ signal[due].kind = "forced"
  BY <1>1, Zenon DEF Sound, ForcedSignals
<1>3. new.standard = {} /\ new.forced = {}
  BY DEF ForceChange, ForcedTo
<1>4. /\ Sound(new, blocks) /\ new.id = added.id + 1 /\ new.authorities = due
      /\ Len(new.changes) = new.id /\ new.changes[new.id][1] = added.id
  BY <1>1, ForceChangeSound DEF ForcedTo
<1> QED BY <1>1, <1>2, <1>3, <1>4, Zenon DEF ForcedAt

\* What make_authorities_changes returns for a block that is not there yet.
LEMMA MadeSound ==
  ASSUME SignalType, NEW b,
         SoundChain(chain), Fresh(b, chain.blocks), Sound(aset, chain.blocks),
         MakeAuthoritiesChanges(b).ok
  PROVE  LET made == MakeAuthoritiesChanges(b) IN
         /\ made.changed \in BOOLEAN
         /\ Sound(made.set, chain.blocks \cup {b})
         /\ MadeFrom(aset, made.set, b)
         /\ ~made.changed => made.set = aset
<1> DEFINE made == MakeAuthoritiesChanges(b)
<1>1. PICK added : added = WithChange(aset, b)
  OBVIOUS
<1>2. PICK due : due = First(ForcedDue(added, b))
  OBVIOUS
<1>3. /\ signal[b] # None => CanAddPendingChange(aset, b)
      /\ \/ /\ made.set = added /\ made.changed = (signal[b] # None)
            /\ ForcedDue(added, b) = {}
         \/ /\ made.set = ForceChange(added, due) /\ made.changed = TRUE
            /\ ForcedDue(added, b) # {} /\ ~DependsOnStandard(added, due)
  BY <1>1, <1>2, MadeCases, Zenon
<1> HIDE DEF made
<1>4. /\ Sound(added, chain.blocks \cup {b}) /\ added.id = aset.id
      /\ Roots(aset.standard) \subseteq Roots(added.standard)
  <2>1. Sound(added, chain.blocks \cup {b}) /\ Roots(aset.standard) \subseteq Roots(added.standard)
    BY <1>1, <1>3, WithChangeSound DEF SoundChain
  <2>2. added.id = aset.id
    BY <1>1, WithChangeFields, Zenon DEF Sound, Fresh
  <2> QED BY <2>1, <2>2
<1>5. CASE made.set = added /\ made.changed = (signal[b] # None)
  <2>1. ~made.changed => made.set = aset
    BY <1>1, <1>5, Zenon DEF WithChange
  <2> QED BY <1>4, <1>5, <2>1 DEF MadeFrom, made
<1>6. CASE /\ made.set = ForceChange(added, due) /\ made.changed = TRUE
           /\ ForcedDue(added, b) # {} /\ ~DependsOnStandard(added, due)
  <2> DEFINE blocks == chain.blocks \cup {b}
  <2>1. blocks \in SUBSET Block /\ Sound(added, blocks)
    BY <1>4 DEF SoundChain, Fresh
  <2> HIDE DEF blocks
  <2>2. /\ ForcedAt(b, due) /\ Sound(made.set, blocks)
        /\ made.set.id = added.id + 1 /\ made.set.authorities = due
        /\ Len(made.set.changes) = made.set.id /\ made.set.changes[made.set.id][1] = added.id
    <3>1. ForcedTo(added, b, due, made.set)
      BY <1>2, <1>6 DEF ForcedTo
    <3> QED BY <2>1, <3>1, ForceDue, ZenonT(30)
  <2>3. \A r \in Roots(aset.standard) :
           EffectiveNumber(r) <= signal[due].median => ~IsDescendentOf(r, due)
    BY <1>4, <1>6 DEF DependsOnStandard
  <2>4. due \in Block /\ ForcedBy(aset, made.set, b, due)
    BY <1>4, <2>2, <2>3, Zenon DEF ForcedBy, ForcedAt
  <2> QED BY <1>6, <2>2, <2>4, Zenon DEF MadeFrom, made, blocks
<1> QED BY <1>3, <1>5, <1>6, Zenon

\* It reports nothing only when the block signals nothing.
LEMMA MadeGrown ==
  ASSUME SignalType, NEW b,
         SoundChain(chain), Fresh(b, chain.blocks), Sound(aset, chain.blocks),
         MakeAuthoritiesChanges(b).ok
  PROVE  LET made == MakeAuthoritiesChanges(b) IN
         /\ Grown(aset, made.set, chain.blocks, b)
         /\ ~made.changed => signal[b] = None /\ NoneAt(aset.forced, b)
<1> DEFINE made == MakeAuthoritiesChanges(b)
<1>1. PICK added : added = WithChange(aset, b)
  OBVIOUS
<1>2. PICK due : due = First(ForcedDue(added, b))
  OBVIOUS
<1>3. /\ signal[b] # None => CanAddPendingChange(aset, b)
      /\ \/ /\ made.set = added /\ made.changed = (signal[b] # None)
            /\ ForcedDue(added, b) = {}
         \/ /\ made.set = ForceChange(added, due) /\ made.changed = TRUE
            /\ ForcedDue(added, b) # {}
  BY <1>1, <1>2, MadeCases, ZenonT(30)
<1> HIDE DEF made
<1>4. /\ added.id = aset.id /\ added.authorities = aset.authorities
      /\ added.forced \subseteq aset.forced \cup {b}
      /\ added.standard = aset.standard \cup {c \in {b} : SignalsStandard(c)}
  BY <1>1, WithChangeFields DEF Sound, Fresh
<1>5. Sound(added, chain.blocks \cup {b})
  BY <1>1, <1>3, WithChangeSound, Zenon DEF SoundChain
<1>6. CASE /\ made.set = added /\ made.changed = (signal[b] # None)
           /\ ForcedDue(added, b) = {}
  <2>1. NoneAt(added.forced, b) /\ ForcedSignals(added.forced)
    BY <1>5, <1>6 DEF ForcedDue, NoneAt, Sound
  <2>2. ~made.changed => signal[b] = None /\ added = aset
    BY <1>1, <1>6, Zenon DEF WithChange
  <2>3. SetAdded(aset, added, b)
    BY <1>4, <2>1, Zenon DEF SetAdded
  <2> QED BY <1>6, <2>1, <2>2, <2>3, Zenon DEF Grown, made
<1>7. CASE /\ made.set = ForceChange(added, due) /\ made.changed = TRUE
           /\ ForcedDue(added, b) # {}
  <2> DEFINE blocks == chain.blocks \cup {b}
  <2>1. blocks \in SUBSET Block /\ Sound(added, blocks)
    BY <1>5, Zenon DEF SoundChain, Fresh
  <2> HIDE DEF blocks
  <2>2. /\ due \in added.forced /\ ForcedAt(b, due)
        /\ made.set.id = added.id + 1 /\ made.set.authorities = due
        /\ made.set.standard = {} /\ made.set.forced = {}
    <3>1. ForcedTo(added, b, due, made.set)
      BY <1>2, <1>7 DEF ForcedTo
    <3> QED BY <2>1, <3>1, ForceDue, ZenonT(30)
  <2>3. due \in chain.blocks \cup {b}
    BY <1>5, <2>2 DEF Sound
  <2> QED BY <1>4, <1>7, <2>2, <2>3, Zenon DEF Grown, SetForced, made
<1> QED BY <1>3, <1>6, <1>7, Zenon


\* apply_standard_changes: what it reports as changed is all that has to be
\* written, and a change it enacts was the lowest of its branch.
LEMMA StandardApplied ==
  ASSUME NEW s, NEW blocks \in SUBSET Block, Sound(s, blocks), NEW b \in Block,
         ApplyStandardChanges(s, b).ok
  PROVE  LET applied == ApplyStandardChanges(s, b)
             new == applied.set
         IN
         /\ Sound(new, blocks)
         /\ ~applied.changed => Written(new) = Written(s)
         /\ applied.changed \in BOOLEAN
         /\ new.id # s.id =>
              /\ new.id = s.id + 1
              /\ Len(new.changes) = new.id
              /\ new.changes[new.id][1] = s.id
              /\ new.authorities \in Roots(s.standard)
              /\ OnBranch(new.authorities, b)
              /\ EffectiveNumber(new.authorities) <= Number[b]
<1> DEFINE applied == ApplyStandardChanges(s, b)
           r == FinalizeIf(s.standard, b, Due(s, b))
           new == applied.set
           first == First(r.final)
           forced == IF r.changed THEN KeptForced(s, b) ELSE s.forced
           pruned == [s EXCEPT !.standard = r.nodes, !.bestFinalized = Number[b],
                               !.forced = forced]
           enacted == [pruned EXCEPT !.id = pruned.id + 1, !.authorities = first,
                                     !.changes = Append(pruned.changes, <<s.id, Number[b]>>)]
<1>1. /\ s \in SetState /\ s.standard \in SUBSET blocks /\ s.forced \in SUBSET blocks
      /\ s.id \in Nat /\ s.changes \in Seq(Nat \X Nat) /\ Len(s.changes) = s.id
      /\ Number[b] \in Nat
  BY TreeAssumption, Zenon DEF Sound, SetState
<1>2. /\ r.nodes \in SUBSET s.standard
      /\ r.changed \in BOOLEAN
      /\ r.final \in SUBSET Roots(s.standard)
      /\ \A c \in r.final : OnBranch(c, b) /\ EffectiveNumber(c) <= Number[b]
      /\ ~r.changed => r.final = {} /\ r.nodes = s.standard
  BY Zenon DEF FinalizeIf, Retained, Below, Due
<1>3. applied.changed = r.changed /\ new = IF r.final = {} THEN pruned ELSE enacted
  BY DEF ApplyStandardChanges, Failed
<1> HIDE DEF r
<1>4. /\ forced \in SUBSET s.forced
      /\ ForcedApart(forced) /\ ForcedSignals(forced)
  BY DEF KeptForced, Sound, ForcedApart, ForcedSignals
<1> HIDE DEF forced
<1>5. /\ pruned \in SetState
      /\ pruned.id = s.id /\ pruned.changes = s.changes /\ pruned.authorities = s.authorities
      /\ pruned.standard = r.nodes /\ pruned.forced = forced
  <2>1. r.nodes \in SUBSET Block /\ forced \in SUBSET Block /\ Number[b] \in Int
    BY <1>1, <1>2, <1>4
  <2>2. PrunedTo(pruned, s, r.nodes, Number[b], forced)
    BY DEF PrunedTo
  <2> HIDE DEF pruned
  <2> QED BY <2>1, <2>2, <1>1, PrunedFields
<1>6. Sound(pruned, blocks)
  BY <1>1, <1>2, <1>4, <1>5 DEF Sound
<1>7. CASE r.final = {}
  <2>1. new = pruned
    BY <1>3, <1>7, Zenon
  <2>2. ~r.changed => Written(new) = Written(s)
    <3>1. ~r.changed => forced = s.forced
      BY DEF forced
    <3> HIDE DEF pruned
    <3> QED BY <3>1, <2>1, <1>1, <1>2, <1>5, WrittenTheSame
  <2> HIDE DEF pruned
  <2> QED BY <2>1, <2>2, <1>2, <1>3, <1>5, <1>6
<1>8. CASE r.final # {}
  <2>1. new = enacted
    BY <1>3, <1>8
  <2>2. first \in r.final
    BY <1>2, <1>8, FirstIsThere, Zenon DEF Roots
  <2>3. first \in Roots(s.standard) /\ first \in Block
    BY <2>2, <1>1, <1>2 DEF Roots
  <2> HIDE DEF first
  <2>4. <<s.id, Number[b]>> \in Nat \X Nat
    BY <1>1
  <2> DEFINE longer == Append(s.changes, <<s.id, Number[b]>>)
  <2>5. /\ longer \in Seq(Nat \X Nat) /\ Len(longer) = s.id + 1
        /\ longer[s.id + 1] = <<s.id, Number[b]>>
    BY <2>4, <1>1
  <2>6. /\ new \in SetState
        /\ new.id = s.id + 1 /\ new.authorities = first /\ new.changes = longer
        /\ new.standard = r.nodes /\ new.forced = forced
    <3>1. EnactedTo(new, pruned, first, longer)
      BY <2>1, <1>5, Zenon DEF EnactedTo
    <3> HIDE DEF new, pruned, longer
    <3> QED BY <3>1, <2>3, <2>5, <1>5, EnactedFields
  <2> HIDE DEF pruned, longer
  <2>7. Sound(new, blocks)
    BY <2>5, <2>6, <1>1, <1>2, <1>4 DEF Sound
  <2>8. /\ Len(new.changes) = new.id
        /\ new.changes[new.id][1] = s.id
    BY <2>5, <2>6
  <2> QED BY <2>2, <2>3, <2>6, <2>7, <2>8, <1>2, <1>3, <1>8
<1> QED BY <1>7, <1>8, Zenon

-----------------------------------------------------------------------------
(***************************************************************************)
(* The steps                                                               *)
(***************************************************************************)
StepInv == Consistent(aset', locked', chain', importer') /\ EnactsInOrder

\* Digests do not change, so the invariant can be stated of the new values.
LEMMA NextInv ==
  ASSUME SignalType, signal' = signal, Consistent(aset', locked', chain', importer')
  PROVE  IInv'
BY ZenonT(30) DEF IInv, SignalType, Consistent, SoundChain, Verifying, Importing, WhileLocked,
       WhileOpen, ChainShape, Connected, Sound, ForcedApart, ForcedSignals, MadeFrom,
       ForcedBy, Fresh, Written, Roots, IsDescendentOf, OnBranch, EffectiveNumber,
       SetState, Signal

LEMMA SameSet ==
  ASSUME SoundChain(chain), chain'.aset = chain.aset
  PROVE  EnactsInOrder
BY Zenon DEF EnactsInOrder

LEMMA ImportBlockStep ==
  ASSUME IInv, NEW b \in Block \ {Genesis}, NEW j, ImportBlock(b, j)
  PROVE  StepInv
<1> DEFINE made == MakeAuthoritiesChanges(b)
<1>1. /\ SignalType /\ SoundChain(chain) /\ Fresh(b, chain.blocks)
      /\ Sound(aset, chain.blocks) /\ Written(aset) = Written(chain.aset)
      /\ made.ok
  BY Zenon DEF IInv, Consistent, WhileOpen, ImportBlock, Fresh
<1>2. /\ made.changed \in BOOLEAN
      /\ Sound(made.set, chain.blocks \cup {b})
      /\ MadeFrom(aset, made.set, b)
      /\ ~made.changed => made.set = aset
  BY <1>1, MadeSound, Zenon
<1>3. /\ aset' = made.set /\ locked' = made.changed /\ chain' = chain
      /\ importer'.pc = "importing" /\ importer'.block = b
      /\ importer'.old = IF made.changed THEN aset ELSE None
  BY DEF ImportBlock, Locks
<1> HIDE DEF made
<1>4. aset # None
  BY <1>1, NoneIsNoSet DEF Sound
<1>5. MadeFrom(chain.aset, made.set, b)
  <2>1. aset.id = chain.aset.id /\ aset.standard = chain.aset.standard
    BY <1>1, WrittenTheSame DEF SoundChain, Sound
  <2> QED BY <1>2, <2>1 DEF MadeFrom, ForcedBy
<1>6. Consistent(aset', locked', chain', importer')
  BY <1>1, <1>2, <1>3, <1>4, <1>5
  DEF Consistent, Verifying, Importing, WhileLocked, WhileOpen
<1> QED BY <1>1, <1>3, <1>6, SameSet DEF StepInv

LEMMA BlockImportedStep ==
  ASSUME IInv, BlockImported
  PROVE  StepInv
<1> DEFINE b == importer.block
           blocks == chain.blocks \cup {b}
<1>1. /\ importer.pc = "importing" /\ Fresh(b, chain.blocks) /\ SoundChain(chain)
      /\ chain.blocks \in SUBSET Block /\ Connected(chain.blocks)
      /\ locked <=> importer.old # None
  BY Zenon DEF IInv, Consistent, Importing, SoundChain, BlockImported
<1>2. blocks \in SUBSET Block /\ Connected(blocks)
  BY <1>1, FreshConnected DEF Fresh
<1>3. /\ chain'.blocks = blocks /\ ChainShape(chain') /\ chain'.finalized = chain.finalized
      /\ chain'.aset = IF importer.old # None THEN aset ELSE chain.aset
  BY <1>1, Zenon DEF BlockImported, WithBlock, SoundChain, ChainShape
<1>4. Sound(aset, blocks) /\ Sound(chain.aset, blocks)
  <2>1. Sound(chain.aset, blocks)
    BY <1>1, SoundGrows DEF SoundChain
  <2>2. Sound(aset, blocks)
    BY SoundGrows DEF IInv, Consistent, WhileLocked, WhileOpen
  <2> QED BY <2>1, <2>2
<1>5. aset' = aset /\ ~locked' /\ locked' \in BOOLEAN
  BY ZenonT(60) DEF BlockImported
<1>6. Written(aset') = Written(chain'.aset)
  BY <1>1, <1>3, <1>5, Zenon DEF IInv, Consistent, WhileOpen
<1>7. Verifying(importer') /\ importer'.pc # "importing"
  BY <1>1, Zenon DEF BlockImported, AfterImport, Idle, Verifying, Fresh
<1>8. Consistent(aset', locked', chain', importer')
  BY <1>2, <1>3, <1>4, <1>5, <1>6, <1>7, ZenonT(30)
  DEF Consistent, SoundChain, Importing, WhileLocked, WhileOpen
<1>9. EnactsInOrder
  <2>1. SUFFICES ASSUME importer.old # None, aset.id # chain.aset.id
                 PROVE  EnactsInOrder
    BY <1>3 DEF EnactsInOrder
  <2>2. PICK c \in Block : ForcedBy(chain.aset, aset, b, c)
    BY <2>1, <1>1 DEF IInv, Consistent, WhileLocked, MadeFrom
  <2>3. chain'.aset = aset /\ b \in chain'.blocks \ chain.blocks
    BY <2>1, <1>1, <1>3 DEF Fresh
  <2> QED BY <2>2, <2>3 DEF EnactsInOrder, ForcedBy
<1> QED BY <1>8, <1>9 DEF StepInv

LEMMA BlockImportFailsStep ==
  ASSUME IInv, BlockImportFails
  PROVE  StepInv
<1>1. /\ importer.pc = "importing" /\ SoundChain(chain)
      /\ locked <=> importer.old # None
  BY DEF IInv, Consistent, Importing, BlockImportFails
<1>2. Sound(aset', chain.blocks) /\ Written(aset') = Written(chain.aset)
  BY <1>1 DEF BlockImportFails, RestoreOld, IInv, Consistent, WhileLocked, WhileOpen
<1>3. /\ chain' = chain /\ ~locked' /\ locked' \in BOOLEAN /\ importer'.pc = "idle"
  BY ZenonT(60) DEF BlockImportFails, Idle
<1>4. Consistent(aset', locked', chain', importer')
  BY <1>1, <1>2, <1>3, Zenon DEF Consistent, Verifying, Importing, WhileLocked, WhileOpen
<1> QED BY <1>1, <1>3, <1>4, SameSet DEF StepInv

\* finalize_block, in the import worker or in the voter.
LEMMA FinalizeStep ==
  ASSUME IInv, ~locked, NEW b \in Block, Finalize(b)
  PROVE  /\ SoundChain(chain') /\ chain'.blocks = chain.blocks
         /\ Sound(aset', chain'.blocks) /\ Written(aset') = Written(chain'.aset)
         /\ EnactsInOrder
<1> DEFINE applied == ApplyStandardChanges(aset, b)
<1>1. /\ SoundChain(chain) /\ chain.blocks \in SUBSET Block
      /\ Sound(aset, chain.blocks) /\ Written(aset) = Written(chain.aset)
      /\ applied.ok
  BY DEF IInv, Consistent, SoundChain, WhileOpen, Finalize, Finalizable
<1>2. /\ Sound(applied.set, chain.blocks)
      /\ ~applied.changed => Written(applied.set) = Written(aset)
      /\ applied.changed \in BOOLEAN
      /\ applied.set.id # aset.id =>
           /\ applied.set.id = aset.id + 1
           /\ Len(applied.set.changes) = applied.set.id
           /\ applied.set.changes[applied.set.id][1] = aset.id
           /\ applied.set.authorities \in Roots(aset.standard)
           /\ OnBranch(applied.set.authorities, b)
           /\ EffectiveNumber(applied.set.authorities) <= Number[b]
  BY <1>1, StandardApplied, Zenon
<1>3. /\ aset' = applied.set
      /\ ChainShape(chain') /\ chain'.blocks = chain.blocks /\ chain'.finalized = b
      /\ chain'.aset = IF applied.changed THEN applied.set ELSE chain.aset
  BY <1>1, ZenonT(60) DEF Finalize, FinalizedChain, SoundChain, ChainShape
<1> HIDE DEF applied
<1>4. SoundChain(chain')
  BY <1>1, <1>2, <1>3, Zenon DEF SoundChain
<1>5. Written(aset') = Written(chain'.aset)
  BY <1>1, <1>2, <1>3
<1>6. aset.id = chain.aset.id /\ aset.standard = chain.aset.standard
  BY <1>1, WrittenTheSame DEF SoundChain, Sound
<1>7. EnactsInOrder
  BY <1>2, <1>3, <1>6, Zenon DEF EnactsInOrder
<1> QED BY <1>2, <1>3, <1>4, <1>5, <1>7, ZenonT(30)

\* A step that leaves the set and what the database has of it, and ends outside an
\* import.
LEMMA QuietStep ==
  ASSUME IInv, ~locked, aset' = aset, locked' = locked, chain' = chain,
         Verifying(importer'), importer'.pc # "importing"
  PROVE  StepInv
<1>1. Consistent(aset', locked', chain', importer')
  BY DEF IInv, Consistent, Importing, WhileLocked, WhileOpen
<1> QED BY <1>1, SameSet DEF StepInv, IInv, Consistent

LEMMA NotLocked ==
  ASSUME IInv, importer.pc # "importing"
  PROVE  ~locked
BY DEF IInv, Consistent, WhileLocked

LEMMA ImportJustificationStep ==
  ASSUME IInv, NEW b \in Block, NEW j, ImportJustification(b, j)
  PROVE  StepInv
BY NotLocked, QuietStep DEF ImportJustification, Verifying

LEMMA ReadSetIdStep ==
  ASSUME IInv, ReadSetId
  PROVE  StepInv
<1>1. Verifying(importer') /\ importer'.pc # "importing"
  BY Zenon DEF IInv, Consistent, ReadSetId, Verifying, Idle
<1> QED BY <1>1, QuietStep, Zenon DEF ReadSetId

LEMMA VerifyAuthoritiesStep ==
  ASSUME IInv, VerifyAuthorities
  PROVE  StepInv
<1>1. Verifying(importer') /\ importer'.pc # "importing"
  BY Zenon DEF IInv, Consistent, VerifyAuthorities, Verifying, Idle
<1> QED BY <1>1, QuietStep, Zenon DEF VerifyAuthorities

LEMMA JustifiedRefinalizesStep ==
  ASSUME IInv, JustifiedRefinalizes
  PROVE  StepInv
<1>1. Verifying(importer') /\ importer'.pc # "importing"
  BY DEF JustifiedRefinalizes, Verifying, Idle
<1> QED BY <1>1, QuietStep DEF JustifiedRefinalizes

LEMMA JustifiedFailsStep ==
  ASSUME IInv, JustifiedFails
  PROVE  StepInv
<1>1. Verifying(importer') /\ importer'.pc # "importing"
  BY Zenon DEF JustifiedFails, Verifying, Idle
<1> QED BY <1>1, QuietStep DEF JustifiedFails, RestoreSet

LEMMA JustifiedFinalizesStep ==
  ASSUME IInv, JustifiedFinalizes
  PROVE  StepInv
<1>1. /\ ~locked /\ locked' = locked /\ locked \in BOOLEAN
      /\ importer.block \in Block /\ Finalize(importer.block)
  BY DEF IInv, Consistent, Verifying, JustifiedFinalizes
<1>2. /\ SoundChain(chain') /\ Sound(aset', chain'.blocks)
      /\ Written(aset') = Written(chain'.aset) /\ EnactsInOrder
  BY <1>1, FinalizeStep
<1>3. Verifying(importer') /\ importer'.pc # "importing"
  BY DEF JustifiedFinalizes, Verifying, Idle
<1> QED BY <1>1, <1>2, <1>3 DEF StepInv, Consistent, Importing, WhileLocked, WhileOpen

LEMMA VoterFinalizesStep ==
  ASSUME IInv, NEW b \in Block, VoterFinalizes(b)
  PROVE  StepInv
<1>1. /\ ~locked /\ locked' = locked /\ locked \in BOOLEAN /\ importer' = importer
      /\ Finalize(b)
  BY DEF IInv, Consistent, VoterFinalizes
<1>2. /\ SoundChain(chain') /\ chain'.blocks = chain.blocks /\ Sound(aset', chain'.blocks)
      /\ Written(aset') = Written(chain'.aset) /\ EnactsInOrder
  BY <1>1, FinalizeStep
<1> QED BY <1>1, <1>2, Zenon DEF StepInv, IInv, Consistent, Importing, WhileLocked, WhileOpen

\* The steps of the voter that write nothing but its own state.
LEMMA VoterStateStep ==
  ASSUME IInv, NEW state, chain' = [chain EXCEPT !.state = state],
         aset' = aset, locked' = locked, importer' = importer
  PROVE  StepInv
<1>1. /\ ChainShape(chain') /\ chain'.blocks = chain.blocks /\ chain'.aset = chain.aset
  BY DEF IInv, Consistent, SoundChain, ChainShape
<1>2. Consistent(aset', locked', chain', importer')
  BY <1>1 DEF IInv, Consistent, SoundChain, Importing, WhileLocked, WhileOpen
<1> QED BY <1>1, <1>2, SameSet DEF StepInv, IInv, Consistent

LEMMA SameState ==
  ASSUME IInv, chain' = chain, aset' = aset, locked' = locked, importer' = importer
  PROVE  StepInv
BY SameSet DEF StepInv, IInv, Consistent

LEMMA HandleStep ==
  ASSUME IInv, NEW c, Handle(c), aset' = aset, locked' = locked, importer' = importer
  PROVE  StepInv
<1>1. CASE c.kind = "change"
  BY <1>1, VoterStateStep DEF Handle
<1>2. CASE c.kind # "change"
  BY <1>2, VoterStateStep DEF Handle
<1> QED BY <1>1, <1>2

LEMMA RestartStep ==
  ASSUME IInv, Restart
  PROVE  StepInv
<1>1. /\ chain' = chain /\ aset' = chain.aset /\ ~locked' /\ locked' \in BOOLEAN
      /\ importer'.pc = "idle"
  BY Zenon DEF Restart, Idle
<1>2. Consistent(aset', locked', chain', importer')
  BY <1>1, Zenon DEF IInv, Consistent, SoundChain, Verifying, Importing, WhileLocked, WhileOpen
<1> QED BY <1>1, <1>2, SameSet DEF StepInv, IInv, Consistent

\* The signals and the tip of the honest authorities never change.
LEMMA SignalsStay ==
  ASSUME [GrandpaNext]_vars
  PROVE  signal' = signal /\ tip' = tip
<1>1. CASE UNCHANGED vars
  BY <1>1 DEF vars
<1>2. CASE GrandpaNext
  BY <1>2, Zenon DEF GrandpaNext, ImportBlock, BlockImported, BlockImportFails,
              ImportJustification, ReadSetId, VerifyAuthorities, JustifiedRefinalizes,
              JustifiedFinalizes, JustifiedFails, VoterFinalizes, VoterRecords,
              HandleOwnCommand, HandleCommand, AskForVote, ReadLimit, Vote, Restart
<1> QED BY <1>1, <1>2

LEMMA NextStep ==
  ASSUME IInv, [GrandpaNext]_vars
  PROVE  IInv' /\ [EnactsInOrder]_vars
<1>1. CASE UNCHANGED vars
  BY <1>1, SameState, NextInv DEF vars, StepInv, IInv
<1>2. CASE GrandpaNext
  <2>1. signal' = signal
    BY SignalsStay
  <2>2. StepInv
    <3>1. ASSUME NEW b \in Block \ {Genesis}, NEW j \in Justified(b), ImportBlock(b, j)
          PROVE  StepInv
      BY <3>1, ImportBlockStep
    <3>2. CASE BlockImported
      BY <3>2, BlockImportedStep
    <3>3. CASE BlockImportFails
      BY <3>3, BlockImportFailsStep
    <3>4. ASSUME NEW b \in Block, NEW j \in Justifications(b), ImportJustification(b, j)
          PROVE  StepInv
      BY <3>4, ImportJustificationStep
    <3>5. CASE ReadSetId
      BY <3>5, ReadSetIdStep
    <3>6. CASE VerifyAuthorities
      BY <3>6, VerifyAuthoritiesStep
    <3>7. CASE JustifiedRefinalizes
      BY <3>7, JustifiedRefinalizesStep
    <3>8. CASE JustifiedFinalizes
      BY <3>8, JustifiedFinalizesStep
    <3>9. CASE JustifiedFails
      BY <3>9, JustifiedFailsStep
    <3>10. ASSUME NEW b \in Block, VoterFinalizes(b)
           PROVE  StepInv
      BY <3>10, VoterFinalizesStep
    <3>11. CASE VoterRecords
      BY <3>11, VoterStateStep DEF VoterRecords
    <3>12. CASE HandleOwnCommand
      BY <3>12, HandleStep DEF HandleOwnCommand
    <3>13. CASE HandleCommand
      BY <3>13, HandleStep DEF HandleCommand
    <3>14. CASE AskForVote
      BY <3>14, SameState DEF AskForVote
    <3>15. ASSUME NEW b \in Bases, ReadLimit(b)
           PROVE  StepInv
      BY <3>15, SameState DEF ReadLimit
    <3>16. CASE Vote
      BY <3>16, SameState DEF Vote
    <3>17. CASE Restart
      BY <3>17, RestartStep
    <3> QED BY <1>2, <3>1, <3>2, <3>3, <3>4, <3>5, <3>6, <3>7, <3>8, <3>9, <3>10, <3>11,
               <3>12, <3>13, <3>14, <3>15, <3>16, <3>17 DEF GrandpaNext
  <2> QED BY <2>1, <2>2, NextInv DEF StepInv, IInv
<1> QED BY <1>1, <1>2

LEMMA InitInv ==
  ASSUME GrandpaInit
  PROVE  IInv
<1>1. SignalType
  BY ScenarioAssumption, Zenon DEF GrandpaInit, SignalType
<1>2. GenesisSet \in SetState
  BY GenesisIsSet
<1>3. Sound(GenesisSet, {Genesis})
  BY <1>2, Zenon DEF Sound, GenesisSet, ForcedApart, ForcedSignals
<1>4. SoundChain(chain)
  BY <1>3, TreeAssumption DEF GrandpaInit, SoundChain, ChainShape, Connected
<1> QED BY <1>1, <1>3, <1>4, ZenonT(60)
        DEF GrandpaInit, IInv, Consistent, Verifying, Importing, WhileLocked, WhileOpen, Idle

LEMMA Invariance == GrandpaSpec => []IInv
BY InitInv, NextStep, PTL DEF GrandpaSpec

-----------------------------------------------------------------------------
\* However the import worker, the voter and restarts interleave, and wherever an
\* import or a finalization fails: whenever the shared authority set is not locked,
\* it is the one a restart would load, up to the best finalized number.
THEOREM DiskIsMemory == GrandpaSpec => []DiskMatchesMemory
<1>1. IInv => DiskMatchesMemory
  BY DEF IInv, Consistent, WhileOpen, DiskMatchesMemory
<1> QED BY <1>1, Invariance, PTL

\* Every write of the database replaces the authorities by at most one change,
\* numbers and records it, and takes a standard change only when it is the lowest
\* of its branch and due, a forced one only with the import of a block at its
\* effective number and when no standard change it depends on is pending.
THEOREM ChangesInOrder == GrandpaSpec => EnactedInOrder
<1>1. IInv /\ [GrandpaNext]_vars => [EnactsInOrder]_vars
  BY NextStep, Zenon
<1> QED BY <1>1, Invariance, PTL DEF GrandpaSpec, EnactedInOrder

-----------------------------------------------------------------------------
(***************************************************************************)
(* The inductive invariant of what the voter and the import worker hold    *)
(***************************************************************************)
Growing(as, lk, ch, im) ==
  im.pc = "importing" =>
    IF lk THEN Grown(ch.aset, as, ch.blocks, im.block)
    ELSE signal[im.block] = None /\ NoneAt(ch.aset.forced, im.block)

Keeping(as, lk, ch, im, v, cs) ==
  Kept(ch) /\ Growing(as, lk, ch, im) /\ Justly(ch, im) /\ Voters(ch, v, cs)

KeptInv == IInv /\ SignalsApart /\ Keeping(aset, locked, chain, importer, voter, commands)

KeptStep == Keeping(aset', locked', chain', importer', voter', commands')

LEMMA KeptNext ==
  ASSUME signal' = signal, tip' = tip, Kept(chain')
  PROVE  Kept(chain)'
BY ZenonT(30)
DEF Kept, NonePassed, AllPending, LaterPending, SignalsStandard, Signal, EffectiveNumber,
    OnBranch, IsDescendentOf, ForcedDueIn, Appointed, ClearBlocks, Follows, NoneDue

LEMMA GrowingNext ==
  ASSUME signal' = signal, Growing(aset', locked', chain', importer')
  PROVE  Growing(aset, locked, chain, importer)'
BY ZenonT(30) DEF Growing, Grown, SetAdded, SetForced, SignalsStandard, Signal, ForcedAt, NoneAt,
       ForcedSignals, EffectiveNumber, OnBranch, IsDescendentOf

LEMMA JustlyNext ==
  ASSUME signal' = signal, tip' = tip, Justly(chain', importer')
  PROVE  Justly(chain, importer)'
BY Zenon DEF Justly, Justifies, FromMedian, WithinTransition, Signals, EffectiveNumber, OnBranch,
       IsDescendentOf, ClearBlocks

LEMMA VotersNext ==
  ASSUME Voters(chain', voter', commands')
  PROVE  Voters(chain, voter, commands)'
BY DEF Voters, VoterShape, Commands, ClearChanges, ClearSets, ClearBlocks, OnBranch,
       IsDescendentOf, Pause

LEMMA NextKept ==
  ASSUME IInv', signal' = signal, tip' = tip, SignalsApart, KeptStep
  PROVE  KeptInv'
<1>1. SignalsApart'
  BY DEF SignalsApart, EffectiveNumber, IsDescendentOf
<1>2. /\ Kept(chain') /\ Growing(aset', locked', chain', importer')
      /\ Justly(chain', importer') /\ Voters(chain', voter', commands')
  BY Zenon DEF KeptStep, Keeping
<1> QED BY <1>1, <1>2, KeptNext, GrowingNext, JustlyNext, VotersNext, Zenon DEF KeptInv, Keeping

\* When the set is not locked the authorities in memory are those on disk.
LEMMA OpenAuthorities ==
  ASSUME NEW as, NEW ch, NEW im, Consistent(as, FALSE, ch, im), Kept(ch)
  PROVE  /\ as \in SetState /\ ch.aset \in SetState
         /\ as.authorities = ch.aset.authorities /\ as.standard = ch.aset.standard
         /\ as.id = ch.aset.id /\ as.forced = ch.aset.forced
         /\ SetOf(as) \in ClearSets(ch)
         /\ ChangeAuthorities(as) \in ClearChanges(ch)
<1>1. as \in SetState /\ ch.aset \in SetState /\ Written(as) = Written(ch.aset)
  BY Zenon DEF Consistent, SoundChain, WhileOpen, Sound
<1>2. /\ as.authorities = ch.aset.authorities /\ as.standard = ch.aset.standard
      /\ as.id = ch.aset.id /\ as.forced = ch.aset.forced
  BY <1>1, WrittenTheSame, Zenon
<1> QED BY <1>1, <1>2, ClearCurrent, Zenon

LEMMA KeptInvFacts ==
  ASSUME KeptInv
  PROVE  /\ SignalType /\ SignalsApart /\ Kept(chain) /\ Placed(chain)
         /\ Consistent(aset, locked, chain, importer)
         /\ SoundChain(chain) /\ Sound(chain.aset, chain.blocks)
         /\ chain.aset \in SetState /\ chain.aset.id \in Nat
         /\ Growing(aset, locked, chain, importer) /\ Justly(chain, importer)
         /\ Voters(chain, voter, commands)
<1>1. /\ SignalType /\ SignalsApart /\ Kept(chain) /\ Consistent(aset, locked, chain, importer)
      /\ Growing(aset, locked, chain, importer) /\ Justly(chain, importer)
      /\ Voters(chain, voter, commands)
  BY Zenon DEF KeptInv, Keeping, IInv
<1>2. SoundChain(chain) /\ chain.blocks \subseteq Block /\ Sound(chain.aset, chain.blocks)
  BY <1>1, Zenon DEF Consistent, SoundChain
<1>3. Placed(chain) /\ chain.aset \in SetState /\ chain.aset.id \in Nat
  BY <1>2, Zenon DEF Placed, Sound, SetState
<1> QED BY <1>1, <1>2, <1>3, Zenon

\* finalize_block: the set in memory and the one on disk enact the same change.
LEMMA FinalizeFields ==
  ASSUME KeptInv, ~locked, NEW b \in chain.blocks, b \in Block, Finalize(b)
  PROVE  MadeFinal(chain, chain', b)
<1>1. Consistent(aset, FALSE, chain, importer) /\ Kept(chain) /\ ChainShape(chain) /\ IInv
  <2>1. locked = FALSE
    BY KeptInvFacts, Zenon DEF Consistent
  <2> QED BY <2>1, KeptInvFacts, ZenonT(30) DEF KeptInv, SoundChain
<1>2. /\ aset \in SetState
      /\ aset.standard = chain.aset.standard /\ aset.authorities = chain.aset.authorities
      /\ aset.id = chain.aset.id /\ aset.forced = chain.aset.forced
  BY <1>1, OpenAuthorities, ZenonT(30)
<1>3. Enacted(aset, aset', b)
  <2>1. ApplyStandardChanges(aset, b).ok /\ aset' = ApplyStandardChanges(aset, b).set
    BY DEF Finalize, Finalizable
  <2> QED BY <1>2, <2>1, StandardEnacts
<1>4. /\ aset' \in SetState /\ chain'.aset \in SetState
      /\ Written(aset') = Written(chain'.aset) /\ chain'.blocks = chain.blocks
  BY <1>1, FinalizeStep, Zenon DEF SoundChain, Sound
<1>5. /\ aset'.standard = chain'.aset.standard /\ aset'.authorities = chain'.aset.authorities
      /\ aset'.id = chain'.aset.id /\ aset'.forced = chain'.aset.forced
  BY <1>4, WrittenTheSame
<1>6. chain'.finalized = b /\ IsDescendentOf(chain.finalized, b)
  BY <1>1, Zenon DEF Finalize, FinalizedChain, Finalizable, ChainShape
<1>7. Enacted(chain.aset, chain'.aset, b)
  BY <1>2, <1>3, <1>5, ZenonT(30) DEF Enacted, Due
<1> QED BY <1>4, <1>6, <1>7, Zenon DEF MadeFinal

LEMMA FinalizeKeeps ==
  ASSUME KeptInv, ~locked, NEW c \in ClearBlocks(chain),
         NEW b \in chain.blocks, Justifies(c, b), Finalize(b)
  PROVE  /\ Kept(chain') /\ ClearBlocks(chain) \subseteq ClearBlocks(chain')
         /\ ClearSets(chain) \subseteq ClearSets(chain')
         /\ chain'.aset.forced \subseteq chain.aset.forced
         /\ chain'.blocks = chain.blocks
<1>1. /\ SignalsApart /\ Kept(chain) /\ Placed(chain) /\ chain.aset.id \in Nat /\ b \in Block
  BY KeptInvFacts, Zenon DEF Placed
<1>2. MadeFinal(chain, chain', b)
  BY <1>1, FinalizeFields
<1>3. PICK new : new = chain'
  BY Zenon
<1>4. Kept(new)
  BY <1>1, <1>2, <1>3, FinalKeeps, Zenon
<1>5. ClearBlocks(chain) \subseteq ClearBlocks(new)
  BY <1>2, <1>3, ZenonT(30) DEF MadeFinal, Enacted, ClearBlocks
<1>6. ClearSets(chain) \subseteq ClearSets(new)
  BY <1>1, <1>2, <1>3, <1>5, ClearSetsGrow, Zenon DEF MadeFinal, Enacted
<1> QED BY <1>2, <1>3, <1>4, <1>5, <1>6, ZenonT(30) DEF MadeFinal, Enacted

LEMMA ImportBlockKeeps ==
  ASSUME KeptInv, NEW b \in Block \ {Genesis}, NEW j \in Justified(b), ImportBlock(b, j)
  PROVE  KeptStep
<1> DEFINE made == MakeAuthoritiesChanges(b)
<1>1. /\ SignalType /\ SoundChain(chain) /\ Fresh(b, chain.blocks)
      /\ Sound(aset, chain.blocks) /\ made.ok
      /\ Consistent(aset, FALSE, chain, importer) /\ Kept(chain) /\ Voters(chain, voter, commands)
  BY KeptInvFacts, Zenon DEF Consistent, WhileOpen, ImportBlock, Fresh
<1>2. /\ Grown(aset, made.set, chain.blocks, b)
      /\ ~made.changed => signal[b] = None /\ NoneAt(aset.forced, b)
  BY <1>1, MadeGrown, Zenon
<1>3. /\ aset' = made.set /\ locked' = made.changed /\ chain' = chain
      /\ voter' = voter /\ commands' = commands
      /\ importer'.pc = "importing" /\ importer'.block = b /\ importer'.justification = j
  BY ZenonT(30) DEF ImportBlock, Locks
<1> HIDE DEF made
<1>4. /\ Grown(chain.aset, made.set, chain.blocks, b)
      /\ ~made.changed => NoneAt(chain.aset.forced, b)
  BY <1>1, <1>2, OpenAuthorities, ZenonT(30) DEF Grown, SetAdded, SetForced
<1>5. Growing(aset', locked', chain', importer')
  BY <1>2, <1>3, <1>4, Zenon DEF Growing
<1>6. Justly(chain', importer')
  BY <1>3, JustifiedFacts, Zenon DEF Justly
<1> QED BY <1>1, <1>3, <1>5, <1>6, Zenon DEF KeptStep, Keeping

\* The set that is written with the block.
LEMMA ImportedGrows ==
  ASSUME KeptInv, BlockImported
  PROVE  /\ BlockAdded(chain, chain', importer.block)
         /\ Grown(chain.aset, chain'.aset, chain.blocks, importer.block)
<1> DEFINE b == importer.block
<1>1. /\ importer.pc = "importing" /\ Fresh(b, chain.blocks) /\ Connected(chain.blocks)
      /\ (locked <=> importer.old # None) /\ ChainShape(chain)
      /\ ForcedSignals(chain.aset.forced) /\ Growing(aset, locked, chain, importer)
  BY KeptInvFacts, Zenon DEF Consistent, Importing, SoundChain, Sound, BlockImported
<1>2. /\ chain'.blocks = chain.blocks \cup {b} /\ chain'.finalized = chain.finalized
      /\ chain'.aset = IF importer.old # None THEN aset ELSE chain.aset
  BY <1>1, Zenon DEF BlockImported, WithBlock, ChainShape
<1>3. CASE locked
  BY <1>1, <1>2, <1>3, ZenonT(30) DEF Growing, BlockAdded
<1>4. CASE ~locked
  <2>1. signal[b] = None /\ chain'.aset = chain.aset /\ NoneAt(chain.aset.forced, b)
    BY <1>1, <1>2, <1>4 DEF Growing
  <2>2. {c \in {b} : SignalsStandard(c)} = {}
    BY <2>1, NoneIsNoSignal, Zenon DEF SignalsStandard
  <2>3. SetAdded(chain.aset, chain'.aset, b)
    BY <1>1, <2>1, <2>2, ZenonT(30) DEF SetAdded
  <2> QED BY <1>1, <1>2, <2>3, ZenonT(30) DEF Grown, BlockAdded
<1> QED BY <1>3, <1>4

LEMMA ImportedKeeps ==
  ASSUME KeptInv, BlockImported
  PROVE  /\ Kept(chain') /\ ClearSets(chain) \subseteq ClearSets(chain')
         /\ importer.block \in chain'.blocks
<1>1. PICK b : b = importer.block
  OBVIOUS
<1>2. PICK new : new = chain'
  OBVIOUS
<1>3. BlockAdded(chain, new, b) /\ Grown(chain.aset, new.aset, chain.blocks, b)
  BY <1>1, <1>2, ImportedGrows, Zenon
<1>4. /\ SignalsApart /\ Kept(chain) /\ Placed(chain) /\ chain.aset.id \in Nat
      /\ chain.aset.forced \in SUBSET chain.blocks
  BY KeptInvFacts, Zenon DEF Sound
<1>5. Kept(new) /\ ClearBlocks(chain) \subseteq ClearBlocks(new)
  BY <1>3, <1>4, GrownKeeps, Zenon
<1>6. ClearSets(chain) \subseteq ClearSets(new)
  BY <1>3, <1>4, <1>5, ClearSetsGrow, Zenon DEF Grown, SetAdded, SetForced
<1> QED BY <1>1, <1>2, <1>3, <1>5, <1>6, Zenon DEF BlockAdded

LEMMA CommandsImported ==
  ASSUME NEW C, commands \in Seq(C), Pause \in C, ChangeAuthorities(aset) \in C
  PROVE  commands \o CommandsOfImport \in Seq(C)
<1> DEFINE pause == IF signal[importer.block] # None /\ signal[importer.block].kind = "forced"
                    THEN <<Pause>> ELSE <<>>
           change == IF importer.applied = "forced" THEN <<ChangeAuthorities(aset)>> ELSE <<>>
<1>1. pause \in Seq(C) /\ change \in Seq(C)
  OBVIOUS
<1>2. CommandsOfImport = pause \o change
  BY Zenon DEF CommandsOfImport
<1> HIDE DEF pause, change
<1> QED BY <1>1, <1>2

LEMMA BlockImportedKeeps ==
  ASSUME KeptInv, BlockImported, StepInv
  PROVE  KeptStep
<1>1. /\ Kept(chain') /\ ClearSets(chain) \subseteq ClearSets(chain')
      /\ importer.block \in chain'.blocks /\ Voters(chain, voter, commands)
      /\ Justly(chain, importer)
  BY ImportedKeeps, KeptInvFacts, Zenon
<1>2. /\ aset' = aset /\ locked' = FALSE /\ voter' = voter
      /\ commands' = commands \o CommandsOfImport
      /\ importer' = AfterImport /\ importer.pc = "importing"
  BY Zenon DEF BlockImported
<1>3. Voters(chain', voter', commands')
  <2>1. Voters(chain', voter, commands)
    BY <1>1, VotersGrow, Zenon
  <2>2. ChangeAuthorities(aset) \in ClearChanges(chain')
    BY <1>1, <1>2, OpenAuthorities, Zenon DEF StepInv
  <2>3. commands' \in Seq(Commands(chain'))
    BY <1>2, <2>1, <2>2, CommandsImported, Zenon DEF Voters, Commands
  <2> QED BY <1>2, <2>1, <2>3, Zenon DEF Voters
<1>4. Justly(chain', importer') /\ importer'.pc # "importing"
  BY <1>1, <1>2, Zenon DEF AfterImport, Idle, Justly
<1> QED BY <1>1, <1>3, <1>4, ZenonT(30) DEF KeptStep, Keeping, Growing

\* A step of the import worker that leaves the database and the voter alone.
LEMMA QuietKeeps ==
  ASSUME KeptInv, chain' = chain, voter' = voter, commands' = commands,
         importer'.pc # "importing", Justly(chain, importer')
  PROVE  KeptStep
BY Zenon DEF KeptInv, KeptStep, Keeping, Growing

LEMMA BlockImportFailsKeeps ==
  ASSUME KeptInv, BlockImportFails
  PROVE  KeptStep
BY QuietKeeps, Zenon DEF BlockImportFails, Idle, Justly

LEMMA ImportJustificationKeeps ==
  ASSUME KeptInv, NEW b \in Block, NEW j \in Justifications(b), ImportJustification(b, j)
  PROVE  KeptStep
<1>1. Justifies(j.authorities, b)
  BY JustifiedFacts, Zenon
<1>2. importer'.pc # "importing" /\ Justly(chain, importer')
  BY <1>1 DEF ImportJustification, Justly
<1> QED BY <1>2, QuietKeeps, Zenon DEF ImportJustification

LEMMA ReadSetIdKeeps ==
  ASSUME KeptInv, ReadSetId
  PROVE  KeptStep
<1>1. Verifying(importer) /\ Justly(chain, importer)
  BY KeptInvFacts, Zenon DEF Consistent
<1>2. importer'.pc # "importing" /\ Justly(chain, importer')
  BY <1>1, Zenon DEF ReadSetId, Justly, Verifying, Idle
<1> QED BY <1>2, QuietKeeps, ZenonT(30) DEF ReadSetId

LEMMA VerifyAuthoritiesKeeps ==
  ASSUME KeptInv, VerifyAuthorities
  PROVE  KeptStep
<1>1. /\ Verifying(importer) /\ Justly(chain, importer) /\ Kept(chain)
      /\ Consistent(aset, FALSE, chain, importer)
  BY KeptInvFacts, ZenonT(30) DEF Consistent, VerifyAuthorities
<1>2. aset.authorities \in ClearBlocks(chain)
  BY <1>1, OpenAuthorities, Zenon DEF Kept
<1>3. importer'.pc # "importing" /\ Justly(chain, importer')
  BY <1>1, <1>2, Zenon DEF VerifyAuthorities, SignedByCurrent, Justly, Verifying, Idle
<1> QED BY <1>3, QuietKeeps, Zenon DEF VerifyAuthorities

LEMMA JustifiedRefinalizesKeeps ==
  ASSUME KeptInv, JustifiedRefinalizes
  PROVE  KeptStep
<1>1. importer'.pc # "importing" /\ Justly(chain, importer')
  BY DEF JustifiedRefinalizes, Justly, Idle
<1> QED BY <1>1, QuietKeeps, Zenon DEF JustifiedRefinalizes

LEMMA JustifiedFailsKeeps ==
  ASSUME KeptInv, JustifiedFails
  PROVE  KeptStep
<1>1. importer'.pc # "importing" /\ Justly(chain, importer')
  BY DEF JustifiedFails, Justly, Idle
<1> QED BY <1>1, QuietKeeps DEF JustifiedFails

\* The command that tells the voter of the set a finalization enacted.
LEMMA NewCommand ==
  ASSUME StepInv, locked' = FALSE, Kept(chain'), NEW b, Finalize(b)
  PROVE  ChangeAuthorities(NewSet(b)) \in ClearChanges(chain')
<1>1. NewSet(b) = aset'
  BY DEF NewSet, Finalize
<1> QED BY <1>1, OpenAuthorities, Zenon DEF StepInv

LEMMA JustifiedFinalizesKeeps ==
  ASSUME KeptInv, JustifiedFinalizes, StepInv
  PROVE  KeptStep
<1>1. PICK b : b = importer.block
  OBVIOUS
<1>2. PICK c : c = importer.justification.authorities
  OBVIOUS
<1>3. /\ importer.pc = "finalize" /\ ~locked /\ locked' = locked /\ Finalize(b) /\ voter' = voter
      /\ commands' = IF EnactedBy(b) THEN Append(commands, ChangeAuthorities(NewSet(b)))
                     ELSE commands
      /\ importer'.pc \in {"panicked", "idle"}
  BY <1>1, Zenon DEF JustifiedFinalizes, Idle
<1>4. b \in chain.blocks /\ c \in ClearBlocks(chain) /\ Justifies(c, b)
  BY <1>1, <1>2, <1>3, KeptInvFacts, ZenonT(30) DEF Justly
<1>5. Kept(chain') /\ ClearSets(chain) \subseteq ClearSets(chain')
  BY <1>3, <1>4, FinalizeKeeps, ZenonT(30)
<1>6. Voters(chain', voter, commands)
  BY <1>5, KeptInvFacts, VotersGrow, ZenonT(30)
<1>7. ChangeAuthorities(NewSet(b)) \in Commands(chain')
  BY <1>3, <1>5, KeptInvFacts, NewCommand, Zenon DEF Commands, Consistent
<1>8. commands' \in Seq(Commands(chain'))
  <2>1. commands \in Seq(Commands(chain'))
    BY <1>6, Zenon DEF Voters
  <2> QED BY <1>3, <1>7, <2>1
<1>9. Voters(chain', voter', commands')
  BY <1>3, <1>6, <1>8, Zenon DEF Voters
<1> QED BY <1>3, <1>5, <1>9, Zenon DEF KeptStep, Keeping, Justly, Growing

LEMMA VoterFinalizesKeeps ==
  ASSUME KeptInv, NEW b \in Block, VoterFinalizes(b), StepInv
  PROVE  KeptStep
<1>1. /\ ~locked /\ locked' = locked /\ b \in chain.blocks /\ Finalize(b)
      /\ Justifies(voter.set.authorities, b) /\ importer' = importer /\ commands' = commands
      /\ voter' = [voter EXCEPT !.command = IF EnactedBy(b) THEN ChangeAuthorities(NewSet(b))
                                            ELSE None]
  BY Zenon DEF VoterFinalizes
<1>2. voter.set.authorities \in ClearBlocks(chain)
  BY KeptInvFacts, Zenon DEF Voters, ClearSets
<1>3. /\ Kept(chain') /\ ClearBlocks(chain) \subseteq ClearBlocks(chain')
      /\ ClearSets(chain) \subseteq ClearSets(chain')
      /\ chain'.aset.forced \subseteq chain.aset.forced /\ chain'.blocks = chain.blocks
  BY <1>1, <1>2, FinalizeKeeps, Zenon
<1>4. Voters(chain', voter, commands)
  BY <1>3, KeptInvFacts, VotersGrow, Zenon
<1>5. ChangeAuthorities(NewSet(b)) \in ClearChanges(chain')
  BY <1>1, <1>3, KeptInvFacts, NewCommand, Zenon DEF Consistent
<1>6. Voters(chain', voter', commands')
  <2>1. VoterShape(voter') /\ voter'.set = voter.set
        /\ voter'.command \in ClearChanges(chain') \cup {None}
    BY <1>1, <1>4, <1>5 DEF Voters, VoterShape
  <2> QED BY <1>1, <1>4, <2>1, Zenon DEF Voters
<1>7. Justly(chain', importer')
  BY <1>1, <1>3, KeptInvFacts, JustlyGrow
<1>8. Growing(aset', locked', chain', importer')
  BY <1>1, <1>3, KeptInvFacts DEF Growing, NoneAt
<1> QED BY <1>3, <1>6, <1>7, <1>8, Zenon DEF KeptStep, Keeping

\* The steps of the voter that write nothing but its own state.
LEMMA VoterStateKeeps ==
  ASSUME KeptInv, NEW state, chain' = [chain EXCEPT !.state = state],
         aset' = aset, locked' = locked, importer' = importer,
         Voters(chain, voter', commands')
  PROVE  KeptStep
<1>1. /\ Kept(chain) /\ Justly(chain, importer) /\ Growing(aset, locked, chain, importer)
      /\ ChainShape(chain)
  BY KeptInvFacts DEF SoundChain
<1>2. /\ chain'.blocks = chain.blocks /\ chain'.aset = chain.aset
      /\ chain'.finalized = chain.finalized
  BY <1>1 DEF ChainShape
<1>3. /\ Kept(chain') /\ ClearBlocks(chain') = ClearBlocks(chain)
      /\ ClearSets(chain') = ClearSets(chain)
  BY <1>1, <1>2, SameKept, Zenon
<1>4. Voters(chain', voter', commands') /\ Justly(chain', importer')
  BY <1>1, <1>2, <1>3, VotersGrow, JustlyGrow, Zenon
<1>5. Growing(aset', locked', chain', importer')
  BY <1>1, <1>2, Zenon DEF Growing
<1> QED BY <1>3, <1>4, <1>5, Zenon DEF KeptStep, Keeping

\* Handling a command starts a voter with the set of the command, or pauses the one
\* there is.
LEMMA HandleKeeps ==
  ASSUME KeptInv, NEW c \in Commands(chain), Handle(c), commands' \in Seq(Commands(chain)),
         aset' = aset, locked' = locked, importer' = importer
  PROVE  KeptStep
<1>1. voter.set \in ClearSets(chain)
  BY KeptInvFacts, Zenon DEF Voters
<1>2. CASE c.kind = "change"
  <2>1. c.set \in ClearSets(chain) /\ voter' = NewVoter(c.set, TRUE)
    BY <1>2 DEF Commands, ClearChanges, Pause, Handle
  <2>2. Voters(chain, voter', commands')
    BY <2>1, NewVoterKeeps, Zenon
  <2> QED BY <1>2, <2>2, VoterStateKeeps DEF Handle
<1>3. CASE c.kind # "change"
  <2>1. voter' = NewVoter(voter.set, FALSE)
    BY <1>3 DEF Handle
  <2>2. Voters(chain, voter', commands')
    BY <1>1, <2>1, NewVoterKeeps, Zenon
  <2> QED BY <1>3, <2>2, VoterStateKeeps DEF Handle
<1> QED BY <1>2, <1>3, Zenon

LEMMA HandleOwnCommandKeeps ==
  ASSUME KeptInv, HandleOwnCommand
  PROVE  KeptStep
<1>1. voter.command \in Commands(chain) /\ commands' \in Seq(Commands(chain))
  BY KeptInvFacts, Zenon DEF Voters, Commands, HandleOwnCommand
<1> QED BY <1>1, HandleKeeps DEF HandleOwnCommand

LEMMA HandleCommandKeeps ==
  ASSUME KeptInv, HandleCommand
  PROVE  KeptStep
<1>1. commands \in Seq(Commands(chain))
  BY KeptInvFacts, Zenon DEF Voters
<1>2. Head(commands) \in Commands(chain) /\ commands' \in Seq(Commands(chain))
  BY <1>1 DEF HandleCommand
<1> QED BY <1>2, HandleKeeps DEF HandleCommand

\* The steps that only note the progress of a vote.
LEMMA VoteKeeps ==
  ASSUME KeptInv, NEW vote, voter' = [voter EXCEPT !.vote = vote], chain' = chain,
         aset' = aset, locked' = locked, importer' = importer, commands' = commands
  PROVE  KeptStep
<1>1. Voters(chain, voter, commands)
  BY KeptInvFacts
<1>2. VoterShape(voter') /\ voter'.set = voter.set /\ voter'.command = voter.command
  BY <1>1 DEF Voters, VoterShape
<1>3. Voters(chain', voter', commands')
  BY <1>1, <1>2, Zenon DEF Voters
<1> QED BY <1>3, Zenon DEF KeptInv, KeptStep, Keeping

LEMMA RestartKeeps ==
  ASSUME KeptInv, Restart
  PROVE  KeptStep
<1>1. SetOf(chain.aset) \in ClearSets(chain) /\ Kept(chain)
  BY KeptInvFacts, ClearCurrent, Zenon
<1>2. <<>> \in Seq(Commands(chain))
  OBVIOUS
<1>3. Voters(chain, voter', commands') /\ chain' = chain
  BY <1>1, <1>2, NewVoterKeeps, Zenon DEF Restart
<1>4. Justly(chain, importer') /\ Growing(aset', locked', chain', importer')
  BY DEF Restart, Idle, Justly, Growing
<1> QED BY <1>1, <1>3, <1>4, Zenon DEF KeptStep, Keeping

\* The steps of the import worker.
ImporterNext ==
  \/ \E b \in Block \ {Genesis} : \E j \in Justified(b) : ImportBlock(b, j)
  \/ BlockImported
  \/ BlockImportFails
  \/ \E b \in Block : \E j \in Justifications(b) : ImportJustification(b, j)
  \/ ReadSetId \/ VerifyAuthorities
  \/ JustifiedRefinalizes \/ JustifiedFinalizes \/ JustifiedFails

LEMMA ImporterKeeps ==
  ASSUME KeptInv, IInv, ImporterNext
  PROVE  KeptStep
<1>1. ASSUME NEW b \in Block \ {Genesis}, NEW j \in Justified(b), ImportBlock(b, j)
      PROVE  KeptStep
  BY <1>1, ImportBlockKeeps
<1>2. CASE BlockImported
  BY <1>2, BlockImportedStep, BlockImportedKeeps
<1>3. CASE BlockImportFails
  BY <1>3, BlockImportFailsKeeps
<1>4. ASSUME NEW b \in Block, NEW j \in Justifications(b), ImportJustification(b, j)
      PROVE  KeptStep
  BY <1>4, ImportJustificationKeeps, Zenon
<1>5. CASE ReadSetId
  BY <1>5, ReadSetIdKeeps
<1>6. CASE VerifyAuthorities
  BY <1>6, VerifyAuthoritiesKeeps
<1>7. CASE JustifiedRefinalizes
  BY <1>7, JustifiedRefinalizesKeeps
<1>8. CASE JustifiedFinalizes
  BY <1>8, JustifiedFinalizesStep, JustifiedFinalizesKeeps
<1>9. CASE JustifiedFails
  BY <1>9, JustifiedFailsKeeps
<1> QED BY <1>1, <1>2, <1>3, <1>4, <1>5, <1>6, <1>7, <1>8, <1>9, Zenon DEF ImporterNext

\* The steps of the voter, and a restart.
VoterNext ==
  \/ \E b \in Block : VoterFinalizes(b)
  \/ VoterRecords
  \/ HandleOwnCommand \/ HandleCommand
  \/ AskForVote \/ (\E b \in Bases : ReadLimit(b)) \/ Vote
  \/ Restart

LEMMA VoterKeeps ==
  ASSUME KeptInv, IInv, VoterNext
  PROVE  KeptStep
<1>1. ASSUME NEW b \in Block, VoterFinalizes(b)
      PROVE  KeptStep
  BY <1>1, VoterFinalizesStep, VoterFinalizesKeeps
<1>2. CASE VoterRecords
  <2>1. Voters(chain, voter', commands')
    BY <1>2, KeptInvFacts DEF VoterRecords
  <2> QED BY <1>2, <2>1, VoterStateKeeps DEF VoterRecords
<1>3. CASE HandleOwnCommand
  BY <1>3, HandleOwnCommandKeeps
<1>4. CASE HandleCommand
  BY <1>4, HandleCommandKeeps
<1>5. CASE AskForVote
  BY <1>5, VoteKeeps DEF AskForVote
<1>6. ASSUME NEW b \in Bases, ReadLimit(b)
      PROVE  KeptStep
  BY <1>6, VoteKeeps DEF ReadLimit
<1>7. CASE Vote
  BY <1>7, VoteKeeps DEF Vote
<1>8. CASE Restart
  BY <1>8, RestartKeeps
<1> QED BY <1>1, <1>2, <1>3, <1>4, <1>5, <1>6, <1>7, <1>8, Zenon DEF VoterNext

LEMMA KeptNextStep ==
  ASSUME KeptInv, [GrandpaNext]_vars
  PROVE  KeptInv'
<1>1. IInv' /\ IInv /\ SignalsApart
  BY NextStep DEF KeptInv
<1>2. KeptStep
  <2>1. CASE UNCHANGED vars
    BY <2>1, Zenon DEF vars, KeptInv, KeptStep
  <2>2. CASE GrandpaNext
    <3>1. ImporterNext \/ VoterNext
      BY <2>2, Zenon DEF GrandpaNext, ImporterNext, VoterNext
    <3> QED BY <1>1, <3>1, ImporterKeeps, VoterKeeps
  <2> QED BY <2>1, <2>2
<1>3. signal' = signal /\ tip' = tip
  BY SignalsStay
<1> QED BY <1>1, <1>2, <1>3, NextKept

LEMMA KeptInit ==
  ASSUME GrandpaInit
  PROVE  KeptInv
<1>1. /\ chain.blocks = {Genesis} /\ chain.finalized = Genesis /\ chain.aset = GenesisSet
      /\ importer.pc = "idle" /\ commands = <<>>
      /\ voter = NewVoter(SetOf(GenesisSet), TRUE)
  BY Zenon DEF GrandpaInit, Idle
<1>2. SignalsApart
  BY ApartAssumption DEF GrandpaInit, SignalsApart, EffectiveNumber
<1>3. Kept(chain) /\ SetOf(GenesisSet) \in ClearSets(chain)
  BY <1>1, KeptGenesis, Zenon
<1>4. Voters(chain, voter, commands)
  <2>1. commands \in Seq(Commands(chain))
    BY <1>1
  <2> QED BY <1>1, <1>3, <2>1, NewVoterKeeps, Zenon
<1>5. Growing(aset, locked, chain, importer) /\ Justly(chain, importer)
  BY <1>1, Zenon DEF Growing, Justly
<1> QED BY <1>2, <1>3, <1>4, <1>5, InitInv, Zenon DEF KeptInv, Keeping

\* Until a forced change takes effect, a standard change that finality has not ruled
\* out is in the fork tree or was enacted, whatever is imported, finalized or fails and
\* wherever the process restarts; and the write that makes a block at its effective
\* number final enacts it (add_pending_change, apply_standard_changes).
THEOREM ChangesKept == GrandpaSpec => []ChangesKeptUntilDue
<1>1. ASSUME KeptInv PROVE ChangesKeptUntilDue
  <2>1. Kept(chain) /\ SignalType /\ chain.blocks \subseteq Block
    BY <1>1, KeptInvFacts, Zenon DEF SoundChain
  <2>2. ASSUME NEW s \in chain.blocks \cap (Appointed \ {Genesis}), signal[s].kind = "standard"
        PROVE  SignalsStandard(s)
    BY <2>1, <2>2, Zenon DEF SignalType, Appointed, SignalsStandard
  <2> QED BY <2>1, <2>2, ZenonT(30) DEF ChangesKeptUntilDue, Kept, NonePassed, AllPending, Follows
<1> QED BY <1>1, KeptInit, KeptNextStep, PTL DEF GrandpaSpec

-----------------------------------------------------------------------------
(***************************************************************************)
(* Votes stay within the term of the voter                                 *)
(***************************************************************************)
\* A vote whose limit was read: every change it has to respect that can still be on the
\* branch of its target is due no earlier than one of its limits.
Bound(v, finalized) ==
  v.vote.stage = "limited" =>
    /\ v.vote.base \in Block /\ v.vote.limits \in SUBSET Nat
    /\ \A s \in v.vote.known \cap Block :
         /\ signal[s] # None /\ signal[s].kind = "standard"
         /\ IsDescendentOf(v.set.authorities, s)
         /\ Follows(s, finalized) /\ Follows(s, v.vote.base)
         => \E n \in v.vote.limits : n <= EffectiveNumber(s)

VoteInv == KeptInv /\ Bound(voter, chain.finalized)

\* current_limit takes the lowest of the pending changes.
LEMMA LimitsAreNumbers ==
  ASSUME SignalType, NEW ch, Placed(ch), Kept(ch), NEW as, as.standard = ch.aset.standard,
         NEW min
  PROVE  CurrentLimits(as, min) \in SUBSET Nat
<1>1. \A c \in as.standard : EffectiveNumber(c) \in Nat
  BY PendingNumbers
<1> QED BY <1>1 DEF CurrentLimits, Roots

LEMMA ReadLimitBinds ==
  ASSUME KeptInv, NEW base \in Bases, ReadLimit(base)
  PROVE  Bound(voter', chain.finalized)
<1>1. /\ SignalsApart /\ SignalType /\ Placed(chain) /\ Kept(chain)
      /\ Voters(chain, voter, commands) /\ base \in Block
  BY KeptInvFacts, BasesAssumption, Zenon
<1>2. /\ ~locked /\ WithinTransition(voter.set.authorities, base)
      /\ voter' = [voter EXCEPT !.vote =
                      [stage |-> "limited", base |-> base,
                       limits |-> CurrentLimits(aset, Number[base]),
                       known |-> IF VoteAllowed THEN chain.blocks \cap Appointed ELSE {}]]
  BY Zenon DEF ReadLimit
<1>3. PICK limits : limits = CurrentLimits(aset, Number[base])
  BY Zenon
<1>4. PICK known : known = IF VoteAllowed THEN chain.blocks \cap Appointed ELSE {}
  BY Zenon
<1>5. /\ voter'.set = voter.set
      /\ voter'.vote = [stage |-> "limited", base |-> base, limits |-> limits, known |-> known]
  BY <1>1, <1>2, <1>3, <1>4 DEF Voters, VoterShape
<1>6. aset.standard = chain.aset.standard /\ aset.id = chain.aset.id
  <2>1. Consistent(aset, FALSE, chain, importer)
    BY <1>2, KeptInvFacts, Zenon DEF Consistent
  <2> QED BY <1>1, <2>1, OpenAuthorities, ZenonT(30)
<1>7. limits \in SUBSET Nat
  BY <1>1, <1>3, <1>6, LimitsAreNumbers, Zenon
<1>8. ASSUME NEW s \in known \cap Block, signal[s] # None, signal[s].kind = "standard",
             IsDescendentOf(voter.set.authorities, s),
             Follows(s, chain.finalized), Follows(s, base)
      PROVE  \E n \in limits : n <= EffectiveNumber(s)
  <2>1. VoteAllowed /\ s \in chain.blocks
    BY <1>4, <1>8
  <2>2. /\ voter.set.authorities = chain.aset.authorities
        /\ voter.set.authorities \in ClearBlocks(chain)
    BY <1>1, <1>6, <2>1, Zenon DEF Voters, ClearSets, VoteAllowed
  <2>3. SignalsStandard(s)
    <3>1. s # Genesis
      BY <1>8, TreeAssumption DEF IsDescendentOf
    <3> QED BY <1>1, <1>8, <3>1, Zenon DEF SignalType, SignalsStandard
  <2>4. s \in chain.aset.standard
    BY <1>1, <1>8, <2>1, <2>2, <2>3, Zenon DEF Kept, LaterPending
  <2> QED BY <1>1, <1>2, <1>3, <1>6, <1>8, <2>2, <2>4, LimitedByRoot, Zenon
<1>9. /\ voter'.vote.base = base /\ voter'.vote.limits = limits
      /\ voter'.vote.known = known
  BY <1>5
<1> QED BY <1>1, <1>5, <1>7, <1>8, <1>9, Zenon DEF Bound

\* Finality only moves on: what can no longer be on the branch of a target stays out.
LEMMA StillBound ==
  ASSUME NEW v, NEW w, NEW f \in Block, NEW b \in Block, Bound(v, f),
         w.vote.stage = "limited" => w.vote = v.vote /\ w.set = v.set,
         b = f \/ IsDescendentOf(f, b)
  PROVE  Bound(w, b)
<1>1. \A s \in Block : Follows(s, b) => Follows(s, f)
  BY FollowsBefore
<1> QED BY <1>1, Zenon DEF Bound

\* Only ReadLimit makes a limited vote.
LEMMA VoterSame ==
  ASSUME KeptInv, GrandpaNext
  PROVE  \/ \E b \in Bases : ReadLimit(b) /\ chain' = chain
         \/ voter'.vote.stage = "limited" => voter'.vote = voter.vote /\ voter'.set = voter.set
<1>1. VoterShape(voter)
  BY KeptInvFacts, Zenon DEF Voters
<1>2. ASSUME ImporterNext
      PROVE  voter' = voter
  BY <1>2, Zenon DEF ImporterNext, ImportBlock, BlockImported, BlockImportFails,
     ImportJustification, ReadSetId, VerifyAuthorities, JustifiedRefinalizes,
     JustifiedFinalizes, JustifiedFails
<1>3. ASSUME NEW b \in Block, VoterFinalizes(b)
      PROVE  voter'.vote = voter.vote /\ voter'.set = voter.set
  BY <1>1, <1>3 DEF VoterFinalizes, VoterShape
<1>4. ASSUME VoterRecords
      PROVE  voter' = voter
  BY <1>4, Zenon DEF VoterRecords
<1>5. ASSUME NEW c, Handle(c)
      PROVE  voter'.vote.stage # "limited"
  BY <1>5 DEF Handle, NewVoter, NoVote
<1>6. ASSUME AskForVote \/ Vote
      PROVE  voter'.vote.stage # "limited"
  BY <1>1, <1>6 DEF AskForVote, Vote, NoVote, VoterShape
<1>7. ASSUME Restart
      PROVE  voter'.vote.stage # "limited"
  BY <1>7 DEF Restart, NewVoter, NoVote
<1>8. ASSUME NEW b \in Bases, ReadLimit(b)
      PROVE  chain' = chain
  BY <1>8, Zenon DEF ReadLimit
<1>9. ImporterNext \/ VoterNext
  BY Zenon DEF GrandpaNext, ImporterNext, VoterNext
<1> QED BY <1>2, <1>3, <1>4, <1>5, <1>6, <1>7, <1>8, <1>9, ZenonT(30)
        DEF VoterNext, HandleOwnCommand, HandleCommand

\* What is final never changes but to a descendant.
LEMMA FinalityMoves ==
  ASSUME KeptInv, GrandpaNext
  PROVE  chain'.finalized = chain.finalized \/ IsDescendentOf(chain.finalized, chain'.finalized)
<1>1. ChainShape(chain)
  BY KeptInvFacts, Zenon DEF SoundChain
<1>2. ASSUME NEW b, Finalize(b)
      PROVE  IsDescendentOf(chain.finalized, chain'.finalized)
  BY <1>1, <1>2 DEF Finalize, Finalizable, FinalizedChain, ChainShape
<1>3. ASSUME NEW state, chain' = [chain EXCEPT !.state = state]
      PROVE  chain'.finalized = chain.finalized
  BY <1>1, <1>3 DEF ChainShape
<1>4. ASSUME BlockImported
      PROVE  chain'.finalized = chain.finalized
  BY <1>1, <1>4 DEF BlockImported, WithBlock, ChainShape
<1>5. ASSUME NEW c, Handle(c)
      PROVE  chain'.finalized = chain.finalized
  BY <1>3, <1>5, Zenon DEF Handle
<1>6. ASSUME VoterRecords
      PROVE  chain'.finalized = chain.finalized
  BY <1>3, <1>6, Zenon DEF VoterRecords
<1>7. ASSUME ImporterNext
      PROVE  chain' = chain \/ BlockImported \/ Finalize(importer.block)
  BY <1>7, Zenon DEF ImporterNext, ImportBlock, BlockImportFails,
     ImportJustification, ReadSetId, VerifyAuthorities, JustifiedRefinalizes,
     JustifiedFinalizes, JustifiedFails
<1>8. ASSUME VoterNext
      PROVE  \/ chain' = chain \/ VoterRecords \/ (\E c : Handle(c)) \/ \E b : Finalize(b)
  BY <1>8, Zenon DEF VoterNext, VoterFinalizes, HandleOwnCommand, HandleCommand, AskForVote,
     ReadLimit, Vote, Restart
<1>9. ImporterNext \/ VoterNext
  BY Zenon DEF GrandpaNext, ImporterNext, VoterNext
<1> QED BY <1>2, <1>4, <1>5, <1>6, <1>7, <1>8, <1>9, Zenon

LEMMA VoteNextStep ==
  ASSUME VoteInv, [GrandpaNext]_vars
  PROVE  VoteInv'
<1>1. KeptInv /\ KeptInv'
  BY KeptNextStep, Zenon DEF VoteInv
<1>2. chain.finalized \in Block /\ Bound(voter, chain.finalized)
  BY <1>1, KeptInvFacts, KeptPlaces, Zenon DEF VoteInv
<1>3. chain'.finalized \in Block
  <2>1. chain'.finalized \in chain'.blocks /\ chain'.blocks \in SUBSET Block
    BY <1>1, ZenonT(30) DEF KeptInv, Keeping, Kept, IInv, Consistent, SoundChain
  <2> QED BY <2>1
<1>4. Bound(voter', chain'.finalized)
  <2>1. CASE UNCHANGED vars
    BY <1>2, <2>1, Zenon DEF vars
  <2>2. CASE GrandpaNext
    BY <1>1, <1>2, <1>3, <2>2, VoterSame, FinalityMoves, ReadLimitBinds, StillBound, Zenon
  <2> QED BY <2>1, <2>2
<1>5. signal' = signal
  BY SignalsStay
<1>6. Bound(voter, chain.finalized)'
  BY <1>4, <1>5, Zenon DEF Bound, Follows, OnBranch, IsDescendentOf, EffectiveNumber
<1> QED BY <1>1, <1>6 DEF VoteInv

\* best_chain_containing reads its limit, the lowest of the pending changes that are due
\* at the base or later, before it waits for the fork choice.  Whatever is imported or
\* made final meanwhile, every target it may pick is within the term of the voter, as
\* far as the changes that were known when the limit was read go: the one that ends the
\* term is below a root of the fork tree, and that root is not due before the base.
THEOREM VotesWithinTransition == GrandpaSpec => []VoteWithinTransition
<1>1. ASSUME GrandpaInit
      PROVE  VoteInv
  BY <1>1, KeptInit, Zenon DEF GrandpaInit, VoteInv, Bound, NewVoter, NoVote
<1>2. ASSUME VoteInv
      PROVE  VoteWithinTransition
  <2> SUFFICES ASSUME voter.vote.stage = "limited", NEW best \in Block, NEW target \in Block,
                      VoteTarget(best, target), NEW s \in Signals(target) \cap voter.vote.known,
                      signal[s].kind = "standard", IsDescendentOf(voter.set.authorities, s)
               PROVE  Number[target] <= EffectiveNumber(s)
    BY Zenon DEF VoteWithinTransition, InTerm
  <2>1. /\ chain.finalized \in Block /\ Bound(voter, chain.finalized)
        /\ Placed(chain) /\ Kept(chain) /\ SignalType
    BY <1>2, KeptInvFacts, KeptPlaces, Zenon DEF VoteInv
  <2>2. /\ OnBranch(chain.finalized, best) /\ OnBranch(voter.vote.base, best)
        /\ OnBranch(target, best) /\ Number[target] <= Limited(voter.vote.limits, best)
    BY Zenon DEF VoteTarget
  <2>3. s \in Block /\ signal[s] # None /\ OnBranch(s, target)
    BY TreeAssumption DEF Signals, OnBranch, IsDescendentOf
  <2>4. OnBranch(s, best)
    BY <2>2, <2>3, BranchFacts, Zenon
  <2>5. voter.vote.base \in Block /\ voter.vote.limits \in SUBSET Nat
    BY <2>1, Zenon DEF Bound
  <2>6. Follows(s, chain.finalized) /\ Follows(s, voter.vote.base)
    BY <2>1, <2>2, <2>3, <2>4, <2>5, AncestorsCompare, Zenon DEF Follows, OnBranch
  <2>7. PICK n \in voter.vote.limits : n <= EffectiveNumber(s)
    BY <2>1, <2>3, <2>6, Zenon DEF Bound
  <2>8. /\ Limited(voter.vote.limits, best) \in Nat /\ Limited(voter.vote.limits, best) <= n
    BY <2>5, <2>7, LimitedBelow, Zenon
  <2>9. Number[target] \in Nat /\ n \in Nat /\ EffectiveNumber(s) \in Nat
    <3>1. signal[s] \in Signal
      BY <2>1, <2>3, Zenon DEF SignalType
    <3> QED BY <2>3, <2>5, <2>7, <3>1, SignalNumbers, TreeAssumption
  <2> QED BY <2>2, <2>7, <2>8, <2>9
<1> QED BY <1>1, <1>2, VoteNextStep, PTL DEF GrandpaSpec
=============================================================================
