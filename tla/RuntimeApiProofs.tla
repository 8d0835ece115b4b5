-------------------------- MODULE RuntimeApiProofs --------------------------
(***************************************************************************)
(* Proofs about calls into the runtime: every layer closes exactly the     *)
(* transactions it opened, a run that failed or is repeated leaves no      *)
(* trace, and a cached storage root stays the one of the changes as long   *)
(* as only the runtime rolls back.                                         *)
(***************************************************************************)
EXTENDS MCRuntimeApi, SequenceTheorems, TLAPS

ApiTypeOK ==
  /\ stack \in Seq(View)
  /\ Len(stack) >= 1
  /\ client \in Nat
  /\ mode \in {"client", "runtime"}
  /\ commitOnSuccess \in BOOLEAN
  /\ nested \in Nat
  /\ call \in Call \cup {None}

\* The transactions below the one a run works in were copied from the view the
\* call found and nothing the run does reaches them.
SavedViewsKept ==
  call # None => \A i \in call.depth + 1 .. client : stack[i] = call.view

Inv == ApiTypeOK /\ TransactionsBalanced /\ SavedViewsKept

-----------------------------------------------------------------------------
(***************************************************************************)
(* What the transaction calls do to a stack of views                       *)
(***************************************************************************)
LEMMA StartedProperties ==
  ASSUME NEW s \in Seq(View), Len(s) >= 1
  PROVE  /\ Started(s) \in Seq(View)
         /\ Len(Started(s)) = Len(s) + 1
         /\ \A i \in 1 .. Len(s) : Started(s)[i] = s[i]
         /\ Started(s)[Len(s) + 1] = s[Len(s)]
<1>1. Len(s) \in Nat /\ s[Len(s)] \in View
  BY ElementOfSeq, LenProperties
<1> QED
  BY <1>1, AppendProperties DEF Started

LEMMA PrefixProperties ==
  ASSUME NEW s \in Seq(View), NEW n \in Nat, n <= Len(s)
  PROVE  /\ SubSeq(s, 1, n) \in Seq(View)
         /\ Len(SubSeq(s, 1, n)) = n
         /\ \A i \in 1 .. n : SubSeq(s, 1, n)[i] = s[i]
<1>1. \A i \in 1 .. n : s[i] \in View
  BY ElementOfSeq, LenProperties
<1>2. Len(s) \in Nat
  BY LenProperties
<1> QED
  BY <1>1, <1>2, SubSeqProperties

LEMMA RolledBackProperties ==
  ASSUME NEW s \in Seq(View), Len(s) >= 1
  PROVE  /\ RolledBack(s) \in Seq(View)
         /\ Len(RolledBack(s)) = Len(s) - 1
         /\ \A i \in 1 .. Len(s) - 1 : RolledBack(s)[i] = s[i]
<1> DEFINE n == Len(s) - 1
<1>1. n \in Nat /\ n <= Len(s)
  BY LenProperties
<1>2. RolledBack(s) = SubSeq(s, 1, n)
  BY DEF RolledBack
<1>3. /\ RolledBack(s) \in Seq(View)
      /\ Len(RolledBack(s)) = n
      /\ \A i \in 1 .. n : RolledBack(s)[i] = s[i]
  <2> HIDE DEF n
  <2> QED
    BY <1>1, <1>2, PrefixProperties
<1> QED
  BY <1>3

LEMMA CommittedProperties ==
  ASSUME NEW s \in Seq(View), Len(s) >= 2
  PROVE  /\ Committed(s) \in Seq(View)
         /\ Len(Committed(s)) = Len(s) - 1
         /\ \A i \in 1 .. Len(s) - 2 : Committed(s)[i] = s[i]
         /\ Committed(s)[Len(s) - 1] = s[Len(s)]
<1> DEFINE n == Len(s) - 2
           t == SubSeq(s, 1, n)
<1>1. n \in Nat /\ n <= Len(s) /\ n + 2 = Len(s) /\ Len(s) \in Nat /\ s[Len(s)] \in View
  BY ElementOfSeq, LenProperties
<1>2. Committed(s) = Append(t, s[Len(s)])
  BY DEF Committed
<1> HIDE DEF n
<1>3. t \in Seq(View) /\ Len(t) = n /\ \A i \in 1 .. n : t[i] = s[i]
  BY <1>1, PrefixProperties
<1> HIDE DEF t
<1>4. /\ Committed(s) \in Seq(View)
      /\ Len(Committed(s)) = n + 1
      /\ \A i \in 1 .. n : Committed(s)[i] = s[i]
      /\ Committed(s)[n + 1] = s[Len(s)]
  BY <1>1, <1>2, <1>3, AppendProperties
<1> QED
  BY <1>1, <1>4

LEMMA ExitedProperties ==
  ASSUME NEW s \in Seq(View), NEW n \in Nat, n + 1 <= Len(s)
  PROVE  /\ Exited(s, n) \in Seq(View)
         /\ Len(Exited(s, n)) = n + 1
         /\ \A i \in 1 .. n + 1 : Exited(s, n)[i] = s[i]
BY PrefixProperties DEF Exited

\* Writing to the top view leaves the views below alone.
LEMMA WithTopProperties ==
  ASSUME NEW view \in View, stack \in Seq(View), Len(stack) >= 1
  PROVE  /\ WithTop(view) \in Seq(View)
         /\ Len(WithTop(view)) = Len(stack)
         /\ \A i \in 1 .. Len(stack) - 1 : WithTop(view)[i] = stack[i]
<1>1. Len(stack) \in Nat /\ Len(stack) \in 1 .. Len(stack)
  BY LenProperties
<1> QED
  BY <1>1, ExceptSeq DEF WithTop

-----------------------------------------------------------------------------
(***************************************************************************)
(* Transactions are balanced                                               *)
(***************************************************************************)
LEMMA InvInit == ApiInit => Inv
<1> SUFFICES ASSUME ApiInit PROVE Inv
  OBVIOUS
<1>1. stack \in Seq(View) /\ Len(stack) = 1
  BY DEF ApiInit, NestedInit, EmptyStack, View
<1> QED
  BY <1>1 DEF ApiInit, NestedInit, Inv, ApiTypeOK, TransactionsBalanced, SavedViewsKept,
              OpenTransactions

LEMMA CallApiAtKeepsInv ==
  ASSUME Inv, NEW strategy \in Strategy, CallApiAt(strategy)
  PROVE  Inv' /\ Top' = Top
<1> DEFINE own == IF commitOnSuccess THEN Started(stack) ELSE stack
           s   == IF Guarded(strategy) THEN Started(own) ELSE own
           n   == Len(stack)
           m   == n + (IF commitOnSuccess THEN 1 ELSE 0)
<1>1. /\ stack \in Seq(View) /\ n \in Nat /\ n >= 1 /\ Top \in View
      /\ commitOnSuccess \in BOOLEAN /\ nested \in Nat /\ n - 1 = nested
      /\ call = None
  <2>1. stack \in Seq(View) /\ n >= 1
    BY DEF Inv, ApiTypeOK
  <2>2. n \in Nat /\ Top \in View
    BY <2>1, LenProperties, ElementOfSeq DEF Top
  <2> QED
    BY <2>1, <2>2 DEF Inv, ApiTypeOK, CallApiAt, TransactionsBalanced, OpenTransactions
<1>2. /\ stack' = s /\ client' = Len(s) - 1 /\ mode' = "runtime"
      /\ call' = [strategy |-> strategy, native |-> None, depth |-> n - 1, view |-> Top]
      /\ UNCHANGED <<commitOnSuccess, nested>>
  BY DEF CallApiAt, EnterWith, OpenTransactions
<1>3. /\ own \in Seq(View) /\ Len(own) = m /\ m \in Nat /\ m >= 1
      /\ \A i \in n .. m : own[i] = Top
  BY <1>1, StartedProperties DEF Top
<1> HIDE DEF own
<1>4. /\ s \in Seq(View) /\ Len(s) \in Nat /\ Len(s) >= n
      /\ \A i \in n .. Len(s) : s[i] = Top
  <2>1. CASE Guarded(strategy)
    <3>1. /\ s \in Seq(View) /\ Len(s) = m + 1 /\ s[m + 1] = own[m]
          /\ \A i \in 1 .. m : s[i] = own[i]
      BY <1>3, <2>1, StartedProperties
    <3>2. n <= m
      BY <1>1
    <3> QED
      BY <1>1, <1>3, <2>1, <3>1, <3>2
  <2>2. CASE ~Guarded(strategy)
    BY <1>1, <1>3, <2>2
  <2> QED
    BY <2>1, <2>2
<1>5. Len(s) = m + (IF Guarded(strategy) THEN 1 ELSE 0)
  <2>1. Len(Started(own)) = Len(own) + 1
    BY <1>3, StartedProperties
  <2> HIDE DEF m
  <2> QED
    BY <1>3, <2>1
<1> HIDE DEF s
<1>6. call' \in Call
  BY <1>1, <1>2 DEF Call
<1>7. call' # None
  BY <1>6, NoneIsAbsent
<1>8. ApiTypeOK'
  <2>1. Len(s) >= 1 /\ Len(s) - 1 \in Nat
    BY <1>1, <1>4
  <2> QED
    BY <1>1, <1>2, <1>4, <1>6, <2>1 DEF ApiTypeOK
<1>9. TransactionsBalanced'
  BY <1>1, <1>2, <1>5, <1>7 DEF TransactionsBalanced, OpenTransactions
<1>10. SavedViewsKept'
  <2>1. call'.depth + 1 = n /\ client' = Len(s) - 1 /\ call'.view = Top
    BY <1>1, <1>2
  <2>2. \A i \in n .. Len(s) - 1 : s[i] = Top
    BY <1>1, <1>4
  <2> QED
    BY <1>2, <2>1, <2>2 DEF SavedViewsKept
<1>11. s[Len(s)] = Top
  BY <1>1, <1>4
<1> QED
  BY <1>2, <1>8, <1>9, <1>10, <1>11 DEF Inv, Top

\* What is known of a call in progress and of the stack its run leaves behind.
LEMMA RunState ==
  ASSUME Inv, mode = "runtime"
  PROVE  /\ call \in Call /\ call # None
         /\ stack \in Seq(View) /\ Len(stack) \in Nat
         /\ nested \in Nat /\ client \in Nat /\ call.depth = nested
         /\ commitOnSuccess \in BOOLEAN
         /\ client = nested + (IF commitOnSuccess THEN 1 ELSE 0)
                        + (IF Guarded(call.strategy) /\ call.native = None THEN 1 ELSE 0)
         /\ client + 1 <= Len(stack)
         /\ \A i \in nested + 1 .. client : stack[i] = call.view
<1>1. call # None
  BY DEF Inv, TransactionsBalanced
<1>2. stack \in Seq(View) /\ Len(stack) \in Nat
  BY LenProperties DEF Inv, ApiTypeOK
<1> QED
  BY <1>1, <1>2 DEF Inv, ApiTypeOK, TransactionsBalanced, SavedViewsKept, OpenTransactions

LEMMA RepeatInWasmKeepsInv ==
  ASSUME Inv, NEW result \in Result, RepeatInWasm(result)
  PROVE  /\ Inv'
         /\ stack'[Len(stack')] = call.view
<1> DEFINE e == Exited(stack, client)
           s == RolledBack(e)
<1>1. /\ mode = "runtime" /\ call.native = None /\ Guarded(call.strategy)
      /\ stack' = s /\ client' = Len(s) - 1 /\ mode' = "runtime"
      /\ call' = [call EXCEPT !.native = result]
      /\ UNCHANGED <<commitOnSuccess, nested>>
  BY DEF RepeatInWasm, EnterWith, RunsAgain, Guarded
<1>2. /\ call \in Call /\ call # None /\ stack \in Seq(View) /\ Len(stack) \in Nat
      /\ nested \in Nat /\ client \in Nat /\ call.depth = nested /\ commitOnSuccess \in BOOLEAN
      /\ client = nested + (IF commitOnSuccess THEN 1 ELSE 0) + 1
      /\ client + 1 <= Len(stack)
      /\ \A i \in nested + 1 .. client : stack[i] = call.view
  BY <1>1, RunState
<1>3. e \in Seq(View) /\ Len(e) = client + 1 /\ \A i \in 1 .. client + 1 : e[i] = stack[i]
  BY <1>2, ExitedProperties
<1> HIDE DEF e
<1>4. s \in Seq(View) /\ Len(s) = client /\ \A i \in 1 .. client : s[i] = stack[i]
  BY <1>2, <1>3, RolledBackProperties
<1> HIDE DEF s
<1>5. /\ call' \in Call /\ call'.native = result /\ call'.strategy = call.strategy
      /\ call'.depth = call.depth /\ call'.view = call.view
  BY <1>1, <1>2 DEF Call
<1>6. call' # None /\ call'.native # None
  BY <1>5, NoneIsAbsent
<1>7. ApiTypeOK'
  BY <1>1, <1>2, <1>4, <1>5 DEF ApiTypeOK
<1>8. TransactionsBalanced'
  BY <1>1, <1>2, <1>4, <1>5, <1>6 DEF TransactionsBalanced, OpenTransactions
<1>9. SavedViewsKept'
  <2>1. ASSUME NEW i \in nested + 1 .. client - 1
        PROVE  s[i] = call.view
    BY <1>2, <1>4
  <2>2. call'.depth = nested /\ client' = client - 1
    BY <1>1, <1>2, <1>4, <1>5
  <2> QED
    BY <1>1, <1>5, <2>1, <2>2 DEF SavedViewsKept
<1>10. stack'[Len(stack')] = call.view
  BY <1>1, <1>2, <1>4
<1> QED
  BY <1>7, <1>8, <1>9, <1>10 DEF Inv

\* What the executor's return does to the stack, in both of its uses: the call
\* is over with the transactions it started with, on top of them what the run
\* wrote or, if it failed, what the call found.
LEMMA ReturnKeepsInv ==
  ASSUME Inv, NEW result \in Result, NEW wasNative \in BOOLEAN, Return(result, wasNative)
  PROVE  /\ Inv'
         /\ returned' = Err /\ commitOnSuccess => stack'[Len(stack')] = call.view
         /\ OpenTransactions = client /\ ~(returned' = Err /\ commitOnSuccess) => Top' = Top
<1> DEFINE e     == Exited(stack, client)
           guard == Guarded(call.strategy) /\ call.native = None
           ours  == IF guard THEN Committed(e) ELSE e
           n     == nested + (IF commitOnSuccess THEN 1 ELSE 0)
<1>1. /\ mode = "runtime" /\ mode' = "client" /\ call' = None
      /\ stack' = CommitOrRollback(ours, returned' # Err)
      /\ UNCHANGED <<client, commitOnSuccess, nested>>
  BY DEF Return
<1>2. /\ call \in Call /\ call # None /\ stack \in Seq(View) /\ Len(stack) \in Nat
      /\ nested \in Nat /\ client \in Nat /\ commitOnSuccess \in BOOLEAN
      /\ client = n + (IF guard THEN 1 ELSE 0)
      /\ client + 1 <= Len(stack)
      /\ \A i \in nested + 1 .. client : stack[i] = call.view
  BY <1>1, RunState
<1>3. n \in Nat /\ n >= nested
  BY <1>2
<1>4. e \in Seq(View) /\ Len(e) = client + 1 /\ \A i \in 1 .. client + 1 : e[i] = stack[i]
  BY <1>2, ExitedProperties
<1> HIDE DEF e
<1>5. /\ ours \in Seq(View) /\ Len(ours) = n + 1 /\ ours[n + 1] = stack[client + 1]
      /\ \A i \in 1 .. n : ours[i] = stack[i]
  <2> HIDE DEF n
  <2>1. CASE guard
    <3>1. client = n + 1 /\ ours = Committed(e) /\ Len(e) = n + 2 /\ Len(e) >= 2
      BY <1>2, <1>3, <1>4, <2>1
    <3>2. e[n + 2] = stack[client + 1] /\ \A i \in 1 .. n : e[i] = stack[i]
      BY <1>3, <1>4, <3>1
    <3>3. Len(e) - 1 = n + 1 /\ Len(e) - 2 = n
      BY <1>3, <3>1
    <3>4. /\ ours \in Seq(View) /\ Len(ours) = Len(e) - 1 /\ ours[Len(e) - 1] = e[Len(e)]
          /\ \A i \in 1 .. Len(e) - 2 : ours[i] = e[i]
      BY <1>4, <3>1, CommittedProperties, Zenon
    <3> QED
      BY <3>1, <3>2, <3>3, <3>4, SMTT(30)
  <2>2. CASE ~guard
    <3>1. client = n /\ ours = e
      BY <1>2, <1>3, <2>2
    <3> QED
      BY <1>3, <1>4, <3>1
  <2> QED
    BY <2>1, <2>2
<1> HIDE DEF ours, guard
<1>6. /\ stack' \in Seq(View) /\ Len(stack') = nested + 1
      /\ returned' = Err /\ commitOnSuccess => stack'[nested + 1] = call.view
      /\ ~(returned' = Err /\ commitOnSuccess) => stack'[nested + 1] = stack[client + 1]
  <2>1. CASE ~commitOnSuccess
    <3>1. n = nested /\ stack' = ours
      BY <1>1, <1>2, <2>1 DEF CommitOrRollback
    <3> QED
      BY <1>5, <2>1, <3>1
  <2>2. CASE commitOnSuccess /\ returned' # Err
    <3>1. n = nested + 1 /\ stack' = Committed(ours)
      BY <1>1, <1>2, <2>2 DEF CommitOrRollback
    <3> HIDE DEF n
    <3>2. Len(ours) >= 2 /\ Len(ours) = nested + 2
      BY <1>2, <1>5, <3>1
    <3> QED
      BY <1>2, <1>5, <2>2, <3>1, <3>2, CommittedProperties
  <2>3. CASE commitOnSuccess /\ returned' = Err
    <3>1. n = nested + 1 /\ stack' = RolledBack(ours)
      BY <1>1, <1>2, <2>3 DEF CommitOrRollback
    <3>2. nested + 1 <= client
      BY <1>2, <1>3, <3>1
    <3> HIDE DEF n
    <3>3. Len(ours) >= 1 /\ Len(ours) = nested + 2
      BY <1>2, <1>5, <3>1
    <3>4. stack' \in Seq(View) /\ Len(stack') = nested + 1 /\ stack'[nested + 1] = ours[nested + 1]
      <4>1. Len(ours) - 1 = nested + 1 /\ nested + 1 \in 1 .. Len(ours) - 1
        BY <1>2, <3>3
      <4> QED
        BY <1>5, <3>1, <3>3, <4>1, RolledBackProperties
    <3>5. ours[nested + 1] = stack[nested + 1] /\ stack[nested + 1] = call.view
      BY <1>2, <1>5, <3>1, <3>2
    <3> QED
      BY <2>3, <3>4, <3>5
  <2> QED
    BY <1>2, <2>1, <2>2, <2>3
<1>7. Inv'
  BY <1>1, <1>2, <1>6 DEF Inv, ApiTypeOK, TransactionsBalanced, SavedViewsKept, OpenTransactions
<1>8. OpenTransactions = client => client + 1 = Len(stack)
  BY <1>2 DEF OpenTransactions
<1> QED
  BY <1>2, <1>6, <1>7, <1>8 DEF Top

LEMMA ExecuteInTransactionKeepsInv ==
  ASSUME Inv, ExecuteInTransaction
  PROVE  Inv' /\ Top' = Top
<1>1. /\ call = None /\ mode = "client" /\ stack \in Seq(View) /\ Len(stack) \in Nat
      /\ nested \in Nat /\ Len(stack) = nested + 1
  BY LenProperties DEF Inv, ApiTypeOK, TransactionsBalanced, OpenTransactions, ExecuteInTransaction
<1>2. /\ stack' = Started(stack) /\ nested' = nested + 1 /\ commitOnSuccess' = FALSE
      /\ UNCHANGED <<client, mode, call>>
  BY DEF ExecuteInTransaction
<1>3. /\ stack' \in Seq(View) /\ Len(stack') = nested + 2 /\ stack'[nested + 2] = stack[nested + 1]
  BY <1>1, <1>2, StartedProperties
<1>4. Inv'
  <2>1. nested + 1 \in Nat /\ Len(stack') >= 1 /\ Len(stack') - 1 = nested'
    BY <1>1, <1>2, <1>3
  <2> QED
    BY <1>1, <1>2, <1>3, <2>1, Zenon
       DEF Inv, ApiTypeOK, TransactionsBalanced, SavedViewsKept, OpenTransactions
<1> QED
  BY <1>1, <1>3, <1>4 DEF Top

LEMMA TransactionOutcomeKeepsInv ==
  ASSUME Inv, NEW commit \in BOOLEAN, TransactionOutcome(commit)
  PROVE  /\ Inv'
         /\ stack' = Committed(stack) => Top' = Top
<1>1. /\ call = None /\ mode = "client" /\ stack \in Seq(View) /\ Len(stack) \in Nat
      /\ nested \in Nat /\ nested > 0 /\ Len(stack) = nested + 1
  BY LenProperties DEF Inv, ApiTypeOK, TransactionsBalanced, OpenTransactions, TransactionOutcome
<1>2. /\ stack' = Committed(stack) \/ stack' = RolledBack(stack)
      /\ nested' = nested - 1 /\ commitOnSuccess' = TRUE
      /\ UNCHANGED <<client, mode, call>>
  BY DEF TransactionOutcome
<1>3. /\ Committed(stack) \in Seq(View) /\ Len(Committed(stack)) = nested
      /\ Committed(stack)[nested] = stack[nested + 1]
  BY <1>1, CommittedProperties
<1>4. RolledBack(stack) \in Seq(View) /\ Len(RolledBack(stack)) = nested
  BY <1>1, RolledBackProperties
<1>5. Inv'
  <2>1. stack' \in Seq(View) /\ Len(stack') = nested /\ nested >= 1 /\ nested - 1 \in Nat
    BY <1>1, <1>2, <1>3, <1>4
  <2> QED
    BY <1>1, <1>2, <2>1
       DEF Inv, ApiTypeOK, TransactionsBalanced, SavedViewsKept, OpenTransactions
<1> QED
  BY <1>1, <1>3, <1>5 DEF Top

LEMMA IntoStorageChangesKeepsInv ==
  ASSUME Inv, IntoStorageChanges
  PROVE  Inv'
<1>1. /\ call = None /\ nested = 0 /\ commitOnSuccess \in BOOLEAN
  BY Zenon DEF Inv, ApiTypeOK, TransactionsBalanced, OpenTransactions, IntoStorageChanges, Drain
<1>2. /\ stack' = EmptyStack /\ client' = 0 /\ mode' = "client"
      /\ UNCHANGED <<call, nested, commitOnSuccess>>
  BY DEF IntoStorageChanges, Drain
<1>3. EmptyStack \in Seq(View) /\ Len(EmptyStack) = 1
  BY DEF EmptyStack, View
<1> QED
  BY <1>1, <1>2, <1>3 DEF Inv, ApiTypeOK, TransactionsBalanced, SavedViewsKept, OpenTransactions

\* A step of the runtime that keeps the views below its own.
LEMMA RunStepKeepsInv ==
  ASSUME Inv, mode = "runtime", UNCHANGED <<client, mode, commitOnSuccess, nested, call>>,
         stack' \in Seq(View), Len(stack') >= client + 1,
         \A i \in 1 .. client : stack'[i] = stack[i]
  PROVE  Inv'
<1>1. /\ call \in Call /\ call # None /\ nested \in Nat /\ client \in Nat /\ call.depth = nested
      /\ commitOnSuccess \in BOOLEAN
      /\ client = nested + (IF commitOnSuccess THEN 1 ELSE 0)
                     + (IF Guarded(call.strategy) /\ call.native = None THEN 1 ELSE 0)
      /\ \A i \in nested + 1 .. client : stack[i] = call.view
  BY RunState
<1>2. Len(stack') \in Nat
  BY LenProperties
<1>3. ApiTypeOK'
  BY <1>1, <1>2 DEF ApiTypeOK
<1>4. TransactionsBalanced'
  BY <1>1, <1>2 DEF TransactionsBalanced, OpenTransactions
<1>5. SavedViewsKept'
  BY <1>1 DEF SavedViewsKept
<1> QED
  BY <1>3, <1>4, <1>5 DEF Inv

LEMMA PlaceStorageKeepsInv ==
  ASSUME Inv, NEW a \in Area, NEW k \in Key, NEW value \in Value, PlaceStorage(a, k, value)
  PROVE  Inv'
<1> DEFINE view == [Top EXCEPT ![a][k] = Entry(@, value, {})]
<1>1. /\ mode = "runtime" /\ UNCHANGED <<client, mode, commitOnSuccess, nested, call>>
      /\ stack' = WithTop(view)
  BY DEF PlaceStorage, Write, RuntimeUnchanged
<1>2. /\ stack \in Seq(View) /\ client \in Nat /\ Len(stack) \in Nat
      /\ client + 1 <= Len(stack) /\ Len(stack) >= 1
  BY <1>1, RunState
<1>3. Top \in View
  BY <1>2, ElementOfSeq DEF Top
<1>4. view \in View
  BY <1>3 DEF View, Entry
<1> HIDE DEF view
<1>5. /\ stack' \in Seq(View) /\ Len(stack') = Len(stack)
      /\ \A i \in 1 .. Len(stack) - 1 : stack'[i] = stack[i]
  BY <1>1, <1>2, <1>4, WithTopProperties, Zenon
<1> QED
  BY <1>1, <1>2, <1>5, RunStepKeepsInv

LEMMA StorageRootKeepsInv ==
  ASSUME Inv, StorageRoot
  PROVE  Inv' /\ Top' = Top
<1>1. /\ mode = "runtime" /\ UNCHANGED <<client, mode, commitOnSuccess, nested, call>>
      /\ stack' = stack
  BY DEF StorageRoot, RuntimeUnchanged, nestedVars
<1> QED
  BY <1>1, RunState, RunStepKeepsInv DEF Top

LEMMA StorageStartTransactionKeepsInv ==
  ASSUME Inv, StorageStartTransaction
  PROVE  Inv' /\ Top' = Top
<1>1. /\ mode = "runtime" /\ UNCHANGED <<client, mode, commitOnSuccess, nested, call>>
      /\ stack' = Started(stack)
  BY DEF StorageStartTransaction, RuntimeUnchanged, Start
<1>2. /\ stack \in Seq(View) /\ client \in Nat /\ Len(stack) \in Nat
      /\ client + 1 <= Len(stack) /\ Len(stack) >= 1
  BY <1>1, RunState
<1>3. /\ stack' \in Seq(View) /\ Len(stack') = Len(stack) + 1
      /\ \A i \in 1 .. Len(stack) : stack'[i] = stack[i]
      /\ stack'[Len(stack) + 1] = stack[Len(stack)]
  BY <1>1, <1>2, StartedProperties
<1>4. Inv'
  BY <1>1, <1>2, <1>3, RunStepKeepsInv
<1> QED
  BY <1>3, <1>4 DEF Top

LEMMA StorageRollbackTransactionKeepsInv ==
  ASSUME Inv, StorageRollbackTransaction
  PROVE  Inv'
<1>1. mode = "runtime" /\ UNCHANGED <<client, mode, commitOnSuccess, nested, call>>
  BY DEF StorageRollbackTransaction, RuntimeUnchanged, Rollback, nestedVars
<1>2. /\ stack \in Seq(View) /\ client \in Nat /\ Len(stack) \in Nat
      /\ client + 1 <= Len(stack) /\ Len(stack) >= 1
  BY <1>1, RunState
<1>3. CASE Closable
  <2>1. stack' = RolledBack(stack) /\ Len(stack) - 1 > client
    BY <1>1, <1>3 DEF StorageRollbackTransaction, Rollback, Closable, OpenTransactions
  <2>2. /\ stack' \in Seq(View) /\ Len(stack') = Len(stack) - 1
        /\ \A i \in 1 .. Len(stack) - 1 : stack'[i] = stack[i]
    BY <1>2, <2>1, RolledBackProperties
  <2> QED
    BY <1>1, <1>2, <2>1, <2>2, RunStepKeepsInv
<1>4. CASE ~Closable
  <2>1. stack' = stack
    BY <1>4 DEF StorageRollbackTransaction, nestedVars
  <2> QED
    BY <1>1, <1>2, <2>1, RunStepKeepsInv
<1> QED
  BY <1>3, <1>4

LEMMA StorageCommitTransactionKeepsInv ==
  ASSUME Inv, StorageCommitTransaction
  PROVE  Inv' /\ Top' = Top
<1>1. /\ mode = "runtime" /\ UNCHANGED <<client, mode, commitOnSuccess, nested, call>>
      /\ stack' = Committed(stack) /\ Len(stack) - 1 > client
  BY DEF StorageCommitTransaction, RuntimeUnchanged, Commit, Closable, OpenTransactions
<1>2. /\ stack \in Seq(View) /\ client \in Nat /\ Len(stack) \in Nat /\ Len(stack) >= 2
  BY <1>1, RunState
<1>3. /\ stack' \in Seq(View) /\ Len(stack') = Len(stack) - 1
      /\ \A i \in 1 .. Len(stack) - 2 : stack'[i] = stack[i]
      /\ stack'[Len(stack) - 1] = stack[Len(stack)]
  BY <1>1, <1>2, CommittedProperties
<1>4. Inv'
  BY <1>1, <1>2, <1>3, RunStepKeepsInv
<1> QED
  BY <1>3, <1>4 DEF Top

LEMMA InvStep == Inv /\ [ApiNext]_apiVars => Inv'
<1> SUFFICES ASSUME Inv, [ApiNext]_apiVars PROVE Inv'
  OBVIOUS
<1>1. ASSUME NEW strategy \in Strategy, CallApiAt(strategy) PROVE Inv'
  BY <1>1, CallApiAtKeepsInv
<1>2. ASSUME NEW result \in Result, RepeatInWasm(result) PROVE Inv'
  BY <1>2, RepeatInWasmKeepsInv
<1>3. ASSUME NEW result \in Result, NEW wasNative \in BOOLEAN, Return(result, wasNative)
      PROVE  Inv'
  BY <1>3, ReturnKeepsInv
<1>4. CASE ExecuteInTransaction
  BY <1>4, ExecuteInTransactionKeepsInv
<1>5. ASSUME NEW commit \in BOOLEAN, TransactionOutcome(commit) PROVE Inv'
  BY <1>5, TransactionOutcomeKeepsInv
<1>6. CASE IntoStorageChanges
  BY <1>6, IntoStorageChangesKeepsInv
<1>7. ASSUME NEW a \in Area, NEW k \in Key, NEW value \in Value, PlaceStorage(a, k, value)
      PROVE  Inv'
  BY <1>7, PlaceStorageKeepsInv
<1>8. CASE StorageRoot
  BY <1>8, StorageRootKeepsInv
<1>9. CASE StorageStartTransaction
  BY <1>9, StorageStartTransactionKeepsInv
<1>10. CASE StorageRollbackTransaction
  BY <1>10, StorageRollbackTransactionKeepsInv
<1>11. CASE StorageCommitTransaction
  BY <1>11, StorageCommitTransactionKeepsInv
<1>12. CASE UNCHANGED apiVars
  BY <1>12 DEF apiVars, nestedVars, Inv, ApiTypeOK, TransactionsBalanced, SavedViewsKept,
               OpenTransactions
<1> QED
  BY <1>1, <1>2, <1>3, <1>4, <1>5, <1>6, <1>7, <1>8, <1>9, <1>10, <1>11, <1>12 DEF ApiNext

LEMMA InvAlways == ApiSpec => []Inv
<1>1. ApiInit => Inv
  BY InvInit
<1>2. Inv /\ [ApiNext]_apiVars => Inv'
  BY InvStep
<1> QED
  BY <1>1, <1>2, PTL DEF ApiSpec

\* For any strategies, results, areas and bounds: the API object, the state
\* machine and the runtime close exactly the transactions they opened, so the
\* blind closes of commit_or_rollback, execute_aux and exit_runtime never fail
\* nor touch a transaction of another layer.
THEOREM LayersBalance == ApiSpec => []TransactionsBalanced
<1>1. Inv => TransactionsBalanced
  BY DEF Inv
<1> QED
  BY <1>1, InvAlways, PTL

\* However a run ended that failed or is repeated in wasm, and whatever it wrote
\* or left open, the storage is again the one the call found
\* (execute_call_with_both_strategy, execute_call_with_native_else_wasm_strategy,
\* commit_or_rollback).
THEOREM FailuresLeaveNoTrace == ApiSpec => FailedRunLeavesNoTrace
<1> DEFINE Traceless ==
      \/ Finishes /\ returned' = Err /\ commitOnSuccess
      \/ call # None /\ call' # None /\ call'.native # call.native
        => stack'[Len(stack')] = call.view
<1>1. Inv /\ [ApiNext]_apiVars => [Traceless]_apiVars
  <2> SUFFICES ASSUME Inv, ApiNext PROVE Traceless
    OBVIOUS
  <2>1. ASSUME NEW strategy \in Strategy, CallApiAt(strategy) PROVE Traceless
    BY <2>1 DEF CallApiAt, Finishes
  <2>2. ASSUME NEW result \in Result, RepeatInWasm(result) PROVE Traceless
    BY <2>2, RepeatInWasmKeepsInv
  <2>3. ASSUME NEW result \in Result, NEW wasNative \in BOOLEAN, Return(result, wasNative)
        PROVE  Traceless
    <3>1. call' = None
      BY <2>3 DEF Return
    <3> QED
      BY <2>3, <3>1, ReturnKeepsInv
  <2>4. ASSUME UNCHANGED call PROVE Traceless
    BY <2>4 DEF Finishes
  <2>5. ASSUME \/ ExecuteInTransaction
               \/ \E commit \in BOOLEAN : TransactionOutcome(commit)
               \/ IntoStorageChanges
               \/ \E a \in Area, k \in Key, value \in Value : PlaceStorage(a, k, value)
               \/ StorageRoot
               \/ StorageStartTransaction
               \/ StorageRollbackTransaction
               \/ StorageCommitTransaction
        PROVE  UNCHANGED call
    BY <2>5 DEF ExecuteInTransaction, TransactionOutcome, IntoStorageChanges, PlaceStorage,
                StorageRoot, StorageStartTransaction, StorageRollbackTransaction,
                StorageCommitTransaction, RuntimeUnchanged
  <2> HIDE DEF Traceless
  <2> QED
    BY <2>1, <2>2, <2>3, <2>4, <2>5 DEF ApiNext
<1> QED
  BY <1>1, InvAlways, PTL DEF ApiSpec, FailedRunLeavesNoTrace

-----------------------------------------------------------------------------
(***************************************************************************)
(* The cached storage root                                                 *)
(***************************************************************************)
\* A step that keeps the top view and either keeps or drops the cache.
LEMMA SameTopKeepsCacheFresh ==
  ASSUME CacheFresh, Top' = Top, cache' \in {cache, None, MainChanges}
  PROVE  CacheFresh'
BY DEF CacheFresh, MainChanges

LEMMA RunCacheChoice == RunCache \in {cache, None}
BY DEF RunCache

LEMMA CacheStep ==
  ASSUME Inv, CacheFreshUnlessDiscarded, [MCNext]_mcVars
  PROVE  CacheFreshUnlessDiscarded'
<1> SUFFICES ASSUME MCNext, ~discarded', cache' # None
             PROVE  CacheFresh'
  BY DEF mcVars, apiVars, nestedVars, CacheFreshUnlessDiscarded, CacheFresh, MainChanges, Top
<1>1. /\ ~discarded
      /\ ~(call # None /\ RollsBack)
      /\ ~(nested' < nested /\ stack' # Committed(stack))
  BY DEF MCNext
<1>2. CacheFresh
  BY <1>1 DEF CacheFreshUnlessDiscarded
<1>3. ASSUME NEW strategy \in Strategy, CallApiAt(strategy) PROVE CacheFresh'
  <2>1. Top' = Top
    BY <1>3, CallApiAtKeepsInv
  <2>2. cache' \in {cache, None}
    BY <1>3, RunCacheChoice DEF CallApiAt, EnterWith
  <2> QED
    BY <1>2, <2>1, <2>2, SameTopKeepsCacheFresh
<1>4. ASSUME NEW result \in Result, RepeatInWasm(result) PROVE FALSE
  <2>1. mode = "runtime" /\ call.native = None /\ call' = [call EXCEPT !.native = result]
    BY <1>4 DEF RepeatInWasm
  <2>2. call \in Call /\ call # None
    BY <2>1, RunState
  <2>3. call' \in Call /\ call'.native = result
    BY <2>1, <2>2 DEF Call
  <2>4. call' # None /\ call'.native # call.native
    BY <2>1, <2>3, NoneIsAbsent
  <2> QED
    BY <1>1, <2>2, <2>4 DEF RollsBack
<1>5. ASSUME NEW result \in Result, NEW wasNative \in BOOLEAN, Return(result, wasNative)
      PROVE  CacheFresh'
  <2>1. mode = "runtime" /\ mode' = "client" /\ cache' \in {cache, None}
    BY <1>5, RunCacheChoice DEF Return
  <2>2. call # None /\ client \in Nat /\ Len(stack) \in Nat /\ client + 1 <= Len(stack)
    BY <2>1, RunState
  <2>3. ~(OpenTransactions > client) /\ ~(returned' = Err /\ commitOnSuccess)
    BY <1>1, <2>1, <2>2 DEF RollsBack
  <2>4. OpenTransactions = client
    BY <2>2, <2>3 DEF OpenTransactions
  <2>5. Top' = Top
    BY <1>5, <2>3, <2>4, ReturnKeepsInv
  <2> QED
    BY <1>2, <2>1, <2>5, SameTopKeepsCacheFresh
<1>6. CASE ExecuteInTransaction
  <2>1. cache' = cache
    BY <1>6 DEF ExecuteInTransaction
  <2> QED
    BY <1>2, <1>6, <2>1, ExecuteInTransactionKeepsInv, SameTopKeepsCacheFresh
<1>7. ASSUME NEW commit \in BOOLEAN, TransactionOutcome(commit) PROVE CacheFresh'
  <2>1. cache' = cache /\ nested' < nested
    BY <1>7 DEF TransactionOutcome, Inv, ApiTypeOK
  <2> QED
    BY <1>1, <1>2, <1>7, <2>1, TransactionOutcomeKeepsInv, SameTopKeepsCacheFresh
<1>8. CASE IntoStorageChanges
  BY <1>8 DEF IntoStorageChanges
<1>9. ASSUME NEW a \in Area, NEW k \in Key, NEW value \in Value, PlaceStorage(a, k, value)
      PROVE  FALSE
  BY <1>9 DEF PlaceStorage
<1>10. CASE StorageRoot
  <2>1. cache' \in {cache, None, MainChanges}
    BY <1>10 DEF StorageRoot
  <2> QED
    BY <1>2, <1>10, <2>1, StorageRootKeepsInv, SameTopKeepsCacheFresh
<1>11. CASE StorageStartTransaction
  <2>1. cache' = cache
    BY <1>11 DEF StorageStartTransaction
  <2> QED
    BY <1>2, <1>11, <2>1, StorageStartTransactionKeepsInv, SameTopKeepsCacheFresh
<1>12. CASE StorageRollbackTransaction
  BY <1>12 DEF StorageRollbackTransaction
<1>13. CASE StorageCommitTransaction
  <2>1. cache' = cache
    BY <1>13 DEF StorageCommitTransaction
  <2> QED
    BY <1>2, <1>13, <2>1, StorageCommitTransactionKeepsInv, SameTopKeepsCacheFresh
<1> QED
  BY <1>3, <1>4, <1>5, <1>6, <1>7, <1>8, <1>9, <1>10, <1>11, <1>12, <1>13 DEF MCNext, ApiNext

\* As long as nothing but the runtime's own storage_rollback_transaction discards
\* changes, a storage root cached by storage_root is the one of the changes that
\* into_storage_changes hands out with it.
THEOREM CachedRootIsFresh == MCSpec => []CacheFreshUnlessDiscarded
<1>1. MCInit => Inv /\ CacheFreshUnlessDiscarded
  BY InvInit DEF MCInit, ApiInit, CacheFreshUnlessDiscarded, CacheFresh
<1>2. Inv /\ CacheFreshUnlessDiscarded /\ [MCNext]_mcVars => Inv' /\ CacheFreshUnlessDiscarded'
  <2>1. [MCNext]_mcVars => [ApiNext]_apiVars
    BY Zenon DEF MCNext, mcVars
  <2> QED
    BY <2>1, InvStep, CacheStep
<1> QED
  BY <1>1, <1>2, PTL DEF MCSpec
=============================================================================
