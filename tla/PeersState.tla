----------------------------- MODULE PeersState -----------------------------
(***************************************************************************)
(* The nodes the peer set manager knows and the slots they take            *)
(* (client/peerset/src/peersstate.rs), as operators on a record that has   *)
(* the fields                                                              *)
(*                                                                         *)
(*   rep       the reputation of every peer                                *)
(*   member    per set and peer: "none" (not a member), "idle" (member,    *)
(*             not connected), "in" or "out" (connected)                   *)
(*   age       per set and peer: seconds since last_connected, for idle    *)
(*             members, up to ForgetAfter + 1                              *)
(*   numIn     per set: slots counted as taken, which the code updates     *)
(*   numOut    step by step                                                *)
(*   reserved  per set: reserved_nodes and, kept in sync, no_slot_nodes    *)
(*                                                                         *)
(* A node is stored as long as it is a member of a set or its reputation   *)
(* is not zero, so what is stored follows from rep and member.             *)
(***************************************************************************)
EXTENDS Integers, FiniteSets

CONSTANTS
  Peer,
  NumSets,
  MaxIn, MaxOut,  \* slots of each set
  MinRep, MaxRep, \* i32::MIN and i32::MAX
  ForgetAfter     \* FORGET_AFTER

Sets == 1 .. NumSets

ConnectedPeers(st, s) == {p \in Peer : st.member[s, p] \in {"in", "out"}}
NotConnected(st, s) == {p \in Peer : st.member[s, p] = "idle"}

\* saturating_add
Saturated(r) == IF r < MinRep THEN MinRep ELSE IF r > MaxRep THEN MaxRep ELSE r
AddReputation(st, p, change) == [st EXCEPT !.rep[p] = Saturated(@ + change)]

-----------------------------------------------------------------------------
\* The slots of set s change by n if p takes one there.
CountIn(st, s, p, n) ==
  IF p \notin st.reserved[s] /\ st.member[s, p] = "in" THEN st.numIn[s] + n ELSE st.numIn[s]
CountOut(st, s, p, n) ==
  IF p \notin st.reserved[s] /\ st.member[s, p] = "out" THEN st.numOut[s] + n ELSE st.numOut[s]

\* UnknownPeer::discover
Discover(st, s, p) == [st EXCEPT !.member[s, p] = "idle", !.age[s, p] = 0]

\* bump_last_connected_or_discovered
Bump(st, s, p) == [st EXCEPT !.age[s, p] = 0]

\* ConnectedPeer::disconnect
Disconnect(st, s, p) ==
  [st EXCEPT !.numIn[s] = CountIn(st, s, p, -1), !.numOut[s] = CountOut(st, s, p, -1),
             !.member[s, p] = "idle", !.age[s, p] = 0]

HasFreeOutgoingSlot(st, s) == st.numOut[s] < MaxOut

\* try_outgoing and try_accept_incoming, the case of success and its condition.
Outgoing(st, s, p) ==
  LET connected == [st EXCEPT !.member[s, p] = "out", !.age[s, p] = 0]
  IN  [connected EXCEPT !.numOut[s] = CountOut(connected, s, p, 1)]
CanAccept(st, s, p) == p \in st.reserved[s] \/ st.numIn[s] < MaxIn
AcceptIncoming(st, s, p) ==
  LET connected == [st EXCEPT !.member[s, p] = "in", !.age[s, p] = 0]
  IN  [connected EXCEPT !.numIn[s] = CountIn(connected, s, p, 1)]

\* NotConnectedPeer::forget_peer
ForgetPeer(st, s, p) == [st EXCEPT !.member[s, p] = "none", !.age[s, p] = 0]

\* Mutant: the slot of a connected node is not given back.
AddNoSlotNodeLeaks(st, s, p) == [st EXCEPT !.reserved[s] = @ \cup {p}]
AddNoSlotNode(st, s, p) ==
  [st EXCEPT !.numIn[s] = CountIn(st, s, p, -1), !.numOut[s] = CountOut(st, s, p, -1),
             !.reserved[s] = @ \cup {p}]

RemoveNoSlotNode(st, s, p) ==
  LET plain == [st EXCEPT !.reserved[s] = @ \ {p}]
  IN  [plain EXCEPT !.numIn[s] = CountIn(plain, s, p, 1), !.numOut[s] = CountOut(plain, s, p, 1)]

-----------------------------------------------------------------------------
\* The slots counted are the slots taken.  The counters are adjusted at every
\* change of a membership and of the reserved nodes; a slip would let them wrap
\* around or leave slots unused for ever.
SlotsExact(st) ==
  \A s \in Sets :
    /\ st.numIn[s] = Cardinality({p \in Peer \ st.reserved[s] : st.member[s, p] = "in"})
    /\ st.numOut[s] = Cardinality({p \in Peer \ st.reserved[s] : st.member[s, p] = "out"})
=============================================================================
