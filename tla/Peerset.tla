------------------------------ MODULE Peerset ------------------------------
(***************************************************************************)
(* The peer set manager (client/peerset/src/lib.rs): it decides which      *)
(* peers to be connected to and tells the network through a queue of       *)
(* messages.  The network calls back at once when peers connect or drop,   *)
(* also while messages are waiting; everyone else goes through a channel   *)
(* that is only read when no message is waiting.                           *)
(*                                                                         *)
(* The network is modelled by what it believes: which peers it is          *)
(* connected to, and which incoming connections still wait for an answer.  *)
(* It treats messages like the network of client/peerset/tests/fuzz.rs.    *)
(***************************************************************************)
EXTENDS PeersState, Sequences, TLC

CONSTANTS
  BannedThreshold,  \* BANNED_THRESHOLD
  DisconnectChange, \* DISCONNECT_REPUTATION_CHANGE
  Decay,            \* 50: a reputation loses this part of itself every second
  Report,           \* reputation changes that are reported
  Index,            \* indices of incoming connections
  None,
  MaxElapsed        \* bound on the seconds between two updates of time

VARIABLES
  ps,        \* the Peerset: the fields of PeersState and only (reserved_only),
             \* queue (message_queue), elapsed (seconds since latest_time_update)
  net        \* the network: connected, per set the peers it is connected to, and
             \* incoming, the incoming connections that wait, index -> <<set, peer>>

peersetVars == <<ps, net>>

ConnectMsg(s, p) == [type |-> "Connect", set |-> s, peer |-> p]
DropMsg(s, p) == [type |-> "Drop", set |-> s, peer |-> p]
\* The peer and set of an index are known to the network that chose it.
AcceptMsg(s, p, i) == [type |-> "Accept", index |-> i, set |-> s, peer |-> p]
RejectMsg(s, p, i) == [type |-> "Reject", index |-> i, set |-> s, peer |-> p]

Push(st, message) == [st EXCEPT !.queue = Append(@, message)]

\* The states after step was done for each of peers, in any order.
ForEach(st, peers, step(_, _)) ==
  LET after[done \in SUBSET peers] ==
        IF done = {} THEN {st}
        ELSE UNION {UNION {step(v, p) : v \in after[done \ {p}]} : p \in done}
  IN  after[peers]

-----------------------------------------------------------------------------
(***************************************************************************)
(* Time                                                                    *)
(***************************************************************************)
\* Division truncates towards zero.
Quotient(r) == IF r < 0 THEN -((-r) \div Decay) ELSE r \div Decay
\* Mutant: only good reputations fade.
ReputTickGood(r) == IF r > 0 THEN r - 1 ELSE r
ReputTick(r) ==
  LET q    == Quotient(r)
      diff == IF q # 0 THEN q ELSE IF r < 0 THEN -1 ELSE IF r > 0 THEN 1 ELSE 0
  IN  Saturated(r - diff)

\* One second of update_time.  A node whose reputation has faded is forgotten in
\* the sets where it has not been connected for long.
TimeTick(st) ==
  LET rep == [p \in Peer |-> ReputTick(st.rep[p])]
      forgotten == {<<s, p>> \in Sets \X Peer :
                      rep[p] = 0 /\ st.member[s, p] = "idle" /\ st.age[s, p] > ForgetAfter}
  IN  [st EXCEPT !.rep = rep,
                 !.member = [x \in forgotten |-> "none"] @@ @,
                 !.age = [x \in forgotten |-> 0] @@ @]

UpdateTime(st) ==
  LET after[n \in 0 .. st.elapsed] == IF n = 0 THEN st ELSE TimeTick(after[n - 1])
  IN  [after[st.elapsed] EXCEPT !.elapsed = 0]

-----------------------------------------------------------------------------
(***************************************************************************)
(* Filling slots.  Nodes are kept in hash tables: ties and the order of    *)
(* reserved nodes are open, so the result is a set of states.              *)
(***************************************************************************)
Banned(st, p) == st.rep[p] < BannedThreshold

ConnectTo(st, s, p) == Push(Outgoing(st, s, p), ConnectMsg(s, p))

\* The reserved nodes are tried in any order.  The first banned one, which is
\* discovered like the others, ends the loop.
\* Mutant: a reserved node needs a slot.
ConnectReservedInSlots(st, s) ==
  LET missing == st.reserved[s] \ ConnectedPeers(st, s)
      try(v, p) == {IF HasFreeOutgoingSlot(v, s) THEN ConnectTo(v, s, p) ELSE v}
  IN  IF \E p \in missing : Banned(st, p) THEN {st} ELSE ForEach(st, missing, try)
ConnectReserved(st, s) ==
  LET missing == st.reserved[s] \ ConnectedPeers(st, s)
      banned  == {p \in missing : Banned(st, p)}
      upTo(b) == IF st.member[s, b] = "none" THEN Discover(st, s, b) ELSE st
      try(v, p) == {ConnectTo(v, s, p)}
  IN  IF banned = {}
      THEN ForEach(st, missing, try)
      ELSE UNION {ForEach(upTo(b), tried, try) : b \in banned, tried \in SUBSET (missing \ banned)}

\* The peers highest_not_connected_peer may return.
HighestNotConnected(st, s) ==
  {p \in NotConnected(st, s) : \A q \in NotConnected(st, s) : st.rep[p] >= st.rep[q]}

\* One turn of the loop over free slots: the states after it, {} if it ends.
FillSlot(st, s) ==
  IF HasFreeOutgoingSlot(st, s)
  THEN {ConnectTo(st, s, p) : p \in {p \in HighestNotConnected(st, s) : ~Banned(st, p)}}
  ELSE {}

\* The loop connects to every peer at most once.
FillSlots(st, s) ==
  LET turns == Cardinality(Peer)
      after[n \in 0 .. turns] ==
        IF n = 0 THEN {st}
        ELSE UNION {IF FillSlot(v, s) = {} THEN {v} ELSE FillSlot(v, s) : v \in after[n - 1]}
  IN  after[turns]

AllocSlots(st, s) ==
  UNION {IF r.only[s] THEN {r} ELSE FillSlots(r, s) : r \in ConnectReserved(UpdateTime(st), s)}

\* alloc_slots for one set after the other.
AllocAll(st) ==
  LET after[n \in 0 .. NumSets] ==
        IF n = 0 THEN {st} ELSE UNION {AllocSlots(v, n) : v \in after[n - 1]}
  IN  after[NumSets]

-----------------------------------------------------------------------------
(***************************************************************************)
(* The handlers of the channel                                             *)
(***************************************************************************)
DropPeer(st, s, p) == Push(Disconnect(st, s, p), DropMsg(s, p))

OnAddReservedPeer(st, s, p) ==
  IF p \in st.reserved[s] THEN {st} ELSE AllocSlots(AddNoSlotNode(st, s, p), s)

\* Mutant: the peer stays connected.
OnRemoveReservedPeerKeeps(st, s, p) == IF p \in st.reserved[s] THEN RemoveNoSlotNode(st, s, p) ELSE st
OnRemoveReservedPeer(st, s, p) ==
  IF p \notin st.reserved[s] THEN st
  ELSE LET plain == RemoveNoSlotNode(st, s, p)
       IN  IF plain.only[s] /\ p \in ConnectedPeers(plain, s) THEN DropPeer(plain, s, p) ELSE plain

OnSetReservedPeers(st, s, peers) ==
  LET insert(v, p) == OnAddReservedPeer(v, s, p)
      remove(v, p) == {OnRemoveReservedPeer(v, s, p)}
  IN  UNION {ForEach(v, st.reserved[s] \ peers, remove) : v \in ForEach(st, peers \ st.reserved[s], insert)}

OnSetReservedOnly(st, s, only) ==
  LET set == [st EXCEPT !.only[s] = only]
      drop(v, p) == {DropPeer(v, s, p)}
  IN  IF only THEN ForEach(set, ConnectedPeers(set, s) \ set.reserved[s], drop) ELSE AllocSlots(set, s)

AddToPeersSet(st, s, p) ==
  IF st.member[s, p] = "none" THEN AllocSlots(Discover(st, s, p), s) ELSE {st}

OnRemoveFromPeersSet(st, s, p) ==
  IF p \in st.reserved[s] \/ st.member[s, p] = "none" THEN st
  ELSE ForgetPeer(IF p \in ConnectedPeers(st, s) THEN DropPeer(st, s, p) ELSE st, s, p)

OnReportPeer(st, p, change) ==
  LET new == AddReputation(UpdateTime(st), p, change)
      after[n \in 0 .. NumSets] ==
        IF n = 0 THEN {new}
        ELSE UNION {IF p \in ConnectedPeers(v, n) THEN AllocSlots(DropPeer(v, n, p), n) ELSE {v}
                     : v \in after[n - 1]}
  IN  IF Banned(new, p) THEN after[NumSets] ELSE {new}

-----------------------------------------------------------------------------
(***************************************************************************)
(* The calls of the network                                                *)
(***************************************************************************)
\* incoming
\* Mutant: an incoming connection of a connected peer is answered.
IncomingAnswers(st, s, p, i) ==
  LET now   == UpdateTime(st)
      known == IF now.member[s, p] = "none" THEN Discover(now, s, p) ELSE Bump(now, s, p)
  IN  IF \/ now.only[s] /\ p \notin now.reserved[s]
         \/ p \in ConnectedPeers(now, s)
      THEN Push(now, RejectMsg(s, p, i))
      ELSE IF ~Banned(known, p) /\ CanAccept(known, s, p)
           THEN Push(AcceptIncoming(known, s, p), AcceptMsg(s, p, i))
           ELSE Push(known, RejectMsg(s, p, i))
\* Mutant: when the slots are full the connection is left waiting.
IncomingIgnored(st, s, p, i) ==
  LET now   == UpdateTime(st)
      known == IF now.member[s, p] = "none" THEN Discover(now, s, p) ELSE Bump(now, s, p)
  IN  IF now.only[s] /\ p \notin now.reserved[s] THEN Push(now, RejectMsg(s, p, i))
      ELSE IF p \in ConnectedPeers(now, s) \/ ~CanAccept(known, s, p) THEN now
      ELSE IF Banned(known, p) THEN Push(known, RejectMsg(s, p, i))
      ELSE Push(AcceptIncoming(known, s, p), AcceptMsg(s, p, i))
OnIncoming(st, s, p, i) ==
  LET now   == UpdateTime(st)
      known == IF now.member[s, p] = "none" THEN Discover(now, s, p) ELSE Bump(now, s, p)
  IN  IF now.only[s] /\ p \notin now.reserved[s] THEN Push(now, RejectMsg(s, p, i))
      ELSE IF p \in ConnectedPeers(now, s) THEN now
      ELSE IF ~Banned(known, p) /\ CanAccept(known, s, p)
           THEN Push(AcceptIncoming(known, s, p), AcceptMsg(s, p, i))
           ELSE Push(known, RejectMsg(s, p, i))

\* dropped
OnDropped(st, s, p, reason) ==
  LET now     == UpdateTime(st)
      without == IF p \in ConnectedPeers(now, s)
                 THEN Disconnect(AddReputation(now, p, DisconnectChange), s, p)
                 ELSE now
  IN  AllocSlots(IF reason = "Refused" THEN OnRemoveFromPeersSet(without, s, p) ELSE without, s)

-----------------------------------------------------------------------------
(***************************************************************************)
(* The system                                                              *)
(***************************************************************************)
\* from_config, for any reserved nodes; the bootnodes are the idle members.
Configured(reserved, only, member) ==
  [ rep      |-> [p \in Peer |-> 0],
    member   |-> member,
    age      |-> [s \in Sets, p \in Peer |-> 0],
    numIn    |-> [s \in Sets |-> 0],
    numOut   |-> [s \in Sets |-> 0],
    reserved |-> reserved,
    only     |-> only,
    queue    |-> <<>>,
    elapsed  |-> 0 ]

PeersetInit ==
  /\ \E reserved \in [Sets -> SUBSET Peer], only \in [Sets -> BOOLEAN],
        member \in [Sets \X Peer -> {"none", "idle"}] :
       ps \in AllocAll(Configured(reserved, only, member))
  /\ net = [connected |-> [s \in Sets |-> {}], incoming |-> [i \in Index |-> None]]

\* poll_next reads the channel when no message waits.  If a second has passed it
\* first fills the slots of all sets, and then reads the channel all the same.
Idle == ps.queue = <<>>
Polled == {ps} \cup AllocAll(ps)

PeriodicAllocSlots ==
  /\ Idle
  /\ ps' \in AllocAll(ps)
  /\ UNCHANGED net

AddReservedPeer(s, p) ==
  /\ Idle
  /\ ps' \in UNION {OnAddReservedPeer(v, s, p) : v \in Polled}
  /\ UNCHANGED net

RemoveReservedPeer(s, p) ==
  /\ Idle
  /\ ps' \in {OnRemoveReservedPeer(v, s, p) : v \in Polled}
  /\ UNCHANGED net

SetReservedPeers(s, peers) ==
  /\ Idle
  /\ ps' \in UNION {OnSetReservedPeers(v, s, peers) : v \in Polled}
  /\ UNCHANGED net

SetReservedOnly(s, only) ==
  /\ Idle
  /\ ps' \in UNION {OnSetReservedOnly(v, s, only) : v \in Polled}
  /\ UNCHANGED net

ReportPeer(p, change) ==
  /\ Idle
  /\ ps' \in UNION {OnReportPeer(v, p, change) : v \in Polled}
  /\ UNCHANGED net

RemoveFromPeersSet(s, p) ==
  /\ Idle
  /\ ps' \in {OnRemoveFromPeersSet(v, s, p) : v \in Polled}
  /\ UNCHANGED net

\* The network calls only when no Drop message waits: its behaviour reads until
\* no message is left before it does anything else, and what it calls meanwhile
\* puts no Drop message in the queue.
MayCall == \A k \in DOMAIN ps.queue : ps.queue[k].type # "Drop"

\* Through the channel or by the network.
AddPeerToSet(s, p) ==
  /\ \/ Idle /\ ps' \in UNION {AddToPeersSet(v, s, p) : v \in Polled}
     \/ MayCall /\ ps' \in AddToPeersSet(ps, s, p)
  /\ UNCHANGED net

\* What the network does with a message.
Handled(n, m) ==
  CASE m.type = "Connect" ->
         [n EXCEPT !.connected[m.set] = @ \cup {m.peer},
                   !.incoming = [i \in Index |-> IF n.incoming[i] = <<m.set, m.peer>> THEN None ELSE n.incoming[i]]]
    [] m.type = "Drop" -> [n EXCEPT !.connected[m.set] = @ \ {m.peer}]
    [] m.type = "Reject" -> [n EXCEPT !.incoming[m.index] = None]
    [] m.type = "Accept" /\ n.incoming[m.index] = None -> n
    [] m.type = "Accept" /\ n.incoming[m.index] # None ->
         [n EXCEPT !.connected[n.incoming[m.index][1]] = @ \cup {n.incoming[m.index][2]},
                   !.incoming[m.index] = None]

Waiting(s, p) == \E i \in Index : net.incoming[i] = <<s, p>>

\* An index is used again only when nothing refers to it any more.
Incoming(s, p, i) ==
  /\ MayCall
  /\ p \notin net.connected[s] /\ ~Waiting(s, p)
  /\ net.incoming[i] = None
  /\ \A k \in DOMAIN ps.queue : ps.queue[k].type \in {"Accept", "Reject"} => ps.queue[k].index # i
  /\ ps' = OnIncoming(ps, s, p, i)
  /\ net' = [net EXCEPT !.incoming[i] = <<s, p>>]

Dropped(s, p, reason) ==
  /\ MayCall
  /\ p \in net.connected[s]
  /\ net' = [net EXCEPT !.connected[s] = @ \ {p}]
  /\ ps' \in OnDropped(ps, s, p, reason)

Deliver ==
  /\ ps.queue # <<>>
  /\ net' = Handled(net, Head(ps.queue))
  /\ ps' = [ps EXCEPT !.queue = Tail(@)]

\* A second passes.
Second ==
  /\ ps.elapsed < MaxElapsed
  /\ ps' = [ps EXCEPT !.elapsed = @ + 1,
                      !.age = [s \in Sets, p \in Peer |->
                         IF ps.member[s, p] = "idle" /\ ps.age[s, p] <= ForgetAfter
                         THEN ps.age[s, p] + 1 ELSE ps.age[s, p]]]
  /\ UNCHANGED net

PeersetNext ==
  \/ PeriodicAllocSlots
  \/ Deliver
  \/ Second
  \/ \E p \in Peer, change \in Report : ReportPeer(p, change)
  \/ \E s \in Sets :
       \/ \E peers \in SUBSET Peer : SetReservedPeers(s, peers)
       \/ \E only \in BOOLEAN : SetReservedOnly(s, only)
       \/ \E p \in Peer :
            \/ AddReservedPeer(s, p)
            \/ RemoveReservedPeer(s, p)
            \/ AddPeerToSet(s, p)
            \/ RemoveFromPeersSet(s, p)
            \/ \E i \in Index : Incoming(s, p, i)
            \/ \E reason \in {"Unknown", "Refused"} : Dropped(s, p, reason)

PeersetSpec == PeersetInit /\ [][PeersetNext]_peersetVars

\* The timers fire, the network reads its messages, and poll_next looks at the
\* timer whenever the queue is empty, before it reads the channel.
PeersetFairSpec ==
  /\ PeersetSpec
  /\ WF_peersetVars(Second)
  /\ WF_peersetVars(Deliver)
  /\ SF_peersetVars(PeriodicAllocSlots)

-----------------------------------------------------------------------------
(***************************************************************************)
(* Properties                                                              *)
(***************************************************************************)
\* num_in and num_out count the connected nodes that are not reserved, through
\* every change of a connection and of the reserved nodes (peersstate.rs).  A set
\* exceeds its slots only when nodes that took none stop being reserved
\* (remove_no_slot_node): no connection is opened or accepted beyond them.
SlotsKept ==
  /\ []SlotsExact(ps)
  /\ [][\A s \in Sets :
          ps.reserved[s] \subseteq ps'.reserved[s] =>
            /\ ps'.numIn[s] > ps.numIn[s] => ps'.numIn[s] <= MaxIn
            /\ ps'.numOut[s] > ps.numOut[s] => ps'.numOut[s] <= MaxOut]_peersetVars

\* What the network will believe when it has read the first n messages.
View(n) ==
  LET after[k \in 0 .. n] == IF k = 0 THEN net ELSE Handled(after[k - 1], ps.queue[k])
  IN  after[n]

\* The views of the network and of the Peerset never part, whatever the network
\* calls before it has read its messages.  Every message fits when it is read (the
\* assertions of tests/fuzz.rs): a peer to connect to is not connected, an answer
\* is for a connection that waits.  When all are read the network is connected to
\* the peers the Peerset takes for connected, and no incoming connection waits:
\* incoming was answered, or a Connect for the same peer was on its way.
ViewsAgree ==
  /\ \A k \in DOMAIN ps.queue :
       LET m == ps.queue[k]
           n == View(k - 1)
       IN  /\ m.type = "Connect" => m.peer \notin n.connected[m.set]
           /\ m.type \in {"Accept", "Reject"} =>
                /\ n.incoming[m.index] # None
                /\ n.incoming[m.index][2] \notin n.connected[n.incoming[m.index][1]]
  /\ View(Len(ps.queue)) = [connected |-> [s \in Sets |-> ConnectedPeers(ps, s)],
                            incoming  |-> [i \in Index |-> None]]

\* What the Peerset means to one peer in one set, as PeersetLink tells it.
MessageOf(m) ==
  IF m.type \in {"Connect", "Drop"} THEN [type |-> m.type] ELSE [type |-> m.type, index |-> m.index]
LinkOf(s, p) ==
  LET own == SelectSeq(ps.queue, LAMBDA m : m.set = s /\ m.peer = p)
  IN  [connected |-> p \in ConnectedPeers(ps, s), queue |-> [k \in DOMAIN own |-> MessageOf(own[k])]]
Link(s, p) == INSTANCE PeersetLink WITH link <- LinkOf(s, p)

\* Towards every peer in every set the Peerset behaves as PeersetLink promises:
\* what it does of its own accord it says, and it answers every call as it should.
PeersetLinked ==
  /\ \A s \in Sets, p \in Peer : Link(s, p)!LinkInit
  /\ [][\A s \in Sets, p \in Peer :
          /\ \/ Link(s, p)!LinkFill \/ Link(s, p)!LinkCommand \/ Link(s, p)!LinkRead
             \/ \E i \in Index : Incoming(s, p, i) /\ Link(s, p)!LinkIncoming(i)
             \/ \E reason \in {"Unknown", "Refused"} : Dropped(s, p, reason) /\ Link(s, p)!LinkDropped
          /\ \A i \in Index : net.incoming[i] = None /\ net'.incoming[i] = <<s, p>>
                               => Link(s, p)!LinkIncoming(i)]_peersetVars

\* No connection to a peer under the threshold is opened or accepted, and a set
\* that is restricted to reserved nodes has no other connections, whatever the
\* order in which nodes and the mode are changed.
ConnectionsAllowed ==
  /\ [](\A s \in Sets : ps.only[s] => ConnectedPeers(ps, s) \subseteq ps.reserved[s])
  /\ [][\A s \in Sets : \A p \in ConnectedPeers(ps, s)' \ ConnectedPeers(ps, s) : ~Banned(ps', p)]_peersetVars

\* No peer is connected while its reputation is under the threshold.
BannedNotConnected ==
  \A s \in Sets : \A p \in ConnectedPeers(ps, s) : ~Banned(ps, p)

\* After the periodic allocation every reserved node that is not banned is
\* connected.
ReservedMaintained ==
  [][PeriodicAllocSlots =>
       \A s \in Sets : \A p \in ps'.reserved[s] : ~Banned(ps', p) => p \in ConnectedPeers(ps, s)']_peersetVars

\* The same when no reserved node of the set is banned.
ReservedMaintainedUnlessBanned ==
  [][PeriodicAllocSlots =>
       \A s \in Sets :
         (\A p \in ps'.reserved[s] : ~Banned(ps', p)) => ps'.reserved[s] \subseteq ConnectedPeers(ps, s)']_peersetVars

\* A node that stays reserved is connected for good in the end if reports and
\* disconnections cease: bans wear off with time (update_time), and the periodic
\* allocation does the rest.
ReservedEventuallyConnected ==
  \A s \in Sets, p \in Peer :
    /\ <>[](p \in ps.reserved[s])
    /\ <>[][ /\ \A q \in Peer, change \in Report : ~ReportPeer(q, change)
             /\ \A t \in Sets, q \in Peer, reason \in {"Unknown", "Refused"} : ~Dropped(t, q, reason)
           ]_peersetVars
    => <>[](p \in net.connected[s])
=============================================================================
