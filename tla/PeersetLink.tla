---------------------------- MODULE PeersetLink ----------------------------
(***************************************************************************)
(* What the Peerset promises the network about one peer in one set: the    *)
(* answers to its calls and the messages for that peer.  Peerset.tla is    *)
(* shown to implement it, and Notifications.tla is built on it.            *)
(***************************************************************************)
EXTENDS Naturals, Sequences

CONSTANT Index      \* indices of incoming connections

VARIABLE link       \* connected: whether the Peerset takes the peer for
                    \* connected; queue: the messages for it that wait

Connect == [type |-> "Connect"]
Drop == [type |-> "Drop"]
Accept(i) == [type |-> "Accept", index |-> i]
Reject(i) == [type |-> "Reject", index |-> i]

Says(l, message, connected) == [connected |-> connected, queue |-> Append(l.queue, message)]

\* Slots are filled: the peer may be asked for, or not.
Filled(l) == IF l.connected THEN {l} ELSE {l, Says(l, Connect, TRUE)}

\* A connected peer may be let go.
LetGo(l) == IF l.connected THEN {l, Says(l, Drop, FALSE)} ELSE {l}

\* What one command of the channel, and the periodic allocation before it, may do.
Commanded(l) == UNION {UNION {Filled(w) : w \in LetGo(v)} : v \in Filled(l)}

\* incoming: not answered if the peer is already connected.
AfterIncoming(l, i) ==
  IF l.connected THEN {l} ELSE {Says(l, Accept(i), TRUE), Says(l, Reject(i), FALSE)}

\* dropped: the slot is free, and slots are filled.
AfterDropped(l) == Filled([l EXCEPT !.connected = FALSE])

LinkInit == link \in Filled([connected |-> FALSE, queue |-> <<>>])

\* The channel is read only when nothing waits; the calls of the network about
\* other peers fill slots.
LinkCommand == link.queue = <<>> /\ link' \in Commanded(link)
LinkFill == link' \in Filled(link)
LinkIncoming(i) == link' \in AfterIncoming(link, i)
LinkDropped == link' \in AfterDropped(link)
LinkRead == link.queue # <<>> /\ link' = [link EXCEPT !.queue = Tail(@)]

LinkNext ==
  LinkCommand \/ LinkFill \/ LinkRead \/ LinkDropped \/ \E i \in Index : LinkIncoming(i)
LinkSpec == LinkInit /\ [][LinkNext]_link
=============================================================================
