------------------------ MODULE NotificationsProofs ------------------------
(***************************************************************************)
(* What the behaviour of the notifications keeps true of the external API  *)
(* and of the Peerset, for any number of connections, delays, indices and  *)
(* events on their way.                                                    *)
(***************************************************************************)
EXTENDS NotificationsLemmas

-----------------------------------------------------------------------------
(***************************************************************************)
(* The inductive invariant                                                 *)
(***************************************************************************)
NotifType ==
  /\ b \in Behaviour
  /\ conn \in [Conn -> Task]
  /\ polling \in BOOLEAN
  /\ link \in PeersetLinks

OnlyRejects(queue) == \A k \in DOMAIN queue : queue[k] \in Rejects
LastAsks(queue) ==
  /\ queue # <<>>
  /\ \A k \in 1 .. (Len(queue) - 1) : queue[k] \in Rejects
  /\ queue[Len(queue)] \in {Connect} \cup Accepts

\* What the Peerset may have said to a peer that was asked for, and to another one.
\* The channel is read, and Drop comes, only while poll reads.
LinkToRequested(l, p) ==
  \/ l.connected /\ l.queue = <<>>
  \/ p /\ ~l.connected /\ l.queue = <<Drop>>
  \/ p /\ l.connected /\ l.queue = <<Drop, Connect>>
LinkToOther(l, p) ==
  \/ ~l.connected /\ OnlyRejects(l.queue)
  \/ l.connected /\ LastAsks(l.queue)
  \/ p /\ ~l.connected /\ l.queue = <<Connect, Drop>>
  \/ p /\ l.connected /\ l.queue = <<Connect, Drop, Connect>>
LinkFits(requested, l, p) ==
  IF requested THEN LinkToRequested(l, p) ELSE LinkToOther(l, p)

NotifInv ==
  /\ NotifType
  /\ b.ok => /\ OpenOnlyEnabled(b)
             /\ "open" \in DOMAIN ext /\ ext.open = IF OpenIn(b) THEN "open" ELSE "closed"
             /\ LinkFits(RequestedIn(b), link, polling)

-----------------------------------------------------------------------------
(***************************************************************************)
(* The messages of the Peerset                                             *)
(***************************************************************************)
LEMMA MessagesDiffer ==
  /\ Connect.type = "Connect" /\ Drop.type = "Drop"
  /\ \A m \in Accepts : m.type = "Accept" /\ m.index \in Index
  /\ \A m \in Rejects : m.type = "Reject" /\ m.index \in Index
BY DEF Connect, Drop, Accept, Reject, Accepts, Rejects

LEMMA SaysFields ==
  ASSUME NEW l \in PeersetLinks, NEW m \in Messages, NEW connected \in BOOLEAN
  PROVE  LET n == Says(l, m, connected) IN
         /\ n \in PeersetLinks /\ n.connected = connected
         /\ n.queue = Append(l.queue, m) /\ n.queue # <<>>
BY DEF Says, PeersetLinks

LEMMA AppendAsks ==
  ASSUME NEW queue \in Seq(Messages), OnlyRejects(queue), NEW m \in {Connect} \cup Accepts
  PROVE  LastAsks(Append(queue, m))
<1> DEFINE longer == Append(queue, m)
<1>1. /\ Len(longer) = Len(queue) + 1 /\ longer # <<>> /\ longer[Len(longer)] = m
      /\ Len(queue) \in Nat /\ DOMAIN queue = 1 .. Len(queue)
      /\ \A k \in 1 .. Len(queue) : longer[k] = queue[k]
  OBVIOUS
<1> HIDE DEF longer
<1>2. LastAsks(longer)
  BY <1>1 DEF LastAsks, OnlyRejects
<1> QED BY <1>2 DEF longer

LEMMA AppendRejects ==
  ASSUME NEW queue \in Seq(Messages), OnlyRejects(queue), NEW m \in Rejects
  PROVE  OnlyRejects(Append(queue, m))
BY DEF OnlyRejects, Messages

\* What is in order for a peer that nobody asked for, whether poll reads or not.
Settled(l) ==
  \/ ~l.connected /\ OnlyRejects(l.queue)
  \/ l.connected /\ LastAsks(l.queue)

LEMMA FilledSettled ==
  ASSUME NEW l \in PeersetLinks, NEW n \in Filled(l)
  PROVE  n \in PeersetLinks /\ (Settled(l) => Settled(n))
<1>1. Connect \in Messages /\ l.queue \in Seq(Messages)
  BY DEF Messages, PeersetLinks
<1>2. CASE n = l
  BY <1>2
<1>3. CASE ~l.connected /\ n = Says(l, Connect, TRUE)
  <2>1. n \in PeersetLinks /\ n.connected /\ n.queue = Append(l.queue, Connect)
    BY <1>1, <1>3, SaysFields, Zenon
  <2>2. OnlyRejects(l.queue) => LastAsks(n.queue)
    BY <1>1, <2>1, AppendAsks
  <2> QED BY <1>3, <2>1, <2>2, Zenon DEF Settled
<1> QED BY <1>2, <1>3, Zenon DEF Filled

LEMMA DroppedSettled ==
  ASSUME NEW l \in PeersetLinks, NEW n \in AfterDropped(l)
  PROVE  n \in PeersetLinks /\ (l.queue = <<>> => Settled(n))
<1> DEFINE free == [l EXCEPT !.connected = FALSE]
<1>1. free \in PeersetLinks /\ ~free.connected /\ free.queue = l.queue
  BY Zenon DEF PeersetLinks
<1>2. n \in Filled(free)
  BY DEF AfterDropped
<1> HIDE DEF free
<1>3. l.queue = <<>> => Settled(free)
  BY <1>1 DEF Settled, OnlyRejects
<1> QED BY <1>1, <1>2, <1>3, FilledSettled

LEMMA IncomingSettled ==
  ASSUME NEW l \in PeersetLinks, NEW i \in Index, NEW n \in AfterIncoming(l, i)
  PROVE  n \in PeersetLinks /\ (Settled(l) => Settled(n))
<1>1. Accept(i) \in Messages /\ Reject(i) \in Messages /\ l.queue \in Seq(Messages)
      /\ Accept(i) \in Accepts /\ Reject(i) \in Rejects
  BY DEF Messages, PeersetLinks, Accepts, Rejects
<1>2. CASE n = l
  BY <1>2
<1>3. CASE ~l.connected /\ n = Says(l, Accept(i), TRUE)
  <2>1. n \in PeersetLinks /\ n.connected /\ n.queue = Append(l.queue, Accept(i))
    BY <1>1, <1>3, SaysFields, Zenon
  <2>2. OnlyRejects(l.queue) => LastAsks(n.queue)
    BY <1>1, <2>1, AppendAsks
  <2> QED BY <1>3, <2>1, <2>2, Zenon DEF Settled
<1>4. CASE ~l.connected /\ n = Says(l, Reject(i), FALSE)
  <2>1. n \in PeersetLinks /\ ~n.connected /\ n.queue = Append(l.queue, Reject(i))
    BY <1>1, <1>4, SaysFields, Zenon
  <2>2. OnlyRejects(l.queue) => OnlyRejects(n.queue)
    BY <1>1, <2>1, AppendRejects
  <2> QED BY <1>4, <2>1, <2>2, Zenon DEF Settled
<1> QED BY <1>2, <1>3, <1>4, Zenon DEF AfterIncoming

LEMMA SettledFits ==
  ASSUME NEW l, NEW p
  PROVE  /\ Settled(l) => LinkFits(FALSE, l, p)
         /\ ~p /\ LinkFits(FALSE, l, p) => Settled(l)
         /\ l.queue = <<>> /\ LinkFits(FALSE, l, p) => Settled(l)
         /\ l.connected /\ l.queue = <<>> => LinkFits(TRUE, l, p)
         /\ ~p /\ LinkFits(TRUE, l, p) => l.connected /\ l.queue = <<>>
BY DEF Settled, LinkFits, LinkToOther, LinkToRequested

LEMMA CalledType ==
  ASSUME NEW l \in PeersetLinks, NEW e, CallTyped(e), NEW n \in Called(l, e.call)
  PROVE  /\ n \in PeersetLinks
         /\ e.call = <<>> => n = l
         /\ e.call = <<"dropped">> /\ l.queue = <<>> => Settled(n)
         /\ e.call \in Incomings /\ Settled(l) => Settled(n)
<1>1. CASE e.call = <<>>
  <2>1. n = l
    BY <1>1 DEF Called
  <2> QED BY <1>1, <2>1 DEF Incomings
<1>2. CASE e.call = <<"dropped">>
  <2>1. n \in AfterDropped(l)
    BY <1>2 DEF Called
  <2>2. e.call # <<>> /\ e.call \notin Incomings
    BY <1>2 DEF Incomings
  <2> QED BY <2>1, <2>2, DroppedSettled
<1>3. CASE e.call \in Incomings
  <2>1. PICK i \in Index : e.call = <<"incoming", i>>
    BY <1>3 DEF Incomings
  <2>2. n \in AfterIncoming(l, i) /\ e.call # <<>> /\ e.call # <<"dropped">>
    BY <2>1 DEF Called
  <2> QED BY <2>2, IncomingSettled
<1> QED BY <1>1, <1>2, <1>3 DEF CallTyped

-----------------------------------------------------------------------------
(***************************************************************************)
(* The steps                                                               *)
(***************************************************************************)
LEMMA TellsTold ==
  ASSUME NEW x, "open" \in DOMAIN x, NEW was \in BOOLEAN, NEW is \in BOOLEAN, NEW tell,
         Tells(was, is, tell), x.open = IF was THEN "open" ELSE "closed"
  PROVE  LET y == Told(x, tell) IN
         "open" \in DOMAIN y /\ y.open = IF is THEN "open" ELSE "closed"
<1>1. CASE tell = <<>>
  <2>1. Told(x, tell) = x /\ (is <=> was)
    BY <1>1 DEF Told, Tells
  <2> QED BY <2>1
<1>2. CASE tell # <<>> /\ tell[1].event = "Open"
  <2>1. Told(x, tell) = [open |-> "open", sink |-> tell[1].sink] /\ is
    BY <1>2 DEF Told, Tells
  <2> QED BY <2>1
<1>3. CASE tell # <<>> /\ tell[1].event = "Replaced"
  <2>1. Told(x, tell) = [open |-> "open", sink |-> tell[1].sink] /\ is
    BY <1>3 DEF Told, Tells
  <2> QED BY <2>1
<1>4. CASE tell # <<>> /\ tell[1].event = "Closed"
  <2>1. Told(x, tell) = [open |-> "closed", sink |-> None] /\ ~is
    BY <1>4 DEF Told, Tells
  <2> QED BY <2>1
<1>5. CASE tell # <<>> /\ tell[1].event = "Notification"
  <2>1. Told(x, tell) = [x EXCEPT !.open = "open"] /\ is
    BY <1>5 DEF Told, Tells
  <2> QED BY <2>1
<1> QED BY <1>1, <1>2, <1>3, <1>4, <1>5, SMTT(30) DEF Tells

LEMMA SentType ==
  ASSUME NEW cs \in [Conn -> Task], NEW e
  PROVE  Sent(cs, e) \in [Conn -> Task]
<1> SUFFICES ASSUME NEW c \in Conn
             PROVE  Sent(cs, e)[c] \in Task
  BY Zenon DEF Sent
<1> DEFINE more == (IF c \in e.open THEN <<"Open">> ELSE <<>>)
           last == (IF c \in e.close THEN <<"Close">> ELSE <<>>)
           commands == cs[c].commands \o more \o last
<1>1. cs[c] \in Task /\ cs[c].commands \in Seq({"Open", "Close"})
  BY DEF Task
<1>2. more \in Seq({"Open", "Close"}) /\ last \in Seq({"Open", "Close"})
  <2>1. <<"Open">> \in Seq({"Open", "Close"}) /\ <<"Close">> \in Seq({"Open", "Close"})
    OBVIOUS
  <2>2. <<>> \in Seq({"Open", "Close"})
    OBVIOUS
  <2> QED BY <2>1, <2>2, Zenon
<1>3. Sent(cs, e)[c] = IF cs[c].up # "up" THEN cs[c] ELSE [cs[c] EXCEPT !.commands = commands]
  BY DEF Sent
<1> HIDE DEF more, last
<1>4. commands \in Seq({"Open", "Close"})
  BY <1>1, <1>2
<1> HIDE DEF commands
<1> QED BY <1>1, <1>3, <1>4, Zenon DEF Task

\* The invariant about the next state.
LEMMA NextInv ==
  ASSUME b' \in Behaviour, conn' \in [Conn -> Task], polling' \in BOOLEAN, link' \in PeersetLinks,
         b'.ok => /\ OpenOnlyEnabled(b')
                  /\ "open" \in DOMAIN ext' /\ ext'.open = IF OpenIn(b') THEN "open" ELSE "closed"
                  /\ LinkFits(RequestedIn(b'), link', polling')
  PROVE  NotifInv'
BY ZenonT(60) DEF NotifInv, NotifType, OpenOnlyEnabled, OpenIn, LinkFits, RequestedIn, LinkToRequested,
       LinkToOther, OnlyRejects, LastAsks, Has, Ids

LEMMA InvUsual ==
  ASSUME NotifInv
  PROVE  Usual(b)
BY DEF NotifInv, NotifType, Usual

\* An operation that is no message of the Peerset; the ones while poll reads call
\* nobody.
LEMMA DoStep ==
  ASSUME NotifInv, NEW effects, NEW cs \in [Conn -> Task], Do(effects, cs, link),
         polling' = polling,
         \A e \in effects : Proper(b, e) /\ (polling /\ e.b.ok => e.call = <<>>)
  PROVE  NotifInv'
<1>1. PICK e \in effects :
        b' = e.b /\ conn' = Sent(cs, e) /\ ext' = Told(ext, e.tell) /\ link' \in Called(link, e.call)
  BY DEF Do
<1>2. Fine(b, e) /\ CallTyped(e) /\ CallFits(b, e) /\ (polling /\ e.b.ok => e.call = <<>>)
  BY DEF Proper
<1>3. /\ link \in PeersetLinks /\ polling \in BOOLEAN
      /\ b.ok => /\ "open" \in DOMAIN ext /\ ext.open = IF OpenIn(b) THEN "open" ELSE "closed"
                 /\ LinkFits(RequestedIn(b), link, polling)
  BY DEF NotifInv, NotifType
<1>4. b' \in Behaviour /\ conn' \in [Conn -> Task] /\ polling' \in BOOLEAN /\ link' \in PeersetLinks
  BY <1>1, <1>2, <1>3, SentType, CalledType, SMTT(30) DEF Fine
<1>5. ASSUME b'.ok
      PROVE  /\ OpenOnlyEnabled(b')
             /\ "open" \in DOMAIN ext' /\ ext'.open = IF OpenIn(b') THEN "open" ELSE "closed"
             /\ LinkFits(RequestedIn(b'), link', polling')
  <2>1. b.ok /\ OpenOnlyEnabled(b') /\ Tells(OpenIn(b), OpenIn(b'), e.tell)
    BY <1>1, <1>2, <1>5 DEF Fine
  <2>2. OpenIn(b) \in BOOLEAN /\ OpenIn(b') \in BOOLEAN
    BY DEF OpenIn
  <2>3. "open" \in DOMAIN ext' /\ ext'.open = IF OpenIn(b') THEN "open" ELSE "closed"
    BY <1>1, <1>3, <2>1, <2>2, TellsTold, SMTT(30)
  <2>4. LinkFits(RequestedIn(b'), link', polling')
    <3>1. CASE (RequestedIn(b') <=> RequestedIn(b)) /\ e.call = <<>>
      <4>1. link' = link
        BY <1>1, <1>2, <1>3, <3>1, CalledType
      <4>2. LinkFits(RequestedIn(b), link, polling)
        BY <1>3, <2>1
      <4> QED BY <3>1, <4>1, <4>2 DEF LinkFits
    <3>2. CASE ~RequestedIn(b) /\ ~RequestedIn(b') /\ e.call \in Incomings
      <4>1. ~polling
        BY <1>1, <1>2, <1>5, <3>2 DEF Incomings
      <4>2. Settled(link)
        BY <1>3, <2>1, <3>2, <4>1, SettledFits, SMTT(30) DEF LinkFits
      <4>3. Settled(link')
        BY <1>1, <1>2, <1>3, <3>2, <4>2, CalledType, SMTT(30)
      <4> QED BY <3>2, <4>3, SettledFits DEF LinkFits
    <3>3. CASE RequestedIn(b) /\ ~RequestedIn(b') /\ e.call = <<"dropped">>
      <4>1. ~polling
        BY <1>1, <1>2, <1>5, <3>3, SMTT(30)
      <4>2. link.queue = <<>>
        BY <1>3, <2>1, <3>3, <4>1, SettledFits, SMTT(30) DEF LinkFits
      <4>3. Settled(link')
        BY <1>1, <1>2, <1>3, <3>3, <4>2, CalledType, SMTT(30)
      <4> QED BY <3>3, <4>3, SettledFits DEF LinkFits
    <3> QED BY <1>1, <1>2, <1>5, <3>1, <3>2, <3>3, SMTT(30) DEF CallFits
  <2> QED BY <2>1, <2>3, <2>4
<1> QED BY <1>4, <1>5, NextInv

\* What is left of the messages, by the one that is read.
LEMMA RestFits ==
  ASSUME NEW l \in PeersetLinks, l.queue # <<>>, NEW req \in BOOLEAN, NEW p \in BOOLEAN,
         LinkFits(req, l, p)
  PROVE  LET m == Head(l.queue)
             rest == [l EXCEPT !.queue = Tail(l.queue)]
         IN  \/ m = Connect /\ ~req /\ LinkToRequested(rest, rest.queue # <<>>)
             \/ m = Drop /\ req /\ Settled(rest)
             \/ m \in Rejects /\ ~req /\ Settled(rest)
             \/ m \in Accepts /\ ~req /\ rest.connected /\ rest.queue = <<>>
<1> DEFINE q == l.queue
           m == Head(q)
           t == Tail(q)
           rest == [l EXCEPT !.queue = t]
<1>1. q \in Seq(Messages) /\ q # <<>> /\ l.connected \in BOOLEAN
  BY DEF PeersetLinks
<1>2. rest.connected = l.connected /\ rest.queue = t
  BY DEF PeersetLinks
<1>3. /\ m = q[1] /\ Len(q) \in Nat \ {0} /\ DOMAIN q = 1 .. Len(q) /\ t \in Seq(Messages)
      /\ Len(t) = Len(q) - 1 /\ DOMAIN t = 1 .. Len(t)
      /\ \A k \in 1 .. Len(t) : t[k] = q[k + 1]
  BY <1>1
<1> SUFFICES \/ m = Connect /\ ~req /\ LinkToRequested(rest, rest.queue # <<>>)
             \/ m = Drop /\ req /\ Settled(rest)
             \/ m \in Rejects /\ ~req /\ Settled(rest)
             \/ m \in Accepts /\ ~req /\ rest.connected /\ rest.queue = <<>>
  OBVIOUS
<1>4. CASE req
  <2>1. \/ ~l.connected /\ q = <<Drop>>
        \/ l.connected /\ q = <<Drop, Connect>>
    BY <1>1, <1>4 DEF LinkFits, LinkToRequested
  <2>2. CASE ~l.connected /\ q = <<Drop>>
    <3>1. m = Drop /\ t = <<>>
      BY <2>2
    <3> QED BY <1>2, <1>4, <2>2, <3>1 DEF Settled, OnlyRejects
  <2>3. CASE l.connected /\ q = <<Drop, Connect>>
    <3>1. m = Drop /\ t = <<Connect>>
      BY <2>3
    <3>2. LastAsks(<<Connect>>)
      BY SMTT(30) DEF LastAsks
    <3> QED BY <1>2, <1>4, <2>3, <3>1, <3>2, SMTT(30) DEF Settled
  <2> QED BY <2>1, <2>2, <2>3, Zenon
<1>5. CASE ~req
  <2>1. LinkToOther(l, p)
    BY <1>5 DEF LinkFits
  <2>2. CASE ~l.connected /\ OnlyRejects(q)
    <3>1. m \in Rejects
      BY <1>3, <2>2 DEF OnlyRejects
    <3>2. OnlyRejects(t)
      BY <1>3, <2>2 DEF OnlyRejects
    <3> QED BY <1>2, <1>5, <2>2, <3>1, <3>2 DEF Settled
  <2>3. CASE l.connected /\ LastAsks(q) /\ Len(q) = 1
    <3>1. m \in {Connect} \cup Accepts /\ t = <<>>
      BY <1>3, <2>3, SMTT(30) DEF LastAsks
    <3> QED BY <1>2, <1>5, <2>3, <3>1 DEF LinkToRequested
  <2>4. CASE l.connected /\ LastAsks(q) /\ Len(q) # 1
    <3> HIDE DEF q, m, t
    <3>1. m \in Rejects
      BY <1>3, <2>4 DEF LastAsks
    <3>2. LastAsks(t)
      <4>1. t # <<>> /\ Len(t) \in Nat /\ Len(t) >= 1
        BY <1>3, <2>4
      <4>2. \A k \in 1 .. (Len(t) - 1) : t[k] \in Rejects
        BY <1>3, <2>4, <4>1 DEF LastAsks
      <4>3. t[Len(t)] \in {Connect} \cup Accepts
        BY <1>3, <2>4, <4>1 DEF LastAsks
      <4> QED BY <4>1, <4>2, <4>3 DEF LastAsks
    <3> QED BY <1>2, <1>5, <2>4, <3>1, <3>2 DEF Settled
  <2>5. CASE ~l.connected /\ q = <<Connect, Drop>>
    <3>1. m = Connect /\ t = <<Drop>>
      BY <2>5
    <3> QED BY <1>2, <1>5, <2>5, <3>1, SMTT(30) DEF LinkToRequested
  <2>6. CASE l.connected /\ q = <<Connect, Drop, Connect>>
    <3>1. m = Connect /\ t = <<Drop, Connect>>
      BY <2>6
    <3> QED BY <1>2, <1>5, <2>6, <3>1 DEF LinkToRequested
  <2> QED BY <2>1, <2>2, <2>3, <2>4, <2>5, <2>6, Zenon DEF LinkToOther
<1> QED BY <1>4, <1>5

\* What the behaviour does with a message.
Reads(v, m) ==
  CASE m.type = "Connect" -> ReportConnect(v)
    [] m.type = "Drop" -> {ReportDisconnect(v)}
    [] m.type = "Accept" -> {ReportAccept(v, m.index)}
    [] m.type = "Reject" -> {ReportReject(v, m.index)}

LEMMA ReadsEffect ==
  ASSUME NEW v, Usual(v), NEW m \in Messages, NEW e \in Reads(v, m)
  PROVE  /\ Fine(v, e) /\ CallTyped(e)
         /\ e.b.ok =>
              /\ m = Connect => RequestedIn(e.b) /\ e.call = <<>>
              /\ m = Drop => ~RequestedIn(e.b) /\ e.call = <<>>
              /\ m \in Rejects => (RequestedIn(e.b) <=> RequestedIn(v)) /\ e.call = <<>>
              /\ m \in Accepts /\ ~RequestedIn(v) => \/ RequestedIn(e.b) /\ e.call = <<>>
                                                     \/ ~RequestedIn(e.b) /\ e.call = <<"dropped">>
<1>1. CASE m = Connect
  <2>1. e \in ReportConnect(v) /\ m # Drop /\ m \notin Rejects /\ m \notin Accepts
    BY <1>1, MessagesDiffer DEF Reads
  <2> QED BY <2>1, ReportConnectEffect DEF CallTyped
<1>2. CASE m = Drop
  <2>1. e = ReportDisconnect(v) /\ m # Connect /\ m \notin Rejects /\ m \notin Accepts
    BY <1>2, MessagesDiffer, SMTT(30) DEF Reads
  <2> QED BY <2>1, ReportDisconnectEffect DEF CallTyped
<1>3. CASE m \in Rejects
  <2>1. e = ReportReject(v, m.index) /\ m.index \in Index /\ m # Connect /\ m # Drop /\ m \notin Accepts
    BY <1>3, MessagesDiffer DEF Reads
  <2> QED BY <2>1, ReportRejectEffect DEF CallTyped
<1>4. CASE m \in Accepts
  <2>1. e = ReportAccept(v, m.index) /\ m.index \in Index /\ m # Connect /\ m # Drop /\ m \notin Rejects
    BY <1>4, MessagesDiffer DEF Reads
  <2> QED BY <2>1, ReportAcceptEffect
<1> QED BY <1>1, <1>2, <1>3, <1>4 DEF Messages

LEMMA ReadMessageStep ==
  ASSUME NotifInv, ReadMessage
  PROVE  NotifInv'
<1> DEFINE m == Head(link.queue)
           rest == [link EXCEPT !.queue = Tail(link.queue)]
<1>1. PICK e \in Reads(b, m) :
        b' = e.b /\ conn' = Sent(conn, e) /\ ext' = Told(ext, e.tell) /\ link' \in Called(rest, e.call)
  BY Zenon DEF ReadMessage, Do, Reads
<1>2. polling' = (link'.queue # <<>>) /\ link.queue # <<>>
  BY DEF ReadMessage
<1>3. /\ link \in PeersetLinks /\ link.queue \in Seq(Messages) /\ polling \in BOOLEAN /\ conn \in [Conn -> Task]
      /\ b.ok => /\ "open" \in DOMAIN ext /\ ext.open = IF OpenIn(b) THEN "open" ELSE "closed"
                 /\ LinkFits(RequestedIn(b), link, polling)
  BY DEF NotifInv, NotifType, PeersetLinks
<1>4. m \in Messages /\ rest \in PeersetLinks
  BY <1>2, <1>3, SMTT(30) DEF PeersetLinks
<1>5. /\ Fine(b, e) /\ CallTyped(e)
      /\ e.b.ok =>
           /\ m = Connect => RequestedIn(e.b) /\ e.call = <<>>
           /\ m = Drop => ~RequestedIn(e.b) /\ e.call = <<>>
           /\ m \in Rejects => (RequestedIn(e.b) <=> RequestedIn(b)) /\ e.call = <<>>
           /\ m \in Accepts /\ ~RequestedIn(b) => \/ RequestedIn(e.b) /\ e.call = <<>>
                                                  \/ ~RequestedIn(e.b) /\ e.call = <<"dropped">>
  BY <1>4, ReadsEffect, InvUsual
<1>6. RequestedIn(b) \in BOOLEAN /\ RequestedIn(b') \in BOOLEAN
  BY DEF RequestedIn
<1>7. b.ok => \/ m = Connect /\ ~RequestedIn(b) /\ LinkToRequested(rest, rest.queue # <<>>)
              \/ m = Drop /\ RequestedIn(b) /\ Settled(rest)
              \/ m \in Rejects /\ ~RequestedIn(b) /\ Settled(rest)
              \/ m \in Accepts /\ ~RequestedIn(b) /\ rest.connected /\ rest.queue = <<>>
  BY <1>2, <1>3, <1>6, RestFits, ZenonT(60)
<1> HIDE DEF m, rest
<1>8. b' \in Behaviour /\ conn' \in [Conn -> Task] /\ polling' \in BOOLEAN /\ link' \in PeersetLinks
  BY <1>1, <1>2, <1>3, <1>4, <1>5, SentType, CalledType DEF Fine
<1>9. ASSUME b'.ok
      PROVE  /\ OpenOnlyEnabled(b')
             /\ "open" \in DOMAIN ext' /\ ext'.open = IF OpenIn(b') THEN "open" ELSE "closed"
             /\ LinkFits(RequestedIn(b'), link', polling')
  <2>1. b.ok /\ OpenOnlyEnabled(b') /\ Tells(OpenIn(b), OpenIn(b'), e.tell)
    BY <1>1, <1>5, <1>9 DEF Fine
  <2>2. OpenIn(b) \in BOOLEAN /\ OpenIn(b') \in BOOLEAN
    BY DEF OpenIn
  <2>3. "open" \in DOMAIN ext' /\ ext'.open = IF OpenIn(b') THEN "open" ELSE "closed"
    BY <1>1, <1>3, <2>1, <2>2, TellsTold, SMTT(30)
  <2>4. LinkFits(RequestedIn(b'), link', polling')
    <3>1. e.call = <<>> => link' = rest
      BY <1>1, <1>4, <1>5, CalledType
    <3>2. CASE m = Connect /\ ~RequestedIn(b) /\ LinkToRequested(rest, rest.queue # <<>>)
      BY <1>1, <1>2, <1>5, <1>9, <3>1, <3>2, SMTT(30) DEF LinkFits
    <3>3. CASE m = Drop /\ RequestedIn(b) /\ Settled(rest)
      BY <1>1, <1>5, <1>9, <3>1, <3>3, SettledFits, SMTT(30) DEF LinkFits
    <3>4. CASE m \in Rejects /\ ~RequestedIn(b) /\ Settled(rest)
      BY <1>1, <1>5, <1>9, <3>1, <3>4, SettledFits, SMTT(30) DEF LinkFits
    <3>5. CASE m \in Accepts /\ ~RequestedIn(b) /\ rest.connected /\ rest.queue = <<>>
      <4>1. CASE RequestedIn(e.b) /\ e.call = <<>>
        BY <1>1, <3>1, <3>5, <4>1, SettledFits, SMTT(30) DEF LinkFits
      <4>2. CASE ~RequestedIn(e.b) /\ e.call = <<"dropped">>
        <5>1. Settled(link')
          BY <1>1, <1>4, <1>5, <3>5, <4>2, CalledType, SMTT(30)
        <5> QED BY <1>1, <4>2, <5>1, SettledFits, SMTT(30) DEF LinkFits
      <4> QED BY <1>1, <1>5, <1>9, <3>5, <4>1, <4>2, SMTT(30)
    <3> QED BY <1>7, <2>1, <3>2, <3>3, <3>4, <3>5, SMTT(30)
  <2> QED BY <2>1, <2>3, <2>4, SMTT(30)
<1> QED BY <1>8, <1>9, NextInv

\* A command of the channel: the peer may be asked for, let go, and asked for again.
LEMMA CommandStep ==
  ASSUME NotifInv, Command
  PROVE  NotifInv'
<1>1. /\ link \in PeersetLinks /\ b \in Behaviour /\ conn \in [Conn -> Task] /\ link.queue = <<>>
      /\ b.ok => /\ OpenOnlyEnabled(b)
                 /\ "open" \in DOMAIN ext /\ ext.open = IF OpenIn(b) THEN "open" ELSE "closed"
                 /\ LinkFits(RequestedIn(b), link, polling)
  BY DEF NotifInv, NotifType, Command, LinkCommand
<1>2. b' = b /\ conn' = conn /\ ext' = ext /\ polling' = (link'.queue # <<>>)
  BY DEF Command
<1>3. PICK v \in Filled(link) : \E w \in LetGo(v) : link' \in Filled(w)
  BY DEF Command, LinkCommand, Commanded
<1>4. PICK w \in LetGo(v) : link' \in Filled(w)
  BY <1>3
<1>5. Connect \in Messages /\ Drop \in Messages
  BY DEF Messages
<1>6. /\ v \in PeersetLinks
      /\ v # link => ~link.connected /\ v.connected /\ v.queue = <<Connect>>
  <2>1. v # link => ~link.connected /\ v = Says(link, Connect, TRUE)
    BY Zenon DEF Filled
  <2>2. LET n == Says(link, Connect, TRUE) IN
        n \in PeersetLinks /\ n.connected = TRUE /\ n.queue = Append(link.queue, Connect)
    BY <1>1, <1>5, SaysFields, Zenon
  <2>3. Append(link.queue, Connect) = <<Connect>>
    BY <1>1
  <2> QED BY <1>1, <2>1, <2>2, <2>3, Zenon
<1>7. /\ w \in PeersetLinks
      /\ w # v => v.connected /\ ~w.connected /\ w.queue = Append(v.queue, Drop)
  <2>1. w # v => v.connected /\ w = Says(v, Drop, FALSE)
    BY Zenon DEF LetGo
  <2>2. LET n == Says(v, Drop, FALSE) IN
        n \in PeersetLinks /\ n.connected = FALSE /\ n.queue = Append(v.queue, Drop)
    BY <1>5, <1>6, SaysFields, Zenon
  <2> QED BY <1>6, <2>1, <2>2, Zenon
<1>8. /\ link' \in PeersetLinks
      /\ link' # w => ~w.connected /\ link'.connected /\ link'.queue = Append(w.queue, Connect)
  <2>1. link' # w => ~w.connected /\ link' = Says(w, Connect, TRUE)
    BY <1>4, Zenon DEF Filled
  <2>2. LET n == Says(w, Connect, TRUE) IN
        n \in PeersetLinks /\ n.connected = TRUE /\ n.queue = Append(w.queue, Connect)
    BY <1>5, <1>7, SaysFields, Zenon
  <2> QED BY <1>7, <2>1, <2>2, Zenon
<1>9. ASSUME b.ok
      PROVE  LinkFits(RequestedIn(b), link', polling')
  <2>1. CASE RequestedIn(b)
    <3>1. link.connected
      BY <1>1, <1>9, <2>1 DEF LinkFits, LinkToRequested
    <3>2. v = link
      BY <1>6, <3>1
    <3>3. w # link => ~w.connected /\ w.queue = <<Drop>>
      BY <1>1, <1>7, <3>2
    <3>4. \/ link'.connected /\ link'.queue = <<>>
          \/ ~link'.connected /\ link'.queue = <<Drop>>
          \/ link'.connected /\ link'.queue = <<Drop, Connect>>
      BY <1>1, <1>8, <3>1, <3>3
    <3>5. polling' <=> link'.queue # <<>>
      BY <1>2, ZenonT(60)
    <3>6. <<Drop>> # <<>> /\ <<Drop, Connect>> # <<>>
      OBVIOUS
    <3>7. LinkToRequested(link', polling')
      BY <3>4, <3>5, <3>6 DEF LinkToRequested
    <3> QED BY <2>1, <3>7 DEF LinkFits
  <2>2. CASE ~RequestedIn(b)
    <3>1. ~link.connected
      BY <1>1, <1>9, <2>2 DEF LinkFits, LinkToOther, LastAsks
    <3>2. \/ w = link
          \/ w.connected /\ w.queue = <<Connect>>
          \/ ~w.connected /\ w.queue = <<Connect, Drop>>
      BY <1>6, <1>7, <3>1, SMTT(30)
    <3>3. \/ ~link'.connected /\ link'.queue = <<>>
          \/ link'.connected /\ link'.queue = <<Connect>>
          \/ ~link'.connected /\ link'.queue = <<Connect, Drop>>
          \/ link'.connected /\ link'.queue = <<Connect, Drop, Connect>>
      <4>1. CASE link' = w
        BY <1>1, <3>1, <3>2, <4>1, SMTT(30)
      <4>2. CASE link' # w /\ w = link
        BY <1>1, <1>8, <4>2
      <4>3. CASE link' # w /\ w.queue = <<Connect, Drop>>
        BY <1>8, <4>3
      <4> QED BY <1>8, <3>2, <4>1, <4>2, <4>3
    <3>4. OnlyRejects(<<>>) /\ LastAsks(<<Connect>>)
      BY DEF OnlyRejects, LastAsks
    <3>5. polling' <=> link'.queue # <<>>
      BY <1>2, Zenon
    <3>6. <<Connect, Drop>> # <<>> /\ <<Connect, Drop, Connect>> # <<>>
      OBVIOUS
    <3>7. LinkToOther(link', polling')
      BY <3>3, <3>4, <3>5, <3>6 DEF LinkToOther
    <3> QED BY <2>2, <3>7 DEF LinkFits
  <2> QED BY <2>1, <2>2
<1> QED BY <1>1, <1>2, <1>8, <1>9, NextInv, SMTT(30)

LEMMA OtherPeersStep ==
  ASSUME NotifInv, OtherPeers
  PROVE  NotifInv'
<1>1. /\ link \in PeersetLinks /\ b \in Behaviour /\ conn \in [Conn -> Task] /\ polling = FALSE
      /\ b.ok => /\ OpenOnlyEnabled(b)
                 /\ "open" \in DOMAIN ext /\ ext.open = IF OpenIn(b) THEN "open" ELSE "closed"
                 /\ LinkFits(RequestedIn(b), link, polling)
  BY DEF NotifInv, NotifType, OtherPeers
<1>2. b' = b /\ conn' = conn /\ ext' = ext /\ polling' = polling /\ link' \in Filled(link)
  BY DEF OtherPeers, LinkFill
<1>3. link' \in PeersetLinks /\ (Settled(link) => Settled(link'))
  BY <1>1, <1>2, FilledSettled
<1>4. ASSUME b.ok
      PROVE  LinkFits(RequestedIn(b), link', polling')
  <2>1. CASE RequestedIn(b)
    <3>1. link.connected
      BY <1>1, <1>4, <2>1 DEF LinkFits, LinkToRequested
    <3>2. link' = link
      BY <1>2, <3>1 DEF Filled
    <3> QED BY <1>1, <1>2, <1>4, <3>2, SMTT(30)
  <2>2. CASE ~RequestedIn(b)
    BY <1>1, <1>3, <1>4, <2>2, SettledFits, SMTT(30) DEF LinkFits
  <2> QED BY <2>1, <2>2
<1> QED BY <1>1, <1>2, <1>3, <1>4, NextInv, Zenon

LEMMA DeadlineStep ==
  ASSUME NotifInv, DeadlinePasses
  PROVE  NotifInv'
<1>1. /\ link \in PeersetLinks /\ b \in Behaviour /\ conn \in [Conn -> Task] /\ polling \in BOOLEAN
      /\ b.ok => /\ OpenOnlyEnabled(b)
                 /\ "open" \in DOMAIN ext /\ ext.open = IF OpenIn(b) THEN "open" ELSE "closed"
                 /\ LinkFits(RequestedIn(b), link, polling)
  BY DEF NotifInv, NotifType
<1>2. b' = [b EXCEPT !.until = "past"] /\ conn' = conn /\ ext' = ext /\ polling' = polling /\ link' = link
  BY DEF DeadlinePasses
<1>3. b' \in Behaviour /\ b'.state = b.state /\ b'.conns = b.conns /\ b'.ok = b.ok
  BY <1>1, <1>2, SMTT(30) DEF Behaviour, Instants
<1>4. /\ OpenOnlyEnabled(b') <=> OpenOnlyEnabled(b)
      /\ OpenIn(b') <=> OpenIn(b)
      /\ RequestedIn(b') <=> RequestedIn(b)
  BY <1>3 DEF OpenOnlyEnabled, OpenIn, RequestedIn
<1>5. b.ok => LinkFits(RequestedIn(b'), link', polling')
  BY <1>1, <1>2, <1>4 DEF LinkFits
<1> QED BY <1>1, <1>2, <1>3, <1>4, <1>5, NextInv

-----------------------------------------------------------------------------
(***************************************************************************)
(* The tasks of the connections                                            *)
(***************************************************************************)
\* What a handler does with a message: it stays a handler, and emits events.
Result(r) == r.h \in Handler /\ r.events \in Seq(HandlerEvents)

LEMMA NoTask ==
  NoConnection \in Task
<1>1. NewHandler \in Handler
  BY DEF NewHandler, Handler
<1>2. <<>> \in Seq({"Open", "Close"}) /\ <<>> \in Seq(HandlerEvents)
  OBVIOUS
<1> QED BY <1>1, <1>2 DEF NoConnection, Task

LEMMA EmitsResult ==
  ASSUME NEW h \in Handler, NEW events \in Seq(HandlerEvents)
  PROVE  Result(Emits(h, events))
BY DEF Result, Emits

LEMMA EventLists ==
  /\ <<>> \in Seq(HandlerEvents)
  /\ \A x \in HandlerEvents : <<x>> \in Seq(HandlerEvents)
  /\ \A x, y \in HandlerEvents : <<x, y>> \in Seq(HandlerEvents)
OBVIOUS

LEMMA HandlersResult ==
  ASSUME NEW h \in Handler
  PROVE  /\ Result(NegotiatedInbound(h)) /\ Result(Open(h)) /\ Result(Close(h))
         /\ Result(OutboundLost(h)) /\ Result(InboundLost(h)) /\ Result(Received(h))
         /\ h.requests > 0 => Result(NegotiatedOutbound(h)) /\ Result(UpgradeError(h))
<1> DEFINE E == Seq(HandlerEvents)
<1>1. /\ <<>> \in E /\ <<"OpenDesiredByRemote">> \in E /\ <<"CloseResult">> \in E
      /\ <<"OpenResultErr", "CloseResult">> \in E /\ <<"CloseDesired">> \in E
      /\ <<"Notification">> \in E /\ <<"OpenResultOk">> \in E /\ <<"OpenResultErr">> \in E
  BY EventLists DEF HandlerEvents
<1> HIDE DEF E
<1>2. \A g \in Handler, events \in E : Result(Emits(g, events))
  BY EmitsResult DEF E
<1>3. Result(NegotiatedInbound(h))
  <2>1. [h EXCEPT !.state = "OpenDesiredByRemote", !.in = TRUE] \in Handler
    BY Zenon DEF Handler
  <2>2. [h EXCEPT !.in = TRUE] \in Handler
    BY Zenon DEF Handler
  <2> QED BY <1>1, <1>2, <2>1, <2>2 DEF NegotiatedInbound
<1>4. Result(Open(h))
  <2>1. [h EXCEPT !.state = "Opening", !.pending = FALSE,
                  !.requests = IF h.pending THEN @ ELSE @ + 1] \in Handler
    <3>1. (IF h.pending THEN h.requests ELSE h.requests + 1) \in Nat
      BY DEF Handler
    <3> QED BY <3>1, Zenon DEF Handler
  <2>2. [h EXCEPT !.ok = FALSE] \in Handler
    BY Zenon DEF Handler
  <2> QED BY <1>1, <1>2, <2>1, <2>2 DEF Open
<1>5. \A g \in Handler, p \in BOOLEAN : Closed(g, p) \in Handler
  BY Zenon DEF Closed, Handler
<1>6. Result(Close(h))
  <2> DEFINE p == h.pending \/ h.state = "Opening"
             events == IF h.state = "Opening" THEN <<"OpenResultErr", "CloseResult">> ELSE <<"CloseResult">>
  <2>1. p \in BOOLEAN /\ events \in E
    BY <1>1
  <2>2. Closed(h, p) \in Handler
    BY <1>5, <2>1, Zenon
  <2>3. Close(h) = Emits(Closed(h, p), events)
    BY DEF Close
  <2> HIDE DEF p, events
  <2> QED BY <1>2, <2>1, <2>2, <2>3
<1>7. Result(OutboundLost(h)) /\ Result(InboundLost(h)) /\ Result(Received(h))
  <2>1. [h EXCEPT !.out = FALSE] \in Handler /\ [h EXCEPT !.in = FALSE] \in Handler
    BY Zenon DEF Handler
  <2> QED BY <1>1, <1>2, <2>1 DEF OutboundLost, InboundLost, Received
<1>8. ASSUME h.requests > 0
      PROVE  Result(NegotiatedOutbound(h)) /\ Result(UpgradeError(h))
  <2> DEFINE answered == [h EXCEPT !.requests = h.requests - 1]
             ignored == [answered EXCEPT !.pending = FALSE, !.ok = @ /\ h.pending]
             failed == [answered EXCEPT !.ok = FALSE]
             open == [answered EXCEPT !.state = "Open", !.out = TRUE]
  <2>1. answered \in Handler /\ h.pending \in BOOLEAN
        /\ h.state \in {"Closed", "OpenDesiredByRemote", "Opening", "Open"}
    BY <1>8 DEF Handler
  <2>2. /\ h.state \in {"Closed", "OpenDesiredByRemote"} =>
             NegotiatedOutbound(h) = Emits(ignored, <<>>) /\ UpgradeError(h) = Emits(ignored, <<>>)
        /\ h.state = "Opening" => /\ NegotiatedOutbound(h) = Emits(open, <<"OpenResultOk">>)
                                  /\ UpgradeError(h) = Emits(Closed(answered, FALSE), <<"OpenResultErr">>)
        /\ h.state = "Open" =>
             NegotiatedOutbound(h) = Emits(failed, <<>>) /\ UpgradeError(h) = Emits(failed, <<>>)
    BY Zenon DEF NegotiatedOutbound, UpgradeError
  <2> HIDE DEF answered
  <2>3. ignored \in Handler /\ failed \in Handler /\ open \in Handler
    BY <2>1, ZenonT(60) DEF Handler
  <2> HIDE DEF ignored, failed, open
  <2>4. Closed(answered, FALSE) \in Handler
    BY <1>5, <2>1, Zenon
  <2> QED BY <1>1, <1>2, <2>1, <2>2, <2>3, <2>4, Zenon
<1> QED BY <1>3, <1>4, <1>6, <1>7, <1>8, SMTT(30)

LEMMA HandlesStep ==
  ASSUME NotifInv, NEW c \in Conn, NEW r, Result(r), NEW commands \in Seq({"Open", "Close"}),
         Handles(c, r, commands)
  PROVE  NotifInv'
<1>1. /\ b' = b /\ ext' = ext /\ polling' = polling /\ link' = link
      /\ conn' = [conn EXCEPT ![c].h = r.h, ![c].events = @ \o r.events, ![c].commands = commands]
  BY DEF Handles
<1>2. conn \in [Conn -> Task] /\ conn[c] \in Task
  BY DEF NotifInv, NotifType
<1> DEFINE x == [conn[c] EXCEPT !.h = r.h, !.events = conn[c].events \o r.events, !.commands = commands]
<1>3. conn[c].events \o r.events \in Seq(HandlerEvents)
  BY <1>2 DEF Task, Result
<1>4. x \in Task
  BY <1>2, <1>3, Zenon DEF Task, Result
<1>5. conn' = [conn EXCEPT ![c] = x]
  BY <1>1, <1>2, ZenonT(60)
<1> HIDE DEF x
<1>6. conn' \in [Conn -> Task]
  BY <1>2, <1>4, <1>5, SMTT(30)
<1> QED BY <1>1, <1>6, NextInv DEF NotifInv, NotifType

LEMMA ConnectionEndsStep ==
  ASSUME NotifInv, NEW c \in Conn, ConnectionEnds(c)
  PROVE  NotifInv'
<1>1. conn \in [Conn -> Task] /\ conn[c] \in Task
  BY DEF NotifInv, NotifType
<1> DEFINE events == Append(conn[c].events, "ConnectionClosed")
           x == [NoConnection EXCEPT !.up = "down", !.events = events]
<1>2. events \in Seq(HandlerEvents)
  BY <1>1 DEF Task, HandlerEvents
<1>3. b' = b /\ ext' = ext /\ polling' = polling /\ link' = link /\ conn' = [conn EXCEPT ![c] = x]
  BY DEF ConnectionEnds
<1> HIDE DEF events
<1>4. x \in Task
  BY <1>2, NoTask, ZenonT(60) DEF Task
<1> HIDE DEF x
<1>5. conn' \in [Conn -> Task]
  BY <1>1, <1>3, <1>4
<1> QED BY <1>3, <1>5, NextInv, SMTT(30) DEF NotifInv, NotifType

\* The event of a connection that reaches the behaviour.
Hears(v, c, event) ==
  CASE event = "OpenDesiredByRemote" -> OpenDesiredByRemote(v, c)
    [] event = "CloseDesired" -> {CloseDesired(v, c)}
    [] event = "CloseResult" -> {CloseResult(v, c)}
    [] event = "OpenResultOk" -> {OpenResultOk(v, c)}
    [] event = "OpenResultErr" -> {OpenResultErr(v, c)}
    [] event = "Notification" -> {Notification(v, c)}
    [] event = "ConnectionClosed" -> ConnectionClosed(v, c)

LEMMA HearsProper ==
  ASSUME NEW v, Usual(v), NEW c \in Conn, NEW event \in HandlerEvents, NEW e \in Hears(v, c, event)
  PROVE  Proper(v, e)
<1>1. CASE event = "OpenDesiredByRemote"
  <2>1. e \in OpenDesiredByRemote(v, c)
    BY <1>1 DEF Hears
  <2> QED BY <2>1, OpenDesiredByRemoteProper
<1>2. CASE event = "CloseDesired"
  <2>1. e = CloseDesired(v, c)
    BY <1>2 DEF Hears
  <2> QED BY <2>1, CloseDesiredProper
<1>3. CASE event = "CloseResult"
  <2>1. e = CloseResult(v, c)
    BY <1>3, SMTT(30) DEF Hears
  <2> QED BY <2>1, CloseResultProper
<1>4. CASE event = "OpenResultOk"
  <2>1. e = OpenResultOk(v, c)
    BY <1>4 DEF Hears
  <2> QED BY <2>1, OpenResultOkProper
<1>5. CASE event = "OpenResultErr"
  <2>1. e = OpenResultErr(v, c)
    BY <1>5 DEF Hears
  <2> QED BY <2>1, OpenResultErrProper
<1>6. CASE event = "Notification"
  <2>1. e = Notification(v, c)
    BY <1>6 DEF Hears
  <2> QED BY <2>1, NotificationProper
<1>7. CASE event = "ConnectionClosed"
  <2>1. e \in ConnectionClosed(v, c)
    BY <1>7 DEF Hears
  <2> QED BY <2>1, ConnectionClosedProper
<1> QED BY <1>1, <1>2, <1>3, <1>4, <1>5, <1>6, <1>7 DEF HandlerEvents

LEMMA HandlerEventStep ==
  ASSUME NotifInv, NEW c \in Conn, HandlerEvent(c)
  PROVE  NotifInv'
<1> DEFINE event == Head(conn[c].events)
           x == IF event = "ConnectionClosed" THEN NoConnection
                ELSE [conn[c] EXCEPT !.events = Tail(conn[c].events)]
           read == [conn EXCEPT ![c] = x]
<1>1. conn \in [Conn -> Task] /\ conn[c] \in Task /\ conn[c].events \in Seq(HandlerEvents)
  BY SMTT(30) DEF NotifInv, NotifType, Task
<1>2. ~polling /\ conn[c].events # <<>> /\ polling' = polling /\ Do(Hears(b, c, event), read, link)
  BY Zenon DEF HandlerEvent, Hears
<1>3. event \in HandlerEvents /\ Tail(conn[c].events) \in Seq(HandlerEvents)
  BY <1>1, <1>2
<1>4. x \in Task
  <2>1. [conn[c] EXCEPT !.events = Tail(conn[c].events)] \in Task
    BY <1>1, <1>3, ZenonT(60) DEF Task
  <2> QED BY <2>1, NoTask
<1> HIDE DEF event, x
<1>5. read \in [Conn -> Task]
  BY <1>1, <1>4
<1> HIDE DEF read
<1>6. \A e \in Hears(b, c, event) : Proper(b, e) /\ (polling /\ e.b.ok => e.call = <<>>)
  BY <1>2, <1>3, HearsProper, InvUsual
<1> QED BY <1>2, <1>5, <1>6, DoStep, SMTT(30)

LEMMA ConnectionOpensStep ==
  ASSUME NotifInv, NEW c \in Conn, ConnectionOpens(c)
  PROVE  NotifInv'
<1> DEFINE x == [NoConnection EXCEPT !.up = "up"]
           cs == [conn EXCEPT ![c] = x]
<1>1. ~polling /\ polling' = polling /\ Do({Established(b, c)}, cs, link)
  BY DEF ConnectionOpens
<1>2. x \in Task
  BY NoTask, SMTT(30) DEF Task
<1> HIDE DEF x
<1>3. cs \in [Conn -> Task]
  BY <1>2 DEF NotifInv, NotifType
<1> HIDE DEF cs
<1>4. \A e \in {Established(b, c)} : Proper(b, e) /\ (polling /\ e.b.ok => e.call = <<>>)
  BY <1>1, EstablishedProper, InvUsual
<1> QED BY <1>1, <1>3, <1>4, DoStep

LEMMA OtherSteps ==
  ASSUME NotifInv
  PROVE  /\ Disconnect => NotifInv'
         /\ DialFails => NotifInv'
         /\ \A d \in Delay : DelayFires(d) => NotifInv'
<1>1. conn \in [Conn -> Task] /\ Usual(b)
  BY InvUsual DEF NotifInv, NotifType
<1>2. ASSUME Disconnect
      PROVE  NotifInv'
  <2>1. ~polling /\ polling' = polling /\ Do({DisconnectPeer(b)}, conn, link)
    BY <1>2 DEF Disconnect
  <2>2. \A e \in {DisconnectPeer(b)} : Proper(b, e) /\ (polling /\ e.b.ok => e.call = <<>>)
    BY <1>1, <2>1, DisconnectPeerProper
  <2> QED BY <1>1, <2>1, <2>2, DoStep
<1>3. ASSUME DialFails
      PROVE  NotifInv'
  <2>1. ~polling /\ polling' = polling /\ Do(DialFailure(b), conn, link)
    BY <1>3 DEF DialFails
  <2>2. \A e \in DialFailure(b) : Proper(b, e) /\ (polling /\ e.b.ok => e.call = <<>>)
    BY <1>1, <2>1, DialFailureProper
  <2> QED BY <1>1, <2>1, <2>2, DoStep
<1>4. ASSUME NEW d \in Delay, DelayFires(d)
      PROVE  NotifInv'
  <2>1. polling' = polling /\ Do({DelayOver(b, d)}, conn, link)
    BY <1>4 DEF DelayFires
  <2>2. \A e \in {DelayOver(b, d)} : Proper(b, e) /\ (polling /\ e.b.ok => e.call = <<>>)
    BY <1>1, DelayOverProper
  <2> QED BY <1>1, <2>1, <2>2, DoStep
<1> QED BY <1>2, <1>3, <1>4, SMTT(30)

LEMMA HandlerSteps ==
  ASSUME NotifInv, NEW c \in Conn
  PROVE  /\ HandlerCommand(c) => NotifInv'
         /\ RemoteAccepts(c) \/ RemoteRefuses(c) \/ RemoteOpens(c) => NotifInv'
         /\ RemoteClosesIn(c) \/ RemoteClosesOut(c) \/ RemoteNotifies(c) => NotifInv'
<1> DEFINE h == conn[c].h
           commands == conn[c].commands
<1>1. h \in Handler /\ commands \in Seq({"Open", "Close"})
  BY DEF NotifInv, NotifType, Task
<1>2. /\ Result(NegotiatedInbound(h)) /\ Result(Open(h)) /\ Result(Close(h))
      /\ Result(OutboundLost(h)) /\ Result(InboundLost(h)) /\ Result(Received(h))
      /\ h.requests > 0 => Result(NegotiatedOutbound(h)) /\ Result(UpgradeError(h))
  BY <1>1, HandlersResult
<1>3. ASSUME HandlerCommand(c)
      PROVE  NotifInv'
  <2> DEFINE r == IF Head(commands) = "Open" THEN Open(h) ELSE Close(h)
  <2>1. Handles(c, r, Tail(commands)) /\ commands # <<>>
    BY <1>3 DEF HandlerCommand
  <2>2. Result(r)
    BY <1>2
  <2>3. Tail(commands) \in Seq({"Open", "Close"})
    BY <1>1, <2>1, SMTT(30)
  <2> HIDE DEF r
  <2> QED BY <2>1, <2>2, <2>3, HandlesStep, Zenon
<1>4. ASSUME RemoteAccepts(c) \/ RemoteRefuses(c) \/ RemoteOpens(c)
      PROVE  NotifInv'
  <2>1. \/ Handles(c, NegotiatedOutbound(h), commands) /\ h.requests > 0
        \/ Handles(c, UpgradeError(h), commands) /\ h.requests > 0
        \/ Handles(c, NegotiatedInbound(h), commands)
    BY <1>4 DEF RemoteAccepts, RemoteRefuses, RemoteOpens
  <2> HIDE DEF h, commands
  <2> QED BY <1>1, <1>2, <2>1, HandlesStep, SMTT(30)
<1>5. ASSUME RemoteClosesIn(c) \/ RemoteClosesOut(c) \/ RemoteNotifies(c)
      PROVE  NotifInv'
  <2>1. \/ Handles(c, InboundLost(h), commands)
        \/ Handles(c, OutboundLost(h), commands)
        \/ Handles(c, Received(h), commands)
    BY <1>5 DEF RemoteClosesIn, RemoteClosesOut, RemoteNotifies
  <2> HIDE DEF h, commands
  <2> QED BY <1>1, <1>2, <2>1, HandlesStep, SMTT(30)
<1> QED BY <1>3, <1>4, <1>5, SMTT(30)

LEMMA InitInv ==
  ASSUME NotifInit
  PROVE  NotifInv
<1>1. b \in Behaviour /\ b.conns = <<>> /\ b.state = "Missing"
  <2>1. <<>> \in Seq(Connection)
    OBVIOUS
  <2> QED BY <2>1 DEF NotifInit, Behaviour, PeerState, Instants
<1>2. conn \in [Conn -> Task]
  BY NoTask DEF NotifInit
<1>3. link \in PeersetLinks /\ Settled(link)
  <2> DEFINE l == [connected |-> FALSE, queue |-> <<>>]
  <2>1. <<>> \in Seq(Messages)
    OBVIOUS
  <2>2. l \in PeersetLinks /\ Settled(l)
    BY <2>1 DEF PeersetLinks, Settled, OnlyRejects
  <2>3. link \in Filled(l)
    BY DEF NotifInit, LinkInit
  <2> HIDE DEF l
  <2> QED BY <2>2, <2>3, FilledSettled
<1>4. ~OpenIn(b) /\ ~RequestedIn(b) /\ OpenOnlyEnabled(b)
  BY <1>1, NoConns, SMTT(30) DEF OpenIn, RequestedIn, OpenOnlyEnabled
<1>5. LinkFits(RequestedIn(b), link, polling)
  BY <1>3, <1>4, SettledFits DEF LinkFits
<1>6. ext = [open |-> "closed", sink |-> None] /\ polling = FALSE
  BY DEF NotifInit
<1> QED BY <1>1, <1>2, <1>3, <1>4, <1>5, <1>6, ZenonT(60) DEF NotifInv, NotifType

LEMMA NotifStep ==
  ASSUME NotifInv, [NotifNext]_notifVars
  PROVE  NotifInv'
<1>1. CASE UNCHANGED notifVars
  BY <1>1, NextInv DEF NotifInv, NotifType, notifVars
<1>2. CASE Disconnect \/ DialFails \/ \E d \in Delay : DelayFires(d)
  BY <1>2, OtherSteps
<1>3. CASE ReadMessage
  BY <1>3, ReadMessageStep
<1>4. CASE Command
  BY <1>4, CommandStep, SMTT(30)
<1>5. CASE OtherPeers
  BY <1>5, OtherPeersStep
<1>6. CASE DeadlinePasses
  BY <1>6, DeadlineStep
<1>7. ASSUME NEW c \in Conn, ConnectionOpens(c) \/ HandlerEvent(c) \/ ConnectionEnds(c)
      PROVE  NotifInv'
  BY <1>7, ConnectionOpensStep, HandlerEventStep, ConnectionEndsStep
<1>8. ASSUME NEW c \in Conn,
             \/ HandlerCommand(c) \/ RemoteAccepts(c) \/ RemoteRefuses(c) \/ RemoteOpens(c)
             \/ RemoteClosesIn(c) \/ RemoteClosesOut(c) \/ RemoteNotifies(c)
      PROVE  NotifInv'
  BY <1>8, HandlerSteps
<1> QED BY <1>1, <1>2, <1>3, <1>4, <1>5, <1>6, <1>7, <1>8, SMTT(30) DEF NotifNext

\* The invariant holds.
LEMMA NotifInvariance ==
  NotifSpec => []NotifInv
<1>1. NotifInit => NotifInv
  BY InitInv
<1>2. NotifInv /\ [NotifNext]_notifVars => NotifInv'
  BY NotifStep
<1> QED BY <1>1, <1>2, PTL DEF NotifSpec

-----------------------------------------------------------------------------
(***************************************************************************)
(* The theorems                                                            *)
(***************************************************************************)
\* The external API is told of every change, once: whatever libp2p, the handlers, the
\* Peerset and the delays do, it takes the peer for open exactly when it is
\* (CustomProtocolOpen and CustomProtocolClosed of behaviour.rs).
THEOREM ApiIsInformed ==
  NotifSpec => []ApiInformed
<1>1. NotifInv => ApiInformed
  BY DEF NotifInv, ApiInformed, Sane, OpenIn, IsOpen
<1> QED BY <1>1, NotifInvariance, PTL

\* Once its messages are read, the Peerset takes the peer for connected exactly when
\* the behaviour was asked for it and has not said that it dropped: no slot is
\* lost and none is freed twice.
THEOREM PeersetIsAgreed ==
  NotifSpec => []PeersetAgrees
<1>1. ASSUME NotifInv
      PROVE  PeersetAgrees
  <2>1. ASSUME Sane, link.queue = <<>>
        PROVE  link.connected = IsRequested
    <3>1. LinkFits(RequestedIn(b), link, polling) /\ link.connected \in BOOLEAN
      BY <1>1, <2>1 DEF NotifInv, NotifType, PeersetLinks, Sane
    <3>2. RequestedIn(b) <=> IsRequested
      BY DEF RequestedIn, IsRequested
    <3>3. RequestedIn(b) => link.connected
      BY <2>1, <3>1, SMTT(30) DEF LinkFits, LinkToRequested
    <3>4. ~RequestedIn(b) => ~link.connected
      BY <2>1, <3>1 DEF LinkFits, LinkToOther, LastAsks
    <3>5. IsRequested \in BOOLEAN
      BY DEF IsRequested
    <3> QED BY <3>1, <3>2, <3>3, <3>4, <3>5, SMTT(30)
  <2> QED BY <2>1 DEF PeersetAgrees
<1> QED BY <1>1, NotifInvariance, PTL
=============================================================================
