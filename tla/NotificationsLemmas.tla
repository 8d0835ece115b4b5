----------------------- MODULE NotificationsLemmas -------------------------
(***************************************************************************)
(* What one operation of the behaviour does to a peer: it tells the        *)
(* external API of an opening or closing and the Peerset of a change, and  *)
(* of nothing else (Proper).                                               *)
(***************************************************************************)
EXTENDS Notifications, TLAPS

-----------------------------------------------------------------------------
(***************************************************************************)
(* Types                                                                   *)
(***************************************************************************)
PeerState ==
  {"Missing", "Poisoned", "Backoff", "PendingRequest", "Requested", "Disabled",
   "DisabledPendingEnable", "Enabled", "Incoming"}
ConnectionState ==
  {"Closed", "Closing", "Opening", "OpeningThenClosing", "OpenDesiredByRemote", "Open"}

Connection == [id : Conn, state : ConnectionState]

Instants == {"none", "later", "past"}

Behaviour ==
  [state : PeerState, conns : Seq(Connection), until : Instants,
   timer : Delay \cup {None}, incoming : [Index -> {"none", "alive", "dead"}],
   delays : SUBSET Delay, ok : BOOLEAN]

HandlerEvents ==
  {"OpenDesiredByRemote", "CloseDesired", "CloseResult", "OpenResultOk", "OpenResultErr",
   "Notification", "ConnectionClosed"}

Handler ==
  [state : {"Closed", "OpenDesiredByRemote", "Opening", "Open"}, pending : BOOLEAN,
   in : BOOLEAN, out : BOOLEAN, requests : Nat, ok : BOOLEAN]

Task ==
  [up : {"no", "up", "down"}, h : Handler, commands : Seq({"Open", "Close"}),
   events : Seq(HandlerEvents)]

Accepts == {Accept(i) : i \in Index}
Rejects == {Reject(i) : i \in Index}
Messages == {Connect, Drop} \cup Accepts \cup Rejects
PeersetLinks == [connected : BOOLEAN, queue : Seq(Messages)]

-----------------------------------------------------------------------------
(***************************************************************************)
(* The states of a peer                                                    *)
(***************************************************************************)
OpenIn(v) == v.state = "Enabled" /\ Has(v.conns, {"Open"})
RequestedIn(v) == v.state \in {"PendingRequest", "Requested", "DisabledPendingEnable", "Enabled"}

\* Only an enabled peer has open connections.
OpenOnlyEnabled(v) == Has(v.conns, {"Open"}) => v.state = "Enabled"

-----------------------------------------------------------------------------
(***************************************************************************)
(* Lists of connections                                                    *)
(***************************************************************************)
LEMMA HasOne ==
  ASSUME NEW cs, NEW states
  PROVE  Has(cs, states) <=> \E k \in DOMAIN cs : cs[k].state \in states
BY DEF Has, Ids

LEMMA TurnConns ==
  ASSUME NEW cs \in Seq(Connection), NEW ids, NEW from, NEW to \in ConnectionState
  PROVE  /\ Turn(cs, ids, from, to) \in Seq(Connection)
         /\ DOMAIN Turn(cs, ids, from, to) = DOMAIN cs
         /\ \A k \in DOMAIN cs :
              Turn(cs, ids, from, to)[k].state =
                IF cs[k].id \in ids /\ cs[k].state = from THEN to ELSE cs[k].state
<1> DEFINE turned == Turn(cs, ids, from, to)
<1>1. Len(cs) \in Nat /\ DOMAIN cs = 1 .. Len(cs) /\ \A k \in 1 .. Len(cs) : cs[k] \in Connection
  OBVIOUS
<1>2. turned = [k \in 1 .. Len(cs) |-> turned[k]]
  BY <1>1 DEF Turn
<1>3. \A k \in 1 .. Len(cs) :
        /\ turned[k] \in Connection
        /\ turned[k].state = IF cs[k].id \in ids /\ cs[k].state = from THEN to ELSE cs[k].state
  BY <1>1 DEF Turn, Connection
<1> HIDE DEF turned
<1>4. turned \in Seq(Connection)
  BY <1>1, <1>2, <1>3
<1> QED BY <1>1, <1>2, <1>3, <1>4 DEF turned

\* Open connections come from OpenResultOk only.
LEMMA TurnOther ==
  ASSUME NEW cs \in Seq(Connection), NEW ids, NEW from, NEW to \in ConnectionState,
         to # "Open"
  PROVE  /\ Has(Turn(cs, ids, from, to), {"Open"}) => Has(cs, {"Open"})
         /\ from # "Open" /\ Has(cs, {"Open"}) => Has(Turn(cs, ids, from, to), {"Open"})
<1> DEFINE turned == Turn(cs, ids, from, to)
<1>1. /\ DOMAIN turned = DOMAIN cs
      /\ \A k \in DOMAIN cs :
           turned[k].state = IF cs[k].id \in ids /\ cs[k].state = from THEN to ELSE cs[k].state
  BY TurnConns
<1> HIDE DEF turned
<1>2. Has(turned, {"Open"}) => Has(cs, {"Open"})
  BY <1>1, HasOne
<1>3. from # "Open" /\ Has(cs, {"Open"}) => Has(turned, {"Open"})
  BY <1>1, HasOne
<1> QED BY <1>2, <1>3, Zenon DEF turned

LEMMA TurnOpen ==
  ASSUME NEW cs \in Seq(Connection), NEW c, NEW k \in DOMAIN cs,
         cs[k].id = c, cs[k].state = "Opening"
  PROVE  Has(Turn(cs, {c}, "Opening", "Open"), {"Open"})
<1> DEFINE turned == Turn(cs, {c}, "Opening", "Open")
<1>1. "Open" \in ConnectionState
  BY DEF ConnectionState
<1>2. /\ DOMAIN turned = DOMAIN cs
      /\ turned[k].state = IF cs[k].id \in {c} /\ cs[k].state = "Opening" THEN "Open"
                           ELSE cs[k].state
  BY <1>1, TurnConns
<1> HIDE DEF turned
<1>3. Has(turned, {"Open"})
  BY <1>2, HasOne
<1> QED BY <1>3 DEF turned

LEMMA TurnAllClosed ==
  ASSUME NEW cs \in Seq(Connection)
  PROVE  LET left == TurnAll(TurnAll(cs, "Open", "Closing"), "Opening", "OpeningThenClosing") IN
         left \in Seq(Connection) /\ ~Has(left, {"Open"})
<1> DEFINE one == TurnAll(cs, "Open", "Closing")
<1>1. "Closing" \in ConnectionState /\ "OpeningThenClosing" \in ConnectionState
  BY DEF ConnectionState
<1>2. one \in Seq(Connection)
  BY <1>1, TurnConns DEF TurnAll
<1>3. \A k \in DOMAIN cs : cs[k].id \in Conn
  <2>1. \A k \in DOMAIN cs : cs[k] \in Connection
    OBVIOUS
  <2> QED BY <2>1 DEF Connection
<1>4. ~Has(one, {"Open"})
  BY <1>1, <1>3, TurnConns, HasOne DEF TurnAll
<1> HIDE DEF one
<1>5. ~Has(TurnAll(one, "Opening", "OpeningThenClosing"), {"Open"})
  BY <1>1, <1>2, <1>4, TurnOther DEF TurnAll
<1>6. TurnAll(one, "Opening", "OpeningThenClosing") \in Seq(Connection)
  BY <1>1, <1>2, TurnConns DEF TurnAll
<1> QED BY <1>5, <1>6 DEF one

LEMMA Removed ==
  ASSUME NEW cs \in Seq(Connection), NEW p \in DOMAIN cs
  PROVE  /\ Without(cs, p) \in Seq(Connection)
         /\ DOMAIN Without(cs, p) = 1 .. (Len(cs) - 1)
         /\ \A k \in 1 .. (Len(cs) - 1) :
              Without(cs, p)[k] = IF k < p THEN cs[k] ELSE cs[k + 1]
<1> DEFINE before == SubSeq(cs, 1, p - 1)
           after == SubSeq(cs, p + 1, Len(cs))
<1>1. Len(cs) \in Nat /\ p \in 1 .. Len(cs)
  OBVIOUS
<1>2. /\ before \in Seq(Connection) /\ Len(before) = p - 1
      /\ \A k \in 1 .. (p - 1) : before[k] = cs[k]
  BY <1>1
<1>3. /\ after \in Seq(Connection) /\ Len(after) = Len(cs) - p
      /\ \A k \in 1 .. (Len(cs) - p) : after[k] = cs[k + p]
  BY <1>1
<1> HIDE DEF before, after
<1>4. before \o after \in Seq(Connection)
  BY <1>2, <1>3
<1>5. Len(before \o after) = Len(cs) - 1
  BY <1>1, <1>2, <1>3
<1>6. DOMAIN (before \o after) = 1 .. (Len(cs) - 1)
  BY <1>4, <1>5
<1>7. ASSUME NEW k \in 1 .. (Len(cs) - 1)
      PROVE  (before \o after)[k] = IF k < p THEN cs[k] ELSE cs[k + 1]
  BY <1>1, <1>2, <1>3, SMTT(30)
<1> QED BY <1>4, <1>6, <1>7, Zenon DEF Without, before, after

LEMMA DropsConns ==
  ASSUME NEW cs \in Seq(Connection), NEW c
  PROVE  /\ Drops(cs, c) \in Seq(Connection)
         /\ Has(Drops(cs, c), {"Open"}) => Has(cs, {"Open"})
         /\ "Open" \notin StateOf(cs, c) /\ Has(cs, {"Open"}) => Has(Drops(cs, c), {"Open"})
<1>1. CASE StateOf(cs, c) = {}
  BY <1>1 DEF Drops
<1>2. CASE StateOf(cs, c) # {}
  <2> DEFINE p == Position(cs, c)
  <2>1. \E k \in DOMAIN cs : cs[k].id = c
    BY <1>2 DEF StateOf
  <2>2. p \in DOMAIN cs /\ cs[p].id = c
    BY <2>1 DEF Position
  <2> HIDE DEF p
  <2>3. Drops(cs, c) = Without(cs, p)
    BY <1>2 DEF Drops, p
  <2>4. /\ Without(cs, p) \in Seq(Connection)
        /\ DOMAIN Without(cs, p) = 1 .. (Len(cs) - 1)
        /\ \A k \in 1 .. (Len(cs) - 1) :
             Without(cs, p)[k] = IF k < p THEN cs[k] ELSE cs[k + 1]
    BY <2>2, Removed
  <2>5. Len(cs) \in Nat /\ DOMAIN cs = 1 .. Len(cs)
    OBVIOUS
  <2>6. Has(Without(cs, p), {"Open"}) => Has(cs, {"Open"})
    BY <2>4, <2>5, HasOne
  <2>7. ASSUME "Open" \notin StateOf(cs, c), NEW k \in DOMAIN cs, cs[k].state = "Open"
        PROVE  Has(Without(cs, p), {"Open"})
    <3>1. k # p
      BY <2>2, <2>7 DEF StateOf
    <3>2. CASE k < p
      <4>1. k \in 1 .. (Len(cs) - 1) /\ Without(cs, p)[k] = cs[k]
        BY <2>2, <2>4, <2>5, <3>2
      <4> QED BY <4>1, <2>4, <2>7, HasOne
    <3>3. CASE p < k
      <4>1. k - 1 \in 1 .. (Len(cs) - 1) /\ ~(k - 1 < p) /\ (k - 1) + 1 = k
        BY <2>2, <2>5, <3>3
      <4>2. Without(cs, p)[k - 1] = cs[k]
        BY <2>4, <4>1
      <4> QED BY <4>1, <4>2, <2>4, <2>7, HasOne
    <3> QED BY <3>1, <3>2, <3>3, <2>2, <2>5
  <2> QED BY <2>3, <2>4, <2>6, <2>7, HasOne
<1> QED BY <1>1, <1>2

-----------------------------------------------------------------------------
(***************************************************************************)
(* What an operation has to do: keep the types, tell the external API what *)
(* changes for it, and call the Peerset when it gives up what it was asked *)
(* for.                                                                    *)
(***************************************************************************)
Tells(was, is, tell) ==
  \/ tell = <<>> /\ (is <=> was)
  \/ tell # <<>> /\ tell[1].event = "Open" /\ ~was /\ is
  \/ tell # <<>> /\ tell[1].event = "Replaced" /\ was /\ is
  \/ tell # <<>> /\ tell[1].event = "Closed" /\ was /\ ~is
  \/ tell # <<>> /\ tell[1].event = "Notification" /\ was /\ is

Fine(v, e) ==
  /\ e.b \in Behaviour
  /\ e.b.ok => v.ok /\ OpenOnlyEnabled(e.b) /\ Tells(OpenIn(v), OpenIn(e.b), e.tell)

Incomings == {<<"incoming", i>> : i \in Index}
CallTyped(e) == e.call \in {<<>>, <<"dropped">>} \cup Incomings

CallFits(v, e) ==
  e.b.ok =>
    \/ (RequestedIn(e.b) <=> RequestedIn(v)) /\ e.call = <<>>
    \/ ~RequestedIn(v) /\ ~RequestedIn(e.b) /\ e.call \in Incomings
    \/ RequestedIn(v) /\ ~RequestedIn(e.b) /\ e.call = <<"dropped">>

\* An operation that is no message of the Peerset.
Proper(v, e) == Fine(v, e) /\ CallTyped(e) /\ CallFits(v, e)

\* A behaviour as the operations find it.
Usual(v) == v \in Behaviour /\ (v.ok => OpenOnlyEnabled(v))

-----------------------------------------------------------------------------
LEMMA BecomesFields ==
  ASSUME NEW v \in Behaviour, NEW state \in PeerState, NEW conns \in Seq(Connection),
         NEW until \in Instants
  PROVE  LET w == Becomes(v, state, conns, until) IN
         w \in Behaviour /\ w.state = state /\ w.conns = conns /\ w.ok = v.ok
BY Zenon DEF Becomes, Behaviour

LEMMA WaitsFields ==
  ASSUME NEW v \in Behaviour, NEW state \in PeerState, NEW conns \in Seq(Connection),
         NEW d \in Delay
  PROVE  LET w == Waits(v, state, conns, d) IN
         w \in Behaviour /\ w.state = state /\ w.conns = conns /\ w.ok = v.ok
BY Zenon DEF Waits, Behaviour, Instants

LEMMA AssertsFields ==
  ASSUME NEW v \in Behaviour, NEW condition \in BOOLEAN
  PROVE  LET w == Asserts(v, condition) IN
         /\ w \in Behaviour /\ w.state = v.state /\ w.conns = v.conns
         /\ w.until = v.until /\ w.incoming = v.incoming /\ w.delays = v.delays
         /\ w.ok <=> v.ok /\ condition
BY Zenon DEF Asserts, Behaviour

LEMMA ConnsFields ==
  ASSUME NEW v \in Behaviour, NEW conns \in Seq(Connection)
  PROVE  LET w == [v EXCEPT !.conns = conns] IN
         w \in Behaviour /\ w.state = v.state /\ w.conns = conns /\ w.ok = v.ok
BY Zenon DEF Behaviour

LEMMA StateFields ==
  ASSUME NEW v \in Behaviour, NEW state \in PeerState
  PROVE  LET w == [v EXCEPT !.state = state] IN
         w \in Behaviour /\ w.state = state /\ w.conns = v.conns /\ w.ok = v.ok
BY DEF Behaviour

\* An error, with or without a state that is lost.
LEMMA Errors ==
  ASSUME NEW v \in Behaviour
  PROVE  /\ Unexpected(v) \in Behaviour /\ ~Unexpected(v).ok
         /\ Poisoned(v) \in Behaviour /\ ~Poisoned(v).ok
BY Zenon DEF Unexpected, Poisoned, Behaviour, PeerState

LEMMA ErrorProper ==
  ASSUME NEW v \in Behaviour, NEW w \in Behaviour, ~w.ok
  PROVE  Proper(v, Effect(w))
BY DEF Proper, Fine, CallTyped, CallFits, Effect

\* The peer stays as it is for the external API and for the Peerset.
LEMMA QuietProper ==
  ASSUME NEW v, Usual(v), NEW w \in Behaviour, w.ok => v.ok,
         OpenOnlyEnabled(w), OpenIn(w) <=> OpenIn(v), RequestedIn(w) <=> RequestedIn(v)
  PROVE  Proper(v, Effect(w))
BY DEF Proper, Fine, CallTyped, CallFits, Effect, Tells

LEMMA GiveUpFields ==
  ASSUME NEW v \in Behaviour
  PROVE  LET w == GiveUp(v) IN
         /\ w \in Behaviour /\ w.state = v.state /\ w.conns = v.conns
         /\ w.until = v.until /\ w.delays = v.delays
         /\ w.ok => v.ok
<1>1. CASE Alive(v) = {}
  BY <1>1, Zenon DEF GiveUp, Unexpected, Behaviour
<1>2. CASE Alive(v) # {}
  <2> DEFINE given == [i \in Index |-> IF i \in Alive(v) THEN "dead" ELSE v.incoming[i]]
  <2>1. given \in [Index -> {"none", "alive", "dead"}]
    BY DEF Behaviour
  <2> HIDE DEF given
  <2>2. GiveUp(v) = [v EXCEPT !.incoming = given]
    BY <1>2 DEF GiveUp, given
  <2> QED BY <2>1, <2>2 DEF Behaviour
<1> QED BY <1>1, <1>2

-----------------------------------------------------------------------------
(***************************************************************************)
(* The parts that several operations share                                 *)
(***************************************************************************)
LEMMA StatesDiffer ==
  /\ "Missing" \in PeerState /\ "Backoff" \in PeerState /\ "PendingRequest" \in PeerState
  /\ "Requested" \in PeerState /\ "Disabled" \in PeerState /\ "Enabled" \in PeerState
  /\ "DisabledPendingEnable" \in PeerState /\ "Incoming" \in PeerState
  /\ "Closing" \in ConnectionState /\ "Opening" \in ConnectionState
  /\ "OpenDesiredByRemote" \in ConnectionState /\ "Closed" \in ConnectionState
  /\ "Open" \in ConnectionState
  /\ "none" \in Instants /\ "later" \in Instants /\ "past" \in Instants
BY DEF PeerState, ConnectionState, Instants

\* A peer without connections.
LEMMA EmptyFields ==
  ASSUME NEW v \in Behaviour, NEW state \in PeerState
  PROVE  LET w == Becomes(v, state, <<>>, "none") IN
         w \in Behaviour /\ w.state = state /\ w.conns = <<>> /\ w.ok = v.ok
<1>1. <<>> \in Seq(Connection)
  OBVIOUS
<1>2. \A cs \in Seq(Connection) :
        LET w == Becomes(v, state, cs, "none") IN
        w \in Behaviour /\ w.state = state /\ w.conns = cs /\ w.ok = v.ok
  BY BecomesFields, StatesDiffer
<1> QED BY <1>1, <1>2, Zenon

LEMMA EmptyWaits ==
  ASSUME NEW v \in Behaviour, NEW state \in PeerState, NEW d \in Delay
  PROVE  LET w == Waits(v, state, <<>>, d) IN
         w \in Behaviour /\ w.state = state /\ w.conns = <<>> /\ w.ok = v.ok
<1>1. <<>> \in Seq(Connection)
  OBVIOUS
<1>2. \A cs \in Seq(Connection) :
        LET w == Waits(v, state, cs, d) IN
        w \in Behaviour /\ w.state = state /\ w.conns = cs /\ w.ok = v.ok
  BY WaitsFields
<1> QED BY <1>1, <1>2, Zenon

LEMMA DisabledFields ==
  ASSUME NEW v \in Behaviour, NEW conns \in Seq(Connection)
  PROVE  LET w == Becomes(v, "Disabled", conns, v.until) IN
         w \in Behaviour /\ w.state = "Disabled" /\ w.conns = conns /\ w.ok = v.ok
<1>1. \A u \in Instants :
        LET w == Becomes(v, "Disabled", conns, u) IN
        w \in Behaviour /\ w.state = "Disabled" /\ w.conns = conns /\ w.ok = v.ok
  BY BecomesFields, StatesDiffer
<1>2. v.until \in Instants
  BY DEF Behaviour
<1> QED BY <1>1, <1>2, Zenon

LEMMA CloseAllEffect ==
  ASSUME NEW v \in Behaviour, v.state = "Enabled"
  PROVE  LET e == CloseAll(v) IN
         /\ e.b \in Behaviour /\ e.b.state = "Disabled" /\ e.b.ok = v.ok
         /\ ~Has(e.b.conns, {"Open"})
         /\ Tells(OpenIn(v), FALSE, e.tell)
         /\ e.call = <<>>
<1> DEFINE left == TurnAll(TurnAll(v.conns, "Open", "Closing"), "Opening", "OpeningThenClosing")
<1>1. v.conns \in Seq(Connection)
  BY DEF Behaviour
<1>2. left \in Seq(Connection) /\ ~Has(left, {"Open"})
  BY <1>1, TurnAllClosed
<1>3. /\ CloseAll(v).b = Becomes(v, "Disabled", left, "none")
      /\ CloseAll(v).tell = IF Has(v.conns, {"Open"}) THEN <<[event |-> "Closed"]>> ELSE <<>>
      /\ CloseAll(v).call = <<>>
  BY DEF CloseAll, Effect
<1> HIDE DEF left
<1>4. Tells(OpenIn(v), FALSE, CloseAll(v).tell)
  BY <1>3 DEF Tells, OpenIn
<1>5. LET w == Becomes(v, "Disabled", left, "none") IN
      w \in Behaviour /\ w.state = "Disabled" /\ w.conns = left /\ w.ok = v.ok
  BY <1>1, <1>2, BecomesFields, StatesDiffer
<1> QED BY <1>2, <1>3, <1>4, <1>5, Zenon

LEMMA RejectAllEffect ==
  ASSUME NEW v \in Behaviour
  PROVE  LET e == RejectAll(v) IN
         /\ e.b \in Behaviour /\ e.b.state = "Disabled" /\ e.b.ok = v.ok
         /\ Has(e.b.conns, {"Open"}) => Has(v.conns, {"Open"})
         /\ e.tell = <<>> /\ e.call = <<>>
<1> DEFINE left == TurnAll(v.conns, "OpenDesiredByRemote", "Closing")
<1>1. v.conns \in Seq(Connection) /\ v.until \in Instants
  BY DEF Behaviour
<1>2. left \in Seq(Connection) /\ (Has(left, {"Open"}) => Has(v.conns, {"Open"}))
  BY <1>1, TurnConns, TurnOther, StatesDiffer DEF TurnAll
<1>3. /\ RejectAll(v).b = Becomes(v, "Disabled", left, v.until)
      /\ RejectAll(v).tell = <<>> /\ RejectAll(v).call = <<>>
  BY DEF RejectAll, Effect
<1> HIDE DEF left
<1>4. LET w == Becomes(v, "Disabled", left, v.until) IN
      w \in Behaviour /\ w.state = "Disabled" /\ w.conns = left /\ w.ok = v.ok
  BY <1>2, DisabledFields
<1> QED BY <1>2, <1>3, <1>4

LEMMA AcceptAllEffect ==
  ASSUME NEW v \in Behaviour
  PROVE  LET e == AcceptAll(v) IN
         /\ e.b \in Behaviour /\ e.b.state = "Enabled" /\ e.b.ok = v.ok
         /\ Has(e.b.conns, {"Open"}) => Has(v.conns, {"Open"})
         /\ e.tell = <<>> /\ e.call = <<>>
<1> DEFINE left == TurnAll(v.conns, "OpenDesiredByRemote", "Opening")
<1>1. v.conns \in Seq(Connection)
  BY DEF Behaviour
<1>2. left \in Seq(Connection) /\ (Has(left, {"Open"}) => Has(v.conns, {"Open"}))
  BY <1>1, TurnConns, TurnOther, StatesDiffer DEF TurnAll
<1>3. /\ AcceptAll(v).b = Becomes(v, "Enabled", left, "none")
      /\ AcceptAll(v).tell = <<>> /\ AcceptAll(v).call = <<>>
  BY DEF AcceptAll, Effect
<1> HIDE DEF left
<1>4. LET w == Becomes(v, "Enabled", left, "none") IN
      w \in Behaviour /\ w.state = "Enabled" /\ w.conns = left /\ w.ok = v.ok
  BY <1>1, <1>2, BecomesFields, StatesDiffer
<1> QED BY <1>2, <1>3, <1>4

LEMMA EnableEffect ==
  ASSUME NEW v \in Behaviour, NEW c
  PROVE  LET e == Enable(v, c) IN
         /\ e.b \in Behaviour /\ e.b.state = "Enabled" /\ e.b.ok = v.ok
         /\ Has(e.b.conns, {"Open"}) <=> Has(v.conns, {"Open"})
         /\ e.tell = <<>> /\ e.call = <<>>
<1> DEFINE left == Turn(v.conns, {c}, "Closed", "Opening")
<1>1. v.conns \in Seq(Connection)
  BY DEF Behaviour
<1>2. left \in Seq(Connection) /\ (Has(left, {"Open"}) <=> Has(v.conns, {"Open"}))
  BY <1>1, TurnConns, TurnOther, StatesDiffer
<1>3. /\ Enable(v, c).b = Becomes(v, "Enabled", left, "none")
      /\ Enable(v, c).tell = <<>> /\ Enable(v, c).call = <<>>
  BY DEF Enable, Effect
<1> HIDE DEF left
<1>4. LET w == Becomes(v, "Enabled", left, "none") IN
      w \in Behaviour /\ w.state = "Enabled" /\ w.conns = left /\ w.ok = v.ok
  BY <1>1, <1>2, BecomesFields, StatesDiffer
<1> QED BY <1>2, <1>3, <1>4

LEMMA NoConns ==
  <<>> \in Seq(Connection) /\ \A states : ~Has(<<>>, states)
BY DEF Has, Ids

-----------------------------------------------------------------------------
(***************************************************************************)
(* The operations                                                          *)
(***************************************************************************)
LEMMA DisconnectPeerProper ==
  ASSUME NEW v, Usual(v)
  PROVE  Proper(v, DisconnectPeer(v))
<1> DEFINE e == DisconnectPeer(v)
<1>1. /\ v \in Behaviour /\ v.conns \in Seq(Connection) /\ v.until \in Instants
      /\ v.ok => OpenOnlyEnabled(v)
  BY DEF Usual, Behaviour
<1>2. CASE v.state = "DisabledPendingEnable"
  <2>1. e.b = Becomes(v, "Disabled", v.conns, v.until) /\ e.tell = <<>> /\ e.call = <<"dropped">>
    BY <1>2 DEF DisconnectPeer, Effect
  <2>2. /\ e.b \in Behaviour /\ e.b.state = "Disabled" /\ e.b.conns = v.conns /\ e.b.ok = v.ok
    <3>1. LET w == Becomes(v, "Disabled", v.conns, v.until) IN
          w \in Behaviour /\ w.state = "Disabled" /\ w.conns = v.conns /\ w.ok = v.ok
      BY <1>1, DisabledFields
    <3> HIDE DEF e
    <3> QED BY <2>1, <3>1
  <2> HIDE DEF e
  <2>3. Proper(v, e)
    BY <1>1, <1>2, <2>1, <2>2
    DEF Proper, Fine, CallTyped, CallFits, Tells, OpenIn, OpenOnlyEnabled, RequestedIn
  <2> QED BY <2>3 DEF e
<1>3. CASE v.state = "Enabled"
  <2>1. /\ e.b = CloseAll(v).b /\ e.tell = CloseAll(v).tell /\ e.call = <<"dropped">>
    BY <1>3, Zenon DEF DisconnectPeer, CloseAll, Effect
  <2> HIDE DEF e
  <2>2. Proper(v, e)
    BY <1>1, <1>3, <2>1, CloseAllEffect, Zenon
    DEF Proper, Fine, CallTyped, CallFits, OpenIn, OpenOnlyEnabled, RequestedIn
  <2> QED BY <2>2 DEF e
<1>4. CASE v.state = "Incoming"
  <2>1. CASE Alive(v) = {}
    BY <1>1, <1>4, <2>1, Errors, ErrorProper DEF DisconnectPeer
  <2>2. CASE Alive(v) # {}
    <3>1. e = RejectAll(GiveUp(v))
      BY <1>4, <2>2 DEF DisconnectPeer
    <3>2. /\ GiveUp(v) \in Behaviour /\ GiveUp(v).conns = v.conns /\ (GiveUp(v).ok => v.ok)
      BY <1>1, GiveUpFields
    <3> HIDE DEF e
    <3>3. /\ e.b \in Behaviour /\ e.b.state = "Disabled" /\ e.b.ok = GiveUp(v).ok
          /\ Has(e.b.conns, {"Open"}) => Has(v.conns, {"Open"})
          /\ e.tell = <<>> /\ e.call = <<>>
      BY <3>1, <3>2, RejectAllEffect
    <3>4. Proper(v, e)
      BY <1>1, <1>4, <3>2, <3>3
      DEF Proper, Fine, CallTyped, CallFits, Tells, OpenIn, OpenOnlyEnabled, RequestedIn
    <3> QED BY <3>4 DEF e
  <2> QED BY <2>1, <2>2
<1>5. CASE v.state \notin {"DisabledPendingEnable", "Enabled", "Incoming"}
  <2>1. e = Effect(v)
    BY <1>5 DEF DisconnectPeer
  <2>2. CASE v.ok
    BY <1>1, <2>1, <2>2, QuietProper
  <2>3. CASE ~v.ok
    BY <1>1, <2>1, <2>3, ErrorProper
  <2> QED BY <1>1, <2>2, <2>3
<1> QED BY <1>2, <1>3, <1>4, <1>5

\* Nothing is open in a peer that is not enabled, and nothing becomes open unless a
\* handler says so.
LEMMA CalmFine ==
  ASSUME NEW v, Usual(v), v.state # "Enabled", NEW e, e.tell = <<>>,
         e.b \in Behaviour, e.b.ok => v.ok,
         Has(e.b.conns, {"Open"}) => Has(v.conns, {"Open"})
  PROVE  Fine(v, e)
BY DEF Fine, Usual, OpenOnlyEnabled, OpenIn, Tells

LEMMA EffectFields ==
  ASSUME NEW v
  PROVE  Effect(v).b = v /\ Effect(v).tell = <<>> /\ Effect(v).call = <<>>
BY DEF Effect

LEMMA UsualTypes ==
  ASSUME NEW v, Usual(v)
  PROVE  /\ v \in Behaviour /\ v.conns \in Seq(Connection) /\ v.until \in Instants
         /\ v.state \in PeerState /\ v.ok \in BOOLEAN
         /\ v.incoming \in [Index -> {"none", "alive", "dead"}]
         /\ v.delays \in SUBSET Delay /\ FreshDelay \in SUBSET Delay
         /\ v.ok => OpenOnlyEnabled(v)
BY DEF Usual, Behaviour, FreshDelay

LEMMA OkFields ==
  ASSUME NEW v \in Behaviour, NEW condition \in BOOLEAN
  PROVE  LET w == [v EXCEPT !.ok = v.ok /\ condition] IN
         w \in Behaviour /\ w.state = v.state /\ w.conns = v.conns /\ (w.ok => v.ok)
         /\ w.until = v.until
BY Zenon DEF Behaviour

LEMMA ReportConnectEffect ==
  ASSUME NEW v, Usual(v), NEW e \in ReportConnect(v)
  PROVE  /\ Fine(v, e) /\ e.call = <<>>
         /\ e.b.ok => RequestedIn(e.b)
<1>1. /\ v \in Behaviour /\ v.conns \in Seq(Connection) /\ FreshDelay \in SUBSET Delay
  BY UsualTypes
<1>2. CASE v.state = "Missing"
  <2>1. e = Effect(Becomes(v, "Requested", <<>>, "none"))
    BY <1>2 DEF ReportConnect
  <2>2. LET w == Becomes(v, "Requested", <<>>, "none") IN
        w \in Behaviour /\ w.state = "Requested" /\ w.conns = <<>> /\ w.ok = v.ok
    BY <1>1, EmptyFields, StatesDiffer
  <2>3. /\ e.b \in Behaviour /\ e.b.state = "Requested" /\ e.b.conns = <<>> /\ e.b.ok = v.ok
        /\ e.tell = <<>> /\ e.call = <<>>
    BY <2>1, <2>2, EffectFields
  <2> QED BY <1>2, <2>3, NoConns, CalmFine DEF RequestedIn
<1>3. CASE v.state = "Backoff"
  <2>1. CASE v.until = "later"
    <3>1. e = Effect([v EXCEPT !.state = "PendingRequest"])
      BY <1>3, <2>1 DEF ReportConnect
    <3>2. /\ e.b \in Behaviour /\ e.b.state = "PendingRequest" /\ e.b.conns = v.conns
          /\ e.b.ok = v.ok /\ e.tell = <<>> /\ e.call = <<>>
      BY <1>1, <3>1 DEF Effect, Behaviour, PeerState
    <3> QED BY <1>3, <3>2, CalmFine DEF RequestedIn
  <2>2. CASE v.until # "later"
    <3>1. e = Effect(Becomes(v, "Requested", <<>>, "none"))
      BY <1>3, <2>2 DEF ReportConnect
    <3>2. LET w == Becomes(v, "Requested", <<>>, "none") IN
          w \in Behaviour /\ w.state = "Requested" /\ w.conns = <<>> /\ w.ok = v.ok
      BY <1>1, EmptyFields, StatesDiffer
    <3>3. /\ e.b \in Behaviour /\ e.b.state = "Requested" /\ e.b.conns = <<>>
          /\ e.b.ok = v.ok /\ e.tell = <<>> /\ e.call = <<>>
      BY <3>1, <3>2, EffectFields
    <3> QED BY <1>3, <3>3, NoConns, CalmFine DEF RequestedIn
  <2> QED BY <2>1, <2>2
<1>4. CASE v.state = "Disabled" /\ v.until # "later" /\ Has(v.conns, {"Closed"})
  <2> DEFINE w == [v EXCEPT !.ok = v.ok /\ ~Has(v.conns, {"Open"})]
             c == FirstWith(v.conns, "Closed")
  <2>1. e = Enable(w, c)
    BY <1>4 DEF ReportConnect
  <2>2. w \in Behaviour /\ w.conns = v.conns /\ (w.ok => v.ok)
    BY <1>1, OkFields, Zenon
  <2> HIDE DEF w, c
  <2>3. /\ e.b \in Behaviour /\ e.b.state = "Enabled" /\ e.b.ok = w.ok
        /\ Has(e.b.conns, {"Open"}) <=> Has(w.conns, {"Open"})
        /\ e.tell = <<>> /\ e.call = <<>>
    BY <2>1, <2>2, EnableEffect
  <2> QED BY <1>4, <2>2, <2>3, CalmFine DEF RequestedIn
<1>5. CASE v.state = "Disabled" /\ v.until = "later"
  <2>1. PICK d \in Delay : e = Effect(Waits(v, "DisabledPendingEnable", v.conns, d))
    BY <1>1, <1>5 DEF ReportConnect
  <2>2. LET w == Waits(v, "DisabledPendingEnable", v.conns, d) IN
        w \in Behaviour /\ w.state = "DisabledPendingEnable" /\ w.conns = v.conns /\ w.ok = v.ok
    BY <1>1, WaitsFields, StatesDiffer
  <2>3. /\ e.b \in Behaviour /\ e.b.state = "DisabledPendingEnable" /\ e.b.conns = v.conns
        /\ e.b.ok = v.ok /\ e.tell = <<>> /\ e.call = <<>>
    BY <2>1, <2>2, EffectFields
  <2> QED BY <1>5, <2>3, CalmFine DEF RequestedIn
<1>6. CASE v.state = "Disabled" /\ v.until # "later" /\ ~Has(v.conns, {"Closed"})
  <2> DEFINE w(d) == Waits(v, "DisabledPendingEnable", v.conns, d)
             x == ~Has(v.conns, {"Open"}) /\ Has(v.conns, {"OpeningThenClosing", "Closing"})
  <2>1. PICK d \in Delay : e = Effect([w(d) EXCEPT !.ok = w(d).ok /\ x])
    BY <1>1, <1>6 DEF ReportConnect
  <2>2. w(d) \in Behaviour /\ w(d).state = "DisabledPendingEnable" /\ w(d).conns = v.conns
        /\ w(d).ok = v.ok
    BY <1>1, WaitsFields, StatesDiffer
  <2>3. x \in BOOLEAN
    OBVIOUS
  <2> HIDE DEF w, x
  <2>4. /\ e.b \in Behaviour /\ e.b.state = "DisabledPendingEnable" /\ e.b.conns = v.conns
        /\ (e.b.ok => v.ok) /\ e.tell = <<>> /\ e.call = <<>>
    BY <2>1, <2>2, <2>3 DEF Effect, Behaviour
  <2> QED BY <1>6, <2>4, CalmFine DEF RequestedIn
<1>7. CASE v.state = "Incoming"
  <2> DEFINE g == GiveUp(v)
             x == Has(v.conns, {"OpenDesiredByRemote"})
             w == [g EXCEPT !.ok = g.ok /\ x]
  <2>1. e = AcceptAll(w)
    BY <1>7 DEF ReportConnect
  <2>2. g \in Behaviour /\ g.conns = v.conns /\ (g.ok => v.ok) /\ x \in BOOLEAN
    BY <1>1, GiveUpFields DEF Has
  <2> HIDE DEF g, x
  <2>3. w \in Behaviour /\ w.conns = v.conns /\ (w.ok => v.ok)
    BY <2>2, OkFields
  <2> HIDE DEF w
  <2>4. /\ e.b \in Behaviour /\ e.b.state = "Enabled" /\ e.b.ok = w.ok
        /\ Has(e.b.conns, {"Open"}) => Has(w.conns, {"Open"})
        /\ e.tell = <<>> /\ e.call = <<>>
    BY <2>1, <2>3, AcceptAllEffect
  <2> QED BY <1>7, <2>3, <2>4, CalmFine DEF RequestedIn
<1>8. CASE v.state \notin {"Missing", "Backoff", "Disabled", "Incoming"}
  <2>1. e = Effect(Unexpected(v))
    BY <1>8 DEF ReportConnect
  <2>2. e.b \in Behaviour /\ ~e.b.ok /\ e.call = <<>>
    BY <1>1, <2>1, Errors, EffectFields
  <2> QED BY <2>2 DEF Fine
<1> QED BY <1>2, <1>3, <1>4, <1>5, <1>6, <1>7, <1>8

LEMMA ReportDisconnectEffect ==
  ASSUME NEW v, Usual(v)
  PROVE  LET e == ReportDisconnect(v) IN
         /\ Fine(v, e) /\ e.call = <<>>
         /\ e.b.ok => ~RequestedIn(e.b)
<1> DEFINE e == ReportDisconnect(v)
<1>1. v \in Behaviour /\ v.conns \in Seq(Connection)
  BY UsualTypes
<1>2. CASE v.state \in {"Missing", "Disabled", "Backoff"}
  <2>1. e.b = v /\ e.tell = <<>> /\ e.call = <<>>
    BY <1>2, EffectFields DEF ReportDisconnect
  <2> HIDE DEF e
  <2>2. Fine(v, e) /\ ~RequestedIn(e.b)
    BY <1>1, <1>2, <2>1, CalmFine DEF RequestedIn
  <2> QED BY <2>1, <2>2 DEF e
<1>3. CASE v.state = "DisabledPendingEnable"
  <2> DEFINE w == Becomes(v, "Disabled", v.conns, v.until)
             x == v.conns # <<>>
  <2>1. e = Effect([w EXCEPT !.ok = w.ok /\ x])
    BY <1>3 DEF ReportDisconnect
  <2>2. w \in Behaviour /\ w.state = "Disabled" /\ w.conns = v.conns /\ w.ok = v.ok
    BY <1>1, DisabledFields
  <2>3. x \in BOOLEAN
    OBVIOUS
  <2> HIDE DEF w, x, e
  <2>4. /\ e.b \in Behaviour /\ e.b.state = "Disabled" /\ e.b.conns = v.conns
        /\ (e.b.ok => v.ok) /\ e.tell = <<>> /\ e.call = <<>>
    BY <2>1, <2>2, <2>3, Zenon DEF Effect, Behaviour
  <2>5. Fine(v, e) /\ ~RequestedIn(e.b)
    BY <1>3, <2>4, CalmFine DEF RequestedIn
  <2> QED BY <2>4, <2>5 DEF e
<1>4. CASE v.state = "Enabled"
  <2> DEFINE x == Has(v.conns, {"Opening", "Open"})
             w == [v EXCEPT !.ok = v.ok /\ x]
  <2>1. e = CloseAll(w)
    BY <1>4 DEF ReportDisconnect
  <2>2. x \in BOOLEAN
    BY DEF Has
  <2> HIDE DEF x
  <2>3. w \in Behaviour /\ w.state = "Enabled" /\ w.conns = v.conns /\ (w.ok => v.ok)
    BY <1>1, <1>4, <2>2, OkFields
  <2> HIDE DEF w, e
  <2>4. /\ e.b \in Behaviour /\ e.b.state = "Disabled" /\ e.b.ok = w.ok
        /\ ~Has(e.b.conns, {"Open"})
        /\ Tells(OpenIn(w), FALSE, e.tell)
        /\ e.call = <<>>
    BY <2>1, <2>3, CloseAllEffect, Zenon
  <2>5. (OpenIn(w) <=> OpenIn(v)) /\ ~OpenIn(e.b) /\ OpenOnlyEnabled(e.b) /\ ~RequestedIn(e.b)
    BY <1>4, <2>3, <2>4 DEF OpenIn, OpenOnlyEnabled, RequestedIn
  <2>6. Tells(OpenIn(v), OpenIn(e.b), e.tell)
    BY <2>4, <2>5 DEF Tells
  <2>7. Fine(v, e)
    BY <2>3, <2>4, <2>5, <2>6 DEF Fine
  <2> QED BY <2>4, <2>5, <2>7 DEF e
<1>5. CASE v.state = "Requested"
  <2> DEFINE w == Becomes(v, "Missing", <<>>, "none")
  <2>1. e = Effect(w)
    BY <1>5 DEF ReportDisconnect, Forgotten
  <2>2. w \in Behaviour /\ w.state = "Missing" /\ w.conns = <<>> /\ w.ok = v.ok
    BY <1>1, EmptyFields, StatesDiffer
  <2> HIDE DEF w, e
  <2>3. e.b = w /\ e.tell = <<>> /\ e.call = <<>>
    BY <2>1, EffectFields
  <2>4. Fine(v, e) /\ ~RequestedIn(e.b)
    BY <1>5, <2>2, <2>3, CalmFine, NoConns DEF RequestedIn
  <2> QED BY <2>3, <2>4 DEF e
<1>6. CASE v.state = "PendingRequest"
  <2>1. e = Effect([v EXCEPT !.state = "Backoff"])
    BY <1>6 DEF ReportDisconnect
  <2> HIDE DEF e
  <2>2. /\ e.b \in Behaviour /\ e.b.state = "Backoff" /\ e.b.conns = v.conns
        /\ e.b.ok = v.ok /\ e.tell = <<>> /\ e.call = <<>>
    BY <1>1, <2>1 DEF Effect, Behaviour, PeerState
  <2>3. Fine(v, e) /\ ~RequestedIn(e.b)
    BY <1>6, <2>2, CalmFine DEF RequestedIn
  <2> QED BY <2>2, <2>3 DEF e
<1>7. CASE v.state \notin {"Missing", "Disabled", "Backoff", "DisabledPendingEnable", "Enabled",
                           "Requested", "PendingRequest"}
  <2>1. e = Effect(Unexpected(v))
    BY <1>7 DEF ReportDisconnect
  <2> HIDE DEF e
  <2>2. e.b \in Behaviour /\ ~e.b.ok /\ e.call = <<>>
    BY <1>1, <2>1, Errors, EffectFields
  <2>3. Fine(v, e)
    BY <2>2 DEF Fine
  <2> QED BY <2>2, <2>3 DEF e
<1> QED BY <1>2, <1>3, <1>4, <1>5, <1>6, <1>7

\* The entry of an answer is removed.
LEMMA AnsweredFields ==
  ASSUME NEW v, Usual(v), NEW i \in Index
  PROVE  LET w == [v EXCEPT !.incoming[i] = "none"] IN
         Usual(w) /\ w.state = v.state /\ w.conns = v.conns /\ w.ok = v.ok
<1>1. v \in Behaviour /\ (v.ok => OpenOnlyEnabled(v))
  BY DEF Usual
<1>2. LET w == [v EXCEPT !.incoming[i] = "none"] IN
      w \in Behaviour /\ w.state = v.state /\ w.conns = v.conns /\ w.ok = v.ok
  BY <1>1, Zenon DEF Behaviour
<1> QED BY <1>1, <1>2 DEF Usual, OpenOnlyEnabled

\* The same behaviour for the API and the Peerset, perhaps with an entry less.
LEMMA SameFine ==
  ASSUME NEW v, Usual(v), NEW e, e.tell = <<>>, Usual(e.b), e.b.ok => v.ok,
         e.b.state = v.state, e.b.conns = v.conns
  PROVE  Fine(v, e) /\ (RequestedIn(e.b) <=> RequestedIn(v))
BY DEF Fine, Usual, OpenIn, Tells, RequestedIn

LEMMA ReportAcceptEffect ==
  ASSUME NEW v, Usual(v), NEW i \in Index
  PROVE  LET e == ReportAccept(v, i) IN
         /\ Fine(v, e) /\ CallTyped(e)
         /\ e.b.ok /\ ~RequestedIn(v) =>
              \/ RequestedIn(e.b) /\ e.call = <<>>
              \/ ~RequestedIn(e.b) /\ e.call = <<"dropped">>
<1> DEFINE e == ReportAccept(v, i)
           known == [v EXCEPT !.incoming[i] = "none"]
<1>1. v \in Behaviour /\ v.incoming[i] \in {"none", "alive", "dead"}
  BY UsualTypes
<1>2. Usual(known) /\ known.state = v.state /\ known.conns = v.conns /\ known.ok = v.ok
  BY AnsweredFields
<1>3. CASE v.incoming[i] = "none"
  <2>1. e = Effect(Unexpected(v))
    BY <1>3 DEF ReportAccept
  <2> HIDE DEF e
  <2>2. e.b \in Behaviour /\ ~e.b.ok /\ e.call = <<>>
    BY <1>1, <2>1, Errors, EffectFields
  <2>3. Fine(v, e) /\ CallTyped(e)
    BY <2>2 DEF Fine, CallTyped
  <2> QED BY <2>2, <2>3 DEF e
<1>4. CASE v.incoming[i] = "dead"
  <2>1. /\ e.b = known /\ e.tell = <<>>
        /\ e.call = IF v.state \in {"DisabledPendingEnable", "Enabled"} THEN <<>>
                    ELSE <<"dropped">>
    BY <1>4 DEF ReportAccept, Effect
  <2> HIDE DEF e, known
  <2>2. Fine(v, e) /\ (RequestedIn(e.b) <=> RequestedIn(v))
    BY <1>2, <2>1, SameFine
  <2>3. CallTyped(e)
    BY <2>1 DEF CallTyped
  <2>4. ~RequestedIn(v) => e.call = <<"dropped">>
    BY <2>1 DEF RequestedIn
  <2> QED BY <2>2, <2>3, <2>4 DEF e
<1>5. CASE v.incoming[i] = "alive" /\ v.state = "Incoming"
  <2> DEFINE x == Has(v.conns, {"OpenDesiredByRemote"})
             w == [known EXCEPT !.ok = known.ok /\ x]
  <2>1. e = AcceptAll(w)
    BY <1>5 DEF ReportAccept
  <2>2. x \in BOOLEAN /\ known \in Behaviour
    BY <1>2 DEF Has, Usual
  <2> HIDE DEF x, known
  <2>3. w \in Behaviour /\ w.conns = v.conns /\ (w.ok => v.ok)
    BY <1>2, <2>2, OkFields
  <2> HIDE DEF w, e
  <2>4. /\ e.b \in Behaviour /\ e.b.state = "Enabled" /\ e.b.ok = w.ok
        /\ Has(e.b.conns, {"Open"}) => Has(w.conns, {"Open"})
        /\ e.tell = <<>> /\ e.call = <<>>
    BY <2>1, <2>3, AcceptAllEffect
  <2>5. Fine(v, e) /\ RequestedIn(e.b) /\ CallTyped(e)
    BY <1>5, <2>3, <2>4, CalmFine DEF RequestedIn, CallTyped
  <2> QED BY <2>4, <2>5 DEF e
<1>6. CASE v.incoming[i] = "alive" /\ v.state # "Incoming"
  <2>1. e = Effect(Poisoned(known))
    BY <1>6 DEF ReportAccept
  <2>2. known \in Behaviour
    BY <1>2 DEF Usual
  <2> HIDE DEF known, e
  <2>3. e.b \in Behaviour /\ ~e.b.ok /\ e.call = <<>>
    BY <2>1, <2>2, Errors, EffectFields
  <2>4. Fine(v, e) /\ CallTyped(e)
    BY <2>3 DEF Fine, CallTyped
  <2> QED BY <2>3, <2>4 DEF e
<1> QED BY <1>1, <1>3, <1>4, <1>5, <1>6

LEMMA ReportRejectEffect ==
  ASSUME NEW v, Usual(v), NEW i \in Index
  PROVE  LET e == ReportReject(v, i) IN
         /\ Fine(v, e) /\ e.call = <<>>
         /\ e.b.ok => (RequestedIn(e.b) <=> RequestedIn(v))
<1> DEFINE e == ReportReject(v, i)
           known == [v EXCEPT !.incoming[i] = "none"]
<1>1. v \in Behaviour /\ v.incoming[i] \in {"none", "alive", "dead"}
  BY UsualTypes
<1>2. Usual(known) /\ known.state = v.state /\ known.conns = v.conns /\ known.ok = v.ok
  BY AnsweredFields
<1>3. CASE v.incoming[i] = "none"
  <2>1. e = Effect(Unexpected(v))
    BY <1>3 DEF ReportReject
  <2> HIDE DEF e
  <2>2. e.b \in Behaviour /\ ~e.b.ok /\ e.call = <<>>
    BY <1>1, <2>1, Errors, EffectFields
  <2>3. Fine(v, e)
    BY <2>2 DEF Fine
  <2> QED BY <2>2, <2>3 DEF e
<1>4. CASE v.incoming[i] = "dead"
  <2>1. e.b = known /\ e.tell = <<>> /\ e.call = <<>>
    BY <1>4 DEF ReportReject, Effect
  <2> HIDE DEF e, known
  <2>2. Fine(v, e) /\ (RequestedIn(e.b) <=> RequestedIn(v))
    BY <1>2, <2>1, SameFine
  <2> QED BY <2>1, <2>2 DEF e
<1>5. CASE v.incoming[i] = "alive" /\ v.state = "Incoming"
  <2> DEFINE x == Has(v.conns, {"OpenDesiredByRemote"})
             w == [known EXCEPT !.ok = known.ok /\ x]
  <2>1. e = RejectAll(w)
    BY <1>5 DEF ReportReject
  <2>2. x \in BOOLEAN /\ known \in Behaviour
    BY <1>2 DEF Has, Usual
  <2> HIDE DEF x, known
  <2>3. w \in Behaviour /\ w.conns = v.conns /\ (w.ok => v.ok)
    BY <1>2, <2>2, OkFields
  <2> HIDE DEF w, e
  <2>4. /\ e.b \in Behaviour /\ e.b.state = "Disabled" /\ e.b.ok = w.ok
        /\ Has(e.b.conns, {"Open"}) => Has(w.conns, {"Open"})
        /\ e.tell = <<>> /\ e.call = <<>>
    BY <2>1, <2>3, RejectAllEffect
  <2>5. Fine(v, e) /\ (RequestedIn(e.b) <=> RequestedIn(v))
    BY <1>5, <2>3, <2>4, CalmFine DEF RequestedIn
  <2> QED BY <2>4, <2>5 DEF e
<1>6. CASE v.incoming[i] = "alive" /\ v.state # "Incoming"
  <2>1. e = Effect(Poisoned(known))
    BY <1>6 DEF ReportReject
  <2>2. known \in Behaviour
    BY <1>2 DEF Usual
  <2> HIDE DEF known, e
  <2>3. e.b \in Behaviour /\ ~e.b.ok /\ e.call = <<>>
    BY <2>1, <2>2, Errors, EffectFields
  <2>4. Fine(v, e)
    BY <2>3 DEF Fine
  <2> QED BY <2>3, <2>4 DEF e
<1> QED BY <1>1, <1>3, <1>4, <1>5, <1>6

-----------------------------------------------------------------------------
(***************************************************************************)
(* The operations libp2p calls                                             *)
(***************************************************************************)
LEMMA OneConn ==
  ASSUME NEW c \in Conn, NEW state \in ConnectionState, state # "Open"
  PROVE  LET new == <<[id |-> c, state |-> state]>> IN
         new \in Seq(Connection) /\ ~Has(new, {"Open"})
<1>1. [id |-> c, state |-> state] \in Connection
  BY DEF Connection
<1> QED BY <1>1, HasOne

LEMMA MoreConns ==
  ASSUME NEW cs \in Seq(Connection), NEW new \in Seq(Connection), ~Has(new, {"Open"})
  PROVE  cs \o new \in Seq(Connection) /\ (Has(cs \o new, {"Open"}) <=> Has(cs, {"Open"}))
<1>1. cs \o new \in Seq(Connection) /\ Len(cs) \in Nat /\ Len(new) \in Nat
  OBVIOUS
<1>2. /\ DOMAIN (cs \o new) = 1 .. (Len(cs) + Len(new))
      /\ DOMAIN cs = 1 .. Len(cs) /\ DOMAIN new = 1 .. Len(new)
      /\ \A k \in 1 .. Len(cs) : (cs \o new)[k] = cs[k]
      /\ \A k \in 1 .. (Len(cs) + Len(new)) :
           k > Len(cs) => (cs \o new)[k] = new[k - Len(cs)] /\ k - Len(cs) \in 1 .. Len(new)
  BY <1>1
<1>3. ASSUME NEW k \in DOMAIN (cs \o new), (cs \o new)[k].state \in {"Open"}
      PROVE  \E j \in DOMAIN cs : cs[j].state \in {"Open"}
  <2>1. ~(k > Len(cs))
    BY <1>2, <1>3, HasOne
  <2> QED BY <1>1, <1>2, <1>3, <2>1
<1>4. ASSUME NEW k \in DOMAIN cs, cs[k].state \in {"Open"}
      PROVE  \E j \in DOMAIN (cs \o new) : (cs \o new)[j].state \in {"Open"}
  <2>1. k \in DOMAIN (cs \o new)
    BY <1>1, <1>2
  <2> QED BY <1>2, <1>4, <2>1
<1> QED BY <1>1, <1>3, <1>4, HasOne, Zenon

LEMMA EstablishedProper ==
  ASSUME NEW v, Usual(v), NEW c \in Conn
  PROVE  Proper(v, Established(v, c))
<1> DEFINE e == Established(v, c)
           opening == <<[id |-> c, state |-> "Opening"]>>
           closed == <<[id |-> c, state |-> "Closed"]>>
<1>1. v \in Behaviour /\ v.conns \in Seq(Connection) /\ (v.ok => OpenOnlyEnabled(v))
  BY UsualTypes
<1>2. /\ opening \in Seq(Connection) /\ ~Has(opening, {"Open"})
      /\ closed \in Seq(Connection) /\ ~Has(closed, {"Open"})
  BY OneConn, StatesDiffer
<1>3. CASE v.state \in {"Requested", "PendingRequest"}
  <2> DEFINE w == Becomes(v, "Enabled", opening, "none")
  <2>1. e.b = w /\ e.tell = <<>> /\ e.call = <<>>
    BY <1>3 DEF Established, Effect
  <2> HIDE DEF opening
  <2>2. w \in Behaviour /\ w.state = "Enabled" /\ w.conns = opening /\ w.ok = v.ok
    BY <1>1, <1>2, BecomesFields, StatesDiffer
  <2> HIDE DEF w, e
  <2>3. Fine(v, e)
    BY <1>2, <1>3, <2>1, <2>2, CalmFine
  <2>4. Proper(v, e)
    BY <1>3, <2>1, <2>2, <2>3 DEF Proper, CallTyped, CallFits, RequestedIn
  <2> QED BY <2>4 DEF e
<1>4. CASE v.state \in {"Missing", "Backoff", "Poisoned"}
  <2> DEFINE w == Becomes(v, "Disabled", closed, v.until)
  <2>1. e.b = w /\ e.tell = <<>> /\ e.call = <<>>
    BY <1>4 DEF Established, Effect
  <2> HIDE DEF closed
  <2>2. w \in Behaviour /\ w.state = "Disabled" /\ w.conns = closed /\ w.ok = v.ok
    BY <1>1, <1>2, DisabledFields
  <2> HIDE DEF w, e
  <2>3. Fine(v, e)
    BY <1>2, <1>4, <2>1, <2>2, CalmFine
  <2>4. Proper(v, e)
    BY <1>4, <2>1, <2>2, <2>3 DEF Proper, CallTyped, CallFits, RequestedIn
  <2> QED BY <2>4 DEF e
<1>5. CASE v.state \notin {"Requested", "PendingRequest", "Missing", "Backoff", "Poisoned"}
  <2> DEFINE more == v.conns \o closed
             w == [v EXCEPT !.conns = more]
  <2>1. e = Effect(w)
    BY <1>5 DEF Established
  <2> HIDE DEF closed
  <2>2. more \in Seq(Connection) /\ (Has(more, {"Open"}) <=> Has(v.conns, {"Open"}))
    BY <1>1, <1>2, MoreConns
  <2> HIDE DEF more
  <2>3. w \in Behaviour /\ w.state = v.state /\ w.conns = more /\ w.ok = v.ok
    BY <1>1, <2>2, ConnsFields
  <2> HIDE DEF w, e
  <2>4. CASE v.ok
    <3>1. /\ OpenOnlyEnabled(w) /\ (OpenIn(w) <=> OpenIn(v))
          /\ RequestedIn(w) <=> RequestedIn(v)
      BY <1>1, <2>2, <2>3, <2>4 DEF OpenOnlyEnabled, OpenIn, RequestedIn
    <3> QED BY <2>1, <2>3, <3>1, QuietProper DEF e
  <2>5. CASE ~v.ok
    BY <1>1, <2>1, <2>3, <2>5, ErrorProper DEF e
  <2> QED BY <2>4, <2>5
<1> QED BY <1>3, <1>4, <1>5

LEMMA OfflineProper ==
  ASSUME NEW v, Usual(v), v.state # "Enabled", ~RequestedIn(v), NEW e \in Offline(v)
  PROVE  Proper(v, e)
<1>1. v \in Behaviour /\ FreshDelay \in SUBSET Delay
  BY UsualTypes
<1>2. /\ e.b \in Behaviour /\ e.b.state \in {"Backoff", "Missing"} /\ e.b.conns = <<>>
      /\ e.b.ok = v.ok /\ e.tell = <<>> /\ e.call = <<>>
  <2>1. CASE v.until = "later"
    <3>1. PICK d \in Delay : e = Effect(Waits(v, "Backoff", <<>>, d))
      BY <1>1, <2>1 DEF Offline
    <3>2. LET w == Waits(v, "Backoff", <<>>, d) IN
          w \in Behaviour /\ w.state = "Backoff" /\ w.conns = <<>> /\ w.ok = v.ok
      BY <1>1, EmptyWaits, StatesDiffer
    <3> QED BY <3>1, <3>2, EffectFields
  <2>2. CASE v.until # "later"
    <3>1. e = Effect(Becomes(v, "Missing", <<>>, "none"))
      BY <2>2 DEF Offline, Forgotten
    <3>2. LET w == Becomes(v, "Missing", <<>>, "none") IN
          w \in Behaviour /\ w.state = "Missing" /\ w.conns = <<>> /\ w.ok = v.ok
      BY <1>1, EmptyFields, StatesDiffer
    <3> QED BY <3>1, <3>2, EffectFields
  <2> QED BY <2>1, <2>2
<1>3. Fine(v, e)
  BY <1>2, CalmFine, NoConns
<1> QED BY <1>2, <1>3 DEF Proper, CallTyped, CallFits, RequestedIn

\* A peer that differs in what no neighbour sees.
LEMMA ProperTransfer ==
  ASSUME NEW v, Usual(v), NEW w \in Behaviour, w.state = v.state, w.conns = v.conns,
         w.ok => v.ok
  PROVE  Usual(w) /\ \A e : Proper(w, e) => Proper(v, e)
BY DEF Usual, Proper, Fine, CallFits, OpenIn, OpenOnlyEnabled, RequestedIn

LEMMA ClosedDisabledProper ==
  ASSUME NEW v, Usual(v), v.state = "Disabled", NEW left \in Seq(Connection),
         Has(left, {"Open"}) => Has(v.conns, {"Open"}), NEW e \in ClosedDisabled(v, left)
  PROVE  Proper(v, e)
<1>1. CASE left = <<>>
  BY <1>1, OfflineProper DEF ClosedDisabled, RequestedIn
<1>2. CASE left # <<>>
  <2> DEFINE w == [v EXCEPT !.conns = left]
  <2>1. e = Effect(w)
    BY <1>2 DEF ClosedDisabled
  <2>2. w \in Behaviour /\ w.state = v.state /\ w.conns = left /\ w.ok = v.ok
    BY UsualTypes, ConnsFields
  <2> HIDE DEF w
  <2>3. e.b = w /\ e.tell = <<>> /\ e.call = <<>>
    BY <2>1, EffectFields
  <2>4. Fine(v, e)
    BY <2>2, <2>3, CalmFine
  <2> QED BY <2>2, <2>3, <2>4 DEF Proper, CallTyped, CallFits, RequestedIn
<1> QED BY <1>1, <1>2

LEMMA ClosedPendingProper ==
  ASSUME NEW v, Usual(v), v.state = "DisabledPendingEnable", NEW left \in Seq(Connection),
         Has(left, {"Open"}) => Has(v.conns, {"Open"}), NEW e \in ClosedPending(v, left)
  PROVE  Proper(v, e)
<1>1. CASE left = <<>>
  <2>1. /\ e.b = [v EXCEPT !.state = "Backoff", !.conns = <<>>]
        /\ e.tell = <<>> /\ e.call = <<"dropped">>
    BY <1>1 DEF ClosedPending, Effect
  <2>2. /\ e.b \in Behaviour /\ e.b.state = "Backoff" /\ e.b.conns = <<>> /\ e.b.ok = v.ok
    <3>1. LET w == [v EXCEPT !.state = "Backoff", !.conns = <<>>] IN
          w \in Behaviour /\ w.state = "Backoff" /\ w.conns = <<>> /\ w.ok = v.ok
      <4>1. \A cs \in Seq(Connection) :
              LET w == [v EXCEPT !.state = "Backoff", !.conns = cs] IN
              w \in Behaviour /\ w.state = "Backoff" /\ w.conns = cs /\ w.ok = v.ok
        BY UsualTypes, Zenon DEF Behaviour, PeerState
      <4>2. <<>> \in Seq(Connection)
        OBVIOUS
      <4> QED BY <4>1, <4>2, Zenon
    <3> QED BY <2>1, <3>1, Zenon
  <2>3. Fine(v, e)
    BY <2>1, <2>2, CalmFine, NoConns, ZenonT(60)
  <2> QED BY <2>1, <2>2, <2>3 DEF Proper, CallTyped, CallFits, RequestedIn
<1>2. CASE left # <<>>
  <2> DEFINE w == [v EXCEPT !.conns = left]
  <2>1. e = Effect(w)
    BY <1>2 DEF ClosedPending
  <2>2. w \in Behaviour /\ w.state = v.state /\ w.conns = left /\ w.ok = v.ok
    BY UsualTypes, ConnsFields
  <2> HIDE DEF w
  <2>3. e.b = w /\ e.tell = <<>> /\ e.call = <<>>
    BY <2>1, EffectFields
  <2>4. Fine(v, e)
    BY <2>2, <2>3, CalmFine
  <2> QED BY <2>2, <2>3, <2>4 DEF Proper, CallTyped, CallFits, RequestedIn
<1> QED BY <1>1, <1>2

LEMMA ClosedIncomingProper ==
  ASSUME NEW v, Usual(v), v.state = "Incoming", NEW left \in Seq(Connection),
         Has(left, {"Open"}) => Has(v.conns, {"Open"}), NEW e \in ClosedIncoming(v, left)
  PROVE  Proper(v, e)
<1> DEFINE x == Has(v.conns, {"OpenDesiredByRemote"})
           known == [v EXCEPT !.ok = v.ok /\ x]
           g == GiveUp(known)
<1>1. x \in BOOLEAN
  BY DEF Has
<1> HIDE DEF x
<1>2. /\ known \in Behaviour /\ known.state = v.state /\ known.conns = v.conns
      /\ (known.ok => v.ok) /\ known.until = v.until
  BY <1>1, UsualTypes, OkFields
<1>3. Usual(known) /\ \A f : Proper(known, f) => Proper(v, f)
  BY <1>2, ProperTransfer, Zenon
<1>4. CASE Has(left, {"OpenDesiredByRemote"})
  <2> DEFINE w == [known EXCEPT !.conns = left]
  <2>1. e = Effect(w)
    BY <1>4, NoConns DEF ClosedIncoming, x
  <2> HIDE DEF known
  <2>2. w \in Behaviour /\ w.state = v.state /\ w.conns = left /\ w.ok = known.ok
    BY <1>2, ConnsFields
  <2> HIDE DEF w
  <2>3. e.b = w /\ e.tell = <<>> /\ e.call = <<>>
    BY <2>1, EffectFields
  <2>4. Fine(v, e)
    BY <1>2, <2>2, <2>3, CalmFine
  <2> QED BY <2>2, <2>3, <2>4 DEF Proper, CallTyped, CallFits, RequestedIn
<1>5. ~Has(left, {"OpenDesiredByRemote"}) =>
        e \in IF left # <<>> THEN {Effect(Becomes(g, "Disabled", left, v.until))} ELSE Offline(g)
  BY NoConns DEF ClosedIncoming, x
<1> HIDE DEF known
<1>6. /\ g \in Behaviour /\ g.state = v.state /\ g.conns = v.conns /\ (g.ok => v.ok)
      /\ g.until = v.until
  BY <1>2, GiveUpFields
<1> HIDE DEF g
<1>7. Usual(g) /\ \A f : Proper(g, f) => Proper(v, f)
  BY <1>6, ProperTransfer
<1>8. CASE ~Has(left, {"OpenDesiredByRemote"}) /\ left # <<>>
  <2> DEFINE w == Becomes(g, "Disabled", left, g.until)
  <2>1. e = Effect(w)
    BY <1>5, <1>6, <1>8
  <2>2. w \in Behaviour /\ w.state = "Disabled" /\ w.conns = left /\ w.ok = g.ok
    BY <1>6, DisabledFields
  <2> HIDE DEF w
  <2>3. e.b = w /\ e.tell = <<>> /\ e.call = <<>>
    BY <2>1, EffectFields
  <2>4. Fine(v, e)
    BY <1>6, <2>2, <2>3, CalmFine
  <2> QED BY <2>2, <2>3, <2>4 DEF Proper, CallTyped, CallFits, RequestedIn
<1>9. CASE ~Has(left, {"OpenDesiredByRemote"}) /\ left = <<>>
  <2>1. Proper(g, e)
    BY <1>5, <1>6, <1>7, <1>9, OfflineProper DEF RequestedIn
  <2> QED BY <1>7, <2>1
<1> QED BY <1>4, <1>8, <1>9

\* The last open connection is gone, or another one takes its place.
LEMMA ReplacementTells ==
  ASSUME NEW left, NEW pos
  PROVE  Tells(TRUE, Has(left, {"Open"}), Replacement(left, pos))
BY DEF Replacement, Tells, Has

LEMMA ClosedEnabledProper ==
  ASSUME NEW v, Usual(v), v.state = "Enabled", NEW c, NEW left \in Seq(Connection),
         Has(left, {"Open"}) => Has(v.conns, {"Open"}),
         "Open" \notin StateOf(v.conns, c) /\ Has(v.conns, {"Open"}) => Has(left, {"Open"}),
         NEW e \in ClosedEnabled(v, c, left)
  PROVE  Proper(v, e)
<1> DEFINE x == Has(v.conns, {"Opening", "Open"})
           known == [v EXCEPT !.ok = v.ok /\ x]
           told == IF "Open" \in StateOf(v.conns, c) THEN Replacement(left, Position(v.conns, c)) ELSE <<>>
<1>1. x \in BOOLEAN /\ FreshDelay \in SUBSET Delay
  BY UsualTypes DEF Has
<1>2. Tells(OpenIn(v), Has(left, {"Open"}), told)
  <2>1. "Open" \in StateOf(v.conns, c) => Has(v.conns, {"Open"})
    BY HasOne, SMTT(30) DEF StateOf
  <2>2. CASE "Open" \in StateOf(v.conns, c)
    <3>1. Tells(TRUE, Has(left, {"Open"}), told)
      BY <2>2, ReplacementTells, Zenon
    <3>2. OpenIn(v)
      BY <2>1, <2>2 DEF OpenIn
    <3> HIDE DEF told
    <3> QED BY <3>1, <3>2 DEF Tells
  <2>3. CASE "Open" \notin StateOf(v.conns, c)
    BY <2>3 DEF OpenIn, Tells, Has
  <2> QED BY <2>2, <2>3
<1>3. /\ left = <<>> =>
           \E d \in FreshDelay :
              e = [Effect(Waits(known, "Backoff", <<>>, d)) EXCEPT !.tell = told, !.call = <<"dropped">>]
      /\ left # <<>> /\ ~Has(left, {"Opening", "Open"}) =>
           e = [Effect(Becomes(known, "Disabled", left, "none")) EXCEPT !.tell = told, !.call = <<"dropped">>]
      /\ left # <<>> /\ Has(left, {"Opening", "Open"}) =>
           e = [Effect([known EXCEPT !.conns = left]) EXCEPT !.tell = told]
  BY Zenon DEF ClosedEnabled, x
<1> HIDE DEF x, told
<1>4. /\ known \in Behaviour /\ known.state = v.state /\ known.conns = v.conns
      /\ (known.ok => v.ok)
  BY <1>1, UsualTypes, OkFields, SMTT(30)
<1> HIDE DEF known
<1>5. CASE left = <<>>
  <2>1. PICK d \in Delay :
          e = [Effect(Waits(known, "Backoff", <<>>, d)) EXCEPT !.tell = told, !.call = <<"dropped">>]
    BY <1>1, <1>3, <1>5, ZenonT(60)
  <2> DEFINE w == Waits(known, "Backoff", <<>>, d)
  <2>2. w \in Behaviour /\ w.state = "Backoff" /\ w.conns = <<>> /\ w.ok = known.ok
    BY <1>4, EmptyWaits, StatesDiffer
  <2> HIDE DEF w
  <2>3. e.b = w /\ e.tell = told /\ e.call = <<"dropped">>
    BY <2>1 DEF Effect, w
  <2>4. ~Has(w.conns, {"Open"}) /\ ~Has(left, {"Open"})
    BY <1>5, <2>2, NoConns, SMTT(30)
  <2>5. Tells(OpenIn(v), OpenIn(w), told)
    BY <1>2, <2>2, <2>4, SMTT(30) DEF OpenIn, Tells
  <2> QED BY <1>4, <2>2, <2>3, <2>4, <2>5, SMTT(30)
          DEF Proper, Fine, CallTyped, CallFits, RequestedIn, OpenOnlyEnabled
<1>6. CASE left # <<>> /\ ~Has(left, {"Opening", "Open"})
  <2> DEFINE w == Becomes(known, "Disabled", left, "none")
  <2>1. w \in Behaviour /\ w.state = "Disabled" /\ w.conns = left /\ w.ok = known.ok
    BY <1>4, BecomesFields, StatesDiffer, SMTT(30)
  <2>2. e.b = w /\ e.tell = told /\ e.call = <<"dropped">>
    BY <1>3, <1>6, Zenon DEF Effect
  <2> HIDE DEF w
  <2>3. ~Has(left, {"Open"})
    BY <1>6, HasOne, SMTT(30)
  <2>4. Tells(OpenIn(v), OpenIn(w), told)
    BY <1>2, <2>1, <2>3, SMTT(30) DEF OpenIn, Tells
  <2> QED BY <1>4, <2>1, <2>2, <2>3, <2>4
          DEF Proper, Fine, CallTyped, CallFits, RequestedIn, OpenOnlyEnabled
<1>7. CASE left # <<>> /\ Has(left, {"Opening", "Open"})
  <2> DEFINE w == [known EXCEPT !.conns = left]
  <2>1. w \in Behaviour /\ w.state = v.state /\ w.conns = left /\ w.ok = known.ok
    BY <1>4, ConnsFields, SMTT(30)
  <2>2. e.b = w /\ e.tell = told /\ e.call = <<>>
    BY <1>3, <1>7, ZenonT(60) DEF Effect
  <2> HIDE DEF w
  <2>3. Tells(OpenIn(v), OpenIn(w), told)
    BY <1>2, <2>1 DEF OpenIn, Tells
  <2> QED BY <1>4, <2>1, <2>2, <2>3
          DEF Proper, Fine, CallTyped, CallFits, RequestedIn, OpenOnlyEnabled
<1> QED BY <1>5, <1>6, <1>7

LEMMA ConnectionClosedProper ==
  ASSUME NEW v, Usual(v), NEW c \in Conn, NEW e \in ConnectionClosed(v, c)
  PROVE  Proper(v, e)
<1> DEFINE left == Drops(v.conns, c)
           x == left # v.conns
           known == [v EXCEPT !.ok = v.ok /\ x]
<1>1. v \in Behaviour /\ v.conns \in Seq(Connection)
  BY UsualTypes
<1>2. /\ left \in Seq(Connection)
      /\ Has(left, {"Open"}) => Has(v.conns, {"Open"})
      /\ "Open" \notin StateOf(v.conns, c) /\ Has(v.conns, {"Open"}) => Has(left, {"Open"})
  BY <1>1, DropsConns
<1>3. x \in BOOLEAN
  OBVIOUS
<1>4. /\ v.state = "Disabled" => e \in ClosedDisabled(known, left)
      /\ v.state = "DisabledPendingEnable" => e \in ClosedPending(known, left)
      /\ v.state = "Incoming" => e \in ClosedIncoming(known, left)
      /\ v.state = "Enabled" => e \in ClosedEnabled(known, c, left)
      /\ v.state \notin {"Disabled", "DisabledPendingEnable", "Incoming", "Enabled"} =>
           e = Effect(Poisoned(v))
  BY DEF ConnectionClosed
<1> HIDE DEF left, x
<1>5. /\ known \in Behaviour /\ known.state = v.state /\ known.conns = v.conns
      /\ (known.ok => v.ok)
  BY <1>1, <1>3, OkFields
<1> HIDE DEF known
<1>6. Usual(known) /\ \A f : Proper(known, f) => Proper(v, f)
  BY <1>5, ProperTransfer
<1>7. CASE v.state = "Disabled"
  BY <1>2, <1>4, <1>5, <1>6, <1>7, ClosedDisabledProper
<1>8. CASE v.state = "DisabledPendingEnable"
  BY <1>2, <1>4, <1>5, <1>6, <1>8, ClosedPendingProper, SMTT(30)
<1>9. CASE v.state = "Incoming"
  BY <1>2, <1>4, <1>5, <1>6, <1>9, ClosedIncomingProper
<1>10. CASE v.state = "Enabled"
  BY <1>2, <1>4, <1>5, <1>6, <1>10, ClosedEnabledProper
<1>11. CASE v.state \notin {"Disabled", "DisabledPendingEnable", "Incoming", "Enabled"}
  BY <1>1, <1>4, <1>11, Errors, ErrorProper
<1> QED BY <1>7, <1>8, <1>9, <1>10, <1>11, SMTT(30)

LEMMA DialFailureProper ==
  ASSUME NEW v, Usual(v), NEW e \in DialFailure(v)
  PROVE  Proper(v, e)
<1>1. v \in Behaviour /\ FreshDelay \in SUBSET Delay /\ (v.ok => OpenOnlyEnabled(v))
  BY UsualTypes, SMTT(30)
<1>2. CASE v.state \in {"Requested", "PendingRequest"}
  <2>1. PICK d \in Delay :
          e = [Effect(Waits(v, "Backoff", <<>>, d)) EXCEPT !.call = <<"dropped">>]
    BY <1>1, <1>2 DEF DialFailure
  <2> DEFINE w == Waits(v, "Backoff", <<>>, d)
  <2>2. w \in Behaviour /\ w.state = "Backoff" /\ w.conns = <<>> /\ w.ok = v.ok
    BY <1>1, EmptyWaits, StatesDiffer
  <2>3. e.b = w /\ e.tell = <<>> /\ e.call = <<"dropped">>
    BY <2>1 DEF Effect
  <2> HIDE DEF w
  <2>4. Fine(v, e)
    BY <1>2, <2>2, <2>3, CalmFine, NoConns
  <2> QED BY <1>2, <2>2, <2>3, <2>4 DEF Proper, CallTyped, CallFits, RequestedIn
<1>3. CASE v.state \notin {"Requested", "PendingRequest"}
  <2> DEFINE x == v.state # "Poisoned"
             w == [v EXCEPT !.ok = v.ok /\ x]
  <2>1. e = Effect(w)
    BY <1>3 DEF DialFailure
  <2>2. x \in BOOLEAN
    OBVIOUS
  <2> HIDE DEF x
  <2>3. w \in Behaviour /\ w.state = v.state /\ w.conns = v.conns /\ (w.ok => v.ok)
    BY <1>1, <2>2, OkFields
  <2> HIDE DEF w
  <2>4. CASE v.ok
    <3>1. /\ OpenOnlyEnabled(w) /\ (OpenIn(w) <=> OpenIn(v))
          /\ RequestedIn(w) <=> RequestedIn(v)
      BY <1>1, <2>3, <2>4 DEF OpenOnlyEnabled, OpenIn, RequestedIn
    <3> QED BY <2>1, <2>3, <3>1, QuietProper
  <2>5. CASE ~v.ok
    BY <1>1, <2>1, <2>3, <2>5, ErrorProper, SMTT(30)
  <2> QED BY <2>4, <2>5
<1> QED BY <1>2, <1>3

-----------------------------------------------------------------------------
(***************************************************************************)
(* The events of the handlers                                              *)
(***************************************************************************)
\* The state stays, and so does whether a connection is open.
LEMMA StillProper ==
  ASSUME NEW v, Usual(v), NEW e, e.tell = <<>>, e.call = <<>>, e.b \in Behaviour,
         e.b.ok => v.ok, e.b.state = v.state,
         Has(e.b.conns, {"Open"}) <=> Has(v.conns, {"Open"})
  PROVE  Proper(v, e)
BY DEF Proper, Fine, CallTyped, CallFits, Usual, OpenOnlyEnabled, OpenIn, Tells, RequestedIn

LEMMA InStateOne ==
  ASSUME NEW v, NEW c, NEW states
  PROVE  /\ InState(v, c, states) \in BOOLEAN
         /\ InState(v, c, states) =>
              \E k \in DOMAIN v.conns : v.conns[k].id = c /\ v.conns[k].state \in states
BY DEF InState, StateOf

LEMMA ActiveFields ==
  ASSUME NEW v \in Behaviour
  PROVE  LET w == AssertActive(v) IN
         /\ w \in Behaviour /\ w.state = v.state /\ w.conns = v.conns
         /\ w.ok => v.ok
<1>1. Has(v.conns, {"Opening", "Open"}) \in BOOLEAN
  BY DEF Has
<1> QED BY <1>1, AssertsFields DEF AssertActive

\* A connection turns into a state that is not Open, from one that is not.
LEMMA TurnStill ==
  ASSUME NEW v, Usual(v), NEW w \in Behaviour, w.state = v.state, w.conns = v.conns, w.ok => v.ok,
         NEW c, NEW from, NEW to \in ConnectionState, from # "Open", to # "Open"
  PROVE  Proper(v, Effect([w EXCEPT !.conns = Turn(v.conns, {c}, from, to)]))
<1> DEFINE left == Turn(v.conns, {c}, from, to)
           u == [w EXCEPT !.conns = left]
<1>1. left \in Seq(Connection) /\ (Has(left, {"Open"}) <=> Has(v.conns, {"Open"}))
  BY UsualTypes, TurnConns, TurnOther
<1> HIDE DEF left
<1>2. u \in Behaviour /\ u.state = v.state /\ u.conns = left /\ u.ok = w.ok
  BY <1>1, ConnsFields
<1> HIDE DEF u
<1>3. Proper(v, Effect(u))
  BY <1>1, <1>2, EffectFields, StillProper
<1> QED BY <1>3 DEF u, left

LEMMA EnableProper ==
  ASSUME NEW v, Usual(v), RequestedIn(v), NEW w \in Behaviour, w.state = v.state,
         w.conns = v.conns, w.ok => v.ok, v.state # "Enabled" => ~v.ok \/ ~Has(v.conns, {"Open"}), NEW c
  PROVE  Proper(v, Enable(w, c))
<1> DEFINE e == Enable(w, c)
<1>1. /\ e.b \in Behaviour /\ e.b.state = "Enabled" /\ e.b.ok = w.ok
      /\ Has(e.b.conns, {"Open"}) <=> Has(w.conns, {"Open"})
      /\ e.tell = <<>> /\ e.call = <<>>
  BY EnableEffect, SMTT(30)
<1> HIDE DEF e
<1>2. Proper(v, e)
  BY <1>1 DEF Proper, Fine, CallTyped, CallFits, Usual, OpenOnlyEnabled, OpenIn, Tells, RequestedIn
<1> QED BY <1>2, SMTT(30) DEF e

LEMMA WantedProper ==
  ASSUME NEW v, Usual(v), v.state = "Disabled", NEW c, NEW i \in Index
  PROVE  Proper(v, [Effect([v EXCEPT !.state = "Incoming",
                                     !.conns = Turn(v.conns, {c}, "Closed", "OpenDesiredByRemote"),
                                     !.incoming[i] = "alive"]) EXCEPT !.call = <<"incoming", i>>])
<1> DEFINE left == Turn(v.conns, {c}, "Closed", "OpenDesiredByRemote")
           u == [v EXCEPT !.state = "Incoming", !.conns = left, !.incoming[i] = "alive"]
           e == [Effect(u) EXCEPT !.call = <<"incoming", i>>]
<1>1. left \in Seq(Connection) /\ (Has(left, {"Open"}) <=> Has(v.conns, {"Open"}))
  BY UsualTypes, TurnConns, TurnOther, StatesDiffer
<1> HIDE DEF left
<1>2. u \in Behaviour /\ u.state = "Incoming" /\ u.conns = left /\ u.ok = v.ok
  BY <1>1, UsualTypes, ZenonT(60) DEF Behaviour, PeerState
<1>3. e.b = u /\ e.tell = <<>> /\ e.call = <<"incoming", i>>
  BY DEF Effect
<1> HIDE DEF u, e
<1>4. Fine(v, e)
  BY <1>1, <1>2, <1>3, CalmFine
<1>5. e.call \in Incomings
  BY <1>3 DEF Incomings
<1>6. CallFits(v, e)
  BY <1>2, <1>3, <1>5 DEF CallFits, RequestedIn
<1>7. Proper(v, e)
  BY <1>4, <1>5, <1>6 DEF Proper, CallTyped
<1> QED BY <1>7 DEF e, u, left

LEMMA OpenDesiredByRemoteProper ==
  ASSUME NEW v, Usual(v), NEW c, NEW e \in OpenDesiredByRemote(v, c)
  PROVE  Proper(v, e)
<1> DEFINE closed == InState(v, c, {"Closed"})
           x == v.state = "Incoming" => Has(v.conns, {"OpenDesiredByRemote"})
           known == Asserts(v, x)
           y == InState(v, c, {"OpeningThenClosing", "Closing"})
           z == InState(v, c, {"OpenDesiredByRemote", "Closing", "Opening"})
<1>1. x \in BOOLEAN /\ y \in BOOLEAN /\ z \in BOOLEAN /\ v \in Behaviour
  BY UsualTypes, InStateOne DEF Has
<1>2. /\ known \in Behaviour /\ known.state = v.state /\ known.conns = v.conns
      /\ (known.ok => v.ok)
  BY <1>1, AssertsFields, Zenon
<1>3. CASE v.state = "Incoming" /\ closed
  <2>1. e = Effect([known EXCEPT !.conns = Turn(v.conns, {c}, "Closed", "OpenDesiredByRemote")])
    BY <1>3 DEF OpenDesiredByRemote
  <2> HIDE DEF known
  <2> QED BY <1>2, <2>1, TurnStill, StatesDiffer, Zenon
<1>4. CASE v.state = "Enabled" /\ closed
  <2>1. e = Enable(AssertActive(v), c)
    BY <1>4 DEF OpenDesiredByRemote
  <2>2. LET w == AssertActive(v) IN
        w \in Behaviour /\ w.state = v.state /\ w.conns = v.conns /\ (w.ok => v.ok)
    BY <1>1, ActiveFields
  <2> QED BY <1>4, <2>1, <2>2, EnableProper DEF RequestedIn
<1>5. CASE v.state = "Enabled" /\ ~closed
  <2>0. PICK u \in DebugAssert(v, z) : e = Effect(AssertActive(u))
    BY <1>5 DEF OpenDesiredByRemote
  <2> DEFINE w == AssertActive(u)
  <2>1. e = Effect(w)
    BY <2>0
  <2>2. u \in Behaviour /\ u.state = v.state /\ u.conns = v.conns /\ (u.ok => v.ok)
    BY <1>1, <2>0, AssertsFields DEF DebugAssert
  <2>3. w \in Behaviour /\ w.state = v.state /\ w.conns = v.conns /\ (w.ok => v.ok)
    BY <2>2, ActiveFields
  <2> HIDE DEF w
  <2> QED BY <2>1, <2>3, EffectFields, StillProper
<1>6. CASE v.state = "DisabledPendingEnable" /\ closed
  <2>1. e = Enable(v, c)
    BY <1>6 DEF OpenDesiredByRemote
  <2>2. v.state # "Enabled" => ~v.ok \/ ~Has(v.conns, {"Open"})
    BY SMTT(30) DEF Usual, OpenOnlyEnabled
  <2> QED BY <1>1, <1>6, <2>1, <2>2, EnableProper DEF RequestedIn
<1>7. CASE v.state = "Disabled" /\ closed
  <2>1. PICK i \in FreshIndex(v) :
          e = [Effect([v EXCEPT !.state = "Incoming",
                                !.conns = Turn(v.conns, {c}, "Closed", "OpenDesiredByRemote"),
                                !.incoming[i] = "alive"]) EXCEPT !.call = <<"incoming", i>>]
    BY <1>7, Zenon DEF OpenDesiredByRemote
  <2>2. i \in Index
    BY DEF FreshIndex
  <2> QED BY <1>7, <2>1, <2>2, WantedProper, ZenonT(60)
<1>8. CASE v.state \in {"Incoming", "DisabledPendingEnable", "Disabled"} /\ ~closed
  <2> DEFINE w == Asserts(known, y)
  <2>1. e = Effect(w)
    BY <1>8 DEF OpenDesiredByRemote
  <2> HIDE DEF known, y
  <2>2. w \in Behaviour /\ w.state = v.state /\ w.conns = v.conns /\ (w.ok => v.ok)
    BY <1>1, <1>2, AssertsFields
  <2> HIDE DEF w
  <2> QED BY <2>1, <2>2, EffectFields, StillProper
<1>9. CASE v.state \notin {"Incoming", "DisabledPendingEnable", "Disabled", "Enabled"}
  <2>1. e = Effect(Poisoned(v))
    BY <1>9, Zenon DEF OpenDesiredByRemote
  <2> QED BY <1>1, <2>1, Errors, ErrorProper, SMTT(30)
<1> QED BY <1>3, <1>4, <1>5, <1>6, <1>7, <1>8, <1>9, SMTT(30)

LEMMA CloseDesiredProper ==
  ASSUME NEW v, Usual(v), NEW c
  PROVE  Proper(v, CloseDesired(v, c))
<1> DEFINE e == CloseDesired(v, c)
           left == Turn(v.conns, {c}, "Open", "Closing")
           x == InState(v, c, {"Open"})
           u == AssertActive(Asserts(v, x))
           known == [u EXCEPT !.conns = left]
           told == Replacement(left, Position(left, c))
           close == [Effect(known) EXCEPT !.close = {c}, !.tell = told]
           closing == InState(v, c, {"Closing"})
           active == Has(left, {"Opening", "Open"})
<1>1. v \in Behaviour /\ v.conns \in Seq(Connection) /\ x \in BOOLEAN
  BY UsualTypes, InStateOne
<1>2. /\ v.state = "Enabled" /\ closing => e = Effect(AssertActive(v))
      /\ v.state = "Enabled" /\ ~closing /\ active => e = close
      /\ v.state = "Enabled" /\ ~closing /\ ~active =>
           e = [close EXCEPT !.b = Becomes(known, "Disabled", left, "none"), !.call = <<"dropped">>]
      /\ v.state \in {"Disabled", "DisabledPendingEnable"} => e = Effect(v)
      /\ v.state \notin {"Enabled", "Disabled", "DisabledPendingEnable"} => e = Effect(Poisoned(v))
  BY DEF CloseDesired
<1>3. left \in Seq(Connection)
  BY <1>1, TurnConns, StatesDiffer
<1>4. Tells(TRUE, Has(left, {"Open"}), told)
  BY ReplacementTells, Zenon
<1>5. x => Has(v.conns, {"Open"})
  BY InStateOne, HasOne
<1>6. ~active => ~Has(left, {"Open"})
  BY HasOne
<1> HIDE DEF e, left, x, told
<1>7. u \in Behaviour /\ u.state = v.state /\ u.conns = v.conns /\ (u.ok => v.ok /\ x)
  <2> DEFINE a == Asserts(v, x)
  <2>1. /\ a \in Behaviour /\ a.state = v.state /\ a.conns = v.conns
        /\ a.ok => v.ok /\ x
    BY <1>1, AssertsFields
  <2> HIDE DEF a
  <2>2. LET w == AssertActive(a) IN
        w \in Behaviour /\ w.state = v.state /\ w.conns = v.conns /\ (w.ok => v.ok /\ x)
    BY <2>1, ActiveFields
  <2> QED BY <2>2 DEF a
<1> HIDE DEF u
<1>8. known \in Behaviour /\ known.state = v.state /\ known.conns = left /\ (known.ok => v.ok /\ x)
  BY <1>3, <1>7, ConnsFields
<1> HIDE DEF known
<1>9. close.b = known /\ close.tell = told /\ close.call = <<>>
  BY DEF Effect
<1>10. CASE v.state = "Enabled" /\ closing
  <2> DEFINE w == AssertActive(v)
  <2>1. w \in Behaviour /\ w.state = v.state /\ w.conns = v.conns /\ (w.ok => v.ok)
    BY <1>1, ActiveFields
  <2>2. e = Effect(w)
    BY <1>2, <1>10
  <2> HIDE DEF w
  <2>3. Proper(v, e)
    BY <2>1, <2>2, EffectFields, StillProper
  <2> QED BY <2>3 DEF e
<1>11. CASE v.state = "Enabled" /\ ~closing /\ active
  <2>1. e.b = known /\ e.tell = told /\ e.call = <<>>
    BY <1>2, <1>9, <1>11, ZenonT(60)
  <2>2. known.ok => Tells(OpenIn(v), OpenIn(known), told)
    BY <1>4, <1>5, <1>8, <1>11 DEF OpenIn, Tells
  <2>3. Proper(v, e)
    BY <1>8, <1>11, <2>1, <2>2 DEF Proper, Fine, CallTyped, CallFits, RequestedIn, OpenOnlyEnabled
  <2> QED BY <2>3 DEF e
<1>12. CASE v.state = "Enabled" /\ ~closing /\ ~active
  <2> DEFINE w == Becomes(known, "Disabled", left, "none")
  <2>1. w \in Behaviour /\ w.state = "Disabled" /\ w.conns = left /\ w.ok = known.ok
    BY <1>3, <1>8, BecomesFields, StatesDiffer, SMTT(30)
  <2>2. e.b = w /\ e.tell = told /\ e.call = <<"dropped">>
    BY <1>2, <1>12, ZenonT(60) DEF Effect
  <2> HIDE DEF w
  <2>3. w.ok => Tells(OpenIn(v), OpenIn(w), told)
    BY <1>4, <1>5, <1>6, <1>8, <1>12, <2>1 DEF OpenIn, Tells
  <2>4. Proper(v, e)
    BY <1>6, <1>8, <1>12, <2>1, <2>2, <2>3, ZenonT(60)
    DEF Proper, Fine, CallTyped, CallFits, RequestedIn, OpenOnlyEnabled
  <2> QED BY <2>4 DEF e
<1>13. CASE v.state \in {"Disabled", "DisabledPendingEnable"}
  <2>1. Proper(v, e)
    BY <1>1, <1>2, <1>13, EffectFields, StillProper
  <2> QED BY <2>1 DEF e
<1>14. CASE v.state \notin {"Enabled", "Disabled", "DisabledPendingEnable"}
  <2>1. Proper(v, e)
    BY <1>1, <1>2, <1>14, Errors, ErrorProper
  <2> QED BY <2>1 DEF e
<1> QED BY <1>10, <1>11, <1>12, <1>13, <1>14

LEMMA CloseResultProper ==
  ASSUME NEW v, Usual(v), NEW c
  PROVE  Proper(v, CloseResult(v, c))
<1> DEFINE x == v.state \in HasConnections /\ InState(v, c, {"Closing"})
           w == Asserts(v, x)
<1>1. v \in Behaviour /\ x \in BOOLEAN
  BY UsualTypes, InStateOne
<1> HIDE DEF x
<1>2. w \in Behaviour /\ w.state = v.state /\ w.conns = v.conns /\ (w.ok => v.ok)
  BY <1>1, AssertsFields
<1>3. CloseResult(v, c) = Effect([w EXCEPT !.conns = Turn(v.conns, {c}, "Closing", "Closed")])
  <2>1. CloseResult(v, c) = Effect([w EXCEPT !.conns = Turn(w.conns, {c}, "Closing", "Closed")])
    BY DEF CloseResult, x
  <2> QED BY <1>2, <2>1
<1> HIDE DEF w
<1>4. Proper(v, Effect([w EXCEPT !.conns = Turn(v.conns, {c}, "Closing", "Closed")]))
  BY <1>2, TurnStill, StatesDiffer, Zenon
<1> QED BY <1>3, <1>4, SMTT(30)

LEMMA OpenResultOkProper ==
  ASSUME NEW v, Usual(v), NEW c
  PROVE  Proper(v, OpenResultOk(v, c))
<1>1. v \in Behaviour /\ v.conns \in Seq(Connection)
  BY UsualTypes
<1>2. CASE v.state = "Enabled" /\ InState(v, c, {"Opening"})
  <2> DEFINE e == OpenResultOk(v, c)
             left == Turn(v.conns, {c}, "Opening", "Open")
             w == [v EXCEPT !.conns = left]
             told == IF Has(v.conns, {"Open"}) THEN <<>> ELSE <<[event |-> "Open", sink |-> c]>>
  <2>1. left \in Seq(Connection) /\ Has(left, {"Open"})
    BY <1>1, <1>2, InStateOne, TurnConns, TurnOpen, StatesDiffer, Zenon
  <2>2. e = [Effect(w) EXCEPT !.tell = told]
    BY <1>2 DEF OpenResultOk
  <2> HIDE DEF e, left
  <2>3. w \in Behaviour /\ w.state = v.state /\ w.conns = left /\ w.ok = v.ok
    BY <1>1, <2>1, ConnsFields
  <2> HIDE DEF w
  <2>4. Tells(OpenIn(v), OpenIn(w), told)
    BY <1>2, <2>1, <2>3 DEF Tells, OpenIn
  <2> HIDE DEF told
  <2>5. e.b = w /\ e.tell = told /\ e.call = <<>>
    BY <2>2, SMTT(30) DEF Effect
  <2>6. Proper(v, e)
    BY <1>2, <2>3, <2>4, <2>5, ZenonT(60) DEF Proper, Fine, CallTyped, CallFits, RequestedIn, OpenOnlyEnabled
  <2> QED BY <2>6 DEF e
<1>3. CASE ~(v.state = "Enabled" /\ InState(v, c, {"Opening"}))
  <2> DEFINE u == IF v.state = "Enabled" THEN AssertActive(v) ELSE v
             x == v.state \in HasConnections /\ InState(v, c, {"OpeningThenClosing"})
             w == Asserts(u, x)
  <2>1. OpenResultOk(v, c) = Effect([w EXCEPT !.conns = Turn(w.conns, {c}, "OpeningThenClosing", "Closing")])
    BY <1>3 DEF OpenResultOk
  <2>2. x \in BOOLEAN
    BY InStateOne
  <2>3. u \in Behaviour /\ u.state = v.state /\ u.conns = v.conns /\ (u.ok => v.ok)
    BY <1>1, ActiveFields, SMTT(30)
  <2> HIDE DEF x, u
  <2>4. w \in Behaviour /\ w.state = v.state /\ w.conns = v.conns /\ (w.ok => v.ok)
    BY <2>2, <2>3, AssertsFields
  <2> HIDE DEF w
  <2>5. OpenResultOk(v, c) = Effect([w EXCEPT !.conns = Turn(v.conns, {c}, "OpeningThenClosing", "Closing")])
    BY <2>1, <2>4
  <2>6. Proper(v, Effect([w EXCEPT !.conns = Turn(v.conns, {c}, "OpeningThenClosing", "Closing")]))
    BY <2>4, TurnStill, StatesDiffer, ZenonT(60)
  <2> QED BY <2>5, <2>6
<1> QED BY <1>2, <1>3

LEMMA OpenResultErrProper ==
  ASSUME NEW v, Usual(v), NEW c
  PROVE  Proper(v, OpenResultErr(v, c))
<1> DEFINE e == OpenResultErr(v, c)
           failed == Turn(v.conns, {c}, "Opening", "Closed")
           opening == v.state = "Enabled" /\ InState(v, c, {"Opening"})
<1>1. v \in Behaviour /\ v.conns \in Seq(Connection)
  BY UsualTypes
<1>2. CASE opening /\ ~Has(failed, {"Opening", "Open"})
  <2> DEFINE w == Becomes(v, "Disabled", failed, "later")
  <2>1. /\ failed \in Seq(Connection) /\ ~Has(failed, {"Open"}) /\ ~Has(v.conns, {"Open"})
    BY <1>1, <1>2, HasOne, TurnConns, TurnOther, StatesDiffer
  <2>2. e.b = w /\ e.tell = <<>> /\ e.call = <<"dropped">>
    BY <1>2, SMTT(30) DEF OpenResultErr, Effect
  <2> HIDE DEF e, failed
  <2>3. w \in Behaviour /\ w.state = "Disabled" /\ w.conns = failed /\ w.ok = v.ok
    BY <1>1, <2>1, BecomesFields, StatesDiffer
  <2> HIDE DEF w
  <2>4. Proper(v, e)
    BY <1>2, <2>1, <2>2, <2>3
    DEF Proper, Fine, CallTyped, CallFits, RequestedIn, OpenOnlyEnabled, OpenIn, Tells
  <2> QED BY <2>4 DEF e
<1>3. CASE opening /\ Has(failed, {"Opening", "Open"})
  <2>1. e = Effect([v EXCEPT !.conns = Turn(v.conns, {c}, "Opening", "Closed")])
    BY <1>3 DEF OpenResultErr
  <2>2. Proper(v, Effect([v EXCEPT !.conns = Turn(v.conns, {c}, "Opening", "Closed")]))
    BY <1>1, TurnStill, StatesDiffer, ZenonT(60)
  <2> QED BY <2>1, <2>2
<1>4. CASE v.state \in HasConnections /\ ~opening
  <2> DEFINE u == IF v.state = "Enabled" THEN AssertActive(v) ELSE v
             x == InState(v, c, {"OpeningThenClosing"})
             w == Asserts(u, x)
  <2>1. e = Effect([w EXCEPT !.conns = Turn(v.conns, {c}, "OpeningThenClosing", "Closing")])
    BY <1>4 DEF OpenResultErr
  <2>2. x \in BOOLEAN
    BY InStateOne
  <2>3. u \in Behaviour /\ u.state = v.state /\ u.conns = v.conns /\ (u.ok => v.ok)
    BY <1>1, ActiveFields
  <2> HIDE DEF x, u, e
  <2>4. w \in Behaviour /\ w.state = v.state /\ w.conns = v.conns /\ (w.ok => v.ok)
    BY <2>2, <2>3, AssertsFields
  <2> HIDE DEF w
  <2>5. Proper(v, Effect([w EXCEPT !.conns = Turn(v.conns, {c}, "OpeningThenClosing", "Closing")]))
    BY <2>4, TurnStill, StatesDiffer, Zenon
  <2> QED BY <2>1, <2>5 DEF e
<1>5. CASE v.state \notin HasConnections
  <2>1. e = Effect(Poisoned(v))
    BY <1>5 DEF OpenResultErr, HasConnections
  <2> QED BY <1>1, <2>1, Errors, ErrorProper
<1> QED BY <1>2, <1>3, <1>4, <1>5

LEMMA NotificationProper ==
  ASSUME NEW v, Usual(v), NEW c
  PROVE  Proper(v, Notification(v, c))
<1> DEFINE e == Notification(v, c)
           told == IF v.state = "Enabled" /\ Has(v.conns, {"Open"}) THEN <<[event |-> "Notification"]>>
                   ELSE <<>>
<1>1. e.b = v /\ e.tell = told /\ e.call = <<>>
  BY DEF Notification, Effect
<1>2. Tells(OpenIn(v), OpenIn(v), told)
  BY SMTT(30) DEF Tells, OpenIn
<1> HIDE DEF e, told
<1>3. Proper(v, e)
  BY <1>1, <1>2, SMTT(30) DEF Proper, Fine, CallTyped, CallFits, Usual
<1> QED BY <1>3 DEF e

\* A delay that is over enables a peer or forgets it, and calls nobody.
LEMMA DelayOverProper ==
  ASSUME NEW v, Usual(v), NEW d \in Delay
  PROVE  Proper(v, DelayOver(v, d)) /\ (DelayOver(v, d).b.ok => DelayOver(v, d).call = <<>>)
<1> DEFINE e == DelayOver(v, d)
           over == [v EXCEPT !.delays = @ \ {d}]
<1>1. over \in Behaviour /\ over.state = v.state /\ over.conns = v.conns /\ over.ok = v.ok
  BY UsualTypes DEF Behaviour
<1>2. /\ v.timer = d /\ v.state = "Backoff" => e = Effect(Forgotten(over))
      /\ v.timer = d /\ v.state = "PendingRequest" => e = Effect(Becomes(over, "Requested", <<>>, "none"))
      /\ v.timer = d /\ v.state = "DisabledPendingEnable" /\ Has(v.conns, {"Closed"}) =>
           e = Enable(over, FirstWith(v.conns, "Closed"))
      /\ v.timer = d /\ v.state = "DisabledPendingEnable" /\ ~Has(v.conns, {"Closed"}) =>
           e = Effect([over EXCEPT !.until = "later", !.delays = @ \cup {d}])
      /\ ~(v.timer = d /\ v.state \in {"Backoff", "PendingRequest", "DisabledPendingEnable"}) =>
           e = Effect(over)
  BY DEF DelayOver
<1> HIDE DEF e, over
<1>3. CASE v.timer = d /\ v.state = "Backoff"
  <2> DEFINE w == Becomes(over, "Missing", <<>>, "none")
  <2>1. w \in Behaviour /\ w.state = "Missing" /\ w.conns = <<>> /\ w.ok = v.ok
    BY <1>1, EmptyFields, StatesDiffer
  <2>2. e = Effect(w)
    BY <1>2, <1>3, SMTT(30) DEF Forgotten
  <2> HIDE DEF w
  <2>3. Fine(v, e) /\ e.call = <<>> /\ e.b = w
    BY <1>3, <2>1, <2>2, EffectFields, CalmFine, NoConns
  <2>4. Proper(v, e)
    BY <1>3, <2>1, <2>3, SMTT(30) DEF Proper, CallTyped, CallFits, RequestedIn
  <2> QED BY <2>3, <2>4, SMTT(30) DEF e
<1>4. CASE v.timer = d /\ v.state = "PendingRequest"
  <2> DEFINE w == Becomes(over, "Requested", <<>>, "none")
  <2>1. w \in Behaviour /\ w.state = "Requested" /\ w.conns = <<>> /\ w.ok = v.ok
    BY <1>1, EmptyFields, StatesDiffer
  <2>2. e = Effect(w)
    BY <1>2, <1>4
  <2> HIDE DEF w
  <2>3. Fine(v, e) /\ e.call = <<>> /\ e.b = w
    BY <1>4, <2>1, <2>2, EffectFields, CalmFine, NoConns, SMTT(30)
  <2>4. Proper(v, e)
    BY <1>4, <2>1, <2>3 DEF Proper, CallTyped, CallFits, RequestedIn
  <2> QED BY <2>3, <2>4 DEF e
<1>5. CASE v.timer = d /\ v.state = "DisabledPendingEnable" /\ Has(v.conns, {"Closed"})
  <2> DEFINE c == FirstWith(v.conns, "Closed")
  <2>1. e = Enable(over, c)
    BY <1>2, <1>5
  <2> HIDE DEF c
  <2>2. v.state # "Enabled" => ~v.ok \/ ~Has(v.conns, {"Open"})
    BY DEF Usual, OpenOnlyEnabled
  <2>3. Proper(v, e)
    BY <1>1, <1>5, <2>1, <2>2, EnableProper DEF RequestedIn
  <2>4. e.call = <<>>
    BY <1>1, <2>1, EnableEffect
  <2> QED BY <2>3, <2>4 DEF e
<1>6. CASE v.timer = d /\ v.state = "DisabledPendingEnable" /\ ~Has(v.conns, {"Closed"})
  <2> DEFINE w == [over EXCEPT !.until = "later", !.delays = @ \cup {d}]
  <2>1. e = Effect(w)
    BY <1>2, <1>6
  <2>2. w \in Behaviour /\ w.state = v.state /\ w.conns = v.conns /\ w.ok = v.ok
    BY <1>1, Zenon DEF Behaviour, Instants
  <2> HIDE DEF w
  <2>3. Proper(v, e) /\ e.call = <<>>
    BY <2>1, <2>2, EffectFields, StillProper
  <2> QED BY <2>3 DEF e
<1>7. CASE ~(v.timer = d /\ v.state \in {"Backoff", "PendingRequest", "DisabledPendingEnable"})
  <2>1. Proper(v, e) /\ e.call = <<>>
    BY <1>1, <1>2, <1>7, EffectFields, StillProper
  <2> QED BY <2>1 DEF e
<1> QED BY <1>3, <1>4, <1>5, <1>6, <1>7

=============================================================================
