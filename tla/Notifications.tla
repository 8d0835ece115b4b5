--------------------------- MODULE Notifications ---------------------------
(***************************************************************************)
(* The network behaviour that keeps the substreams of notifications        *)
(* (client/network/src/protocol/notifications/behaviour.rs) between its    *)
(* four neighbours: libp2p, the handlers of the connections, the Peerset   *)
(* and the external API.  One peer and one set are modelled; others share  *)
(* no state with them.                                                     *)
(*                                                                         *)
(* Instants are compared with the present only, so a deadline is "later"   *)
(* or "past".  Ids of delays and indices of incoming connections are       *)
(* counters in the code; here they are used again when nothing refers to   *)
(* them any more.                                                          *)
(***************************************************************************)
EXTENDS PeersetLink, NotifsHandler, FiniteSets

CONSTANTS
  Conn,        \* connection ids
  Delay,       \* ids of delays
  MaxEvents,   \* bound on the events of a connection that wait to be read
  None

VARIABLES
  b,           \* the behaviour: the state of the peer with its connections,
               \* until (backoff_until or timer_deadline) and timer; incoming;
               \* delays; ok: whether an error or assertion was reached
  conn,        \* per connection: up, the handler, the commands and the events
               \* on their way
  ext,         \* what the external API was told: open, and the sink it has
  polling      \* poll is reading messages of the Peerset, until none waits

notifVars == <<b, conn, ext, polling, link>>

\* b.state is a PeerState, "Missing" for a peer without entry; each of b.conns has a
\* ConnectionState: Closed, Closing, Opening, OpeningThenClosing, OpenDesiredByRemote
\* or Open.

-----------------------------------------------------------------------------
(***************************************************************************)
(* Connections of the peer, in the order they were established             *)
(***************************************************************************)
Ids(cs, states) == {cs[k].id : k \in {j \in DOMAIN cs : cs[j].state \in states}}
Has(cs, states) == Ids(cs, states) # {}
StateOf(cs, c) == {cs[k].state : k \in {j \in DOMAIN cs : cs[j].id = c}}
Position(cs, c) == CHOOSE k \in DOMAIN cs : cs[k].id = c
FirstWith(cs, state) ==
  CHOOSE c \in Ids(cs, {state}) : \A d \in Ids(cs, {state}) : Position(cs, c) <= Position(cs, d)
Turn(cs, ids, from, to) ==
  [k \in DOMAIN cs |-> IF cs[k].id \in ids /\ cs[k].state = from THEN [cs[k] EXCEPT !.state = to] ELSE cs[k]]
TurnAll(cs, from, to) == Turn(cs, Conn, from, to)
Without(cs, k) == SubSeq(cs, 1, k - 1) \o SubSeq(cs, k + 1, Len(cs))
Drops(cs, c) == IF StateOf(cs, c) = {} THEN cs ELSE Without(cs, Position(cs, c))

IsOpen == b.state = "Enabled" /\ Has(b.conns, {"Open"})
IsRequested == b.state \in {"PendingRequest", "Requested", "DisabledPendingEnable", "Enabled"}

-----------------------------------------------------------------------------
(***************************************************************************)
(* What an operation of the behaviour does: the behaviour after it, the    *)
(* connections that are sent Open and Close, what the external API is      *)
(* told, and the call of the Peerset.                                      *)
(***************************************************************************)
Effect(v) == [b |-> v, open |-> {}, close |-> {}, tell |-> <<>>, call |-> <<>>]

\* The states without timer, and with the one of a running delay.
Becomes(v, state, conns, until) ==
  [v EXCEPT !.state = state, !.conns = conns, !.until = until, !.timer = None]
Waits(v, state, conns, timer) ==
  [v EXCEPT !.state = state, !.conns = conns, !.until = "later", !.timer = timer, !.delays = @ \cup {timer}]
FreshDelay == Delay \ b.delays
Forgotten(v) == Becomes(v, "Missing", <<>>, "none")
Unexpected(v) == [v EXCEPT !.ok = FALSE]
Poisoned(v) == [Unexpected(v) EXCEPT !.state = "Poisoned"]

\* The entry of `incoming` that stands for the Incoming state is given up.
Alive(v) == {i \in Index : v.incoming[i] = "alive"}
GiveUp(v) ==
  IF Alive(v) = {} THEN Unexpected(v)
  ELSE [v EXCEPT !.incoming = [i \in Index |-> IF i \in Alive(v) THEN "dead" ELSE v.incoming[i]]]

\* The substreams are closed: the external API is told at once.
CloseAll(v) ==
  [Effect(v) EXCEPT
     !.b = Becomes(v, "Disabled", TurnAll(TurnAll(v.conns, "Open", "Closing"), "Opening", "OpeningThenClosing"), "none"),
     !.close = Ids(v.conns, {"Open", "Opening"}),
     !.tell = IF Has(v.conns, {"Open"}) THEN <<[event |-> "Closed"]>> ELSE <<>>]

RejectAll(v) ==
  [Effect(v) EXCEPT
     !.b = Becomes(v, "Disabled", TurnAll(v.conns, "OpenDesiredByRemote", "Closing"), v.until),
     !.close = Ids(v.conns, {"OpenDesiredByRemote"})]

AcceptAll(v) ==
  [Effect(v) EXCEPT
     !.b = Becomes(v, "Enabled", TurnAll(v.conns, "OpenDesiredByRemote", "Opening"), "none"),
     !.open = Ids(v.conns, {"OpenDesiredByRemote"})]

\* One closed connection is opened.
Enable(v, c) ==
  [Effect(v) EXCEPT !.b = Becomes(v, "Enabled", Turn(v.conns, {c}, "Closed", "Opening"), "none"),
                    !.open = {c}]

-----------------------------------------------------------------------------
(***************************************************************************)
(* The external API                                                        *)
(***************************************************************************)
\* disconnect_peer
DisconnectPeer(v) ==
  CASE v.state = "DisabledPendingEnable" ->
         [Effect(Becomes(v, "Disabled", v.conns, v.until)) EXCEPT !.call = <<"dropped">>]
    [] v.state = "Enabled" -> [CloseAll(v) EXCEPT !.call = <<"dropped">>]
    [] v.state = "Incoming" -> IF Alive(v) = {} THEN Effect(Poisoned(v)) ELSE RejectAll(GiveUp(v))
    [] OTHER -> Effect(v)

-----------------------------------------------------------------------------
(***************************************************************************)
(* The messages of the Peerset.  Operations that start a delay are sets of *)
(* effects, one for each id it may have.                                   *)
(***************************************************************************)
ReportConnect(v) ==
  CASE v.state = "Missing" -> {Effect(Becomes(v, "Requested", <<>>, "none"))}
    [] v.state = "Backoff" ->
         {Effect(IF v.until = "later" THEN [v EXCEPT !.state = "PendingRequest"]
                 ELSE Becomes(v, "Requested", <<>>, "none"))}
    [] v.state = "Disabled" /\ v.until # "later" /\ Has(v.conns, {"Closed"}) ->
         {Enable([v EXCEPT !.ok = @ /\ ~Has(v.conns, {"Open"})], FirstWith(v.conns, "Closed"))}
    [] v.state = "Disabled" /\ v.until = "later" ->
         {Effect(Waits(v, "DisabledPendingEnable", v.conns, d)) : d \in FreshDelay}
    [] v.state = "Disabled" /\ v.until # "later" /\ ~Has(v.conns, {"Closed"}) ->
         {Effect([Waits(v, "DisabledPendingEnable", v.conns, d) EXCEPT
                    !.ok = @ /\ ~Has(v.conns, {"Open"}) /\ Has(v.conns, {"OpeningThenClosing", "Closing"})])
           : d \in FreshDelay}
    [] v.state = "Incoming" ->
         {AcceptAll([GiveUp(v) EXCEPT !.ok = @ /\ Has(v.conns, {"OpenDesiredByRemote"})])}
    [] OTHER -> {Effect(Unexpected(v))}

ReportDisconnect(v) ==
  CASE v.state \in {"Missing", "Disabled", "Backoff"} -> Effect(v)
    [] v.state = "DisabledPendingEnable" ->
         Effect([Becomes(v, "Disabled", v.conns, v.until) EXCEPT !.ok = @ /\ v.conns # <<>>])
    [] v.state = "Enabled" ->
         CloseAll([v EXCEPT !.ok = @ /\ Has(v.conns, {"Opening", "Open"})])
    [] v.state = "Requested" -> Effect(Forgotten(v))
    [] v.state = "PendingRequest" -> Effect([v EXCEPT !.state = "Backoff"])
    [] OTHER -> Effect(Unexpected(v))

\* An answer to `incoming`: obsolete if what it was about has gone.
ReportAccept(v, i) ==
  LET known == [v EXCEPT !.incoming[i] = "none"]
  IN  CASE v.incoming[i] = "none" -> Effect(Unexpected(v))
        [] v.incoming[i] = "dead" /\ v.state \in {"DisabledPendingEnable", "Enabled"} -> Effect(known)
        [] v.incoming[i] = "dead" /\ v.state \notin {"DisabledPendingEnable", "Enabled"} ->
             [Effect(known) EXCEPT !.call = <<"dropped">>]
        [] v.incoming[i] = "alive" /\ v.state = "Incoming" ->
             AcceptAll([known EXCEPT !.ok = @ /\ Has(v.conns, {"OpenDesiredByRemote"})])
        [] OTHER -> Effect(Poisoned(known))

ReportReject(v, i) ==
  LET known == [v EXCEPT !.incoming[i] = "none"]
  IN  CASE v.incoming[i] = "none" -> Effect(Unexpected(v))
        [] v.incoming[i] = "dead" -> Effect(known)
        [] v.incoming[i] = "alive" /\ v.state = "Incoming" ->
             RejectAll([known EXCEPT !.ok = @ /\ Has(v.conns, {"OpenDesiredByRemote"})])
        [] OTHER -> Effect(Poisoned(known))

-----------------------------------------------------------------------------
(***************************************************************************)
(* libp2p                                                                  *)
(***************************************************************************)
\* inject_connection_established
Established(v, c) ==
  LET new(state) == <<[id |-> c, state |-> state]>>
  IN  CASE v.state \in {"Requested", "PendingRequest"} ->
             [Effect(Becomes(v, "Enabled", new("Opening"), "none")) EXCEPT !.open = {c}]
        [] v.state \in {"Missing", "Backoff", "Poisoned"} ->
             Effect(Becomes(v, "Disabled", new("Closed"), v.until))
        [] OTHER -> Effect([v EXCEPT !.conns = @ \o new("Closed")])

\* A peer without connections is forgotten when its back-off is over.
Offline(v) ==
  IF v.until = "later" THEN {Effect(Waits(v, "Backoff", <<>>, d)) : d \in FreshDelay}
  ELSE {Effect(Forgotten(v))}

\* The sink of another open connection replaces the one of a connection that was
\* at the position pos, unless it comes before.
Replacement(left, pos) ==
  IF ~Has(left, {"Open"}) THEN <<[event |-> "Closed"]>>
  ELSE IF pos <= Position(left, FirstWith(left, "Open"))
       THEN <<[event |-> "Replaced", sink |-> FirstWith(left, "Open")]>>
       ELSE <<>>

\* inject_connection_closed
ClosedDisabled(v, left) ==
  IF left = <<>> THEN Offline(v) ELSE {Effect([v EXCEPT !.conns = left])}

\* (mutant) the Peerset is not told
ClosedPendingQuiet(v, left) ==
  {Effect(IF left = <<>> THEN [v EXCEPT !.state = "Backoff", !.conns = <<>>] ELSE [v EXCEPT !.conns = left])}
ClosedPending(v, left) ==
  IF left = <<>>
  THEN {[Effect([v EXCEPT !.state = "Backoff", !.conns = <<>>]) EXCEPT !.call = <<"dropped">>]}
  ELSE {Effect([v EXCEPT !.conns = left])}

ClosedIncoming(v, left) ==
  LET known  == [v EXCEPT !.ok = @ /\ Has(v.conns, {"OpenDesiredByRemote"})]
      wanted == Has(left, {"OpenDesiredByRemote"})
  IN  CASE wanted -> {Effect([known EXCEPT !.conns = left])}
        [] ~wanted /\ left # <<>> -> {Effect(Becomes(GiveUp(known), "Disabled", left, v.until))}
        [] left = <<>> -> Offline(GiveUp(known))

ClosedEnabled(v, c, left) ==
  LET known == [v EXCEPT !.ok = @ /\ Has(v.conns, {"Opening", "Open"})]
      told  == IF "Open" \in StateOf(v.conns, c) THEN Replacement(left, Position(v.conns, c)) ELSE <<>>
  IN  CASE left = <<>> ->
             {[Effect(Waits(known, "Backoff", <<>>, d)) EXCEPT !.tell = told, !.call = <<"dropped">>]
               : d \in FreshDelay}
        [] left # <<>> /\ ~Has(left, {"Opening", "Open"}) ->
             {[Effect(Becomes(known, "Disabled", left, "none")) EXCEPT !.tell = told, !.call = <<"dropped">>]}
        [] OTHER -> {[Effect([known EXCEPT !.conns = left]) EXCEPT !.tell = told]}

ConnectionClosed(v, c) ==
  LET left  == Drops(v.conns, c)
      known == [v EXCEPT !.ok = @ /\ left # v.conns]
  IN  CASE v.state = "Disabled" -> ClosedDisabled(known, left)
        [] v.state = "DisabledPendingEnable" -> ClosedPending(known, left)
        [] v.state = "Incoming" -> ClosedIncoming(known, left)
        [] v.state = "Enabled" -> ClosedEnabled(known, c, left)
        [] OTHER -> {Effect(Poisoned(v))}

\* inject_dial_failure
DialFailure(v) ==
  IF v.state \in {"Requested", "PendingRequest"}
  THEN {[Effect(Waits(v, "Backoff", <<>>, d)) EXCEPT !.call = <<"dropped">>] : d \in FreshDelay}
  ELSE {Effect([v EXCEPT !.ok = @ /\ v.state # "Poisoned"])}

-----------------------------------------------------------------------------
(***************************************************************************)
(* The events of the handlers                                              *)
(***************************************************************************)
InState(v, c, states) == StateOf(v.conns, c) \subseteq states /\ StateOf(v.conns, c) # {}
Asserts(v, condition) == [v EXCEPT !.ok = @ /\ condition]
\* An assertion that can fail: a debug build stops there, a release build goes on.
DebugAssert(v, condition) == {Asserts(v, condition), v}
AssertActive(v) == Asserts(v, Has(v.conns, {"Opening", "Open"}))

\* An index nothing refers to: no entry that is alive and no answer on its way.
FreshIndex(v) ==
  {i \in Index \ Alive(v) : \A k \in DOMAIN link.queue : link.queue[k] \notin {Accept(i), Reject(i)}}

\* The assertion for an enabled peer leaves out OpeningThenClosing, which the comment
\* above it expects (OpenDesiredAssertion).
OpenDesiredByRemote(v, c) ==
  LET closed  == InState(v, c, {"Closed"})
      known   == Asserts(v, v.state = "Incoming" => Has(v.conns, {"OpenDesiredByRemote"}))
      ignored == {Effect(Asserts(known, InState(v, c, {"OpeningThenClosing", "Closing"})))}
      wanted  == Turn(v.conns, {c}, "Closed", "OpenDesiredByRemote")
  IN  CASE v.state = "Incoming" /\ closed -> {Effect([known EXCEPT !.conns = wanted])}
        [] v.state = "Enabled" /\ closed -> {Enable(AssertActive(v), c)}
        [] v.state = "Enabled" /\ ~closed ->
             {Effect(AssertActive(w)) :
                w \in DebugAssert(v, InState(v, c, {"OpenDesiredByRemote", "Closing", "Opening"}))}
        [] v.state = "DisabledPendingEnable" /\ closed -> {Enable(v, c)}
        [] v.state = "Disabled" /\ closed ->
             {[Effect([v EXCEPT !.state = "Incoming", !.conns = wanted, !.incoming[i] = "alive"])
                 EXCEPT !.call = <<"incoming", i>>] : i \in FreshIndex(v)}
        [] v.state \in {"Incoming", "DisabledPendingEnable", "Disabled"} /\ ~closed -> ignored
        [] OTHER -> {Effect(Poisoned(v))}

\* The remote closed the substream.
CloseDesired(v, c) ==
  LET left  == Turn(v.conns, {c}, "Open", "Closing")
      known == [AssertActive(Asserts(v, InState(v, c, {"Open"}))) EXCEPT !.conns = left]
      close == [Effect(known) EXCEPT !.close = {c}, !.tell = Replacement(left, Position(left, c))]
  IN  CASE v.state = "Enabled" /\ InState(v, c, {"Closing"}) -> Effect(AssertActive(v))
        [] v.state = "Enabled" /\ ~InState(v, c, {"Closing"}) /\ Has(left, {"Opening", "Open"}) -> close
        [] v.state = "Enabled" /\ ~InState(v, c, {"Closing"}) /\ ~Has(left, {"Opening", "Open"}) ->
             [close EXCEPT !.b = Becomes(known, "Disabled", left, "none"), !.call = <<"dropped">>]
        [] v.state \in {"Disabled", "DisabledPendingEnable"} -> Effect(v)
        [] OTHER -> Effect(Poisoned(v))

HasConnections == {"Incoming", "DisabledPendingEnable", "Disabled", "Enabled"}

CloseResult(v, c) ==
  Effect([Asserts(v, v.state \in HasConnections /\ InState(v, c, {"Closing"})) EXCEPT
            !.conns = Turn(@, {c}, "Closing", "Closed")])

\* (mutant) the external API is told of every connection.
OpenResultOkAlways(v, c) ==
  IF v.state = "Enabled" /\ InState(v, c, {"Opening"})
  THEN [Effect([v EXCEPT !.conns = Turn(@, {c}, "Opening", "Open")]) EXCEPT
          !.tell = <<[event |-> "Open", sink |-> c]>>]
  ELSE Effect([v EXCEPT !.conns = Turn(@, {c}, "OpeningThenClosing", "Closing")])
OpenResultOk(v, c) ==
  IF v.state = "Enabled" /\ InState(v, c, {"Opening"})
  THEN [Effect([v EXCEPT !.conns = Turn(@, {c}, "Opening", "Open")]) EXCEPT
          !.tell = IF Has(v.conns, {"Open"}) THEN <<>> ELSE <<[event |-> "Open", sink |-> c]>>]
  ELSE Effect([Asserts(IF v.state = "Enabled" THEN AssertActive(v) ELSE v,
                       v.state \in HasConnections /\ InState(v, c, {"OpeningThenClosing"})) EXCEPT
                 !.conns = Turn(@, {c}, "OpeningThenClosing", "Closing")])

OpenResultErr(v, c) ==
  LET failed  == Turn(v.conns, {c}, "Opening", "Closed")
      closing == Turn(v.conns, {c}, "OpeningThenClosing", "Closing")
  IN  CASE v.state = "Enabled" /\ InState(v, c, {"Opening"}) /\ ~Has(failed, {"Opening", "Open"}) ->
             [Effect(Becomes(v, "Disabled", failed, "later")) EXCEPT !.call = <<"dropped">>]
        [] v.state = "Enabled" /\ InState(v, c, {"Opening"}) /\ Has(failed, {"Opening", "Open"}) ->
             Effect([v EXCEPT !.conns = failed])
        [] v.state \in HasConnections /\ ~(v.state = "Enabled" /\ InState(v, c, {"Opening"})) ->
             Effect([Asserts(IF v.state = "Enabled" THEN AssertActive(v) ELSE v,
                             InState(v, c, {"OpeningThenClosing"})) EXCEPT !.conns = closing])
        [] OTHER -> Effect(Poisoned(v))

Notification(v, c) ==
  [Effect(v) EXCEPT !.tell = IF v.state = "Enabled" /\ Has(v.conns, {"Open"})
                             THEN <<[event |-> "Notification"]>> ELSE <<>>]

\* poll: a delay is over.
\* (mutant) a peer that cannot be enabled yet is not tried again.
DelayOverOnce(v, d) ==
  LET over == [v EXCEPT !.delays = @ \ {d}]
  IN  CASE v.timer = d /\ v.state = "Backoff" -> Effect(Forgotten(over))
        [] v.timer = d /\ v.state = "PendingRequest" -> Effect(Becomes(over, "Requested", <<>>, "none"))
        [] v.timer = d /\ v.state = "DisabledPendingEnable" ->
             IF Has(v.conns, {"Closed"}) THEN Enable(over, FirstWith(v.conns, "Closed")) ELSE Effect(over)
        [] OTHER -> Effect(over)
DelayOver(v, d) ==
  LET over == [v EXCEPT !.delays = @ \ {d}]
  IN  CASE v.timer = d /\ v.state = "Backoff" -> Effect(Forgotten(over))
        [] v.timer = d /\ v.state = "PendingRequest" -> Effect(Becomes(over, "Requested", <<>>, "none"))
        [] v.timer = d /\ v.state = "DisabledPendingEnable" ->
             IF Has(v.conns, {"Closed"}) THEN Enable(over, FirstWith(v.conns, "Closed"))
             ELSE Effect([over EXCEPT !.until = "later", !.delays = @ \cup {d}])
        [] OTHER -> Effect(over)

-----------------------------------------------------------------------------
(***************************************************************************)
(* The system                                                              *)
(***************************************************************************)
NoConnection == [up |-> "no", h |-> NewHandler, commands |-> <<>>, events |-> <<>>]

NotifInit ==
  /\ b = [state |-> "Missing", conns |-> <<>>, until |-> "none", timer |-> None,
          incoming |-> [i \in Index |-> "none"], delays |-> {}, ok |-> TRUE]
  /\ conn = [c \in Conn |-> NoConnection]
  /\ ext = [open |-> "closed", sink |-> None]
  /\ polling = FALSE
  /\ LinkInit

\* What the external API makes of an event; one that does not fit confuses it.
Told(x, tell) ==
  CASE tell = <<>> -> x
    [] tell # <<>> /\ tell[1].event = "Open" ->
         [open |-> IF x.open = "closed" THEN "open" ELSE "confused", sink |-> tell[1].sink]
    [] tell # <<>> /\ tell[1].event = "Replaced" ->
         [open |-> IF x.open = "open" THEN "open" ELSE "confused", sink |-> tell[1].sink]
    [] tell # <<>> /\ tell[1].event = "Closed" ->
         [open |-> IF x.open = "open" THEN "closed" ELSE "confused", sink |-> None]
    [] tell # <<>> /\ tell[1].event = "Notification" ->
         [x EXCEPT !.open = IF @ = "open" THEN "open" ELSE "confused"]

Called(l, call) ==
  CASE call = <<>> -> {l}
    [] call = <<"dropped">> -> AfterDropped(l)
    [] Len(call) = 2 -> AfterIncoming(l, call[2])

\* Commands for a connection that is gone get lost.
Sent(cs, e) ==
  [c \in Conn |->
     IF cs[c].up # "up" THEN cs[c]
     ELSE [cs[c] EXCEPT !.commands = @ \o (IF c \in e.open THEN <<"Open">> ELSE <<>>)
                                       \o (IF c \in e.close THEN <<"Close">> ELSE <<>>)]]

\* The behaviour does one of effects, with the connections cs and the link l.
Do(effects, cs, l) ==
  \E e \in effects :
    /\ b' = e.b
    /\ conn' = Sent(cs, e)
    /\ ext' = Told(ext, e.tell)
    /\ link' \in Called(l, e.call)

Disconnect == ~polling /\ Do({DisconnectPeer(b)}, conn, link) /\ UNCHANGED polling

\* poll reads messages until none waits, and then looks at the delays.
ReadMessage ==
  /\ link.queue # <<>>
  /\ LET m == Head(link.queue)
         rest == [link EXCEPT !.queue = Tail(@)]
     IN  Do(CASE m.type = "Connect" -> ReportConnect(b)
              [] m.type = "Drop" -> {ReportDisconnect(b)}
              [] m.type = "Accept" -> {ReportAccept(b, m.index)}
              [] m.type = "Reject" -> {ReportReject(b, m.index)}, conn, rest)
  /\ polling' = (link'.queue # <<>>)

Command == LinkCommand /\ polling' = (link'.queue # <<>>) /\ UNCHANGED <<b, conn, ext>>

\* When one that nobody waits for is over makes no difference: it may be at any
\* time, so that its id is free again.
DelayFires(d) ==
  /\ (~polling /\ link.queue = <<>>) \/ d # b.timer
  /\ d \in b.delays
  /\ Do({DelayOver(b, d)}, conn, link)
  /\ UNCHANGED polling

\* The network calls the Peerset about another peer.
OtherPeers == ~polling /\ LinkFill /\ UNCHANGED <<b, conn, ext, polling>>

DeadlinePasses ==
  /\ ~polling
  /\ b.until = "later"
  /\ b' = [b EXCEPT !.until = "past"]
  /\ UNCHANGED <<conn, ext, polling, link>>

ConnectionOpens(c) ==
  /\ ~polling
  /\ conn[c].up = "no"
  /\ Do({Established(b, c)}, [conn EXCEPT ![c] = [NoConnection EXCEPT !.up = "up"]], link)
  /\ UNCHANGED polling

DialFails == ~polling /\ Do(DialFailure(b), conn, link) /\ UNCHANGED polling

\* The next event of a connection reaches the behaviour.
HandlerEvent(c) ==
  /\ ~polling
  /\ conn[c].events # <<>>
  /\ LET event == Head(conn[c].events)
         read  == [conn EXCEPT ![c] = IF event = "ConnectionClosed" THEN NoConnection
                                      ELSE [conn[c] EXCEPT !.events = Tail(conn[c].events)]]
     IN  Do(CASE event = "OpenDesiredByRemote" -> OpenDesiredByRemote(b, c)
              [] event = "CloseDesired" -> {CloseDesired(b, c)}
              [] event = "CloseResult" -> {CloseResult(b, c)}
              [] event = "OpenResultOk" -> {OpenResultOk(b, c)}
              [] event = "OpenResultErr" -> {OpenResultErr(b, c)}
              [] event = "Notification" -> {Notification(b, c)}
              [] event = "ConnectionClosed" -> ConnectionClosed(b, c), read, link)
  /\ UNCHANGED polling

-----------------------------------------------------------------------------
(***************************************************************************)
(* The tasks of the connections                                            *)
(***************************************************************************)
Handles(c, r, commands) ==
  /\ conn[c].up = "up"
  /\ Len(conn[c].events) + Len(r.events) <= MaxEvents
  /\ conn' = [conn EXCEPT ![c].h = r.h, ![c].events = @ \o r.events, ![c].commands = commands]
  /\ UNCHANGED <<b, ext, polling, link>>

HandlerCommand(c) ==
  /\ conn[c].commands # <<>>
  /\ Handles(c, IF Head(conn[c].commands) = "Open" THEN Open(conn[c].h) ELSE Close(conn[c].h),
             Tail(conn[c].commands))

\* The substreams libp2p was asked for.
RemoteAccepts(c) == conn[c].h.requests > 0 /\ Handles(c, NegotiatedOutbound(conn[c].h), conn[c].commands)
RemoteRefuses(c) == conn[c].h.requests > 0 /\ Handles(c, UpgradeError(conn[c].h), conn[c].commands)

RemoteOpens(c) == ~conn[c].h.in /\ Handles(c, NegotiatedInbound(conn[c].h), conn[c].commands)

\* What the remote closes is noticed once the substreams were accepted.
RemoteClosesIn(c) ==
  /\ conn[c].h.state \in {"Opening", "Open"} /\ conn[c].h.in
  /\ Handles(c, InboundLost(conn[c].h), conn[c].commands)

RemoteClosesOut(c) ==
  /\ conn[c].h.state = "Open" /\ conn[c].h.out
  /\ Handles(c, OutboundLost(conn[c].h), conn[c].commands)

\* At most one notification is on its way.
RemoteNotifies(c) ==
  /\ conn[c].h.state = "Open" /\ conn[c].h.in
  /\ \A k \in DOMAIN conn[c].events : conn[c].events[k] # "Notification"
  /\ Handles(c, Received(conn[c].h), conn[c].commands)

\* The connection ends, for whatever reason.
ConnectionEnds(c) ==
  /\ conn[c].up = "up"
  /\ conn' = [conn EXCEPT ![c] = [NoConnection EXCEPT !.up = "down",
                                     !.events = Append(conn[c].events, "ConnectionClosed")]]
  /\ UNCHANGED <<b, ext, polling, link>>

NotifNext ==
  \/ Disconnect \/ ReadMessage \/ Command \/ OtherPeers \/ DeadlinePasses \/ DialFails
  \/ \E d \in Delay : DelayFires(d)
  \/ \E c \in Conn :
       \/ ConnectionOpens(c) \/ HandlerEvent(c) \/ HandlerCommand(c) \/ ConnectionEnds(c)
       \/ RemoteAccepts(c) \/ RemoteRefuses(c) \/ RemoteOpens(c)
       \/ RemoteClosesIn(c) \/ RemoteClosesOut(c) \/ RemoteNotifies(c)

NotifSpec == NotifInit /\ [][NotifNext]_notifVars

\* A dial that was asked for ends one way or the other.
DialEnds == b.state = "Requested" /\ (DialFails \/ \E c \in Conn : ConnectionOpens(c))

\* The tasks of the connections and the swarm run; every poll reads the messages
\* of the Peerset and then looks at the delays that are over; a substream is
\* accepted, refused or given up after OPEN_TIMEOUT, a dial succeeds or fails.
NotifFairSpec ==
  /\ NotifSpec
  /\ WF_notifVars(ReadMessage)
  /\ SF_notifVars(DialEnds)
  /\ \A d \in Delay : SF_notifVars(DelayFires(d))
  /\ \A c \in Conn : /\ SF_notifVars(HandlerEvent(c))
                     /\ WF_notifVars(HandlerCommand(c))
                     /\ WF_notifVars(RemoteAccepts(c) \/ RemoteRefuses(c))

-----------------------------------------------------------------------------
(***************************************************************************)
(* Properties                                                              *)
(***************************************************************************)
\* Nothing has gone wrong in the behaviour.
Sane == b.ok

\* No "State mismatch" is reached and no assertion fails, in the behaviour and in
\* the handlers, whatever the order of calls, messages and events, but for two:
\* CloseDesired of a connection that is being closed while another one made the
\* peer Incoming, and OpenDesiredByRemote of a connection that is OpeningThenClosing
\* while another one made the peer Enabled, which an assertion did not foresee.
NoOtherMismatch ==
  [][/\ b.ok /\ ~b'.ok =>
          \E c \in Conn : /\ HandlerEvent(c)
                          /\ \/ /\ Head(conn[c].events) = "CloseDesired"
                                /\ b.state = "Incoming" /\ InState(b, c, {"Closing"})
                             \/ /\ Head(conn[c].events) = "OpenDesiredByRemote"
                                /\ b.state = "Enabled" /\ InState(b, c, {"OpeningThenClosing"})
     /\ \A c \in Conn : conn'[c].h.ok]_notifVars

Count(s, x) == Cardinality({k \in DOMAIN s : s[k] = x})

\* Every Open and every Close is answered once: what the behaviour takes a
\* connection for says which answers are on their way (ConnectionState).
AnswersMatch == Sane =>
  \A k \in DOMAIN b.conns :
    LET x == conn[b.conns[k].id]
        opens  == Count(x.commands, "Open") + (IF x.h.state = "Opening" THEN 1 ELSE 0)
                    + Count(x.events, "OpenResultOk") + Count(x.events, "OpenResultErr")
        closes == Count(x.commands, "Close") + Count(x.events, "CloseResult")
    IN  x.up = "up" =>
          /\ opens = IF b.conns[k].state \in {"Opening", "OpeningThenClosing"} THEN 1 ELSE 0
          /\ closes = IF b.conns[k].state \in {"Closing", "OpeningThenClosing"} THEN 1 ELSE 0

\* The external API takes the peer for open exactly when it is: it was told of
\* every change, once.
ApiInformed == Sane => ext.open = IF IsOpen THEN "open" ELSE "closed"

\* When the messages of the Peerset are read, it takes the peer for connected
\* exactly when the behaviour was asked for it and has not said that it dropped.
PeersetAgrees == Sane /\ link.queue = <<>> => link.connected = IsRequested

\* The assertion of inject_event about a connection whose remote wants to open
\* substreams while the peer is enabled.
OpenDesiredAssertion ==
  \A c \in Conn :
    b.state = "Enabled" /\ conn[c].events # <<>> /\ Head(conn[c].events) = "OpenDesiredByRemote" =>
      InState(b, c, {"Closed", "OpenDesiredByRemote", "Closing", "Opening"})

\* A slot is not held for nothing: a peer the Peerset asked for gets substreams or
\* is given back, whatever connections, handlers and back-offs do meanwhile.
RequestResolved == IsRequested ~> IsOpen \/ ~IsRequested

\* A remote that asks for substreams gets an answer.
RemoteAnswered == b.state = "Incoming" ~> b.state # "Incoming"

\* A Poisoned state is never found.
NeverPoisoned == b.state # "Poisoned"

\* The sink the external API has is that of an open connection.
SinkFollows == IsOpen => ext.sink \in Ids(b.conns, {"Open"})
=============================================================================
