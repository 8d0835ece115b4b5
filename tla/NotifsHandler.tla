--------------------------- MODULE NotifsHandler ---------------------------
(***************************************************************************)
(* The handler of one connection for one protocol                          *)
(* (client/network/src/protocol/notifications/handler.rs).  Every operator *)
(* gives the handler after it and the events it emits.                     *)
(***************************************************************************)
EXTENDS Naturals, Sequences

\* state (Closed, OpenDesiredByRemote, Opening or Open) and pending_opening; whether
\* there is an in_substream and, when open, an out_substream; how many outbound
\* substreams libp2p was asked for and has not answered; whether no assertion failed.
NewHandler ==
  [state |-> "Closed", pending |-> FALSE, in |-> FALSE, out |-> FALSE, requests |-> 0, ok |-> TRUE]

Emits(h, events) == [h |-> h, events |-> events]

Closed(h, pending) == [h EXCEPT !.state = "Closed", !.pending = pending, !.in = FALSE, !.out = FALSE]

\* inject_fully_negotiated_inbound: the remote opened a substream.
NegotiatedInbound(h) ==
  IF h.state = "Closed"
  THEN Emits([h EXCEPT !.state = "OpenDesiredByRemote", !.in = TRUE], <<"OpenDesiredByRemote">>)
  ELSE Emits([h EXCEPT !.in = TRUE], <<>>)

\* inject_fully_negotiated_outbound: the remote accepted ours.
NegotiatedOutbound(h) ==
  LET answered == [h EXCEPT !.requests = @ - 1]
  IN  CASE h.state \in {"Closed", "OpenDesiredByRemote"} ->
             Emits([answered EXCEPT !.pending = FALSE, !.ok = @ /\ h.pending], <<>>)
        [] h.state = "Opening" ->
             Emits([answered EXCEPT !.state = "Open", !.out = TRUE], <<"OpenResultOk">>)
        [] h.state = "Open" -> Emits([answered EXCEPT !.ok = FALSE], <<>>)

\* inject_dial_upgrade_error: it refused, or did not answer in OPEN_TIMEOUT.
UpgradeError(h) ==
  LET answered == [h EXCEPT !.requests = @ - 1]
  IN  CASE h.state \in {"Closed", "OpenDesiredByRemote"} ->
             Emits([answered EXCEPT !.pending = FALSE, !.ok = @ /\ h.pending], <<>>)
        [] h.state = "Opening" -> Emits(Closed(answered, FALSE), <<"OpenResultErr">>)
        [] h.state = "Open" -> Emits([answered EXCEPT !.ok = FALSE], <<>>)

\* inject_event(Open): a substream that is still being opened is used again.
\* (mutant) it is not
OpenAlwaysRequests(h) ==
  IF h.state \in {"Closed", "OpenDesiredByRemote"}
  THEN Emits([h EXCEPT !.state = "Opening", !.pending = FALSE, !.requests = @ + 1], <<>>)
  ELSE Emits([h EXCEPT !.ok = FALSE], <<>>)
Open(h) ==
  IF h.state \in {"Closed", "OpenDesiredByRemote"}
  THEN Emits([h EXCEPT !.state = "Opening", !.pending = FALSE,
                       !.requests = IF h.pending THEN @ ELSE @ + 1], <<>>)
  ELSE Emits([h EXCEPT !.ok = FALSE], <<>>)

\* inject_event(Close): always acknowledged, and an Open that was not answered is
\* answered first.
\* (mutant) it is not
CloseForgetsOpen(h) == Emits(Closed(h, h.pending \/ h.state = "Opening"), <<"CloseResult">>)
Close(h) ==
  Emits(Closed(h, h.pending \/ h.state = "Opening"),
        IF h.state = "Opening" THEN <<"OpenResultErr", "CloseResult">> ELSE <<"CloseResult">>)

\* poll: the remote closed the substream it accepted.
OutboundLost(h) == Emits([h EXCEPT !.out = FALSE], <<"CloseDesired">>)
\* poll: the remote closed the substream it opened.  Nobody reads it before the
\* handshake was sent.
InboundLost(h) == Emits([h EXCEPT !.in = FALSE], <<>>)
\* poll: the remote sent a notification.
Received(h) == Emits(h, <<"Notification">>)
=============================================================================
