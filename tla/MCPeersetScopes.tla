-------------------------- MODULE MCPeersetScopes --------------------------
(***************************************************************************)
(* Peerset kept small enough for TLC: a behaviour uses only a part of the  *)
(* system, which `scope` names.                                            *)
(*   "one set"   all operations on the first set, the others stay empty    *)
(*   "all sets"  all sets, without incoming connections and without time,  *)
(*               and reports only lower reputations                        *)
(***************************************************************************)
EXTENDS MCPeerset

VARIABLE scope

mcVars == <<peersetVars, scope>>

InScope ==
  /\ scope = "one set" =>
       \A s \in Sets \ {1} :
         /\ ps.reserved[s] = {} /\ ~ps.only[s]
         /\ \A p \in Peer : ps.member[s, p] = "none"
  /\ scope = "all sets" =>
       /\ ps.elapsed = 0
       /\ \A i \in Index : net.incoming[i] = None

MCInit == PeersetInit /\ scope \in {"one set", "all sets"} /\ InScope
MCNext ==
  /\ PeersetNext
  /\ UNCHANGED scope
  /\ InScope'
  /\ scope = "all sets" => \A p \in Peer : ps'.rep[p] <= ps.rep[p]
MCSpec == MCInit /\ [][MCNext]_mcVars

\* Who is connected may be: ConnectionsAllowed and, with one set, no peer is
\* connected while its reputation is under the threshold.  With more a peer that
\* drops out of one of them may stay connected in the others although the drop
\* brings it under the threshold.
OnlyAllowedConnected ==
  /\ ConnectionsAllowed
  /\ [](scope = "one set" => BannedNotConnected)
=============================================================================
