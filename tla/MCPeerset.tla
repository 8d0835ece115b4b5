----------------------------- MODULE MCPeerset -----------------------------
(***************************************************************************)
(* Values for the constants of Peerset.  Reputations range over a few      *)
(* values around zero instead of 32 bits; Decay is 2 instead of 50, so     *)
(* that both ways of decaying, by a part and by one, happen.               *)
(***************************************************************************)
EXTENDS Peerset

Peers == Permutations(Peer)
MCMinRep == -5
MCBanned == -3
MCDisconnect == -1
MCReports == {-5, 1}
MCNegative == {-5}
=============================================================================
