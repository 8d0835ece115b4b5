-------------------------- MODULE MCNotifications --------------------------
(***************************************************************************)
(* Connections, delays and indices are interchangeable.                    *)
(***************************************************************************)
EXTENDS Notifications, TLC

Symmetric == Permutations(Conn) \cup Permutations(Delay) \cup Permutations(Index)
=============================================================================
