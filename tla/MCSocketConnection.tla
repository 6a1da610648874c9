------------------------- MODULE MCSocketConnection -------------------------
(***************************************************************************)
(* Small instances of SocketConnection for TLC.                            *)
(***************************************************************************)
EXTENDS SocketConnection, TLC

(* Tasks are interchangeable, and so are sockets. *)
Symmetry == Permutations(Tasks) \cup Permutations(Sockets)
=============================================================================
