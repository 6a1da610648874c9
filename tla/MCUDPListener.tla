---------------------------- MODULE MCUDPListener ----------------------------
(***************************************************************************)
(* Small instances of UDPListener for TLC.                                 *)
(***************************************************************************)
EXTENDS UDPListener, TLC

(* Tasks are interchangeable, and so are sockets and ports. *)
Symmetry == Permutations(Tasks) \cup Permutations(Sockets) \cup Permutations(Ports)
=============================================================================
