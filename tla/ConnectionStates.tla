-------------------------- MODULE ConnectionStates --------------------------
(***************************************************************************)
(* The four states of a connection (enum ConnectionState of                *)
(* connections/base.py).                                                   *)
(***************************************************************************)

DISCONNECTED  == "DISCONNECTED"
CONNECTING    == "CONNECTING"
CONNECTED     == "CONNECTED"
DISCONNECTING == "DISCONNECTING"

ConnectionState == {DISCONNECTED, CONNECTING, CONNECTED, DISCONNECTING}
=============================================================================
