--------------------------- MODULE MCSupervision ---------------------------
(***************************************************************************)
(* Small instances of Supervision for TLC.                                 *)
(***************************************************************************)
EXTENDS Supervision, TLC

(* A policy that may give any answer at any time. *)
AnyPolicy == {"delay", "stop", "raise"}
=============================================================================
