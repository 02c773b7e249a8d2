---------------------------- MODULE MCPortForward ----------------------------
(* PortForward with two ports and waits of a few ticks. *)
EXTENDS PortForward
=============================================================================
