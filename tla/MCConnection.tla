---------------------------- MODULE MCConnection ----------------------------
(***************************************************************************)
(* Connection with two sockets (one in use, one whose last event is still  *)
(* to come).                                                               *)
(***************************************************************************)
EXTENDS Connection

=============================================================================
