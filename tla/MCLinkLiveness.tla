-------------------------- MODULE MCLinkLiveness --------------------------
(* LinkLiveness on two devices. *)
EXTENDS LinkLiveness
=============================================================================
