----------------------------- MODULE MCLinkRing -----------------------------
(* LinkRing with a short ring, two senders and two payloads.               *)
EXTENDS LinkRing
=============================================================================
