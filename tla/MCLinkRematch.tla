--------------------------- MODULE MCLinkRematch ---------------------------
(* LinkRematch on two devices.  The rules treat the two alike, so device 1  *)
(* wins the toss: the other half of the behaviours only swaps the names.    *)
EXTENDS LinkRematch

MCInit == RematchInit /\ isHost[1]
MCSpec == MCInit /\ [][RematchNext]_allVars

\* A bound: one rematch agreed on, and one question asked again.
SaysBound == outgoingSay[1].seq + outgoingSay[2].seq <= 3
=============================================================================
