--------------------------- MODULE MCLinkSession ---------------------------
(* LinkSession on small sets of devices, tosses, moves and notes.          *)
EXTENDS LinkSessionInv, LinkTurnGame

\* Bound: notes are explored from one device, and while at most one move is made.
FewNotes ==
  \A d \in Device :
    outgoingSay[d].seq > 0 => d = 1 /\ \A e \in Device : sequence[e] <= 2
=============================================================================
