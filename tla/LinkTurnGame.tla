--------------------------- MODULE LinkTurnGame ---------------------------
(***************************************************************************)
(* Two devices that search once implement TurnGame: whatever the air       *)
(* loses, repeats or reorders, and whenever the match dies, the two games  *)
(* are one history of moves in strict alternation.                         *)
(***************************************************************************)
EXTENDS LinkSession, FiniteSetsExt

StatesSent == {p \in net : p.type = "State"}

\* The newest board ever sent is the shared history, its sender made the last
\* move.
NewestOf(S) == CHOOSE p \in S : p.seq = Max({q.seq : q \in S})

History == IF StatesSent = {} THEN <<>> ELSE NewestOf(StatesSent).board
Mover == IF StatesSent = {} THEN NoDevice ELSE NewestOf(StatesSent).from

Shared == INSTANCE TurnGame WITH Side <- Device, history <- History, mover <- Mover

\* The session implements one shared game: no move is made on a stale board,
\* out of turn, or against another version of the history, and no game is
\* shown a board that skips one (LinkSession.h:14-30).
SharesOneGame == Shared!Spec
=============================================================================
