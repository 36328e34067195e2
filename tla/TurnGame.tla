----------------------------- MODULE TurnGame -----------------------------
(***************************************************************************)
(* What PLAY NEARBY promises a game (LinkSession.h, decisions 1 and 2):    *)
(* one history of moves shared by two sides, made strictly in turn by a    *)
(* side that has seen all of it, and shown to each side move by move.      *)
(***************************************************************************)
EXTENDS Naturals, Sequences

CONSTANTS Side, Move

VARIABLES
  history,   \* every move made, in order
  mover,     \* who made the last one, or NoSide
  board      \* what each side's game shows of it

NoSide == 0

vars == <<history, mover, board>>

Init ==
  /\ history = <<>>
  /\ mover = NoSide
  /\ board = [s \in Side |-> <<>>]

Play(s) ==
  /\ mover # s
  /\ board[s] = history
  /\ \E m \in Move : history' = Append(history, m)
  /\ mover' = s
  /\ board' = [board EXCEPT ![s] = history']

See(s) ==
  /\ Len(board[s]) < Len(history)
  /\ board' = [board EXCEPT ![s] = SubSeq(history, 1, Len(board[s]) + 1)]
  /\ UNCHANGED <<history, mover>>

Next == \E s \in Side : Play(s) \/ See(s)

Spec == Init /\ [][Next]_vars
=============================================================================
