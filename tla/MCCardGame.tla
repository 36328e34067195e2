----------------------------- MODULE MCCardGame -----------------------------
(* CardGame with four seats, so that a match may survive the loss of one.  *)
EXTENDS CardGame
=============================================================================
