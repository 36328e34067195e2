---------------------------- MODULE MCCardTable ----------------------------
(* CardTable with every clock and no Rando, or Rando and no clocks.        *)
EXTENDS CardTable

Clocks == [answer |-> TRUE, extension |-> TRUE, juror |-> TRUE, auto |-> TRUE, rando |-> FALSE]
Rando == [answer |-> FALSE, extension |-> FALSE, juror |-> FALSE, auto |-> FALSE, rando |-> TRUE]
MCSettings == {Clocks, Rando}
=============================================================================
