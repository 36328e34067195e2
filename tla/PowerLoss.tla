----------------------------- MODULE PowerLoss ------------------------------
(***************************************************************************)
(* One device, one battery: a book is read and its progress saved, or new  *)
(* firmware is installed, never both at once, since each holds the main    *)
(* loop until it is done.  The power may fail in the middle of either.     *)
(***************************************************************************)
EXTENDS FirmwareUpdate, ProgressFile

vars == <<fwVars, pfVars>>

Init == FirmwareInit /\ ProgressInit

Saves == job = "idle" /\ ProgressSteps /\ UNCHANGED fwVars
Installs == step = "idle" /\ FirmwareSteps /\ UNCHANGED pfVars
Fails == (PowerFails \/ PowerFailsInEntry) /\ ProgressPowerFails

Next == Saves \/ Installs \/ Fails

Spec == Init /\ [][Next]_vars
=============================================================================
