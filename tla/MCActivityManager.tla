------------------------- MODULE MCActivityManager -------------------------
(* ActivityManager with a few activities.                                  *)
EXTENDS ActivityManager
=============================================================================
