---------------------------- MODULE ProgressFile ----------------------------
(***************************************************************************)
(* ProgressFile::writeAtomic(): a book's progress.bin is replaced through  *)
(* a temporary file.  Neither the card nor the power can be trusted: a     *)
(* write may be short, a directory operation may fail, and the power may   *)
(* go between any two steps.                                               *)
(*                                                                         *)
(* A file is the save it holds and how much of it has reached the card.  A *)
(* write of a few bytes fills the cache of the FAT library; flush() and    *)
(* close() empty it, and nobody hears when they fail.  A rename is one     *)
(* step: what the library does inside is not this repository's.            *)
(***************************************************************************)
EXTENDS Integers

CONSTANT MaxSaves      \* bound on the saves of a run

ASSUME ProgressAssumption == MaxSaves \in Nat

VARIABLES
  final,      \* progress.bin
  tmp,        \* progress.bin.tmp
  step,       \* where writeAtomic() is
  saves,      \* saves begun
  kept,       \* the last save that was reported as done
  exposed,    \* an attempt since then ended between the remove and the rename
  unsynced    \* saves whose flush and close both failed

pfVars == <<final, tmp, step, saves, kept, exposed, unsynced>>

File == [save: 0..MaxSaves, bytes: {"short", "cached", "whole"}]
NoFile == [save |-> 0, bytes |-> "whole"]
Synced(f) == [f EXCEPT !.bytes = IF @ = "cached" THEN "whole" ELSE @]
-----------------------------------------------------------------------------
\* Opening the temporary file empties it, whatever an earlier attempt left.
Opens ==
  /\ step = "idle" /\ saves < MaxSaves
  /\ saves' = saves + 1 /\ step' = "write"
  /\ tmp' = [save |-> saves + 1, bytes |-> "short"]
  /\ UNCHANGED <<final, kept, exposed, unsynced>>
OpenFails ==
  /\ step = "idle" /\ saves < MaxSaves
  /\ saves' = saves + 1
  /\ UNCHANGED <<final, tmp, step, kept, exposed, unsynced>>

WritesTmp ==
  /\ step = "write" /\ step' = "flush"
  /\ tmp' = [tmp EXCEPT !.bytes = "cached"]
  /\ UNCHANGED <<final, saves, kept, exposed, unsynced>>

\* The write falls short and is let through: not what the code does.
GoesOnShort == step' = "flush" /\ UNCHANGED <<final, tmp, saves, kept, exposed, unsynced>>
ShortWrite == step' = "idle" /\ UNCHANGED <<final, tmp, saves, kept, exposed, unsynced>>
WritesTmpShort == step = "write" /\ ShortWrite

\* flush() returns nothing, and the close at the end of the scope tries once
\* more what it left undone; its answer is dropped.  Either way the remove follows.
Flushes ==
  /\ step = "flush" /\ step' = "close"
  /\ tmp' \in {tmp, Synced(tmp)}
  /\ UNCHANGED <<final, saves, kept, exposed, unsynced>>
Closes ==
  /\ step = "close" /\ step' = "remove"
  /\ tmp' = Synced(tmp)
  /\ UNCHANGED <<final, saves, kept, exposed, unsynced>>
CloseFails ==
  /\ step = "close" /\ step' = "remove"
  /\ unsynced' = IF tmp.bytes = "cached" THEN unsynced \cup {saves} ELSE unsynced
  /\ UNCHANGED <<final, tmp, saves, kept, exposed>>

\* The answer of remove() is not looked at: the rename that follows fails in
\* its place, and the old file stays.
Removes ==
  /\ step = "remove" /\ step' = "rename"
  /\ final' = NoFile
  /\ UNCHANGED <<tmp, saves, kept, exposed, unsynced>>
RemoveFails ==
  /\ step = "remove" /\ step' = "rename"
  /\ UNCHANGED <<final, tmp, saves, kept, exposed, unsynced>>

Renames ==
  /\ step = "rename" /\ final = NoFile
  /\ final' = tmp /\ tmp' = NoFile
  /\ step' = "idle" /\ kept' = saves /\ exposed' = FALSE
  /\ UNCHANGED <<saves, unsynced>>
RenameFails ==
  /\ step = "rename" /\ step' = "idle"
  /\ exposed' = (final = NoFile)
  /\ UNCHANGED <<final, tmp, saves, kept, unsynced>>

ProgressPowerFails ==
  /\ step' = "idle"
  /\ exposed' = (exposed \/ (step = "rename" /\ final = NoFile))
  /\ UNCHANGED <<final, tmp, saves, kept, unsynced>>
-----------------------------------------------------------------------------
ProgressInit ==
  /\ final = NoFile /\ tmp = NoFile /\ step = "idle"
  /\ saves = 0 /\ kept = 0 /\ exposed = FALSE /\ unsynced = {}

ProgressSteps ==
  \/ Opens \/ OpenFails \/ WritesTmp \/ WritesTmpShort
  \/ Flushes \/ Closes \/ CloseFails
  \/ Removes \/ RemoveFails \/ Renames \/ RenameFails
-----------------------------------------------------------------------------
(* Properties.                                                             *)

ProgressTypeOK ==
  /\ final \in File /\ tmp \in File
  /\ step \in {"idle", "write", "flush", "close", "remove", "rename"}
  /\ saves \in 0..MaxSaves /\ kept \in 0..saves /\ exposed \in BOOLEAN
  /\ unsynced \subseteq 0..MaxSaves

\* All of save n has reached the card, or its flush and its close both failed.
Sound(f, n) ==
  f.save = n /\ (f.bytes = "whole" \/ (f.bytes = "cached" /\ n \in unsynced))

\* progress.bin is never older than the last save reported as done, is never a
\* write that came up short, and is torn only if the flush and the close of that
\* very save failed unheard.  It is missing only if nothing was saved or an
\* attempt since ended, or now stands, between the remove and the rename.  What
\* is then renamed is the newest save, whatever earlier attempts left behind
\* (ProgressFile.h:12-25, 42-61; HalStorage.cpp:71-74, 175-178).
ProgressIsWhole ==
  /\ final # NoFile => Sound(final, kept)
  /\ final = NoFile /\ kept > 0 => exposed \/ step = "rename"
  /\ step = "rename" => Sound(tmp, saves)

\* Only a file that was fully written and closed replaces progress.bin, which is
\* never torn (ProgressFile.h:15-16, 25).
NeverTorn == final.bytes = "whole"
=============================================================================
