-------------------------- MODULE PowerLossProofs ---------------------------
(***************************************************************************)
(* For images of any size and any number of updates and saves: the device  *)
(* always finds a whole image to boot, an update that reports success is   *)
(* the one that boots, and a book's progress is kept.                      *)
(***************************************************************************)
EXTENDS PowerLoss, TLAPS

\* The composition runs the flasher as it is: its steps are the flasher's own,
\* or leave the flasher alone (FirmwareFlasher.cpp:275-357).
THEOREM Installing == Spec => FirmwareSpec
<1>1. Init => FirmwareInit
  BY DEF Init
<1>2. [Next]_vars => [FirmwareNext]_fwVars
  BY DEF Next, vars, Saves, Installs, Fails, FirmwareNext
<1> QED
  BY <1>1, <1>2, PTL DEF Spec, FirmwareSpec

-----------------------------------------------------------------------------
(* The entries of otadata.                                                 *)

LEMMA ChoosesApp ==
  ASSUME NEW n \in Int
  PROVE  ChoosesBy(n) \in App
BY DEF ChoosesBy, App

LEMMA TypedChoice ==
  ASSUME FirmwareTypeOK
  PROVE  /\ Selected \in App /\ Dest \in App /\ Dest # running
         /\ TargetSlot \in Slot /\ Highest \in Slot /\ ActiveSeq \in 0..MaxSeq
         /\ Usable # {} => Highest \in Usable /\ Highest # TargetSlot
<1>1. /\ Dest \in App /\ Dest # running
      /\ TargetSlot \in Slot /\ Highest \in Slot
  BY DEF FirmwareTypeOK, Dest, App, Slot, TargetSlot, Highest
<1>2. /\ ActiveSeq \in 0..MaxSeq
      /\ Usable # {} => otadata[Highest].seq \in 0..MaxSeq
  BY <1>1, FirmwareAssumption DEF FirmwareTypeOK, ActiveSeq
<1>3. Selected \in App
  BY <1>2, ChoosesApp DEF Selected, App
<1>4. Usable # {} => Highest \in Usable /\ Highest # TargetSlot
  BY DEF Usable, Highest, TargetSlot, Slot
<1> QED
  BY <1>1, <1>2, <1>3, <1>4

\* A sequence that chooses the wanted app is at most two above the active one.
LEMMA NextChooses ==
  ASSUME FirmwareTypeOK
  PROVE  /\ NextSeq(Dest) \in ActiveSeq + 1 .. ActiveSeq + 2
         /\ ChoosesBy(NextSeq(Dest)) = Dest
<1>1. ActiveSeq \in Nat /\ Dest \in App
  BY TypedChoice, FirmwareAssumption
<1> QED
  BY <1>1 DEF NextSeq, ChoosesBy, App

\* Rewriting the sector that does not count with anything but a valid entry
\* changes nothing the bootloader sees.
LEMMA InvalidEntry ==
  ASSUME FirmwareTypeOK,
         NEW e \in [seq: 0..MaxSeq, state: EntryState \ {"New"}],
         otadata' = [otadata EXCEPT ![TargetSlot] = e]
  PROVE  /\ Selected' = Selected /\ ActiveSeq' = ActiveSeq
         /\ TargetSlot' = TargetSlot /\ TargetSlot \notin Usable'
<1>1. /\ Usable # {} => Highest \in Usable /\ Highest # TargetSlot
      /\ TargetSlot \in Slot /\ Highest \in Slot
  BY TypedChoice
<1>2. /\ DOMAIN otadata = Slot
      /\ \A s \in Slot : otadata'[s] = IF s = TargetSlot THEN e ELSE otadata[s]
  BY DEF FirmwareTypeOK
<1>3. e.state # "New"
  OBVIOUS
<1>4. Usable' = Usable \ {TargetSlot}
  BY <1>2, <1>3 DEF Usable
<1>5. TargetSlot \notin Usable'
  BY <1>4
<1>6. CASE Usable = {}
  <2>1. Usable' = {}
    BY <1>4, <1>6
  <2> QED
    BY <2>1, <1>6, <1>5 DEF Selected, ActiveSeq, TargetSlot
<1>7. CASE Usable # {}
  <2>1. Usable' = {Highest} /\ Usable' # {}
    BY <1>1, <1>4, <1>7 DEF Usable, Slot
  <2>2. Highest' = Highest
    BY <1>1, <2>1 DEF Highest, Slot
  <2>3. otadata'[Highest] = otadata[Highest]
    BY <1>1, <1>2, <1>7
  <2> QED
    BY <2>1, <2>2, <2>3, <1>5, <1>7 DEF Selected, ActiveSeq, TargetSlot
<1> QED
  BY <1>6, <1>7

\* A new entry in the blank sector is the one that counts.
LEMMA ValidEntry ==
  ASSUME FirmwareTypeOK, TargetSlot \notin Usable,
         otadata' = [otadata EXCEPT ![TargetSlot] = NewEntry("New")]
  PROVE  Selected' = Dest
<1>1. /\ Usable # {} => Highest \in Usable /\ Highest # TargetSlot
      /\ TargetSlot \in Slot /\ Highest \in Slot /\ ActiveSeq \in Int
  BY TypedChoice, FirmwareAssumption
<1>2. /\ NextSeq(Dest) \in Int /\ NextSeq(Dest) > ActiveSeq
      /\ ChoosesBy(NextSeq(Dest)) = Dest
  BY NextChooses, <1>1
<1>3. /\ DOMAIN otadata = Slot
      /\ \A s \in Slot : otadata'[s] = IF s = TargetSlot THEN NewEntry("New") ELSE otadata[s]
  BY DEF FirmwareTypeOK
<1>4. Usable' = Usable \cup {TargetSlot} /\ Usable' # {}
  BY <1>1, <1>3 DEF Usable, NewEntry
<1>5. otadata'[TargetSlot].seq = NextSeq(Dest)
  BY <1>1, <1>3 DEF NewEntry
<1>6. Highest' = TargetSlot
  <2>1. CASE Usable = {}
    BY <2>1, <1>1, <1>4 DEF Highest, Slot
  <2>2. CASE Usable # {}
    <3>1. ActiveSeq = otadata[Highest].seq /\ otadata'[Highest] = otadata[Highest]
      BY <2>2, <1>1, <1>3 DEF ActiveSeq
    <3>2. Highest = 1 - TargetSlot /\ TargetSlot \in {0, 1}
      BY <2>2, <1>1 DEF Slot
    <3> HIDE DEF Highest, ActiveSeq
    <3>3. otadata'[TargetSlot].seq > otadata'[1 - TargetSlot].seq
      BY <3>1, <3>2, <1>2, <1>5
    <3> QED
      BY <3>2, <3>3, <1>1, <1>2, <1>4, <1>5, <2>2, <3>1 DEF Highest
  <2> QED
    BY <2>1, <2>2
<1> QED
  BY <1>2, <1>4, <1>5, <1>6 DEF Selected
-----------------------------------------------------------------------------
(* The flasher.                                                            *)

LEMMA FirmwareInitially == FirmwareInit => FirmwareInv
<1> SUFFICES ASSUME FirmwareInit PROVE FirmwareInv
  OBVIOUS
<1>1. FirmwareTypeOK
  BY FirmwareAssumption DEF FirmwareInit, FirmwareTypeOK, App, Slot, EntryState, Blank
<1>2. Selected = 0
  BY DEF FirmwareInit, Selected, Highest, Usable, Slot, Blank, ChoosesBy
<1> QED
  BY <1>1, <1>2 DEF FirmwareInv, FirmwareInit, Whole, App

\* Steps that leave the entries alone.
LEMMA ImageSteps ==
  ASSUME FirmwareInv, UNCHANGED otadata,
         (\E from \in {"card", "download"} : Starts(from)) \/ Erases \/ Writes
           \/ FlashFails \/ Rejects \/ SwitchFails \/ Restarts \/ PowerFails
  PROVE  FirmwareInv'
<1> USE FirmwareAssumption DEF FirmwareInv
<1>1. /\ Selected' = Selected /\ ActiveSeq' = ActiveSeq
      /\ TargetSlot' = TargetSlot /\ Usable' = Usable
  BY DEF Selected, ActiveSeq, TargetSlot, Usable, Highest
<1>2. Selected \in App /\ Dest \in App /\ Dest # running /\ running \in App
  BY TypedChoice DEF FirmwareTypeOK
<1>3. image' \in [App -> 0..Blocks] => FirmwareTypeOK'
  BY <1>2 DEF FirmwareTypeOK, Starts, Erases, Writes, FlashFails, Rejects,
              SwitchFails, Restarts, PowerFails, Boots
<1>4. ASSUME NEW from \in {"card", "download"}, Starts(from)
      PROVE  FirmwareInv'
  BY <1>1, <1>2, <1>3, <1>4 DEF Starts, Whole, Dest, FirmwareTypeOK
<1>5. CASE Erases
  BY <1>1, <1>2, <1>3, <1>5 DEF Erases, Whole, Dest, FirmwareTypeOK
<1>6. CASE Writes
  BY <1>1, <1>2, <1>3, <1>6 DEF Writes, Whole, Dest, FirmwareTypeOK
<1>7. CASE FlashFails
  BY <1>1, <1>2, <1>3, <1>7 DEF FlashFails, Abandons, Spoils, Whole, Dest, FirmwareTypeOK
<1>8. CASE Rejects
  BY <1>1, <1>2, <1>3, <1>8 DEF Rejects, Spoils, Whole, Dest, FirmwareTypeOK
<1>9. CASE SwitchFails
  BY <1>1, <1>2, <1>3, <1>9 DEF SwitchFails, Whole, Dest, FirmwareTypeOK
<1>10. CASE Restarts
  BY <1>1, <1>2, <1>3, <1>10 DEF Restarts, Boots, Whole, Dest, FirmwareTypeOK
<1>11. CASE PowerFails
  BY <1>1, <1>2, <1>3, <1>11
     DEF PowerFails, Boots, Abandons, Spoils, Whole, Dest, FirmwareTypeOK
<1> QED
  BY <1>4, <1>5, <1>6, <1>7, <1>8, <1>9, <1>10, <1>11

LEMMA EntrySteps ==
  ASSUME FirmwareInv,
         ErasesEntry \/ WritesEntry \/ EntryFails \/ PowerFailsInEntry
  PROVE  FirmwareInv'
<1> USE FirmwareAssumption DEF FirmwareInv
<1> DEFINE torn == NewEntry("Torn")
<1>1. /\ Selected \in App /\ Dest \in App /\ Dest # running
      /\ TargetSlot \in Slot /\ ActiveSeq \in 0..MaxSeq
      /\ running \in App /\ UNCHANGED image
  BY TypedChoice DEF FirmwareTypeOK, ErasesEntry, WritesEntry, EntryFails, PowerFailsInEntry
<1>2. NextSeq(Dest) \in 0..MaxSeq
  BY <1>1, NextChooses DEF ErasesEntry, WritesEntry, EntryFails, PowerFailsInEntry
<1>3. /\ Blank \in [seq: 0..MaxSeq, state: EntryState \ {"New"}]
      /\ torn \in [seq: 0..MaxSeq, state: EntryState \ {"New"}]
      /\ NewEntry("New") \in [seq: 0..MaxSeq, state: EntryState]
  BY <1>2 DEF Blank, NewEntry, EntryState
<1>4. FirmwareTypeOK'
  BY <1>1, <1>3 DEF FirmwareTypeOK, ErasesEntry, WritesEntry, EntryFails, PowerFailsInEntry
<1>5. CASE ErasesEntry
  <2>1. /\ Selected' = Selected /\ ActiveSeq' = ActiveSeq
        /\ TargetSlot' = TargetSlot /\ TargetSlot \notin Usable'
    BY <1>3, <1>5, InvalidEntry DEF ErasesEntry
  <2> QED
    BY <1>4, <1>5, <2>1 DEF ErasesEntry, Whole, Dest
<1>6. CASE WritesEntry
  <2>1. Selected' = Dest
    BY <1>6, ValidEntry DEF WritesEntry
  <2> QED
    BY <1>4, <1>6, <2>1 DEF WritesEntry, Whole, Dest
<1>7. CASE EntryFails
  <2>1. PICK e \in {Blank, torn} : otadata' = [otadata EXCEPT ![TargetSlot] = e]
    BY <1>7 DEF EntryFails
  <2>2. Selected' = Selected
    BY <1>3, <2>1, InvalidEntry
  <2> QED
    BY <1>4, <1>7, <2>2 DEF EntryFails, Whole, Dest
<1>8. CASE PowerFailsInEntry
  <2>1. Selected' = Selected
    BY <1>3, <1>8, InvalidEntry DEF PowerFailsInEntry
  <2> QED
    BY <1>1, <1>4, <1>8, <2>1 DEF PowerFailsInEntry, Whole, Dest
<1> QED
  BY <1>5, <1>6, <1>7, <1>8

LEMMA RollingBack ==
  ASSUME FirmwareInv, RollsBack
  PROVE  FirmwareInv'
<1> USE FirmwareAssumption DEF FirmwareInv
<1> DEFINE other == 1 - Highest
<1>1. /\ Highest \in Usable /\ Highest \in Slot /\ other \in Slot
      /\ running \in App /\ Dest \in App
  BY TypedChoice DEF RollsBack, FirmwareTypeOK, Slot
<1>2. /\ otadata' = [otadata EXCEPT ![Highest].state = "Aborted"]
      /\ running' = IF other \in Usable THEN ChoosesBy(otadata[other].seq) ELSE 0
      /\ UNCHANGED <<image, job, source>> /\ job = "idle"
  BY DEF RollsBack
<1>3. otadata' \in [Slot -> [seq: 0..MaxSeq, state: EntryState]]
  BY <1>1, <1>2 DEF FirmwareTypeOK, EntryState
<1>4. running' \in App
  BY <1>1, <1>2, ChoosesApp DEF FirmwareTypeOK, App
<1>5. FirmwareTypeOK'
  BY <1>2, <1>3, <1>4 DEF FirmwareTypeOK
<1>6. \A a \in App : Whole(a)
  BY <1>1, <1>2 DEF RollsBack, App
<1>7. Whole(running)'
  BY <1>2, <1>4, <1>6 DEF Whole
<1>8. Usable' = Usable \ {Highest}
  BY <1>1, <1>2 DEF Usable, FirmwareTypeOK
<1>9. Selected' = running'
  <2>1. CASE other \in Usable
    <3>1. Usable' = {other}
      BY <1>1, <1>8, <2>1 DEF Slot, Usable
    <3>2. Highest' = other
      BY <1>1, <3>1 DEF Highest, Slot
    <3>3. otadata'[other] = otadata[other]
      BY <1>1, <1>2 DEF FirmwareTypeOK, Slot
    <3> QED
      BY <1>2, <2>1, <3>1, <3>2, <3>3 DEF Selected
  <2>2. CASE other \notin Usable
    <3>1. Usable' = {}
      BY <1>1, <1>8, <2>2 DEF Slot, Usable
    <3> QED
      BY <1>2, <2>2, <3>1 DEF Selected
  <2> QED
    BY <2>1, <2>2
<1> QED
  BY <1>2, <1>5, <1>7, <1>9

LEMMA FirmwareStep == FirmwareInv /\ [FirmwareNext]_fwVars => FirmwareInv'
<1> SUFFICES ASSUME FirmwareInv, [FirmwareNext]_fwVars
             PROVE  FirmwareInv'
  OBVIOUS
<1>1. CASE UNCHANGED fwVars
  BY <1>1 DEF FirmwareInv, fwVars, FirmwareTypeOK, Whole, Dest, Selected, Highest,
              ActiveSeq, TargetSlot, Usable
<1>2. CASE UNCHANGED otadata /\ FirmwareNext
  BY <1>2, ImageSteps, EntrySteps, RollingBack DEF FirmwareNext, FirmwareSteps
<1>3. CASE otadata' # otadata /\ FirmwareNext
  BY <1>3, EntrySteps, RollingBack
     DEF FirmwareNext, FirmwareSteps, Starts, Erases, Writes, FlashFails, Rejects,
         SwitchFails, Restarts, PowerFails, Boots
<1> QED
  BY <1>1, <1>2, <1>3

\* The invariant the two properties rest on.
THEOREM FirmwareInvariant == FirmwareSpec => []FirmwareInv
BY FirmwareInitially, FirmwareStep, PTL DEF FirmwareSpec

\* Whenever the power fails, the bootloader finds a whole image
\* (OtaBootSwitch.cpp:71-81).
THEOREM WholeImageBoots == Spec => []BootsWholeImage
<1>1. FirmwareInv => BootsWholeImage
  BY DEF FirmwareInv, BootsWholeImage, Whole
<1> QED
  BY <1>1, Installing, FirmwareInvariant, PTL

\* An update that reports success is the one that boots
\* (OtaBootSwitch.cpp:58-61).
THEOREM UpdatesBoot == Spec => []UpdateTakesEffect
<1>1. FirmwareInv => UpdateTakesEffect
  BY DEF FirmwareInv, UpdateTakesEffect
<1> QED
  BY <1>1, Installing, FirmwareInvariant, PTL

-----------------------------------------------------------------------------
(* The progress file.                                                      *)

\* What the temporary file holds on the way to the remove.
OnItsWay ==
  /\ step # "idle" => tmp.save = saves /\ saves > 0
  /\ step \in {"flush", "close"} => tmp.bytes \in {"cached", "whole"}
  /\ step = "remove" => Sound(tmp, saves)

ProgressInv == ProgressTypeOK /\ OnItsWay /\ ProgressIsWhole

LEMMA ProgressInitially == ProgressInit => ProgressInv
<1>1. NoFile \in File /\ 0 \in 0..MaxSaves /\ 0 \in 0..0
  BY ProgressAssumption DEF NoFile, File
<1>2. ProgressInit => ProgressTypeOK
  BY <1>1 DEF ProgressInit, ProgressTypeOK
<1>3. ProgressInit => ProgressIsWhole
  BY DEF ProgressInit, ProgressIsWhole
<1> QED
  BY <1>2, <1>3 DEF ProgressInv, OnItsWay, ProgressInit

\* What the flush or the close leaves of a file that was fully written.
LEMMA SyncedFile ==
  ASSUME NEW f \in File
  PROVE  /\ Synced(f) \in File
         /\ Synced(f).save = f.save
         /\ f.bytes \in {"cached", "whole"} => Synced(f).bytes = "whole"
  BY DEF Synced, File

LEMMA ProgressStep ==
  ProgressInv /\ (ProgressSteps \/ ProgressPowerFails \/ UNCHANGED pfVars) => ProgressInv'
<1> USE DEF ProgressInv, OnItsWay, ProgressIsWhole
<1> SUFFICES ASSUME ProgressInv,
                    ProgressSteps \/ ProgressPowerFails \/ UNCHANGED pfVars
             PROVE  ProgressInv'
  OBVIOUS
<1>0. final \in File /\ tmp \in File /\ saves \in Nat
  BY ProgressAssumption DEF ProgressTypeOK
<1>1. ProgressTypeOK'
  <2>1. /\ NoFile \in File /\ Synced(tmp) \in File
        /\ saves < MaxSaves => [save |-> saves + 1, bytes |-> "short"] \in File
        /\ [tmp EXCEPT !.bytes = "cached"] \in File
    BY <1>0, SyncedFile, ProgressAssumption DEF ProgressTypeOK, NoFile, File
  <2>2. /\ final' \in File /\ tmp' \in File
        /\ step' \in {"idle", "write", "flush", "close", "remove", "rename"}
    BY <2>1
       DEF ProgressTypeOK, ProgressSteps, Opens, OpenFails, WritesTmp, WritesTmpShort,
           ShortWrite, Flushes, Closes, CloseFails, Removes, RemoveFails, Renames, RenameFails,
           ProgressPowerFails, pfVars
  <2>3. saves' \in 0..MaxSaves /\ kept' \in 0..saves'
    <3>1. /\ saves' = saves \/ (saves < MaxSaves /\ saves' = saves + 1)
          /\ kept' = kept \/ (kept' = saves /\ saves' = saves)
      BY DEF ProgressSteps, Opens, OpenFails, WritesTmp, WritesTmpShort, ShortWrite,
             Flushes, Closes, CloseFails,
             Removes, RemoveFails, Renames, RenameFails, ProgressPowerFails, pfVars
    <3>2. saves \in 0..MaxSaves /\ kept \in 0..saves /\ MaxSaves \in Nat
      BY ProgressAssumption DEF ProgressTypeOK
    <3> QED
      BY <3>1, <3>2
  <2>4. exposed' \in BOOLEAN
    <3>1. \/ exposed' = exposed \/ exposed' = FALSE \/ exposed' = (final = NoFile)
          \/ exposed' = (exposed \/ (step = "rename" /\ final = NoFile))
      BY Zenon
         DEF ProgressSteps, Opens, OpenFails, WritesTmp, WritesTmpShort,
             ShortWrite, Flushes, Closes, CloseFails,
             Removes, RemoveFails, Renames, RenameFails, ProgressPowerFails, pfVars
    <3> QED
      BY <3>1, Zenon DEF ProgressTypeOK
  <2>5. unsynced' \subseteq 0..MaxSaves
    <3>1. unsynced' = unsynced \/ unsynced' = unsynced \cup {saves}
      BY DEF ProgressSteps, Opens, OpenFails, WritesTmp, WritesTmpShort,
             ShortWrite, Flushes, Closes, CloseFails,
             Removes, RemoveFails, Renames, RenameFails, ProgressPowerFails, pfVars
    <3> QED
      BY <3>1 DEF ProgressTypeOK
  <2> QED
    BY <2>2, <2>3, <2>4, <2>5 DEF ProgressTypeOK
<1>2. CASE Opens
  BY <1>0, <1>1, <1>2 DEF Opens, Sound
<1>3. CASE OpenFails
  BY <1>0, <1>1, <1>3 DEF OpenFails, Sound
<1>4. CASE WritesTmp
  <2>1. tmp'.save = saves /\ tmp'.bytes = "cached"
    BY <1>0, <1>4 DEF WritesTmp, File
  <2> QED
    BY <1>1, <1>4, <2>1 DEF WritesTmp, Sound
<1>5. CASE WritesTmpShort
  BY <1>1, <1>5 DEF WritesTmpShort, ShortWrite, Sound
<1>6. CASE Flushes
  <2>1. tmp'.save = saves /\ tmp'.bytes \in {"cached", "whole"}
    BY <1>0, <1>6, SyncedFile DEF Flushes
  <2> QED
    BY <1>1, <1>6, <2>1 DEF Flushes, Sound
<1>7. CASE Closes
  <2>1. tmp'.save = saves /\ tmp'.bytes = "whole"
    BY <1>0, <1>7, SyncedFile DEF Closes
  <2> QED
    BY <1>1, <1>7, <2>1 DEF Closes, Sound
<1>8. CASE CloseFails
  <2>1. tmp.bytes = "whole" \/ (tmp.bytes = "cached" /\ saves \in unsynced')
    BY <1>8 DEF CloseFails
  <2>2. unsynced \subseteq unsynced'
    BY <1>8 DEF CloseFails
  <2> QED
    BY <1>1, <1>8, <2>1, <2>2 DEF CloseFails, Sound
<1>9. CASE Removes \/ RemoveFails
  BY <1>1, <1>9 DEF Removes, RemoveFails, Sound
<1>10. CASE Renames
  <2>1. Sound(final, kept)' /\ kept' = saves
    BY <1>10 DEF Renames, Sound
  <2>2. final' # NoFile
    BY <1>0, <1>10 DEF Renames, NoFile
  <2> QED
    BY <1>1, <1>10, <2>1, <2>2 DEF Renames
<1>11. CASE RenameFails
  BY <1>1, <1>11 DEF RenameFails, Sound
<1>12. CASE ProgressPowerFails \/ UNCHANGED pfVars
  BY <1>1, <1>12 DEF ProgressPowerFails, pfVars, Sound
<1> QED
  BY <1>2, <1>3, <1>4, <1>5, <1>6, <1>7, <1>8, <1>9, <1>10, <1>11, <1>12 DEF ProgressSteps

\* progress.bin holds the last save reported as done, all of it unless the flush
\* and the close of that save failed unheard, and goes missing only between the
\* remove and the rename (ProgressFile.h:33-64).
THEOREM ProgressSurvives == Spec => []ProgressIsWhole
<1>1. Init => ProgressInv
  BY ProgressInitially DEF Init
<1>2. ProgressInv /\ [Next]_vars => ProgressInv'
  BY ProgressStep DEF Next, vars, Saves, Installs, Fails
<1>3. ProgressInv => ProgressIsWhole
  BY DEF ProgressInv
<1> QED
  BY <1>1, <1>2, <1>3, PTL DEF Spec
=============================================================================
