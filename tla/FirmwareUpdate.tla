--------------------------- MODULE FirmwareUpdate ---------------------------
(***************************************************************************)
(* Installing firmware: firmware_flash::flashFromSdPath() streams an image *)
(* into the app partition that does not run, and ota_boot::switchTo() then *)
(* makes the bootloader choose it, by a new entry in one of the two        *)
(* otadata sectors.  OtaUpdater does the same with a download, and learns  *)
(* only at the end whether the image is good.                              *)
(*                                                                         *)
(* Power may fail, and a flash operation or a read from the card may, at   *)
(* every step.  The bootloader is not this repository's: it boots the      *)
(* valid entry with the highest sequence, the first app without one, and   *)
(* may give up an image that does not come up.                             *)
(***************************************************************************)
EXTENDS Integers

CONSTANTS
  Blocks,      \* 64 KiB blocks of an image
  MaxSeq       \* bound on the boot sequence

ASSUME FirmwareAssumption == Blocks \in Nat \ {0} /\ MaxSeq \in Nat \ {0}

App == {0, 1}
Slot == {0, 1}
EntryState == {"Blank", "Torn", "New", "Aborted"}   \* Torn: the CRC does not match

VARIABLES
  image,      \* image[a]: blocks of one image in partition a, Blocks if it is whole
  otadata,    \* the two entries
  running,    \* the app that runs
  job,        \* what the flasher is doing
  source      \* where the image comes from

fwVars == <<image, otadata, running, job, source>>

Blank == [seq |-> 0, state |-> "Blank"]
Whole(a) == image[a] = Blocks
-----------------------------------------------------------------------------
(* The choice of an entry: switchTo() and the bootloader make the same one. *)

ChoosesBy(seq) == (seq - 1) % 2
Usable == {s \in Slot : otadata[s].state = "New"}

\* The valid entry with the higher sequence, the first of two equal ones.
Highest ==
  IF 1 \in Usable /\ (0 \in Usable => otadata[1].seq > otadata[0].seq) THEN 1 ELSE 0
Selected == IF Usable = {} THEN 0 ELSE ChoosesBy(otadata[Highest].seq)
ActiveSeq == IF Usable = {} THEN 0 ELSE otadata[Highest].seq

NextSeqOnly(dest) == ActiveSeq + 1

\* The smallest above the active one that chooses dest.
NextSeq(dest) ==
  IF ChoosesBy(ActiveSeq + 1) = dest THEN ActiveSeq + 1 ELSE ActiveSeq + 2

ActiveSlot == Highest

\* Not the active entry's: it must stay until the new one is whole.
TargetSlot == IF Usable # {} /\ Highest = 0 THEN 1 ELSE 0

\* esp_ota_get_next_update_partition()
Dest == 1 - running
-----------------------------------------------------------------------------
\* A partition left in the middle of an image holds none.  Before the first
\* erase the old image may still be there.
Untouched == job = "erase" /\ Whole(Dest)
Spoils == image' = [image EXCEPT ![Dest] = 0]
Abandons == Spoils \/ (Untouched /\ UNCHANGED image)

\* The card's image has been validated; a download cannot be yet.
Starts(from) ==
  /\ job = "idle" /\ ActiveSeq + 2 <= MaxSeq
  /\ job' = "erase" /\ source' = from
  /\ UNCHANGED <<image, otadata, running>>

\* Each block is erased just before it is written, the first one first.
Erases ==
  /\ job = "erase"
  /\ image' = [image EXCEPT ![Dest] = IF @ = Blocks THEN 0 ELSE @]
  /\ job' = "write"
  /\ UNCHANGED <<otadata, running, source>>
Writes ==
  /\ job = "write"
  /\ image' = [image EXCEPT ![Dest] = @ + 1]
  /\ job' = IF image[Dest] + 1 < Blocks THEN "erase" ELSE "switch"
  /\ UNCHANGED <<otadata, running, source>>

\* An erase or a write, a read of the card or the download fails; what is there
\* is of no use, and the next attempt begins again.
FlashFails ==
  /\ job \in {"erase", "write"}
  /\ Abandons
  /\ job' = "idle"
  /\ UNCHANGED <<otadata, running, source>>

\* esp_ota_end() finds a downloaded image bad.
Rejects ==
  /\ job = "switch" /\ source = "download"
  /\ Spoils /\ job' = "idle"
  /\ UNCHANGED <<otadata, running, source>>

ErasesEntry ==
  /\ job = "switch"
  /\ otadata' = [otadata EXCEPT ![TargetSlot] = Blank]
  /\ job' = "entry"
  /\ UNCHANGED <<image, running, source>>

\* The slot was chosen before the erase; it is the one now blank.
NewEntry(state) == [seq |-> NextSeq(Dest), state |-> state]
WritesEntry ==
  /\ job = "entry"
  /\ otadata' = [otadata EXCEPT ![TargetSlot] = NewEntry("New")]
  /\ job' = "done"
  /\ UNCHANGED <<image, running, source>>
EntryFails ==
  /\ job = "entry"
  /\ \E state \in {"Blank", "Torn"} :
       otadata' = [otadata EXCEPT ![TargetSlot] =
                     IF state = "Torn" THEN NewEntry("Torn") ELSE Blank]
  /\ job' = "idle"
  /\ UNCHANGED <<image, running, source>>

SwitchFails ==
  /\ job = "switch" /\ job' = "idle"
  /\ UNCHANGED <<image, otadata, running, source>>
-----------------------------------------------------------------------------
(* Power loss, the restart after an update, and the bootloader.            *)

Boots ==
  /\ running' = Selected /\ job' = "idle"
  /\ UNCHANGED <<otadata, source>>

Restarts == job = "done" /\ Boots /\ UNCHANGED image

PowerFails ==
  /\ IF job \in {"erase", "write"}
     THEN Abandons
     ELSE UNCHANGED image
  /\ Boots

\* A sector whose erase or write is cut short holds no valid entry.
PowerFailsInEntry ==
  /\ job \in {"switch", "entry"}
  /\ otadata' = [otadata EXCEPT ![TargetSlot] = NewEntry("Torn")]
  /\ running' = Selected /\ job' = "idle"
  /\ UNCHANGED <<image, source>>

\* The image just booted does not come up, before it could install anything
\* itself: its entry is given up.
RollsBack ==
  /\ job = "idle" /\ Usable # {} /\ running = Selected
  /\ Whole(1 - running)
  /\ LET other == 1 - Highest IN
     /\ otadata' = [otadata EXCEPT ![Highest].state = "Aborted"]
     /\ running' = IF other \in Usable THEN ChoosesBy(otadata[other].seq) ELSE 0
  /\ UNCHANGED <<image, job, source>>
-----------------------------------------------------------------------------
\* From the factory one app is installed, with or without an entry of its own.
FirmwareInit ==
  /\ image = [a \in App |-> IF a = 0 THEN Blocks ELSE 0]
  /\ \E first \in {Blank, [seq |-> 1, state |-> "New"]} :
       otadata = [s \in Slot |-> IF s = 0 THEN first ELSE Blank]
  /\ running = 0 /\ job = "idle" /\ source = "card"

FirmwareSteps ==
  \/ \E from \in {"card", "download"} : Starts(from)
  \/ Erases \/ Writes \/ FlashFails \/ Rejects
  \/ ErasesEntry \/ WritesEntry \/ EntryFails \/ SwitchFails
  \/ Restarts \/ RollsBack

FirmwareNext == FirmwareSteps \/ PowerFails \/ PowerFailsInEntry

FirmwareSpec == FirmwareInit /\ [][FirmwareNext]_fwVars
-----------------------------------------------------------------------------
(* Properties.                                                             *)

FirmwareTypeOK ==
  /\ image \in [App -> 0..Blocks] /\ running \in App
  /\ otadata \in [Slot -> [seq: 0..MaxSeq, state: EntryState]]
  /\ job \in {"idle", "erase", "write", "switch", "entry", "done"}
  /\ source \in {"card", "download"}

\* Whenever the power fails, the bootloader finds a whole image: neither a
\* failed switch nor a repeated attempt lets the flasher write over the image
\* the next boot chooses (OtaBootSwitch.cpp:71-81, FirmwareFlasher.cpp:276-279).
BootsWholeImage == Whole(Selected)

\* An update that reports success is the one that boots
\* (OtaBootSwitch.cpp:58-61, 88-89).
UpdateTakesEffect == job = "done" => Selected = Dest

\* Why: the app that runs is the one the entries choose until an update is
\* done, the flasher writes only to the other one, which is whole before the
\* entries are touched, and the sector rewritten is never the one that counts.
FirmwareInv ==
  /\ FirmwareTypeOK
  /\ Whole(running)
  /\ job = "done" => Selected = Dest
  /\ job # "done" => Selected = running
  /\ job \in {"switch", "entry", "done"} => Whole(Dest)
  /\ job = "write" => ~Whole(Dest)
  /\ job = "entry" => TargetSlot \notin Usable
  /\ job \notin {"idle", "done"} => ActiveSeq + 2 <= MaxSeq
=============================================================================
