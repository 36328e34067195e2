----------------------------- MODULE LinkRing -----------------------------
(***************************************************************************)
(* The receive ring of apps_local/link/LinkRadio.cpp: one producer, the    *)
(* ESP-NOW callback on the WiFi task, and one consumer, the main loop,     *)
(* share an array and two indices without a lock.                          *)
(*                                                                         *)
(* Each access to a shared index and each half of a slot is a step of its  *)
(* own, so the two threads interleave between them.  The release stores    *)
(* publish what was written before them, as the acquire loads require.     *)
(* end() unregisters the callback before it clears the indices, and is     *)
(* taken not to return while the callback runs.                            *)
(***************************************************************************)
EXTENDS Naturals, Sequences

CONSTANTS
  kQueueDepth,   \* slots of the ring
  Sender,        \* source addresses
  Payload,       \* packet contents that fit kMaxPacketBytes
  MaxBegins      \* bound: begin() calls

ASSUME RingAssumption ==
  kQueueDepth \in Nat \ {0, 1} /\ MaxBegins \in Nat

Blank == 0       \* a slot never written

Datagram == [from : Sender, data : Payload]
Slot == [from : Sender \cup {Blank}, data : Payload \cup {Blank}]
Index == 0 .. kQueueDepth - 1

BlankSlot == [from |-> Blank, data |-> Blank]

VARIABLES
  started,      \* the radio is up
  begins,
  ring, head, tail, overflowed,
  producer,     \* where the callback is
  arriving,     \* the packet it was handed
  consumer,     \* where receive() is
  copied,       \* what receive() has copied out so far
  received      \* the packet receive() returned last

radioVars == <<started, begins>>
ringVars == <<ring, head, tail, overflowed>>
producerVars == <<producer, arriving>>
consumerVars == <<consumer, copied, received>>
vars == <<radioVars, ringVars, producerVars, consumerVars>>

TypeOK ==
  /\ started \in BOOLEAN /\ begins \in Nat
  /\ ring \in [Index -> Slot]
  /\ head \in Index /\ tail \in Index
  /\ overflowed \in BOOLEAN
  /\ producer \in {"idle", "writeFrom", "writeData", "publish"}
  /\ arriving \in Slot
  /\ consumer \in {"idle", "copyFrom", "copyData", "advance"}
  /\ copied \in Slot /\ received \in Slot

Unwrapped(i) == i + 1

NextSlot(i) == (i + 1) % kQueueDepth

NeverFull == FALSE

FullOneEarly == NextSlot(NextSlot(tail)) = head

\* One slot stays free, so that full and empty differ.
Full == NextSlot(tail) = head
-----------------------------------------------------------------------------
(* enqueueFromCallback(): the WiFi task.                                   *)

Arrive(p) ==
  /\ started
  /\ producer = "idle"
  /\ IF Full
       THEN /\ overflowed' = TRUE
            /\ UNCHANGED <<producer, arriving>>
       ELSE /\ producer' = "writeFrom"
            /\ arriving' = p
            /\ UNCHANGED overflowed
  /\ UNCHANGED <<radioVars, ring, head, tail, consumerVars>>

WriteFrom ==
  /\ producer = "writeFrom"
  /\ ring' = [ring EXCEPT ![tail].from = arriving.from]
  /\ producer' = "writeData"
  /\ UNCHANGED <<radioVars, head, tail, overflowed, arriving, consumerVars>>

WriteData ==
  /\ producer = "writeData"
  /\ ring' = [ring EXCEPT ![tail].data = arriving.data]
  /\ producer' = "publish"
  /\ UNCHANGED <<radioVars, head, tail, overflowed, arriving, consumerVars>>

Publish ==
  /\ producer = "publish"
  /\ tail' = NextSlot(tail)
  /\ producer' = "idle"
  /\ UNCHANGED <<radioVars, ring, head, overflowed, arriving, consumerVars>>
-----------------------------------------------------------------------------
(* receive(): the main loop.  Its buffer holds any packet the ring holds.  *)

Look ==
  /\ started
  /\ consumer = "idle"
  /\ head # tail
  /\ consumer' = "copyFrom"
  /\ UNCHANGED <<radioVars, ringVars, producerVars, copied, received>>

CopyFrom ==
  /\ consumer = "copyFrom"
  /\ copied' = [copied EXCEPT !.from = ring[head].from]
  /\ consumer' = "copyData"
  /\ UNCHANGED <<radioVars, ringVars, producerVars, received>>

CopyData ==
  /\ consumer = "copyData"
  /\ copied' = [copied EXCEPT !.data = ring[head].data]
  /\ consumer' = "advance"
  /\ UNCHANGED <<radioVars, ringVars, producerVars, received>>

\* The slot is given back only after it has been copied out.
Advance ==
  /\ consumer = "advance"
  /\ head' = NextSlot(head)
  /\ received' = copied
  /\ consumer' = "idle"
  /\ UNCHANGED <<radioVars, ring, tail, overflowed, producerVars, copied>>
-----------------------------------------------------------------------------
(* begin() and end(), on the main loop: never inside receive().            *)

Begin ==
  /\ ~started
  /\ begins < MaxBegins
  /\ started' = TRUE
  /\ begins' = begins + 1
  /\ UNCHANGED <<ringVars, producerVars, consumerVars>>

End ==
  /\ started
  /\ consumer = "idle" /\ producer = "idle"
  /\ started' = FALSE
  /\ head' = 0 /\ tail' = 0
  /\ overflowed' = FALSE
  /\ UNCHANGED <<begins, ring, producerVars, consumerVars>>

Init ==
  /\ started = FALSE /\ begins = 0
  /\ ring = [i \in Index |-> BlankSlot]
  /\ head = 0 /\ tail = 0 /\ overflowed = FALSE
  /\ producer = "idle" /\ arriving = BlankSlot
  /\ consumer = "idle" /\ copied = BlankSlot /\ received = BlankSlot

Callback == (\E p \in Datagram : Arrive(p)) \/ WriteFrom \/ WriteData \/ Publish

MainLoop == Look \/ CopyFrom \/ CopyData \/ Advance \/ Begin \/ End

Next == Callback \/ MainLoop

Spec == Init /\ [][Next]_vars
-----------------------------------------------------------------------------
\* The packets between the two indices, oldest first.
Waiting ==
  [i \in 1 .. (tail + kQueueDepth - head) % kQueueDepth |->
     ring[(head + i - 1) % kQueueDepth]]

Queue == INSTANCE PacketQueue WITH
  Capacity <- kQueueDepth - 1,
  NoDatagram <- BlankSlot,
  open <- started,
  queue <- Waiting,
  refused <- overflowed,
  last <- received

\* However the two threads interleave, the main loop receives whole packets,
\* once each and in the order they arrived.  A packet is dropped, and reported
\* as an overflow, only when every slot but one waits to be read; a waiting
\* packet is lost only to end() (LinkRadio.h:77-81, LinkRadio.cpp:107-112).
ImplementsQueue == Queue!Spec

\* What receive() has copied is still the packet at the head when it gives the
\* slot back: the callback never reuses a slot being read (LinkRadio.cpp:107).
CopyIsCurrent ==
  consumer = "advance" => head # tail /\ copied = ring[head]
=============================================================================
