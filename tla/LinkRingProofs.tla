--------------------------- MODULE LinkRingProofs ---------------------------
(***************************************************************************)
(* The receive ring implements PacketQueue, whatever its depth, its        *)
(* senders and its packets.                                                *)
(*                                                                         *)
(* Indices wrap, so the first lemmas say what the three remainders of      *)
(* LinkRing are without one.  The invariant says what each thread has done *)
(* half of: the callback writes only the free slot at tail, which is not   *)
(* at head, and the main loop copies the slot at head.                     *)
(***************************************************************************)
EXTENDS LinkRing, SequenceTheorems, TLAPS

\* The number of waiting packets, and where the i-th of them is.
Length(h, t) == (t + kQueueDepth - h) % kQueueDepth
Place(h, i) == (h + i - 1) % kQueueDepth

LEMMA Remainder ==
  ASSUME NEW k \in Nat \ {0}, NEW a \in 0 .. k + k - 1
  PROVE  a % k = IF a < k THEN a ELSE a - k
  <1>1. CASE a < k
    BY <1>1, SMT
  <1>2. CASE a >= k
    BY <1>2, SMT
  <1>. QED  BY <1>1, <1>2

LEMMA NextSlotIs ==
  ASSUME NEW i \in Index
  PROVE  /\ NextSlot(i) = IF i = kQueueDepth - 1 THEN 0 ELSE i + 1
         /\ NextSlot(i) \in Index
  <1>. DEFINE k == kQueueDepth  a == i + 1
  <1>1. k \in Nat \ {0} /\ i \in 0 .. k - 1 /\ a \in 0 .. k + k - 1
    BY RingAssumption DEF Index
  <1>. HIDE DEF k, a
  <1>2. a % k = IF a < k THEN a ELSE a - k
    BY <1>1, Remainder
  <1>3. NextSlot(i) = a % k /\ a = i + 1
    BY DEF NextSlot, k, a
  <1>4. NextSlot(i) = (IF i = k - 1 THEN 0 ELSE i + 1) /\ NextSlot(i) \in 0 .. k - 1
    BY <1>1, <1>2, <1>3
  <1>. QED  BY <1>4 DEF Index, k

LEMMA LengthIs ==
  ASSUME NEW h \in Index, NEW t \in Index
  PROVE  Length(h, t) = IF t >= h THEN t - h ELSE t + kQueueDepth - h
  <1>. DEFINE k == kQueueDepth  a == t + k - h
  <1>1. k \in Nat \ {0} /\ h \in 0 .. k - 1 /\ t \in 0 .. k - 1 /\ a \in 0 .. k + k - 1
    BY RingAssumption DEF Index
  <1>. HIDE DEF k, a
  <1>2. a % k = IF a < k THEN a ELSE a - k
    BY <1>1, Remainder
  <1>3. Length(h, t) = a % k /\ a = t + k - h
    BY DEF Length, k, a
  <1>4. Length(h, t) = IF t >= h THEN t - h ELSE t + k - h
    BY <1>1, <1>2, <1>3
  <1>. QED  BY <1>4 DEF k

LEMMA PlaceIs ==
  ASSUME NEW h \in Index, NEW i \in 1 .. kQueueDepth
  PROVE  /\ Place(h, i) = IF h + i - 1 < kQueueDepth THEN h + i - 1 ELSE h + i - 1 - kQueueDepth
         /\ Place(h, i) \in Index
  <1>. DEFINE k == kQueueDepth  a == h + i - 1
  <1>1. k \in Nat \ {0} /\ h \in 0 .. k - 1 /\ i \in 1 .. k /\ a \in 0 .. k + k - 1
    BY RingAssumption DEF Index
  <1>. HIDE DEF k, a
  <1>2. a % k = IF a < k THEN a ELSE a - k
    BY <1>1, Remainder
  <1>3. Place(h, i) = a % k /\ a = h + i - 1
    BY DEF Place, k, a
  <1>4. /\ Place(h, i) = IF h + i - 1 < k THEN h + i - 1 ELSE h + i - 1 - k
        /\ Place(h, i) \in 0 .. k - 1
    BY <1>1, <1>2, <1>3
  <1>. QED  BY <1>4 DEF Index, k
-----------------------------------------------------------------------------
(* What the two threads do to the waiting packets.                         *)

\* The slots that wait are all but the free one at tail.
LEMMA FreeSlot ==
  ASSUME NEW h \in Index, NEW t \in Index, NEW i \in 1 .. Length(h, t)
  PROVE  Place(h, i) # t /\ Place(h, i) \in Index
  <1>. DEFINE k == kQueueDepth  n == Length(h, t)
  <1>1. k \in Nat \ {0, 1} /\ h \in 0 .. k - 1 /\ t \in 0 .. k - 1 /\ i \in 1 .. n
    BY RingAssumption DEF Index
  <1>2. n = IF t >= h THEN t - h ELSE t + k - h
    BY LengthIs
  <1>. HIDE DEF k, n
  <1>3. i \in 1 .. k
    BY <1>1, <1>2
  <1>4. Place(h, i) = (IF h + i - 1 < k THEN h + i - 1 ELSE h + i - 1 - k) /\ Place(h, i) \in Index
    BY <1>3, PlaceIs DEF k
  <1>. QED  BY <1>1, <1>2, <1>4

\* One more at the tail, unless the ring is full.
LEMMA Longer ==
  ASSUME NEW h \in Index, NEW t \in Index, NextSlot(t) # h
  PROVE  /\ Length(h, NextSlot(t)) = Length(h, t) + 1
         /\ Length(h, t) \in 0 .. kQueueDepth - 2
         /\ Place(h, Length(h, t) + 1) = t
  <1>. DEFINE k == kQueueDepth  u == NextSlot(t)  n == Length(h, t)
  <1>1. k \in Nat \ {0, 1} /\ h \in 0 .. k - 1 /\ t \in 0 .. k - 1
    BY RingAssumption DEF Index
  <1>2. u = (IF t = k - 1 THEN 0 ELSE t + 1) /\ u \in Index
    BY NextSlotIs
  <1>3. n = IF t >= h THEN t - h ELSE t + k - h
    BY LengthIs
  <1>4. Length(h, u) = IF u >= h THEN u - h ELSE u + k - h
    BY <1>2, LengthIs
  <1>. HIDE DEF k, u, n
  <1>5. u # h
    BY DEF u
  <1>6. Length(h, u) = n + 1 /\ n \in 0 .. k - 2
    BY <1>1, <1>2, <1>3, <1>4, <1>5
  <1>7. n + 1 \in 1 .. k
    BY <1>1, <1>6
  <1>8. Place(h, n + 1) = IF h + (n + 1) - 1 < k THEN h + (n + 1) - 1 ELSE h + (n + 1) - 1 - k
    BY <1>7, PlaceIs DEF k
  <1>9. Place(h, n + 1) = t
    BY <1>1, <1>3, <1>8
  <1>. QED  BY <1>6, <1>9 DEF k, u, n

\* One less at the head, unless it is empty.
LEMMA Shorter ==
  ASSUME NEW h \in Index, NEW t \in Index, h # t
  PROVE  /\ Length(NextSlot(h), t) = Length(h, t) - 1
         /\ Length(h, t) \in 1 .. kQueueDepth - 1
         /\ Place(h, 1) = h
         /\ \A i \in 1 .. Length(h, t) - 1 : Place(NextSlot(h), i) = Place(h, i + 1)
  <1>. DEFINE k == kQueueDepth  g == NextSlot(h)  n == Length(h, t)
  <1>1. k \in Nat \ {0, 1} /\ h \in 0 .. k - 1 /\ t \in 0 .. k - 1
    BY RingAssumption DEF Index
  <1>2. g = (IF h = k - 1 THEN 0 ELSE h + 1) /\ g \in Index
    BY NextSlotIs
  <1>3. n = IF t >= h THEN t - h ELSE t + k - h
    BY LengthIs
  <1>4. Length(g, t) = IF t >= g THEN t - g ELSE t + k - g
    BY <1>2, LengthIs
  <1>5. ASSUME NEW j \in 1 .. k
        PROVE  /\ Place(h, j) = IF h + j - 1 < k THEN h + j - 1 ELSE h + j - 1 - k
               /\ Place(g, j) = IF g + j - 1 < k THEN g + j - 1 ELSE g + j - 1 - k
    BY <1>2, PlaceIs
  <1>. HIDE DEF k, g, n
  <1>6. Length(g, t) = n - 1 /\ n \in 1 .. k - 1
    BY <1>1, <1>2, <1>3, <1>4
  <1>7. Place(h, 1) = h
    <2>1. 1 \in 1 .. k
      BY <1>1
    <2>2. Place(h, 1) = IF h + 1 - 1 < k THEN h + 1 - 1 ELSE h + 1 - 1 - k
      BY <2>1, <1>5
    <2>. QED  BY <1>1, <2>2
  <1>8. ASSUME NEW i \in 1 .. n - 1
        PROVE  Place(g, i) = Place(h, i + 1)
    <2>1. i \in 1 .. k /\ i + 1 \in 1 .. k
      BY <1>1, <1>6
    <2>2. Place(g, i) = IF g + i - 1 < k THEN g + i - 1 ELSE g + i - 1 - k
      BY <2>1, <1>5
    <2>3. Place(h, i + 1) = IF h + (i + 1) - 1 < k THEN h + (i + 1) - 1 ELSE h + (i + 1) - 1 - k
      BY <2>1, <1>5
    <2>. QED  BY <1>1, <1>2, <2>1, <2>2, <2>3
  <1>. QED  BY <1>6, <1>7, <1>8 DEF k, g, n

LEMMA NextSlotInjective ==
  ASSUME NEW h \in Index, NEW t \in Index, NextSlot(h) = NextSlot(t)
  PROVE  h = t
  <1>. DEFINE k == kQueueDepth
  <1>1. k \in Nat \ {0, 1} /\ h \in 0 .. k - 1 /\ t \in 0 .. k - 1
    BY RingAssumption DEF Index
  <1>2. /\ NextSlot(h) = IF h = k - 1 THEN 0 ELSE h + 1
        /\ NextSlot(t) = IF t = k - 1 THEN 0 ELSE t + 1
    BY NextSlotIs
  <1>3. (IF h = k - 1 THEN 0 ELSE h + 1) = (IF t = k - 1 THEN 0 ELSE t + 1)
    BY <1>2
  <1>. HIDE DEF k
  <1>. QED  BY <1>1, <1>3
-----------------------------------------------------------------------------
(* The invariant.                                                          *)

\* The callback in the middle of a slot owns it: it is free and at tail.
Writing ==
  /\ producer # "idle" =>
       started /\ arriving \in Datagram /\ NextSlot(tail) # head
  /\ producer = "writeData" => ring[tail].from = arriving.from
  /\ producer = "publish" => ring[tail] = arriving

\* The main loop in the middle of a slot is at head, and that slot waits.
Reading ==
  /\ consumer # "idle" => started /\ head # tail
  /\ consumer = "copyData" => copied.from = ring[head].from
  /\ consumer = "advance" => copied = ring[head]

RingInv == TypeOK /\ Writing /\ Reading

LEMMA InitRingInv == Init => RingInv
  <1>1. 0 \in Index
    BY RingAssumption DEF Index
  <1>2. BlankSlot \in Slot
    BY DEF BlankSlot, Slot
  <1>3. Init => TypeOK
    <2>1. [i \in Index |-> BlankSlot] \in [Index -> Slot]
      BY <1>2
    <2>2. Init => started \in BOOLEAN /\ overflowed \in BOOLEAN
      BY DEF Init
    <2>3. Init => /\ begins \in Nat /\ head \in Index /\ tail \in Index
                  /\ ring \in [Index -> Slot]
                  /\ arriving \in Slot /\ copied \in Slot /\ received \in Slot
      BY <1>1, <1>2, <2>1 DEF Init
    <2>4. Init => producer = "idle" /\ consumer = "idle"
      BY DEF Init
    <2>. QED  BY <2>2, <2>3, <2>4 DEF TypeOK
  <1>. QED  BY <1>3 DEF Init, RingInv, Writing, Reading

LEMMA CallbackKeepsInv == RingInv /\ Callback => RingInv'
  <1>. SUFFICES ASSUME RingInv, Callback PROVE RingInv'
    OBVIOUS
  <1>. USE DEF RingInv, TypeOK, Writing, Reading, radioVars, ringVars, consumerVars
  <1>1. ASSUME NEW p \in Datagram, Arrive(p) PROVE RingInv'
    BY <1>1 DEF Arrive, Full, Datagram, Slot
  <1>2. CASE WriteFrom
    <2>1. head # tail => ring'[head] = ring[head]
      BY <1>2 DEF WriteFrom
    <2>2. ring' \in [Index -> Slot] /\ ring'[tail].from = arriving.from
      BY <1>2 DEF WriteFrom, Slot
    <2>. QED  BY <1>2, <2>1, <2>2 DEF WriteFrom
  <1>3. CASE WriteData
    <2>1. head # tail => ring'[head] = ring[head]
      BY <1>3 DEF WriteData
    <2>2. ring' \in [Index -> Slot] /\ ring'[tail] = arriving
      BY <1>3 DEF WriteData, Slot, Datagram
    <2>. QED  BY <1>3, <2>1, <2>2 DEF WriteData
  <1>4. CASE Publish
    BY <1>4, NextSlotIs DEF Publish
  <1>. QED  BY <1>1, <1>2, <1>3, <1>4 DEF Callback

LEMMA MainLoopKeepsInv == RingInv /\ MainLoop => RingInv'
  <1>. SUFFICES ASSUME RingInv, MainLoop PROVE RingInv'
    OBVIOUS
  <1>. USE DEF RingInv, TypeOK, Writing, Reading, radioVars, ringVars, producerVars, consumerVars
  <1>1. CASE Look
    BY <1>1 DEF Look
  <1>2. CASE CopyFrom
    <2>1. copied' \in Slot /\ copied'.from = ring[head].from
      BY <1>2 DEF CopyFrom, Slot
    <2>. QED  BY <1>2, <2>1 DEF CopyFrom
  <1>3. CASE CopyData
    <2>1. copied' \in Slot /\ copied' = ring[head]
      BY <1>3 DEF CopyData, Slot
    <2>. QED  BY <1>3, <2>1 DEF CopyData
  <1>4. CASE Advance
    <2>1. NextSlot(head) \in Index /\ NextSlot(head) # NextSlot(tail)
      BY <1>4, NextSlotIs, NextSlotInjective DEF Advance
    <2>. QED  BY <1>4, <2>1 DEF Advance
  <1>5. CASE Begin
    BY <1>5 DEF Begin
  <1>6. CASE End
    <2>1. 0 \in Index
      BY RingAssumption DEF Index
    <2>. QED  BY <1>6, <2>1 DEF End
  <1>. QED  BY <1>1, <1>2, <1>3, <1>4, <1>5, <1>6 DEF MainLoop

\* Type correctness and who owns which slot, in every reachable state.
THEOREM RingInvariant == Spec => []RingInv
  <1>1. RingInv /\ UNCHANGED vars => RingInv'
    BY DEF RingInv, TypeOK, Writing, Reading, vars, radioVars, ringVars, producerVars, consumerVars
  <1>2. RingInv /\ [Next]_vars => RingInv'
    BY <1>1, CallbackKeepsInv, MainLoopKeepsInv DEF Next
  <1>. QED  BY InitRingInv, <1>2, PTL DEF Spec

\* Every variable of the ring keeps its type, for every depth of the ring.
THEOREM RingTypeCorrect == Spec => []TypeOK
  <1>1. RingInv => TypeOK
    BY DEF RingInv
  <1>. QED  BY <1>1, RingInvariant, PTL

\* What receive() has copied is the packet at the head when it gives the slot
\* back, for every depth of the ring (LinkRadio.cpp:107).
THEOREM CopyStaysCurrent == Spec => []CopyIsCurrent
  <1>1. RingInv => CopyIsCurrent
    BY DEF RingInv, Reading, CopyIsCurrent
  <1>. QED  BY <1>1, RingInvariant, PTL
-----------------------------------------------------------------------------
(* The refinement: Publish puts, Advance takes, an Arrive at a full ring   *)
(* refuses, Begin opens and End closes; every other step leaves the queue  *)
(* alone.                                                                  *)

WaitingFacts ==
  /\ Waiting = [i \in 1 .. Length(head, tail) |-> ring[Place(head, i)]]
  /\ Waiting \in Seq(Slot)
  /\ Len(Waiting) = Length(head, tail)
  /\ Length(head, tail) \in 0 .. kQueueDepth - 1

LEMMA WaitingIs == TypeOK => WaitingFacts
  <1>. SUFFICES ASSUME TypeOK PROVE WaitingFacts
    OBVIOUS
  <1>1. Waiting = [i \in 1 .. Length(head, tail) |-> ring[Place(head, i)]]
    BY DEF Waiting, Length, Place
  <1>2. Length(head, tail) \in 0 .. kQueueDepth - 1
    <2>. DEFINE k == kQueueDepth
    <2>1. k \in Nat \ {0, 1} /\ head \in 0 .. k - 1 /\ tail \in 0 .. k - 1
      BY RingAssumption DEF Index, TypeOK
    <2>2. Length(head, tail) = IF tail >= head THEN tail - head ELSE tail + k - head
      BY LengthIs DEF TypeOK
    <2>. QED  BY <2>1, <2>2
  <1>3. \A i \in 1 .. Length(head, tail) : ring[Place(head, i)] \in Slot
    BY FreeSlot DEF TypeOK
  <1>4. Length(head, tail) \in Nat
    BY <1>2, RingAssumption
  <1>5. Waiting \in [1 .. Length(head, tail) -> Slot]
    BY <1>1, <1>3
  <1>6. Waiting \in Seq(Slot)
    BY <1>4, <1>5, SeqDef
  <1>7. Len(Waiting) = Length(head, tail)
    <2>1. DOMAIN Waiting = 1 .. Length(head, tail) /\ DOMAIN Waiting = 1 .. Len(Waiting)
      BY <1>5, <1>6, LenProperties
    <2>. QED  BY <1>4, <1>6, <2>1, LenProperties
  <1>. QED  BY <1>1, <1>2, <1>6, <1>7 DEF WaitingFacts

LEMMA WaitingIsNext == TypeOK' => WaitingFacts'
  BY WaitingIs, PTL

LEMMA PublishPuts == RingInv /\ Publish => Queue!Put
  <1>. SUFFICES ASSUME RingInv, Publish PROVE Queue!Put
    OBVIOUS
  <1>. DEFINE n == Length(head, tail)
  <1>1. TypeOK /\ TypeOK'
    BY CallbackKeepsInv DEF RingInv, Callback
  <1>2. /\ arriving \in Datagram /\ ring[tail] = arriving /\ NextSlot(tail) # head
        /\ head \in Index /\ tail \in Index /\ n \in Nat
        /\ head' = head /\ tail' = NextSlot(tail) /\ ring' = ring /\ received' = received
        /\ started /\ UNCHANGED <<started, overflowed>>
    BY <1>1, WaitingIs, RingAssumption
    DEF WaitingFacts, RingInv, TypeOK, Writing, Publish, radioVars, ringVars, consumerVars
  <1>3. n < kQueueDepth - 1 /\ Length(head', tail') = n + 1 /\ Place(head, n + 1) = tail
    BY <1>2, Longer, RingAssumption
  <1>4. Waiting \in Seq(Slot) /\ Len(Waiting) = n
    BY <1>1, WaitingIs DEF WaitingFacts
  <1>4a. Waiting = [i \in 1 .. n |-> ring[Place(head, i)]]
    BY <1>1, WaitingIs DEF WaitingFacts
  <1>5. /\ Waiting' \in Seq(Slot) /\ Len(Waiting') = n + 1
        /\ Waiting' = [i \in 1 .. n + 1 |-> ring[Place(head, i)]]
    <2>1. /\ Waiting' \in Seq(Slot) /\ Len(Waiting') = Length(head', tail')
          /\ Waiting' = [i \in 1 .. Length(head', tail') |-> ring'[Place(head', i)]]
      BY <1>1, WaitingIsNext DEF WaitingFacts
    <2>. QED  BY <1>2, <1>3, <2>1
  <1>. HIDE DEF n
  <1>6. arriving \in Slot
    BY <1>2 DEF Datagram, Slot
  <1>7. /\ Append(Waiting, arriving) \in Seq(Slot)
        /\ Len(Append(Waiting, arriving)) = n + 1
        /\ \A i \in 1 .. n : Append(Waiting, arriving)[i] = Waiting[i]
        /\ Append(Waiting, arriving)[n + 1] = arriving
    BY <1>4, <1>6, AppendProperties
  <1>8. ASSUME NEW i \in 1 .. n + 1
        PROVE  Waiting'[i] = Append(Waiting, arriving)[i]
    <2>1. CASE i = n + 1
      <3>1. n + 1 \in 1 .. n + 1
        BY <1>2
      <3>2. Waiting'[n + 1] = ring[Place(head, n + 1)]
        BY <1>5, <3>1
      <3>. QED  BY <1>2, <1>3, <1>7, <2>1, <3>2
    <2>2. CASE i \in 1 .. n
      <3>1. Waiting'[i] = ring[Place(head, i)]
        BY <1>5
      <3>2. Waiting[i] = ring[Place(head, i)]
        BY <1>4a, <2>2
      <3>3. Append(Waiting, arriving)[i] = Waiting[i]
        BY <1>7, <2>2
      <3>. QED  BY <3>1, <3>2, <3>3
    <2>3. i = n + 1 \/ i \in 1 .. n
      <3>1. n \in Nat
        BY <1>2
      <3>. QED  BY <3>1
    <2>. QED  BY <2>1, <2>2, <2>3
  <1>9. Waiting' = Append(Waiting, arriving)
    BY <1>5, <1>7, <1>8, SeqEqual
  <1>. QED  BY <1>2, <1>3, <1>4, <1>9 DEF Queue!Put

LEMMA AdvanceTakes == RingInv /\ Advance => Queue!Take
  <1>. SUFFICES ASSUME RingInv, Advance PROVE Queue!Take
    OBVIOUS
  <1>. DEFINE n == Length(head, tail)
  <1>1. TypeOK /\ TypeOK'
    BY MainLoopKeepsInv DEF RingInv, MainLoop
  <1>2. /\ copied = ring[head] /\ head # tail
        /\ head \in Index /\ tail \in Index /\ n \in Nat
        /\ head' = NextSlot(head) /\ tail' = tail /\ ring' = ring /\ received' = copied
        /\ started /\ UNCHANGED <<started, overflowed>>
    BY <1>1, WaitingIs, RingAssumption
    DEF WaitingFacts, RingInv, TypeOK, Reading, Advance, radioVars, ringVars, consumerVars
  <1>3. /\ n \in 1 .. kQueueDepth - 1 /\ Length(head', tail') = n - 1 /\ Place(head, 1) = head
        /\ \A i \in 1 .. n - 1 : Place(head', i) = Place(head, i + 1)
    BY <1>2, Shorter
  <1>4. Waiting \in Seq(Slot) /\ Len(Waiting) = n
    BY <1>1, WaitingIs DEF WaitingFacts
  <1>4a. Waiting = [i \in 1 .. n |-> ring[Place(head, i)]]
    BY <1>1, WaitingIs DEF WaitingFacts
  <1>5. /\ Waiting' \in Seq(Slot) /\ Len(Waiting') = n - 1
        /\ Waiting' = [i \in 1 .. n - 1 |-> ring[Place(head', i)]]
    <2>1. /\ Waiting' \in Seq(Slot) /\ Len(Waiting') = Length(head', tail')
          /\ Waiting' = [i \in 1 .. Length(head', tail') |-> ring'[Place(head', i)]]
      BY <1>1, WaitingIsNext DEF WaitingFacts
    <2>. QED  BY <1>2, <1>3, <2>1
  <1>. HIDE DEF n
  <1>6. n \in Nat \ {0} /\ 1 \in 1 .. n /\ Waiting # <<>>
    BY <1>2, <1>3, <1>4, EmptySeq
  <1>7. Head(Waiting) = received'
    <2>1. Head(Waiting) = Waiting[1]
      BY <1>4, <1>6
    <2>. QED  BY <1>2, <1>3, <1>4a, <1>6, <2>1
  <1>8. /\ Tail(Waiting) \in Seq(Slot) /\ Len(Tail(Waiting)) = n - 1
        /\ \A i \in 1 .. n - 1 : Tail(Waiting)[i] = Waiting[i + 1]
    BY <1>4, <1>6, HeadTailProperties
  <1>9. ASSUME NEW i \in 1 .. n - 1
        PROVE  Waiting'[i] = Tail(Waiting)[i]
    <2>1. i + 1 \in 1 .. n
      BY <1>6
    <2>. QED  BY <1>3, <1>4a, <1>5, <1>8, <2>1
  <1>10. Waiting' = Tail(Waiting)
    BY <1>5, <1>8, <1>9, SeqEqual
  <1>. QED  BY <1>2, <1>6, <1>7, <1>10 DEF Queue!Take

LEMMA EndCloses == RingInv /\ End => Queue!Close
  <1>. SUFFICES ASSUME RingInv, End PROVE Queue!Close
    OBVIOUS
  <1>1. /\ TypeOK' /\ head' = 0 /\ tail' = 0 /\ received' = received
        /\ started /\ started' = FALSE /\ overflowed' = FALSE
    BY MainLoopKeepsInv DEF RingInv, MainLoop, End, consumerVars
  <1>2. Length(0, 0) = 0
    <2>1. 0 \in Index /\ 0 >= 0 /\ 0 - 0 = 0
      BY RingAssumption DEF Index
    <2>. QED  BY <2>1, LengthIs
  <1>3. Waiting' \in Seq(Slot) /\ Len(Waiting') = Length(head', tail')
    BY <1>1, WaitingIsNext DEF WaitingFacts
  <1>4. Waiting' = <<>>
    BY <1>1, <1>2, <1>3, EmptySeq
  <1>. QED  BY <1>1, <1>4 DEF Queue!Close

\* A step that moves neither index and touches no slot but the free one
\* leaves the waiting packets alone.
LEMMA WaitingKept ==
  ASSUME TypeOK, UNCHANGED <<head, tail>>,
         \A i \in Index \ {tail} : ring'[i] = ring[i]
  PROVE  Waiting' = Waiting
  <1>1. head \in Index /\ tail \in Index
    BY DEF TypeOK
  <1>2. \A i \in 1 .. Length(head, tail) : ring'[Place(head, i)] = ring[Place(head, i)]
    BY <1>1, FreeSlot
  <1>3. Waiting = [i \in 1 .. Length(head, tail) |-> ring[Place(head, i)]]
    BY DEF Waiting, Length, Place
  <1>4. Waiting' = [i \in 1 .. Length(head, tail) |-> ring'[Place(head, i)]]
    BY DEF Waiting, Length, Place
  <1>. QED  BY <1>2, <1>3, <1>4

LEMMA OthersStutter ==
  ASSUME TypeOK, UNCHANGED <<started, head, tail, overflowed, received>>,
         \A i \in Index \ {tail} : ring'[i] = ring[i]
  PROVE  UNCHANGED Queue!vars
  BY WaitingKept DEF Queue!vars

LEMMA BeginOpens == RingInv /\ Begin => Queue!Open
  <1>. SUFFICES ASSUME RingInv, Begin PROVE Queue!Open
    OBVIOUS
  <1>1. Waiting' = Waiting
    BY WaitingKept DEF RingInv, Begin, ringVars
  <1>. QED  BY <1>1 DEF Begin, ringVars, consumerVars, Queue!Open

\* A ring with no slot to write to is a queue at its capacity.
LEMMA FullIsCapacity == TypeOK /\ Full => Len(Waiting) = kQueueDepth - 1
  <1>. SUFFICES ASSUME TypeOK, Full PROVE Len(Waiting) = kQueueDepth - 1
    OBVIOUS
  <1>. DEFINE k == kQueueDepth
  <1>1. k \in Nat \ {0, 1} /\ head \in 0 .. k - 1 /\ tail \in 0 .. k - 1
    BY RingAssumption DEF Index, TypeOK
  <1>2. head = IF tail = k - 1 THEN 0 ELSE tail + 1
    BY NextSlotIs DEF TypeOK, Full
  <1>3. Length(head, tail) = IF tail >= head THEN tail - head ELSE tail + k - head
    BY LengthIs DEF TypeOK
  <1>4. Len(Waiting) = Length(head, tail)
    BY WaitingIs DEF WaitingFacts
  <1>. HIDE DEF k
  <1>5. Length(head, tail) = k - 1
    BY <1>1, <1>2, <1>3
  <1>. QED  BY <1>4, <1>5 DEF k

\* A packet handed to the callback is refused by a full ring, or only noted.
LEMMA ArriveRefuses ==
  ASSUME RingInv, NEW p \in Datagram, Arrive(p)
  PROVE  [Queue!Next]_(Queue!vars)
  <1>1. TypeOK
    BY DEF RingInv
  <1>2. CASE Full
    <2>1. Waiting' = Waiting
      BY <1>1, WaitingKept DEF Arrive
    <2>2. Queue!Refuse
      BY <1>1, <1>2, <2>1, FullIsCapacity DEF Arrive, radioVars, consumerVars, Queue!Refuse
    <2>. QED  BY <2>2 DEF Queue!Next
  <1>3. CASE ~Full
    BY <1>1, <1>3, OthersStutter DEF Arrive, radioVars, consumerVars
  <1>. QED  BY <1>2, <1>3

LEMMA StepsRefine == RingInv /\ RingInv' /\ [Next]_vars => [Queue!Next]_(Queue!vars)
  <1>. SUFFICES ASSUME RingInv, RingInv', [Next]_vars PROVE [Queue!Next]_(Queue!vars)
    OBVIOUS
  <1>1. TypeOK
    BY DEF RingInv
  <1>2. ASSUME NEW p \in Datagram, Arrive(p) PROVE [Queue!Next]_(Queue!vars)
    BY <1>2, ArriveRefuses
  <1>3. CASE WriteFrom
    <2>1. \A i \in Index \ {tail} : ring'[i] = ring[i]
      BY <1>1, <1>3 DEF WriteFrom, TypeOK
    <2>. QED  BY <1>1, <1>3, <2>1, OthersStutter DEF WriteFrom, radioVars, consumerVars
  <1>4. CASE WriteData
    <2>1. \A i \in Index \ {tail} : ring'[i] = ring[i]
      BY <1>1, <1>4 DEF WriteData, TypeOK
    <2>. QED  BY <1>1, <1>4, <2>1, OthersStutter DEF WriteData, radioVars, consumerVars
  <1>5. CASE Publish
    BY <1>5, PublishPuts DEF Queue!Next
  <1>6. CASE Look \/ CopyFrom \/ CopyData
    BY <1>1, <1>6, OthersStutter DEF Look, CopyFrom, CopyData, radioVars, ringVars, consumerVars
  <1>7. CASE Advance
    BY <1>7, AdvanceTakes DEF Queue!Next
  <1>8. CASE End
    BY <1>8, EndCloses DEF Queue!Next
  <1>9. CASE UNCHANGED vars
    BY <1>1, <1>9, OthersStutter DEF vars, radioVars, ringVars, consumerVars
  <1>10. CASE Begin
    BY <1>10, BeginOpens DEF Queue!Next
  <1>. QED
    BY <1>2, <1>3, <1>4, <1>5, <1>6, <1>7, <1>8, <1>9, <1>10 DEF Next, Callback, MainLoop

\* The ring is a bounded queue of whole packets, for every depth, every sender
\* and every packet (LinkRadio.h:77-81).
THEOREM RingImplementsQueue == Spec => ImplementsQueue
  <1>1. Init => Queue!Init
    <2>. SUFFICES ASSUME Init PROVE Queue!Init
      OBVIOUS
    <2>1. /\ TypeOK /\ head = 0 /\ tail = 0 /\ received = BlankSlot
          /\ started = FALSE /\ overflowed = FALSE
      BY InitRingInv DEF RingInv, Init
    <2>2. Length(0, 0) = 0
      <3>1. 0 \in Index /\ 0 >= 0 /\ 0 - 0 = 0
        BY RingAssumption DEF Index
      <3>. QED  BY <3>1, LengthIs
    <2>3. Waiting = <<>>
      BY <2>1, <2>2, WaitingIs, EmptySeq DEF WaitingFacts
    <2>. QED  BY <2>1, <2>3 DEF Queue!Init
  <1>. QED  BY <1>1, StepsRefine, RingInvariant, PTL DEF Spec, ImplementsQueue, Queue!Spec
=============================================================================
