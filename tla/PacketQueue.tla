---------------------------- MODULE PacketQueue ----------------------------
(***************************************************************************)
(* What the receive ring promises its reader: whole packets, once each, in *)
(* the order they arrived, from a queue of bounded length.  A packet is    *)
(* refused only when the queue is full, and waiting packets are thrown     *)
(* away only when the queue is closed.                                     *)
(***************************************************************************)
EXTENDS Naturals, Sequences

CONSTANTS Datagram, Capacity, NoDatagram

VARIABLES
  open,    \* packets are accepted
  queue,   \* packets waiting, oldest first
  refused, \* a packet has been refused since the queue was opened
  last     \* the packet receive() returned last

vars == <<open, queue, refused, last>>

Init == ~open /\ queue = <<>> /\ ~refused /\ last = NoDatagram

Put ==
  /\ open
  /\ Len(queue) < Capacity
  /\ \E p \in Datagram : queue' = Append(queue, p)
  /\ UNCHANGED <<open, refused, last>>

Refuse ==
  /\ open
  /\ Len(queue) = Capacity
  /\ refused' = TRUE
  /\ UNCHANGED <<open, queue, last>>

Take ==
  /\ open
  /\ queue # <<>>
  /\ last' = Head(queue)
  /\ queue' = Tail(queue)
  /\ UNCHANGED <<open, refused>>

Open ==
  /\ ~open
  /\ open' = TRUE
  /\ UNCHANGED <<queue, refused, last>>

Close ==
  /\ open
  /\ open' = FALSE
  /\ queue' = <<>>
  /\ refused' = FALSE
  /\ UNCHANGED last

Next == Put \/ Refuse \/ Take \/ Open \/ Close

Spec == Init /\ [][Next]_vars
=============================================================================
