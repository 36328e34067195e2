------------------------- MODULE LinkSessionProofs -------------------------
(***************************************************************************)
(* Theorems about LinkSession, for any set of devices, tosses and moves:   *)
(* types, one host and one writer, and what the two kinds of               *)
(* acknowledgement mean.                                                   *)
(***************************************************************************)
EXTENDS LinkSessionInv, TLAPS

USE LinkAssumption DEF NoDevice, NoNote, NoGame

-----------------------------------------------------------------------------
(* Type correctness.                                                       *)

LEMMA EmptyTypes ==
  /\ NoOutgoing \in Outgoing /\ NoIncoming \in Incoming /\ NoSay \in Saying
  /\ <<>> \in Board
  BY DEF NoOutgoing, NoIncoming, NoSay, Outgoing, Incoming, Saying, Board

\* Every packet a device builds is well formed.
LEMMA PktType ==
  ASSUME TypeOK, NEW d \in Device, NEW type \in PacketType,
         NEW to \in Device \cup {kBroadcast, NoDevice}, NEW seq \in Nat
  PROVE  Pkt(d, type, to, seq) \in Packet
  BY EmptyTypes DEF TypeOK, LifeOK, Pkt, Packet

LEMMA StatePktType ==
  ASSUME TypeOK, NEW d \in Device, NEW seq \in Nat, NEW b \in Board
  PROVE  StatePkt(d, seq, b) \in Packet
<1>1. Pkt(d, "State", peer[d], seq) \in Packet
  <2>1. "State" \in PacketType /\ peer[d] \in Device \cup {kBroadcast, NoDevice}
    BY DEF TypeOK, MatchOK, PacketType
  <2> QED
    BY <2>1, PktType
<1> QED
  BY <1>1 DEF StatePkt, Packet

LEMMA SayPktType ==
  ASSUME TypeOK, NEW d \in Device, NEW seq \in Nat, NEW n \in Note \cup {NoNote}
  PROVE  SayPkt(d, seq, n) \in Packet
<1>1. Pkt(d, "Say", peer[d], seq) \in Packet
  <2>1. "Say" \in PacketType /\ peer[d] \in Device \cup {kBroadcast, NoDevice}
    BY DEF TypeOK, MatchOK, PacketType
  <2> QED
    BY <2>1, PktType
<1> QED
  BY <1>1 DEF SayPkt, Packet

\* A step that only sends a well-formed packet preserves the types.
LEMMA SendOnly ==
  ASSUME TypeOK, NEW p \in Packet, Send(p),
         UNCHANGED <<lifeVars, matchVars, moveVars, noteVars, board>>
  PROVE  TypeOK'
  BY DEF Send, TypeOK, LifeOK, MatchOK, MoveOK, NoteOK,
         lifeVars, matchVars, moveVars, noteVars

\* Ceasing to retry, or taking what waits, changes no content and no number.
LEMMA StopRetry ==
  ASSUME TypeOK, NEW d \in Device, outgoing' = [outgoing EXCEPT ![d].pending = FALSE]
  PROVE  /\ outgoing' \in [Device -> Outgoing]
         /\ \A e \in Device : outgoing'[e].seq = outgoing[e].seq
<1> DEFINE o == [outgoing[d] EXCEPT !.pending = FALSE]
<1>1. outgoing \in [Device -> Outgoing] /\ outgoing[d] \in Outgoing
  BY DEF TypeOK, MoveOK
<1>2. o \in Outgoing /\ o.seq = outgoing[d].seq
  BY <1>1 DEF Outgoing
<1>3. outgoing' = [outgoing EXCEPT ![d] = o]
  OBVIOUS
<1> HIDE DEF o
<1> QED
  BY <1>1, <1>2, <1>3

LEMMA TakenType ==
  ASSUME TypeOK, NEW d \in Device
  PROVE  [incoming EXCEPT ![d].pending = FALSE] \in [Device -> Incoming]
<1>1. incoming \in [Device -> Incoming] /\ incoming[d] \in Incoming
  BY DEF TypeOK, MoveOK
<1>2. [incoming[d] EXCEPT !.pending = FALSE] \in Incoming
  BY <1>1 DEF Incoming
<1> QED
  BY <1>1, <1>2

LEMMA SaidType ==
  ASSUME NEW f \in [Device -> Saying], NEW d \in Device
  PROVE  [f EXCEPT ![d].pending = FALSE] \in [Device -> Saying]
<1>1. [f[d] EXCEPT !.pending = FALSE] \in Saying
  BY DEF Saying
<1> QED
  BY <1>1

LEMMA EndType ==
  ASSUME TypeOK, NEW d \in Device, NEW r \in EndReason, End(d, r), net' \subseteq Packet
  PROVE  TypeOK'
<1>1. LifeOK'
  BY DEF End, TypeOK, LifeOK, State
<1>2. MatchOK' /\ NoteOK'
  BY DEF End, TypeOK, MatchOK, NoteOK, matchVars, noteVars
<1>3. MoveOK'
  <2>1. outgoing' \in [Device -> Outgoing]
    BY StopRetry DEF End
  <2> QED
    BY <2>1 DEF End, TypeOK, MoveOK
<1>4. \A e \in Device : peer'[e] # e /\ candidate'[e] # e
  BY DEF End, TypeOK, LifeOK, matchVars
<1> QED
  BY <1>1, <1>2, <1>3, <1>4 DEF End, TypeOK

LEMMA ResetType ==
  ASSUME TypeOK, NEW d \in Device, ResetLink(d)
  PROVE  /\ MatchOK' /\ MoveOK' /\ NoteOK'
         /\ endReason' \in [Device -> EndReason]
         /\ candidate' \in [Device -> Device \cup {NoDevice}]
         /\ \A e \in Device : peer'[e] # e /\ candidate'[e] # e
<1>1. MatchOK'
  BY DEF ResetLink, TypeOK, MatchOK
<1>2. MoveOK'
  BY EmptyTypes DEF ResetLink, TypeOK, MoveOK
<1>3. NoteOK'
  BY EmptyTypes DEF ResetLink, TypeOK, NoteOK
<1> QED
  BY <1>1, <1>2, <1>3 DEF ResetLink, TypeOK, LifeOK, MatchOK, EndReason

LEMMA MatchType ==
  ASSUME TypeOK, NEW d \in Device, NEW p \in net, p.from # d, MatchWith(d, p)
  PROVE  TypeOK'
<1>1. p.from \in Device /\ p.toss \in Toss
  BY DEF TypeOK, Packet
<1>2. MovesFirst(d, toss[d], p.from, p.toss) \in BOOLEAN
  <2>1. CASE toss[d] # p.toss
    BY <2>1 DEF MovesFirst
  <2>2. CASE toss[d] = p.toss
    BY <2>2 DEF MovesFirst
  <2> QED
    BY <2>1, <2>2
<1>3. LifeOK'
  BY DEF MatchWith, TypeOK, LifeOK, State
<1>4. MatchOK'
  BY <1>1, <1>2 DEF MatchWith, TypeOK, MatchOK
<1>5. MoveOK'
  BY <1>2, EmptyTypes DEF MatchWith, TypeOK, MoveOK
<1>6. NoteOK'
  BY EmptyTypes DEF MatchWith, TypeOK, NoteOK
<1>7. net' \subseteq Packet
  <2>1. "Ack" \in PacketType /\ p.from \in Device \cup {kBroadcast, NoDevice} /\ 0 \in Nat
    BY <1>1 DEF PacketType
  <2>2. Pkt(d, "Ack", p.from, 0) \in Packet
    BY <2>1, PktType
  <2> QED
    BY <2>2 DEF MatchWith, Send, TypeOK
<1>8. board' \in [Device -> Board]
  BY EmptyTypes DEF MatchWith, TypeOK
<1>9. \A e \in Device : peer'[e] # e /\ candidate'[e] # e
  BY <1>1 DEF MatchWith, TypeOK, LifeOK, MatchOK
<1> QED
  BY <1>3, <1>4, <1>5, <1>6, <1>7, <1>8, <1>9 DEF TypeOK

LEMMA TypeInit == Init => TypeOK
  BY EmptyTypes DEF Init, TypeOK, LifeOK, MatchOK, MoveOK, NoteOK, State, EndReason

LEMMA TypeLocal ==
  ASSUME TypeOK, NEW d \in Device, Local(d)
  PROVE  TypeOK'
<1>1. ASSUME NEW g \in Game, NEW t \in Toss, Begin(d, g, t) PROVE TypeOK'
  <2>1. net' \subseteq Packet
    BY <1>1, EmptyTypes DEF Begin, Surviving, TypeOK, Packet, PacketType
  <2>2. ResetLink(d)
    BY <1>1 DEF Begin
  <2>3. /\ state' \in [Device -> State] /\ gameId' \in [Device -> Game \cup {NoGame}]
        /\ toss' \in [Device -> Toss] /\ trips' \in [Device -> Nat] /\ board' = board
    BY <1>1 DEF Begin, TypeOK, LifeOK, State
  <2> QED
    BY <2>1, <2>2, <2>3, ResetType DEF TypeOK, LifeOK
<1>2. CASE Leave(d)
  <2>1. net' \subseteq Packet
    <3>1. /\ "Bye" \in PacketType /\ peer[d] \in Device \cup {kBroadcast, NoDevice}
          /\ sequence[d] \in Nat
      BY DEF TypeOK, MatchOK, MoveOK, PacketType
    <3>2. Pkt(d, "Bye", peer[d], sequence[d]) \in Packet
      BY <3>1, PktType
    <3> QED
      BY <1>2, <3>2 DEF Leave, Send, TypeOK
  <2>2. End(d, "LocalLeft") /\ "LocalLeft" \in EndReason
    BY <1>2 DEF Leave, EndReason
  <2> QED
    BY <2>1, <2>2, EndType
<1>3. CASE Reset(d)
  <2>1. ResetLink(d)
    BY <1>3 DEF Reset
  <2>2. /\ state' \in [Device -> State] /\ gameId' \in [Device -> Game \cup {NoGame}]
        /\ toss' \in [Device -> Toss] /\ UNCHANGED <<trips, board, net>>
    BY <1>3 DEF Reset, TypeOK, LifeOK, State
  <2> QED
    BY <2>1, <2>2, ResetType DEF TypeOK, LifeOK
<1>4. ASSUME NEW m \in Move, Submit(d, m) PROVE TypeOK'
  <2>1. Append(board[d], m) \in Board /\ sequence[d] + 1 \in Nat
    BY DEF TypeOK, MoveOK, Board
  <2>2. StatePkt(d, sequence[d] + 1, Append(board[d], m)) \in Packet
    BY <2>1, StatePktType
  <2>3. net' \subseteq Packet
    BY <1>4, <2>2 DEF Submit, Play, MayPlay, Send, TypeOK
  <2>4. MoveOK' /\ board' \in [Device -> Board]
    BY <1>4, <2>1 DEF Submit, Play, MayPlay, TypeOK, MoveOK, Outgoing
  <2> QED
    BY <1>4, <2>3, <2>4 DEF Submit, Play, MayPlay, TypeOK, LifeOK, MatchOK, NoteOK, lifeVars, matchVars, noteVars
<1>5. CASE TakeIncoming(d)
  <2>1. MoveOK' /\ board' \in [Device -> Board]
    <3>1. incoming' \in [Device -> Incoming]
      BY <1>5, TakenType DEF TakeIncoming
    <3>2. incoming[d].board \in Board
      BY DEF TypeOK, MoveOK, Incoming
    <3> QED
      BY <1>5, <3>1, <3>2 DEF TakeIncoming, TypeOK, MoveOK
  <2> QED
    BY <1>5, <2>1 DEF TakeIncoming, TypeOK, LifeOK, MatchOK, NoteOK, lifeVars, matchVars, noteVars
<1>6. ASSUME NEW n \in Note, Announce(d, n) PROVE TypeOK'
  <2>1. outgoingSay[d].seq + 1 \in Nat
    BY DEF TypeOK, NoteOK, Saying
  <2>2. SayPkt(d, outgoingSay[d].seq + 1, n) \in Packet
    BY <2>1, SayPktType
  <2>3. net' \subseteq Packet
    BY <1>6, <2>2 DEF Announce, Send, TypeOK
  <2>4. NoteOK'
    BY <1>6, <2>1 DEF Announce, TypeOK, NoteOK, Saying
  <2> QED
    <3>1. UNCHANGED <<lifeVars, matchVars, moveVars, board>>
      BY <1>6 DEF Announce
    <3>2. LifeOK' /\ MatchOK' /\ MoveOK'
      BY <3>1 DEF TypeOK, LifeOK, MatchOK, MoveOK, lifeVars, matchVars, moveVars
    <3> QED
      BY <2>3, <2>4, <3>1, <3>2 DEF TypeOK, lifeVars, matchVars
<1>7. CASE TakeAnnouncement(d)
  <2>1. NoteOK'
    BY <1>7, SaidType DEF TakeAnnouncement, TypeOK, NoteOK
  <2> QED
    BY <1>7, <2>1 DEF TakeAnnouncement, TypeOK, LifeOK, MatchOK, MoveOK, lifeVars, matchVars, moveVars
<1> QED
  BY <1>1, <1>2, <1>3, <1>4, <1>5, <1>6, <1>7 DEF Local

LEMMA TypeTimer ==
  ASSUME TypeOK, NEW d \in Device, Timer(d)
  PROVE  TypeOK'
<1>0. /\ peer[d] \in Device \cup {kBroadcast, NoDevice}
      /\ candidate[d] \in Device \cup {kBroadcast, NoDevice}
      /\ sequence[d] \in Nat /\ outgoing[d] \in Outgoing /\ outgoingSay[d] \in Saying
      /\ {"Hello", "Join", "Ack"} \subseteq PacketType /\ 0 \in Nat
  BY DEF TypeOK, LifeOK, MatchOK, MoveOK, NoteOK, PacketType
<1>1. CASE ForgetCandidate(d)
  BY <1>1 DEF ForgetCandidate, TypeOK, LifeOK, MatchOK, MoveOK, NoteOK,
              matchVars, moveVars, noteVars
<1>2. CASE SendHello(d)
  <2>1. Pkt(d, "Hello", kBroadcast, 0) \in Packet
    BY <1>0, PktType
  <2> QED
    BY <1>2, <2>1, SendOnly DEF SendHello
<1>3. CASE SendJoin(d)
  <2>1. Pkt(d, "Join", candidate[d], 0) \in Packet
    BY <1>0, PktType
  <2> QED
    BY <1>3, <2>1, SendOnly DEF SendJoin
<1>4. CASE LosePeer(d)
  <2>1. End(d, "PeerLost") /\ "PeerLost" \in EndReason /\ net' \subseteq Packet
    BY <1>4 DEF LosePeer, EndReason, TypeOK
  <2> QED
    BY <2>1, EndType
<1>5. CASE RetrySay(d)
  <2>1. SayPkt(d, outgoingSay[d].seq, outgoingSay[d].note) \in Packet
    BY <1>0, SayPktType DEF Saying
  <2> QED
    BY <1>5, <2>1, SendOnly DEF RetrySay
<1>6. CASE RetryState(d)
  <2>1. StatePkt(d, outgoing[d].seq, outgoing[d].board) \in Packet
    BY <1>0, StatePktType DEF Outgoing
  <2> QED
    BY <1>6, <2>1, SendOnly DEF RetryState
<1>7. CASE Heartbeat(d)
  <2>1. Pkt(d, "Ack", peer[d], sequence[d]) \in Packet
    BY <1>0, PktType
  <2> QED
    BY <1>7, <2>1, SendOnly DEF Heartbeat
<1> QED
  BY <1>1, <1>2, <1>3, <1>4, <1>5, <1>6, <1>7 DEF Timer

LEMMA TypeReceive ==
  ASSUME TypeOK, NEW d \in Device, NEW p \in net, Receive(d, p)
  PROVE  TypeOK'
<1>0. /\ p \in Packet
      /\ p.from \in Device /\ p.seq \in Nat /\ p.board \in Board /\ p.note \in Note \cup {NoNote}
      /\ peer[d] \in Device \cup {kBroadcast, NoDevice}
      /\ {"Join", "Ack", "SayAck"} \subseteq PacketType /\ 0 \in Nat
      /\ "PeerLeft" \in EndReason
  BY DEF TypeOK, MatchOK, Packet, PacketType, EndReason
<1>1. CASE HearHello(d, p)
  <2>1. LifeOK' /\ \A e \in Device : candidate'[e] # e
    BY <1>0, <1>1 DEF HearHello, Receivable, TypeOK, LifeOK
  <2> QED
    BY <1>1, <2>1 DEF HearHello, TypeOK, MatchOK, MoveOK, NoteOK, matchVars, moveVars, noteVars
<1>2. CASE HearJoin(d, p)
  BY <1>2, MatchType DEF HearJoin, Receivable
<1>3. CASE HearFromMatched(d, p)
  BY <1>3, MatchType DEF HearFromMatched, Receivable
<1>4. CASE AnswerJoin(d, p)
  <2>1. Pkt(d, "Join", peer[d], 0) \in Packet
    BY <1>0, PktType
  <2> QED
    BY <1>4, <2>1, SendOnly DEF AnswerJoin
<1>5. CASE HearState(d, p)
  <2>1. MoveOK'
    <3>1. CASE p.seq > sequence[d]
      <4>1. /\ incoming' = [incoming EXCEPT ![d] = [board |-> p.board, pending |-> TRUE]]
            /\ sequence' = [sequence EXCEPT ![d] = p.seq]
            /\ myTurn' = [myTurn EXCEPT ![d] = TRUE]
            /\ outgoing' = [outgoing EXCEPT ![d].pending = FALSE]
        BY <1>5, <3>1 DEF HearState, Newer, AckCopy
      <4>2. [board |-> p.board, pending |-> TRUE] \in Incoming
        BY <1>0 DEF Incoming
      <4>3. outgoing' \in [Device -> Outgoing]
        BY <4>1, StopRetry
      <4> QED
        BY <1>0, <4>1, <4>2, <4>3 DEF TypeOK, MoveOK
    <3>2. CASE ~(p.seq > sequence[d])
      BY <1>5, <3>2 DEF HearState, Newer, AckCopy, TypeOK, MoveOK, moveVars
    <3> QED
      BY <3>1, <3>2
  <2>2. Pkt(d, "Ack", peer[d], sequence'[d]) \in Packet
    <3>1. sequence'[d] \in Nat
      BY <2>1 DEF MoveOK
    <3> QED
      BY <1>0, <3>1, PktType
  <2>3. net' \subseteq Packet
    BY <1>5, <2>2 DEF HearState, Newer, AckCopy, Send, TypeOK
  <2>4. MatchOK'
    BY <1>5 DEF HearState, Newer, AckCopy, Confirm, TypeOK, MatchOK
  <2> QED
    <3>1. UNCHANGED <<lifeVars, peer, noteVars, board>>
      BY <1>5 DEF HearState
    <3>2. LifeOK' /\ NoteOK'
      BY <3>1 DEF TypeOK, LifeOK, NoteOK, lifeVars, noteVars
    <3> QED
      BY <2>1, <2>3, <2>4, <3>1, <3>2 DEF TypeOK, lifeVars
<1>6. CASE HearAck(d, p)
  <2>1. MoveOK'
    <3>1. outgoing' \in [Device -> Outgoing]
      BY <1>6, StopRetry DEF HearAck, TypeOK, MoveOK
    <3> QED
      BY <1>6, <3>1 DEF HearAck, TypeOK, MoveOK
  <2>2. MatchOK'
    BY <1>6 DEF HearAck, Confirm, TypeOK, MatchOK
  <2> QED
    BY <1>6, <2>1, <2>2 DEF HearAck, TypeOK, LifeOK, NoteOK, lifeVars, noteVars
<1>7. CASE HearSay(d, p)
  <2>1. NoteOK'
    BY <1>0, <1>7 DEF HearSay, SayAckCopy, TypeOK, NoteOK, Saying
  <2>2. Pkt(d, "SayAck", peer[d], incomingSay'[d].seq) \in Packet
    <3>1. incomingSay'[d].seq \in Nat
      BY <2>1 DEF NoteOK, Saying
    <3> QED
      BY <1>0, <3>1, PktType
  <2>3. net' \subseteq Packet
    BY <1>7, <2>2 DEF HearSay, SayAckCopy, Send, TypeOK
  <2>4. MatchOK'
    BY <1>7 DEF HearSay, SayAckCopy, Confirm, TypeOK, MatchOK
  <2> QED
    <3>1. UNCHANGED <<lifeVars, peer, moveVars, board>>
      BY <1>7 DEF HearSay
    <3>2. LifeOK' /\ MoveOK'
      BY <3>1 DEF TypeOK, LifeOK, MoveOK, lifeVars, moveVars
    <3> QED
      BY <2>1, <2>3, <2>4, <3>1, <3>2 DEF TypeOK, lifeVars
<1>8. CASE HearSayAck(d, p)
  <2>1. NoteOK'
    BY <1>8, SaidType DEF HearSayAck, TypeOK, NoteOK
  <2>2. MatchOK'
    BY <1>8 DEF HearSayAck, Confirm, TypeOK, MatchOK
  <2> QED
    BY <1>8, <2>1, <2>2 DEF HearSayAck, TypeOK, LifeOK, MoveOK, lifeVars, moveVars
<1>9. CASE HearBye(d, p)
  <2>1. End(d, "PeerLeft") /\ net' \subseteq Packet
    BY <1>9 DEF HearBye, TypeOK
  <2> QED
    BY <1>0, <2>1, EndType
<1>10. CASE HearPeerHello(d, p)
  <2>1. End(d, "PeerLeft") /\ net' \subseteq Packet
    BY <1>10 DEF HearPeerHello, TypeOK
  <2> QED
    BY <1>0, <2>1, EndType
<1> QED
  BY <1>1, <1>2, <1>3, <1>4, <1>5, <1>6, <1>7, <1>8, <1>9, <1>10 DEF Receive

LEMMA TypeNext == TypeOK /\ [Next]_vars => TypeOK'
<1>1. TypeOK /\ UNCHANGED vars => TypeOK'
  BY DEF vars, TypeOK, LifeOK, MatchOK, MoveOK, NoteOK,
         lifeVars, matchVars, moveVars, noteVars
<1> QED
  BY <1>1, TypeLocal, TypeTimer, TypeReceive DEF Next

\* Type correctness, and with it that no session ever courts or matches
\* itself.
THEOREM TypeCorrect == Spec => []TypeOK
  BY TypeInit, TypeNext, PTL DEF Spec
-----------------------------------------------------------------------------
(* One host, one writer.                                                   *)

\* What a step may add to the air without disturbing the invariant.
GoodPkt(p) ==
  /\ p.from \in Device
  /\ state[p.from] # "Idle"
  /\ p.toss = toss[p.from]
  /\ p.type \in {"State", "Ack"} =>
       /\ state[p.from] = "Playing"
       /\ p.to = peer[p.from]
       /\ p.seq <= sequence[p.from]

\* Two distinct devices never both move first on the same two tosses.
LEMMA HostUnique ==
  ASSUME NEW a \in Device, NEW b \in Device, a # b, NEW s \in Toss, NEW t \in Toss
  PROVE  MovesFirst(a, s, b, t) # MovesFirst(b, t, a, s)
<1>1. CASE s # t
  BY <1>1 DEF MovesFirst
<1>2. CASE s = t
  BY <1>2 DEF MovesFirst
<1> QED
  BY <1>1, <1>2

\* HostLaw settles HostAgreement.
LEMMA HostFromLaw == TypeOK /\ HostLaw => HostAgreement
<1> SUFFICES ASSUME TypeOK, HostLaw, NEW a \in Device, NEW b \in Device, Mutual(a, b)
             PROVE  isHost[a] # isHost[b]
  BY DEF HostAgreement
<1>1. /\ isHost[a] = MovesFirst(a, toss[a], b, toss[b])
      /\ isHost[b] = MovesFirst(b, toss[b], a, toss[a])
  BY DEF HostLaw, Mutual
<1>2. a # b /\ toss[a] \in Toss /\ toss[b] \in Toss
  BY DEF Mutual, TypeOK, LifeOK
<1> QED
  BY <1>1, <1>2, HostUnique

\* A step that leaves the match alone and adds only good packets.
LEMMA QuietStep ==
  ASSUME TypeOK, IInv,
         UNCHANGED <<state, toss, trips, peer, isHost, myTurn, sequence>>,
         \A d \in Device : outgoing'[d].seq = outgoing[d].seq,
         \A p \in net' : p \in net \/ GoodPkt(p)
  PROVE  IInv'
<1>1. OneTrip'
  BY DEF IInv, OneTrip, GoodPkt
<1>2. OneToss'
  BY DEF IInv, OneToss, GoodPkt
<1>3. HostLaw'
  BY DEF IInv, HostLaw, MovesFirst
<1>4. OwnMoves'
  BY DEF IInv, OwnMoves
<1>5. FromMatched'
  BY DEF IInv, FromMatched, GoodPkt
<1>6. \A a, b \in Device : (Mutual(a, b)' <=> Mutual(a, b)) /\ (Entering(a, b)' <=> Entering(a, b))
  BY DEF Mutual, Entering
<1>7. Lead'
  BY <1>6 DEF IInv, Lead
<1>8. TurnExclusion'
  BY <1>6 DEF IInv, TurnExclusion
<1> QED
  BY <1>1, <1>2, <1>3, <1>4, <1>5, <1>7, <1>8 DEF IInv

LEMMA BeginStep ==
  ASSUME TypeOK, IInv, MaxTrips = 1, NEW d \in Device, NEW g \in Game, NEW t \in Toss,
         Begin(d, g, t)
  PROVE  IInv'
<1>0. /\ trips[d] = 0 /\ state[d] = "Idle"
      /\ \A p \in net : p.from # d
      /\ \A e \in Device : state[e] = "Playing" => peer[e] # d
  BY DEF Begin, TypeOK, LifeOK, IInv, OneTrip
<1>1. \A p \in net' : p \in net \/ (p.from = d /\ p.type = "Hello" /\ p.toss = t)
  BY DEF Begin, Surviving
<1>2. /\ state' = [state EXCEPT ![d] = "Searching"]
      /\ toss' = [toss EXCEPT ![d] = t] /\ trips' = [trips EXCEPT ![d] = 1]
      /\ peer' = [peer EXCEPT ![d] = NoDevice] /\ isHost' = [isHost EXCEPT ![d] = FALSE]
      /\ myTurn' = [myTurn EXCEPT ![d] = FALSE] /\ sequence' = [sequence EXCEPT ![d] = 0]
      /\ outgoing' = [outgoing EXCEPT ![d] = NoOutgoing]
  BY <1>0 DEF Begin, ResetLink
<1>3. OneTrip'
  BY <1>0, <1>1, <1>2 DEF IInv, OneTrip, TypeOK, LifeOK, MatchOK
<1>4. OneToss'
  BY <1>0, <1>1, <1>2 DEF IInv, OneToss, TypeOK, LifeOK, Packet
<1>5. HostLaw'
  <2> SUFFICES ASSUME NEW a \in Device, state'[a] = "Playing", state'[peer'[a]] # "Idle"
               PROVE  isHost'[a] = MovesFirst(a, toss'[a], peer'[a], toss'[peer'[a]])
    BY DEF HostLaw
  <2>1. /\ a # d /\ state[a] = "Playing" /\ peer'[a] = peer[a] /\ isHost'[a] = isHost[a]
        /\ peer[a] \in Device /\ peer[a] # d /\ toss'[a] = toss[a]
    BY <1>0, <1>2 DEF TypeOK, LifeOK, MatchOK, IInv, OneTrip
  <2>2. state[peer[a]] # "Idle" /\ toss'[peer[a]] = toss[peer[a]]
    BY <1>2, <2>1 DEF TypeOK, LifeOK
  <2> QED
    BY <2>1, <2>2 DEF IInv, HostLaw
<1>6. OwnMoves'
  BY <1>2 DEF IInv, OwnMoves, TypeOK, LifeOK, MatchOK, MoveOK
<1>7. FromMatched'
  BY <1>0, <1>1, <1>2 DEF IInv, FromMatched, TypeOK, LifeOK, MatchOK, MoveOK, Packet
<1>8. Lead' /\ TurnExclusion'
  BY <1>0, <1>2 DEF IInv, Lead, TurnExclusion, Mutual, Entering, TypeOK, LifeOK, MatchOK, MoveOK
<1> QED
  BY <1>3, <1>4, <1>5, <1>6, <1>7, <1>8 DEF IInv

LEMMA ResetStep ==
  ASSUME TypeOK, IInv, NEW d \in Device, Reset(d)
  PROVE  IInv'
<1>1. /\ state' = [state EXCEPT ![d] = "Idle"]
      /\ toss' = [toss EXCEPT ![d] = 0] /\ UNCHANGED <<trips, net>>
      /\ peer' = [peer EXCEPT ![d] = NoDevice] /\ isHost' = [isHost EXCEPT ![d] = FALSE]
      /\ myTurn' = [myTurn EXCEPT ![d] = FALSE] /\ sequence' = [sequence EXCEPT ![d] = 0]
      /\ outgoing' = [outgoing EXCEPT ![d] = NoOutgoing]
  BY DEF Reset, ResetLink
<1>2. OneTrip'
  BY <1>1 DEF IInv, OneTrip, TypeOK, LifeOK, MatchOK
<1>3. OneToss'
  BY <1>1 DEF IInv, OneToss, TypeOK, LifeOK, Packet
<1>4. HostLaw'
  <2> SUFFICES ASSUME NEW a \in Device, state'[a] = "Playing", state'[peer'[a]] # "Idle"
               PROVE  isHost'[a] = MovesFirst(a, toss'[a], peer'[a], toss'[peer'[a]])
    BY DEF HostLaw
  <2>1. /\ a # d /\ state[a] = "Playing" /\ peer'[a] = peer[a] /\ isHost'[a] = isHost[a]
        /\ peer[a] \in Device /\ toss'[a] = toss[a]
    <3>1. a # d
      BY <1>1 DEF TypeOK, LifeOK
    <3>2. /\ state'[a] = state[a] /\ toss'[a] = toss[a]
          /\ peer'[a] = peer[a] /\ isHost'[a] = isHost[a]
      BY <1>1, <3>1 DEF TypeOK, LifeOK, MatchOK
    <3>3. peer[a] \in Device
      BY <3>2 DEF IInv, OneTrip
    <3> QED
      BY <3>1, <3>2, <3>3
  <2>2. peer[a] # d /\ state[peer[a]] # "Idle" /\ toss'[peer[a]] = toss[peer[a]]
    BY <1>1, <2>1 DEF TypeOK, LifeOK
  <2> QED
    BY <2>1, <2>2 DEF IInv, HostLaw
<1>5. OwnMoves'
  BY <1>1 DEF IInv, OwnMoves, TypeOK, LifeOK, MatchOK, MoveOK
<1>6. FromMatched'
  BY <1>1 DEF IInv, FromMatched, TypeOK, LifeOK, MatchOK, MoveOK, Packet
<1>7. Lead' /\ TurnExclusion'
  BY <1>1 DEF IInv, Lead, TurnExclusion, Mutual, Entering, TypeOK, LifeOK, MatchOK, MoveOK
<1> QED
  BY <1>2, <1>3, <1>4, <1>5, <1>6, <1>7 DEF IInv

LEMMA EndStep ==
  ASSUME TypeOK, IInv, NEW d \in Device, NEW r \in EndReason,
         state[d] \in {"Searching", "Playing"}, End(d, r),
         \A p \in net' : p \in net \/ (GoodPkt(p) /\ p.type = "Bye")
  PROVE  IInv'
<1>0. \A e \in Device : outgoing'[e].seq = outgoing[e].seq
  BY StopRetry DEF End
<1>1. /\ state' = [state EXCEPT ![d] = "Ended"]
      /\ UNCHANGED <<toss, trips, peer, isHost, sequence>>
      /\ myTurn' = [myTurn EXCEPT ![d] = FALSE]
  BY DEF End, matchVars
<1>2. OneTrip'
  BY <1>1 DEF IInv, OneTrip, TypeOK, LifeOK, MatchOK, GoodPkt
<1>3. OneToss'
  BY <1>1 DEF IInv, OneToss, TypeOK, LifeOK, Packet, GoodPkt
<1>4. HostLaw'
  BY <1>1 DEF IInv, HostLaw, MovesFirst, TypeOK, LifeOK, MatchOK, OneTrip
<1>5. OwnMoves'
  BY <1>0, <1>1 DEF IInv, OwnMoves, TypeOK, LifeOK, MatchOK, MoveOK
<1>6. FromMatched'
  BY <1>1 DEF IInv, FromMatched, TypeOK, LifeOK, MatchOK, MoveOK, Packet
<1>7. Lead' /\ TurnExclusion'
  BY <1>1 DEF IInv, Lead, TurnExclusion, Mutual, Entering, TypeOK, LifeOK, MatchOK, MoveOK
<1> QED
  BY <1>2, <1>3, <1>4, <1>5, <1>6, <1>7 DEF IInv

LEMMA MatchStep ==
  ASSUME TypeOK, IInv, NEW d \in Device, NEW p \in net,
         state[d] = "Searching", p.from # d, MatchWith(d, p)
  PROVE  IInv'
<1> DEFINE b == p.from
           first == MovesFirst(d, toss[d], b, p.toss)
<1>0. b \in Device /\ p.toss \in Toss /\ trips[b] = 1
  BY DEF TypeOK, Packet, IInv, OneTrip
<1>1. /\ state' = [state EXCEPT ![d] = "Playing"]
      /\ UNCHANGED <<toss, trips>>
      /\ peer' = [peer EXCEPT ![d] = b] /\ isHost' = [isHost EXCEPT ![d] = first]
      /\ myTurn' = [myTurn EXCEPT ![d] = first] /\ sequence' = [sequence EXCEPT ![d] = 0]
      /\ outgoing' = [outgoing EXCEPT ![d] = NoOutgoing]
      /\ net' = net \cup {Pkt(d, "Ack", b, 0)}
  BY DEF MatchWith, Send
<1>2. state[b] # "Idle" => p.toss = toss[b]
  BY DEF IInv, OneToss
<1>3. OneTrip'
  BY <1>0, <1>1 DEF IInv, OneTrip, TypeOK, LifeOK, MatchOK, Pkt
<1>4. OneToss'
  BY <1>1 DEF IInv, OneToss, TypeOK, LifeOK, Packet, Pkt
<1>5. HostLaw'
  <2> SUFFICES ASSUME NEW a \in Device, state'[a] = "Playing", state'[peer'[a]] # "Idle"
               PROVE  isHost'[a] = MovesFirst(a, toss[a], peer'[a], toss[peer'[a]])
    BY <1>1 DEF HostLaw, MovesFirst
  <2>1. CASE a = d
    <3>1. peer'[a] = b /\ state[b] # "Idle" /\ isHost'[a] = first
      BY <1>0, <1>1, <2>1 DEF TypeOK, LifeOK, MatchOK
    <3> QED
      BY <1>2, <2>1, <3>1
  <2>2. CASE a # d
    <3>1. /\ state[a] = "Playing" /\ peer'[a] = peer[a] /\ isHost'[a] = isHost[a]
          /\ peer[a] \in Device
      BY <1>1, <2>2 DEF TypeOK, LifeOK, MatchOK, IInv, OneTrip
    <3>2. state[peer[a]] # "Idle"
      BY <1>1, <3>1 DEF TypeOK, LifeOK
    <3> QED
      BY <3>1, <3>2 DEF IInv, HostLaw
  <2> QED
    BY <2>1, <2>2
<1>6. OwnMoves'
  BY <1>1 DEF IInv, OwnMoves, TypeOK, LifeOK, MatchOK, MoveOK, NoOutgoing
<1>7. FromMatched'
  BY <1>1 DEF IInv, FromMatched, TypeOK, LifeOK, MatchOK, MoveOK, Packet, Pkt
<1>8. \A a \in Device : Mutual(a, d)' => Entering(d, a) /\ a = b
  BY <1>0, <1>1 DEF Mutual, Entering, TypeOK, LifeOK, MatchOK
<1>9. HostAgreement'
  <2>1. TypeOK'
    BY MatchType
  <2>2. (TypeOK /\ HostLaw => HostAgreement)'
    BY HostFromLaw, PTL
  <2> QED
    BY <1>5, <2>1, <2>2
<1>10. \A a, e \in Device : (Mutual(a, e) /\ a # d /\ e # d)' => Mutual(a, e)
  BY <1>1 DEF Mutual, TypeOK, LifeOK, MatchOK
<1>11. \A a, e \in Device : Entering(a, e)' /\ e # d => Entering(a, e) /\ a # d
  BY <1>1 DEF Entering, TypeOK, LifeOK, MatchOK
<1>12. \A e \in Device \ {d} : myTurn'[e] = myTurn[e] /\ sequence'[e] = sequence[e] /\ isHost'[e] = isHost[e]
  BY <1>1 DEF TypeOK, MatchOK, MoveOK
<1>13. sequence'[d] = 0 /\ myTurn'[d] = first /\ isHost'[d] = first
  BY <1>1 DEF TypeOK, MatchOK, MoveOK
<1>14. \A e \in Device : Mutual(d, e)' \/ Mutual(e, d)' => ~(myTurn'[d] /\ myTurn'[e])
  <2> SUFFICES ASSUME NEW e \in Device, Mutual(d, e)' \/ Mutual(e, d)', myTurn'[d], myTurn'[e]
               PROVE  FALSE
    OBVIOUS
  <2>1. Mutual(e, d)' /\ e # d
    BY DEF Mutual
  <2>2. Entering(d, e) /\ myTurn[e]
    BY <1>8, <1>12, <2>1
  <2>3. sequence[e] = 0 /\ isHost[e]
    BY <2>2 DEF IInv, Lead, OwnMoves, Entering
  <2>4. isHost'[e] /\ isHost'[d]
    BY <1>12, <1>13, <2>1, <2>3
  <2>5. isHost'[e] # isHost'[d]
    BY <1>9, <2>1 DEF HostAgreement
  <2>6. isHost'[e] \in BOOLEAN /\ isHost'[d] \in BOOLEAN
    BY MatchType DEF TypeOK, MatchOK
  <2> QED
    BY <2>4, <2>5, <2>6
<1>15. TurnExclusion'
  <2> SUFFICES ASSUME NEW a \in Device, NEW e \in Device, Mutual(a, e)'
               PROVE  ~(myTurn'[a] /\ myTurn'[e])
    BY DEF TurnExclusion
  <2>1. CASE a # d /\ e # d
    BY <1>10, <1>12, <2>1 DEF IInv, TurnExclusion
  <2>2. CASE a = d \/ e = d
    BY <1>14, <2>2
  <2> QED
    BY <2>1, <2>2
<1>16. Lead'
  <2> SUFFICES ASSUME NEW a \in Device, NEW e \in Device
               PROVE  /\ Mutual(a, e)' => /\ sequence'[e] <= sequence'[a] + 1
                                          /\ myTurn'[e] => sequence'[e] = sequence'[a]
                      /\ Entering(a, e)' => /\ sequence'[e] <= 1
                                            /\ myTurn'[e] => sequence'[e] = 0
                                            /\ sequence'[e] = 1 => isHost'[e]
    BY DEF Lead
  <2>1. CASE Mutual(a, e)' /\ a # d /\ e # d
    BY <1>10, <1>12, <2>1 DEF IInv, Lead, Entering, Mutual
  <2>2. CASE Mutual(a, e)' /\ a = d
    <3>1. Mutual(e, d)' /\ e # d
      BY <2>2 DEF Mutual
    <3>2. Entering(d, e)
      BY <1>8, <3>1
    <3>3. sequence[e] <= 1 /\ (myTurn[e] => sequence[e] = 0)
      BY <3>2 DEF IInv, Lead
    <3> QED
      BY <1>12, <1>13, <2>2, <3>1, <3>3 DEF Mutual, Entering
  <2>3. CASE Mutual(a, e)' /\ e = d
    <3>1. Entering(d, a) /\ a # d
      BY <1>8, <2>3 DEF Mutual
    <3>2. sequence[a] \in Nat /\ sequence[a] <= 1 /\ (sequence[a] = 1 => isHost[a])
      BY <3>1 DEF IInv, Lead, TypeOK, MoveOK
    <3>3. isHost'[a] # isHost'[d] /\ isHost'[a] \in BOOLEAN /\ isHost'[d] \in BOOLEAN
      BY <1>9, <2>3, MatchType DEF HostAgreement, TypeOK, MatchOK
    <3>4. myTurn'[d] = isHost'[d] /\ isHost'[a] = isHost[a]
      BY <1>12, <1>13, <3>1
    <3>5. myTurn'[d] => ~isHost[a]
      BY <3>3, <3>4
    <3>6. myTurn'[d] => sequence[a] = 0
      BY <3>2, <3>5
    <3> QED
      BY <1>12, <1>13, <2>3, <3>1, <3>2, <3>6 DEF Mutual, Entering
  <2>4. CASE Entering(a, e)'
    <3>0. ~Mutual(a, e)'
      BY <2>4 DEF Entering, Mutual
    <3>1. CASE e = d
      <4>1. sequence'[e] = 0
        BY <1>13, <3>1
      <4> QED
        BY <3>0, <4>1
    <3>2. CASE e # d
      <4>1. Entering(a, e)
        BY <1>11, <2>4, <3>2
      <4>2. sequence[e] <= 1 /\ (myTurn[e] => sequence[e] = 0) /\ (sequence[e] = 1 => isHost[e])
        BY <4>1 DEF IInv, Lead
      <4> QED
        BY <1>12, <3>0, <3>2, <4>2
    <3> QED
      BY <3>1, <3>2
  <2> QED
    BY <2>1, <2>2, <2>3, <2>4
<1> QED
  BY <1>3, <1>4, <1>5, <1>6, <1>7, <1>15, <1>16 DEF IInv

LEMMA SubmitStep ==
  ASSUME TypeOK, IInv, NEW d \in Device, NEW m \in Move, Submit(d, m)
  PROVE  IInv'
<1> DEFINE n == sequence[d] + 1
           q == StatePkt(d, n, Append(board[d], m))
<1>1. /\ state[d] = "Playing" /\ myTurn[d]
      /\ UNCHANGED <<state, toss, trips, peer, isHost>>
      /\ myTurn' = [myTurn EXCEPT ![d] = FALSE] /\ sequence' = [sequence EXCEPT ![d] = n]
      /\ outgoing' = [outgoing EXCEPT ![d] = [board |-> Append(board[d], m), seq |-> n, pending |-> TRUE]]
      /\ net' = net \cup {q}
  BY DEF Submit, Play, MayPlay, Send, lifeVars, matchVars
<1>2. n \in Nat /\ n > sequence[d] /\ n > 0 /\ (n = 1 => sequence[d] = 0)
  BY DEF TypeOK, MoveOK
<1>3. /\ q.type = "State" /\ q.from = d /\ q.to = peer[d] /\ q.seq = n /\ q.toss = toss[d]
  BY DEF StatePkt, Pkt
<1>4. /\ ~myTurn'[d] /\ sequence'[d] = n /\ outgoing'[d].seq = n
      /\ \A e \in Device \ {d} : /\ myTurn'[e] = myTurn[e] /\ sequence'[e] = sequence[e]
                                 /\ outgoing'[e] = outgoing[e]
  BY <1>1 DEF TypeOK, MoveOK
<1>5. OneTrip'
  BY <1>1, <1>3 DEF IInv, OneTrip
<1>6. OneToss'
  BY <1>1, <1>3 DEF IInv, OneToss
<1>7. HostLaw'
  BY <1>1 DEF IInv, HostLaw, MovesFirst
<1>8. OwnMoves'
  BY <1>1, <1>2, <1>4 DEF IInv, OwnMoves
<1>9. FromMatched'
  <2> SUFFICES ASSUME NEW p \in net', p.type \in {"State", "Ack"}
               PROVE  /\ state[p.from] # "Searching"
                      /\ state[p.from] = "Playing" => p.to = peer[p.from] /\ p.seq <= sequence'[p.from]
    BY <1>1 DEF FromMatched
  <2>1. CASE p = q
    BY <1>1, <1>2, <1>3, <1>4, <2>1
  <2>2. CASE p \in net
    <3>1. p.from \in Device /\ p.seq \in Nat /\ sequence[p.from] \in Nat
      BY <2>2 DEF TypeOK, Packet, MoveOK
    <3>2. sequence[p.from] <= sequence'[p.from] /\ sequence'[p.from] \in Nat
      BY <1>2, <1>4, <3>1
    <3> QED
      BY <2>2, <3>1, <3>2 DEF IInv, FromMatched
  <2> QED
    BY <1>1, <2>1, <2>2
<1>10. \A a, e \in Device : (Mutual(a, e)' <=> Mutual(a, e)) /\ (Entering(a, e)' <=> Entering(a, e))
  BY <1>1 DEF Mutual, Entering
<1>11. TurnExclusion'
  BY <1>4, <1>10 DEF IInv, TurnExclusion
<1>12. Lead'
  <2> SUFFICES ASSUME NEW a \in Device, NEW e \in Device
               PROVE  /\ Mutual(a, e) => /\ sequence'[e] <= sequence'[a] + 1
                                         /\ myTurn'[e] => sequence'[e] = sequence'[a]
                      /\ Entering(a, e) => /\ sequence'[e] <= 1
                                           /\ myTurn'[e] => sequence'[e] = 0
                                           /\ sequence'[e] = 1 => isHost[e]
    BY <1>1, <1>10 DEF Lead
  <2>0. sequence[a] \in Nat /\ sequence[e] \in Nat
    BY DEF TypeOK, MoveOK
  <2>1. ASSUME Mutual(a, e), e = d PROVE sequence'[e] <= sequence'[a] + 1 /\ ~myTurn'[e]
    <3>1. a # d /\ sequence[d] = sequence[a]
      BY <1>1, <2>1 DEF IInv, Lead, Mutual
    <3> QED
      BY <1>2, <1>4, <2>0, <2>1, <3>1
  <2>2. ASSUME Mutual(a, e), a = d
        PROVE  /\ sequence'[e] <= sequence'[a] + 1 /\ ~myTurn'[e]
    <3>1. e # d /\ ~myTurn[e] /\ sequence[e] <= sequence[d] + 1
      BY <1>1, <2>2 DEF IInv, Lead, TurnExclusion, Mutual
    <3>2. ~myTurn'[e] /\ sequence'[e] = sequence[e] /\ sequence'[a] = sequence[d] + 1
      BY <1>4, <2>2, <3>1
    <3>3. sequence'[e] <= sequence'[a] + 1
      BY <2>0, <2>2, <3>1, <3>2
    <3> QED
      BY <3>2, <3>3
  <2>3. ASSUME Entering(a, e), e = d
        PROVE  sequence'[e] <= 1 /\ ~myTurn'[e] /\ isHost[e]
    <3>1. sequence[d] = 0 /\ isHost[d]
      BY <1>1, <2>3 DEF IInv, Lead, OwnMoves
    <3> QED
      BY <1>4, <2>3, <3>1
  <2>4. ASSUME a # d, e # d
        PROVE  /\ Mutual(a, e) => /\ sequence'[e] <= sequence'[a] + 1
                                  /\ myTurn'[e] => sequence'[e] = sequence'[a]
    BY <1>4, <2>4 DEF IInv, Lead
  <2>5. ASSUME e # d, Entering(a, e)
        PROVE  /\ sequence'[e] <= 1
               /\ myTurn'[e] => sequence'[e] = 0
               /\ sequence'[e] = 1 => isHost[e]
    BY <1>4, <2>5 DEF IInv, Lead
  <2> QED
    BY <2>1, <2>2, <2>3, <2>4, <2>5
<1> QED
  BY <1>5, <1>6, <1>7, <1>8, <1>9, <1>11, <1>12 DEF IInv

\* A newer state adopted from the peer (the THEN branch of HearState).
LEMMA AdoptStep ==
  ASSUME TypeOK, IInv, NEW d \in Device, NEW p \in net, HearState(d, p), p.seq > sequence[d]
  PROVE  IInv'
<1> DEFINE q == Pkt(d, "Ack", peer[d], p.seq)
<1>0. p.from \in Device /\ p.seq \in Nat /\ sequence[d] \in Nat
  BY DEF TypeOK, Packet, MoveOK
<1>1. /\ state[d] = "Playing" /\ p.from = peer[d] /\ p.type = "State" /\ p.from # d
      /\ UNCHANGED <<state, toss, trips, peer, isHost>>
      /\ myTurn' = [myTurn EXCEPT ![d] = TRUE] /\ sequence' = [sequence EXCEPT ![d] = p.seq]
      /\ outgoing' = [outgoing EXCEPT ![d].pending = FALSE]
  BY DEF HearState, Newer, AckCopy, FromPeer, Receivable, lifeVars
<1>2. sequence'[d] = p.seq
  BY <1>1 DEF TypeOK, MoveOK
<1>3. net' = net \cup {q}
  BY <1>2 DEF HearState, Newer, AckCopy, Send
<1>4. q.type = "Ack" /\ q.from = d /\ q.to = peer[d] /\ q.seq = p.seq /\ q.toss = toss[d]
  BY DEF Pkt
<1>5. /\ \A e \in Device : outgoing'[e].seq = outgoing[e].seq
      /\ \A e \in Device \ {d} : myTurn'[e] = myTurn[e] /\ sequence'[e] = sequence[e]
      /\ p.seq # 0
  BY <1>0, <1>1 DEF TypeOK, MoveOK, Outgoing
<1>6. OneTrip'
  BY <1>1, <1>3, <1>4 DEF IInv, OneTrip
<1>7. OneToss'
  BY <1>1, <1>3, <1>4 DEF IInv, OneToss
<1>8. HostLaw'
  BY <1>1 DEF IInv, HostLaw, MovesFirst
<1>9. OwnMoves'
  <2> SUFFICES ASSUME NEW a \in Device, state[a] = "Playing"
               PROVE  /\ sequence'[a] = 0 /\ myTurn'[a] => isHost[a]
                      /\ outgoing'[a].seq <= sequence'[a]
    BY <1>1 DEF OwnMoves
  <2>1. outgoing[a].seq <= sequence[a] /\ outgoing[a].seq \in Nat /\ sequence[a] \in Nat
    BY DEF IInv, OwnMoves, TypeOK, MoveOK, Outgoing
  <2>2. CASE a = d
    <3>1. sequence'[a] = p.seq /\ outgoing'[a].seq = outgoing[a].seq
      BY <1>2, <1>5, <2>2
    <3>2. sequence[a] < p.seq
      BY <1>0, <2>2
    <3> QED
      BY <1>0, <1>5, <2>1, <3>1, <3>2
  <2>3. CASE a # d
    BY <1>5, <2>1, <2>3 DEF IInv, OwnMoves
  <2> QED
    BY <2>2, <2>3
<1>10. FromMatched'
  <2> SUFFICES ASSUME NEW r \in net', r.type \in {"State", "Ack"}
               PROVE  /\ state[r.from] # "Searching"
                      /\ state[r.from] = "Playing" => r.to = peer[r.from] /\ r.seq <= sequence'[r.from]
    BY <1>1 DEF FromMatched
  <2>1. CASE r = q
    BY <1>0, <1>1, <1>2, <1>4, <2>1
  <2>2. CASE r \in net
    <3>1. r.from \in Device /\ r.seq \in Nat /\ sequence[r.from] \in Nat
      BY <2>2 DEF TypeOK, Packet, MoveOK
    <3>2. sequence[r.from] <= sequence'[r.from] /\ sequence'[r.from] \in Nat
      BY <1>0, <1>2, <1>5, <3>1
    <3> QED
      BY <2>2, <3>1, <3>2 DEF IInv, FromMatched
  <2> QED
    BY <1>3, <2>1, <2>2
<1>11. \A a, e \in Device : (Mutual(a, e)' <=> Mutual(a, e)) /\ (Entering(a, e)' <=> Entering(a, e))
  BY <1>1 DEF Mutual, Entering
\* The state adopted is the peer's latest: the peer is exactly one ahead.
<1>12. ASSUME NEW e \in Device, Mutual(d, e) \/ Mutual(e, d)
       PROVE  e # d /\ p.seq = sequence[e] /\ ~myTurn[e] /\ Mutual(d, e) /\ Mutual(e, d)
  <2>1. e # d /\ Mutual(d, e) /\ Mutual(e, d) /\ p.from = e /\ state[e] = "Playing"
    BY <1>1, <1>12 DEF Mutual
  <2>2. p.seq <= sequence[e] /\ sequence[e] <= sequence[d] + 1 /\ sequence[e] \in Nat
    BY <1>1, <2>1 DEF IInv, FromMatched, Lead, TypeOK, MoveOK
  <2>3. p.seq = sequence[e] /\ sequence[e] # sequence[d]
    BY <1>0, <2>2
  <2>4. ~myTurn[e]
    BY <2>1, <2>3 DEF IInv, Lead
  <2> QED
    BY <2>1, <2>3, <2>4
<1>13. \A a \in Device : ~Entering(a, d)
  BY <1>1 DEF IInv, FromMatched, Entering
<1>14. TurnExclusion'
  BY <1>5, <1>11, <1>12 DEF IInv, TurnExclusion
<1>15. Lead'
  <2> SUFFICES ASSUME NEW a \in Device, NEW e \in Device
               PROVE  /\ Mutual(a, e) => /\ sequence'[e] <= sequence'[a] + 1
                                         /\ myTurn'[e] => sequence'[e] = sequence'[a]
                      /\ Entering(a, e) => /\ sequence'[e] <= 1
                                           /\ myTurn'[e] => sequence'[e] = 0
                                           /\ sequence'[e] = 1 => isHost[e]
    BY <1>1, <1>11 DEF Lead
  <2>1. ASSUME Mutual(a, e), a = d \/ e = d PROVE sequence'[e] = sequence'[a] /\ sequence'[a] \in Nat
    BY <1>0, <1>2, <1>5, <1>12, <2>1
  <2>2. ASSUME a # d, e # d, Mutual(a, e)
        PROVE  /\ sequence'[e] <= sequence'[a] + 1
               /\ myTurn'[e] => sequence'[e] = sequence'[a]
    BY <1>5, <2>2 DEF IInv, Lead
  <2>3. ASSUME Entering(a, e)
        PROVE  /\ sequence'[e] <= 1
               /\ myTurn'[e] => sequence'[e] = 0
               /\ sequence'[e] = 1 => isHost[e]
    BY <1>5, <1>13, <2>3 DEF IInv, Lead
  <2> QED
    BY <2>1, <2>2, <2>3
<1> QED
  BY <1>6, <1>7, <1>8, <1>9, <1>10, <1>14, <1>15 DEF IInv

LEMMA InvInit == Init => IInv
  BY DEF Init, IInv, OneTrip, OneToss, HostLaw, OwnMoves, FromMatched, Lead,
         TurnExclusion, Mutual, Entering

\* A packet built by a device that is on its trip is a good one.
LEMMA PktGood ==
  ASSUME TypeOK, NEW d \in Device, state[d] # "Idle", NEW type, NEW to, NEW seq,
         type \in {"State", "Ack"} => state[d] = "Playing" /\ to = peer[d] /\ seq <= sequence[d]
  PROVE  GoodPkt(Pkt(d, type, to, seq))
  BY DEF GoodPkt, Pkt

LEMMA InvLocal ==
  ASSUME TypeOK, IInv, MaxTrips = 1, NEW d \in Device, Local(d)
  PROVE  IInv'
<1>1. CASE \E g \in Game, t \in Toss : Begin(d, g, t)
  BY <1>1, BeginStep
<1>2. CASE Leave(d)
  <2>1. GoodPkt(Pkt(d, "Bye", peer[d], sequence[d]))
    BY <1>2, PktGood DEF Leave
  <2>2. \A p \in net' : p \in net \/ (GoodPkt(p) /\ p.type = "Bye")
    BY <1>2, <2>1 DEF Leave, Send, Pkt
  <2>3. state[d] \in {"Searching", "Playing"} /\ End(d, "LocalLeft") /\ "LocalLeft" \in EndReason
    BY <1>2 DEF Leave, EndReason
  <2> QED
    BY <2>2, <2>3, EndStep
<1>3. CASE Reset(d)
  BY <1>3, ResetStep
<1>4. CASE \E m \in Move : Submit(d, m)
  BY <1>4, SubmitStep
<1>5. CASE TakeIncoming(d)
  BY <1>5, QuietStep DEF TakeIncoming, lifeVars, matchVars
<1>6. ASSUME NEW n \in Note, Announce(d, n) PROVE IInv'
  <2>1. GoodPkt(SayPkt(d, outgoingSay[d].seq + 1, n))
    BY <1>6 DEF Announce, GoodPkt, SayPkt, Pkt
  <2> QED
    BY <1>6, <2>1, QuietStep DEF Announce, Send, lifeVars, matchVars, moveVars
<1>7. CASE TakeAnnouncement(d)
  BY <1>7, QuietStep DEF TakeAnnouncement, lifeVars, matchVars, moveVars
<1> QED
  BY <1>1, <1>2, <1>3, <1>4, <1>5, <1>6, <1>7 DEF Local

LEMMA InvTimer ==
  ASSUME TypeOK, IInv, NEW d \in Device, Timer(d)
  PROVE  IInv'
<1>1. ASSUME NEW p, GoodPkt(p), Send(p),
             UNCHANGED <<lifeVars, matchVars, moveVars, noteVars, board>>
      PROVE  IInv'
  BY <1>1, QuietStep DEF Send, lifeVars, matchVars, moveVars
<1>2. CASE ForgetCandidate(d)
  BY <1>2, QuietStep DEF ForgetCandidate, matchVars, moveVars
<1>3. CASE SendHello(d)
  BY <1>1, <1>3, PktGood DEF SendHello
<1>4. CASE SendJoin(d)
  BY <1>1, <1>4, PktGood DEF SendJoin
<1>5. CASE LosePeer(d)
  BY <1>5, EndStep DEF LosePeer, EndReason
<1>6. CASE RetrySay(d)
  <2>1. GoodPkt(SayPkt(d, outgoingSay[d].seq, outgoingSay[d].note))
    BY <1>6 DEF RetrySay, GoodPkt, SayPkt, Pkt
  <2> QED
    BY <1>1, <1>6, <2>1 DEF RetrySay
<1>7. CASE RetryState(d)
  <2>1. GoodPkt(StatePkt(d, outgoing[d].seq, outgoing[d].board))
    BY <1>7 DEF RetryState, GoodPkt, StatePkt, Pkt, IInv, OwnMoves
  <2> QED
    BY <1>1, <1>7, <2>1 DEF RetryState
<1>8. CASE Heartbeat(d)
  <2>1. GoodPkt(Pkt(d, "Ack", peer[d], sequence[d]))
    BY <1>8 DEF Heartbeat, GoodPkt, Pkt, TypeOK, MoveOK
  <2> QED
    BY <1>1, <1>8, <2>1 DEF Heartbeat
<1> QED
  BY <1>2, <1>3, <1>4, <1>5, <1>6, <1>7, <1>8 DEF Timer

LEMMA InvReceive ==
  ASSUME TypeOK, IInv, NEW d \in Device, NEW p \in net, Receive(d, p)
  PROVE  IInv'
<1>1. CASE HearHello(d, p)
  BY <1>1, QuietStep DEF HearHello, matchVars, moveVars
<1>2. CASE HearJoin(d, p)
  BY <1>2, MatchStep DEF HearJoin, Receivable
<1>3. CASE HearFromMatched(d, p)
  BY <1>3, MatchStep DEF HearFromMatched, Receivable
<1>4. CASE AnswerJoin(d, p)
  <2>1. GoodPkt(Pkt(d, "Join", peer[d], 0))
    BY <1>4, PktGood DEF AnswerJoin, FromPeer
  <2> QED
    BY <1>4, <2>1, QuietStep DEF AnswerJoin, Send, lifeVars, matchVars, moveVars
<1>5. CASE HearState(d, p)
  <2>1. CASE p.seq > sequence[d]
    BY <1>5, <2>1, AdoptStep
  <2>2. CASE ~(p.seq > sequence[d])
    <3>1. UNCHANGED moveVars
      BY <1>5, <2>2 DEF HearState, Newer, AckCopy
    <3>2. GoodPkt(Pkt(d, "Ack", peer[d], sequence[d]))
      BY <1>5 DEF HearState, Newer, AckCopy, FromPeer, GoodPkt, Pkt, TypeOK, MoveOK
    <3>3. UNCHANGED <<state, toss, trips, peer, isHost, myTurn, sequence, outgoing>>
          /\ net' = net \cup {Pkt(d, "Ack", peer[d], sequence[d])}
      BY <1>5, <3>1 DEF HearState, Newer, AckCopy, Send, lifeVars, moveVars
    <3> QED
      BY <3>2, <3>3, QuietStep
  <2> QED
    BY <2>1, <2>2
<1>6. CASE HearAck(d, p)
  <2>1. \A e \in Device : outgoing'[e].seq = outgoing[e].seq
    BY <1>6, StopRetry DEF HearAck
  <2> QED
    BY <1>6, <2>1, QuietStep DEF HearAck, lifeVars
<1>7. CASE HearSay(d, p)
  <2>1. GoodPkt(Pkt(d, "SayAck", peer[d], incomingSay'[d].seq))
    BY <1>7 DEF HearSay, SayAckCopy, FromPeer, GoodPkt, Pkt
  <2> QED
    BY <1>7, <2>1, QuietStep DEF HearSay, SayAckCopy, Send, lifeVars, moveVars
<1>8. CASE HearSayAck(d, p)
  BY <1>8, QuietStep DEF HearSayAck, lifeVars, moveVars
<1>9. CASE HearBye(d, p)
  BY <1>9, EndStep DEF HearBye, FromPeer, EndReason
<1>10. CASE HearPeerHello(d, p)
  BY <1>10, EndStep DEF HearPeerHello, FromPeer, EndReason
<1> QED
  BY <1>1, <1>2, <1>3, <1>4, <1>5, <1>6, <1>7, <1>8, <1>9, <1>10 DEF Receive

LEMMA InvNext ==
  ASSUME MaxTrips = 1
  PROVE  TypeOK /\ IInv /\ [Next]_vars => IInv'
<1>1. TypeOK /\ IInv /\ UNCHANGED vars => IInv'
  BY QuietStep DEF vars, lifeVars, matchVars, moveVars
<1> QED
  BY <1>1, InvLocal, InvTimer, InvReceive DEF Next

\* When every device searches once, the inductive invariant behind a match
\* holds: every packet carries its sender's one toss, goes to the peer it
\* matched and tells nothing it has not reached, and between two devices one
\* leads by a move at most (LinkSession.cpp: matchWith, handlePacket, submit).
THEOREM InvAlways == ASSUME MaxTrips = 1 PROVE Spec => []IInv
  BY InvInit, InvNext, TypeCorrect, PTL DEF Spec

\* When every device searches once, two devices matched with each other never
\* disagree on who moves first, however packets are lost, repeated or
\* reordered and whichever packet sealed the match.
THEOREM HostsAgree == ASSUME MaxTrips = 1 PROVE Spec => []HostAgreement
<1>1. TypeOK /\ IInv => HostAgreement
  BY HostFromLaw DEF IInv
<1> QED
  BY <1>1, TypeCorrect, InvAlways, PTL

\* And never both hold the turn.
THEOREM TurnsExclusive == ASSUME MaxTrips = 1 PROVE Spec => []TurnExclusion
<1>1. IInv => TurnExclusion
  BY DEF IInv
<1> QED
  BY <1>1, InvAlways, PTL
-----------------------------------------------------------------------------
(* Moves arrive: a device stops retrying one only once its peer has it.    *)

\* A step that starts no match, and only adds to what a device has seen or to
\* what it must retry.
LEMMA AckGrows ==
  ASSUME TypeOK, AckLaw,
         \A a, b \in Device : Mutual(a, b)' => Mutual(a, b),
         \A a, b \in Device : Entering(a, b)' => Entering(a, b),
         \A e \in Device : state'[e] = "Playing" => sequence[e] <= sequence'[e],
         \A e \in Device : state'[e] = "Playing" => outgoing'[e] = outgoing[e] \/ outgoing'[e].pending,
         TypeOK'
  PROVE  AckLaw'
<1> SUFFICES ASSUME NEW a \in Device, NEW b \in Device, ~outgoing'[b].pending
             PROVE  /\ Mutual(a, b)' => outgoing'[b].seq <= sequence'[a]
                    /\ Entering(a, b)' => outgoing'[b].seq = 0
  BY DEF AckLaw
<1>1. /\ sequence[a] \in Nat /\ sequence'[a] \in Nat
      /\ outgoing[b].seq \in Nat /\ outgoing'[b].seq \in Nat
  BY DEF TypeOK, MoveOK, Outgoing
<1>2. ASSUME Mutual(a, b)' PROVE outgoing'[b].seq <= sequence'[a]
  <2>1. Mutual(a, b) /\ outgoing'[b] = outgoing[b] /\ sequence[a] <= sequence'[a]
    BY <1>2 DEF Mutual
  <2>2. outgoing[b].seq <= sequence[a] /\ outgoing'[b].seq = outgoing[b].seq
    BY <2>1 DEF AckLaw
  <2> QED
    BY <1>1, <2>1, <2>2
<1>3. ASSUME Entering(a, b)' PROVE outgoing'[b].seq = 0
  <2>0. Entering(a, b) /\ state'[b] = "Playing"
    BY <1>3 DEF Entering
  <2>1. Entering(a, b) /\ outgoing'[b] = outgoing[b]
    BY <2>0
  <2>2. outgoing'[b].seq = outgoing[b].seq /\ ~outgoing[b].pending
    BY <2>1
  <2>3. outgoing[b].seq = 0
    BY <2>1, <2>2 DEF AckLaw
  <2> QED
    BY <2>2, <2>3
<1> QED
  BY <1>2, <1>3

\* A step that changes the moves of one device only, which then is in no match.
LEMMA OthersGrow ==
  ASSUME TypeOK, NEW d \in Device, state'[d] # "Playing",
         \A e \in Device \ {d} : sequence'[e] = sequence[e] /\ outgoing'[e] = outgoing[e]
  PROVE  \A e \in Device : state'[e] = "Playing" =>
           sequence[e] <= sequence'[e] /\ outgoing'[e] = outgoing[e]
<1> SUFFICES ASSUME NEW e \in Device, state'[e] = "Playing"
             PROVE  sequence[e] <= sequence'[e] /\ outgoing'[e] = outgoing[e]
  OBVIOUS
<1>1. sequence'[e] = sequence[e] /\ outgoing'[e] = outgoing[e]
  OBVIOUS
<1>2. sequence[e] \in Nat
  BY DEF TypeOK, MoveOK
<1>3. sequence[e] <= sequence'[e]
  BY <1>1, <1>2
<1> QED
  BY <1>1, <1>3

\* A step that leaves matches and moves alone.
LEMMA AckSame ==
  ASSUME TypeOK, TypeOK', AckLaw, UNCHANGED <<state, peer, sequence, outgoing>>
  PROVE  AckLaw'
  BY DEF AckLaw, Mutual, Entering

LEMMA AckMatch ==
  ASSUME TypeOK, IInv, AckLaw, NEW d \in Device, NEW p \in net,
         state[d] = "Searching", p.from # d, MatchWith(d, p)
  PROVE  AckLaw'
<1>0. p.from \in Device
  BY DEF TypeOK, Packet
<1>1. /\ state' = [state EXCEPT ![d] = "Playing"]
      /\ peer' = [peer EXCEPT ![d] = p.from]
      /\ sequence' = [sequence EXCEPT ![d] = 0]
      /\ outgoing' = [outgoing EXCEPT ![d] = NoOutgoing]
  BY DEF MatchWith
<1>2. /\ sequence'[d] = 0 /\ outgoing'[d].seq = 0
      /\ \A e \in Device \ {d} : sequence'[e] = sequence[e] /\ outgoing'[e] = outgoing[e]
  BY <1>1 DEF TypeOK, MoveOK, NoOutgoing
<1>3. \A b \in Device : Mutual(d, b)' => Entering(d, b) /\ b # d
  BY <1>0, <1>1 DEF Mutual, Entering, TypeOK, LifeOK, MatchOK
<1>4. \A a, b \in Device : Mutual(a, b)' /\ a # d /\ b # d => Mutual(a, b)
  BY <1>1 DEF Mutual, TypeOK, LifeOK, MatchOK
<1>5. \A a, b \in Device : Entering(a, b)' /\ b # d => Entering(a, b)
  BY <1>1 DEF Entering, TypeOK, LifeOK, MatchOK
<1>6. \A a \in Device : sequence'[a] \in Nat
  BY MatchType DEF TypeOK, MoveOK
<1> SUFFICES ASSUME NEW a \in Device, NEW b \in Device, ~outgoing'[b].pending
             PROVE  /\ Mutual(a, b)' => outgoing'[b].seq <= sequence'[a]
                    /\ Entering(a, b)' => outgoing'[b].seq = 0
  BY DEF AckLaw
<1>7. CASE b = d
  <2>1. outgoing'[b].seq = 0 /\ 0 <= sequence'[a]
    BY <1>2, <1>6, <1>7
  <2> QED
    BY <2>1
<1>8. CASE b # d
  <2>1. ~outgoing[b].pending /\ outgoing'[b].seq = outgoing[b].seq
    BY <1>2, <1>8
  <2>2. Entering(a, b)' => outgoing'[b].seq = 0
    BY <1>5, <1>8, <2>1 DEF AckLaw
  <2>3. CASE a = d
    <3>1. Mutual(a, b)' => outgoing'[b].seq = 0
      BY <1>3, <2>1, <2>3 DEF AckLaw
    <3>2. sequence'[a] = 0
      BY <1>2, <2>3
    <3>3. Mutual(a, b)' => outgoing'[b].seq <= sequence'[a]
      BY <3>1, <3>2
    <3> QED
      BY <2>2, <3>3
  <2>4. CASE a # d
    BY <1>2, <1>4, <1>8, <2>1, <2>2, <2>4 DEF AckLaw
  <2> QED
    BY <2>3, <2>4
<1> QED
  BY <1>7, <1>8

\* Adopting the peer's answer shows that it had seen ours.
LEMMA AckAdopt ==
  ASSUME TypeOK, TypeOK', IInv, AckLaw, NEW d \in Device, NEW p \in net,
         HearState(d, p), p.seq > sequence[d]
  PROVE  AckLaw'
<1>0. p.from \in Device /\ p.seq \in Nat /\ sequence[d] \in Nat
  BY DEF TypeOK, Packet, MoveOK
<1>1. /\ state[d] = "Playing" /\ p.from = peer[d] /\ p.type = "State"
      /\ UNCHANGED <<state, peer>>
      /\ sequence' = [sequence EXCEPT ![d] = p.seq]
      /\ outgoing' = [outgoing EXCEPT ![d].pending = FALSE]
  BY DEF HearState, Newer, FromPeer, lifeVars
<1>2. /\ sequence'[d] = p.seq /\ outgoing'[d].seq = outgoing[d].seq
      /\ \A e \in Device \ {d} : sequence'[e] = sequence[e] /\ outgoing'[e] = outgoing[e]
  BY <1>1 DEF TypeOK, MoveOK, Outgoing
<1>3. outgoing[d].seq <= sequence[d] /\ outgoing[d].seq \in Nat
  BY <1>1 DEF IInv, OwnMoves, TypeOK, MoveOK, Outgoing
<1>4. \A a \in Device : ~Entering(a, d)
  BY <1>1 DEF IInv, FromMatched, Entering
<1>5. \A a \in Device : Mutual(a, d) => a # d /\ p.seq <= sequence[a] /\ sequence[a] \in Nat
  BY <1>1 DEF IInv, FromMatched, Mutual, TypeOK, MoveOK
<1>6. \A a, b \in Device : (Mutual(a, b)' <=> Mutual(a, b)) /\ (Entering(a, b)' <=> Entering(a, b))
  BY <1>1 DEF Mutual, Entering
<1> SUFFICES ASSUME NEW a \in Device, NEW b \in Device, ~outgoing'[b].pending
             PROVE  /\ Mutual(a, b) => outgoing'[b].seq <= sequence'[a]
                    /\ Entering(a, b) => outgoing'[b].seq = 0
  BY <1>6 DEF AckLaw
<1>7. CASE b = d
  <2>1. ASSUME Mutual(a, b) PROVE outgoing'[b].seq <= sequence'[a]
    <3>1. a # d /\ p.seq <= sequence[a] /\ sequence[a] \in Nat /\ sequence'[a] = sequence[a]
      BY <1>2, <1>5, <1>7, <2>1
    <3> QED
      BY <1>0, <1>2, <1>3, <1>7, <3>1
  <2> QED
    BY <1>4, <1>7, <2>1
<1>8. CASE b # d
  <2>1. /\ ~outgoing[b].pending /\ outgoing'[b].seq = outgoing[b].seq
        /\ outgoing[b].seq \in Nat /\ sequence[a] \in Nat /\ sequence'[a] \in Nat
    BY <1>2, <1>8 DEF TypeOK, MoveOK, Outgoing
  <2>2. sequence[a] <= sequence'[a]
    BY <1>0, <1>2, <2>1
  <2>3. /\ Mutual(a, b) => outgoing[b].seq <= sequence[a]
        /\ Entering(a, b) => outgoing[b].seq = 0
    BY <2>1 DEF AckLaw
  <2> QED
    BY <2>1, <2>2, <2>3
<1> QED
  BY <1>7, <1>8

\* An acknowledgement is no newer than what its sender has seen.
LEMMA AckHear ==
  ASSUME TypeOK, TypeOK', IInv, AckLaw, NEW d \in Device, NEW p \in net, HearAck(d, p)
  PROVE  AckLaw'
<1>1. /\ state[d] = "Playing" /\ p.from = peer[d] /\ p.type = "Ack"
      /\ UNCHANGED <<state, peer, sequence>>
      /\ p.seq \in Nat /\ p.from \in Device
  BY DEF HearAck, FromPeer, lifeVars, TypeOK, Packet
<1>2. CASE outgoing' = outgoing
  BY <1>1, <1>2, AckSame
<1>3. CASE p.seq >= outgoing[d].seq /\ outgoing' = [outgoing EXCEPT ![d].pending = FALSE]
  <2>1. /\ outgoing'[d].seq = outgoing[d].seq /\ outgoing[d].seq \in Nat
        /\ \A e \in Device \ {d} : outgoing'[e] = outgoing[e]
    BY <1>3 DEF TypeOK, MoveOK, Outgoing
  <2>2. \A a \in Device : ~Entering(a, d)
    BY <1>1 DEF IInv, FromMatched, Entering
  <2>3. \A a \in Device : Mutual(a, d) => p.seq <= sequence[a] /\ sequence[a] \in Nat
    BY <1>1 DEF IInv, FromMatched, Mutual, TypeOK, MoveOK
  <2>4. \A a \in Device : Mutual(a, d) => outgoing[d].seq <= sequence[a]
    BY <1>1, <1>3, <2>1, <2>3
  <2> SUFFICES ASSUME NEW a \in Device, NEW b \in Device, ~outgoing'[b].pending
               PROVE  /\ Mutual(a, b)' => outgoing'[b].seq <= sequence'[a]
                      /\ Entering(a, b)' => outgoing'[b].seq = 0
    BY DEF AckLaw
  <2>5. Mutual(a, b)' = Mutual(a, b) /\ Entering(a, b)' = Entering(a, b) /\ sequence' = sequence
    BY <1>1 DEF Mutual, Entering
  <2>6. CASE b = d
    BY <2>1, <2>2, <2>4, <2>5, <2>6
  <2>7. CASE b # d
    <3>1. outgoing'[b] = outgoing[b]
      BY <2>1, <2>7
    <3>2. /\ Mutual(a, b) => outgoing[b].seq <= sequence[a]
          /\ Entering(a, b) => outgoing[b].seq = 0
      BY <3>1 DEF AckLaw
    <3> QED
      BY <2>5, <3>1, <3>2
  <2> QED
    BY <2>6, <2>7
<1> QED
  BY <1>2, <1>3 DEF HearAck, Acknowledges

LEMMA AckEnd ==
  ASSUME TypeOK, TypeOK', AckLaw, NEW d \in Device, NEW r \in EndReason, End(d, r)
  PROVE  AckLaw'
<1>1. /\ state' = [state EXCEPT ![d] = "Ended"]
      /\ UNCHANGED <<peer, sequence>>
      /\ outgoing' = [outgoing EXCEPT ![d].pending = FALSE]
  BY DEF End, matchVars
<1>2. \A a, b \in Device : (Mutual(a, b)' => Mutual(a, b)) /\ (Entering(a, b)' => Entering(a, b))
  BY <1>1 DEF Mutual, Entering, TypeOK, LifeOK
<1>3. \A e \in Device : state'[e] = "Playing" => sequence[e] <= sequence'[e] /\ outgoing'[e] = outgoing[e]
  <2>1. state'[d] # "Playing"
    BY <1>1 DEF TypeOK, LifeOK
  <2>2. \A e \in Device \ {d} : sequence'[e] = sequence[e] /\ outgoing'[e] = outgoing[e]
    BY <1>1 DEF TypeOK, MoveOK
  <2> QED
    BY <2>1, <2>2, OthersGrow
<1> QED
  BY <1>2, <1>3, AckGrows

LEMMA AckLocal ==
  ASSUME TypeOK, TypeOK', IInv, AckLaw, MaxTrips = 1, NEW d \in Device, Local(d)
  PROVE  AckLaw'
<1>1. ASSUME NEW g \in Game, NEW t \in Toss, Begin(d, g, t) PROVE AckLaw'
  <2>1. trips[d] = 0 /\ state[d] = "Idle"
    BY <1>1 DEF Begin, TypeOK, LifeOK
  <2>2. \A e \in Device : state[e] = "Playing" => peer[e] # d
    BY <2>1 DEF IInv, OneTrip
  <2>3. /\ state' = [state EXCEPT ![d] = "Searching"] /\ peer' = [peer EXCEPT ![d] = NoDevice]
        /\ sequence' = [sequence EXCEPT ![d] = 0] /\ outgoing' = [outgoing EXCEPT ![d] = NoOutgoing]
    BY <1>1 DEF Begin, ResetLink
  <2>4. \A a, b \in Device : (Mutual(a, b)' => Mutual(a, b)) /\ (Entering(a, b)' => Entering(a, b))
    BY <2>1, <2>2, <2>3 DEF Mutual, Entering, TypeOK, LifeOK, MatchOK
  <2>5. \A e \in Device : state'[e] = "Playing" => sequence[e] <= sequence'[e] /\ outgoing'[e] = outgoing[e]
    <3>1. state'[d] # "Playing"
      BY <2>3 DEF TypeOK, LifeOK
    <3>2. \A e \in Device \ {d} : sequence'[e] = sequence[e] /\ outgoing'[e] = outgoing[e]
      BY <2>3 DEF TypeOK, MoveOK
    <3> QED
      BY <3>1, <3>2, OthersGrow
  <2> QED
    BY <2>4, <2>5, AckGrows
<1>2. CASE Leave(d)
  BY <1>2, AckEnd DEF Leave, EndReason
<1>3. CASE Reset(d)
  <2>1. /\ state' = [state EXCEPT ![d] = "Idle"] /\ peer' = [peer EXCEPT ![d] = NoDevice]
        /\ sequence' = [sequence EXCEPT ![d] = 0] /\ outgoing' = [outgoing EXCEPT ![d] = NoOutgoing]
    BY <1>3 DEF Reset, ResetLink
  <2>2. \A a, b \in Device : (Mutual(a, b)' => Mutual(a, b)) /\ (Entering(a, b)' => Entering(a, b))
    BY <2>1 DEF Mutual, Entering, TypeOK, LifeOK, MatchOK
  <2>3. \A e \in Device : state'[e] = "Playing" => sequence[e] <= sequence'[e] /\ outgoing'[e] = outgoing[e]
    <3>1. state'[d] # "Playing"
      BY <2>1 DEF TypeOK, LifeOK
    <3>2. \A e \in Device \ {d} : sequence'[e] = sequence[e] /\ outgoing'[e] = outgoing[e]
      BY <2>1 DEF TypeOK, MoveOK
    <3> QED
      BY <3>1, <3>2, OthersGrow
  <2> QED
    BY <2>2, <2>3, AckGrows
<1>4. ASSUME NEW m \in Move, Submit(d, m) PROVE AckLaw'
  <2>1. /\ UNCHANGED <<state, peer>>
        /\ sequence' = [sequence EXCEPT ![d] = sequence[d] + 1]
        /\ outgoing' = [outgoing EXCEPT ![d] =
                          [board |-> Append(board[d], m), seq |-> sequence[d] + 1, pending |-> TRUE]]
    BY <1>4 DEF Submit, Play, lifeVars, matchVars
  <2>2. \A a, b \in Device : (Mutual(a, b)' => Mutual(a, b)) /\ (Entering(a, b)' => Entering(a, b))
    BY <2>1 DEF Mutual, Entering
  <2>3. \A e \in Device : sequence[e] <= sequence'[e] /\ (outgoing'[e] = outgoing[e] \/ outgoing'[e].pending)
    <3>1. sequence'[d] = sequence[d] + 1 /\ outgoing'[d].pending /\ sequence[d] \in Nat
      BY <2>1 DEF TypeOK, MoveOK
    <3>2. \A e \in Device \ {d} : sequence'[e] = sequence[e] /\ outgoing'[e] = outgoing[e]
      BY <2>1 DEF TypeOK, MoveOK
    <3>3. \A e \in Device : sequence[e] \in Nat
      BY DEF TypeOK, MoveOK
    <3> QED
      BY <3>1, <3>2, <3>3
  <2> QED
    BY <2>2, <2>3, AckGrows
<1>5. CASE TakeIncoming(d)
  BY <1>5, AckSame DEF TakeIncoming, lifeVars, matchVars
<1>6. CASE \E n \in Note : Announce(d, n)
  BY <1>6, AckSame DEF Announce, lifeVars, matchVars, moveVars
<1>7. CASE TakeAnnouncement(d)
  BY <1>7, AckSame DEF TakeAnnouncement, lifeVars, matchVars, moveVars
<1> QED
  BY <1>1, <1>2, <1>3, <1>4, <1>5, <1>6, <1>7 DEF Local

LEMMA AckTimer ==
  ASSUME TypeOK, TypeOK', AckLaw, NEW d \in Device, Timer(d)
  PROVE  AckLaw'
<1>1. CASE LosePeer(d)
  BY <1>1, AckEnd DEF LosePeer, EndReason
<1>2. CASE ForgetCandidate(d)
  BY <1>2, AckSame DEF ForgetCandidate, matchVars, moveVars
<1>3. CASE SendHello(d) \/ SendJoin(d)
  BY <1>3, AckSame DEF SendHello, SendJoin, lifeVars, matchVars, moveVars
<1>4. CASE RetrySay(d) \/ RetryState(d) \/ Heartbeat(d)
  BY <1>4, AckSame DEF RetrySay, RetryState, Heartbeat, lifeVars, matchVars, moveVars
<1> QED
  BY <1>1, <1>2, <1>3, <1>4 DEF Timer

LEMMA AckReceive ==
  ASSUME TypeOK, TypeOK', IInv, AckLaw, NEW d \in Device, NEW p \in net, Receive(d, p)
  PROVE  AckLaw'
<1>1. CASE HearHello(d, p)
  BY <1>1, AckSame DEF HearHello, matchVars, moveVars
<1>2. CASE HearJoin(d, p) \/ HearFromMatched(d, p)
  BY <1>2, AckMatch DEF HearJoin, HearFromMatched, Receivable
<1>3. CASE AnswerJoin(d, p)
  BY <1>3, AckSame DEF AnswerJoin, lifeVars, matchVars, moveVars
<1>4. CASE HearState(d, p)
  <2>1. CASE p.seq > sequence[d]
    BY <1>4, <2>1, AckAdopt
  <2>2. CASE ~(p.seq > sequence[d])
    <3>1. UNCHANGED <<state, peer, sequence, outgoing>>
      BY <1>4, <2>2 DEF HearState, Newer, lifeVars, moveVars
    <3> QED
      BY <3>1, AckSame
  <2> QED
    BY <2>1, <2>2
<1>5. CASE HearAck(d, p)
  BY <1>5, AckHear
<1>6. CASE HearSay(d, p) \/ HearSayAck(d, p)
  BY <1>6, AckSame DEF HearSay, HearSayAck, lifeVars, moveVars
<1>7. CASE HearBye(d, p) \/ HearPeerHello(d, p)
  BY <1>7, AckEnd DEF HearBye, HearPeerHello, EndReason
<1> QED
  BY <1>1, <1>2, <1>3, <1>4, <1>5, <1>6, <1>7 DEF Receive

LEMMA AckInit == Init => AckLaw
  BY DEF Init, AckLaw, Mutual, Entering

LEMMA AckNext ==
  ASSUME MaxTrips = 1
  PROVE  TypeOK /\ TypeOK' /\ IInv /\ AckLaw /\ [Next]_vars => AckLaw'
<1>1. TypeOK /\ TypeOK' /\ AckLaw /\ UNCHANGED vars => AckLaw'
  BY AckSame DEF vars, lifeVars, matchVars, moveVars
<1> QED
  BY <1>1, AckLocal, AckTimer, AckReceive DEF Next

LEMMA AckAlways == ASSUME MaxTrips = 1 PROVE Spec => []AckLaw
  BY AckInit, AckNext, TypeCorrect, InvAlways, PTL DEF Spec

\* When every device searches once, a device stops retrying a move only once
\* its peer has adopted it: no lost, stale or repeated acknowledgement, and no
\* heartbeat, ends the retries early.
THEOREM MovesReach == ASSUME MaxTrips = 1 PROVE Spec => []MoveReachesPeer
<1>1. AckLaw => MoveReachesPeer
  <2> SUFFICES ASSUME AckLaw, NEW a \in Device, NEW b \in Device,
                      Mutual(a, b), ~outgoing[a].pending
               PROVE  outgoing[a].seq <= sequence[b]
    BY DEF MoveReachesPeer
  <2>1. Mutual(b, a)
    BY DEF Mutual
  <2> QED
    BY <2>1 DEF AckLaw
<1> QED
  BY <1>1, AckAlways, PTL
-----------------------------------------------------------------------------
(* Notes.  The lemmas about one step need little of a packet, so that a    *)
(* composition whose boards are not Move's can use them too.               *)

NotesTyped ==
  NoteOK /\ \A p \in net : p.from \in Device /\ p.seq \in Nat /\ p.note \in Note \cup {NoNote}

\* What a note's packet may say without disturbing the invariant.
GoodNote(p) ==
  /\ p.from \in Device /\ state[p.from] = "Playing" /\ p.to = peer[p.from]
  /\ p.type = "Say" => p.seq = outgoingSay[p.from].seq /\ p.note = outgoingSay[p.from].note
  /\ p.type = "SayAck" => p.seq = incomingSay[p.from].seq

LEMMA NoteNumbers ==
  ASSUME NotesTyped, NEW d \in Device
  PROVE  /\ outgoingSay[d].seq \in Nat /\ incomingSay[d].seq \in Nat
         /\ outgoingSay[d].pending \in BOOLEAN
  BY DEF NotesTyped, NoteOK, Saying

\* A step that leaves every match and what was said and heard alone.
LEMMA NoteSame ==
  ASSUME NotesTyped, NoteInv, UNCHANGED <<state, peer, noteVars>>,
         \A p \in net' : p \in net \/ p.type \notin {"Say", "SayAck"} \/ GoodNote(p)
  PROVE  NoteInv'
<1>1. NoteOnAir'
  <2> SUFFICES ASSUME NEW p \in net', p.type \in {"Say", "SayAck"} PROVE NoteSent(p)'
    BY DEF NoteOnAir
  <2>1. CASE p \in net
    BY <2>1 DEF NoteInv, NoteOnAir, NoteSent, noteVars
  <2>2. CASE GoodNote(p)
    <3>1. outgoingSay[p.from].seq \in Nat /\ incomingSay[p.from].seq \in Nat
      BY <2>2, NoteNumbers DEF GoodNote
    <3> QED
      BY <2>2, <3>1 DEF GoodNote, NoteSent, noteVars
  <2> QED
    BY <2>1, <2>2
<1>2. NoteEntering' /\ NoteReachesPeer'
  BY DEF NoteInv, NoteEntering, NoteReachesPeer, Mutual, Entering, noteVars
<1> QED
  BY <1>1, <1>2 DEF NoteInv

\* A note is heard once, from a peer that said it.
LEMMA NoteHear ==
  ASSUME NotesTyped, NotesTyped', NoteInv, NEW d \in Device, NEW p \in net, HearSay(d, p)
  PROVE  NoteInv'
<1> DEFINE q == Pkt(d, "SayAck", peer[d], incomingSay'[d].seq)
<1>1. /\ state[d] = "Playing" /\ p.from = peer[d] /\ p.type = "Say"
      /\ UNCHANGED <<state, peer, outgoingSay>>
      /\ net' = net \cup {q}
      /\ \/ p.seq > incomingSay[d].seq
            /\ incomingSay' = [incomingSay EXCEPT ![d] = [note |-> p.note, seq |-> p.seq, pending |-> TRUE]]
         \/ incomingSay' = incomingSay
  BY DEF HearSay, SayAckCopy, Send, FromPeer, Receivable, lifeVars
<1>2. /\ q.type = "SayAck" /\ q.from = d /\ q.to = peer[d] /\ q.seq = incomingSay'[d].seq
  BY DEF Pkt
<1> HIDE DEF q
<1>3. /\ p.from \in Device /\ p.seq \in Nat /\ state[p.from] # "Searching"
      /\ state[p.from] = "Playing" =>
           /\ p.to = peer[p.from] /\ p.seq <= outgoingSay[p.from].seq
           /\ p.seq = outgoingSay[p.from].seq => p.note = outgoingSay[p.from].note
  BY <1>1 DEF NotesTyped, NoteInv, NoteOnAir, NoteSent
<1>4. /\ \A e \in Device \ {d} : incomingSay'[e] = incomingSay[e]
      /\ incomingSay[d].seq <= incomingSay'[d].seq
      /\ \/ incomingSay'[d].seq = p.seq /\ incomingSay'[d].note = p.note /\ p.seq > incomingSay[d].seq
         \/ incomingSay'[d] = incomingSay[d]
  BY <1>1, <1>3, NoteNumbers DEF NotesTyped, NoteOK, Saying
<1>5. \A e \in Device : outgoingSay[e].seq \in Nat /\ incomingSay[e].seq \in Nat /\ incomingSay'[e].seq \in Nat
  BY DEF NotesTyped, NoteOK, Saying
<1>6. NoteOnAir'
  <2> SUFFICES ASSUME NEW r \in net', r.type \in {"Say", "SayAck"} PROVE NoteSent(r)'
    BY DEF NoteOnAir
  <2>1. CASE r \in net
    <3>1. r.from \in Device /\ r.seq \in Nat
      BY <2>1 DEF NotesTyped
    <3>2. incomingSay[r.from].seq <= incomingSay'[r.from].seq
      <4>1. CASE r.from = d
        BY <1>4, <4>1
      <4>2. CASE r.from # d
        <5>1. incomingSay'[r.from].seq = incomingSay[r.from].seq
          BY <1>4, <3>1, <4>2
        <5> QED
          BY <1>5, <3>1, <5>1
      <4> QED
        BY <4>1, <4>2
    <3>3. /\ state[r.from] # "Searching"
          /\ state[r.from] = "Playing" =>
               /\ r.to = peer[r.from]
               /\ r.type = "Say" =>
                    /\ r.seq <= outgoingSay[r.from].seq
                    /\ r.seq = outgoingSay[r.from].seq => r.note = outgoingSay[r.from].note
               /\ r.type = "SayAck" => r.seq <= incomingSay[r.from].seq
      BY <2>1 DEF NoteInv, NoteOnAir, NoteSent
    <3>4. incomingSay[r.from].seq \in Nat /\ incomingSay'[r.from].seq \in Nat
      BY <1>5, <3>1
    <3> QED
      BY <1>1, <3>1, <3>2, <3>3, <3>4 DEF NoteSent
  <2>2. CASE r = q
    BY <1>1, <1>2, <1>5, <2>2 DEF NoteSent
  <2> QED
    BY <1>1, <2>1, <2>2
<1>7. NoteEntering'
  <2>1. \A a \in Device : ~Entering(a, d)
    BY <1>1, <1>3 DEF Entering
  <2> QED
    BY <1>1, <1>4, <2>1 DEF NoteInv, NoteEntering, Entering
<1>8. NoteReachesPeer'
  <2> SUFFICES ASSUME NEW a \in Device, NEW b \in Device, Mutual(a, b)
               PROVE  /\ incomingSay'[b].seq <= outgoingSay[a].seq
                      /\ ~outgoingSay[a].pending => incomingSay'[b].seq = outgoingSay[a].seq
                      /\ incomingSay'[b].seq = outgoingSay[a].seq => incomingSay'[b].note = outgoingSay[a].note
    BY <1>1 DEF NoteReachesPeer, Mutual
  <2>1. /\ incomingSay[b].seq <= outgoingSay[a].seq
        /\ ~outgoingSay[a].pending => incomingSay[b].seq = outgoingSay[a].seq
        /\ incomingSay[b].seq = outgoingSay[a].seq => incomingSay[b].note = outgoingSay[a].note
    BY DEF NoteInv, NoteReachesPeer
  <2>2. CASE b = d /\ p.seq > incomingSay[d].seq /\ incomingSay'[d].seq = p.seq /\ incomingSay'[d].note = p.note
    <3>1. p.from = a /\ state[a] = "Playing"
      BY <1>1, <2>2 DEF Mutual
    <3>2. p.seq <= outgoingSay[a].seq /\ (p.seq = outgoingSay[a].seq => p.note = outgoingSay[a].note)
      BY <1>3, <3>1
    <3>3. p.seq > incomingSay[b].seq /\ incomingSay'[b].seq = p.seq /\ incomingSay'[b].note = p.note
      BY <2>2
    <3>4. /\ p.seq \in Nat /\ incomingSay[b].seq \in Nat /\ outgoingSay[a].seq \in Nat
          /\ ~outgoingSay[a].pending => incomingSay[b].seq = outgoingSay[a].seq
      BY <1>3, <1>5, <2>1
    <3>5. outgoingSay[a].pending
      BY <3>2, <3>3, <3>4
    <3> QED
      BY <3>2, <3>3, <3>5
  <2>3. CASE incomingSay'[b] = incomingSay[b]
    BY <2>1, <2>3
  <2> QED
    BY <1>4, <2>2, <2>3
<1> QED
  BY <1>6, <1>7, <1>8 DEF NoteInv

\* The acknowledgement of what was last said comes from a peer that heard it.
LEMMA NoteAcked ==
  ASSUME NotesTyped, NoteInv, NEW d \in Device, NEW p \in net, HearSayAck(d, p)
  PROVE  NoteInv'
<1>1. /\ state[d] = "Playing" /\ p.from = peer[d] /\ p.type = "SayAck"
      /\ UNCHANGED <<state, peer, incomingSay, net>>
      /\ \/ p.seq >= outgoingSay[d].seq /\ outgoingSay' = [outgoingSay EXCEPT ![d].pending = FALSE]
         \/ outgoingSay' = outgoingSay
  BY DEF HearSayAck, AcknowledgesSay, FromPeer, lifeVars
<1>2. \A e \in Device :
        /\ outgoingSay'[e].seq = outgoingSay[e].seq /\ outgoingSay'[e].note = outgoingSay[e].note
        /\ outgoingSay'[e].pending = outgoingSay[e].pending \/ (e = d /\ p.seq >= outgoingSay[d].seq)
  BY <1>1 DEF NotesTyped, NoteOK, Saying
<1>3. \A b \in Device : ~Entering(b, d) /\ (Mutual(d, b) => p.from = b /\ p.seq <= incomingSay[b].seq)
  BY <1>1 DEF NoteInv, NoteOnAir, NoteSent, Entering, Mutual
<1>4. p.seq \in Nat /\ \A e \in Device : outgoingSay[e].seq \in Nat /\ incomingSay[e].seq \in Nat
  BY NoteNumbers DEF NotesTyped
<1>5. NoteOnAir'
  BY <1>1, <1>2 DEF NoteInv, NoteOnAir, NoteSent, NotesTyped
<1>6. NoteEntering'
  BY <1>1, <1>2, <1>3 DEF NoteInv, NoteEntering, Entering
<1>7. NoteReachesPeer'
  <2> SUFFICES ASSUME NEW a \in Device, NEW b \in Device, Mutual(a, b)
               PROVE  /\ incomingSay[b].seq <= outgoingSay[a].seq
                      /\ ~outgoingSay'[a].pending => incomingSay[b].seq = outgoingSay[a].seq
                      /\ incomingSay[b].seq = outgoingSay[a].seq => incomingSay[b].note = outgoingSay[a].note
    BY <1>1, <1>2 DEF NoteReachesPeer, Mutual
  <2>1. /\ incomingSay[b].seq <= outgoingSay[a].seq
        /\ ~outgoingSay[a].pending => incomingSay[b].seq = outgoingSay[a].seq
        /\ incomingSay[b].seq = outgoingSay[a].seq => incomingSay[b].note = outgoingSay[a].note
    BY DEF NoteInv, NoteReachesPeer
  <2>2. CASE a = d /\ p.seq >= outgoingSay[d].seq
    BY <1>3, <1>4, <2>1, <2>2
  <2>3. CASE outgoingSay'[a].pending = outgoingSay[a].pending
    BY <2>1, <2>3
  <2> QED
    BY <1>2, <2>2, <2>3
<1> QED
  BY <1>5, <1>6, <1>7 DEF NoteInv

\* A note that is said is newer than all before it, and retried.
LEMMA NoteSaid ==
  ASSUME NotesTyped, NotesTyped', NoteInv, NEW d \in Device, NEW n, Announce(d, n)
  PROVE  NoteInv'
<1> DEFINE s == outgoingSay[d].seq + 1
           q == SayPkt(d, s, n)
<1>1. /\ state[d] = "Playing" /\ UNCHANGED <<state, peer, incomingSay>>
      /\ outgoingSay' = [outgoingSay EXCEPT ![d] = [note |-> n, seq |-> s, pending |-> TRUE]]
      /\ net' = net \cup {q}
  BY DEF Announce, Send, lifeVars, matchVars
<1>2. q.type = "Say" /\ q.from = d /\ q.to = peer[d] /\ q.seq = s /\ q.note = n
  BY DEF SayPkt, Pkt
<1> HIDE DEF q
<1>3. /\ \A e \in Device \ {d} : outgoingSay'[e] = outgoingSay[e]
      /\ outgoingSay'[d].seq = outgoingSay[d].seq + 1 /\ outgoingSay'[d].note = n
      /\ outgoingSay'[d].pending
  BY <1>1 DEF NotesTyped, NoteOK
<1>4. \A e \in Device : outgoingSay[e].seq \in Nat /\ incomingSay[e].seq \in Nat
  BY NoteNumbers
<1> HIDE DEF s
<1>5. NoteOnAir'
  <2> SUFFICES ASSUME NEW r \in net', r.type \in {"Say", "SayAck"} PROVE NoteSent(r)'
    BY DEF NoteOnAir
  <2>1. CASE r \in net
    <3>1. r.from \in Device /\ r.seq \in Nat
      BY <2>1 DEF NotesTyped
    <3> QED
      BY <1>1, <1>3, <1>4, <2>1, <3>1 DEF NoteInv, NoteOnAir, NoteSent
  <2>2. CASE r = q
    <3>1. r.from = d /\ r.type = "Say" /\ r.to = peer[d] /\ r.note = n
      BY <1>2, <2>2
    <3>2. r.seq = outgoingSay[d].seq + 1
      BY <1>2, <2>2 DEF s
    <3>3. r.seq <= outgoingSay'[d].seq
      BY <1>3, <1>4, <3>2
    <3> QED
      BY <1>1, <1>3, <3>1, <3>3 DEF NoteSent
  <2> QED
    BY <1>1, <2>1, <2>2
<1>6. NoteEntering'
  BY <1>1, <1>3, <1>4 DEF NoteInv, NoteEntering, Entering
<1>7. NoteReachesPeer'
  BY <1>1, <1>3, <1>4 DEF NoteInv, NoteReachesPeer, Mutual
<1> QED
  BY <1>5, <1>6, <1>7 DEF NoteInv

LEMMA NoteTaken ==
  ASSUME NotesTyped, NoteInv, NEW d \in Device, TakeAnnouncement(d)
  PROVE  NoteInv'
<1>1. /\ UNCHANGED <<state, peer, outgoingSay, net>>
      /\ incomingSay' = [incomingSay EXCEPT ![d].pending = FALSE]
  BY DEF TakeAnnouncement, lifeVars, matchVars
<1>2. \A e \in Device : incomingSay'[e].seq = incomingSay[e].seq /\ incomingSay'[e].note = incomingSay[e].note
  BY <1>1 DEF NotesTyped, NoteOK, Saying
<1>3. NoteOnAir'
  BY <1>1, <1>2 DEF NoteInv, NoteOnAir, NoteSent, NotesTyped
<1>4. NoteEntering' /\ NoteReachesPeer'
  BY <1>1, <1>2 DEF NoteInv, NoteEntering, NoteReachesPeer, Entering, Mutual
<1> QED
  BY <1>3, <1>4 DEF NoteInv

LEMMA NotesHaveTypes == TypeOK => NotesTyped
  BY DEF TypeOK, NotesTyped, Packet

\* A step after which one device is out of its match; the rest is as it was.
LEMMA NoteOut ==
  ASSUME TypeOK, NoteInv, NEW d \in Device, state'[d] \notin {"Playing", "Searching"},
         \A e \in Device \ {d} : /\ state'[e] = state[e] /\ peer'[e] = peer[e]
                                 /\ outgoingSay'[e] = outgoingSay[e]
                                 /\ incomingSay'[e] = incomingSay[e],
         \A p \in net' : p \in net \/ p.type \notin {"Say", "SayAck"}
  PROVE  NoteInv'
<1>1. \A p \in net : p.from \in Device
  BY DEF TypeOK, Packet
<1>2. NoteOnAir'
  <2> SUFFICES ASSUME NEW p \in net', p.type \in {"Say", "SayAck"} PROVE NoteSent(p)'
    BY DEF NoteOnAir
  <2>1. p \in net /\ NoteSent(p) /\ p.from \in Device
    BY <1>1 DEF NoteInv, NoteOnAir
  <2> QED
    BY <2>1 DEF NoteSent
<1>3. \A a, b \in Device :
        /\ Entering(a, b)' => Entering(a, b) /\ b # d
        /\ Mutual(a, b)' => Mutual(a, b) /\ a # d /\ b # d
  BY DEF Entering, Mutual
<1>4. NoteEntering'
  BY <1>3 DEF NoteInv, NoteEntering
<1>5. NoteReachesPeer'
  BY <1>3 DEF NoteInv, NoteReachesPeer
<1> QED
  BY <1>2, <1>4, <1>5 DEF NoteInv

LEMMA NoteEnd ==
  ASSUME TypeOK, NoteInv, NEW d \in Device, NEW r \in EndReason, End(d, r),
         \A p \in net' : p \in net \/ p.type \notin {"Say", "SayAck"}
  PROVE  NoteInv'
<1>1. /\ state' = [state EXCEPT ![d] = "Ended"] /\ UNCHANGED <<peer, outgoingSay, incomingSay>>
  BY DEF End, matchVars, noteVars
<1>2. state'[d] = "Ended" /\ \A e \in Device \ {d} : state'[e] = state[e]
  BY <1>1 DEF TypeOK, LifeOK
<1> QED
  BY <1>1, <1>2, NoteOut

\* Who searches for the first time has said nothing, and is nobody's peer.
LEMMA NoteBegin ==
  ASSUME TypeOK, IInv, NoteInv, MaxTrips = 1, NEW d \in Device, NEW g \in Game, NEW t \in Toss,
         Begin(d, g, t)
  PROVE  NoteInv'
<1>1. trips[d] = 0 /\ state[d] = "Idle"
  BY DEF Begin, TypeOK, LifeOK
<1>2. /\ \A e \in Device : state[e] = "Playing" => peer[e] # d
      /\ \A p \in net : p.from # d
  BY <1>1 DEF IInv, OneTrip
<1>3. /\ state' = [state EXCEPT ![d] = "Searching"] /\ peer' = [peer EXCEPT ![d] = NoDevice]
      /\ outgoingSay' = [outgoingSay EXCEPT ![d] = NoSay]
      /\ incomingSay' = [incomingSay EXCEPT ![d] = NoSay]
  BY DEF Begin, ResetLink
<1>4. /\ state'[d] = "Searching"
      /\ \A e \in Device \ {d} : /\ state'[e] = state[e] /\ peer'[e] = peer[e]
                                 /\ outgoingSay'[e] = outgoingSay[e]
                                 /\ incomingSay'[e] = incomingSay[e]
  BY <1>3 DEF TypeOK, LifeOK, MatchOK, NoteOK
<1>5. \A p \in net' : p \in net \/ p.type = "Hello"
  BY DEF Begin, Surviving
<1>6. \A p \in net : p.from \in Device \ {d}
  BY <1>2 DEF TypeOK, Packet
<1>7. NoteOnAir'
  <2> SUFFICES ASSUME NEW p \in net', p.type \in {"Say", "SayAck"} PROVE NoteSent(p)'
    BY DEF NoteOnAir
  <2>1. p \in net
    BY <1>5
  <2>2. NoteSent(p) /\ p.from \in Device \ {d}
    BY <1>6, <2>1 DEF NoteInv, NoteOnAir
  <2> QED
    BY <1>4, <2>2 DEF NoteSent
<1>8. \A a, b \in Device :
        /\ Entering(a, b)' => Entering(a, b) /\ b # d
        /\ Mutual(a, b)' => Mutual(a, b) /\ a # d /\ b # d
  BY <1>2, <1>4 DEF Entering, Mutual
<1>9. NoteEntering'
  <2> SUFFICES ASSUME NEW a \in Device, NEW b \in Device, Entering(a, b)'
               PROVE  /\ incomingSay'[b].seq = 0 /\ incomingSay'[b].note = NoNote
                      /\ outgoingSay'[b].seq = 0 => outgoingSay'[b].note = NoNote
                      /\ ~outgoingSay'[b].pending => outgoingSay'[b].seq = 0
    BY DEF NoteEntering
  <2>1. Entering(a, b) /\ b # d
    BY <1>8
  <2>2. incomingSay'[b] = incomingSay[b] /\ outgoingSay'[b] = outgoingSay[b]
    BY <1>4, <2>1
  <2>3. /\ incomingSay[b].seq = 0 /\ incomingSay[b].note = NoNote
        /\ outgoingSay[b].seq = 0 => outgoingSay[b].note = NoNote
        /\ ~outgoingSay[b].pending => outgoingSay[b].seq = 0
    BY <2>1 DEF NoteInv, NoteEntering
  <2> QED
    BY <2>2, <2>3
<1>10. NoteReachesPeer'
  BY <1>4, <1>8 DEF NoteInv, NoteReachesPeer
<1> QED
  BY <1>7, <1>9, <1>10 DEF NoteInv

\* A match starts with nothing said and nothing heard, on both sides.
LEMMA NoteMatch ==
  ASSUME TypeOK, NoteInv, NEW d \in Device, NEW p \in net,
         state[d] = "Searching", p.from # d, MatchWith(d, p)
  PROVE  NoteInv'
<1>0. p.from \in Device
  BY DEF TypeOK, Packet
<1>1. /\ state' = [state EXCEPT ![d] = "Playing"]
      /\ peer' = [peer EXCEPT ![d] = p.from]
      /\ outgoingSay' = [outgoingSay EXCEPT ![d] = NoSay]
      /\ incomingSay' = [incomingSay EXCEPT ![d] = NoSay]
  BY DEF MatchWith
<1>2. /\ state'[d] = "Playing" /\ peer'[d] = p.from
      /\ \A e \in Device \ {d} : /\ state'[e] = state[e] /\ peer'[e] = peer[e]
                                 /\ outgoingSay'[e] = outgoingSay[e]
                                 /\ incomingSay'[e] = incomingSay[e]
  BY <1>1 DEF TypeOK, LifeOK, MatchOK, NoteOK
<1>3. /\ outgoingSay'[d].seq = 0 /\ outgoingSay'[d].note = NoNote
      /\ incomingSay'[d].seq = 0 /\ incomingSay'[d].note = NoNote
  BY <1>1 DEF TypeOK, NoteOK, NoSay
<1>4. \A r \in net' : r \in net \/ r.type = "Ack"
  BY DEF MatchWith, Send, Pkt
<1>5. \A r \in net : r.type \in {"Say", "SayAck"} => r.from \in Device \ {d}
  BY DEF TypeOK, Packet, NoteInv, NoteOnAir, NoteSent
<1>6. NoteOnAir'
  <2> SUFFICES ASSUME NEW r \in net', r.type \in {"Say", "SayAck"} PROVE NoteSent(r)'
    BY DEF NoteOnAir
  <2>1. NoteSent(r) /\ r.from \in Device \ {d}
    BY <1>4, <1>5 DEF NoteInv, NoteOnAir
  <2> QED
    BY <1>2, <2>1 DEF NoteSent
<1>7. NoteEntering'
  BY <1>2, <1>3 DEF NoteInv, NoteEntering, Entering
<1>8. NoteReachesPeer'
  <2> SUFFICES ASSUME NEW a \in Device, NEW b \in Device, Mutual(a, b)'
               PROVE  /\ incomingSay'[b].seq <= outgoingSay'[a].seq
                      /\ ~outgoingSay'[a].pending => incomingSay'[b].seq = outgoingSay'[a].seq
                      /\ incomingSay'[b].seq = outgoingSay'[a].seq => incomingSay'[b].note = outgoingSay'[a].note
    BY DEF NoteReachesPeer
  <2>1. a # b /\ state'[a] = "Playing" /\ state'[b] = "Playing" /\ peer'[a] = b /\ peer'[b] = a
    BY DEF Mutual
  <2>2. CASE a = d
    <3>1. Entering(d, b)
      BY <1>2, <2>1, <2>2 DEF Entering
    <3>2. incomingSay'[b].seq = 0 /\ incomingSay'[b].note = NoNote
      BY <1>2, <2>1, <2>2, <3>1 DEF NoteInv, NoteEntering
    <3> QED
      BY <1>3, <2>2, <3>2
  <2>3. CASE b = d
    <3>1. Entering(d, a)
      BY <1>2, <2>1, <2>3 DEF Entering
    <3>2. /\ outgoingSay'[a] = outgoingSay[a] /\ outgoingSay[a].seq \in Nat
          /\ outgoingSay[a].seq = 0 => outgoingSay[a].note = NoNote
          /\ ~outgoingSay[a].pending => outgoingSay[a].seq = 0
      BY <1>2, <2>1, <2>3, <3>1 DEF NoteInv, NoteEntering, TypeOK, NoteOK, Saying
    <3> QED
      BY <1>3, <2>3, <3>2
  <2>4. CASE a # d /\ b # d
    <3>1. Mutual(a, b)
      BY <1>2, <2>1, <2>4 DEF Mutual
    <3>2. /\ incomingSay[b].seq <= outgoingSay[a].seq
          /\ ~outgoingSay[a].pending => incomingSay[b].seq = outgoingSay[a].seq
          /\ incomingSay[b].seq = outgoingSay[a].seq => incomingSay[b].note = outgoingSay[a].note
      BY <3>1 DEF NoteInv, NoteReachesPeer
    <3>3. outgoingSay'[a] = outgoingSay[a] /\ incomingSay'[b] = incomingSay[b]
      BY <1>2, <2>4
    <3> QED
      BY <3>2, <3>3
  <2> QED
    BY <2>2, <2>3, <2>4
<1> QED
  BY <1>6, <1>7, <1>8 DEF NoteInv

LEMMA NoteLocal ==
  ASSUME TypeOK, TypeOK', IInv, NoteInv, MaxTrips = 1, NEW d \in Device, Local(d)
  PROVE  NoteInv'
<1>0. NotesTyped /\ NotesTyped'
  BY NotesHaveTypes DEF TypeOK, NotesTyped, Packet
<1>1. CASE \E g \in Game, t \in Toss : Begin(d, g, t)
  BY <1>1, NoteBegin
<1>2. CASE Leave(d)
  <2>1. \A p \in net' : p \in net \/ p.type = "Bye"
    BY <1>2 DEF Leave, Send, Pkt
  <2> QED
    BY <1>2, <2>1, NoteEnd DEF Leave, EndReason
<1>3. CASE Reset(d)
  <2>1. /\ state' = [state EXCEPT ![d] = "Idle"] /\ peer' = [peer EXCEPT ![d] = NoDevice]
        /\ outgoingSay' = [outgoingSay EXCEPT ![d] = NoSay]
        /\ incomingSay' = [incomingSay EXCEPT ![d] = NoSay] /\ net' = net
    BY <1>3 DEF Reset, ResetLink
  <2>2. /\ state'[d] = "Idle"
        /\ \A e \in Device \ {d} : /\ state'[e] = state[e] /\ peer'[e] = peer[e]
                                   /\ outgoingSay'[e] = outgoingSay[e]
                                   /\ incomingSay'[e] = incomingSay[e]
    BY <2>1 DEF TypeOK, LifeOK, MatchOK, NoteOK
  <2> QED
    BY <2>1, <2>2, NoteOut
<1>4. ASSUME NEW m \in Move, Submit(d, m) PROVE NoteInv'
  <2>1. \A p \in net' : p \in net \/ p.type = "State"
    BY <1>4 DEF Submit, Play, Send, StatePkt, Pkt
  <2> QED
    BY <1>0, <1>4, <2>1, NoteSame DEF Submit, Play, lifeVars, matchVars
<1>5. CASE TakeIncoming(d)
  BY <1>0, <1>5, NoteSame DEF TakeIncoming, lifeVars, matchVars
<1>6. CASE \E n \in Note : Announce(d, n)
  BY <1>0, <1>6, NoteSaid
<1>7. CASE TakeAnnouncement(d)
  BY <1>0, <1>7, NoteTaken
<1> QED
  BY <1>1, <1>2, <1>3, <1>4, <1>5, <1>6, <1>7 DEF Local

\* A step that only sends a packet of another kind, or a good one.
LEMMA NoteSend ==
  ASSUME NotesTyped, NoteInv, NEW p, p.type \notin {"Say", "SayAck"} \/ GoodNote(p), Send(p),
         UNCHANGED <<state, peer, noteVars>>
  PROVE  NoteInv'
  BY NoteSame DEF Send

\* What is retried is what was last said.
LEMMA NoteRetried ==
  ASSUME NotesTyped, NoteInv, NEW d \in Device, RetrySay(d)
  PROVE  NoteInv'
<1> DEFINE p == SayPkt(d, outgoingSay[d].seq, outgoingSay[d].note)
<1>1. GoodNote(p)
  BY DEF GoodNote, SayPkt, Pkt, RetrySay
<1>2. Send(p) /\ UNCHANGED <<state, peer, noteVars>>
  BY DEF RetrySay, lifeVars, matchVars
<1> HIDE DEF p
<1> QED
  BY <1>1, <1>2, NoteSend

LEMMA NoteTimer ==
  ASSUME TypeOK, NoteInv, NEW d \in Device, Timer(d)
  PROVE  NoteInv'
<1>0. NotesTyped
  BY NotesHaveTypes
<1>1. CASE LosePeer(d)
  BY <1>1, NoteEnd DEF LosePeer, EndReason
<1>2. CASE ForgetCandidate(d)
  BY <1>0, <1>2, NoteSame DEF ForgetCandidate, matchVars
<1>3. CASE SendHello(d)
  BY <1>0, <1>3, NoteSame DEF SendHello, Send, Pkt, lifeVars, matchVars
<1>4. CASE SendJoin(d)
  BY <1>0, <1>4, NoteSame DEF SendJoin, Send, Pkt, lifeVars, matchVars
<1>5. CASE RetrySay(d)
  BY <1>0, <1>5, NoteRetried
<1>6. CASE RetryState(d)
  BY <1>0, <1>6, NoteSame DEF RetryState, Send, StatePkt, Pkt, lifeVars, matchVars
<1>7. CASE Heartbeat(d)
  BY <1>0, <1>7, NoteSame DEF Heartbeat, Send, Pkt, lifeVars, matchVars
<1> QED
  BY <1>1, <1>2, <1>3, <1>4, <1>5, <1>6, <1>7 DEF Timer

LEMMA NoteReceive ==
  ASSUME TypeOK, TypeOK', NoteInv, NEW d \in Device, NEW p \in net, Receive(d, p)
  PROVE  NoteInv'
<1>0. NotesTyped /\ NotesTyped'
  BY NotesHaveTypes DEF TypeOK, NotesTyped, Packet
<1>1. CASE HearHello(d, p)
  BY <1>0, <1>1, NoteSame DEF HearHello, matchVars
<1>2. CASE HearJoin(d, p) \/ HearFromMatched(d, p)
  BY <1>2, NoteMatch DEF HearJoin, HearFromMatched, Receivable
<1>3. CASE AnswerJoin(d, p)
  BY <1>0, <1>3, NoteSame DEF AnswerJoin, Send, Pkt, lifeVars, matchVars
<1>4. CASE HearState(d, p)
  BY <1>0, <1>4, NoteSame DEF HearState, AckCopy, Send, Pkt, lifeVars
<1>5. CASE HearAck(d, p)
  BY <1>0, <1>5, NoteSame DEF HearAck, lifeVars
<1>6. CASE HearSay(d, p)
  BY <1>0, <1>6, NoteHear
<1>7. CASE HearSayAck(d, p)
  BY <1>0, <1>7, NoteAcked
<1>8. CASE HearBye(d, p) \/ HearPeerHello(d, p)
  BY <1>8, NoteEnd DEF HearBye, HearPeerHello, EndReason
<1> QED
  BY <1>1, <1>2, <1>3, <1>4, <1>5, <1>6, <1>7, <1>8 DEF Receive

LEMMA NoteInit == Init => NoteInv
  BY DEF Init, NoteInv, NoteOnAir, NoteSent, NoteEntering, NoteReachesPeer, Mutual, Entering

LEMMA NoteNext ==
  ASSUME MaxTrips = 1
  PROVE  TypeOK /\ TypeOK' /\ IInv /\ NoteInv /\ [Next]_vars => NoteInv'
<1>1. TypeOK /\ NoteInv /\ UNCHANGED vars => NoteInv'
  BY NotesHaveTypes, NoteSame DEF vars, lifeVars, matchVars
<1> QED
  BY <1>1, NoteLocal, NoteTimer, NoteReceive DEF Next

LEMMA NoteAlways == ASSUME MaxTrips = 1 PROVE Spec => []NoteInv
  BY NoteInit, NoteNext, TypeCorrect, InvAlways, PTL DEF Spec

\* When every device searches once, a note stops being retried only once the
\* peer has it, and what the peer holds under its number is the very note that
\* was said (Session::announce, kSay and kSayAck in LinkSession.cpp).
THEOREM NotesReach == ASSUME MaxTrips = 1 PROVE Spec => []NoteReachesPeer
<1>1. NoteInv => NoteReachesPeer
  BY DEF NoteInv
<1> QED
  BY <1>1, NoteAlways, PTL
=============================================================================
