---------------------------- MODULE LinkSession ----------------------------
(***************************************************************************)
(* PLAY NEARBY, the two-player link: apps_local/link/LinkSession.cpp.      *)
(*                                                                         *)
(* Every device runs one Session.  Sessions find each other by broadcast   *)
(* Hello, agree by unicast Join, then exchange whole game states under     *)
(* strict alternation, with a one-byte note channel beside the turn.       *)
(*                                                                         *)
(* The air is a set of packets that is never consumed: a packet may be     *)
(* delivered never, once or many times, and in any order.  Intervals       *)
(* (Hello 400ms, Join 200ms, retry 400ms, heartbeat 1s, forget 3s, silence *)
(* 10s) are abstracted: a timed send or a timeout may happen whenever the  *)
(* code's other conditions allow it.  A tick that drains k packets and     *)
(* fires j timers is k + j steps here; nothing else runs on the device in  *)
(* between.                                                                *)
(***************************************************************************)
EXTENDS Naturals, Sequences

CONSTANTS
  Device,         \* link addresses; `<' is memcmp on the six bytes
  kBroadcast,     \* the broadcast address
  Game,           \* game ids
  Toss,           \* values of the coin toss
  Move,           \* what a game may play on its turn
  Note,           \* notes: "play again", "leaving"
  MaxTrips,       \* bound: begin() calls per device
  MaxMoves,       \* bound: the move counter
  MaxSays,        \* bound: notes per side and match
  StaleDelivery   \* TRUE: packets of an earlier trip may still be delivered

NoDevice == 0     \* Address{}
NoNote == 0
NoGame == 0

ASSUME LinkAssumption ==
  /\ Device \subseteq Nat \ {NoDevice}
  /\ kBroadcast \in Nat \ (Device \cup {NoDevice})
  /\ Game \subseteq Nat \ {NoGame}
  /\ Toss \subseteq Nat
  /\ 0 \in Toss
  /\ Note \subseteq Nat \ {NoNote}
  /\ MaxTrips \in Nat /\ MaxMoves \in Nat /\ MaxSays \in Nat
  /\ StaleDelivery \in BOOLEAN

VARIABLES
  state, endReason, gameId, toss, candidate, peer, isHost, myTurn,
  peerConfirmed, sequence, outgoing, incoming, outgoingSay, incomingSay,
  board,          \* the game's own copy of the shared state
  trips,          \* begin() calls so far
  net             \* every packet sent

lifeVars  == <<state, endReason, gameId, toss, candidate, trips>>
matchVars == <<peer, isHost, peerConfirmed>>
moveVars  == <<myTurn, sequence, outgoing, incoming>>
noteVars  == <<outgoingSay, incomingSay>>
vars == <<lifeVars, matchVars, moveVars, noteVars, board, net>>

State == {"Idle", "Searching", "Playing", "Ended"}
EndReason == {"None", "PeerLeft", "PeerLost", "LocalLeft"}
PacketType == {"Hello", "Join", "State", "Ack", "Bye", "Say", "SayAck"}

Board == Seq(Move)

Packet ==
  [type : PacketType, from : Device, to : Device \cup {kBroadcast, NoDevice},
   gameId : Game \cup {NoGame}, seq : Nat, toss : Toss,
   board : Board, note : Note \cup {NoNote}]

Outgoing == [board : Board, seq : Nat, pending : BOOLEAN]
Incoming == [board : Board, pending : BOOLEAN]
Saying == [note : Note \cup {NoNote}, seq : Nat, pending : BOOLEAN]

NoOutgoing == [board |-> <<>>, seq |-> 0, pending |-> FALSE]
NoIncoming == [board |-> <<>>, pending |-> FALSE]
NoSay == [note |-> NoNote, seq |-> 0, pending |-> FALSE]

LifeOK ==
  /\ state \in [Device -> State]
  /\ endReason \in [Device -> EndReason]
  /\ gameId \in [Device -> Game \cup {NoGame}]
  /\ toss \in [Device -> Toss]
  /\ candidate \in [Device -> Device \cup {NoDevice}]
  /\ trips \in [Device -> Nat]

MatchOK ==
  /\ peer \in [Device -> Device \cup {NoDevice}]
  /\ isHost \in [Device -> BOOLEAN]
  /\ peerConfirmed \in [Device -> BOOLEAN]

MoveOK ==
  /\ myTurn \in [Device -> BOOLEAN]
  /\ sequence \in [Device -> Nat]
  /\ outgoing \in [Device -> Outgoing]
  /\ incoming \in [Device -> Incoming]

NoteOK ==
  /\ outgoingSay \in [Device -> Saying]
  /\ incomingSay \in [Device -> Saying]

\* A session never courts or matches itself: its own broadcast, reflected,
\* is skipped.
TypeOK ==
  /\ LifeOK /\ MatchOK /\ MoveOK /\ NoteOK
  /\ board \in [Device -> Board]
  /\ net \subseteq Packet
  /\ \A d \in Device : peer[d] # d /\ candidate[d] # d
-----------------------------------------------------------------------------
(* The wire.                                                               *)

\* What transmit() puts on the air; the toss rides in every packet.
Pkt(d, type, to, seq) ==
  [type |-> type, from |-> d, to |-> to, gameId |-> gameId[d], seq |-> seq,
   toss |-> toss[d], board |-> <<>>, note |-> NoNote]

StatePkt(d, seq, b) == [Pkt(d, "State", peer[d], seq) EXCEPT !.board = b]
SayPkt(d, seq, n) == [Pkt(d, "Say", peer[d], seq) EXCEPT !.note = n]

Send(p) == net' = net \cup {p}

ReceivableReflected(d, p) ==
  /\ p \in net
  /\ p.to \in {d, kBroadcast}
  /\ p.gameId = gameId[d]

\* tick() skips packets of other games and its own broadcast reflected.
Receivable(d, p) ==
  /\ p \in net
  /\ p.to \in {d, kBroadcast}
  /\ p.from # d
  /\ p.gameId = gameId[d]

MovesFirstNoTieBreak(d, dToss, other, otherToss) == dToss <= otherToss

\* matchWith(): the lower toss moves first, the address breaks a tie.
MovesFirst(d, dToss, other, otherToss) ==
  IF dToss # otherToss THEN dToss < otherToss ELSE d < other
-----------------------------------------------------------------------------
(* Lifecycle: begin(), reset(), leave(), end().                            *)

ResetLink(d) ==
  /\ peer' = [peer EXCEPT ![d] = NoDevice]
  /\ candidate' = [candidate EXCEPT ![d] = NoDevice]
  /\ isHost' = [isHost EXCEPT ![d] = FALSE]
  /\ myTurn' = [myTurn EXCEPT ![d] = FALSE]
  /\ peerConfirmed' = [peerConfirmed EXCEPT ![d] = FALSE]
  /\ sequence' = [sequence EXCEPT ![d] = 0]
  /\ outgoing' = [outgoing EXCEPT ![d] = NoOutgoing]
  /\ incoming' = [incoming EXCEPT ![d] = NoIncoming]
  /\ outgoingSay' = [outgoingSay EXCEPT ![d] = NoSay]
  /\ incomingSay' = [incomingSay EXCEPT ![d] = NoSay]
  /\ endReason' = [endReason EXCEPT ![d] = "None"]

\* With the radio off between two trips nothing of the old one survives; a
\* transport that queues (the host tests' Medium) may still deliver it.
Surviving(d) ==
  IF StaleDelivery THEN net ELSE {p \in net : d \notin {p.from, p.to}}

Begin(d, g, t) ==
  /\ state[d] = "Idle"
  /\ trips[d] < MaxTrips
  /\ ResetLink(d)
  /\ trips' = [trips EXCEPT ![d] = @ + 1]
  /\ gameId' = [gameId EXCEPT ![d] = g]
  /\ toss' = [toss EXCEPT ![d] = t]
  /\ state' = [state EXCEPT ![d] = "Searching"]
  /\ net' = Surviving(d) \cup
       {[type |-> "Hello", from |-> d, to |-> kBroadcast, gameId |-> g, seq |-> 0,
         toss |-> t, board |-> <<>>, note |-> NoNote]}
  /\ UNCHANGED board

\* Also what a crash or a dead battery leaves: nobody is told.
Reset(d) ==
  /\ state[d] # "Idle"
  /\ ResetLink(d)
  /\ gameId' = [gameId EXCEPT ![d] = NoGame]
  /\ toss' = [toss EXCEPT ![d] = 0]
  /\ state' = [state EXCEPT ![d] = "Idle"]
  /\ UNCHANGED <<trips, board, net>>

End(d, reason) ==
  /\ state' = [state EXCEPT ![d] = "Ended"]
  /\ endReason' = [endReason EXCEPT ![d] = reason]
  /\ myTurn' = [myTurn EXCEPT ![d] = FALSE]
  /\ outgoing' = [outgoing EXCEPT ![d].pending = FALSE]
  /\ candidate' = [candidate EXCEPT ![d] = NoDevice]
  /\ UNCHANGED <<gameId, toss, trips, matchVars, sequence, incoming, noteVars, board>>

Leave(d) ==
  /\ state[d] \in {"Searching", "Playing"}
  /\ End(d, "LocalLeft")
  /\ IF state[d] = "Playing"
       THEN Send(Pkt(d, "Bye", peer[d], sequence[d]))
       ELSE UNCHANGED net
-----------------------------------------------------------------------------
(* Discovery and matching: handlePacket() while Searching, matchWith().    *)

\* Lowest address wins the candidate slot.
Prefers(d, a) == candidate[d] = NoDevice \/ a < candidate[d]

MatchWith(d, p) ==
  LET first == MovesFirst(d, toss[d], p.from, p.toss) IN
  /\ peer' = [peer EXCEPT ![d] = p.from]
  /\ isHost' = [isHost EXCEPT ![d] = first]
  /\ myTurn' = [myTurn EXCEPT ![d] = first]
  /\ peerConfirmed' = [peerConfirmed EXCEPT ![d] = FALSE]
  /\ sequence' = [sequence EXCEPT ![d] = 0]
  /\ outgoing' = [outgoing EXCEPT ![d] = NoOutgoing]
  /\ incoming' = [incoming EXCEPT ![d] = NoIncoming]
  /\ outgoingSay' = [outgoingSay EXCEPT ![d] = NoSay]
  /\ incomingSay' = [incomingSay EXCEPT ![d] = NoSay]
  /\ candidate' = [candidate EXCEPT ![d] = NoDevice]
  /\ state' = [state EXCEPT ![d] = "Playing"]
  /\ board' = [board EXCEPT ![d] = <<>>]
  /\ Send(Pkt(d, "Ack", p.from, 0))
  /\ UNCHANGED <<endReason, gameId, toss, trips>>

HearHello(d, p) ==
  /\ state[d] = "Searching"
  /\ Receivable(d, p) /\ p.type = "Hello"
  /\ Prefers(d, p.from)
  /\ candidate' = [candidate EXCEPT ![d] = p.from]
  /\ UNCHANGED <<state, endReason, gameId, toss, trips, matchVars, moveVars, noteVars, board, net>>

CourtsOnlyHeardHello(d, p) == p.from = candidate[d]

\* A Join makes its sender the candidate by the rule for Hellos.
CourtsByJoin(d, p) == Prefers(d, p.from) \/ p.from = candidate[d]

\* A Join from the candidate is mutual agreement; from anyone else it is
\* ignored.
HearJoin(d, p) ==
  /\ state[d] = "Searching"
  /\ Receivable(d, p) /\ p.type = "Join"
  /\ CourtsByJoin(d, p)
  /\ MatchWith(d, p)

\* Only a matched device sends these, so the sender has matched with us.
\* The payload is not adopted: it is retried.
HearFromMatched(d, p) ==
  /\ state[d] = "Searching"
  /\ Receivable(d, p) /\ p.type \in {"Ack", "State", "Say", "SayAck"}
  /\ MatchWith(d, p)
-----------------------------------------------------------------------------
(* handlePacket() while Playing.                                           *)

FromPeer(d, p) ==
  /\ state[d] = "Playing"
  /\ Receivable(d, p)
  /\ p.from = peer[d]

Confirm(d) == peerConfirmed' = [peerConfirmed EXCEPT ![d] = TRUE]

\* An unconfirmed peer is still searching: answer, at a limited rate.
AnswerJoin(d, p) ==
  /\ FromPeer(d, p) /\ p.type = "Join"
  /\ ~peerConfirmed[d]
  /\ Send(Pkt(d, "Join", peer[d], 0))
  /\ UNCHANGED <<lifeVars, matchVars, moveVars, noteVars, board>>

AnyState(d, p) == TRUE

\* A state the device has not seen.
Newer(d, p) == p.seq > sequence[d]

\* Every copy is acknowledged, a retransmission too.
AckCopy(d, p) == Send(Pkt(d, "Ack", peer[d], sequence'[d]))

\* A newer state is adopted.
HearState(d, p) ==
  /\ FromPeer(d, p) /\ p.type = "State"
  /\ IF Newer(d, p)
       THEN /\ incoming' = [incoming EXCEPT ![d] = [board |-> p.board, pending |-> TRUE]]
            /\ sequence' = [sequence EXCEPT ![d] = p.seq]
            /\ myTurn' = [myTurn EXCEPT ![d] = TRUE]
            /\ outgoing' = [outgoing EXCEPT ![d].pending = FALSE]
       ELSE UNCHANGED moveVars
  /\ Confirm(d)
  /\ AckCopy(d, p)
  /\ UNCHANGED <<lifeVars, peer, isHost, noteVars, board>>

AnyAck(d, p) == TRUE

AcknowledgesLater(d, p) == p.seq > outgoing[d].seq

\* The acknowledgement covers the state being retried.
Acknowledges(d, p) == p.seq >= outgoing[d].seq

HearAck(d, p) ==
  /\ FromPeer(d, p) /\ p.type = "Ack"
  /\ Confirm(d)
  /\ outgoing' = IF Acknowledges(d, p)
       THEN [outgoing EXCEPT ![d].pending = FALSE] ELSE outgoing
  /\ UNCHANGED <<lifeVars, peer, isHost, myTurn, sequence, incoming, noteVars, board, net>>

SayAckCopy(d, p) == Send(Pkt(d, "SayAck", peer[d], incomingSay'[d].seq))

HearSay(d, p) ==
  /\ FromPeer(d, p) /\ p.type = "Say"
  /\ incomingSay' = IF p.seq > incomingSay[d].seq
       THEN [incomingSay EXCEPT ![d] = [note |-> p.note, seq |-> p.seq, pending |-> TRUE]]
       ELSE incomingSay
  /\ Confirm(d)
  /\ SayAckCopy(d, p)
  /\ UNCHANGED <<lifeVars, peer, isHost, moveVars, outgoingSay, board>>

AnySayAck(d, p) == TRUE

\* The acknowledgement covers the note being retried.
AcknowledgesSay(d, p) == p.seq >= outgoingSay[d].seq

HearSayAck(d, p) ==
  /\ FromPeer(d, p) /\ p.type = "SayAck"
  /\ Confirm(d)
  /\ outgoingSay' = IF AcknowledgesSay(d, p)
       THEN [outgoingSay EXCEPT ![d].pending = FALSE] ELSE outgoingSay
  /\ UNCHANGED <<lifeVars, peer, isHost, moveVars, incomingSay, board, net>>

HearBye(d, p) ==
  /\ FromPeer(d, p) /\ p.type = "Bye"
  /\ End(d, "PeerLeft")
  /\ UNCHANGED net

\* A Hello comes only from a device that is not in a match.
HearPeerHello(d, p) ==
  /\ FromPeer(d, p) /\ p.type = "Hello"
  /\ peerConfirmed[d]
  /\ End(d, "PeerLeft")
  /\ UNCHANGED net
-----------------------------------------------------------------------------
(* tick(): what the clock makes due.                                       *)

ForgetCandidate(d) ==
  /\ state[d] = "Searching"
  /\ candidate[d] # NoDevice
  /\ candidate' = [candidate EXCEPT ![d] = NoDevice]
  /\ UNCHANGED <<state, endReason, gameId, toss, trips, matchVars, moveVars, noteVars, board, net>>

SendHello(d) ==
  /\ state[d] = "Searching"
  /\ Send(Pkt(d, "Hello", kBroadcast, 0))
  /\ UNCHANGED <<lifeVars, matchVars, moveVars, noteVars, board>>

SendJoin(d) ==
  /\ state[d] = "Searching"
  /\ candidate[d] # NoDevice
  /\ Send(Pkt(d, "Join", candidate[d], 0))
  /\ UNCHANGED <<lifeVars, matchVars, moveVars, noteVars, board>>

LosePeer(d) ==
  /\ state[d] = "Playing"
  /\ End(d, "PeerLost")
  /\ UNCHANGED net

RetrySay(d) ==
  /\ state[d] = "Playing"
  /\ outgoingSay[d].pending
  /\ Send(SayPkt(d, outgoingSay[d].seq, outgoingSay[d].note))
  /\ UNCHANGED <<lifeVars, matchVars, moveVars, noteVars, board>>

RetryState(d) ==
  /\ state[d] = "Playing"
  /\ outgoing[d].pending
  /\ Send(StatePkt(d, outgoing[d].seq, outgoing[d].board))
  /\ UNCHANGED <<lifeVars, matchVars, moveVars, noteVars, board>>

\* A heartbeat is due a second after the last send; a pending note or state
\* is due for retry before that, and its retry defers the heartbeat.
Heartbeat(d) ==
  /\ state[d] = "Playing"
  /\ ~outgoing[d].pending /\ ~outgoingSay[d].pending
  /\ Send(Pkt(d, "Ack", peer[d], sequence[d]))
  /\ UNCHANGED <<lifeVars, matchVars, moveVars, noteVars, board>>
-----------------------------------------------------------------------------
(* The game's side: submit(), takeIncoming(), announce(),                  *)
(* takeAnnouncement().                                                     *)

MayPlayUntaken(d) == state[d] = "Playing" /\ myTurn[d]

\* Refused off turn, and while the opponent's board is waiting to be taken.
MayPlay(d) == state[d] = "Playing" /\ myTurn[d] /\ ~incoming[d].pending

\* The session's part: the whole board goes out.
Play(d, b) ==
  /\ MayPlay(d)
  /\ sequence' = [sequence EXCEPT ![d] = @ + 1]
  /\ outgoing' = [outgoing EXCEPT ![d] =
                    [board |-> b, seq |-> sequence[d] + 1, pending |-> TRUE]]
  /\ myTurn' = [myTurn EXCEPT ![d] = FALSE]
  /\ Send(StatePkt(d, sequence[d] + 1, b))
  /\ UNCHANGED <<lifeVars, matchVars, incoming, noteVars>>

\* The game plays m on its own board and hands the board over.
Submit(d, m) ==
  /\ sequence[d] < MaxMoves
  /\ board' = [board EXCEPT ![d] = Append(board[d], m)]
  /\ Play(d, Append(board[d], m))

TakeIncoming(d) ==
  /\ incoming[d].pending
  /\ incoming' = [incoming EXCEPT ![d].pending = FALSE]
  /\ board' = [board EXCEPT ![d] = incoming[d].board]
  /\ UNCHANGED <<lifeVars, matchVars, myTurn, sequence, outgoing, noteVars, net>>

Announce(d, n) ==
  LET s == outgoingSay[d].seq + 1 IN
  /\ state[d] = "Playing"
  /\ s <= MaxSays
  /\ outgoingSay' = [outgoingSay EXCEPT ![d] = [note |-> n, seq |-> s, pending |-> TRUE]]
  /\ Send(SayPkt(d, s, n))
  /\ UNCHANGED <<lifeVars, matchVars, moveVars, incomingSay, board>>

TakeAnnouncement(d) ==
  /\ incomingSay[d].pending
  /\ incomingSay' = [incomingSay EXCEPT ![d].pending = FALSE]
  /\ UNCHANGED <<lifeVars, matchVars, moveVars, outgoingSay, board, net>>
-----------------------------------------------------------------------------
Init ==
  /\ state = [d \in Device |-> "Idle"]
  /\ endReason = [d \in Device |-> "None"]
  /\ gameId = [d \in Device |-> NoGame]
  /\ toss = [d \in Device |-> 0]
  /\ candidate = [d \in Device |-> NoDevice]
  /\ peer = [d \in Device |-> NoDevice]
  /\ isHost = [d \in Device |-> FALSE]
  /\ myTurn = [d \in Device |-> FALSE]
  /\ peerConfirmed = [d \in Device |-> FALSE]
  /\ sequence = [d \in Device |-> 0]
  /\ outgoing = [d \in Device |-> NoOutgoing]
  /\ incoming = [d \in Device |-> NoIncoming]
  /\ outgoingSay = [d \in Device |-> NoSay]
  /\ incomingSay = [d \in Device |-> NoSay]
  /\ board = [d \in Device |-> <<>>]
  /\ trips = [d \in Device |-> 0]
  /\ net = {}

Receive(d, p) ==
  \/ HearHello(d, p) \/ HearJoin(d, p) \/ HearFromMatched(d, p)
  \/ AnswerJoin(d, p) \/ HearState(d, p) \/ HearAck(d, p)
  \/ HearSay(d, p) \/ HearSayAck(d, p)
  \/ HearBye(d, p) \/ HearPeerHello(d, p)

Timer(d) ==
  \/ ForgetCandidate(d) \/ SendHello(d) \/ SendJoin(d) \/ LosePeer(d)
  \/ RetrySay(d) \/ RetryState(d) \/ Heartbeat(d)

Local(d) ==
  \/ \E g \in Game, t \in Toss : Begin(d, g, t)
  \/ Leave(d) \/ Reset(d)
  \/ \E m \in Move : Submit(d, m)
  \/ TakeIncoming(d)
  \/ \E n \in Note : Announce(d, n)
  \/ TakeAnnouncement(d)

Next == \E d \in Device : Local(d) \/ Timer(d) \/ \E p \in net : Receive(d, p)

Spec == Init /\ [][Next]_vars
-----------------------------------------------------------------------------
(* Properties.                                                             *)

Mutual(a, b) ==
  /\ a # b
  /\ state[a] = "Playing" /\ peer[a] = b
  /\ state[b] = "Playing" /\ peer[b] = a

\* Two devices matched with each other agree on which of them moves first,
\* whichever packet sealed the match on either side (LinkSession.cpp:298).
HostAgreement ==
  \A a, b \in Device : Mutual(a, b) => isHost[a] # isHost[b]

\* Two devices matched with each other are never both entitled to move, so
\* the single move counter has one writer at a time (LinkSession.h:22-24).
TurnExclusion ==
  \A a, b \in Device : Mutual(a, b) => ~(myTurn[a] /\ myTurn[b])

\* The newest state a device holds, taken by its game or not.
Latest(d) == IF incoming[d].pending THEN incoming[d].board ELSE board[d]

\* Under loss, duplication and reordering, two matched devices hold the same
\* game, one of them at most one move ahead (test_link.cpp:9-11).
BoardsAgree ==
  \A a, b \in Device : Mutual(a, b) =>
    /\ Len(Latest(a)) = sequence[a]
    /\ sequence[a] <= sequence[b] =>
         /\ sequence[b] <= sequence[a] + 1
         /\ \A i \in 1..sequence[a] : Latest(b)[i] = Latest(a)[i]

\* A state stops being retried only once the peer has adopted it.
MoveReachesPeer ==
  \A a, b \in Device :
    Mutual(a, b) /\ ~outgoing[a].pending => sequence[b] >= outgoing[a].seq

\* A note stops being retried only once the peer has it, and the peer holds
\* the very note that was said under that number.
NoteReachesPeer ==
  \A a, b \in Device : Mutual(a, b) =>
    /\ incomingSay[b].seq <= outgoingSay[a].seq
    /\ ~outgoingSay[a].pending => incomingSay[b].seq = outgoingSay[a].seq
    /\ incomingSay[b].seq = outgoingSay[a].seq => incomingSay[b].note = outgoingSay[a].note

\* A state waiting to be taken is never overwritten by a newer one: no board
\* the peer played is skipped by this device's game.
NoBoardSkipped ==
  [][\A d \in Device :
       incoming[d].pending /\ incoming'[d].pending => incoming'[d] = incoming[d]]_vars
=============================================================================
