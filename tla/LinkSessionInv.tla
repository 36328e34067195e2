-------------------------- MODULE LinkSessionInv ---------------------------
(***************************************************************************)
(* Why LinkSession is safe when every device searches once: IInv, the      *)
(* inductive invariant behind HostAgreement and TurnExclusion, and         *)
(* MatchInv, what two devices know of each other on top of it, behind      *)
(* BoardsAgree, MoveReachesPeer, NoteReachesPeer, NoBoardSkipped and the   *)
(* refinement of TurnGame.                                                 *)
(***************************************************************************)
EXTENDS LinkSession

\* One trip per device, and only a device on its trip has spoken.
OneTrip ==
  \A d \in Device :
    /\ trips[d] <= 1
    /\ state[d] # "Idle" => trips[d] = 1
    /\ state[d] = "Playing" => peer[d] \in Device /\ trips[peer[d]] = 1
    /\ \A p \in net : p.from = d => trips[d] = 1

\* Every packet carries its sender's one toss.
OneToss ==
  \A p \in net : state[p.from] # "Idle" => p.toss = toss[p.from]

\* Who moves first is a function of the two tosses alone.
HostLaw ==
  \A a \in Device :
    state[a] = "Playing" /\ state[peer[a]] # "Idle" =>
      isHost[a] = MovesFirst(a, toss[a], peer[a], toss[peer[a]])

\* What a device knows of itself: its first turn is the host's, and what it
\* may retransmit is no newer than its move counter.
OwnMoves ==
  \A a \in Device : state[a] = "Playing" =>
    /\ sequence[a] = 0 /\ myTurn[a] => isHost[a]
    /\ outgoing[a].seq <= sequence[a]

\* States and acknowledgements come from a device that has matched, go to its
\* peer, and are no newer than its move counter.
FromMatched ==
  \A p \in net : p.type \in {"State", "Ack"} =>
    /\ state[p.from] # "Searching"
    /\ state[p.from] = "Playing" => p.to = peer[p.from] /\ p.seq <= sequence[p.from]

\* b's match with a is live: a is in it, or may still enter it.
Entering(a, b) == state[a] = "Searching" /\ state[b] = "Playing" /\ peer[b] = a

\* One device is at most one move ahead of the other, and a device whose turn
\* it is has seen everything; only the host can be ahead of a peer still
\* entering.
Lead ==
  \A a, b \in Device :
    /\ Mutual(a, b) =>
         /\ sequence[b] <= sequence[a] + 1
         /\ myTurn[b] => sequence[b] = sequence[a]
    /\ Entering(a, b) =>
         /\ sequence[b] <= 1
         /\ myTurn[b] => sequence[b] = 0
         /\ sequence[b] = 1 => isHost[b]

IInv == OneTrip /\ OneToss /\ HostLaw /\ OwnMoves /\ FromMatched /\ Lead /\ TurnExclusion

\* What the acknowledgements mean, while the match is live.
AckLaw ==
  \A a, b \in Device : ~outgoing[b].pending =>
    /\ Mutual(a, b) => outgoing[b].seq <= sequence[a]
    /\ Entering(a, b) => outgoing[b].seq = 0

\* A device's latest board is as long as its move counter says.
BoardLength ==
  \A a \in Device : state[a] = "Playing" => Len(Latest(a)) = sequence[a]

\* A board on the air is a prefix of its sender's latest.
BoardOnAir ==
  \A p \in net : p.type = "State" =>
    /\ Len(p.board) = p.seq
    /\ Mutual(p.to, p.from) \/ Entering(p.to, p.from) =>
         \A i \in 1..p.seq : p.board[i] = Latest(p.from)[i]

\* The board kept for retransmission is a prefix of the latest.
BoardKept ==
  \A a \in Device : state[a] = "Playing" =>
    /\ Len(outgoing[a].board) = outgoing[a].seq
    /\ \A b \in Device : Mutual(b, a) \/ Entering(b, a) =>
         \A i \in 1..outgoing[a].seq : outgoing[a].board[i] = Latest(a)[i]

\* A state on the air was sent to a device on its trip, and carries the toss of
\* every other packet of its sender.
StateSent ==
  \A p \in net : p.type = "State" =>
    /\ p.to \in Device \ {p.from} /\ trips[p.to] = 1 /\ p.seq > 0
    /\ \A q \in net : q.from = p.from => q.toss = p.toss

\* No state on the air, its sender gone or not, is more than one move ahead of
\* the device it was sent to, or ahead at all once that device has the turn;
\* only a host's first move can be waiting for a device that still searches.
StateAhead ==
  \A p \in net : p.type = "State" =>
    /\ state[p.to] = "Searching" =>
         p.seq = 1 /\ MovesFirst(p.from, p.toss, p.to, toss[p.to])
    /\ state[p.to] = "Playing" /\ peer[p.to] = p.from =>
         /\ p.seq <= sequence[p.to] + 1
         /\ myTurn[p.to] => p.seq <= sequence[p.to]

\* A board that waits to be taken is the game's next one, it came over the air,
\* and until it is taken the turn is kept; before a match there is none.
Waiting ==
  \A d \in Device :
    /\ incoming[d].pending =>
         /\ Len(incoming[d].board) = Len(board[d]) + 1
         /\ \E p \in net : p.type = "State" /\ p.to = d /\ p.board = incoming[d].board
         /\ state[d] = "Playing" => myTurn[d]
    /\ trips[d] = 0 \/ state[d] = "Searching" => ~incoming[d].pending /\ board[d] = <<>>

\* Whoever has the turn answers a state it was sent, newer than its own; what
\* it retries it has sent before.
Answers ==
  \A d \in Device : state[d] = "Playing" =>
    /\ myTurn[d] =>
         /\ \A p \in net : p.type = "State" /\ p.from = d => p.seq < sequence[d]
         /\ sequence[d] > 0 =>
              \E p \in net : /\ p.type = "State" /\ p.from = peer[d] /\ p.to = d
                             /\ p.seq = sequence[d] /\ p.board = Latest(d)
    /\ outgoing[d].pending => StatePkt(d, outgoing[d].seq, outgoing[d].board) \in net

\* The states two devices ever sent each other are one history.
Between(p, q) == (p.from = q.from /\ p.to = q.to) \/ (p.from = q.to /\ p.to = q.from)

OneHistory ==
  \A p, q \in net :
    p.type = "State" /\ q.type = "State" /\ Between(p, q) /\ p.seq <= q.seq =>
      \A i \in 1..p.seq : q.board[i] = p.board[i]

HistoryInv == StateSent /\ StateAhead /\ Waiting /\ Answers /\ OneHistory

BoardInv == BoardLength /\ BoardOnAir /\ BoardKept /\ BoardsAgree

\* Notes and their acknowledgements come from a device that has matched, go to
\* its peer, and tell it nothing their sender has not said, or not heard.
NoteSent(p) ==
  /\ state[p.from] # "Searching"
  /\ state[p.from] = "Playing" =>
       /\ p.to = peer[p.from]
       /\ p.type = "Say" =>
            /\ p.seq <= outgoingSay[p.from].seq
            /\ p.seq = outgoingSay[p.from].seq => p.note = outgoingSay[p.from].note
       /\ p.type = "SayAck" => p.seq <= incomingSay[p.from].seq

NoteOnAir == \A p \in net : p.type \in {"Say", "SayAck"} => NoteSent(p)

\* Nothing is heard from a peer that still searches, and what it has not heard
\* is still being retried.
NoteEntering ==
  \A a, b \in Device : Entering(a, b) =>
    /\ incomingSay[b].seq = 0 /\ incomingSay[b].note = NoNote
    /\ outgoingSay[b].seq = 0 => outgoingSay[b].note = NoNote
    /\ ~outgoingSay[b].pending => outgoingSay[b].seq = 0

NoteInv == NoteOnAir /\ NoteEntering /\ NoteReachesPeer

\* All that two devices know of each other in a match.
MatchInv == AckLaw /\ BoardInv /\ HistoryInv /\ NoteInv
=============================================================================
