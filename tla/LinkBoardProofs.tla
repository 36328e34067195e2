-------------------------- MODULE LinkBoardProofs --------------------------
(***************************************************************************)
(* The boards of a match: what two devices hold, what they ever sent, that *)
(* a waiting board is never skipped, and that two devices play one shared  *)
(* game.  Rests on IInv and AckLaw (LinkSessionProofs).                    *)
(***************************************************************************)
EXTENDS LinkSessionProofs, LinkTurnGame, SequenceTheorems

USE LinkAssumption DEF NoDevice, NoNote, NoGame

-----------------------------------------------------------------------------
(* Boards: while a match is live, everything a device has sent or may send *)
(* again is a prefix of what it holds.                                     *)

\* b may still take what a says as part of their match.
Live(b, a) == Mutual(b, a) \/ Entering(b, a)

\* What BoardsAgree says beyond IInv and BoardLength.
SameMoves ==
  \A a, b \in Device : Mutual(a, b) /\ sequence[a] <= sequence[b] =>
    \A i \in 1..sequence[a] : Latest(b)[i] = Latest(a)[i]

BoardIInv == BoardLength /\ BoardOnAir /\ BoardKept /\ SameMoves

\* A live match is with a device of the game, and both are in it or entering.
LEMMA LivePeer ==
  ASSUME IInv, NEW a, NEW b \in Device, Live(a, b)
  PROVE  a \in Device /\ state[b] = "Playing" /\ peer[b] = a
  BY DEF IInv, OneTrip, Live, Mutual, Entering

LEMMA LatestType ==
  ASSUME TypeOK, NEW a \in Device
  PROVE  Latest(a) \in Seq(Move) /\ Len(Latest(a)) \in Nat
<1>1. incoming[a].board \in Seq(Move) /\ board[a] \in Seq(Move)
  BY DEF TypeOK, MoveOK, Incoming, Board
<1> QED
  BY <1>1, LenProperties DEF Latest

LEMMA AgreeFromSame ==
  ASSUME TypeOK, IInv, BoardLength, SameMoves
  PROVE  BoardsAgree
<1> SUFFICES ASSUME NEW a \in Device, NEW b \in Device, Mutual(a, b)
             PROVE  /\ Len(Latest(a)) = sequence[a]
                    /\ sequence[a] <= sequence[b] =>
                         /\ sequence[b] <= sequence[a] + 1
                         /\ \A i \in 1..sequence[a] : Latest(b)[i] = Latest(a)[i]
  BY DEF BoardsAgree
<1>1. Len(Latest(a)) = sequence[a]
  BY DEF BoardLength, Mutual
<1>2. sequence[b] <= sequence[a] + 1
  BY DEF IInv, Lead
<1>3. sequence[a] <= sequence[b] => \A i \in 1..sequence[a] : Latest(b)[i] = Latest(a)[i]
  BY DEF SameMoves
<1> QED
  BY <1>1, <1>2, <1>3

\* Boards on the air stay prefixes of their sender's latest if that only grows.
LEMMA AirStep ==
  ASSUME TypeOK, IInv, IInv', BoardOnAir, net' \subseteq Packet,
         \A a, b \in Device :
           Live(b, a)' /\ (\E p \in net : p.type = "State" /\ p.from = a) =>
             Live(b, a) /\ \A i \in 1..sequence[a] : Latest(a)'[i] = Latest(a)[i],
         \A p \in net' : p.type = "State" => 
           \/ p \in net
           \/ /\ Len(p.board) = p.seq
              /\ Live(p.to, p.from)' => \A i \in 1..p.seq : p.board[i] = Latest(p.from)'[i]
  PROVE  BoardOnAir'
<1> SUFFICES ASSUME NEW p \in net', p.type = "State"
             PROVE  /\ Len(p.board) = p.seq
                    /\ Live(p.to, p.from)' => \A i \in 1..p.seq : p.board[i] = Latest(p.from)'[i]
  BY DEF BoardOnAir, Live
<1>1. CASE p \in net
  <2>1. Len(p.board) = p.seq
    BY <1>1 DEF BoardOnAir
  <2>2. ASSUME Live(p.to, p.from)', NEW i \in 1..p.seq
        PROVE  p.board[i] = Latest(p.from)'[i]
    <3>1. p.from \in Device /\ p.seq \in Nat
      BY <1>1 DEF TypeOK, Packet
    <3>2. p.to \in Device
      BY <2>2, <3>1 DEF IInv, OneTrip, Live, Mutual, Entering
    <3>3. Live(p.to, p.from) /\ \A j \in 1..sequence[p.from] : Latest(p.from)'[j] = Latest(p.from)[j]
      BY <1>1, <2>2, <3>1, <3>2
    <3>4. p.seq <= sequence[p.from] /\ sequence[p.from] \in Nat
      <4>1. state[p.from] = "Playing"
        BY <3>1, <3>3 DEF Live, Mutual, Entering
      <4> QED
        BY <1>1, <3>1, <4>1 DEF IInv, FromMatched, TypeOK, MoveOK
    <3>5. i \in 1..sequence[p.from]
      BY <3>1, <3>4
    <3>6. p.board[i] = Latest(p.from)[i]
      BY <1>1, <3>3 DEF BoardOnAir, Live
    <3> QED
      BY <3>3, <3>5, <3>6
  <2> QED
    BY <2>1, <2>2
<1>2. CASE p \notin net
  BY <1>2
<1> QED
  BY <1>1, <1>2

\* So does the board kept for retransmission.
LEMMA KeptStep ==
  ASSUME TypeOK, IInv, IInv', BoardKept,
         \A a \in Device : state'[a] = "Playing" =>
           \/ /\ state[a] = "Playing"
              /\ outgoing'[a].board = outgoing[a].board
              /\ outgoing'[a].seq = outgoing[a].seq
              /\ \A b \in Device : Live(b, a)' =>
                   Live(b, a) /\ \A i \in 1..sequence[a] : Latest(a)'[i] = Latest(a)[i]
           \/ /\ Len(outgoing'[a].board) = outgoing'[a].seq
              /\ \A i \in 1..outgoing'[a].seq : outgoing'[a].board[i] = Latest(a)'[i]
  PROVE  BoardKept'
<1> SUFFICES ASSUME NEW a \in Device, state'[a] = "Playing"
             PROVE  /\ Len(outgoing'[a].board) = outgoing'[a].seq
                    /\ \A b \in Device : Live(b, a)' =>
                         \A i \in 1..outgoing'[a].seq : outgoing'[a].board[i] = Latest(a)'[i]
  BY DEF BoardKept, Live
<1>1. CASE /\ state[a] = "Playing"
           /\ outgoing'[a].board = outgoing[a].board
           /\ outgoing'[a].seq = outgoing[a].seq
           /\ \A b \in Device : Live(b, a)' =>
                Live(b, a) /\ \A i \in 1..sequence[a] : Latest(a)'[i] = Latest(a)[i]
  <2>1. Len(outgoing'[a].board) = outgoing'[a].seq
    BY <1>1 DEF BoardKept
  <2>2. ASSUME NEW b \in Device, Live(b, a)', NEW i \in 1..outgoing[a].seq
        PROVE  outgoing[a].board[i] = Latest(a)'[i]
    <3>1. outgoing[a].seq \in Nat /\ outgoing[a].seq <= sequence[a] /\ sequence[a] \in Nat
      BY <1>1 DEF IInv, OwnMoves, TypeOK, MoveOK, Outgoing
    <3>2. i \in 1..sequence[a]
      BY <3>1
    <3>3. outgoing[a].board[i] = Latest(a)[i]
      BY <1>1, <2>2 DEF BoardKept, Live
    <3> QED
      BY <1>1, <2>2, <3>2, <3>3
  <2> QED
    BY <1>1, <2>1, <2>2
<1>2. CASE /\ Len(outgoing'[a].board) = outgoing'[a].seq
           /\ \A i \in 1..outgoing'[a].seq : outgoing'[a].board[i] = Latest(a)'[i]
  BY <1>2
<1> QED
  BY <1>1, <1>2

\* A step that starts no match and changes no board or move counter of a device
\* that stays in one; what it sends again was kept.
LEMMA BoardQuiet ==
  ASSUME TypeOK, TypeOK', IInv, IInv', BoardIInv,
         \A a, b \in Device : Live(b, a)' => Live(b, a),
         \A a, b \in Device : Mutual(a, b)' => Mutual(a, b),
         \A a \in Device : state'[a] = "Playing" =>
           /\ state[a] = "Playing"
           /\ sequence'[a] = sequence[a] /\ Latest(a)' = Latest(a)
           /\ outgoing'[a].board = outgoing[a].board /\ outgoing'[a].seq = outgoing[a].seq,
         \A p \in net' : p.type = "State" =>
           \/ p \in net
           \/ /\ state[p.from] = "Playing" /\ p.to = peer[p.from]
              /\ p.board = outgoing[p.from].board /\ p.seq = outgoing[p.from].seq
  PROVE  BoardIInv'
<1>1. BoardLength'
  BY DEF BoardIInv, BoardLength
<1>2. \A a, b \in Device : Live(b, a)' =>
        Live(b, a) /\ \A i \in 1..sequence[a] : Latest(a)'[i] = Latest(a)[i]
  BY DEF Live, Mutual, Entering
<1>3. BoardOnAir'
  <2>1. ASSUME NEW p \in net', p.type = "State", p \notin net
        PROVE  /\ Len(p.board) = p.seq
               /\ Live(p.to, p.from)' => \A i \in 1..p.seq : p.board[i] = Latest(p.from)'[i]
    <3>1. /\ state[p.from] = "Playing" /\ p.to = peer[p.from]
          /\ p.board = outgoing[p.from].board /\ p.seq = outgoing[p.from].seq
          /\ p.from \in Device
      BY <2>1 DEF TypeOK, Packet
    <3>2. p.to \in Device
      BY <3>1 DEF IInv, OneTrip
    <3>3. Len(p.board) = p.seq
      BY <3>1 DEF BoardIInv, BoardKept
    <3>4. ASSUME Live(p.to, p.from)', NEW i \in 1..p.seq
          PROVE  p.board[i] = Latest(p.from)'[i]
      <4>1. Live(p.to, p.from) /\ state'[p.from] = "Playing"
        <5>1. Live(p.to, p.from)
          BY <3>1, <3>2, <3>4
        <5>2. state'[p.from] = "Playing"
          BY <3>4 DEF Live, Mutual, Entering
        <5> QED
          BY <5>1, <5>2
      <4>2. Latest(p.from)' = Latest(p.from)
        BY <3>1, <4>1
      <4>3. p.board[i] = Latest(p.from)[i]
        <5>1. \A j \in 1..outgoing[p.from].seq : outgoing[p.from].board[j] = Latest(p.from)[j]
          BY <3>1, <3>2, <4>1 DEF BoardIInv, BoardKept, Live
        <5> QED
          BY <3>1, <3>4, <5>1
      <4> QED
        BY <4>2, <4>3
    <3> QED
      BY <3>3, <3>4
  <2>2. net' \subseteq Packet
    BY DEF TypeOK
  <2> QED
    BY <1>2, <2>1, <2>2, AirStep DEF BoardIInv
<1>4. BoardKept'
  BY <1>2, KeptStep DEF BoardIInv
<1>5. SameMoves'
  <2> SUFFICES ASSUME NEW a \in Device, NEW b \in Device, Mutual(a, b)',
                      sequence'[a] <= sequence'[b], NEW i \in 1..sequence'[a]
               PROVE  Latest(b)'[i] = Latest(a)'[i]
    BY DEF SameMoves
  <2>1. Mutual(a, b) /\ state'[a] = "Playing" /\ state'[b] = "Playing"
    BY DEF Mutual
  <2>2. sequence'[a] = sequence[a] /\ sequence'[b] = sequence[b]
    BY <2>1
  <2>3. Latest(b)[i] = Latest(a)[i]
    BY <2>1, <2>2 DEF BoardIInv, SameMoves
  <2>4. Latest(a)' = Latest(a) /\ Latest(b)' = Latest(b)
    BY <2>1
  <2> QED
    BY <2>3, <2>4
<1> QED
  BY <1>1, <1>3, <1>4, <1>5 DEF BoardIInv

LEMMA LatestSame ==
  ASSUME NEW a \in Device, incoming'[a] = incoming[a], board'[a] = board[a]
  PROVE  Latest(a)' = Latest(a)
  BY DEF Latest

\* A match starts with nothing sent and empty boards.
LEMMA BoardMatch ==
  ASSUME TypeOK, TypeOK', IInv, IInv', BoardIInv, NEW d \in Device, NEW p \in net,
         state[d] = "Searching", p.from # d, MatchWith(d, p)
  PROVE  BoardIInv'
<1>0. p.from \in Device
  BY DEF TypeOK, Packet
<1>1. /\ state' = [state EXCEPT ![d] = "Playing"] /\ peer' = [peer EXCEPT ![d] = p.from]
      /\ sequence' = [sequence EXCEPT ![d] = 0] /\ outgoing' = [outgoing EXCEPT ![d] = NoOutgoing]
      /\ incoming' = [incoming EXCEPT ![d] = NoIncoming] /\ board' = [board EXCEPT ![d] = <<>>]
      /\ net' = net \cup {Pkt(d, "Ack", p.from, 0)}
  BY DEF MatchWith, Send
<1>2. sequence'[d] = 0 /\ outgoing'[d] = NoOutgoing /\ Latest(d)' = <<>>
  BY <1>1 DEF TypeOK, MoveOK, Latest, NoIncoming
<1>3. \A e \in Device \ {d} : /\ sequence'[e] = sequence[e] /\ outgoing'[e] = outgoing[e]
                              /\ state'[e] = state[e] /\ peer'[e] = peer[e]
  BY <1>1 DEF TypeOK, MoveOK, LifeOK, MatchOK
<1>4. \A e \in Device \ {d} : Latest(e)' = Latest(e)
  BY <1>1, LatestSame DEF TypeOK, MoveOK
<1>5. \A a, b \in Device : Mutual(a, b)' /\ a # d /\ b # d => Mutual(a, b)
  BY <1>3 DEF Mutual
<1>6. \A e \in Device : Mutual(d, e)' \/ Mutual(e, d)' => Entering(d, e) /\ e # d
  BY <1>3 DEF Mutual, Entering
<1>7. \A a, b \in Device : Live(b, a)' /\ a # d => Live(b, a)
  <2> SUFFICES ASSUME NEW a \in Device, NEW b \in Device, Live(b, a)', a # d
               PROVE  Live(b, a)
    OBVIOUS
  <2>1. CASE b = d
    BY <1>3, <2>1 DEF Live, Mutual, Entering
  <2>2. CASE b # d
    BY <1>3, <2>2 DEF Live, Mutual, Entering
  <2> QED
    BY <2>1, <2>2
<1>8. BoardLength'
  <2> SUFFICES ASSUME NEW a \in Device, state'[a] = "Playing"
               PROVE  Len(Latest(a)') = sequence'[a]
    BY DEF BoardLength
  <2>1. CASE a = d
    BY <1>2, <2>1, EmptySeq
  <2>2. CASE a # d
    BY <1>3, <1>4, <2>2 DEF BoardIInv, BoardLength
  <2> QED
    BY <2>1, <2>2
<1>9. BoardOnAir'
  <2>1. \A a, b \in Device :
          Live(b, a)' /\ (\E q \in net : q.type = "State" /\ q.from = a) =>
             Live(b, a) /\ \A i \in 1..sequence[a] : Latest(a)'[i] = Latest(a)[i]
    <3> SUFFICES ASSUME NEW a \in Device, NEW b \in Device, Live(b, a)',
                        NEW q \in net, q.type = "State", q.from = a
                 PROVE  Live(b, a) /\ Latest(a)' = Latest(a)
      OBVIOUS
    <3>1. a # d
      BY DEF IInv, FromMatched
    <3> QED
      BY <1>4, <1>7, <3>1
  <2>2. \A q \in net' : q.type = "State" => q \in net
    BY <1>1 DEF Pkt
  <2>3. net' \subseteq Packet
    BY DEF TypeOK
  <2> QED
    BY <2>1, <2>2, <2>3, AirStep DEF BoardIInv
<1>10. BoardKept'
  <2> SUFFICES ASSUME NEW a \in Device, state'[a] = "Playing"
               PROVE  \/ /\ state[a] = "Playing" /\ outgoing'[a] = outgoing[a]
                         /\ \A b \in Device : Live(b, a)' => Live(b, a) /\ Latest(a)' = Latest(a)
                      \/ /\ Len(outgoing'[a].board) = outgoing'[a].seq
                         /\ \A i \in 1..outgoing'[a].seq : outgoing'[a].board[i] = Latest(a)'[i]
    BY KeptStep DEF BoardIInv
  <2>1. CASE a = d
    <3>1. outgoing'[a].board = <<>> /\ outgoing'[a].seq = 0
      BY <1>2, <2>1 DEF NoOutgoing
    <3>2. Len(outgoing'[a].board) = 0 /\ 1..0 = {}
      BY <3>1, EmptySeq
    <3> QED
      BY <3>1, <3>2
  <2>2. CASE a # d
    BY <1>3, <1>4, <1>7, <2>2
  <2> QED
    BY <2>1, <2>2
<1>11. SameMoves'
  <2> SUFFICES ASSUME NEW a \in Device, NEW b \in Device, Mutual(a, b)',
                      sequence'[a] <= sequence'[b], NEW i \in 1..sequence'[a]
               PROVE  Latest(b)'[i] = Latest(a)'[i]
    BY DEF SameMoves
  <2>1. CASE a # d /\ b # d
    <3>1. sequence[a] <= sequence[b] /\ i \in 1..sequence[a] /\ Mutual(a, b)
      BY <1>3, <1>5, <2>1
    <3>2. Latest(b)[i] = Latest(a)[i]
      BY <3>1 DEF BoardIInv, SameMoves
    <3> QED
      BY <1>4, <2>1, <3>2
  <2>2. CASE a = d
    BY <1>2, <2>2
  <2>3. CASE b = d
    <3>1. sequence'[a] = 0
      BY <1>2, <2>3 DEF TypeOK, MoveOK
    <3> QED
      BY <3>1
  <2> QED
    BY <2>1, <2>2, <2>3
<1> QED
  BY <1>8, <1>9, <1>10, <1>11 DEF BoardIInv

\* A move extends the mover's board by one; the mover had seen everything.
LEMMA BoardSubmit ==
  ASSUME TypeOK, TypeOK', IInv, IInv', BoardIInv, NEW d \in Device, NEW m \in Move, Submit(d, m)
  PROVE  BoardIInv'
<1> DEFINE n == sequence[d] + 1
           c == Append(board[d], m)
           q == StatePkt(d, n, c)
<1>1. /\ state[d] = "Playing" /\ myTurn[d] /\ ~incoming[d].pending
      /\ UNCHANGED <<state, peer, incoming>>
      /\ sequence' = [sequence EXCEPT ![d] = n]
      /\ board' = [board EXCEPT ![d] = c]
      /\ outgoing' = [outgoing EXCEPT ![d] = [board |-> c, seq |-> n, pending |-> TRUE]]
      /\ net' = net \cup {q}
  BY DEF Submit, Play, MayPlay, Send, lifeVars, matchVars
<1>2. q.type = "State" /\ q.from = d /\ q.to = peer[d] /\ q.seq = n /\ q.board = c
  BY DEF StatePkt, Pkt
<1>3. /\ board[d] \in Seq(Move) /\ sequence[d] \in Nat /\ Latest(d) = board[d]
      /\ Len(board[d]) = sequence[d]
  BY <1>1 DEF TypeOK, MoveOK, Board, Latest, BoardIInv, BoardLength
<1>4. Len(c) = n /\ \A i \in 1..sequence[d] : c[i] = board[d][i]
  BY <1>3, AppendProperties
<1>5. Latest(d)' = c
  BY <1>1 DEF Latest, TypeOK
<1> HIDE DEF c, q
<1>6. sequence'[d] = n /\ outgoing'[d].board = c /\ outgoing'[d].seq = n
  BY <1>1 DEF TypeOK, MoveOK
<1>7. \A e \in Device \ {d} : sequence'[e] = sequence[e] /\ outgoing'[e] = outgoing[e]
  BY <1>1 DEF TypeOK, MoveOK
<1>8. \A e \in Device \ {d} : Latest(e)' = Latest(e)
  BY <1>1, LatestSame DEF TypeOK, MoveOK
<1>9. \A a, b \in Device : (Mutual(a, b)' <=> Mutual(a, b)) /\ (Live(a, b)' <=> Live(a, b))
  BY <1>1 DEF Mutual, Entering, Live
<1>10. \A e \in Device : \A i \in 1..sequence[e] : Latest(e)'[i] = Latest(e)[i]
  BY <1>3, <1>4, <1>5, <1>8
<1>11. BoardLength'
  BY <1>1, <1>4, <1>5, <1>6, <1>7, <1>8 DEF BoardIInv, BoardLength
<1>12. BoardOnAir'
  <2>1. \A p \in net' : p.type = "State" =>
           \/ p \in net
           \/ /\ Len(p.board) = p.seq
              /\ Live(p.to, p.from)' => \A i \in 1..p.seq : p.board[i] = Latest(p.from)'[i]
    BY <1>1, <1>2, <1>4, <1>5
  <2>2. net' \subseteq Packet
    BY DEF TypeOK
  <2> QED
    BY <1>9, <1>10, <2>1, <2>2, AirStep DEF BoardIInv
<1>13. BoardKept'
  <2> SUFFICES ASSUME NEW a \in Device, state'[a] = "Playing"
               PROVE  \/ /\ state[a] = "Playing" /\ outgoing'[a] = outgoing[a]
                         /\ \A b \in Device : Live(b, a)' => 
                              Live(b, a) /\ \A i \in 1..sequence[a] : Latest(a)'[i] = Latest(a)[i]
                      \/ /\ Len(outgoing'[a].board) = outgoing'[a].seq
                         /\ \A i \in 1..outgoing'[a].seq : outgoing'[a].board[i] = Latest(a)'[i]
    BY KeptStep DEF BoardIInv
  <2>1. CASE a = d
    BY <1>4, <1>5, <1>6, <2>1
  <2>2. CASE a # d
    BY <1>1, <1>7, <1>9, <1>10, <2>2
  <2> QED
    BY <2>1, <2>2
<1>14. SameMoves'
  <2> SUFFICES ASSUME NEW a \in Device, NEW b \in Device, Mutual(a, b),
                      sequence'[a] <= sequence'[b], NEW i \in 1..sequence'[a]
               PROVE  Latest(b)'[i] = Latest(a)'[i]
    BY <1>9 DEF SameMoves
  <2>0. a # b /\ sequence[a] \in Nat /\ sequence[b] \in Nat /\ Mutual(b, a)
    BY DEF Mutual, TypeOK, MoveOK
  <2>1. CASE a = d
    <3>1. sequence[b] <= sequence[d]
      <4>1. sequence[d] = sequence[b]
        BY <1>1, <2>0, <2>1 DEF IInv, Lead
      <4> QED
        BY <1>3, <4>1
    <3>2. sequence'[b] = sequence[b]
      BY <1>7, <2>0, <2>1
    <3> QED
      BY <1>3, <1>6, <2>0, <2>1, <3>1, <3>2
  <2>2. CASE b = d
    <3>1. sequence[a] = sequence[d] /\ sequence'[a] = sequence[a]
      BY <1>1, <1>7, <2>0, <2>2 DEF IInv, Lead
    <3>2. Latest(b)[i] = Latest(a)[i]
      BY <1>3, <2>0, <2>2, <3>1 DEF BoardIInv, SameMoves
    <3>3. Latest(b)'[i] = Latest(b)[i] /\ Latest(a)' = Latest(a)
      BY <1>8, <1>10, <2>0, <2>2, <3>1
    <3> QED
      BY <3>2, <3>3
  <2>3. CASE a # d /\ b # d
    <3>1. Latest(b)[i] = Latest(a)[i]
      BY <1>7, <2>3 DEF BoardIInv, SameMoves
    <3> QED
      BY <1>8, <2>3, <3>1
  <2> QED
    BY <2>1, <2>2, <2>3
<1> QED
  BY <1>11, <1>12, <1>13, <1>14 DEF BoardIInv

\* An adopted board is the peer's latest, and extends one's own.
LEMMA BoardAdopt ==
  ASSUME TypeOK, TypeOK', IInv, IInv', BoardIInv, NEW d \in Device, NEW p \in net,
         HearState(d, p), p.seq > sequence[d]
  PROVE  BoardIInv'
<1>0. p.from \in Device /\ p.seq \in Nat /\ sequence[d] \in Nat
  BY DEF TypeOK, Packet, MoveOK
<1>1. /\ state[d] = "Playing" /\ p.from = peer[d] /\ p.type = "State" /\ p.from # d
      /\ UNCHANGED <<state, peer, board>>
      /\ sequence' = [sequence EXCEPT ![d] = p.seq]
      /\ incoming' = [incoming EXCEPT ![d] = [board |-> p.board, pending |-> TRUE]]
      /\ outgoing' = [outgoing EXCEPT ![d].pending = FALSE]
  BY DEF HearState, Newer, FromPeer, Receivable, lifeVars
<1>2. net' = net \cup {Pkt(d, "Ack", peer[d], sequence'[d])}
  BY DEF HearState, AckCopy, Send
<1>3. sequence'[d] = p.seq /\ Latest(d)' = p.board
  BY <1>1 DEF TypeOK, MoveOK, Latest
<1>4. /\ \A e \in Device : outgoing'[e].board = outgoing[e].board /\ outgoing'[e].seq = outgoing[e].seq
      /\ \A e \in Device \ {d} : sequence'[e] = sequence[e]
  BY <1>1 DEF TypeOK, MoveOK, Outgoing
<1>5. \A e \in Device \ {d} : Latest(e)' = Latest(e)
  BY <1>1, LatestSame DEF TypeOK, MoveOK
<1>6. \A a, b \in Device : (Mutual(a, b)' <=> Mutual(a, b)) /\ (Live(a, b)' <=> Live(a, b))
  BY <1>1 DEF Mutual, Entering, Live
<1>7. \A a \in Device : ~Entering(a, d)
  BY <1>1 DEF IInv, FromMatched, Entering
<1>8. Len(p.board) = p.seq
  BY <1>1 DEF BoardIInv, BoardOnAir
<1>9. ASSUME NEW e \in Device, Mutual(d, e) \/ Mutual(e, d)
      PROVE  /\ e # d /\ Mutual(d, e) /\ Mutual(e, d) /\ p.seq = sequence[e]
             /\ \A i \in 1..p.seq : p.board[i] = Latest(e)[i]
             /\ \A i \in 1..sequence[d] : p.board[i] = Latest(d)[i]
  <2>1. e # d /\ Mutual(d, e) /\ Mutual(e, d) /\ p.from = e /\ state[e] = "Playing" /\ peer[e] = d
    BY <1>1, <1>9 DEF Mutual
  <2>2. p.to = d /\ p.seq <= sequence[e] /\ sequence[e] <= sequence[d] + 1 /\ sequence[e] \in Nat
    BY <1>1, <2>1 DEF IInv, FromMatched, Lead, TypeOK, MoveOK
  <2>3. p.seq = sequence[e]
    BY <1>0, <2>2
  <2>4. \A i \in 1..p.seq : p.board[i] = Latest(e)[i]
    BY <1>1, <2>1, <2>2 DEF BoardIInv, BoardOnAir
  <2>5. \A i \in 1..sequence[d] : Latest(e)[i] = Latest(d)[i]
    BY <1>0, <2>1, <2>3 DEF BoardIInv, SameMoves
  <2>6. \A i \in 1..sequence[d] : i \in 1..p.seq
    BY <1>0
  <2> QED
    BY <2>1, <2>3, <2>4, <2>5, <2>6
<1>10. \A a, b \in Device : Live(b, a)' =>
         Live(b, a) /\ \A i \in 1..sequence[a] : Latest(a)'[i] = Latest(a)[i]
  <2> SUFFICES ASSUME NEW a \in Device, NEW b \in Device, Live(b, a)
               PROVE  \A i \in 1..sequence[a] : Latest(a)'[i] = Latest(a)[i]
    BY <1>6
  <2>1. CASE a = d
    <3>1. Mutual(b, d)
      BY <1>7, <2>1 DEF Live
    <3> QED
      BY <1>3, <1>9, <2>1, <3>1
  <2>2. CASE a # d
    BY <1>5, <2>2
  <2> QED
    BY <2>1, <2>2
<1>11. BoardLength'
  BY <1>1, <1>3, <1>4, <1>5, <1>8 DEF BoardIInv, BoardLength
<1>12. BoardOnAir'
  <2>1. \A q \in net' : q.type = "State" => q \in net
    BY <1>2 DEF Pkt
  <2>2. net' \subseteq Packet
    BY DEF TypeOK
  <2> QED
    BY <1>10, <2>1, <2>2, AirStep DEF BoardIInv
<1>13. BoardKept'
  BY <1>1, <1>4, <1>10, KeptStep DEF BoardIInv
<1>14. SameMoves'
  <2> SUFFICES ASSUME NEW a \in Device, NEW b \in Device, Mutual(a, b),
                      sequence'[a] <= sequence'[b], NEW i \in 1..sequence'[a]
               PROVE  Latest(b)'[i] = Latest(a)'[i]
    BY <1>6 DEF SameMoves
  <2>1. CASE a = d
    <3>1. b # d /\ p.board[i] = Latest(b)[i]
      BY <1>3, <1>9, <2>1
    <3> QED
      BY <1>3, <1>5, <2>1, <3>1
  <2>2. CASE b = d
    <3>1. a # d /\ p.seq = sequence[a] /\ \A j \in 1..p.seq : p.board[j] = Latest(a)[j]
      BY <1>9, <2>2
    <3>2. i \in 1..p.seq
      BY <1>4, <3>1
    <3> QED
      BY <1>3, <1>5, <2>2, <3>1, <3>2
  <2>3. CASE a # d /\ b # d
    <3>1. Latest(b)[i] = Latest(a)[i]
      BY <1>4, <2>3 DEF BoardIInv, SameMoves
    <3> QED
      BY <1>5, <2>3, <3>1
  <2> QED
    BY <2>1, <2>2, <2>3
<1> QED
  BY <1>11, <1>12, <1>13, <1>14 DEF BoardIInv

\* A step after which one device is out of its match; the rest is as it was.
LEMMA BoardOut ==
  ASSUME TypeOK, TypeOK', IInv, IInv', BoardIInv, NEW d \in Device, state'[d] # "Playing",
         \A e \in Device \ {d} :
           /\ state'[e] = state[e] /\ peer'[e] = peer[e] /\ sequence'[e] = sequence[e]
           /\ outgoing'[e] = outgoing[e] /\ incoming'[e] = incoming[e] /\ board'[e] = board[e],
         \A e \in Device : ~Entering(d, e)' \/ Entering(d, e),
         \A p \in net' : p.type = "State" => p \in net
  PROVE  BoardIInv'
<1>1. \A e \in Device \ {d} : Latest(e)' = Latest(e)
  BY LatestSame
<1>2. \A a, b \in Device : Mutual(a, b)' => Mutual(a, b) /\ a # d /\ b # d
  BY DEF Mutual
<1>3. \A a, b \in Device : Entering(a, b)' => Entering(a, b)
  <2> SUFFICES ASSUME NEW a \in Device, NEW b \in Device, Entering(a, b)' PROVE Entering(a, b)
    OBVIOUS
  <2>1. b # d
    BY DEF Entering
  <2>2. CASE a = d
    BY <2>2
  <2>3. CASE a # d
    BY <2>1, <2>3 DEF Entering
  <2> QED
    BY <2>2, <2>3
<1>4. \A a, b \in Device : Live(b, a)' => Live(b, a)
  BY <1>2, <1>3 DEF Live
<1>5. \A a \in Device : state'[a] = "Playing" =>
        /\ state[a] = "Playing"
        /\ sequence'[a] = sequence[a] /\ Latest(a)' = Latest(a)
        /\ outgoing'[a].board = outgoing[a].board /\ outgoing'[a].seq = outgoing[a].seq
  <2> SUFFICES ASSUME NEW a \in Device, state'[a] = "Playing"
               PROVE  /\ state[a] = "Playing"
                      /\ sequence'[a] = sequence[a] /\ Latest(a)' = Latest(a)
                      /\ outgoing'[a] = outgoing[a]
    OBVIOUS
  <2>1. a # d
    OBVIOUS
  <2> QED
    BY <1>1, <2>1
<1> QED
  BY <1>2, <1>4, <1>5, BoardQuiet

\* A step that sends no new state and changes nothing of any game.
LEMMA BoardSame ==
  ASSUME TypeOK, TypeOK', IInv, IInv', BoardIInv,
         UNCHANGED <<state, peer, sequence, incoming, board>>,
         \A a \in Device : outgoing'[a].board = outgoing[a].board /\ outgoing'[a].seq = outgoing[a].seq,
         \A p \in net' : p.type = "State" =>
           \/ p \in net
           \/ /\ state[p.from] = "Playing" /\ p.to = peer[p.from]
              /\ p.board = outgoing[p.from].board /\ p.seq = outgoing[p.from].seq
  PROVE  BoardIInv'
<1>1. \A a, b \in Device : (Live(b, a)' => Live(b, a)) /\ (Mutual(a, b)' => Mutual(a, b))
  BY DEF Live, Mutual, Entering
<1>2. \A a \in Device : Latest(a)' = Latest(a)
  BY LatestSame
<1> QED
  BY <1>1, <1>2, BoardQuiet

LEMMA BoardEnd ==
  ASSUME TypeOK, TypeOK', IInv, IInv', BoardIInv, NEW d \in Device, NEW r \in EndReason,
         End(d, r), \A p \in net' : p.type = "State" => p \in net
  PROVE  BoardIInv'
<1>1. /\ state' = [state EXCEPT ![d] = "Ended"] /\ UNCHANGED <<peer, sequence, incoming, board>>
      /\ outgoing' = [outgoing EXCEPT ![d].pending = FALSE]
  BY DEF End, matchVars
<1>2. state'[d] = "Ended" /\ \A e \in Device \ {d} : state'[e] = state[e] /\ outgoing'[e] = outgoing[e]
  BY <1>1 DEF TypeOK, LifeOK, MoveOK
<1>3. \A e \in Device : ~Entering(d, e)'
  BY <1>2 DEF Entering
<1> QED
  BY <1>1, <1>2, <1>3, BoardOut

\* A device that starts or drops a trip is in no match, and no one is in one
\* with a device that has not been on a trip.
LEMMA BoardBegin ==
  ASSUME TypeOK, TypeOK', IInv, IInv', BoardIInv, MaxTrips = 1,
         NEW d \in Device, NEW g \in Game, NEW t \in Toss, Begin(d, g, t)
  PROVE  BoardIInv'
<1>1. state[d] = "Idle" /\ trips[d] = 0 /\ \A e \in Device : state[e] = "Playing" => peer[e] # d
  BY DEF Begin, TypeOK, LifeOK, IInv, OneTrip
<1>2. /\ state' = [state EXCEPT ![d] = "Searching"] /\ peer' = [peer EXCEPT ![d] = NoDevice]
      /\ sequence' = [sequence EXCEPT ![d] = 0] /\ outgoing' = [outgoing EXCEPT ![d] = NoOutgoing]
      /\ incoming' = [incoming EXCEPT ![d] = NoIncoming] /\ UNCHANGED board
  BY DEF Begin, ResetLink
<1>3. \A e \in Device \ {d} :
        /\ state'[e] = state[e] /\ peer'[e] = peer[e] /\ sequence'[e] = sequence[e]
        /\ outgoing'[e] = outgoing[e] /\ incoming'[e] = incoming[e] /\ board'[e] = board[e]
  BY <1>2 DEF TypeOK, LifeOK, MatchOK, MoveOK
<1>4. state'[d] = "Searching"
  BY <1>2 DEF TypeOK, LifeOK
<1>5. \A e \in Device : ~Entering(d, e)'
  BY <1>1, <1>3, <1>4 DEF Entering
<1>6. \A p \in net' : p.type = "State" => p \in net
  BY DEF Begin, Surviving
<1> QED
  BY <1>3, <1>4, <1>5, <1>6, BoardOut

LEMMA BoardReset ==
  ASSUME TypeOK, TypeOK', IInv, IInv', BoardIInv, NEW d \in Device, Reset(d)
  PROVE  BoardIInv'
<1>1. /\ state' = [state EXCEPT ![d] = "Idle"] /\ peer' = [peer EXCEPT ![d] = NoDevice]
      /\ sequence' = [sequence EXCEPT ![d] = 0] /\ outgoing' = [outgoing EXCEPT ![d] = NoOutgoing]
      /\ incoming' = [incoming EXCEPT ![d] = NoIncoming] /\ UNCHANGED <<board, net>>
  BY DEF Reset, ResetLink
<1>2. \A e \in Device \ {d} :
        /\ state'[e] = state[e] /\ peer'[e] = peer[e] /\ sequence'[e] = sequence[e]
        /\ outgoing'[e] = outgoing[e] /\ incoming'[e] = incoming[e] /\ board'[e] = board[e]
  BY <1>1 DEF TypeOK, LifeOK, MatchOK, MoveOK
<1>3. state'[d] = "Idle"
  BY <1>1 DEF TypeOK, LifeOK
<1>4. \A e \in Device : ~Entering(d, e)'
  BY <1>3 DEF Entering
<1> QED
  BY <1>1, <1>2, <1>3, <1>4, BoardOut

\* Taking a board moves it from the session to the game: the latest is the same.
LEMMA BoardTake ==
  ASSUME TypeOK, TypeOK', IInv, IInv', BoardIInv, NEW d \in Device, TakeIncoming(d)
  PROVE  BoardIInv'
<1>1. /\ UNCHANGED <<state, peer, sequence, outgoing, net>> /\ incoming[d].pending
      /\ incoming' = [incoming EXCEPT ![d].pending = FALSE]
      /\ board' = [board EXCEPT ![d] = incoming[d].board]
  BY DEF TakeIncoming, lifeVars, matchVars
<1>2. \A a, b \in Device : (Live(b, a)' => Live(b, a)) /\ (Mutual(a, b)' => Mutual(a, b))
  BY <1>1 DEF Live, Mutual, Entering
<1>3. \A a \in Device : Latest(a)' = Latest(a)
  <2>1. ~incoming'[d].pending /\ board'[d] = incoming[d].board
    BY <1>1 DEF TypeOK, MoveOK, Incoming
  <2>2. Latest(d)' = Latest(d)
    BY <1>1, <2>1 DEF Latest
  <2>3. \A e \in Device \ {d} : Latest(e)' = Latest(e)
    BY <1>1, LatestSame DEF TypeOK, MoveOK
  <2> QED
    BY <2>2, <2>3
<1> QED
  BY <1>1, <1>2, <1>3, BoardQuiet

LEMMA BoardLocal ==
  ASSUME TypeOK, TypeOK', IInv, IInv', BoardIInv, MaxTrips = 1, NEW d \in Device, Local(d)
  PROVE  BoardIInv'
<1>1. CASE \E g \in Game, t \in Toss : Begin(d, g, t)
  BY <1>1, BoardBegin
<1>2. CASE Leave(d)
  <2>1. \A p \in net' : p.type = "State" => p \in net
    BY <1>2 DEF Leave, Send, Pkt
  <2> QED
    BY <1>2, <2>1, BoardEnd DEF Leave, EndReason
<1>3. CASE Reset(d)
  BY <1>3, BoardReset
<1>4. CASE \E m \in Move : Submit(d, m)
  BY <1>4, BoardSubmit
<1>5. CASE TakeIncoming(d)
  BY <1>5, BoardTake
<1>6. ASSUME NEW n \in Note, Announce(d, n) PROVE BoardIInv'
  <2>1. \A p \in net' : p.type = "State" => p \in net
    BY <1>6 DEF Announce, Send, SayPkt, Pkt
  <2> QED
    BY <1>6, <2>1, BoardSame DEF Announce, lifeVars, matchVars, moveVars
<1>7. CASE TakeAnnouncement(d)
  BY <1>7, BoardSame DEF TakeAnnouncement, lifeVars, matchVars, moveVars
<1> QED
  BY <1>1, <1>2, <1>3, <1>4, <1>5, <1>6, <1>7 DEF Local

LEMMA BoardTimer ==
  ASSUME TypeOK, TypeOK', IInv, IInv', BoardIInv, NEW d \in Device, Timer(d)
  PROVE  BoardIInv'
<1>1. CASE ForgetCandidate(d)
  BY <1>1, BoardSame DEF ForgetCandidate, matchVars, moveVars
<1>2. ASSUME NEW p, Send(p), p.type # "State",
             UNCHANGED <<lifeVars, matchVars, moveVars, noteVars, board>>
      PROVE  BoardIInv'
  BY <1>2, BoardSame DEF Send, lifeVars, matchVars, moveVars
<1>3. CASE SendHello(d)
  BY <1>2, <1>3 DEF SendHello, Pkt
<1>4. CASE SendJoin(d)
  BY <1>2, <1>4 DEF SendJoin, Pkt
<1>5. CASE Heartbeat(d)
  BY <1>2, <1>5 DEF Heartbeat, Pkt
<1>6. CASE RetrySay(d)
  BY <1>2, <1>6 DEF RetrySay, SayPkt, Pkt
<1>7. CASE LosePeer(d)
  BY <1>7, BoardEnd DEF LosePeer, EndReason
<1>8. CASE RetryState(d)
  <2> DEFINE q == StatePkt(d, outgoing[d].seq, outgoing[d].board)
  <2>1. /\ state[d] = "Playing" /\ net' = net \cup {q}
        /\ q.from = d /\ q.to = peer[d] /\ q.board = outgoing[d].board /\ q.seq = outgoing[d].seq
    BY <1>8 DEF RetryState, Send, StatePkt, Pkt
  <2> HIDE DEF q
  <2>2. UNCHANGED <<state, peer, sequence, incoming, board, outgoing>>
    BY <1>8 DEF RetryState, lifeVars, matchVars, moveVars
  <2> QED
    BY <2>1, <2>2, BoardSame
<1> QED
  BY <1>1, <1>3, <1>4, <1>5, <1>6, <1>7, <1>8 DEF Timer

LEMMA BoardReceive ==
  ASSUME TypeOK, TypeOK', IInv, IInv', BoardIInv, NEW d \in Device, NEW p \in net, Receive(d, p)
  PROVE  BoardIInv'
<1>1. CASE HearHello(d, p)
  BY <1>1, BoardSame DEF HearHello, matchVars, moveVars
<1>2. CASE HearJoin(d, p) \/ HearFromMatched(d, p)
  BY <1>2, BoardMatch DEF HearJoin, HearFromMatched, Receivable
<1>3. CASE AnswerJoin(d, p)
  BY <1>3, BoardSame DEF AnswerJoin, Send, Pkt, lifeVars, matchVars, moveVars
<1>4. CASE HearState(d, p)
  <2>1. CASE p.seq > sequence[d]
    BY <1>4, <2>1, BoardAdopt
  <2>2. CASE ~(p.seq > sequence[d])
    <3>1. UNCHANGED <<state, peer, board>> /\ UNCHANGED moveVars
      BY <1>4, <2>2 DEF HearState, Newer, lifeVars
    <3>2. \A q \in net' : q.type = "State" => q \in net
      BY <1>4 DEF HearState, AckCopy, Send, Pkt
    <3> QED
      BY <3>1, <3>2, BoardSame DEF moveVars
  <2> QED
    BY <2>1, <2>2
<1>5. CASE HearAck(d, p)
  <2>1. \A a \in Device : outgoing'[a].board = outgoing[a].board /\ outgoing'[a].seq = outgoing[a].seq
    <3>1. CASE outgoing' = outgoing
      BY <3>1
    <3>2. CASE outgoing' = [outgoing EXCEPT ![d].pending = FALSE]
      BY <3>2 DEF TypeOK, MoveOK, Outgoing
    <3> QED
      BY <1>5, <3>1, <3>2 DEF HearAck
  <2> QED
    BY <1>5, <2>1, BoardSame DEF HearAck, lifeVars
<1>6. CASE HearSay(d, p)
  BY <1>6, BoardSame DEF HearSay, SayAckCopy, Send, Pkt, lifeVars, moveVars
<1>7. CASE HearSayAck(d, p)
  BY <1>7, BoardSame DEF HearSayAck, lifeVars, moveVars
<1>8. CASE HearBye(d, p) \/ HearPeerHello(d, p)
  BY <1>8, BoardEnd DEF HearBye, HearPeerHello, EndReason
<1> QED
  BY <1>1, <1>2, <1>3, <1>4, <1>5, <1>6, <1>7, <1>8 DEF Receive

LEMMA BoardInit == Init => BoardIInv
<1> SUFFICES ASSUME Init PROVE BoardIInv
  OBVIOUS
<1>1. \A a \in Device : state[a] = "Idle"
  BY DEF Init
<1>2. net = {}
  BY DEF Init
<1> QED
  BY <1>1, <1>2 DEF BoardIInv, BoardLength, BoardOnAir, BoardKept, SameMoves, Mutual

LEMMA BoardNext ==
  ASSUME MaxTrips = 1
  PROVE  TypeOK /\ TypeOK' /\ IInv /\ IInv' /\ BoardIInv /\ [Next]_vars => BoardIInv'
<1>1. TypeOK /\ TypeOK' /\ IInv /\ IInv' /\ BoardIInv /\ UNCHANGED vars => BoardIInv'
  BY BoardSame DEF vars, lifeVars, matchVars, moveVars
<1> QED
  BY <1>1, BoardLocal, BoardTimer, BoardReceive DEF Next

LEMMA BoardAlways == ASSUME MaxTrips = 1 PROVE Spec => []BoardIInv
  BY BoardInit, BoardNext, TypeCorrect, InvAlways, PTL DEF Spec

-----------------------------------------------------------------------------
(* The states on the air: one history, never more than a move ahead.       *)

\* What a device adds to the air outside begin(): packets of its trip.
Speaks(d, p) == p.from = d /\ state[d] # "Idle" /\ p.toss = toss[d]

LEMMA SentStep ==
  ASSUME TypeOK, IInv, StateSent, NEW d \in Device,
         \A e \in Device : trips[e] = 1 => trips'[e] = 1,
         \A p \in net' : p \in net \/ (p.from = d /\ p.toss = toss'[d]),
         (\A p \in net : p.from # d) \/ (state[d] # "Idle" /\ toss'[d] = toss[d]),
         \A p \in net' : p.type = "State" =>
           p \in net \/ (p.to \in Device \ {p.from} /\ trips'[p.to] = 1 /\ p.seq > 0)
  PROVE  StateSent'
<1> SUFFICES ASSUME NEW p \in net', p.type = "State"
             PROVE  /\ p.to \in Device \ {p.from} /\ trips'[p.to] = 1 /\ p.seq > 0
                    /\ \A q \in net' : q.from = p.from => q.toss = p.toss
  BY DEF StateSent
<1>1. p.to \in Device \ {p.from} /\ trips'[p.to] = 1 /\ p.seq > 0
  BY DEF StateSent
<1>2. ASSUME NEW q \in net', q.from = p.from PROVE q.toss = p.toss
  <2>1. CASE p \in net /\ q \in net
    BY <1>2, <2>1 DEF StateSent
  <2>2. CASE p \notin net /\ q \notin net
    BY <2>2
  <2>3. CASE (p \in net /\ q \notin net) \/ (p \notin net /\ q \in net)
    <3>1. p.from = d /\ (p.toss = toss'[d] \/ p \in net) /\ (q.toss = toss'[d] \/ q \in net)
      BY <1>2, <2>3
    <3>2. state[d] # "Idle" /\ toss'[d] = toss[d]
      BY <1>2, <2>3, <3>1
    <3>3. (p \in net => p.toss = toss[d]) /\ (q \in net => q.toss = toss[d])
      BY <1>2, <3>1, <3>2 DEF IInv, OneToss
    <3> QED
      BY <3>1, <3>2, <3>3
  <2> QED
    BY <2>1, <2>2, <2>3
<1> QED
  BY <1>1, <1>2

\* The other conjuncts of HistoryInv after a step that starts no match, makes
\* and adopts no move, and sends no state it had not sent before.
LEMMA HistoryQuiet ==
  ASSUME TypeOK, IInv, HistoryInv, NEW d \in Device,
         trips' = trips,
         \A e \in Device : state'[e] \in {"Searching", "Playing"} =>
           /\ state'[e] = state[e] /\ toss'[e] = toss[e] /\ gameId'[e] = gameId[e]
           /\ peer'[e] = peer[e] /\ sequence'[e] = sequence[e] /\ myTurn'[e] = myTurn[e]
           /\ Latest(e)' = Latest(e)
           /\ outgoing'[e] = outgoing[e] \/ ~outgoing'[e].pending,
         \A e \in Device :
           \/ incoming'[e] = incoming[e] /\ board'[e] = board[e]
           \/ ~incoming'[e].pending /\ (incoming[e].pending \/ board'[e] = board[e]),
         net \subseteq net',
         \A p \in net' : p \in net \/ (Speaks(d, p) /\ p.type # "State"),
         toss'[d] = toss[d] \/ net' = net
  PROVE  HistoryInv'
<1>1. \A p \in net' : p.type = "State" => p \in net /\ p.to \in Device
  BY DEF HistoryInv, StateSent
<1>2. StateSent'
  <2>1. CASE net' = net
    BY <2>1 DEF HistoryInv, StateSent
  <2>2. CASE toss'[d] = toss[d] /\ state[d] # "Idle"
    <3>1. \A p \in net' : p \in net \/ (p.from = d /\ p.toss = toss'[d])
      BY <2>2 DEF Speaks
    <3>2. \A e \in Device : trips[e] = 1 => trips'[e] = 1
      OBVIOUS
    <3> QED
      BY <1>1, <2>2, <3>1, <3>2, SentStep DEF HistoryInv
  <2>3. CASE state[d] = "Idle"
    <3>1. net' = net
      BY <2>3 DEF Speaks
    <3> QED
      BY <2>1, <3>1
  <2> QED
    BY <2>1, <2>2, <2>3
<1>3. StateAhead'
  <2> SUFFICES ASSUME NEW p \in net', p.type = "State"
               PROVE  /\ state'[p.to] = "Searching" =>
                           p.seq = 1 /\ MovesFirst(p.from, p.toss, p.to, toss'[p.to])
                      /\ state'[p.to] = "Playing" /\ peer'[p.to] = p.from =>
                           /\ p.seq <= sequence'[p.to] + 1
                           /\ myTurn'[p.to] => p.seq <= sequence'[p.to]
    BY DEF StateAhead, MovesFirst
  <2>1. p \in net /\ p.to \in Device
    BY <1>1
  <2> QED
    BY <2>1 DEF HistoryInv, StateAhead
<1>4. Waiting'
  <2> SUFFICES ASSUME NEW e \in Device
               PROVE  /\ incoming'[e].pending =>
                           /\ Len(incoming'[e].board) = Len(board'[e]) + 1
                           /\ \E p \in net' : p.type = "State" /\ p.to = e /\ p.board = incoming'[e].board
                           /\ state'[e] = "Playing" => myTurn'[e]
                      /\ trips'[e] = 0 \/ state'[e] = "Searching" =>
                           ~incoming'[e].pending /\ board'[e] = <<>>
    BY DEF Waiting
  <2>1. CASE incoming'[e] = incoming[e] /\ board'[e] = board[e]
    <3>0. /\ incoming[e].pending =>
               /\ Len(incoming[e].board) = Len(board[e]) + 1
               /\ \E p \in net : p.type = "State" /\ p.to = e /\ p.board = incoming[e].board
               /\ state[e] = "Playing" => myTurn[e]
          /\ trips[e] = 0 \/ state[e] = "Searching" => ~incoming[e].pending /\ board[e] = <<>>
      BY DEF HistoryInv, Waiting
    <3>1. incoming'[e].pending => Len(incoming'[e].board) = Len(board'[e]) + 1
      BY <2>1, <3>0
    <3>2. incoming'[e].pending =>
            \E p \in net' : p.type = "State" /\ p.to = e /\ p.board = incoming'[e].board
      BY <2>1, <3>0
    <3>3. incoming'[e].pending /\ state'[e] = "Playing" => myTurn'[e]
      BY <2>1, <3>0
    <3>4. trips'[e] = 0 \/ state'[e] = "Searching" => ~incoming'[e].pending /\ board'[e] = <<>>
      BY <2>1, <3>0
    <3> QED
      BY <3>1, <3>2, <3>3, <3>4
  <2>2. CASE ~incoming'[e].pending /\ (incoming[e].pending \/ board'[e] = board[e])
    BY <2>2 DEF HistoryInv, Waiting
  <2> QED
    BY <2>1, <2>2
<1>5. Answers'
  <2> SUFFICES ASSUME NEW e \in Device, state'[e] = "Playing"
               PROVE  /\ myTurn'[e] =>
                           /\ \A p \in net' : p.type = "State" /\ p.from = e => p.seq < sequence'[e]
                           /\ sequence'[e] > 0 =>
                                \E p \in net' : /\ p.type = "State" /\ p.from = peer'[e] /\ p.to = e
                                                /\ p.seq = sequence'[e] /\ p.board = Latest(e)'
                      /\ outgoing'[e].pending =>
                           StatePkt(e, outgoing[e].seq, outgoing[e].board)' \in net'
    BY DEF Answers
  <2>1. /\ state[e] = "Playing" /\ gameId'[e] = gameId[e] /\ toss'[e] = toss[e]
        /\ peer'[e] = peer[e] /\ sequence'[e] = sequence[e] /\ myTurn'[e] = myTurn[e]
        /\ Latest(e)' = Latest(e)
        /\ outgoing'[e].pending => outgoing'[e] = outgoing[e]
    OBVIOUS
  <2>2. myTurn'[e] => \A p \in net' : p.type = "State" /\ p.from = e => p.seq < sequence'[e]
    BY <1>1, <2>1 DEF HistoryInv, Answers
  <2>3. myTurn'[e] /\ sequence'[e] > 0 =>
          \E p \in net' : /\ p.type = "State" /\ p.from = peer'[e] /\ p.to = e
                          /\ p.seq = sequence'[e] /\ p.board = Latest(e)'
    BY <2>1 DEF HistoryInv, Answers
  <2>4. ASSUME outgoing'[e].pending
        PROVE  StatePkt(e, outgoing[e].seq, outgoing[e].board)' \in net'
    <3>1. StatePkt(e, outgoing[e].seq, outgoing[e].board) \in net
      BY <2>1, <2>4 DEF HistoryInv, Answers
    <3>2. StatePkt(e, outgoing[e].seq, outgoing[e].board)' = StatePkt(e, outgoing[e].seq, outgoing[e].board)
      BY <2>1, <2>4 DEF StatePkt, Pkt
    <3> QED
      BY <3>1, <3>2
  <2> QED
    BY <2>2, <2>3, <2>4
<1>6. OneHistory'
  BY <1>1 DEF HistoryInv, OneHistory, Between
<1> QED
  BY <1>2, <1>3, <1>4, <1>5, <1>6 DEF HistoryInv

\* Nothing was sent to or by a device that begins its one trip.
LEMMA HistoryBegin ==
  ASSUME TypeOK, IInv, HistoryInv, MaxTrips = 1,
         NEW d \in Device, NEW g \in Game, NEW t \in Toss, Begin(d, g, t)
  PROVE  HistoryInv'
<1>1. /\ trips[d] = 0 /\ state[d] = "Idle"
      /\ \A p \in net : p.from # d
      /\ \A p \in net : p.type = "State" => p.to # d
  BY DEF Begin, TypeOK, LifeOK, IInv, OneTrip, HistoryInv, StateSent
<1>2. /\ trips' = [trips EXCEPT ![d] = 1] /\ state' = [state EXCEPT ![d] = "Searching"]
      /\ gameId' = [gameId EXCEPT ![d] = g] /\ toss' = [toss EXCEPT ![d] = t]
      /\ peer' = [peer EXCEPT ![d] = NoDevice] /\ sequence' = [sequence EXCEPT ![d] = 0]
      /\ myTurn' = [myTurn EXCEPT ![d] = FALSE] /\ outgoing' = [outgoing EXCEPT ![d] = NoOutgoing]
      /\ incoming' = [incoming EXCEPT ![d] = NoIncoming] /\ UNCHANGED board
  BY <1>1 DEF Begin, ResetLink
<1>3. /\ state'[d] = "Searching" /\ toss'[d] = t /\ trips'[d] = 1
      /\ ~incoming'[d].pending /\ board'[d] = <<>>
  BY <1>1, <1>2 DEF TypeOK, LifeOK, MoveOK, NoIncoming, HistoryInv, Waiting
<1>4. \A e \in Device \ {d} :
        /\ trips'[e] = trips[e] /\ state'[e] = state[e] /\ gameId'[e] = gameId[e]
        /\ toss'[e] = toss[e] /\ peer'[e] = peer[e] /\ sequence'[e] = sequence[e]
        /\ myTurn'[e] = myTurn[e] /\ outgoing'[e] = outgoing[e] /\ incoming'[e] = incoming[e]
        /\ board'[e] = board[e] /\ Latest(e)' = Latest(e)
  BY <1>2 DEF TypeOK, LifeOK, MatchOK, MoveOK, Latest
<1>5. \A p \in net' : p \in net \/ (p.from = d /\ p.toss = toss'[d] /\ p.type # "State")
  BY <1>3 DEF Begin, Surviving
<1>6. \A p \in net : p.type = "State" => p \in net'
  BY <1>1 DEF Begin, Surviving
<1>7. StateSent'
  <2>1. \A e \in Device : trips[e] = 1 => trips'[e] = 1
    BY <1>1, <1>3, <1>4
  <2> QED
    BY <1>1, <1>5, <2>1, SentStep DEF HistoryInv
<1>8. \A p \in net' : p.type = "State" => p \in net /\ p.to \in Device /\ p.to # d /\ p.from # d
  BY <1>1, <1>5 DEF HistoryInv, StateSent
<1>9. StateAhead'
  <2> SUFFICES ASSUME NEW p \in net', p.type = "State"
               PROVE  /\ state'[p.to] = "Searching" =>
                           p.seq = 1 /\ MovesFirst(p.from, p.toss, p.to, toss'[p.to])
                      /\ state'[p.to] = "Playing" /\ peer'[p.to] = p.from =>
                           /\ p.seq <= sequence'[p.to] + 1
                           /\ myTurn'[p.to] => p.seq <= sequence'[p.to]
    BY DEF StateAhead, MovesFirst
  <2>1. p \in net /\ p.to \in Device \ {d}
    BY <1>8
  <2>2. /\ state'[p.to] = state[p.to] /\ toss'[p.to] = toss[p.to] /\ peer'[p.to] = peer[p.to]
        /\ sequence'[p.to] = sequence[p.to] /\ myTurn'[p.to] = myTurn[p.to]
    BY <1>4, <2>1
  <2>3. /\ state[p.to] = "Searching" => p.seq = 1 /\ MovesFirst(p.from, p.toss, p.to, toss[p.to])
        /\ state[p.to] = "Playing" /\ peer[p.to] = p.from =>
             /\ p.seq <= sequence[p.to] + 1
             /\ myTurn[p.to] => p.seq <= sequence[p.to]
    BY <2>1 DEF HistoryInv, StateAhead
  <2> QED
    BY <2>2, <2>3
<1>10. Waiting'
  <2> SUFFICES ASSUME NEW e \in Device
               PROVE  /\ incoming'[e].pending =>
                           /\ Len(incoming'[e].board) = Len(board'[e]) + 1
                           /\ \E p \in net' : p.type = "State" /\ p.to = e /\ p.board = incoming'[e].board
                           /\ state'[e] = "Playing" => myTurn'[e]
                      /\ trips'[e] = 0 \/ state'[e] = "Searching" =>
                           ~incoming'[e].pending /\ board'[e] = <<>>
    BY DEF Waiting
  <2>1. CASE e = d
    BY <1>3, <2>1
  <2>2. CASE e # d
    <3>1. /\ incoming[e].pending =>
               /\ Len(incoming[e].board) = Len(board[e]) + 1
               /\ \E p \in net : p.type = "State" /\ p.to = e /\ p.board = incoming[e].board
               /\ state[e] = "Playing" => myTurn[e]
          /\ trips[e] = 0 \/ state[e] = "Searching" => ~incoming[e].pending /\ board[e] = <<>>
      BY DEF HistoryInv, Waiting
    <3>2. /\ trips'[e] = trips[e] /\ state'[e] = state[e] /\ myTurn'[e] = myTurn[e]
          /\ incoming'[e] = incoming[e] /\ board'[e] = board[e]
      BY <1>4, <2>2
    <3>3. ASSUME incoming[e].pending
          PROVE  \E p \in net' : p.type = "State" /\ p.to = e /\ p.board = incoming[e].board
      <4>1. PICK p \in net : p.type = "State" /\ p.to = e /\ p.board = incoming[e].board
        BY <3>1, <3>3
      <4> QED
        BY <1>6, <4>1
    <3> QED
      BY <3>1, <3>2, <3>3
  <2> QED
    BY <2>1, <2>2
<1>11. Answers'
  <2> SUFFICES ASSUME NEW e \in Device, state'[e] = "Playing"
               PROVE  /\ myTurn'[e] =>
                           /\ \A p \in net' : p.type = "State" /\ p.from = e => p.seq < sequence'[e]
                           /\ sequence'[e] > 0 =>
                                \E p \in net' : /\ p.type = "State" /\ p.from = peer'[e] /\ p.to = e
                                                /\ p.seq = sequence'[e] /\ p.board = Latest(e)'
                      /\ outgoing'[e].pending =>
                           StatePkt(e, outgoing[e].seq, outgoing[e].board)' \in net'
    BY DEF Answers
  <2>0. e # d /\ state[e] = "Playing"
    BY <1>3, <1>4
  <2>1. /\ gameId'[e] = gameId[e] /\ toss'[e] = toss[e]
        /\ peer'[e] = peer[e] /\ sequence'[e] = sequence[e] /\ myTurn'[e] = myTurn[e]
        /\ Latest(e)' = Latest(e) /\ outgoing'[e] = outgoing[e]
    BY <1>4, <2>0
  <2>2. myTurn'[e] => \A p \in net' : p.type = "State" /\ p.from = e => p.seq < sequence'[e]
    BY <1>8, <2>0, <2>1 DEF HistoryInv, Answers
  <2>3. myTurn'[e] /\ sequence'[e] > 0 =>
          \E p \in net' : /\ p.type = "State" /\ p.from = peer'[e] /\ p.to = e
                          /\ p.seq = sequence'[e] /\ p.board = Latest(e)'
    <3> SUFFICES ASSUME myTurn[e], sequence[e] > 0
                 PROVE  \E p \in net' : /\ p.type = "State" /\ p.from = peer[e] /\ p.to = e
                                        /\ p.seq = sequence[e] /\ p.board = Latest(e)
      BY <2>1
    <3>1. PICK p \in net : /\ p.type = "State" /\ p.from = peer[e] /\ p.to = e
                           /\ p.seq = sequence[e] /\ p.board = Latest(e)
      BY <2>0 DEF HistoryInv, Answers
    <3> QED
      BY <1>6, <3>1
  <2>4. ASSUME outgoing'[e].pending
        PROVE  StatePkt(e, outgoing[e].seq, outgoing[e].board)' \in net'
    <3>1. StatePkt(e, outgoing[e].seq, outgoing[e].board) \in net
      BY <2>0, <2>1, <2>4 DEF HistoryInv, Answers
    <3>2. StatePkt(e, outgoing[e].seq, outgoing[e].board).type = "State"
      BY DEF StatePkt, Pkt
    <3>3. StatePkt(e, outgoing[e].seq, outgoing[e].board)' = StatePkt(e, outgoing[e].seq, outgoing[e].board)
      BY <2>1 DEF StatePkt, Pkt
    <3> QED
      BY <1>6, <3>1, <3>2, <3>3
  <2> QED
    BY <2>2, <2>3, <2>4
<1>12. OneHistory'
  BY <1>8 DEF HistoryInv, OneHistory, Between
<1> QED
  BY <1>7, <1>9, <1>10, <1>11, <1>12 DEF HistoryInv

\* Whoever enters a match has sent no state, and is not the host if one waits.
LEMMA HistoryMatch ==
  ASSUME TypeOK, IInv, HistoryInv, NEW d \in Device, NEW p \in net,
         state[d] = "Searching", p.from # d, MatchWith(d, p)
  PROVE  HistoryInv'
<1> DEFINE b == p.from
           first == MovesFirst(d, toss[d], b, p.toss)
<1>0. b \in Device /\ p.toss \in Toss /\ toss[d] \in Toss /\ trips[d] = 1
  BY DEF TypeOK, Packet, LifeOK, IInv, OneTrip
<1>1. /\ state' = [state EXCEPT ![d] = "Playing"] /\ UNCHANGED <<toss, trips, gameId>>
      /\ peer' = [peer EXCEPT ![d] = b] /\ myTurn' = [myTurn EXCEPT ![d] = first]
      /\ sequence' = [sequence EXCEPT ![d] = 0] /\ outgoing' = [outgoing EXCEPT ![d] = NoOutgoing]
      /\ incoming' = [incoming EXCEPT ![d] = NoIncoming] /\ board' = [board EXCEPT ![d] = <<>>]
      /\ net' = net \cup {Pkt(d, "Ack", b, 0)}
  BY DEF MatchWith, Send
<1>2. /\ state'[d] = "Playing" /\ peer'[d] = b /\ myTurn'[d] = first /\ sequence'[d] = 0
      /\ ~outgoing'[d].pending /\ ~incoming'[d].pending /\ board'[d] = <<>>
  BY <1>1 DEF TypeOK, LifeOK, MatchOK, MoveOK, NoOutgoing, NoIncoming
<1>3. \A e \in Device \ {d} :
        /\ state'[e] = state[e] /\ peer'[e] = peer[e] /\ sequence'[e] = sequence[e]
        /\ myTurn'[e] = myTurn[e] /\ outgoing'[e] = outgoing[e] /\ incoming'[e] = incoming[e]
        /\ board'[e] = board[e] /\ Latest(e)' = Latest(e)
  BY <1>1 DEF TypeOK, LifeOK, MatchOK, MoveOK, Latest
<1>4. \A q \in net' : q \in net \/ (q.from = d /\ q.toss = toss[d] /\ q.type = "Ack")
  BY <1>1 DEF Pkt
<1>5. \A q \in net' : q.type = "State" => q \in net /\ q.to \in Device /\ q.from # d
  BY <1>4 DEF HistoryInv, StateSent, IInv, FromMatched
<1>6. StateSent'
  BY <1>1, <1>4, SentStep DEF HistoryInv
<1>7. StateAhead'
  <2> SUFFICES ASSUME NEW q \in net', q.type = "State"
               PROVE  /\ state'[q.to] = "Searching" =>
                           q.seq = 1 /\ MovesFirst(q.from, q.toss, q.to, toss[q.to])
                      /\ state'[q.to] = "Playing" /\ peer'[q.to] = q.from =>
                           /\ q.seq <= sequence'[q.to] + 1
                           /\ myTurn'[q.to] => q.seq <= sequence'[q.to]
    BY <1>1 DEF StateAhead, MovesFirst
  <2>1. q \in net /\ q.to \in Device
    BY <1>5
  <2>2. CASE q.to = d /\ q.from = b
    <3>1. q.toss = p.toss
      BY <2>1, <2>2 DEF HistoryInv, StateSent
    <3>2. q.seq = 1 /\ MovesFirst(b, p.toss, d, toss[d])
      BY <2>1, <2>2, <3>1 DEF HistoryInv, StateAhead
    <3>3. ~first
      <4>1. p.toss \in Nat /\ toss[d] \in Nat /\ b \in Nat /\ d \in Nat /\ b # d
        BY <1>0
      <4> QED
        BY <3>2, <4>1 DEF MovesFirst
    <3> QED
      BY <1>2, <2>2, <3>2, <3>3
  <2>3. CASE q.to = d /\ q.from # b
    BY <1>2, <2>3
  <2>4. CASE q.to # d
    BY <1>3, <2>1, <2>4 DEF HistoryInv, StateAhead
  <2> QED
    BY <2>2, <2>3, <2>4
<1>8. Waiting'
  <2> SUFFICES ASSUME NEW e \in Device
               PROVE  /\ incoming'[e].pending =>
                           /\ Len(incoming'[e].board) = Len(board'[e]) + 1
                           /\ \E q \in net' : q.type = "State" /\ q.to = e /\ q.board = incoming'[e].board
                           /\ state'[e] = "Playing" => myTurn'[e]
                      /\ trips[e] = 0 \/ state'[e] = "Searching" =>
                           ~incoming'[e].pending /\ board'[e] = <<>>
    BY <1>1 DEF Waiting
  <2>1. CASE e = d
    BY <1>0, <1>2, <2>1
  <2>2. CASE e # d
    <3>1. /\ incoming[e].pending =>
               /\ Len(incoming[e].board) = Len(board[e]) + 1
               /\ \E q \in net : q.type = "State" /\ q.to = e /\ q.board = incoming[e].board
               /\ state[e] = "Playing" => myTurn[e]
          /\ trips[e] = 0 \/ state[e] = "Searching" => ~incoming[e].pending /\ board[e] = <<>>
      BY DEF HistoryInv, Waiting
    <3>2. net \subseteq net'
      BY <1>1
    <3> QED
      BY <1>3, <2>2, <3>1, <3>2
  <2> QED
    BY <2>1, <2>2
<1>9. Answers'
  <2> SUFFICES ASSUME NEW e \in Device, state'[e] = "Playing"
               PROVE  /\ myTurn'[e] =>
                           /\ \A q \in net' : q.type = "State" /\ q.from = e => q.seq < sequence'[e]
                           /\ sequence'[e] > 0 =>
                                \E q \in net' : /\ q.type = "State" /\ q.from = peer'[e] /\ q.to = e
                                                /\ q.seq = sequence'[e] /\ q.board = Latest(e)'
                      /\ outgoing'[e].pending =>
                           StatePkt(e, outgoing[e].seq, outgoing[e].board)' \in net'
    BY DEF Answers
  <2>1. CASE e = d
    BY <1>2, <1>5, <2>1
  <2>2. CASE e # d
    <3>1. /\ state[e] = "Playing" /\ gameId'[e] = gameId[e] /\ toss'[e] = toss[e]
          /\ peer'[e] = peer[e] /\ sequence'[e] = sequence[e] /\ myTurn'[e] = myTurn[e]
          /\ Latest(e)' = Latest(e) /\ outgoing'[e] = outgoing[e]
      BY <1>1, <1>3, <2>2
    <3>2. myTurn'[e] => \A q \in net' : q.type = "State" /\ q.from = e => q.seq < sequence'[e]
      BY <1>5, <3>1 DEF HistoryInv, Answers
    <3>3. myTurn'[e] /\ sequence'[e] > 0 =>
            \E q \in net' : /\ q.type = "State" /\ q.from = peer'[e] /\ q.to = e
                            /\ q.seq = sequence'[e] /\ q.board = Latest(e)'
      BY <1>1, <3>1 DEF HistoryInv, Answers
    <3>4. outgoing'[e].pending => StatePkt(e, outgoing[e].seq, outgoing[e].board)' \in net'
      <4>1. StatePkt(e, outgoing[e].seq, outgoing[e].board)' = StatePkt(e, outgoing[e].seq, outgoing[e].board)
        BY <3>1 DEF StatePkt, Pkt
      <4> QED
        BY <1>1, <3>1, <4>1 DEF HistoryInv, Answers
    <3> QED
      BY <3>2, <3>3, <3>4
  <2> QED
    BY <2>1, <2>2
<1>10. OneHistory'
  BY <1>5 DEF HistoryInv, OneHistory, Between
<1> QED
  BY <1>6, <1>7, <1>8, <1>9, <1>10 DEF HistoryInv

\* A board that waits is the newest its device was sent: none may overtake it.
LEMMA NoneOvertakes ==
  ASSUME TypeOK, HistoryInv, NEW d \in Device, NEW p \in net, HearState(d, p), p.seq > sequence[d]
  PROVE  ~incoming[d].pending /\ p.seq = sequence[d] + 1 /\ p.to = d
<1>1. /\ state[d] = "Playing" /\ p.from = peer[d] /\ p.type = "State" /\ p.to \in {d, kBroadcast}
      /\ p.seq \in Nat /\ sequence[d] \in Nat
  BY DEF HearState, FromPeer, Receivable, TypeOK, Packet, MoveOK
<1>2. p.to = d
  BY <1>1 DEF HistoryInv, StateSent
<1>3. p.seq <= sequence[d] + 1 /\ ~myTurn[d]
  BY <1>1, <1>2 DEF HistoryInv, StateAhead
<1> QED
  BY <1>1, <1>2, <1>3 DEF HistoryInv, Waiting

LEMMA HistoryAdopt ==
  ASSUME TypeOK, IInv, BoardIInv, HistoryInv, NEW d \in Device, NEW p \in net,
         HearState(d, p), p.seq > sequence[d]
  PROVE  HistoryInv'
<1>0. p.from \in Device /\ p.seq \in Nat /\ sequence[d] \in Nat
  BY DEF TypeOK, Packet, MoveOK
<1>1. /\ state[d] = "Playing" /\ p.from = peer[d] /\ p.type = "State"
      /\ UNCHANGED <<state, toss, trips, gameId, peer, board>>
      /\ sequence' = [sequence EXCEPT ![d] = p.seq] /\ myTurn' = [myTurn EXCEPT ![d] = TRUE]
      /\ incoming' = [incoming EXCEPT ![d] = [board |-> p.board, pending |-> TRUE]]
      /\ outgoing' = [outgoing EXCEPT ![d].pending = FALSE]
      /\ net' = net \cup {Pkt(d, "Ack", peer[d], sequence'[d])}
  BY DEF HearState, Newer, FromPeer, AckCopy, Send, lifeVars
<1>2. /\ sequence'[d] = p.seq /\ myTurn'[d] /\ incoming'[d] = [board |-> p.board, pending |-> TRUE]
      /\ ~outgoing'[d].pending /\ Latest(d)' = p.board
  BY <1>1 DEF TypeOK, MoveOK, Outgoing, Latest
<1>3. \A e \in Device \ {d} :
        /\ sequence'[e] = sequence[e] /\ myTurn'[e] = myTurn[e] /\ outgoing'[e] = outgoing[e]
        /\ incoming'[e] = incoming[e] /\ Latest(e)' = Latest(e)
  BY <1>1 DEF TypeOK, MoveOK, Latest
<1>4. ~incoming[d].pending /\ p.seq = sequence[d] + 1 /\ p.to = d
  BY NoneOvertakes
<1>5. \A q \in net' : q \in net \/ (q.from = d /\ q.toss = toss[d] /\ q.type = "Ack")
  BY <1>1 DEF Pkt
<1>6. \A q \in net' : q.type = "State" => q \in net /\ q.to \in Device
  BY <1>5 DEF HistoryInv, StateSent
<1>7. StateSent'
  BY <1>1, <1>5, SentStep DEF HistoryInv
<1>8. StateAhead'
  <2> SUFFICES ASSUME NEW q \in net', q.type = "State"
               PROVE  /\ state[q.to] = "Searching" =>
                           q.seq = 1 /\ MovesFirst(q.from, q.toss, q.to, toss[q.to])
                      /\ state[q.to] = "Playing" /\ peer[q.to] = q.from =>
                           /\ q.seq <= sequence'[q.to] + 1
                           /\ myTurn'[q.to] => q.seq <= sequence'[q.to]
    BY <1>1 DEF StateAhead, MovesFirst
  <2>1. q \in net /\ q.to \in Device /\ q.seq \in Nat
    BY <1>6 DEF TypeOK, Packet
  <2>2. CASE q.to = d
    <3>1. peer[d] = q.from => q.seq <= sequence[d] + 1
      BY <1>1, <2>1, <2>2 DEF HistoryInv, StateAhead
    <3> QED
      BY <1>0, <1>1, <1>2, <1>4, <2>1, <2>2, <3>1
  <2>3. CASE q.to # d
    BY <1>3, <2>1, <2>3 DEF HistoryInv, StateAhead
  <2> QED
    BY <2>2, <2>3
<1>9. Waiting'
  <2> SUFFICES ASSUME NEW e \in Device
               PROVE  /\ incoming'[e].pending =>
                           /\ Len(incoming'[e].board) = Len(board[e]) + 1
                           /\ \E q \in net' : q.type = "State" /\ q.to = e /\ q.board = incoming'[e].board
                           /\ state[e] = "Playing" => myTurn'[e]
                      /\ trips[e] = 0 \/ state[e] = "Searching" =>
                           ~incoming'[e].pending /\ board[e] = <<>>
    BY <1>1 DEF Waiting
  <2>1. CASE e = d
    <3>1. Len(p.board) = p.seq /\ Len(board[d]) = sequence[d]
      BY <1>1, <1>4 DEF BoardIInv, BoardOnAir, BoardLength, Latest
    <3>2. trips[d] = 1
      BY <1>1 DEF IInv, OneTrip
    <3>3. \E q \in net' : q.type = "State" /\ q.to = e /\ q.board = incoming'[e].board
      BY <1>1, <1>2, <1>4, <2>1
    <3> QED
      BY <1>1, <1>2, <1>4, <2>1, <3>1, <3>2, <3>3
  <2>2. CASE e # d
    <3>1. /\ incoming[e].pending =>
               /\ Len(incoming[e].board) = Len(board[e]) + 1
               /\ \E q \in net : q.type = "State" /\ q.to = e /\ q.board = incoming[e].board
               /\ state[e] = "Playing" => myTurn[e]
          /\ trips[e] = 0 \/ state[e] = "Searching" => ~incoming[e].pending /\ board[e] = <<>>
      BY DEF HistoryInv, Waiting
    <3>2. net \subseteq net'
      BY <1>1
    <3> QED
      BY <1>3, <2>2, <3>1, <3>2
  <2> QED
    BY <2>1, <2>2
<1>10. Answers'
  <2> SUFFICES ASSUME NEW e \in Device, state[e] = "Playing"
               PROVE  /\ myTurn'[e] =>
                           /\ \A q \in net' : q.type = "State" /\ q.from = e => q.seq < sequence'[e]
                           /\ sequence'[e] > 0 =>
                                \E q \in net' : /\ q.type = "State" /\ q.from = peer[e] /\ q.to = e
                                                /\ q.seq = sequence'[e] /\ q.board = Latest(e)'
                      /\ outgoing'[e].pending =>
                           StatePkt(e, outgoing[e].seq, outgoing[e].board)' \in net'
    BY <1>1 DEF Answers
  <2>1. CASE e = d
    <3>1. ASSUME NEW q \in net', q.type = "State", q.from = d PROVE q.seq < p.seq
      <4>1. q.seq <= sequence[d] /\ q.seq \in Nat
        BY <1>1, <1>6, <3>1 DEF IInv, FromMatched, TypeOK, Packet
      <4> QED
        BY <1>0, <1>4, <4>1
    <3>2. p \in net' /\ p.type = "State" /\ p.from = peer[e] /\ p.to = e
          /\ p.seq = sequence'[e] /\ p.board = Latest(e)'
      BY <1>1, <1>2, <1>4, <2>1
    <3> QED
      BY <1>2, <2>1, <3>1, <3>2
  <2>2. CASE e # d
    <3>1. /\ sequence'[e] = sequence[e] /\ myTurn'[e] = myTurn[e]
          /\ Latest(e)' = Latest(e) /\ outgoing'[e] = outgoing[e]
      BY <1>3, <2>2
    <3>2. myTurn'[e] => \A q \in net' : q.type = "State" /\ q.from = e => q.seq < sequence'[e]
      BY <1>6, <3>1 DEF HistoryInv, Answers
    <3>3. myTurn'[e] /\ sequence'[e] > 0 =>
            \E q \in net' : /\ q.type = "State" /\ q.from = peer[e] /\ q.to = e
                            /\ q.seq = sequence'[e] /\ q.board = Latest(e)'
      <4> SUFFICES ASSUME myTurn[e], sequence[e] > 0
                   PROVE  \E q \in net' : /\ q.type = "State" /\ q.from = peer[e] /\ q.to = e
                                          /\ q.seq = sequence[e] /\ q.board = Latest(e)
        BY <3>1
      <4>1. PICK q \in net : /\ q.type = "State" /\ q.from = peer[e] /\ q.to = e
                             /\ q.seq = sequence[e] /\ q.board = Latest(e)
        BY DEF HistoryInv, Answers
      <4> QED
        BY <1>1, <4>1
    <3>4. outgoing'[e].pending => StatePkt(e, outgoing[e].seq, outgoing[e].board)' \in net'
      <4>1. StatePkt(e, outgoing[e].seq, outgoing[e].board)' = StatePkt(e, outgoing[e].seq, outgoing[e].board)
        BY <1>1, <3>1 DEF StatePkt, Pkt
      <4> QED
        BY <1>1, <3>1, <4>1 DEF HistoryInv, Answers
    <3> QED
      BY <3>2, <3>3, <3>4
  <2> QED
    BY <2>1, <2>2
<1>11. OneHistory'
  BY <1>6 DEF HistoryInv, OneHistory, Between
<1> QED
  BY <1>7, <1>8, <1>9, <1>10, <1>11 DEF HistoryInv

\* Whoever has the turn holds all of the history it shares with its peer.
LEMMA MoverKnows ==
  ASSUME TypeOK, IInv, BoardIInv, HistoryInv, NEW d \in Device, state[d] = "Playing", myTurn[d],
         NEW p \in net, p.type = "State", p.from = d \/ (p.from = peer[d] /\ p.to = d)
  PROVE  p.seq <= sequence[d] /\ \A i \in 1..p.seq : Latest(d)[i] = p.board[i]
<1>1. p.seq \in Nat /\ p.seq > 0 /\ sequence[d] \in Nat
  BY DEF TypeOK, Packet, MoveOK, HistoryInv, StateSent
<1>2. p.seq <= sequence[d] /\ (p.from = d => p.to = peer[d])
  <2>1. CASE p.from = d
    BY <1>1, <2>1 DEF HistoryInv, Answers, IInv, FromMatched
  <2>2. CASE p.from # d
    BY <2>2 DEF HistoryInv, StateAhead
  <2> QED
    BY <2>1, <2>2
<1>3. sequence[d] > 0
  BY <1>1, <1>2
<1>4. PICK r \in net : /\ r.type = "State" /\ r.from = peer[d] /\ r.to = d
                       /\ r.seq = sequence[d] /\ r.board = Latest(d)
  BY <1>3 DEF HistoryInv, Answers
<1>5. Between(p, r)
  BY <1>2, <1>4 DEF Between
<1>6. \A i \in 1..p.seq : r.board[i] = p.board[i]
  BY <1>2, <1>4, <1>5 DEF HistoryInv, OneHistory
<1> QED
  BY <1>2, <1>4, <1>6

LEMMA HistorySubmit ==
  ASSUME TypeOK, IInv, BoardIInv, HistoryInv, NEW d \in Device, NEW m \in Move, Submit(d, m)
  PROVE  HistoryInv'
<1> DEFINE n == sequence[d] + 1
           c == Append(board[d], m)
           q == StatePkt(d, n, c)
<1>1. /\ state[d] = "Playing" /\ myTurn[d] /\ ~incoming[d].pending
      /\ UNCHANGED <<state, toss, trips, gameId, peer, incoming>>
      /\ sequence' = [sequence EXCEPT ![d] = n] /\ myTurn' = [myTurn EXCEPT ![d] = FALSE]
      /\ board' = [board EXCEPT ![d] = c]
      /\ outgoing' = [outgoing EXCEPT ![d] = [board |-> c, seq |-> n, pending |-> TRUE]]
      /\ net' = net \cup {q}
  BY DEF Submit, Play, MayPlay, Send, lifeVars, matchVars
<1>2. /\ q.type = "State" /\ q.from = d /\ q.to = peer[d] /\ q.seq = n /\ q.board = c
      /\ q.toss = toss[d]
  BY DEF StatePkt, Pkt
<1>3. /\ board[d] \in Seq(Move) /\ sequence[d] \in Nat /\ Latest(d) = board[d]
      /\ Len(board[d]) = sequence[d]
  BY <1>1 DEF TypeOK, MoveOK, Board, Latest, BoardIInv, BoardLength
<1>4. \A i \in 1..sequence[d] : c[i] = board[d][i]
  BY <1>3, AppendProperties
<1>5. /\ sequence'[d] = n /\ ~myTurn'[d] /\ outgoing'[d].board = c /\ outgoing'[d].seq = n
  BY <1>1 DEF TypeOK, MoveOK
<1>6. \A e \in Device \ {d} :
        /\ sequence'[e] = sequence[e] /\ myTurn'[e] = myTurn[e] /\ outgoing'[e] = outgoing[e]
        /\ board'[e] = board[e] /\ Latest(e)' = Latest(e)
  BY <1>1 DEF TypeOK, MoveOK, Latest
<1>7. StatePkt(d, outgoing[d].seq, outgoing[d].board)' = q
  BY <1>1, <1>5 DEF StatePkt, Pkt
<1> HIDE DEF c, q
<1>8. peer[d] \in Device /\ peer[d] # d /\ trips[peer[d]] = 1 /\ n \in Nat /\ n > 0
  BY <1>1, <1>3 DEF IInv, OneTrip, TypeOK
<1>9. StateSent'
  <2>1. \A p \in net' : p \in net \/ (p.from = d /\ p.toss = toss'[d])
    BY <1>1, <1>2
  <2>2. \A p \in net' : p.type = "State" =>
           p \in net \/ (p.to \in Device \ {p.from} /\ trips'[p.to] = 1 /\ p.seq > 0)
    BY <1>1, <1>2, <1>8
  <2> QED
    BY <1>1, <2>1, <2>2, SentStep DEF HistoryInv
<1>10. StateAhead'
  <2> SUFFICES ASSUME NEW p \in net', p.type = "State"
               PROVE  /\ state[p.to] = "Searching" =>
                           p.seq = 1 /\ MovesFirst(p.from, p.toss, p.to, toss[p.to])
                      /\ state[p.to] = "Playing" /\ peer[p.to] = p.from =>
                           /\ p.seq <= sequence'[p.to] + 1
                           /\ myTurn'[p.to] => p.seq <= sequence'[p.to]
    BY <1>1 DEF StateAhead, MovesFirst
  <2>1. CASE p = q
    <3>1. ASSUME state[p.to] = "Searching"
          PROVE  p.seq = 1 /\ MovesFirst(p.from, p.toss, p.to, toss[p.to])
      <4>1. Entering(p.to, d)
        BY <1>1, <1>2, <2>1, <3>1 DEF Entering
      <4>2. sequence[d] = 0 /\ isHost[d]
        BY <1>1, <1>2, <1>8, <2>1, <4>1 DEF IInv, Lead, OwnMoves
      <4>3. isHost[d] = MovesFirst(d, toss[d], peer[d], toss[peer[d]])
        BY <1>1, <1>2, <2>1, <3>1 DEF IInv, HostLaw
      <4> QED
        BY <1>2, <2>1, <4>2, <4>3
    <3>2. ASSUME state[p.to] = "Playing", peer[p.to] = p.from
          PROVE  p.seq <= sequence'[p.to] + 1 /\ ~myTurn'[p.to]
      <4>1. Mutual(p.to, d)
        BY <1>1, <1>2, <1>8, <2>1, <3>2 DEF Mutual
      <4>2. sequence[d] = sequence[p.to] /\ ~myTurn[p.to]
        BY <1>1, <1>2, <1>8, <2>1, <4>1 DEF IInv, Lead, TurnExclusion
      <4>3. sequence'[p.to] = sequence[p.to] /\ myTurn'[p.to] = myTurn[p.to]
        BY <1>2, <1>6, <1>8, <2>1
      <4> QED
        BY <1>2, <1>3, <2>1, <4>2, <4>3
    <3> QED
      BY <3>1, <3>2
  <2>2. CASE p \in net
    <3>1. p.to \in Device /\ p.seq \in Nat
      BY <2>2 DEF HistoryInv, StateSent, TypeOK, Packet
    <3>2. CASE p.to = d
      <4>1. peer[d] = p.from => p.seq <= sequence[d]
        BY <1>1, <2>2, <3>2 DEF HistoryInv, StateAhead
      <4> QED
        BY <1>1, <1>3, <1>5, <3>1, <3>2, <4>1
    <3>3. CASE p.to # d
      BY <1>6, <2>2, <3>1, <3>3 DEF HistoryInv, StateAhead
    <3> QED
      BY <3>2, <3>3
  <2> QED
    BY <1>1, <2>1, <2>2
<1>11. Waiting'
  <2> SUFFICES ASSUME NEW e \in Device
               PROVE  /\ incoming[e].pending =>
                           /\ Len(incoming[e].board) = Len(board'[e]) + 1
                           /\ \E p \in net' : p.type = "State" /\ p.to = e /\ p.board = incoming[e].board
                           /\ state[e] = "Playing" => myTurn'[e]
                      /\ trips[e] = 0 \/ state[e] = "Searching" =>
                           ~incoming[e].pending /\ board'[e] = <<>>
    BY <1>1 DEF Waiting
  <2>1. CASE e = d
    <3>1. trips[d] = 1
      BY <1>1 DEF IInv, OneTrip
    <3> QED
      BY <1>1, <2>1, <3>1
  <2>2. CASE e # d
    <3>1. /\ incoming[e].pending =>
               /\ Len(incoming[e].board) = Len(board[e]) + 1
               /\ \E p \in net : p.type = "State" /\ p.to = e /\ p.board = incoming[e].board
               /\ state[e] = "Playing" => myTurn[e]
          /\ trips[e] = 0 \/ state[e] = "Searching" => ~incoming[e].pending /\ board[e] = <<>>
      BY DEF HistoryInv, Waiting
    <3>2. net \subseteq net'
      BY <1>1
    <3> QED
      BY <1>6, <2>2, <3>1, <3>2
  <2> QED
    BY <2>1, <2>2
<1>12. Answers'
  <2> SUFFICES ASSUME NEW e \in Device, state[e] = "Playing"
               PROVE  /\ myTurn'[e] =>
                           /\ \A p \in net' : p.type = "State" /\ p.from = e => p.seq < sequence'[e]
                           /\ sequence'[e] > 0 =>
                                \E p \in net' : /\ p.type = "State" /\ p.from = peer[e] /\ p.to = e
                                                /\ p.seq = sequence'[e] /\ p.board = Latest(e)'
                      /\ outgoing'[e].pending =>
                           StatePkt(e, outgoing[e].seq, outgoing[e].board)' \in net'
    BY <1>1 DEF Answers
  <2>1. CASE e = d
    BY <1>1, <1>5, <1>7, <2>1
  <2>2. CASE e # d
    <3>1. /\ sequence'[e] = sequence[e] /\ myTurn'[e] = myTurn[e]
          /\ Latest(e)' = Latest(e) /\ outgoing'[e] = outgoing[e]
      BY <1>6, <2>2
    <3>2. myTurn'[e] => \A p \in net' : p.type = "State" /\ p.from = e => p.seq < sequence'[e]
      BY <1>1, <1>2, <2>2, <3>1 DEF HistoryInv, Answers
    <3>3. ASSUME myTurn[e], sequence[e] > 0
          PROVE  \E p \in net' : /\ p.type = "State" /\ p.from = peer[e] /\ p.to = e
                                 /\ p.seq = sequence[e] /\ p.board = Latest(e)
      <4>1. PICK p \in net : /\ p.type = "State" /\ p.from = peer[e] /\ p.to = e
                             /\ p.seq = sequence[e] /\ p.board = Latest(e)
        BY <3>3 DEF HistoryInv, Answers
      <4> QED
        BY <1>1, <4>1
    <3>4. outgoing'[e].pending => StatePkt(e, outgoing[e].seq, outgoing[e].board)' \in net'
      <4>1. StatePkt(e, outgoing[e].seq, outgoing[e].board)' = StatePkt(e, outgoing[e].seq, outgoing[e].board)
        BY <1>1, <3>1 DEF StatePkt, Pkt
      <4> QED
        BY <1>1, <3>1, <4>1 DEF HistoryInv, Answers
    <3> QED
      BY <3>1, <3>2, <3>3, <3>4
  <2> QED
    BY <2>1, <2>2
<1>13. OneHistory'
  <2> SUFFICES ASSUME NEW p \in net', NEW r \in net', p.type = "State", r.type = "State",
                      Between(p, r), p.seq <= r.seq, NEW i \in 1..p.seq
               PROVE  r.board[i] = p.board[i]
    BY DEF OneHistory, Between
  <2>1. CASE p \in net /\ r \in net
    BY <2>1 DEF HistoryInv, OneHistory
  <2>2. CASE p \in net /\ r = q
    <3>1. p.from = d \/ (p.from = peer[d] /\ p.to = d)
      BY <1>2, <2>2 DEF Between
    <3>2. p.seq <= sequence[d] /\ \A j \in 1..p.seq : board[d][j] = p.board[j]
      BY <1>1, <1>3, <2>2, <3>1, MoverKnows
    <3>3. p.seq \in Nat
      BY <2>2 DEF TypeOK, Packet
    <3>4. i \in 1..sequence[d]
      BY <1>3, <3>2, <3>3
    <3> QED
      BY <1>2, <1>4, <2>2, <3>2, <3>4
  <2>3. CASE p = q /\ r \in net
    <3>1. r.from = d \/ (r.from = peer[d] /\ r.to = d)
      BY <1>2, <2>3 DEF Between
    <3>2. r.seq <= sequence[d] /\ r.seq \in Nat
      BY <1>1, <2>3, <3>1, MoverKnows DEF TypeOK, Packet
    <3> QED
      BY <1>2, <1>3, <2>3, <3>2
  <2>4. CASE p = q /\ r = q
    BY <2>4
  <2> QED
    BY <1>1, <2>1, <2>2, <2>3, <2>4
<1> QED
  BY <1>9, <1>10, <1>11, <1>12, <1>13 DEF HistoryInv

\* What a device says carries its toss.
LEMMA PktSpeaks ==
  ASSUME NEW d \in Device, state[d] # "Idle", NEW type, NEW to, NEW seq
  PROVE  Speaks(d, Pkt(d, type, to, seq))
  BY DEF Speaks, Pkt

LEMMA HistorySay ==
  ASSUME TypeOK, IInv, HistoryInv, NEW d \in Device, NEW p, Send(p), Speaks(d, p), p.type # "State",
         UNCHANGED <<state, toss, gameId, trips, peer, sequence, myTurn, incoming, board>>,
         \A e \in Device : outgoing'[e] = outgoing[e] \/ ~outgoing'[e].pending
  PROVE  HistoryInv'
<1>1. \A e \in Device : Latest(e)' = Latest(e)
  BY DEF Latest
<1> QED
  BY <1>1, HistoryQuiet DEF Send

LEMMA HistorySame ==
  ASSUME TypeOK, IInv, HistoryInv, NEW d \in Device,
         UNCHANGED <<state, toss, gameId, trips, peer, sequence, myTurn, incoming, board, net>>,
         \A e \in Device : outgoing'[e] = outgoing[e] \/ ~outgoing'[e].pending
  PROVE  HistoryInv'
<1>1. \A e \in Device : Latest(e)' = Latest(e)
  BY DEF Latest
<1> QED
  BY <1>1, HistoryQuiet

LEMMA HistoryEnd ==
  ASSUME TypeOK, IInv, HistoryInv, NEW d \in Device, NEW r \in EndReason, End(d, r),
         net \subseteq net', \A p \in net' : p \in net \/ (Speaks(d, p) /\ p.type # "State")
  PROVE  HistoryInv'
<1>1. /\ state' = [state EXCEPT ![d] = "Ended"]
      /\ UNCHANGED <<toss, gameId, trips, peer, sequence, incoming, board>>
      /\ myTurn' = [myTurn EXCEPT ![d] = FALSE]
      /\ outgoing' = [outgoing EXCEPT ![d].pending = FALSE]
  BY DEF End, matchVars
<1>2. state'[d] = "Ended"
  BY <1>1 DEF TypeOK, LifeOK
<1>3. \A e \in Device \ {d} : state'[e] = state[e] /\ myTurn'[e] = myTurn[e] /\ outgoing'[e] = outgoing[e]
  BY <1>1 DEF TypeOK, LifeOK, MoveOK
<1>4. \A e \in Device : Latest(e)' = Latest(e)
  BY <1>1 DEF Latest
<1>5. \A e \in Device : state'[e] \in {"Searching", "Playing"} =>
        state'[e] = state[e] /\ myTurn'[e] = myTurn[e] /\ outgoing'[e] = outgoing[e]
  BY <1>2, <1>3
<1> QED
  BY <1>1, <1>4, <1>5, HistoryQuiet

LEMMA HistoryReset ==
  ASSUME TypeOK, IInv, HistoryInv, NEW d \in Device, Reset(d)
  PROVE  HistoryInv'
<1>1. /\ state' = [state EXCEPT ![d] = "Idle"] /\ UNCHANGED <<trips, board, net>>
      /\ gameId' = [gameId EXCEPT ![d] = NoGame] /\ toss' = [toss EXCEPT ![d] = 0]
      /\ peer' = [peer EXCEPT ![d] = NoDevice] /\ sequence' = [sequence EXCEPT ![d] = 0]
      /\ myTurn' = [myTurn EXCEPT ![d] = FALSE] /\ outgoing' = [outgoing EXCEPT ![d] = NoOutgoing]
      /\ incoming' = [incoming EXCEPT ![d] = NoIncoming]
  BY DEF Reset, ResetLink
<1>2. state'[d] = "Idle" /\ ~incoming'[d].pending
  BY <1>1 DEF TypeOK, LifeOK, MoveOK, NoIncoming
<1>3. \A e \in Device \ {d} :
        /\ state'[e] = state[e] /\ gameId'[e] = gameId[e] /\ toss'[e] = toss[e]
        /\ peer'[e] = peer[e] /\ sequence'[e] = sequence[e] /\ myTurn'[e] = myTurn[e]
        /\ outgoing'[e] = outgoing[e] /\ incoming'[e] = incoming[e] /\ Latest(e)' = Latest(e)
  BY <1>1 DEF TypeOK, LifeOK, MatchOK, MoveOK, Latest
<1>4. \A e \in Device : state'[e] \in {"Searching", "Playing"} =>
        /\ state'[e] = state[e] /\ toss'[e] = toss[e] /\ gameId'[e] = gameId[e]
        /\ peer'[e] = peer[e] /\ sequence'[e] = sequence[e] /\ myTurn'[e] = myTurn[e]
        /\ Latest(e)' = Latest(e) /\ outgoing'[e] = outgoing[e]
  <2> SUFFICES ASSUME NEW e \in Device, state'[e] \in {"Searching", "Playing"} PROVE e # d
    BY <1>3
  <2> QED
    BY <1>2
<1>5. \A e \in Device :
        \/ incoming'[e] = incoming[e] /\ board'[e] = board[e]
        \/ ~incoming'[e].pending /\ (incoming[e].pending \/ board'[e] = board[e])
  BY <1>1, <1>2, <1>3
<1> QED
  BY <1>1, <1>4, <1>5, HistoryQuiet

LEMMA HistoryTake ==
  ASSUME TypeOK, IInv, HistoryInv, NEW d \in Device, TakeIncoming(d)
  PROVE  HistoryInv'
<1>1. /\ UNCHANGED <<state, toss, gameId, trips, peer, sequence, myTurn, outgoing, net>>
      /\ incoming[d].pending /\ incoming' = [incoming EXCEPT ![d].pending = FALSE]
      /\ board' = [board EXCEPT ![d] = incoming[d].board]
  BY DEF TakeIncoming, lifeVars, matchVars
<1>2. ~incoming'[d].pending /\ board'[d] = incoming[d].board
  BY <1>1 DEF TypeOK, MoveOK, Incoming
<1>3. \A e \in Device \ {d} : incoming'[e] = incoming[e] /\ board'[e] = board[e]
  BY <1>1 DEF TypeOK, MoveOK
<1>4. \A e \in Device : Latest(e)' = Latest(e)
  BY <1>1, <1>2, <1>3 DEF Latest
<1>5. \A e \in Device :
        \/ incoming'[e] = incoming[e] /\ board'[e] = board[e]
        \/ ~incoming'[e].pending /\ (incoming[e].pending \/ board'[e] = board[e])
  BY <1>1, <1>2, <1>3
<1> QED
  BY <1>1, <1>4, <1>5, HistoryQuiet

LEMMA HistoryLocal ==
  ASSUME TypeOK, IInv, BoardIInv, HistoryInv, MaxTrips = 1, NEW d \in Device, Local(d)
  PROVE  HistoryInv'
<1>1. CASE \E g \in Game, t \in Toss : Begin(d, g, t)
  BY <1>1, HistoryBegin
<1>2. CASE Leave(d)
  <2>1. net \subseteq net' /\ \A p \in net' : p \in net \/ (Speaks(d, p) /\ p.type # "State")
    BY <1>2 DEF Leave, Send, Speaks, Pkt
  <2> QED
    BY <1>2, <2>1, HistoryEnd DEF Leave, EndReason
<1>3. CASE Reset(d)
  BY <1>3, HistoryReset
<1>4. CASE \E m \in Move : Submit(d, m)
  BY <1>4, HistorySubmit
<1>5. CASE TakeIncoming(d)
  BY <1>5, HistoryTake
<1>6. ASSUME NEW n \in Note, Announce(d, n) PROVE HistoryInv'
  <2> DEFINE p == SayPkt(d, outgoingSay[d].seq + 1, n)
  <2>1. Speaks(d, p) /\ p.type # "State" /\ Send(p)
    BY <1>6 DEF Announce, Speaks, SayPkt, Pkt
  <2> QED
    BY <1>6, <2>1, HistorySay DEF Announce, lifeVars, matchVars, moveVars
<1>7. CASE TakeAnnouncement(d)
  BY <1>7, HistorySame DEF TakeAnnouncement, lifeVars, matchVars, moveVars
<1> QED
  BY <1>1, <1>2, <1>3, <1>4, <1>5, <1>6, <1>7 DEF Local

LEMMA HistoryTimer ==
  ASSUME TypeOK, IInv, HistoryInv, NEW d \in Device, Timer(d)
  PROVE  HistoryInv'
<1>1. CASE ForgetCandidate(d)
  BY <1>1, HistorySame DEF ForgetCandidate, matchVars, moveVars
<1>2. ASSUME NEW p, Send(p), p.type # "State", Speaks(d, p),
             UNCHANGED <<lifeVars, matchVars, moveVars, noteVars, board>>
      PROVE  HistoryInv'
  BY <1>2, HistorySay DEF lifeVars, matchVars, moveVars
<1>3. CASE SendHello(d)
  BY <1>2, <1>3 DEF SendHello, Speaks, Pkt
<1>4. CASE SendJoin(d)
  BY <1>2, <1>4 DEF SendJoin, Speaks, Pkt
<1>5. CASE Heartbeat(d)
  BY <1>2, <1>5 DEF Heartbeat, Speaks, Pkt
<1>6. CASE RetrySay(d)
  BY <1>2, <1>6 DEF RetrySay, SayPkt, Speaks, Pkt
<1>7. CASE LosePeer(d)
  BY <1>7, HistoryEnd DEF LosePeer, EndReason
<1>8. CASE RetryState(d)
  <2>1. StatePkt(d, outgoing[d].seq, outgoing[d].board) \in net
    BY <1>8 DEF RetryState, HistoryInv, Answers
  <2>2. net' = net
    BY <1>8, <2>1 DEF RetryState, Send
  <2> QED
    BY <1>8, <2>2, HistorySame DEF RetryState, lifeVars, matchVars, moveVars
<1> QED
  BY <1>1, <1>3, <1>4, <1>5, <1>6, <1>7, <1>8 DEF Timer

LEMMA HistoryReceive ==
  ASSUME TypeOK, IInv, BoardIInv, HistoryInv, NEW d \in Device, NEW p \in net, Receive(d, p)
  PROVE  HistoryInv'
<1>1. CASE HearHello(d, p)
  BY <1>1, HistorySame DEF HearHello, matchVars, moveVars
<1>2. CASE HearJoin(d, p) \/ HearFromMatched(d, p)
  BY <1>2, HistoryMatch DEF HearJoin, HearFromMatched, Receivable
<1>3. CASE AnswerJoin(d, p)
  BY <1>3, HistorySay DEF AnswerJoin, FromPeer, Speaks, Pkt, lifeVars, matchVars, moveVars
<1>4. CASE HearState(d, p)
  <2>1. CASE p.seq > sequence[d]
    BY <1>4, <2>1, HistoryAdopt
  <2>2. CASE ~(p.seq > sequence[d])
    <3>1. UNCHANGED moveVars /\ Send(Pkt(d, "Ack", peer[d], sequence'[d])) /\ state[d] = "Playing"
      BY <1>4, <2>2 DEF HistoryInv, HearState, Newer, AckCopy, FromPeer
    <3>2. Speaks(d, Pkt(d, "Ack", peer[d], sequence'[d])) /\ Pkt(d, "Ack", peer[d], sequence'[d]).type # "State"
      BY <3>1 DEF Speaks, Pkt
    <3>3. UNCHANGED <<state, toss, gameId, trips, peer, sequence, myTurn, incoming, board, outgoing>>
      BY <1>4, <3>1 DEF HearState, lifeVars, moveVars
    <3> QED
      BY <3>1, <3>2, <3>3, HistorySay
  <2> QED
    BY <2>1, <2>2
<1>5. CASE HearAck(d, p)
  <2>1. \A a \in Device : outgoing'[a] = outgoing[a] \/ ~outgoing'[a].pending
    <3>1. CASE outgoing' = outgoing
      BY <3>1
    <3>2. CASE outgoing' = [outgoing EXCEPT ![d].pending = FALSE]
      BY <3>2 DEF TypeOK, MoveOK, Outgoing
    <3> QED
      BY <1>5, <3>1, <3>2 DEF HearAck
  <2> QED
    BY <1>5, <2>1, HistorySame DEF HearAck, lifeVars
<1>6. CASE HearSay(d, p)
  BY <1>6, HistorySay DEF HearSay, SayAckCopy, FromPeer, Speaks, Pkt, lifeVars, moveVars
<1>7. CASE HearSayAck(d, p)
  BY <1>7, HistorySame DEF HearSayAck, lifeVars, moveVars
<1>8. CASE HearBye(d, p) \/ HearPeerHello(d, p)
  BY <1>8, HistoryEnd DEF HearBye, HearPeerHello, EndReason
<1> QED
  BY <1>1, <1>2, <1>3, <1>4, <1>5, <1>6, <1>7, <1>8 DEF Receive

LEMMA HistoryInit == Init => HistoryInv
<1> SUFFICES ASSUME Init PROVE HistoryInv
  OBVIOUS
<1>1. \A a \in Device : /\ state[a] = "Idle" /\ incoming[a] = NoIncoming
                        /\ board[a] = <<>>
  BY DEF Init
<1>2. net = {}
  BY DEF Init
<1> QED
  BY <1>1, <1>2 DEF HistoryInv, StateSent, StateAhead, Waiting, Answers, OneHistory, NoIncoming

LEMMA HistoryNext ==
  ASSUME MaxTrips = 1
  PROVE  TypeOK /\ IInv /\ BoardIInv /\ HistoryInv /\ [Next]_vars => HistoryInv'
<1>1. ASSUME TypeOK, IInv, HistoryInv, UNCHANGED vars PROVE HistoryInv'
  <2>1. CASE Device = {}
    <3>1. net = {} /\ net' = {}
      BY <1>1, <2>1 DEF TypeOK, Packet, vars
    <3> QED
      BY <2>1, <3>1 DEF HistoryInv, StateSent, StateAhead, Waiting, Answers, OneHistory
  <2>2. ASSUME NEW d \in Device PROVE HistoryInv'
    BY <1>1, HistorySame DEF vars, lifeVars, matchVars, moveVars
  <2> QED
    BY <2>1, <2>2
<1> QED
  BY <1>1, HistoryLocal, HistoryTimer, HistoryReceive DEF Next

LEMMA HistoryAlways == ASSUME MaxTrips = 1 PROVE Spec => []HistoryInv
  BY HistoryInit, HistoryNext, TypeCorrect, InvAlways, BoardAlways, PTL DEF Spec

\* A board that waits to be taken changes only when it is taken or dropped.
LEMMA WaitingStep ==
  ASSUME TypeOK, HistoryInv, NEW d \in Device, Local(d) \/ Timer(d) \/ \E p \in net : Receive(d, p),
         NEW e \in Device, incoming[e].pending, incoming'[e].pending
  PROVE  incoming'[e] = incoming[e]
<1>1. \/ UNCHANGED incoming
      \/ incoming' = [incoming EXCEPT ![d] = NoIncoming]
      \/ incoming' = [incoming EXCEPT ![d].pending = FALSE]
      \/ ~incoming[d].pending /\ \E b : incoming' = [incoming EXCEPT ![d] = b]
  <2>1. CASE Local(d)
    BY <2>1 DEF Local, Begin, ResetLink, Leave, End, Reset, Submit, Play, TakeIncoming, Announce,
                TakeAnnouncement, moveVars
  <2>2. CASE Timer(d)
    BY <2>2 DEF Timer, ForgetCandidate, SendHello, SendJoin, LosePeer, End, RetrySay, RetryState,
                Heartbeat, moveVars
  <2>3. ASSUME NEW p \in net, Receive(d, p)
        PROVE  \/ UNCHANGED incoming
               \/ incoming' = [incoming EXCEPT ![d] = NoIncoming]
               \/ ~incoming[d].pending /\ \E b : incoming' = [incoming EXCEPT ![d] = b]
    <3>1. CASE HearState(d, p)
      <4>1. CASE p.seq > sequence[d]
        <5>1. ~incoming[d].pending
          BY <3>1, <4>1, NoneOvertakes
        <5>2. incoming' = [incoming EXCEPT ![d] = [board |-> p.board, pending |-> TRUE]]
          BY <3>1, <4>1 DEF HearState, Newer
        <5> QED
          BY <5>1, <5>2
      <4>2. CASE ~(p.seq > sequence[d])
        BY <3>1, <4>2 DEF HearState, Newer, moveVars
      <4> QED
        BY <4>1, <4>2
    <3>2. CASE HearJoin(d, p) \/ HearFromMatched(d, p)
      BY <3>2 DEF HearJoin, HearFromMatched, MatchWith
    <3>3. CASE \/ HearHello(d, p) \/ AnswerJoin(d, p) \/ HearAck(d, p) \/ HearSay(d, p)
               \/ HearSayAck(d, p) \/ HearBye(d, p) \/ HearPeerHello(d, p)
      BY <3>3 DEF HearHello, AnswerJoin, HearAck, HearSay, HearSayAck, HearBye, HearPeerHello,
                  End, moveVars
    <3> QED
      BY <2>3, <3>1, <3>2, <3>3 DEF Receive
  <2> QED
    BY <2>1, <2>2, <2>3
<1>2. CASE e = d
  BY <1>1, <1>2 DEF TypeOK, MoveOK, Incoming, NoIncoming
<1>3. CASE e # d
  BY <1>1, <1>3 DEF TypeOK, MoveOK
<1> QED
  BY <1>2, <1>3

\* When every device searches once, all that two devices know of each other in
\* a match is true: their boards are one game at most a move apart, whatever is
\* lost, repeated or reordered (test_link.cpp:9-11), an acknowledged move or
\* note has arrived, and every state ever sent belongs to one history.
THEOREM BoardsStayTogether == ASSUME MaxTrips = 1 PROVE Spec => []MatchInv
<1>1. TypeOK /\ IInv /\ AckLaw /\ BoardIInv /\ HistoryInv /\ NoteInv => MatchInv
  BY AgreeFromSame DEF BoardIInv, BoardInv, MatchInv
<1> QED
  BY <1>1, TypeCorrect, InvAlways, AckAlways, BoardAlways, HistoryAlways, NoteAlways, PTL

\* When every device searches once, a board that waits to be taken is never
\* overwritten by a newer one: takeIncoming() shows the game every move the
\* peer made (Session::handlePacket, State).
THEOREM NoneSkipped == ASSUME MaxTrips = 1 PROVE Spec => NoBoardSkipped
<1>1. TypeOK /\ HistoryInv /\ [Next]_vars =>
        [\A d \in Device :
           incoming[d].pending /\ incoming'[d].pending => incoming'[d] = incoming[d]]_vars
  BY WaitingStep DEF Next
<1> QED
  BY <1>1, TypeCorrect, HistoryAlways, PTL DEF Spec, NoBoardSkipped

-----------------------------------------------------------------------------
(* Two devices implement TurnGame.                                         *)

\* One of the states sent is the newest.
Frontier == StatesSent = {} \/ \E q \in StatesSent : \A p \in StatesSent : p.seq <= q.seq

\* A set of packets with a greatest number has a newest.
LEMMA NewestIs ==
  ASSUME NEW S, NEW q \in S, \A p \in S : p.seq \in Nat /\ p.seq <= q.seq
  PROVE  NewestOf(S) \in S /\ NewestOf(S).seq = q.seq
<1> DEFINE N == {p.seq : p \in S}
<1>1. q.seq \in N /\ \A n \in N : n \in Nat /\ q.seq >= n
  OBVIOUS
<1>2. Max(N) = q.seq
  <2>1. Max(N) \in N /\ \A n \in N : Max(N) >= n
    BY <1>1 DEF Max
  <2> HIDE DEF N
  <2> QED
    BY <1>1, <2>1
<1>3. \E p \in S : p.seq = Max(N)
  BY <1>2
<1> QED
  BY <1>2, <1>3 DEF NewestOf

LEMMA NewestSent ==
  ASSUME TypeOK, Frontier, StatesSent # {}
  PROVE  /\ NewestOf(StatesSent) \in StatesSent
         /\ \A p \in StatesSent : p.seq <= NewestOf(StatesSent).seq
<1>1. PICK q \in StatesSent : \A p \in StatesSent : p.seq <= q.seq
  BY DEF Frontier
<1>2. \A p \in StatesSent : p.seq \in Nat
  BY DEF TypeOK, StatesSent, Packet
<1> QED
  BY <1>1, <1>2, NewestIs

\* With two devices, all states are between the same two.
LEMMA AllBetween ==
  ASSUME NEW a, NEW b, Device = {a, b}, TypeOK, HistoryInv
  PROVE  /\ \A p, q \in StatesSent : Between(p, q)
         /\ \A p \in StatesSent : \A d \in Device : state[d] = "Playing" /\ peer[d] \in Device =>
              p.from = d \/ (p.from = peer[d] /\ p.to = d)
<1>1. \A p \in StatesSent : p.from \in {a, b} /\ p.to \in {a, b} /\ p.from # p.to
  BY DEF TypeOK, Packet, StatesSent, HistoryInv, StateSent
<1>2. \A d \in Device : peer[d] # d
  BY DEF TypeOK
<1> QED
  BY <1>1, <1>2 DEF Between

\* Two boards on the air of one number are one board.
LEMMA SameNumber ==
  ASSUME TypeOK, BoardOnAir, OneHistory, NEW p \in StatesSent, NEW q \in StatesSent,
         Between(p, q), p.seq = q.seq
  PROVE  p.board = q.board
<1>1. /\ p.board \in Seq(Move) /\ q.board \in Seq(Move) /\ p.seq \in Nat
      /\ Len(p.board) = p.seq /\ Len(q.board) = q.seq
  BY DEF TypeOK, Packet, Board, StatesSent, BoardOnAir
<1>2. \A i \in 1..p.seq : q.board[i] = p.board[i]
  BY <1>1 DEF OneHistory, StatesSent
<1> QED
  BY <1>1, <1>2, SeqEqual

\* Whoever has the turn, its board taken, shows all of the history, and made
\* none of its last move.
LEMMA MoverSeesAll ==
  ASSUME NEW a, NEW b, Device = {a, b}, TypeOK, IInv, BoardIInv, HistoryInv, Frontier,
         NEW d \in Device, MayPlay(d)
  PROVE  /\ board[d] = History /\ Mover # d
         /\ \A p \in StatesSent : p.seq <= sequence[d]
<1>1. /\ state[d] = "Playing" /\ myTurn[d] /\ ~incoming[d].pending /\ sequence[d] \in Nat
      /\ Latest(d) = board[d] /\ board[d] \in Seq(Move) /\ peer[d] \in Device
  BY DEF MayPlay, TypeOK, MoveOK, Latest, Board, IInv, OneTrip
<1>2. \A p \in StatesSent : p.from = d \/ (p.from = peer[d] /\ p.to = d)
  BY <1>1, AllBetween
<1>3. \A p \in StatesSent : p.seq <= sequence[d] /\ p.seq \in Nat /\ p.seq > 0
  BY <1>1, <1>2, MoverKnows DEF StatesSent, HistoryInv, StateSent, TypeOK, Packet
<1>4. CASE sequence[d] = 0
  <2>1. StatesSent = {}
    BY <1>3, <1>4
  <2>2. Len(board[d]) = 0
    BY <1>1, <1>4 DEF BoardIInv, BoardLength
  <2>3. board[d] = <<>>
    BY <1>1, <2>2, EmptySeq
  <2> QED
    BY <1>3, <2>1, <2>3 DEF History, Mover
<1>5. CASE sequence[d] # 0
  <2>1. PICK r \in net : /\ r.type = "State" /\ r.from = peer[d] /\ r.to = d
                         /\ r.seq = sequence[d] /\ r.board = Latest(d)
    BY <1>1, <1>5 DEF HistoryInv, Answers
  <2>2. r \in StatesSent
    BY <2>1 DEF StatesSent
  <2> DEFINE q == NewestOf(StatesSent)
  <2>3. q \in StatesSent /\ q.seq = sequence[d]
    <3>1. q \in StatesSent /\ r.seq <= q.seq
      BY <2>2, NewestSent
    <3> QED
      BY <1>1, <1>3, <2>1, <3>1
  <2>4. q.from # d
    BY <1>1, <1>3, <2>3 DEF HistoryInv, Answers, StatesSent
  <2>5. q.board = r.board
    <3>1. Between(q, r)
      BY <2>2, <2>3, AllBetween
    <3>2. BoardOnAir /\ OneHistory /\ q.seq = r.seq
      BY <2>1, <2>3 DEF BoardIInv, HistoryInv
    <3> HIDE DEF q
    <3> QED
      BY <2>2, <2>3, <3>1, <3>2, SameNumber
  <2>6. StatesSent # {}
    BY <2>2
  <2> QED
    BY <1>1, <1>3, <2>1, <2>4, <2>5, <2>6 DEF History, Mover
<1> QED
  BY <1>4, <1>5

\* A move by submit() is a move of the shared game.
LEMMA SubmitPlays ==
  ASSUME NEW a, NEW b, Device = {a, b}, TypeOK, IInv, BoardIInv, HistoryInv, Frontier,
         NEW d \in Device, NEW m \in Move, Submit(d, m)
  PROVE  /\ Mover # d /\ board[d] = History /\ History' = Append(History, m) /\ Mover' = d
         /\ board' = [board EXCEPT ![d] = History']
         /\ Frontier'
<1> DEFINE c == Append(board[d], m)
           q == StatePkt(d, sequence[d] + 1, c)
<1>1. MayPlay(d) /\ net' = net \cup {q} /\ board' = [board EXCEPT ![d] = c]
  BY DEF Submit, Play, Send
<1>2. q.type = "State" /\ q.from = d /\ q.seq = sequence[d] + 1 /\ q.board = c
  BY DEF StatePkt, Pkt
<1> HIDE DEF q
<1>3. StatesSent' = StatesSent \cup {q}
  BY <1>1, <1>2 DEF StatesSent
<1>4. board[d] = History /\ Mover # d /\ \A p \in StatesSent : p.seq <= sequence[d]
  BY <1>1, MoverSeesAll
<1>5. \A p \in StatesSent' : p.seq \in Nat /\ p.seq <= q.seq /\ (p.seq = q.seq => p = q)
  <2>1. \A p \in StatesSent : p.seq \in Nat /\ sequence[d] \in Nat
    BY DEF StatesSent, TypeOK, Packet, MoveOK
  <2>2. q.seq \in Nat
    BY <1>2 DEF TypeOK, MoveOK
  <2> QED
    BY <1>2, <1>3, <1>4, <2>1, <2>2
<1>6. NewestOf(StatesSent') = q
  <2>1. q \in StatesSent'
    BY <1>3
  <2> QED
    BY <1>5, <2>1, NewestIs
<1>7. Frontier'
  BY <1>3, <1>5 DEF Frontier
<1>8. History' = c /\ Mover' = d
  BY <1>2, <1>3, <1>6 DEF History, Mover
<1> QED
  BY <1>1, <1>4, <1>7, <1>8

\* Taking the board that waits shows the game exactly the next move.
LEMMA TakeSees ==
  ASSUME NEW a, NEW b, Device = {a, b}, TypeOK, BoardIInv, HistoryInv, Frontier,
         NEW d \in Device, TakeIncoming(d)
  PROVE  /\ Len(board[d]) < Len(History)
         /\ board' = [board EXCEPT ![d] = SubSeq(History, 1, Len(board[d]) + 1)]
<1>1. incoming[d].pending /\ board' = [board EXCEPT ![d] = incoming[d].board]
  BY DEF TakeIncoming
<1>2. PICK p \in net : p.type = "State" /\ p.board = incoming[d].board
  BY <1>1 DEF HistoryInv, Waiting
<1>3. p \in StatesSent
  BY <1>2 DEF StatesSent
<1> DEFINE q == NewestOf(StatesSent)
           n == Len(board[d]) + 1
<1>4. q \in StatesSent /\ p.seq <= q.seq
  BY <1>3, NewestSent
<1>5. /\ board[d] \in Seq(Move) /\ p.board \in Seq(Move) /\ q.board \in Seq(Move)
      /\ Len(board[d]) \in Nat /\ Len(p.board) = n /\ p.seq = n /\ Len(q.board) = q.seq
      /\ q.seq \in Nat
  <2>1. board[d] \in Seq(Move) /\ p.board \in Seq(Move) /\ q.board \in Seq(Move) /\ q.seq \in Nat
    BY <1>3, <1>4 DEF TypeOK, Packet, Board, StatesSent
  <2>2. Len(p.board) = n
    BY <1>1, <1>2 DEF HistoryInv, Waiting
  <2>3. Len(p.board) = p.seq /\ Len(q.board) = q.seq
    BY <1>3, <1>4 DEF BoardIInv, BoardOnAir, StatesSent
  <2> QED
    BY <2>1, <2>2, <2>3, LenProperties
<1>6. \A i \in 1..n : q.board[i] = p.board[i]
  <2>1. Between(p, q)
    BY <1>3, <1>4, AllBetween
  <2> QED
    BY <1>3, <1>4, <1>5, <2>1 DEF HistoryInv, OneHistory, StatesSent
<1>7. History = q.board
  BY <1>3 DEF History
<1> HIDE DEF q
<1>8. SubSeq(q.board, 1, n) = p.board
  <2> DEFINE s == SubSeq(q.board, 1, n)
  <2>1. n \in Nat /\ n <= Len(q.board)
    BY <1>4, <1>5
  <2>2. s \in Seq(Move) /\ Len(s) = n /\ \A i \in 1..n : s[i] = q.board[i]
    BY <1>5, <2>1, SubSeqProperties
  <2> HIDE DEF s
  <2>3. s = p.board
    BY <1>5, <1>6, <2>2, SeqEqual
  <2> QED
    BY <2>3 DEF s
<1>9. Len(board[d]) < Len(History)
  BY <1>4, <1>5, <1>7
<1> QED
  <2>1. SubSeq(History, 1, n) = incoming[d].board
    BY <1>2, <1>7, <1>8
  <2> QED
    BY <1>1, <1>9, <2>1

-----------------------------------------------------------------------------
\* A packet that is no state leaves the states sent as they were.
LEMMA NoStateSent ==
  ASSUME NEW p, Send(p), p.type # "State"
  PROVE  StatesSent' = StatesSent
  BY DEF Send, StatesSent

LEMMA PktKind ==
  ASSUME NEW d, NEW type, NEW to, NEW seq, NEW n
  PROVE  /\ Pkt(d, type, to, seq).type = type
         /\ SayPkt(d, seq, n).type = "Say"
  BY DEF Pkt, SayPkt

\* Who searches for the first time has exchanged no state yet.
LEMMA BeginSendsNone ==
  ASSUME MaxTrips = 1, TypeOK, IInv, HistoryInv, NEW d \in Device,
         NEW g \in Game, NEW t \in Toss, Begin(d, g, t)
  PROVE  StatesSent' = StatesSent
<1> DEFINE h == [type |-> "Hello", from |-> d, to |-> kBroadcast, gameId |-> g, seq |-> 0,
                 toss |-> t, board |-> <<>>, note |-> NoNote]
<1>1. net' = Surviving(d) \cup {h} /\ h.type = "Hello"
  BY DEF Begin
<1> HIDE DEF h
<1>2. trips[d] = 0
  BY DEF Begin, TypeOK, LifeOK
<1>3. \A p \in StatesSent : p.from # d /\ p.to # d
  BY <1>2 DEF StatesSent, IInv, OneTrip, HistoryInv, StateSent
<1>4. \A p : p \in StatesSent' <=> p \in StatesSent
  BY <1>1, <1>3 DEF Surviving, StatesSent
<1> QED
  BY <1>4

\* A match starts on the empty board a device still shows.
LEMMA MatchShowsNone ==
  ASSUME TypeOK, HistoryInv, NEW d \in Device, NEW p, state[d] = "Searching", MatchWith(d, p)
  PROVE  StatesSent' = StatesSent /\ UNCHANGED board
<1>1. StatesSent' = StatesSent
  <2>1. Send(Pkt(d, "Ack", p.from, 0))
    BY DEF MatchWith
  <2> QED
    BY <2>1, PktKind, NoStateSent
<1>2. board[d] = <<>> /\ board' = [board EXCEPT ![d] = <<>>]
  BY DEF HistoryInv, Waiting, MatchWith
<1> QED
  BY <1>1, <1>2 DEF TypeOK

\* What is retried has been sent before.
LEMMA RetrySendsNone ==
  ASSUME HistoryInv, NEW d \in Device, RetryState(d)
  PROVE  StatesSent' = StatesSent /\ UNCHANGED board
<1>1. StatePkt(d, outgoing[d].seq, outgoing[d].board) \in net
  BY DEF RetryState, HistoryInv, Answers
<1> QED
  BY <1>1 DEF RetryState, Send, StatesSent

\* Only submit() sends a state, and only submit() and takeIncoming() change
\* what a game shows.
LEMMA NothingElse ==
  ASSUME MaxTrips = 1, TypeOK, IInv, HistoryInv, NEW d \in Device,
         Local(d) \/ Timer(d) \/ \E p \in net : Receive(d, p),
         ~ \E m \in Move : Submit(d, m)
  PROVE  StatesSent' = StatesSent /\ (UNCHANGED board \/ TakeIncoming(d))
<1>1. CASE \E g \in Game, t \in Toss : Begin(d, g, t)
  BY <1>1, BeginSendsNone DEF Begin
<1>2. CASE Leave(d)
  BY <1>2, PktKind, NoStateSent DEF Leave, End, StatesSent
<1>3. CASE Reset(d) \/ TakeIncoming(d) \/ TakeAnnouncement(d)
  BY <1>3 DEF Reset, TakeIncoming, TakeAnnouncement, StatesSent
<1>4. CASE \E n \in Note : Announce(d, n)
  BY <1>4, PktKind, NoStateSent DEF Announce
<1>5. CASE Timer(d)
  <2>1. CASE ForgetCandidate(d) \/ LosePeer(d)
    BY <2>1 DEF ForgetCandidate, LosePeer, End, StatesSent
  <2>2. CASE SendHello(d) \/ SendJoin(d) \/ Heartbeat(d)
    BY <2>2, PktKind, NoStateSent DEF SendHello, SendJoin, Heartbeat
  <2>3. CASE RetrySay(d)
    BY <2>3, PktKind, NoStateSent DEF RetrySay
  <2>4. CASE RetryState(d)
    BY <2>4, RetrySendsNone
  <2> QED
    BY <1>5, <2>1, <2>2, <2>3, <2>4 DEF Timer
<1>6. ASSUME NEW p \in net, Receive(d, p)
      PROVE  StatesSent' = StatesSent /\ UNCHANGED board
  <2>1. CASE HearHello(d, p) \/ HearBye(d, p) \/ HearPeerHello(d, p)
    BY <2>1 DEF HearHello, HearBye, HearPeerHello, End, StatesSent
  <2>2. CASE HearJoin(d, p) \/ HearFromMatched(d, p)
    BY <2>2, MatchShowsNone DEF HearJoin, HearFromMatched
  <2>3. CASE HearAck(d, p) \/ HearSayAck(d, p)
    BY <2>3 DEF HearAck, HearSayAck, StatesSent
  <2>4. CASE AnswerJoin(d, p)
    BY <2>4, PktKind, NoStateSent DEF AnswerJoin
  <2>5. CASE HearState(d, p)
    <3>1. Send(Pkt(d, "Ack", peer[d], sequence'[d])) /\ UNCHANGED board
      BY <2>5 DEF HearState, AckCopy
    <3> QED
      BY <3>1, PktKind, NoStateSent
  <2>6. CASE HearSay(d, p)
    <3>1. Send(Pkt(d, "SayAck", peer[d], incomingSay'[d].seq)) /\ UNCHANGED board
      BY <2>6 DEF HearSay, SayAckCopy
    <3> QED
      BY <3>1, PktKind, NoStateSent
  <2> QED
    BY <1>6, <2>1, <2>2, <2>3, <2>4, <2>5, <2>6 DEF Receive
<1> QED
  BY <1>1, <1>2, <1>3, <1>4, <1>5, <1>6 DEF Local

\* Every step of a device is a step of the shared game, or none.
LEMMA SharedStep ==
  ASSUME MaxTrips = 1, NEW a, NEW b, Device = {a, b},
         TypeOK, IInv, BoardIInv, HistoryInv, Frontier, [Next]_vars
  PROVE  [Shared!Next]_(Shared!vars) /\ Frontier'
<1>1. CASE UNCHANGED vars
  <2>1. StatesSent' = StatesSent /\ UNCHANGED board
    BY <1>1 DEF vars, StatesSent
  <2> QED
    BY <2>1 DEF Frontier, Shared!vars, History, Mover
<1>2. ASSUME NEW d \in Device, Local(d) \/ Timer(d) \/ \E p \in net : Receive(d, p)
      PROVE  [Shared!Next]_(Shared!vars) /\ Frontier'
  <2>1. ASSUME NEW m \in Move, Submit(d, m)
        PROVE  [Shared!Next]_(Shared!vars) /\ Frontier'
    <3>1. /\ Mover # d /\ board[d] = History /\ History' = Append(History, m) /\ Mover' = d
          /\ board' = [board EXCEPT ![d] = History'] /\ Frontier'
      BY <2>1, SubmitPlays
    <3>2. Shared!Play(d)
      <4>1. Shared!Play(d) <=>
              /\ Mover # d
              /\ board[d] = History
              /\ \E k \in Move : History' = Append(History, k)
              /\ Mover' = d
              /\ board' = [board EXCEPT ![d] = History']
        BY DEF Shared!Play
      <4> QED
        BY <3>1, <4>1
    <3> QED
      BY <3>1, <3>2 DEF Shared!Next
  <2>2. CASE ~ \E m \in Move : Submit(d, m)
    <3>1. StatesSent' = StatesSent /\ (UNCHANGED board \/ TakeIncoming(d))
      BY <1>2, <2>2, NothingElse
    <3>2. Frontier' /\ History' = History /\ Mover' = Mover
      BY <3>1 DEF Frontier, History, Mover
    <3>3. CASE UNCHANGED board
      BY <3>2, <3>3 DEF Shared!vars
    <3>4. CASE TakeIncoming(d)
      <4>1. /\ Len(board[d]) < Len(History)
            /\ board' = [board EXCEPT ![d] = SubSeq(History, 1, Len(board[d]) + 1)]
        BY <3>4, TakeSees
      <4>2. Shared!See(d)
        BY <3>2, <4>1 DEF Shared!See
      <4> QED
        BY <3>2, <4>2 DEF Shared!Next
    <3> QED
      BY <3>1, <3>3, <3>4, <3>2
  <2> QED
    BY <2>1, <2>2
<1> QED
  BY <1>1, <1>2 DEF Next

\* Two devices that search once implement TurnGame, whatever the air loses,
\* repeats or reorders and whenever the match dies: each move is made in turn by
\* a device that has seen all of the history, and each game is shown the history
\* move by move (LinkSession.h:14-30).
THEOREM SharesGame ==
  ASSUME MaxTrips = 1, NEW a, NEW b, Device = {a, b}
  PROVE  Spec => SharesOneGame
<1>1. Init => Shared!Init /\ Frontier
  BY DEF Init, Shared!Init, Frontier, StatesSent, Shared!NoSide, History, Mover
<1>2. TypeOK /\ IInv /\ BoardIInv /\ HistoryInv /\ Frontier /\ [Next]_vars
        => [Shared!Next]_(Shared!vars) /\ Frontier'
  BY SharedStep
<1>3. Spec => []TypeOK /\ []IInv /\ []BoardIInv /\ []HistoryInv
  BY TypeCorrect, InvAlways, BoardAlways, HistoryAlways
<1> QED
  BY <1>1, <1>2, <1>3, PTL DEF Spec, SharesOneGame, Shared!Spec
=============================================================================
