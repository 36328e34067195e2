-------------------------- MODULE LinkRematchProofs --------------------------
(***************************************************************************)
(* Theorems about LinkRematch, for any number of moves and notes, over     *)
(* packets lost, repeated and overtaking each other, and from any game     *)
(* left over on either board.  Notes and moves arrive, one device has the  *)
(* turn, and nobody starts more games than either player has said yes to.  *)
(* For the games that deal at once and pass: the link follows the board    *)
(* over rounds and games, at rest both see one board, a pass is not passed *)
(* back, and the match is never parked.  Rests on the steps of             *)
(* LinkSessionProofs.                                                      *)
(***************************************************************************)
EXTENDS LinkRematch, LinkSessionProofs, SequenceTheorems

USE LinkAssumption, RematchAssumption DEF NoDevice, NoNote, NoGame

-----------------------------------------------------------------------------
(* Type correctness.  A board is what the games can tell apart: a deal and *)
(* entries, all numbers.                                                   *)

Answer == {"Deciding", "Ready"}
Place == {"matched", "tick", "notes", "agreed", "accepted", "take", "pass", "question", "input"}
Phase == {"YourTurn", "TheirTurn"}
Boards == Seq(Nat)

PassTyped ==
  /\ pc \in [Device -> Place] /\ phase \in [Device -> Phase] /\ seat \in [Device -> {0, 1}]
  /\ rematch \in [Device -> BOOLEAN]
  /\ you \in [Device -> Answer] /\ them \in [Device -> Answer]
  /\ restarts \in [Device -> Nat]

Kept == [board : Boards, seq : Nat, pending : BOOLEAN]
Waits == [board : Boards, pending : BOOLEAN]

MovesTyped ==
  /\ myTurn \in [Device -> BOOLEAN] /\ sequence \in [Device -> Nat]
  /\ outgoing \in [Device -> Kept]
  /\ incoming \in [Device -> Waits]
  /\ board \in [Device -> Boards]
  /\ \A p \in net : p.board \in Boards

RematchTyped == PassTyped /\ MovesTyped /\ NotesTyped

\* One step of one device.
StepOf(d) ==
  \/ \E p \in net : Hear(d, p)
  \/ Retry(d) \/ Update(d) \/ MatchStart(d)
  \/ HearAgain(d) \/ StartRematch(d)
  \/ TakeState(d) \/ PassTurn(d)
  \/ Question(d) \/ NoTap(d) \/ ProposeRematch(d)
  \/ \E m \in Seat \cup {RoundOver, GameOver} : Tap(d, m)

\* What a step adds to the air.
TypedPkt(p) == p.from \in Device /\ p.seq \in Nat /\ p.note \in Note \cup {NoNote} /\ p.board \in Boards

\* A move put on a position leaves the position it began from where it was.
LEMMA OneMoveMore ==
  ASSUME NEW s \in Boards, NEW m \in Seat \cup {RoundOver, GameOver}
  PROVE  /\ Append(s, m) \in Boards
         /\ Append(s, m) # <<>>
         /\ s # <<>> => Append(s, m)[1] = s[1]
<1>1. s \in Seq(Nat) /\ m \in Nat
  BY DEF Boards, Seat, RoundOver, GameOver
<1> HIDE DEF Boards, Seat, RoundOver, GameOver
<1>2. /\ Append(s, m) \in Seq(Nat) /\ Append(s, m) # <<>>
      /\ \A i \in 1..Len(s) : Append(s, m)[i] = s[i]
  BY ONLY <1>1, AppendProperties
<1>3. s # <<>> => 1 \in 1..Len(s)
  BY <1>1, EmptySeq
<1> QED
  BY <1>2, <1>3 DEF Boards

LEMMA PktTyped ==
  ASSUME NEW d \in Device, NEW type, NEW to, NEW seq \in Nat
  PROVE  TypedPkt(Pkt(d, type, to, seq))
<1>1. <<>> \in Boards
  BY EmptySeq DEF Boards
<1> QED
  BY <1>1 DEF TypedPkt, Pkt

LEMMA StatePktTyped ==
  ASSUME NEW d \in Device, NEW seq \in Nat, NEW b \in Boards
  PROVE  TypedPkt(StatePkt(d, seq, b))
  BY DEF TypedPkt, StatePkt, Pkt

LEMMA SayPktTyped ==
  ASSUME NEW d \in Device, NEW seq \in Nat, NEW n \in Note \cup {NoNote}
  PROVE  TypedPkt(SayPkt(d, seq, n))
<1>1. <<>> \in Boards
  BY EmptySeq DEF Boards
<1> QED
  BY <1>1 DEF TypedPkt, SayPkt, Pkt

LEMMA KeptTyped ==
  ASSUME NEW f \in [Device -> Kept], NEW d \in Device
  PROVE  [f EXCEPT ![d].pending = FALSE] \in [Device -> Kept]
<1>1. [f[d] EXCEPT !.pending = FALSE] \in Kept
  <2>1. f[d] \in [board : Boards, seq : Nat, pending : BOOLEAN]
    BY DEF Kept
  <2> DEFINE r == f[d]
  <2> HIDE DEF r
  <2>2. r \in [board : Boards, seq : Nat, pending : BOOLEAN]
        => [r EXCEPT !.pending = FALSE] \in [board : Boards, seq : Nat, pending : BOOLEAN]
    OBVIOUS
  <2> QED
    BY <2>1, <2>2 DEF r, Kept
<1> QED
  BY <1>1

\* A step that sends well-formed packets and changes no move and no note.
LEMMA SendTyped ==
  ASSUME RematchTyped, PassTyped', UNCHANGED <<moveVars, noteVars, board>>,
         \A p \in net' : p \in net \/ TypedPkt(p)
  PROVE  RematchTyped'
  BY DEF RematchTyped, MovesTyped, NotesTyped, NoteOK, TypedPkt, moveVars, noteVars

LEMMA HearTyped ==
  ASSUME RematchTyped, NEW d \in Device, NEW p \in net, Hear(d, p)
  PROVE  RematchTyped'
<1>0. PassTyped' /\ UNCHANGED rematchVars
  BY DEF Hear, RematchTyped, PassTyped, rematchVars, askVars
<1>1. CASE HearState(d, p)
  <2>1. /\ UNCHANGED <<noteVars, board>> /\ net' = net \cup {Pkt(d, "Ack", peer[d], sequence'[d])}
        /\ \/ UNCHANGED moveVars
           \/ /\ incoming' = [incoming EXCEPT ![d] = [board |-> p.board, pending |-> TRUE]]
              /\ sequence' = [sequence EXCEPT ![d] = p.seq]
              /\ myTurn' = [myTurn EXCEPT ![d] = TRUE]
              /\ outgoing' = [outgoing EXCEPT ![d].pending = FALSE]
    BY <1>1 DEF HearState, AckCopy, Send
  <2>2. p.seq \in Nat /\ p.board \in Boards
    BY DEF RematchTyped, NotesTyped, MovesTyped
  <2>3. /\ [outgoing EXCEPT ![d].pending = FALSE] \in [Device -> Kept]
        /\ [board |-> p.board, pending |-> TRUE] \in Waits
    BY <2>2, KeptTyped DEF RematchTyped, MovesTyped, Waits
  <2>4. /\ myTurn' \in [Device -> BOOLEAN] /\ sequence' \in [Device -> Nat]
        /\ outgoing' \in [Device -> Kept]
        /\ incoming' \in [Device -> Waits]
    <3> DEFINE w == [board |-> p.board, pending |-> TRUE]
               o == [outgoing EXCEPT ![d].pending = FALSE]
    <3>1. w \in Waits /\ o \in [Device -> Kept]
      BY <2>3
    <3>2. \/ UNCHANGED moveVars
          \/ /\ incoming' = [incoming EXCEPT ![d] = w] /\ outgoing' = o
             /\ sequence' = [sequence EXCEPT ![d] = p.seq]
             /\ myTurn' = [myTurn EXCEPT ![d] = TRUE]
      BY <2>1
    <3> HIDE DEF w, o
    <3>3. CASE UNCHANGED moveVars
      BY <3>3 DEF RematchTyped, MovesTyped, moveVars
    <3>4. CASE ~ UNCHANGED moveVars
      <4>1. incoming' \in [Device -> Waits] /\ outgoing' \in [Device -> Kept]
        BY <3>1, <3>2, <3>4 DEF RematchTyped, MovesTyped
      <4>2. sequence' \in [Device -> Nat] /\ myTurn' \in [Device -> BOOLEAN]
        BY <2>2, <3>2, <3>4 DEF RematchTyped, MovesTyped
      <4> QED
        BY <4>1, <4>2
    <3> QED
      BY <3>3, <3>4
  <2>5. TypedPkt(Pkt(d, "Ack", peer[d], sequence'[d]))
    BY <2>4, PktTyped
  <2> QED
    BY <1>0, <2>1, <2>4, <2>5 DEF RematchTyped, MovesTyped, NotesTyped, NoteOK, TypedPkt, noteVars
<1>2. CASE HearAck(d, p)
  <2>1. /\ UNCHANGED <<noteVars, board, net, myTurn, sequence, incoming>>
        /\ outgoing' = outgoing \/ outgoing' = [outgoing EXCEPT ![d].pending = FALSE]
    BY <1>2 DEF HearAck
  <2>2. [outgoing EXCEPT ![d].pending = FALSE] \in [Device -> Kept] /\ outgoing \in [Device -> Kept]
    BY KeptTyped DEF RematchTyped, MovesTyped
  <2>3. outgoing' \in [Device -> Kept]
    BY <2>1, <2>2
  <2> QED
    BY <1>0, <2>1, <2>3 DEF RematchTyped, MovesTyped, NotesTyped, NoteOK, noteVars
<1>3. CASE HearSay(d, p)
  <2>1. /\ UNCHANGED <<moveVars, outgoingSay, board>>
        /\ net' = net \cup {Pkt(d, "SayAck", peer[d], incomingSay'[d].seq)}
        /\ \/ UNCHANGED incomingSay
           \/ incomingSay' = [incomingSay EXCEPT ![d] = [note |-> p.note, seq |-> p.seq, pending |-> TRUE]]
    BY <1>3 DEF HearSay, SayAckCopy, Send
  <2>2. [note |-> p.note, seq |-> p.seq, pending |-> TRUE] \in Saying
    BY DEF RematchTyped, NotesTyped, Saying
  <2>3. incomingSay' \in [Device -> Saying]
    <3> DEFINE o == [note |-> p.note, seq |-> p.seq, pending |-> TRUE]
    <3>1. incomingSay \in [Device -> Saying] /\ o \in Saying
      BY <2>2 DEF RematchTyped, NotesTyped, NoteOK
    <3>2. incomingSay' = incomingSay \/ incomingSay' = [incomingSay EXCEPT ![d] = o]
      BY <2>1
    <3> HIDE DEF o
    <3> QED
      BY <3>1, <3>2
  <2>4. TypedPkt(Pkt(d, "SayAck", peer[d], incomingSay'[d].seq))
    BY <2>3, PktTyped DEF Saying
  <2> QED
    BY <1>0, <2>1, <2>3, <2>4 DEF RematchTyped, MovesTyped, NotesTyped, NoteOK, TypedPkt, moveVars
<1>4. CASE HearSayAck(d, p)
  <2>1. /\ UNCHANGED <<moveVars, incomingSay, board, net>>
        /\ outgoingSay' = outgoingSay \/ outgoingSay' = [outgoingSay EXCEPT ![d].pending = FALSE]
    BY <1>4 DEF HearSayAck
  <2>2. outgoingSay' \in [Device -> Saying]
    <3>1. outgoingSay \in [Device -> Saying]
      BY DEF RematchTyped, NotesTyped, NoteOK
    <3>2. [outgoingSay EXCEPT ![d].pending = FALSE] \in [Device -> Saying]
      BY <3>1, SaidType
    <3> QED
      BY <2>1, <3>1, <3>2
  <2> QED
    BY <1>0, <2>1, <2>2 DEF RematchTyped, MovesTyped, NotesTyped, NoteOK, moveVars
<1> QED
  BY <1>1, <1>2, <1>3, <1>4 DEF Hear

LEMMA RetryTyped ==
  ASSUME RematchTyped, NEW d \in Device, Retry(d)
  PROVE  RematchTyped'
<1>0. PassTyped' /\ UNCHANGED rematchVars
  BY DEF Retry, RematchTyped, PassTyped, rematchVars, askVars
<1>1. CASE RetryState(d)
  <2> DEFINE q == StatePkt(d, outgoing[d].seq, outgoing[d].board)
  <2>1. TypedPkt(q)
    BY StatePktTyped DEF RematchTyped, MovesTyped, Kept
  <2>2. net' = net \cup {q} /\ UNCHANGED <<moveVars, noteVars, board>>
    BY <1>1 DEF RetryState, Send
  <2> HIDE DEF q
  <2> QED
    BY <1>0, <2>1, <2>2, SendTyped
<1>2. CASE RetrySay(d)
  <2> DEFINE q == SayPkt(d, outgoingSay[d].seq, outgoingSay[d].note)
  <2>1. TypedPkt(q)
    BY SayPktTyped DEF RematchTyped, NotesTyped, NoteOK, Saying
  <2>2. net' = net \cup {q} /\ UNCHANGED <<moveVars, noteVars, board>>
    BY <1>2 DEF RetrySay, Send
  <2> HIDE DEF q
  <2> QED
    BY <1>0, <2>1, <2>2, SendTyped
<1> QED
  BY <1>1, <1>2 DEF Retry

\* A board goes out, or nothing does.
LEMMA PlayTyped ==
  ASSUME RematchTyped, NEW d \in Device, NEW b \in Boards, PassTyped', board' \in [Device -> Boards],
         Play(d, b) \/ UNCHANGED <<moveVars, noteVars, net>>
  PROVE  RematchTyped'
<1>1. CASE UNCHANGED <<moveVars, noteVars, net>>
  BY <1>1 DEF RematchTyped, MovesTyped, NotesTyped, NoteOK, moveVars, noteVars
<1>2. CASE Play(d, b)
  <2> DEFINE q == StatePkt(d, sequence[d] + 1, b)
             o == [board |-> b, seq |-> sequence[d] + 1, pending |-> TRUE]
  <2>1. /\ UNCHANGED <<incoming, noteVars>> /\ net' = net \cup {q}
        /\ sequence' = [sequence EXCEPT ![d] = sequence[d] + 1]
        /\ outgoing' = [outgoing EXCEPT ![d] = o]
        /\ myTurn' = [myTurn EXCEPT ![d] = FALSE]
    BY <1>2 DEF Play, Send
  <2>2. sequence[d] + 1 \in Nat
    BY DEF RematchTyped, MovesTyped
  <2>3. TypedPkt(q)
    BY <2>2, StatePktTyped
  <2>4. o \in Kept
    BY <2>2 DEF Kept
  <2> HIDE DEF q, o
  <2>5. MovesTyped'
    BY <2>1, <2>2, <2>3, <2>4 DEF RematchTyped, MovesTyped, TypedPkt
  <2>6. NotesTyped'
    BY <2>1, <2>3 DEF RematchTyped, NotesTyped, NoteOK, noteVars, TypedPkt
  <2> QED
    BY <2>5, <2>6 DEF RematchTyped
<1> QED
  BY <1>1, <1>2

LEMMA OpeningTyped ==
  ASSUME NEW d \in Device, restarts' \in [Device -> Nat]
  PROVE  <<Opening>> \in Boards /\ <<DealBy(d)>> \in Boards /\ <<>> \in Boards
<1>1. Opening \in Nat /\ DealBy(d) \in Nat
  BY DEF Opening, DealBy
<1> HIDE DEF Opening, DealBy
<1> QED
  BY <1>1, EmptySeq DEF Boards

LEMMA StartTyped ==
  ASSUME RematchTyped, NEW d \in Device, NEW l, StartGame(d, l),
         pc' \in [Device -> Place], rematch' \in [Device -> BOOLEAN],
         you' \in [Device -> Answer], them' \in [Device -> Answer],
         restarts' \in [Device -> Nat]
  PROVE  RematchTyped'
<1> DEFINE deal == IF BothDeal THEN <<Opening>> ELSE <<DealBy(d)>>
<1>1. deal \in Boards /\ <<>> \in Boards
  BY OpeningTyped
<1>2. /\ seat' = [seat EXCEPT ![d] = SeatOf(l)]
      /\ board' = [board EXCEPT ![d] = IF l \/ BothDeal THEN deal
                                       ELSE IF FollowerClears THEN <<>> ELSE board[d]]
      /\ \/ Play(d, deal) /\ phase' = [phase EXCEPT ![d] = "TheirTurn"]
         \/ UNCHANGED <<moveVars, noteVars, net, phase>>
  BY DEF StartGame, SendBoard, SendNothing
<1> HIDE DEF deal
<1>3. seat' \in [Device -> {0, 1}]
  BY <1>2 DEF SeatOf, RematchTyped, PassTyped
<1>4. board' \in [Device -> Boards]
  BY <1>1, <1>2 DEF RematchTyped, MovesTyped
<1>5. phase' \in [Device -> Phase]
  BY <1>2 DEF RematchTyped, PassTyped, Phase
<1>6. PassTyped'
  BY <1>3, <1>5 DEF PassTyped
<1> QED
  BY <1>1, <1>2, <1>4, <1>6, PlayTyped

LEMMA RematchTypeStep ==
  ASSUME RematchTyped, NEW d \in Device, StepOf(d)
  PROVE  RematchTyped'
<1>1. CASE \E p \in net : Hear(d, p)
  BY <1>1, HearTyped
<1>2. CASE Retry(d)
  BY <1>2, RetryTyped
<1>3. CASE Update(d) \/ Question(d) \/ NoTap(d)
  <2>1. UNCHANGED vars
    BY <1>3 DEF Update, Question, NoTap
  <2>2. PassTyped'
    <3>1. CASE Update(d)
      <4>1. pc' \in [Device -> Place]
        BY <3>1 DEF Update, AfterNotes, AfterState, RematchTyped, PassTyped, Place
      <4>2. phase' \in [Device -> Phase]
        BY <3>1 DEF Update, RematchTyped, PassTyped, PhaseOf, Phase
      <4> QED
        BY <3>1, <4>1, <4>2 DEF Update, RematchTyped, PassTyped, askVars
    <3>2. CASE NoTap(d)
      BY <3>2 DEF NoTap, RematchTyped, PassTyped, Place, askVars
    <3>3. CASE Question(d)
      <4>1. /\ UNCHANGED <<phase, seat, restarts>> /\ pc' = [pc EXCEPT ![d] = "input"]
            /\ rematch' = [rematch EXCEPT ![d] = TRUE]
            /\ you' = [you EXCEPT ![d] = "Deciding"] /\ them' = [them EXCEPT ![d] = "Deciding"]
        BY <3>3 DEF Question
      <4>2. pc' \in [Device -> Place]
        BY <4>1 DEF RematchTyped, PassTyped, Place
      <4>3. rematch' \in [Device -> BOOLEAN] /\ you' \in [Device -> Answer] /\ them' \in [Device -> Answer]
        BY <4>1 DEF RematchTyped, PassTyped, Answer
      <4> QED
        BY <4>1, <4>2, <4>3 DEF RematchTyped, PassTyped
    <3> QED
      BY <1>3, <3>1, <3>2, <3>3
  <2> QED
    BY <2>1, <2>2, SendTyped DEF vars
<1>4. CASE MatchStart(d)
  <2>1. pc' \in [Device -> Place]
    BY <1>4 DEF MatchStart, AfterState, RematchTyped, PassTyped, Place
  <2> QED
    BY <1>4, <2>1, StartTyped DEF MatchStart, RematchTyped, PassTyped, askVars
<1>5. CASE HearAgain(d)
  <2>1. /\ UNCHANGED <<moveVars, outgoingSay, board, net>>
        /\ incomingSay' = [incomingSay EXCEPT ![d].pending = FALSE]
    BY <1>5 DEF HearAgain, TakeAnnouncement
  <2>2. incomingSay' \in [Device -> Saying]
    <3>1. incomingSay \in [Device -> Saying]
      BY DEF RematchTyped, NotesTyped, NoteOK
    <3> QED
      BY <2>1, <3>1, SaidType
  <2>3. PassTyped'
    <3>1. pc' \in [Device -> Place]
      BY <1>5 DEF HearAgain, AfterNotes, AfterState, RematchTyped, PassTyped, Place
    <3>2. rematch' \in [Device -> BOOLEAN]
      BY <1>5 DEF HearAgain, RematchTyped, PassTyped
    <3>3. you' \in [Device -> Answer] /\ them' \in [Device -> Answer]
      BY <1>5 DEF HearAgain, RematchTyped, PassTyped, Answer
    <3> QED
      BY <1>5, <3>1, <3>2, <3>3 DEF HearAgain, RematchTyped, PassTyped
  <2> QED
    BY <2>1, <2>2, <2>3 DEF RematchTyped, MovesTyped, NotesTyped, NoteOK, moveVars
<1>6. CASE StartRematch(d)
  <2>1. /\ pc' \in [Device -> Place] /\ rematch' \in [Device -> BOOLEAN]
        /\ you' \in [Device -> Answer] /\ them' \in [Device -> Answer]
        /\ restarts' \in [Device -> Nat]
    <3>1. pc' \in [Device -> Place]
      BY <1>6 DEF StartRematch, AfterNotes, AfterState, RematchTyped, PassTyped, Place
    <3> QED
      BY <1>6, <3>1 DEF StartRematch, RematchTyped, PassTyped, Answer
  <2> QED
    BY <1>6, <2>1, StartTyped DEF StartRematch
<1>7. CASE TakeState(d)
  <2>1. /\ UNCHANGED <<myTurn, sequence, outgoing, noteVars, net>>
        /\ incoming' = [incoming EXCEPT ![d].pending = FALSE]
        /\ board' = [board EXCEPT ![d] = incoming[d].board]
    BY <1>7 DEF TakeState, TakeIncoming
  <2>2. incoming[d].board \in Boards /\ [incoming[d] EXCEPT !.pending = FALSE] \in Waits
    <3>1. incoming[d] \in Waits
      BY DEF RematchTyped, MovesTyped
    <3> QED
      BY <3>1 DEF Waits
  <2>3. incoming' \in [Device -> Waits] /\ board' \in [Device -> Boards]
    BY <2>1, <2>2 DEF RematchTyped, MovesTyped
  <2>4. PassTyped'
    <3>1. pc' \in [Device -> Place]
      BY <1>7 DEF TakeState, AfterState, RematchTyped, PassTyped, Place
    <3>2. phase' \in [Device -> Phase]
      BY <1>7 DEF TakeState, RematchTyped, PassTyped, Phase
    <3> QED
      BY <1>7, <3>1, <3>2 DEF TakeState, RematchTyped, PassTyped, askVars
  <2> QED
    BY <2>1, <2>3, <2>4 DEF RematchTyped, MovesTyped, NotesTyped, NoteOK, noteVars
<1>8. CASE PassTurn(d)
  <2>1. PassTyped' /\ board[d] \in Boards /\ board' \in [Device -> Boards]
    <3>1. pc' \in [Device -> Place]
      BY <1>8 DEF PassTurn, AfterState, RematchTyped, PassTyped, Place
    <3>2. phase' \in [Device -> Phase]
      BY <1>8 DEF PassTurn, SendBoard, RematchTyped, PassTyped, Phase
    <3> QED
      BY <1>8, <3>1, <3>2 DEF PassTurn, RematchTyped, PassTyped, MovesTyped, askVars
  <2> QED
    BY <1>8, <2>1, PlayTyped DEF PassTurn, SendBoard
<1>9. CASE ProposeRematch(d)
  <2> DEFINE s == outgoingSay[d].seq + 1
             q == SayPkt(d, s, PlayAgain)
             o == [note |-> PlayAgain, seq |-> s, pending |-> TRUE]
  <2>1. /\ UNCHANGED <<moveVars, incomingSay, board>>
        /\ outgoingSay' = [outgoingSay EXCEPT ![d] = o] /\ net' = net \cup {q}
    BY <1>9 DEF ProposeRematch, Announce, Send
  <2>2. s \in Nat /\ PlayAgain \in Note /\ outgoingSay \in [Device -> Saying]
    BY RematchAssumption DEF RematchTyped, NotesTyped, NoteOK, Saying
  <2>3. TypedPkt(q) /\ o \in Saying
    BY <2>2, SayPktTyped DEF Saying
  <2>4. PassTyped'
    <3>1. /\ UNCHANGED <<phase, seat, restarts>> /\ you' = [you EXCEPT ![d] = "Ready"]
          /\ pc' = [pc EXCEPT ![d] = "accepted"] \/ pc' = [pc EXCEPT ![d] = "tick"]
          /\ rematch' = rematch \/ rematch' = [rematch EXCEPT ![d] = TRUE]
          /\ them' = them \/ them' = [them EXCEPT ![d] = "Deciding"]
      BY <1>9 DEF ProposeRematch
    <3>2. pc' \in [Device -> Place]
      BY <3>1 DEF RematchTyped, PassTyped, Place
    <3>3. rematch' \in [Device -> BOOLEAN]
      BY <3>1 DEF RematchTyped, PassTyped
    <3>4. you' \in [Device -> Answer]
      BY <3>1 DEF RematchTyped, PassTyped, Answer
    <3>5. them' \in [Device -> Answer]
      BY <3>1 DEF RematchTyped, PassTyped, Answer
    <3> QED
      BY <3>1, <3>2, <3>3, <3>4, <3>5 DEF RematchTyped, PassTyped
  <2> HIDE DEF q, o
  <2> QED
    BY <2>1, <2>2, <2>3, <2>4 DEF RematchTyped, MovesTyped, NotesTyped, NoteOK, TypedPkt, moveVars
<1>10. ASSUME NEW m \in Seat \cup {RoundOver, GameOver}, Tap(d, m) PROVE RematchTyped'
  <2> DEFINE b == Append(board[d], m)
  <2>1. board' = [board EXCEPT ![d] = b] /\ Play(d, board'[d]) /\ board \in [Device -> Boards]
    BY <1>10 DEF Tap, SendBoard, RematchTyped, MovesTyped
  <2>2. b \in Boards
    BY OneMoveMore DEF RematchTyped, MovesTyped
  <2> HIDE DEF b
  <2>3. board' \in [Device -> Boards] /\ board'[d] = b
    BY <2>1, <2>2
  <2>4. PassTyped'
    BY <1>10 DEF Tap, SendBoard, RematchTyped, PassTyped, Place, Phase, askVars
  <2> QED
    BY <2>1, <2>2, <2>3, <2>4, PlayTyped
<1> QED
  BY <1>1, <1>2, <1>3, <1>4, <1>5, <1>6, <1>7, <1>8, <1>9, <1>10 DEF StepOf

LEMMA RematchTypeNext == RematchTyped /\ [RematchNext]_allVars => RematchTyped'
<1>1. RematchTyped /\ UNCHANGED allVars => RematchTyped'
  <2> SUFFICES ASSUME RematchTyped, UNCHANGED allVars PROVE RematchTyped'
    OBVIOUS
  <2>1. PassTyped' /\ UNCHANGED vars
    BY DEF allVars, rematchVars, askVars, RematchTyped, PassTyped
  <2> QED
    BY <2>1, SendTyped DEF vars
<1> QED
  BY <1>1, RematchTypeStep DEF RematchNext, StepOf

LEMMA LeftoverTyped == ASSUME NEW d \in Device PROVE Leftover(d) \subseteq Boards
<1>1. 10 * d + 9 \in Nat /\ GameOver \in Nat
  BY DEF GameOver
<1> DEFINE n == 10 * d + 9
<1> HIDE DEF n
<1>2. Leftover(d) = {<<>>, <<n>>, <<n, GameOver>>}
  BY DEF Leftover, n
<1>3. n \in Nat
  BY <1>1 DEF n
<1> QED
  BY <1>1, <1>2, <1>3, EmptySeq DEF Boards

LEMMA RematchTypeInit == RematchInit => RematchTyped
<1> SUFFICES ASSUME RematchInit PROVE RematchTyped
  OBVIOUS
<1>1. PassTyped
  BY DEF RematchInit, PassTyped, Place, Phase, Answer
<1>2. <<>> \in Boards
  BY EmptySeq DEF Boards
<1>3. NoOutgoing \in Kept /\ NoIncoming \in Waits /\ NoSay \in Saying
  BY <1>2 DEF NoOutgoing, NoIncoming, NoSay, Kept, Waits, Saying
<1>4. board \in [Device -> Boards]
  <2>1. board \in [Device -> UNION {Leftover(d) : d \in Device}]
    BY DEF RematchInit
  <2> QED
    BY <2>1, LeftoverTyped
<1>5. MovesTyped
  BY <1>3, <1>4 DEF RematchInit, MovesTyped
<1>6. NotesTyped
  BY <1>3 DEF RematchInit, NotesTyped, NoteOK
<1> QED
  BY <1>1, <1>5, <1>6 DEF RematchTyped

LEMMA RematchTypes == RematchSpec => []RematchTyped
  BY RematchTypeInit, RematchTypeNext, PTL DEF RematchSpec

-----------------------------------------------------------------------------
(* The rematch conversation.                                               *)
-----------------------------------------------------------------------------
(* The rematch conversation.                                               *)

\* The two devices are matched with each other.
Paired == \A d \in Device : state[d] = "Playing" /\ peer[d] \in Device \ {d}

\* Whoever answered yes asked, and a device starts a game only on two answers.
Asked ==
  \A d \in Device :
    /\ you[d] = "Ready" => rematch[d]
    /\ pc[d] \in {"agreed", "accepted"} => you[d] = "Ready" /\ them[d] = "Ready"

\* A device has said at least one note for every game it started and for the yes
\* it waits on, and heard at least one for every game it started, for the yes it
\* shows and the one it has not taken.  More, if a question was repeated.
One(P) == IF P THEN 1 ELSE 0

Counted ==
  \A d \in Device :
    /\ restarts[d] + One(you[d] = "Ready") <= outgoingSay[d].seq
    /\ restarts[d] + One(them[d] = "Ready") + One(incomingSay[d].pending) <= incomingSay[d].seq

TalkInv == NoteInv /\ Paired /\ Asked /\ Counted

LEMMA PairIsMutual ==
  ASSUME Paired, NEW a \in Device, NEW b \in Device, a # b
  PROVE  Mutual(a, b)
<1>1. Device = {a, b}
  BY RematchAssumption
<1> QED
  BY <1>1 DEF Paired, Mutual

\* What a device has heard, the other has said.
LEMMA YesFromCounts == RematchTyped /\ TalkInv => YesPerGame
<1> SUFFICES ASSUME RematchTyped, TalkInv, NEW a \in Device, NEW b \in Device
             PROVE  restarts[a] <= outgoingSay[b].seq
  BY DEF YesPerGame
<1>1. restarts[a] \in Nat /\ incomingSay[a].seq \in Nat /\ outgoingSay[b].seq \in Nat
  BY NoteNumbers DEF RematchTyped, PassTyped
<1>2. CASE a = b
  BY <1>1, <1>2 DEF TalkInv, Counted, One
<1>3. CASE a # b
  <2>1. incomingSay[a].seq <= outgoingSay[b].seq
    BY <1>3, PairIsMutual DEF TalkInv, NoteInv, NoteReachesPeer
  <2>2. restarts[a] <= incomingSay[a].seq
    BY <1>1 DEF TalkInv, Counted, One
  <2> QED
    BY <1>1, <2>1, <2>2
<1> QED
  BY <1>2, <1>3

LEMMA TalkInit == RematchInit => TalkInv
<1> SUFFICES ASSUME RematchInit PROVE TalkInv
  OBVIOUS
<1>1. \A d \in Device : \E e \in Device : e # d
  BY RematchAssumption
<1>2. Paired
  <2> SUFFICES ASSUME NEW d \in Device PROVE state[d] = "Playing" /\ peer[d] \in Device \ {d}
    BY DEF Paired
  <2>1. state[d] = "Playing" /\ peer[d] = CHOOSE e \in Device : e # d
    BY DEF RematchInit
  <2>2. (CHOOSE e \in Device : e # d) \in Device \ {d}
    BY <1>1
  <2> QED
    BY <2>1, <2>2
<1>3. Asked /\ Counted
  BY DEF RematchInit, Asked, Counted, NoSay, One
<1>4. NoteInv
  BY DEF RematchInit, NoteInv, NoteOnAir, NoteEntering, NoteReachesPeer, NoSay, Entering
<1> QED
  BY <1>2, <1>3, <1>4 DEF TalkInv

\* A step that says nothing, hears nothing and answers nothing.
LEMMA TalkSame ==
  ASSUME RematchTyped, TalkInv, NEW d \in Device, NEW x \in Place \ {"agreed", "accepted"},
         UNCHANGED <<state, peer, noteVars, askVars, restarts>>,
         pc' = pc \/ pc' = [pc EXCEPT ![d] = x],
         \A p \in net' : p \in net \/ p.type \notin {"Say", "SayAck"} \/ GoodNote(p)
  PROVE  TalkInv'
<1>1. NoteInv'
  BY NoteSame DEF TalkInv, RematchTyped
<1>2. Paired'
  BY DEF TalkInv, Paired
<1>3. Asked'
  BY DEF TalkInv, Asked, RematchTyped, PassTyped, askVars
<1>4. Counted'
  BY DEF TalkInv, Counted, askVars, noteVars
<1> QED
  BY <1>1, <1>2, <1>3, <1>4 DEF TalkInv

\* A note is heard: one more waits than before, or the same.
LEMMA TalkHear ==
  ASSUME RematchTyped, RematchTyped', TalkInv, NEW d \in Device, NEW p \in net, HearSay(d, p),
         UNCHANGED <<pc, askVars, restarts>>
  PROVE  TalkInv'
<1>1. /\ UNCHANGED <<state, peer, outgoingSay>>
      /\ \/ p.seq > incomingSay[d].seq
            /\ incomingSay' = [incomingSay EXCEPT ![d] = [note |-> p.note, seq |-> p.seq, pending |-> TRUE]]
         \/ incomingSay' = incomingSay
  BY DEF HearSay, lifeVars
<1>2. NoteInv'
  BY NoteHear DEF TalkInv, RematchTyped
<1>3. Paired' /\ Asked'
  BY <1>1 DEF TalkInv, Paired, Asked, askVars
<1>4. Counted'
  <2> SUFFICES ASSUME NEW e \in Device
               PROVE  restarts[e] + One(them[e] = "Ready") + One(incomingSay'[e].pending)
                        <= incomingSay'[e].seq
    BY <1>1 DEF TalkInv, Counted, askVars
  <2>1. /\ restarts[e] + One(them[e] = "Ready") + One(incomingSay[e].pending) <= incomingSay[e].seq
        /\ restarts[e] \in Nat /\ incomingSay[e].seq \in Nat /\ incomingSay'[e].seq \in Nat
    BY NoteNumbers DEF TalkInv, Counted, RematchTyped, PassTyped, NotesTyped, NoteOK, Saying
  <2>2. incomingSay'[e] = incomingSay[e] \/ incomingSay'[e].seq > incomingSay[e].seq
    BY <1>1 DEF RematchTyped, NotesTyped, NoteOK
  <2> QED
    BY <2>1, <2>2 DEF One
<1> QED
  BY <1>2, <1>3, <1>4 DEF TalkInv

LEMMA TalkAcked ==
  ASSUME RematchTyped, TalkInv, NEW d \in Device, NEW p \in net, HearSayAck(d, p),
         UNCHANGED <<pc, askVars, restarts>>
  PROVE  TalkInv'
<1>1. /\ UNCHANGED <<state, peer, incomingSay>>
      /\ outgoingSay' = outgoingSay \/ outgoingSay' = [outgoingSay EXCEPT ![d].pending = FALSE]
  BY DEF HearSayAck, lifeVars
<1>2. \A e \in Device : outgoingSay'[e].seq = outgoingSay[e].seq
  BY <1>1 DEF RematchTyped, NotesTyped, NoteOK, Saying
<1>3. NoteInv'
  BY NoteAcked DEF TalkInv, RematchTyped
<1>4. Paired' /\ Asked' /\ Counted'
  BY <1>1, <1>2 DEF TalkInv, Paired, Asked, Counted, askVars
<1> QED
  BY <1>3, <1>4 DEF TalkInv

\* Saying yes: one more note, and a yes to wait on, the same one if it is said
\* again.
LEMMA TalkAsk ==
  ASSUME RematchTyped, RematchTyped', TalkInv, NEW d \in Device, ProposeRematch(d)
  PROVE  TalkInv'
<1>1. /\ UNCHANGED <<state, peer, incomingSay, restarts>>
      /\ outgoingSay' = [outgoingSay EXCEPT ![d] =
                           [note |-> PlayAgain, seq |-> outgoingSay[d].seq + 1, pending |-> TRUE]]
      /\ you' = [you EXCEPT ![d] = "Ready"]
      /\ \/ /\ rematch[d] /\ them[d] = "Ready" /\ pc' = [pc EXCEPT ![d] = "accepted"]
            /\ UNCHANGED <<rematch, them>>
         \/ /\ pc' = [pc EXCEPT ![d] = "tick"]
            /\ rematch' = [rematch EXCEPT ![d] = TRUE]
            /\ them' = [them EXCEPT ![d] = "Deciding"]
  BY DEF ProposeRematch, Announce, TheyAgreed, lifeVars, matchVars
<1>2. NoteInv'
  BY NoteSaid DEF TalkInv, RematchTyped, ProposeRematch
<1>3. Paired' /\ Asked'
  BY <1>1 DEF TalkInv, Paired, Asked, RematchTyped, PassTyped
<1>4. Counted'
  <2> SUFFICES ASSUME NEW e \in Device
               PROVE  /\ restarts[e] + One(you'[e] = "Ready") <= outgoingSay'[e].seq
                      /\ restarts[e] + One(them'[e] = "Ready") + One(incomingSay[e].pending)
                           <= incomingSay[e].seq
    BY <1>1 DEF Counted
  <2>1. /\ restarts[e] + One(you[e] = "Ready") <= outgoingSay[e].seq
        /\ restarts[e] + One(them[e] = "Ready") + One(incomingSay[e].pending) <= incomingSay[e].seq
        /\ restarts[e] \in Nat /\ incomingSay[e].seq \in Nat /\ outgoingSay[e].seq \in Nat
    BY NoteNumbers DEF TalkInv, Counted, RematchTyped, PassTyped
  <2>2. CASE e = d
    <3>1. outgoingSay'[e].seq = outgoingSay[e].seq + 1 /\ you'[e] = "Ready"
      BY <1>1, <2>2 DEF RematchTyped, PassTyped, NotesTyped, NoteOK
    <3>2. them'[e] = them[e] \/ them'[e] = "Deciding"
      BY <1>1, <2>2 DEF RematchTyped, PassTyped
    <3> QED
      BY <2>1, <3>1, <3>2 DEF One
  <2>3. CASE e # d
    <3>1. outgoingSay'[e] = outgoingSay[e] /\ you'[e] = you[e] /\ them'[e] = them[e]
      BY <1>1, <2>3 DEF RematchTyped, PassTyped, NotesTyped, NoteOK
    <3> QED
      BY <2>1, <3>1
  <2> QED
    BY <2>2, <2>3
<1> QED
  BY <1>2, <1>3, <1>4 DEF TalkInv

\* Taking the other player's yes: it waits no longer, it shows.
LEMMA TalkTake ==
  ASSUME RematchTyped, TalkInv, NEW d \in Device, HearAgain(d)
  PROVE  TalkInv'
<1>1. /\ UNCHANGED <<state, peer, outgoingSay, restarts>>
      /\ incomingSay[d].pending
      /\ incomingSay' = [incomingSay EXCEPT ![d].pending = FALSE]
      /\ them' = [them EXCEPT ![d] = "Ready"] /\ rematch' = [rematch EXCEPT ![d] = TRUE]
      /\ \/ you[d] = "Ready" /\ pc' = [pc EXCEPT ![d] = "agreed"] /\ you' = you
         \/ /\ you[d] # "Ready" /\ \E x \in {"take", "question", "input"} : pc' = [pc EXCEPT ![d] = x]
            /\ you' = [you EXCEPT ![d] = "Deciding"]
  BY DEF HearAgain, AfterNotes, AfterState, TakeAnnouncement, lifeVars, matchVars
<1>2. \A e \in Device : incomingSay'[e].seq = incomingSay[e].seq
  BY <1>1 DEF RematchTyped, NotesTyped, NoteOK, Saying
<1>3. NoteInv'
  BY NoteTaken DEF TalkInv, RematchTyped, HearAgain
<1>4. Paired' /\ Asked'
  BY <1>1 DEF TalkInv, Paired, Asked, RematchTyped, PassTyped
<1>5. Counted'
  <2> SUFFICES ASSUME NEW e \in Device
               PROVE  /\ restarts[e] + One(you'[e] = "Ready") <= outgoingSay[e].seq
                      /\ restarts[e] + One(them'[e] = "Ready") + One(incomingSay'[e].pending)
                           <= incomingSay[e].seq
    BY <1>1, <1>2 DEF Counted
  <2>1. /\ restarts[e] + One(you[e] = "Ready") <= outgoingSay[e].seq
        /\ restarts[e] + One(them[e] = "Ready") + One(incomingSay[e].pending) <= incomingSay[e].seq
        /\ restarts[e] \in Nat /\ incomingSay[e].seq \in Nat /\ outgoingSay[e].seq \in Nat
    BY NoteNumbers DEF TalkInv, Counted, RematchTyped, PassTyped
  <2>2. CASE e = d
    <3>1. ~incomingSay'[e].pending /\ incomingSay[e].pending
      BY <1>1, <2>2 DEF RematchTyped, NotesTyped, NoteOK, Saying
    <3>2. (you'[e] = "Ready") = (you[e] = "Ready")
      BY <1>1, <2>2 DEF RematchTyped, PassTyped
    <3> QED
      BY <2>1, <3>1, <3>2 DEF One
  <2>3. CASE e # d
    <3>1. incomingSay'[e] = incomingSay[e] /\ you'[e] = you[e] /\ them'[e] = them[e]
      BY <1>1, <2>3 DEF RematchTyped, PassTyped, NotesTyped, NoteOK
    <3> QED
      BY <2>1, <3>1
  <2> QED
    BY <2>2, <2>3
<1> QED
  BY <1>3, <1>4, <1>5 DEF TalkInv

\* The next game starts on two answers, and uses both up.
LEMMA TalkStart ==
  ASSUME RematchTyped, TalkInv, NEW d \in Device, StartRematch(d)
  PROVE  TalkInv'
<1>1. /\ pc[d] \in {"agreed", "accepted"}
      /\ rematch' = [rematch EXCEPT ![d] = FALSE]
      /\ you' = [you EXCEPT ![d] = "Deciding"] /\ them' = [them EXCEPT ![d] = "Deciding"]
      /\ restarts' = [restarts EXCEPT ![d] = restarts[d] + 1]
      /\ \E x \in {"take", "question", "input", "tick"} : pc' = [pc EXCEPT ![d] = x]
  BY DEF StartRematch, AfterNotes, AfterState
<1>2. UNCHANGED <<state, peer, noteVars>> /\ \A p \in net' : p \in net \/ p.type = "State"
  <2>1. (\E b : Play(d, b)) \/ UNCHANGED <<idleVars, noteVars, net>>
    BY DEF StartRematch, StartGame, SendBoard, SendNothing
  <2> QED
    BY <2>1 DEF Play, Send, StatePkt, Pkt, idleVars, lifeVars, matchVars
<1>3. NoteInv'
  BY <1>2, NoteSame DEF TalkInv, RematchTyped
<1>4. Paired' /\ Asked'
  BY <1>1, <1>2 DEF TalkInv, Paired, Asked, RematchTyped, PassTyped
<1>5. Counted'
  <2> SUFFICES ASSUME NEW e \in Device
               PROVE  /\ restarts'[e] + One(you'[e] = "Ready") <= outgoingSay[e].seq
                      /\ restarts'[e] + One(them'[e] = "Ready") + One(incomingSay[e].pending)
                           <= incomingSay[e].seq
    BY <1>2 DEF Counted, noteVars
  <2>1. /\ restarts[e] + One(you[e] = "Ready") <= outgoingSay[e].seq
        /\ restarts[e] + One(them[e] = "Ready") + One(incomingSay[e].pending) <= incomingSay[e].seq
        /\ restarts[e] \in Nat /\ incomingSay[e].seq \in Nat /\ outgoingSay[e].seq \in Nat
    BY NoteNumbers DEF TalkInv, Counted, RematchTyped, PassTyped
  <2>2. CASE e = d
    <3>1. you[e] = "Ready" /\ them[e] = "Ready"
      BY <1>1, <2>2 DEF TalkInv, Asked
    <3>2. you'[e] = "Deciding" /\ them'[e] = "Deciding" /\ restarts'[e] = restarts[e] + 1
      BY <1>1, <2>2 DEF RematchTyped, PassTyped
    <3> QED
      BY <2>1, <3>1, <3>2 DEF One
  <2>3. CASE e # d
    <3>1. restarts'[e] = restarts[e] /\ you'[e] = you[e] /\ them'[e] = them[e]
      BY <1>1, <2>3 DEF RematchTyped, PassTyped
    <3> QED
      BY <2>1, <3>1
  <2> QED
    BY <2>2, <2>3
<1> QED
  BY <1>3, <1>4, <1>5 DEF TalkInv

\* A question over a finished game leaves no answer standing.
LEMMA TalkQuestion ==
  ASSUME RematchTyped, TalkInv, NEW d \in Device, Question(d)
  PROVE  TalkInv'
<1>1. /\ rematch' = [rematch EXCEPT ![d] = TRUE]
      /\ you' = [you EXCEPT ![d] = "Deciding"] /\ them' = [them EXCEPT ![d] = "Deciding"]
      /\ pc' = [pc EXCEPT ![d] = "input"]
      /\ UNCHANGED <<vars, restarts>>
  BY DEF Question
<1>2. NoteInv'
  BY <1>1, NoteSame DEF TalkInv, RematchTyped, vars, lifeVars, matchVars
<1>3. Paired' /\ Asked'
  BY <1>1 DEF TalkInv, Paired, Asked, RematchTyped, PassTyped, vars, lifeVars, matchVars
<1>4. Counted'
  <2> SUFFICES ASSUME NEW e \in Device
               PROVE  /\ restarts[e] + One(you'[e] = "Ready") <= outgoingSay[e].seq
                      /\ restarts[e] + One(them'[e] = "Ready") + One(incomingSay[e].pending)
                           <= incomingSay[e].seq
    BY <1>1 DEF Counted, vars, noteVars
  <2>1. /\ restarts[e] + One(you[e] = "Ready") <= outgoingSay[e].seq
        /\ restarts[e] + One(them[e] = "Ready") + One(incomingSay[e].pending) <= incomingSay[e].seq
        /\ restarts[e] \in Nat /\ incomingSay[e].seq \in Nat /\ outgoingSay[e].seq \in Nat
    BY NoteNumbers DEF TalkInv, Counted, RematchTyped, PassTyped
  <2>2. /\ you'[e] = you[e] \/ you'[e] = "Deciding"
        /\ them'[e] = them[e] \/ them'[e] = "Deciding"
    BY <1>1 DEF RematchTyped, PassTyped
  <2> QED
    BY <2>1, <2>2 DEF One
<1> QED
  BY <1>2, <1>3, <1>4 DEF TalkInv

LEMMA TalkStep ==
  ASSUME RematchTyped, RematchTyped', TalkInv, NEW d \in Device, StepOf(d)
  PROVE  TalkInv'
<1>0. {"notes", "take", "question", "input", "tick", "pass"} \subseteq Place \ {"agreed", "accepted"}
  BY DEF Place
<1>1. ASSUME NEW p \in net, Hear(d, p) PROVE TalkInv'
  <2>0. UNCHANGED <<pc, askVars, restarts>>
    BY <1>1 DEF Hear, rematchVars
  <2>1. CASE HearState(d, p)
    <3>1. UNCHANGED <<state, peer, noteVars>> /\ \A q \in net' : q \in net \/ q.type = "Ack"
      BY <2>1 DEF HearState, AckCopy, Send, Pkt, lifeVars
    <3> QED
      BY <1>0, <2>0, <3>1, TalkSame
  <2>2. CASE HearAck(d, p)
    <3>1. UNCHANGED <<state, peer, noteVars, net>>
      BY <2>2 DEF HearAck, lifeVars
    <3> QED
      BY <1>0, <2>0, <3>1, TalkSame
  <2>3. CASE HearSay(d, p)
    BY <2>0, <2>3, TalkHear
  <2>4. CASE HearSayAck(d, p)
    BY <2>0, <2>4, TalkAcked
  <2> QED
    BY <1>1, <2>1, <2>2, <2>3, <2>4 DEF Hear
<1>2. CASE Retry(d)
  <2>0. UNCHANGED <<pc, askVars, restarts>>
    BY <1>2 DEF Retry, rematchVars
  <2>1. CASE RetryState(d)
    <3>1. UNCHANGED <<state, peer, noteVars>> /\ \A q \in net' : q \in net \/ q.type = "State"
      BY <2>1 DEF RetryState, Send, StatePkt, Pkt, lifeVars, matchVars
    <3> QED
      BY <1>0, <2>0, <3>1, TalkSame
  <2>2. CASE RetrySay(d)
    <3> DEFINE q == SayPkt(d, outgoingSay[d].seq, outgoingSay[d].note)
    <3>1. GoodNote(q)
      BY <2>2 DEF GoodNote, SayPkt, Pkt, RetrySay
    <3>2. UNCHANGED <<state, peer, noteVars>> /\ net' = net \cup {q}
      BY <2>2 DEF RetrySay, Send, lifeVars, matchVars
    <3> HIDE DEF q
    <3> QED
      BY <1>0, <2>0, <3>1, <3>2, TalkSame
  <2> QED
    BY <1>2, <2>1, <2>2 DEF Retry
<1>3. CASE Update(d) \/ NoTap(d)
  <2>1. /\ UNCHANGED <<vars, askVars, restarts>>
        /\ \E x \in {"notes", "take", "question", "input", "tick"} : pc' = [pc EXCEPT ![d] = x]
    BY <1>3 DEF Update, AfterNotes, AfterState, NoTap
  <2>2. UNCHANGED <<state, peer, noteVars, net>>
    BY <2>1 DEF vars, lifeVars, matchVars
  <2> QED
    BY <1>0, <2>1, <2>2, TalkSame
<1>4. CASE MatchStart(d) \/ PassTurn(d) \/ \E m \in Seat \cup {RoundOver, GameOver} : Tap(d, m)
  <2>1. /\ (\E b : Play(d, b)) \/ UNCHANGED <<idleVars, noteVars, net>>
        /\ UNCHANGED <<askVars, restarts>>
        /\ \E x \in {"question", "input", "tick"} : pc' = [pc EXCEPT ![d] = x]
    BY <1>4 DEF MatchStart, AfterState, StartGame, PassTurn, Tap, SendBoard, SendNothing
  <2>2. UNCHANGED <<state, peer, noteVars>> /\ \A p \in net' : p \in net \/ p.type = "State"
    BY <2>1 DEF Play, Send, StatePkt, Pkt, idleVars, lifeVars, matchVars
  <2> QED
    BY <1>0, <2>1, <2>2, TalkSame
<1>5. CASE TakeState(d)
  <2>1. /\ UNCHANGED <<state, peer, noteVars, net, askVars, restarts>>
        /\ \E x \in {"pass", "question", "input"} : pc' = [pc EXCEPT ![d] = x]
    BY <1>5 DEF TakeState, AfterState, TakeIncoming, lifeVars, matchVars
  <2> QED
    BY <1>0, <2>1, TalkSame
<1>6. CASE HearAgain(d)
  BY <1>6, TalkTake
<1>7. CASE StartRematch(d)
  BY <1>7, TalkStart
<1>8. CASE Question(d)
  BY <1>8, TalkQuestion
<1>9. CASE ProposeRematch(d)
  BY <1>9, TalkAsk
<1> QED
  BY <1>1, <1>2, <1>3, <1>4, <1>5, <1>6, <1>7, <1>8, <1>9 DEF StepOf

LEMMA TalkNext ==
         RematchTyped /\ RematchTyped' /\ TalkInv /\ [RematchNext]_allVars => TalkInv'
<1>1. RematchTyped /\ TalkInv /\ UNCHANGED allVars => TalkInv'
  <2> SUFFICES ASSUME RematchTyped, TalkInv, UNCHANGED allVars PROVE TalkInv'
    OBVIOUS
  <2>1. UNCHANGED <<state, peer, noteVars, askVars, restarts, pc, net>>
    BY DEF allVars, vars, lifeVars, matchVars, rematchVars
  <2>2. Asked' /\ Counted' /\ Paired'
    BY <2>1 DEF TalkInv, Asked, Counted, Paired, askVars, noteVars
  <2> QED
    BY <2>1, <2>2, NoteSame DEF TalkInv, RematchTyped
<1> QED
  BY <1>1, TalkStep DEF RematchNext, StepOf

LEMMA TalkAlways == RematchSpec => []TalkInv
  BY TalkInit, TalkNext, RematchTypes, PTL DEF RematchSpec

\* A device has never started more games of a match than either player has said
\* yes to, though each answer travels as a note that may be late, repeated or
\* overtaken, and a question may be asked again (LinkActivity.cpp:151-154).
THEOREM GamesAgreed == RematchSpec => []YesPerGame
  BY YesFromCounts, TalkAlways, RematchTypes, PTL

\* In a match of several games too, a note stops being retried only once the
\* peer has it, however often the players ask (Session::announce).
THEOREM MatchNotesReach == RematchSpec => []NoteReachesPeer
<1>1. TalkInv => NoteReachesPeer
  BY DEF TalkInv, NoteInv
<1> QED
  BY <1>1, TalkAlways, PTL

-----------------------------------------------------------------------------
(* Whose turn it is.                                                       *)

\* The turn is with one device, or it is in the state that is being retried.
TurnLaw ==
  /\ \A a, b \in Device :
       /\ a # b /\ sequence[a] = sequence[b] => myTurn[a] # myTurn[b]
       /\ sequence[a] > sequence[b] =>
            /\ sequence[a] = sequence[b] + 1 /\ ~myTurn[a] /\ ~myTurn[b]
            /\ outgoing[a].pending /\ outgoing[a].seq = sequence[a]
  /\ \A d \in Device : outgoing[d].seq <= sequence[d]
  /\ \A p \in net : p.type \in {"State", "Ack"} => p.seq <= sequence[p.from]

LEMMA TurnInit == RematchInit => TurnLaw
<1> SUFFICES ASSUME RematchInit PROVE TurnLaw
  OBVIOUS
<1>1. PICK host \in Device : myTurn = [d \in Device |-> d = host]
  BY DEF RematchInit
<1>2. \A d \in Device : myTurn[d] = (d = host) /\ sequence[d] = 0 /\ outgoing[d].seq = 0
  BY <1>1 DEF RematchInit, NoOutgoing
<1>3. \A a, b \in Device : a # b => myTurn[a] # myTurn[b]
  <2> SUFFICES ASSUME NEW a \in Device, NEW b \in Device, a # b PROVE myTurn[a] # myTurn[b]
    OBVIOUS
  <2>1. a = host \/ b = host
    BY RematchAssumption
  <2> QED
    BY <1>2, <2>1
<1>4. net = {}
  BY DEF RematchInit
<1> QED
  BY <1>2, <1>3, <1>4 DEF TurnLaw

LEMMA MoveNumbers ==
  ASSUME MovesTyped, NEW d \in Device
  PROVE  /\ sequence[d] \in Nat /\ outgoing[d].seq \in Nat /\ myTurn[d] \in BOOLEAN
         /\ outgoing[d].pending \in BOOLEAN /\ incoming[d].pending \in BOOLEAN
  BY DEF MovesTyped, Kept, Waits

\* A step that makes, hears and acknowledges no move.
LEMMA TurnSame ==
  ASSUME TurnLaw, UNCHANGED <<myTurn, sequence, outgoing>>,
         \A p \in net' : p \in net \/ p.type \notin {"State", "Ack"} \/ p.seq <= sequence[p.from]
  PROVE  TurnLaw'
  BY DEF TurnLaw

\* Who plays had the turn, so the other device is not behind.
LEMMA TurnPlay ==
  ASSUME RematchTyped, TurnLaw, NEW d \in Device, NEW b, Play(d, b)
  PROVE  TurnLaw'
<1> DEFINE q == StatePkt(d, sequence[d] + 1, b)
           o == [board |-> b, seq |-> sequence[d] + 1, pending |-> TRUE]
<1>1. /\ myTurn[d] /\ net' = net \cup {q}
      /\ sequence' = [sequence EXCEPT ![d] = sequence[d] + 1]
      /\ outgoing' = [outgoing EXCEPT ![d] = o]
      /\ myTurn' = [myTurn EXCEPT ![d] = FALSE]
  BY DEF Play, MayPlay, Send
<1>2. q.seq = sequence[d] + 1 /\ q.from = d /\ o.seq = sequence[d] + 1 /\ o.pending
  BY DEF StatePkt, Pkt
<1> HIDE DEF q, o
<1>3. \A e \in Device : /\ sequence[e] \in Nat /\ outgoing[e].seq \in Nat /\ myTurn[e] \in BOOLEAN
  BY MoveNumbers DEF RematchTyped
<1>4. /\ sequence'[d] = sequence[d] + 1 /\ outgoing'[d] = o /\ myTurn'[d] = FALSE
      /\ \A e \in Device \ {d} : sequence'[e] = sequence[e] /\ outgoing'[e] = outgoing[e] /\ myTurn'[e] = myTurn[e]
  BY <1>1 DEF RematchTyped, MovesTyped
<1>5. \A e \in Device \ {d} : sequence[e] = sequence[d] /\ ~myTurn[e]
  BY <1>1, <1>3 DEF TurnLaw
<1>6. \A a, c \in Device :
        /\ a # c /\ sequence'[a] = sequence'[c] => myTurn'[a] # myTurn'[c]
        /\ sequence'[a] > sequence'[c] =>
             /\ sequence'[a] = sequence'[c] + 1 /\ ~myTurn'[a] /\ ~myTurn'[c]
             /\ outgoing'[a].pending /\ outgoing'[a].seq = sequence'[a]
  <2> SUFFICES ASSUME NEW a \in Device, NEW c \in Device
               PROVE  /\ a # c /\ sequence'[a] = sequence'[c] => myTurn'[a] # myTurn'[c]
                      /\ sequence'[a] > sequence'[c] =>
                           /\ sequence'[a] = sequence'[c] + 1 /\ ~myTurn'[a] /\ ~myTurn'[c]
                           /\ outgoing'[a].pending /\ outgoing'[a].seq = sequence'[a]
    OBVIOUS
  <2>1. CASE a = c
    BY <1>3, <1>4, <2>1
  <2>2. CASE a # c
    <3>1. (a = d /\ c # d) \/ (c = d /\ a # d)
      BY <2>2, RematchAssumption
    <3> QED
      BY <1>2, <1>3, <1>4, <1>5, <3>1
  <2> QED
    BY <2>1, <2>2
<1>7. \A e \in Device : outgoing'[e].seq <= sequence'[e]
  BY <1>2, <1>3, <1>4 DEF TurnLaw
<1>8. \A p \in net' : p.type \in {"State", "Ack"} => p.seq <= sequence'[p.from]
  <2>1. \A p \in net : p.from \in Device /\ p.seq \in Nat
    BY DEF RematchTyped, NotesTyped
  <2> QED
    BY <1>1, <1>2, <1>3, <1>4, <2>1 DEF TurnLaw
<1> QED
  BY <1>6, <1>7, <1>8 DEF TurnLaw

\* Who adopts a state takes over the turn its sender gave up.
LEMMA TurnHear ==
  ASSUME RematchTyped, Paired, TurnLaw, NEW d \in Device, NEW p \in net, HearState(d, p)
  PROVE  TurnLaw'
<1> DEFINE q == Pkt(d, "Ack", peer[d], sequence'[d])
<1>1. /\ net' = net \cup {q} /\ p.type = "State" /\ p.from = peer[d]
      /\ \/ UNCHANGED <<myTurn, sequence, outgoing>>
         \/ /\ p.seq > sequence[d]
            /\ sequence' = [sequence EXCEPT ![d] = p.seq]
            /\ myTurn' = [myTurn EXCEPT ![d] = TRUE]
            /\ outgoing' = [outgoing EXCEPT ![d].pending = FALSE]
  BY DEF HearState, FromPeer, AckCopy, Send, Newer, moveVars
<1>2. q.seq = sequence'[d] /\ q.from = d
  BY DEF Pkt
<1> HIDE DEF q
<1>3. \A e \in Device : /\ sequence[e] \in Nat /\ outgoing[e].seq \in Nat /\ myTurn[e] \in BOOLEAN
  BY MoveNumbers DEF RematchTyped
<1>4. CASE UNCHANGED <<myTurn, sequence, outgoing>>
  BY <1>1, <1>2, <1>3, <1>4, TurnSame
<1>5. CASE p.seq > sequence[d] /\ ~ UNCHANGED <<myTurn, sequence, outgoing>>
  <2>0. PICK e \in Device : e = p.from /\ e # d
    BY <1>1 DEF Paired
  <2>1. p.seq <= sequence[e]
    BY <1>1, <2>0 DEF TurnLaw
  <2>2. p.seq \in Nat
    BY DEF RematchTyped, NotesTyped
  <2>3. sequence[e] = p.seq /\ sequence[e] = sequence[d] + 1 /\ ~myTurn[e]
    BY <1>3, <1>5, <2>1, <2>2 DEF TurnLaw
  <2>4. /\ sequence'[d] = p.seq /\ myTurn'[d] = TRUE /\ sequence'[e] = sequence[e] /\ myTurn'[e] = myTurn[e]
    BY <1>1, <1>5, <2>0 DEF RematchTyped, MovesTyped
  <2>5. \A f \in Device : outgoing'[f].seq = outgoing[f].seq
    BY <1>1, <1>5 DEF RematchTyped, MovesTyped, Kept
  <2>6. \A f \in Device : f = d \/ f = e
    BY <2>0, RematchAssumption
  <2>7. \A f \in Device : sequence'[f] = p.seq /\ sequence[f] <= p.seq
    BY <1>3, <2>2, <2>3, <2>4, <2>6
  <2>8. \A a, b \in Device : a # b => myTurn'[a] # myTurn'[b]
    BY <2>3, <2>4, <2>6
  <2>9. \A f \in Device : outgoing'[f].seq <= sequence'[f]
    <3> TAKE f \in Device
    <3>1. outgoing[f].seq <= sequence[f]
      BY DEF TurnLaw
    <3> QED
      BY <1>3, <2>2, <2>5, <2>7, <3>1
  <2>10. \A r \in net' : r.type \in {"State", "Ack"} => r.seq <= sequence'[r.from]
    <3> SUFFICES ASSUME NEW r \in net', r.type \in {"State", "Ack"} PROVE r.seq <= sequence'[r.from]
      OBVIOUS
    <3>1. CASE r = q
      BY <1>2, <2>2, <2>7, <3>1
    <3>2. CASE r \in net
      <4>1. r.seq <= sequence[r.from] /\ r.from \in Device /\ r.seq \in Nat
        BY <3>2 DEF TurnLaw, RematchTyped, NotesTyped
      <4> QED
        BY <1>3, <2>2, <2>7, <4>1
    <3> QED
      BY <1>1, <3>1, <3>2
  <2>11. \A a, b \in Device : ~(sequence'[a] > sequence'[b])
    BY <2>2, <2>7
  <2> QED
    BY <2>8, <2>9, <2>10, <2>11 DEF TurnLaw
<1> QED
  BY <1>1, <1>4, <1>5

\* A state the other device has not adopted is not acknowledged.
LEMMA TurnAck ==
  ASSUME RematchTyped, Paired, TurnLaw, NEW d \in Device, NEW p \in net, HearAck(d, p)
  PROVE  TurnLaw'
<1>1. /\ UNCHANGED <<myTurn, sequence, net>> /\ p.type = "Ack" /\ p.from = peer[d]
      /\ \/ outgoing' = outgoing
         \/ p.seq >= outgoing[d].seq /\ outgoing' = [outgoing EXCEPT ![d].pending = FALSE]
  BY DEF HearAck, FromPeer, Acknowledges
<1>2. CASE outgoing' = outgoing
  BY <1>1, <1>2, TurnSame
<1>3. CASE p.seq >= outgoing[d].seq /\ outgoing' = [outgoing EXCEPT ![d].pending = FALSE]
  <2>1. \A e \in Device : outgoing'[e].seq = outgoing[e].seq /\ (e # d => outgoing'[e] = outgoing[e])
    BY <1>3 DEF RematchTyped, MovesTyped, Kept
  <2>2. \A e \in Device : sequence[e] \in Nat /\ outgoing[e].seq \in Nat
    BY MoveNumbers DEF RematchTyped
  <2>3. PICK e \in Device : e = p.from /\ e # d
    BY <1>1 DEF Paired
  <2>4. p.seq <= sequence[e] /\ p.seq \in Nat
    BY <1>1, <2>3 DEF TurnLaw, RematchTyped, NotesTyped
  <2>5. ~(sequence[d] > sequence[e])
    BY <1>3, <2>2, <2>4 DEF TurnLaw
  <2>6. \A a, b \in Device : sequence[a] > sequence[b] => a # d
    BY <2>2, <2>3, <2>5, RematchAssumption
  <2> QED
    BY <1>1, <2>1, <2>6 DEF TurnLaw
<1> QED
  BY <1>1, <1>2, <1>3

LEMMA TurnStep ==
  ASSUME RematchTyped, Paired, TurnLaw, NEW d \in Device, StepOf(d)
  PROVE  TurnLaw'
<1>1. ASSUME NEW p \in net, Hear(d, p) PROVE TurnLaw'
  <2>1. CASE HearState(d, p)
    BY <2>1, TurnHear
  <2>2. CASE HearAck(d, p)
    BY <2>2, TurnAck
  <2>3. CASE HearSay(d, p) \/ HearSayAck(d, p)
    <3>1. /\ UNCHANGED <<myTurn, sequence, outgoing>>
          /\ \A r \in net' : r \in net \/ r.type = "SayAck"
      BY <2>3 DEF HearSay, HearSayAck, SayAckCopy, Send, Pkt, moveVars
    <3> QED
      BY <3>1, TurnSame
  <2> QED
    BY <1>1, <2>1, <2>2, <2>3 DEF Hear
<1>2. CASE Retry(d)
  <2>1. CASE RetryState(d)
    <3> DEFINE q == StatePkt(d, outgoing[d].seq, outgoing[d].board)
    <3>1. q.from = d /\ q.seq = outgoing[d].seq
      BY DEF StatePkt, Pkt
    <3>2. net' = net \cup {q} /\ UNCHANGED <<myTurn, sequence, outgoing>>
      BY <2>1 DEF RetryState, Send, moveVars
    <3> HIDE DEF q
    <3>3. q.seq <= sequence[q.from]
      BY <3>1 DEF TurnLaw
    <3> QED
      BY <3>2, <3>3, TurnSame
  <2>2. CASE RetrySay(d)
    <3>1. /\ UNCHANGED <<myTurn, sequence, outgoing>> /\ \A r \in net' : r \in net \/ r.type = "Say"
      BY <2>2 DEF RetrySay, Send, SayPkt, Pkt, moveVars
    <3> QED
      BY <3>1, TurnSame
  <2> QED
    BY <1>2, <2>1, <2>2 DEF Retry
<1>3. CASE Update(d) \/ HearAgain(d) \/ TakeState(d) \/ Question(d) \/ NoTap(d)
  <2>1. UNCHANGED <<myTurn, sequence, outgoing, net>>
    BY <1>3 DEF Update, HearAgain, TakeAnnouncement, TakeState, TakeIncoming, Question, NoTap, vars,
                moveVars
  <2> QED
    BY <2>1, TurnSame
<1>4. CASE MatchStart(d) \/ StartRematch(d) \/ PassTurn(d) \/ \E m \in Seat \cup {RoundOver, GameOver} : Tap(d, m)
  <2>1. (\E b : Play(d, b)) \/ UNCHANGED <<moveVars, net>>
    BY <1>4 DEF MatchStart, StartRematch, StartGame, PassTurn, Tap, SendBoard, SendNothing
  <2> QED
    BY <2>1, TurnPlay, TurnSame DEF moveVars
<1>5. CASE ProposeRematch(d)
  <2>1. /\ UNCHANGED <<myTurn, sequence, outgoing>> /\ \A r \in net' : r \in net \/ r.type = "Say"
    BY <1>5 DEF ProposeRematch, Announce, Send, SayPkt, Pkt, moveVars
  <2> QED
    BY <2>1, TurnSame
<1> QED
  BY <1>1, <1>2, <1>3, <1>4, <1>5 DEF StepOf

LEMMA TurnNext == RematchTyped /\ Paired /\ TurnLaw /\ [RematchNext]_allVars => TurnLaw'
<1>1. TurnLaw /\ UNCHANGED allVars => TurnLaw'
  BY TurnSame DEF allVars, vars, moveVars
<1> QED
  BY <1>1, TurnStep DEF RematchNext, StepOf

LEMMA PairedAlways == RematchSpec => []Paired
<1>1. TalkInv => Paired
  BY DEF TalkInv
<1> QED
  BY <1>1, TalkAlways, PTL

LEMMA TurnAlways == RematchSpec => []TurnLaw
  BY TurnInit, TurnNext, PairedAlways, RematchTypes, PTL DEF RematchSpec

\* Through the games of a match too the single move counter has one writer at a
\* time (LinkSession.h:22-24), whatever the games do with the turn.
THEOREM MatchTurnsExclusive == RematchSpec => []TurnExclusion
<1>1. RematchTyped /\ TurnLaw => TurnExclusion
  <2> SUFFICES ASSUME RematchTyped, TurnLaw, NEW a \in Device, NEW b \in Device, a # b
               PROVE  ~(myTurn[a] /\ myTurn[b])
    BY DEF TurnExclusion, Mutual
  <2>1. sequence[a] \in Nat /\ sequence[b] \in Nat /\ myTurn[a] \in BOOLEAN /\ myTurn[b] \in BOOLEAN
    BY MoveNumbers DEF RematchTyped
  <2>2. sequence[a] = sequence[b] \/ sequence[a] > sequence[b] \/ sequence[b] > sequence[a]
    BY <2>1
  <2>3. CASE sequence[a] = sequence[b]
    BY <2>1, <2>3 DEF TurnLaw
  <2>4. CASE sequence[a] > sequence[b] \/ sequence[b] > sequence[a]
    BY <2>4 DEF TurnLaw
  <2> QED
    BY <2>2, <2>3, <2>4
<1> QED
  BY <1>1, TurnAlways, RematchTypes, PTL

\* And a state, a deal or a passed turn included, stops being retried only once
\* the peer has adopted it (LinkSession.cpp:246-252).
THEOREM MatchMovesReach == RematchSpec => []MoveReachesPeer
<1>1. RematchTyped /\ TurnLaw => MoveReachesPeer
  <2> SUFFICES ASSUME RematchTyped, TurnLaw, NEW a \in Device, NEW b \in Device, ~outgoing[a].pending
               PROVE  sequence[b] >= outgoing[a].seq
    BY DEF MoveReachesPeer
  <2>1. sequence[a] \in Nat /\ sequence[b] \in Nat /\ outgoing[a].seq \in Nat
    BY MoveNumbers DEF RematchTyped
  <2> QED
    BY <2>1 DEF TurnLaw
<1> QED
  BY <1>1, TurnAlways, RematchTypes, PTL

-----------------------------------------------------------------------------
(* One pass of one device.                                                 *)

Holds(d) == myTurn[d] /\ ~incoming[d].pending

\* The turn comes with a board to take; between two ticks the game sees the
\* link as it is; a match starts with the toss winner to move; and no finished
\* game reaches a tap without its question.
PassOK(d) ==
  /\ incoming[d].pending => myTurn[d]
  /\ pc[d] # "tick" => phase[d] = PhaseOf(d)
  /\ pc[d] = "matched" => isHost[d] = myTurn[d] /\ ~incoming[d].pending
  /\ pc[d] = "input" /\ Finished(board[d]) => rematch[d]

\* No device is handed an empty board, so who has the turn has a board.
HandOK(d) ==
  /\ outgoing[d].pending => Dealt(outgoing[d].board)
  /\ incoming[d].pending => Dealt(incoming[d].board)
  /\ pc[d] # "matched" /\ Holds(d) => Dealt(board[d])

\* Who has the turn and has not just been handed it is to move by the board.
SeatOK(d) ==
  pc[d] \notin {"matched", "pass"} /\ Holds(d) /\ InPlay(board[d])
  => ToMove(board[d]) = seat[d]

AirDealt == \A p \in net : p.type = "State" => Dealt(p.board)

PassInv ==
  /\ \A d \in Device : PassOK(d)
  /\ ~FollowerClears => AirDealt /\ \A d \in Device : HandOK(d)
  /\ Passes => \A d \in Device : SeatOK(d)

\* What a device knows of itself, none of which another device's step changes.
Own(d) ==
  <<pc[d], phase[d], seat[d], rematch[d], isHost[d], myTurn[d], incoming[d], outgoing[d], board[d]>>

LEMMA OwnKeeps ==
  ASSUME NEW e \in Device, Own(e)' = Own(e)
  PROVE  (PassOK(e) => PassOK(e)') /\ (HandOK(e) => HandOK(e)') /\ (SeatOK(e) => SeatOK(e)')
  BY DEF Own, PassOK, HandOK, SeatOK, Holds, PhaseOf

LEMMA OthersKeepOwn ==
  ASSUME RematchTyped, NEW d \in Device, NEW e \in Device \ {d}, StepOf(d)
  PROVE  Own(e)' = Own(e)
<1> USE DEF RematchTyped, PassTyped, MovesTyped
<1>1. ASSUME NEW p \in net, Hear(d, p) PROVE Own(e)' = Own(e)
  <2>1. UNCHANGED <<rematchVars, isHost, board>>
    BY <1>1 DEF Hear, HearState, HearAck, HearSay, HearSayAck
  <2>2. myTurn'[e] = myTurn[e] /\ incoming'[e] = incoming[e] /\ outgoing'[e] = outgoing[e]
    BY <1>1 DEF Hear, HearState, HearAck, HearSay, HearSayAck, moveVars
  <2> QED
    BY <2>1, <2>2 DEF Own, rematchVars, askVars
<1>2. CASE Retry(d)
  BY <1>2 DEF Retry, RetryState, RetrySay, Own, rematchVars, askVars, matchVars, moveVars
<1>3. CASE Update(d) \/ NoTap(d)
  BY <1>3 DEF Update, NoTap, Own, vars, matchVars, moveVars, askVars
<1>4. CASE Question(d)
  <2>1. rematch'[e] = rematch[e] /\ pc'[e] = pc[e] /\ UNCHANGED <<vars, phase, seat>>
    BY <1>4 DEF Question, askVars
  <2> QED
    BY <2>1 DEF Own, vars, matchVars, moveVars
<1>5. CASE HearAgain(d)
  BY <1>5 DEF HearAgain, TakeAnnouncement, Own, matchVars, moveVars
<1>6. CASE ProposeRematch(d)
  <2>1. rematch'[e] = rematch[e] /\ pc'[e] = pc[e] /\ UNCHANGED <<matchVars, moveVars, board, phase, seat>>
    BY <1>6 DEF ProposeRematch, Announce
  <2> QED
    BY <2>1 DEF Own, matchVars, moveVars
<1>7. CASE TakeState(d)
  BY <1>7 DEF TakeState, TakeIncoming, Own, matchVars, askVars
<1>8. CASE MatchStart(d) \/ StartRematch(d) \/ PassTurn(d) \/ \E m \in Seat \cup {RoundOver, GameOver} : Tap(d, m)
  <2>1. /\ pc'[e] = pc[e] /\ seat'[e] = seat[e] /\ rematch'[e] = rematch[e] /\ board'[e] = board[e]
        /\ phase'[e] = phase[e]
    BY <1>8 DEF MatchStart, StartRematch, StartGame, PassTurn, Tap, SendBoard, SendNothing, askVars
  <2>2. (\E b : Play(d, b)) \/ UNCHANGED <<idleVars, moveVars>>
    <3>1. CASE MatchStart(d) \/ StartRematch(d)
      <4>1. PICK l : StartGame(d, l)
        BY <3>1 DEF MatchStart, StartRematch
      <4> QED
        BY <4>1 DEF StartGame, SendBoard, SendNothing
    <3>2. CASE PassTurn(d) \/ \E m \in Seat \cup {RoundOver, GameOver} : Tap(d, m)
      BY <3>2 DEF PassTurn, Tap, SendBoard
    <3> QED
      BY <1>8, <3>1, <3>2
  <2>3. isHost'[e] = isHost[e] /\ myTurn'[e] = myTurn[e] /\ incoming'[e] = incoming[e] /\ outgoing'[e] = outgoing[e]
    BY <2>2 DEF Play, idleVars, matchVars, moveVars
  <2> QED
    BY <2>1, <2>3 DEF Own
<1> QED
  BY <1>1, <1>2, <1>3, <1>4, <1>5, <1>6, <1>7, <1>8 DEF StepOf

\* What a step of d must show.
StepOK(d) ==
  /\ PassOK(d)'
  /\ ~FollowerClears => AirDealt' /\ HandOK(d)'
  /\ Passes => SeatOK(d)'

\* A step that leaves the device's board, its turn and the phase alone.
LEMMA PassSame ==
  ASSUME RematchTyped, PassInv, NEW d \in Device, NEW x \in Place, pc[d] # "matched", x # "matched",
         UNCHANGED <<seat, isHost, myTurn, incoming, board>>, pc' = [pc EXCEPT ![d] = x],
         \/ UNCHANGED phase /\ (pc[d] # "tick" \/ x = "tick")
         \/ phase' = [phase EXCEPT ![d] = PhaseOf(d)],
         x = "input" /\ Finished(board[d]) => rematch'[d],
         x # "pass" /\ pc[d] # "pass",
         outgoing' = outgoing \/ outgoing' = [outgoing EXCEPT ![d].pending = FALSE],
         \A p \in net' : p \in net \/ p.type # "State" \/ Dealt(p.board)
  PROVE  StepOK(d)
<1>1. pc'[d] = x /\ (phase'[d] = phase[d] \/ phase'[d] = PhaseOf(d)) /\ PhaseOf(d)' = PhaseOf(d)
  BY DEF RematchTyped, PassTyped, PhaseOf
<1>2. PassOK(d)'
  BY <1>1 DEF PassInv, PassOK, RematchTyped, PassTyped, PhaseOf
<1>3. outgoing'[d].pending => outgoing[d].pending /\ outgoing'[d].board = outgoing[d].board
  BY DEF RematchTyped, MovesTyped, Kept
<1>4. ~FollowerClears => AirDealt' /\ HandOK(d)'
  BY <1>1, <1>3 DEF PassInv, HandOK, AirDealt, Holds
<1>5. Passes => SeatOK(d)'
  BY <1>1 DEF PassInv, SeatOK, Holds
<1> QED
  BY <1>2, <1>4, <1>5 DEF StepOK

LEMMA PassHear ==
  ASSUME RematchTyped, PassInv, NEW d \in Device, NEW p \in net, Hear(d, p)
  PROVE  StepOK(d)
<1>1. /\ pc[d] = "tick" /\ UNCHANGED <<rematchVars, isHost, board>>
      /\ \A r \in net' : r \in net \/ r.type # "State"
  BY DEF Hear, HearState, HearAck, HearSay, HearSayAck, AckCopy, SayAckCopy, Send, Pkt
<1>2. \/ /\ p.type = "State" /\ myTurn' = [myTurn EXCEPT ![d] = TRUE]
         /\ incoming' = [incoming EXCEPT ![d] = [board |-> p.board, pending |-> TRUE]]
         /\ outgoing' = [outgoing EXCEPT ![d].pending = FALSE]
      \/ /\ UNCHANGED <<myTurn, incoming>>
         /\ outgoing' = outgoing \/ outgoing' = [outgoing EXCEPT ![d].pending = FALSE]
  BY DEF Hear, HearState, HearAck, HearSay, HearSayAck, moveVars
<1>3. outgoing'[d].pending => outgoing'[d] = outgoing[d]
  BY <1>2 DEF RematchTyped, MovesTyped, Kept
<1>4. \/ p.type = "State" /\ myTurn'[d] = TRUE /\ incoming'[d].pending /\ incoming'[d].board = p.board
      \/ myTurn'[d] = myTurn[d] /\ incoming'[d] = incoming[d]
  BY <1>2 DEF RematchTyped, MovesTyped
<1>5. PassOK(d)'
  BY <1>1, <1>4 DEF PassInv, PassOK, rematchVars, askVars
<1>6. ~FollowerClears => AirDealt' /\ HandOK(d)'
  BY <1>1, <1>3, <1>4 DEF PassInv, HandOK, AirDealt, Holds, rematchVars
<1>7. Passes => SeatOK(d)'
  BY <1>1, <1>4 DEF PassInv, SeatOK, Holds, rematchVars
<1> QED
  BY <1>5, <1>6, <1>7 DEF StepOK

LEMMA PassRetry ==
  ASSUME RematchTyped, PassInv, NEW d \in Device, Retry(d)
  PROVE  StepOK(d)
<1>1. UNCHANGED <<rematchVars, isHost, myTurn, incoming, outgoing, board>>
  BY DEF Retry, RetryState, RetrySay, matchVars, moveVars
<1>2. \A r \in net' : \/ r \in net \/ r.type # "State"
                      \/ outgoing[d].pending /\ r.board = outgoing[d].board
  BY DEF Retry, RetryState, RetrySay, Send, StatePkt, SayPkt, Pkt
<1>3. ~FollowerClears => AirDealt'
  BY <1>2 DEF PassInv, AirDealt, HandOK
<1>4. Own(d)' = Own(d)
  BY <1>1 DEF Own, rematchVars, askVars
<1> QED
  BY <1>3, <1>4, OwnKeeps DEF StepOK, PassInv

\* A board goes out: the turn goes with it.
LEMMA PlayOwn ==
  ASSUME RematchTyped, NEW d \in Device, NEW b, Play(d, b)
  PROVE  /\ Holds(d) /\ ~Holds(d)' /\ myTurn'[d] = FALSE
         /\ UNCHANGED <<incoming, isHost>> /\ outgoing'[d].board = b
         /\ \A r \in net' : r \in net \/ r.board = b
<1>1. /\ myTurn[d] /\ ~incoming[d].pending /\ myTurn' = [myTurn EXCEPT ![d] = FALSE]
      /\ outgoing' = [outgoing EXCEPT ![d] = [board |-> b, seq |-> sequence[d] + 1, pending |-> TRUE]]
      /\ UNCHANGED <<incoming, isHost>>
  BY DEF Play, MayPlay, matchVars
<1>2. net' = net \cup {StatePkt(d, sequence[d] + 1, b)}
  BY DEF Play, Send
<1> QED
  BY <1>1, <1>2 DEF Holds, StatePkt, Pkt, RematchTyped, MovesTyped

LEMMA PassPlay ==
  ASSUME RematchTyped, PassInv, NEW d \in Device, NEW b, Play(d, b), ~FollowerClears => Dealt(b),
         pc'[d] # "matched", phase'[d] = "TheirTurn",
         pc'[d] = "input" /\ Finished(board'[d]) => rematch'[d]
  PROVE  StepOK(d)
<1>1. /\ Holds(d) /\ ~Holds(d)' /\ myTurn'[d] = FALSE
      /\ UNCHANGED <<incoming, isHost>> /\ outgoing'[d].board = b
      /\ \A r \in net' : r \in net \/ r.board = b
  BY PlayOwn
<1>2. PassOK(d)'
  BY <1>1 DEF PassOK, PhaseOf, Holds
<1>3. ~FollowerClears => AirDealt' /\ HandOK(d)'
  BY <1>1 DEF PassInv, HandOK, AirDealt, Holds
<1>4. Passes => SeatOK(d)'
  BY <1>1 DEF SeatOK
<1> QED
  BY <1>2, <1>3, <1>4 DEF StepOK

\* A game starts: whoever leads by the turn deals and gives the turn away.
LEMMA PassStart ==
  ASSUME RematchTyped, PassInv, NEW d \in Device, NEW l, StartGame(d, l),
         pc[d] \in {"matched", "agreed", "accepted"}, pc'[d] # "matched",
         pc'[d] = "input" /\ Finished(board'[d]) => rematch'[d],
         pc[d] = "matched" => l = isHost[d],
         Passes => l = (phase[d] = "YourTurn")
  PROVE  StepOK(d)
<1> DEFINE deal == IF BothDeal THEN <<Opening>> ELSE <<DealBy(d)>>
<1>1. Dealt(deal)
  BY DEF Dealt
<1>2. /\ board'[d] = IF l \/ BothDeal THEN deal ELSE IF FollowerClears THEN <<>> ELSE board[d]
      /\ \/ l /\ Play(d, deal) /\ phase'[d] = "TheirTurn"
         \/ /\ UNCHANGED <<idleVars, moveVars, net, phase>>
            /\ ~(l /\ DealIsSent /\ phase[d] = "YourTurn")
  BY DEF StartGame, SendBoard, SendNothing, RematchTyped, PassTyped, MovesTyped
<1> HIDE DEF deal
<1>3. CASE l /\ Play(d, deal) /\ phase'[d] = "TheirTurn"
  BY <1>1, <1>3, PassPlay
<1>4. CASE UNCHANGED <<idleVars, moveVars, net, phase>> /\ ~(l /\ DealIsSent /\ phase[d] = "YourTurn")
  <2>1. UNCHANGED <<isHost, myTurn, incoming, outgoing, net, phase>>
    BY <1>4 DEF idleVars, matchVars, moveVars
  <2>2. phase[d] = PhaseOf(d)
    BY DEF PassInv, PassOK
  <2>3. PassOK(d)'
    BY <2>1, <2>2 DEF PassInv, PassOK, PhaseOf
  <2>4. ASSUME ~FollowerClears PROVE AirDealt' /\ HandOK(d)'
    <3>1. Holds(d) => Dealt(board'[d])
      BY <1>1, <1>2, <2>4 DEF PassInv, HandOK, PassOK, Holds
    <3> QED
      BY <2>1, <2>4, <3>1 DEF PassInv, HandOK, AirDealt, Holds
  <2>5. ASSUME Passes PROVE SeatOK(d)'
    <3>1. DealIsSent
      BY <2>5 DEF Passes, DealIsSent
    <3>2. ~Holds(d)
      BY <1>4, <2>2, <2>5, <3>1 DEF PhaseOf, Holds
    <3> QED
      BY <2>1, <3>2 DEF SeatOK, Holds
  <2> QED
    BY <2>3, <2>4, <2>5 DEF StepOK
<1> QED
  BY <1>2, <1>3, <1>4

\* The board that arrived becomes the device's own; handed to the wrong seat, it
\* is passed back.
LEMMA PassTake ==
  ASSUME RematchTyped, PassInv, NEW d \in Device, TakeState(d)
  PROVE  StepOK(d)
<1> DEFINE b == incoming[d].board
<1>1. /\ pc[d] = "take" /\ incoming[d].pending
      /\ UNCHANGED <<seat, rematch, isHost, myTurn, outgoing, net>>
      /\ incoming' = [incoming EXCEPT ![d].pending = FALSE]
      /\ board' = [board EXCEPT ![d] = b]
      /\ phase' = [phase EXCEPT ![d] = IF myTurn[d] THEN "YourTurn" ELSE phase[d]]
  BY DEF TakeState, TakeIncoming, matchVars, askVars
<1>2. myTurn[d]
  BY <1>1 DEF PassInv, PassOK
<1>3. /\ board'[d] = b /\ ~incoming'[d].pending /\ phase'[d] = "YourTurn"
  BY <1>1, <1>2 DEF RematchTyped, PassTyped, MovesTyped, Waits
<1>4. \/ pc'[d] = "pass"
      \/ /\ pc'[d] = "question" \/ (pc'[d] = "input" /\ (Finished(board'[d]) => rematch'[d]))
         /\ Passes => ~Nothing(d, b)
  BY <1>2 DEF TakeState, AfterState, Asks, RematchTyped, PassTyped
<1>5. PassOK(d)'
  <2>1. pc'[d] \in {"pass", "question", "input"} /\ myTurn'[d]
    BY <1>1, <1>2, <1>4
  <2> QED
    BY <1>3, <1>4, <2>1 DEF PassOK, PhaseOf
<1>6. ~FollowerClears => AirDealt' /\ HandOK(d)'
  BY <1>1, <1>3 DEF PassInv, HandOK, AirDealt
<1>7. Passes => SeatOK(d)'
  BY <1>1, <1>3, <1>4 DEF SeatOK, Nothing
<1> QED
  BY <1>5, <1>6, <1>7 DEF StepOK

LEMMA PassStep ==
  ASSUME RematchTyped, PassInv, NEW d \in Device, StepOf(d)
  PROVE  StepOK(d)
<1>0. pc \in [Device -> Place] /\ phase \in [Device -> Phase] /\ rematch \in [Device -> BOOLEAN]
  BY DEF RematchTyped, PassTyped
<1>1. CASE (\E p \in net : Hear(d, p)) \/ Retry(d)
  BY <1>1, PassHear, PassRetry
<1>2. CASE Update(d)
  <2>1. UNCHANGED <<seat, rematch, isHost, myTurn, incoming, outgoing, board, net>>
    BY <1>2 DEF Update, vars, matchVars, moveVars, askVars
  <2>2. /\ pc[d] = "tick" /\ phase' = [phase EXCEPT ![d] = PhaseOf(d)]
        /\ \E x \in {"notes", "take", "question", "input"} :
             /\ pc' = [pc EXCEPT ![d] = x]
             /\ x = "input" /\ Finished(board[d]) => rematch[d]
    BY <1>2 DEF Update, AfterNotes, AfterState, Asks
  <2> QED
    BY <2>1, <2>2, PassSame DEF Place
<1>3. CASE NoTap(d)
  <2>1. /\ UNCHANGED <<seat, isHost, myTurn, incoming, outgoing, board, net, phase>>
        /\ pc[d] = "input" /\ pc' = [pc EXCEPT ![d] = "tick"]
    BY <1>3 DEF NoTap, vars, matchVars, moveVars
  <2> QED
    BY <2>1, PassSame DEF Place
<1>11. CASE HearAgain(d)
  <2>1. /\ UNCHANGED <<seat, isHost, myTurn, incoming, outgoing, board, net, phase>>
        /\ pc[d] = "notes" /\ rematch'[d]
    BY <1>0, <1>11 DEF HearAgain, TakeAnnouncement, matchVars, moveVars
  <2>2. \E x \in {"agreed", "take", "question", "input"} : pc' = [pc EXCEPT ![d] = x]
    BY <1>11 DEF HearAgain, AfterNotes, AfterState
  <2> QED
    BY <2>1, <2>2, PassSame DEF Place
<1>4. CASE Question(d)
  <2>1. /\ UNCHANGED <<seat, isHost, myTurn, incoming, outgoing, board, net, phase>>
        /\ pc[d] = "question" /\ pc' = [pc EXCEPT ![d] = "input"]
    BY <1>4 DEF Question, vars, matchVars, moveVars
  <2>2. rematch'[d]
    BY <1>0, <1>4 DEF Question
  <2> QED
    BY <2>1, <2>2, PassSame DEF Place
<1>5. CASE ProposeRematch(d)
  <2>1. /\ UNCHANGED <<seat, isHost, myTurn, incoming, outgoing, board, phase>>
        /\ pc[d] = "input" /\ \E x \in {"accepted", "tick"} : pc' = [pc EXCEPT ![d] = x]
        /\ \A r \in net' : r \in net \/ r.type = "Say"
    BY <1>5 DEF ProposeRematch, Announce, Send, SayPkt, Pkt, matchVars, moveVars
  <2> QED
    BY <2>1, PassSame DEF Place
<1>6. CASE MatchStart(d)
  <2>1. /\ pc[d] = "matched" /\ StartGame(d, isHost[d]) /\ pc'[d] \in {"question", "input"}
        /\ pc'[d] = "input" /\ Finished(board'[d]) => rematch'[d]
    BY <1>0, <1>6 DEF MatchStart, AfterState, Asks
  <2>2. phase[d] = PhaseOf(d) /\ isHost[d] = Holds(d)
    BY <2>1 DEF PassInv, PassOK, Holds, RematchTyped, MovesTyped, Waits
  <2>3. isHost[d] = (phase[d] = "YourTurn")
    BY <2>2 DEF PhaseOf, Holds, RematchTyped, MovesTyped, Waits
  <2> QED
    BY <2>1, <2>3, PassStart
<1>7. CASE StartRematch(d)
  <2>1. /\ pc[d] \in {"agreed", "accepted"} /\ StartGame(d, Leads(d))
        /\ pc'[d] \in {"take", "question", "input", "tick"}
        /\ pc'[d] = "input" /\ Finished(board'[d]) => rematch'[d]
    BY <1>0, <1>7 DEF StartRematch, AfterNotes, AfterState, Asks
  <2>2. Passes => Leads(d) = (phase[d] = "YourTurn")
    BY DEF Leads, Passes, TurnLeads
  <2> QED
    BY <2>1, <2>2, PassStart
<1>8. CASE TakeState(d)
  BY <1>8, PassTake
<1>9. CASE PassTurn(d)
  <2>1. /\ pc[d] = "pass" /\ Play(d, board[d]) /\ phase'[d] = "TheirTurn" /\ pc'[d] \in {"question", "input"}
        /\ pc'[d] = "input" /\ Finished(board'[d]) => rematch'[d]
    BY <1>0, <1>9 DEF PassTurn, SendBoard, AfterState, Asks
  <2>2. ~FollowerClears => Dealt(board[d])
    BY <2>1, PlayOwn DEF PassInv, HandOK
  <2> QED
    BY <2>1, <2>2, PassPlay
<1>10. ASSUME NEW m \in Seat \cup {RoundOver, GameOver}, Tap(d, m) PROVE StepOK(d)
  <2>1. /\ Play(d, board'[d]) /\ pc'[d] = "tick" /\ phase'[d] = "TheirTurn"
        /\ board'[d] = Append(board[d], m)
    BY <1>0, <1>10 DEF Tap, SendBoard, RematchTyped, MovesTyped
  <2>2. Append(board[d], m) # <<>>
    BY OneMoveMore DEF RematchTyped, MovesTyped
  <2> QED
    BY <2>1, <2>2, PassPlay DEF Dealt
<1> QED
  BY <1>1, <1>2, <1>3, <1>4, <1>5, <1>6, <1>7, <1>8, <1>9, <1>10, <1>11 DEF StepOf

LEMMA PassNext == RematchTyped /\ PassInv /\ [RematchNext]_allVars => PassInv'
<1> SUFFICES ASSUME RematchTyped, PassInv, [RematchNext]_allVars PROVE PassInv'
  OBVIOUS
<1>1. CASE UNCHANGED allVars
  <2>1. UNCHANGED net /\ \A d \in Device : Own(d)' = Own(d)
    BY <1>1 DEF allVars, vars, rematchVars, askVars, matchVars, moveVars, Own
  <2> QED
    BY <2>1, OwnKeeps DEF PassInv, AirDealt
<1>2. ASSUME NEW d \in Device, StepOf(d)
      PROVE  PassInv'
  <2>1. StepOK(d)
    BY <1>2, PassStep
  <2>2. \A e \in Device \ {d} : Own(e)' = Own(e)
    BY <1>2, OthersKeepOwn
  <2> QED
    BY <2>1, <2>2, OwnKeeps DEF PassInv, StepOK
<1> QED
  BY <1>1, <1>2 DEF RematchNext, StepOf

LEMMA PassInit == RematchInit => PassInv
<1> SUFFICES ASSUME RematchInit PROVE PassInv
  OBVIOUS
<1>1. PICK host \in Device : /\ isHost = [d \in Device |-> d = host] /\ myTurn = [d \in Device |-> d = host]
                             /\ phase = [d \in Device |-> IF d = host THEN "YourTurn" ELSE "TheirTurn"]
  BY DEF RematchInit
<1>2. \A d \in Device : /\ pc[d] = "matched" /\ ~incoming[d].pending /\ ~outgoing[d].pending
                        /\ isHost[d] = (d = host) /\ myTurn[d] = (d = host)
                        /\ phase[d] = IF d = host THEN "YourTurn" ELSE "TheirTurn"
  BY <1>1 DEF RematchInit, NoIncoming, NoOutgoing
<1>3. net = {}
  BY DEF RematchInit
<1>4. \A d \in Device : PassOK(d)
  BY <1>2 DEF PassOK, PhaseOf
<1>5. \A d \in Device : HandOK(d) /\ SeatOK(d)
  BY <1>2 DEF HandOK, SeatOK
<1> QED
  BY <1>3, <1>4, <1>5 DEF PassInv, AirDealt

LEMMA PassAlways == RematchSpec => []PassInv
  BY PassInit, PassNext, RematchTypes, PTL DEF RematchSpec

\* Where a game hands back a turn the rules have no use for, the player the link
\* lets move is the one the board says is to move, in every round and every game
\* of a match, whoever the rules let start a round and whatever board was left
\* over (JaipurActivity.cpp:268-272; Sea Salt & Paper plays by the same hooks).
THEOREM BoardLeads == ASSUME Passes PROVE RematchSpec => []LinkFollowsBoard
<1>1. PassInv => LinkFollowsBoard
  <2> SUFFICES ASSUME PassInv, NEW d \in Device, Settled(d), phase[d] = "YourTurn", InPlay(board[d])
               PROVE  ToMove(board[d]) = seat[d]
    BY DEF LinkFollowsBoard
  <2>1. Holds(d)
    BY DEF PassInv, PassOK, PhaseOf, Holds, Settled
  <2> QED
    BY <2>1 DEF PassInv, SeatOK, Settled
<1> QED
  BY <1>1, PassAlways, PTL

\* At rest nothing is owed, so the turn is with one of the two.
LEMMA RestTurn ==
  ASSUME RematchTyped, TurnLaw, AtRest
  PROVE  \E d, e \in Device : d # e /\ sequence[d] = sequence[e] /\ myTurn[d] /\ ~myTurn[e]
<1>1. PICK a \in Device, b \in Device : a # b
  BY RematchAssumption
<1>2. sequence[a] \in Nat /\ sequence[b] \in Nat
  BY MoveNumbers DEF RematchTyped
<1>3. ~outgoing[a].pending /\ ~outgoing[b].pending
  BY DEF AtRest
<1>4. ~(sequence[a] > sequence[b]) /\ ~(sequence[b] > sequence[a])
  BY <1>3 DEF TurnLaw
<1>5. sequence[a] = sequence[b]
  BY <1>2, <1>4
<1>6. myTurn[a] # myTurn[b] /\ myTurn[a] \in BOOLEAN /\ myTurn[b] \in BOOLEAN
  BY <1>1, <1>5, MoveNumbers DEF TurnLaw, RematchTyped
<1>7. (myTurn[a] /\ ~myTurn[b]) \/ (myTurn[b] /\ ~myTurn[a])
  BY <1>6
<1> QED
  BY <1>1, <1>5, <1>7

\* Where a follower does not clear its board, no match is ever parked with each
\* player waiting for the other: in a quiet match somebody holds the turn, over a
\* dealt board that is not finished and, where that counts, on which he is to
\* move or a round is to be dealt.  The two titles left out do park
\* (KnucklebonesActivity.cpp:170, ToyBattleActivity.cpp:565).
THEOREM SomeoneCanMove == ASSUME ~FollowerClears PROVE RematchSpec => []SomeoneMoves
<1>1. RematchTyped /\ TurnLaw /\ PassInv => SomeoneMoves
  <2> SUFFICES ASSUME RematchTyped, TurnLaw, PassInv, Quiet PROVE \E d \in Device : MayTap(d)
    BY DEF SomeoneMoves
  <2>1. PICK d \in Device : myTurn[d]
    BY RestTurn DEF Quiet
  <2>2. pc[d] = "input" /\ ~rematch[d] /\ Holds(d) /\ phase[d] = "YourTurn"
    BY <2>1 DEF Quiet, AtRest, Holds, PhaseOf
  <2>3. Dealt(board[d]) /\ ~Finished(board[d])
    BY <2>2 DEF PassInv, PassOK, HandOK
  <2>4. LinkGates \/ Passes
    BY RematchAssumption DEF LinkGates, Passes, Titles, FollowerClears
  <2>5. LinkGates \/ (InPlay(board[d]) => ToMove(board[d]) = seat[d])
    BY <2>2, <2>4 DEF PassInv, SeatOK
  <2> QED
    BY <2>2, <2>3, <2>5 DEF MayTap
<1> QED
  BY <1>1, TurnAlways, PassAlways, RematchTypes, PTL

-----------------------------------------------------------------------------
(* The boards on their way, where a game deals at once and passes.         *)

LEMMA PassingTitle ==
  ASSUME Passes
  PROVE  TurnLeads /\ DealIsSent /\ ~BothDeal /\ ~FollowerClears /\ Opener = 0
  BY DEF Passes, TurnLeads, DealIsSent, BothDeal, FollowerClears, Opener

\* The board in flight is its sender's, and who has the turn has, taken or not,
\* the board the other device sent, and sent last; only the toss winner, before
\* its first deal, has the turn with nothing sent.
BoardFlow ==
  /\ \A p \in net : \A b \in Device :
       p.type = "State" /\ p.seq = sequence[p.from] /\ p.seq > sequence[b] => p.board = board[p.from]
  /\ \A a, b \in Device : sequence[a] > sequence[b] => outgoing[a].board = board[a]
  /\ \A a, b \in Device :
       a # b /\ myTurn[a] /\ pc[a] # "matched" =>
         /\ Latest(a) = board[b]
         /\ outgoing[b].board = board[b] /\ outgoing[b].seq > outgoing[a].seq

\* A step after which every board and turn is where it was.
Still(d) ==
  /\ UNCHANGED <<board, myTurn, sequence, incoming>>
  /\ \A a \in Device : /\ outgoing'[a].board = outgoing[a].board /\ outgoing'[a].seq = outgoing[a].seq
                       /\ myTurn[a] /\ pc'[a] # "matched" => pc[a] # "matched"
  /\ \A p \in net' :
       \/ p \in net
       \/ p.type # "State"
       \/ p.from = d /\ p.seq = outgoing[d].seq /\ p.board = outgoing[d].board

\* A state is adopted; a board is sent.
Adopts(d) == \E p \in net : Hear(d, p) /\ HearState(d, p) /\ p.seq > sequence[d]

Sends(d, b) == Play(d, b) /\ board' = [board EXCEPT ![d] = b]

\* A game starts: who has the turn deals, the other waits.
LEMMA StartMoves ==
  ASSUME RematchTyped, PassInv, Passes, NEW d \in Device, NEW l, StartGame(d, l),
         pc' = [pc EXCEPT ![d] = pc'[d]],
         pc[d] \in {"matched", "agreed", "accepted"},
         pc[d] = "matched" => l = isHost[d],
         pc[d] # "matched" => l = (phase[d] = "YourTurn")
  PROVE  \/ Sends(d, <<DealBy(d)>>)
         \/ Still(d) /\ outgoing' = outgoing
<1>1. DealIsSent /\ ~BothDeal /\ ~FollowerClears
  BY PassingTitle
<1>2. phase[d] = PhaseOf(d) /\ (pc[d] = "matched" => isHost[d] = myTurn[d] /\ ~incoming[d].pending)
  BY DEF PassInv, PassOK
<1>3. Holds(d) \in BOOLEAN /\ myTurn[d] \in BOOLEAN
  BY MoveNumbers DEF RematchTyped, Holds
<1>4. l = Holds(d) /\ Holds(d) = (phase[d] = "YourTurn")
  BY <1>2, <1>3 DEF PhaseOf, Holds
<1>5. board' = [board EXCEPT ![d] = IF l THEN <<DealBy(d)>> ELSE board[d]]
  BY <1>1 DEF StartGame
<1>6. CASE Holds(d)
  <2>1. SendBoard(d, <<DealBy(d)>>)
    BY <1>1, <1>4, <1>6 DEF StartGame
  <2>2. board' = [board EXCEPT ![d] = <<DealBy(d)>>]
    BY <1>4, <1>5, <1>6
  <2> QED
    BY <2>1, <2>2 DEF SendBoard, Sends
<1>7. CASE ~Holds(d)
  <2>1. SendNothing
    BY <1>4, <1>7 DEF StartGame
  <2>2. board' = board
    BY <1>4, <1>5, <1>7 DEF RematchTyped, MovesTyped
  <2>3. \A a \in Device : myTurn[a] /\ pc'[a] # "matched" => pc[a] # "matched"
    BY <1>2, <1>7 DEF Holds, RematchTyped, PassTyped
  <2>4. outgoing' = outgoing /\ UNCHANGED <<myTurn, sequence, incoming, net>>
    BY <2>1 DEF SendNothing, moveVars
  <2> QED
    BY <2>2, <2>3, <2>4 DEF Still
<1> QED
  BY <1>6, <1>7

LEMMA StepKinds ==
  ASSUME RematchTyped, PassInv, Passes, NEW d \in Device, StepOf(d)
  PROVE  Adopts(d) \/ TakeState(d) \/ (\E b : Sends(d, b)) \/ Still(d)
<1>0. pc \in [Device -> Place]
  BY DEF RematchTyped, PassTyped
<1>1. ASSUME NEW p \in net, Hear(d, p) PROVE Adopts(d) \/ Still(d)
  <2>1. /\ UNCHANGED <<board, pc>>
        /\ \A r \in net' : r \in net \/ r.type # "State"
    BY <1>1 DEF Hear, HearState, HearAck, HearSay, HearSayAck, AckCopy, SayAckCopy, Send, Pkt, rematchVars
  <2>2. CASE HearState(d, p) /\ p.seq > sequence[d]
    BY <1>1, <2>2 DEF Adopts
  <2>3. CASE ~(HearState(d, p) /\ p.seq > sequence[d])
    <3>1. /\ UNCHANGED <<myTurn, sequence, incoming>>
          /\ outgoing' = outgoing \/ outgoing' = [outgoing EXCEPT ![d].pending = FALSE]
      BY <1>1, <2>3 DEF Hear, HearState, HearAck, HearSay, HearSayAck, Newer, moveVars
    <3>2. \A a \in Device : outgoing'[a].board = outgoing[a].board /\ outgoing'[a].seq = outgoing[a].seq
      BY <3>1 DEF RematchTyped, MovesTyped, Kept
    <3> QED
      BY <2>1, <3>1, <3>2 DEF Still
  <2> QED
    BY <2>2, <2>3
<1>2. CASE Retry(d)
  <2>1. /\ UNCHANGED <<board, myTurn, sequence, incoming, outgoing, pc>>
        /\ \A p \in net' :
             \/ p \in net
             \/ p.type # "State"
             \/ p.from = d /\ p.seq = outgoing[d].seq /\ p.board = outgoing[d].board
    BY <1>2 DEF Retry, RetryState, RetrySay, Send, StatePkt, SayPkt, Pkt, moveVars, rematchVars
  <2> QED
    BY <2>1 DEF Still
<1>3. CASE Update(d) \/ NoTap(d) \/ HearAgain(d) \/ Question(d) \/ ProposeRematch(d)
  <2>1. UNCHANGED <<board, myTurn, sequence, incoming, outgoing>> /\ \A p \in net' : p \in net \/ p.type = "Say"
    BY <1>3 DEF Update, NoTap, HearAgain, TakeAnnouncement, Question, ProposeRematch, Announce, Send, SayPkt, Pkt,
                vars, moveVars
  <2>2. pc[d] # "matched" /\ \A e \in Device \ {d} : pc'[e] = pc[e]
    BY <1>0, <1>3 DEF Update, NoTap, HearAgain, Question, ProposeRematch
  <2> QED
    BY <2>1, <2>2 DEF Still
<1>4. CASE MatchStart(d)
  <2>1. pc[d] = "matched" /\ StartGame(d, isHost[d]) /\ pc' = [pc EXCEPT ![d] = pc'[d]]
    BY <1>0, <1>4 DEF MatchStart
  <2> QED
    BY <2>1, StartMoves
<1>5. CASE StartRematch(d)
  <2>1. pc[d] \in {"agreed", "accepted"} /\ StartGame(d, phase[d] = "YourTurn") /\ pc' = [pc EXCEPT ![d] = pc'[d]]
    BY <1>0, <1>5, PassingTitle DEF StartRematch, Leads
  <2> QED
    BY <2>1, StartMoves
<1>6. CASE PassTurn(d)
  <2>1. Play(d, board[d]) /\ board' = board
    BY <1>6 DEF PassTurn, SendBoard
  <2>2. Sends(d, board[d])
    BY <2>1 DEF Sends, RematchTyped, MovesTyped
  <2> QED
    BY <2>2
<1>7. ASSUME NEW m \in Seat \cup {RoundOver, GameOver}, Tap(d, m) PROVE \E b : Sends(d, b)
  <2>1. /\ Play(d, board'[d]) /\ board' = [board EXCEPT ![d] = Append(board[d], m)]
    BY <1>7 DEF Tap, SendBoard
  <2>2. board'[d] = Append(board[d], m)
    BY <2>1 DEF RematchTyped, MovesTyped
  <2>3. Sends(d, Append(board[d], m))
    BY <2>1, <2>2 DEF Sends
  <2> QED
    BY <2>3
<1>8. CASE TakeState(d)
  BY <1>8
<1> QED
  BY <1>1, <1>2, <1>3, <1>4, <1>5, <1>6, <1>7, <1>8 DEF StepOf

\* What adopting a state means to both devices.
LEMMA AdoptsBoth ==
  ASSUME RematchTyped, Paired, TurnLaw, NEW d \in Device, NEW p \in net, HearState(d, p), p.seq > sequence[d]
  PROVE  \E e \in Device \ {d} :
           /\ p.from = e /\ p.type = "State"
           /\ sequence[e] = p.seq /\ sequence[e] > sequence[d] /\ ~myTurn[d] /\ ~myTurn[e]
           /\ sequence'[d] = p.seq /\ myTurn'[d]
           /\ incoming'[d].pending /\ incoming'[d].board = p.board
           /\ sequence'[e] = sequence[e] /\ myTurn'[e] = myTurn[e] /\ incoming'[e] = incoming[e]
           /\ outgoing'[d].seq < p.seq /\ outgoing[e].seq = p.seq
           /\ outgoing'[e] = outgoing[e] /\ board' = board
<1>1. /\ p.type = "State" /\ p.from = peer[d] /\ board' = board
      /\ incoming' = [incoming EXCEPT ![d] = [board |-> p.board, pending |-> TRUE]]
      /\ sequence' = [sequence EXCEPT ![d] = p.seq]
      /\ myTurn' = [myTurn EXCEPT ![d] = TRUE]
      /\ outgoing' = [outgoing EXCEPT ![d].pending = FALSE]
  BY DEF HearState, FromPeer, Newer
<1>2. PICK e \in Device \ {d} : e = p.from
  BY <1>1 DEF Paired
<1>3. sequence[d] \in Nat /\ sequence[e] \in Nat /\ p.seq \in Nat
  BY MoveNumbers DEF RematchTyped, NotesTyped
<1>4. p.seq <= sequence[e]
  BY <1>1, <1>2 DEF TurnLaw
<1>5. sequence[e] > sequence[d]
  BY <1>3, <1>4
<1>6. sequence[e] = sequence[d] + 1 /\ ~myTurn[d] /\ ~myTurn[e] /\ outgoing[e].seq = sequence[e]
  BY <1>5 DEF TurnLaw
<1>7. sequence[e] = p.seq
  BY <1>3, <1>4, <1>6
<1>8. /\ sequence'[d] = p.seq /\ myTurn'[d] /\ incoming'[d].pending /\ incoming'[d].board = p.board
      /\ sequence'[e] = sequence[e] /\ myTurn'[e] = myTurn[e] /\ incoming'[e] = incoming[e]
  BY <1>1, <1>2 DEF RematchTyped, MovesTyped
<1>9. outgoing'[d].seq = outgoing[d].seq /\ outgoing'[e] = outgoing[e]
  BY <1>1, <1>2 DEF RematchTyped, MovesTyped, Kept
<1>10. outgoing[d].seq <= sequence[d] /\ outgoing[d].seq \in Nat
  BY MoveNumbers DEF TurnLaw, RematchTyped
<1>11. outgoing'[d].seq < p.seq
  BY <1>3, <1>6, <1>7, <1>9, <1>10
<1> QED
  BY <1>1, <1>2, <1>5, <1>6, <1>7, <1>8, <1>9, <1>11

\* What sending a board means to both devices.
LEMMA SendsBoth ==
  ASSUME RematchTyped, TurnLaw, NEW d \in Device, NEW b, Sends(d, b), NEW e \in Device \ {d}
  PROVE  /\ Holds(d) /\ ~myTurn[e] /\ sequence[e] = sequence[d]
         /\ sequence'[d] = sequence[d] + 1 /\ sequence'[e] = sequence[e] /\ ~myTurn'[d] /\ ~myTurn'[e]
         /\ board'[d] = b /\ board'[e] = board[e] /\ incoming' = incoming
         /\ outgoing'[d].board = b /\ outgoing'[d].seq = sequence[d] + 1
         /\ net' = net \cup {StatePkt(d, sequence[d] + 1, b)}
<1>1. /\ myTurn[d] /\ ~incoming[d].pending
      /\ sequence' = [sequence EXCEPT ![d] = sequence[d] + 1]
      /\ outgoing' = [outgoing EXCEPT ![d] = [board |-> b, seq |-> sequence[d] + 1, pending |-> TRUE]]
      /\ myTurn' = [myTurn EXCEPT ![d] = FALSE] /\ incoming' = incoming
      /\ board' = [board EXCEPT ![d] = b] /\ net' = net \cup {StatePkt(d, sequence[d] + 1, b)}
  BY DEF Sends, Play, MayPlay, Send
<1>2. sequence[d] \in Nat /\ sequence[e] \in Nat /\ myTurn[d] \in BOOLEAN /\ myTurn[e] \in BOOLEAN
  BY MoveNumbers DEF RematchTyped
<1>3. ~(sequence[d] > sequence[e]) /\ ~(sequence[e] > sequence[d])
  BY <1>1 DEF TurnLaw
<1>4. sequence[e] = sequence[d]
  BY <1>2, <1>3
<1>5. ~myTurn[e]
  BY <1>1, <1>4 DEF TurnLaw
<1>6. /\ sequence'[d] = sequence[d] + 1 /\ sequence'[e] = sequence[e] /\ ~myTurn'[d] /\ ~myTurn'[e]
      /\ board'[d] = b /\ board'[e] = board[e]
      /\ outgoing'[d].board = b /\ outgoing'[d].seq = sequence[d] + 1
  BY <1>1, <1>5 DEF RematchTyped, MovesTyped
<1> QED
  BY <1>1, <1>4, <1>5, <1>6 DEF Holds

\* What taking a board means to both devices.
LEMMA TakesBoth ==
  ASSUME RematchTyped, TurnLaw, PassInv, BoardFlow, NEW d \in Device, TakeState(d), NEW e \in Device \ {d}
  PROVE  /\ myTurn[d] /\ ~myTurn[e] /\ sequence[e] = sequence[d] /\ incoming[d].pending
         /\ UNCHANGED <<myTurn, sequence, outgoing, net>>
         /\ board'[d] = board[e] /\ board'[d] = Latest(d) /\ board'[e] = board[e]
         /\ ~incoming'[d].pending /\ incoming'[e] = incoming[e]
<1>1. /\ incoming[d].pending /\ UNCHANGED <<myTurn, sequence, outgoing, net>>
      /\ incoming' = [incoming EXCEPT ![d].pending = FALSE]
      /\ board' = [board EXCEPT ![d] = incoming[d].board]
  BY DEF TakeState, TakeIncoming
<1>2. myTurn[d]
  BY <1>1 DEF PassInv, PassOK
<1>3. sequence[d] \in Nat /\ sequence[e] \in Nat /\ myTurn[d] \in BOOLEAN /\ myTurn[e] \in BOOLEAN
  BY MoveNumbers DEF RematchTyped
<1>4. ~(sequence[d] > sequence[e]) /\ ~(sequence[e] > sequence[d])
  BY <1>2 DEF TurnLaw
<1>5. sequence[e] = sequence[d]
  BY <1>3, <1>4
<1>6. ~myTurn[e]
  BY <1>2, <1>5 DEF TurnLaw
<1>7. Latest(d) = incoming[d].board /\ Latest(d) = board[e]
  BY <1>1, <1>2 DEF BoardFlow, Latest, TakeState
<1>8. /\ board'[d] = incoming[d].board /\ board'[e] = board[e]
      /\ ~incoming'[d].pending /\ incoming'[e] = incoming[e]
  BY <1>1 DEF RematchTyped, MovesTyped, Waits
<1> QED
  BY <1>1, <1>2, <1>5, <1>6, <1>7, <1>8

LEMMA FlowStep ==
  ASSUME RematchTyped, Paired, TurnLaw, TurnLaw', PassInv, BoardFlow, NEW d \in Device, StepOf(d),
         Adopts(d) \/ TakeState(d) \/ (\E b : Sends(d, b)) \/ Still(d)
  PROVE  BoardFlow'
<1>0. PICK e \in Device \ {d} : TRUE
  BY RematchAssumption
<1>1. Device = {d, e}
  BY RematchAssumption
<1>2. \A f \in Device : sequence[f] \in Nat
  BY MoveNumbers DEF RematchTyped
<1>3. \A p \in net : p.from \in Device /\ p.seq \in Nat
  BY DEF RematchTyped, NotesTyped
<1>8. Own(e)' = Own(e)
  BY OthersKeepOwn
<1> DEFINE Handed(a, b) ==
             a # b /\ myTurn[a] /\ pc[a] # "matched" =>
               /\ Latest(a) = board[b]
               /\ outgoing[b].board = board[b] /\ outgoing[b].seq > outgoing[a].seq
<1>4. CASE Still(d)
  <2>1. \A a, b \in Device : Handed(a, b)'
    BY <1>4 DEF Still, BoardFlow, Latest
  <2>2. \A a, b \in Device : sequence'[a] > sequence'[b] => outgoing'[a].board = board'[a]
    BY <1>4 DEF Still, BoardFlow
  <2>3. ASSUME NEW p \in net', NEW b \in Device, p.type = "State", p.seq = sequence'[p.from], p.seq > sequence'[b]
        PROVE  p.board = board'[p.from]
    <3>1. CASE p \in net
      BY <1>4, <2>3, <3>1 DEF Still, BoardFlow
    <3>2. CASE p.from = d /\ p.seq = outgoing[d].seq /\ p.board = outgoing[d].board
      BY <1>4, <2>3, <3>2 DEF Still, BoardFlow
    <3> QED
      BY <1>4, <2>3, <3>1, <3>2 DEF Still
  <2> QED
    BY <2>1, <2>2, <2>3 DEF BoardFlow
<1>5. CASE Adopts(d)
  <2>1. PICK p \in net : HearState(d, p) /\ p.seq > sequence[d]
    BY <1>5 DEF Adopts
  <2>2. /\ p.from = e /\ p.type = "State"
        /\ sequence[e] = p.seq /\ sequence[e] > sequence[d] /\ ~myTurn[d] /\ ~myTurn[e]
        /\ sequence'[d] = p.seq /\ myTurn'[d]
        /\ incoming'[d].pending /\ incoming'[d].board = p.board
        /\ sequence'[e] = sequence[e] /\ myTurn'[e] = myTurn[e] /\ incoming'[e] = incoming[e]
        /\ outgoing'[d].seq < p.seq /\ outgoing[e].seq = p.seq
        /\ outgoing'[e] = outgoing[e] /\ board' = board
    BY <1>1, <2>1, AdoptsBoth
  <2>3. p.board = board[e] /\ outgoing[e].board = board[e]
    BY <2>1, <2>2 DEF BoardFlow
  <2>9. p.seq > outgoing'[d].seq
    <3>1. p.seq \in Nat /\ outgoing'[d].seq \in Nat
      BY <1>3, <2>1 DEF HearState, RematchTyped, MovesTyped, Kept, moveVars
    <3> QED
      BY <2>2, <3>1
  <2>4. \A a, b \in Device : Handed(a, b)'
    BY <1>1, <2>2, <2>3, <2>9 DEF Latest
  <2>5. \A f \in Device : sequence'[f] = p.seq
    BY <1>1, <2>2
  <2>6. \A f, g \in Device : ~(sequence'[f] > sequence'[g])
    BY <1>3, <2>1, <2>5
  <2>7. \A q \in net' : q.type = "State" => q.from \in Device
    <3>1. \A q \in net' : q \in net \/ q.type = "Ack"
      BY <2>1 DEF HearState, AckCopy, Send, Pkt
    <3> QED
      BY <1>3, <3>1
  <2>8. \A q \in net' : \A b \in Device : ~(q.type = "State" /\ q.seq = sequence'[q.from] /\ q.seq > sequence'[b])
    BY <2>6, <2>7
  <2> QED
    BY <2>4, <2>6, <2>8 DEF BoardFlow
<1>6. CASE TakeState(d)
  <2>1. /\ myTurn[d] /\ ~myTurn[e] /\ sequence[e] = sequence[d]
        /\ UNCHANGED <<myTurn, sequence, outgoing, net>>
        /\ board'[d] = board[e] /\ board'[e] = board[e] /\ ~incoming'[d].pending
    BY <1>6, TakesBoth
  <2>5. outgoing[e].board = board[e] /\ outgoing[e].seq > outgoing[d].seq
    BY <1>6, <2>1 DEF BoardFlow, TakeState
  <2>2. \A a, b \in Device : Handed(a, b)'
    BY <1>1, <2>1, <2>5 DEF Latest
  <2>3. \A f, g \in Device : ~(sequence'[f] > sequence'[g])
    BY <1>1, <1>2, <2>1
  <2>4. \A q \in net' : \A b \in Device : ~(q.seq = sequence'[q.from] /\ q.seq > sequence'[b])
    BY <1>3, <2>1, <2>3
  <2> QED
    BY <2>2, <2>3, <2>4 DEF BoardFlow
<1>7. ASSUME NEW b, Sends(d, b) PROVE BoardFlow'
  <2> DEFINE q == StatePkt(d, sequence[d] + 1, b)
  <2>1. /\ sequence[e] = sequence[d]
        /\ sequence'[d] = sequence[d] + 1 /\ sequence'[e] = sequence[e] /\ ~myTurn'[d] /\ ~myTurn'[e]
        /\ board'[d] = b /\ board'[e] = board[e]
        /\ outgoing'[d].board = b /\ net' = net \cup {q}
    BY <1>7, SendsBoth
  <2>2. q.from = d /\ q.board = b
    BY DEF StatePkt, Pkt
  <2> HIDE DEF q
  <2>3. \A f, g \in Device : sequence'[f] > sequence'[g] => f = d
    BY <1>1, <1>2, <2>1
  <2>4. \A p \in net : p.type = "State" => p.seq <= sequence[d]
    BY <1>1, <2>1 DEF TurnLaw, RematchTyped, NotesTyped
  <2>5. ASSUME NEW p \in net', NEW c \in Device, p.type = "State", p.seq = sequence'[p.from], p.seq > sequence'[c]
        PROVE  p.board = board'[p.from]
    <3>1. CASE p = q
      BY <2>1, <2>2, <3>1
    <3>2. CASE p \in net
      <4>1. p.seq <= sequence[d] /\ p.seq \in Nat /\ sequence[d] \in Nat
        BY <1>2, <1>3, <2>4, <2>5, <3>2
      <4>2. sequence'[c] >= sequence[d] /\ sequence'[c] \in Nat
        BY <1>1, <1>2, <2>1
      <4> QED
        BY <2>5, <4>1, <4>2
    <3> QED
      BY <2>1, <3>1, <3>2
  <2> QED
    BY <1>1, <2>1, <2>3, <2>5 DEF BoardFlow
<1> QED
  BY <1>4, <1>5, <1>6, <1>7

LEMMA FlowInit == RematchInit => BoardFlow
<1> SUFFICES ASSUME RematchInit PROVE BoardFlow
  OBVIOUS
<1>1. /\ \A d \in Device : sequence[d] = 0 /\ pc[d] = "matched"
      /\ net = {}
  BY DEF RematchInit
<1> QED
  BY <1>1 DEF BoardFlow

LEMMA FlowNext ==
  ASSUME Passes
  PROVE  RematchTyped /\ Paired /\ TurnLaw /\ TurnLaw' /\ PassInv /\ BoardFlow
           /\ [RematchNext]_allVars => BoardFlow'
<1> SUFFICES ASSUME RematchTyped, Paired, TurnLaw, TurnLaw', PassInv, BoardFlow, [RematchNext]_allVars
             PROVE  BoardFlow'
  OBVIOUS
<1>1. CASE UNCHANGED allVars
  BY <1>1 DEF BoardFlow, Latest, allVars, vars, moveVars, rematchVars
<1>2. ASSUME NEW d \in Device, StepOf(d) PROVE BoardFlow'
  BY <1>2, StepKinds, FlowStep
<1>3. RematchNext => \E d \in Device : StepOf(d)
  BY DEF RematchNext, StepOf
<1> QED
  BY <1>1, <1>2, <1>3

LEMMA FlowAlways == ASSUME Passes PROVE RematchSpec => []BoardFlow
  BY FlowInit, FlowNext, PairedAlways, TurnAlways, PassAlways, RematchTypes, PTL DEF RematchSpec

\* Where a game deals at once, both devices see one board whenever nothing is on
\* its way, whoever deals, passes or starts over, and whatever was left over on
\* either board before the match (JaipurActivity.cpp:248-257, 277-282).
THEOREM OneBoardAtRest == ASSUME Passes PROVE RematchSpec => []SameBoardAtRest
<1>1. RematchTyped /\ TurnLaw /\ BoardFlow => SameBoardAtRest
  <2> SUFFICES ASSUME RematchTyped, TurnLaw, BoardFlow, AtRest
               PROVE  \A a, b \in Device : board[a] = board[b]
    BY DEF SameBoardAtRest
  <2>1. PICK d \in Device, e \in Device : d # e /\ myTurn[d]
    BY RestTurn
  <2>2. board[d] = board[e]
    BY <2>1 DEF BoardFlow, AtRest, Latest
  <2>3. Device = {d, e}
    BY <2>1, RematchAssumption
  <2> QED
    BY <2>2, <2>3
<1> QED
  BY <1>1, FlowAlways, TurnAlways, RematchTypes, PTL

-----------------------------------------------------------------------------
(* A pass and the answer to it, in the first game of a match.              *)

Tossed == \A a, b \in Device : isHost[a] \in BOOLEAN /\ (a # b => isHost[a] # isHost[b])

LEMMA HostSame ==
  ASSUME NEW d \in Device, StepOf(d)
  PROVE  isHost' = isHost
<1>1. CASE (\E p \in net : Hear(d, p)) \/ Retry(d)
  BY <1>1 DEF Hear, HearState, HearAck, HearSay, HearSayAck, Retry, RetryState, RetrySay, matchVars
<1>2. CASE MatchStart(d) \/ StartRematch(d) \/ PassTurn(d) \/ \E m \in Seat \cup {RoundOver, GameOver} : Tap(d, m)
  BY <1>2 DEF MatchStart, StartRematch, StartGame, PassTurn, Tap, SendBoard, SendNothing, Play, idleVars, matchVars
<1>3. CASE \/ Update(d) \/ HearAgain(d) \/ TakeState(d) \/ Question(d) \/ NoTap(d) \/ ProposeRematch(d)
  BY <1>3 DEF Update, HearAgain, TakeAnnouncement, TakeState, TakeIncoming, Question, NoTap, ProposeRematch,
              Announce, vars, matchVars
<1> QED
  BY <1>1, <1>2, <1>3 DEF StepOf

LEMMA TossedAlways == RematchSpec => []Tossed
<1>1. RematchInit => Tossed
  <2> SUFFICES ASSUME RematchInit, NEW a \in Device, NEW b \in Device
               PROVE  isHost[a] \in BOOLEAN /\ (a # b => isHost[a] # isHost[b])
    BY DEF Tossed
  <2>1. PICK host \in Device : isHost = [d \in Device |-> d = host]
    BY DEF RematchInit
  <2>2. a # b => (a = host /\ b # host) \/ (b = host /\ a # host)
    BY RematchAssumption
  <2> QED
    BY <2>1, <2>2
<1>2. Tossed /\ [RematchNext]_allVars => Tossed'
  <2> SUFFICES ASSUME Tossed, [RematchNext]_allVars PROVE Tossed'
    OBVIOUS
  <2>1. RematchNext => \E d \in Device : StepOf(d)
    BY DEF RematchNext, StepOf
  <2>2. isHost' = isHost
    BY <2>1, HostSame DEF allVars, vars, matchVars
  <2> QED
    BY <2>2 DEF Tossed
<1> QED
  BY <1>1, <1>2, PTL DEF RematchSpec

\* Nothing moves before the match starts here; the first game's seat is the
\* toss's; and a device passes a board it holds and is not to move on.
FirstOK(d) ==
  /\ pc[d] = "matched" => sequence[d] = 0
  /\ outgoing[d].seq = 0 => outgoing[d].board = <<>>
  /\ restarts[d] = 0 /\ pc[d] # "matched" => seat[d] = SeatOf(isHost[d])
  /\ pc[d] = "pass" => Holds(d) /\ Nothing(d, board[d])

FirstInv == \A d \in Device : FirstOK(d)

LEMMA FirstInit == RematchInit => FirstInv
  BY DEF RematchInit, FirstInv, FirstOK, NoOutgoing

LEMMA FirstStep ==
  ASSUME RematchTyped, PassInv, FirstInv, NEW d \in Device, StepOf(d)
  PROVE  FirstOK(d)'
<1>0. /\ pc \in [Device -> Place] /\ seat \in [Device -> {0, 1}] /\ restarts \in [Device -> Nat]
      /\ board \in [Device -> Boards] /\ sequence \in [Device -> Nat]
      /\ incoming \in [Device -> Waits] /\ outgoing \in [Device -> Kept]
  BY DEF RematchTyped, PassTyped, MovesTyped
<1>1. FirstOK(d)
  BY DEF FirstInv
<1>2. isHost' = isHost
  BY HostSame
<1>3. CASE (\E p \in net : Hear(d, p)) \/ Retry(d)
  <2>1. /\ pc[d] = "tick" /\ UNCHANGED rematchVars
        /\ outgoing' = outgoing \/ outgoing' = [outgoing EXCEPT ![d].pending = FALSE]
    BY <1>3 DEF Hear, HearState, HearAck, HearSay, HearSayAck, Retry, RetryState, RetrySay, moveVars
  <2>2. outgoing'[d].seq = outgoing[d].seq /\ outgoing'[d].board = outgoing[d].board
    BY <1>0, <2>1 DEF Kept
  <2> QED
    BY <1>1, <1>2, <2>1, <2>2 DEF FirstOK, rematchVars
<1>4. CASE Update(d) \/ HearAgain(d) \/ Question(d) \/ NoTap(d) \/ ProposeRematch(d)
  <2>1. UNCHANGED <<seat, restarts, outgoing>>
    BY <1>4 DEF Update, HearAgain, TakeAnnouncement, Question, NoTap, ProposeRematch, Announce, vars, moveVars
  <2>2. pc[d] # "matched" /\ pc'[d] \notin {"matched", "pass"}
    BY <1>0, <1>4 DEF Update, HearAgain, Question, NoTap, ProposeRematch, AfterNotes, AfterState
  <2> QED
    BY <1>1, <1>2, <2>1, <2>2 DEF FirstOK
<1>5. CASE TakeState(d)
  <2>1. /\ pc[d] = "take" /\ incoming[d].pending /\ UNCHANGED <<seat, restarts, outgoing, myTurn>>
        /\ board'[d] = incoming[d].board /\ ~incoming'[d].pending
        /\ pc'[d] \in {"pass", "question", "input"} /\ (pc'[d] = "pass" => Nothing(d, incoming[d].board))
    BY <1>0, <1>5 DEF TakeState, TakeIncoming, AfterState, Waits
  <2>2. myTurn[d]
    BY <2>1 DEF PassInv, PassOK
  <2>3. pc'[d] = "pass" => Nothing(d, board[d])'
    BY <2>1 DEF Nothing
  <2> QED
    BY <1>1, <1>2, <2>1, <2>2, <2>3 DEF FirstOK, Holds
<1>6. CASE PassTurn(d) \/ \E m \in Seat \cup {RoundOver, GameOver} : Tap(d, m)
  <2>1. /\ \E b : Play(d, b)
        /\ UNCHANGED <<seat, restarts>> /\ pc[d] # "matched" /\ pc'[d] \notin {"matched", "pass"}
    BY <1>0, <1>6 DEF PassTurn, Tap, SendBoard, AfterState
  <2>2. outgoing'[d].seq = sequence[d] + 1
    BY <1>0, <2>1 DEF Play
  <2> QED
    BY <1>0, <1>1, <1>2, <2>1, <2>2 DEF FirstOK
<1>7. CASE MatchStart(d) \/ StartRematch(d)
  <2>1. /\ (\E b : Play(d, b)) \/ outgoing' = outgoing
        /\ pc'[d] \notin {"matched", "pass"}
    BY <1>0, <1>7 DEF MatchStart, StartRematch, StartGame, SendBoard, SendNothing, moveVars, AfterNotes, AfterState
  <2>2. (outgoing'[d].seq = sequence[d] + 1) \/ outgoing' = outgoing
    BY <1>0, <2>1 DEF Play
  <2>3. restarts'[d] = 0 => seat'[d] = SeatOf(isHost[d])
    <3>1. CASE MatchStart(d)
      BY <1>0, <3>1 DEF MatchStart, StartGame
    <3>2. CASE StartRematch(d)
      <4>1. restarts'[d] = restarts[d] + 1
        BY <1>0, <3>2 DEF StartRematch
      <4> QED
        BY <1>0, <4>1
    <3> QED
      BY <1>7, <3>1, <3>2
  <2> QED
    BY <1>0, <1>1, <1>2, <2>1, <2>2, <2>3 DEF FirstOK
<1> QED
  BY <1>3, <1>4, <1>5, <1>6, <1>7 DEF StepOf

LEMMA OthersKeepFirst ==
  ASSUME RematchTyped, NEW d \in Device, NEW e \in Device \ {d}, StepOf(d)
  PROVE  Own(e)' = Own(e) /\ sequence'[e] = sequence[e] /\ restarts'[e] = restarts[e]
<1>1. Own(e)' = Own(e)
  BY OthersKeepOwn
<1>2. restarts \in [Device -> Nat] /\ sequence \in [Device -> Nat]
  BY DEF RematchTyped, PassTyped, MovesTyped
<1>3. CASE (\E p \in net : Hear(d, p)) \/ Retry(d)
  BY <1>1, <1>2, <1>3 DEF Hear, HearState, HearAck, HearSay, HearSayAck, Retry, RetryState, RetrySay, rematchVars,
                          moveVars
<1>4. CASE Update(d) \/ HearAgain(d) \/ TakeState(d) \/ Question(d) \/ NoTap(d) \/ ProposeRematch(d)
  BY <1>1, <1>2, <1>4 DEF Update, HearAgain, TakeAnnouncement, TakeState, TakeIncoming, Question, NoTap,
                          ProposeRematch, Announce, vars, moveVars
<1>5. CASE MatchStart(d) \/ StartRematch(d) \/ PassTurn(d) \/ \E m \in Seat \cup {RoundOver, GameOver} : Tap(d, m)
  <2>1. (\E b : Play(d, b)) \/ UNCHANGED sequence
    BY <1>5 DEF MatchStart, StartRematch, StartGame, PassTurn, Tap, SendBoard, SendNothing, moveVars
  <2>2. sequence'[e] = sequence[e]
    BY <1>2, <2>1 DEF Play
  <2>3. restarts'[e] = restarts[e]
    BY <1>2, <1>5 DEF MatchStart, StartRematch, PassTurn, Tap
  <2> QED
    BY <1>1, <2>2, <2>3
<1> QED
  BY <1>3, <1>4, <1>5 DEF StepOf

LEMMA FirstNext == RematchTyped /\ PassInv /\ FirstInv /\ [RematchNext]_allVars => FirstInv'
<1> SUFFICES ASSUME RematchTyped, PassInv, FirstInv, [RematchNext]_allVars PROVE FirstInv'
  OBVIOUS
<1>1. CASE UNCHANGED allVars
  BY <1>1 DEF FirstInv, FirstOK, Holds, Nothing, allVars, vars, rematchVars, matchVars, moveVars
<1>2. ASSUME NEW d \in Device, StepOf(d) PROVE FirstInv'
  <2>1. FirstOK(d)'
    BY <1>2, FirstStep
  <2>2. ASSUME NEW e \in Device \ {d} PROVE FirstOK(e)'
    BY <1>2, OthersKeepFirst DEF FirstInv, FirstOK, Own, Holds, Nothing
  <2> QED
    BY <2>1, <2>2 DEF FirstInv
<1>3. RematchNext => \E d \in Device : StepOf(d)
  BY DEF RematchNext, StepOf
<1> QED
  BY <1>1, <1>2, <1>3

LEMMA FirstAlways == RematchSpec => []FirstInv
  BY FirstInit, FirstNext, PassAlways, RematchTypes, PTL DEF RematchSpec

\* Of a state sent back as it came, its sender had nothing to do.
BackOK(a, b) ==
  outgoing[b].seq > outgoing[a].seq /\ outgoing[b].board = outgoing[a].board => Nothing(b, outgoing[b].board)

FirstGame == \A d \in Device : restarts[d] = 0
BackInv == FirstGame => \A a, b \in Device : a # b => BackOK(a, b)

LEMMA BackInit == RematchInit => BackInv
  BY DEF RematchInit, BackInv, BackOK, NoOutgoing

\* What a device sends, the other has not sent later.
LEMMA BackSends ==
  ASSUME RematchTyped, TurnLaw, NEW d \in Device, NEW s, Sends(d, s), NEW e \in Device \ {d},
         outgoing[e].board = s => Nothing(d, s)'
  PROVE  BackOK(e, d)' /\ BackOK(d, e)'
<1>1. /\ sequence[e] = sequence[d]
      /\ outgoing'[d].board = s /\ outgoing'[d].seq = sequence[d] + 1
  BY SendsBoth
<1>2. outgoing'[e] = outgoing[e]
  BY DEF Sends, Play, RematchTyped, MovesTyped
<1>3. outgoing[e].seq <= sequence[e] /\ outgoing[e].seq \in Nat /\ sequence[d] \in Nat
  BY MoveNumbers DEF TurnLaw, RematchTyped
<1>4. ~(outgoing'[e].seq > outgoing'[d].seq)
  BY <1>1, <1>2, <1>3
<1>5. outgoing'[d].board = outgoing'[e].board => Nothing(d, outgoing[d].board)'
  BY <1>1, <1>2 DEF Nothing
<1> QED
  BY <1>4, <1>5 DEF BackOK

LEMMA LongerBoard ==
  ASSUME NEW s \in Boards, NEW m \in Seat \cup {RoundOver, GameOver}
  PROVE  Append(s, m) # s
<1>1. s \in Seq(Nat) /\ m \in Nat
  BY DEF Boards, Seat, RoundOver, GameOver
<1>2. Len(Append(s, m)) = Len(s) + 1 /\ Len(s) \in Nat
  BY <1>1, AppendProperties, LenProperties
<1> QED
  BY <1>2

LEMMA BackStep ==
  ASSUME RematchTyped, Paired, TurnLaw, PassInv, BoardFlow, FirstInv, BackInv, Passes,
         NEW d \in Device, StepOf(d)
  PROVE  BackInv'
<1>0. /\ pc \in [Device -> Place] /\ seat \in [Device -> {0, 1}] /\ restarts \in [Device -> Nat]
      /\ board \in [Device -> Boards] /\ outgoing \in [Device -> Kept]
  BY DEF RematchTyped, PassTyped, MovesTyped
<1>1. PICK e \in Device \ {d} : TRUE
  BY RematchAssumption
<1>2. Device = {d, e}
  BY RematchAssumption
<1>3. FirstOK(d) /\ FirstOK(e)
  BY DEF FirstInv
<1>4. \A f \in Device : outgoing[f].seq \in Nat /\ sequence[f] \in Nat /\ outgoing[f].seq <= sequence[f]
  BY MoveNumbers DEF RematchTyped, TurnLaw
<1>5. SUFFICES ASSUME FirstGame' PROVE BackOK(d, e)' /\ BackOK(e, d)'
  BY <1>2 DEF BackInv
<1>6. CASE \/ \E p \in net : Hear(d, p)
           \/ Retry(d) \/ Update(d) \/ HearAgain(d) \/ TakeState(d) \/ Question(d) \/ NoTap(d) \/ ProposeRematch(d)
  <2>1. UNCHANGED <<seat, restarts>>
    BY <1>6 DEF Hear, Retry, Update, HearAgain, TakeState, Question, NoTap, ProposeRematch, rematchVars
  <2>2. outgoing' = outgoing \/ outgoing' = [outgoing EXCEPT ![d].pending = FALSE]
    BY <1>6 DEF Hear, HearState, HearAck, HearSay, HearSayAck, Retry, RetryState, RetrySay, Update, HearAgain,
                TakeAnnouncement, TakeState, TakeIncoming, Question, NoTap, ProposeRematch, Announce, vars, moveVars
  <2>3. \A f \in Device : outgoing'[f].seq = outgoing[f].seq /\ outgoing'[f].board = outgoing[f].board
    BY <1>0, <2>2 DEF Kept
  <2>4. FirstGame
    BY <1>5, <2>1 DEF FirstGame
  <2>5. BackOK(d, e) /\ BackOK(e, d)
    BY <1>2, <2>4 DEF BackInv
  <2> QED
    BY <2>1, <2>3, <2>5 DEF BackOK, Nothing
<1>7. CASE MatchStart(d)
  <2>1. /\ pc[d] = "matched" /\ StartGame(d, isHost[d]) /\ pc' = [pc EXCEPT ![d] = pc'[d]] /\ restarts' = restarts
    BY <1>0, <1>7 DEF MatchStart
  <2>2. Sends(d, <<DealBy(d)>>) \/ (Still(d) /\ outgoing' = outgoing)
    BY <2>1, StartMoves
  <2>3. sequence[d] = 0 /\ outgoing[d].seq = 0
    BY <1>3, <1>4, <2>1 DEF FirstOK
  <2>4. CASE Sends(d, <<DealBy(d)>>)
    <3>1. sequence[e] = sequence[d]
      BY <2>4, SendsBoth
    <3>2. outgoing[e].seq = 0
      BY <1>4, <2>3, <3>1
    <3>3. outgoing[e].board # <<DealBy(d)>>
      BY <1>3, <3>2 DEF FirstOK
    <3> QED
      BY <1>1, <2>4, <3>3, BackSends
  <2>5. CASE Still(d) /\ outgoing' = outgoing
    <3>1. ~(outgoing[d].seq > outgoing[e].seq)
      BY <1>4, <2>3
    <3>2. seat'[e] = seat[e]
      BY <1>0, <1>1, <2>1 DEF StartGame
    <3>3. BackOK(d, e)
      BY <1>2, <1>5, <2>1 DEF BackInv, FirstGame
    <3> QED
      BY <2>5, <3>1, <3>2, <3>3 DEF BackOK, Nothing
  <2> QED
    BY <2>2, <2>4, <2>5
<1>8. CASE StartRematch(d)
  <2>1. restarts'[d] = restarts[d] + 1
    BY <1>0, <1>8 DEF StartRematch
  <2> QED
    BY <1>0, <1>5, <2>1 DEF FirstGame
<1>9. CASE PassTurn(d)
  <2>1. pc[d] = "pass" /\ Play(d, board[d]) /\ UNCHANGED <<board, seat>>
    BY <1>9 DEF PassTurn, SendBoard
  <2>2. Nothing(d, board[d])
    BY <1>3, <2>1 DEF FirstOK
  <2>3. Nothing(d, board[d])'
    BY <2>1, <2>2 DEF Nothing
  <2>4. Sends(d, board[d])
    BY <1>0, <2>1 DEF Sends
  <2>5. outgoing[e].board = board[d] => Nothing(d, board[d])'
    BY <2>3
  <2> QED
    BY <1>1, <2>1, <2>4, <2>5, BackSends
<1>10. ASSUME NEW m \in Seat \cup {RoundOver, GameOver}, Tap(d, m) PROVE BackOK(d, e)' /\ BackOK(e, d)'
  <2> DEFINE s == Append(board[d], m)
  <2>1. pc[d] = "input" /\ Play(d, s) /\ board' = [board EXCEPT ![d] = s]
    <3>1. pc[d] = "input" /\ Play(d, board'[d]) /\ board' = [board EXCEPT ![d] = s]
      BY <1>10 DEF Tap, SendBoard
    <3> QED
      BY <1>0, <3>1
  <2>2. Holds(d)
    BY <2>1, PlayOwn
  <2>3. board[d] = outgoing[e].board
    BY <1>1, <2>1, <2>2 DEF BoardFlow, Holds, Latest
  <2>4. s # board[d]
    BY <1>0, LongerBoard
  <2>5. Sends(d, s)
    BY <2>1 DEF Sends
  <2> HIDE DEF s
  <2> QED
    BY <1>1, <2>3, <2>4, <2>5, BackSends
<1> QED
  BY <1>6, <1>7, <1>8, <1>9, <1>10 DEF StepOf

LEMMA BackNext ==
  ASSUME Passes
  PROVE  RematchTyped /\ Paired /\ TurnLaw /\ PassInv /\ BoardFlow /\ FirstInv /\ BackInv
           /\ [RematchNext]_allVars => BackInv'
<1> SUFFICES ASSUME RematchTyped, Paired, TurnLaw, PassInv, BoardFlow, FirstInv, BackInv, [RematchNext]_allVars
             PROVE  BackInv'
  OBVIOUS
<1>1. CASE UNCHANGED allVars
  BY <1>1 DEF BackInv, BackOK, FirstGame, Nothing, allVars, vars, moveVars, rematchVars
<1>2. ASSUME NEW d \in Device, StepOf(d) PROVE BackInv'
  BY <1>2, BackStep
<1>3. RematchNext => \E d \in Device : StepOf(d)
  BY DEF RematchNext, StepOf
<1> QED
  BY <1>1, <1>2, <1>3

LEMMA BackAlways == ASSUME Passes PROVE RematchSpec => []BackInv
  BY BackInit, BackNext, PairedAlways, TurnAlways, PassAlways, FlowAlways, FirstAlways, RematchTypes, PTL
     DEF RematchSpec

\* While the seats are those of the toss, a pass is never passed back: a device
\* that hands over a turn it cannot use was not itself handed that very state by
\* the other device's pass (JaipurActivity.cpp:268-272).
THEOREM NoPassBack == ASSUME Passes PROVE RematchSpec => []PassesOnce
<1>1. RematchTyped /\ Tossed /\ TurnLaw /\ BoardFlow /\ FirstInv /\ BackInv => PassesOnce
  <2> SUFFICES ASSUME RematchTyped, Tossed, TurnLaw, BoardFlow, FirstInv, BackInv, FirstGame,
                      NEW d \in Device, pc[d] = "pass", outgoing[d].board = board[d]
               PROVE  FALSE
    BY DEF PassesOnce, FirstGame
  <2>1. PICK e \in Device : e # d
    BY RematchAssumption
  <2>2. Holds(d) /\ Nothing(d, board[d])
    BY DEF FirstInv, FirstOK
  <2>3. board[d] = board[e] /\ outgoing[e].board = board[e] /\ outgoing[e].seq > outgoing[d].seq
    BY <2>1, <2>2 DEF BoardFlow, Holds, Latest
  <2>4. Nothing(e, board[d])
    BY <2>1, <2>3 DEF BackInv, BackOK
  <2>5. pc[e] # "matched"
    <3>1. outgoing[e].seq \in Nat /\ outgoing[d].seq \in Nat /\ outgoing[e].seq <= sequence[e]
      BY MoveNumbers DEF RematchTyped, TurnLaw
    <3>2. sequence[e] # 0
      BY <2>3, <3>1
    <3> QED
      BY <3>2 DEF FirstInv, FirstOK
  <2>6. seat[d] = SeatOf(isHost[d]) /\ seat[e] = SeatOf(isHost[e])
    BY <2>5 DEF FirstInv, FirstOK, FirstGame
  <2>7. isHost[d] # isHost[e] /\ isHost[d] \in BOOLEAN /\ isHost[e] \in BOOLEAN
    BY <2>1 DEF Tossed
  <2>8. {seat[d], seat[e]} = {0, 1}
    BY <2>6, <2>7 DEF SeatOf
  <2>9. ToMove(board[d]) \in {0, 1}
    BY <2>2 DEF Nothing, InPlay, ToMove, Seat, Opener
  <2> QED
    BY <2>2, <2>4, <2>8, <2>9 DEF Nothing
<1> QED
  BY <1>1, TossedAlways, TurnAlways, FlowAlways, FirstAlways, BackAlways, RematchTypes, PTL
=============================================================================
