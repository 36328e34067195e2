--------------------------- MODULE LinkLiveness ---------------------------
(***************************************************************************)
(* What LinkSession eventually does, over an air that may lose any packet. *)
(*                                                                         *)
(* Both players stay: nobody leaves, no battery dies, and the ten seconds  *)
(* of silence that end a match do not pass.  tick() runs on every loop     *)
(* pass, so its timers are fair.  The air is fair-lossy: what is sent      *)
(* again and again is heard in the end - except the Hellos, which may all  *)
(* be lost in one direction.  Notes are left out: their channel is the     *)
(* turn's, with a counter of its own.                                      *)
(***************************************************************************)
EXTENDS LinkSession

Lose(p) ==
  /\ net' = net \ {p}
  /\ UNCHANGED <<lifeVars, matchVars, moveVars, noteVars, board>>

StayingLocal(d) ==
  \/ \E g \in Game, t \in Toss : Begin(d, g, t)
  \/ \E m \in Move : Submit(d, m)
  \/ TakeIncoming(d)

StayingTimer(d) ==
  \/ ForgetCandidate(d) \/ SendHello(d) \/ SendJoin(d)
  \/ RetryState(d) \/ Heartbeat(d)

StayingReceive(d, p) ==
  \/ HearHello(d, p) \/ HearJoin(d, p) \/ HearFromMatched(d, p)
  \/ AnswerJoin(d, p) \/ HearState(d, p) \/ HearAck(d, p)
  \/ HearPeerHello(d, p)

Staying ==
  \/ \E d \in Device :
       StayingLocal(d) \/ StayingTimer(d) \/ \E p \in net : StayingReceive(d, p)
  \/ \E p \in net : Lose(p)

\* A candidate is forgotten after 3 s and courted every 200 ms, so a Join goes
\* out even if the candidate comes and goes: strong fairness for SendJoin.
FairMatching(d) ==
  /\ WF_vars(SendHello(d)) /\ SF_vars(SendJoin(d)) /\ WF_vars(Heartbeat(d))
  /\ SF_vars(\E p \in net : HearJoin(d, p) \/ HearFromMatched(d, p))

\* Every number is heard that is sent for ever, and acknowledged for ever.
FairMoves(d) ==
  /\ WF_vars(RetryState(d))
  /\ \A s \in 1..MaxMoves :
       /\ SF_vars(\E p \in net : p.seq = s /\ HearState(d, p))
       /\ SF_vars(\E p \in net : p.seq = s /\ HearAck(d, p))

LossySpec == Init /\ [][Staying]_vars

\* The air carries Hellos one way at least; the other way it may lose each one.
HellosOneWay == \E d \in Device : SF_vars(\E p \in net : HearHello(d, p))

LiveSpec ==
  /\ LossySpec
  /\ HellosOneWay
  /\ \A d \in Device : FairMatching(d) /\ FairMoves(d)
-----------------------------------------------------------------------------
\* Two devices looking for the same game find each other, even if one never
\* hears the other's Hello (LinkSession.cpp:156-159).
MatchForms ==
  (\A d \in Device : state[d] = "Searching")
     ~> (\A a, b \in Device : a # b => Mutual(a, b))

\* A move is retried until the peer has it: it is not pending forever while the
\* two stay matched (LinkSession.cpp:238-239).
MoveSettles ==
  \A a \in Device :
    (Mutual(a, peer[a]) /\ outgoing[a].pending)
       ~> ~(Mutual(a, peer[a]) /\ outgoing[a].pending)
=============================================================================
