-------------------------- MODULE CardTableProofs --------------------------
(***************************************************************************)
(* Match control, for a table of any size and any settings: the clock that *)
(* runs is the one of the phase shown, a block names somebody who is       *)
(* really waited for, votes belong to a finished match, and a paused table *)
(* stands still.                                                           *)
(*                                                                         *)
(* One lemma says what tick() makes of any game and table it may be handed *)
(* (Ready); then every handler is shown to hand it such a pair.            *)
(***************************************************************************)
EXTENDS CardTable, CardGameProofs

FreshLobby(g) ==
  g.phase = "Lobby" => g.submitted = {} /\ g.points = [s \in Seat |-> 0]
Good(g) == Sound(g) /\ Waiting(g) /\ FreshLobby(g)

Fits(phase, clock) == clock \in {"None", ClockOf(phase, AnySettings)}
Current(g, t) ==
  (t.votes # {} \/ t.ended => g.phase = "Finished") /\ t.votes \subseteq g.seated
Real(g, t) ==
  t.blockedOn # kNone => Needed(g, t.blockedOn) /\ t.blockedOn \notin g.connected

\* A handler that does not tick leaves the phase as the last tick saw it, unless
\* the next round began and its dealing failed.
Seen(g, t) ==
  \/ ~Entered(g, t) /\ Fits(g.phase, t.clock)
  \/ g.phase = "Playing" /\ t.lastPhase = "Reveal" /\ g.round = t.lastRound + 1

Settled(g, t) ==
  Good(g) /\ t \in TableType /\ Current(g, t) /\ Real(g, t) /\ Seen(g, t)
TableInv == Settled(game, table)

\* What tick() may be handed.
Ready(g, t) ==
  /\ Good(g) /\ t \in TableType /\ t.votes \subseteq g.seated
  /\ Entered(g, t) \/ Fits(g.phase, t.clock)
  /\ t.votes # {} \/ t.ended => g.phase = "Finished" \/ t.lastPhase = "Finished"
-----------------------------------------------------------------------------
(* tick()                                                                  *)

LEMMA Clocks ==
  /\ \A phase \in Phase, s \in SettingsType :
       /\ ClockOf(phase, s) \in Clock
       /\ Fits(phase, ClockOf(phase, s))
  /\ \A phase \in Phase, clock \in Clock : Fits(phase, clock) /\ clock # "None" =>
       \/ clock = "Answers" /\ phase = "Playing"
       \/ clock = "Juror" /\ phase = "Judging"
       \/ clock = "Next" /\ phase = "Reveal"
BY DEF ClockOf, Clock, Phase, Fits, SettingsType, AnySettings

\* What the operations make of the phase, the round and the seats.
LEMMA Phases ==
  ASSUME NEW g \in GameType
  PROVE  /\ CloseSubmissions(g).phase = "Judging" /\ CloseSubmissions(g).round = g.round
         /\ AbortRound(g).phase = "Reveal" /\ AbortRound(g).round = g.round
         /\ Finish(g).phase = "Finished" /\ Finish(g).round = g.round
         /\ CloseSubmissions(g).seated = g.seated /\ AbortRound(g).seated = g.seated
         /\ Finish(g).seated = g.seated
BY DEF CloseSubmissions, AbortRound, Finish, GameType

LEMMA NextPhases ==
  ASSUME NEW g \in GameType, g.phase = "Reveal", NEW reached \in Int
  PROVE  /\ NextRound(g, reached).phase \in {"Finished", "Reveal", "Playing"}
         /\ NextRound(g, reached).phase = "Playing" => NextRound(g, reached).round = g.round + 1
         /\ NextRound(g, reached).phase = "Reveal" => NextRound(g, reached).round = g.round
BY DEF NextRound, BeginRound, GameType

LEMMA Expiring ==
  ASSUME NEW g, Good(g), NEW w \in TableType, w.clock # "None", Fits(g.phase, w.clock),
         NEW reached \in Int
  PROVE  Good(Expired(g, w, reached)) /\ g.phase # "Finished"
<1> DEFINE h == Expired(g, w, reached)
<1>1. g \in GameType /\ g.phase \in Phase /\ w.clock \in Clock
  BY DEF Good, Sound, Clean, GameType, TableType
<1>2. \/ w.clock = "Answers" /\ g.phase = "Playing"
      \/ w.clock = "Juror" /\ g.phase = "Judging"
      \/ w.clock = "Next" /\ g.phase = "Reveal"
  BY <1>1, Clocks
<1>3. /\ Good(CloseSubmissions(g)) /\ Good(AbortRound(g))
  BY <1>1, Phases, Leaving DEF Good, FreshLobby
<1>4. g.phase = "Reveal" => Good(NextRound(g, reached))
  BY <1>1, NextPhases, GoingOn DEF Good, FreshLobby, Sound
<1>5. h \in {g, CloseSubmissions(g), AbortRound(g)} \/ (CanNext(g) /\ h = NextRound(g, reached))
  BY <1>2 DEF Expired
<1> QED
  BY <1>2, <1>3, <1>4, <1>5 DEF CanNext

\* sync() arms the clock of the phase shown and clears what a finished match left.
LEMMA Syncing ==
  ASSUME NEW g, NEW t, Ready(g, t)
  PROVE  /\ Sync(g, t) \in TableType /\ ~Entered(g, Sync(g, t))
         /\ Fits(g.phase, Sync(g, t).clock) /\ Current(g, Sync(g, t))
         /\ Sync(g, t).pausedBy = t.pausedBy /\ Sync(g, t).blockedOn = t.blockedOn
         /\ ~Entered(g, t) => Sync(g, t) = t
<1>1. g.phase \in Phase /\ g.round \in Nat /\ t \in TableType /\ t.settings \in SettingsType
  BY DEF Ready, Good, Sound, Clean, GameType, TableType
<1>2. CASE ~Entered(g, t)
  <2>1. Sync(g, t) = t
    BY <1>2 DEF Sync
  <2> QED
    BY <1>1, <1>2, <2>1 DEF Ready, Current, Entered
<1>3. CASE Entered(g, t)
  <2> DEFINE left == t.lastPhase = "Finished" /\ g.phase # "Finished"
             clock == ClockOf(g.phase, t.settings)
             votes == IF left THEN {} ELSE t.votes
             ended == IF left THEN FALSE ELSE t.ended
             s == [t EXCEPT !.lastPhase = g.phase, !.lastRound = g.round, !.extended = FALSE,
                            !.clock = clock, !.votes = votes, !.ended = ended]
  <2>1. Sync(g, t) = s
    BY <1>3 DEF Sync
  <2>2. clock \in Clock /\ Fits(g.phase, clock)
    BY <1>1, Clocks
  <2>3. votes \in SUBSET Seat /\ ended \in BOOLEAN
    BY <1>1 DEF TableType
  <2>4. (votes # {} \/ ended => g.phase = "Finished") /\ votes \subseteq g.seated
    BY DEF Ready
  <2> HIDE DEF clock, votes, ended
  <2>5. /\ s \in TableType /\ s.lastPhase = g.phase /\ s.lastRound = g.round
        /\ s.clock = clock /\ s.votes = votes /\ s.ended = ended
        /\ s.pausedBy = t.pausedBy /\ s.blockedOn = t.blockedOn
    BY <1>1, <2>2, <2>3 DEF TableType
  <2> QED
    BY <1>3, <2>1, <2>2, <2>4, <2>5 DEF Entered, Current
<1> QED
  BY <1>2, <1>3

\* The look for a needed player who is away.
LEMMA Watching ==
  ASSUME NEW g \in GameType, NEW t \in TableType, NEW more \in SUBSET Seat
  PROVE  LET w == Block(g, Absent(g, t, more)) IN
         /\ w \in TableType /\ Real(g, w)
         /\ w.clock = t.clock /\ w.lastPhase = t.lastPhase /\ w.lastRound = t.lastRound
         /\ w.votes = t.votes /\ w.ended = t.ended /\ w.pausedBy = t.pausedBy
<1> DEFINE a == Absent(g, t, more)
           w == Block(g, a)
           away == g.seated \ g.connected
           late == (t.late \cup (more \cap t.offline)) \cap away
<1>1. away \in SUBSET Seat /\ late \in SUBSET Seat /\ late \subseteq away
  BY DEF GameType
<1>2. a = [t EXCEPT !.offline = away, !.late = late]
  BY DEF Absent
<1>3. late \cap g.connected = {}
  BY <1>1
<1> HIDE DEF away, late
<1>4. /\ a \in TableType /\ a.late = late
      /\ a.clock = t.clock /\ a.lastPhase = t.lastPhase /\ a.lastRound = t.lastRound
      /\ a.votes = t.votes /\ a.ended = t.ended /\ a.pausedBy = t.pausedBy
  BY <1>1, <1>2 DEF TableType
<1> HIDE DEF a
<1> DEFINE missing == {s \in a.late : Needed(g, s)}
           blocked == IF missing = {} THEN kNone ELSE Min(missing)
<1>5. w = [a EXCEPT !.blockedOn = blocked]
  BY DEF Block
<1>6. missing # {} => blocked \in missing
  <2>1. missing \in SUBSET Nat
    BY <1>1, <1>4, Seats
  <2> HIDE DEF missing
  <2> QED
    BY <2>1, MinNat
<1>7. blocked \in Seat \cup {kNone}
  BY <1>1, <1>4, <1>6
<1>8. blocked # kNone => Needed(g, blocked) /\ blocked \notin g.connected
  BY <1>3, <1>4, <1>6
<1> HIDE DEF blocked
<1>9. /\ w \in TableType /\ w.blockedOn = blocked
      /\ w.clock = a.clock /\ w.lastPhase = a.lastPhase /\ w.lastRound = a.lastRound
      /\ w.votes = a.votes /\ w.ended = a.ended /\ w.pausedBy = a.pausedBy
  BY <1>4, <1>5, <1>7 DEF TableType
<1>10. Real(g, w)
  BY <1>8, <1>9 DEF Real
<1> QED
  BY <1>4, <1>9, <1>10 DEF a

\* After tick() everything is settled, and a paused game is as it was.
LEMMA Ticking ==
  ASSUME NEW g, NEW t, Ready(g, t), NEW tm \in Moment(g, t)
  PROVE  /\ Settled(TickGame(g, t, tm), TickTable(g, t, tm))
         /\ TickTable(g, t, tm).pausedBy = t.pausedBy
         /\ t.pausedBy # kNone => TickGame(g, t, tm) = g
<1> DEFINE s == Sync(g, t)
           w == Block(g, Absent(g, s, tm.more))
           acts == Acts(g, t, w, tm.due)
           x == IF w.clock = "Answers" /\ Extends(g, w)
                  THEN [w EXCEPT !.extended = TRUE] ELSE [w EXCEPT !.clock = "None"]
           h == Expired(g, w, tm.reached)
<1>1. tm.more \in SUBSET Seat /\ tm.reached \in Int
  <2>1. t.offline \in SUBSET Seat
    BY DEF Ready, TableType
  <2>2. Served(g) \subseteq Int /\ Whole \in Int
    BY CardAssumption DEF Served, Whole
  <2> QED
    BY <2>1, <2>2 DEF Moment
<1>2. /\ s \in TableType /\ ~Entered(g, s) /\ Fits(g.phase, s.clock) /\ Current(g, s)
      /\ s.pausedBy = t.pausedBy
  BY Syncing
<1>3. g \in GameType /\ Good(g)
  BY DEF Ready, Good, Sound, Clean
<1>4. /\ w \in TableType /\ Real(g, w)
      /\ w.clock = s.clock /\ w.lastPhase = s.lastPhase /\ w.lastRound = s.lastRound
      /\ w.votes = s.votes /\ w.ended = s.ended /\ w.pausedBy = s.pausedBy
  BY <1>1, <1>2, <1>3, Watching
<1>5. Settled(g, w)
  BY <1>2, <1>3, <1>4 DEF Settled, Seen, Entered, Current
<1>6. TickGame(g, t, tm) = IF acts THEN h ELSE g
  BY DEF TickGame
<1>7. TickTable(g, t, tm) = IF acts THEN Sync(h, x) ELSE w
  BY DEF TickTable
<1> HIDE DEF s, w, h, x
<1>8. CASE ~acts
  BY <1>2, <1>4, <1>5, <1>6, <1>7, <1>8
<1>9. CASE acts
  <2>1. /\ w.clock # "None" /\ w.pausedBy = kNone /\ w.blockedOn = kNone
        /\ Fits(g.phase, w.clock) /\ ~Entered(g, w)
    BY <1>2, <1>4, <1>9 DEF Acts, Frozen, Entered
  <2>2. Good(h) /\ g.phase # "Finished"
    BY <1>1, <1>3, <1>4, <2>1, Expiring DEF h
  <2>3. w.votes = {} /\ ~w.ended
    BY <1>2, <1>4, <2>2 DEF Current
  <2>4. /\ x \in TableType /\ x.votes = {} /\ ~x.ended /\ x.blockedOn = kNone
        /\ x.pausedBy = kNone /\ x.lastPhase = w.lastPhase /\ x.lastRound = w.lastRound
        /\ x.clock = "None" \/ (w.clock = "Answers" /\ Extends(g, w) /\ x.clock = "Answers")
    BY <1>4, <2>1, <2>3 DEF x, TableType, Clock
  <2>5. w.clock = "Answers" /\ Extends(g, w) => h = g
    BY DEF h, Expired
  <2>6. Entered(h, x) \/ Fits(h.phase, x.clock)
    BY <2>1, <2>4, <2>5 DEF Fits
  <2>7. Ready(h, x)
    BY <2>2, <2>4, <2>6 DEF Ready
  <2>8. Settled(h, Sync(h, x)) /\ Sync(h, x).pausedBy = kNone
    BY <2>2, <2>4, <2>7, Syncing DEF Settled, Seen, Real
  <2> QED
    BY <1>2, <1>4, <1>6, <1>7, <1>9, <2>1, <2>8
<1> QED
  BY <1>8, <1>9

LEMMA Handled ==
  ASSUME NEW g, NEW t, Ready(g, t), ThenTick(g, t)
  PROVE  TableInv' /\ table'.pausedBy = t.pausedBy /\ (t.pausedBy # kNone => game' = g)
<1>1. PICK tm \in Moment(g, t) : game' = TickGame(g, t, tm) /\ table' = TickTable(g, t, tm)
  BY DEF ThenTick
<1> QED
  BY <1>1, Ticking DEF TableInv
-----------------------------------------------------------------------------
(* What the handlers hand to tick().                                       *)

\* An answered round is left for good, and the counter never turns back.
Onward(h, g) == Good(h) /\ (g.phase = "Playing" => h.round = g.round)

LEMMA Handing ==
  ASSUME TableInv, NEW h, Onward(h, game), NEW t \in TableType,
         t.clock = table.clock, t.lastPhase = table.lastPhase, t.lastRound = table.lastRound,
         t.votes \subseteq h.seated,
         t.votes # {} \/ t.ended => \/ h.phase = "Finished"
                                   \/ table.votes # {} \/ table.ended
  PROVE  Ready(h, t)
<1>1. Entered(h, t) \/ Fits(h.phase, t.clock)
  <2>1. CASE ~Entered(game, table) /\ Fits(game.phase, table.clock)
    BY <2>1 DEF Entered
  <2>2. CASE /\ game.phase = "Playing" /\ table.lastPhase = "Reveal"
             /\ game.round = table.lastRound + 1
    <3>1. h.round # t.lastRound
      <4>1. table.lastRound \in Nat
        BY DEF TableInv, Settled, TableType
      <4> QED
        BY <2>2, <4>1 DEF Onward
    <3> QED
      BY <3>1 DEF Entered
  <2> QED
    BY <2>1, <2>2 DEF TableInv, Settled, Seen
<1>2. table.votes # {} \/ table.ended => table.lastPhase = "Finished"
  BY DEF TableInv, Settled, Current, Seen, Entered
<1> QED
  BY <1>1, <1>2 DEF Ready, Onward

\* Mostly the table is handed on as it is.
LEMMA HandingOn ==
  ASSUME TableInv, NEW h, Onward(h, game), game.phase = "Finished" => game.seated \subseteq h.seated
  PROVE  Ready(h, table)
<1>1. table.votes \subseteq h.seated
  BY DEF TableInv, Settled, Current
<1> QED
  BY <1>1, Handing DEF TableInv, Settled

LEMMA JudgingKeeps ==
  ASSUME NEW g \in GameType
  PROVE  /\ MaybeJudge(g).round = g.round /\ MaybeJudge(g).seated = g.seated
         /\ MaybeJudge(g).submitted = g.submitted /\ MaybeJudge(g).points = g.points
         /\ MaybeJudge(g).phase = "Lobby" => g.phase = "Lobby"
BY DEF MaybeJudge, GameType

\* An operation that ends with the look whether everybody has answered.
LEMMA JudgingOn ==
  ASSUME NEW g, Good(g), NEW h, Sound(h), h.phase = g.phase, h.round = g.round,
         h.seated = g.seated, h.points = g.points,
         h.submitted = g.submitted \/ g.phase # "Lobby"
  PROVE  Onward(MaybeJudge(h), g) /\ MaybeJudge(h).seated = g.seated
<1>1. Sound(MaybeJudge(h)) /\ Waiting(MaybeJudge(h))
  BY Judging
<1>2. /\ MaybeJudge(h).round = h.round /\ MaybeJudge(h).seated = h.seated
      /\ MaybeJudge(h).submitted = h.submitted /\ MaybeJudge(h).points = h.points
      /\ MaybeJudge(h).phase = "Lobby" => h.phase = "Lobby"
  BY JudgingKeeps DEF Sound, Clean
<1> QED
  BY <1>1, <1>2 DEF Onward, Good, FreshLobby

LEMMA Parts ==
  TableInv => /\ Good(game) /\ Sound(game) /\ Waiting(game) /\ game \in GameType
              /\ table \in TableType /\ Onward(game, game)
              /\ game.connected \subseteq game.seated /\ game.held \subseteq game.seated
              /\ game.seated \in SUBSET Seat
BY DEF TableInv, Settled, Good, Sound, Clean, Onward, NoGhosts, GameType

LEMMA Returning ==
  ASSUME TableInv, NEW s \in game.seated
  PROVE  Ready(Connect(game, s), table)
<1> DEFINE on == [game EXCEPT !.connected = @ \cup {s}, !.held = @ \ {s}]
<1>1. /\ on.phase = game.phase /\ on.round = game.round /\ on.seated = game.seated
      /\ on.points = game.points /\ on.submitted = game.submitted
  BY Parts DEF GameType
<1>2. Sound(on)
  BY Parts, ComingAndGoing
<1>3. Connect(game, s) = MaybeJudge(on)
  BY DEF Connect
<1> HIDE DEF on
<1>4. Onward(MaybeJudge(on), game) /\ MaybeJudge(on).seated = game.seated
  BY <1>1, <1>2, Parts, JudgingOn
<1> QED
  BY <1>3, <1>4, HandingOn

LEMMA Releasing ==
  ASSUME TableInv, NEW s
  PROVE  Ready(ReleaseTurn(game, s), table)
<1> DEFINE free == [game EXCEPT !.held = @ \ {s}]
<1>1. CASE s \in game.held
  <2>1. /\ free.phase = game.phase /\ free.round = game.round /\ free.seated = game.seated
        /\ free.points = game.points /\ free.submitted = game.submitted
    BY Parts DEF GameType
  <2>2. Sound(free)
    BY <1>1, Parts, ComingAndGoing
  <2>3. ReleaseTurn(game, s) = MaybeJudge(free)
    BY <1>1 DEF ReleaseTurn
  <2> HIDE DEF free
  <2>4. Onward(MaybeJudge(free), game) /\ MaybeJudge(free).seated = game.seated
    BY <2>1, <2>2, Parts, JudgingOn
  <2> QED
    BY <2>3, <2>4, HandingOn
<1>2. CASE s \notin game.held
  BY <1>2, Parts, HandingOn DEF ReleaseTurn
<1> QED
  BY <1>1, <1>2

LEMMA Answered ==
  ASSUME TableInv, NEW s \in Seat, CanSubmit(game, s)
  PROVE  Ready(Submit(game, s), table)
<1> DEFINE in == [game EXCEPT !.submitted = @ \cup {s}, !.pile = @ \cup {s}]
<1>1. /\ in.phase = game.phase /\ in.round = game.round /\ in.seated = game.seated
      /\ in.points = game.points /\ game.phase # "Lobby"
  BY Parts DEF GameType, CanSubmit
<1>2. Sound(in)
  BY Parts, Submitting
<1>3. Submit(game, s) = MaybeJudge(in)
  BY DEF Submit
<1> HIDE DEF in
<1>4. Onward(MaybeJudge(in), game) /\ MaybeJudge(in).seated = game.seated
  BY <1>1, <1>2, Parts, JudgingOn
<1> QED
  BY <1>3, <1>4, HandingOn

LEMMA Picked ==
  ASSUME TableInv, NEW s \in Seat, NEW p \in Player, CanJudge(game, s, p)
  PROVE  Ready(Judge(game, p), table)
<1>1. Judge(game, p).phase = "Reveal" /\ game.phase = "Judging"
  BY Parts DEF Judge, CanJudge, GameType
<1>2. Sound(Judge(game, p)) /\ Waiting(Judge(game, p))
  BY Parts, Picking
<1> QED
  BY <1>1, <1>2, HandingOn DEF Onward, Good, FreshLobby

\* Closing, breaking off and ending a round are possible at any time.
LEMMA Closed ==
  ASSUME TableInv
  PROVE  /\ Ready(CloseSubmissions(game), table) /\ Ready(AbortRound(game), table)
         /\ Ready(Finish(game), [table EXCEPT !.ended = TRUE])
<1>1. /\ Onward(CloseSubmissions(game), game) /\ Onward(AbortRound(game), game)
      /\ Onward(Finish(game), game)
  BY Parts, Phases, Leaving DEF Onward, Good, FreshLobby
<1> DEFINE t == [table EXCEPT !.ended = TRUE]
<1>2. /\ t \in TableType /\ t.clock = table.clock /\ t.lastPhase = table.lastPhase
      /\ t.lastRound = table.lastRound /\ t.votes = table.votes
  BY Parts DEF TableType
<1> HIDE DEF t
<1>3. t.votes \subseteq Finish(game).seated /\ Finish(game).phase = "Finished"
  BY <1>2, Parts, Phases DEF TableInv, Settled, Current
<1>4. Ready(Finish(game), t)
  BY <1>1, <1>2, <1>3, Handing
<1> QED
  BY <1>1, <1>4, Parts, Phases, HandingOn DEF t

LEMMA Begun ==
  ASSUME TableInv
  PROVE  /\ CanStart(game) => Ready(Start(game), table)
         /\ game.phase = "Reveal" => Ready(ReloadDeck(game, Whole), table)
         /\ CanRematch(game) => Ready(Rematch(game), table)
<1>1. CanStart(game) => Ready(Start(game), table)
  <2>1. Start(game).phase = "Playing"
    BY Parts DEF Start, BeginRound, GameType
  <2>2. Sound(Start(game)) /\ Waiting(Start(game))
    BY Parts, Starting DEF Sound
  <2> QED
    BY <2>1, <2>2, HandingOn DEF Onward, Good, FreshLobby, CanStart
<1>2. game.phase = "Reveal" => Ready(ReloadDeck(game, Whole), table)
  <2>1. game.phase = "Reveal" => ReloadDeck(game, Whole).phase # "Lobby"
    BY Parts DEF ReloadDeck, BeginRound, GameType
  <2>2. game.phase = "Reveal" =>
          Sound(ReloadDeck(game, Whole)) /\ Waiting(ReloadDeck(game, Whole))
    <3>1. Whole \in Int
      BY CardAssumption DEF Whole
    <3> QED
      BY <3>1, Parts, Reloading DEF Sound
  <2> QED
    BY <2>1, <2>2, HandingOn DEF Onward, Good, FreshLobby
<1>3. CanRematch(game) => Ready(Rematch(game), table)
  <2>1. /\ Rematch(game).submitted = {} /\ Rematch(game).points = [s \in Seat |-> 0]
        /\ Rematch(game).seated = game.seated
    BY DEF Rematch, NewGame
  <2>2. Sound(Rematch(game)) /\ Waiting(Rematch(game))
    BY Parts, PlayingAgain
  <2> QED
    BY <2>1, <2>2, HandingOn DEF Onward, Good, FreshLobby, CanRematch
<1> QED
  BY <1>1, <1>2, <1>3

LEMMA Dealt ==
  ASSUME TableInv, CanNext(game), NEW reached \in Served(game)
  PROVE  /\ Ready(NextRound(game, reached), table)
         /\ ~Frozen(table) /\ NextRound(game, reached).phase # "Finished" =>
              Settled(NextRound(game, reached), table)
<1> DEFINE h == NextRound(game, reached)
<1>1. reached \in Int /\ game.phase = "Reveal"
  BY CardAssumption DEF Served, Whole, CanNext
<1>2. /\ h.phase \in {"Finished", "Reveal", "Playing"}
      /\ h.phase = "Playing" => h.round = game.round + 1
      /\ h.phase = "Reveal" => h.round = game.round
  BY <1>1, Parts, NextPhases
<1>3. Good(h)
  BY <1>1, <1>2, Parts, GoingOn DEF Good, FreshLobby, Sound
<1> HIDE DEF h
<1>4. Ready(h, table)
  BY <1>1, <1>3, HandingOn DEF Onward
<1>5. ASSUME ~Frozen(table), h.phase # "Finished" PROVE Settled(h, table)
  <2>1. ~Entered(game, table) /\ Fits(game.phase, table.clock)
    BY <1>1 DEF TableInv, Settled, Seen
  <2>2. Seen(h, table)
    BY <1>1, <1>2, <1>5, <2>1 DEF Seen, Entered
  <2>3. Current(h, table) /\ Real(h, table)
    BY <1>1, <1>5 DEF TableInv, Settled, Current, Real, Frozen
  <2> QED
    BY <1>3, <2>2, <2>3, Parts DEF Settled
<1> QED
  BY <1>4, <1>5 DEF h

LEMMA Seated ==
  ASSUME NEW g, Good(g), CanJoin(MakeRoom(g))
  PROVE  /\ Good(Join(MakeRoom(g))) /\ g.phase = "Lobby" /\ Join(MakeRoom(g)).phase = "Lobby"
         /\ Join(MakeRoom(g)).round = g.round
<1> DEFINE m == MakeRoom(g)
           ghosts == g.seated \ g.connected
<1>1. g \in GameType /\ Sound(g) /\ g.points \in [Seat -> Nat]
  BY DEF Good, Sound, Clean, GameType
<1>2. \A s : /\ Vacate(g, s).round = g.round /\ Vacate(g, s).phase = g.phase
            /\ Vacate(g, s).submitted = g.submitted \ {s}
            /\ Vacate(g, s).points = Emptied(g.points, s)
  BY <1>1 DEF Vacate, GameType
<1>3. ghosts # {} => Min(ghosts) \in g.seated
  <2>1. ghosts \in SUBSET Nat /\ ghosts \subseteq g.seated
    BY <1>1, Seats DEF GameType
  <2> HIDE DEF ghosts
  <2> QED
    BY <2>1, MinNat
<1>4. /\ m = g \/ m = Vacate(g, Min(ghosts))
      /\ m = g \/ (g.phase = "Lobby" /\ ghosts # {})
  BY DEF MakeRoom
<1> HIDE DEF ghosts
<1>5. g.phase = "Lobby" /\ m.phase = "Lobby" /\ m.round = g.round
  BY <1>2, <1>4 DEF CanJoin
<1>6. Sound(m)
  BY <1>1, <1>3, <1>4, Removing
<1>7. m.submitted = {} /\ m.points = [s \in Seat |-> 0] /\ m \in GameType
  <2>1. g.submitted = {} /\ g.points = [s \in Seat |-> 0]
    BY <1>5 DEF Good, FreshLobby
  <2>2. CASE m = g
    BY <1>1, <2>1, <2>2
  <2>3. CASE m = Vacate(g, Min(ghosts))
    <3> HIDE DEF m
    <3>1. m.submitted = {} /\ m.points = Emptied(g.points, Min(ghosts))
      BY <1>2, <2>1, <2>3
    <3>2. Emptied(g.points, Min(ghosts)) = [s \in Seat |-> 0]
      BY <2>1 DEF Emptied
    <3> QED
      BY <1>6, <3>1, <3>2 DEF Sound, Clean
  <2> QED
    BY <1>4, <2>2, <2>3
<1> HIDE DEF m
<1>8. Sound(Join(m)) /\ Join(m).phase = "Lobby"
  BY <1>6, Joining DEF m
<1>9. Join(m).submitted = {} /\ Join(m).points = [s \in Seat |-> 0] /\ Join(m).round = m.round
  <2>1. /\ Join(m).submitted = m.submitted /\ Join(m).round = m.round
        /\ Join(m).points = Emptied(m.points, FreeSeat(m))
    BY <1>7 DEF Join, GameType
  <2> QED
    BY <1>7, <2>1 DEF Emptied
<1> QED
  BY <1>5, <1>8, <1>9 DEF m, Good, FreshLobby, Waiting

LEMMA Kicked ==
  ASSUME TableInv, NEW s \in game.seated
  PROVE  Ready(Kick(game, s), SeatGone(s))
<1> DEFINE f == Forget(game, s)
           gone == Vacate(f, s)
           next == IF IsJuror(game, s) THEN AbortRound(gone) ELSE MaybeJudge(gone)
           left == Vacate(game, s)
           k == Kick(game, s)
           t == SeatGone(s)
<1>1. /\ f.round = game.round /\ f.seated = game.seated /\ f.phase = game.phase
      /\ f = [f EXCEPT !.seated = f.seated] /\ f \in GameType
  <2>1. s \in Player
    BY Parts DEF Player
  <2> QED
    BY <2>1, Parts DEF Forget, GameType
<1>2. /\ gone.round = game.round /\ gone.seated = game.seated \ {s} /\ gone.phase = game.phase
      /\ Sound(gone) /\ gone \in GameType
  <2>1. Sound(gone) /\ gone.phase = game.phase
    BY Parts, Removing
  <2>2. gone.round = f.round /\ gone.seated = f.seated \ {s}
    BY <1>1 DEF Vacate, GameType
  <2> QED
    BY <1>1, <2>1, <2>2 DEF Sound, Clean
<1> HIDE DEF gone, f
<1>3. /\ next.round = game.round /\ next.seated = game.seated \ {s}
      /\ game.phase # "Lobby" => next.phase # "Lobby"
  BY <1>2, Phases, JudgingKeeps
<1>4. next \in GameType
  BY <1>2, Leaving, Judging DEF Sound, Clean
<1> HIDE DEF next
<1>5. /\ Finish(next).round = game.round /\ Finish(next).seated = game.seated \ {s}
      /\ Finish(next).phase = "Finished"
  BY <1>3, <1>4, Phases
<1>6. /\ left.round = game.round /\ left.seated = game.seated \ {s} /\ left.phase = game.phase
      /\ left.submitted = game.submitted \ {s} /\ left.points = Emptied(game.points, s)
  BY Parts DEF Vacate, GameType
<1>7. k = IF game.phase = "Lobby" THEN left
          ELSE IF next.phase # "Finished" /\ Cardinality(next.seated) < 3
            THEN Finish(next) ELSE next
  BY DEF Kick, next, gone, f
<1>8. Sound(k) /\ Waiting(k)
  BY Parts, Kicking
<1> HIDE DEF k, left
<1>9. FreshLobby(k)
  <2>1. CASE game.phase = "Lobby"
    <3>1. game.submitted = {} /\ game.points = [x \in Seat |-> 0]
      BY <2>1, Parts DEF Good, FreshLobby
    <3> QED
      BY <1>6, <1>7, <2>1, <3>1 DEF FreshLobby, Emptied
  <2>2. CASE game.phase # "Lobby"
    BY <1>3, <1>5, <1>7, <2>2 DEF FreshLobby
  <2> QED
    BY <2>1, <2>2
<1>10. Onward(k, game) /\ k.seated = game.seated \ {s}
  BY <1>3, <1>5, <1>6, <1>7, <1>8, <1>9 DEF Onward, Good
<1>11. game.phase = "Finished" => k.phase = "Finished"
  <2>1. ASSUME game.phase = "Finished" PROVE next.phase = "Finished"
    <3>1. next = MaybeJudge(gone)
      BY <2>1 DEF next, IsJuror
    <3>2. MaybeJudge(gone) = gone
      BY <1>2, <2>1 DEF MaybeJudge
    <3> QED
      BY <1>2, <2>1, <3>1, <3>2
  <2> QED
    BY <1>5, <1>7, <2>1
<1>12. /\ t \in TableType /\ t.clock = table.clock /\ t.lastPhase = table.lastPhase
       /\ t.lastRound = table.lastRound /\ t.votes = table.votes \ {s} /\ t.ended = table.ended
  BY Parts DEF TableType, SeatGone
<1> HIDE DEF t
<1>13. table.votes \subseteq game.seated
  BY DEF TableInv, Settled, Current
<1>14. Ready(k, t)
  BY <1>10, <1>12, <1>13, Handing
<1> QED
  BY <1>14 DEF k, t
-----------------------------------------------------------------------------
(* Handlers that do not tick.                                              *)

\* A phone that drops before it answered keeps the turn open, so that the round
\* waits for the same players as before.
LEMMA Dropped ==
  ASSUME TableInv, NEW s \in game.connected
  PROVE  LET h == Disconnect(game, s) IN
         /\ Settled(h, table)
         /\ h.phase = game.phase /\ h.round = game.round
         /\ h.submitted = game.submitted /\ h.points = game.points
<1> DEFINE off == [game EXCEPT !.connected = @ \ {s},
                     !.held = IF Holds(game, s) THEN @ \cup {s} ELSE @ \ {s}]
<1>1. s \in game.seated
  BY Parts
<1>2. Sound(off)
  BY <1>1, Parts, ComingAndGoing
<1>3. /\ off.phase = game.phase /\ off.round = game.round /\ off.seated = game.seated
      /\ off.points = game.points /\ off.submitted = game.submitted /\ off.pile = game.pile
      /\ off.czar = game.czar /\ off.connected = game.connected \ {s}
      /\ off.held = IF Holds(game, s) THEN game.held \cup {s} ELSE game.held \ {s}
  BY Parts DEF GameType
<1> HIDE DEF off
<1>4. game.phase = "Playing" => Answering(off) = Answering(game)
  BY <1>1, <1>3, Parts DEF Answering, Holds
<1>5. HumanPlays(off) = HumanPlays(game)
  BY <1>3 DEF HumanPlays
<1>6. Waiting(off)
  BY <1>3, <1>4, <1>5, Parts DEF Waiting
<1>7. MaybeJudge(off) = off
  <2>1. HumanPlays(off) \in Nat /\ Cardinality(Answering(off)) \in Nat
    BY <1>2, Counts DEF Sound, Clean
  <2> QED
    BY <1>6, <2>1 DEF MaybeJudge, Waiting
<1>8. Good(off)
  BY <1>2, <1>3, <1>6, Parts DEF Good, FreshLobby
<1>9. Real(off, table)
  <2> DEFINE b == table.blockedOn
  <2>1. SUFFICES ASSUME b # kNone PROVE Needed(off, b) /\ b \notin off.connected
    BY DEF Real
  <2>2. Needed(game, b) /\ b \notin game.connected /\ b # s
    BY <2>1 DEF TableInv, Settled, Real
  <2> HIDE DEF b
  <2> QED
    BY <1>3, <2>2 DEF Needed
<1>10. Current(off, table) /\ Seen(off, table)
  BY <1>3 DEF TableInv, Settled, Current, Seen, Entered
<1>11. Settled(off, table)
  BY <1>8, <1>9, <1>10, Parts DEF Settled
<1>12. Disconnect(game, s) = MaybeJudge(off)
  BY DEF Disconnect, off
<1> QED
  BY <1>3, <1>7, <1>11, <1>12

LEMMA Opened ==
  ASSUME NEW n \in Rounds, NEW settings \in SettingsType
  PROVE  Settled(NewGame(n, settings.rando), NewTable(settings))
<1> DEFINE g == NewGame(n, settings.rando)
           t == NewTable(settings)
<1>1. settings.rando \in BOOLEAN
  BY DEF SettingsType
<1>2. Sound(g) /\ g.phase = "Lobby"
  BY <1>1, Configuring
<1>3. g.round = 0 /\ g.submitted = {} /\ g.points = [s \in Seat |-> 0]
  BY DEF NewGame
<1>4. /\ t \in TableType /\ t.votes = {} /\ ~t.ended /\ t.blockedOn = kNone
      /\ t.clock = "None" /\ t.lastPhase = "Lobby" /\ t.lastRound = 0
  BY DEF NewTable, TableType, Clock, Phase
<1> HIDE DEF g, t
<1>5. Good(g)
  BY <1>2, <1>3 DEF Good, FreshLobby, Waiting
<1>6. Current(g, t) /\ Real(g, t) /\ Seen(g, t)
  BY <1>2, <1>3, <1>4 DEF Current, Real, Seen, Entered, Fits
<1>7. Settled(g, t)
  BY <1>4, <1>5, <1>6 DEF Settled
<1> QED
  BY <1>7 DEF g, t

LEMMA HostQuiet ==
  ASSUME TableInv,
         \/ HostPause \/ HostUnpause
         \/ \E s \in Settings : HostSettings(s)
         \/ \E n \in Rounds : HostRounds(n) \/ HostReopen(n)
  PROVE  TableInv'
<1>1. ASSUME HostPause \/ HostUnpause PROVE TableInv'
  <2>1. PICK by \in {kHost, kNone} : game' = game /\ table' = Paused(by)
    BY <1>1 DEF HostPause, HostUnpause, NoTick
  <2> DEFINE t == Paused(by)
  <2>2. /\ t \in TableType /\ t.votes = table.votes /\ t.ended = table.ended
        /\ t.blockedOn = table.blockedOn /\ t.clock = table.clock
        /\ t.lastPhase = table.lastPhase /\ t.lastRound = table.lastRound
    BY Parts DEF Paused, TableType
  <2> HIDE DEF t
  <2>3. Settled(game, t)
    BY <2>2 DEF TableInv, Settled, Current, Real, Seen, Entered
  <2> QED
    BY <2>1, <2>3 DEF TableInv, t
<1>2. ASSUME NEW s \in Settings, HostSettings(s) PROVE TableInv'
  <2> DEFINE h == SetRando(game, s.rando)
             clock == IF game.phase \in {"Judging", "Reveal"} THEN ClockOf(game.phase, s)
                      ELSE table.clock
             t == [table EXCEPT !.settings = s, !.clock = clock]
  <2>1. s \in SettingsType /\ s.rando \in BOOLEAN
    BY TableAssumption DEF SettingsType
  <2>2. game' = h /\ table' = t
    <3>1. table = [table EXCEPT !.clock = table.clock]
      BY Parts DEF TableType
    <3> QED
      BY <1>2, <3>1 DEF HostSettings, NoTick
  <2>3. game.phase \in Phase
    BY Parts DEF GameType
  <2>4. clock \in Clock /\ (game.phase \in {"Judging", "Reveal"} => Fits(game.phase, clock))
    BY <2>1, <2>3, Clocks, Parts DEF TableType
  <2>5. game.phase \notin {"Judging", "Reveal"} => clock = table.clock
    OBVIOUS
  <2> HIDE DEF clock
  <2>6. /\ t \in TableType /\ t.votes = table.votes /\ t.ended = table.ended
        /\ t.blockedOn = table.blockedOn /\ t.clock = clock
        /\ t.lastPhase = table.lastPhase /\ t.lastRound = table.lastRound
    BY <2>1, <2>4, Parts DEF TableType
  <2> HIDE DEF t
  <2>7. DoSetRando(s.rando) /\ CardInv
    BY <2>2, Parts DEF DoSetRando, CardInv
  <2>8. CardInv'
    BY <2>1, <2>7, TableSteps
  <2>9. /\ h.phase = game.phase /\ h.round = game.round /\ h.seated = game.seated
        /\ h.connected = game.connected /\ h.held = game.held /\ h.czar = game.czar
        /\ h.submitted = game.submitted /\ h.points = game.points
    BY Parts DEF SetRando, GameType
  <2> HIDE DEF h
  <2>10. Good(h)
    BY <2>2, <2>8, <2>9, Parts DEF CardInv, Good, FreshLobby
  <2>11. Current(h, t) /\ Real(h, t)
    BY <2>6, <2>9 DEF TableInv, Settled, Current, Real, Needed
  <2>12. Seen(h, t)
    BY <2>4, <2>5, <2>6, <2>9 DEF TableInv, Settled, Seen, Entered
  <2> QED
    BY <2>2, <2>6, <2>10, <2>11, <2>12 DEF TableInv, Settled
<1>3. ASSUME NEW n \in Rounds, HostRounds(n) PROVE TableInv'
  <2> DEFINE h == SetRounds(game, n)
  <2>1. game' = h /\ table' = table /\ DoSetRounds(n) /\ CardInv
    BY <1>3, Parts DEF HostRounds, NoTick, DoSetRounds, CardInv
  <2>2. CardInv'
    BY <2>1, TableSteps
  <2>3. /\ h.phase = game.phase /\ h.round = game.round /\ h.seated = game.seated
        /\ h.connected = game.connected /\ h.held = game.held /\ h.czar = game.czar
        /\ h.submitted = game.submitted /\ h.points = game.points
    BY Parts DEF SetRounds, GameType
  <2> HIDE DEF h
  <2>4. Good(h)
    BY <2>1, <2>2, <2>3, Parts DEF CardInv, Good, FreshLobby
  <2>5. Current(h, table) /\ Real(h, table) /\ Seen(h, table)
    BY <2>3 DEF TableInv, Settled, Current, Real, Needed, Seen, Entered
  <2> QED
    BY <2>1, <2>4, <2>5, Parts DEF TableInv, Settled
<1>4. ASSUME NEW n \in Rounds, HostReopen(n) PROVE TableInv'
  <2>1. table.settings \in SettingsType
    BY Parts DEF TableType
  <2> QED
    BY <1>4, <2>1, Opened DEF HostReopen, NoTick, TableInv
<1> QED
  BY <1>1, <1>2, <1>3, <1>4
-----------------------------------------------------------------------------
(* The invariant.                                                          *)

LEMMA TableInitially == TableInit => TableInv
<1>1. ASSUME NEW n \in Rounds, NEW s \in Settings, game = NewGame(n, s.rando), table = NewTable(s)
      PROVE  TableInv
  BY <1>1, TableAssumption, Opened DEF TableInv
<1> QED
  BY <1>1 DEF TableInit

LEMMA HostDeals ==
  ASSUME TableInv, NEW reached \in -1 .. Whole, HostNext(reached)
  PROVE  TableInv'
<1> DEFINE h == NextRound(game, reached)
<1>1. /\ reached \in Served(game) /\ CanNext(game) /\ ~Frozen(table)
      /\ IF LastRound(game) \/ reached = Whole THEN ThenTick(h, table) ELSE NoTick(h, table)
  BY DEF HostNext
<1>2. Ready(h, table) /\ (h.phase # "Finished" => Settled(h, table))
  BY <1>1, Dealt
<1>3. ~LastRound(game) => h.phase # "Finished"
  BY <1>1, Parts DEF NextRound, BeginRound, CanNext, GameType
<1> HIDE DEF h
<1>4. CASE ThenTick(h, table)
  BY <1>2, <1>4, Handled
<1>5. CASE ~LastRound(game) /\ NoTick(h, table)
  BY <1>2, <1>3, <1>5 DEF NoTick, TableInv
<1> QED
  BY <1>1, <1>4, <1>5

LEMMA HostSteps ==
  ASSUME TableInv, HostStep
  PROVE  TableInv'
<1>1. CASE HostStart \/ HostRematch
  BY <1>1, Begun, Handled DEF HostStart, HostRematch
<1>2. CASE HostClose \/ HostAbort \/ HostEnd
  BY <1>2, Closed, Handled DEF HostClose, HostAbort, HostEnd
<1>3. CASE HostContinue
  <2>1. /\ Ready(AbortRound(game), table) /\ Ready(ReleaseTurn(game, table.blockedOn), table)
    BY Closed, Releasing
  <2> QED
    BY <1>3, <2>1, Handled DEF HostContinue
<1>4. ASSUME NEW s \in Seat, HostKick(s) PROVE TableInv'
  BY <1>4, Kicked, Handled DEF HostKick
<1>5. ASSUME NEW fits \in BOOLEAN, HostPack(fits) PROVE TableInv'
  BY <1>5, Begun, Closed, Handled DEF HostPack
<1> QED
  BY <1>1, <1>2, <1>3, <1>4, <1>5, HostDeals, HostQuiet DEF HostStep

\* A pause, its end and a vote change nothing tick() looks at.
LEMMA Worded ==
  ASSUME TableInv
  PROVE  /\ \A by \in Seat \cup {kNone} : Ready(game, Paused(by)) /\ Paused(by).pausedBy = by
         /\ game.phase = "Finished" => \A s \in game.connected :
              LET t == [table EXCEPT !.votes = @ \cup {s}] IN
              Ready(game, t) /\ t.pausedBy = table.pausedBy
<1>1. ASSUME NEW by \in Seat \cup {kNone}
      PROVE  Ready(game, Paused(by)) /\ Paused(by).pausedBy = by
  <2> DEFINE t == Paused(by)
  <2>1. /\ t \in TableType /\ t.clock = table.clock /\ t.lastPhase = table.lastPhase
        /\ t.lastRound = table.lastRound /\ t.votes = table.votes /\ t.ended = table.ended
        /\ t.pausedBy = by
    BY Parts DEF Paused, TableType
  <2> HIDE DEF t
  <2>2. t.votes \subseteq game.seated
    BY <2>1 DEF TableInv, Settled, Current
  <2>3. Ready(game, t)
    BY <2>1, <2>2, Parts, Handing
  <2> QED
    BY <2>1, <2>3 DEF t
<1>2. ASSUME game.phase = "Finished", NEW s \in game.connected
      PROVE  LET t == [table EXCEPT !.votes = @ \cup {s}] IN
             Ready(game, t) /\ t.pausedBy = table.pausedBy
  <2> DEFINE t == [table EXCEPT !.votes = @ \cup {s}]
  <2>1. s \in game.seated /\ s \in Seat
    BY Parts
  <2>2. /\ t \in TableType /\ t.clock = table.clock /\ t.lastPhase = table.lastPhase
        /\ t.lastRound = table.lastRound /\ t.votes = table.votes \cup {s}
        /\ t.pausedBy = table.pausedBy
    BY <2>1, Parts DEF TableType
  <2> HIDE DEF t
  <2>3. t.votes \subseteq game.seated
    BY <2>1, <2>2 DEF TableInv, Settled, Current
  <2>4. Ready(game, t)
    BY <1>2, <2>2, <2>3, Parts, Handing
  <2> QED
    BY <2>2, <2>4 DEF t
<1> QED
  BY <1>1, <1>2

LEMMA JoinReady ==
  ASSUME TableInv, CanJoin(MakeRoom(game))
  PROVE  Ready(Join(MakeRoom(game)), table)
<1>1. /\ Good(Join(MakeRoom(game))) /\ game.phase = "Lobby"
      /\ Join(MakeRoom(game)).round = game.round
  BY Parts, Seated
<1> QED
  BY <1>1, HandingOn DEF Onward

LEMMA PhoneSteps ==
  ASSUME TableInv, PhoneStep \/ Loop
  PROVE  TableInv'
<1>1. CASE PhoneJoin
  BY <1>1, JoinReady, Handled DEF PhoneJoin
<1>2. ASSUME NEW s \in Seat, PhoneBack(s) \/ PhoneSubmit(s) PROVE TableInv'
  BY <1>2, Returning, Answered, Handled DEF PhoneBack, PhoneSubmit
<1>3. ASSUME NEW s \in Seat, NEW p \in Player, PhoneJudge(s, p) PROVE TableInv'
  BY <1>3, Picked, Handled DEF PhoneJudge
<1>4. ASSUME NEW s, PhoneGone(s) PROVE TableInv'
  BY <1>4, Dropped DEF PhoneGone, NoTick, TableInv
<1>5. ASSUME NEW s \in Vocal, PhonePause(s) \/ PhoneUnpause(s) \/ PhoneAgain(s) PROVE TableInv'
  <2>1. s \in Seat
    BY TableAssumption
  <2> QED
    BY <1>5, <2>1, Worded, Handled DEF PhonePause, PhoneUnpause, PhoneAgain
<1>6. CASE Loop
  <2>1. Ready(game, table)
    BY Parts, HandingOn
  <2> QED
    BY <1>6, <2>1, Handled DEF Loop
<1> QED
  BY <1>1, <1>2, <1>3, <1>4, <1>5, <1>6 DEF PhoneStep

LEMMA TableStep == TableInv /\ [TableNext]_tableVars => TableInv'
<1> SUFFICES ASSUME TableInv, [TableNext]_tableVars
             PROVE  TableInv'
  OBVIOUS
<1>1. CASE UNCHANGED tableVars
  BY <1>1 DEF TableInv, tableVars
<1> QED
  BY <1>1, HostSteps, PhoneSteps DEF TableNext

THEOREM TableInvariant == TableSpec => []TableInv
BY TableInitially, TableStep, PTL DEF TableSpec

\* The game and the match control around it keep their types
\* (CardPartyTable.h:258-277).
THEOREM TableTyped == TableSpec => []TableTypeOK
<1>1. TableInv => TableTypeOK
  BY DEF TableInv, Settled, Good, Sound, Clean, TableTypeOK
<1> QED
  BY <1>1, TableInvariant, PTL

\* No clock ends a phase it was not set for (CardPartyTable.h:160-179).
THEOREM ClockFits == TableSpec => []ClockFitsPhase
<1>1. TableInv => ClockFitsPhase
  BY DEF TableInv, Settled, Seen, Entered, Fits, ClockFitsPhase
<1> QED
  BY <1>1, TableInvariant, PTL

\* The block names a player who is away and without whom the round cannot go on
\* (CardPartyTable.h:66-74).
THEOREM BlocksAreReal == TableSpec => []BlockIsReal
<1>1. TableInv => BlockIsReal
  BY DEF TableInv, Settled, Real, BlockIsReal
<1> QED
  BY <1>1, TableInvariant, PTL

\* Votes and the word of an ended match belong to a finished match and to players
\* still seated (CardPartyTable.h:125-136, 163).
THEOREM VotesStayCurrent == TableSpec => []VotesAreCurrent
<1>1. TableInv => VotesAreCurrent
  BY DEF TableInv, Settled, Current, VotesAreCurrent
<1> QED
  BY <1>1, TableInvariant, PTL
-----------------------------------------------------------------------------
(* A paused table stands still.                                            *)

\* A phone that returns ends no round: the round waits for it as before.
LEMMA BackWaits ==
  ASSUME TableInv, NEW s \in game.seated
  PROVE  LET h == Connect(game, s) IN
         /\ h.phase = game.phase /\ h.round = game.round
         /\ h.submitted = game.submitted /\ h.points = game.points
<1> DEFINE on == [game EXCEPT !.connected = @ \cup {s}, !.held = @ \ {s}]
<1>1. /\ on.phase = game.phase /\ on.round = game.round /\ on.seated = game.seated
      /\ on.points = game.points /\ on.submitted = game.submitted /\ on.pile = game.pile
      /\ on.czar = game.czar /\ on.connected = game.connected \cup {s}
      /\ on.held = game.held \ {s}
  BY Parts DEF GameType
<1>2. Sound(on)
  BY Parts, ComingAndGoing
<1> HIDE DEF on
<1>3. Answering(game) \subseteq Answering(on)
  BY <1>1 DEF Answering
<1>4. /\ IsFiniteSet(Answering(on)) /\ Cardinality(Answering(on)) \in Nat
      /\ Cardinality(Answering(game)) \in Nat /\ HumanPlays(game) \in Nat
  BY <1>2, Counts, Parts DEF Sound, Clean
<1>5. Cardinality(Answering(game)) <= Cardinality(Answering(on))
  BY <1>3, <1>4, FS_Subset
<1>6. HumanPlays(on) = HumanPlays(game)
  BY <1>1 DEF HumanPlays
<1>7. MaybeJudge(on) = on
  BY <1>1, <1>4, <1>5, <1>6, Parts DEF MaybeJudge, Waiting
<1>8. Connect(game, s) = MaybeJudge(on)
  BY DEF Connect, on
<1> QED
  BY <1>1, <1>7, <1>8

\* While the table stays paused, no answer, no pick and no clock moves the match,
\* whoever drops or returns (CardPartyTable.h:203, CardPartyBrowserServer.cpp:721-727).
THEOREM PauseHolds == TableSpec => PausedMeansStill
<1> DEFINE Stays == table.pausedBy # kNone /\ table'.pausedBy # kNone /\ ~HostStep
           Still == /\ game'.phase = game.phase /\ game'.round = game.round
                    /\ game'.submitted = game.submitted /\ game'.points = game.points
<1>1. ASSUME TableInv, TableNext, Stays
      PROVE  Still
  <2>1. CASE PhoneJoin
    <3>1. /\ Good(Join(MakeRoom(game))) /\ game.phase = "Lobby"
          /\ Join(MakeRoom(game)).phase = "Lobby" /\ Join(MakeRoom(game)).round = game.round
      BY <1>1, <2>1, Parts, Seated DEF PhoneJoin
    <3>2. game' = Join(MakeRoom(game))
      BY <1>1, <2>1, JoinReady, Handled DEF PhoneJoin
    <3> QED
      BY <1>1, <3>1, <3>2, Parts DEF Good, FreshLobby
  <2>2. ASSUME NEW s \in Seat, PhoneBack(s) PROVE Still
    <3>1. game' = Connect(game, s) /\ s \in game.seated
      BY <1>1, <2>2, Returning, Handled DEF PhoneBack
    <3> QED
      BY <1>1, <3>1, BackWaits
  <2>3. ASSUME NEW s \in Seat, PhoneSubmit(s) \/ \E p \in Player : PhoneJudge(s, p) PROVE FALSE
    BY <1>1, <2>3 DEF PhoneSubmit, PhoneJudge, Frozen
  <2>4. ASSUME NEW s, PhoneGone(s) PROVE Still
    BY <1>1, <2>4, Dropped DEF PhoneGone, NoTick
  <2>5. ASSUME NEW s \in Vocal, PhonePause(s) \/ PhoneUnpause(s) PROVE FALSE
    <3>1. PhoneUnpause(s)
      BY <1>1, <2>5 DEF PhonePause, CanPause
    <3>2. table'.pausedBy = Paused(kNone).pausedBy /\ Paused(kNone).pausedBy = kNone
      BY <1>1, <3>1, Worded, Handled DEF PhoneUnpause
    <3> QED
      BY <1>1, <3>2
  <2>6. ASSUME NEW s \in Vocal, PhoneAgain(s) PROVE Still
    <3>1. game' = game
      BY <1>1, <2>6, Worded, Handled DEF PhoneAgain
    <3> QED
      BY <3>1
  <2>7. CASE Loop
    <3>1. Ready(game, table)
      BY <1>1, Parts, HandingOn
    <3>2. game' = game
      BY <1>1, <2>7, <3>1, Handled DEF Loop
    <3> QED
      BY <3>2
  <2> QED
    BY <1>1, <2>1, <2>2, <2>3, <2>4, <2>5, <2>6, <2>7 DEF TableNext, PhoneStep
<1>2. TableInv /\ [TableNext]_tableVars => [Stays => Still]_tableVars
  BY <1>1
<1> QED
  BY <1>2, TableInvariant, PTL DEF TableSpec, PausedMeansStill
=============================================================================
