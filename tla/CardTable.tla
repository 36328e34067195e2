----------------------------- MODULE CardTable -----------------------------
(***************************************************************************)
(* Match control around the rules: cardparty::Table (CardPartyTable.h),    *)
(* as the browser server drives it.  A handler of the server does an       *)
(* operation of the game, mostly followed by tick(), which arms the clock  *)
(* of a phase just entered, looks for a needed player gone too long, and   *)
(* acts on a clock that has run out - in that order and in one step.       *)
(*                                                                         *)
(* Time is abstracted.  due says that the deadline has passed when tick()  *)
(* looks, which may be at any look after the one that armed the clock;     *)
(* late grows by any seats seen offline before.                            *)
(***************************************************************************)
EXTENDS CardGame

CONSTANTS
  Settings,   \* the settings the host switches between
  Flaky,      \* bound: the seats whose phone drops
  Vocal       \* bound: the seats whose phone pauses and votes

kHost == 253
Clock == {"None", "Answers", "Juror", "Next"}
SettingsType == [answer: BOOLEAN, extension: BOOLEAN, juror: BOOLEAN, auto: BOOLEAN, rando: BOOLEAN]

ASSUME TableAssumption ==
  Settings \subseteq SettingsType /\ Settings # {} /\ Flaky \subseteq Seat /\ Vocal \subseteq Seat

VARIABLE table

tableVars == <<game, table>>

TableType ==
  [clock: Clock, extended: BOOLEAN, ended: BOOLEAN, votes: SUBSET Seat,
   pausedBy: Seat \cup {kHost, kNone}, blockedOn: Seat \cup {kNone},
   offline: SUBSET Seat, late: SUBSET Seat, lastPhase: Phase, lastRound: Nat,
   settings: SettingsType]

\* reset(), with the settings kept.
NewTable(settings) ==
  [clock |-> "None", extended |-> FALSE, ended |-> FALSE, votes |-> {},
   pausedBy |-> kNone, blockedOn |-> kNone, offline |-> {}, late |-> {},
   lastPhase |-> "Lobby", lastRound |-> 0, settings |-> settings]

\* Only a block would stop the clocks.
FrozenByBlock(t) == t.blockedOn # kNone

Frozen(t) == t.pausedBy # kNone \/ t.blockedOn # kNone
-----------------------------------------------------------------------------
(* tick()                                                                  *)

ClockOf(phase, settings) ==
  CASE phase = "Playing" /\ settings.answer -> "Answers"
    [] phase = "Judging" /\ settings.juror -> "Juror"
    [] phase = "Reveal" /\ settings.auto -> "Next"
    [] OTHER -> "None"

Entered(g, t) == g.phase # t.lastPhase \/ g.round # t.lastRound

\* A phase without a clock of its own would run on the last one.
SyncKeepsClock(g, t) ==
  IF ~Entered(g, t) THEN t
  ELSE LET next == ClockOf(g.phase, t.settings) IN
       [t EXCEPT !.lastPhase = g.phase, !.lastRound = g.round, !.extended = FALSE,
                 !.clock = IF next = "None" THEN @ ELSE next]

\* sync(): the clock of a phase the game just entered.
Sync(g, t) ==
  IF ~Entered(g, t) THEN t
  ELSE LET left == t.lastPhase = "Finished" /\ g.phase # "Finished" IN
       [t EXCEPT !.lastPhase = g.phase, !.lastRound = g.round, !.extended = FALSE,
                 !.clock = ClockOf(g.phase, t.settings),
                 !.votes = IF left THEN {} ELSE @,
                 !.ended = IF left THEN FALSE ELSE @]

\* Who has been away for kBlockAfterMs; more of those already known to be away.
Absent(g, t, more) ==
  LET away == g.seated \ g.connected IN
  [t EXCEPT !.offline = away, !.late = (t.late \cup (more \cap t.offline)) \cap away]

\* Whoever is away blocks, needed or not.
BlockOnAnyone(g, t) ==
  [t EXCEPT !.blockedOn = IF t.late = {} THEN kNone ELSE Min(t.late)]

\* The index of a search that found nobody is taken for a seat.
BlockPastTheEnd(g, t) ==
  LET missing == {s \in t.late : Needed(g, s)} IN
  [t EXCEPT !.blockedOn = Min(missing \cup {kPlayers})]

Block(g, t) ==
  LET missing == {s \in t.late : Needed(g, s)} IN
  [t EXCEPT !.blockedOn = IF missing = {} THEN kNone ELSE Min(missing)]

Extends(g, t) ==
  ~t.extended /\ t.settings.extension /\ HumanPlays(g) < Cardinality(Answering(g))

\* A round nobody answered is left open.
ExpiredWaits(g, t, reached) ==
  CASE t.clock = "Answers" -> IF ~Extends(g, t) /\ CanClose(g) THEN CloseSubmissions(g) ELSE g
    [] t.clock = "Juror" -> IF CanAbort(g) THEN AbortRound(g) ELSE g
    [] t.clock = "Next" -> IF CanNext(g) THEN NextRound(g, reached) ELSE g

\* expire(): the game after a clock ran out.
Expired(g, t, reached) ==
  CASE t.clock = "Answers" /\ Extends(g, t) -> g
    [] t.clock = "Answers" /\ ~Extends(g, t) ->
         IF CanClose(g) THEN CloseSubmissions(g) ELSE IF CanAbort(g) THEN AbortRound(g) ELSE g
    [] t.clock = "Juror" -> IF CanAbort(g) THEN AbortRound(g) ELSE g
    [] t.clock = "Next" -> IF CanNext(g) THEN NextRound(g, reached) ELSE g

\* The deadline of a clock that was armed by this very tick is still ahead.
Acts(g, t, watched, due) ==
  due /\ ~Frozen(watched) /\ watched.clock # "None" /\ ~Entered(g, t)

\* The game and the table after tick().
TickGame(g, t, tm) ==
  LET w == Block(g, Absent(g, Sync(g, t), tm.more)) IN
  IF Acts(g, t, w, tm.due) THEN Expired(g, w, tm.reached) ELSE g

TickTable(g, t, tm) ==
  LET w == Block(g, Absent(g, Sync(g, t), tm.more)) IN
  IF ~Acts(g, t, w, tm.due) THEN w
  ELSE Sync(Expired(g, w, tm.reached),
            IF w.clock = "Answers" /\ Extends(g, w)
              THEN [w EXCEPT !.extended = TRUE] ELSE [w EXCEPT !.clock = "None"])

\* A pack that is enough for the table is so without Rando; nobody counts again
\* when he is switched on in mid-match.
Served(g) == IF g.rando \/ kRando \in g.pile THEN -1 .. Whole ELSE {Whole}

\* What the time and the pack may bring when tick() looks: a deadline passed,
\* more seats gone for kBlockAfterMs, cards for so many seats.
Moment(g, t) ==
  [due: {FALSE, t.clock # "None"}, more: SUBSET (t.offline \ t.late),
   reached: IF t.clock = "Next" THEN Served(g) ELSE {Whole}]

Within(g) == g.round <= MaxRound

\* A handler that leaves the game g and the table t and then ticks.
ThenTick(g, t) ==
  \E tm \in Moment(g, t) :
    /\ game' = TickGame(g, t, tm)
    /\ table' = TickTable(g, t, tm)
    /\ Within(game')

NoTick(g, t) == game' = g /\ table' = t
-----------------------------------------------------------------------------
(* What the phones do.                                                     *)

\* A full lobby gives the seat of a phone that is gone to the newcomer.
MakeRoom(g) ==
  LET ghosts == g.seated \ g.connected IN
  IF g.phase = "Lobby" /\ g.seated = Seat /\ ghosts # {} THEN Vacate(g, Min(ghosts)) ELSE g

PhoneJoin == CanJoin(MakeRoom(game)) /\ ThenTick(Join(MakeRoom(game)), table)
PhoneBack(s) == s \in game.seated \ game.connected /\ ThenTick(Connect(game, s), table)
PhoneGone(s) == s \in game.connected /\ NoTick(Disconnect(game, s), table)

PhoneSubmit(s) == ~Frozen(table) /\ CanSubmit(game, s) /\ ThenTick(Submit(game, s), table)
PhoneJudge(s, p) == ~Frozen(table) /\ CanJudge(game, s, p) /\ ThenTick(Judge(game, p), table)

\* pause() and unpause()
CanPause(by) ==
  /\ table.pausedBy = kNone /\ game.phase \notin {"Lobby", "Finished"}
  /\ by = kHost \/ by \in game.seated
CanUnpause(by) == table.pausedBy # kNone /\ by \in {kHost, table.pausedBy}
Paused(by) == [table EXCEPT !.pausedBy = by]

PhonePause(s) == s \in game.connected /\ CanPause(s) /\ ThenTick(game, Paused(s))
PhoneUnpause(s) == s \in game.connected /\ CanUnpause(s) /\ ThenTick(game, Paused(kNone))
PhoneAgain(s) ==
  /\ s \in game.connected /\ game.phase = "Finished"
  /\ ThenTick(game, [table EXCEPT !.votes = @ \cup {s}])

\* The server's loop.
Loop == ThenTick(game, table)
-----------------------------------------------------------------------------
(* What the host does.  The button of the game screen follows the phase, but *)
(* first lifts a pause and answers a block; the menu works in between.      *)

HostStart == ~Frozen(table) /\ CanStart(game) /\ ThenTick(Start(game), table)
HostClose == ~Frozen(table) /\ CanClose(game) /\ ThenTick(CloseSubmissions(game), table)
HostAbort ==
  ~Frozen(table) /\ game.phase = "Judging" /\ ThenTick(AbortRound(game), table)

\* hostNext() ticks unless the dealing failed.
HostNext(reached) ==
  /\ reached \in Served(game)
  /\ ~Frozen(table) /\ CanNext(game) /\ Within(NextRound(game, reached))
  /\ IF LastRound(game) \/ reached = Whole
       THEN ThenTick(NextRound(game, reached), table)
       ELSE NoTick(NextRound(game, reached), table)

HostRematch == CanRematch(game) /\ ThenTick(Rematch(game), table)
HostEnd == CanEnd(game) /\ ThenTick(Finish(game), [table EXCEPT !.ended = TRUE])
HostPause == CanPause(kHost) /\ NoTick(game, Paused(kHost))
HostUnpause == CanUnpause(kHost) /\ NoTick(game, Paused(kNone))

\* The vote of a removed player still counts.
SeatGoneVoteStays(s) == [table EXCEPT !.offline = @ \ {s}, !.late = @ \ {s}]

\* seatGone(): a removed seat takes its vote and its offline record with it.
SeatGone(s) == [table EXCEPT !.votes = @ \ {s}, !.offline = @ \ {s}, !.late = @ \ {s}]
HostKick(s) == s \in game.seated /\ ThenTick(Kick(game, s), SeatGone(s))

\* continueWithout(): the host answers a block.
HostContinue ==
  /\ table.blockedOn # kNone
  /\ ThenTick(IF game.phase = "Judging" THEN AbortRound(game)
              ELSE ReleaseTurn(game, table.blockedOn), table)

\* apply(): the juror's and the next round's clock at once.
HostSettings(settings) ==
  LET t == [table EXCEPT !.settings = settings] IN
  NoTick(SetRando(game, settings.rando),
         IF game.phase \in {"Judging", "Reveal"}
           THEN [t EXCEPT !.clock = ClockOf(game.phase, settings)] ELSE t)

HostRounds(n) == CanSetRounds(game) /\ NoTick(SetRounds(game, n), table)

\* A pack switch, between rounds: the hands are dealt anew, or the match ends
\* if the new pack is too small, which is found out before the reload
\* (CardPartyActivity.cpp:370-374).
HostPack(fits) ==
  /\ game.phase = "Reveal"
  /\ IF fits THEN ThenTick(ReloadDeck(game, Whole), table)
     ELSE ThenTick(Finish(game), [table EXCEPT !.ended = TRUE])

\* The host closes the table, and opens it again: resetGame(), then begin().
HostReopen(n) == NoTick(NewGame(n, table.settings.rando), NewTable(table.settings))
-----------------------------------------------------------------------------
TableInit ==
  \E n \in Rounds, s \in Settings : game = NewGame(n, s.rando) /\ table = NewTable(s)

HostStep ==
  \/ HostStart \/ HostClose \/ HostAbort \/ HostRematch \/ HostEnd
  \/ HostPause \/ HostUnpause \/ HostContinue
  \/ \E reached \in -1 .. Whole : HostNext(reached)
  \/ \E s \in Seat : HostKick(s)
  \/ \E s \in Settings : HostSettings(s)
  \/ \E n \in Rounds : HostRounds(n) \/ HostReopen(n)
  \/ \E fits \in BOOLEAN : HostPack(fits)

PhoneStep ==
  \/ PhoneJoin
  \/ \E s \in Seat : PhoneBack(s) \/ PhoneSubmit(s) \/ \E p \in Player : PhoneJudge(s, p)
  \/ \E s \in Flaky : PhoneGone(s)
  \/ \E s \in Vocal : PhonePause(s) \/ PhoneUnpause(s) \/ PhoneAgain(s)

TableNext == HostStep \/ PhoneStep \/ Loop

\* The loop runs all the time, and a clock that is running runs out.
ClockRunsOut ==
  /\ game' = TickGame(game, table, [due |-> TRUE, more |-> {}, reached |-> Whole])
  /\ table' = TickTable(game, table, [due |-> TRUE, more |-> {}, reached |-> Whole])
  /\ Within(game')

TableSpec == TableInit /\ [][TableNext]_tableVars /\ WF_tableVars(ClockRunsOut)
-----------------------------------------------------------------------------
(* Properties.                                                             *)

TableTypeOK == game \in GameType /\ table \in TableType

\* While the table stays paused, no answer, no pick and no clock moves the match,
\* whoever drops or returns; only what the host takes from the menu does
\* (CardPartyBrowserServer.cpp:721-727, CardPartyTable.h:203).
PausedMeansStill ==
  [][table.pausedBy # kNone /\ table'.pausedBy # kNone /\ ~HostStep =>
       /\ game'.phase = game.phase /\ game'.round = game.round
       /\ game'.submitted = game.submitted /\ game'.points = game.points]_tableVars

\* The table never waits for somebody the game does not wait for: the block names
\* a player who is away and without whom the round cannot go on
\* (CardPartyTable.h:66-74).
BlockIsReal ==
  table.blockedOn # kNone =>
    Needed(game, table.blockedOn) /\ table.blockedOn \notin game.connected

\* The clock that runs is the clock of the phase shown, or the next tick sees a new
\* phase and arms its clock: none ends a phase it was not set for
\* (CardPartyTable.h:160-179).
AnySettings == [answer |-> TRUE, extension |-> TRUE, juror |-> TRUE, auto |-> TRUE, rando |-> FALSE]
ClockFitsPhase ==
  Entered(game, table) \/ table.clock \in {"None", ClockOf(game.phase, AnySettings)}

\* Votes for another match, and the word that the host ended this one, belong to
\* a finished match and to players still seated (CardPartyTable.h:125-136, 163).
VotesAreCurrent ==
  (table.votes # {} \/ table.ended => game.phase = "Finished") /\ table.votes \subseteq game.seated

\* With every clock set, everyone online and nobody pausing, a match of fixed
\* length whose clock runs goes to its end without the host: no phase is entered
\* without its clock, and none waits for nobody (CardPartyTable.h:163-203).
Unattended ==
  /\ game.phase # "Lobby" /\ game.connected = game.seated /\ table.pausedBy = kNone
  /\ table.settings.answer /\ table.settings.juror /\ table.settings.auto
  /\ ~game.rando /\ kRando \notin game.pile
AutoModeFinishes ==
  (Unattended /\ table.clock # "None") ~> (game.phase = "Finished" \/ ~Unattended)
=============================================================================
