----------------------------- MODULE CardGame -----------------------------
(***************************************************************************)
(* The rules core of the card party: cardparty::Game in                    *)
(* apps_local/cardparty/CardPartyCore.h.  Seats join a lobby; in every     *)
(* round all but the Juror hand in an answer, the Juror picks one of the   *)
(* anonymous pile, and the next seat is Juror.                             *)
(*                                                                         *)
(* The whole state of Game is one record, and every operation an operator  *)
(* from the old record to the new one, so that a caller can do several in  *)
(* one step as the code does (CardTable).  Which cards are in which hand   *)
(* is left out: a play is known by the seat that handed it in, and anon    *)
(* holds the plays whose author has been removed since.                    *)
(***************************************************************************)
EXTENDS Integers, FiniteSets, FiniteSetsExt

CONSTANTS
  kPlayers,    \* seats at the table
  Rounds,      \* match lengths the host may ask for; 0 is endless
  MaxRound     \* bound on the round counter

ASSUME CardAssumption ==
  /\ kPlayers \in Nat /\ 3 <= kPlayers /\ kPlayers <= 250
  /\ Rounds \subseteq 0..255 /\ Rounds # {}
  /\ MaxRound \in Nat

kNone == 255
kRando == 254
Seat == 0 .. kPlayers - 1
Player == Seat \cup {kRando}     \* who may have a play in the pile
Phase == {"Lobby", "Playing", "Judging", "Reveal", "Finished"}

GameType ==
  [phase: Phase, seated: SUBSET Seat, connected: SUBSET Seat,
   submitted: SUBSET Seat, held: SUBSET Seat, points: [Seat -> Nat],
   czar: Seat \cup {kNone}, round: Nat, rounds: Nat, requested: Nat, rando: BOOLEAN,
   pile: SUBSET Player, anon: SUBSET Player, selected: Player \cup {kNone},
   winner: Player \cup {kNone}, aborted: BOOLEAN]

\* configure(): an empty lobby.
NewGame(requested, rando) ==
  [phase |-> "Lobby", seated |-> {}, connected |-> {}, submitted |-> {}, held |-> {},
   points |-> [s \in Seat |-> 0], czar |-> kNone, round |-> 0, rounds |-> requested,
   requested |-> requested, rando |-> rando, pile |-> {}, anon |-> {},
   selected |-> kNone, winner |-> kNone, aborted |-> FALSE]
-----------------------------------------------------------------------------
(* What the rules look at.                                                 *)

Author(g, p) == IF p \in g.anon THEN kNone ELSE p
HumanPlays(g) == Cardinality(g.pile \ {kRando})

\* Without a submitted player who dropped, the round would end too early.
AnsweringOnline(g) == {s \in g.seated \ {g.czar} : s \in g.connected \cup g.held}

\* expected(): everyone whose answer the round counts or still waits for.
Answering(g) == {s \in g.seated \ {g.czar} : s \in g.connected \cup g.submitted \cup g.held}

\* needed(): the game cannot move on without this player.
Needed(g, s) ==
  \/ g.phase = "Judging" /\ s = g.czar /\ s \in g.seated
  \/ /\ g.phase = "Playing" /\ s \in g.seated \ ({g.czar} \cup g.submitted)
     /\ s \in g.connected \cup g.held

\* Without a wrap at the last seat, nobody sits where the next Juror would.
NextJurorUnwrapped(g, prev) ==
  LET from == IF prev = kNone THEN kPlayers - 1 ELSE prev
      online == {d \in 1..kPlayers : (from + d) % kPlayers \in g.connected}
  IN IF online = {} THEN kNone ELSE from + Min(online)

\* next(): the seats count on from prev, and (kNone + 1) % 8 is seat 0.
NextJuror(g, prev) ==
  LET from == IF prev = kNone THEN kPlayers - 1 ELSE prev
      online == {d \in 1..kPlayers : (from + d) % kPlayers \in g.connected}
  IN IF online = {} THEN kNone ELSE (from + Min(online)) % kPlayers

\* Rounds actually played: the nearest multiple of the players, ties up, at
\* least one cycle, and no more than a byte holds.
FairRounds(requested, players) ==
  IF requested = 0 \/ players = 0 THEN requested
  ELSE LET cycles == (requested + players \div 2) \div players
           rounds == players * (IF cycles = 0 THEN 1 ELSE cycles)
       IN IF rounds > 255 THEN 255 - (255 % players) ELSE rounds

\* maybeJudge(): the pile is shuffled and shown once nobody is waited for.
MaybeJudge(g) ==
  IF /\ g.phase = "Playing"
     /\ HumanPlays(g) > 0 /\ HumanPlays(g) >= Cardinality(Answering(g))
    THEN [g EXCEPT !.phase = "Judging"] ELSE g

\* finish(): a round cut short shows nothing of its private pile.
Finish(g) ==
  IF g.phase \in {"Playing", "Judging"}
    THEN [g EXCEPT !.phase = "Finished", !.pile = {}, !.anon = {},
                   !.selected = kNone, !.winner = kNone]
    ELSE [g EXCEPT !.phase = "Finished"]
-----------------------------------------------------------------------------
(* The lobby.                                                              *)

Emptied(points, s) == [points EXCEPT ![s] = 0]

CanJoin(g) == g.phase = "Lobby" /\ g.seated # Seat
FreeSeat(g) == Min(Seat \ g.seated)
Join(g) ==
  LET s == FreeSeat(g) IN
  [g EXCEPT !.seated = @ \cup {s}, !.connected = @ \cup {s}, !.points = Emptied(@, s)]

\* A flag that outlives the seat is counted for the next to sit there.
VacateSeatOnly(g, s) ==
  [g EXCEPT !.seated = @ \ {s}, !.connected = @ \ {s}, !.points = Emptied(@, s)]

\* players_[seat] = Player{}
Vacate(g, s) ==
  [g EXCEPT !.seated = @ \ {s}, !.connected = @ \ {s}, !.submitted = @ \ {s},
            !.held = @ \ {s}, !.points = Emptied(@, s)]

CanSetRounds(g) == g.phase = "Lobby"
SetRounds(g, n) == [g EXCEPT !.rounds = n, !.requested = n]
SetRando(g, on) == [g EXCEPT !.rando = on]
-----------------------------------------------------------------------------
(* A round.                                                                *)

\* beginRound() serves the seats in order and Rando last, and may run out of
\* cards on the way: reached seats were served, and more than kPlayers is all.
Whole == kPlayers + 1
BeginRound(g, reached) ==
  [g EXCEPT !.phase = "Playing", !.anon = {}, !.selected = kNone, !.winner = kNone,
            !.aborted = FALSE, !.submitted = {}, !.held = {s \in @ : s >= reached},
            !.pile = IF g.rando /\ reached >= kPlayers THEN {kRando} ELSE {}]

CanStart(g) == g.phase = "Lobby" /\ Cardinality(g.connected) >= 3
Start(g) ==
  BeginRound([g EXCEPT !.rounds = FairRounds(g.requested, Cardinality(g.connected)),
                       !.czar = NextJuror(g, kNone), !.round = 1], Whole)

CanSubmit(g, s) ==
  /\ g.phase = "Playing"
  /\ s \in g.connected \ ({g.czar} \cup g.submitted)
  /\ Cardinality(g.pile) < kPlayers
Submit(g, s) ==
  MaybeJudge([g EXCEPT !.submitted = @ \cup {s}, !.pile = @ \cup {s}])

\* A player who drops before answering keeps the turn open.
Holds(g, s) == g.phase = "Playing" /\ s # g.czar /\ s \notin g.submitted
Connect(g, s) ==
  MaybeJudge([g EXCEPT !.connected = @ \cup {s}, !.held = @ \ {s}])
Disconnect(g, s) ==
  MaybeJudge([g EXCEPT !.connected = @ \ {s},
                       !.held = IF Holds(g, s) THEN @ \cup {s} ELSE @ \ {s}])

\* Without a look whether that was the last one waited for.
ReleaseTurnOnly(g, s) == [g EXCEPT !.held = @ \ {s}]

ReleaseTurn(g, s) == IF s \in g.held THEN MaybeJudge([g EXCEPT !.held = @ \ {s}]) ELSE g

CanClose(g) == g.phase = "Playing" /\ HumanPlays(g) > 0
CloseSubmissions(g) == [g EXCEPT !.phase = "Judging"]

CanJudge(g, s, p) ==
  g.phase = "Judging" /\ s = g.czar /\ s \in g.connected /\ p \in g.pile
Awarded(points, w) == IF w \in Seat THEN [points EXCEPT ![w] = @ + 1] ELSE points
Judge(g, p) ==
  LET w == Author(g, p) IN
  [g EXCEPT !.selected = p, !.winner = w, !.phase = "Reveal",
            !.points = Awarded(@, w)]

CanAbort(g) == g.phase \in {"Playing", "Judging"}
AbortRound(g) ==
  [g EXCEPT !.phase = "Reveal", !.winner = kNone, !.selected = kNone, !.aborted = TRUE]
-----------------------------------------------------------------------------
(* Between rounds, and the end.                                            *)

LastRound(g) == g.rounds # 0 /\ g.round >= g.rounds

\* nextRound(); reached as in BeginRound, and negative if the cards ran out
\* before the new round began.
CanNext(g) == g.phase = "Reveal" /\ (LastRound(g) \/ Cardinality(g.connected) >= 3)
NextRound(g, reached) ==
  IF LastRound(g) THEN [g EXCEPT !.phase = "Finished"]
  ELSE IF reached < 0 THEN [g EXCEPT !.submitted = {}]
  ELSE BeginRound([g EXCEPT !.czar = NextJuror(g, g.czar), !.round = @ + 1], reached)

\* reloadDeck() between rounds: nothing of the old pack stays on the table.  The
\* new pack may run out too, at any card: reached as in nextRound().
ReloadDeck(g, reached) ==
  LET cleared == [g EXCEPT !.pile = {}, !.anon = {}, !.selected = kNone, !.winner = kNone,
                           !.aborted = FALSE, !.submitted = {}, !.held = {}]
  IN IF LastRound(g) THEN [cleared EXCEPT !.phase = "Finished"]
     ELSE IF reached < 0 THEN cleared
     ELSE BeginRound([cleared EXCEPT !.czar = NextJuror(g, g.czar), !.round = @ + 1], reached)

CanEnd(g) == g.phase \notin {"Lobby", "Finished"}

CanRematch(g) == g.phase = "Finished"
Rematch(g) ==
  [NewGame(g.requested, g.rando) EXCEPT !.seated = g.seated, !.connected = g.connected]

\* A play left behind in the private pile is judged for nobody.
ForgetName(g, s) ==
  [g EXCEPT !.anon = @ \cup ({s} \cap g.pile), !.winner = IF @ = s THEN kNone ELSE @]

\* kick(): the author of a play still private takes it along; of one already
\* shown, the name is struck.
Forget(g, s) ==
  IF g.phase = "Playing" THEN [g EXCEPT !.pile = @ \ {s}]
  ELSE [g EXCEPT !.anon = @ \cup ({s} \cap g.pile),
                 !.winner = IF @ = s THEN kNone ELSE @]

IsJuror(g, s) == s = g.czar /\ g.phase \in {"Playing", "Judging"}

Kick(g, s) ==
  LET gone == Vacate(Forget(g, s), s)
      next == IF IsJuror(g, s) THEN AbortRound(gone) ELSE MaybeJudge(gone)
  IN IF g.phase = "Lobby" THEN Vacate(g, s)
     ELSE IF next.phase # "Finished" /\ Cardinality(next.seated) < 3 THEN Finish(next)
     ELSE next
-----------------------------------------------------------------------------
(* The core on its own: any operation a caller may make at any time.       *)

VARIABLE game

Init == \E n \in Rounds, rando \in BOOLEAN : game = NewGame(n, rando)

DoJoin == CanJoin(game) /\ game' = Join(game)
DoStart == CanStart(game) /\ game' = Start(game)
DoSubmit(s) == CanSubmit(game, s) /\ game' = Submit(game, s)
DoConnect(s) == s \in game.seated /\ game' = Connect(game, s)
DoDisconnect(s) == s \in game.seated /\ game' = Disconnect(game, s)
DoRelease(s) == s \in game.held /\ game' = ReleaseTurn(game, s)
DoClose == CanClose(game) /\ game' = CloseSubmissions(game)
DoJudge(s, p) == CanJudge(game, s, p) /\ game' = Judge(game, p)
DoAbort == CanAbort(game) /\ game' = AbortRound(game)
DoNext(reached) ==
  CanNext(game) /\ (game.round < MaxRound \/ LastRound(game)) /\ game' = NextRound(game, reached)
DoReload(reached) ==
  game.phase = "Reveal" /\ game.round < MaxRound /\ game' = ReloadDeck(game, reached)
DoKick(s) == s \in game.seated /\ game' = Kick(game, s)
DoEnd == CanEnd(game) /\ game' = Finish(game)
DoRematch == CanRematch(game) /\ game' = Rematch(game)
DoSetRounds(n) == CanSetRounds(game) /\ game' = SetRounds(game, n)
DoSetRando(on) == game' = SetRando(game, on)

Next ==
  \/ DoJoin \/ DoStart \/ DoClose \/ DoAbort \/ DoEnd \/ DoRematch
  \/ \E s \in Seat :
       DoSubmit(s) \/ DoConnect(s) \/ DoDisconnect(s) \/ DoRelease(s) \/ DoKick(s)
  \/ \E s \in Seat, p \in Player : DoJudge(s, p)
  \/ \E reached \in -1 .. Whole : DoNext(reached) \/ DoReload(reached)
  \/ \E n \in Rounds : DoSetRounds(n)
  \/ \E on \in BOOLEAN : DoSetRando(on)

Spec == Init /\ [][Next]_game
-----------------------------------------------------------------------------
(* Properties.                                                             *)

\* A game is what CardPartyCore.h:648-659 can hold: its Juror a seat or nobody,
\* its pile plays of seats or Rando, counters in range.
GameTypeOK == game \in GameType

\* Only seated players are counted anywhere: whoever is removed leaves nothing
\* behind that is theirs but an anonymous play (CardPartyCore.h:340-343).
NoGhosts(g) ==
  /\ g.connected \cup g.submitted \cup g.held \subseteq g.seated
  /\ g.held \cap g.connected = {}
  /\ g.winner \in g.seated \cup {kRando, kNone}
  /\ \A p \in g.pile \ {kRando} : Author(g, p) \in g.seated \cup {kNone}
NobodyLeftBehind == NoGhosts(game)

\* While answers are collected, the pile is exactly the answers of those who
\* handed one in, all with their names on, none the Juror's: no leave, kick or
\* reconnection loses or doubles one (CardPartyCore.h:346-350).
PileMatches(g) ==
  g.phase = "Playing" => g.pile \ {kRando} = g.submitted /\ g.anon = {} /\ g.czar \notin g.submitted
PileIsTheAnswers == PileMatches(game)

\* A round never hangs on a player it is not waiting for: when the last one it
\* waits for answers, leaves for good or is removed, judging starts in the same
\* step (CardPartyCore.h:370-371, the regression of test_disconnect_progress).
Waiting(g) ==
  g.phase = "Playing" /\ HumanPlays(g) > 0 => HumanPlays(g) < Cardinality(Answering(g))
NotWaitingForNobody == Waiting(game)

\* And judging starts by itself only over nobody's head: everyone online, or
\* away but holding a turn, has answered (CardPartyCore.h:116-119).
NobodySkipped ==
  [][game.phase = "Playing" /\ game'.phase = "Judging" /\ game' # CloseSubmissions(game)
       => \A s \in game'.seated \ {game'.czar} :
            s \in game'.connected \cup game'.held => s \in game'.submitted]_game
=============================================================================
