---------------------------- MODULE LinkRematch ----------------------------
(***************************************************************************)
(* A match between two games, and the rematch conversation that strings    *)
(* several games into one match: apps_local/link/LinkActivity.cpp and      *)
(* LinkPlay.cpp over LinkSession, with the hooks of the link games       *)
(* (onMatchStart, takeOpponentState, onRematch, matchGameOver).            *)
(*                                                                         *)
(* One pass of LinkActivity::loop() is the chain of steps pc names: tick   *)
(* (the session hears packets and retries), match start, notes, take the   *)
(* opponent's state, the finished-game question, then one tap.  A step     *)
(* with nothing to do is skipped.  The match is already made and           *)
(* confirmed; discovery and the ways a match dies are LinkSession's.       *)
(*                                                                         *)
(* A game is reduced to what the layer and the players can tell apart: the *)
(* deal, and what each state since left: a seat to move, a scored round or *)
(* a finished game.  The rules are free to score a round and to choose who *)
(* starts the next one.                                                    *)
(***************************************************************************)
EXTENDS LinkSession

CONSTANT
  Title        \* the game being played

Titles ==
  {"Chess", "Checkers", "ConnectFour", "Knucklebones", "Yahtzee", "Jaipur",
   "SeaSalt", "ToyBattle"}

PlayAgain == 1   \* kNotePlayAgain

\* A match is between two devices.
ASSUME RematchAssumption ==
  /\ Title \in Titles
  /\ PlayAgain \in Note
  /\ \E a, b \in Device : a # b /\ Device = {a, b}

VARIABLES
  pc,          \* where a device is in its pass
  phase,       \* PlayBase::phase_
  seat,        \* which side of the board the game gives this device
  rematch,     \* the link screen is up, asking for another game
  you, them,   \* the two answers it shows
  restarts     \* rematches this device has started

askVars == <<rematch, you, them>>
rematchVars == <<pc, phase, seat, askVars, restarts>>
allVars == <<vars, rematchVars>>
idleVars == <<lifeVars, matchVars>>
-----------------------------------------------------------------------------
(* What the games do with the hooks.                                       *)

\* onRematch(): who leads is whoever holds the turn, or whoever won the toss.
TurnLeads == Title \in {"Chess", "Jaipur", "SeaSalt"}

\* onMatchStart(): an opening both sides can set up, or a random deal that
\* only the leader makes; the deal goes out at once, or with the first move.
BothDeal == Title \in {"Chess", "Checkers", "ConnectFour"}
DealGoesWithMove == Title = "ToyBattle"
DealIsSent == Title \in {"Jaipur", "SeaSalt", "ToyBattle"}

\* A follower that does not deal clears the finished board, or keeps it.
FollowerClears == Title \in {"Knucklebones", "ToyBattle"}

\* A tap is gated by the link's turn alone, or by the board's as well.
LinkGates == Title \in {"Chess", "Checkers", "ConnectFour", "Knucklebones", "Yahtzee"}

NeverPasses == FALSE

\* A device the rules have nothing for hands the turn back unchanged.
Passes == Title \in {"Jaipur", "SeaSalt"}

\* NEW GAME in the middle of a game asks the other player.
AsksMidGame == Title \in {"Chess", "ToyBattle"}

\* A match of several rounds: a round is scored before the game is over, and
\* the holder of the link's turn deals the next one.
HasRounds == Title \in {"Jaipur", "SeaSalt"}

\* Toy Battle's dealer names the other seat as the starter.
Opener == IF Title = "ToyBattle" THEN 1 ELSE 0

\* A board: the deal, then one entry for every state played since.  Two deals
\* are the same game only if they are the same opening or the same deal.
Seat == {0, 1}
RoundOver == 2
GameOver == 3
Opening == 0
DealBy(d) == 10 * d + restarts'[d]

Dealt(b) == b # <<>>
Entry(b) == b[Len(b)]
InPlay(b) == Dealt(b) /\ (Len(b) = 1 \/ Entry(b) \in Seat)
Finished(b) == Len(b) > 1 /\ Entry(b) = GameOver
ToMove(b) == IF Len(b) = 1 THEN Opener ELSE Entry(b)

\* A move hands the board to the other seat or ends something; a scored round
\* is followed by a deal, which starts with whom the rules choose.
Entries(b) ==
  IF InPlay(b)
    THEN {1 - ToMove(b), GameOver} \cup (IF HasRounds THEN {RoundOver} ELSE {})
    ELSE Seat

\* The game on the board before the match: none, or one left running or
\* finished against the machine, which a follower keeps until the deal comes.
Leftover(d) == {<<>>, <<10 * d + 9>>, <<10 * d + 9, GameOver>>}
-----------------------------------------------------------------------------
(* The session, as a pass uses it.                                         *)

PhaseOf(d) ==
  IF myTurn[d] /\ ~incoming[d].pending THEN "YourTurn" ELSE "TheirTurn"

Hear(d, p) ==
  /\ pc[d] = "tick"
  /\ HearState(d, p) \/ HearAck(d, p) \/ HearSay(d, p) \/ HearSayAck(d, p)
  /\ UNCHANGED rematchVars

Retry(d) ==
  /\ pc[d] = "tick"
  /\ RetryState(d) \/ RetrySay(d)
  /\ UNCHANGED rematchVars

\* PlayBase::play(): a state goes out, and the turn is theirs at once.
SendBoard(d, b) ==
  /\ sequence[d] < MaxMoves
  /\ Play(d, b)
  /\ phase' = [phase EXCEPT ![d] = "TheirTurn"]

SendNothing == UNCHANGED <<idleVars, moveVars, noteVars, net, phase>>
-----------------------------------------------------------------------------
(* driveLink().                                                            *)

\* A finished game is a question, asked once.
Asks(d) == Finished(board[d]) /\ ~rematch[d]

\* What is left of a pass: the opponent's state if one waits, the question if
\* there is one, the tap.
AfterState(d) == IF Asks(d) THEN "question" ELSE "input"
AfterNotes(d) == IF incoming[d].pending THEN "take" ELSE AfterState(d)

Update(d) ==
  /\ pc[d] = "tick"
  /\ phase' = [phase EXCEPT ![d] = PhaseOf(d)]
  /\ pc' = [pc EXCEPT ![d] = IF incomingSay[d].pending THEN "notes" ELSE AfterNotes(d)]
  /\ UNCHANGED <<vars, seat, askVars, restarts>>

\* The leader takes seat 0: light, White, the dealer.
SeatOf(leads) == IF leads THEN 0 ELSE 1

\* onMatchStart().
StartGame(d, leads) ==
  LET deal == IF BothDeal THEN <<Opening>> ELSE <<DealBy(d)>> IN
  /\ seat' = [seat EXCEPT ![d] = SeatOf(leads)]
  /\ board' = [board EXCEPT ![d] =
                 IF leads \/ BothDeal THEN deal
                 ELSE IF FollowerClears THEN <<>> ELSE @]
  /\ IF leads /\ DealIsSent /\ phase[d] = "YourTurn"
       THEN SendBoard(d, deal) ELSE SendNothing

MatchStart(d) ==
  /\ pc[d] = "matched"
  /\ UNCHANGED <<askVars, restarts>>
  /\ StartGame(d, isHost[d])
  /\ pc' = [pc EXCEPT ![d] = AfterState(d)']

HearAgain(d) ==
  /\ pc[d] = "notes"
  /\ TakeAnnouncement(d)
  /\ them' = [them EXCEPT ![d] = "Ready"]
  /\ rematch' = [rematch EXCEPT ![d] = TRUE]
  /\ IF you[d] = "Ready"
       THEN /\ pc' = [pc EXCEPT ![d] = "agreed"]
            /\ UNCHANGED you
       ELSE /\ pc' = [pc EXCEPT ![d] = AfterNotes(d)']
            /\ you' = [you EXCEPT ![d] = "Deciding"]
  /\ UNCHANGED <<phase, seat, restarts>>

\* onRematch(): the seat the device takes in the next game.
Leads(d) == IF TurnLeads THEN phase[d] = "YourTurn" ELSE isHost[d]

\* Both said yes: reached from the note (agreed) or from the tap (accepted).
StartRematch(d) ==
  /\ pc[d] \in {"agreed", "accepted"}
  /\ rematch' = [rematch EXCEPT ![d] = FALSE]
  /\ you' = [you EXCEPT ![d] = "Deciding"]
  /\ them' = [them EXCEPT ![d] = "Deciding"]
  /\ restarts' = [restarts EXCEPT ![d] = @ + 1]
  /\ StartGame(d, Leads(d))
  /\ pc' = [pc EXCEPT ![d] = IF @ = "agreed" THEN AfterNotes(d)' ELSE "tick"]

\* A scored round is not nothing: the holder of the link's turn deals.
NothingInRoundOver(d, b) == ~Finished(b) /\ ToMove(b) # seat[d]

\* The rules have nothing for this device, though the link gave it the turn.
Nothing(d, b) == InPlay(b) /\ ToMove(b) # seat[d]

\* takeOpponentState(): adopt what arrived, and pass if it leaves nothing to do.
TakeState(d) ==
  LET b == incoming[d].board IN
  /\ pc[d] = "take"
  /\ TakeIncoming(d)
  /\ phase' = [phase EXCEPT ![d] = IF myTurn[d] THEN "YourTurn" ELSE @]
  /\ UNCHANGED <<seat, askVars, restarts>>
  /\ pc' = [pc EXCEPT ![d] =
              IF Passes /\ myTurn[d] /\ Nothing(d, b) THEN "pass" ELSE AfterState(d)']

PassTurn(d) ==
  /\ pc[d] = "pass"
  /\ SendBoard(d, board[d])
  /\ UNCHANGED <<board, seat, askVars, restarts>>
  /\ pc' = [pc EXCEPT ![d] = AfterState(d)']

Question(d) ==
  /\ pc[d] = "question"
  /\ rematch' = [rematch EXCEPT ![d] = TRUE]
  /\ you' = [you EXCEPT ![d] = "Deciding"]
  /\ them' = [them EXCEPT ![d] = "Deciding"]
  /\ pc' = [pc EXCEPT ![d] = "input"]
  /\ UNCHANGED <<vars, phase, seat, restarts>>
-----------------------------------------------------------------------------
(* One tap: the link screen's while it is up, the game's otherwise.        *)

NoTap(d) ==
  /\ pc[d] = "input"
  /\ pc' = [pc EXCEPT ![d] = "tick"]
  /\ UNCHANGED <<vars, phase, seat, askVars, restarts>>

AskedIsAgreed(d) == rematch[d]

\* Only an answer given in this conversation counts.
TheyAgreed(d) == rematch[d] /\ them[d] = "Ready"

\* PLAY AGAIN on the link screen, or the game's own NEW GAME.  The button stays
\* while an answer is awaited, and asks again.
ProposeRematch(d) ==
  /\ pc[d] = "input"
  /\ rematch[d] \/ AsksMidGame
  /\ Announce(d, PlayAgain)
  /\ you' = [you EXCEPT ![d] = "Ready"]
  /\ IF TheyAgreed(d)
       THEN /\ pc' = [pc EXCEPT ![d] = "accepted"]
            /\ UNCHANGED <<rematch, them>>
       ELSE /\ pc' = [pc EXCEPT ![d] = "tick"]
            /\ rematch' = [rematch EXCEPT ![d] = TRUE]
            /\ them' = [them EXCEPT ![d] = "Deciding"]
  /\ UNCHANGED <<phase, seat, restarts>>

MayTapInPlay(d) ==
  /\ ~rematch[d]
  /\ phase[d] = "YourTurn"
  /\ InPlay(board[d])
  /\ LinkGates \/ ToMove(board[d]) = seat[d]

\* The game takes a move only for the player to move, and the deal of a round
\* from whoever holds the link's turn.
MayTap(d) ==
  /\ ~rematch[d]
  /\ phase[d] = "YourTurn"
  /\ Dealt(board[d]) /\ ~Finished(board[d])
  /\ LinkGates \/ (InPlay(board[d]) => ToMove(board[d]) = seat[d])

Tap(d, e) ==
  /\ pc[d] = "input"
  /\ MayTap(d)
  /\ e \in Entries(board[d])
  /\ board' = [board EXCEPT ![d] = Append(@, e)]
  /\ SendBoard(d, board'[d])
  /\ pc' = [pc EXCEPT ![d] = "tick"]
  /\ UNCHANGED <<seat, askVars, restarts>>
-----------------------------------------------------------------------------
\* Two devices just matched and confirmed; either may have won the toss, and
\* either may come from a game of its own.
RematchInit ==
  \E host \in Device :
    /\ state = [d \in Device |-> "Playing"]
    /\ endReason = [d \in Device |-> "None"]
    /\ gameId \in {[d \in Device |-> g] : g \in Game}
    /\ toss = [d \in Device |-> 0]
    /\ candidate = [d \in Device |-> NoDevice]
    /\ trips = [d \in Device |-> 1]
    /\ peer = [d \in Device |-> CHOOSE e \in Device : e # d]
    /\ isHost = [d \in Device |-> d = host]
    /\ myTurn = [d \in Device |-> d = host]
    /\ peerConfirmed = [d \in Device |-> TRUE]
    /\ sequence = [d \in Device |-> 0]
    /\ outgoing = [d \in Device |-> NoOutgoing]
    /\ incoming = [d \in Device |-> NoIncoming]
    /\ outgoingSay = [d \in Device |-> NoSay]
    /\ incomingSay = [d \in Device |-> NoSay]
    /\ board \in [Device -> UNION {Leftover(d) : d \in Device}]
    /\ \A d \in Device : board[d] \in Leftover(d)
    /\ net = {}
    /\ pc = [d \in Device |-> "matched"]
    /\ phase = [d \in Device |-> IF d = host THEN "YourTurn" ELSE "TheirTurn"]
    /\ seat = [d \in Device |-> 0]
    /\ rematch = [d \in Device |-> FALSE]
    /\ you = [d \in Device |-> "Deciding"]
    /\ them = [d \in Device |-> "Deciding"]
    /\ restarts = [d \in Device |-> 0]

RematchNext ==
  \E d \in Device :
    \/ \E p \in net : Hear(d, p)
    \/ Retry(d)
    \/ Update(d) \/ MatchStart(d)
    \/ HearAgain(d) \/ StartRematch(d)
    \/ TakeState(d) \/ PassTurn(d)
    \/ Question(d)
    \/ NoTap(d) \/ ProposeRematch(d)
    \/ \E e \in Seat \cup {RoundOver, GameOver} : Tap(d, e)

RematchSpec == RematchInit /\ [][RematchNext]_allVars
-----------------------------------------------------------------------------
(* Properties.                                                             *)

Settled(d) == pc[d] = "input" /\ ~rematch[d]
SameGame(a, b) == Settled(a) /\ Settled(b) /\ restarts[a] = restarts[b]

\* Two devices playing the same game of a match sit on different sides of the
\* board, though each takes its seat alone (JaipurActivity.cpp:277-282: exactly
\* one device deals a rematch).
SeatsDiffer == \A a, b \in Device : a # b /\ SameGame(a, b) => seat[a] # seat[b]

\* A device has never started more games of a match than either player has said
\* yes to, however often a question is repeated and however its copies arrive
\* (LinkActivity.cpp:151-154).
YesPerGame == \A a, b \in Device : restarts[a] <= outgoingSay[b].seq

\* A device starts the next game only with the other player's yes to that game:
\* the other has started it too, or is waiting on its own yes.
BothSaidYes ==
  \A a, b \in Device :
    restarts[a] > restarts[b] => restarts[a] = restarts[b] + 1 /\ you[b] = "Ready"

\* Nothing is in flight, nothing waits to be taken.
AtRest ==
  \A d \in Device : pc[d] = "input" /\ ~outgoing[d].pending /\ ~incoming[d].pending

\* Whoever deals, passes or starts over, and in whatever order the two do it,
\* nobody goes on with a board the other never gets (JaipurActivity.cpp:248-257).
SameBoardAtRest == AtRest => \A a, b \in Device : board[a] = board[b]

\* The player the link lets move is the player the board says is to move, over
\* the rounds and the games of a match (JaipurLink.h:6-25).
LinkFollowsBoard ==
  \A d \in Device :
    Settled(d) /\ phase[d] = "YourTurn" /\ InPlay(board[d])
    => ToMove(board[d]) = seat[d]

\* A pass is not answered by a pass: in the first game of a match a device never
\* hands back the very state it sent (JaipurActivity.cpp:268-272).  In a rematch
\* both may sit on one side (SeatsDiffer), and then it does.
PassesOnce ==
  (\A d \in Device : restarts[d] = 0) =>
    \A d \in Device : pc[d] = "pass" => outgoing[d].board # board[d]

\* The link screen is up only over a finished game or because a player asked:
\* it never covers a game both are still playing (LinkActivity.h:144-147).
QuestionHasCause ==
  \A d \in Device :
    pc[d] = "input" /\ rematch[d] =>
      Finished(board[d]) \/ you[d] = "Ready" \/ them[d] = "Ready"

\* At rest, with no note on its way either, and both players see a board.
Quiet ==
  /\ AtRest
  /\ \A d \in Device :
       /\ ~rematch[d] /\ phase[d] = PhaseOf(d)
       /\ ~outgoingSay[d].pending /\ ~incomingSay[d].pending

\* A match in progress is never parked with each player waiting for the other
\* (JaipurActivity.cpp:268-272, the deadlock its Pass replaces).
SomeoneMoves == Quiet => \E d \in Device : MayTap(d)
=============================================================================
