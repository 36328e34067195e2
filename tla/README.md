# This firmware, specified

TLA+ models of the firmware's concurrent, distributed and failure-prone parts, model-checked with
TLC and, where the properties matter most, proved with TLAPS:

* **PLAY NEARBY**, the two-player radio link and the eight games over it,
* the **card party**, up to eight phones around one host and its clocks,
* the **activity manager**, two tasks around one render lock,
* what **loss of power** may do to a firmware update and to a saved reading position.

Paths below are relative to the repository. `link/` is short for `src/src/apps_local/link/`,
`cardparty/` for `src/src/apps_local/cardparty/`.

## 1. Inventory

| Component | State it keeps | Operations | What is hard | What makes it correct |
|---|---|---|---|---|
| **Session** `link/LinkSession.*` | life, search, match, moves, notes | `begin`, `reset`, `leave`, `tick` (timers, `handlePacket`), `submit`, `takeIncoming`, `announce`, `takeAnnouncement` | packets lost, repeated, reordered; a match sealed by any of five packet types; a device that restarts | one host, one writer of the counter, no board skipped, retries stop only on arrival, matches form and moves settle |
| **Packet format** `link/LinkProtocol.*` | none | `encode`, `decode` | foreign packets | round trip |
| **Radio** `link/LinkRadio.*` | the receive ring, `started_`, what Developer Mode yielded | the ESP-NOW callback, `receive`, `send`, `begin`, `end` | callback on the WiFi task against the main loop, two indices, no lock | whole packets once and in order, none refused while there is room, none lost but at a close |
| **Play layer** `link/LinkPlay.*`, `link/LinkActivity.*` | `phase_`, `rematch_`, `you_`, `them_` | one `loop` pass: update, match start, notes, delivery, question, one tap | notes and states are two channels; each device decides alone when a rematch begins | a yes each for every game, one board once nothing is in flight, link and rules agree who moves, a pass is not passed back, nobody waits for ever |
| **Game hooks** chess, checkers, connectfour, knucklebones, yahtzee, jaipur, seasalt, toybattle | the board, the seat | `onMatchStart`, `takeOpponentState`, `onRematch`, `matchGameOver`, the gate on a tap | eight answers to "who deals, who leads, what does the follower show" | as above |
| **Card party rules** `cardparty/CardPartyCore.h` | seats with their flags and points, phase, Juror, round, pile | join, start, submit, connect, disconnect, release, close, judge, abort, next, reload, kick, end, rematch | players drop, return and are removed in any phase; a deal that runs out after half the state was changed | nobody removed is counted, the pile is the answers, the round never waits for nobody nor runs over somebody |
| **Card party match control** `cardparty/CardPartyTable.h` | clock, pause, block, votes, presence | `reset`, `apply`, `tick` (`sync`, `block`, `expire`), `pause`, `unpause`, `continueWithout`, `vote`, `seatGone` | three reasons to stand still that overlap; clocks armed in one phase and expiring in another | the clock fits the phase, the block is real, paused means still, votes belong to this match, an unattended match finishes |
| **Card party server and host** `cardparty/web/`, `CardPartyActivity.*` | browser sessions, sockets, frames | the requests of a phone, the buttons of the host | which operation ticks and which does not | as above |
| **Activity manager, render lock** `src/src/activities/` | activity stack, pending action, `requestedUpdate`, the waiter, the lock | `loop`, `pushActivity`, `popActivity`, `replaceActivity`, `goHome`, `requestUpdate`, `requestUpdateAndWait`, `renderTaskLoop` | two tasks, a lock that is not recursive, results delivered by callbacks that navigate again | nothing drawn is destroyed, results reach who awaits them, a wait shows the change, no request is lost, no pass hangs |
| **Boot switch, flasher** `src/src/network/OtaBootSwitch.cpp`, `FirmwareFlasher.cpp` | two app partitions, two otadata sectors | erase and write a block, choose sector and sequence, erase and write the entry | power or flash failing at each of them | a whole image always boots; a reported update is the one that boots |
| **Over-the-air updater** `src/src/network/OtaUpdater.cpp` | a download | `installUpdate` | an image found bad only at its end | as above |
| **Reader progress file** `src/src/activities/reader/ProgressFile.h` | `progress.bin` and its temporary | `writeAtomic` | remove and rename are two operations; flush and close fail unheard | never older than reported, torn only by a flush and a close that both failed |
| Link screens, Battleship match, developer mode, radio manager, reader, sync clients, single-player games, utilities, settings, web file transfer, user interface, SDK and vendored code | | | | not modelled, see section 8 |

How the parts interact. `LinkActivity::loop()` calls `PlayBase::update()`, which ticks the `Session`,
which drains the `Radio`'s ring; the game is called back through its hooks and sends through
`PlayBase::play()` and `Session::submit()`. The card party's `BrowserServer` calls `Game` and
`Table` from its loop and from each phone's request; the host's activity calls the same two.
Each of these runs inside an activity, on the main task, which shares the render lock with the render
task. A firmware update and a progress save each hold the main loop until they are done.

## 2. Modules

    PacketQueue  <-- refined by --  LinkRing                        <-- LinkRingProofs
    TurnGame     <-- refined by --  LinkTurnGame, LinkSession       <-- LinkBoardProofs
    LinkSession  <-- extended by -- LinkSessionInv <-- LinkSessionProofs
                                    LinkLiveness
                                    LinkRematch                         <-- LinkRematchProofs
    CardGame     <-- extended by -- CardTable                           <-- CardGameProofs, CardTableProofs
    ActivityManager                                                     <-- ActivityManagerProofs
    FirmwareUpdate, ProgressFile  <-- composed by -- PowerLoss          <-- PowerLossProofs

**LinkSession** models `LinkSession.cpp` whole. One variable per field of `Session`, indexed by
device; one action per public operation, per packet type handled in each state, and per timer of
`tick()`. The air `net` is a set of packets never consumed, so every packet may be delivered never,
once or many times, in any order. Intervals are abstracted: a timer may fire whenever the code's other
conditions hold, so every relative timing is covered, and `LosePeer` (ten seconds of silence) may
happen at any time. A heartbeat needs nothing pending, because a retry (400 ms) always comes before
the heartbeat (1 s) and postpones it. `board` is the game's own copy of the shared state, a history of moves, so
that *which* board a device shows can be told apart; it is written where the game writes it (on a new
match, a move, a take). `Reset` is also what a crash leaves. `StaleDelivery` says whether packets
to or from a device survive its next `begin()`: they do in the host tests' `Medium`, hardly on the radio.

**LinkSessionInv** holds the inductive invariant `IInv` and, on top of it, `MatchInv`: what each device
knows of the other by acknowledgements, boards, everything ever sent, and notes. **TurnGame** is
what the session promises a game: one history, made strictly in
turn by a side that has seen all of it and shown move by move. **LinkTurnGame** is the refinement
mapping: the history is the newest board ever sent. **LinkLiveness** restricts LinkSession to two
players who stay, adds an air that loses packets, and states fairness (section 4).

**LinkRing** models the receive ring at the grain of its shared accesses: check, two halves of a
slot, publish; look, two halves, advance; plus `begin()` and `end()`. It assumes what
`end()` relies on, that `esp_now_unregister_recv_cb` does not return while the callback runs.
**PacketQueue** is the bounded queue it implements: a packet is refused only when the queue is full,
and what waits is thrown away only by `Close`, which is `end()`.

**LinkRematch** composes `LinkActivity`, `LinkPlay` and the hooks of a game over LinkSession's own actions.
`pc` walks through one pass in the order of `LinkActivity::driveLink()`: tick, match start, notes,
delivery, finished-game question, one tap. A board is its deal and one entry for every state since: the seat to move, a scored
round, or a finished game. The rules are left free: a move gives the board to the other seat, scores the round or ends the game, and after a scored round
the holder of the link's turn deals the next, started by either seat (in Jaipur the loser's). So the link's turn and the rules'
come apart at a round boundary, as `JaipurLink.h:6-25` describes. Each device may come from a game of its own,
left running or finished (`Leftover`), which a follower that does not clear its board keeps until the deal arrives. PLAY AGAIN may be tapped any number of times.
`Title` picks the game, and the definitions from `TurnLeads` to `Opener` are the table of how its hooks differ:

| Title | who leads a rematch | deal | follower | tap gated by |
|---|---|---|---|---|
| Chess | holder of the turn | fixed opening, both | same opening | link |
| Checkers, ConnectFour | winner of the toss | fixed opening, both | same opening | link |
| Knucklebones | winner of the toss | with the first move | cleared | link |
| Yahtzee | winner of the toss | with the first move | keeps its board | link |
| Jaipur, SeaSalt | holder of the turn | sent at once | keeps its board | link and board; passes when the board says so; rounds |
| ToyBattle | winner of the toss | sent at once, names the other seat | cleared | link and board |

A passed turn resends the same board. Leaving, the searching screen and a lost peer are
LinkSession's and are left out. The match starts confirmed, with either device as host.

**CardGame** is the rules core. All of `cardparty::Game` is one record `game`, and each public
operation an operator from record to record (`Join`, `Submit`, `Kick`, ...) with its early returns as
a guard (`CanJoin`, `CanSubmit`, ...), because its callers do several in one step. The flags of a
`Player` are sets of seats. A play in the pile is known by the seat it came from, and `anon` holds those
whose author was removed after they were shown. Cards are reduced to the one thing that changes
the course of a match, whether a deal runs out and after how many seats (`reached`). On its own the module
lets any operation happen at any time (`Next`).

**CardTable** adds `cardparty::Table` and what the server and the host do: one action per request of a
phone (`PhoneJoin` to `PhoneAgain`), per button and menu entry of the host (`HostStart` to
`HostReopen`), and the server's `Loop`. `ThenTick` is an operation of the game followed by
`Table::tick()`, which is one step as it is in the code: arm the clock of a phase just entered, look for
a needed player gone too long, act on a clock that has run out. Actions that do not tick in the code use
`NoTick`. A deadline is a choice (`due`): it may have passed at any look after the one that armed it.
Likewise `late` may grow by any seat seen offline before.

**ActivityManager** models the render task step by step (`Wakes`, `StartsDrawing`, `EndsDrawing`,
`TellsWaiter`, `Unlocks`), the main task's drain (`Pops`, `PopsLast`, `LaunchesHome`, `Launches`,
`Flushes`) and the code of an activity as any sequence of calls it may make of the manager, each its own step.
What a swap does under the lock is one step, as nothing that another task reads without the lock changes
in it. `shown` and `owed` are not in the code: they say what the panel shows of the last changes and
whether an asked-for update is still to be drawn. An activity may change what it draws under the lock or without it: without, the change
may fall into a round being drawn, which then shows the old state (`raced`).

**FirmwareUpdate** models `flashFromSdPath()`, the streaming `OtaUpdater` and `ota_boot::switchTo()`:
one action per flash operation, a failure for each, power loss at each, and the bootloader's choice of
an entry, which the code mirrors. **ProgressFile** models `writeAtomic()` in the same way, with a write that may be short, only fills
the cache of the FAT library, and a flush and a close that may fail unheard; `unsynced` (not in the code) remembers the saves for which both did. **PowerLoss**
composes the two over one battery.

## 3. Runs

| Run | Module, configuration | Shows | Distinct states |
|---|---|---|---|
| `moves` | MCLinkSession, `_moves` | `TypeOK`, `IInv`, `MatchInv` (so `BoardsAgree`, `NoteReachesPeer`), `MoveReachesPeer`, `HostAgreement`, `TurnExclusion`, `NoBoardSkipped`, and `SharesOneGame`, the refinement of TurnGame | 258 997 |
| `link_liveness` | MCLinkLiveness | `MatchForms`, `MoveSettles`, the Hellos heard in one direction only | 8 197 |
| `ring` | MCLinkRing | `TypeOK`, `CopyIsCurrent`, and `ImplementsQueue`, the refinement of PacketQueue | 436 825 |
| `rematch` | MCLinkRematch | Jaipur: `YesPerGame`, `NoteReachesPeer`, `SameBoardAtRest`, `LinkFollowsBoard`, `PassesOnce` (of a match's first game), `SomeoneMoves` | 702 460 |
| `card_game` | MCCardGame | any order of the operations: `GameTypeOK`, `NobodyLeftBehind`, `PileIsTheAnswers`, `NotWaitingForNobody`, `NobodySkipped` | 990 606 |
| `card_table` | MCCardTable | host, phones, clocks: `TableTypeOK`, `BlockIsReal`, `ClockFitsPhase`, `VotesAreCurrent`, `PausedMeansStill`, `AutoModeFinishes` | 187 934 |
| `activity` | MCActivityManager | `ActivityTypeOK`, `DrawnIsAlive`, `ResultIsAwaited`, `PendingIsWhole`, `WaitShowsChange`, `PassEnds`, `RequestIsDrawn`, and no deadlock | 220 435 |
| `power_loss` | MCPowerLoss | `BootsWholeImage`, `UpdateTakesEffect`, `ProgressIsWhole`, and no deadlock | 972 576 |
| `restart` | MCLinkSession, `_restart` | **violates** `HostAgreement` | |
| `knucklebones_rematch` | MCLinkRematch, `_knucklebones` | **violates** `SomeoneMoves` | |
| `rematch_latched` | MCLinkRematch, `_latched` | **violates** `QuestionHasCause` | |
| `rematch_seats` | MCLinkRematch, `_seats` | **violates** `SeatsDiffer` | |

Bounds, and why they are enough.

* Link. `MaxTrips`: searches per device, 1 in the passing runs, 2 in `restart`. `MaxMoves`: three moves
  let a device move, be answered and move again while all copies of the first move are still on the air;
  five in Jaipur cover a deal, a scored round, the deal of the next, a passed turn and an answer to it, or a short game and its rematch. `MaxSays`: two notes a side let a
  late acknowledgement or a late copy of the first meet the second; in `rematch`, `SaysBound` lets one device ask twice and the other
  once, so that a rematch is agreed on with a question repeated, and device 1 wins the toss, as swapping the two devices maps the
  other behaviours to these. In `moves`, `FewNotes` lets one
  device say one note, up to the second move: there the notes are only to disturb the moves. Two tosses make
  them differ or tie, two kinds of moves tell boards of the same length apart.
* Ring. Four slots hold three packets, so the indices wrap and the full test bites; two senders and two
  contents show a packet mixed of two.
* Card party. `card_game`: four seats, the fewest with which a kick leaves a table that can go on and one
  that cannot; `MaxRound` = 2, so that a Juror, a pile and names are left over from one round into the next.
  `card_table`: three seats, three rounds (`FairRounds` makes one requested round three, a cycle).
  `Flaky` and `Vocal`, the seats whose phone drops and whose phone pauses and votes, are one
  seat: each of the others is still Juror, answers and is removed around it. `MCSettings` are all
  clocks without Rando, or Rando without clocks; a host may switch between the two at any time.
* Activities. Three activities alive at once are a stack of two with one pending; `MaxHops`, the
  navigations made by activities just entered or resumed within a pass, is 1: without a bound a pass need not end.
* Power. Three blocks are a first, a middle and a last one. `MaxSeq` 12 lets each sector be rewritten
  many times; it is no bound the code knows. Three saves let an attempt fail between two that succeed.

`CHECK_DEADLOCK FALSE` stands in the link and card configurations, where players may stop and bounds end
a behaviour; the other two check deadlock.

Nothing restricts the environment further: states and notes overtake each other, questions are repeated, and activities change what they draw
without the lock.

## 4. Fairness

*Link.* `tick()` runs on every pass of the main loop, so its timers are weakly fair (`SendHello`, `Heartbeat`,
`RetryState`). `SendJoin` is strongly fair: a candidate is forgotten after 3 s and courted every
200 ms, so a candidate that keeps coming and going is courted again and again. The air is fair-lossy: a
kind of packet that is on the air again and again is heard in the end (strong fairness of the `Hear`
actions, per sequence number for states and acknowledgements), although any one copy may be lost
(`Lose`). Hellos are the exception (`HellosOneWay`): they need to be heard by one of the two devices only, as the
code counts on (`LinkSession.cpp:156-159`); the other matches on the Joins it is sent, whose delivery is assumed both ways. Nothing is assumed of players, who are never obliged to move. The silence
timeout is left out of `Staying`: with it, an unlucky match dies, as it should.

*Card party.* `ClockRunsOut` is weakly fair: the server's loop runs all the time, and a clock that is
running runs out. Nothing is assumed of the host or the phones; `AutoModeFinishes` is about a match left to
its clocks with everyone online.

*Activities.* Both tasks run (weak fairness of their steps), `render()` returns, and an activity gives the
lock back and returns. Taking the lock is strongly fair, because `main.cpp` ends every pass with a `delay()`
or `yield()` in which the main task does not hold it. A player is not for ever making gestures: `RunsActivity` is
part of the weakly fair `MainRuns`.

The other specifications state none: the power need not fail, nor a save be made.

## 5. What is proved

Each from the named assumptions on the constants alone, hence for any number of devices, slots,
seats, activities, blocks and for any value of the bounds.

* **Session** (`LinkSessionProofs`, `LinkBoardProofs`, from `LinkAssumption`): `TypeCorrect`; and, when every device
  searches once (`MaxTrips = 1`), `InvAlways`, `HostsAgree`, `TurnsExclusive`, `MovesReach`, `NotesReach`,
  `BoardsStayTogether` (all of `MatchInv`, hence `BoardsAgree`) and the action property `NoneSkipped`, for any number of devices;
  and `SharesGame`, the refinement of TurnGame, for two. The restriction to one trip is
  necessary: `restart` shows what goes wrong without it. So is that to two devices: among three there
  may be two matches, and then there are two histories.
* **Rematches** (`LinkRematchProofs`, from `LinkAssumption` and `RematchAssumption`), for any number of games, moves and notes,
  whatever boards the two bring, with the two channels overtaking each other and questions repeated at will: for every title `GamesAgreed`,
  `MatchNotesReach`, and `MatchTurnsExclusive` and `MatchMovesReach`, what the session promises carried over to a match of several games;
  for the two titles that pass (Jaipur, Sea Salt & Paper) `BoardLeads`, `OneBoardAtRest` and `NoPassBack`; for the six whose follower
  does not clear its board `SomeoneCanMove`.
* **Ring** (`LinkRingProofs`, from `RingAssumption`): `RingTypeCorrect`, `CopyStaysCurrent`, and
  `RingImplementsQueue`, the refinement itself, for a ring of any depth.
* **Card party rules** (`CardGameProofs`, from `CardAssumption`, three seats or more): `NobodyStays`, `PileKept`,
  `NeverIdle`, `GameTyped`, and `NobodyIsSkipped`, an action property.
* **Card party match control** (`CardTableProofs`, from the same and `TableAssumption`): `TableTyped`, `ClockFits`,
  `BlocksAreReal`, `VotesStayCurrent`, and the action property `PauseHolds`.
* **Activities** (`ActivityManagerProofs`, from `ActivityAssumption`): `DrawnStaysAlive`,
  `PendingStaysWhole`, `ResultsArrive`, `TypesKept`, and `WaitShows`, an action property.
* **Power** (`PowerLossProofs`, from `FirmwareAssumption` and `ProgressAssumption`): `WholeImageBoots`, `UpdatesBoot`,
  `ProgressSurvives`.

The arguments.

*Session.* `HostAgreement` follows from `HostLaw`, that `isHost` is `MovesFirst` of the two
tosses, and from `HostUnique`, that `MovesFirst` picks exactly one of two different devices.
`HostLaw` is inductive because every packet carries its sender's one toss (`OneToss`), and a sender
has one toss because it has one trip (`OneTrip`). `TurnExclusion` is not inductive: one must know that
a newer state can only come from a device that is exactly one move ahead and has therefore given up the
turn. `Lead` says so, for a peer in the match and for a peer still *entering* it, since the host may play
before the other device has even matched. `FromMatched` bounds what is on the air by its sender's
counter, and `OwnMoves` what may be retransmitted and who may play first. `IInv` is the conjunction;
it is checked by TLC in `moves` and proved inductive with one lemma per group of actions.
`MoveReachesPeer` follows from `AckLaw`: a move no longer retried has been adopted by the peer, or is no
move at all if the peer is still entering the match. `NoteInv` is the same law for notes, whose two counters are written by
one side each.

*Boards.* `BoardsAgree` is inductive only together with what is still on its way: `BoardOnAir` and `BoardKept` say that whatever a device
has sent or may send again is a prefix of its latest board, so adopting a copy, however late, cannot
bring in another game. `NoBoardSkipped` needs to know of the states on the air even after their sender is gone, which `IInv` does not
say: `StateAhead`, that no state is more than one move ahead of the device it was sent to and none is ahead once that device has the
turn, and `Waiting`, that the turn is kept until the board is taken. For the refinement, `OneHistory` (all states ever sent between two
devices are prefixes of one another) makes the newest board on the air a function of the net, `Frontier` (LinkBoardProofs) says that
there is one, and `Answers` that who has the turn has taken it over from that very board and has nothing newer of its own out.
With them `Submit` is `Play`, `TakeIncoming` is `See`, and every other step stutters.

*Rematches.* Who said yes is counted, not remembered: `Counted` says that a device has said at least one note for each rematch it has
started and for the yes it waits on, and has heard at least one for each rematch started, for the yes it shows and for the note not yet taken.
With `NoteReachesPeer`, what one device has heard the other has said, so every game has a yes of its own from each player (`YesPerGame`).
`TurnLaw` is the two-device core of `Lead`: level devices have one turn between them, and one that is ahead is so by one move, still retried, with
nobody's turn. `PassInv` ties the game to the link: a device that holds the turn and has no board to take has a dealt board and, once it has had
the chance to pass, its own seat to move, whichever seat the rules let start the round; and no finished game reaches a tap without its question. `LinkFollowsBoard` and
`SomeoneMoves` follow; the latter counts only a move or a deal, never a pass. The two titles left out of `SomeoneCanMove` do park:
`knucklebones_rematch` shows one of them, and Toy Battle's refused opening is in section 6.
`BoardFlow` is about the boards on their way: the newest state in flight is its sender's board, and who has the turn has, taken or not, the board
the other device sent last. At rest that is one board (`OneBoardAtRest`), whatever was dealt, kept or started over before.
For `NoPassBack`, `FirstInv` says that in the first game the seats are those of the toss and so differ, and `BackInv` that a state
sent back as it came is one its sender had nothing to do with: two devices in different seats cannot both have nothing to do on a board in play.
In a rematch the seats may not differ (`rematch_seats`), and then the two do pass back and forth; nothing is claimed there.

*Ring.* `RingInv` says what each thread has done half of: the callback in the middle of a slot owns the
free one at `tail`, which the one the main loop copies at `head` is not. The three remainders of the code are first
shown to be what they are without one (`NextSlotIs`, `LengthIs`, `PlaceIs`); `Longer`, `Shorter` and `FreeSlot` then say
what `Publish` and `Advance` do to the waiting packets, and that no write touches them.

*Card party.* `CardInv` is inductive: `Sound` (types, no ghosts, the pile) and `Waiting`. The last is about
cardinalities: in `Playing` the plays of the pile are a subset of the seats that count, so "as many as" is
"all of them", and every operation that could make them as many ends in `MaybeJudge`.

*Match control.* `Ticking` says what `tick()` makes of any game and table it may be handed (`Ready`): everything is settled, and a
paused game is as it was. One lemma per handler shows that it hands over such a pair. What makes `ClockFits` inductive is `Seen`: the
handlers that do not tick leave the phase as the last tick saw it, but for a next round whose dealing failed; and no
operation goes back to an answered round (`Onward`). That a phone which drops starts no judging (`Dropped`) is a count: its turn
stays open, so the round waits for the same players as before. `PauseHolds` needs the same count for a phone that returns
(`BackWaits`), and that a lobby has no answers and no points (`FreshLobby`), because a pause may outlive a match.

*Activities.* `ManagerInv` says who holds the lock while the render task is in a round, and that there is an
activity on screen except between the pop of the last one and Home. With `Showing` and `Waiters`: no change made under the lock falls between
the start of a round and the moment its waiter is told, so a round that tells a waiter has shown what came before
it registered, or is itself the one that a change without the lock fell into. `Apart` and `Awaits` give `ResultsArrive`: no activity lives in two places, one that is not alive waits for
nothing, and what was waited for is forgotten at a pop before another activity can take its place.

*Power.* `FirmwareInv`: the running app is whole and is what the entries choose until an update is done;
only the other partition is written, and it is whole before an entry is touched; the sector rewritten is never
the one that counts. Parity of the sequence is in `NextChooses`. `Installing` is the refinement of FirmwareUpdate
by the composition. `ProgressIsWhole` is inductive with the types and with what the temporary file
holds before the flush, the close and the remove.

Every invariant and action property of the passing runs is stated by a theorem. Out of the prover's reach, and so left to TLC: the liveness
properties (`MatchForms`, `MoveSettles`, `AutoModeFinishes`, `PassEnds`, `RequestIsDrawn`) and whatever needs
induction over data.

## 6. Where code and comments disagree

Four runs are expected to fail, each against a sentence in the repository.

* **`restart`**, `link/LinkSession.cpp:193`. A device that leaves and searches again before its peer has noticed may
  be matched by the peer's retry or heartbeat from the old match. The peer's role was elected from the
  *old* toss, this device's from the new one: both lead or both follow. Lines 298-299 say both sides
  "reach the same answer". The new trip's own Hello ends the old match when it is heard first.
* **`knucklebones_rematch`**, `KnucklebonesActivity.cpp:170`. The toss winner deals, the deal travels
  with the first move, and the turn may be with the other device, whose board is empty: nobody can
  move.
* **`rematch_latched`**, `JaipurActivity.cpp:248`. The device that does not deal keeps whatever board it had until the deal
  arrives: in the run a game against the machine, finished before the match began, after a rematch the game just played. `matchGameOver()` is then
  true when `driveLink()` looks (`link/LinkActivity.cpp:110`); the question is raised, and stays up over the game just dealt, with no answer given
  on either side. `LinkActivity.h:144-145` says the screen is "Reached by a finished game, or by either player asking for a new one".
  `ToyBattleActivity.cpp:568-569` names the effect and clears its board against it; Yahtzee keeps its card and does as Jaipur does.
* **`rematch_seats`**, `JaipurActivity.cpp:281`. `onRematch()` takes the seat from the turn this device holds when *it* learns that both said
  yes. If they say yes before the deal has reached the follower (over the board it kept, above), the dealer has already given the turn away and becomes seat 1;
  the follower, when its turn comes to start over, has not taken the deal yet and becomes seat 1 too. Nobody deals, and once the old deal is taken each passes to the
  other for ever. Lines 278-280 say "exactly one device deals, and it is whichever one holds the turn the finished match left behind".

The same models show more with other constants or by reading them beside the comments:

* LinkRematch with `Title = "Checkers"` or `"ConnectFour"` (`LinkFollowsBoard`): a rematch seats the devices by the
  toss but the turn carries on from the finished game; `CheckersActivity.cpp:154-155` says "whoever goes
  first IS light". `"Chess"` (`LinkFollowsBoard`, `SeatsDiffer`): NEW GAME agreed while a move is in flight; each side reads the
  turn at another moment. `"ToyBattle"` (`SameBoardAtRest`, `SomeoneMoves`, four moves and one note): a rematch dealt off turn is refused by `play()`, whose
  result is only logged, `ToyBattleActivity.cpp:565`; the two then look at different boards and neither may move.
* LinkRematch with `"Jaipur"`, five moves and two notes a side (`BothSaidYes`): a second tap on PLAY AGAIN (`link/LinkScreens.cpp:95-99` offers it while
  waiting) is a note of its own, and when both questions have been answered it is heard as a yes to the game after. So a device may be started on
  a game the other player has not agreed to; that every game has a yes of its own (`YesPerGame`) is all the code ensures.
* ActivityManager (`WaitReflectsState`), `ActivityManager.cpp:348`: `requestUpdateAndWait()` is woken by
  the end of whichever round comes first. If the caller changed its state without the lock while a round was being drawn, that
  round ends the wait and may show the old state, though another follows; `docs/activity-manager.md:215` says the call is for when "you
  need the screen to reflect new state before proceeding". `StudyActivity.cpp:1752-1753` is such a caller.
  `WaitShowsChange`, which is checked and proved, says what holds: only such a change may be missing.
* ProgressFile (`NeverTorn`): `ProgressFile.h:15-16` says the temporary file is renamed "only once that is fully written and closed". But
  `flush()` returns nothing and the close is made by a destructor (`HalStorage.cpp:71-74, 175-178`), so when both fail, which leaves the last
  bytes in the cache, the remove and the rename go on and a torn `progress.bin` is put in place. `ProgressIsWhole` names that case and excludes every other.
* LinkSession: a Hello delivered after the match it preceded was confirmed ends that match, although
  lines 276-278 call it proof that the peer left. Among three devices, A may be in a match with B while B is in
  one with C until the silence timeout, although `LinkProtocol.h:63-64` says a match exists "once both sides
  have sent one to each other". `LinkSession.h:28` still says the host is elected by the lower address.
* CardTable: `CardPartyTable.h:32` says a new match clears the pause, but `pausedBy_` outlives the end of a match
  and its rematch: `reset()` is called only where the table is opened (`CardPartyBrowserServer.cpp:122`). A round timer that
  expires with fewer than three online leaves automatic mode waiting for the host, as `CardPartyTable.h:200` says.
* CardGame: removing the Juror of a three-seat table in `Playing` ends the match with the private pile still in it, although
  `CardPartyCore.h:491` says a round cut short shows nothing of it. `CardPartySessions.h:116-117` says the
  revision pins a slot to the hand the browser saw; `nextRound()` changes hands without changing the revision.
* FirmwareUpdate: `FirmwareFlasher.h:14-18` says the over-the-air path downloads to the card and calls
  `flashFromSdPath`; `OtaUpdater` streams into the partition and sets the boot partition through ESP-IDF.

## 7. Hazards without a property

PROJECT.json lists every hazard at its line. Those no run covers: the 16-bit counters of the session
(65 535 moves in one match); a late Hello (above); `end()` of the ring under a running callback (assumed away); what an activity draws before its `onEnter()` (`ActivityManager.cpp:166`; the model lets it
happen, what comes of it depends on each activity); a home gesture inside `goToSleep()` (`:249-252`); a
swap or submit against the next round's hand (above).

## 8. Not modelled, and why

* Of modelled parts: the byte layout of packets; ESP-NOW bring-up and the hand-over with Developer Mode; cards, hands, swaps
  and prompts; `addTime`, which only moves an abstract deadline; tickets, sockets and frames of the browsers; the hall of
  fame; `goToSleep()`; the validation of a firmware image (a guard) and the HTTP of a release lookup. A rename on the
  card is taken to be atomic. A temporary file left behind whole is never read back by the code, so nothing is said of it.
* Link screens, user interface, fonts, rendering: layout, no protocol state.
* Battleship over the link: two hidden boards merged from two alternating states, a model of its own over LinkRematch.
* Developer mode, radio manager, sync clients, settings, web file transfer, utilities: sequences of ESP-IDF, HTTP or
  file calls; their order is not disturbed by anything a state model would explore.
* Reader, single-player games: sequential data processing and rules driven by taps, with host tests.
* FreeInk SDK, vendored libraries, generated tables and fonts: not this program's logic. They are most of the repository's lines.

## 9. Next

1. Rematches whose seats collide (`rematch_seats`): what a repaired `onRematch()` would have to promise, as an abstract specification.
2. Hands and swaps of the card party with the browsers' revisions.
3. Battleship over LinkRematch; Developer Mode's pairing window composed with LinkRadio's `begin` and `end`.
