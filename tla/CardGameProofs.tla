--------------------------- MODULE CardGameProofs ---------------------------
(***************************************************************************)
(* The rules core of the card party, for a table of any size: its types,   *)
(* nobody removed leaves anything behind, the private pile is exactly the  *)
(* answers handed in, no round waits for nobody, and judging never starts  *)
(* over the head of somebody the round waits for.                          *)
(*                                                                         *)
(* Every operation is first shown to keep a game sound, whatever game it   *)
(* is given; the steps of the specification follow.                        *)
(***************************************************************************)
EXTENDS CardGame, FiniteSetTheorems, WellFoundedInduction, TLAPS

Clean(g) == g \in GameType /\ NoGhosts(g)
Private(g) ==
  /\ PileMatches(g)
  /\ g.phase = "Lobby" => g.pile = {}
  /\ g.phase \in {"Lobby", "Playing"} => g.winner = kNone
Sound(g) == Clean(g) /\ Private(g)
CardInv == Sound(game) /\ Waiting(game)
-----------------------------------------------------------------------------
(* Arithmetic and finite sets.                                             *)

LEMMA MinNat ==
  ASSUME NEW S \in SUBSET Nat, S # {}
  PROVE  Min(S) \in S /\ \A y \in S : Min(S) <= y
<1> DEFINE R == {ss \in Nat \X Nat : ss[1] < ss[2]}
<1>1. IsWellFoundedOn(R, Nat)
  BY NatLessThanWellFounded, Zenon DEF OpToRel
<1>2. \A x, y \in Nat : <<y, x>> \notin R => x <= y
  OBVIOUS
<1> HIDE DEF R
<1>3. PICK x \in S : \A y \in S : ~(<<y, x>> \in R)
  BY <1>1, WFMin
<1>4. \A y \in S : x <= y
  BY <1>2, <1>3
<1> QED
  BY <1>4 DEF Min

LEMMA Seats ==
  /\ IsFiniteSet(Seat) /\ IsFiniteSet(Player) /\ Cardinality(Seat) = kPlayers
  /\ Seat \subseteq Nat /\ kNone \notin Player /\ kRando \notin Seat
<1>1. IsFiniteSet(Seat) /\ Cardinality(Seat) = kPlayers
  BY CardAssumption, FS_Interval DEF Seat
<1>2. IsFiniteSet(Player)
  BY <1>1, FS_AddElement DEF Player
<1> QED
  BY <1>1, <1>2, CardAssumption DEF Seat, Player, kNone, kRando

LEMMA Counts ==
  ASSUME NEW g \in GameType
  PROVE  /\ IsFiniteSet(g.pile \ {kRando}) /\ HumanPlays(g) \in Nat
         /\ IsFiniteSet(Answering(g)) /\ Cardinality(Answering(g)) \in Nat
         /\ Cardinality(g.connected) \in 0..kPlayers
<1>1. /\ g.pile \ {kRando} \in SUBSET Player /\ Answering(g) \in SUBSET Seat
      /\ g.connected \in SUBSET Seat
  BY DEF GameType, Answering
<1>2. /\ IsFiniteSet(g.pile \ {kRando}) /\ IsFiniteSet(Answering(g))
      /\ IsFiniteSet(g.connected) /\ Cardinality(g.connected) <= kPlayers
  BY <1>1, Seats, FS_Subset
<1> QED
  BY <1>2, FS_CardinalityType, CardAssumption DEF HumanPlays

LEMMA JurorType ==
  ASSUME NEW g \in GameType, NEW prev \in Seat \cup {kNone}
  PROVE  NextJuror(g, prev) \in Seat \cup {kNone}
<1> DEFINE from == IF prev = kNone THEN kPlayers - 1 ELSE prev
           online == {d \in 1..kPlayers : (from + d) % kPlayers \in g.connected}
<1>1. online = {} => NextJuror(g, prev) = kNone
  BY DEF NextJuror
<1>2. CASE online # {}
  <2>1. Min(online) \in online
    <3>1. online \in SUBSET Nat
      OBVIOUS
    <3> HIDE DEF online
    <3> QED
      BY <1>2, <3>1, MinNat
  <2>2. (from + Min(online)) % kPlayers \in g.connected
    BY <2>1
  <2>3. NextJuror(g, prev) = (from + Min(online)) % kPlayers
    BY <1>2 DEF NextJuror
  <2> QED
    BY <2>2, <2>3 DEF GameType
<1> QED
  BY <1>1, <1>2

LEMMA RoundsType ==
  ASSUME NEW n \in Nat, NEW p \in 0..kPlayers
  PROVE  FairRounds(n, p) \in Nat
<1>1. CASE n = 0 \/ p = 0
  BY <1>1 DEF FairRounds
<1>2. CASE n # 0 /\ p # 0
  <2> DEFINE cycles == (n + p \div 2) \div p
             rounds == p * (IF cycles = 0 THEN 1 ELSE cycles)
  <2>1. p \in Nat /\ p > 0 /\ p <= 250 /\ p \div 2 \in Nat
    BY <1>2, CardAssumption
  <2>2. cycles \in Nat
    BY <2>1
  <2>3. rounds \in Nat
    BY <2>1, <2>2
  <2>4. 255 % p \in 0..249
    BY <2>1
  <2>5. FairRounds(n, p) = IF rounds > 255 THEN 255 - (255 % p) ELSE rounds
    BY <1>2 DEF FairRounds
  <2> HIDE DEF rounds
  <2> QED
    BY <2>3, <2>4, <2>5
<1> QED
  BY <1>1, <1>2
-----------------------------------------------------------------------------
(* The operations.                                                         *)

\* Judging starts exactly when nobody is waited for any more.
LEMMA Judging ==
  ASSUME NEW g, Sound(g)
  PROVE  /\ Sound(MaybeJudge(g)) /\ Waiting(MaybeJudge(g))
         /\ MaybeJudge(g) = g \/ (/\ g.phase = "Playing"
                                  /\ HumanPlays(g) >= Cardinality(Answering(g))
                                  /\ MaybeJudge(g) = [g EXCEPT !.phase = "Judging"])
<1> USE DEF Sound, Clean
<1> DEFINE done == HumanPlays(g) > 0 /\ HumanPlays(g) >= Cardinality(Answering(g))
<1>1. CASE g.phase = "Playing" /\ done
  <2>1. MaybeJudge(g) = [g EXCEPT !.phase = "Judging"]
    BY <1>1 DEF MaybeJudge
  <2> DEFINE h == [g EXCEPT !.phase = "Judging"]
  <2>2. h \in GameType
    BY DEF GameType, Phase
  <2>3. NoGhosts(h)
    BY DEF NoGhosts, GameType, Author
  <2>4. h.phase = "Judging"
    BY DEF GameType
  <2> QED
    BY <1>1, <2>1, <2>2, <2>3, <2>4 DEF Private, PileMatches, Waiting
<1>2. CASE ~(g.phase = "Playing" /\ done)
  <2>1. MaybeJudge(g) = g
    BY <1>2 DEF MaybeJudge
  <2>2. Waiting(g)
    <3>1. HumanPlays(g) \in Nat /\ Cardinality(Answering(g)) \in Nat
      BY Counts
    <3> QED
      BY <1>2, <3>1 DEF Waiting
  <2> QED
    BY <2>1, <2>2
<1> QED
  BY <1>1, <1>2

\* What the types of the parts say of the whole.
LEMMA Typed ==
  ASSUME NEW g \in GameType
  PROVE  /\ g.round + 1 \in Nat /\ g.points \in [Seat -> Nat]
         /\ \A w \in Player \cup {kNone} : Awarded(g.points, w) \in [Seat -> Nat]
         /\ \A s \in Seat : Emptied(g.points, s) \in [Seat -> Nat]
         /\ \A c \in Seat \cup {kNone}, n \in Nat : [g EXCEPT !.czar = c, !.round = n] \in GameType
         /\ \A S, T \in SUBSET Seat, f \in [Seat -> Nat] :
               [g EXCEPT !.seated = S, !.connected = T, !.points = f] \in GameType
<1>1. g.round + 1 \in Nat /\ g.points \in [Seat -> Nat]
  BY DEF GameType
<1>2. \A w \in Player \cup {kNone} : Awarded(g.points, w) \in [Seat -> Nat]
  BY <1>1 DEF Awarded
<1>3. \A s \in Seat : Emptied(g.points, s) \in [Seat -> Nat]
  BY <1>1 DEF Emptied
<1>4. \A c \in Seat \cup {kNone}, n \in Nat : [g EXCEPT !.czar = c, !.round = n] \in GameType
  BY DEF GameType
<1>5. \A S, T \in SUBSET Seat, f \in [Seat -> Nat] :
        [g EXCEPT !.seated = S, !.connected = T, !.points = f] \in GameType
  BY DEF GameType
<1> QED
  BY <1>1, <1>2, <1>3, <1>4, <1>5

LEMMA Configuring ==
  ASSUME NEW n \in Rounds, NEW rando \in BOOLEAN
  PROVE  Sound(NewGame(n, rando)) /\ NewGame(n, rando).phase = "Lobby"
BY CardAssumption, Seats
   DEF Sound, Clean, NewGame, GameType, Phase, NoGhosts, Private, PileMatches

LEMMA Joining ==
  ASSUME NEW g, Sound(g), CanJoin(g)
  PROVE  Sound(Join(g)) /\ Join(g).phase = "Lobby"
<1> DEFINE s == FreeSeat(g)
<1>1. s \in Seat \ g.seated
  BY Seats, MinNat DEF Sound, Clean, GameType, CanJoin, FreeSeat
<1> HIDE DEF s
<1>2. Join(g) = [g EXCEPT !.seated = @ \cup {s}, !.connected = @ \cup {s}, !.points = Emptied(@, s)]
  BY DEF Join, s
<1>3. Join(g) \in GameType
  <2>1. Emptied(g.points, s) \in [Seat -> Nat]
    BY <1>1, Typed DEF Sound, Clean
  <2>2. g.seated \cup {s} \in SUBSET Seat /\ g.connected \cup {s} \in SUBSET Seat
    BY <1>1 DEF Sound, Clean, GameType
  <2> DEFINE S == g.seated \cup {s}
             T == g.connected \cup {s}
             f == Emptied(g.points, s)
  <2>3. Join(g) = [g EXCEPT !.seated = S, !.connected = T, !.points = f]
    BY <1>2
  <2>4. S \in SUBSET Seat /\ T \in SUBSET Seat /\ f \in [Seat -> Nat]
    BY <2>1, <2>2
  <2> HIDE DEF S, T, f
  <2>5. [g EXCEPT !.seated = S, !.connected = T, !.points = f] \in GameType
    BY <2>4, Typed DEF Sound, Clean
  <2> QED
    BY <2>3, <2>5
<1>4. /\ Join(g).seated = g.seated \cup {s} /\ Join(g).connected = g.connected \cup {s}
      /\ Join(g).submitted = g.submitted /\ Join(g).held = g.held /\ Join(g).pile = g.pile
      /\ Join(g).anon = g.anon /\ Join(g).winner = g.winner /\ Join(g).phase = g.phase
  BY <1>2 DEF Sound, Clean, GameType
<1>5. NoGhosts(Join(g))
  BY <1>1, <1>4 DEF Sound, Clean, NoGhosts, Author
<1> QED
  BY <1>3, <1>4, <1>5 DEF Sound, Clean, Private, PileMatches, CanJoin

LEMMA Beginning ==
  ASSUME NEW g, Clean(g), NEW reached \in Int
  PROVE  Sound(BeginRound(g, reached)) /\ Waiting(BeginRound(g, reached))
<1> DEFINE h == BeginRound(g, reached)
<1>1. h \in GameType
  BY DEF Clean, GameType, BeginRound, Phase, Player
<1>2. /\ h.seated = g.seated /\ h.connected = g.connected /\ h.submitted = {}
      /\ h.held \subseteq g.held /\ h.anon = {} /\ h.winner = kNone /\ h.phase = "Playing"
      /\ h.pile \subseteq {kRando}
  BY DEF Clean, GameType, BeginRound
<1>3. NoGhosts(h) /\ Private(h)
  BY <1>2 DEF Clean, NoGhosts, Private, PileMatches
<1>4. h.pile \ {kRando} = {}
  BY <1>2
<1>5. HumanPlays(h) = 0
  BY <1>4, FS_EmptySet DEF HumanPlays
<1> QED
  BY <1>1, <1>3, <1>5 DEF Sound, Clean, Waiting

\* Who sits where and whose the plays are decides whether a game is clean.
LEMMA SamePeople ==
  ASSUME NEW g, Clean(g), NEW h \in GameType,
         h.seated = g.seated, h.connected = g.connected, h.submitted = g.submitted,
         h.held = g.held, h.pile = g.pile, h.anon = g.anon, h.winner = g.winner
  PROVE  Clean(h)
BY DEF Clean, NoGhosts, Author

LEMMA Starting ==
  ASSUME NEW g, Clean(g)
  PROVE  Sound(Start(g)) /\ Waiting(Start(g))
<1> DEFINE h == [g EXCEPT !.rounds = FairRounds(g.requested, Cardinality(g.connected)),
                          !.czar = NextJuror(g, kNone), !.round = 1]
<1>1. /\ FairRounds(g.requested, Cardinality(g.connected)) \in Nat
      /\ NextJuror(g, kNone) \in Seat \cup {kNone}
  BY RoundsType, JurorType, Counts DEF Clean, GameType
<1>2. Clean(h)
  BY <1>1 DEF Clean, GameType, NoGhosts, Author
<1>3. Whole \in Int
  BY CardAssumption DEF Whole
<1> QED
  BY <1>2, <1>3, Beginning DEF Start

LEMMA GoingOn ==
  ASSUME NEW g, Clean(g), g.phase = "Reveal", NEW reached \in Int
  PROVE  Sound(NextRound(g, reached)) /\ Waiting(NextRound(g, reached))
<1> DEFINE h == [g EXCEPT !.czar = NextJuror(g, g.czar), !.round = @ + 1]
<1>1. CASE LastRound(g)
  BY <1>1 DEF NextRound, Clean, Sound, GameType, Phase, NoGhosts, Author, Private, PileMatches, Waiting
<1>2. CASE ~LastRound(g) /\ reached < 0
  BY <1>2 DEF NextRound, Clean, Sound, GameType, NoGhosts, Author, Private, PileMatches, Waiting
<1>3. CASE ~LastRound(g) /\ ~(reached < 0)
  <2>1. NextJuror(g, g.czar) \in Seat \cup {kNone}
    BY JurorType DEF Clean, GameType
  <2>2. h \in GameType
    BY <2>1, Typed DEF Clean
  <2>3. Clean(h)
    BY <2>2, SamePeople DEF Clean, GameType
  <2> QED
    BY <1>3, <2>3, Beginning DEF NextRound
<1> QED
  BY <1>1, <1>2, <1>3

LEMMA Reloading ==
  ASSUME NEW g, Clean(g), g.phase = "Reveal", NEW reached \in Int
  PROVE  Sound(ReloadDeck(g, reached)) /\ Waiting(ReloadDeck(g, reached))
<1> DEFINE cleared == [g EXCEPT !.pile = {}, !.anon = {}, !.selected = kNone, !.winner = kNone,
                                !.aborted = FALSE, !.submitted = {}, !.held = {}]
           h == [cleared EXCEPT !.czar = NextJuror(g, g.czar), !.round = @ + 1]
           last == [cleared EXCEPT !.phase = "Finished"]
<1>1. /\ cleared \in GameType /\ cleared.submitted = {} /\ cleared.held = {}
      /\ cleared.connected = g.connected /\ cleared.seated = g.seated
      /\ cleared.pile = {} /\ cleared.winner = kNone
  BY DEF Clean, GameType
<1>2. NextJuror(g, g.czar) \in Seat \cup {kNone}
  BY JurorType DEF Clean, GameType
<1>3. Clean(cleared)
  BY <1>1 DEF Clean, NoGhosts
<1>0. cleared.phase = "Reveal"
  BY DEF Clean, GameType
<1> HIDE DEF cleared
<1>4. Clean(h)
  <2>1. h \in GameType
    BY <1>2, <1>3, Typed DEF Clean
  <2> QED
    BY <1>3, <2>1, SamePeople DEF Clean, GameType
<1>5. Sound(last) /\ Waiting(last)
  BY <1>3 DEF Sound, Clean, GameType, Phase, NoGhosts, Author, Private, PileMatches, Waiting
<1>6. Sound(cleared) /\ Waiting(cleared)
  <2>1. cleared.phase = "Reveal"
    BY <1>0
  <2> QED
    BY <1>3, <2>1 DEF Sound, Clean, GameType, Phase, NoGhosts, Author, Private, PileMatches, Waiting
<1>7. ReloadDeck(g, reached) = IF LastRound(g) THEN last
                               ELSE IF reached < 0 THEN cleared ELSE BeginRound(h, reached)
  BY DEF ReloadDeck, cleared
<1> QED
  BY <1>4, <1>5, <1>6, <1>7, Beginning

LEMMA Submitting ==
  ASSUME NEW g, Sound(g), NEW s \in Seat, CanSubmit(g, s)
  PROVE  Sound([g EXCEPT !.submitted = @ \cup {s}, !.pile = @ \cup {s}])
<1> DEFINE h == [g EXCEPT !.submitted = @ \cup {s}, !.pile = @ \cup {s}]
<1>1. h \in GameType
  BY DEF Sound, Clean, GameType, Player
<1>2. /\ h.seated = g.seated /\ h.connected = g.connected /\ h.held = g.held
      /\ h.submitted = g.submitted \cup {s} /\ h.pile = g.pile \cup {s}
      /\ h.anon = g.anon /\ h.winner = g.winner /\ h.czar = g.czar /\ h.phase = g.phase
  BY DEF Sound, Clean, GameType
<1>3. s \in g.seated /\ s # g.czar /\ s # kRando /\ g.anon = {} /\ g.phase = "Playing"
  BY Seats DEF Sound, Clean, CanSubmit, NoGhosts, Private, PileMatches
<1> QED
  BY <1>1, <1>2, <1>3 DEF Sound, Clean, NoGhosts, Private, PileMatches, Author

LEMMA ComingAndGoing ==
  ASSUME NEW g, Sound(g), NEW s \in g.seated
  PROVE  /\ Sound([g EXCEPT !.connected = @ \cup {s}, !.held = @ \ {s}])
         /\ Sound([g EXCEPT !.connected = @ \ {s},
                            !.held = IF Holds(g, s) THEN @ \cup {s} ELSE @ \ {s}])
         /\ Sound([g EXCEPT !.held = @ \ {s}])
<1> DEFINE on == [g EXCEPT !.connected = @ \cup {s}, !.held = @ \ {s}]
           off == [g EXCEPT !.connected = @ \ {s},
                            !.held = IF Holds(g, s) THEN @ \cup {s} ELSE @ \ {s}]
           free == [g EXCEPT !.held = @ \ {s}]
<1>1. s \in Seat
  BY DEF Sound, Clean, GameType
<1>2. on \in GameType /\ off \in GameType /\ free \in GameType
  BY <1>1 DEF Sound, Clean, GameType
<1>3. NoGhosts(on) /\ Private(on)
  BY DEF Sound, Clean, GameType, NoGhosts, Author, Private, PileMatches
<1>4. NoGhosts(off) /\ Private(off)
  BY DEF Sound, Clean, GameType, NoGhosts, Author, Private, PileMatches
<1>5. NoGhosts(free) /\ Private(free)
  BY DEF Sound, Clean, GameType, NoGhosts, Author, Private, PileMatches
<1> QED
  BY <1>2, <1>3, <1>4, <1>5 DEF Sound, Clean

\* Operations that leave the phase in which the pile is private, or stay out of it.
LEMMA Leaving ==
  ASSUME NEW g, Sound(g)
  PROVE  /\ Sound(CloseSubmissions(g)) /\ Waiting(CloseSubmissions(g))
         /\ Sound(AbortRound(g)) /\ Waiting(AbortRound(g))
         /\ Sound(Finish(g)) /\ Waiting(Finish(g))
<1>1. Sound(CloseSubmissions(g)) /\ Waiting(CloseSubmissions(g))
  BY DEF CloseSubmissions, Sound, Clean, GameType, Phase, NoGhosts, Author, Private, PileMatches, Waiting
<1>2. Sound(AbortRound(g)) /\ Waiting(AbortRound(g))
  BY DEF AbortRound, Sound, Clean, GameType, Phase, NoGhosts, Author, Private, PileMatches, Waiting
<1>3. Sound(Finish(g)) /\ Waiting(Finish(g))
  <2>1. Finish(g) \in GameType
    BY DEF Finish, Sound, Clean, GameType, Phase
  <2>2. NoGhosts(Finish(g))
    BY DEF Finish, Sound, Clean, GameType, NoGhosts, Author
  <2>3. Private(Finish(g)) /\ Waiting(Finish(g))
    BY DEF Finish, Sound, Clean, GameType, Private, PileMatches, Waiting
  <2>4. Clean(Finish(g))
    BY <2>1, <2>2, <2>3 DEF Clean
  <2> QED
    BY <2>3, <2>4 DEF Sound
<1> QED
  BY <1>1, <1>2, <1>3

LEMMA Picking ==
  ASSUME NEW g, Sound(g), NEW s \in Seat, NEW p \in Player, CanJudge(g, s, p)
  PROVE  Sound(Judge(g, p)) /\ Waiting(Judge(g, p))
<1> DEFINE w == Author(g, p)
           h == Judge(g, p)
<1>1. w \in g.seated \cup {kRando, kNone} /\ w \in Player \cup {kNone}
  BY DEF Sound, Clean, GameType, NoGhosts, CanJudge, Author
<1> HIDE DEF w
<1>2. h = [g EXCEPT !.selected = p, !.winner = w, !.phase = "Reveal", !.points = Awarded(@, w)]
  BY DEF Judge, w
<1>3. Awarded(g.points, w) \in [Seat -> Nat]
  BY <1>1, Typed DEF Sound, Clean
<1> HIDE DEF h
<1>4. h \in GameType
  BY <1>1, <1>2, <1>3 DEF Sound, Clean, GameType, Phase
<1>5. /\ h.seated = g.seated /\ h.connected = g.connected /\ h.held = g.held
      /\ h.submitted = g.submitted /\ h.pile = g.pile
      /\ h.anon = g.anon /\ h.winner = w /\ h.phase = "Reveal"
  BY <1>2 DEF Sound, Clean, GameType
<1>6. Sound(h) /\ Waiting(h)
  BY <1>1, <1>4, <1>5 DEF Sound, Clean, NoGhosts, Author, Private, PileMatches, Waiting
<1> QED
  BY <1>6 DEF h

LEMMA PlayingAgain ==
  ASSUME NEW g, Sound(g)
  PROVE  Sound(Rematch(g)) /\ Waiting(Rematch(g))
<1>1. /\ Rematch(g).phase = "Lobby" /\ Rematch(g) \in GameType
      /\ Rematch(g).pile = {} /\ Rematch(g).winner = kNone
  BY Seats DEF Rematch, NewGame, Sound, Clean, GameType, Phase
<1>2. NoGhosts(Rematch(g))
  BY DEF Rematch, NewGame, Sound, Clean, GameType, NoGhosts
<1> QED
  BY <1>1, <1>2 DEF Sound, Clean, Private, PileMatches, Waiting

\* A removed player takes a private answer along and leaves a shown one unnamed.
LEMMA Removing ==
  ASSUME NEW g, Sound(g), NEW s \in g.seated
  PROVE  /\ Sound(Vacate(Forget(g, s), s)) /\ Vacate(Forget(g, s), s).phase = g.phase
         /\ g.phase = "Lobby" => Sound(Vacate(g, s)) /\ Vacate(g, s).phase = "Lobby"
<1> DEFINE h == Forget(g, s)
           gone == Vacate(h, s)
           left == Vacate(g, s)
           points == Emptied(g.points, s)
<1>1. s \in Seat /\ s # kRando /\ s # kNone /\ s \in Player
  BY Seats DEF Sound, Clean, GameType, Player
<1>2. points \in [Seat -> Nat]
  BY <1>1, Typed DEF Sound, Clean
<1> HIDE DEF points
<1>3. /\ h \in GameType
      /\ h.seated = g.seated /\ h.connected = g.connected /\ h.submitted = g.submitted
      /\ h.held = g.held /\ h.phase = g.phase /\ h.czar = g.czar /\ h.points = g.points
      /\ IF g.phase = "Playing"
         THEN h.pile = g.pile \ {s} /\ h.anon = g.anon /\ h.winner = g.winner
         ELSE /\ h.pile = g.pile /\ h.anon = g.anon \cup ({s} \cap g.pile)
              /\ h.winner = IF g.winner = s THEN kNone ELSE g.winner
  BY <1>1 DEF Forget, Sound, Clean, GameType
<1> HIDE DEF h
<1>4. \A f \in GameType : f.points = g.points =>
        /\ Vacate(f, s) \in GameType
        /\ Vacate(f, s).seated = f.seated \ {s} /\ Vacate(f, s).connected = f.connected \ {s}
        /\ Vacate(f, s).submitted = f.submitted \ {s} /\ Vacate(f, s).held = f.held \ {s}
        /\ Vacate(f, s).phase = f.phase /\ Vacate(f, s).czar = f.czar
        /\ Vacate(f, s).pile = f.pile /\ Vacate(f, s).anon = f.anon
        /\ Vacate(f, s).winner = f.winner
  <2> TAKE f \in GameType
  <2> HAVE f.points = g.points
  <2> DEFINE A == f.seated \ {s}
             B == f.connected \ {s}
             C == f.submitted \ {s}
             D == f.held \ {s}
  <2>1. Vacate(f, s) = [f EXCEPT !.seated = A, !.connected = B, !.submitted = C, !.held = D,
                                 !.points = points]
    BY DEF Vacate, points
  <2>2. {A, B, C, D} \subseteq SUBSET Seat
    BY DEF GameType
  <2> HIDE DEF A, B, C, D
  <2> DEFINE v == [f EXCEPT !.seated = A, !.connected = B, !.submitted = C, !.held = D,
                            !.points = points]
  <2>3. v \in GameType
    BY <1>2, <2>2 DEF GameType
  <2>4. /\ v.seated = A /\ v.connected = B /\ v.submitted = C /\ v.held = D
        /\ v.phase = f.phase /\ v.czar = f.czar /\ v.pile = f.pile /\ v.anon = f.anon
        /\ v.winner = f.winner
    BY DEF GameType
  <2> QED
    BY <2>1, <2>3, <2>4 DEF A, B, C, D
<1>5. NoGhosts(gone)
  <2>1. /\ gone.seated = h.seated \ {s} /\ gone.connected = h.connected \ {s}
        /\ gone.submitted = h.submitted \ {s} /\ gone.held = h.held \ {s}
        /\ gone.pile = h.pile /\ gone.anon = h.anon /\ gone.winner = h.winner
    BY <1>3, <1>4
  <2> QED
    BY <1>1, <1>3, <2>1 DEF Sound, Clean, Private, PileMatches, NoGhosts, Author
<1>6. Private(gone)
  BY <1>1, <1>3, <1>4 DEF Sound, Clean, Private, PileMatches
<1>7. ASSUME g.phase = "Lobby" PROVE Sound(left) /\ left.phase = "Lobby"
  BY <1>1, <1>4, <1>7 DEF Sound, Clean, Private, PileMatches, NoGhosts, Author
<1>8. gone \in GameType /\ gone.phase = g.phase
  BY <1>3, <1>4
<1>9. Sound(gone)
  BY <1>5, <1>6, <1>8 DEF Sound, Clean
<1> QED
  BY <1>7, <1>8, <1>9 DEF h

LEMMA Kicking ==
  ASSUME NEW g, Sound(g), Waiting(g), NEW s \in g.seated
  PROVE  Sound(Kick(g, s)) /\ Waiting(Kick(g, s))
<1> DEFINE gone == Vacate(Forget(g, s), s)
           next == IF IsJuror(g, s) THEN AbortRound(gone) ELSE MaybeJudge(gone)
<1>1. Sound(gone)
  BY Removing
<1> HIDE DEF gone
<1>2. Sound(next) /\ Waiting(next)
  BY <1>1, Leaving, Judging
<1> HIDE DEF next
<1>3. Sound(Finish(next)) /\ Waiting(Finish(next))
  BY <1>2, Leaving
<1>4. g.phase = "Lobby" => Sound(Vacate(g, s)) /\ Waiting(Vacate(g, s))
  BY Removing DEF Waiting
<1>5. Kick(g, s) = IF g.phase = "Lobby" THEN Vacate(g, s)
                   ELSE IF next.phase # "Finished" /\ Cardinality(next.seated) < 3
                     THEN Finish(next) ELSE next
  BY DEF Kick, next, gone
<1> QED
  BY <1>2, <1>3, <1>4, <1>5
-----------------------------------------------------------------------------
(* The invariant.                                                          *)

LEMMA CardInitially == Init => CardInv
<1>1. ASSUME NEW n \in Rounds, NEW rando \in BOOLEAN, game = NewGame(n, rando)
      PROVE  CardInv
  BY <1>1, Configuring DEF CardInv, Waiting
<1> QED
  BY <1>1 DEF Init

LEMMA SeatSteps ==
  ASSUME CardInv, NEW s \in Seat,
         DoSubmit(s) \/ DoConnect(s) \/ DoDisconnect(s) \/ DoRelease(s) \/ DoKick(s)
  PROVE  CardInv'
<1> USE DEF CardInv
<1>1. CASE DoSubmit(s)
  BY <1>1, Submitting, Judging DEF DoSubmit, Submit
<1>2. CASE DoConnect(s)
  BY <1>2, ComingAndGoing, Judging DEF DoConnect, Connect
<1>3. CASE DoDisconnect(s)
  BY <1>3, ComingAndGoing, Judging DEF DoDisconnect, Disconnect
<1>4. CASE DoRelease(s)
  <2>1. s \in game.held /\ s \in game.seated
    BY <1>4 DEF DoRelease, Sound, Clean, NoGhosts
  <2> QED
    BY <1>4, <2>1, ComingAndGoing, Judging DEF DoRelease, ReleaseTurn
<1>5. CASE DoKick(s)
  BY <1>5, Kicking DEF DoKick
<1> QED
  BY <1>1, <1>2, <1>3, <1>4, <1>5

LEMMA TableSteps ==
  ASSUME CardInv,
         \/ DoJoin \/ DoStart \/ DoClose \/ DoAbort \/ DoEnd \/ DoRematch
         \/ \E n \in Rounds : DoSetRounds(n)
         \/ \E on \in BOOLEAN : DoSetRando(on)
  PROVE  CardInv'
<1> USE DEF CardInv
<1>1. CASE DoJoin
  BY <1>1, Joining DEF DoJoin, Waiting
<1>2. CASE DoStart
  BY <1>2, Starting DEF DoStart, Sound
<1>3. CASE DoClose \/ DoAbort \/ DoEnd
  BY <1>3, Leaving DEF DoClose, DoAbort, DoEnd
<1>4. CASE DoRematch
  BY <1>4, PlayingAgain DEF DoRematch
<1>5. ASSUME NEW n \in Rounds, DoSetRounds(n) PROVE CardInv'
  <2> DEFINE h == [game EXCEPT !.rounds = n, !.requested = n]
  <2>1. h \in GameType
    <3>1. n \in Nat
      BY CardAssumption
    <3> QED
      BY <3>1 DEF Sound, Clean, GameType
  <2>2. /\ Clean(h) /\ h.phase = "Lobby" /\ h.pile = game.pile /\ h.winner = game.winner
    BY <1>5, <2>1, SamePeople DEF Sound, Clean, GameType, DoSetRounds, CanSetRounds
  <2> QED
    BY <1>5, <2>2 DEF DoSetRounds, CanSetRounds, SetRounds, Sound, Private, PileMatches, Waiting
<1>6. ASSUME NEW on \in BOOLEAN, DoSetRando(on) PROVE CardInv'
  <2> DEFINE h == [game EXCEPT !.rando = on]
  <2>1. h \in GameType
    BY DEF Sound, Clean, GameType
  <2>2. /\ Clean(h) /\ h.phase = game.phase /\ h.pile = game.pile /\ h.winner = game.winner
        /\ h.submitted = game.submitted /\ h.anon = game.anon /\ h.czar = game.czar
        /\ h.seated = game.seated /\ h.connected = game.connected /\ h.held = game.held
    BY <2>1, SamePeople DEF Sound, Clean, GameType
  <2>3. Sound(h)
    BY <2>2 DEF Sound, Private, PileMatches
  <2>4. Waiting(h)
    BY <2>2 DEF Waiting, HumanPlays, Answering
  <2> QED
    BY <1>6, <2>3, <2>4 DEF DoSetRando, SetRando
<1> QED
  BY <1>1, <1>2, <1>3, <1>4, <1>5, <1>6

LEMMA CardStep == CardInv /\ [Next]_game => CardInv'
<1> SUFFICES ASSUME CardInv, [Next]_game
             PROVE  CardInv'
  OBVIOUS
<1>1. CASE UNCHANGED game
  BY <1>1 DEF CardInv
<1>2. ASSUME NEW s \in Seat, NEW p \in Player, DoJudge(s, p) PROVE CardInv'
  BY <1>2, Picking DEF DoJudge, CardInv
<1>3. ASSUME NEW reached \in -1 .. Whole, DoNext(reached) PROVE CardInv'
  <2>1. reached \in Int /\ game.phase = "Reveal"
    BY <1>3, CardAssumption DEF Whole, DoNext, CanNext
  <2> QED
    BY <1>3, <2>1, GoingOn DEF DoNext, CardInv, Sound
<1>4. ASSUME NEW reached \in -1 .. Whole, DoReload(reached) PROVE CardInv'
  <2>1. reached \in Int /\ game.phase = "Reveal"
    BY <1>4, CardAssumption DEF Whole, DoReload
  <2> QED
    BY <1>4, <2>1, Reloading DEF DoReload, CardInv, Sound
<1> QED
  BY <1>1, <1>2, <1>3, <1>4, SeatSteps, TableSteps DEF Next

THEOREM CardInvariant == Spec => []CardInv
BY CardInitially, CardStep, PTL DEF Spec

\* The game keeps its types (CardPartyCore.h:648-659).
THEOREM GameTyped == Spec => []GameTypeOK
<1>1. CardInv => GameTypeOK
  BY DEF CardInv, Sound, Clean, GameTypeOK
<1> QED
  BY <1>1, CardInvariant, PTL

\* Whoever is removed leaves nothing behind that is theirs but an anonymous play
\* (CardPartyCore.h:340-369).
THEOREM NobodyStays == Spec => []NobodyLeftBehind
<1>1. CardInv => NobodyLeftBehind
  BY DEF CardInv, Sound, Clean, NobodyLeftBehind
<1> QED
  BY <1>1, CardInvariant, PTL

\* While answers are collected the pile is exactly the answers handed in
\* (CardPartyCore.h:346-350).
THEOREM PileKept == Spec => []PileIsTheAnswers
<1>1. CardInv => PileIsTheAnswers
  BY DEF CardInv, Sound, Private, PileIsTheAnswers
<1> QED
  BY <1>1, CardInvariant, PTL

\* No round hangs on a player it is not waiting for (CardPartyCore.h:584-589).
THEOREM NeverIdle == Spec => []NotWaitingForNobody
<1>1. CardInv => NotWaitingForNobody
  BY DEF CardInv, NotWaitingForNobody
<1> QED
  BY <1>1, CardInvariant, PTL
-----------------------------------------------------------------------------
(* Judging starts over nobody's head.                                      *)

AllIn(g) ==
  \A s \in g.seated \ {g.czar} : s \in g.connected \cup g.held => s \in g.submitted

\* As many answers as players counted means an answer from each of them.
LEMMA Covered ==
  ASSUME NEW g, Sound(g), g.phase = "Playing", MaybeJudge(g).phase = "Judging"
  PROVE  AllIn(MaybeJudge(g))
<1>1. /\ HumanPlays(g) >= Cardinality(Answering(g))
      /\ MaybeJudge(g) = [g EXCEPT !.phase = "Judging"]
  BY Judging
<1>2. g.submitted \subseteq Answering(g) /\ g.pile \ {kRando} = g.submitted
  BY DEF Sound, Clean, Private, PileMatches, NoGhosts, Answering
<1>3. /\ IsFiniteSet(Answering(g)) /\ Cardinality(Answering(g)) \in Nat
      /\ Cardinality(g.submitted) >= Cardinality(Answering(g))
      /\ Cardinality(g.submitted) \in Nat
  BY <1>1, <1>2, Counts DEF HumanPlays, Sound, Clean
<1>4. Cardinality(g.submitted) <= Cardinality(Answering(g))
  BY <1>2, <1>3, FS_Subset
<1>5. g.submitted = Answering(g)
  BY <1>2, <1>3, <1>4, FS_Subset
<1>6. AllIn(g)
  BY <1>5 DEF AllIn, Answering
<1>7. /\ MaybeJudge(g).seated = g.seated /\ MaybeJudge(g).czar = g.czar
      /\ MaybeJudge(g).connected = g.connected /\ MaybeJudge(g).held = g.held
      /\ MaybeJudge(g).submitted = g.submitted
  BY <1>1 DEF Sound, Clean, GameType
<1> QED
  BY <1>6, <1>7 DEF AllIn

LEMMA KickCovered ==
  ASSUME NEW g, Sound(g), g.phase = "Playing", NEW s \in g.seated,
         Kick(g, s).phase = "Judging"
  PROVE  AllIn(Kick(g, s))
<1> DEFINE gone == Vacate(Forget(g, s), s)
           next == IF IsJuror(g, s) THEN AbortRound(gone) ELSE MaybeJudge(gone)
<1>1. Sound(gone) /\ gone.phase = "Playing"
  BY Removing
<1> HIDE DEF gone
<1>2. AbortRound(gone).phase = "Reveal"
  BY <1>1 DEF AbortRound, Sound, Clean, GameType
<1>3. Sound(next)
  BY <1>1, Judging, Leaving
<1>4. Finish(next).phase = "Finished"
  BY <1>3 DEF Finish, Sound, Clean, GameType
<1>5. Kick(g, s) \in {next, Finish(next)}
  BY DEF Kick, next, gone
<1>6. Kick(g, s) = MaybeJudge(gone)
  BY <1>2, <1>4, <1>5
<1> QED
  BY <1>1, <1>6, Covered

\* When judging starts by itself, everyone online, or away but holding a turn, has
\* answered (CardPartyCore.h:116-119, 584-589).
THEOREM NobodyIsSkipped == Spec => NobodySkipped
<1> DEFINE Starts == /\ game.phase = "Playing" /\ game'.phase = "Judging"
                     /\ game' # CloseSubmissions(game)
<1>1. ASSUME CardInv, [Next]_game, Starts
      PROVE  AllIn(game')
  <2> USE DEF CardInv
  <2>1. ASSUME NEW s \in Seat, DoSubmit(s) PROVE AllIn(game')
    <3>1. Sound([game EXCEPT !.submitted = @ \cup {s}, !.pile = @ \cup {s}])
      BY <1>1, <2>1, Submitting DEF DoSubmit
    <3>2. [game EXCEPT !.submitted = @ \cup {s}, !.pile = @ \cup {s}].phase = "Playing"
      BY <1>1 DEF Sound, Clean, GameType
    <3> QED
      BY <1>1, <2>1, <3>1, <3>2, Covered DEF DoSubmit, Submit
  <2>2. ASSUME NEW s \in Seat, DoConnect(s) \/ DoDisconnect(s) \/ DoRelease(s)
        PROVE  AllIn(game')
    <3> DEFINE on == [game EXCEPT !.connected = @ \cup {s}, !.held = @ \ {s}]
               off == [game EXCEPT !.connected = @ \ {s},
                         !.held = IF Holds(game, s) THEN @ \cup {s} ELSE @ \ {s}]
               free == [game EXCEPT !.held = @ \ {s}]
    <3>1. s \in game.seated
      BY <1>1, <2>2 DEF DoConnect, DoDisconnect, DoRelease, Sound, Clean, NoGhosts
    <3>2. Sound(on) /\ Sound(off) /\ Sound(free)
      BY <1>1, <3>1, ComingAndGoing
    <3>3. on.phase = "Playing" /\ off.phase = "Playing" /\ free.phase = "Playing"
      BY <1>1 DEF Sound, Clean, GameType
    <3>4. game' \in {MaybeJudge(on), MaybeJudge(off), MaybeJudge(free)}
      BY <2>2 DEF DoConnect, Connect, DoDisconnect, Disconnect, DoRelease, ReleaseTurn
    <3> HIDE DEF on, off, free
    <3> QED
      BY <1>1, <3>2, <3>3, <3>4, Covered
  <2>3. ASSUME NEW s \in Seat, DoKick(s) PROVE AllIn(game')
    BY <1>1, <2>3, KickCovered DEF DoKick
  <2>4. CASE DoJoin \/ DoStart \/ DoRematch \/ DoClose
    BY <1>1, <2>4 DEF DoJoin, CanJoin, DoStart, CanStart, DoRematch, CanRematch, DoClose
  <2>5. CASE DoAbort \/ DoEnd
    BY <1>1, <2>5 DEF DoAbort, AbortRound, DoEnd, Finish, Sound, Clean, GameType
  <2>6. ASSUME NEW s \in Seat, NEW p \in Player, DoJudge(s, p) PROVE FALSE
    BY <1>1, <2>6 DEF DoJudge, CanJudge
  <2>7. ASSUME NEW reached \in -1 .. Whole, DoNext(reached) \/ DoReload(reached) PROVE FALSE
    BY <1>1, <2>7 DEF DoNext, CanNext, DoReload
  <2>8. ASSUME NEW n \in Rounds, DoSetRounds(n) PROVE FALSE
    BY <1>1, <2>8 DEF DoSetRounds, CanSetRounds
  <2>9. ASSUME NEW on \in BOOLEAN, DoSetRando(on) PROVE FALSE
    BY <1>1, <2>9 DEF DoSetRando, SetRando, Sound, Clean, GameType
  <2>10. CASE UNCHANGED game
    BY <1>1, <2>10
  <2> QED
    BY <1>1, <2>1, <2>2, <2>3, <2>4, <2>5, <2>6, <2>7, <2>8, <2>9, <2>10 DEF Next
<1>2. CardInv /\ [Next]_game => [Starts => AllIn(game')]_game
  BY <1>1
<1> QED
  BY <1>2, CardInvariant, PTL DEF Spec, NobodySkipped, AllIn
=============================================================================
