----------------------- MODULE ActivityManagerProofs -----------------------
(***************************************************************************)
(* What holds of ActivityManager for any number of activities: nothing     *)
(* that is being drawn is destroyed, the pending action is whole, no       *)
(* activity lives in two places, results reach who awaits them, and a      *)
(* caller of requestUpdateAndWait() is woken over a screen that shows its  *)
(* change, unless it made it without the lock during a round.              *)
(*                                                                         *)
(* The first two rest on who holds the lock while the render task is in a  *)
(* round (Rounds); the third also on when a change can fall between the    *)
(* start of a round and the moment its waiter is told (Showing, Waiters).  *)
(***************************************************************************)
EXTENDS ActivityManager, SequenceTheorems, WellFoundedInduction, TLAPS

InRound == rpc \in {"drawing", "drawn", "told"}
Asleep == pc \in {"registered", "waiting"}

\* There is an activity on screen, except between PopsLast and LaunchesHome.
Screens ==
  /\ current \in Activity \cup {None} /\ pending \in Activity \cup {None}
  /\ stack \in Seq(Activity)
  /\ action \in {"None", "Push", "Pop", "Replace"}
  /\ PendingIsWhole
  /\ current = None <=> pc = "orphan"
  /\ pc = "orphan" => stack = <<>> /\ action = "None"

\* The render task holds the lock from before it looks at the screen.
Rounds ==
  /\ rpc \in {"idle", "locking", "drawing", "drawn", "told"}
  /\ InRound => lock = "render"
  /\ drawing # None => rpc = "drawing" /\ drawing = current

ManagerInv == Screens /\ Rounds

\* What a caller may be woken over.
Settled == {"fresh", "raced", "redrawing"}

\* A round shows what was there when it started.
Showing ==
  /\ shown \in {"stale", "drawing"} \cup Settled
  /\ rpc = "drawing" /\ current # None => shown # "stale"
  /\ rpc = "drawn" /\ current # None => shown \in {"fresh", "raced"}

\* A waiter sleeps until a round tells it, and nothing changes meanwhile.
Waiters ==
  /\ waiting \in BOOLEAN /\ mainNotified \in BOOLEAN
  /\ waiting => Asleep
  /\ mainNotified => Asleep /\ ~waiting /\ shown \in Settled

WaitInv == ManagerInv /\ Showing /\ Waiters
-----------------------------------------------------------------------------
LEMMA LeastExists ==
  ASSUME NEW S \in SUBSET Nat, S # {}
  PROVE  \E x \in S : \A y \in S : x =< y
  <1>. DEFINE R == {ss \in Nat \X Nat : ss[1] < ss[2]}
  <1>1. IsWellFoundedOn(R, Nat)
    BY NatLessThanWellFounded, Zenon DEF OpToRel
  <1>2. \A x, y \in Nat : <<y, x>> \notin R => x =< y
    OBVIOUS
  <1>. HIDE DEF R
  <1>3. PICK x \in S : \A y \in S : <<y, x>> \notin R
    BY <1>1, WFMin
  <1>. QED  BY <1>2, <1>3

\* A newly made activity is none of those that live.
LEMMA NewIs == CanMake => New \in Activity /\ New # None /\ New \notin Alive
  <1>. SUFFICES ASSUME CanMake PROVE New \in Activity /\ New # None /\ New \notin Alive
    OBVIOUS
  <1>. DEFINE S == Activity \ Alive
  <1>1. S \in SUBSET Nat /\ S # {} /\ S \subseteq Activity \ Alive /\ None \notin Activity
    BY ActivityAssumption DEF CanMake, None
  <1>. HIDE DEF S
  <1>2. \E x \in S : \A y \in S : x =< y
    BY <1>1, LeastExists
  <1>3. Min(S) \in S
    BY <1>2 DEF Min
  <1>. QED  BY <1>1, <1>3 DEF New, S

\* With nothing on screen, below or pending, Home can be made.
LEMMA HomeCanBeMade ==
  ASSUME current = None, pending = None, stack = <<>>
  PROVE  CanMake
  <1>1. ToSet(stack) = {}
    BY DEF ToSet
  <1>2. Alive = {}
    BY <1>1 DEF Alive
  <1>. QED  BY <1>2, ActivityAssumption DEF CanMake

LEMMA StackPops ==
  ASSUME stack \in Seq(Activity), stack # <<>>
  PROVE  Last(stack) \in Activity /\ Front(stack) \in Seq(Activity)
  <1>1. Len(stack) \in Nat \ {0}
    BY EmptySeq
  <1>2. Last(stack) \in Activity
    BY <1>1, ElementOfSeq DEF Last
  <1>3. Front(stack) \in Seq(Activity)
    BY <1>1, SubSeqProperties DEF Front
  <1>. QED  BY <1>2, <1>3

LEMMA NoneIsNoActivity == None \notin Activity
  BY ActivityAssumption DEF None
-----------------------------------------------------------------------------
LEMMA InitManagerInv == Init => ManagerInv
  <1>. SUFFICES ASSUME Init PROVE ManagerInv
    OBVIOUS
  <1>1. Min(Activity) \in Activity
    BY LeastExists, ActivityAssumption DEF Min
  <1>2. <<>> \in Seq(Activity)
    BY EmptySeq
  <1>3. Screens
    BY <1>1, <1>2, NoneIsNoActivity DEF Init, Screens, PendingIsWhole
  <1>4. Rounds
    BY DEF Init, Rounds, InRound
  <1>. QED  BY <1>3, <1>4 DEF ManagerInv

LEMMA RenderKeepsInv == ManagerInv /\ RenderStep => ManagerInv'
  <1>. SUFFICES ASSUME ManagerInv, RenderStep PROVE ManagerInv'
    OBVIOUS
  <1>1. UNCHANGED <<screens, mainTask>>
    BY DEF RenderStep, Wakes, StartsDrawing, EndsDrawing, TellsWaiter, Unlocks
  <1>2. Screens'
    BY <1>1 DEF ManagerInv, Screens, PendingIsWhole, screens, mainTask
  <1>3. Rounds'
    BY DEF ManagerInv, Rounds, InRound, RenderStep, Wakes, StartsDrawing, EndsDrawing,
           TellsWaiter, Unlocks, LockAfterDrawing, screens, renderTask
  <1>. QED  BY <1>2, <1>3 DEF ManagerInv

LEMMA CodeKeepsInv == ManagerInv /\ ActivityCode => ManagerInv'
  <1>. SUFFICES ASSUME ManagerInv, ActivityCode PROVE ManagerInv'
    OBVIOUS
  <1>. USE DEF ManagerInv
  <1>1. Screens'
    <2>. USE NewIs, NoneIsNoActivity DEF Screens, PendingIsWhole, screens, mainTask
    <2>1. CASE WantsLock \/ GetsLock \/ DropsLock \/ Changes \/ Defers \/ Requests
      BY <2>1 DEF WantsLock, GetsLock, DropsLock, Changes, Defers, Requests, InCode
    <2>2. CASE Registers \/ Notifies \/ Resumes \/ Returns
      BY <2>2 DEF Registers, Notifies, Resumes, Returns, InCode
    <2>3. CASE StartsForResult \/ Finishes \/ GoesTo
      BY <2>3 DEF StartsForResult, Finishes, GoesTo, MayNavigate, InCode, Navigated,
                  Push, Replace, Pop
    <2>. QED  BY <2>1, <2>2, <2>3 DEF ActivityCode
  <1>2. Rounds'
    <2>1. /\ rpc' = rpc /\ drawing' = drawing /\ current' = current
          /\ lock = "render" => lock' = "render"
      BY DEF ActivityCode, WantsLock, GetsLock, DropsLock, Changes, Defers, Requests,
             Registers, Notifies, Resumes, StartsForResult, Finishes, GoesTo, Returns,
             Navigated, screens, renderTask
    <2>. QED  BY <2>1 DEF Rounds, InRound
  <1>. QED  BY <1>1, <1>2

LEMMA ManagerKeepsInv == ManagerInv /\ Manager => ManagerInv'
  <1>. SUFFICES ASSUME ManagerInv, Manager PROVE ManagerInv'
    OBVIOUS
  <1>. USE NewIs, NoneIsNoActivity
       DEF ManagerInv, Screens, PendingIsWhole, Rounds, InRound, screens, mainTask, renderTask
  <1>1. CASE BatteryChanges \/ RunsActivity \/ Flushes
    BY <1>1 DEF BatteryChanges, RunsActivity, Flushes
  <1>2. CASE HomeGesture \/ PanelGesture
    BY <1>2 DEF HomeGesture, PanelGesture, Push, Replace
  <1>3. CASE Pops
    <2>1. /\ current' = Last(stack) /\ stack' = Front(stack) /\ action' = "None"
          /\ pending' = pending /\ rpc' = rpc /\ drawing' = drawing
          /\ action = "Pop" /\ lock = "none" /\ stack # <<>> /\ pc' # "orphan"
      BY <1>3 DEF Pops, MaySwap
    <2>2. Last(stack) \in Activity /\ Front(stack) \in Seq(Activity)
      BY <2>1, StackPops
    <2>. QED  BY <2>1, <2>2
  <1>4. CASE PopsLast
    BY <1>4 DEF PopsLast, MaySwap, NewScreen
  <1>5. CASE LaunchesHome
    <2>1. CanMake
      BY <1>5, HomeCanBeMade DEF LaunchesHome
    <2>. QED  BY <1>5, <2>1 DEF LaunchesHome
  <1>6. CASE Launches
    <2>1. current' = pending /\ pending \in Activity /\ pc' = "code" /\ lock = "none"
      BY <1>6 DEF Launches, MaySwap
    <2>2. stack' \in Seq(Activity)
      <3>1. current \in Activity /\ stack \in Seq(Activity)
        BY <1>6 DEF Launches
      <3>2. Append(stack, current) \in Seq(Activity) /\ <<>> \in Seq(Activity)
        BY <3>1, AppendProperties, EmptySeq
      <3>. QED  BY <1>6, <3>2 DEF Launches
    <2>. QED  BY <1>6, <2>1, <2>2 DEF Launches, Moved
  <1>. QED  BY <1>1, <1>2, <1>3, <1>4, <1>5, <1>6 DEF Manager

LEMMA ManagerInvariant == Spec => []ManagerInv
  <1>1. ManagerInv /\ UNCHANGED vars => ManagerInv'
    BY DEF ManagerInv, Screens, PendingIsWhole, Rounds, InRound, vars, screens, mainTask,
           renderTask
  <1>2. ManagerInv /\ [Next]_vars => ManagerInv'
    BY <1>1, RenderKeepsInv, CodeKeepsInv, ManagerKeepsInv DEF Next
  <1>. QED  BY InitManagerInv, <1>2, PTL DEF Spec

\* The activity being drawn is the one on screen, for any number of activities
\* (ActivityManager.cpp:55-56).
THEOREM DrawnStaysAlive == Spec => []DrawnIsAlive
  <1>1. ManagerInv => DrawnIsAlive
    BY DEF ManagerInv, Rounds, DrawnIsAlive
  <1>. QED  BY <1>1, ManagerInvariant, PTL

\* An activity waits exactly for a push or a replacement, for any number of
\* activities (ActivityManager.cpp:101-174, 279-296).
THEOREM PendingStaysWhole == Spec => []PendingIsWhole
  <1>1. ManagerInv => PendingIsWhole
    BY DEF ManagerInv, Screens
  <1>. QED  BY <1>1, ManagerInvariant, PTL
-----------------------------------------------------------------------------
(* requestUpdateAndWait(), whether or not activities change their state    *)
(* under the render lock.                                                  *)

LEMMA InitWaitInv == Init => Showing /\ Waiters
  BY DEF Init, Settled, Showing, Waiters, Asleep

LEMMA RenderKeepsWait == WaitInv /\ RenderStep => Showing' /\ Waiters'
  <1>. SUFFICES ASSUME WaitInv, RenderStep PROVE Showing' /\ Waiters'
    OBVIOUS
  <1>. USE DEF WaitInv, Settled, Showing, Waiters, Asleep, screens, mainTask, signals, ghosts
  <1>1. CASE Wakes
    BY <1>1 DEF Wakes
  <1>2. CASE StartsDrawing
    BY <1>2 DEF StartsDrawing
  <1>3. CASE EndsDrawing
    BY <1>3 DEF EndsDrawing
  <1>4. CASE TellsWaiter
    <2>1. waiting => Asleep /\ shown \in Settled
      BY <1>4 DEF TellsWaiter, ManagerInv, Screens
    <2>. QED  BY <1>4, <2>1 DEF TellsWaiter, WakeWaiter
  <1>5. CASE Unlocks
    BY <1>5 DEF Unlocks
  <1>. QED  BY <1>1, <1>2, <1>3, <1>4, <1>5 DEF RenderStep

LEMMA CodeKeepsWait == WaitInv /\ ActivityCode => Showing' /\ Waiters'
  <1>. SUFFICES ASSUME WaitInv, ActivityCode PROVE Showing' /\ Waiters'
    OBVIOUS
  <1>. USE DEF WaitInv, Settled, Showing, Waiters, Asleep, InCode, screens, mainTask, signals,
               renderTask, ghosts
  <1>1. CASE WantsLock \/ GetsLock \/ DropsLock \/ Defers \/ Requests
    BY <1>1 DEF WantsLock, GetsLock, DropsLock, Defers, Requests
  <1>2. CASE Changes
    BY <1>2 DEF Changes, ManagerInv, Rounds, InRound
  <1>3. CASE Registers
    BY <1>3 DEF Registers
  <1>4. CASE Notifies
    BY <1>4 DEF Notifies
  <1>5. CASE Resumes
    BY <1>5 DEF Resumes
  <1>6. CASE Returns
    <2>1. pc = "code" /\ UNCHANGED <<waiting, mainNotified, shown, rpc, current>>
      BY <1>6 DEF Returns
    <2>. QED  BY <2>1
  <1>7. CASE StartsForResult \/ Finishes \/ GoesTo
    BY <1>7 DEF StartsForResult, Finishes, GoesTo, Navigated
  <1>. QED  BY <1>1, <1>2, <1>3, <1>4, <1>5, <1>6, <1>7 DEF ActivityCode

LEMMA ManagerKeepsWait == WaitInv /\ Manager => Showing' /\ Waiters'
  <1>. SUFFICES ASSUME WaitInv, Manager PROVE Showing' /\ Waiters'
    OBVIOUS
  <1>. USE DEF WaitInv, Settled, Showing, Waiters, Asleep, ManagerInv, Rounds, InRound, screens, mainTask,
               signals, renderTask, ghosts
  <1>1. CASE BatteryChanges \/ HomeGesture \/ PanelGesture \/ RunsActivity \/ Flushes
    BY <1>1 DEF BatteryChanges, HomeGesture, PanelGesture, RunsActivity, Flushes
  <1>2. CASE Pops
    <2>1. /\ shown' = "stale" /\ lock = "none" /\ pc = "drain" /\ rpc' = rpc
          /\ waiting' = waiting /\ mainNotified' = mainNotified
      BY <1>2 DEF Pops, MaySwap
    <2>. QED  BY <2>1
  <1>3. CASE PopsLast \/ LaunchesHome
    BY <1>3 DEF PopsLast, LaunchesHome, MaySwap, NewScreen
  <1>4. CASE Launches
    BY <1>4 DEF Launches, MaySwap, NewScreen
  <1>. QED  BY <1>1, <1>2, <1>3, <1>4 DEF Manager

LEMMA WaitInvariant == Spec => []WaitInv
  <1>1. WaitInv /\ UNCHANGED vars => Showing' /\ Waiters'
    BY DEF WaitInv, Settled, Showing, Waiters, Asleep, vars, screens, mainTask, signals, renderTask, ghosts
  <1>2. WaitInv /\ [Next]_vars => Showing' /\ Waiters'
    BY <1>1, RenderKeepsWait, CodeKeepsWait, ManagerKeepsWait DEF Next
  <1>3. Init => WaitInv
    BY InitManagerInv, InitWaitInv DEF WaitInv
  <1>4. ManagerInv' /\ Showing' /\ Waiters' => WaitInv'
    BY DEF WaitInv
  <1>. QED  BY <1>2, <1>3, <1>4, ManagerInvariant, PTL DEF Spec

\* A call of requestUpdateAndWait() returns over a screen that shows every
\* change made before it, unless one made without the render lock fell into a
\* round already begun (ActivityManager.cpp:336-360).
THEOREM WaitShows == Spec => WaitShowsChange
  <1>1. ASSUME WaitInv, [Next]_vars
        PROVE  [Resumed => shown \in {"fresh", "raced", "redrawing"}]_vars
    <2>1. ASSUME Next, Resumed PROVE mainNotified
      BY <2>1
      DEF Resumed, Next, RenderStep, Wakes, StartsDrawing, EndsDrawing, TellsWaiter, Unlocks,
          ActivityCode, WantsLock, GetsLock, DropsLock, Changes, Defers, Requests, Registers,
          Notifies, Resumes, StartsForResult, Finishes, GoesTo, Navigated, Returns, InCode,
          MayNavigate, Manager, BatteryChanges, HomeGesture, PanelGesture, RunsActivity,
          Pops, PopsLast, LaunchesHome, Launches, Flushes, mainTask
    <2>. QED  BY <1>1, <2>1 DEF WaitInv, Waiters, Settled
  <1>. QED  BY <1>1, WaitInvariant, PTL DEF Spec, WaitShowsChange
-----------------------------------------------------------------------------
(* What an activity waits for lies right above it.                         *)

Index == 1 .. Len(stack)

\* No activity lives in two places, and one that does not live waits for nothing.
Apart ==
  /\ handler \in [Activity -> Activity \cup {None}]
  /\ \A i, j \in Index : stack[i] = stack[j] => i = j
  /\ \A i \in Index : stack[i] # current /\ stack[i] # pending
  /\ current # None => pending # current
  /\ \A a \in Activity : a # current /\ (\A i \in Index : stack[i] # a) => handler[a] = None

Awaits ==
  /\ \A i \in Index :
       handler[stack[i]] \in {None, IF i = Len(stack) THEN current ELSE stack[i + 1]}
  /\ current # None /\ action \in {"None", "Push"} => handler[current] \in {None, pending}
  /\ pc = "away" => handler[current] = None

ResultInv == ManagerInv /\ Apart /\ Awaits

LEMMA NewLivesNowhere ==
  ASSUME Screens, CanMake
  PROVE  New \in Activity /\ New # None /\ New # current /\ \A i \in Index : stack[i] # New
  <1>1. New \in Activity /\ New # None /\ New \notin Alive
    BY NewIs
  <1>2. \A i \in Index : stack[i] \in Alive
    <2>1. DOMAIN stack = Index
      BY LenProperties DEF Screens, Index
    <2>. QED  BY <2>1 DEF Alive, ToSet
  <1>. QED  BY <1>1, <1>2 DEF Alive

LEMMA InitResult == Init => Apart /\ Awaits
  <1>. SUFFICES ASSUME Init PROVE Apart /\ Awaits
    OBVIOUS
  <1>1. Min(Activity) \in Activity
    BY LeastExists, ActivityAssumption DEF Min
  <1>2. Len(stack) = 0
    BY EmptySeq DEF Init
  <1>3. Index = {}
    BY <1>2 DEF Index
  <1>. QED  BY <1>1, <1>3, NoneIsNoActivity DEF Init, Apart, Awaits

\* Only what changes the screens or begins a rest matters.
LEMMA QuietKeepsResult ==
  ASSUME ResultInv, UNCHANGED screens, pc' = "away" => pc = "away"
  PROVE  Apart' /\ Awaits'
  BY DEF ResultInv, Apart, Awaits, Index, screens

LEMMA CodeKeepsResult == ResultInv /\ ActivityCode => Apart' /\ Awaits'
  <1>. SUFFICES ASSUME ResultInv, ActivityCode PROVE Apart' /\ Awaits'
    OBVIOUS
  <1>1. CASE StartsForResult
    <2>1. /\ UNCHANGED <<current, stack, pc>> /\ pc = "code"
          /\ pending' = New /\ action' = "Push"
          /\ handler' = [handler EXCEPT ![current] = New] /\ CanMake
      BY <1>1 DEF StartsForResult, MayNavigate, InCode, Navigated, Push
    <2>2. current \in Activity /\ Screens
      BY <2>1 DEF ResultInv, ManagerInv, Screens
    <2>3. New \in Activity /\ New # None /\ New # current /\ \A i \in Index : stack[i] # New
      BY <2>1, <2>2, NewLivesNowhere
    <2>4. \A i \in Index : stack[i] \in Activity
      BY <2>2, ElementOfSeq DEF Screens, Index
    <2>5. Apart'
      BY <2>1, <2>2, <2>3, <2>4 DEF ResultInv, Apart, Index
    <2>6. Awaits'
      BY <2>1, <2>2, <2>3, <2>4 DEF ResultInv, Apart, Awaits, Index
    <2>. QED  BY <2>5, <2>6
  <1>2. CASE Finishes
    <2>1. /\ UNCHANGED <<current, stack, handler, pc>> /\ pc = "code"
          /\ pending' = None /\ action' = "Pop"
      BY <1>2 DEF Finishes, MayNavigate, InCode, Navigated, Pop
    <2>2. \A i \in Index : stack[i] \in Activity
      BY ElementOfSeq DEF ResultInv, ManagerInv, Screens, Index
    <2>. QED  BY <2>1, <2>2, NoneIsNoActivity DEF ResultInv, Apart, Awaits, Index
  <1>3. CASE GoesTo
    <2>1. /\ UNCHANGED <<current, stack, handler, pc>> /\ pc = "code"
          /\ pending' = New /\ action' = "Replace" /\ CanMake
      BY <1>3 DEF GoesTo, MayNavigate, InCode, Navigated, Replace
    <2>2. New # current /\ \A i \in Index : stack[i] # New
      BY <2>1, NewLivesNowhere DEF ResultInv, ManagerInv
    <2>. QED  BY <2>1, <2>2 DEF ResultInv, Apart, Awaits, Index
  <1>4. CASE ~(StartsForResult \/ Finishes \/ GoesTo)
    <2>1. UNCHANGED screens /\ pc' # "away"
      BY <1>4 DEF ActivityCode, WantsLock, GetsLock, DropsLock, Changes, Defers, Requests,
         Registers, Notifies, Resumes, Returns, InCode, mainTask
    <2>. QED  BY <2>1, QuietKeepsResult
  <1>. QED  BY <1>1, <1>2, <1>3, <1>4

LEMMA SwapKeepsResult ==
  ResultInv /\ (Pops \/ PopsLast \/ LaunchesHome \/ Launches) => Apart' /\ Awaits'
  <1>. SUFFICES ASSUME ResultInv, Pops \/ PopsLast \/ LaunchesHome \/ Launches
                PROVE  Apart' /\ Awaits'
    OBVIOUS
  <1>. USE NoneIsNoActivity
  <1>1. stack \in Seq(Activity) /\ Len(stack) \in Nat /\ \A i \in Index : stack[i] \in Activity
    BY ElementOfSeq, LenProperties DEF ResultInv, ManagerInv, Screens, Index
  <1>2. CASE Pops
    <2> DEFINE n == Len(stack)
    <2>1. /\ current' = stack[n] /\ stack' = SubSeq(stack, 1, n - 1) /\ action' = "None"
          /\ pending' = pending /\ pc' # "away" /\ stack # <<>> /\ action = "Pop"
          /\ handler' = [[handler EXCEPT ![stack[n]] = None] EXCEPT ![current] = None]
          /\ pc = "drain"
      BY <1>2 DEF Pops, Last, Front, HandlerTaken
    <2>2. pending = None /\ current \in Activity
      BY <2>1 DEF ResultInv, ManagerInv, Screens, PendingIsWhole
    <2>3. n \in Nat \ {0}
      BY <1>1, <2>1, EmptySeq
    <2>4. stack[n] \in Activity /\ stack[n] # current
      BY <1>1, <2>3 DEF ResultInv, Apart, Index
    <2>5. Len(stack') = n - 1 /\ \A i \in 1 .. n - 1 : stack'[i] = stack[i]
      <3>1. \A i \in 1 .. n - 1 : stack[i] \in Activity
        BY <1>1, <2>3 DEF Index
      <3> HIDE DEF n
      <3>2. /\ Len(SubSeq(stack, 1, n - 1)) = IF 1 <= n - 1 THEN (n - 1) - 1 + 1 ELSE 0
            /\ \A i \in 1 .. (n - 1) - 1 + 1 : SubSeq(stack, 1, n - 1)[i] = stack[1 + i - 1]
        BY <2>3, <3>1, SubSeqProperties
      <3>. QED  BY <2>1, <2>3, <3>2
    <2>6. /\ handler' \in [Activity -> Activity \cup {None}]
          /\ \A a \in Activity : handler'[a] = IF a \in {stack[n], current} THEN None
                                                ELSE handler[a]
      BY <2>1, <2>2, <2>4 DEF ResultInv, Apart
    <2> HIDE DEF n
    <2>7. Index' = 1 .. n - 1 /\ Index = 1 .. n
      BY <2>5 DEF Index, n
    <2>8. Apart'
      BY <1>1, <2>1, <2>2, <2>3, <2>4, <2>5, <2>6, <2>7 DEF ResultInv, Apart
    <2>9. \A i \in 1 .. n - 1 :
            handler'[stack[i]] \in {None, IF i = n - 1 THEN stack[n] ELSE stack[i + 1]}
      BY <1>1, <2>3, <2>6, <2>7 DEF ResultInv, Apart, Awaits, n
    <2>10. \A i \in 1 .. n - 1 : i # n - 1 => stack'[i + 1] = stack[i + 1]
      BY <2>3, <2>5
    <2>11. \A i \in 1 .. n - 1 :
             handler'[stack'[i]] \in {None, IF i = n - 1 THEN stack[n] ELSE stack'[i + 1]}
      BY <2>5, <2>9, <2>10
    <2>12. handler'[stack[n]] = None
      BY <2>4, <2>6
    <2>13. Awaits'
      BY <2>1, <2>5, <2>7, <2>11, <2>12 DEF Awaits
    <2>. QED  BY <2>8, <2>13
  <1>3. CASE PopsLast
    <2>1. /\ stack = <<>> /\ stack' = stack /\ current' = None /\ pc' = "orphan"
          /\ handler' = [handler EXCEPT ![current] = None] /\ UNCHANGED pending
      BY <1>3 DEF PopsLast, HandlerTaken
    <2>2. Index = {} /\ Index' = {}
      BY <2>1, EmptySeq DEF Index
    <2>. QED  BY <2>1, <2>2 DEF ResultInv, Apart, Awaits
  <1>4. CASE LaunchesHome
    <2>1. /\ stack = <<>> /\ stack' = stack /\ current = None /\ current' = New /\ pc' = "code"
          /\ pending = None /\ UNCHANGED <<handler, pending>>
      BY <1>4 DEF LaunchesHome, ResultInv, ManagerInv, Screens, PendingIsWhole
    <2>2. Index = {} /\ Index' = {}
      BY <2>1, EmptySeq DEF Index
    <2>3. New \in Activity /\ New # None
      BY <2>1, HomeCanBeMade, NewIs
    <2>. QED  BY <2>1, <2>2, <2>3 DEF ResultInv, Apart, Awaits
  <1>5. CASE Launches /\ action = "Replace"
    <2>1. /\ stack' = <<>> /\ pending' = None /\ current' = pending /\ pc' = "code"
          /\ handler' = [a \in Activity |-> None] /\ pending \in Activity
      BY <1>5 DEF Launches, Moved, ResultInv, ManagerInv, Screens
    <2>2. Index' = {}
      BY <2>1, EmptySeq DEF Index
    <2>. QED  BY <2>1, <2>2 DEF Apart, Awaits
  <1>6. CASE Launches /\ action = "Push"
    <2> DEFINE n == Len(stack)
    <2>1. /\ stack' = Append(stack, current) /\ pending' = None /\ current' = pending
          /\ pc' = "code" /\ handler' = handler /\ pending \in Activity
          /\ current \in Activity
      BY <1>6 DEF Launches, Moved, ResultInv, ManagerInv, Screens
    <2>2. /\ Len(stack') = n + 1 /\ stack'[n + 1] = current
          /\ \A i \in 1 .. n : stack'[i] = stack[i]
      BY <1>1, <2>1, AppendProperties
    <2>3. Index' = 1 .. n + 1 /\ Index = 1 .. n
      BY <2>2 DEF Index
    <2>4. Apart'
      BY <1>1, <2>1, <2>2, <2>3 DEF ResultInv, Apart
    <2>5. handler[current] \in {None, pending} /\ handler[pending] = None
      BY <1>6, <2>1 DEF ResultInv, Apart, Awaits
    <2>6. \A i \in 1 .. n : handler[stack[i]] \in {None, IF i = n THEN current ELSE stack[i + 1]}
      BY <2>3 DEF ResultInv, Awaits
    <2>7. \A i \in 1 .. n + 1 :
            handler'[stack'[i]] \in {None, IF i = n + 1 THEN pending ELSE stack'[i + 1]}
      BY <1>1, <2>1, <2>2, <2>5, <2>6
    <2>8. Awaits'
      BY <2>1, <2>2, <2>3, <2>5, <2>7 DEF Awaits
    <2>. QED  BY <2>4, <2>8
  <1>. QED  BY <1>2, <1>3, <1>4, <1>5, <1>6 DEF Launches

LEMMA RestKeepsResult ==
  ResultInv /\ (BatteryChanges \/ HomeGesture \/ PanelGesture \/ RunsActivity \/ Flushes)
    => Apart' /\ Awaits'
  <1>. SUFFICES ASSUME ResultInv,
                       BatteryChanges \/ HomeGesture \/ PanelGesture \/ RunsActivity \/ Flushes
                PROVE  Apart' /\ Awaits'
    OBVIOUS
  <1>1. CASE BatteryChanges \/ RunsActivity
    BY <1>1, QuietKeepsResult DEF BatteryChanges, RunsActivity, mainTask
  <1>2. CASE HomeGesture \/ PanelGesture
    <2>1. /\ UNCHANGED <<current, stack, handler, pc>> /\ pending' = New /\ CanMake
          /\ pc = "away"
      BY <1>2 DEF HomeGesture, PanelGesture, Push, Replace, mainTask
    <2>2. New # current /\ \A i \in Index : stack[i] # New
      BY <2>1, NewLivesNowhere DEF ResultInv, ManagerInv
    <2>. QED  BY <2>1, <2>2 DEF ResultInv, Apart, Awaits, Index
  <1>3. CASE Flushes
    <2>1. UNCHANGED screens /\ action = "None" /\ pc = "drain"
      BY <1>3 DEF Flushes
    <2>2. pending = None /\ current # None
      BY <2>1 DEF ResultInv, ManagerInv, Screens, PendingIsWhole
    <2>. QED  BY <2>1, <2>2 DEF ResultInv, Apart, Awaits, Index, screens
  <1>. QED  BY <1>1, <1>2, <1>3

LEMMA ResultInvariant == Spec => []ResultInv
  <1>1. ResultInv /\ UNCHANGED vars => Apart' /\ Awaits'
    BY QuietKeepsResult DEF vars, mainTask
  <1>2. ResultInv /\ RenderStep => Apart' /\ Awaits'
    BY QuietKeepsResult DEF RenderStep, Wakes, StartsDrawing, EndsDrawing, TellsWaiter, Unlocks,
       mainTask
  <1>3. ResultInv /\ [Next]_vars => Apart' /\ Awaits'
    BY <1>1, <1>2, CodeKeepsResult, SwapKeepsResult, RestKeepsResult DEF Next, Manager
  <1>4. Init => ResultInv
    BY InitManagerInv, InitResult DEF ResultInv
  <1>5. ManagerInv' /\ Apart' /\ Awaits' => ResultInv'
    BY DEF ResultInv
  <1>. QED  BY <1>3, <1>4, <1>5, ManagerInvariant, PTL DEF Spec

\* A result handler is called with the result of the very child it was given for
\* (Activity.h:73-82, ActivityManager.cpp:128-135).
THEOREM ResultsArrive == Spec => []ResultIsAwaited
  <1>1. ASSUME ResultInv PROVE ResultIsAwaited
    <2>1. CASE current = None
      <3>1. Index = {} /\ 1 .. Len(stack) = {}
        BY <1>1, <2>1, EmptySeq DEF ResultInv, ManagerInv, Screens, Index
      <3>. QED  BY <2>1, <3>1 DEF ResultIsAwaited
    <2>2. CASE current # None
      <3>1. stack \in Seq(Activity) /\ <<current>> \in Seq(Activity) /\ Len(stack) \in Nat
        BY <1>1, <2>2, LenProperties DEF ResultInv, ManagerInv, Screens
      <3>2. \A i \in Index : Above(i) = IF i = Len(stack) THEN current ELSE stack[i + 1]
        <4>1. /\ Len(<<current>>) = 1 /\ <<current>>[1] = current
          OBVIOUS
        <4>2. \A i \in 1 .. Len(stack) + 1 : (stack \o <<current>>)[i] =
                 IF i <= Len(stack) THEN stack[i] ELSE <<current>>[i - Len(stack)]
          BY <3>1, <4>1, ConcatProperties
        <4>. QED  BY <3>1, <4>1, <4>2 DEF Above, Index
      <3>. QED  BY <1>1, <3>2 DEF ResultInv, Awaits, ResultIsAwaited, Index
    <2>. QED  BY <2>1, <2>2
  <1>. QED  BY <1>1, ResultInvariant, PTL
-----------------------------------------------------------------------------
(* Types.  What the swaps and rounds need is in ResultInv; the rest is here. *)

Control ==
  /\ pc \in {"away", "code", "locking", "registered", "waiting", "drain", "orphan"}
  /\ ctx \in {"loop", "enter", "handler"} /\ hops \in 0 .. MaxHops
  /\ lock \in {"none", "main", "manager", "render"}
  /\ shown \in {"stale", "raced", "drawing", "redrawing", "fresh"}

Flags ==
  /\ requested \in BOOLEAN /\ waiting \in BOOLEAN /\ owed \in BOOLEAN
  /\ renderNotified \in BOOLEAN /\ mainNotified \in BOOLEAN

LEMMA RenderKeepsTypes ==
  ASSUME Control, Flags, RenderStep
  PROVE  Control' /\ Flags'
  <1>. USE DEF Control, Flags, screens, mainTask, signals, renderTask, ghosts
  <1>1. CASE Wakes
    <2>1. Control'
      BY <1>1 DEF Wakes
    <2>2. /\ renderNotified' = FALSE
          /\ UNCHANGED <<requested, waiting, mainNotified, owed>>
      BY <1>1 DEF Wakes
    <2>3. Flags'
      BY <2>2
    <2>. QED  BY <2>1, <2>3
  <1>2. CASE StartsDrawing
    BY <1>2 DEF StartsDrawing
  <1>3. CASE EndsDrawing
    BY <1>3 DEF EndsDrawing, LockAfterDrawing
  <1>4. CASE TellsWaiter
    BY <1>4 DEF TellsWaiter, WakeWaiter
  <1>5. CASE Unlocks
    BY <1>5 DEF Unlocks
  <1>. QED  BY <1>1, <1>2, <1>3, <1>4, <1>5 DEF RenderStep

LEMMA CodeKeepsTypes ==
  ASSUME Control, Flags, ActivityCode
  PROVE  Control' /\ Flags'
  <1>. USE DEF Control, Flags, screens, mainTask, signals, renderTask, ghosts, InCode
  <1>1. CASE WantsLock \/ GetsLock \/ DropsLock \/ Changes
    BY <1>1 DEF WantsLock, GetsLock, DropsLock, Changes
  <1>2. CASE Defers \/ Requests
    BY <1>2 DEF Defers, Requests
  <1>5. CASE Registers
    BY <1>5 DEF Registers
  <1>6. CASE Notifies \/ Resumes
    BY <1>6 DEF Notifies, Resumes
  <1>3. CASE StartsForResult \/ Finishes \/ GoesTo
    <2>1. hops' \in 0 .. MaxHops
      BY <1>3, ActivityAssumption DEF StartsForResult, Finishes, GoesTo, MayNavigate, Navigated
    <2>2. UNCHANGED <<pc, ctx, signals, renderTask, ghosts>>
      BY <1>3 DEF StartsForResult, Finishes, GoesTo, Navigated
    <2>. QED  BY <2>1, <2>2
  <1>4. CASE Returns
    BY <1>4 DEF Returns
  <1>. QED  BY <1>1, <1>2, <1>3, <1>4, <1>5, <1>6 DEF ActivityCode

LEMMA ManagerKeepsTypes ==
  ASSUME Control, Flags, Manager
  PROVE  Control' /\ Flags'
  <1>. USE DEF Control, Flags, screens, mainTask, signals, renderTask, ghosts
  <1>1. CASE BatteryChanges \/ RunsActivity
    BY <1>1 DEF BatteryChanges, RunsActivity
  <1>5. CASE HomeGesture \/ PanelGesture
    BY <1>5 DEF HomeGesture, PanelGesture
  <1>2. CASE Pops
    <2>1. /\ pc' \in {pc, "code"} /\ ctx' \in {ctx, "handler"} /\ hops' = hops
          /\ lock' \in {lock, "none"} /\ shown' = "stale"
      BY <1>2 DEF Pops, LockInHandler
    <2>2. /\ requested' \in {requested, TRUE} /\ owed' \in BOOLEAN
          /\ UNCHANGED <<waiting, renderNotified, mainNotified>>
      BY <1>2 DEF Pops
    <2>3. Control'
      BY <2>1
    <2>4. Flags'
      <3>1. requested' \in BOOLEAN
        BY <2>2
      <3>. QED  BY <2>2, <3>1
    <2>. QED  BY <2>3, <2>4
  <1>3. CASE PopsLast \/ LaunchesHome \/ Launches
    BY <1>3 DEF PopsLast, LaunchesHome, Launches, NewScreen
  <1>4. CASE Flushes
    <2>1. renderNotified' = (renderNotified \/ requested)
      BY <1>4 DEF Flushes
    <2>2. renderNotified' \in BOOLEAN
      BY <2>1, Zenon
    <2>3. /\ UNCHANGED <<ctx, waiting, mainNotified, lock, shown, owed>>
          /\ pc' = "away" /\ requested' = FALSE /\ hops' = 0
      BY <1>4 DEF Flushes
    <2>4. 0 \in 0 .. MaxHops
      BY ActivityAssumption
    <2>. QED  BY <2>2, <2>3, <2>4
  <1>. QED  BY <1>1, <1>2, <1>3, <1>4, <1>5 DEF Manager

\* The manager keeps its types, and however activities are pushed, dropped,
\* replaced and popped none ever lives in two places: the unique_ptr of one is
\* never left behind where another owns it (ActivityManager.cpp:101-174).
THEOREM TypesKept == Spec => []ActivityTypeOK
  <1>1. Init => Control /\ Flags
    <2>1. 0 \in 0 .. MaxHops
      BY ActivityAssumption
    <2>2. ASSUME Init PROVE Flags
      BY <2>2 DEF Init, Flags
    <2>3. ASSUME Init PROVE Control
      BY <2>1, <2>3 DEF Init, Control
    <2>. QED  BY <2>2, <2>3
  <1>2. Control /\ Flags /\ UNCHANGED vars => Control' /\ Flags'
    BY DEF Control, Flags, vars, screens, mainTask, signals, renderTask, ghosts
  <1>3. Control /\ Flags /\ [Next]_vars => Control' /\ Flags'
    BY <1>2, RenderKeepsTypes, CodeKeepsTypes, ManagerKeepsTypes DEF Next
  <1>4. ASSUME ResultInv, Control, Flags PROVE ActivityTypeOK
    <2>1. stack \in Seq(Activity) /\ DOMAIN stack = Index
      BY <1>4, LenProperties DEF ResultInv, ManagerInv, Screens, Index
    <2>2. IsInjective(stack)
      BY <1>4, <2>1 DEF ResultInv, Apart, IsInjective
    <2>3. ToSet(stack) \cap {current, pending} = {}
      BY <1>4, <2>1 DEF ResultInv, Apart, ToSet
    <2>4. pending = current => current = None
      BY <1>4 DEF ResultInv, Apart
    <2>5. /\ rpc \in {"idle", "locking", "drawing", "drawn", "told"}
          /\ drawing \in Activity \cup {None}
      BY <1>4 DEF ResultInv, ManagerInv, Screens, Rounds
    <2>6. handler \in [Activity -> Activity \cup {None}]
      BY <1>4 DEF ResultInv, Apart
    <2>. QED
      BY <1>4, <2>2, <2>3, <2>4, <2>5, <2>6
      DEF ActivityTypeOK, ResultInv, ManagerInv, Screens, Control, Flags
  <1>. QED  BY <1>1, <1>3, <1>4, ResultInvariant, PTL DEF Spec
=============================================================================
