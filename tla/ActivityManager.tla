--------------------------- MODULE ActivityManager ---------------------------
(***************************************************************************)
(* ActivityManager (src/activities): the main task runs the activity on    *)
(* screen and swaps activities; a render task of its own draws.  They meet *)
(* at one mutex, the render lock, and at two task notifications.           *)
(*                                                                         *)
(* The main task's code inside an activity - loop(), onEnter() or the      *)
(* handler of a child's result - is taken apart: between its calls of the  *)
(* manager the render task may do anything.  What a swap does under the    *)
(* lock is one step, and so is what happens between two FreeRTOS calls.    *)
(* A notification value is only asked whether it is zero, and is a flag.   *)
(***************************************************************************)
EXTENDS Integers, Sequences, FiniteSets, FiniteSetsExt, SequencesExt

CONSTANTS
  Activity,   \* the activities that may live at the same time
  MaxHops     \* bound: navigations of a pass by activities just entered or resumed

ASSUME ActivityAssumption ==
  /\ Activity \subseteq Nat \ {0} /\ Activity # {} /\ IsFiniteSet(Activity)
  /\ MaxHops \in Nat

None == 0

VARIABLES
  current, stack, pending, action,  \* the activities, and what loop() is to do
  handler,                          \* handler[a]: the child whose result a waits for
  pc, ctx, hops,                    \* the main task, and in whose code it is
  requested, waiting,               \* requestedUpdate, waitingTaskHandle
  renderNotified, mainNotified,     \* the notification values
  lock, rpc, drawing,               \* the render lock and the render task
  shown, owed                       \* what the properties look at

screens == <<current, stack, pending, action, handler>>
mainTask == <<pc, ctx, hops>>
signals == <<requested, waiting, renderNotified, mainNotified>>
renderTask == <<lock, rpc, drawing>>
ghosts == <<shown, owed>>
vars == <<screens, mainTask, signals, renderTask, ghosts>>

Alive == ToSet(stack) \cup ({current, pending} \ {None})
New == Min(Activity \ Alive)
CanMake == Activity \ Alive # {}
-----------------------------------------------------------------------------
(* The render task: renderTaskLoop().                                      *)

Wakes ==
  /\ rpc = "idle" /\ renderNotified
  /\ renderNotified' = FALSE
  /\ rpc' = "locking"
  /\ UNCHANGED <<screens, mainTask, requested, waiting, mainNotified, lock, drawing, ghosts>>

\* Takes the lock before it looks at the current activity.
StartsDrawing ==
  /\ rpc = "locking" /\ lock = "none"
  /\ lock' = "render"
  /\ rpc' = "drawing"
  /\ drawing' = current
  /\ shown' = IF current = None THEN shown
              ELSE CASE shown = "stale" -> "drawing"
                     [] shown = "raced" -> "redrawing"
                     [] OTHER -> shown
  /\ owed' = IF current # None THEN FALSE ELSE owed
  /\ UNCHANGED <<screens, mainTask, signals>>

\* Released early, the main task could change the screen before it is told.
UnlockBeforeWaking == "none"

\* The lock handed to render() is released only at the end of the round.
LockAfterDrawing == lock

EndsDrawing ==
  /\ rpc = "drawing"
  /\ rpc' = "drawn"
  /\ drawing' = None
  /\ lock' = LockAfterDrawing
  /\ shown' = IF shown \in {"drawing", "redrawing"} THEN "fresh" ELSE shown
  /\ UNCHANGED <<screens, mainTask, signals, owed>>

\* Notifications taken at the end of a round would include new ones.
WakeWaiterDroppingRequests ==
  /\ waiting' = FALSE
  /\ mainNotified' = (mainNotified \/ waiting)
  /\ renderNotified' = FALSE
  /\ UNCHANGED requested

WakeWaiter ==
  /\ waiting' = FALSE
  /\ mainNotified' = (mainNotified \/ waiting)
  /\ UNCHANGED <<requested, renderNotified>>

TellsWaiter ==
  /\ rpc = "drawn"
  /\ rpc' = "told"
  /\ WakeWaiter
  /\ UNCHANGED <<screens, mainTask, lock, drawing, ghosts>>

Unlocks ==
  /\ rpc = "told"
  /\ rpc' = "idle"
  /\ lock' = IF lock = "render" THEN "none" ELSE lock
  /\ UNCHANGED <<screens, mainTask, signals, drawing, ghosts>>

RenderStep == Wakes \/ StartsDrawing \/ EndsDrawing \/ TellsWaiter \/ Unlocks
-----------------------------------------------------------------------------
(* The code of an activity, on the main task.                              *)

InCode == pc = "code"
Unmoved == UNCHANGED <<pc, ctx, hops>>

\* RenderLock lock; ... }
WantsLock ==
  /\ InCode /\ lock # "main" /\ pc' = "locking"
  /\ UNCHANGED <<screens, ctx, hops, signals, renderTask, ghosts>>
GetsLock ==
  /\ pc = "locking" /\ lock = "none"
  /\ lock' = "main" /\ pc' = "code"
  /\ UNCHANGED <<screens, ctx, hops, signals, rpc, drawing, ghosts>>
DropsLock ==
  /\ InCode /\ lock = "main" /\ lock' = "none"
  /\ UNCHANGED <<screens, mainTask, signals, rpc, drawing, ghosts>>

\* The activity changes something render() reads, with the lock or without: a
\* change made without it may fall into a round that does not show it, and that
\* has yet to wake its waiter.
Changes ==
  /\ InCode
  /\ shown' = IF lock # "main" /\ rpc \in {"drawing", "drawn"} THEN "raced" ELSE "stale"
  /\ UNCHANGED <<screens, mainTask, signals, renderTask, owed>>

\* requestUpdate(), deferred and immediate
Defers ==
  /\ InCode /\ requested' = TRUE /\ owed' = TRUE
  /\ UNCHANGED <<screens, mainTask, waiting, renderNotified, mainNotified, renderTask, shown>>
Requests ==
  /\ InCode /\ renderNotified' = TRUE /\ owed' = TRUE
  /\ UNCHANGED <<screens, mainTask, requested, waiting, mainNotified, renderTask, shown>>

\* requestUpdateAndWait(): asserts that the caller does not hold the lock.
Registers ==
  /\ InCode /\ lock # "main" /\ ~waiting
  /\ waiting' = TRUE
  /\ pc' = "registered"
  /\ UNCHANGED <<screens, ctx, hops, requested, renderNotified, mainNotified, renderTask, ghosts>>
Notifies ==
  /\ pc = "registered"
  /\ renderNotified' = TRUE /\ owed' = TRUE
  /\ pc' = "waiting"
  /\ UNCHANGED <<screens, ctx, hops, requested, waiting, mainNotified, renderTask, shown>>
Resumes ==
  /\ pc = "waiting" /\ mainNotified
  /\ mainNotified' = FALSE
  /\ pc' = "code"
  /\ UNCHANGED <<screens, ctx, hops, requested, waiting, renderNotified, renderTask, ghosts>>

\* An activity in its loop() navigates at will, one being entered or resumed
\* at most MaxHops times in a pass.
MayNavigate == InCode /\ (ctx = "loop" \/ hops < MaxHops)
Navigated ==
  /\ hops' = IF ctx = "loop" THEN hops ELSE hops + 1
  /\ UNCHANGED <<pc, ctx, signals, renderTask, ghosts>>

\* pushActivity(), popActivity() and replaceActivity() drop what was pending.
Push(a) == pending' = a /\ action' = "Push"
Replace(a) == pending' = a /\ action' = "Replace"

PopOnly == action' = "Pop" /\ UNCHANGED pending

Pop == action' = "Pop" /\ pending' = None

StartsForResult ==
  /\ MayNavigate /\ CanMake
  /\ Push(New)
  /\ handler' = [handler EXCEPT ![current] = New]
  /\ Navigated /\ UNCHANGED <<current, stack>>
Finishes ==
  /\ MayNavigate /\ Pop
  /\ Navigated /\ UNCHANGED <<current, stack, handler>>
GoesTo ==
  /\ MayNavigate /\ CanMake
  /\ Replace(New)
  /\ Navigated /\ UNCHANGED <<current, stack, handler>>

\* The activity returns; resumed with a result it is drawn again, unless its
\* handler navigated on.
Returns ==
  /\ InCode /\ lock # "main"
  /\ pc' = "drain" /\ ctx' = "loop"
  /\ LET redraw == ctx = "handler" /\ action = "None" IN
     requested' = (requested \/ redraw) /\ owed' = (owed \/ redraw)
  /\ UNCHANGED <<screens, hops, waiting, renderNotified, mainNotified, renderTask, shown>>

ActivityCode ==
  \/ WantsLock \/ GetsLock \/ DropsLock \/ Changes \/ Defers \/ Requests
  \/ Registers \/ Notifies \/ Resumes
  \/ StartsForResult \/ Finishes \/ GoesTo \/ Returns
-----------------------------------------------------------------------------
(* The rest of the main task: main.cpp's loop() and ActivityManager::loop() *)

\* The battery icon: main.cpp asks for an update between two passes.
BatteryChanges ==
  /\ pc = "away"
  /\ requested' = TRUE /\ owed' = TRUE
  /\ UNCHANGED <<screens, mainTask, waiting, renderNotified, mainNotified, renderTask, shown>>

\* A gesture ends the pass at once; what it asks for waits for the next.
HomeGesture ==
  /\ pc = "away" /\ CanMake
  /\ Replace(New)
  /\ UNCHANGED <<current, stack, handler, mainTask, signals, renderTask, ghosts>>
PanelGesture ==
  /\ pc = "away" /\ CanMake
  /\ Push(New)
  /\ UNCHANGED <<current, stack, handler, mainTask, signals, renderTask, ghosts>>

RunsActivity ==
  /\ pc = "away"
  /\ pc' = "code"
  /\ UNCHANGED <<screens, ctx, hops, signals, renderTask, ghosts>>

\* A swap would destroy what is being drawn.
SwapAnyTime == lock # "main"

\* A swap takes the render lock.
MaySwap == lock = "none"

NewScreen == shown' = "stale" /\ owed' = FALSE

HandlerKept(a) == handler

\* Moved out before the call, as a handler may start another child.
HandlerTaken(a) == [handler EXCEPT ![a] = None]

\* The lock is not recursive: a handler that takes it would wait for itself.
LockInHandlerHeld == "manager"

\* Released before the handler is called.
LockInHandler == "none"

\* Pop with something below: its handler, if it waits for one, gets the result.
Pops ==
  LET below == Last(stack) IN
  /\ pc = "drain" /\ action = "Pop" /\ stack # <<>> /\ MaySwap
  /\ current' = below /\ stack' = Front(stack) /\ action' = "None"
  /\ shown' = "stale"
  /\ handler' = [HandlerTaken(below) EXCEPT ![current] = None]
  /\ IF handler[below] # None
       THEN /\ pc' = "code" /\ ctx' = "handler" /\ lock' = LockInHandler
            /\ owed' = FALSE
            /\ UNCHANGED requested
       ELSE /\ requested' = TRUE /\ owed' = TRUE
            /\ UNCHANGED <<pc, ctx, lock>>
  /\ UNCHANGED <<pending, hops, waiting, renderNotified, mainNotified, rpc, drawing>>

\* Pop of the last one: no activity at all, until goHome() launches one at once.
PopsLast ==
  /\ pc = "drain" /\ action = "Pop" /\ stack = <<>> /\ MaySwap
  /\ current' = None /\ action' = "None"
  /\ handler' = HandlerTaken(current)
  /\ NewScreen
  /\ pc' = "orphan"
  /\ UNCHANGED <<stack, pending, ctx, hops, signals, renderTask>>
\* A round of the render task that found no activity may still wake a waiter of
\* Home, so what Home looks like at first is not counted as a change to show.
LaunchesHome ==
  /\ pc = "orphan"
  /\ current' = New
  /\ shown' = "fresh"
  /\ pc' = "code" /\ ctx' = "enter"
  /\ UNCHANGED <<stack, pending, action, handler, hops, signals, renderTask, owed>>

\* Left behind, it would be owned twice.
Copied == pending

\* std::move leaves nothing pending.
Moved == None

\* Push keeps what is on screen, Replace destroys it and all below; then
\* onEnter() of the new one, without the lock.
Launches ==
  /\ pc = "drain" /\ action \in {"Push", "Replace"} /\ pending # None /\ MaySwap
  /\ current' = pending /\ pending' = Moved /\ action' = "None"
  /\ IF action = "Push"
       THEN stack' = Append(stack, current) /\ UNCHANGED handler
       ELSE stack' = <<>> /\ handler' = [a \in Activity |-> None]
  /\ NewScreen
  /\ pc' = "code" /\ ctx' = "enter"
  /\ UNCHANGED <<hops, signals, renderTask>>

\* Nothing left to do: the deferred requests of the pass become one.
Flushes ==
  /\ pc = "drain" /\ action = "None"
  /\ renderNotified' = (renderNotified \/ requested)
  /\ requested' = FALSE
  /\ pc' = "away" /\ hops' = 0
  /\ UNCHANGED <<screens, ctx, waiting, mainNotified, renderTask, ghosts>>

Manager ==
  \/ BatteryChanges \/ HomeGesture \/ PanelGesture \/ RunsActivity
  \/ Pops \/ PopsLast \/ LaunchesHome \/ Launches \/ Flushes
-----------------------------------------------------------------------------
\* After setup(): the first activity has been entered and waits to be drawn.
Init ==
  /\ current = Min(Activity) /\ stack = <<>> /\ pending = None /\ action = "None"
  /\ handler = [a \in Activity |-> None]
  /\ pc = "away" /\ ctx = "loop" /\ hops = 0
  /\ requested \in BOOLEAN /\ owed = requested
  /\ waiting = FALSE /\ renderNotified = FALSE /\ mainNotified = FALSE
  /\ lock = "none" /\ rpc = "idle" /\ drawing = None
  /\ shown = "stale"

Next == RenderStep \/ ActivityCode \/ Manager

Spec == Init /\ [][Next]_vars

\* Both tasks run, and render() returns.  The pass ends with a delay in which
\* the lock is free, so a task that wants it gets it: strong fairness.  An
\* activity gives the lock back and returns, and a player is not for ever
\* making gestures.
RenderRuns == Wakes \/ EndsDrawing \/ TellsWaiter \/ Unlocks
MainRuns == DropsLock \/ Notifies \/ Resumes \/ LaunchesHome \/ Flushes \/ RunsActivity
LockTaken == GetsLock \/ Pops \/ PopsLast \/ Launches

Fairness ==
  /\ WF_vars(RenderRuns) /\ SF_vars(StartsDrawing)
  /\ WF_vars(MainRuns) /\ SF_vars(LockTaken) /\ SF_vars(Returns)

FairSpec == Spec /\ Fairness
-----------------------------------------------------------------------------
(* Properties.                                                             *)

\* Types, and that no activity lives in two places, to be deleted twice.
ActivityTypeOK ==
  /\ current \in Activity \cup {None} /\ pending \in Activity \cup {None}
  /\ stack \in Seq(Activity) /\ action \in {"None", "Push", "Pop", "Replace"}
  /\ handler \in [Activity -> Activity \cup {None}]
  /\ pc \in {"away", "code", "locking", "registered", "waiting", "drain", "orphan"}
  /\ ctx \in {"loop", "enter", "handler"} /\ hops \in 0..MaxHops
  /\ {requested, waiting, renderNotified, mainNotified, owed} \subseteq BOOLEAN
  /\ lock \in {"none", "main", "manager", "render"}
  /\ rpc \in {"idle", "locking", "drawing", "drawn", "told"}
  /\ drawing \in Activity \cup {None} /\ shown \in {"stale", "raced", "drawing", "redrawing", "fresh"}
  /\ IsInjective(stack) /\ ToSet(stack) \cap {current, pending} = {}
  /\ pending = current => current = None

\* The activity being drawn is the one on screen: none is destroyed, or covered
\* by another, in the middle of its render() (ActivityManager.cpp:55-56).
DrawnIsAlive == drawing # None => drawing = current

\* A result handler is called with the result of the very child it was given
\* for, whatever was pushed, dropped or replaced in between: what an activity
\* waits for lies right above it, or is about to
\* (Activity.h:73-82, ActivityManager.cpp:128-135).
Above(i) == (stack \o <<current>>)[i + 1]
ResultIsAwaited ==
  /\ \A i \in 1 .. Len(stack) : handler[stack[i]] \in {None, Above(i)}
  /\ current # None /\ action \in {"None", "Push"} => handler[current] \in {None, pending}

\* What loop() is to do is complete: an activity waits exactly for a push or a
\* replacement, so the drain neither spins nor forgets one
\* (ActivityManager.cpp:101-174, 279-296).
PendingIsWhole == (pending # None) <=> (action \in {"Push", "Replace"})

\* requestUpdateAndWait() returns over a screen that shows every change made
\* under the lock before it, and every other but one that fell into a round
\* already begun: never over one that no round was drawing
\* (ActivityManager.cpp:336-360, ActivityManager.h:120).
Resumed == pc = "waiting" /\ pc' = "code"
WaitShowsChange == [][Resumed => shown \in {"fresh", "raced", "redrawing"}]_vars

\* It is for "when you need the screen to reflect new state before proceeding"
\* (docs/activity-manager.md:215).
WaitReflectsState == [][Resumed => shown = "fresh"]_vars

\* No pass hangs: a waiter is woken, and no handler, onEnter() or swap waits
\* for a lock its own task holds (ActivityManager.cpp:120, 132, 167).
PassEnds == (pc # "away") ~> (pc = "away")

\* What asked to be drawn is drawn, unless another activity takes the screen:
\* no request is lost between the flag, the notification and a render already
\* running (ActivityManager.cpp:52-55, 176-182).
RequestIsDrawn == owed ~> ~owed
=============================================================================
