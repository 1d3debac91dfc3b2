------------------------------- MODULE Gesture -------------------------------
(***************************************************************************)
(* GestureRecognizer (input/gesture.go): touch events become mouse events. *)
(*                                                                         *)
(* Two kinds of threads run it: the goroutine that reads the touch         *)
(* connection calls HandleEvent, which takes the mutex for the state and   *)
(* calls the handler after giving it back; the callbacks of the long-press *)
(* and of the tap timer hold the mutex while they call the handler.        *)
(* Stopping a timer that has fired does not stop its callback, which may   *)
(* be waiting for the mutex.                                               *)
(*                                                                         *)
(* The client sends one Down and one Up for a finger, but its queue of     *)
(* touches drops what it has no room for (touchChannel.trySend), so any    *)
(* event may be missing: a finger that is down may come down again, and    *)
(* the Up may come of a finger that is not down, a stray Up.               *)
(*                                                                         *)
(* Coordinates are abstracted: a move goes beyond the drag threshold or    *)
(* not, a scroll has a delta or not.  A touch begins whenever handleDown   *)
(* finds a single finger on the screen, also with the Down of a finger     *)
(* whose Up was lost.  Long-press timers are numbered by the touch, tap    *)
(* timers by the tap they belong to, 0 stands for a nil timer.             *)
(***************************************************************************)
EXTENDS Naturals, Sequences, FiniteSets

CONSTANTS
    Pointers,      \* pointer ids of the touch screen
    MaxTouches,    \* bound: touches
    MaxFingers,    \* bound: Downs, all touches together
    MaxStrays      \* bound: stray Ups, one in a touch

ASSUME GestureAssumption ==
    /\ IsFiniteSet(Pointers)
    /\ {MaxTouches, MaxFingers, MaxStrays} \subseteq Nat

VARIABLES
    state,             \* the gestureState
    pointers,          \* keys of gr.pointers: the fingers on the screen
    longPressTimer,    \* the timer gr.longPressTimer points to
    tapTimer,          \* the timer gr.tapTimer points to
    tapPending,
    armed,             \* timers that run
    fired,             \* callbacks that wait for the mutex
    unlocked,          \* mouse events HandleEvent has still to hand over
    locked,            \* mouse events a callback has still to hand over,
                       \* with the mutex
    closed,            \* Close was called
    \* What the properties speak of.
    touches, fingers,  \* touches begun, Downs
    outcome,           \* what each touch has become
    strays,            \* touches with a stray Up
    overtaken,         \* touches whose long-press callback was waiting for
                       \* the mutex when the next touch began
    taps, drags,       \* taps, drags begun
    leftDowns,         \* left button presses handed over
    leftButton,        \* the button as the handler left it
    cutDrag            \* a Down came during a drag, and no tap or end of a
                       \* drag since

timerVars   == <<longPressTimer, tapTimer, armed, fired>>
gestureVars == <<state, pointers, tapPending, timerVars>>
outputVars  == <<unlocked, locked, leftDowns, leftButton>>
countVars   == <<touches, fingers, outcome, strays, overtaken, taps, drags, cutDrag>>
vars == <<gestureVars, outputVars, countVars, closed>>

States == {"idle", "oneDown", "dragging", "twoDown", "scrolling", "longPress"}
Actions == {"move", "leftDown", "leftUp", "leftDragged", "rightDown", "rightUp", "scroll"}
Touches == 1 .. MaxTouches
Outcomes == {"tap", "drag", "rightClick"}
Timers == ({"longPress"} \X Touches) \cup ({"tap"} \X Nat)

TypeOK ==
    /\ state \in States
    /\ pointers \subseteq Pointers
    /\ longPressTimer \in 0 .. MaxTouches /\ tapTimer \in Nat
    /\ tapPending \in BOOLEAN /\ closed \in BOOLEAN
    /\ armed \subseteq Timers /\ fired \subseteq Timers
    /\ unlocked \in Seq(Actions) /\ Len(unlocked) <= 5
    /\ locked \in Seq(Actions) /\ Len(locked) <= 3
    /\ outcome \in [Touches -> SUBSET Outcomes]
    /\ strays \subseteq Touches /\ overtaken \subseteq Touches
    /\ leftButton \in {"up", "down"}
    /\ state = "idle" <=> pointers = {}
    /\ state \in {"oneDown", "dragging"} => Cardinality(pointers) = 1

Init ==
    /\ state = "idle" /\ pointers = {} /\ tapPending = FALSE
    /\ longPressTimer = 0 /\ tapTimer = 0 /\ armed = {} /\ fired = {}
    /\ unlocked = <<>> /\ locked = <<>> /\ leftDowns = 0 /\ leftButton = "up"
    /\ touches = 0 /\ fingers = 0 /\ taps = 0 /\ drags = 0
    /\ outcome = [touch \in Touches |-> {}] /\ strays = {} /\ overtaken = {}
    /\ cutDrag = FALSE
    /\ closed = FALSE

-----------------------------------------------------------------------------
(* HandleEvent: the touch goroutine is back from the last event and gets   *)
(* the mutex.                                                              *)

MutexFree == locked = <<>>
EventArrives == unlocked = <<>> /\ MutexFree

(* time.AfterFunc.  The timer it replaces goes on if nobody stopped it.    *)
AfterFunc(running, kind, number) == running \cup {<<kind, number>>}

LongPressRunning == {<<"longPress", longPressTimer>>}
TapRunning == {<<"tap", tapTimer>>}

TapTimerAtDown == IF tapPending THEN TapRunning ELSE {}

ArmOnce(touch) ==
    IF longPressTimer = 0 THEN AfterFunc(armed \ TapTimerAtDown, "longPress", touch)
    ELSE armed \ TapTimerAtDown
ArmLongPress(touch) == AfterFunc(armed \ TapTimerAtDown, "longPress", touch)

(* A callback that waits for the mutex is not stopped, and the timer of a  *)
(* touch whose Up was lost is not even told to stop.                       *)
FirstFingerDown(p) ==
    /\ pointers \subseteq {p} /\ touches < MaxTouches
    /\ pointers' = {p} /\ state' = "oneDown"
    /\ touches' = touches + 1
    /\ armed' = ArmLongPress(touches')
    /\ longPressTimer' = touches'
    /\ overtaken' = overtaken \cup {touch \in Touches : <<"longPress", touch>> \in fired}

NextFingerDown(p) ==
    /\ pointers \ {p} # {}
    /\ pointers' = pointers \cup {p} /\ state' = "twoDown"
    /\ armed' = armed \ LongPressRunning
    /\ UNCHANGED <<touches, overtaken, longPressTimer>>

HandleDown(p) ==
    /\ EventArrives /\ fingers < MaxFingers
    /\ fingers' = fingers + 1
    /\ FirstFingerDown(p) \/ NextFingerDown(p)
    /\ cutDrag' = (cutDrag \/ state = "dragging")
    /\ UNCHANGED <<tapPending, tapTimer, fired, outputVars, outcome, strays, taps, drags, closed>>

(* The present touch becomes a tap or a drag.                              *)
Becomes(end) == outcome' = [outcome EXCEPT ![touches] = @ \cup {end}]

(* A move of the only finger: within the threshold it moves the cursor,    *)
(* beyond it a drag begins.                                                *)
Hover ==
    /\ state = "oneDown"
    /\ unlocked' = <<"move">>
    /\ UNCHANGED <<state, armed, outcome, drags>>

BeginDrag ==
    /\ state = "oneDown"
    /\ armed' = armed \ LongPressRunning
    /\ state' = "dragging"
    /\ unlocked' = <<"leftDown", "leftDragged">>
    /\ Becomes("drag") /\ drags' = drags + 1

Drag ==
    /\ state = "dragging"
    /\ unlocked' = <<"leftDragged">>
    /\ UNCHANGED <<state, armed, outcome, drags>>

Scroll(delta) ==
    /\ state \in {"twoDown", "scrolling"}
    /\ state' = "scrolling"
    /\ unlocked' = IF delta THEN <<"scroll">> ELSE <<>>
    /\ UNCHANGED <<armed, outcome, drags>>

HandleMove ==
    /\ EventArrives /\ pointers # {}
    /\ Hover \/ BeginDrag \/ Drag \/ \E delta \in BOOLEAN : Scroll(delta)
    /\ UNCHANGED <<pointers, tapPending, longPressTimer, tapTimer, fired, locked, leftDowns,
                   leftButton, touches, fingers, strays, overtaken, taps, cutDrag, closed>>

(* Up: the second of two taps is a double click; the first one waits.      *)
DoubleClick == <<"move", "leftDown", "leftUp", "leftDown", "leftUp">>

SecondTap ==
    /\ state = "oneDown" /\ tapPending
    /\ armed' = armed \ LongPressRunning
    /\ tapPending' = FALSE
    /\ unlocked' = DoubleClick
    /\ Becomes("tap") /\ taps' = taps + 1 /\ cutDrag' = FALSE
    /\ UNCHANGED tapTimer

FirstTap ==
    /\ state = "oneDown" /\ ~tapPending
    /\ Becomes("tap") /\ taps' = taps + 1 /\ cutDrag' = FALSE
    /\ armed' = AfterFunc(armed \ LongPressRunning, "tap", taps')
    /\ tapPending' = TRUE /\ tapTimer' = taps'
    /\ UNCHANGED unlocked

NoLeftUp == <<>>
DragEnd == <<"leftUp">>

EndDrag ==
    /\ state = "dragging"
    /\ unlocked' = DragEnd
    /\ cutDrag' = FALSE
    /\ UNCHANGED <<armed, tapPending, tapTimer, outcome, taps>>

LiftFinger ==
    /\ state \in {"longPress", "scrolling", "twoDown"}
    /\ UNCHANGED <<armed, tapPending, tapTimer, unlocked, outcome, taps, cutDrag>>

StateAfterUp(p) == state
IdleAfterUp(p) == IF pointers \ {p} = {} THEN "idle" ELSE state

(* A stray Up does what the Up of a finger does in this state, and the     *)
(* fingers stay; without fingers it does nothing.                          *)
StrayUp(p) ==
    /\ p \notin pointers /\ pointers # {}
    /\ touches \notin strays /\ Cardinality(strays) < MaxStrays
    /\ strays' = strays \cup {touches}

HandleUp(p) ==
    /\ EventArrives
    /\ (p \in pointers /\ UNCHANGED strays) \/ StrayUp(p)
    /\ pointers' = pointers \ {p}
    /\ SecondTap \/ FirstTap \/ EndDrag \/ LiftFinger
    /\ state' = IdleAfterUp(p)
    /\ UNCHANGED <<longPressTimer, fired, locked, leftDowns, leftButton, touches, fingers,
                   overtaken, drags, closed>>

-----------------------------------------------------------------------------
(* The timers and their callbacks.                                         *)

TimerFires(t) ==
    /\ t \in armed
    /\ armed' = armed \ {t} /\ fired' = fired \cup {t}
    /\ UNCHANGED <<state, pointers, tapPending, longPressTimer, tapTimer, outputVars,
                   countVars, closed>>

AnyState == TRUE
StillOneDown == state = "oneDown"

(* The right click comes where this timer's touch came down.               *)
LongPressCallback(touch) ==
    /\ MutexFree /\ <<"longPress", touch>> \in fired
    /\ fired' = fired \ {<<"longPress", touch>>}
    /\ IF StillOneDown
       THEN /\ state' = "longPress"
            /\ locked' = <<"rightDown", "rightUp">>
            /\ outcome' = [outcome EXCEPT ![touch] = @ \cup {"rightClick"}]
       ELSE UNCHANGED <<state, locked, outcome>>
    /\ UNCHANGED <<pointers, tapPending, longPressTimer, tapTimer, armed, unlocked, leftDowns,
                   leftButton, touches, fingers, strays, overtaken, taps, drags, cutDrag, closed>>

AnyTap == TRUE
StillPending == tapPending

TapCallback(tap) ==
    /\ MutexFree /\ <<"tap", tap>> \in fired
    /\ fired' = fired \ {<<"tap", tap>>}
    /\ tapPending' = FALSE
    /\ locked' = IF StillPending THEN <<"move", "leftDown", "leftUp">> ELSE <<>>
    /\ UNCHANGED <<state, pointers, longPressTimer, tapTimer, armed, unlocked, leftDowns,
                   leftButton, countVars, closed>>

(* The handler presses and releases the button.                            *)
Handle(action) ==
    /\ leftDowns' = IF action = "leftDown" THEN leftDowns + 1 ELSE leftDowns
    /\ leftButton' = CASE action = "leftDown" -> "down"
                       [] action = "leftUp" -> "up"
                       [] OTHER -> leftButton

HandOver ==
    /\ unlocked # <<>>
    /\ Handle(Head(unlocked)) /\ unlocked' = Tail(unlocked)
    /\ UNCHANGED <<gestureVars, locked, countVars, closed>>

HandOverLocked ==
    /\ locked # <<>>
    /\ Handle(Head(locked)) /\ locked' = Tail(locked)
    /\ UNCHANGED <<gestureVars, unlocked, countVars, closed>>

Close ==
    /\ MutexFree /\ ~closed
    /\ closed' = TRUE
    /\ armed' = armed \ (LongPressRunning \cup TapRunning)
    /\ UNCHANGED <<state, pointers, tapPending, longPressTimer, tapTimer, fired, outputVars,
                   countVars>>

-----------------------------------------------------------------------------
Firing == \E t \in armed : TimerFires(t)
Callbacks ==
    \/ \E touch \in Touches : LongPressCallback(touch)
    \/ \E tap \in 1 .. taps : TapCallback(tap)

Next ==
    \/ \E p \in Pointers : HandleDown(p) \/ HandleUp(p)
    \/ HandleMove
    \/ Firing
    \/ Callbacks
    \/ HandOver \/ HandOverLocked
    \/ Close

(* The runtime fires every running timer, a mutex makes nobody wait for    *)
(* ever, and the handler returns; the user owes nothing.                   *)
Fairness ==
    /\ WF_vars(Firing)
    /\ SF_vars(Callbacks)
    /\ WF_vars(HandOver) /\ WF_vars(HandOverLocked)

Spec == Init /\ [][Next]_vars
FairSpec == Spec /\ Fairness

-----------------------------------------------------------------------------
(* Safety.                                                                 *)

QueuedPresses(queue) == Cardinality({k \in DOMAIN queue : queue[k] = "leftDown"})

(* Whatever timers fire when, every tap presses the left button once and   *)
(* every drag once: no click is lost or given twice because a stopped      *)
(* timer's callback was already waiting.  (When the click of a pending tap *)
(* comes is another question.)                                             *)
EveryTapOwnsOneClick ==
    leftDowns + QueuedPresses(unlocked) + QueuedPresses(locked)
        + (IF tapPending THEN 1 ELSE 0) = taps + drags

(* A touch is a tap, a drag or a long press, never two of them, although   *)
(* its timer may fire while the Up or the Move that stops it is handled;   *)
(* but for a touch whose callback had to wait until the next touch began   *)
(* (it right-clicks then if that is a single finger, wherever its own      *)
(* touch ended as), and for one with a stray Up (a tap whose finger is     *)
(* still down).                                                            *)
OneOutcomePerTouch ==
    \A touch \in Touches \ (overtaken \cup strays) : Cardinality(outcome[touch]) <= 1

(* A left button that is down when all fingers are up, every mouse event   *)
(* is handed over and no click is pending was left behind by a drag that   *)
(* a Down cut off, of a second finger or of the first one again: then the  *)
(* state is twoDown or oneDown, and the Up does not release the button.    *)
(* The next tap or the end of the next drag does.                          *)
AtRest == pointers = {} /\ unlocked = <<>> /\ locked = <<>>
ButtonUpAtRest == AtRest /\ ~tapPending /\ leftButton = "down" => cutDrag

(* Progress.                                                               *)

(* A single finger held still ends as a long press, touch after touch and  *)
(* with any callback of an earlier touch still waiting; a stray Up stops   *)
(* the timer of the finger that is down.                                   *)
HeldFingerResolves ==
    state = "oneDown" /\ ~closed ~> state # "oneDown" \/ closed \/ touches \in strays

=============================================================================
