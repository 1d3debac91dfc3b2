---------------------------- MODULE Gesture_proofs ----------------------------
(***************************************************************************)
(* The safety of the gesture recognizer, for any set of pointers and any   *)
(* number of touches and fingers.                                          *)
(***************************************************************************)
EXTENDS Gesture, SequenceTheorems, FiniteSetTheorems, TLAPS

-----------------------------------------------------------------------------
(* The inductive invariant.                                                *)

(* What is handed over: clicks, the start of a drag, and the rest, which   *)
(* does not touch the left button.                                         *)
SingleClicks == {<<"move", "leftDown", "leftUp">>, <<"leftDown", "leftUp">>, <<"leftUp">>}
Clicks ==
    {<<"move", "leftDown", "leftUp", "leftDown", "leftUp">>,
     <<"leftDown", "leftUp", "leftDown", "leftUp">>, <<"leftUp", "leftDown", "leftUp">>}
        \cup SingleClicks
DragStart == <<"leftDown", "leftDragged">>
Others ==
    {<<>>, <<"move">>, <<"leftDragged">>, <<"scroll">>, <<"rightDown", "rightUp">>,
     <<"rightUp">>}

(* Types, with the queues as above and the counters as numbers.            *)
StateTypes ==
    /\ state \in States /\ pointers \subseteq Pointers
    /\ tapPending \in BOOLEAN /\ closed \in BOOLEAN /\ cutDrag \in BOOLEAN
    /\ state = "idle" <=> pointers = {}
    /\ state \in {"oneDown", "dragging"} => \E p \in Pointers : pointers = {p}
TimerTypes ==
    /\ touches \in 0 .. MaxTouches /\ (pointers # {} => touches # 0)
    /\ longPressTimer = touches /\ tapTimer \in Nat /\ taps \in Nat
    /\ armed \subseteq Timers /\ fired \subseteq Timers
    /\ strays \subseteq Touches /\ overtaken \subseteq Touches
QueueTypes ==
    /\ unlocked \in Clicks \cup {DragStart} \cup Others
    /\ locked \in SingleClicks \cup Others
    /\ leftButton \in {"up", "down"}
    /\ {leftDowns, taps, drags} \subseteq Nat

(* The touches the property speaks of.                                     *)
Plain == Touches \ (overtaken \cup strays)
(* The long-press timer of a touch has been started and is not stopped, or *)
(* its callback waits for the mutex.                                       *)
Runs(touch) == <<"longPress", touch>> \in armed
Waits(touch) == <<"longPress", touch>> \in fired

(* A touch has an outcome when it is no longer a single finger at rest,    *)
(* and one only: while its timer runs it has none, and a callback that     *)
(* waits finds its touch without one, or the state not oneDown.            *)
OutcomeInv ==
    /\ outcome \in [Touches -> SUBSET Outcomes]
    /\ \A touch \in Touches :
          /\ touch > touches => outcome[touch] = {} /\ ~Waits(touch) /\ ~Runs(touch)
          /\ Runs(touch) => outcome[touch] = {} /\ ~Waits(touch)
    /\ \A touch \in Plain :
          /\ \A one, other \in outcome[touch] : one = other
          /\ Waits(touch) /\ touch < touches => outcome[touch] = {}
    /\ state = "oneDown" /\ touches \in Plain => outcome[touches] = {}

(* Outside a drag every press in a queue, or handed over, has its release  *)
(* after it in a queue or in the click that is pending.                    *)
ButtonInv ==
    state # "dragging" =>
        /\ unlocked # DragStart
        /\ ~cutDrag /\ leftButton = "down" =>
              unlocked \in Clicks \/ locked \in Clicks \/ tapPending

SafeInv ==
    /\ StateTypes /\ TimerTypes /\ QueueTypes /\ OutcomeInv /\ ButtonInv
    /\ EveryTapOwnsOneClick

-----------------------------------------------------------------------------
(* The steps.                                                              *)

(* A finger comes down, as the first one or as another one.                *)
Down(p) ==
    /\ EventArrives /\ fingers < MaxFingers
    /\ fingers' = fingers + 1
    /\ cutDrag' = (cutDrag \/ state = "dragging")
    /\ UNCHANGED <<tapPending, tapTimer, fired, outputVars, outcome, strays, taps, drags, closed>>
FirstDown(p) == Down(p) /\ FirstFingerDown(p)
NextDown(p) == Down(p) /\ NextFingerDown(p)

(* Every step is one of the ten, or changes nothing.                       *)
LEMMA StepCases ==
  ASSUME [Next]_vars
  PROVE  \/ \E p \in Pointers : FirstDown(p) \/ NextDown(p) \/ HandleUp(p)
         \/ \E t \in armed : TimerFires(t)
         \/ \E touch \in Touches : LongPressCallback(touch)
         \/ \E tap \in 1 .. taps : TapCallback(tap)
         \/ HandleMove \/ HandOver \/ HandOverLocked \/ Close \/ UNCHANGED vars
<1>1. ASSUME NEW p \in Pointers, HandleDown(p)
      PROVE  FirstDown(p) \/ NextDown(p)
  BY <1>1 DEF HandleDown, FirstDown, NextDown, Down
<1> QED
  BY <1>1 DEF Next, Callbacks, Firing

-----------------------------------------------------------------------------
(* The queues.                                                             *)

(* What the first action of a queue is, and what it leaves.                *)
LEMMA Handing ==
  /\ \A queue \in Clicks :
        /\ queue # <<>> /\ Tail(queue) \in Clicks \cup {<<>>}
        /\ Tail(queue) = <<>> => Head(queue) = "leftUp"
  /\ \A queue \in Others \ {<<>>} :
        Tail(queue) \in Others /\ Head(queue) \notin {"leftDown", "leftUp"}
  /\ Head(DragStart) = "leftDown" /\ Tail(DragStart) \in Others
  /\ DragStart # <<>> /\ DragStart \notin Clicks
  /\ \A queue \in SingleClicks : Tail(queue) \in SingleClicks \cup {<<>>}
  /\ \A queue \in Clicks \cup {DragStart} \cup Others : queue \in Seq(Actions) /\ Len(queue) <= 5
  /\ \A queue \in SingleClicks \cup Others : queue \in Seq(Actions) /\ Len(queue) <= 3
<1>1. /\ Tail(<<"move", "leftDown", "leftUp", "leftDown", "leftUp">>) =
            <<"leftDown", "leftUp", "leftDown", "leftUp">>
      /\ Tail(<<"leftDown", "leftUp", "leftDown", "leftUp">>) = <<"leftUp", "leftDown", "leftUp">>
      /\ Tail(<<"leftUp", "leftDown", "leftUp">>) = <<"leftDown", "leftUp">>
  OBVIOUS
<1>2. /\ Tail(<<"move", "leftDown", "leftUp">>) = <<"leftDown", "leftUp">>
      /\ Tail(<<"leftDown", "leftUp">>) = <<"leftUp">>
      /\ Tail(<<"leftUp">>) = <<>> /\ Head(<<"leftUp">>) = "leftUp"
  OBVIOUS
<1>3. /\ Tail(<<"move">>) = <<>> /\ Tail(<<"leftDragged">>) = <<>> /\ Tail(<<"scroll">>) = <<>>
      /\ Tail(<<"rightDown", "rightUp">>) = <<"rightUp">> /\ Tail(<<"rightUp">>) = <<>>
      /\ Head(<<"move">>) = "move" /\ Head(<<"leftDragged">>) = "leftDragged"
      /\ Head(<<"scroll">>) = "scroll" /\ Head(<<"rightDown", "rightUp">>) = "rightDown"
      /\ Head(<<"rightUp">>) = "rightUp"
  OBVIOUS
<1>4. \A queue \in Clicks :
         /\ queue # <<>> /\ Tail(queue) \in Clicks \cup {<<>>}
         /\ Tail(queue) = <<>> => Head(queue) = "leftUp"
  <2>1. \A queue \in Clicks : queue # <<>>
    <3>1. /\ <<"move", "leftDown", "leftUp", "leftDown", "leftUp">> # <<>>
          /\ <<"leftDown", "leftUp", "leftDown", "leftUp">> # <<>>
          /\ <<"leftUp", "leftDown", "leftUp">> # <<>>
      OBVIOUS
    <3>2. /\ <<"move", "leftDown", "leftUp">> # <<>> /\ <<"leftDown", "leftUp">> # <<>>
          /\ <<"leftUp">> # <<>>
      OBVIOUS
    <3> QED
      BY <3>1, <3>2, Zenon DEF Clicks, SingleClicks
  <2>2. <<>> \notin Clicks
    BY <2>1
  <2> QED
    BY <1>1, <1>2, <2>1, <2>2, Zenon DEF Clicks, SingleClicks
<1>5. \A queue \in Others \ {<<>>} :
         Tail(queue) \in Others /\ Head(queue) \notin {"leftDown", "leftUp"}
  BY <1>3 DEF Others
<1>6. /\ Head(DragStart) = "leftDown" /\ Tail(DragStart) \in Others
      /\ DragStart # <<>> /\ DragStart \notin Clicks
  BY DEF DragStart, Clicks, SingleClicks, Others
<1>7. \A queue \in Clicks : queue \in Seq(Actions) /\ Len(queue) <= 5
  <2>1. /\ <<"move", "leftDown", "leftUp", "leftDown", "leftUp">> \in Seq(Actions)
        /\ Len(<<"move", "leftDown", "leftUp", "leftDown", "leftUp">>) <= 5
    BY DEF Actions
  <2>2. /\ <<"leftDown", "leftUp", "leftDown", "leftUp">> \in Seq(Actions)
        /\ Len(<<"leftDown", "leftUp", "leftDown", "leftUp">>) <= 5
    BY DEF Actions
  <2>3. /\ <<"leftUp", "leftDown", "leftUp">> \in Seq(Actions)
        /\ Len(<<"leftUp", "leftDown", "leftUp">>) <= 5
    BY DEF Actions
  <2>4. /\ <<"move", "leftDown", "leftUp">> \in Seq(Actions)
        /\ Len(<<"move", "leftDown", "leftUp">>) <= 5
    BY DEF Actions
  <2>5. /\ <<"leftDown", "leftUp">> \in Seq(Actions) /\ Len(<<"leftDown", "leftUp">>) <= 5
        /\ <<"leftUp">> \in Seq(Actions) /\ Len(<<"leftUp">>) <= 5
    BY DEF Actions
  <2> QED
    BY <2>1, <2>2, <2>3, <2>4, <2>5, Zenon DEF Clicks, SingleClicks
<1>8. \A queue \in {DragStart} \cup Others : queue \in Seq(Actions) /\ Len(queue) <= 5
  <2>1. DragStart \in Seq(Actions) /\ Len(DragStart) <= 5
    BY DEF DragStart, Actions
  <2>2. <<>> \in Seq(Actions) /\ Len(<<>>) <= 5
    OBVIOUS
  <2>3. \A a \in Actions : <<a>> \in Seq(Actions) /\ Len(<<a>>) <= 5
    OBVIOUS
  <2>4. <<"rightDown", "rightUp">> \in Seq(Actions) /\ Len(<<"rightDown", "rightUp">>) <= 5
    BY DEF Actions
  <2>5. \A queue \in Others :
           queue = <<>> \/ queue = <<"rightDown", "rightUp">> \/ \E a \in Actions : queue = <<a>>
    BY DEF Others, Actions
  <2> QED
    BY <2>1, <2>2, <2>3, <2>4, <2>5, Zenon
<1>9. \A queue \in SingleClicks : Tail(queue) \in SingleClicks \cup {<<>>}
  BY <1>2, Zenon DEF SingleClicks
<1>10. \A queue \in SingleClicks \cup Others : Len(queue) <= 3
  <2>1. /\ Len(<<"move", "leftDown", "leftUp">>) = 3 /\ Len(<<"leftDown", "leftUp">>) = 2
        /\ Len(<<"rightDown", "rightUp">>) = 2 /\ Len(<<>>) = 0
        /\ \A a \in Actions : Len(<<a>>) = 1
    OBVIOUS
  <2>2. \A n \in {1, 2, 3, 0} : n <= 3
    OBVIOUS
  <2>3. \A queue \in SingleClicks \cup Others : Len(queue) \in {1, 2, 3, 0}
    <3>1. {"leftUp", "move", "leftDragged", "scroll", "rightUp"} \subseteq Actions
      BY DEF Actions
    <3> QED
      BY <2>1, <3>1, Zenon DEF SingleClicks, Others
  <2> QED
    BY <2>2, <2>3, Zenon
<1>11. SingleClicks \subseteq Clicks
  BY DEF Clicks
<1> QED
  BY <1>4, <1>5, <1>6, <1>7, <1>8, <1>9, <1>10, <1>11

(* Handing an action over takes it from the queue.                         *)
LEMMA Presses ==
  ASSUME NEW queue \in Seq(Actions)
  PROVE  /\ QueuedPresses(queue) \in Nat
         /\ queue # <<>> =>
               QueuedPresses(queue) =
                  QueuedPresses(Tail(queue)) + (IF Head(queue) = "leftDown" THEN 1 ELSE 0)
<1> DEFINE rest == Tail(queue)
           all == {k \in DOMAIN queue : queue[k] = "leftDown"}
           later == {k \in DOMAIN rest : rest[k] = "leftDown"}
           f == [k \in later |-> k + 1]
<1>1. Len(queue) \in Nat /\ DOMAIN queue = 1 .. Len(queue)
  BY LenProperties
<1>2. IsFiniteSet(all) /\ Cardinality(all) \in Nat
  <2>1. IsFiniteSet(1 .. Len(queue))
    BY <1>1, FS_Interval
  <2>2. all \in SUBSET (1 .. Len(queue))
    BY <1>1
  <2> QED
    BY <2>1, <2>2, FS_Subset, FS_CardinalityType
<1>3. ASSUME queue # <<>>
      PROVE  Cardinality(all) = Cardinality(later) + (IF Head(queue) = "leftDown" THEN 1 ELSE 0)
  <2>1. /\ Len(queue) \in Nat \ {0} /\ Head(queue) = queue[1]
        /\ DOMAIN rest = 1 .. Len(queue) - 1
        /\ \A k \in 1 .. Len(queue) - 1 : rest[k] = queue[k + 1]
    BY <1>3, HeadTailProperties, EmptySeq, LenProperties
  <2> HIDE DEF rest
  <2>2. f \in Bijection(later, all \ {1})
    <3>1. f \in [later -> all \ {1}]
      BY <1>1, <2>1
    <3>2. \A j, k \in later : f[j] = f[k] => j = k
      BY <1>1, <2>1
    <3>3. \A k \in all \ {1} : \E j \in later : f[j] = k
      <4> TAKE k \in all \ {1}
      <4>1. k - 1 \in later /\ f[k - 1] = k
        BY <1>1, <2>1
      <4> QED
        BY <4>1
    <3> QED
      BY <3>1, <3>2, <3>3 DEF Bijection, Injection, Surjection, IsInjective
  <2>3. IsFiniteSet(all \ {1}) /\ Cardinality(all \ {1}) = IF 1 \in all THEN Cardinality(all) - 1 ELSE Cardinality(all)
    BY <1>2, FS_RemoveElement
  <2>4. Cardinality(later) = Cardinality(all \ {1})
    <3>1. IsFiniteSet(later)
      <4>1. IsFiniteSet(1 .. Len(queue) - 1) /\ later \in SUBSET (1 .. Len(queue) - 1)
        BY <2>1, FS_Interval
      <4> QED
        BY <4>1, FS_Subset
    <3> QED
      BY <2>2, <3>1, FS_Bijection DEF ExistsBijection
  <2>5. 1 \in all <=> Head(queue) = "leftDown"
    BY <1>1, <2>1
  <2> HIDE DEF all, later
  <2> QED
    BY <1>2, <2>3, <2>4, <2>5
<1> QED
  BY <1>2, <1>3 DEF QueuedPresses

(* The presses of the queues the actions make.                             *)
LEMMA NewQueues ==
  /\ QueuedPresses(<<>>) = 0 /\ QueuedPresses(<<"move">>) = 0
  /\ QueuedPresses(<<"leftDragged">>) = 0 /\ QueuedPresses(<<"scroll">>) = 0
  /\ QueuedPresses(<<"leftUp">>) = 0 /\ QueuedPresses(<<"rightDown", "rightUp">>) = 0
  /\ QueuedPresses(<<"leftDown", "leftDragged">>) = 1
  /\ QueuedPresses(<<"move", "leftDown", "leftUp">>) = 1
  /\ QueuedPresses(DoubleClick) = 2
<1>1. QueuedPresses(<<>>) = 0
  <2>1. {k \in DOMAIN <<>> : <<>>[k] = "leftDown"} = {}
    OBVIOUS
  <2> QED
    BY <2>1, FS_EmptySet DEF QueuedPresses
<1>2. ASSUME NEW a \in Actions
      PROVE  QueuedPresses(<<a>>) = IF a = "leftDown" THEN 1 ELSE 0
  <2>1. <<a>> \in Seq(Actions) /\ <<a>> # <<>> /\ Head(<<a>>) = a /\ Tail(<<a>>) = <<>>
    OBVIOUS
  <2>2. QueuedPresses(<<a>>) = QueuedPresses(<<>>) + (IF a = "leftDown" THEN 1 ELSE 0)
    BY <2>1, Presses
  <2> QED
    BY <1>1, <2>2
<1>3. ASSUME NEW a \in Actions, NEW b \in Actions
      PROVE  QueuedPresses(<<a, b>>) = QueuedPresses(<<b>>) + (IF a = "leftDown" THEN 1 ELSE 0)
  <2>1. <<a, b>> \in Seq(Actions) /\ <<a, b>> # <<>> /\ Head(<<a, b>>) = a /\ Tail(<<a, b>>) = <<b>>
    OBVIOUS
  <2> QED
    BY <2>1, Presses
<1>4. ASSUME NEW a \in Actions, NEW b \in Actions, NEW c \in Actions
      PROVE  QueuedPresses(<<a, b, c>>) = QueuedPresses(<<b, c>>) + (IF a = "leftDown" THEN 1 ELSE 0)
  <2>1. /\ <<a, b, c>> \in Seq(Actions) /\ <<a, b, c>> # <<>>
        /\ Head(<<a, b, c>>) = a /\ Tail(<<a, b, c>>) = <<b, c>>
    OBVIOUS
  <2> QED
    BY <2>1, Presses
<1>5. ASSUME NEW a \in Actions, NEW b \in Actions, NEW c \in Actions, NEW d \in Actions,
             NEW e \in Actions
      PROVE  QueuedPresses(<<a, b, c, d, e>>) =
                QueuedPresses(<<c, d, e>>) + (IF a = "leftDown" THEN 1 ELSE 0)
                                           + (IF b = "leftDown" THEN 1 ELSE 0)
  <2>1. /\ <<a, b, c, d, e>> \in Seq(Actions) /\ <<a, b, c, d, e>> # <<>>
        /\ Head(<<a, b, c, d, e>>) = a /\ Tail(<<a, b, c, d, e>>) = <<b, c, d, e>>
    OBVIOUS
  <2>2. /\ <<b, c, d, e>> \in Seq(Actions) /\ <<b, c, d, e>> # <<>>
        /\ Head(<<b, c, d, e>>) = b /\ Tail(<<b, c, d, e>>) = <<c, d, e>>
    OBVIOUS
  <2>3. QueuedPresses(<<b, c, d, e>>) = QueuedPresses(<<c, d, e>>) + (IF b = "leftDown" THEN 1 ELSE 0)
    BY <2>2, Presses
  <2>4. QueuedPresses(<<a, b, c, d, e>>) = QueuedPresses(<<b, c, d, e>>) + (IF a = "leftDown" THEN 1 ELSE 0)
    BY <2>1, Presses
  <2>5. <<c, d, e>> \in Seq(Actions)
    OBVIOUS
  <2>6. QueuedPresses(<<c, d, e>>) \in Nat
    BY <2>5, Presses
  <2> QED
    BY <2>3, <2>4, <2>6
<1>6. /\ QueuedPresses(<<"move">>) = 0 /\ QueuedPresses(<<"leftDragged">>) = 0
      /\ QueuedPresses(<<"scroll">>) = 0 /\ QueuedPresses(<<"leftUp">>) = 0
      /\ QueuedPresses(<<"rightUp">>) = 0
  BY <1>2 DEF Actions
<1>7. /\ QueuedPresses(<<"rightDown", "rightUp">>) = 0
      /\ QueuedPresses(<<"leftDown", "leftDragged">>) = 1 /\ QueuedPresses(<<"leftDown", "leftUp">>) = 1
  BY <1>3, <1>6 DEF Actions
<1>8. /\ QueuedPresses(<<"move", "leftDown", "leftUp">>) = 1
      /\ QueuedPresses(<<"leftUp", "leftDown", "leftUp">>) = 1
  <2>1. {"move", "leftUp", "leftDown"} \subseteq Actions
    BY DEF Actions
  <2>2. /\ QueuedPresses(<<"move", "leftDown", "leftUp">>) =
               QueuedPresses(<<"leftDown", "leftUp">>) + (IF "move" = "leftDown" THEN 1 ELSE 0)
        /\ QueuedPresses(<<"leftUp", "leftDown", "leftUp">>) =
               QueuedPresses(<<"leftDown", "leftUp">>) + (IF "leftUp" = "leftDown" THEN 1 ELSE 0)
    BY <1>4, <2>1
  <2> QED
    BY <1>7, <2>2
<1>9. QueuedPresses(DoubleClick) = 2
  <2>1. {"move", "leftUp", "leftDown"} \subseteq Actions
    BY DEF Actions
  <2>2. QueuedPresses(<<"move", "leftDown", "leftUp", "leftDown", "leftUp">>) =
            QueuedPresses(<<"leftUp", "leftDown", "leftUp">>)
                + (IF "move" = "leftDown" THEN 1 ELSE 0) + (IF "leftDown" = "leftDown" THEN 1 ELSE 0)
    BY <1>5, <2>1
  <2> QED
    BY <1>8, <2>2 DEF DoubleClick
<1> QED
  BY <1>1, <1>6, <1>7, <1>8, <1>9

(* A queue without presses holds no click.                                 *)
LEMMA EmptyQueues ==
  /\ <<>> \notin Clicks /\ <<>> # DragStart /\ Others \cap Clicks = {}
  /\ {DragEnd, DoubleClick, <<"move", "leftDown", "leftUp">>} \subseteq Clicks
  /\ DragStart \notin Clicks \cup Others
  /\ {<<>>, <<"move">>, <<"leftDragged">>, <<"scroll">>, <<"rightDown", "rightUp">>} \subseteq Others
<1>1. Others \cap Clicks = {}
  BY DEF Others, Clicks, SingleClicks
<1>2. <<>> \in Others /\ {DragEnd, DoubleClick, <<"move", "leftDown", "leftUp">>} \subseteq Clicks
  BY DEF Others, Clicks, SingleClicks, DragEnd, DoubleClick
<1>3. DragStart \notin Clicks \cup Others
  BY DEF DragStart, Clicks, SingleClicks, Others
<1>4. {<<>>, <<"move">>, <<"leftDragged">>, <<"scroll">>, <<"rightDown", "rightUp">>} \subseteq Others
  BY DEF Others
<1> QED
  BY <1>1, <1>2, <1>3, <1>4

-----------------------------------------------------------------------------
(* The parts of the invariant, one by one.                                 *)

(* The state is idle just when no finger is down, and a single finger      *)
(* hovers or drags.                                                        *)
LEMMA StateTypesStep ==
  ASSUME StateTypes, [Next]_vars
  PROVE  StateTypes'
<1> USE DEF StateTypes, States, vars, gestureVars, outputVars, timerVars, countVars
<1>1. ASSUME NEW p \in Pointers, FirstDown(p) PROVE StateTypes'
  BY <1>1 DEF FirstDown, FirstFingerDown, EventArrives, MutexFree, Down
<1>2. ASSUME NEW p \in Pointers, NextDown(p) PROVE StateTypes'
  BY <1>2 DEF NextDown, NextFingerDown, EventArrives, MutexFree, Down
<1>3. CASE HandleMove
  BY <1>3 DEF HandleMove, Hover, BeginDrag, Drag, Scroll, EventArrives, MutexFree
<1>4. ASSUME NEW p \in Pointers, HandleUp(p) PROVE StateTypes'
  BY <1>4
     DEF HandleUp, SecondTap, FirstTap, EndDrag, LiftFinger, EventArrives, MutexFree,
      IdleAfterUp, StrayUp, Becomes
<1>5. ASSUME NEW t \in armed, TimerFires(t) PROVE StateTypes'
  BY <1>5 DEF TimerFires
<1>6. ASSUME NEW touch \in Touches, LongPressCallback(touch) PROVE StateTypes'
  BY <1>6 DEF LongPressCallback, MutexFree, StillOneDown
<1>7. ASSUME NEW tap \in 1 .. taps, TapCallback(tap) PROVE StateTypes'
  BY <1>7 DEF TapCallback, MutexFree, StillPending
<1>8. CASE HandOver
  BY <1>8 DEF HandOver
<1>9. CASE HandOverLocked
  BY <1>9 DEF HandOverLocked
<1>10. CASE Close
  BY <1>10 DEF Close
<1>11. CASE UNCHANGED vars
  BY <1>11 DEF vars
<1> QED
  BY StepCases, <1>1, <1>2, <1>3, <1>4, <1>5, <1>6, <1>7, <1>8, <1>9, <1>10, <1>11

(* A timer belongs to a touch that has begun.                              *)
LEMMA TimerTypesStep ==
  ASSUME StateTypes, TimerTypes, [Next]_vars
  PROVE  TimerTypes'
<1> USE GestureAssumption
   DEF StateTypes, TimerTypes, Touches, Timers, vars, gestureVars, outputVars,
    timerVars, countVars
<1>1. ASSUME NEW p \in Pointers, FirstDown(p) PROVE TimerTypes'
  <2>1. touches' = touches + 1 /\ touches' \in 1 .. MaxTouches
    BY <1>1 DEF FirstDown, FirstFingerDown
  <2>2. <<"longPress", touches'>> \in Timers
    BY <2>1
  <2>3. armed' \subseteq Timers
    BY <1>1, <2>2
       DEF FirstDown, FirstFingerDown, ArmLongPress, AfterFunc, TapTimerAtDown, TapRunning
  <2>4. overtaken' \subseteq Touches /\ longPressTimer' = touches'
    BY <1>1 DEF FirstDown, FirstFingerDown
  <2>5. /\ tapTimer' = tapTimer /\ taps' = taps /\ fired' = fired /\ strays' = strays
    BY <1>1 DEF FirstDown, Down
  <2> QED
    BY <2>1, <2>3, <2>4, <2>5
<1>2. ASSUME NEW p \in Pointers, NextDown(p) PROVE TimerTypes'
  BY <1>2
     DEF NextDown, NextFingerDown, EventArrives, MutexFree, Down, TapTimerAtDown,
      LongPressRunning, TapRunning
<1>3. CASE HandleMove
  BY <1>3
     DEF HandleMove, Hover, BeginDrag, Drag, Scroll, EventArrives, MutexFree,
      LongPressRunning
<1>4. ASSUME NEW p \in Pointers, HandleUp(p) PROVE TimerTypes'
  <2>1. /\ touches' = touches /\ overtaken' = overtaken /\ longPressTimer' = longPressTimer
        /\ fired' = fired /\ (pointers' # {} => touches # 0)
    BY <1>4 DEF HandleUp
  <2>2. strays' \subseteq Touches
    <3>1. pointers # {} => touches \in Touches
      OBVIOUS
    <3>2. strays' = strays \/ (strays' = strays \cup {touches} /\ pointers # {})
      BY <1>4 DEF HandleUp, StrayUp
    <3>3. strays \subseteq Touches
      OBVIOUS
    <3> QED
      BY <3>1, <3>2, <3>3, Zenon
  <2>3. taps' \in Nat /\ tapTimer' \in Nat
    BY <1>4 DEF HandleUp, SecondTap, FirstTap, EndDrag, LiftFinger
  <2>4. armed' \subseteq Timers
    <3>1. <<"tap", taps'>> \in Timers
      BY <2>3
    <3> QED
      BY <1>4, <3>1
         DEF HandleUp, SecondTap, FirstTap, EndDrag, LiftFinger, LongPressRunning, AfterFunc
  <2> QED
    BY <2>1, <2>2, <2>3, <2>4
<1>5. ASSUME NEW t \in armed, TimerFires(t) PROVE TimerTypes'
  BY <1>5 DEF TimerFires
<1>6. ASSUME NEW touch \in Touches, LongPressCallback(touch) PROVE TimerTypes'
  BY <1>6 DEF LongPressCallback, MutexFree, StillOneDown
<1>7. ASSUME NEW tap \in 1 .. taps, TapCallback(tap) PROVE TimerTypes'
  BY <1>7 DEF TapCallback, MutexFree, StillPending
<1>8. CASE HandOver
  BY <1>8 DEF HandOver
<1>9. CASE HandOverLocked
  BY <1>9 DEF HandOverLocked
<1>10. CASE Close
  BY <1>10 DEF Close, LongPressRunning, TapRunning
<1>11. CASE UNCHANGED vars
  BY <1>11 DEF vars
<1> QED
  BY StepCases, <1>1, <1>2, <1>3, <1>4, <1>5, <1>6, <1>7, <1>8, <1>9, <1>10, <1>11

(* The queues stay among the ones named above, the counters are numbers.   *)
LEMMA QueueTypesStep ==
  ASSUME QueueTypes, [Next]_vars
  PROVE  QueueTypes'
<1> USE DEF QueueTypes, vars, gestureVars, outputVars, timerVars, countVars
<1>1. ASSUME NEW p \in Pointers, FirstDown(p) PROVE QueueTypes'
  BY <1>1 DEF FirstDown, FirstFingerDown, EventArrives, MutexFree, Down
<1>2. ASSUME NEW p \in Pointers, NextDown(p) PROVE QueueTypes'
  BY <1>2 DEF NextDown, NextFingerDown, EventArrives, MutexFree, Down
<1>3. CASE HandleMove
  BY <1>3
     DEF HandleMove, Hover, BeginDrag, Drag, Scroll, EventArrives, MutexFree,
      DragStart, Others
<1>4. ASSUME NEW p \in Pointers, HandleUp(p) PROVE QueueTypes'
  BY <1>4
     DEF HandleUp, SecondTap, FirstTap, EndDrag, LiftFinger, EventArrives, MutexFree,
      DoubleClick, DragEnd, Clicks, SingleClicks
<1>5. ASSUME NEW t \in armed, TimerFires(t) PROVE QueueTypes'
  BY <1>5 DEF TimerFires
<1>6. ASSUME NEW touch \in Touches, LongPressCallback(touch) PROVE QueueTypes'
  BY <1>6 DEF LongPressCallback, MutexFree, StillOneDown, Others
<1>7. ASSUME NEW tap \in 1 .. taps, TapCallback(tap) PROVE QueueTypes'
  BY <1>7 DEF TapCallback, MutexFree, StillPending, SingleClicks, Others
<1>8. CASE HandOver
  <2>1. unlocked' = Tail(unlocked) /\ unlocked # <<>>
    BY <1>8 DEF HandOver
  <2>2. unlocked' \in Clicks \cup {DragStart} \cup Others
    BY <2>1, Handing, EmptyQueues
  <2>3. leftButton' \in {"up", "down"} /\ leftDowns' \in Nat
    BY <1>8 DEF HandOver, Handle
  <2> QED
    BY <1>8, <2>2, <2>3 DEF HandOver
<1>9. CASE HandOverLocked
  <2>1. locked' = Tail(locked) /\ locked # <<>>
    BY <1>9 DEF HandOverLocked
  <2>2. locked' \in SingleClicks \cup Others
    BY <2>1, Handing, EmptyQueues
  <2>3. leftButton' \in {"up", "down"} /\ leftDowns' \in Nat
    BY <1>9 DEF HandOverLocked, Handle
  <2> QED
    BY <1>9, <2>2, <2>3 DEF HandOverLocked
<1>10. CASE Close
  BY <1>10 DEF Close
<1>11. CASE UNCHANGED vars
  BY <1>11 DEF vars
<1> QED
  BY StepCases, <1>1, <1>2, <1>3, <1>4, <1>5, <1>6, <1>7, <1>8, <1>9, <1>10, <1>11

(* Timers stop and callbacks end: what holds of the outcomes goes on       *)
(* holding as long as no outcome changes and nothing new runs or waits.    *)
LEMMA OutcomesKept ==
  ASSUME OutcomeInv, outcome' = outcome, touches' = touches,
         strays \subseteq strays', overtaken' = overtaken,
         state' = "oneDown" => state = "oneDown",
         \A touch \in Touches : (Runs(touch)' => Runs(touch)) /\ (Waits(touch)' => Waits(touch))
  PROVE  OutcomeInv'
BY DEF OutcomeInv, Plain

(* The present touch becomes a tap or a drag, which stops its timer.       *)
LEMMA OutcomeOfTouch ==
  ASSUME OutcomeInv, TimerTypes, touches # 0, NEW end \in Outcomes,
         state = "oneDown", outcome' = [outcome EXCEPT ![touches] = @ \cup {end}],
         touches' = touches, strays \subseteq strays', overtaken' = overtaken, fired' = fired,
         state' = "oneDown" => touches \in strays',
         \A touch \in Touches : Runs(touch)' => Runs(touch) /\ touch # touches
  PROVE  OutcomeInv'
<1>1. touches \in Touches /\ outcome' \in [Touches -> SUBSET Outcomes]
  BY GestureAssumption DEF OutcomeInv, TimerTypes, Touches
<1>2. \A touch \in Touches \ {touches} : outcome'[touch] = outcome[touch]
  BY <1>1 DEF OutcomeInv
<1>3. Plain' \subseteq Plain
  BY DEF Plain
<1>4. touches \in Plain' => outcome'[touches] = {end}
  BY <1>1, <1>3 DEF OutcomeInv
<1>5. \A touch \in Touches : Waits(touch)' <=> Waits(touch)
  BY DEF Waits
<1>6. ~(touches > touches) /\ ~(touches < touches)
  BY DEF TimerTypes
<1>7. ASSUME NEW touch \in Touches
      PROVE  /\ touch > touches => outcome'[touch] = {} /\ ~Waits(touch) /\ ~Runs(touch)'
             /\ Runs(touch)' => outcome'[touch] = {} /\ ~Waits(touch)
  BY <1>2, <1>6 DEF OutcomeInv
<1>8. ASSUME NEW touch \in Plain'
      PROVE  /\ \A one, other \in outcome'[touch] : one = other
             /\ Waits(touch) /\ touch < touches => outcome'[touch] = {}
  <2>1. CASE touch = touches
    BY <1>4, <1>6, <2>1
  <2>2. CASE touch # touches
    BY <1>2, <1>3, <2>2 DEF OutcomeInv, Plain
  <2> QED
    BY <2>1, <2>2
<1>9. state' = "oneDown" => touches \notin Plain'
  BY DEF Plain
<1>10. Plain' \subseteq Touches
  BY DEF Plain
<1> QED
  BY <1>1, <1>5, <1>7, <1>8, <1>9, <1>10 DEF OutcomeInv

(* A touch gets its outcome when its state leaves oneDown, or from its     *)
(* timer's callback.                                                       *)
LEMMA OutcomeInvStep ==
  ASSUME OutcomeInv, StateTypes, TimerTypes, [Next]_vars
  PROVE  OutcomeInv'
<1> USE DEF vars, gestureVars, outputVars, timerVars, countVars
<1>1. ASSUME NEW p \in Pointers, FirstDown(p) PROVE OutcomeInv'
  <2>1. /\ touches' = touches + 1 /\ outcome' = outcome /\ strays' = strays /\ fired' = fired
        /\ overtaken' = overtaken \cup {touch \in Touches : Waits(touch)}
    BY <1>1 DEF FirstDown, FirstFingerDown, Down, Waits
  <2>2. \A touch \in Touches : Runs(touch)' => Runs(touch) \/ touch = touches + 1
    BY <1>1, <2>1 DEF FirstDown, FirstFingerDown, ArmLongPress, AfterFunc, Runs
  <2>3. touches \in Nat /\ touches + 1 > touches
    BY GestureAssumption DEF TimerTypes
  <2>4. \A touch \in Touches : touch > touches + 1 => touch > touches /\ touch # touches + 1
    BY <2>3, GestureAssumption DEF Touches
  <2>5. \A touch \in Touches : Waits(touch)' <=> Waits(touch)
    BY <2>1 DEF Waits
  <2>6. Plain' \subseteq Plain /\ \A touch \in Plain' : ~Waits(touch)
    BY <2>1 DEF Plain
  <2>7. touches + 1 \in Touches => outcome[touches + 1] = {} /\ ~Waits(touches + 1)
    BY <2>3 DEF OutcomeInv
  <2>8. Plain' \subseteq Touches
    BY DEF Plain
  <2>9. ASSUME NEW touch \in Touches
        PROVE  /\ touch > touches' => outcome[touch] = {} /\ ~Waits(touch) /\ ~Runs(touch)'
               /\ Runs(touch)' => outcome[touch] = {} /\ ~Waits(touch)
    BY <2>1, <2>2, <2>4, <2>7 DEF OutcomeInv
  <2> QED
    BY <2>1, <2>5, <2>6, <2>7, <2>8, <2>9 DEF OutcomeInv
<1>2. ASSUME NEW p \in Pointers, NextDown(p) PROVE OutcomeInv'
  BY <1>2, OutcomesKept DEF NextDown, NextFingerDown, Down, Runs, Waits
<1>3. CASE HandleMove
  <2>1. CASE BeginDrag
    <3>1. \A touch \in Touches : Runs(touch)' => Runs(touch) /\ touch # touches
      BY <2>1 DEF BeginDrag, LongPressRunning, Runs, TimerTypes
    <3>2. touches # 0 /\ "drag" \in Outcomes
      BY <1>3 DEF HandleMove, TimerTypes, Outcomes
    <3>3. outcome' = [outcome EXCEPT ![touches] = @ \cup {"drag"}]
      BY <2>1 DEF BeginDrag, Becomes
    <3>4. /\ state = "oneDown" /\ state' # "oneDown" /\ touches' = touches /\ strays' = strays
          /\ overtaken' = overtaken /\ fired' = fired
      BY <1>3, <2>1 DEF HandleMove, BeginDrag
    <3> QED
      BY <3>1, <3>2, <3>3, <3>4, OutcomeOfTouch
  <2>2. CASE Hover \/ Drag \/ \E delta \in BOOLEAN : Scroll(delta)
    BY <1>3, <2>2, OutcomesKept DEF HandleMove, Hover, Drag, Scroll, Runs, Waits
  <2> QED
    BY <1>3, <2>1, <2>2 DEF HandleMove
<1>4. ASSUME NEW p \in Pointers, HandleUp(p) PROVE OutcomeInv'
  <2>1. /\ touches' = touches /\ overtaken' = overtaken /\ fired' = fired
        /\ strays \subseteq strays'
    BY <1>4 DEF HandleUp, StrayUp
  <2>2. CASE SecondTap \/ FirstTap
    <3>1. \A touch \in Touches : Runs(touch)' => Runs(touch) /\ touch # touches
      BY <2>2 DEF SecondTap, FirstTap, AfterFunc, LongPressRunning, Runs, TimerTypes
    <3>2. state = "oneDown" /\ touches # 0 /\ "tap" \in Outcomes
      BY <2>2 DEF SecondTap, FirstTap, StateTypes, TimerTypes, Outcomes
    <3>3. outcome' = [outcome EXCEPT ![touches] = @ \cup {"tap"}]
      BY <2>2 DEF SecondTap, FirstTap, Becomes
    <3>4. state' = "oneDown" => touches \in strays'
      BY <1>4, <3>2 DEF HandleUp, StrayUp, IdleAfterUp, StateTypes
    <3> QED
      BY <2>1, <3>1, <3>2, <3>3, <3>4, OutcomeOfTouch
  <2>3. CASE EndDrag \/ LiftFinger
    BY <1>4, <2>1, <2>3, OutcomesKept
       DEF HandleUp, EndDrag, LiftFinger, IdleAfterUp, Runs, Waits
  <2> QED
    BY <1>4, <2>2, <2>3 DEF HandleUp
<1>5. ASSUME NEW t \in armed, TimerFires(t) PROVE OutcomeInv'
  <2>1. /\ outcome' = outcome /\ touches' = touches /\ strays' = strays
        /\ overtaken' = overtaken /\ state' = state
    BY <1>5 DEF TimerFires
  <2>2. ASSUME NEW touch \in Touches
        PROVE  \/ Waits(touch)' /\ ~Runs(touch)' /\ Runs(touch)
               \/ (Waits(touch)' <=> Waits(touch)) /\ (Runs(touch)' <=> Runs(touch))
    BY <1>5 DEF TimerFires, Waits, Runs
  <2>3. \A touch \in Touches : Runs(touch) => outcome[touch] = {} /\ ~(touch > touches)
    BY DEF OutcomeInv
  <2> QED
    BY <2>1, <2>2, <2>3 DEF OutcomeInv, Plain
<1>6. ASSUME NEW touch \in Touches, LongPressCallback(touch) PROVE OutcomeInv'
  <2>1. /\ touches' = touches /\ strays' = strays /\ overtaken' = overtaken /\ armed' = armed
        /\ Waits(touch) /\ ~Waits(touch)'
        /\ \A other \in Touches : Waits(other)' => Waits(other)
    BY <1>6 DEF LongPressCallback, Waits
  <2>2. \A other \in Touches : Runs(other)' <=> Runs(other)
    BY <2>1 DEF Runs
  <2>3. CASE state # "oneDown"
    BY <1>6, <2>1, <2>2, <2>3, OutcomesKept DEF LongPressCallback, StillOneDown
  <2>4. CASE state = "oneDown"
    <3>1. /\ outcome' = [outcome EXCEPT ![touch] = @ \cup {"rightClick"}]
          /\ state' # "oneDown"
      BY <1>6, <2>4 DEF LongPressCallback, StillOneDown
    <3>2. /\ outcome' \in [Touches -> SUBSET Outcomes]
          /\ outcome'[touch] = outcome[touch] \cup {"rightClick"}
          /\ \A other \in Touches \ {touch} : outcome'[other] = outcome[other]
      BY <3>1 DEF OutcomeInv, Outcomes
    <3>3. ~(touch > touches) /\ ~Runs(touch)
      BY <2>1 DEF OutcomeInv
    <3>4. touch < touches \/ touch = touches
      BY <3>3, GestureAssumption DEF Touches, TimerTypes
    <3>5. touch \in Plain => outcome[touch] = {}
      BY <2>1, <2>4, <3>4 DEF OutcomeInv
    <3>6. Plain' = Plain /\ Plain \subseteq Touches
      BY <2>1 DEF Plain
    <3>7. ASSUME NEW other \in Touches
          PROVE  /\ other > touches => outcome'[other] = {} /\ ~Waits(other)' /\ ~Runs(other)'
                 /\ Runs(other)' => outcome'[other] = {} /\ ~Waits(other)'
      BY <2>1, <2>2, <3>2, <3>3 DEF OutcomeInv
    <3>8. ASSUME NEW other \in Plain
          PROVE  /\ \A one, two \in outcome'[other] : one = two
                 /\ Waits(other)' /\ other < touches => outcome'[other] = {}
      <4>1. CASE other = touch
        BY <2>1, <3>2, <3>5, <4>1
      <4>2. CASE other # touch
        BY <2>1, <3>2, <3>6, <4>2 DEF OutcomeInv
      <4> QED
        BY <4>1, <4>2
    <3> QED
      BY <2>1, <3>1, <3>2, <3>6, <3>7, <3>8 DEF OutcomeInv
  <2> QED
    BY <2>3, <2>4
<1>7. ASSUME NEW tap \in 1 .. taps, TapCallback(tap) PROVE OutcomeInv'
  BY <1>7, OutcomesKept DEF TapCallback, Runs, Waits
<1>8. CASE HandOver
  BY <1>8, OutcomesKept DEF HandOver, Runs, Waits
<1>9. CASE HandOverLocked
  BY <1>9, OutcomesKept DEF HandOverLocked, Runs, Waits
<1>10. CASE Close
  BY <1>10, OutcomesKept DEF Close, Runs, Waits
<1>11. CASE UNCHANGED vars
  BY <1>11, OutcomesKept DEF Runs, Waits
<1> QED
  BY StepCases, <1>1, <1>2, <1>3, <1>4, <1>5, <1>6, <1>7, <1>8, <1>9, <1>10, <1>11

(* Outside a drag a pressed button has its release in a queue.             *)
LEMMA ButtonInvStep ==
  ASSUME ButtonInv, StateTypes, QueueTypes, [Next]_vars
  PROVE  ButtonInv'
<1> USE DEF ButtonInv, vars, gestureVars, outputVars, timerVars, countVars
<1>1. ASSUME NEW p \in Pointers, FirstDown(p) PROVE ButtonInv'
  BY EmptyQueues, <1>1
     DEF FirstDown, FirstFingerDown, EventArrives, MutexFree, Down, StateTypes
<1>2. ASSUME NEW p \in Pointers, NextDown(p) PROVE ButtonInv'
  BY EmptyQueues, <1>2 DEF NextDown, NextFingerDown, EventArrives, MutexFree, Down
<1>3. CASE HandleMove
  BY EmptyQueues, <1>3
     DEF HandleMove, Hover, BeginDrag, Drag, Scroll, EventArrives, MutexFree
<1>4. ASSUME NEW p \in Pointers, HandleUp(p) PROVE ButtonInv'
  BY EmptyQueues, <1>4
     DEF HandleUp, SecondTap, FirstTap, EndDrag, LiftFinger, EventArrives, MutexFree,
      IdleAfterUp, StrayUp, Becomes, StateTypes
<1>5. ASSUME NEW t \in armed, TimerFires(t) PROVE ButtonInv'
  BY EmptyQueues, <1>5 DEF TimerFires
<1>6. ASSUME NEW touch \in Touches, LongPressCallback(touch) PROVE ButtonInv'
  BY EmptyQueues, <1>6 DEF LongPressCallback, MutexFree, StillOneDown
<1>7. ASSUME NEW tap \in 1 .. taps, TapCallback(tap) PROVE ButtonInv'
  BY EmptyQueues, <1>7 DEF TapCallback, MutexFree, StillPending
<1>8. CASE HandOver
  <2>1. unlocked' = Tail(unlocked) /\ unlocked # <<>>
    BY <1>8 DEF HandOver
  <2>2. unlocked \in Clicks => unlocked' \in Clicks \/ leftButton' = "up"
    <3>1. ASSUME unlocked \in Clicks, unlocked' \notin Clicks PROVE leftButton' = "up"
      <4>1. Head(unlocked) = "leftUp"
        BY <2>1, <3>1, Handing
      <4> QED
        BY <1>8, <4>1 DEF HandOver, Handle
    <3> QED
      BY <3>1
  <2>3. unlocked \in Others => leftButton' = leftButton
    <3>1. ASSUME unlocked \in Others PROVE leftButton' = leftButton
      <4>1. Head(unlocked) \notin {"leftDown", "leftUp"}
        BY <2>1, <3>1, Handing
      <4> QED
        BY <1>8, <4>1 DEF HandOver, Handle
    <3> QED
      BY <3>1
  <2>4. SingleClicks \subseteq Clicks
    BY DEF Clicks
  <2>5. unlocked \in Clicks \cup {DragStart} \cup Others
    BY <2>4 DEF QueueTypes
  <2>6. unlocked' # DragStart \/ unlocked' = unlocked
    BY <1>8, <2>1, <2>5, Handing, EmptyQueues DEF HandOver
  <2> QED
    BY <1>8, <2>2, <2>3, <2>5, <2>6, EmptyQueues DEF HandOver
<1>9. CASE HandOverLocked
  <2>1. locked' = Tail(locked) /\ locked # <<>>
    BY <1>9 DEF HandOverLocked
  <2>2. locked \in Clicks => locked' \in Clicks \/ leftButton' = "up"
    <3>1. ASSUME locked \in Clicks, locked' \notin Clicks PROVE leftButton' = "up"
      <4>1. Head(locked) = "leftUp"
        BY <2>1, <3>1, Handing
      <4> QED
        BY <1>9, <4>1 DEF HandOverLocked, Handle
    <3> QED
      BY <3>1
  <2>3. locked \in Others => leftButton' = leftButton
    <3>1. ASSUME locked \in Others PROVE leftButton' = leftButton
      <4>1. Head(locked) \notin {"leftDown", "leftUp"}
        BY <2>1, <3>1, Handing
      <4> QED
        BY <1>9, <4>1 DEF HandOverLocked, Handle
    <3> QED
      BY <3>1
  <2>4. SingleClicks \subseteq Clicks
    BY DEF Clicks
  <2>5. locked \in Clicks \cup Others
    BY <2>4 DEF QueueTypes
  <2>6. unlocked' # DragStart \/ unlocked' = unlocked
    BY <1>9, <2>1, <2>5, Handing, EmptyQueues DEF HandOverLocked
  <2> QED
    BY <1>9, <2>2, <2>3, <2>5, <2>6, EmptyQueues DEF HandOverLocked
<1>10. CASE Close
  BY EmptyQueues, <1>10 DEF Close
<1>11. CASE UNCHANGED vars
  BY <1>11 DEF vars
<1> QED
  BY StepCases, <1>1, <1>2, <1>3, <1>4, <1>5, <1>6, <1>7, <1>8, <1>9, <1>10, <1>11

(* Clicks are conserved: what a queue loses is handed over.                *)
LEMMA QueuesAreSequences ==
  ASSUME QueueTypes
  PROVE  /\ unlocked \in Seq(Actions) /\ Len(unlocked) <= 5
         /\ locked \in Seq(Actions) /\ Len(locked) <= 3
         /\ unlocked # <<>> => Tail(unlocked) \in Seq(Actions)
         /\ locked # <<>> => Tail(locked) \in Seq(Actions)
<1>1. SingleClicks \subseteq Clicks
  BY DEF Clicks
<1>2. /\ unlocked \in Seq(Actions) /\ Len(unlocked) <= 5
      /\ locked \in Seq(Actions) /\ Len(locked) <= 3
  BY <1>1, Handing DEF QueueTypes
<1> QED
  BY <1>2, HeadTailProperties

(* Every tap keeps its click.                                              *)
LEMMA ClickStep ==
  ASSUME EveryTapOwnsOneClick, QueueTypes, StateTypes, [Next]_vars
  PROVE  EveryTapOwnsOneClick'
<1> USE
   DEF EveryTapOwnsOneClick, StateTypes, vars, gestureVars, outputVars, timerVars,
    countVars
<1>a. /\ leftDowns \in Nat /\ taps \in Nat /\ drags \in Nat
      /\ QueuedPresses(unlocked) \in Nat /\ QueuedPresses(locked) \in Nat
  BY QueuesAreSequences, Presses DEF QueueTypes
<1>b. /\ QueuedPresses(<<>>) = 0 /\ QueuedPresses(<<"move">>) = 0
      /\ QueuedPresses(<<"leftDragged">>) = 0 /\ QueuedPresses(<<"scroll">>) = 0
      /\ QueuedPresses(DragEnd) = 0 /\ QueuedPresses(<<"rightDown", "rightUp">>) = 0
      /\ QueuedPresses(<<"leftDown", "leftDragged">>) = 1
      /\ QueuedPresses(<<"move", "leftDown", "leftUp">>) = 1
      /\ QueuedPresses(DoubleClick) = 2
  BY NewQueues DEF DragEnd
<1>1. ASSUME NEW p \in Pointers, FirstDown(p) PROVE EveryTapOwnsOneClick'
  <2>1. /\ leftDowns' = leftDowns /\ locked' = locked /\ unlocked' = unlocked
        /\ tapPending' = tapPending /\ taps' = taps /\ drags' = drags
    BY <1>1 DEF FirstDown, FirstFingerDown, EventArrives, MutexFree, Down
  <2> QED
    BY <2>1
<1>2. ASSUME NEW p \in Pointers, NextDown(p) PROVE EveryTapOwnsOneClick'
  <2>1. /\ leftDowns' = leftDowns /\ locked' = locked /\ unlocked' = unlocked
        /\ tapPending' = tapPending /\ taps' = taps /\ drags' = drags
    BY <1>2 DEF NextDown, NextFingerDown, EventArrives, MutexFree, Down
  <2> QED
    BY <2>1
<1>3. CASE HandleMove
  <2>1. /\ QueuedPresses(unlocked) = 0 /\ tapPending' = tapPending
        /\ leftDowns' = leftDowns /\ locked' = locked /\ taps' = taps
    BY <1>3, <1>b
       DEF HandleMove, Hover, BeginDrag, Drag, Scroll, EventArrives, MutexFree
  <2>2. \/ QueuedPresses(unlocked') = 0 /\ drags' = drags
        \/ QueuedPresses(unlocked') = 1 /\ drags' = drags + 1
    BY <1>3, <1>b
       DEF HandleMove, Hover, BeginDrag, Drag, Scroll, EventArrives, MutexFree
  <2> QED
    BY <2>1, <2>2, <1>a
<1>4. ASSUME NEW p \in Pointers, HandleUp(p) PROVE EveryTapOwnsOneClick'
  <2>1. QueuedPresses(unlocked) = 0 /\ leftDowns' = leftDowns /\ locked' = locked /\ drags' = drags
    BY <1>4, <1>b
       DEF HandleUp, SecondTap, FirstTap, EndDrag, LiftFinger, EventArrives, MutexFree,
      StrayUp, Becomes
  <2>2. \/ QueuedPresses(unlocked') = 2 /\ tapPending /\ ~tapPending' /\ taps' = taps + 1
        \/ QueuedPresses(unlocked') = 0 /\ ~tapPending /\ tapPending' /\ taps' = taps + 1
        \/ QueuedPresses(unlocked') = 0 /\ tapPending' = tapPending /\ taps' = taps
    BY <1>4, <1>b
       DEF HandleUp, SecondTap, FirstTap, EndDrag, LiftFinger, EventArrives, MutexFree,
      StrayUp, Becomes
  <2> QED
    BY <2>1, <2>2, <1>a
<1>5. ASSUME NEW t \in armed, TimerFires(t) PROVE EveryTapOwnsOneClick'
  <2>1. /\ leftDowns' = leftDowns /\ locked' = locked /\ unlocked' = unlocked
        /\ tapPending' = tapPending /\ taps' = taps /\ drags' = drags
    BY <1>5 DEF TimerFires
  <2> QED
    BY <2>1
<1>6. ASSUME NEW touch \in Touches, LongPressCallback(touch) PROVE EveryTapOwnsOneClick'
  <2>1. /\ tapPending' = tapPending /\ unlocked' = unlocked
        /\ leftDowns' = leftDowns /\ taps' = taps /\ drags' = drags
    BY <1>6 DEF LongPressCallback, MutexFree, StillOneDown
  <2>2. QueuedPresses(locked) = 0 /\ QueuedPresses(locked') = 0
    BY <1>6, <1>b DEF LongPressCallback, MutexFree, StillOneDown
  <2> QED
    BY <2>1, <2>2, <1>a
<1>7. ASSUME NEW tap \in 1 .. taps, TapCallback(tap) PROVE EveryTapOwnsOneClick'
  <2>1. /\ ~tapPending' /\ unlocked' = unlocked
        /\ leftDowns' = leftDowns /\ taps' = taps /\ drags' = drags
    BY <1>7 DEF TapCallback, MutexFree, StillPending
  <2>2. QueuedPresses(locked) = 0
    BY <1>7, <1>b DEF TapCallback, MutexFree, StillPending
  <2>3. QueuedPresses(locked') = IF tapPending THEN 1 ELSE 0
    BY <1>7, <1>b DEF TapCallback, MutexFree, StillPending
  <2> QED
    BY <2>1, <2>2, <2>3, <1>a
<1>8. CASE HandOver
  <2> DEFINE pressed == IF Head(unlocked) = "leftDown" THEN 1 ELSE 0
  <2>1. /\ QueuedPresses(unlocked) = QueuedPresses(Tail(unlocked)) + pressed
        /\ QueuedPresses(Tail(unlocked)) \in Nat /\ pressed \in Nat
    <3>1. unlocked \in Seq(Actions) /\ Tail(unlocked) \in Seq(Actions) /\ unlocked # <<>>
      BY <1>8, QueuesAreSequences DEF HandOver
    <3> QED
      BY <3>1, Presses
  <2>2. leftDowns' = leftDowns + pressed
    BY <1>a, <1>8 DEF HandOver, Handle
  <2>3. /\ unlocked' = Tail(unlocked) /\ locked' = locked
        /\ tapPending' = tapPending /\ taps' = taps /\ drags' = drags
    BY <1>8 DEF HandOver
  <2> HIDE DEF pressed
  <2> QED
    BY <2>1, <2>2, <2>3, <1>a
<1>9. CASE HandOverLocked
  <2> DEFINE pressed == IF Head(locked) = "leftDown" THEN 1 ELSE 0
  <2>1. /\ QueuedPresses(locked) = QueuedPresses(Tail(locked)) + pressed
        /\ QueuedPresses(Tail(locked)) \in Nat /\ pressed \in Nat
    <3>1. locked \in Seq(Actions) /\ Tail(locked) \in Seq(Actions) /\ locked # <<>>
      BY <1>9, QueuesAreSequences DEF HandOverLocked
    <3> QED
      BY <3>1, Presses
  <2>2. leftDowns' = leftDowns + pressed
    BY <1>a, <1>9 DEF HandOverLocked, Handle
  <2>3. /\ locked' = Tail(locked) /\ unlocked' = unlocked
        /\ tapPending' = tapPending /\ taps' = taps /\ drags' = drags
    BY <1>9 DEF HandOverLocked
  <2> HIDE DEF pressed
  <2> QED
    BY <2>1, <2>2, <2>3, <1>a
<1>10. CASE Close
  <2>1. /\ leftDowns' = leftDowns /\ locked' = locked /\ unlocked' = unlocked
        /\ tapPending' = tapPending /\ taps' = taps /\ drags' = drags
    BY <1>10 DEF Close
  <2> QED
    BY <2>1
<1>11. CASE UNCHANGED vars
  BY <1>11 DEF vars
<1> QED
  BY StepCases, <1>1, <1>2, <1>3, <1>4, <1>5, <1>6, <1>7, <1>8, <1>9, <1>10, <1>11

-----------------------------------------------------------------------------
(* The theorems.                                                           *)

\* The invariant holds before the first touch.
LEMMA InitiallySafe ==
  ASSUME Init
  PROVE  SafeInv
<1>1. StateTypes /\ ButtonInv
  BY EmptyQueues DEF Init, StateTypes, States, ButtonInv
<1>5. OutcomeInv
  BY DEF Init, OutcomeInv, Plain, Runs, Waits
<1>2. TimerTypes
  BY GestureAssumption DEF Init, TimerTypes
<1>3. QueueTypes
  BY EmptyQueues DEF Init, QueueTypes
<1>4. EveryTapOwnsOneClick
  BY NewQueues DEF Init, EveryTapOwnsOneClick
<1> QED
  BY <1>1, <1>2, <1>3, <1>4, <1>5 DEF SafeInv

\* Every step keeps it.
LEMMA StaysSafe ==
  ASSUME SafeInv, [Next]_vars
  PROVE  SafeInv'
BY StateTypesStep, TimerTypesStep, QueueTypesStep, OutcomeInvStep, ButtonInvStep,
   ClickStep DEF SafeInv

(* Whatever timers fire when and whoever gets the mutex first, the         *)
(* recognizer keeps its invariant.                                         *)
THEOREM RecognizerIsSafe == Spec => []SafeInv
BY InitiallySafe, StaysSafe, PTL DEF Spec

(* Its state, timers and queues stay in their types; in particular it is   *)
(* idle just when no finger is on the screen, and hovers or drags with one *)
(* finger only.                                                            *)
THEOREM RecognizerTypeCorrect == Spec => []TypeOK
<1>1. ASSUME SafeInv PROVE TypeOK
  <2>1. state \in {"oneDown", "dragging"} => Cardinality(pointers) = 1
    BY <1>1, FS_Singleton DEF SafeInv, StateTypes
  <2>2. /\ unlocked \in Seq(Actions) /\ Len(unlocked) <= 5
        /\ locked \in Seq(Actions) /\ Len(locked) <= 3
    BY <1>1, QueuesAreSequences DEF SafeInv
  <2>3. outcome \in [Touches -> SUBSET Outcomes]
    BY <1>1 DEF SafeInv, OutcomeInv
  <2>4. longPressTimer \in 0 .. MaxTouches
    BY <1>1 DEF SafeInv, TimerTypes
  <2>5. leftButton \in {"up", "down"}
    BY <1>1 DEF SafeInv, QueueTypes
  <2> QED
    BY <1>1, <2>1, <2>2, <2>3, <2>4, <2>5 DEF SafeInv, StateTypes, TimerTypes, TypeOK
<1> QED
  BY <1>1, RecognizerIsSafe, PTL

(* No click is lost, and none is given twice: presses handed over, presses *)
(* in a queue and the pending tap are the taps and drags there have been.  *)
THEOREM NoClickLostOrDoubled == Spec => []EveryTapOwnsOneClick
<1>1. ASSUME SafeInv PROVE EveryTapOwnsOneClick
  BY <1>1 DEF SafeInv
<1> QED
  BY <1>1, RecognizerIsSafe, PTL

(* A touch is a tap, a drag or a long press, never two of them, although   *)
(* the long-press timer may have fired before the finger moved or lifted,  *)
(* however many touches there are and whichever events are lost.  Two      *)
(* kinds of touches are left out, by name: those whose callback was still  *)
(* waiting when the next touch began, and those with a stray Up.           *)
THEOREM TouchHasOneOutcome == Spec => []OneOutcomePerTouch
<1>1. ASSUME SafeInv PROVE OneOutcomePerTouch
  <2>1. ASSUME NEW touch \in Touches \ (overtaken \cup strays)
        PROVE  Cardinality(outcome[touch]) <= 1
    <3>1. \A one, other \in outcome[touch] : one = other
      BY <1>1 DEF SafeInv, OutcomeInv, Plain
    <3>2. outcome[touch] = {} \/ \E end \in Outcomes : outcome[touch] = {end}
      BY <1>1, <3>1 DEF SafeInv, OutcomeInv
    <3>3. Cardinality(outcome[touch]) \in {0, 1}
      BY <3>2, FS_EmptySet, FS_Singleton
    <3> QED
      BY <3>3
  <2> QED
    BY <2>1 DEF OneOutcomePerTouch
<1> QED
  BY <1>1, RecognizerIsSafe, PTL

(* With all fingers up, everything handed over and no click pending, the   *)
(* left button is up, but after a drag that a Down cut off, and then only  *)
(* until the next tap or the end of the next drag.                         *)
THEOREM ButtonReleased == Spec => []ButtonUpAtRest
<1>1. ASSUME SafeInv PROVE ButtonUpAtRest
  <2>1. AtRest => state # "dragging"
    BY <1>1 DEF AtRest, SafeInv, StateTypes
  <2> QED
    BY <1>1, <2>1, EmptyQueues
       DEF SafeInv, QueueTypes, ButtonInv, ButtonUpAtRest, AtRest
<1> QED
  BY <1>1, RecognizerIsSafe, PTL

===============================================================================
