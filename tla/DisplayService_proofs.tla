------------------------ MODULE DisplayService_proofs ------------------------
(***************************************************************************)
(* What the destruction of the Android service leaves behind, when its     *)
(* receive loop can crash, and why a lost connection is always noticed:    *)
(* any number of taps on Connect, failures and closed connections.         *)
(***************************************************************************)
EXTENDS DisplayService, SequenceTheorems, TLAPS

-----------------------------------------------------------------------------
(* The inductive invariant.                                                *)

StartTypes ==
    /\ started \in 0 .. MaxStarts /\ mode \in [Starts -> Modes]
    /\ pendingControlClient \in Starts \cup {Null} /\ startRequested \in BOOLEAN
    /\ controlClient \in Starts \cup {Null} /\ params \in Starts \cup {Null}
    /\ receiveJob \in Starts \cup {Null} /\ touchSender \in Starts \cup {Null}
    /\ receiver \in [Modes -> Starts \cup {Null}]
SocketTypes ==
    /\ control \in [Starts -> SocketStates]
    /\ video \in [Starts -> SocketStates \ {"lost"}]
    /\ touch \in [Starts -> SocketStates \ {"lost"}]
CoroutineTypes ==
    /\ pc \in [Starts -> {"none", "launched", "ready", "connect", "launch", "done"}]
    /\ transport \in [Starts -> Modes]
    /\ job \in [Starts -> {"none", "launched", "checked", "running", "ended"}]
    /\ toucher \in [Starts -> {"none", "launched", "ended"}]
    /\ monitor \in [Starts -> {"none", "launched", "reading", "ended"}]
    /\ watched \in [Starts -> Starts \cup {Null}]
    /\ cancelled \subseteq Starts
MainTypes ==
    /\ main \in {"idle", "disconnect", "destroy"}
    /\ destroyed \in BOOLEAN /\ ticking \in BOOLEAN
    /\ interrupted \in BOOLEAN /\ crashed \in BOOLEAN
    /\ replaced \subseteq Starts /\ cut \subseteq Starts
Posts == {Post(n, "connected") : n \in Starts} \cup {Post(Null, "disconnect")}
Queues == intents \in Seq(Starts) /\ posts \in Seq(Posts)
QueueTypes == Queues /\ events \in 0 .. MaxEvents

(* Intents come in the order of the taps, each start's coroutine is        *)
(* launched once, and the connections in the fields are the live ones.     *)
StartInv ==
    /\ \A n \in Starts : n > started => pc[n] = "none"
    /\ \A i \in 1 .. Len(intents) : intents[i] <= started /\ pc[intents[i]] = "none"
    /\ \A i, j \in 1 .. Len(intents) : i < j => intents[i] < intents[j]
    /\ controlClient <= started
    /\ controlClient # Null => IsOpen(control, controlClient)
    /\ pendingControlClient # Null =>
          /\ pendingControlClient <= started /\ controlClient < pendingControlClient
          /\ IsOpen(control, pendingControlClient)
          /\ intents # << >>

(* What is open is in a field, or a later start took the field over, or it *)
(* was opened by a start that the destruction of the service cut off.      *)
HeldInv ==
    \A n \in Starts :
       /\ IsOpen(control, n) => n \in {pendingControlClient, controlClient} \cup replaced
       /\ IsOpen(video, n) => n \in Receivers \cup replaced \cup cut
       /\ IsOpen(touch, n) => n \in {touchSender} \cup replaced \cup cut

(* From onDestroy on there is nothing more to start, and what is still     *)
(* under way was cut off.                                                  *)
Ending == destroyed \/ main = "destroy"
EndInv ==
    /\ Ending =>
          /\ intents = << >> /\ pendingControlClient = Null
          /\ \A n \in Starts : UnderWay(n) => n \in cut
          /\ ticking => cut # {}
    /\ destroyed => controlClient = Null /\ touchSender = Null /\ \A m \in Modes : receiver[m] = Null

(* A start has no video socket before its coroutine has run.               *)
VideoInv ==
    \A n \in Starts :
       pc[n] \in {"none", "launched"} => video[n] = "none" /\ n \notin Receivers

(* As long as no cleanup met a start and no start another one, every job   *)
(* that has not ended is in its field or cancelled, no job is launched on  *)
(* a closed socket without being cancelled, and a job that has made its    *)
(* check finds its socket open.                                            *)
Calm == ~interrupted /\ replaced = {}
CalmInv ==
    /\ crashed => ~Calm
    /\ Calm =>
          /\ \A n \in Starts :
                /\ job[n] \in {"launched", "checked", "running"} => n = receiveJob \/ n \in cancelled
                /\ job[n] = "launched" /\ video[n] = "closed" => n \in cancelled
                /\ Connecting(n) \/ job[n] = "checked" => video[n] # "closed" /\ main = "idle"
          /\ main # "idle" => receiveJob = Null

Has(s, x) == \E i \in 1 .. Len(s) : s[i] = x

(* Somebody watches the connection in the field, or will, or has noticed.  *)
WatchInv ==
    controlClient # Null =>
       \/ \E n \in Starts :
             \/ Connecting(n)
             \/ monitor[n] = "launched"
             \/ monitor[n] = "reading" /\ watched[n] = controlClient
       \/ Has(posts, Post(Null, "disconnect"))
       \/ main # "idle"

SafeInv ==
    /\ StartTypes /\ SocketTypes /\ CoroutineTypes /\ MainTypes /\ QueueTypes
    /\ StartInv /\ HeldInv /\ EndInv /\ VideoInv /\ CalmInv /\ WatchInv

-----------------------------------------------------------------------------
(* The steps, and sequences that grow and shrink.                          *)

\* The actions a step can be.
LEMMA StepCases ==
  ASSUME [Next]_vars
  PROVE  \/ Connect \/ OnStartCommand \/ RunConnected \/ RunDisconnect \/ CloseFields
         \/ OnDestroy
         \/ \E n \in Starts :
               \/ NeverStarts(n) \/ BindUdp(n) \/ StartUsb(n) \/ SendReady(n)
               \/ SendReadyFails(n) \/ ConnectVideo(n) \/ ConnectVideoCancelled(n)
               \/ FinishStart(n)
               \/ StartReceiving(n) \/ ReadSocket(n) \/ StartWithoutSocket(n)
               \/ StopReceiving(n)
               \/ ConnectTouch(n) \/ ConnectTouchCancelled(n) \/ StartMonitor(n)
               \/ MonitorEnds(n)
         \/ UserDisconnects
         \/ \E n \in Starts :
               \/ ServerClosesControl(n) \/ VideoEnds(n) \/ BindUdpFails(n)
               \/ ConnectVideoFails(n) \/ ConnectTouchFails(n)
         \/ UNCHANGED vars
BY DEF Next, Step, MainThread, Pipeline, Others, Event

\* What Append does to a sequence.
LEMMA Appended ==
  ASSUME NEW S, NEW s \in Seq(S), NEW x \in S
  PROVE  /\ Append(s, x) \in Seq(S) /\ Len(Append(s, x)) = Len(s) + 1 /\ Len(s) \in Nat
         /\ \A k \in 1 .. Len(s) : Append(s, x)[k] = s[k]
         /\ Append(s, x)[Len(s) + 1] = x
BY AppendProperties, LenProperties

\* What Tail and Head do to a sequence.
LEMMA Dropped ==
  ASSUME NEW S, NEW s \in Seq(S), s # <<>>
  PROVE  /\ Tail(s) \in Seq(S) /\ Len(Tail(s)) = Len(s) - 1 /\ Len(s) \in Nat \ {0}
         /\ \A k \in 1 .. Len(s) - 1 : Tail(s)[k] = s[k + 1]
         /\ Head(s) = s[1] /\ Head(s) \in S
BY HeadTailProperties, EmptySeq, LenProperties

\* Starts are numbers other than Null.
LEMMA StartNumbers ==
  /\ MaxStarts \in Nat /\ Null = 0
  /\ \A n \in Starts : n \in Nat /\ n # Null
  /\ \A k \in Nat : k < MaxStarts => k + 1 \in Starts
BY ServiceAssumption DEF Starts, Null

-----------------------------------------------------------------------------
(* Types.                                                                  *)

\* The taps on Connect and the fields of the service.
LEMMA StartTypesStep ==
  ASSUME StartTypes, QueueTypes, [Next]_vars
  PROVE  StartTypes'
<1>1. CASE Connect
  <2>1. started + 1 \in Starts /\ started + 1 \in 0 .. MaxStarts
    BY <1>1, StartNumbers DEF Connect, StartTypes, Starts
  <2>2. PICK m \in Modes : mode' = [mode EXCEPT ![started'] = m]
    BY <1>1 DEF Connect
  <2> QED
    BY <1>1, <2>1, <2>2
       DEF Connect, Replace, StartTypes, vars, startVars, fieldVars, socketVars,
        coVars, mainVars, noteVars
<1>2. CASE OnStartCommand
  <2>1. Head(intents) \in Starts
    BY <1>2, Dropped DEF OnStartCommand, QueueTypes, Queues
  <2> QED
    BY StartNumbers, <1>2, <2>1
       DEF OnStartCommand, Replace, StartTypes, vars, startVars, fieldVars, socketVars,
        coVars, mainVars, noteVars
<1>3. CASE RunConnected
  BY StartNumbers, <1>3
     DEF RunConnected, Post, StartTypes, Starts, vars, startVars, fieldVars,
      socketVars, coVars, mainVars, noteVars
<1>4. CASE RunDisconnect
  BY StartNumbers, <1>4 DEF RunDisconnect, Cancel, JobsOfFields, StartTypes, Starts,
     vars, startVars, fieldVars, socketVars, coVars, mainVars, noteVars
<1>5. CASE CloseFields
  BY StartNumbers, <1>5 DEF CloseFields, CloseThose, Receivers, StartTypes, Starts,
     vars, startVars, fieldVars, socketVars, coVars, mainVars, noteVars
<1>6. CASE OnDestroy
  BY StartNumbers, <1>6
     DEF OnDestroy, Cancel, JobsOfFields, StartTypes, Starts, vars, startVars,
      fieldVars, socketVars, coVars, mainVars, noteVars
<1>7. ASSUME NEW n \in Starts, NeverStarts(n) PROVE StartTypes'
  BY StartNumbers, <1>7
     DEF NeverStarts, Co, StartTypes, Starts, vars, startVars, fieldVars, socketVars,
      coVars, mainVars, noteVars
<1>8. ASSUME NEW n \in Starts, BindUdp(n) PROVE StartTypes'
  BY StartNumbers, <1>8
     DEF BindUdp, Starting, Co, Replace, StartTypes, Starts, vars, startVars,
      fieldVars, socketVars, coVars, mainVars, noteVars
<1>9. ASSUME NEW n \in Starts, StartUsb(n) PROVE StartTypes'
  BY StartNumbers, <1>9
     DEF StartUsb, Starting, Co, StartTypes, Starts, vars, startVars, fieldVars,
      socketVars, coVars, mainVars, noteVars
<1>10. ASSUME NEW n \in Starts, SendReady(n) PROVE StartTypes'
  BY StartNumbers, <1>10
     DEF SendReady, Co, StartTypes, Starts, vars, startVars, fieldVars, socketVars,
      coVars, mainVars, noteVars
<1>11. ASSUME NEW n \in Starts, SendReadyFails(n) PROVE StartTypes'
  BY StartNumbers, <1>11
     DEF SendReadyFails, Fail, Co, Post, StartTypes, Starts, vars, startVars,
      fieldVars, socketVars, coVars, mainVars, noteVars
<1>12. ASSUME NEW n \in Starts, ConnectVideo(n) PROVE StartTypes'
  BY StartNumbers, <1>12
     DEF ConnectVideo, Co, Replace, StartTypes, Starts, vars, startVars, fieldVars,
      socketVars, coVars, mainVars, noteVars
<1>13. ASSUME NEW n \in Starts, ConnectVideoCancelled(n) PROVE StartTypes'
  BY StartNumbers, <1>13 DEF ConnectVideoCancelled, Fail, Co, Post, StartTypes, Starts,
     vars, startVars, fieldVars, socketVars, coVars, mainVars, noteVars
<1>14. ASSUME NEW n \in Starts, FinishStart(n) PROVE StartTypes'
  BY StartNumbers, <1>14 DEF FinishStart, Co, Launched, Replace, Post, StartTypes,
     Starts, vars, startVars, fieldVars, socketVars, coVars, mainVars, noteVars
<1>15. ASSUME NEW n \in Starts, StartReceiving(n) PROVE StartTypes'
  BY StartNumbers, <1>15
     DEF StartReceiving, Job, Stopped, StartTypes, Starts, vars, startVars, fieldVars,
      socketVars, coVars, mainVars, noteVars
<1>16. ASSUME NEW n \in Starts, StartWithoutSocket(n) PROVE StartTypes'
  BY StartNumbers, <1>16 DEF StartWithoutSocket, Job, Stopped, StartTypes, Starts,
     vars, startVars, fieldVars, socketVars, coVars, mainVars, noteVars
<1>17. ASSUME NEW n \in Starts, StopReceiving(n) PROVE StartTypes'
  BY StartNumbers, <1>17
     DEF StopReceiving, Job, Stopped, StartTypes, Starts, vars, startVars, fieldVars,
      socketVars, coVars, mainVars, noteVars
<1>18. ASSUME NEW n \in Starts, ConnectTouch(n) PROVE StartTypes'
  BY StartNumbers, <1>18
     DEF ConnectTouch, Touch, Replace, StartTypes, Starts, vars, startVars, fieldVars,
      socketVars, coVars, mainVars, noteVars
<1>19. ASSUME NEW n \in Starts, ConnectTouchCancelled(n) PROVE StartTypes'
  BY StartNumbers, <1>19
     DEF ConnectTouchCancelled, Touch, StartTypes, Starts, vars, startVars, fieldVars,
      socketVars, coVars, mainVars, noteVars
<1>20. ASSUME NEW n \in Starts, StartMonitor(n) PROVE StartTypes'
  BY StartNumbers, <1>20
     DEF StartMonitor, Monitor, StartTypes, Starts, vars, startVars, fieldVars,
      socketVars, coVars, mainVars, noteVars
<1>21. ASSUME NEW n \in Starts, MonitorEnds(n) PROVE StartTypes'
  BY StartNumbers, <1>21
     DEF MonitorEnds, Monitor, Post, StartTypes, Starts, vars, startVars, fieldVars,
      socketVars, coVars, mainVars, noteVars
<1>22. CASE UserDisconnects
  BY StartNumbers, <1>22 DEF UserDisconnects, Cancel, JobsOfFields, StartTypes, Starts,
     vars, startVars, fieldVars, socketVars, coVars, mainVars, noteVars
<1>23. ASSUME NEW n \in Starts, ServerClosesControl(n) PROVE StartTypes'
  BY StartNumbers, <1>23
     DEF ServerClosesControl, StartTypes, Starts, vars, startVars, fieldVars,
      socketVars, coVars, mainVars, noteVars
<1>24. ASSUME NEW n \in Starts, VideoEnds(n) PROVE StartTypes'
  BY StartNumbers, <1>24
     DEF VideoEnds, Job, StartTypes, Starts, vars, startVars, fieldVars, socketVars,
      coVars, mainVars, noteVars
<1>25. ASSUME NEW n \in Starts, ConnectVideoFails(n) PROVE StartTypes'
  BY StartNumbers, <1>25 DEF ConnectVideoFails, Fail, Co, Post, StartTypes, Starts,
     vars, startVars, fieldVars, socketVars, coVars, mainVars, noteVars
<1>26. ASSUME NEW n \in Starts, ConnectTouchFails(n) PROVE StartTypes'
  BY StartNumbers, <1>26
     DEF ConnectTouchFails, Touch, StartTypes, Starts, vars, startVars, fieldVars,
      socketVars, coVars, mainVars, noteVars
<1>27. CASE UNCHANGED vars
  BY <1>27
     DEF vars, startVars, fieldVars, socketVars, coVars, mainVars, noteVars,
      StartTypes, Starts
<1>28. ASSUME NEW n \in Starts, ReadSocket(n) PROVE StartTypes'
  BY StartNumbers, <1>28
     DEF ReadSocket, Job, Stopped, StartTypes, Starts, vars, startVars, fieldVars,
      socketVars, coVars, mainVars, noteVars
<1>29. ASSUME NEW n \in Starts, BindUdpFails(n) PROVE StartTypes'
  BY StartNumbers, <1>29 DEF BindUdpFails, Fail, Co, Post, StartTypes, Starts,
     vars, startVars, fieldVars, socketVars, coVars, mainVars, noteVars
<1> QED
  BY StepCases, <1>1, <1>2, <1>3, <1>4, <1>5, <1>6, <1>7, <1>8, <1>9, <1>10, <1>11,
     <1>12, <1>13, <1>14, <1>15, <1>16, <1>17, <1>18, <1>19, <1>20, <1>21, <1>22,
     <1>23, <1>24, <1>25, <1>26, <1>27, <1>28, <1>29

\* The sockets.
LEMMA SocketTypesStep ==
  ASSUME StartTypes, SocketTypes, [Next]_vars
  PROVE  SocketTypes'
<1>1. CASE Connect
  <2>1. started' \in Starts
    BY <1>1, StartNumbers DEF Connect, StartTypes
  <2> QED
    BY <1>1, <2>1
       DEF Connect, Replace, SocketTypes, SocketStates, vars, startVars, fieldVars,
        socketVars, coVars, mainVars, noteVars
<1>2. CASE OnStartCommand
  BY StartNumbers, <1>2
     DEF OnStartCommand, Replace, SocketTypes, SocketStates, vars, startVars,
      fieldVars, socketVars, coVars, mainVars, noteVars
<1>3. CASE RunConnected
  BY StartNumbers, <1>3
     DEF RunConnected, Post, SocketTypes, SocketStates, vars, startVars, fieldVars,
      socketVars, coVars, mainVars, noteVars
<1>4. CASE RunDisconnect
  BY StartNumbers, <1>4 DEF RunDisconnect, Cancel, JobsOfFields, SocketTypes,
     SocketStates, vars, startVars, fieldVars, socketVars, coVars, mainVars, noteVars
<1>5. CASE CloseFields
  BY StartNumbers, <1>5 DEF CloseFields, CloseThose, Receivers, SocketTypes,
     SocketStates, vars, startVars, fieldVars, socketVars, coVars, mainVars, noteVars
<1>6. CASE OnDestroy
  BY StartNumbers, <1>6 DEF OnDestroy, Cancel, JobsOfFields, SocketTypes, SocketStates,
     vars, startVars, fieldVars, socketVars, coVars, mainVars, noteVars
<1>7. ASSUME NEW n \in Starts, NeverStarts(n) PROVE SocketTypes'
  BY StartNumbers, <1>7
     DEF NeverStarts, Co, SocketTypes, SocketStates, vars, startVars, fieldVars,
      socketVars, coVars, mainVars, noteVars
<1>8. ASSUME NEW n \in Starts, BindUdp(n) PROVE SocketTypes'
  BY StartNumbers, <1>8 DEF BindUdp, Starting, Co, Replace, SocketTypes, SocketStates,
     vars, startVars, fieldVars, socketVars, coVars, mainVars, noteVars
<1>9. ASSUME NEW n \in Starts, StartUsb(n) PROVE SocketTypes'
  BY StartNumbers, <1>9
     DEF StartUsb, Starting, Co, SocketTypes, SocketStates, vars, startVars, fieldVars,
      socketVars, coVars, mainVars, noteVars
<1>10. ASSUME NEW n \in Starts, SendReady(n) PROVE SocketTypes'
  BY StartNumbers, <1>10
     DEF SendReady, Co, SocketTypes, SocketStates, vars, startVars, fieldVars,
      socketVars, coVars, mainVars, noteVars
<1>11. ASSUME NEW n \in Starts, SendReadyFails(n) PROVE SocketTypes'
  BY StartNumbers, <1>11 DEF SendReadyFails, Fail, Co, Post, SocketTypes, SocketStates,
     vars, startVars, fieldVars, socketVars, coVars, mainVars, noteVars
<1>12. ASSUME NEW n \in Starts, ConnectVideo(n) PROVE SocketTypes'
  BY StartNumbers, <1>12 DEF ConnectVideo, Co, Replace, SocketTypes, SocketStates,
     vars, startVars, fieldVars, socketVars, coVars, mainVars, noteVars
<1>13. ASSUME NEW n \in Starts, ConnectVideoCancelled(n) PROVE SocketTypes'
  BY StartNumbers, <1>13 DEF ConnectVideoCancelled, Fail, Co, Post, SocketTypes,
     SocketStates, vars, startVars, fieldVars, socketVars, coVars, mainVars, noteVars
<1>14. ASSUME NEW n \in Starts, FinishStart(n) PROVE SocketTypes'
  BY StartNumbers, <1>14 DEF FinishStart, Co, Launched, Replace, Post, SocketTypes,
     SocketStates, vars, startVars, fieldVars, socketVars, coVars, mainVars, noteVars
<1>15. ASSUME NEW n \in Starts, StartReceiving(n) PROVE SocketTypes'
  BY StartNumbers, <1>15 DEF StartReceiving, Job, Stopped, SocketTypes, SocketStates,
     vars, startVars, fieldVars, socketVars, coVars, mainVars, noteVars
<1>16. ASSUME NEW n \in Starts, StartWithoutSocket(n) PROVE SocketTypes'
  BY StartNumbers, <1>16 DEF StartWithoutSocket, Job, Stopped, SocketTypes,
     SocketStates, vars, startVars, fieldVars, socketVars, coVars, mainVars, noteVars
<1>17. ASSUME NEW n \in Starts, StopReceiving(n) PROVE SocketTypes'
  BY StartNumbers, <1>17 DEF StopReceiving, Job, Stopped, SocketTypes, SocketStates,
     vars, startVars, fieldVars, socketVars, coVars, mainVars, noteVars
<1>18. ASSUME NEW n \in Starts, ConnectTouch(n) PROVE SocketTypes'
  BY StartNumbers, <1>18 DEF ConnectTouch, Touch, Replace, SocketTypes, SocketStates,
     vars, startVars, fieldVars, socketVars, coVars, mainVars, noteVars
<1>19. ASSUME NEW n \in Starts, ConnectTouchCancelled(n) PROVE SocketTypes'
  BY StartNumbers, <1>19 DEF ConnectTouchCancelled, Touch, SocketTypes, SocketStates,
     vars, startVars, fieldVars, socketVars, coVars, mainVars, noteVars
<1>20. ASSUME NEW n \in Starts, StartMonitor(n) PROVE SocketTypes'
  BY StartNumbers, <1>20
     DEF StartMonitor, Monitor, SocketTypes, SocketStates, vars, startVars, fieldVars,
      socketVars, coVars, mainVars, noteVars
<1>21. ASSUME NEW n \in Starts, MonitorEnds(n) PROVE SocketTypes'
  BY StartNumbers, <1>21 DEF MonitorEnds, Monitor, Post, SocketTypes, SocketStates,
     vars, startVars, fieldVars, socketVars, coVars, mainVars, noteVars
<1>22. CASE UserDisconnects
  BY StartNumbers, <1>22 DEF UserDisconnects, Cancel, JobsOfFields, SocketTypes,
     SocketStates, vars, startVars, fieldVars, socketVars, coVars, mainVars, noteVars
<1>23. ASSUME NEW n \in Starts, ServerClosesControl(n) PROVE SocketTypes'
  BY StartNumbers, <1>23
     DEF ServerClosesControl, SocketTypes, SocketStates, vars, startVars, fieldVars,
      socketVars, coVars, mainVars, noteVars
<1>24. ASSUME NEW n \in Starts, VideoEnds(n) PROVE SocketTypes'
  BY StartNumbers, <1>24
     DEF VideoEnds, Job, SocketTypes, SocketStates, vars, startVars, fieldVars,
      socketVars, coVars, mainVars, noteVars
<1>25. ASSUME NEW n \in Starts, ConnectVideoFails(n) PROVE SocketTypes'
  BY StartNumbers, <1>25 DEF ConnectVideoFails, Fail, Co, Post, SocketTypes,
     SocketStates, vars, startVars, fieldVars, socketVars, coVars, mainVars, noteVars
<1>26. ASSUME NEW n \in Starts, ConnectTouchFails(n) PROVE SocketTypes'
  BY StartNumbers, <1>26
     DEF ConnectTouchFails, Touch, SocketTypes, SocketStates, vars, startVars,
      fieldVars, socketVars, coVars, mainVars, noteVars
<1>27. CASE UNCHANGED vars
  BY <1>27
     DEF vars, startVars, fieldVars, socketVars, coVars, mainVars, noteVars,
      SocketTypes, SocketStates
<1>28. ASSUME NEW n \in Starts, ReadSocket(n) PROVE SocketTypes'
  BY StartNumbers, <1>28 DEF ReadSocket, Job, Stopped, SocketTypes, SocketStates,
     vars, startVars, fieldVars, socketVars, coVars, mainVars, noteVars
<1>29. ASSUME NEW n \in Starts, BindUdpFails(n) PROVE SocketTypes'
  BY StartNumbers, <1>29 DEF BindUdpFails, Fail, Co, Post, SocketTypes,
     SocketStates, vars, startVars, fieldVars, socketVars, coVars, mainVars, noteVars
<1> QED
  BY StepCases, <1>1, <1>2, <1>3, <1>4, <1>5, <1>6, <1>7, <1>8, <1>9, <1>10, <1>11,
     <1>12, <1>13, <1>14, <1>15, <1>16, <1>17, <1>18, <1>19, <1>20, <1>21, <1>22,
     <1>23, <1>24, <1>25, <1>26, <1>27, <1>28, <1>29

\* The coroutines.
LEMMA CoroutineTypesStep ==
  ASSUME StartTypes, CoroutineTypes, QueueTypes, [Next]_vars
  PROVE  CoroutineTypes'
<1>1. CASE Connect
  BY <1>1
     DEF Connect, Replace, CoroutineTypes, StartTypes, vars, startVars, fieldVars,
      socketVars, coVars, mainVars, noteVars
<1>2. CASE OnStartCommand
  <2>1. Head(intents) \in Starts
    BY <1>2, Dropped DEF OnStartCommand, QueueTypes, Queues
  <2> QED
    BY <1>2, <2>1
       DEF OnStartCommand, Replace, CoroutineTypes, vars, startVars, fieldVars,
        socketVars, coVars, mainVars, noteVars
<1>3. CASE RunConnected
  BY <1>3
     DEF RunConnected, Post, CoroutineTypes, StartTypes, vars, startVars, fieldVars,
      socketVars, coVars, mainVars, noteVars
<1>4. CASE RunDisconnect
  BY <1>4 DEF RunDisconnect, Cancel, JobsOfFields, CoroutineTypes, StartTypes, vars,
     startVars, fieldVars, socketVars, coVars, mainVars, noteVars
<1>5. CASE CloseFields
  BY <1>5 DEF CloseFields, CloseThose, Receivers, CoroutineTypes, StartTypes, vars,
     startVars, fieldVars, socketVars, coVars, mainVars, noteVars
<1>6. CASE OnDestroy
  BY <1>6 DEF OnDestroy, Cancel, JobsOfFields, CoroutineTypes, StartTypes, vars,
     startVars, fieldVars, socketVars, coVars, mainVars, noteVars
<1>7. ASSUME NEW n \in Starts, NeverStarts(n) PROVE CoroutineTypes'
  BY <1>7
     DEF NeverStarts, Co, CoroutineTypes, StartTypes, vars, startVars, fieldVars,
      socketVars, coVars, mainVars, noteVars
<1>8. ASSUME NEW n \in Starts, BindUdp(n) PROVE CoroutineTypes'
  BY <1>8 DEF BindUdp, Starting, Co, Replace, Modes, CoroutineTypes, StartTypes, vars,
     startVars, fieldVars, socketVars, coVars, mainVars, noteVars
<1>9. ASSUME NEW n \in Starts, StartUsb(n) PROVE CoroutineTypes'
  BY <1>9 DEF StartUsb, Starting, Co, Modes, CoroutineTypes, StartTypes, vars,
     startVars, fieldVars, socketVars, coVars, mainVars, noteVars
<1>10. ASSUME NEW n \in Starts, SendReady(n) PROVE CoroutineTypes'
  BY <1>10
     DEF SendReady, Co, CoroutineTypes, StartTypes, vars, startVars, fieldVars,
      socketVars, coVars, mainVars, noteVars
<1>11. ASSUME NEW n \in Starts, SendReadyFails(n) PROVE CoroutineTypes'
  BY <1>11 DEF SendReadyFails, Fail, Co, Post, CoroutineTypes, StartTypes, vars,
     startVars, fieldVars, socketVars, coVars, mainVars, noteVars
<1>12. ASSUME NEW n \in Starts, ConnectVideo(n) PROVE CoroutineTypes'
  BY <1>12 DEF ConnectVideo, Co, Replace, CoroutineTypes, StartTypes, vars, startVars,
     fieldVars, socketVars, coVars, mainVars, noteVars
<1>13. ASSUME NEW n \in Starts, ConnectVideoCancelled(n) PROVE CoroutineTypes'
  BY <1>13 DEF ConnectVideoCancelled, Fail, Co, Post, CoroutineTypes, StartTypes, vars,
     startVars, fieldVars, socketVars, coVars, mainVars, noteVars
<1>14. ASSUME NEW n \in Starts, FinishStart(n) PROVE CoroutineTypes'
  BY <1>14 DEF FinishStart, Co, Launched, Replace, Post, CoroutineTypes, StartTypes,
     vars, startVars, fieldVars, socketVars, coVars, mainVars, noteVars
<1>15. ASSUME NEW n \in Starts, StartReceiving(n) PROVE CoroutineTypes'
  BY <1>15 DEF StartReceiving, Job, Stopped, CoroutineTypes, StartTypes, vars,
     startVars, fieldVars, socketVars, coVars, mainVars, noteVars
<1>16. ASSUME NEW n \in Starts, StartWithoutSocket(n) PROVE CoroutineTypes'
  BY <1>16 DEF StartWithoutSocket, Job, Stopped, CoroutineTypes, StartTypes, vars,
     startVars, fieldVars, socketVars, coVars, mainVars, noteVars
<1>17. ASSUME NEW n \in Starts, StopReceiving(n) PROVE CoroutineTypes'
  BY <1>17 DEF StopReceiving, Job, Stopped, CoroutineTypes, StartTypes, vars,
     startVars, fieldVars, socketVars, coVars, mainVars, noteVars
<1>18. ASSUME NEW n \in Starts, ConnectTouch(n) PROVE CoroutineTypes'
  BY <1>18 DEF ConnectTouch, Touch, Replace, CoroutineTypes, StartTypes, vars,
     startVars, fieldVars, socketVars, coVars, mainVars, noteVars
<1>19. ASSUME NEW n \in Starts, ConnectTouchCancelled(n) PROVE CoroutineTypes'
  BY <1>19 DEF ConnectTouchCancelled, Touch, CoroutineTypes, StartTypes, vars,
     startVars, fieldVars, socketVars, coVars, mainVars, noteVars
<1>20. ASSUME NEW n \in Starts, StartMonitor(n) PROVE CoroutineTypes'
  BY <1>20
     DEF StartMonitor, Monitor, CoroutineTypes, StartTypes, vars, startVars, fieldVars,
      socketVars, coVars, mainVars, noteVars
<1>21. ASSUME NEW n \in Starts, MonitorEnds(n) PROVE CoroutineTypes'
  BY <1>21 DEF MonitorEnds, Monitor, Post, CoroutineTypes, StartTypes, vars, startVars,
     fieldVars, socketVars, coVars, mainVars, noteVars
<1>22. CASE UserDisconnects
  BY <1>22 DEF UserDisconnects, Cancel, JobsOfFields, CoroutineTypes, StartTypes, vars,
     startVars, fieldVars, socketVars, coVars, mainVars, noteVars
<1>23. ASSUME NEW n \in Starts, ServerClosesControl(n) PROVE CoroutineTypes'
  BY <1>23
     DEF ServerClosesControl, CoroutineTypes, StartTypes, vars, startVars, fieldVars,
      socketVars, coVars, mainVars, noteVars
<1>24. ASSUME NEW n \in Starts, VideoEnds(n) PROVE CoroutineTypes'
  BY <1>24
     DEF VideoEnds, Job, CoroutineTypes, StartTypes, vars, startVars, fieldVars,
      socketVars, coVars, mainVars, noteVars
<1>25. ASSUME NEW n \in Starts, ConnectVideoFails(n) PROVE CoroutineTypes'
  BY <1>25 DEF ConnectVideoFails, Fail, Co, Post, CoroutineTypes, StartTypes, vars,
     startVars, fieldVars, socketVars, coVars, mainVars, noteVars
<1>26. ASSUME NEW n \in Starts, ConnectTouchFails(n) PROVE CoroutineTypes'
  BY <1>26 DEF ConnectTouchFails, Touch, CoroutineTypes, StartTypes, vars, startVars,
     fieldVars, socketVars, coVars, mainVars, noteVars
<1>27. CASE UNCHANGED vars
  BY <1>27
     DEF vars, startVars, fieldVars, socketVars, coVars, mainVars, noteVars,
      CoroutineTypes, StartTypes
<1>28. ASSUME NEW n \in Starts, ReadSocket(n) PROVE CoroutineTypes'
  BY <1>28 DEF ReadSocket, Job, Stopped, CoroutineTypes, StartTypes, vars,
     startVars, fieldVars, socketVars, coVars, mainVars, noteVars
<1>29. ASSUME NEW n \in Starts, BindUdpFails(n) PROVE CoroutineTypes'
  BY <1>29 DEF BindUdpFails, Fail, Co, Post, CoroutineTypes, StartTypes, vars,
     startVars, fieldVars, socketVars, coVars, mainVars, noteVars
<1> QED
  BY StepCases, <1>1, <1>2, <1>3, <1>4, <1>5, <1>6, <1>7, <1>8, <1>9, <1>10, <1>11,
     <1>12, <1>13, <1>14, <1>15, <1>16, <1>17, <1>18, <1>19, <1>20, <1>21, <1>22,
     <1>23, <1>24, <1>25, <1>26, <1>27, <1>28, <1>29

\* The main thread.
LEMMA MainTypesStep ==
  ASSUME StartTypes, MainTypes, [Next]_vars
  PROVE  MainTypes'
<1>1. CASE Connect
  BY <1>1 DEF Connect, Replace, MainTypes, StartTypes, UnderWay, Connecting, vars,
     startVars, fieldVars, socketVars, coVars, mainVars, noteVars
<1>2. CASE OnStartCommand
  BY <1>2 DEF OnStartCommand, Replace, MainTypes, StartTypes, UnderWay, Connecting,
     vars, startVars, fieldVars, socketVars, coVars, mainVars, noteVars
<1>3. CASE RunConnected
  BY <1>3 DEF RunConnected, Post, MainTypes, StartTypes, UnderWay, Connecting, vars,
     startVars, fieldVars, socketVars, coVars, mainVars, noteVars
<1>4. CASE RunDisconnect
  BY <1>4 DEF RunDisconnect, Cancel, JobsOfFields, MainTypes, StartTypes, UnderWay,
     Connecting, vars, startVars, fieldVars, socketVars, coVars, mainVars, noteVars
<1>5. CASE CloseFields
  BY <1>5 DEF CloseFields, CloseThose, Receivers, MainTypes, StartTypes, UnderWay,
     Connecting, vars, startVars, fieldVars, socketVars, coVars, mainVars, noteVars
<1>6. CASE OnDestroy
  BY <1>6 DEF OnDestroy, Cancel, JobsOfFields, MainTypes, StartTypes, UnderWay,
     Connecting, vars, startVars, fieldVars, socketVars, coVars, mainVars, noteVars
<1>7. ASSUME NEW n \in Starts, NeverStarts(n) PROVE MainTypes'
  BY <1>7 DEF NeverStarts, Co, MainTypes, StartTypes, UnderWay, Connecting, vars,
     startVars, fieldVars, socketVars, coVars, mainVars, noteVars
<1>8. ASSUME NEW n \in Starts, BindUdp(n) PROVE MainTypes'
  BY <1>8 DEF BindUdp, Starting, Co, Replace, Modes, MainTypes, StartTypes, UnderWay,
     Connecting, vars, startVars, fieldVars, socketVars, coVars, mainVars, noteVars
<1>9. ASSUME NEW n \in Starts, StartUsb(n) PROVE MainTypes'
  BY <1>9 DEF StartUsb, Starting, Co, MainTypes, StartTypes, UnderWay, Connecting,
     vars, startVars, fieldVars, socketVars, coVars, mainVars, noteVars
<1>10. ASSUME NEW n \in Starts, SendReady(n) PROVE MainTypes'
  BY <1>10 DEF SendReady, Co, MainTypes, StartTypes, UnderWay, Connecting, vars,
     startVars, fieldVars, socketVars, coVars, mainVars, noteVars
<1>11. ASSUME NEW n \in Starts, SendReadyFails(n) PROVE MainTypes'
  BY <1>11 DEF SendReadyFails, Fail, Co, Post, MainTypes, StartTypes, UnderWay,
     Connecting, vars, startVars, fieldVars, socketVars, coVars, mainVars, noteVars
<1>12. ASSUME NEW n \in Starts, ConnectVideo(n) PROVE MainTypes'
  BY <1>12 DEF ConnectVideo, Co, Replace, Modes, MainTypes, StartTypes, UnderWay,
     Connecting, vars, startVars, fieldVars, socketVars, coVars, mainVars, noteVars
<1>13. ASSUME NEW n \in Starts, ConnectVideoCancelled(n) PROVE MainTypes'
  BY <1>13 DEF ConnectVideoCancelled, Fail, Co, Post, MainTypes, StartTypes, UnderWay,
     Connecting, vars, startVars, fieldVars, socketVars, coVars, mainVars, noteVars
<1>14. ASSUME NEW n \in Starts, FinishStart(n) PROVE MainTypes'
  BY <1>14 DEF FinishStart, Co, Launched, Replace, Post, MainTypes, StartTypes,
     UnderWay, Connecting, vars, startVars, fieldVars, socketVars, coVars, mainVars,
     noteVars
<1>15. ASSUME NEW n \in Starts, StartReceiving(n) PROVE MainTypes'
  BY <1>15 DEF StartReceiving, Job, Stopped, MainTypes, StartTypes, UnderWay,
     Connecting, vars, startVars, fieldVars, socketVars, coVars, mainVars, noteVars
<1>16. ASSUME NEW n \in Starts, StartWithoutSocket(n) PROVE MainTypes'
  BY <1>16 DEF StartWithoutSocket, Job, Stopped, MainTypes, StartTypes, UnderWay,
     Connecting, vars, startVars, fieldVars, socketVars, coVars, mainVars, noteVars
<1>17. ASSUME NEW n \in Starts, StopReceiving(n) PROVE MainTypes'
  BY <1>17 DEF StopReceiving, Job, Stopped, MainTypes, StartTypes, UnderWay,
     Connecting, vars, startVars, fieldVars, socketVars, coVars, mainVars, noteVars
<1>18. ASSUME NEW n \in Starts, ConnectTouch(n) PROVE MainTypes'
  BY <1>18 DEF ConnectTouch, Touch, Replace, MainTypes, StartTypes, UnderWay,
     Connecting, vars, startVars, fieldVars, socketVars, coVars, mainVars, noteVars
<1>19. ASSUME NEW n \in Starts, ConnectTouchCancelled(n) PROVE MainTypes'
  BY <1>19 DEF ConnectTouchCancelled, Touch, MainTypes, StartTypes, UnderWay,
     Connecting, vars, startVars, fieldVars, socketVars, coVars, mainVars, noteVars
<1>20. ASSUME NEW n \in Starts, StartMonitor(n) PROVE MainTypes'
  BY <1>20 DEF StartMonitor, Monitor, MainTypes, StartTypes, UnderWay, Connecting,
     vars, startVars, fieldVars, socketVars, coVars, mainVars, noteVars
<1>21. ASSUME NEW n \in Starts, MonitorEnds(n) PROVE MainTypes'
  BY <1>21 DEF MonitorEnds, Monitor, Post, MainTypes, StartTypes, UnderWay, Connecting,
     vars, startVars, fieldVars, socketVars, coVars, mainVars, noteVars
<1>22. CASE UserDisconnects
  BY <1>22 DEF UserDisconnects, Cancel, JobsOfFields, MainTypes, StartTypes, UnderWay,
     Connecting, vars, startVars, fieldVars, socketVars, coVars, mainVars, noteVars
<1>23. ASSUME NEW n \in Starts, ServerClosesControl(n) PROVE MainTypes'
  BY <1>23 DEF ServerClosesControl, MainTypes, StartTypes, UnderWay, Connecting, vars,
     startVars, fieldVars, socketVars, coVars, mainVars, noteVars
<1>24. ASSUME NEW n \in Starts, VideoEnds(n) PROVE MainTypes'
  BY <1>24 DEF VideoEnds, Job, MainTypes, StartTypes, UnderWay, Connecting, vars,
     startVars, fieldVars, socketVars, coVars, mainVars, noteVars
<1>25. ASSUME NEW n \in Starts, ConnectVideoFails(n) PROVE MainTypes'
  BY <1>25 DEF ConnectVideoFails, Fail, Co, Post, MainTypes, StartTypes, UnderWay,
     Connecting, vars, startVars, fieldVars, socketVars, coVars, mainVars, noteVars
<1>26. ASSUME NEW n \in Starts, ConnectTouchFails(n) PROVE MainTypes'
  BY <1>26 DEF ConnectTouchFails, Touch, MainTypes, StartTypes, UnderWay, Connecting,
     vars, startVars, fieldVars, socketVars, coVars, mainVars, noteVars
<1>27. CASE UNCHANGED vars
  BY <1>27
     DEF vars, startVars, fieldVars, socketVars, coVars, mainVars, noteVars, MainTypes,
      StartTypes, UnderWay, Connecting
<1>28. ASSUME NEW n \in Starts, ReadSocket(n) PROVE MainTypes'
  BY <1>28 DEF ReadSocket, Job, Stopped, MainTypes, StartTypes, UnderWay,
     Connecting, vars, startVars, fieldVars, socketVars, coVars, mainVars, noteVars
<1>29. ASSUME NEW n \in Starts, BindUdpFails(n) PROVE MainTypes'
  BY <1>29 DEF BindUdpFails, Fail, Co, Post, MainTypes, StartTypes, UnderWay,
     Connecting, vars, startVars, fieldVars, socketVars, coVars, mainVars, noteVars
<1> QED
  BY StepCases, <1>1, <1>2, <1>3, <1>4, <1>5, <1>6, <1>7, <1>8, <1>9, <1>10, <1>11,
     <1>12, <1>13, <1>14, <1>15, <1>16, <1>17, <1>18, <1>19, <1>20, <1>21, <1>22,
     <1>23, <1>24, <1>25, <1>26, <1>27, <1>28, <1>29

\* Intents and posts.
LEMMA QueuesStep ==
  ASSUME StartTypes, Queues, [Next]_vars
  PROVE  Queues'
<1>1. CASE Connect
  <2>1. started' \in Starts /\ intents' = Append(intents, started') /\ posts' = posts
    BY <1>1, StartNumbers
       DEF Connect, Replace, StartTypes, vars, startVars, fieldVars, socketVars,
        coVars, mainVars, noteVars
  <2>2. PICK x : x = started'
    OBVIOUS
  <2> QED
    BY <2>1, <2>2, Appended DEF Queues
<1>2. CASE OnStartCommand
  <2>1. intents # << >> /\ intents' = Tail(intents) /\ posts' = posts
    BY <1>2
       DEF OnStartCommand, Replace, vars, startVars, fieldVars, socketVars, coVars,
        mainVars, noteVars
  <2> QED
    BY <2>1, Dropped DEF Queues
<1>3. CASE RunConnected
  <2>1. posts # << >> /\ posts' = Tail(posts) /\ intents' = intents
    BY <1>3
       DEF RunConnected, Post, vars, startVars, fieldVars, socketVars, coVars,
        mainVars, noteVars
  <2> QED
    BY <2>1, Dropped DEF Queues
<1>4. CASE RunDisconnect
  <2>1. posts # << >> /\ posts' = Tail(posts) /\ intents' = intents
    BY <1>4
       DEF RunDisconnect, Cancel, JobsOfFields, vars, startVars, fieldVars, socketVars,
        coVars, mainVars, noteVars
  <2> QED
    BY <2>1, Dropped DEF Queues
<1>5. CASE CloseFields
  BY <1>5
     DEF CloseFields, CloseThose, Receivers, Queues, vars, startVars, fieldVars,
      socketVars, coVars, mainVars, noteVars
<1>6. CASE OnDestroy
  BY <1>6
     DEF OnDestroy, Cancel, JobsOfFields, Queues, vars, startVars, fieldVars,
      socketVars, coVars, mainVars, noteVars
<1>7. ASSUME NEW n \in Starts, NeverStarts(n) PROVE Queues'
  BY <1>7
     DEF NeverStarts, Co, Queues, vars, startVars, fieldVars, socketVars, coVars,
      mainVars, noteVars
<1>8. ASSUME NEW n \in Starts, BindUdp(n) PROVE Queues'
  BY <1>8
     DEF BindUdp, Starting, Co, Replace, Queues, vars, startVars, fieldVars,
      socketVars, coVars, mainVars, noteVars
<1>9. ASSUME NEW n \in Starts, StartUsb(n) PROVE Queues'
  BY <1>9
     DEF StartUsb, Starting, Co, Queues, vars, startVars, fieldVars, socketVars,
      coVars, mainVars, noteVars
<1>10. ASSUME NEW n \in Starts, SendReady(n) PROVE Queues'
  BY <1>10
     DEF SendReady, Co, Queues, vars, startVars, fieldVars, socketVars, coVars,
      mainVars, noteVars
<1>11. ASSUME NEW n \in Starts, SendReadyFails(n) PROVE Queues'
  <2>1. PICK x : posts' = Append(posts, x) /\ x \in Posts
    BY <1>11, StartNumbers DEF SendReadyFails, Fail, Co, Post, Posts
  <2>2. intents' = intents
    BY <1>11
       DEF SendReadyFails, Fail, Co, Post, vars, startVars, fieldVars, socketVars,
        coVars, mainVars, noteVars
  <2> QED
    BY <2>1, <2>2, Appended DEF Queues
<1>12. ASSUME NEW n \in Starts, ConnectVideo(n) PROVE Queues'
  BY <1>12
     DEF ConnectVideo, Co, Replace, Queues, vars, startVars, fieldVars, socketVars,
      coVars, mainVars, noteVars
<1>13. ASSUME NEW n \in Starts, ConnectVideoCancelled(n) PROVE Queues'
  <2>1. PICK x : posts' = Append(posts, x) /\ x \in Posts
    BY <1>13, StartNumbers DEF ConnectVideoCancelled, Fail, Co, Post, Posts
  <2>2. intents' = intents
    BY <1>13
       DEF ConnectVideoCancelled, Fail, Co, Post, vars, startVars, fieldVars,
        socketVars, coVars, mainVars, noteVars
  <2> QED
    BY <2>1, <2>2, Appended DEF Queues
<1>14. ASSUME NEW n \in Starts, FinishStart(n) PROVE Queues'
  <2>1. PICK x : posts' = Append(posts, x) /\ x \in Posts
    BY <1>14, StartNumbers DEF FinishStart, Co, Launched, Replace, Post, Posts
  <2>2. intents' = intents
    BY <1>14
       DEF FinishStart, Co, Launched, Replace, Post, vars, startVars, fieldVars,
        socketVars, coVars, mainVars, noteVars
  <2> QED
    BY <2>1, <2>2, Appended DEF Queues
<1>15. ASSUME NEW n \in Starts, StartReceiving(n) PROVE Queues'
  BY <1>15
     DEF StartReceiving, Job, Stopped, Queues, vars, startVars, fieldVars, socketVars,
      coVars, mainVars, noteVars
<1>16. ASSUME NEW n \in Starts, StartWithoutSocket(n) PROVE Queues'
  BY <1>16
     DEF StartWithoutSocket, Job, Stopped, Queues, vars, startVars, fieldVars,
      socketVars, coVars, mainVars, noteVars
<1>17. ASSUME NEW n \in Starts, StopReceiving(n) PROVE Queues'
  BY <1>17
     DEF StopReceiving, Job, Stopped, Queues, vars, startVars, fieldVars, socketVars,
      coVars, mainVars, noteVars
<1>18. ASSUME NEW n \in Starts, ConnectTouch(n) PROVE Queues'
  BY <1>18
     DEF ConnectTouch, Touch, Replace, Queues, vars, startVars, fieldVars, socketVars,
      coVars, mainVars, noteVars
<1>19. ASSUME NEW n \in Starts, ConnectTouchCancelled(n) PROVE Queues'
  BY <1>19
     DEF ConnectTouchCancelled, Touch, Queues, vars, startVars, fieldVars, socketVars,
      coVars, mainVars, noteVars
<1>20. ASSUME NEW n \in Starts, StartMonitor(n) PROVE Queues'
  BY <1>20
     DEF StartMonitor, Monitor, Queues, vars, startVars, fieldVars, socketVars, coVars,
      mainVars, noteVars
<1>21. ASSUME NEW n \in Starts, MonitorEnds(n) PROVE Queues'
  <2>1. PICK x : posts' = Append(posts, x) /\ x \in Posts
    BY <1>21, StartNumbers DEF MonitorEnds, Monitor, Post, Posts
  <2>2. intents' = intents
    BY <1>21
       DEF MonitorEnds, Monitor, Post, vars, startVars, fieldVars, socketVars, coVars,
        mainVars, noteVars
  <2> QED
    BY <2>1, <2>2, Appended DEF Queues
<1>22. CASE UserDisconnects
  BY <1>22
     DEF UserDisconnects, Cancel, JobsOfFields, Queues, vars, startVars, fieldVars,
      socketVars, coVars, mainVars, noteVars
<1>23. ASSUME NEW n \in Starts, ServerClosesControl(n) PROVE Queues'
  BY <1>23
     DEF ServerClosesControl, Queues, vars, startVars, fieldVars, socketVars, coVars,
      mainVars, noteVars
<1>24. ASSUME NEW n \in Starts, VideoEnds(n) PROVE Queues'
  BY <1>24
     DEF VideoEnds, Job, Queues, vars, startVars, fieldVars, socketVars, coVars,
      mainVars, noteVars
<1>25. ASSUME NEW n \in Starts, ConnectVideoFails(n) PROVE Queues'
  <2>1. PICK x : posts' = Append(posts, x) /\ x \in Posts
    BY <1>25, StartNumbers DEF ConnectVideoFails, Fail, Co, Post, Posts
  <2>2. intents' = intents
    BY <1>25
       DEF ConnectVideoFails, Fail, Co, Post, vars, startVars, fieldVars, socketVars,
        coVars, mainVars, noteVars
  <2> QED
    BY <2>1, <2>2, Appended DEF Queues
<1>26. ASSUME NEW n \in Starts, ConnectTouchFails(n) PROVE Queues'
  BY <1>26
     DEF ConnectTouchFails, Touch, Queues, vars, startVars, fieldVars, socketVars,
      coVars, mainVars, noteVars
<1>27. CASE UNCHANGED vars
  BY <1>27
     DEF vars, startVars, fieldVars, socketVars, coVars, mainVars, noteVars, Queues
<1>28. ASSUME NEW n \in Starts, ReadSocket(n) PROVE Queues'
  BY <1>28
     DEF ReadSocket, Job, Stopped, Queues, vars, startVars, fieldVars, socketVars,
      coVars, mainVars, noteVars
<1>29. ASSUME NEW n \in Starts, BindUdpFails(n) PROVE Queues'
  <2>1. PICK x : posts' = Append(posts, x) /\ x \in Posts
    BY <1>29, StartNumbers DEF BindUdpFails, Fail, Co, Post, Posts
  <2>2. intents' = intents
    BY <1>29
       DEF BindUdpFails, Fail, Co, Post, vars, startVars, fieldVars, socketVars,
        coVars, mainVars, noteVars
  <2> QED
    BY <2>1, <2>2, Appended DEF Queues
<1> QED
  BY StepCases, <1>1, <1>2, <1>3, <1>4, <1>5, <1>6, <1>7, <1>8, <1>9, <1>10, <1>11,
     <1>12, <1>13, <1>14, <1>15, <1>16, <1>17, <1>18, <1>19, <1>20, <1>21, <1>22,
     <1>23, <1>24, <1>25, <1>26, <1>27, <1>28, <1>29

\* The queues, and the bound on the events.
LEMMA QueueTypesStep ==
  ASSUME StartTypes, QueueTypes, [Next]_vars
  PROVE  QueueTypes'
<1>1. MaxEvents \in Nat
  BY ServiceAssumption
<1>2. events' = events \/ (events < MaxEvents /\ events' = events + 1)
  BY DEF Next, vars
<1>3. events' \in 0 .. MaxEvents
  BY <1>1, <1>2 DEF QueueTypes
<1> QED
  BY <1>3, QueuesStep DEF QueueTypes, Queues

-----------------------------------------------------------------------------
(* The parts of the invariant, step by step.                               *)

\* The intents are starts.
LEMMA IntentFacts ==
  ASSUME Queues
  PROVE  Len(intents) \in Nat /\ \A i \in 1 .. Len(intents) : intents[i] \in Starts
BY LenProperties, ElementOfSeq DEF Queues

\* Intents stay in the order of the taps, and the fields hold live connections.
LEMMA StartStep ==
  ASSUME StartTypes, SocketTypes, CoroutineTypes, QueueTypes, StartInv, [Next]_vars
  PROVE  StartInv'
<1>0. /\ Len(intents) \in Nat /\ \A i \in 1 .. Len(intents) : intents[i] \in Starts
      /\ Queues
  BY IntentFacts DEF QueueTypes
<1>1. CASE Connect
  <2>1. /\ started < MaxStarts /\ started' = started + 1 /\ started' \in Starts
        /\ started \in Nat /\ pc' = pc /\ controlClient' = controlClient
        /\ pendingControlClient' = started' /\ intents' = Append(intents, started')
        /\ control' = [control EXCEPT ![started'] = "open"]
    BY <1>1, StartNumbers DEF Connect, StartTypes, fieldVars, coVars
  <2>2. PICK q, new : q = intents' /\ new = started'
    OBVIOUS
  <2>3. /\ Len(q) = Len(intents) + 1 /\ q[Len(intents) + 1] = new
        /\ \A i \in 1 .. Len(intents) : q[i] = intents[i]
    BY <1>0, <2>1, <2>2, Appended DEF Queues
  <2>a. /\ new \in Starts /\ new = started + 1 /\ started \in Nat /\ new > started
        /\ pc[new] = "none" /\ Len(intents) \in Nat
    BY <1>0, <2>1, <2>2, StartNumbers DEF StartInv
  <2>b. \A i \in 1 .. Len(q) : i \in 1 .. Len(intents) \/ i = Len(intents) + 1
    BY <2>3, <2>a
  <2>c. ASSUME NEW i \in 1 .. Len(intents)
        PROVE  /\ q[i] = intents[i] /\ q[i] \in Nat /\ q[i] < new
               /\ pc[q[i]] = "none"
    <3>1. q[i] = intents[i] /\ q[i] \in Nat /\ q[i] <= started /\ pc[q[i]] = "none"
      BY <1>0, <2>3, StartNumbers DEF StartInv
    <3> QED
      BY <2>a, <3>1
  <2>d. new \in Nat /\ q[Len(intents) + 1] = new
    BY <2>3, <2>a
  <2>4. ASSUME NEW i \in 1 .. Len(q) PROVE q[i] <= new /\ pc[q[i]] = "none"
    <3>1. CASE i \in 1 .. Len(intents)
      BY <2>c, <2>d, <3>1
    <3>2. CASE i = Len(intents) + 1
      BY <2>a, <2>d, <3>2
    <3> QED
      BY <2>b, <3>1, <3>2
  <2>5. ASSUME NEW i \in 1 .. Len(q), NEW j \in 1 .. Len(q), i < j PROVE q[i] < q[j]
    <3>1. i \in 1 .. Len(intents)
      BY <2>3, <2>5, <2>a
    <3>2. CASE j \in 1 .. Len(intents)
      BY <2>c, <2>5, <3>1, <3>2 DEF StartInv
    <3>3. CASE j = Len(intents) + 1
      BY <2>c, <2>d, <3>1, <3>3
    <3> QED
      BY <2>b, <3>2, <3>3
  <2>6. controlClient \in Nat /\ controlClient <= started /\ controlClient < new
    BY <2>1, <2>2, StartNumbers DEF StartInv, StartTypes
  <2>7. q # << >>
    BY <1>0, <2>3
  <2>8. IsOpen(control, controlClient) => IsOpen(control', controlClient)
    BY <2>1, <2>2, <2>6 DEF IsOpen, SocketTypes
  <2>9. IsOpen(control', new)
    BY <2>1, <2>2 DEF IsOpen, SocketTypes
  <2>10. \A n \in Starts : n > new => pc[n] = "none"
    BY <2>1, <2>2, StartNumbers DEF StartInv
  <2>11. new <= new /\ controlClient <= new
    BY <2>1, <2>2, <2>6
  <2> QED
    BY <2>1, <2>2, <2>4, <2>5, <2>6, <2>7, <2>8, <2>9, <2>10, <2>11 DEF StartInv, IsOpen
<1>2. CASE OnStartCommand
  <2>1. /\ intents # << >> /\ intents' = Tail(intents) /\ params' = Head(intents)
        /\ started' = started /\ control' = control /\ pendingControlClient' = Null
        /\ controlClient' = pendingControlClient
        /\ pc' = [pc EXCEPT ![params'] = IF controlClient' = Null THEN "done" ELSE "launched"]
    BY <1>2 DEF OnStartCommand, socketVars
  <2>2. PICK q, first : q = intents' /\ first = params'
    OBVIOUS
  <2>3. /\ Len(q) = Len(intents) - 1 /\ Len(intents) \in Nat \ {0} /\ first = intents[1]
        /\ \A i \in 1 .. Len(intents) - 1 : q[i] = intents[i + 1]
    BY <1>0, <2>1, <2>2, Dropped DEF Queues
  <2>4. ASSUME NEW i \in 1 .. Len(q)
        PROVE  i + 1 \in 1 .. Len(intents) /\ 1 < i + 1 /\ q[i] = intents[i + 1]
    BY <2>3
  <2>5. 1 \in 1 .. Len(intents) /\ first \in Starts /\ first <= started
    BY <1>0, <2>3 DEF StartInv
  <2>6. ASSUME NEW i \in 1 .. Len(q) PROVE q[i] <= started /\ pc'[q[i]] = "none"
    <3>1. first < q[i] /\ q[i] \in Starts /\ q[i] <= started /\ pc[q[i]] = "none"
      BY <1>0, <2>3, <2>4, <2>5 DEF StartInv
    <3>2. first # q[i]
      BY <2>5, <3>1, StartNumbers
    <3> QED
      BY <2>1, <2>2, <3>1, <3>2 DEF CoroutineTypes
  <2>7. \A i, j \in 1 .. Len(q) : i < j => q[i] < q[j]
    <3>1. \A i, j \in 1 .. Len(q) : i < j => i + 1 < j + 1
      BY <2>3
    <3> QED
      BY <2>4, <3>1 DEF StartInv
  <2>8. \A n \in Starts : n > started => pc'[n] = "none"
    BY <2>1, <2>2, <2>5, StartNumbers DEF StartInv, CoroutineTypes, StartTypes
  <2>9. /\ controlClient' <= started /\ (controlClient' # Null => IsOpen(control, controlClient'))
    BY <2>1, StartNumbers DEF StartInv, StartTypes
  <2> QED
    BY <2>1, <2>2, <2>6, <2>7, <2>8, <2>9 DEF StartInv, IsOpen
<1>3. CASE RunConnected
  BY <1>0, StartNumbers, <1>3 DEF RunConnected, Post, StartInv, StartTypes,
     SocketTypes, CoroutineTypes, IsOpen, vars, startVars, fieldVars, socketVars,
     coVars, mainVars, noteVars
<1>4. CASE RunDisconnect
  BY <1>0, StartNumbers, <1>4 DEF RunDisconnect, Cancel, JobsOfFields, StartInv,
     StartTypes, SocketTypes, CoroutineTypes, IsOpen, vars, startVars, fieldVars,
     socketVars, coVars, mainVars, noteVars
<1>5. CASE CloseFields
  BY <1>0, StartNumbers, <1>5 DEF CloseFields, CloseThose, Receivers, StartInv,
     StartTypes, SocketTypes, CoroutineTypes, IsOpen, vars, startVars, fieldVars,
     socketVars, coVars, mainVars, noteVars
<1>6. CASE OnDestroy
  BY <1>0, StartNumbers, <1>6 DEF OnDestroy, Cancel, JobsOfFields, StartInv,
     StartTypes, SocketTypes, CoroutineTypes, IsOpen, vars, startVars, fieldVars,
     socketVars, coVars, mainVars, noteVars
<1>7. ASSUME NEW n \in Starts, NeverStarts(n) PROVE StartInv'
  BY <1>0, StartNumbers, <1>7 DEF NeverStarts, Co, StartInv, StartTypes, SocketTypes,
     CoroutineTypes, IsOpen, vars, startVars, fieldVars, socketVars, coVars, mainVars,
     noteVars
<1>8. ASSUME NEW n \in Starts, BindUdp(n) PROVE StartInv'
  BY <1>0, StartNumbers, <1>8 DEF BindUdp, Starting, Co, Replace, StartInv, StartTypes,
     SocketTypes, CoroutineTypes, IsOpen, vars, startVars, fieldVars, socketVars,
     coVars, mainVars, noteVars
<1>9. ASSUME NEW n \in Starts, StartUsb(n) PROVE StartInv'
  BY <1>0, StartNumbers, <1>9 DEF StartUsb, Starting, Co, StartInv, StartTypes,
     SocketTypes, CoroutineTypes, IsOpen, vars, startVars, fieldVars, socketVars,
     coVars, mainVars, noteVars
<1>10. ASSUME NEW n \in Starts, SendReady(n) PROVE StartInv'
  BY <1>0, StartNumbers, <1>10 DEF SendReady, Co, StartInv, StartTypes, SocketTypes,
     CoroutineTypes, IsOpen, vars, startVars, fieldVars, socketVars, coVars, mainVars,
     noteVars
<1>11. ASSUME NEW n \in Starts, SendReadyFails(n) PROVE StartInv'
  BY <1>0, StartNumbers, <1>11 DEF SendReadyFails, Fail, Co, Post, StartInv,
     StartTypes, SocketTypes, CoroutineTypes, IsOpen, vars, startVars, fieldVars,
     socketVars, coVars, mainVars, noteVars
<1>12. ASSUME NEW n \in Starts, ConnectVideo(n) PROVE StartInv'
  BY <1>0, StartNumbers, <1>12 DEF ConnectVideo, Co, Replace, StartInv, StartTypes,
     SocketTypes, CoroutineTypes, IsOpen, vars, startVars, fieldVars, socketVars,
     coVars, mainVars, noteVars
<1>13. ASSUME NEW n \in Starts, ConnectVideoCancelled(n) PROVE StartInv'
  BY <1>0, StartNumbers, <1>13 DEF ConnectVideoCancelled, Fail, Co, Post, StartInv,
     StartTypes, SocketTypes, CoroutineTypes, IsOpen, vars, startVars, fieldVars,
     socketVars, coVars, mainVars, noteVars
<1>14. ASSUME NEW n \in Starts, FinishStart(n) PROVE StartInv'
  BY <1>0, StartNumbers, <1>14 DEF FinishStart, Co, Launched, Replace, Post, StartInv,
     StartTypes, SocketTypes, CoroutineTypes, IsOpen, vars, startVars, fieldVars,
     socketVars, coVars, mainVars, noteVars
<1>15. ASSUME NEW n \in Starts, StartReceiving(n) PROVE StartInv'
  BY <1>0, StartNumbers, <1>15 DEF StartReceiving, Job, Stopped, StartInv, StartTypes,
     SocketTypes, CoroutineTypes, IsOpen, vars, startVars, fieldVars, socketVars,
     coVars, mainVars, noteVars
<1>16. ASSUME NEW n \in Starts, StartWithoutSocket(n) PROVE StartInv'
  BY <1>0, StartNumbers, <1>16 DEF StartWithoutSocket, Job, Stopped, StartInv,
     StartTypes, SocketTypes, CoroutineTypes, IsOpen, vars, startVars, fieldVars,
     socketVars, coVars, mainVars, noteVars
<1>17. ASSUME NEW n \in Starts, StopReceiving(n) PROVE StartInv'
  BY <1>0, StartNumbers, <1>17 DEF StopReceiving, Job, Stopped, StartInv, StartTypes,
     SocketTypes, CoroutineTypes, IsOpen, vars, startVars, fieldVars, socketVars,
     coVars, mainVars, noteVars
<1>18. ASSUME NEW n \in Starts, ConnectTouch(n) PROVE StartInv'
  BY <1>0, StartNumbers, <1>18 DEF ConnectTouch, Touch, Replace, StartInv, StartTypes,
     SocketTypes, CoroutineTypes, IsOpen, vars, startVars, fieldVars, socketVars,
     coVars, mainVars, noteVars
<1>19. ASSUME NEW n \in Starts, ConnectTouchCancelled(n) PROVE StartInv'
  BY <1>0, StartNumbers, <1>19 DEF ConnectTouchCancelled, Touch, StartInv, StartTypes,
     SocketTypes, CoroutineTypes, IsOpen, vars, startVars, fieldVars, socketVars,
     coVars, mainVars, noteVars
<1>20. ASSUME NEW n \in Starts, StartMonitor(n) PROVE StartInv'
  BY <1>0, StartNumbers, <1>20 DEF StartMonitor, Monitor, StartInv, StartTypes,
     SocketTypes, CoroutineTypes, IsOpen, vars, startVars, fieldVars, socketVars,
     coVars, mainVars, noteVars
<1>21. ASSUME NEW n \in Starts, MonitorEnds(n) PROVE StartInv'
  BY <1>0, StartNumbers, <1>21 DEF MonitorEnds, Monitor, Post, StartInv, StartTypes,
     SocketTypes, CoroutineTypes, IsOpen, vars, startVars, fieldVars, socketVars,
     coVars, mainVars, noteVars
<1>22. CASE UserDisconnects
  BY <1>0, StartNumbers, <1>22 DEF UserDisconnects, Cancel, JobsOfFields, StartInv,
     StartTypes, SocketTypes, CoroutineTypes, IsOpen, vars, startVars, fieldVars,
     socketVars, coVars, mainVars, noteVars
<1>23. ASSUME NEW n \in Starts, ServerClosesControl(n) PROVE StartInv'
  BY <1>0, StartNumbers, <1>23 DEF ServerClosesControl, StartInv, StartTypes,
     SocketTypes, CoroutineTypes, IsOpen, vars, startVars, fieldVars, socketVars,
     coVars, mainVars, noteVars
<1>24. ASSUME NEW n \in Starts, VideoEnds(n) PROVE StartInv'
  BY <1>0, StartNumbers, <1>24 DEF VideoEnds, Job, StartInv, StartTypes, SocketTypes,
     CoroutineTypes, IsOpen, vars, startVars, fieldVars, socketVars, coVars, mainVars,
     noteVars
<1>25. ASSUME NEW n \in Starts, ConnectVideoFails(n) PROVE StartInv'
  BY <1>0, StartNumbers, <1>25 DEF ConnectVideoFails, Fail, Co, Post, StartInv,
     StartTypes, SocketTypes, CoroutineTypes, IsOpen, vars, startVars, fieldVars,
     socketVars, coVars, mainVars, noteVars
<1>26. ASSUME NEW n \in Starts, ConnectTouchFails(n) PROVE StartInv'
  BY <1>0, StartNumbers, <1>26 DEF ConnectTouchFails, Touch, StartInv, StartTypes,
     SocketTypes, CoroutineTypes, IsOpen, vars, startVars, fieldVars, socketVars,
     coVars, mainVars, noteVars
<1>27. CASE UNCHANGED vars
  BY <1>27 DEF vars, startVars, fieldVars, socketVars, coVars, mainVars, noteVars,
     StartInv, StartTypes, SocketTypes, CoroutineTypes, IsOpen
<1>28. ASSUME NEW n \in Starts, ReadSocket(n) PROVE StartInv'
  BY <1>0, StartNumbers, <1>28 DEF ReadSocket, Job, Stopped, StartInv, StartTypes,
     SocketTypes, CoroutineTypes, IsOpen, vars, startVars, fieldVars, socketVars,
     coVars, mainVars, noteVars
<1>29. ASSUME NEW n \in Starts, BindUdpFails(n) PROVE StartInv'
  BY <1>0, StartNumbers, <1>29 DEF BindUdpFails, Fail, Co, Post, StartInv,
     StartTypes, SocketTypes, CoroutineTypes, IsOpen, vars, startVars, fieldVars,
     socketVars, coVars, mainVars, noteVars
<1> QED
  BY StepCases, <1>1, <1>2, <1>3, <1>4, <1>5, <1>6, <1>7, <1>8, <1>9, <1>10, <1>11,
     <1>12, <1>13, <1>14, <1>15, <1>16, <1>17, <1>18, <1>19, <1>20, <1>21, <1>22,
     <1>23, <1>24, <1>25, <1>26, <1>27, <1>28, <1>29

\* What is open stays in a field, or was given up by a later start or the end.
LEMMA HeldStep ==
  ASSUME StartTypes, SocketTypes, CoroutineTypes, MainTypes, StartInv, HeldInv, EndInv,
         [Next]_vars
  PROVE  HeldInv'
<1>1. CASE Connect
  BY StartNumbers, <1>1 DEF Connect, Replace, HeldInv, StartTypes, SocketTypes,
     CoroutineTypes, MainTypes, IsOpen, Receivers, Modes, vars, startVars, fieldVars,
     socketVars, coVars, mainVars, noteVars
<1>2. CASE OnStartCommand
  BY StartNumbers, <1>2 DEF OnStartCommand, Replace, HeldInv, StartTypes, SocketTypes,
     CoroutineTypes, MainTypes, IsOpen, Receivers, Modes, vars, startVars, fieldVars,
     socketVars, coVars, mainVars, noteVars
<1>3. CASE RunConnected
  BY StartNumbers, <1>3 DEF RunConnected, Post, HeldInv, StartTypes, SocketTypes,
     CoroutineTypes, MainTypes, IsOpen, Receivers, Modes, vars, startVars, fieldVars,
     socketVars, coVars, mainVars, noteVars
<1>4. CASE RunDisconnect
  BY StartNumbers, <1>4 DEF RunDisconnect, Cancel, JobsOfFields, HeldInv, StartTypes,
     SocketTypes, CoroutineTypes, MainTypes, IsOpen, Receivers, Modes, vars, startVars,
     fieldVars, socketVars, coVars, mainVars, noteVars
<1>5. CASE CloseFields
  BY StartNumbers, <1>5 DEF CloseFields, CloseThose, Receivers, HeldInv, StartTypes,
     SocketTypes, CoroutineTypes, MainTypes, IsOpen, Modes, vars, startVars, fieldVars,
     socketVars, coVars, mainVars, noteVars
<1>6. CASE OnDestroy
  BY StartNumbers, <1>6 DEF OnDestroy, Cancel, JobsOfFields, HeldInv, StartTypes,
     SocketTypes, CoroutineTypes, MainTypes, IsOpen, Receivers, Modes, vars, startVars,
     fieldVars, socketVars, coVars, mainVars, noteVars
<1>7. ASSUME NEW n \in Starts, NeverStarts(n) PROVE HeldInv'
  BY StartNumbers, <1>7 DEF NeverStarts, Co, HeldInv, StartTypes, SocketTypes,
     CoroutineTypes, MainTypes, IsOpen, Receivers, Modes, vars, startVars, fieldVars,
     socketVars, coVars, mainVars, noteVars
<1>8. ASSUME NEW n \in Starts, BindUdp(n) PROVE HeldInv'
  BY StartNumbers, <1>8 DEF BindUdp, Starting, Co, Replace, HeldInv, StartTypes,
     SocketTypes, CoroutineTypes, MainTypes, IsOpen, Receivers, Modes, vars, startVars,
     fieldVars, socketVars, coVars, mainVars, noteVars
<1>9. ASSUME NEW n \in Starts, StartUsb(n) PROVE HeldInv'
  BY StartNumbers, <1>9 DEF StartUsb, Starting, Co, HeldInv, StartTypes, SocketTypes,
     CoroutineTypes, MainTypes, IsOpen, Receivers, Modes, vars, startVars, fieldVars,
     socketVars, coVars, mainVars, noteVars
<1>10. ASSUME NEW n \in Starts, SendReady(n) PROVE HeldInv'
  BY StartNumbers, <1>10 DEF SendReady, Co, HeldInv, StartTypes, SocketTypes,
     CoroutineTypes, MainTypes, IsOpen, Receivers, Modes, vars, startVars, fieldVars,
     socketVars, coVars, mainVars, noteVars
<1>11. ASSUME NEW n \in Starts, SendReadyFails(n) PROVE HeldInv'
  BY StartNumbers, <1>11 DEF SendReadyFails, Fail, Co, Post, HeldInv, StartTypes,
     SocketTypes, CoroutineTypes, MainTypes, IsOpen, Receivers, Modes, vars, startVars,
     fieldVars, socketVars, coVars, mainVars, noteVars
<1>12. ASSUME NEW n \in Starts, ConnectVideo(n) PROVE HeldInv'
  BY StartNumbers, <1>12 DEF ConnectVideo, Co, Replace, HeldInv, StartTypes,
     SocketTypes, CoroutineTypes, MainTypes, IsOpen, Receivers, Modes, vars, startVars,
     fieldVars, socketVars, coVars, mainVars, noteVars
<1>13. ASSUME NEW n \in Starts, ConnectVideoCancelled(n) PROVE HeldInv'
  <2>1. destroyed /\ Connecting(n)
    BY <1>13 DEF ConnectVideoCancelled, Fail, Co, Post, Connecting
  <2>2. n \in cut
    BY <2>1 DEF EndInv, Ending, UnderWay
  <2>3. /\ control' = control /\ touch' = touch /\ receiver' = receiver /\ touchSender' = touchSender
        /\ controlClient' = controlClient /\ pendingControlClient' = pendingControlClient
        /\ replaced' = replaced /\ cut' = cut
        /\ (video' = video \/ video' = [video EXCEPT ![n] = "open"])
    BY <1>13
       DEF ConnectVideoCancelled, Fail, Co, Post, vars, startVars, fieldVars,
        socketVars, coVars, mainVars, noteVars
  <2>4. \A k \in Starts : k # n => video'[k] = video[k]
    BY <2>3 DEF SocketTypes
  <2>5. Receivers' = Receivers
    BY <2>3 DEF Receivers
  <2> QED
    BY <2>2, <2>3, <2>4, <2>5 DEF HeldInv, IsOpen
<1>14. ASSUME NEW n \in Starts, FinishStart(n) PROVE HeldInv'
  BY StartNumbers, <1>14 DEF FinishStart, Co, Launched, Replace, Post, HeldInv,
     StartTypes, SocketTypes, CoroutineTypes, MainTypes, IsOpen, Receivers, Modes,
     vars, startVars, fieldVars, socketVars, coVars, mainVars, noteVars
<1>15. ASSUME NEW n \in Starts, StartReceiving(n) PROVE HeldInv'
  BY StartNumbers, <1>15 DEF StartReceiving, Job, Stopped, HeldInv, StartTypes,
     SocketTypes, CoroutineTypes, MainTypes, IsOpen, Receivers, Modes, vars, startVars,
     fieldVars, socketVars, coVars, mainVars, noteVars
<1>16. ASSUME NEW n \in Starts, StartWithoutSocket(n) PROVE HeldInv'
  BY StartNumbers, <1>16 DEF StartWithoutSocket, Job, Stopped, HeldInv, StartTypes,
     SocketTypes, CoroutineTypes, MainTypes, IsOpen, Receivers, Modes, vars, startVars,
     fieldVars, socketVars, coVars, mainVars, noteVars
<1>17. ASSUME NEW n \in Starts, StopReceiving(n) PROVE HeldInv'
  BY StartNumbers, <1>17 DEF StopReceiving, Job, Stopped, HeldInv, StartTypes,
     SocketTypes, CoroutineTypes, MainTypes, IsOpen, Receivers, Modes, vars, startVars,
     fieldVars, socketVars, coVars, mainVars, noteVars
<1>18. ASSUME NEW n \in Starts, ConnectTouch(n) PROVE HeldInv'
  BY StartNumbers, <1>18 DEF ConnectTouch, Touch, Replace, HeldInv, StartTypes,
     SocketTypes, CoroutineTypes, MainTypes, IsOpen, Receivers, Modes, vars, startVars,
     fieldVars, socketVars, coVars, mainVars, noteVars
<1>19. ASSUME NEW n \in Starts, ConnectTouchCancelled(n) PROVE HeldInv'
  BY StartNumbers, <1>19 DEF ConnectTouchCancelled, Touch, EndInv, Ending, UnderWay,
     HeldInv, StartTypes, SocketTypes, CoroutineTypes, MainTypes, IsOpen, Receivers,
     Modes, vars, startVars, fieldVars, socketVars, coVars, mainVars, noteVars
<1>20. ASSUME NEW n \in Starts, StartMonitor(n) PROVE HeldInv'
  BY StartNumbers, <1>20 DEF StartMonitor, Monitor, HeldInv, StartTypes, SocketTypes,
     CoroutineTypes, MainTypes, IsOpen, Receivers, Modes, vars, startVars, fieldVars,
     socketVars, coVars, mainVars, noteVars
<1>21. ASSUME NEW n \in Starts, MonitorEnds(n) PROVE HeldInv'
  BY StartNumbers, <1>21 DEF MonitorEnds, Monitor, Post, HeldInv, StartTypes,
     SocketTypes, CoroutineTypes, MainTypes, IsOpen, Receivers, Modes, vars, startVars,
     fieldVars, socketVars, coVars, mainVars, noteVars
<1>22. CASE UserDisconnects
  BY StartNumbers, <1>22 DEF UserDisconnects, Cancel, JobsOfFields, HeldInv,
     StartTypes, SocketTypes, CoroutineTypes, MainTypes, IsOpen, Receivers, Modes,
     vars, startVars, fieldVars, socketVars, coVars, mainVars, noteVars
<1>23. ASSUME NEW n \in Starts, ServerClosesControl(n) PROVE HeldInv'
  BY StartNumbers, <1>23 DEF ServerClosesControl, HeldInv, StartTypes, SocketTypes,
     CoroutineTypes, MainTypes, IsOpen, Receivers, Modes, vars, startVars, fieldVars,
     socketVars, coVars, mainVars, noteVars
<1>24. ASSUME NEW n \in Starts, VideoEnds(n) PROVE HeldInv'
  BY StartNumbers, <1>24 DEF VideoEnds, Job, HeldInv, StartTypes, SocketTypes,
     CoroutineTypes, MainTypes, IsOpen, Receivers, Modes, vars, startVars, fieldVars,
     socketVars, coVars, mainVars, noteVars
<1>25. ASSUME NEW n \in Starts, ConnectVideoFails(n) PROVE HeldInv'
  BY StartNumbers, <1>25 DEF ConnectVideoFails, Fail, Co, Post, HeldInv, StartTypes,
     SocketTypes, CoroutineTypes, MainTypes, IsOpen, Receivers, Modes, vars, startVars,
     fieldVars, socketVars, coVars, mainVars, noteVars
<1>26. ASSUME NEW n \in Starts, ConnectTouchFails(n) PROVE HeldInv'
  BY StartNumbers, <1>26 DEF ConnectTouchFails, Touch, HeldInv, StartTypes,
     SocketTypes, CoroutineTypes, MainTypes, IsOpen, Receivers, Modes, vars, startVars,
     fieldVars, socketVars, coVars, mainVars, noteVars
<1>27. CASE UNCHANGED vars
  BY <1>27 DEF vars, startVars, fieldVars, socketVars, coVars, mainVars, noteVars,
     HeldInv, StartTypes, SocketTypes, CoroutineTypes, MainTypes, IsOpen, Receivers,
     Modes
<1>28. ASSUME NEW n \in Starts, ReadSocket(n) PROVE HeldInv'
  BY StartNumbers, <1>28 DEF ReadSocket, Job, Stopped, HeldInv, StartTypes,
     SocketTypes, CoroutineTypes, MainTypes, IsOpen, Receivers, Modes, vars, startVars,
     fieldVars, socketVars, coVars, mainVars, noteVars
<1>29. ASSUME NEW n \in Starts, BindUdpFails(n) PROVE HeldInv'
  BY StartNumbers, <1>29 DEF BindUdpFails, Fail, Co, Post, HeldInv, StartTypes,
     SocketTypes, CoroutineTypes, MainTypes, IsOpen, Receivers, Modes, vars, startVars,
     fieldVars, socketVars, coVars, mainVars, noteVars
<1> QED
  BY StepCases, <1>1, <1>2, <1>3, <1>4, <1>5, <1>6, <1>7, <1>8, <1>9, <1>10, <1>11,
     <1>12, <1>13, <1>14, <1>15, <1>16, <1>17, <1>18, <1>19, <1>20, <1>21, <1>22,
     <1>23, <1>24, <1>25, <1>26, <1>27, <1>28, <1>29

\* A start that has not run has no video socket.
LEMMA VideoStep ==
  ASSUME StartTypes, SocketTypes, CoroutineTypes, QueueTypes, StartInv, VideoInv,
         [Next]_vars
  PROVE  VideoInv'
<1>0. /\ Len(intents) \in Nat /\ \A i \in 1 .. Len(intents) : intents[i] \in Starts
      /\ Queues
  BY IntentFacts DEF QueueTypes
<1>1. CASE Connect
  BY StartNumbers, <1>1 DEF Connect, Replace, VideoInv, StartTypes, SocketTypes,
     CoroutineTypes, Receivers, Modes, vars, startVars, fieldVars, socketVars, coVars,
     mainVars, noteVars
<1>2. CASE OnStartCommand
  <2>1. Head(intents) = intents[1] /\ 1 \in 1 .. Len(intents)
    BY <1>0, <1>2, Dropped DEF OnStartCommand, Queues
  <2>2. Head(intents) \in Starts /\ pc[Head(intents)] = "none"
    BY <1>0, <2>1 DEF StartInv
  <2>3. /\ pc' = [pc EXCEPT ![Head(intents)] = IF controlClient' = Null THEN "done" ELSE "launched"]
        /\ video' = video /\ receiver' = receiver
    BY <1>2 DEF OnStartCommand, socketVars
  <2> QED
    BY <2>2, <2>3 DEF VideoInv, CoroutineTypes, Receivers
<1>3. CASE RunConnected
  BY StartNumbers, <1>3 DEF RunConnected, Post, VideoInv, StartTypes, SocketTypes,
     CoroutineTypes, Receivers, Modes, vars, startVars, fieldVars, socketVars, coVars,
     mainVars, noteVars
<1>4. CASE RunDisconnect
  BY StartNumbers, <1>4 DEF RunDisconnect, Cancel, JobsOfFields, VideoInv, StartTypes,
     SocketTypes, CoroutineTypes, Receivers, Modes, vars, startVars, fieldVars,
     socketVars, coVars, mainVars, noteVars
<1>5. CASE CloseFields
  BY StartNumbers, <1>5 DEF CloseFields, CloseThose, Receivers, VideoInv, StartTypes,
     SocketTypes, CoroutineTypes, Modes, vars, startVars, fieldVars, socketVars,
     coVars, mainVars, noteVars
<1>6. CASE OnDestroy
  BY StartNumbers, <1>6 DEF OnDestroy, Cancel, JobsOfFields, VideoInv, StartTypes,
     SocketTypes, CoroutineTypes, Receivers, Modes, vars, startVars, fieldVars,
     socketVars, coVars, mainVars, noteVars
<1>7. ASSUME NEW n \in Starts, NeverStarts(n) PROVE VideoInv'
  BY StartNumbers, <1>7 DEF NeverStarts, Co, VideoInv, StartTypes, SocketTypes,
     CoroutineTypes, Receivers, Modes, vars, startVars, fieldVars, socketVars, coVars,
     mainVars, noteVars
<1>8. ASSUME NEW n \in Starts, BindUdp(n) PROVE VideoInv'
  BY StartNumbers, <1>8 DEF BindUdp, Starting, Co, Replace, VideoInv, StartTypes,
     SocketTypes, CoroutineTypes, Receivers, Modes, vars, startVars, fieldVars,
     socketVars, coVars, mainVars, noteVars
<1>9. ASSUME NEW n \in Starts, StartUsb(n) PROVE VideoInv'
  BY StartNumbers, <1>9 DEF StartUsb, Starting, Co, VideoInv, StartTypes, SocketTypes,
     CoroutineTypes, Receivers, Modes, vars, startVars, fieldVars, socketVars, coVars,
     mainVars, noteVars
<1>10. ASSUME NEW n \in Starts, SendReady(n) PROVE VideoInv'
  BY StartNumbers, <1>10 DEF SendReady, Co, VideoInv, StartTypes, SocketTypes,
     CoroutineTypes, Receivers, Modes, vars, startVars, fieldVars, socketVars, coVars,
     mainVars, noteVars
<1>11. ASSUME NEW n \in Starts, SendReadyFails(n) PROVE VideoInv'
  BY StartNumbers, <1>11 DEF SendReadyFails, Fail, Co, Post, VideoInv, StartTypes,
     SocketTypes, CoroutineTypes, Receivers, Modes, vars, startVars, fieldVars,
     socketVars, coVars, mainVars, noteVars
<1>12. ASSUME NEW n \in Starts, ConnectVideo(n) PROVE VideoInv'
  BY StartNumbers, <1>12 DEF ConnectVideo, Co, Replace, VideoInv, StartTypes,
     SocketTypes, CoroutineTypes, Receivers, Modes, vars, startVars, fieldVars,
     socketVars, coVars, mainVars, noteVars
<1>13. ASSUME NEW n \in Starts, ConnectVideoCancelled(n) PROVE VideoInv'
  BY StartNumbers, <1>13 DEF ConnectVideoCancelled, Fail, Co, Post, VideoInv,
     StartTypes, SocketTypes, CoroutineTypes, Receivers, Modes, vars, startVars,
     fieldVars, socketVars, coVars, mainVars, noteVars
<1>14. ASSUME NEW n \in Starts, FinishStart(n) PROVE VideoInv'
  BY StartNumbers, <1>14 DEF FinishStart, Co, Launched, Replace, Post, VideoInv,
     StartTypes, SocketTypes, CoroutineTypes, Receivers, Modes, vars, startVars,
     fieldVars, socketVars, coVars, mainVars, noteVars
<1>15. ASSUME NEW n \in Starts, StartReceiving(n) PROVE VideoInv'
  BY StartNumbers, <1>15 DEF StartReceiving, Job, Stopped, VideoInv, StartTypes,
     SocketTypes, CoroutineTypes, Receivers, Modes, vars, startVars, fieldVars,
     socketVars, coVars, mainVars, noteVars
<1>16. ASSUME NEW n \in Starts, StartWithoutSocket(n) PROVE VideoInv'
  BY StartNumbers, <1>16 DEF StartWithoutSocket, Job, Stopped, VideoInv, StartTypes,
     SocketTypes, CoroutineTypes, Receivers, Modes, vars, startVars, fieldVars,
     socketVars, coVars, mainVars, noteVars
<1>17. ASSUME NEW n \in Starts, StopReceiving(n) PROVE VideoInv'
  BY StartNumbers, <1>17 DEF StopReceiving, Job, Stopped, VideoInv, StartTypes,
     SocketTypes, CoroutineTypes, Receivers, Modes, vars, startVars, fieldVars,
     socketVars, coVars, mainVars, noteVars
<1>18. ASSUME NEW n \in Starts, ConnectTouch(n) PROVE VideoInv'
  BY StartNumbers, <1>18 DEF ConnectTouch, Touch, Replace, VideoInv, StartTypes,
     SocketTypes, CoroutineTypes, Receivers, Modes, vars, startVars, fieldVars,
     socketVars, coVars, mainVars, noteVars
<1>19. ASSUME NEW n \in Starts, ConnectTouchCancelled(n) PROVE VideoInv'
  BY StartNumbers, <1>19 DEF ConnectTouchCancelled, Touch, VideoInv, StartTypes,
     SocketTypes, CoroutineTypes, Receivers, Modes, vars, startVars, fieldVars,
     socketVars, coVars, mainVars, noteVars
<1>20. ASSUME NEW n \in Starts, StartMonitor(n) PROVE VideoInv'
  BY StartNumbers, <1>20 DEF StartMonitor, Monitor, VideoInv, StartTypes, SocketTypes,
     CoroutineTypes, Receivers, Modes, vars, startVars, fieldVars, socketVars, coVars,
     mainVars, noteVars
<1>21. ASSUME NEW n \in Starts, MonitorEnds(n) PROVE VideoInv'
  BY StartNumbers, <1>21 DEF MonitorEnds, Monitor, Post, VideoInv, StartTypes,
     SocketTypes, CoroutineTypes, Receivers, Modes, vars, startVars, fieldVars,
     socketVars, coVars, mainVars, noteVars
<1>22. CASE UserDisconnects
  BY StartNumbers, <1>22 DEF UserDisconnects, Cancel, JobsOfFields, VideoInv,
     StartTypes, SocketTypes, CoroutineTypes, Receivers, Modes, vars, startVars,
     fieldVars, socketVars, coVars, mainVars, noteVars
<1>23. ASSUME NEW n \in Starts, ServerClosesControl(n) PROVE VideoInv'
  BY StartNumbers, <1>23 DEF ServerClosesControl, VideoInv, StartTypes, SocketTypes,
     CoroutineTypes, Receivers, Modes, vars, startVars, fieldVars, socketVars, coVars,
     mainVars, noteVars
<1>24. ASSUME NEW n \in Starts, VideoEnds(n) PROVE VideoInv'
  BY StartNumbers, <1>24 DEF VideoEnds, Job, VideoInv, StartTypes, SocketTypes,
     CoroutineTypes, Receivers, Modes, vars, startVars, fieldVars, socketVars, coVars,
     mainVars, noteVars
<1>25. ASSUME NEW n \in Starts, ConnectVideoFails(n) PROVE VideoInv'
  BY StartNumbers, <1>25 DEF ConnectVideoFails, Fail, Co, Post, VideoInv, StartTypes,
     SocketTypes, CoroutineTypes, Receivers, Modes, vars, startVars, fieldVars,
     socketVars, coVars, mainVars, noteVars
<1>26. ASSUME NEW n \in Starts, ConnectTouchFails(n) PROVE VideoInv'
  BY StartNumbers, <1>26 DEF ConnectTouchFails, Touch, VideoInv, StartTypes,
     SocketTypes, CoroutineTypes, Receivers, Modes, vars, startVars, fieldVars,
     socketVars, coVars, mainVars, noteVars
<1>27. CASE UNCHANGED vars
  BY <1>27 DEF vars, startVars, fieldVars, socketVars, coVars, mainVars, noteVars,
     VideoInv, StartTypes, SocketTypes, CoroutineTypes, Receivers, Modes
<1>28. ASSUME NEW n \in Starts, ReadSocket(n) PROVE VideoInv'
  BY StartNumbers, <1>28 DEF ReadSocket, Job, Stopped, VideoInv, StartTypes,
     SocketTypes, CoroutineTypes, Receivers, Modes, vars, startVars, fieldVars,
     socketVars, coVars, mainVars, noteVars
<1>29. ASSUME NEW n \in Starts, BindUdpFails(n) PROVE VideoInv'
  BY StartNumbers, <1>29 DEF BindUdpFails, Fail, Co, Post, VideoInv, StartTypes,
     SocketTypes, CoroutineTypes, Receivers, Modes, vars, startVars, fieldVars,
     socketVars, coVars, mainVars, noteVars
<1> QED
  BY StepCases, <1>1, <1>2, <1>3, <1>4, <1>5, <1>6, <1>7, <1>8, <1>9, <1>10, <1>11,
     <1>12, <1>13, <1>14, <1>15, <1>16, <1>17, <1>18, <1>19, <1>20, <1>21, <1>22,
     <1>23, <1>24, <1>25, <1>26, <1>27, <1>28, <1>29

\* What is in a queue after an entry was added ...
LEMMA HasAppended ==
  ASSUME NEW S, NEW s \in Seq(S), NEW x \in S, NEW y
  PROVE  Has(Append(s, x), y) <=> Has(s, y) \/ y = x
<1>1. /\ Len(Append(s, x)) = Len(s) + 1 /\ Len(s) \in Nat
      /\ \A k \in 1 .. Len(s) : Append(s, x)[k] = s[k]
      /\ Append(s, x)[Len(s) + 1] = x
  BY Appended
<1>2. \A k \in 1 .. Len(s) + 1 : k \in 1 .. Len(s) \/ k = Len(s) + 1
  BY <1>1
<1>3. Len(s) + 1 \in 1 .. Len(s) + 1 /\ \A k \in 1 .. Len(s) : k \in 1 .. Len(s) + 1
  BY <1>1
<1> QED
  BY <1>1, <1>2, <1>3 DEF Has

\* ... and before the first one is taken out.
LEMMA HasDropped ==
  ASSUME NEW S, NEW s \in Seq(S), s # << >>, NEW y
  PROVE  Has(s, y) <=> y = Head(s) \/ Has(Tail(s), y)
<1>1. /\ Len(Tail(s)) = Len(s) - 1 /\ Len(s) \in Nat \ {0}
      /\ \A k \in 1 .. Len(s) - 1 : Tail(s)[k] = s[k + 1]
      /\ Head(s) = s[1]
  BY Dropped
<1>2. \A k \in 1 .. Len(s) - 1 : k + 1 \in 1 .. Len(s)
  BY <1>1
<1>3. \A k \in 1 .. Len(s) : k = 1 \/ (k - 1 \in 1 .. Len(s) - 1 /\ (k - 1) + 1 = k)
  BY <1>1
<1>4. ASSUME Has(s, y) PROVE y = Head(s) \/ Has(Tail(s), y)
  <2>1. PICK k \in 1 .. Len(s) : s[k] = y
    BY <1>4 DEF Has
  <2>2. CASE k = 1
    BY <1>1, <2>1, <2>2
  <2>3. CASE k - 1 \in 1 .. Len(s) - 1 /\ (k - 1) + 1 = k
    <3>1. Tail(s)[k - 1] = y
      BY <1>1, <2>1, <2>3
    <3> QED
      BY <1>1, <2>3, <3>1 DEF Has
  <2> QED
    BY <1>3, <2>2, <2>3
<1>5. ASSUME y = Head(s) \/ Has(Tail(s), y) PROVE Has(s, y)
  <2>1. CASE y = Head(s)
    BY <1>1, <2>1 DEF Has
  <2>2. CASE Has(Tail(s), y)
    BY <1>1, <1>2, <2>2 DEF Has
  <2> QED
    BY <1>5, <2>1, <2>2
<1> QED
  BY <1>4, <1>5

\* What it means that a start is under way, its post included.
LEMMA UnderWayNow ==
  ASSUME Queues, NEW n \in Starts
  PROVE  UnderWay(n) <=> \/ Connecting(n) \/ toucher[n] = "launched"
                         \/ job[n] \in {"launched", "checked"}
                         \/ Has(posts, Post(n, "connected"))
<1>1. DOMAIN posts = 1 .. Len(posts)
  BY DEF Queues
<1> QED
  BY <1>1 DEF UnderWay, Has

(* Once the service is ending, no start comes under way.                   *)
Waits(U) ==
    \A k \in Starts :
       Connecting(k) \/ toucher[k] = "launched" \/ job[k] \in {"launched", "checked"} => k \in U
Shows(U) == \A k \in Starts : Has(posts, Post(k, "connected")) => k \in U

\* A coroutine that has still to do something was waiting before ...
LEMMA WaitsStep ==
  ASSUME NEW U, CoroutineTypes, EndInv, Ending, Waits(U), [Next]_vars
  PROVE  Waits(U)'
<1>1. CASE Connect
  BY <1>1 DEF Connect, Ending
<1>2. CASE OnStartCommand
  BY <1>2 DEF OnStartCommand, EndInv
<1>3. CASE RunConnected
  BY <1>3 DEF RunConnected, Post, Waits, Connecting, CoroutineTypes, vars, startVars,
     fieldVars, socketVars, coVars, mainVars, noteVars
<1>4. CASE RunDisconnect
  BY <1>4 DEF RunDisconnect, Cancel, JobsOfFields, Waits, Connecting, CoroutineTypes,
     vars, startVars, fieldVars, socketVars, coVars, mainVars, noteVars
<1>5. CASE CloseFields
  BY <1>5 DEF CloseFields, CloseThose, Receivers, Waits, Connecting, CoroutineTypes,
     vars, startVars, fieldVars, socketVars, coVars, mainVars, noteVars
<1>6. CASE OnDestroy
  BY <1>6 DEF OnDestroy, Cancel, JobsOfFields, Waits, Connecting, CoroutineTypes, vars,
     startVars, fieldVars, socketVars, coVars, mainVars, noteVars
<1>7. ASSUME NEW n \in Starts, NeverStarts(n) PROVE Waits(U)'
  BY <1>7
     DEF NeverStarts, Co, Waits, Connecting, CoroutineTypes, vars, startVars,
      fieldVars, socketVars, coVars, mainVars, noteVars
<1>8. ASSUME NEW n \in Starts, BindUdp(n) PROVE Waits(U)'
  BY <1>8 DEF BindUdp, Starting, Co, Replace, Waits, Connecting, CoroutineTypes, vars,
     startVars, fieldVars, socketVars, coVars, mainVars, noteVars
<1>9. ASSUME NEW n \in Starts, StartUsb(n) PROVE Waits(U)'
  BY <1>9 DEF StartUsb, Starting, Co, Waits, Connecting, CoroutineTypes, vars,
     startVars, fieldVars, socketVars, coVars, mainVars, noteVars
<1>10. ASSUME NEW n \in Starts, SendReady(n) PROVE Waits(U)'
  BY <1>10
     DEF SendReady, Co, Waits, Connecting, CoroutineTypes, vars, startVars, fieldVars,
      socketVars, coVars, mainVars, noteVars
<1>11. ASSUME NEW n \in Starts, SendReadyFails(n) PROVE Waits(U)'
  BY <1>11 DEF SendReadyFails, Fail, Co, Post, Waits, Connecting, CoroutineTypes, vars,
     startVars, fieldVars, socketVars, coVars, mainVars, noteVars
<1>12. ASSUME NEW n \in Starts, ConnectVideo(n) PROVE Waits(U)'
  BY <1>12 DEF ConnectVideo, Co, Replace, Waits, Connecting, CoroutineTypes, vars,
     startVars, fieldVars, socketVars, coVars, mainVars, noteVars
<1>13. ASSUME NEW n \in Starts, ConnectVideoCancelled(n) PROVE Waits(U)'
  BY <1>13 DEF ConnectVideoCancelled, Fail, Co, Post, Waits, Connecting,
     CoroutineTypes, vars, startVars, fieldVars, socketVars, coVars, mainVars, noteVars
<1>14. ASSUME NEW n \in Starts, FinishStart(n) PROVE Waits(U)'
  BY <1>14 DEF FinishStart, Co, Launched, Replace, Post, Waits, Connecting,
     CoroutineTypes, vars, startVars, fieldVars, socketVars, coVars, mainVars, noteVars
<1>15. ASSUME NEW n \in Starts, StartReceiving(n) PROVE Waits(U)'
  BY <1>15 DEF StartReceiving, Job, Stopped, Waits, Connecting, CoroutineTypes, vars,
     startVars, fieldVars, socketVars, coVars, mainVars, noteVars
<1>16. ASSUME NEW n \in Starts, StartWithoutSocket(n) PROVE Waits(U)'
  BY <1>16 DEF StartWithoutSocket, Job, Stopped, Waits, Connecting, CoroutineTypes,
     vars, startVars, fieldVars, socketVars, coVars, mainVars, noteVars
<1>17. ASSUME NEW n \in Starts, StopReceiving(n) PROVE Waits(U)'
  BY <1>17 DEF StopReceiving, Job, Stopped, Waits, Connecting, CoroutineTypes, vars,
     startVars, fieldVars, socketVars, coVars, mainVars, noteVars
<1>18. ASSUME NEW n \in Starts, ConnectTouch(n) PROVE Waits(U)'
  BY <1>18 DEF ConnectTouch, Touch, Replace, Waits, Connecting, CoroutineTypes, vars,
     startVars, fieldVars, socketVars, coVars, mainVars, noteVars
<1>19. ASSUME NEW n \in Starts, ConnectTouchCancelled(n) PROVE Waits(U)'
  BY <1>19 DEF ConnectTouchCancelled, Touch, Waits, Connecting, CoroutineTypes, vars,
     startVars, fieldVars, socketVars, coVars, mainVars, noteVars
<1>20. ASSUME NEW n \in Starts, StartMonitor(n) PROVE Waits(U)'
  BY <1>20 DEF StartMonitor, Monitor, Waits, Connecting, CoroutineTypes, vars,
     startVars, fieldVars, socketVars, coVars, mainVars, noteVars
<1>21. ASSUME NEW n \in Starts, MonitorEnds(n) PROVE Waits(U)'
  BY <1>21 DEF MonitorEnds, Monitor, Post, Waits, Connecting, CoroutineTypes, vars,
     startVars, fieldVars, socketVars, coVars, mainVars, noteVars
<1>22. CASE UserDisconnects
  BY <1>22 DEF UserDisconnects, Cancel, JobsOfFields, Waits, Connecting,
     CoroutineTypes, vars, startVars, fieldVars, socketVars, coVars, mainVars, noteVars
<1>23. ASSUME NEW n \in Starts, ServerClosesControl(n) PROVE Waits(U)'
  BY <1>23 DEF ServerClosesControl, Waits, Connecting, CoroutineTypes, vars, startVars,
     fieldVars, socketVars, coVars, mainVars, noteVars
<1>24. ASSUME NEW n \in Starts, VideoEnds(n) PROVE Waits(U)'
  BY <1>24
     DEF VideoEnds, Job, Waits, Connecting, CoroutineTypes, vars, startVars, fieldVars,
      socketVars, coVars, mainVars, noteVars
<1>25. ASSUME NEW n \in Starts, ConnectVideoFails(n) PROVE Waits(U)'
  BY <1>25 DEF ConnectVideoFails, Fail, Co, Post, Waits, Connecting, CoroutineTypes,
     vars, startVars, fieldVars, socketVars, coVars, mainVars, noteVars
<1>26. ASSUME NEW n \in Starts, ConnectTouchFails(n) PROVE Waits(U)'
  BY <1>26 DEF ConnectTouchFails, Touch, Waits, Connecting, CoroutineTypes, vars,
     startVars, fieldVars, socketVars, coVars, mainVars, noteVars
<1>27. CASE UNCHANGED vars
  BY <1>27
     DEF vars, startVars, fieldVars, socketVars, coVars, mainVars, noteVars, Waits,
      Connecting, CoroutineTypes
<1>28. ASSUME NEW n \in Starts, ReadSocket(n) PROVE Waits(U)'
  BY <1>28 DEF ReadSocket, Job, Stopped, Waits, Connecting, CoroutineTypes, vars,
     startVars, fieldVars, socketVars, coVars, mainVars, noteVars
<1>29. ASSUME NEW n \in Starts, BindUdpFails(n) PROVE Waits(U)'
  BY <1>29 DEF BindUdpFails, Fail, Co, Post, Waits, Connecting, CoroutineTypes,
     vars, startVars, fieldVars, socketVars, coVars, mainVars, noteVars
<1> QED
  BY StepCases, <1>1, <1>2, <1>3, <1>4, <1>5, <1>6, <1>7, <1>8, <1>9, <1>10, <1>11,
     <1>12, <1>13, <1>14, <1>15, <1>16, <1>17, <1>18, <1>19, <1>20, <1>21, <1>22,
     <1>23, <1>24, <1>25, <1>26, <1>27, <1>28, <1>29

\* ... and so was the post of a start.
LEMMA ShowsStep ==
  ASSUME NEW U, Queues, EndInv, Ending, Waits(U), Shows(U), [Next]_vars
  PROVE  Shows(U)'
<1>1. CASE Connect
  BY <1>1 DEF Connect, Ending
<1>2. CASE OnStartCommand
  BY <1>2 DEF OnStartCommand, EndInv
<1>3. CASE RunConnected
  <2>1. posts # << >> /\ posts' = Tail(posts) /\ posts \in Seq(Posts)
    BY <1>3 DEF RunConnected, Post, QueueTypes, Queues
  <2>2. \A y : Has(posts, y) <=> y = Head(posts) \/ Has(posts', y)
    BY <2>1, HasDropped
  <2> QED
    BY <2>2 DEF Shows
<1>4. CASE RunDisconnect
  <2>1. posts # << >> /\ posts' = Tail(posts) /\ posts \in Seq(Posts)
    BY <1>4 DEF RunDisconnect, Cancel, JobsOfFields, QueueTypes, Queues
  <2>2. \A y : Has(posts, y) <=> y = Head(posts) \/ Has(posts', y)
    BY <2>1, HasDropped
  <2> QED
    BY <2>2 DEF Shows
<1>5. CASE CloseFields
  BY <1>5
     DEF CloseFields, CloseThose, Receivers, Shows, vars, startVars, fieldVars,
      socketVars, coVars, mainVars, noteVars
<1>6. CASE OnDestroy
  BY <1>6
     DEF OnDestroy, Cancel, JobsOfFields, Shows, vars, startVars, fieldVars,
      socketVars, coVars, mainVars, noteVars
<1>7. ASSUME NEW n \in Starts, NeverStarts(n) PROVE Shows(U)'
  BY <1>7
     DEF NeverStarts, Co, Shows, vars, startVars, fieldVars, socketVars, coVars,
      mainVars, noteVars
<1>8. ASSUME NEW n \in Starts, BindUdp(n) PROVE Shows(U)'
  BY <1>8
     DEF BindUdp, Starting, Co, Replace, Shows, vars, startVars, fieldVars, socketVars,
      coVars, mainVars, noteVars
<1>9. ASSUME NEW n \in Starts, StartUsb(n) PROVE Shows(U)'
  BY <1>9
     DEF StartUsb, Starting, Co, Shows, vars, startVars, fieldVars, socketVars, coVars,
      mainVars, noteVars
<1>10. ASSUME NEW n \in Starts, SendReady(n) PROVE Shows(U)'
  BY <1>10
     DEF SendReady, Co, Shows, vars, startVars, fieldVars, socketVars, coVars,
      mainVars, noteVars
<1>11. ASSUME NEW n \in Starts, SendReadyFails(n) PROVE Shows(U)'
  <2>1. PICK x : posts' = Append(posts, x) /\ x = Post(Null, "disconnect")
    BY <1>11 DEF SendReadyFails, Fail, Co, Post
  <2>2. x \in Posts /\ posts \in Seq(Posts)
    BY <1>11, <2>1 DEF Posts, QueueTypes, Queues
  <2>3. \A y : Has(posts', y) <=> Has(posts, y) \/ y = x
    BY <2>1, <2>2, HasAppended
  <2>4. \A k \in Starts : Post(k, "connected") # x
    BY <2>1 DEF Post
  <2> QED
    BY <2>3, <2>4 DEF Shows
<1>12. ASSUME NEW n \in Starts, ConnectVideo(n) PROVE Shows(U)'
  BY <1>12
     DEF ConnectVideo, Co, Replace, Shows, vars, startVars, fieldVars, socketVars,
      coVars, mainVars, noteVars
<1>13. ASSUME NEW n \in Starts, ConnectVideoCancelled(n) PROVE Shows(U)'
  <2>1. PICK x : posts' = Append(posts, x) /\ x = Post(Null, "disconnect")
    BY <1>13 DEF ConnectVideoCancelled, Fail, Co, Post
  <2>2. x \in Posts /\ posts \in Seq(Posts)
    BY <1>13, <2>1 DEF Posts, QueueTypes, Queues
  <2>3. \A y : Has(posts', y) <=> Has(posts, y) \/ y = x
    BY <2>1, <2>2, HasAppended
  <2>4. \A k \in Starts : Post(k, "connected") # x
    BY <2>1 DEF Post
  <2> QED
    BY <2>3, <2>4 DEF Shows
<1>14. ASSUME NEW n \in Starts, FinishStart(n) PROVE Shows(U)'
  <2>1. PICK x : posts' = Append(posts, x) /\ x = Post(n, "connected")
    BY <1>14 DEF FinishStart, Co, Launched, Replace, Post
  <2>2. x \in Posts /\ posts \in Seq(Posts)
    BY <1>14, <2>1 DEF Posts, QueueTypes, Queues
  <2>3. \A y : Has(posts', y) <=> Has(posts, y) \/ y = x
    BY <2>1, <2>2, HasAppended
  <2>4. \A k \in Starts : Post(k, "connected") = x => k = n
    BY <2>1 DEF Post
  <2>5. n \in U
    BY <1>14 DEF FinishStart, Co, Launched, Replace, Post, Waits, Connecting
  <2> QED
    BY <2>3, <2>4, <2>5 DEF Shows
<1>15. ASSUME NEW n \in Starts, StartReceiving(n) PROVE Shows(U)'
  BY <1>15
     DEF StartReceiving, Job, Stopped, Shows, vars, startVars, fieldVars, socketVars,
      coVars, mainVars, noteVars
<1>16. ASSUME NEW n \in Starts, StartWithoutSocket(n) PROVE Shows(U)'
  BY <1>16
     DEF StartWithoutSocket, Job, Stopped, Shows, vars, startVars, fieldVars,
      socketVars, coVars, mainVars, noteVars
<1>17. ASSUME NEW n \in Starts, StopReceiving(n) PROVE Shows(U)'
  BY <1>17
     DEF StopReceiving, Job, Stopped, Shows, vars, startVars, fieldVars, socketVars,
      coVars, mainVars, noteVars
<1>18. ASSUME NEW n \in Starts, ConnectTouch(n) PROVE Shows(U)'
  BY <1>18
     DEF ConnectTouch, Touch, Replace, Shows, vars, startVars, fieldVars, socketVars,
      coVars, mainVars, noteVars
<1>19. ASSUME NEW n \in Starts, ConnectTouchCancelled(n) PROVE Shows(U)'
  BY <1>19
     DEF ConnectTouchCancelled, Touch, Shows, vars, startVars, fieldVars, socketVars,
      coVars, mainVars, noteVars
<1>20. ASSUME NEW n \in Starts, StartMonitor(n) PROVE Shows(U)'
  BY <1>20
     DEF StartMonitor, Monitor, Shows, vars, startVars, fieldVars, socketVars, coVars,
      mainVars, noteVars
<1>21. ASSUME NEW n \in Starts, MonitorEnds(n) PROVE Shows(U)'
  <2>1. PICK x : posts' = Append(posts, x) /\ x = Post(Null, "disconnect")
    BY <1>21 DEF MonitorEnds, Monitor, Post
  <2>2. x \in Posts /\ posts \in Seq(Posts)
    BY <1>21, <2>1 DEF Posts, QueueTypes, Queues
  <2>3. \A y : Has(posts', y) <=> Has(posts, y) \/ y = x
    BY <2>1, <2>2, HasAppended
  <2>4. \A k \in Starts : Post(k, "connected") # x
    BY <2>1 DEF Post
  <2> QED
    BY <2>3, <2>4 DEF Shows
<1>22. CASE UserDisconnects
  BY <1>22
     DEF UserDisconnects, Cancel, JobsOfFields, Shows, vars, startVars, fieldVars,
      socketVars, coVars, mainVars, noteVars
<1>23. ASSUME NEW n \in Starts, ServerClosesControl(n) PROVE Shows(U)'
  BY <1>23
     DEF ServerClosesControl, Shows, vars, startVars, fieldVars, socketVars, coVars,
      mainVars, noteVars
<1>24. ASSUME NEW n \in Starts, VideoEnds(n) PROVE Shows(U)'
  BY <1>24
     DEF VideoEnds, Job, Shows, vars, startVars, fieldVars, socketVars, coVars,
      mainVars, noteVars
<1>25. ASSUME NEW n \in Starts, ConnectVideoFails(n) PROVE Shows(U)'
  <2>1. PICK x : posts' = Append(posts, x) /\ x = Post(Null, "disconnect")
    BY <1>25 DEF ConnectVideoFails, Fail, Co, Post
  <2>2. x \in Posts /\ posts \in Seq(Posts)
    BY <1>25, <2>1 DEF Posts, QueueTypes, Queues
  <2>3. \A y : Has(posts', y) <=> Has(posts, y) \/ y = x
    BY <2>1, <2>2, HasAppended
  <2>4. \A k \in Starts : Post(k, "connected") # x
    BY <2>1 DEF Post
  <2> QED
    BY <2>3, <2>4 DEF Shows
<1>26. ASSUME NEW n \in Starts, ConnectTouchFails(n) PROVE Shows(U)'
  BY <1>26
     DEF ConnectTouchFails, Touch, Shows, vars, startVars, fieldVars, socketVars,
      coVars, mainVars, noteVars
<1>27. CASE UNCHANGED vars
  BY <1>27 DEF vars, startVars, fieldVars, socketVars, coVars, mainVars, noteVars, Shows
<1>28. ASSUME NEW n \in Starts, ReadSocket(n) PROVE Shows(U)'
  BY <1>28
     DEF ReadSocket, Job, Stopped, Shows, vars, startVars, fieldVars, socketVars,
      coVars, mainVars, noteVars
<1>29. ASSUME NEW n \in Starts, BindUdpFails(n) PROVE Shows(U)'
  <2>1. PICK x : posts' = Append(posts, x) /\ x = Post(Null, "disconnect")
    BY <1>29 DEF BindUdpFails, Fail, Co, Post
  <2>2. x \in Posts /\ posts \in Seq(Posts)
    BY <1>29, <2>1 DEF Posts, QueueTypes, Queues
  <2>3. \A y : Has(posts', y) <=> Has(posts, y) \/ y = x
    BY <2>1, <2>2, HasAppended
  <2>4. \A k \in Starts : Post(k, "connected") # x
    BY <2>1 DEF Post
  <2> QED
    BY <2>3, <2>4 DEF Shows
<1> QED
  BY StepCases, <1>1, <1>2, <1>3, <1>4, <1>5, <1>6, <1>7, <1>8, <1>9, <1>10, <1>11,
     <1>12, <1>13, <1>14, <1>15, <1>16, <1>17, <1>18, <1>19, <1>20, <1>21, <1>22,
     <1>23, <1>24, <1>25, <1>26, <1>27, <1>28, <1>29

\* The two together are the starts under way.
LEMMA UnderWayCovered ==
  ASSUME Queues, NEW U
  PROVE  (\A k \in Starts : UnderWay(k) => k \in U) <=> Waits(U) /\ Shows(U)
BY UnderWayNow DEF Waits, Shows

(* The three parts of EndInv, without the coroutines.                      *)
Quiet == Ending => intents = << >> /\ pendingControlClient = Null
Emptied == destroyed => controlClient = Null /\ touchSender = Null /\ \A m \in Modes : receiver[m] = Null
TickingIsCut == Ending /\ ticking => cut # {}

\* The end leaves no intent and no parked connection.
LEMMA QuietStep ==
  ASSUME StartTypes, MainTypes, StartInv, EndInv, [Next]_vars
  PROVE  Quiet'
<1>1. CASE Connect
  BY <1>1
     DEF Connect, Replace, Quiet, Ending, EndInv, MainTypes, vars, startVars,
      fieldVars, socketVars, coVars, mainVars, noteVars
<1>2. CASE OnStartCommand
  BY <1>2 DEF OnStartCommand, Replace, Quiet, Ending, EndInv, MainTypes, vars,
     startVars, fieldVars, socketVars, coVars, mainVars, noteVars
<1>3. CASE RunConnected
  BY <1>3 DEF RunConnected, Post, Quiet, Ending, EndInv, MainTypes, vars, startVars,
     fieldVars, socketVars, coVars, mainVars, noteVars
<1>4. CASE RunDisconnect
  BY <1>4 DEF RunDisconnect, Cancel, JobsOfFields, Quiet, Ending, EndInv, MainTypes,
     vars, startVars, fieldVars, socketVars, coVars, mainVars, noteVars
<1>5. CASE CloseFields
  BY <1>5 DEF CloseFields, CloseThose, Receivers, Quiet, Ending, EndInv, MainTypes,
     vars, startVars, fieldVars, socketVars, coVars, mainVars, noteVars
<1>6. CASE OnDestroy
  <2>1. intents = << >> /\ intents' = intents /\ pendingControlClient' = pendingControlClient
    BY <1>6 DEF OnDestroy, Cancel, JobsOfFields, startVars
  <2> QED
    BY <2>1 DEF StartInv, Quiet
<1>7. ASSUME NEW n \in Starts, NeverStarts(n) PROVE Quiet'
  BY <1>7
     DEF NeverStarts, Co, Quiet, Ending, EndInv, MainTypes, vars, startVars, fieldVars,
      socketVars, coVars, mainVars, noteVars
<1>8. ASSUME NEW n \in Starts, BindUdp(n) PROVE Quiet'
  BY <1>8 DEF BindUdp, Starting, Co, Replace, Quiet, Ending, EndInv, MainTypes, vars,
     startVars, fieldVars, socketVars, coVars, mainVars, noteVars
<1>9. ASSUME NEW n \in Starts, StartUsb(n) PROVE Quiet'
  BY <1>9 DEF StartUsb, Starting, Co, Quiet, Ending, EndInv, MainTypes, vars,
     startVars, fieldVars, socketVars, coVars, mainVars, noteVars
<1>10. ASSUME NEW n \in Starts, SendReady(n) PROVE Quiet'
  BY <1>10
     DEF SendReady, Co, Quiet, Ending, EndInv, MainTypes, vars, startVars, fieldVars,
      socketVars, coVars, mainVars, noteVars
<1>11. ASSUME NEW n \in Starts, SendReadyFails(n) PROVE Quiet'
  BY <1>11 DEF SendReadyFails, Fail, Co, Post, Quiet, Ending, EndInv, MainTypes, vars,
     startVars, fieldVars, socketVars, coVars, mainVars, noteVars
<1>12. ASSUME NEW n \in Starts, ConnectVideo(n) PROVE Quiet'
  BY <1>12 DEF ConnectVideo, Co, Replace, Quiet, Ending, EndInv, MainTypes, vars,
     startVars, fieldVars, socketVars, coVars, mainVars, noteVars
<1>13. ASSUME NEW n \in Starts, ConnectVideoCancelled(n) PROVE Quiet'
  BY <1>13 DEF ConnectVideoCancelled, Fail, Co, Post, Quiet, Ending, EndInv, MainTypes,
     vars, startVars, fieldVars, socketVars, coVars, mainVars, noteVars
<1>14. ASSUME NEW n \in Starts, FinishStart(n) PROVE Quiet'
  BY <1>14 DEF FinishStart, Co, Launched, Replace, Post, Quiet, Ending, EndInv,
     MainTypes, vars, startVars, fieldVars, socketVars, coVars, mainVars, noteVars
<1>15. ASSUME NEW n \in Starts, StartReceiving(n) PROVE Quiet'
  BY <1>15 DEF StartReceiving, Job, Stopped, Quiet, Ending, EndInv, MainTypes, vars,
     startVars, fieldVars, socketVars, coVars, mainVars, noteVars
<1>16. ASSUME NEW n \in Starts, StartWithoutSocket(n) PROVE Quiet'
  BY <1>16 DEF StartWithoutSocket, Job, Stopped, Quiet, Ending, EndInv, MainTypes,
     vars, startVars, fieldVars, socketVars, coVars, mainVars, noteVars
<1>17. ASSUME NEW n \in Starts, StopReceiving(n) PROVE Quiet'
  BY <1>17 DEF StopReceiving, Job, Stopped, Quiet, Ending, EndInv, MainTypes, vars,
     startVars, fieldVars, socketVars, coVars, mainVars, noteVars
<1>18. ASSUME NEW n \in Starts, ConnectTouch(n) PROVE Quiet'
  BY <1>18 DEF ConnectTouch, Touch, Replace, Quiet, Ending, EndInv, MainTypes, vars,
     startVars, fieldVars, socketVars, coVars, mainVars, noteVars
<1>19. ASSUME NEW n \in Starts, ConnectTouchCancelled(n) PROVE Quiet'
  BY <1>19 DEF ConnectTouchCancelled, Touch, Quiet, Ending, EndInv, MainTypes, vars,
     startVars, fieldVars, socketVars, coVars, mainVars, noteVars
<1>20. ASSUME NEW n \in Starts, StartMonitor(n) PROVE Quiet'
  BY <1>20 DEF StartMonitor, Monitor, Quiet, Ending, EndInv, MainTypes, vars,
     startVars, fieldVars, socketVars, coVars, mainVars, noteVars
<1>21. ASSUME NEW n \in Starts, MonitorEnds(n) PROVE Quiet'
  BY <1>21 DEF MonitorEnds, Monitor, Post, Quiet, Ending, EndInv, MainTypes, vars,
     startVars, fieldVars, socketVars, coVars, mainVars, noteVars
<1>22. CASE UserDisconnects
  BY <1>22 DEF UserDisconnects, Cancel, JobsOfFields, Quiet, Ending, EndInv, MainTypes,
     vars, startVars, fieldVars, socketVars, coVars, mainVars, noteVars
<1>23. ASSUME NEW n \in Starts, ServerClosesControl(n) PROVE Quiet'
  BY <1>23 DEF ServerClosesControl, Quiet, Ending, EndInv, MainTypes, vars, startVars,
     fieldVars, socketVars, coVars, mainVars, noteVars
<1>24. ASSUME NEW n \in Starts, VideoEnds(n) PROVE Quiet'
  BY <1>24
     DEF VideoEnds, Job, Quiet, Ending, EndInv, MainTypes, vars, startVars, fieldVars,
      socketVars, coVars, mainVars, noteVars
<1>25. ASSUME NEW n \in Starts, ConnectVideoFails(n) PROVE Quiet'
  BY <1>25 DEF ConnectVideoFails, Fail, Co, Post, Quiet, Ending, EndInv, MainTypes,
     vars, startVars, fieldVars, socketVars, coVars, mainVars, noteVars
<1>26. ASSUME NEW n \in Starts, ConnectTouchFails(n) PROVE Quiet'
  BY <1>26 DEF ConnectTouchFails, Touch, Quiet, Ending, EndInv, MainTypes, vars,
     startVars, fieldVars, socketVars, coVars, mainVars, noteVars
<1>27. CASE UNCHANGED vars
  BY <1>27
     DEF vars, startVars, fieldVars, socketVars, coVars, mainVars, noteVars, Quiet,
      Ending, EndInv, MainTypes
<1>28. ASSUME NEW n \in Starts, ReadSocket(n) PROVE Quiet'
  BY <1>28 DEF ReadSocket, Job, Stopped, Quiet, Ending, EndInv, MainTypes, vars,
     startVars, fieldVars, socketVars, coVars, mainVars, noteVars
<1>29. ASSUME NEW n \in Starts, BindUdpFails(n) PROVE Quiet'
  BY <1>29 DEF BindUdpFails, Fail, Co, Post, Quiet, Ending, EndInv, MainTypes,
     vars, startVars, fieldVars, socketVars, coVars, mainVars, noteVars
<1> QED
  BY StepCases, <1>1, <1>2, <1>3, <1>4, <1>5, <1>6, <1>7, <1>8, <1>9, <1>10, <1>11,
     <1>12, <1>13, <1>14, <1>15, <1>16, <1>17, <1>18, <1>19, <1>20, <1>21, <1>22,
     <1>23, <1>24, <1>25, <1>26, <1>27, <1>28, <1>29

\* The destroyed service has empty fields.
LEMMA EmptiedStep ==
  ASSUME StartTypes, MainTypes, EndInv, [Next]_vars
  PROVE  Emptied'
<1>1. CASE Connect
  BY <1>1 DEF Connect, Replace, Emptied, Ending, EndInv, MainTypes, StartTypes, vars,
     startVars, fieldVars, socketVars, coVars, mainVars, noteVars
<1>2. CASE OnStartCommand
  BY <1>2 DEF OnStartCommand, Replace, Emptied, Ending, EndInv, MainTypes, StartTypes,
     vars, startVars, fieldVars, socketVars, coVars, mainVars, noteVars
<1>3. CASE RunConnected
  BY <1>3 DEF RunConnected, Post, Emptied, Ending, EndInv, MainTypes, StartTypes, vars,
     startVars, fieldVars, socketVars, coVars, mainVars, noteVars
<1>4. CASE RunDisconnect
  BY <1>4 DEF RunDisconnect, Cancel, JobsOfFields, Emptied, Ending, EndInv, MainTypes,
     StartTypes, vars, startVars, fieldVars, socketVars, coVars, mainVars, noteVars
<1>5. CASE CloseFields
  BY <1>5 DEF CloseFields, CloseThose, Receivers, Emptied, Ending, EndInv, MainTypes,
     StartTypes, vars, startVars, fieldVars, socketVars, coVars, mainVars, noteVars
<1>6. CASE OnDestroy
  BY <1>6 DEF OnDestroy, Cancel, JobsOfFields, Emptied, Ending, EndInv, MainTypes,
     StartTypes, vars, startVars, fieldVars, socketVars, coVars, mainVars, noteVars
<1>7. ASSUME NEW n \in Starts, NeverStarts(n) PROVE Emptied'
  BY <1>7 DEF NeverStarts, Co, Emptied, Ending, EndInv, MainTypes, StartTypes, vars,
     startVars, fieldVars, socketVars, coVars, mainVars, noteVars
<1>8. ASSUME NEW n \in Starts, BindUdp(n) PROVE Emptied'
  BY <1>8 DEF BindUdp, Starting, Co, Replace, Emptied, Ending, EndInv, MainTypes,
     StartTypes, vars, startVars, fieldVars, socketVars, coVars, mainVars, noteVars
<1>9. ASSUME NEW n \in Starts, StartUsb(n) PROVE Emptied'
  BY <1>9 DEF StartUsb, Starting, Co, Emptied, Ending, EndInv, MainTypes, StartTypes,
     vars, startVars, fieldVars, socketVars, coVars, mainVars, noteVars
<1>10. ASSUME NEW n \in Starts, SendReady(n) PROVE Emptied'
  BY <1>10 DEF SendReady, Co, Emptied, Ending, EndInv, MainTypes, StartTypes, vars,
     startVars, fieldVars, socketVars, coVars, mainVars, noteVars
<1>11. ASSUME NEW n \in Starts, SendReadyFails(n) PROVE Emptied'
  BY <1>11 DEF SendReadyFails, Fail, Co, Post, Emptied, Ending, EndInv, MainTypes,
     StartTypes, vars, startVars, fieldVars, socketVars, coVars, mainVars, noteVars
<1>12. ASSUME NEW n \in Starts, ConnectVideo(n) PROVE Emptied'
  BY <1>12 DEF ConnectVideo, Co, Replace, Emptied, Ending, EndInv, MainTypes,
     StartTypes, vars, startVars, fieldVars, socketVars, coVars, mainVars, noteVars
<1>13. ASSUME NEW n \in Starts, ConnectVideoCancelled(n) PROVE Emptied'
  BY <1>13 DEF ConnectVideoCancelled, Fail, Co, Post, Emptied, Ending, EndInv,
     MainTypes, StartTypes, vars, startVars, fieldVars, socketVars, coVars, mainVars,
     noteVars
<1>14. ASSUME NEW n \in Starts, FinishStart(n) PROVE Emptied'
  BY <1>14 DEF FinishStart, Co, Launched, Replace, Post, Emptied, Ending, EndInv,
     MainTypes, StartTypes, vars, startVars, fieldVars, socketVars, coVars, mainVars,
     noteVars
<1>15. ASSUME NEW n \in Starts, StartReceiving(n) PROVE Emptied'
  BY <1>15 DEF StartReceiving, Job, Stopped, Emptied, Ending, EndInv, MainTypes,
     StartTypes, vars, startVars, fieldVars, socketVars, coVars, mainVars, noteVars
<1>16. ASSUME NEW n \in Starts, StartWithoutSocket(n) PROVE Emptied'
  BY <1>16 DEF StartWithoutSocket, Job, Stopped, Emptied, Ending, EndInv, MainTypes,
     StartTypes, vars, startVars, fieldVars, socketVars, coVars, mainVars, noteVars
<1>17. ASSUME NEW n \in Starts, StopReceiving(n) PROVE Emptied'
  BY <1>17 DEF StopReceiving, Job, Stopped, Emptied, Ending, EndInv, MainTypes,
     StartTypes, vars, startVars, fieldVars, socketVars, coVars, mainVars, noteVars
<1>18. ASSUME NEW n \in Starts, ConnectTouch(n) PROVE Emptied'
  BY <1>18 DEF ConnectTouch, Touch, Replace, Emptied, Ending, EndInv, MainTypes,
     StartTypes, vars, startVars, fieldVars, socketVars, coVars, mainVars, noteVars
<1>19. ASSUME NEW n \in Starts, ConnectTouchCancelled(n) PROVE Emptied'
  BY <1>19 DEF ConnectTouchCancelled, Touch, Emptied, Ending, EndInv, MainTypes,
     StartTypes, vars, startVars, fieldVars, socketVars, coVars, mainVars, noteVars
<1>20. ASSUME NEW n \in Starts, StartMonitor(n) PROVE Emptied'
  BY <1>20 DEF StartMonitor, Monitor, Emptied, Ending, EndInv, MainTypes, StartTypes,
     vars, startVars, fieldVars, socketVars, coVars, mainVars, noteVars
<1>21. ASSUME NEW n \in Starts, MonitorEnds(n) PROVE Emptied'
  BY <1>21 DEF MonitorEnds, Monitor, Post, Emptied, Ending, EndInv, MainTypes,
     StartTypes, vars, startVars, fieldVars, socketVars, coVars, mainVars, noteVars
<1>22. CASE UserDisconnects
  BY <1>22 DEF UserDisconnects, Cancel, JobsOfFields, Emptied, Ending, EndInv,
     MainTypes, StartTypes, vars, startVars, fieldVars, socketVars, coVars, mainVars,
     noteVars
<1>23. ASSUME NEW n \in Starts, ServerClosesControl(n) PROVE Emptied'
  BY <1>23 DEF ServerClosesControl, Emptied, Ending, EndInv, MainTypes, StartTypes,
     vars, startVars, fieldVars, socketVars, coVars, mainVars, noteVars
<1>24. ASSUME NEW n \in Starts, VideoEnds(n) PROVE Emptied'
  BY <1>24 DEF VideoEnds, Job, Emptied, Ending, EndInv, MainTypes, StartTypes, vars,
     startVars, fieldVars, socketVars, coVars, mainVars, noteVars
<1>25. ASSUME NEW n \in Starts, ConnectVideoFails(n) PROVE Emptied'
  BY <1>25 DEF ConnectVideoFails, Fail, Co, Post, Emptied, Ending, EndInv, MainTypes,
     StartTypes, vars, startVars, fieldVars, socketVars, coVars, mainVars, noteVars
<1>26. ASSUME NEW n \in Starts, ConnectTouchFails(n) PROVE Emptied'
  BY <1>26 DEF ConnectTouchFails, Touch, Emptied, Ending, EndInv, MainTypes,
     StartTypes, vars, startVars, fieldVars, socketVars, coVars, mainVars, noteVars
<1>27. CASE UNCHANGED vars
  BY <1>27
     DEF vars, startVars, fieldVars, socketVars, coVars, mainVars, noteVars, Emptied,
      Ending, EndInv, MainTypes, StartTypes
<1>28. ASSUME NEW n \in Starts, ReadSocket(n) PROVE Emptied'
  BY <1>28 DEF ReadSocket, Job, Stopped, Emptied, Ending, EndInv, MainTypes,
     StartTypes, vars, startVars, fieldVars, socketVars, coVars, mainVars, noteVars
<1>29. ASSUME NEW n \in Starts, BindUdpFails(n) PROVE Emptied'
  BY <1>29 DEF BindUdpFails, Fail, Co, Post, Emptied, Ending, EndInv, MainTypes,
     StartTypes, vars, startVars, fieldVars, socketVars, coVars, mainVars, noteVars
<1> QED
  BY StepCases, <1>1, <1>2, <1>3, <1>4, <1>5, <1>6, <1>7, <1>8, <1>9, <1>10, <1>11,
     <1>12, <1>13, <1>14, <1>15, <1>16, <1>17, <1>18, <1>19, <1>20, <1>21, <1>22,
     <1>23, <1>24, <1>25, <1>26, <1>27, <1>28, <1>29

\* The statistics go on at the end only for a start that was cut off.
LEMMA TickingStep ==
  ASSUME StartTypes, MainTypes, QueueTypes, EndInv, [Next]_vars
  PROVE  TickingIsCut'
<1>1. CASE Connect
  BY <1>1 DEF Connect, Replace, TickingIsCut, Ending, EndInv, MainTypes, vars,
     startVars, fieldVars, socketVars, coVars, mainVars, noteVars
<1>2. CASE OnStartCommand
  BY <1>2 DEF OnStartCommand, Replace, TickingIsCut, Ending, EndInv, MainTypes, vars,
     startVars, fieldVars, socketVars, coVars, mainVars, noteVars
<1>3. CASE RunConnected
  <2>1. posts # << >> /\ Head(posts).what = "connected" /\ posts \in Seq(Posts)
        /\ cut' = cut /\ (Ending' <=> Ending)
    BY <1>3 DEF RunConnected, QueueTypes, Queues, Ending, noteVars
  <2>2. Head(posts) \in Posts
    BY <2>1, Dropped
  <2>3. PICK k \in Starts : Head(posts) = Post(k, "connected")
    BY <2>1, <2>2 DEF Posts, Post
  <2>4. Has(posts, Post(k, "connected"))
    BY <2>1, <2>3, HasDropped
  <2>5. UnderWay(k)
    BY <2>4, UnderWayNow DEF QueueTypes
  <2> QED
    BY <2>1, <2>5 DEF EndInv, TickingIsCut
<1>4. CASE RunDisconnect
  BY <1>4 DEF RunDisconnect, Cancel, JobsOfFields, TickingIsCut, Ending, EndInv,
     MainTypes, vars, startVars, fieldVars, socketVars, coVars, mainVars, noteVars
<1>5. CASE CloseFields
  BY <1>5 DEF CloseFields, CloseThose, Receivers, TickingIsCut, Ending, EndInv,
     MainTypes, vars, startVars, fieldVars, socketVars, coVars, mainVars, noteVars
<1>6. CASE OnDestroy
  BY <1>6 DEF OnDestroy, Cancel, JobsOfFields, TickingIsCut, Ending, EndInv, MainTypes,
     vars, startVars, fieldVars, socketVars, coVars, mainVars, noteVars
<1>7. ASSUME NEW n \in Starts, NeverStarts(n) PROVE TickingIsCut'
  BY <1>7 DEF NeverStarts, Co, TickingIsCut, Ending, EndInv, MainTypes, vars,
     startVars, fieldVars, socketVars, coVars, mainVars, noteVars
<1>8. ASSUME NEW n \in Starts, BindUdp(n) PROVE TickingIsCut'
  BY <1>8 DEF BindUdp, Starting, Co, Replace, TickingIsCut, Ending, EndInv, MainTypes,
     vars, startVars, fieldVars, socketVars, coVars, mainVars, noteVars
<1>9. ASSUME NEW n \in Starts, StartUsb(n) PROVE TickingIsCut'
  BY <1>9 DEF StartUsb, Starting, Co, TickingIsCut, Ending, EndInv, MainTypes, vars,
     startVars, fieldVars, socketVars, coVars, mainVars, noteVars
<1>10. ASSUME NEW n \in Starts, SendReady(n) PROVE TickingIsCut'
  BY <1>10 DEF SendReady, Co, TickingIsCut, Ending, EndInv, MainTypes, vars, startVars,
     fieldVars, socketVars, coVars, mainVars, noteVars
<1>11. ASSUME NEW n \in Starts, SendReadyFails(n) PROVE TickingIsCut'
  BY <1>11 DEF SendReadyFails, Fail, Co, Post, TickingIsCut, Ending, EndInv, MainTypes,
     vars, startVars, fieldVars, socketVars, coVars, mainVars, noteVars
<1>12. ASSUME NEW n \in Starts, ConnectVideo(n) PROVE TickingIsCut'
  BY <1>12 DEF ConnectVideo, Co, Replace, TickingIsCut, Ending, EndInv, MainTypes,
     vars, startVars, fieldVars, socketVars, coVars, mainVars, noteVars
<1>13. ASSUME NEW n \in Starts, ConnectVideoCancelled(n) PROVE TickingIsCut'
  BY <1>13 DEF ConnectVideoCancelled, Fail, Co, Post, TickingIsCut, Ending, EndInv,
     MainTypes, vars, startVars, fieldVars, socketVars, coVars, mainVars, noteVars
<1>14. ASSUME NEW n \in Starts, FinishStart(n) PROVE TickingIsCut'
  BY <1>14 DEF FinishStart, Co, Launched, Replace, Post, TickingIsCut, Ending, EndInv,
     MainTypes, vars, startVars, fieldVars, socketVars, coVars, mainVars, noteVars
<1>15. ASSUME NEW n \in Starts, StartReceiving(n) PROVE TickingIsCut'
  BY <1>15 DEF StartReceiving, Job, Stopped, TickingIsCut, Ending, EndInv, MainTypes,
     vars, startVars, fieldVars, socketVars, coVars, mainVars, noteVars
<1>16. ASSUME NEW n \in Starts, StartWithoutSocket(n) PROVE TickingIsCut'
  BY <1>16 DEF StartWithoutSocket, Job, Stopped, TickingIsCut, Ending, EndInv,
     MainTypes, vars, startVars, fieldVars, socketVars, coVars, mainVars, noteVars
<1>17. ASSUME NEW n \in Starts, StopReceiving(n) PROVE TickingIsCut'
  BY <1>17 DEF StopReceiving, Job, Stopped, TickingIsCut, Ending, EndInv, MainTypes,
     vars, startVars, fieldVars, socketVars, coVars, mainVars, noteVars
<1>18. ASSUME NEW n \in Starts, ConnectTouch(n) PROVE TickingIsCut'
  BY <1>18 DEF ConnectTouch, Touch, Replace, TickingIsCut, Ending, EndInv, MainTypes,
     vars, startVars, fieldVars, socketVars, coVars, mainVars, noteVars
<1>19. ASSUME NEW n \in Starts, ConnectTouchCancelled(n) PROVE TickingIsCut'
  BY <1>19 DEF ConnectTouchCancelled, Touch, TickingIsCut, Ending, EndInv, MainTypes,
     vars, startVars, fieldVars, socketVars, coVars, mainVars, noteVars
<1>20. ASSUME NEW n \in Starts, StartMonitor(n) PROVE TickingIsCut'
  BY <1>20 DEF StartMonitor, Monitor, TickingIsCut, Ending, EndInv, MainTypes, vars,
     startVars, fieldVars, socketVars, coVars, mainVars, noteVars
<1>21. ASSUME NEW n \in Starts, MonitorEnds(n) PROVE TickingIsCut'
  BY <1>21 DEF MonitorEnds, Monitor, Post, TickingIsCut, Ending, EndInv, MainTypes,
     vars, startVars, fieldVars, socketVars, coVars, mainVars, noteVars
<1>22. CASE UserDisconnects
  BY <1>22 DEF UserDisconnects, Cancel, JobsOfFields, TickingIsCut, Ending, EndInv,
     MainTypes, vars, startVars, fieldVars, socketVars, coVars, mainVars, noteVars
<1>23. ASSUME NEW n \in Starts, ServerClosesControl(n) PROVE TickingIsCut'
  BY <1>23 DEF ServerClosesControl, TickingIsCut, Ending, EndInv, MainTypes, vars,
     startVars, fieldVars, socketVars, coVars, mainVars, noteVars
<1>24. ASSUME NEW n \in Starts, VideoEnds(n) PROVE TickingIsCut'
  BY <1>24 DEF VideoEnds, Job, TickingIsCut, Ending, EndInv, MainTypes, vars,
     startVars, fieldVars, socketVars, coVars, mainVars, noteVars
<1>25. ASSUME NEW n \in Starts, ConnectVideoFails(n) PROVE TickingIsCut'
  BY <1>25 DEF ConnectVideoFails, Fail, Co, Post, TickingIsCut, Ending, EndInv,
     MainTypes, vars, startVars, fieldVars, socketVars, coVars, mainVars, noteVars
<1>26. ASSUME NEW n \in Starts, ConnectTouchFails(n) PROVE TickingIsCut'
  BY <1>26 DEF ConnectTouchFails, Touch, TickingIsCut, Ending, EndInv, MainTypes, vars,
     startVars, fieldVars, socketVars, coVars, mainVars, noteVars
<1>27. CASE UNCHANGED vars
  BY <1>27
     DEF vars, startVars, fieldVars, socketVars, coVars, mainVars, noteVars,
      TickingIsCut, Ending, EndInv, MainTypes
<1>28. ASSUME NEW n \in Starts, ReadSocket(n) PROVE TickingIsCut'
  BY <1>28 DEF ReadSocket, Job, Stopped, TickingIsCut, Ending, EndInv, MainTypes,
     vars, startVars, fieldVars, socketVars, coVars, mainVars, noteVars
<1>29. ASSUME NEW n \in Starts, BindUdpFails(n) PROVE TickingIsCut'
  BY <1>29 DEF BindUdpFails, Fail, Co, Post, TickingIsCut, Ending, EndInv,
     MainTypes, vars, startVars, fieldVars, socketVars, coVars, mainVars, noteVars
<1> QED
  BY StepCases, <1>1, <1>2, <1>3, <1>4, <1>5, <1>6, <1>7, <1>8, <1>9, <1>10, <1>11,
     <1>12, <1>13, <1>14, <1>15, <1>16, <1>17, <1>18, <1>19, <1>20, <1>21, <1>22,
     <1>23, <1>24, <1>25, <1>26, <1>27, <1>28, <1>29

\* The end begins with onDestroy,
LEMMA CutGrows ==
  ASSUME MainTypes, [Next]_vars, Ending' , ~Ending
  PROVE  OnDestroy
<1>1. destroyed' => Ending
  <2>1. destroyed' = destroyed \/ CloseFields
    BY StepCases
       DEF Connect, OnStartCommand, RunConnected, RunDisconnect, OnDestroy, NeverStarts,
       BindUdp, StartUsb, SendReady, SendReadyFails, ConnectVideo, ConnectVideoCancelled,
       FinishStart, StartReceiving, ReadSocket, StartWithoutSocket, StopReceiving, ConnectTouch,
       ConnectTouchCancelled, StartMonitor, MonitorEnds, UserDisconnects, ServerClosesControl,
       VideoEnds, BindUdpFails, ConnectVideoFails, ConnectTouchFails, Job, Touch, Monitor, Cancel, mainVars, vars
  <2> QED
    BY <2>1 DEF Ending, CloseFields
<1>2. main' = "destroy" => main = "destroy" \/ OnDestroy
  BY StepCases
     DEF Connect, OnStartCommand, RunConnected, RunDisconnect, NeverStarts, CloseFields,
     BindUdp, StartUsb, SendReady, SendReadyFails, ConnectVideo, ConnectVideoCancelled,
     FinishStart, StartReceiving, ReadSocket, StartWithoutSocket, StopReceiving, ConnectTouch,
     ConnectTouchCancelled, StartMonitor, MonitorEnds, UserDisconnects, ServerClosesControl,
     VideoEnds, BindUdpFails, ConnectVideoFails, ConnectTouchFails, Job, Touch, Monitor, Cancel, mainVars, vars
<1> QED
  BY <1>1, <1>2 DEF Ending

\* which cuts off what is under way,
LEMMA CutOnDestroy ==
  ASSUME OnDestroy
  PROVE  \A n \in Starts : UnderWay(n)' => n \in cut'
BY DEF OnDestroy, Cancel, UnderWay, Connecting

\* and what is cut off stays so.
LEMMA CutKept ==
  ASSUME [Next]_vars
  PROVE  cut \subseteq cut'
BY StepCases
   DEF Connect, OnStartCommand, RunConnected, RunDisconnect, NeverStarts, CloseFields,
   BindUdp, StartUsb, SendReady, SendReadyFails, ConnectVideo, ConnectVideoCancelled, OnDestroy,
   FinishStart, StartReceiving, ReadSocket, StartWithoutSocket, StopReceiving, ConnectTouch,
   ConnectTouchCancelled, StartMonitor, MonitorEnds, UserDisconnects, ServerClosesControl,
   VideoEnds, BindUdpFails, ConnectVideoFails, ConnectTouchFails, Job, Touch, Monitor, Cancel, noteVars, vars

\* From onDestroy on, what is under way was cut off.
LEMMA EndStep ==
  ASSUME StartTypes, CoroutineTypes, MainTypes, QueueTypes, StartInv, EndInv,
         [Next]_vars
  PROVE  EndInv'
<1>1. Quiet' /\ Emptied' /\ TickingIsCut'
  BY QuietStep, EmptiedStep, TickingStep
<1>2. ASSUME Ending' PROVE \A n \in Starts : UnderWay(n)' => n \in cut'
  <2>1. CASE Ending
    <3>1. PICK U : U = cut
      OBVIOUS
    <3>2. Waits(U) /\ Shows(U) /\ Queues
      BY <2>1, <3>1, UnderWayCovered DEF QueueTypes, EndInv
    <3>3. Waits(U)' /\ Shows(U)' /\ Queues'
      BY <2>1, <3>2, WaitsStep, ShowsStep, QueuesStep
    <3>4. \A n \in Starts : UnderWay(n)' => n \in U
      <4>1. DOMAIN posts' = 1 .. Len(posts')
        BY <3>3 DEF Queues
      <4> QED
        BY <3>3, <4>1 DEF UnderWay, Waits, Shows, Has
    <3> QED
      BY <3>1, <3>4, CutKept
  <2>2. CASE ~Ending
    BY <1>2, <2>2, CutGrows, CutOnDestroy
  <2> QED
    BY <2>1, <2>2
<1> QED
  BY <1>1, <1>2 DEF EndInv, Quiet, Emptied, TickingIsCut

\* Without a cleanup in a start, or a second start, no job loses its socket.
LEMMA CalmStep ==
  ASSUME StartTypes, SocketTypes, CoroutineTypes, MainTypes, QueueTypes, StartInv,
         VideoInv, CalmInv, [Next]_vars
  PROVE  CalmInv'
<1>1. CASE Connect
  BY StartNumbers, <1>1 DEF Connect, Replace, CalmInv, Calm, Connecting, StartTypes,
     SocketTypes, CoroutineTypes, MainTypes, vars, startVars, fieldVars, socketVars,
     coVars, mainVars, noteVars
<1>2. CASE OnStartCommand
  <2>1. Queues /\ Len(intents) \in Nat /\ \A i \in 1 .. Len(intents) : intents[i] \in Starts
    BY IntentFacts DEF QueueTypes
  <2>2. Head(intents) = intents[1] /\ 1 \in 1 .. Len(intents)
    BY <1>2, <2>1, Dropped DEF OnStartCommand, Queues
  <2>3. Head(intents) \in Starts /\ pc[Head(intents)] = "none"
    BY <2>1, <2>2 DEF StartInv
  <2>4. video[Head(intents)] = "none"
    BY <2>3 DEF VideoInv
  <2>5. /\ main = "idle" /\ main' = main /\ video' = video /\ job' = job /\ cancelled' = cancelled
        /\ receiveJob' = receiveJob /\ crashed' = crashed /\ interrupted' = interrupted
        /\ replaced \subseteq replaced'
        /\ pc' = [pc EXCEPT ![Head(intents)] = IF controlClient' = Null THEN "done" ELSE "launched"]
    BY <1>2
       DEF OnStartCommand, Replace, vars, startVars, fieldVars, socketVars, coVars,
        mainVars, noteVars
  <2> QED
    BY <2>3, <2>4, <2>5 DEF CalmInv, Calm, Connecting, CoroutineTypes
<1>3. CASE RunConnected
  BY StartNumbers, <1>3 DEF RunConnected, Post, CalmInv, Calm, Connecting, StartTypes,
     SocketTypes, CoroutineTypes, MainTypes, vars, startVars, fieldVars, socketVars,
     coVars, mainVars, noteVars
<1>4. CASE RunDisconnect
  BY StartNumbers, <1>4 DEF RunDisconnect, Cancel, JobsOfFields, CalmInv, Calm,
     Connecting, StartTypes, SocketTypes, CoroutineTypes, MainTypes, vars, startVars,
     fieldVars, socketVars, coVars, mainVars, noteVars
<1>5. CASE CloseFields
  BY StartNumbers, <1>5 DEF CloseFields, CloseThose, Receivers, CalmInv, Calm,
     Connecting, StartTypes, SocketTypes, CoroutineTypes, MainTypes, vars, startVars,
     fieldVars, socketVars, coVars, mainVars, noteVars
<1>6. CASE OnDestroy
  BY StartNumbers, <1>6 DEF OnDestroy, Cancel, JobsOfFields, CalmInv, Calm, Connecting,
     StartTypes, SocketTypes, CoroutineTypes, MainTypes, vars, startVars, fieldVars,
     socketVars, coVars, mainVars, noteVars
<1>7. ASSUME NEW n \in Starts, NeverStarts(n) PROVE CalmInv'
  BY StartNumbers, <1>7 DEF NeverStarts, Co, CalmInv, Calm, Connecting, StartTypes,
     SocketTypes, CoroutineTypes, MainTypes, vars, startVars, fieldVars, socketVars,
     coVars, mainVars, noteVars
<1>8. ASSUME NEW n \in Starts, BindUdp(n) PROVE CalmInv'
  BY StartNumbers, <1>8 DEF BindUdp, Starting, Co, Replace, CalmInv, Calm, Connecting,
     StartTypes, SocketTypes, CoroutineTypes, MainTypes, vars, startVars, fieldVars,
     socketVars, coVars, mainVars, noteVars
<1>9. ASSUME NEW n \in Starts, StartUsb(n) PROVE CalmInv'
  BY StartNumbers, <1>9 DEF StartUsb, Starting, Co, CalmInv, Calm, Connecting,
     StartTypes, SocketTypes, CoroutineTypes, MainTypes, vars, startVars, fieldVars,
     socketVars, coVars, mainVars, noteVars
<1>10. ASSUME NEW n \in Starts, SendReady(n) PROVE CalmInv'
  BY StartNumbers, <1>10 DEF SendReady, Co, CalmInv, Calm, Connecting, StartTypes,
     SocketTypes, CoroutineTypes, MainTypes, vars, startVars, fieldVars, socketVars,
     coVars, mainVars, noteVars
<1>11. ASSUME NEW n \in Starts, SendReadyFails(n) PROVE CalmInv'
  BY StartNumbers, <1>11 DEF SendReadyFails, Fail, Co, Post, CalmInv, Calm, Connecting,
     StartTypes, SocketTypes, CoroutineTypes, MainTypes, vars, startVars, fieldVars,
     socketVars, coVars, mainVars, noteVars
<1>12. ASSUME NEW n \in Starts, ConnectVideo(n) PROVE CalmInv'
  BY StartNumbers, <1>12 DEF ConnectVideo, Co, Replace, CalmInv, Calm, Connecting,
     StartTypes, SocketTypes, CoroutineTypes, MainTypes, vars, startVars, fieldVars,
     socketVars, coVars, mainVars, noteVars
<1>13. ASSUME NEW n \in Starts, ConnectVideoCancelled(n) PROVE CalmInv'
  BY StartNumbers, <1>13 DEF ConnectVideoCancelled, Fail, Co, Post, CalmInv, Calm,
     Connecting, StartTypes, SocketTypes, CoroutineTypes, MainTypes, vars, startVars,
     fieldVars, socketVars, coVars, mainVars, noteVars
<1>14. ASSUME NEW n \in Starts, FinishStart(n) PROVE CalmInv'
  <2>1. /\ pc[n] = "launch" /\ pc' = [pc EXCEPT ![n] = "done"] /\ receiveJob' = n
        /\ job' = [job EXCEPT ![n] = Launched] /\ replaced' = replaced \cup ({receiveJob} \ {Null})
        /\ video' = video /\ cancelled' = cancelled /\ main' = main
        /\ interrupted' = interrupted /\ crashed' = crashed
    BY <1>14
       DEF FinishStart, Co, Replace, vars, startVars, fieldVars, socketVars, coVars,
        mainVars, noteVars
  <2>2. crashed' => ~Calm'
    BY <2>1 DEF CalmInv, Calm
  <2>3. ASSUME Calm' PROVE Calm /\ receiveJob = Null /\ main = "idle" /\ video[n] # "closed"
    <3>1. Calm /\ receiveJob = Null
      BY <2>1, <2>3 DEF Calm
    <3>2. Connecting(n)
      BY <2>1 DEF Connecting
    <3> QED
      BY <3>1, <3>2 DEF CalmInv
  <2>4. ASSUME Calm', NEW k \in Starts
        PROVE  /\ job'[k] \in {"launched", "checked", "running"} => k = n \/ k \in cancelled
               /\ job'[k] = "launched" /\ video[k] = "closed" => k \in cancelled
               /\ pc'[k] \notin {"none", "done"} \/ job'[k] = "checked" => video[k] # "closed"
    <3>1. CASE k = n
      BY <2>1, <2>3, <2>4, <3>1 DEF CoroutineTypes, Launched
    <3>2. CASE k # n
      <4>1. job'[k] = job[k] /\ pc'[k] = pc[k] /\ k # Null
        BY <2>1, <3>2, StartNumbers DEF CoroutineTypes
      <4> QED
        BY <2>3, <2>4, <4>1 DEF CalmInv, Connecting
    <3> QED
      BY <3>1, <3>2
  <2> QED
    BY <2>1, <2>2, <2>3, <2>4 DEF CalmInv, Connecting
<1>15. ASSUME NEW n \in Starts, StartReceiving(n) PROVE CalmInv'
  BY StartNumbers, <1>15 DEF StartReceiving, Job, Stopped, CalmInv, Calm, Connecting,
     StartTypes, SocketTypes, CoroutineTypes, MainTypes, vars, startVars, fieldVars,
     socketVars, coVars, mainVars, noteVars
<1>16. ASSUME NEW n \in Starts, StartWithoutSocket(n) PROVE CalmInv'
  BY StartNumbers, <1>16 DEF StartWithoutSocket, Job, Stopped, CalmInv, Calm,
     Connecting, StartTypes, SocketTypes, CoroutineTypes, MainTypes, vars, startVars,
     fieldVars, socketVars, coVars, mainVars, noteVars
<1>17. ASSUME NEW n \in Starts, StopReceiving(n) PROVE CalmInv'
  BY StartNumbers, <1>17 DEF StopReceiving, Job, Stopped, CalmInv, Calm, Connecting,
     StartTypes, SocketTypes, CoroutineTypes, MainTypes, vars, startVars, fieldVars,
     socketVars, coVars, mainVars, noteVars
<1>18. ASSUME NEW n \in Starts, ConnectTouch(n) PROVE CalmInv'
  BY StartNumbers, <1>18 DEF ConnectTouch, Touch, Replace, CalmInv, Calm, Connecting,
     StartTypes, SocketTypes, CoroutineTypes, MainTypes, vars, startVars, fieldVars,
     socketVars, coVars, mainVars, noteVars
<1>19. ASSUME NEW n \in Starts, ConnectTouchCancelled(n) PROVE CalmInv'
  BY StartNumbers, <1>19 DEF ConnectTouchCancelled, Touch, CalmInv, Calm, Connecting,
     StartTypes, SocketTypes, CoroutineTypes, MainTypes, vars, startVars, fieldVars,
     socketVars, coVars, mainVars, noteVars
<1>20. ASSUME NEW n \in Starts, StartMonitor(n) PROVE CalmInv'
  BY StartNumbers, <1>20 DEF StartMonitor, Monitor, CalmInv, Calm, Connecting,
     StartTypes, SocketTypes, CoroutineTypes, MainTypes, vars, startVars, fieldVars,
     socketVars, coVars, mainVars, noteVars
<1>21. ASSUME NEW n \in Starts, MonitorEnds(n) PROVE CalmInv'
  BY StartNumbers, <1>21 DEF MonitorEnds, Monitor, Post, CalmInv, Calm, Connecting,
     StartTypes, SocketTypes, CoroutineTypes, MainTypes, vars, startVars, fieldVars,
     socketVars, coVars, mainVars, noteVars
<1>22. CASE UserDisconnects
  BY StartNumbers, <1>22 DEF UserDisconnects, Cancel, JobsOfFields, CalmInv, Calm,
     Connecting, StartTypes, SocketTypes, CoroutineTypes, MainTypes, vars, startVars,
     fieldVars, socketVars, coVars, mainVars, noteVars
<1>23. ASSUME NEW n \in Starts, ServerClosesControl(n) PROVE CalmInv'
  BY StartNumbers, <1>23 DEF ServerClosesControl, CalmInv, Calm, Connecting,
     StartTypes, SocketTypes, CoroutineTypes, MainTypes, vars, startVars, fieldVars,
     socketVars, coVars, mainVars, noteVars
<1>24. ASSUME NEW n \in Starts, VideoEnds(n) PROVE CalmInv'
  BY StartNumbers, <1>24 DEF VideoEnds, Job, CalmInv, Calm, Connecting, StartTypes,
     SocketTypes, CoroutineTypes, MainTypes, vars, startVars, fieldVars, socketVars,
     coVars, mainVars, noteVars
<1>25. ASSUME NEW n \in Starts, ConnectVideoFails(n) PROVE CalmInv'
  BY StartNumbers, <1>25 DEF ConnectVideoFails, Fail, Co, Post, CalmInv, Calm,
     Connecting, StartTypes, SocketTypes, CoroutineTypes, MainTypes, vars, startVars,
     fieldVars, socketVars, coVars, mainVars, noteVars
<1>26. ASSUME NEW n \in Starts, ConnectTouchFails(n) PROVE CalmInv'
  BY StartNumbers, <1>26 DEF ConnectTouchFails, Touch, CalmInv, Calm, Connecting,
     StartTypes, SocketTypes, CoroutineTypes, MainTypes, vars, startVars, fieldVars,
     socketVars, coVars, mainVars, noteVars
<1>27. CASE UNCHANGED vars
  BY <1>27 DEF vars, startVars, fieldVars, socketVars, coVars, mainVars, noteVars,
     CalmInv, Calm, Connecting, StartTypes, SocketTypes, CoroutineTypes, MainTypes
<1>28. ASSUME NEW n \in Starts, ReadSocket(n) PROVE CalmInv'
  BY StartNumbers, <1>28 DEF ReadSocket, Job, Stopped, CalmInv, Calm, Connecting,
     StartTypes, SocketTypes, CoroutineTypes, MainTypes, vars, startVars, fieldVars,
     socketVars, coVars, mainVars, noteVars
<1>29. ASSUME NEW n \in Starts, BindUdpFails(n) PROVE CalmInv'
  BY StartNumbers, <1>29 DEF BindUdpFails, Fail, Co, Post, CalmInv, Calm,
     Connecting, StartTypes, SocketTypes, CoroutineTypes, MainTypes, vars, startVars,
     fieldVars, socketVars, coVars, mainVars, noteVars
<1> QED
  BY StepCases, <1>1, <1>2, <1>3, <1>4, <1>5, <1>6, <1>7, <1>8, <1>9, <1>10, <1>11,
     <1>12, <1>13, <1>14, <1>15, <1>16, <1>17, <1>18, <1>19, <1>20, <1>21, <1>22,
     <1>23, <1>24, <1>25, <1>26, <1>27, <1>28, <1>29

\* The connection in the field is watched, or its loss was noticed.
LEMMA WatchStep ==
  ASSUME StartTypes, SocketTypes, CoroutineTypes, MainTypes, QueueTypes, StartInv,
         EndInv, WatchInv, [Next]_vars
  PROVE  WatchInv'
<1>1. CASE Connect
  BY <1>1 DEF Connect, Replace, WatchInv, Connecting, CoroutineTypes, vars, startVars,
     fieldVars, socketVars, coVars, mainVars, noteVars
<1>2. CASE OnStartCommand
  <2>1. Queues /\ Len(intents) \in Nat /\ \A i \in 1 .. Len(intents) : intents[i] \in Starts
    BY IntentFacts DEF QueueTypes
  <2>2. Head(intents) \in Starts
    BY <1>2, <2>1, Dropped DEF OnStartCommand, Queues
  <2>3. pc' = [pc EXCEPT ![Head(intents)] = IF controlClient' = Null THEN "done" ELSE "launched"]
    BY <1>2 DEF OnStartCommand, Replace
  <2>4. controlClient' # Null => pc'[Head(intents)] = "launched"
    BY <2>2, <2>3 DEF CoroutineTypes
  <2> QED
    BY <2>2, <2>4 DEF WatchInv, Connecting
<1>3. CASE RunConnected
  <2>1. posts # << >> /\ posts' = Tail(posts) /\ posts \in Seq(Posts)
    BY <1>3 DEF RunConnected, Post, QueueTypes, Queues
  <2>2. \A y : Has(posts, y) <=> y = Head(posts) \/ Has(posts', y)
    BY <2>1, HasDropped
  <2>3. Head(posts) # Post(Null, "disconnect")
    BY <1>3 DEF RunConnected, Post
  <2> QED
    BY <1>3, <2>2, <2>3
       DEF RunConnected, Post, WatchInv, Connecting, vars, startVars, fieldVars,
        socketVars, coVars, mainVars, noteVars
<1>4. CASE RunDisconnect
  BY <1>4 DEF RunDisconnect, Cancel, JobsOfFields, WatchInv, Connecting,
     CoroutineTypes, vars, startVars, fieldVars, socketVars, coVars, mainVars, noteVars
<1>5. CASE CloseFields
  BY <1>5 DEF CloseFields, CloseThose, Receivers, WatchInv, Connecting, CoroutineTypes,
     vars, startVars, fieldVars, socketVars, coVars, mainVars, noteVars
<1>6. CASE OnDestroy
  BY <1>6 DEF OnDestroy, Cancel, JobsOfFields, WatchInv, Connecting, CoroutineTypes,
     vars, startVars, fieldVars, socketVars, coVars, mainVars, noteVars
<1>7. ASSUME NEW n \in Starts, NeverStarts(n) PROVE WatchInv'
  BY <1>7 DEF NeverStarts, Co, EndInv, WatchInv, Connecting, CoroutineTypes, vars,
     startVars, fieldVars, socketVars, coVars, mainVars, noteVars
<1>8. ASSUME NEW n \in Starts, BindUdp(n) PROVE WatchInv'
  BY <1>8 DEF BindUdp, Starting, Co, Replace, WatchInv, Connecting, CoroutineTypes,
     vars, startVars, fieldVars, socketVars, coVars, mainVars, noteVars
<1>9. ASSUME NEW n \in Starts, StartUsb(n) PROVE WatchInv'
  BY <1>9 DEF StartUsb, Starting, Co, WatchInv, Connecting, CoroutineTypes, vars,
     startVars, fieldVars, socketVars, coVars, mainVars, noteVars
<1>10. ASSUME NEW n \in Starts, SendReady(n) PROVE WatchInv'
  BY <1>10
     DEF SendReady, Co, WatchInv, Connecting, CoroutineTypes, vars, startVars,
      fieldVars, socketVars, coVars, mainVars, noteVars
<1>11. ASSUME NEW n \in Starts, SendReadyFails(n) PROVE WatchInv'
  <2>1. PICK x : posts' = Append(posts, x) /\ x = Post(Null, "disconnect")
    BY <1>11 DEF SendReadyFails, Fail, Co, Post
  <2>2. x \in Posts /\ posts \in Seq(Posts)
    BY <1>11, <2>1 DEF Posts, QueueTypes, Queues
  <2>3. \A y : Has(posts', y) <=> Has(posts, y) \/ y = x
    BY <2>1, <2>2, HasAppended
  <2> QED
    BY <2>3, <2>1 DEF WatchInv
<1>12. ASSUME NEW n \in Starts, ConnectVideo(n) PROVE WatchInv'
  BY <1>12 DEF ConnectVideo, Co, Replace, WatchInv, Connecting, CoroutineTypes, vars,
     startVars, fieldVars, socketVars, coVars, mainVars, noteVars
<1>13. ASSUME NEW n \in Starts, ConnectVideoCancelled(n) PROVE WatchInv'
  <2>1. PICK x : posts' = Append(posts, x) /\ x = Post(Null, "disconnect")
    BY <1>13 DEF ConnectVideoCancelled, Fail, Co, Post
  <2>2. x \in Posts /\ posts \in Seq(Posts)
    BY <1>13, <2>1 DEF Posts, QueueTypes, Queues
  <2>3. \A y : Has(posts', y) <=> Has(posts, y) \/ y = x
    BY <2>1, <2>2, HasAppended
  <2> QED
    BY <2>3, <2>1 DEF WatchInv
<1>14. ASSUME NEW n \in Starts, FinishStart(n) PROVE WatchInv'
  <2>1. PICK x : posts' = Append(posts, x) /\ x = Post(n, "connected")
    BY <1>14 DEF FinishStart, Co, Launched, Replace, Post
  <2>2. x \in Posts /\ posts \in Seq(Posts)
    BY <1>14, <2>1 DEF Posts, QueueTypes, Queues
  <2>3. \A y : Has(posts', y) <=> Has(posts, y) \/ y = x
    BY <2>1, <2>2, HasAppended
  <2>4. CASE destroyed
    <3>1. controlClient' = Null
      BY <1>14, <2>4 DEF FinishStart, Co, Launched, Replace, Post, EndInv
    <3> QED
      BY <3>1 DEF WatchInv
  <2>5. CASE ~destroyed
    <3>1. monitor'[n] = "launched"
      BY <1>14, <2>5 DEF FinishStart, Co, Launched, Replace, Post, CoroutineTypes
    <3> QED
      BY <3>1 DEF WatchInv
  <2> QED
    BY <2>4, <2>5
<1>15. ASSUME NEW n \in Starts, StartReceiving(n) PROVE WatchInv'
  BY <1>15 DEF StartReceiving, Job, Stopped, WatchInv, Connecting, CoroutineTypes,
     vars, startVars, fieldVars, socketVars, coVars, mainVars, noteVars
<1>16. ASSUME NEW n \in Starts, StartWithoutSocket(n) PROVE WatchInv'
  BY <1>16 DEF StartWithoutSocket, Job, Stopped, WatchInv, Connecting, CoroutineTypes,
     vars, startVars, fieldVars, socketVars, coVars, mainVars, noteVars
<1>17. ASSUME NEW n \in Starts, StopReceiving(n) PROVE WatchInv'
  BY <1>17 DEF StopReceiving, Job, Stopped, WatchInv, Connecting, CoroutineTypes, vars,
     startVars, fieldVars, socketVars, coVars, mainVars, noteVars
<1>18. ASSUME NEW n \in Starts, ConnectTouch(n) PROVE WatchInv'
  BY <1>18 DEF ConnectTouch, Touch, Replace, WatchInv, Connecting, CoroutineTypes,
     vars, startVars, fieldVars, socketVars, coVars, mainVars, noteVars
<1>19. ASSUME NEW n \in Starts, ConnectTouchCancelled(n) PROVE WatchInv'
  BY <1>19 DEF ConnectTouchCancelled, Touch, WatchInv, Connecting, CoroutineTypes,
     vars, startVars, fieldVars, socketVars, coVars, mainVars, noteVars
<1>20. ASSUME NEW n \in Starts, StartMonitor(n) PROVE WatchInv'
  <2>1. CASE controlClient = Null
    BY <1>20, <2>1 DEF StartMonitor, Monitor, WatchInv, fieldVars
  <2>2. CASE controlClient # Null
    <3>1. ~destroyed /\ IsOpen(control, controlClient)
      BY <2>2 DEF EndInv, StartInv
    <3>2. monitor'[n] = "reading" /\ watched'[n] = controlClient /\ controlClient' = controlClient
      BY <1>20, <2>2, <3>1 DEF StartMonitor, Monitor, CoroutineTypes, fieldVars
    <3> QED
      BY <3>2 DEF WatchInv
  <2> QED
    BY <2>1, <2>2
<1>21. ASSUME NEW n \in Starts, MonitorEnds(n) PROVE WatchInv'
  <2>1. PICK x : posts' = Append(posts, x) /\ x = Post(Null, "disconnect")
    BY <1>21 DEF MonitorEnds, Monitor, Post
  <2>2. x \in Posts /\ posts \in Seq(Posts)
    BY <1>21, <2>1 DEF Posts, QueueTypes, Queues
  <2>3. \A y : Has(posts', y) <=> Has(posts, y) \/ y = x
    BY <2>1, <2>2, HasAppended
  <2> QED
    BY <2>3, <2>1 DEF WatchInv
<1>22. CASE UserDisconnects
  BY <1>22 DEF UserDisconnects, Cancel, JobsOfFields, WatchInv, Connecting,
     CoroutineTypes, vars, startVars, fieldVars, socketVars, coVars, mainVars, noteVars
<1>23. ASSUME NEW n \in Starts, ServerClosesControl(n) PROVE WatchInv'
  BY <1>23 DEF ServerClosesControl, WatchInv, Connecting, CoroutineTypes, vars,
     startVars, fieldVars, socketVars, coVars, mainVars, noteVars
<1>24. ASSUME NEW n \in Starts, VideoEnds(n) PROVE WatchInv'
  BY <1>24 DEF VideoEnds, Job, WatchInv, Connecting, CoroutineTypes, vars, startVars,
     fieldVars, socketVars, coVars, mainVars, noteVars
<1>25. ASSUME NEW n \in Starts, ConnectVideoFails(n) PROVE WatchInv'
  <2>1. PICK x : posts' = Append(posts, x) /\ x = Post(Null, "disconnect")
    BY <1>25 DEF ConnectVideoFails, Fail, Co, Post
  <2>2. x \in Posts /\ posts \in Seq(Posts)
    BY <1>25, <2>1 DEF Posts, QueueTypes, Queues
  <2>3. \A y : Has(posts', y) <=> Has(posts, y) \/ y = x
    BY <2>1, <2>2, HasAppended
  <2> QED
    BY <2>3, <2>1 DEF WatchInv
<1>26. ASSUME NEW n \in Starts, ConnectTouchFails(n) PROVE WatchInv'
  BY <1>26 DEF ConnectTouchFails, Touch, WatchInv, Connecting, CoroutineTypes, vars,
     startVars, fieldVars, socketVars, coVars, mainVars, noteVars
<1>27. CASE UNCHANGED vars
  BY <1>27
     DEF vars, startVars, fieldVars, socketVars, coVars, mainVars, noteVars, WatchInv,
      Connecting, CoroutineTypes
<1>28. ASSUME NEW n \in Starts, ReadSocket(n) PROVE WatchInv'
  BY <1>28 DEF ReadSocket, Job, Stopped, WatchInv, Connecting, CoroutineTypes,
     vars, startVars, fieldVars, socketVars, coVars, mainVars, noteVars
<1>29. ASSUME NEW n \in Starts, BindUdpFails(n) PROVE WatchInv'
  <2>1. PICK x : posts' = Append(posts, x) /\ x = Post(Null, "disconnect")
    BY <1>29 DEF BindUdpFails, Fail, Co, Post
  <2>2. x \in Posts /\ posts \in Seq(Posts)
    BY <1>29, <2>1 DEF Posts, QueueTypes, Queues
  <2>3. \A y : Has(posts', y) <=> Has(posts, y) \/ y = x
    BY <2>1, <2>2, HasAppended
  <2> QED
    BY <2>3, <2>1 DEF WatchInv
<1> QED
  BY StepCases, <1>1, <1>2, <1>3, <1>4, <1>5, <1>6, <1>7, <1>8, <1>9, <1>10, <1>11,
     <1>12, <1>13, <1>14, <1>15, <1>16, <1>17, <1>18, <1>19, <1>20, <1>21, <1>22,
     <1>23, <1>24, <1>25, <1>26, <1>27, <1>28, <1>29

\* The invariant holds before the first tap.
LEMMA SafeAtFirst ==
  ASSUME Init
  PROVE  SafeInv
<1>1. StartTypes
  <2>1. /\ started = 0 /\ MaxStarts \in Nat /\ mode = [n \in Starts |-> "wifi"]
        /\ receiver = [m \in Modes |-> Null]
    BY StartNumbers DEF Init, Each
  <2>2. started \in 0 .. MaxStarts /\ mode \in [Starts -> Modes] /\ receiver \in [Modes -> Starts \cup {Null}]
    BY <2>1 DEF Modes
  <2> QED
    BY <2>2 DEF Init, StartTypes
<1>2. SocketTypes
  BY DEF Init, Each, SocketTypes, SocketStates
<1>7. CoroutineTypes
  BY DEF Init, Each, CoroutineTypes, Modes
<1>8. MainTypes
  BY DEF Init, MainTypes
<1>9. QueueTypes
  <2>1. intents \in Seq(Starts) /\ posts \in Seq(Posts)
    BY EmptySeq DEF Init
  <2>2. events \in 0 .. MaxEvents
    BY ServiceAssumption DEF Init
  <2> QED
    BY <2>1, <2>2 DEF QueueTypes, Queues
<1>3. /\ Len(intents) = 0 /\ Null = 0 /\ started = 0 /\ controlClient = 0
      /\ pendingControlClient = 0 /\ \A n \in Starts : pc[n] = "none"
  BY DEF Init, Each, Null
<1>4. StartInv
  BY <1>3 DEF StartInv
<1>5. HeldInv /\ VideoInv
  BY StartNumbers DEF Init, Each, HeldInv, VideoInv, IsOpen, Receivers, Modes
<1>6. EndInv /\ CalmInv /\ WatchInv
  BY DEF Init, Each, EndInv, Ending, CalmInv, Calm, Connecting, WatchInv
<1> QED
  BY <1>1, <1>2, <1>4, <1>5, <1>6, <1>7, <1>8, <1>9 DEF SafeInv

-----------------------------------------------------------------------------
(* The theorems.                                                           *)

\* Every reachable state of the service satisfies the invariant, for any
\* number of starts, failures and closed connections.
THEOREM ServiceIsSafe == Spec => []SafeInv
<1>1. Init => SafeInv
  BY SafeAtFirst
<1>2. SafeInv /\ [Next]_vars => SafeInv'
  BY StartTypesStep, SocketTypesStep, CoroutineTypesStep, MainTypesStep,
     QueueTypesStep, StartStep,
     HeldStep, EndStep, VideoStep, CalmStep, WatchStep DEF SafeInv
<1> QED
  BY <1>1, <1>2, PTL DEF Spec

\* The posts are of the type TypeOK gives them.
LEMMA PostsOfTheType ==
  ASSUME Queues
  PROVE  posts \in Seq([from : Starts \cup {Null}, what : {"connected", "disconnect"}])
<1>1. Posts \subseteq [from : Starts \cup {Null}, what : {"connected", "disconnect"}]
  BY DEF Posts, Post
<1> QED
  BY <1>1, SeqMonotonic DEF Queues

\* Every field, socket and coroutine has a value of its type: the starts
\* that onStartCommand, the coroutines and the posts speak of are taps on
\* Connect that have happened or could happen.
THEOREM ServiceTypeCorrect == Spec => []TypeOK
<1>1. SafeInv => TypeOK
  BY PostsOfTheType
     DEF SafeInv, TypeOK, StartTypes, SocketTypes, CoroutineTypes, MainTypes,
      QueueTypes, Queues
<1> QED
  BY <1>1, ServiceIsSafe, PTL

\* Once onDestroy is through, every socket opened by a start that neither a
\* later start nor the destruction itself interrupted is closed
\* (cleanupConnections), and the statistics have stopped.
THEOREM DestructionIsComplete == Spec => []DestroyStopsEverything
<1>1. ASSUME SafeInv, destroyed PROVE DestroyStopsEverything
  <2>1. /\ controlClient = Null /\ touchSender = Null /\ pendingControlClient = Null
        /\ \A m \in Modes : receiver[m] = Null
        /\ ticking => cut # {}
    BY <1>1 DEF SafeInv, EndInv, Ending
  <2>2. Receivers \subseteq {Null}
    BY <2>1 DEF Receivers
  <2>3. \A n \in 1 .. started : n \in Starts /\ n # Null
    BY <1>1, ServiceAssumption DEF SafeInv, StartTypes, Starts, Null
  <2> QED
    BY <1>1, <2>1, <2>2, <2>3 DEF SafeInv, HeldInv, DestroyStopsEverything, Undisturbed
<1>2. SafeInv => DestroyStopsEverything
  BY <1>1 DEF DestroyStopsEverything
<1> QED
  BY <1>2, ServiceIsSafe, PTL

\* The exception that receiveLoop throws without a socket ends the process
\* only after a cleanup in the middle of a start, or after a second start.
THEOREM CrashIsExplained == Spec => []CrashNeedsInterruptedStart
<1>1. SafeInv => CrashNeedsInterruptedStart
  BY DEF SafeInv, CalmInv, Calm, CrashNeedsInterruptedStart
<1> QED
  BY <1>1, ServiceIsSafe, PTL

\* When nothing is left to do, no session in the fields has lost its control
\* connection: its monitor has noticed, or the failure of the start has.
THEOREM LossIsNoticed == Spec => []LostConnectionIsCleanedUp
<1>1. ASSUME SafeInv, Settled, controlClient # Null PROVE control[controlClient] = "open"
  <2>1. main = "idle" /\ posts = << >> /\ \A n \in Starts : ~Connecting(n) /\ monitor[n] # "launched"
    BY <1>1 DEF Settled, Connecting
  <2>2. ~Has(posts, Post(Null, "disconnect"))
    BY <2>1 DEF Has
  <2>3. PICK n \in Starts : monitor[n] = "reading" /\ watched[n] = controlClient
    BY <1>1, <2>1, <2>2 DEF SafeInv, WatchInv
  <2> QED
    BY <1>1, <2>3 DEF Settled
<1>2. SafeInv => LostConnectionIsCleanedUp
  BY <1>1 DEF LostConnectionIsCleanedUp
<1> QED
  BY <1>2, ServiceIsSafe, PTL
===============================================================================
