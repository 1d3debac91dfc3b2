---------------------------- MODULE DisplayService ----------------------------
(***************************************************************************)
(* The lifecycle of the Android service: how DisplayService starts a       *)
(* session with the connection MainActivity hands over, and how            *)
(* disconnect, onDestroy and a second start meet the coroutines that are   *)
(* still starting it.                                                      *)
(*                                                                         *)
(* Start n is the n-th tap on Connect.  Its coroutines are those           *)
(* onStartCommand launches for it; the service has one set of fields for   *)
(* all of them.  The model follows one instance of the service up to its   *)
(* destruction and the coroutines and posts beyond it.                     *)
(***************************************************************************)
EXTENDS Integers, Sequences, FiniteSets

CONSTANTS
    MaxStarts,   \* bound: taps on Connect while the instance lives
    MaxEvents    \* bound: failures, closed connections and taps on Disconnect

ASSUME ServiceAssumption == {MaxStarts, MaxEvents} \subseteq Nat

Starts == 1 .. MaxStarts
Modes  == {"wifi", "usb"}
Null   == 0

VARIABLES
    started,         \* taps on Connect so far
    mode,            \* the connection type of each
    pendingControlClient,
    intents,         \* start intents onStartCommand has not had yet
    startRequested,  \* Android's view: started, and no stopSelf since
    controlClient,   \* the service's fields: the start each belongs to
    params,          \* (serverHost, the ports, connectionType)
    receiver,        \* udpReceiver and tcpVideoReceiver, by mode
    receiveJob,
    touchSender,
    control,         \* the control connection of each start
    video,           \* its UDP or TCP video socket
    touch,           \* its touch socket
    pc,              \* the pipeline coroutine of each start
    transport,       \* the connection type it has read
    job,             \* its receive job
    toucher,         \* its touch coroutine
    monitor,         \* its monitor coroutine
    watched,         \* the control connection the monitor reads from
    cancelled,       \* receive jobs that were cancelled and have not ended
    posts,           \* what coroutines have posted to the main thread
    main,            \* the main thread: idle, or inside cleanupConnections
    destroyed,       \* onDestroy is through, serviceScope is cancelled
    ticking,         \* statsRunnable keeps posting itself
    replaced,        \* starts whose fields a later start has taken over
    interrupted,     \* some cleanup came while a session was coming up
    cut,             \* starts that were under way when onDestroy came
    crashed,         \* an exception nobody caught has ended the process
    events           \* failures, closed connections and taps on Disconnect so far

startVars  == <<started, mode, pendingControlClient, intents, startRequested>>
fieldVars  == <<controlClient, params, receiver, receiveJob, touchSender>>
socketVars == <<control, video, touch>>
coVars     == <<pc, transport, job, toucher, monitor, watched, cancelled>>
mainVars   == <<posts, main, destroyed, ticking>>
noteVars   == <<replaced, interrupted, cut>>
vars == <<startVars, fieldVars, socketVars, coVars, mainVars, noteVars, crashed,
          events>>

-----------------------------------------------------------------------------
(* Types.                                                                  *)

SocketStates == {"none", "open", "lost", "closed"}

TypeOK ==
    /\ started \in 0 .. MaxStarts
    /\ mode \in [Starts -> Modes]
    /\ pendingControlClient \in Starts \cup {Null}
    /\ intents \in Seq(Starts)
    /\ startRequested \in BOOLEAN
    /\ {controlClient, params, receiveJob, touchSender} \subseteq Starts \cup {Null}
    /\ receiver \in [Modes -> Starts \cup {Null}]
    /\ control \in [Starts -> SocketStates]
    /\ {video, touch} \subseteq [Starts -> SocketStates \ {"lost"}]
    /\ pc \in [Starts -> {"none", "launched", "ready", "connect", "launch", "done"}]
    /\ transport \in [Starts -> Modes]
    /\ job \in [Starts -> {"none", "launched", "checked", "running", "ended"}]
    /\ toucher \in [Starts -> {"none", "launched", "ended"}]
    /\ monitor \in [Starts -> {"none", "launched", "reading", "ended"}]
    /\ watched \in [Starts -> Starts \cup {Null}]
    /\ cancelled \subseteq Starts
    /\ posts \in Seq([from : Starts \cup {Null}, what : {"connected", "disconnect"}])
    /\ main \in {"idle", "disconnect", "destroy"}
    /\ destroyed \in BOOLEAN
    /\ ticking \in BOOLEAN
    /\ replaced \subseteq Starts
    /\ interrupted \in BOOLEAN
    /\ cut \subseteq Starts
    /\ crashed \in BOOLEAN
    /\ events \in 0 .. MaxEvents

Each(value) == [n \in Starts |-> value]

Init ==
    /\ started = 0
    /\ mode = Each("wifi")
    /\ pendingControlClient = Null
    /\ intents = << >>
    /\ startRequested = FALSE
    /\ controlClient = Null /\ params = Null /\ receiveJob = Null /\ touchSender = Null
    /\ receiver = [m \in Modes |-> Null]
    /\ control = Each("none") /\ video = Each("none") /\ touch = Each("none")
    /\ pc = Each("none") /\ transport = Each("wifi")
    /\ job = Each("none") /\ toucher = Each("none")
    /\ monitor = Each("none") /\ watched = Each(Null)
    /\ cancelled = {}
    /\ posts = << >>
    /\ main = "idle"
    /\ destroyed = FALSE
    /\ ticking = FALSE
    /\ replaced = {}
    /\ interrupted = FALSE
    /\ cut = {}
    /\ crashed = FALSE
    /\ events = 0

-----------------------------------------------------------------------------
(* Starting.                                                               *)

IsOpen(socket, n) == socket[n] \in {"open", "lost"}

\* A field that is assigned anew forgets what it held.
Replace(n) == replaced' = replaced \cup ({n} \ {Null})

\* MainActivity.onConnectClicked, the handshake done: the connection is parked
\* in the companion object, the service is started.
Connect ==
    /\ ~crashed /\ ~destroyed /\ main = "idle"
    /\ started < MaxStarts
    /\ started' = started + 1
    /\ \E m \in Modes : mode' = [mode EXCEPT ![started'] = m]
    /\ control' = [control EXCEPT ![started'] = "open"]
    /\ Replace(pendingControlClient)
    /\ pendingControlClient' = started'
    /\ intents' = Append(intents, started')
    /\ startRequested' = TRUE
    /\ UNCHANGED <<fieldVars, video, touch, coVars, mainVars, interrupted, cut, crashed>>

\* onStartCommand: the fields are overwritten, whatever they hold.
OnStartCommand ==
    /\ ~crashed /\ main = "idle"
    /\ intents # << >>
    /\ intents' = Tail(intents)
    /\ params' = Head(intents)
    /\ controlClient' = pendingControlClient
    /\ pendingControlClient' = Null
    /\ startRequested' = (startRequested /\ controlClient' # Null)
    /\ pc' = [pc EXCEPT ![params'] = IF controlClient' = Null THEN "done" ELSE "launched"]
    /\ Replace(controlClient)
    /\ UNCHANGED <<started, mode, receiver, receiveJob, touchSender, socketVars, transport, job,
                   toucher, monitor, watched, cancelled, mainVars, interrupted, cut, crashed>>

-----------------------------------------------------------------------------
(* The pipeline coroutine.  Once the scope is cancelled it goes on to its  *)
(* next suspension point (withContext), which throws.                      *)

Co(n, from, to) ==
    /\ ~crashed
    /\ pc[n] = from
    /\ pc' = [pc EXCEPT ![n] = to]

Post(n, what) == [from |-> n, what |-> what]

\* catch (e: Exception), CancellationException included: post { disconnect() }.
Fail(n, from) ==
    /\ Co(n, from, "done")
    /\ posts' = Append(posts, Post(Null, "disconnect"))

\* The coroutine starts and reads connectionType, or never runs.
Starting(n, m, to) ==
    /\ ~destroyed
    /\ Co(n, "launched", to)
    /\ mode[params] = m
    /\ transport' = [transport EXCEPT ![n] = m]

NeverStarts(n) ==
    /\ destroyed
    /\ Co(n, "launched", "done")
    /\ UNCHANGED <<startVars, fieldVars, socketVars, transport, job, toucher, monitor, watched,
                   cancelled, mainVars, noteVars, crashed>>

\* WiFi: UdpReceiver.bind, which may throw, and the assignment of udpReceiver.
BindUdp(n) ==
    /\ Starting(n, "wifi", "ready")
    /\ video' = [video EXCEPT ![n] = "open"]
    /\ receiver' = [receiver EXCEPT !["wifi"] = n]
    /\ Replace(receiver["wifi"])
    /\ UNCHANGED <<startVars, controlClient, params, receiveJob, touchSender, control, touch, job,
                   toucher, monitor, watched, cancelled, mainVars, interrupted, cut, crashed>>

BindUdpFails(n) ==
    /\ ~destroyed
    /\ Fail(n, "launched")
    /\ mode[params] = "wifi"
    /\ UNCHANGED <<startVars, fieldVars, socketVars, transport, job, toucher, monitor, watched,
                   cancelled, main, destroyed, ticking, noteVars, crashed>>

StartUsb(n) ==
    /\ Starting(n, "usb", "ready")
    /\ UNCHANGED <<startVars, fieldVars, socketVars, job, toucher, monitor, watched, cancelled,
                   mainVars, noteVars, crashed>>

\* controlClient?.sendReady: without a client nothing is sent, and the start
\* goes on; a client that was disconnected throws, a lost connection does not
\* (PrintWriter).
SendReady(n) ==
    /\ controlClient # Null => ~destroyed /\ IsOpen(control, controlClient)
    /\ Co(n, "ready", IF transport[n] = "wifi" THEN "launch" ELSE "connect")
    /\ UNCHANGED <<startVars, fieldVars, socketVars, transport, job, toucher, monitor, watched,
                   cancelled, mainVars, noteVars, crashed>>

SendReadyFails(n) ==
    /\ controlClient # Null
    /\ destroyed \/ ~IsOpen(control, controlClient)
    /\ Fail(n, "ready")
    /\ UNCHANGED <<startVars, fieldVars, socketVars, transport, job, toucher, monitor, watched,
                   cancelled, main, destroyed, ticking, noteVars, crashed>>

\* USB: TcpVideoReceiver.connect, and the assignment of tcpVideoReceiver.
ConnectVideo(n) ==
    /\ ~destroyed
    /\ Co(n, "connect", "launch")
    /\ video' = [video EXCEPT ![n] = "open"]
    /\ receiver' = [receiver EXCEPT !["usb"] = n]
    /\ Replace(receiver["usb"])
    /\ UNCHANGED <<startVars, controlClient, params, receiveJob, touchSender, control, touch,
                   transport, job, toucher, monitor, watched, cancelled, mainVars, interrupted,
                   cut, crashed>>

ConnectVideoFails(n) ==
    /\ ~destroyed
    /\ Fail(n, "connect")
    /\ UNCHANGED <<startVars, fieldVars, socketVars, transport, job, toucher, monitor, watched,
                   cancelled, main, destroyed, ticking, noteVars, crashed>>

\* When the scope is cancelled before connect has returned, it throws although
\* the socket may be open, and nothing is assigned.
ConnectVideoCancelled(n) ==
    /\ destroyed
    /\ Fail(n, "connect")
    /\ video' \in {video, [video EXCEPT ![n] = "open"]}
    /\ UNCHANGED <<startVars, fieldVars, control, touch, transport, job, toucher, monitor, watched,
                   cancelled, main, destroyed, ticking, noteVars, crashed>>

StartedAtOnce == "running"

\* A coroutine launched in a cancelled scope never runs.
Launched == IF destroyed THEN "ended" ELSE "launched"

\* The receive job, startTouchConnection, monitorControlConnection, and the
\* post that shows "connected" and starts the statistics.
FinishStart(n) ==
    /\ Co(n, "launch", "done")
    /\ job' = [job EXCEPT ![n] = Launched]
    /\ receiveJob' = n
    /\ Replace(receiveJob)
    /\ toucher' = [toucher EXCEPT ![n] = Launched]
    /\ monitor' = [monitor EXCEPT ![n] = Launched]
    /\ posts' = Append(posts, Post(n, "connected"))
    /\ UNCHANGED <<startVars, controlClient, params, receiver, touchSender, socketVars, transport,
                   watched, cancelled, main, destroyed, ticking, interrupted, cut, crashed>>

Pipeline(n) ==
    \/ NeverStarts(n) \/ BindUdp(n) \/ StartUsb(n) \/ SendReady(n) \/ SendReadyFails(n)
    \/ ConnectVideo(n) \/ ConnectVideoCancelled(n) \/ FinishStart(n)

-----------------------------------------------------------------------------
(* The receive job, the touch coroutine and the monitor.                   *)

Job(n, from, to) ==
    /\ ~crashed
    /\ job[n] = from
    /\ job' = [job EXCEPT ![n] = to]
    /\ cancelled' = IF to = "ended" THEN cancelled \ {n} ELSE cancelled
    /\ UNCHANGED <<startVars, fieldVars, socketVars, pc, transport, toucher, monitor, watched,
                   mainVars, noteVars>>

Stopped(n) == n \in cancelled \/ destroyed

\* withContext, at the head of receiveLoop, checks for the cancellation ...
StartReceiving(n) ==
    /\ Job(n, "launched", IF Stopped(n) THEN "ended" ELSE "checked")
    /\ UNCHANGED crashed

\* ... then the loop takes its socket, which a cleanup in between has closed ...
ReadSocket(n) ==
    /\ Job(n, "checked", "running")
    /\ video[n] = "open"
    /\ UNCHANGED crashed

\* ... so that it throws IllegalStateException, cancelled or not, which
\* nothing catches.
StartWithoutSocket(n) ==
    /\ Job(n, "checked", "ended")
    /\ video[n] = "closed"
    /\ crashed' = TRUE

\* Both loops end when they are cancelled and the read has returned, because
\* of a packet or of close; TcpVideoReceiver's also with the first exception.
StopReceiving(n) ==
    /\ Job(n, "running", "ended")
    /\ Stopped(n) \/ (transport[n] = "usb" /\ video[n] = "closed")
    /\ UNCHANGED crashed

\* The server closes the video connection: the session goes on without video.
VideoEnds(n) ==
    /\ Job(n, "running", "ended")
    /\ video[n] = "open" /\ transport[n] = "usb"
    /\ UNCHANGED crashed

Touch(n) ==
    /\ ~crashed
    /\ toucher[n] = "launched"
    /\ toucher' = [toucher EXCEPT ![n] = "ended"]
    /\ UNCHANGED <<startVars, controlClient, params, receiver, receiveJob, control, video, pc,
                   transport, job, monitor, watched, cancelled, mainVars, interrupted, cut,
                   crashed>>

\* TouchSender.connect and the assignment of touchSender.
ConnectTouch(n) ==
    /\ ~destroyed
    /\ Touch(n)
    /\ touch' = [touch EXCEPT ![n] = "open"]
    /\ touchSender' = n
    /\ Replace(touchSender)

\* A failure is logged, and the session goes on without touch.
ConnectTouchFails(n) ==
    /\ ~destroyed
    /\ Touch(n)
    /\ UNCHANGED <<touch, touchSender, replaced>>

\* As for the video: the socket may be open and assigned to nothing.
ConnectTouchCancelled(n) ==
    /\ destroyed
    /\ Touch(n)
    /\ touch' \in {touch, [touch EXCEPT ![n] = "open"]}
    /\ UNCHANGED <<touchSender, replaced>>

Monitor(n, from, to) ==
    /\ ~crashed
    /\ monitor[n] = from
    /\ monitor' = [monitor EXCEPT ![n] = to]
    /\ UNCHANGED <<startVars, fieldVars, socketVars, pc, transport, job, toucher, cancelled, main,
                   destroyed, ticking, noteVars, crashed>>

\* The monitor takes the socket of the client that is in the field now.
StartMonitor(n) ==
    LET found == ~destroyed /\ controlClient # Null /\ IsOpen(control, controlClient)
    IN  /\ Monitor(n, "launched", IF found THEN "reading" ELSE "ended")
        /\ watched' = [watched EXCEPT ![n] = IF found THEN controlClient ELSE Null]
        /\ UNCHANGED posts

MonitorEndsSilently(n) ==
    /\ Monitor(n, "reading", "ended")
    /\ control[watched[n]] # "open"
    /\ watched' = [watched EXCEPT ![n] = Null]
    /\ UNCHANGED posts

\* End of stream, or an exception: post { disconnect() }.
MonitorEnds(n) ==
    /\ Monitor(n, "reading", "ended")
    /\ control[watched[n]] # "open"
    /\ posts' = Append(posts, Post(Null, "disconnect"))
    /\ watched' = [watched EXCEPT ![n] = Null]

Others(n) ==
    \/ StartReceiving(n) \/ ReadSocket(n) \/ StartWithoutSocket(n) \/ StopReceiving(n)
    \/ ConnectTouch(n) \/ ConnectTouchCancelled(n) \/ StartMonitor(n) \/ MonitorEnds(n)

-----------------------------------------------------------------------------
(* The main thread.                                                        *)

Connecting(n) == pc[n] \notin {"none", "done"}

UnderWay(n) ==
    \/ Connecting(n)
    \/ toucher[n] = "launched"
    \/ job[n] \in {"launched", "checked"}
    \/ \E i \in DOMAIN posts : posts[i] = Post(n, "connected")

NoJobs == {}
JobsOfFields == {n \in Starts : n = receiveJob /\ job[n] # "ended"}

\* The first half of cleanupConnections: the jobs are cancelled.
Cancel(why) ==
    /\ ~crashed
    /\ main = "idle"
    /\ main' = why
    /\ interrupted' = (interrupted \/ \E n \in Starts : Connecting(n) \/ job[n] = "checked")
    /\ cut' = cut \cup {n \in Starts : why = "destroy" /\ UnderWay(n)}
    /\ cancelled' = cancelled \cup JobsOfFields
    /\ receiveJob' = Null
    /\ UNCHANGED <<startVars, controlClient, params, receiver, touchSender, socketVars, pc,
                   transport, job, toucher, monitor, watched, destroyed, replaced,
                   crashed>>

\* disconnect(), by the notification's button ...
UserDisconnects ==
    /\ started > 0 /\ ~destroyed
    /\ Cancel("disconnect")
    /\ UNCHANGED <<posts, ticking>>

\* ... or posted by a coroutine, to a service that may be destroyed by now.
RunDisconnect ==
    /\ posts # << >> /\ Head(posts).what = "disconnect"
    /\ posts' = Tail(posts)
    /\ Cancel("disconnect")
    /\ UNCHANGED ticking

RunConnected ==
    /\ ~crashed /\ main = "idle"
    /\ posts # << >> /\ Head(posts).what = "connected"
    /\ posts' = Tail(posts)
    /\ ticking' = TRUE
    /\ UNCHANGED <<startVars, fieldVars, socketVars, coVars, main, destroyed, noteVars, crashed>>

\* onDestroy: nobody has the service started (or bound) any more, and every
\* start intent was delivered.
OnDestroy ==
    /\ started > 0 /\ ~destroyed
    /\ ~startRequested /\ intents = << >>
    /\ ticking' = FALSE
    /\ Cancel("destroy")
    /\ UNCHANGED posts

CloseThose(socket, held) ==
    [n \in Starts |-> IF n \in held THEN "closed" ELSE socket[n]]

UdpReceiverOnly == {receiver["wifi"]}
Receivers == {receiver[m] : m \in Modes}

\* The second half of cleanupConnections: what the fields hold is closed.
\* Then stopSelf, or serviceScope.cancel.
CloseFields ==
    /\ ~crashed
    /\ main # "idle"
    /\ main' = "idle"
    /\ video' = CloseThose(video, Receivers)
    /\ touch' = CloseThose(touch, {touchSender})
    /\ control' = CloseThose(control, {controlClient})
    /\ receiver' = [m \in Modes |-> Null]
    /\ touchSender' = Null
    /\ controlClient' = Null
    /\ startRequested' = (startRequested /\ main # "disconnect")
    /\ destroyed' = (destroyed \/ main = "destroy")
    /\ UNCHANGED <<started, mode, pendingControlClient, intents, params, receiveJob, coVars, posts,
                   ticking, noteVars, crashed>>

MainThread == OnStartCommand \/ RunConnected \/ RunDisconnect \/ CloseFields

-----------------------------------------------------------------------------
(* The server.                                                             *)

ServerClosesControl(n) ==
    /\ ~crashed
    /\ control[n] = "open"
    /\ control' = [control EXCEPT ![n] = "lost"]
    /\ UNCHANGED <<startVars, fieldVars, video, touch, coVars, mainVars, noteVars, crashed>>

-----------------------------------------------------------------------------
(* The specification.                                                      *)

Step ==
    \/ Connect \/ MainThread \/ OnDestroy
    \/ \E n \in Starts : Pipeline(n) \/ Others(n)

Event ==
    \/ UserDisconnects
    \/ \E n \in Starts :
          \/ ServerClosesControl(n) \/ VideoEnds(n)
          \/ BindUdpFails(n) \/ ConnectVideoFails(n) \/ ConnectTouchFails(n)

Next ==
    \/ Step /\ UNCHANGED events
    \/ events < MaxEvents /\ Event /\ events' = events + 1

Spec == Init /\ [][Next]_vars

-----------------------------------------------------------------------------
(* Properties.                                                             *)

\* Start n ran its course: no later start took over its fields, and the
\* service was not destroyed while it was still under way.
Undisturbed(n) == n \notin replaced \cup cut

\* "Disconnect and stop the service" (DisplayService.kt:418): once the service
\* is destroyed, what its starts have opened is closed, whichever of the
\* connections failed or was lost, and the statistics have stopped.
DestroyStopsEverything ==
    destroyed =>
       /\ \A n \in 1 .. started :
             Undisturbed(n) => ~IsOpen(control, n) /\ ~IsOpen(video, n) /\ ~IsOpen(touch, n)
       /\ ticking => cut # {}

\* The uncaught IllegalStateException of receiveLoop needs a second start, or a
\* cleanup that came while a session was coming up: its pipeline under way, or
\* its receive job between the check for the cancellation and the socket.  In
\* every other order the job is cancelled before its check or has its socket.
CrashNeedsInterruptedStart == crashed => interrupted \/ replaced # {}

\* Nothing is left to do: no post, no intent, and no coroutine that can go on.
\* As no behaviour has a cycle, the service settles wherever the main thread
\* and Dispatchers.IO keep working.
Settled ==
    /\ ~crashed /\ main = "idle" /\ posts = << >> /\ intents = << >>
    /\ \A n \in Starts :
          /\ pc[n] \in {"none", "done"}
          /\ {"launched", "checked"} \cap {job[n], toucher[n], monitor[n]} = {}
          /\ job[n] = "running" => \/ video[n] = "open"
                                   \/ transport[n] = "wifi" /\ ~Stopped(n)
          /\ monitor[n] = "reading" => control[watched[n]] = "open"

\* When the server closes the control connection of the session in the
\* fields, the service closes its end, whatever the start was doing.
LostConnectionIsCleanedUp ==
    Settled /\ controlClient # Null => control[controlClient] = "open"
=============================================================================
