---------------------------- MODULE ServerSession ----------------------------
(***************************************************************************)
(* The life of a client on the Mac server: the control handshake of        *)
(* control.Server, the touch and video servers allocateClientPorts gives   *)
(* each client, and the goroutines OnClient starts for it (the monitor of  *)
(* the control connection, the teardown and the streaming pipeline).       *)
(*                                                                         *)
(* A connection is identified by its net.Conn, which is never reused, and  *)
(* is served by one handleConn goroutine.  hs, tear and pipe are the       *)
(* program counters of the goroutines a connection has; a step ends where  *)
(* another goroutine, the client or the kernel can see the difference.     *)
(***************************************************************************)
EXTENDS Naturals, FiniteSets

CONSTANTS
    Conns,     \* the control connections clients open, in either mode
    Usb        \* those whose ClientHello says connectionType = "usb"

ASSUME UsbAssumption == Usb \subseteq Conns

VARIABLES
    hs,             \* handleConn: where the handshake of a connection is
    cli,            \* the Android client at the other end
    sentReady,      \* connections whose client has written ClientReady
    ctl,            \* the server's end of the control connection
    clientServers,  \* keys of clientServersMap
    clients,        \* control.Server.clients
    stopped,        \* control.Server.Stop has run
    ctx,            \* the context that ties a client's goroutines together
    touchLn,        \* the listener of the client's touch.Server
    touch,          \* the client's touch connection, seen from the server
    videoLn,        \* the listener of the client's TCPVideoServer
    video,          \* the client's video connection, seen from the server
    forwarded,      \* connections whose two ports adb forwards
    pipe,           \* startPipelineWiFi, startPipelineUSB
    tear,           \* the teardown goroutine
    createMu        \* connections inside the lock of the display package

tableVars   == <<clientServers, clients, stopped>>
controlVars == <<hs, ctl, tableVars>>
clientVars  == <<cli, sentReady>>
touchVars   == <<touchLn, touch>>
videoVars   == <<videoLn, video>>
serverVars  == <<touchVars, videoVars, forwarded>>
taskVars    == <<ctx, pipe, tear, createMu>>
vars == <<controlVars, clientVars, serverVars, taskVars>>

Handshake == {"idle", "hello", "touchPort", "videoPort", "publish", "forward",
              "reply", "ready", "register", "handoff", "returned"}
ListenerState == {"none", "open", "closed"}
Pipeline == {"none", "open", "store", "wantCreate", "creating", "build",
             "active", "wantDestroy", "destroying", "ended"}
Teardown == {"none", "wait", "touchClose", "touchWait", "videoClose",
             "videoLnClose", "unforward", "done"}

TypeOK ==
    /\ hs \in [Conns -> Handshake]
    /\ cli \in [Conns -> {"none", "connected", "ready", "gone"}]
    /\ sentReady \subseteq Conns
    /\ ctl \in [Conns -> {"none", "open", "closed"}]
    /\ clientServers \subseteq Conns
    /\ clients \subseteq Conns
    /\ stopped \in BOOLEAN
    /\ ctx \in [Conns -> {"none", "live", "cancelled"}]
    /\ touchLn \in [Conns -> ListenerState]
    /\ touch \in [Conns -> {"none", "dialed", "accepted", "served", "closed"}]
    /\ videoLn \in [Conns -> ListenerState]
    /\ video \in [Conns -> {"none", "dialed", "accepted", "stored", "closed"}]
    /\ forwarded \subseteq Conns
    /\ pipe \in [Conns -> Pipeline]
    /\ tear \in [Conns -> Teardown]
    /\ createMu \in {{}} \cup {{c} : c \in Conns}

Init ==
    /\ hs = [c \in Conns |-> "idle"]
    /\ cli = [c \in Conns |-> "none"]
    /\ sentReady = {}
    /\ ctl = [c \in Conns |-> "none"]
    /\ clientServers = {}
    /\ clients = {}
    /\ stopped = FALSE
    /\ ctx = [c \in Conns |-> "none"]
    /\ touchLn = [c \in Conns |-> "none"]
    /\ touch = [c \in Conns |-> "none"]
    /\ videoLn = [c \in Conns |-> "none"]
    /\ video = [c \in Conns |-> "none"]
    /\ forwarded = {}
    /\ pipe = [c \in Conns |-> "none"]
    /\ tear = [c \in Conns |-> "none"]
    /\ createMu = {}

-----------------------------------------------------------------------------
(* The handshake: control.Server and allocateClientPorts.                  *)

HandshakeTo(c, step) == hs' = [hs EXCEPT ![c] = step]

(* Every error path of handleConn closes the connection and returns.       *)
GiveUp(c) ==
    /\ HandshakeTo(c, "returned")
    /\ ctl' = [ctl EXCEPT ![c] = "closed"]

(* A read of the handshake fails: the message is malformed or cut off, or  *)
(* the 10 s deadline for the whole handshake has expired.                  *)
ReadFailsWithoutDeadline(c) == cli[c] = "gone" /\ GiveUp(c)
ReadFails(c) == GiveUp(c)

(* A client dials, AcceptLoop accepts and starts handleConn.               *)
AcceptLoop(c) ==
    /\ hs[c] = "idle" /\ ~stopped
    /\ cli' = [cli EXCEPT ![c] = "connected"]
    /\ HandshakeTo(c, "hello")
    /\ ctl' = [ctl EXCEPT ![c] = "open"]
    /\ UNCHANGED <<tableVars, sentReady, serverVars, taskVars>>

ReadClientHello(c) ==
    /\ hs[c] = "hello"
    /\ \/ HandshakeTo(c, "touchPort") /\ UNCHANGED ctl
       \/ ReadFails(c)
    /\ UNCHANGED <<tableVars, clientVars, serverVars, taskVars>>

NewTouchServer(c) ==
    /\ hs[c] = "touchPort"
    /\ \/ /\ touchLn' = [touchLn EXCEPT ![c] = "open"]
          /\ HandshakeTo(c, IF c \in Usb THEN "videoPort" ELSE "publish")
          /\ UNCHANGED ctl
       \/ GiveUp(c) /\ UNCHANGED touchLn
    /\ UNCHANGED <<tableVars, clientVars, touch, videoVars, forwarded, taskVars>>

(* When the video listener cannot be made, the touch server just made is   *)
(* stopped; no client knows its port, so its Stop has nothing to wait for. *)
ForgetTouchServer(c) == UNCHANGED touchLn
StopTouchServer(c) == touchLn' = [touchLn EXCEPT ![c] = "closed"]

NewVideoServer(c) ==
    /\ hs[c] = "videoPort"
    /\ \/ /\ videoLn' = [videoLn EXCEPT ![c] = "open"]
          /\ HandshakeTo(c, "publish")
          /\ UNCHANGED <<ctl, touchLn>>
       \/ /\ StopTouchServer(c)
          /\ GiveUp(c)
          /\ UNCHANGED videoLn
    /\ UNCHANGED <<tableVars, clientVars, touch, video, forwarded, taskVars>>

PublishUsb(c) == clientServers' = clientServers \cup ({c} \cap Usb)
Publish(c) == clientServers' = clientServers \cup {c}

PublishServers(c) ==
    /\ hs[c] = "publish"
    /\ Publish(c)
    /\ HandshakeTo(c, IF c \in Usb THEN "forward" ELSE "reply")
    /\ UNCHANGED <<ctl, clients, stopped, clientVars, serverVars, taskVars>>

(* adb may be absent or fail; the failure is logged and the handshake goes *)
(* on with ports the client cannot reach.                                  *)
SetupForwards(c) ==
    /\ hs[c] = "forward"
    /\ forwarded' \in {forwarded, forwarded \cup {c}}
    /\ HandshakeTo(c, "reply")
    /\ UNCHANGED <<tableVars, ctl, clientVars, touchVars, videoVars, taskVars>>

(* Writing ServerHello fails only on a connection the client has dropped;  *)
(* the first write after that may still succeed.                           *)
SendServerHello(c) ==
    /\ hs[c] = "reply"
    /\ \/ HandshakeTo(c, "ready") /\ UNCHANGED ctl
       \/ cli[c] = "gone" /\ GiveUp(c)
    /\ UNCHANGED <<tableVars, clientVars, serverVars, taskVars>>

(* ClientReady is read if the client wrote it in time, even if it has left *)
(* since; the deadline may also expire just before.                        *)
ReadClientReady(c) ==
    /\ hs[c] = "ready"
    /\ \/ c \in sentReady /\ HandshakeTo(c, "register") /\ UNCHANGED ctl
       \/ ReadFails(c)
    /\ UNCHANGED <<tableVars, clientVars, serverVars, taskVars>>

RegisterClient(c) ==
    /\ hs[c] = "register"
    /\ clients' = clients \cup {c}
    /\ HandshakeTo(c, "handoff")
    /\ UNCHANGED <<ctl, clientServers, stopped, clientVars, serverVars, taskVars>>

LookUpServers(c) == UNCHANGED clientServers
TakeServers(c) == clientServers' = clientServers \ {c}

(* The callback of main: take the servers out of the map and start the     *)
(* monitor, the teardown and the pipeline.  Without servers the client is  *)
(* dropped: the callback returns and nothing watches the connection.       *)
OnClient(c) ==
    /\ hs[c] = "handoff"
    /\ HandshakeTo(c, "returned")
    /\ TakeServers(c)
    /\ LET start(f, s) == IF c \in clientServers THEN [f EXCEPT ![c] = s] ELSE f
       IN  /\ ctx' = start(ctx, "live")
           /\ tear' = start(tear, "wait")
           /\ pipe' = start(pipe, "open")
    /\ UNCHANGED <<ctl, clients, stopped, clientVars, serverVars, createMu>>

(* Stop closes the listener and every registered connection, and the       *)
(* process exits soon after; a connection registered later stays open.     *)
Stop ==
    /\ ~stopped
    /\ stopped' = TRUE
    /\ ctl' = [c \in Conns |-> IF c \in clients THEN "closed" ELSE ctl[c]]
    /\ UNCHANGED <<hs, clientServers, clients, clientVars, serverVars, taskVars>>

-----------------------------------------------------------------------------
(* The Android client, as far as the server can tell.                      *)

(* It reads ServerHello and answers.  After a handshake that timed out the *)
(* answer is written to a connection the server has already closed.        *)
SendClientReady(c) ==
    /\ cli[c] = "connected"
    /\ hs[c] = "ready" \/ (hs[c] = "returned" /\ c \in clientServers)
    /\ cli' = [cli EXCEPT ![c] = "ready"]
    /\ sentReady' = sentReady \cup {c}
    /\ UNCHANGED <<controlVars, serverVars, taskVars>>

Reachable(c, ln) == ln[c] = "open" /\ (c \in Usb => c \in forwarded)

DialVideo(c) ==
    /\ cli[c] = "ready" /\ c \in Usb /\ video[c] = "none"
    /\ Reachable(c, videoLn)
    /\ video' = [video EXCEPT ![c] = "dialed"]
    /\ UNCHANGED <<controlVars, clientVars, touchVars, videoLn, forwarded, taskVars>>

(* In USB mode the touch connection is made after the video connection.    *)
DialTouch(c) ==
    /\ cli[c] = "ready" /\ touch[c] = "none"
    /\ c \in Usb => video[c] # "none"
    /\ Reachable(c, touchLn)
    /\ touch' = [touch EXCEPT ![c] = "dialed"]
    /\ UNCHANGED <<controlVars, clientVars, touchLn, videoVars, forwarded, taskVars>>

(* The user disconnects, the app dies, or it saw the server close: every   *)
(* socket of the client is closed.                                         *)
ClientLeaves(c) ==
    /\ cli[c] \in {"connected", "ready"}
    /\ cli' = [cli EXCEPT ![c] = "gone"]
    /\ UNCHANGED <<controlVars, sentReady, serverVars, taskVars>>

-----------------------------------------------------------------------------
(* The goroutines of a client: monitor, touch server, teardown.            *)

(* <-ctx.Done()                                                            *)
DoneOrClientGone(c) == ctx[c] = "cancelled" \/ (ctx[c] = "live" /\ cli[c] = "gone")
Done(c) == ctx[c] = "cancelled"

(* The monitor cancels when a read of the control connection fails.        *)
MonitorControl(c) ==
    /\ ctx[c] = "live"
    /\ cli[c] = "gone" \/ ctl[c] = "closed"
    /\ ctx' = [ctx EXCEPT ![c] = "cancelled"]
    /\ UNCHANGED <<controlVars, clientVars, serverVars, pipe, tear, createMu>>

TouchAccept(c) ==
    /\ touch[c] = "dialed" /\ touchLn[c] = "open"
    /\ touch' = [touch EXCEPT ![c] = "accepted"]
    /\ UNCHANGED <<controlVars, clientVars, touchLn, videoVars, forwarded, taskVars>>

(* wg.Add(1) and go handleConn: Stop may have run since the Accept.        *)
TouchServe(c) ==
    /\ touch[c] = "accepted"
    /\ touch' = [touch EXCEPT ![c] = "served"]
    /\ UNCHANGED <<controlVars, clientVars, touchLn, videoVars, forwarded, taskVars>>

(* handleConn of the touch server returns only when a read fails.          *)
TouchHandlerEnds(c) ==
    /\ touch[c] = "served" /\ cli[c] = "gone"
    /\ touch' = [touch EXCEPT ![c] = "closed"]
    /\ UNCHANGED <<controlVars, clientVars, touchLn, videoVars, forwarded, taskVars>>

TeardownTo(c, step) == tear' = [tear EXCEPT ![c] = step]

TeardownStarts(c) ==
    /\ tear[c] = "wait" /\ Done(c)
    /\ TeardownTo(c, "touchClose")
    /\ UNCHANGED <<controlVars, clientVars, serverVars, ctx, pipe, createMu>>

(* Closing a listener resets the connections nobody has accepted.          *)
Drop(f, c) == [f EXCEPT ![c] = IF @ = "dialed" THEN "closed" ELSE @]

CloseTouchListener(c) ==
    /\ tear[c] = "touchClose"
    /\ touchLn' = [touchLn EXCEPT ![c] = "closed"]
    /\ touch' = Drop(touch, c)
    /\ TeardownTo(c, "touchWait")
    /\ UNCHANGED <<controlVars, clientVars, videoVars, forwarded, ctx, pipe, createMu>>

(* wg.Wait in touch.Server.Stop.                                           *)
AwaitTouchHandlers(c) ==
    /\ tear[c] = "touchWait" /\ touch[c] # "served"
    /\ TeardownTo(c, IF c \in Usb THEN "videoClose" ELSE "done")
    /\ UNCHANGED <<controlVars, clientVars, serverVars, ctx, pipe, createMu>>

(* TCPVideoServer.Close: the stored connection first, then the listener.   *)
CloseVideoConn(c) ==
    /\ tear[c] = "videoClose"
    /\ video' = [video EXCEPT ![c] = IF @ = "stored" THEN "closed" ELSE @]
    /\ TeardownTo(c, "videoLnClose")
    /\ UNCHANGED <<controlVars, clientVars, touchVars, videoLn, forwarded, ctx, pipe, createMu>>

CloseNothing(c) == UNCHANGED videoVars
CloseAndDrop(c) ==
    /\ videoLn' = [videoLn EXCEPT ![c] = "closed"]
    /\ video' = Drop(video, c)

CloseVideoListener(c) ==
    /\ tear[c] = "videoLnClose"
    /\ CloseAndDrop(c)
    /\ TeardownTo(c, "unforward")
    /\ UNCHANGED <<controlVars, clientVars, touchVars, forwarded, ctx, pipe, createMu>>

(* adb may be absent or fail: then the forwards stay.                      *)
RemoveForwards(c) ==
    /\ tear[c] = "unforward"
    /\ forwarded' \in {forwarded, forwarded \ {c}}
    /\ TeardownTo(c, "done")
    /\ UNCHANGED <<controlVars, clientVars, touchVars, videoVars, ctx, pipe, createMu>>

-----------------------------------------------------------------------------
(* The streaming pipeline: startPipelineWiFi, startPipelineUSB and         *)
(* startPipelineCommon.  Deferred calls run on every return.               *)

PipelineTo(c, step) == pipe' = [pipe EXCEPT ![c] = step]

(* The last deferred call is cancel.                                       *)
EndPipeline(c) ==
    /\ PipelineTo(c, "ended")
    /\ ctx' = [ctx EXCEPT ![c] = "cancelled"]

OpenUDP(c) ==
    /\ pipe[c] = "open" /\ c \notin Usb
    /\ \/ PipelineTo(c, "wantCreate") /\ UNCHANGED ctx
       \/ EndPipeline(c)
    /\ UNCHANGED <<controlVars, clientVars, serverVars, tear, createMu>>

(* AcceptOne returns with the client's connection or, once the listener is *)
(* closed, with an error; it has no deadline.                              *)
AcceptVideo(c) ==
    /\ pipe[c] = "open" /\ c \in Usb
    /\ \/ /\ video[c] = "dialed" /\ videoLn[c] = "open"
          /\ video' = [video EXCEPT ![c] = "accepted"]
          /\ PipelineTo(c, "store")
          /\ UNCHANGED ctx
       \/ /\ videoLn[c] = "closed"
          /\ EndPipeline(c)
          /\ UNCHANGED video
    /\ UNCHANGED <<controlVars, clientVars, touchVars, videoLn, forwarded, tear, createMu>>

(* s.conn = conn, whether or not Close has run.                            *)
StoreVideo(c) ==
    /\ pipe[c] = "store"
    /\ video' = [video EXCEPT ![c] = "stored"]
    /\ PipelineTo(c, "wantCreate")
    /\ UNCHANGED <<controlVars, clientVars, touchVars, videoLn, forwarded, ctx, tear, createMu>>

(* createMu.Lock()                                                         *)
EnterUnlocked(c) == createMu' = createMu \cup {c}
LockDisplays(c) ==
    /\ createMu = {}
    /\ createMu' = {c}

LockCreate(c) ==
    /\ pipe[c] = "wantCreate"
    /\ LockDisplays(c)
    /\ PipelineTo(c, "creating")
    /\ UNCHANGED <<controlVars, clientVars, serverVars, ctx, tear>>

CreateDisplay(c) ==
    /\ pipe[c] = "creating"
    /\ createMu' = createMu \ {c}
    /\ \/ PipelineTo(c, "build") /\ UNCHANGED ctx
       \/ EndPipeline(c)
    /\ UNCHANGED <<controlVars, clientVars, serverVars, tear>>

(* Encoder and capture; when either fails the display is closed again.     *)
BuildMedia(c) ==
    /\ pipe[c] = "build"
    /\ pipe' \in {[pipe EXCEPT ![c] = s] : s \in {"active", "wantDestroy"}}
    /\ UNCHANGED <<controlVars, clientVars, serverVars, ctx, tear, createMu>>

(* <-ctx.Done(), then the deferred cap.Stop and enc.Close.                 *)
StopMedia(c) ==
    /\ pipe[c] = "active" /\ Done(c)
    /\ PipelineTo(c, "wantDestroy")
    /\ UNCHANGED <<controlVars, clientVars, serverVars, ctx, tear, createMu>>

LockDestroy(c) ==
    /\ pipe[c] = "wantDestroy"
    /\ LockDisplays(c)
    /\ PipelineTo(c, "destroying")
    /\ UNCHANGED <<controlVars, clientVars, serverVars, ctx, tear>>

DestroyDisplay(c) ==
    /\ pipe[c] = "destroying"
    /\ createMu' = createMu \ {c}
    /\ EndPipeline(c)
    /\ UNCHANGED <<controlVars, clientVars, serverVars, tear>>

-----------------------------------------------------------------------------
HandshakeStep(c) ==
    \/ ReadClientHello(c) \/ NewTouchServer(c) \/ NewVideoServer(c)
    \/ PublishServers(c) \/ SetupForwards(c) \/ SendServerHello(c)
    \/ ReadClientReady(c) \/ RegisterClient(c) \/ OnClient(c)

TouchStep(c) == TouchAccept(c) \/ TouchServe(c) \/ TouchHandlerEnds(c)

TeardownStep(c) ==
    \/ TeardownStarts(c) \/ CloseTouchListener(c) \/ AwaitTouchHandlers(c)
    \/ CloseVideoConn(c) \/ CloseVideoListener(c) \/ RemoveForwards(c)

UnlockedPipelineStep(c) ==
    \/ OpenUDP(c) \/ AcceptVideo(c) \/ StoreVideo(c) \/ CreateDisplay(c)
    \/ BuildMedia(c) \/ StopMedia(c) \/ DestroyDisplay(c)

LockStep(c) == LockCreate(c) \/ LockDestroy(c)

ServerStep(c) ==
    \/ HandshakeStep(c) \/ MonitorControl(c) \/ TouchStep(c)
    \/ TeardownStep(c) \/ UnlockedPipelineStep(c) \/ LockStep(c)

ClientStep(c) ==
    SendClientReady(c) \/ DialVideo(c) \/ DialTouch(c) \/ ClientLeaves(c)

Next == Stop \/ \E c \in Conns : AcceptLoop(c) \/ ServerStep(c) \/ ClientStep(c)

Spec == Init /\ [][Next]_vars

(* The Go scheduler runs every goroutine that can run, reads of a closed   *)
(* connection return, the handshake deadline expires, adb and the system   *)
(* calls return, and sync.Mutex hands itself to a waiter that has starved  *)
(* for a millisecond.  Nothing makes a client act, except that it leaves   *)
(* when it sees the server close its control connection.                   *)
Fairness ==
    \A c \in Conns :
        /\ WF_vars(HandshakeStep(c))
        /\ WF_vars(MonitorControl(c))
        /\ WF_vars(TouchStep(c))
        /\ WF_vars(TeardownStep(c))
        /\ WF_vars(UnlockedPipelineStep(c))
        /\ SF_vars(LockStep(c))
        /\ WF_vars(ctl[c] = "closed" /\ cli[c] = "ready" /\ ClientLeaves(c))

FairSpec == Spec /\ Fairness

-----------------------------------------------------------------------------
(* Safety.                                                                 *)

(* Who is to close the servers of a connection: the handshake that has not *)
(* published them yet, clientServersMap, or the teardown goroutine.        *)
Owners(c) ==
    (IF hs[c] \in {"videoPort", "publish"} THEN {"handshake"} ELSE {})
      \cup (IF c \in clientServers THEN {"map"} ELSE {})
      \cup (IF tear[c] \in {"none", "done"} THEN {} ELSE {"teardown"})

(* Servers that listen have exactly one owner.  With none they leak; with  *)
(* two they are stopped twice, and closing their done channel twice is a   *)
(* panic that takes the whole server down.                                 *)
ServersHaveOneOwner ==
    \A c \in Conns :
        "open" \in {touchLn[c], videoLn[c]} => \E o \in Owners(c) : Owners(c) = {o}

(* A callback of OnClient finds the servers its handshake allocated: the   *)
(* branch that drops the client and forgets its connection never runs.     *)
HandoffFindsServers == \A c \in Conns : hs[c] = "handoff" => c \in clientServers

(* While the context of a client lives, its listeners are up and Stop can  *)
(* reach its control connection; whichever of its goroutines fail.         *)
LiveSessionKeepsServers ==
    \A c \in Conns :
        ctx[c] = "live" =>
            /\ touchLn[c] = "open"
            /\ c \in Usb => videoLn[c] = "open"
            /\ c \in clients

(* "Create/Destroy calls must never overlap" (virtual.go).                 *)
DisplayCallsNeverOverlap ==
    \A c, d \in Conns :
        pipe[c] \in {"creating", "destroying"} /\ pipe[d] \in {"creating", "destroying"}
            => c = d

(* How far the lease of a connection has come, and which ports it opened.  *)
LeaseOf(c) ==
    IF c \in clientServers THEN "reserved"
    ELSE IF ctx[c] = "live" THEN "granted"
    ELSE IF ctx[c] = "cancelled" THEN IF tear[c] = "done" THEN "released" ELSE "ending"
    ELSE IF hs[c] = "returned" /\ touchLn[c] # "none" THEN "released" ELSE "free"

OpenPorts(c) ==
    {p \in {"touch", "video"} : (IF p = "touch" THEN touchLn[c] ELSE videoLn[c]) = "open"}

leaseOf == [c \in Conns |-> LeaseOf(c)]
portsOf == [c \in Conns |-> OpenPorts(c)]

Lease == INSTANCE ClientLease WITH lease <- leaseOf, ports <- portsOf

(* Every step of the server is a step of ClientLease or changes nothing a  *)
(* lease is about.                                                         *)
ImplementsLease == Lease!LeaseSpec

-----------------------------------------------------------------------------
(* Liveness, under FairSpec.                                               *)

(* The 10 s deadline of handleConn ends every handshake, whatever the      *)
(* client does or fails to do.                                             *)
HandshakeEnds == \A c \in Conns : hs[c] = "hello" ~> hs[c] = "returned"

(* When a client has left, all that was started for it ends: AcceptOne is  *)
(* woken by the teardown, Stop of its touch server returns, and its        *)
(* pipeline gives up the display.  The exception are the servers of a      *)
(* handshake that failed after they were published: see                    *)
(* MapHoldsOnlyHandshakes.                                                 *)
LeftClientIsReleased ==
    \A c \in Conns :
        cli[c] = "gone" ~>
            /\ hs[c] = "returned"
            /\ tear[c] \in {"none", "done"} /\ pipe[c] \in {"none", "ended"}
            /\ touch[c] \notin {"accepted", "served"}
            /\ c \notin clientServers => "open" \notin {touchLn[c], videoLn[c]}

-----------------------------------------------------------------------------
(* What the comments of the code say and the code does not do.             *)

(* "clientServersMap tracks per-client servers between allocation (during  *)
(* the handshake, in allocateClientPorts) and pipeline start (in           *)
(* OnClient)": no entry of a handshake that is over.                       *)
MapHoldsOnlyHandshakes == \A c \in clientServers : hs[c] # "returned"
=============================================================================
