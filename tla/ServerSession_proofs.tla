------------------------ MODULE ServerSession_proofs -------------------------
(***************************************************************************)
(* The safety properties of ServerSession, for any set of connections.     *)
(***************************************************************************)
EXTENDS ServerSession, TLAPS

(* Where a handshake is, against the entry of clientServersMap and the     *)
(* goroutines of OnClient.                                                 *)
HandoffInv(c) ==
    /\ hs[c] \in {"forward", "reply", "ready", "register", "handoff"} => c \in clientServers
    /\ c \in clientServers =>
         /\ hs[c] \in {"forward", "reply", "ready", "register", "handoff", "returned"}
         /\ ctx[c] = "none"
    /\ hs[c] \in {"handoff"} => c \in clients
    /\ ctx[c] # "none" => hs[c] = "returned" /\ c \in clients
    /\ ctx[c] = "none" <=> tear[c] = "none"
    /\ ctx[c] = "none" <=> pipe[c] = "none"

(* Which listeners are open, from the place of handshake and teardown.     *)
ListenerInv(c) ==
    /\ touchLn[c] = "open" <=>
         \/ hs[c] \in {"videoPort", "publish"}
         \/ c \in clientServers
         \/ tear[c] \in {"wait", "touchClose"}
    /\ videoLn[c] = "open" <=>
         /\ c \in Usb
         /\ \/ hs[c] = "publish"
            \/ c \in clientServers
            \/ tear[c] \in {"wait", "touchClose", "touchWait", "videoClose", "videoLnClose"}
    /\ hs[c] = "videoPort" => c \in Usb
    /\ hs[c] \in {"idle", "hello", "touchPort"} => touchLn[c] = "none"

(* The teardown begins when the context ends, and the pipeline ends it.    *)
ContextInv(c) ==
    /\ ctx[c] = "live" => tear[c] = "wait"
    /\ pipe[c] = "ended" => ctx[c] = "cancelled"

(* createMu is held exactly by the pipeline inside a display call.         *)
MutexInv(c) == c \in createMu <=> pipe[c] \in {"creating", "destroying"}

IInv ==
    /\ TypeOK
    /\ \A c \in Conns : HandoffInv(c) /\ ListenerInv(c) /\ ContextInv(c) /\ MutexInv(c)

-----------------------------------------------------------------------------
(* Every variable keeps its type, and at most one connection is inside the *)
(* display API.                                                            *)
LEMMA TypeInit == Init => TypeOK
<1> SUFFICES ASSUME Init PROVE TypeOK
  OBVIOUS
<1> USE DEF Init
<1>1. hs \in [Conns -> Handshake] /\ cli \in [Conns -> {"none", "connected", "ready", "gone"}]
  BY DEF Handshake
<1>2. /\ touchLn \in [Conns -> ListenerState] /\ videoLn \in [Conns -> ListenerState]
      /\ touch \in [Conns -> {"none", "dialed", "accepted", "served", "closed"}]
      /\ video \in [Conns -> {"none", "dialed", "accepted", "stored", "closed"}]
  BY DEF ListenerState
<1>3. /\ ctl \in [Conns -> {"none", "open", "closed"}]
      /\ ctx \in [Conns -> {"none", "live", "cancelled"}]
  OBVIOUS
<1>4. pipe \in [Conns -> Pipeline] /\ tear \in [Conns -> Teardown]
  BY DEF Pipeline, Teardown
<1> QED
  BY <1>1, <1>2, <1>3, <1>4 DEF TypeOK

(* Every step of the server, a client or the kernel keeps the types: one   *)
(* step of the proof for each action.                                      *)
LEMMA TypeStep == TypeOK /\ [Next]_vars => TypeOK'
<1> SUFFICES ASSUME TypeOK, [Next]_vars PROVE TypeOK'
  OBVIOUS
<1> USE DEF TypeOK, Handshake, ListenerState, Pipeline, Teardown, clientVars, tableVars,
      controlVars, touchVars, videoVars, serverVars, taskVars, HandshakeTo, GiveUp, ReadFails,
      TeardownTo, PipelineTo, EndPipeline
<1>1. CASE Stop
  BY <1>1 DEF Stop
<1>2. ASSUME NEW c \in Conns, AcceptLoop(c) PROVE TypeOK'
  BY <1>2 DEF AcceptLoop
<1>3. ASSUME NEW c \in Conns, HandshakeStep(c) PROVE TypeOK'
  <2>1. CASE ReadClientHello(c)
    BY <2>1 DEF ReadClientHello
  <2>2. CASE NewTouchServer(c)
    BY <2>2 DEF NewTouchServer
  <2>3. CASE NewVideoServer(c)
    BY <2>3 DEF NewVideoServer, StopTouchServer
  <2>4. CASE PublishServers(c)
    BY <2>4 DEF PublishServers, Publish
  <2>5. CASE SetupForwards(c)
    BY <2>5 DEF SetupForwards
  <2>6. CASE SendServerHello(c)
    BY <2>6 DEF SendServerHello
  <2>7. CASE ReadClientReady(c)
    BY <2>7 DEF ReadClientReady
  <2>8. CASE RegisterClient(c)
    BY <2>8 DEF RegisterClient
  <2>9. CASE OnClient(c)
    BY <2>9 DEF OnClient, TakeServers
  <2> QED
    BY <1>3, <2>1, <2>2, <2>3, <2>4, <2>5, <2>6, <2>7, <2>8, <2>9 DEF HandshakeStep
<1>4. ASSUME NEW c \in Conns, ClientStep(c) PROVE TypeOK'
  BY <1>4 DEF ClientStep, SendClientReady, DialVideo, DialTouch, ClientLeaves
<1>5. ASSUME NEW c \in Conns, MonitorControl(c) PROVE TypeOK'
  BY <1>5 DEF MonitorControl
<1>6. ASSUME NEW c \in Conns, TouchStep(c) PROVE TypeOK'
  BY <1>6 DEF TouchStep, TouchAccept, TouchServe, TouchHandlerEnds
<1>7. ASSUME NEW c \in Conns, TeardownStep(c) PROVE TypeOK'
  <2>1. CASE TeardownStarts(c)
    BY <2>1 DEF TeardownStarts
  <2>2. CASE CloseTouchListener(c)
    BY <2>2 DEF CloseTouchListener, Drop
  <2>3. CASE AwaitTouchHandlers(c)
    BY <2>3 DEF AwaitTouchHandlers
  <2>4. CASE CloseVideoConn(c)
    BY <2>4 DEF CloseVideoConn
  <2>5. CASE CloseVideoListener(c)
    BY <2>5 DEF CloseVideoListener, CloseAndDrop, Drop
  <2>6. CASE RemoveForwards(c)
    BY <2>6 DEF RemoveForwards
  <2> QED
    BY <1>7, <2>1, <2>2, <2>3, <2>4, <2>5, <2>6 DEF TeardownStep
<1>8. ASSUME NEW c \in Conns, UnlockedPipelineStep(c) PROVE TypeOK'
  <2>1. CASE OpenUDP(c)
    BY <2>1 DEF OpenUDP
  <2>2. CASE AcceptVideo(c)
    BY <2>2 DEF AcceptVideo
  <2>3. CASE StoreVideo(c)
    BY <2>3 DEF StoreVideo
  <2>4. CASE CreateDisplay(c)
    BY <2>4 DEF CreateDisplay
  <2>5. CASE BuildMedia(c)
    BY <2>5 DEF BuildMedia
  <2>6. CASE StopMedia(c)
    BY <2>6 DEF StopMedia
  <2>7. CASE DestroyDisplay(c)
    BY <2>7 DEF DestroyDisplay
  <2> QED
    BY <1>8, <2>1, <2>2, <2>3, <2>4, <2>5, <2>6, <2>7 DEF UnlockedPipelineStep
<1>9. ASSUME NEW c \in Conns, LockStep(c) PROVE TypeOK'
  BY <1>9 DEF LockStep, LockCreate, LockDestroy, LockDisplays
<1>10. CASE UNCHANGED vars
  BY <1>10 DEF vars
<1> QED
  BY <1>1, <1>2, <1>3, <1>4, <1>5, <1>6, <1>7, <1>8, <1>9, <1>10 DEF Next, ServerStep

(* In every reachable state the variables of ServerSession have the types  *)
(* of TypeOK.                                                              *)
THEOREM TypeCorrect == Spec => []TypeOK
  BY TypeInit, TypeStep, PTL DEF Spec

-----------------------------------------------------------------------------
(* The inductive invariant.                                                *)
(* IInv holds in every reachable state.                                    *)
LEMMA Inductive == Spec => []IInv
<1> DEFINE Inv(d) == HandoffInv(d) /\ ListenerInv(d) /\ ContextInv(d) /\ MutexInv(d)
<1>1. Init => \A d \in Conns : Inv(d)
  BY DEF Init, HandoffInv, ListenerInv, ContextInv, MutexInv
<1>2. TypeOK /\ TypeOK' /\ (\A d \in Conns : Inv(d)) /\ [Next]_vars => \A d \in Conns : Inv(d)'
  <2> SUFFICES ASSUME TypeOK, TypeOK', \A d \in Conns : Inv(d), [Next]_vars, NEW d \in Conns
               PROVE Inv(d)'
    OBVIOUS
  <2> USE UsbAssumption DEF TypeOK, Handshake, ListenerState, Pipeline, Teardown, clientVars,
        tableVars, controlVars, touchVars, videoVars, serverVars, taskVars, HandshakeTo, GiveUp,
        TeardownTo, PipelineTo, EndPipeline, HandoffInv, ListenerInv, ContextInv, MutexInv
  <2>1. CASE Stop
    BY <2>1 DEF Stop
  <2>2. ASSUME NEW c \in Conns, AcceptLoop(c) PROVE Inv(d)'
    BY <2>2 DEF AcceptLoop
  <2>3. ASSUME NEW c \in Conns, HandshakeStep(c) PROVE Inv(d)'
    <3>1. CASE ReadClientHello(c)
      BY <3>1 DEF ReadClientHello, ReadFails
    <3>2. CASE NewTouchServer(c)
      BY <3>2 DEF NewTouchServer
    <3>3. CASE NewVideoServer(c)
      BY <3>3 DEF NewVideoServer, StopTouchServer
    <3>4. CASE PublishServers(c)
      BY <3>4 DEF PublishServers, Publish
    <3>5. CASE SetupForwards(c)
      BY <3>5 DEF SetupForwards
    <3>6. CASE SendServerHello(c)
      BY <3>6 DEF SendServerHello
    <3>7. CASE ReadClientReady(c)
      BY <3>7 DEF ReadClientReady, ReadFails
    <3>8. CASE RegisterClient(c)
      BY <3>8 DEF RegisterClient
    <3>9. CASE OnClient(c)
      BY <3>9 DEF OnClient, TakeServers
    <3> QED
      BY <2>3, <3>1, <3>2, <3>3, <3>4, <3>5, <3>6, <3>7, <3>8, <3>9 DEF HandshakeStep
  <2>4. ASSUME NEW c \in Conns, ClientStep(c) PROVE Inv(d)'
    BY <2>4 DEF ClientStep, SendClientReady, DialVideo, DialTouch, ClientLeaves
  <2>5. ASSUME NEW c \in Conns, MonitorControl(c) PROVE Inv(d)'
    BY <2>5 DEF MonitorControl
  <2>6. ASSUME NEW c \in Conns, TouchStep(c) PROVE Inv(d)'
    BY <2>6 DEF TouchStep, TouchAccept, TouchServe, TouchHandlerEnds
  <2>7. ASSUME NEW c \in Conns, TeardownStep(c) PROVE Inv(d)'
    <3>1. CASE TeardownStarts(c)
      BY <3>1 DEF TeardownStarts, Done
    <3>2. CASE CloseTouchListener(c)
      BY <3>2 DEF CloseTouchListener
    <3>3. CASE AwaitTouchHandlers(c)
      BY <3>3 DEF AwaitTouchHandlers
    <3>4. CASE CloseVideoConn(c)
      BY <3>4 DEF CloseVideoConn
    <3>5. CASE CloseVideoListener(c)
      BY <3>5 DEF CloseVideoListener, CloseAndDrop
    <3>6. CASE RemoveForwards(c)
      BY <3>6 DEF RemoveForwards
    <3> QED
      BY <2>7, <3>1, <3>2, <3>3, <3>4, <3>5, <3>6 DEF TeardownStep
  <2>8. ASSUME NEW c \in Conns, UnlockedPipelineStep(c) PROVE Inv(d)'
    <3>1. CASE OpenUDP(c)
      BY <3>1 DEF OpenUDP
    <3>2. CASE AcceptVideo(c)
      BY <3>2 DEF AcceptVideo
    <3>3. CASE StoreVideo(c)
      BY <3>3 DEF StoreVideo
    <3>4. CASE CreateDisplay(c)
      BY <3>4 DEF CreateDisplay
    <3>5. CASE BuildMedia(c)
      BY <3>5 DEF BuildMedia
    <3>6. CASE StopMedia(c)
      BY <3>6 DEF StopMedia, Done
    <3>7. CASE DestroyDisplay(c)
      BY <3>7 DEF DestroyDisplay
    <3> QED
      BY <2>8, <3>1, <3>2, <3>3, <3>4, <3>5, <3>6, <3>7 DEF UnlockedPipelineStep
  <2>9. ASSUME NEW c \in Conns, LockStep(c) PROVE Inv(d)'
    <3>1. CASE LockCreate(c)
      BY <3>1 DEF LockCreate, LockDisplays
    <3>2. CASE LockDestroy(c)
      BY <3>2 DEF LockDestroy, LockDisplays
    <3> QED
      BY <2>9, <3>1, <3>2 DEF LockStep
  <2>10. CASE UNCHANGED vars
    BY <2>10 DEF vars
  <2> QED
    BY <2>1, <2>2, <2>3, <2>4, <2>5, <2>6, <2>7, <2>8, <2>9, <2>10 DEF Next, ServerStep
<1>3. Init => IInv
  BY <1>1, TypeInit DEF IInv
<1>4. IInv /\ [Next]_vars => IInv'
  BY <1>2, TypeStep DEF IInv
<1> QED
  BY <1>3, <1>4, PTL DEF Spec

-----------------------------------------------------------------------------
(* Listeners have exactly one owner: no server of a client leaks outside   *)
(* clientServersMap, and none is stopped twice.                            *)
THEOREM OneOwner == Spec => []ServersHaveOneOwner
<1>1. IInv => ServersHaveOneOwner
  <2> SUFFICES ASSUME IInv, NEW c \in Conns, "open" \in {touchLn[c], videoLn[c]}
               PROVE \E o \in Owners(c) : Owners(c) = {o}
    BY DEF ServersHaveOneOwner
  <2> USE DEF IInv, TypeOK, Teardown, HandoffInv, ListenerInv, Owners
  <2>1. CASE c \in clientServers
    <3>1. tear[c] = "none" /\ hs[c] \notin {"videoPort", "publish"}
      BY <2>1
    <3>2. Owners(c) = {"map"}
      BY <2>1, <3>1
    <3> QED
      BY <3>2
  <2>2. CASE hs[c] \in {"videoPort", "publish"}
    <3>1. tear[c] = "none" /\ c \notin clientServers
      BY <2>2
    <3>2. Owners(c) = {"handshake"}
      BY <2>2, <3>1
    <3> QED
      BY <3>2
  <2>3. CASE c \notin clientServers /\ hs[c] \notin {"videoPort", "publish"}
    <3>1. tear[c] \notin {"none", "done"}
      BY <2>3
    <3>2. Owners(c) = {"teardown"}
      BY <2>3, <3>1
    <3> QED
      BY <3>2
  <2> QED
    BY <2>1, <2>2, <2>3
<1> QED
  BY <1>1, Inductive, PTL

(* OnClient never drops a client whose handshake succeeded.                *)
THEOREM HandoffNeverDrops == Spec => []HandoffFindsServers
<1>1. IInv => HandoffFindsServers
  BY DEF IInv, HandoffInv, HandoffFindsServers
<1> QED
  BY <1>1, Inductive, PTL

(* The listeners of a live session stay open and Stop reaches its client.  *)
THEOREM LiveSession == Spec => []LiveSessionKeepsServers
<1>1. IInv => LiveSessionKeepsServers
  BY DEF IInv, HandoffInv, ListenerInv, ContextInv, LiveSessionKeepsServers
<1> QED
  BY <1>1, Inductive, PTL

(* Calls into the display API of macOS never overlap.                      *)
THEOREM DisplayExclusion == Spec => []DisplayCallsNeverOverlap
<1>1. IInv => DisplayCallsNeverOverlap
  BY DEF IInv, TypeOK, MutexInv, DisplayCallsNeverOverlap
<1> QED
  BY <1>1, Inductive, PTL
-----------------------------------------------------------------------------
(* The server implements ClientLease.  A step of the server concerns one   *)
(* connection; LeaseChange lists what it may do to the lease of that one.  *)
LeaseSame(d) == LeaseOf(d)' = LeaseOf(d) /\ OpenPorts(d)' = OpenPorts(d)

LeaseChange(c) ==
    \/ LeaseSame(c)
    \/ /\ LeaseOf(c) = "free" /\ LeaseOf(c)' = "free"
       /\ \E p \in Lease!PortsOf(c) \ OpenPorts(c) : OpenPorts(c)' = OpenPorts(c) \cup {p}
    \/ LeaseOf(c) = "free" /\ LeaseOf(c)' = "released" /\ OpenPorts(c)' = {}
    \/ /\ LeaseOf(c) = "free" /\ LeaseOf(c)' = "reserved"
       /\ OpenPorts(c) = Lease!PortsOf(c) /\ OpenPorts(c)' = OpenPorts(c)
    \/ LeaseOf(c) = "reserved" /\ LeaseOf(c)' = "granted" /\ OpenPorts(c)' = OpenPorts(c)
    \/ LeaseOf(c) = "granted" /\ LeaseOf(c)' = "ending" /\ OpenPorts(c)' = OpenPorts(c)
    \/ /\ LeaseOf(c) = "ending" /\ LeaseOf(c)' = "ending"
       /\ \E p \in OpenPorts(c) : OpenPorts(c)' = OpenPorts(c) \ {p}
    \/ /\ LeaseOf(c) = "ending" /\ LeaseOf(c)' = "released"
       /\ OpenPorts(c) = {} /\ OpenPorts(c)' = {}

(* A change of the lease of one connection that leaves the others alone is *)
(* a step of ClientLease.                                                  *)
LEMMA LocalChange ==
    ASSUME NEW c \in Conns, \A d \in Conns \ {c} : LeaseSame(d), LeaseChange(c)
    PROVE  [Lease!LeaseNext]_(Lease!leaseVars)
<1>1. /\ leaseOf' = [leaseOf EXCEPT ![c] = LeaseOf(c)']
      /\ portsOf' = [portsOf EXCEPT ![c] = OpenPorts(c)']
  BY DEF leaseOf, portsOf, LeaseSame
<1>2. leaseOf[c] = LeaseOf(c) /\ portsOf[c] = OpenPorts(c)
  BY DEF leaseOf, portsOf
<1>3. /\ LeaseOf(c)' = LeaseOf(c) => leaseOf' = leaseOf
      /\ OpenPorts(c)' = OpenPorts(c) => portsOf' = portsOf
  BY DEF leaseOf, portsOf, LeaseSame
<1>4. CASE LeaseSame(c)
  BY <1>3, <1>4 DEF LeaseSame, Lease!leaseVars
<1>5. CASE /\ LeaseOf(c) = "free" /\ LeaseOf(c)' = "free"
           /\ \E p \in Lease!PortsOf(c) \ OpenPorts(c) : OpenPorts(c)' = OpenPorts(c) \cup {p}
  <2>1. PICK p \in Lease!PortsOf(c) \ OpenPorts(c) : OpenPorts(c)' = OpenPorts(c) \cup {p}
    BY <1>5
  <2>2. Lease!OpenPort(c, p)
    BY <1>1, <1>2, <1>3, <1>5, <2>1 DEF Lease!OpenPort
  <2>3. p \in {"touch", "video"}
    BY DEF Lease!PortsOf
  <2> QED
    BY <2>2, <2>3 DEF Lease!LeaseNext
<1>6. CASE LeaseOf(c) = "free" /\ LeaseOf(c)' = "released" /\ OpenPorts(c)' = {}
  BY <1>1, <1>2, <1>6 DEF Lease!LeaseNext, Lease!Abandon
<1>7. CASE /\ LeaseOf(c) = "free" /\ LeaseOf(c)' = "reserved"
           /\ OpenPorts(c) = Lease!PortsOf(c) /\ OpenPorts(c)' = OpenPorts(c)
  BY <1>1, <1>2, <1>3, <1>7 DEF Lease!LeaseNext, Lease!Reserve
<1>8. CASE LeaseOf(c) = "reserved" /\ LeaseOf(c)' = "granted" /\ OpenPorts(c)' = OpenPorts(c)
  BY <1>1, <1>2, <1>3, <1>8 DEF Lease!LeaseNext, Lease!Grant
<1>9. CASE LeaseOf(c) = "granted" /\ LeaseOf(c)' = "ending" /\ OpenPorts(c)' = OpenPorts(c)
  BY <1>1, <1>2, <1>3, <1>9 DEF Lease!LeaseNext, Lease!Expire
<1>10. CASE /\ LeaseOf(c) = "ending" /\ LeaseOf(c)' = "ending"
            /\ \E p \in OpenPorts(c) : OpenPorts(c)' = OpenPorts(c) \ {p}
  <2>1. PICK p \in OpenPorts(c) : OpenPorts(c)' = OpenPorts(c) \ {p}
    BY <1>10
  <2>2. Lease!ClosePort(c, p)
    BY <1>1, <1>2, <1>3, <1>10, <2>1 DEF Lease!ClosePort
  <2>3. p \in {"touch", "video"}
    BY DEF OpenPorts
  <2> QED
    BY <2>2, <2>3 DEF Lease!LeaseNext
<1>11. CASE /\ LeaseOf(c) = "ending" /\ LeaseOf(c)' = "released"
            /\ OpenPorts(c) = {} /\ OpenPorts(c)' = {}
  BY <1>1, <1>2, <1>3, <1>11 DEF Lease!LeaseNext, Lease!Release
<1> QED
  BY <1>4, <1>5, <1>6, <1>7, <1>8, <1>9, <1>10, <1>11 DEF LeaseChange

(* Every step of the server maps to a step of ClientLease or a stutter.    *)
LEMMA LeaseStep == IInv /\ IInv' /\ [Next]_vars => [Lease!LeaseNext]_(Lease!leaseVars)
<1> SUFFICES ASSUME IInv, IInv', [Next]_vars PROVE [Lease!LeaseNext]_(Lease!leaseVars)
  OBVIOUS
<1> DEFINE Local(c) == (\A d \in Conns \ {c} : LeaseSame(d)) /\ LeaseChange(c)
<1> USE UsbAssumption DEF LeaseSame, LeaseOf, OpenPorts, IInv, TypeOK, Handshake,
      Teardown, Pipeline, ListenerState, HandoffInv, ListenerInv, ContextInv, tableVars,
      controlVars, clientVars, touchVars, videoVars, serverVars, taskVars, HandshakeTo,
      GiveUp, TeardownTo, PipelineTo, EndPipeline
<1>1. CASE Stop
  BY <1>1 DEF Stop, leaseOf, portsOf, Lease!leaseVars
<1>2. ASSUME NEW c \in Conns, AcceptLoop(c) PROVE Local(c)
  BY <1>2 DEF AcceptLoop, LeaseChange
<1>3. ASSUME NEW c \in Conns, HandshakeStep(c) PROVE Local(c)
  <2>1. CASE ReadClientHello(c)
    BY <2>1 DEF LeaseChange, ReadClientHello, ReadFails
  <2>2. CASE NewTouchServer(c)
    BY <2>2 DEF LeaseChange, NewTouchServer, Lease!PortsOf
  <2>3. CASE NewVideoServer(c)
    BY <2>3 DEF LeaseChange, NewVideoServer, StopTouchServer, Lease!PortsOf
  <2>4. CASE PublishServers(c)
    BY <2>4 DEF LeaseChange, PublishServers, Publish, Lease!PortsOf
  <2>5. CASE SetupForwards(c)
    BY <2>5 DEF LeaseChange, SetupForwards
  <2>6. CASE SendServerHello(c)
    BY <2>6 DEF LeaseChange, SendServerHello
  <2>7. CASE ReadClientReady(c)
    BY <2>7 DEF LeaseChange, ReadClientReady, ReadFails
  <2>8. CASE RegisterClient(c)
    BY <2>8 DEF LeaseChange, RegisterClient
  <2>9. CASE OnClient(c)
    BY <2>9 DEF LeaseChange, OnClient, TakeServers
  <2> QED
    BY <1>3, <2>1, <2>2, <2>3, <2>4, <2>5, <2>6, <2>7, <2>8, <2>9 DEF HandshakeStep
<1>4. ASSUME NEW c \in Conns, ClientStep(c) PROVE Local(c)
  BY <1>4 DEF ClientStep, SendClientReady, DialVideo, DialTouch, ClientLeaves, LeaseChange
<1>5. ASSUME NEW c \in Conns, MonitorControl(c) PROVE Local(c)
  BY <1>5 DEF MonitorControl, LeaseChange
<1>6. ASSUME NEW c \in Conns, TouchStep(c) PROVE Local(c)
  BY <1>6 DEF TouchStep, TouchAccept, TouchServe, TouchHandlerEnds, LeaseChange
<1>7. ASSUME NEW c \in Conns, TeardownStep(c) PROVE Local(c)
  <2>1. CASE TeardownStarts(c)
    BY <2>1 DEF LeaseChange, TeardownStarts, Done
  <2>2. CASE CloseTouchListener(c)
    BY <2>2 DEF LeaseChange, CloseTouchListener
  <2>3. CASE AwaitTouchHandlers(c)
    BY <2>3 DEF LeaseChange, AwaitTouchHandlers
  <2>4. CASE CloseVideoConn(c)
    BY <2>4 DEF LeaseChange, CloseVideoConn
  <2>5. CASE CloseVideoListener(c)
    BY <2>5 DEF LeaseChange, CloseVideoListener, CloseAndDrop
  <2>6. CASE RemoveForwards(c)
    BY <2>6 DEF LeaseChange, RemoveForwards
  <2> QED
    BY <1>7, <2>1, <2>2, <2>3, <2>4, <2>5, <2>6 DEF TeardownStep
<1>8. ASSUME NEW c \in Conns, UnlockedPipelineStep(c) PROVE Local(c)
  <2>1. CASE OpenUDP(c)
    BY <2>1 DEF LeaseChange, OpenUDP
  <2>2. CASE AcceptVideo(c)
    BY <2>2 DEF LeaseChange, AcceptVideo
  <2>3. CASE StoreVideo(c)
    BY <2>3 DEF LeaseChange, StoreVideo
  <2>4. CASE CreateDisplay(c)
    BY <2>4 DEF LeaseChange, CreateDisplay
  <2>5. CASE BuildMedia(c)
    BY <2>5 DEF LeaseChange, BuildMedia
  <2>6. CASE StopMedia(c)
    BY <2>6 DEF LeaseChange, StopMedia, Done
  <2>7. CASE DestroyDisplay(c)
    BY <2>7 DEF LeaseChange, DestroyDisplay
  <2> QED
    BY <1>8, <2>1, <2>2, <2>3, <2>4, <2>5, <2>6, <2>7 DEF UnlockedPipelineStep
<1>9. ASSUME NEW c \in Conns, LockStep(c) PROVE Local(c)
  <2>1. CASE LockCreate(c)
    BY <2>1 DEF LeaseChange, LockCreate, LockDisplays
  <2>2. CASE LockDestroy(c)
    BY <2>2 DEF LeaseChange, LockDestroy, LockDisplays
  <2> QED
    BY <1>9, <2>1, <2>2 DEF LockStep
<1>10. CASE UNCHANGED vars
  BY <1>10 DEF vars, leaseOf, portsOf, Lease!leaseVars
<1> QED
  BY <1>1, <1>2, <1>3, <1>4, <1>5, <1>6, <1>7, <1>8, <1>9, <1>10, LocalChange DEF Next, ServerStep

(* For any set of clients, the ports the server hands out are leases: open *)
(* before they are announced, closed only after the session has ended, and *)
(* all closed when the teardown is done.                                   *)
THEOREM Implementation == Spec => ImplementsLease
<1>1. Init => Lease!LeaseInit
  BY DEF Init, Lease!LeaseInit, leaseOf, portsOf, LeaseOf, OpenPorts
<1> QED
  BY <1>1, LeaseStep, Inductive, PTL DEF Spec, ImplementsLease, Lease!LeaseSpec
=============================================================================
