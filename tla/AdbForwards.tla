----------------------------- MODULE AdbForwards -----------------------------
(***************************************************************************)
(* The adb reverse forwards a USB client reaches the server through, and   *)
(* everybody that changes them with adb commands: main at its start and    *)
(* after a signal, the watcher goroutine, the handshake of each client     *)
(* and the teardown of each client.                                        *)
(*                                                                         *)
(* A forward lives in the adbd of a device and vanishes with its USB link. *)
(* Every adb command is a step of its own.  It has no effect when the      *)
(* device is not attached, and may fail otherwise, MaxFailures times.  A   *)
(* client has one port here: its touch and its video port go through the   *)
(* same commands one after the other.                                      *)
(***************************************************************************)
EXTENDS Naturals

CONSTANTS
    Devices,       \* the serials adb can report
    Conns,         \* the USB clients' control connections
    Ports,         \* the ports the kernel can give to a listener on port 0
    Control,       \* the control port
    MaxFailures    \* how many adb commands may fail although they could work

ASSUME AdbAssumption ==
    /\ Control \notin Ports /\ MaxFailures \in Nat
    /\ Devices # {} /\ Ports # {}

VARIABLES
    attached,    \* devices adb lists in state "device"
    fwd,         \* the ports a device forwards to the server
    failures,    \* adb commands that have failed
    main,        \* where func main is
    mainTodo,    \* commands main has still to run, as <<serial, command>>
    listed,      \* main could list the devices when it started
    known,       \* Watcher.known
    polling,     \* Watcher.poll has listed the devices and not returned
    watchSeen,   \* serials of this poll
    watchTodo,   \* those of them still to visit
    watchSetup,  \* the one whose callback has still to forward the control port
    conn,        \* where the handshake or the teardown of a client is
    alive,       \* clients whose control connection is up
    home,        \* the device a client runs on
    port,        \* the port of the client's server
    connTodo     \* serials the handshake or the teardown has still to visit

deviceVars == <<attached, fwd, failures>>
mainVars   == <<main, mainTodo, listed>>
watchVars  == <<known, polling, watchSeen, watchTodo, watchSetup>>
connVars   == <<conn, alive, home, port, connTodo>>
vars       == <<deviceVars, mainVars, watchVars, connVars>>

Main == {"start", "startup", "running", "cleanup", "stopping", "exited"}
Conn == {"none", "forward", "up", "leaked", "unforward", "done"}

TypeOK ==
    /\ attached \subseteq Devices
    /\ fwd \in [Devices -> SUBSET (Ports \cup {Control})]
    /\ \A d \in Devices \ attached : fwd[d] = {}
    /\ failures \in 0 .. MaxFailures
    /\ main \in Main /\ mainTodo \subseteq Devices \X {"clear", "forward"}
    /\ listed \in BOOLEAN
    /\ known \subseteq Devices /\ polling \in BOOLEAN
    /\ watchSeen \subseteq Devices /\ watchTodo \subseteq watchSeen
    /\ watchSetup \in {{}} \cup {{d} : d \in watchSeen}
    /\ conn \in [Conns -> Conn] /\ alive \subseteq Conns
    /\ home \in [Conns -> Devices] /\ port \in [Conns -> Ports]
    /\ connTodo \in [Conns -> SUBSET Devices]

(* Devices may hold forwards an earlier run of the server left behind.     *)
Init ==
    /\ attached \in SUBSET Devices
    /\ \E stale \in SUBSET (Ports \cup {Control}) :
          fwd = [d \in Devices |-> IF d \in attached THEN stale ELSE {}]
    /\ failures = 0
    /\ main = "start" /\ mainTodo = {} /\ listed = FALSE
    /\ known = {} /\ polling = FALSE
    /\ watchSeen = {} /\ watchTodo = {} /\ watchSetup = {}
    /\ conn = [c \in Conns |-> "none"] /\ alive = {}
    /\ home = [c \in Conns |-> CHOOSE d \in Devices : TRUE]
    /\ port = [c \in Conns |-> CHOOSE p \in Ports : TRUE]
    /\ connTodo = [c \in Conns |-> {}]

-----------------------------------------------------------------------------
(* adb commands: those that change the forwards of a device leave it with  *)
(* the given rules; "adb devices" returns a set of serials.                *)

AdbFails ==
    /\ failures < MaxFailures
    /\ failures' = failures + 1
    /\ UNCHANGED <<attached, fwd>>

Adb(d, rules) ==
    \/ /\ d \in attached
       /\ fwd' = [fwd EXCEPT ![d] = rules]
       /\ UNCHANGED <<attached, failures>>
    \/ d \notin attached /\ UNCHANGED deviceVars
    \/ d \in attached /\ AdbFails

SetupReverse(d, p)  == Adb(d, fwd[d] \cup {p})
RemoveReverse(d, p) == Adb(d, fwd[d] \ {p})
RemoveAllReverse(d) == Adb(d, {})

ListDevices(serials) == serials = attached /\ UNCHANGED deviceVars

-----------------------------------------------------------------------------
(* The world: devices come and go, and with them their clients.            *)

Attach(d) ==
    /\ main # "exited" /\ d \notin attached
    /\ attached' = attached \cup {d}
    /\ UNCHANGED <<fwd, failures, mainVars, watchVars, connVars>>

DropLink(d) ==
    /\ main # "exited" /\ d \in attached
    /\ attached' = attached \ {d}
    /\ fwd' = [fwd EXCEPT ![d] = {}]
    /\ alive' = {c \in alive : home[c] # d}
    /\ UNCHANGED <<failures, mainVars, watchVars, conn, home, port, connTodo>>

-----------------------------------------------------------------------------
(* func main: clean start, watcher, signal, clean end.                     *)

(* With the devices listed, each is cleared and given the control port;    *)
(* they are also the ones the watcher takes as known.                      *)
ListAtStart ==
    /\ main = "start"
    /\ \/ /\ ListDevices(known')
          /\ listed' = TRUE
          /\ mainTodo' = known' \X {"clear", "forward"}
       \/ AdbFails /\ UNCHANGED <<known, listed, mainTodo>>
    /\ main' = "startup"
    /\ UNCHANGED <<polling, watchSeen, watchTodo, watchSetup, connVars>>

Startup(d) ==
    /\ main = "startup"
    /\ \/ /\ <<d, "clear">> \in mainTodo
          /\ RemoveAllReverse(d)
          /\ mainTodo' = mainTodo \ {<<d, "clear">>}
       \/ /\ <<d, "clear">> \notin mainTodo /\ <<d, "forward">> \in mainTodo
          /\ SetupReverse(d, Control)
          /\ mainTodo' = mainTodo \ {<<d, "forward">>}
    /\ UNCHANGED <<main, listed, watchVars, connVars>>

(* The watcher and the control server run from here on.                    *)
Serve ==
    /\ main = "startup" /\ mainTodo = {}
    /\ main' = "running"
    /\ UNCHANGED <<deviceVars, mainTodo, listed, watchVars, connVars>>

Signal ==
    /\ main = "running"
    /\ \/ /\ \E serials \in SUBSET Devices :
                ListDevices(serials) /\ mainTodo' = serials \X {"clear"}
          /\ main' = "cleanup"
       \/ AdbFails /\ main' = "stopping" /\ UNCHANGED mainTodo
    /\ UNCHANGED <<listed, watchVars, connVars>>

Cleanup(d) ==
    /\ main = "cleanup" /\ <<d, "clear">> \in mainTodo
    /\ RemoveAllReverse(d)
    /\ mainTodo' = mainTodo \ {<<d, "clear">>}
    /\ UNCHANGED <<main, listed, watchVars, connVars>>

(* The deferred calls stop the servers and the watcher, and the process    *)
(* exits: nothing is left of it but the forwards in the devices.           *)
Exit ==
    /\ main = "stopping" \/ (main = "cleanup" /\ mainTodo = {})
    /\ main' = "exited"
    /\ known' = {} /\ polling' = FALSE
    /\ watchSeen' = {} /\ watchTodo' = {} /\ watchSetup' = {}
    /\ conn' = [c \in Conns |-> "none"] /\ alive' = {}
    /\ connTodo' = [c \in Conns |-> {}]
    /\ UNCHANGED <<deviceVars, mainTodo, listed, home, port>>

Running == main \in {"running", "cleanup", "stopping"}

-----------------------------------------------------------------------------
(* Watcher.poll with the callbacks of main.                                *)

Poll ==
    /\ Running /\ ~polling
    /\ ListDevices(watchSeen')
    /\ watchTodo' = watchSeen'
    /\ polling' = TRUE
    /\ UNCHANGED <<mainVars, known, watchSetup, connVars>>

PollFails ==
    /\ Running /\ ~polling /\ AdbFails
    /\ UNCHANGED <<mainVars, watchVars, connVars>>

Visit(d, setup) ==
    /\ watchTodo' = watchTodo \ {d}
    /\ watchSetup' = IF setup THEN {d} ELSE {}
    /\ UNCHANGED <<mainVars, known, polling, watchSeen, connVars>>

(* onNew clears the device before it forwards the control port.            *)
OnNew(d) ==
    /\ Running /\ watchSetup = {} /\ d \in watchTodo \ known
    /\ RemoveAllReverse(d)
    /\ Visit(d, TRUE)

(* The EnsureKnown callback forwards the control port if it is missing,    *)
(* and does nothing when adb cannot tell.                                  *)
EnsureNothing(d) == UNCHANGED deviceVars /\ Visit(d, FALSE)
EnsureByClearing(d) == RemoveAllReverse(d) /\ Visit(d, TRUE)
EnsureForward(d) ==
    \/ UNCHANGED deviceVars /\ Visit(d, d \in attached /\ Control \notin fwd[d])
    \/ d \in attached /\ AdbFails /\ Visit(d, FALSE)

Ensure(d) ==
    /\ Running /\ watchSetup = {} /\ d \in watchTodo \cap known
    /\ EnsureForward(d)

WatchSetup(d) ==
    /\ Running /\ d \in watchSetup
    /\ SetupReverse(d, Control)
    /\ watchSetup' = {}
    /\ UNCHANGED <<mainVars, known, polling, watchSeen, watchTodo, connVars>>

NotAwaited == TRUE
CallbacksReturned == watchTodo = {} /\ watchSetup = {}

PollEnds ==
    /\ Running /\ polling /\ CallbacksReturned
    /\ known' = watchSeen
    /\ watchSeen' = {} /\ polling' = FALSE
    /\ UNCHANGED <<deviceVars, mainVars, watchTodo, watchSetup, connVars>>

-----------------------------------------------------------------------------
(* The handshake and the teardown of a client.                             *)

(* The servers of these connections listen: their ports are taken.         *)
Listening(c) == conn[c] \in {"forward", "up", "leaked"}

(* A client reaches the server through the control port of its device, and *)
(* allocateClientPorts listens on a free port and lists the devices.       *)
Connect(c, d, p) ==
    /\ Running /\ conn[c] = "none"
    /\ d \in attached /\ Control \in fwd[d]
    /\ \A e \in Conns : Listening(e) => port[e] # p
    /\ \/ \E serials \in SUBSET Devices :
             ListDevices(serials) /\ connTodo' = [connTodo EXCEPT ![c] = serials]
       \/ AdbFails /\ UNCHANGED connTodo
    /\ conn' = [conn EXCEPT ![c] = "forward"]
    /\ alive' = alive \cup {c}
    /\ home' = [home EXCEPT ![c] = d]
    /\ port' = [port EXCEPT ![c] = p]
    /\ UNCHANGED <<mainVars, watchVars>>

Visited(c, d) == connTodo' = [connTodo EXCEPT ![c] = @ \ {d}]

Forward(c, d) ==
    /\ Running /\ conn[c] = "forward" /\ d \in connTodo[c]
    /\ SetupReverse(d, port[c])
    /\ Visited(c, d)
    /\ UNCHANGED <<mainVars, watchVars, conn, alive, home, port>>

(* ClientReady arrives, or the handshake fails and the servers stay as     *)
(* they are.                                                               *)
EndHandshake(c) ==
    /\ Running /\ conn[c] = "forward" /\ connTodo[c] = {}
    /\ \/ conn' = [conn EXCEPT ![c] = "up"] /\ UNCHANGED alive
       \/ conn' = [conn EXCEPT ![c] = "leaked"] /\ alive' = alive \ {c}
    /\ UNCHANGED <<deviceVars, mainVars, watchVars, home, port, connTodo>>

Disconnect(c) ==
    /\ c \in alive
    /\ alive' = alive \ {c}
    /\ UNCHANGED <<deviceVars, mainVars, watchVars, conn, home, port, connTodo>>

(* The teardown closes the servers before it lists the devices.            *)
CloseServers(c) ==
    /\ Running /\ conn[c] = "up" /\ c \notin alive
    /\ \/ /\ \E serials \in SUBSET Devices :
                ListDevices(serials) /\ connTodo' = [connTodo EXCEPT ![c] = serials]
          /\ conn' = [conn EXCEPT ![c] = "unforward"]
       \/ AdbFails /\ conn' = [conn EXCEPT ![c] = "done"] /\ UNCHANGED connTodo
    /\ UNCHANGED <<mainVars, watchVars, alive, home, port>>

UnforwardHomeOnly(c, d) ==
    IF d = home[c] THEN RemoveReverse(d, port[c]) ELSE UNCHANGED deviceVars
UnforwardOn(c, d) == RemoveReverse(d, port[c])

Unforward(c, d) ==
    /\ Running /\ conn[c] = "unforward" /\ d \in connTodo[c]
    /\ UnforwardOn(c, d)
    /\ Visited(c, d)
    /\ UNCHANGED <<mainVars, watchVars, conn, alive, home, port>>

EndTeardown(c) ==
    /\ Running /\ conn[c] = "unforward" /\ connTodo[c] = {}
    /\ conn' = [conn EXCEPT ![c] = "done"]
    /\ UNCHANGED <<deviceVars, mainVars, watchVars, alive, home, port, connTodo>>

-----------------------------------------------------------------------------
MainStep == ListAtStart \/ Serve \/ Signal \/ Exit \/ \E d \in Devices : Startup(d) \/ Cleanup(d)

WatchStep ==
    Poll \/ PollEnds \/ \E d \in Devices : OnNew(d) \/ Ensure(d) \/ WatchSetup(d)

ConnStep(c) ==
    \/ EndHandshake(c) \/ Disconnect(c) \/ CloseServers(c) \/ EndTeardown(c)
    \/ \E d \in Devices : Forward(c, d) \/ Unforward(c, d) \/ \E p \in Ports : Connect(c, d, p)

Next ==
    \/ MainStep \/ WatchStep \/ PollFails
    \/ \E d \in Devices : Attach(d) \/ DropLink(d)
    \/ \E c \in Conns : ConnStep(c)

Spec == Init /\ [][Next]_vars

(* The ticker of Run keeps the watcher polling and every adb command       *)
(* returns; the start of main gets through.                                *)
FairSpec ==
    /\ Spec
    /\ WF_vars(WatchStep)
    /\ WF_vars(ListAtStart \/ Serve \/ \E d \in Devices : Startup(d))

-----------------------------------------------------------------------------
(* Safety.                                                                 *)

(* As long as a client is up and its device stays attached, the forward of *)
(* its port stays.  Only main may remove it (after a signal), the teardown *)
(* of a client that had the same port before (it frees the port first and  *)
(* removes the forward later), or the onNew callback for a device main     *)
(* could not list when it started.                                         *)
LiveForwardsKept ==
    [][\A c \in Conns :
          conn[c] = "up" /\ c \in alive' /\ port[c] \in fwd[home[c]] \ fwd'[home[c]]
            => \/ main = "cleanup"
               \/ \E e \in Conns \ {c} : conn[e] = "unforward" /\ port[e] = port[c]
               \/ ~listed]_vars

(* When no adb command has failed, a client that was torn down leaves no   *)
(* forward of its port on any device, unless another client has the port.  *)
TornDownForwardsGone ==
    \A c \in Conns :
        conn[c] = "done" /\ failures = 0 =>
            \A d \in Devices :
                port[c] \in fwd[d] =>
                    \E e \in Conns \ {c} : conn[e] \notin {"none", "done"} /\ port[e] = port[c]

-----------------------------------------------------------------------------
(* Liveness, under FairSpec.                                               *)

(* A device that stays attached while the server runs has its control port *)
(* forwarded in the end, however its link flapped before.                  *)
ControlForwardRestored ==
    \A d \in Devices :
        <>[](d \in attached /\ main = "running") => <>[](Control \in fwd[d])
=============================================================================
