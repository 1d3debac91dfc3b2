-------------------------- MODULE AdbForwards_proofs --------------------------
(***************************************************************************)
(* The safety of the adb forwards, for any devices, clients and ports and  *)
(* any number of failing commands.                                         *)
(***************************************************************************)
EXTENDS AdbForwards, TLAPS

-----------------------------------------------------------------------------
(* The inductive invariant.                                                *)

(* Before main serves, nobody but main runs; a poll has its serials.       *)
StartInv ==
    /\ main \in {"start", "startup"} =>
          /\ ~polling /\ alive = {} /\ \A c \in Conns : conn[c] = "none"
    /\ main = "start" => mainTodo = {}
    /\ main = "startup" => mainTodo \subseteq known \X {"clear", "forward"}
PollInv ==
    /\ ~polling => watchSeen = {}
    /\ watchSetup \cap watchTodo = {}

(* A client runs on an attached device.                                    *)
HomeInv == \A c \in alive : home[c] \in attached

(* The watcher knows a device from the moment clients can reach the server *)
(* through it, or has already been there in the poll that is on.           *)
Reachable(d) == Control \in fwd[d] \/ \E c \in alive : home[c] = d
KnownInv ==
    listed /\ main # "exited" =>
        \A d \in Devices :
            Reachable(d) =>
                IF polling THEN d \in watchSeen /\ (d \in known \/ d \notin watchTodo)
                           ELSE d \in known

(* As long as no command has failed, whoever's teardown has been to a      *)
(* device, or is over, leaves a forward there only to a client that will   *)
(* remove it or keeps its port for good.                                   *)
Responsible(e, d) ==
    Listening(e) \/ (conn[e] = "unforward" /\ d \in connTodo[e])
HasBeen(c, d) ==
    conn[c] = "done" \/ (conn[c] = "unforward" /\ d \notin connTodo[c])
GoneInv ==
    failures = 0 =>
        \A c \in Conns, d \in Devices :
            HasBeen(c, d) /\ port[c] \in fwd[d] =>
                \E e \in Conns \ {c} : Responsible(e, d) /\ port[e] = port[c]

SafeInv == TypeOK /\ StartInv /\ PollInv /\ HomeInv /\ KnownInv /\ GoneInv

-----------------------------------------------------------------------------
(* The steps.                                                              *)

(* Every step is an action of somebody, or changes nothing.                *)
LEMMA StepCases ==
  ASSUME [Next]_vars
  PROVE  \/ ListAtStart \/ Serve \/ Signal \/ Exit \/ Poll \/ PollFails \/ PollEnds
         \/ \E d \in Devices :
               \/ Startup(d) \/ Cleanup(d) \/ OnNew(d) \/ Ensure(d) \/ WatchSetup(d)
               \/ Attach(d) \/ DropLink(d)
         \/ \E c \in Conns :
               \/ EndHandshake(c) \/ Disconnect(c) \/ CloseServers(c) \/ EndTeardown(c)
               \/ \E d \in Devices :
                     Forward(c, d) \/ Unforward(c, d) \/ \E p \in Ports : Connect(c, d, p)
         \/ UNCHANGED vars
BY DEF Next, MainStep, WatchStep, ConnStep

(* What an adb command that leaves rules on a device does.                 *)
LEMMA AdbEffect ==
  ASSUME TypeOK, NEW d \in Devices, NEW rules \in SUBSET (Ports \cup {Control}), Adb(d,
         rules)
  PROVE  /\ attached' = attached
         /\ failures' \in 0 .. MaxFailures /\ (failures' = 0 => failures = 0)
         /\ fwd' \in [Devices -> SUBSET (Ports \cup {Control})]
         /\ \A e \in Devices \ {d} : fwd'[e] = fwd[e]
         /\ fwd'[d] = fwd[d] \/ fwd'[d] = rules
         /\ d \notin attached => fwd'[d] = fwd[d]
         /\ failures' = 0 /\ d \in attached => fwd'[d] = rules
<1>1. failures \in Nat /\ MaxFailures \in Nat
  BY AdbAssumption DEF TypeOK
<1>2. CASE d \in attached /\ fwd' = [fwd EXCEPT ![d] = rules] /\ UNCHANGED <<attached, failures>>
  BY <1>2 DEF TypeOK
<1>3. CASE d \notin attached /\ UNCHANGED deviceVars
  BY <1>3 DEF TypeOK, deviceVars
<1>4. CASE d \in attached /\ AdbFails
  <2>1. failures' \in 0 .. MaxFailures /\ failures' # 0
    BY <1>1, <1>4 DEF AdbFails
  <2> QED
    BY <1>4, <2>1 DEF AdbFails, TypeOK
<1> QED
  BY <1>2, <1>3, <1>4 DEF Adb

\* A command that fails changes neither the devices nor the rules.
LEMMA AdbFailsEffect ==
  ASSUME TypeOK, AdbFails
  PROVE  /\ attached' = attached /\ fwd' = fwd
         /\ failures' \in 0 .. MaxFailures /\ failures' # 0
BY AdbAssumption DEF AdbFails, TypeOK

(* The rules the commands of the model leave are rules.                    *)
LEMMA RulesAreRules ==
  ASSUME TypeOK
  PROVE  \A d \in Devices :
            /\ {} \in SUBSET (Ports \cup {Control})
            /\ fwd[d] \cup {Control} \in SUBSET (Ports \cup {Control})
            /\ \A c \in Conns :
                  /\ fwd[d] \cup {port[c]} \in SUBSET (Ports \cup {Control})
                  /\ fwd[d] \ {port[c]} \in SUBSET (Ports \cup {Control})
<1> TAKE d \in Devices
<1>1. fwd[d] \in SUBSET (Ports \cup {Control}) /\ \A c \in Conns : port[c] \in Ports
  BY DEF TypeOK
<1> QED
  BY <1>1

-----------------------------------------------------------------------------
(* The invariant is kept.                                                  *)

(* The types.                                                              *)
LEMMA TypeStep ==
  ASSUME SafeInv, [Next]_vars
  PROVE  TypeOK'
<1> USE DEF vars, deviceVars, mainVars, watchVars, connVars
<1> USE DEF SafeInv
<1>1. CASE ListAtStart
  BY AdbEffect, AdbFailsEffect, RulesAreRules, <1>1
     DEF ListAtStart, ListDevices, TypeOK, Main, Conn
<1>2. ASSUME NEW d \in Devices, Startup(d) PROVE TypeOK'
  BY AdbEffect, AdbFailsEffect, RulesAreRules, <1>2
     DEF Startup, RemoveAllReverse, SetupReverse, TypeOK, Main, Conn
<1>3. CASE Serve
  BY AdbEffect, AdbFailsEffect, RulesAreRules, <1>3 DEF Serve, TypeOK, Main, Conn
<1>4. CASE Signal
  BY AdbEffect, AdbFailsEffect, RulesAreRules, <1>4
     DEF Signal, ListDevices, TypeOK, Main, Conn
<1>5. ASSUME NEW d \in Devices, Cleanup(d) PROVE TypeOK'
  BY AdbEffect, AdbFailsEffect, RulesAreRules, <1>5
     DEF Cleanup, RemoveAllReverse, TypeOK, Main, Conn
<1>6. CASE Exit
  BY AdbEffect, AdbFailsEffect, RulesAreRules, <1>6 DEF Exit, TypeOK, Main, Conn
<1>7. CASE Poll
  <2>1. attached \in SUBSET Devices
    BY DEF TypeOK
  <2>2. watchSetup = {}
    BY <1>7 DEF Poll, PollInv, TypeOK
  <2>3. UNCHANGED <<fwd, failures, main, mainTodo, listed, known, conn, alive, home, port,
                    connTodo, attached>>
    BY <1>7 DEF Poll, ListDevices
  <2>4. polling' = TRUE /\ watchSetup' = {} /\ watchSeen' = attached /\ watchTodo' = attached
    BY <2>2, <1>7 DEF Poll, ListDevices
  <2>5. watchSetup' \in {{}} \cup {{d} : d \in watchSeen'}
    BY <2>4
  <2>6. /\ watchSeen' \subseteq Devices /\ watchTodo' \subseteq watchSeen'
        /\ polling' \in BOOLEAN
    BY <2>1, <2>4
  <2> QED
    BY <2>3, <2>5, <2>6 DEF TypeOK
<1>8. CASE PollFails
  BY AdbEffect, AdbFailsEffect, RulesAreRules, <1>8 DEF PollFails, TypeOK, Main, Conn
<1>9. ASSUME NEW d \in Devices, OnNew(d) PROVE TypeOK'
  BY AdbEffect, AdbFailsEffect, RulesAreRules, <1>9
     DEF OnNew, RemoveAllReverse, Visit, TypeOK, Main, Conn
<1>10. ASSUME NEW d \in Devices, Ensure(d) PROVE TypeOK'
  BY AdbEffect, AdbFailsEffect, RulesAreRules, <1>10
     DEF Ensure, EnsureForward, Visit, TypeOK, Main, Conn
<1>11. ASSUME NEW d \in Devices, WatchSetup(d) PROVE TypeOK'
  BY AdbEffect, AdbFailsEffect, RulesAreRules, <1>11
     DEF WatchSetup, SetupReverse, TypeOK, Main, Conn
<1>12. CASE PollEnds
  BY AdbEffect, AdbFailsEffect, RulesAreRules, <1>12
     DEF PollEnds, CallbacksReturned, TypeOK, Main, Conn
<1>13. ASSUME NEW c \in Conns, NEW d \in Devices, NEW p \in Ports, Connect(c, d, p) PROVE TypeOK'
  BY AdbEffect, AdbFailsEffect, RulesAreRules, <1>13
     DEF Connect, ListDevices, TypeOK, Main, Conn
<1>14. ASSUME NEW c \in Conns, NEW d \in Devices, Forward(c, d) PROVE TypeOK'
  BY AdbEffect, AdbFailsEffect, RulesAreRules, <1>14
     DEF Forward, SetupReverse, Visited, TypeOK, Main, Conn
<1>15. ASSUME NEW c \in Conns, EndHandshake(c) PROVE TypeOK'
  BY AdbEffect, AdbFailsEffect, RulesAreRules, <1>15
     DEF EndHandshake, TypeOK, Main, Conn
<1>16. ASSUME NEW c \in Conns, Disconnect(c) PROVE TypeOK'
  BY AdbEffect, AdbFailsEffect, RulesAreRules, <1>16 DEF Disconnect, TypeOK, Main, Conn
<1>17. ASSUME NEW c \in Conns, CloseServers(c) PROVE TypeOK'
  BY AdbEffect, AdbFailsEffect, RulesAreRules, <1>17
     DEF CloseServers, ListDevices, TypeOK, Main, Conn
<1>18. ASSUME NEW c \in Conns, NEW d \in Devices, Unforward(c, d) PROVE TypeOK'
  BY AdbEffect, AdbFailsEffect, RulesAreRules, <1>18
     DEF Unforward, UnforwardOn, RemoveReverse, Visited, TypeOK, Main, Conn
<1>19. ASSUME NEW c \in Conns, EndTeardown(c) PROVE TypeOK'
  BY AdbEffect, AdbFailsEffect, RulesAreRules, <1>19 DEF EndTeardown, TypeOK, Main, Conn
<1>20. ASSUME NEW d \in Devices, Attach(d) PROVE TypeOK'
  BY AdbEffect, AdbFailsEffect, RulesAreRules, <1>20 DEF Attach, TypeOK, Main, Conn
<1>21. ASSUME NEW d \in Devices, DropLink(d) PROVE TypeOK'
  BY AdbEffect, AdbFailsEffect, RulesAreRules, <1>21 DEF DropLink, TypeOK, Main, Conn
<1>22. CASE UNCHANGED vars
  BY <1>22 DEF TypeOK
<1> QED
  BY StepCases, <1>1, <1>2, <1>3, <1>4, <1>5, <1>6, <1>7, <1>8, <1>9, <1>10, <1>11,
     <1>12, <1>13, <1>14, <1>15, <1>16, <1>17, <1>18, <1>19, <1>20, <1>21, <1>22

(* Nobody but main runs before it serves.                                  *)
LEMMA StartInvStep ==
  ASSUME SafeInv, [Next]_vars
  PROVE  StartInv'
<1> USE DEF vars, deviceVars, mainVars, watchVars, connVars
<1> USE DEF SafeInv
<1>1. CASE ListAtStart
  BY <1>1 DEF ListAtStart, ListDevices, TypeOK, StartInv, Running
<1>2. ASSUME NEW d \in Devices, Startup(d) PROVE StartInv'
  BY <1>2 DEF Startup, RemoveAllReverse, SetupReverse, TypeOK, StartInv, Running
<1>3. CASE Serve
  BY <1>3 DEF Serve, TypeOK, StartInv, Running
<1>4. CASE Signal
  BY <1>4 DEF Signal, ListDevices, TypeOK, StartInv, Running
<1>5. ASSUME NEW d \in Devices, Cleanup(d) PROVE StartInv'
  BY <1>5 DEF Cleanup, RemoveAllReverse, TypeOK, StartInv, Running
<1>6. CASE Exit
  BY <1>6 DEF Exit, TypeOK, StartInv, Running
<1>7. CASE Poll
  BY <1>7 DEF Poll, ListDevices, TypeOK, StartInv, Running
<1>8. CASE PollFails
  BY <1>8 DEF PollFails, TypeOK, StartInv, Running
<1>9. ASSUME NEW d \in Devices, OnNew(d) PROVE StartInv'
  BY <1>9 DEF OnNew, RemoveAllReverse, Visit, TypeOK, StartInv, Running
<1>10. ASSUME NEW d \in Devices, Ensure(d) PROVE StartInv'
  BY <1>10 DEF Ensure, EnsureForward, Visit, TypeOK, StartInv, Running
<1>11. ASSUME NEW d \in Devices, WatchSetup(d) PROVE StartInv'
  BY <1>11 DEF WatchSetup, SetupReverse, TypeOK, StartInv, Running
<1>12. CASE PollEnds
  BY <1>12 DEF PollEnds, CallbacksReturned, TypeOK, StartInv, Running
<1>13. ASSUME NEW c \in Conns, NEW d \in Devices, NEW p \in Ports, Connect(c, d, p) PROVE StartInv'
  BY <1>13 DEF Connect, ListDevices, TypeOK, StartInv, Running
<1>14. ASSUME NEW c \in Conns, NEW d \in Devices, Forward(c, d) PROVE StartInv'
  BY <1>14 DEF Forward, SetupReverse, Visited, TypeOK, StartInv, Running
<1>15. ASSUME NEW c \in Conns, EndHandshake(c) PROVE StartInv'
  BY <1>15 DEF EndHandshake, TypeOK, StartInv, Running
<1>16. ASSUME NEW c \in Conns, Disconnect(c) PROVE StartInv'
  BY <1>16 DEF Disconnect, TypeOK, StartInv, Running
<1>17. ASSUME NEW c \in Conns, CloseServers(c) PROVE StartInv'
  BY <1>17 DEF CloseServers, ListDevices, TypeOK, StartInv, Running
<1>18. ASSUME NEW c \in Conns, NEW d \in Devices, Unforward(c, d) PROVE StartInv'
  BY <1>18 DEF Unforward, UnforwardOn, RemoveReverse, Visited, TypeOK, StartInv, Running
<1>19. ASSUME NEW c \in Conns, EndTeardown(c) PROVE StartInv'
  BY <1>19 DEF EndTeardown, TypeOK, StartInv, Running
<1>20. ASSUME NEW d \in Devices, Attach(d) PROVE StartInv'
  BY <1>20 DEF Attach, TypeOK, StartInv, Running
<1>21. ASSUME NEW d \in Devices, DropLink(d) PROVE StartInv'
  BY <1>21 DEF DropLink, TypeOK, StartInv, Running
<1>22. CASE UNCHANGED vars
  BY <1>22 DEF StartInv
<1> QED
  BY StepCases, <1>1, <1>2, <1>3, <1>4, <1>5, <1>6, <1>7, <1>8, <1>9, <1>10, <1>11,
     <1>12, <1>13, <1>14, <1>15, <1>16, <1>17, <1>18, <1>19, <1>20, <1>21, <1>22

(* The polls.                                                              *)
LEMMA PollInvStep ==
  ASSUME SafeInv, [Next]_vars
  PROVE  PollInv'
<1> USE DEF vars, deviceVars, mainVars, watchVars, connVars
<1> USE DEF SafeInv
<1>1. CASE ListAtStart
  BY <1>1 DEF ListAtStart, ListDevices, TypeOK, PollInv, Running
<1>2. ASSUME NEW d \in Devices, Startup(d) PROVE PollInv'
  BY <1>2 DEF Startup, RemoveAllReverse, SetupReverse, TypeOK, PollInv, Running
<1>3. CASE Serve
  BY <1>3 DEF Serve, TypeOK, PollInv, Running
<1>4. CASE Signal
  BY <1>4 DEF Signal, ListDevices, TypeOK, PollInv, Running
<1>5. ASSUME NEW d \in Devices, Cleanup(d) PROVE PollInv'
  BY <1>5 DEF Cleanup, RemoveAllReverse, TypeOK, PollInv, Running
<1>6. CASE Exit
  BY <1>6 DEF Exit, TypeOK, PollInv, Running
<1>7. CASE Poll
  BY <1>7 DEF Poll, ListDevices, TypeOK, PollInv, Running
<1>8. CASE PollFails
  BY <1>8 DEF PollFails, TypeOK, PollInv, Running
<1>9. ASSUME NEW d \in Devices, OnNew(d) PROVE PollInv'
  BY <1>9 DEF OnNew, RemoveAllReverse, Visit, TypeOK, PollInv, Running
<1>10. ASSUME NEW d \in Devices, Ensure(d) PROVE PollInv'
  BY <1>10 DEF Ensure, EnsureForward, Visit, TypeOK, PollInv, Running
<1>11. ASSUME NEW d \in Devices, WatchSetup(d) PROVE PollInv'
  BY <1>11 DEF WatchSetup, SetupReverse, TypeOK, PollInv, Running
<1>12. CASE PollEnds
  BY <1>12 DEF PollEnds, CallbacksReturned, TypeOK, PollInv, Running
<1>13. ASSUME NEW c \in Conns, NEW d \in Devices, NEW p \in Ports, Connect(c, d, p) PROVE PollInv'
  BY <1>13 DEF Connect, ListDevices, TypeOK, PollInv, Running
<1>14. ASSUME NEW c \in Conns, NEW d \in Devices, Forward(c, d) PROVE PollInv'
  BY <1>14 DEF Forward, SetupReverse, Visited, TypeOK, PollInv, Running
<1>15. ASSUME NEW c \in Conns, EndHandshake(c) PROVE PollInv'
  BY <1>15 DEF EndHandshake, TypeOK, PollInv, Running
<1>16. ASSUME NEW c \in Conns, Disconnect(c) PROVE PollInv'
  BY <1>16 DEF Disconnect, TypeOK, PollInv, Running
<1>17. ASSUME NEW c \in Conns, CloseServers(c) PROVE PollInv'
  BY <1>17 DEF CloseServers, ListDevices, TypeOK, PollInv, Running
<1>18. ASSUME NEW c \in Conns, NEW d \in Devices, Unforward(c, d) PROVE PollInv'
  BY <1>18 DEF Unforward, UnforwardOn, RemoveReverse, Visited, TypeOK, PollInv, Running
<1>19. ASSUME NEW c \in Conns, EndTeardown(c) PROVE PollInv'
  BY <1>19 DEF EndTeardown, TypeOK, PollInv, Running
<1>20. ASSUME NEW d \in Devices, Attach(d) PROVE PollInv'
  BY <1>20 DEF Attach, TypeOK, PollInv, Running
<1>21. ASSUME NEW d \in Devices, DropLink(d) PROVE PollInv'
  BY <1>21 DEF DropLink, TypeOK, PollInv, Running
<1>22. CASE UNCHANGED vars
  BY <1>22 DEF PollInv
<1> QED
  BY StepCases, <1>1, <1>2, <1>3, <1>4, <1>5, <1>6, <1>7, <1>8, <1>9, <1>10, <1>11,
     <1>12, <1>13, <1>14, <1>15, <1>16, <1>17, <1>18, <1>19, <1>20, <1>21, <1>22

(* The clients go with their device.                                       *)
LEMMA HomeInvStep ==
  ASSUME SafeInv, [Next]_vars
  PROVE  HomeInv'
<1> USE DEF vars, deviceVars, mainVars, watchVars, connVars
<1> USE DEF SafeInv
<1>1. CASE ListAtStart
  BY AdbEffect, AdbFailsEffect, RulesAreRules, <1>1
     DEF ListAtStart, ListDevices, TypeOK, HomeInv
<1>2. ASSUME NEW d \in Devices, Startup(d) PROVE HomeInv'
  BY AdbEffect, AdbFailsEffect, RulesAreRules, <1>2
     DEF Startup, RemoveAllReverse, SetupReverse, TypeOK, HomeInv
<1>3. CASE Serve
  BY AdbEffect, AdbFailsEffect, RulesAreRules, <1>3 DEF Serve, TypeOK, HomeInv
<1>4. CASE Signal
  BY AdbEffect, AdbFailsEffect, RulesAreRules, <1>4
     DEF Signal, ListDevices, TypeOK, HomeInv
<1>5. ASSUME NEW d \in Devices, Cleanup(d) PROVE HomeInv'
  BY AdbEffect, AdbFailsEffect, RulesAreRules, <1>5
     DEF Cleanup, RemoveAllReverse, TypeOK, HomeInv
<1>6. CASE Exit
  BY AdbEffect, AdbFailsEffect, RulesAreRules, <1>6 DEF Exit, TypeOK, HomeInv
<1>7. CASE Poll
  BY AdbEffect, AdbFailsEffect, RulesAreRules, <1>7
     DEF Poll, ListDevices, TypeOK, HomeInv
<1>8. CASE PollFails
  BY AdbEffect, AdbFailsEffect, RulesAreRules, <1>8 DEF PollFails, TypeOK, HomeInv
<1>9. ASSUME NEW d \in Devices, OnNew(d) PROVE HomeInv'
  BY AdbEffect, AdbFailsEffect, RulesAreRules, <1>9
     DEF OnNew, RemoveAllReverse, Visit, TypeOK, HomeInv
<1>10. ASSUME NEW d \in Devices, Ensure(d) PROVE HomeInv'
  BY AdbEffect, AdbFailsEffect, RulesAreRules, <1>10
     DEF Ensure, EnsureForward, Visit, TypeOK, HomeInv
<1>11. ASSUME NEW d \in Devices, WatchSetup(d) PROVE HomeInv'
  BY AdbEffect, AdbFailsEffect, RulesAreRules, <1>11
     DEF WatchSetup, SetupReverse, TypeOK, HomeInv
<1>12. CASE PollEnds
  BY AdbEffect, AdbFailsEffect, RulesAreRules, <1>12
     DEF PollEnds, CallbacksReturned, TypeOK, HomeInv
<1>13. ASSUME NEW c \in Conns, NEW d \in Devices, NEW p \in Ports, Connect(c, d, p) PROVE HomeInv'
  BY AdbEffect, AdbFailsEffect, RulesAreRules, <1>13
     DEF Connect, ListDevices, TypeOK, HomeInv
<1>14. ASSUME NEW c \in Conns, NEW d \in Devices, Forward(c, d) PROVE HomeInv'
  BY AdbEffect, AdbFailsEffect, RulesAreRules, <1>14
     DEF Forward, SetupReverse, Visited, TypeOK, HomeInv
<1>15. ASSUME NEW c \in Conns, EndHandshake(c) PROVE HomeInv'
  BY AdbEffect, AdbFailsEffect, RulesAreRules, <1>15 DEF EndHandshake, TypeOK, HomeInv
<1>16. ASSUME NEW c \in Conns, Disconnect(c) PROVE HomeInv'
  BY AdbEffect, AdbFailsEffect, RulesAreRules, <1>16 DEF Disconnect, TypeOK, HomeInv
<1>17. ASSUME NEW c \in Conns, CloseServers(c) PROVE HomeInv'
  BY AdbEffect, AdbFailsEffect, RulesAreRules, <1>17
     DEF CloseServers, ListDevices, TypeOK, HomeInv
<1>18. ASSUME NEW c \in Conns, NEW d \in Devices, Unforward(c, d) PROVE HomeInv'
  BY AdbEffect, AdbFailsEffect, RulesAreRules, <1>18
     DEF Unforward, UnforwardOn, RemoveReverse, Visited, TypeOK, HomeInv
<1>19. ASSUME NEW c \in Conns, EndTeardown(c) PROVE HomeInv'
  BY AdbEffect, AdbFailsEffect, RulesAreRules, <1>19 DEF EndTeardown, TypeOK, HomeInv
<1>20. ASSUME NEW d \in Devices, Attach(d) PROVE HomeInv'
  BY AdbEffect, AdbFailsEffect, RulesAreRules, <1>20 DEF Attach, TypeOK, HomeInv
<1>21. ASSUME NEW d \in Devices, DropLink(d) PROVE HomeInv'
  BY AdbEffect, AdbFailsEffect, RulesAreRules, <1>21 DEF DropLink, TypeOK, HomeInv
<1>22. CASE UNCHANGED vars
  BY <1>22 DEF HomeInv
<1> QED
  BY StepCases, <1>1, <1>2, <1>3, <1>4, <1>5, <1>6, <1>7, <1>8, <1>9, <1>10, <1>11,
     <1>12, <1>13, <1>14, <1>15, <1>16, <1>17, <1>18, <1>19, <1>20, <1>21, <1>22

(* Who can reach the server is on a device the watcher knows.             *)
LEMMA KnownInvStep ==
  ASSUME SafeInv, [Next]_vars
  PROVE  KnownInv'
<1> USE DEF vars, deviceVars, mainVars, watchVars, connVars
<1> USE DEF SafeInv
<1>1. CASE ListAtStart
  BY AdbEffect, AdbFailsEffect, RulesAreRules, <1>1
     DEF ListAtStart, ListDevices, TypeOK, StartInv, PollInv, HomeInv, KnownInv,
      Reachable, Running
<1>2. ASSUME NEW d \in Devices, Startup(d) PROVE KnownInv'
  BY AdbEffect, AdbFailsEffect, RulesAreRules, <1>2
     DEF Startup, RemoveAllReverse, SetupReverse, TypeOK, StartInv, PollInv, HomeInv,
      KnownInv, Reachable, Running
<1>3. CASE Serve
  BY AdbEffect, AdbFailsEffect, RulesAreRules, <1>3
     DEF Serve, TypeOK, StartInv, PollInv, HomeInv, KnownInv, Reachable, Running
<1>4. CASE Signal
  BY AdbEffect, AdbFailsEffect, RulesAreRules, <1>4
     DEF Signal, ListDevices, TypeOK, StartInv, PollInv, HomeInv, KnownInv, Reachable,
      Running
<1>5. ASSUME NEW d \in Devices, Cleanup(d) PROVE KnownInv'
  BY AdbEffect, AdbFailsEffect, RulesAreRules, <1>5
     DEF Cleanup, RemoveAllReverse, TypeOK, StartInv, PollInv, HomeInv, KnownInv,
      Reachable, Running
<1>6. CASE Exit
  BY AdbEffect, AdbFailsEffect, RulesAreRules, <1>6
     DEF Exit, TypeOK, StartInv, PollInv, HomeInv, KnownInv, Reachable, Running
<1>7. CASE Poll
  BY AdbEffect, AdbFailsEffect, RulesAreRules, <1>7
     DEF Poll, ListDevices, TypeOK, StartInv, PollInv, HomeInv, KnownInv, Reachable,
      Running
<1>8. CASE PollFails
  BY AdbEffect, AdbFailsEffect, RulesAreRules, <1>8
     DEF PollFails, TypeOK, StartInv, PollInv, HomeInv, KnownInv, Reachable, Running
<1>9. ASSUME NEW d \in Devices, OnNew(d) PROVE KnownInv'
  BY AdbEffect, AdbFailsEffect, RulesAreRules, <1>9
     DEF OnNew, RemoveAllReverse, Visit, TypeOK, StartInv, PollInv, HomeInv, KnownInv,
      Reachable, Running
<1>10. ASSUME NEW d \in Devices, Ensure(d) PROVE KnownInv'
  <2>1. fwd' = fwd
    BY AdbFailsEffect, <1>10 DEF Ensure, EnsureForward, Visit
  <2>2. UNCHANGED <<main, listed, known, polling, watchSeen, alive, home>> /\ watchTodo' \subseteq watchTodo
    BY <1>10 DEF Ensure, EnsureForward, Visit
  <2> QED
    BY <2>1, <2>2 DEF KnownInv, Reachable
<1>11. ASSUME NEW d \in Devices, WatchSetup(d) PROVE KnownInv'
  BY AdbEffect, AdbFailsEffect, RulesAreRules, <1>11
     DEF WatchSetup, SetupReverse, TypeOK, StartInv, PollInv, HomeInv, KnownInv,
      Reachable, Running
<1>12. CASE PollEnds
  BY AdbEffect, AdbFailsEffect, RulesAreRules, <1>12
     DEF PollEnds, CallbacksReturned, TypeOK, StartInv, PollInv, HomeInv, KnownInv,
      Reachable, Running
<1>13. ASSUME NEW c \in Conns, NEW d \in Devices, NEW p \in Ports, Connect(c, d, p) PROVE KnownInv'
  BY AdbEffect, AdbFailsEffect, RulesAreRules, <1>13
     DEF Connect, ListDevices, TypeOK, StartInv, PollInv, HomeInv, KnownInv, Reachable,
      Running
<1>14. ASSUME NEW c \in Conns, NEW d \in Devices, Forward(c, d) PROVE KnownInv'
  <2>1. \A e \in Devices : Control \in fwd'[e] => Control \in fwd[e]
    BY AdbEffect, RulesAreRules, AdbAssumption, <1>14 DEF Forward, SetupReverse, TypeOK
  <2> QED
    BY <2>1, <1>14 DEF Forward, KnownInv, Reachable
<1>15. ASSUME NEW c \in Conns, EndHandshake(c) PROVE KnownInv'
  BY AdbEffect, AdbFailsEffect, RulesAreRules, <1>15
     DEF EndHandshake, TypeOK, StartInv, PollInv, HomeInv, KnownInv, Reachable, Running
<1>16. ASSUME NEW c \in Conns, Disconnect(c) PROVE KnownInv'
  BY AdbEffect, AdbFailsEffect, RulesAreRules, <1>16
     DEF Disconnect, TypeOK, StartInv, PollInv, HomeInv, KnownInv, Reachable, Running
<1>17. ASSUME NEW c \in Conns, CloseServers(c) PROVE KnownInv'
  BY AdbEffect, AdbFailsEffect, RulesAreRules, <1>17
     DEF CloseServers, ListDevices, TypeOK, StartInv, PollInv, HomeInv, KnownInv,
      Reachable, Running
<1>18. ASSUME NEW c \in Conns, NEW d \in Devices, Unforward(c, d) PROVE KnownInv'
  BY AdbEffect, AdbFailsEffect, RulesAreRules, <1>18
     DEF Unforward, UnforwardOn, RemoveReverse, Visited, TypeOK, StartInv, PollInv,
      HomeInv, KnownInv, Reachable, Running
<1>19. ASSUME NEW c \in Conns, EndTeardown(c) PROVE KnownInv'
  BY AdbEffect, AdbFailsEffect, RulesAreRules, <1>19
     DEF EndTeardown, TypeOK, StartInv, PollInv, HomeInv, KnownInv, Reachable, Running
<1>20. ASSUME NEW d \in Devices, Attach(d) PROVE KnownInv'
  BY AdbEffect, AdbFailsEffect, RulesAreRules, <1>20
     DEF Attach, TypeOK, StartInv, PollInv, HomeInv, KnownInv, Reachable, Running
<1>21. ASSUME NEW d \in Devices, DropLink(d) PROVE KnownInv'
  BY AdbEffect, AdbFailsEffect, RulesAreRules, <1>21
     DEF DropLink, TypeOK, StartInv, PollInv, HomeInv, KnownInv, Reachable, Running
<1>22. CASE UNCHANGED vars
  BY <1>22 DEF KnownInv, Reachable
<1> QED
  BY StepCases, <1>1, <1>2, <1>3, <1>4, <1>5, <1>6, <1>7, <1>8, <1>9, <1>10, <1>11,
     <1>12, <1>13, <1>14, <1>15, <1>16, <1>17, <1>18, <1>19, <1>20, <1>21, <1>22

(* Forwards of a client torn down go, or have a new owner.                 *)
LEMMA GoneInvStep ==
  ASSUME SafeInv, [Next]_vars
  PROVE  GoneInv'
<1> USE DEF vars, deviceVars, mainVars, watchVars, connVars
<1> USE DEF SafeInv
<1>1. CASE ListAtStart
  BY AdbEffect, AdbFailsEffect, RulesAreRules, AdbAssumption, <1>1
     DEF ListAtStart, ListDevices, TypeOK, GoneInv, HasBeen, Responsible, Listening
<1>2. ASSUME NEW d \in Devices, Startup(d) PROVE GoneInv'
  BY AdbEffect, AdbFailsEffect, RulesAreRules, AdbAssumption, <1>2
     DEF Startup, RemoveAllReverse, SetupReverse, TypeOK, GoneInv, HasBeen,
      Responsible, Listening
<1>3. CASE Serve
  BY AdbEffect, AdbFailsEffect, RulesAreRules, AdbAssumption, <1>3
     DEF Serve, TypeOK, GoneInv, HasBeen, Responsible, Listening
<1>4. CASE Signal
  BY AdbEffect, AdbFailsEffect, RulesAreRules, AdbAssumption, <1>4
     DEF Signal, ListDevices, TypeOK, GoneInv, HasBeen, Responsible, Listening
<1>5. ASSUME NEW d \in Devices, Cleanup(d) PROVE GoneInv'
  <2>1. \A e \in Devices : fwd'[e] \subseteq fwd[e]
    BY AdbEffect, RulesAreRules, <1>5 DEF Cleanup, RemoveAllReverse
  <2>2. failures' = 0 => failures = 0
    BY AdbEffect, RulesAreRules, <1>5 DEF Cleanup, RemoveAllReverse
  <2> QED
    BY <2>1, <2>2, <1>5 DEF Cleanup, GoneInv, HasBeen, Responsible, Listening
<1>6. CASE Exit
  BY AdbEffect, AdbFailsEffect, RulesAreRules, AdbAssumption, <1>6
     DEF Exit, TypeOK, GoneInv, HasBeen, Responsible, Listening
<1>7. CASE Poll
  BY AdbEffect, AdbFailsEffect, RulesAreRules, AdbAssumption, <1>7
     DEF Poll, ListDevices, TypeOK, GoneInv, HasBeen, Responsible, Listening
<1>8. CASE PollFails
  BY AdbEffect, AdbFailsEffect, RulesAreRules, AdbAssumption, <1>8
     DEF PollFails, TypeOK, GoneInv, HasBeen, Responsible, Listening
<1>9. ASSUME NEW d \in Devices, OnNew(d) PROVE GoneInv'
  BY AdbEffect, AdbFailsEffect, RulesAreRules, AdbAssumption, <1>9
     DEF OnNew, RemoveAllReverse, Visit, TypeOK, GoneInv, HasBeen, Responsible,
      Listening
<1>10. ASSUME NEW d \in Devices, Ensure(d) PROVE GoneInv'
  BY AdbEffect, AdbFailsEffect, RulesAreRules, AdbAssumption, <1>10
     DEF Ensure, EnsureForward, Visit, TypeOK, GoneInv, HasBeen, Responsible, Listening
<1>11. ASSUME NEW d \in Devices, WatchSetup(d) PROVE GoneInv'
  BY AdbEffect, AdbFailsEffect, RulesAreRules, AdbAssumption, <1>11
     DEF WatchSetup, SetupReverse, TypeOK, GoneInv, HasBeen, Responsible, Listening
<1>12. CASE PollEnds
  BY AdbEffect, AdbFailsEffect, RulesAreRules, AdbAssumption, <1>12
     DEF PollEnds, CallbacksReturned, TypeOK, GoneInv, HasBeen, Responsible, Listening
<1>13. ASSUME NEW c \in Conns, NEW d \in Devices, NEW p \in Ports, Connect(c, d, p) PROVE GoneInv'
  BY AdbEffect, AdbFailsEffect, RulesAreRules, AdbAssumption, <1>13
     DEF Connect, ListDevices, TypeOK, GoneInv, HasBeen, Responsible, Listening
<1>14. ASSUME NEW c \in Conns, NEW d \in Devices, Forward(c, d) PROVE GoneInv'
  BY AdbEffect, AdbFailsEffect, RulesAreRules, AdbAssumption, <1>14
     DEF Forward, SetupReverse, Visited, TypeOK, GoneInv, HasBeen, Responsible,
      Listening
<1>15. ASSUME NEW c \in Conns, EndHandshake(c) PROVE GoneInv'
  BY AdbEffect, AdbFailsEffect, RulesAreRules, AdbAssumption, <1>15
     DEF EndHandshake, TypeOK, GoneInv, HasBeen, Responsible, Listening
<1>16. ASSUME NEW c \in Conns, Disconnect(c) PROVE GoneInv'
  BY AdbEffect, AdbFailsEffect, RulesAreRules, AdbAssumption, <1>16
     DEF Disconnect, TypeOK, GoneInv, HasBeen, Responsible, Listening
<1>17. ASSUME NEW c \in Conns, CloseServers(c) PROVE GoneInv'
  BY AdbEffect, AdbFailsEffect, RulesAreRules, AdbAssumption, <1>17
     DEF CloseServers, ListDevices, TypeOK, GoneInv, HasBeen, Responsible, Listening
<1>18. ASSUME NEW c \in Conns, NEW d \in Devices, Unforward(c, d) PROVE GoneInv'
  BY AdbEffect, AdbFailsEffect, RulesAreRules, AdbAssumption, <1>18
     DEF Unforward, UnforwardOn, RemoveReverse, Visited, TypeOK, GoneInv, HasBeen,
      Responsible, Listening
<1>19. ASSUME NEW c \in Conns, EndTeardown(c) PROVE GoneInv'
  BY AdbEffect, AdbFailsEffect, RulesAreRules, AdbAssumption, <1>19
     DEF EndTeardown, TypeOK, GoneInv, HasBeen, Responsible, Listening
<1>20. ASSUME NEW d \in Devices, Attach(d) PROVE GoneInv'
  BY AdbEffect, AdbFailsEffect, RulesAreRules, AdbAssumption, <1>20
     DEF Attach, TypeOK, GoneInv, HasBeen, Responsible, Listening
<1>21. ASSUME NEW d \in Devices, DropLink(d) PROVE GoneInv'
  BY AdbEffect, AdbFailsEffect, RulesAreRules, AdbAssumption, <1>21
     DEF DropLink, TypeOK, GoneInv, HasBeen, Responsible, Listening
<1>22. CASE UNCHANGED vars
  BY <1>22 DEF GoneInv, HasBeen, Responsible, Listening
<1> QED
  BY StepCases, <1>1, <1>2, <1>3, <1>4, <1>5, <1>6, <1>7, <1>8, <1>9, <1>10, <1>11,
     <1>12, <1>13, <1>14, <1>15, <1>16, <1>17, <1>18, <1>19, <1>20, <1>21, <1>22

-----------------------------------------------------------------------------
(* The theorems.                                                           *)

(* The forwards are always in a safe state.                                *)
THEOREM ForwardsAreSafe == Spec => []SafeInv
<1>1. Init => SafeInv
  <2> SUFFICES ASSUME Init PROVE SafeInv
    OBVIOUS
  <2>1. TypeOK
    <3>1. (CHOOSE d \in Devices : TRUE) \in Devices /\ (CHOOSE p \in Ports : TRUE) \in Ports
      BY AdbAssumption
    <3>2. 0 \in 0 .. MaxFailures
      BY AdbAssumption
    <3> QED
      BY <3>1, <3>2 DEF Init, TypeOK, Main, Conn
  <2>2. StartInv /\ PollInv /\ HomeInv /\ KnownInv
    BY DEF Init, StartInv, PollInv, HomeInv, KnownInv
  <2>3. GoneInv
    BY DEF Init, GoneInv, HasBeen
  <2> QED
    BY <2>1, <2>2, <2>3 DEF SafeInv
<1>2. SafeInv /\ [Next]_vars => SafeInv'
  BY TypeStep, StartInvStep, PollInvStep, HomeInvStep, KnownInvStep, GoneInvStep
     DEF SafeInv
<1> QED
  BY <1>1, <1>2, PTL DEF Spec

(* TypeOK (AdbForwards.tla): every variable has its type; a device that is *)
(* not attached forwards nothing, and a callback of the watcher runs only  *)
(* for a serial of the poll that is on (watcher.go).                       *)
THEOREM ForwardsTypeCorrect == Spec => []TypeOK
<1>1. SafeInv => TypeOK
  BY DEF SafeInv
<1> QED
  BY <1>1, ForwardsAreSafe, PTL

(* TornDownForwardsGone (AdbForwards.tla): when no adb command has failed, *)
(* the teardown of a client (main.go, OnDisconnect) leaves its port        *)
(* forwarded nowhere, unless another client has the port now.              *)
THEOREM ForwardsGoWithTheirClient == Spec => []TornDownForwardsGone
<1>1. SafeInv => TornDownForwardsGone
  <2> SUFFICES ASSUME SafeInv, NEW c \in Conns, conn[c] = "done", failures = 0,
                      NEW d \in Devices, port[c] \in fwd[d]
               PROVE  \E e \in Conns \ {c} : conn[e] \notin {"none", "done"} /\ port[e] = port[c]
    BY DEF TornDownForwardsGone
  <2>1. PICK e \in Conns \ {c} : Responsible(e, d) /\ port[e] = port[c]
    BY DEF SafeInv, GoneInv, HasBeen
  <2>2. conn[e] \notin {"none", "done"}
    BY <2>1 DEF Responsible, Listening
  <2> QED
    BY <2>1, <2>2
<1> QED
  BY <1>1, ForwardsAreSafe, PTL

(* Who may take the forward of a client from it.                           *)
Excused(c) ==
    \/ main = "cleanup"
    \/ \E e \in Conns \ {c} : conn[e] = "unforward" /\ port[e] = port[c]
    \/ ~listed
Kept ==
    \A c \in Conns :
       conn[c] = "up" /\ c \in alive' /\ port[c] \in fwd[home[c]] \ fwd'[home[c]] => Excused(c)

(* One step of anybody.                                                    *)
LEMMA KeptStep ==
  ASSUME SafeInv, [Next]_vars
  PROVE  Kept
<1> USE DEF vars, deviceVars, mainVars, watchVars, connVars
<1> USE DEF SafeInv
<1>1. CASE ListAtStart
  BY AdbEffect, AdbFailsEffect, RulesAreRules, <1>1
     DEF ListAtStart, ListDevices, TypeOK, StartInv, PollInv, HomeInv, KnownInv,
      Reachable, Running, Kept, Excused
<1>2. ASSUME NEW d \in Devices, Startup(d) PROVE Kept
  BY AdbEffect, AdbFailsEffect, RulesAreRules, <1>2 DEF Startup, RemoveAllReverse,
     SetupReverse, TypeOK, StartInv, PollInv, HomeInv, KnownInv, Reachable, Running,
     Kept, Excused
<1>3. CASE Serve
  BY AdbEffect, AdbFailsEffect, RulesAreRules, <1>3
     DEF Serve, TypeOK, StartInv, PollInv, HomeInv, KnownInv, Reachable, Running, Kept,
      Excused
<1>4. CASE Signal
  BY AdbEffect, AdbFailsEffect, RulesAreRules, <1>4
     DEF Signal, ListDevices, TypeOK, StartInv, PollInv, HomeInv, KnownInv, Reachable,
      Running, Kept, Excused
<1>5. ASSUME NEW d \in Devices, Cleanup(d) PROVE Kept
  BY AdbEffect, AdbFailsEffect, RulesAreRules, <1>5
     DEF Cleanup, RemoveAllReverse, TypeOK, StartInv, PollInv, HomeInv, KnownInv,
      Reachable, Running, Kept, Excused
<1>6. CASE Exit
  BY AdbEffect, AdbFailsEffect, RulesAreRules, <1>6
     DEF Exit, TypeOK, StartInv, PollInv, HomeInv, KnownInv, Reachable, Running, Kept,
      Excused
<1>7. CASE Poll
  BY AdbEffect, AdbFailsEffect, RulesAreRules, <1>7
     DEF Poll, ListDevices, TypeOK, StartInv, PollInv, HomeInv, KnownInv, Reachable,
      Running, Kept, Excused
<1>8. CASE PollFails
  BY AdbEffect, AdbFailsEffect, RulesAreRules, <1>8
     DEF PollFails, TypeOK, StartInv, PollInv, HomeInv, KnownInv, Reachable, Running,
      Kept, Excused
<1>9. ASSUME NEW d \in Devices, OnNew(d) PROVE Kept
  BY AdbEffect, AdbFailsEffect, RulesAreRules, <1>9
     DEF OnNew, RemoveAllReverse, Visit, TypeOK, StartInv, PollInv, HomeInv, KnownInv,
      Reachable, Running, Kept, Excused
<1>10. ASSUME NEW d \in Devices, Ensure(d) PROVE Kept
  BY AdbEffect, AdbFailsEffect, RulesAreRules, <1>10
     DEF Ensure, EnsureForward, Visit, TypeOK, StartInv, PollInv, HomeInv, KnownInv,
      Reachable, Running, Kept, Excused
<1>11. ASSUME NEW d \in Devices, WatchSetup(d) PROVE Kept
  BY AdbEffect, AdbFailsEffect, RulesAreRules, <1>11
     DEF WatchSetup, SetupReverse, TypeOK, StartInv, PollInv, HomeInv, KnownInv,
      Reachable, Running, Kept, Excused
<1>12. CASE PollEnds
  BY AdbEffect, AdbFailsEffect, RulesAreRules, <1>12
     DEF PollEnds, CallbacksReturned, TypeOK, StartInv, PollInv, HomeInv, KnownInv,
      Reachable, Running, Kept, Excused
<1>13. ASSUME NEW c \in Conns, NEW d \in Devices, NEW p \in Ports, Connect(c, d, p) PROVE Kept
  BY AdbEffect, AdbFailsEffect, RulesAreRules, <1>13
     DEF Connect, ListDevices, TypeOK, StartInv, PollInv, HomeInv, KnownInv, Reachable,
      Running, Kept, Excused
<1>14. ASSUME NEW c \in Conns, NEW d \in Devices, Forward(c, d) PROVE Kept
  BY AdbEffect, AdbFailsEffect, RulesAreRules, <1>14
     DEF Forward, SetupReverse, Visited, TypeOK, StartInv, PollInv, HomeInv, KnownInv,
      Reachable, Running, Kept, Excused
<1>15. ASSUME NEW c \in Conns, EndHandshake(c) PROVE Kept
  BY AdbEffect, AdbFailsEffect, RulesAreRules, <1>15
     DEF EndHandshake, TypeOK, StartInv, PollInv, HomeInv, KnownInv, Reachable,
      Running, Kept, Excused
<1>16. ASSUME NEW c \in Conns, Disconnect(c) PROVE Kept
  BY AdbEffect, AdbFailsEffect, RulesAreRules, <1>16
     DEF Disconnect, TypeOK, StartInv, PollInv, HomeInv, KnownInv, Reachable, Running,
      Kept, Excused
<1>17. ASSUME NEW c \in Conns, CloseServers(c) PROVE Kept
  BY AdbEffect, AdbFailsEffect, RulesAreRules, <1>17
     DEF CloseServers, ListDevices, TypeOK, StartInv, PollInv, HomeInv, KnownInv,
      Reachable, Running, Kept, Excused
<1>18. ASSUME NEW c \in Conns, NEW d \in Devices, Unforward(c, d) PROVE Kept
  BY AdbEffect, AdbFailsEffect, RulesAreRules, <1>18 DEF Unforward, UnforwardOn,
     RemoveReverse, Visited, TypeOK, StartInv, PollInv, HomeInv, KnownInv, Reachable,
     Running, Kept, Excused
<1>19. ASSUME NEW c \in Conns, EndTeardown(c) PROVE Kept
  BY AdbEffect, AdbFailsEffect, RulesAreRules, <1>19
     DEF EndTeardown, TypeOK, StartInv, PollInv, HomeInv, KnownInv, Reachable, Running,
      Kept, Excused
<1>20. ASSUME NEW d \in Devices, Attach(d) PROVE Kept
  BY AdbEffect, AdbFailsEffect, RulesAreRules, <1>20
     DEF Attach, TypeOK, StartInv, PollInv, HomeInv, KnownInv, Reachable, Running,
      Kept, Excused
<1>21. ASSUME NEW d \in Devices, DropLink(d) PROVE Kept
  BY AdbEffect, AdbFailsEffect, RulesAreRules, <1>21
     DEF DropLink, TypeOK, StartInv, PollInv, HomeInv, KnownInv, Reachable, Running,
      Kept, Excused
<1>22. CASE UNCHANGED vars
  BY <1>22 DEF Kept
<1> QED
  BY StepCases, <1>1, <1>2, <1>3, <1>4, <1>5, <1>6, <1>7, <1>8, <1>9, <1>10, <1>11,
     <1>12, <1>13, <1>14, <1>15, <1>16, <1>17, <1>18, <1>19, <1>20, <1>21, <1>22

(* LiveForwardsKept (AdbForwards.tla): while a client is up and its device *)
(* stays attached, nobody removes the forward of its port: neither the     *)
(* watcher's callbacks (for devices main could list), nor the handshake or *)
(* the teardown of a client with another port.                             *)
THEOREM ForwardsOfLiveClientsKept == Spec => LiveForwardsKept
<1>1. SafeInv /\ [Next]_vars =>
        [\A c \in Conns :
            conn[c] = "up" /\ c \in alive' /\ port[c] \in fwd[home[c]] \ fwd'[home[c]]
              => \/ main = "cleanup"
                 \/ \E e \in Conns \ {c} : conn[e] = "unforward" /\ port[e] = port[c]
                 \/ ~listed]_vars
  BY KeptStep DEF Kept, Excused
<1> QED
  BY <1>1, ForwardsAreSafe, PTL DEF Spec, LiveForwardsKept

===============================================================================
