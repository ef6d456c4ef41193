-------------------------- MODULE RiruDaemonProofs --------------------------
(***************************************************************************)
(* Proofs about RiruDaemon, for every set of zygotes and every bound: the  *)
(* type invariant, one watcher and one pending restart, that the daemon    *)
(* implements ZygoteWatch, that a quiet daemon's status is true where      *)
(* zygotes come up before the system server, that the damage of a failed   *)
(* accept ends with the next load, and that Riru is in every zygote where  *)
(* the daemon is quiet and the device slow.                                *)
(***************************************************************************)
EXTENDS RiruDaemon, TLAPS

USE DEF vars, threadVars, workerVars, deviceVars, bounds

-----------------------------------------------------------------------------
(* The Handler queue. *)

\* Posting a message keeps the messages before it in their places.
LEMMA PostMessage ==
  ASSUME NEW q \in Seq(Messages), NEW m \in Messages
  PROVE  /\ Append(q, m) \in Seq(Messages)
         /\ Len(Append(q, m)) = Len(q) + 1
         /\ \A i \in 1..Len(q) : Append(q, m)[i] = q[i]
         /\ Append(q, m)[Len(q) + 1] = m
OBVIOUS

\* Taking the first message shifts the others.
LEMMA TakeMessage ==
  ASSUME NEW q \in Seq(Messages), q # <<>>
  PROVE  /\ Len(q) \in Nat \ {0}
         /\ Head(q) = q[1]
         /\ Tail(q) \in Seq(Messages)
         /\ Len(Tail(q)) = Len(q) - 1
         /\ \A i \in 1..Len(Tail(q)) : Tail(q)[i] = q[i + 1]
OBVIOUS

\* Taking a message does not change whether another kind of message is posted.
LEMMA TakeKeepsOthers ==
  ASSUME NEW q \in Seq(Messages), q # <<>>, NEW m \in Messages, m # Head(q)
  PROVE  (\E i \in 1..Len(Tail(q)) : Tail(q)[i] = m) <=> (\E i \in 1..Len(q) : q[i] = m)
<1>1. ASSUME NEW i \in 1..Len(Tail(q)), Tail(q)[i] = m
      PROVE  \E j \in 1..Len(q) : q[j] = m
  <2>1. i + 1 \in 1..Len(q) /\ q[i + 1] = m  BY <1>1, TakeMessage
  <2> QED  BY <2>1
<1>2. ASSUME NEW i \in 1..Len(q), q[i] = m
      PROVE  \E j \in 1..Len(Tail(q)) : Tail(q)[j] = m
  <2>1. i # 1  BY <1>2, TakeMessage
  <2>2. i - 1 \in 1..Len(Tail(q)) /\ Tail(q)[i - 1] = m  BY <1>2, <2>1, TakeMessage
  <2> QED  BY <2>2
<1> QED  BY <1>1, <1>2

\* After a message is posted there are the messages there were, and this one.
LEMMA PostAdds ==
  ASSUME NEW q \in Seq(Messages), NEW m \in Messages, NEW x
  PROVE  (\E i \in 1..Len(Append(q, m)) : Append(q, m)[i] = x)
           <=> x = m \/ (\E i \in 1..Len(q) : q[i] = x)
OBVIOUS

-----------------------------------------------------------------------------
(* Every step keeps the type invariant. *)

\* The steps of the Looper thread (startWait and what it calls) keep the types.
LEMMA MainKeepsTypes == ASSUME TypeOK, MainStep PROVE TypeOK'
<1> USE ZygotesAssumption, BoundsAssumption DEF TypeOK, ThreadTypes, FlagTypes, RecordTypes, DeviceTypes
<1>1. CASE TakeStartWait  BY <1>1, TakeMessage DEF TakeStartWait
<1>2. CASE RestartZygote
  <2>1. ThreadTypes'  BY <1>2, TakeMessage DEF RestartZygote
  <2>2. RecordTypes'  BY <1>2 DEF RestartZygote
  <2>3. DeviceTypes'  BY <1>2 DEF RestartZygote, Kill
  <2>4. FlagTypes'  BY <1>2 DEF RestartZygote, Kill
  <2> QED  BY <2>1, <2>2, <2>3, <2>4
<1>3. CASE WaitForSystemService  BY <1>3 DEF WaitForSystemService
<1>4. CASE LinkToDeath
  <2>1. ThreadTypes'  BY <1>4 DEF LinkToDeath
  <2>2. RecordTypes'  BY <1>4 DEF LinkToDeath
  <2>3. DeviceTypes'  BY <1>4 DEF LinkToDeath
  <2>4. FlagTypes'  BY <1>4 DEF LinkToDeath
  <2> QED  BY <2>1, <2>2, <2>3, <2>4
<1>5. CASE EnterMonitor
  <2>1. ZygoteContext \subseteq Zygotes \X Nat
    BY DEF ZygoteContext, Pid, Child
  <2>2. scan' \subseteq Zygotes \X Nat /\ faults' \in 0..MaxFaults
    BY <1>5, <2>1 DEF EnterMonitor
  <2> QED  BY <1>5, <2>2 DEF EnterMonitor
<1>6. ASSUME NEW p \in scan, ScanProcess(p) PROVE TypeOK'
  BY <1>6 DEF ScanProcess
<1>7. CASE ScanDone  BY <1>7 DEF ScanDone
<1>8. CASE OnRiruNotLoaded
  <2>1. queue' \in Seq(Messages)
    BY <1>8, PostMessage DEF OnRiruNotLoaded, Messages
  <2>2. FlagTypes'  BY <1>8 DEF OnRiruNotLoaded
  <2>3. ThreadTypes' /\ RecordTypes' /\ DeviceTypes'
    BY <1>8, <2>1 DEF OnRiruNotLoaded
  <2> QED  BY <2>2, <2>3
<1>9. CASE LoadResetBridge  BY <1>9 DEF LoadResetBridge
<1>10. CASE StopServer
  <2>1. zygote' \in [Zygotes -> {"off", "boot", "connect", "backlog", "session", "riru", "plain"}]
    BY <1>10 DEF StopServer, ResetBacklog
  <2>2. faults' \in 0..MaxFaults /\ serverSocket' \in {"null", "open", "leaked"}
    BY <1>10 DEF StopServer
  <2> QED  BY <1>10, <2>1, <2>2 DEF StopServer
<1>11. CASE WriteLoadedStatus  BY <1>11 DEF WriteLoadedStatus
<1> QED
  BY <1>1, <1>2, <1>3, <1>4, <1>5, <1>6, <1>7, <1>8, <1>9, <1>10, <1>11 DEF MainStep

\* The steps of binderDied keep the types.
LEMMA BinderKeepsTypes == ASSUME TypeOK, BinderStep PROVE TypeOK'
<1> USE DEF TypeOK, ThreadTypes, FlagTypes, RecordTypes, DeviceTypes
<1>1. CASE BinderDied
  <2>1. ThreadTypes' /\ DeviceTypes'  BY <1>1 DEF BinderDied
  <2>2. RecordTypes'  BY <1>1 DEF BinderDied
  <2>3. FlagTypes'  BY <1>1 DEF BinderDied
  <2> QED  BY <2>1, <2>2, <2>3
<1>2. CASE ClearModules  BY <1>2 DEF ClearModules
<1>3. CASE DeathResetBridge  BY <1>3 DEF DeathResetBridge
<1>4. CASE BinderEnterMonitor  BY <1>4 DEF BinderEnterMonitor
<1>5. CASE RestartServerCheck  BY <1>5 DEF RestartServerCheck
<1>6. CASE RestartServerSignal  BY <1>6 DEF RestartServerSignal
<1>7. CASE PostStartWait  BY <1>7, PostMessage DEF PostStartWait, Messages
<1> QED  BY <1>1, <1>2, <1>3, <1>4, <1>5, <1>6, <1>7 DEF BinderStep

\* The steps of the server thread and of the pool thread keep the types.
LEMMA ServerKeepsTypes == ASSUME TypeOK, ServerStep \/ WorkerStep PROVE TypeOK'
<1> USE BoundsAssumption DEF TypeOK, ThreadTypes, FlagTypes, RecordTypes, DeviceTypes
<1>1. CASE StartServer  BY <1>1 DEF StartServer
<1>2. ASSUME NEW z \in Zygotes, Accept(z) PROVE TypeOK'  BY <1>2 DEF Accept
<1>3. CASE AcceptFails  BY <1>3 DEF AcceptFails
<1>4. CASE NewLatch  BY <1>4 DEF NewLatch
<1>5. CASE AwaitLatch  BY <1>5 DEF AwaitLatch
<1>6. ASSUME NEW p \in sent, RecordLoadedProcess(p) PROVE TypeOK'
  BY <1>6 DEF RecordLoadedProcess
<1>7. ASSUME NEW p \in parsing, ParseModules(p) PROVE TypeOK'
  BY <1>7 DEF ParseModules
<1> QED  BY <1>1, <1>2, <1>3, <1>4, <1>5, <1>6, <1>7 DEF ServerStep, WorkerStep

\* The steps of the zygotes, the system server and init keep the types.
LEMMA DeviceKeepsTypes == ASSUME TypeOK, DeviceStep PROVE TypeOK'
<1> USE BoundsAssumption DEF TypeOK, ThreadTypes, FlagTypes, RecordTypes, DeviceTypes, Move
<1>1. ASSUME NEW z \in Zygotes, StartZygote(z) PROVE TypeOK'  BY <1>1 DEF StartZygote
<1>2. ASSUME NEW z \in Zygotes, ReadBridge(z) PROVE TypeOK'  BY <1>2 DEF ReadBridge
<1>3. ASSUME NEW z \in Zygotes, Connect(z) PROVE TypeOK'  BY <1>3 DEF Connect
<1>4. ASSUME NEW z \in Zygotes, GiveUp(z) PROVE TypeOK'  BY <1>4 DEF GiveUp
<1>5. ASSUME NEW z \in Zygotes, WriteModules(z) PROVE TypeOK'
  BY <1>5 DEF WriteModules, Pid
<1>6. ASSUME NEW z \in Zygotes, Fork(z) PROVE TypeOK'  BY <1>6 DEF Fork
<1>7. ASSUME NEW z \in Zygotes, Specialize(z) PROVE TypeOK'  BY <1>7 DEF Specialize
<1>8. CASE StartSystemServer  BY <1>8 DEF StartSystemServer
<1>c. CASE CollectSocket  BY <1>c DEF CollectSocket, ResetBacklog
<1>9. ASSUME NEW zs \in SUBSET Zygotes, Crash(zs) PROVE TypeOK'
  <2>1. ThreadTypes' /\ RecordTypes'  BY <1>9 DEF Crash
  <2>2. DeviceTypes'  BY <1>9 DEF Crash, Kill
  <2>3. FlagTypes'  BY <1>9 DEF Crash, Kill
  <2> QED  BY <2>1, <2>2, <2>3
<1> QED
  BY <1>1, <1>2, <1>3, <1>4, <1>5, <1>6, <1>7, <1>8, <1>c, <1>9 DEF DeviceStep, ZygoteStep

\* The daemon starts with every variable in its type.
LEMMA InitTypes == Init => TypeOK
<1> SUFFICES ASSUME Init PROVE TypeOK
  OBVIOUS
<1>1. ThreadTypes  BY DEF Init, ThreadTypes, Messages
<1>2. RecordTypes  BY DEF Init, RecordTypes
<1>3. DeviceTypes  BY BoundsAssumption DEF Init, DeviceTypes
<1>4. FlagTypes  BY DEF Init, FlagTypes
<1> QED  BY <1>1, <1>2, <1>3, <1>4 DEF TypeOK

\* Every step of the daemon or of the device keeps the types.
LEMMA TypeStep == ASSUME TypeOK, [Next]_vars PROVE TypeOK'
<1>1. CASE UNCHANGED vars
  BY <1>1 DEF TypeOK, ThreadTypes, FlagTypes, RecordTypes, DeviceTypes
<1> QED
  BY <1>1, MainKeepsTypes, BinderKeepsTypes, ServerKeepsTypes, DeviceKeepsTypes DEF Next

\* Every variable stays in its type: in particular the recorded processes are
\* incarnations of zygotes and the Handler queue holds the two messages only.
THEOREM TypeCorrect == Spec => []TypeOK
<1>1. TypeOK /\ [Next]_vars => TypeOK'  BY TypeStep
<1> QED  BY <1>1, InitTypes, PTL DEF Spec

-----------------------------------------------------------------------------
(* One watcher, one pending restart. *)

\* The actions of the server thread that do not fail, of the pool thread and of the
\* device leave the ownership alone; a failing bind or accept only counts a fault.
LEMMA OthersKeepOwnership ==
  ASSUME TypeOK, ServerStep \/ WorkerStep \/ DeviceStep
  PROVE  /\ UNCHANGED <<queue, main, linked, binder, allowRestart>>
         /\ faults' \in Nat /\ faults' >= faults
<1> USE BoundsAssumption DEF TypeOK, DeviceTypes
<1>1. CASE ServerStep
  BY <1>1 DEF ServerStep, StartServer, Accept, AcceptFails, NewLatch, AwaitLatch
<1>2. CASE WorkerStep
  BY <1>2 DEF WorkerStep, RecordLoadedProcess, ParseModules
<1>3. ASSUME NEW z \in Zygotes, ZygoteStep(z) \/ Fork(z) \/ Specialize(z)
      PROVE  UNCHANGED <<queue, main, linked, binder, allowRestart, faults>>
  BY <1>3 DEF ZygoteStep, StartZygote, ReadBridge, Connect, GiveUp, WriteModules, Fork,
              Specialize
<1>4. ASSUME StartSystemServer \/ CollectSocket \/ \E zs \in SUBSET Zygotes : Crash(zs)
      PROVE  UNCHANGED <<queue, main, linked, binder, allowRestart, faults>>
  BY <1>4 DEF StartSystemServer, CollectSocket, Crash
<1> QED  BY <1>1, <1>2, <1>3, <1>4 DEF DeviceStep

\* Main has only waited for system servers that were started.
HeldStarted == held <= serverGen

\* A system server that is dead does not come back: the next one is another incarnation.
LEMMA DeadStaysDead ==
  ASSUME TypeOK, HeldStarted, [Next]_vars
  PROVE  HeldStarted' /\ (held' = held /\ HeldDead => HeldDead')
<1> USE DEF HeldStarted, HeldDead
<1>0. held \in Nat /\ serverGen \in Nat
  BY DEF TypeOK, ThreadTypes, DeviceTypes
<1>1. CASE StartSystemServer
  BY <1>0, <1>1 DEF StartSystemServer
<1>2. ASSUME UNCHANGED serverGen, serverAlive' => serverAlive, held' \in {held, serverGen, 0}
      PROVE  HeldStarted' /\ (held' = held /\ HeldDead => HeldDead')
  BY <1>0, <1>2
<1>3. CASE MainStep
  BY <1>2, <1>3 DEF MainStep, TakeStartWait, RestartZygote, Kill, WaitForSystemService, LinkToDeath,
     EnterMonitor, ScanProcess, ScanDone, OnRiruNotLoaded, LoadResetBridge, StopServer, WriteLoadedStatus
<1>4. CASE BinderStep
  BY <1>2, <1>4 DEF BinderStep, BinderDied, ClearModules, DeathResetBridge, BinderEnterMonitor,
     RestartServerCheck, RestartServerSignal, PostStartWait
<1>5. CASE ServerStep \/ WorkerStep \/ UNCHANGED vars
  BY <1>2, <1>5 DEF ServerStep, StartServer, Accept, AcceptFails, NewLatch, AwaitLatch, WorkerStep,
     RecordLoadedProcess, ParseModules
<1>6. ASSUME DeviceStep, ~StartSystemServer
      PROVE  HeldStarted' /\ (held' = held /\ HeldDead => HeldDead')
  BY <1>2, <1>6 DEF DeviceStep, ZygoteStep, StartZygote, ReadBridge, Connect, GiveUp, WriteModules,
     Fork, Specialize, CollectSocket, Crash, Kill
<1> QED  BY <1>1, <1>3, <1>4, <1>5, <1>6 DEF Next

\* The responsibility for the next death is handed over, never copied or dropped.
LEMMA OneWatcherStep ==
  ASSUME TypeOK, OneWatcher, HeldStarted, [Next]_vars
  PROVE  OneWatcher'
<1> USE DEF OneWatcher, Waiting, Posted, Once, Messages
<1>d. held' = held /\ HeldDead => HeldDead'
  BY DeadStaysDead
<1>0. queue \in Seq(Messages) /\ faults \in Nat
  BY BoundsAssumption DEF TypeOK, ThreadTypes, DeviceTypes
<1>1. CASE UNCHANGED vars  BY <1>1, <1>d
<1>2. CASE TakeStartWait
  <2>1. /\ main' = "wait" /\ main = "idle" /\ UNCHANGED <<linked, binder, faults>>
        /\ queue # <<>> /\ Head(queue) = "startWait" /\ queue' = Tail(queue)
    BY <1>2 DEF TakeStartWait
  <2>2. Posted("startWait")  BY <1>0, <2>1, TakeMessage
  <2>3. ~Posted("startWait")'  BY <1>0, <2>1, TakeMessage
  <2> QED  BY <2>1, <2>2, <2>3
<1>3. CASE RestartZygote
  <2>1. /\ UNCHANGED <<main, linked, binder, faults, held>>
        /\ queue # <<>> /\ Head(queue) = "restart" /\ queue' = Tail(queue)
    BY <1>3 DEF RestartZygote
  <2>2. Posted("startWait")' <=> Posted("startWait")  BY <1>0, <2>1, TakeKeepsOthers
  <2>3. Once("startWait")'  BY <1>0, <2>1, TakeMessage
  <2> QED  BY <1>d, <2>1, <2>2, <2>3
<1>4. CASE WaitForSystemService  BY <1>4 DEF WaitForSystemService
<1>5. CASE LinkToDeath
  <2>1. ~Posted("startWait") /\ ~linked /\ binder = "idle"
    BY <1>5 DEF LinkToDeath
  <2> QED  BY <1>0, <1>d, <1>5, <2>1 DEF LinkToDeath
<1>6. ASSUME EnterMonitor \/ ScanDone \/ LoadResetBridge \/ StopServer \/ WriteLoadedStatus
             \/ \E p \in scan : ScanProcess(p)
      PROVE  OneWatcher'
  <2>1. /\ UNCHANGED <<queue, linked, binder, held>> /\ faults' \in {faults, faults + 1}
        /\ main \notin {"wait", "link"} /\ main' \notin {"wait", "link"}
    BY <1>6 DEF EnterMonitor, ScanDone, LoadResetBridge, StopServer, WriteLoadedStatus,
                ScanProcess
  <2> QED  BY <1>0, <1>d, <2>1
<1>7. CASE OnRiruNotLoaded
  <2>1. /\ UNCHANGED <<linked, binder, faults, held>>
        /\ main = "notLoaded" /\ main' = "idle"
        /\ queue' = queue \/ queue' = Append(queue, "restart")
    BY <1>7 DEF OnRiruNotLoaded
  <2>2. Posted("startWait")' <=> Posted("startWait")
    <3>1. CASE queue' = queue  BY <3>1
    <3>2. CASE queue' = Append(queue, "restart")  BY <1>0, <3>2, PostAdds
    <3> QED  BY <2>1, <3>1, <3>2
  <2>3. Once("startWait")'
    <3>1. CASE queue' = queue  BY <3>1
    <3>2. CASE queue' = Append(queue, "restart")
      <4>1. /\ Len(queue') = Len(queue) + 1 /\ Len(queue) \in Nat /\ queue'[Len(queue) + 1] = "restart"
            /\ \A i \in 1..Len(queue) : queue'[i] = queue[i]
        BY <1>0, <3>2, PostMessage
      <4>2. \A i \in 1..Len(queue') : queue'[i] = "startWait" => i \in 1..Len(queue)
        BY ONLY <4>1
      <4> QED  BY <4>1, <4>2
    <3> QED  BY <2>1, <3>1, <3>2
  <2> QED  BY <1>d, <2>1, <2>2, <2>3
<1>8. CASE BinderDied  BY <1>8 DEF BinderDied
<1>9. ASSUME ClearModules \/ DeathResetBridge \/ BinderEnterMonitor \/ RestartServerCheck
             \/ RestartServerSignal
      PROVE  OneWatcher'
  <2>1. /\ UNCHANGED <<queue, linked, main, faults>>
        /\ binder # "idle" /\ binder' # "idle"
    BY <1>9 DEF ClearModules, DeathResetBridge, BinderEnterMonitor, RestartServerCheck,
                RestartServerSignal
  <2> QED  BY <2>1
<1>10. CASE PostStartWait
  <2>1. /\ UNCHANGED <<linked, main, faults>> /\ binder = "post" /\ binder' = "idle"
        /\ queue' = Append(queue, "startWait")
    BY <1>10 DEF PostStartWait
  <2>2. ~Waiting /\ ~linked  BY <2>1
  <2>3. Posted("startWait")'  BY <1>0, <2>1, PostMessage
  <2>4. Once("startWait")'  BY <1>0, <2>1, <2>2, PostMessage
  <2> QED  BY <2>1, <2>2, <2>3, <2>4
<1>11. CASE ServerStep \/ WorkerStep \/ DeviceStep
  <2>1. held' = held
    BY <1>11 DEF ServerStep, StartServer, Accept, AcceptFails, NewLatch, AwaitLatch, WorkerStep,
       RecordLoadedProcess, ParseModules, DeviceStep, ZygoteStep, StartZygote, ReadBridge, Connect,
       GiveUp, WriteModules, Fork, Specialize, StartSystemServer, CollectSocket, Crash
  <2> QED  BY <1>0, <1>d, <1>11, <2>1, OthersKeepOwnership
<1> QED
  BY <1>1, <1>2, <1>3, <1>4, <1>5, <1>6, <1>7, <1>8, <1>9, <1>10, <1>11
  DEF Next, MainStep, BinderStep

\* A second restart is never posted, and the load that overtakes a pending restart
\* is the last thing main does before it.
LEMMA RestartOnceStep ==
  ASSUME TypeOK, OneWatcher, RestartOnce, [Next]_vars
  PROVE  RestartOnce'
<1> USE DEF RestartOnce, Posted, Once, Messages
<1>0. queue \in Seq(Messages)
  BY DEF TypeOK, ThreadTypes
<1>1. CASE UNCHANGED vars  BY <1>1
<1>2. CASE TakeStartWait
  <2>1. /\ main' = "wait" /\ main = "idle" /\ UNCHANGED allowRestart
        /\ queue # <<>> /\ Head(queue) = "startWait" /\ queue' = Tail(queue)
    BY <1>2 DEF TakeStartWait
  <2>2. Once("restart")'  BY <1>0, <2>1, TakeMessage
  <2>3. Posted("restart")' => Posted("restart")  BY <1>0, <2>1, TakeMessage
  <2>4. Posted("restart") => ~allowRestart  BY <2>1
  <2>5. Posted("restart")' => Head(queue)' = "restart"
    <3>1. SUFFICES ASSUME Posted("restart")' PROVE Head(queue)' = "restart"
      OBVIOUS
    <3>2. queue' # <<>> /\ queue' \in Seq(Messages)  BY <1>0, <2>1, <3>1, TakeMessage
    <3>3. queue'[1] = queue[2] /\ 2 \in 1..Len(queue) /\ 1 \in 1..Len(queue)
      BY <1>0, <2>1, <3>2, TakeMessage
    <3>4. queue[1] = "startWait"  BY <1>0, <2>1, TakeMessage
    <3>5. queue[2] # "startWait"  BY <3>3, <3>4 DEF OneWatcher
    <3>6. queue[2] \in Messages  BY <1>0, <3>3
    <3> QED  BY <3>2, <3>3, <3>5, <3>6, TakeMessage
  <2> QED  BY <2>1, <2>2, <2>3, <2>4, <2>5
<1>3. CASE RestartZygote
  <2>1. /\ queue # <<>> /\ Head(queue) = "restart" /\ queue' = Tail(queue)
    BY <1>3 DEF RestartZygote
  <2>2. ~Posted("restart")'
    BY <1>0, <2>1, TakeMessage
  <2> QED  BY <2>2
<1>4. ASSUME WaitForSystemService \/ LinkToDeath \/ EnterMonitor \/ ScanDone
             \/ \E p \in scan : ScanProcess(p)
      PROVE  RestartOnce'
  <2>1. /\ UNCHANGED <<queue, allowRestart>>
        /\ main \notin {"idle", "stop", "status"}
    BY <1>4 DEF WaitForSystemService, LinkToDeath, EnterMonitor, ScanDone, ScanProcess
  <2> QED  BY <2>1
<1>5. CASE OnRiruNotLoaded
  <2>1. /\ main = "notLoaded" /\ main' = "idle" /\ ~allowRestart'
    BY <1>5 DEF OnRiruNotLoaded
  <2>2. CASE queue' = queue  BY <2>1, <2>2
  <2>3. CASE allowRestart /\ queue' = Append(queue, "restart")
    <3>1. ~Posted("restart")  BY <2>1, <2>3
    <3>2. Once("restart")'  BY <1>0, <2>3, <3>1, PostMessage
    <3> QED  BY <2>1, <3>2
  <2> QED  BY <1>5, <2>2, <2>3 DEF OnRiruNotLoaded
<1>6. CASE LoadResetBridge
  <2>1. UNCHANGED queue /\ main = "load" /\ main' = "stop"
    BY <1>6 DEF LoadResetBridge
  <2> QED  BY <2>1
<1>7. CASE StopServer \/ WriteLoadedStatus
  <2>1. /\ UNCHANGED <<queue, allowRestart>>
        /\ main \in {"stop", "status"} /\ main' \in {"status", "idle"}
    BY <1>7 DEF StopServer, WriteLoadedStatus
  <2> QED  BY <2>1
<1>8. ASSUME BinderDied \/ ClearModules \/ DeathResetBridge \/ BinderEnterMonitor
             \/ RestartServerCheck \/ RestartServerSignal
             \/ ServerStep \/ WorkerStep \/ DeviceStep
      PROVE  RestartOnce'
  <2>1. UNCHANGED <<queue, main, allowRestart>>
    BY <1>8, OthersKeepOwnership
    DEF BinderDied, ClearModules, DeathResetBridge, BinderEnterMonitor,
        RestartServerCheck, RestartServerSignal
  <2> QED  BY <2>1
<1>9. CASE PostStartWait
  <2>1. /\ UNCHANGED <<main, allowRestart>> /\ queue' = Append(queue, "startWait")
    BY <1>9 DEF PostStartWait
  <2>2. Posted("restart")' <=> Posted("restart")  BY <1>0, <2>1, PostMessage
  <2>3. Once("restart")'  BY <1>0, <2>1, PostMessage
  <2>4. Posted("restart") => Head(queue)' = Head(queue)
    <3>1. SUFFICES ASSUME Posted("restart") PROVE Head(queue)' = Head(queue)
      OBVIOUS
    <3>2. queue # <<>> /\ 1 \in 1..Len(queue)  BY <1>0, <3>1
    <3>3. queue' \in Seq(Messages) /\ queue' # <<>> /\ queue'[1] = queue[1]
      BY <1>0, <2>1, <3>2, PostMessage
    <3> QED  BY <1>0, <3>2, <3>3, TakeMessage
  <2> QED  BY <2>1, <2>2, <2>3, <2>4
<1> QED
  BY <1>1, <1>2, <1>3, <1>4, <1>5, <1>6, <1>7, <1>8, <1>9 DEF Next, MainStep, BinderStep

\* Where no call fails the thread only waits with the field cleared, and no socket leaks.
SocketKept == faults = 0 => serverSocket # "leaked" /\ (serverSocket = "open" => server = "accept")

\* Only a call that fails, which is counted, leaves a socket behind.
LEMMA SocketKeptStep ==
  ASSUME TypeOK, SocketKept, [Next]_vars
  PROVE  SocketKept'
<1> USE DEF SocketKept
<1>0. faults \in Nat
  BY BoundsAssumption DEF TypeOK, DeviceTypes
<1>1. CASE UNCHANGED vars  BY <1>1
<1>2. CASE MainStep
  <2>1. /\ UNCHANGED server
        /\ \/ serverSocket' \in {serverSocket, "null"} /\ faults' \in {faults, faults + 1}
           \/ faults' = faults + 1
    BY <1>2 DEF MainStep, TakeStartWait, RestartZygote, WaitForSystemService, LinkToDeath,
                EnterMonitor, ScanProcess, ScanDone, OnRiruNotLoaded, LoadResetBridge,
                StopServer, WriteLoadedStatus
  <2> QED  BY <1>0, <2>1
<1>3. CASE BinderStep \/ WorkerStep
  BY <1>3 DEF BinderStep, BinderDied, ClearModules, DeathResetBridge, BinderEnterMonitor,
              RestartServerCheck, RestartServerSignal, PostStartWait,
              WorkerStep, RecordLoadedProcess, ParseModules
<1>4. CASE ServerStep
  BY <1>0, <1>4 DEF ServerStep, StartServer, Accept, AcceptFails, NewLatch, AwaitLatch
<1>5. CASE DeviceStep
  BY <1>5 DEF DeviceStep, ZygoteStep, StartZygote, ReadBridge, Connect, GiveUp,
              WriteModules, Fork, Specialize, StartSystemServer, CollectSocket, Crash
<1> QED  BY <1>1, <1>2, <1>3, <1>4, <1>5 DEF Next

\* The inductive invariant: the restart argument needs that only one startWait is
\* ever queued, and the watcher that was lost that its system server stays dead, so the
\* parts are carried together.
IInv == TypeOK /\ OneWatcher /\ RestartOnce /\ HeldStarted /\ SocketKept

\* The ownership invariants and the types hold together in every behaviour.
LEMMA InductiveInvariant == Spec => []IInv
<1>1. Init => IInv
  <2> SUFFICES ASSUME Init PROVE IInv
    OBVIOUS
  <2>1. Len(queue) = 1 /\ queue[1] = "startWait"  BY DEF Init
  <2>2. OneWatcher  BY <2>1 DEF Init, OneWatcher, Waiting, Posted, Once
  <2>3. RestartOnce  BY <2>1 DEF Init, RestartOnce, Posted, Once
  <2>4. HeldStarted /\ SocketKept  BY DEF Init, HeldStarted, SocketKept
  <2> QED  BY <2>2, <2>3, <2>4, InitTypes DEF IInv
<1>2. IInv /\ [Next]_vars => IInv'
  BY TypeStep, OneWatcherStep, DeadStaysDead, RestartOnceStep, SocketKeptStep DEF IInv
<1> QED  BY <1>1, <1>2, PTL DEF Spec

\* In every behaviour exactly one of startWait, the death recipient and binderDied is
\* responsible for the next death of the system server, for any number of zygotes,
\* deaths and restarts; only a linkToDeath that throws can lose it, for a system server
\* that is dead.
THEOREM OneWatcherAlways == Spec => []OneWatcher
<1>1. IInv => OneWatcher  BY DEF IInv
<1> QED  BY <1>1, InductiveInvariant, PTL

\* The daemon never has two restarts of zygote pending.
THEOREM RestartOnceAlways == Spec => []RestartOnce
<1>1. IInv => RestartOnce  BY DEF IInv
<1> QED  BY <1>1, InductiveInvariant, PTL

-----------------------------------------------------------------------------
(* The daemon implements ZygoteWatch. *)

\* The steps that matter to ZygoteWatch are its actions, all others stutter.
LEMMA StepImplements ==
  ASSUME IInv, [Next]_vars
  PROVE  [Abstract!WatchNext]_(Abstract!watchVars)
<1> USE DEF Abstract!WatchNext, Abstract!watchVars
<1> DEFINE same == UNCHANGED <<Phase, allowRestart, Posted("restart")>>
<1>a. same => [Abstract!WatchNext]_(Abstract!watchVars)
  OBVIOUS
<1>b. queue \in Seq(Messages) /\ TypeOK /\ OneWatcher /\ RestartOnce /\ HeldStarted
  BY DEF IInv, TypeOK, ThreadTypes
<1>c. OneWatcher'
  BY <1>b, OneWatcherStep
<1>1. CASE UNCHANGED vars
  BY <1>1, <1>a DEF Phase, Waiting, Posted
<1>2. CASE TakeStartWait
  <2>1. /\ main' = "wait" /\ main = "idle" /\ UNCHANGED <<linked, binder, allowRestart>>
        /\ queue # <<>> /\ Head(queue) = "startWait" /\ queue' = Tail(queue)
    BY <1>2 DEF TakeStartWait
  <2>2. Posted("startWait")  BY <1>b, <2>1, TakeMessage DEF Posted, Messages
  <2>3. Posted("restart")' <=> Posted("restart")
    BY <1>b, <2>1, TakeKeepsOthers DEF Posted, Messages
  <2>4. Phase = "waiting"  BY <2>2 DEF Phase, Waiting
  <2>5. Phase' = "waiting"  BY <2>1 DEF Phase, Waiting
  <2>6. Posted("restart")' = Posted("restart")  BY <2>3 DEF Posted
  <2> QED  BY <1>a, <2>1, <2>4, <2>5, <2>6
<1>3. CASE RestartZygote
  <2>1. /\ UNCHANGED <<main, linked, binder, allowRestart>>
        /\ queue # <<>> /\ Head(queue) = "restart" /\ queue' = Tail(queue)
    BY <1>3 DEF RestartZygote
  <2>2. Posted("startWait")' <=> Posted("startWait")
    BY <1>b, <2>1, TakeKeepsOthers DEF Posted, Messages
  <2>3. Posted("restart") /\ ~Posted("restart")'
    BY <1>b, <2>1, TakeMessage DEF Posted, Messages, RestartOnce, Once
  <2>4. UNCHANGED Phase  BY <2>1, <2>2 DEF Phase, Waiting
  <2> QED  BY <2>1, <2>3, <2>4 DEF Abstract!Restart
<1>4. CASE WaitForSystemService
  BY <1>4, <1>a DEF WaitForSystemService, Phase, Waiting, Posted
<1>5. CASE LinkToDeath
  <2>1. /\ main = "link" /\ main' = "lock" /\ UNCHANGED <<queue, binder, allowRestart>>
    BY <1>5 DEF LinkToDeath
  <2>2. Phase = "waiting" /\ ~Posted("startWait") /\ binder = "idle"
    BY <1>b, <2>1 DEF Phase, Waiting, OneWatcher
  <2>3. Phase' = "watching" \/ Phase' = "lost"
    BY <2>1, <2>2 DEF Phase, Waiting, Posted
  <2>4. UNCHANGED Posted("restart")  BY <2>1 DEF Posted
  <2> QED  BY <2>1, <2>2, <2>3, <2>4 DEF Abstract!Watch, Abstract!Lose, Abstract!Move
<1>6. ASSUME EnterMonitor \/ ScanDone \/ StopServer \/ WriteLoadedStatus
             \/ \E p \in scan : ScanProcess(p)
      PROVE  same
  <2>1. /\ UNCHANGED <<queue, linked, binder, allowRestart>>
        /\ main \notin {"wait", "link"} /\ main' \notin {"wait", "link"}
    BY <1>6 DEF EnterMonitor, ScanDone, StopServer, WriteLoadedStatus, ScanProcess
  <2> QED  BY <2>1 DEF Phase, Waiting, Posted
<1>7. CASE OnRiruNotLoaded
  <2>1. /\ UNCHANGED <<linked, binder>> /\ main = "notLoaded" /\ main' = "idle"
        /\ ~allowRestart'
    BY <1>7 DEF OnRiruNotLoaded
  <2>2. CASE ~allowRestart /\ queue' = queue
    <3>1. UNCHANGED allowRestart  BY <1>7, <1>b, <2>2 DEF OnRiruNotLoaded, TypeOK, FlagTypes
    <3>2. UNCHANGED <<Phase, Posted("restart")>>
      BY <2>1, <2>2 DEF Phase, Waiting, Posted
    <3> QED  BY <1>a, <3>1, <3>2
  <2>3. CASE allowRestart /\ queue' = Append(queue, "restart")
    <3>1. ~Posted("restart")  BY <1>b, <2>1, <2>3 DEF RestartOnce
    <3>2. Posted("restart")'  BY <1>b, <2>3, PostMessage DEF Posted, Messages
    <3>3. Posted("startWait")' <=> Posted("startWait")
      BY <1>b, <2>3, PostMessage DEF Posted, Messages
    <3>4. UNCHANGED Phase  BY <2>1, <3>3 DEF Phase, Waiting
    <3>5. allowRestart' = FALSE /\ Posted("restart")' = TRUE
      BY <1>7, <3>2 DEF OnRiruNotLoaded, Posted
    <3> QED  BY <2>3, <3>1, <3>4, <3>5 DEF Abstract!Ask
  <2> QED  BY <1>7, <2>2, <2>3 DEF OnRiruNotLoaded
<1>8. CASE LoadResetBridge
  <2>1. UNCHANGED <<queue, linked, binder>> /\ main = "load" /\ main' = "stop"
        /\ allowRestart' = TRUE
    BY <1>8 DEF LoadResetBridge
  <2> QED  BY <2>1 DEF Abstract!Load, Phase, Waiting, Posted
<1>9. CASE BinderDied
  <2>1. /\ UNCHANGED <<queue, main, allowRestart>> /\ linked /\ ~linked'
        /\ binder' = "modules"
    BY <1>9 DEF BinderDied
  <2>2. ~Waiting  BY <1>b, <2>1 DEF OneWatcher
  <2>3. Phase = "watching" /\ Phase' = "recovering" /\ UNCHANGED Posted("restart")
    BY <2>1, <2>2 DEF Phase, Waiting, Posted
  <2> QED  BY <2>1, <2>3 DEF Abstract!Die, Abstract!Move
<1>10. ASSUME ClearModules \/ DeathResetBridge \/ BinderEnterMonitor \/ RestartServerCheck
              \/ RestartServerSignal
       PROVE  same
  <2>1. /\ UNCHANGED <<queue, linked, main, allowRestart>>
        /\ binder # "idle" /\ binder' # "idle"
    BY <1>10 DEF ClearModules, DeathResetBridge, BinderEnterMonitor, RestartServerCheck,
                 RestartServerSignal
  <2> QED  BY <2>1 DEF Phase, Waiting, Posted
<1>11. CASE PostStartWait
  <2>1. /\ UNCHANGED <<linked, main, allowRestart>> /\ binder = "post"
        /\ queue' = Append(queue, "startWait")
    BY <1>11 DEF PostStartWait
  <2>2. ~Waiting /\ ~linked  BY <1>b, <2>1 DEF OneWatcher
  <2>3. Posted("startWait")' /\ (Posted("restart")' <=> Posted("restart"))
    BY <1>b, <2>1, PostMessage DEF Posted, Messages
  <2>4. Phase = "recovering" /\ Phase' = "waiting"
    BY <2>1, <2>2, <2>3 DEF Phase, Waiting
  <2>5. UNCHANGED Posted("restart")  BY <2>3 DEF Posted
  <2> QED  BY <2>1, <2>4, <2>5 DEF Abstract!Recover, Abstract!Move
<1>12. ASSUME ServerStep \/ WorkerStep \/ DeviceStep
       PROVE  same
  <2>1. UNCHANGED <<queue, main, linked, binder, allowRestart>>
    BY <1>12, <1>b, OthersKeepOwnership
  <2> QED  BY <2>1 DEF Phase, Waiting, Posted
<1> QED
  BY <1>a, <1>1, <1>2, <1>3, <1>4, <1>5, <1>6, <1>7, <1>8, <1>9, <1>10, <1>11, <1>12
  DEF Next, MainStep, BinderStep

\* The daemon implements the safety part of ZygoteWatch: whatever the interleaving, the
\* duties of a soft reboot go round in their order and a restart of zygote is asked
\* for at most once between two loads.
THEOREM Implementation == Spec => Abstract!WatchSpec
<1>1. Init => Abstract!WatchInit
  <2> SUFFICES ASSUME Init PROVE Abstract!WatchInit
    OBVIOUS
  <2>1. Len(queue) = 1 /\ queue[1] = "startWait"  BY DEF Init
  <2>2. Posted("startWait") /\ ~Posted("restart")  BY <2>1 DEF Posted
  <2>3. Phase = "waiting"  BY <2>2 DEF Phase, Waiting
  <2>4. Posted("restart") = FALSE  BY <2>2 DEF Posted
  <2> QED  BY <2>3, <2>4 DEF Init, Abstract!WatchInit
<1>2. IInv /\ [Next]_vars => [Abstract!WatchNext]_(Abstract!watchVars)
  BY StepImplements
<1> QED  BY <1>1, <1>2, InductiveInvariant, PTL DEF Spec, Abstract!WatchSpec

-----------------------------------------------------------------------------
(* The status is true. *)

\* Either nothing starts before every zygote is up, or there is only one.
OneBootAtATime == Prompt \/ Zygotes = {Primary}

\* Whatever runs with a system server has booted.
AllUp == serverAlive => \A z \in Zygotes : zygote[z] \in {"riru", "plain"}

\* The system server whose death would be reported lives.
Watched == linked /\ ~HeldDead

\* Every zygote that runs is in S.
RunningIn(S) == \A z \in Zygotes : Running(z) => Pid(z) \in S

\* As long as the system server main waited for lives, no zygote begins or ends, so what
\* the scan found stays true until the status is written and for as long as it is shown.
StatusInv ==
  /\ AllUp /\ held <= serverGen
  /\ Watched /\ main = "scan" => RunningIn(scan \cup loaded)
  /\ Watched /\ main \in {"load", "stop", "status"} => RunningIn(loaded)
  /\ Watched /\ main = "idle" /\ status = "loaded" /\ ~Posted("restart") => RunningIn(loaded)

\* The steps of the main thread keep what the status rests on.
LEMMA MainKeepsStatus == ASSUME IInv, StatusInv, MainStep PROVE StatusInv'
<1> USE DEF StatusInv, AllUp, Watched, HeldDead, RunningIn, Running, Pid
<1>0. queue \in Seq(Messages) /\ TypeOK /\ OneWatcher /\ serverGen \in Nat /\ held \in Nat
  BY DEF IInv, TypeOK, ThreadTypes, DeviceTypes
<1>1. CASE TakeStartWait  BY <1>1 DEF TakeStartWait
<1>2. CASE RestartZygote  BY <1>2 DEF RestartZygote, Kill
<1>3. CASE WaitForSystemService  BY <1>0, <1>3 DEF WaitForSystemService
<1>4. CASE LinkToDeath  BY <1>4 DEF LinkToDeath
<1>5. CASE EnterMonitor
  <2>1. main' = "scan" => \A z \in Zygotes : Running(z) => Pid(z) \in scan'
    BY <1>5 DEF EnterMonitor, ZygoteContext
  <2> QED  BY <1>5, <2>1 DEF EnterMonitor
<1>6. ASSUME NEW p \in scan, ScanProcess(p) PROVE StatusInv'
  <2>1. \A z \in Zygotes : Running(z) => Pid(z) \in ZygoteContext
    BY DEF ZygoteContext
  <2> QED  BY <1>6, <2>1 DEF ScanProcess
<1>7. CASE ScanDone  BY <1>7 DEF ScanDone
<1>8. CASE OnRiruNotLoaded
  <2>1. CASE allowRestart
    <3>1. Posted("restart")'
      <4>1. Append(queue, "restart")[Len(queue) + 1] = "restart" /\ Len(queue') \in Nat
            /\ Len(queue) + 1 \in 1..Len(queue')
        BY <1>0, <1>8, <2>1, PostMessage DEF OnRiruNotLoaded, Messages
      <4> QED  BY <1>8, <2>1, <4>1 DEF OnRiruNotLoaded, Posted
    <3> QED  BY <1>8, <3>1 DEF OnRiruNotLoaded
  <2>2. CASE ~allowRestart  BY <1>8, <2>2 DEF OnRiruNotLoaded
  <2> QED  BY <2>1, <2>2
<1>9. CASE LoadResetBridge  BY <1>9 DEF LoadResetBridge
<1>10. CASE StopServer
  <2>1. zygote \in [Zygotes -> {"off", "boot", "connect", "backlog", "session", "riru", "plain"}]
    BY <1>0 DEF TypeOK, DeviceTypes
  <2>2. \A z \in Zygotes : (Running(z)' <=> Running(z)) /\ Pid(z)' = Pid(z)
                           /\ (zygote[z] \in {"riru", "plain"} => zygote'[z] = zygote[z])
    BY <1>10, <2>1 DEF StopServer, ResetBacklog
  <2> QED  BY <1>10, <2>2 DEF StopServer
<1>11. CASE WriteLoadedStatus  BY <1>11 DEF WriteLoadedStatus
<1> QED  BY <1>1, <1>2, <1>3, <1>4, <1>5, <1>6, <1>7, <1>8, <1>9, <1>10, <1>11 DEF MainStep

\* The other threads of the daemon: the record is cleared only once the system server is dead.
LEMMA ThreadsKeepStatus ==
  ASSUME IInv, StatusInv, BinderStep \/ ServerStep \/ WorkerStep PROVE StatusInv'
<1> USE DEF StatusInv, AllUp, Watched, HeldDead, RunningIn, Running, Pid
<1>0. queue \in Seq(Messages) /\ serverGen \in Nat /\ OneWatcher
  BY DEF IInv, TypeOK, ThreadTypes, DeviceTypes
<1>1. CASE BinderDied  BY <1>0, <1>1 DEF BinderDied
<1>2. CASE ClearModules  BY <1>2 DEF ClearModules, Posted
<1>3. CASE DeathResetBridge \/ BinderEnterMonitor \/ RestartServerCheck \/ RestartServerSignal
  BY <1>3 DEF DeathResetBridge, BinderEnterMonitor, RestartServerCheck, RestartServerSignal, Posted
<1>4. CASE PostStartWait
  <2>1. ~linked'
    BY <1>0, <1>4 DEF PostStartWait, OneWatcher
  <2> QED  BY <1>4, <2>1 DEF PostStartWait
<1>5. CASE ServerStep
  <2>1. ASSUME NEW z \in Zygotes, Accept(z) PROVE StatusInv'
    <3>1. zygote \in [Zygotes -> {"off", "boot", "connect", "backlog", "session", "riru", "plain"}]
      BY DEF IInv, TypeOK, DeviceTypes
    <3> QED  BY <2>1, <3>1 DEF Accept, Posted
  <2>2. ASSUME StartServer \/ AcceptFails \/ NewLatch \/ AwaitLatch PROVE StatusInv'
    BY <2>2 DEF StartServer, AcceptFails, NewLatch, AwaitLatch, Posted
  <2> QED  BY <1>5, <2>1, <2>2 DEF ServerStep
<1>6. CASE WorkerStep
  BY <1>6 DEF WorkerStep, RecordLoadedProcess, ParseModules, Posted
<1> QED  BY <1>1, <1>2, <1>3, <1>4, <1>5, <1>6 DEF BinderStep

\* The device: while a system server lives no zygote starts.
LEMMA DeviceKeepsStatus ==
  ASSUME OneBootAtATime, IInv, StatusInv, DeviceStep PROVE StatusInv'
<1> USE DEF StatusInv, AllUp, Watched, HeldDead, RunningIn, Running, Pid
<1>0. /\ serverGen \in Nat /\ held \in Nat
      /\ zygote \in [Zygotes -> {"off", "boot", "connect", "backlog", "session", "riru", "plain"}]
  BY DEF IInv, TypeOK, ThreadTypes, DeviceTypes
<1>1. ASSUME NEW z \in Zygotes, ZygoteStep(z) PROVE StatusInv'
  <2>1. zygote[z] \notin {"riru", "plain"} /\ serverAlive' = serverAlive /\ held' = held /\ serverGen' = serverGen
    BY <1>1 DEF ZygoteStep, StartZygote, ReadBridge, Connect, GiveUp, WriteModules, Move
  <2> QED  BY <2>1
<1>2. ASSUME NEW z \in Zygotes, Fork(z) \/ Specialize(z) PROVE StatusInv'
  BY <1>2 DEF Fork, Specialize, Posted
<1>3. CASE StartSystemServer
  <2>1. \A z \in Zygotes : zygote[z] \in {"riru", "plain"}
    BY <1>3 DEF StartSystemServer, OneBootAtATime
  <2>2. UNCHANGED <<zygote, held>> /\ serverGen' = serverGen + 1 /\ serverAlive'
    BY <1>3 DEF StartSystemServer
  <2> QED  BY <1>0, <2>1, <2>2
<1>4. ASSUME NEW zs \in SUBSET Zygotes, Crash(zs) PROVE StatusInv'
  BY <1>4 DEF Crash, Kill
<1>5. CASE CollectSocket
  <2>1. \A z \in Zygotes : (Running(z)' <=> Running(z)) /\ Pid(z)' = Pid(z)
                           /\ (zygote[z] \in {"riru", "plain"} => zygote'[z] = zygote[z])
    BY <1>0, <1>5 DEF CollectSocket, ResetBacklog
  <2> QED  BY <1>5, <2>1 DEF CollectSocket, Posted
<1> QED  BY <1>1, <1>2, <1>3, <1>4, <1>5 DEF DeviceStep

\* What the status rests on holds in every behaviour.
LEMMA StatusInvAlways ==
  ASSUME OneBootAtATime PROVE Spec => []StatusInv
<1>1. Init => StatusInv
  BY DEF Init, StatusInv, AllUp, Watched
<1>2. IInv /\ StatusInv /\ [Next]_vars => StatusInv'
  <2> SUFFICES ASSUME IInv, StatusInv, [Next]_vars PROVE StatusInv'
    OBVIOUS
  <2>1. CASE UNCHANGED vars
    BY <2>1 DEF StatusInv, AllUp, Watched, HeldDead, RunningIn, Running, Pid, Posted
  <2> QED  BY <2>1, MainKeepsStatus, ThreadsKeepStatus, DeviceKeepsStatus DEF Next
<1> QED  BY <1>1, <1>2, InductiveInvariant, PTL DEF Spec

\* Where all zygotes come up before the next system server does (a slow device, or one with
\* a single zygote), a quiet daemon that shows "loaded" has every zygote on record, whatever
\* survived, was forked, failed or was restarted before.
THEOREM StatusTruthfulAlways ==
  ASSUME OneBootAtATime PROVE Spec => []StatusTruthful
<1>1. IInv /\ StatusInv => StatusTruthful
  <2> SUFFICES ASSUME IInv, StatusInv, Quiet, status = "loaded" PROVE RunningIn(loaded)
    BY DEF StatusTruthful, RunningIn
  <2>1. queue = <<>> /\ main = "idle" /\ Watched
    BY DEF Quiet, DaemonSettled, Watched
  <2>2. ~Posted("restart")
    BY <2>1 DEF Posted
  <2> QED  BY <2>1, <2>2 DEF StatusInv
<1> QED  BY <1>1, StatusInvAlways, InductiveInvariant, PTL

-----------------------------------------------------------------------------
(* The damage of a failed accept ends with the next load. *)

\* Nothing opens a socket while a system server lives: the server thread had settled before
\* it started, and only binderDied wakes it.  So what StopServer closes stays closed for as
\* long as "loaded" is shown.
ClosedInv ==
  /\ serverAlive =>
       /\ binder = "idle" /\ (linked \/ main = "link" => held = serverGen)
       /\ server \in {"accept", "exited"} \/ (server = "await" /\ latch = "armed")
  /\ Watched /\ main = "status" => serverSocket # "open"
  /\ Watched /\ main = "idle" /\ status = "loaded" /\ ~Posted("restart") => serverSocket # "open"

\* The main thread closes the socket before it shows "loaded".
LEMMA MainKeepsClosed == ASSUME IInv, ClosedInv, MainStep PROVE ClosedInv'
<1> USE DEF ClosedInv, Watched, HeldDead
<1>0. queue \in Seq(Messages) /\ OneWatcher
  BY DEF IInv, TypeOK, ThreadTypes
<1>1. CASE RestartZygote  BY <1>1 DEF RestartZygote, Kill
<1>2. CASE OnRiruNotLoaded
  <2>1. CASE allowRestart
    <3>1. queue' = Append(queue, "restart") /\ "restart" \in Messages
      BY <1>2, <2>1 DEF OnRiruNotLoaded, Messages
    <3>2. Posted("restart")'  BY <1>0, <3>1, PostAdds DEF Posted
    <3> QED  BY <1>2, <3>2 DEF OnRiruNotLoaded
  <2>2. CASE ~allowRestart  BY <1>2, <2>2 DEF OnRiruNotLoaded
  <2> QED  BY <2>1, <2>2
<1>3. CASE WaitForSystemService
  BY <1>0, <1>3 DEF WaitForSystemService, OneWatcher, Waiting
<1>4. CASE TakeStartWait \/ LinkToDeath
  BY <1>4 DEF TakeStartWait, LinkToDeath
<1>5. CASE EnterMonitor \/ ScanDone \/ LoadResetBridge \/ \E p \in scan : ScanProcess(p)
  BY <1>5 DEF EnterMonitor, ScanDone, LoadResetBridge, ScanProcess
<1>6. CASE StopServer \/ WriteLoadedStatus
  BY <1>6 DEF StopServer, WriteLoadedStatus, Posted
<1> QED  BY <1>1, <1>2, <1>3, <1>4, <1>5, <1>6 DEF MainStep

\* No step of the other threads opens a socket while a system server lives.
LEMMA OthersKeepClosed ==
  ASSUME Prompt, IInv, ClosedInv, BinderStep \/ ServerStep \/ WorkerStep \/ DeviceStep
  PROVE  ClosedInv'
<1> USE DEF ClosedInv, Watched, HeldDead
<1>p. ASSUME UNCHANGED queue PROVE Posted("restart")' = Posted("restart")
  BY <1>p DEF Posted
<1>1. CASE BinderStep
  BY <1>1, <1>p DEF BinderStep, BinderDied, ClearModules, DeathResetBridge, BinderEnterMonitor,
     RestartServerCheck, RestartServerSignal, PostStartWait
<1>2. CASE ServerStep
  BY <1>2, <1>p DEF ServerStep, StartServer, Accept, AcceptFails, NewLatch, AwaitLatch
<1>3. CASE WorkerStep
  BY <1>3, <1>p DEF WorkerStep, RecordLoadedProcess, ParseModules
<1>4. CASE StartSystemServer
  BY <1>4, <1>p DEF StartSystemServer, DaemonSettled
<1>5. ASSUME NEW zs \in SUBSET Zygotes, Crash(zs) PROVE ClosedInv'
  BY <1>5 DEF Crash, Kill
<1>6. CASE CollectSocket
  BY <1>6, <1>p DEF CollectSocket
<1>7. ASSUME NEW z \in Zygotes, ZygoteStep(z) \/ Fork(z) \/ Specialize(z) PROVE ClosedInv'
  BY <1>7, <1>p DEF ZygoteStep, StartZygote, ReadBridge, Connect, GiveUp, WriteModules, Fork,
     Specialize
<1> QED  BY <1>1, <1>2, <1>3, <1>4, <1>5, <1>6, <1>7 DEF DeviceStep

\* Whatever bind, accept, shutdown or listing failed before, a quiet daemon that shows
\* "loaded" holds no socket restartServer would take for a live one, where the device boots
\* slower than the daemon reacts.
THEOREM ClosedOnceLoadedAlways ==
  ASSUME Prompt PROVE Spec => []ClosedOnceLoaded
<1>1. Init => ClosedInv
  BY DEF Init, ClosedInv, Watched
<1>2. IInv /\ ClosedInv /\ [Next]_vars => ClosedInv'
  <2> SUFFICES ASSUME IInv, ClosedInv, [Next]_vars PROVE ClosedInv'
    OBVIOUS
  <2>1. CASE UNCHANGED vars
    BY <2>1 DEF ClosedInv, Watched, HeldDead, Posted
  <2> QED  BY <2>1, MainKeepsClosed, OthersKeepClosed DEF Next
<1>3. IInv /\ ClosedInv => ClosedOnceLoaded
  <2> SUFFICES ASSUME IInv, ClosedInv, Quiet, status = "loaded" PROVE serverSocket # "open"
    BY DEF ClosedOnceLoaded
  <2>1. queue = <<>> /\ main = "idle" /\ Watched
    BY DEF Quiet, DaemonSettled, Watched
  <2>2. ~Posted("restart")
    BY <2>1 DEF Posted
  <2> QED  BY <2>1, <2>2 DEF ClosedInv
<1> QED  BY <1>1, <1>2, <1>3, InductiveInvariant, PTL DEF Spec

-----------------------------------------------------------------------------
(* A quiet daemon has Riru in every zygote. *)

\* The device boots slower than the daemon reacts, all zygotes die together, and no call fails.
SlowDevice == Prompt /\ ~Survivors /\ MaxFaults = 0 /\ MaxForks = 0

\* The server thread serves or is about to, or it waits for a signal that will reach it; it
\* does neither between stopServer and the next latch, where a signal is lost.
Up         == \/ server = "accept" /\ serverSocket = "open"
              \/ server = "start"
              \/ server = "await" /\ latch = "open"
Parked     == server = "await" /\ latch = "armed" /\ serverSocket = "null"
Responsive == Up \/ Parked

\* No zygote has read the property since they all died.
Cold == \A z \in Zygotes : zygote[z] \in {"off", "boot"}

\* No process that runs without Riru was ever recorded, and a zygote with Riru is on its way
\* into both records.
Recording ==
  /\ children = {}
  /\ \A p \in sent \cup loaded : /\ p[2] <= incarnation[p[1]]
                                 /\ p[2] = incarnation[p[1]] => zygote[p[1]] \in {"riru", "off"}
  /\ \A z \in Zygotes : zygote[z] = "riru" =>
       /\ Pid(z) \in sent \cup loaded
       /\ Pid(z) \in sent \cup parsing \cup listed

\* While a death is handled nothing gets further than booting.  A system server starts only
\* when the last one is dealt with: the zygotes are on record, the server thread has settled.
Deaths ==
  /\ binder # "idle" \/ ((linked \/ main = "link") /\ HeldDead) => ~serverAlive /\ Cold
  /\ Posted("startWait") => ~serverAlive
  /\ serverAlive =>
       /\ \A z \in Zygotes : zygote[z] = "riru" => Pid(z) \in loaded \cap listed
       /\ server \in {"accept", "exited"} \/ (server = "await" /\ latch = "armed")

\* Without the budget for another restart, the round that follows cannot go wrong: the
\* property names the loader and the server is up when the zygotes come.  This has to hold
\* as soon as main is in a round that may still spend the budget.
Spent == ~allowRestart \/ main \in {"lock", "scan", "notLoaded", "load"}

Rounds ==
  /\ main \in {"stop", "status"} => allowRestart
  /\ Spent \/ main = "link" \/ (main = "wait" /\ serverAlive) => Responsive
  /\ Spent /\ (Waiting \/ binder \in {"lock", "check", "signal", "post"}) => bridge = "loader"
  /\ Spent /\ (Waiting \/ binder = "post") => Up
  /\ Spent /\ Waiting => \A z \in Zygotes :
       /\ zygote[z] # "plain"
       /\ zygote[z] \in {"connect", "backlog"} => server = "accept" /\ serverSocket = "open"
  /\ main \in {"lock", "scan", "notLoaded"} /\ linked /\ ~allowRestart =>
       \A z \in Zygotes : zygote[z] # "plain"

\* What the main thread has done for a system server that still lives.
Outcome ==
  Watched =>
    /\ main = "notLoaded" => allowRestart
    /\ main \in {"stop", "status"} => bridge = "original"
    /\ main = "status" => serverSocket = "null"
    /\ main = "idle" /\ ~Posted("restart") =>
         status = "loaded" /\ serverSocket = "null" /\ bridge = "original"

HealInv == Recording /\ Deaths /\ Rounds /\ Outcome

\* What the proofs below use of the types and of the slow device.
LEMMA HealTypes ==
  ASSUME SlowDevice, IInv
  PROVE  /\ queue \in Seq(Messages) /\ faults = 0 /\ forks = 0 /\ ~(faults < MaxFaults)
         /\ held \in Nat /\ serverGen \in Nat /\ incarnation \in [Zygotes -> Nat]
         /\ zygote \in [Zygotes -> {"off", "boot", "connect", "backlog", "session", "riru", "plain"}]
         /\ sent \subseteq Zygotes \X Nat /\ loaded \subseteq Zygotes \X Nat
         /\ allowRestart \in BOOLEAN /\ linked \in BOOLEAN /\ serverAlive \in BOOLEAN
         /\ main \in {"idle", "wait", "link", "lock", "scan", "notLoaded", "load", "stop", "status"}
         /\ server \in {"start", "accept", "exited", "await"}
         /\ latch \in {"none", "armed", "open"} /\ serverSocket \in {"null", "open"}
         /\ OneWatcher /\ (server # "accept" => serverSocket = "null")
BY DEF SlowDevice, IInv, TypeOK, ThreadTypes, FlagTypes, RecordTypes, DeviceTypes, SocketKept

\* The daemon starts with the budget for a restart.
LEMMA InitHeal == Init => HealInv
<1> SUFFICES ASSUME Init PROVE HealInv
  OBVIOUS
<1>1. Len(queue) = 1 /\ queue[1] = "startWait"
  BY DEF Init
<1> QED  BY <1>1 DEF Init, HealInv, Recording, Deaths, Rounds, Outcome, Spent, Responsive, Up, Parked,
            Cold, Watched, HeldDead, Waiting, Posted

\* The main thread keeps the round that follows safe.
LEMMA MainHeals ==
  ASSUME SlowDevice, IInv, StatusInv, HealInv, MainStep PROVE HealInv'
<1> USE HealTypes DEF HealInv, Deaths, Rounds, Outcome, Spent, Responsive, Up, Parked, Cold, Watched,
        HeldDead, Waiting, OneWatcher
<1>r. ASSUME UNCHANGED <<children, sent, loaded, incarnation, zygote, parsing, listed>>
      PROVE  Recording'
  BY <1>r DEF Recording, Pid
<1>p. ASSUME UNCHANGED queue
      PROVE  \A m : Posted(m)' = Posted(m)
  BY <1>p DEF Posted
<1>1. CASE TakeStartWait
  <2>1. Posted("startWait") /\ ~Posted("startWait")' /\ (Posted("restart")' <=> Posted("restart"))
    BY <1>1, TakeMessage, TakeKeepsOthers DEF TakeStartWait, Posted, Once, Messages
  <2> QED  BY <1>1, <1>r, <2>1 DEF TakeStartWait, Pid
<1>2. CASE RestartZygote
  <2>1. Posted("startWait")' <=> Posted("startWait")
    BY <1>2, TakeKeepsOthers DEF RestartZygote, Posted, Messages
  <2>2. Recording'
    BY <1>2 DEF RestartZygote, Kill, Recording
  <2> QED  BY <1>2, <2>1, <2>2 DEF RestartZygote, Kill
<1>3. CASE WaitForSystemService
  BY <1>3, <1>r, <1>p DEF WaitForSystemService, Pid
<1>4. CASE LinkToDeath
  BY <1>4, <1>r, <1>p DEF LinkToDeath, Pid
<1>5. CASE EnterMonitor
  BY <1>5, <1>r, <1>p DEF EnterMonitor, Pid
<1>6. ASSUME NEW p \in scan, ScanProcess(p) PROVE HealInv'
  <2>1. ASSUME main' = "notLoaded", Watched PROVE allowRestart
    <3>1. p \in ZygoteContext /\ p \notin loaded /\ main = "scan"
      BY <1>6, <2>1 DEF ScanProcess
    <3>2. PICK z \in Zygotes : p = Pid(z) /\ Running(z)
      BY <3>1 DEF ZygoteContext, Recording
    <3>3. zygote[z] \in {"riru", "plain"} /\ serverAlive /\ linked
      BY <2>1, <3>2 DEF StatusInv, AllUp
    <3>4. zygote[z] # "riru"
      BY <3>1, <3>2, <3>3
    <3> QED  BY <3>1, <3>3, <3>4
  <2> QED  BY <1>6, <1>r, <1>p, <2>1 DEF ScanProcess, Pid
<1>7. CASE ScanDone
  BY <1>7, <1>r, <1>p DEF ScanDone, Pid
<1>8. CASE OnRiruNotLoaded
  <2>1. CASE allowRestart
    <3>1. Posted("restart")' /\ (Posted("startWait")' <=> Posted("startWait"))
      <4>1. queue \in Seq(Messages) /\ queue' = Append(queue, "restart")
        BY <1>8, <2>1 DEF OnRiruNotLoaded
      <4>2. "restart" \in Messages  BY DEF Messages
      <4>3. \A x : (\E i \in 1..Len(queue') : queue'[i] = x) <=> x = "restart" \/ (\E i \in 1..Len(queue) : queue[i] = x)
        BY ONLY <4>1, <4>2, PostAdds
      <4> QED  BY <4>3 DEF Posted
    <3> QED  BY <1>8, <1>r, <2>1, <3>1 DEF OnRiruNotLoaded, Pid
  <2>2. CASE ~allowRestart
    BY <1>8, <1>r, <1>p, <2>2 DEF OnRiruNotLoaded, Pid
  <2> QED  BY <2>1, <2>2
<1>9. CASE LoadResetBridge
  BY <1>9, <1>r, <1>p DEF LoadResetBridge, Pid
<1>10. CASE StopServer
  <2>1. Recording'
    BY <1>10 DEF StopServer, ResetBacklog, Recording, Pid
  <2> QED  BY <1>10, <1>p, <2>1 DEF StopServer, ResetBacklog, Pid
<1>11. CASE WriteLoadedStatus
  BY <1>11, <1>r, <1>p DEF WriteLoadedStatus, Pid
<1> QED  BY <1>1, <1>2, <1>3, <1>4, <1>5, <1>6, <1>7, <1>8, <1>9, <1>10, <1>11 DEF MainStep

\* binderDied sets the property and wakes the server before it posts the next startWait.
LEMMA BinderHeals ==
  ASSUME SlowDevice, IInv, StatusInv, HealInv, BinderStep PROVE HealInv'
<1> USE HealTypes DEF HealInv, Deaths, Rounds, Outcome, Spent, Responsive, Up, Parked, Cold, Watched,
        HeldDead, Waiting, OneWatcher
<1>p. ASSUME UNCHANGED queue
      PROVE  \A m : Posted(m)' = Posted(m)
  BY <1>p DEF Posted
<1>1. CASE BinderDied
  BY <1>1, <1>p DEF BinderDied, Recording, Pid
<1>2. CASE ClearModules
  BY <1>2, <1>p DEF ClearModules, Recording, Pid
<1>3. CASE DeathResetBridge
  BY <1>3, <1>p DEF DeathResetBridge, Recording, Pid
<1>4. CASE BinderEnterMonitor
  BY <1>4, <1>p DEF BinderEnterMonitor, Recording, Pid
<1>5. CASE RestartServerCheck
  BY <1>5, <1>p DEF RestartServerCheck, Recording, Pid
<1>6. CASE RestartServerSignal
  BY <1>6, <1>p DEF RestartServerSignal, Recording, Pid
<1>7. CASE PostStartWait
  <2>1. Posted("startWait")' /\ (Posted("restart")' <=> Posted("restart"))
    <3>1. queue \in Seq(Messages) /\ queue' = Append(queue, "startWait")
      BY <1>7 DEF PostStartWait
    <3> QED  BY <3>1, PostAdds DEF Posted, Messages
  <2> QED  BY <1>7, <2>1 DEF PostStartWait, Recording, Pid
<1> QED  BY <1>1, <1>2, <1>3, <1>4, <1>5, <1>6, <1>7 DEF BinderStep

\* The server and the pool threads: what is coming up comes up, what is recorded stays.
LEMMA ServerHeals ==
  ASSUME SlowDevice, IInv, StatusInv, HealInv, ServerStep \/ WorkerStep PROVE HealInv'
<1> USE HealTypes DEF HealInv, Deaths, Rounds, Outcome, Spent, Responsive, Up, Parked, Cold, Watched,
        HeldDead, Waiting, OneWatcher, Posted
<1>1. CASE StartServer
  BY <1>1 DEF StartServer, Recording, Pid
<1>2. ASSUME NEW z \in Zygotes, Accept(z) PROVE HealInv'
  BY <1>2 DEF Accept, Recording, Pid
<1>3. CASE AcceptFails
  BY <1>3 DEF AcceptFails, Recording, Pid
<1>4. CASE NewLatch
  BY <1>4 DEF NewLatch, Recording, Pid
<1>5. CASE AwaitLatch
  BY <1>5 DEF AwaitLatch, Recording, Pid
<1>6. ASSUME NEW p \in sent, RecordLoadedProcess(p) PROVE HealInv'
  BY <1>6 DEF RecordLoadedProcess, Recording, Pid
<1>7. ASSUME NEW p \in parsing, ParseModules(p) PROVE HealInv'
  BY <1>7 DEF ParseModules, Recording, Pid
<1> QED  BY <1>1, <1>2, <1>3, <1>4, <1>5, <1>6, <1>7 DEF ServerStep, WorkerStep

\* The device waits until the daemon has settled; then the server is up, or the budget is there.
LEMMA DeviceHeals ==
  ASSUME SlowDevice, IInv, StatusInv, HealInv, DeviceStep PROVE HealInv'
<1> USE HealTypes DEF HealInv, Deaths, Rounds, Outcome, Spent, Responsive, Up, Parked, Cold, Watched,
        HeldDead, Waiting, OneWatcher, Posted
<1>1. ASSUME NEW z \in Zygotes, StartZygote(z) PROVE HealInv'
  BY <1>1 DEF StartZygote, Move, Recording, Pid
<1>2. ASSUME NEW z \in Zygotes, ReadBridge(z) PROVE HealInv'
  BY <1>2 DEF ReadBridge, SlowDevice, DaemonSettled, Move, Recording, Pid
<1>3. ASSUME NEW z \in Zygotes, Connect(z) PROVE HealInv'
  BY <1>3 DEF Connect, Move, Recording, Pid
<1>4. ASSUME NEW z \in Zygotes, GiveUp(z) PROVE HealInv'
  <2>1. ~serverAlive
    BY <1>4 DEF GiveUp, Move, StatusInv, AllUp
  <2> QED  BY <1>4, <2>1 DEF GiveUp, Move, Recording, Pid
<1>5. ASSUME NEW z \in Zygotes, WriteModules(z) PROVE HealInv'
  <2>1. ~serverAlive
    BY <1>5 DEF WriteModules, Move, StatusInv, AllUp
  <2> QED  BY <1>5, <2>1 DEF WriteModules, Move, Recording, Pid
<1>6. ASSUME NEW z \in Zygotes PROVE ~Fork(z) /\ ~Specialize(z)
  BY DEF Fork, Specialize, SlowDevice, Recording
<1>7. CASE StartSystemServer
  BY <1>7 DEF StartSystemServer, SlowDevice, DaemonSettled, StatusInv, Recording, Pid
<1>8. ASSUME NEW zs \in SUBSET Zygotes, Crash(zs) PROVE HealInv'
  <2>1. zs = Zygotes
    BY <1>8 DEF Crash, SlowDevice
  <2> QED  BY <1>8, <2>1 DEF Crash, Kill, Recording, Pid
<1>9. ~CollectSocket
  BY DEF CollectSocket
<1> QED  BY <1>1, <1>2, <1>3, <1>4, <1>5, <1>6, <1>7, <1>8, <1>9 DEF DeviceStep, ZygoteStep

\* The strengthened invariant of a slow device.
LEMMA HealInvAlways ==
  ASSUME SlowDevice PROVE Spec => [](IInv /\ StatusInv /\ HealInv)
<1>1. IInv /\ StatusInv /\ HealInv /\ [Next]_vars => HealInv'
  <2> SUFFICES ASSUME IInv, StatusInv, HealInv, [Next]_vars PROVE HealInv'
    OBVIOUS
  <2>1. CASE UNCHANGED vars
    BY <2>1 DEF HealInv, Recording, Deaths, Rounds, Outcome, Spent, Responsive, Up, Parked, Cold,
       Watched, HeldDead, Waiting, Posted, Pid
  <2> QED  BY <2>1, MainHeals, BinderHeals, ServerHeals, DeviceHeals DEF Next
<1>2. Spec => []StatusInv
  BY StatusInvAlways DEF SlowDevice, OneBootAtATime
<1> QED  BY <1>1, <1>2, InitHeal, InductiveInvariant, PTL DEF Spec

\* On a device that boots slower than the daemon reacts, a quiet daemon has Riru and its
\* modules in every zygote, through any number of soft reboots: a stale load, a lost signal
\* and a stale restart each leave the budget for the restart that repairs them.
THEOREM QuietIsLoadedAlways ==
  ASSUME SlowDevice PROVE Spec => []QuietIsLoaded
<1>1. IInv /\ StatusInv /\ HealInv => QuietIsLoaded
  <2> SUFFICES ASSUME IInv, StatusInv, HealInv, Quiet
               PROVE  /\ status = "loaded" /\ serverSocket = "null" /\ bridge = "original"
                      /\ \A z \in Zygotes : Pid(z) \in loaded \cap listed
    BY DEF QuietIsLoaded
  <2>1. queue = <<>> /\ main = "idle" /\ Watched /\ serverAlive
    BY DEF Quiet, DaemonSettled, Watched
  <2>2. ~Posted("restart")
    BY <2>1 DEF Posted
  <2>3. status = "loaded" /\ serverSocket = "null" /\ bridge = "original"
    BY <2>1, <2>2 DEF HealInv, Outcome
  <2>4. ASSUME NEW z \in Zygotes PROVE Pid(z) \in loaded \cap listed
    <3>1. zygote[z] \in {"riru", "plain"}
      BY <2>1 DEF StatusInv, AllUp
    <3>2. Pid(z) \in loaded
      BY <2>1, <2>2, <2>3, <3>1 DEF StatusInv, RunningIn, Running
    <3>3. zygote[z] = "riru"
      BY <3>1, <3>2 DEF HealInv, Recording, Pid
    <3> QED  BY <2>1, <3>3 DEF HealInv, Deaths
  <2> QED  BY <2>3, <2>4
<1> QED  BY <1>1, HealInvAlways, PTL
=============================================================================
