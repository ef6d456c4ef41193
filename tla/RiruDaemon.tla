----------------------------- MODULE RiruDaemon -----------------------------
(***************************************************************************)
(* The life cycle of rirud (Daemon.java and the server loop of             *)
(* DaemonSocketServerThread.java) against the processes it watches.        *)
(*                                                                         *)
(* Three threads of the daemon interleave:                                 *)
(*   main    the Looper thread: startWait, onRiruLoad, onRiruNotLoaded     *)
(*   binder  the binder thread that delivers binderDied                    *)
(*   server  DaemonSocketServerThread.run                                  *)
(* main and binder serialise on the monitor of serverThread (lock); the    *)
(* server thread writes serverSocket and countDownLatch WITHOUT that       *)
(* monitor.  The pool thread that handles WRITE_STATUS is the pair of      *)
(* actions RecordLoadedProcess and ParseModules.                           *)
(*                                                                         *)
(* The environment is init, the zygotes and the system server: zygotes     *)
(* start, read the native bridge property, dlopen the loader if the        *)
(* property names it, talk to the daemon, and die in soft reboots.         *)
(***************************************************************************)
EXTENDS Naturals, Sequences, FiniteSets

CONSTANTS
  Zygotes,        \* zygote services of the device: one per ABI
  Primary,        \* the zygote that forks the system server
  MaxCrashes,     \* bound: soft reboots not asked for by the daemon
  MaxFaults,      \* bound: bind, accept, shutdown and linkToDeath calls that throw,
                  \* and listings of /proc that fail
  MaxForks,       \* bound: forked children seen before they leave zygote's context
  Survivors,      \* a soft reboot may leave a zygote other than the primary alive
  Prompt          \* the device boots slower than the daemon reacts (DaemonSettled)

ASSUME ZygotesAssumption == Primary \in Zygotes /\ IsFiniteSet(Zygotes)
ASSUME BoundsAssumption ==
  /\ MaxCrashes \in Nat /\ MaxFaults \in Nat /\ MaxForks \in Nat
  /\ Survivors \in BOOLEAN /\ Prompt \in BOOLEAN

VARIABLES
  main, binder, server,   \* what each thread does next
  lock,                   \* owner of the monitor of serverThread
  queue,                  \* messages posted to the Handler of main
  allowRestart,           \* Daemon.allowRestart
  held,                   \* incarnation of the system server startWait waited for
  linked,                 \* this Daemon is the death recipient of that binder
  scan,                   \* processes isLoaded has still to look at
  serverSocket,           \* DaemonSocketServerThread.serverSocket: null, or a socket that is
                          \* open; leaked if it is null and its socket was not closed
  latch,                  \* countDownLatch: not created, armed (1) or open (0)
  bridge,                 \* property ro.dalvik.vm.native.bridge
  loaded,                 \* DaemonUtils.zygotePid
  listed,                 \* processes whose modules are in DaemonUtils.loadedModules
  status,                 \* last status written to module.prop
  sent, parsing,          \* WRITE_STATUS requests not yet recorded / parsed
  zygote, incarnation,    \* state and incarnation (the pid) of each zygote
  children,               \* zygotes with a forked child still in their context
  serverGen, serverAlive, \* system server: incarnation, and whether it lives
  crashes, faults, forks  \* how much of each bound is used

threadVars == <<main, binder, server, lock, queue, allowRestart, held, linked, scan,
                serverSocket, latch, status>>
workerVars == <<loaded, listed, sent, parsing>>
deviceVars == <<zygote, incarnation, children, serverGen, serverAlive>>
bounds     == <<crashes, faults, forks>>
vars == <<threadVars, bridge, workerVars, deviceVars, bounds>>

-----------------------------------------------------------------------------
Pid(z)   == <<z, incarnation[z]>>
Child(z) == <<z, 0>>      \* no zygote has incarnation 0: a child is never recorded
Running(z) == zygote[z] # "off"

\* The processes in /proc whose SELinux context is u:r:zygote:s0.
ZygoteContext ==
  {Pid(z) : z \in {y \in Zygotes : Running(y)}} \cup {Child(z) : z \in children}

\* The binder main holds belongs to a system server that no longer runs.
HeldDead == ~serverAlive \/ serverGen # held

\* Every thread of the daemon is blocked: nothing is left of the last event.
DaemonSettled ==
  /\ main = "wait" \/ (main = "idle" /\ queue = <<>>)
  /\ binder = "idle" /\ ~(linked /\ HeldDead)
  /\ IF server = "accept" THEN serverSocket # "null" ELSE server = "await" /\ latch = "armed"
  /\ sent = {} /\ parsing = {}

Messages == {"startWait", "restart"}   \* what is posted to the Handler

ThreadTypes ==
  /\ main \in {"idle", "wait", "link", "lock", "scan", "notLoaded", "load", "stop", "status"}
  /\ binder \in {"idle", "modules", "bridge", "lock", "check", "signal", "post"}
  /\ server \in {"start", "accept", "exited", "await"}
  /\ lock \in {"none", "main", "binder"}
  /\ queue \in Seq(Messages)
  /\ held \in Nat
  /\ serverSocket \in {"null", "open", "leaked"}
  /\ latch \in {"none", "armed", "open"}
  /\ bridge \in {"original", "loader"}
  /\ status \in {"app_process", "zygote_dead", "loaded", "not_loaded"}

RecordTypes ==
  /\ scan \subseteq Zygotes \X Nat
  /\ loaded \subseteq Zygotes \X Nat /\ listed \subseteq Zygotes \X Nat
  /\ sent \subseteq Zygotes \X Nat /\ parsing \subseteq Zygotes \X Nat

DeviceTypes ==
  /\ zygote \in [Zygotes -> {"off", "boot", "connect", "backlog", "session", "riru", "plain"}]
  /\ incarnation \in [Zygotes -> Nat]
  /\ children \subseteq Zygotes
  /\ serverGen \in Nat
  /\ crashes \in 0..MaxCrashes /\ faults \in 0..MaxFaults /\ forks \in 0..MaxForks

FlagTypes == allowRestart \in BOOLEAN /\ linked \in BOOLEAN /\ serverAlive \in BOOLEAN

TypeOK == ThreadTypes /\ FlagTypes /\ RecordTypes /\ DeviceTypes

\* The daemon starts from post-fs-data.sh with the property already naming the
\* loader; a zygote that started before that ("broken environment") runs plain.
Init ==
  /\ main = "idle" /\ binder = "idle" /\ server = "start" /\ lock = "none"
  /\ queue = <<"startWait">>
  /\ allowRestart = TRUE /\ held = 0 /\ linked = FALSE /\ scan = {}
  /\ serverSocket = "null" /\ latch = "none"
  /\ bridge = "loader" /\ status = "app_process"
  /\ loaded = {} /\ listed = {} /\ sent = {} /\ parsing = {}
  /\ zygote \in {[z \in Zygotes |-> "off"], [z \in Zygotes |-> "plain"]}
  /\ incarnation = [z \in Zygotes |-> 1]
  /\ children = {} /\ serverGen = 0 /\ serverAlive = FALSE
  /\ crashes = 0 /\ faults = 0 /\ forks = 0

-----------------------------------------------------------------------------
(* The main thread. *)

\* Zygotes killed together, and the system server with them.
Kill(zs) ==
  /\ zygote' = [z \in Zygotes |-> IF z \in zs THEN "off" ELSE zygote[z]]
  /\ serverAlive' = FALSE
  /\ children' = children \ zs
  /\ UNCHANGED <<incarnation, serverGen>>

TakeStartWait ==
  /\ main = "idle" /\ queue # <<>> /\ Head(queue) = "startWait"
  /\ main' = "wait" /\ queue' = Tail(queue)
  /\ UNCHANGED <<binder, server, lock, allowRestart, held, linked, scan, serverSocket,
                 latch, status, bridge, workerVars, deviceVars, bounds>>

\* The message onRiruNotLoaded posted: ctl.restart takes every zygote down.
RestartZygote ==
  /\ main = "idle" /\ queue # <<>> /\ Head(queue) = "restart"
  /\ queue' = Tail(queue)
  /\ Kill(Zygotes)
  /\ UNCHANGED <<main, binder, server, lock, allowRestart, held, linked, scan,
                 serverSocket, latch, status, bridge, workerVars, bounds>>

WaitForSystemService ==
  /\ main = "wait" /\ serverAlive
  /\ main' = "link" /\ held' = serverGen
  /\ UNCHANGED <<binder, server, lock, queue, allowRestart, linked, scan, serverSocket,
                 latch, status, bridge, workerVars, deviceVars, bounds>>

\* linkToDeath on a binder that is already dead reports the death at once, or
\* throws: then the exception is logged and startWait goes on unlinked.
LinkToDeath ==
  /\ main = "link"
  /\ main' = "lock"
  /\ \/ linked' = TRUE /\ faults' = faults
     \/ /\ HeldDead /\ faults < MaxFaults
        /\ faults' = faults + 1 /\ linked' = linked
  /\ UNCHANGED <<binder, server, lock, queue, allowRestart, held, scan, serverSocket,
                 latch, status, bridge, workerVars, deviceVars, crashes, forks>>

\* synchronized (serverThread), and the listing of /proc isLoaded begins with: it
\* returns false where there is no listing.
EnterMonitor ==
  /\ main = "lock" /\ lock = "none"
  /\ lock' = "main"
  /\ \/ main' = "scan" /\ scan' = ZygoteContext /\ faults' = faults
     \/ /\ faults < MaxFaults /\ faults' = faults + 1
        /\ main' = "notLoaded" /\ scan' = scan
  /\ UNCHANGED <<binder, server, queue, allowRestart, held, linked, serverSocket,
                 latch, status, bridge, workerVars, deviceVars, crashes, forks>>

\* Mutant: a process still in zygote's context counts as loaded.
ScanProcessTrusts(p) ==
  /\ main = "scan" /\ p \in scan
  /\ main' = "scan" /\ scan' = scan \ {p}
  /\ UNCHANGED <<binder, server, lock, queue, allowRestart, held, linked, serverSocket,
                 latch, status, bridge, workerVars, deviceVars, bounds>>

\* One process of the listing: isLoaded returns false at the first one that is
\* still in zygote's context and has not reported.
ScanProcess(p) ==
  /\ main = "scan" /\ p \in scan
  /\ \/ /\ p \in ZygoteContext /\ p \notin loaded
        /\ main' = "notLoaded" /\ scan' = {}
     \/ /\ p \notin ZygoteContext \/ p \in loaded
        /\ main' = "scan" /\ scan' = scan \ {p}
  /\ UNCHANGED <<binder, server, lock, queue, allowRestart, held, linked, serverSocket,
                 latch, status, bridge, workerVars, deviceVars, bounds>>

ScanDone ==
  /\ main = "scan" /\ scan = {}
  /\ main' = "load"
  /\ UNCHANGED <<binder, server, lock, queue, allowRestart, held, linked, scan,
                 serverSocket, latch, status, bridge, workerVars, deviceVars, bounds>>

\* Mutant: the handler also posts startWait itself, as binderDied will do again.
OnRiruNotLoadedPostsTwice ==
  /\ main = "notLoaded"
  /\ \/ /\ allowRestart
        /\ queue' = queue \o <<"restart", "startWait">> /\ status' = status
     \/ /\ ~allowRestart
        /\ status' = "not_loaded" /\ queue' = queue
  /\ allowRestart' = FALSE
  /\ main' = "idle" /\ lock' = "none"
  /\ UNCHANGED <<binder, server, held, linked, scan, serverSocket,
                 latch, bridge, workerVars, deviceVars, bounds>>

\* Mutant: allowRestart is not cleared.
OnRiruNotLoadedKeepsBudget ==
  /\ main = "notLoaded"
  /\ \/ /\ allowRestart
        /\ queue' = Append(queue, "restart") /\ status' = status
     \/ /\ ~allowRestart
        /\ status' = "not_loaded" /\ queue' = queue
  /\ main' = "idle" /\ lock' = "none"
  /\ UNCHANGED <<allowRestart, binder, server, held, linked, scan, serverSocket,
                 latch, bridge, workerVars, deviceVars, bounds>>

\* onRiruNotLoaded: one restart, and after that the diagnosis (whose five texts
\* are one status here).
OnRiruNotLoaded ==
  /\ main = "notLoaded"
  /\ \/ /\ allowRestart
        /\ queue' = Append(queue, "restart") /\ status' = status
     \/ /\ ~allowRestart
        /\ status' = "not_loaded" /\ queue' = queue
  /\ allowRestart' = FALSE
  /\ main' = "idle" /\ lock' = "none"
  /\ UNCHANGED <<binder, server, held, linked, scan, serverSocket,
                 latch, bridge, workerVars, deviceVars, bounds>>

\* onRiruLoad, in its order: property, server, status.
LoadResetBridge ==
  /\ main = "load"
  /\ main' = "stop"
  /\ allowRestart' = TRUE /\ bridge' = "original"
  /\ UNCHANGED <<binder, server, lock, queue, held, linked, scan, serverSocket,
                 latch, status, workerVars, deviceVars, bounds>>

\* Closing the socket resets the connections not accepted yet: their loader reads an
\* empty tmpfs path and leaves that zygote without Riru.
ResetBacklog == [z \in Zygotes |-> IF zygote[z] = "backlog" THEN "plain" ELSE zygote[z]]

\* Mutant: a stop while the server thread does not accept does nothing.
StopServerAccepting ==
  /\ main = "stop" /\ main' = "status"
  /\ IF serverSocket = "open" /\ server = "accept"
     THEN serverSocket' = "null" /\ zygote' = ResetBacklog
     ELSE UNCHANGED <<serverSocket, zygote>>
  /\ UNCHANGED <<binder, server, lock, queue, allowRestart, held, linked, scan, latch,
                 status, bridge, workerVars, incarnation, children, serverGen,
                 serverAlive, bounds>>

\* stopServer forgets the socket, also if shutdown throws and it is not closed.
StopServer ==
  /\ main = "stop" /\ main' = "status"
  /\ \/ /\ serverSocket = "open" /\ faults' = faults
        /\ serverSocket' = "null" /\ zygote' = ResetBacklog
     \/ /\ serverSocket = "open" /\ faults < MaxFaults /\ faults' = faults + 1
        /\ serverSocket' = "leaked" /\ zygote' = zygote
     \/ serverSocket # "open" /\ UNCHANGED <<serverSocket, zygote, faults>>
  /\ UNCHANGED <<binder, server, lock, queue, allowRestart, held, linked, scan, latch,
                 status, bridge, workerVars, incarnation, children, serverGen,
                 serverAlive, crashes, forks>>

WriteLoadedStatus ==
  /\ main = "status"
  /\ main' = "idle" /\ lock' = "none" /\ status' = "loaded"
  /\ UNCHANGED <<binder, server, queue, allowRestart, held, linked, scan, serverSocket,
                 latch, bridge, workerVars, deviceVars, bounds>>

MainStep ==
  \/ TakeStartWait \/ RestartZygote \/ WaitForSystemService \/ LinkToDeath
  \/ EnterMonitor \/ (\E p \in scan : ScanProcess(p)) \/ ScanDone
  \/ OnRiruNotLoaded \/ LoadResetBridge \/ StopServer \/ WriteLoadedStatus

-----------------------------------------------------------------------------
(* The binder thread: binderDied. *)

BinderDied ==
  /\ binder = "idle" /\ linked /\ HeldDead
  /\ binder' = "modules" /\ linked' = FALSE /\ held' = 0 /\ loaded' = {}
  /\ UNCHANGED <<main, server, lock, queue, allowRestart, scan, serverSocket,
                 latch, status, bridge, listed, sent, parsing, deviceVars, bounds>>

ClearModules ==
  /\ binder = "modules"
  /\ binder' = "bridge" /\ listed' = {} /\ status' = "zygote_dead"
  /\ UNCHANGED <<main, server, lock, queue, allowRestart, held, linked, scan,
                 serverSocket, latch, bridge, loaded, sent, parsing, deviceVars, bounds>>

\* Mutant: the property is left as onRiruLoad set it.
DeathKeepsBridge ==
  /\ binder = "bridge"
  /\ binder' = "lock" /\ bridge' = bridge
  /\ UNCHANGED <<main, server, lock, queue, allowRestart, held, linked, scan,
                 serverSocket, latch, status, workerVars, deviceVars, bounds>>

DeathResetBridge ==
  /\ binder = "bridge"
  /\ binder' = "lock" /\ bridge' = "loader"
  /\ UNCHANGED <<main, server, lock, queue, allowRestart, held, linked, scan,
                 serverSocket, latch, status, workerVars, deviceVars, bounds>>

BinderEnterMonitor ==
  /\ binder = "lock" /\ lock = "none"
  /\ binder' = "check" /\ lock' = "binder"
  /\ UNCHANGED <<main, server, queue, allowRestart, held, linked, scan,
                 serverSocket, latch, status, bridge, workerVars, deviceVars, bounds>>

\* restartServer, in two steps because the server thread does not take the monitor.
RestartServerCheck ==
  /\ binder = "check"
  /\ binder' = IF serverSocket = "open" THEN "post" ELSE "signal"
  /\ UNCHANGED <<main, server, lock, queue, allowRestart, held, linked, scan,
                 serverSocket, latch, status, bridge, workerVars, deviceVars, bounds>>

\* Mutant: countDown is forgotten.
RestartServerNoSignal ==
  /\ binder = "signal"
  /\ binder' = "post" /\ latch' = latch
  /\ UNCHANGED <<main, server, lock, queue, allowRestart, held, linked, scan,
                 serverSocket, status, bridge, workerVars, deviceVars, bounds>>

RestartServerSignal ==
  /\ binder = "signal"
  /\ binder' = "post" /\ latch' = IF latch = "armed" THEN "open" ELSE latch
  /\ UNCHANGED <<main, server, lock, queue, allowRestart, held, linked, scan,
                 serverSocket, status, bridge, workerVars, deviceVars, bounds>>

\* Mutant: startWait is not posted again.
NoStartWait ==
  /\ binder = "post"
  /\ binder' = "idle" /\ lock' = "none" /\ queue' = queue
  /\ UNCHANGED <<main, server, allowRestart, held, linked, scan,
                 serverSocket, latch, status, bridge, workerVars, deviceVars, bounds>>

PostStartWait ==
  /\ binder = "post"
  /\ binder' = "idle" /\ lock' = "none" /\ queue' = Append(queue, "startWait")
  /\ UNCHANGED <<main, server, allowRestart, held, linked, scan,
                 serverSocket, latch, status, bridge, workerVars, deviceVars, bounds>>

BinderStep ==
  \/ BinderDied \/ ClearModules \/ DeathResetBridge \/ BinderEnterMonitor
  \/ RestartServerCheck \/ RestartServerSignal \/ PostStartWait

-----------------------------------------------------------------------------
(* The server thread: run and startServer. *)

\* The address is in use as long as a socket is open that the thread no longer serves.
StartServer ==
  /\ server = "start"
  /\ \/ /\ serverSocket = "null"
        /\ server' = "accept" /\ serverSocket' = "open" /\ faults' = faults
     \/ /\ \/ serverSocket = "null" /\ faults < MaxFaults /\ faults' = faults + 1
           \/ serverSocket # "null" /\ faults' = faults
        /\ server' = "exited" /\ serverSocket' = serverSocket
  /\ UNCHANGED <<main, binder, lock, queue, allowRestart, held, linked, scan, latch,
                 status, bridge, workerVars, deviceVars, crashes, forks>>

\* accept on a socket that was not closed still returns; the next round of the loop
\* finds the field null and the thread leaves it.
Accept(z) ==
  /\ server = "accept" /\ serverSocket # "null" /\ zygote[z] = "backlog"
  /\ zygote' = [zygote EXCEPT ![z] = "session"]
  /\ server' = IF serverSocket = "open" THEN "accept" ELSE "exited"
  /\ UNCHANGED <<main, binder, lock, queue, allowRestart, held, linked, scan, serverSocket,
                 latch, status, bridge, workerVars, incarnation, children, serverGen,
                 serverAlive, bounds>>

\* accept fails because stopServer closed the socket, or for another reason: the
\* handler returns either way and never clears the field.
AcceptFails ==
  /\ server = "accept"
  /\ \/ serverSocket = "null" /\ faults' = faults
     \/ serverSocket # "null" /\ faults < MaxFaults /\ faults' = faults + 1
  /\ server' = "exited"
  /\ UNCHANGED <<main, binder, lock, queue, allowRestart, held, linked, scan,
                 serverSocket, latch, status, bridge, workerVars, deviceVars, crashes, forks>>

\* The garbage collector may close a socket nothing refers to any more.
CollectSocket ==
  /\ server # "accept" /\ serverSocket = "leaked"
  /\ serverSocket' = "null" /\ zygote' = ResetBacklog
  /\ UNCHANGED <<main, binder, server, lock, queue, allowRestart, held, linked, scan,
                 latch, status, bridge, workerVars, incarnation, children, serverGen,
                 serverAlive, bounds>>

NewLatch ==
  /\ server = "exited"
  /\ server' = "await" /\ latch' = "armed"
  /\ UNCHANGED <<main, binder, lock, queue, allowRestart, held, linked, scan,
                 serverSocket, status, bridge, workerVars, deviceVars, bounds>>

AwaitLatch ==
  /\ server = "await" /\ latch = "open"
  /\ server' = "start"
  /\ UNCHANGED <<main, binder, lock, queue, allowRestart, held, linked, scan,
                 serverSocket, latch, status, bridge, workerVars, deviceVars, bounds>>

ServerStep == StartServer \/ (\E z \in Zygotes : Accept(z)) \/ AcceptFails \/ NewLatch \/ AwaitLatch

(* The pool thread: handleWriteStatus records the process before it reads the modules. *)

\* Mutant: the process is recorded without its incarnation.
RecordLoadedService(p) ==
  /\ p \in sent
  /\ sent' = sent \ {p} /\ loaded' = loaded \cup {p[1]} /\ parsing' = parsing \cup {p}
  /\ UNCHANGED <<threadVars, bridge, listed, deviceVars, bounds>>

RecordLoadedProcess(p) ==
  /\ p \in sent
  /\ sent' = sent \ {p} /\ loaded' = loaded \cup {p} /\ parsing' = parsing \cup {p}
  /\ UNCHANGED <<threadVars, bridge, listed, deviceVars, bounds>>

ParseModules(p) ==
  /\ p \in parsing
  /\ parsing' = parsing \ {p} /\ listed' = listed \cup {p}
  /\ UNCHANGED <<threadVars, bridge, loaded, sent, deviceVars, bounds>>

WorkerStep == (\E p \in sent : RecordLoadedProcess(p)) \/ (\E p \in parsing : ParseModules(p))

-----------------------------------------------------------------------------
(* The zygotes, with the loader inside them, the system server and init. *)

Move(z, from, to) == zygote[z] = from /\ zygote' = [zygote EXCEPT ![z] = to]

StartZygote(z) ==
  /\ Move(z, "off", "boot")
  /\ incarnation' = [incarnation EXCEPT ![z] = @ + 1]
  /\ UNCHANGED <<threadVars, bridge, workerVars, children, serverGen, serverAlive, bounds>>

ReadBridge(z) ==
  /\ Prompt => DaemonSettled
  /\ Move(z, "boot", IF bridge = "loader" THEN "connect" ELSE "plain")
  /\ UNCHANGED <<threadVars, bridge, workerVars, incarnation, children, serverGen,
                 serverAlive, bounds>>

Connect(z) ==
  /\ serverSocket # "null" /\ Move(z, "connect", "backlog")
  /\ UNCHANGED <<threadVars, bridge, workerVars, incarnation, children, serverGen,
                 serverAlive, bounds>>

\* The fifth attempt to connect was refused.
GiveUp(z) ==
  /\ serverSocket = "null"
  /\ Move(z, "connect", "plain")
  /\ UNCHANGED <<threadVars, bridge, workerVars, incarnation, children, serverGen,
                 serverAlive, bounds>>

\* init of libriru.so ends with WriteModules; nothing waits for the answer.
WriteModules(z) ==
  /\ Move(z, "session", "riru")
  /\ sent' = sent \cup {Pid(z)}
  /\ UNCHANGED <<threadVars, bridge, loaded, listed, parsing, incarnation, children,
                 serverGen, serverAlive, bounds>>

ZygoteStep(z) == StartZygote(z) \/ ReadBridge(z) \/ Connect(z) \/ GiveUp(z) \/ WriteModules(z)

StartSystemServer ==
  /\ Prompt => DaemonSettled /\ \A z \in Zygotes : zygote[z] \in {"riru", "plain"}
  /\ ~serverAlive /\ zygote[Primary] \in {"riru", "plain"}
  /\ serverAlive' = TRUE /\ serverGen' = serverGen + 1
  /\ UNCHANGED <<threadVars, bridge, workerVars, zygote, incarnation, children, bounds>>

\* A forked child keeps zygote's context until it specialises.
Fork(z) ==
  /\ forks < MaxForks /\ serverAlive /\ z \notin children /\ zygote[z] \in {"riru", "plain"}
  /\ forks' = forks + 1 /\ children' = children \cup {z}
  /\ UNCHANGED <<threadVars, bridge, workerVars, zygote, incarnation, serverGen,
                 serverAlive, crashes, faults>>

Specialize(z) ==
  /\ z \in children /\ children' = children \ {z}
  /\ UNCHANGED <<threadVars, bridge, workerVars, zygote, incarnation, serverGen,
                 serverAlive, bounds>>

\* A soft reboot: the primary zygote dies with the system server, and the other
\* zygotes unless they survive it.
Crash(zs) ==
  /\ crashes < MaxCrashes /\ Primary \in zs /\ serverAlive
  /\ Survivors \/ zs = Zygotes
  /\ crashes' = crashes + 1
  /\ Kill(zs)
  /\ UNCHANGED <<threadVars, bridge, workerVars, faults, forks>>

DeviceStep ==
  \/ \E z \in Zygotes : ZygoteStep(z) \/ Fork(z) \/ Specialize(z)
  \/ StartSystemServer \/ CollectSocket
  \/ \E zs \in SUBSET Zygotes : Crash(zs)

Next == MainStep \/ BinderStep \/ ServerStep \/ WorkerStep \/ DeviceStep

\* Every thread that can run is eventually scheduled, init starts its services and
\* a zygote does not stop halfway.  Crashes, faults and forks are not fair.
Fairness ==
  /\ WF_vars(MainStep) /\ WF_vars(BinderStep) /\ WF_vars(WorkerStep)
  /\ WF_vars(ServerStep)
  /\ \A z \in Zygotes : WF_vars(ZygoteStep(z)) /\ WF_vars(Specialize(z))
  /\ WF_vars(StartSystemServer)

Spec == Init /\ [][Next]_vars
FairSpec == Spec /\ Fairness
-----------------------------------------------------------------------------
(* Properties. *)

Posted(m) == \E i \in 1..Len(queue) : queue[i] = m
Once(m) == \A i, j \in 1..Len(queue) : queue[i] = m /\ queue[j] = m => i = j

Waiting == Posted("startWait") \/ main \in {"wait", "link"}

\* The responsibility for the next death is never duplicated (a second startWait or a
\* second death recipient), through every interleaving of startWait and binderDied.  It
\* is lost only if linkToDeath threw, and then for a system server that was dead by then:
\* one that startWait has found and that lives is watched, whatever failed.
OneWatcher ==
  /\ Once("startWait")
  /\ Posted("startWait") => main \notin {"wait", "link"}
  /\ Waiting => ~linked /\ binder = "idle"
  /\ linked => binder = "idle"
  /\ ~Waiting /\ ~linked /\ binder = "idle" => faults > 0 /\ HeldDead

\* At most one restart of zygote is pending.  While one is, allowRestart is back to
\* true only in an onRiruLoad that overtook it, and then it is the next message.
RestartOnce ==
  /\ Once("restart")
  /\ Posted("restart") /\ main # "idle" => Head(queue) = "restart"
  /\ Posted("restart") /\ allowRestart =>
       main \in {"idle", "stop", "status"} /\ Head(queue) = "restart"

\* Nothing is going on: the daemon watches a live system server.
Quiet == DaemonSettled /\ main = "idle" /\ linked /\ serverAlive

\* Once everything is quiet, the module description says "loaded" only if every
\* zygote that runs has reported, whatever boots and deaths overlapped before.
StatusTruthful ==
  Quiet /\ status = "loaded" => \A z \in Zygotes : Running(z) => Pid(z) \in loaded

\* An accept that fails on its own, and a bind that does, leave the server thread waiting
\* for a restart; while the field is still set restartServer refuses it, and zygotes hang
\* in the backlog of a socket nobody accepts on.  On a device that boots slower than the
\* daemon reacts that ends with the next load: a quiet daemon that shows "loaded" holds no
\* socket, whatever failed before, and restartServer will not refuse the next death.
ClosedOnceLoaded == Quiet /\ status = "loaded" => serverSocket # "open"

\* With a device that boots slower than the daemon reacts, a quiet daemon has Riru
\* and its modules in every zygote, the original native bridge put back and the
\* socket closed: the races INSIDE the daemon (a stale load, a lost restart signal,
\* a restart posted for a zygote already dead) are all repaired by later rounds.
QuietIsLoaded ==
  Quiet =>
    /\ status = "loaded" /\ serverSocket = "null" /\ bridge = "original"
    /\ \A z \in Zygotes : Pid(z) \in loaded \cap listed

\* The daemon comes to rest after any soft reboot: it does not restart zygote for ever.
Settles == <>[]Quiet

\* Every soft reboot ends with Riru in every zygote (changelog v26.1.0, "Fix riru
\* is not loading after a soft reboot").
Healed == <>[](status = "loaded" /\ \A z \in Zygotes : zygote[z] = "riru")

\* onRiruLoad runs only while the death of the system server startWait waited for
\* is still to be handled (comment of the constructor, Daemon.java:34: "prevent
\* zygote died after system server starts but before onRiruLoaded called").
LoadsLiveZygote == [][main = "scan" /\ main' = "load" => linked \/ binder # "idle"]_vars

\* Zygote is restarted only when some zygote did not load Riru (changelog v23.1:
\* the restart is for a "broken environment").
RestartOnlyWhenNotLoaded ==
  [][RestartZygote => \E z \in Zygotes : Pid(z) \notin loaded]_vars

\* The modules the "loaded" status counts are those of every recorded zygote
\* (strings.xml: "Loaded %1$d modules"; changelog v26.1.0: "More accurate loaded
\* status").
StatusCountsModules == [][WriteLoadedStatus => loaded \subseteq listed]_vars

\* Who is responsible for the next system server, read off the queue, the main
\* thread, the recipient and the binder thread.
Phase == IF Waiting THEN "waiting"
         ELSE IF linked THEN "watching"
         ELSE IF binder # "idle" THEN "recovering" ELSE "lost"

\* The daemon implements ZygoteWatch.
Abstract == INSTANCE ZygoteWatch WITH
  phase  <- Phase,
  budget <- allowRestart,
  asked  <- Posted("restart")

\* Safety and liveness of ZygoteWatch hold of the daemon.
ImplementsZygoteWatch == Abstract!WatchFairSpec
=============================================================================
