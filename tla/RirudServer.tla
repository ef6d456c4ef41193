----------------------------- MODULE RirudServer -----------------------------
(***************************************************************************)
(* The rirud socket server (DaemonSocketServerThread.java) serving the     *)
(* loaders of several zygotes at once (loader.cpp, module.cpp, rirud.cpp). *)
(*                                                                         *)
(* The accept loop hands every connection to a fixed pool of threads; a    *)
(* pool thread serves one connection until its peer closes it.  A loader   *)
(* keeps its connection open while it loads the modules, and a module may  *)
(* open a connection of its own meanwhile, to read files through rirud.    *)
(*                                                                         *)
(* A zygote has one life here; the incarnations of zygotes, and who stops  *)
(* and starts the server when, are the business of RiruDaemon.             *)
(***************************************************************************)
EXTENDS Naturals, Sequences, SequencesExt, FiniteSets

CONSTANTS
  Zygotes,          \* the processes that run the loader
  ModuleReaders,    \* those with a module that reads a file through rirud while it loads
  Processors,       \* availableProcessors()
  HasNativeBridge,  \* the loader also reads the original native bridge (x86 and debug)
  MaxStops,         \* bound: times the server is stopped
  MaxDeaths,        \* bound: zygotes that die
  MaxThrows         \* bound: requests whose handler throws

ASSUME ServerAssumption ==
  /\ IsFiniteSet(Zygotes) /\ ModuleReaders \subseteq Zygotes
  /\ Processors \in Nat \ {0}
  /\ HasNativeBridge \in BOOLEAN
  /\ MaxStops \in Nat /\ MaxDeaths \in Nat /\ MaxThrows \in Nat

VARIABLES
  pc,         \* what each loader does next
  entered,    \* zygotes whose loader found libriru.so and called its init
  opened,     \* connections whose peer has not closed its end
  ended,      \* connections the server closed or the kernel reset
  inbox,      \* requests written to a connection and not read yet
  answered,   \* connections with an answer the peer has not read
  backlog,    \* connections the kernel queued for accept
  tasks,      \* queue of EXECUTOR
  busy,       \* connections a pool thread is serving
  private,    \* connections served with privateConnection true
  zygotePid,  \* processes that had a connection served since the last clear
  recorded,   \* DaemonUtils.zygotePid
  server,     \* the server socket: bound, closed, or to be bound again
  stops, deaths, throws

loaderVars == <<pc, entered, opened, backlog, inbox, answered>>
serverVars == <<ended, tasks, busy, private, zygotePid, recorded>>
vars == <<loaderVars, serverVars, server, stops, deaths, throws>>

-----------------------------------------------------------------------------
Listening == server = "listening"

Loader(z) == <<z, "loader">>
Module(z) == <<z, "module">>
Conns == Zygotes \X {"loader", "module"}
Owner(c) == c[1]

PrivateActions == {"WRITE_STATUS", "READ_NATIVE_BRIDGE", "READ_MAGISK_TMPFS_PATH", "READ_MODULES"}
Actions == PrivateActions \cup {"READ_FILE"}

\* Threads of EXECUTOR.
PoolSize == Processors \div 4 + 1

\* tmpfs, modules, bridge: waits for that answer; load, loaded: in modules::Load before
\* and after a module read its file; module: that module waits for the file; up: the
\* constructor returned; plain: it returned without Riru.
States == {"connect", "tmpfs", "modules", "load", "module", "loaded", "bridge",
           "up", "plain", "dead"}
Final == {"up", "plain", "dead"}

TypeOK ==
  /\ pc \in [Zygotes -> States] /\ entered \subseteq Zygotes
  /\ opened \subseteq Conns /\ ended \subseteq Conns /\ answered \subseteq Conns
  /\ busy \subseteq Conns /\ private \subseteq Conns
  /\ inbox \in [Conns -> Seq(Actions)]
  /\ backlog \in Seq(Conns) /\ tasks \in Seq(Conns)
  /\ zygotePid \subseteq Zygotes /\ recorded \subseteq Zygotes
  /\ server \in {"listening", "stopped", "signalled"}
  /\ stops \in 0..MaxStops /\ deaths \in 0..MaxDeaths /\ throws \in 0..MaxThrows

Init ==
  /\ pc = [z \in Zygotes |-> "connect"] /\ entered = {}
  /\ inbox = [c \in Conns |-> <<>>]
  /\ opened = {} /\ ended = {} /\ answered = {} /\ backlog = <<>>
  /\ tasks = <<>> /\ busy = {} /\ private = {} /\ zygotePid = {} /\ recorded = {}
  /\ server = "listening"
  /\ stops = 0 /\ deaths = 0 /\ throws = 0

-----------------------------------------------------------------------------
(* The loader of one zygote. *)

Goto(z, to) == pc' = [pc EXCEPT ![z] = to]
Send(c, as) == inbox' = [inbox EXCEPT ![c] = @ \o as]
Receive(c)  == c \in answered /\ answered' = answered \ {c}

\* The peer reads to the end of a connection the server ended.
EndOfFile(c) == c \in ended /\ c \notin answered /\ answered' = answered

\* A connection succeeds as soon as the kernel queues it; the peer asks at once.
Open(c, action) ==
  /\ opened' = opened \cup {c} /\ backlog' = Append(backlog, c) /\ Send(c, <<action>>)

OnlyLoader == UNCHANGED <<serverVars, server, stops, deaths, throws>>

\* RirudSocket(5) connects, and ReadMagiskTmpfsPath asks on the new connection.
Connect(z) ==
  /\ pc[z] = "connect" /\ Listening
  /\ Goto(z, "tmpfs") /\ Open(Loader(z), "READ_MAGISK_TMPFS_PATH")
  /\ UNCHANGED <<entered, answered>> /\ OnlyLoader

\* Five refused attempts, or a connection that ends before the path was answered.
Fail(z) ==
  /\ \/ pc[z] = "connect" /\ ~Listening /\ answered' = answered
     \/ pc[z] = "tmpfs" /\ EndOfFile(Loader(z))
  /\ Goto(z, "plain") /\ opened' = opened \ {Loader(z)}
  /\ UNCHANGED <<entered, inbox, backlog>> /\ OnlyLoader

\* Where the loader ends: a build with HAS_NATIVE_BRIDGE asks for the original native
\* bridge, another one returns and its destructor closes the connection.
AskBridge(z, before) ==
  IF HasNativeBridge
  THEN /\ Goto(z, "bridge") /\ opened' = opened
       /\ Send(Loader(z), before \o <<"READ_NATIVE_BRIDGE">>)
  ELSE /\ Goto(z, "up") /\ opened' = opened \ {Loader(z)}
       /\ Send(Loader(z), before)

\* dlopen or dlsym of libriru.so fails: no modules, no status, and the loader goes on
\* to the native bridge all the same.
NoRiru(z) ==
  /\ pc[z] = "tmpfs" /\ Receive(Loader(z))
  /\ AskBridge(z, <<>>)
  /\ UNCHANGED <<entered, backlog>> /\ OnlyLoader

\* init of libriru.so: modules::Load begins with READ_MODULES.
ReadModules(z) ==
  /\ pc[z] = "tmpfs" /\ Receive(Loader(z))
  /\ Goto(z, "modules") /\ Send(Loader(z), <<"READ_MODULES">>)
  /\ entered' = entered \cup {z}
  /\ UNCHANGED <<opened, backlog>> /\ OnlyLoader

LoadModules(z) ==
  /\ pc[z] = "modules" /\ Receive(Loader(z))
  /\ Goto(z, "load")
  /\ UNCHANGED <<entered, opened, backlog, inbox>> /\ OnlyLoader

\* modules::Load fails: it returns without WriteModules, and reading the native
\* bridge on the ended connection fails too.
LoadFails(z) ==
  /\ pc[z] = "modules" /\ EndOfFile(Loader(z))
  /\ Goto(z, "up") /\ opened' = opened \ {Loader(z)}
  /\ UNCHANGED <<entered, backlog, inbox>> /\ OnlyLoader

\* A module connects from its init or onModuleLoaded and asks for a file.
ModuleRead(z) ==
  /\ pc[z] = "load" /\ z \in ModuleReaders /\ Listening
  /\ Goto(z, "module") /\ Open(Module(z), "READ_FILE")
  /\ UNCHANGED <<entered, answered>> /\ OnlyLoader

ModuleDone(z) ==
  /\ pc[z] = "module" /\ (Receive(Module(z)) \/ EndOfFile(Module(z)))
  /\ Goto(z, "loaded") /\ opened' = opened \ {Module(z)}
  /\ UNCHANGED <<entered, inbox, backlog>> /\ OnlyLoader

\* modules::Load has loaded every module.
Loaded(z) ==
  \/ pc[z] = "loaded"
  \/ pc[z] = "load" /\ (z \notin ModuleReaders \/ ~Listening)

\* Mutant: the native bridge is read before the status is written.
WriteStatusLast(z) ==
  /\ Loaded(z)
  /\ IF HasNativeBridge
     THEN /\ Goto(z, "bridge") /\ opened' = opened
          /\ Send(Loader(z), <<"READ_NATIVE_BRIDGE", "WRITE_STATUS">>)
     ELSE AskBridge(z, <<"WRITE_STATUS">>)
  /\ UNCHANGED <<entered, answered, backlog>> /\ OnlyLoader

\* WriteModules is not answered; ReadNativeBridge is, in the builds that have it.
WriteStatus(z) ==
  /\ Loaded(z)
  /\ AskBridge(z, <<"WRITE_STATUS">>)
  /\ UNCHANGED <<entered, answered, backlog>> /\ OnlyLoader

\* ReadNativeBridge comes after init of libriru.so, and where there was no init.
ReadNativeBridge(z) ==
  /\ pc[z] = "bridge" /\ (Receive(Loader(z)) \/ EndOfFile(Loader(z)))
  /\ Goto(z, "up") /\ opened' = opened \ {Loader(z)}
  /\ UNCHANGED <<entered, backlog, inbox>> /\ OnlyLoader

LoaderStep(z) ==
  \/ Connect(z) \/ Fail(z) \/ NoRiru(z) \/ ReadModules(z) \/ LoadModules(z) \/ LoadFails(z)
  \/ ModuleRead(z) \/ ModuleDone(z) \/ WriteStatus(z) \/ ReadNativeBridge(z)

\* A zygote dies while it loads: the kernel closes its ends.
Die(z) ==
  /\ deaths < MaxDeaths /\ pc[z] \notin Final
  /\ deaths' = deaths + 1
  /\ Goto(z, "dead") /\ opened' = opened \ {Loader(z), Module(z)}
  /\ UNCHANGED <<entered, inbox, answered, backlog, serverVars, server, stops, throws>>

-----------------------------------------------------------------------------
(* The server. *)

\* The accept loop.  A process that died meanwhile has not zygote's context.
Accept ==
  /\ Listening /\ backlog # <<>>
  /\ backlog' = Tail(backlog)
  /\ IF pc[Owner(Head(backlog))] = "dead"
     THEN ended' = ended \cup {Head(backlog)} /\ tasks' = tasks
     ELSE tasks' = Append(tasks, Head(backlog)) /\ ended' = ended
  /\ UNCHANGED <<pc, entered, opened, inbox, answered, busy, private, zygotePid, recorded,
                 server, stops, deaths, throws>>

\* Mutant: only the first process the server meets gets a private connection.
BeginTaskFirstProcess ==
  /\ tasks # <<>> /\ Cardinality(busy) < PoolSize
  /\ tasks' = Tail(tasks)
  /\ LET c == Head(tasks)
     IN /\ busy' = busy \cup {c}
        /\ private' = IF zygotePid = {} THEN private \cup {c} ELSE private
        /\ zygotePid' = zygotePid \cup {Owner(c)}
  /\ UNCHANGED <<loaderVars, ended, recorded, server, stops, deaths, throws>>

\* A pool thread takes the next task; zygotePid.add runs in that thread, and its
\* result makes the connection private.
BeginTask ==
  /\ tasks # <<>> /\ Cardinality(busy) < PoolSize
  /\ tasks' = Tail(tasks)
  /\ LET c == Head(tasks)
     IN /\ busy' = busy \cup {c}
        /\ private' = IF Owner(c) \in zygotePid THEN private ELSE private \cup {c}
        /\ zygotePid' = zygotePid \cup {Owner(c)}
  /\ UNCHANGED <<loaderVars, ended, recorded, server, stops, deaths, throws>>

Authorised(c, action) == action \in PrivateActions => c \in private

\* Mutant: the connection is recorded instead of its process.
HandleActionRecordsConn(c) ==
  /\ c \in busy /\ inbox[c] # <<>> /\ Authorised(c, Head(inbox[c]))
  /\ inbox' = [inbox EXCEPT ![c] = Tail(@)]
  /\ IF Head(inbox[c]) = "WRITE_STATUS"
     THEN recorded' = recorded \cup {c} /\ answered' = answered
     ELSE answered' = answered \cup {c} /\ recorded' = recorded
  /\ UNCHANGED <<pc, entered, opened, backlog, ended, tasks, busy, private, zygotePid, server,
                 stops, deaths, throws>>

\* handleAction: what was asked is done, and answered unless it is WRITE_STATUS.
HandleAction(c) ==
  /\ c \in busy /\ inbox[c] # <<>> /\ Authorised(c, Head(inbox[c]))
  /\ inbox' = [inbox EXCEPT ![c] = Tail(@)]
  /\ IF Head(inbox[c]) = "WRITE_STATUS"
     THEN recorded' = recorded \cup {Owner(c)} /\ answered' = answered
     ELSE answered' = answered \cup {c} /\ recorded' = recorded
  /\ UNCHANGED <<pc, entered, opened, backlog, ended, tasks, busy, private, zygotePid, server,
                 stops, deaths, throws>>

End(c) ==
  /\ busy' = busy \ {c} /\ ended' = ended \cup {c}
  /\ UNCHANGED <<loaderVars, tasks, private, zygotePid, recorded, server, stops, deaths>>

\* Mutant: the end of the stream is taken for a request still to come.
EndTaskOnRefusal(c) ==
  /\ c \in busy /\ inbox[c] # <<>>
  /\ ~Authorised(c, Head(inbox[c]))
  /\ End(c) /\ throws' = throws

\* handleSocket returns at the end of the stream or at an action that is refused.
EndTask(c) ==
  /\ c \in busy
  /\ IF inbox[c] = <<>> THEN c \notin opened ELSE ~Authorised(c, Head(inbox[c]))
  /\ End(c) /\ throws' = throws

\* The handler throws: there is no Magisk, no original bridge, the disk is full.  An
\* answer to a peer that has closed its end throws as well.
Throw(c) ==
  /\ c \in busy /\ inbox[c] # <<>> /\ Authorised(c, Head(inbox[c]))
  /\ \/ throws < MaxThrows /\ throws' = throws + 1
     \/ c \notin opened /\ Head(inbox[c]) # "WRITE_STATUS" /\ throws' = throws
  /\ End(c)

\* stopServer: connections nobody accepted are reset.
StopServer ==
  /\ Listening /\ stops < MaxStops
  /\ server' = "stopped" /\ stops' = stops + 1
  /\ ended' = ended \cup ToSet(backlog) /\ backlog' = <<>>
  /\ UNCHANGED <<pc, entered, opened, inbox, answered, tasks, busy, private, zygotePid, recorded,
                 deaths, throws>>

\* restartServer, which clears zygotePid even if the server thread misses the signal.
RestartServer ==
  /\ ~Listening
  /\ zygotePid' = {} /\ server' \in {server, "signalled"}
  /\ UNCHANGED <<loaderVars, ended, tasks, busy, private, recorded, stops, deaths, throws>>

\* startServer clears zygotePid again before it binds the socket.
StartServer ==
  /\ server = "signalled"
  /\ server' = "listening" /\ zygotePid' = {}
  /\ UNCHANGED <<loaderVars, ended, tasks, busy, private, recorded, stops, deaths, throws>>

Next ==
  \/ \E z \in Zygotes : LoaderStep(z) \/ Die(z)
  \/ Accept \/ BeginTask
  \/ \E c \in busy : HandleAction(c) \/ EndTask(c) \/ Throw(c)
  \/ StopServer \/ RestartServer \/ StartServer

Spec == Init /\ [][Next]_vars

\* A loader that can go on does, and so do the accept loop and each pool thread.
\* Deaths, throws, stops and restarts are not fair.
Fairness ==
  /\ \A z \in Zygotes : WF_vars(LoaderStep(z))
  /\ WF_vars(Accept) /\ WF_vars(BeginTask)
  /\ \A c \in Conns : WF_vars(HandleAction(c) \/ EndTask(c))

FairSpec == Spec /\ Fairness

-----------------------------------------------------------------------------
(* Properties. *)

\* The first connection of a zygote that is served is its loader's, which is
\* therefore never refused a private action, in whatever order the accept loop, the
\* pool threads and a clear of zygotePid come; a module's connection is private only
\* if the server was restarted after the loader's was served.
FirstIsLoader ==
  \A z \in Zygotes :
    /\ Loader(z) \in busy => Loader(z) \in private
    /\ Module(z) \in private => stops > 0

\* Once a loader is through with the native bridge, rirud has recorded its process
\* exactly if libriru.so was found and its init called: the answer is sent after
\* WRITE_STATUS was handled on the same connection, and the loader whose libriru.so does
\* not load reads the bridge without any status.  Only a handler that threw breaks the
\* chain, and even then no process is recorded that does not have Riru.
StatusBeforeBridge ==
  /\ recorded \subseteq entered
  /\ HasNativeBridge => \A z \in entered : pc[z] = "up" => z \in recorded \/ throws > 0

\* Every loader's constructor returns, and every pool thread ends up free, whatever
\* dies, throws or is stopped meanwhile (changelog v23.0, of the socket: "Modules can
\* use this to read files that zygote itself has no permission to access").
EveryLoaderEnds ==
  <>[](busy = {} /\ tasks = <<>> /\ \A z \in Zygotes : pc[z] \in Final)
=============================================================================
