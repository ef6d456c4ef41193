-------------------------- MODULE DaemonStartupProofs --------------------------
(***************************************************************************)
(* Proofs about DaemonStartup, for any loaders and devices: it implements  *)
(* FileContext, a zygote that loaded libriru.so gets the native bridge,    *)
(* the name in dev_random is kept and is one name, the folders speak of    *)
(* living zygotes once binderDied has deleted them, and what a zygote      *)
(* writes after a soft reboot is not deleted by binderDied.                *)
(***************************************************************************)
EXTENDS DaemonStartup, FileContextProofs, FiniteSetTheorems

\* dev_random does not disappear, and the field is not emptied: a caller that has found the
\* file reads a file, and one that writes or is done has a name.
Present ==
  \A c \in Callers :
    /\ random[c] = "read" => file # "missing"
    /\ random[c] \in {"open", "bytes", "write", "return"} => devRandom # "none"
    /\ random[c] \in {"write", "done"} => name[c] # "none"

TInv == TypeOKStartup /\ Present

\* A loader that is past READ_MODULES has waited for a task, which init submitted after
\* it had read its arguments; and only such a loader asks for the name.
BridgeSet ==
  /\ main # "args" => bridgeSet
  /\ \A z \in Loaders :
       /\ session[z] \in {"status", "random"} \/ random[z] # "idle" => bridgeSet
       /\ name[z] # "none" => random[z] # "idle"
       /\ bridge[z] = "thrown" => session[z] = "end" /\ random[z] = "idle"

\* With a name in dev_random only a caller for which reading it throws gets to the point of
\* generating one, as long as none has.
Kept ==
  device.first = "kept" =>
    /\ generated # {} => device.unread # {}
    /\ generated = {} => file = "kept" /\ devRandom \in {"none", "kept"}
    /\ \A c \in Callers : generated = {} =>
         /\ random[c] \notin {"open", "bytes", "write"}
         /\ random[c] = "generate" => c \in device.unread
         /\ random[c] = "return" => devRandom = "kept"
         /\ name[c] \in {"none", "kept"}

\* The zygotes of the soft reboot connect after the deletion, if the server was stopped
\* when it began.
Waiting ==
  /\ binder # "alive" => main = "started"
  /\ binder = "alive" => \A z \in Reborn : session[z] = "boot"
  /\ "server" \notin late /\ binder \notin {"alive", "done"}
       => stopped /\ \A z \in Reborn : session[z] = "boot"

\* What such a zygote has written is there, and its session asks for the name once.
Written ==
  \A z \in Reborn :
    /\ session[z] \in {"boot", "tmpfs", "modules", "status"} => random[z] = "idle"
    /\ session[z] \in {"bridge", "end"} => random[z] \in {"idle", "done"}
    /\ "server" \notin late /\ session[z] \in {"bridge", "end"} /\ name[z] # "none"
         => <<<<AbiOf(z), name[z]>>, z>> \in status

-----------------------------------------------------------------------------
(* DaemonStartup implements FileContext. *)

\* Every step of the start-up is a step of FileContext or leaves its variables alone.
LEMMA StepRefines == ASSUME [NextStartup]_allVars PROVE [Next]_vars
<1>1. CASE UNCHANGED allVars
  BY <1>1 DEF allVars
<1>2. ASSUME NEW t \in Threads, CheckFiles(t) PROVE Next
  BY <1>2 DEF CheckFiles, Next
<1>3. ASSUME NEW c \in Callers, GetDevRandom(c) PROVE UNCHANGED vars
  BY <1>3 DEF GetDevRandom
<1>4. ASSUME NEW z \in Loaders,
             Connect(z) \/ ReadMagiskTmpfsPath(z) \/ ReadModules(z) \/ WriteStatus(z)
             \/ WriteFolder(z) \/ ReadNativeBridge(z) \/ SessionGone(z)
      PROVE  UNCHANGED vars
  BY <1>4 DEF Connect, ReadMagiskTmpfsPath, ReadModules, WriteStatus, WriteFolder,
     ReadNativeBridge, SessionGone, SessionStep
<1>5. CASE InitArgs \/ SubmitTasks \/ InitDone \/ MainNamed \/ StartWait
  BY <1>5 DEF InitArgs, SubmitTasks, InitDone, MainNamed, StartWait
<1>6. CASE SystemServerDies \/ BinderNamed \/ DeleteDevFolder \/ RestartServer
  BY <1>6 DEF SystemServerDies, BinderNamed, DeleteDevFolder, ListFolder, DeleteFolder,
     RestartServer
<1> QED  BY <1>1, <1>2, <1>3, <1>4, <1>5, <1>6 DEF NextStartup

\* Whatever else runs in rirud while it starts, the threads that check files behave as
\* FileContext says.
THEOREM ImplementsFileContext == SpecStartup => Spec
<1>1. InitStartup => Init
  BY DEF InitStartup
<1> QED  BY <1>1, StepRefines, PTL DEF SpecStartup, Spec

\* So what the loaders are given names only files whose context was reset where it can be.
THEOREM ServedDuringStartup == SpecStartup => []ServedFilesReset
BY ImplementsFileContext, ServedFilesResetAlways, PTL

-----------------------------------------------------------------------------
(* Types. *)

\* The start has the types.
LEMMA InitTypes == InitStartup => TInv
<1> SUFFICES ASSUME InitStartup PROVE TInv
  OBVIOUS
<1>1. device.first \in {"missing", "empty", "kept"}
  BY DevicesAssumption DEF InitStartup, Device
<1>2. TypeOK
  BY InitIInv DEF IInv, InitStartup
<1> QED  BY <1>1, <1>2 DEF InitStartup, TInv, TypeOKStartup, Present, Callers, Names

\* getDevRandom keeps the types.
LEMMA RandomKeepsTypes ==
  ASSUME TInv, NEW c \in Callers, GetDevRandom(c) PROVE TInv'
<1>0. /\ devRandom \in Names \cup {"none"} /\ file \in Names \cup {"missing", "empty"}
      /\ random \in [Callers -> {"idle", "field", "exists", "read", "generate", "open", "bytes",
                             "write", "return", "done"}]
      /\ name \in [Callers -> Names \cup {"none"}] /\ generated \subseteq Callers
      /\ c \in Names
  BY DEF TInv, TypeOKStartup, Names
<1> DEFINE Rest ==
      /\ devRandom' \in Names \cup {"none"} /\ file' \in Names \cup {"missing", "empty"}
      /\ random' \in [Callers -> {"idle", "field", "exists", "read", "generate", "open", "bytes",
                             "write", "return", "done"}]
      /\ name' \in [Callers -> Names \cup {"none"}] /\ generated' \subseteq Callers
<1>n. "none" \notin Names /\ "missing" \notin Names /\ "empty" \notin Names
  BY LoadersAssumption DEF Names, Callers
<1>1. ASSUME FieldRead(c) PROVE Rest /\ Present'
  <2>1. Rest
    BY <1>0, <1>1 DEF FieldRead, Goto
  <2>2. Present'
    BY <1>0, <1>1 DEF TInv, Present, FieldRead, Goto
  <2> QED  BY <2>1, <2>2
<1>2. ASSUME FileExists(c) PROVE Rest /\ Present'
  <2>1. Rest
    BY <1>0, <1>2 DEF FileExists, Goto
  <2>2. Present'
    BY <1>0, <1>2 DEF TInv, Present, FileExists, Goto
  <2> QED  BY <2>1, <2>2
<1>3. ASSUME FileRead(c) PROVE Rest /\ Present'
  <2>1. Rest
    BY <1>0, <1>3 DEF TInv, Present, FileRead, Goto
  <2>2. Present'
    BY <1>0, <1>n, <1>3 DEF TInv, Present, FileRead, Goto
  <2> QED  BY <2>1, <2>2
<1>4. ASSUME Generate(c) PROVE Rest /\ Present'
  <2>1. Rest
    BY <1>0, <1>4 DEF Generate, Goto
  <2>2. Present'
    BY <1>0, <1>n, <1>4 DEF TInv, Present, Generate, Goto
  <2> QED  BY <2>1, <2>2
<1>5. ASSUME FileOpen(c) PROVE Rest /\ Present'
  <2>1. Rest
    BY <1>0, <1>5 DEF FileOpen, Goto
  <2>2. Present'
    BY <1>0, <1>5 DEF TInv, Present, FileOpen, Goto
  <2> QED  BY <2>1, <2>2
<1>6. ASSUME FieldBytes(c) PROVE Rest /\ Present'
  <2>1. Rest
    BY <1>0, <1>6 DEF FieldBytes, Goto
  <2>2. Present'
    BY <1>0, <1>6 DEF TInv, Present, FieldBytes, Goto
  <2> QED  BY <2>1, <2>2
<1>7. ASSUME FileWrite(c) PROVE Rest /\ Present'
  <2>1. Rest
    BY <1>0, <1>7 DEF TInv, Present, FileWrite, Goto
  <2>2. Present'
    BY <1>0, <1>n, <1>7 DEF TInv, Present, FileWrite, Goto
  <2> QED  BY <2>1, <2>2
<1>8. ASSUME Return(c) PROVE Rest /\ Present'
  <2>1. Rest
    BY <1>0, <1>8 DEF Return, Goto
  <2>2. Present'
    BY <1>0, <1>8 DEF TInv, Present, Return, Goto
  <2> QED  BY <2>1, <2>2
<1>9. Rest /\ Present'
  BY <1>1, <1>2, <1>3, <1>4, <1>5, <1>6, <1>7, <1>8 DEF GetDevRandom
<1>10. TypeOKStartup'
  BY <1>9 DEF GetDevRandom, TInv, TypeOKStartup, vars, mainVars, sessionVars, binderVars, TypeOK
<1> QED  BY <1>9, <1>10 DEF TInv

\* A caller of getDevRandom is asked to begin.
LEMMA AskKeeps ==
  ASSUME TInv, NEW c \in Callers, Ask(c)
  PROVE  /\ random' \in [Callers -> {"idle", "field", "exists", "read", "generate", "open", "bytes",
                                     "write", "return", "done"}]
         /\ Present'
BY DEF TInv, TypeOKStartup, Ask, Present

\* The steps of the sessions keep the types.
LEMMA SessionsKeepTypes ==
  ASSUME TInv, NEW z \in Loaders,
         Connect(z) \/ ReadMagiskTmpfsPath(z) \/ ReadModules(z) \/ WriteStatus(z)
         \/ WriteFolder(z) \/ ReadNativeBridge(z) \/ SessionGone(z)
  PROVE  TInv'
<1> USE DEF TInv, TypeOKStartup, TypeOK, SessionStep, vars, mainVars, binderVars, randomVars
<1>1. CASE Connect(z)
  BY <1>1 DEF Connect, Present
<1>2. CASE ReadMagiskTmpfsPath(z)
  BY <1>2 DEF ReadMagiskTmpfsPath, Present
<1>3. CASE ReadModules(z)
  BY <1>3 DEF ReadModules, Present
<1>4. CASE WriteStatus(z)
  <2>1. z \in Callers
    BY DEF Callers
  <2>2. Ask(z) /\ UNCHANGED <<bridge, status, devRandom, file, name, generated>>
    BY <1>4 DEF WriteStatus, Ask
  <2>3. /\ random' \in [Callers -> {"idle", "field", "exists", "read", "generate", "open", "bytes",
                                     "write", "return", "done"}]
        /\ Present'
    BY <2>1, <2>2, AskKeeps
  <2>4. SessionStep(z, "status", "random")
    BY <1>4 DEF WriteStatus
  <2> QED  BY <2>2, <2>3, <2>4
<1>5. CASE WriteFolder(z)
  <2>1. name[z] \in Names
    BY <1>5 DEF WriteFolder, Present, Callers
  <2>2. AbiOf(z) \in Abis
    BY DEF AbiOf, Abis
  <2>3. status' \subseteq Folders \X Loaders
    BY <1>5, <2>1, <2>2 DEF WriteFolder, Folders
  <2>4. SessionStep(z, "random", "bridge") /\ UNCHANGED <<bridge, randomVars>>
    BY <1>5 DEF WriteFolder
  <2> QED  BY <2>3, <2>4 DEF Present
<1>6. CASE ReadNativeBridge(z)
  BY <1>6 DEF ReadNativeBridge, Present
<1>7. CASE SessionGone(z)
  BY <1>7 DEF SessionGone, Present
<1> QED  BY <1>1, <1>2, <1>3, <1>4, <1>5, <1>6, <1>7

\* The steps of main keep the types.
LEMMA MainKeepsTypes ==
  ASSUME TInv, InitArgs \/ SubmitTasks \/ InitDone \/ MainNamed \/ StartWait
  PROVE  TInv'
<1> USE DEF TInv, TypeOKStartup, TypeOK, vars, sessionVars, randomVars, binderVars
<1>1. CASE InitArgs
  BY <1>1 DEF InitArgs, Present
<1>2. CASE SubmitTasks
  BY <1>2 DEF SubmitTasks, Present
<1>3. CASE InitDone
  <2>1. "main" \in Callers
    BY DEF Callers
  <2>2. /\ random' \in [Callers -> {"idle", "field", "exists", "read", "generate", "open", "bytes",
                                    "write", "return", "done"}]
        /\ Present'
    BY <1>3, <2>1, AskKeeps DEF InitDone
  <2> QED  BY <1>3, <2>2 DEF InitDone, Ask
<1>4. CASE MainNamed
  BY <1>4 DEF MainNamed, Present
<1>5. CASE StartWait
  BY <1>5 DEF StartWait, Present
<1> QED  BY <1>1, <1>2, <1>3, <1>4, <1>5

\* The steps of binderDied keep the types.
LEMMA BinderKeepsTypes ==
  ASSUME TInv, SystemServerDies \/ BinderNamed \/ DeleteDevFolder \/ RestartServer
  PROVE  TInv'
<1> USE DEF TInv, TypeOKStartup, TypeOK, vars, mainVars, sessionVars, randomVars
<1>1. CASE SystemServerDies
  <2>1. "binder" \in Callers
    BY DEF Callers
  <2>2. late' \subseteq {"session", "server"}
    BY <1>1 DEF SystemServerDies
  <2> QED  BY <1>1, <2>1, <2>2, AskKeeps DEF SystemServerDies, Ask
<1>2. CASE BinderNamed
  BY <1>2 DEF BinderNamed, Present
<1>3. ASSUME NEW abi \in Abis, NEW from,
             NEW to \in {"delete32", "list64", "delete64", "restart"},
             ListFolder(abi, from, to) \/ DeleteFolder(abi, from, to)
      PROVE  TInv'
  <2>1. CASE ListFolder(abi, from, to)
    BY <1>3, <2>1 DEF ListFolder, InFolder, Present
  <2>2. CASE DeleteFolder(abi, from, to)
    <3>1. status' \subseteq status /\ renamed' \subseteq Abis
      BY <2>2 DEF DeleteFolder, InFolder
    <3> QED  BY <1>3, <2>2, <3>1 DEF DeleteFolder, Present
  <2> QED  BY <1>3, <2>1, <2>2
<1>4. CASE DeleteDevFolder
  BY <1>3, <1>4 DEF DeleteDevFolder, Abis
<1>5. CASE RestartServer
  BY <1>5 DEF RestartServer, Present
<1> QED  BY <1>1, <1>2, <1>4, <1>5

\* The types hold in every behaviour.
LEMMA TInvAlways == SpecStartup => []TInv
<1>1. ASSUME TInv, [NextStartup]_allVars, IInv, [Next]_vars, IInv' PROVE TInv'
  <2>1. CASE UNCHANGED allVars
    BY <1>1, <2>1 DEF allVars, vars, startupVars, mainVars, sessionVars, randomVars, binderVars,
       TInv, TypeOKStartup, TypeOK, Present
  <2>2. ASSUME NEW t \in Threads, CheckFiles(t) PROVE TInv'
    BY <1>1, <2>2 DEF CheckFiles, startupVars, mainVars, sessionVars, randomVars, binderVars,
       TInv, TypeOKStartup, IInv, Present
  <2> QED  BY <1>1, <2>1, <2>2, RandomKeepsTypes, SessionsKeepTypes, MainKeepsTypes,
              BinderKeepsTypes DEF NextStartup
<1>2. SpecStartup => []IInv
  BY ImplementsFileContext, IInvAlways, PTL
<1>3. SpecStartup => [][Next]_vars
  BY StepRefines, PTL DEF SpecStartup
<1> QED  BY <1>1, <1>2, <1>3, InitTypes, PTL DEF SpecStartup

\* Every variable of the start-up keeps its type.
THEOREM TypeCorrectStartup == SpecStartup => []TypeOKStartup
<1>1. TInv => TypeOKStartup
  BY DEF TInv
<1> QED  BY <1>1, TInvAlways, PTL

-----------------------------------------------------------------------------
(* The native bridge. *)

\* What getDevRandom leaves to the other actions.
LEMMA RandomFrame ==
  ASSUME TInv, NEW c \in Callers, GetDevRandom(c)
  PROVE  /\ random[c] \notin {"idle", "done"} /\ random'[c] # "idle"
         /\ \A d \in Callers \ {c} : random'[d] = random[d] /\ name'[d] = name[d]
         /\ UNCHANGED <<device, main, bridgeSet, session, bridge, status, binder, late, stopped>>
<1> USE DEF TInv, TypeOKStartup, Goto
<1>1. UNCHANGED <<device, main, bridgeSet, session, bridge, status, binder, late, stopped>>
  BY DEF GetDevRandom, mainVars, sessionVars, binderVars
<1>2. CASE FieldRead(c)
  BY <1>1, <1>2 DEF FieldRead
<1>3. CASE FileExists(c)
  BY <1>1, <1>3 DEF FileExists
<1>4. CASE FileRead(c)
  BY <1>1, <1>4 DEF FileRead
<1>5. CASE Generate(c)
  BY <1>1, <1>5 DEF Generate
<1>6. CASE FileOpen(c)
  BY <1>1, <1>6 DEF FileOpen
<1>7. CASE FieldBytes(c)
  BY <1>1, <1>7 DEF FieldBytes
<1>8. CASE FileWrite(c)
  BY <1>1, <1>8 DEF FileWrite
<1>9. CASE Return(c)
  BY <1>1, <1>9 DEF Return
<1> QED  BY <1>2, <1>3, <1>4, <1>5, <1>6, <1>7, <1>8, <1>9 DEF GetDevRandom

\* No session has come far at the start.
LEMMA InitBridgeSet == InitStartup => BridgeSet
BY DEF InitStartup, BridgeSet, Callers

\* A session that is past READ_MODULES finds the bridge set, whatever steps are taken.
LEMMA BridgeSetKept ==
  ASSUME TInv, BridgeSet, [NextStartup]_allVars PROVE BridgeSet'
<1> USE DEF BridgeSet
<1>l. Loaders \subseteq Callers
  BY DEF Callers
<1>t. /\ session \in [Loaders -> {"boot", "tmpfs", "modules", "status", "random", "bridge", "end"}]
      /\ bridge \in [Loaders -> {"none", "answered", "thrown"}]
      /\ DOMAIN random = Callers /\ "main" \in Callers /\ "binder" \in Callers
      /\ "main" \notin Loaders /\ "binder" \notin Loaders
  BY LoadersAssumption DEF TInv, TypeOKStartup, Callers
<1>1. CASE UNCHANGED allVars
  BY <1>1 DEF allVars, startupVars, mainVars, sessionVars, randomVars
<1>2. ASSUME NEW c \in Callers, GetDevRandom(c) PROVE BridgeSet'
  BY <1>2, <1>l, RandomFrame
<1>3. ASSUME NEW t \in Threads, CheckFiles(t) PROVE BridgeSet'
  BY <1>3 DEF CheckFiles, startupVars, mainVars, sessionVars, randomVars
<1>4. CASE InitArgs \/ SubmitTasks \/ MainNamed \/ StartWait
  BY <1>4 DEF InitArgs, SubmitTasks, MainNamed, StartWait, sessionVars, randomVars
<1>5. CASE InitDone
  BY <1>5, <1>t, <1>l DEF InitDone, Ask, sessionVars
<1>6. ASSUME NEW z \in Loaders, Connect(z) \/ ReadMagiskTmpfsPath(z) \/ SessionGone(z) PROVE BridgeSet'
  BY <1>6, <1>t DEF Connect, ReadMagiskTmpfsPath, SessionGone, SessionStep, mainVars, randomVars
<1>7. ASSUME NEW z \in Loaders, ReadModules(z) PROVE BridgeSet'
  BY <1>7, <1>t DEF ReadModules, Submitted, SessionStep, mainVars, randomVars
<1>8. ASSUME NEW z \in Loaders, WriteStatus(z) PROVE BridgeSet'
  BY <1>8, <1>t, <1>l DEF WriteStatus, Ask, SessionStep, mainVars
<1>9. ASSUME NEW z \in Loaders, WriteFolder(z) PROVE BridgeSet'
  BY <1>9, <1>t DEF WriteFolder, SessionStep, mainVars, randomVars
<1>10. ASSUME NEW z \in Loaders, ReadNativeBridge(z) PROVE BridgeSet'
  BY <1>10, <1>t DEF ReadNativeBridge, SessionStep, mainVars, randomVars
<1>11. CASE SystemServerDies
  BY <1>11, <1>t, <1>l DEF SystemServerDies, Ask, mainVars, sessionVars
<1>12. CASE BinderNamed \/ DeleteDevFolder \/ RestartServer
  BY <1>12 DEF BinderNamed, DeleteDevFolder, ListFolder, DeleteFolder, RestartServer, mainVars,
     sessionVars, randomVars
<1> QED  BY <1>1, <1>2, <1>3, <1>4, <1>5, <1>6, <1>7, <1>8, <1>9, <1>10, <1>11, <1>12
         DEF NextStartup

\* However early a zygote connects, it gets the native bridge if it loaded libriru.so.
THEOREM BridgeKnownAlways == SpecStartup => []BridgeKnown
<1>1. BridgeSet => BridgeKnown
  BY DEF BridgeSet, BridgeKnown
<1> QED  BY <1>1, InitBridgeSet, BridgeSetKept, TInvAlways, PTL DEF SpecStartup

-----------------------------------------------------------------------------
(* The name. *)

\* At the start the only name is that of the file.
LEMMA InitKept == InitStartup => Kept
BY DEF InitStartup, Kept

\* No step writes another name over a kept one, or returns another.
LEMMA KeptKept ==
  ASSUME TInv, Kept, [NextStartup]_allVars PROVE Kept'
<1>0. device' = device
  BY DEF NextStartup, allVars, startupVars, GetDevRandom, InitArgs, SubmitTasks, InitDone,
     MainNamed, StartWait, CheckFiles, Connect, ReadMagiskTmpfsPath, ReadModules, WriteStatus,
     WriteFolder, ReadNativeBridge, SessionGone, SessionStep, SystemServerDies, BinderNamed,
     DeleteDevFolder, ListFolder, DeleteFolder, RestartServer
<1>k. DOMAIN random = Callers /\ DOMAIN name = Callers
  BY DEF TInv, TypeOKStartup
<1> DEFINE Goal == Kept'
<1>1. ASSUME NEW c \in Callers, GetDevRandom(c) PROVE Goal
  <2>1. CASE FieldRead(c)
    BY <1>0, <1>k, <2>1 DEF FieldRead, Goto, Kept
  <2>2. CASE FileExists(c)
    BY <1>0, <1>k, <2>2 DEF FileExists, Goto, Kept
  <2>3. CASE FileRead(c)
    BY <1>0, <1>k, <2>3 DEF FileRead, Goto, Kept
  <2>4. CASE Return(c)
    BY <1>0, <1>k, <2>4 DEF Return, Goto, Kept
  <2>5. CASE Generate(c)
    BY <1>0, <2>5 DEF Generate, Kept
  <2>6. CASE FileOpen(c) \/ FieldBytes(c) \/ FileWrite(c)
    BY <1>0, <2>6 DEF FileOpen, FieldBytes, FileWrite, Kept
  <2> QED  BY <1>1, <2>1, <2>2, <2>3, <2>4, <2>5, <2>6 DEF GetDevRandom
<1>2. ASSUME NEW c \in Callers, Ask(c) PROVE Goal
  BY <1>0, <1>k, <1>2 DEF Ask, Kept
<1>3. CASE UNCHANGED randomVars
  BY <1>0, <1>3 DEF randomVars, Kept
<1>4. \/ \E c \in Callers : GetDevRandom(c) \/ Ask(c)
      \/ UNCHANGED randomVars
  BY DEF NextStartup, allVars, startupVars, randomVars, InitArgs, SubmitTasks, InitDone, MainNamed,
     StartWait, CheckFiles, Connect, ReadMagiskTmpfsPath, ReadModules, WriteStatus, WriteFolder,
     ReadNativeBridge, SessionGone, SystemServerDies, BinderNamed, DeleteDevFolder, ListFolder,
     DeleteFolder, RestartServer, Callers
<1> QED  BY <1>1, <1>2, <1>3, <1>4

\* A name that dev_random had at the start stays, and all folders are named by it, unless
\* reading it threw.
THEOREM NameKeptAlways == SpecStartup => []NameKept
<1>1. Kept => NameKept
  BY DEF Kept, NameKept
<1> QED  BY <1>1, InitKept, KeptKept, TInvAlways, PTL DEF SpecStartup

-----------------------------------------------------------------------------
(* The status of the next zygotes. *)

OrderInv == BridgeSet /\ Waiting /\ Written

\* At the start no zygote has written to a folder.
LEMMA InitOrder == InitStartup => OrderInv
<1> SUFFICES ASSUME InitStartup PROVE OrderInv
  OBVIOUS
<1> QED  BY InitBridgeSet, LoadersAssumption DEF InitStartup, OrderInv, Waiting, Written, Callers

\* The sessions of the next zygotes wait until the folders are deleted, if the server was stopped.
LEMMA OrderKept ==
  ASSUME TInv, OrderInv, [NextStartup]_allVars, BridgeSet' PROVE Waiting' /\ Written'
<1> USE DEF Waiting, Written, OrderInv
<1>r. /\ Reborn \subseteq Callers /\ Reborn \subseteq Loaders
      /\ "main" \in Callers \ Reborn /\ "binder" \in Callers \ Reborn
  BY LoadersAssumption DEF Callers
<1>t. /\ session \in [Loaders -> {"boot", "tmpfs", "modules", "status", "random", "bridge", "end"}]
      /\ DOMAIN random = Callers
  BY DEF TInv, TypeOKStartup
<1>1. CASE UNCHANGED allVars
  BY <1>1 DEF allVars, startupVars, mainVars, sessionVars, randomVars, binderVars
<1>2. ASSUME NEW c \in Callers, GetDevRandom(c) PROVE Waiting' /\ Written'
  <2>1. Waiting'
    BY <1>2, RandomFrame
  <2>2. Written'
    BY <1>2, <1>r, RandomFrame
  <2> QED  BY <2>1, <2>2
<1>3. ASSUME NEW t \in Threads, CheckFiles(t) PROVE Waiting' /\ Written'
  BY <1>3 DEF CheckFiles, startupVars, mainVars, sessionVars, randomVars, binderVars
<1>4. CASE InitArgs \/ SubmitTasks \/ MainNamed
  BY <1>4 DEF InitArgs, SubmitTasks, MainNamed, sessionVars, randomVars, binderVars
<1>5. CASE StartWait
  BY <1>5 DEF StartWait, sessionVars, randomVars
<1>6. CASE InitDone
  BY <1>6, <1>r, <1>t DEF InitDone, Ask, sessionVars, binderVars
<1>7. ASSUME NEW z \in Loaders, Connect(z) PROVE Waiting' /\ Written'
  BY <1>7, <1>t DEF Connect, SessionStep, mainVars, randomVars, binderVars
<1>8. ASSUME NEW z \in Loaders, ReadMagiskTmpfsPath(z) PROVE Waiting' /\ Written'
  <2>1. z \in Reborn => name[z] = "none" /\ random[z] = "idle"
    BY <1>8 DEF BridgeSet, ReadMagiskTmpfsPath, SessionStep
  <2> QED  BY <1>8, <2>1, <1>t DEF ReadMagiskTmpfsPath, SessionStep, mainVars, randomVars, binderVars
<1>9. ASSUME NEW z \in Loaders, ReadModules(z) PROVE Waiting' /\ Written'
  BY <1>9, <1>t DEF ReadModules, SessionStep, mainVars, randomVars, binderVars
<1>10. ASSUME NEW z \in Loaders, WriteStatus(z) PROVE Waiting' /\ Written'
  BY <1>10, <1>t, <1>r DEF WriteStatus, Ask, SessionStep, mainVars, binderVars
<1>11. ASSUME NEW z \in Loaders, WriteFolder(z) PROVE Waiting' /\ Written'
  BY <1>11, <1>t DEF WriteFolder, SessionStep, mainVars, randomVars, binderVars
<1>12. ASSUME NEW z \in Loaders, ReadNativeBridge(z) PROVE Waiting' /\ Written'
  BY <1>12, <1>t DEF ReadNativeBridge, SessionStep, mainVars, randomVars, binderVars
<1>13. ASSUME NEW z \in Loaders, SessionGone(z) PROVE Waiting' /\ Written'
  BY <1>13, <1>t DEF SessionGone, SessionStep, mainVars, randomVars, binderVars
<1>14. CASE SystemServerDies
  <2>1. "server" \notin late' => stopped
    BY <1>14 DEF SystemServerDies
  <2> QED  BY <1>14, <2>1, <1>t, <1>r DEF SystemServerDies, Ask, mainVars, sessionVars
<1>15. CASE BinderNamed \/ RestartServer
  BY <1>15 DEF BinderNamed, RestartServer, mainVars, sessionVars, randomVars
<1>16. ASSUME NEW abi, NEW from \in {"list32", "delete32", "list64", "delete64"},
              NEW to \in {"delete32", "list64", "delete64", "restart"},
              ListFolder(abi, from, to) \/ DeleteFolder(abi, from, to)
       PROVE  Waiting' /\ Written'
  BY <1>16 DEF ListFolder, DeleteFolder, mainVars, sessionVars, randomVars
<1>17. CASE DeleteDevFolder
  BY <1>16, <1>17 DEF DeleteDevFolder
<1> QED  BY <1>1, <1>2, <1>3, <1>4, <1>5, <1>6, <1>7, <1>8, <1>9, <1>10, <1>11, <1>12, <1>13,
            <1>14, <1>15, <1>17 DEF NextStartup

\* What a zygote writes after the soft reboot stays, if the server was stopped before it.
THEOREM StatusSurvivesAlways == SpecStartup => []StatusSurvives
<1>1. OrderInv => StatusSurvives
  BY DEF OrderInv, Written, StatusSurvives
<1>2. ASSUME TInv, OrderInv, [NextStartup]_allVars PROVE OrderInv'
  BY <1>2, BridgeSetKept, OrderKept DEF OrderInv
<1> QED  BY <1>1, <1>2, InitOrder, TInvAlways, PTL DEF SpecStartup

-----------------------------------------------------------------------------
(* One name, if one thread generates it. *)

\* Nobody has generated a name: the only one there can be is the one the file had.
NoneGenerated ==
  /\ file = device.first
  /\ devRandom # "none" => devRandom = file
  /\ \A c \in Callers : /\ random[c] \notin {"open", "bytes", "write"}
                        /\ name[c] \in {"none", devRandom}

\* Only g has: the field is set before the file is opened, so nobody reads another name, and
\* the file is complete unless g is still writing it.
OneGenerated(g) ==
  /\ devRandom = g /\ file \in {"missing", "empty", g}
  /\ \A c \in Callers : /\ random[c] \in {"open", "bytes", "write"} => c = g
                        /\ name[c] \in {"none", g}
  /\ device.writable => random[g] \in {"open", "bytes", "write"} \/ file = g

NameInv ==
  /\ IsFiniteSet(generated)
  /\ generated = {} => NoneGenerated
  /\ \A g \in Callers : generated = {g} /\ device.first # "kept" => OneGenerated(g)

\* Main, binderDied and each session ask for the name once.
AsksOnce ==
  /\ main \in {"args", "submit", "checks"} => random["main"] = "idle"
  /\ binder = "alive" => random["binder"] = "idle"
  /\ \A z \in Loaders : session[z] \in {"boot", "tmpfs", "modules", "status"} => random[z] = "idle"

\* At the start nobody has asked for the name.
LEMMA InitAsks == InitStartup => AsksOnce
BY DEF InitStartup, AsksOnce, Callers

\* Nobody asks again.
LEMMA AsksKept ==
  ASSUME TInv, AsksOnce, [NextStartup]_allVars PROVE AsksOnce'
<1> USE DEF AsksOnce
<1>l. Loaders \subseteq Callers /\ "main" \in Callers \ Loaders /\ "binder" \in Callers \ Loaders
  BY LoadersAssumption DEF Callers
<1>t. /\ session \in [Loaders -> {"boot", "tmpfs", "modules", "status", "random", "bridge", "end"}]
      /\ DOMAIN random = Callers
  BY DEF TInv, TypeOKStartup
<1>1. CASE UNCHANGED allVars
  BY <1>1 DEF allVars, startupVars, mainVars, sessionVars, randomVars, binderVars
<1>2. ASSUME NEW c \in Callers, GetDevRandom(c) PROVE AsksOnce'
  BY <1>2, <1>l, RandomFrame
<1>3. ASSUME NEW t \in Threads, CheckFiles(t) PROVE AsksOnce'
  BY <1>3 DEF CheckFiles, startupVars, mainVars, sessionVars, randomVars, binderVars
<1>4. CASE InitArgs \/ SubmitTasks \/ MainNamed \/ StartWait
  BY <1>4 DEF InitArgs, SubmitTasks, MainNamed, StartWait, sessionVars, randomVars, binderVars
<1>5. CASE InitDone
  BY <1>5, <1>l, <1>t DEF InitDone, Ask, sessionVars, binderVars
<1>6. ASSUME NEW z \in Loaders,
             Connect(z) \/ ReadMagiskTmpfsPath(z) \/ ReadModules(z) \/ WriteFolder(z)
             \/ ReadNativeBridge(z) \/ SessionGone(z)
      PROVE  AsksOnce'
  BY <1>6, <1>t DEF Connect, ReadMagiskTmpfsPath, ReadModules, WriteFolder, ReadNativeBridge,
     SessionGone, SessionStep, mainVars, randomVars, binderVars
<1>7. ASSUME NEW z \in Loaders, WriteStatus(z) PROVE AsksOnce'
  BY <1>7, <1>t, <1>l DEF WriteStatus, Ask, SessionStep, mainVars, binderVars
<1>8. CASE SystemServerDies
  BY <1>8, <1>t, <1>l DEF SystemServerDies, Ask, mainVars, sessionVars
<1>9. CASE BinderNamed \/ RestartServer
  BY <1>9 DEF BinderNamed, RestartServer, mainVars, sessionVars, randomVars
<1>10. ASSUME NEW abi, NEW from \in {"list32", "delete32", "list64", "delete64"},
              NEW to \in {"delete32", "list64", "delete64", "restart"},
              ListFolder(abi, from, to) \/ DeleteFolder(abi, from, to)
       PROVE  AsksOnce'
  BY <1>10 DEF ListFolder, DeleteFolder, mainVars, sessionVars, randomVars
<1>11. CASE DeleteDevFolder
  BY <1>10, <1>11 DEF DeleteDevFolder
<1> QED  BY <1>1, <1>2, <1>3, <1>4, <1>5, <1>6, <1>7, <1>8, <1>9, <1>11 DEF NextStartup

\* A set of at most one element is empty or a singleton.
LEMMA AtMostOne ==
  ASSUME NEW G, IsFiniteSet(G), Cardinality(G) <= 1
  PROVE  G = {} \/ \E g \in G : G = {g}
<1>1. SUFFICES ASSUME NEW g \in G, NEW h \in G, h # g PROVE FALSE
  OBVIOUS
<1>2. Cardinality({g}) = 1 /\ IsFiniteSet({g})
  BY FS_Singleton
<1>3. Cardinality({g} \cup {h}) = 2
  BY <1>1, <1>2, FS_AddElement
<1>4. {g} \cup {h} \subseteq G
  BY <1>1
<1>5. Cardinality({g} \cup {h}) <= Cardinality(G)
  BY <1>4, FS_Subset
<1>6. Cardinality(G) \in Nat
  BY FS_CardinalityType
<1> QED  BY <1>3, <1>5, <1>6

\* No name is generated at the start.
LEMMA InitName == InitStartup => NameInv
BY FS_EmptySet DEF InitStartup, NameInv, NoneGenerated, Callers

\* What the callers of getDevRandom know of each other's names survives every step.
LEMMA NameKeeps ==
  ASSUME TInv, Kept, AsksOnce, NameInv, [NextStartup]_allVars PROVE NameInv'
<1> DEFINE S == {"idle", "field", "exists", "read", "generate", "open", "bytes",
                 "write", "return", "done"}
<1>0. device' = device
  BY DEF NextStartup, allVars, startupVars, GetDevRandom, InitArgs, SubmitTasks, InitDone,
     MainNamed, StartWait, CheckFiles, Connect, ReadMagiskTmpfsPath, ReadModules, WriteStatus,
     WriteFolder, ReadNativeBridge, SessionGone, SessionStep, SystemServerDies, BinderNamed,
     DeleteDevFolder, ListFolder, DeleteFolder, RestartServer
<1>t. /\ random \in [Callers -> S] /\ name \in [Callers -> Names \cup {"none"}]
      /\ devRandom \in Names \cup {"none"} /\ file \in Names \cup {"missing", "empty"}
      /\ device.first \in {"missing", "empty", "kept"}
      /\ \A c \in Callers : random[c] = "read" => file # "missing"
      /\ \A c \in Callers : random[c] \in {"open", "bytes", "write", "return"} => devRandom # "none"
  BY DevicesAssumption DEF TInv, TypeOKStartup, Present, Device
<1>n. /\ Callers \subseteq Names /\ "kept" \notin Callers
      /\ "none" \notin Names /\ "missing" \notin Names /\ "empty" \notin Names
  BY LoadersAssumption DEF Names, Callers
<1>1. CASE UNCHANGED randomVars
  BY <1>0, <1>1 DEF randomVars, NameInv, NoneGenerated, OneGenerated
<1>2. ASSUME NEW c \in Callers, Ask(c), random[c] = "idle" PROVE NameInv'
  BY <1>0, <1>2, <1>t DEF Ask, NameInv, NoneGenerated, OneGenerated
<1>3. ASSUME NEW c \in Callers, FieldRead(c) \/ FileExists(c) PROVE NameInv'
  BY <1>0, <1>3, <1>t DEF FieldRead, FileExists, Goto, NameInv, NoneGenerated, OneGenerated
<1>4. ASSUME NEW c \in Callers, FileRead(c) PROVE NameInv'
  <2>1. generated' = generated /\ file' = file /\ name' = name
    BY <1>4 DEF FileRead
  <2>2. ASSUME generated = {} PROVE NoneGenerated'
    BY <1>0, <1>4, <1>t, <1>n, <2>1, <2>2 DEF FileRead, Goto, NameInv, NoneGenerated
  <2>3. ASSUME NEW g \in Callers, generated = {g}, device.first # "kept" PROVE OneGenerated(g)'
    BY <1>0, <1>4, <1>t, <1>n, <2>1, <2>3 DEF FileRead, Goto, NameInv, OneGenerated
  <2> QED  BY <1>0, <2>1, <2>2, <2>3 DEF NameInv
<1>5. ASSUME NEW c \in Callers, Generate(c) PROVE NameInv'
  <2>1. IsFiniteSet(generated')
    BY <1>5, FS_AddElement DEF Generate, NameInv
  <2>2. generated' # {}
    BY <1>5 DEF Generate
  <2>3. ASSUME NEW g \in Callers, generated' = {g}, device.first # "kept" PROVE OneGenerated(g)'
    <3>1. g = c /\ (generated = {} \/ generated = {c})
      BY <1>5, <2>3 DEF Generate
    <3>2. CASE generated = {}
      <4>1. devRandom = "none"
        BY <2>3, <3>2, <1>t, <1>n DEF NameInv, NoneGenerated
      <4> QED  BY <1>0, <1>5, <1>t, <2>3, <3>1, <3>2, <4>1 DEF Generate, Goto, NameInv,
                  NoneGenerated, OneGenerated
    <3>3. CASE generated = {c}
      BY <1>0, <1>5, <1>t, <2>3, <3>1, <3>3 DEF Generate, Goto, NameInv, OneGenerated
    <3> QED  BY <3>1, <3>2, <3>3
  <2> QED  BY <1>0, <2>1, <2>2, <2>3 DEF NameInv
<1>6. ASSUME NEW c \in Callers, FileOpen(c) \/ FieldBytes(c) \/ FileWrite(c) PROVE NameInv'
  <2>1. generated' = generated /\ devRandom' = devRandom
    BY <1>6 DEF FileOpen, FieldBytes, FileWrite
  <2>2. generated # {}
    BY <1>6 DEF FileOpen, FieldBytes, FileWrite, NameInv, NoneGenerated
  <2>3. ASSUME NEW g \in Callers, generated = {g}, device.first # "kept" PROVE OneGenerated(g)'
    <3>1. c = g
      BY <1>6, <2>3 DEF FileOpen, FieldBytes, FileWrite, NameInv, OneGenerated
    <3>2. CASE FileOpen(c)
      BY <1>0, <1>t, <2>3, <3>1, <3>2 DEF FileOpen, Goto, NameInv, OneGenerated
    <3>3. CASE FieldBytes(c)
      BY <1>0, <1>t, <2>3, <3>1, <3>3 DEF FieldBytes, Goto, NameInv, OneGenerated
    <3>4. CASE FileWrite(c)
      <4>1. name[c] = g
        BY <2>3, <3>1, <3>4 DEF TInv, Present, FileWrite, NameInv, OneGenerated
      <4> QED  BY <1>0, <1>t, <2>3, <3>1, <3>4, <4>1 DEF FileWrite, Goto, NameInv, OneGenerated
    <3> QED  BY <1>6, <3>2, <3>3, <3>4
  <2> QED  BY <1>0, <2>1, <2>2, <2>3 DEF NameInv
<1>7. ASSUME NEW c \in Callers, Return(c) PROVE NameInv'
  BY <1>0, <1>7, <1>t DEF Return, Goto, NameInv, NoneGenerated, OneGenerated
<1>8. \/ \E c \in Callers : GetDevRandom(c) \/ (Ask(c) /\ random[c] = "idle")
      \/ UNCHANGED randomVars
  BY DEF NextStartup, allVars, startupVars, randomVars, InitArgs, SubmitTasks, InitDone, MainNamed,
     StartWait, CheckFiles, Connect, ReadMagiskTmpfsPath, ReadModules, WriteStatus, WriteFolder,
     ReadNativeBridge, SessionGone, SessionStep, SystemServerDies, BinderNamed, DeleteDevFolder,
     ListFolder, DeleteFolder, RestartServer, Callers, AsksOnce
<1> QED  BY <1>1, <1>2, <1>3, <1>4, <1>5, <1>6, <1>7, <1>8 DEF GetDevRandom

\* In such states the callers agree on the name.
LEMMA NameInvAgrees == ASSUME TInv, NameInv PROVE NameAgrees
<1> SUFFICES ASSUME OneName
             PROVE  /\ \A c \in Callers : name[c] \in {"none", devRandom}
                    /\ (\A c \in Callers : random[c] \in {"idle", "done"}) /\ devRandom # "none"
                         /\ device.writable => file = devRandom
  BY DEF NameAgrees
<1>1. generated = {} \/ \E g \in Callers : generated = {g}
  BY AtMostOne DEF OneName, NameInv, TInv, TypeOKStartup
<1>2. CASE generated = {}
  BY <1>2 DEF NameInv, NoneGenerated
<1>3. ASSUME NEW g \in Callers, generated = {g}
      PROVE  /\ \A c \in Callers : name[c] \in {"none", devRandom}
             /\ (\A c \in Callers : random[c] \in {"idle", "done"}) /\ devRandom # "none"
                  /\ device.writable => file = devRandom
  BY <1>3 DEF OneName, NameInv, OneGenerated
<1> QED  BY <1>1, <1>2, <1>3

\* If one thread generated a name, all threads have got that one, and the file keeps it.
THEOREM NameAgreesAlways == SpecStartup => []NameAgrees
BY NameInvAgrees, InitKept, KeptKept, InitAsks, AsksKept, InitName, NameKeeps, TInvAlways, PTL
   DEF SpecStartup

-----------------------------------------------------------------------------
(* The folders. *)

\* What a folder says of a zygote is in the folder of its ABI, of the one name there is.
Filed ==
  \A s \in status : /\ s[1][1] = AbiOf(s[2])
                    /\ OneName => s[1][2] = devRandom

\* No zygote that died writes to a folder once binderDied began; what is left of those is in
\* folders that binderDied has not deleted yet.
Deleted ==
  /\ binder # "alive" => main = "started"
  /\ binder \notin {"alive", "random"} => random["binder"] = "done"
  /\ binder # "alive" /\ "session" \notin late => \A z \in Loaders \ Reborn : session[z] = "end"
  /\ binder \in {"alive", "random", "list32", "delete32"} => renamed = {}
  /\ binder \in {"list64", "delete64"} => renamed \subseteq {"32"}
  /\ "session" \notin late /\ OneName /\ renamed # Abis =>
       /\ binder = "delete32" => \A s \in status \ listed : s[1][1] = "32" => s[2] \in Reborn
       /\ binder = "delete64" => \A s \in status \ listed : s[1][1] = "64" => s[2] \in Reborn
       /\ binder \in {"list64", "delete64", "restart", "done"} =>
            \A s \in status : s[1][1] = "32" => s[2] \in Reborn
       /\ binder \in {"restart", "done"} =>
            \A s \in status : s[1][1] = "64" => s[2] \in Reborn

FolderInv == Filed /\ Deleted

\* There is no folder at the start.
LEMMA InitFolders == InitStartup => FolderInv
BY DEF InitStartup, FolderInv, Filed, Deleted

\* While at most one thread has generated a name, the name does not change once it is there.
LEMMA NameStays ==
  ASSUME TInv, Kept, NameInv, NameInv', [NextStartup]_allVars
  PROVE  /\ OneName' => OneName
         /\ OneName' /\ devRandom # "none" => devRandom' = devRandom
<1>1. generated \subseteq generated' /\ device' = device
  BY DEF NextStartup, allVars, startupVars, randomVars, GetDevRandom, FieldRead, FileExists, FileRead,
     Generate, FileOpen, FieldBytes, FileWrite, Return, InitArgs, SubmitTasks, InitDone, MainNamed,
     StartWait, CheckFiles, Connect, ReadMagiskTmpfsPath, ReadModules, WriteStatus, WriteFolder,
     ReadNativeBridge, SessionGone, SessionStep, SystemServerDies, BinderNamed, DeleteDevFolder,
     ListFolder, DeleteFolder, RestartServer, Ask
<1>2. Cardinality(generated) <= Cardinality(generated')
  BY <1>1, FS_Subset DEF NameInv
<1>3. Cardinality(generated) \in Nat /\ Cardinality(generated') \in Nat
  BY FS_CardinalityType DEF NameInv
<1>4. ASSUME OneName', devRandom # "none" PROVE devRandom' = devRandom
  <2>0. Cardinality(generated') <= 1 /\ (device.first = "kept" => generated' = {})
    BY <1>1, <1>4 DEF OneName
  <2>1. generated = {} \/ \E g \in Callers : generated = {g}
    BY <1>2, <1>3, <2>0, AtMostOne DEF NameInv, TInv, TypeOKStartup
  <2>2. ASSUME NEW c \in Callers, FileRead(c) PROVE devRandom' = devRandom
    <3>1. CASE generated = {}
      BY <1>4, <2>2, <3>1 DEF FileRead, NameInv, NoneGenerated
    <3>2. ASSUME NEW g \in Callers, generated = {g} PROVE devRandom' = devRandom
      <4>0. device.first # "kept"
        BY <1>1, <2>0, <3>2
      <4>1. file # "missing"
        BY <2>2 DEF FileRead, TInv, Present
      <4> QED  BY <2>2, <3>2, <4>0, <4>1 DEF FileRead, NameInv, OneGenerated
    <3> QED  BY <2>1, <3>1, <3>2
  <2>3. ASSUME NEW c \in Callers, Generate(c) PROVE devRandom' = devRandom
    <3>1. generated' = generated \cup {c} /\ devRandom' = c /\ random[c] = "generate"
      BY <2>3 DEF Generate
    <3>2. generated' = {c}
      <4>1. generated' \subseteq Callers
        BY <3>1 DEF TInv, TypeOKStartup
      <4>2. generated' = {} \/ \E g \in Callers : generated' = {g}
        BY <2>0, <4>1, AtMostOne DEF NameInv
      <4> QED  BY <3>1, <4>2
    <3>3. CASE generated = {}
      <4>1. devRandom = device.first /\ device.first # "kept"
        BY <1>4, <2>0, <3>1, <3>2, <3>3 DEF NameInv, NoneGenerated
      <4>2. device.first \in {"missing", "empty", "kept"} /\ devRandom \in Names
        BY <1>4, DevicesAssumption DEF Device, TInv, TypeOKStartup
      <4> QED  BY <4>1, <4>2, LoadersAssumption DEF Names, Callers
    <3>4. CASE generated = {c}
      BY <2>0, <3>1, <3>2, <3>4 DEF NameInv, OneGenerated
    <3> QED  BY <3>1, <3>2, <3>3, <3>4
  <2>4. \/ \E c \in Callers : FileRead(c) \/ Generate(c)
        \/ devRandom' = devRandom
    BY DEF NextStartup, allVars, startupVars, randomVars, GetDevRandom, FieldRead, FileExists,
       FileOpen, FieldBytes, FileWrite, Return, InitArgs, SubmitTasks, InitDone, MainNamed,
       StartWait, CheckFiles, Connect, ReadMagiskTmpfsPath, ReadModules, WriteStatus, WriteFolder,
       ReadNativeBridge, SessionGone, SystemServerDies, BinderNamed, DeleteDevFolder, ListFolder,
       DeleteFolder, RestartServer, Ask
  <2> QED  BY <2>2, <2>3, <2>4
<1> QED  BY <1>1, <1>2, <1>3, <1>4 DEF OneName

\* Every entry is in the folder of its ABI and of the name.
LEMMA FiledKept ==
  ASSUME TInv, Kept, NameInv, NameInv', Filed, [NextStartup]_allVars PROVE Filed'
<1>0. ASSUME NEW s \in status PROVE s[1][2] \in Names
  BY DEF TInv, TypeOKStartup, Folders
<1>n. "none" \notin Names
  BY LoadersAssumption DEF Names, Callers
<1>1. ASSUME status' \subseteq status PROVE Filed'
  BY <1>0, <1>n, <1>1, NameStays DEF Filed
<1>2. ASSUME NEW z \in Loaders, WriteFolder(z) PROVE Filed'
  <2>1. status' = status \cup {<<<<AbiOf(z), name[z]>>, z>>} /\ UNCHANGED <<devRandom, generated>>
    BY <1>2 DEF WriteFolder, randomVars
  <2>2. name[z] # "none"
    BY <1>2 DEF WriteFolder, TInv, Present, Callers
  <2>3. OneName => name[z] = devRandom
    BY <2>2, NameInvAgrees DEF NameAgrees, Callers
  <2>4. OneName' => OneName
    BY NameStays
  <2> QED  BY <2>1, <2>3, <2>4 DEF Filed
<1>3. ASSUME NEW abi, NEW from, NEW to, DeleteFolder(abi, from, to) PROVE status' \subseteq status
  BY <1>3 DEF DeleteFolder, InFolder
<1>4. \/ \E z \in Loaders : WriteFolder(z)
      \/ \E abi, from, to : DeleteFolder(abi, from, to)
      \/ status' = status
  BY DEF NextStartup, allVars, startupVars, GetDevRandom, InitArgs, SubmitTasks, InitDone, MainNamed,
     StartWait, CheckFiles, Connect, ReadMagiskTmpfsPath, ReadModules, WriteStatus,
     ReadNativeBridge, SessionGone, SystemServerDies, BinderNamed, DeleteDevFolder, ListFolder,
     RestartServer
<1> QED  BY <1>1, <1>2, <1>3, <1>4

\* The zygotes that died have no session, or "session" \in late; binderDied goes through the folders.
LEMMA DeletedKept ==
  ASSUME TInv, TInv', Kept, NameInv, NameInv', AsksOnce, FolderInv, [NextStartup]_allVars
  PROVE  Deleted'
<1>l. Loaders \subseteq Callers /\ "binder" \in Callers \ Loaders /\ "main" # "binder"
  BY LoadersAssumption DEF Callers
<1>t. /\ session \in [Loaders -> {"boot", "tmpfs", "modules", "status", "random", "bridge", "end"}]
      /\ DOMAIN random = Callers
  BY DEF TInv, TypeOKStartup
<1>g. OneName' => OneName
  BY NameStays
<1>d. Deleted
  BY DEF FolderInv
<1>1. CASE UNCHANGED allVars
  BY <1>1, <1>d, <1>g DEF allVars, startupVars, mainVars, sessionVars, randomVars, binderVars, Deleted
<1>2. ASSUME NEW c \in Callers, GetDevRandom(c) PROVE Deleted'
  <2>1. UNCHANGED <<main, session, status, binder, listed, renamed, late>>
    BY <1>2 DEF GetDevRandom, mainVars, sessionVars, binderVars
  <2>2. binder \notin {"alive", "random"} => random'["binder"] = "done"
    BY <1>2, <1>l, <1>d, <1>g, RandomFrame DEF Deleted
  <2> QED  BY <2>1, <2>2, <1>d, <1>g DEF Deleted
<1>3. ASSUME NEW t \in Threads, CheckFiles(t) PROVE Deleted'
  BY <1>3, <1>d, <1>g DEF CheckFiles, startupVars, mainVars, sessionVars, randomVars, binderVars, Deleted
<1>4. CASE InitArgs \/ SubmitTasks \/ MainNamed \/ StartWait
  BY <1>4, <1>d, <1>g DEF InitArgs, SubmitTasks, MainNamed, StartWait, sessionVars, randomVars, binderVars,
     Deleted
<1>5. CASE InitDone
  BY <1>5, <1>d, <1>g, <1>l, <1>t DEF InitDone, Ask, sessionVars, binderVars, Deleted
<1>6. ASSUME NEW z \in Loaders,
             Connect(z) \/ ReadMagiskTmpfsPath(z) \/ ReadModules(z) \/ ReadNativeBridge(z)
             \/ SessionGone(z)
      PROVE  Deleted'
  <2>1. /\ UNCHANGED <<main, random, generated, status, binder, listed, renamed, late>>
        /\ \A y \in Loaders \ {z} : session'[y] = session[y]
        /\ session[z] # "end" \/ session'[z] = "end"
    BY <1>6, <1>t DEF Connect, ReadMagiskTmpfsPath, ReadModules, ReadNativeBridge, SessionGone,
       SessionStep, mainVars, randomVars, binderVars
  <2>2. binder # "alive" /\ "session" \notin late => \A y \in Loaders \ Reborn : session'[y] = "end"
    BY <2>1, <1>d, <1>g DEF Deleted
  <2> QED  BY <2>1, <2>2, <1>d, <1>g DEF Deleted
<1>7. ASSUME NEW z \in Loaders, WriteStatus(z) PROVE Deleted'
  BY <1>7, <1>t, <1>l, <1>d, <1>g DEF WriteStatus, Ask, SessionStep, mainVars, binderVars, Deleted
<1>8. ASSUME NEW z \in Loaders, WriteFolder(z) PROVE Deleted'
  <2>1. /\ UNCHANGED <<main, random, generated, binder, listed, renamed, late>>
        /\ status' = status \cup {<<<<AbiOf(z), name[z]>>, z>>}
        /\ session[z] = "random" /\ session' = [session EXCEPT ![z] = "bridge"]
    BY <1>8 DEF WriteFolder, SessionStep, mainVars, randomVars, binderVars
  <2>2. binder # "alive" /\ "session" \notin late => z \in Reborn
    BY <2>1, <1>d, <1>g DEF Deleted
  <2> QED  BY <2>1, <2>2, <1>t, <1>d, <1>g DEF Deleted
<1>9. CASE SystemServerDies
  <2>1. "session" \notin late' => \A z \in Loaders \ Reborn : session[z] = "end"
    BY <1>9 DEF SystemServerDies
  <2> QED  BY <1>9, <2>1, <1>d, <1>g DEF SystemServerDies, Ask, mainVars, sessionVars, Deleted
<1>10. CASE BinderNamed \/ RestartServer
  BY <1>10, <1>d, <1>g DEF BinderNamed, RestartServer, mainVars, sessionVars, randomVars, Deleted
<1>a. ASSUME binder \notin {"alive", "random"}, OneName, NEW abi
      PROVE  InFolder(abi) = {s \in status : s[1][1] = abi}
  <2>1. name["binder"] = devRandom
    BY <1>a, <1>d, <1>g, <1>l, NameInvAgrees DEF Deleted, NameAgrees, TInv, Present
  <2>2. \A s \in status : s[1] = <<s[1][1], s[1][2]>> /\ s[1][2] = devRandom
    BY <1>a DEF FolderInv, Filed, TInv, TypeOKStartup, Folders
  <2> QED  BY <2>1, <2>2 DEF InFolder
<1>11. CASE ListFolder("32", "list32", "delete32") \/ ListFolder("64", "list64", "delete64")
  BY <1>11, <1>d, <1>g, <1>a DEF ListFolder, mainVars, sessionVars, randomVars, Deleted
<1>12. CASE DeleteFolder("32", "delete32", "list64")
  BY <1>12, <1>d, <1>g, <1>a DEF DeleteFolder, mainVars, sessionVars, randomVars, Deleted
<1>13. CASE DeleteFolder("64", "delete64", "restart")
  BY <1>13, <1>d, <1>g, <1>a DEF DeleteFolder, mainVars, sessionVars, randomVars, Deleted, Abis
<1> QED  BY <1>1, <1>2, <1>3, <1>4, <1>5, <1>6, <1>7, <1>8, <1>9, <1>10, <1>11, <1>12, <1>13
         DEF NextStartup, DeleteDevFolder

\* After a soft reboot the folders say nothing of the zygotes that died.
THEOREM FoldersFreshAlways == SpecStartup => []FoldersFresh
<1>1. ASSUME TInv, FolderInv PROVE FoldersFresh
  BY <1>1 DEF TInv, TypeOKStartup, Folders, Abis, FolderInv, Deleted, FoldersFresh
<1>2. ASSUME TInv, TInv', Kept, NameInv, NameInv', AsksOnce, FolderInv, [NextStartup]_allVars
      PROVE  FolderInv'
  BY <1>2, FiledKept, DeletedKept DEF FolderInv
<1> QED  BY <1>1, <1>2, InitKept, KeptKept, InitAsks, AsksKept, InitName, NameKeeps, InitFolders,
            TInvAlways, PTL DEF SpecStartup
=============================================================================
