----------------------------- MODULE DaemonStartup -----------------------------
(***************************************************************************)
(* rirud from the static initialiser of Daemon, which starts the server    *)
(* before main has run init, to the soft reboot after which binderDied     *)
(* deletes the /dev/riru folders.  Threads meet without a lock: main, the  *)
(* two tasks that collect modules (FileContext), the sessions of the       *)
(* loaders, and the Binder thread that runs binderDied.  The folders are   *)
(* named by getDevRandom, a check-then-act on a static field and a file.   *)
(***************************************************************************)
EXTENDS FileContext

CONSTANTS
  Loaders,  \* zygotes that connect
  Reborn,   \* those the soft reboot starts
  Is64,     \* those of 64 bits
  Devices   \* kinds of devices: see Device

Abis      == {"32", "64"}
AbiOf(z)  == IF z \in Is64 THEN "64" ELSE "32"
TaskOf(z) == IF z \in Is64 THEN "modules64" ELSE "modules"
Callers   == {"main", "binder"} \cup Loaders   \* of getDevRandom
Names     == {"kept"} \cup Callers             \* kept since an earlier boot, or who generated it
Folders   == Abis \X Names

\* dev_random at the start, whether it can be written, for whom reading it throws, and the
\* folders that cannot be deleted.
Device == [first : {"missing", "empty", "kept"}, writable : BOOLEAN, unread : SUBSET Callers,
           stuck : SUBSET Abis]

ASSUME DevicesAssumption == Devices \subseteq Device
ASSUME LoadersAssumption ==
  /\ Reborn \subseteq Loaders /\ Is64 \subseteq Loaders
  /\ "init" \in Threads /\ \A z \in Loaders : TaskOf(z) \in Threads
  /\ {"main", "binder", "kept", "none", "missing", "empty"} \cap Loaders = {}

VARIABLES
  device,     \* the device
  main,       \* where main is
  bridgeSet,  \* originalNativeBridge is not null
  session,    \* per loader: what its session does next
  bridge,     \* per loader: the answer to READ_NATIVE_BRIDGE
  devRandom,  \* the static field
  file,       \* /data/adb/riru/dev_random: missing, empty or a name
  random,     \* per caller: where it is in getDevRandom
  name,       \* per caller: the name it has got
  generated,  \* history: callers that generated a name
  status,     \* what the /dev/riru folders hold: folder and loader it is about
  binder,     \* where binderDied is
  listed,     \* what deleteDir has listed in its folder
  renamed,    \* history: the folders that were renamed
  stopped,    \* the server is stopped
  late        \* history: what was still running when binderDied began

mainVars    == <<main, bridgeSet>>
sessionVars == <<session, bridge>>
randomVars  == <<devRandom, file, random, name, generated>>
binderVars  == <<binder, listed, renamed, stopped, late>>
startupVars == <<device, mainVars, sessionVars, randomVars, status, binderVars>>
allVars     == <<vars, startupVars>>

TypeOKStartup ==
  /\ TypeOK
  /\ device \in Devices
  /\ main \in {"args", "submit", "checks", "random", "wait", "started"}
  /\ bridgeSet \in BOOLEAN
  /\ session \in [Loaders -> {"boot", "tmpfs", "modules", "status", "random", "bridge", "end"}]
  /\ bridge \in [Loaders -> {"none", "answered", "thrown"}]
  /\ devRandom \in Names \cup {"none"} /\ file \in Names \cup {"missing", "empty"}
  /\ random \in [Callers -> {"idle", "field", "exists", "read", "generate", "open", "bytes",
                             "write", "return", "done"}]
  /\ name \in [Callers -> Names \cup {"none"}] /\ generated \subseteq Callers
  /\ status \subseteq Folders \X Loaders
  /\ binder \in {"alive", "random", "list32", "delete32", "list64", "delete64", "restart", "done"}
  /\ listed \subseteq Folders \X Loaders /\ renamed \subseteq Abis
  /\ stopped \in BOOLEAN /\ late \subseteq {"session", "server"}

InitStartup ==
  /\ Init
  /\ device \in Devices
  /\ main = "args" /\ bridgeSet = FALSE
  /\ session = [z \in Loaders |-> "boot"] /\ bridge = [z \in Loaders |-> "none"]
  /\ devRandom = "none" /\ file = device.first
  /\ random = [c \in Callers |-> "idle"] /\ name = [c \in Callers |-> "none"] /\ generated = {}
  /\ status = {}
  /\ binder = "alive" /\ listed = {} /\ renamed = {} /\ stopped = FALSE /\ late = {}

-----------------------------------------------------------------------------
(* getDevRandom. *)

Ask(c) == random' = [random EXCEPT ![c] = "field"] /\ UNCHANGED <<devRandom, file, name, generated>>

Goto(c, to) == random' = [random EXCEPT ![c] = to]

FieldRead(c) ==
  /\ random[c] = "field"
  /\ IF devRandom = "none" THEN Goto(c, "exists") ELSE Goto(c, "return")
  /\ UNCHANGED <<devRandom, file, name, generated>>

FileExists(c) ==
  /\ random[c] = "exists"
  /\ IF file = "missing" THEN Goto(c, "generate") ELSE Goto(c, "read")
  /\ UNCHANGED <<devRandom, file, name, generated>>

\* Mutant: the name read is not returned.
FileReadFallsThrough(c) ==
  /\ random[c] = "read" /\ Goto(c, "generate")
  /\ devRandom' = IF file = "empty" \/ c \in device.unread THEN devRandom ELSE file
  /\ UNCHANGED <<file, name, generated>>

\* A file that is empty, or that another thread has just truncated, is not read from.  What
\* opening or reading it throws is caught: a name is generated over the one it holds.
FileRead(c) ==
  /\ random[c] = "read"
  /\ IF file = "empty" \/ c \in device.unread
     THEN Goto(c, "generate") /\ devRandom' = devRandom
     ELSE Goto(c, "return") /\ devRandom' = file
  /\ UNCHANGED <<file, name, generated>>

Generate(c) ==
  /\ random[c] = "generate" /\ Goto(c, "open")
  /\ devRandom' = c /\ generated' = generated \cup {c}
  /\ UNCHANGED <<file, name>>

\* FileOutputStream creates or truncates the file, or throws.
FileOpen(c) ==
  /\ random[c] = "open"
  /\ IF device.writable THEN Goto(c, "bytes") /\ file' = "empty" ELSE Goto(c, "return") /\ file' = file
  /\ UNCHANGED <<devRandom, name, generated>>

\* The bytes are those of the field, not of the name generated.
FieldBytes(c) ==
  /\ random[c] = "bytes" /\ Goto(c, "write")
  /\ name' = [name EXCEPT ![c] = devRandom]
  /\ UNCHANGED <<devRandom, file, generated>>

\* Mutant: the file is opened and left empty.
FileWriteNothing(c) ==
  /\ random[c] = "write" /\ Goto(c, "return")
  /\ UNCHANGED <<devRandom, file, name, generated>>

\* All names have the same length: the last writer's remains.
FileWrite(c) ==
  /\ random[c] = "write" /\ Goto(c, "return")
  /\ file' = name[c]
  /\ UNCHANGED <<devRandom, name, generated>>

Return(c) ==
  /\ random[c] = "return" /\ Goto(c, "done")
  /\ name' = [name EXCEPT ![c] = devRandom]
  /\ UNCHANGED <<devRandom, file, generated>>

GetDevRandom(c) ==
  /\ \/ FieldRead(c) \/ FileExists(c) \/ FileRead(c) \/ Generate(c)
     \/ FileOpen(c) \/ FieldBytes(c) \/ FileWrite(c) \/ Return(c)
  /\ UNCHANGED <<vars, device, mainVars, sessionVars, status, binderVars>>

-----------------------------------------------------------------------------
(* main: init, then startWait on the Looper. *)

\* init: the arguments.
InitArgs ==
  /\ main = "args" /\ main' = "submit" /\ bridgeSet' = TRUE
  /\ UNCHANGED <<vars, device, sessionVars, randomVars, status, binderVars>>

\* init: one task for each ABI.
SubmitTasks ==
  /\ main = "submit" /\ main' = "checks"
  /\ UNCHANGED <<vars, device, bridgeSet, sessionVars, randomVars, status, binderVars>>

\* Mutant: the tasks run from the static initialiser on.
SubmittedAtOnce == TRUE

Submitted == main \notin {"args", "submit"}

\* init and the tasks check files.
CheckFiles(t) ==
  /\ Submitted
  /\ ReadFlag(t) \/ CheckFile(t) \/ ResetFile(t) \/ WriteFlag(t)
  /\ UNCHANGED startupVars

InitDone ==
  /\ main = "checks" /\ Done("init") /\ main' = "random" /\ Ask("main")
  /\ UNCHANGED <<vars, device, bridgeSet, sessionVars, status, binderVars>>

MainNamed ==
  /\ main = "random" /\ random["main"] = "done" /\ main' = "wait"
  /\ UNCHANGED <<vars, device, bridgeSet, sessionVars, randomVars, status, binderVars>>

Recorded(z) == session[z] \in {"random", "bridge"} \/ name[z] # "none"

\* startWait: the system server is up.  Riru is loaded if every zygote was recorded; then
\* the server is stopped.
StartWait ==
  /\ main = "wait" /\ main' = "started"
  /\ stopped' = \A z \in Loaders \ Reborn : Recorded(z)
  /\ UNCHANGED <<vars, device, bridgeSet, sessionVars, randomVars, status, binder, listed, renamed,
                 late>>

-----------------------------------------------------------------------------
(* The sessions of the loaders. *)

SessionStep(z, from, to) ==
  /\ session[z] = from /\ session' = [session EXCEPT ![z] = to]
  /\ UNCHANGED <<vars, device, mainVars, binderVars>>

\* The server is up before main runs.
Connect(z) ==
  /\ ~stopped /\ (z \in Reborn => binder # "alive")
  /\ SessionStep(z, "boot", "tmpfs") /\ UNCHANGED <<bridge, randomVars, status>>

\* libriru.so, which lies in the directory answered, may fail to load.
ReadMagiskTmpfsPath(z) ==
  \E to \in {"modules", "bridge"} :
    SessionStep(z, "tmpfs", to) /\ UNCHANGED <<bridge, randomVars, status>>

\* FutureTask.get waits for the task, also for one that is not submitted yet.
ReadModules(z) ==
  /\ Submitted /\ Done(TaskOf(z))
  /\ SessionStep(z, "modules", "status") /\ UNCHANGED <<bridge, randomVars, status>>

WriteStatus(z) ==
  SessionStep(z, "status", "random") /\ Ask(z) /\ UNCHANGED <<bridge, status>>

WriteFolder(z) ==
  /\ random[z] = "done"
  /\ status' = status \cup {<<<<AbiOf(z), name[z]>>, z>>}
  /\ SessionStep(z, "random", "bridge") /\ UNCHANGED <<bridge, randomVars>>

\* handleReadOriginalNativeBridge throws if init has not run.
ReadNativeBridge(z) ==
  /\ bridge' = [bridge EXCEPT ![z] = IF bridgeSet THEN "answered" ELSE "thrown"]
  /\ SessionStep(z, "bridge", "end") /\ UNCHANGED <<randomVars, status>>

\* The zygote is gone: what it has sent is handled, and then the stream ends.
SessionGone(z) ==
  /\ binder # "alive" /\ z \notin Reborn
  /\ \E from \in {"boot", "tmpfs", "modules", "status", "bridge"} : SessionStep(z, from, "end")
  /\ UNCHANGED <<bridge, randomVars, status>>

-----------------------------------------------------------------------------
(* binderDied: deleteDevFolder, then restartServer. *)

\* Mutant: the server is restarted before the folders are deleted.
RestartFirst ==
  /\ main = "started" /\ binder = "alive"
  /\ binder' = "random" /\ Ask("binder") /\ stopped' = FALSE
  /\ late' = {c \in {"session", "server"} :
               IF c = "server" THEN ~stopped ELSE \E z \in Loaders \ Reborn : session[z] # "end"}
  /\ UNCHANGED <<vars, device, mainVars, sessionVars, status, listed, renamed>>

SystemServerDies ==
  /\ main = "started" /\ binder = "alive"
  /\ binder' = "random" /\ Ask("binder")
  /\ late' = {c \in {"session", "server"} :
               IF c = "server" THEN ~stopped ELSE \E z \in Loaders \ Reborn : session[z] # "end"}
  /\ UNCHANGED <<vars, device, mainVars, sessionVars, status, listed, renamed, stopped>>

BinderNamed ==
  /\ binder = "random" /\ random["binder"] = "done" /\ binder' = "list32"
  /\ UNCHANGED <<vars, device, mainVars, sessionVars, randomVars, status, listed, renamed,
                 stopped, late>>

InFolder(abi) == {s \in status : s[1] = <<abi, name["binder"]>>}

\* Mutant: only folders that can be deleted as a whole are.
DeleteFolderAtOnce(abi, from, to) ==
  /\ binder = from /\ binder' = to
  /\ status' = IF abi \in device.stuck \/ InFolder(abi) # listed THEN status ELSE status \ listed
  /\ UNCHANGED <<vars, device, mainVars, sessionVars, randomVars, listed, renamed, stopped, late>>

ListFolder(abi, from, to) ==
  /\ binder = from /\ binder' = to
  /\ listed' = InFolder(abi)
  /\ UNCHANGED <<vars, device, mainVars, sessionVars, randomVars, status, renamed, stopped, late>>

\* deleteDir, and renameTo for a folder that is not empty then.  Both folders are renamed
\* to the name of the 32 bit one and the time: within one millisecond the second fails.
DeleteFolder(abi, from, to) ==
  /\ binder = from /\ binder' = to
  /\ LET left == IF abi \in device.stuck THEN InFolder(abi) ELSE InFolder(abi) \ listed
     IN IF left = {}
        THEN status' = status \ InFolder(abi) /\ renamed' = renamed
        ELSE /\ renamed' = renamed \cup {abi}
             /\ \/ status' = status \ InFolder(abi)
                \/ renamed # {} /\ status' = (status \ InFolder(abi)) \cup left
  /\ UNCHANGED <<vars, device, mainVars, sessionVars, randomVars, listed, stopped, late>>

DeleteDevFolder ==
  \/ ListFolder("32", "list32", "delete32") \/ DeleteFolder("32", "delete32", "list64")
  \/ ListFolder("64", "list64", "delete64") \/ DeleteFolder("64", "delete64", "restart")

RestartServer ==
  /\ binder = "restart" /\ binder' = "done" /\ stopped' = FALSE
  /\ UNCHANGED <<vars, device, mainVars, sessionVars, randomVars, status, listed, renamed, late>>

NextStartup ==
  \/ \E c \in Callers : GetDevRandom(c)
  \/ InitArgs \/ SubmitTasks \/ InitDone \/ MainNamed \/ StartWait
  \/ \E t \in Threads : CheckFiles(t)
  \/ \E z \in Loaders : Connect(z) \/ ReadMagiskTmpfsPath(z) \/ ReadModules(z) \/ WriteStatus(z)
                        \/ WriteFolder(z) \/ ReadNativeBridge(z) \/ SessionGone(z)
  \/ SystemServerDies \/ BinderNamed \/ DeleteDevFolder \/ RestartServer

SpecStartup == InitStartup /\ [][NextStartup]_allVars

-----------------------------------------------------------------------------
(* Properties. *)

\* A zygote that loaded libriru.so gets the original native bridge, however early it
\* connects: READ_MODULES, which comes first, waits for a task init submits.
BridgeKnown == \A z \in Loaders : bridge[z] = "thrown" => name[z] = "none"

\* There is at most one name: the one dev_random had, or one that one thread generated.
OneName == Cardinality(generated) <= 1 /\ (device.first = "kept" => generated = {})

\* A name that dev_random had at the start is neither written over nor passed over, by any
\* number of threads that ask for it first at the same time, unless reading it threw for
\* one of them (getDevRandom catches that and generates a name over it).
NameKept ==
  device.first = "kept" =>
    /\ generated # {} => device.unread # {}
    /\ generated = {} => file = "kept" /\ \A c \in Callers : name[c] \in {"none", "kept"}

\* If there is one name, every thread has got that name, and it is the one the next boot
\* will read.  (Two threads that both find no name generate two.)
NameAgrees ==
  OneName =>
    /\ \A c \in Callers : name[c] \in {"none", devRandom}
    /\ (\A c \in Callers : random[c] \in {"idle", "done"}) /\ devRandom # "none" /\ device.writable
         => file = devRandom

\* When binderDied has deleted the folders, they say nothing of the zygotes that died: if
\* nothing was still being handled for those, and not both folders had to be renamed.
FoldersFresh ==
  binder = "done" /\ "session" \notin late /\ OneName /\ renamed # Abis
    => \A s \in status : s[2] \in Reborn

\* What a zygote writes after the soft reboot stays: binderDied deletes the folders before
\* the server, if it was stopped, is up again.
StatusSurvives ==
  "server" \notin late =>
    \A z \in Reborn : session[z] \in {"bridge", "end"} /\ name[z] # "none" =>
      <<<<AbiOf(z), name[z]>>, z>> \in status
=============================================================================
