# Riru in TLA+

Riru loads modules into the Android zygote. Three parts of it run at the same
time and have to agree: **rirud**, a Java daemon that watches soft reboots and
serves files over a socket; the **loader**, a native bridge library that every
zygote loads and that asks rirud for everything it needs; and **libriru.so**,
which hooks the three native methods that fork and specialise processes and
runs the callbacks of the modules around them. This directory holds TLA+ models
of these parts, TLC configurations that check them on small instances, and
proofs for all instances that TLAPS checks.

## 1. The system

| Part (source) | State | Operations | Interacts with |
|---|---|---|---|
| Daemon life cycle (`Daemon.java`) | `allowRestart`, `systemServerBinder`, the queue of its Handler | `startWait`, `onRiruLoad`, `onRiruNotLoaded`, `binderDied` | the server thread (monitor, latch), the native bridge property, init (`ctl.restart`), `module.prop` |
| rirud server (`DaemonSocketServerThread.java`) | `serverSocket`, `countDownLatch`, `zygotePid`, `EXECUTOR` | `run`, `startServer`, `stopServer`, `restartServer`, `handleSocket`, `handleAction` and one handler per action | loaders and modules (socket), `DaemonUtils` |
| Records and files (`DaemonUtils.java`) | `zygotePid` (who reported), `loadedModules`, `fileContext`, the two module tasks, `devRandom` | `isLoaded`, `recordLoadedProcess`, `init`, `collectModules`, the context checks, `getDevRandom`, `deleteDevFolder`, `writeStatus` | all threads of the daemon, without locks except the concurrent sets |
| Loader (`loader.cpp`, `rirud.cpp`, `rirud.h`) | one connection, `errno` | `Constructor`, `RirudSocket` with `DirIter` | rirud, libriru.so |
| Modules (`module.cpp`, `module.h`) | the list of modules, `handle_`, `allowUnload` | `Load`, `LoadModule`, `WriteModules`, `unload` | rirud, the hooks |
| Hooks (`jni_hooks.cpp`) | saved methods, override table or GOT entry | `InstallHooks`, `onRegisterZygote`, `RestoreHooks`, pre and post of three methods | runtime, modules, unload |
| Unload and hide (`entry.cpp`, `hide_utils.cpp`) | `self_unload_allowed`, the guard, `riru_hide_func`, the linker's list | `Unload`, `SelfUnload`, `HideFromSoList`, `HideFromMaps` | modules, linker, libriruhide.so |
| Remapping (`hide/hide.cpp`) | the memory map | `riru_hide`, `do_hide` | kernel |
| ELF lookups (`util/elf_util.cpp`) | none: a file is read | `findModuleBase`, the scan of the sections, `GnuLookup`, `ElfLookup`, `LinearLookup` | the hooks, the linker's list |
| Properties, namespaces (`util/`) | none | wrappers of one call | - |
| Scripts, build, stubs, resources | - | install, start the daemon | - |

How they interact. The daemon starts with the property
`ro.dalvik.vm.native.bridge` naming the loader. Every zygote reads it, loads
the loader, which connects to the socket `rirud`, gets the Magisk path, loads
libriru.so, which asks for the modules, loads them, and reports (WRITE_STATUS).
The daemon waits for the system server, links to its death, and scans /proc for
processes that are in zygote's SELinux context and have not reported. If there
is none it puts the original bridge back and stops the server; otherwise it
restarts zygote once. When the system server dies, `binderDied` clears the
records, deletes the folders under /dev, sets the property to the loader again,
restarts the server and waits for the next system server.

What is hard, and what makes each part correct:

* **Daemon.** The main thread, a binder thread and the server thread interleave;
  only the first two use the monitor. Exactly one party must be responsible for
  the next death; a restart must be asked for once; the server must come back
  for the next zygote; the status must be true; there must be no restart loop.
* **Start-up.** The server thread runs before `main` has read its arguments, and
  five kinds of threads may be the first to name the folders under /dev. What a
  loader is served must have been prepared; the name must be one name; the
  folders must speak of living zygotes.
* **Server.** A bounded pool serves connections that stay open while other
  connections to the same pool are waited for. The loader, and not a module of
  it, must get the private connection, although that is decided in the pool
  thread and the record it depends on is cleared. Every zygote must come up.
* **Protocol.** The streams have no frames. Both ends must agree on what comes
  next through every request, failure and abandoned iteration, every call must
  return, and a process that counts as loaded must have its modules listed.
* **File contexts.** One plain boolean field is updated by three threads.
* **Hooks.** A call passes through modules that may change its arguments, forks
  and comes back in two processes; the child restores the hooks, unloads what it
  is allowed to, hides what is left, and may unload the very code that runs.
  Nothing may be used after it was freed, closed or unmapped, the linker's list
  must stay whole, and an app must see none of it.

The hazards, each at its line, are in `PROJECT.json`.

## 2. Modules

| Module | Models | Extends or uses |
|---|---|---|
| `ZygoteWatch` | what the daemon promises, without threads | abstract |
| `RiruDaemon` | `Daemon.java`, `run`/`startServer`/`stopServer`/`restartServer`, `isLoaded`, recording; zygotes, system server and init as environment | implements `ZygoteWatch` |
| `RirudServer` | accept loop, pool, sessions, private connections; loaders and their modules, one generation of zygotes | |
| `RirudProtocol` | one connection: every field that either end writes or reads | |
| `FileContext` | `fileContext` and the context checks of three threads | |
| `DaemonStartup` | the start of the process, `getDevRandom`, sessions that come early, `deleteDevFolder` | extends `FileContext`, whose specification it implements |
| `SoList` | the linker's list, `solist_remove_soinfo` | |
| `MapsHide` | `do_hide`, `riru_hide` | |
| `ZygoteHooks` | libriru.so in one memory image through forks | extends `SoList`, `MapsHide` |
| `ElfImg` | symbol lookup | |
| `...Proofs` | proofs about the module they are named after | |
| `MC...` | instances for TLC; `MCElfImg` compares `ElfImg` with reference definitions | |

**RiruDaemon.** `main`, `binder` and `server` say what each thread does next;
`lock` is the monitor of `serverThread`. One action stands for the code between
two points where another thread may see a difference: a monitor is entered, a
shared field is read or written, a property or the status is written. So
`startWait` is TakeStartWait, WaitForSystemService, LinkToDeath, EnterMonitor
(which lists /proc), ScanProcess for each process, and then OnRiruNotLoaded, or
LoadResetBridge, StopServer and WriteLoadedStatus; `binderDied` is BinderDied to
PostStartWait. `queue` holds the two kinds of messages that are posted. Processes
are pairs of a zygote and an incarnation, which stands for the pid; pids are not
reused. The five texts `onRiruNotLoaded` chooses from are one status. The
deletion of the folders is in DaemonStartup. A fault is a call that fails: bind,
accept, linkToDeath, the listing of /proc, or the shutdown in `stopServer`, after
which nothing refers to a socket that is still open and that CollectSocket, the
garbage collector, may close.

**RirudServer.** Loaders are given by `pc`, connections by the sets and queues
they are in: `backlog` (the kernel's), `tasks` (the pool's), `busy` (served),
`ended`. A request is a record in `inbox`, an answer a flag: a peer never asks
again before it has the answer, except after WRITE_STATUS. A loader whose
libriru.so does not load (NoRiru) goes on to the native bridge, with no status
and not in `entered`. Who stops and
starts the server is `RiruDaemon`'s business; here it may stop at any time and
be started again at any time after.

**RirudProtocol.** `toServer` and `toClient` are socket buffers of bounded size
with one token for each field; `outbox` and `out` are what either end has still
to write before it reads again. `pc` and `sv` name the field an end waits for. An
end that takes a token for another field is `lost`, and what it does then is not
followed. A library is the pair of its module's and its own place in the list: the
server writes the list one module at a time (WriteModule), the client takes it one
field at a time, and each library it reads is `registered` or, as when LoadModule
cannot open it, dropped; WRITE_STATUS reports the registered ones. The client
may make any request at any time it is not in one, so an abandoned or overrun
`DirIter` is a possible client; it is remembered in `misused`, and a file that
changes while it is read in `oddFile`. `stale` is an `errno` left behind by an
interrupted read, which `Read` tests also when read returned 0.

**FileContext.** `fileContext &= check(...)` is ReadFlag, one CheckFile per
file (followed by ResetFile if it is wrong) and WriteFlag.

**DaemonStartup.** `main` follows `Daemon.main` and `init`; `session[z]` follows
the server's side of one loader; `binder` follows `deleteDevFolder` and
`restartServer`. `random[c]` is where caller c is in `getDevRandom`, one action
for each access to the static field or to the file, since neither is locked: the
file is truncated when it is opened and written later. A name is who generated
it. For the callers in a device's `unread` reading the file throws, which
`getDevRandom` catches and then generates a name over the one that is there. The folders are the set of status files written into them; a folder that
cannot be deleted is renamed, the 64 bit one to the name of the 32 bit one, so
that two renames in one millisecond collide.

**ZygoteHooks.** A fork copies memory, so a behaviour follows one image and goes
on in the parent or in the child. `Env` says how the device answers the
lookups of `InstallHooks`, whether rirud's list of modules arrives whole
(`served`; if not, `modules::Load` returns before it hides anything), whether
`riru_hide` can parse the maps (`parsed`) and which call of `do_hide` fails;
`Shapes` which callbacks and API levels modules have. The wrappers of each
Android version differ only in the arguments they pass, so CallHook and Original
stand for all of them and their entries in the map name one. A process whose code
is gone, by a `do_hide` that failed or because libriru.so was unmapped before
Unload had returned, is `crashed`.
`list` is the linker's list as SoList has it, `maps` the mapping of each
library's code; OpenLater is a library the linker opens after the surgery. `call`
also keeps a history of the callbacks that ran, which the properties use and no
guard does.

**SoList, MapsHide, ElfImg** are functions without variables. SoList has next
pointers and the linker's own tail pointer `sonext`; MapsHide what each prefix of
the five system calls of `do_hide` leaves of a mapping; ElfImg the three lookups
over tables as functions, with the hash a number that comes with the name and
bloom words of 32 or 64 bits.

## 3. Runs

| Run | Instance | Shows |
|---|---|---|
| `daemon_races` | 2 zygotes, 2 soft reboots, 2 faults, 1 forked child, survivors, Prompt | TypeOK, OneWatcher, RestartOnce, ClosedOnceLoaded, StatusTruthful |
| `daemon_settles` | 1 zygote, 1 soft reboot, any relative speed, fair | StatusTruthful, Settles; ZygoteWatch is implemented, with its liveness |
| `daemon_heals` | 2 zygotes, 3 soft reboots, fair, Prompt | QuietIsLoaded, Healed |
| `server_sessions` | 2 zygotes with a reading module each, 3 threads, bridge, one stop, death and throw, fair | TypeOK, FirstIsLoader, StatusBeforeBridge, EveryLoaderEnds |
| `protocol` | any sequence of calls, buffers of 2 tokens, 1 fault, 1 id and 1 version name that are too long, fair | TypeOK, InStep, ModulesPaired, StatusComplete, ContentRight, ListingWhole, CallEnds, SessionEnds |
| `startup` | 3 checking threads, a zygote and its successor, 7 devices | TypeOKStartup, ServedFilesReset, BridgeKnown, NameKept, NameAgrees, FoldersFresh, StatusSurvives |
| `hooks` | 9 devices, up to two modules of six kinds, 2 calls | TypeOK, PostMatchesPre, UnloadedOnlyIfAllowed, UnlistedStaysLoaded, CalledIsAlive, NothingDangles, HideRunsOnce, SoListIntact, HiddenFromApp |
| `daemon_stale_load`, `daemon_stale_restart`, `daemon_partial_status`, `server_pool_full`, `file_context_lost` | the smallest instance that has the case | the disagreements of section 5 |

`hooks` also evaluates the two assumptions of `MCElfImg`: over all tables of up to
three exported symbols, four hash values, three buckets and two bloom words of 32
or 64 bits, the
lookups find what a search of all symbols finds, and the tables are such as the
proofs suppose (`GnuTable`, `ElfTable`); and for files of up to five
sections in any order, the fields and the bias are those of the sections the text
of the assumption names.

Why the bounds are enough to mean something. A soft reboot may hit any step
of a round, so one of them already races `startWait` against `binderDied` and
the server thread; two and three let a round start from what a race left
behind. Two zygotes are all a device has. One fault of bind, accept, linkToDeath,
the listing or shutdown reaches every place where a fault changes the outcome; a
second one meets what the first left behind, such as a socket that stayed open. A pool of two
threads is what devices with four to seven processors have, three what those
with eight have. In `protocol` a buffer of two tokens is smaller than most
requests and answers, so either end can be stopped within one by the other; a
block is two units and the largest int three, so file sizes of nothing, of more
than one block, and beyond an int are 0, 3 and 4; two entries have a first and a
last; a module may have no library, one, or two, and the id that is too long is
that of a module's second, so that a library may have been listed before it, while
the version name that is too long is that of another module's only one. In `startup` three threads check
one file, and two sessions, main and `binderDied` are four callers of
`getDevRandom`; the devices are a first boot, one after an interrupted boot, one
with a name kept, folders of either kind stuck, a /data that cannot be
written, and two with a name that is kept and that one caller cannot read. Two modules let a skipped or unloaded one come before or after
another; two calls in a lineage are what a child zygote needs to fork an app. The
devices of `hooks` find everything or lack what one lookup of `InstallHooks` can
miss, on Android 9 and 10, with each call of `do_hide` that matters failing, a list
of modules that breaks off, and maps that cannot be parsed.
Deadlock is not checked: every system here may come to rest (all zygotes up and
no crash left; all checks done; the connection closed; the last call made).

### Assumptions about the environment

* `Prompt`: the next zygote reads the property, and the system server starts,
  only when the threads of the daemon have nothing left to do. A boot takes
  seconds and the daemon milliseconds, but nothing in the code enforces it, so
  only `daemon_heals`, `daemon_races` and two of the runs that show a
  disagreement assume it. Without it a device can end up with "not loaded" for
  good, or with the server left open, and with two zygotes the status can say
  "loaded" before the second one has started; Settles still holds.
* `Survivors`: whether a secondary zygote may outlive the primary one. With it
  QuietIsLoaded fails: `binderDied` forgets the survivor's record, and it does
  not report again. A forked child that is still in zygote's context during
  the scan has the same effect, so `daemon_heals` has neither.
* Nothing bounds how long a thread is delayed. NothingDangles says what the mutex
  ensures, which is all but the return from Unload: the sleep of 1 ms in the
  destructor of the guard does not wait for that, and Leave may find the code gone.
* Most properties of `ZygoteHooks` suppose that `old_jniRegisterNativeMethods`
  was found (`HaveOld`). If neither libandroid_runtime nor libnativehelper has it,
  `RestoreHooks` frees the saved methods but leaves them hooked: a child zygote
  then calls freed memory and callbacks of modules it unloaded. NothingDangles
  also supposes that the GOT entry can be written back in the child.
* StatusBeforeBridge is about loaders that entered libriru.so. The others get the
  bridge without a status, and are not recorded.
* HiddenFromApp names the calls that may fail (libriruhide.so, the parser, `do_hide`,
  the linker's symbols), and `served`: from Android 10 on only `modules::Load` hides
  mappings, and it returns before that if its connection breaks.
* PostMatchesPre supposes that no module changed the uid during the call: pre
  gets it by reference and post decides again.
* UnloadedOnlyIfAllowed is about modules with the pre callback of the call: for a
  module with post callbacks only `allowUnload` is never reset.
* NameKept supposes that no caller failed to read a dev_random that has a name.
  NameAgrees supposes that there is one name (`OneName`), and FoldersFresh that, and that no session of a dead zygote was still being handled: two threads
  that both find no name generate two, and the code does let that happen.
* InStep and what rests on it suppose that no `DirIter` was abandoned or advanced
  past its end and no file changed while it was read.

### Fairness

`RiruDaemon`: weak fairness of each thread of the daemon (they are scheduled by
the kernel, and the Looper takes messages in order), of each zygote's own steps
and of the start of the system server. `RirudServer`: weak fairness of each
loader, of the accept loop and of the pool threads. `RirudProtocol`: weak
fairness of writing, of a write that fails, of reading and of the pool thread that
serves; nobody has to make a call or close the connection, and a signal may
interrupt every read. Soft reboots, faults, deaths, throws, stops and forks are
never fair. Weak fairness is enough: once a step of one of these is enabled it
stays so until it, or an equivalent one, is taken.

## 4. Proofs

Each module of proofs starts from the named assumptions of the module it is about
and nothing else; the theorems hold for every value of the constants.

**RiruDaemonProofs**, for any set of zygotes and any bounds:

* `TypeCorrect`, `OneWatcherAlways`, `RestartOnceAlways`: the invariant `IInv` of
  `TypeOK`, `OneWatcher`, `RestartOnce` and two auxiliary parts (`HeldStarted`: the
  system server that is held was started; `SocketKept`: without a fault only a
  thread that accepts has a socket) is inductive. OneWatcher is stated over the queue, the main thread, the recipient
  and the binder thread together because none of its conjuncts is preserved alone:
  `PostStartWait` adds a message without duplicating one only because the binder
  thread runs only for a recipient that is no longer linked, and then nobody
  waits. RestartOnce likewise needs that a posted restart is the next message
  whenever the budget came back.
* `ClosedOnceLoadedAlways`, under Prompt: `ClosedInv` says that while the system
  server main waited for lives, the server thread does not start a server, so that
  what stopServer has let go of before the status is written stays so. Faults,
  survivors and forks are all allowed.
* `Implementation`: every step of the daemon maps to a step of `ZygoteWatch` or
  to a stutter, under the mapping `Phase`, `allowRestart` and `Posted("restart")`.
* `StatusTruthfulAlways`, if zygotes come up before the system server does
  (`OneBootAtATime`: Prompt, or a device with one zygote). The strengthening
  `StatusInv` says why: while the system server main waited for lives, no zygote
  starts, so that what the scan has found out about the processes it went through
  is still true when the status is written, and stays true until the death is
  reported. Survivors, forks and faults are all allowed.
* `QuietIsLoadedAlways`, on the device of `daemon_heals` (`SlowDevice`: Prompt, no
  survivors, faults or forks), for any zygotes and any number of soft reboots. The
  invariant `HealInv` is about the round that has no restart left, since nothing
  comes after it: by then the property names the loader and the server is up, or
  waits for a signal that will reach it (`Rounds`, `Responsive`), and no zygote gets
  further than booting while a death is dealt with (`Deaths`); so the generation of
  that round finds both and is recorded (`Recording`). `Outcome` speaks of a round
  whose system server lives: what a stale round did to a dead one is not final.

**RirudServerProofs**, for any zygotes, any number of processors and any bounds:

* `TypeCorrect`.
* `FirstIsLoaderAlways`: the invariant `OrderInv` follows a loader's connection
  from the backlog through the tasks to the pool. While it waits it is in one
  queue and once, its zygote is not in `zygotePid` and has no other connection;
  once it got further, its zygote is in `zygotePid`, or the server was stopped.
* `StatusBeforeBridgeAlways`: with OrderInv, `Session` says what is in the stream
  and what was answered at each wait of a loader. A session whose loader lives can
  only be ended by a handler that throws, as a private connection is never refused.

**FileContextProofs**, for any threads, files and plan: `TypeCorrect`,
`ServedFilesResetAlways`, `NoFalseAlarmAlways`. The invariant says of each thread
that the files before its position were reset where they could be, and of a FALSE
that any thread read or wrote that a wrong file stands behind it.

**DaemonStartupProofs**, for any loaders, devices and plan:

* `ImplementsFileContext`: the start-up implements FileContext, which carries
  `ServedFilesResetAlways` over to it (`ServedDuringStartup`).
* `TypeCorrectStartup`, `BridgeKnownAlways` (a session past READ_MODULES has waited
  for a task that `init` submits after it has set the bridge), `NameKeptAlways`,
  `StatusSurvivesAlways` (a session of a next zygote cannot begin before the
  server is up again, if it was stopped).
* `NameAgreesAlways`: `NameInv` says what the field, the file and every caller can
  have while nobody has generated a name, and while exactly one thread has: that
  thread sets the field before it opens the file, so that no caller reads another
  name. `AsksOnce` is needed because a caller that asked again would be given two.
* `FoldersFreshAlways`: `Filed` says which folder a status is in, `Deleted` that
  from the death on nobody writes for a dead zygote, and that what is left of those
  is in the folders `binderDied` still has to list or delete.

**RirudProtocolProofs**, for any capacity of the buffers, block, file sizes,
directories and lists of modules:

* `TypeCorrect`, with the values each field can have (`FieldsInv`) and the counters
  (`CountInv`); it holds after a misuse too.
* `InStepAlways`. That the next field is the one its reader waits for depends on all
  the fields before it that are still under way, so the invariant describes the
  streams. `Up` and `Down` are what is in a socket together with what its writer has
  still to put there: writing a field does not change them. `Wanted` and `Due` are
  the fields an end may take next, `Then` and `After` those that may follow a field.
  `UpInv`: Up begins with a wanted field, goes on as requests do, and ends where the
  client waits for the answer (`Awaits`). `DownInv`: while a request is under way
  nothing is on the way back; otherwise Down begins with a due field, goes on as
  answers do, and ends where the server writes on (`Coming`) or has said all. Every
  action then extends or shortens a chain at one end. The rest of `Sync` ties the
  counters of the two ends to each other and to what was received.
* `ContentRightAlways`, `ListingWholeAlways` (action properties) from `FileInv` and
  `DirInv`; `ModulesPairedAlways` from `LoadInv`, which says that what Load has is
  exactly what precedes its place in the list; `StatusCompleteAlways` from
  `StatusInv`, by which `listed` is the part of `registered` that was read. The
  last two are proved until a DirIter is misused or a file changes (`Excused`);
  the run checks them afterwards as well.

**ZygoteHooksProofs**, for any devices, kinds of modules and bounds:
`InvariantHolds` proves the types and nine parts together, as each leans on the
others. `HooksLive`: a hooked method has its original and its modules; `Threads`:
how far the unloading thread can be for each place of the other; `UnlistedLast`: a
process that took a library off the list closes none afterwards; `AllowedNow` and
`CallbacksRan`: what the history of the call says at each place; `HidesOnce`: who
may hide; `MapsHiddenOnce` and `Shown`: what a mapping and the list can look like;
`ListWhole`: the list is whole, begins with libdl, and has what is loaded and was
not taken off. From them follow `TypeCorrect`, `SoListIntactAlways` (with no
condition on the device: it also holds where the hooks could not be restored and a
module is closed after it was taken off the list), `CalledIsAliveAlways`,
`NothingDanglesAlways`, `PostMatchesPreAlways`,
`UnloadedOnlyIfAllowedAlways`, `UnlistedStaysLoadedAlways`, `HideRunsOnceAlways`
and `HiddenFromAppAlways`.

**SoListProofs**, for any list: `UnlinkRemoves` (a list that is whole loses one
soinfo and stays whole, with sonext at its end) and `AddAppends` are about one step.
`RemoveAll` and `OpenAll` are about a whole RemovePathsFromSolist or dlopen, by
induction on the libraries gone through. The library states induction with an
operator as a parameter, which the provers cannot instantiate; `SetInduction` gets
it for a set of numbers from the theorem that a well-founded relation has minimal
elements, and `Recursion` from that the existence of a function defined by
recursion. `GetSolist` says that the walk of `linker_get_solist` through a whole
list ends, and with all of it, although a soinfo that was removed still points into
the list.

**ElfImgProofs**, for tables of any size and any hash function:

* `GnuLookupFinds`, for any table that satisfies what ld guarantees (`GnuTable`),
  and `ExportedIsFound` whatever the other tables say; `OtherwiseLinear` for names
  that are not exported.
* `ElfLookupFinds`, for any table in which each symbol has a place in the list of
  its bucket (`ElfTable`), whatever the order of the lists: the place of a symbol is
  the number of steps after which the loop is at it.
* `SectionsAreRead`: which sections ElfImg takes, for any file; `LdLayoutIsRead`:
  that these are .dynsym, .dynstr and the first PROGBITS section after them, if up
  to that there is no other table of their types. Both suppose that no section has
  the bias -4396, which the code uses for "none yet".

Only model-checked:

* everything under fairness (Settles, Healed, EveryLoaderEnds, CallEnds,
  SessionEnds, the liveness of ZygoteWatch): the prover has neither ENABLED nor
  fairness;
* ModulesPaired and StatusComplete after a DirIter was misused or a file changed:
  there the streams are shifted, and the chains of the proof do not hold.

## 5. Where code and documentation disagree

1. *Stale load.* The comment of the constructor of `Daemon` says that the monitor
   prevents a zygote that died before `onRiruLoad` from being taken for a loaded
   one. It does not: the wait and the link are outside, and an empty /proc listing
   is "loaded" (`daemon_stale_load`).
2. *Stale restart.* A restart posted for a zygote that has died meanwhile can be
   carried out on its healthy successor (`daemon_stale_restart`).
3. *Partial status.* A process counts as loaded before its modules were read
   (`daemon_partial_status`).
4. *Full pool.* On devices with fewer than eight processors two zygotes whose
   modules read a file through rirud while they load hang (`server_pool_full`).
5. *Lost context report.* `fileContext &=` in three threads loses a FALSE
   (`file_context_lost`).

The first two are repaired by later rounds on a device that boots slower than
the daemon reacts: that is what `daemon_heals` shows.

Other behaviours the models have, which no document contradicts and which the
properties name as exceptions: a file of 2 GiB or more is announced with a size
nothing follows, or that what follows does not have; a read that was interrupted
earlier makes the end of the stream be tried for ever; a broken connection pads
the content of a file with zeros; an id or a version name of more than 256 bytes
ends the session after the process was recorded; a `do_hide` that fails after
`munmap` leaves no code; from Android 10 on a list of modules that breaks off leaves
libriru.so in the maps of every app; a thread that needs more than 1 ms to return
from Unload finds libriru.so unmapped; a system server that dies before linkToDeath,
which then throws, is the last one watched; an accept that fails on its own keeps
the server down until the next load; an IOException while dev_random is read has its
name written over; two threads may name the /dev folder twice on a first boot; and the bias of
an ELF file whose first PROGBITS section comes before .dynsym or .dynstr is that of
a later section, or is never set.

## 6. Not modelled

* The parsing of /proc/self/maps (`pmparser.h`) and of a line of it in
  `findModuleBase`, the reading of the ELF file, and the two hash functions: text
  and arithmetic without control that a property could be about.
* `android_prop`, `dl.cpp`: wrappers of one system call; their outcome is a
  parameter of ZygoteHooks (`Env`).
* The page protection of the linker's list and the search for the offsets in a
  soinfo: whether the device has them is `solist`.
* Texts of the status, locale and the process calls of `DaemonUtils`.
* The signatures of the hooked methods of each Android version, beyond their being
  known or not.
* Scripts, build files, stubs and resources: no behaviour of the running system.

## 7. Plan

1. `ZygoteWatch`, `RiruDaemon`, their runs and proofs. Done.
2. `RirudServer` and its runs and proofs. Done.
3. `FileContext`, `ZygoteHooks`. Done, with proofs.
4. `RirudProtocol`. Done.
5. `DaemonStartup`, on FileContext. Done, with proofs.
6. `SoList`, `MapsHide`, in ZygoteHooks; `ElfImg`. Done, with proofs.
7. The proofs about `RirudProtocol`, and QuietIsLoaded, NameAgrees, FoldersFresh and
   SoListIntact. Done.
8. ElfLookup and the loop over the sections, by the induction of SoListProofs. Done.
9. Left to prove: ModulesPaired and StatusComplete after a misuse, from an invariant
   that says which end a shifted stream will lose.
