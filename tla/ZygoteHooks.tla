----------------------------- MODULE ZygoteHooks -----------------------------
(***************************************************************************)
(* libriru.so inside the zygotes and the processes forked from them        *)
(* (entry.cpp, jni_hooks.cpp, module.h, hide_utils.cpp): install the       *)
(* hooks, run the callbacks of the modules around the three native         *)
(* methods, restore the methods in the child, hide, unload.                *)
(*                                                                         *)
(* A fork copies memory and nothing is shared afterwards, so a behaviour   *)
(* follows ONE memory image: at every fork it goes on in the parent or in  *)
(* the child.  All code runs on the thread that forks, except the dlclose  *)
(* of libriru.so itself, which runs on a thread of its own (unloader).     *)
(***************************************************************************)
EXTENDS Integers, Sequences, FiniteSets, SoList, MapsHide

CONSTANTS
  Devices,       \* kinds of devices: see Env
  Shapes,        \* kinds of modules a device may have installed
  MaxModules,    \* bound: modules installed
  MaxCalls,      \* bound: calls of hooked methods in one lineage
  UidsChange     \* a module may change the uid in its pre callback

ForkApp  == "nativeForkAndSpecialize"
ForkSys  == "nativeForkSystemServer"
SpecApp  == "nativeSpecializeAppProcess"
Methods  == {ForkApp, ForkSys, SpecApp}
Uids     == {"app", "system"}   \* shouldSkipUid skips the uids that are no app's

\* old: apiVersion < 25; pre, post: methods it has callbacks for; skips: the uids its
\* shouldSkipUid, or the default one, skips; hides: supportHide.
ModuleInfo ==
  [old : BOOLEAN, pre : SUBSET Methods, post : SUBSET Methods, skips : SUBSET Uids, hides : BOOLEAN]

\* q: Android 10 or later; served: rirud's list of modules arrives whole;
\* got: libandroid_runtime imports jniRegisterNativeMethods; table: libart has the two
\* symbols; helper: libnativehelper has jniRegisterNativeMethods; hide: libriruhide.so
\* loads; unhook: xhook_refresh works in the children too; solist: the linker has the
\* symbols of its list; parsed: riru_hide can parse the maps; fails: calls of do_hide that
\* succeed on the mapping of one library, 5 if all do; present: the methods Zygote has;
\* known: those with a signature Riru knows.
Env == [q : BOOLEAN, served : BOOLEAN, got : BOOLEAN, table : BOOLEAN, helper : BOOLEAN,
        hide : BOOLEAN, unhook : BOOLEAN, solist : BOOLEAN, parsed : BOOLEAN,
        fails : 0..Calls, present : SUBSET Methods, known : SUBSET Methods]

ASSUME ShapesAssumption == Shapes \subseteq ModuleInfo
ASSUME DevicesAssumption == Devices \subseteq Env
ASSUME BoundsAssumption ==
  /\ MaxModules \in Nat /\ MaxCalls \in Nat /\ UidsChange \in BOOLEAN

VARIABLES
  env,        \* the device
  role,       \* what kind of process the image is in
  pc,         \* where the forking thread is
  hook,       \* what intercepts the registration of natives: nothing, the GOT, the table
  natives,    \* what the runtime calls for each method
  saved,      \* jni::zygote::<method>: null, kept or freed
  mods,       \* modules::Get()
  handle,     \* modules whose handle_ is not null
  allow,      \* modules whose allowUnload is set
  list,       \* the linker's list
  later,      \* the process has opened one more library
  unlisted,   \* history: what HideFromSoList removed from the list
  maps,       \* the mapping of the code of libriru.so and of each module
  hideLib,    \* libriruhide.so: absent, open, or closed with riru_hide_func still set
  hideRuns,   \* calls of riru_hide_func in this image
  call,       \* the call of a hooked method under way
  selfUnload, \* self_unload_allowed
  unloader,   \* the thread that closes libriru.so
  guard,      \* owner of SelfUnloadGuard's mutex
  mapped,     \* libriru.so is mapped
  calls

hookVars   == <<hook, natives, saved>>
moduleVars == <<mods, handle, allow>>
hideVars   == <<list, later, unlisted, maps, hideLib, hideRuns>>
selfVars   == <<selfUnload, unloader, guard, mapped>>
vars == <<env, role, pc, hookVars, moduleVars, hideVars, call, selfVars, calls>>

\* Soinfos: module i is i.
Riru     == 0
HideLib  == MaxModules + 1   \* libriruhide.so
Libdl    == MaxModules + 2   \* the first one
Later    == MaxModules + 3
Soinfos  == 0..Later
Hideable == 0..MaxModules

Roles == {"zygote", "usap", "childZygote", "app", "systemServer"}
PCs == {"init", "load", "register", "idle", "pre", "original", "restore", "post",
        "unload", "hideSoList", "hideMaps", "selfUnload", "detach", "leave", "crashed"}

\* method, uid and is_child_zygote of the call, the module whose turn it is, whether
\* this is the child (or the specialised process); history: callbacks that ran, modules
\* that allowed their unload during the call, and whether the uid changed.
Idle == [method |-> ForkApp, uid |-> "app", child |-> FALSE, i |-> 1, forked |-> FALSE,
         pre |-> {}, post |-> {}, allowed |-> {}, changed |-> FALSE]
Call == [method : Methods, uid : Uids, child : BOOLEAN, i : 1..(MaxModules + 1), forked : BOOLEAN,
         pre : SUBSET (1..MaxModules), post : SUBSET (1..MaxModules),
         allowed : SUBSET (1..MaxModules), changed : BOOLEAN]

StateTypes ==
  /\ env \in Devices /\ role \in Roles /\ pc \in PCs
  /\ hook \in {"none", "got", "table"}
  /\ natives \in [Methods -> {"absent", "original", "riru"}]
  /\ saved \in [Methods -> {"null", "kept", "freed"}]
  /\ mods \in Seq(Shapes) /\ Len(mods) <= MaxModules
  /\ handle \subseteq DOMAIN mods /\ allow \subseteq DOMAIN mods
  /\ later \in BOOLEAN
  /\ unlisted \subseteq Hideable
  /\ maps \in [Hideable -> Mapping]
  /\ hideLib \in {"absent", "open", "closed"} /\ hideRuns \in Nat
  /\ call \in Call
  /\ selfUnload \in BOOLEAN /\ mapped \in BOOLEAN
  /\ unloader \in {"none", "started", "sleeping", "done"}
  /\ guard \in {"free", "main", "unloader"}
  /\ calls \in 0..MaxCalls

TypeOK == StateTypes /\ list \in Lists(Soinfos)

Init ==
  /\ env \in Devices /\ role = "zygote" /\ pc = "init"
  /\ hook = "none"
  /\ natives = [m \in Methods |-> "absent"] /\ saved = [m \in Methods |-> "null"]
  /\ mods = <<>> /\ handle = {} /\ allow = {}
  /\ list = Open(Single(Soinfos, Libdl), <<Riru>>) /\ later = FALSE /\ unlisted = {}
  /\ maps = [l \in Hideable |-> OfFile({"r", "x"})]
  /\ hideLib = "absent" /\ hideRuns = 0
  /\ call = Idle
  /\ selfUnload = FALSE /\ unloader = "none" /\ guard = "free" /\ mapped = TRUE
  /\ calls = 0

-----------------------------------------------------------------------------
(* Loading. *)

\* old_jniRegisterNativeMethods is set: by the GOT hook or from libnativehelper.
HaveOld == env.got \/ env.helper

\* init: PrepareMapsHideLibrary, then InstallHooks.
InstallHooks ==
  /\ pc = "init" /\ pc' = "load"
  /\ IF env.hide THEN hideLib' = "open" /\ list' = solist_add_soinfo(list, HideLib)
     ELSE hideLib' = "absent" /\ list' = list
  /\ hook' = IF env.got THEN "got" ELSE IF env.table THEN "table" ELSE "none"
  /\ UNCHANGED <<env, role, natives, saved, moduleVars, later, unlisted, maps, hideRuns, call,
                 selfVars, calls>>

\* HideFromMaps: the names of libriru.so and of the modules ms that are loaded.
\* HidePathsFromMaps: riru_hide_func runs and its library is closed, if dlclose does not
\* fail; the pointers to it stay.  A call of do_hide fails on one mapping at most.  A
\* process whose code is gone goes no further.
HidePathsFromMaps(ms, loaded, opened, next) ==
  IF hideLib = "absent"
  THEN pc' = next /\ list' = opened /\ UNCHANGED <<hideLib, hideRuns, maps>>
  ELSE /\ \/ hideLib' = "closed" /\ list' = Close(opened, {HideLib})
          \/ hideLib' = hideLib /\ list' = opened
       /\ hideRuns' = hideRuns + 1
       /\ LET names == {Riru} \cup {i \in loaded : ms[i].hides}
          IN \E worst \in IF env.fails = Calls THEN {Riru} ELSE names :
               maps' = riru_hide(maps, names,
                                 [l \in Hideable |-> IF l = worst THEN env.fails ELSE Calls],
                                 env.parsed)
       /\ pc' = IF \A l \in Hideable : InPlace(maps'[l]) THEN next ELSE "crashed"

\* modules::Load; a module may already allow its unload.  Where the connection breaks, it
\* returns with the modules loaded so far, before anything is hidden.
LoadModules(ms) ==
  /\ pc = "load"
  /\ mods' = ms /\ handle' = DOMAIN ms
  /\ allow' \in SUBSET (DOMAIN ms)
  /\ LET opened == Open(list, [i \in DOMAIN ms |-> i])
     IN IF env.q /\ env.served
        THEN HidePathsFromMaps(ms, DOMAIN ms, opened, "register")
        ELSE pc' = "register" /\ list' = opened /\ UNCHANGED <<hideLib, hideRuns, maps>>
  /\ UNCHANGED <<env, role, hookVars, later, unlisted, call, selfVars, calls>>

\* A process other than the zygote opens a library that has nothing to do with Riru.
OpenLater ==
  /\ pc = "idle" /\ ~later /\ role # "zygote"
  /\ later' = TRUE /\ list' = solist_add_soinfo(list, Later)
  /\ UNCHANGED <<env, role, pc, hookVars, moduleVars, unlisted, maps, hideLib, hideRuns, call,
                 selfVars, calls>>

\* The runtime registers the natives of Zygote; Riru replaces those whose signature
\* it knows, and saves the original of all three.
RegisterZygote ==
  /\ pc = "register" /\ pc' = "idle"
  /\ natives' = [m \in Methods |->
       IF m \notin env.present THEN "absent"
       ELSE IF hook # "none" /\ m \in env.known THEN "riru" ELSE "original"]
  /\ saved' = [m \in Methods |-> IF hook # "none" /\ m \in env.present THEN "kept" ELSE "null"]
  /\ UNCHANGED <<env, role, hook, moduleVars, hideVars, call, selfVars, calls>>

-----------------------------------------------------------------------------
(* A call of a native method. *)

MayCall(m) ==
  \/ role = "zygote" /\ m \in {ForkApp, ForkSys}
  \/ role = "usap" /\ m = SpecApp
  \/ role = "childZygote" /\ m = ForkApp

\* What the forked (or specialised) process is.
RoleOfChild(m, child) ==
  IF m = ForkSys THEN "systemServer" ELSE IF child THEN "childZygote" ELSE "app"

CallHook(m, uid, child) ==
  /\ pc = "idle" /\ MayCall(m) /\ natives[m] = "riru" /\ calls < MaxCalls
  /\ pc' = "pre" /\ calls' = calls + 1
  /\ call' = [Idle EXCEPT !.method = m, !.uid = uid, !.child = child]
  /\ UNCHANGED <<env, role, hookVars, moduleVars, hideVars, selfVars>>

\* The method is the runtime's own: no code of Riru runs, in the parent or the child.
CallOriginal(m, child) ==
  /\ pc = "idle" /\ MayCall(m) /\ natives[m] = "original"
  /\ role' = RoleOfChild(m, child)
  /\ UNCHANGED <<env, pc, hookVars, moduleVars, hideVars, call, selfVars, calls>>

\* A process of the pool is forked by a method Riru does not hook.
ForkUsap ==
  /\ pc = "idle" /\ role = "zygote" /\ natives[SpecApp] # "absent"
  /\ role' = "usap"
  /\ UNCHANGED <<env, pc, hookVars, moduleVars, hideVars, call, selfVars, calls>>

\* Modules before API 25 are not told of uids they skip.
Skipped(i) == call.method # ForkSys /\ mods[i].old /\ call.uid \in mods[i].skips

NextModule == [call EXCEPT !.i = @ + 1]

\* Mutant: allowUnload is not reset before the callback.
PreKeepsAllowUnload ==
  /\ pc = "pre" /\ call.i \in DOMAIN mods
  /\ LET i == call.i
     IN IF call.method \notin mods[i].pre \/ Skipped(i)
        THEN call' = NextModule /\ allow' = allow
        ELSE \E a \in BOOLEAN, uid \in (IF UidsChange THEN Uids ELSE {call.uid}) :
               /\ allow' = IF a THEN allow \cup {i} ELSE allow
               /\ call' = [NextModule EXCEPT
                    !.uid = uid, !.changed = @ \/ uid # call.uid, !.pre = @ \cup {i},
                    !.allowed = IF a THEN @ \cup {i} ELSE @]
  /\ UNCHANGED <<env, role, pc, hookVars, mods, handle, hideVars, selfVars, calls>>

\* resetAllowUnload, and then a callback that may allow the unload.
Pre ==
  /\ pc = "pre" /\ call.i \in DOMAIN mods
  /\ LET i == call.i
     IN IF call.method \notin mods[i].pre
        THEN call' = NextModule /\ allow' = allow
        ELSE IF Skipped(i)
        THEN call' = NextModule /\ allow' = allow \ {i}
        ELSE \E a \in BOOLEAN, uid \in (IF UidsChange THEN Uids ELSE {call.uid}) :
               /\ allow' = IF a THEN allow \cup {i} ELSE allow \ {i}
               /\ call' = [NextModule EXCEPT
                    !.uid = uid, !.changed = @ \/ uid # call.uid, !.pre = @ \cup {i},
                    !.allowed = IF a THEN @ \cup {i} ELSE @]
  /\ UNCHANGED <<env, role, pc, hookVars, mods, handle, hideVars, selfVars, calls>>

PreDone ==
  /\ pc = "pre" /\ call.i = Len(mods) + 1
  /\ pc' = "original"
  /\ UNCHANGED <<env, role, hookVars, moduleVars, hideVars, call, selfVars, calls>>

\* Mutant: the post callbacks start where the pre callbacks stopped.
OriginalKeepsIndex ==
  /\ pc = "original"
  /\ \E forked \in (IF call.method = SpecApp THEN {TRUE} ELSE BOOLEAN) :
       /\ call' = [call EXCEPT !.forked = forked]
       /\ role' = IF forked THEN RoleOfChild(call.method, call.child) ELSE role
       /\ pc' = IF forked THEN "restore" ELSE "post"
  /\ UNCHANGED <<env, hookVars, moduleVars, hideVars, selfVars, calls>>

\* The saved original runs: it forks, or specialises this process.
Original ==
  /\ pc = "original"
  /\ \E forked \in (IF call.method = SpecApp THEN {TRUE} ELSE BOOLEAN) :
       /\ call' = [call EXCEPT !.i = 1, !.forked = forked]
       /\ role' = IF forked THEN RoleOfChild(call.method, call.child) ELSE role
       /\ pc' = IF forked THEN "restore" ELSE "post"
  /\ UNCHANGED <<env, hookVars, moduleVars, hideVars, selfVars, calls>>

\* Mutant: the saved methods are freed and not registered again.
RestoreFreesOnly ==
  /\ pc = "restore" /\ pc' = "post"
  /\ hook' = IF hook = "got" /\ ~env.unhook THEN "got" ELSE "none"
  /\ natives' = natives
  /\ saved' = [m \in Methods |-> IF saved[m] # "null" THEN "freed" ELSE "null"]
  /\ UNCHANGED <<env, role, moduleVars, hideVars, call, selfVars, calls>>

\* Mutant: the override table is left in place.
RestoreKeepsTable ==
  /\ pc = "restore" /\ pc' = "post"
  /\ hook' = IF hook = "got" /\ env.unhook THEN "none" ELSE hook
  /\ natives' = [m \in Methods |->
       IF saved[m] # "null" /\ HaveOld THEN "original" ELSE natives[m]]
  /\ saved' = [m \in Methods |-> IF saved[m] # "null" THEN "freed" ELSE "null"]
  /\ UNCHANGED <<env, role, moduleVars, hideVars, call, selfVars, calls>>

\* RestoreHooks: interception first, then the three methods; without
\* jniRegisterNativeMethods the saved method is only freed.
RestoreHooks ==
  /\ pc = "restore" /\ pc' = "post"
  /\ hook' = IF hook = "got" /\ ~env.unhook THEN "got" ELSE "none"
  /\ natives' = [m \in Methods |->
       IF saved[m] # "null" /\ HaveOld THEN "original" ELSE natives[m]]
  /\ saved' = [m \in Methods |-> IF saved[m] # "null" THEN "freed" ELSE "null"]
  /\ UNCHANGED <<env, role, moduleVars, hideVars, call, selfVars, calls>>

\* Mutant: the loop advances twice over a module it skips.
PostSkipsNeighbour ==
  /\ pc = "post" /\ call.i \in DOMAIN mods
  /\ LET i == call.i
     IN IF call.method \notin mods[i].post \/ Skipped(i)
        THEN call' = [call EXCEPT !.i = @ + 2] /\ allow' = allow
        ELSE /\ allow' \in {allow, allow \cup {i}, allow \ {i}}
             /\ call' = [NextModule EXCEPT
                  !.post = @ \cup {i}, !.allowed = IF i \in allow' \ allow THEN @ \cup {i} ELSE @]
  /\ UNCHANGED <<env, role, pc, hookVars, mods, handle, hideVars, selfVars, calls>>

\* A callback may set allowUnload of its module either way, or leave it.
Post ==
  /\ pc = "post" /\ call.i \in DOMAIN mods
  /\ LET i == call.i
     IN IF call.method \notin mods[i].post \/ Skipped(i)
        THEN call' = NextModule /\ allow' = allow
        ELSE /\ allow' \in {allow, allow \cup {i}, allow \ {i}}
             /\ call' = [NextModule EXCEPT
                  !.post = @ \cup {i}, !.allowed = IF i \in allow' \ allow THEN @ \cup {i} ELSE @]
  /\ UNCHANGED <<env, role, pc, hookVars, mods, handle, hideVars, selfVars, calls>>

PostDone ==
  /\ pc = "post" /\ call.i = Len(mods) + 1
  /\ pc' = IF call.forked /\ call.method # ForkSys THEN "unload" ELSE "idle"
  /\ UNCHANGED <<env, role, hookVars, moduleVars, hideVars, call, selfVars, calls>>

-----------------------------------------------------------------------------
(* Entry::Unload. *)

HasAppFunctions(i) == (mods[i].pre \cup mods[i].post) \cap {ForkApp, SpecApp} # {}
AllowUnload(i) == ~mods[i].old /\ (i \in allow \/ ~HasAppFunctions(i))

\* dlclose of a module may fail; then it stays loaded.
UnloadModules ==
  /\ pc = "unload" /\ pc' = "hideSoList"
  /\ selfUnload' = \A i \in DOMAIN mods : AllowUnload(i) \/ ~mods[i].old
  /\ \E closed \in SUBSET {i \in handle : AllowUnload(i)} :
       handle' = handle \ closed /\ list' = Close(list, closed)
  /\ UNCHANGED <<env, role, hookVars, mods, allow, later, unlisted, maps, hideLib, hideRuns, call,
                 unloader, guard, mapped, calls>>

HideNames(names) ==
  /\ pc = "hideSoList" /\ pc' = "hideMaps"
  /\ IF env.solist
     THEN unlisted' = unlisted \cup names /\ list' = RemovePathsFromSolist(list, names)
     ELSE UNCHANGED <<unlisted, list>>
  /\ UNCHANGED <<env, role, hookVars, moduleVars, later, maps, hideLib, hideRuns, call, selfVars, calls>>

\* Mutant: also libriru.so is hidden that is about to be closed.
HideAllFromSoList == HideNames({Riru} \cup {i \in handle : mods[i].hides})

\* (The test of apiVersion < 24 is never true: such modules are not loaded.)
HideFromSoList ==
  HideNames((IF selfUnload THEN {} ELSE {Riru}) \cup {i \in handle : mods[i].hides})

HideMapsIf(condition) ==
  /\ pc = "hideMaps"
  /\ LET next == IF selfUnload THEN "selfUnload" ELSE "leave"
     IN IF condition THEN HidePathsFromMaps(mods, handle, list, next)
        ELSE pc' = next /\ UNCHANGED <<list, hideLib, hideRuns, maps>>
  /\ UNCHANGED <<env, role, hookVars, moduleVars, later, unlisted, call, selfVars, calls>>

\* Mutant: the API level is not tested.
HideFromMapsAlways == HideMapsIf(~call.child)

\* Mutant: only the zygote hides.
HideFromMapsNever == HideMapsIf(FALSE)

\* Before Android 10 the child hides itself, unless it is a child zygote.
HideFromMaps == HideMapsIf(~env.q /\ ~call.child)

\* SelfUnload: holder of the guard, thread, end of the holder.  If there is no thread, one
\* that was never set is detached, which ends the process or does nothing.
SelfUnload ==
  /\ pc = "selfUnload" /\ guard = "free"
  /\ pc' = "detach" /\ guard' = "main" /\ unloader' \in {"started", "none"}
  /\ UNCHANGED <<env, role, hookVars, moduleVars, hideVars, call, selfUnload, mapped, calls>>

Detach ==
  /\ pc = "detach" /\ guard' = "free"
  /\ pc' \in IF unloader = "none" THEN {"leave", "crashed"} ELSE {"leave"}
  /\ UNCHANGED <<env, role, hookVars, moduleVars, hideVars, call, selfUnload, unloader, mapped, calls>>

\* Back through Unload, post and the hook to the runtime: too late if the sleep of the
\* unloader is over.
Leave ==
  /\ pc = "leave" /\ pc' = IF mapped THEN "idle" ELSE "crashed"
  /\ UNCHANGED <<env, role, hookVars, moduleVars, hideVars, call, selfVars, calls>>

\* dlclose runs the destructor of the guard: it locks, then sleeps.
GuardDestructor ==
  /\ unloader = "started" /\ guard = "free"
  /\ unloader' = "sleeping" /\ guard' = "unloader"
  /\ UNCHANGED <<env, role, pc, hookVars, moduleVars, hideVars, call, selfUnload, mapped, calls>>

\* Nothing bounds how long the forking thread is delayed while the unloader sleeps 1 ms.
Unmap ==
  /\ unloader = "sleeping"
  /\ unloader' = "done" /\ mapped' = FALSE /\ list' = Close(list, {Riru})
  /\ UNCHANGED <<env, role, pc, hookVars, moduleVars, later, unlisted, maps, hideLib, hideRuns, call,
                 selfUnload, guard, calls>>

Next ==
  \/ InstallHooks
  \/ \E n \in 0..MaxModules : \E ms \in [1..n -> Shapes] : LoadModules(ms)
  \/ RegisterZygote \/ OpenLater
  \/ \E m \in Methods, uid \in Uids, child \in BOOLEAN : CallHook(m, uid, child)
  \/ \E m \in Methods, child \in BOOLEAN : CallOriginal(m, child)
  \/ ForkUsap \/ Pre \/ PreDone \/ Original \/ RestoreHooks \/ Post \/ PostDone
  \/ UnloadModules \/ HideFromSoList \/ HideFromMaps
  \/ SelfUnload \/ Detach \/ Leave \/ GuardDestructor \/ Unmap

Spec == Init /\ [][Next]_vars

-----------------------------------------------------------------------------
(* Properties. *)

\* A hook never calls, and RestoreHooks never frees, an original that was freed, and no
\* callback of a module that was unloaded is called: in a child zygote the methods are
\* restored before it forks again.  (Without jniRegisterNativeMethods they are freed and
\* stay hooked, and nothing after that can be relied on.)
CalledIsAlive ==
  HaveOld =>
    /\ pc \in {"pre", "original", "restore"} => saved[call.method] = "kept"
    /\ pc \in {"pre", "post"} => handle = DOMAIN mods

\* Once libriru.so is unmapped the runtime reaches nothing in it any more: no method and
\* no interception of registrations, whatever way the hooks were installed, if restoring
\* them was possible.  Of the code on the stack the mutex leaves only the way back out of
\* Unload (Leave), which a thread delayed for longer than the sleep does not survive.
NothingDangles ==
  ~mapped /\ HaveOld /\ env.unhook =>
    /\ hook = "none" /\ \A m \in Methods : natives[m] # "riru"
    /\ pc \in {"leave", "idle", "crashed"}

\* The post callback of a module runs exactly if its pre callback ran, as long as no
\* module changed the uid between the two.
PostMatchesPre ==
  pc = "post" /\ call.i = Len(mods) + 1 /\ ~call.changed =>
    \A i \in DOMAIN mods : call.method \in mods[i].pre \cap mods[i].post =>
      (i \in call.pre <=> i \in call.post)

\* A module with callbacks for apps is unloaded from a process only if it allowed so in
\* the very call that made the process, never because of an earlier child (for modules
\* with the pre callback of that call).
UnloadedOnlyIfAllowed ==
  HaveOld => \A i \in DOMAIN mods :
    pc = "hideSoList" /\ i \notin handle /\ HasAppFunctions(i) /\ call.method \in mods[i].pre
      => i \in call.allowed

\* What was taken off the linker's list stays loaded: dlclose would not find it.  (If the
\* methods stay hooked, a child zygote hides a module and its own child unloads it.)
UnlistedStaysLoaded ==
  HaveOld =>
    /\ unlisted \ {Riru} \subseteq handle
    /\ Riru \in unlisted => unloader = "none" /\ mapped

\* riru_hide is called at most once in a process and its ancestors: afterwards its
\* library is closed and the pointer to it dangles.
HideRunsOnce == hideRuns <= 1

Loaded == {Libdl} \cup (IF mapped THEN {Riru} ELSE {}) \cup handle
          \cup (IF hideLib = "open" THEN {HideLib} ELSE {}) \cup (IF later THEN {Later} ELSE {})

\* The linker can always go through its list, and adds to the end of it: the list is whole,
\* sonext is its last soinfo, and it has every library that is loaded but for those Riru
\* took off, and none that was closed.
SoListIntact ==
  Intact(list) /\ ToSet(linker_get_solist(list)) = Loaded \ unlisted

\* In an app, once Unload is over, neither the maps nor the linker's list show libriru.so
\* or a module that supports hiding, whether they were hidden in zygote or in the app.  From
\* Android 10 on the maps do, if zygote did not get its list of modules whole: then it has
\* not hidden what it had loaded by then, and no app will.
HiddenFromApp ==
  HaveOld /\ role = "app" /\ pc \in {"selfUnload", "detach", "leave"} =>
    \A l \in {Riru} \cup {i \in handle : mods[i].hides} :
      /\ env.hide /\ env.parsed /\ env.fails = Calls /\ (env.q => env.served) => ~maps[l].file
      /\ env.solist => l \in unlisted \/ (l = Riru /\ selfUnload)
=============================================================================
