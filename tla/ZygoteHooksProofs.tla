--------------------------- MODULE ZygoteHooksProofs ---------------------------
(***************************************************************************)
(* Proofs about ZygoteHooks, for any devices, kinds of modules and bounds. *)
(* What the surgery does to the linker's list is proved in SoListProofs.   *)
(***************************************************************************)
EXTENDS ZygoteHooks, SoListProofs, TLAPS

Code == {"r", "x"}

-----------------------------------------------------------------------------
(* Types. *)

\* The mapping of a library as the linker makes it is a mapping.
LEMMA CodeIsMapping == OfFile(Code) \in Mapping
<1>1. Code \in SUBSET Access
  BY DEF Code, Access
<1> QED  BY <1>1 DEF OfFile, Mapping

\* What call holds between two calls has the type of a call.
LEMMA IdleIsCall == Idle \in Call
<1>1. 1 \in 1..(MaxModules + 1)
  BY BoundsAssumption
<1>2. ForkApp \in Methods /\ "app" \in Uids
  BY DEF Methods, Uids
<1> QED  BY <1>1, <1>2 DEF Idle, Call

\* The types hold at the start.
LEMMA InitTypes == Init => StateTypes
<1> SUFFICES ASSUME Init PROVE StateTypes
  OBVIOUS
<1>1. calls \in 0..MaxCalls /\ mods \in Seq(Shapes) /\ Len(mods) <= MaxModules
  BY BoundsAssumption DEF Init
<1>2. call \in Call
  BY IdleIsCall DEF Init
<1>3. maps \in [Hideable -> Mapping]
  BY CodeIsMapping DEF Init, Code
<1>4. handle \subseteq DOMAIN mods /\ allow \subseteq DOMAIN mods /\ unlisted \subseteq Hideable
  BY DEF Init
<1>5. env \in Devices /\ role \in Roles /\ pc \in PCs /\ hook \in {"none", "got", "table"}
  BY DEF Init, Roles, PCs
<1>6. natives \in [Methods -> {"absent", "original", "riru"}]
      /\ saved \in [Methods -> {"null", "kept", "freed"}]
  BY DEF Init
<1> QED  BY <1>1, <1>2, <1>3, <1>4, <1>5, <1>6 DEF Init, StateTypes

\* A mapping stays a mapping, whatever call of do_hide fails.
LEMMA DoHideTypes ==
  ASSUME NEW m \in Mapping, NEW n \in 0..Calls PROVE do_hide(m, n) \in Mapping
<1>1. n \in {0, 1, 2, 3, 4, 5} /\ {"w"} \subseteq Access
  BY DEF Calls, Access
<1>2. m.prot \cup {"w"} \in SUBSET Access
  BY <1>1 DEF Mapping
<1> QED  BY <1>1, <1>2 DEF Mapping, do_hide

\* What hiding changes, and how.
LEMMA HidingTypes ==
  ASSUME StateTypes, NEW ms, NEW loaded \in SUBSET (1..MaxModules), NEW opened,
         NEW next \in PCs, HidePathsFromMaps(ms, loaded, opened, next)
  PROVE  /\ hideLib' \in {"absent", "open", "closed"} /\ hideRuns' \in Nat
         /\ maps' \in [Hideable -> Mapping] /\ pc' \in PCs
<1>e. env.fails \in 0..Calls
  BY DevicesAssumption DEF StateTypes, Env
<1>m. maps \in [Hideable -> Mapping] /\ hideRuns \in Nat /\ hideLib \in {"absent", "open", "closed"}
  BY DEF StateTypes
<1>1. CASE hideLib = "absent"
  BY <1>1, <1>m DEF HidePathsFromMaps
<1>2. CASE hideLib # "absent"
  <2>1. PICK worst : maps' = riru_hide(maps, {Riru} \cup {i \in loaded : ms[i].hides},
                               [l \in Hideable |-> IF l = worst THEN env.fails ELSE Calls], env.parsed)
    BY <1>2 DEF HidePathsFromMaps
  <2>2. \A l \in Hideable :
          [k \in Hideable |-> IF k = worst THEN env.fails ELSE Calls][l] \in 0..Calls
    BY <1>e DEF Calls
  <2>3. maps' \in [Hideable -> Mapping]
    BY <1>m, <2>1, <2>2, DoHideTypes DEF riru_hide
  <2>4. pc' \in {next, "crashed"} /\ hideRuns' = hideRuns + 1 /\ hideLib' \in {"closed", hideLib}
    BY <1>2 DEF HidePathsFromMaps
  <2> QED  BY <1>m, <2>3, <2>4 DEF PCs
<1> QED  BY <1>1, <1>2

\* The call with its cursor moved.
LEMMA NextModuleTypes ==
  ASSUME StateTypes, call.i \in DOMAIN mods
  PROVE  NextModule \in Call
<1>1. MaxModules \in Nat /\ call \in Call /\ call.i \in 1..MaxModules
  BY BoundsAssumption DEF StateTypes
<1>2. call.i + 1 \in 1..(MaxModules + 1)
  BY <1>1
<1> QED  BY <1>1, <1>2 DEF NextModule, Call

\* Every action keeps the types.
LEMMA StepTypes == StateTypes /\ [Next]_vars => StateTypes'
<1> SUFFICES ASSUME StateTypes, [Next]_vars PROVE StateTypes'
  OBVIOUS
<1> USE DEF hookVars, moduleVars, hideVars, selfVars
<1>b. MaxModules \in Nat /\ MaxCalls \in Nat
  BY BoundsAssumption
<1>d. DOMAIN mods = 1..Len(mods) /\ DOMAIN mods \subseteq 1..MaxModules
  BY <1>b DEF StateTypes
<1>1. CASE InstallHooks
  BY <1>1 DEF InstallHooks, StateTypes, PCs
<1>2. ASSUME NEW n \in 0..MaxModules, NEW ms \in [1..n -> Shapes], LoadModules(ms) PROVE StateTypes'
  <2>1. ms \in Seq(Shapes) /\ Len(ms) = n /\ DOMAIN ms = 1..n /\ DOMAIN ms \subseteq 1..MaxModules
    BY <1>b
  <2>2. /\ hideLib' \in {"absent", "open", "closed"} /\ hideRuns' \in Nat
        /\ maps' \in [Hideable -> Mapping] /\ pc' \in PCs
    <3>1. CASE env.q /\ env.served
      <4>1. "register" \in PCs
        BY DEF PCs
      <4> QED  BY <1>2, <2>1, <3>1, <4>1, HidingTypes DEF LoadModules
    <3>2. CASE ~(env.q /\ env.served)
      BY <1>2, <3>2 DEF LoadModules, StateTypes, PCs
    <3> QED  BY <3>1, <3>2
  <2> QED  BY <1>2, <2>1, <2>2 DEF LoadModules, StateTypes
<1>3. CASE RegisterZygote
  BY <1>3 DEF RegisterZygote, StateTypes, PCs
<1>4. CASE OpenLater
  BY <1>4 DEF OpenLater, StateTypes
<1>5. ASSUME NEW m \in Methods, NEW uid \in Uids, NEW child \in BOOLEAN, CallHook(m, uid, child)
      PROVE StateTypes'
  <2>1. call' \in Call
    BY <1>5, IdleIsCall DEF CallHook, Call
  <2> QED  BY <1>5, <1>b, <2>1 DEF CallHook, StateTypes, PCs
<1>6. ASSUME NEW m \in Methods, NEW child \in BOOLEAN, CallOriginal(m, child) PROVE StateTypes'
  BY <1>6 DEF CallOriginal, StateTypes, RoleOfChild, Roles
<1>7. CASE ForkUsap
  BY <1>7 DEF ForkUsap, StateTypes, Roles
<1>8. CASE Pre
  <2>1. call.i \in DOMAIN mods /\ call \in Call
    BY <1>8 DEF Pre, StateTypes
  <2>2. call' \in Call /\ allow' \subseteq DOMAIN mods
    <3>1. CASE call.method \notin mods[call.i].pre \/ Skipped(call.i)
      BY <1>8, <2>1, <3>1, NextModuleTypes DEF Pre, StateTypes
    <3>2. CASE ~(call.method \notin mods[call.i].pre \/ Skipped(call.i))
      <4>1. PICK a \in BOOLEAN, uid \in Uids :
              /\ allow' = IF a THEN allow \cup {call.i} ELSE allow \ {call.i}
              /\ call' = [NextModule EXCEPT
                    !.uid = uid, !.changed = @ \/ uid # call.uid, !.pre = @ \cup {call.i},
                    !.allowed = IF a THEN @ \cup {call.i} ELSE @]
        BY <1>8, <2>1, <3>2 DEF Pre, Call
      <4>2. call' \in Call
        <5>1. NextModule \in Call /\ {call.i} \subseteq 1..MaxModules
          BY <2>1, <1>d, NextModuleTypes
        <5> QED  BY <4>1, <5>1 DEF Call
      <4> QED  BY <2>1, <4>1, <4>2 DEF StateTypes
    <3> QED  BY <3>1, <3>2
  <2> QED  BY <1>8, <2>2 DEF Pre, StateTypes
<1>9. CASE PreDone
  BY <1>9 DEF PreDone, StateTypes, PCs
<1>10. CASE Original
  <2>1. call' \in Call /\ role' \in Roles /\ pc' \in PCs
    <3>1. PICK forked \in BOOLEAN :
            /\ call' = [call EXCEPT !.i = 1, !.forked = forked]
            /\ role' = IF forked THEN RoleOfChild(call.method, call.child) ELSE role
            /\ pc' = IF forked THEN "restore" ELSE "post"
      BY <1>10 DEF Original
    <3>2. 1 \in 1..(MaxModules + 1) /\ call \in Call /\ role \in Roles
      BY <1>b DEF StateTypes
    <3>3. call' \in Call
      BY <3>1, <3>2 DEF Call
    <3> QED  BY <3>1, <3>2, <3>3 DEF RoleOfChild, Roles, PCs
  <2> QED  BY <1>10, <2>1 DEF Original, StateTypes
<1>11. CASE RestoreHooks
  BY <1>11 DEF RestoreHooks, StateTypes, PCs
<1>12. CASE Post
  <2>1. call.i \in DOMAIN mods /\ call \in Call
    BY <1>12 DEF Post, StateTypes
  <2>2. call' \in Call /\ allow' \subseteq DOMAIN mods
    <3>1. CASE call.method \notin mods[call.i].post \/ Skipped(call.i)
      BY <1>12, <2>1, <3>1, NextModuleTypes DEF Post, StateTypes
    <3>2. CASE ~(call.method \notin mods[call.i].post \/ Skipped(call.i))
      <4>1. /\ allow' \in {allow, allow \cup {call.i}, allow \ {call.i}}
            /\ call' = [NextModule EXCEPT !.post = @ \cup {call.i},
                          !.allowed = IF call.i \in allow' \ allow THEN @ \cup {call.i} ELSE @]
        BY <1>12, <3>2 DEF Post
      <4>2. call' \in Call
        <5>1. NextModule \in Call /\ {call.i} \subseteq 1..MaxModules
          BY <2>1, <1>d, NextModuleTypes
        <5> QED  BY <4>1, <5>1 DEF Call
      <4> QED  BY <2>1, <4>1, <4>2 DEF StateTypes
    <3> QED  BY <3>1, <3>2
  <2> QED  BY <1>12, <2>2 DEF Post, StateTypes
<1>13. CASE PostDone
  BY <1>13 DEF PostDone, StateTypes, PCs
<1>14. CASE UnloadModules
  BY <1>14 DEF UnloadModules, StateTypes, PCs
<1>15. CASE HideFromSoList
  <2>1. {Riru} \subseteq Hideable /\ handle \subseteq Hideable
    BY <1>b, <1>d DEF StateTypes, Hideable, Riru
  <2> QED  BY <1>15, <2>1 DEF HideFromSoList, HideNames, StateTypes, PCs
<1>16. CASE HideFromMaps
  <2>1. /\ hideLib' \in {"absent", "open", "closed"} /\ hideRuns' \in Nat
        /\ maps' \in [Hideable -> Mapping] /\ pc' \in PCs
    <3>1. CASE ~env.q /\ ~call.child
      <4>1. (IF selfUnload THEN "selfUnload" ELSE "leave") \in PCs
        BY DEF PCs
      <4>2. handle \in SUBSET (1..MaxModules)
        BY <1>d DEF StateTypes
      <4> QED  BY <1>16, <3>1, <4>1, <4>2, HidingTypes DEF HideFromMaps, HideMapsIf
    <3>2. CASE ~(~env.q /\ ~call.child)
      BY <1>16, <3>2 DEF HideFromMaps, HideMapsIf, StateTypes, PCs
    <3> QED  BY <3>1, <3>2
  <2> QED  BY <1>16, <2>1 DEF HideFromMaps, HideMapsIf, StateTypes
<1>17. CASE SelfUnload
  BY <1>17 DEF SelfUnload, StateTypes, PCs
<1>18. CASE Detach
  BY <1>18 DEF Detach, StateTypes, PCs
<1>19. CASE Leave
  BY <1>19 DEF Leave, StateTypes, PCs
<1>20. CASE GuardDestructor
  BY <1>20 DEF GuardDestructor, StateTypes
<1>21. CASE Unmap
  BY <1>21 DEF Unmap, StateTypes
<1>22. CASE UNCHANGED vars
  BY <1>22 DEF vars, StateTypes
<1> QED
  BY <1>1, <1>2, <1>3, <1>4, <1>5, <1>6, <1>7, <1>8, <1>9, <1>10, <1>11, <1>12, <1>13, <1>14,
     <1>15, <1>16, <1>17, <1>18, <1>19, <1>20, <1>21, <1>22 DEF Next

-----------------------------------------------------------------------------
(* The parts of the inductive invariant. *)

Hooked == \E m \in Methods : natives[m] = "riru"

Unloading == {"unload", "hideSoList", "hideMaps", "selfUnload", "detach", "leave"}

\* While a method is hooked its original is kept and no module was closed; a child that
\* got past RestoreHooks has none.
HooksLive == HaveOld =>
  /\ \A m \in Methods : natives[m] = "riru" => saved[m] = "kept"
  /\ pc \in {"pre", "original", "restore"} => natives[call.method] = "riru"
  /\ Hooked \/ pc \in {"register", "pre", "original", "restore", "post", "unload"}
       => handle = DOMAIN mods
  /\ pc \in Unloading \/ (pc = "post" /\ call.forked) => ~Hooked

\* How far the two threads are: the guard keeps the unloader behind Detach.
Threads == HaveOld =>
  /\ (pc \in Unloading \/ (pc = "post" /\ call.forked)) /\ env.unhook => hook = "none"
  /\ unloader # "none" =>
       /\ ~Hooked /\ selfUnload /\ (env.unhook => hook = "none")
       /\ pc \in {"detach", "leave", "idle", "crashed"}
  /\ unloader \in {"sleeping", "done"} => pc \in {"leave", "idle", "crashed"}
  /\ ~mapped => unloader = "done"
  /\ pc = "detach" => guard = "main"
  /\ pc \in {"selfUnload", "detach"} => selfUnload

\* A process whose list lost a library closes no module any more.
UnlistedLast == HaveOld =>
  /\ unlisted # {} => ~Hooked /\ pc \in {"hideMaps", "selfUnload", "detach", "leave", "idle", "crashed"}
  /\ unlisted \ {Riru} \subseteq handle
  /\ Riru \in unlisted => ~selfUnload /\ unloader = "none" /\ mapped

\* A module that allows its unload did so in this call, if its pre callback was due.
AllowedNow == HaveOld =>
  /\ pc \in {"pre", "original", "restore", "post", "unload"} =>
       \A j \in DOMAIN mods :
         /\ j \in allow /\ ~mods[j].old /\ call.method \in mods[j].pre
         /\ pc = "pre" => j < call.i
         => j \in call.allowed
  /\ pc = "hideSoList" =>
       \A j \in DOMAIN mods :
         j \notin handle /\ HasAppFunctions(j) /\ call.method \in mods[j].pre => j \in call.allowed

\* The callbacks that ran, as long as no module changed the uid.
CallbacksRan ==
  /\ pc = "pre" => call.post = {}
  /\ pc \in {"original", "restore"} => call.post = {}
  /\ pc = "restore" => call.i = 1
  /\ pc \in {"pre", "original", "restore", "post"} /\ ~call.changed =>
       call.pre = {j \in DOMAIN mods : /\ pc = "pre" => j < call.i
                                       /\ call.method \in mods[j].pre /\ ~Skipped(j)}
  /\ pc = "post" /\ ~call.changed =>
       call.post = {j \in DOMAIN mods : j < call.i /\ call.method \in mods[j].post /\ ~Skipped(j)}

\* Who hides: zygote, or an app that is no child zygote and makes no call any more.
HidesOnce ==
  /\ hideRuns <= 1
  /\ pc \in {"init", "load"} => hideRuns = 0
  /\ ~env.q /\ hideRuns > 0 =>
       role = "app" /\ pc \in {"selfUnload", "detach", "leave", "idle", "crashed"}
  /\ pc \in {"restore"} \cup Unloading \/ (pc = "post" /\ call.forked) =>
       role = RoleOfChild(call.method, call.child)
  /\ pc \in Unloading => call.method # ForkSys

\* A mapping is as it was, or as one run of do_hide leaves it.
MapsHiddenOnce ==
  \A l \in Hideable :
    maps[l] \in {OfFile(Code), do_hide(OfFile(Code), env.fails), do_hide(OfFile(Code), Calls)}

\* What the maps and the list still show.
Shown ==
  /\ env.hide /\ pc # "init" => hideLib # "absent"
  /\ env.hide /\ env.parsed /\ env.fails = Calls
     /\ pc \notin {"init", "load"} /\ env.q /\ env.served =>
       \A l \in {Riru} \cup {i \in DOMAIN mods : mods[i].hides} : ~maps[l].file
  /\ env.hide /\ env.parsed /\ env.fails = Calls
     /\ ~env.q /\ role = "app" /\ pc \in {"selfUnload", "detach", "leave"} =>
       \A l \in {Riru} \cup {i \in handle : mods[i].hides} : ~maps[l].file
  /\ env.solist /\ pc \in {"hideMaps", "selfUnload", "detach", "leave"} =>
       \A l \in {Riru} \cup {i \in handle : mods[i].hides} :
         l \in unlisted \/ (l = Riru /\ selfUnload)

\* Where hiding leads.
LEMMA HidingLeads ==
  ASSUME NEW ms, NEW loaded, NEW opened, NEW next, HidePathsFromMaps(ms, loaded, opened, next)
  PROVE  /\ pc' \in {next, "crashed"} /\ (hideRuns' = hideRuns \/ hideRuns' = hideRuns + 1)
         /\ hideLib = "absent" => hideLib' = "absent" /\ maps' = maps
         /\ hideLib # "absent" =>
              /\ hideLib' \in {"closed", hideLib}
              /\ \E worst : maps' = riru_hide(maps, {Riru} \cup {i \in loaded : ms[i].hides},
                                     [l \in Hideable |-> IF l = worst THEN env.fails ELSE Calls],
                                     env.parsed)
BY DEF HidePathsFromMaps

\* What a call starts with.
LEMMA CallEffect ==
  ASSUME NEW m \in Methods, NEW uid \in Uids, NEW child \in BOOLEAN, CallHook(m, uid, child)
  PROVE  /\ call'.method = m /\ call'.child = child /\ call'.i = 1 /\ ~call'.forked
         /\ call'.pre = {} /\ call'.post = {} /\ call'.allowed = {} /\ ~call'.changed
BY IdleIsCall DEF CallHook, Idle, Call

\* What the step over one module does before the original.
LEMMA PreEffect ==
  ASSUME StateTypes, Pre
  PROVE  /\ call'.method = call.method /\ call'.forked = call.forked /\ call'.child = call.child
         /\ call'.i = call.i + 1 /\ pc' = pc /\ pc = "pre" /\ call.i \in DOMAIN mods
         /\ call'.uid = call.uid \/ call'.changed
         /\ call.changed => call'.changed
         /\ call'.post = call.post
         /\ call'.pre = IF call.method \in mods[call.i].pre /\ ~Skipped(call.i)
                        THEN call.pre \cup {call.i} ELSE call.pre
         /\ call.allowed \subseteq call'.allowed
         /\ allow' \ {call.i} \subseteq allow
         /\ call.i \in allow' /\ call.method \in mods[call.i].pre => call.i \in call'.allowed
<1>1. call \in Call /\ call.i \in DOMAIN mods
  BY DEF StateTypes, Pre
<1>2. /\ NextModule \in Call /\ NextModule.i = call.i + 1 /\ NextModule.uid = call.uid
      /\ NextModule.method = call.method /\ NextModule.forked = call.forked
      /\ NextModule.child = call.child /\ NextModule.changed = call.changed
      /\ NextModule.pre = call.pre /\ NextModule.post = call.post
      /\ NextModule.allowed = call.allowed
  BY <1>1, NextModuleTypes DEF NextModule, Call
<1>3. CASE call.method \notin mods[call.i].pre \/ Skipped(call.i)
  BY <1>1, <1>2, <1>3 DEF Pre
<1>4. CASE ~(call.method \notin mods[call.i].pre \/ Skipped(call.i))
  <2>1. PICK a \in BOOLEAN, uid \in Uids :
          /\ allow' = IF a THEN allow \cup {call.i} ELSE allow \ {call.i}
          /\ call' = [NextModule EXCEPT
                !.uid = uid, !.changed = @ \/ uid # call.uid, !.pre = @ \cup {call.i},
                !.allowed = IF a THEN @ \cup {call.i} ELSE @]
    BY <1>1, <1>4 DEF Pre, Call
  <2>2. /\ call'.method = call.method /\ call'.forked = call.forked /\ call'.child = call.child
        /\ call'.i = call.i + 1 /\ call'.uid = uid /\ call'.post = call.post
        /\ call'.pre = call.pre \cup {call.i}
        /\ call'.changed <=> call.changed \/ uid # call.uid
        /\ call'.allowed = IF a THEN call.allowed \cup {call.i} ELSE call.allowed
    BY <1>2, <2>1 DEF Call
  <2>3. (call'.uid = call.uid \/ call'.changed) /\ (call.changed => call'.changed)
    BY <2>2
  <2>4. /\ call.allowed \subseteq call'.allowed /\ allow' \ {call.i} \subseteq allow
        /\ call.i \in allow' => call.i \in call'.allowed
    BY <2>1, <2>2
  <2>5. pc' = pc /\ pc = "pre"
    BY DEF Pre
  <2> QED  BY <1>1, <1>4, <2>2, <2>3, <2>4, <2>5
<1> QED  BY <1>3, <1>4

\* What the step over one module does after the original.
LEMMA PostEffect ==
  ASSUME StateTypes, Post
  PROVE  /\ call'.method = call.method /\ call'.forked = call.forked /\ call'.child = call.child
         /\ call'.i = call.i + 1 /\ pc' = pc /\ pc = "post" /\ call.i \in DOMAIN mods
         /\ call'.uid = call.uid /\ call'.changed = call.changed /\ call'.pre = call.pre
         /\ call'.post = IF call.method \in mods[call.i].post /\ ~Skipped(call.i)
                         THEN call.post \cup {call.i} ELSE call.post
         /\ call.allowed \subseteq call'.allowed /\ allow' \ allow \subseteq call'.allowed
<1>1. call \in Call /\ call.i \in DOMAIN mods
  BY DEF StateTypes, Post
<1>2. /\ NextModule \in Call /\ NextModule.i = call.i + 1 /\ NextModule.uid = call.uid
      /\ NextModule.method = call.method /\ NextModule.forked = call.forked
      /\ NextModule.child = call.child /\ NextModule.changed = call.changed
      /\ NextModule.pre = call.pre /\ NextModule.post = call.post
      /\ NextModule.allowed = call.allowed
  BY <1>1, NextModuleTypes DEF NextModule, Call
<1>3. CASE call.method \notin mods[call.i].post \/ Skipped(call.i)
  BY <1>1, <1>2, <1>3 DEF Post
<1>4. CASE ~(call.method \notin mods[call.i].post \/ Skipped(call.i))
  <2>1. /\ allow' \in {allow, allow \cup {call.i}, allow \ {call.i}}
        /\ call' = [NextModule EXCEPT !.post = @ \cup {call.i},
                      !.allowed = IF call.i \in allow' \ allow THEN @ \cup {call.i} ELSE @]
    BY <1>4 DEF Post
  <2>2. /\ call'.method = call.method /\ call'.forked = call.forked /\ call'.child = call.child
        /\ call'.i = call.i + 1 /\ call'.uid = call.uid /\ call'.changed = call.changed
        /\ call'.pre = call.pre /\ call'.post = call.post \cup {call.i}
        /\ call'.allowed = IF call.i \in allow' \ allow
                           THEN call.allowed \cup {call.i} ELSE call.allowed
    BY <1>2, <2>1 DEF Call
  <2> QED  BY <1>1, <1>4, <2>1, <2>2 DEF Post
<1> QED  BY <1>3, <1>4

\* What the original leaves alone.
LEMMA OriginalEffect ==
  ASSUME StateTypes, Original
  PROVE  /\ pc = "original" /\ call'.method = call.method /\ call'.child = call.child /\ call'.i = 1
         /\ call'.uid = call.uid /\ call'.changed = call.changed /\ call'.pre = call.pre
         /\ call'.post = call.post /\ call'.allowed = call.allowed
         /\ IF call'.forked
            THEN role' = RoleOfChild(call.method, call.child) /\ pc' = "restore"
            ELSE role' = role /\ pc' = "post"
<1>1. PICK forked \in BOOLEAN :
        /\ call' = [call EXCEPT !.i = 1, !.forked = forked]
        /\ role' = IF forked THEN RoleOfChild(call.method, call.child) ELSE role
        /\ pc' = IF forked THEN "restore" ELSE "post"
  BY DEF Original
<1>2. call \in Call
  BY DEF StateTypes
<1> QED  BY <1>1, <1>2 DEF Original, Call

\* RestoreHooks gives back every method whose original was kept.
LEMMA HooksLiveStep == StateTypes /\ HooksLive /\ [Next]_vars => HooksLive'
<1> SUFFICES ASSUME StateTypes, HooksLive, [Next]_vars PROVE HooksLive'
  OBVIOUS
<1> USE DEF hookVars, moduleVars, hideVars, selfVars
<1>1. ASSUME NEW k \in 0..MaxModules, NEW ms \in [1..k -> Shapes], LoadModules(ms) PROVE HooksLive'
  <2>1. pc' \in {"register", "crashed"} /\ pc = "load"
    BY <1>1, HidingLeads DEF LoadModules
  <2> QED  BY <1>1, <2>1 DEF LoadModules, HooksLive, Hooked, HaveOld, Unloading
<1>2. ASSUME NEW m \in Methods, NEW uid \in Uids, NEW child \in BOOLEAN, CallHook(m, uid, child)
      PROVE HooksLive'
  BY <1>2, CallEffect DEF CallHook, HooksLive, Hooked, HaveOld, Unloading
<1>3. ASSUME NEW m \in Methods, NEW child \in BOOLEAN, CallOriginal(m, child) PROVE HooksLive'
  BY <1>3 DEF CallOriginal, HooksLive, Hooked, HaveOld, Unloading
<1>4. CASE InstallHooks
  BY <1>4 DEF InstallHooks, HooksLive, Hooked, HaveOld, Unloading
<1>5. CASE RegisterZygote
  BY <1>5 DEF RegisterZygote, HooksLive, Hooked, HaveOld, Unloading
<1>6. CASE OpenLater
  BY <1>6 DEF OpenLater, HooksLive, Hooked, HaveOld, Unloading
<1>7. CASE ForkUsap
  BY <1>7 DEF ForkUsap, HooksLive, Hooked, HaveOld, Unloading
<1>8. CASE Pre
  BY <1>8, PreEffect DEF Pre, HooksLive, Hooked, HaveOld, Unloading
<1>9. CASE PreDone
  BY <1>9 DEF PreDone, HooksLive, Hooked, HaveOld, Unloading
<1>10. CASE Original
  BY <1>10, OriginalEffect DEF Original, HooksLive, Hooked, HaveOld, Unloading
<1>11. CASE RestoreHooks
  BY <1>11 DEF RestoreHooks, HooksLive, Hooked, HaveOld, Unloading
<1>12. CASE Post
  BY <1>12, PostEffect DEF Post, HooksLive, Hooked, HaveOld, Unloading
<1>13. CASE PostDone
  BY <1>13 DEF PostDone, HooksLive, Hooked, HaveOld, Unloading
<1>14. CASE UnloadModules
  BY <1>14 DEF UnloadModules, HooksLive, Hooked, HaveOld, Unloading
<1>15. CASE HideFromSoList
  BY <1>15 DEF HideFromSoList, HideNames, HooksLive, Hooked, HaveOld, Unloading
<1>16. CASE HideFromMaps
  <2>1. pc' \in {"selfUnload", "leave", "crashed"} /\ pc = "hideMaps"
    BY <1>16, HidingLeads DEF HideFromMaps, HideMapsIf
  <2>2. pc' = "selfUnload" => selfUnload
    BY <1>16, HidingLeads DEF HideFromMaps, HideMapsIf
  <2> QED  BY <1>16, <2>1, <2>2 DEF HideFromMaps, HideMapsIf, HooksLive, Hooked, HaveOld, Unloading
<1>17. CASE SelfUnload
  BY <1>17 DEF SelfUnload, HooksLive, Hooked, HaveOld, Unloading
<1>18. CASE Detach
  BY <1>18 DEF Detach, HooksLive, Hooked, HaveOld, Unloading
<1>19. CASE Leave
  BY <1>19 DEF Leave, HooksLive, Hooked, HaveOld, Unloading
<1>20. CASE GuardDestructor
  BY <1>20 DEF GuardDestructor, HooksLive, Hooked, HaveOld, Unloading
<1>21. CASE Unmap
  BY <1>21 DEF Unmap, HooksLive, Hooked, HaveOld, Unloading
<1>22. CASE UNCHANGED vars
  BY <1>22 DEF vars, HooksLive, Hooked, HaveOld, Unloading
<1> QED
  BY <1>1, <1>2, <1>3, <1>4, <1>5, <1>6, <1>7, <1>8, <1>9, <1>10, <1>11, <1>12,
     <1>13, <1>14, <1>15, <1>16, <1>17, <1>18, <1>19, <1>20, <1>21, <1>22 DEF Next

\* While the unloader runs no hook is called, so nothing enters libriru.so again.
LEMMA ThreadsStep == StateTypes /\ HooksLive /\ Threads /\ [Next]_vars => Threads'
<1> SUFFICES ASSUME StateTypes, HooksLive, Threads, [Next]_vars PROVE Threads'
  OBVIOUS
<1> USE DEF hookVars, moduleVars, hideVars, selfVars
<1>1. ASSUME NEW k \in 0..MaxModules, NEW ms \in [1..k -> Shapes], LoadModules(ms) PROVE Threads'
  <2>1. pc' \in {"register", "crashed"} /\ pc = "load"
    BY <1>1, HidingLeads DEF LoadModules
  <2> QED  BY <1>1, <2>1 DEF LoadModules, Threads, Hooked, HaveOld, Unloading, HooksLive
<1>2. ASSUME NEW m \in Methods, NEW uid \in Uids, NEW child \in BOOLEAN, CallHook(m, uid, child)
      PROVE Threads'
  BY <1>2, CallEffect DEF CallHook, Threads, Hooked, HaveOld, Unloading, HooksLive
<1>3. ASSUME NEW m \in Methods, NEW child \in BOOLEAN, CallOriginal(m, child) PROVE Threads'
  BY <1>3 DEF CallOriginal, Threads, Hooked, HaveOld, Unloading, HooksLive
<1>4. CASE InstallHooks
  BY <1>4 DEF InstallHooks, Threads, Hooked, HaveOld, Unloading, HooksLive
<1>5. CASE RegisterZygote
  BY <1>5 DEF RegisterZygote, Threads, Hooked, HaveOld, Unloading, HooksLive
<1>6. CASE OpenLater
  BY <1>6 DEF OpenLater, Threads, Hooked, HaveOld, Unloading, HooksLive
<1>7. CASE ForkUsap
  BY <1>7 DEF ForkUsap, Threads, Hooked, HaveOld, Unloading, HooksLive
<1>8. CASE Pre
  BY <1>8, PreEffect DEF Pre, Threads, Hooked, HaveOld, Unloading, HooksLive
<1>9. CASE PreDone
  BY <1>9 DEF PreDone, Threads, Hooked, HaveOld, Unloading, HooksLive
<1>10. CASE Original
  BY <1>10, OriginalEffect DEF Original, Threads, Hooked, HaveOld, Unloading, HooksLive
<1>11. CASE RestoreHooks
  BY <1>11 DEF RestoreHooks, Threads, Hooked, HaveOld, Unloading, HooksLive
<1>12. CASE Post
  BY <1>12, PostEffect DEF Post, Threads, Hooked, HaveOld, Unloading, HooksLive
<1>13. CASE PostDone
  BY <1>13 DEF PostDone, Threads, Hooked, HaveOld, Unloading, HooksLive
<1>14. CASE UnloadModules
  BY <1>14 DEF UnloadModules, Threads, Hooked, HaveOld, Unloading, HooksLive
<1>15. CASE HideFromSoList
  BY <1>15 DEF HideFromSoList, HideNames, Threads, Hooked, HaveOld, Unloading, HooksLive
<1>16. CASE HideFromMaps
  <2>1. pc' \in {"selfUnload", "leave", "crashed"} /\ pc = "hideMaps"
    BY <1>16, HidingLeads DEF HideFromMaps, HideMapsIf
  <2>2. pc' = "selfUnload" => selfUnload
    BY <1>16, HidingLeads DEF HideFromMaps, HideMapsIf
  <2> QED  BY <1>16, <2>1, <2>2 DEF HideFromMaps, HideMapsIf, Threads, Hooked, HaveOld, Unloading, HooksLive
<1>17. CASE SelfUnload
  BY <1>17 DEF SelfUnload, Threads, Hooked, HaveOld, Unloading, HooksLive
<1>18. CASE Detach
  BY <1>18 DEF Detach, Threads, Hooked, HaveOld, Unloading, HooksLive
<1>19. CASE Leave
  BY <1>19 DEF Leave, Threads, Hooked, HaveOld, Unloading, HooksLive
<1>20. CASE GuardDestructor
  BY <1>20 DEF GuardDestructor, Threads, Hooked, HaveOld, Unloading, HooksLive
<1>21. CASE Unmap
  BY <1>21 DEF Unmap, Threads, Hooked, HaveOld, Unloading, HooksLive
<1>22. CASE UNCHANGED vars
  BY <1>22 DEF vars, Threads, Hooked, HaveOld, Unloading, HooksLive
<1> QED
  BY <1>1, <1>2, <1>3, <1>4, <1>5, <1>6, <1>7, <1>8, <1>9, <1>10, <1>11, <1>12,
     <1>13, <1>14, <1>15, <1>16, <1>17, <1>18, <1>19, <1>20, <1>21, <1>22 DEF Next

\* Unload runs once in a process, and closes before it hides.
LEMMA UnlistedLastStep == StateTypes /\ HooksLive /\ Threads /\ UnlistedLast /\ [Next]_vars => UnlistedLast'
<1> SUFFICES ASSUME StateTypes, HooksLive, Threads, UnlistedLast, [Next]_vars PROVE UnlistedLast'
  OBVIOUS
<1> USE DEF hookVars, moduleVars, hideVars, selfVars
<1>1. ASSUME NEW k \in 0..MaxModules, NEW ms \in [1..k -> Shapes], LoadModules(ms) PROVE UnlistedLast'
  <2>1. pc' \in {"register", "crashed"} /\ pc = "load"
    BY <1>1, HidingLeads DEF LoadModules
  <2> QED  BY <1>1, <2>1 DEF LoadModules, UnlistedLast, Hooked, HaveOld, Unloading, HooksLive, Threads
<1>2. ASSUME NEW m \in Methods, NEW uid \in Uids, NEW child \in BOOLEAN, CallHook(m, uid, child)
      PROVE UnlistedLast'
  BY <1>2, CallEffect DEF CallHook, UnlistedLast, Hooked, HaveOld, Unloading, HooksLive, Threads
<1>3. ASSUME NEW m \in Methods, NEW child \in BOOLEAN, CallOriginal(m, child) PROVE UnlistedLast'
  BY <1>3 DEF CallOriginal, UnlistedLast, Hooked, HaveOld, Unloading, HooksLive, Threads
<1>4. CASE InstallHooks
  BY <1>4 DEF InstallHooks, UnlistedLast, Hooked, HaveOld, Unloading, HooksLive, Threads
<1>5. CASE RegisterZygote
  BY <1>5 DEF RegisterZygote, UnlistedLast, Hooked, HaveOld, Unloading, HooksLive, Threads
<1>6. CASE OpenLater
  BY <1>6 DEF OpenLater, UnlistedLast, Hooked, HaveOld, Unloading, HooksLive, Threads
<1>7. CASE ForkUsap
  BY <1>7 DEF ForkUsap, UnlistedLast, Hooked, HaveOld, Unloading, HooksLive, Threads
<1>8. CASE Pre
  BY <1>8, PreEffect DEF Pre, UnlistedLast, Hooked, HaveOld, Unloading, HooksLive, Threads
<1>9. CASE PreDone
  BY <1>9 DEF PreDone, UnlistedLast, Hooked, HaveOld, Unloading, HooksLive, Threads
<1>10. CASE Original
  BY <1>10, OriginalEffect DEF Original, UnlistedLast, Hooked, HaveOld, Unloading, HooksLive, Threads
<1>11. CASE RestoreHooks
  BY <1>11 DEF RestoreHooks, UnlistedLast, Hooked, HaveOld, Unloading, HooksLive, Threads
<1>12. CASE Post
  BY <1>12, PostEffect DEF Post, UnlistedLast, Hooked, HaveOld, Unloading, HooksLive, Threads
<1>13. CASE PostDone
  BY <1>13 DEF PostDone, UnlistedLast, Hooked, HaveOld, Unloading, HooksLive, Threads
<1>14. CASE UnloadModules
  BY <1>14 DEF UnloadModules, UnlistedLast, Hooked, HaveOld, Unloading, HooksLive, Threads
<1>15. CASE HideFromSoList
  <2>1. HaveOld => Riru \notin handle /\ unlisted = {} /\ unloader = "none" /\ mapped
    BY <1>15 DEF HideFromSoList, HideNames, UnlistedLast, Threads, StateTypes, Riru
  <2> QED  BY <1>15, <2>1 DEF HideFromSoList, HideNames, UnlistedLast, Hooked, HaveOld, Unloading, HooksLive
<1>16. CASE HideFromMaps
  <2>1. pc' \in {"selfUnload", "leave", "crashed"} /\ pc = "hideMaps"
    BY <1>16, HidingLeads DEF HideFromMaps, HideMapsIf
  <2>2. pc' = "selfUnload" => selfUnload
    BY <1>16, HidingLeads DEF HideFromMaps, HideMapsIf
  <2> QED  BY <1>16, <2>1, <2>2 DEF HideFromMaps, HideMapsIf, UnlistedLast, Hooked, HaveOld, Unloading, HooksLive, Threads
<1>17. CASE SelfUnload
  BY <1>17 DEF SelfUnload, UnlistedLast, Hooked, HaveOld, Unloading, HooksLive, Threads
<1>18. CASE Detach
  BY <1>18 DEF Detach, UnlistedLast, Hooked, HaveOld, Unloading, HooksLive, Threads
<1>19. CASE Leave
  BY <1>19 DEF Leave, UnlistedLast, Hooked, HaveOld, Unloading, HooksLive, Threads
<1>20. CASE GuardDestructor
  BY <1>20 DEF GuardDestructor, UnlistedLast, Hooked, HaveOld, Unloading, HooksLive, Threads
<1>21. CASE Unmap
  BY <1>21 DEF Unmap, UnlistedLast, Hooked, HaveOld, Unloading, HooksLive, Threads
<1>22. CASE UNCHANGED vars
  BY <1>22 DEF vars, UnlistedLast, Hooked, HaveOld, Unloading, HooksLive, Threads
<1> QED
  BY <1>1, <1>2, <1>3, <1>4, <1>5, <1>6, <1>7, <1>8, <1>9, <1>10, <1>11, <1>12,
     <1>13, <1>14, <1>15, <1>16, <1>17, <1>18, <1>19, <1>20, <1>21, <1>22 DEF Next

\* resetAllowUnload comes before the callback: what allow says of a module that was due is of
\* this call.
LEMMA AllowedNowStep == StateTypes /\ HooksLive /\ AllowedNow /\ [Next]_vars => AllowedNow'
<1> SUFFICES ASSUME StateTypes, HooksLive, AllowedNow, [Next]_vars PROVE AllowedNow'
  OBVIOUS
<1> USE DEF hookVars, moduleVars, hideVars, selfVars
<1>1. ASSUME NEW k \in 0..MaxModules, NEW ms \in [1..k -> Shapes], LoadModules(ms) PROVE AllowedNow'
  <2>1. pc' \in {"register", "crashed"} /\ pc = "load"
    BY <1>1, HidingLeads DEF LoadModules
  <2> QED  BY <1>1, <2>1 DEF LoadModules, AllowedNow, HaveOld, HasAppFunctions
<1>2. ASSUME NEW m \in Methods, NEW uid \in Uids, NEW child \in BOOLEAN, CallHook(m, uid, child)
      PROVE AllowedNow'
  <2>1. DOMAIN mods = 1..Len(mods) /\ Len(mods) \in Nat /\ call.i \in Int
    BY BoundsAssumption DEF StateTypes, Call
  <2>2. pc' = "pre" /\ UNCHANGED <<env, mods, handle>>
    BY <1>2 DEF CallHook
  <2> QED  BY <1>2, <2>1, <2>2, CallEffect DEF AllowedNow, HaveOld, HasAppFunctions
<1>3. ASSUME NEW m \in Methods, NEW child \in BOOLEAN, CallOriginal(m, child) PROVE AllowedNow'
  BY <1>3 DEF CallOriginal, AllowedNow, HaveOld, HasAppFunctions
<1>4. CASE InstallHooks
  BY <1>4 DEF InstallHooks, AllowedNow, HaveOld, HasAppFunctions
<1>5. CASE RegisterZygote
  BY <1>5 DEF RegisterZygote, AllowedNow, HaveOld, HasAppFunctions
<1>6. CASE OpenLater
  BY <1>6 DEF OpenLater, AllowedNow, HaveOld, HasAppFunctions
<1>7. CASE ForkUsap
  BY <1>7 DEF ForkUsap, AllowedNow, HaveOld, HasAppFunctions
<1>8. CASE Pre
  <2>1. DOMAIN mods = 1..Len(mods) /\ Len(mods) \in Nat /\ call.i \in Int
    BY BoundsAssumption DEF StateTypes, Call
  <2>2. UNCHANGED <<env, mods, handle>>
    BY <1>8 DEF Pre
  <2> QED  BY <1>8, <2>1, <2>2, PreEffect DEF AllowedNow, HaveOld, HasAppFunctions
<1>9. CASE PreDone
  <2>1. DOMAIN mods = 1..Len(mods) /\ Len(mods) \in Nat /\ call.i \in Int
    BY BoundsAssumption DEF StateTypes, Call
  <2> QED  BY <1>9, <2>1 DEF PreDone, AllowedNow, HaveOld, HasAppFunctions
<1>10. CASE Original
  BY <1>10, OriginalEffect DEF Original, AllowedNow, HaveOld, HasAppFunctions
<1>11. CASE RestoreHooks
  BY <1>11 DEF RestoreHooks, AllowedNow, HaveOld, HasAppFunctions
<1>12. CASE Post
  BY <1>12, PostEffect DEF Post, AllowedNow, HaveOld, HasAppFunctions
<1>13. CASE PostDone
  BY <1>13 DEF PostDone, AllowedNow, HaveOld, HasAppFunctions
<1>14. CASE UnloadModules
  BY <1>14 DEF UnloadModules, AllowUnload, HooksLive, AllowedNow, HaveOld, HasAppFunctions
<1>15. CASE HideFromSoList
  BY <1>15 DEF HideFromSoList, HideNames, AllowedNow, HaveOld, HasAppFunctions
<1>16. CASE HideFromMaps
  <2>1. pc' \in {"selfUnload", "leave", "crashed"} /\ pc = "hideMaps"
    BY <1>16, HidingLeads DEF HideFromMaps, HideMapsIf
  <2>2. pc' = "selfUnload" => selfUnload
    BY <1>16, HidingLeads DEF HideFromMaps, HideMapsIf
  <2> QED  BY <1>16, <2>1, <2>2 DEF HideFromMaps, HideMapsIf, AllowedNow, HaveOld, HasAppFunctions
<1>17. CASE SelfUnload
  BY <1>17 DEF SelfUnload, AllowedNow, HaveOld, HasAppFunctions
<1>18. CASE Detach
  BY <1>18 DEF Detach, AllowedNow, HaveOld, HasAppFunctions
<1>19. CASE Leave
  BY <1>19 DEF Leave, AllowedNow, HaveOld, HasAppFunctions
<1>20. CASE GuardDestructor
  BY <1>20 DEF GuardDestructor, AllowedNow, HaveOld, HasAppFunctions
<1>21. CASE Unmap
  BY <1>21 DEF Unmap, AllowedNow, HaveOld, HasAppFunctions
<1>22. CASE UNCHANGED vars
  BY <1>22 DEF vars, AllowedNow, HaveOld, HasAppFunctions
<1> QED
  BY <1>1, <1>2, <1>3, <1>4, <1>5, <1>6, <1>7, <1>8, <1>9, <1>10, <1>11, <1>12,
     <1>13, <1>14, <1>15, <1>16, <1>17, <1>18, <1>19, <1>20, <1>21, <1>22 DEF Next

\* Both loops go through the modules in order and skip the same ones.
LEMMA CallbacksRanStep == StateTypes /\ CallbacksRan /\ [Next]_vars => CallbacksRan'
<1> SUFFICES ASSUME StateTypes, CallbacksRan, [Next]_vars PROVE CallbacksRan'
  OBVIOUS
<1> USE DEF hookVars, moduleVars, hideVars, selfVars
<1>1. ASSUME NEW k \in 0..MaxModules, NEW ms \in [1..k -> Shapes], LoadModules(ms) PROVE CallbacksRan'
  <2>1. pc' \in {"register", "crashed"} /\ pc = "load"
    BY <1>1, HidingLeads DEF LoadModules
  <2> QED  BY <1>1, <2>1 DEF LoadModules, CallbacksRan, Skipped
<1>2. ASSUME NEW m \in Methods, NEW uid \in Uids, NEW child \in BOOLEAN, CallHook(m, uid, child)
      PROVE CallbacksRan'
  <2>1. DOMAIN mods = 1..Len(mods) /\ Len(mods) \in Nat /\ call.i \in Int
    BY BoundsAssumption DEF StateTypes, Call
  <2>2. pc' = "pre" /\ UNCHANGED mods
    BY <1>2 DEF CallHook
  <2> QED  BY <1>2, <2>1, <2>2, CallEffect DEF CallbacksRan, Skipped
<1>3. ASSUME NEW m \in Methods, NEW child \in BOOLEAN, CallOriginal(m, child) PROVE CallbacksRan'
  BY <1>3 DEF CallOriginal, CallbacksRan, Skipped
<1>4. CASE InstallHooks
  BY <1>4 DEF InstallHooks, CallbacksRan, Skipped
<1>5. CASE RegisterZygote
  BY <1>5 DEF RegisterZygote, CallbacksRan, Skipped
<1>6. CASE OpenLater
  BY <1>6 DEF OpenLater, CallbacksRan, Skipped
<1>7. CASE ForkUsap
  BY <1>7 DEF ForkUsap, CallbacksRan, Skipped
<1>8. CASE Pre
  <2>1. DOMAIN mods = 1..Len(mods) /\ Len(mods) \in Nat /\ call.i \in Int
    BY BoundsAssumption DEF StateTypes, Call
  <2>2. UNCHANGED mods
    BY <1>8 DEF Pre
  <2> QED  BY <1>8, <2>1, <2>2, PreEffect DEF CallbacksRan, Skipped
<1>9. CASE PreDone
  <2>1. DOMAIN mods = 1..Len(mods) /\ Len(mods) \in Nat /\ call.i \in Int
    BY BoundsAssumption DEF StateTypes, Call
  <2> QED  BY <1>9, <2>1 DEF PreDone, CallbacksRan, Skipped
<1>10. CASE Original
  <2>1. DOMAIN mods = 1..Len(mods) /\ Len(mods) \in Nat /\ call.i \in Int
    BY BoundsAssumption DEF StateTypes, Call
  <2> QED  BY <1>10, <2>1, OriginalEffect DEF Original, CallbacksRan, Skipped
<1>11. CASE RestoreHooks
  <2>1. DOMAIN mods = 1..Len(mods) /\ Len(mods) \in Nat /\ call.i \in Int
    BY BoundsAssumption DEF StateTypes, Call
  <2> QED  BY <1>11, <2>1 DEF RestoreHooks, CallbacksRan, Skipped
<1>12. CASE Post
  <2>1. DOMAIN mods = 1..Len(mods) /\ Len(mods) \in Nat /\ call.i \in Int
    BY BoundsAssumption DEF StateTypes, Call
  <2> QED  BY <1>12, <2>1, PostEffect DEF Post, CallbacksRan, Skipped
<1>13. CASE PostDone
  BY <1>13 DEF PostDone, CallbacksRan, Skipped
<1>14. CASE UnloadModules
  BY <1>14 DEF UnloadModules, CallbacksRan, Skipped
<1>15. CASE HideFromSoList
  BY <1>15 DEF HideFromSoList, HideNames, CallbacksRan, Skipped
<1>16. CASE HideFromMaps
  <2>1. pc' \in {"selfUnload", "leave", "crashed"} /\ pc = "hideMaps"
    BY <1>16, HidingLeads DEF HideFromMaps, HideMapsIf
  <2>2. pc' = "selfUnload" => selfUnload
    BY <1>16, HidingLeads DEF HideFromMaps, HideMapsIf
  <2> QED  BY <1>16, <2>1, <2>2 DEF HideFromMaps, HideMapsIf, CallbacksRan, Skipped
<1>17. CASE SelfUnload
  BY <1>17 DEF SelfUnload, CallbacksRan, Skipped
<1>18. CASE Detach
  BY <1>18 DEF Detach, CallbacksRan, Skipped
<1>19. CASE Leave
  BY <1>19 DEF Leave, CallbacksRan, Skipped
<1>20. CASE GuardDestructor
  BY <1>20 DEF GuardDestructor, CallbacksRan, Skipped
<1>21. CASE Unmap
  BY <1>21 DEF Unmap, CallbacksRan, Skipped
<1>22. CASE UNCHANGED vars
  BY <1>22 DEF vars, CallbacksRan, Skipped
<1> QED
  BY <1>1, <1>2, <1>3, <1>4, <1>5, <1>6, <1>7, <1>8, <1>9, <1>10, <1>11, <1>12,
     <1>13, <1>14, <1>15, <1>16, <1>17, <1>18, <1>19, <1>20, <1>21, <1>22 DEF Next

\* An app forks no more, and hides only if zygote did not.
LEMMA HidesOnceStep == StateTypes /\ HidesOnce /\ [Next]_vars => HidesOnce'
<1> SUFFICES ASSUME StateTypes, HidesOnce, [Next]_vars PROVE HidesOnce'
  OBVIOUS
<1> USE DEF hookVars, moduleVars, hideVars, selfVars
<1>1. ASSUME NEW k \in 0..MaxModules, NEW ms \in [1..k -> Shapes], LoadModules(ms) PROVE HidesOnce'
  <2>1. pc' \in {"register", "crashed"} /\ pc = "load"
    BY <1>1, HidingLeads DEF LoadModules
  <2>2. hideRuns' \in IF env.q /\ env.served THEN {hideRuns, hideRuns + 1} ELSE {hideRuns}
    BY <1>1, HidingLeads DEF LoadModules
  <2> QED  BY <1>1, <2>1, <2>2 DEF LoadModules, HidesOnce, Unloading, RoleOfChild
<1>2. ASSUME NEW m \in Methods, NEW uid \in Uids, NEW child \in BOOLEAN, CallHook(m, uid, child)
      PROVE HidesOnce'
  BY <1>2, CallEffect DEF CallHook, MayCall, HidesOnce, Unloading, RoleOfChild
<1>3. ASSUME NEW m \in Methods, NEW child \in BOOLEAN, CallOriginal(m, child) PROVE HidesOnce'
  BY <1>3 DEF CallOriginal, MayCall, HidesOnce, Unloading, RoleOfChild
<1>4. CASE InstallHooks
  BY <1>4 DEF InstallHooks, HidesOnce, Unloading, RoleOfChild
<1>5. CASE RegisterZygote
  BY <1>5 DEF RegisterZygote, HidesOnce, Unloading, RoleOfChild
<1>6. CASE OpenLater
  BY <1>6 DEF OpenLater, HidesOnce, Unloading, RoleOfChild
<1>7. CASE ForkUsap
  BY <1>7 DEF ForkUsap, HidesOnce, Unloading, RoleOfChild
<1>8. CASE Pre
  BY <1>8, PreEffect DEF Pre, HidesOnce, Unloading, RoleOfChild
<1>9. CASE PreDone
  BY <1>9 DEF PreDone, HidesOnce, Unloading, RoleOfChild
<1>10. CASE Original
  BY <1>10, OriginalEffect DEF Original, HidesOnce, Unloading, RoleOfChild
<1>11. CASE RestoreHooks
  BY <1>11 DEF RestoreHooks, HidesOnce, Unloading, RoleOfChild
<1>12. CASE Post
  BY <1>12, PostEffect DEF Post, HidesOnce, Unloading, RoleOfChild
<1>13. CASE PostDone
  BY <1>13 DEF PostDone, HidesOnce, Unloading, RoleOfChild
<1>14. CASE UnloadModules
  BY <1>14 DEF UnloadModules, HidesOnce, Unloading, RoleOfChild
<1>15. CASE HideFromSoList
  BY <1>15 DEF HideFromSoList, HideNames, HidesOnce, Unloading, RoleOfChild
<1>16. CASE HideFromMaps
  <2>1. pc' \in {"selfUnload", "leave", "crashed"} /\ pc = "hideMaps"
    BY <1>16, HidingLeads DEF HideFromMaps, HideMapsIf
  <2>2. IF ~env.q /\ ~call.child THEN hideRuns' \in {hideRuns, hideRuns + 1}
        ELSE hideRuns' = hideRuns
    BY <1>16, HidingLeads DEF HideFromMaps, HideMapsIf
  <2> QED  BY <1>16, <2>1, <2>2 DEF HideFromMaps, HideMapsIf, HidesOnce, Unloading, RoleOfChild, StateTypes
<1>17. CASE SelfUnload
  BY <1>17 DEF SelfUnload, HidesOnce, Unloading, RoleOfChild
<1>18. CASE Detach
  BY <1>18 DEF Detach, HidesOnce, Unloading, RoleOfChild
<1>19. CASE Leave
  BY <1>19 DEF Leave, HidesOnce, Unloading, RoleOfChild
<1>20. CASE GuardDestructor
  BY <1>20 DEF GuardDestructor, HidesOnce, Unloading, RoleOfChild
<1>21. CASE Unmap
  BY <1>21 DEF Unmap, HidesOnce, Unloading, RoleOfChild
<1>22. CASE UNCHANGED vars
  BY <1>22 DEF vars, HidesOnce, Unloading, RoleOfChild
<1> QED
  BY <1>1, <1>2, <1>3, <1>4, <1>5, <1>6, <1>7, <1>8, <1>9, <1>10, <1>11, <1>12,
     <1>13, <1>14, <1>15, <1>16, <1>17, <1>18, <1>19, <1>20, <1>21, <1>22 DEF Next

\* What do_hide leaves of the code of a library.
LEMMA DoHideOnce ==
  ASSUME NEW n \in 0..Calls
  PROVE  LET m == do_hide(OfFile(Code), n)
         IN /\ m = OfFile(Code) \/ ~m.mapped \/ ~m.file
            /\ n = Calls => ~m.file
<1>1. n \in {0, 1, 2, 3, 4, 5}
  BY DEF Calls
<1> QED  BY <1>1 DEF do_hide, OfFile, Calls, Code

\* riru_hide does not touch a mapping twice, and misses none that is named if it can parse.
LEMMA HidingOnce ==
  ASSUME StateTypes, MapsHiddenOnce, NEW ms, NEW loaded, NEW opened, NEW next,
         HidePathsFromMaps(ms, loaded, opened, next), NEW l \in Hideable
  PROVE  /\ maps'[l] \in {OfFile(Code), do_hide(OfFile(Code), env.fails), do_hide(OfFile(Code), Calls)}
         /\ ~maps[l].file => ~maps'[l].file
         /\ /\ env.fails = Calls /\ env.parsed /\ hideLib # "absent"
            /\ l \in {Riru} \cup {i \in loaded : ms[i].hides}
            => ~maps'[l].file
<1>1. CASE hideLib = "absent"
  BY <1>1, HidingLeads DEF MapsHiddenOnce
<1>2. CASE hideLib # "absent"
  <2> DEFINE names == {Riru} \cup {i \in loaded : ms[i].hides}
  <2>1. PICK worst : maps' = riru_hide(maps, names,
                               [k \in Hideable |-> IF k = worst THEN env.fails ELSE Calls], env.parsed)
    BY <1>2, HidingLeads
  <2>2. PICK n \in {env.fails, Calls} :
          maps'[l] = IF env.parsed /\ l \in names /\ maps[l].mapped /\ maps[l].file /\ "r" \in maps[l].prot
                     THEN do_hide(maps[l], n) ELSE maps[l]
    <3>1. DOMAIN maps = Hideable
      BY DEF StateTypes
    <3> QED  BY <2>1, <3>1 DEF riru_hide
  <2>3. env.fails \in 0..Calls /\ Calls \in 0..Calls
    BY DevicesAssumption DEF StateTypes, Env, Calls
  <2>4. maps[l] \in {OfFile(Code), do_hide(OfFile(Code), env.fails), do_hide(OfFile(Code), Calls)}
    BY DEF MapsHiddenOnce
  <2>5. maps[l] = OfFile(Code) \/ ~maps[l].mapped \/ ~maps[l].file
    BY <2>3, <2>4, DoHideOnce
  <2>6. env.fails = Calls => maps[l] = OfFile(Code) \/ ~maps[l].file
    BY <2>3, <2>4, DoHideOnce
  <2>7. OfFile(Code).mapped /\ OfFile(Code).file /\ "r" \in OfFile(Code).prot
    BY DEF OfFile, Code
  <2>8. ~do_hide(OfFile(Code), Calls).file
    BY <2>3, DoHideOnce
  <2>9. CASE env.parsed /\ maps[l] = OfFile(Code) /\ l \in names
    <3>1. maps'[l] = do_hide(OfFile(Code), n)
      BY <2>2, <2>7, <2>9
    <3> QED  BY <2>2, <2>7, <2>8, <2>9, <3>1
  <2>10. CASE ~(env.parsed /\ maps[l] = OfFile(Code) /\ l \in names)
    <3>1. maps'[l] = maps[l]
      BY <2>2, <2>5, <2>10
    <3> QED  BY <2>4, <2>6, <2>10, <3>1
  <2> QED  BY <2>9, <2>10
<1> QED  BY <1>1, <1>2

\* Only LoadModules and HideFromMaps write to the mappings.
LEMMA MapsHiddenOnceStep == StateTypes /\ MapsHiddenOnce /\ [Next]_vars => MapsHiddenOnce'
<1> SUFFICES ASSUME StateTypes, MapsHiddenOnce, [Next]_vars PROVE MapsHiddenOnce'
  OBVIOUS
<1> USE DEF hookVars, moduleVars, hideVars, selfVars
<1>1. ASSUME NEW k \in 0..MaxModules, NEW ms \in [1..k -> Shapes], LoadModules(ms) PROVE MapsHiddenOnce'
  <2>1. CASE env.q /\ env.served
    BY <1>1, <2>1, HidingOnce DEF LoadModules, MapsHiddenOnce
  <2>2. CASE ~(env.q /\ env.served)
    BY <1>1, <2>2 DEF LoadModules, MapsHiddenOnce
  <2> QED  BY <2>1, <2>2
<1>2. ASSUME NEW m \in Methods, NEW uid \in Uids, NEW child \in BOOLEAN, CallHook(m, uid, child)
      PROVE MapsHiddenOnce'
  BY <1>2 DEF CallHook, MapsHiddenOnce
<1>3. ASSUME NEW m \in Methods, NEW child \in BOOLEAN, CallOriginal(m, child) PROVE MapsHiddenOnce'
  BY <1>3 DEF CallOriginal, MapsHiddenOnce
<1>4. CASE InstallHooks
  BY <1>4 DEF InstallHooks, MapsHiddenOnce
<1>5. CASE RegisterZygote
  BY <1>5 DEF RegisterZygote, MapsHiddenOnce
<1>6. CASE OpenLater
  BY <1>6 DEF OpenLater, MapsHiddenOnce
<1>7. CASE ForkUsap
  BY <1>7 DEF ForkUsap, MapsHiddenOnce
<1>8. CASE Pre
  BY <1>8 DEF Pre, MapsHiddenOnce
<1>9. CASE PreDone
  BY <1>9 DEF PreDone, MapsHiddenOnce
<1>10. CASE Original
  BY <1>10 DEF Original, MapsHiddenOnce
<1>11. CASE RestoreHooks
  BY <1>11 DEF RestoreHooks, MapsHiddenOnce
<1>12. CASE Post
  BY <1>12 DEF Post, MapsHiddenOnce
<1>13. CASE PostDone
  BY <1>13 DEF PostDone, MapsHiddenOnce
<1>14. CASE UnloadModules
  BY <1>14 DEF UnloadModules, MapsHiddenOnce
<1>15. CASE HideFromSoList
  BY <1>15 DEF HideFromSoList, HideNames, MapsHiddenOnce, StateTypes
<1>16. CASE HideFromMaps
  <2>1. CASE ~env.q /\ ~call.child
    BY <1>16, <2>1, HidingOnce DEF HideFromMaps, HideMapsIf, MapsHiddenOnce
  <2>2. CASE ~(~env.q /\ ~call.child)
    BY <1>16, <2>2 DEF HideFromMaps, HideMapsIf, MapsHiddenOnce
  <2> QED  BY <2>1, <2>2
<1>17. CASE SelfUnload
  BY <1>17 DEF SelfUnload, MapsHiddenOnce
<1>18. CASE Detach
  BY <1>18 DEF Detach, MapsHiddenOnce
<1>19. CASE Leave
  BY <1>19 DEF Leave, MapsHiddenOnce
<1>20. CASE GuardDestructor
  BY <1>20 DEF GuardDestructor, MapsHiddenOnce
<1>21. CASE Unmap
  BY <1>21 DEF Unmap, MapsHiddenOnce
<1>22. CASE UNCHANGED vars
  BY <1>22 DEF vars, MapsHiddenOnce
<1> QED
  BY <1>1, <1>2, <1>3, <1>4, <1>5, <1>6, <1>7, <1>8, <1>9, <1>10, <1>11, <1>12,
     <1>13, <1>14, <1>15, <1>16, <1>17, <1>18, <1>19, <1>20, <1>21, <1>22 DEF Next

\* Hiding leaves no library that is named, and Unload ends after it.
LEMMA ShownStep == StateTypes /\ HidesOnce /\ MapsHiddenOnce /\ Shown /\ [Next]_vars => Shown'
<1> SUFFICES ASSUME StateTypes, HidesOnce, MapsHiddenOnce, Shown, [Next]_vars PROVE Shown'
  OBVIOUS
<1> USE DEF hookVars, moduleVars, hideVars, selfVars
<1>1. ASSUME NEW k \in 0..MaxModules, NEW ms \in [1..k -> Shapes], LoadModules(ms) PROVE Shown'
  <2>1. pc' \in {"register", "crashed"} /\ pc = "load" /\ mods' = ms /\ env' = env
    BY <1>1, HidingLeads DEF LoadModules
  <2>2. env.hide => hideLib # "absent" /\ hideLib' # "absent"
    BY <1>1, HidingLeads DEF LoadModules, Shown
  <2>3. ASSUME env.hide, env.parsed, env.fails = Calls, env.q, env.served,
               NEW l \in {Riru} \cup {i \in DOMAIN ms : ms[i].hides}
        PROVE  ~maps'[l].file
    <3>1. DOMAIN ms = 1..k /\ k \in 0..MaxModules /\ MaxModules \in Nat
      BY BoundsAssumption
    <3>2. l \in Hideable
      BY <3>1 DEF Hideable, Riru
    <3> QED  BY <1>1, <2>2, <2>3, <3>2, HidingOnce DEF LoadModules
  <2> QED  BY <2>1, <2>2, <2>3 DEF Shown
<1>2. ASSUME NEW m \in Methods, NEW uid \in Uids, NEW child \in BOOLEAN, CallHook(m, uid, child)
      PROVE Shown'
  BY <1>2 DEF CallHook, Shown, Unloading
<1>3. ASSUME NEW m \in Methods, NEW child \in BOOLEAN, CallOriginal(m, child) PROVE Shown'
  BY <1>3 DEF CallOriginal, Shown, Unloading
<1>4. CASE InstallHooks
  BY <1>4 DEF InstallHooks, Shown, Unloading
<1>5. CASE RegisterZygote
  BY <1>5 DEF RegisterZygote, Shown, Unloading
<1>6. CASE OpenLater
  BY <1>6 DEF OpenLater, Shown, Unloading
<1>7. CASE ForkUsap
  BY <1>7 DEF ForkUsap, Shown, Unloading
<1>8. CASE Pre
  BY <1>8, PreEffect DEF Pre, Shown
<1>9. CASE PreDone
  BY <1>9 DEF PreDone, Shown, Unloading
<1>10. CASE Original
  BY <1>10, OriginalEffect DEF Shown, Original
<1>11. CASE RestoreHooks
  BY <1>11 DEF RestoreHooks, Shown, Unloading
<1>12. CASE Post
  BY <1>12, PostEffect DEF Post, Shown
<1>13. CASE PostDone
  BY <1>13 DEF PostDone, Shown, Unloading
<1>14. CASE UnloadModules
  BY <1>14 DEF UnloadModules, Shown
<1>15. CASE HideFromSoList
  <2>1. env.solist => \A l \in {Riru} \cup {i \in handle : mods[i].hides} :
                        l \in unlisted' \/ (l = Riru /\ selfUnload)
    BY <1>15 DEF HideFromSoList, HideNames
  <2> QED  BY <1>15, <2>1 DEF HideFromSoList, HideNames, Shown
<1>16. CASE HideFromMaps
  <2>1. /\ pc' \in {"selfUnload", "leave", "crashed"} /\ pc = "hideMaps"
        /\ UNCHANGED <<env, role, mods, handle, unlisted, selfUnload>>
        /\ hideLib # "absent" => hideLib' # "absent"
    BY <1>16, HidingLeads DEF HideFromMaps, HideMapsIf
  <2>2. CASE env.q
    <3>1. maps' = maps
      BY <1>16, <2>2 DEF HideFromMaps, HideMapsIf
    <3> QED  BY <2>1, <2>2, <3>1 DEF Shown
  <2>3. CASE ~env.q
    <3>1. ASSUME env.hide, env.parsed, env.fails = Calls, role = "app",
                 NEW l \in {Riru} \cup {i \in handle : mods[i].hides}
          PROVE  ~maps'[l].file
      <4>1. ~call.child
        BY <2>1, <3>1 DEF HidesOnce, Unloading, RoleOfChild
      <4>2. hideLib # "absent"
        BY <2>1, <3>1 DEF Shown
      <4>3. MaxModules \in Nat /\ DOMAIN mods = 1..Len(mods) /\ handle \subseteq DOMAIN mods
        BY BoundsAssumption DEF StateTypes
      <4>4. l \in Hideable
        BY <4>3 DEF StateTypes, Hideable, Riru
      <4>5. \E next : HidePathsFromMaps(mods, handle, list, next)
        BY <1>16, <2>3, <4>1 DEF HideFromMaps, HideMapsIf
      <4> QED  BY <3>1, <4>2, <4>4, <4>5, HidingOnce
    <3> QED  BY <2>1, <2>3, <3>1 DEF Shown
  <2> QED  BY <2>2, <2>3
<1>17. CASE SelfUnload
  BY <1>17 DEF SelfUnload, Shown, Unloading
<1>18. CASE Detach
  BY <1>18 DEF Detach, Shown, Unloading
<1>19. CASE Leave
  BY <1>19 DEF Leave, Shown, Unloading
<1>20. CASE GuardDestructor
  BY <1>20 DEF GuardDestructor, Shown, Unloading
<1>21. CASE Unmap
  BY <1>21 DEF Unmap, Shown, Unloading
<1>22. CASE UNCHANGED vars
  BY <1>22 DEF vars, Shown, Unloading
<1> QED
  BY <1>1, <1>2, <1>3, <1>4, <1>5, <1>6, <1>7, <1>8, <1>9, <1>10, <1>11, <1>12,
     <1>13, <1>14, <1>15, <1>16, <1>17, <1>18, <1>19, <1>20, <1>21, <1>22 DEF Next

-----------------------------------------------------------------------------
(* The linker's list. *)

\* The list is whole and starts with libdl; what is on it, and what a zygote that has not
\* loaded its modules has.
ListWhole ==
  /\ list \in Whole(Soinfos) /\ list.first = Libdl /\ Contents(list) = Loaded \ unlisted
  /\ pc = "init" => hideLib = "absent"
  /\ pc \in {"init", "load"} => handle = {} /\ unlisted = {}

\* The soinfos are finitely many, and each library has one of its own.
LEMMA SoinfosApart ==
  /\ IsFiniteSet(Soinfos) /\ Null \notin Soinfos /\ Hideable \subseteq Soinfos
  /\ {HideLib, Libdl, Later} \subseteq Soinfos \ Hideable
  /\ HideLib # Libdl /\ HideLib # Later /\ Libdl # Later
  /\ Riru \in Hideable /\ 1..MaxModules \subseteq Hideable /\ Riru \notin 1..MaxModules
<1>1. MaxModules \in Nat
  BY BoundsAssumption
<1>2. 0 \in Int /\ Later \in Int
  BY <1>1 DEF Later
<1>3. IsFiniteSet(Soinfos)
  BY <1>2, FS_Interval DEF Soinfos
<1> QED  BY <1>1, <1>3 DEF Soinfos, Hideable, Null, HideLib, Libdl, Later, Riru

\* What StateTypes says of the libraries.
LEMMA LibrariesTyped ==
  ASSUME StateTypes
  PROVE  handle \subseteq 1..MaxModules /\ unlisted \subseteq Hideable
<1>1. DOMAIN mods = 1..Len(mods) /\ Len(mods) \in Nat /\ Len(mods) <= MaxModules
  BY DEF StateTypes
<1> QED  BY <1>1, BoundsAssumption DEF StateTypes

\* Hiding takes at most libriruhide.so off the list.
LEMMA HidingList ==
  ASSUME NEW ms, NEW loaded, NEW opened \in Whole(Soinfos), opened.first = Libdl, NEW next,
         HidePathsFromMaps(ms, loaded, opened, next)
  PROVE  /\ list' \in Whole(Soinfos) /\ list'.first = Libdl
         /\ \/ hideLib' = hideLib /\ Contents(list') = Contents(opened)
            \/ hideLib' = "closed" /\ Contents(list') = Contents(opened) \ {HideLib}
<1>1. CASE hideLib = "absent"
  BY <1>1 DEF HidePathsFromMaps
<1>2. CASE hideLib # "absent"
  <2>1. \/ hideLib' = "closed" /\ list' = RemovePathsFromSolist(opened, {HideLib})
        \/ hideLib' = hideLib /\ list' = opened
    BY <1>2 DEF HidePathsFromMaps, Close
  <2>2. opened.first \notin {HideLib}
    BY SoinfosApart
  <2> QED  BY <2>1, <2>2, SoinfosApart, RemoveAll
<1> QED  BY <1>1, <1>2

\* A fresh zygote has libdl and libriru.so.
LEMMA InitList == Init => ListWhole
<1> SUFFICES ASSUME Init PROVE ListWhole
  OBVIOUS
<1> DEFINE one == Single(Soinfos, Libdl)
           opened == <<Riru>>
<1>1. one \in Whole(Soinfos) /\ Contents(one) = {Libdl} /\ one.first = Libdl
  BY SoinfosApart, SingleWhole
<1>2. opened \in Seq(Soinfos \ Contents(one)) /\ Len(opened) = 1 /\ opened[1] = Riru
  BY <1>1, SoinfosApart
<1> HIDE DEF one, opened
<1>3. \A i, j \in 1..Len(opened) : opened[i] = opened[j] => i = j
  BY <1>2
<1>4. /\ Open(one, opened) \in Whole(Soinfos) /\ Open(one, opened).first = one.first
      /\ Contents(Open(one, opened)) = Contents(one) \cup {opened[k] : k \in 1..Len(opened)}
  <2>1. IsFiniteSet(Soinfos) /\ Null \notin Soinfos
    BY SoinfosApart
  <2>2. one \in Whole(Soinfos) /\ opened \in Seq(Soinfos \ Contents(one))
    BY <1>1, <1>2
  <2> QED  BY <1>3, <2>1, <2>2, OpenAll
<1>5. {opened[k] : k \in 1..Len(opened)} = {Riru}
  BY <1>2
<1>6. list = Open(one, opened)
  BY DEF Init, one, opened
<1>7. Loaded \ unlisted = {Libdl, Riru}
  BY DEF Init, Loaded
<1> QED  BY <1>1, <1>4, <1>5, <1>6, <1>7 DEF Init, ListWhole

\* Every action keeps the list whole.
LEMMA ListWholeStep == StateTypes /\ ListWhole /\ [Next]_vars => ListWhole'
<1> SUFFICES ASSUME StateTypes, ListWhole, [Next]_vars PROVE ListWhole'
  OBVIOUS
<1> USE DEF hookVars, moduleVars, hideVars, selfVars
<1>t. handle \subseteq 1..MaxModules /\ unlisted \subseteq Hideable
  BY LibrariesTyped
<1>l. list \in Whole(Soinfos) /\ list.first = Libdl /\ Contents(list) = Loaded \ unlisted
  BY DEF ListWhole
<1>1. CASE InstallHooks
  <2>1. hideLib = "absent" /\ handle = {} /\ unlisted = {} /\ pc' = "load"
        /\ UNCHANGED <<mapped, handle, later, unlisted>>
    BY <1>1 DEF InstallHooks, ListWhole
  <2>2. CASE env.hide
    <3>1. hideLib' = "open" /\ list' = solist_add_soinfo(list, HideLib)
      BY <1>1, <2>2 DEF InstallHooks
    <3>2. HideLib \in Soinfos \ Contents(list)
      BY <1>l, <2>1, SoinfosApart DEF Loaded
    <3>3. /\ list' \in Whole(Soinfos) /\ list'.first = Libdl
          /\ Contents(list') = Contents(list) \cup {HideLib}
      BY <1>l, <3>1, <3>2, SoinfosApart, AddOne
    <3>4. Loaded' = Loaded \cup {HideLib}
      BY <2>1, <3>1 DEF Loaded
    <3> QED  BY <1>l, <2>1, <3>3, <3>4 DEF ListWhole
  <2>3. CASE ~env.hide
    BY <1>1, <1>l, <2>1, <2>3 DEF InstallHooks, ListWhole, Loaded
  <2> QED  BY <2>2, <2>3
<1>2. ASSUME NEW n \in 0..MaxModules, NEW ms \in [1..n -> Shapes], LoadModules(ms)
      PROVE ListWhole'
  <2> DEFINE opened == [i \in DOMAIN ms |-> i]
             grown  == Open(list, opened)
  <2>1. /\ handle = {} /\ unlisted = {} /\ UNCHANGED <<mapped, later, unlisted>>
        /\ handle' = 1..n
    BY <1>2 DEF LoadModules, ListWhole
  <2>2. 1..n \subseteq 1..MaxModules /\ n \in Nat
    BY BoundsAssumption
  <2>3. \A i \in 1..n : i \in Soinfos \ Contents(list)
    BY <1>l, <2>1, <2>2, SoinfosApart DEF Loaded
  <2>4. /\ opened \in Seq(Soinfos \ Contents(list)) /\ Len(opened) = n
        /\ \A i \in 1..n : opened[i] = i
    <3>1. opened = [i \in 1..n |-> i]
      OBVIOUS
    <3>2. opened \in [1..n -> Soinfos \ Contents(list)]
      BY <2>3, <3>1
    <3> QED  BY <2>2, <3>1, <3>2
  <2> HIDE DEF opened
  <2>5. \A i, j \in 1..Len(opened) : opened[i] = opened[j] => i = j
    BY <2>4
  <2>6. /\ grown \in Whole(Soinfos) /\ grown.first = Libdl
        /\ Contents(grown) = Contents(list) \cup {opened[k] : k \in 1..Len(opened)}
    <3>1. IsFiniteSet(Soinfos) /\ Null \notin Soinfos
      BY SoinfosApart
    <3>2. opened \in Seq(Soinfos \ Contents(list))
      BY <2>4
    <3> QED  BY <1>l, <2>5, <3>1, <3>2, OpenAll
  <2>7. {opened[k] : k \in 1..Len(opened)} = 1..n
    BY <2>4
  <2>8. Contents(grown) = Loaded \cup 1..n
    BY <1>l, <2>1, <2>6, <2>7
  <2> HIDE DEF grown
  <2>9. pc' \notin {"init", "load"}
    BY <1>2, HidingLeads DEF LoadModules
  <2>10. /\ list' \in Whole(Soinfos) /\ list'.first = Libdl
         /\ \/ hideLib' = hideLib /\ Contents(list') = Contents(grown)
            \/ hideLib' = "closed" /\ Contents(list') = Contents(grown) \ {HideLib}
    <3>1. CASE env.q /\ env.served
      <4>1. HidePathsFromMaps(ms, DOMAIN ms, grown, "register")
        BY <1>2, <3>1 DEF LoadModules, grown, opened
      <4> QED  BY <2>6, <4>1, HidingList
    <3>2. CASE ~(env.q /\ env.served)
      BY <1>2, <2>6, <3>2 DEF LoadModules, grown, opened
    <3> QED  BY <3>1, <3>2
  <2>11. Contents(list') = Loaded'
    BY <1>t, <2>1, <2>2, <2>8, <2>10, SoinfosApart DEF Loaded
  <2> QED  BY <2>1, <2>9, <2>10, <2>11 DEF ListWhole
<1>3. CASE RegisterZygote
  BY <1>3 DEF RegisterZygote, ListWhole, Loaded
<1>4. CASE OpenLater
  <2>1. /\ ~later /\ later' = TRUE /\ pc' = pc /\ list' = solist_add_soinfo(list, Later)
        /\ UNCHANGED <<hideLib, handle, unlisted, mapped>>
    BY <1>4 DEF OpenLater
  <2>2. Later \in Soinfos \ Contents(list) /\ Later \notin unlisted
    BY <1>l, <1>t, <2>1, SoinfosApart DEF Loaded
  <2>3. /\ list' \in Whole(Soinfos) /\ list'.first = Libdl
        /\ Contents(list') = Contents(list) \cup {Later}
    BY <1>l, <2>1, <2>2, SoinfosApart, AddOne
  <2>4. Loaded' = Loaded \cup {Later}
    BY <2>1 DEF Loaded
  <2> QED  BY <1>l, <2>1, <2>2, <2>3, <2>4 DEF ListWhole
<1>5. ASSUME NEW m \in Methods, NEW uid \in Uids, NEW child \in BOOLEAN, CallHook(m, uid, child)
      PROVE ListWhole'
  BY <1>5 DEF CallHook, ListWhole, Loaded
<1>6. ASSUME NEW m \in Methods, NEW child \in BOOLEAN, CallOriginal(m, child) PROVE ListWhole'
  BY <1>6 DEF CallOriginal, ListWhole, Loaded
<1>7. CASE ForkUsap
  BY <1>7 DEF ForkUsap, ListWhole, Loaded
<1>8. CASE Pre
  BY <1>8 DEF Pre, ListWhole, Loaded
<1>9. CASE PreDone
  BY <1>9 DEF PreDone, ListWhole, Loaded
<1>10. CASE Original
  <2>1. pc' \in {"restore", "post"} /\ UNCHANGED <<list, hideLib, later, handle, unlisted, mapped>>
    BY <1>10 DEF Original
  <2> QED  BY <2>1 DEF ListWhole, Loaded
<1>11. CASE RestoreHooks
  BY <1>11 DEF RestoreHooks, ListWhole, Loaded
<1>12. CASE Post
  BY <1>12 DEF Post, ListWhole, Loaded
<1>13. CASE PostDone
  BY <1>13 DEF PostDone, ListWhole, Loaded
<1>14. CASE UnloadModules
  <2>1. PICK closed \in SUBSET {i \in handle : AllowUnload(i)} :
          handle' = handle \ closed /\ list' = RemovePathsFromSolist(list, closed)
    BY <1>14 DEF UnloadModules, Close
  <2>2. pc' = "hideSoList" /\ UNCHANGED <<hideLib, later, unlisted, mapped>>
    BY <1>14 DEF UnloadModules
  <2>3. closed \subseteq 1..MaxModules /\ list.first \notin closed
    BY <1>l, <1>t, SoinfosApart
  <2>4. /\ list' \in Whole(Soinfos) /\ list'.first = Libdl
        /\ Contents(list') = Contents(list) \ closed
    BY <1>l, <2>1, <2>3, SoinfosApart, RemoveAll
  <2>5. Loaded' = Loaded \ closed
    BY <2>1, <2>2, <2>3, SoinfosApart DEF Loaded
  <2> QED  BY <1>l, <2>2, <2>4, <2>5 DEF ListWhole
<1>15. CASE HideFromSoList
  <2> DEFINE names == (IF selfUnload THEN {} ELSE {Riru}) \cup {i \in handle : mods[i].hides}
  <2>1. /\ pc' = "hideMaps" /\ UNCHANGED <<hideLib, later, handle, mapped>>
        /\ \/ unlisted' = unlisted \cup names /\ list' = RemovePathsFromSolist(list, names)
           \/ UNCHANGED <<unlisted, list>>
    BY <1>15 DEF HideFromSoList, HideNames
  <2>2. list.first \notin names
    BY <1>l, <1>t, SoinfosApart
  <2> HIDE DEF names
  <2>3. CASE unlisted' = unlisted \cup names /\ list' = RemovePathsFromSolist(list, names)
    <3>1. /\ list' \in Whole(Soinfos) /\ list'.first = Libdl
          /\ Contents(list') = Contents(list) \ names
      BY <1>l, <2>2, <2>3, SoinfosApart, RemoveAll
    <3>2. Loaded' = Loaded
      BY <2>1 DEF Loaded
    <3> QED  BY <1>l, <2>1, <2>3, <3>1, <3>2 DEF ListWhole
  <2>4. CASE UNCHANGED <<unlisted, list>>
    BY <1>l, <2>1, <2>4 DEF ListWhole, Loaded
  <2> QED  BY <2>1, <2>3, <2>4
<1>16. CASE HideFromMaps
  <2>1. pc' \notin {"init", "load"}
    BY <1>16, HidingLeads DEF HideFromMaps, HideMapsIf
  <2>2. UNCHANGED <<later, handle, unlisted, mapped>>
    BY <1>16 DEF HideFromMaps, HideMapsIf
  <2>3. CASE ~env.q /\ ~call.child
    <3>1. HidePathsFromMaps(mods, handle, list, IF selfUnload THEN "selfUnload" ELSE "leave")
      BY <1>16, <2>3 DEF HideFromMaps, HideMapsIf
    <3>2. /\ list' \in Whole(Soinfos) /\ list'.first = Libdl
          /\ \/ hideLib' = hideLib /\ Contents(list') = Contents(list)
             \/ hideLib' = "closed" /\ Contents(list') = Contents(list) \ {HideLib}
      BY <1>l, <3>1, HidingList
    <3>3. /\ hideLib' = hideLib => Loaded' = Loaded
          /\ hideLib' = "closed" => Loaded' = Loaded \ {HideLib}
      BY <1>t, <2>2, SoinfosApart DEF Loaded
    <3>4. Contents(list') = Loaded' \ unlisted'
      BY <1>l, <2>2, <3>2, <3>3
    <3> QED  BY <2>1, <3>2, <3>4 DEF ListWhole
  <2>4. CASE ~(~env.q /\ ~call.child)
    <3>1. UNCHANGED <<list, hideLib>>
      BY <1>16, <2>4 DEF HideFromMaps, HideMapsIf
    <3> QED  BY <1>l, <2>1, <2>2, <3>1 DEF ListWhole, Loaded
  <2> QED  BY <2>3, <2>4
<1>17. CASE SelfUnload
  BY <1>17 DEF SelfUnload, ListWhole, Loaded
<1>18. CASE Detach
  BY <1>18 DEF Detach, ListWhole, Loaded
<1>19. CASE Leave
  BY <1>19 DEF Leave, ListWhole, Loaded
<1>20. CASE GuardDestructor
  BY <1>20 DEF GuardDestructor, ListWhole, Loaded
<1>21. CASE Unmap
  <2>1. /\ mapped' = FALSE /\ list' = RemovePathsFromSolist(list, {Riru})
        /\ UNCHANGED <<pc, hideLib, later, handle, unlisted>>
    BY <1>21 DEF Unmap, Close
  <2>2. list.first \notin {Riru}
    BY <1>l, SoinfosApart
  <2>3. /\ list' \in Whole(Soinfos) /\ list'.first = Libdl
        /\ Contents(list') = Contents(list) \ {Riru}
    BY <1>l, <2>1, <2>2, SoinfosApart, RemoveAll
  <2>4. Loaded' = Loaded \ {Riru}
    BY <1>t, <2>1, SoinfosApart DEF Loaded
  <2> QED  BY <1>l, <2>1, <2>3, <2>4 DEF ListWhole
<1>22. CASE UNCHANGED vars
  BY <1>22 DEF vars, ListWhole, Loaded
<1> QED
  BY <1>1, <1>2, <1>3, <1>4, <1>5, <1>6, <1>7, <1>8, <1>9, <1>10, <1>11, <1>12, <1>13, <1>14,
     <1>15, <1>16, <1>17, <1>18, <1>19, <1>20, <1>21, <1>22 DEF Next

-----------------------------------------------------------------------------
(* The invariant, and what follows from it. *)

Invariant ==
  /\ StateTypes /\ HooksLive /\ Threads /\ UnlistedLast /\ AllowedNow /\ CallbacksRan
  /\ HidesOnce /\ MapsHiddenOnce /\ Shown /\ ListWhole

\* The parts of the invariant hold at the start.
LEMMA InitInvariant == Init => Invariant
<1> SUFFICES ASSUME Init PROVE Invariant
  OBVIOUS
<1>1. StateTypes
  BY InitTypes
<1>2. HooksLive /\ Threads /\ UnlistedLast /\ AllowedNow
  BY DEF Init, HooksLive, Threads, UnlistedLast, AllowedNow, Hooked, Unloading
<1>3. CallbacksRan /\ HidesOnce /\ Shown
  BY DEF Init, CallbacksRan, HidesOnce, Shown, Unloading
<1>4. MapsHiddenOnce
  BY DEF Init, MapsHiddenOnce, Code
<1> QED  BY <1>1, <1>2, <1>3, <1>4, InitList DEF Invariant

\* The parts hold together in every reachable state.
THEOREM InvariantHolds == Spec => []Invariant
<1>1. Invariant /\ [Next]_vars => Invariant'
  BY StepTypes, HooksLiveStep, ThreadsStep, UnlistedLastStep, AllowedNowStep, CallbacksRanStep,
     HidesOnceStep, MapsHiddenOnceStep, ShownStep, ListWholeStep DEF Invariant
<1> QED  BY InitInvariant, <1>1, PTL DEF Spec

\* The types hold in every reachable state, also that of the linker's list.
THEOREM TypeCorrect == Spec => []TypeOK
<1>1. Invariant => TypeOK
  BY WholeHas DEF Invariant, ListWhole, TypeOK
<1> QED  BY InvariantHolds, <1>1, PTL

\* Whatever is opened, closed and hidden, in whatever order and however often, the linker's
\* list stays whole and says what is loaded.
THEOREM SoListIntactAlways == Spec => []SoListIntact
<1>1. Invariant => SoListIntact
  BY DEF Invariant, ListWhole, Whole, Contents, SoListIntact
<1> QED  BY InvariantHolds, <1>1, PTL

\* No hook calls an original that was freed, and no callback of a closed module is called.
THEOREM CalledIsAliveAlways == Spec => []CalledIsAlive
<1>1. Invariant => CalledIsAlive
  <2> SUFFICES ASSUME Invariant, HaveOld PROVE CalledIsAlive
    BY DEF CalledIsAlive
  <2>1. HooksLive /\ call \in Call
    BY DEF Invariant, StateTypes
  <2>2. call.method \in Methods
    BY <2>1 DEF Call
  <2> QED  BY <2>1, <2>2 DEF HooksLive, CalledIsAlive
<1> QED  BY InvariantHolds, <1>1, PTL

\* Once libriru.so is unmapped no method and no interception leads into it, and no code of
\* Unload before its return is still to run, however long the unloader sleeps.
THEOREM NothingDanglesAlways == Spec => []NothingDangles
<1>1. Invariant => NothingDangles
  BY DEF Invariant, Threads, NothingDangles, Hooked
<1> QED  BY InvariantHolds, <1>1, PTL

\* Whatever modules there are, post callbacks match pre callbacks.
THEOREM PostMatchesPreAlways == Spec => []PostMatchesPre
<1>1. Invariant => PostMatchesPre
  <2> SUFFICES ASSUME Invariant, pc = "post", call.i = Len(mods) + 1, ~call.changed,
                      NEW i \in DOMAIN mods, call.method \in mods[i].pre \cap mods[i].post
               PROVE  i \in call.pre <=> i \in call.post
    BY DEF PostMatchesPre
  <2>1. i \in 1..Len(mods) /\ Len(mods) \in Nat
    BY DEF Invariant, StateTypes
  <2>2. i < call.i
    BY <2>1
  <2> QED  BY <2>2 DEF Invariant, CallbacksRan
<1> QED  BY InvariantHolds, <1>1, PTL

\* No module is closed because of what it allowed in an earlier call.
THEOREM UnloadedOnlyIfAllowedAlways == Spec => []UnloadedOnlyIfAllowed
<1>1. Invariant => UnloadedOnlyIfAllowed
  BY DEF Invariant, AllowedNow, UnloadedOnlyIfAllowed
<1> QED  BY InvariantHolds, <1>1, PTL

\* What the linker can no longer find is never closed.
THEOREM UnlistedStaysLoadedAlways == Spec => []UnlistedStaysLoaded
<1>1. Invariant => UnlistedStaysLoaded
  BY DEF Invariant, UnlistedLast, UnlistedStaysLoaded
<1> QED  BY InvariantHolds, <1>1, PTL

\* The pointer to riru_hide is not followed after its library was closed.
THEOREM HideRunsOnceAlways == Spec => []HideRunsOnce
<1>1. Invariant => HideRunsOnce
  BY DEF Invariant, HidesOnce, HideRunsOnce
<1> QED  BY InvariantHolds, <1>1, PTL

\* After Unload an app shows none of the libraries that are to be hidden, if hiding itself
\* does not fail and, from Android 10 on, zygote got as far as to hide.
THEOREM HiddenFromAppAlways == Spec => []HiddenFromApp
<1>1. Invariant => HiddenFromApp
  <2> SUFFICES ASSUME Invariant, role = "app", pc \in {"selfUnload", "detach", "leave"},
                      NEW l \in {Riru} \cup {i \in handle : mods[i].hides}
               PROVE  /\ env.hide /\ env.parsed /\ env.fails = Calls /\ (env.q => env.served)
                           => ~maps[l].file
                      /\ env.solist => l \in unlisted \/ (l = Riru /\ selfUnload)
    BY DEF HiddenFromApp
  <2>1. handle \subseteq DOMAIN mods
    BY DEF Invariant, StateTypes
  <2>2. env.hide /\ env.parsed /\ env.fails = Calls /\ (env.q => env.served) => ~maps[l].file
    BY <2>1 DEF Invariant, Shown
  <2>3. env.solist => l \in unlisted \/ (l = Riru /\ selfUnload)
    BY DEF Invariant, Shown
  <2> QED  BY <2>2, <2>3
<1> QED  BY InvariantHolds, <1>1, PTL
=============================================================================
