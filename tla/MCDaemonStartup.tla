--------------------------- MODULE MCDaemonStartup ---------------------------
(* A device with both ABIs and a module whose directory both tasks check; the   *)
(* zygote of one ABI connects, and again after a soft reboot.                   *)
EXTENDS DaemonStartup

MCThreads == {"init", "modules", "modules64"}
MCFiles == {"moduleDir"}
MCPlan == [t \in MCThreads |-> IF t = "init" THEN <<>> ELSE <<<<"moduleDir">>>>]

MCReborn  == {"new"}
MCIs64    == {"zygote64", "new"}
MCLoaders == {"zygote64", "new"}

\* The first boot, a boot that was interrupted, later boots, one where /data is not mounted
\* yet, and two where the name cannot be read; a folder or both cannot be deleted.
MCDevices == {
  [first |-> "missing", writable |-> TRUE, unread |-> {}, stuck |-> {}],
  [first |-> "empty", writable |-> TRUE, unread |-> {}, stuck |-> {"64"}],
  [first |-> "kept", writable |-> TRUE, unread |-> {}, stuck |-> {}],
  [first |-> "kept", writable |-> TRUE, unread |-> {}, stuck |-> Abis],
  [first |-> "kept", writable |-> TRUE, unread |-> {"zygote64"}, stuck |-> {}],
  [first |-> "kept", writable |-> FALSE, unread |-> {"main"}, stuck |-> {}],
  [first |-> "missing", writable |-> FALSE, unread |-> {}, stuck |-> {"32"}]}
=============================================================================
