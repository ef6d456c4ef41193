---------------------------- MODULE MCZygoteHooks ----------------------------
(* Instances of ZygoteHooks for TLC: the kinds of modules the code tells apart; got, table *)
(* and solist of a device are what ElfImg finds.                                            *)
EXTENDS ZygoteHooks, MCElfImg

Shape(old, pre, post, skips, hides) ==
  [old |-> old, pre |-> pre, post |-> post, skips |-> skips, hides |-> hides]

Apps == {ForkApp, SpecApp}

MCShapes == {
  Shape(TRUE, Methods, Methods, {"system"}, TRUE),    \* API 24, skips what is no app
  Shape(TRUE, Methods, Methods, {"app"}, FALSE),      \* API 24, a shouldSkipUid of its own
  Shape(FALSE, Methods, Methods, {}, TRUE),           \* API 25, every callback
  Shape(FALSE, {ForkSys}, {ForkSys}, {}, TRUE),       \* API 25, the system server only
  Shape(FALSE, Apps, {}, {}, FALSE),                  \* API 25, pre callbacks only
  Shape(FALSE, {}, Apps, {}, TRUE)}                   \* API 25, post callbacks only

\* A device that finds everything.
Found == [q |-> TRUE, served |-> TRUE, got |-> TRUE, table |-> TRUE, helper |-> TRUE, hide |-> TRUE,
          unhook |-> TRUE, solist |-> TRUE, parsed |-> TRUE, fails |-> Calls,
          present |-> Methods, known |-> Methods]

\* No pool of processes, and a signature of nativeForkSystemServer that is not known.
ForksOnly == [Found EXCEPT !.present = {ForkApp, ForkSys}, !.known = {ForkApp}]

\* Everything found, what each lookup of InstallHooks can fail to find, and methods that
\* Zygote does not have or whose signature is unknown; hiding that does not come to it, or
\* fails half way; on Android 9 and 10.
MCDevices ==
  {Found, [Found EXCEPT !.q = FALSE]}
  \cup {[ForksOnly EXCEPT !.got = FALSE, !.helper = FALSE, !.solist = FALSE, !.hide = FALSE],
        [Found EXCEPT !.got = FALSE, !.table = FALSE, !.fails = 1],
        [ForksOnly EXCEPT !.unhook = FALSE, !.served = FALSE],
        [Found EXCEPT !.fails = 2],
        [Found EXCEPT !.fails = 3],
        [ForksOnly EXCEPT !.q = FALSE, !.solist = FALSE, !.parsed = FALSE],
        [ForksOnly EXCEPT !.q = FALSE, !.got = FALSE, !.fails = 4]}
=============================================================================
