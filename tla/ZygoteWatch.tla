---------------------------- MODULE ZygoteWatch ----------------------------
(***************************************************************************)
(* What the daemon promises about a soft reboot, without its threads,      *)
(* queue and monitor: exactly one party is responsible for the next        *)
(* system server at any time, and a restart of zygote is asked for at most *)
(* once between two loads of Riru.                                         *)
(***************************************************************************)

VARIABLES
  phase,   \* who is responsible: startWait, the death recipient, binderDied, or nobody
  budget,  \* a restart may still be asked for
  asked    \* a restart was asked for and has not happened yet

watchVars == <<phase, budget, asked>>

WatchInit == phase = "waiting" /\ budget = TRUE /\ asked = FALSE

Move(from, to) == phase = from /\ phase' = to /\ UNCHANGED <<budget, asked>>

Watch   == Move("waiting", "watching")     \* linked to the system server
Lose    == Move("waiting", "lost")         \* linkToDeath threw
Die     == Move("watching", "recovering")  \* the system server died
Recover == Move("recovering", "waiting")   \* everything reset, wait for the next one

Ask     == budget /\ ~asked /\ budget' = FALSE /\ asked' = TRUE /\ UNCHANGED phase
Restart == asked /\ asked' = FALSE /\ UNCHANGED <<phase, budget>>
Load    == budget' = TRUE /\ UNCHANGED <<phase, asked>>

WatchNext == Watch \/ Lose \/ Die \/ Recover \/ Ask \/ Restart \/ Load

WatchSpec == WatchInit /\ [][WatchNext]_watchVars

\* No responsibility is kept for ever except the death recipient's, and a restart
\* that was asked for happens.
WatchFairSpec ==
  /\ WatchSpec
  /\ WF_watchVars(Watch \/ Lose) /\ WF_watchVars(Recover) /\ WF_watchVars(Restart)
=============================================================================
