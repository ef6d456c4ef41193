------------------------------- MODULE MapsHide -------------------------------
(***************************************************************************)
(* riru_hide of libriruhide.so (hide.cpp): every mapping of the files      *)
(* named is replaced in place by an anonymous copy.  do_hide makes five    *)
(* system calls, and returns at the first one that fails; riru_hide goes   *)
(* on with the next mapping all the same.                                  *)
(***************************************************************************)
EXTENDS Naturals

Calls == 5  \* mmap of the backup, munmap, mmap, mprotect +w, mprotect -w

Access == {"r", "w", "x"}

\* A mapping: mapped at all, backed by the file, with the bytes it should have.
Mapping == [mapped : BOOLEAN, file : BOOLEAN, filled : BOOLEAN, prot : SUBSET Access]

OfFile(prot) == [mapped |-> TRUE, file |-> TRUE, filled |-> TRUE, prot |-> prot]

\* What do_hide leaves of mapping m when its first n calls succeed, and the next, if there
\* is one, fails.  The bytes are copied back after the fourth.  (An mmap that succeeds at
\* another address leaves what n = 2 does: the mprotect that follows finds nothing mapped.)
do_hide(m, n) ==
  CASE n \in {0, 1} -> m
    [] n = 2 -> [m EXCEPT !.mapped = FALSE]
    [] n = 3 -> [m EXCEPT !.file = FALSE, !.filled = FALSE]
    [] n = 4 -> [m EXCEPT !.file = FALSE, !.prot = @ \cup {"w"}]
    [] n = 5 -> [m EXCEPT !.file = FALSE]

\* riru_hide: only mappings that can be read are collected; n[l] as above.  It does nothing
\* if the maps cannot be parsed.
riru_hide(maps, names, n, parsed) ==
  [l \in DOMAIN maps |->
     IF parsed /\ l \in names /\ maps[l].mapped /\ maps[l].file /\ "r" \in maps[l].prot
     THEN do_hide(maps[l], n[l]) ELSE maps[l]]

\* The code or data of the library is where it was.
InPlace(m) == m.mapped /\ m.filled
=============================================================================
