-------------------------------- MODULE SoList --------------------------------
(***************************************************************************)
(* The linker's list of loaded libraries, and what Riru does to it behind  *)
(* the linker's back (hide_utils.cpp).  A list is linked by the next       *)
(* pointers of the soinfos; the linker keeps a pointer to the first one,   *)
(* solist, and one to the last, sonext, after which it adds.  A soinfo     *)
(* that was removed keeps its own next pointer.                            *)
(***************************************************************************)
EXTENDS Integers, Sequences, SequencesExt, FiniteSets

Null == -1  \* no soinfo; soinfos are natural numbers

Lists(libraries) ==
  [first : libraries, next : [libraries -> libraries \cup {Null}], last : libraries]

\* The list of one soinfo.
Single(libraries, l) == [first |-> l, next |-> [x \in libraries |-> Null], last |-> l]

\* linker_get_solist: the soinfos met from the first one on; no more than there are.
linker_get_solist(list) ==
  LET met[n \in Nat] ==
        IF n <= 1 THEN <<list.first>>
        ELSE LET walk == met[n - 1]
                 next == list.next[Last(walk)]
             IN IF next = Null THEN walk ELSE Append(walk, next)
  IN met[Cardinality(DOMAIN list.next)]

\* walk is the list from first to last, and each soinfo is met once.
Follows(list, walk) ==
  /\ walk # <<>> /\ walk[1] = list.first /\ walk[Len(walk)] = list.last
  /\ \A i \in 1..Len(walk) - 1 : list.next[walk[i]] = walk[i + 1]
  /\ list.next[list.last] = Null
  /\ \A i, j \in 1..Len(walk) : walk[i] = walk[j] => i = j

Intact(list) == Follows(list, linker_get_solist(list))

\* Mutant: sonext goes on pointing to the soinfo that was removed.
UnlinkKeepsLast(list, walk, i) ==
  [list EXCEPT !.next[walk[i - 1]] = list.next[walk[i]]]

\* solist_remove_soinfo when the loop stops at the i-th soinfo; prev is the one before.
Unlink(list, walk, i) ==
  [list EXCEPT !.next[walk[i - 1]] = list.next[walk[i]],
               !.last = IF @ = walk[i] THEN walk[i - 1] ELSE @]

solist_remove_soinfo(list, si) ==
  LET walk == linker_get_solist(list)
  IN IF si \in ToSet(walk) THEN Unlink(list, walk, CHOOSE i \in DOMAIN walk : walk[i] = si)
     ELSE list

\* RemovePathsFromSolist: a snapshot of the list is gone through.
RemovePathsFromSolist(list, names) ==
  LET met == linker_get_solist(list)
      left[n \in 0..Len(met)] ==
        IF n = 0 THEN list
        ELSE IF met[n] \in names THEN solist_remove_soinfo(left[n - 1], met[n])
        ELSE left[n - 1]
  IN left[Len(met)]

\* The linker: dlopen adds, dlclose removes the way solist_remove_soinfo does.
solist_add_soinfo(list, si) ==
  [list EXCEPT !.next = [@ EXCEPT ![list.last] = si, ![si] = Null], !.last = si]

Open(list, libraries) ==
  LET grown[n \in 0..Len(libraries)] ==
        IF n = 0 THEN list ELSE solist_add_soinfo(grown[n - 1], libraries[n])
  IN grown[Len(libraries)]

Close(list, libraries) == RemovePathsFromSolist(list, libraries)
=============================================================================
