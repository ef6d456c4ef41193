------------------------------ MODULE SoListProofs ------------------------------
(***************************************************************************)
(* Proofs about SoList: what one step of the surgery on the linker's list  *)
(* does to any list that is whole.  walk is the list from first to last.   *)
(***************************************************************************)
EXTENDS SoList, FiniteSetTheorems, WellFoundedInduction, TLAPS

\* walk without its i-th soinfo.
Without(walk, i) == [k \in 1..(Len(walk) - 1) |-> IF k < i THEN walk[k] ELSE walk[k + 1]]

\* solist_remove_soinfo takes any soinfo but the first off the list and leaves the rest
\* of it in order, with sonext at its end, so that the linker adds to the list it walks.
THEOREM UnlinkRemoves ==
  ASSUME NEW libraries, NEW list \in Lists(libraries), NEW walk \in Seq(libraries),
         Null \notin libraries, Follows(list, walk), NEW i \in 2..Len(walk)
  PROVE  /\ Unlink(list, walk, i) \in Lists(libraries)
         /\ Without(walk, i) \in Seq(libraries)
         /\ Follows(Unlink(list, walk, i), Without(walk, i))
<1> DEFINE n    == Len(walk)
           rest == Without(walk, i)
           new  == Unlink(list, walk, i)
<1>1. /\ n \in Nat /\ n >= 2 /\ DOMAIN walk = 1..n /\ i - 1 \in 1..n - 1 /\ i \in 1..n
      /\ \A k \in 1..n : walk[k] \in libraries
  OBVIOUS
<1>2. /\ rest \in Seq(libraries) /\ Len(rest) = n - 1
      /\ \A k \in 1..n - 1 : rest[k] = IF k < i THEN walk[k] ELSE walk[k + 1]
  <2>1. rest \in [1..n - 1 -> libraries]
    BY <1>1 DEF Without
  <2> QED  BY <1>1, <2>1 DEF Without
<1>3. /\ walk[1] = list.first /\ walk[n] = list.last
      /\ \A k \in 1..n - 1 : list.next[walk[k]] = walk[k + 1]
      /\ list.next[list.last] = Null
      /\ \A j, k \in 1..n : walk[j] = walk[k] => j = k
  BY DEF Follows
<1>4. /\ list.first \in libraries /\ list.last \in libraries
      /\ list.next \in [libraries -> libraries \cup {Null}]
  BY DEF Lists
<1>5. /\ new.first = list.first
      /\ new.next = [list.next EXCEPT ![walk[i - 1]] = list.next[walk[i]]]
      /\ new.last = IF list.last = walk[i] THEN walk[i - 1] ELSE list.last
  BY DEF Unlink, Lists
<1>6. new \in Lists(libraries)
  <2>1. walk[i] \in libraries /\ walk[i - 1] \in libraries
    BY <1>1
  <2> QED  BY <1>4, <2>1 DEF Unlink, Lists
<1>7. list.last = walk[i] <=> i = n
  <2>1. n \in 1..n /\ i \in 1..n
    BY <1>1
  <2>2. \A j, k \in 1..n : walk[j] = walk[k] => j = k
    BY <1>3
  <2> QED  BY <1>3, <2>1, <2>2
<1>8. rest # <<>> /\ rest[1] = new.first
  BY <1>1, <1>2, <1>3, <1>5
<1>9. rest[n - 1] = new.last
  <2>1. n - 1 \in 1..n - 1
    BY <1>1
  <2>2. rest[n - 1] = IF n - 1 < i THEN walk[n - 1] ELSE walk[(n - 1) + 1]
    BY <1>2, <2>1
  <2>3. CASE i = n
    BY <1>1, <1>5, <1>7, <2>2, <2>3
  <2>4. CASE i # n
    <3>1. ~(n - 1 < i) /\ (n - 1) + 1 = n
      <4>1. n \in Nat /\ i \in 1..n
        BY <1>1
      <4>2. i # n
        BY <2>4
      <4> HIDE DEF n
      <4> QED  BY <4>1, <4>2
    <3> QED  BY <1>3, <1>5, <1>7, <2>2, <2>4, <3>1
  <2> QED  BY <2>3, <2>4
<1>10. ASSUME NEW k \in 1..n - 2 PROVE new.next[rest[k]] = rest[k + 1]
  <2>1. /\ k \in 1..n - 1 /\ k + 1 \in 1..n - 1 /\ k + 2 \in 1..n /\ k \in 1..n /\ k + 1 \in 1..n
    BY <1>1
  <2>2. CASE k < i - 1
    <3>1. rest[k] = walk[k] /\ rest[k + 1] = walk[k + 1] /\ walk[k] # walk[i - 1]
      BY <1>1, <1>2, <1>3, <2>1, <2>2
    <3> QED  BY <1>1, <1>3, <1>4, <1>5, <2>1, <3>1
  <2>3. CASE k = i - 1
    <3>1. rest[k] = walk[i - 1] /\ rest[k + 1] = walk[i + 1] /\ i \in 1..n - 1
      BY <1>1, <1>2, <2>1, <2>3
    <3> QED  BY <1>1, <1>3, <1>4, <1>5, <3>1
  <2>4. CASE k > i - 1
    <3>1. rest[k] = walk[k + 1] /\ rest[k + 1] = walk[k + 2] /\ walk[k + 1] # walk[i - 1]
      BY <1>1, <1>2, <1>3, <2>1, <2>4
    <3>2. list.next[walk[k + 1]] = walk[k + 2]
      BY <1>1, <1>3, <2>1
    <3> QED  BY <1>1, <1>4, <1>5, <2>1, <3>1, <3>2
  <2> QED  BY <1>1, <2>2, <2>3, <2>4
<1>11. new.next[new.last] = Null
  <2>1. CASE i = n
    BY <1>1, <1>3, <1>4, <1>5, <1>7, <2>1
  <2>2. CASE i # n
    <3>1. new.last = list.last /\ walk[i - 1] # list.last
      <4>1. n \in 1..n /\ i - 1 \in 1..n /\ i - 1 # n
        BY <1>1
      <4>2. \A j, k \in 1..n : walk[j] = walk[k] => j = k
        BY <1>3
      <4>3. walk[i - 1] # walk[n]
        BY <4>1, <4>2
      <4> QED  BY <1>3, <1>5, <1>7, <2>2, <4>3
    <3> QED  BY <1>3, <1>4, <1>5, <3>1
  <2> QED  BY <2>1, <2>2
<1>12. ASSUME NEW j \in 1..n - 1, NEW k \in 1..n - 1, rest[j] = rest[k] PROVE j = k
  <2> DEFINE at(x) == IF x < i THEN x ELSE x + 1
  <2>1. at(j) \in 1..n /\ at(k) \in 1..n /\ rest[j] = walk[at(j)] /\ rest[k] = walk[at(k)]
    BY <1>1, <1>2
  <2>2. at(j) = at(k)
    BY <1>3, <1>12, <2>1
  <2> QED  BY <1>1, <2>2
<1>13. Follows(new, rest)
  <2>1. Len(rest) - 1 = n - 2
    BY <1>1, <1>2
  <2> HIDE DEF n, rest, new
  <2> QED  BY <1>2, <1>8, <1>9, <1>10, <1>11, <1>12, <2>1 DEF Follows
<1> QED  BY <1>2, <1>6, <1>13

\* dlopen after any such surgery: the linker adds after sonext, to the end of the list.
THEOREM AddAppends ==
  ASSUME NEW libraries, NEW list \in Lists(libraries), NEW walk \in Seq(libraries),
         Null \notin libraries, Follows(list, walk),
         NEW si \in libraries, \A k \in 1..Len(walk) : walk[k] # si
  PROVE  /\ solist_add_soinfo(list, si) \in Lists(libraries)
         /\ Follows(solist_add_soinfo(list, si), Append(walk, si))
<1> DEFINE n == Len(walk)
           new == solist_add_soinfo(list, si)
           longer == Append(walk, si)
<1>1. /\ n \in Nat /\ n >= 1 /\ \A k \in 1..n : walk[k] \in libraries
  BY DEF Follows
<1>2. /\ Len(longer) = n + 1 /\ longer \in Seq(libraries) /\ longer[n + 1] = si
      /\ \A k \in 1..n : longer[k] = walk[k]
  BY <1>1
<1>3. /\ walk[1] = list.first /\ walk[n] = list.last
      /\ \A k \in 1..n - 1 : list.next[walk[k]] = walk[k + 1]
      /\ \A j, k \in 1..n : walk[j] = walk[k] => j = k
  BY DEF Follows
<1>4. /\ list.first \in libraries /\ list.last \in libraries
      /\ list.next \in [libraries -> libraries \cup {Null}]
  BY DEF Lists
<1>5. /\ new.first = list.first /\ new.last = si
      /\ new.next = [[list.next EXCEPT ![list.last] = si] EXCEPT ![si] = Null]
  BY DEF solist_add_soinfo, Lists
<1>6. new \in Lists(libraries)
  BY <1>4, <1>5 DEF solist_add_soinfo, Lists
<1>7. ASSUME NEW k \in 1..n PROVE new.next[longer[k]] = longer[k + 1]
  <2>1. longer[k] = walk[k] /\ walk[k] \in libraries /\ walk[k] # si
    BY <1>1, <1>2
  <2>2. CASE k = n
    BY <1>2, <1>3, <1>4, <1>5, <2>1, <2>2
  <2>3. CASE k # n
    <3>1. k \in 1..n - 1 /\ k + 1 \in 1..n /\ walk[k] # walk[n] /\ n \in 1..n
      BY <1>1, <1>3, <2>3
    <3>2. longer[k + 1] = walk[k + 1] /\ list.next[walk[k]] = walk[k + 1]
      BY <1>2, <1>3, <3>1
    <3> QED  BY <1>3, <1>4, <1>5, <2>1, <3>1, <3>2
  <2> QED  BY <2>2, <2>3
<1>8. new.next[new.last] = Null
  BY <1>4, <1>5
<1>9. ASSUME NEW j \in 1..n + 1, NEW k \in 1..n + 1, longer[j] = longer[k] PROVE j = k
  BY <1>1, <1>2, <1>3, <1>9
<1>10. longer # <<>> /\ longer[1] = new.first /\ longer[n + 1] = new.last
  BY <1>1, <1>2, <1>3, <1>5
<1>11. Follows(new, longer)
  <2>1. Len(longer) - 1 = n
    BY <1>1, <1>2
  <2> HIDE DEF n, longer, new
  <2> QED  BY <1>2, <1>7, <1>8, <1>9, <1>10, <2>1 DEF Follows
<1> QED  BY <1>6, <1>11

-----------------------------------------------------------------------------
(* Recursion. *)

\* Induction, as a fact about a set: the library states it for an operator.
LEMMA SetInduction ==
  ASSUME NEW T, 0 \in T, \A n \in Nat : n \in T => n + 1 \in T
  PROVE  \A n \in Nat : n \in T
<1> DEFINE R == {p \in Nat \X Nat : p[1] < p[2]}
<1>1. IsWellFoundedOn(R, Nat)
  BY NatLessThanWellFounded DEF OpToRel
<1>2. SUFFICES ASSUME Nat \ T # {} PROVE FALSE
  OBVIOUS
<1>3. PICK x \in Nat \ T : \A y \in Nat \ T : ~(<<y, x>> \in R)
  <2> HIDE DEF R
  <2> QED  BY <1>1, <1>2, WFMin
<1>4. x - 1 \in Nat /\ x = (x - 1) + 1 /\ <<x - 1, x>> \in R
  BY <1>3
<1> QED  BY <1>3, <1>4

\* f is defined on 0..N by recursion: from base, with G of the value before and the index.
Iterates(f, N, base, G) == f[0] = base /\ \A n \in 1..N : f[n] = G[<<f[n - 1], n>>]

\* A function on 0..N that is defined by recursion exists.
LEMMA Recursion ==
  ASSUME NEW N \in Nat, NEW S, NEW base \in S, NEW G \in [S \X (1..N) -> S]
  PROVE  \E f \in [0..N -> S] : Iterates(f, N, base, G)
<1> DEFINE Upto(k, f) == f[0] = base /\ \A n \in 1..k : f[n] = G[<<f[n - 1], n>>]
           T == {k \in Nat : k <= N => \E f \in [0..k -> S] : Upto(k, f)}
<1>1. 0 \in T
  <2>1. [n \in 0..0 |-> base] \in [0..0 -> S] /\ Upto(0, [n \in 0..0 |-> base])
    OBVIOUS
  <2> QED  BY <2>1
<1>2. ASSUME NEW k \in Nat, k \in T PROVE k + 1 \in T
  <2> SUFFICES ASSUME k + 1 <= N PROVE \E f \in [0..k + 1 -> S] : Upto(k + 1, f)
    OBVIOUS
  <2>1. PICK f \in [0..k -> S] : Upto(k, f)
    BY <1>2
  <2> DEFINE g == [n \in 0..k + 1 |-> IF n = k + 1 THEN G[<<f[k], k + 1>>] ELSE f[n]]
  <2>2. G[<<f[k], k + 1>>] \in S
    BY <2>1
  <2>3. g \in [0..k + 1 -> S]
    BY <2>2
  <2>4. g[0] = base
    BY <2>1
  <2>5. ASSUME NEW n \in 1..k + 1 PROVE g[n] = G[<<g[n - 1], n>>]
    <3>1. CASE n = k + 1
      <4>1. k + 1 \in 0..k + 1 /\ k \in 0..k + 1 /\ k # k + 1 /\ n - 1 = k
        BY <3>1
      <4>2. g[k + 1] = G[<<f[k], k + 1>>] /\ g[k] = f[k]
        BY <4>1
      <4> QED  BY <3>1, <4>1, <4>2
    <3>2. CASE n # k + 1
      <4>1. n \in 1..k /\ n - 1 \in 0..k /\ n \in 0..k + 1 /\ n - 1 \in 0..k + 1 /\ n - 1 # k + 1
        BY <3>2
      <4>2. g[n] = f[n] /\ g[n - 1] = f[n - 1]
        BY <3>2, <4>1
      <4> QED  BY <2>1, <4>1, <4>2
    <3> QED  BY <3>1, <3>2
  <2> QED  BY <2>3, <2>4, <2>5
<1>3. N \in T
  <2> HIDE DEF T
  <2> QED  BY <1>1, <1>2, SetInduction
<1>4. PICK f \in [0..N -> S] : Upto(N, f)
  BY <1>3
<1> QED  BY <1>4 DEF Iterates

-----------------------------------------------------------------------------
(* The walk through a list. *)

\* A sequence that meets every element once is no longer than the set it is from.
LEMMA NoLonger ==
  ASSUME NEW libraries, IsFiniteSet(libraries), NEW walk \in Seq(libraries),
         \A i, j \in 1..Len(walk) : walk[i] = walk[j] => i = j
  PROVE  Len(walk) <= Cardinality(libraries)
<1>1. walk \in [1..Len(walk) -> libraries] /\ Len(walk) \in Nat
  OBVIOUS
<1>2. IsFiniteSet(1..Len(walk)) /\ Cardinality(1..Len(walk)) = Len(walk)
  <2>1. 1 \in Int /\ Len(walk) \in Int
    BY <1>1
  <2>2. /\ IsFiniteSet(1..Len(walk))
        /\ Cardinality(1..Len(walk)) = IF 1 > Len(walk) THEN 0 ELSE Len(walk) - 1 + 1
    BY <2>1, FS_Interval
  <2> QED  BY <1>1, <2>2
<1>3. Cardinality(libraries) \in Nat
  BY FS_CardinalityType
<1>4. SUFFICES ASSUME Cardinality(libraries) < Cardinality(1..Len(walk)) PROVE FALSE
  BY <1>1, <1>2, <1>3
<1> QED  BY <1>1, <1>2, <1>4, FS_PigeonHole

\* The first part of a sequence, and the whole of it.
LEMMA WholePart ==
  ASSUME NEW S, NEW s \in Seq(S), Len(s) >= 1
  PROVE  SubSeq(s, 1, 1) = <<s[1]>> /\ SubSeq(s, 1, Len(s)) = s
<1>1. Len(s) \in Nat /\ s = [k \in 1..Len(s) |-> s[k]]
  OBVIOUS
<1>2. SubSeq(s, 1, 1) = [k \in 1..1 |-> s[k]]
  BY <1>1
<1>3. SubSeq(s, 1, Len(s)) = [k \in 1..Len(s) |-> s[k]]
  BY <1>1
<1>4. <<s[1]>> = [k \in 1..1 |-> s[k]]
  BY <1>1
<1> QED  BY <1>1, <1>2, <1>3, <1>4

\* linker_get_solist goes through the whole of a list.
LEMMA GetSolist ==
  ASSUME NEW libraries, IsFiniteSet(libraries), Null \notin libraries,
         NEW list \in Lists(libraries), NEW walk \in Seq(libraries), Follows(list, walk)
  PROVE  linker_get_solist(list) = walk
<1> DEFINE n    == Len(walk)
           upto(k) == IF k <= 1 THEN 1 ELSE IF k <= n THEN k ELSE n
           part == [k \in Nat |-> SubSeq(walk, 1, upto(k))]
           Step(f, k) == IF k <= 1 THEN <<list.first>>
                         ELSE LET w == f[k - 1]
                                  next == list.next[Last(w)]
                              IN IF next = Null THEN w ELSE Append(w, next)
           met  == CHOOSE f : f = [k \in Nat |-> Step(f, k)]
<1>1. /\ n \in Nat /\ n >= 1 /\ \A k \in 1..n : walk[k] \in libraries
      /\ walk[1] = list.first /\ walk[n] = list.last
      /\ \A k \in 1..n - 1 : list.next[walk[k]] = walk[k + 1]
      /\ list.next[list.last] = Null
  BY DEF Follows
<1>p. ASSUME NEW k \in Nat
      PROVE  /\ k <= 1 => part[k] = <<walk[1]>>
             /\ 1 <= k /\ k <= n => part[k] = SubSeq(walk, 1, k)
             /\ n <= k => part[k] = walk
  <2>1. part[k] = SubSeq(walk, 1, upto(k))
    OBVIOUS
  <2>2. SubSeq(walk, 1, 1) = <<walk[1]>> /\ SubSeq(walk, 1, n) = walk
    BY <1>1, WholePart
  <2>3. k <= 1 => upto(k) = 1
    OBVIOUS
  <2>4. 1 <= k /\ k <= n => upto(k) = k
    OBVIOUS
  <2>5. n <= k => upto(k) = n
    <3> HIDE DEF n
    <3> QED  BY <1>1
  <2> HIDE DEF part, upto
  <2> QED  BY <2>1, <2>2, <2>3, <2>4, <2>5
<1>2. ASSUME NEW k \in Nat, NEW f, k > 1 => f[k - 1] = part[k - 1]
      PROVE  Step(f, k) = part[k]
  <2> HIDE DEF part, n
  <2>1. CASE k <= 1
    BY <1>1, <1>p, <2>1
  <2>2. CASE k > 1 /\ k <= n
    <3>1. k - 1 \in Nat /\ k - 1 >= 1 /\ k - 1 <= n /\ k - 1 \in 1..n - 1 /\ k \in 1..n /\ 1 <= k
      BY <1>1, <2>2
    <3>2. f[k - 1] = SubSeq(walk, 1, k - 1) /\ part[k] = SubSeq(walk, 1, k)
      BY <1>2, <1>p, <2>2, <3>1
    <3>3. Len(SubSeq(walk, 1, k - 1)) = k - 1 /\ SubSeq(walk, 1, k - 1)[k - 1] = walk[k - 1]
      BY <3>1 DEF n
    <3>4. Last(f[k - 1]) = walk[k - 1]
      BY <3>2, <3>3 DEF Last
    <3>5. list.next[walk[k - 1]] = walk[k] /\ walk[k] # Null
      BY <1>1, <3>1
    <3>6. Append(SubSeq(walk, 1, k - 1), walk[k]) = SubSeq(walk, 1, k)
      BY <3>1 DEF n
    <3> QED  BY <2>2, <3>2, <3>4, <3>5, <3>6
  <2>3. CASE k > 1 /\ k > n
    <3>1. k - 1 \in Nat /\ n <= k - 1 /\ n <= k
      BY <1>1, <2>3
    <3>2. f[k - 1] = walk /\ part[k] = walk
      BY <1>2, <1>p, <2>3, <3>1
    <3>3. Last(walk) = list.last
      BY <1>1 DEF Last, n
    <3> QED  BY <1>1, <2>3, <3>2, <3>3
  <2> HIDE DEF Step
  <2> QED  BY <1>1, <2>1, <2>2, <2>3
<1>3. part = [k \in Nat |-> Step(part, k)]
  <2> HIDE DEF Step
  <2> QED  BY <1>2
<1>4. met = [k \in Nat |-> Step(met, k)]
  <2> HIDE DEF part, Step
  <2> QED  BY <1>3
<1>5. ASSUME NEW k \in Nat PROVE met[k] = part[k]
  <2> DEFINE T == {m \in Nat : met[m] = part[m]}
  <2> HIDE DEF met, part, Step
  <2>1. 0 \in T
    BY <1>2, <1>4
  <2>2. \A m \in Nat : m \in T => m + 1 \in T
    BY <1>2, <1>4
  <2> HIDE DEF T
  <2>3. k \in T
    BY <2>1, <2>2, SetInduction
  <2> QED  BY <2>3 DEF T
<1>6. linker_get_solist(list) = met[Cardinality(libraries)]
  <2>1. DOMAIN list.next = libraries
    BY DEF Lists
  <2> QED  BY <2>1 DEF linker_get_solist
<1>7. n <= Cardinality(libraries) /\ Cardinality(libraries) \in Nat
  <2>1. \A i, j \in 1..n : walk[i] = walk[j] => i = j
    BY DEF Follows
  <2> QED  BY <2>1, NoLonger, FS_CardinalityType
<1>8. part[Cardinality(libraries)] = walk
  BY <1>7, <1>p
<1> QED  BY <1>5, <1>6, <1>7, <1>8

-----------------------------------------------------------------------------
(* Whole lists. *)

Whole(libraries) == {l \in Lists(libraries) : linker_get_solist(l) \in Seq(libraries) /\ Intact(l)}

Contents(list) == ToSet(linker_get_solist(list))

\* A list with a walk is whole, and has what the walk meets.
LEMMA WholeIs ==
  ASSUME NEW libraries, IsFiniteSet(libraries), Null \notin libraries,
         NEW list \in Lists(libraries), NEW walk \in Seq(libraries), Follows(list, walk)
  PROVE  list \in Whole(libraries) /\ Contents(list) = {walk[k] : k \in 1..Len(walk)}
<1>1. linker_get_solist(list) = walk
  BY GetSolist
<1>2. DOMAIN walk = 1..Len(walk)
  OBVIOUS
<1> QED  BY <1>1, <1>2 DEF Whole, Intact, Contents, ToSet

\* The walk through a whole list.
LEMMA WholeHas ==
  ASSUME NEW libraries, NEW list \in Whole(libraries)
  PROVE  /\ list \in Lists(libraries) /\ linker_get_solist(list) \in Seq(libraries)
         /\ Follows(list, linker_get_solist(list))
         /\ DOMAIN linker_get_solist(list) = 1..Len(linker_get_solist(list))
         /\ Contents(list) = {linker_get_solist(list)[k] : k \in 1..Len(linker_get_solist(list))}
         /\ list.first \in libraries /\ list.first \in Contents(list) /\ Contents(list) \subseteq libraries
<1> DEFINE walk == linker_get_solist(list)
<1>1. list \in Lists(libraries) /\ walk \in Seq(libraries) /\ Follows(list, walk)
  BY DEF Whole, Intact
<1>2. DOMAIN walk = 1..Len(walk) /\ Len(walk) \in Nat /\ \A k \in 1..Len(walk) : walk[k] \in libraries
  BY <1>1
<1>3. Contents(list) = {walk[k] : k \in 1..Len(walk)}
  BY <1>2 DEF Contents, ToSet
<1>4. walk # <<>> /\ walk[1] = list.first
  BY <1>1 DEF Follows
<1>5. 1 \in 1..Len(walk)
  BY <1>1, <1>2, <1>4
<1> QED  BY <1>1, <1>2, <1>3, <1>4, <1>5

\* The list of one soinfo.
LEMMA SingleWhole ==
  ASSUME NEW libraries, IsFiniteSet(libraries), Null \notin libraries, NEW l \in libraries
  PROVE  /\ Single(libraries, l) \in Whole(libraries) /\ Contents(Single(libraries, l)) = {l}
         /\ Single(libraries, l).first = l
<1>1. Single(libraries, l) \in Lists(libraries)
  BY DEF Single, Lists
<1>2. <<l>> \in Seq(libraries) /\ Len(<<l>>) = 1 /\ <<l>>[1] = l /\ <<l>> # <<>>
  OBVIOUS
<1>3. Follows(Single(libraries, l), <<l>>)
  BY <1>2 DEF Follows, Single
<1>4. Single(libraries, l) \in Whole(libraries)
      /\ Contents(Single(libraries, l)) = {<<l>>[k] : k \in 1..Len(<<l>>)}
  BY <1>1, <1>2, <1>3, WholeIs
<1>5. {<<l>>[k] : k \in 1..Len(<<l>>)} = {l}
  BY <1>2
<1> QED  BY <1>4, <1>5 DEF Single

\* solist_remove_soinfo, for any soinfo but the first.
LEMMA RemoveOne ==
  ASSUME NEW libraries, IsFiniteSet(libraries), Null \notin libraries,
         NEW list \in Whole(libraries), NEW si, si # list.first
  PROVE  /\ solist_remove_soinfo(list, si) \in Whole(libraries)
         /\ Contents(solist_remove_soinfo(list, si)) = Contents(list) \ {si}
         /\ solist_remove_soinfo(list, si).first = list.first
<1> DEFINE walk == linker_get_solist(list)
           n    == Len(walk)
<1>1. /\ list \in Lists(libraries) /\ walk \in Seq(libraries) /\ Follows(list, walk)
      /\ Contents(list) = {walk[k] : k \in 1..n} /\ DOMAIN walk = 1..n
  BY WholeHas
<1>2. n \in Nat /\ walk[1] = list.first /\ \A j, k \in 1..n : walk[j] = walk[k] => j = k
  BY <1>1 DEF Follows
<1>3. CASE si \notin Contents(list)
  BY <1>3 DEF solist_remove_soinfo, Contents
<1>4. CASE si \in Contents(list)
  <2> DEFINE i   == CHOOSE k \in DOMAIN walk : walk[k] = si
             new == Unlink(list, walk, i)
             rest == Without(walk, i)
  <2>1. i \in 1..n /\ walk[i] = si
    BY <1>1, <1>4
  <2>2. solist_remove_soinfo(list, si) = new
    BY <1>4 DEF solist_remove_soinfo, Contents
  <2> HIDE DEF i, walk
  <2>3. i \in 2..n
    BY <1>2, <2>1
  <2>4. new \in Lists(libraries) /\ rest \in Seq(libraries) /\ Follows(new, rest)
    BY <1>1, <2>3, UnlinkRemoves
  <2>5. Len(rest) = n - 1 /\ \A k \in 1..n - 1 : rest[k] = IF k < i THEN walk[k] ELSE walk[k + 1]
    <3>1. /\ rest = [k \in 1..n - 1 |-> IF k < i THEN walk[k] ELSE walk[k + 1]]
          /\ Len(rest) \in Nat /\ DOMAIN rest = 1..Len(rest) /\ n - 1 \in Nat
      BY <1>2, <2>3, <2>4 DEF Without
    <3> HIDE DEF rest, n
    <3> QED  BY <3>1
  <2>6. {rest[k] : k \in 1..Len(rest)} = Contents(list) \ {si}
    <3>1. ASSUME NEW k \in 1..n - 1 PROVE rest[k] \in Contents(list) \ {si}
      <4>1. k \in 1..n /\ k + 1 \in 1..n /\ (k < i => k # i) /\ (~(k < i) => k + 1 # i)
        BY <1>2, <2>3
      <4> QED  BY <1>1, <1>2, <2>1, <2>5, <4>1
    <3>2. ASSUME NEW k \in 1..n, walk[k] # si PROVE \E j \in 1..n - 1 : rest[j] = walk[k]
      <4>1. CASE k < i
        <5>1. k \in 1..n - 1
          BY <1>2, <2>3, <4>1
        <5> QED  BY <2>5, <4>1, <5>1
      <4>2. CASE k > i
        <5>1. k - 1 \in 1..n - 1 /\ ~(k - 1 < i) /\ (k - 1) + 1 = k
          BY <1>2, <2>3, <4>2
        <5> QED  BY <2>5, <5>1
      <4> QED  BY <1>2, <2>1, <2>3, <3>2, <4>1, <4>2
    <3> HIDE DEF rest
    <3> QED  BY <1>1, <2>5, <3>1, <3>2
  <2>7. new.first = list.first
    BY <1>1 DEF Unlink, Lists
  <2>8. new \in Whole(libraries) /\ Contents(new) = {rest[k] : k \in 1..Len(rest)}
    <3> HIDE DEF new, rest
    <3> QED  BY <2>4, WholeIs
  <2> QED  BY <2>2, <2>6, <2>7, <2>8
<1> QED  BY <1>3, <1>4

\* The linker adds a soinfo that the list does not have.
LEMMA AddOne ==
  ASSUME NEW libraries, IsFiniteSet(libraries), Null \notin libraries,
         NEW list \in Whole(libraries), NEW si \in libraries \ Contents(list)
  PROVE  /\ solist_add_soinfo(list, si) \in Whole(libraries)
         /\ Contents(solist_add_soinfo(list, si)) = Contents(list) \cup {si}
         /\ solist_add_soinfo(list, si).first = list.first
<1> DEFINE walk == linker_get_solist(list)
           n    == Len(walk)
           longer == Append(walk, si)
<1>1. /\ list \in Lists(libraries) /\ walk \in Seq(libraries) /\ Follows(list, walk)
      /\ Contents(list) = {walk[k] : k \in 1..n} /\ DOMAIN walk = 1..n
  BY WholeHas
<1> HIDE DEF walk
<1>2. \A k \in 1..n : walk[k] # si
  BY <1>1
<1>3. solist_add_soinfo(list, si) \in Lists(libraries) /\ Follows(solist_add_soinfo(list, si), longer)
  BY <1>1, <1>2, AddAppends
<1>4. /\ longer \in Seq(libraries) /\ Len(longer) = n + 1 /\ longer[n + 1] = si /\ n \in Nat
      /\ \A k \in 1..n : longer[k] = walk[k]
  BY <1>1
<1>5. {longer[k] : k \in 1..Len(longer)} = Contents(list) \cup {si}
  <2> HIDE DEF longer, n
  <2>1. 1..n + 1 = (1..n) \cup {n + 1}
    BY <1>4
  <2> QED  BY <1>1, <1>4, <2>1
<1>6. solist_add_soinfo(list, si).first = list.first
  BY <1>1 DEF solist_add_soinfo, Lists
<1>7. solist_add_soinfo(list, si) \in Whole(libraries)
      /\ Contents(solist_add_soinfo(list, si)) = {longer[k] : k \in 1..Len(longer)}
  <2> DEFINE new == solist_add_soinfo(list, si)
  <2>1. new \in Lists(libraries) /\ longer \in Seq(libraries) /\ Follows(new, longer)
    BY <1>3, <1>4
  <2>2. new \in Whole(libraries) /\ Contents(new) = {longer[k] : k \in 1..Len(longer)}
    <3> HIDE DEF new, longer
    <3> QED  BY <2>1, WholeIs
  <2> QED  BY <2>2
<1> QED  BY <1>5, <1>6, <1>7

\* RemovePathsFromSolist takes the named soinfos off, and no other.
THEOREM RemoveAll ==
  ASSUME NEW libraries, IsFiniteSet(libraries), Null \notin libraries,
         NEW list \in Whole(libraries), NEW names, list.first \notin names
  PROVE  /\ RemovePathsFromSolist(list, names) \in Whole(libraries)
         /\ Contents(RemovePathsFromSolist(list, names)) = Contents(list) \ names
         /\ RemovePathsFromSolist(list, names).first = list.first
<1> DEFINE met  == linker_get_solist(list)
           N    == Len(met)
           S    == {l \in Whole(libraries) : l.first = list.first}
           Step(f, n) == IF n = 0 THEN list
                         ELSE IF met[n] \in names THEN solist_remove_soinfo(f[n - 1], met[n])
                         ELSE f[n - 1]
           left == CHOOSE f : f = [n \in 0..N |-> Step(f, n)]
           G    == [p \in S \X (1..N) |-> IF met[p[2]] \in names
                                         THEN solist_remove_soinfo(p[1], met[p[2]]) ELSE p[1]]
           gone(n) == {met[k] : k \in 1..n} \cap names
<1>1. met \in Seq(libraries) /\ N \in Nat /\ Contents(list) = {met[k] : k \in 1..N} /\ list \in S
  BY WholeHas
<1>r. RemovePathsFromSolist(list, names) = left[N]
  BY DEF RemovePathsFromSolist
<1> HIDE DEF met
<1>2. ASSUME NEW l \in S, NEW n \in 1..N, met[n] \in names
      PROVE  /\ solist_remove_soinfo(l, met[n]) \in S
             /\ Contents(solist_remove_soinfo(l, met[n])) = Contents(l) \ {met[n]}
  <2>1. l \in Whole(libraries) /\ met[n] # l.first /\ l.first = list.first
    BY <1>2
  <2> QED  BY <2>1, RemoveOne
<1>3. PICK f \in [0..N -> S] : Iterates(f, N, list, G)
  <2>1. G \in [S \X (1..N) -> S]
    <3> HIDE DEF S, N
    <3> QED  BY <1>2
  <2>2. N \in Nat /\ list \in S
    BY <1>1
  <2> HIDE DEF S, N, G
  <2> QED  BY <2>1, <2>2, Recursion
<1>4. f = [n \in 0..N |-> Step(f, n)]
  <2> HIDE DEF S, N
  <2>1. ASSUME NEW n \in 0..N PROVE f[n] = Step(f, n)
    <3>1. CASE n = 0
      BY <1>3, <3>1 DEF Iterates
    <3>2. CASE n # 0
      <4>1. n \in 1..N /\ n - 1 \in 0..N
        BY <1>1, <3>2
      <4>3. f[n - 1] \in S
        BY <1>3, <4>1
      <4>2. f[n] = G[<<f[n - 1], n>>]
        BY <1>3, <4>1 DEF Iterates
      <4> QED  BY <3>2, <4>1, <4>2, <4>3
    <3> QED  BY <3>1, <3>2
  <2> HIDE DEF Step
  <2> QED  BY <1>3, <2>1
<1>5. left = [n \in 0..N |-> Step(left, n)]
  <2> HIDE DEF Step, N
  <2> QED  BY <1>4
<1>6. left[N] \in S /\ Contents(left[N]) = Contents(list) \ gone(N)
  <2> DEFINE T == {n \in Nat : n <= N => /\ left[n] \in S
                                         /\ Contents(left[n]) = Contents(list) \ gone(n)}
  <2> HIDE DEF left, S, N
  <2>1. 0 \in T
    <3>1. left[0] = list
      BY <1>1, <1>5
    <3>2. gone(0) = {}
      OBVIOUS
    <3> HIDE DEF gone
    <3> QED  BY <1>1, <3>1, <3>2
  <2>2. ASSUME NEW n \in Nat, n \in T PROVE n + 1 \in T
    <3> SUFFICES ASSUME n + 1 <= N
                 PROVE  left[n + 1] \in S /\ Contents(left[n + 1]) = Contents(list) \ gone(n + 1)
      OBVIOUS
    <3>1. left[n] \in S /\ Contents(left[n]) = Contents(list) \ gone(n)
      BY <1>1, <2>2
    <3>2. n + 1 \in 0..N /\ n + 1 \in 1..N /\ n + 1 # 0 /\ (n + 1) - 1 = n
      BY <1>1
    <3>3. left[n + 1] = IF met[n + 1] \in names THEN solist_remove_soinfo(left[n], met[n + 1]) ELSE left[n]
      BY <1>5, <3>2
    <3>4. gone(n + 1) = IF met[n + 1] \in names THEN gone(n) \cup {met[n + 1]} ELSE gone(n)
      <4>1. 1..n + 1 = (1..n) \cup {n + 1}
        OBVIOUS
      <4> QED  BY <4>1
    <3> HIDE DEF gone
    <3> QED  BY <1>2, <3>1, <3>2, <3>3, <3>4
  <2> HIDE DEF T
  <2>3. N \in T
    BY <1>1, <2>1, <2>2, SetInduction
  <2> QED  BY <2>3 DEF T
<1>7. Contents(list) \ gone(N) = Contents(list) \ names
  BY <1>1
<1> HIDE DEF left, gone, N
<1> QED  BY <1>6, <1>7, <1>r

\* The linker opens libraries that the list does not have.
THEOREM OpenAll ==
  ASSUME NEW libraries, IsFiniteSet(libraries), Null \notin libraries,
         NEW list \in Whole(libraries), NEW opened \in Seq(libraries \ Contents(list)),
         \A i, j \in 1..Len(opened) : opened[i] = opened[j] => i = j
  PROVE  /\ Open(list, opened) \in Whole(libraries)
         /\ Contents(Open(list, opened)) = Contents(list) \cup {opened[k] : k \in 1..Len(opened)}
         /\ Open(list, opened).first = list.first
<1> DEFINE N    == Len(opened)
           Step(f, n) == IF n = 0 THEN list ELSE solist_add_soinfo(f[n - 1], opened[n])
           grown == CHOOSE f : f = [n \in 0..N |-> Step(f, n)]
           S    == Lists(libraries)
           G    == [p \in S \X (1..N) |-> solist_add_soinfo(p[1], opened[p[2]])]
           new(n) == {opened[k] : k \in 1..n}
<1>1. N \in Nat /\ list \in S /\ \A n \in 1..N : opened[n] \in libraries \ Contents(list)
  BY WholeHas
<1>2. ASSUME NEW l \in S, NEW n \in 1..N PROVE solist_add_soinfo(l, opened[n]) \in S
  BY <1>1 DEF solist_add_soinfo, Lists
<1>3. PICK f \in [0..N -> S] : Iterates(f, N, list, G)
  <2>1. G \in [S \X (1..N) -> S]
    <3> HIDE DEF S, N
    <3> QED  BY <1>2
  <2>2. N \in Nat /\ list \in S
    BY <1>1
  <2> HIDE DEF S, N, G
  <2> QED  BY <2>1, <2>2, Recursion
<1>4. f = [n \in 0..N |-> Step(f, n)]
  <2> HIDE DEF S, N
  <2>1. ASSUME NEW n \in 0..N PROVE f[n] = Step(f, n)
    <3>1. CASE n = 0
      BY <1>3, <3>1 DEF Iterates
    <3>2. CASE n # 0
      <4>1. n \in 1..N /\ n - 1 \in 0..N
        BY <1>1, <3>2
      <4>2. f[n - 1] \in S
        BY <1>3, <4>1
      <4>3. f[n] = G[<<f[n - 1], n>>]
        BY <1>3, <4>1 DEF Iterates
      <4> QED  BY <3>2, <4>1, <4>2, <4>3
    <3> QED  BY <3>1, <3>2
  <2> HIDE DEF Step
  <2> QED  BY <1>3, <2>1
<1>5. grown = [n \in 0..N |-> Step(grown, n)]
  <2> HIDE DEF Step, N
  <2> QED  BY <1>4
<1>6. /\ grown[N] \in Whole(libraries) /\ Contents(grown[N]) = Contents(list) \cup new(N)
      /\ grown[N].first = list.first
  <2> DEFINE T == {n \in Nat : n <= N => /\ grown[n] \in Whole(libraries)
                                         /\ Contents(grown[n]) = Contents(list) \cup new(n)
                                         /\ grown[n].first = list.first}
  <2> HIDE DEF grown, S, N
  <2>1. 0 \in T
    <3>1. grown[0] = list
      BY <1>1, <1>5
    <3>2. new(0) = {}
      OBVIOUS
    <3> HIDE DEF new
    <3> QED  BY <1>1, <3>1, <3>2
  <2>2. ASSUME NEW n \in Nat, n \in T PROVE n + 1 \in T
    <3> SUFFICES ASSUME n + 1 <= N
                 PROVE  /\ grown[n + 1] \in Whole(libraries)
                        /\ Contents(grown[n + 1]) = Contents(list) \cup new(n + 1)
                        /\ grown[n + 1].first = list.first
      OBVIOUS
    <3>1. /\ grown[n] \in Whole(libraries) /\ Contents(grown[n]) = Contents(list) \cup new(n)
          /\ grown[n].first = list.first
      BY <1>1, <2>2
    <3>2. n + 1 \in 0..N /\ n + 1 \in 1..N /\ n + 1 # 0 /\ (n + 1) - 1 = n
      BY <1>1
    <3>3. grown[n + 1] = solist_add_soinfo(grown[n], opened[n + 1])
      BY <1>5, <3>2
    <3>4. new(n + 1) = new(n) \cup {opened[n + 1]}
      <4>1. 1..n + 1 = (1..n) \cup {n + 1}
        OBVIOUS
      <4> QED  BY <4>1
    <3>5. opened[n + 1] \notin new(n)
      <4>1. \A k \in 1..n : k \in 1..N /\ k # n + 1
        BY <1>1
      <4>2. \A i, j \in 1..N : opened[i] = opened[j] => i = j
        BY DEF N
      <4> QED  BY <3>2, <4>1, <4>2
    <3> HIDE DEF new
    <3>6. opened[n + 1] \in libraries \ Contents(grown[n])
      BY <1>1, <3>1, <3>2, <3>5
    <3> QED  BY <3>1, <3>3, <3>4, <3>6, AddOne
  <2> HIDE DEF T
  <2>3. N \in T
    BY <1>1, <2>1, <2>2, SetInduction
  <2> QED  BY <2>3 DEF T
<1>7. Open(list, opened) = grown[N]
  BY DEF Open
<1> HIDE DEF grown
<1> QED  BY <1>6, <1>7

=============================================================================
