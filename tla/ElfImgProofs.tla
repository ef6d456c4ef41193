------------------------------ MODULE ElfImgProofs ------------------------------
(***************************************************************************)
(* Proofs about the lookups of ElfImg, for tables of any size and any hash *)
(* function.  SoListProofs is extended for its lemmas on induction.        *)
(***************************************************************************)
EXTENDS ElfImg, SoListProofs, TLAPS

\* A remainder is a natural number.
LEMMA RemainderIsNat == ASSUME NEW a \in Nat, NEW d \in Nat \ {0} PROVE a % d \in Nat
OBVIOUS

\* The do loop gets to every symbol of the bucket before it meets an odd chain word.
LEMMA BucketWalked ==
  ASSUME NEW t, NEW syms, NEW H, GnuTable(t, syms, H), NEW n \in DOMAIN t.chain
  PROVE  n \in Walked(t, t.bucket[H[syms[n].name] % t.nbucket])
<1> DEFINE Bucket(k) == H[syms[k].name] % t.nbucket
           start == t.bucket[Bucket(n)]
<1>1. /\ DOMAIN t.chain \subseteq Nat /\ t.nbucket \in Nat \ {0}
      /\ \A k \in DOMAIN t.chain : H[syms[k].name] \in Nat
      /\ \A j, k \in DOMAIN t.chain : j < k => Bucket(j) <= Bucket(k)
      /\ \A k \in DOMAIN t.chain :
           (\E j \in DOMAIN t.chain : j > k /\ Bucket(j) = Bucket(k)) => t.chain[k] % 2 = 0
      /\ start \in DOMAIN t.chain /\ start <= n /\ Bucket(start) = Bucket(n)
  BY DEF GnuTable
<1>2. ASSUME NEW k \in DOMAIN t.chain PROVE Bucket(k) \in Nat
  BY <1>1, RemainderIsNat
<1> HIDE DEF Bucket
<1>3. ASSUME NEW m \in DOMAIN t.chain, start <= m, m < n PROVE t.chain[m] % 2 = 0
  <2>1. Bucket(start) <= Bucket(m)
    <3>1. CASE start = m
      BY <1>2, <3>1
    <3>2. CASE start # m
      BY <1>1, <1>3, <3>2
    <3> QED  BY <3>1, <3>2
  <2>2. Bucket(m) <= Bucket(n)
    BY <1>1, <1>3
  <2>3. Bucket(m) = Bucket(n)
    BY <1>1, <1>2, <2>1, <2>2
  <2>4. n > m
    BY <1>1, <1>3
  <2> QED  BY <1>1, <2>3, <2>4
<1>4. n >= start
  BY <1>1
<1> QED  BY <1>3, <1>4 DEF Walked, Bucket

\* In the table ld makes, GnuLookup finds what a search of all exported symbols finds: the
\* bloom filter, the bucket and the end of the chain hide no symbol, and a symbol that only
\* shares the bucket or the hash is not taken for another.
THEOREM GnuLookupFinds ==
  ASSUME NEW t, NEW syms, NEW H, GnuTable(t, syms, H), NEW name, H[name] \in Nat
  PROVE  GnuLookup(t, syms, name, H[name]) = ValueAt(syms, Exported(t, syms, name))
<1> DEFINE h     == H[name]
           start == t.bucket[h % t.nbucket]
           hits  == {n \in Walked(t, start) : t.chain[n] \div 2 = h \div 2 /\ syms[n].name = name}
           bits  == Mask(t, h) \subseteq t.bloom[(h \div t.bits) % t.bloomSize]
<1>1. GnuLookup(t, syms, name, h) = IF bits /\ start >= t.symndx THEN ValueAt(syms, hits) ELSE 0
  BY DEF GnuTable, GnuLookup
<1>2. CASE Exported(t, syms, name) = {}
  <2>1. hits = {}
    BY <1>2 DEF Exported, Walked
  <2>2. ValueAt(syms, hits) = 0 /\ ValueAt(syms, Exported(t, syms, name)) = 0
    BY <1>2, <2>1 DEF ValueAt
  <2> QED  BY <1>1, <2>2
<1>3. CASE Exported(t, syms, name) # {}
  <2>1. PICK n \in DOMAIN t.chain : syms[n].name = name
    BY <1>3 DEF Exported
  <2>2. bits /\ start \in DOMAIN t.chain /\ DOMAIN t.chain = {k \in DOMAIN syms : k >= t.symndx}
    BY <2>1 DEF GnuTable
  <2>3. start >= t.symndx
    BY <2>2
  <2>4. Exported(t, syms, name) = hits
    <3>1. ASSUME NEW k \in Exported(t, syms, name) PROVE k \in hits
      <4>1. k \in DOMAIN t.chain /\ syms[k].name = name
        BY DEF Exported
      <4>2. k \in Walked(t, start)
        BY <4>1, BucketWalked
      <4>3. t.chain[k] \div 2 = h \div 2
        BY <4>1 DEF GnuTable
      <4> QED  BY <4>1, <4>2, <4>3
    <3>2. hits \subseteq Exported(t, syms, name)
      BY DEF Exported, Walked
    <3> QED  BY <3>1, <3>2
  <2> QED  BY <1>1, <2>2, <2>3, <2>4
<1> QED  BY <1>2, <1>3

\* So a symbol that is exported is found there, whatever .hash and .symtab say.
THEOREM ExportedIsFound ==
  ASSUME NEW img, NEW tables, NEW H, img.gnuHash # None,
         GnuTable(tables[img.gnuHash], tables[img.dynsym], H),
         NEW name, H[name] \in Nat, NEW elfHash,
         ValueAt(tables[img.dynsym], Exported(tables[img.gnuHash], tables[img.dynsym], name)) > 0
  PROVE  getSymbOffset(img, tables, name, H[name], elfHash) =
           ValueAt(tables[img.dynsym], Exported(tables[img.gnuHash], tables[img.dynsym], name))
<1>1. GnuLookup(tables[img.gnuHash], tables[img.dynsym], name, H[name])
        = ValueAt(tables[img.dynsym], Exported(tables[img.gnuHash], tables[img.dynsym], name))
  BY GnuLookupFinds
<1> QED  BY <1>1 DEF getSymbOffset

\* And one that is not exported, like the linker's solist, is looked for in .symtab, if
\* there is no .hash.
THEOREM OtherwiseLinear ==
  ASSUME NEW img, NEW tables, NEW H, img.gnuHash # None, img.hash = None,
         img.symtab # None, img.symstr # None,
         GnuTable(tables[img.gnuHash], tables[img.dynsym], H),
         NEW name, H[name] \in Nat, NEW elfHash,
         Exported(tables[img.gnuHash], tables[img.dynsym], name) = {}
  PROVE  getSymbOffset(img, tables, name, H[name], elfHash)
           = LinearLookup(tables[img.symtab], name)
<1>1. GnuLookup(tables[img.gnuHash], tables[img.dynsym], name, H[name]) = 0
  <2>1. GnuLookup(tables[img.gnuHash], tables[img.dynsym], name, H[name])
          = ValueAt(tables[img.dynsym], Exported(tables[img.gnuHash], tables[img.dynsym], name))
    BY GnuLookupFinds
  <2> QED  BY <2>1 DEF ValueAt
<1> QED  BY <1>1 DEF getSymbOffset

\* A set of natural numbers that is not empty has a smallest element.
LEMMA Smallest ==
  ASSUME NEW S \in SUBSET Nat, S # {}
  PROVE  \E k \in S : \A j \in S : k <= j
<1> DEFINE T == {n \in Nat : \A k \in S : k <= n => \E l \in S : \A j \in S : l <= j}
<1>1. 0 \in T
  OBVIOUS
<1>2. ASSUME NEW n \in Nat, n \in T PROVE n + 1 \in T
  <2>1. SUFFICES ASSUME NEW k \in S, k <= n + 1 PROVE \E l \in S : \A j \in S : l <= j
    OBVIOUS
  <2>2. CASE \E i \in S : i <= n
    BY <1>2, <2>2
  <2>3. CASE \A i \in S : ~(i <= n)
    BY <2>1, <2>3
  <2> QED  BY <2>2, <2>3
<1> HIDE DEF T
<1>3. \A n \in Nat : n \in T
  BY <1>1, <1>2, SetInduction
<1>4. PICK n \in S : n \in Nat
  OBVIOUS
<1>5. n \in T /\ n <= n
  BY <1>3, <1>4
<1>6. \A k \in S : k <= n => \E l \in S : \A j \in S : l <= j
  BY <1>5 DEF T
<1> QED  BY <1>4, <1>5, <1>6

\* Whatever the order in which ld linked the symbols of a bucket, ElfLookup gives the value
\* of one with the name, or nothing if there is none: it goes through the whole list, and
\* ends.
THEOREM ElfLookupFinds ==
  ASSUME NEW t, NEW syms, NEW H, ElfTable(t, syms, H), NEW name, H[name] \in Nat,
         \A n \in DOMAIN syms \ {0} : H[syms[n].name] \in Nat
  PROVE  LET named == {n \in DOMAIN syms \ {0} : syms[n].name = name}
         IN IF named = {} THEN ElfLookup(t, syms, name, H[name]) = 0
            ELSE \E n \in named : ElfLookup(t, syms, name, H[name]) = syms[n].value
<1> DEFINE all  == DOMAIN syms \ {0}
           Bucket(n) == H[syms[n].name] % t.nbucket
           b    == H[name] % t.nbucket
           Step(f, k) == IF k = 0 THEN t.bucket[b] ELSE IF f[k - 1] = 0 THEN 0 ELSE t.chain[f[k - 1]]
           at   == CHOOSE f : f = [k \in Nat |-> Step(f, k)]
           steps == {k \in 0..Cardinality(DOMAIN t.chain) : at[k] # 0 /\ syms[at[k]].name = name}
           first == CHOOSE k \in steps : \A j \in steps : k <= j
           value == IF steps = {} THEN 0 ELSE syms[at[first]].value
           hits == {n \in all : syms[n].name = name}
<1>1. /\ t.nbucket \in Nat \ {0} /\ DOMAIN t.chain = DOMAIN syms /\ IsFiniteSet(DOMAIN syms)
      /\ all \subseteq Nat \ {0}
  BY DEF ElfTable
<1>2. b \in 0..t.nbucket - 1
  BY <1>1
<1>3. PICK place \in [all -> 0..Cardinality(all) - 1] :
        /\ \A m, n \in all : Bucket(m) = Bucket(n) /\ place[m] = place[n] => m = n
        /\ \A n \in all : \/ place[n] = 0 /\ t.bucket[Bucket(n)] = n
                          \/ \E m \in all : /\ Bucket(m) = Bucket(n) /\ place[n] = place[m] + 1
                                            /\ t.chain[m] = n
        /\ \A c \in 0..t.nbucket - 1 : t.bucket[c] # 0 =>
             t.bucket[c] \in all /\ Bucket(t.bucket[c]) = c /\ place[t.bucket[c]] = 0
        /\ \A m \in all : t.chain[m] # 0 =>
             /\ t.chain[m] \in all /\ Bucket(t.chain[m]) = Bucket(m)
             /\ place[t.chain[m]] = place[m] + 1
  BY DEF ElfTable
<1>4. ElfLookup(t, syms, name, H[name]) = value
  BY <1>1 DEF ElfLookup
<1>5. \A n \in hits : Bucket(n) = b
  OBVIOUS
<1>6. Cardinality(all) \in Nat /\ Cardinality(all) <= Cardinality(DOMAIN t.chain)
      /\ Cardinality(DOMAIN t.chain) \in Nat
  <2>1. all \subseteq DOMAIN syms
    OBVIOUS
  <2> HIDE DEF all
  <2> QED  BY <1>1, <2>1, FS_Subset, FS_CardinalityType
<1>7. \A n \in all : place[n] \in Nat /\ place[n] \in 0..Cardinality(DOMAIN t.chain)
  <2> HIDE DEF all
  <2> QED  BY <1>3, <1>6
<1> HIDE DEF all, Bucket, b
<1> DEFINE In(n, k) == n \in all /\ Bucket(n) = b /\ place[n] = k
           g == [k \in Nat |-> IF \E n : In(n, k) THEN CHOOSE n : In(n, k) ELSE 0]
<1>8. ASSUME NEW n, NEW k \in Nat, In(n, k) PROVE g[k] = n
  <2>1. \A m : In(m, k) => m = n
    BY <1>3, <1>8
  <2> HIDE DEF In
  <2> QED  BY <1>8, <2>1
<1>9. ASSUME NEW k \in Nat, \A n : ~In(n, k) PROVE g[k] = 0
  BY <1>9
<1>10. ASSUME NEW k \in Nat PROVE g[k] # 0 <=> In(g[k], k)
  <2>1. \A n : In(n, k) => n # 0
    BY <1>1
  <2>2. CASE \E n : In(n, k)
    BY <1>8, <2>1, <2>2
  <2>3. CASE \A n : ~In(n, k)
    BY <1>9, <2>1, <2>3
  <2> QED  BY <2>2, <2>3
<1> HIDE DEF g
<1>11. ASSUME NEW k \in Nat, NEW f, k # 0 => f[k - 1] = g[k - 1] PROVE Step(f, k) = g[k]
  <2>1. CASE k = 0
    <3>1. CASE t.bucket[b] # 0
      BY <1>2, <1>3, <1>8, <2>1, <3>1
    <3>2. CASE t.bucket[b] = 0
      <4>1. ASSUME NEW n, In(n, 0) PROVE FALSE
        BY <1>1, <1>3, <1>7, <3>2, <4>1
      <4>2. g[0] = 0
        BY <1>9, <4>1
      <4> QED  BY <2>1, <3>2, <4>2
    <3> QED  BY <3>1, <3>2
  <2>2. CASE k # 0
    <3>1. k - 1 \in Nat /\ f[k - 1] = g[k - 1] /\ k = (k - 1) + 1
      BY <1>11, <2>2
    <3>2. ASSUME NEW n, In(n, k) PROVE \E m \in all : In(m, k - 1) /\ t.chain[m] = n
      <4>1. n \in all /\ Bucket(n) = b /\ place[n] = k
        BY <3>2
      <4>2. PICK m \in all : Bucket(m) = Bucket(n) /\ place[n] = place[m] + 1 /\ t.chain[m] = n
        BY <1>3, <2>2, <4>1
      <4> QED  BY <1>7, <3>1, <4>1, <4>2
    <3>3. CASE g[k - 1] = 0
      <4>1. \A m : ~In(m, k - 1)
        BY <1>1, <1>8, <3>1, <3>3
      <4>2. g[k] = 0
        BY <1>9, <3>2, <4>1
      <4> QED  BY <2>2, <3>1, <3>3, <4>2
    <3>4. CASE g[k - 1] # 0
      <4> DEFINE m == g[k - 1]
      <4>1. In(m, k - 1)
        BY <1>10, <3>1, <3>4
      <4>2. Step(f, k) = t.chain[m]
        BY <2>2, <3>1, <3>4
      <4> HIDE DEF m
      <4>3. CASE t.chain[m] # 0
        <5>1. In(t.chain[m], k)
          BY <1>3, <3>1, <4>1, <4>3
        <5> QED  BY <1>8, <4>2, <5>1
      <4>4. CASE t.chain[m] = 0
        <5>1. ASSUME NEW n, In(n, k) PROVE FALSE
          <6>1. PICK l \in all : In(l, k - 1) /\ t.chain[l] = n
            BY <3>2, <5>1
          <6>2. l = m
            BY <1>3, <4>1, <6>1
          <6> QED  BY <1>1, <4>4, <5>1, <6>1, <6>2
        <5> QED  BY <1>9, <4>2, <4>4, <5>1
      <4> QED  BY <4>3, <4>4
    <3> QED  BY <3>3, <3>4
  <2> QED  BY <2>1, <2>2
<1> HIDE DEF In
<1>12. at = [k \in Nat |-> Step(at, k)]
  <2>1. \A k \in Nat : g[k] = Step(g, k)
    BY <1>11
  <2>2. g = [k \in Nat |-> Step(g, k)]
    <3> HIDE DEF Step
    <3> QED  BY <2>1 DEF g
  <2> HIDE DEF Step
  <2> QED  BY <2>2
<1>13. \A k \in Nat : at[k] = g[k]
  <2> DEFINE T == {k \in Nat : at[k] = g[k]}
  <2> HIDE DEF at
  <2>1. 0 \in T
    <3>1. at[0] = Step(at, 0)
      BY <1>12
    <3>2. Step(at, 0) = g[0]
      BY <1>11
    <3> QED  BY <3>1, <3>2
  <2>2. ASSUME NEW k \in Nat, k \in T PROVE k + 1 \in T
    <3>1. k + 1 \in Nat /\ (k + 1) - 1 = k
      OBVIOUS
    <3> HIDE DEF Step
    <3>2. at[k + 1] = Step(at, k + 1)
      BY <1>12, <3>1
    <3>3. Step(at, k + 1) = g[k + 1]
      BY <1>11, <2>2, <3>1
    <3> QED  BY <3>1, <3>2, <3>3
  <2> HIDE DEF T
  <2>3. \A k \in Nat : k \in T
    BY <2>1, <2>2, SetInduction
  <2> QED  BY <2>3 DEF T
<1> HIDE DEF at
<1>14. \A k \in steps : k \in Nat /\ at[k] \in hits
  BY <1>6, <1>10, <1>13 DEF In
<1>15. CASE hits = {}
  <2>1. steps = {}
    BY <1>14, <1>15
  <2> QED  BY <1>4, <1>15, <2>1 DEF all
<1>16. CASE hits # {}
  <2>1. PICK n \in hits : TRUE
    BY <1>16
  <2>2. place[n] \in steps
    <3>1. In(n, place[n]) /\ place[n] \in Nat
      BY <1>5, <1>7, <2>1 DEF In
    <3>2. at[place[n]] = n
      BY <1>8, <1>13, <3>1
    <3> QED  BY <1>1, <1>7, <2>1, <3>2
  <2>3. first \in steps
    <3>1. steps \in SUBSET Nat /\ steps # {}
      BY <1>14, <2>2
    <3> HIDE DEF steps
    <3> QED  BY <3>1, Smallest
  <2>4. at[first] \in hits
    BY <1>14, <2>3
  <2>5. value = syms[at[first]].value
    BY <2>3
  <2> HIDE DEF first, steps, value
  <2> QED  BY <1>4, <1>16, <2>4, <2>5 DEF all
<1> QED  BY <1>15, <1>16

-----------------------------------------------------------------------------
(* The loop over the sections. *)

\* The sections of a type among the first k; the PROGBITS sections that may set the bias.
OfType(file, type, k) == {j \in 1..k : file[j].type = type}
Named(file, type, name, k) == {j \in 1..k : file[j].type = type /\ file[j].name = name}
SetsBias(file, k) ==
  {i \in OfType(file, "PROGBITS", k) : OfType(file, "DYNSYM", i) # {} /\ OfType(file, "STRTAB", i) # {}}

\* i is the last one of S, or None.
IsLast(S, i) == IF S = {} THEN i = None ELSE i \in S /\ \A j \in S : j <= i

Imgs(file) ==
  [dynsym : Nat, strtab : Nat, symtab : Nat, symstr : Nat, hash : Nat, gnuHash : Nat,
   bias : {NoBias} \cup {file[i].bias : i \in 1..Len(file)}]

\* What img has of the first k sections: .dynsym and .dynstr are the last ones of their type
\* before the section that sets the bias, the others the last ones of all.
HasRead(file, k, img) ==
  /\ \/ /\ SetsBias(file, k) = {} /\ img.bias = NoBias
        /\ IsLast(OfType(file, "DYNSYM", k), img.dynsym)
        /\ IsLast(OfType(file, "STRTAB", k), img.strtab)
     \/ \E i \in SetsBias(file, k) :
          /\ \A j \in SetsBias(file, k) : i <= j
          /\ img.bias = file[i].bias
          /\ IsLast(OfType(file, "DYNSYM", i), img.dynsym)
          /\ IsLast(OfType(file, "STRTAB", i), img.strtab)
  /\ IsLast(Named(file, "SYMTAB", ".symtab", k), img.symtab)
  /\ IsLast(Named(file, "STRTAB", ".strtab", k), img.symstr)
  /\ IsLast(OfType(file, "HASH", k), img.hash)
  /\ IsLast(OfType(file, "GNU_HASH", k), img.gnuHash)

\* The next section becomes the last one.
LEMMA LastGrows ==
  ASSUME NEW k \in Nat, NEW S \in SUBSET (1..k) PROVE IsLast(S \cup {k + 1}, k + 1)
BY DEF IsLast

\* One more section: the sets grow by it if it is of their kind.
LEMMA OneMore ==
  ASSUME NEW file, NEW k \in Nat
  PROVE  /\ \A type : OfType(file, type, k) \subseteq 1..k
         /\ \A type, name : Named(file, type, name, k) \subseteq 1..k
         /\ \A type : OfType(file, type, k + 1) =
              IF file[k + 1].type = type THEN OfType(file, type, k) \cup {k + 1} ELSE OfType(file, type, k)
         /\ \A type, name : Named(file, type, name, k + 1) =
              IF file[k + 1].type = type /\ file[k + 1].name = name
              THEN Named(file, type, name, k) \cup {k + 1} ELSE Named(file, type, name, k)
         /\ SetsBias(file, k) \subseteq 1..k
         /\ SetsBias(file, k + 1) =
              IF /\ file[k + 1].type = "PROGBITS"
                 /\ OfType(file, "DYNSYM", k + 1) # {} /\ OfType(file, "STRTAB", k + 1) # {}
              THEN SetsBias(file, k) \cup {k + 1} ELSE SetsBias(file, k)
<1>1. 1..k + 1 = (1..k) \cup {k + 1}
  OBVIOUS
<1>2. /\ \A type : OfType(file, type, k) \subseteq 1..k
      /\ \A type, name : Named(file, type, name, k) \subseteq 1..k
  BY DEF OfType, Named
<1>3. \A type : OfType(file, type, k + 1) =
        IF file[k + 1].type = type THEN OfType(file, type, k) \cup {k + 1} ELSE OfType(file, type, k)
  BY <1>1 DEF OfType
<1>4. \A type, name : Named(file, type, name, k + 1) =
        IF file[k + 1].type = type /\ file[k + 1].name = name
        THEN Named(file, type, name, k) \cup {k + 1} ELSE Named(file, type, name, k)
  BY <1>1 DEF Named
<1>5. SetsBias(file, k) \subseteq 1..k
  BY <1>2 DEF SetsBias
<1>6. SetsBias(file, k + 1) =
        IF /\ file[k + 1].type = "PROGBITS"
           /\ OfType(file, "DYNSYM", k + 1) # {} /\ OfType(file, "STRTAB", k + 1) # {}
        THEN SetsBias(file, k) \cup {k + 1} ELSE SetsBias(file, k)
  BY <1>3 DEF SetsBias
<1> QED  BY <1>2, <1>3, <1>4, <1>5, <1>6

\* A field that is set at each section of a kind has the last one.
LEMMA LastRead ==
  ASSUME NEW file, NEW k \in Nat, NEW i, NEW type, NEW name
  PROVE  /\ IsLast(OfType(file, type, k), i) =>
              IsLast(OfType(file, type, k + 1), IF file[k + 1].type = type THEN k + 1 ELSE i)
         /\ IsLast(Named(file, type, name, k), i) =>
              IsLast(Named(file, type, name, k + 1),
                     IF file[k + 1].type = type /\ file[k + 1].name = name THEN k + 1 ELSE i)
<1>1. ASSUME IsLast(OfType(file, type, k), i)
      PROVE  IsLast(OfType(file, type, k + 1), IF file[k + 1].type = type THEN k + 1 ELSE i)
  <2>1. CASE file[k + 1].type = type
    <3>1. /\ OfType(file, type, k + 1) = OfType(file, type, k) \cup {k + 1}
          /\ OfType(file, type, k) \in SUBSET (1..k)
      BY <2>1, OneMore
    <3> QED  BY <2>1, <3>1, LastGrows
  <2>2. CASE file[k + 1].type # type
    BY <1>1, <2>2, OneMore
  <2> QED  BY <2>1, <2>2
<1>2. ASSUME IsLast(Named(file, type, name, k), i)
      PROVE  IsLast(Named(file, type, name, k + 1),
                    IF file[k + 1].type = type /\ file[k + 1].name = name THEN k + 1 ELSE i)
  <2>1. CASE file[k + 1].type = type /\ file[k + 1].name = name
    <3>1. /\ Named(file, type, name, k + 1) = Named(file, type, name, k) \cup {k + 1}
          /\ Named(file, type, name, k) \in SUBSET (1..k)
      BY <2>1, OneMore
    <3> QED  BY <2>1, <3>1, LastGrows
  <2>2. CASE ~(file[k + 1].type = type /\ file[k + 1].name = name)
    BY <1>2, <2>2, OneMore
  <2> QED  BY <2>1, <2>2
<1> QED  BY <1>1, <1>2

\* The fields keep their types.
LEMMA ReadSectionTypes ==
  ASSUME NEW file, NEW i \in 1..Len(file), Len(file) \in Nat, NEW img \in Imgs(file)
  PROVE  ReadSection(img, i, file[i]) \in Imgs(file)
<1>1. i \in Nat /\ file[i].bias \in {file[j].bias : j \in 1..Len(file)}
  OBVIOUS
<1> QED  BY <1>1 DEF ReadSection, Imgs

\* One section read.
LEMMA ReadSectionStep ==
  ASSUME NEW file, \A i \in 1..Len(file) : file[i].bias # NoBias, Len(file) \in Nat,
         NEW k \in Nat, k + 1 <= Len(file), NEW img \in Imgs(file), HasRead(file, k, img)
  PROVE  HasRead(file, k + 1, ReadSection(img, k + 1, file[k + 1]))
<1> DEFINE s    == file[k + 1]
           new  == ReadSection(img, k + 1, s)
           free == img.bias = NoBias
           sets == s.type = "PROGBITS" /\ img.strtab # None /\ img.dynsym # None /\ free
<1>1. k + 1 \in 1..Len(file) /\ k + 1 # None /\ \A i \in 1..k : i # None /\ i \in 1..Len(file)
  BY DEF None
<1>2. /\ new.dynsym = IF s.type = "DYNSYM" /\ free THEN k + 1 ELSE img.dynsym
      /\ new.strtab = IF s.type = "STRTAB" /\ free THEN k + 1 ELSE img.strtab
      /\ new.symtab = IF s.type = "SYMTAB" /\ s.name = ".symtab" THEN k + 1 ELSE img.symtab
      /\ new.symstr = IF s.type = "STRTAB" /\ s.name = ".strtab" THEN k + 1 ELSE img.symstr
      /\ new.hash = IF s.type = "HASH" THEN k + 1 ELSE img.hash
      /\ new.gnuHash = IF s.type = "GNU_HASH" THEN k + 1 ELSE img.gnuHash
      /\ new.bias = IF sets THEN s.bias ELSE img.bias
  BY DEF ReadSection, Imgs
<1> SUFFICES HasRead(file, k + 1, new)
  OBVIOUS
<1> HIDE DEF new
<1>3. /\ IsLast(Named(file, "SYMTAB", ".symtab", k + 1), new.symtab)
      /\ IsLast(Named(file, "STRTAB", ".strtab", k + 1), new.symstr)
      /\ IsLast(OfType(file, "HASH", k + 1), new.hash)
      /\ IsLast(OfType(file, "GNU_HASH", k + 1), new.gnuHash)
  <2>1. /\ IsLast(Named(file, "SYMTAB", ".symtab", k), img.symtab)
        /\ IsLast(Named(file, "STRTAB", ".strtab", k), img.symstr)
        /\ IsLast(OfType(file, "HASH", k), img.hash)
        /\ IsLast(OfType(file, "GNU_HASH", k), img.gnuHash)
    BY DEF HasRead
  <2>2. IsLast(Named(file, "SYMTAB", ".symtab", k + 1), new.symtab)
    <3>1. IsLast(Named(file, "SYMTAB", ".symtab", k + 1),
                 IF s.type = "SYMTAB" /\ s.name = ".symtab" THEN k + 1 ELSE img.symtab)
      BY <2>1, LastRead
    <3> QED  BY <1>2, <3>1
  <2>3. IsLast(Named(file, "STRTAB", ".strtab", k + 1), new.symstr)
    <3>1. IsLast(Named(file, "STRTAB", ".strtab", k + 1),
                 IF s.type = "STRTAB" /\ s.name = ".strtab" THEN k + 1 ELSE img.symstr)
      BY <2>1, LastRead
    <3> QED  BY <1>2, <3>1
  <2>4. IsLast(OfType(file, "HASH", k + 1), new.hash)
    BY <1>2, <2>1, LastRead
  <2>5. IsLast(OfType(file, "GNU_HASH", k + 1), new.gnuHash)
    BY <1>2, <2>1, LastRead
  <2> QED  BY <2>2, <2>3, <2>4, <2>5
<1>4. CASE ~free
  <2>1. PICK i \in SetsBias(file, k) :
          /\ \A j \in SetsBias(file, k) : i <= j
          /\ img.bias = file[i].bias
          /\ IsLast(OfType(file, "DYNSYM", i), img.dynsym)
          /\ IsLast(OfType(file, "STRTAB", i), img.strtab)
    BY <1>4 DEF HasRead
  <2>2. i \in SetsBias(file, k + 1) /\ \A j \in SetsBias(file, k + 1) : i <= j
    <3>1. SetsBias(file, k) \subseteq 1..k
          /\ SetsBias(file, k + 1) \in {SetsBias(file, k), SetsBias(file, k) \cup {k + 1}}
      BY OneMore
    <3> QED  BY <2>1, <3>1
  <2>3. new.bias = img.bias /\ new.dynsym = img.dynsym /\ new.strtab = img.strtab
    BY <1>2, <1>4
  <2> QED  BY <1>3, <2>1, <2>2, <2>3 DEF HasRead
<1>5. CASE free
  <2>1. /\ SetsBias(file, k) = {}
        /\ IsLast(OfType(file, "DYNSYM", k), img.dynsym)
        /\ IsLast(OfType(file, "STRTAB", k), img.strtab)
    BY <1>1, <1>5, OneMore DEF HasRead
  <2>2. /\ IsLast(OfType(file, "DYNSYM", k + 1), new.dynsym)
        /\ IsLast(OfType(file, "STRTAB", k + 1), new.strtab)
    BY <1>2, <1>5, <2>1, LastRead
  <2>3. s.type = "PROGBITS" =>
          /\ OfType(file, "DYNSYM", k + 1) # {} <=> img.dynsym # None
          /\ OfType(file, "STRTAB", k + 1) # {} <=> img.strtab # None
    <3>1. \A S \in SUBSET (1..k) : \A i : IsLast(S, i) => (S # {} <=> i # None)
      BY <1>1 DEF IsLast
    <3>2. s.type = "PROGBITS" => /\ OfType(file, "DYNSYM", k + 1) = OfType(file, "DYNSYM", k)
                                 /\ OfType(file, "STRTAB", k + 1) = OfType(file, "STRTAB", k)
      BY OneMore
    <3> QED  BY <2>1, <3>1, <3>2, OneMore
  <2>4. CASE sets
    <3>1. SetsBias(file, k + 1) = {k + 1}
      BY <2>1, <2>3, <2>4, OneMore
    <3>2. new.bias = s.bias
      BY <1>2, <2>4
    <3> QED  BY <1>3, <2>2, <3>1, <3>2 DEF HasRead
  <2>5. CASE ~sets
    <3>1. SetsBias(file, k + 1) = {}
      BY <1>5, <2>1, <2>3, <2>5, OneMore
    <3>2. new.bias = NoBias
      BY <1>2, <1>5, <2>5
    <3> QED  BY <1>3, <2>2, <3>1, <3>2 DEF HasRead
  <2> QED  BY <2>4, <2>5
<1> QED  BY <1>4, <1>5

\* Whatever sections a file has, in whatever order, the loop of ElfImg takes what HasRead
\* says, if no section has the bias that stands for none yet.
THEOREM SectionsAreRead ==
  ASSUME NEW S, NEW file \in Seq(S), \A i \in 1..Len(file) : file[i].bias # NoBias
  PROVE  HasRead(file, Len(file), ReadSections(file))
<1> DEFINE N    == Len(file)
           I    == Imgs(file)
           Step(f, n) == IF n = 0 THEN Unread ELSE ReadSection(f[n - 1], n, file[n])
           read == CHOOSE f : f = [n \in 0..N |-> Step(f, n)]
           G    == [p \in I \X (1..N) |-> ReadSection(p[1], p[2], file[p[2]])]
<1>1. N \in Nat /\ Unread \in I
  BY DEF Unread, Imgs, None
<1>2. ASSUME NEW img \in I, NEW n \in 1..N PROVE ReadSection(img, n, file[n]) \in I
  BY <1>1, ReadSectionTypes
<1>3. PICK f \in [0..N -> I] : Iterates(f, N, Unread, G)
  <2>1. G \in [I \X (1..N) -> I]
    <3> HIDE DEF I, N
    <3> QED  BY <1>2
  <2>2. N \in Nat /\ Unread \in I
    BY <1>1
  <2> HIDE DEF I, N, G
  <2> QED  BY <2>1, <2>2, Recursion
<1>4. f = [n \in 0..N |-> Step(f, n)]
  <2> HIDE DEF I, N
  <2>1. ASSUME NEW n \in 0..N PROVE f[n] = Step(f, n)
    <3>1. CASE n = 0
      BY <1>3, <3>1 DEF Iterates
    <3>2. CASE n # 0
      <4>1. n \in 1..N /\ n - 1 \in 0..N
        BY <1>1, <3>2
      <4>2. f[n - 1] \in I
        BY <1>3, <4>1
      <4>3. f[n] = G[<<f[n - 1], n>>]
        BY <1>3, <4>1 DEF Iterates
      <4> QED  BY <3>2, <4>1, <4>2, <4>3
    <3> QED  BY <3>1, <3>2
  <2> HIDE DEF Step
  <2> QED  BY <1>3, <2>1
<1>5. read = [n \in 0..N |-> Step(read, n)]
  <2> HIDE DEF Step, N
  <2> QED  BY <1>4
<1>6. read[N] \in I /\ HasRead(file, N, read[N])
  <2> DEFINE T == {n \in Nat : n <= N => read[n] \in I /\ HasRead(file, n, read[n])}
  <2> HIDE DEF read, I, N
  <2>1. 0 \in T
    <3>1. read[0] = Unread
      BY <1>1, <1>5
    <3>2. HasRead(file, 0, Unread)
      BY DEF HasRead, Unread, IsLast, OfType, Named, SetsBias
    <3> QED  BY <1>1, <3>1, <3>2
  <2>2. ASSUME NEW n \in Nat, n \in T PROVE n + 1 \in T
    <3> SUFFICES ASSUME n + 1 <= N PROVE read[n + 1] \in I /\ HasRead(file, n + 1, read[n + 1])
      OBVIOUS
    <3>1. read[n] \in I /\ HasRead(file, n, read[n])
      BY <1>1, <2>2
    <3>2. n + 1 \in 0..N /\ n + 1 \in 1..N /\ n + 1 # 0 /\ (n + 1) - 1 = n
      BY <1>1
    <3>3. read[n + 1] = ReadSection(read[n], n + 1, file[n + 1])
      BY <1>5, <3>2
    <3>4. HasRead(file, n + 1, ReadSection(read[n], n + 1, file[n + 1]))
      <4>1. n + 1 <= Len(file) /\ Len(file) \in Nat /\ read[n] \in Imgs(file)
        BY <1>1, <3>1 DEF N, I
      <4> QED  BY <3>1, <4>1, ReadSectionStep
    <3> QED  BY <1>2, <3>1, <3>2, <3>3, <3>4
  <2> HIDE DEF T
  <2>3. N \in T
    BY <1>1, <2>1, <2>2, SetInduction
  <2> QED  BY <1>1, <2>3 DEF T
<1>7. ReadSections(file) = read[N]
  BY DEF ReadSections
<1> HIDE DEF read
<1> QED  BY <1>6, <1>7

\* So in a file as ld lays it out, where up to the first PROGBITS section after both .dynsym
\* and .dynstr there is no other table of their types, ElfImg has both, and the bias of that
\* section.
THEOREM LdLayoutIsRead ==
  ASSUME NEW S, NEW file \in Seq(S), \A i \in 1..Len(file) : file[i].bias # NoBias,
         NEW d \in Nat, NEW s \in Nat, NEW p \in 1..Len(file), file[p].type = "PROGBITS",
         OfType(file, "DYNSYM", p) = {d}, OfType(file, "STRTAB", p) = {s},
         \A j \in 1..p - 1 : file[j].type = "PROGBITS" => j < d \/ j < s
  PROVE  LET img == ReadSections(file)
         IN img.dynsym = d /\ img.strtab = s /\ img.bias = file[p].bias
<1> DEFINE img == ReadSections(file)
           n   == Len(file)
<1>1. n \in Nat
  OBVIOUS
<1>2. p \in SetsBias(file, n)
  BY <1>1 DEF SetsBias, OfType
<1>3. ASSUME NEW j \in SetsBias(file, n), j < p PROVE FALSE
  <2>1. j \in 1..p - 1 /\ file[j].type = "PROGBITS"
    BY <1>1, <1>3 DEF SetsBias, OfType
  <2>2. OfType(file, "DYNSYM", j) # {} /\ OfType(file, "STRTAB", j) # {}
    BY DEF SetsBias
  <2>3. /\ OfType(file, "DYNSYM", j) \subseteq OfType(file, "DYNSYM", p)
        /\ OfType(file, "STRTAB", j) \subseteq OfType(file, "STRTAB", p)
    BY <2>1 DEF OfType
  <2>4. d \in OfType(file, "DYNSYM", j) /\ s \in OfType(file, "STRTAB", j)
    BY <2>2, <2>3
  <2>5. d <= j /\ s <= j
    BY <2>4 DEF OfType
  <2> QED  BY <2>1, <2>5
<1>4. HasRead(file, n, img)
  BY SectionsAreRead
<1> HIDE DEF img
<1>5. /\ img.bias = file[p].bias
      /\ IsLast(OfType(file, "DYNSYM", p), img.dynsym) /\ IsLast(OfType(file, "STRTAB", p), img.strtab)
  <2>1. PICK i \in SetsBias(file, n) :
          /\ \A j \in SetsBias(file, n) : i <= j
          /\ img.bias = file[i].bias
          /\ IsLast(OfType(file, "DYNSYM", i), img.dynsym)
          /\ IsLast(OfType(file, "STRTAB", i), img.strtab)
    BY <1>2, <1>4 DEF HasRead
  <2>2. i \in 1..n
    BY DEF SetsBias, OfType
  <2>3. i = p
    BY <1>1, <1>2, <1>3, <2>1, <2>2
  <2> QED  BY <2>1, <2>3
<1> QED  BY <1>5 DEF IsLast, img
=============================================================================
