-------------------------------- MODULE ElfImg --------------------------------
(***************************************************************************)
(* SandHook::ElfImg (elf_util.cpp, elf_util.h): the address of a symbol of *)
(* a library of this process, whether exported or not.  InstallHooks finds *)
(* two functions of libart with it, hide_utils the list of the linker.     *)
(*                                                                         *)
(* The file is read, never written: these are functions of its sections    *)
(* and tables, which the linker (ld) built.  A hash is a number given with *)
(* the name.                                                               *)
(***************************************************************************)
EXTENDS Integers, Sequences, FiniteSets

NoBias == -4396  \* bias until a section sets it
None   == 0      \* no section, no address

-----------------------------------------------------------------------------
(* The maps and the sections. *)

\* A line of /proc/self/maps: whether it is r-xp or r--p and holds the base name, whether
\* it ends in an absolute path, and its address.
findModuleBase(lines) ==
  LET found == {i \in DOMAIN lines : lines[i].readable /\ lines[i].named /\ lines[i].absolute}
  IN IF found = {} THEN None
     ELSE lines[CHOOSE i \in found : \A j \in found : i <= j].address

\* The fields of ElfImg: the sections that have the tables.
Unread == [dynsym |-> None, strtab |-> None, symtab |-> None, symstr |-> None,
           hash |-> None, gnuHash |-> None, bias |-> NoBias]

\* The loop over the sections at the i-th, s: sh_type, name, and bias, sh_addr - sh_offset.
ReadSection(img, i, s) ==
  CASE s.type = "DYNSYM" /\ img.bias = NoBias -> [img EXCEPT !.dynsym = i]
    [] s.type = "SYMTAB" /\ s.name = ".symtab" -> [img EXCEPT !.symtab = i]
    [] s.type = "STRTAB" ->
         [img EXCEPT !.strtab = IF img.bias = NoBias THEN i ELSE @,
                     !.symstr = IF s.name = ".strtab" THEN i ELSE @]
    [] s.type = "PROGBITS" /\ img.strtab # None /\ img.dynsym # None /\ img.bias = NoBias ->
         [img EXCEPT !.bias = s.bias]
    [] s.type = "HASH" -> [img EXCEPT !.hash = i]
    [] s.type = "GNU_HASH" -> [img EXCEPT !.gnuHash = i]
    [] OTHER -> img

\* ElfImg: the fields once all sections were read.
ReadSections(sections) ==
  LET read[i \in 0..Len(sections)] ==
        IF i = 0 THEN Unread ELSE ReadSection(read[i - 1], i, sections[i])
  IN read[Len(sections)]

-----------------------------------------------------------------------------
(* The lookups.  dynsym and symtab: the symbols, from index 0 on, as functions to records *)
(* of name, value, and whether it is a function or an object with a size.                  *)

\* The value of the first symbol among the indices hits.
ValueAt(syms, hits) ==
  IF hits = {} THEN 0 ELSE syms[CHOOSE n \in hits : \A m \in hits : n <= m].value

\* A bloom word is the set of its bits; t.bits: bloom_mask_bits.
Mask(t, hash) == {hash % t.bits, (hash \div t.shift2) % t.bits}   \* shift2: 2^gnu_shift2_

\* The indices the do loop gets to if it does not return: up to the first odd chain word.
Walked(t, start) == {n \in DOMAIN t.chain :
                       n >= start /\ \A m \in DOMAIN t.chain : start <= m /\ m < n => t.chain[m] % 2 = 0}

\* t: the table .gnu.hash; its bloom words have 32 or 64 bits; its chain has a word for every symbol from symndx on.
GnuLookup(t, dynsym, name, hash) ==
  IF t.nbucket = 0 \/ t.bloomSize = 0 THEN 0
  ELSE LET start == t.bucket[hash % t.nbucket]
       IN IF Mask(t, hash) \subseteq t.bloom[(hash \div t.bits) % t.bloomSize] /\ start >= t.symndx
          THEN ValueAt(dynsym, {n \in Walked(t, start) :
                                  t.chain[n] \div 2 = hash \div 2 /\ dynsym[n].name = name})
          ELSE 0

\* t: the table .hash; its chains are linked, and end with 0.
ElfLookup(t, dynsym, name, hash) ==
  IF t.nbucket = 0 THEN 0
  ELSE LET at[k \in Nat] == IF k = 0 THEN t.bucket[hash % t.nbucket]
                            ELSE IF at[k - 1] = 0 THEN 0 ELSE t.chain[at[k - 1]]
           steps == {k \in 0..Cardinality(DOMAIN t.chain) : at[k] # 0 /\ dynsym[at[k]].name = name}
       IN IF steps = {} THEN 0
          ELSE dynsym[at[CHOOSE k \in steps : \A j \in steps : k <= j]].value

\* symtabs_ keeps the first symbol of a name.
LinearLookup(symtab, name) ==
  ValueAt(symtab, {n \in DOMAIN symtab : symtab[n].code /\ symtab[n].name = name})

\* The first lookup that gives an offset; tables: what the sections hold.
getSymbOffset(img, tables, name, gnuHash, elfHash) ==
  LET gnu == IF img.gnuHash = None THEN 0
             ELSE GnuLookup(tables[img.gnuHash], tables[img.dynsym], name, gnuHash)
      elf == IF img.hash = None THEN 0
             ELSE ElfLookup(tables[img.hash], tables[img.dynsym], name, elfHash)
      linear == IF img.symtab = None \/ img.symstr = None THEN 0
                ELSE LinearLookup(tables[img.symtab], name)
  IN IF gnu > 0 THEN gnu ELSE IF elf > 0 THEN elf ELSE linear

getSymbAddress(img, base, tables, name, gnuHash, elfHash) ==
  LET offset == getSymbOffset(img, tables, name, gnuHash, elfHash)
  IN IF offset > 0 /\ base # None THEN base + offset - img.bias ELSE 0

-----------------------------------------------------------------------------
(* What ld promises. *)

Exported(t, syms, name) == {n \in DOMAIN t.chain : syms[n].name = name}

\* .gnu.hash: the symbols from symndx on, sorted by bucket; H[name] is the hash.
GnuTable(t, syms, H) ==
  LET Bucket(n) == H[syms[n].name] % t.nbucket
  IN /\ t.bits \in {32, 64}
     /\ t.nbucket \in Nat \ {0} /\ t.bloomSize \in Nat \ {0} /\ t.symndx \in Nat \ {0}
     /\ DOMAIN syms \subseteq Nat /\ DOMAIN t.chain = {n \in DOMAIN syms : n >= t.symndx}
     /\ \A n \in DOMAIN t.chain :
          LET h == H[syms[n].name]
          IN /\ h \in Nat
             /\ Mask(t, h) \subseteq t.bloom[(h \div t.bits) % t.bloomSize]
             /\ t.chain[n] \div 2 = h \div 2
             /\ t.chain[n] % 2 = IF \E m \in DOMAIN t.chain : m > n /\ Bucket(m) = Bucket(n)
                                 THEN 0 ELSE 1
             /\ t.bucket[Bucket(n)] \in DOMAIN t.chain /\ t.bucket[Bucket(n)] <= n
             /\ Bucket(t.bucket[Bucket(n)]) = Bucket(n)
     /\ \A m, n \in DOMAIN t.chain : m < n => Bucket(m) <= Bucket(n)

\* .hash: every symbol but the null symbol has one place in the list of its bucket.  The
\* order of a list is ld's.
ElfTable(t, syms, H) ==
  LET named == DOMAIN syms \ {0}
      Bucket(n) == H[syms[n].name] % t.nbucket
  IN /\ t.nbucket \in Nat \ {0} /\ DOMAIN syms \subseteq Nat /\ IsFiniteSet(DOMAIN syms)
     /\ DOMAIN t.chain = DOMAIN syms
     /\ \E place \in [named -> 0..Cardinality(named) - 1] :
          /\ \A m, n \in named : Bucket(m) = Bucket(n) /\ place[m] = place[n] => m = n
          /\ \A n \in named :
               \/ place[n] = 0 /\ t.bucket[Bucket(n)] = n
               \/ \E m \in named : Bucket(m) = Bucket(n) /\ place[n] = place[m] + 1 /\ t.chain[m] = n
          /\ \A b \in 0..t.nbucket - 1 : LET n == t.bucket[b] IN
               n # 0 => n \in named /\ Bucket(n) = b /\ place[n] = 0
          /\ \A m \in named : LET n == t.chain[m] IN
               n # 0 => n \in named /\ Bucket(n) = Bucket(m) /\ place[n] = place[m] + 1
=============================================================================
