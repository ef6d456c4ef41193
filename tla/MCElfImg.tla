------------------------------- MODULE MCElfImg -------------------------------
(* ElfImg compared with reference definitions, over all small tables and files. *)
EXTENDS ElfImg

Names  == {"a", "b", "c"}          \* c is exported by no library below
Hashes == [Names -> {2, 3, 5, 66}] \* equal but for the last bit, equal in a bucket, apart

\* What a library exports, in any order and twice the same name (a version of it).
Exports == UNION {[1..n -> {"a", "b"}] : n \in 0..3}

\* The symbols, after the null symbol and one that is imported.
Symbols(exports) ==
  [n \in 0..Len(exports) + 1 |->
     IF n = 0 THEN [name |-> "", value |-> 0, code |-> FALSE]
     ELSE IF n = 1 THEN [name |-> "c", value |-> 0, code |-> FALSE]
     ELSE [name |-> exports[n - 1], value |-> 100 + n, code |-> TRUE]]

Sorted(exports, H, nbucket) ==
  \A i, j \in DOMAIN exports : i < j => H[exports[i]] % nbucket <= H[exports[j]] % nbucket

Least(S) == CHOOSE n \in S : \A m \in S : n <= m

\* The tables as ld fills them in.
MakeGnu(syms, H, nbucket, size, bits) ==
  LET chained == {n \in DOMAIN syms : n >= 2}
      In(b)   == {n \in chained : H[syms[n].name] % nbucket = b}
      Hash(n) == H[syms[n].name]
  IN [bits |-> bits, nbucket |-> nbucket, symndx |-> 2, bloomSize |-> size, shift2 |-> 4,
      bucket |-> [b \in 0..nbucket - 1 |-> IF In(b) = {} THEN 0 ELSE Least(In(b))],
      bloom |-> [w \in 0..size - 1 |->
                   UNION {{Hash(n) % bits, (Hash(n) \div 4) % bits} :
                            n \in {k \in chained : (Hash(k) \div bits) % size = w}}],
      chain |-> [n \in chained |->
                   2 * (Hash(n) \div 2)
                   + IF \E m \in In(Hash(n) % nbucket) : m > n THEN 0 ELSE 1]]

\* .hash has the imported symbols too; a new one goes to the front of its bucket.
MakeElf(syms, H, nbucket) ==
  LET In(b, n) == {m \in DOMAIN syms : 0 < m /\ m < n /\ H[syms[m].name] % nbucket = b}
      Last1(S) == IF S = {} THEN 0 ELSE CHOOSE n \in S : \A m \in S : m <= n
  IN [nbucket |-> nbucket,
      bucket |-> [b \in 0..nbucket - 1 |-> Last1(In(b, Cardinality(DOMAIN syms)))],
      chain |-> [n \in DOMAIN syms |->
                   IF n = 0 THEN 0 ELSE Last1(In(H[syms[n].name] % nbucket, n))]]

\* GnuLookup gives the value of the first exported symbol of that name, ElfLookup the value
\* of the last symbol of that name (0 if it is imported), and nothing for any other name.
ASSUME LookupsFind ==
  \A H \in Hashes, exports \in Exports, nbucket \in 1..3, size \in 1..2, bits \in {32, 64} :
    Sorted(exports, H, nbucket) =>
      LET syms == Symbols(exports)
          t    == MakeGnu(syms, H, nbucket, size, bits)
          e    == MakeElf(syms, H, nbucket)
      IN /\ GnuTable(t, syms, H) /\ ElfTable(e, syms, H)
         /\ \A name \in Names :
              LET named == {n \in DOMAIN syms : n > 0 /\ syms[n].name = name}
              IN /\ GnuLookup(t, syms, name, H[name]) = ValueAt(syms, Exported(t, syms, name))
                 /\ ElfLookup(e, syms, name, H[name]) =
                      IF named = {} THEN 0 ELSE syms[CHOOSE n \in named : \A m \in named : m <= n].value

Section(type, name, bias) == [type |-> type, name |-> name, bias |-> bias]
Sections == {Section("DYNSYM", ".dynsym", 0), Section("STRTAB", ".dynstr", 0),
             Section("STRTAB", ".strtab", 0), Section("SYMTAB", ".symtab", 0),
             Section("PROGBITS", ".text", 0), Section("PROGBITS", ".data", 4096)}

\* The bias is that of the first PROGBITS section after a DYNSYM and a STRTAB; the last of
\* either before it are taken for .dynsym and .dynstr, whatever their names.
ASSUME SectionsRead ==
  \A n \in 0..5 : \A file \in [1..n -> Sections] :
    LET Of(type, limit) == {i \in 1..limit : file[i].type = type}
        Greatest(S) == IF S = {} THEN None ELSE CHOOSE i \in S : \A j \in S : j <= i
        code == {i \in Of("PROGBITS", n) : Of("DYNSYM", i) # {} /\ Of("STRTAB", i) # {}}
        end  == IF code = {} THEN n ELSE Least(code)
        img  == ReadSections(file)
    IN /\ img.bias = IF code = {} THEN NoBias ELSE file[Least(code)].bias
       /\ img.dynsym = Greatest(Of("DYNSYM", end)) /\ img.strtab = Greatest(Of("STRTAB", end))
       /\ img.symtab = Greatest(Of("SYMTAB", n))
       /\ img.symstr = Greatest({i \in Of("STRTAB", n) : file[i].name = ".strtab"})
=============================================================================
