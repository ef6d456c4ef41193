------------------------- MODULE RirudProtocolProofs -------------------------
(***************************************************************************)
(* Proofs about RirudProtocol, for every capacity of the sockets, size of a *)
(* file, length of a directory and list of modules.                        *)
(*                                                                         *)
(* None of the properties is inductive: whether the next field is the one  *)
(* an end waits for depends on every field before it that is still under   *)
(* way.  The invariant is therefore about the streams: SyncInv says that   *)
(* what is under way to the server (Up) begins with a field it wants and   *)
(* goes on as requests do (Then), that what is under way to the client     *)
(* (Down) begins with one that is due and goes on as answers do (After),   *)
(* and that the two never cross.  TypeInv comes first and holds            *)
(* throughout; SyncInv holds until a DirIter is misused or a file changes. *)
(***************************************************************************)
EXTENDS RirudProtocol, TLAPS

-----------------------------------------------------------------------------
(* The streams, with what their writers have still to put into them. *)

Up   == toServer \o outbox
Down == toClient \o out

\* What follows the fields of an answer, and what an end writes that waits for the other.
Silence == Token("silence", 0)
Turn    == Token("turn", 0)

World == [file |-> file, modules |-> modules, entry |-> index]

NextModule(ms, m) == IF m < Len(ms) THEN Token("path", m + 1) ELSE Silence

\* The field of an answer that comes after t.
After(w, t) ==
  CASE t.k = "string" -> Silence
    [] t.k = "errno" -> IF t.v = 0 THEN Token("size", w.file) ELSE Silence
    [] t.k = "size" -> IF w.file = 0 THEN Silence ELSE Token("chunk", 1)
    [] t.k = "chunk" -> IF t.v = w.file THEN Silence ELSE Token("chunk", t.v + 1)
    [] t.k = "dirErrno" -> IF t.v = 0 THEN Turn ELSE Silence
    [] t.k = "reply" -> IF t.v = 0 THEN Token("type", 1) ELSE Silence
    [] t.k = "type" -> Token("name", w.entry)
    [] t.k = "name" -> Turn
    [] t.k = "count" -> NextModule(w.modules, 0)
    [] t.k = "path" -> Token("libs", <<t.v, w.modules[t.v]>>)
    [] t.k = "libs" -> IF t.v[2] = 0 THEN NextModule(w.modules, t.v[1]) ELSE Token("id", <<t.v[1], 1>>)
    [] t.k = "id" -> Token("lib", t.v)
    [] t.k = "lib" -> IF t.v[2] = w.modules[t.v[1]] THEN NextModule(w.modules, t.v[1])
                      ELSE Token("id", <<t.v[1], t.v[2] + 1>>)

\* The library that Load reads next, or the module.
Place == IF libs = 0 THEN <<Len(modules) - need + 1, 0>>
         ELSE <<Len(modules) - need, modules[Len(modules) - need] - libs + 1>>

\* What the client may take next.
Due ==
  CASE pc \in {"idle", "end"} -> {Silence}
    [] pc = "entry" -> {Turn}
    [] pc = "string" -> {Token("string", 1)}
    [] pc = "errno" -> {Token("errno", 0), Token("errno", 1)}
    [] pc = "size" -> {Token("size", file)}
    [] pc = "chunk" -> {Token("chunk", file - need + 1)}
    [] pc = "dirErrno" -> {Token("dirErrno", 0), Token("dirErrno", 1)}
    [] pc = "reply" -> {Token("reply", IF index > Len(got) THEN 0 ELSE -1)}
    [] pc = "type" -> {Token("type", 1)}
    [] pc = "name" -> {Token("name", index)}
    [] pc = "count" -> {Token("count", Len(modules))}
    [] pc = "path" -> {Token("path", Len(modules) - need + 1)}
    [] pc = "libs" -> {Token("libs", <<Len(modules) - need + 1, modules[Len(modules) - need + 1]>>)}
    [] pc \in {"id", "lib"} -> {Token(pc, Place)}
    [] OTHER -> {}

\* What the server writes next.
Coming ==
  CASE sv = "action" -> Silence
    [] sv = "continue" -> Turn
    [] sv = "stat" -> Token("size", file)
    [] sv = "copy" -> Token("chunk", pos + 1)
    [] sv = "modules" -> Token("path", written + 1)
    [] OTHER -> Token("nothing", 0)

Chained(w, from, s) ==
  s # <<>> => /\ s[1] \in from
              /\ \A j \in 1..(Len(s) - 1) : s[j + 1] = After(w, s[j])

Joined(w, from, s, to) == IF s = <<>> THEN to \in from ELSE to = After(w, s[Len(s)])

-----------------------------------------------------------------------------
(* The requests. *)

PlainActions == {"READ_NATIVE_BRIDGE", "READ_MAGISK_TMPFS_PATH", "READ_FILE", "READ_DIR"}
Plain        == {Token("action", a) : a \in PlainActions}

\* What may come after t in the requests of a client that has registered ids.
Then(ids, t) ==
  CASE t = Token("action", "READ_FILE") -> {Token("filePath", 1)}
    [] t = Token("action", "READ_DIR") -> {Token("dirPath", 1)}
    [] t = Token("action", "READ_MODULES") -> {Token("modulesAbi", 1)}
    [] t = Token("action", "WRITE_STATUS") -> {Token("statusAbi", 1)}
    [] t.k = "statusAbi" -> {Token("status", Len(ids))}
    [] t.k = "status" -> IF ids = <<>> THEN Plain ELSE {Token("id", <<1, ids[1]>>)}
    [] t.k = "id" -> {Token("about", t.v)}
    [] t.k = "about" -> IF t.v[1] = Len(ids) THEN Plain
                        ELSE {Token("id", <<t.v[1] + 1, ids[t.v[1] + 1]>>)}
    [] OTHER -> {}

\* Where the client is once t is the last field it has to write.
Awaits(ids, t) ==
  CASE t.k = "action" -> IF t.v \in {"READ_NATIVE_BRIDGE", "READ_MAGISK_TMPFS_PATH"} THEN {"string"} ELSE {}
    [] t.k = "filePath" -> {"errno"}
    [] t.k = "dirPath" -> {"dirErrno"}
    [] t.k = "modulesAbi" -> {"count"}
    [] t.k = "continue" -> {"reply"}
    [] t.k = "status" -> IF ids = <<>> THEN {"idle"} ELSE {}
    [] t.k = "about" -> IF t.v[1] = Len(ids) THEN {"idle"} ELSE {}
    [] OTHER -> {}

Follow(ids, from, s) ==
  s # <<>> => /\ s[1] \in from
              /\ \A j \in 1..(Len(s) - 1) : s[j + 1] \in Then(ids, s[j])

Unreported == loaded /\ ~recorded /\ pc \notin Loading

\* What the server may get next.
Wanted ==
  CASE sv = "action" -> Plain \cup (IF recorded THEN {} ELSE {Token("action", "READ_MODULES")})
                              \cup (IF Unreported THEN {Token("action", "WRITE_STATUS")} ELSE {})
    [] sv \in {"filePath", "dirPath", "modulesAbi", "statusAbi", "continue"} -> {Token(sv, 1)}
    [] sv = "status" -> {Token("status", Len(registered))}
    [] sv \in {"id", "about"} -> {Token(sv, <<Len(listed) + 1, registered[Len(listed) + 1]>>)}
    [] OTHER -> {}

-----------------------------------------------------------------------------
(* The invariant. *)

Libs == Libraries(modules)

\* What the values of fields are, whatever happens.
Actions == PlainActions \cup {"READ_MODULES", "WRITE_STATUS"}
Values  == Int \cup Actions \cup (Int \X Int) \cup (Int \X (Int \X Int))
Tokens  == [k : Reading \cup Waiting, v : Values]

DownFields == {t \in Tokens : /\ t.k \in {"count", "size"} => t.v \in Nat
                              /\ t.k = "libs" => t.v[2] \in Nat
                              /\ t.k \in {"id", "lib"} => t.v \in Libs}
UpFields == {t \in Tokens : /\ t.k = "status" => t.v \in Nat
                            /\ t.k \in {"id", "about"} => t.v[2] \in Libs}

FieldsInv ==
  /\ toServer \in Seq(UpFields) /\ outbox \in Seq(UpFields)
  /\ toClient \in Seq(DownFields) /\ out \in Seq(DownFields)
  /\ got \in Seq(Values) /\ registered \in Seq(Libs) /\ listed \in Seq(Libs)
  /\ \A j \in 2..Len(outbox) : outbox[j] # Token("action", "WRITE_STATUS")

CountInv ==
  /\ pc \in {"path", "libs", "chunk"} => need > 0
  /\ pc \in {"id", "lib"} => libs > 0
  /\ pc = "lib" => got # <<>> /\ got[Len(got)] \in Libs
  /\ sv \in {"id", "about"} => todo > 0
  /\ sv = "modules" => written < Len(modules)
  /\ index <= listing \/ index = 0
  /\ sv = "ended" => out = <<>>
  /\ pc \in Idling => outbox = <<>> \/ pc = "idle"
  /\ pc = "closed" => outbox = <<>>

NotLost == pc # "lost" /\ sv # "lost"

UpInv ==
  sv # "ended" =>
    /\ Follow(registered, Wanted, Up)
    /\ pc # "closed" /\ Up # <<>> => pc \in Awaits(registered, Up[Len(Up)])
    /\ pc = "idle" /\ ~loaded => Up = <<>>

\* The client is still there and may yet receive something.
Open == pc # "closed" /\ (sv # "ended" \/ toClient # <<>>)

DownInv ==
  Open => /\ Up # <<>> => Down = <<>>
          /\ Up = <<>> => /\ Chained(World, Due, Down)
                          /\ sv # "ended" => Joined(World, Due, Down, Coming)

StatusInv ==
  /\ pc \in Loading \/ ~loaded => ~recorded /\ sv \notin {"statusAbi", "status", "id", "about"}
  /\ pc \in Loading => loaded
  /\ ~loaded => registered = <<>>
  /\ sv \in {"statusAbi", "status"} => ~recorded
  /\ ~recorded => listed = <<>>
  /\ sv \in {"id", "about"} =>
       /\ recorded /\ Len(listed) < Len(registered) /\ todo = Len(registered) - Len(listed)
       /\ \A i \in 1..Len(listed) : listed[i] = registered[i]
  /\ recorded /\ sv \notin {"id", "about"} =>
       \/ listed = registered
       \/ /\ sv = "ended"
          /\ \/ pc = "closed" \/ faults > 0
             \/ \E i \in DOMAIN registered : registered[i] \in LongIds \cup LongVersions

FileInv ==
  /\ pc \in {"errno", "size"} => got = <<>>
  /\ pc = "chunk" => need <= file /\ got = Indices(file - need)
  /\ sv = "copy" => pos < file /\ left = file - pos

DirInv ==
  /\ pc = "dirErrno" => got = <<>>
  /\ pc \in {"reply", "type", "name", "entry"} => got = Indices(Len(got))
  /\ Open /\ pc = "reply" /\ Up # <<>> => index = Len(got)
  /\ Open /\ pc = "reply" /\ Up = <<>> => index = Len(got) + 1 \/ (index = Len(got) /\ listing <= index)
  /\ Open /\ pc \in {"type", "name"} => index = Len(got) + 1
  /\ Open /\ pc = "entry" => index = Len(got)
  /\ Open /\ pc = "dirErrno" /\ Up = <<>> /\ sv = "continue" => index = 0

Ordered(s) == \A i \in 2..Len(s) : IF i % 2 = 0 THEN s[i] = s[i - 1] ELSE Earlier(s[i - 1], s[i])
Elements(s) == {s[i] : i \in DOMAIN s}
Past(p) == {x \in Libs : Earlier(x, p)}

LoadInv ==
  /\ pc = "count" => got = <<>> /\ registered = <<>>
  /\ pc \in Loading \/ Reporting => Ordered(got)
  /\ Reporting => Elements(got) = Libs
  /\ pc \in {"path", "libs"} => need <= Len(modules) /\ libs = 0
  /\ pc \in {"id", "lib"} => need < Len(modules) /\ libs <= modules[Len(modules) - need]
  /\ pc \in {"path", "libs", "id"} =>
       Len(got) % 2 = 0 /\ Elements(got) = Past(Place)
  /\ pc = "lib" =>
       /\ Len(got) % 2 = 1 /\ got[Len(got)] = Place
       /\ Elements(got) = Past(Place) \cup {Place}

Sync == NotLost /\ UpInv /\ DownInv /\ StatusInv /\ FileInv /\ DirInv /\ LoadInv

SyncInv == Excused \/ Sync

TypeInv == TypeOK /\ FieldsInv /\ CountInv

-----------------------------------------------------------------------------
(* Sequences. *)

\* Writing a field leaves what is under way in a direction as it is.
LEMMA Moves ==
  ASSUME NEW S, NEW a \in Seq(S), NEW b \in Seq(S), b # <<>>
  PROVE  /\ Append(a, Head(b)) \o Tail(b) = a \o b
         /\ Append(a, Head(b)) \in Seq(S) /\ Tail(b) \in Seq(S)
OBVIOUS

\* Taking a field takes the first of what is under way.
LEMMA Takes ==
  ASSUME NEW S, NEW a \in Seq(S), NEW b \in Seq(S), a # <<>>
  PROVE  /\ Tail(a) \o b = Tail(a \o b) /\ (a \o b)[1] = Head(a) /\ a \o b # <<>>
         /\ Tail(a) \in Seq(S) /\ Head(a) \in S
OBVIOUS

\* What two sequences in a row are made of.
LEMMA Joins ==
  ASSUME NEW S, NEW a \in Seq(S), NEW b \in Seq(S)
  PROVE  /\ a \o b \in Seq(S) /\ Len(a \o b) = Len(a) + Len(b) /\ Len(a) \in Nat /\ Len(b) \in Nat
         /\ \A j \in 1..Len(a) : (a \o b)[j] = a[j]
         /\ \A j \in (Len(a) + 1)..(Len(a) + Len(b)) : (a \o b)[j] = b[j - Len(a)]
OBVIOUS

\* A sequence whose elements all lie in T is one of T.
LEMMA Retyped ==
  ASSUME NEW S, NEW T, NEW s \in Seq(S), \A j \in 1..Len(s) : s[j] \in T
  PROVE  s \in Seq(T)
OBVIOUS

\* An answer of one field.
LEMMA Single == ASSUME NEW S, NEW x \in S PROVE <<x>> \in Seq(S) /\ Len(<<x>>) = 1
OBVIOUS

\* A function on 1..n is a sequence.
LEMMA FromFunction ==
  ASSUME NEW S, NEW n \in Nat, NEW s \in [1..n -> S]
  PROVE  s \in Seq(S) /\ Len(s) = n
OBVIOUS

\* The fields of WRITE_STATUS, one by one.
StatusField(ids, j) ==
  CASE j = 1 -> Token("action", "WRITE_STATUS")
    [] j = 2 -> Token("statusAbi", 1)
    [] j = 3 -> Token("status", Len(ids))
    [] j > 3 -> Token(IF j % 2 = 0 THEN "id" ELSE "about", <<(j - 2) \div 2, ids[(j - 2) \div 2]>>)

\* What WriteModules writes, field by field.
LEMMA StatusShape ==
  ASSUME NEW S, NEW ids \in Seq(S)
  PROVE  /\ \E R : StatusFields(ids) \in Seq(R)
         /\ Len(StatusFields(ids)) = 3 + 2 * Len(ids)
         /\ \A j \in 1..(3 + 2 * Len(ids)) : StatusFields(ids)[j] = StatusField(ids, j)
<1> DEFINE front == <<Token("action", "WRITE_STATUS"), Token("statusAbi", 1), Token("status", Len(ids))>>
           entry(i) == Token(IF i % 2 = 1 THEN "id" ELSE "about", <<(i + 1) \div 2, ids[(i + 1) \div 2]>>)
           rest == [i \in 1..(2 * Len(ids)) |-> entry(i)]
           all == {front[i] : i \in 1..3} \cup {entry(i) : i \in 1..(2 * Len(ids))}
<1>1. Len(ids) \in Nat /\ 2 * Len(ids) \in Nat  OBVIOUS
<1>2. front \in Seq(all) /\ Len(front) = 3
  <2>1. \A i \in 1..3 : front[i] \in all  OBVIOUS
  <2> QED  BY <2>1
<1>3. rest \in Seq(all) /\ Len(rest) = 2 * Len(ids)
  <2>1. rest \in [1..(2 * Len(ids)) -> all]
    <3> HIDE DEF entry, front
    <3> QED  OBVIOUS
  <2> HIDE DEF rest, all
  <2> QED  BY <1>1, <2>1, FromFunction
<1>4. StatusFields(ids) = front \o rest  BY DEF StatusFields
<1>5. /\ front \o rest \in Seq(all) /\ Len(front \o rest) = 3 + 2 * Len(ids)
      /\ \A j \in 1..3 : (front \o rest)[j] = front[j]
      /\ \A j \in 4..(3 + 2 * Len(ids)) : (front \o rest)[j] = rest[j - 3]
  <2> HIDE DEF front, rest, all
  <2>1. /\ front \o rest \in Seq(all) /\ Len(front \o rest) = Len(front) + Len(rest)
        /\ \A j \in 1..Len(front) : (front \o rest)[j] = front[j]
        /\ \A j \in (Len(front) + 1)..(Len(front) + Len(rest)) : (front \o rest)[j] = rest[j - Len(front)]
    BY <1>2, <1>3, Joins
  <2> QED  BY <1>2, <1>3, <2>1
<1>6. ASSUME NEW j \in 4..(3 + 2 * Len(ids)) PROVE rest[j - 3] = StatusField(ids, j)
  <2>1. j - 3 \in 1..(2 * Len(ids))  BY <1>1
  <2>2. rest[j - 3] = entry(j - 3)
    <3> HIDE DEF entry
    <3> QED  BY <2>1
  <2>3. ((j - 3) % 2 = 1 <=> j % 2 = 0) /\ (j - 3 + 1) \div 2 = (j - 2) \div 2  BY <1>1
  <2>4. entry(j - 3) = Token(IF j % 2 = 0 THEN "id" ELSE "about", <<(j - 2) \div 2, ids[(j - 2) \div 2]>>)
    BY <2>3
  <2> HIDE DEF rest, entry
  <2> QED  BY <1>1, <2>2, <2>4 DEF StatusField
<1>7. \A j \in 1..3 : front[j] = StatusField(ids, j)
  BY DEF StatusField
<1>8. ASSUME NEW j \in 1..(3 + 2 * Len(ids)) PROVE (front \o rest)[j] = StatusField(ids, j)
  <2> HIDE DEF front, rest, all
  <2>1. j \in 1..3 \/ j \in 4..(3 + 2 * Len(ids))  BY <1>1
  <2> QED  BY <1>5, <1>6, <1>7, <2>1
<1> HIDE DEF front, rest, all
<1> QED  BY <1>4, <1>5, <1>8

\* The fields of one module of READ_MODULES, one by one.
ModuleField(ms, m, j) ==
  CASE j = 1 -> Token("path", m)
    [] j = 2 -> Token("libs", <<m, ms[m]>>)
    [] j > 2 -> Token(IF j % 2 = 1 THEN "id" ELSE "lib", <<m, (j - 1) \div 2>>)

\* What handleReadModules writes of a module, field by field.
LEMMA ModuleShape ==
  ASSUME NEW ms \in Seq(Nat), NEW m \in 1..Len(ms)
  PROVE  /\ \E R : ModuleFields(ms, m) \in Seq(R)
         /\ Len(ModuleFields(ms, m)) = 2 + 2 * ms[m]
         /\ \A j \in 1..(2 + 2 * ms[m]) : ModuleFields(ms, m)[j] = ModuleField(ms, m, j)
<1> DEFINE front == <<Token("path", m), Token("libs", <<m, ms[m]>>)>>
           entry(i) == Token(IF i % 2 = 1 THEN "id" ELSE "lib", <<m, (i + 1) \div 2>>)
           rest == [i \in 1..(2 * ms[m]) |-> entry(i)]
           all == {front[i] : i \in 1..2} \cup {entry(i) : i \in 1..(2 * ms[m])}
<1>1. ms[m] \in Nat /\ 2 * ms[m] \in Nat  OBVIOUS
<1>2. front \in Seq(all) /\ Len(front) = 2
  <2>1. \A i \in 1..2 : front[i] \in all  OBVIOUS
  <2> QED  BY <2>1
<1>3. rest \in Seq(all) /\ Len(rest) = 2 * ms[m]
  <2>1. rest \in [1..(2 * ms[m]) -> all]
    <3> HIDE DEF entry, front
    <3> QED  OBVIOUS
  <2> HIDE DEF rest, all
  <2> QED  BY <1>1, <2>1, FromFunction
<1>4. ModuleFields(ms, m) = front \o rest  BY DEF ModuleFields
<1>5. /\ front \o rest \in Seq(all) /\ Len(front \o rest) = 2 + 2 * ms[m]
      /\ \A j \in 1..2 : (front \o rest)[j] = front[j]
      /\ \A j \in 3..(2 + 2 * ms[m]) : (front \o rest)[j] = rest[j - 2]
  <2> DEFINE n == ms[m]
  <2> HIDE DEF front, rest, all
  <2>1. /\ front \o rest \in Seq(all) /\ Len(front \o rest) = Len(front) + Len(rest)
        /\ \A j \in 1..Len(front) : (front \o rest)[j] = front[j]
        /\ \A j \in (Len(front) + 1)..(Len(front) + Len(rest)) : (front \o rest)[j] = rest[j - Len(front)]
    BY <1>2, <1>3, Joins
  <2>2. n \in Nat /\ Len(rest) = 2 * n  BY <1>1, <1>3
  <2> HIDE DEF n
  <2>3. /\ Len(front \o rest) = 2 + 2 * n
        /\ \A j \in 1..2 : (front \o rest)[j] = front[j]
        /\ \A j \in 3..(2 + 2 * n) : (front \o rest)[j] = rest[j - 2]
    BY <1>2, <2>1, <2>2
  <2> QED  BY <2>1, <2>3 DEF n
<1>6. ASSUME NEW j \in 3..(2 + 2 * ms[m]) PROVE rest[j - 2] = ModuleField(ms, m, j)
  <2>1. j - 2 \in 1..(2 * ms[m])  BY <1>1
  <2>2. rest[j - 2] = entry(j - 2)
    <3> HIDE DEF entry
    <3> QED  BY <2>1
  <2>3. ((j - 2) % 2 = 1 <=> j % 2 = 1) /\ (j - 2 + 1) \div 2 = (j - 1) \div 2  BY <1>1
  <2>4. entry(j - 2) = Token(IF j % 2 = 1 THEN "id" ELSE "lib", <<m, (j - 1) \div 2>>)
    BY <2>3
  <2>5. j \in Nat /\ j > 2  BY <1>1
  <2>6. ModuleField(ms, m, j) = Token(IF j % 2 = 1 THEN "id" ELSE "lib", <<m, (j - 1) \div 2>>)
    BY <2>5 DEF ModuleField
  <2> HIDE DEF rest, entry
  <2> QED  BY <2>2, <2>4, <2>6
<1>7. \A j \in 1..2 : front[j] = ModuleField(ms, m, j)
  BY DEF ModuleField
<1>8. ASSUME NEW j \in 1..(2 + 2 * ms[m]) PROVE (front \o rest)[j] = ModuleField(ms, m, j)
  <2> HIDE DEF front, rest, all
  <2>1. j \in 1..2 \/ j \in 3..(2 + 2 * ms[m])  BY <1>1
  <2> QED  BY <1>5, <1>6, <1>7, <2>1
<1> HIDE DEF front, rest, all
<1> QED  BY <1>4, <1>5, <1>8

-----------------------------------------------------------------------------
(* The types. *)

USE DEF vars, clientVars, serverVars, deviceVars

\* A new connection.
LEMMA InitTypes == Init => TypeInv
<1> SUFFICES ASSUME Init PROVE TypeInv
  OBVIOUS
<1>1. TypeOK
  <2>1. pc \in Idling /\ sv \in Waiting  BY DEF Init, Idling, Waiting
  <2>2. Len(toServer) <= Capacity /\ Len(toClient) <= Capacity  BY ProtocolAssumption DEF Init
  <2>3. /\ stale \in BOOLEAN /\ recorded \in BOOLEAN /\ private \in BOOLEAN
        /\ loaded \in BOOLEAN /\ misused \in BOOLEAN /\ oddFile \in BOOLEAN
    BY DEF Init
  <2>4. /\ need \in Nat /\ libs \in Nat
        /\ pos \in Nat /\ left \in Int /\ written \in Nat /\ todo \in Nat
    BY DEF Init
  <2>5. listing \in -1..MaxEntries /\ index \in 0..MaxEntries /\ faults \in 0..MaxFaults
    BY ProtocolAssumption DEF Init
  <2>6. /\ file \in FileSizes \cup {0} /\ modules \in ModuleLists
        /\ \A i \in DOMAIN listed : listed[i] \in Libraries(modules)
    BY DEF Init
  <2> QED  BY <2>1, <2>2, <2>3, <2>4, <2>5, <2>6 DEF TypeOK
<1>2. FieldsInv  BY DEF Init, FieldsInv
<1>3. CountInv  BY ProtocolAssumption DEF Init, CountInv, Idling
<1> QED  BY <1>1, <1>2, <1>3 DEF TypeInv

\* A request starts.
LEMMA AskTypes ==
  ASSUME TypeInv, NEW fields \in Seq(UpFields), NEW next \in Reading \ {"path", "libs", "id", "lib", "chunk"},
         NEW sizes \in SUBSET (FileSizes \cup {0}), Ask(fields, next, sizes), loaded' \in BOOLEAN,
         \A j \in 2..Len(fields) : fields[j] # Token("action", "WRITE_STATUS")
  PROVE  TypeInv'
BY DEF TypeInv, TypeOK, FieldsInv, CountInv, Ask, Libs, UpFields, DownFields, Idling, Reading

\* The fields of a request but for WRITE_STATUS.
LEMMA PlainField ==
  ASSUME NEW k \in {"action", "filePath", "dirPath", "modulesAbi", "continue"},
         NEW v \in Actions \cup {1}
  PROVE  Token(k, v) \in UpFields
<1>1. k \in Waiting /\ v \in Values  BY DEF Values, Waiting
<1>2. Token(k, v) \in Tokens /\ Token(k, v).k = k  BY <1>1 DEF Token, Tokens
<1> QED  BY <1>2 DEF UpFields

\* Every call of the client.
LEMMA CallTypes == ASSUME TypeInv, Call PROVE TypeInv'
<1>1. {0} \in SUBSET (FileSizes \cup {0}) /\ FileSizes \in SUBSET (FileSizes \cup {0}) /\ loaded \in BOOLEAN
  BY DEF TypeInv, TypeOK
<1>2. ASSUME NEW a \in {"READ_NATIVE_BRIDGE", "READ_MAGISK_TMPFS_PATH"}, AskString(a) PROVE TypeInv'
  <2>1. <<Token("action", a)>> \in Seq(UpFields)  BY PlainField DEF Actions, PlainActions
  <2>2. "string" \in Reading \ {"path", "libs", "id", "lib", "chunk"}  BY DEF Reading
  <2>3. \A j \in 2..Len(<<Token("action", a)>>) : <<Token("action", a)>>[j] # Token("action", "WRITE_STATUS")
    OBVIOUS
  <2> QED  BY <1>2, <2>1, <2>2, <2>3, <1>1, AskTypes DEF AskString
<1>3. CASE ReadFile
  <2>1. <<Token("action", "READ_FILE"), Token("filePath", 1)>> \in Seq(UpFields)
    BY PlainField DEF Actions, PlainActions
  <2>2. "errno" \in Reading \ {"path", "libs", "id", "lib", "chunk"}  BY DEF Reading
  <2>3. \A j \in 2..2 : <<Token("action", "READ_FILE"), Token("filePath", 1)>>[j]
                         # Token("action", "WRITE_STATUS")
    BY DEF Token
  <2>4. Len(<<Token("action", "READ_FILE"), Token("filePath", 1)>>) = 2  OBVIOUS
  <2> QED  BY <1>3, <2>1, <2>2, <2>3, <2>4, <1>1, AskTypes DEF ReadFile
<1>4. CASE ReadDir
  <2>1. <<Token("action", "READ_DIR"), Token("dirPath", 1)>> \in Seq(UpFields)
    BY PlainField DEF Actions, PlainActions
  <2>2. "dirErrno" \in Reading \ {"path", "libs", "id", "lib", "chunk"}  BY DEF Reading
  <2>3. \A j \in 2..2 : <<Token("action", "READ_DIR"), Token("dirPath", 1)>>[j]
                         # Token("action", "WRITE_STATUS")
    BY DEF Token
  <2>4. Len(<<Token("action", "READ_DIR"), Token("dirPath", 1)>>) = 2  OBVIOUS
  <2> QED  BY <1>4, <2>1, <2>2, <2>3, <2>4, <1>1, AskTypes DEF ReadDir
<1>5. CASE Load
  <2>1. <<Token("action", "READ_MODULES"), Token("modulesAbi", 1)>> \in Seq(UpFields)
    BY PlainField DEF Actions, PlainActions
  <2>2. "count" \in Reading \ {"path", "libs", "id", "lib", "chunk"}  BY DEF Reading
  <2>3. \A j \in 2..2 : <<Token("action", "READ_MODULES"), Token("modulesAbi", 1)>>[j]
                         # Token("action", "WRITE_STATUS")
    BY DEF Token
  <2>4. Len(<<Token("action", "READ_MODULES"), Token("modulesAbi", 1)>>) = 2  OBVIOUS
  <2> QED  BY <1>5, <2>1, <2>2, <2>3, <2>4, <1>1, AskTypes DEF Load
<1>6. CASE NextEntry
  <2>1. <<Token("continue", 1)>> \in Seq(UpFields)  BY PlainField DEF Actions, PlainActions
  <2> QED  BY <1>6, <2>1 DEF NextEntry, OnlyClient, TypeInv, TypeOK, FieldsInv, CountInv, Libs, UpFields,
             DownFields, Idling, Reading
<1> QED  BY <1>2, <1>3, <1>4, <1>5, <1>6 DEF Call

\* The client writes, is cut off, closes, or is interrupted.
LEMMA ClientTypes ==
  ASSUME TypeInv, WriteField \/ WriteFails \/ Close \/ Interrupt \/ TakeOther \/ ReadFails
  PROVE  TypeInv'
<1>1. UpFields' = UpFields /\ DownFields' = DownFields /\ Libs' = Libs
  BY DEF WriteField, WriteFails, Close, Interrupt, TakeOther, ReadFails, OnlyClient, UpFields, DownFields, Libs
<1>2. CASE WriteField
  <2>1. Append(toServer, Head(outbox)) \in Seq(UpFields) /\ Tail(outbox) \in Seq(UpFields)
    BY <1>2, Moves DEF WriteField, TypeInv, FieldsInv
  <2>2. Len(Append(toServer, Head(outbox))) = Len(toServer) + 1  BY DEF TypeInv, FieldsInv
  <2>3. TypeOK'
    BY <1>2, <2>2, ProtocolAssumption DEF WriteField, OnlyClient, TypeInv, TypeOK, FieldsInv
  <2>4. \A j \in 2..Len(Tail(outbox)) : Tail(outbox)[j] = outbox[j + 1] /\ j + 1 \in 2..Len(outbox)
    BY <1>2 DEF WriteField, TypeInv, FieldsInv
  <2>5. FieldsInv'  BY <1>1, <1>2, <2>1, <2>4 DEF WriteField, OnlyClient, TypeInv, FieldsInv
  <2>6. CountInv'  BY <1>1, <1>2 DEF WriteField, OnlyClient, TypeInv, CountInv, Idling
  <2> QED  BY <2>3, <2>5, <2>6 DEF TypeInv
<1>3. CASE WriteFails
  <2>1. TypeOK'  BY <1>3 DEF WriteFails, Abandoned, OnlyClient, TypeInv, TypeOK, Idling
  <2>2. FieldsInv'  BY <1>1, <1>3 DEF WriteFails, OnlyClient, TypeInv, FieldsInv
  <2>3. CountInv'  BY <1>1, <1>3 DEF WriteFails, Abandoned, OnlyClient, TypeInv, CountInv, Idling
  <2> QED  BY <2>1, <2>2, <2>3 DEF TypeInv
<1>4. CASE Close
  <2>1. TypeOK'  BY <1>4 DEF Close, OnlyClient, TypeInv, TypeOK
  <2>2. FieldsInv'  BY <1>1, <1>4 DEF Close, OnlyClient, TypeInv, FieldsInv
  <2>3. CountInv'  BY <1>1, <1>4 DEF Close, OnlyClient, TypeInv, CountInv, Idling
  <2> QED  BY <2>1, <2>2, <2>3 DEF TypeInv
<1>5. CASE Interrupt  BY <1>1, <1>5 DEF Interrupt, OnlyClient, TypeInv, TypeOK, FieldsInv, CountInv
<1>6. CASE TakeOther  BY <1>1, <1>6 DEF TakeOther, OnlyClient, TypeInv, TypeOK, FieldsInv, CountInv, Idling
<1>7. CASE ReadFails
  <2>1. pc' \in {"end", "idle", "size"}  BY <1>7 DEF ReadFails, Abandoned
  <2>2. TypeOK'  BY <1>7, <2>1 DEF ReadFails, OnlyClient, TypeInv, TypeOK, Idling, Reading
  <2>3. got' \in Seq(Values)
    <3>1. [i \in 1..need |-> 0] \in Seq(Values)  BY DEF Values, TypeInv, TypeOK
    <3> QED  BY <1>7, <3>1 DEF ReadFails, TypeInv, FieldsInv
  <2>4. FieldsInv'  BY <1>1, <1>7, <2>3 DEF ReadFails, OnlyClient, TypeInv, FieldsInv
  <2>5. CountInv'  BY <1>1, <1>7, <2>1 DEF ReadFails, OnlyClient, TypeInv, CountInv, Idling
  <2> QED  BY <2>2, <2>4, <2>5 DEF TypeInv
<1> QED  BY <1>2, <1>3, <1>4, <1>5, <1>6, <1>7

\* What every read of a field leaves.
Taken ==
  /\ toClient' \in Seq(DownFields)' /\ Len(toClient') <= Capacity
  /\ value \in Values /\ (pc \in {"count", "size"} => value \in Nat) /\ (pc \in {"id", "lib"} => value \in Libs)
  /\ (pc = "libs" => value[2] \in Nat) /\ pc \in Reading /\ outbox = <<>>
  /\ UpFields' = UpFields /\ DownFields' = DownFields /\ Libs' = Libs
  /\ UNCHANGED <<toServer, stale, loaded, misused, serverVars, deviceVars, oddFile>>

\* What every read of the client does.
LEMMA TakeBasics == ASSUME TypeInv, NEW k \in Reading, Take(k) PROVE Taken
<1> USE DEF TypeInv, TypeOK, FieldsInv
<1>1. Head(toClient) \in DownFields /\ Tail(toClient) \in Seq(DownFields) /\ Len(Tail(toClient)) <= Len(toClient)
  BY Takes DEF Take
<1>2. UNCHANGED <<toServer, stale, loaded, misused, serverVars, deviceVars, oddFile>>
  BY DEF Take, OnlyClient
<1>3. UpFields' = UpFields /\ DownFields' = DownFields /\ Libs' = Libs
  BY <1>2 DEF UpFields, DownFields, Libs
<1>4. /\ value \in Values /\ (pc \in {"count", "size"} => value \in Nat)
      /\ (pc \in {"id", "lib"} => value \in Libs) /\ (pc = "libs" => value[2] \in Nat)
  BY <1>1 DEF DownFields, Tokens, value, Take
<1>5. toClient' = Tail(toClient) /\ pc \in Reading /\ outbox = <<>>  BY DEF Take
<1>6. Len(toClient') <= Capacity  BY <1>1, <1>5, ProtocolAssumption
<1> QED  BY <1>1, <1>2, <1>3, <1>4, <1>5, <1>6 DEF Taken

\* The client reads a field of an answer.
LEMMA TakeTypes ==
  ASSUME TypeInv, TakeString \/ TakePath \/ TakeId \/ TakeErrno \/ TakeSize \/ TakeChunk
                    \/ TakeDirErrno \/ TakeReply \/ TakeType \/ TakeName
  PROVE  TypeInv'
<1>1. CASE TakeString
  <2>1. Taken /\ Take("string")  BY <1>1, TakeBasics DEF TakeString, Reading
  <2>2. TypeOK'  BY <1>1, <2>1 DEF TakeString, Taken, TypeInv, TypeOK, Idling, Reading, Take
  <2>3. FieldsInv'  BY <1>1, <2>1 DEF TakeString, Taken, TypeInv, FieldsInv
  <2>4. CountInv'  BY <1>1, <2>1 DEF TakeString, Taken, Take, TypeInv, TypeOK, FieldsInv, CountInv, Idling, Reading
  <2> QED  BY <2>2, <2>3, <2>4 DEF TypeInv
<1>2. CASE TakePath
  <2>1. Taken /\ Take("path")  BY <1>2, TakeBasics DEF TakePath, Reading
  <2>2. TypeOK'  BY <1>2, <2>1 DEF TakePath, Taken, TypeInv, TypeOK, Idling, Reading, Take
  <2>3. FieldsInv'  BY <1>2, <2>1 DEF TakePath, Taken, TypeInv, FieldsInv
  <2>4. CountInv'  BY <1>2, <2>1 DEF TakePath, Taken, Take, TypeInv, TypeOK, FieldsInv, CountInv, Idling, Reading
  <2> QED  BY <2>2, <2>3, <2>4 DEF TypeInv
<1>3. CASE TakeId
  <2>1. Taken /\ Take("id")  BY <1>3, TakeBasics DEF TakeId, Reading
  <2>2. TypeOK'  BY <1>3, <2>1 DEF TakeId, Taken, TypeInv, TypeOK, Idling, Reading, Take
  <2>3. FieldsInv'  BY <1>3, <2>1 DEF TakeId, Taken, TypeInv, FieldsInv
  <2>4. got' # <<>> /\ got'[Len(got')] = value /\ value \in Libs'
    <3>1. got' = Append(got, value) /\ got \in Seq(Values) /\ value \in Values /\ value \in Libs /\ Libs' = Libs
      BY <1>3, <2>1 DEF TakeId, Taken, Take, TypeInv, FieldsInv
    <3> HIDE DEF value
    <3> QED  BY <3>1
  <2>5. CountInv'  BY <1>3, <2>1, <2>4 DEF TakeId, Taken, Take, TypeInv, TypeOK, FieldsInv, CountInv, Idling, Reading
  <2> QED  BY <2>2, <2>3, <2>5 DEF TypeInv
<1>4. CASE TakeErrno
  <2>1. Taken /\ Take("errno")  BY <1>4, TakeBasics DEF TakeErrno, Reading
  <2>2. TypeOK'  BY <1>4, <2>1 DEF TakeErrno, Taken, TypeInv, TypeOK, Idling, Reading, Take
  <2>3. FieldsInv'  BY <1>4, <2>1 DEF TakeErrno, Taken, TypeInv, FieldsInv
  <2>4. CountInv'  BY <1>4, <2>1 DEF TakeErrno, Taken, Take, TypeInv, TypeOK, FieldsInv, CountInv, Idling, Reading
  <2> QED  BY <2>2, <2>3, <2>4 DEF TypeInv
<1>5. CASE TakeSize
  <2>1. Taken /\ Take("size")  BY <1>5, TakeBasics DEF TakeSize, Reading
  <2>2. TypeOK'  BY <1>5, <2>1 DEF TakeSize, Taken, TypeInv, TypeOK, Idling, Reading, Take
  <2>3. FieldsInv'  BY <1>5, <2>1 DEF TakeSize, Taken, TypeInv, FieldsInv
  <2>4. CountInv'  BY <1>5, <2>1 DEF TakeSize, Taken, Take, TypeInv, TypeOK, FieldsInv, CountInv, Idling, Reading
  <2> QED  BY <2>2, <2>3, <2>4 DEF TypeInv
<1>6. CASE TakeChunk
  <2>1. Taken /\ Take("chunk")  BY <1>6, TakeBasics DEF TakeChunk, Reading
  <2>2. TypeOK'  BY <1>6, <2>1 DEF TakeChunk, Taken, TypeInv, TypeOK, CountInv, Idling, Reading, Take
  <2>3. FieldsInv'  BY <1>6, <2>1 DEF TakeChunk, Taken, TypeInv, FieldsInv
  <2>4. CountInv'  BY <1>6, <2>1 DEF TakeChunk, Taken, Take, TypeInv, TypeOK, FieldsInv, CountInv, Idling, Reading
  <2> QED  BY <2>2, <2>3, <2>4 DEF TypeInv
<1>7. CASE TakeDirErrno
  <2>1. Taken /\ Take("dirErrno")  BY <1>7, TakeBasics DEF TakeDirErrno, Reading
  <2>2. TypeOK'  BY <1>7, <2>1 DEF TakeDirErrno, Taken, TypeInv, TypeOK, Idling, Reading, Take
  <2>3. <<Token("continue", 1)>> \in Seq(UpFields)  BY PlainField
  <2>4. FieldsInv'
    <3>1. CASE value = 0
      <4>1. outbox' = <<Token("continue", 1)>>  BY <1>7, <3>1 DEF TakeDirErrno
      <4> QED  BY <1>7, <2>1, <2>3, <4>1 DEF TakeDirErrno, Taken, TypeInv, FieldsInv
    <3>2. CASE value # 0  BY <1>7, <2>1, <3>2 DEF TakeDirErrno, Taken, TypeInv, FieldsInv
    <3> QED  BY <3>1, <3>2
  <2>5. CountInv'  BY <1>7, <2>1 DEF TakeDirErrno, Taken, Take, TypeInv, TypeOK, FieldsInv, CountInv, Idling, Reading
  <2> QED  BY <2>2, <2>4, <2>5 DEF TypeInv
<1>8. CASE TakeReply
  <2>1. Taken /\ Take("reply")  BY <1>8, TakeBasics DEF TakeReply, Reading
  <2>2. TypeOK'  BY <1>8, <2>1 DEF TakeReply, Taken, TypeInv, TypeOK, Idling, Reading, Take
  <2>3. FieldsInv'  BY <1>8, <2>1 DEF TakeReply, Taken, TypeInv, FieldsInv
  <2>4. CountInv'  BY <1>8, <2>1 DEF TakeReply, Taken, Take, TypeInv, TypeOK, FieldsInv, CountInv, Idling, Reading
  <2> QED  BY <2>2, <2>3, <2>4 DEF TypeInv
<1>9. CASE TakeType
  <2>1. Taken /\ Take("type")  BY <1>9, TakeBasics DEF TakeType, Reading
  <2>2. TypeOK'  BY <1>9, <2>1 DEF TakeType, Taken, TypeInv, TypeOK, Idling, Reading, Take
  <2>3. FieldsInv'  BY <1>9, <2>1 DEF TakeType, Taken, TypeInv, FieldsInv
  <2>4. CountInv'  BY <1>9, <2>1 DEF TakeType, Taken, Take, TypeInv, TypeOK, FieldsInv, CountInv, Idling, Reading
  <2> QED  BY <2>2, <2>3, <2>4 DEF TypeInv
<1>10. CASE TakeName
  <2>1. Taken /\ Take("name")  BY <1>10, TakeBasics DEF TakeName, Reading
  <2>2. TypeOK'  BY <1>10, <2>1 DEF TakeName, Taken, TypeInv, TypeOK, Idling, Reading, Take
  <2>3. FieldsInv'  BY <1>10, <2>1 DEF TakeName, Taken, TypeInv, FieldsInv
  <2>4. CountInv'  BY <1>10, <2>1 DEF TakeName, Taken, Take, TypeInv, TypeOK, FieldsInv, CountInv, Idling, Reading
  <2> QED  BY <2>2, <2>3, <2>4 DEF TypeInv
<1> QED  BY <1>1, <1>2, <1>3, <1>4, <1>5, <1>6, <1>7, <1>8, <1>9, <1>10

\* Load goes on to the next library or module, or writes the status.
LEMMA LibsTyped == ASSUME modules \in Seq(Nat) PROVE Libs \subseteq Nat \X Nat
BY DEF Libs, Libraries

\* The fields of WRITE_STATUS are fields of a request.
LEMMA StatusTyped ==
  ASSUME modules \in Seq(Nat), NEW ids \in Seq(Libs)
  PROVE  /\ StatusFields(ids) \in Seq(UpFields)
         /\ \A j \in 2..Len(StatusFields(ids)) : StatusFields(ids)[j] # Token("action", "WRITE_STATUS")
<1> DEFINE s == StatusFields(ids)
<1>1. Len(ids) \in Nat  OBVIOUS
<1>2. Len(ids) \in Nat /\ Len(s) = 3 + 2 * Len(ids) /\ \E R : s \in Seq(R)
  BY ONLY <1>1, ids \in Seq(Libs), StatusShape
<1>3. ASSUME NEW j \in 1..(3 + 2 * Len(ids))
      PROVE  StatusField(ids, j) \in UpFields /\ (j > 1 => StatusField(ids, j) # Token("action", "WRITE_STATUS"))
  <2>1. CASE j = 1  BY <2>1, PlainField DEF StatusField, Actions
  <2>2. CASE j = 2  BY <2>2 DEF StatusField, Token, UpFields, Tokens, Values, Waiting
  <2>3. CASE j = 3  BY <2>3, <1>2 DEF StatusField, Token, UpFields, Tokens, Values, Waiting
  <2>4. CASE j > 3
    <3> DEFINE i == (j - 2) \div 2
    <3>1. i \in 1..Len(ids)  BY <1>2, <2>4
    <3>2. ids[i] \in Libs /\ <<i, ids[i]>> \in Int \X (Int \X Int)  BY <3>1, LibsTyped
    <3>3. <<i, ids[i]>> \in Values  BY <3>2 DEF Values
    <3>4. StatusField(ids, j) = Token(IF j % 2 = 0 THEN "id" ELSE "about", <<i, ids[i]>>)
      BY <2>4 DEF StatusField
    <3> HIDE DEF i
    <3> QED  BY <3>2, <3>3, <3>4 DEF Token, UpFields, Tokens, Waiting
  <2> QED  BY <2>1, <2>2, <2>3, <2>4
<1>4. \A j \in 1..Len(s) : s[j] \in UpFields /\ (j > 1 => s[j] # Token("action", "WRITE_STATUS"))
  BY <1>2, <1>3, StatusShape
<1> HIDE DEF s
<1>5. s \in Seq(UpFields)  BY <1>2, <1>4, Retyped
<1>6. \A j \in 2..Len(s) : j \in 1..Len(s) /\ j > 1  BY <1>2
<1> QED  BY <1>4, <1>5, <1>6 DEF s

\* modules::Load reads a field.
LEMMA LoadTypes == ASSUME TypeInv, TakeCount \/ TakeLibs \/ TakeLib PROVE TypeInv'
<1>1. Taken  BY TakeBasics DEF TakeCount, TakeLibs, TakeLib, Reading
<1>2. need' \in Nat /\ libs' \in Nat
  <2>1. CASE TakeCount  BY <1>1, <2>1 DEF TakeCount, Taken, Take
  <2>2. CASE TakeLibs  BY <1>1, <2>2 DEF TakeLibs, Taken, Take, TypeInv, TypeOK, CountInv
  <2>3. CASE TakeLib  BY <1>1, <2>3 DEF TakeLib, Taken, Take, TypeInv, TypeOK, CountInv
  <2> QED  BY <2>1, <2>2, <2>3
<1>3. got' \in Seq(Values)
  <2>1. got \in Seq(Values) /\ value \in Values  BY <1>1 DEF Taken, TypeInv, FieldsInv
  <2>2. got' = got \/ got' = Append(got, value)  BY DEF TakeCount, TakeLibs, TakeLib
  <2> QED  BY <2>1, <2>2
<1>4. registered' \in Seq(Libs)
  <2>1. CASE TakeLib
    <3>1. got[Len(got)] \in Libs  BY <2>1 DEF TakeLib, Take, TypeInv, CountInv
    <3>2. registered \in Seq(Libs)  BY DEF TypeInv, FieldsInv
    <3>3. registered' = registered \/ registered' = Append(registered, got[Len(got)])  BY <2>1 DEF TakeLib
    <3> QED  BY <3>1, <3>2, <3>3
  <2>2. CASE TakeCount \/ TakeLibs  BY <2>2 DEF TakeCount, TakeLibs, TypeInv, FieldsInv
  <2> QED  BY <2>1, <2>2
<1>5. LoadNext  BY DEF TakeCount, TakeLibs, TakeLib
<1>6. /\ pc' \in {"id", "path", "idle"} /\ (pc' = "id" => libs' > 0) /\ (pc' = "path" => need' > 0)
      /\ outbox' \in Seq(UpFields)
      /\ \A j \in 2..Len(outbox') : outbox'[j] # Token("action", "WRITE_STATUS")
      /\ pc' # "idle" => outbox' = outbox
  <2>1. modules \in Seq(Nat)  BY ProtocolAssumption DEF TypeInv, TypeOK
  <2>2. outbox \in Seq(UpFields) /\ outbox = <<>>  BY <1>1 DEF Taken, TypeInv, FieldsInv
  <2>3. /\ StatusFields(registered') \in Seq(UpFields)
        /\ \A j \in 2..Len(StatusFields(registered')) :
             StatusFields(registered')[j] # Token("action", "WRITE_STATUS")
    BY <1>4, <2>1, StatusTyped
  <2>4. CASE pc' = "idle" /\ outbox' = StatusFields(registered')  BY <2>3, <2>4
  <2>5. CASE pc' # "idle" /\ outbox' = outbox  BY <1>2, <1>5, <2>2, <2>5 DEF LoadNext
  <2> QED  BY <1>5, <2>4, <2>5 DEF LoadNext
<1>7. TypeOK'  BY <1>1, <1>2, <1>6 DEF Taken, TypeInv, TypeOK, Idling, Reading
<1>8. FieldsInv'  BY <1>1, <1>3, <1>4, <1>6 DEF Taken, TypeInv, FieldsInv
<1>9. CountInv'  BY <1>1, <1>6 DEF Taken, TypeInv, CountInv, Idling
<1> QED  BY <1>7, <1>8, <1>9 DEF TypeInv

\* What every read of the server leaves.
Gotten ==
  /\ toServer' \in Seq(UpFields)' /\ Len(toServer') <= Capacity
  /\ sv \in Waiting /\ out = <<>> /\ field \in Values
  /\ (sv = "status" => field \in Nat) /\ (sv \in {"id", "about"} => field[2] \in Libs)
  /\ UpFields' = UpFields /\ DownFields' = DownFields /\ Libs' = Libs
  /\ UNCHANGED <<toClient, faults, clientVars, deviceVars, oddFile>>

\* What every read of the server does.
LEMMA GetBasics == ASSUME TypeInv, NEW k \in Waiting, Get(k) PROVE Gotten
<1>1. Head(toServer) \in UpFields /\ Tail(toServer) \in Seq(UpFields) /\ Len(Tail(toServer)) <= Len(toServer)
  BY Takes DEF Get, TypeInv, FieldsInv
<1>2. UNCHANGED <<toClient, faults, clientVars, deviceVars, oddFile>>
  BY DEF Get, OnlyServer
<1>3. UpFields' = UpFields /\ DownFields' = DownFields /\ Libs' = Libs
  BY <1>2 DEF UpFields, DownFields, Libs
<1>4. field \in Values /\ (sv = "status" => field \in Nat) /\ (sv \in {"id", "about"} => field[2] \in Libs)
  BY <1>1 DEF UpFields, Tokens, field, Get
<1>5. toServer' = Tail(toServer) /\ sv \in Waiting /\ out = <<>>  BY DEF Get
<1>6. Len(toServer') <= Capacity  BY <1>1, <1>5, ProtocolAssumption DEF TypeInv, TypeOK, FieldsInv
<1> QED  BY <1>1, <1>2, <1>3, <1>4, <1>5, <1>6 DEF Gotten

\* The fields of an answer.
LEMMA PlainAnswer ==
  ASSUME NEW k \in {"string", "errno", "size", "chunk", "dirErrno", "reply", "type", "name", "count", "path"},
         NEW v \in Int, k \in {"count", "size"} => v \in Nat
  PROVE  Token(k, v) \in DownFields
BY DEF Token, DownFields, Tokens, Values, Reading

\* The handler of an action, by the field it reads first.
LEMMA FirstFields ==
  /\ DOMAIN FirstField = {"READ_FILE", "READ_DIR", "READ_MODULES", "WRITE_STATUS"}
  /\ FirstField["READ_FILE"] = "filePath" /\ FirstField["READ_DIR"] = "dirPath"
  /\ FirstField["READ_MODULES"] = "modulesAbi" /\ FirstField["WRITE_STATUS"] = "statusAbi"
BY DEF FirstField

\* The server reads a field.
LEMMA GetTypes ==
  ASSUME TypeInv, GetAction \/ GetModulesAbi \/ GetStatusAbi \/ GetStatus \/ GetId \/ GetAbout
                    \/ GetFilePath \/ GetDirPath \/ GetContinue
  PROVE  TypeInv'
<1>1. Gotten
  BY GetBasics DEF GetAction, GetModulesAbi, GetStatusAbi, GetStatus, GetId, GetAbout, GetFilePath,
                   GetDirPath, GetContinue, Waiting
<1>2. /\ sv' \in Waiting \cup {"ended", "stat", "modules"} /\ (sv' = "ended" => out' = <<>>)
      /\ out' \in Seq(DownFields)
      /\ pos' \in Nat /\ left' \in Int
      /\ listing' \in -1..MaxEntries /\ index' \in 0..MaxEntries /\ (index' <= listing' \/ index' = 0)
      /\ todo' \in Nat /\ recorded' \in BOOLEAN /\ written' \in Nat /\ listed' \in Seq(Libs)
      /\ sv' \in {"id", "about"} => todo' > 0
      /\ sv' = "modules" => written' < Len(modules)
  <2> USE <1>1 DEF Gotten
  <2>1. CASE GetAction
    <3>1. sv' \in {"ended", "action", "filePath", "dirPath", "modulesAbi", "statusAbi"}
      BY <2>1, FirstFields DEF GetAction, Get
    <3>2. out' = <<>> \/ out' = <<Token("string", 1)>>  BY <2>1 DEF GetAction
    <3>3. sv' = "ended" => out' = <<>>  BY <2>1, FirstFields DEF GetAction, Get
    <3>4. Token("string", 1) \in DownFields  BY PlainAnswer
    <3>5. <<Token("string", 1)>> \in Seq(DownFields)  BY ONLY <3>4
    <3>6. <<>> \in Seq(DownFields)  OBVIOUS
    <3>7. out' \in Seq(DownFields)  BY ONLY <3>2, <3>5, <3>6, Zenon
    <3>8. -1 \in -1..MaxEntries /\ 0 \in 0..MaxEntries  BY ProtocolAssumption
    <3> QED  BY <2>1, <3>1, <3>3, <3>7, <3>8 DEF GetAction, TypeInv, TypeOK, FieldsInv, Waiting
  <2>2. CASE GetModulesAbi
    <3>1. modules \in Seq(Nat)  BY ProtocolAssumption DEF TypeInv, TypeOK
    <3>2. Token("count", Len(modules)) \in DownFields  BY <3>1, PlainAnswer
    <3> DEFINE answer == <<Token("count", Len(modules))>>
    <3>3. out' = answer  BY <2>2 DEF GetModulesAbi
    <3>4. answer \in Seq(DownFields)  BY ONLY <3>2
    <3> HIDE DEF answer
    <3>5. out' \in Seq(DownFields)  BY ONLY <3>3, <3>4
    <3>6. modules # <<>> => 0 < Len(modules)  BY <3>1
    <3> QED  BY <2>2, <3>5, <3>6 DEF GetModulesAbi, TypeInv, TypeOK, FieldsInv, CountInv, Waiting
  <2>3. CASE GetStatusAbi  BY <2>3 DEF GetStatusAbi, TypeInv, TypeOK, FieldsInv, CountInv, Waiting
  <2>4. CASE GetStatus  BY <2>4 DEF GetStatus, Get, TypeInv, TypeOK, FieldsInv, CountInv, Waiting
  <2>5. CASE GetId  BY <2>5 DEF GetId, Get, TypeInv, TypeOK, FieldsInv, CountInv, Waiting
  <2>6. CASE GetAbout
    <3>1. field[2] \in Libs /\ listed \in Seq(Libs)  BY <2>6 DEF GetAbout, Get, TypeInv, FieldsInv
    <3>2. listed' \in Seq(Libs)  BY <2>6, <3>1 DEF GetAbout
    <3>3. todo' \in Nat /\ (sv' \in {"id", "about"} => todo' > 0)
      BY <2>6 DEF GetAbout, Get, TypeInv, TypeOK, CountInv
    <3> QED  BY <2>6, <3>2, <3>3 DEF GetAbout, Get, TypeInv, TypeOK, FieldsInv, CountInv, Waiting
  <2>7. CASE GetFilePath
    <3>1. out' \in Seq(DownFields) /\ sv' \in {"stat", "action"}  BY <2>7, PlainAnswer DEF GetFilePath
    <3> QED  BY <2>7, <3>1 DEF GetFilePath, TypeInv, TypeOK, FieldsInv, CountInv, Waiting
  <2>8. CASE GetDirPath
    <3>1. Token("dirErrno", 0) \in DownFields /\ Token("dirErrno", 1) \in DownFields  BY PlainAnswer
    <3>2. /\ out' = <<Token("dirErrno", 0)>> \/ out' = <<Token("dirErrno", 1)>>
          /\ sv' \in {"continue", "action"}
      BY <2>8 DEF GetDirPath
    <3>3. out' \in Seq(DownFields)
      <4>1. <<Token("dirErrno", 0)>> \in Seq(DownFields) /\ <<Token("dirErrno", 1)>> \in Seq(DownFields)
        BY ONLY <3>1
      <4> QED  BY <3>2, <4>1
    <3>4. listing' \in -1..MaxEntries /\ index' \in 0..MaxEntries /\ (index' <= listing' \/ index' = 0)
      BY <2>8, ProtocolAssumption DEF GetDirPath, TypeInv, TypeOK, CountInv
    <3> QED  BY <2>8, <3>3, <3>4, <3>2 DEF GetDirPath, TypeInv, TypeOK, FieldsInv, Waiting
  <2>9. CASE GetContinue
    <3>1. CASE index >= listing
      <4>1. Token("reply", -1) \in DownFields  BY PlainAnswer
      <4>2. out' = <<Token("reply", -1)>>  BY <2>9, <3>1 DEF GetContinue
      <4>3. out' \in Seq(DownFields)  BY <4>1, <4>2
      <4> QED  BY <2>9, <3>1, <4>3 DEF GetContinue, TypeInv, TypeOK, FieldsInv, CountInv, Waiting
    <3>2. CASE index < listing
      <4>1. /\ Token("reply", 0) \in DownFields /\ Token("type", 1) \in DownFields
            /\ Token("name", index + 1) \in DownFields
        BY PlainAnswer DEF TypeInv, TypeOK
      <4>2. out' = <<Token("reply", 0), Token("type", 1), Token("name", index + 1)>>
            /\ index' = index + 1 /\ sv' = sv /\ sv = "continue"
        BY <2>9, <3>2 DEF GetContinue, Get, TypeInv, TypeOK
      <4>3. out' \in Seq(DownFields)  BY <4>1, <4>2
      <4>4. index' \in 0..MaxEntries /\ index' <= listing  BY <3>2, <4>2, ProtocolAssumption DEF TypeInv, TypeOK
      <4> QED  BY <2>9, <4>2, <4>3, <4>4 DEF GetContinue, TypeInv, TypeOK, FieldsInv, Waiting
    <3> QED  BY <3>1, <3>2 DEF TypeInv, TypeOK
  <2> QED  BY <2>1, <2>2, <2>3, <2>4, <2>5, <2>6, <2>7, <2>8, <2>9
<1>3. \A i \in DOMAIN listed' : listed'[i] \in Libs  BY <1>2
<1>4. TypeOK'  BY <1>1, <1>2, <1>3 DEF Gotten, TypeInv, TypeOK, Waiting, Working, Libs
<1>5. FieldsInv'  BY <1>1, <1>2 DEF Gotten, TypeInv, FieldsInv
<1>6. CountInv'  BY <1>1, <1>2 DEF Gotten, TypeInv, CountInv, Waiting
<1> QED  BY <1>4, <1>5, <1>6 DEF TypeInv

\* A size as the client takes it.
LEMMA Sizes ==
  ASSUME NEW n \in Int
  PROVE  /\ AsUnsigned(n) \in Nat /\ AsInt(n) \in Int
         /\ n \in Nat /\ AsInt(n) = n => AsUnsigned(n) = n
<1> DEFINE m == 2 * (IntMax + 1)
<1>1. m \in Nat \ {0}  BY ProtocolAssumption
<1> HIDE DEF m
<1>2. n % m \in 0..(m - 1)  BY <1>1
<1> QED  BY <1>1, <1>2, ProtocolAssumption DEF AsUnsigned, AsInt, m

\* The fields of a module, as they are typed.
LEMMA ModuleTyped ==
  ASSUME modules \in Seq(Nat), NEW m \in 1..Len(modules)
  PROVE  ModuleFields(modules, m) \in Seq(DownFields)
<1> DEFINE s == ModuleFields(modules, m)
<1>1. modules[m] \in Nat /\ Len(s) = 2 + 2 * modules[m] /\ \E R : s \in Seq(R)
  BY ONLY modules \in Seq(Nat), m \in 1..Len(modules), ModuleShape
<1>2. ASSUME NEW j \in 1..(2 + 2 * modules[m]) PROVE ModuleField(modules, m, j) \in DownFields
  <2>1. CASE j = 1  BY <2>1, PlainAnswer DEF ModuleField
  <2>2. CASE j = 2
    <3>1. <<m, modules[m]>> \in Values  BY <1>1 DEF Values
    <3> QED  BY <1>1, <2>2, <3>1 DEF ModuleField, Token, DownFields, Tokens, Reading
  <2>3. CASE j > 2
    <3> DEFINE i == (j - 1) \div 2
               n == modules[m]
    <3>1. n \in Nat  BY <1>1
    <3>2. i \in 1..n
      <4> HIDE DEF n
      <4>1. j \in 1..(2 + 2 * n)  BY DEF n
      <4> QED  BY <2>3, <3>1, <4>1
    <3>3. <<m, i>> \in Libs  BY <3>2 DEF Libs, Libraries
    <3>4. <<m, i>> \in Values  BY <3>2 DEF Values
    <3>5. ModuleField(modules, m, j) = Token(IF j % 2 = 1 THEN "id" ELSE "lib", <<m, i>>)
      BY <2>3 DEF ModuleField
    <3> HIDE DEF i, n
    <3>6. Token("id", <<m, i>>) \in DownFields /\ Token("lib", <<m, i>>) \in DownFields
      BY <3>3, <3>4 DEF Token, DownFields, Tokens, Reading
    <3> QED  BY <3>5, <3>6
  <2> QED  BY <1>1, <2>1, <2>2, <2>3
<1>3. \A j \in 1..Len(s) : s[j] \in DownFields
  BY <1>1, <1>2, ModuleShape
<1> HIDE DEF s
<1>4. s \in Seq(DownFields)  BY <1>1, <1>3, Retyped
<1> QED  BY <1>4 DEF s

\* The server works on, writes, or ends; a file changes.
LEMMA ServerTypes ==
  ASSUME TypeInv, WriteModule \/ Stat \/ Copy \/ Answer \/ GetOther \/ Hangup \/ Fail \/ ChangeFile
  PROVE  TypeInv'
<1>1. UpFields' = UpFields /\ DownFields' = DownFields /\ Libs' = Libs
  BY DEF WriteModule, Stat, Copy, Answer, GetOther, Hangup, Fail, ChangeFile, OnlyServer, UpFields, DownFields, Libs
<1>2. modules \in Seq(Nat)  BY ProtocolAssumption DEF TypeInv, TypeOK
<1>3. CASE WriteModule
  <2>1. written + 1 \in 1..Len(modules)  BY <1>2, <1>3 DEF WriteModule, TypeInv, TypeOK, CountInv
  <2>2. out' \in Seq(DownFields)  BY <1>2, <1>3, <2>1, ModuleTyped DEF WriteModule
  <2>3. TypeOK'  BY <1>3 DEF WriteModule, OnlyServer, TypeInv, TypeOK, Waiting, Working
  <2>4. FieldsInv'  BY <1>1, <1>3, <2>2 DEF WriteModule, OnlyServer, TypeInv, FieldsInv
  <2>5. CountInv'  BY <1>1, <1>2, <1>3, <2>1 DEF WriteModule, OnlyServer, TypeInv, TypeOK, CountInv
  <2> QED  BY <2>3, <2>4, <2>5 DEF TypeInv
<1>4. CASE Stat
  <2>1. left' \in Int /\ AsUnsigned(left') \in Nat /\ faults' \in 0..MaxFaults
    <3>1. file \in Int  BY ProtocolAssumption DEF TypeInv, TypeOK
    <3>2. AsInt(file) \in Int  BY <3>1, Sizes
    <3>3. left' \in Int  BY <1>4, <3>2 DEF Stat
    <3>4. AsUnsigned(left') \in Nat  BY <3>3, Sizes
    <3>5. faults' \in 0..MaxFaults  BY <1>4, ProtocolAssumption DEF Stat, TypeInv, TypeOK
    <3> QED  BY <3>3, <3>4, <3>5
  <2>2. Token("size", AsUnsigned(left')) \in DownFields  BY <2>1, PlainAnswer
  <2>3. out' \in Seq(DownFields)  BY <1>4, <2>2, Single DEF Stat
  <2>4. oddFile' \in BOOLEAN  BY <1>4 DEF Stat, TypeInv, TypeOK
  <2>5. TypeOK'  BY <1>4, <2>1, <2>4 DEF Stat, TypeInv, TypeOK, Waiting, Working
  <2>6. FieldsInv'  BY <1>1, <1>4, <2>3 DEF Stat, TypeInv, FieldsInv
  <2>7. CountInv'  BY <1>1, <1>4 DEF Stat, TypeInv, CountInv
  <2> QED  BY <2>5, <2>6, <2>7 DEF TypeInv
<1>5. CASE Copy
  <2> DEFINE count == IF pos + Block <= file THEN Block ELSE file - pos
  <2>1. file \in Nat /\ count \in Int  BY ProtocolAssumption DEF TypeInv, TypeOK
  <2>2. out' \in Seq(DownFields) /\ pos' \in Nat /\ left' \in Int
    <3>1. CASE count <= 0  BY <1>5, <3>1 DEF Copy, TypeInv, TypeOK, FieldsInv
    <3>2. CASE count > 0
      <4>1. count \in Nat /\ pos + count \in Nat /\ left - count \in Int  BY <2>1, <3>2 DEF TypeInv, TypeOK
      <4>2. /\ out' = [i \in 1..count |-> Token("chunk", pos + i)] /\ pos' = pos + count
            /\ left' = IF left = -1 THEN -1 ELSE left - count
        BY <1>5, <2>1, <3>2 DEF Copy
      <4> HIDE DEF count
      <4>3. \A i \in 1..count : Token("chunk", pos + i) \in DownFields  BY <4>1, PlainAnswer DEF TypeInv, TypeOK
      <4>4. [i \in 1..count |-> Token("chunk", pos + i)] \in [1..count -> DownFields]  BY <4>3
      <4> QED  BY <4>1, <4>2, <4>4, FromFunction
    <3> QED  BY <2>1, <3>1, <3>2
  <2>3. sv' \in {"action", "copy"}  BY <1>5 DEF Copy
  <2>4. TypeOK'  BY <1>5, <2>2, <2>3 DEF Copy, OnlyServer, TypeInv, TypeOK, Waiting, Working
  <2>5. FieldsInv'  BY <1>1, <1>5, <2>2 DEF Copy, OnlyServer, TypeInv, FieldsInv
  <2>6. CountInv'  BY <1>1, <1>5, <2>3 DEF Copy, OnlyServer, TypeInv, CountInv
  <2> QED  BY <2>4, <2>5, <2>6 DEF TypeInv
<1>6. CASE Answer
  <2>1. Append(toClient, Head(out)) \in Seq(DownFields) /\ Tail(out) \in Seq(DownFields)
        /\ Len(Append(toClient, Head(out))) = Len(toClient) + 1
    BY <1>6, Moves DEF Answer, TypeInv, FieldsInv
  <2>2. TypeOK'  BY <1>6, <2>1, ProtocolAssumption DEF Answer, OnlyServer, TypeInv, TypeOK, FieldsInv
  <2>3. FieldsInv'  BY <1>1, <1>6, <2>1 DEF Answer, OnlyServer, TypeInv, FieldsInv
  <2>4. CountInv'  BY <1>1, <1>6 DEF Answer, OnlyServer, TypeInv, CountInv
  <2> QED  BY <2>2, <2>3, <2>4 DEF TypeInv
<1>7. CASE GetOther  BY <1>1, <1>7 DEF GetOther, OnlyServer, TypeInv, TypeOK, FieldsInv, CountInv
<1>8. CASE Hangup \/ Fail
  <2>1. sv' = "ended" /\ out' = <<>> /\ faults' \in 0..MaxFaults
    BY <1>8, ProtocolAssumption DEF Hangup, Fail, ServerEnds, TypeInv, TypeOK
  <2>2. TypeOK'  BY <1>8, <2>1 DEF Hangup, Fail, ServerEnds, OnlyServer, TypeInv, TypeOK
  <2>3. FieldsInv'  BY <1>1, <1>8, <2>1 DEF Hangup, Fail, ServerEnds, OnlyServer, TypeInv, FieldsInv
  <2>4. CountInv'  BY <1>1, <1>8, <2>1 DEF Hangup, Fail, ServerEnds, OnlyServer, TypeInv, CountInv
  <2> QED  BY <2>2, <2>3, <2>4 DEF TypeInv
<1>9. CASE ChangeFile  BY <1>1, <1>9 DEF ChangeFile, TypeInv, TypeOK, FieldsInv, CountInv
<1> QED  BY <1>3, <1>4, <1>5, <1>6, <1>7, <1>8, <1>9

\* Nothing happens.
LEMMA StutterTypes == ASSUME TypeInv, UNCHANGED vars PROVE TypeInv'
BY DEF TypeInv, TypeOK, FieldsInv, CountInv, UpFields, DownFields, Libs

\* Every step.
LEMMA StepTypes == TypeInv /\ [Next]_vars => TypeInv'
BY CallTypes, ClientTypes, TakeTypes, LoadTypes, GetTypes, ServerTypes, StutterTypes DEF Next, Receive, Serve

\* The types, the values fields may have, and the bounds of the counters.
LEMMA TypeInvAlways == Spec => []TypeInv
BY InitTypes, StepTypes, PTL DEF Spec

\* Every variable keeps its type, and no buffer of a socket ever holds more than its capacity.
THEOREM TypeCorrect == Spec => []TypeOK
<1>1. TypeInv => TypeOK  BY DEF TypeInv
<1> QED  BY <1>1, TypeInvAlways, PTL

-----------------------------------------------------------------------------
(* Chains of fields. *)

\* What is left of a chain whose first field was taken.
LEMMA ChainTail ==
  ASSUME NEW S, NEW s \in Seq(S), s # <<>>, NEW w, NEW from, NEW to,
         Chained(w, from, s), After(w, s[1]) \in to
  PROVE  /\ s[1] \in from /\ Chained(w, to, Tail(s))
         /\ \A c : Joined(w, from, s, c) => Joined(w, to, Tail(s), c)
<1> DEFINE t == Tail(s)
<1>1. Len(s) \in Nat /\ Len(s) > 0 /\ t \in Seq(S) /\ Len(t) = Len(s) - 1
  OBVIOUS
<1>2. \A j \in 1..(Len(s) - 1) : t[j] = s[j + 1]
  OBVIOUS
<1> HIDE DEF t
<1>3. s[1] \in from /\ \A j \in 1..(Len(s) - 1) : s[j + 1] = After(w, s[j])
  BY DEF Chained
<1>4. t # <<>> => Len(t) > 0
  BY <1>1
<1>5. ASSUME t # <<>> PROVE t[1] \in to
  <2>1. 1 \in 1..(Len(s) - 1)  BY <1>1, <1>4, <1>5
  <2>2. t[1] = s[1 + 1] /\ s[1 + 1] = After(w, s[1])  BY <1>2, <1>3, <2>1
  <2> QED  BY <2>2
<1>6. ASSUME NEW j \in 1..(Len(t) - 1) PROVE t[j + 1] = After(w, t[j])
  <2>1. j \in 1..(Len(s) - 1) /\ j + 1 \in 1..(Len(s) - 1)  BY <1>1
  <2>2. t[j] = s[j + 1] /\ t[j + 1] = s[j + 1 + 1] /\ s[j + 1 + 1] = After(w, s[j + 1])
    BY <1>2, <1>3, <2>1
  <2> QED  BY <2>2
<1>7. Chained(w, to, t)
  BY <1>5, <1>6 DEF Chained
<1>8. ASSUME NEW c, Joined(w, from, s, c) PROVE Joined(w, to, t, c)
  <2>1. c = After(w, s[Len(s)])  BY <1>8 DEF Joined
  <2>2. CASE t = <<>>
    <3>1. Len(s) = 1  BY <1>1, <2>2
    <3> QED  BY <2>1, <2>2, <3>1 DEF Joined
  <2>3. CASE t # <<>>
    <3>1. Len(t) \in 1..(Len(s) - 1) /\ Len(t) + 1 = Len(s)  BY <1>1, <1>4, <2>3
    <3>2. t[Len(t)] = s[Len(t) + 1]  BY <1>2, <3>1
    <3> QED  BY <2>1, <2>3, <3>1, <3>2 DEF Joined
  <2> QED  BY <2>2, <2>3
<1> QED  BY <1>3, <1>7, <1>8 DEF t

\* A chain followed by another that starts with the field due after it.
LEMMA ChainJoin ==
  ASSUME NEW S, NEW a \in Seq(S), NEW b \in Seq(S), NEW w, NEW from, NEW c,
         Chained(w, from, a), Joined(w, from, a, c), Chained(w, {c}, b)
  PROVE  /\ Chained(w, from, a \o b)
         /\ \A d : Joined(w, {c}, b, d) => Joined(w, from, a \o b, d)
<1> DEFINE ab == a \o b
<1>1. /\ ab \in Seq(S) /\ Len(ab) = Len(a) + Len(b) /\ Len(a) \in Nat /\ Len(b) \in Nat
      /\ \A j \in 1..Len(a) : ab[j] = a[j]
      /\ \A j \in (Len(a) + 1)..(Len(a) + Len(b)) : ab[j] = b[j - Len(a)]
  BY Joins
<1>2. (a = <<>> <=> Len(a) = 0) /\ (b = <<>> <=> Len(b) = 0) /\ (ab = <<>> <=> Len(ab) = 0)
  BY <1>1
<1> HIDE DEF ab
<1>3. CASE a = <<>>
  <2>1. c \in from  BY <1>3 DEF Joined
  <2>2. Len(a) = 0  BY <1>2, <1>3
  <2>3. Len(ab) = Len(b) /\ \A j \in 1..Len(b) : ab[j] = b[j]
    BY <1>1, <2>2
  <2>4. b # <<>> => b[1] = c /\ \A j \in 1..(Len(b) - 1) : b[j + 1] = After(w, b[j])
    BY DEF Chained
  <2>5. Chained(w, from, ab)
    <3>1. ASSUME ab # <<>> PROVE ab[1] \in from
      BY <1>1, <1>2, <2>1, <2>3, <2>4, <3>1
    <3>2. ASSUME NEW j \in 1..(Len(ab) - 1) PROVE ab[j + 1] = After(w, ab[j])
      <4>1. j \in 1..Len(b) /\ j + 1 \in 1..Len(b) /\ j \in 1..(Len(b) - 1) /\ b # <<>>
        BY <1>1, <1>2, <2>3
      <4> QED  BY <2>3, <2>4, <4>1
    <3> QED  BY <3>1, <3>2 DEF Chained
  <2>6. ASSUME NEW d, Joined(w, {c}, b, d) PROVE Joined(w, from, ab, d)
    <3>1. CASE b = <<>>  BY <1>2, <2>1, <2>3, <2>6, <3>1 DEF Joined
    <3>2. CASE b # <<>>
      <4>1. ab[Len(ab)] = b[Len(b)] /\ ab # <<>>  BY <1>1, <1>2, <2>3, <3>2
      <4> QED  BY <2>6, <3>2, <4>1 DEF Joined
    <3> QED  BY <3>1, <3>2
  <2> QED  BY <2>5, <2>6 DEF ab
<1>4. CASE a # <<>>
  <2>1. c = After(w, a[Len(a)])  BY <1>4 DEF Joined
  <2>2. a[1] \in from /\ \A j \in 1..(Len(a) - 1) : a[j + 1] = After(w, a[j])  BY <1>4 DEF Chained
  <2>3. b # <<>> => b[1] = c /\ \A j \in 1..(Len(b) - 1) : b[j + 1] = After(w, b[j])
    BY DEF Chained
  <2>4. Len(a) > 0 /\ Len(a) \in Nat /\ Len(b) \in Nat /\ Len(ab) = Len(a) + Len(b)  BY <1>1, <1>2, <1>4
  <2>5. ab # <<>> /\ ab[1] \in from
    <3>1. 1 \in 1..Len(a) /\ Len(ab) # 0  BY <1>1, <2>4
    <3>2. ab[1] = a[1]  BY <1>1, <3>1
    <3> QED  BY <1>2, <2>2, <3>1, <3>2
  <2>6. ASSUME NEW j \in 1..(Len(ab) - 1) PROVE ab[j + 1] = After(w, ab[j])
    <3>1. CASE j < Len(a)
      <4>1. j \in 1..(Len(a) - 1) /\ j \in 1..Len(a) /\ j + 1 \in 1..Len(a)
        BY ONLY <2>4, <3>1, j \in 1..(Len(ab) - 1)
      <4>2. ab[j] = a[j] /\ ab[j + 1] = a[j + 1]  BY <1>1, <4>1
      <4> QED  BY <2>2, <4>1, <4>2
    <3>2. CASE j = Len(a)
      <4>1. j \in 1..Len(a) /\ j + 1 \in (Len(a) + 1)..(Len(a) + Len(b)) /\ b # <<>> /\ j + 1 - Len(a) = 1
        BY <1>1, <1>2, <2>4, <3>2
      <4>2. ab[j + 1] = b[j + 1 - Len(a)] /\ ab[j] = a[j]  BY ONLY <1>1, <4>1
      <4>3. ab[j + 1] = b[1] /\ ab[j] = a[Len(a)]  BY ONLY <3>2, <4>1, <4>2
      <4> QED  BY <2>1, <2>3, <4>1, <4>3
    <3>3. CASE j > Len(a)
      <4> DEFINE i == j - Len(a)
      <4>1. i \in 1..(Len(b) - 1) /\ j \in (Len(a) + 1)..(Len(a) + Len(b))
            /\ j + 1 \in (Len(a) + 1)..(Len(a) + Len(b)) /\ j + 1 - Len(a) = i + 1 /\ b # <<>>
        BY <1>1, <1>2, <3>3
      <4>2. ab[j] = b[i] /\ ab[j + 1] = b[i + 1]  BY <1>1, <4>1
      <4> HIDE DEF i
      <4> QED  BY <2>3, <4>1, <4>2
    <3> QED  BY <1>1, <3>1, <3>2, <3>3
  <2>7. Chained(w, from, ab)  BY <2>5, <2>6 DEF Chained
  <2>8. ASSUME NEW d, Joined(w, {c}, b, d) PROVE Joined(w, from, ab, d)
    <3>1. CASE b = <<>>
      <4>1. ab[Len(ab)] = a[Len(a)] /\ d = c  BY <1>1, <1>2, <2>4, <2>8, <3>1 DEF Joined
      <4> QED  BY <2>1, <2>5, <4>1 DEF Joined
    <3>2. CASE b # <<>>
      <4>1. Len(ab) \in (Len(a) + 1)..(Len(a) + Len(b)) /\ Len(ab) - Len(a) = Len(b)  BY <1>1, <1>2, <3>2
      <4>2. ab[Len(ab)] = b[Len(b)]  BY <1>1, <4>1
      <4> QED  BY <2>5, <2>8, <3>2, <4>2 DEF Joined
    <3> QED  BY <3>1, <3>2
  <2> QED  BY <2>7, <2>8 DEF ab
<1> QED  BY <1>3, <1>4

\* The front of a chain is one.
LEMMA ChainFront ==
  ASSUME NEW S, NEW a \in Seq(S), NEW b \in Seq(S), NEW w, NEW from, Chained(w, from, a \o b)
  PROVE  Chained(w, from, a)
<1> DEFINE ab == a \o b
<1>1. /\ ab \in Seq(S) /\ Len(ab) = Len(a) + Len(b) /\ Len(a) \in Nat /\ Len(b) \in Nat
      /\ \A j \in 1..Len(a) : ab[j] = a[j]
  BY Joins
<1>2. (a = <<>> <=> Len(a) = 0) /\ (ab = <<>> <=> Len(ab) = 0)
  BY <1>1
<1> HIDE DEF ab
<1>3. CASE a # <<>>
  <2>1. ab # <<>> /\ Len(a) > 0  BY <1>1, <1>2, <1>3
  <2>2. ab[1] \in from /\ \A j \in 1..(Len(ab) - 1) : ab[j + 1] = After(w, ab[j])
    BY <2>1 DEF Chained, ab
  <2>3. a[1] \in from  BY <1>1, <2>1, <2>2
  <2>4. ASSUME NEW j \in 1..(Len(a) - 1) PROVE a[j + 1] = After(w, a[j])
    <3>1. j \in 1..Len(a) /\ j + 1 \in 1..Len(a) /\ j \in 1..(Len(ab) - 1)  BY <1>1
    <3> QED  BY <1>1, <2>2, <3>1
  <2> QED  BY <2>3, <2>4 DEF Chained
<1>4. CASE a = <<>>  BY <1>4 DEF Chained
<1> QED  BY <1>3, <1>4

\* Where nothing is due, nothing is on its way.
LEMMA NothingDue ==
  ASSUME NEW s \in Seq(DownFields), NEW w, NEW t \in {Silence, Turn}, Chained(w, {t}, s)
  PROVE  s = <<>> /\ \A c : Joined(w, {t}, s, c) => c = t
<1>1. ASSUME s # <<>> PROVE FALSE
  <2>1. s[1] = t  BY <1>1 DEF Chained
  <2>2. s[1] \in DownFields
    <3> HIDE DEF Down
    <3> QED  BY <1>1
  <2>3. s[1].k \in Reading \cup Waiting  BY <2>2 DEF DownFields, Tokens
  <2>4. t.k \in {"silence", "turn"}  BY DEF Silence, Turn, Token
  <2> QED  BY <2>1, <2>3, <2>4 DEF Reading, Waiting
<1> QED  BY <1>1 DEF Joined

-----------------------------------------------------------------------------
(* Requests. *)

\* Taking the first field of a request leaves what may follow it.
LEMMA FollowTail ==
  ASSUME NEW S, NEW s \in Seq(S), s # <<>>, NEW ids, NEW from, Follow(ids, from, s)
  PROVE  /\ s[1] \in from /\ Follow(ids, Then(ids, s[1]), Tail(s))
         /\ Tail(s) # <<>> => Tail(s)[Len(Tail(s))] = s[Len(s)]
         /\ Tail(s) = <<>> => s[Len(s)] = s[1]
<1> DEFINE t == Tail(s)
<1>1. Len(s) \in Nat /\ Len(s) > 0 /\ t \in Seq(S) /\ Len(t) = Len(s) - 1
  OBVIOUS
<1>2. \A j \in 1..(Len(s) - 1) : t[j] = s[j + 1]
  OBVIOUS
<1> HIDE DEF t
<1>3. s[1] \in from /\ \A j \in 1..(Len(s) - 1) : s[j + 1] \in Then(ids, s[j])
  BY DEF Follow
<1>4. t # <<>> <=> Len(t) > 0
  BY <1>1
<1>5. ASSUME t # <<>> PROVE t[1] \in Then(ids, s[1])
  <2>1. 1 \in 1..(Len(s) - 1)  BY <1>1, <1>4, <1>5
  <2>2. t[1] = s[1 + 1] /\ s[1 + 1] \in Then(ids, s[1])  BY <1>2, <1>3, <2>1
  <2> QED  BY <2>2
<1>6. ASSUME NEW j \in 1..(Len(t) - 1) PROVE t[j + 1] \in Then(ids, t[j])
  <2>1. j \in 1..(Len(s) - 1) /\ j + 1 \in 1..(Len(s) - 1)  BY <1>1
  <2>2. t[j] = s[j + 1] /\ t[j + 1] = s[j + 1 + 1] /\ s[j + 1 + 1] \in Then(ids, s[j + 1])
    BY <1>2, <1>3, <2>1
  <2> QED  BY <2>2
<1>7. Follow(ids, Then(ids, s[1]), t)
  BY <1>5, <1>6 DEF Follow
<1>8. t # <<>> => t[Len(t)] = s[Len(s)]
  <2>1. t # <<>> => Len(t) \in 1..(Len(s) - 1) /\ Len(t) + 1 = Len(s)  BY <1>1, <1>4
  <2> QED  BY <1>2, <2>1
<1>9. t = <<>> => Len(s) = 1
  BY <1>1, <1>4
<1> QED  BY <1>3, <1>7, <1>8, <1>9 DEF t

\* A request that may start in one state may start where more is wanted.
LEMMA FollowWider ==
  ASSUME NEW s, NEW ids, NEW from, NEW to, Follow(ids, from, s), from \subseteq to
  PROVE  Follow(ids, to, s)
BY DEF Follow

\* Two requests in a row.
LEMMA FollowJoin ==
  ASSUME NEW S, NEW a \in Seq(S), NEW b \in Seq(S), b # <<>>, NEW ids, NEW from, Follow(ids, from, a),
         Follow(ids, IF a = <<>> THEN from ELSE Then(ids, a[Len(a)]), b)
  PROVE  /\ Follow(ids, from, a \o b) /\ a \o b # <<>>
         /\ (a \o b)[Len(a \o b)] = b[Len(b)]
<1> DEFINE ab == a \o b
<1>1. /\ ab \in Seq(S) /\ Len(ab) = Len(a) + Len(b) /\ Len(a) \in Nat /\ Len(b) \in Nat
      /\ \A j \in 1..Len(a) : ab[j] = a[j]
      /\ \A j \in (Len(a) + 1)..(Len(a) + Len(b)) : ab[j] = b[j - Len(a)]
  BY Joins
<1>2. (a = <<>> <=> Len(a) = 0) /\ Len(b) > 0 /\ ab # <<>>
  BY <1>1
<1> HIDE DEF ab
<1>3. ab[Len(ab)] = b[Len(b)]
  <2>1. Len(ab) \in (Len(a) + 1)..(Len(a) + Len(b)) /\ Len(ab) - Len(a) = Len(b)  BY <1>1, <1>2
  <2> QED  BY <1>1, <2>1
<1>4. \A j \in 1..(Len(b) - 1) : b[j + 1] \in Then(ids, b[j])
  BY DEF Follow
<1>5. ab[Len(a) + 1] = b[1]
  <2>1. Len(a) + 1 \in (Len(a) + 1)..(Len(a) + Len(b)) /\ Len(a) + 1 - Len(a) = 1  BY <1>1, <1>2
  <2> QED  BY <1>1, <2>1
<1>6. ab[1] \in from
  <2>1. CASE a = <<>>
    <3>1. b[1] \in from  BY <2>1 DEF Follow
    <3>2. Len(a) + 1 = 1  BY <1>2, <2>1
    <3> QED  BY <1>5, <3>1, <3>2
  <2>2. CASE a # <<>>
    <3>1. a[1] \in from  BY <2>2 DEF Follow
    <3>2. 1 \in 1..Len(a)  BY <1>1, <1>2, <2>2
    <3>3. ab[1] = a[1]  BY <1>1, <3>2
    <3> QED  BY <3>1, <3>3
  <2> QED  BY <2>1, <2>2
<1>7. ASSUME NEW j \in 1..(Len(ab) - 1) PROVE ab[j + 1] \in Then(ids, ab[j])
  <2>1. CASE j < Len(a)
    <3>1. j \in 1..(Len(a) - 1) /\ j \in 1..Len(a) /\ j + 1 \in 1..Len(a) /\ a # <<>>  BY <1>1, <1>2, <2>1
    <3>2. ab[j] = a[j] /\ ab[j + 1] = a[j + 1]  BY <1>1, <3>1
    <3>3. a[j + 1] \in Then(ids, a[j])  BY <3>1 DEF Follow
    <3> QED  BY <3>2, <3>3
  <2>2. CASE j = Len(a)
    <3>1. j \in 1..Len(a) /\ a # <<>>  BY <1>1, <1>2, <2>2
    <3>2. ab[j] = a[Len(a)] /\ ab[j + 1] = b[1]  BY <1>1, <1>5, <2>2, <3>1
    <3>3. b[1] \in Then(ids, a[Len(a)])  BY <3>1 DEF Follow
    <3> QED  BY <3>2, <3>3
  <2>3. CASE j > Len(a)
    <3> DEFINE i == j - Len(a)
    <3>1. i \in 1..(Len(b) - 1) /\ j \in (Len(a) + 1)..(Len(a) + Len(b))
          /\ j + 1 \in (Len(a) + 1)..(Len(a) + Len(b)) /\ j + 1 - Len(a) = i + 1
      BY <1>1, <1>2, <2>3
    <3>2. ab[j] = b[i] /\ ab[j + 1] = b[i + 1]  BY <1>1, <3>1
    <3> HIDE DEF i
    <3> QED  BY <1>4, <3>1, <3>2
  <2> QED  BY <1>1, <2>1, <2>2, <2>3
<1>8. Follow(ids, from, ab)
  BY <1>6, <1>7 DEF Follow
<1> QED  BY <1>2, <1>3, <1>8 DEF ab

\* A request cut short.
LEMMA FollowFront ==
  ASSUME NEW S, NEW a \in Seq(S), NEW b \in Seq(S), NEW ids, NEW from, Follow(ids, from, a \o b)
  PROVE  Follow(ids, from, a)
<1> DEFINE ab == a \o b
<1>1. /\ ab \in Seq(S) /\ Len(ab) = Len(a) + Len(b) /\ Len(a) \in Nat /\ Len(b) \in Nat
      /\ \A j \in 1..Len(a) : ab[j] = a[j]
  BY Joins
<1>2. (a = <<>> <=> Len(a) = 0) /\ (ab = <<>> <=> Len(ab) = 0)
  BY <1>1
<1> HIDE DEF ab
<1>3. CASE a # <<>>
  <2>1. ab # <<>> /\ Len(a) > 0  BY <1>1, <1>2, <1>3
  <2>2. ab[1] \in from /\ \A j \in 1..(Len(ab) - 1) : ab[j + 1] \in Then(ids, ab[j])
    BY <2>1 DEF Follow, ab
  <2>3. a[1] \in from  BY <1>1, <2>1, <2>2
  <2>4. ASSUME NEW j \in 1..(Len(a) - 1) PROVE a[j + 1] \in Then(ids, a[j])
    <3>1. j \in 1..Len(a) /\ j + 1 \in 1..Len(a) /\ j \in 1..(Len(ab) - 1)  BY <1>1
    <3> QED  BY <1>1, <2>2, <3>1
  <2> QED  BY <2>3, <2>4 DEF Follow
<1>4. CASE a = <<>>  BY <1>4 DEF Follow
<1> QED  BY <1>3, <1>4

\* What comes after each field.
LEMMA AfterIs ==
  /\ \A w, v : After(w, Token("string", v)) = Silence
  /\ \A w, v : After(w, Token("errno", v)) = IF v = 0 THEN Token("size", w.file) ELSE Silence
  /\ \A w, v : After(w, Token("size", v)) = IF w.file = 0 THEN Silence ELSE Token("chunk", 1)
  /\ \A w, v : After(w, Token("chunk", v)) = IF v = w.file THEN Silence ELSE Token("chunk", v + 1)
  /\ \A w, v : After(w, Token("dirErrno", v)) = IF v = 0 THEN Turn ELSE Silence
  /\ \A w, v : After(w, Token("reply", v)) = IF v = 0 THEN Token("type", 1) ELSE Silence
  /\ \A w, v : After(w, Token("type", v)) = Token("name", w.entry)
  /\ \A w, v : After(w, Token("name", v)) = Turn
  /\ \A w, v : After(w, Token("count", v)) = NextModule(w.modules, 0)
  /\ \A w, v : After(w, Token("path", v)) = Token("libs", <<v, w.modules[v]>>)
  /\ \A w, v : After(w, Token("libs", v)) = IF v[2] = 0 THEN NextModule(w.modules, v[1])
                                            ELSE Token("id", <<v[1], 1>>)
  /\ \A w, v : After(w, Token("id", v)) = Token("lib", v)
  /\ \A w, v : After(w, Token("lib", v)) = IF v[2] = w.modules[v[1]] THEN NextModule(w.modules, v[1])
                                           ELSE Token("id", <<v[1], v[2] + 1>>)
BY DEF After, Token

\* Then, by the kind of field.
LEMMA ThenIs ==
  /\ \A ids : Then(ids, Token("action", "READ_FILE")) = {Token("filePath", 1)}
  /\ \A ids : Then(ids, Token("action", "READ_DIR")) = {Token("dirPath", 1)}
  /\ \A ids : Then(ids, Token("action", "READ_MODULES")) = {Token("modulesAbi", 1)}
  /\ \A ids : Then(ids, Token("action", "WRITE_STATUS")) = {Token("statusAbi", 1)}
  /\ \A ids : Then(ids, Token("action", "READ_NATIVE_BRIDGE")) = {}
  /\ \A ids : Then(ids, Token("action", "READ_MAGISK_TMPFS_PATH")) = {}
  /\ \A ids, v : Then(ids, Token("statusAbi", v)) = {Token("status", Len(ids))}
  /\ \A ids, v : Then(ids, Token("status", v)) = IF ids = <<>> THEN Plain ELSE {Token("id", <<1, ids[1]>>)}
  /\ \A ids, v : Then(ids, Token("id", v)) = {Token("about", v)}
  /\ \A ids, v : Then(ids, Token("about", v)) = IF v[1] = Len(ids) THEN Plain
                                                ELSE {Token("id", <<v[1] + 1, ids[v[1] + 1]>>)}
  /\ \A ids, v : Then(ids, Token("filePath", v)) = {}
  /\ \A ids, v : Then(ids, Token("dirPath", v)) = {}
  /\ \A ids, v : Then(ids, Token("modulesAbi", v)) = {}
  /\ \A ids, v : Then(ids, Token("continue", v)) = {}
BY DEF Then, Token

\* Awaits, by the kind of field.
LEMMA AwaitsIs ==
  /\ \A ids : Awaits(ids, Token("action", "READ_NATIVE_BRIDGE")) = {"string"}
  /\ \A ids : Awaits(ids, Token("action", "READ_MAGISK_TMPFS_PATH")) = {"string"}
  /\ \A ids : Awaits(ids, Token("action", "READ_FILE")) = {}
  /\ \A ids : Awaits(ids, Token("action", "READ_DIR")) = {}
  /\ \A ids : Awaits(ids, Token("action", "READ_MODULES")) = {}
  /\ \A ids : Awaits(ids, Token("action", "WRITE_STATUS")) = {}
  /\ \A ids, v : Awaits(ids, Token("filePath", v)) = {"errno"}
  /\ \A ids, v : Awaits(ids, Token("dirPath", v)) = {"dirErrno"}
  /\ \A ids, v : Awaits(ids, Token("modulesAbi", v)) = {"count"}
  /\ \A ids, v : Awaits(ids, Token("continue", v)) = {"reply"}
  /\ \A ids, v : Awaits(ids, Token("statusAbi", v)) = {}
  /\ \A ids, v : Awaits(ids, Token("id", v)) = {}
  /\ \A ids, v : Awaits(ids, Token("status", v)) = IF ids = <<>> THEN {"idle"} ELSE {}
  /\ \A ids, v : Awaits(ids, Token("about", v)) = IF v[1] = Len(ids) THEN {"idle"} ELSE {}
BY DEF Awaits, Token

\* WRITE_STATUS, as it is written.
LEMMA StatusFollows ==
  ASSUME NEW S, NEW ids \in Seq(S)
  PROVE  /\ Follow(ids, {Token("action", "WRITE_STATUS")}, StatusFields(ids))
         /\ StatusFields(ids) # <<>> /\ Head(StatusFields(ids)) = Token("action", "WRITE_STATUS")
         /\ Awaits(ids, StatusFields(ids)[Len(StatusFields(ids))]) = {"idle"}
<1> DEFINE s == StatusFields(ids)
           n == Len(ids)
<1>1. /\ \E R : s \in Seq(R)
      /\ Len(s) = 3 + 2 * n /\ n \in Nat
      /\ \A j \in 1..(3 + 2 * n) : s[j] = StatusField(ids, j)
  BY StatusShape
<1>2. ids = <<>> <=> n = 0
  OBVIOUS
<1> HIDE DEF s
<1>3. /\ StatusField(ids, 1) = Token("action", "WRITE_STATUS")
      /\ StatusField(ids, 2) = Token("statusAbi", 1)
      /\ StatusField(ids, 3) = Token("status", n)
  BY DEF StatusField
<1>4. ASSUME NEW i \in 1..n
      PROVE  /\ StatusField(ids, 2 + 2 * i) = Token("id", <<i, ids[i]>>)
             /\ StatusField(ids, 3 + 2 * i) = Token("about", <<i, ids[i]>>)
  <2> HIDE DEF n
  <2>1. n \in Nat  BY <1>1
  <2> DEFINE a == 2 + 2 * i
             b == 3 + 2 * i
  <2>2. a \in Nat /\ a > 3 /\ a % 2 = 0 /\ (a - 2) \div 2 = i  BY <2>1
  <2>3. b \in Nat /\ b > 3 /\ b % 2 = 1 /\ (b - 2) \div 2 = i  BY <2>1
  <2> HIDE DEF a, b
  <2>4. StatusField(ids, a) = Token("id", <<i, ids[i]>>)  BY <2>2 DEF StatusField
  <2>5. StatusField(ids, b) = Token("about", <<i, ids[i]>>)  BY <2>3 DEF StatusField
  <2> QED  BY <2>4, <2>5 DEF a, b
<1> HIDE DEF n
<1>5. ASSUME NEW j \in 1..(2 + 2 * n) PROVE StatusField(ids, j + 1) \in Then(ids, StatusField(ids, j))
  <2>1. CASE j = 1  BY <1>3, <2>1, ThenIs
  <2>2. CASE j = 2  BY <1>3, <2>2, ThenIs DEF n
  <2>3. CASE j = 3
    <3>1. n > 0 /\ 1 \in 1..n /\ ids # <<>>  BY <1>1, <1>2, <2>3
    <3>2. StatusField(ids, 2 + 2 * 1) = Token("id", <<1, ids[1]>>)  BY <1>4, <3>1
    <3>3. j + 1 = 2 + 2 * 1  BY <2>3
    <3> QED  BY <1>3, <2>3, <3>1, <3>2, <3>3, ThenIs
  <2>4. CASE j > 3 /\ j % 2 = 0
    <3> DEFINE i == (j - 2) \div 2
    <3>1. i \in 1..n /\ j = 2 + 2 * i /\ j + 1 = 3 + 2 * i  BY <1>1, <2>4
    <3> HIDE DEF i
    <3>2. /\ StatusField(ids, j) = Token("id", <<i, ids[i]>>)
          /\ StatusField(ids, j + 1) = Token("about", <<i, ids[i]>>)
      BY <1>4, <3>1
    <3> QED  BY <3>2, ThenIs
  <2>5. CASE j > 3 /\ j % 2 = 1
    <3> DEFINE i == (j - 3) \div 2
    <3>1. i \in 1..n /\ j = 3 + 2 * i /\ j + 1 = 2 + 2 * (i + 1) /\ i + 1 \in 1..n /\ i # n
      BY <1>1, <2>5
    <3> HIDE DEF i
    <3>2. /\ StatusField(ids, j) = Token("about", <<i, ids[i]>>)
          /\ StatusField(ids, j + 1) = Token("id", <<i + 1, ids[i + 1]>>)
      BY <1>4, <3>1
    <3>3. Then(ids, Token("about", <<i, ids[i]>>)) = {Token("id", <<i + 1, ids[i + 1]>>)}
      BY <3>1, ThenIs DEF n
    <3> QED  BY <3>2, <3>3
  <2> QED  BY <1>1, <2>1, <2>2, <2>3, <2>4, <2>5
<1>6. Follow(ids, {Token("action", "WRITE_STATUS")}, s)
  <2>1. s[1] = Token("action", "WRITE_STATUS")
    <3>1. 1 \in 1..(3 + 2 * n)  BY <1>1
    <3> QED  BY <1>1, <1>3, <3>1
  <2>2. ASSUME NEW j \in 1..(Len(s) - 1) PROVE s[j + 1] \in Then(ids, s[j])
    <3>1. j \in 1..(2 + 2 * n) /\ j \in 1..(3 + 2 * n) /\ j + 1 \in 1..(3 + 2 * n)  BY <1>1
    <3> QED  BY <1>1, <1>5, <3>1
  <2> QED  BY <2>1, <2>2 DEF Follow
<1>7. Awaits(ids, s[Len(s)]) = {"idle"}
  <2>1. Len(s) \in 1..(3 + 2 * n)  BY <1>1
  <2>2. CASE n = 0
    <3>1. s[Len(s)] = Token("status", n)  BY <1>1, <1>3, <2>1, <2>2
    <3> QED  BY <1>2, <2>2, <3>1, AwaitsIs
  <2>3. CASE n # 0
    <3>1. n \in 1..n /\ Len(s) = 3 + 2 * n  BY <1>1, <2>3
    <3>2. s[Len(s)] = Token("about", <<n, ids[n]>>)  BY <1>1, <1>4, <2>1, <3>1
    <3> QED  BY <3>2, AwaitsIs DEF n
  <2> QED  BY <2>2, <2>3
<1>8. s # <<>> /\ Head(s) = Token("action", "WRITE_STATUS")
  <2>1. Len(s) > 0  BY <1>1
  <2>2. s # <<>> /\ Head(s) = s[1]  BY <1>1, <2>1
  <2>3. 1 \in 1..(3 + 2 * n)  BY <1>1
  <2> QED  BY <1>1, <1>3, <2>2, <2>3
<1> QED  BY <1>6, <1>7, <1>8 DEF s

\* A module of READ_MODULES, as it is written.
LEMMA ModuleChain ==
  ASSUME NEW w, w.modules \in Seq(Nat), NEW m \in 1..Len(w.modules)
  PROVE  /\ Chained(w, {Token("path", m)}, ModuleFields(w.modules, m))
         /\ Joined(w, {Token("path", m)}, ModuleFields(w.modules, m), NextModule(w.modules, m))
<1> DEFINE ms == w.modules
           s == ModuleFields(ms, m)
           n == ms[m]
<1>1. /\ \E R : s \in Seq(R)
      /\ Len(s) = 2 + 2 * n /\ n \in Nat /\ m \in Nat
      /\ \A j \in 1..(2 + 2 * n) : s[j] = ModuleField(ms, m, j)
  <2> HIDE DEF ms
  <2>1. ms \in Seq(Nat) /\ m \in 1..Len(ms)  BY DEF ms
  <2>2. ms[m] \in Nat /\ m \in Nat  BY <2>1
  <2> QED  BY <2>1, <2>2, ModuleShape
<1> HIDE DEF s
<1>2. /\ ModuleField(ms, m, 1) = Token("path", m)
      /\ ModuleField(ms, m, 2) = Token("libs", <<m, n>>)
  BY DEF ModuleField
<1>3. ASSUME NEW i \in 1..n
      PROVE  /\ ModuleField(ms, m, 1 + 2 * i) = Token("id", <<m, i>>)
             /\ ModuleField(ms, m, 2 + 2 * i) = Token("lib", <<m, i>>)
  <2> HIDE DEF n, ms
  <2>1. n \in Nat  BY <1>1
  <2> DEFINE a == 1 + 2 * i
             b == 2 + 2 * i
  <2>2. a \in Nat /\ a > 2 /\ a % 2 = 1 /\ (a - 1) \div 2 = i  BY <2>1
  <2>3. b \in Nat /\ b > 2 /\ b % 2 = 0 /\ (b - 1) \div 2 = i  BY <2>1
  <2> HIDE DEF a, b
  <2>4. ModuleField(ms, m, a) = Token("id", <<m, i>>)
    <3>1. a # 1 /\ a # 2  BY <2>2
    <3>2. ModuleField(ms, m, a) = Token(IF a % 2 = 1 THEN "id" ELSE "lib", <<m, (a - 1) \div 2>>)
      BY ONLY <2>2, <3>1 DEF ModuleField
    <3> QED  BY ONLY <2>2, <3>2
  <2>5. ModuleField(ms, m, b) = Token("lib", <<m, i>>)
    <3>1. b # 1 /\ b # 2 /\ b % 2 # 1  BY <2>3
    <3>2. ModuleField(ms, m, b) = Token(IF b % 2 = 1 THEN "id" ELSE "lib", <<m, (b - 1) \div 2>>)
      BY ONLY <2>3, <3>1 DEF ModuleField
    <3> QED  BY ONLY <2>3, <3>1, <3>2
  <2> QED  BY <2>4, <2>5 DEF a, b
<1> HIDE DEF n
<1>4. ASSUME NEW j \in 1..(1 + 2 * n) PROVE ModuleField(ms, m, j + 1) = After(w, ModuleField(ms, m, j))
  <2>1. CASE j = 1  BY <1>2, <2>1, AfterIs DEF n
  <2>2. CASE j = 2
    <3>1. n # 0 /\ 1 \in 1..n  BY <1>1, <2>2
    <3>2. ModuleField(ms, m, 1 + 2 * 1) = Token("id", <<m, 1>>)  BY <1>3, <3>1
    <3>3. j + 1 = 1 + 2 * 1  BY <2>2
    <3>4. After(w, Token("libs", <<m, n>>)) = Token("id", <<m, 1>>)  BY <3>1, AfterIs
    <3> QED  BY <1>2, <2>2, <3>2, <3>3, <3>4
  <2>3. CASE j > 2 /\ j % 2 = 1
    <3> DEFINE i == (j - 1) \div 2
    <3>1. i \in 1..n /\ j = 1 + 2 * i /\ j + 1 = 2 + 2 * i  BY <1>1, <2>3
    <3> HIDE DEF i, ms
    <3>2. /\ ModuleField(ms, m, j) = Token("id", <<m, i>>)
          /\ ModuleField(ms, m, j + 1) = Token("lib", <<m, i>>)
      BY <1>3, <3>1
    <3> QED  BY <3>2, AfterIs
  <2>4. CASE j > 2 /\ j % 2 = 0
    <3> DEFINE i == (j - 2) \div 2
    <3>1. i \in 1..n /\ j = 2 + 2 * i /\ j + 1 = 1 + 2 * (i + 1) /\ i + 1 \in 1..n /\ i # n
      BY <1>1, <2>4
    <3> HIDE DEF i
    <3>2. /\ ModuleField(ms, m, j) = Token("lib", <<m, i>>)
          /\ ModuleField(ms, m, j + 1) = Token("id", <<m, i + 1>>)
      <4> HIDE DEF ms
      <4> QED  BY <1>3, <3>1
    <3>3. After(w, Token("lib", <<m, i>>)) = Token("id", <<m, i + 1>>)
      <4> DEFINE v == <<m, i>>
      <4>1. v[1] = m /\ v[2] = i /\ w.modules[m] = n  BY DEF n
      <4> HIDE DEF v
      <4>2. \A x, y : After(x, Token("lib", y)) = IF y[2] = x.modules[y[1]] THEN NextModule(x.modules, y[1])
                                                 ELSE Token("id", <<y[1], y[2] + 1>>)
        BY AfterIs
      <4>3. After(w, Token("lib", v)) = IF v[2] = w.modules[v[1]] THEN NextModule(w.modules, v[1])
                                        ELSE Token("id", <<v[1], v[2] + 1>>)
        BY ONLY <4>2
      <4>4. After(w, Token("lib", v)) = Token("id", <<m, i + 1>>)  BY ONLY <3>1, <4>1, <4>3
      <4> QED  BY <4>4 DEF v
    <3> QED  BY <3>2, <3>3
  <2> QED  BY <1>1, <2>1, <2>2, <2>3, <2>4
<1>5. Chained(w, {Token("path", m)}, s)
  <2> HIDE DEF ms
  <2>1. s[1] = Token("path", m)
    <3>1. 1 \in 1..(2 + 2 * n)  BY <1>1
    <3> QED  BY <1>1, <1>2, <3>1
  <2>2. ASSUME NEW j \in 1..(Len(s) - 1) PROVE s[j + 1] = After(w, s[j])
    <3>1. j \in 1..(1 + 2 * n) /\ j \in 1..(2 + 2 * n) /\ j + 1 \in 1..(2 + 2 * n)  BY <1>1
    <3> QED  BY <1>1, <1>4, <3>1
  <2> QED  BY <2>1, <2>2 DEF Chained
<1>6. NextModule(ms, m) = After(w, s[Len(s)])
  <2>1. Len(s) \in 1..(2 + 2 * n)  BY <1>1
  <2>2. CASE n = 0
    <3>1. s[Len(s)] = Token("libs", <<m, n>>)
      <4> HIDE DEF ms
      <4> QED  BY <1>1, <1>2, <2>1, <2>2
    <3>2. After(w, Token("libs", <<m, n>>)) = NextModule(ms, m)
      <4> DEFINE v == <<m, n>>
      <4>1. v[1] = m /\ v[2] = n  OBVIOUS
      <4> HIDE DEF v
      <4>2. After(w, Token("libs", v)) = NextModule(ms, v[1])  BY <2>2, <4>1, AfterIs
      <4> QED  BY <4>1, <4>2 DEF v
    <3> QED  BY <3>1, <3>2
  <2>3. CASE n # 0
    <3>1. n \in 1..n /\ Len(s) = 2 + 2 * n  BY <1>1, <2>3
    <3>2. s[Len(s)] = Token("lib", <<m, n>>)
      <4> HIDE DEF ms
      <4> QED  BY <1>1, <1>3, <2>1, <3>1
    <3>3. After(w, Token("lib", <<m, n>>)) = NextModule(ms, m)
      <4> DEFINE v == <<m, n>>
      <4>1. v[1] = m /\ v[2] = ms[v[1]]  BY DEF n
      <4> HIDE DEF v
      <4>2. After(w, Token("lib", v)) = NextModule(ms, v[1])  BY <4>1, AfterIs
      <4> QED  BY <4>1, <4>2 DEF v
    <3> QED  BY <3>2, <3>3
  <2> QED  BY <2>2, <2>3
<1>7. s # <<>>
  BY <1>1
<1>8. Joined(w, {Token("path", m)}, s, NextModule(ms, m))
  <2> HIDE DEF ms
  <2> QED  BY <1>6, <1>7 DEF Joined
<1> QED  BY <1>5, <1>8 DEF s, ms

\* A block of a file, as it is written.
LEMMA ChunkChain ==
  ASSUME NEW w, NEW p \in Nat, NEW n \in Nat \ {0}, w.file \in Nat, p + n <= w.file
  PROVE  /\ Chained(w, {Token("chunk", p + 1)}, [i \in 1..n |-> Token("chunk", p + i)])
         /\ Joined(w, {Token("chunk", p + 1)}, [i \in 1..n |-> Token("chunk", p + i)],
                   IF p + n = w.file THEN Silence ELSE Token("chunk", p + n + 1))
<1> DEFINE all == {Token("chunk", p + i) : i \in 1..n}
           s == [i \in 1..n |-> Token("chunk", p + i)]
<1>1. s \in [1..n -> all]
  OBVIOUS
<1>2. \A j \in 1..n : s[j] = Token("chunk", p + j)
  OBVIOUS
<1> HIDE DEF s, all
<1>3. s \in Seq(all) /\ Len(s) = n
  BY <1>1, FromFunction
<1>4. s # <<>> /\ 1 \in 1..n /\ n \in 1..n
  BY <1>3
<1>5. ASSUME NEW j \in 1..(n - 1) PROVE s[j + 1] = After(w, s[j])
  <2>1. j \in 1..n /\ j + 1 \in 1..n /\ p + j # w.file /\ p + (j + 1) = p + j + 1  OBVIOUS
  <2>2. s[j] = Token("chunk", p + j) /\ s[j + 1] = Token("chunk", p + j + 1)  BY <1>2, <2>1
  <2> QED  BY <2>1, <2>2, AfterIs
<1>6. s[1] = Token("chunk", p + 1) /\ s[n] = Token("chunk", p + n)
  BY <1>2, <1>4
<1>7. Chained(w, {Token("chunk", p + 1)}, s)
  BY <1>3, <1>5, <1>6 DEF Chained
<1>8. After(w, s[n]) = IF p + n = w.file THEN Silence ELSE Token("chunk", p + n + 1)
  BY <1>6, AfterIs
<1>9. Joined(w, {Token("chunk", p + 1)}, s, IF p + n = w.file THEN Silence ELSE Token("chunk", p + n + 1))
  BY <1>3, <1>4, <1>8 DEF Joined
<1> QED  BY <1>7, <1>9 DEF s

-----------------------------------------------------------------------------
(* What a step that reads a field finds, and what it leaves on the streams. *)

DueFacts ==
  /\ pc \in {"idle", "end"} => Due = {Silence}
  /\ pc = "entry" => Due = {Turn}
  /\ pc = "string" => Due = {Token("string", 1)}
  /\ pc = "errno" => Due = {Token("errno", 0), Token("errno", 1)}
  /\ pc = "size" => Due = {Token("size", file)}
  /\ pc = "chunk" => Due = {Token("chunk", file - need + 1)}
  /\ pc = "dirErrno" => Due = {Token("dirErrno", 0), Token("dirErrno", 1)}
  /\ pc = "reply" => Due = {Token("reply", IF index > Len(got) THEN 0 ELSE -1)}
  /\ pc = "type" => Due = {Token("type", 1)}
  /\ pc = "name" => Due = {Token("name", index)}
  /\ pc = "count" => Due = {Token("count", Len(modules))}
  /\ pc = "path" => Due = {Token("path", Len(modules) - need + 1)}
  /\ pc = "libs" => Due = {Token("libs", <<Len(modules) - need + 1, modules[Len(modules) - need + 1]>>)}
  /\ pc \in {"id", "lib"} => Due = {Token(pc, Place)}

WantedFacts ==
  /\ sv = "action" => Wanted = Plain \cup (IF recorded THEN {} ELSE {Token("action", "READ_MODULES")})
                                     \cup (IF Unreported THEN {Token("action", "WRITE_STATUS")} ELSE {})
  /\ sv \in {"filePath", "dirPath", "modulesAbi", "statusAbi", "continue"} => Wanted = {Token(sv, 1)}
  /\ sv = "status" => Wanted = {Token("status", Len(registered))}
  /\ sv \in {"id", "about"} => Wanted = {Token(sv, <<Len(listed) + 1, registered[Len(listed) + 1]>>)}
  /\ sv \in Working => Wanted = {}

ComingFacts ==
  /\ sv = "action" => Coming = Silence
  /\ sv = "continue" => Coming = Turn
  /\ sv = "stat" => Coming = Token("size", file)
  /\ sv = "copy" => Coming = Token("chunk", pos + 1)
  /\ sv = "modules" => Coming = Token("path", written + 1)
  /\ Coming = Silence => sv = "action"
  /\ Coming = Turn => sv = "continue"

\* Due, Wanted and Coming, by where the two ends are.
LEMMA Unfolded == DueFacts /\ DueFacts' /\ WantedFacts /\ WantedFacts' /\ ComingFacts /\ ComingFacts'
<1>1. DueFacts /\ DueFacts'  BY DEF DueFacts, Due
<1>2. WantedFacts /\ WantedFacts'  BY DEF WantedFacts, Wanted, Working
<1>3. ComingFacts /\ ComingFacts'  BY DEF ComingFacts, Coming, Token, Silence, Turn
<1> QED  BY <1>1, <1>2, <1>3

\* What the client finds when there is something to read.
LEMMA Reads ==
  ASSUME TypeInv, Sync, pc \in Reading, outbox = <<>>, toClient # <<>>
  PROVE  /\ Open /\ Up = <<>> /\ toServer = <<>>
         /\ Down \in Seq(DownFields) /\ Down # <<>> /\ Down[1] = Head(toClient) /\ Head(toClient) \in Due
         /\ Tail(toClient) \o out = Tail(Down) /\ Tail(Down) \in Seq(DownFields)
         /\ Chained(World, Due, Down) /\ (sv # "ended" => Joined(World, Due, Down, Coming))
<1>1. /\ toClient \in Seq(DownFields) /\ out \in Seq(DownFields)
      /\ toServer \in Seq(UpFields) /\ outbox \in Seq(UpFields)
  BY DEF TypeInv, FieldsInv
<1>2. /\ Tail(toClient) \o out = Tail(Down) /\ Down[1] = Head(toClient) /\ Down # <<>>
  BY ONLY <1>1, toClient # <<>>, Takes DEF Down
<1>3. Down \in Seq(DownFields)
  BY <1>1, Joins DEF Down
<1>4. Tail(Down) \in Seq(DownFields)
  BY <1>2, <1>3
<1>5. pc # "closed"  BY DEF Reading
<1>6. Open  BY <1>5 DEF Open
<1>7. Up = <<>>  BY <1>2, <1>6 DEF Sync, DownInv
<1>8. toServer = <<>>
  <2>1. Len(toServer \o outbox) = Len(toServer) + Len(outbox) /\ Len(toServer) \in Nat /\ Len(outbox) \in Nat
    BY <1>1, Joins
  <2>2. Len(toServer \o outbox) = 0  BY <1>7 DEF Up
  <2> QED  BY <1>1, <2>1, <2>2
<1>9. Chained(World, Due, Down) /\ (sv # "ended" => Joined(World, Due, Down, Coming))
  BY <1>6, <1>7 DEF Sync, DownInv
<1>10. Head(toClient) \in Due  BY <1>2, <1>9 DEF Chained
<1> QED  BY <1>2, <1>3, <1>4, <1>6, <1>7, <1>8, <1>9, <1>10

\* A read that brings the client where the next field is due.
LEMMA TakeSync ==
  ASSUME TypeInv, Sync, NEW k \in Reading, Take(k), outbox' = <<>>, After(World, Head(toClient)) \in Due'
  PROVE  UpInv' /\ DownInv'
<1>1. pc \in Reading /\ outbox = <<>> /\ toClient # <<>> /\ toClient' = Tail(toClient) /\ toServer' = toServer
      /\ UNCHANGED <<serverVars, deviceVars>>
  BY DEF Take, OnlyClient
<1>2. /\ Open /\ Up = <<>> /\ toServer = <<>>
      /\ Down \in Seq(DownFields) /\ Down # <<>> /\ Down[1] = Head(toClient) /\ Head(toClient) \in Due
      /\ Tail(toClient) \o out = Tail(Down) /\ Tail(Down) \in Seq(DownFields)
      /\ Chained(World, Due, Down) /\ (sv # "ended" => Joined(World, Due, Down, Coming))
  BY <1>1, Reads
<1>3. World' = World /\ Coming' = Coming /\ sv' = sv /\ Down' = Tail(Down)
  BY <1>1, <1>2 DEF World, Coming, Down
<1>4. Up' = <<>>
  BY <1>1, <1>2 DEF Up
<1>5. /\ Chained(World, Due', Tail(Down))
      /\ \A c : Joined(World, Due, Down, c) => Joined(World, Due', Tail(Down), c)
  BY <1>2, ChainTail
<1>6. UpInv'
  BY <1>4 DEF UpInv, Follow
<1>7. DownInv'
  BY <1>2, <1>3, <1>4, <1>5 DEF DownInv
<1> QED  BY <1>6, <1>7

\* A read after which the server has nothing more to say.
LEMMA TakeLast ==
  ASSUME TypeInv, Sync, NEW k \in Reading, Take(k), After(World, Head(toClient)) \in {Silence, Turn}
  PROVE  /\ Down' = <<>> /\ toClient' = <<>> /\ toServer' = <<>>
         /\ sv # "ended" => sv = IF After(World, Head(toClient)) = Silence THEN "action" ELSE "continue"
<1> DEFINE t == After(World, Head(toClient))
<1>1. pc \in Reading /\ outbox = <<>> /\ toClient # <<>> /\ toClient' = Tail(toClient) /\ toServer' = toServer
      /\ UNCHANGED <<serverVars, deviceVars>>
  BY DEF Take, OnlyClient
<1>2. /\ toServer = <<>>
      /\ Down \in Seq(DownFields) /\ Down # <<>> /\ Down[1] = Head(toClient) /\ Head(toClient) \in Due
      /\ Tail(toClient) \o out = Tail(Down) /\ Tail(Down) \in Seq(DownFields)
      /\ Chained(World, Due, Down) /\ (sv # "ended" => Joined(World, Due, Down, Coming))
  BY <1>1, Reads
<1>3. Down' = Tail(Down)
  BY <1>1, <1>2 DEF Down
<1>4. t = After(World, Down[1]) /\ t \in {Silence, Turn} /\ t \in {t}
  BY <1>2
<1> HIDE DEF t
<1>5. /\ Chained(World, {t}, Tail(Down))
      /\ \A c : Joined(World, Due, Down, c) => Joined(World, {t}, Tail(Down), c)
  BY <1>2, <1>4, ChainTail
<1>6. Tail(Down) = <<>> /\ \A c : Joined(World, {t}, Tail(Down), c) => c = t
  BY <1>2, <1>4, <1>5, NothingDue
<1>7. sv # "ended" => Coming = t
  BY <1>2, <1>5, <1>6
<1>8. sv # "ended" => sv = IF t = Silence THEN "action" ELSE "continue"
  BY <1>4, <1>7, Unfolded DEF ComingFacts
<1>9. toClient' = <<>>
  <2>1. toClient' \o out' = <<>> /\ toClient' \in Seq(DownFields) /\ out' \in Seq(DownFields)
    BY <1>1, <1>3, <1>6, Takes DEF Down, TypeInv, FieldsInv
  <2>2. Len(toClient' \o out') = Len(toClient') + Len(out') /\ Len(toClient') \in Nat /\ Len(out') \in Nat
    BY <2>1, Joins
  <2>3. Len(toClient') = 0  BY <2>1, <2>2
  <2> QED  BY <2>1, <2>3
<1> QED  BY <1>1, <1>2, <1>3, <1>6, <1>8, <1>9 DEF t

\* What the server finds when there is something to read.
LEMMA Hears ==
  ASSUME TypeInv, Sync, sv # "ended", out = <<>>, toServer # <<>>
  PROVE  /\ Up \in Seq(UpFields) /\ Up # <<>> /\ Up[1] = Head(toServer) /\ Head(toServer) \in Wanted
         /\ Tail(toServer) \o outbox = Tail(Up)
         /\ Follow(registered, Then(registered, Head(toServer)), Tail(Up))
         /\ pc # "closed" => /\ Down = <<>> /\ toClient = <<>>
                             /\ Tail(Up) = <<>> => pc \in Awaits(registered, Head(toServer))
                             /\ Tail(Up) # <<>> => pc \in Awaits(registered, Tail(Up)[Len(Tail(Up))])
         /\ pc \in Idling => loaded /\ pc = "idle"
<1>1. /\ toClient \in Seq(DownFields) /\ out \in Seq(DownFields)
      /\ toServer \in Seq(UpFields) /\ outbox \in Seq(UpFields)
  BY DEF TypeInv, FieldsInv
<1>2. /\ Tail(toServer) \o outbox = Tail(Up) /\ Up[1] = Head(toServer) /\ Up # <<>>
  BY ONLY <1>1, toServer # <<>>, Takes DEF Up
<1>3. Up \in Seq(UpFields)
  BY <1>1, Joins DEF Up
<1>4. Follow(registered, Wanted, Up) /\ (pc # "closed" => pc \in Awaits(registered, Up[Len(Up)]))
  BY <1>2 DEF Sync, UpInv
<1>5. /\ Up[1] \in Wanted /\ Follow(registered, Then(registered, Up[1]), Tail(Up))
      /\ Tail(Up) # <<>> => Tail(Up)[Len(Tail(Up))] = Up[Len(Up)]
      /\ Tail(Up) = <<>> => Up[Len(Up)] = Up[1]
  BY <1>2, <1>3, <1>4, FollowTail
<1>6. pc # "closed" => Down = <<>> /\ toClient = <<>>
  <2>1. pc # "closed" => Down = <<>>  BY <1>2 DEF Sync, DownInv, Open
  <2>2. Down = <<>> => toClient = <<>>
    <3>1. Len(toClient \o out) = Len(toClient) + Len(out) /\ Len(toClient) \in Nat /\ Len(out) \in Nat
      BY <1>1, Joins
    <3> QED  BY <1>1, <3>1 DEF Down
  <2> QED  BY <2>1, <2>2
<1>7. pc \in Idling => loaded /\ pc = "idle"
  <2>1. pc \in Idling => pc # "closed" /\ pc \in {"idle", "entry", "end"}  BY DEF Idling
  <2>2. \A t : Awaits(registered, t) \subseteq {"string", "errno", "dirErrno", "count", "reply", "idle"}
    BY DEF Awaits
  <2>3. pc \in Idling => pc = "idle"  BY <1>4, <2>1, <2>2
  <2> QED  BY <1>2, <2>3 DEF Sync, UpInv
<1> QED  BY <1>2, <1>3, <1>4, <1>5, <1>6, <1>7

\* A read that leaves the server with the next field of the request, or with the answer.
LEMMA GetSync ==
  ASSUME TypeInv, Sync, NEW k \in Waiting, Get(k), out' \in Seq(DownFields),
         sv' # "ended" => Then(registered, Head(toServer)) \subseteq Wanted',
         pc # "closed" /\ Tail(Up) # <<>> => out' = <<>>,
         pc # "closed" /\ Tail(Up) = <<>> =>
           Chained(World', Due', out') /\ (sv' # "ended" => Joined(World', Due', out', Coming')),
         sv' = "ended" => out' = <<>>
  PROVE  UpInv' /\ DownInv'
<1>1. /\ sv # "ended" /\ out = <<>> /\ toServer # <<>> /\ toServer' = Tail(toServer) /\ toClient' = toClient
      /\ UNCHANGED clientVars
  BY DEF Get, OnlyServer, Waiting
<1>2. /\ Up \in Seq(UpFields) /\ Up # <<>>
      /\ Tail(toServer) \o outbox = Tail(Up)
      /\ Follow(registered, Then(registered, Head(toServer)), Tail(Up))
      /\ pc # "closed" => /\ Down = <<>> /\ toClient = <<>>
                          /\ Tail(Up) # <<>> => pc \in Awaits(registered, Tail(Up)[Len(Tail(Up))])
      /\ pc \in Idling => loaded
  BY <1>1, Hears
<1>3. Up' = Tail(Up)
  BY <1>1, <1>2 DEF Up
<1>4. UpInv'
  <2>1. sv' # "ended" => Follow(registered, Wanted', Tail(Up))  BY <1>2, FollowWider
  <2>2. pc = "idle" => loaded  BY <1>2 DEF Idling
  <2> QED  BY <1>1, <1>2, <1>3, <2>1, <2>2 DEF UpInv
<1>5. pc # "closed" => Down' = out'
  <2>1. pc # "closed" => toClient' = <<>>  BY <1>1, <1>2
  <2>2. <<>> \o out' = out'  OBVIOUS
  <2> QED  BY <2>1, <2>2 DEF Down
<1>6. DownInv'
  <2>1. CASE pc = "closed"  BY <1>1, <2>1 DEF DownInv, Open
  <2>2. CASE pc # "closed"  BY <1>1, <1>3, <1>5, <2>2 DEF DownInv
  <2> QED  BY <2>1, <2>2
<1> QED  BY <1>4, <1>6

\* Whoever waits for the answer of a DirIter has written one field, and no other is on its way.
LEMMA OneReply ==
  ASSUME TypeInv, Sync, sv # "ended", Up # <<>>, pc = "reply"
  PROVE  sv = "continue" /\ Up[1] = Token("continue", 1) /\ Tail(Up) = <<>>
<1>1. Up \in Seq(UpFields)
  BY Joins DEF Up, TypeInv, FieldsInv
<1>2. Follow(registered, Wanted, Up) /\ "reply" \in Awaits(registered, Up[Len(Up)])
  BY DEF Sync, UpInv
<1>3. Up[Len(Up)].k = "continue"
  BY <1>2 DEF Awaits
<1>4. \A t, u : u \in Then(registered, t) => u.k # "continue"
  BY DEF Then, Token, Plain
<1>5. Len(Up) \in Nat /\ Len(Up) > 0
  BY <1>1
<1>6. Len(Up) = 1
  <2>1. ASSUME Len(Up) > 1 PROVE FALSE
    <3> DEFINE j == Len(Up) - 1
    <3>1. j \in 1..(Len(Up) - 1) /\ j + 1 = Len(Up)  BY <1>5, <2>1
    <3> HIDE DEF j
    <3>2. Up[j + 1] \in Then(registered, Up[j])  BY <1>2, <3>1 DEF Follow
    <3> QED  BY <1>3, <1>4, <3>1, <3>2
  <2> QED  BY <1>5, <2>1
<1>7. Up[1] \in Wanted /\ Up[1].k = "continue"
  BY <1>2, <1>3, <1>6 DEF Follow
<1>8. sv = "continue" /\ Wanted = {Token("continue", 1)}
  BY <1>7 DEF Wanted, Token, Plain
<1>9. Tail(Up) = <<>>
  <2>1. Len(Tail(Up)) = 0 /\ Tail(Up) \in Seq(UpFields)  BY <1>1, <1>5, <1>6
  <2>2. \A s \in Seq(UpFields) : Len(s) = 0 => s = <<>>  OBVIOUS
  <2> QED  BY ONLY <2>1, <2>2
<1> QED  BY <1>7, <1>8, <1>9

-----------------------------------------------------------------------------
(* The client's calls and writes. *)

\* Between two calls the server waits for an action, unless the last one still has to come.
LEMMA Settled ==
  ASSUME TypeInv, Sync, pc \in {"idle", "end"}, outbox = <<>>
  PROVE  /\ Up = toServer /\ (Open => Down = <<>>)
         /\ sv # "ended" => IF Up = <<>> THEN sv = "action"
                            ELSE loaded /\ Then(registered, Up[Len(Up)]) = Plain /\ sv # "copy"
<1>1. Up = toServer
  BY DEF Up, TypeInv, FieldsInv
<1>2. Due = {Silence}
  BY Unfolded DEF DueFacts
<1>3. Down \in Seq(DownFields)
  BY Joins DEF Down, TypeInv, FieldsInv
<1>4. Open /\ Up = <<>> => Down = <<>> /\ (sv # "ended" => sv = "action")
  <2>1. SUFFICES ASSUME Open, Up = <<>> PROVE Down = <<>> /\ (sv # "ended" => sv = "action")
    OBVIOUS
  <2>2. Chained(World, {Silence}, Down) /\ (sv # "ended" => Joined(World, {Silence}, Down, Coming))
    BY <1>2, <2>1 DEF Sync, DownInv
  <2>3. Down = <<>> /\ \A c : Joined(World, {Silence}, Down, c) => c = Silence
    BY <1>3, <2>2, NothingDue
  <2> QED  BY <2>2, <2>3, Unfolded DEF ComingFacts
<1>5. Open /\ Up # <<>> => Down = <<>>
  BY DEF Sync, DownInv
<1>6. sv # "ended" /\ Up # <<>> => loaded /\ Then(registered, Up[Len(Up)]) = Plain /\ sv # "copy"
  <2>1. SUFFICES ASSUME sv # "ended", Up # <<>>
                 PROVE  loaded /\ Then(registered, Up[Len(Up)]) = Plain /\ sv # "copy"
    OBVIOUS
  <2>2. pc \in Awaits(registered, Up[Len(Up)])  BY <2>1 DEF Sync, UpInv
  <2>3. pc = "idle"  BY <2>2 DEF Awaits
  <2>4. loaded  BY <2>1, <2>3 DEF Sync, UpInv
  <2>5. Then(registered, Up[Len(Up)]) = Plain  BY <2>2, <2>3 DEF Awaits, Then, Token
  <2>6. sv # "copy"  BY <2>1, Unfolded DEF Sync, UpInv, Follow, WantedFacts, Working
  <2> QED  BY <2>4, <2>5, <2>6
<1>7. sv # "ended" => Open
  BY DEF Open
<1> QED  BY <1>1, <1>4, <1>5, <1>6, <1>7

\* A request that starts while the server is between two actions, or on its way there.
LEMMA AskSync ==
  ASSUME TypeInv, Sync, NEW fields \in Seq(UpFields), fields # <<>>, NEW next, NEW sizes,
         Ask(fields, next, sizes), ~misused', next \in {"string", "errno", "dirErrno", "count"},
         fields[1] # Token("action", "WRITE_STATUS"),
         Follow(registered, Plain \cup (IF loaded THEN {} ELSE {Token("action", "READ_MODULES")}), fields),
         next \in Awaits(registered, fields[Len(fields)]),
         IF next = "count" THEN ~loaded /\ loaded' ELSE loaded' = loaded
  PROVE  Sync'
<1>1. /\ pc \in {"idle", "end"} /\ outbox = <<>> /\ outbox' = fields /\ pc' = next /\ got' = <<>>
      /\ UNCHANGED <<toServer, toClient, registered, serverVars, modules>>
  BY DEF Ask, Idling
<1>2. /\ Up = toServer /\ (Open => Down = <<>>)
      /\ sv # "ended" => IF Up = <<>> THEN sv = "action"
                         ELSE loaded /\ Then(registered, Up[Len(Up)]) = Plain /\ sv # "copy"
  BY <1>1, Settled
<1>3. toServer \in Seq(UpFields)
  BY DEF TypeInv, FieldsInv
<1>4. Up' = Up \o fields
  BY <1>1, <1>2 DEF Up
<1>5. Wanted' = Wanted
  <2>1. Unreported' = Unreported  BY <1>1 DEF Unreported, Loading
  <2> QED  BY <1>1, <2>1 DEF Wanted
<1>6. sv # "ended" => Follow(registered, Wanted, Up)
  BY DEF Sync, UpInv
<1>7. ~loaded => ~recorded
  BY DEF Sync, StatusInv
<1>8. sv # "ended" => /\ Follow(registered, Wanted, Up \o fields) /\ Up \o fields # <<>>
                      /\ (Up \o fields)[Len(Up \o fields)] = fields[Len(fields)]
  <2>1. SUFFICES ASSUME sv # "ended"
                 PROVE  Follow(registered, IF Up = <<>> THEN Wanted ELSE Then(registered, Up[Len(Up)]), fields)
    BY <1>2, <1>3, <1>6, FollowJoin
  <2>2. CASE Up = <<>>
    <3>1. sv = "action"  BY <1>2, <2>1, <2>2
    <3>2. Plain \cup (IF loaded THEN {} ELSE {Token("action", "READ_MODULES")}) \subseteq Wanted
      BY <1>7, <3>1, Unfolded DEF WantedFacts
    <3>3. Follow(registered, Wanted, fields)  BY <3>2, FollowWider
    <3> QED  BY <2>2, <3>3
  <2>3. CASE Up # <<>>
    <3>1. loaded /\ Then(registered, Up[Len(Up)]) = Plain  BY <1>2, <2>1, <2>3
    <3>2. Plain \cup (IF loaded THEN {} ELSE {Token("action", "READ_MODULES")}) = Plain  BY <3>1
    <3> QED  BY <2>3, <3>1, <3>2
  <2> QED  BY <2>2, <2>3
<1>9. Up' # <<>>
  <2>1. Len(toServer \o fields) = Len(toServer) + Len(fields) /\ Len(toServer) \in Nat /\ Len(fields) \in Nat
    BY <1>3, Joins
  <2>2. Len(fields) > 0  OBVIOUS
  <2> QED  BY <1>2, <1>4, <2>1, <2>2
<1>10. NotLost'
  BY <1>1 DEF Sync, NotLost
<1>11. UpInv'
  BY <1>1, <1>4, <1>5, <1>8 DEF UpInv
<1>12. DownInv'
  <2>1. Open' => Open  BY <1>1 DEF Open
  <2>2. Down' = Down  BY <1>1 DEF Down
  <2> QED  BY <1>2, <1>9, <2>1, <2>2 DEF DownInv
<1>13. StatusInv'
  BY <1>1 DEF Sync, StatusInv, Loading
<1>14. FileInv'
  <2>1. sv # "copy"  BY <1>2
  <2> QED  BY <1>1, <2>1 DEF FileInv
<1>15. DirInv'
  BY <1>1, <1>9 DEF DirInv
<1>16. LoadInv'
  <2>1. ~Reporting'
    <3>1. Head(fields) = fields[1]  OBVIOUS
    <3> QED  BY <1>1, <3>1 DEF Reporting
  <2>2. Ordered(<<>>)  BY DEF Ordered
  <2>3. pc' = "count" => registered' = <<>>  BY <1>1 DEF Sync, StatusInv
  <2> QED  BY <1>1, <2>1, <2>2, <2>3 DEF LoadInv, Loading
<1> QED  BY <1>10, <1>11, <1>12, <1>13, <1>14, <1>15, <1>16 DEF Sync

\* Every call of the client but a misuse of a DirIter.
LEMMA CallSync == ASSUME TypeInv, Sync, Call, ~misused' PROVE Sync'
<1>1. ASSUME NEW a \in {"READ_NATIVE_BRIDGE", "READ_MAGISK_TMPFS_PATH"}, AskString(a) PROVE Sync'
  <2> DEFINE fields == <<Token("action", a)>>
  <2>1. fields \in Seq(UpFields) /\ fields # <<>> /\ Len(fields) = 1 /\ fields[1] = Token("action", a)
    <3>1. Token("action", a) \in UpFields  BY PlainField DEF Actions, PlainActions
    <3> QED  BY ONLY <3>1
  <2>2. Ask(fields, "string", {0}) /\ loaded' = loaded  BY <1>1 DEF AskString
  <2> HIDE DEF fields
  <2>3. fields[1] \in Plain /\ fields[1] # Token("action", "WRITE_STATUS")
    BY <2>1 DEF Plain, PlainActions, Token
  <2>4. Follow(registered, Plain \cup (IF loaded THEN {} ELSE {Token("action", "READ_MODULES")}), fields)
    BY <2>1, <2>3 DEF Follow
  <2>5. "string" \in Awaits(registered, fields[Len(fields)])  BY <2>1, AwaitsIs
  <2> QED  BY <2>1, <2>2, <2>3, <2>4, <2>5, AskSync
<1>2. ASSUME NEW a \in {"READ_FILE", "READ_DIR", "READ_MODULES"}, NEW k \in {"filePath", "dirPath", "modulesAbi"},
             NEW next \in {"errno", "dirErrno", "count"}, NEW sizes,
             Ask(<<Token("action", a), Token(k, 1)>>, next, sizes),
             a = "READ_FILE" => k = "filePath" /\ next = "errno" /\ loaded' = loaded,
             a = "READ_DIR" => k = "dirPath" /\ next = "dirErrno" /\ loaded' = loaded,
             a = "READ_MODULES" => k = "modulesAbi" /\ next = "count" /\ ~loaded /\ loaded'
      PROVE  Sync'
  <2> DEFINE fields == <<Token("action", a), Token(k, 1)>>
  <2>1. /\ fields \in Seq(UpFields) /\ fields # <<>> /\ Len(fields) = 2
        /\ fields[1] = Token("action", a) /\ fields[2] = Token(k, 1)
    <3>1. Token("action", a) \in UpFields /\ Token(k, 1) \in UpFields  BY PlainField DEF Actions, PlainActions
    <3> QED  BY ONLY <3>1
  <2>2. Ask(fields, next, sizes)  BY <1>2
  <2> HIDE DEF fields
  <2>3. /\ fields[1] \in Plain \cup (IF loaded THEN {} ELSE {Token("action", "READ_MODULES")})
        /\ fields[1] # Token("action", "WRITE_STATUS")
    BY <1>2, <2>1 DEF Plain, PlainActions, Token
  <2>4. fields[2] \in Then(registered, fields[1])  BY <1>2, <2>1, ThenIs
  <2>5. Follow(registered, Plain \cup (IF loaded THEN {} ELSE {Token("action", "READ_MODULES")}), fields)
    BY <2>1, <2>3, <2>4 DEF Follow
  <2>6. next \in Awaits(registered, fields[Len(fields)])  BY <1>2, <2>1, AwaitsIs
  <2>7. IF next = "count" THEN ~loaded /\ loaded' ELSE loaded' = loaded  BY <1>2
  <2> QED  BY <2>1, <2>2, <2>3, <2>5, <2>6, <2>7, AskSync
<1>3. CASE ReadFile  BY <1>2, <1>3 DEF ReadFile
<1>4. CASE ReadDir  BY <1>2, <1>4 DEF ReadDir
<1>5. CASE Load  BY <1>2, <1>5 DEF Load
<1>6. CASE NextEntry
  <2>1. /\ pc = "entry" /\ outbox = <<>> /\ outbox' = <<Token("continue", 1)>> /\ pc' = "reply"
        /\ UNCHANGED <<toServer, toClient, got, loaded, registered, serverVars, deviceVars>>
    BY <1>6 DEF NextEntry, OnlyClient
  <2>2. toServer \in Seq(UpFields) /\ Down \in Seq(DownFields) /\ Up = toServer
    BY <2>1, Joins DEF TypeInv, FieldsInv, Up, Down
  <2>3. sv # "ended" => Up = <<>>
    <3>1. \A t : "entry" \notin Awaits(registered, t)  BY DEF Awaits
    <3> QED  BY <2>1, <3>1 DEF Sync, UpInv
  <2>4. Open /\ Up = <<>> => Down = <<>> /\ (sv # "ended" => sv = "continue")
    <3>1. SUFFICES ASSUME Open, Up = <<>> PROVE Down = <<>> /\ (sv # "ended" => sv = "continue")
      OBVIOUS
    <3>2. Due = {Turn}  BY <2>1, Unfolded DEF DueFacts
    <3>3. Chained(World, {Turn}, Down) /\ (sv # "ended" => Joined(World, {Turn}, Down, Coming))
      BY <3>1, <3>2 DEF Sync, DownInv
    <3>4. Down = <<>> /\ \A c : Joined(World, {Turn}, Down, c) => c = Turn
      BY <2>2, <3>3, NothingDue
    <3> QED  BY <3>3, <3>4, Unfolded DEF ComingFacts
  <2>5. Open => Down = <<>>  BY <2>4 DEF Sync, DownInv
  <2>6. Up' = Up \o <<Token("continue", 1)>> /\ Up' # <<>>  BY <2>1, <2>2 DEF Up
  <2>7. UpInv'
    <3>1. SUFFICES ASSUME sv # "ended" PROVE UpInv'
      BY <2>1 DEF UpInv
    <3>2. Up = <<>> /\ sv = "continue"  BY <2>1, <2>3, <2>4, <3>1 DEF Open
    <3>3. Up' = <<Token("continue", 1)>>  BY <2>6, <3>2
    <3>4. Wanted' = {Token("continue", 1)}  BY <2>1, <3>2, Unfolded DEF WantedFacts
    <3>5. Follow(registered, Wanted', Up')  BY <3>3, <3>4 DEF Follow
    <3>6. "reply" \in Awaits(registered, Up'[Len(Up')])  BY <3>3, AwaitsIs
    <3> QED  BY <2>1, <3>5, <3>6 DEF UpInv
  <2>8. DownInv'
    <3>1. Open' => Open  BY <2>1 DEF Open
    <3>2. Down' = Down  BY <2>1 DEF Down
    <3> QED  BY <2>5, <2>6, <3>1, <3>2 DEF DownInv
  <2>9. NotLost' /\ StatusInv' /\ FileInv'
    BY <2>1 DEF Sync, NotLost, StatusInv, FileInv, Loading
  <2>10. DirInv'
    BY <2>1, <2>6 DEF Sync, DirInv, Open
  <2>11. LoadInv'
    <3>1. ~Reporting'  BY <2>1 DEF Reporting, Token
    <3> QED  BY <2>1, <3>1 DEF LoadInv, Loading
  <2> QED  BY <2>7, <2>8, <2>9, <2>10, <2>11 DEF Sync
<1> QED  BY <1>1, <1>3, <1>4, <1>5, <1>6 DEF Call

\* The client writes a field.
LEMMA WriteSync == ASSUME TypeInv, Sync, WriteField PROVE Sync'
<1>1. /\ outbox # <<>> /\ toServer' = Append(toServer, Head(outbox)) /\ outbox' = Tail(outbox)
      /\ UNCHANGED <<toClient, pc, need, libs, got, loaded, registered, serverVars, deviceVars>>
  BY DEF WriteField, OnlyClient
<1>2. Up' = Up
  <2>1. toServer \in Seq(UpFields) /\ outbox \in Seq(UpFields)  BY DEF TypeInv, FieldsInv
  <2>2. Append(toServer, Head(outbox)) \o Tail(outbox) = toServer \o outbox  BY <1>1, <2>1, Moves
  <2> QED  BY <1>1, <2>2 DEF Up
<1>3. Down' = Down /\ Open' = Open /\ World' = World /\ Due' = Due /\ Coming' = Coming /\ Wanted' = Wanted
  BY <1>1 DEF Down, Open, World, Due, Place, Coming, Wanted, Unreported
<1>4. ~Reporting'
  <2>1. \A j \in 2..Len(outbox) : outbox[j] # Token("action", "WRITE_STATUS")
    BY DEF TypeInv, FieldsInv
  <2>2. Tail(outbox) # <<>> => Head(Tail(outbox)) = outbox[2] /\ 2 \in 2..Len(outbox)
    BY <1>1 DEF TypeInv, FieldsInv
  <2> QED  BY <1>1, <2>1, <2>2 DEF Reporting
<1>5. NotLost' /\ UpInv' /\ StatusInv' /\ FileInv'
  BY <1>1, <1>2, <1>3 DEF Sync, NotLost, UpInv, StatusInv, FileInv
<1>6. DownInv'
  BY <1>1, <1>2, <1>3 DEF Sync, DownInv
<1>7. DirInv'
  BY <1>1, <1>2, <1>3 DEF Sync, DirInv
<1>8. LoadInv'
  <2>1. Libs' = Libs /\ Past(Place)' = Past(Place) /\ Place' = Place  BY <1>1 DEF Place, Libs, Past
  <2> QED  BY <1>1, <1>4, <2>1 DEF Sync, LoadInv
<1> QED  BY <1>5, <1>6, <1>7, <1>8 DEF Sync

\* The client finds that the server has gone.
LEMMA BrokenSync == ASSUME TypeInv, Sync, WriteFails \/ ReadFails PROVE Sync'
<1>1. /\ sv = "ended" /\ outbox' = <<>> /\ pc # "closed" /\ pc' \in {"idle", "end", "errno", "size"}
      /\ pc' \in {"errno", "size"} => pc = "errno" /\ got' = got
      /\ UNCHANGED <<toServer, toClient, libs, loaded, registered, serverVars, deviceVars>>
  <2>1. CASE WriteFails
    BY <2>1 DEF WriteFails, Abandoned, OnlyClient, TypeInv, CountInv
  <2>2. CASE ReadFails
    BY <2>2 DEF ReadFails, Abandoned, OnlyClient, Reading
  <2> QED  BY <2>1, <2>2
<1>2. toClient = <<>>
  <2>1. CASE WriteFails
    <3>1. Up # <<>>
      <4>1. Len(toServer \o outbox) = Len(toServer) + Len(outbox) /\ Len(toServer) \in Nat /\ Len(outbox) \in Nat
        BY Joins DEF TypeInv, FieldsInv
      <4>2. Len(outbox) # 0  BY <2>1 DEF WriteFails, TypeInv, FieldsInv
      <4> QED  BY <4>1, <4>2 DEF Up
    <3>2. toClient # <<>> => Down # <<>>
      <4>1. Len(toClient \o out) = Len(toClient) + Len(out) /\ Len(toClient) \in Nat /\ Len(out) \in Nat
        BY Joins DEF TypeInv, FieldsInv
      <4>2. toClient # <<>> => Len(toClient) # 0  BY DEF TypeInv, FieldsInv
      <4> QED  BY <4>1, <4>2 DEF Down
    <3> QED  BY <1>1, <3>1, <3>2 DEF Sync, DownInv, Open
  <2>2. CASE ReadFails  BY <2>2 DEF ReadFails
  <2> QED  BY <2>1, <2>2
<1>3. ~Open'
  BY <1>1, <1>2 DEF Open
<1>4. NotLost' /\ UpInv' /\ DownInv'
  BY <1>1, <1>3 DEF Sync, NotLost, UpInv, DownInv
<1>5. StatusInv'
  BY <1>1 DEF Sync, StatusInv, Loading
<1>6. FileInv' /\ DirInv'
  BY <1>1, <1>3 DEF Sync, FileInv, DirInv
<1>7. LoadInv'
  BY <1>1 DEF LoadInv, Reporting, Loading
<1> QED  BY <1>4, <1>5, <1>6, <1>7 DEF Sync

\* The client closes, in the middle of whatever is under way.
LEMMA CloseSync == ASSUME TypeInv, Sync, Close PROVE Sync'
<1>1. /\ pc # "closed" /\ pc' = "closed" /\ outbox' = <<>>
      /\ UNCHANGED <<toServer, toClient, need, libs, got, loaded, registered, serverVars, deviceVars>>
  BY DEF Close, OnlyClient
<1>2. toServer \in Seq(UpFields) /\ outbox \in Seq(UpFields) /\ Up' = toServer
  BY <1>1 DEF TypeInv, FieldsInv, Up
<1>3. UpInv'
  <2>1. Wanted \subseteq Wanted'
    <3>1. Unreported => Unreported'  BY <1>1 DEF Unreported, Loading
    <3> QED  BY <1>1, <3>1 DEF Wanted
  <2>2. sv # "ended" => Follow(registered, Wanted, toServer)
    BY <1>2, FollowFront DEF Sync, UpInv, Up
  <2>3. sv # "ended" => Follow(registered, Wanted', toServer)
    BY <2>1, <2>2, FollowWider
  <2> QED  BY <1>1, <1>2, <2>3 DEF UpInv
<1>4. NotLost' /\ DownInv'
  BY <1>1 DEF Sync, NotLost, DownInv, Open
<1>5. StatusInv'
  BY <1>1 DEF Sync, StatusInv, Loading
<1>6. FileInv' /\ DirInv'
  BY <1>1 DEF Sync, FileInv, DirInv, Open
<1>7. LoadInv'
  BY <1>1 DEF LoadInv, Reporting, Loading
<1> QED  BY <1>3, <1>4, <1>5, <1>6, <1>7 DEF Sync

\* A signal interrupts a read.
LEMMA InterruptSync == ASSUME TypeInv, Sync, Interrupt PROVE Sync'
<1>1. UNCHANGED <<toServer, toClient, outbox, pc, need, libs, got, loaded, registered, serverVars, deviceVars>>
  BY DEF Interrupt, OnlyClient
<1>2. /\ Up' = Up /\ Down' = Down /\ Open' = Open /\ World' = World /\ Due' = Due /\ Coming' = Coming
      /\ Wanted' = Wanted /\ Place' = Place /\ Libs' = Libs /\ Reporting' = Reporting
  BY <1>1 DEF Up, Down, Open, World, Due, Place, Coming, Wanted, Unreported, Libs, Reporting
<1>3. NotLost' /\ UpInv' /\ StatusInv' /\ FileInv'
  BY <1>1, <1>2 DEF Sync, NotLost, UpInv, StatusInv, FileInv
<1>4. DownInv' /\ DirInv'
  BY <1>1, <1>2 DEF Sync, DownInv, DirInv
<1>5. LoadInv'
  <2>1. Past(Place)' = Past(Place)  BY <1>2 DEF Past
  <2> QED  BY <1>1, <1>2, <2>1 DEF Sync, LoadInv
<1> QED  BY <1>3, <1>4, <1>5 DEF Sync

\* What is due to the client is what it waits for.
LEMMA NeverOther == ASSUME TypeInv, Sync PROVE ~TakeOther /\ ~GetOther
<1>1. ASSUME TakeOther PROVE FALSE
  <2>1. pc \in Reading /\ Head(toClient).k # pc /\ Head(toClient) \in Due
    BY <1>1, Reads DEF TakeOther
  <2>2. \A t \in Due : t.k = pc
    BY <2>1, Unfolded DEF DueFacts, Reading, Token
  <2> QED  BY <2>1, <2>2
<1>2. ASSUME GetOther PROVE FALSE
  <2>1. sv \in Waiting /\ Head(toServer).k # sv /\ Head(toServer) \in Wanted
    BY <1>2, Hears DEF GetOther, Waiting
  <2>2. \A t \in Wanted : t.k = sv
    BY <2>1, Unfolded DEF WantedFacts, Waiting, Token, Plain
  <2> QED  BY <2>1, <2>2
<1> QED  BY <1>1, <1>2

\* One more unit of content, or entry.
LEMMA IndicesGrow ==
  ASSUME NEW n \in Nat
  PROVE  /\ Indices(n) \in Seq(Nat) /\ Len(Indices(n)) = n
         /\ Append(Indices(n), n + 1) = Indices(n + 1)
         /\ Indices(0) = <<>>
BY DEF Indices

\* What a read of the client leaves alone.
LEMMA TakeFrame ==
  ASSUME TypeInv, Sync, NEW k \in Reading, Take(k), outbox' = <<>>, pc' \notin {"closed", "lost"},
         pc' \in Loading => pc \in Loading, registered' = registered
  PROVE  /\ NotLost' /\ StatusInv' /\ World' = World /\ ~Reporting'
         /\ Open /\ Up = <<>> /\ Up' = <<>> /\ Head(toClient) \in Due
         /\ pc = k /\ outbox = <<>>
         /\ UNCHANGED <<toServer, loaded, serverVars, deviceVars>>
<1>1. /\ pc = k /\ outbox = <<>> /\ toClient # <<>>
      /\ UNCHANGED <<toServer, loaded, serverVars, deviceVars>>
  BY DEF Take, OnlyClient
<1>2. Open /\ Up = <<>> /\ toServer = <<>> /\ Head(toClient) \in Due
  BY <1>1, Reads
<1>3. Up' = <<>>
  BY <1>1, <1>2 DEF Up
<1>4. NotLost' /\ World' = World /\ ~Reporting'
  BY <1>1 DEF Sync, NotLost, World, Reporting
<1>5. StatusInv'
  BY <1>1 DEF Sync, StatusInv, Reading
<1> QED  BY <1>1, <1>2, <1>3, <1>4, <1>5

\* The client reads a string.
LEMMA TakeStringSync == ASSUME TypeInv, Sync, TakeString PROVE Sync'
<1>1. /\ Take("string") /\ "string" \in Reading /\ pc' = "idle" /\ outbox' = <<>>
      /\ UNCHANGED <<need, libs, got, registered>>
  BY DEF TakeString, Take, Reading
<1>2. /\ NotLost' /\ StatusInv' /\ ~Reporting' /\ Head(toClient) \in Due /\ pc = "string"
      /\ UNCHANGED <<serverVars, deviceVars>>
  BY <1>1, TakeFrame DEF Loading
<1>3. After(World, Head(toClient)) = Silence
  BY <1>2, AfterIs, Unfolded DEF DueFacts
<1>4. Due' = {Silence}
  BY <1>1, Unfolded DEF DueFacts
<1>5. UpInv' /\ DownInv'
  BY <1>1, <1>3, <1>4, TakeSync
<1>6. FileInv' /\ DirInv' /\ LoadInv'
  BY <1>1, <1>2 DEF Sync, FileInv, DirInv, LoadInv, Loading
<1> QED  BY <1>2, <1>5, <1>6 DEF Sync

\* ReadFile reads whether the file was opened.
LEMMA TakeErrnoSync == ASSUME TypeInv, Sync, TakeErrno PROVE Sync'
<1>1. /\ Take("errno") /\ "errno" \in Reading /\ pc' = (IF value = 0 THEN "size" ELSE "idle") /\ outbox' = <<>>
      /\ UNCHANGED <<need, libs, got, registered>>
  BY DEF TakeErrno, Take, Reading
<1>2. /\ NotLost' /\ StatusInv' /\ ~Reporting' /\ Head(toClient) \in Due /\ pc = "errno" /\ World' = World
      /\ UNCHANGED <<serverVars, deviceVars>>
  BY <1>1, TakeFrame DEF Loading
<1>3. Head(toClient) \in {Token("errno", 0), Token("errno", 1)}
  BY <1>2, Unfolded DEF DueFacts
<1>4. After(World, Head(toClient)) \in Due'
  <2>1. CASE Head(toClient) = Token("errno", 0)
    <3>1. value = 0  BY <2>1 DEF value, Token
    <3>2. Due' = {Token("size", file)}  BY <1>1, <1>2, <3>1, Unfolded DEF DueFacts
    <3>3. After(World, Token("errno", 0)) = Token("size", World.file)  BY AfterIs
    <3>4. World.file = file  BY DEF World
    <3> QED  BY <2>1, <3>2, <3>3, <3>4
  <2>2. CASE Head(toClient) = Token("errno", 1)
    <3>1. value = 1  BY <2>2 DEF value, Token
    <3>2. Due' = {Silence}  BY <1>1, <3>1, Unfolded DEF DueFacts
    <3>3. After(World, Token("errno", 1)) = Silence  BY AfterIs
    <3> QED  BY <2>2, <3>2, <3>3
  <2> QED  BY <1>3, <2>1, <2>2
<1>5. UpInv' /\ DownInv'
  BY <1>1, <1>4, TakeSync
<1>6. FileInv' /\ DirInv' /\ LoadInv'
  BY <1>1, <1>2 DEF Sync, FileInv, DirInv, LoadInv, Loading
<1> QED  BY <1>2, <1>5, <1>6 DEF Sync

\* ReadFile reads the size.
LEMMA TakeSizeSync == ASSUME TypeInv, Sync, TakeSize PROVE Sync'
<1>1. /\ Take("size") /\ "size" \in Reading /\ pc' = (IF value = 0 THEN "idle" ELSE "chunk") /\ outbox' = <<>>
      /\ need' = value /\ UNCHANGED <<libs, got, registered>>
  BY DEF TakeSize, Take, Reading
<1>2. /\ NotLost' /\ StatusInv' /\ ~Reporting' /\ Head(toClient) \in Due /\ pc = "size" /\ World' = World
      /\ UNCHANGED <<serverVars, deviceVars>>
  BY <1>1, TakeFrame DEF Loading
<1>3. Head(toClient) = Token("size", file) /\ value = file
  BY <1>2, Unfolded DEF DueFacts, value, Token
<1>4. file \in Nat
  BY ProtocolAssumption DEF TypeInv, TypeOK
<1>5. After(World, Head(toClient)) \in Due'
  <2>1. After(World, Token("size", file)) = IF World.file = 0 THEN Silence ELSE Token("chunk", 1)  BY AfterIs
  <2>2. World.file = file  BY DEF World
  <2>3. CASE file = 0
    <3>1. Due' = {Silence}  BY <1>1, <1>3, <2>3, Unfolded DEF DueFacts
    <3> QED  BY <1>3, <2>1, <2>2, <2>3, <3>1
  <2>4. CASE file # 0
    <3>1. Due' = {Token("chunk", file' - need' + 1)}  BY <1>1, <1>3, <2>4, Unfolded DEF DueFacts
    <3>2. file' - need' + 1 = 1  BY <1>1, <1>2, <1>3, <1>4
    <3> QED  BY <1>3, <2>1, <2>2, <2>4, <3>1, <3>2
  <2> QED  BY <2>3, <2>4
<1>6. UpInv' /\ DownInv'
  BY <1>1, <1>5, TakeSync
<1>7. FileInv'
  <2>1. got' = <<>>  BY <1>1, <1>2 DEF Sync, FileInv
  <2>2. need' = file' /\ file' - need' = 0  BY <1>1, <1>2, <1>3, <1>4
  <2>3. pc' = "chunk" => need' <= file' /\ got' = Indices(file' - need')
    BY <1>2, <1>4, <2>1, <2>2, IndicesGrow
  <2>4. sv' = "copy" => pos' < file' /\ left' = file' - pos'  BY <1>2 DEF Sync, FileInv
  <2> QED  BY <2>1, <2>3, <2>4 DEF FileInv
<1>8. DirInv' /\ LoadInv'
  BY <1>1, <1>2 DEF Sync, DirInv, LoadInv, Loading
<1> QED  BY <1>2, <1>6, <1>7, <1>8 DEF Sync

\* ReadFile reads a unit of content.
LEMMA TakeChunkSync == ASSUME TypeInv, Sync, TakeChunk PROVE Sync'
<1>1. /\ Take("chunk") /\ "chunk" \in Reading /\ pc' = (IF need = 1 THEN "idle" ELSE "chunk") /\ outbox' = <<>>
      /\ need' = need - 1 /\ got' = Append(got, value) /\ UNCHANGED <<libs, registered>>
  BY DEF TakeChunk, Take, Reading
<1>2. /\ NotLost' /\ StatusInv' /\ ~Reporting' /\ Head(toClient) \in Due /\ pc = "chunk" /\ World' = World
      /\ UNCHANGED <<serverVars, deviceVars>>
  BY <1>1, TakeFrame DEF Loading
<1>3. file \in Nat /\ need \in Nat /\ need > 0 /\ need <= file /\ got = Indices(file - need)
  BY <1>2, ProtocolAssumption DEF TypeInv, TypeOK, CountInv, Sync, FileInv
<1>4. Head(toClient) = Token("chunk", file - need + 1) /\ value = file - need + 1
  BY <1>2, Unfolded DEF DueFacts, value, Token
<1>5. After(World, Head(toClient)) \in Due'
  <2> DEFINE v == file - need + 1
  <2>1. After(World, Token("chunk", v)) = IF v = World.file THEN Silence ELSE Token("chunk", v + 1)
    <3> HIDE DEF v
    <3> QED  BY AfterIs
  <2>2. World.file = file  BY DEF World
  <2>3. CASE need = 1
    <3>1. Due' = {Silence}  BY <1>1, <2>3, Unfolded DEF DueFacts
    <3>2. v = file  BY <1>3, <2>3
    <3> QED  BY <1>4, <2>1, <2>2, <3>1, <3>2
  <2>4. CASE need # 1
    <3>1. Due' = {Token("chunk", file' - need' + 1)}  BY <1>1, <2>4, Unfolded DEF DueFacts
    <3>2. file' - need' + 1 = v + 1 /\ v # file  BY <1>1, <1>2, <1>3, <2>4
    <3> QED  BY <1>4, <2>1, <2>2, <3>1, <3>2
  <2> QED  BY <2>3, <2>4
<1>6. UpInv' /\ DownInv'
  BY <1>1, <1>5, TakeSync
<1>7. FileInv'
  <2> DEFINE n == file - need
  <2>1. n \in Nat /\ value = n + 1 /\ got = Indices(n)  BY <1>3, <1>4
  <2> HIDE DEF n
  <2>2. got' = Indices(n + 1)  BY <1>1, <2>1, IndicesGrow
  <2>3. file' - need' = n + 1 /\ need' <= file'  BY <1>1, <1>2, <1>3 DEF n
  <2>4. sv' = "copy" => pos' < file' /\ left' = file' - pos'  BY <1>2 DEF Sync, FileInv
  <2>5. pc' \notin {"errno", "size"}  BY <1>1
  <2> QED  BY <2>2, <2>3, <2>4, <2>5 DEF FileInv
<1>8. DirInv' /\ LoadInv'
  BY <1>1, <1>2 DEF Sync, DirInv, LoadInv, Loading
<1> QED  BY <1>2, <1>6, <1>7, <1>8 DEF Sync

\* A DirIter reads whether there is an entry.
LEMMA TakeReplySync == ASSUME TypeInv, Sync, TakeReply PROVE Sync'
<1>1. /\ Take("reply") /\ "reply" \in Reading /\ pc' = (IF value = 0 THEN "type" ELSE "end") /\ outbox' = <<>>
      /\ UNCHANGED <<need, libs, got, registered>>
  BY DEF TakeReply, Take, Reading
<1>2. /\ NotLost' /\ StatusInv' /\ ~Reporting' /\ Head(toClient) \in Due /\ pc = "reply" /\ World' = World
      /\ Open /\ Up = <<>> /\ UNCHANGED <<serverVars, deviceVars>>
  BY <1>1, TakeFrame DEF Loading
<1>3. index = Len(got) + 1 \/ index = Len(got)
  BY <1>2 DEF Sync, DirInv
<1>4. Len(got) \in Nat
  BY DEF TypeInv, FieldsInv
<1>5. Head(toClient) = Token("reply", IF index > Len(got) THEN 0 ELSE -1)
  BY <1>2, Unfolded DEF DueFacts
<1>6. After(World, Head(toClient)) \in Due' /\ (pc' = "type" => index = Len(got) + 1)
  <2>1. CASE index > Len(got)
    <3>1. value = 0 /\ Head(toClient) = Token("reply", 0)  BY <1>5, <2>1 DEF value, Token
    <3>2. Due' = {Token("type", 1)}  BY <1>1, <3>1, Unfolded DEF DueFacts
    <3>3. After(World, Token("reply", 0)) = Token("type", 1)  BY AfterIs
    <3> QED  BY <1>3, <1>4, <2>1, <3>1, <3>2, <3>3
  <2>2. CASE ~(index > Len(got))
    <3>1. value = -1 /\ Head(toClient) = Token("reply", -1)  BY <1>5, <2>2 DEF value, Token
    <3>2. pc' = "end"  BY <1>1, <3>1
    <3>3. Due' = {Silence}  BY <3>2, Unfolded DEF DueFacts
    <3>4. After(World, Token("reply", -1)) = Silence  BY AfterIs
    <3> QED  BY <3>1, <3>2, <3>3, <3>4
  <2> QED  BY <2>1, <2>2
<1>7. UpInv' /\ DownInv'
  BY <1>1, <1>6, TakeSync
<1>8. DirInv'
  <2>1. got' = Indices(Len(got'))  BY <1>1, <1>2 DEF Sync, DirInv
  <2> QED  BY <1>1, <1>2, <1>6, <2>1 DEF DirInv
<1>9. FileInv' /\ LoadInv'
  BY <1>1, <1>2 DEF Sync, FileInv, LoadInv, Loading
<1> QED  BY <1>2, <1>7, <1>8, <1>9 DEF Sync

\* A DirIter reads an entry's type.
LEMMA TakeTypeSync == ASSUME TypeInv, Sync, TakeType PROVE Sync'
<1>1. /\ Take("type") /\ "type" \in Reading /\ pc' = "name" /\ outbox' = <<>>
      /\ UNCHANGED <<need, libs, got, registered>>
  BY DEF TakeType, Take, Reading
<1>2. /\ NotLost' /\ StatusInv' /\ ~Reporting' /\ Head(toClient) \in Due /\ pc = "type" /\ World' = World
      /\ Open /\ UNCHANGED <<serverVars, deviceVars>>
  BY <1>1, TakeFrame DEF Loading
<1>3. After(World, Head(toClient)) \in Due'
  <2>1. Head(toClient) = Token("type", 1)  BY <1>2, Unfolded DEF DueFacts
  <2>2. Due' = {Token("name", index)}  BY <1>1, <1>2, Unfolded DEF DueFacts
  <2>3. After(World, Token("type", 1)) = Token("name", World.entry)  BY AfterIs
  <2>4. World.entry = index  BY DEF World
  <2> QED  BY <2>1, <2>2, <2>3, <2>4
<1>4. UpInv' /\ DownInv'
  BY <1>1, <1>3, TakeSync
<1>5. DirInv'
  BY <1>1, <1>2 DEF Sync, DirInv
<1>6. FileInv' /\ LoadInv'
  BY <1>1, <1>2 DEF Sync, FileInv, LoadInv, Loading
<1> QED  BY <1>2, <1>4, <1>5, <1>6 DEF Sync

\* A DirIter reads an entry's name.
LEMMA TakeNameSync == ASSUME TypeInv, Sync, TakeName PROVE Sync'
<1>1. /\ Take("name") /\ "name" \in Reading /\ pc' = "entry" /\ outbox' = <<>> /\ got' = Append(got, value)
      /\ UNCHANGED <<need, libs, registered>>
  BY DEF TakeName, Take, Reading
<1>2. /\ NotLost' /\ StatusInv' /\ ~Reporting' /\ Head(toClient) \in Due /\ pc = "name" /\ World' = World
      /\ Open /\ Up' = <<>> /\ UNCHANGED <<serverVars, deviceVars>>
  BY <1>1, TakeFrame DEF Loading
<1>3. Head(toClient) = Token("name", index) /\ value = index
  BY <1>2, Unfolded DEF DueFacts, value, Token
<1>4. After(World, Head(toClient)) \in Due'
  <2>1. Due' = {Turn}  BY <1>1, Unfolded DEF DueFacts
  <2>2. After(World, Token("name", index)) = Turn  BY AfterIs
  <2> QED  BY <1>3, <2>1, <2>2
<1>5. UpInv' /\ DownInv'
  BY <1>1, <1>4, TakeSync
<1>6. DirInv'
  <2> DEFINE n == Len(got)
  <2>1. n \in Nat /\ got = Indices(n) /\ index = n + 1
    BY <1>2 DEF Sync, DirInv, TypeInv, FieldsInv
  <2> HIDE DEF n
  <2>2. got' = Indices(n + 1)  BY <1>1, <1>3, <2>1, IndicesGrow
  <2>3. n + 1 \in Nat  BY <2>1
  <2>4. Len(got') = n + 1  BY <2>2, <2>3, IndicesGrow
  <2> QED  BY <1>1, <1>2, <2>1, <2>2, <2>4 DEF DirInv
<1>7. FileInv' /\ LoadInv'
  BY <1>1, <1>2 DEF Sync, FileInv, LoadInv, Loading
<1> QED  BY <1>2, <1>5, <1>6, <1>7 DEF Sync

\* A DirIter reads whether the directory was opened, and asks for its first entry.
LEMMA TakeDirErrnoSync == ASSUME TypeInv, Sync, TakeDirErrno PROVE Sync'
<1>1. /\ Take("dirErrno") /\ "dirErrno" \in Reading /\ pc = "dirErrno" /\ outbox = <<>> /\ toClient # <<>>
      /\ UNCHANGED <<toServer, need, libs, got, loaded, registered, serverVars, deviceVars>>
  BY DEF TakeDirErrno, Take, Reading, OnlyClient
<1>2. Open /\ Up = <<>> /\ Head(toClient) \in Due
  BY <1>1, Reads
<1>3. Head(toClient) \in {Token("dirErrno", 0), Token("dirErrno", 1)}
  BY <1>1, <1>2, Unfolded DEF DueFacts
<1>4. got = <<>>
  BY <1>1 DEF Sync, DirInv
<1>5. CASE Head(toClient) = Token("dirErrno", 1)
  <2>1. value = 1  BY <1>5 DEF value, Token
  <2>2. pc' = "end" /\ outbox' = <<>>  BY <1>1, <2>1 DEF TakeDirErrno
  <2>3. NotLost' /\ StatusInv' /\ ~Reporting' /\ World' = World  BY <1>1, <2>2, TakeFrame DEF Loading
  <2>4. Due' = {Silence}  BY <2>2, Unfolded DEF DueFacts
  <2>5. After(World, Token("dirErrno", 1)) = Silence  BY AfterIs
  <2>6. UpInv' /\ DownInv'  BY <1>1, <1>5, <2>2, <2>4, <2>5, TakeSync
  <2>7. FileInv' /\ DirInv' /\ LoadInv'
    BY <1>1, <2>2, <2>3 DEF Sync, FileInv, DirInv, LoadInv, Loading
  <2> QED  BY <2>3, <2>6, <2>7 DEF Sync
<1>6. CASE Head(toClient) = Token("dirErrno", 0)
  <2>1. value = 0  BY <1>6 DEF value, Token
  <2>2. pc' = "reply" /\ outbox' = <<Token("continue", 1)>>  BY <1>1, <2>1 DEF TakeDirErrno
  <2>3. After(World, Head(toClient)) = Turn  BY <1>6, AfterIs
  <2>4. Turn # Silence  BY DEF Turn, Silence, Token
  <2>5. Down' = <<>> /\ toClient' = <<>> /\ toServer' = <<>> /\ (sv # "ended" => sv = "continue")
    BY <1>1, <2>3, <2>4, TakeLast
  <2>6. Up' = <<Token("continue", 1)>>  BY <2>2, <2>5 DEF Up
  <2>7. UpInv'
    <3>1. SUFFICES ASSUME sv # "ended" PROVE UpInv'
      BY <1>1 DEF UpInv
    <3>2. Wanted' = {Token("continue", 1)}  BY <1>1, <2>5, <3>1, Unfolded DEF WantedFacts
    <3>3. Follow(registered', Wanted', Up')  BY <2>6, <3>2 DEF Follow
    <3>4. "reply" \in Awaits(registered', Up'[Len(Up')])  BY <2>6, AwaitsIs
    <3> QED  BY <2>2, <3>3, <3>4 DEF UpInv
  <2>8. DownInv'  BY <2>5, <2>6 DEF DownInv
  <2>9. NotLost' /\ StatusInv' /\ FileInv'
    BY <1>1, <2>2 DEF Sync, NotLost, StatusInv, FileInv, Loading
  <2>10. DirInv'
    <3>1. Open' => index' = 0
      <4>1. Open' => sv = "continue"  BY <1>1, <2>5 DEF Open
      <4> QED  BY <1>1, <1>2, <4>1 DEF Sync, DirInv
    <3>2. got' = <<>> /\ Len(got') = 0 /\ Indices(0) = <<>>  BY <1>1, <1>4, IndicesGrow
    <3> QED  BY <2>2, <2>6, <3>1, <3>2 DEF DirInv
  <2>11. LoadInv'
    <3>1. ~Reporting'  BY <2>2 DEF Reporting, Token
    <3> QED  BY <2>2, <3>1 DEF LoadInv, Loading
  <2> QED  BY <2>7, <2>8, <2>9, <2>10, <2>11 DEF Sync
<1> QED  BY <1>3, <1>5, <1>6

-----------------------------------------------------------------------------
(* The list of modules, field by field. *)

\* The libraries, by module and place.
LEMMA InLibs ==
  ASSUME modules \in Seq(Nat)
  PROVE  \A x : x \in Libs <=> \E m \in 1..Len(modules) : \E i \in 1..modules[m] : x = <<m, i>>
<1>1. DOMAIN modules = 1..Len(modules)
  OBVIOUS
<1>2. \A m, x : x \in {m} \X (1..modules[m]) <=> \E i \in 1..modules[m] : x = <<m, i>>
  OBVIOUS
<1> QED  BY <1>1, <1>2 DEF Libs, Libraries

\* What is past as Load goes from one library, or module, to the next.
LEMMA PastGrows ==
  ASSUME modules \in Seq(Nat)
  PROVE  /\ Past(<<1, 0>>) = {} /\ Past(<<Len(modules) + 1, 0>>) = Libs
         /\ \A m \in 1..Len(modules) :
              /\ Past(<<m, 1>>) = Past(<<m, 0>>)
              /\ modules[m] = 0 => Past(<<m + 1, 0>>) = Past(<<m, 0>>)
              /\ \A i \in 1..modules[m] : /\ Past(<<m, i + 1>>) = Past(<<m, i>>) \cup {<<m, i>>}
                                          /\ <<m, i>> \in Libs
              /\ \A i \in 1..modules[m] :
                   i = modules[m] => Past(<<m + 1, 0>>) = Past(<<m, i>>) \cup {<<m, i>>}
<1>1. Len(modules) \in Nat /\ \A m \in 1..Len(modules) : modules[m] \in Nat
  OBVIOUS
<1>2. \A x : x \in Libs <=> \E m \in 1..Len(modules) : \E i \in 1..modules[m] : x = <<m, i>>
  BY InLibs
<1>3. \A p, x : x \in Past(p) <=> x \in Libs /\ (x[1] < p[1] \/ (x[1] = p[1] /\ x[2] < p[2]))
  BY DEF Past, Earlier
<1>4. \A x \in Libs : /\ x[1] \in 1..Len(modules) /\ x[2] \in 1..modules[x[1]] /\ x = <<x[1], x[2]>>
                      /\ x[1] \in Nat /\ x[2] \in Nat /\ x[2] > 0 /\ x[2] <= modules[x[1]]
  BY <1>1, <1>2
<1>5. Past(<<1, 0>>) = {}
  BY <1>3, <1>4
<1>6. Past(<<Len(modules) + 1, 0>>) = Libs
  <2>1. ASSUME NEW x \in Libs PROVE x \in Past(<<Len(modules) + 1, 0>>)
    <3>1. x[1] < Len(modules) + 1  BY <1>1, <1>4
    <3> QED  BY <1>3, <3>1
  <2> QED  BY <2>1 DEF Past
<1>7. ASSUME NEW m \in 1..Len(modules)
      PROVE  /\ Past(<<m, 1>>) = Past(<<m, 0>>)
             /\ modules[m] = 0 => Past(<<m + 1, 0>>) = Past(<<m, 0>>)
  <2>1. m \in Nat  BY <1>1
  <2>2. \A x : x \in Past(<<m, 1>>) <=> x \in Past(<<m, 0>>)  BY <1>3, <1>4, <2>1
  <2>3. ASSUME modules[m] = 0, NEW x PROVE x \in Past(<<m + 1, 0>>) <=> x \in Past(<<m, 0>>)
    <3>1. x \in Past(<<m + 1, 0>>) <=> x \in Libs /\ (x[1] < m + 1 \/ (x[1] = m + 1 /\ x[2] < 0))  BY <1>3
    <3>2. x \in Past(<<m, 0>>) <=> x \in Libs /\ (x[1] < m \/ (x[1] = m /\ x[2] < 0))  BY <1>3
    <3>3. x \in Libs => x[1] \in Nat /\ x[2] \in Nat /\ x[1] # m  BY <1>4, <2>3
    <3> QED  BY <2>1, <3>1, <3>2, <3>3
  <2> QED  BY <2>2, <2>3
<1>8. ASSUME NEW m \in 1..Len(modules), NEW i \in 1..modules[m]
      PROVE  /\ Past(<<m, i + 1>>) = Past(<<m, i>>) \cup {<<m, i>>}
             /\ <<m, i>> \in Libs
             /\ i = modules[m] => Past(<<m + 1, 0>>) = Past(<<m, i>>) \cup {<<m, i>>}
  <2>1. m \in Nat /\ i \in Nat  BY <1>1
  <2>2. <<m, i>> \in Libs  BY <1>2
  <2>3. \A x \in Libs : x = <<m, i>> <=> x[1] = m /\ x[2] = i  BY <1>4
  <2>4. Past(<<m, i + 1>>) = Past(<<m, i>>) \cup {<<m, i>>}
    <3>1. SUFFICES ASSUME NEW x \in Libs
                   PROVE  x \in Past(<<m, i + 1>>) <=> x \in Past(<<m, i>>) \/ x = <<m, i>>
      BY <2>2 DEF Past
    <3>2. x \in Past(<<m, i + 1>>) <=> x[1] < m \/ (x[1] = m /\ x[2] < i + 1)  BY <1>3
    <3>3. x \in Past(<<m, i>>) <=> x[1] < m \/ (x[1] = m /\ x[2] < i)  BY <1>3
    <3>4. x[2] < i + 1 <=> x[2] < i \/ x[2] = i
      <4>1. x[2] \in Nat /\ i \in Nat  BY <1>4, <2>1
      <4> QED  BY ONLY <4>1
    <3> QED  BY <2>3, <3>2, <3>3, <3>4
  <2>5. i = modules[m] => Past(<<m + 1, 0>>) = Past(<<m, i>>) \cup {<<m, i>>}
    <3>1. SUFFICES ASSUME i = modules[m], NEW x \in Libs
                   PROVE  x \in Past(<<m + 1, 0>>) <=> x \in Past(<<m, i>>) \/ x = <<m, i>>
      BY <2>2 DEF Past
    <3>2. x \in Past(<<m + 1, 0>>) <=> x[1] < m + 1 \/ (x[1] = m + 1 /\ x[2] < 0)  BY <1>3
    <3>3. x \in Past(<<m, i>>) <=> x[1] < m \/ (x[1] = m /\ x[2] < i)  BY <1>3
    <3>4. /\ ~(x[2] < 0) /\ (x[1] < m + 1 <=> x[1] < m \/ x[1] = m)
          /\ (x[1] = m => x[2] < i \/ x[2] = i)
      BY <1>4, <2>1, <3>1
    <3> QED  BY <2>3, <3>2, <3>3, <3>4
  <2> QED  BY <2>2, <2>4, <2>5
<1> QED  BY <1>5, <1>6, <1>7, <1>8

\* Load notes an id or a path.
LEMMA Grows ==
  ASSUME NEW S, NEW s \in Seq(S), NEW x \in S
  PROVE  /\ Elements(Append(s, x)) = Elements(s) \cup {x} /\ Len(Append(s, x)) = Len(s) + 1
         /\ Append(s, x) \in Seq(S) /\ Append(s, x)[Len(Append(s, x))] = x
         /\ Ordered(s) /\ (Len(s) % 2 = 0 => Len(s) = 0 \/ Earlier(s[Len(s)], x))
                       /\ (Len(s) % 2 = 1 => s[Len(s)] = x)
              => Ordered(Append(s, x))
<1> DEFINE t == Append(s, x)
           n == Len(s)
<1>1. n \in Nat /\ Len(t) = n + 1 /\ t \in Seq(S) /\ t[n + 1] = x /\ \A j \in 1..n : t[j] = s[j]
  OBVIOUS
<1>2. DOMAIN s = 1..n /\ DOMAIN t = 1..(n + 1)
  OBVIOUS
<1>3. Elements(t) = Elements(s) \cup {x}
  <2> HIDE DEF t, n
  <2>1. \A y : y \in Elements(t) <=> y \in Elements(s) \cup {x}
    <3>1. \A y : y \in Elements(t) <=> \E j \in 1..(n + 1) : y = t[j]  BY <1>2 DEF Elements
    <3>2. \A y : y \in Elements(s) <=> \E j \in 1..n : y = s[j]  BY <1>2 DEF Elements
    <3>3. \A j : j \in 1..(n + 1) <=> j \in 1..n \/ j = n + 1  BY <1>1
    <3> QED  BY <1>1, <3>1, <3>2, <3>3
  <2> QED  BY <2>1
<1>4. ASSUME Ordered(s), n % 2 = 0 => n = 0 \/ Earlier(s[n], x), n % 2 = 1 => s[n] = x
      PROVE  Ordered(t)
  <2> HIDE DEF t, n
  <2>1. SUFFICES ASSUME NEW i \in 2..(n + 1) PROVE IF i % 2 = 0 THEN t[i] = t[i - 1] ELSE Earlier(t[i - 1], t[i])
    BY <1>1 DEF Ordered
  <2>2. CASE i \in 2..n
    <3>1. i \in 1..n /\ i - 1 \in 1..n  BY <1>1, <2>2
    <3>2. t[i] = s[i] /\ t[i - 1] = s[i - 1]  BY <1>1, <3>1
    <3>3. IF i % 2 = 0 THEN s[i] = s[i - 1] ELSE Earlier(s[i - 1], s[i])  BY <1>4, <2>2 DEF Ordered, n
    <3> QED  BY <3>2, <3>3
  <2>3. CASE i = n + 1
    <3>1. i - 1 \in 1..n /\ i - 1 = n /\ n # 0  BY <1>1, <2>3
    <3>2. t[i] = x /\ t[i - 1] = s[n]  BY <1>1, <2>3, <3>1
    <3>3. IF i % 2 = 0 THEN n % 2 = 1 ELSE n % 2 = 0  BY <1>1, <2>3
    <3> QED  BY <1>4, <3>1, <3>2, <3>3
  <2> QED  BY <1>1, <2>2, <2>3
<1> QED  BY <1>1, <1>3, <1>4

\* Load goes on to the next library or module, or reports what it has loaded.
LEMMA LoadStep ==
  ASSUME TypeInv, Sync, NEW k \in {"count", "libs", "lib"}, Take(k), LoadNext,
         NEW m \in 0..Len(modules), need' = Len(modules) - m, libs' \in Nat,
         libs' > 0 => m > 0 /\ libs' <= modules[m],
         After(World, Head(toClient)) = IF libs' = 0 THEN NextModule(modules, m)
                                        ELSE Token("id", <<m, modules[m] - libs' + 1>>),
         registered' \in Seq(Libs), Len(got') % 2 = 0, Ordered(got'),
         Elements(got') = Past(IF libs' = 0 THEN <<m + 1, 0>> ELSE <<m, modules[m] - libs' + 1>>)
  PROVE  Sync'
<1>1. /\ pc = k /\ k \in Reading /\ outbox = <<>> /\ toClient # <<>>
      /\ UNCHANGED <<toServer, loaded, serverVars, deviceVars>>
  BY DEF Take, OnlyClient, Reading
<1>2. modules \in Seq(Nat) /\ Len(modules) \in Nat /\ m \in Nat /\ m <= Len(modules)
  BY ProtocolAssumption DEF TypeInv, TypeOK
<1>3. loaded /\ ~recorded /\ sv \notin {"statusAbi", "status", "id", "about"} /\ listed = <<>>
  BY <1>1 DEF Sync, StatusInv, Loading
<1>4. pc' \in {"id", "path", "idle"}
  BY DEF LoadNext
<1>5. NotLost' /\ StatusInv'
  BY <1>1, <1>3, <1>4 DEF Sync, NotLost, StatusInv, Loading
<1>6. FileInv' /\ DirInv'
  BY <1>1, <1>4 DEF Sync, FileInv, DirInv
<1>7. Libs' = Libs /\ World' = World /\ Len(modules') = Len(modules)
  BY <1>1 DEF Libs, World
<1>8. CASE libs' > 0
  <2>1. pc' = "id" /\ outbox' = <<>>  BY <1>1, <1>8 DEF LoadNext
  <2>2. Len(modules') - need' = m /\ libs' # 0  BY <1>2, <1>7, <1>8
  <2>3. Place' = <<m, modules[m] - libs' + 1>>  BY <1>1, <2>2 DEF Place
  <2>4. Due' = {Token("id", Place')}  BY <2>1, Unfolded DEF DueFacts
  <2>5. After(World, Head(toClient)) \in Due'  BY <2>2, <2>3, <2>4
  <2>6. UpInv' /\ DownInv'  BY <1>1, <2>1, <2>5, TakeSync
  <2>7. ~Reporting'  BY <2>1 DEF Reporting
  <2>8. need' < Len(modules') /\ libs' <= modules'[Len(modules') - need']
    BY <1>1, <1>2, <1>7, <1>8, <2>2
  <2>9. Elements(got') = Past(Place)'  BY <1>7, <2>2, <2>3 DEF Past
  <2>10. LoadInv'  BY <2>1, <2>7, <2>8, <2>9 DEF LoadInv
  <2> QED  BY <1>5, <1>6, <2>6, <2>10 DEF Sync
<1>9. CASE libs' = 0 /\ need' > 0
  <2>1. pc' = "path" /\ outbox' = <<>>  BY <1>1, <1>9 DEF LoadNext
  <2>2. Len(modules') - need' + 1 = m + 1 /\ m < Len(modules)  BY <1>2, <1>7, <1>9
  <2>3. Place' = <<m + 1, 0>>  BY <1>9, <2>2 DEF Place
  <2>4. Due' = {Token("path", m + 1)}  BY <2>1, <2>2, Unfolded DEF DueFacts
  <2>5. After(World, Head(toClient)) \in Due'  BY <1>9, <2>2, <2>4 DEF NextModule
  <2>6. UpInv' /\ DownInv'  BY <1>1, <2>1, <2>5, TakeSync
  <2>7. ~Reporting'  BY <2>1 DEF Reporting
  <2>8. need' <= Len(modules')  BY <1>2, <1>7
  <2>9. Elements(got') = Past(Place)'  BY <1>7, <1>9, <2>3 DEF Past
  <2>10. LoadInv'  BY <1>9, <2>1, <2>7, <2>8, <2>9 DEF LoadInv
  <2> QED  BY <1>5, <1>6, <2>6, <2>10 DEF Sync
<1>10. CASE libs' = 0 /\ need' = 0
  <2>1. pc' = "idle" /\ outbox' = StatusFields(registered')  BY <1>10 DEF LoadNext
  <2>2. m = Len(modules)  BY <1>2, <1>10
  <2>3. After(World, Head(toClient)) = Silence  BY <1>2, <1>10, <2>2 DEF NextModule
  <2>4. Down' = <<>> /\ toClient' = <<>> /\ toServer' = <<>> /\ (sv # "ended" => sv = "action")
    BY <1>1, <2>3, TakeLast
  <2>5. /\ Follow(registered', {Token("action", "WRITE_STATUS")}, outbox')
        /\ outbox' # <<>> /\ Awaits(registered', outbox'[Len(outbox')]) = {"idle"}
    BY <2>1, StatusFollows
  <2>6. Up' = outbox'
    <3>1. outbox' \in Seq(UpFields)  BY <1>2, <2>1, StatusTyped
    <3>2. <<>> \o outbox' = outbox'  BY <3>1
    <3> QED  BY <2>4, <3>2 DEF Up
  <2>7. UpInv'
    <3>1. SUFFICES ASSUME sv # "ended" PROVE UpInv'
      BY <1>1 DEF UpInv
    <3>2. Unreported'  BY <1>1, <1>3, <2>1 DEF Unreported, Loading
    <3>3. {Token("action", "WRITE_STATUS")} \subseteq Wanted'
      BY <1>1, <2>4, <3>1, <3>2, Unfolded DEF WantedFacts
    <3>4. Follow(registered', Wanted', Up')  BY <2>5, <2>6, <3>3, FollowWider
    <3> QED  BY <1>1, <1>3, <2>1, <2>5, <2>6, <3>4 DEF UpInv
  <2>8. DownInv'  BY <2>4, <2>5, <2>6 DEF DownInv
  <2>9. Elements(got') = Libs'
    BY <1>2, <1>7, <1>10, <2>2, PastGrows
  <2>10. LoadInv'  BY <2>1, <2>9 DEF LoadInv, Loading
  <2> QED  BY <1>5, <1>6, <2>7, <2>8, <2>10 DEF Sync
<1> QED  BY <1>2, <1>8, <1>9, <1>10

\* Load reads the number of modules.
LEMMA TakeCountSync == ASSUME TypeInv, Sync, TakeCount PROVE Sync'
<1>1. /\ Take("count") /\ pc = "count" /\ outbox = <<>> /\ toClient # <<>> /\ LoadNext
      /\ need' = value /\ libs' = 0 /\ got' = got /\ registered' = registered
  BY DEF TakeCount, Take
<1>2. Head(toClient) = Token("count", Len(modules)) /\ value = Len(modules)
  <2>1. Head(toClient) \in Due  BY <1>1, Reads DEF Reading
  <2> QED  BY <1>1, <2>1, Unfolded DEF DueFacts, value, Token
<1>3. modules \in Seq(Nat) /\ Len(modules) \in Nat
  BY ProtocolAssumption DEF TypeInv, TypeOK
<1>4. After(World, Head(toClient)) = NextModule(modules, 0)
  <2>1. After(World, Token("count", Len(modules))) = NextModule(World.modules, 0)  BY AfterIs
  <2> QED  BY <1>2, <2>1 DEF World
<1>5. got' = <<>> /\ registered' \in Seq(Libs)
  BY <1>1 DEF Sync, LoadInv, TypeInv, FieldsInv
<1>6. Len(got') % 2 = 0 /\ Ordered(got') /\ Elements(got') = {}
  BY <1>5 DEF Ordered, Elements
<1>7. Past(<<0 + 1, 0>>) = {}
  BY <1>3, PastGrows
<1>8. 0 \in 0..Len(modules) /\ need' = Len(modules) - 0 /\ libs' \in Nat /\ ~(libs' > 0)
  BY <1>1, <1>2, <1>3
<1> QED  BY <1>1, <1>4, <1>5, <1>6, <1>7, <1>8, LoadStep

\* Load reads a module's path.
LEMMA TakePathSync == ASSUME TypeInv, Sync, TakePath PROVE Sync'
<1>1. /\ Take("path") /\ "path" \in Reading /\ pc' = "libs" /\ outbox' = <<>>
      /\ UNCHANGED <<need, libs, got, registered>>
  BY DEF TakePath, Take, Reading
<1>2. /\ NotLost' /\ StatusInv' /\ ~Reporting' /\ Head(toClient) \in Due /\ pc = "path" /\ World' = World
      /\ UNCHANGED <<serverVars, deviceVars>>
  BY <1>1, TakeFrame DEF Loading, Take
<1>3. After(World, Head(toClient)) \in Due'
  <2> DEFINE m == Len(modules) - need + 1
  <2>1. Head(toClient) = Token("path", m)  BY <1>2, Unfolded DEF DueFacts
  <2>2. Due' = {Token("libs", <<m, modules[m]>>)}  BY <1>1, <1>2, Unfolded DEF DueFacts
  <2> HIDE DEF m
  <2>3. After(World, Token("path", m)) = Token("libs", <<m, World.modules[m]>>)  BY AfterIs
  <2>4. World.modules = modules  BY DEF World
  <2> QED  BY <2>1, <2>2, <2>3, <2>4
<1>4. UpInv' /\ DownInv'
  BY <1>1, <1>3, TakeSync
<1>5. LoadInv'
  <2>1. Place' = Place /\ Past(Place)' = Past(Place)  BY <1>1, <1>2 DEF Place, Past, Libs
  <2> QED  BY <1>1, <1>2, <2>1 DEF Sync, LoadInv, Loading
<1>6. FileInv' /\ DirInv'
  BY <1>1, <1>2 DEF Sync, FileInv, DirInv
<1> QED  BY <1>2, <1>4, <1>5, <1>6 DEF Sync

\* Load reads the number of libraries of a module.
LEMMA TakeLibsSync == ASSUME TypeInv, Sync, TakeLibs PROVE Sync'
<1> DEFINE m == Len(modules) - need + 1
<1>1. /\ Take("libs") /\ pc = "libs" /\ outbox = <<>> /\ toClient # <<>> /\ LoadNext
      /\ need' = need - 1 /\ libs' = value[2] /\ got' = got /\ registered' = registered
  BY DEF TakeLibs, Take
<1>2. modules \in Seq(Nat) /\ Len(modules) \in Nat
  BY ProtocolAssumption DEF TypeInv, TypeOK
<1>3. need \in Nat /\ need > 0 /\ need <= Len(modules) /\ libs = 0
  BY <1>1 DEF TypeInv, TypeOK, CountInv, Sync, LoadInv
<1>4. m \in 1..Len(modules) /\ need' = Len(modules) - m
  BY <1>1, <1>2, <1>3
<1>5. Head(toClient) = Token("libs", <<m, modules[m]>>) /\ value = <<m, modules[m]>>
  <2>1. Head(toClient) \in Due  BY <1>1, Reads DEF Reading
  <2> QED  BY <1>1, <2>1, Unfolded DEF DueFacts, value, Token
<1>6. Elements(got) = Past(<<m, 0>>) /\ Ordered(got) /\ Len(got) % 2 = 0
  BY <1>1, <1>3 DEF Sync, LoadInv, Place, Loading
<1> HIDE DEF m
<1>7. libs' = modules[m] /\ libs' \in Nat
  BY <1>1, <1>2, <1>4, <1>5
<1>8. After(World, Head(toClient)) = IF libs' = 0 THEN NextModule(modules, m)
                                     ELSE Token("id", <<m, modules[m] - libs' + 1>>)
  <2> DEFINE v == <<m, modules[m]>>
  <2>1. v[1] = m /\ v[2] = libs'  BY <1>7
  <2>2. modules[m] - libs' + 1 = 1  BY <1>7
  <2> HIDE DEF v
  <2>3. After(World, Token("libs", v)) = IF v[2] = 0 THEN NextModule(World.modules, v[1])
                                         ELSE Token("id", <<v[1], 1>>)
    BY AfterIs
  <2>4. World.modules = modules  BY DEF World
  <2> QED  BY <1>5, <2>1, <2>2, <2>3, <2>4 DEF v
<1>9. Elements(got') = Past(IF libs' = 0 THEN <<m + 1, 0>> ELSE <<m, modules[m] - libs' + 1>>)
  <2>1. Past(<<m, 1>>) = Past(<<m, 0>>) /\ (libs' = 0 => Past(<<m + 1, 0>>) = Past(<<m, 0>>))
    BY <1>2, <1>4, <1>7, PastGrows
  <2>2. modules[m] - libs' + 1 = 1  BY <1>7
  <2> QED  BY <1>1, <1>6, <2>1, <2>2
<1>10. m \in 0..Len(modules) /\ (libs' > 0 => m > 0 /\ libs' <= modules[m])
  BY <1>4, <1>7
<1>11. registered' \in Seq(Libs)
  BY <1>1 DEF TypeInv, FieldsInv
<1> QED  BY <1>1, <1>4, <1>6, <1>7, <1>8, <1>9, <1>10, <1>11, LoadStep

\* Load reads a library's id.
LEMMA TakeIdSync == ASSUME TypeInv, Sync, TakeId PROVE Sync'
<1>1. /\ Take("id") /\ "id" \in Reading /\ pc' = "lib" /\ outbox' = <<>> /\ got' = Append(got, value)
      /\ UNCHANGED <<need, libs, registered>>
  BY DEF TakeId, Take, Reading
<1>2. /\ NotLost' /\ StatusInv' /\ ~Reporting' /\ Head(toClient) \in Due /\ pc = "id" /\ World' = World
      /\ UNCHANGED <<serverVars, deviceVars>>
  BY <1>1, TakeFrame DEF Loading, Take
<1>3. Head(toClient) = Token("id", Place) /\ value = Place
  BY <1>2, Unfolded DEF DueFacts, value, Token
<1>4. Place' = Place /\ Past(Place)' = Past(Place)
  BY <1>1, <1>2 DEF Place, Past, Libs
<1>5. After(World, Head(toClient)) \in Due'
  <2>1. Due' = {Token("lib", Place)}  BY <1>1, <1>4, Unfolded DEF DueFacts
  <2>2. After(World, Token("id", Place)) = Token("lib", Place)  BY AfterIs
  <2> QED  BY <1>3, <2>1, <2>2
<1>6. UpInv' /\ DownInv'
  BY <1>1, <1>5, TakeSync
<1>7. LoadInv'
  <2>1. /\ got \in Seq(Values) /\ Len(got) % 2 = 0 /\ Elements(got) = Past(Place) /\ Ordered(got)
        /\ need < Len(modules) /\ libs <= modules[Len(modules) - need]
    BY <1>2 DEF TypeInv, FieldsInv, Sync, LoadInv, Loading
  <2>2. Place \in Values
    <3>1. Head(toClient) \in DownFields  BY <1>1 DEF Take, TypeInv, FieldsInv
    <3> QED  BY <1>3, <3>1 DEF DownFields, Tokens, value
  <2>3. Len(got) = 0 \/ Earlier(got[Len(got)], Place)
    <3>1. Len(got) # 0 => got[Len(got)] \in Elements(got)  BY <2>1 DEF Elements
    <3> QED  BY <2>1, <3>1 DEF Past
  <2>4. /\ Elements(got') = Past(Place) \cup {Place} /\ Len(got') = Len(got) + 1
        /\ got'[Len(got')] = Place /\ Ordered(got')
    <3>1. Len(got) % 2 # 1  BY <2>1
    <3> QED  BY <1>1, <1>3, <2>1, <2>2, <2>3, <3>1, Grows
  <2>5. Len(got') % 2 = 1  BY <2>1, <2>4
  <2> QED  BY <1>1, <1>2, <1>4, <2>1, <2>4, <2>5 DEF LoadInv
<1>8. FileInv' /\ DirInv'
  BY <1>1, <1>2 DEF Sync, FileInv, DirInv
<1> QED  BY <1>2, <1>6, <1>7, <1>8 DEF Sync

\* Load reads a library's path, and keeps the module or drops it.
LEMMA TakeLibSync == ASSUME TypeInv, Sync, TakeLib PROVE Sync'
<1> DEFINE m == Len(modules) - need
           i == modules[m] - libs + 1
<1>1. /\ Take("lib") /\ pc = "lib" /\ outbox = <<>> /\ toClient # <<>> /\ LoadNext
      /\ need' = need /\ libs' = libs - 1 /\ got' = Append(got, value)
      /\ registered' = Append(registered, got[Len(got)]) \/ registered' = registered
  BY DEF TakeLib, Take
<1>2. modules \in Seq(Nat) /\ Len(modules) \in Nat
  BY ProtocolAssumption DEF TypeInv, TypeOK
<1>3. /\ need \in Nat /\ libs \in Nat /\ libs > 0 /\ need < Len(modules)
      /\ libs <= modules[m]
  BY <1>1 DEF TypeInv, TypeOK, CountInv, Sync, LoadInv
<1>4. m \in 1..Len(modules) /\ need' = Len(modules) - m /\ modules[m] \in Nat
  <2>1. m \in 1..Len(modules)  BY <1>2, <1>3
  <2> HIDE DEF m
  <2>2. modules[m] \in Nat  BY <1>2, <2>1
  <2> QED  BY <1>1, <1>2, <1>3, <2>1, <2>2 DEF m
<1>5. Place = <<m, i>>
  BY <1>3 DEF Place
<1>6. Head(toClient) = Token("lib", <<m, i>>) /\ value = <<m, i>>
  <2>1. Head(toClient) \in Due  BY <1>1, Reads DEF Reading
  <2> QED  BY <1>1, <1>5, <2>1, Unfolded DEF DueFacts, value, Token
<1>7. /\ Len(got) % 2 = 1 /\ got[Len(got)] = <<m, i>> /\ Ordered(got)
      /\ Elements(got) = Past(<<m, i>>) \cup {<<m, i>>}
  BY <1>1, <1>5 DEF Sync, LoadInv, Loading
<1> HIDE DEF m
<1>8. /\ i \in 1..modules[m] /\ libs' \in Nat /\ libs' <= modules[m]
      /\ (libs' = 0 <=> i = modules[m]) /\ modules[m] - libs' + 1 = i + 1
  BY <1>1, <1>3, <1>4
<1> HIDE DEF i
<1>9. After(World, Head(toClient)) = IF libs' = 0 THEN NextModule(modules, m)
                                     ELSE Token("id", <<m, modules[m] - libs' + 1>>)
  <2> DEFINE v == <<m, i>>
  <2>1. v[1] = m /\ v[2] = i  OBVIOUS
  <2> HIDE DEF v
  <2>2. After(World, Token("lib", v)) = IF v[2] = World.modules[v[1]] THEN NextModule(World.modules, v[1])
                                        ELSE Token("id", <<v[1], v[2] + 1>>)
    BY AfterIs
  <2>3. World.modules = modules  BY DEF World
  <2> QED  BY <1>6, <1>8, <2>1, <2>2, <2>3 DEF v
<1>10. <<m, i>> \in Libs /\ <<m, i>> \in Values /\ got \in Seq(Values) /\ Len(got) \in Nat
  <2>1. <<m, i>> \in Libs  BY <1>2, <1>4, <1>8, PastGrows
  <2>2. Head(toClient) \in DownFields  BY <1>1 DEF Take, TypeInv, FieldsInv
  <2>3. <<m, i>> \in Values  BY <1>6, <2>2 DEF DownFields, Tokens, value
  <2> QED  BY <2>1, <2>3 DEF TypeInv, FieldsInv
<1>11. /\ Elements(got') = Elements(got) \cup {<<m, i>>} /\ Len(got') = Len(got) + 1
       /\ Ordered(got')
  <2> DEFINE x == <<m, i>>
  <2>1. Len(got) % 2 # 0  BY <1>7
  <2>2. /\ x \in Values /\ got \in Seq(Values) /\ Ordered(got) /\ got[Len(got)] = x
        /\ got' = Append(got, x)
    BY <1>1, <1>6, <1>7, <1>10
  <2> HIDE DEF x
  <2>3. /\ Elements(Append(got, x)) = Elements(got) \cup {x} /\ Len(Append(got, x)) = Len(got) + 1
        /\ Ordered(Append(got, x))
    BY <2>1, <2>2, Grows
  <2> QED  BY <2>2, <2>3 DEF x
<1>12. Len(got') % 2 = 0
  BY <1>7, <1>10, <1>11
<1>13. Elements(got') = Past(IF libs' = 0 THEN <<m + 1, 0>> ELSE <<m, modules[m] - libs' + 1>>)
  <2>1. /\ Past(<<m, i + 1>>) = Past(<<m, i>>) \cup {<<m, i>>}
        /\ i = modules[m] => Past(<<m + 1, 0>>) = Past(<<m, i>>) \cup {<<m, i>>}
    BY <1>2, <1>4, <1>8, PastGrows
  <2> QED  BY <1>7, <1>8, <1>11, <2>1
<1>14. registered' \in Seq(Libs)
  <2> DEFINE x == <<m, i>>
  <2>1. registered \in Seq(Libs)  BY DEF TypeInv, FieldsInv
  <2>2. x \in Libs /\ (registered' = Append(registered, x) \/ registered' = registered)
    BY <1>1, <1>7, <1>10
  <2> HIDE DEF x
  <2> QED  BY ONLY <2>1, <2>2
<1>15. m \in 0..Len(modules) /\ (libs' > 0 => m > 0 /\ libs' <= modules[m])
  BY <1>4, <1>8
<1> QED  BY <1>1, <1>4, <1>8, <1>9, <1>11, <1>12, <1>13, <1>14, <1>15, LoadStep

-----------------------------------------------------------------------------
(* The server. *)

\* What a step of the server leaves alone.
LEMMA ServerFrame ==
  ASSUME TypeInv, Sync, UNCHANGED <<clientVars, deviceVars>>
  PROVE  LoadInv' /\ (sv' # "lost" => NotLost') /\ (sv' # "copy" => FileInv')
<1>1. Place' = Place /\ Past(Place)' = Past(Place) /\ Libs' = Libs /\ Reporting' = Reporting
  BY DEF Place, Past, Libs, Reporting
<1>2. LoadInv'
  BY <1>1 DEF Sync, LoadInv
<1>3. (sv' # "lost" => NotLost') /\ (sv' # "copy" => FileInv')
  BY DEF Sync, NotLost, FileInv
<1> QED  BY <1>2, <1>3

\* Where the client is when the server reads.
LEMMA GetFrame ==
  ASSUME TypeInv, Sync, NEW k \in Waiting, Get(k)
  PROVE  /\ sv = k /\ sv # "ended" /\ out = <<>> /\ Head(toServer) \in Wanted
         /\ UNCHANGED <<toClient, faults, clientVars, deviceVars>>
         /\ LoadInv'
         /\ Tail(Up) # <<>> => Then(registered, Head(toServer)) # {}
         /\ pc # "closed" => /\ Tail(Up) = <<>> => pc \in Awaits(registered, Head(toServer))
                             /\ pc \in {"string", "errno", "dirErrno", "count", "reply", "idle"}
         /\ pc = "reply" => sv = "continue"
         /\ (k # "continue" /\ (sv' = "continue" => index' = 0) => DirInv')
<1>1. /\ sv = k /\ sv # "ended" /\ out = <<>> /\ toServer # <<>> /\ toServer' = Tail(toServer)
      /\ UNCHANGED <<toClient, faults, clientVars, deviceVars>>
  BY DEF Get, OnlyServer, Waiting
<1>2. /\ Up \in Seq(UpFields) /\ Up # <<>> /\ Up[1] = Head(toServer) /\ Head(toServer) \in Wanted
      /\ Tail(toServer) \o outbox = Tail(Up)
      /\ Follow(registered, Then(registered, Head(toServer)), Tail(Up))
      /\ pc # "closed" => /\ Tail(Up) = <<>> => pc \in Awaits(registered, Head(toServer))
                          /\ Tail(Up) # <<>> => pc \in Awaits(registered, Tail(Up)[Len(Tail(Up))])
  BY <1>1, Hears
<1>3. Tail(Up) # <<>> => Then(registered, Head(toServer)) # {}
  BY <1>2 DEF Follow
<1>4. pc # "closed" => pc \in {"string", "errno", "dirErrno", "count", "reply", "idle"}
  <2>1. \A t : Awaits(registered, t) \subseteq {"string", "errno", "dirErrno", "count", "reply", "idle"}
    BY DEF Awaits
  <2> QED  BY <1>2, <2>1
<1>5. pc = "reply" => sv = "continue"
  BY <1>1, <1>2, OneReply
<1>6. k # "continue" /\ (sv' = "continue" => index' = 0) => DirInv'
  BY <1>1, <1>4, <1>5 DEF Sync, DirInv, Open
<1>7. LoadInv'
  BY <1>1, ServerFrame
<1> QED  BY <1>1, <1>2, <1>3, <1>4, <1>5, <1>6, <1>7

\* An answer of one field.
LEMMA OneField ==
  ASSUME NEW w, NEW t, NEW from, t \in from, NEW s, s = <<t>>
  PROVE  Chained(w, from, s) /\ Joined(w, from, s, After(w, t))
BY DEF Chained, Joined

\* The server reads an action, and answers or refuses it or waits for its first field.
LEMMA GetActionSync == ASSUME TypeInv, Sync, TypeInv', GetAction PROVE Sync'
<1>1. Get("action") /\ "action" \in Waiting
  BY DEF GetAction, Waiting
<1>2. /\ sv = "action" /\ out = <<>> /\ Head(toServer) \in Wanted
      /\ UNCHANGED <<toClient, clientVars, deviceVars, recorded, listed, todo, faults>>
      /\ LoadInv'
      /\ Tail(Up) # <<>> => Then(registered, Head(toServer)) # {}
      /\ pc # "closed" /\ Tail(Up) = <<>> => pc \in Awaits(registered, Head(toServer))
      /\ (sv' = "continue" => index' = 0) => DirInv'
  <2>1. UNCHANGED <<recorded, listed, todo>>  BY DEF GetAction
  <2> QED  BY <1>1, <2>1, GetFrame
<1>3. PICK a \in Actions : Head(toServer) = Token("action", a)
  BY <1>2, Unfolded DEF WantedFacts, Plain, Actions, PlainActions
<1>4. field = a /\ out' \in Seq(DownFields)
  <2>1. DownFields' = DownFields  BY <1>2 DEF DownFields, Libs
  <2> QED  BY <1>3, <2>1 DEF field, Token, TypeInv, FieldsInv
<1>5. a = "READ_MODULES" => ~recorded
  BY <1>2, <1>3, Unfolded DEF WantedFacts, Plain, PlainActions, Token
<1>6. a = "WRITE_STATUS" => Unreported
  BY <1>2, <1>3, Unfolded DEF WantedFacts, Plain, PlainActions, Token
<1>7. recorded => listed = registered
  BY <1>2 DEF Sync, StatusInv
<1>8. CASE a \in PrivateActions /\ ~private
  <2>1. sv' = "ended" /\ out' = <<>>  BY <1>2, <1>4, <1>8 DEF GetAction
  <2>2. UpInv' /\ DownInv'
    <3>1. Chained(World', Due', <<>>)  BY DEF Chained
    <3> QED  BY <1>1, <1>4, <2>1, <3>1, GetSync
  <2>3. StatusInv'  BY <1>2, <1>7, <2>1 DEF Sync, StatusInv
  <2>4. NotLost' /\ FileInv' /\ DirInv' /\ LoadInv'  BY <1>2, <2>1, ServerFrame
  <2> QED  BY <2>2, <2>3, <2>4 DEF Sync
<1>9. CASE ~(a \in PrivateActions /\ ~private) /\ a \in {"READ_NATIVE_BRIDGE", "READ_MAGISK_TMPFS_PATH"}
  <2>1. sv' = "action" /\ out' = <<Token("string", 1)>>
    BY <1>2, <1>4, <1>9, FirstFields DEF GetAction
  <2>2. Then(registered, Head(toServer)) = {} /\ Awaits(registered, Head(toServer)) = {"string"}
    BY <1>3, <1>9, ThenIs, AwaitsIs
  <2>3. ASSUME pc # "closed"
        PROVE  Tail(Up) = <<>> /\ Chained(World', Due', out') /\ Joined(World', Due', out', Coming')
    <3>1. Tail(Up) = <<>> /\ pc = "string"  BY <1>2, <2>2, <2>3
    <3>2. Due' = {Token("string", 1)} /\ Coming' = Silence
      BY <1>2, <2>1, <3>1, Unfolded DEF DueFacts, ComingFacts
    <3>3. After(World', Token("string", 1)) = Silence  BY AfterIs
    <3> QED  BY <2>1, <3>1, <3>2, <3>3, OneField
  <2>4. UpInv' /\ DownInv'  BY <1>1, <1>4, <2>1, <2>2, <2>3, GetSync
  <2>5. StatusInv'  BY <1>2, <1>7, <2>1 DEF Sync, StatusInv
  <2>6. NotLost' /\ FileInv' /\ DirInv' /\ LoadInv'  BY <1>2, <2>1, ServerFrame
  <2> QED  BY <2>4, <2>5, <2>6 DEF Sync
<1>10. CASE ~(a \in PrivateActions /\ ~private) /\ a \in {"READ_FILE", "READ_DIR", "READ_MODULES", "WRITE_STATUS"}
  <2>1. /\ out' = <<>> /\ sv' = FirstField[a]
        /\ sv' \in {"filePath", "dirPath", "modulesAbi", "statusAbi"}
    BY <1>2, <1>4, <1>10, FirstFields DEF GetAction
  <2>2. Then(registered, Head(toServer)) = {Token(sv', 1)} /\ Awaits(registered, Head(toServer)) = {}
    BY <1>3, <1>10, <2>1, FirstFields, ThenIs, AwaitsIs
  <2>3. Wanted' = {Token(sv', 1)}  BY <2>1, Unfolded DEF WantedFacts
  <2>4. pc # "closed" => Tail(Up) # <<>>  BY <1>2, <2>2
  <2>5. UpInv' /\ DownInv'  BY <1>1, <1>4, <2>1, <2>2, <2>3, <2>4, GetSync
  <2>6. StatusInv'
    <3>1. sv' = "statusAbi" <=> a = "WRITE_STATUS"  BY <1>10, <2>1, FirstFields
    <3> QED  BY <1>2, <1>6, <1>7, <2>1, <3>1 DEF Sync, StatusInv, Unreported
  <2>7. NotLost' /\ FileInv' /\ DirInv' /\ LoadInv'  BY <1>2, <2>1, ServerFrame
  <2> QED  BY <2>5, <2>6, <2>7 DEF Sync
<1> QED  BY <1>8, <1>9, <1>10 DEF Actions, PlainActions

\* handleReadModules: the number of modules.
LEMMA GetModulesSync == ASSUME TypeInv, Sync, TypeInv', GetModulesAbi PROVE Sync'
<1>1. Get("modulesAbi") /\ "modulesAbi" \in Waiting
  BY DEF GetModulesAbi, Waiting
<1>2. /\ sv = "modulesAbi" /\ out = <<>> /\ Head(toServer) \in Wanted
      /\ UNCHANGED <<toClient, clientVars, deviceVars, recorded, listed, todo, faults>>
      /\ LoadInv' /\ (Tail(Up) # <<>> => Then(registered, Head(toServer)) # {})
      /\ pc # "closed" /\ Tail(Up) = <<>> => pc \in Awaits(registered, Head(toServer))
      /\ (sv' = "continue" => index' = 0) => DirInv'
  <2>1. UNCHANGED <<recorded, listed, todo>>  BY DEF GetModulesAbi
  <2> QED  BY <1>1, <2>1, GetFrame
<1>3. Head(toServer) = Token("modulesAbi", 1)
  BY <1>2, Unfolded DEF WantedFacts
<1>4. Then(registered, Head(toServer)) = {} /\ Awaits(registered, Head(toServer)) = {"count"}
  BY <1>3, ThenIs, AwaitsIs
<1>5. /\ out' = <<Token("count", Len(modules))>> /\ written' = 0
      /\ sv' = (IF modules = <<>> THEN "action" ELSE "modules")
  BY DEF GetModulesAbi
<1>6. modules \in Seq(Nat) /\ Len(modules) \in Nat /\ (modules = <<>> <=> Len(modules) = 0)
  <2>1. modules \in Seq(Nat)  BY ProtocolAssumption DEF TypeInv, TypeOK
  <2> QED  BY <2>1
<1>7. ASSUME pc # "closed"
      PROVE  Tail(Up) = <<>> /\ Chained(World', Due', out') /\ Joined(World', Due', out', Coming')
  <2>1. Tail(Up) = <<>> /\ pc = "count"  BY <1>2, <1>4, <1>7
  <2>2. Due' = {Token("count", Len(modules))}  BY <1>2, <2>1, Unfolded DEF DueFacts
  <2>3. World'.modules = modules  BY <1>2 DEF World
  <2>4. After(World', Token("count", Len(modules))) = NextModule(World'.modules, 0)  BY AfterIs
  <2>5. Coming' = NextModule(modules, 0)
    <3>1. CASE modules = <<>>  BY <1>5, <1>6, <3>1, Unfolded DEF ComingFacts, NextModule
    <3>2. CASE modules # <<>>  BY <1>5, <1>6, <3>2, Unfolded DEF ComingFacts, NextModule
    <3> QED  BY <3>1, <3>2
  <2> QED  BY <1>5, <2>1, <2>2, <2>3, <2>4, <2>5, OneField
<1>8. UpInv' /\ DownInv'
  <2>1. out' \in Seq(DownFields)
    <3>1. DownFields' = DownFields  BY <1>2 DEF DownFields, Libs
    <3> QED  BY <3>1 DEF TypeInv, FieldsInv
  <2>2. sv' # "ended"  BY <1>5
  <2> QED  BY <1>1, <1>4, <1>7, <2>1, <2>2, GetSync
<1>9. StatusInv'
  BY <1>2, <1>5 DEF Sync, StatusInv
<1>10. NotLost' /\ FileInv' /\ DirInv'
  BY <1>2, <1>5, ServerFrame
<1> QED  BY <1>2, <1>8, <1>9, <1>10 DEF Sync

\* An answer, or a part of one, that the server gives without having read anything.
LEMMA SpeakSync ==
  ASSUME TypeInv, Sync, sv \in Working, out = <<>>, UNCHANGED <<toServer, toClient, clientVars, deviceVars, index>>,
         out' \in Seq(DownFields), sv' # "ended", Chained(World, {Coming}, out'),
         Joined(World, {Coming}, out', Coming')
  PROVE  UpInv' /\ DownInv'
<1>1. Up = <<>>
  BY Unfolded DEF Sync, UpInv, Follow, WantedFacts, Working
<1>2. Up' = <<>> /\ World' = World
  BY <1>1 DEF Up, World
<1>3. Due' = Due
  BY DEF Due, Place
<1>4. UpInv'
  BY <1>2 DEF UpInv, Follow
<1>5. ASSUME pc # "closed" PROVE Chained(World, Due, Down') /\ Joined(World, Due, Down', Coming')
  <2>1. toClient \in Seq(DownFields) /\ Down = toClient /\ Down' = toClient \o out'
    BY DEF TypeInv, FieldsInv, Down
  <2>2. Chained(World, Due, toClient) /\ Joined(World, Due, toClient, Coming)
    BY <1>1, <1>5, <2>1 DEF Sync, DownInv, Open, Working
  <2>3. /\ Chained(World, Due, toClient \o out')
        /\ \A d : Joined(World, {Coming}, out', d) => Joined(World, Due, toClient \o out', d)
    BY <2>1, <2>2, ChainJoin
  <2> QED  BY <2>1, <2>3
<1>6. DownInv'
  BY <1>2, <1>3, <1>5 DEF DownInv, Open
<1> QED  BY <1>4, <1>6

\* handleReadModules: a module.
LEMMA WriteModuleSync == ASSUME TypeInv, Sync, TypeInv', WriteModule PROVE Sync'
<1> DEFINE k == written + 1
<1>1. /\ sv = "modules" /\ out = <<>> /\ out' = ModuleFields(modules, k) /\ written' = k
      /\ sv' = (IF k = Len(modules) THEN "action" ELSE "modules")
      /\ UNCHANGED <<toServer, toClient, clientVars, deviceVars, index, listing, recorded, listed, todo, faults>>
  BY DEF WriteModule, OnlyServer
<1>2. modules \in Seq(Nat) /\ Len(modules) \in Nat /\ k \in 1..Len(modules)
  <2>1. modules \in Seq(Nat)  BY ProtocolAssumption DEF TypeInv, TypeOK
  <2> QED  BY <1>1, <2>1 DEF TypeInv, TypeOK, CountInv
<1> HIDE DEF k
<1>3. World.modules = modules
  BY DEF World
<1>4. Coming = Token("path", k)
  BY <1>1, Unfolded DEF ComingFacts, k
<1>5. /\ Chained(World, {Token("path", k)}, ModuleFields(modules, k))
      /\ Joined(World, {Token("path", k)}, ModuleFields(modules, k), NextModule(modules, k))
  BY <1>2, <1>3, ModuleChain
<1>6. Coming' = NextModule(modules, k)
  <2>1. CASE k = Len(modules)  BY <1>1, <1>2, <2>1, Unfolded DEF ComingFacts, NextModule
  <2>2. CASE k # Len(modules)  BY <1>1, <1>2, <2>2, Unfolded DEF ComingFacts, NextModule
  <2> QED  BY <2>1, <2>2
<1>7. UpInv' /\ DownInv'
  <2>1. out' \in Seq(DownFields)
    <3>1. DownFields' = DownFields  BY <1>1 DEF DownFields, Libs
    <3> QED  BY <3>1 DEF TypeInv, FieldsInv
  <2>2. sv \in Working /\ sv' # "ended"  BY <1>1 DEF Working
  <2>3. Chained(World, {Coming}, out') /\ Joined(World, {Coming}, out', Coming')
    BY <1>1, <1>4, <1>5, <1>6
  <2> QED  BY <1>1, <2>1, <2>2, <2>3, SpeakSync
<1>8. StatusInv'
  BY <1>1 DEF Sync, StatusInv
<1>9. DirInv'
  <2>1. Up' = Up /\ Open' = Open  BY <1>1 DEF Up, Open
  <2> QED  BY <1>1, <2>1 DEF Sync, DirInv
<1>10. NotLost' /\ FileInv' /\ LoadInv'
  BY <1>1, ServerFrame
<1> QED  BY <1>7, <1>8, <1>9, <1>10 DEF Sync

\* handleWriteStatus: the ABI.
LEMMA GetStatusAbiSync == ASSUME TypeInv, Sync, TypeInv', GetStatusAbi PROVE Sync'
<1>1. Get("statusAbi") /\ "statusAbi" \in Waiting /\ sv' = "status"
  BY DEF GetStatusAbi, Waiting
<1>2. /\ sv = "statusAbi" /\ out = <<>> /\ out' = <<>> /\ Head(toServer) \in Wanted
      /\ UNCHANGED <<toClient, clientVars, deviceVars, recorded, listed, todo, faults>>
      /\ LoadInv'
      /\ pc # "closed" /\ Tail(Up) = <<>> => pc \in Awaits(registered, Head(toServer))
      /\ (sv' = "continue" => index' = 0) => DirInv'
  <2>1. UNCHANGED <<recorded, listed, todo, out>>  BY DEF GetStatusAbi
  <2> QED  BY <1>1, <2>1, GetFrame
<1>3. Head(toServer) = Token("statusAbi", 1)
  BY <1>2, Unfolded DEF WantedFacts
<1>4. /\ Then(registered, Head(toServer)) = {Token("status", Len(registered))}
      /\ Awaits(registered, Head(toServer)) = {}
  BY <1>3, ThenIs, AwaitsIs
<1>5. Wanted' = {Token("status", Len(registered))}
  BY <1>1, <1>2, Unfolded DEF WantedFacts
<1>6. UpInv' /\ DownInv'
  <2>1. out' \in Seq(DownFields)  BY <1>2
  <2>2. pc # "closed" => Tail(Up) # <<>>  BY <1>2, <1>4
  <2> QED  BY <1>1, <1>2, <1>4, <1>5, <2>1, <2>2, GetSync
<1>7. StatusInv'
  BY <1>1, <1>2 DEF Sync, StatusInv
<1>8. NotLost' /\ FileInv' /\ DirInv'
  BY <1>1, <1>2, ServerFrame
<1> QED  BY <1>2, <1>6, <1>7, <1>8 DEF Sync

\* handleWriteStatus: the process is recorded, with the number of its modules.
LEMMA GetStatusSync == ASSUME TypeInv, Sync, TypeInv', GetStatus PROVE Sync'
<1>1. /\ Get("status") /\ "status" \in Waiting /\ recorded' = TRUE /\ todo' = field
      /\ sv' = (IF field = 0 THEN "action" ELSE "id") /\ UNCHANGED <<out, listed, listing, index>>
  BY DEF GetStatus, Waiting
<1>2. /\ sv = "status" /\ out = <<>> /\ out' = <<>> /\ Head(toServer) \in Wanted
      /\ UNCHANGED <<toClient, clientVars, deviceVars, faults>>
      /\ LoadInv'
      /\ pc # "closed" /\ Tail(Up) = <<>> => pc \in Awaits(registered, Head(toServer))
      /\ (sv' = "continue" => index' = 0) => DirInv'
  BY <1>1, GetFrame
<1>3. Head(toServer) = Token("status", Len(registered)) /\ field = Len(registered)
  BY <1>2, Unfolded DEF WantedFacts, field, Token
<1>4. listed = <<>> /\ Len(listed) = 0 /\ ~(pc \in Loading \/ ~loaded)
  BY <1>2 DEF Sync, StatusInv
<1>5. registered \in Seq(Libs) /\ Len(registered) \in Nat /\ (registered = <<>> <=> Len(registered) = 0)
  <2>1. registered \in Seq(Libs)  BY DEF TypeInv, FieldsInv
  <2> QED  BY <2>1
<1>6. out' \in Seq(DownFields)
  BY <1>2
<1>7. CASE registered = <<>>
  <2>1. sv' = "action"  BY <1>1, <1>3, <1>5, <1>7
  <2>2. Then(registered, Head(toServer)) = Plain /\ Awaits(registered, Head(toServer)) = {"idle"}
    <3>1. \A ids, v : Then(ids, Token("status", v)) = IF ids = <<>> THEN Plain ELSE {Token("id", <<1, ids[1]>>)}
      BY ThenIs
    <3>2. \A ids, v : Awaits(ids, Token("status", v)) = IF ids = <<>> THEN {"idle"} ELSE {}
      BY AwaitsIs
    <3>3. Then(registered, Token("status", Len(registered))) = Plain  BY ONLY <1>7, <3>1
    <3>4. Awaits(registered, Token("status", Len(registered))) = {"idle"}  BY ONLY <1>7, <3>2
    <3> QED  BY ONLY <1>3, <3>3, <3>4
  <2>3. Plain \subseteq Wanted'  BY <2>1, Unfolded DEF WantedFacts
  <2>4. ASSUME pc # "closed", Tail(Up) = <<>>
        PROVE  Chained(World', Due', out') /\ Joined(World', Due', out', Coming')
    <3>1. pc = "idle"  BY <1>2, <2>2, <2>4
    <3>2. Due' = {Silence} /\ Coming' = Silence  BY <1>2, <2>1, <3>1, Unfolded DEF DueFacts, ComingFacts
    <3> QED  BY <1>2, <3>2 DEF Chained, Joined
  <2>5. UpInv' /\ DownInv'  BY <1>1, <1>2, <1>6, <2>2, <2>3, <2>4, GetSync
  <2>6. StatusInv'  BY <1>1, <1>2, <1>4, <1>7, <2>1 DEF StatusInv
  <2>7. NotLost' /\ FileInv' /\ DirInv'  BY <1>2, <2>1, ServerFrame
  <2> QED  BY <1>2, <2>5, <2>6, <2>7 DEF Sync
<1>8. CASE registered # <<>>
  <2>1. sv' = "id"  BY <1>1, <1>3, <1>5, <1>8
  <2>2. /\ Then(registered, Head(toServer)) = {Token("id", <<1, registered[1]>>)}
        /\ Awaits(registered, Head(toServer)) = {}
    BY <1>3, <1>8, ThenIs, AwaitsIs
  <2>3. Wanted' = {Token("id", <<1, registered[1]>>)}
    <3>1. Len(listed') + 1 = 1 /\ registered' = registered  BY <1>1, <1>2, <1>4
    <3> QED  BY <2>1, <3>1, Unfolded DEF WantedFacts
  <2>4. pc # "closed" => Tail(Up) # <<>>  BY <1>2, <2>2
  <2>5. UpInv' /\ DownInv'  BY <1>1, <1>2, <1>6, <2>2, <2>3, <2>4, GetSync
  <2>6. StatusInv'
    <3>1. Len(listed') = 0 /\ Len(registered') > 0 /\ todo' = Len(registered') - Len(listed')
      BY <1>1, <1>2, <1>3, <1>4, <1>5, <1>8
    <3> QED  BY <1>1, <1>2, <1>4, <2>1, <3>1 DEF StatusInv
  <2>7. NotLost' /\ FileInv' /\ DirInv'  BY <1>2, <2>1, ServerFrame
  <2> QED  BY <1>2, <2>5, <2>6, <2>7 DEF Sync
<1> QED  BY <1>7, <1>8

\* handleWriteStatus: a module's id.
LEMMA GetIdSync == ASSUME TypeInv, Sync, TypeInv', GetId PROVE Sync'
<1> DEFINE n == Len(listed) + 1
<1>1. /\ Get("id") /\ "id" \in Waiting /\ sv' = (IF field[2] \in LongIds THEN "ended" ELSE "about")
      /\ UNCHANGED <<out, index, listing, todo, recorded, listed>>
  BY DEF GetId, Waiting
<1>2. /\ sv = "id" /\ out = <<>> /\ out' = <<>> /\ Head(toServer) \in Wanted
      /\ UNCHANGED <<toClient, clientVars, deviceVars, faults>>
      /\ LoadInv'
      /\ pc # "closed" /\ Tail(Up) = <<>> => pc \in Awaits(registered, Head(toServer))
      /\ (sv' = "continue" => index' = 0) => DirInv'
  BY <1>1, GetFrame
<1>3. recorded /\ recorded' = TRUE /\ loaded' = TRUE /\ pc' \notin Loading /\ n \in DOMAIN registered
      /\ todo = Len(registered) - Len(listed) /\ \A i \in 1..Len(listed) : listed[i] = registered[i]
      /\ Len(listed) < Len(registered) /\ loaded /\ pc \notin Loading
  <2>1. registered \in Seq(Libs) /\ listed \in Seq(Libs)  BY DEF TypeInv, FieldsInv
  <2>2. loaded \in BOOLEAN /\ recorded \in BOOLEAN  BY DEF TypeInv, TypeOK
  <2>3. recorded /\ loaded /\ pc \notin Loading  BY <1>2 DEF Sync, StatusInv
  <2>4. recorded' = TRUE /\ loaded' = TRUE /\ pc' \notin Loading  BY <1>1, <1>2, <2>2, <2>3
  <2> QED  BY <1>2, <2>1, <2>3, <2>4 DEF Sync, StatusInv
<1>4. Head(toServer) = Token("id", <<n, registered[n]>>)
  BY <1>2, Unfolded DEF WantedFacts
<1>5. field[2] = registered[n]
  BY <1>4 DEF field, Token
<1>6. /\ Then(registered, Head(toServer)) = {Token("about", <<n, registered[n]>>)}
      /\ Awaits(registered, Head(toServer)) = {}
  BY <1>4, ThenIs, AwaitsIs
<1>7. sv' # "ended" => Wanted' = {Token("about", <<n, registered[n]>>)}
  <2>1. Len(listed') + 1 = n /\ registered' = registered /\ (sv' # "ended" => sv' = "about")
    BY <1>1, <1>2
  <2> QED  BY <2>1, Unfolded DEF WantedFacts
<1>8. UpInv' /\ DownInv'
  <2>1. out' \in Seq(DownFields)  BY <1>2
  <2>2. pc # "closed" => Tail(Up) # <<>>  BY <1>2, <1>6
  <2> QED  BY <1>1, <1>2, <1>6, <1>7, <2>1, <2>2, GetSync
<1>9. StatusInv'
  <2>1. CASE field[2] \in LongIds
    <3>1. sv' = "ended" /\ \E i \in DOMAIN registered' : registered'[i] \in LongIds \cup LongVersions
      BY <1>1, <1>2, <1>3, <1>5, <2>1
    <3> QED  BY <1>3, <3>1 DEF StatusInv
  <2>2. CASE field[2] \notin LongIds
    <3>1. sv' = "about" /\ UNCHANGED <<listed, registered, todo>>  BY <1>1, <1>2, <2>2
    <3> QED  BY <1>3, <3>1 DEF StatusInv
  <2> QED  BY <2>1, <2>2
<1>10. NotLost' /\ FileInv' /\ DirInv'
  BY <1>1, <1>2, ServerFrame
<1> QED  BY <1>2, <1>8, <1>9, <1>10 DEF Sync

\* handleWriteStatus: the rest of a module, which is then listed.
LEMMA GetListedSync ==
  ASSUME TypeInv, Sync, TypeInv', GetAbout, field[2] \notin LongVersions
  PROVE  Sync'
<1> DEFINE n == Len(listed) + 1
<1>1. /\ Get("about") /\ "about" \in Waiting /\ sv' = (IF todo = 1 THEN "action" ELSE "id")
      /\ listed' = Append(listed, field[2]) /\ todo' = todo - 1
      /\ UNCHANGED <<out, index, listing, recorded>>
  BY DEF GetAbout, Waiting
<1>2. /\ sv = "about" /\ out = <<>> /\ out' = <<>> /\ Head(toServer) \in Wanted
      /\ UNCHANGED <<toClient, clientVars, deviceVars, faults>>
      /\ LoadInv'
      /\ pc # "closed" /\ Tail(Up) = <<>> => pc \in Awaits(registered, Head(toServer))
      /\ (sv' = "continue" => index' = 0) => DirInv'
  BY <1>1, GetFrame
<1>3. recorded /\ recorded' = TRUE /\ loaded' = TRUE /\ pc' \notin Loading /\ n \in DOMAIN registered
      /\ todo = Len(registered) - Len(listed) /\ \A i \in 1..Len(listed) : listed[i] = registered[i]
      /\ Len(listed) < Len(registered) /\ loaded /\ pc \notin Loading
  <2>1. registered \in Seq(Libs) /\ listed \in Seq(Libs)  BY DEF TypeInv, FieldsInv
  <2>2. loaded \in BOOLEAN /\ recorded \in BOOLEAN  BY DEF TypeInv, TypeOK
  <2>3. recorded /\ loaded /\ pc \notin Loading  BY <1>2 DEF Sync, StatusInv
  <2>4. recorded' = TRUE /\ loaded' = TRUE /\ pc' \notin Loading  BY <1>1, <1>2, <2>2, <2>3
  <2> QED  BY <1>2, <2>1, <2>3, <2>4 DEF Sync, StatusInv
<1>4. Head(toServer) = Token("about", <<n, registered[n]>>)
  BY <1>2, Unfolded DEF WantedFacts
<1>5. field[2] = registered[n]
  BY <1>4 DEF field, Token
<1>6. /\ Then(registered, Head(toServer)) = IF n = Len(registered) THEN Plain
                                            ELSE {Token("id", <<n + 1, registered[n + 1]>>)}
      /\ Awaits(registered, Head(toServer)) = IF n = Len(registered) THEN {"idle"} ELSE {}
  <2> DEFINE v == <<n, registered[n]>>
  <2>1. v[1] = n  OBVIOUS
  <2> HIDE DEF v
  <2>2. \A ids, x : Then(ids, Token("about", x)) = IF x[1] = Len(ids) THEN Plain
                                                ELSE {Token("id", <<x[1] + 1, ids[x[1] + 1]>>)}
    BY ThenIs
  <2>3. \A ids, x : Awaits(ids, Token("about", x)) = IF x[1] = Len(ids) THEN {"idle"} ELSE {}
    BY AwaitsIs
  <2>4. Then(registered, Token("about", v)) = IF v[1] = Len(registered) THEN Plain
                                              ELSE {Token("id", <<v[1] + 1, registered[v[1] + 1]>>)}
    BY ONLY <2>2
  <2>5. Awaits(registered, Token("about", v)) = IF v[1] = Len(registered) THEN {"idle"} ELSE {}
    BY ONLY <2>3
  <2>6. Head(toServer) = Token("about", v)  BY <1>4 DEF v
  <2> QED  BY ONLY <2>1, <2>4, <2>5, <2>6
<1>7. /\ Len(listed') = n /\ n \in Nat /\ Len(registered) \in Nat
      /\ \A i \in 1..n : listed'[i] = registered[i]
      /\ (todo = 1 <=> n = Len(registered)) /\ registered \in Seq(Libs) /\ listed' \in Seq(Libs)
  <2>1. registered \in Seq(Libs) /\ listed \in Seq(Libs)  BY DEF TypeInv, FieldsInv
  <2>2. registered[n] \in Libs  BY <1>3, <2>1
  <2>3. listed' = Append(listed, registered[n])  BY <1>1, <1>5
  <2> QED  BY <1>3, <2>1, <2>2, <2>3
<1>8. out' \in Seq(DownFields)
  BY <1>2
<1> HIDE DEF n
<1>9. CASE n = Len(registered)
  <2>1. sv' = "action"  BY <1>1, <1>7, <1>9
  <2>2. listed' = registered  BY <1>7, <1>9
  <2>3. Plain \subseteq Wanted'  BY <2>1, Unfolded DEF WantedFacts
  <2>4. Then(registered, Head(toServer)) = Plain /\ Awaits(registered, Head(toServer)) = {"idle"}
    BY <1>6, <1>9
  <2>5. ASSUME pc # "closed", Tail(Up) = <<>>
        PROVE  Chained(World', Due', out') /\ Joined(World', Due', out', Coming')
    <3>1. pc = "idle"  BY <1>2, <2>4, <2>5
    <3>2. Due' = {Silence} /\ Coming' = Silence  BY <1>2, <2>1, <3>1, Unfolded DEF DueFacts, ComingFacts
    <3> QED  BY <1>2, <3>2 DEF Chained, Joined
  <2>6. UpInv' /\ DownInv'  BY <1>1, <1>2, <1>8, <2>3, <2>4, <2>5, GetSync
  <2>7. StatusInv'
    <3>1. listed' = registered'  BY <1>2, <2>2
    <3> QED  BY <1>3, <2>1, <3>1 DEF StatusInv
  <2>8. NotLost' /\ FileInv' /\ DirInv'  BY <1>2, <2>1, ServerFrame
  <2> QED  BY <1>2, <2>6, <2>7, <2>8 DEF Sync
<1>10. CASE n # Len(registered)
  <2>1. sv' = "id"  BY <1>1, <1>7, <1>10
  <2>2. Wanted' = {Token("id", <<n + 1, registered[n + 1]>>)}
    BY <1>2, <1>7, <2>1, Unfolded DEF WantedFacts
  <2>3. /\ Then(registered, Head(toServer)) = {Token("id", <<n + 1, registered[n + 1]>>)}
        /\ Awaits(registered, Head(toServer)) = {}
    BY <1>6, <1>10
  <2>4. pc # "closed" => Tail(Up) # <<>>  BY <1>2, <2>3
  <2>5. UpInv' /\ DownInv'  BY <1>1, <1>2, <1>8, <2>2, <2>3, <2>4, GetSync
  <2>6. StatusInv'
    <3>1. Len(listed') < Len(registered') /\ todo' = Len(registered') - Len(listed')
      BY <1>1, <1>2, <1>3, <1>7, <1>10 DEF n
    <3>2. \A i \in 1..Len(listed') : listed'[i] = registered'[i]  BY <1>2, <1>7
    <3> QED  BY <1>3, <2>1, <3>1, <3>2 DEF StatusInv
  <2>7. NotLost' /\ FileInv' /\ DirInv'  BY <1>2, <2>1, ServerFrame
  <2> QED  BY <1>2, <2>5, <2>6, <2>7 DEF Sync
<1> QED  BY <1>9, <1>10

\* handleWriteStatus: a version name that does not fit.
LEMMA GetLongSync ==
  ASSUME TypeInv, Sync, TypeInv', GetAbout, field[2] \in LongVersions
  PROVE  Sync'
<1> DEFINE n == Len(listed) + 1
<1>1. /\ Get("about") /\ "about" \in Waiting /\ sv' = "ended"
      /\ UNCHANGED <<out, index, listing, todo, recorded, listed>>
  BY DEF GetAbout, Waiting
<1>2. /\ sv = "about" /\ out = <<>> /\ out' = <<>> /\ Head(toServer) \in Wanted
      /\ UNCHANGED <<toClient, clientVars, deviceVars, faults>>
      /\ LoadInv'
      /\ pc # "closed" /\ Tail(Up) = <<>> => pc \in Awaits(registered, Head(toServer))
      /\ (sv' = "continue" => index' = 0) => DirInv'
  BY <1>1, GetFrame
<1>3. recorded /\ loaded /\ pc \notin Loading /\ n \in DOMAIN registered
  <2>1. registered \in Seq(Libs) /\ listed \in Seq(Libs)  BY DEF TypeInv, FieldsInv
  <2> QED  BY <1>2, <2>1 DEF Sync, StatusInv
<1>4. Head(toServer) = Token("about", <<n, registered[n]>>)
  BY <1>2, Unfolded DEF WantedFacts
<1>5. field[2] = registered[n]
  BY <1>4 DEF field, Token
<1>6. Awaits(registered, Head(toServer)) \subseteq {"idle"}
  BY <1>4, AwaitsIs
<1>7. ASSUME pc # "closed", Tail(Up) = <<>> PROVE Chained(World', Due', out')
  <2>1. pc = "idle"  BY <1>2, <1>6, <1>7
  <2>2. Due' = {Silence}  BY <1>2, <2>1, Unfolded DEF DueFacts
  <2> QED  BY <1>2, <2>2 DEF Chained
<1>8. UpInv' /\ DownInv'
  <2>1. out' \in Seq(DownFields)  BY <1>2
  <2> QED  BY <1>1, <1>2, <1>7, <2>1, GetSync
<1>9. StatusInv'
  <2>1. \E i \in DOMAIN registered' : registered'[i] \in LongIds \cup LongVersions
    BY <1>2, <1>3, <1>5
  <2>2. recorded' /\ loaded' /\ pc' \notin Loading  BY <1>1, <1>2, <1>3
  <2> QED  BY <1>1, <2>1, <2>2 DEF StatusInv
<1>10. NotLost' /\ FileInv' /\ DirInv'
  BY <1>1, <1>2, ServerFrame
<1> QED  BY <1>2, <1>8, <1>9, <1>10 DEF Sync

\* handleWriteStatus: what follows the id.
LEMMA GetAboutSync == ASSUME TypeInv, Sync, TypeInv', GetAbout PROVE Sync'
BY GetListedSync, GetLongSync

\* handleReadFile: whether the file was opened.
LEMMA GetFilePathSync == ASSUME TypeInv, Sync, TypeInv', GetFilePath PROVE Sync'
<1>1. Get("filePath") /\ "filePath" \in Waiting /\ UNCHANGED <<index, listing, todo, recorded, listed>>
  BY DEF GetFilePath, Waiting
<1>2. PICK errno \in {0, 1} : out' = <<Token("errno", errno)>> /\ sv' = (IF errno = 0 THEN "stat" ELSE "action")
  BY DEF GetFilePath
<1>3. /\ sv = "filePath" /\ out = <<>> /\ Head(toServer) \in Wanted
      /\ UNCHANGED <<toClient, clientVars, deviceVars, faults>>
      /\ LoadInv' /\ (Tail(Up) # <<>> => Then(registered, Head(toServer)) # {})
      /\ pc # "closed" /\ Tail(Up) = <<>> => pc \in Awaits(registered, Head(toServer))
      /\ (sv' = "continue" => index' = 0) => DirInv'
  BY <1>1, GetFrame
<1>4. Head(toServer) = Token("filePath", 1)
  BY <1>3, Unfolded DEF WantedFacts
<1>5. Then(registered, Head(toServer)) = {} /\ Awaits(registered, Head(toServer)) = {"errno"}
  BY <1>4, ThenIs, AwaitsIs
<1>6. ASSUME pc # "closed"
      PROVE  Tail(Up) = <<>> /\ Chained(World', Due', out') /\ Joined(World', Due', out', Coming')
  <2>1. Tail(Up) = <<>> /\ pc = "errno"  BY <1>3, <1>5, <1>6
  <2>2. Token("errno", errno) \in Due'  BY <1>2, <1>3, <2>1, Unfolded DEF DueFacts
  <2>3. After(World', Token("errno", errno)) = IF errno = 0 THEN Token("size", World'.file) ELSE Silence
    BY AfterIs
  <2>4. World'.file = file'  BY DEF World
  <2>5. Coming' = IF errno = 0 THEN Token("size", file') ELSE Silence
    BY <1>2, Unfolded DEF ComingFacts
  <2> QED  BY <1>2, <2>1, <2>2, <2>3, <2>4, <2>5, OneField
<1>7. UpInv' /\ DownInv'
  <2>1. out' \in Seq(DownFields)
    <3>1. DownFields' = DownFields  BY <1>3 DEF DownFields, Libs
    <3> QED  BY <3>1 DEF TypeInv, FieldsInv
  <2>2. sv' # "ended"  BY <1>2
  <2> QED  BY <1>1, <1>5, <1>6, <2>1, <2>2, GetSync
<1>8. StatusInv'
  BY <1>1, <1>2, <1>3 DEF Sync, StatusInv
<1>9. NotLost' /\ FileInv' /\ DirInv'
  BY <1>2, <1>3, ServerFrame
<1> QED  BY <1>3, <1>7, <1>8, <1>9 DEF Sync

\* handleReadDir: whether the directory was opened.
LEMMA GetDirPathSync == ASSUME TypeInv, Sync, TypeInv', GetDirPath PROVE Sync'
<1>1. Get("dirPath") /\ "dirPath" \in Waiting /\ UNCHANGED <<todo, recorded, listed>>
  BY DEF GetDirPath, Waiting
<1>2. PICK errno \in {0, 1} :
        /\ out' = <<Token("dirErrno", errno)>> /\ sv' = (IF errno = 0 THEN "continue" ELSE "action")
        /\ errno = 0 => index' = 0
  BY DEF GetDirPath
<1>3. /\ sv = "dirPath" /\ out = <<>> /\ Head(toServer) \in Wanted
      /\ UNCHANGED <<toClient, clientVars, deviceVars, faults>>
      /\ LoadInv' /\ (Tail(Up) # <<>> => Then(registered, Head(toServer)) # {})
      /\ pc # "closed" /\ Tail(Up) = <<>> => pc \in Awaits(registered, Head(toServer))
      /\ (sv' = "continue" => index' = 0) => DirInv'
  BY <1>1, GetFrame
<1>4. Head(toServer) = Token("dirPath", 1)
  BY <1>3, Unfolded DEF WantedFacts
<1>5. Then(registered, Head(toServer)) = {} /\ Awaits(registered, Head(toServer)) = {"dirErrno"}
  BY <1>4, ThenIs, AwaitsIs
<1>6. ASSUME pc # "closed"
      PROVE  Tail(Up) = <<>> /\ Chained(World', Due', out') /\ Joined(World', Due', out', Coming')
  <2>1. Tail(Up) = <<>> /\ pc = "dirErrno"  BY <1>3, <1>5, <1>6
  <2>2. Token("dirErrno", errno) \in Due'  BY <1>2, <1>3, <2>1, Unfolded DEF DueFacts
  <2>3. After(World', Token("dirErrno", errno)) = IF errno = 0 THEN Turn ELSE Silence
    BY AfterIs
  <2>4. Coming' = IF errno = 0 THEN Turn ELSE Silence
    BY <1>2, Unfolded DEF ComingFacts
  <2> QED  BY <1>2, <2>1, <2>2, <2>3, <2>4, OneField
<1>7. UpInv' /\ DownInv'
  <2>1. out' \in Seq(DownFields)
    <3>1. DownFields' = DownFields  BY <1>3 DEF DownFields, Libs
    <3> QED  BY <3>1 DEF TypeInv, FieldsInv
  <2>2. sv' # "ended"  BY <1>2
  <2> QED  BY <1>1, <1>5, <1>6, <2>1, <2>2, GetSync
<1>8. StatusInv'
  BY <1>1, <1>2, <1>3 DEF Sync, StatusInv
<1>9. NotLost' /\ FileInv' /\ DirInv'
  BY <1>2, <1>3, ServerFrame
<1> QED  BY <1>3, <1>7, <1>8, <1>9 DEF Sync

\* handleReadDir: the next entry, or the end of the list.
LEMMA GetContinueSync == ASSUME TypeInv, Sync, TypeInv', GetContinue PROVE Sync'
<1>1. /\ Get("continue") /\ "continue" \in Waiting /\ UNCHANGED <<listing, todo, recorded, listed>>
      /\ sv' \in {"action", "continue"}
  BY DEF GetContinue, Get, Waiting
<1>2. /\ sv = "continue" /\ out = <<>> /\ Head(toServer) \in Wanted
      /\ UNCHANGED <<toClient, clientVars, deviceVars, faults>>
      /\ LoadInv' /\ (Tail(Up) # <<>> => Then(registered, Head(toServer)) # {})
      /\ pc # "closed" /\ Tail(Up) = <<>> => pc \in Awaits(registered, Head(toServer))
  BY <1>1, GetFrame
<1>3. Head(toServer) = Token("continue", 1)
  BY <1>2, Unfolded DEF WantedFacts
<1>4. Then(registered, Head(toServer)) = {} /\ Awaits(registered, Head(toServer)) = {"reply"}
  BY <1>3, ThenIs, AwaitsIs
<1>5. Tail(Up) = <<>> /\ (pc # "closed" => pc = "reply") /\ Up # <<>> /\ Up' = Tail(Up)
  <2>1. toServer # <<>> /\ toServer' = Tail(toServer) /\ sv # "ended"  BY <1>1, <1>2 DEF Get
  <2>2. Up # <<>> /\ Tail(toServer) \o outbox = Tail(Up)  BY <1>2, <2>1, Hears
  <2>3. Up' = Tail(Up)  BY <1>2, <2>1, <2>2 DEF Up
  <2> QED  BY <1>2, <1>4, <2>2, <2>3
<1>6. pc # "closed" => index = Len(got) /\ got = Indices(Len(got))
  BY <1>2, <1>5 DEF Sync, DirInv, Open
<1>7. index \in Nat /\ listing \in Int /\ Len(got) \in Nat
  BY ProtocolAssumption DEF TypeInv, TypeOK, FieldsInv
<1>8. \/ index >= listing /\ out' = <<Token("reply", -1)>> /\ sv' = "action" /\ index' = index
      \/ /\ ~(index >= listing) /\ out' = <<Token("reply", 0), Token("type", 1), Token("name", index + 1)>>
         /\ index' = index + 1 /\ sv' = "continue"
  BY <1>2 DEF GetContinue
<1>9. ASSUME pc # "closed"
      PROVE  Chained(World', Due', out') /\ Joined(World', Due', out', Coming')
  <2>1. pc' = "reply" /\ got' = got /\ index = Len(got)  BY <1>2, <1>5, <1>6, <1>9
  <2>2. Due' = {Token("reply", IF index' > Len(got) THEN 0 ELSE -1)}  BY <2>1, Unfolded DEF DueFacts
  <2>3. CASE index' = index /\ out' = <<Token("reply", -1)>> /\ sv' = "action"
    <3>1. Token("reply", -1) \in Due'  BY <1>7, <2>1, <2>2, <2>3
    <3>2. Coming' = Silence  BY <2>3, Unfolded DEF ComingFacts
    <3>3. After(World', Token("reply", -1)) = IF -1 = 0 THEN Token("type", 1) ELSE Silence  BY AfterIs
    <3> QED  BY <2>3, <3>1, <3>2, <3>3, OneField
  <2>4. CASE /\ out' = <<Token("reply", 0), Token("type", 1), Token("name", index + 1)>>
             /\ index' = index + 1 /\ sv' = "continue"
    <3>1. Token("reply", 0) \in Due'  BY <1>7, <2>1, <2>2, <2>4
    <3>2. Coming' = Turn  BY <2>4, Unfolded DEF ComingFacts
    <3>3. World'.entry = index + 1  BY <2>4 DEF World
    <3>4. After(World', Token("reply", 0)) = IF 0 = 0 THEN Token("type", 1) ELSE Silence  BY AfterIs
    <3>5. After(World', Token("type", 1)) = Token("name", index + 1)  BY <3>3, AfterIs
    <3>6. After(World', Token("name", index + 1)) = Turn  BY AfterIs
    <3>7. Len(out') = 3 /\ out'[1] = Token("reply", 0) /\ out'[2] = Token("type", 1)
          /\ out'[3] = Token("name", index + 1) /\ out' # <<>>
      BY <2>4
    <3>8. Chained(World', Due', out')
      <4>1. \A j \in 1..(Len(out') - 1) : j = 1 \/ j = 2  BY <3>7
      <4>2. 1 + 1 = 2 /\ 2 + 1 = 3  OBVIOUS
      <4> QED  BY <3>1, <3>4, <3>5, <3>7, <4>1, <4>2 DEF Chained
    <3>9. Joined(World', Due', out', Coming')  BY <3>2, <3>6, <3>7 DEF Joined
    <3> QED  BY <3>8, <3>9
  <2> QED  BY <1>8, <2>3, <2>4
<1>10. UpInv' /\ DownInv'
  <2>1. out' \in Seq(DownFields)
    <3>1. DownFields' = DownFields  BY <1>2 DEF DownFields, Libs
    <3> QED  BY <3>1 DEF TypeInv, FieldsInv
  <2>2. sv' # "ended"  BY <1>8
  <2> QED  BY <1>1, <1>4, <1>5, <1>9, <2>1, <2>2, GetSync
<1>11. StatusInv'
  BY <1>1, <1>2 DEF Sync, StatusInv
<1>12. DirInv'
  <2>1. pc' = pc /\ got' = got /\ Up' = <<>> /\ listing' = listing  BY <1>1, <1>2, <1>5
  <2>2. CASE pc = "closed"  BY <2>1, <2>2 DEF DirInv, Open
  <2>3. CASE pc = "reply"
    <3>1. index = Len(got) /\ got = Indices(Len(got))  BY <1>6, <2>3
    <3> QED  BY <1>7, <1>8, <2>1, <2>3, <3>1 DEF DirInv
  <2> QED  BY <1>5, <2>2, <2>3
<1>13. NotLost' /\ FileInv'
  BY <1>1, <1>2, ServerFrame
<1> QED  BY <1>2, <1>10, <1>11, <1>12, <1>13 DEF Sync

\* handleReadFile: the size.
LEMMA StatSync == ASSUME TypeInv, Sync, TypeInv', Stat, ~oddFile' PROVE Sync'
<1>1. /\ sv = "stat" /\ out = <<>> /\ left' = file /\ out' = <<Token("size", AsUnsigned(left'))>> /\ pos' = 0
      /\ sv' = (IF left' > 0 \/ left' = -1 THEN "copy" ELSE "action")
      /\ UNCHANGED <<toServer, toClient, clientVars, deviceVars, index, listing, recorded, listed, todo>>
      /\ left' = -1 \/ left' = AsInt(file)
  BY DEF Stat
<1>2. file \in Nat
  BY ONLY TypeInv, ProtocolAssumption DEF TypeInv, TypeOK
<1>3. out' = <<Token("size", file)>> /\ sv' = (IF file > 0 THEN "copy" ELSE "action")
  <2>1. left' # -1  BY <1>1, <1>2
  <2>2. AsInt(file) = file  BY <1>1, <2>1
  <2>3. AsUnsigned(file) = file  BY <1>2, <2>2, Sizes
  <2> QED  BY <1>1, <2>1, <2>3
<1>4. Coming = Token("size", file) /\ Coming' = After(World, Token("size", file))
  <2>1. Coming = Token("size", file)  BY <1>1, Unfolded DEF ComingFacts
  <2>2. After(World, Token("size", file)) = IF World.file = 0 THEN Silence ELSE Token("chunk", 1)  BY AfterIs
  <2>3. World.file = file  BY DEF World
  <2>4. CASE file = 0
    <3>1. sv' = "action"  BY <1>3, <2>4
    <3> QED  BY <2>1, <2>2, <2>3, <2>4, <3>1, Unfolded DEF ComingFacts
  <2>5. CASE file # 0
    <3>1. sv' = "copy" /\ pos' + 1 = 1  BY <1>1, <1>2, <1>3, <2>5
    <3> QED  BY <2>1, <2>2, <2>3, <2>5, <3>1, Unfolded DEF ComingFacts
  <2> QED  BY <2>4, <2>5
<1>5. UpInv' /\ DownInv'
  <2>1. out' \in Seq(DownFields)
    <3>1. DownFields' = DownFields  BY <1>1 DEF DownFields, Libs
    <3> QED  BY <3>1 DEF TypeInv, FieldsInv
  <2>2. sv \in Working /\ sv' # "ended"  BY <1>1 DEF Working
  <2>3. Chained(World, {Coming}, out') /\ Joined(World, {Coming}, out', Coming')
    BY <1>3, <1>4, OneField
  <2> QED  BY <1>1, <2>1, <2>2, <2>3, SpeakSync
<1>6. StatusInv'
  BY <1>1 DEF Sync, StatusInv
<1>7. DirInv'
  <2>1. Up' = Up /\ (Open' => Open) /\ sv' # "continue"  BY <1>1 DEF Up, Open
  <2> QED  BY <1>1, <2>1 DEF Sync, DirInv
<1>8. NotLost' /\ LoadInv'
  BY <1>1, ServerFrame
<1>9. FileInv'
  <2>1. sv' = "copy" => pos' < file' /\ left' = file' - pos'  BY <1>1, <1>2, <1>3
  <2> QED  BY <1>1, <2>1 DEF Sync, FileInv
<1> QED  BY <1>5, <1>6, <1>7, <1>8, <1>9 DEF Sync

\* handleReadFile: a block.
LEMMA CopySync == ASSUME TypeInv, Sync, TypeInv', Copy PROVE Sync'
<1> DEFINE count == IF pos + Block <= file THEN Block ELSE file - pos
<1>1. /\ sv = "copy" /\ out = <<>>
      /\ UNCHANGED <<toServer, toClient, clientVars, deviceVars, index, listing, recorded, listed, todo>>
  BY DEF Copy, OnlyServer
<1>2. file \in Nat /\ pos \in Nat /\ pos < file /\ left = file - pos /\ Block \in Nat \ {0}
  BY <1>1, ProtocolAssumption DEF Sync, FileInv, TypeInv, TypeOK
<1>3. count \in Nat \ {0} /\ pos + count <= file
  BY <1>2
<1>4. /\ out' = [i \in 1..count |-> Token("chunk", pos + i)] /\ pos' = pos + count
      /\ left' = (IF left = -1 THEN -1 ELSE left - count)
      /\ sv' = (IF left # -1 /\ left' <= 0 THEN "action" ELSE "copy")
  BY <1>1, <1>3 DEF Copy
<1> HIDE DEF count
<1>5. left' = file - pos' /\ sv' = (IF pos' = file THEN "action" ELSE "copy") /\ pos' <= file
  BY <1>2, <1>3, <1>4
<1>6. World.file = file
  BY DEF World
<1>7. /\ Chained(World, {Token("chunk", pos + 1)}, out')
      /\ Joined(World, {Token("chunk", pos + 1)}, out', IF pos + count = file THEN Silence ELSE Token("chunk", pos + count + 1))
  BY <1>2, <1>3, <1>4, <1>6, ChunkChain
<1>8. Coming = Token("chunk", pos + 1)
  BY <1>1, Unfolded DEF ComingFacts
<1>9. Coming' = IF pos + count = file THEN Silence ELSE Token("chunk", pos + count + 1)
  <2>1. CASE pos' = file  BY <1>4, <1>5, <2>1, Unfolded DEF ComingFacts
  <2>2. CASE pos' # file  BY <1>4, <1>5, <2>2, Unfolded DEF ComingFacts
  <2> QED  BY <2>1, <2>2
<1>10. UpInv' /\ DownInv'
  <2>1. out' \in Seq(DownFields)
    <3>1. DownFields' = DownFields  BY <1>1 DEF DownFields, Libs
    <3> QED  BY <3>1 DEF TypeInv, FieldsInv
  <2>2. sv \in Working /\ sv' # "ended"  BY <1>1, <1>5 DEF Working
  <2>3. Chained(World, {Coming}, out') /\ Joined(World, {Coming}, out', Coming')
    BY <1>7, <1>8, <1>9
  <2> QED  BY <1>1, <2>1, <2>2, <2>3, SpeakSync
<1>11. StatusInv'
  BY <1>1, <1>5 DEF Sync, StatusInv
<1>12. DirInv'
  <2>1. Up' = Up /\ (Open' => Open) /\ sv' # "continue"  BY <1>1, <1>5 DEF Up, Open
  <2> QED  BY <1>1, <2>1 DEF Sync, DirInv
<1>13. NotLost' /\ LoadInv'
  BY <1>1, <1>5, ServerFrame
<1>14. FileInv'
  <2>1. sv' = "copy" => pos' < file' /\ left' = file' - pos'
    <3>1. pos' \in Nat /\ file' = file  BY <1>1, <1>2, <1>3, <1>4
    <3> QED  BY <1>2, <1>5, <3>1
  <2> QED  BY <1>1, <2>1 DEF Sync, FileInv
<1> QED  BY <1>10, <1>11, <1>12, <1>13, <1>14 DEF Sync

\* The server writes a field.
LEMMA AnswerSync == ASSUME TypeInv, Sync, Answer PROVE Sync'
<1>1. /\ out # <<>> /\ pc # "closed" /\ toClient' = Append(toClient, Head(out)) /\ out' = Tail(out)
      /\ UNCHANGED <<toServer, sv, pos, left, listing, index, written, todo, recorded, listed, faults>>
      /\ UNCHANGED <<clientVars, deviceVars>>
  BY DEF Answer, OnlyServer
<1>2. Down' = Down
  <2>1. toClient \in Seq(DownFields) /\ out \in Seq(DownFields)  BY DEF TypeInv, FieldsInv
  <2>2. Append(toClient, Head(out)) \o Tail(out) = toClient \o out  BY <1>1, <2>1, Moves
  <2> QED  BY <1>1, <2>2 DEF Down
<1>3. sv # "ended"
  BY <1>1 DEF TypeInv, CountInv
<1>4. /\ Up' = Up /\ Open' = Open /\ World' = World /\ Due' = Due /\ Coming' = Coming /\ Wanted' = Wanted
  BY <1>1, <1>3 DEF Up, Open, World, Due, Place, Coming, Wanted, Unreported
<1>5. LoadInv' /\ NotLost' /\ FileInv'
  <2>1. NotLost'  BY <1>1 DEF Sync, NotLost
  <2>2. FileInv'  BY <1>1 DEF Sync, FileInv
  <2> QED  BY <1>1, <2>1, <2>2, ServerFrame
<1>6. UpInv' /\ StatusInv'
  BY <1>1, <1>4 DEF Sync, UpInv, StatusInv
<1>7. DownInv'
  BY <1>1, <1>2, <1>4 DEF Sync, DownInv
<1>8. DirInv'
  BY <1>1, <1>4 DEF Sync, DirInv
<1> QED  BY <1>5, <1>6, <1>7, <1>8 DEF Sync

\* The server gives up the connection.
LEMMA EndSync == ASSUME TypeInv, Sync, Hangup \/ Fail PROVE Sync'
<1>1. /\ sv # "ended" /\ sv' = "ended" /\ out' = <<>>
      /\ UNCHANGED <<toServer, toClient, pos, left, listing, index, written, todo, recorded, listed>>
      /\ UNCHANGED <<clientVars, deviceVars>>
      /\ pc = "closed" \/ faults' > 0
  <2>1. CASE Hangup  BY <2>1 DEF Hangup, ServerEnds, OnlyServer
  <2>2. CASE Fail  BY <2>2 DEF Fail, ServerEnds, OnlyServer, TypeInv, TypeOK
  <2> QED  BY <2>1, <2>2
<1>2. LoadInv' /\ NotLost' /\ FileInv'
  BY <1>1, ServerFrame
<1>3. UpInv'
  BY <1>1 DEF UpInv
<1>4. StatusInv'
  BY <1>1 DEF Sync, StatusInv
<1>5. Up' = Up /\ World' = World /\ Due' = Due /\ (Open' => Open)
  BY <1>1 DEF Up, World, Due, Place, Open
<1>6. toClient \in Seq(DownFields) /\ out \in Seq(DownFields) /\ Down = toClient \o out /\ Down' = toClient
  BY <1>1 DEF TypeInv, FieldsInv, Down
<1>7. DownInv'
  <2>1. Down = <<>> => toClient = <<>>
    <3>1. Len(toClient \o out) = Len(toClient) + Len(out) /\ Len(toClient) \in Nat /\ Len(out) \in Nat
      BY <1>6, Joins
    <3> QED  BY <1>6, <3>1
  <2>2. Chained(World, Due, Down) => Chained(World, Due, toClient)  BY <1>6, ChainFront
  <2> QED  BY <1>1, <1>5, <1>6, <2>1, <2>2 DEF Sync, DownInv
<1>8. DirInv'
  BY <1>1, <1>5 DEF Sync, DirInv
<1> QED  BY <1>2, <1>3, <1>4, <1>7, <1>8 DEF Sync

-----------------------------------------------------------------------------
(* The theorems. *)

\* A new connection is in step.
LEMMA InitSync == Init => SyncInv
<1> SUFFICES ASSUME Init PROVE Sync
  BY DEF SyncInv
<1> USE DEF Init
<1>1. NotLost /\ FileInv /\ StatusInv /\ DirInv
  BY DEF NotLost, FileInv, StatusInv, DirInv, Loading
<1>2. Up = <<>> /\ Down = <<>>
  BY DEF Up, Down
<1>3. UpInv
  BY <1>2 DEF UpInv, Follow
<1>4. DownInv
  <2>1. Coming = Silence /\ Due = {Silence}  BY Unfolded DEF DueFacts, ComingFacts
  <2> QED  BY <1>2, <2>1 DEF DownInv, Chained, Joined
<1>5. LoadInv
  BY DEF LoadInv, Reporting, Loading
<1> QED  BY <1>1, <1>3, <1>4, <1>5 DEF Sync

\* Nothing happens.
LEMMA StutterSync == ASSUME Sync, UNCHANGED vars PROVE Sync'
<1>1. /\ Up' = Up /\ Down' = Down /\ Open' = Open /\ World' = World /\ Due' = Due /\ Coming' = Coming
      /\ Wanted' = Wanted /\ Place' = Place /\ Libs' = Libs /\ Reporting' = Reporting
  BY DEF Up, Down, Open, World, Due, Place, Coming, Wanted, Unreported, Libs, Reporting
<1>2. NotLost' /\ UpInv' /\ StatusInv' /\ FileInv'
  BY <1>1 DEF Sync, NotLost, UpInv, StatusInv, FileInv
<1>3. DownInv'
  BY <1>1 DEF Sync, DownInv
<1>4. DirInv'
  BY <1>1 DEF Sync, DirInv
<1>5. LoadInv'
  <2>1. Past(Place)' = Past(Place)  BY <1>1 DEF Past
  <2> QED  BY <1>1, <2>1 DEF Sync, LoadInv
<1> QED  BY <1>2, <1>3, <1>4, <1>5 DEF Sync

\* A misuse, or a file that changed, stays on record.
LEMMA ExcusedStays == ASSUME Excused, [Next]_vars PROVE Excused'
<1>1. CASE Call
  BY <1>1 DEF Excused, Call, AskString, Load, ReadFile, ReadDir, NextEntry, Ask, OnlyClient
<1>2. CASE WriteField \/ WriteFails \/ Close \/ Interrupt \/ TakeOther \/ ReadFails
  BY <1>2 DEF Excused, WriteField, WriteFails, Close, Interrupt, TakeOther, ReadFails, OnlyClient
<1>3. CASE Receive
  <2>1. CASE TakeOther \/ ReadFails  BY <1>2, <2>1
  <2>2. CASE \E k : Take(k)  BY <2>2 DEF Excused, Take, OnlyClient
  <2> QED
    BY <1>3, <2>1, <2>2 DEF Receive, TakeString, TakeCount, TakePath, TakeLibs, TakeId, TakeLib, TakeErrno, TakeSize,
                            TakeChunk, TakeDirErrno, TakeReply, TakeType, TakeName
<1>4. CASE Serve \/ Fail
  <2>1. CASE \E k : Get(k)  BY <2>1 DEF Excused, Get, OnlyServer
  <2>2. CASE WriteModule \/ Copy \/ Answer \/ GetOther \/ Hangup \/ Fail
    BY <2>2 DEF Excused, WriteModule, Copy, Answer, GetOther, Hangup, Fail, OnlyServer
  <2>3. CASE Stat  BY <2>3 DEF Excused, Stat
  <2> QED
    BY <1>4, <2>1, <2>2, <2>3 DEF Serve, GetAction, GetModulesAbi, GetStatusAbi, GetStatus, GetId, GetAbout,
                                  GetFilePath, GetDirPath, GetContinue
<1>5. CASE ChangeFile
  BY <1>5 DEF Excused, ChangeFile
<1>6. CASE UNCHANGED vars
  BY <1>6 DEF Excused
<1> QED  BY <1>1, <1>2, <1>3, <1>4, <1>5, <1>6 DEF Next

\* Every step keeps the two ends in step.
LEMMA StepSync == ASSUME TypeInv, TypeInv', SyncInv, [Next]_vars PROVE SyncInv'
<1> SUFFICES ASSUME ~Excused' PROVE Sync'
  BY DEF SyncInv
<1>1. Sync /\ ~misused' /\ ~oddFile'
  BY ExcusedStays DEF SyncInv, Excused
<1>2. CASE Call  BY <1>1, <1>2, CallSync
<1>3. CASE WriteField \/ WriteFails \/ Close \/ Interrupt
  BY <1>1, <1>3, WriteSync, BrokenSync, CloseSync, InterruptSync
<1>4. CASE Receive
  <2>1. CASE TakeCount \/ TakePath \/ TakeLibs \/ TakeId \/ TakeLib
    BY <1>1, <2>1, TakeCountSync, TakePathSync, TakeLibsSync, TakeIdSync, TakeLibSync
  <2>2. CASE TakeString \/ TakeErrno \/ TakeSize \/ TakeChunk
    BY <1>1, <2>2, TakeStringSync, TakeErrnoSync, TakeSizeSync, TakeChunkSync
  <2>3. CASE TakeDirErrno \/ TakeReply \/ TakeType \/ TakeName
    BY <1>1, <2>3, TakeDirErrnoSync, TakeReplySync, TakeTypeSync, TakeNameSync
  <2>4. CASE TakeOther \/ ReadFails  BY <1>1, <2>4, NeverOther, BrokenSync
  <2> QED  BY <1>4, <2>1, <2>2, <2>3, <2>4 DEF Receive
<1>5. CASE Serve
  <2>1. CASE GetAction \/ GetModulesAbi \/ WriteModule
    BY <1>1, <2>1, GetActionSync, GetModulesSync, WriteModuleSync
  <2>2. CASE GetStatusAbi \/ GetStatus \/ GetId \/ GetAbout
    BY <1>1, <2>2, GetStatusAbiSync, GetStatusSync, GetIdSync, GetAboutSync
  <2>3. CASE GetFilePath \/ Stat \/ Copy
    BY <1>1, <2>3, GetFilePathSync, StatSync, CopySync
  <2>4. CASE GetDirPath \/ GetContinue
    BY <1>1, <2>4, GetDirPathSync, GetContinueSync
  <2>5. CASE Answer \/ GetOther \/ Hangup
    BY <1>1, <2>5, AnswerSync, NeverOther, EndSync
  <2> QED  BY <1>5, <2>1, <2>2, <2>3, <2>4, <2>5 DEF Serve
<1>6. CASE Fail  BY <1>1, <1>6, EndSync
<1>7. CASE ChangeFile  BY <1>1, <1>7 DEF ChangeFile
<1>8. CASE UNCHANGED vars  BY <1>1, <1>8, StutterSync
<1> QED  BY <1>2, <1>3, <1>4, <1>5, <1>6, <1>7, <1>8 DEF Next

\* The two ends stay in step: unless a DirIter was misused or a file changed, all the
\* fields under way form a prefix of what the end that reads them expects.
LEMMA SyncAlways == Spec => []SyncInv
<1>1. Init => SyncInv  BY InitSync
<1>2. TypeInv /\ TypeInv' /\ SyncInv /\ [Next]_vars => SyncInv'  BY StepSync
<1> QED  BY <1>1, <1>2, TypeInvAlways, PTL DEF Spec

\* Neither end ever takes a field for another: rirud.h and DaemonSocketServerThread.java
\* agree on the order, kind and number of the fields of every action.
THEOREM InStepAlways == Spec => []InStep
<1>1. SyncInv => InStep  BY DEF SyncInv, Sync, NotLost, InStep
<1> QED  BY <1>1, SyncAlways, PTL

\* While modules::Load reads its list, and when it reports, every id it has came with the
\* library of the same module, in the order of the list; and it reports after the last.
THEOREM ModulesPairedAlways == Spec => [](Excused \/ ModulesPaired)
<1>1. SyncInv => Excused \/ ModulesPaired
  <2>1. Elements(got) = {got[i] : i \in DOMAIN got} /\ Libs = Libraries(modules)  BY DEF Elements, Libs
  <2> QED  BY <2>1 DEF SyncInv, Sync, LoadInv, ModulesPaired, Ordered
<1> QED  BY <1>1, SyncAlways, PTL

\* Between two actions, and at the end, a process that is recorded has its modules listed,
\* exactly those it reported: or its connection broke, or an id did not fit.
THEOREM StatusCompleteAlways == Spec => [](Excused \/ StatusComplete)
<1>1. SyncInv => Excused \/ StatusComplete
  BY DEF SyncInv, Sync, StatusInv, StatusComplete
<1> QED  BY <1>1, SyncAlways, PTL

\* ReadFile returns the file's content, in order and whole, whatever its size and whatever
\* the socket holds.
THEOREM ContentRightAlways == Spec => ContentRight
<1> DEFINE Right == pc' = "idle" /\ pc \in {"size", "chunk"} /\ sv # "ended" /\ ~Excused' => got' = Indices(file)
<1>1. TypeInv /\ SyncInv /\ [Next]_vars => [Right]_vars
  <2> SUFFICES ASSUME TypeInv, SyncInv, Next, pc' = "idle", pc \in {"size", "chunk"}, sv # "ended", ~Excused'
               PROVE  got' = Indices(file)
    OBVIOUS
  <2>1. Sync
    <3>1. ~Excused  BY ExcusedStays
    <3> QED  BY <3>1 DEF SyncInv
  <2>2. TakeSize \/ TakeChunk
    <3>1. CASE Call  BY <3>1 DEF Call, AskString, Load, ReadFile, ReadDir, NextEntry, Ask, Idling
    <3>2. CASE WriteField \/ WriteFails \/ Close \/ Interrupt
      BY <3>2 DEF WriteField, WriteFails, Close, Interrupt
    <3>3. CASE Receive
      BY <3>3 DEF Receive, TakeString, TakeCount, TakePath, TakeLibs, TakeId, TakeLib, TakeErrno,
                  TakeDirErrno, TakeReply, TakeType, TakeName, TakeOther, ReadFails, Take
    <3>4. CASE Serve \/ Fail \/ ChangeFile
      <4>1. pc' = pc
        <5>1. CASE \E k : Get(k)  BY <5>1 DEF Get, OnlyServer
        <5>2. CASE WriteModule \/ Stat \/ Copy \/ Answer \/ GetOther \/ Hangup \/ Fail \/ ChangeFile
          BY <5>2 DEF WriteModule, Stat, Copy, Answer, GetOther, Hangup, Fail, ChangeFile, OnlyServer
        <5> QED
          BY <3>4, <5>1, <5>2 DEF Serve, GetAction, GetModulesAbi, GetStatusAbi, GetStatus, GetId, GetAbout,
                                  GetFilePath, GetDirPath, GetContinue
      <4> QED  BY <4>1
    <3> QED  BY <3>1, <3>2, <3>3, <3>4 DEF Next
  <2>3. file \in Nat  BY ProtocolAssumption DEF TypeInv, TypeOK
  <2>4. CASE TakeSize
    <3>1. Head(toClient) = Token("size", file) /\ pc = "size"
      <4>1. pc \in Reading /\ pc = "size" /\ outbox = <<>> /\ toClient # <<>>  BY <2>4 DEF TakeSize, Take, Reading
      <4>2. Head(toClient) \in Due  BY <2>1, <4>1, Reads
      <4> QED  BY <4>1, <4>2, Unfolded DEF DueFacts
    <3>2. file = 0 /\ got' = got  BY <2>4, <3>1 DEF TakeSize, value, Token
    <3>3. got = <<>>  BY <2>1, <3>1 DEF Sync, FileInv
    <3> QED  BY <3>2, <3>3, IndicesGrow
  <2>5. CASE TakeChunk
    <3>1. Head(toClient) = Token("chunk", file - need + 1) /\ pc = "chunk" /\ need = 1
      <4>1. pc \in Reading /\ pc = "chunk" /\ outbox = <<>> /\ toClient # <<>> /\ need = 1
        BY <2>5 DEF TakeChunk, Take, Reading
      <4>2. Head(toClient) \in Due  BY <2>1, <4>1, Reads
      <4> QED  BY <4>1, <4>2, Unfolded DEF DueFacts
    <3>2. got = Indices(file - 1) /\ file - 1 \in Nat  BY <2>1, <2>3, <3>1 DEF Sync, FileInv
    <3>3. got' = Append(got, file)  BY <2>3, <2>5, <3>1 DEF TakeChunk, value, Token
    <3>4. Append(Indices(file - 1), file - 1 + 1) = Indices(file - 1 + 1)  BY <3>2, IndicesGrow
    <3>5. file - 1 + 1 = file  BY <2>3
    <3> QED  BY <3>2, <3>3, <3>4, <3>5
  <2> QED  BY <2>2, <2>4, <2>5
<1> QED  BY <1>1, TypeInvAlways, SyncAlways, PTL DEF Spec, ContentRight

\* A DirIter that the server's end of list stops has given every entry once, in order.
THEOREM ListingWholeAlways == Spec => ListingWhole
<1> DEFINE Whole == pc = "reply" /\ pc' = "end" /\ toClient # <<>> /\ ~Excused => got = Indices(listing)
<1>1. TypeInv /\ SyncInv /\ [Next]_vars => [Whole]_vars
  <2> SUFFICES ASSUME TypeInv, SyncInv, Next, pc = "reply", pc' = "end", toClient # <<>>, ~Excused
               PROVE  got = Indices(listing)
    OBVIOUS
  <2>1. Sync  BY DEF SyncInv
  <2>2. outbox = <<>> /\ TakeReply
    <3>1. CASE Call  BY <3>1 DEF Call, AskString, Load, ReadFile, ReadDir, NextEntry, Ask, Idling
    <3>2. CASE WriteField \/ Close \/ Interrupt
      BY <3>2 DEF WriteField, Close, Interrupt
    <3>3. CASE WriteFails
      <4>1. Up # <<>>
        <5>1. Len(toServer \o outbox) = Len(toServer) + Len(outbox) /\ Len(toServer) \in Nat /\ Len(outbox) \in Nat
          BY Joins DEF TypeInv, FieldsInv
        <5>2. Len(outbox) # 0  BY <3>3 DEF WriteFails, TypeInv, FieldsInv
        <5> QED  BY <5>1, <5>2 DEF Up
      <4>2. Down # <<>>
        <5>1. Len(toClient \o out) = Len(toClient) + Len(out) /\ Len(toClient) \in Nat /\ Len(out) \in Nat
          BY Joins DEF TypeInv, FieldsInv
        <5>2. Len(toClient) # 0  BY DEF TypeInv, FieldsInv
        <5> QED  BY <5>1, <5>2 DEF Down
      <4> QED  BY <2>1, <4>1, <4>2 DEF Sync, DownInv, Open
    <3>4. CASE Receive
      BY <3>4 DEF Receive, TakeString, TakeCount, TakePath, TakeLibs, TakeId, TakeLib, TakeErrno, TakeSize, TakeChunk,
                  TakeDirErrno, TakeReply, TakeType, TakeName, TakeOther, ReadFails, Take
    <3>5. CASE Serve \/ Fail \/ ChangeFile
      <4>1. pc' = pc
        <5>1. CASE \E k : Get(k)  BY <5>1 DEF Get, OnlyServer
        <5>2. CASE WriteModule \/ Stat \/ Copy \/ Answer \/ GetOther \/ Hangup \/ Fail \/ ChangeFile
          BY <5>2 DEF WriteModule, Stat, Copy, Answer, GetOther, Hangup, Fail, ChangeFile, OnlyServer
        <5> QED
          BY <3>5, <5>1, <5>2 DEF Serve, GetAction, GetModulesAbi, GetStatusAbi, GetStatus, GetId, GetAbout,
                                  GetFilePath, GetDirPath, GetContinue
      <4> QED  BY <4>1
    <3> QED  BY <3>1, <3>2, <3>3, <3>4, <3>5 DEF Next
  <2>3. Head(toClient) \in Due /\ Open /\ Up = <<>>
    BY <2>1, <2>2, Reads DEF Reading
  <2>4. value = IF index > Len(got) THEN 0 ELSE -1
    BY <2>3, Unfolded DEF DueFacts, value, Token
  <2>5. index \in Nat /\ listing \in Int /\ Len(got) \in Nat
    BY ProtocolAssumption DEF TypeInv, TypeOK, FieldsInv
  <2>6. ~(index > Len(got))
    BY <2>2, <2>4, <2>5 DEF TakeReply
  <2>7. index = Len(got) /\ listing <= index /\ got = Indices(Len(got))
    BY <2>1, <2>3, <2>5, <2>6 DEF Sync, DirInv
  <2>8. index <= listing \/ index = 0
    BY DEF TypeInv, CountInv
  <2>9. CASE index <= listing
    <3>1. listing = Len(got)  BY <2>5, <2>7, <2>9
    <3> QED  BY <2>7, <3>1
  <2>10. CASE index = 0
    <3>1. 1..listing = {} /\ 1..0 = {}  BY <2>5, <2>7, <2>10
    <3>2. Indices(listing) = Indices(0)  BY <3>1 DEF Indices
    <3> QED  BY <2>7, <2>10, <3>2
  <2> QED  BY <2>8, <2>9, <2>10
<1> QED  BY <1>1, TypeInvAlways, SyncAlways, PTL DEF Spec, ListingWhole

=============================================================================
