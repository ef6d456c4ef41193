---------------------------- MODULE RirudProtocol ----------------------------
(***************************************************************************)
(* One connection to rirud as two streams of fields.  The client is        *)
(* RirudSocket and the code that uses it (rirud.cpp, rirud.h, module.cpp);  *)
(* the server is one run of handleSocket (DaemonSocketServerThread.java).  *)
(*                                                                         *)
(* The streams have no frames: either end goes by what it expects next.    *)
(* Here a field is a token tagged with what its writer meant; an end that  *)
(* takes a token for another field is "lost", and what it does with it is  *)
(* not followed.  pc and sv name the field an end waits for.               *)
(***************************************************************************)
EXTENDS Integers, Sequences

CONSTANTS
  Capacity,        \* tokens a socket buffer holds
  Block,           \* units handleReadFile copies at a time (8192 bytes)
  IntMax,          \* largest Java int, in units of a file's size
  FileSizes,       \* sizes the file that is read may have
  MaxEntries,      \* bound: entries of the directory that is read
  ModuleLists,     \* what READ_MODULES may answer: the number of libraries of each module
  LongIds,         \* libraries, <<module, place>>, whose id is longer than the 256 bytes of
                   \* the server's buffer
  LongVersions,    \* libraries whose version name is
  MaxFaults        \* bound: calls of the server that fail, or its death

ASSUME ProtocolAssumption ==
  /\ Capacity \in Nat \ {0} /\ Block \in Nat \ {0} /\ IntMax \in Nat \ {0}
  /\ FileSizes \subseteq Nat /\ MaxEntries \in Nat
  /\ ModuleLists \subseteq Seq(Nat) /\ LongIds \subseteq Nat \X Nat
  /\ LongVersions \subseteq Nat \X Nat
  /\ MaxFaults \in Nat

VARIABLES
  toServer, toClient,  \* the two directions of the stream
  pc,                  \* client: the field it waits for, or what it is doing
  outbox,              \* client: fields of the request not written yet
  stale,               \* client: errno is EINTR, from an earlier read
  need,                \* client: units of content, or modules, still to come
  libs,                \* client: libraries of the module still to come
  got,                 \* client: what the call under way has received
  sv,                  \* server: the field it waits for, or what it is doing
  out,                 \* server: fields of the answer not written yet
  pos, left,           \* server: offset in the file, and bytes_remaining
  listing, index,      \* server: number of files listFiles gave (-1: null), and index
  written,             \* server: modules of READ_MODULES written
  todo,                \* server: modules of WRITE_STATUS still to come
  recorded, listed,    \* DaemonUtils: this process was recorded; its modules that were
  file,                \* size of the file the call under way reads, 0 when it reads none
  modules, private,    \* getModules; whether the connection may use the private actions
  loaded, registered,  \* history: Load was called; modules::Get(), in the order of loading
  misused, oddFile,    \* history: a DirIter was misused; a file changed under a read
  faults               \* server: times it failed

clientVars == <<pc, outbox, stale, need, libs, got, loaded, registered, misused>>
serverVars == <<sv, out, pos, left, listing, index, written, todo, recorded, listed, faults>>
deviceVars == <<file, modules, private>>
vars == <<toServer, toClient, clientVars, serverVars, deviceVars, oddFile>>

-----------------------------------------------------------------------------
(* Fields. *)

Token(k, v) == [k |-> k, v |-> v]

PrivateActions == {"READ_NATIVE_BRIDGE", "READ_MAGISK_TMPFS_PATH", "READ_MODULES", "WRITE_STATUS"}

Idling   == {"idle", "entry", "end"}   \* no call under way; a DirIter at an entry, or over
Reading  == {"string", "count", "path", "libs", "id", "lib",
             "errno", "size", "chunk", "dirErrno", "reply", "type", "name"}
Waiting  == {"action", "filePath", "dirPath", "modulesAbi", "statusAbi", "status",
             "id", "about", "continue"}
Working  == {"stat", "copy", "modules"}
Loading  == {"count", "path", "libs", "id", "lib"}

\* A Java int made of a size, and the uint32_t the client takes it for.
AsUnsigned(n) == n % (2 * (IntMax + 1))
AsInt(n)      == LET u == AsUnsigned(n) IN IF u <= IntMax THEN u ELSE u - 2 * (IntMax + 1)

\* A library is known by its module and its place in that module.
Libraries(ms) == UNION {{m} \X (1..ms[m]) : m \in DOMAIN ms}
Earlier(a, b) == a[1] < b[1] \/ (a[1] = b[1] /\ a[2] < b[2])

\* handleReadModules: path and number of libraries of a module, then the id and path of each.
ModuleFields(ms, m) ==
  <<Token("path", m), Token("libs", <<m, ms[m]>>)>> \o
  [i \in 1..(2 * ms[m]) |-> Token(IF i % 2 = 1 THEN "id" ELSE "lib", <<m, (i + 1) \div 2>>)]

\* WriteModules: each module's id, then its versions and flag; both with its place in the list.
StatusFields(ids) ==
  <<Token("action", "WRITE_STATUS"), Token("statusAbi", 1), Token("status", Len(ids))>> \o
  [i \in 1..(2 * Len(ids)) |->
     Token(IF i % 2 = 1 THEN "id" ELSE "about", <<(i + 1) \div 2, ids[(i + 1) \div 2]>>)]

-----------------------------------------------------------------------------
TypeOK ==
  /\ pc \in Idling \cup Reading \cup {"closed", "lost"}
  /\ sv \in Waiting \cup Working \cup {"ended", "lost"}
  /\ Len(toServer) <= Capacity /\ Len(toClient) <= Capacity
  /\ stale \in BOOLEAN /\ recorded \in BOOLEAN /\ private \in BOOLEAN
  /\ loaded \in BOOLEAN /\ misused \in BOOLEAN /\ oddFile \in BOOLEAN
  /\ need \in Nat /\ libs \in Nat
  /\ pos \in Nat /\ left \in Int /\ written \in Nat /\ todo \in Nat
  /\ listing \in -1..MaxEntries /\ index \in 0..MaxEntries
  /\ file \in FileSizes \cup {0} /\ modules \in ModuleLists
  /\ \A i \in DOMAIN listed : listed[i] \in Libraries(modules)
  /\ faults \in 0..MaxFaults

Init ==
  /\ toServer = <<>> /\ toClient = <<>>
  /\ pc = "idle" /\ outbox = <<>> /\ stale = FALSE /\ need = 0 /\ libs = 0 /\ got = <<>>
  /\ sv = "action" /\ out = <<>> /\ pos = 0 /\ left = 0
  /\ listing = -1 /\ index = 0 /\ written = 0 /\ todo = 0 /\ recorded = FALSE /\ listed = <<>>
  /\ file = 0 /\ modules \in ModuleLists /\ private \in BOOLEAN
  /\ loaded = FALSE /\ registered = <<>> /\ misused = FALSE /\ oddFile = FALSE
  /\ faults = 0

-----------------------------------------------------------------------------
(* The client writes. *)

OnlyClient == UNCHANGED <<serverVars, deviceVars, oddFile>>

\* A request may start whenever no call is under way; a DirIter left at an entry has the
\* server waiting for its next byte.
Ask(fields, next, sizes) ==
  /\ pc \in Idling /\ outbox = <<>>
  /\ outbox' = fields /\ pc' = next /\ got' = <<>> /\ file' \in sizes
  /\ misused' = (misused \/ pc = "entry")
  /\ UNCHANGED <<toServer, toClient, stale, need, libs, registered, modules, private, oddFile>>
  /\ UNCHANGED serverVars

AskString(a) == Ask(<<Token("action", a)>>, "string", {0}) /\ UNCHANGED loaded
ReadFile ==
  /\ Ask(<<Token("action", "READ_FILE"), Token("filePath", 1)>>, "errno", FileSizes)
  /\ UNCHANGED loaded
ReadDir ==
  /\ Ask(<<Token("action", "READ_DIR"), Token("dirPath", 1)>>, "dirErrno", {0})
  /\ UNCHANGED loaded

\* modules::Load, which init calls once.
Load ==
  /\ ~loaded /\ loaded' = TRUE
  /\ Ask(<<Token("action", "READ_MODULES"), Token("modulesAbi", 1)>>, "count", {0})

\* operator++ of a DirIter, also when it is over.
NextEntry ==
  /\ pc \in {"entry", "end"} /\ outbox = <<>>
  /\ outbox' = <<Token("continue", 1)>> /\ pc' = "reply"
  /\ misused' = (misused \/ pc = "end")
  /\ UNCHANGED <<toServer, toClient, stale, need, libs, got, loaded, registered>>
  /\ OnlyClient

\* Mutant: the fields of a request go out in the wrong order.
WriteFieldLast ==
  /\ outbox # <<>> /\ sv # "ended" /\ Len(toServer) < Capacity
  /\ toServer' = Append(toServer, outbox[Len(outbox)])
  /\ outbox' = SubSeq(outbox, 1, Len(outbox) - 1)
  /\ UNCHANGED <<toClient, pc, stale, need, libs, got, loaded, registered, misused>>
  /\ OnlyClient

WriteField ==
  /\ outbox # <<>> /\ sv # "ended" /\ Len(toServer) < Capacity
  /\ toServer' = Append(toServer, Head(outbox)) /\ outbox' = Tail(outbox)
  /\ UNCHANGED <<toClient, pc, stale, need, libs, got, loaded, registered, misused>>
  /\ OnlyClient

\* Where a call that fails leaves the client.
Abandoned == IF pc \in {"dirErrno", "reply", "type", "name"} THEN "end" ELSE "idle"

\* EPIPE, which replaces an older errno: the server has closed its end.  ReadFile does not
\* look at the result of its writes, and reads on.
WriteFails ==
  /\ outbox # <<>> /\ sv = "ended"
  /\ outbox' = <<>> /\ stale' = FALSE
  /\ pc' = IF pc = "errno" THEN pc ELSE Abandoned
  /\ UNCHANGED <<toServer, toClient, need, libs, got, loaded, registered, misused>>
  /\ OnlyClient

\* The destructor of RirudSocket, or the death of the process.
Close ==
  /\ pc # "closed"
  /\ pc' = "closed" /\ outbox' = <<>>
  /\ UNCHANGED <<toServer, toClient, stale, need, libs, got, loaded, registered, misused>>
  /\ OnlyClient

-----------------------------------------------------------------------------
(* The client reads. *)

Take(k) ==
  /\ pc = k /\ outbox = <<>> /\ toClient # <<>> /\ Head(toClient).k = k
  /\ toClient' = Tail(toClient)
  /\ UNCHANGED <<toServer, stale, loaded, misused>> /\ OnlyClient

value == Head(toClient).v

TakeString == Take("string") /\ pc' = "idle" /\ UNCHANGED <<outbox, need, libs, got, registered>>

\* Mutant: --num_modules > 0 instead of num_modules-- > 0.
LoadNextShort ==
  \/ libs' > 0 /\ pc' = "id" /\ UNCHANGED outbox
  \/ libs' = 0 /\ need' > 1 /\ pc' = "path" /\ UNCHANGED outbox
  \/ libs' = 0 /\ need' <= 1 /\ pc' = "idle" /\ outbox' = StatusFields(registered')

\* Load, after a field: the next library, the next module, or the end of the list, after
\* which the modules that did load are written to the server.
LoadNext ==
  \/ libs' > 0 /\ pc' = "id" /\ UNCHANGED outbox
  \/ libs' = 0 /\ need' > 0 /\ pc' = "path" /\ UNCHANGED outbox
  \/ libs' = 0 /\ need' = 0 /\ pc' = "idle" /\ outbox' = StatusFields(registered')

TakeCount == Take("count") /\ need' = value /\ libs' = 0 /\ UNCHANGED <<got, registered>> /\ LoadNext
TakePath  == Take("path") /\ pc' = "libs" /\ UNCHANGED <<outbox, need, libs, got, registered>>
TakeLibs  == /\ Take("libs") /\ need' = need - 1 /\ libs' = value[2]
             /\ UNCHANGED <<got, registered>> /\ LoadNext
TakeId    == /\ Take("id") /\ pc' = "lib" /\ got' = Append(got, value)
             /\ UNCHANGED <<outbox, need, libs, registered>>
\* LoadModule keeps the module under the id just read, or drops it.
TakeLib   == /\ Take("lib") /\ libs' = libs - 1 /\ got' = Append(got, value) /\ UNCHANGED need
             /\ registered' = Append(registered, got[Len(got)]) \/ UNCHANGED registered
             /\ LoadNext

\* ReadFile.
TakeErrno == /\ Take("errno") /\ pc' = (IF value = 0 THEN "size" ELSE "idle")
             /\ UNCHANGED <<outbox, need, libs, got, registered>>
\* Mutant: the terminating byte is taken to be part of the size.
TakeSizeShort ==
  /\ Take("size") /\ need' = IF value = 0 THEN 0 ELSE value - 1
  /\ pc' = (IF value <= 1 THEN "idle" ELSE "chunk")
  /\ UNCHANGED <<outbox, libs, got, registered>>
TakeSize  == /\ Take("size") /\ need' = value
             /\ pc' = (IF value = 0 THEN "idle" ELSE "chunk")
             /\ UNCHANGED <<outbox, libs, got, registered>>
TakeChunk == /\ Take("chunk") /\ need' = need - 1 /\ got' = Append(got, value)
             /\ pc' = (IF need = 1 THEN "idle" ELSE "chunk")
             /\ UNCHANGED <<outbox, libs, registered>>

\* DirIter: the constructor goes on to the first entry by itself.
TakeDirErrno == /\ Take("dirErrno")
                /\ IF value = 0 THEN outbox' = <<Token("continue", 1)>> /\ pc' = "reply"
                   ELSE pc' = "end" /\ UNCHANGED outbox
                /\ UNCHANGED <<need, libs, got, registered>>
TakeReply    == /\ Take("reply") /\ pc' = (IF value = 0 THEN "type" ELSE "end")
                /\ UNCHANGED <<outbox, need, libs, got, registered>>
TakeType     == Take("type") /\ pc' = "name" /\ UNCHANGED <<outbox, need, libs, got, registered>>
TakeName     == /\ Take("name") /\ pc' = "entry" /\ got' = Append(got, value)
                /\ UNCHANGED <<outbox, need, libs, registered>>

TakeOther ==
  /\ pc \in Reading /\ outbox = <<>> /\ toClient # <<>> /\ Head(toClient).k # pc
  /\ pc' = "lost"
  /\ UNCHANGED <<toServer, toClient, outbox, stale, need, libs, got, loaded, registered, misused>>
  /\ OnlyClient

\* read returned 0 or, when the server left something unread, ECONNRESET.  Read asks errno
\* in either case: with one left from an earlier EINTR it tries again at the end of file.
\* ReadFile then tests an errno it never received, and returns content of the size announced.
ReadFails ==
  /\ pc \in Reading /\ outbox = <<>> /\ toClient = <<>> /\ sv = "ended"
  /\ stale => toServer # <<>>
  /\ stale' = FALSE
  /\ pc' \in {Abandoned} \cup (IF pc = "errno" THEN {"size"} ELSE {})
  /\ got' = IF pc = "chunk" THEN got \o [i \in 1..need |-> 0] ELSE got
  /\ UNCHANGED <<toServer, toClient, outbox, need, libs, loaded, registered, misused>>
  /\ OnlyClient

\* A signal interrupts a read that found nothing: it is tried again.
Interrupt ==
  /\ pc \in Reading /\ outbox = <<>> /\ toClient = <<>>
  /\ stale' = TRUE
  /\ UNCHANGED <<toServer, toClient, pc, outbox, need, libs, got, loaded, registered, misused>>
  /\ OnlyClient

Receive ==
  \/ TakeString \/ TakeCount \/ TakePath \/ TakeLibs \/ TakeId \/ TakeLib
  \/ TakeErrno \/ TakeSize \/ TakeChunk
  \/ TakeDirErrno \/ TakeReply \/ TakeType \/ TakeName
  \/ TakeOther \/ ReadFails

-----------------------------------------------------------------------------
(* The server. *)

OnlyServer == UNCHANGED <<clientVars, deviceVars, oddFile>>

Get(k) ==
  /\ sv = k /\ out = <<>> /\ toServer # <<>> /\ Head(toServer).k = k
  /\ toServer' = Tail(toServer)
  /\ UNCHANGED <<toClient, faults>> /\ OnlyServer

field == Head(toServer).v

\* handleSocket and handleAction: the field the handler of an action reads first.
FirstField == [READ_FILE |-> "filePath", READ_DIR |-> "dirPath",
               READ_MODULES |-> "modulesAbi", WRITE_STATUS |-> "statusAbi"]

GetAction ==
  /\ Get("action")
  /\ \/ field \in PrivateActions /\ ~private /\ sv' = "ended" /\ UNCHANGED out
     \/ /\ field \notin PrivateActions \/ private
        /\ IF field \in DOMAIN FirstField
           THEN sv' = FirstField[field] /\ UNCHANGED out
           ELSE out' = <<Token("string", 1)>> /\ UNCHANGED sv
  /\ pos' = 0 /\ left' = 0 /\ listing' = -1 /\ index' = 0
  /\ UNCHANGED <<written, todo, recorded, listed>>

GetModulesAbi ==
  /\ Get("modulesAbi") /\ out' = <<Token("count", Len(modules))>> /\ written' = 0
  /\ sv' = (IF modules = <<>> THEN "action" ELSE "modules")
  /\ UNCHANGED <<pos, left, listing, index, todo, recorded, listed>>

WriteModule ==
  /\ sv = "modules" /\ out = <<>>
  /\ out' = ModuleFields(modules, written + 1) /\ written' = written + 1
  /\ sv' = (IF written' = Len(modules) THEN "action" ELSE "modules")
  /\ UNCHANGED <<toServer, toClient, pos, left, listing, index, todo, recorded, listed, faults>>
  /\ OnlyServer

\* handleWriteStatus: the process is recorded before any module is read.
GetStatusAbi ==
  /\ Get("statusAbi") /\ sv' = "status"
  /\ UNCHANGED <<out, pos, left, listing, index, written, todo, recorded, listed>>
GetStatus ==
  /\ Get("status") /\ recorded' = TRUE /\ todo' = field
  /\ sv' = (IF field = 0 THEN "action" ELSE "id")
  /\ UNCHANGED <<out, pos, left, listing, index, written, listed>>
\* readFully throws for what does not fit the buffer.
GetId ==
  /\ Get("id") /\ sv' = (IF field[2] \in LongIds THEN "ended" ELSE "about")
  /\ UNCHANGED <<out, pos, left, listing, index, written, todo, recorded, listed>>
\* Mutant: one module fewer than the count says.
GetAboutShort ==
  /\ Get("about") /\ listed' = Append(listed, field[2])
  /\ todo' = todo - 1 /\ sv' = (IF todo <= 2 THEN "action" ELSE "id")
  /\ UNCHANGED <<out, pos, left, listing, index, written, recorded>>
GetAbout ==
  /\ Get("about")
  /\ IF field[2] \in LongVersions
     THEN sv' = "ended" /\ UNCHANGED <<listed, todo>>
     ELSE /\ listed' = Append(listed, field[2]) /\ todo' = todo - 1
          /\ sv' = (IF todo = 1 THEN "action" ELSE "id")
  /\ UNCHANGED <<out, pos, left, listing, index, written, recorded>>

\* handleReadFile: open, fstat, and the copy.
GetFilePath ==
  /\ Get("filePath")
  /\ \E errno \in {0, 1} : /\ out' = <<Token("errno", errno)>>
                           /\ sv' = (IF errno = 0 THEN "stat" ELSE "action")
  /\ UNCHANGED <<pos, left, listing, index, written, todo, recorded, listed>>

Stat ==
  /\ sv = "stat" /\ out = <<>>
  /\ \/ left' = AsInt(file) /\ UNCHANGED faults
     \/ left' = -1 /\ faults < MaxFaults /\ faults' = faults + 1
  /\ out' = <<Token("size", AsUnsigned(left'))>> /\ pos' = 0
  /\ sv' = (IF left' > 0 \/ left' = -1 THEN "copy" ELSE "action")
  /\ oddFile' = (oddFile \/ left' # file)
  /\ UNCHANGED <<toServer, toClient, listing, index, written, todo, recorded, listed, clientVars, deviceVars>>

\* A block is read whole unless the file ends; a size of -1 copies to the end.
Copy ==
  /\ sv = "copy" /\ out = <<>>
  /\ LET count == IF pos + Block <= file THEN Block ELSE file - pos IN
       IF count <= 0 THEN sv' = "action" /\ UNCHANGED <<out, pos, left>>
       ELSE /\ out' = [i \in 1..count |-> Token("chunk", pos + i)]
            /\ pos' = pos + count
            /\ left' = IF left = -1 THEN -1 ELSE left - count
            /\ sv' = (IF left # -1 /\ left' <= 0 THEN "action" ELSE "copy")
  /\ UNCHANGED <<toServer, toClient, listing, index, written, todo, recorded, listed, faults>> /\ OnlyServer

\* handleReadDir.
GetDirPath ==
  /\ Get("dirPath")
  /\ \/ out' = <<Token("dirErrno", 1)>> /\ sv' = "action" /\ UNCHANGED <<listing, index>>
     \/ /\ out' = <<Token("dirErrno", 0)>> /\ sv' = "continue"
        /\ listing' \in -1..MaxEntries /\ index' = 0
  /\ UNCHANGED <<pos, left, written, todo, recorded, listed>>

\* Mutant: the last entry is left out.
GetContinueShort ==
  /\ Get("continue")
  /\ IF index + 1 >= listing
     THEN out' = <<Token("reply", -1)>> /\ sv' = "action" /\ UNCHANGED index
     ELSE /\ out' = <<Token("reply", 0), Token("type", 1), Token("name", index + 1)>>
          /\ index' = index + 1 /\ UNCHANGED sv
  /\ UNCHANGED <<pos, left, listing, written, todo, recorded, listed>>

\* Mutant: the end of the list is not announced.
GetContinueSilent ==
  /\ Get("continue")
  /\ IF index >= listing
     THEN sv' = "action" /\ UNCHANGED <<out, index>>
     ELSE /\ out' = <<Token("reply", 0), Token("type", 1), Token("name", index + 1)>>
          /\ index' = index + 1 /\ UNCHANGED sv
  /\ UNCHANGED <<pos, left, listing, written, todo, recorded, listed>>

GetContinue ==
  /\ Get("continue")
  /\ IF index >= listing
     THEN out' = <<Token("reply", -1)>> /\ sv' = "action" /\ UNCHANGED index
     ELSE /\ out' = <<Token("reply", 0), Token("type", 1), Token("name", index + 1)>>
          /\ index' = index + 1 /\ UNCHANGED sv
  /\ UNCHANGED <<pos, left, listing, written, todo, recorded, listed>>

\* Mutant: the answer is sent whole, however little room there is.
AnswerAtOnce ==
  /\ out # <<>> /\ pc # "closed" /\ Len(toClient) < Capacity
  /\ toClient' = toClient \o out /\ out' = <<>>
  /\ UNCHANGED <<toServer, sv, pos, left, listing, index, written, todo, recorded, listed, faults>>
  /\ OnlyServer

Answer ==
  /\ out # <<>> /\ pc # "closed" /\ Len(toClient) < Capacity
  /\ toClient' = Append(toClient, Head(out)) /\ out' = Tail(out)
  /\ UNCHANGED <<toServer, sv, pos, left, listing, index, written, todo, recorded, listed, faults>>
  /\ OnlyServer

\* One byte is not yet an action: readInt waits for the other three.
GetOther ==
  /\ sv \in Waiting /\ out = <<>> /\ toServer # <<>> /\ Head(toServer).k # sv
  /\ sv = "action" /\ Head(toServer).k = "continue" => Len(toServer) > 1
  /\ sv' = "lost"
  /\ UNCHANGED <<toServer, toClient, out, pos, left, listing, index, written, todo, recorded, listed, faults>>
  /\ OnlyServer

ServerEnds ==
  /\ sv' = "ended" /\ out' = <<>>
  /\ UNCHANGED <<toServer, toClient, pos, left, listing, index, written, todo, recorded, listed>>

\* Mutant: the end of the stream is only expected between two actions.
HangupBetweenActions ==
  /\ pc = "closed" /\ sv = "action" /\ toServer = <<>>
  /\ ServerEnds /\ UNCHANGED faults /\ OnlyServer

\* The client has gone: the end of the stream where a field is due, EPIPE for an answer.
Hangup ==
  /\ pc = "closed" /\ sv # "ended"
  /\ \/ out # <<>> \/ sv = "lost"
     \/ sv \in Waiting /\ toServer = <<>>
     \/ sv = "action" /\ Len(toServer) = 1 /\ Head(toServer).k = "continue"
  /\ ServerEnds /\ UNCHANGED faults /\ OnlyServer

\* A call of the handler throws, or rirud dies.
Fail ==
  /\ sv # "ended" /\ faults < MaxFaults
  /\ faults' = faults + 1 /\ ServerEnds /\ OnlyServer

Serve ==
  \/ GetAction \/ GetModulesAbi \/ WriteModule \/ GetStatusAbi \/ GetStatus \/ GetId \/ GetAbout
  \/ GetFilePath \/ Stat \/ Copy \/ GetDirPath \/ GetContinue \/ Answer \/ GetOther \/ Hangup

\* Another process changes the file while it is read.
ChangeFile ==
  /\ pc \in {"errno", "size", "chunk"}
  /\ file' \in FileSizes \ {file} /\ oddFile' = TRUE
  /\ UNCHANGED <<toServer, toClient, clientVars, serverVars, modules, private>>

Call ==
  \/ \E a \in {"READ_NATIVE_BRIDGE", "READ_MAGISK_TMPFS_PATH"} : AskString(a)
  \/ Load \/ ReadFile \/ ReadDir \/ NextEntry

Next ==
  \/ Call \/ WriteField \/ WriteFails \/ Close \/ Receive \/ Interrupt
  \/ Serve \/ Fail \/ ChangeFile

Spec == Init /\ [][Next]_vars

\* Both ends go on by themselves while they can; nobody has to call or close.
FairSpec ==
  /\ Spec /\ WF_vars(WriteField) /\ WF_vars(WriteFails) /\ WF_vars(Receive)
  /\ WF_vars(Serve)

-----------------------------------------------------------------------------
(* Properties. *)

Excused == misused \/ oddFile

Indices(n) == [i \in 1..n |-> i]

\* Neither end ever takes a field for another, unless a DirIter was abandoned half-way or
\* advanced past its end, or a file changed while it was read: then the answer's length
\* differs from the size announced, and everything after it is shifted.
InStep == pc = "lost" \/ sv = "lost" => Excused

\* The content ReadFile returns is the file's, in order and whole, except that a
\* connection that broke is padded with zeros to the size announced.
ContentRight ==
  [][pc' = "idle" /\ pc \in {"size", "chunk"} /\ sv # "ended" /\ ~Excused'
       => got' = Indices(file)]_vars

\* A directory that was walked to the server's end of list gave every entry once, in order.
ListingWhole ==
  [][pc = "reply" /\ pc' = "end" /\ toClient # <<>> /\ ~Excused
       => got = Indices(listing)]_vars

\* The client is about to write its status.
Reporting == outbox # <<>> /\ Head(outbox) = Token("action", "WRITE_STATUS")

\* modules::Load pairs every id with its own library, takes every library once and in order,
\* and reports the modules only after the whole list has come.
ModulesPaired ==
  /\ pc \in Loading \/ Reporting =>
       \A i \in 2..Len(got) : IF i % 2 = 0 THEN got[i] = got[i - 1] ELSE Earlier(got[i - 1], got[i])
  /\ Reporting => {got[i] : i \in DOMAIN got} = Libraries(modules)

\* A process that is recorded as loaded has its modules listed, those it reported and no
\* other: unless the connection broke in between, or an id or a version name did not fit.
StatusComplete ==
  recorded /\ sv \in {"action", "ended"} =>
    \/ listed = registered
    \/ /\ sv = "ended"
       /\ \/ pc = "closed" \/ faults > 0
          \/ \E i \in DOMAIN registered : registered[i] \in LongIds \cup LongVersions

\* Every call returns; except for one that reads the end of file with an errno of EINTR,
\* which never does, and those after a misuse or a file that changed.
CallEnds == pc \in Reading ~> pc \notin Reading \/ stale \/ Excused

\* The thread that serves a connection is free again once the client has closed it.
SessionEnds == pc = "closed" ~> sv = "ended"
=============================================================================
