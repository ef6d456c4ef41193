-------------------------- MODULE RirudServerProofs --------------------------
(***************************************************************************)
(* Proofs about RirudServer, for any number of zygotes and any pool size:  *)
(* type correctness, that the private connection is the loader's, that     *)
(* only processes with Riru are recorded, and that a loader with Riru that *)
(* has read the native bridge was recorded before.                         *)
(***************************************************************************)
EXTENDS RirudServer, SequenceTheorems, TLAPS

\* Two sequences over a set make one over that set.
LEMMA JoinTypes ==
  ASSUME NEW S, NEW p \in Seq(S), NEW q \in Seq(S) PROVE p \o q \in Seq(S)
OBVIOUS

\* Sending requests on a connection of the server keeps the requests sequences.
LEMMA SendTypes ==
  ASSUME NEW c \in Conns, NEW as \in Seq(Actions), Send(c, as),
         inbox \in [Conns -> Seq(Actions)]
  PROVE  inbox' \in [Conns -> Seq(Actions)]
<1>1. inbox[c] \in Seq(Actions)
  OBVIOUS
<1>2. inbox[c] \o as \in Seq(Actions)
  BY <1>1, JoinTypes
<1> QED  BY <1>2 DEF Send

\* A zygote's connections are connections, and Owner gets the zygote back.
LEMMA ConnsOfZygote ==
  ASSUME NEW z \in Zygotes
  PROVE  /\ Loader(z) \in Conns /\ Module(z) \in Conns
         /\ Owner(Loader(z)) = z /\ Owner(Module(z)) = z
BY DEF Loader, Module, Conns, Owner

\* The owner of a connection is a zygote.
LEMMA OwnerIsZygote == ASSUME NEW c \in Conns PROVE Owner(c) \in Zygotes
BY DEF Conns, Owner

\* Taking the first of a sequence of connections leaves such a sequence.
LEMMA TailTypes ==
  ASSUME NEW q \in Seq(Conns), q # <<>>
  PROVE  Head(q) \in Conns /\ Tail(q) \in Seq(Conns)
OBVIOUS

\* What a sequence of connections contains are connections.
LEMMA ToSetTypes == ASSUME NEW q \in Seq(Conns) PROVE ToSet(q) \subseteq Conns
<1>1. \A i \in DOMAIN q : q[i] \in Conns
  OBVIOUS
<1> QED  BY <1>1 DEF ToSet

\* The sequence of loader steps keeps the types.
LEMMA LoaderKeepsTypes ==
  ASSUME TypeOK, NEW z \in Zygotes, LoaderStep(z) PROVE TypeOK'
<1> USE ConnsOfZygote
<1>n. CASE NoRiru(z)
  <2>1. <<>> \o <<"READ_NATIVE_BRIDGE">> \in Seq(Actions) /\ <<>> \in Seq(Actions)
    BY DEF Actions, PrivateActions
  <2>2. inbox' \in [Conns -> Seq(Actions)]
    BY <1>n, <2>1, SendTypes DEF TypeOK, NoRiru, AskBridge
  <2> QED  BY <1>n, <2>2 DEF TypeOK, NoRiru, AskBridge, Goto, Receive, OnlyLoader, serverVars, States
<1>1. CASE Connect(z)
  BY <1>1, SendTypes DEF TypeOK, Connect, Open, Goto, OnlyLoader, serverVars, Send, States, Actions, PrivateActions
<1>2. CASE Fail(z)
  BY <1>2 DEF TypeOK, Fail, Goto, EndOfFile, OnlyLoader, serverVars, States
<1>3. CASE ReadModules(z)
  BY <1>3 DEF TypeOK, ReadModules, Goto, Receive, OnlyLoader, serverVars, Send, States, Actions, PrivateActions
<1>4. CASE LoadModules(z)
  BY <1>4 DEF TypeOK, LoadModules, Goto, Receive, OnlyLoader, serverVars, States
<1>5. CASE LoadFails(z)
  BY <1>5 DEF TypeOK, LoadFails, Goto, EndOfFile, OnlyLoader, serverVars, States
<1>6. CASE ModuleRead(z)
  BY <1>6 DEF TypeOK, ModuleRead, Open, Goto, OnlyLoader, serverVars, Send, States, Actions, PrivateActions
<1>7. CASE ModuleDone(z)
  BY <1>7 DEF TypeOK, ModuleDone, Goto, Receive, EndOfFile, OnlyLoader, serverVars, States
<1>8. CASE WriteStatus(z)
  <2>1. /\ <<"WRITE_STATUS">> \in Seq(Actions)
        /\ <<"WRITE_STATUS">> \o <<"READ_NATIVE_BRIDGE">> \in Seq(Actions)
    BY DEF Actions, PrivateActions
  <2>2. inbox' \in [Conns -> Seq(Actions)]
    BY <1>8, <2>1, SendTypes DEF TypeOK, WriteStatus, AskBridge
  <2> QED  BY <1>8, <2>2 DEF TypeOK, WriteStatus, AskBridge, Goto, OnlyLoader, serverVars, States
<1>9. CASE ReadNativeBridge(z)
  BY <1>9 DEF TypeOK, ReadNativeBridge, Goto, Receive, EndOfFile, OnlyLoader, serverVars, States
<1> QED  BY <1>n, <1>1, <1>2, <1>3, <1>4, <1>5, <1>6, <1>7, <1>8, <1>9 DEF LoaderStep

\* The steps of the server and of the device keep the types.
LEMMA ServerKeepsTypes ==
  ASSUME TypeOK,
         \/ \E z \in Zygotes : Die(z)
         \/ Accept \/ BeginTask
         \/ \E c \in busy : HandleAction(c) \/ EndTask(c) \/ Throw(c)
         \/ StopServer \/ RestartServer \/ StartServer
  PROVE  TypeOK'
<1> USE ConnsOfZygote, OwnerIsZygote, TailTypes, ServerAssumption
<1>1. ASSUME NEW z \in Zygotes, Die(z) PROVE TypeOK'
  BY <1>1 DEF TypeOK, Die, Goto, States, serverVars
<1>2. CASE Accept
  <2>1. Head(backlog) \in Conns /\ backlog' \in Seq(Conns)
    BY <1>2 DEF TypeOK, Accept
  <2>2. Append(tasks, Head(backlog)) \in Seq(Conns)
    BY <2>1 DEF TypeOK
  <2>3. tasks' \in Seq(Conns) /\ ended' \subseteq Conns
    BY <1>2, <2>1, <2>2 DEF TypeOK, Accept
  <2> QED  BY <1>2, <2>1, <2>3 DEF TypeOK, Accept
<1>3. CASE BeginTask
  BY <1>3 DEF TypeOK, BeginTask, loaderVars
<1>4. ASSUME NEW c \in busy, HandleAction(c) PROVE TypeOK'
  <2>1. c \in Conns /\ inbox[c] \in Seq(Actions) /\ inbox[c] # <<>> /\ Tail(inbox[c]) \in Seq(Actions)
    BY <1>4 DEF TypeOK, HandleAction
  <2>2. inbox' \in [Conns -> Seq(Actions)] /\ recorded' \subseteq Zygotes /\ answered' \subseteq Conns
    BY <1>4, <2>1 DEF TypeOK, HandleAction
  <2> QED  BY <1>4, <2>2 DEF TypeOK, HandleAction
<1>5. ASSUME NEW c \in busy, EndTask(c) PROVE TypeOK'
  BY <1>5 DEF TypeOK, EndTask, End, loaderVars
<1>6. ASSUME NEW c \in busy, Throw(c) PROVE TypeOK'
  BY <1>6 DEF TypeOK, Throw, End, loaderVars
<1>7. CASE StopServer
  <2>1. ended' \subseteq Conns
    BY <1>7, ToSetTypes DEF TypeOK, StopServer
  <2>2. server' \in {"listening", "stopped", "signalled"}
    BY <1>7 DEF StopServer
  <2> QED  BY <1>7, <2>1, <2>2 DEF TypeOK, StopServer
<1>8. CASE StartServer
  BY <1>8 DEF TypeOK, StartServer, loaderVars
<1>9. CASE RestartServer
  BY <1>9 DEF TypeOK, RestartServer, loaderVars
<1> QED  BY <1>1, <1>2, <1>3, <1>4, <1>5, <1>6, <1>7, <1>8, <1>9

\* Every variable stays in its type: in particular every connection the server
\* queues, serves or ends is one of a zygote, and its requests are the known actions.
THEOREM TypeCorrect == Spec => []TypeOK
<1>1. Init => TypeOK
  BY ServerAssumption DEF Init, TypeOK, States
<1>2. TypeOK /\ [Next]_vars => TypeOK'
  <2> SUFFICES ASSUME TypeOK, [Next]_vars PROVE TypeOK'
    OBVIOUS
  <2>1. CASE UNCHANGED vars
    BY <2>1 DEF TypeOK, vars, loaderVars, serverVars
  <2> QED  BY <2>1, LoaderKeepsTypes, ServerKeepsTypes DEF Next
<1> QED  BY <1>1, <1>2, PTL DEF Spec

-----------------------------------------------------------------------------
(* The private connection. *)

Queued == ToSet(backlog) \cup ToSet(tasks)

\* c occurs once in q, at most.
OnceIn(q, c) == \A i, j \in DOMAIN q : q[i] = c /\ q[j] = c => i = j

\* Nothing is known of a zygote that has not connected.
Untouched(z) ==
  pc[z] = "connect" =>
    /\ z \notin zygotePid
    /\ \A c \in {Loader(z), Module(z)} : c \notin Queued \cup busy \cup ended \cup answered

\* While its loader waits to be served, it is the zygote's only connection.
LoaderWaits(z) ==
  Loader(z) \in Queued =>
    /\ pc[z] \in {"tmpfs", "dead"} /\ z \notin zygotePid
    /\ Loader(z) \notin busy \cup ended \cup answered
    /\ Module(z) \notin Queued

\* A connection is in one queue, and once.
LoaderOnce(z) ==
  /\ OnceIn(backlog, Loader(z)) /\ OnceIn(tasks, Loader(z))
  /\ ~(Loader(z) \in ToSet(backlog) /\ Loader(z) \in ToSet(tasks))

\* A loader that got further than its first request was served: its process is in
\* zygotePid, unless that was cleared by a restart.
Met(z) ==
  (\/ pc[z] \in {"modules", "load", "module", "loaded", "bridge"}
   \/ Loader(z) \in busy \cup answered
   \/ Module(z) \in Queued)
  => z \in zygotePid \/ stops > 0

LoaderFirst(z) ==
  /\ Loader(z) \in busy => Loader(z) \in private
  /\ Module(z) \in private => stops > 0

Order(z) == Untouched(z) /\ LoaderWaits(z) /\ LoaderOnce(z) /\ Met(z) /\ LoaderFirst(z)

OrderInv == (~Listening => stops > 0) /\ \A z \in Zygotes : Order(z)

\* What a queue contains after an element was added, and before one is taken.
LEMMA QueueSets ==
  ASSUME NEW q \in Seq(Conns), NEW c \in Conns
  PROVE  /\ ToSet(Append(q, c)) = ToSet(q) \cup {c}
         /\ q # <<>> => ToSet(q) = ToSet(Tail(q)) \cup {Head(q)}
         /\ ToSet(<<>>) = {}
<1>1. ToSet(Append(q, c)) = ToSet(q) \cup {c}
  <2>1. ASSUME NEW d \in ToSet(q) PROVE d \in ToSet(Append(q, c))
    BY <2>1 DEF ToSet
  <2>2. c = Append(q, c)[Len(q) + 1] /\ Len(q) + 1 \in DOMAIN Append(q, c)
    OBVIOUS
  <2>3. ASSUME NEW d \in ToSet(Append(q, c)) PROVE d \in ToSet(q) \cup {c}
    BY <2>3 DEF ToSet
  <2> QED  BY <2>1, <2>2, <2>3 DEF ToSet
<1>2. ASSUME q # <<>> PROVE ToSet(q) = ToSet(Tail(q)) \cup {Head(q)}
  <2>1. ASSUME NEW i \in DOMAIN q PROVE q[i] \in ToSet(Tail(q)) \cup {Head(q)}
    <3>1. CASE i = 1
      BY <3>1
    <3>2. CASE i # 1
      <4>1. i - 1 \in DOMAIN Tail(q) /\ Tail(q)[i - 1] = q[i]
        BY <1>2, <3>2
      <4> QED  BY <4>1 DEF ToSet
    <3> QED  BY <3>1, <3>2
  <2>2. ASSUME NEW i \in DOMAIN Tail(q) PROVE Tail(q)[i] \in ToSet(q)
    <3>1. i + 1 \in DOMAIN q /\ Tail(q)[i] = q[i + 1]
      BY <1>2
    <3> QED  BY <3>1 DEF ToSet
  <2>3. Head(q) \in ToSet(q)
    <3>1. 1 \in DOMAIN q /\ q[1] = Head(q)
      BY <1>2
    <3> QED  BY <3>1 DEF ToSet
  <2> QED  BY <2>1, <2>2, <2>3 DEF ToSet
<1>3. ToSet(<<>>) = {}
  BY DEF ToSet
<1> QED  BY <1>1, <1>2, <1>3

\* A connection stays at most once in a queue that takes others, or this one if it was not
\* there, and is not in it once it was taken.
LEMMA OnceKept ==
  ASSUME NEW q \in Seq(Conns), NEW c \in Conns, NEW d \in Conns
  PROVE  /\ OnceIn(q, c) /\ (d = c => c \notin ToSet(q)) => OnceIn(Append(q, d), c)
         /\ OnceIn(q, c) /\ q # <<>> => OnceIn(Tail(q), c)
         /\ OnceIn(q, c) /\ q # <<>> /\ Head(q) = c => c \notin ToSet(Tail(q))
         /\ OnceIn(<<>>, c)
<1>1. ASSUME OnceIn(q, c), d = c => c \notin ToSet(q) PROVE OnceIn(Append(q, d), c)
  <2>1. ASSUME NEW i \in DOMAIN q PROVE q[i] \in ToSet(q)
    BY DEF ToSet
  <2> QED  BY <1>1, <2>1 DEF OnceIn
<1>2. ASSUME OnceIn(q, c), q # <<>> PROVE OnceIn(Tail(q), c)
  <2>1. ASSUME NEW i \in DOMAIN Tail(q) PROVE i + 1 \in DOMAIN q /\ Tail(q)[i] = q[i + 1] /\ i \in Nat
    BY <1>2
  <2>2. ASSUME NEW i \in DOMAIN Tail(q), NEW j \in DOMAIN Tail(q),
               Tail(q)[i] = c, Tail(q)[j] = c
        PROVE  i = j
    <3>1. i + 1 = j + 1
      BY <1>2, <2>1, <2>2 DEF OnceIn
    <3> QED  BY <2>1, <3>1
  <2> QED  BY <2>2 DEF OnceIn
<1>3. ASSUME OnceIn(q, c), q # <<>>, Head(q) = c, c \in ToSet(Tail(q)) PROVE FALSE
  <2>1. PICK i \in DOMAIN Tail(q) : Tail(q)[i] = c
    BY <1>3 DEF ToSet
  <2>2. i + 1 \in DOMAIN q /\ q[i + 1] = c /\ i \in Nat \ {0}
    BY <1>3, <2>1
  <2>3. 1 \in DOMAIN q /\ q[1] = c
    BY <1>3
  <2>4. i + 1 = 1
    BY <1>3, <2>2, <2>3 DEF OnceIn
  <2> QED  BY <2>2, <2>4
<1> QED  BY <1>1, <1>2, <1>3 DEF OnceIn

\* The connections of two zygotes, and the two of one, are different.
LEMMA ConnsDiffer ==
  ASSUME NEW z \in Zygotes, NEW x \in Zygotes
  PROVE  /\ Loader(z) # Module(x)
         /\ z # x => Loader(z) # Loader(x) /\ Module(z) # Module(x)
BY DEF Loader, Module

\* Every connection is the loader's or a module's of its owner.
LEMMA ConnOfOwner ==
  ASSUME NEW c \in Conns PROVE c = Loader(Owner(c)) \/ c = Module(Owner(c))
<1>1. PICK z \in Zygotes, k \in {"loader", "module"} : c = <<z, k>>
  BY DEF Conns
<1> QED  BY <1>1 DEF Loader, Module, Owner

\* Steps that leave the two queues alone leave what is said of them.
LEMMA SameQueues ==
  ASSUME UNCHANGED <<backlog, tasks>>
  PROVE  Queued' = Queued /\ \A z : LoaderOnce(z)' <=> LoaderOnce(z)
BY DEF Queued, LoaderOnce, OnceIn

\* A connection that is opened is queued, once.
LEMMA OpenQueues ==
  ASSUME TypeOK, OrderInv, NEW c \in Conns, NEW a, Open(c, a), UNCHANGED tasks,
         \A z \in Zygotes : c = Loader(z) => c \notin Queued
  PROVE  Queued' = Queued \cup {c} /\ \A z \in Zygotes : LoaderOnce(z)'
<1>1. backlog \in Seq(Conns) /\ backlog' = Append(backlog, c)
  BY DEF TypeOK, Open
<1>2. ToSet(backlog') = ToSet(backlog) \cup {c}
  BY <1>1, QueueSets
<1>3. Queued' = Queued \cup {c}
  BY <1>2 DEF Queued
<1>4. ASSUME NEW z \in Zygotes PROVE LoaderOnce(z)'
  <2>1. LoaderOnce(z)
    BY DEF OrderInv, Order
  <2>2. Loader(z) \in Conns
    BY ConnsOfZygote
  <2>3. c = Loader(z) => c \notin ToSet(backlog) /\ c \notin ToSet(tasks)
    BY DEF Queued
  <2>4. OnceIn(backlog', Loader(z))
    BY <1>1, <2>1, <2>2, <2>3, OnceKept DEF LoaderOnce
  <2>5. OnceIn(tasks', Loader(z)) /\ ToSet(tasks') = ToSet(tasks)
    BY <2>1 DEF LoaderOnce
  <2> QED  BY <1>2, <2>1, <2>3, <2>4, <2>5 DEF LoaderOnce
<1> QED  BY <1>3, <1>4

\* The steps of a loader keep the order.
LEMMA LoaderKeepsOrder ==
  ASSUME TypeOK, OrderInv, NEW z \in Zygotes, LoaderStep(z) PROVE OrderInv'
<1> DEFINE L == Loader(z)
           M == Module(z)
<1>0. Order(z) /\ L \in Conns /\ M \in Conns /\ L # M
  BY ConnsOfZygote, ConnsDiffer DEF OrderInv
<1>1. /\ UNCHANGED <<server, stops, busy, private, zygotePid, ended, tasks>>
      /\ \A x \in Zygotes : x # z => pc'[x] = pc[x]
      /\ pc' \in [Zygotes -> States] /\ pc \in [Zygotes -> States]
  <2>1. pc' \in [Zygotes -> States] /\ pc \in [Zygotes -> States]
    BY LoaderKeepsTypes DEF TypeOK
  <2>2. OnlyLoader /\ \E to \in States : Goto(z, to)
    BY DEF LoaderStep, Connect, Fail, NoRiru, AskBridge, ReadModules, LoadModules, LoadFails, ModuleRead,
           ModuleDone, WriteStatus, ReadNativeBridge, States
  <2> QED  BY <2>1, <2>2 DEF OnlyLoader, serverVars, Goto
<1>2. ~Listening' => stops' > 0
  BY <1>1 DEF OrderInv, Listening
<1>3. CASE Connect(z)
  <2>1. pc[z] = "connect" /\ pc'[z] = "tmpfs" /\ answered' = answered /\ Open(L, "READ_MAGISK_TMPFS_PATH")
    BY <1>1, <1>3 DEF Connect, Goto
  <2>2. /\ z \notin zygotePid
        /\ L \notin Queued \cup busy \cup ended \cup answered
        /\ M \notin Queued \cup busy \cup ended \cup answered
    BY <1>0, <2>1 DEF Order, Untouched
  <2>3. \A x \in Zygotes : L = Loader(x) => L \notin Queued
    BY <2>2
  <2>4. Queued' = Queued \cup {L} /\ \A x \in Zygotes : LoaderOnce(x)'
    BY <1>0, <1>1, <2>1, <2>3, OpenQueues
  <2>5. Order(z)'
    BY <1>0, <1>1, <2>1, <2>2, <2>4 DEF Order, Untouched, LoaderWaits, Met, LoaderFirst
  <2>6. ASSUME NEW x \in Zygotes, x # z PROVE Order(x)'
    <3>1. Order(x) /\ Loader(x) # L /\ Module(x) # L
      BY <2>6, ConnsDiffer DEF OrderInv
    <3> QED  BY <1>1, <2>1, <2>4, <2>6, <3>1 DEF Order, Untouched, LoaderWaits, Met, LoaderFirst
  <2> QED  BY <1>2, <2>5, <2>6 DEF OrderInv
<1>4. CASE ModuleRead(z)
  <2>1. pc[z] = "load" /\ pc'[z] = "module" /\ answered' = answered /\ Open(M, "READ_FILE")
    BY <1>1, <1>4 DEF ModuleRead, Goto
  <2>2. L \notin Queued /\ (z \in zygotePid \/ stops > 0)
    BY <1>0, <2>1 DEF Order, LoaderWaits, Met
  <2>3. \A x \in Zygotes : M = Loader(x) => M \notin Queued
    BY ConnsDiffer
  <2>4. Queued' = Queued \cup {M} /\ \A x \in Zygotes : LoaderOnce(x)'
    BY <1>0, <1>1, <2>1, <2>3, OpenQueues
  <2>5. Order(z)'
    BY <1>0, <1>1, <2>1, <2>2, <2>4 DEF Order, Untouched, LoaderWaits, Met, LoaderFirst
  <2>6. ASSUME NEW x \in Zygotes, x # z PROVE Order(x)'
    <3>1. Order(x) /\ Loader(x) # M /\ Module(x) # M
      BY <2>6, ConnsDiffer DEF OrderInv
    <3> QED  BY <1>1, <2>1, <2>4, <2>6, <3>1 DEF Order, Untouched, LoaderWaits, Met, LoaderFirst
  <2> QED  BY <1>2, <2>5, <2>6 DEF OrderInv
<1>5. ASSUME UNCHANGED backlog, answered' \subseteq answered,
             \/ pc[z] = "connect" /\ pc'[z] = "plain"
             \/ pc[z] = "tmpfs" /\ L \in ended /\ pc'[z] = "plain"
             \/ L \in answered /\ pc'[z] \in {"modules", "bridge", "up"}
             \/ /\ pc[z] \in {"modules", "load", "module", "loaded", "bridge"}
                /\ pc'[z] \in {"load", "loaded", "bridge", "up"}
      PROVE  OrderInv'
  <2>1. Queued' = Queued /\ \A x \in Zygotes : LoaderOnce(x)' <=> LoaderOnce(x)
    BY <1>1, <1>5, SameQueues
  <2>2. Order(z)'
    BY <1>0, <1>1, <1>5, <2>1 DEF Order, Untouched, LoaderWaits, Met, LoaderFirst
  <2>3. ASSUME NEW x \in Zygotes, x # z PROVE Order(x)'
    <3>1. Order(x)
      BY DEF OrderInv
    <3> QED  BY <1>1, <1>5, <2>1, <2>3, <3>1 DEF Order, Untouched, LoaderWaits, Met, LoaderFirst
  <2> QED  BY <1>2, <2>2, <2>3 DEF OrderInv
<1>6. CASE Fail(z)
  <2>1. UNCHANGED backlog /\ answered' = answered /\ pc'[z] = "plain"
    BY <1>1, <1>6 DEF Fail, Goto, EndOfFile
  <2>2. \/ pc[z] = "connect"
        \/ pc[z] = "tmpfs" /\ L \in ended
    BY <1>6 DEF Fail, EndOfFile
  <2> QED  BY <1>5, <2>1, <2>2
<1>7. CASE ReadModules(z) \/ NoRiru(z)
  <2>1. /\ UNCHANGED backlog /\ answered' \subseteq answered /\ L \in answered
        /\ pc'[z] \in {"modules", "bridge", "up"}
    BY <1>1, <1>7 DEF ReadModules, NoRiru, AskBridge, Goto, Receive
  <2> QED  BY <1>5, <2>1
<1>8. CASE LoadModules(z) \/ LoadFails(z) \/ ModuleDone(z) \/ WriteStatus(z) \/ ReadNativeBridge(z)
  <2>1. UNCHANGED backlog /\ answered' \subseteq answered
    BY <1>8 DEF LoadModules, LoadFails, ModuleDone, WriteStatus, ReadNativeBridge, Receive, EndOfFile
  <2>2. pc[z] \in {"modules", "load", "module", "loaded", "bridge"}
    BY <1>8 DEF LoadModules, LoadFails, ModuleDone, WriteStatus, Loaded, ReadNativeBridge
  <2>3. pc'[z] \in {"load", "loaded", "bridge", "up"}
    BY <1>1, <1>8 DEF LoadModules, LoadFails, ModuleDone, WriteStatus, AskBridge, ReadNativeBridge, Goto
  <2> QED  BY <1>5, <2>1, <2>2, <2>3
<1> QED  BY <1>3, <1>4, <1>6, <1>7, <1>8 DEF LoaderStep

\* A zygote that dies keeps its connections where they are.
LEMMA DieKeepsOrder ==
  ASSUME TypeOK, OrderInv, NEW z \in Zygotes, Die(z) PROVE OrderInv'
<1>1. /\ pc' = [pc EXCEPT ![z] = "dead"] /\ pc \in [Zygotes -> States]
      /\ UNCHANGED <<answered, backlog, ended, tasks, busy, private, zygotePid, server, stops>>
  BY DEF TypeOK, Die, Goto, serverVars
<1>2. Queued' = Queued /\ \A x \in Zygotes : LoaderOnce(x)' <=> LoaderOnce(x)
  BY <1>1, SameQueues
<1>3. ASSUME NEW x \in Zygotes PROVE Order(x)'
  <2>1. Order(x) /\ (pc'[x] = pc[x] \/ pc'[x] = "dead")
    BY <1>1 DEF OrderInv
  <2> QED  BY <1>1, <1>2, <2>1 DEF Order, Untouched, LoaderWaits, Met, LoaderFirst
<1> QED  BY <1>1, <1>3 DEF OrderInv, Listening

\* Accept moves a connection from one queue to the other, or resets it.
LEMMA AcceptKeepsOrder ==
  ASSUME TypeOK, OrderInv, Accept PROVE OrderInv'
<1> DEFINE c == Head(backlog)
<1>1. /\ backlog \in Seq(Conns) /\ backlog # <<>> /\ tasks \in Seq(Conns) /\ c \in Conns
      /\ backlog' = Tail(backlog)
      /\ UNCHANGED <<pc, answered, busy, private, zygotePid, server, stops>>
      /\ \/ ended' = ended \cup {c} /\ tasks' = tasks
         \/ tasks' = Append(tasks, c) /\ ended' = ended
  BY TailTypes DEF TypeOK, Accept
<1>2. ToSet(backlog) = ToSet(backlog') \cup {c}
  BY <1>1, QueueSets
<1>3. \/ ended' = ended \cup {c} /\ ToSet(tasks') = ToSet(tasks)
      \/ ended' = ended /\ ToSet(tasks') = ToSet(tasks) \cup {c}
  <2>1. CASE ended' = ended \cup {c} /\ tasks' = tasks
    BY <2>1
  <2>2. CASE tasks' = Append(tasks, c) /\ ended' = ended
    <3>1. ToSet(Append(tasks, c)) = ToSet(tasks) \cup {c}
      BY <1>1, QueueSets
    <3> QED  BY <2>2, <3>1
  <2> QED  BY <1>1, <2>1, <2>2
<1>4. Queued' \subseteq Queued /\ (ended' = ended \/ ended' = ended \cup {c})
  BY <1>2, <1>3 DEF Queued
<1> HIDE DEF c
<1>5. ASSUME NEW z \in Zygotes PROVE LoaderOnce(z)' /\ (c = Loader(z) /\ ended' # ended => c \notin Queued')
  <2>1. LoaderOnce(z) /\ Loader(z) \in Conns
    BY ConnsOfZygote DEF OrderInv, Order
  <2>2. OnceIn(backlog', Loader(z)) /\ (c = Loader(z) => c \notin ToSet(backlog'))
    BY <1>1, <2>1, OnceKept DEF LoaderOnce, c
  <2>3. c = Loader(z) => c \notin ToSet(tasks)
    BY <1>2, <2>1 DEF LoaderOnce
  <2>4. OnceIn(tasks', Loader(z))
    <3>1. CASE tasks' = tasks
      BY <2>1, <3>1 DEF LoaderOnce
    <3>2. CASE tasks' = Append(tasks, c)
      BY <1>1, <2>1, <2>3, <3>2, OnceKept DEF LoaderOnce
    <3> QED  BY <1>1, <3>1, <3>2 DEF c
  <2> QED  BY <1>2, <1>3, <2>1, <2>2, <2>3, <2>4 DEF LoaderOnce, Queued
<1>6. ASSUME NEW z \in Zygotes PROVE Order(z)'
  <2>1. Order(z) /\ c \in Queued
    BY <1>2 DEF OrderInv, Queued
  <2> QED  BY <1>1, <1>4, <1>5, <2>1 DEF Order, Untouched, LoaderWaits, Met, LoaderFirst
<1> QED  BY <1>1, <1>6 DEF OrderInv, Listening

\* A connection that is served for the first time: if it is a loader's, its process
\* was not in zygotePid and it becomes private.
LEMMA BeginTaskKeepsOrder ==
  ASSUME TypeOK, OrderInv, BeginTask PROVE OrderInv'
<1> DEFINE c == Head(tasks)
<1>1. /\ tasks \in Seq(Conns) /\ tasks # <<>> /\ c \in Conns /\ Owner(c) \in Zygotes
      /\ tasks' = Tail(tasks) /\ busy' = busy \cup {c}
      /\ private' = IF Owner(c) \in zygotePid THEN private ELSE private \cup {c}
      /\ zygotePid' = zygotePid \cup {Owner(c)}
      /\ UNCHANGED <<pc, answered, backlog, ended, server, stops>>
  BY TailTypes, OwnerIsZygote DEF TypeOK, BeginTask, loaderVars
<1>2. ToSet(tasks) = ToSet(tasks') \cup {c} /\ ToSet(backlog') = ToSet(backlog)
  BY <1>1, QueueSets
<1>3. Queued' \subseteq Queued /\ c \in Queued
  BY <1>2 DEF Queued
<1>4. c = Loader(Owner(c)) \/ c = Module(Owner(c))
  BY <1>1, ConnOfOwner
<1> HIDE DEF c
<1>5. ASSUME NEW z \in Zygotes PROVE LoaderOnce(z)' /\ (c = Loader(z) => c \notin Queued')
  <2>1. LoaderOnce(z) /\ Loader(z) \in Conns
    BY ConnsOfZygote DEF OrderInv, Order
  <2>2. OnceIn(tasks', Loader(z)) /\ (c = Loader(z) => c \notin ToSet(tasks'))
    BY <1>1, <2>1, OnceKept DEF LoaderOnce, c
  <2> QED  BY <1>1, <1>2, <2>1, <2>2 DEF LoaderOnce, Queued
<1>6. ASSUME NEW z \in Zygotes, z # Owner(c) PROVE Order(z)'
  <2>1. Order(z) /\ c # Loader(z) /\ c # Module(z)
    BY <1>6, ConnsOfZygote DEF OrderInv
  <2> QED  BY <1>1, <1>3, <1>5, <1>6, <2>1 DEF Order, Untouched, LoaderWaits, Met, LoaderFirst
<1>7. ASSUME NEW z \in Zygotes, z = Owner(c) PROVE Order(z)'
  <2>1. Order(z) /\ Loader(z) # Module(z) /\ z \in zygotePid'
    BY <1>1, <1>7, ConnsDiffer DEF OrderInv
  <2>2. Untouched(z)' /\ Met(z)'
    BY <1>1, <1>3, <1>4, <1>7, <2>1 DEF Order, Untouched, Met
  <2>3. Loader(z) \notin Queued'
    BY <1>1, <1>3, <1>4, <1>5, <1>7, <2>1 DEF Order, LoaderWaits
  <2>4. LoaderFirst(z)'
    <3>1. CASE c = Loader(z)
      BY <1>1, <1>3, <1>7, <2>1, <3>1 DEF Order, LoaderWaits, LoaderFirst
    <3>2. CASE c = Module(z)
      BY <1>1, <1>3, <1>7, <2>1, <3>2 DEF Order, Met, LoaderFirst
    <3> QED  BY <1>4, <1>7, <3>1, <3>2
  <2> QED  BY <1>1, <1>5, <2>2, <2>3, <2>4 DEF Order, LoaderWaits
<1> QED  BY <1>1, <1>6, <1>7 DEF OrderInv, Listening

\* What happens on a connection that is served concerns no connection that waits.
LEMMA SessionKeepsOrder ==
  ASSUME TypeOK, OrderInv, NEW c \in busy, HandleAction(c) \/ EndTask(c) \/ Throw(c)
  PROVE  OrderInv'
<1>1. /\ UNCHANGED <<pc, backlog, tasks, private, zygotePid, server, stops>>
      /\ busy' \subseteq busy
      /\ answered' \subseteq answered \cup {c} /\ ended' \subseteq ended \cup {c}
  BY DEF HandleAction, EndTask, Throw, End, loaderVars
<1>2. Queued' = Queued /\ \A x \in Zygotes : LoaderOnce(x)' <=> LoaderOnce(x)
  BY <1>1, SameQueues
<1>3. ASSUME NEW z \in Zygotes PROVE Order(z)'
  <2>1. Order(z)
    BY DEF OrderInv
  <2>2. Untouched(z)'
    BY <1>1, <1>2, <2>1 DEF Order, Untouched
  <2>3. LoaderWaits(z)'
    BY <1>1, <1>2, <2>1 DEF Order, LoaderWaits
  <2> QED  BY <1>1, <1>2, <2>1, <2>2, <2>3 DEF Order, Met, LoaderFirst
<1> QED  BY <1>1, <1>3 DEF OrderInv, Listening

\* Stopping and starting the server: connections in the backlog are reset, and zygotePid
\* is cleared only once the server was stopped.
LEMMA StopKeepsOrder ==
  ASSUME TypeOK, OrderInv, StopServer \/ RestartServer \/ StartServer PROVE OrderInv'
<1>1. CASE StopServer
  <2>1. /\ backlog \in Seq(Conns) /\ backlog' = <<>>
        /\ ended' = ended \cup ToSet(backlog) /\ stops' > 0
        /\ UNCHANGED <<pc, answered, tasks, busy, private, zygotePid>>
    BY <1>1, ServerAssumption DEF TypeOK, StopServer
  <2>2. ToSet(backlog') = {} /\ ToSet(tasks') = ToSet(tasks)
    BY <2>1 DEF ToSet
  <2>3. Queued' = ToSet(tasks) /\ Queued = ToSet(tasks) \cup ToSet(backlog)
    BY <2>2 DEF Queued
  <2>4. ASSUME NEW z \in Zygotes PROVE Order(z)'
    <3>1. Order(z) /\ OnceIn(backlog', Loader(z))
      BY <2>1 DEF OrderInv, OnceIn
    <3>2. LoaderOnce(z)'
      BY <2>1, <2>2, <3>1 DEF Order, LoaderOnce
    <3>3. LoaderWaits(z)'
      BY <2>1, <2>2, <2>3, <3>1 DEF Order, LoaderOnce, LoaderWaits
    <3>4. Untouched(z)'
      BY <2>1, <2>3, <3>1 DEF Order, Untouched
    <3> QED  BY <2>1, <3>1, <3>2, <3>3, <3>4 DEF Order, Met, LoaderFirst
  <2> QED  BY <2>1, <2>4 DEF OrderInv
<1>2. CASE RestartServer \/ StartServer
  <2>1. /\ UNCHANGED <<pc, answered, backlog, ended, tasks, busy, private, stops>>
        /\ zygotePid' = {} /\ stops > 0
    BY <1>2 DEF RestartServer, StartServer, loaderVars, OrderInv, Listening
  <2>2. Queued' = Queued /\ \A x \in Zygotes : LoaderOnce(x)' <=> LoaderOnce(x)
    BY <2>1, SameQueues
  <2>3. ASSUME NEW z \in Zygotes PROVE Order(z)'
    <3>1. Order(z)
      BY DEF OrderInv
    <3> QED  BY <2>1, <2>2, <3>1 DEF Order, Untouched, LoaderWaits, Met, LoaderFirst
  <2> QED  BY <2>1, <2>3 DEF OrderInv
<1> QED  BY <1>1, <1>2

\* The order holds at the start, and every step keeps it.
LEMMA OrderHolds ==
  (Init => OrderInv) /\ (TypeOK /\ OrderInv /\ [Next]_vars => OrderInv')
<1>1. Init => OrderInv
  BY QueueSets DEF Init, OrderInv, Order, Listening, Untouched, LoaderWaits, LoaderOnce, Met,
                   LoaderFirst, OnceIn, Queued, ToSet
<1>2. TypeOK /\ OrderInv /\ [Next]_vars => OrderInv'
  <2> SUFFICES ASSUME TypeOK, OrderInv, [Next]_vars PROVE OrderInv'
    OBVIOUS
  <2>1. CASE UNCHANGED vars
    <3>1. UNCHANGED <<pc, answered, backlog, ended, tasks, busy, private, zygotePid, server, stops>>
      BY <2>1 DEF vars, loaderVars, serverVars
    <3>2. Queued' = Queued /\ \A x \in Zygotes : LoaderOnce(x)' <=> LoaderOnce(x)
      BY <3>1, SameQueues
    <3> QED  BY <3>1, <3>2 DEF OrderInv, Order, Listening, Untouched, LoaderWaits, Met, LoaderFirst
  <2> QED  BY <2>1, LoaderKeepsOrder, DieKeepsOrder, AcceptKeepsOrder, BeginTaskKeepsOrder,
              SessionKeepsOrder, StopKeepsOrder DEF Next
<1> QED  BY <1>1, <1>2

\* For any zygotes and pool: a loader that is served has the private connection, in
\* whatever order connections are accepted and zygotePid is cleared, and its modules have
\* not, unless the server was stopped meanwhile.
THEOREM FirstIsLoaderAlways == Spec => []FirstIsLoader
<1>1. Init => OrderInv
  BY OrderHolds
<1>2. TypeOK /\ OrderInv /\ [Next]_vars => OrderInv'
  BY OrderHolds
<1>3. OrderInv => FirstIsLoader
  BY DEF OrderInv, Order, LoaderFirst, FirstIsLoader
<1> QED  BY <1>1, <1>2, <1>3, TypeCorrect, PTL DEF Spec

-----------------------------------------------------------------------------
(* The status comes before the bridge. *)

\* The loader asked for a on its connection and the answer has come, or it has not.
Asked(z, a) ==
  IF Loader(z) \in answered THEN inbox[Loader(z)] = <<>> ELSE inbox[Loader(z)] = <<a>>

\* What a loader has written and the server has answered, at each of its waits.
Session(z) ==
  /\ Loader(z) \in busy => Loader(z) \notin ended
  /\ pc[z] = "connect" => inbox[Loader(z)] = <<>>
  /\ pc[z] \in {"connect", "tmpfs"} => z \notin entered
  /\ pc[z] \notin {"connect"} \cup Final => Loader(z) \in opened
  /\ pc[z] \notin {"connect", "tmpfs"} \cup Final => Loader(z) \in busy
  /\ pc[z] = "tmpfs" => /\ Asked(z, "READ_MAGISK_TMPFS_PATH")
                        /\ Loader(z) \in answered => Loader(z) \in busy
  /\ pc[z] = "modules" => Asked(z, "READ_MODULES")
  /\ pc[z] \in {"load", "module", "loaded"} =>
       inbox[Loader(z)] = <<>> /\ Loader(z) \notin answered
  /\ pc[z] = "bridge" =>
       \/ /\ Loader(z) \notin answered
          /\ inbox[Loader(z)] = <<"WRITE_STATUS", "READ_NATIVE_BRIDGE">>
       \/ (z \in recorded \/ z \notin entered) /\ Asked(z, "READ_NATIVE_BRIDGE")
  /\ pc[z] = "up" => z \in recorded \/ z \notin entered

SessionInv == HasNativeBridge /\ throws = 0 => \A z \in Zygotes : Session(z)

\* Adding to no requests, and taking from one or two.
LEMMA Requests ==
  ASSUME NEW a, NEW b
  PROVE  /\ <<>> \o <<a>> = <<a>> /\ <<>> \o (<<a>> \o <<b>>) = <<a, b>>
         /\ Head(<<a>>) = a /\ Tail(<<a>>) = <<>> /\ <<a>> # <<>>
         /\ Head(<<a, b>>) = a /\ Tail(<<a, b>>) = <<b>> /\ <<a, b>> # <<>>
<1>1. <<a>> \o <<b>> = <<a, b>>
  <2> DEFINE S == {a, b}
  <2>1. a \in S /\ b \in S
    OBVIOUS
  <2> HIDE DEF S
  <2>2. <<a>> \in Seq(S) /\ <<b>> \in Seq(S) /\ <<a, b>> \in Seq(S)
    BY <2>1
  <2>3. Len(<<a>>) = 1 /\ Len(<<b>>) = 1 /\ Len(<<a, b>>) = 2
    OBVIOUS
  <2>4. <<a>> \o <<b>> \in Seq(S) /\ Len(<<a>> \o <<b>>) = 2
    BY <2>2, <2>3, ConcatProperties
  <2>5. (<<a>> \o <<b>>)[1] = <<a, b>>[1] /\ (<<a>> \o <<b>>)[2] = <<a, b>>[2]
    BY <2>2, <2>3, ConcatProperties
  <2>6. \A i \in 1..2 : (<<a>> \o <<b>>)[i] = <<a, b>>[i]
    BY <2>5
  <2> QED  BY <2>2, <2>3, <2>4, <2>6, SeqEqual
<1>2. <<>> \o <<a>> = <<a>> /\ <<>> \o <<a, b>> = <<a, b>>
  OBVIOUS
<1>3. /\ Head(<<a>>) = a /\ Tail(<<a>>) = <<>> /\ <<a>> # <<>>
      /\ Head(<<a, b>>) = a /\ Tail(<<a, b>>) = <<b>> /\ <<a, b>> # <<>>
  OBVIOUS
<1> QED  BY <1>1, <1>2, <1>3

\* The steps of a loader keep its session and the others'.
LEMMA LoaderKeepsSession ==
  ASSUME TypeOK, OrderInv, HasNativeBridge, \A z \in Zygotes : Session(z),
         NEW z \in Zygotes, LoaderStep(z), NEW x \in Zygotes
  PROVE  Session(x)'
<1> DEFINE L == Loader(z)
           M == Module(z)
<1>0. Session(z) /\ Order(z) /\ L \in Conns /\ M \in Conns /\ L # M
  BY ConnsOfZygote, ConnsDiffer DEF OrderInv
<1>1. /\ UNCHANGED <<busy, ended, recorded>> /\ entered \subseteq entered'
      /\ \A y \in Zygotes : y \in entered' /\ y \notin entered => y = z /\ pc'[z] = "modules"
      /\ \A y \in Zygotes : y # z => pc'[y] = pc[y]
      /\ pc' \in [Zygotes -> States] /\ pc \in [Zygotes -> States]
      /\ inbox \in [Conns -> Seq(Actions)]
  <2>1. pc' \in [Zygotes -> States] /\ pc \in [Zygotes -> States] /\ inbox \in [Conns -> Seq(Actions)]
    BY LoaderKeepsTypes DEF TypeOK
  <2>2. OnlyLoader /\ \E to \in States : Goto(z, to)
    BY DEF LoaderStep, Connect, Fail, NoRiru, AskBridge, ReadModules, LoadModules, LoadFails, ModuleRead,
           ModuleDone, WriteStatus, ReadNativeBridge, States
  <2>3. entered' = entered \/ (entered' = entered \cup {z} /\ Goto(z, "modules"))
    BY DEF LoaderStep, Connect, Fail, NoRiru, ReadModules, LoadModules, LoadFails, ModuleRead,
           ModuleDone, WriteStatus, ReadNativeBridge
  <2> QED  BY <2>1, <2>2, <2>3 DEF OnlyLoader, serverVars, Goto, States
<1>2. CASE x # z
  <2>1. Loader(x) \in Conns /\ Loader(x) # L /\ Loader(x) # M /\ Session(x)
    BY <1>2, ConnsOfZygote, ConnsDiffer
  <2>2. (Loader(x) \in answered' <=> Loader(x) \in answered) /\ (Loader(x) \in opened' <=> Loader(x) \in opened)
    BY <2>1 DEF LoaderStep, Connect, Fail, NoRiru, AskBridge, ReadModules, LoadModules, LoadFails, ModuleRead,
           ModuleDone, WriteStatus, ReadNativeBridge, Open, Receive, EndOfFile
  <2>3. inbox'[Loader(x)] = inbox[Loader(x)]
    BY <1>1, <2>1 DEF LoaderStep, Connect, Fail, NoRiru, AskBridge, ReadModules, LoadModules, LoadFails, ModuleRead,
           ModuleDone, WriteStatus, ReadNativeBridge, Open, Send
  <2> QED  BY <1>1, <1>2, <2>1, <2>2, <2>3 DEF Session, Asked
<1>3. Connect(z) => Session(z)'
  <2> SUFFICES ASSUME Connect(z) PROVE Session(z)'
    OBVIOUS
  <2>1. pc[z] = "connect" /\ pc'[z] = "tmpfs" /\ L \in opened' /\ answered' = answered
    BY <1>1 DEF Connect, Goto, Open
  <2>2. L \notin busy /\ L \notin answered
    BY <1>0, <2>1 DEF Order, Untouched
  <2>3. inbox'[L] = <<>> \o <<"READ_MAGISK_TMPFS_PATH">>
    BY <1>0, <1>1, <2>1 DEF Connect, Open, Send, Session
  <2>4. inbox'[L] = <<"READ_MAGISK_TMPFS_PATH">>
    BY <2>3, Requests
  <2> QED  BY <1>0, <1>1, <2>1, <2>2, <2>4 DEF Session, Asked, Final
<1>4. Fail(z) => Session(z)'
  BY <1>0, <1>1 DEF Fail, Goto, Session, Final
<1>5. ReadModules(z) => Session(z)'
  <2> SUFFICES ASSUME ReadModules(z) PROVE Session(z)'
    OBVIOUS
  <2>1. pc[z] = "tmpfs" /\ pc'[z] = "modules" /\ L \in answered /\ L \notin answered' /\ opened' = opened
    BY <1>1 DEF ReadModules, Goto, Receive
  <2>2. L \in busy /\ L \notin ended /\ L \in opened /\ inbox[L] = <<>>
    BY <1>0, <2>1 DEF Session, Asked, Final
  <2>3. inbox'[L] = <<>> \o <<"READ_MODULES">>
    BY <1>0, <1>1, <2>2 DEF ReadModules, Send
  <2>4. inbox'[L] = <<"READ_MODULES">>
    BY <2>3, Requests
  <2> QED  BY <1>1, <2>1, <2>2, <2>4 DEF Session, Asked, Final
<1>n. NoRiru(z) => Session(z)'
  <2> SUFFICES ASSUME NoRiru(z) PROVE Session(z)'
    OBVIOUS
  <2>1. /\ pc[z] = "tmpfs" /\ pc'[z] = "bridge" /\ L \in answered /\ L \notin answered'
        /\ opened' = opened /\ entered' = entered
    BY <1>1 DEF NoRiru, AskBridge, Goto, Receive
  <2>2. L \in busy /\ L \notin ended /\ L \in opened /\ inbox[L] = <<>>
    BY <1>0, <2>1 DEF Session, Asked, Final
  <2>3. inbox'[L] = <<>> \o (<<>> \o <<"READ_NATIVE_BRIDGE">>)
    BY <1>0, <1>1, <2>2 DEF NoRiru, AskBridge, Send
  <2>4. inbox'[L] = <<"READ_NATIVE_BRIDGE">>
    BY <2>3, Requests
  <2>5. z \in recorded' \/ z \notin entered'
    BY <1>0, <1>1, <2>1 DEF Session
  <2> QED  BY <1>1, <2>1, <2>2, <2>4, <2>5 DEF Session, Asked, Final
<1>6. LoadModules(z) => Session(z)'
  <2> SUFFICES ASSUME LoadModules(z) PROVE Session(z)'
    OBVIOUS
  <2>1. /\ pc[z] = "modules" /\ pc'[z] = "load" /\ L \in answered /\ L \notin answered'
        /\ opened' = opened /\ inbox' = inbox
    BY <1>1 DEF LoadModules, Goto, Receive
  <2>2. L \in busy /\ L \notin ended /\ L \in opened /\ inbox[L] = <<>>
    BY <1>0, <2>1 DEF Session, Asked, Final
  <2> QED  BY <1>1, <2>1, <2>2 DEF Session, Final
<1>7. ~LoadFails(z)
  BY <1>0 DEF LoadFails, EndOfFile, Session, Final
<1>8. ModuleRead(z) => Session(z)'
  <2> SUFFICES ASSUME ModuleRead(z) PROVE Session(z)'
    OBVIOUS
  <2>1. pc[z] = "load" /\ pc'[z] = "module" /\ answered' = answered /\ opened' = opened \cup {M}
    BY <1>1 DEF ModuleRead, Goto, Open
  <2>2. inbox'[L] = inbox[L]
    BY <1>0, <1>1 DEF ModuleRead, Open, Send
  <2> QED  BY <1>0, <1>1, <2>1, <2>2 DEF Session, Final
<1>9. ModuleDone(z) => Session(z)'
  <2> SUFFICES ASSUME ModuleDone(z) PROVE Session(z)'
    OBVIOUS
  <2>1. /\ pc[z] = "module" /\ pc'[z] = "loaded" /\ answered' \subseteq answered
        /\ opened' = opened \ {M} /\ inbox' = inbox
    BY <1>1 DEF ModuleDone, Goto, Receive, EndOfFile
  <2> QED  BY <1>0, <1>1, <2>1 DEF Session, Final
<1>10. WriteStatus(z) => Session(z)'
  <2> SUFFICES ASSUME WriteStatus(z) PROVE Session(z)'
    OBVIOUS
  <2>1. /\ pc[z] \in {"load", "loaded"} /\ pc'[z] = "bridge" /\ answered' = answered
        /\ opened' = opened
    BY <1>1 DEF WriteStatus, Loaded, AskBridge, Goto
  <2>2. /\ L \in busy /\ L \notin ended /\ L \in opened /\ inbox[L] = <<>> /\ L \notin answered
    BY <1>0, <2>1 DEF Session, Final
  <2>3. inbox'[L] = <<>> \o (<<"WRITE_STATUS">> \o <<"READ_NATIVE_BRIDGE">>)
    BY <1>0, <1>1, <2>2 DEF WriteStatus, AskBridge, Send
  <2>4. inbox'[L] = <<"WRITE_STATUS", "READ_NATIVE_BRIDGE">>
    BY <2>3, Requests
  <2> QED  BY <1>1, <2>1, <2>2, <2>4 DEF Session, Final
<1>11. ReadNativeBridge(z) => Session(z)'
  <2> SUFFICES ASSUME ReadNativeBridge(z) PROVE Session(z)'
    OBVIOUS
  <2>1. pc[z] = "bridge" /\ pc'[z] = "up" /\ L \in busy /\ L \notin ended
    BY <1>0, <1>1 DEF ReadNativeBridge, Goto, Session, Final
  <2>2. L \in answered
    BY <2>1 DEF ReadNativeBridge, Receive, EndOfFile
  <2>3. z \in recorded \/ z \notin entered'
    BY <1>0, <2>1, <2>2 DEF ReadNativeBridge, Session
  <2> QED  BY <1>1, <2>1, <2>3 DEF Session, Final
<1> QED  BY <1>2, <1>3, <1>4, <1>n, <1>5, <1>6, <1>7, <1>8, <1>9, <1>10, <1>11 DEF LoaderStep

\* What the server does with a session: it is only ended when the peer has gone or a
\* handler throws, since the loader's connection is private.
LEMMA ServerKeepsSession ==
  ASSUME TypeOK, OrderInv, HasNativeBridge, \A z \in Zygotes : Session(z), throws' = 0,
         NEW c \in busy, HandleAction(c) \/ EndTask(c) \/ Throw(c), NEW x \in Zygotes
  PROVE  Session(x)'
<1> DEFINE L == Loader(x)
<1>0. Session(x) /\ Order(x) /\ L \in Conns /\ c \in Conns
  BY ConnsOfZygote DEF OrderInv, TypeOK
<1>1. /\ UNCHANGED <<pc, entered, opened>> /\ inbox \in [Conns -> Seq(Actions)]
      /\ recorded \subseteq recorded'
  BY DEF HandleAction, EndTask, Throw, End, loaderVars, TypeOK
<1>2. CASE c # L
  <2>1. /\ L \in busy' <=> L \in busy
        /\ L \in ended' <=> L \in ended
        /\ L \in answered' <=> L \in answered
        /\ inbox'[L] = inbox[L]
    BY <1>0, <1>1, <1>2 DEF HandleAction, EndTask, Throw, End, loaderVars
  <2> QED  BY <1>0, <1>1, <2>1 DEF Session, Asked
<1>3. CASE c = L /\ (EndTask(c) \/ Throw(c))
  <2>1. Authorised(L, Head(inbox[L]))
    BY <1>0, <1>3 DEF Authorised, Order, LoaderFirst
  <2>2. L \notin opened
    BY <1>3, <2>1, ServerAssumption DEF EndTask, Throw, TypeOK
  <2>3. L \notin busy' /\ UNCHANGED <<inbox, answered>>
    BY <1>3 DEF EndTask, Throw, End, loaderVars
  <2>4. pc[x] \in {"connect"} \cup Final
    BY <1>0, <2>2 DEF Session
  <2> QED  BY <1>0, <1>1, <2>3, <2>4 DEF Session, Final
<1>4. CASE c = L /\ HandleAction(c)
  <2>1. /\ UNCHANGED <<busy, ended>> /\ L \in busy
        /\ inbox[L] # <<>> /\ inbox'[L] = Tail(inbox[L])
        /\ IF Head(inbox[L]) = "WRITE_STATUS"
           THEN recorded' = recorded \cup {Owner(L)} /\ answered' = answered
           ELSE answered' = answered \cup {L}
    BY <1>0, <1>1, <1>4 DEF HandleAction
  <2>2. Owner(L) = x
    BY ConnsOfZygote
  <2>3. CASE pc[x] \in {"tmpfs", "modules"}
    <3>1. PICK a \in {"READ_MAGISK_TMPFS_PATH", "READ_MODULES"} : inbox[L] = <<a>>
      BY <1>0, <2>1, <2>3 DEF Session, Asked
    <3>2. inbox'[L] = <<>> /\ L \in answered'
      BY <2>1, <3>1, Requests
    <3> QED  BY <1>0, <1>1, <2>1, <2>3, <3>2 DEF Session, Asked, Final
  <2>4. CASE pc[x] = "bridge"
    <3>1. CASE L \notin answered /\ inbox[L] = <<"WRITE_STATUS", "READ_NATIVE_BRIDGE">>
      <4>1. inbox'[L] = <<"READ_NATIVE_BRIDGE">> /\ L \notin answered' /\ x \in recorded'
        BY <2>1, <2>2, <3>1, Requests
      <4> QED  BY <1>0, <1>1, <2>1, <2>4, <4>1 DEF Session, Asked, Final
    <3>2. CASE (x \in recorded \/ x \notin entered) /\ Asked(x, "READ_NATIVE_BRIDGE")
      <4>1. inbox[L] = <<"READ_NATIVE_BRIDGE">>
        BY <2>1, <3>2 DEF Asked
      <4>2. inbox'[L] = <<>> /\ L \in answered'
        BY <2>1, <4>1, Requests
      <4> QED  BY <1>0, <1>1, <2>1, <2>4, <3>2, <4>2 DEF Session, Asked, Final
    <3> QED  BY <1>0, <2>4, <3>1, <3>2 DEF Session
  <2>5. CASE pc[x] \in {"connect", "load", "module", "loaded"}
    BY <1>0, <2>1, <2>5 DEF Session
  <2>6. CASE pc[x] \in Final
    BY <1>0, <1>1, <2>1, <2>6 DEF Session, Final
  <2> QED  BY <2>3, <2>4, <2>5, <2>6 DEF TypeOK, States, Final
<1> QED  BY <1>2, <1>3, <1>4

\* The other steps do not touch the sessions that are served.
LEMMA OthersKeepSession ==
  ASSUME TypeOK, OrderInv, \A z \in Zygotes : Session(z), NEW x \in Zygotes,
         \/ \E z \in Zygotes : Die(z)
         \/ Accept \/ BeginTask \/ StopServer \/ RestartServer \/ StartServer
  PROVE  Session(x)'
<1> DEFINE L == Loader(x)
<1>0. Session(x) /\ Order(x)
  BY DEF OrderInv
<1>1. ASSUME NEW z \in Zygotes, Die(z) PROVE Session(x)'
  <2>1. /\ UNCHANGED <<entered, inbox, answered, busy, ended, recorded>>
        /\ pc' = [pc EXCEPT ![z] = "dead"] /\ pc \in [Zygotes -> States]
        /\ opened' = opened \ {Loader(z), Module(z)}
    BY <1>1 DEF Die, Goto, serverVars, TypeOK
  <2>2. CASE x = z
    BY <1>0, <2>1, <2>2 DEF Session, Final
  <2>3. CASE x # z
    <3>1. pc'[x] = pc[x] /\ (L \in opened => L \in opened')
      BY <2>1, <2>3, ConnsDiffer
    <3> QED  BY <1>0, <2>1, <3>1 DEF Session, Asked
  <2> QED  BY <2>2, <2>3
<1>2. ASSUME UNCHANGED <<pc, entered, opened, inbox, answered, recorded>>,
             busy \subseteq busy', L \in busy' => L \notin ended'
      PROVE  Session(x)'
  BY <1>0, <1>2 DEF Session, Asked
<1>3. CASE Accept
  <2>1. /\ UNCHANGED <<pc, entered, opened, inbox, answered, recorded, busy>>
        /\ ended' \subseteq ended \cup {Head(backlog)}
    BY <1>3 DEF Accept
  <2>2. Head(backlog) \in Queued
    BY <1>3, TailTypes, QueueSets DEF Accept, TypeOK, Queued
  <2>3. L \in busy => L \notin ended /\ L # Head(backlog)
    BY <1>0, <2>2 DEF Order, LoaderWaits, Session
  <2> QED  BY <1>2, <2>1, <2>3
<1>4. CASE BeginTask
  <2>1. /\ UNCHANGED <<pc, entered, opened, inbox, answered, recorded, ended>>
        /\ busy' = busy \cup {Head(tasks)}
    BY <1>4 DEF BeginTask, loaderVars
  <2>2. Head(tasks) \in Queued
    BY <1>4, TailTypes, QueueSets DEF BeginTask, TypeOK, Queued
  <2>3. L \in busy' => L \notin ended
    BY <1>0, <2>1, <2>2 DEF Order, LoaderWaits, Session
  <2> QED  BY <1>2, <2>1, <2>3
<1>5. CASE StopServer
  <2>1. /\ UNCHANGED <<pc, entered, opened, inbox, answered, recorded, busy>>
        /\ ended' \subseteq ended \cup Queued
    BY <1>5 DEF StopServer, Queued
  <2>2. L \in busy => L \notin ended /\ L \notin Queued
    BY <1>0 DEF Order, LoaderWaits, Session
  <2> QED  BY <1>2, <2>1, <2>2
<1>6. CASE RestartServer \/ StartServer
  <2>1. UNCHANGED <<pc, entered, opened, inbox, answered, recorded, busy, ended>>
    BY <1>6 DEF RestartServer, StartServer, loaderVars
  <2>2. L \in busy => L \notin ended
    BY <1>0 DEF Session
  <2> QED  BY <1>2, <2>1, <2>2
<1> QED  BY <1>1, <1>3, <1>4, <1>5, <1>6

\* No request of a list is WRITE_STATUS.
Silent(q) == \A i \in DOMAIN q : q[i] # "WRITE_STATUS"

\* Only the connection of a loader that called init carries a status, so only such a
\* process is recorded.
RiruInv ==
  /\ recorded \subseteq entered
  /\ \A z \in Zygotes : pc[z] \in {"modules", "load", "module", "loaded"} => z \in entered
  /\ \A c \in Conns : Owner(c) \notin entered => Silent(inbox[c])

\* Adding silent requests, and taking the first one.
LEMMA SilentLists ==
  ASSUME NEW q \in Seq(Actions), Silent(q)
  PROVE  /\ \A p \in Seq(Actions) : Silent(p) => Silent(q \o p)
         /\ q # <<>> => Silent(Tail(q)) /\ Head(q) # "WRITE_STATUS"
<1>1. ASSUME NEW p \in Seq(Actions), Silent(p) PROVE Silent(q \o p)
  <2>1. ASSUME NEW i \in DOMAIN (q \o p) PROVE (q \o p)[i] # "WRITE_STATUS"
    <3>1. CASE i \in DOMAIN q
      BY <3>1 DEF Silent
    <3>2. CASE i \notin DOMAIN q
      <4>1. i - Len(q) \in DOMAIN p /\ (q \o p)[i] = p[i - Len(q)]
        BY <3>2
      <4> QED  BY <1>1, <4>1 DEF Silent
    <3> QED  BY <3>1, <3>2
  <2> QED  BY <2>1 DEF Silent
<1>2. ASSUME q # <<>> PROVE Silent(Tail(q)) /\ Head(q) # "WRITE_STATUS"
  <2>1. \A i \in DOMAIN Tail(q) : Tail(q)[i] = q[i + 1] /\ i + 1 \in DOMAIN q
    BY <1>2
  <2>2. Head(q) = q[1] /\ 1 \in DOMAIN q
    BY <1>2
  <2> QED  BY <2>1, <2>2 DEF Silent
<1> QED  BY <1>1, <1>2

\* The loader asks for the status of modules it has loaded, and for nothing else like it.
LEMMA LoaderKeepsRiru ==
  ASSUME TypeOK, RiruInv, NEW z \in Zygotes, LoaderStep(z) PROVE RiruInv'
<1>1. /\ UNCHANGED recorded /\ entered \subseteq entered'
      /\ pc \in [Zygotes -> States] /\ inbox \in [Conns -> Seq(Actions)]
  BY DEF TypeOK, LoaderStep, Connect, Fail, NoRiru, ReadModules, LoadModules, LoadFails,
         ModuleRead, ModuleDone, WriteStatus, ReadNativeBridge, OnlyLoader, serverVars
<1>2. ASSUME NEW x \in Zygotes, pc'[x] \in {"modules", "load", "module", "loaded"}
      PROVE  x \in entered'
  <2>1. CASE ReadModules(z)
    BY <1>1, <1>2, <2>1 DEF ReadModules, Goto, RiruInv
  <2>2. CASE ~ReadModules(z)
    <3>1. pc[x] \in {"modules", "load", "module", "loaded"}
      BY <1>1, <1>2, <2>2 DEF LoaderStep, Connect, Fail, NoRiru, AskBridge, LoadModules, LoadFails,
         ModuleRead, ModuleDone, WriteStatus, ReadNativeBridge, Goto
    <3> QED  BY <1>1, <3>1 DEF RiruInv
  <2> QED  BY <2>1, <2>2
<1>3. ASSUME NEW c \in Conns, Owner(c) \notin entered' PROVE Silent(inbox'[c])
  <2>1. Silent(inbox[c]) /\ inbox[c] \in Seq(Actions)
    BY <1>1, <1>3 DEF RiruInv
  <2>2. CASE inbox' = inbox
    BY <2>1, <2>2
  <2>3. ASSUME NEW d \in Conns, NEW as \in Seq(Actions), Silent(as), Send(d, as)
        PROVE  Silent(inbox'[c])
    BY <1>1, <2>1, <2>3, SilentLists DEF Send
  <2>4. CASE Connect(z) \/ ModuleRead(z) \/ ReadModules(z)
    <3>1. \A a \in Actions \ {"WRITE_STATUS"} : <<a>> \in Seq(Actions) /\ Silent(<<a>>)
      BY DEF Silent
    <3>2. PICK d \in Conns, a \in Actions \ {"WRITE_STATUS"} : Send(d, <<a>>)
      BY <2>4, ConnsOfZygote DEF Connect, ModuleRead, ReadModules, Open, Actions, PrivateActions
    <3> QED  BY <2>3, <3>1, <3>2
  <2>5. CASE NoRiru(z)
    <3>1. Silent(<<>>) /\ <<>> \in Seq(Actions) /\ Silent(<<>> \o <<"READ_NATIVE_BRIDGE">>)
          /\ <<>> \o <<"READ_NATIVE_BRIDGE">> \in Seq(Actions)
      BY DEF Silent, Actions, PrivateActions
    <3> QED  BY <2>3, <2>5, <3>1, ConnsOfZygote DEF NoRiru, AskBridge
  <2>6. CASE WriteStatus(z)
    <3>1. z \in entered /\ Owner(Loader(z)) = z
      BY <2>6, ConnsOfZygote DEF WriteStatus, Loaded, RiruInv
    <3>2. c # Loader(z)
      BY <1>1, <1>3, <3>1
    <3>3. PICK as : Send(Loader(z), as)
      BY <2>6 DEF WriteStatus, AskBridge
    <3> QED  BY <1>1, <2>1, <3>2, <3>3, ConnsOfZygote DEF Send
  <2> QED  BY <2>2, <2>4, <2>5, <2>6 DEF LoaderStep, Fail, LoadModules, LoadFails, ModuleDone, ReadNativeBridge
<1> QED  BY <1>1, <1>2, <1>3 DEF RiruInv

\* The server records the owner of the connection a status came on.
LEMMA RiruStep == ASSUME TypeOK, RiruInv, [Next]_vars PROVE RiruInv'
<1>0. inbox \in [Conns -> Seq(Actions)] /\ busy \subseteq Conns /\ pc \in [Zygotes -> States]
  BY DEF TypeOK
<1>1. ASSUME NEW z \in Zygotes, LoaderStep(z) PROVE RiruInv'
  BY <1>1, LoaderKeepsRiru
<1>2. ASSUME NEW z \in Zygotes, Die(z) PROVE RiruInv'
  BY <1>0, <1>2 DEF Die, Goto, serverVars, RiruInv
<1>3. ASSUME NEW c \in busy, HandleAction(c) PROVE RiruInv'
  <2>1. Owner(c) \in Zygotes /\ c \in Conns /\ inbox[c] \in Seq(Actions) /\ inbox[c] # <<>>
    BY <1>0, <1>3, OwnerIsZygote DEF HandleAction
  <2>2. Owner(c) \notin entered => Head(inbox[c]) # "WRITE_STATUS" /\ Silent(Tail(inbox[c]))
    BY <2>1, SilentLists DEF RiruInv
  <2> QED  BY <1>0, <1>3, <2>1, <2>2 DEF HandleAction, RiruInv
<1>4. ASSUME UNCHANGED <<pc, entered, inbox, recorded>> PROVE RiruInv'
  BY <1>4 DEF RiruInv
<1>5. ASSUME NEW c \in busy, EndTask(c) \/ Throw(c) PROVE UNCHANGED <<pc, entered, inbox, recorded>>
  BY <1>5 DEF EndTask, Throw, End, loaderVars
<1>6. ASSUME Accept \/ BeginTask \/ StopServer \/ RestartServer \/ StartServer \/ UNCHANGED vars
      PROVE  UNCHANGED <<pc, entered, inbox, recorded>>
  BY <1>6 DEF Accept, BeginTask, StopServer, RestartServer, StartServer, loaderVars, serverVars, vars
<1> QED  BY <1>1, <1>2, <1>3, <1>4, <1>5, <1>6 DEF Next

\* For any zygotes and pool, whoever dies and whenever the server is stopped: rirud records
\* only processes whose loader called init of libriru.so, and such a loader was recorded
\* before it is through with the native bridge, unless a handler threw.
THEOREM StatusBeforeBridgeAlways == Spec => []StatusBeforeBridge
<1>1. Init => SessionInv
  BY DEF Init, SessionInv, Session, Final, Conns, Loader
<1>r. (Init => RiruInv) /\ (TypeOK /\ RiruInv /\ [Next]_vars => RiruInv')
  <2>1. Init => RiruInv
    BY DEF Init, RiruInv, Silent
  <2> QED  BY <2>1, RiruStep
<1>2. TypeOK /\ OrderInv /\ SessionInv /\ [Next]_vars => SessionInv'
  <2> SUFFICES ASSUME TypeOK, OrderInv, SessionInv, [Next]_vars, HasNativeBridge, throws' = 0,
                      NEW x \in Zygotes
               PROVE  Session(x)'
    BY DEF SessionInv
  <2>1. throws \in Nat
    BY ServerAssumption DEF TypeOK
  <2>2. throws = 0
    <3>1. throws' = throws \/ throws' = throws + 1
      BY DEF Next, LoaderStep, Connect, Fail, NoRiru, AskBridge, ReadModules, LoadModules, LoadFails, ModuleRead,
             ModuleDone, WriteStatus, ReadNativeBridge, OnlyLoader, Die, Accept, BeginTask,
             HandleAction, EndTask, Throw, StopServer, RestartServer, StartServer, vars
    <3> QED  BY <2>1, <3>1
  <2>3. \A z \in Zygotes : Session(z)
    BY <2>2 DEF SessionInv
  <2>4. CASE UNCHANGED vars
    BY <2>3, <2>4 DEF Session, Asked, vars, loaderVars, serverVars
  <2> QED  BY <2>3, <2>4, LoaderKeepsSession, ServerKeepsSession, OthersKeepSession DEF Next
<1>3. TypeOK /\ SessionInv /\ RiruInv => StatusBeforeBridge
  BY ServerAssumption DEF TypeOK, SessionInv, RiruInv, Session, StatusBeforeBridge
<1>4. Init => OrderInv
  BY OrderHolds
<1>5. TypeOK /\ OrderInv /\ [Next]_vars => OrderInv'
  BY OrderHolds
<1> QED  BY <1>1, <1>2, <1>3, <1>4, <1>5, <1>r, TypeCorrect, PTL DEF Spec
=============================================================================
