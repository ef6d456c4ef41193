--------------------------- MODULE FileContextProofs ---------------------------
(***************************************************************************)
(* Proofs about FileContext, for any threads, files and plan of checks:    *)
(* type correctness, that what a finished thread serves was reset where it *)
(* can be, and that no alarm is raised without a cause.                    *)
(***************************************************************************)
EXTENDS FileContext, TLAPS

\* The files of a sequence of checks.
FilesIn(checks) == UNION {ToSet(checks[i]) : i \in DOMAIN checks}

\* A thread that checks has checks left, and one that resets a file has that file left,
\* has failed its check, and has noted the file.
Busy ==
  \A t \in Threads :
    /\ pc[t] # "read" => todo[t] # <<>>
    /\ pc[t] = "reset" => /\ Head(todo[t]) # <<>> /\ ~result[t]
                          /\ Head(Head(todo[t])) \in found

\* A file of the plan is still to be checked, or right, or cannot be reset.
Progress ==
  \A t \in Threads : \A f \in FilesOf(t) :
    f \in FilesIn(todo[t]) \/ context[f] = "right" \/ f \notin fixable

\* The flag, and every copy of it, is FALSE only after a wrong context was found.
Caused ==
  \A t \in Threads : (~fileContext \/ ~read[t] \/ ~result[t]) => found # {}

FlagCaused == ~fileContext => found # {}

IInv == TypeOK /\ Busy /\ Progress /\ Caused /\ FlagCaused

-----------------------------------------------------------------------------
(* Sequences of checks. *)

\* Dropping the first file of the first check drops that file only.
LEMMA DropFile ==
  ASSUME NEW q \in Seq(Seq(Files)), q # <<>>, Head(q) # <<>>,
         NEW r, r = <<Tail(Head(q))>> \o Tail(q)
  PROVE  /\ r \in Seq(Seq(Files)) /\ r # <<>>
         /\ Head(Head(q)) \in Files
         /\ \A f \in FilesIn(q) : f = Head(Head(q)) \/ f \in FilesIn(r)
<1>0. PICK c : c = Head(q)
  OBVIOUS
<1>1. /\ c \in Seq(Files) /\ Tail(q) \in Seq(Seq(Files)) /\ c = q[1]
      /\ Len(q) \in Nat /\ Len(q) >= 1 /\ Len(Tail(q)) = Len(q) - 1
      /\ DOMAIN q = 1..Len(q)
  BY <1>0
<1>2. /\ Tail(c) \in Seq(Files) /\ c[1] \in Files /\ Head(c) = c[1]
      /\ Len(c) \in Nat /\ Len(c) >= 1 /\ Len(Tail(c)) = Len(c) - 1 /\ DOMAIN c = 1..Len(c)
      /\ DOMAIN Tail(c) = 1..Len(c) - 1
      /\ \A j \in 1..Len(c) - 1 : Tail(c)[j] = c[j + 1]
  BY <1>0, <1>1
<1>3. <<Tail(c)>> \in Seq(Seq(Files)) /\ Len(<<Tail(c)>>) = 1 /\ <<Tail(c)>>[1] = Tail(c)
  BY <1>2
<1>4. r = <<Tail(c)>> \o Tail(q)
  BY <1>0
<1>5. r \in Seq(Seq(Files)) /\ Len(r) = Len(q) /\ r[1] = Tail(c) /\ DOMAIN r = 1..Len(q)
  BY <1>1, <1>3, <1>4
<1>6. \A i \in 2..Len(q) : r[i] = q[i]
  <2> TAKE i \in 2..Len(q)
  <2>1. r[i] = Tail(q)[i - 1]
    BY <1>1, <1>3, <1>4
  <2>2. Tail(q)[i - 1] = q[i]
    BY <1>1
  <2> QED  BY <2>1, <2>2
<1>7. \A f \in FilesIn(q) : f = Head(c) \/ f \in FilesIn(r)
  <2> TAKE f \in FilesIn(q)
  <2>1. PICK i \in 1..Len(q) : f \in ToSet(q[i])
    BY <1>1 DEF FilesIn
  <2>2. CASE i = 1
    <3>1. PICK j \in 1..Len(c) : f = c[j]
      BY <2>1, <2>2, <1>1, <1>2 DEF ToSet
    <3>2. CASE j = 1
      BY <3>1, <3>2, <1>2
    <3>3. CASE j # 1
      <4>1. j - 1 \in DOMAIN Tail(c) /\ Tail(c)[j - 1] = f
        BY <3>1, <3>3, <1>2
      <4>2. f \in ToSet(r[1])
        BY <4>1, <1>5 DEF ToSet
      <4>3. 1 \in DOMAIN r
        BY <1>1, <1>5
      <4> QED  BY <4>2, <4>3 DEF FilesIn
    <3> QED  BY <3>2, <3>3
  <2>3. CASE i # 1
    <3>1. i \in DOMAIN r /\ r[i] = q[i]
      BY <2>3, <1>1, <1>5, <1>6
    <3> QED  BY <2>1, <3>1 DEF FilesIn
  <2> QED  BY <2>2, <2>3
<1>8. r # <<>>
  BY <1>1, <1>5
<1> QED  BY <1>0, <1>2, <1>5, <1>7, <1>8

\* Dropping a first check without files drops no file.
LEMMA DropCheck ==
  ASSUME NEW q \in Seq(Seq(Files)), q # <<>>, Head(q) = <<>>
  PROVE  /\ Tail(q) \in Seq(Seq(Files))
         /\ FilesIn(q) \subseteq FilesIn(Tail(q))
<1>1. /\ Tail(q) \in Seq(Seq(Files)) /\ Len(q) \in Nat /\ Len(q) >= 1
      /\ DOMAIN q = 1..Len(q) /\ DOMAIN Tail(q) = 1..Len(q) - 1 /\ q[1] = <<>>
      /\ \A i \in 1..Len(q) - 1 : Tail(q)[i] = q[i + 1]
  OBVIOUS
<1>2. ASSUME NEW f \in FilesIn(q) PROVE f \in FilesIn(Tail(q))
  <2>1. PICK i \in 1..Len(q) : f \in ToSet(q[i])
    BY <1>1 DEF FilesIn
  <2>2. i # 1
    BY <2>1, <1>1 DEF ToSet
  <2>3. i - 1 \in DOMAIN Tail(q) /\ Tail(q)[i - 1] = q[i]
    BY <2>2, <1>1
  <2> QED  BY <2>1, <2>3 DEF FilesIn
<1> QED  BY <1>1, <1>2

-----------------------------------------------------------------------------
(* The invariant. *)

\* The invariant holds at the start.
LEMMA InitIInv == Init => IInv
<1> SUFFICES ASSUME Init PROVE IInv
  OBVIOUS
<1>1. TypeOK
  BY PlanAssumption DEF Init, TypeOK
<1>2. Progress
  BY DEF Init, Progress, FilesOf, FilesIn
<1> QED  BY <1>1, <1>2 DEF Init, IInv, Busy, Caused, FlagCaused

\* Reading the flag keeps the invariant.
LEMMA ReadFlagKeeps ==
  ASSUME IInv, NEW t \in Threads, ReadFlag(t) PROVE IInv'
<1> USE DEF IInv, ReadFlag
<1>1. TypeOK'
  BY DEF TypeOK
<1>2. Busy'
  BY DEF TypeOK, Busy, Done
<1>3. Progress'
  BY DEF Progress
<1>4. Caused' /\ FlagCaused'
  BY DEF TypeOK, Caused, FlagCaused
<1> QED  BY <1>1, <1>2, <1>3, <1>4

\* Checking a file keeps the invariant.
LEMMA CheckFileKeeps ==
  ASSUME IInv, NEW t \in Threads, CheckFile(t) PROVE IInv'
<1> USE DEF IInv
<1>0. /\ todo[t] \in Seq(Seq(Files)) /\ todo[t] # <<>> /\ Head(todo[t]) # <<>>
      /\ pc[t] = "check"
  BY DEF TypeOK, Busy, CheckFile
<1>1. CASE context[Head(Head(todo[t]))] = "right"
  <2>1. PICK r : /\ r = <<Tail(Head(todo[t]))>> \o Tail(todo[t])
                 /\ todo' = [todo EXCEPT ![t] = r]
                 /\ UNCHANGED <<fileContext, context, fixable, pc, read, result, found>>
    BY <1>1 DEF CheckFile
  <2>2. /\ r \in Seq(Seq(Files)) /\ r # <<>>
        /\ \A f \in FilesIn(todo[t]) : f = Head(Head(todo[t])) \/ f \in FilesIn(r)
    BY <1>0, <2>1, DropFile
  <2>3. todo'[t] = r /\ \A u \in Threads \ {t} : todo'[u] = todo[u]
    BY <2>1 DEF TypeOK
  <2>4. TypeOK'
    BY <2>1, <2>2 DEF TypeOK
  <2>5. Busy'
    BY <1>0, <2>1, <2>2, <2>3 DEF Busy
  <2>6. Progress'
    BY <1>1, <2>1, <2>2, <2>3 DEF Progress
  <2> QED  BY <2>1, <2>4, <2>5, <2>6 DEF Caused, FlagCaused
<1>2. CASE context[Head(Head(todo[t]))] # "right"
  <2>0. Head(Head(todo[t])) \in Files
    BY <1>0, DropFile
  <2>1. /\ pc' = [pc EXCEPT ![t] = "reset"] /\ result' = [result EXCEPT ![t] = FALSE]
        /\ found' = found \cup {Head(Head(todo[t]))}
        /\ UNCHANGED <<fileContext, context, fixable, read, todo>>
    BY <1>2 DEF CheckFile
  <2>2. TypeOK'
    BY <2>0, <2>1 DEF TypeOK
  <2>3. Busy'
    BY <1>0, <2>1 DEF Busy, TypeOK
  <2>4. Progress'
    BY <2>1 DEF Progress
  <2>5. Caused' /\ FlagCaused'
    BY <2>1 DEF Caused, FlagCaused
  <2> QED  BY <2>2, <2>3, <2>4, <2>5
<1> QED  BY <1>1, <1>2

\* Resetting a file keeps the invariant.
LEMMA ResetFileKeeps ==
  ASSUME IInv, NEW t \in Threads, ResetFile(t) PROVE IInv'
<1> USE DEF IInv
<1>0. /\ todo[t] \in Seq(Seq(Files)) /\ todo[t] # <<>> /\ Head(todo[t]) # <<>>
      /\ pc[t] = "reset"
  BY DEF TypeOK, Busy, ResetFile
<1>1. PICK r, file :
        /\ r = <<Tail(Head(todo[t]))>> \o Tail(todo[t])
        /\ file = Head(Head(todo[t]))
        /\ todo' = [todo EXCEPT ![t] = r]
        /\ pc' = [pc EXCEPT ![t] = "check"]
        /\ context' = IF file \in fixable THEN [context EXCEPT ![file] = "right"] ELSE context
        /\ UNCHANGED <<fileContext, fixable, read, result, found>>
  BY DEF ResetFile
<1>2. /\ r \in Seq(Seq(Files)) /\ r # <<>> /\ file \in Files
      /\ \A f \in FilesIn(todo[t]) : f = file \/ f \in FilesIn(r)
  BY <1>0, <1>1, DropFile
<1>3. /\ todo'[t] = r /\ pc'[t] = "check"
      /\ \A u \in Threads \ {t} : todo'[u] = todo[u] /\ pc'[u] = pc[u]
  BY <1>1 DEF TypeOK
<1>4. /\ \A f \in Files : context[f] = "right" => context'[f] = "right"
      /\ context'[file] = "right" \/ file \notin fixable
  BY <1>1, <1>2 DEF TypeOK
<1>5. TypeOK'
  BY <1>1, <1>2 DEF TypeOK
<1>6. Busy'
  BY <1>1, <1>2, <1>3 DEF Busy
<1>7. Progress'
  <2> SUFFICES ASSUME NEW u \in Threads, NEW f \in FilesOf(u)
               PROVE f \in FilesIn(todo'[u]) \/ context'[f] = "right" \/ f \notin fixable
    BY <1>1 DEF Progress
  <2>1. f \in Files
    <3>1. PICK i \in DOMAIN Plan[u] : f \in ToSet(Plan[u][i])
      BY DEF FilesOf
    <3>2. Plan[u] \in Seq(Seq(Files))
      BY PlanAssumption
    <3>3. Plan[u][i] \in Seq(Files)
      BY <3>2
    <3> QED  BY <3>1, <3>3 DEF ToSet
  <2>2. f \in FilesIn(todo[u]) \/ context[f] = "right" \/ f \notin fixable
    BY DEF Progress
  <2> QED  BY <1>2, <1>3, <1>4, <2>1, <2>2
<1>8. Caused' /\ FlagCaused'
  BY <1>1 DEF Caused, FlagCaused
<1> QED  BY <1>5, <1>6, <1>7, <1>8

\* Writing the flag keeps the invariant.
LEMMA WriteFlagKeeps ==
  ASSUME IInv, NEW t \in Threads, WriteFlag(t) PROVE IInv'
<1> USE DEF IInv
<1>0. /\ todo[t] \in Seq(Seq(Files)) /\ todo[t] # <<>> /\ Head(todo[t]) = <<>>
      /\ fileContext' = (read[t] /\ result[t])
      /\ pc' = [pc EXCEPT ![t] = "read"]
      /\ todo' = [todo EXCEPT ![t] = Tail(todo[t])]
      /\ UNCHANGED <<context, fixable, read, result, found>>
  BY DEF TypeOK, Busy, WriteFlag
<1>1. Tail(todo[t]) \in Seq(Seq(Files)) /\ FilesIn(todo[t]) \subseteq FilesIn(Tail(todo[t]))
  BY <1>0, DropCheck
<1>2. /\ todo'[t] = Tail(todo[t]) /\ pc'[t] = "read"
      /\ \A u \in Threads \ {t} : todo'[u] = todo[u] /\ pc'[u] = pc[u]
  BY <1>0 DEF TypeOK
<1>3. TypeOK'
  <2>1. fileContext' \in BOOLEAN
    BY <1>0 DEF TypeOK
  <2> QED  BY <1>0, <1>1, <2>1 DEF TypeOK
<1>4. Busy'
  BY <1>0, <1>2 DEF Busy
<1>5. Progress'
  BY <1>0, <1>1, <1>2 DEF Progress
<1>6. FlagCaused'
  <2>1. CASE read[t] /\ result[t]
    BY <1>0, <2>1 DEF FlagCaused
  <2>2. CASE ~read[t] \/ ~result[t]
    BY <1>0, <2>2 DEF FlagCaused, Caused
  <2> QED  BY <2>1, <2>2
<1>7. Caused'
  BY <1>0, <1>6 DEF Caused, FlagCaused
<1> QED  BY <1>3, <1>4, <1>5, <1>6, <1>7

\* The invariant holds in every behaviour.
LEMMA IInvAlways == Spec => []IInv
<1>1. ASSUME IInv, [Next]_vars PROVE IInv'
  <2>1. CASE UNCHANGED vars
    BY <1>1, <2>1 DEF vars, IInv, TypeOK, Busy, Progress, Caused, FlagCaused
  <2>2. ASSUME NEW t \in Threads, ReadFlag(t) \/ CheckFile(t) \/ ResetFile(t) \/ WriteFlag(t)
        PROVE IInv'
    BY <1>1, <2>2, ReadFlagKeeps, CheckFileKeeps, ResetFileKeeps, WriteFlagKeeps
  <2> QED  BY <1>1, <2>1, <2>2 DEF Next
<1> QED  BY InitIInv, <1>1, PTL DEF Spec

-----------------------------------------------------------------------------
(* The theorems. *)

\* Every variable keeps its type.
THEOREM TypeCorrect == Spec => []TypeOK
<1>1. IInv => TypeOK
  BY DEF IInv
<1> QED  BY <1>1, IInvAlways, PTL

\* A thread is done when its plan is used up: then each of its files is right, or cannot
\* be reset.
LEMMA ProgressServes == IInv => ServedFilesReset
<1> SUFFICES ASSUME IInv, NEW t \in Threads, Done(t), NEW f \in FilesOf(t)
             PROVE context[f] = "right" \/ f \notin fixable
  BY DEF ServedFilesReset
<1>1. FilesIn(todo[t]) = {}
  BY DEF Done, FilesIn
<1> QED  BY <1>1 DEF IInv, Progress

\* What an ABI's loader is given names only files whose context was reset where it can
\* be, whatever the three threads do to the directories they share.
THEOREM ServedFilesResetAlways == Spec => []ServedFilesReset
BY ProgressServes, IInvAlways, PTL

\* bad_file_context is never reported for files that were all right.
THEOREM NoFalseAlarmAlways == Spec => []NoFalseAlarm
<1>1. IInv => NoFalseAlarm
  BY DEF IInv, FlagCaused, NoFalseAlarm
<1> QED  BY <1>1, IInvAlways, PTL
=============================================================================
