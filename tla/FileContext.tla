----------------------------- MODULE FileContext -----------------------------
(***************************************************************************)
(* DaemonUtils.fileContext: did rirud find a file with a wrong SELinux     *)
(* context?  The thread that runs init checks the files of Riru while two  *)
(* pool threads collect the 32 and the 64 bit modules and check theirs;    *)
(* all of them run "fileContext &= check..." on one plain static field,    *)
(* which reads the field, checks files for a long while, and writes back.  *)
(***************************************************************************)
EXTENDS Naturals, Sequences, SequencesExt, FiniteSets

CONSTANTS
  Threads,  \* init, modules, modules64: those the ABIs of the device give
  Files,    \* files and directories that are checked
  Plan      \* Plan[t]: the checks thread t makes, each the sequence of its files

ASSUME PlanAssumption == Plan \in [Threads -> Seq(Seq(Files))]

VARIABLES
  fileContext,  \* the flag
  context,      \* SELinux context of each file: right or wrong
  fixable,      \* files whose context setFileContext can reset
  pc, todo,     \* per thread: what it does, and the checks left
  read, result, \* per thread: the operand of &= read before the check, and the check's result
  found         \* history: files some thread saw with a wrong context

vars == <<fileContext, context, fixable, pc, todo, read, result, found>>

FilesOf(t) == UNION {ToSet(Plan[t][i]) : i \in DOMAIN Plan[t]}

TypeOK ==
  /\ fileContext \in BOOLEAN
  /\ context \in [Files -> {"right", "wrong"}]
  /\ fixable \subseteq Files
  /\ pc \in [Threads -> {"read", "check", "reset"}]
  /\ todo \in [Threads -> Seq(Seq(Files))]
  /\ read \in [Threads -> BOOLEAN] /\ result \in [Threads -> BOOLEAN]
  /\ found \subseteq Files

Init ==
  /\ fileContext = TRUE
  /\ context \in [Files -> {"right", "wrong"}]
  /\ fixable \in SUBSET Files
  /\ pc = [t \in Threads |-> "read"]
  /\ todo = Plan
  /\ read = [t \in Threads |-> TRUE] /\ result = [t \in Threads |-> TRUE]
  /\ found = {}

Done(t) == todo[t] = <<>>

\* The left operand of &= is read before the check runs.
ReadFlag(t) ==
  /\ pc[t] = "read" /\ ~Done(t)
  /\ pc' = [pc EXCEPT ![t] = "check"]
  /\ read' = [read EXCEPT ![t] = fileContext]
  /\ result' = [result EXCEPT ![t] = TRUE]
  /\ UNCHANGED <<fileContext, context, fixable, todo, found>>

\* Mutant: the context is noted instead of the file.
CheckFileNotesContext(t) ==
  /\ pc[t] = "check" /\ Head(todo[t]) # <<>>
  /\ IF context[Head(Head(todo[t]))] = "right"
     THEN /\ todo' = [todo EXCEPT ![t] = <<Tail(Head(@))>> \o Tail(@)]
          /\ UNCHANGED <<pc, result, found>>
     ELSE /\ pc' = [pc EXCEPT ![t] = "reset"]
          /\ result' = [result EXCEPT ![t] = FALSE]
          /\ found' = found \cup {"wrong"}
          /\ todo' = todo
  /\ UNCHANGED <<fileContext, context, fixable, read>>

\* checkAndResetContextForFile on the next file of the check.
CheckFile(t) ==
  /\ pc[t] = "check" /\ Head(todo[t]) # <<>>
  /\ LET file == Head(Head(todo[t]))
     IN IF context[file] = "right"
        THEN /\ todo' = [todo EXCEPT ![t] = <<Tail(Head(@))>> \o Tail(@)]
             /\ UNCHANGED <<pc, result, found>>
        ELSE /\ pc' = [pc EXCEPT ![t] = "reset"]
             /\ result' = [result EXCEPT ![t] = FALSE]
             /\ found' = found \cup {file}
             /\ todo' = todo
  /\ UNCHANGED <<fileContext, context, fixable, read>>

\* Mutant: the context is reported and not reset.
ReportOnly(t) ==
  /\ pc[t] = "reset"
  /\ pc' = [pc EXCEPT ![t] = "check"]
  /\ todo' = [todo EXCEPT ![t] = <<Tail(Head(@))>> \o Tail(@)]
  /\ UNCHANGED <<context, fileContext, fixable, read, result, found>>

ResetFile(t) ==
  /\ pc[t] = "reset"
  /\ pc' = [pc EXCEPT ![t] = "check"]
  /\ LET file == Head(Head(todo[t]))
     IN context' = IF file \in fixable THEN [context EXCEPT ![file] = "right"] ELSE context
  /\ todo' = [todo EXCEPT ![t] = <<Tail(Head(@))>> \o Tail(@)]
  /\ UNCHANGED <<fileContext, fixable, read, result, found>>

WriteFlag(t) ==
  /\ pc[t] = "check" /\ Head(todo[t]) = <<>>
  /\ fileContext' = (read[t] /\ result[t])
  /\ pc' = [pc EXCEPT ![t] = "read"]
  /\ todo' = [todo EXCEPT ![t] = Tail(@)]
  /\ UNCHANGED <<context, fixable, read, result, found>>

Next == \E t \in Threads : ReadFlag(t) \/ CheckFile(t) \/ ResetFile(t) \/ WriteFlag(t)

Spec == Init /\ [][Next]_vars
-----------------------------------------------------------------------------

\* The list of modules an ABI's loader gets (its FutureTask is done) names only files
\* whose context is right, or cannot be reset: also when another thread is still
\* resetting the directories both ABIs share.
ServedFilesReset ==
  \A t \in Threads : Done(t) => \A f \in FilesOf(t) : context[f] = "right" \/ f \notin fixable

\* The status bad_file_context is never shown for files that were all right.
NoFalseAlarm == ~fileContext => found # {}

\* Once all checks are done, a wrong context that was found is reported (changelog
\* v26.0.2: "Report if the SELinux context of the module files are incorrect").
BadContextReported == (\A t \in Threads : Done(t)) /\ found # {} => ~fileContext
=============================================================================
