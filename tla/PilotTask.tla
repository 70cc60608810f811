------------------------------ MODULE PilotTask ------------------------------
(***************************************************************************)
(* A Pi process in one directory: the qualified process adapter            *)
(* (packages/pi-host qualified-pi-process.ts) as a managed change attempt  *)
(* calls it, and the pilot's quick task and raw comparator around it       *)
(* (packages/pilot), which bind a repository, hold its writer lease, let Pi*)
(* work and have the result accepted by an independent command             *)
(* (packages/verification).  Both leases are files: the death of their     *)
(* owner does not free them.  Anybody may edit the directory at any time.  *)
(* Every edit is a content not seen before: a path that returns to an      *)
(* earlier content between two inspections is out of the model.            *)
(***************************************************************************)
EXTENDS Naturals, Sequences, FiniteSets

CONSTANTS Tasks,           \* calls in the one directory
          Duties,          \* set of [Tasks -> "QUICK", "RAW" or "CHANGE"]
          MaxTaskMishaps   \* bound: edits, failed calls and dead callers together

ASSUME TaskAssumption == "NONE" \notin Tasks

VARIABLES duty,       \* [Tasks -> kind of call]
          folder,     \* the directory: [Parts -> content]; "head" is HEAD
          repoWriter, \* the task with the repository writer lease, or "NONE"
          slot,       \* the task with the process lease of the directory, or "NONE"
          errand,     \* [Tasks -> local state]
          piTree,     \* tasks whose Pi process tree has a process
          checkTree,  \* tasks whose acceptance command has a process
          checked,    \* [Tasks -> the trees the acceptance command ran on]
          taskFaults

taskVars == <<duty, folder, repoWriter, slot, errand, piTree, checkTree, checked, taskFaults>>

Paths == {"allowed", "other"}
Parts == Paths \cup {"head"}
Unread == {"unread"}
NoSnapshot == [head |-> 0, status |-> {}, digest |-> [p \in {} |-> 0]]

Enters(kind) == IF kind = "CHANGE" THEN "LEASE" ELSE "BEFORE"
TaskInit ==
    /\ duty \in Duties
    /\ folder = [p \in Parts |-> 0]
    /\ repoWriter = "NONE" /\ slot = "NONE"
    /\ errand = [t \in Tasks |-> [pc |-> Enters(duty[t]), status |-> Unread, accept |-> NoSnapshot,
                 after |-> NoSnapshot, started |-> "NO", final |-> FALSE,
                 config |-> FALSE, exit |-> "NONE", verdict |-> "NONE", returns |-> FALSE]]
    /\ piTree = {} /\ checkTree = {} /\ checked = [t \in Tasks |-> {}] /\ taskFaults = 0

TaskAt(t, pc) == errand[t].pc = pc
TaskTo(t, pc) == errand' = [errand EXCEPT ![t].pc = pc]
Mishaps == taskFaults + folder["allowed"] + folder["other"] + folder["head"]
Faulty == Mishaps < MaxTaskMishaps /\ taskFaults' = taskFaults + 1
(* A throw, to the finally of the caller that holds the writer lease.        *)
AfterThrow(t) == IF duty[t] = "CHANGE" THEN "FAILED" ELSE "UNWIND"
Throws(t) == TaskTo(t, AfterThrow(t))

-----------------------------------------------------------------------------
(* inspectRepository: the status is read first, then HEAD and the content of *)
(* the paths the status names.                                               *)

ChangedPaths == {p \in Paths : folder[p] > 0}
ReadStatus(t) ==
    /\ errand[t].pc \in {"BEFORE", "LOCKED", "ACCEPT", "AFTER"}
    /\ errand[t].status = Unread
    /\ errand' = [errand EXCEPT ![t].status = ChangedPaths]
    /\ UNCHANGED <<duty, folder, repoWriter, slot, piTree, checkTree, checked, taskFaults>>

Fingerprinted(status) == [p \in status |-> folder[p]]
Inspected(t) ==
    [head |-> folder["head"], status |-> errand[t].status, digest |-> Fingerprinted(errand[t].status)]
InspectedAt(t, pc) == TaskAt(t, pc) /\ errand[t].status # Unread
GoesOn(t, pc) == errand' = [errand EXCEPT ![t].pc = pc, ![t].status = Unread]

(* assertFrozenBinding: the frozen base and a clean working tree.            *)
FrozenBinding(s) == s.head = 0 /\ s.status = {}

BindTask(t) ==
    /\ InspectedAt(t, "BEFORE")
    /\ IF FrozenBinding(Inspected(t)) THEN GoesOn(t, "WRITER") ELSE GoesOn(t, "FAILED")
    /\ UNCHANGED <<duty, folder, repoWriter, slot, piTree, checkTree, checked, taskFaults>>
AcquireWriter(t) ==
    /\ TaskAt(t, "WRITER")
    /\ IF repoWriter = "NONE" THEN repoWriter' = t /\ TaskTo(t, "LOCKED")
                          ELSE TaskTo(t, "FAILED") /\ UNCHANGED repoWriter
    /\ UNCHANGED <<duty, folder, slot, piTree, checkTree, checked, taskFaults>>
BindAgain(t) ==
    /\ InspectedAt(t, "LOCKED")
    /\ GoesOn(t, IF FrozenBinding(Inspected(t)) THEN "LEASE" ELSE "UNWIND")
    /\ UNCHANGED <<duty, folder, repoWriter, slot, piTree, checkTree, checked, taskFaults>>

(* An inspection may throw: git fails, a changed path is no regular file.  So*)
(* may the observation of the command, before or after its process.          *)
InspectionThrows(t) ==
    /\ errand[t].pc \in {"BEFORE", "LOCKED", "ACCEPT", "CHECK", "AFTER"}
    /\ Faulty /\ GoesOn(t, IF TaskAt(t, "BEFORE") THEN "FAILED" ELSE "UNWIND")
    /\ UNCHANGED <<duty, folder, repoWriter, slot, piTree, checkTree, checked>>

-----------------------------------------------------------------------------
(* createQualifiedPiJsonProcess                                              *)

AcquireSlot(t) ==
    /\ TaskAt(t, "LEASE")
    /\ IF slot = "NONE" THEN slot' = t /\ TaskTo(t, "CONFIG") ELSE Throws(t) /\ UNCHANGED slot
    /\ UNCHANGED <<duty, folder, repoWriter, piTree, checkTree, checked, taskFaults>>
(* prepareQualifiedPiRuntimeSnapshot removes what it made before it throws,  *)
(* or cannot.                                                                *)
SnapshotConfiguration(t) ==
    /\ TaskAt(t, "CONFIG")
    /\ \/ errand' = [errand EXCEPT ![t].pc = "SEND", ![t].config = TRUE] /\ UNCHANGED taskFaults
       \/ Faulty /\ TaskTo(t, "CLEAN_LEASE")
    /\ UNCHANGED <<duty, folder, repoWriter, slot, piTree, checkTree, checked>>
(* beforeExternalOperation: the caller may refuse the send.                  *)
AuthorizeTask(t) ==
    /\ TaskAt(t, "SEND")
    /\ \/ TaskTo(t, "SPAWN") /\ UNCHANGED taskFaults
       \/ Faulty /\ TaskTo(t, "CLEAN_LEASE")
    /\ UNCHANGED <<duty, folder, repoWriter, slot, piTree, checkTree, checked>>
(* host.start rejects with or without a process left behind.                 *)
StartPi(t) ==
    /\ TaskAt(t, "SPAWN")
    /\ \/ /\ errand' = [errand EXCEPT ![t].started = "YES", ![t].pc =
                        IF duty[t] = "CHANGE" THEN "MARKER" ELSE "AWAIT"]
          /\ piTree' = piTree \cup {t} /\ UNCHANGED taskFaults
       \/ /\ Faulty
          /\ errand' = [errand EXCEPT ![t].started = "REJECTED", ![t].pc = "CLEAN_LEASE"]
          /\ piTree' \in {piTree, piTree \cup {t}}
    /\ UNCHANGED <<duty, folder, repoWriter, slot, checkTree, checked>>

(* hasExactManagedProcessFinality: the driver proves an empty tree or it     *)
(* proves nothing.                                                           *)
ExactFinality(t) == t \notin piTree

(* A forced interruption: the marker, then an acknowledged cancel.  Without  *)
(* either (deadline, Pi ended first, no acknowledgement) the call fails, but *)
(* first it cancels Pi itself and waits.                                     *)
ObserveMarker(t) ==
    /\ TaskAt(t, "MARKER")
    /\ \/ t \in piTree /\ TaskTo(t, "AWAIT")
       \/ TaskTo(t, "CLEANUP")
       \/ TaskTo(t, "AWAIT")               \* no interruption was asked for
    /\ UNCHANGED <<duty, folder, repoWriter, slot, piTree, checkTree, checked, taskFaults>>
FinalizeAfterFailure(t) ==
    /\ TaskAt(t, "CLEANUP")
    /\ \/ /\ ExactFinality(t)
          /\ errand' = [errand EXCEPT ![t].final = TRUE, ![t].pc = "CLEAN_LEASE"]
          /\ UNCHANGED taskFaults
       \/ Faulty /\ TaskTo(t, "CLEAN_LEASE")
    /\ UNCHANGED <<duty, folder, repoWriter, slot, piTree, checkTree, checked>>

(* However the process ended, its usage is accounted exactly or not at all.  *)
Exits == {"ACCOUNTED", "NO_USAGE"}
AwaitPi(t) ==
    /\ TaskAt(t, "AWAIT")
    /\ \/ /\ ExactFinality(t)
          /\ \E e \in Exits : errand' = [errand EXCEPT ![t].final = TRUE, ![t].exit = e,
                                         ![t].returns = TRUE, ![t].pc = "FREE_LEASE"]
          /\ UNCHANGED taskFaults
       \/ /\ Faulty                        \* the output cannot be read
          /\ ExactFinality(t)
          /\ errand' = [errand EXCEPT ![t].final = TRUE, ![t].pc = "CLEAN_LEASE"]
       \/ Faulty /\ TaskTo(t, "CLEAN_LEASE")      \* finality is not proven
    /\ UNCHANGED <<duty, folder, repoWriter, slot, piTree, checkTree, checked>>

FreeSlot(t) ==
    /\ TaskAt(t, "FREE_LEASE")
    /\ \/ slot' = "NONE" /\ TaskTo(t, "CLEAN_CONFIG") /\ UNCHANGED taskFaults
       \/ /\ Faulty /\ UNCHANGED slot
          /\ errand' = [errand EXCEPT ![t].pc = "CLEAN_LEASE", ![t].returns = FALSE]
    /\ UNCHANGED <<duty, folder, repoWriter, piTree, checkTree, checked>>

\* Mutant: the lease and the configuration always go.
SafeToRelease_Always(t) == TRUE
(* finally: nothing was started, or what was started is known to be gone.    *)
SafeToRelease(t) == errand[t].started # "YES" \/ errand[t].final
CleanSlot(t) ==
    /\ TaskAt(t, "CLEAN_LEASE")
    /\ IF SafeToRelease(t)
         THEN /\ TaskTo(t, "CLEAN_CONFIG")
              /\ \/ slot' = "NONE" /\ UNCHANGED taskFaults
                 \/ UNCHANGED slot /\ Faulty
         ELSE Throws(t) /\ UNCHANGED <<slot, taskFaults>>
    /\ UNCHANGED <<duty, folder, repoWriter, piTree, checkTree, checked>>
CleanConfiguration(t) ==
    /\ TaskAt(t, "CLEAN_CONFIG")
    /\ LET next == IF ~errand[t].returns THEN AfterThrow(t)
                   ELSE IF duty[t] = "CHANGE" THEN "DONE" ELSE "ACCEPT"
       IN \/ /\ errand' = [errand EXCEPT ![t].pc = next, ![t].config = FALSE]
             /\ UNCHANGED taskFaults
          \/ Faulty /\ errand[t].config /\ Throws(t)
    /\ UNCHANGED <<duty, folder, repoWriter, slot, piTree, checkTree, checked>>

-----------------------------------------------------------------------------
(* Independent acceptance: observeControlledCommand with the qualified       *)
(* runner, between two inspections                                           *)

BeforeAcceptance(t) ==
    /\ InspectedAt(t, "ACCEPT")
    /\ errand' = [errand EXCEPT ![t].accept = Inspected(t), ![t].pc = "CHECK", ![t].status = Unread]
    /\ UNCHANGED <<duty, folder, repoWriter, slot, piTree, checkTree, checked, taskFaults>>
StartCheck(t) ==
    /\ TaskAt(t, "CHECK")
    /\ checked' = [checked EXCEPT ![t] = {folder}]
    /\ \/ /\ TaskTo(t, "CHECKING") /\ checkTree' = checkTree \cup {t} /\ UNCHANGED taskFaults
       \/ /\ Faulty
          /\ errand' = [errand EXCEPT ![t].verdict = "NOT_PROVEN", ![t].pc = "AFTER"]
          /\ checkTree' \in {checkTree, checkTree \cup {t}}
    /\ UNCHANGED <<duty, folder, repoWriter, slot, piTree>>
(* Exit status, but only of a process tree that is finished and whole.       *)
EndCheck(t) ==
    /\ TaskAt(t, "CHECKING")
    /\ \E v \in {"PASS", "FAIL", "NOT_PROVEN"} :
          /\ v # "NOT_PROVEN" => t \notin checkTree
          /\ errand' = [errand EXCEPT ![t].verdict = v, ![t].pc = "AFTER"]
          /\ IF v = "NOT_PROVEN" THEN Faulty ELSE UNCHANGED taskFaults
    /\ UNCHANGED <<duty, folder, repoWriter, slot, piTree, checkTree, checked>>
AfterAcceptance(t) ==
    /\ InspectedAt(t, "AFTER")
    /\ errand' = [errand EXCEPT ![t].after = Inspected(t), ![t].pc = "FREE_WRITER", ![t].status = Unread]
    /\ UNCHANGED <<duty, folder, repoWriter, slot, piTree, checkTree, checked, taskFaults>>

\* Mutant: the same paths are changed as before the command.
WorkspacePreserved_Paths(t) == errand[t].after.status = errand[t].accept.status
WorkspacePreserved(t) ==
    /\ errand[t].after.status = errand[t].accept.status
    /\ errand[t].after.digest = errand[t].accept.digest
WithinScope(t) == errand[t].after.status = {"allowed"}
SourcePreserved(t) == errand[t].after.head = 0
Acceptance(t) ==
    IF SourcePreserved(t) /\ WithinScope(t) /\ WorkspacePreserved(t) THEN errand[t].verdict ELSE "FAIL"

ReleaseWriter(t) ==
    /\ TaskAt(t, "FREE_WRITER")
    /\ \/ repoWriter' = "NONE" /\ TaskTo(t, "RECEIPT") /\ UNCHANGED taskFaults
       \/ Faulty /\ Throws(t) /\ UNCHANGED repoWriter
    /\ UNCHANGED <<duty, folder, slot, piTree, checkTree, checked>>
IssueReceipt(t) ==
    /\ TaskAt(t, "RECEIPT")
    /\ errand' = [errand EXCEPT ![t].pc = IF errand[t].exit = "NO_USAGE" THEN "FAILED" ELSE "DONE",
                              ![t].verdict = Acceptance(t)]
    /\ UNCHANGED <<duty, folder, repoWriter, slot, piTree, checkTree, checked, taskFaults>>
(* finally: the writer lease goes, whatever became of the process.           *)
UnwindWriter(t) ==
    /\ TaskAt(t, "UNWIND") /\ TaskTo(t, "FAILED")
    /\ \/ repoWriter' = "NONE" /\ UNCHANGED taskFaults
       \/ UNCHANGED repoWriter /\ Faulty
    /\ UNCHANGED <<duty, folder, slot, piTree, checkTree, checked>>

-----------------------------------------------------------------------------
(* Everybody else                                                            *)

EditTree(p) ==
    /\ Mishaps < MaxTaskMishaps
    /\ folder' = [folder EXCEPT ![p] = @ + 1]
    /\ checked' = [t \in Tasks |-> IF TaskAt(t, "CHECKING") THEN checked[t] \cup {folder'} ELSE checked[t]]
    /\ UNCHANGED <<duty, repoWriter, slot, errand, piTree, checkTree, taskFaults>>
ProcessesEnd(t) ==
    /\ \/ t \in piTree /\ piTree' = piTree \ {t} /\ UNCHANGED checkTree
       \/ t \in checkTree /\ checkTree' = checkTree \ {t} /\ UNCHANGED piTree
    /\ UNCHANGED <<duty, folder, repoWriter, slot, errand, checked, taskFaults>>
Ended == {"DONE", "FAILED", "DEAD"}
CallerDies(t) ==
    /\ errand[t].pc \notin Ended
    /\ Faulty /\ TaskTo(t, "DEAD")
    /\ UNCHANGED <<duty, folder, repoWriter, slot, piTree, checkTree, checked>>

TaskNext ==
    \/ \E t \in Tasks :
         \/ ReadStatus(t) \/ BindTask(t) \/ AcquireWriter(t) \/ BindAgain(t)
         \/ InspectionThrows(t)
         \/ AcquireSlot(t) \/ SnapshotConfiguration(t) \/ AuthorizeTask(t) \/ StartPi(t)
         \/ ObserveMarker(t) \/ FinalizeAfterFailure(t) \/ AwaitPi(t)
         \/ FreeSlot(t) \/ CleanSlot(t) \/ CleanConfiguration(t)
         \/ BeforeAcceptance(t) \/ StartCheck(t) \/ EndCheck(t) \/ AfterAcceptance(t)
         \/ ReleaseWriter(t) \/ IssueReceipt(t) \/ UnwindWriter(t)
         \/ ProcessesEnd(t) \/ CallerDies(t)
    \/ \E p \in Parts : EditTree(p)
TaskSpec == TaskInit /\ [][TaskNext]_taskVars

-----------------------------------------------------------------------------
(* An accepted task is proof about one tree: its Pi is gone, the command was *)
(* gone before the tree was read again, it ran on the very tree the receipt  *)
(* fingerprints, and that tree is the frozen base with changes only in scope *)
(* (runPilotQuickTask, runPilotRawComparator, observeControlledCommand).     *)
Accepted(t) == TaskAt(t, "DONE") /\ errand[t].verdict = "PASS"
PassIsProof ==
    \A t \in Tasks : Accepted(t) =>
        /\ t \notin piTree /\ t \notin checkTree
        /\ \E ran \in checked[t] :
              /\ checked[t] = {ran}
              /\ ran["head"] = 0 /\ ran["other"] = 0 /\ ran["allowed"] > 0
              /\ errand[t].after.digest["allowed"] = ran["allowed"]

(* Two Pi process trees share a directory only if the start of one of them   *)
(* was reported as failed, and a Pi whose start was reported keeps the       *)
(* configuration it runs on, whatever failed or died around it               *)
(* (createQualifiedPiJsonProcess, hasExactManagedProcessFinality).           *)
OnePiPerDirectory ==
    /\ \A s, t \in piTree : s = t \/ "REJECTED" \in {errand[s].started, errand[t].started}
    /\ \A t \in piTree : errand[t].started = "YES" => errand[t].config
=============================================================================
