---------------------------- MODULE ManagedChange ---------------------------
(***************************************************************************)
(* runRealManagedChange (packages/managed-change/src/real-change.ts): one  *)
(* bounded Agent Attempt in the operator's repository, an independent      *)
(* check, at most one more Attempt (a fixback after a failed check, or a   *)
(* recovery after a proven interruption), a review, and GO or STOP.        *)
(*                                                                         *)
(* Several changes compete for one workspace.  A change writes under a     *)
(* lease, which a recovery gives up and takes again; it compares exact     *)
(* working-tree fingerprints where it resumes.  The Run is reduced to what *)
(* the flow reads of it (WorkflowKernel has the rest), the pilot journal   *)
(* to the durable send reservation.  The operator does not edit the tree   *)
(* while a change runs, and clears it only between changes.                *)
(***************************************************************************)
EXTENDS Naturals, FiniteSets

CONSTANTS Changes,    \* change requests for the one workspace
          PilotTasks, \* those that run as pilot tasks, with a send reservation
          MaxEdits,   \* bound on working-tree states
          MaxFails    \* bound on flows that end by an error or a crash

ASSUME ChangeAssumption ==
    "NONE" \notin Changes /\ PilotTasks \subseteq Changes /\ MaxEdits \in Nat /\ MaxFails \in Nat

VARIABLES
    workspace,  \* [version, by, good, scoped]: the working tree; version 0 is clean
    writer,     \* the change that holds the writer lease, or "NONE"
    flow,       \* [Changes -> the local state of runRealManagedChange]
    durableRun, \* [Changes -> what the durable projection of the Run shows]
    reserved,   \* pilot changes whose Provider send is durably reserved
    sends,      \* [Changes -> Seq: Provider sends of Attempt 1 and 2]
    edits, fails

changeVars == <<workspace, writer, flow, durableRun, reserved, sends, edits, fails>>

CleanTree == [version |-> 0, by |-> {}, good |-> FALSE, scoped |-> TRUE]
NewFlow == [pc |-> "PREFLIGHT", attempt |-> 0, expected |-> 0, kept |-> TRUE,
            verified |-> [version |-> 0, pass |-> FALSE], result |-> "NONE"]

ChangeInit ==
    /\ workspace = CleanTree
    /\ writer = "NONE"
    /\ flow = [c \in Changes |-> NewFlow]
    /\ durableRun = [c \in Changes |-> "NONE"]
    /\ reserved = {}
    /\ sends = [c \in Changes |-> [a \in {1, 2} |-> 0]]
    /\ edits = 0 /\ fails = 0

In(c, pc) == flow[c].pc = pc
Move(c, pc) == flow' = [flow EXCEPT ![c].pc = pc]
Keep(vs) == UNCHANGED vs

(* The Agent, or a command that should only check, leaves the tree as it is  *)
(* or makes it a state of its own.                                           *)
Touched(c) ==
    \/ workspace' = workspace /\ edits' = edits
    \/ /\ edits < MaxEdits
       /\ edits' = edits + 1
       /\ \E good, scoped \in BOOLEAN :
             workspace' = [version |-> edits + 1, by |-> workspace.by \cup {c},
                           good |-> good, scoped |-> workspace.scoped /\ scoped]

Preflight(c) ==
    /\ In(c, "PREFLIGHT") /\ workspace.version = 0
    /\ Move(c, "PLANNED")
    /\ Keep(<<workspace, writer, durableRun, reserved, sends, edits, fails>>)

AcquireRealWriterLease(c, from, to) ==
    /\ In(c, from) /\ writer = "NONE"
    /\ writer' = c
    /\ Move(c, to)
    /\ Keep(<<workspace, durableRun, reserved, sends, edits, fails>>)

\* Mutant: the journal of the pilot is not asked.
ExactDurablePreSend_ProjectionOnly(c) == durableRun[c] = "PRE_SEND" /\ c \in PilotTasks
(* assertExactDurablePreSendAttempt and the pilot's own journal.             *)
ExactDurablePreSend(c) ==
    durableRun[c] = "PRE_SEND" /\ c \in PilotTasks /\ c \notin reserved

StartRun(c) ==
    /\ In(c, "LOCKED") /\ workspace.version = 0
    /\ durableRun[c] = "NONE" \/ ExactDurablePreSend(c)
    /\ durableRun' = [durableRun EXCEPT ![c] = "PRE_SEND"]
    /\ flow' = [flow EXCEPT ![c].pc = "READY_TO_SEND", ![c].attempt = 1]
    /\ Keep(<<workspace, writer, reserved, sends, edits, fails>>)

\* Mutant: only the commit is compared.
WorkspaceAsExpected_SameCommit(c) == TRUE
(* assertTargetReadyForAgent before Attempt 1, assertExactWorkspaceState     *)
(* before Attempt 2.                                                         *)
WorkspaceAsExpected(c) == workspace.version = flow[c].expected

(* The reservation is durable before the send; the observations of the       *)
(* Agent reach the Run only after it has ended.                              *)
RunAgent(c) ==
    /\ In(c, "READY_TO_SEND") /\ WorkspaceAsExpected(c)
    /\ reserved' = reserved \cup ({c} \cap PilotTasks)
    /\ sends' = [sends EXCEPT ![c][flow[c].attempt] = @ + 1]
    /\ Touched(c)
    /\ Move(c, "SENT")
    /\ Keep(<<writer, durableRun, fails>>)
AgentEnds(c) ==
    /\ In(c, "SENT")
    /\ durableRun' = [durableRun EXCEPT ![c] = "OBSERVED"]
    /\ \/ Move(c, "RETURNED")
       \/ flow[c].attempt = 1 /\ c \in PilotTasks /\ Move(c, "INTERRUPTED")
    /\ Keep(<<workspace, writer, reserved, sends, edits, fails>>)

(* Checkpoint, lease release, finality, then RECOVER with an unchanged tree. *)
CheckpointInterrupted(c) ==
    /\ In(c, "INTERRUPTED") /\ writer = c
    /\ flow' = [flow EXCEPT ![c].pc = "CHECKPOINTED", ![c].expected = workspace.version]
    /\ writer' = "NONE"
    /\ Keep(<<workspace, durableRun, reserved, sends, edits, fails>>)
RecoverInterrupted(c) ==
    /\ In(c, "CHECKPOINTED") /\ workspace.version = flow[c].expected
    /\ durableRun' = [durableRun EXCEPT ![c] = "RECOVERED"]
    /\ flow' = [flow EXCEPT ![c].pc = "UNLOCKED", ![c].attempt = 2]
    /\ Keep(<<workspace, writer, reserved, sends, edits, fails>>)

Verify(c) ==
    /\ In(c, "RETURNED")
    /\ \E pass \in {workspace.good, FALSE} :
          /\ Touched(c)
          /\ durableRun' = [durableRun EXCEPT ![c] = IF pass THEN "REVIEWING" ELSE "VERIFY_FAILED"]
          /\ flow' = [flow EXCEPT ![c] =
                [@ EXCEPT !.pc = "VERIFIED",
                          !.verified = [version |-> workspace.version, pass |-> pass],
                          !.kept = @ /\ workspace'.version = workspace.version]]
    /\ Keep(<<writer, reserved, sends, fails>>)

(* and the Provider reserve for a fixback is there, which the review does    *)
(* not need: both may follow a failed check.                                 *)
MayRetry(c) ==
    flow[c].attempt = 1 /\ ~flow[c].verified.pass /\ flow[c].kept
RetryAttempt(c) ==
    /\ In(c, "VERIFIED") /\ MayRetry(c)
    /\ durableRun' = [durableRun EXCEPT ![c] = "RETRIED"]
    /\ flow' = [flow EXCEPT ![c] = [@ EXCEPT !.pc = "READY_TO_SEND", !.attempt = 2,
                                             !.expected = workspace.version]]
    /\ Keep(<<workspace, writer, reserved, sends, edits, fails>>)

(* resourceAccounting.status is PASS, or the Agents used too much, or nobody *)
(* can say how much.                                                         *)
Accountings == BOOLEAN
(* The findings of the deterministic review but those about the accounting.  *)
NoFindings(c) ==
    /\ flow[c].kept
    /\ workspace.version # 0
    /\ workspace.scoped
(* correctnessPassed                                                         *)
CorrectnessPassed(c, accounted) ==
    flow[c].verified.pass /\ NoFindings(c) /\ accounted

(* The lease is released after the review, and GO follows from both.         *)
Review(c, accounted) ==
    /\ In(c, "VERIFIED")
    /\ LET go == CorrectnessPassed(c, accounted)
       IN  /\ durableRun' = [durableRun EXCEPT ![c] = IF go THEN "READY" ELSE "STOPPED"]
           /\ flow' = [flow EXCEPT ![c].pc = "DONE",
                                   ![c].result = IF go THEN "GO" ELSE "STOP"]
    /\ writer' = "NONE"
    /\ Keep(<<workspace, reserved, sends, edits, fails>>)

(* What the flow finds wrong where it resumes ends it, and the lease with it.*)
ChangeRefused(c) ==
    /\ \/ In(c, "LOCKED") /\ (workspace.version # 0 \/ ~(durableRun[c] = "NONE" \/ ExactDurablePreSend(c)))
       \/ In(c, "READY_TO_SEND") /\ ~WorkspaceAsExpected(c)
       \/ In(c, "CHECKPOINTED") /\ workspace.version # flow[c].expected
       \/ flow[c].pc \in {"PLANNED", "UNLOCKED"} /\ writer # "NONE"
    /\ Move(c, "REFUSED")
    /\ writer' = IF writer = c THEN "NONE" ELSE writer
    /\ Keep(<<workspace, durableRun, reserved, sends, edits, fails>>)

(* An error ends the flow and its finally releases the lease; a crash does   *)
(* not.  Either way the same request may be run again.                       *)
FlowFails(c) ==
    /\ flow[c].pc \notin {"PREFLIGHT", "DONE", "REFUSED", "DEAD"} /\ fails < MaxFails
    /\ fails' = fails + 1
    /\ \/ /\ flow' = [flow EXCEPT ![c] = NewFlow]
          /\ writer' = IF writer = c THEN "NONE" ELSE writer
       \/ /\ writer = c /\ Move(c, "DEAD") /\ UNCHANGED writer
    /\ Keep(<<workspace, durableRun, reserved, sends, edits>>)

OperatorClears ==
    /\ workspace.version # 0
    /\ \A c \in Changes : flow[c].pc \in {"PREFLIGHT", "DONE", "REFUSED"}
    /\ workspace' = CleanTree
    /\ Keep(<<writer, flow, durableRun, reserved, sends, edits, fails>>)

ChangeStep(c) ==
    \/ Preflight(c)
    \/ AcquireRealWriterLease(c, "PLANNED", "LOCKED")
    \/ StartRun(c) \/ RunAgent(c) \/ AgentEnds(c)
    \/ CheckpointInterrupted(c) \/ RecoverInterrupted(c)
    \/ AcquireRealWriterLease(c, "UNLOCKED", "READY_TO_SEND")
    \/ Verify(c) \/ RetryAttempt(c)
    \/ \E accounted \in Accountings : Review(c, accounted)
    \/ ChangeRefused(c) \/ FlowFails(c)
ChangeNext == OperatorClears \/ \E c \in Changes : ChangeStep(c)
ChangeSpec == ChangeInit /\ [][ChangeNext]_changeVars

-----------------------------------------------------------------------------
(* GO is about one tree: what the operator finds is what the check passed    *)
(* on in this Run, in scope, and nobody but this change has written to it    *)
(* since it was clean, although a recovery gives the lease up in between     *)
(* (runRealManagedChange, assertExactWorkspaceState).                        *)
GoMeansVerified ==
    \A c \in Changes :
        In(c, "VERIFIED") /\ (\E accounted \in Accountings : CorrectnessPassed(c, accounted)) =>
            /\ workspace.version = flow[c].verified.version
            /\ workspace.good /\ workspace.scoped
            /\ workspace.by = {c}

(* No Attempt sends to the Provider twice, although an error after the send  *)
(* leaves the durable Run as it was before it (runAgent,                     *)
(* assertExactDurablePreSendAttempt, assertDurablePreSendRetryable).         *)
NoSecondSend == \A c \in Changes, a \in {1, 2} : sends[c][a] =< 1

(* GO is earned, by one send of each Attempt (runRealManagedChange).         *)
ChangeIsSound == GoMeansVerified /\ NoSecondSend
=============================================================================
