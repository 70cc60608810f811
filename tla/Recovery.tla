------------------------------ MODULE Recovery ------------------------------
(***************************************************************************)
(* The recovery of an interrupted Attempt from a Checkpoint                *)
(* (RecoveryCoordinator.recover, packages/workflow-kernel/src/recovery.ts) *)
(* and the recording of Checkpoints (CheckpointCoordinator.maybeRecord,    *)
(* packages/workflow-kernel/src/checkpointing.ts), over the commands of    *)
(* one Run of the module WorkflowKernel.                                   *)
(*                                                                         *)
(* A coordinator reads the Run once, asks the external reconcilers, and    *)
(* then sends up to three commands that it chose from what it had read.    *)
(* Coordinators, the Checkpoint recorder and the Run's owner interleave    *)
(* between the commands; a coordinator may die, lose an answer or be told  *)
(* CURSOR_CONFLICT after each of them and be called again.                 *)
(*                                                                         *)
(* An operation is bound to one Attempt identity: a request is the name of *)
(* the Attempt it asks for.  Retries (RETRY_ATTEMPT) and receipts of       *)
(* checks, gates and reviews do not take part.                             *)
(***************************************************************************)
EXTENDS WorkflowKernel

CONSTANTS
    Coordinators,   \* calls of recover that may be under way at once
    Names,          \* Attempt identities recovery requests ask for
    Proof,          \* the Evidence that captureEvidence returns
    MaxAborts,      \* bound on interruptions and on refused reconciliations
    Nobody          \* the name of no request; nothing captured

ASSUME RecoveryAssumption ==
    /\ Proof \in EvidenceIds
    /\ Nobody \notin Names
    /\ MaxAborts \in Nat
    /\ 1..(MaxCheckpoints + MaxIterations) \subseteq ObservationIds

VARIABLES
    names,      \* names[n]: the request Attempt n was started for
    live,       \* Attempts whose process tree or Writer Lease is not final
    pc,         \* the next step of each coordinator
    request,    \* the name and the Checkpoint a coordinator was called with
    view,       \* what it read of the Run when it was called
    evidence,   \* the Evidence it captured
    captured,   \* what the Checkpoint recorder captured, or Nobody
    recovered,  \* every RECOVERED decision that was returned
    aborts      \* interruptions so far

kernel == vars
memory == <<pc, request, view, evidence>>
recoveryVars == <<kernel, names, live, memory, captured, recovered, aborts>>

Goto(p, label) == pc' = [pc EXCEPT ![p] = label]

\* The call is over; nothing it remembered is kept.
Idle == [name |-> Nobody, checkpoint |-> 0]
Blank == [own |-> 0, previous |-> 0, exits |-> {}, final |-> 0]
Forget(p) ==
    /\ Goto(p, "idle")
    /\ request' = [request EXCEPT ![p] = Idle]
    /\ view' = [view EXCEPT ![p] = Blank]
    /\ evidence' = [evidence EXCEPT ![p] = Proof]

RecoveryInit ==
    /\ Init
    /\ names = <<>> /\ live = {}
    /\ pc = [p \in Coordinators |-> "idle"]
    /\ request = [p \in Coordinators |-> Idle]
    /\ view = [p \in Coordinators |-> Blank]
    /\ evidence = [p \in Coordinators |-> Proof]
    /\ captured = Nobody /\ recovered = {} /\ aborts = 0

-----------------------------------------------------------------------------
(* The Run's owner and its processes.                                      *)

OwnerCreates ==
    /\ CreateRun(TRUE, "PLANNED", TRUE)
    /\ UNCHANGED <<names, live, memory, captured, recovered, aborts>>

OwnerStarts ==
    /\ Accepting
    /\ \E t \in Times : StartAttempt(t)
    /\ names' = <<Nobody>> /\ live' = {1}
    /\ UNCHANGED <<memory, captured, recovered, aborts>>

\* What the engine reports of an Attempt, once at most.
OwnerObserves ==
    /\ Accepting
    /\ \E n \in DOMAIN attempts :
         \E o \in {[kind |-> "AGENT_RETURNED", evidence |-> {}]} \cup
                  [kind : {"PROCESS_EXITED"}, evidence : SUBSET (EvidenceIds \ {Proof})] :
             RecordObservation([id |-> MaxCheckpoints + n, attempt |-> n,
                                kind |-> o.kind, evidence |-> o.evidence])
    /\ UNCHANGED <<names, live, memory, captured, recovered, aborts>>

OwnerCancels ==
    /\ Accepting
    /\ \E t \in Times : CancelRun(t)
    /\ UNCHANGED <<names, live, memory, captured, recovered, aborts>>

\* The last process of Attempt n is gone and its leases are released.
Ends(n) ==
    /\ n \in live
    /\ live' = live \ {n}
    /\ UNCHANGED <<kernel, names, memory, captured, recovered, aborts>>

-----------------------------------------------------------------------------
(* CheckpointCoordinator.maybeRecord                                       *)

AlreadyCurrent ==
    checkpoints # <<>> /\ eventCursor = checkpoints[Len(checkpoints)].cursor + 1

\* The Run is read and its processes and leases are captured; the thresholds
\* may or may not be reached.
CaptureCheckpoint ==
    /\ captured = Nobody /\ Len(checkpoints) < MaxCheckpoints
    /\ attempts # <<>> /\ ~AlreadyCurrent
    /\ captured' = [attempt |-> Current, cursor |-> eventCursor]
    /\ UNCHANGED <<kernel, names, live, memory, recovered, aborts>>

\* RECORD_CHECKPOINT; the kernel refuses a capture the Run has overtaken.
CommitCheckpoint ==
    /\ captured # Nobody
    /\ \E h \in Holdings, t \in Times :
         LET c == [attempt |-> captured.attempt, cursor |-> captured.cursor,
                   holdings |-> h, createdAt |-> t]
         IN  \/ Accepting /\ RecordCheckpoint(c)
             \/ ~(Accepting /\ CheckpointAllowed(c)) /\ UNCHANGED kernel
    /\ captured' = Nobody
    /\ UNCHANGED <<names, live, memory, recovered, aborts>>

-----------------------------------------------------------------------------
(* RecoveryCoordinator.recover                                             *)

\* Zero stands for undefined in what a coordinator reads.
IndexOf(name) == IF \E n \in DOMAIN names : names[n] = name
                 THEN CHOOSE n \in DOMAIN names : names[n] = name ELSE 0
FinalCheckpoint(n) == IF Finalised(n)
                      THEN (CHOOSE f \in finalities : f.attempt = n).checkpoint ELSE 0
ExitEvidence(n) ==
    UNION {o.evidence : o \in {x \in observations :
                                  x.attempt = n /\ x.kind = "PROCESS_EXITED"}}

\* kernel.recover: the Checkpoint and one reading of its Run.
Begin(p, name, k) ==
    /\ pc[p] = "idle" /\ k \in DOMAIN checkpoints
    /\ request' = [request EXCEPT ![p] = [name |-> name, checkpoint |-> k]]
    /\ view' = [view EXCEPT ![p] =
           [own |-> IndexOf(name), previous |-> Current,
            exits |-> ExitEvidence(Current), final |-> FinalCheckpoint(Current)]]
    /\ Goto(p, "reconcile")
    /\ UNCHANGED <<kernel, names, live, evidence, captured, recovered, aborts>>

Asked(p) == request[p].checkpoint
Interrupted(p) == view[p].previous

\* Mutant: reconcilers that are unavailable are taken for passing.
Reconciled_Unavailable(p) == TRUE

\* The Attempt of the Checkpoint is final outside the kernel.  The receipt that
\* says so is the same at every call: the attempt finality store keeps it.
Reconciled(p) == checkpoints[Asked(p)].attempt \notin live

\* Mutant: the Checkpoint of an earlier recovery is not compared.
Replays_AnyCheckpoint(p) == view[p].own # 0

\* The request was carried out before, from the same Checkpoint.
Replays(p) ==
    /\ view[p].own # 0
    /\ attempts[view[p].own].recoveryCheckpoint = Asked(p)
    /\ attempts[view[p].own].previous = checkpoints[Asked(p)].attempt

\* Mutant: a Finality Receipt for another Checkpoint is accepted.
FinalityAgrees_Any(p) == TRUE

FinalityAgrees(p) == view[p].final \in {0, Asked(p)}

\* Mutant: every call captures Evidence with an identity of its own.
Captures_Anew(p) ==
    \E e \in EvidenceIds : evidence' = [evidence EXCEPT ![p] = e]

Captures(p) == evidence' = [evidence EXCEPT ![p] = Proof]

Return(p, n) ==
    /\ recovered' = recovered \cup
           {[name |-> request[p].name, checkpoint |-> Asked(p), attempt |-> n]}
    /\ Forget(p)

\* The reconcilers pass, and the coordinator goes on with what it has read.
Proceed(p) ==
    /\ pc[p] = "reconcile"
    /\ Reconciled(p)
    /\ view[p].own = 0
    /\ checkpoints[Asked(p)].attempt = Interrupted(p)
    /\ FinalityAgrees(p)
    /\ Captures(p) /\ Goto(p, "observe")
    /\ UNCHANGED <<kernel, names, live, request, view, captured, recovered, aborts>>

Replay(p) ==
    /\ pc[p] = "reconcile"
    /\ Reconciled(p)
    /\ Replays(p)
    /\ Return(p, view[p].own)
    /\ UNCHANGED <<kernel, names, live, captured, aborts>>

\* NOT_PROVEN, or an error: the reconcilers do not pass, the request changed,
\* the Checkpoint is not of the latest Attempt, or its finality disagrees.
Refuse(p) ==
    /\ pc[p] = "reconcile"
    /\ \/ ~Reconciled(p)
       \/ IF view[p].own # 0 THEN ~Replays(p)
          ELSE checkpoints[Asked(p)].attempt # Interrupted(p) \/ ~FinalityAgrees(p)
    /\ Forget(p)
    /\ UNCHANGED <<kernel, names, live, captured, recovered, aborts>>

\* A rejected command is an error of the call.
Rejected(p) == Forget(p) /\ UNCHANGED kernel

Exit(p) == [id |-> Asked(p), attempt |-> Interrupted(p),
            kind |-> "PROCESS_EXITED", evidence |-> {evidence[p]}]

\* RECORD_OBSERVATION, unless one with this Evidence was read.
SendObservation(p) ==
    /\ pc[p] = "observe"
    /\ IF evidence[p] \in view[p].exits
       THEN Goto(p, "finalise") /\ UNCHANGED <<kernel, request, view, evidence>>
       ELSE \/ /\ Accepting /\ RecordObservation(Exit(p))
               /\ Goto(p, "finalise") /\ UNCHANGED <<request, view, evidence>>
            \/ ~(Accepting /\ ObservationAllowed(Exit(p))) /\ Rejected(p)
    /\ UNCHANGED <<names, live, captured, recovered, aborts>>

\* RECORD_ATTEMPT_FINALITY, unless a receipt was read.
SendFinality(p) ==
    /\ pc[p] = "finalise"
    /\ \E t \in Times :
         LET f == [attempt |-> Interrupted(p), checkpoint |-> Asked(p),
                   holdings |-> checkpoints[Asked(p)].holdings, observedAt |-> t]
         IN  IF view[p].final # 0
             THEN Goto(p, "recover") /\ UNCHANGED <<kernel, request, view, evidence>>
             ELSE \/ /\ Accepting /\ RecordAttemptFinality(f)
                     /\ Goto(p, "recover") /\ UNCHANGED <<request, view, evidence>>
                  \/ ~(Accepting /\ FinalityAllowed(f)) /\ Rejected(p)
    /\ UNCHANGED <<names, live, captured, recovered, aborts>>

\* What the kernel demands of a RECOVER_ATTEMPT, the new identity included.
RecoverAllowed(name, req) ==
    /\ name \notin {names[n] : n \in DOMAIN names}
    /\ ContinuationAllowed(req) /\ RecoveryFinal(req)
    /\ req.recoveryCheckpoint \in CheckpointsOf(req.previous)
    /\ RecoveryEvidenceBound(req)

\* RECOVER_ATTEMPT starts the new Attempt; its processes follow.
SendRecover(p) ==
    /\ pc[p] = "recover"
    /\ \E f \in Fingerprints, t \in Times :
         LET name == request[p].name
             req == [previous |-> Interrupted(p), failure |-> f,
                     evidence |-> {evidence[p]}, recoveryCheckpoint |-> Asked(p),
                     userInputRequired |-> FALSE, workspaceDriftDetected |-> FALSE,
                     elapsedMs |-> 0, remaining |-> ResourceBudget, startedAt |-> t]
         IN  \/ /\ Accepting /\ RecoverAllowed(name, req) /\ RecoverAttempt(req)
                /\ names' = Append(names, name) /\ live' = live \cup {Current + 1}
                /\ Goto(p, "answer") /\ UNCHANGED <<request, view, evidence>>
             \/ /\ ~(Accepting /\ RecoverAllowed(name, req)) /\ Rejected(p)
                /\ UNCHANGED <<names, live>>
    /\ UNCHANGED <<captured, recovered, aborts>>

\* The durable kernel reads the Run again to project it, and the last Attempt
\* of that projection is the one the decision names.
AnswerRecovered(p) ==
    /\ pc[p] = "answer"
    /\ Return(p, Current)
    /\ UNCHANGED <<kernel, names, live, captured, aborts>>

\* The call dies, a command is lost, its answer is lost after it took effect,
\* it loses the race for the cursor, or a reconciler does not answer.
Abort(p) ==
    /\ pc[p] # "idle" /\ aborts < MaxAborts
    /\ aborts' = aborts + 1
    /\ Forget(p)
    /\ UNCHANGED <<kernel, names, live, captured, recovered>>

-----------------------------------------------------------------------------

Step(p) ==
    \/ Proceed(p) \/ Replay(p) \/ Refuse(p)
    \/ SendObservation(p) \/ SendFinality(p) \/ SendRecover(p) \/ AnswerRecovered(p)

Owner ==
    \/ OwnerCreates \/ OwnerStarts \/ OwnerObserves \/ OwnerCancels
    \/ \E n \in AttemptIndex : Ends(n)

RecoveryNext ==
    \/ Owner \/ CaptureCheckpoint \/ CommitCheckpoint
    \/ \E p \in Coordinators :
          \/ \E name \in Names, k \in 1..MaxCheckpoints : Begin(p, name, k)
          \/ Step(p) \/ Abort(p)

RecoverySpec == RecoveryInit /\ [][RecoveryNext]_recoveryVars

\* Somebody keeps asking for the recovery of the latest Attempt, with an
\* identity not used before and from the latest Checkpoint.
AskLatest(p) ==
    \E name \in Names, k \in 1..MaxCheckpoints :
        /\ IndexOf(name) = 0 /\ IsLatestCheckpoint(Current, k)
        /\ Begin(p, name, k)

Fairness == \A p \in Coordinators :
                WF_recoveryVars(Step(p)) /\ SF_recoveryVars(AskLatest(p))

FairSpec == RecoverySpec /\ Fairness /\ WF_recoveryVars(CommitCheckpoint)

-----------------------------------------------------------------------------
(* Properties.                                                             *)

\* Two Attempts never own processes or Writer Leases at once: an Attempt
\* starts only when everything its predecessors held is final outside the
\* kernel, whatever the coordinator read before it sent its commands.
SafeHandover == live \subseteq {Current}

\* A recovered Attempt continues from the last Checkpoint of its predecessor,
\* the one the Finality Receipt binds, even when a coordinator was called with
\* an older one or another Checkpoint was recorded while it worked.
RecoversFromLatestCheckpoint ==
    \A n \in DOMAIN attempts : n > 1 =>
        /\ IsLatestCheckpoint(n - 1, attempts[n].recoveryCheckpoint)
        /\ FinalCheckpoint(n - 1) = attempts[n].recoveryCheckpoint

\* A request that was told RECOVERED has exactly one Attempt, started from the
\* Checkpoint it named, however often and by whomever it was repeated.
RecoveredAsAsked ==
    \A r \in recovered : \E n \in DOMAIN names :
        /\ names[n] = r.name
        /\ attempts[n].recoveryCheckpoint = r.checkpoint
        /\ \A m \in DOMAIN names : names[m] = r.name => m = n

\* A recovery starts one Attempt, from the Checkpoint that is the right one
\* and the one that was asked for (recoverInterruptedAttempt).
RecoveryIsExact == RecoversFromLatestCheckpoint /\ RecoveredAsAsked

\* RECOVERED names the Attempt that the request asked for
\* (test/task9-recovery.test.ts:431).
AnswersOwnAttempt ==
    \A r \in recovered : names[r.attempt] = r.name

\* Interruptions between the three commands do not strand the Run: while an
\* iteration is left, an Attempt whose processes are final and that has a
\* Checkpoint is continued as long as somebody asks, or the Run is cancelled.
RecoveryResumes ==
    \A n \in 1..(MaxIterations - 1) :
        (Current = n /\ n \notin live /\ CheckpointsOf(n) # {})
            ~> (Current > n \/ cancelled)
=============================================================================
