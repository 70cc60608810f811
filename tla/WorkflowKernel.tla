--------------------------- MODULE WorkflowKernel ---------------------------
(***************************************************************************)
(* One Run of the Workflow Kernel                                          *)
(* (packages/workflow-kernel/src/in-memory-workflow-kernel.ts).            *)
(*                                                                         *)
(* The kernel keeps an event log per Run and replays it before every       *)
(* command; the variables are the facts that replay collects.  A command   *)
(* the kernel rejects throws before it appends, so it is a stuttering step *)
(* and an action is the accepted command.                                  *)
(*                                                                         *)
(* Identities.  Attempts and Checkpoints are named by their position in    *)
(* the log; a caller that reuses an identity is rejected without effect.   *)
(* `bound' says whether a receipt's fingerprints are all those the Plan    *)
(* Revision froze.  A receipt that reports success carries the dummy       *)
(* fingerprint NoFailure and no evidence: the code reads both only from    *)
(* receipts that report a failure.  The six resource budgets are one.      *)
(***************************************************************************)
EXTENDS Integers, Sequences, FiniteSets

CONSTANTS
    RequiredChecks, OptionalChecks,    \* the Plan's declared checks
    RequiredGates, OptionalGates,      \* its human_gate steps
    RequiredReviews, OptionalReviews,  \* its review steps
    AllowedDecisions,                  \* decisions every gate permits
    MaxIterations, MaxElapsedMs, RepeatedFailureLimit, ResourceBudget,
    StopOnUserInput, StopOnWorkspaceDrift,   \* the rest of loopPolicy
    Fingerprints,      \* result fingerprints of failures
    EvidenceIds,
    ObservationIds,
    Holdings,          \* what a Checkpoint names: processes and Writer Leases
    Times,             \* timestamps a caller may supply
    MaxCheckpoints,    \* bound on the number of Checkpoints
    MaxEvents,         \* bound on the length of the event log
    RunStartedAt,
    NoFailure          \* no failure fingerprint

Checks  == RequiredChecks \cup OptionalChecks
Gates   == RequiredGates \cup OptionalGates
Reviews == RequiredReviews \cup OptionalReviews

Decisions == {"APPROVED", "REJECTED", "BLOCKED"}
Outcomes  == {"PASS", "FAIL", "BLOCKED", "NOT_PROVEN"}
ObservationKinds == {"AGENT_RETURNED", "PROCESS_EXITED", "INPUT_REQUESTED"}
TerminalLifecycles == {"READY", "BLOCKED", "FAILED", "CANCELLED", "INCOMPLETE"}

ASSUME PlanAssumption ==
    /\ RequiredChecks # {}
    /\ AllowedDecisions \subseteq Decisions
    /\ RequiredGates # {} => "APPROVED" \in AllowedDecisions
    /\ MaxIterations \in Nat \ {0}
    /\ MaxElapsedMs \in Nat \ {0}
    /\ RepeatedFailureLimit \in Nat \ {0}
    /\ ResourceBudget \in Nat \ {0}
    /\ StopOnUserInput \in BOOLEAN
    /\ StopOnWorkspaceDrift \in BOOLEAN

ASSUME InputAssumption ==
    /\ Times \subseteq Int
    /\ RunStartedAt \in Int
    /\ MaxCheckpoints \in Nat
    /\ MaxEvents \in Nat
    /\ NoFailure \notin Fingerprints

VARIABLES
    attempts,       \* sequence of Attempts
    observations,   \* set of Observations
    finalities,     \* set of Attempt Finality Receipts
    verifications,  \* set of Verification Receipts
    humanReceipts,  \* set of Human Receipts
    reviewReceipts, \* set of Review Receipts
    checkpoints,    \* sequence of Checkpoints
    cancelled,      \* a RUN_CANCELLED event was appended
    archived,       \* a RUN_ARCHIVED event was appended
    eventCursor     \* cursor of the last event, 0 before CREATE_RUN

receipts == <<verifications, humanReceipts, reviewReceipts>>
vars == <<attempts, observations, finalities, receipts, checkpoints,
          cancelled, archived, eventCursor>>

-----------------------------------------------------------------------------
(* The shapes of facts.                                                    *)

AttemptIndex == 1..MaxIterations

Attempts ==
    [previous : 0..MaxIterations, failure : Fingerprints \cup {NoFailure},
     evidence : SUBSET EvidenceIds, recoveryCheckpoint : 0..MaxCheckpoints,
     userInputRequired : BOOLEAN, workspaceDriftDetected : BOOLEAN,
     elapsedMs : 0..(MaxElapsedMs - 1), remaining : 1..ResourceBudget,
     startedAt : Times]

\* Only the evidence of a PROCESS_EXITED Observation is ever read.
Observations ==
    {o \in [id : ObservationIds, attempt : AttemptIndex, kind : ObservationKinds,
            evidence : SUBSET EvidenceIds] :
        o.kind # "PROCESS_EXITED" => o.evidence = {}}

Failing(r) == r.failure \in Fingerprints /\ r.evidence # {}
Passing(r) == r.failure = NoFailure /\ r.evidence = {}

VerificationReceipts ==
    {r \in [attempt : AttemptIndex, check : Checks, outcome : Outcomes,
            failure : Fingerprints \cup {NoFailure},
            evidence : SUBSET EvidenceIds, bound : BOOLEAN] :
        IF r.outcome = "PASS" THEN Passing(r) ELSE Failing(r)}

HumanReceipts ==
    {r \in [attempt : AttemptIndex, step : Gates, decision : Decisions,
            failure : Fingerprints \cup {NoFailure},
            evidence : SUBSET EvidenceIds, bound : BOOLEAN] :
        IF r.decision = "APPROVED" THEN Passing(r) ELSE Failing(r)}

\* severe: some finding has severity P0 or P1
ReviewReceipts ==
    {r \in [attempt : AttemptIndex, step : Reviews, outcome : Outcomes,
            severe : BOOLEAN, failure : Fingerprints \cup {NoFailure},
            evidence : SUBSET EvidenceIds, bound : BOOLEAN] :
        IF r.outcome = "PASS" /\ ~r.severe THEN Passing(r) ELSE Failing(r)}

Finalities ==
    [attempt : AttemptIndex, checkpoint : 1..MaxCheckpoints,
     holdings : Holdings, observedAt : Times]

\* attempt = 0: a Checkpoint taken before any Attempt
Checkpoints ==
    [attempt : 0..MaxIterations, cursor : Nat, holdings : Holdings,
     createdAt : Times]

-----------------------------------------------------------------------------
(* Statuses derived from the facts at every replay.                        *)

Current == Len(attempts)

Observed(a, kind) == \E o \in observations : o.attempt = a /\ o.kind = kind

\* executionStatusAfterObservation folded over a's Observations: the result
\* does not depend on their order, because RETURNED absorbs PROCESS_EXITED.
ExecutionStatus(a) ==
    IF Observed(a, "AGENT_RETURNED") THEN "RETURNED"
    ELSE IF Observed(a, "PROCESS_EXITED") THEN "INCOMPLETE"
    ELSE "RUNNING"

Ended(a) == ExecutionStatus(a) # "RUNNING"

\* Mutant: receipts of superseded Attempts count.
RequiredReceipts_AnyAttempt(a) == {r \in verifications : r.check \in RequiredChecks}

\* The receipts verificationStatusFor reads for Attempt a.
RequiredReceipts(a) ==
    {r \in verifications : r.attempt = a /\ r.check \in RequiredChecks}

VerificationStatus(a) ==
    LET Some(outcome) == \E r \in RequiredReceipts(a) : r.outcome = outcome
    IN  IF Some("FAIL") THEN "FAILED"
        ELSE IF Some("BLOCKED") THEN "BLOCKED"
        ELSE IF Some("NOT_PROVEN") THEN "NOT_PROVEN"
        ELSE IF \A c \in RequiredChecks :
                    \E r \in RequiredReceipts(a) : r.check = c
             THEN "PASSED"
        ELSE IF Ended(a) THEN "PENDING" ELSE "NOT_READY"

\* Mutant: an approval given to another Attempt opens the gate.
HumanGatesSatisfied_AnyAttempt(a) ==
    \A g \in RequiredGates : \E r \in humanReceipts :
        r.step = g /\ r.bound /\ r.decision = "APPROVED"

HumanGatesSatisfied(a) ==
    \A g \in RequiredGates : \E r \in humanReceipts :
        /\ r.attempt = a /\ r.step = g /\ r.bound
        /\ r.decision = "APPROVED" /\ "APPROVED" \in AllowedDecisions

ReviewSatisfied(a) ==
    \A s \in RequiredReviews : \E r \in reviewReceipts :
        /\ r.attempt = a /\ r.step = s /\ r.bound
        /\ r.outcome = "PASS" /\ ~r.severe

\* The bound receipts of required gates and reviews.
GateReceipts(a) ==
    {r \in humanReceipts : /\ r.attempt = a /\ r.step \in RequiredGates
                           /\ r.bound /\ r.decision \in AllowedDecisions}
StepReceipts(a) ==
    {r \in reviewReceipts : r.attempt = a /\ r.step \in RequiredReviews /\ r.bound}

\* Mutant: a blocking finding of a passing review is forgotten.
ExhaustedGateFailureLifecycle_OutcomeOnly(a) ==
    LET decisions == {r.decision : r \in GateReceipts(a)}
        outcomes  == {r.outcome : r \in StepReceipts(a)}
    IN  IF "BLOCKED" \in decisions \cup outcomes THEN "BLOCKED"
        ELSE IF "REJECTED" \in decisions \/ "FAIL" \in outcomes THEN "FAILED"
        ELSE IF "NOT_PROVEN" \in outcomes THEN "INCOMPLETE"
        ELSE "REVIEWING"

\* What a gate decided ends a Run that has no iteration left to answer it.
ExhaustedGateFailureLifecycle(a) ==
    LET decisions == {r.decision : r \in GateReceipts(a)}
        outcomes  == {r.outcome : r \in StepReceipts(a)}
    IN  IF "BLOCKED" \in decisions \cup outcomes THEN "BLOCKED"
        ELSE IF \/ "REJECTED" \in decisions \/ "FAIL" \in outcomes
                \/ \E r \in StepReceipts(a) : r.severe
             THEN "FAILED"
        ELSE IF "NOT_PROVEN" \in outcomes THEN "INCOMPLETE"
        ELSE "REVIEWING"

Exhausted == Len(attempts) >= MaxIterations

ReviewLifecycle(a) ==
    IF HumanGatesSatisfied(a) /\ ReviewSatisfied(a) THEN "READY"
    ELSE IF Exhausted THEN ExhaustedGateFailureLifecycle(a)
    ELSE "REVIEWING"

AttemptLifecycle(a) ==
    LET status == VerificationStatus(a)
    IN  CASE ~Ended(a)                              -> "RUNNING"
          [] Ended(a) /\ status = "PASSED"          -> ReviewLifecycle(a)
          [] Ended(a) /\ status = "BLOCKED"         -> "BLOCKED"
          [] Ended(a) /\ status = "FAILED" /\ Exhausted     -> "FAILED"
          [] Ended(a) /\ status = "NOT_PROVEN" /\ Exhausted -> "INCOMPLETE"
          [] OTHER                                  -> "VERIFYING"

Lifecycle ==
    IF cancelled THEN "CANCELLED"
    ELSE IF attempts = <<>> THEN "PLANNED"
    ELSE AttemptLifecycle(Current)

-----------------------------------------------------------------------------
(* What retry and recovery read of the preceding Attempt.                  *)

\* Failing receipts of required gates and reviews (hasGateFailure).
GateFailures(a) ==
    {r \in humanReceipts : r.attempt = a /\ r.step \in RequiredGates
                                        /\ r.decision # "APPROVED"}
    \cup
    {r \in reviewReceipts : r.attempt = a /\ r.step \in RequiredReviews
                                         /\ (r.outcome # "PASS" \/ r.severe)}

\* Every receipt whose evidence can justify a retry of Attempt a.
Failures(a) ==
    GateFailures(a)
    \cup {r \in verifications : r.attempt = a /\ r.outcome # "PASS"}

\* The failures of Attempt a that carry the failure fingerprint `failure'.
MatchingFailures(a, failure) == {r \in Failures(a) : r.failure = failure}
FailureEvidence(a, failure) ==
    UNION {r.evidence : r \in MatchingFailures(a, failure)}

HasFailed(a) ==
    \/ VerificationStatus(a) \in {"FAILED", "BLOCKED", "NOT_PROVEN"}
    \/ GateFailures(a) # {}

Finalised(a) == \E f \in finalities : f.attempt = a

CheckpointsOf(a) == {c \in DOMAIN checkpoints : checkpoints[c].attempt = a}

\* The Checkpoint a Finality Receipt of Attempt a has to bind.
IsLatestCheckpoint(a, c) ==
    c \in CheckpointsOf(a) /\ \A d \in CheckpointsOf(a) : d <= c

\* Attempts begun after a failure with this fingerprint.
StartedAfter(failure) == {n \in DOMAIN attempts : attempts[n].failure = failure}

\* Mutant: off by one.
RepeatedFailureAllowed_OneMore(failure) ==
    Cardinality(StartedAfter(failure)) + 1 <= RepeatedFailureLimit

RepeatedFailureAllowed(failure) ==
    Cardinality(StartedAfter(failure)) + 1 < RepeatedFailureLimit

\* Mutant: the caller's flag alone decides.
UserInputAllows_FlagOnly(req) == StopOnUserInput => ~req.userInputRequired

\* req.userInputRequired is the caller's determination at admission.
UserInputAllows(req) ==
    StopOnUserInput =>
        ~req.userInputRequired /\ ~Observed(req.previous, "INPUT_REQUESTED")

WorkspaceDriftAllows(req) == StopOnWorkspaceDrift => ~req.workspaceDriftDetected

\* Mutant: an exhausted budget is let through.
BudgetAllows_Exhausted(req, previous) == req.remaining <= previous.remaining

\* remainingBudgetsAfter: usage may neither exhaust nor give back the budget.
BudgetAllows(req, previous) ==
    /\ req.remaining > 0
    /\ req.remaining <= previous.remaining

ElapsedAllows(req, previous) ==
    /\ req.elapsedMs < MaxElapsedMs
    /\ req.elapsedMs >= previous.elapsedMs

\* The guards RETRY_ATTEMPT and RECOVER_ATTEMPT share.
ContinuationAllowed(req) ==
    /\ req.previous = Current
    /\ req.previous > 0
    /\ Ended(req.previous)
    /\ Len(attempts) < MaxIterations
    /\ ElapsedAllows(req, attempts[req.previous])
    /\ req.startedAt >= attempts[req.previous].startedAt
    /\ UserInputAllows(req)
    /\ WorkspaceDriftAllows(req)
    /\ RepeatedFailureAllowed(req.failure)
    /\ BudgetAllows(req, attempts[req.previous])

RetryEvidenceBound(req) ==
    /\ MatchingFailures(req.previous, req.failure) # {}
    /\ req.evidence \subseteq FailureEvidence(req.previous, req.failure)

RecoveryEvidenceBound(req) ==
    \E o \in observations :
        /\ o.attempt = req.previous /\ o.kind = "PROCESS_EXITED"
        /\ req.evidence \subseteq o.evidence

\* Mutant: the process exit alone is taken for finality.
RecoveryFinal_ExitOnly(req) == Observed(req.previous, "PROCESS_EXITED")

RecoveryFinal(req) == Finalised(req.previous)

-----------------------------------------------------------------------------
(* Commands.  Each appends one event; Deciding is what most of them need.  *)

Init ==
    /\ attempts = <<>> /\ checkpoints = <<>>
    /\ observations = {} /\ finalities = {}
    /\ verifications = {} /\ humanReceipts = {} /\ reviewReceipts = {}
    /\ cancelled = FALSE /\ archived = FALSE
    /\ eventCursor = 0

\* The accepted command's event is the next of the log.
Append1 == eventCursor' = eventCursor + 1

\* Mutant: the terminal check is missing.
Accepting_Terminal == eventCursor > 0

\* What dispatch demands before it decides any other command than CREATE_RUN
\* and ARCHIVE_RUN: the Run exists and is not terminal.
Accepting == eventCursor > 0 /\ Lifecycle \notin TerminalLifecycles

CreateRun(identitiesMatch, lifecycle, unarchived) ==
    /\ eventCursor = 0
    /\ identitiesMatch /\ lifecycle = "PLANNED" /\ unarchived
    /\ Append1
    /\ UNCHANGED <<attempts, observations, finalities, receipts, checkpoints,
                   cancelled, archived>>

ArchiveRun(archivedAt) ==
    /\ eventCursor > 0
    /\ ~archived
    /\ Lifecycle \in TerminalLifecycles
    /\ archivedAt >= RunStartedAt
    /\ archived' = TRUE
    /\ Append1
    /\ UNCHANGED <<attempts, observations, finalities, receipts, checkpoints,
                   cancelled>>

CancelAllowed == attempts # <<>> => Ended(Current) /\ Finalised(Current)

CancelRun(endedAt) ==
    /\ CancelAllowed
    /\ endedAt >= RunStartedAt
    /\ cancelled' = TRUE
    /\ Append1
    /\ UNCHANGED <<attempts, observations, finalities, receipts, checkpoints,
                   archived>>

StartAttempt(startedAt) ==
    /\ attempts = <<>>
    /\ attempts' = <<[previous |-> 0, failure |-> NoFailure, evidence |-> {},
                      recoveryCheckpoint |-> 0, userInputRequired |-> FALSE,
                      workspaceDriftDetected |-> FALSE, elapsedMs |-> 0,
                      remaining |-> ResourceBudget, startedAt |-> startedAt]>>
    /\ Append1
    /\ UNCHANGED <<observations, finalities, receipts, checkpoints,
                   cancelled, archived>>

\* Mutant: an Observation may follow the Finality Receipt.
ObservationAllowed_AfterFinality(o) ==
    o.attempt \in DOMAIN attempts /\ \A p \in observations : p.id # o.id

ObservationAllowed(o) ==
    /\ o.attempt \in DOMAIN attempts
    /\ ~Finalised(o.attempt)
    /\ \A p \in observations : p.id # o.id

RecordObservation(o) ==
    /\ ObservationAllowed(o)
    /\ observations' = observations \cup {o}
    /\ Append1
    /\ UNCHANGED <<attempts, finalities, receipts, checkpoints,
                   cancelled, archived>>

FinalityAllowed(f) ==
    /\ f.attempt \in DOMAIN attempts
    /\ ~Finalised(f.attempt)
    /\ IsLatestCheckpoint(f.attempt, f.checkpoint)
    /\ f.holdings = checkpoints[f.checkpoint].holdings
    /\ f.observedAt >= attempts[f.attempt].startedAt
    /\ f.observedAt >= checkpoints[f.checkpoint].createdAt

\* Accepted whatever the execution status of the Attempt is.
RecordAttemptFinality(f) ==
    /\ FinalityAllowed(f)
    /\ finalities' = finalities \cup {f}
    /\ Append1
    /\ UNCHANGED <<attempts, observations, receipts, checkpoints,
                   cancelled, archived>>

VerificationAllowed(r) ==
    /\ r.attempt \in DOMAIN attempts
    /\ \A p \in verifications : <<p.attempt, p.check>> # <<r.attempt, r.check>>
    /\ r.bound

RecordVerification(r) ==
    /\ VerificationAllowed(r)
    /\ verifications' = verifications \cup {r}
    /\ Append1
    /\ UNCHANGED <<attempts, observations, finalities, humanReceipts,
                   reviewReceipts, checkpoints, cancelled, archived>>

HumanReceiptAllowed(r) ==
    /\ r.attempt \in DOMAIN attempts
    /\ \A p \in humanReceipts : <<p.attempt, p.step>> # <<r.attempt, r.step>>
    /\ r.bound
    /\ r.decision \in AllowedDecisions

RecordHumanReceipt(r) ==
    /\ HumanReceiptAllowed(r)
    /\ humanReceipts' = humanReceipts \cup {r}
    /\ Append1
    /\ UNCHANGED <<attempts, observations, finalities, verifications,
                   reviewReceipts, checkpoints, cancelled, archived>>

ReviewReceiptAllowed(r) ==
    /\ r.attempt \in DOMAIN attempts
    /\ \A p \in reviewReceipts : <<p.attempt, p.step>> # <<r.attempt, r.step>>
    /\ r.bound

RecordReviewReceipt(r) ==
    /\ ReviewReceiptAllowed(r)
    /\ reviewReceipts' = reviewReceipts \cup {r}
    /\ Append1
    /\ UNCHANGED <<attempts, observations, finalities, verifications,
                   humanReceipts, checkpoints, cancelled, archived>>

\* The next Attempt copies the request and links to the preceding Attempt.
ContinueWith(req) ==
    /\ attempts' = Append(attempts, req)
    /\ Append1
    /\ UNCHANGED <<observations, finalities, receipts, checkpoints,
                   cancelled, archived>>

RetryAttempt(req) ==
    /\ req.recoveryCheckpoint = 0
    /\ ContinuationAllowed(req)
    /\ HasFailed(req.previous)
    /\ RetryEvidenceBound(req)
    /\ ContinueWith(req)

RecoverAttempt(req) ==
    /\ ContinuationAllowed(req)
    /\ RecoveryFinal(req)
    /\ req.recoveryCheckpoint \in CheckpointsOf(req.previous)
    /\ RecoveryEvidenceBound(req)
    /\ ContinueWith(req)

\* Mutant: a Checkpoint may follow the Finality Receipt of its Attempt.
CheckpointAllowed_AfterFinality(c) ==
    /\ c.cursor = eventCursor
    /\ checkpoints # <<>> => c.createdAt >= checkpoints[Len(checkpoints)].createdAt
    /\ c.attempt # 0 => c.attempt \in DOMAIN attempts

CheckpointAllowed(c) ==
    /\ c.cursor = eventCursor
    /\ checkpoints # <<>> => c.createdAt >= checkpoints[Len(checkpoints)].createdAt
    /\ c.attempt # 0 => c.attempt \in DOMAIN attempts /\ ~Finalised(c.attempt)

RecordCheckpoint(c) ==
    /\ Len(checkpoints) < MaxCheckpoints
    /\ CheckpointAllowed(c)
    /\ checkpoints' = Append(checkpoints, c)
    /\ Append1
    /\ UNCHANGED <<attempts, observations, finalities, receipts,
                   cancelled, archived>>

-----------------------------------------------------------------------------
(* The commands a caller may send.                                         *)

\* A request names at least one piece of failure evidence (contracts.ts); its
\* elapsed time and its usage may exceed the limits.
Requests ==
    [previous : AttemptIndex, failure : Fingerprints,
     evidence : (SUBSET EvidenceIds) \ {{}}, recoveryCheckpoint : 0..MaxCheckpoints,
     userInputRequired : BOOLEAN, workspaceDriftDetected : BOOLEAN,
     elapsedMs : 0..MaxElapsedMs, remaining : 0..ResourceBudget,
     startedAt : Times]

Room == eventCursor < MaxEvents
Deciding == Room /\ Accepting

Create ==
    Room /\ \E identitiesMatch, unarchived \in BOOLEAN, lifecycle \in {"PLANNED", "READY"} :
        CreateRun(identitiesMatch, lifecycle, unarchived)
Archive == Room /\ \E t \in Times : ArchiveRun(t)
Cancel  == Deciding /\ \E t \in Times : CancelRun(t)
Start   == Deciding /\ \E t \in Times : StartAttempt(t)
Retry   == Deciding /\ \E req \in Requests : RetryAttempt(req)
Recover == Deciding /\ \E req \in Requests : RecoverAttempt(req)
Observe == Deciding /\ \E o \in Observations : RecordObservation(o)
Finalise == Deciding /\ \E f \in Finalities : RecordAttemptFinality(f)
Verify  == Deciding /\ \E r \in VerificationReceipts : RecordVerification(r)
Decide  == Deciding /\ \E r \in HumanReceipts : RecordHumanReceipt(r)
Review  == Deciding /\ \E r \in ReviewReceipts : RecordReviewReceipt(r)
Checkpoint ==
    Deciding /\ \E a \in 0..MaxIterations, h \in Holdings, t \in Times :
        \E seen \in {eventCursor - 1, eventCursor} :  \* where it was captured
            RecordCheckpoint([attempt |-> a, cursor |-> seen, holdings |-> h,
                              createdAt |-> t])

Next == \/ Create \/ Archive \/ Cancel
        \/ Start \/ Retry \/ Recover
        \/ Observe \/ Finalise \/ Verify \/ Decide \/ Review \/ Checkpoint

Spec == Init /\ [][Next]_vars

-----------------------------------------------------------------------------
(* The replay validator.  validateReplaySemantics re-states by hand, over    *)
(* the facts that precede an event, what #decide demanded of the command.    *)

ReplayAcceptsFirst(at) ==
    /\ at.elapsedMs = 0 /\ at.remaining = ResourceBudget
    /\ at.recoveryCheckpoint = 0

ReplayAcceptsNext(at, previous) ==
    /\ StopOnUserInput => /\ ~at.userInputRequired
                          /\ ~Observed(Current, "INPUT_REQUESTED")
    /\ StopOnWorkspaceDrift => ~at.workspaceDriftDetected
    /\ at.previous = Current
    /\ at.recoveryCheckpoint # 0 =>
           Finalised(Current) /\ at.recoveryCheckpoint \in CheckpointsOf(Current)
    /\ Ended(Current)
    /\ at.recoveryCheckpoint = 0 =>
           /\ HasFailed(Current)
           /\ FailureEvidence(Current, at.failure) # {}
           /\ at.evidence \subseteq FailureEvidence(Current, at.failure)
    /\ Current < MaxIterations
    /\ at.elapsedMs < MaxElapsedMs
    /\ Cardinality(StartedAfter(at.failure)) + 1 < RepeatedFailureLimit
    /\ at.elapsedMs >= previous.elapsedMs
    /\ at.startedAt >= previous.startedAt
    /\ at.remaining <= previous.remaining

ReplayAcceptsAttempt(at) ==
    IF attempts = <<>> THEN ReplayAcceptsFirst(at)
    ELSE ReplayAcceptsNext(at, attempts[Current])

ReplayAcceptsObservation(o) ==
    /\ o.attempt \in DOMAIN attempts /\ ~Finalised(o.attempt)
    /\ o.id \notin {p.id : p \in observations}

ReplayAcceptsFinality(f) ==
    /\ f.attempt \in DOMAIN attempts /\ ~Finalised(f.attempt)
    /\ IsLatestCheckpoint(f.attempt, f.checkpoint)
    /\ f.holdings = checkpoints[f.checkpoint].holdings
    /\ f.observedAt >= attempts[f.attempt].startedAt
    /\ f.observedAt >= checkpoints[f.checkpoint].createdAt

\* A receipt of any of the three kinds, over the receipts recorded before it.
ReplayAcceptsReceipt(r, declared, recorded) ==
    /\ r.attempt \in DOMAIN attempts /\ r.bound /\ declared
    /\ ~recorded

ReplayAcceptsCheckpoint(c) ==
    /\ c.attempt # 0 => c.attempt \in DOMAIN attempts /\ ~Finalised(c.attempt)
    /\ c.cursor = eventCursor

ReplayAcceptsCancellation ==
    attempts # <<>> => Finalised(Current) /\ ExecutionStatus(Current) # "RUNNING"

ReplayAcceptsArchive == ~archived /\ Lifecycle \in TerminalLifecycles

-----------------------------------------------------------------------------
(* Properties.                                                             *)

TypeOK ==
    /\ attempts \in Seq(Attempts) /\ Len(attempts) <= MaxIterations
    /\ observations \subseteq Observations
    /\ finalities \subseteq Finalities
    /\ verifications \subseteq VerificationReceipts
    /\ humanReceipts \subseteq HumanReceipts
    /\ reviewReceipts \subseteq ReviewReceipts
    /\ checkpoints \in Seq(Checkpoints) /\ Len(checkpoints) <= MaxCheckpoints
    /\ cancelled \in BOOLEAN /\ archived \in BOOLEAN
    /\ eventCursor \in Nat

\* The event every accepted command appends is one the replay validator
\* accepts after the same prefix: #decide and validateReplaySemantics are two
\* hand-written copies of the rules, and dispatch pushes the event before it
\* replays, so one event only #decide accepts makes its Run unreadable.
ReplayAccepts ==
    [][/\ Len(attempts') > Len(attempts) =>
             ReplayAcceptsAttempt(attempts'[Len(attempts')])
       /\ \A o \in observations' \ observations : ReplayAcceptsObservation(o)
       /\ \A f \in finalities' \ finalities : ReplayAcceptsFinality(f)
       /\ \A r \in verifications' \ verifications :
             ReplayAcceptsReceipt(r, r.check \in Checks,
                 \E p \in verifications : p.attempt = r.attempt /\ p.check = r.check)
       /\ \A r \in humanReceipts' \ humanReceipts :
             ReplayAcceptsReceipt(r, r.step \in Gates /\ r.decision \in AllowedDecisions,
                 \E p \in humanReceipts : p.attempt = r.attempt /\ p.step = r.step)
       /\ \A r \in reviewReceipts' \ reviewReceipts :
             ReplayAcceptsReceipt(r, r.step \in Reviews,
                 \E p \in reviewReceipts : p.attempt = r.attempt /\ p.step = r.step)
       /\ Len(checkpoints') > Len(checkpoints) =>
             ReplayAcceptsCheckpoint(checkpoints'[Len(checkpoints')])
       /\ cancelled' # cancelled => ReplayAcceptsCancellation
       /\ archived' # archived => ReplayAcceptsArchive
       /\ archived => UNCHANGED vars
       /\ cancelled /\ ~archived' => UNCHANGED vars]_vars

UniquePerAttempt(S, subject(_)) ==
    \A r, q \in S : r.attempt = q.attempt /\ subject(r) = subject(q) => r = q

AttemptChainIntact ==
    \A n \in DOMAIN attempts : attempts[n].previous = n - 1

FinalitiesIntact ==
    /\ \A f, g \in finalities : f.attempt = g.attempt => f = g
    /\ \A f \in finalities :
          /\ f.attempt \in DOMAIN attempts
          /\ IsLatestCheckpoint(f.attempt, f.checkpoint)
          /\ f.holdings = checkpoints[f.checkpoint].holdings
          /\ f.observedAt >= attempts[f.attempt].startedAt
          /\ f.observedAt >= checkpoints[f.checkpoint].createdAt

ReceiptsIntact ==
    LET Check(r) == r.check
        Step(r)  == r.step
    IN  /\ UniquePerAttempt(verifications, Check)
        /\ UniquePerAttempt(humanReceipts, Step)
        /\ UniquePerAttempt(reviewReceipts, Step)
        /\ \A r \in verifications \cup humanReceipts \cup reviewReceipts :
              r.bound /\ r.attempt \in DOMAIN attempts
        /\ \A r \in humanReceipts : r.decision \in AllowedDecisions

CursorCountsFacts ==
    eventCursor > 0 =>
        eventCursor = 1 + Len(attempts) + Cardinality(observations)
            + Cardinality(finalities) + Cardinality(verifications)
            + Cardinality(humanReceipts) + Cardinality(reviewReceipts)
            + Len(checkpoints)
            + (IF cancelled THEN 1 ELSE 0) + (IF archived THEN 1 ELSE 0)

\* The part of assertRunProjectionIntegrity about required user input.
NoRetryCrossedInput ==
    StopOnUserInput => \A n \in DOMAIN attempts : n > 1 =>
        ~attempts[n].userInputRequired /\ ~Observed(n - 1, "INPUT_REQUESTED")

\* Every Run the kernel can be led to passes assertRunProjectionIntegrity, so
\* its Archive and its summary can be made: receipts bound and unique per
\* Attempt, each Attempt Finality Receipt still binding its Attempt's latest
\* Checkpoint, the Attempt chain unbroken, no retry across workspace drift, and
\* the cursor counting exactly the facts.  (User input: NoRetryCrossedInput.)
ProjectionIntegrity ==
    /\ AttemptChainIntact
    /\ FinalitiesIntact
    /\ ReceiptsIntact
    /\ StopOnWorkspaceDrift =>
          \A n \in DOMAIN attempts : ~attempts[n].workspaceDriftDetected
    /\ \A c \in DOMAIN checkpoints :
          /\ checkpoints[c].cursor < eventCursor
          /\ checkpoints[c].attempt # 0 => checkpoints[c].attempt \in DOMAIN attempts
    /\ CursorCountsFacts

About(S, a) == {r \in S : r.attempt = a}

\* Once an Attempt has its Finality Receipt nothing is added to what the
\* receipt speaks for: its Observations and Checkpoints are frozen, and the
\* receipt itself is never replaced.
FinalityFreezes ==
    [][\A f \in finalities :
          /\ f \in finalities'
          /\ About(observations', f.attempt) = About(observations, f.attempt)
          /\ {c \in DOMAIN checkpoints' : checkpoints'[c].attempt = f.attempt}
               = CheckpointsOf(f.attempt)]_vars

\* Every Attempt after the first answers a failure of the Attempt before it
\* that is still on record: a retry cites evidence of a failing receipt of a
\* failed Attempt, a recovery cites the process exit of a finalised Attempt and
\* one of its Checkpoints.  Facts recorded later never undo this.
ContinuationIsGrounded ==
    \A n \in DOMAIN attempts : n > 1 =>
        LET at == attempts[n]
        IN  /\ Ended(n - 1)
            /\ IF at.recoveryCheckpoint = 0
               THEN /\ HasFailed(n - 1)
                    /\ MatchingFailures(n - 1, at.failure) # {}
                    /\ at.evidence \subseteq FailureEvidence(n - 1, at.failure)
               ELSE /\ Finalised(n - 1)
                    /\ at.recoveryCheckpoint \in CheckpointsOf(n - 1)
                    /\ \E o \in observations :
                          /\ o.attempt = n - 1 /\ o.kind = "PROCESS_EXITED"
                          /\ at.evidence \subseteq o.evidence

\* The loop policy holds along the whole chain of Attempts: iterations and
\* repeats of one failure are bounded, elapsed time never runs backwards,
\* budgets are never restored or exhausted.
LoopPolicyHolds ==
    /\ Len(attempts) <= MaxIterations
    /\ \A f \in Fingerprints : StartedAfter(f) # {} =>
          Cardinality(StartedAfter(f)) < RepeatedFailureLimit
    /\ \A m, n \in DOMAIN attempts : m < n =>
          /\ attempts[m].elapsedMs <= attempts[n].elapsedMs
          /\ attempts[m].remaining >= attempts[n].remaining
          /\ attempts[m].startedAt <= attempts[n].startedAt
    /\ \A n \in DOMAIN attempts :
          attempts[n].elapsedMs < MaxElapsedMs /\ attempts[n].remaining > 0

\* A Run that has reached an outcome keeps it, and nothing but its Archive is
\* recorded after it: no late observation, receipt or retry moves it.
OutcomeIsFinal ==
    [][eventCursor > 0 /\ Lifecycle \in TerminalLifecycles =>
          /\ Lifecycle' = Lifecycle
          /\ UNCHANGED <<attempts, observations, finalities, receipts, checkpoints>>
      ]_vars

\* READY is earned by the latest Attempt alone: it ended, each required check,
\* gate and review has exactly one receipt for that very Attempt, bound to the
\* Plan, and each of them reports success.
ReadyIsEarned ==
    Lifecycle = "READY" =>
        /\ Ended(Current)
        /\ \A c \in RequiredChecks :
              {<<r.outcome, r.bound>> : r \in {v \in verifications :
                  v.attempt = Current /\ v.check = c}} = {<<"PASS", TRUE>>}
        /\ \A g \in RequiredGates :
              {<<r.decision, r.bound>> : r \in {h \in humanReceipts :
                  h.attempt = Current /\ h.step = g}} = {<<"APPROVED", TRUE>>}
        /\ \A s \in RequiredReviews :
              {<<r.outcome, r.severe, r.bound>> : r \in {v \in reviewReceipts :
                  v.attempt = Current /\ v.step = s}} = {<<"PASS", FALSE, TRUE>>}

AllReported(a) ==
    /\ \A c \in RequiredChecks : \E r \in verifications : r.attempt = a /\ r.check = c
    /\ \A g \in RequiredGates : \E r \in humanReceipts : r.attempt = a /\ r.step = g
    /\ \A s \in RequiredReviews : \E r \in reviewReceipts : r.attempt = a /\ r.step = s

\* When the last permitted Attempt has ended and every required check, gate
\* and review has reported, the Run has an outcome: no combination of results
\* leaves an impossible retry open in VERIFYING or REVIEWING.
ExhaustedRunEnds ==
    Exhausted /\ Ended(Current) /\ AllReported(Current)
        => Lifecycle \in TerminalLifecycles

\* A fact about an Attempt that has been superseded arrives without effect: the
\* lifecycle only moves with the latest Attempt, a new Attempt or cancellation.
LateFactsAreInert ==
    [][/\ eventCursor > 0
       /\ attempts' = attempts /\ cancelled' = cancelled
       /\ About(observations', Current) = About(observations, Current)
       /\ About(verifications', Current) = About(verifications, Current)
       /\ About(humanReceipts', Current) = About(humanReceipts, Current)
       /\ About(reviewReceipts', Current) = About(reviewReceipts, Current)
       => Lifecycle' = Lifecycle]_vars
=============================================================================
