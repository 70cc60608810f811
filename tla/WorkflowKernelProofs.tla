------------------------ MODULE WorkflowKernelProofs ------------------------
(***************************************************************************)
(* Theorems about a Run of the Workflow Kernel, for every Plan Revision    *)
(* and every bound: what a step may do to Finality Receipts and outcomes,  *)
(* what READY rests on, why every Attempt was permitted, that the replay   *)
(* validator accepts whatever was appended, and that the projection keeps  *)
(* its integrity.  The invariants are inductive over the twelve commands;  *)
(* each names only the facts its commands touch, so that one command       *)
(* disturbs few of them.                                                   *)
(***************************************************************************)
EXTENDS WorkflowKernel, FiniteSetTheorems, SequenceTheorems, TLAPS

USE DEF receipts

-----------------------------------------------------------------------------
(* Type correctness.                                                       *)

LEMMA InitType == Init => TypeOK
<1> SUFFICES ASSUME Init PROVE TypeOK
  OBVIOUS
<1>1. attempts \in Seq(Attempts) /\ checkpoints \in Seq(Checkpoints)
  BY DEF Init
<1>2. Len(attempts) <= MaxIterations /\ Len(checkpoints) <= MaxCheckpoints
  BY PlanAssumption, InputAssumption DEF Init
<1> QED  BY <1>1, <1>2 DEF Init, TypeOK

\* A continuation that #decide admits is a well-formed Attempt: its elapsed
\* time and what is left of the budget are strictly inside the limits.
LEMMA ContinuationType ==
  ASSUME TypeOK, NEW req \in Requests, ContinuationAllowed(req)
  PROVE  req \in Attempts /\ Len(attempts) < MaxIterations
<1>1. req.previous \in DOMAIN attempts
  BY DEF TypeOK, Requests, ContinuationAllowed, Current, AttemptIndex
<1>2. attempts[req.previous] \in Attempts
  BY <1>1 DEF TypeOK
<1>3. req.elapsedMs \in 0..(MaxElapsedMs - 1)
  BY PlanAssumption DEF Requests, ContinuationAllowed, ElapsedAllows
<1>4. req.remaining \in 1..ResourceBudget
  BY PlanAssumption DEF Requests, ContinuationAllowed, BudgetAllows
<1>5. req.previous \in 0..MaxIterations
  BY PlanAssumption DEF Requests, AttemptIndex
<1>6. req \in Attempts
  BY <1>3, <1>4, <1>5 DEF Requests, Attempts
<1> QED  BY <1>6 DEF ContinuationAllowed

LEMMA ContinueType ==
  ASSUME TypeOK, NEW req \in Requests, ContinuationAllowed(req), ContinueWith(req)
  PROVE  TypeOK'
<1>1. req \in Attempts /\ Len(attempts) < MaxIterations
  BY ContinuationType
<1>2. attempts' \in Seq(Attempts) /\ Len(attempts') <= MaxIterations
  BY <1>1, PlanAssumption DEF TypeOK, ContinueWith
<1> QED  BY <1>2 DEF TypeOK, ContinueWith, Append1

LEMMA NextType == TypeOK /\ [Next]_vars => TypeOK'
<1> SUFFICES ASSUME TypeOK, [Next]_vars PROVE TypeOK'
  OBVIOUS
<1>1. CASE Create
  BY <1>1 DEF Create, CreateRun, TypeOK, Append1
<1>2. CASE Archive
  BY <1>2 DEF Archive, ArchiveRun, TypeOK, Append1
<1>3. CASE Cancel
  BY <1>3 DEF Cancel, CancelRun, TypeOK, Append1
<1>4. CASE Start
  <2> PICK t \in Times : StartAttempt(t)
    BY <1>4 DEF Start
  <2>1. attempts'[1] \in Attempts
    BY PlanAssumption, InputAssumption DEF StartAttempt, Attempts
  <2>2. attempts' \in Seq(Attempts) /\ Len(attempts') <= MaxIterations
    BY <2>1, PlanAssumption DEF StartAttempt
  <2> QED  BY <2>2 DEF StartAttempt, TypeOK, Append1
<1>5. CASE Retry
  BY <1>5, ContinueType DEF Retry, RetryAttempt
<1>6. CASE Recover
  BY <1>6, ContinueType DEF Recover, RecoverAttempt
<1>7. CASE Observe
  BY <1>7 DEF Observe, RecordObservation, TypeOK, Append1
<1>8. CASE Finalise
  BY <1>8 DEF Finalise, RecordAttemptFinality, TypeOK, Append1
<1>9. CASE Verify
  BY <1>9 DEF Verify, RecordVerification, TypeOK, Append1
<1>10. CASE Decide
  BY <1>10 DEF Decide, RecordHumanReceipt, TypeOK, Append1
<1>11. CASE Review
  BY <1>11 DEF Review, RecordReviewReceipt, TypeOK, Append1
<1>12. CASE Checkpoint
  <2> PICK a \in 0..MaxIterations, h \in Holdings, t \in Times,
           seen \in {eventCursor - 1, eventCursor} :
         RecordCheckpoint([attempt |-> a, cursor |-> seen, holdings |-> h,
                           createdAt |-> t])
    BY <1>12 DEF Checkpoint
  <2> DEFINE c == [attempt |-> a, cursor |-> seen, holdings |-> h, createdAt |-> t]
  <2>1. c \in Checkpoints
    BY DEF RecordCheckpoint, CheckpointAllowed, Checkpoints, TypeOK
  <2>2. /\ checkpoints' = Append(checkpoints, c)
        /\ Len(checkpoints) < MaxCheckpoints
    BY DEF RecordCheckpoint
  <2> HIDE DEF c
  <2>3. checkpoints' \in Seq(Checkpoints) /\ Len(checkpoints') <= MaxCheckpoints
    BY <2>1, <2>2, InputAssumption DEF TypeOK
  <2> QED  BY <2>3 DEF RecordCheckpoint, TypeOK, Append1
<1>13. CASE UNCHANGED vars
  BY <1>13 DEF vars, TypeOK
<1> QED
  BY <1>1, <1>2, <1>3, <1>4, <1>5, <1>6, <1>7, <1>8, <1>9, <1>10, <1>11, <1>12,
     <1>13 DEF Next

\* Every fact the replay collects has the shape its schema demands, whatever
\* commands were sent: in particular no accepted Attempt overdraws a budget.
THEOREM TypeCorrect == Spec => []TypeOK
<1>1. Init => TypeOK
  BY InitType
<1>2. TypeOK /\ [Next]_vars => TypeOK'
  BY NextType
<1> QED  BY <1>1, <1>2, PTL DEF Spec

-----------------------------------------------------------------------------
(* Attempt Finality.                                                       *)

\* A Checkpoint appended to the log leaves the earlier ones where they were.
LEMMA CheckpointAppended ==
  ASSUME TypeOK, NEW c, checkpoints' = Append(checkpoints, c)
  PROVE  /\ DOMAIN checkpoints' = DOMAIN checkpoints \cup {Len(checkpoints) + 1}
         /\ checkpoints'[Len(checkpoints) + 1] = c
         /\ \A d \in DOMAIN checkpoints : checkpoints'[d] = checkpoints[d]
  BY DEF TypeOK

\* So does an Attempt.
LEMMA AttemptAppended ==
  ASSUME TypeOK, NEW at, attempts' = Append(attempts, at)
  PROVE  /\ DOMAIN attempts' = DOMAIN attempts \cup {Len(attempts) + 1}
         /\ attempts'[Len(attempts) + 1] = at
         /\ \A n \in DOMAIN attempts : attempts'[n] = attempts[n]
  BY DEF TypeOK

\* The Checkpoint command as one record.
LEMMA CheckpointStep ==
  ASSUME Checkpoint
  PROVE  \E c : /\ RecordCheckpoint(c)
                /\ c = [attempt |-> c.attempt, cursor |-> c.cursor,
                        holdings |-> c.holdings, createdAt |-> c.createdAt]
  BY DEF Checkpoint

FreezesFacts(f) ==
    /\ f \in finalities'
    /\ About(observations', f.attempt) = About(observations, f.attempt)
    /\ {c \in DOMAIN checkpoints' : checkpoints'[c].attempt = f.attempt}
         = CheckpointsOf(f.attempt)

\* What a Finality Receipt speaks for is frozen by every command.
LEMMA FreezesAll ==
  ASSUME TypeOK, [Next]_vars, NEW f \in finalities
  PROVE  FreezesFacts(f)
<1>1. ASSUME UNCHANGED <<observations, checkpoints>>, finalities \subseteq finalities'
      PROVE  FreezesFacts(f)
  BY <1>1 DEF FreezesFacts, About, CheckpointsOf
<1>2. CASE Observe
  <2> PICK o \in Observations : RecordObservation(o)
    BY <1>2 DEF Observe
  <2>1. o.attempt # f.attempt
    BY DEF RecordObservation, ObservationAllowed, Finalised
  <2> QED  BY <2>1 DEF FreezesFacts, About, CheckpointsOf, RecordObservation
<1>3. CASE Checkpoint
  <2> PICK c : RecordCheckpoint(c)
    BY <1>3, CheckpointStep
  <2>1. f.attempt \in AttemptIndex
    BY DEF TypeOK, Finalities
  <2>2. c.attempt # f.attempt
    BY <2>1, PlanAssumption
       DEF RecordCheckpoint, CheckpointAllowed, Finalised, AttemptIndex
  <2>3. {d \in DOMAIN checkpoints' : checkpoints'[d].attempt = f.attempt}
          = CheckpointsOf(f.attempt)
    BY <2>2, CheckpointAppended DEF RecordCheckpoint, CheckpointsOf
  <2> QED  BY <2>3 DEF FreezesFacts, About, RecordCheckpoint
<1>4. CASE Create \/ Archive \/ Cancel
  BY <1>1, <1>4 DEF Create, CreateRun, Archive, ArchiveRun, Cancel, CancelRun
<1>5. CASE Start \/ Retry \/ Recover
  BY <1>1, <1>5 DEF Start, StartAttempt, Retry, RetryAttempt, Recover,
                    RecoverAttempt, ContinueWith
<1>6. CASE Finalise
  BY <1>1, <1>6 DEF Finalise, RecordAttemptFinality
<1>7. CASE Verify \/ Decide \/ Review
  BY <1>1, <1>7 DEF Verify, RecordVerification, Decide, RecordHumanReceipt,
                    Review, RecordReviewReceipt
<1>8. CASE UNCHANGED vars
  BY <1>1, <1>8 DEF vars
<1> QED  BY <1>2, <1>3, <1>4, <1>5, <1>6, <1>7, <1>8 DEF Next

\* After its Finality Receipt an Attempt receives no Observation and no
\* Checkpoint, and the receipt is never replaced: the evidence a recovery or a
\* cancellation rests on cannot move under it.
THEOREM FinalityIsFinal == Spec => FinalityFreezes
<1>1. TypeOK /\ [Next]_vars => [\A f \in finalities : FreezesFacts(f)]_vars
  BY FreezesAll
<1> QED
  BY <1>1, TypeCorrect, PTL DEF Spec, FinalityFreezes, FreezesFacts

-----------------------------------------------------------------------------
(* Outcomes.                                                               *)

\* Nothing changes of what the replay reads about the latest Attempt.
CurrentFactsKept ==
    /\ attempts' = attempts /\ cancelled' = cancelled
    /\ About(observations', Current) = About(observations, Current)
    /\ About(verifications', Current) = About(verifications, Current)
    /\ About(humanReceipts', Current) = About(humanReceipts, Current)
    /\ About(reviewReceipts', Current) = About(reviewReceipts, Current)

\* The lifecycle is a function of the facts about the latest Attempt.
LEMMA LifecycleReadsCurrent ==
  ASSUME CurrentFactsKept
  PROVE  Lifecycle' = Lifecycle
<1> PICK a : a = Current
  OBVIOUS
<1>1. Current' = a /\ Exhausted' = Exhausted
  BY DEF CurrentFactsKept, Current, Exhausted
<1>2. /\ \A o : (o \in observations' /\ o.attempt = a) <=> (o \in observations /\ o.attempt = a)
      /\ \A r : (r \in verifications' /\ r.attempt = a) <=> (r \in verifications /\ r.attempt = a)
      /\ \A r : (r \in humanReceipts' /\ r.attempt = a) <=> (r \in humanReceipts /\ r.attempt = a)
      /\ \A r : (r \in reviewReceipts' /\ r.attempt = a) <=> (r \in reviewReceipts /\ r.attempt = a)
  BY Zenon DEF CurrentFactsKept, About
<1>3. Ended(a)' = Ended(a)
  BY <1>2 DEF Ended, ExecutionStatus, Observed
<1>4. RequiredReceipts(a)' = RequiredReceipts(a)
  BY <1>2 DEF RequiredReceipts
<1>5. VerificationStatus(a)' = VerificationStatus(a)
  BY <1>3, <1>4 DEF VerificationStatus
<1>6. /\ HumanGatesSatisfied(a)' = HumanGatesSatisfied(a)
      /\ ReviewSatisfied(a)' = ReviewSatisfied(a)
  BY <1>2 DEF HumanGatesSatisfied, ReviewSatisfied
<1>7. GateReceipts(a)' = GateReceipts(a) /\ StepReceipts(a)' = StepReceipts(a)
  BY <1>2 DEF GateReceipts, StepReceipts
<1>8. ReviewLifecycle(a)' = ReviewLifecycle(a)
  BY <1>1, <1>6, <1>7 DEF ReviewLifecycle, ExhaustedGateFailureLifecycle
<1>9. AttemptLifecycle(a)' = AttemptLifecycle(a)
  BY <1>1, <1>3, <1>5, <1>8 DEF AttemptLifecycle
<1> QED  BY <1>1, <1>9 DEF Lifecycle, CurrentFactsKept

\* A Run that has an outcome accepts nothing but its Archive, so no late
\* observation, receipt, retry or cancellation can turn the outcome.
THEOREM OutcomesAreFinal == Spec => OutcomeIsFinal
<1>1. [Next]_vars =>
        [eventCursor > 0 /\ Lifecycle \in TerminalLifecycles =>
            /\ Lifecycle' = Lifecycle
            /\ UNCHANGED <<attempts, observations, finalities, receipts,
                           checkpoints>>]_vars
  <2> SUFFICES ASSUME Next, eventCursor > 0, Lifecycle \in TerminalLifecycles
               PROVE  /\ Lifecycle' = Lifecycle
                      /\ UNCHANGED <<attempts, observations, finalities, receipts,
                                     checkpoints>>
    OBVIOUS
  <2>1. ~Deciding
    BY DEF Deciding, Accepting
  <2>2. ~Create
    BY DEF Create, CreateRun
  <2>3. Archive
    BY <2>1, <2>2 DEF Next, Cancel, Start, Retry, Recover, Observe, Finalise,
                      Verify, Decide, Review, Checkpoint
  <2>4. UNCHANGED <<attempts, observations, finalities, receipts, checkpoints,
                    cancelled>>
    BY <2>3 DEF Archive, ArchiveRun
  <2>5. Lifecycle' = Lifecycle
    BY <2>4, LifecycleReadsCurrent DEF CurrentFactsKept
  <2> QED  BY <2>4, <2>5
<1> QED  BY <1>1, PTL DEF Spec, OutcomeIsFinal

\* A fact about a superseded Attempt, whenever it arrives, does not move the
\* lifecycle: only the latest Attempt, a new one or a cancellation does.
THEOREM LateFactsChangeNothing == Spec => LateFactsAreInert
<1>1. [Next]_vars => [eventCursor > 0 /\ CurrentFactsKept => Lifecycle' = Lifecycle]_vars
  BY LifecycleReadsCurrent
<1>2. [eventCursor > 0 /\ CurrentFactsKept => Lifecycle' = Lifecycle]_vars
        => [/\ eventCursor > 0
            /\ attempts' = attempts /\ cancelled' = cancelled
            /\ About(observations', Current) = About(observations, Current)
            /\ About(verifications', Current) = About(verifications, Current)
            /\ About(humanReceipts', Current) = About(humanReceipts, Current)
            /\ About(reviewReceipts', Current) = About(reviewReceipts, Current)
            => Lifecycle' = Lifecycle]_vars
  BY DEF CurrentFactsKept
<1> QED  BY <1>1, <1>2, PTL DEF Spec, LateFactsAreInert

-----------------------------------------------------------------------------
(* Receipts, and what READY rests on.                                      *)

VerificationsIntact ==
    \A r \in verifications :
        /\ r.bound /\ r.attempt \in DOMAIN attempts
        /\ \A q \in verifications : r.attempt = q.attempt /\ r.check = q.check => r = q

HumanReceiptsIntact ==
    \A r \in humanReceipts :
        /\ r.bound /\ r.attempt \in DOMAIN attempts /\ r.decision \in AllowedDecisions
        /\ \A q \in humanReceipts : r.attempt = q.attempt /\ r.step = q.step => r = q

ReviewReceiptsIntact ==
    \A r \in reviewReceipts :
        /\ r.bound /\ r.attempt \in DOMAIN attempts
        /\ \A q \in reviewReceipts : r.attempt = q.attempt /\ r.step = q.step => r = q

ReceiptsInv == VerificationsIntact /\ HumanReceiptsIntact /\ ReviewReceiptsIntact

LEMMA ReceiptsInvIsIntact == ReceiptsInv <=> ReceiptsIntact
<1> USE DEF UniquePerAttempt
<1>1. ReceiptsInv => ReceiptsIntact
  BY DEF ReceiptsInv, ReceiptsIntact, VerificationsIntact, HumanReceiptsIntact,
         ReviewReceiptsIntact
<1>2. ReceiptsIntact => ReceiptsInv
  BY DEF ReceiptsInv, ReceiptsIntact, VerificationsIntact, HumanReceiptsIntact,
         ReviewReceiptsIntact
<1> QED  BY <1>1, <1>2

\* Every command only ever lengthens the sequence of Attempts.
LEMMA AttemptsGrow ==
  ASSUME TypeOK, [Next]_vars
  PROVE  DOMAIN attempts \subseteq DOMAIN attempts'
<1>1. CASE Start
  BY <1>1 DEF Start, StartAttempt, TypeOK
<1>2. CASE Retry \/ Recover
  BY <1>2, AttemptAppended DEF Retry, RetryAttempt, Recover, RecoverAttempt, ContinueWith
<1>3. CASE UNCHANGED attempts
  BY <1>3
<1> QED
  BY <1>1, <1>2, <1>3 DEF Next, vars, Create, CreateRun, Archive, ArchiveRun, Cancel,
     CancelRun, Observe, RecordObservation, Finalise, RecordAttemptFinality, Verify,
     RecordVerification, Decide, RecordHumanReceipt, Review, RecordReviewReceipt,
     Checkpoint, RecordCheckpoint

LEMMA ReceiptsInductive == TypeOK /\ ReceiptsInv /\ [Next]_vars => ReceiptsInv'
<1> SUFFICES ASSUME TypeOK, ReceiptsInv, [Next]_vars PROVE ReceiptsInv'
  OBVIOUS
<1> USE AttemptsGrow DEF ReceiptsInv
<1>1. CASE Verify
  <2> PICK r \in VerificationReceipts : RecordVerification(r)
    BY <1>1 DEF Verify
  <2>1. VerificationsIntact'
    BY DEF VerificationsIntact, RecordVerification, VerificationAllowed
  <2>2. HumanReceiptsIntact' /\ ReviewReceiptsIntact'
    BY DEF RecordVerification, HumanReceiptsIntact, ReviewReceiptsIntact
  <2> QED  BY <2>1, <2>2
<1>2. CASE Decide
  <2> PICK r \in HumanReceipts : RecordHumanReceipt(r)
    BY <1>2 DEF Decide
  <2>1. HumanReceiptsIntact'
    BY DEF HumanReceiptsIntact, RecordHumanReceipt, HumanReceiptAllowed
  <2>2. VerificationsIntact' /\ ReviewReceiptsIntact'
    BY DEF RecordHumanReceipt, VerificationsIntact, ReviewReceiptsIntact
  <2> QED  BY <2>1, <2>2
<1>3. CASE Review
  <2> PICK r \in ReviewReceipts : RecordReviewReceipt(r)
    BY <1>3 DEF Review
  <2>1. ReviewReceiptsIntact'
    BY DEF ReviewReceiptsIntact, RecordReviewReceipt, ReviewReceiptAllowed
  <2>2. VerificationsIntact' /\ HumanReceiptsIntact'
    BY DEF RecordReviewReceipt, VerificationsIntact, HumanReceiptsIntact
  <2> QED  BY <2>1, <2>2
<1>4. CASE UNCHANGED receipts
  BY <1>4 DEF VerificationsIntact, HumanReceiptsIntact, ReviewReceiptsIntact
<1> QED
  BY <1>1, <1>2, <1>3, <1>4 DEF Next, vars, Create, CreateRun, Archive, ArchiveRun,
     Cancel, CancelRun, Start, StartAttempt, Retry, RetryAttempt, Recover,
     RecoverAttempt, ContinueWith, Observe, RecordObservation, Finalise,
     RecordAttemptFinality, Checkpoint, RecordCheckpoint

LEMMA ReceiptsAlwaysIntact == Spec => [](TypeOK /\ ReceiptsInv)
<1>1. Init => ReceiptsInv
  BY DEF Init, ReceiptsInv, VerificationsIntact, HumanReceiptsIntact, ReviewReceiptsIntact
<1> QED  BY <1>1, InitType, NextType, ReceiptsInductive, PTL DEF Spec

\* When the latest Attempt is PASSED each required check has a receipt, and no
\* receipt of a required check reports anything but PASS.
LEMMA PassedMeansAllPass ==
  ASSUME TypeOK, NEW a, VerificationStatus(a) = "PASSED"
  PROVE  /\ \A c \in RequiredChecks : \E r \in RequiredReceipts(a) : r.check = c
         /\ \A r \in RequiredReceipts(a) : r.outcome = "PASS"
<1>1. \A r \in RequiredReceipts(a) : r.outcome \in Outcomes
  BY DEF TypeOK, RequiredReceipts, VerificationReceipts
<1> QED  BY <1>1 DEF VerificationStatus, Outcomes

LEMMA ReadyMeansPassed ==
  ASSUME TypeOK, Lifecycle = "READY"
  PROVE  /\ Ended(Current)
         /\ VerificationStatus(Current) = "PASSED"
         /\ HumanGatesSatisfied(Current)
         /\ ReviewSatisfied(Current)
<1>1. AttemptLifecycle(Current) = "READY"
  BY DEF Lifecycle
<1>2. /\ Ended(Current) /\ VerificationStatus(Current) = "PASSED"
      /\ ReviewLifecycle(Current) = "READY"
  BY <1>1 DEF AttemptLifecycle
<1>3. ExhaustedGateFailureLifecycle(Current) # "READY"
  BY DEF ExhaustedGateFailureLifecycle
<1> QED  BY <1>2, <1>3 DEF ReviewLifecycle

\* READY rests on exactly one receipt per required check, gate and review, of
\* the latest Attempt, bound to the frozen Plan and reporting success: no
\* receipt of a superseded Attempt and no contradicting receipt is involved.
THEOREM ReadyAlwaysEarned == Spec => []ReadyIsEarned
<1>1. TypeOK /\ ReceiptsInv => ReadyIsEarned
  <2> SUFFICES ASSUME TypeOK, ReceiptsInv, Lifecycle = "READY"
               PROVE  /\ Ended(Current)
                      /\ \A c \in RequiredChecks :
                           {<<r.outcome, r.bound>> : r \in {v \in verifications :
                              v.attempt = Current /\ v.check = c}} = {<<"PASS", TRUE>>}
                      /\ \A g \in RequiredGates :
                           {<<r.decision, r.bound>> : r \in {h \in humanReceipts :
                              h.attempt = Current /\ h.step = g}} = {<<"APPROVED", TRUE>>}
                      /\ \A s \in RequiredReviews :
                           {<<r.outcome, r.severe, r.bound>> : r \in {v \in reviewReceipts :
                              v.attempt = Current /\ v.step = s}} = {<<"PASS", FALSE, TRUE>>}
    BY DEF ReadyIsEarned
  <2>1. Ended(Current)
    BY ReadyMeansPassed
  <2>2. ASSUME NEW c \in RequiredChecks
        PROVE  {<<r.outcome, r.bound>> : r \in {v \in verifications :
                  v.attempt = Current /\ v.check = c}} = {<<"PASS", TRUE>>}
    <3>1. PICK r \in RequiredReceipts(Current) : r.check = c /\ r.outcome = "PASS"
      BY ReadyMeansPassed, PassedMeansAllPass
    <3>2. r \in verifications /\ r.attempt = Current /\ r.bound = TRUE
      BY DEF RequiredReceipts, ReceiptsInv, VerificationsIntact, TypeOK,
             VerificationReceipts
    <3>3. \A v \in verifications : v.attempt = Current /\ v.check = c => v = r
      BY <3>1, <3>2 DEF ReceiptsInv, VerificationsIntact
    <3>4. {v \in verifications : v.attempt = Current /\ v.check = c} = {r}
      BY <3>1, <3>2, <3>3
    <3> QED  BY <3>1, <3>2, <3>4
  <2>3. ASSUME NEW g \in RequiredGates
        PROVE  {<<r.decision, r.bound>> : r \in {h \in humanReceipts :
                  h.attempt = Current /\ h.step = g}} = {<<"APPROVED", TRUE>>}
    <3>1. PICK r \in humanReceipts :
            r.attempt = Current /\ r.step = g /\ r.bound /\ r.decision = "APPROVED"
      BY ReadyMeansPassed DEF HumanGatesSatisfied
    <3>2. r.bound = TRUE
      BY <3>1 DEF TypeOK, HumanReceipts
    <3>3. {h \in humanReceipts : h.attempt = Current /\ h.step = g} = {r}
      BY <3>1 DEF ReceiptsInv, HumanReceiptsIntact
    <3> QED  BY <3>1, <3>2, <3>3
  <2>4. ASSUME NEW s \in RequiredReviews
        PROVE  {<<r.outcome, r.severe, r.bound>> : r \in {v \in reviewReceipts :
                  v.attempt = Current /\ v.step = s}} = {<<"PASS", FALSE, TRUE>>}
    <3>1. PICK r \in reviewReceipts :
            /\ r.attempt = Current /\ r.step = s /\ r.bound
            /\ r.outcome = "PASS" /\ ~r.severe
      BY ReadyMeansPassed DEF ReviewSatisfied
    <3>2. r.bound = TRUE /\ r.severe = FALSE
      BY <3>1 DEF TypeOK, ReviewReceipts
    <3>3. {v \in reviewReceipts : v.attempt = Current /\ v.step = s} = {r}
      BY <3>1 DEF ReceiptsInv, ReviewReceiptsIntact
    <3> QED  BY <3>1, <3>2, <3>3
  <2> QED  BY <2>1, <2>2, <2>3, <2>4
<1> QED  BY <1>1, ReceiptsAlwaysIntact, PTL

-----------------------------------------------------------------------------
(* No iteration left.                                                      *)

\* What an open gate or review of a Run without iterations turns into.
LEMMA ExhaustedGatesEnd ==
  ASSUME TypeOK, ReceiptsInv, NEW a, AllReported(a)
  PROVE  \/ HumanGatesSatisfied(a) /\ ReviewSatisfied(a)
         \/ ExhaustedGateFailureLifecycle(a) \in TerminalLifecycles
<1> DEFINE decisions == {r.decision : r \in GateReceipts(a)}
           outcomes  == {r.outcome : r \in StepReceipts(a)}
<1>1. CASE ~HumanGatesSatisfied(a)
  <2>1. PICK g \in RequiredGates : ~ \E r \in humanReceipts :
           /\ r.attempt = a /\ r.step = g /\ r.bound
           /\ r.decision = "APPROVED" /\ "APPROVED" \in AllowedDecisions
    BY <1>1 DEF HumanGatesSatisfied
  <2>2. PICK r \in humanReceipts : r.attempt = a /\ r.step = g
    BY DEF AllReported
  <2>3. r.bound /\ r.decision \in AllowedDecisions /\ r.decision \in Decisions
    BY PlanAssumption DEF ReceiptsInv, HumanReceiptsIntact
  <2>4. r \in GateReceipts(a)
    BY <2>2, <2>3 DEF GateReceipts
  <2>5. r.decision # "APPROVED"
    BY <2>1, <2>2, <2>3
  <2>6. "BLOCKED" \in decisions \/ "REJECTED" \in decisions
    BY <2>3, <2>4, <2>5 DEF Decisions
  <2> QED  BY <2>6 DEF ExhaustedGateFailureLifecycle, TerminalLifecycles
<1>2. CASE ~ReviewSatisfied(a)
  <2>1. PICK s \in RequiredReviews : ~ \E r \in reviewReceipts :
           /\ r.attempt = a /\ r.step = s /\ r.bound
           /\ r.outcome = "PASS" /\ ~r.severe
    BY <1>2 DEF ReviewSatisfied
  <2>2. PICK r \in reviewReceipts : r.attempt = a /\ r.step = s
    BY DEF AllReported
  <2>3. r.bound /\ r.outcome \in Outcomes
    BY DEF ReceiptsInv, ReviewReceiptsIntact, TypeOK, ReviewReceipts
  <2>4. r \in StepReceipts(a)
    BY <2>2, <2>3 DEF StepReceipts
  <2>5. r.outcome # "PASS" \/ r.severe
    BY <2>1, <2>2, <2>3
  <2>6. \/ "BLOCKED" \in outcomes \/ "FAIL" \in outcomes \/ "NOT_PROVEN" \in outcomes
        \/ \E q \in StepReceipts(a) : q.severe
    BY <2>3, <2>4, <2>5 DEF Outcomes
  <2> QED  BY <2>6 DEF ExhaustedGateFailureLifecycle, TerminalLifecycles
<1> QED  BY <1>1, <1>2

\* Once its last permitted Attempt has ended and everything required has
\* reported, every Run has an outcome.
THEOREM ExhaustedRunsEnd == Spec => []ExhaustedRunEnds
<1>1. TypeOK /\ ReceiptsInv => ExhaustedRunEnds
  <2> SUFFICES ASSUME TypeOK, ReceiptsInv, Exhausted, Ended(Current), AllReported(Current)
               PROVE  Lifecycle \in TerminalLifecycles
    BY DEF ExhaustedRunEnds
  <2> PICK a : a = Current
    OBVIOUS
  <2>1. attempts # <<>>
    BY PlanAssumption DEF Exhausted
  <2>2. \A c \in RequiredChecks : \E r \in RequiredReceipts(a) : r.check = c
    BY DEF AllReported, RequiredReceipts
  <2>3. VerificationStatus(a) \in {"FAILED", "BLOCKED", "NOT_PROVEN", "PASSED"}
    BY <2>2 DEF VerificationStatus
  <2>4. ReviewLifecycle(a) \in TerminalLifecycles
    BY ExhaustedGatesEnd DEF ReviewLifecycle, TerminalLifecycles
  <2>5. AttemptLifecycle(a) \in TerminalLifecycles
    BY <2>3, <2>4 DEF AttemptLifecycle, TerminalLifecycles
  <2> QED  BY <2>1, <2>5 DEF Lifecycle, TerminalLifecycles
<1> QED  BY <1>1, ReceiptsAlwaysIntact, PTL

-----------------------------------------------------------------------------
(* The chain of Attempts.  An event log only grows, so what justified an   *)
(* Attempt when it was started stays on record, and every predicate a      *)
(* continuation cites is monotone in the facts.                            *)

FactsGrow ==
    /\ observations \subseteq observations' /\ finalities \subseteq finalities'
    /\ verifications \subseteq verifications'
    /\ humanReceipts \subseteq humanReceipts'
    /\ reviewReceipts \subseteq reviewReceipts'
    /\ DOMAIN checkpoints \subseteq DOMAIN checkpoints'
    /\ \A c \in DOMAIN checkpoints : checkpoints'[c] = checkpoints[c]

\* No command withdraws a fact.
LEMMA NextGrows == TypeOK /\ [Next]_vars => FactsGrow
<1> SUFFICES ASSUME TypeOK, [Next]_vars PROVE FactsGrow
  OBVIOUS
<1>1. CASE Checkpoint
  BY <1>1, CheckpointAppended, CheckpointStep DEF RecordCheckpoint, FactsGrow
<1>2. CASE Verify \/ Decide \/ Review
  BY <1>2 DEF Verify, RecordVerification, Decide, RecordHumanReceipt, Review,
              RecordReviewReceipt, FactsGrow
<1>3. CASE Observe \/ Finalise
  BY <1>3 DEF Observe, RecordObservation, Finalise, RecordAttemptFinality, FactsGrow
<1>4. CASE UNCHANGED <<observations, finalities, receipts, checkpoints>>
  BY <1>4 DEF FactsGrow
<1> QED
  BY <1>1, <1>2, <1>3, <1>4 DEF Next, vars, Create, CreateRun, Archive, ArchiveRun,
     Cancel, CancelRun, Start, StartAttempt, Retry, RetryAttempt, Recover,
     RecoverAttempt, ContinueWith

-----------------------------------------------------------------------------
(* What justifies an Attempt.                                              *)

\* The body of ContinuationIsGrounded for Attempt at, which follows Attempt a.
Grounded(at, a) ==
    /\ Ended(a)
    /\ IF at.recoveryCheckpoint = 0
       THEN /\ HasFailed(a)
            /\ MatchingFailures(a, at.failure) # {}
            /\ at.evidence \subseteq FailureEvidence(a, at.failure)
       ELSE /\ Finalised(a)
            /\ at.recoveryCheckpoint \in CheckpointsOf(a)
            /\ \E o \in observations :
                  /\ o.attempt = a /\ o.kind = "PROCESS_EXITED"
                  /\ at.evidence \subseteq o.evidence

\* A verification status reports a failure exactly when a receipt of a
\* required check does.
LEMMA FailedStatus ==
  ASSUME TypeOK, NEW a
  PROVE  VerificationStatus(a) \in {"FAILED", "BLOCKED", "NOT_PROVEN"}
           <=> \E r \in RequiredReceipts(a) : r.outcome # "PASS"
<1>1. \A r \in RequiredReceipts(a) : r.outcome \in Outcomes
  BY DEF TypeOK, RequiredReceipts, VerificationReceipts
<1> QED  BY <1>1 DEF VerificationStatus, Outcomes

\* Later facts do not take a justification away.
LEMMA GroundedStays ==
  ASSUME TypeOK, TypeOK', FactsGrow, NEW CONSTANT at, NEW CONSTANT a, Grounded(at, a)
  PROVE  Grounded(at, a)'
<1>1. Ended(a)'
  BY DEF FactsGrow, Grounded, Ended, ExecutionStatus, Observed
<1>2. CASE at.recoveryCheckpoint = 0
  <2>1. GateFailures(a) \subseteq GateFailures(a)'
    BY DEF FactsGrow, GateFailures
  <2>2. Failures(a) \subseteq Failures(a)'
    BY <2>1 DEF FactsGrow, Failures
  <2>3. MatchingFailures(a, at.failure) \subseteq MatchingFailures(a, at.failure)'
    BY <2>2 DEF MatchingFailures
  <2>4. FailureEvidence(a, at.failure) \subseteq FailureEvidence(a, at.failure)'
    BY <2>3 DEF FailureEvidence
  <2>5. HasFailed(a)'
    <3>1. RequiredReceipts(a) \subseteq RequiredReceipts(a)'
      BY DEF FactsGrow, RequiredReceipts
    <3>2. CASE GateFailures(a) # {}
      BY <2>1, <3>2 DEF HasFailed
    <3>3. CASE VerificationStatus(a) \in {"FAILED", "BLOCKED", "NOT_PROVEN"}
      <4>1. \E r \in RequiredReceipts(a)' : r.outcome # "PASS"
        BY <3>1, <3>3, FailedStatus
      <4>2. VerificationStatus(a)' \in {"FAILED", "BLOCKED", "NOT_PROVEN"}
        <5>1. \A r \in RequiredReceipts(a)' : r.outcome \in Outcomes
          BY DEF TypeOK, RequiredReceipts, VerificationReceipts
        <5> QED  BY <4>1, <5>1 DEF VerificationStatus, Outcomes
      <4> QED  BY <4>2 DEF HasFailed
    <3> QED  BY <1>2, <3>2, <3>3 DEF Grounded, HasFailed
  <2> QED  BY <1>1, <1>2, <2>3, <2>4, <2>5 DEF Grounded
<1>3. CASE at.recoveryCheckpoint # 0
  <2>1. Finalised(a)'
    BY <1>3 DEF FactsGrow, Finalised, Grounded
  <2>2. at.recoveryCheckpoint \in CheckpointsOf(a)'
    BY <1>3 DEF FactsGrow, CheckpointsOf, Grounded
  <2> QED  BY <1>1, <1>3, <2>1, <2>2 DEF FactsGrow, Grounded
<1> QED  BY <1>2, <1>3

\* A continuation the kernel admits is justified when it is admitted.
LEMMA AdmittedIsGrounded ==
  ASSUME TypeOK, NEW req, RetryAttempt(req) \/ RecoverAttempt(req)
  PROVE  Grounded(req, Current)
<1>1. req.previous = Current /\ Ended(Current)
  BY DEF RetryAttempt, RecoverAttempt, ContinuationAllowed
<1>2. CASE RetryAttempt(req)
  BY <1>1, <1>2 DEF RetryAttempt, RetryEvidenceBound, Grounded
<1>3. CASE RecoverAttempt(req)
  <2>1. req.recoveryCheckpoint # 0
    BY <1>3 DEF RecoverAttempt, CheckpointsOf, TypeOK
  <2> QED
    BY <1>1, <1>3, <2>1 DEF RecoverAttempt, RecoveryFinal, RecoveryEvidenceBound, Grounded
<1> QED  BY <1>2, <1>3

\* The commands that touch the chain, in one fact.
LEMMA ChainStep ==
  ASSUME TypeOK, [Next]_vars
  PROVE  \/ UNCHANGED attempts
         \/ Start
         \/ \E req \in Requests : RetryAttempt(req) \/ RecoverAttempt(req)
  BY DEF Next, vars, Create, CreateRun, Archive, ArchiveRun, Cancel, CancelRun,
         Retry, Recover, Observe, RecordObservation, Finalise, RecordAttemptFinality,
         Verify, RecordVerification, Decide, RecordHumanReceipt, Review,
         RecordReviewReceipt, Checkpoint, RecordCheckpoint

\* ContinuationIsGrounded, said of an Attempt `at' and its predecessor a.
ChainGrounded ==
    \A a, at :
        a \in Nat \ {0} /\ a + 1 \in DOMAIN attempts /\ at = attempts[a + 1]
            => Grounded(at, a)

LEMMA GroundedInductive == TypeOK /\ ChainGrounded /\ [Next]_vars => ChainGrounded'
<1> SUFFICES ASSUME TypeOK, ChainGrounded, [Next]_vars,
                    NEW CONSTANT a \in Nat \ {0}, NEW CONSTANT at,
                    (a + 1 \in DOMAIN attempts /\ at = attempts[a + 1])'
             PROVE  Grounded(at, a)'
  BY DEF ChainGrounded
<1>1. TypeOK' /\ FactsGrow
  BY NextType, NextGrows
<1>2. CASE a + 1 \in DOMAIN attempts /\ attempts'[a + 1] = attempts[a + 1]
  <2>1. Grounded(at, a)
    BY <1>2 DEF ChainGrounded
  <2> QED  BY <1>1, <2>1, GroundedStays
<1>3. CASE \E req \in Requests :
              /\ RetryAttempt(req) \/ RecoverAttempt(req)
              /\ a + 1 = Len(attempts) + 1
  <2> PICK req \in Requests : /\ RetryAttempt(req) \/ RecoverAttempt(req)
                              /\ a + 1 = Len(attempts) + 1
    BY <1>3
  <2>1. at = req /\ a = Current
    BY AttemptAppended DEF RetryAttempt, RecoverAttempt, ContinueWith, Current, TypeOK
  <2>2. Grounded(req, Current)
    BY AdmittedIsGrounded
  <2>3. Grounded(at, a)
    BY <2>1, <2>2
  <2> QED  BY <1>1, <2>3, GroundedStays
<1>4. CASE UNCHANGED attempts
  BY <1>2, <1>4
<1>5. CASE Start
  BY <1>5 DEF Start, StartAttempt
<1>6. CASE \E req \in Requests : RetryAttempt(req) \/ RecoverAttempt(req)
  <2> PICK req \in Requests : RetryAttempt(req) \/ RecoverAttempt(req)
    BY <1>6
  <2>1. attempts' = Append(attempts, req)
    BY DEF RetryAttempt, RecoverAttempt, ContinueWith
  <2>2. a + 1 \in DOMAIN attempts \/ a + 1 = Len(attempts) + 1
    BY <2>1, AttemptAppended
  <2>3. CASE a + 1 \in DOMAIN attempts
    BY <1>2, <2>1, <2>3, AttemptAppended
  <2>4. CASE a + 1 = Len(attempts) + 1
    BY <1>3, <2>4
  <2> QED  BY <2>2, <2>3, <2>4
<1> QED  BY <1>4, <1>5, <1>6, ChainStep

\* Every Attempt after the first answers a failure of its predecessor that is on
\* record for good: a retry cites evidence of failing receipts, a recovery the
\* process exit and a Checkpoint of a finalised Attempt.
THEOREM ContinuationsAreGrounded == Spec => []ContinuationIsGrounded
<1>1. Init => ChainGrounded
  BY DEF Init, ChainGrounded
<1>2. TypeOK /\ ChainGrounded => ContinuationIsGrounded
  <2> SUFFICES ASSUME TypeOK, ChainGrounded, NEW n \in DOMAIN attempts, n > 1
               PROVE  Grounded(attempts[n], n - 1)
    BY DEF ContinuationIsGrounded, Grounded
  <2>1. n - 1 \in Nat \ {0} /\ (n - 1) + 1 = n
    BY DEF TypeOK
  <2> QED  BY <2>1 DEF ChainGrounded
<1> QED  BY <1>1, <1>2, InitType, NextType, GroundedInductive, PTL DEF Spec

-----------------------------------------------------------------------------
(* The loop policy.                                                        *)

\* One link of the chain and the next: time does not run backwards, nor is
\* budget given back.
Follows(early, late) ==
    /\ early.elapsedMs <= late.elapsedMs
    /\ early.remaining >= late.remaining
    /\ early.startedAt <= late.startedAt

ChainOrdered ==
    \A m, n \in DOMAIN attempts : m < n => Follows(attempts[m], attempts[n])

RepeatsBounded ==
    /\ \A n \in DOMAIN attempts : n = 1 => attempts[n].failure = NoFailure
    /\ \A f \in Fingerprints : StartedAfter(f) # {} =>
          Cardinality(StartedAfter(f)) < RepeatedFailureLimit

LEMMA AttemptFields ==
  ASSUME NEW at \in Attempts
  PROVE  /\ at.elapsedMs \in Int /\ at.remaining \in Int /\ at.startedAt \in Int
         /\ at.elapsedMs < MaxElapsedMs /\ at.remaining > 0
<1>1. /\ at.elapsedMs \in 0..(MaxElapsedMs - 1) /\ at.remaining \in 1..ResourceBudget
      /\ at.startedAt \in Times
  BY DEF Attempts
<1>2. MaxElapsedMs \in Int /\ ResourceBudget \in Int /\ Times \subseteq Int
  BY PlanAssumption, InputAssumption
<1>3. at.startedAt \in Int
  BY <1>1, <1>2
<1>4. at.elapsedMs \in Int /\ at.elapsedMs < MaxElapsedMs
  BY <1>1, <1>2
<1> QED  BY <1>1, <1>2, <1>3, <1>4

LEMMA OrderedStep ==
  ASSUME TypeOK, ChainOrdered, NEW req \in Requests,
         RetryAttempt(req) \/ RecoverAttempt(req)
  PROVE  ChainOrdered'
<1>1. attempts' = Append(attempts, req) /\ ContinuationAllowed(req)
  BY DEF RetryAttempt, RecoverAttempt, ContinueWith
<1>2. req \in Attempts /\ \A n \in DOMAIN attempts : attempts[n] \in Attempts
  BY <1>1, ContinuationType DEF TypeOK
<1>3. Current \in DOMAIN attempts /\ Follows(attempts[Current], req)
  BY <1>1 DEF ContinuationAllowed, ElapsedAllows, BudgetAllows, Follows, Requests,
              AttemptIndex, Current, TypeOK
<1>4. ASSUME NEW m \in DOMAIN attempts
      PROVE  Follows(attempts[m], req)
  <2>1. CASE m = Current
    BY <1>3, <2>1
  <2>2. CASE m # Current
    <3>1. Follows(attempts[m], attempts[Current])
      BY <1>3, <2>2 DEF ChainOrdered, Current, TypeOK
    <3> QED  BY <1>2, <1>3, <3>1, AttemptFields DEF Follows
  <2> QED  BY <2>1, <2>2
<1> HIDE DEF Follows
<1>5. \A m, n \in DOMAIN attempts' : m < n => Follows(attempts'[m], attempts'[n])
  BY <1>1, <1>4, AttemptAppended DEF ChainOrdered, TypeOK
<1> QED  BY <1>5 DEF ChainOrdered

\* The new Attempt counts for its own failure only, which had room for it.
LEMMA RepeatsStep ==
  ASSUME TypeOK, RepeatsBounded, NEW req \in Requests,
         RetryAttempt(req) \/ RecoverAttempt(req)
  PROVE  RepeatsBounded'
<1>1. attempts' = Append(attempts, req) /\ ContinuationAllowed(req)
  BY DEF RetryAttempt, RecoverAttempt, ContinueWith
<1>2. Len(attempts) \in Nat /\ Len(attempts) > 0
  BY <1>1 DEF ContinuationAllowed, Current, TypeOK, Requests, AttemptIndex
<1>3. \A n \in DOMAIN attempts' : n = 1 => attempts'[n].failure = NoFailure
  BY <1>1, <1>2, AttemptAppended DEF RepeatsBounded, TypeOK
<1>4. ASSUME NEW f \in Fingerprints, f # req.failure
      PROVE  StartedAfter(f)' = StartedAfter(f)
  BY <1>1, <1>4, AttemptAppended DEF StartedAfter
<1>5. /\ StartedAfter(req.failure)' = StartedAfter(req.failure) \cup {Len(attempts) + 1}
      /\ Len(attempts) + 1 \notin StartedAfter(req.failure)
  BY <1>1, AttemptAppended DEF StartedAfter, TypeOK
<1>6. IsFiniteSet(StartedAfter(req.failure))
  <2>1. IsFiniteSet(1..Len(attempts))
    BY <1>2, FS_Interval
  <2>2. StartedAfter(req.failure) \subseteq 1..Len(attempts)
    BY DEF StartedAfter, TypeOK
  <2> QED  BY <2>1, <2>2, FS_Subset
<1>7. Cardinality(StartedAfter(req.failure)') = Cardinality(StartedAfter(req.failure)) + 1
  BY <1>5, <1>6, FS_AddElement
<1>8. Cardinality(StartedAfter(req.failure)') < RepeatedFailureLimit
  BY <1>1, <1>7 DEF ContinuationAllowed, RepeatedFailureAllowed
<1>9. ASSUME NEW f \in Fingerprints, StartedAfter(f)' # {}
      PROVE  Cardinality(StartedAfter(f)') < RepeatedFailureLimit
  BY <1>4, <1>8, <1>9 DEF RepeatsBounded
<1> QED  BY <1>3, <1>9 DEF RepeatsBounded

LEMMA PolicyInductive ==
  TypeOK /\ ChainOrdered /\ RepeatsBounded /\ [Next]_vars
    => ChainOrdered' /\ RepeatsBounded'
<1> SUFFICES ASSUME TypeOK, ChainOrdered, RepeatsBounded, [Next]_vars
             PROVE  ChainOrdered' /\ RepeatsBounded'
  OBVIOUS
<1>1. CASE UNCHANGED attempts
  BY <1>1 DEF ChainOrdered, RepeatsBounded, StartedAfter
<1>2. CASE Start
  <2>1. DOMAIN attempts' = {1} /\ attempts'[1].failure = NoFailure
    BY <1>2 DEF Start, StartAttempt
  <2>2. ChainOrdered'
    BY <2>1 DEF ChainOrdered
  <2>3. \A f \in Fingerprints : StartedAfter(f)' = {}
    BY <2>1, InputAssumption DEF StartedAfter
  <2> QED  BY <2>1, <2>2, <2>3 DEF RepeatsBounded
<1>3. CASE \E req \in Requests : RetryAttempt(req) \/ RecoverAttempt(req)
  BY <1>3, OrderedStep, RepeatsStep
<1> QED  BY <1>1, <1>2, <1>3, ChainStep

\* Iterations and repeats of one failure stay bounded, and time and budgets
\* never run backwards or out, along the whole chain of Attempts of every Run.
THEOREM LoopPolicyIsKept == Spec => []LoopPolicyHolds
<1>1. Init => ChainOrdered /\ RepeatsBounded
  BY DEF Init, ChainOrdered, RepeatsBounded, StartedAfter
<1>2. TypeOK /\ ChainOrdered /\ RepeatsBounded => LoopPolicyHolds
  <2> SUFFICES ASSUME TypeOK, ChainOrdered, RepeatsBounded PROVE LoopPolicyHolds
    OBVIOUS
  <2>1. \A n \in DOMAIN attempts : attempts[n].elapsedMs < MaxElapsedMs
                                  /\ attempts[n].remaining > 0
    BY AttemptFields DEF TypeOK
  <2> QED  BY <2>1 DEF LoopPolicyHolds, ChainOrdered, Follows, RepeatsBounded, TypeOK
<1> QED  BY <1>1, <1>2, InitType, NextType, PolicyInductive, PTL DEF Spec

-----------------------------------------------------------------------------
(* The replay validator accepts what the kernel appends.                   *)

\* The latest command of a terminal Run: a Run is cancelled or archived only
\* after it was created, and archived only with an outcome.
ArchivedHasOutcome ==
    /\ cancelled => eventCursor > 0
    /\ archived => eventCursor > 0 /\ Lifecycle \in TerminalLifecycles

LEMMA ArchivedHasOutcomeInductive ==
  TypeOK /\ ArchivedHasOutcome /\ [Next]_vars => ArchivedHasOutcome'
<1> SUFFICES ASSUME TypeOK, ArchivedHasOutcome, [Next]_vars PROVE ArchivedHasOutcome'
  OBVIOUS
<1>1. CASE Deciding /\ archived' = archived /\ Append1
  BY <1>1 DEF Deciding, Accepting, ArchivedHasOutcome, Append1, TypeOK
<1>2. CASE Archive
  <2>1. CurrentFactsKept
    BY <1>2 DEF Archive, ArchiveRun, CurrentFactsKept, About
  <2> QED
    BY <1>2, <2>1, LifecycleReadsCurrent
       DEF Archive, ArchiveRun, ArchivedHasOutcome, Append1, TypeOK
<1>3. CASE Create
  BY <1>3 DEF Create, CreateRun, ArchivedHasOutcome, Append1, TypeOK
<1>4. CASE UNCHANGED vars
  <2>1. CurrentFactsKept
    BY <1>4 DEF vars, CurrentFactsKept, About
  <2> QED  BY <1>4, <2>1, LifecycleReadsCurrent DEF vars, ArchivedHasOutcome
<1>5. CASE Cancel \/ Start \/ Retry \/ Recover
  BY <1>1, <1>5 DEF Cancel, CancelRun, Start, StartAttempt, Retry, RetryAttempt,
     Recover, RecoverAttempt, ContinueWith
<1>6. CASE Observe \/ Finalise \/ Verify \/ Decide \/ Review \/ Checkpoint
  BY <1>1, <1>6 DEF Observe, RecordObservation, Finalise, RecordAttemptFinality,
     Verify, RecordVerification, Decide, RecordHumanReceipt, Review,
     RecordReviewReceipt, Checkpoint, RecordCheckpoint
<1> QED  BY <1>2, <1>3, <1>4, <1>5, <1>6 DEF Next

\* What ReplayAccepts says of one step, a kind of fact at a time.
AttemptReplays ==
    Len(attempts') > Len(attempts) => ReplayAcceptsAttempt(attempts'[Len(attempts')])
ObservationReplays ==
    \A o \in observations' \ observations : ReplayAcceptsObservation(o)
FinalityReplays ==
    \A f \in finalities' \ finalities : ReplayAcceptsFinality(f)
VerificationReplays ==
    \A r \in verifications' \ verifications :
        ReplayAcceptsReceipt(r, r.check \in Checks,
            \E p \in verifications : p.attempt = r.attempt /\ p.check = r.check)
HumanReceiptReplays ==
    \A r \in humanReceipts' \ humanReceipts :
        ReplayAcceptsReceipt(r, r.step \in Gates /\ r.decision \in AllowedDecisions,
            \E p \in humanReceipts : p.attempt = r.attempt /\ p.step = r.step)
ReviewReceiptReplays ==
    \A r \in reviewReceipts' \ reviewReceipts :
        ReplayAcceptsReceipt(r, r.step \in Reviews,
            \E p \in reviewReceipts : p.attempt = r.attempt /\ p.step = r.step)
CheckpointReplays ==
    Len(checkpoints') > Len(checkpoints) =>
        ReplayAcceptsCheckpoint(checkpoints'[Len(checkpoints')])
EndReplays ==
    /\ cancelled' # cancelled => ReplayAcceptsCancellation
    /\ archived' # archived => ReplayAcceptsArchive
    /\ archived => UNCHANGED vars
    /\ cancelled /\ ~archived' => UNCHANGED vars

AcceptedByReplay ==
    /\ AttemptReplays /\ ObservationReplays /\ FinalityReplays
    /\ VerificationReplays /\ HumanReceiptReplays /\ ReviewReceiptReplays
    /\ CheckpointReplays /\ EndReplays

\* A step that adds nothing of a kind is accepted as far as that kind goes.
LEMMA NothingNewReplays ==
  ASSUME TypeOK
  PROVE  /\ UNCHANGED attempts => AttemptReplays
         /\ UNCHANGED observations => ObservationReplays
         /\ UNCHANGED finalities => FinalityReplays
         /\ UNCHANGED verifications => VerificationReplays
         /\ UNCHANGED humanReceipts => HumanReceiptReplays
         /\ UNCHANGED reviewReceipts => ReviewReceiptReplays
         /\ UNCHANGED checkpoints => CheckpointReplays
         /\ UNCHANGED <<cancelled, archived>> /\ ~cancelled /\ ~archived => EndReplays
<1> Len(attempts) \in Nat /\ Len(checkpoints) \in Nat
  BY DEF TypeOK
<1>1. (UNCHANGED attempts => AttemptReplays) /\ (UNCHANGED checkpoints => CheckpointReplays)
  BY DEF AttemptReplays, CheckpointReplays
<1>2. /\ UNCHANGED observations => ObservationReplays
      /\ UNCHANGED finalities => FinalityReplays
  BY DEF ObservationReplays, FinalityReplays
<1>3. /\ UNCHANGED verifications => VerificationReplays
      /\ UNCHANGED humanReceipts => HumanReceiptReplays
      /\ UNCHANGED reviewReceipts => ReviewReceiptReplays
  BY DEF VerificationReplays, HumanReceiptReplays, ReviewReceiptReplays
<1>4. UNCHANGED <<cancelled, archived>> /\ ~cancelled /\ ~archived => EndReplays
  BY DEF EndReplays
<1> QED  BY <1>1, <1>2, <1>3, <1>4

\* A command that is decided at all meets a Run that is neither.
LEMMA DecidingIsOpen ==
  ASSUME TypeOK, ArchivedHasOutcome, Deciding
  PROVE  ~archived /\ ~cancelled
  BY DEF Deciding, Accepting, ArchivedHasOutcome, Lifecycle, TerminalLifecycles

\* Every failing receipt carries evidence.
LEMMA FailuresHaveEvidence ==
  ASSUME TypeOK, NEW a, NEW r \in Failures(a)
  PROVE  r.evidence # {}
<1>1. CASE r \in verifications /\ r.outcome # "PASS"
  BY <1>1 DEF TypeOK, VerificationReceipts, Failing
<1>2. CASE r \in humanReceipts /\ r.decision # "APPROVED"
  BY <1>2 DEF TypeOK, HumanReceipts, Failing
<1>3. CASE r \in reviewReceipts /\ (r.outcome # "PASS" \/ r.severe)
  BY <1>3 DEF TypeOK, ReviewReceipts, Failing
<1> QED  BY <1>1, <1>2, <1>3 DEF Failures, GateFailures

LEMMA ContinuationReplays ==
  ASSUME TypeOK, NEW req \in Requests, RetryAttempt(req) \/ RecoverAttempt(req)
  PROVE  ReplayAcceptsAttempt(req)
<1>1. ContinuationAllowed(req) /\ req.previous = Current
  BY DEF RetryAttempt, RecoverAttempt, ContinuationAllowed
<1>2. attempts # <<>>
  BY <1>1 DEF ContinuationAllowed, Current
<1>3. Grounded(req, Current)
  BY AdmittedIsGrounded
<1>4. ASSUME req.recoveryCheckpoint = 0
      PROVE  FailureEvidence(Current, req.failure) # {}
  <2> PICK a : a = Current
    OBVIOUS
  <2>1. PICK r \in MatchingFailures(a, req.failure) : TRUE
    BY <1>3, <1>4 DEF Grounded
  <2>2. r.evidence # {}
    BY <2>1, FailuresHaveEvidence DEF MatchingFailures
  <2>3. PICK e \in r.evidence : TRUE
    BY <2>2
  <2> QED  BY <2>1, <2>3 DEF FailureEvidence
<1>5. ReplayAcceptsNext(req, attempts[Current])
  BY <1>1, <1>3, <1>4 DEF ReplayAcceptsNext, ContinuationAllowed, Grounded, Current,
     UserInputAllows, WorkspaceDriftAllows, RepeatedFailureAllowed, BudgetAllows,
     ElapsedAllows
<1> QED  BY <1>2, <1>5 DEF ReplayAcceptsAttempt

LEMMA NextIsAccepted ==
  TypeOK /\ ArchivedHasOutcome /\ [Next]_vars => [AcceptedByReplay]_vars
<1> SUFFICES ASSUME TypeOK, ArchivedHasOutcome, Next PROVE AcceptedByReplay
  OBVIOUS
<1> USE NothingNewReplays DEF AcceptedByReplay
<1>1. CASE Create
  <2>1. ~archived /\ ~cancelled
    BY <1>1 DEF Create, CreateRun, ArchivedHasOutcome, TypeOK
  <2> QED  BY <1>1, <2>1 DEF Create, CreateRun
<1>2. CASE Archive
  <2>1. EndReplays
    BY <1>2 DEF Archive, ArchiveRun, ReplayAcceptsArchive, EndReplays
  <2> QED  BY <1>2, <2>1 DEF Archive, ArchiveRun
<1>3. Deciding => ~archived /\ ~cancelled
  BY DecidingIsOpen
<1>4. CASE Cancel
  <2>1. EndReplays
    BY <1>3, <1>4 DEF Cancel, CancelRun, CancelAllowed, ReplayAcceptsCancellation, Ended,
       EndReplays
  <2> QED  BY <1>4, <2>1 DEF Cancel, CancelRun
<1>5. CASE Start
  <2>1. AttemptReplays
    BY <1>5 DEF Start, StartAttempt, ReplayAcceptsAttempt, ReplayAcceptsFirst,
       AttemptReplays
  <2> QED  BY <1>3, <1>5, <2>1 DEF Start, StartAttempt
<1>6. CASE Retry \/ Recover
  <2> PICK req \in Requests : RetryAttempt(req) \/ RecoverAttempt(req)
    BY <1>6 DEF Retry, Recover
  <2>1. ContinueWith(req)
    BY DEF RetryAttempt, RecoverAttempt
  <2>2. attempts'[Len(attempts')] = req
    BY <2>1 DEF ContinueWith, TypeOK
  <2>3. AttemptReplays
    BY <2>2, ContinuationReplays DEF AttemptReplays
  <2> QED  BY <1>3, <1>6, <2>1, <2>3 DEF Retry, Recover, ContinueWith
<1>7. CASE Observe
  <2>1. ObservationReplays
    BY <1>7 DEF Observe, RecordObservation, ObservationAllowed, ObservationReplays,
       ReplayAcceptsObservation
  <2> QED  BY <1>3, <1>7, <2>1 DEF Observe, RecordObservation
<1>8. CASE Finalise
  <2>1. FinalityReplays
    BY <1>8 DEF Finalise, RecordAttemptFinality, FinalityAllowed, FinalityReplays,
       ReplayAcceptsFinality
  <2> QED  BY <1>3, <1>8, <2>1 DEF Finalise, RecordAttemptFinality
<1>9. CASE Verify
  <2>1. VerificationReplays
    BY <1>9 DEF Verify, RecordVerification, VerificationAllowed, VerificationReplays,
       ReplayAcceptsReceipt, VerificationReceipts
  <2> QED  BY <1>3, <1>9, <2>1 DEF Verify, RecordVerification
<1>10. CASE Decide
  <2>1. HumanReceiptReplays
    BY <1>10 DEF Decide, RecordHumanReceipt, HumanReceiptAllowed, HumanReceiptReplays,
       ReplayAcceptsReceipt, HumanReceipts
  <2> QED  BY <1>3, <1>10, <2>1 DEF Decide, RecordHumanReceipt
<1>11. CASE Review
  <2>1. ReviewReceiptReplays
    BY <1>11 DEF Review, RecordReviewReceipt, ReviewReceiptAllowed, ReviewReceiptReplays,
       ReplayAcceptsReceipt, ReviewReceipts
  <2> QED  BY <1>3, <1>11, <2>1 DEF Review, RecordReviewReceipt
<1>12. CASE Checkpoint
  <2> PICK c : RecordCheckpoint(c)
    BY <1>12, CheckpointStep
  <2>1. checkpoints'[Len(checkpoints')] = c
    BY DEF RecordCheckpoint, TypeOK
  <2>2. CheckpointReplays
    BY <2>1 DEF RecordCheckpoint, CheckpointAllowed, ReplayAcceptsCheckpoint,
       CheckpointReplays
  <2> QED  BY <1>3, <1>12, <2>2 DEF Checkpoint, RecordCheckpoint
<1> QED
  BY <1>1, <1>2, <1>4, <1>5, <1>6, <1>7, <1>8, <1>9, <1>10, <1>11, <1>12 DEF Next

\* Whatever command is accepted, the event it appends is one the replay
\* validator accepts: no Run, under any Plan Revision, becomes unreadable.
THEOREM AcceptedCommandsReplay == Spec => ReplayAccepts
<1>1. Init => ArchivedHasOutcome
  BY DEF Init, ArchivedHasOutcome
<1>2. TypeOK /\ ArchivedHasOutcome /\ [Next]_vars => [AcceptedByReplay]_vars
  BY NextIsAccepted
<1> QED
  BY <1>1, <1>2, InitType, NextType, ArchivedHasOutcomeInductive, PTL
     DEF Spec, ReplayAccepts, AcceptedByReplay, AttemptReplays, ObservationReplays,
     FinalityReplays, VerificationReplays, HumanReceiptReplays, ReviewReceiptReplays,
     CheckpointReplays, EndReplays

-----------------------------------------------------------------------------
(* The integrity of the projection.                                        *)

\* Attempts are never rewritten.
LEMMA AttemptsKeep ==
  ASSUME TypeOK, [Next]_vars
  PROVE  /\ DOMAIN attempts \subseteq DOMAIN attempts'
         /\ \A n \in DOMAIN attempts : attempts'[n] = attempts[n]
<1>1. CASE Start
  BY <1>1 DEF Start, StartAttempt
<1>2. CASE \E req \in Requests : RetryAttempt(req) \/ RecoverAttempt(req)
  BY <1>2, AttemptAppended DEF RetryAttempt, RecoverAttempt, ContinueWith
<1> QED  BY <1>1, <1>2, ChainStep

\* The clauses of the projection's integrity that speak of Attempts alone.
AttemptsSound ==
    /\ AttemptChainIntact
    /\ StopOnWorkspaceDrift =>
          \A n \in DOMAIN attempts : ~attempts[n].workspaceDriftDetected

LEMMA AttemptsSoundInductive == TypeOK /\ AttemptsSound /\ [Next]_vars => AttemptsSound'
<1> SUFFICES ASSUME TypeOK, AttemptsSound, [Next]_vars PROVE AttemptsSound'
  OBVIOUS
<1> USE DEF AttemptsSound, AttemptChainIntact
<1>1. CASE UNCHANGED attempts
  BY <1>1
<1>2. CASE Start
  BY <1>2 DEF Start, StartAttempt
<1>3. CASE \E req \in Requests : RetryAttempt(req) \/ RecoverAttempt(req)
  <2> PICK req \in Requests : RetryAttempt(req) \/ RecoverAttempt(req)
    BY <1>3
  <2>1. /\ attempts' = Append(attempts, req) /\ req.previous = Len(attempts)
        /\ StopOnWorkspaceDrift => ~req.workspaceDriftDetected
    BY DEF RetryAttempt, RecoverAttempt, ContinueWith, ContinuationAllowed, Current,
       WorkspaceDriftAllows
  <2> QED  BY <2>1, AttemptAppended DEF TypeOK
<1> QED  BY <1>1, <1>2, <1>3, ChainStep

\* The clauses that speak of Checkpoints alone.
CheckpointsSound ==
    \A c \in DOMAIN checkpoints :
        /\ checkpoints[c].cursor < eventCursor
        /\ checkpoints[c].attempt # 0 => checkpoints[c].attempt \in DOMAIN attempts

\* The commands that touch the Checkpoints, and the cursor they all advance.
LEMMA CheckpointsStep ==
  ASSUME TypeOK, [Next]_vars
  PROVE  \/ UNCHANGED checkpoints /\ eventCursor <= eventCursor'
         \/ Checkpoint
  BY DEF Next, vars, Create, CreateRun, Archive, ArchiveRun, Cancel, CancelRun,
         Start, StartAttempt, Retry, RetryAttempt, Recover, RecoverAttempt, ContinueWith,
         Observe, RecordObservation, Finalise, RecordAttemptFinality,
         Verify, RecordVerification, Decide, RecordHumanReceipt, Review,
         RecordReviewReceipt, Append1, TypeOK

LEMMA CheckpointsSoundInductive ==
  TypeOK /\ CheckpointsSound /\ [Next]_vars => CheckpointsSound'
<1> SUFFICES ASSUME TypeOK, CheckpointsSound, [Next]_vars PROVE CheckpointsSound'
  OBVIOUS
<1>0. \A c \in DOMAIN checkpoints : checkpoints[c].cursor \in Nat
  <2>1. \A c \in DOMAIN checkpoints : checkpoints[c] \in Checkpoints
    BY DEF TypeOK
  <2> QED  BY <2>1 DEF Checkpoints
<1>1. CASE UNCHANGED checkpoints /\ eventCursor <= eventCursor'
  BY <1>0, <1>1, AttemptsKeep, NextType DEF CheckpointsSound, TypeOK
<1>2. CASE Checkpoint
  <2> PICK c : RecordCheckpoint(c)
    BY <1>2, CheckpointStep
  <2>1. /\ checkpoints' = Append(checkpoints, c) /\ eventCursor' = eventCursor + 1
        /\ c.cursor = eventCursor /\ UNCHANGED attempts
        /\ c.attempt # 0 => c.attempt \in DOMAIN attempts
    BY DEF RecordCheckpoint, CheckpointAllowed, Append1
  <2> QED  BY <1>0, <2>1, CheckpointAppended DEF CheckpointsSound, TypeOK
<1> QED  BY <1>1, <1>2, CheckpointsStep

\* One Finality Receipt: it binds its Attempt's latest Checkpoint.
FinalitySound(f) ==
    /\ f.attempt \in DOMAIN attempts
    /\ IsLatestCheckpoint(f.attempt, f.checkpoint)
    /\ f.holdings = checkpoints[f.checkpoint].holdings
    /\ f.observedAt >= attempts[f.attempt].startedAt
    /\ f.observedAt >= checkpoints[f.checkpoint].createdAt

\* A later step leaves a Finality Receipt as sound as it was: its Attempt
\* receives no Checkpoint any more.
LEMMA FinalityStaysSound ==
  ASSUME TypeOK, [Next]_vars, NEW f \in finalities, FinalitySound(f)
  PROVE  FinalitySound(f)'
<1>1. f.checkpoint \in DOMAIN checkpoints
  BY DEF FinalitySound, IsLatestCheckpoint, CheckpointsOf
<1>2. {c \in DOMAIN checkpoints' : checkpoints'[c].attempt = f.attempt}
         = CheckpointsOf(f.attempt)
  BY FreezesAll DEF FreezesFacts
<1>3. CheckpointsOf(f.attempt)' = CheckpointsOf(f.attempt)
  BY <1>2 DEF CheckpointsOf
<1>4. checkpoints'[f.checkpoint] = checkpoints[f.checkpoint]
  BY <1>1, NextGrows DEF FactsGrow
<1>5. f.attempt \in DOMAIN attempts' /\ attempts'[f.attempt] = attempts[f.attempt]
  BY AttemptsKeep DEF FinalitySound
<1> QED  BY <1>3, <1>4, <1>5 DEF FinalitySound, IsLatestCheckpoint

FinalitiesSound ==
    /\ \A f, g \in finalities : f.attempt = g.attempt => f = g
    /\ \A f \in finalities : FinalitySound(f)

LEMMA FinalitiesSoundInductive ==
  TypeOK /\ FinalitiesSound /\ [Next]_vars => FinalitiesSound'
<1> SUFFICES ASSUME TypeOK, FinalitiesSound, [Next]_vars PROVE FinalitiesSound'
  OBVIOUS
<1>1. \A f \in finalities : FinalitySound(f)'
  BY FinalityStaysSound DEF FinalitiesSound
<1>2. CASE Finalise
  <2> PICK g \in Finalities : RecordAttemptFinality(g)
    BY <1>2 DEF Finalise
  <2>1. FinalitySound(g)'
    BY DEF RecordAttemptFinality, FinalityAllowed, FinalitySound, IsLatestCheckpoint,
       CheckpointsOf
  <2>2. \A f \in finalities : f.attempt # g.attempt
    BY DEF RecordAttemptFinality, FinalityAllowed, Finalised
  <2>3. finalities' = finalities \cup {g}
    BY DEF RecordAttemptFinality
  <2>4. \A f \in finalities' : FinalitySound(f)'
    BY <1>1, <2>1, <2>3
  <2> QED  BY <2>2, <2>3, <2>4 DEF FinalitiesSound
<1>3. CASE UNCHANGED finalities
  BY <1>1, <1>3 DEF FinalitiesSound
<1> QED
  BY <1>2, <1>3 DEF Next, vars, Create, CreateRun, Archive, ArchiveRun, Cancel,
     CancelRun, Start, StartAttempt, Retry, RetryAttempt, Recover, RecoverAttempt,
     ContinueWith, Observe, RecordObservation, Verify, RecordVerification, Decide,
     RecordHumanReceipt, Review, RecordReviewReceipt, Checkpoint, RecordCheckpoint

\* The facts are finitely many, and the cursor counts them.
FactsFinite ==
    /\ IsFiniteSet(observations) /\ IsFiniteSet(finalities)
    /\ IsFiniteSet(verifications) /\ IsFiniteSet(humanReceipts)
    /\ IsFiniteSet(reviewReceipts)

Ends == (IF cancelled THEN 1 ELSE 0) + (IF archived THEN 1 ELSE 0)

Chained  == Len(attempts) + Len(checkpoints)
Reported == Cardinality(observations) + Cardinality(finalities)
Received == Cardinality(verifications) + Cardinality(humanReceipts)
              + Cardinality(reviewReceipts)
FactCount == Chained + Reported + Received + Ends

CursorSound ==
    /\ FactsFinite
    /\ eventCursor > 0 => eventCursor = 1 + FactCount
    /\ eventCursor = 0 => FactCount = 0

\* A fact not yet on record adds one to its kind.
LEMMA OneMore ==
  ASSUME NEW S, IsFiniteSet(S), NEW r, r \notin S
  PROVE  /\ IsFiniteSet(S \cup {r}) /\ Cardinality(S \cup {r}) = Cardinality(S) + 1
         /\ Cardinality(S) \in Nat
  BY FS_AddElement, FS_CardinalityType

LEMMA CursorSoundInductive == TypeOK /\ ArchivedHasOutcome /\ CursorSound /\ [Next]_vars => CursorSound'
<1> SUFFICES ASSUME TypeOK, ArchivedHasOutcome, CursorSound, [Next]_vars PROVE CursorSound'
  OBVIOUS
<1>0. /\ Cardinality(observations) \in Nat /\ Cardinality(finalities) \in Nat
      /\ Cardinality(verifications) \in Nat /\ Cardinality(humanReceipts) \in Nat
      /\ Cardinality(reviewReceipts) \in Nat
      /\ Len(attempts) \in Nat /\ Len(checkpoints) \in Nat /\ eventCursor \in Nat
      /\ Ends \in Nat /\ Chained \in Nat /\ Reported \in Nat /\ Received \in Nat
  BY FS_CardinalityType
     DEF CursorSound, FactsFinite, TypeOK, Ends, Chained, Reported, Received
<1>a. /\ UNCHANGED <<cancelled, archived>> => Ends' = Ends
      /\ UNCHANGED <<attempts, checkpoints>> => Chained' = Chained
      /\ UNCHANGED <<observations, finalities>> => Reported' = Reported
      /\ UNCHANGED receipts => Received' = Received
  BY DEF Ends, Chained, Reported, Received
<1>1. ASSUME Append1, FactsFinite', FactCount' = FactCount + 1, eventCursor > 0
      PROVE  CursorSound'
  <2>1. FactCount \in Nat
    BY <1>0 DEF FactCount
  <2> QED  BY <1>0, <1>1, <2>1 DEF CursorSound, Append1
<1>2. Deciding => eventCursor > 0 /\ ~cancelled /\ ~archived
  BY DecidingIsOpen DEF Deciding, Accepting
<1>3. CASE Create
  <2>1. FactsFinite' /\ FactCount' = FactCount /\ eventCursor = 0 /\ eventCursor' = 1
    BY <1>0, <1>a, <1>3 DEF Create, CreateRun, FactsFinite, FactCount, CursorSound,
       Append1
  <2> QED  BY <2>1 DEF CursorSound
<1>4. CASE Archive
  BY <1>0, <1>a, <1>1, <1>4 DEF Archive, ArchiveRun, FactsFinite, FactCount, Ends, CursorSound
<1>5. CASE Cancel
  BY <1>0, <1>a, <1>1, <1>2, <1>5 DEF Cancel, CancelRun, FactsFinite, FactCount, Ends,
     CursorSound
<1>6. CASE Start
  <2>1. Len(attempts) = 0 /\ Len(attempts') = 1
    BY <1>6 DEF Start, StartAttempt
  <2>2. UNCHANGED <<observations, finalities, verifications, humanReceipts,
                     reviewReceipts, checkpoints, cancelled, archived>> /\
                     Append1 /\ Deciding
    BY <1>6 DEF Start, StartAttempt
  <2>3. FactCount' = FactCount + 1
    BY <1>0, <2>1, <2>2, <1>a DEF FactCount, Chained
  <2>4. FactsFinite'
    BY <2>1, <2>2 DEF FactsFinite, CursorSound
  <2> QED  BY <1>1, <1>2, <2>2, <2>3, <2>4
<1>7. CASE Retry \/ Recover
  <2> PICK req : ContinueWith(req)
    BY <1>7 DEF Retry, RetryAttempt, Recover, RecoverAttempt
  <2>1. Len(attempts') = Len(attempts) + 1
    BY DEF ContinueWith, TypeOK
  <2>2. UNCHANGED <<observations, finalities, verifications, humanReceipts,
                     reviewReceipts, checkpoints, cancelled, archived>> /\
                     Append1 /\ Deciding
    BY <1>7 DEF Retry, Recover, ContinueWith
  <2>3. FactCount' = FactCount + 1
    BY <1>0, <2>1, <2>2, <1>a DEF FactCount, Chained
  <2>4. FactsFinite'
    BY <2>1, <2>2 DEF FactsFinite, CursorSound
  <2> QED  BY <1>1, <1>2, <2>2, <2>3, <2>4
<1>8. CASE Observe
  <2> PICK o \in Observations : RecordObservation(o)
    BY <1>8 DEF Observe
  <2>1. o \notin observations
    BY DEF RecordObservation, ObservationAllowed
  <2>2. IsFiniteSet(observations') /\ Cardinality(observations') = Cardinality(observations) + 1
    BY <2>1, OneMore DEF RecordObservation, CursorSound, FactsFinite
  <2>3. UNCHANGED <<attempts, finalities, verifications, humanReceipts,
                     reviewReceipts, checkpoints, cancelled, archived>> /\
                     Append1 /\ Deciding
    BY <1>8 DEF Observe, RecordObservation
  <2>4. Reported' = Reported + 1
    BY <1>0, <2>2, <2>3 DEF Reported
  <2>5. FactCount' = FactCount + 1
    BY <1>0, <2>3, <2>4, <1>a DEF FactCount
  <2>6. FactsFinite'
    BY <2>2, <2>3 DEF FactsFinite, CursorSound
  <2> QED  BY <1>1, <1>2, <2>3, <2>5, <2>6
<1>9. CASE Finalise
  <2> PICK f \in Finalities : RecordAttemptFinality(f)
    BY <1>9 DEF Finalise
  <2>1. f \notin finalities
    BY DEF RecordAttemptFinality, FinalityAllowed, Finalised
  <2>2. IsFiniteSet(finalities') /\ Cardinality(finalities') = Cardinality(finalities) + 1
    BY <2>1, OneMore DEF RecordAttemptFinality, CursorSound, FactsFinite
  <2>3. UNCHANGED <<attempts, observations, verifications, humanReceipts,
                     reviewReceipts, checkpoints, cancelled, archived>> /\
                     Append1 /\ Deciding
    BY <1>9 DEF Finalise, RecordAttemptFinality
  <2>4. Reported' = Reported + 1
    BY <1>0, <2>2, <2>3 DEF Reported
  <2>5. FactCount' = FactCount + 1
    BY <1>0, <2>3, <2>4, <1>a DEF FactCount
  <2>6. FactsFinite'
    BY <2>2, <2>3 DEF FactsFinite, CursorSound
  <2> QED  BY <1>1, <1>2, <2>3, <2>5, <2>6
<1>10. CASE Verify
  <2> PICK r \in VerificationReceipts : RecordVerification(r)
    BY <1>10 DEF Verify
  <2>1. r \notin verifications
    BY DEF RecordVerification, VerificationAllowed
  <2>2. IsFiniteSet(verifications') /\ Cardinality(verifications') = Cardinality(verifications) + 1
    BY <2>1, OneMore DEF RecordVerification, CursorSound, FactsFinite
  <2>3. UNCHANGED <<attempts, observations, finalities, humanReceipts,
                     reviewReceipts, checkpoints, cancelled, archived>> /\
                     Append1 /\ Deciding
    BY <1>10 DEF Verify, RecordVerification
  <2>4. Received' = Received + 1
    BY <1>0, <2>2, <2>3 DEF Received
  <2>5. FactCount' = FactCount + 1
    BY <1>0, <2>3, <2>4, <1>a DEF FactCount
  <2>6. FactsFinite'
    BY <2>2, <2>3 DEF FactsFinite, CursorSound
  <2> QED  BY <1>1, <1>2, <2>3, <2>5, <2>6
<1>11. CASE Decide
  <2> PICK r \in HumanReceipts : RecordHumanReceipt(r)
    BY <1>11 DEF Decide
  <2>1. r \notin humanReceipts
    BY DEF RecordHumanReceipt, HumanReceiptAllowed
  <2>2. IsFiniteSet(humanReceipts') /\ Cardinality(humanReceipts') = Cardinality(humanReceipts) + 1
    BY <2>1, OneMore DEF RecordHumanReceipt, CursorSound, FactsFinite
  <2>3. UNCHANGED <<attempts, observations, finalities, verifications,
                     reviewReceipts, checkpoints, cancelled, archived>> /\
                     Append1 /\ Deciding
    BY <1>11 DEF Decide, RecordHumanReceipt
  <2>4. Received' = Received + 1
    BY <1>0, <2>2, <2>3 DEF Received
  <2>5. FactCount' = FactCount + 1
    BY <1>0, <2>3, <2>4, <1>a DEF FactCount
  <2>6. FactsFinite'
    BY <2>2, <2>3 DEF FactsFinite, CursorSound
  <2> QED  BY <1>1, <1>2, <2>3, <2>5, <2>6
<1>12. CASE Review
  <2> PICK r \in ReviewReceipts : RecordReviewReceipt(r)
    BY <1>12 DEF Review
  <2>1. r \notin reviewReceipts
    BY DEF RecordReviewReceipt, ReviewReceiptAllowed
  <2>2. IsFiniteSet(reviewReceipts') /\ Cardinality(reviewReceipts') = Cardinality(reviewReceipts) + 1
    BY <2>1, OneMore DEF RecordReviewReceipt, CursorSound, FactsFinite
  <2>3. UNCHANGED <<attempts, observations, finalities, verifications,
                     humanReceipts, checkpoints, cancelled, archived>> /\
                     Append1 /\ Deciding
    BY <1>12 DEF Review, RecordReviewReceipt
  <2>4. Received' = Received + 1
    BY <1>0, <2>2, <2>3 DEF Received
  <2>5. FactCount' = FactCount + 1
    BY <1>0, <2>3, <2>4, <1>a DEF FactCount
  <2>6. FactsFinite'
    BY <2>2, <2>3 DEF FactsFinite, CursorSound
  <2> QED  BY <1>1, <1>2, <2>3, <2>5, <2>6
<1>13. CASE Checkpoint
  <2> PICK c : RecordCheckpoint(c)
    BY <1>13, CheckpointStep
  <2>1. Len(checkpoints') = Len(checkpoints) + 1
    BY DEF RecordCheckpoint, TypeOK
  <2>2. UNCHANGED <<attempts, observations, finalities, verifications,
                     humanReceipts, reviewReceipts, cancelled, archived>>
                     /\ Append1 /\ Deciding
    BY <1>13 DEF Checkpoint, RecordCheckpoint
  <2>3. FactCount' = FactCount + 1
    BY <1>0, <2>1, <2>2, <1>a DEF FactCount, Chained
  <2>4. FactsFinite'
    BY <2>1, <2>2 DEF FactsFinite, CursorSound
  <2> QED  BY <1>1, <1>2, <2>2, <2>3, <2>4
<1>14. CASE UNCHANGED vars
  BY <1>a, <1>14 DEF vars, FactsFinite, FactCount, CursorSound
<1> QED
  BY <1>3, <1>4, <1>5, <1>6, <1>7, <1>8, <1>9, <1>10, <1>11, <1>12, <1>13, <1>14
     DEF Next

\* Every Run the kernel can be led to passes the integrity check its Archive
\* and its summary make, under every Plan Revision: receipts bound and unique,
\* Finality Receipts still at the latest Checkpoint, the chain unbroken, no
\* retry across drift, and the cursor equal to the number of facts.
THEOREM ProjectionsAreIntact == Spec => []ProjectionIntegrity
<1> DEFINE Inv == /\ TypeOK /\ ReceiptsInv /\ ArchivedHasOutcome /\ AttemptsSound
                  /\ CheckpointsSound /\ FinalitiesSound /\ CursorSound
<1>1. Init => Inv
  <2> SUFFICES ASSUME Init PROVE Inv
    OBVIOUS
  <2>1. TypeOK
    BY InitType
  <2>2. ReceiptsInv
    BY DEF Init, ReceiptsInv, VerificationsIntact, HumanReceiptsIntact, ReviewReceiptsIntact
  <2>3. ArchivedHasOutcome /\ AttemptsSound /\ CheckpointsSound /\ FinalitiesSound
    BY DEF Init, ArchivedHasOutcome, AttemptsSound, AttemptChainIntact, CheckpointsSound,
       FinalitiesSound
  <2>4. CursorSound
    BY FS_EmptySet DEF Init, CursorSound, FactsFinite, FactCount, Ends,
       Chained, Reported, Received
  <2> QED  BY <2>1, <2>2, <2>3, <2>4
<1>2. Inv /\ [Next]_vars => Inv'
  BY NextType, ReceiptsInductive, ArchivedHasOutcomeInductive, AttemptsSoundInductive,
     CheckpointsSoundInductive, FinalitiesSoundInductive, CursorSoundInductive
<1>3. Inv => ProjectionIntegrity
  <2> SUFFICES ASSUME Inv PROVE ProjectionIntegrity
    OBVIOUS
  <2>1. FinalitiesIntact
    BY DEF FinalitiesSound, FinalitySound, FinalitiesIntact
  <2>2. ReceiptsIntact
    BY ReceiptsInvIsIntact
  <2>3. CursorCountsFacts
    <3>1. /\ Cardinality(observations) \in Nat /\ Cardinality(finalities) \in Nat
          /\ Cardinality(verifications) \in Nat /\ Cardinality(humanReceipts) \in Nat
          /\ Cardinality(reviewReceipts) \in Nat
          /\ Len(attempts) \in Nat /\ Len(checkpoints) \in Nat
      BY FS_CardinalityType DEF CursorSound, FactsFinite, TypeOK
    <3>2. FactCount = (Len(attempts) + Len(checkpoints))
            + (Cardinality(observations) + Cardinality(finalities))
            + (Cardinality(verifications) + Cardinality(humanReceipts)
                 + Cardinality(reviewReceipts))
            + ((IF cancelled THEN 1 ELSE 0) + (IF archived THEN 1 ELSE 0))
      BY DEF FactCount, Chained, Reported, Received, Ends
    <3>3. PICK a, c, o, f, v, h, r, one, two \in Nat :
            /\ a = Len(attempts) /\ c = Len(checkpoints)
            /\ o = Cardinality(observations) /\ f = Cardinality(finalities)
            /\ v = Cardinality(verifications) /\ h = Cardinality(humanReceipts)
            /\ r = Cardinality(reviewReceipts)
            /\ one = (IF cancelled THEN 1 ELSE 0) /\ two = (IF archived THEN 1 ELSE 0)
      BY <3>1
    <3>4. (a + c) + (o + f) + (v + h + r) + (one + two)
            = a + o + f + v + h + r + c + one + two
      OBVIOUS
    <3>5. eventCursor > 0 => eventCursor = 1 + (a + o + f + v + h + r + c + one + two)
      BY <3>2, <3>3, <3>4 DEF CursorSound
    <3>6. 1 + (a + o + f + v + h + r + c + one + two)
            = 1 + a + o + f + v + h + r + c + one + two
      OBVIOUS
    <3> QED  BY <3>3, <3>5, <3>6 DEF CursorCountsFacts
  <2> QED
    BY <2>1, <2>2, <2>3 DEF AttemptsSound, CheckpointsSound, ProjectionIntegrity
<1> QED  BY <1>1, <1>2, <1>3, PTL DEF Spec
=============================================================================
