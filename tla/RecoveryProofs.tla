--------------------------- MODULE RecoveryProofs ---------------------------
(***************************************************************************)
(* The hand-over between Attempts, for any number of coordinators,         *)
(* requests, Checkpoints and interruptions.                                *)
(*                                                                         *)
(* SafeHandover is not inductive: when RECOVER_ATTEMPT is sent, that the   *)
(* interrupted Attempt is final was established two commands earlier.      *)
(* The invariant therefore remembers it for every coordinator between its  *)
(* reconciliation and its last command, and that what a coordinator read   *)
(* never names an Attempt still to come.                                   *)
(***************************************************************************)
EXTENDS Recovery, TLAPS

\* An Attempt as far as the argument needs it: something of a fixed shape.
Links ==
    [previous : Int, failure : Fingerprints \cup {NoFailure},
     evidence : SUBSET EvidenceIds, recoveryCheckpoint : Int,
     userInputRequired : BOOLEAN, workspaceDriftDetected : BOOLEAN,
     elapsedMs : Int, remaining : Int, startedAt : Times]

Sending == {"observe", "finalise", "recover"}

Shapes ==
    /\ attempts \in Seq(Links) /\ 0 \notin live
    /\ DOMAIN pc = Coordinators /\ DOMAIN view = Coordinators
    /\ DOMAIN request = Coordinators /\ DOMAIN evidence = Coordinators
    /\ \A p \in Coordinators :
          evidence[p] \in EvidenceIds /\ request[p].checkpoint \in Int

ReadsThePast ==
    \A p \in Coordinators : Interrupted(p) \in Int /\ Interrupted(p) <= Current

FinalWhileSending ==
    \A p \in Coordinators : pc[p] \in Sending => Interrupted(p) \notin live

HandoverInv == Shapes /\ ReadsThePast /\ FinalWhileSending /\ SafeHandover

LEMMA HandoverInit == RecoveryInit => HandoverInv
<1> SUFFICES ASSUME RecoveryInit PROVE HandoverInv
  OBVIOUS
<1>1. Current = 0 /\ attempts \in Seq(Links)
  BY DEF RecoveryInit, Init, Current
<1>2. Shapes
  BY <1>1, RecoveryAssumption DEF RecoveryInit, Shapes, Idle
<1>3. ReadsThePast /\ FinalWhileSending /\ SafeHandover
  BY <1>1 DEF RecoveryInit, ReadsThePast, FinalWhileSending, SafeHandover,
              Interrupted, Blank, Sending
<1> QED  BY <1>2, <1>3 DEF HandoverInv

\* A call that ends leaves nothing behind that the invariant speaks about.
LEMMA ForgetKeeps ==
  ASSUME HandoverInv, NEW p \in Coordinators, Forget(p),
         UNCHANGED <<attempts, live>>
  PROVE  HandoverInv'
<1>1. Shapes'
  BY RecoveryAssumption DEF HandoverInv, Shapes, Forget, Goto, Idle
<1>2. ReadsThePast'
  <2>1. Current' = Current /\ Current \in Nat
    BY DEF HandoverInv, Shapes, Current
  <2>2. Interrupted(p)' = 0
    BY DEF HandoverInv, Shapes, Forget, Interrupted, Blank
  <2>3. \A q \in Coordinators \ {p} : Interrupted(q)' = Interrupted(q)
    BY DEF HandoverInv, Shapes, Forget, Interrupted
  <2> QED  BY <2>1, <2>2, <2>3 DEF HandoverInv, ReadsThePast
<1>3. FinalWhileSending'
  BY DEF HandoverInv, Shapes, FinalWhileSending, Forget, Goto, Interrupted, Sending
<1>4. SafeHandover'
  BY DEF HandoverInv, SafeHandover, Current
<1> QED  BY <1>1, <1>2, <1>3, <1>4 DEF HandoverInv

\* A coordinator that moves on among its commands, with what it read.
LEMMA AdvanceKeeps ==
  ASSUME HandoverInv, NEW p \in Coordinators, NEW label, Goto(p, label),
         Interrupted(p) \notin live \/ label \notin Sending,
         UNCHANGED <<attempts, live, view, request>>,
         DOMAIN evidence' = Coordinators,
         \A q \in Coordinators : evidence'[q] \in EvidenceIds
  PROVE  HandoverInv'
<1>1. Shapes'
  BY DEF HandoverInv, Shapes, Goto
<1>2. ReadsThePast' /\ SafeHandover'
  BY DEF HandoverInv, ReadsThePast, SafeHandover, Interrupted, Current
<1>3. FinalWhileSending'
  BY DEF HandoverInv, Shapes, FinalWhileSending, Goto, Interrupted
<1> QED  BY <1>1, <1>2, <1>3 DEF HandoverInv

\* A new Attempt with its processes, when no earlier one has any left.
LEMMA NewAttemptKeeps ==
  ASSUME HandoverInv, live = {}, NEW at \in Links,
         attempts' = Append(attempts, at), live' = {Current + 1},
         DOMAIN pc' = Coordinators, UNCHANGED <<request, view, evidence>>
  PROVE  HandoverInv'
<1>1. Current \in Nat /\ Current' = Current + 1 /\ attempts' \in Seq(Links)
  BY DEF HandoverInv, Shapes, Current
<1>2. Shapes'
  BY <1>1 DEF HandoverInv, Shapes
<1>3. ReadsThePast' /\ SafeHandover'
  BY <1>1 DEF HandoverInv, ReadsThePast, SafeHandover, Interrupted
<1>4. FinalWhileSending'
  BY <1>1 DEF HandoverInv, ReadsThePast, FinalWhileSending, Interrupted
<1> QED  BY <1>2, <1>3, <1>4 DEF HandoverInv

LEMMA SendRecoverKeeps ==
  ASSUME HandoverInv, NEW p \in Coordinators, SendRecover(p)
  PROVE  HandoverInv'
<1> PICK f \in Fingerprints, t \in Times :
      LET name == request[p].name
          req == [previous |-> Interrupted(p), failure |-> f,
                  evidence |-> {evidence[p]}, recoveryCheckpoint |-> Asked(p),
                  userInputRequired |-> FALSE, workspaceDriftDetected |-> FALSE,
                  elapsedMs |-> 0, remaining |-> ResourceBudget, startedAt |-> t]
      IN  \/ /\ Accepting /\ RecoverAllowed(name, req) /\ RecoverAttempt(req)
             /\ names' = Append(names, name) /\ live' = live \cup {Current + 1}
             /\ Goto(p, "answer") /\ UNCHANGED <<request, view, evidence>>
          \/ /\ ~(Accepting /\ RecoverAllowed(name, req)) /\ Rejected(p)
             /\ UNCHANGED <<names, live>>
  BY DEF SendRecover
<1> DEFINE req == [previous |-> Interrupted(p), failure |-> f,
                   evidence |-> {evidence[p]}, recoveryCheckpoint |-> Asked(p),
                   userInputRequired |-> FALSE, workspaceDriftDetected |-> FALSE,
                   elapsedMs |-> 0, remaining |-> ResourceBudget, startedAt |-> t]
<1>1. CASE Rejected(p) /\ UNCHANGED <<names, live>>
  BY <1>1, ForgetKeeps DEF Rejected, kernel, vars
<1>2. CASE /\ RecoverAllowed(request[p].name, req) /\ RecoverAttempt(req)
           /\ live' = live \cup {Current + 1}
           /\ Goto(p, "answer") /\ UNCHANGED <<request, view, evidence>>
  <2>1. req \in Links
    BY PlanAssumption DEF HandoverInv, Shapes, ReadsThePast, Links, Asked
  <2>2. Interrupted(p) = Current
    BY <1>2 DEF RecoverAllowed, ContinuationAllowed
  <2>3. live = {}
    BY <2>2 DEF HandoverInv, FinalWhileSending, SafeHandover, SendRecover, Sending
  <2>4. attempts' = Append(attempts, req)
    BY <1>2 DEF RecoverAttempt, ContinueWith
  <2>5. DOMAIN pc' = Coordinators /\ live' = {Current + 1}
    BY <1>2, <2>3 DEF Goto, HandoverInv, Shapes
  <2> HIDE DEF req
  <2> QED  BY <1>2, <2>1, <2>3, <2>4, <2>5, NewAttemptKeeps
<1> QED  BY <1>1, <1>2

\* The owner and the Checkpoint recorder leave the coordinators alone.
LEMMA OwnerKeeps ==
  ASSUME HandoverInv, Owner \/ CaptureCheckpoint \/ CommitCheckpoint
  PROVE  HandoverInv'
<1>1. CASE OwnerStarts
  <2> PICK t \in Times : StartAttempt(t)
    BY <1>1 DEF OwnerStarts
  <2> DEFINE at == [previous |-> 0, failure |-> NoFailure, evidence |-> {},
                    recoveryCheckpoint |-> 0, userInputRequired |-> FALSE,
                    workspaceDriftDetected |-> FALSE, elapsedMs |-> 0,
                    remaining |-> ResourceBudget, startedAt |-> t]
  <2>1. at \in Links
    BY PlanAssumption DEF Links
  <2>2. attempts = <<>> /\ attempts' = <<at>>
    BY DEF StartAttempt
  <2>3. live = {}
    BY <2>2 DEF HandoverInv, SafeHandover, Current, Shapes
  <2>4. attempts' = Append(attempts, at) /\ live' = {Current + 1}
    BY <1>1, <2>2 DEF OwnerStarts, Current
  <2>5. DOMAIN pc' = Coordinators /\ UNCHANGED <<request, view, evidence>>
    BY <1>1 DEF OwnerStarts, memory, HandoverInv, Shapes
  <2> HIDE DEF at
  <2> QED  BY <2>1, <2>3, <2>4, <2>5, NewAttemptKeeps
<1>2. CASE \E n \in AttemptIndex : Ends(n)
  <2>1. live' \subseteq live /\ UNCHANGED <<attempts, pc, view, request, evidence>>
    BY <1>2 DEF Ends, kernel, vars, memory
  <2> QED
    BY <2>1 DEF HandoverInv, Shapes, ReadsThePast, FinalWhileSending, SafeHandover,
                Interrupted, Current
<1>3. CASE OwnerCreates \/ OwnerObserves \/ OwnerCancels
           \/ CaptureCheckpoint \/ CommitCheckpoint
  <2>1. UNCHANGED <<attempts, live, pc, view, request, evidence>>
    BY <1>3 DEF OwnerCreates, CreateRun, OwnerObserves, RecordObservation,
                OwnerCancels, CancelRun, CaptureCheckpoint, CommitCheckpoint,
                RecordCheckpoint, kernel, vars, memory
  <2> QED
    BY <2>1 DEF HandoverInv, Shapes, ReadsThePast, FinalWhileSending, SafeHandover,
                Interrupted, Current
<1> QED  BY <1>1, <1>2, <1>3 DEF Owner

LEMMA HandoverStep == HandoverInv /\ [RecoveryNext]_recoveryVars => HandoverInv'
<1> SUFFICES ASSUME HandoverInv, [RecoveryNext]_recoveryVars PROVE HandoverInv'
  OBVIOUS
<1>1. CASE Owner \/ CaptureCheckpoint \/ CommitCheckpoint
  BY <1>1, OwnerKeeps
<1>2. ASSUME NEW p \in Coordinators, NEW name \in Names, NEW k \in 1..MaxCheckpoints,
             Begin(p, name, k)
      PROVE  HandoverInv'
  <2>1. UNCHANGED <<attempts, live, evidence>> /\ Current \in Nat
    BY <1>2 DEF Begin, kernel, vars, HandoverInv, Shapes, Current
  <2>2. view'[p].previous = Current /\ request'[p].checkpoint = k
    BY <1>2 DEF Begin, HandoverInv, Shapes
  <2>3. \A q \in Coordinators \ {p} :
           view'[q] = view[q] /\ request'[q] = request[q] /\ pc'[q] = pc[q]
    BY <1>2 DEF Begin, Goto, HandoverInv, Shapes
  <2>4. pc'[p] \notin Sending
    BY <1>2 DEF Begin, Goto, HandoverInv, Shapes, Sending
  <2>5. Shapes'
    BY <1>2, <2>1, <2>2, <2>3, InputAssumption DEF Begin, Goto, HandoverInv, Shapes
  <2>6. ReadsThePast'
    BY <2>1, <2>2, <2>3 DEF HandoverInv, ReadsThePast, Interrupted, Current
  <2>7. FinalWhileSending' /\ SafeHandover'
    BY <2>1, <2>3, <2>4 DEF HandoverInv, FinalWhileSending, SafeHandover,
                            Interrupted, Current
  <2> QED  BY <2>5, <2>6, <2>7 DEF HandoverInv
<1>3. ASSUME NEW p \in Coordinators, Proceed(p)
      PROVE  HandoverInv'
  <2>1. Interrupted(p) \notin live
    BY <1>3 DEF Proceed, Reconciled
  <2>2. DOMAIN evidence' = Coordinators /\ \A q \in Coordinators : evidence'[q] \in EvidenceIds
    BY <1>3, RecoveryAssumption DEF Proceed, Captures, HandoverInv, Shapes
  <2> QED  BY <1>3, <2>1, <2>2, AdvanceKeeps DEF Proceed, kernel, vars
<1>4. ASSUME NEW p \in Coordinators,
             Replay(p) \/ Refuse(p) \/ AnswerRecovered(p) \/ Abort(p)
      PROVE  HandoverInv'
  BY <1>4, ForgetKeeps DEF Replay, Refuse, AnswerRecovered, Abort, Return, kernel, vars
<1>5. ASSUME NEW p \in Coordinators, SendObservation(p)
      PROVE  HandoverInv'
  <2>1. CASE Rejected(p)
    BY <1>5, <2>1, ForgetKeeps DEF SendObservation, Rejected, kernel, vars
  <2>2. CASE Goto(p, "finalise") /\ UNCHANGED <<attempts, request, view, evidence>>
    <3>1. Interrupted(p) \notin live
      BY <1>5 DEF SendObservation, HandoverInv, FinalWhileSending, Sending
    <3> QED  BY <1>5, <2>2, <3>1, AdvanceKeeps DEF SendObservation, HandoverInv, Shapes
  <2> QED  BY <1>5, <2>1, <2>2 DEF SendObservation, RecordObservation, kernel, vars
<1>6. ASSUME NEW p \in Coordinators, SendFinality(p)
      PROVE  HandoverInv'
  <2>1. CASE Rejected(p)
    BY <1>6, <2>1, ForgetKeeps DEF SendFinality, Rejected, kernel, vars
  <2>2. CASE Goto(p, "recover") /\ UNCHANGED <<attempts, request, view, evidence>>
    <3>1. Interrupted(p) \notin live
      BY <1>6 DEF SendFinality, HandoverInv, FinalWhileSending, Sending
    <3> QED  BY <1>6, <2>2, <3>1, AdvanceKeeps DEF SendFinality, HandoverInv, Shapes
  <2> QED  BY <1>6, <2>1, <2>2 DEF SendFinality, RecordAttemptFinality, kernel, vars
<1>7. ASSUME NEW p \in Coordinators, SendRecover(p)
      PROVE  HandoverInv'
  BY <1>7, SendRecoverKeeps
<1>8. CASE UNCHANGED recoveryVars
  BY <1>8 DEF recoveryVars, kernel, vars, memory, HandoverInv, Shapes, ReadsThePast,
              FinalWhileSending, SafeHandover, Interrupted, Current
<1> QED
  BY <1>1, <1>2, <1>3, <1>4, <1>5, <1>6, <1>7, <1>8 DEF RecoveryNext, Step

\* No two Attempts of a Run own processes or Writer Leases at the same time,
\* however coordinators, Checkpoints and interruptions interleave.
THEOREM HandoverIsSafe == RecoverySpec => []SafeHandover
<1>1. RecoveryInit => HandoverInv
  BY HandoverInit
<1>2. HandoverInv /\ [RecoveryNext]_recoveryVars => HandoverInv'
  BY HandoverStep
<1>3. HandoverInv => SafeHandover
  BY DEF HandoverInv
<1> QED  BY <1>1, <1>2, <1>3, PTL DEF RecoverySpec

-----------------------------------------------------------------------------
\* The rest is about which Checkpoint and which request an Attempt is started
\* from.  A Finality Receipt, once there, freezes the Checkpoints of its Attempt
\* and is the only one (FinalReceipts); every Attempt after the first has the
\* receipt it was started under (ChainIsBound); each request has one Attempt
\* (NamesAreDistinct).  A coordinator remembers receipts and Attempts that are
\* really there (Remembers), whatever happened since it read them.

CheckpointRecords == [attempt : Nat, cursor : Nat, holdings : Holdings, createdAt : Times]

Books ==
    /\ eventCursor \in Nat /\ checkpoints \in Seq(CheckpointRecords)
    /\ captured = Nobody \/ captured \in [attempt : Nat, cursor : Nat]
    /\ names \in Seq(Names \cup {Nobody}) /\ Len(names) = Len(attempts)
    /\ \A p \in Coordinators : pc[p] # "idle" => request[p].name \in Names

FinalReceipts ==
    /\ \A f \in finalities : f.attempt \in DOMAIN attempts /\ IsLatestCheckpoint(f.attempt, f.checkpoint)
    /\ \A f, g \in finalities : f.attempt = g.attempt => f = g

IsFinalFor(n, k) == \E f \in finalities : f.attempt = n /\ f.checkpoint = k

ChainIsBound == \A n \in DOMAIN attempts : n > 1 => IsFinalFor(n - 1, attempts[n].recoveryCheckpoint)

NamesAreDistinct == \A m, n \in DOMAIN names : names[m] = names[n] => m = n

StartedAs(name, k) == \E n \in DOMAIN names : names[n] = name /\ attempts[n].recoveryCheckpoint = k

Remembers(p) ==
    /\ view[p].final # 0 => IsFinalFor(view[p].previous, view[p].final)
    /\ pc[p] \in Sending => view[p].final \in {0, Asked(p)}
    /\ pc[p] = "recover" => IsFinalFor(view[p].previous, Asked(p))
    /\ view[p].own # 0 => view[p].own \in DOMAIN names /\ names[view[p].own] = request[p].name
    /\ pc[p] = "answer" => StartedAs(request[p].name, Asked(p))

RecoveredIsStarted == \A r \in recovered : StartedAs(r.name, r.checkpoint)

RunIsExact == FinalReceipts /\ ChainIsBound /\ NamesAreDistinct

ExactInv ==
    /\ Books /\ RunIsExact /\ RecoveredIsStarted
    /\ \A p \in Coordinators : Remembers(p)

LEMMA ExactInvImplies == HandoverInv /\ ExactInv => RecoveryIsExact
<1> SUFFICES ASSUME HandoverInv, ExactInv PROVE RecoveryIsExact
  OBVIOUS
<1>1. RecoversFromLatestCheckpoint
  <2> SUFFICES ASSUME NEW n \in DOMAIN attempts, n > 1
               PROVE  /\ IsLatestCheckpoint(n - 1, attempts[n].recoveryCheckpoint)
                      /\ FinalCheckpoint(n - 1) = attempts[n].recoveryCheckpoint
    BY DEF RecoversFromLatestCheckpoint
  <2>1. PICK f \in finalities : f.attempt = n - 1 /\ f.checkpoint = attempts[n].recoveryCheckpoint
    BY DEF ExactInv, RunIsExact, ChainIsBound, IsFinalFor
  <2>2. \A g \in finalities : g.attempt = n - 1 => g = f
    BY <2>1 DEF ExactInv, RunIsExact, FinalReceipts
  <2>3. (CHOOSE g \in finalities : g.attempt = n - 1) = f
    BY <2>1, <2>2
  <2>4. FinalCheckpoint(n - 1) = f.checkpoint
    BY <2>1, <2>3 DEF FinalCheckpoint, Finalised
  <2> QED
    BY <2>1, <2>4 DEF ExactInv, RunIsExact, FinalReceipts
<1>2. RecoveredAsAsked
  BY DEF ExactInv, RunIsExact, RecoveredIsStarted, StartedAs, NamesAreDistinct, RecoveredAsAsked
<1> QED
  BY <1>1, <1>2 DEF RecoveryIsExact

LEMMA ExactInit == RecoveryInit => ExactInv
<1> SUFFICES ASSUME RecoveryInit PROVE ExactInv
  OBVIOUS
<1>1. Books
  BY DEF RecoveryInit, Init, Books
<1>2. RunIsExact /\ RecoveredIsStarted
  BY DEF RecoveryInit, Init, RunIsExact, FinalReceipts, ChainIsBound, NamesAreDistinct, RecoveredIsStarted
<1>3. \A p \in Coordinators : Remembers(p)
  BY DEF RecoveryInit, Remembers, Blank, Sending
<1> QED
  BY <1>1, <1>2, <1>3 DEF ExactInv

\* Whatever is in the Run stays there: what coordinators remember stays true.
RunGrows ==
    /\ finalities \subseteq finalities'
    /\ DOMAIN attempts \subseteq DOMAIN attempts' /\ DOMAIN names \subseteq DOMAIN names'
    /\ \A n \in DOMAIN names : attempts'[n] = attempts[n] /\ names'[n] = names[n]

LEMMA GrowthKeeps ==
  ASSUME RunGrows
  PROVE  /\ \A n, k : IsFinalFor(n, k) => IsFinalFor(n, k)'
         /\ \A name, k : StartedAs(name, k) => StartedAs(name, k)'
  BY DEF RunGrows, IsFinalFor, StartedAs

LEMMA MemoryStays ==
  ASSUME RunGrows, NEW p \in Coordinators, Remembers(p),
         pc'[p] = pc[p], view'[p] = view[p], request'[p] = request[p]
  PROVE  Remembers(p)'
  BY GrowthKeeps DEF Remembers, Asked, RunGrows

LEMMA MemoryEnds ==
  ASSUME HandoverInv, NEW p \in Coordinators, Forget(p)
  PROVE  Remembers(p)'
<1>1. pc'[p] = "idle" /\ view'[p] = Blank
  BY DEF Forget, Goto, HandoverInv, Shapes
<1> QED
  BY <1>1 DEF Remembers, Blank, Sending

\* The others, when one coordinator moves.
Others(p) ==
    \A q \in Coordinators \ {p} : pc'[q] = pc[q] /\ view'[q] = view[q] /\ request'[q] = request[q]

LEMMA ExactStep ==
  ASSUME ExactInv, Books', RunIsExact', RunGrows, NEW p \in Coordinators, Others(p), Remembers(p)',
         \A r \in recovered' : r \in recovered \/ StartedAs(r.name, r.checkpoint)
  PROVE  ExactInv'
<1>1. RecoveredIsStarted'
  BY GrowthKeeps DEF ExactInv, RecoveredIsStarted
<1>2. \A q \in Coordinators : Remembers(q)'
  BY MemoryStays DEF ExactInv, Others
<1> QED
  BY <1>1, <1>2 DEF ExactInv

LEMMA ExactQuiet ==
  ASSUME ExactInv, Books', RunIsExact', RunGrows, UNCHANGED <<pc, view, request, recovered>>
  PROVE  ExactInv'
<1>1. RecoveredIsStarted'
  BY GrowthKeeps DEF ExactInv, RecoveredIsStarted
<1>2. \A q \in Coordinators : Remembers(q)'
  BY MemoryStays DEF ExactInv
<1> QED
  BY <1>1, <1>2 DEF ExactInv

\* The four ways a step can leave the Run.
LEMMA RunStays ==
  ASSUME RunIsExact, UNCHANGED <<attempts, names, finalities, checkpoints>>
  PROVE  RunIsExact' /\ RunGrows
  BY DEF RunIsExact, FinalReceipts, ChainIsBound, NamesAreDistinct, IsFinalFor, IsLatestCheckpoint, CheckpointsOf,
         RunGrows

LEMMA RunGetsCheckpoint ==
  ASSUME HandoverInv, Books, RunIsExact, NEW c \in CheckpointRecords, CheckpointAllowed(c),
         checkpoints' = Append(checkpoints, c), UNCHANGED <<attempts, names, finalities>>
  PROVE  RunIsExact' /\ RunGrows /\ checkpoints' \in Seq(CheckpointRecords)
<1>1. /\ Len(checkpoints) \in Nat /\ DOMAIN checkpoints = 1..Len(checkpoints)
      /\ DOMAIN checkpoints' = 1..(Len(checkpoints) + 1)
      /\ \A k \in DOMAIN checkpoints : checkpoints'[k] = checkpoints[k]
      /\ checkpoints'[Len(checkpoints) + 1] = c /\ checkpoints' \in Seq(CheckpointRecords)
  BY DEF Books
<1>2. ASSUME NEW f \in finalities
      PROVE  f.attempt \in DOMAIN attempts' /\ IsLatestCheckpoint(f.attempt, f.checkpoint)'
  <2>1. f.attempt \in DOMAIN attempts /\ IsLatestCheckpoint(f.attempt, f.checkpoint)
    BY DEF RunIsExact, FinalReceipts
  <2>2. f.attempt # 0
    BY <2>1 DEF HandoverInv, Shapes
  <2>3. c.attempt # f.attempt
    BY <2>2 DEF CheckpointAllowed, Finalised
  <2>4. CheckpointsOf(f.attempt)' = CheckpointsOf(f.attempt)
    BY <1>1, <2>3 DEF CheckpointsOf
  <2> QED
    BY <2>1, <2>4 DEF IsLatestCheckpoint
<1>3. FinalReceipts'
  BY <1>2 DEF RunIsExact, FinalReceipts
<1>4. ChainIsBound' /\ NamesAreDistinct'
  BY DEF RunIsExact, ChainIsBound, NamesAreDistinct, IsFinalFor
<1> QED
  BY <1>1, <1>3, <1>4 DEF RunIsExact, RunGrows

LEMMA RunGetsFinality ==
  ASSUME RunIsExact, NEW f, FinalityAllowed(f),
         finalities' = finalities \cup {f}, UNCHANGED <<attempts, names, checkpoints>>
  PROVE  RunIsExact' /\ RunGrows
<1>1. /\ f.attempt \in DOMAIN attempts /\ IsLatestCheckpoint(f.attempt, f.checkpoint)
      /\ \A g \in finalities : g.attempt # f.attempt
  BY DEF FinalityAllowed, Finalised
<1>2. FinalReceipts'
  BY <1>1 DEF RunIsExact, FinalReceipts, IsLatestCheckpoint, CheckpointsOf
<1>3. ChainIsBound' /\ NamesAreDistinct'
  BY DEF RunIsExact, ChainIsBound, NamesAreDistinct, IsFinalFor
<1> QED
  BY <1>2, <1>3 DEF RunIsExact, RunGrows

LEMMA RunGetsAttempt ==
  ASSUME HandoverInv, Books, RunIsExact, NEW at, NEW name \in Names \cup {Nobody},
         attempts' = Append(attempts, at), names' = Append(names, name),
         \A n \in DOMAIN names : names[n] # name,
         Current > 0 => IsFinalFor(Current, at.recoveryCheckpoint),
         UNCHANGED <<finalities, checkpoints>>
  PROVE  /\ RunIsExact' /\ RunGrows /\ StartedAs(name, at.recoveryCheckpoint)'
         /\ names' \in Seq(Names \cup {Nobody}) /\ Len(names') = Len(attempts')
<1>1. /\ Current \in Nat /\ DOMAIN attempts = 1..Current /\ DOMAIN names = 1..Current
      /\ DOMAIN attempts' = 1..(Current + 1) /\ DOMAIN names' = 1..(Current + 1)
      /\ \A n \in 1..Current : attempts'[n] = attempts[n] /\ names'[n] = names[n]
      /\ attempts'[Current + 1] = at /\ names'[Current + 1] = name
      /\ names' \in Seq(Names \cup {Nobody}) /\ Len(names') = Len(attempts')
  BY DEF HandoverInv, Shapes, Books, Current
<1>2. FinalReceipts'
  BY <1>1 DEF RunIsExact, FinalReceipts, IsLatestCheckpoint, CheckpointsOf
<1>3. ChainIsBound'
  <2> SUFFICES ASSUME NEW n \in 1..(Current + 1), n > 1
               PROVE  IsFinalFor(n - 1, (attempts[n].recoveryCheckpoint)')
    BY <1>1 DEF ChainIsBound, IsFinalFor
  <2>1. CASE n = Current + 1
    <3>1. n - 1 = Current /\ Current > 0
      BY <1>1, <2>1
    <3> QED
      BY <1>1, <2>1, <3>1 DEF IsFinalFor
  <2>2. CASE n \in 1..Current
    BY <1>1, <2>2 DEF RunIsExact, ChainIsBound, IsFinalFor
  <2> QED
    BY <1>1, <2>1, <2>2
<1>4. NamesAreDistinct'
  <2> SUFFICES ASSUME NEW m \in 1..(Current + 1), NEW n \in 1..(Current + 1), names'[m] = names'[n] PROVE m = n
    BY <1>1 DEF NamesAreDistinct
  <2>1. CASE m \in 1..Current /\ n \in 1..Current
    BY <1>1, <2>1 DEF RunIsExact, NamesAreDistinct
  <2>2. CASE m = Current + 1 \/ n = Current + 1
    BY <1>1, <2>2
  <2> QED
    BY <1>1, <2>1, <2>2
<1>5. StartedAs(name, at.recoveryCheckpoint)'
  BY <1>1 DEF StartedAs
<1> QED
  BY <1>1, <1>2, <1>3, <1>4, <1>5 DEF RunIsExact, RunGrows

\* The owner and the recorder of Checkpoints.
LEMMA BooksOfMemory ==
  ASSUME Books, UNCHANGED <<checkpoints, names, attempts, captured, pc, request>>, eventCursor' \in Nat
  PROVE  Books'
  BY DEF Books

LEMMA OwnerIsExact ==
  ASSUME HandoverInv, ExactInv, Owner \/ CaptureCheckpoint \/ CommitCheckpoint
  PROVE  ExactInv'
<1>1. Books /\ RunIsExact
  BY DEF ExactInv
<1>2. CASE OwnerStarts
  <2> PICK t \in Times : StartAttempt(t)
    BY <1>2 DEF OwnerStarts
  <2>1. PICK at : attempts = << >> /\ attempts' = <<at>>
    BY DEF StartAttempt
  <2>2. Current = 0 /\ names = << >> /\ attempts' = Append(attempts, at) /\ names' = Append(names, Nobody)
    BY <1>1, <1>2, <2>1 DEF OwnerStarts, Books, Current
  <2>3. /\ UNCHANGED <<finalities, checkpoints, captured, pc, request, view, recovered>>
        /\ eventCursor' = eventCursor + 1
    BY <1>2 DEF StartAttempt, Append1, OwnerStarts, memory
  <2>4. /\ RunIsExact' /\ RunGrows /\ names' \in Seq(Names \cup {Nobody}) /\ Len(names') = Len(attempts')
    BY <1>1, <2>2, <2>3, RunGetsAttempt
  <2>5. Books'
    BY <1>1, <2>3, <2>4 DEF Books
  <2> QED
    BY <2>3, <2>4, <2>5, ExactQuiet
<1>3. CASE CommitCheckpoint
  <2>1. PICK h \in Holdings, t \in Times :
          LET c == [attempt |-> captured.attempt, cursor |-> captured.cursor, holdings |-> h, createdAt |-> t]
          IN  RecordCheckpoint(c) \/ UNCHANGED kernel
    BY <1>3 DEF CommitCheckpoint
  <2> DEFINE c == [attempt |-> captured.attempt, cursor |-> captured.cursor, holdings |-> h, createdAt |-> t]
  <2>2. captured' = Nobody /\ UNCHANGED <<names, pc, request, view, recovered>>
    BY <1>3 DEF CommitCheckpoint, memory
  <2>3. CASE UNCHANGED kernel
    <3>1. Books' /\ UNCHANGED <<attempts, finalities, checkpoints>>
      BY <1>1, <2>2, <2>3 DEF Books, kernel, vars
    <3> QED
      BY <1>1, <2>2, <3>1, RunStays, ExactQuiet
  <2>4. CASE RecordCheckpoint(c)
    <3>1. c \in CheckpointRecords
      BY <1>1, <1>3 DEF CommitCheckpoint, Books, CheckpointRecords
    <3> HIDE DEF c
    <3>2. /\ CheckpointAllowed(c) /\ checkpoints' = Append(checkpoints, c)
          /\ UNCHANGED <<attempts, finalities>> /\ eventCursor' = eventCursor + 1
      BY <2>4 DEF RecordCheckpoint, Append1
    <3>3. RunIsExact' /\ RunGrows /\ checkpoints' \in Seq(CheckpointRecords)
      BY <1>1, <2>2, <3>1, <3>2, RunGetsCheckpoint
    <3>4. Books'
      BY <1>1, <2>2, <3>2, <3>3 DEF Books
    <3> QED
      BY <2>2, <3>3, <3>4, ExactQuiet
  <2> QED
    BY <2>1, <2>3, <2>4
<1>4. CASE CaptureCheckpoint
  <2>1. UNCHANGED <<attempts, names, finalities, checkpoints, pc, request, view, recovered, eventCursor>>
    BY <1>4 DEF CaptureCheckpoint, kernel, vars, memory
  <2>2. captured' \in [attempt : Nat, cursor : Nat]
    BY <1>1, <1>4 DEF CaptureCheckpoint, Books, Current, HandoverInv, Shapes
  <2>3. Books'
    BY <1>1, <2>1, <2>2 DEF Books
  <2> QED
    BY <1>1, <2>1, <2>3, RunStays, ExactQuiet
<1>5. CASE OwnerCreates \/ OwnerObserves \/ OwnerCancels \/ \E n \in AttemptIndex : Ends(n)
  <2>1. /\ UNCHANGED <<attempts, names, finalities, checkpoints, captured, pc, request, view, recovered>>
        /\ eventCursor' = eventCursor \/ eventCursor' = eventCursor + 1
    BY <1>5 DEF OwnerCreates, CreateRun, OwnerObserves, RecordObservation, OwnerCancels, CancelRun, Ends, Append1,
                kernel, vars, memory
  <2>2. Books'
    BY <1>1, <2>1, BooksOfMemory DEF Books
  <2> QED
    BY <1>1, <2>1, <2>2, RunStays, ExactQuiet
<1> QED
  BY <1>2, <1>3, <1>4, <1>5 DEF Owner

\* A call begins: what it reads is there.
LEMMA BeginIsExact ==
  ASSUME HandoverInv, ExactInv, NEW p \in Coordinators, NEW name \in Names, NEW k \in 1..MaxCheckpoints,
         Begin(p, name, k)
  PROVE  ExactInv'
<1>1. Books /\ RunIsExact
  BY DEF ExactInv
<1>2. UNCHANGED <<attempts, names, finalities, checkpoints, captured, recovered, eventCursor>>
  BY DEF Begin, kernel, vars
<1>3. /\ view'[p] = [own |-> IndexOf(name), previous |-> Current,
                    exits |-> ExitEvidence(Current), final |-> FinalCheckpoint(Current)]
      /\ request'[p] = [name |-> name, checkpoint |-> k] /\ pc'[p] = "reconcile"
      /\ Others(p)
  BY DEF Begin, Goto, HandoverInv, Shapes, Others
<1>4. Books'
  BY <1>1, <1>2, <1>3 DEF Books, Others
<1>5. RunIsExact' /\ RunGrows
  BY <1>1, <1>2, RunStays
<1>6. FinalCheckpoint(Current) # 0 => IsFinalFor(Current, FinalCheckpoint(Current))
  BY DEF FinalCheckpoint, Finalised, IsFinalFor
<1>7. IndexOf(name) # 0 => IndexOf(name) \in DOMAIN names /\ names[IndexOf(name)] = name
  BY DEF IndexOf
<1>8. Remembers(p)'
  <2>1. view'[p].final = FinalCheckpoint(Current) /\ view'[p].previous = Current /\ view'[p].own = IndexOf(name)
    BY <1>3
  <2>2. request'[p].name = name
    BY <1>3
  <2>3. view'[p].final # 0 => \E f \in finalities' : f.attempt = view'[p].previous /\ f.checkpoint = view'[p].final
    BY <1>2, <1>6, <2>1 DEF IsFinalFor
  <2> QED
    BY <1>2, <1>3, <1>7, <2>1, <2>2, <2>3 DEF Remembers, IsFinalFor, Sending
<1> QED
  BY <1>2, <1>3, <1>4, <1>5, <1>8, ExactStep

\* A call that ends, with an answer for which there is an Attempt or without.
LEMMA EndIsExact ==
  ASSUME HandoverInv, ExactInv, NEW p \in Coordinators, Forget(p),
         UNCHANGED <<attempts, names, finalities, checkpoints, captured>>, eventCursor' = eventCursor,
         \A r \in recovered' : r \in recovered \/ StartedAs(r.name, r.checkpoint)
  PROVE  ExactInv'
<1>1. Others(p) /\ pc'[p] = "idle"
  BY DEF Forget, Goto, HandoverInv, Shapes, Others
<1>2. Books'
  BY <1>1 DEF ExactInv, Books, Others
<1>3. RunIsExact' /\ RunGrows
  BY RunStays DEF ExactInv
<1>4. Remembers(p)'
  BY MemoryEnds
<1> QED
  BY <1>1, <1>2, <1>3, <1>4, ExactStep

LEMMA RejectedIsExact ==
  ASSUME HandoverInv, ExactInv, NEW p \in Coordinators, Rejected(p), UNCHANGED <<names, captured, recovered>>
  PROVE  ExactInv'
  BY EndIsExact DEF Rejected, kernel, vars

LEMMA ReturnIsExact ==
  ASSUME HandoverInv, ExactInv, NEW p \in Coordinators,
         Replay(p) \/ AnswerRecovered(p) \/ Refuse(p) \/ Abort(p)
  PROVE  ExactInv'
<1>1. /\ Forget(p) /\ UNCHANGED <<attempts, names, finalities, checkpoints, captured>> /\ eventCursor' = eventCursor
  BY DEF Replay, AnswerRecovered, Refuse, Abort, Return, kernel, vars
<1>2. Remembers(p)
  BY DEF ExactInv
<1>3. CASE Replay(p)
  <2>1. StartedAs(request[p].name, Asked(p))
    BY <1>2, <1>3 DEF Replay, Replays, Remembers, StartedAs
  <2>2. recovered' = recovered \cup {[name |-> request[p].name, checkpoint |-> Asked(p), attempt |-> view[p].own]}
    BY <1>3 DEF Replay, Return
  <2> QED
    BY <1>1, <2>1, <2>2, EndIsExact
<1>4. CASE AnswerRecovered(p)
  <2>1. StartedAs(request[p].name, Asked(p))
    BY <1>2, <1>4 DEF AnswerRecovered, Remembers
  <2>2. recovered' = recovered \cup {[name |-> request[p].name, checkpoint |-> Asked(p), attempt |-> Current]}
    BY <1>4 DEF AnswerRecovered, Return
  <2> QED
    BY <1>1, <2>1, <2>2, EndIsExact
<1>5. CASE Refuse(p) \/ Abort(p)
  BY <1>1, <1>5, EndIsExact DEF Refuse, Abort
<1> QED
  BY <1>3, <1>4, <1>5

\* A coordinator goes on to its next command.
LEMMA GoOnIsExact ==
  ASSUME HandoverInv, ExactInv, NEW p \in Coordinators, NEW label \in Sending \cup {"answer"}, Goto(p, label),
         pc[p] # "idle", UNCHANGED <<request, view, captured, recovered, checkpoints>>,
         RunIsExact', RunGrows, eventCursor' \in Nat,
         names' \in Seq(Names \cup {Nobody}), Len(names') = Len(attempts'),
         label \in Sending => view[p].final \in {0, Asked(p)},
         label = "recover" => IsFinalFor(view[p].previous, Asked(p))',
         label = "answer" => StartedAs(request[p].name, Asked(p))'
  PROVE  ExactInv'
<1>1. Others(p) /\ pc'[p] = label
  BY DEF Goto, HandoverInv, Shapes, Others
<1>2. Books'
  BY <1>1 DEF ExactInv, Books, Others
<1>3. Remembers(p)'
  BY <1>1, GrowthKeeps DEF ExactInv, Remembers, Asked, RunGrows, Sending
<1> QED
  BY <1>1, <1>2, <1>3, ExactStep

LEMMA ProceedIsExact ==
  ASSUME HandoverInv, ExactInv, NEW p \in Coordinators, Proceed(p)
  PROVE  ExactInv'
<1>1. UNCHANGED <<attempts, names, finalities, checkpoints, request, view, captured, recovered, eventCursor>>
  BY DEF Proceed, kernel, vars
<1>2. view[p].final \in {0, Asked(p)} /\ Goto(p, "observe") /\ pc[p] # "idle"
  BY DEF Proceed, FinalityAgrees
<1>3. RunIsExact' /\ RunGrows
  BY <1>1, RunStays DEF ExactInv
<1>4. "observe" \in Sending /\ "observe" # "recover" /\ "observe" # "answer"
  BY DEF Sending
<1>5. eventCursor' \in Nat /\ names' \in Seq(Names \cup {Nobody}) /\ Len(names') = Len(attempts')
  BY <1>1 DEF ExactInv, Books
<1> QED
  BY <1>1, <1>2, <1>3, <1>4, <1>5, GoOnIsExact

LEMMA SendObservationIsExact ==
  ASSUME HandoverInv, ExactInv, NEW p \in Coordinators, SendObservation(p)
  PROVE  ExactInv'
<1>1. CASE Rejected(p)
  BY <1>1, RejectedIsExact DEF SendObservation
<1>2. CASE Goto(p, "finalise") /\ UNCHANGED <<request, view>> /\ (UNCHANGED kernel \/ RecordObservation(Exit(p)))
  <2>1. /\ UNCHANGED <<attempts, names, finalities, checkpoints, captured, recovered>> /\ pc[p] = "observe"
        /\ eventCursor' = eventCursor \/ eventCursor' = eventCursor + 1
    BY <1>2 DEF SendObservation, RecordObservation, Append1, kernel, vars
  <2>2. RunIsExact' /\ RunGrows
    BY <2>1, RunStays DEF ExactInv
  <2>3. view[p].final \in {0, Asked(p)} /\ pc[p] # "idle"
    BY <2>1 DEF ExactInv, Remembers, Sending
  <2>4. eventCursor' \in Nat /\ names' \in Seq(Names \cup {Nobody}) /\ Len(names') = Len(attempts')
    BY <2>1 DEF ExactInv, Books
  <2>5. "finalise" \in Sending /\ "finalise" # "recover" /\ "finalise" # "answer"
    BY DEF Sending
  <2> QED
    BY <1>2, <2>1, <2>2, <2>3, <2>4, <2>5, GoOnIsExact
<1> QED
  BY <1>1, <1>2 DEF SendObservation

LEMMA SendFinalityIsExact ==
  ASSUME HandoverInv, ExactInv, NEW p \in Coordinators, SendFinality(p)
  PROVE  ExactInv'
<1>1. CASE Rejected(p)
  BY <1>1, RejectedIsExact DEF SendFinality
<1>2. PICK t \in Times :
        LET f == [attempt |-> Interrupted(p), checkpoint |-> Asked(p),
                  holdings |-> checkpoints[Asked(p)].holdings, observedAt |-> t]
        IN  \/ Rejected(p)
            \/ /\ view[p].final # 0 /\ UNCHANGED kernel
               /\ Goto(p, "recover") /\ UNCHANGED <<request, view>>
            \/ RecordAttemptFinality(f) /\ Goto(p, "recover") /\ UNCHANGED <<request, view>>
  BY DEF SendFinality
<1> DEFINE f == [attempt |-> Interrupted(p), checkpoint |-> Asked(p),
                 holdings |-> checkpoints[Asked(p)].holdings, observedAt |-> t]
<1>3. /\ UNCHANGED <<names, captured, recovered>> /\ pc[p] = "finalise"
  BY DEF SendFinality
<1>4. view[p].final \in {0, Asked(p)} /\ pc[p] # "idle"
  BY <1>3 DEF ExactInv, Remembers, Sending
<1>5. "recover" \in Sending /\ "recover" # "answer"
  BY DEF Sending
<1>6. CASE view[p].final # 0 /\ UNCHANGED kernel /\ Goto(p, "recover") /\ UNCHANGED <<request, view>>
  <2>1. UNCHANGED <<attempts, finalities, checkpoints>> /\ eventCursor' = eventCursor
    BY <1>6 DEF kernel, vars
  <2>2. RunIsExact' /\ RunGrows
    BY <1>3, <2>1, RunStays DEF ExactInv
  <2>3. IsFinalFor(view[p].previous, Asked(p))'
    BY <1>4, <1>6, <2>1 DEF ExactInv, Remembers, IsFinalFor, Asked
  <2>4. eventCursor' \in Nat /\ names' \in Seq(Names \cup {Nobody}) /\ Len(names') = Len(attempts')
    BY <1>3, <2>1 DEF ExactInv, Books
  <2> QED
    BY <1>3, <1>4, <1>5, <1>6, <2>1, <2>2, <2>3, <2>4, GoOnIsExact
<1>7. CASE RecordAttemptFinality(f) /\ Goto(p, "recover") /\ UNCHANGED <<request, view>>
  <2>1. f.attempt = view[p].previous /\ f.checkpoint = Asked(p)
    BY DEF Interrupted
  <2> HIDE DEF f
  <2>2. /\ FinalityAllowed(f) /\ finalities' = finalities \cup {f} /\ UNCHANGED <<attempts, checkpoints>>
        /\ eventCursor' = eventCursor + 1
    BY <1>7 DEF RecordAttemptFinality, Append1
  <2>3. RunIsExact' /\ RunGrows
    BY <1>3, <2>2, RunGetsFinality DEF ExactInv
  <2>4. IsFinalFor(view[p].previous, Asked(p))'
    BY <1>7, <2>1, <2>2 DEF IsFinalFor, Asked
  <2>5. eventCursor' \in Nat /\ names' \in Seq(Names \cup {Nobody}) /\ Len(names') = Len(attempts')
    BY <1>3, <2>2 DEF ExactInv, Books
  <2> QED
    BY <1>3, <1>4, <1>5, <1>7, <2>2, <2>3, <2>4, <2>5, GoOnIsExact
<1> QED
  BY <1>1, <1>2, <1>6, <1>7

LEMMA SendRecoverIsExact ==
  ASSUME HandoverInv, ExactInv, NEW p \in Coordinators, SendRecover(p)
  PROVE  ExactInv'
<1>1. CASE Rejected(p) /\ UNCHANGED <<names, live>>
  BY <1>1, RejectedIsExact DEF SendRecover
<1>2. PICK req :
        \/ Rejected(p) /\ UNCHANGED <<names, live>>
        \/ /\ RecoverAllowed(request[p].name, req) /\ RecoverAttempt(req)
           /\ req.previous = view[p].previous /\ req.recoveryCheckpoint = Asked(p)
           /\ names' = Append(names, request[p].name)
           /\ Goto(p, "answer") /\ UNCHANGED <<request, view>>
  <2> PICK f \in Fingerprints, t \in Times :
      LET name == request[p].name
          req == [previous |-> Interrupted(p), failure |-> f,
                  evidence |-> {evidence[p]}, recoveryCheckpoint |-> Asked(p),
                  userInputRequired |-> FALSE, workspaceDriftDetected |-> FALSE,
                  elapsedMs |-> 0, remaining |-> ResourceBudget, startedAt |-> t]
      IN  \/ /\ Accepting /\ RecoverAllowed(name, req) /\ RecoverAttempt(req)
             /\ names' = Append(names, name) /\ live' = live \cup {Current + 1}
             /\ Goto(p, "answer") /\ UNCHANGED <<request, view, evidence>>
          \/ /\ ~(Accepting /\ RecoverAllowed(name, req)) /\ Rejected(p)
             /\ UNCHANGED <<names, live>>
    BY DEF SendRecover
  <2> DEFINE r == [previous |-> Interrupted(p), failure |-> f,
                   evidence |-> {evidence[p]}, recoveryCheckpoint |-> Asked(p),
                   userInputRequired |-> FALSE, workspaceDriftDetected |-> FALSE,
                   elapsedMs |-> 0, remaining |-> ResourceBudget, startedAt |-> t]
  <2>1. r.previous = view[p].previous /\ r.recoveryCheckpoint = Asked(p)
    BY DEF Interrupted
  <2>2. \/ Rejected(p) /\ UNCHANGED <<names, live>>
        \/ /\ RecoverAllowed(request[p].name, r) /\ RecoverAttempt(r)
           /\ names' = Append(names, request[p].name)
           /\ Goto(p, "answer") /\ UNCHANGED <<request, view>>
    OBVIOUS
  <2> HIDE DEF r
  <2> QED
    BY <2>1, <2>2
<1>3. /\ UNCHANGED <<captured, recovered>> /\ pc[p] = "recover"
  BY DEF SendRecover
<1>4. CASE /\ RecoverAllowed(request[p].name, req) /\ RecoverAttempt(req)
           /\ req.previous = view[p].previous /\ req.recoveryCheckpoint = Asked(p)
           /\ names' = Append(names, request[p].name)
           /\ Goto(p, "answer") /\ UNCHANGED <<request, view>>
  <2>1. PICK name \in Names : name = request[p].name
    BY <1>3 DEF ExactInv, Books
  <2>2. /\ attempts' = Append(attempts, req) /\ UNCHANGED <<finalities, checkpoints>>
        /\ eventCursor' = eventCursor + 1
    BY <1>4 DEF RecoverAttempt, ContinueWith, Append1
  <2>3. view[p].previous = Current /\ (\A n \in DOMAIN names : names[n] # name)
    BY <1>4, <2>1 DEF RecoverAllowed, ContinuationAllowed
  <2>4. IsFinalFor(Current, req.recoveryCheckpoint)
    BY <1>3, <1>4, <2>3 DEF ExactInv, Remembers
  <2>5. name \in Names \cup {Nobody} /\ names' = Append(names, name) /\ Books /\ RunIsExact
    BY <1>4, <2>1 DEF ExactInv
  <2>6. /\ RunIsExact' /\ RunGrows /\ StartedAs(name, req.recoveryCheckpoint)'
        /\ names' \in Seq(Names \cup {Nobody}) /\ Len(names') = Len(attempts')
    BY <2>2, <2>3, <2>4, <2>5, RunGetsAttempt
  <2>7. StartedAs(request[p].name, Asked(p))'
    BY <1>4, <2>1, <2>6 DEF StartedAs, Asked
  <2>8. "answer" \notin Sending /\ "answer" # "recover"
    BY DEF Sending
  <2>9. eventCursor' \in Nat /\ pc[p] # "idle"
    BY <1>3, <2>2 DEF ExactInv, Books
  <2> QED
    BY <1>3, <1>4, <2>2, <2>6, <2>7, <2>8, <2>9, GoOnIsExact
<1> QED
  BY <1>1, <1>2, <1>4

LEMMA ExactNext == HandoverInv /\ ExactInv /\ [RecoveryNext]_recoveryVars => ExactInv'
<1> SUFFICES ASSUME HandoverInv, ExactInv, [RecoveryNext]_recoveryVars PROVE ExactInv'
  OBVIOUS
<1>1. CASE UNCHANGED recoveryVars
  <2>1. /\ UNCHANGED <<attempts, names, finalities, checkpoints, captured, pc, request, view, recovered>>
        /\ eventCursor' = eventCursor
    BY <1>1 DEF recoveryVars, kernel, vars, memory
  <2>2. Books'
    BY <2>1, BooksOfMemory DEF ExactInv, Books
  <2> QED
    BY <2>1, <2>2, RunStays, ExactQuiet DEF ExactInv
<1>2. CASE RecoveryNext
  BY <1>2, OwnerIsExact, BeginIsExact, ReturnIsExact, ProceedIsExact, SendObservationIsExact, SendFinalityIsExact,
     SendRecoverIsExact DEF RecoveryNext, Step
<1> QED
  BY <1>1, <1>2

\* Every recovery starts one Attempt, from the Checkpoint it was asked for,
\* which is the last of the interrupted Attempt and the one its Finality
\* Receipt binds, however stale the reading the commands were chosen from.
THEOREM RecoveriesAreExact == RecoverySpec => []RecoveryIsExact
<1>1. RecoveryInit => HandoverInv /\ ExactInv
  BY HandoverInit, ExactInit
<1>2. HandoverInv /\ ExactInv /\ [RecoveryNext]_recoveryVars => (HandoverInv /\ ExactInv)'
  BY HandoverStep, ExactNext
<1>3. HandoverInv /\ ExactInv => RecoveryIsExact
  BY ExactInvImplies
<1> QED
  BY <1>1, <1>2, <1>3, PTL DEF RecoverySpec
=============================================================================
