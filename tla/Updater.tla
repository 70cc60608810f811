------------------------------ MODULE Updater ------------------------------
(***************************************************************************)
(* The update manager (packages/updater/src/manager.ts) over the portable  *)
(* release adapter (windows-portable.ts).  Operations run one at a time    *)
(* under the manager's lock and begin with reconcile; between any two      *)
(* durable writes the process may die or the adapter may fail.  What an    *)
(* interrupted operation leaves is an activation intent, a qualification   *)
(* intent or a prepared migration, and the next operation settles it, or   *)
(* throws because it cannot.                                               *)
(*                                                                         *)
(* A candidate is a release and the hosted run that qualified it (0: none).*)
(* The current release at the start is the one the installer unpacked.      *)
(***************************************************************************)
EXTENDS Integers, Sequences

CONSTANTS Releases,        \* release identities
          Bundled,         \* the one whose candidate is at the installation root
          UpdateRequests,  \* [op, action, release, run]
          MaxMishaps       \* bound on crashes and adapter errors

(* "RECONCILE" stands for the identities reconcile makes up for its receipts. *)
ASSUME UpdaterAssumption ==
    /\ Bundled \in Releases /\ "NONE" \notin Releases /\ MaxMishaps \in Nat
    /\ \A q \in UpdateRequests : /\ q.release \in Releases /\ q.run \in Nat
                                 /\ q.op \notin {"NIL", "RECONCILE"}

VARIABLES current,     \* current.json
          intent,      \* activation intent: [release, prev], or Nil
          qual,        \* qualification intent: the request, or Nil
          migration,   \* the PREPARED migration: [release, prev], or Nil
          mutable,     \* the mutable state directory: "WHOLE", "TORN" while its backup can mend
                       \* it, or "LOST": no record names the backup that would
          installed,   \* [Releases -> run of the version's candidate, or Absent]
          remnants,    \* releases whose version directory a discard left in part
          root,        \* run of the candidate at the installation root
          journal,     \* Seq of receipts
          work,        \* the operation under way: [pc, q, release, prev]: the last two what
                       \* reconcile settled, prev later what an apply or rollback replaces,
                       \* release the one a qualification of its own promotes
          tenants,     \* releases that current.json has named
          nested,      \* whether the mutable state directory holds directories
          mishaps,
          erred        \* whether a call of the adapter has failed (a crash is no failure)

diskVars == <<current, intent, qual, migration, mutable, installed, remnants, root, tenants>>
past == <<mishaps, erred, nested>>
updaterVars == <<diskVars, journal, work, past>>

Nil == [op |-> "NIL"]
NoRelease == "NONE"
Absent == -1
Rest == [pc |-> "IDLE", q |-> Nil, release |-> NoRelease, prev |-> NoRelease]

UpdaterInit ==
    /\ current = Bundled /\ tenants = {Bundled}
    /\ intent = Nil /\ qual = Nil /\ migration = Nil /\ mutable = "WHOLE"
    /\ installed = [r \in Releases |-> IF r = Bundled THEN 0 ELSE Absent]
    /\ root = 0 /\ remnants = {}
    /\ journal = <<>> /\ work = Rest
    /\ nested \in BOOLEAN /\ mishaps = 0 /\ erred = FALSE

At(pc) == work.pc = pc
To(pc) == work' = [work EXCEPT !.pc = pc] /\ UNCHANGED <<journal, past>>
Failure == mishaps < MaxMishaps /\ mishaps' = mishaps + 1 /\ erred' = TRUE /\ UNCHANGED nested
Errs(pc) == Failure /\ work' = [work EXCEPT !.pc = pc] /\ UNCHANGED <<diskVars, journal>>

(* #append: the receipt is durable, and the operation goes on to pc.         *)
Record(op, action, release, run, outcome, prev, pc) ==
    /\ journal' = Append(journal, [op |-> op, action |-> action, release |-> release,
                                   run |-> run, outcome |-> outcome, prev |-> prev])
    /\ work' = IF pc = "IDLE" THEN Rest ELSE [work EXCEPT !.pc = pc]
Answer(outcome) ==
    /\ Record(work.q.op, work.q.action, work.q.release, work.q.run, outcome, work.prev, "IDLE")
    /\ UNCHANGED <<diskVars, past>>

Receipts == {journal[i] : i \in DOMAIN journal}
AppliedBy(action) == {e \in Receipts : e.action = action /\ e.outcome = "APPLIED"}

(* The durable writes                                                        *)
PointTo(r) ==
    /\ current' = r /\ tenants' = tenants \cup {r}
    /\ UNCHANGED <<intent, qual, migration, mutable, installed, remnants, root>>
SetIntent(i) ==
    intent' = i /\ UNCHANGED <<current, qual, migration, mutable, installed, remnants, root, tenants>>
SetQual(i) ==
    qual' = i /\ UNCHANGED <<current, intent, migration, mutable, installed, remnants, root, tenants>>
SetMigration(m) ==
    migration' = m /\ UNCHANGED <<current, intent, qual, mutable, installed, remnants, root, tenants>>
SetInstalled(r, run) ==
    /\ installed' = [installed EXCEPT ![r] = run]
    /\ UNCHANGED <<current, intent, qual, migration, mutable, remnants, root, tenants>>

\* Mutant: ROLLED_BACK is written before the tree is whole again.
Tear_MarksFirst ==
    /\ mutable' = "TORN" /\ migration' = Nil
    /\ UNCHANGED <<current, intent, qual, installed, remnants, root, tenants>>
(* clearTree, then copyTree from the backup and only then ROLLED_BACK.  With  *)
(* directories in the tree clearTree clears part of it and throws: it removes *)
(* a directory as if it were a file.                                          *)
Tear ==
    /\ mutable' = "TORN"
    /\ UNCHANGED <<current, intent, qual, migration, installed, remnants, root, tenants>>
Mend ==
    /\ mutable' = IF mutable = "TORN" THEN "WHOLE" ELSE mutable
    /\ migration' = Nil
    /\ UNCHANGED <<current, intent, qual, installed, remnants, root, tenants>>
(* COMMITTED is written without a look at the tree; what a later migration    *)
(* backs up, and its rollback brings back, is then the torn one.             *)
Commit ==
    /\ mutable' = IF mutable = "TORN" THEN "LOST" ELSE mutable
    /\ migration' = Nil
    /\ UNCHANGED <<current, intent, qual, installed, remnants, root, tenants>>

-----------------------------------------------------------------------------
(* Every operation: take the lock, reconcile, then its own part.             *)

Begin(q) ==
    /\ At("IDLE")
    /\ work' = [Rest EXCEPT !.pc = "RECONCILE", !.q = q]
    /\ UNCHANGED <<diskVars, journal, past>>

Pending == migration # Nil
Finishes(r) == Pending /\ migration.release = r
Settles(status, what) ==
    /\ work' = [work EXCEPT !.pc = status, !.release = what.release, !.prev = what.prev]
    /\ UNCHANGED <<journal, past>>

(* An interrupted activation whose candidate is current is completed.         *)
ReconcileForward ==
    /\ At("RECONCILE") /\ qual = Nil
    /\ \/ intent # Nil /\ current = intent.release /\ Finishes(current)
             /\ Commit /\ To("RECONCILE")
       \/ intent # Nil /\ current = intent.release /\ ~Finishes(current)
             /\ SetIntent(Nil) /\ Settles("RECOVERED", intent)
       \/ intent = Nil /\ Finishes(current) /\ installed[current] # Absent
             /\ Commit /\ Settles("RECOVERED", migration)
(* One whose candidate is not current is taken back, the mutable state first. *)
GoesBack ==
    \/ intent # Nil /\ current # intent.release /\ current = intent.prev
    \/ intent = Nil /\ Pending /\ current # migration.release /\ installed[migration.release] # Absent
ReconcileBack ==
    /\ At("RECONCILE") /\ qual = Nil /\ GoesBack
    /\ \/ Pending /\ mutable = "WHOLE" /\ Tear /\ To("RECONCILE")
       \/ Pending /\ mutable # "WHOLE" /\ ~nested /\ Mend
             /\ IF intent = Nil THEN Settles("ABORTED", migration) ELSE To("RECONCILE")
       \/ ~Pending /\ SetIntent(Nil) /\ Settles("ABORTED", intent)
RedoQualification ==
    /\ At("RECONCILE") /\ qual # Nil /\ current = qual.release
    /\ To("PROMOTE_ROOT") /\ UNCHANGED diskVars
(* What reconcile throws at, this time and every time: an intent that names   *)
(* neither the current release nor its predecessor, a prepared migration      *)
(* whose candidate cannot be read any more, a state directory that cannot be  *)
(* cleared, a qualification of a release that is not current.                 *)
IntentDisagrees == intent # Nil /\ current \notin {intent.release, intent.prev}
NoCandidate == intent = Nil /\ Pending /\ installed[migration.release] = Absent
Irreconcilable ==
    \/ qual = Nil /\ (IntentDisagrees \/ NoCandidate \/ (GoesBack /\ Pending /\ nested))
    \/ qual # Nil /\ current # qual.release
ReconcileThrows ==
    At("RECONCILE") /\ Irreconcilable /\ work' = Rest /\ UNCHANGED <<diskVars, journal, past>>
NothingPending ==
    /\ At("RECONCILE") /\ qual = Nil /\ intent = Nil /\ ~Pending
    /\ To("START") /\ UNCHANGED diskVars

ReconcileOutcome(status) == IF status = "RECOVERED" THEN "APPLIED" ELSE "FAILED"
(* The receipt has an operation identity of its own.                         *)
ReconcileReceipt ==
    /\ work.pc \in {"RECOVERED", "ABORTED"}
    /\ UNCHANGED <<diskVars, past>>
    /\ IF At("RECOVERED") /\ \E e \in AppliedBy("APPLY") : e.release = work.release
         THEN To("START")
         ELSE Record("RECONCILE", "APPLY", work.release, installed[work.release],
                     ReconcileOutcome(work.pc), work.prev, "START")

-----------------------------------------------------------------------------
(* apply                                                                     *)

Replayed == \E e \in Receipts : e.op = work.q.op
Replay == At("START") /\ Replayed /\ work' = Rest /\ UNCHANGED <<diskVars, journal, past>>
Starts(action) == At("START") /\ work.q.action = action /\ ~Replayed

(* The gates: channel, qualification, artifact digest, retained Evidence.    *)
ApplyRefused == Starts("APPLY") /\ Answer("BLOCKED")
ApplyActive ==
    /\ Starts("APPLY") /\ current = work.q.release
    /\ Answer(IF installed[current] # work.q.run THEN "FAILED"
              ELSE IF \E e \in AppliedBy("APPLY") : e.release = current /\ e.prev # NoRelease
                   THEN "NOOP" ELSE "BLOCKED")
Stage ==
    /\ Starts("APPLY") /\ current # work.q.release
    /\ \/ Answer("FAILED")
       \/ /\ installed[work.q.release] \in {Absent, work.q.run} /\ work.q.release \notin remnants
          /\ SetInstalled(work.q.release, work.q.run)
          /\ work' = [work EXCEPT !.pc = "STAGED", !.prev = current]
          /\ UNCHANGED <<journal, past>>
Migrate ==
    /\ At("STAGED")
    /\ SetMigration([op |-> "MIGRATE", release |-> work.q.release, prev |-> current])
    /\ To("MIGRATED")

(* adapter.activate, of an apply and of a rollback                           *)
WriteIntent ==
    /\ At("MIGRATED")
    /\ SetIntent([op |-> "ACTIVATE", release |-> work.q.release, prev |-> current])
    /\ To("INTENT")
PublishActive == At("INTENT") /\ PointTo(work.q.release) /\ To("PUBLISHED")
ClearIntent == At("PUBLISHED") /\ SetIntent(Nil) /\ To("ACTIVATED")
CommitMigration ==
    At("ACTIVATED") /\ work.q.action = "APPLY" /\ Commit /\ To("COMMITTED")
Applied ==
    \/ At("COMMITTED") /\ Answer("APPLIED")
    \/ At("ACTIVATED") /\ work.q.action = "ROLLBACK" /\ Answer("APPLIED")

(* A failed activation, or a rollback's failed probe, restores the previous  *)
(* release; an apply takes the migration back and discards what it staged.   *)
Restore == At("RESTORE") /\ PointTo(work.prev) /\ To("RESTORED")
Restored ==
    At("RESTORED") /\ SetIntent(Nil) /\ To(IF work.q.action = "APPLY" THEN "UNMIGRATE" ELSE "FAIL")
Unmigrate ==
    /\ At("UNMIGRATE")
    /\ \/ mutable = "WHOLE" /\ Tear /\ To(IF nested THEN "DISCARD" ELSE "UNMIGRATE")
       \/ mutable # "WHOLE" /\ ~nested /\ Mend /\ To("DISCARD")
       \/ mutable # "WHOLE" /\ nested /\ UNCHANGED diskVars /\ To("DISCARD")
(* removeWritableTree removes directories as clearTree does, so a discard     *)
(* always leaves a remnant, with the file of the candidate or without it.     *)
MayDiscard(r) == current # r
Discard ==
    /\ At("DISCARD")
    /\ IF MayDiscard(work.q.release)
         THEN /\ remnants' = remnants \cup {work.q.release}
              /\ \E run \in {installed[work.q.release], Absent} :
                    installed' = [installed EXCEPT ![work.q.release] = run]
              /\ UNCHANGED <<current, intent, qual, migration, mutable, root, tenants>>
         ELSE UNCHANGED diskVars
    /\ To("FAIL")
Fails == At("FAIL") /\ Answer("FAILED")

-----------------------------------------------------------------------------
(* rollback                                                                  *)

History(r) == {i \in DOMAIN journal : journal[i].action = "APPLY" /\ journal[i].outcome = "APPLIED"
                                      /\ journal[i].release = r}
Proofs(r) == {i \in DOMAIN journal : journal[i].action = "APPLY" /\ journal[i].outcome = "APPLIED"
                                     /\ journal[i].prev = r}
Last(S) == CHOOSE i \in S : \A j \in S : j =< i
QualifiedBefore(r) ==
    {i \in DOMAIN journal : /\ Proofs(r) # {} /\ i < Last(Proofs(r))
                            /\ journal[i].action = "QUALIFY" /\ journal[i].outcome = "APPLIED"
                            /\ journal[i].release = r}
(* The journal entries that say which candidate the target is.               *)
Expected(r) == IF History(r) # {} THEN History(r) ELSE QualifiedBefore(r)

RollbackBegins ==
    /\ Starts("ROLLBACK")
    /\ LET r == work.q.release
       IN  \/ current = r /\ Answer("NOOP")
           \/ current # r /\ Expected(r) = {} /\ Answer("BLOCKED")
           \/ /\ current # r /\ Expected(r) # {}
              /\ \E o \in {"FAILED", "BLOCKED"} : Answer(o)
           \/ /\ current # r /\ Expected(r) # {} /\ r \notin remnants
              /\ journal[Last(Expected(r))].run = installed[r]
              /\ work' = [work EXCEPT !.pc = "TARGET", !.prev = current]
              /\ UNCHANGED <<diskVars, journal, past>>
RestoreTarget == At("TARGET") /\ PointTo(work.q.release) /\ To("PROBE")
ProbeTarget == At("PROBE") /\ SetIntent(Nil) /\ To("MIGRATED")

-----------------------------------------------------------------------------
(* qualify: the intent outlives the receipt                                  *)

KnownQualification ==
    /\ installed[current] = work.q.run
    /\ \E e \in AppliedBy("QUALIFY") : e.release = current /\ e.run = work.q.run
Promoted == root = work.q.run /\ installed[current] = work.q.run
QualifyAnswers ==
    /\ Starts("QUALIFY")
    /\ \/ current # work.q.release /\ Answer("BLOCKED")
       \/ current = work.q.release /\ KnownQualification /\ Answer("NOOP")
       \/ current = work.q.release /\ ~KnownQualification
             /\ Answer(IF current = Bundled /\ Promoted THEN "NOOP" ELSE "FAILED")
WriteQualificationIntent ==
    /\ Starts("QUALIFY") /\ current = work.q.release /\ current = Bundled
    /\ ~KnownQualification /\ ~Promoted
    /\ SetQual(work.q)
    /\ work' = [work EXCEPT !.pc = "PROMOTE_ROOT", !.release = current] /\ UNCHANGED <<journal, past>>
PromoteRoot ==
    /\ At("PROMOTE_ROOT")
    /\ root' = qual.run /\ To("PROMOTE_INSTALLED")
    /\ UNCHANGED <<current, intent, qual, migration, mutable, installed, remnants, tenants>>
PromoteInstalled ==
    At("PROMOTE_INSTALLED") /\ SetInstalled(qual.release, qual.run) /\ To("QUALIFIED")

Qualified ==
    /\ At("QUALIFIED") /\ UNCHANGED <<diskVars, past>>
    /\ IF \E e \in Receipts : e.op = qual.op
         THEN To("FINALIZE")
         ELSE Record(qual.op, "QUALIFY", qual.release, qual.run, "APPLIED", NoRelease, "FINALIZE")
(* The operation itself then finds its own receipt.                          *)
FinalizeQualification == At("FINALIZE") /\ SetQual(Nil) /\ To("START")

(* A qualification that is still in the operation that began it.  When one of *)
(* its calls fails, the operation lets the adapter reconcile and goes on; if  *)
(* the intent is gone by then, it adds a receipt that says FAILED.            *)
Qualifying == {"PROMOTE_ROOT", "PROMOTE_INSTALLED", "QUALIFIED", "FINALIZE"}
Own == qual # Nil /\ work.release = qual.release
OwnFails ==
    /\ work.pc \in Qualifying /\ Own /\ Failure
    /\ work' = [work EXCEPT !.pc = "PROMOTE_ROOT", !.release = NoRelease]
    /\ UNCHANGED <<diskVars, journal>>
CleanupFails ==
    /\ At("FINALIZE") /\ Own /\ Failure
    /\ SetQual(Nil)
    /\ Record(qual.op, "QUALIFY", qual.release, qual.run, "FAILED", NoRelease, "IDLE")

-----------------------------------------------------------------------------
(* What goes wrong: a check that fails, an error of the adapter, a crash.    *)

CheckFails ==
    /\ UNCHANGED diskVars
    /\ \/ At("STAGED") /\ To("DISCARD")
       \/ At("PROBE") /\ To("RESTORE")
Apply == work.q.action = "APPLY"
AdapterFails ==
    \/ work.pc \in {"MIGRATED", "INTENT", "PUBLISHED", "ACTIVATED"} /\ Errs("RESTORE")
    \/ At("MIGRATED") /\ Apply /\ Errs("DISCARD")         \* migrate, once PREPARED
    \/ work.pc \in {"RESTORE", "RESTORED"} /\ Errs(IF Apply THEN "UNMIGRATE" ELSE "FAIL")
    \/ At("UNMIGRATE") /\ Errs("DISCARD")
    \/ work.pc \in {"DISCARD", "TARGET", "PROBE"} /\ Errs("FAIL")
Crash ==
    /\ work # Rest /\ mishaps < MaxMishaps
    /\ work' = Rest /\ mishaps' = mishaps + 1
    /\ UNCHANGED <<diskVars, journal, erred, nested>>

UpdaterNext ==
    \/ \E q \in UpdateRequests : Begin(q)
    \/ ReconcileForward \/ ReconcileBack \/ RedoQualification \/ NothingPending
    \/ ReconcileThrows \/ ReconcileReceipt \/ Replay
    \/ ApplyRefused \/ ApplyActive \/ Stage \/ Migrate
    \/ WriteIntent \/ PublishActive \/ ClearIntent \/ CommitMigration \/ Applied
    \/ Restore \/ Restored \/ Unmigrate \/ Discard \/ Fails
    \/ RollbackBegins \/ RestoreTarget \/ ProbeTarget
    \/ QualifyAnswers \/ WriteQualificationIntent \/ PromoteRoot \/ PromoteInstalled
    \/ Qualified \/ FinalizeQualification
    \/ CheckFails \/ AdapterFails \/ OwnFails \/ CleanupFails \/ Crash
UpdaterSpec == UpdaterInit /\ [][UpdaterNext]_updaterVars

-----------------------------------------------------------------------------
(* An interrupted migration is settled on the next launch, so whatever tears  *)
(* the mutable state, something still says from where to mend it (reconcile). *)
TornStateIsMendable == mutable # "LOST"

(* Crashes alone, however many and between whichever durable writes, leave    *)
(* nothing that reconcile cannot settle while the state directory is flat,    *)
(* and never lose the mutable state; nor do they leave a remnant of a release *)
(* that is current.  Once a call of the adapter has failed there are two ways *)
(* out of reach: the intent of a rollback, which names its target twice, with *)
(* the predecessor restored; and a migration that is not rolled back and      *)
(* whose candidate was discarded all the same (reconcile, migrate,            *)
(* #rollbackMigration, #discard, restore, finalizeQualification).             *)
UpdateIsRecoverable ==
    /\ installed[current] # Absent /\ current \notin remnants
    /\ mutable = "TORN" => Pending
    /\ ~erred => mutable # "LOST" /\ (nested \/ ~Irreconcilable)
    /\ Irreconcilable /\ ~nested =>
          \/ IntentDisagrees /\ intent.release = intent.prev
          \/ NoCandidate /\ migration.release \in remnants
    /\ qual # Nil => \A e \in Receipts : e.op = qual.op => e.outcome = "APPLIED"

(* The journal is true: an operation has one receipt, or APPLIED and then     *)
(* FAILED where the cleanup of a qualification failed; a release that it says *)
(* was applied has been current, a qualification it does not mention has not  *)
(* settled, and so a rollback only ever starts for a release that was current *)
(* (#append, #reconcile, #qualifyParsed, rollback).                           *)
JournalIsTrue ==
    /\ \A i, j \in DOMAIN journal :
          i < j /\ journal[i].op = journal[j].op /\ journal[i].op # "RECONCILE" =>
             /\ journal[i].action = "QUALIFY" /\ journal[i].outcome = "APPLIED"
             /\ journal[j].outcome = "FAILED"
    /\ \A e \in AppliedBy("APPLY") : e.release \in tenants
    /\ root # 0 /\ qual = Nil => \E e \in AppliedBy("QUALIFY") : e.run = root
    /\ At("TARGET") => work.q.release \in tenants

(* What mishaps leave for reconcile, and what the journal says (UpdateManager).*)
UpdateIsSound == UpdateIsRecoverable /\ JournalIsTrue
=============================================================================
