---------------------------- MODULE MutationLock ----------------------------
(***************************************************************************)
(* withDurableMutationLock (packages/evidence/src/atomic-write.ts): a lock *)
(* file published with link(2), and a second file, the reconciliation      *)
(* claim or guard, that elects who may remove the lock of a dead owner.    *)
(*                                                                         *)
(* One step per file-system call or liveness probe.  A file is named by    *)
(* the process whose record it is, which stands for its inode.  A process  *)
(* acquires at most once; one that comes back is another element.  A       *)
(* removal checks the file's identity and then removes the path, in two    *)
(* calls: what the second removes may no longer be what the first saw.     *)
(* The 200 attempts in five seconds are GiveUp, possible on every round.   *)
(***************************************************************************)
EXTENDS FiniteSets, Naturals

CONSTANTS
    Processes,
    MaxCrashes,   \* bound on the processes that die
    NoFile        \* the path does not exist

ASSUME LockAssumption == NoFile \notin Processes /\ MaxCrashes \in Nat

VARIABLES
    pc,          \* the next call of each process
    back,        \* where the subroutine it is in returns to
    lock,        \* whose owner record is at the lock path
    guard,       \* whose claim is at the reconciliation claim path
    seen,        \* owner a process took a snapshot of
    snap,        \* claim a process took a snapshot of
    owned,       \* ownedClaim is defined
    reconciled,  \* dead owners with a reconciliation receipt
    recovered    \* dead claims with a recovery receipt

local == <<back, seen, snap, owned>>
files == <<lock, guard, reconciled, recovered>>
vars  == <<pc, local, files>>

Goto(p, label) == pc' = [pc EXCEPT ![p] = label]
Call(p, label, return) == Goto(p, label) /\ back' = [back EXCEPT ![p] = return]
At(p, label) == pc[p] = label

\* Mutant: a probe that is not answered in time is taken for a dead process.
NotFound_Unanswered(p) == pc[p] \in {"dead", "critical"}

\* probeProcessLiveness answers NOT_FOUND.
NotFound(p) == pc[p] = "dead"

Init ==
    /\ pc = [p \in Processes |-> "idle"]
    /\ back = [p \in Processes |-> "idle"]
    /\ seen = [p \in Processes |-> NoFile]
    /\ snap = [p \in Processes |-> NoFile]
    /\ owned = [p \in Processes |-> FALSE]
    /\ lock = NoFile /\ guard = NoFile
    /\ reconciled = {} /\ recovered = {}

-----------------------------------------------------------------------------
(* The acquisition loop.                                                   *)

Enter(p) ==
    /\ At(p, "idle")
    /\ Goto(p, "link")
    /\ UNCHANGED <<local, files>>

\* link(candidate, lock): a newcomer still has to look for a guard.
Link(p) ==
    /\ At(p, "link")
    /\ lock = NoFile
    /\ lock' = p
    /\ IF owned[p] THEN Call(p, "guardExists", "critical")
                   ELSE Goto(p, "guarded") /\ UNCHANGED back
    /\ UNCHANGED <<seen, snap, owned, guard, reconciled, recovered>>

\* EEXIST: with a claim in hand the process only tries again.
LockPresent(p) ==
    /\ At(p, "link")
    /\ lock # NoFile /\ ~owned[p]
    /\ Goto(p, "before")
    /\ UNCHANGED <<local, files>>

Guarded(p) ==
    /\ At(p, "guarded")
    /\ IF guard = NoFile THEN Goto(p, "critical") /\ UNCHANGED back
                         ELSE Call(p, "lockMine", "dropped")
    /\ UNCHANGED <<seen, snap, owned, files>>

\* Mutant: the claim is not released.
GiveUp_KeepsClaim(p) ==
    /\ At(p, "link")
    /\ Goto(p, "done")
    /\ UNCHANGED <<local, files>>

\* STORE_BUSY: the limit is reached, and a claim in hand is released.
GiveUp(p) ==
    /\ At(p, "link")
    /\ IF owned[p] THEN Call(p, "guardExists", "done")
                   ELSE Goto(p, "done") /\ UNCHANGED back
    /\ UNCHANGED <<seen, snap, owned, files>>

\* The operation has returned or thrown.
Leave(p) ==
    /\ At(p, "critical")
    /\ Call(p, "lockMine", "done")
    /\ UNCHANGED <<seen, snap, owned, files>>

\* removeIfSameFile(candidate, lock)
LockMine(p) ==
    /\ At(p, "lockMine")
    /\ Goto(p, IF lock = p THEN "unlink" ELSE back[p])
    /\ UNCHANGED <<local, files>>

Unlink(p) ==
    /\ At(p, "unlink")
    /\ lock' = NoFile
    /\ Goto(p, back[p])
    /\ UNCHANGED <<local, guard, reconciled, recovered>>

-----------------------------------------------------------------------------
(* tryRecoverStaleClaim, called from the loop and from the reconciliation. *)

ReadClaim(p) ==
    /\ pc[p] \in {"dropped", "stale"}
    /\ LET return == IF At(p, "dropped") THEN "link" ELSE "after"
       IN  IF guard = NoFile
           THEN Goto(p, return) /\ UNCHANGED <<back, snap>>
           ELSE /\ Call(p, "probeClaim", return)
                /\ snap' = [snap EXCEPT ![p] = guard]
    /\ UNCHANGED <<seen, owned, files>>

\* Mutant: a dead reconciler's claim is left in place.
ProbeClaim_Respects(p) ==
    /\ At(p, "probeClaim")
    /\ Goto(p, back[p])
    /\ UNCHANGED <<local, files>>

\* The probe, and the recovery receipt when the reconciler is gone.
ProbeClaim(p) ==
    /\ At(p, "probeClaim")
    /\ IF NotFound(snap[p])
       THEN Goto(p, "claimMatch") /\ recovered' = recovered \cup {snap[p]}
       ELSE Goto(p, back[p]) /\ UNCHANGED recovered
    /\ UNCHANGED <<local, lock, guard, reconciled>>

\* removeIfIdentity(snapshot, guard)
ClaimMatch(p) ==
    /\ At(p, "claimMatch")
    /\ Goto(p, IF guard = snap[p] THEN "removeClaim" ELSE back[p])
    /\ UNCHANGED <<local, files>>

RemoveClaim(p) ==
    /\ At(p, "removeClaim")
    /\ guard' = NoFile
    /\ Goto(p, back[p])
    /\ UNCHANGED <<local, lock, reconciled, recovered>>

-----------------------------------------------------------------------------
(* tryReconcileStaleOwner                                                  *)

\* pathExists(guard), before and after a stale claim has been recovered
GuardBefore(p) ==
    /\ At(p, "before")
    /\ Goto(p, IF guard = NoFile THEN "readOwner" ELSE "stale")
    /\ UNCHANGED <<local, files>>

GuardAfter(p) ==
    /\ At(p, "after")
    /\ Goto(p, IF guard = NoFile THEN "readOwner" ELSE "link")
    /\ UNCHANGED <<local, files>>

ReadOwner(p) ==
    /\ At(p, "readOwner")
    /\ Goto(p, IF lock = NoFile THEN "link" ELSE "probeOwner")
    /\ seen' = [seen EXCEPT ![p] = lock]
    /\ UNCHANGED <<back, snap, owned, files>>

ProbeOwner(p) ==
    /\ At(p, "probeOwner")
    /\ Goto(p, IF NotFound(seen[p]) THEN "claim" ELSE "link")
    /\ UNCHANGED <<local, files>>

\* Mutant: the claim is published by rename, which replaces another's.
Claim_Replaces(p) ==
    /\ At(p, "claim")
    /\ guard' = p /\ Goto(p, "reread")
    /\ UNCHANGED <<local, lock, reconciled, recovered>>

\* link(claim, guard)
Claim(p) ==
    /\ At(p, "claim")
    /\ IF guard = NoFile THEN guard' = p /\ Goto(p, "reread")
                         ELSE UNCHANGED guard /\ Goto(p, "link")
    /\ UNCHANGED <<local, lock, reconciled, recovered>>

\* Under the claim the owner is read and probed again, and its receipt kept.
Reread(p) ==
    /\ At(p, "reread")
    /\ IF lock = seen[p] /\ NotFound(seen[p])
       THEN /\ reconciled' = reconciled \cup {seen[p]}
            /\ Goto(p, "ownerMatch") /\ UNCHANGED back
       ELSE Call(p, "guardExists", "link") /\ UNCHANGED reconciled
    /\ UNCHANGED <<seen, snap, owned, lock, guard, recovered>>

\* removeIfIdentity(current, lock)
OwnerMatch(p) ==
    /\ At(p, "ownerMatch")
    /\ IF lock = seen[p] THEN Goto(p, "removeOwner") /\ UNCHANGED back
                         ELSE Call(p, "guardExists", "link")
    /\ UNCHANGED <<seen, snap, owned, files>>

RemoveOwner(p) ==
    /\ At(p, "removeOwner")
    /\ lock' = NoFile
    /\ IF lock = NoFile
       THEN Call(p, "guardExists", "link") /\ UNCHANGED owned
       ELSE /\ Goto(p, "link") /\ UNCHANGED back
            /\ owned' = [owned EXCEPT ![p] = TRUE]
    /\ UNCHANGED <<seen, snap, guard, reconciled, recovered>>

-----------------------------------------------------------------------------
(* releaseOwnedClaim                                                       *)

Released(p) == Goto(p, back[p]) /\ UNCHANGED back

\* A claim that changed fails the acquisition that was about to succeed; in
\* the other calls the error is dropped.
Changed(p) ==
    IF back[p] = "critical" THEN Call(p, "lockMine", "done") ELSE Released(p)

GuardExists(p) ==
    /\ At(p, "guardExists")
    /\ IF guard = NoFile
       THEN Released(p) /\ owned' = [owned EXCEPT ![p] = FALSE]
       ELSE Goto(p, "guardMine") /\ UNCHANGED <<back, owned>>
    /\ UNCHANGED <<seen, snap, files>>

\* removeIfSameFile(claim, guard)
GuardMine(p) ==
    /\ At(p, "guardMine")
    /\ IF guard = p
       THEN Goto(p, "removeMine") /\ UNCHANGED <<back, owned>>
       ELSE Changed(p) /\ owned' = [owned EXCEPT ![p] = FALSE]
    /\ UNCHANGED <<seen, snap, files>>

RemoveMine(p) ==
    /\ At(p, "removeMine")
    /\ guard' = NoFile
    /\ owned' = [owned EXCEPT ![p] = FALSE]
    /\ IF guard = NoFile THEN Changed(p) ELSE Released(p)
    /\ UNCHANGED <<seen, snap, lock, reconciled, recovered>>

-----------------------------------------------------------------------------
Crash(p) ==
    /\ pc[p] \notin {"idle", "done", "dead"}
    /\ Cardinality({q \in Processes : At(q, "dead")}) < MaxCrashes
    /\ Goto(p, "dead")
    /\ UNCHANGED <<local, files>>

\* What a process that runs does next, once it has entered.
Step(p) ==
    \/ Link(p) \/ LockPresent(p) \/ Guarded(p) \/ Leave(p) \/ LockMine(p) \/ Unlink(p)
    \/ ReadClaim(p) \/ ProbeClaim(p) \/ ClaimMatch(p) \/ RemoveClaim(p)
    \/ GuardBefore(p) \/ GuardAfter(p) \/ ReadOwner(p) \/ ProbeOwner(p)
    \/ Claim(p) \/ Reread(p) \/ OwnerMatch(p) \/ RemoveOwner(p)
    \/ GuardExists(p) \/ GuardMine(p) \/ RemoveMine(p)

Next == \E p \in Processes : Enter(p) \/ GiveUp(p) \/ Step(p) \/ Crash(p)

Spec == Init /\ [][Next]_vars

\* What a run of the lock may assume: a process that is alive gets to its next
\* call, weak fairness of Step.  Nobody has to enter or to die.  With a claim in
\* hand a process does nothing but try to link, so the limit on its attempts does
\* end its wait, weak fairness of this; the others need not give up.
AttemptsRunOut(p) == owned[p] /\ GiveUp(p)

-----------------------------------------------------------------------------
(* Properties.                                                             *)

Labels ==
    {"idle", "link", "guarded", "critical", "lockMine", "unlink", "dropped", "stale",
     "probeClaim", "claimMatch", "removeClaim", "before", "after", "readOwner",
     "probeOwner", "claim", "reread", "ownerMatch", "removeOwner", "guardExists",
     "guardMine", "removeMine", "done", "dead"}

TypeOK ==
    /\ pc \in [Processes -> Labels]
    /\ back \in [Processes -> {"idle", "dropped", "done", "critical", "link", "after"}]
    /\ lock \in Processes \cup {NoFile} /\ guard \in Processes \cup {NoFile}
    /\ seen \in [Processes -> Processes \cup {NoFile}]
    /\ snap \in [Processes -> Processes \cup {NoFile}]
    /\ owned \in [Processes -> BOOLEAN]
    /\ reconciled \subseteq Processes /\ recovered \subseteq Processes

Holders == {p \in Processes : At(p, "critical")}
Dead    == {p \in Processes : At(p, "dead")}

\* The lock does what its callers rely on: seen from outside it is the
\* abstract mutex, through every crash, recovery and failed acquisition.
Promise == INSTANCE Mutex WITH holders <- Holders, crashed <- Dead
ImplementsMutex == Promise!MutexSpec

\* Two operations on one store never overlap.
MutualExclusion == Cardinality(Holders) <= 1

\* While an operation runs its owner record stays at the lock path: no recovery
\* removes, and no newcomer replaces, the lock of a live owner.
HolderKeepsLock == \A p \in Holders : lock = p

\* A process that returned, in whichever way, left neither its lock nor its
\* claim behind; otherwise every later process would wait for a live owner.
NothingLeftBehind ==
    \A p \in Processes : At(p, "done") => lock # p /\ guard # p

\* The lock is where its owner is: there while the owner works, gone once it
\* returned (acquireMutationLock, reconcileMutationLock, release).
LockFollowsOwner == HolderKeepsLock /\ NothingLeftBehind

\* The lock of an owner that died is removed as long as somebody keeps trying
\* to acquire, although the reconciler may die too and leave its claim.
Waiting(p) == pc[p] \notin {"idle", "done", "dead", "critical"}
DeadOwnerIsRecovered ==
    \A p \in Processes :
        lock = p /\ At(p, "dead") ~> lock # p \/ ~\E q \in Processes : Waiting(q)
=============================================================================
