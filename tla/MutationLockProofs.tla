------------------------- MODULE MutationLockProofs -------------------------
(***************************************************************************)
(* The durable mutation lock keeps its promise for any number of processes *)
(* while at most one of them dies.                                         *)
(*                                                                         *)
(* The death of one is what the reconciliation is made for: a claim needs  *)
(* a dead owner, so a reconciler cannot be the one that died, nobody ever  *)
(* recovers a claim, and a claim stands until its owner takes it down.     *)
(* That is what protects the two calls of a removal: as long as the claim  *)
(* stands the path still has the dead owner's record.  With a second death *)
(* this falls, as lock_two_crashes shows, so the theorem assumes it away.  *)
(***************************************************************************)
EXTENDS MutationLock, FiniteSetTheorems, TLAPS

Backs == {"idle", "dropped", "done", "critical", "link", "after"}
Releasing == {"guardExists", "guardMine", "removeMine"}
Judging == {"claim", "reread", "ownerMatch", "removeOwner"}

(* A process at l that returns to b: its claim is at the guard path, its     *)
(* record is at the lock path.                                               *)
HasClaim(l, o) == l \in (Judging \ {"claim"}) \cup Releasing \/ (l = "link" /\ o)
HasLock(l, b) == l \in {"guarded", "critical", "lockMine", "unlink"} \/ (l \in Releasing /\ b = "critical")

(* What holds of p with local state l, b, s, n, o, the two files and the     *)
(* dead.                                                                     *)
Sound(p, l, b, s, n, o, file, claim, dead) ==
    /\ claim = p <=> HasClaim(l, o)
    /\ o => l = "link" \/ l \in Releasing
    /\ HasLock(l, b) => file = p
    /\ file = p => HasLock(l, b) \/ l = "dead"
    /\ l = "probeOwner" => s \in Processes
    /\ l \in Judging => s \in dead
    /\ l = "removeOwner" => file = s
    /\ l = "probeClaim" => n \in Processes \ dead /\ dead # {}
    /\ l \notin {"claimMatch", "removeClaim"}
    /\ l \in {"lockMine", "unlink"} => b \in {"dropped", "done"}
    /\ l \in Releasing => b \in {"critical", "done", "link"}
    /\ l = "probeClaim" => b \in {"link", "after"}

LockTypes ==
    /\ pc \in [Processes -> Labels] /\ back \in [Processes -> Backs]
    /\ seen \in [Processes -> Processes \cup {NoFile}] /\ snap \in [Processes -> Processes \cup {NoFile}]
    /\ owned \in [Processes -> BOOLEAN]
    /\ lock \in Processes \cup {NoFile} /\ guard \in Processes \cup {NoFile}
OneDied == Dead = {} \/ \E d \in Processes : Dead = {d}
DeathFirst == guard # NoFile => Dead # {}
AllSound == \A p \in Processes : Sound(p, pc[p], back[p], seen[p], snap[p], owned[p], lock, guard, Dead)
LockInv == LockTypes /\ OneDied /\ DeathFirst /\ AllSound

LEMMA LockInvInit == Init => LockInv
<1> SUFFICES ASSUME Init PROVE LockInv
  OBVIOUS
<1>1. Dead = {} /\ guard = NoFile /\ lock = NoFile
  BY DEF Init, Dead, At
<1>2. LockTypes
  BY DEF Init, LockTypes, Labels, Backs
<1>3. AllSound
  BY <1>1, LockAssumption DEF Init, AllSound, Sound, HasClaim, HasLock, Judging, Releasing,
       LockAssumption
<1> QED  BY <1>1, <1>2, <1>3 DEF LockInv, OneDied, DeathFirst

LEMMA LockInvImplies == LockInv => LockFollowsOwner
<1> SUFFICES ASSUME LockInv PROVE LockFollowsOwner
  OBVIOUS
<1>1. ASSUME NEW p \in Processes PROVE /\ pc[p] = "critical" => lock = p
                                       /\ pc[p] = "done" => lock # p /\ guard # p
  BY DEF LockInv, AllSound, Sound, HasClaim, HasLock, Judging, Releasing
<1> QED  BY <1>1 DEF LockFollowsOwner, HolderKeepsLock, NothingLeftBehind, Holders, At

(* A step of p that lives: it may put its own record where there is none,    *)
(* take its own away, or take a dead owner's away under its claim.           *)
Becomes(p, l, b, s, n, o) ==
    /\ pc[p] # "dead"
    /\ pc' = [pc EXCEPT ![p] = l] /\ back' = [back EXCEPT ![p] = b] /\ seen' = [seen EXCEPT ![p] = s]
    /\ snap' = [snap EXCEPT ![p] = n] /\ owned' = [owned EXCEPT ![p] = o]
    /\ \/ lock' = lock
       \/ lock = NoFile /\ lock' = p
       \/ lock' = NoFile /\ (lock = p \/ (lock \in Dead /\ guard = p))
    /\ \/ guard' = guard
       \/ guard = NoFile /\ guard' = p /\ Dead # {}
       \/ guard = p /\ guard' = NoFile
    /\ Sound(p, l, b, s, n, o, lock', guard', Dead)

LEMMA LivingStep ==
    ASSUME LockInv, NEW p \in Processes, NEW l \in Labels \ {"dead"}, NEW b \in Backs,
           NEW s \in Processes \cup {NoFile}, NEW n \in Processes \cup {NoFile}, NEW o \in BOOLEAN,
           Becomes(p, l, b, s, n, o)
    PROVE  LockInv'
<1> USE DEF Becomes
<1>1. LockTypes'
  BY DEF LockInv, LockTypes
<1>2. Dead' = Dead
  BY DEF LockInv, LockTypes, Dead, At
<1>3. OneDied' /\ DeathFirst'
  BY <1>2, LockAssumption DEF LockInv, OneDied, DeathFirst, LockAssumption
<1>4. ASSUME NEW q \in Processes
      PROVE  Sound(q, pc'[q], back'[q], seen'[q], snap'[q], owned'[q], lock', guard', Dead)
  <2>1. CASE q = p
    <3>1. pc'[q] = l /\ back'[q] = b /\ seen'[q] = s /\ snap'[q] = n /\ owned'[q] = o
      BY <2>1 DEF LockInv, LockTypes
    <3> QED  BY <2>1, <3>1
  <2>2. CASE q # p
    <3>1. /\ pc'[q] = pc[q] /\ back'[q] = back[q] /\ seen'[q] = seen[q] /\ snap'[q] = snap[q]
          /\ owned'[q] = owned[q]
      BY <2>2 DEF LockInv, LockTypes
    <3>2. Sound(q, pc[q], back[q], seen[q], snap[q], owned[q], lock, guard, Dead)
      BY DEF LockInv, AllSound
    <3>3. p \notin Dead /\ Dead \subseteq Processes /\ (q \in Dead => pc[q] = "dead") /\ NoFile \notin Processes
      BY LockAssumption DEF Dead, At, LockAssumption
    <3>4. guard' = q <=> HasClaim(pc[q], owned[q])
      BY <2>2, <3>2, <3>3 DEF Sound
    <3>5. (HasLock(pc[q], back[q]) => lock' = q) /\ (lock' = q => HasLock(pc[q], back[q]) \/ pc[q] = "dead")
      BY <2>2, <3>2, <3>3 DEF Sound, HasLock, Releasing
    <3>6. pc[q] = "removeOwner" => lock' = seen[q]
      BY <2>2, <3>2, <3>3 DEF Sound, HasClaim, Judging, Releasing
    <3> QED  BY <3>1, <3>2, <3>4, <3>5, <3>6 DEF Sound
  <2> QED  BY <2>1, <2>2
<1>5. AllSound'
  BY <1>2, <1>4 DEF AllSound
<1> QED  BY <1>1, <1>3, <1>5 DEF LockInv

(* The same for a step that changes where p is and nothing else.             *)
LEMMA MoveStep ==
    ASSUME LockInv, NEW p \in Processes, pc[p] # "dead", NEW l \in Labels \ {"dead"}, NEW b \in Backs,
           pc' = [pc EXCEPT ![p] = l], back' = [back EXCEPT ![p] = b],
           UNCHANGED <<seen, snap, owned, lock, guard>>,
           Sound(p, l, b, seen[p], snap[p], owned[p], lock, guard, Dead)
    PROVE  LockInv'
<1>1. PICK s \in Processes \cup {NoFile}, n \in Processes \cup {NoFile}, o \in BOOLEAN :
          s = seen[p] /\ n = snap[p] /\ o = owned[p]
  BY DEF LockInv, LockTypes
<1>2. seen' = [seen EXCEPT ![p] = s] /\ snap' = [snap EXCEPT ![p] = n]
                                     /\ owned' = [owned EXCEPT ![p] = o]
  BY <1>1 DEF LockInv, LockTypes
<1>3. Becomes(p, l, b, s, n, o)
  BY <1>1, <1>2 DEF Becomes
<1> QED  BY <1>3, LivingStep

LEMMA Local ==
    ASSUME LockInv, NEW p \in Processes
    PROVE  /\ Sound(p, pc[p], back[p], seen[p], snap[p], owned[p], lock, guard, Dead)
           /\ pc[p] \in Labels /\ back[p] \in Backs /\ seen[p] \in Processes \cup {NoFile}
           /\ snap[p] \in Processes \cup {NoFile} /\ owned[p] \in BOOLEAN
           /\ back = [back EXCEPT ![p] = back[p]] /\ seen = [seen EXCEPT ![p] = seen[p]]
           /\ snap = [snap EXCEPT ![p] = snap[p]] /\ owned = [owned EXCEPT ![p] = owned[p]]
           /\ NoFile \notin Processes /\ Dead \subseteq Processes
           /\ \A q \in Processes : NotFound(q) <=> q \in Dead
BY LockAssumption DEF LockInv, LockTypes, AllSound, LockAssumption, Dead, At, NotFound

LEMMA StepEnter == ASSUME LockInv, NEW p \in Processes, Enter(p) PROVE LockInv'
<1>1. pc[p] # "dead" /\ pc' = [pc EXCEPT ![p] = "link"] /\ back' = [back EXCEPT ![p] = back[p]]
        /\ UNCHANGED <<seen, snap, owned, lock, guard>>
    BY Local DEF Enter, At, Goto, Call, Released, Changed, local, files
<1>2. Sound(p, "link", back[p], seen[p], snap[p], owned[p], lock, guard, Dead)
  BY Local DEF Enter, At, Sound, HasClaim, HasLock, Judging, Releasing, Backs
<1>3. "link" \in Labels \ {"dead"} /\ back[p] \in Backs
  BY Local DEF Labels, Backs
<1> QED  BY <1>1, <1>2, <1>3, MoveStep

LEMMA StepLockPresent == ASSUME LockInv, NEW p \in Processes, LockPresent(p) PROVE LockInv'
<1>1. pc[p] # "dead" /\ pc' = [pc EXCEPT ![p] = "before"] /\ back' = [back EXCEPT ![p] = back[p]]
        /\ UNCHANGED <<seen, snap, owned, lock, guard>>
    BY Local DEF LockPresent, At, Goto, Call, Released, Changed, local, files
<1>2. Sound(p, "before", back[p], seen[p], snap[p], owned[p], lock, guard, Dead)
  BY Local DEF LockPresent, At, Sound, HasClaim, HasLock, Judging, Releasing, Backs
<1>3. "before" \in Labels \ {"dead"} /\ back[p] \in Backs
  BY Local DEF Labels, Backs
<1> QED  BY <1>1, <1>2, <1>3, MoveStep

LEMMA StepGuarded == ASSUME LockInv, NEW p \in Processes, Guarded(p) PROVE LockInv'
<1>1. CASE guard = NoFile
  <2>1. pc[p] # "dead" /\ pc' = [pc EXCEPT ![p] = "critical"] /\ back' = [back EXCEPT ![p] = back[p]]
          /\ UNCHANGED <<seen, snap, owned, lock, guard>>
    BY <1>1, Local DEF Guarded, At, Goto, Call, Released, Changed, local, files
  <2>2. Sound(p, "critical", back[p], seen[p], snap[p], owned[p], lock, guard, Dead)
    BY <1>1, Local DEF Guarded, At, Sound, HasClaim, HasLock, Judging, Releasing, Backs
  <2>3. "critical" \in Labels \ {"dead"} /\ back[p] \in Backs
    BY Local DEF Labels, Backs
  <2> QED  BY <2>1, <2>2, <2>3, MoveStep
<1>2. CASE guard # NoFile
  <2>1. pc[p] # "dead" /\ pc' = [pc EXCEPT ![p] = "lockMine"] /\ back' = [back EXCEPT ![p] = "dropped"]
          /\ UNCHANGED <<seen, snap, owned, lock, guard>>
    BY <1>2, Local DEF Guarded, At, Goto, Call, Released, Changed, local, files
  <2>2. Sound(p, "lockMine", "dropped", seen[p], snap[p], owned[p], lock, guard, Dead)
    BY <1>2, Local DEF Guarded, At, Sound, HasClaim, HasLock, Judging, Releasing, Backs
  <2>3. "lockMine" \in Labels \ {"dead"} /\ "dropped" \in Backs
    BY Local DEF Labels, Backs
  <2> QED  BY <2>1, <2>2, <2>3, MoveStep
<1> QED  BY <1>1, <1>2 DEF Guarded

LEMMA StepGiveUp == ASSUME LockInv, NEW p \in Processes, GiveUp(p) PROVE LockInv'
<1>1. CASE owned[p]
  <2>1. pc[p] # "dead" /\ pc' = [pc EXCEPT ![p] = "guardExists"] /\ back' = [back EXCEPT ![p] = "done"]
          /\ UNCHANGED <<seen, snap, owned, lock, guard>>
    BY <1>1, Local DEF GiveUp, At, Goto, Call, Released, Changed, local, files
  <2>2. Sound(p, "guardExists", "done", seen[p], snap[p], owned[p], lock, guard, Dead)
    BY <1>1, Local DEF GiveUp, At, Sound, HasClaim, HasLock, Judging, Releasing, Backs
  <2>3. "guardExists" \in Labels \ {"dead"} /\ "done" \in Backs
    BY Local DEF Labels, Backs
  <2> QED  BY <2>1, <2>2, <2>3, MoveStep
<1>2. CASE ~owned[p]
  <2>1. pc[p] # "dead" /\ pc' = [pc EXCEPT ![p] = "done"] /\ back' = [back EXCEPT ![p] = back[p]]
          /\ UNCHANGED <<seen, snap, owned, lock, guard>>
    BY <1>2, Local DEF GiveUp, At, Goto, Call, Released, Changed, local, files
  <2>2. Sound(p, "done", back[p], seen[p], snap[p], owned[p], lock, guard, Dead)
    BY <1>2, Local DEF GiveUp, At, Sound, HasClaim, HasLock, Judging, Releasing, Backs
  <2>3. "done" \in Labels \ {"dead"} /\ back[p] \in Backs
    BY Local DEF Labels, Backs
  <2> QED  BY <2>1, <2>2, <2>3, MoveStep
<1> QED  BY <1>1, <1>2 DEF GiveUp

LEMMA StepLeave == ASSUME LockInv, NEW p \in Processes, Leave(p) PROVE LockInv'
<1>1. pc[p] # "dead" /\ pc' = [pc EXCEPT ![p] = "lockMine"] /\ back' = [back EXCEPT ![p] = "done"]
        /\ UNCHANGED <<seen, snap, owned, lock, guard>>
    BY Local DEF Leave, At, Goto, Call, Released, Changed, local, files
<1>2. Sound(p, "lockMine", "done", seen[p], snap[p], owned[p], lock, guard, Dead)
  BY Local DEF Leave, At, Sound, HasClaim, HasLock, Judging, Releasing, Backs
<1>3. "lockMine" \in Labels \ {"dead"} /\ "done" \in Backs
  BY Local DEF Labels, Backs
<1> QED  BY <1>1, <1>2, <1>3, MoveStep

LEMMA StepLockMine == ASSUME LockInv, NEW p \in Processes, LockMine(p) PROVE LockInv'
<1>1. CASE lock = p
  <2>1. pc[p] # "dead" /\ pc' = [pc EXCEPT ![p] = "unlink"] /\ back' = [back EXCEPT ![p] = back[p]]
          /\ UNCHANGED <<seen, snap, owned, lock, guard>>
    BY <1>1, Local DEF LockMine, At, Goto, Call, Released, Changed, local, files
  <2>2. Sound(p, "unlink", back[p], seen[p], snap[p], owned[p], lock, guard, Dead)
    BY <1>1, Local DEF LockMine, At, Sound, HasClaim, HasLock, Judging, Releasing, Backs
  <2>3. "unlink" \in Labels \ {"dead"} /\ back[p] \in Backs
    BY Local DEF Labels, Backs
  <2> QED  BY <2>1, <2>2, <2>3, MoveStep
<1>2. CASE lock # p
  <2>1. pc[p] # "dead" /\ pc' = [pc EXCEPT ![p] = back[p]] /\ back' = [back EXCEPT ![p] = back[p]]
          /\ UNCHANGED <<seen, snap, owned, lock, guard>>
    BY <1>2, Local DEF LockMine, At, Goto, Call, Released, Changed, local, files
  <2>2. Sound(p, back[p], back[p], seen[p], snap[p], owned[p], lock, guard, Dead)
    BY <1>2, Local DEF LockMine, At, Sound, HasClaim, HasLock, Judging, Releasing, Backs
  <2>3. back[p] \in Labels \ {"dead"} /\ back[p] \in Backs
    BY Local DEF Labels, Backs
  <2> QED  BY <2>1, <2>2, <2>3, MoveStep
<1> QED  BY <1>1, <1>2 DEF LockMine

LEMMA StepGuardBefore == ASSUME LockInv, NEW p \in Processes, GuardBefore(p) PROVE LockInv'
<1>1. CASE guard = NoFile
  <2>1. pc[p] # "dead" /\ pc' = [pc EXCEPT ![p] = "readOwner"] /\ back' = [back EXCEPT ![p] = back[p]]
          /\ UNCHANGED <<seen, snap, owned, lock, guard>>
    BY <1>1, Local DEF GuardBefore, At, Goto, Call, Released, Changed, local, files
  <2>2. Sound(p, "readOwner", back[p], seen[p], snap[p], owned[p], lock, guard, Dead)
    BY <1>1, Local DEF GuardBefore, At, Sound, HasClaim, HasLock, Judging, Releasing, Backs
  <2>3. "readOwner" \in Labels \ {"dead"} /\ back[p] \in Backs
    BY Local DEF Labels, Backs
  <2> QED  BY <2>1, <2>2, <2>3, MoveStep
<1>2. CASE guard # NoFile
  <2>1. pc[p] # "dead" /\ pc' = [pc EXCEPT ![p] = "stale"] /\ back' = [back EXCEPT ![p] = back[p]]
          /\ UNCHANGED <<seen, snap, owned, lock, guard>>
    BY <1>2, Local DEF GuardBefore, At, Goto, Call, Released, Changed, local, files
  <2>2. Sound(p, "stale", back[p], seen[p], snap[p], owned[p], lock, guard, Dead)
    BY <1>2, Local DEF GuardBefore, At, Sound, HasClaim, HasLock, Judging, Releasing, Backs
  <2>3. "stale" \in Labels \ {"dead"} /\ back[p] \in Backs
    BY Local DEF Labels, Backs
  <2> QED  BY <2>1, <2>2, <2>3, MoveStep
<1> QED  BY <1>1, <1>2 DEF GuardBefore

LEMMA StepGuardAfter == ASSUME LockInv, NEW p \in Processes, GuardAfter(p) PROVE LockInv'
<1>1. CASE guard = NoFile
  <2>1. pc[p] # "dead" /\ pc' = [pc EXCEPT ![p] = "readOwner"] /\ back' = [back EXCEPT ![p] = back[p]]
          /\ UNCHANGED <<seen, snap, owned, lock, guard>>
    BY <1>1, Local DEF GuardAfter, At, Goto, Call, Released, Changed, local, files
  <2>2. Sound(p, "readOwner", back[p], seen[p], snap[p], owned[p], lock, guard, Dead)
    BY <1>1, Local DEF GuardAfter, At, Sound, HasClaim, HasLock, Judging, Releasing, Backs
  <2>3. "readOwner" \in Labels \ {"dead"} /\ back[p] \in Backs
    BY Local DEF Labels, Backs
  <2> QED  BY <2>1, <2>2, <2>3, MoveStep
<1>2. CASE guard # NoFile
  <2>1. pc[p] # "dead" /\ pc' = [pc EXCEPT ![p] = "link"] /\ back' = [back EXCEPT ![p] = back[p]]
          /\ UNCHANGED <<seen, snap, owned, lock, guard>>
    BY <1>2, Local DEF GuardAfter, At, Goto, Call, Released, Changed, local, files
  <2>2. Sound(p, "link", back[p], seen[p], snap[p], owned[p], lock, guard, Dead)
    BY <1>2, Local DEF GuardAfter, At, Sound, HasClaim, HasLock, Judging, Releasing, Backs
  <2>3. "link" \in Labels \ {"dead"} /\ back[p] \in Backs
    BY Local DEF Labels, Backs
  <2> QED  BY <2>1, <2>2, <2>3, MoveStep
<1> QED  BY <1>1, <1>2 DEF GuardAfter

LEMMA StepOwnerMatch == ASSUME LockInv, NEW p \in Processes, OwnerMatch(p) PROVE LockInv'
<1>1. CASE lock = seen[p]
  <2>1. pc[p] # "dead" /\ pc' = [pc EXCEPT ![p] = "removeOwner"] /\ back' = [back EXCEPT ![p] = back[p]]
          /\ UNCHANGED <<seen, snap, owned, lock, guard>>
    BY <1>1, Local DEF OwnerMatch, At, Goto, Call, Released, Changed, local, files
  <2>2. Sound(p, "removeOwner", back[p], seen[p], snap[p], owned[p], lock, guard, Dead)
    BY <1>1, Local DEF OwnerMatch, At, Sound, HasClaim, HasLock, Judging, Releasing, Backs
  <2>3. "removeOwner" \in Labels \ {"dead"} /\ back[p] \in Backs
    BY Local DEF Labels, Backs
  <2> QED  BY <2>1, <2>2, <2>3, MoveStep
<1>2. CASE lock # seen[p]
  <2>1. pc[p] # "dead" /\ pc' = [pc EXCEPT ![p] = "guardExists"] /\ back' = [back EXCEPT ![p] = "link"]
          /\ UNCHANGED <<seen, snap, owned, lock, guard>>
    BY <1>2, Local DEF OwnerMatch, At, Goto, Call, Released, Changed, local, files
  <2>2. Sound(p, "guardExists", "link", seen[p], snap[p], owned[p], lock, guard, Dead)
    BY <1>2, Local DEF OwnerMatch, At, Sound, HasClaim, HasLock, Judging, Releasing, Backs
  <2>3. "guardExists" \in Labels \ {"dead"} /\ "link" \in Backs
    BY Local DEF Labels, Backs
  <2> QED  BY <2>1, <2>2, <2>3, MoveStep
<1> QED  BY <1>1, <1>2 DEF OwnerMatch

LEMMA StepProbeOwner == ASSUME LockInv, NEW p \in Processes, ProbeOwner(p) PROVE LockInv'
<1>1. CASE seen[p] \in Dead
  <2>1. pc[p] # "dead" /\ pc' = [pc EXCEPT ![p] = "claim"] /\ back' = [back EXCEPT ![p] = back[p]]
          /\ UNCHANGED <<seen, snap, owned, lock, guard>>
    BY <1>1, Local DEF ProbeOwner, At, Goto, Call, Released, Changed, local, files, Sound
  <2>2. Sound(p, "claim", back[p], seen[p], snap[p], owned[p], lock, guard, Dead)
    BY <1>1, Local DEF ProbeOwner, At, Sound, HasClaim, HasLock, Judging, Releasing, Backs
  <2>3. "claim" \in Labels \ {"dead"} /\ back[p] \in Backs
    BY Local DEF Labels, Backs
  <2> QED  BY <2>1, <2>2, <2>3, MoveStep
<1>2. CASE seen[p] \notin Dead
  <2>1. pc[p] # "dead" /\ pc' = [pc EXCEPT ![p] = "link"] /\ back' = [back EXCEPT ![p] = back[p]]
          /\ UNCHANGED <<seen, snap, owned, lock, guard>>
    BY <1>2, Local DEF ProbeOwner, At, Goto, Call, Released, Changed, local, files, Sound
  <2>2. Sound(p, "link", back[p], seen[p], snap[p], owned[p], lock, guard, Dead)
    BY <1>2, Local DEF ProbeOwner, At, Sound, HasClaim, HasLock, Judging, Releasing, Backs
  <2>3. "link" \in Labels \ {"dead"} /\ back[p] \in Backs
    BY Local DEF Labels, Backs
  <2> QED  BY <2>1, <2>2, <2>3, MoveStep
<1> QED  BY <1>1, <1>2 DEF ProbeOwner

(* A claim at the guard path is a living process's, and somebody died.       *)
LEMMA ClaimLives == ASSUME LockInv, guard # NoFile PROVE guard \in Processes \ Dead /\ Dead # {}
<1>1. guard \in Processes /\ Dead # {}
  BY DEF LockInv, LockTypes, DeathFirst
<1>2. Sound(guard, pc[guard], back[guard], seen[guard], snap[guard], owned[guard], lock, guard, Dead)
  BY <1>1 DEF LockInv, AllSound
<1> QED  BY <1>1, <1>2 DEF Sound, HasClaim, Judging, Releasing, Dead, At

(* Nobody recovers a claim.                                                  *)
LEMMA StepClaims == ASSUME LockInv, NEW p \in Processes PROVE ~ClaimMatch(p) /\ ~RemoveClaim(p)
BY Local DEF ClaimMatch, RemoveClaim, At, Sound

LEMMA StepLink == ASSUME LockInv, NEW p \in Processes, Link(p) PROVE LockInv'
<1>1. CASE owned[p]
  <2>1. /\ pc[p] # "dead" /\ pc' = [pc EXCEPT ![p] = "guardExists"]
        /\ back' = [back EXCEPT ![p] = "critical"]
       /\ seen' = [seen EXCEPT ![p] = seen[p]] /\ snap' = [snap EXCEPT ![p] = snap[p]]
       /\ owned' = [owned EXCEPT ![p] = owned[p]]
    BY <1>1, Local DEF Link, At, Goto, Call, Released, Changed, local, files, Sound, HasClaim,
         Judging, Releasing
  <2>2. Becomes(p, "guardExists", "critical", seen[p], snap[p], owned[p])
    BY <1>1, <2>1, Local DEF Link, At, local, files, Becomes, Sound, HasClaim, HasLock,
         Judging, Releasing, Backs
  <2>3. "guardExists" \in Labels \ {"dead"} /\ "critical" \in Backs
    BY Local DEF Labels, Backs
  <2>4. seen[p] \in Processes \cup {NoFile} /\ snap[p] \in Processes \cup {NoFile} /\ owned[p] \in BOOLEAN
    BY Local DEF LockInv, LockTypes
  <2> QED  BY <2>2, <2>3, <2>4, LivingStep
<1>2. CASE ~owned[p]
  <2>1. /\ pc[p] # "dead" /\ pc' = [pc EXCEPT ![p] = "guarded"]
        /\ back' = [back EXCEPT ![p] = back[p]]
       /\ seen' = [seen EXCEPT ![p] = seen[p]] /\ snap' = [snap EXCEPT ![p] = snap[p]]
       /\ owned' = [owned EXCEPT ![p] = owned[p]]
    BY <1>2, Local DEF Link, At, Goto, Call, Released, Changed, local, files, Sound, HasClaim,
         Judging, Releasing
  <2>2. Becomes(p, "guarded", back[p], seen[p], snap[p], owned[p])
    BY <1>2, <2>1, Local DEF Link, At, local, files, Becomes, Sound, HasClaim, HasLock,
         Judging, Releasing, Backs
  <2>3. "guarded" \in Labels \ {"dead"} /\ back[p] \in Backs
    BY Local DEF Labels, Backs
  <2>4. seen[p] \in Processes \cup {NoFile} /\ snap[p] \in Processes \cup {NoFile} /\ owned[p] \in BOOLEAN
    BY Local DEF LockInv, LockTypes
  <2> QED  BY <2>2, <2>3, <2>4, LivingStep
<1> QED  BY <1>1, <1>2 DEF Link

LEMMA StepUnlink == ASSUME LockInv, NEW p \in Processes, Unlink(p) PROVE LockInv'
<1>1. /\ pc[p] # "dead" /\ pc' = [pc EXCEPT ![p] = back[p]]
      /\ back' = [back EXCEPT ![p] = back[p]]
     /\ seen' = [seen EXCEPT ![p] = seen[p]] /\ snap' = [snap EXCEPT ![p] = snap[p]]
     /\ owned' = [owned EXCEPT ![p] = owned[p]]
  BY Local DEF Unlink, At, Goto, Call, Released, Changed, local, files, Sound, HasClaim,
       Judging, Releasing
<1>2. Becomes(p, back[p], back[p], seen[p], snap[p], owned[p])
  BY <1>1, Local DEF Unlink, At, local, files, Becomes, Sound, HasClaim, HasLock, Judging,
       Releasing, Backs
<1>3. back[p] \in Labels \ {"dead"} /\ back[p] \in Backs
  BY Local DEF Labels, Backs
<1>4. seen[p] \in Processes \cup {NoFile} /\ snap[p] \in Processes \cup {NoFile} /\ owned[p] \in BOOLEAN
  BY Local DEF LockInv, LockTypes
<1> QED  BY <1>2, <1>3, <1>4, LivingStep

LEMMA StepReadClaim == ASSUME LockInv, NEW p \in Processes, ReadClaim(p) PROVE LockInv'
<1>1. CASE guard = NoFile /\ pc[p] = "dropped"
  <2>1. pc[p] # "dead" /\ pc' = [pc EXCEPT ![p] = "link"] /\ back' = [back EXCEPT ![p] = back[p]]
          /\ UNCHANGED <<seen, snap, owned, lock, guard>>
    BY <1>1, Local DEF ReadClaim, At, Goto, Call, Released, Changed, local, files, Sound,
         HasClaim, Judging, Releasing
  <2>2. Sound(p, "link", back[p], seen[p], snap[p], owned[p], lock, guard, Dead)
    BY <1>1, Local DEF ReadClaim, At, Sound, HasClaim, HasLock, Judging, Releasing, Backs
  <2>3. "link" \in Labels \ {"dead"} /\ back[p] \in Backs
    BY Local DEF Labels, Backs
  <2> QED  BY <2>1, <2>2, <2>3, MoveStep
<1>2. CASE guard = NoFile /\ pc[p] = "stale"
  <2>1. pc[p] # "dead" /\ pc' = [pc EXCEPT ![p] = "after"] /\ back' = [back EXCEPT ![p] = back[p]]
          /\ UNCHANGED <<seen, snap, owned, lock, guard>>
    BY <1>2, Local DEF ReadClaim, At, Goto, Call, Released, Changed, local, files, Sound,
         HasClaim, Judging, Releasing
  <2>2. Sound(p, "after", back[p], seen[p], snap[p], owned[p], lock, guard, Dead)
    BY <1>2, Local DEF ReadClaim, At, Sound, HasClaim, HasLock, Judging, Releasing, Backs
  <2>3. "after" \in Labels \ {"dead"} /\ back[p] \in Backs
    BY Local DEF Labels, Backs
  <2> QED  BY <2>1, <2>2, <2>3, MoveStep
<1>3. CASE guard # NoFile /\ pc[p] = "dropped"
  <2>1. /\ pc[p] # "dead" /\ pc' = [pc EXCEPT ![p] = "probeClaim"]
        /\ back' = [back EXCEPT ![p] = "link"]
       /\ seen' = [seen EXCEPT ![p] = seen[p]] /\ snap' = [snap EXCEPT ![p] = guard]
       /\ owned' = [owned EXCEPT ![p] = owned[p]]
    BY <1>3, Local DEF ReadClaim, At, Goto, Call, Released, Changed, local, files, Sound,
         HasClaim, Judging, Releasing
  <2>2. Becomes(p, "probeClaim", "link", seen[p], guard, owned[p])
    BY <1>3, <2>1, Local, ClaimLives DEF ReadClaim, At, local, files, Becomes, Sound,
         HasClaim, HasLock, Judging, Releasing, Backs
  <2>3. "probeClaim" \in Labels \ {"dead"} /\ "link" \in Backs
    BY Local DEF Labels, Backs
  <2>4. seen[p] \in Processes \cup {NoFile} /\ guard \in Processes \cup {NoFile} /\ owned[p] \in BOOLEAN
    BY Local DEF LockInv, LockTypes
  <2> QED  BY <2>2, <2>3, <2>4, LivingStep
<1>4. CASE guard # NoFile /\ pc[p] = "stale"
  <2>1. /\ pc[p] # "dead" /\ pc' = [pc EXCEPT ![p] = "probeClaim"]
        /\ back' = [back EXCEPT ![p] = "after"]
       /\ seen' = [seen EXCEPT ![p] = seen[p]] /\ snap' = [snap EXCEPT ![p] = guard]
       /\ owned' = [owned EXCEPT ![p] = owned[p]]
    BY <1>4, Local DEF ReadClaim, At, Goto, Call, Released, Changed, local, files, Sound,
         HasClaim, Judging, Releasing
  <2>2. Becomes(p, "probeClaim", "after", seen[p], guard, owned[p])
    BY <1>4, <2>1, Local, ClaimLives DEF ReadClaim, At, local, files, Becomes, Sound,
         HasClaim, HasLock, Judging, Releasing, Backs
  <2>3. "probeClaim" \in Labels \ {"dead"} /\ "after" \in Backs
    BY Local DEF Labels, Backs
  <2>4. seen[p] \in Processes \cup {NoFile} /\ guard \in Processes \cup {NoFile} /\ owned[p] \in BOOLEAN
    BY Local DEF LockInv, LockTypes
  <2> QED  BY <2>2, <2>3, <2>4, LivingStep
<1> QED  BY <1>1, <1>2, <1>3, <1>4 DEF ReadClaim

LEMMA StepProbeClaim == ASSUME LockInv, NEW p \in Processes, ProbeClaim(p) PROVE LockInv'
<1>1. pc[p] # "dead" /\ pc' = [pc EXCEPT ![p] = back[p]] /\ back' = [back EXCEPT ![p] = back[p]]
        /\ UNCHANGED <<seen, snap, owned, lock, guard>>
  BY Local DEF ProbeClaim, At, Goto, Call, Released, Changed, local, files, Sound, HasClaim,
       Judging, Releasing
<1>2. Sound(p, back[p], back[p], seen[p], snap[p], owned[p], lock, guard, Dead)
  BY Local DEF ProbeClaim, At, Sound, HasClaim, HasLock, Judging, Releasing, Backs
<1>3. back[p] \in Labels \ {"dead"} /\ back[p] \in Backs
  BY Local DEF Labels, Backs
<1> QED  BY <1>1, <1>2, <1>3, MoveStep

LEMMA StepReadOwner == ASSUME LockInv, NEW p \in Processes, ReadOwner(p) PROVE LockInv'
<1>1. CASE lock = NoFile
  <2>1. /\ pc[p] # "dead" /\ pc' = [pc EXCEPT ![p] = "link"]
        /\ back' = [back EXCEPT ![p] = back[p]]
       /\ seen' = [seen EXCEPT ![p] = lock] /\ snap' = [snap EXCEPT ![p] = snap[p]]
       /\ owned' = [owned EXCEPT ![p] = owned[p]]
    BY <1>1, Local DEF ReadOwner, At, Goto, Call, Released, Changed, local, files, Sound,
         HasClaim, Judging, Releasing
  <2>2. Becomes(p, "link", back[p], lock, snap[p], owned[p])
    BY <1>1, <2>1, Local DEF ReadOwner, At, local, files, Becomes, Sound, HasClaim, HasLock,
         Judging, Releasing, Backs
  <2>3. "link" \in Labels \ {"dead"} /\ back[p] \in Backs
    BY Local DEF Labels, Backs
  <2>4. lock \in Processes \cup {NoFile} /\ snap[p] \in Processes \cup {NoFile} /\ owned[p] \in BOOLEAN
    BY Local DEF LockInv, LockTypes
  <2> QED  BY <2>2, <2>3, <2>4, LivingStep
<1>2. CASE lock # NoFile
  <2>1. /\ pc[p] # "dead" /\ pc' = [pc EXCEPT ![p] = "probeOwner"]
        /\ back' = [back EXCEPT ![p] = back[p]]
       /\ seen' = [seen EXCEPT ![p] = lock] /\ snap' = [snap EXCEPT ![p] = snap[p]]
       /\ owned' = [owned EXCEPT ![p] = owned[p]]
    BY <1>2, Local DEF ReadOwner, At, Goto, Call, Released, Changed, local, files, Sound,
         HasClaim, Judging, Releasing
  <2>2. Becomes(p, "probeOwner", back[p], lock, snap[p], owned[p])
    BY <1>2, <2>1, Local DEF LockInv, LockTypes, ReadOwner, At, local, files, Becomes, Sound,
         HasClaim, HasLock, Judging, Releasing, Backs
  <2>3. "probeOwner" \in Labels \ {"dead"} /\ back[p] \in Backs
    BY Local DEF Labels, Backs
  <2>4. lock \in Processes \cup {NoFile} /\ snap[p] \in Processes \cup {NoFile} /\ owned[p] \in BOOLEAN
    BY Local DEF LockInv, LockTypes
  <2> QED  BY <2>2, <2>3, <2>4, LivingStep
<1> QED  BY <1>1, <1>2 DEF ReadOwner

LEMMA StepClaim == ASSUME LockInv, NEW p \in Processes, Claim(p) PROVE LockInv'
<1>1. CASE guard = NoFile
  <2>1. /\ pc[p] # "dead" /\ pc' = [pc EXCEPT ![p] = "reread"]
        /\ back' = [back EXCEPT ![p] = back[p]]
       /\ seen' = [seen EXCEPT ![p] = seen[p]] /\ snap' = [snap EXCEPT ![p] = snap[p]]
       /\ owned' = [owned EXCEPT ![p] = owned[p]]
    BY <1>1, Local DEF Claim, At, Goto, Call, Released, Changed, local, files, Sound,
         HasClaim, Judging, Releasing
  <2>2. Becomes(p, "reread", back[p], seen[p], snap[p], owned[p])
    BY <1>1, <2>1, Local DEF Claim, At, local, files, Becomes, Sound, HasClaim, HasLock,
         Judging, Releasing, Backs
  <2>3. "reread" \in Labels \ {"dead"} /\ back[p] \in Backs
    BY Local DEF Labels, Backs
  <2>4. seen[p] \in Processes \cup {NoFile} /\ snap[p] \in Processes \cup {NoFile} /\ owned[p] \in BOOLEAN
    BY Local DEF LockInv, LockTypes
  <2> QED  BY <2>2, <2>3, <2>4, LivingStep
<1>2. CASE guard # NoFile
  <2>1. pc[p] # "dead" /\ pc' = [pc EXCEPT ![p] = "link"] /\ back' = [back EXCEPT ![p] = back[p]]
          /\ UNCHANGED <<seen, snap, owned, lock, guard>>
    BY <1>2, Local DEF Claim, At, Goto, Call, Released, Changed, local, files, Sound,
         HasClaim, Judging, Releasing
  <2>2. Sound(p, "link", back[p], seen[p], snap[p], owned[p], lock, guard, Dead)
    BY <1>2, Local DEF Claim, At, Sound, HasClaim, HasLock, Judging, Releasing, Backs
  <2>3. "link" \in Labels \ {"dead"} /\ back[p] \in Backs
    BY Local DEF Labels, Backs
  <2> QED  BY <2>1, <2>2, <2>3, MoveStep
<1> QED  BY <1>1, <1>2 DEF Claim

LEMMA StepReread == ASSUME LockInv, NEW p \in Processes, Reread(p) PROVE LockInv'
<1>1. CASE lock = seen[p]
  <2>1. pc[p] # "dead" /\ pc' = [pc EXCEPT ![p] = "ownerMatch"] /\ back' = [back EXCEPT ![p] = back[p]]
          /\ UNCHANGED <<seen, snap, owned, lock, guard>>
    BY <1>1, Local DEF Reread, At, Goto, Call, Released, Changed, local, files, Sound,
         HasClaim, Judging, Releasing
  <2>2. Sound(p, "ownerMatch", back[p], seen[p], snap[p], owned[p], lock, guard, Dead)
    BY <1>1, Local DEF Reread, At, Sound, HasClaim, HasLock, Judging, Releasing, Backs
  <2>3. "ownerMatch" \in Labels \ {"dead"} /\ back[p] \in Backs
    BY Local DEF Labels, Backs
  <2> QED  BY <2>1, <2>2, <2>3, MoveStep
<1>2. CASE lock # seen[p]
  <2>1. pc[p] # "dead" /\ pc' = [pc EXCEPT ![p] = "guardExists"] /\ back' = [back EXCEPT ![p] = "link"]
          /\ UNCHANGED <<seen, snap, owned, lock, guard>>
    BY <1>2, Local DEF Reread, At, Goto, Call, Released, Changed, local, files, Sound,
         HasClaim, Judging, Releasing
  <2>2. Sound(p, "guardExists", "link", seen[p], snap[p], owned[p], lock, guard, Dead)
    BY <1>2, Local DEF Reread, At, Sound, HasClaim, HasLock, Judging, Releasing, Backs
  <2>3. "guardExists" \in Labels \ {"dead"} /\ "link" \in Backs
    BY Local DEF Labels, Backs
  <2> QED  BY <2>1, <2>2, <2>3, MoveStep
<1> QED  BY <1>1, <1>2 DEF Reread

LEMMA StepRemoveOwner == ASSUME LockInv, NEW p \in Processes, RemoveOwner(p) PROVE LockInv'
<1>1. /\ pc[p] # "dead" /\ pc' = [pc EXCEPT ![p] = "link"]
      /\ back' = [back EXCEPT ![p] = back[p]]
     /\ seen' = [seen EXCEPT ![p] = seen[p]] /\ snap' = [snap EXCEPT ![p] = snap[p]]
     /\ owned' = [owned EXCEPT ![p] = TRUE]
  BY Local DEF RemoveOwner, At, Goto, Call, Released, Changed, local, files, Sound, HasClaim,
       Judging, Releasing
<1>2. Becomes(p, "link", back[p], seen[p], snap[p], TRUE)
  BY <1>1, Local DEF RemoveOwner, At, local, files, Becomes, Sound, HasClaim, HasLock,
       Judging, Releasing, Backs
<1>3. "link" \in Labels \ {"dead"} /\ back[p] \in Backs
  BY Local DEF Labels, Backs
<1>4. seen[p] \in Processes \cup {NoFile} /\ snap[p] \in Processes \cup {NoFile} /\ TRUE \in BOOLEAN
  BY Local DEF LockInv, LockTypes
<1> QED  BY <1>2, <1>3, <1>4, LivingStep

LEMMA StepGuardExists == ASSUME LockInv, NEW p \in Processes, GuardExists(p) PROVE LockInv'
<1>1. pc[p] # "dead" /\ pc' = [pc EXCEPT ![p] = "guardMine"] /\ back' = [back EXCEPT ![p] = back[p]]
        /\ UNCHANGED <<seen, snap, owned, lock, guard>>
  BY Local DEF GuardExists, At, Goto, Call, Released, Changed, local, files, Sound, HasClaim,
       Judging, Releasing
<1>2. Sound(p, "guardMine", back[p], seen[p], snap[p], owned[p], lock, guard, Dead)
  BY Local DEF GuardExists, At, Sound, HasClaim, HasLock, Judging, Releasing, Backs
<1>3. "guardMine" \in Labels \ {"dead"} /\ back[p] \in Backs
  BY Local DEF Labels, Backs
<1> QED  BY <1>1, <1>2, <1>3, MoveStep

LEMMA StepGuardMine == ASSUME LockInv, NEW p \in Processes, GuardMine(p) PROVE LockInv'
<1>1. pc[p] # "dead" /\ pc' = [pc EXCEPT ![p] = "removeMine"] /\ back' = [back EXCEPT ![p] = back[p]]
        /\ UNCHANGED <<seen, snap, owned, lock, guard>>
  BY Local DEF GuardMine, At, Goto, Call, Released, Changed, local, files, Sound, HasClaim,
       Judging, Releasing
<1>2. Sound(p, "removeMine", back[p], seen[p], snap[p], owned[p], lock, guard, Dead)
  BY Local DEF GuardMine, At, Sound, HasClaim, HasLock, Judging, Releasing, Backs
<1>3. "removeMine" \in Labels \ {"dead"} /\ back[p] \in Backs
  BY Local DEF Labels, Backs
<1> QED  BY <1>1, <1>2, <1>3, MoveStep

LEMMA StepRemoveMine == ASSUME LockInv, NEW p \in Processes, RemoveMine(p) PROVE LockInv'
<1>1. /\ pc[p] # "dead" /\ pc' = [pc EXCEPT ![p] = back[p]]
      /\ back' = [back EXCEPT ![p] = back[p]]
     /\ seen' = [seen EXCEPT ![p] = seen[p]] /\ snap' = [snap EXCEPT ![p] = snap[p]]
     /\ owned' = [owned EXCEPT ![p] = FALSE]
  BY Local DEF RemoveMine, At, Goto, Call, Released, Changed, local, files, Sound, HasClaim,
       Judging, Releasing
<1>2. Becomes(p, back[p], back[p], seen[p], snap[p], FALSE)
  BY <1>1, Local DEF RemoveMine, At, local, files, Becomes, Sound, HasClaim, HasLock, Judging,
       Releasing, Backs
<1>3. back[p] \in Labels \ {"dead"} /\ back[p] \in Backs
  BY Local DEF Labels, Backs
<1>4. seen[p] \in Processes \cup {NoFile} /\ snap[p] \in Processes \cup {NoFile} /\ FALSE \in BOOLEAN
  BY Local DEF LockInv, LockTypes
<1> QED  BY <1>2, <1>3, <1>4, LivingStep

(* The one that dies: nobody was dead, so nobody has a claim or judges.      *)
LEMMA StepCrash ==
    ASSUME LockInv, MaxCrashes <= 1, NEW p \in Processes, Crash(p)
    PROVE  LockInv'
<1>1. Dead = {}
  <2>1. Cardinality(Dead) < MaxCrashes /\ MaxCrashes \in Nat
    BY LockAssumption DEF Crash, Dead, LockAssumption
  <2>2. \A d \in Processes : Cardinality({d}) = 1
    BY FS_Singleton
  <2> QED  BY <2>1, <2>2 DEF LockInv, OneDied
<1>2. guard = NoFile
  BY <1>1 DEF LockInv, DeathFirst
<1>3. /\ pc' = [pc EXCEPT ![p] = "dead"]
      /\ UNCHANGED <<back, seen, snap, owned, lock, guard>>
  BY DEF Crash, Goto, local, files
<1>4. LockTypes'
  BY <1>3 DEF LockInv, LockTypes, Labels
<1>5. Dead' = {p}
  BY <1>1, <1>3 DEF LockInv, LockTypes, Dead, At
<1>6. ASSUME NEW q \in Processes
      PROVE  Sound(q, pc'[q], back[q], seen[q], snap[q], owned[q], lock, guard, {p})
  <2>1. Sound(q, pc[q], back[q], seen[q], snap[q], owned[q], lock, guard, {})
    BY <1>1 DEF LockInv, AllSound
  <2>2. ~HasClaim(pc[q], owned[q])
    BY <1>2, <2>1, LockAssumption DEF Sound, LockAssumption
  <2>3. CASE q = p
    <3>1. pc'[q] = "dead"
      BY <1>3, <2>3 DEF LockInv, LockTypes
    <3> QED  BY <2>1, <2>2, <2>3, <3>1 DEF Sound, HasClaim, HasLock, Judging, Releasing
  <2>4. CASE q # p
    <3>1. pc'[q] = pc[q]
      BY <1>3, <2>4 DEF LockInv, LockTypes
    <3> QED  BY <2>1, <3>1 DEF Sound
  <2> QED  BY <2>3, <2>4
<1>7. AllSound'
  BY <1>3, <1>5, <1>6 DEF AllSound
<1> QED  BY <1>4, <1>5, <1>7 DEF LockInv, OneDied, DeathFirst

LEMMA LockInvNext == ASSUME LockInv, MaxCrashes <= 1, [Next]_vars PROVE LockInv'
<1>1. CASE UNCHANGED vars
  BY <1>1 DEF vars, local, files, LockInv, LockTypes, OneDied, DeathFirst, AllSound, Dead, At
<1>2. ASSUME NEW p \in Processes, Step(p) PROVE LockInv'
  BY <1>2, StepLink, StepLockPresent, StepGuarded, StepLeave, StepLockMine, StepUnlink, StepReadClaim,
     StepProbeClaim, StepClaims, StepGuardBefore, StepGuardAfter, StepReadOwner, StepProbeOwner, StepClaim,
     StepReread, StepOwnerMatch, StepRemoveOwner, StepGuardExists, StepGuardMine, StepRemoveMine DEF Step
<1> QED  BY <1>1, <1>2, StepEnter, StepGiveUp, StepCrash DEF Next

(* For any number of processes, while at most one of them dies: the record   *)
(* of a process stays at the lock path while its operation runs, although    *)
(* others reconcile the dead one's lock with separate checks and removals;   *)
(* and a process that returned left neither its lock nor its claim behind.   *)
THEOREM LockIsSafe ==
    ASSUME MaxCrashes <= 1
    PROVE  Spec => []LockFollowsOwner
<1>1. Init => LockInv
  BY LockInvInit
<1>2. LockInv /\ [Next]_vars => LockInv'
  BY LockInvNext
<1>3. LockInv => LockFollowsOwner
  BY LockInvImplies
<1> QED  BY <1>1, <1>2, <1>3, PTL DEF Spec

(* So two operations on one store never overlap.                             *)
THEOREM LockExcludes ==
    ASSUME MaxCrashes <= 1
    PROVE  Spec => []MutualExclusion
<1>1. HolderKeepsLock => MutualExclusion
  <2> SUFFICES ASSUME HolderKeepsLock PROVE Cardinality(Holders) <= 1
    BY DEF MutualExclusion
  <2>1. CASE Holders = {}
    BY <2>1, FS_EmptySet
  <2>2. CASE Holders # {}
    <3>1. Holders = {lock}
      BY <2>2 DEF HolderKeepsLock
    <3> QED  BY <3>1, FS_Singleton
  <2> QED  BY <2>1, <2>2
<1>2. LockFollowsOwner => MutualExclusion
  BY <1>1 DEF LockFollowsOwner
<1> QED  BY <1>2, LockIsSafe, PTL

-----------------------------------------------------------------------------
(* The abstract mutex.                                                       *)
(*                                                                           *)
(* A process only goes where its program says; the one that starts its       *)
(* operation has its record at the lock path, the one that stops leaves.     *)
GoesTo(p, l) ==
    /\ pc[p] # "dead" /\ l # "dead" /\ pc' = [pc EXCEPT ![p] = l]
    /\ l = "critical" => pc[p] # "critical" /\ HasLock(pc[p], back[p])

LEMMA EveryStepGoes ==
    ASSUME LockInv, NEW p \in Processes, Enter(p) \/ GiveUp(p) \/ Step(p)
    PROVE  \E l \in Labels : GoesTo(p, l)
<1>1. CASE \/ Enter(p) \/ LockPresent(p) \/ Leave(p) \/ GuardBefore(p) \/ GuardAfter(p)
           \/ ReadOwner(p) \/ ProbeOwner(p) \/ Claim(p)
  BY <1>1 DEF Enter, LockPresent, Leave, GuardBefore, GuardAfter, ReadOwner, ProbeOwner, Claim, At,
              Goto, Call, GoesTo, Labels
<1>2. CASE Link(p) \/ Guarded(p) \/ GiveUp(p) \/ Reread(p) \/ OwnerMatch(p) \/ RemoveOwner(p)
  BY <1>2 DEF Link, Guarded, GiveUp, Reread, OwnerMatch, RemoveOwner, At, Goto, Call, GoesTo, HasLock, Labels
<1>3. CASE LockMine(p) \/ Unlink(p)
  <2>1. back[p] \in {"dropped", "done"}
    BY <1>3, Local DEF LockMine, Unlink, At, Sound
  <2> QED  BY <1>3, <2>1 DEF LockMine, Unlink, At, Goto, GoesTo, Labels
<1>4. CASE ReadClaim(p) \/ ProbeClaim(p)
  <2>1. ProbeClaim(p) => back[p] \in {"link", "after"}
    BY Local DEF ProbeClaim, At, Sound
  <2> QED  BY <1>4, <2>1 DEF ReadClaim, ProbeClaim, At, Goto, Call, GoesTo, Labels
<1>5. CASE GuardExists(p) \/ GuardMine(p) \/ RemoveMine(p)
  <2>1. pc[p] \in Releasing /\ back[p] \in {"critical", "done", "link"}
    BY <1>5, Local DEF GuardExists, GuardMine, RemoveMine, At, Sound, Releasing
  <2>2. HasLock(pc[p], "critical") /\ pc[p] # "critical" /\ pc[p] # "dead"
    BY <2>1 DEF HasLock, Releasing
  <2>3. pc' = [pc EXCEPT ![p] = back[p]] \/ \E l \in {"guardMine", "removeMine", "lockMine"} : pc' = [pc EXCEPT ![p] = l]
    BY <1>5 DEF GuardExists, GuardMine, RemoveMine, Released, Changed, Goto, Call
  <2>4. PICK l \in {"guardMine", "removeMine", "lockMine", "critical", "done", "link"} :
           pc' = [pc EXCEPT ![p] = l] /\ (l = "critical" => back[p] = "critical")
    BY <2>1, <2>3
  <2>5. l = "critical" => HasLock(pc[p], back[p])
    BY <2>2, <2>4
  <2> QED  BY <2>2, <2>4, <2>5 DEF GoesTo, Labels
<1> QED  BY <1>1, <1>2, <1>3, <1>4, <1>5, StepClaims DEF Step

LEMMA LockSimulates ==
    ASSUME LockInv, [Next]_vars PROVE [Promise!MutexNext]_(Promise!mutexVars)
<1>1. CASE UNCHANGED vars
  BY <1>1 DEF vars, Promise!mutexVars, Holders, Dead, At
<1>2. ASSUME NEW p \in Processes, Enter(p) \/ GiveUp(p) \/ Step(p)
      PROVE  [Promise!MutexNext]_(Promise!mutexVars)
  <2>1. PICK l \in Labels : GoesTo(p, l)
    BY <1>2, EveryStepGoes
  <2>2. pc'[p] = l /\ \A q \in Processes \ {p} : pc'[q] = pc[q]
    BY <2>1 DEF GoesTo, LockInv, LockTypes
  <2>3. Dead' = Dead /\ p \notin Dead
    BY <2>1, <2>2 DEF GoesTo, Dead, At
  <2>4. CASE l = "critical"
    <3>1. lock = p
      BY <2>1, <2>4, Local DEF GoesTo, Sound
    <3>2. Holders = {}
      <4>1. \A q \in Holders : q = p
        BY <3>1, LockInvImplies DEF LockFollowsOwner, HolderKeepsLock
      <4> QED  BY <2>1, <2>4, <4>1 DEF GoesTo, Holders, At
    <3>3. Holders' = {p}
      BY <2>2, <2>4, <3>2 DEF Holders, At
    <3> QED  BY <2>3, <3>2, <3>3 DEF Promise!MutexNext, Promise!Acquire
  <2>5. CASE l # "critical" /\ pc[p] = "critical"
    <3>1. p \in Holders /\ Holders' = Holders \ {p}
      BY <2>2, <2>5 DEF Holders, At
    <3> QED  BY <2>3, <3>1 DEF Promise!MutexNext, Promise!Release
  <2>6. CASE l # "critical" /\ pc[p] # "critical"
    <3>1. Holders' = Holders
      BY <2>2, <2>6 DEF Holders, At
    <3> QED  BY <2>3, <3>1 DEF Promise!mutexVars
  <2> QED  BY <2>4, <2>5, <2>6
<1>3. ASSUME NEW p \in Processes, Crash(p)
      PROVE  [Promise!MutexNext]_(Promise!mutexVars)
  <2>1. pc[p] # "dead" /\ pc'[p] = "dead" /\ \A q \in Processes \ {p} : pc'[q] = pc[q]
    BY <1>3 DEF Crash, Goto, LockInv, LockTypes
  <2>2. p \notin Dead /\ Dead' = Dead \cup {p} /\ Holders' = Holders \ {p}
    BY <2>1 DEF Dead, Holders, At
  <2> QED  BY <2>2 DEF Promise!MutexNext, Promise!Crash
<1> QED  BY <1>1, <1>2, <1>3 DEF Next

(* Seen from outside the lock is the abstract mutex: a process enters its    *)
(* operation only when nobody is in one, for any number of processes of      *)
(* which at most one dies, wherever it stood.                                *)
THEOREM LockImplementsMutex ==
    ASSUME MaxCrashes <= 1
    PROVE  Spec => ImplementsMutex
<1>1. Init => LockInv /\ Promise!MutexInit
  <2>1. Init => Promise!MutexInit
    BY DEF Init, Promise!MutexInit, Holders, Dead, At
  <2> QED  BY <2>1, LockInvInit
<1>2. LockInv /\ [Next]_vars => LockInv' /\ [Promise!MutexNext]_(Promise!mutexVars)
  BY LockInvNext, LockSimulates
<1> QED  BY <1>1, <1>2, PTL DEF Spec, ImplementsMutex, Promise!MutexSpec
=============================================================================
