----------------------- MODULE AttemptFinalityProofs -----------------------
(***************************************************************************)
(* Proofs about module AttemptFinality and the host and leases under it: a *)
(* process tree runs only under leases held for it, and a final receipt,   *)
(* and the finality Evidence derived from receipts, are true for good.     *)
(***************************************************************************)
EXTENDS AttemptFinality, FiniteSetTheorems, TLAPS

-----------------------------------------------------------------------------
(* The inductive invariant, in parts.                                      *)

LeaseRecords ==
    [state : {"NONE", "ACTIVE", "RELEASED", "REVOKED"}, owner : Owners \cup {Unbound},
     binding : Bindings \cup {Unbound}, expires : Int, observed : Int]
Sessions ==
    [host : Hosts \cup {Unbound},
     stage : {"NONE", "OPEN", "UNDO", "RELEASING", "FINAL", "NOT_PROVEN"},
     left : SUBSET Leases, at : Int]
Receipts == [finality : {"NONE", "FINAL", "NOT_PROVEN", "RELEASED"}, at : Int]

LeaseTypeOK ==
    /\ lease \in [Leases -> LeaseRecords]
    /\ now \in Int

HostTypeOK ==
    /\ LeaseTypeOK
    /\ call \in [Hosts -> [Requests -> {"NONE", "INSPECT", "SPAWN"}]]
    /\ session \in [Requests -> Sessions]
    /\ tree \in [Requests -> {"NONE", "LIVE", "LEFT", "EMPTY"}]
    /\ spawns \in [Requests -> Nat]
    /\ unpublished \in [Hosts -> SUBSET Leases]
    /\ finals \in [Requests -> Receipts]
    /\ releases \in [Leases -> Receipts]

\* Some host is inside start() for r.
Starting(r) == \E h \in Hosts : call[h][r] # "NONE"
Untouched(r) == session[r].stage = "NONE" /\ tree[r] = "NONE" /\ spawns[r] = 0

\* A start is bound once, by one host, before anything else happens to it.
BoundOnce(r) ==
    /\ \A g, h \in Hosts : call[g][r] # "NONE" /\ call[h][r] # "NONE" => g = h
    /\ Starting(r) => BindOp(r) \in DOMAIN ops /\ Untouched(r)
    /\ BindOp(r) \notin DOMAIN ops => Untouched(r)
    /\ spawns[r] <= 1

\* The leases of r are held for r by their owner.
Guarded(r) ==
    \A l \in LeasesOf[r] :
        lease[l].state = "ACTIVE" /\ lease[l].binding = r /\ lease[l].owner = OwnerOf[l]

\* From the inspection before the spawn until the tree has ended they stay so.
AtWork(r) == tree[r] = "LIVE" \/ \E h \in Hosts : call[h][r] = "SPAWN"
GuardedWhileAtWork(r) == AtWork(r) => Guarded(r)

Gone(l) == lease[l].state = "RELEASED"

\* What the session of r knows.
SessionSound(r) ==
    /\ session[r].stage # "NONE" => session[r].host \in Hosts
    /\ session[r].stage = "OPEN" => session[r].left = LeasesOf[r]
    /\ session[r].stage = "UNDO" => tree[r] # "LIVE"
    /\ session[r].stage \in {"RELEASING", "FINAL"} => tree[r] = "EMPTY"
    /\ session[r].stage = "RELEASING" =>
          \A l \in LeasesOf[r] \ session[r].left :
              Gone(l) /\ (releases[l] # NoReceipt \/ l \in unpublished[session[r].host])
    /\ session[r].stage = "FINAL" =>
          \A l \in LeasesOf[r] : Gone(l) /\ releases[l] # NoReceipt

\* What a published final receipt says is true for good.
FinalSound(r) ==
    finals[r].finality = "FINAL" =>
        /\ tree[r] = "EMPTY"
        /\ \A l \in LeasesOf[r] : Gone(l) /\ releases[l] # NoReceipt

\* A release receipt, published or about to be, is that of the release.
ReleaseSound(l) ==
    /\ releases[l] # NoReceipt =>
          Gone(l) /\ releases[l] = [finality |-> "RELEASED", at |-> lease[l].observed]
    /\ \A h \in Hosts : l \in unpublished[h] => Gone(l)
    /\ ReleaseOp(l) \in DOMAIN ops => Gone(l)

HostInv ==
    /\ HostTypeOK
    /\ OneWriterPerWorkspace
    /\ \A r \in Requests :
          BoundOnce(r) /\ GuardedWhileAtWork(r) /\ SessionSound(r) /\ FinalSound(r)
    /\ \A l \in Leases : ReleaseSound(l)

\* What the Checkpoint names is final once there is Evidence of it.
EvidenceSound ==
    /\ checkpoint.processes \subseteq Requests /\ checkpoint.leases \subseteq Leases
    /\ evidence \subseteq {Payload} /\ finality \subseteq evidence
    /\ evidence # {} =>
          /\ checkpoint.taken
          /\ \A r \in checkpoint.processes : finals[r].finality = "FINAL"
          /\ \A l \in checkpoint.leases : releases[l] # NoReceipt

FinalityInv == HostInv /\ EvidenceSound

-----------------------------------------------------------------------------
(* What a lease operation does to the leases.                              *)

\* A released lease is never touched again, and only a release is recorded as one.
LeasesMove ==
    /\ LeaseTypeOK'
    /\ OneWriterPerWorkspace'
    /\ \A l \in Leases : Gone(l) => lease'[l] = lease[l]
    /\ \A l \in Leases : ReleaseOp(l) \in DOMAIN ops' => ReleaseOp(l) \in DOMAIN ops \/ Gone(l)'

\* No reservation is made.
NoBinding == \A b \in Bindings : BindOp(b) \in DOMAIN ops' <=> BindOp(b) \in DOMAIN ops

\* Only a lease whose owner the caller holds for dead is revoked.
LEMMA AcquireEffect ==
  ASSUME LeaseTypeOK, OneWriterPerWorkspace, NEW l \in Leases, NEW o \in Owners,
         NEW answer, Acquire(l, o, answer)
  PROVE  /\ LeasesMove /\ NoBinding
         /\ \A k \in Leases : lease[k].state = "ACTIVE" =>
               lease'[k] = lease[k] \/ answer[lease[k].owner] = "DEAD"
<1> DEFINE op == [action |-> "ACQUIRE", lease |-> l, by |-> o]
           new == [k \in Conflicts(l) \cup {l} |->
                     IF k = l THEN Fresh(l, o)
                     ELSE [lease[k] EXCEPT !.state = "REVOKED", !.binding = Unbound]]
<1>1. /\ NoBinding /\ now' = now
      /\ \A k : ReleaseOp(k) \in DOMAIN ops' => ReleaseOp(k) \in DOMAIN ops
  <2>1. \A b : BindOp(b) # op /\ ReleaseOp(b) # op
    BY DEF BindOp, ReleaseOp
  <2>2. DOMAIN ops' = DOMAIN ops \cup {op} /\ now' = now
    <3>1. CASE BlockReason(l, answer) = "NONE"
      BY <3>1 DEF Acquire, Commit
    <3>2. CASE BlockReason(l, answer) # "NONE"
      BY <3>2 DEF Acquire, Commit
    <3> QED  BY <3>1, <3>2
  <2> HIDE DEF op
  <2> QED  BY <2>1, <2>2 DEF NoBinding
<1>2. CASE BlockReason(l, answer) = "NONE"
  <2>1. lease' = [k \in Leases |-> IF k \in DOMAIN new THEN new[k] ELSE lease[k]]
    BY <1>2 DEF Acquire, Commit
  <2>2. lease[l].state = "NONE" /\ \A k \in Conflicts(l) : answer[lease[k].owner] = "DEAD"
    BY <1>2 DEF BlockReason
  <2>3. /\ lease'[l] = Fresh(l, o)
        /\ \A k \in Leases \ {l} :
             lease'[k] = IF k \in Conflicts(l)
                         THEN [lease[k] EXCEPT !.state = "REVOKED", !.binding = Unbound]
                         ELSE lease[k]
    BY <2>1
  <2>4. Fresh(l, o) \in LeaseRecords
    BY LeaseAssumption DEF Fresh, LeaseRecords, LeaseTypeOK
  <2>5. \A k \in Leases : lease[k] \in LeaseRecords
    BY DEF LeaseTypeOK
  <2>6. \A k \in Leases :
           [lease[k] EXCEPT !.state = "REVOKED", !.binding = Unbound] \in LeaseRecords
    BY <2>5 DEF LeaseRecords
  <2>7. LeaseTypeOK'
    BY <1>1, <2>1, <2>3, <2>4, <2>5, <2>6 DEF LeaseTypeOK
  <2>8. \A k \in Leases \ {l} : lease'[k].state = "ACTIVE" =>
           lease[k].state = "ACTIVE" /\ k \notin Conflicts(l)
    BY <2>3, <2>5 DEF LeaseRecords
  <2>9. OneWriterPerWorkspace'
    BY <2>3, <2>8 DEF OneWriterPerWorkspace, Conflicts
  <2>10. \A k \in Conflicts(l) : lease[k].state = "ACTIVE"
    BY DEF Conflicts
  <2>11. \A k \in Leases : Gone(k) => lease'[k] = lease[k]
    BY <2>2, <2>3, <2>10 DEF Gone
  <2>12. \A k \in Leases : lease[k].state = "ACTIVE" =>
            lease'[k] = lease[k] \/ answer[lease[k].owner] = "DEAD"
    BY <2>2, <2>3
  <2> QED  BY <1>1, <2>7, <2>9, <2>11, <2>12 DEF LeasesMove
<1>3. CASE BlockReason(l, answer) # "NONE"
  <2>1. lease' = [k \in Leases |-> lease[k]]
    BY <1>3 DEF Acquire, Commit
  <2>2. lease' = lease
    BY <2>1 DEF LeaseTypeOK
  <2> QED  BY <1>1, <2>2 DEF LeasesMove, LeaseTypeOK, OneWriterPerWorkspace
<1> QED  BY <1>2, <1>3

\* Nothing else is released, and what is released was bound as stated.
LEMMA ReleaseEffect ==
  ASSUME LeaseTypeOK, OneWriterPerWorkspace, NEW l \in Leases, NEW o, NEW b, Release(l, o, b)
  PROVE  /\ LeasesMove /\ NoBinding
         /\ lease[l].state = "ACTIVE" /\ lease[l].binding = b /\ Gone(l)'
         /\ \A k \in Leases \ {l} : lease'[k] = lease[k]
<1> DEFINE freed == [lease[l] EXCEPT !.state = "RELEASED", !.binding = Unbound, !.observed = now]
<1>1. lease[l].state = "ACTIVE" /\ lease[l].binding = b
  BY DEF Release, CanRelease, RequireOwnedActive
<1>2. /\ NoBinding /\ now' = now
      /\ \A k : ReleaseOp(k) \in DOMAIN ops' => ReleaseOp(k) \in DOMAIN ops \/ k = l
  <2>1. /\ \A c : BindOp(c) # ReleaseOp(l)
        /\ \A k : ReleaseOp(k) = ReleaseOp(l) => k = l
    BY DEF BindOp, ReleaseOp
  <2>2. DOMAIN ops' = DOMAIN ops \cup {ReleaseOp(l)} /\ now' = now
    BY DEF Release, Commit
  <2> QED  BY <2>1, <2>2 DEF NoBinding
<1>3. lease' = [k \in Leases |-> IF k \in {l} THEN [j \in {l} |-> freed][k] ELSE lease[k]]
  BY DEF Release, Commit
<1>4. lease[l] \in LeaseRecords
  BY DEF LeaseTypeOK
<1>5. freed \in LeaseRecords /\ freed.state = "RELEASED"
  BY <1>4 DEF LeaseRecords, LeaseTypeOK
<1>6. lease'[l] = freed /\ \A k \in Leases \ {l} : lease'[k] = lease[k]
  BY <1>3
<1> HIDE DEF freed
<1>7. LeaseTypeOK'
  BY <1>2, <1>3, <1>5, <1>6 DEF LeaseTypeOK
<1>8. OneWriterPerWorkspace'
  BY <1>5, <1>6 DEF OneWriterPerWorkspace
<1> QED  BY <1>1, <1>2, <1>5, <1>6, <1>7, <1>8 DEF LeasesMove, Gone

\* Only unbound leases are bound, and only to an operation nobody has bound.
LEMMA BindEffect ==
  ASSUME LeaseTypeOK, OneWriterPerWorkspace, NEW b \in Bindings, NEW o,
         NEW set \in SUBSET Leases, Bind(b, o, set)
  PROVE  /\ LeasesMove
         /\ BindOp(b) \notin DOMAIN ops /\ DOMAIN ops' = DOMAIN ops \cup {BindOp(b)}
         /\ \A k \in Leases : lease[k].binding # Unbound => lease'[k] = lease[k]
<1> DEFINE bound(k) == [lease[k] EXCEPT !.binding = b]
<1>1. /\ BindOp(b) \notin DOMAIN ops
      /\ \A k \in set : lease[k].state = "ACTIVE" /\ lease[k].binding = Unbound
  BY DEF Bind, CanBind, Committed, RequireOwnedActive
<1>2. DOMAIN ops' = DOMAIN ops \cup {BindOp(b)} /\ now' = now
  BY DEF Bind, Commit
<1>a. \A k : ReleaseOp(k) # BindOp(b)
  BY DEF BindOp, ReleaseOp
<1>3. lease' = [k \in Leases |-> IF k \in set THEN bound(k) ELSE lease[k]]
  BY DEF Bind, Commit
<1>4. \A k \in Leases : /\ lease[k] \in LeaseRecords /\ bound(k) \in LeaseRecords
                        /\ bound(k).state = lease[k].state
  BY DEF LeaseTypeOK, LeaseRecords
<1> HIDE DEF bound
<1>5. LeaseTypeOK'
  BY <1>2, <1>3, <1>4 DEF LeaseTypeOK
<1>6. \A k \in Leases : lease'[k].state = lease[k].state
  BY <1>3, <1>4
<1>7. OneWriterPerWorkspace'
  BY <1>6 DEF OneWriterPerWorkspace
<1> QED  BY <1>1, <1>2, <1>a, <1>3, <1>5, <1>7 DEF LeasesMove, Gone

\* Crashes, restarts and the clock leave the leases alone.
LEMMA ClockEffect ==
  ASSUME LeaseTypeOK, OneWriterPerWorkspace, UNCHANGED <<lease, ops>>,
         now' = now \/ now' \in Times
  PROVE  LeasesMove /\ NoBinding
<1>1. Times \subseteq Int
  BY LeaseAssumption DEF Times
<1> QED
  BY <1>1 DEF LeasesMove, NoBinding, LeaseTypeOK, OneWriterPerWorkspace

-----------------------------------------------------------------------------
(* One start request across a step.                                        *)

RequestInv(r) ==
    BoundOnce(r) /\ GuardedWhileAtWork(r) /\ SessionSound(r) /\ FinalSound(r)

\* A receipt that is published stays, and one about to be is not lost while
\* its host holds the session of r.
ReceiptsStay(r) ==
    /\ \A l \in Leases : releases[l] # NoReceipt => releases'[l] # NoReceipt
    /\ session[r].host \in Hosts =>
          \A l \in unpublished[session[r].host] :
              l \in unpublished'[session[r].host] \/ releases'[l] # NoReceipt

\* The step is about something else than r.
LeavesAlone(r) ==
    /\ \A h \in Hosts : call'[h][r] = call[h][r]
    /\ session'[r] = session[r] /\ tree'[r] = tree[r] /\ spawns'[r] = spawns[r]
    /\ finals'[r] = finals[r]
    /\ BindOp(r) \in DOMAIN ops' <=> BindOp(r) \in DOMAIN ops
    /\ LeasesMove /\ ReceiptsStay(r)
    /\ AtWork(r) /\ Guarded(r) => Guarded(r)'

LEMMA LeasesInRange == ASSUME NEW r \in Requests PROVE LeasesOf[r] \subseteq Leases
  BY HostAssumption

LEMMA AloneStaysSound ==
  ASSUME HostTypeOK, NEW r \in Requests, RequestInv(r), LeavesAlone(r)
  PROVE  RequestInv(r)'
<1> USE DEF LeavesAlone
<1>1. BoundOnce(r)'
  BY DEF RequestInv, BoundOnce, Starting, Untouched
<1>2. GuardedWhileAtWork(r)'
  BY DEF RequestInv, GuardedWhileAtWork, AtWork
<1>3. \A l \in LeasesOf[r] : Gone(l) => Gone(l)'
  BY LeasesInRange DEF LeasesMove, Gone
<1>4. SessionSound(r)'
  BY <1>3, LeasesInRange DEF RequestInv, SessionSound, ReceiptsStay
<1>5. FinalSound(r)'
  BY <1>3, LeasesInRange DEF RequestInv, FinalSound, ReceiptsStay
<1> QED  BY <1>1, <1>2, <1>4, <1>5 DEF RequestInv

LEMMA ReleaseStaysSound ==
  ASSUME NEW l \in Leases, ReleaseSound(l), LeasesMove,
         releases'[l] = releases[l],
         \A h \in Hosts : l \in unpublished'[h] => l \in unpublished[h] \/ Gone(l)'
  PROVE  ReleaseSound(l)'
  BY DEF ReleaseSound, LeasesMove, Gone

-----------------------------------------------------------------------------
(* The steps of a host.                                                    *)

LEMMA AcquireLeaseKeeps ==
  ASSUME HostInv, NEW h \in Hosts, NEW l \in Leases, AcquireLease(h, l)
  PROVE  HostInv'
<1> USE DEF hostOnly
<1>1. PICK answer \in [Owners -> Answers] :
        /\ \A o \in Owners : answer[o] \in OwnerAnswer(o)
        /\ Acquire(l, OwnerOf[l], answer)
  BY DEF AcquireLease
<1>2. UNCHANGED <<up, call, session, tree, spawns, unpublished, finals, releases>>
  BY DEF AcquireLease
<1>3. OwnerOf[l] \in Owners
  BY HostAssumption
<1>4. /\ LeasesMove /\ NoBinding
      /\ \A k \in Leases : lease[k].state = "ACTIVE" =>
            lease'[k] = lease[k] \/ answer[lease[k].owner] = "DEAD"
  BY <1>1, <1>3, AcquireEffect DEF HostInv, HostTypeOK
<1>5. ASSUME NEW r \in Requests PROVE LeavesAlone(r)
  <2>1. ASSUME AtWork(r), Guarded(r), NEW k \in LeasesOf[r]
        PROVE  lease'[k] = lease[k]
    <3>1. k \in Leases /\ lease[k].state = "ACTIVE" /\ lease[k].owner = OwnerOf[k]
      BY <2>1, LeasesInRange DEF Guarded
    <3>2. AtWorkFor(OwnerOf[k])
      BY <2>1 DEF AtWorkFor, AtWork, Running
    <3>3. answer[OwnerOf[k]] # "DEAD"
      BY <1>1, <3>1, <3>2, HostAssumption DEF OwnerAnswer
    <3> QED  BY <1>4, <3>1, <3>3
  <2>2. AtWork(r) /\ Guarded(r) => Guarded(r)'
    BY <2>1 DEF Guarded
  <2> QED  BY <1>2, <1>4, <2>2, HostAssumption DEF LeavesAlone, NoBinding, ReceiptsStay
<1>6. HostTypeOK'
  BY <1>2, <1>4 DEF HostInv, HostTypeOK, LeasesMove
<1> QED
  BY <1>2, <1>4, <1>5, <1>6, AloneStaysSound, ReleaseStaysSound
     DEF HostInv, RequestInv, LeasesMove

\* A release of a lease that is not bound to r leaves r alone as far as leases go.
LEMMA OtherReleaseGuards ==
  ASSUME HostTypeOK, NEW r \in Requests, NEW l \in Leases, lease[l].binding # r,
         \A k \in Leases \ {l} : lease'[k] = lease[k]
  PROVE  Guarded(r) => Guarded(r)'
  BY LeasesInRange DEF Guarded

LEMMA ReleaseLeaseKeeps ==
  ASSUME HostInv, NEW h \in Hosts, NEW l \in Leases, ReleaseLease(h, l)
  PROVE  HostInv'
<1>1. /\ UNCHANGED <<up, call, session, tree, spawns, finals, releases>>
      /\ unpublished' = [unpublished EXCEPT ![h] = @ \cup {l}]
  BY DEF ReleaseLease
<1>2. /\ LeasesMove /\ NoBinding /\ Gone(l)'
      /\ \A r \in Requests : Guarded(r) => Guarded(r)'
  <2>1. CASE Release(l, OwnerOf[l], Unbound)
    <3>1. \A r \in Requests : r # Unbound
      BY LeaseAssumption, HostAssumption
    <3> QED  BY <2>1, <3>1, ReleaseEffect, OtherReleaseGuards DEF HostInv, HostTypeOK
  <2>2. CASE ReleaseReplays(l, OwnerOf[l], Unbound) /\ UNCHANGED leaseVars
    <3>1. UNCHANGED <<lease, ops, now>>
      BY <2>2 DEF leaseVars
    <3>2. LeasesMove /\ NoBinding
      BY <3>1, ClockEffect DEF HostInv, HostTypeOK
    <3>3. Gone(l)
      BY <2>2 DEF ReleaseReplays, Replays, Committed, HostInv, ReleaseSound
    <3> QED  BY <3>1, <3>2, <3>3 DEF Gone, Guarded
  <2> QED  BY <2>1, <2>2 DEF ReleaseLease
<1>3. \A r \in Requests : LeavesAlone(r)
  BY <1>1, <1>2, HostAssumption DEF LeavesAlone, NoBinding, ReceiptsStay, HostInv, HostTypeOK
<1>4. \A g \in Hosts : unpublished'[g] \subseteq unpublished[g] \cup {l}
  BY <1>1 DEF HostInv, HostTypeOK
<1>5. \A k \in Leases : ReleaseSound(k)'
  BY <1>1, <1>2, <1>4, ReleaseStaysSound DEF HostInv
<1>6. HostTypeOK'
  BY <1>1, <1>2 DEF HostInv, HostTypeOK, LeasesMove
<1> QED
  BY <1>2, <1>3, <1>5, <1>6, AloneStaysSound DEF HostInv, RequestInv, LeasesMove

\* The leases are not involved.
LEMMA QuietLeases ==
  ASSUME HostInv, UNCHANGED leaseVars
  PROVE  LeasesMove /\ NoBinding /\ \A r \in Requests : Guarded(r) => Guarded(r)'
<1>1. UNCHANGED <<lease, ops, now>>
  BY DEF leaseVars
<1>2. LeasesMove /\ NoBinding
  BY <1>1, ClockEffect DEF HostInv, HostTypeOK
<1> QED  BY <1>1, <1>2 DEF Guarded

\* What is left to show of a step that concerns r alone and publishes nothing.
LEMMA ConcernsOnly ==
  ASSUME HostInv, NEW r \in Requests, HostTypeOK', LeasesMove, RequestInv(r)',
         \A q \in Requests \ {r} : LeavesAlone(q),
         UNCHANGED releases,
         \A l \in Leases, h \in Hosts : l \in unpublished'[h] => l \in unpublished[h] \/ Gone(l)'
  PROVE  HostInv'
<1>1. \A q \in Requests : RequestInv(q)'
  BY AloneStaysSound DEF HostInv, RequestInv
<1>2. \A l \in Leases : ReleaseSound(l)'
  BY ReleaseStaysSound DEF HostInv
<1> QED  BY <1>1, <1>2 DEF HostInv, RequestInv, LeasesMove

LEMMA PublishReleaseKeeps ==
  ASSUME HostInv, NEW h \in Hosts, NEW l \in Leases, PublishRelease(h, l)
  PROVE  HostInv'
<1>1. /\ UNCHANGED leaseVars
      /\ UNCHANGED <<up, call, session, tree, spawns, finals>>
      /\ l \in unpublished[h]
      /\ unpublished' = [unpublished EXCEPT ![h] = @ \ {l}]
      /\ releases' = [releases EXCEPT ![l] = [finality |-> "RELEASED", at |-> lease[l].observed]]
  BY DEF PublishRelease
<1>2. LeasesMove /\ NoBinding /\ \A r \in Requests : Guarded(r) => Guarded(r)'
  BY <1>1, QuietLeases
<1>3. /\ releases'[l] = [finality |-> "RELEASED", at |-> lease[l].observed]
      /\ releases'[l] # NoReceipt
      /\ \A k \in Leases \ {l} : releases'[k] = releases[k]
  BY <1>1 DEF HostInv, HostTypeOK, NoReceipt
<1>4. lease[l].observed \in Int
  BY DEF HostInv, HostTypeOK, LeaseTypeOK, LeaseRecords
<1>5. HostTypeOK'
  BY <1>1, <1>2, <1>4 DEF HostInv, HostTypeOK, LeasesMove, Receipts
<1>6. \A g \in Hosts : unpublished'[g] \subseteq unpublished[g]
                      /\ unpublished[g] \subseteq unpublished'[g] \cup {l}
  BY <1>1 DEF HostInv, HostTypeOK
<1>7. \A r \in Requests : ReceiptsStay(r)
  BY <1>1, <1>3, <1>6 DEF ReceiptsStay, HostInv, HostTypeOK
<1>8. \A r \in Requests : LeavesAlone(r)
  BY <1>1, <1>2, <1>7, HostAssumption DEF LeavesAlone, NoBinding
<1>9. UNCHANGED <<lease, ops>>
  BY <1>1 DEF leaseVars
<1>10. \A k \in Leases : ReleaseSound(k)'
  <2>1. Gone(l)
    BY <1>1 DEF HostInv, ReleaseSound
  <2>2. ReleaseSound(l)'
    BY <1>3, <1>9, <2>1 DEF ReleaseSound, Gone
  <2>3. ASSUME NEW k \in Leases \ {l} PROVE ReleaseSound(k)'
    BY <1>3, <1>6, <1>9 DEF HostInv, ReleaseSound, Gone
  <2> QED  BY <2>2, <2>3
<1> QED
  BY <1>2, <1>5, <1>8, <1>10, AloneStaysSound DEF HostInv, RequestInv, LeasesMove

LEMMA BindLeasesKeeps ==
  ASSUME HostInv, NEW h \in Hosts, NEW r \in Requests, BindLeases(h, r)
  PROVE  HostInv'
<1>1. /\ UNCHANGED <<up, session, tree, spawns, unpublished, finals, releases>>
      /\ call' = [call EXCEPT ![h][r] = "INSPECT"]
      /\ Bind(r, OwnerFor(r), LeasesOf[r])
  BY DEF BindLeases, Goto
<1>2. r \in Bindings /\ LeasesOf[r] \in SUBSET Leases
  BY HostAssumption
<1>3. /\ LeasesMove
      /\ BindOp(r) \notin DOMAIN ops /\ DOMAIN ops' = DOMAIN ops \cup {BindOp(r)}
      /\ \A k \in Leases : lease[k].binding # Unbound => lease'[k] = lease[k]
  BY <1>1, <1>2, BindEffect DEF HostInv, HostTypeOK
<1>4. HostTypeOK'
  BY <1>1, <1>3 DEF HostInv, HostTypeOK, LeasesMove
<1>5. /\ \A g \in Hosts, q \in Requests : g # h \/ q # r => call'[g][q] = call[g][q]
      /\ call'[h][r] = "INSPECT"
  BY <1>1 DEF HostInv, HostTypeOK
<1>6. \A q \in Requests : Guarded(q) => Guarded(q)'
  <2>1. \A q \in Requests : q # Unbound
    BY LeaseAssumption, HostAssumption
  <2> QED  BY <1>3, <2>1, LeasesInRange DEF Guarded
<1>7. ASSUME NEW q \in Requests \ {r} PROVE LeavesAlone(q)
  <2>1. BindOp(q) # BindOp(r)
    BY DEF BindOp
  <2> QED  BY <1>1, <1>3, <1>5, <1>6, <2>1 DEF LeavesAlone, ReceiptsStay
<1>8. RequestInv(r)'
  <2>1. \A g \in Hosts : call[g][r] = "NONE"
    BY <1>3 DEF HostInv, BoundOnce, Starting
  <2>2. Untouched(r) /\ Untouched(r)'
    BY <1>1, <1>3 DEF HostInv, BoundOnce, Untouched
  <2>3. BoundOnce(r)'
    BY <1>3, <1>5, <2>1, <2>2 DEF BoundOnce, Starting, Untouched, HostTypeOK
  <2>4. ~AtWork(r)'
    BY <1>5, <2>1, <2>2 DEF AtWork, Untouched
  <2>5. SessionSound(r)'
    BY <2>2 DEF SessionSound, Untouched
  <2>6. FinalSound(r)'
    BY <1>1, <2>2 DEF HostInv, FinalSound, Untouched
  <2> QED  BY <2>3, <2>4, <2>5, <2>6 DEF RequestInv, GuardedWhileAtWork
<1> QED  BY <1>1, <1>3, <1>4, <1>7, <1>8, ConcernsOnly

LEMMA InspectLeasesKeeps ==
  ASSUME HostInv, NEW h \in Hosts, NEW r \in Requests, InspectLeases(h, r)
  PROVE  HostInv'
<1> PICK stage \in {"SPAWN", "NONE"} :
      /\ call' = [call EXCEPT ![h][r] = stage]
      /\ stage = "SPAWN" => \A l \in LeasesOf[r] : /\ Status(l) = "ACTIVE"
                                                   /\ lease[l].owner = OwnerOf[l]
                                                   /\ lease[l].binding = r
  BY DEF InspectLeases, Goto
<1>1. /\ UNCHANGED leaseVars /\ UNCHANGED <<up, session, tree, spawns, unpublished, finals, releases>>
      /\ call[h][r] = "INSPECT"
  BY DEF InspectLeases, At
<1>2. LeasesMove /\ NoBinding /\ \A q \in Requests : Guarded(q) => Guarded(q)'
  BY <1>1, QuietLeases
<1>3. /\ \A g \in Hosts, q \in Requests : g # h \/ q # r => call'[g][q] = call[g][q]
      /\ call'[h][r] = stage
  BY DEF HostInv, HostTypeOK
<1>4. HostTypeOK'
  BY <1>1, <1>2 DEF HostInv, HostTypeOK, LeasesMove
<1>5. ASSUME NEW q \in Requests \ {r} PROVE LeavesAlone(q)
  BY <1>1, <1>2, <1>3, HostAssumption DEF LeavesAlone, ReceiptsStay, NoBinding
<1>6. RequestInv(r)'
  <2>1. BindOp(r) \in DOMAIN ops' /\ Untouched(r)'
    BY <1>1, <1>2, HostAssumption DEF HostInv, BoundOnce, Starting, Untouched, NoBinding
  <2>2. BoundOnce(r)'
    BY <1>1, <1>3, <2>1 DEF HostInv, BoundOnce, Starting, Untouched
  <2>3. stage = "SPAWN" => Guarded(r)
    BY DEF Guarded, Status
  <2>4. \A g \in Hosts : call'[g][r] = "SPAWN" => g = h /\ stage = "SPAWN"
    BY <1>1, <1>3 DEF HostInv, BoundOnce
  <2>5. GuardedWhileAtWork(r)'
    BY <1>2, <2>1, <2>3, <2>4 DEF GuardedWhileAtWork, AtWork, Untouched
  <2>6. SessionSound(r)' /\ FinalSound(r)'
    BY <1>1, <2>1 DEF HostInv, SessionSound, FinalSound, Untouched
  <2> QED  BY <2>2, <2>5, <2>6 DEF RequestInv
<1> QED  BY <1>1, <1>2, <1>4, <1>5, <1>6, ConcernsOnly

\* Both outcomes of driver.start() end the call and open a session; only an
\* accepted start leaves a tree that is alive under its leases.
LEMMA DriverAnswersKeeps ==
  ASSUME HostInv, NEW h \in Hosts, NEW r \in Requests,
         DriverStarts(h, r) \/ DriverRejects(h, r)
  PROVE  HostInv'
<1>1. /\ UNCHANGED leaseVars /\ UNCHANGED <<up, unpublished, finals, releases>>
      /\ call[h][r] = "SPAWN" /\ call' = [call EXCEPT ![h][r] = "NONE"]
  BY DEF DriverStarts, DriverRejects, At, Goto
<1>2. PICK stage \in {"OPEN", "UNDO"}, how \in {"LIVE", "LEFT", "NONE"}, n \in {0, 1} :
        /\ session' = [session EXCEPT ![r] =
                         [NoSession EXCEPT !.host = h, !.stage = stage, !.left = LeasesOf[r]]]
        /\ stage = "UNDO" => how # "LIVE"
        /\ \/ /\ how # "NONE" /\ n = 1
              /\ tree' = [tree EXCEPT ![r] = how]
              /\ spawns' = [spawns EXCEPT ![r] = @ + 1]
           \/ how = "NONE" /\ n = 0 /\ UNCHANGED <<tree, spawns>>
  <2>1. CASE DriverStarts(h, r)
    BY <2>1 DEF DriverStarts, Spawned, Opened
  <2>2. CASE DriverRejects(h, r) /\ UNCHANGED <<tree, spawns>>
    BY <2>2 DEF DriverRejects, Opened
  <2>3. CASE DriverRejects(h, r) /\ Spawned(r, "LEFT")
    BY <2>3 DEF DriverRejects, Spawned, Opened
  <2> QED  BY <2>1, <2>2, <2>3 DEF DriverRejects
<1>3. LeasesMove /\ NoBinding /\ \A q \in Requests : Guarded(q) => Guarded(q)'
  BY <1>1, QuietLeases
<1>4. Untouched(r) /\ Guarded(r) /\ BindOp(r) \in DOMAIN ops
  BY <1>1 DEF HostInv, BoundOnce, Starting, GuardedWhileAtWork, AtWork
<1>5. /\ \A g \in Hosts, q \in Requests : g # h \/ q # r => call'[g][q] = call[g][q]
      /\ call'[h][r] = "NONE"
  BY <1>1 DEF HostInv, HostTypeOK
<1>6. /\ \A q \in Requests \ {r} : /\ session'[q] = session[q] /\ tree'[q] = tree[q]
                                   /\ spawns'[q] = spawns[q]
      /\ session'[r] = [host |-> h, stage |-> stage, left |-> LeasesOf[r], at |-> 0]
      /\ tree'[r] = how /\ spawns'[r] = n
      /\ tree' \in [Requests -> {"NONE", "LIVE", "LEFT", "EMPTY"}]
      /\ spawns' \in [Requests -> Nat]
  <2>1. /\ \A q \in Requests \ {r} : session'[q] = session[q]
        /\ session'[r] = [host |-> h, stage |-> stage, left |-> LeasesOf[r], at |-> 0]
    BY <1>2 DEF HostInv, HostTypeOK, NoSession
  <2>2. /\ tree \in [Requests -> {"NONE", "LIVE", "LEFT", "EMPTY"}] /\ tree[r] = "NONE"
        /\ spawns \in [Requests -> Nat] /\ spawns[r] = 0
    BY <1>4 DEF HostInv, HostTypeOK, Untouched
  <2>3. CASE UNCHANGED <<tree, spawns>>
    BY <1>2, <2>1, <2>2, <2>3
  <2>4. CASE tree' = [tree EXCEPT ![r] = how] /\ spawns' = [spawns EXCEPT ![r] = @ + 1] /\ n = 1
    BY <2>1, <2>2, <2>4
  <2> QED  BY <1>2, <2>3, <2>4
<1>7. HostTypeOK'
  <2>1. LeasesOf[r] \in SUBSET Leases
    BY LeasesInRange
  <2>2. [host |-> h, stage |-> stage, left |-> LeasesOf[r], at |-> 0] \in Sessions
    BY <2>1 DEF Sessions
  <2>3. session' \in [Requests -> Sessions]
    BY <1>2, <2>2 DEF HostInv, HostTypeOK, NoSession
  <2>4. call' \in [Hosts -> [Requests -> {"NONE", "INSPECT", "SPAWN"}]]
    BY <1>1 DEF HostInv, HostTypeOK
  <2> QED  BY <1>1, <1>3, <1>6, <2>3, <2>4 DEF HostInv, HostTypeOK, LeasesMove
<1>8. ASSUME NEW q \in Requests \ {r} PROVE LeavesAlone(q)
  BY <1>1, <1>3, <1>5, <1>6, HostAssumption DEF LeavesAlone, ReceiptsStay, NoBinding
<1>9. RequestInv(r)'
  <2>1. \A g \in Hosts : call'[g][r] = "NONE"
    BY <1>1, <1>5 DEF HostInv, BoundOnce
  <2>2. BoundOnce(r)'
    BY <1>3, <1>4, <1>6, <2>1, HostAssumption DEF BoundOnce, Starting, NoBinding
  <2>3. GuardedWhileAtWork(r)'
    BY <1>3, <1>4 DEF GuardedWhileAtWork
  <2>4. SessionSound(r)'
    BY <1>2, <1>6 DEF SessionSound
  <2>5. FinalSound(r)'
    BY <1>1, <1>4 DEF HostInv, FinalSound, Untouched
  <2> QED  BY <2>2, <2>3, <2>4, <2>5 DEF RequestInv
<1> QED  BY <1>1, <1>3, <1>7, <1>8, <1>9, ConcernsOnly

\* Starting and a session exclude each other; so does a reservation not made.
LEMMA SessionAlone ==
  ASSUME HostInv, NEW r \in Requests, session[r].stage # "NONE"
  PROVE  BindOp(r) \in DOMAIN ops /\ \A h \in Hosts : call[h][r] = "NONE"
  BY DEF HostInv, BoundOnce, Starting, Untouched

\* Undo and finalisation release a lease bound to r, of a session whose tree
\* is not alive, and note that its receipt has to be published.
ReleasesFor(h, r, l) ==
    /\ Release(l, OwnerOf[l], r)
    /\ unpublished' = [unpublished EXCEPT ![h] = @ \cup {l}]
    /\ session' = [session EXCEPT ![r].left = @ \ {l}]

LEMMA ReleasesForKeeps ==
  ASSUME HostInv, NEW h \in Hosts, NEW r \in Requests, NEW l \in session[r].left,
         ReleasesFor(h, r, l), session[r].host = h, session[r].stage \in {"UNDO", "RELEASING"},
         UNCHANGED <<up, call, tree, spawns, finals, releases, crashes>>
  PROVE  HostInv'
<1>1. l \in Leases /\ r \in Bindings
  BY HostAssumption DEF HostInv, HostTypeOK, Sessions
<1>2. /\ LeasesMove /\ NoBinding
      /\ lease[l].state = "ACTIVE" /\ lease[l].binding = r /\ Gone(l)'
      /\ \A k \in Leases \ {l} : lease'[k] = lease[k]
  BY <1>1, ReleaseEffect DEF ReleasesFor, HostInv, HostTypeOK
<1>3. \A q \in Requests \ {r} : Guarded(q) => Guarded(q)'
  BY <1>1, <1>2, OtherReleaseGuards DEF HostInv
<1>4. /\ session'[r] = [session[r] EXCEPT !.left = @ \ {l}]
      /\ session'[r] \in Sessions
      /\ \A q \in Requests \ {r} : session'[q] = session[q]
      /\ session' \in [Requests -> Sessions]
  BY DEF ReleasesFor, HostInv, HostTypeOK, Sessions
<1>5. /\ \A g \in Hosts : /\ unpublished'[g] \subseteq unpublished[g] \cup {l}
                          /\ unpublished[g] \subseteq unpublished'[g]
      /\ l \in unpublished'[h]
      /\ unpublished' \in [Hosts -> SUBSET Leases]
  BY <1>1 DEF ReleasesFor, HostInv, HostTypeOK
<1>6. HostTypeOK'
  BY <1>2, <1>4, <1>5 DEF HostInv, HostTypeOK, LeasesMove
<1>7. ASSUME NEW q \in Requests \ {r} PROVE LeavesAlone(q)
  BY <1>2, <1>3, <1>4, <1>5, HostAssumption DEF LeavesAlone, ReceiptsStay, NoBinding
<1>8. RequestInv(r)'
  <2>1. BindOp(r) \in DOMAIN ops' /\ \A g \in Hosts : call'[g][r] = "NONE"
    BY <1>1, <1>2, SessionAlone DEF NoBinding
  <2>2. BoundOnce(r)'
    BY <2>1 DEF HostInv, BoundOnce, Starting
  <2>3. ~AtWork(r)'
    BY <2>1 DEF HostInv, SessionSound, AtWork
  <2>4. \A k \in LeasesOf[r] : Gone(k) => Gone(k)'
    BY <1>2, LeasesInRange DEF LeasesMove, Gone
  <2>5. /\ session'[r].stage = session[r].stage /\ session'[r].host = h
        /\ session'[r].left = session[r].left \ {l}
    BY <1>4 DEF HostInv, HostTypeOK, Sessions
  <2>6. SessionSound(r)'
    BY <1>2, <1>5, <2>4, <2>5 DEF HostInv, SessionSound
  <2>7. FinalSound(r)'
    BY <2>4 DEF HostInv, FinalSound
  <2> QED  BY <2>2, <2>3, <2>6, <2>7 DEF RequestInv, GuardedWhileAtWork
<1>9. \A k \in Leases, g \in Hosts : k \in unpublished'[g] => k \in unpublished[g] \/ Gone(k)'
  BY <1>2, <1>5
<1> QED  BY <1>2, <1>6, <1>7, <1>8, <1>9, ConcernsOnly

\* A step that changes only the session of r.
LEMMA SessionStepKeeps ==
  ASSUME HostInv, NEW r \in Requests, NEW s \in Sessions,
         session' = [session EXCEPT ![r] = s], SessionSound(r)',
         session[r].stage # "NONE",
         UNCHANGED leaseVars,
         UNCHANGED <<up, call, tree, spawns, unpublished, finals, releases>>
  PROVE  HostInv'
<1>1. LeasesMove /\ NoBinding /\ \A q \in Requests : Guarded(q) => Guarded(q)'
  BY QuietLeases
<1>2. /\ \A q \in Requests \ {r} : session'[q] = session[q]
      /\ session' \in [Requests -> Sessions]
  BY DEF HostInv, HostTypeOK
<1>3. HostTypeOK'
  BY <1>1, <1>2 DEF HostInv, HostTypeOK, LeasesMove
<1>4. ASSUME NEW q \in Requests \ {r} PROVE LeavesAlone(q)
  BY <1>1, <1>2, HostAssumption DEF LeavesAlone, ReceiptsStay, NoBinding
<1>5. RequestInv(r)'
  <2>1. BindOp(r) \in DOMAIN ops' /\ \A g \in Hosts : call'[g][r] = "NONE"
    BY <1>1, SessionAlone, HostAssumption DEF NoBinding
  <2>2. BoundOnce(r)'
    BY <2>1 DEF HostInv, BoundOnce, Starting
  <2>3. GuardedWhileAtWork(r)'
    BY <1>1 DEF HostInv, GuardedWhileAtWork, AtWork
  <2>4. FinalSound(r)'
    BY <1>1, LeasesInRange DEF HostInv, FinalSound, LeasesMove, Gone
  <2> QED  BY <2>2, <2>3, <2>4 DEF RequestInv
<1> QED  BY <1>1, <1>3, <1>4, <1>5, ConcernsOnly

LEMMA UndoReleaseKeeps ==
  ASSUME HostInv, NEW h \in Hosts, NEW r \in Requests, UndoRelease(h, r)
  PROVE  HostInv'
<1>1. /\ session[r].host = h /\ session[r].stage = "UNDO"
      /\ UNCHANGED <<up, call, tree, spawns, finals, releases, crashes>>
  BY DEF UndoRelease, InStage
<1>2. CASE session' = [session EXCEPT ![r] = NoSession] /\ UNCHANGED <<leaseVars, unpublished>>
  <2>1. NoSession \in Sessions
    BY DEF NoSession, Sessions
  <2>2. SessionSound(r)'
    BY <1>2 DEF SessionSound, NoSession, HostInv, HostTypeOK
  <2> QED  BY <1>1, <1>2, <2>1, <2>2, SessionStepKeeps
<1>3. ASSUME NEW l \in session[r].left, session' = [session EXCEPT ![r].left = @ \ {l}],
             UNCHANGED <<leaseVars, unpublished>>
      PROVE  HostInv'
  <2> PICK s : s = [session[r] EXCEPT !.left = @ \ {l}]
    OBVIOUS
  <2>1. s \in Sessions /\ session' = [session EXCEPT ![r] = s] /\ s.stage = "UNDO" /\ s.host = h
    BY <1>1, <1>3 DEF HostInv, HostTypeOK, Sessions
  <2>2. SessionSound(r)'
    BY <1>1, <2>1 DEF SessionSound, HostInv, HostTypeOK
  <2> QED  BY <1>1, <1>3, <2>1, <2>2, SessionStepKeeps
<1>4. ASSUME NEW l \in session[r].left, ReleasesFor(h, r, l)
      PROVE  HostInv'
  BY <1>1, <1>4, ReleasesForKeeps
<1> QED  BY <1>2, <1>3, <1>4 DEF UndoRelease, ReleasesFor

LEMMA TreeEndsKeeps ==
  ASSUME HostInv, NEW r \in Requests, TreeEnds(r)
  PROVE  HostInv'
<1>1. /\ UNCHANGED leaseVars
      /\ UNCHANGED <<up, call, session, spawns, unpublished, finals, releases>>
      /\ tree[r] \in {"LIVE", "LEFT"} /\ tree' = [tree EXCEPT ![r] = "EMPTY"]
  BY DEF TreeEnds, Running
<1>2. LeasesMove /\ NoBinding /\ \A q \in Requests : Guarded(q) => Guarded(q)'
  BY <1>1, QuietLeases
<1>3. tree'[r] = "EMPTY" /\ \A q \in Requests \ {r} : tree'[q] = tree[q]
  BY <1>1 DEF HostInv, HostTypeOK
<1>4. HostTypeOK'
  BY <1>1, <1>2 DEF HostInv, HostTypeOK, LeasesMove
<1>5. ASSUME NEW q \in Requests \ {r} PROVE LeavesAlone(q)
  BY <1>1, <1>2, <1>3, HostAssumption DEF LeavesAlone, ReceiptsStay, NoBinding
<1>6. RequestInv(r)'
  <2>1. BindOp(r) \in DOMAIN ops' /\ \A g \in Hosts : call'[g][r] = "NONE"
    BY <1>1, <1>2, HostAssumption DEF HostInv, BoundOnce, Starting, Untouched, NoBinding
  <2>2. BoundOnce(r)'
    BY <1>1, <2>1 DEF HostInv, BoundOnce, Starting
  <2>3. GuardedWhileAtWork(r)'
    BY <1>3, <2>1 DEF GuardedWhileAtWork, AtWork
  <2>4. SessionSound(r)' /\ FinalSound(r)'
    BY <1>1, <1>2, <1>3, LeasesInRange DEF HostInv, SessionSound, FinalSound, LeasesMove, Gone
  <2> QED  BY <2>2, <2>3, <2>4 DEF RequestInv
<1> QED  BY <1>1, <1>2, <1>4, <1>5, <1>6, ConcernsOnly

LEMMA SettleKeeps ==
  ASSUME HostInv, NEW h \in Hosts, NEW r \in Requests, Settle(h, r)
  PROVE  HostInv'
<1>1. /\ session[r].host = h /\ session[r].stage = "OPEN" /\ session[r].left = LeasesOf[r]
      /\ UNCHANGED leaseVars
      /\ UNCHANGED <<up, call, tree, spawns, unpublished, finals, releases>>
  BY DEF Settle, InStage, HostInv, SessionSound
<1>2. PICK s \in Sessions :
        /\ session' = [session EXCEPT ![r] = s]
        /\ s.host = h /\ s.left = LeasesOf[r]
        /\ s.stage = "NOT_PROVEN" \/ (s.stage = "RELEASING" /\ tree[r] = "EMPTY")
  <2>1. CASE tree[r] = "EMPTY" /\ session' = [session EXCEPT ![r].stage = "RELEASING"]
    <3> PICK s : s = [session[r] EXCEPT !.stage = "RELEASING"]
      OBVIOUS
    <3>1. /\ s \in Sessions /\ session' = [session EXCEPT ![r] = s]
          /\ s.host = h /\ s.left = LeasesOf[r] /\ s.stage = "RELEASING"
      BY <1>1, <2>1 DEF HostInv, HostTypeOK, Sessions
    <3> QED  BY <2>1, <3>1
  <2>2. CASE Conclude(r, "NOT_PROVEN")
    <3> PICK s : s = [session[r] EXCEPT !.stage = "NOT_PROVEN", !.at = now]
      OBVIOUS
    <3>1. /\ s \in Sessions /\ session' = [session EXCEPT ![r] = s]
          /\ s.host = h /\ s.left = LeasesOf[r] /\ s.stage = "NOT_PROVEN"
      BY <1>1, <2>2 DEF Conclude, HostInv, HostTypeOK, LeaseTypeOK, Sessions
    <3> QED  BY <3>1
  <2> QED  BY <2>1, <2>2 DEF Settle
<1>3. session'[r] = s
  BY <1>2 DEF HostInv, HostTypeOK
<1>4. SessionSound(r)'
  BY <1>1, <1>2, <1>3 DEF SessionSound
<1> QED  BY <1>1, <1>2, <1>4, SessionStepKeeps

LEMMA FinalizeReleaseKeeps ==
  ASSUME HostInv, NEW h \in Hosts, NEW r \in Requests, FinalizeRelease(h, r)
  PROVE  HostInv'
<1>1. /\ session[r].host = h /\ session[r].stage = "RELEASING"
      /\ unpublished[h] \cap LeasesOf[r] = {}
      /\ UNCHANGED <<up, call, tree, spawns, finals, releases, crashes>>
  BY DEF FinalizeRelease, InStage
<1>2. ASSUME NEW verdict \in {"FINAL", "NOT_PROVEN"}, Conclude(r, verdict),
             verdict = "FINAL" => session[r].left = {},
             UNCHANGED <<leaseVars, unpublished>>
      PROVE  HostInv'
  <2> PICK s : s = [session[r] EXCEPT !.stage = verdict, !.at = now]
    OBVIOUS
  <2>1. /\ s \in Sessions /\ session' = [session EXCEPT ![r] = s] /\ session'[r] = s
        /\ s.stage = verdict /\ s.host = h
    BY <1>1, <1>2 DEF Conclude, HostInv, HostTypeOK, LeaseTypeOK, Sessions
  <2>2. verdict = "FINAL" =>
          /\ tree[r] = "EMPTY"
          /\ \A l \in LeasesOf[r] : Gone(l) /\ releases[l] # NoReceipt
    BY <1>1, <1>2 DEF HostInv, SessionSound
  <2>3. UNCHANGED lease
    BY <1>2 DEF leaseVars
  <2>4. SessionSound(r)'
    BY <1>1, <2>1, <2>2, <2>3 DEF SessionSound, Gone
  <2> QED  BY <1>1, <1>2, <2>1, <2>4, SessionStepKeeps
<1>3. ASSUME NEW l \in session[r].left, ReleasesFor(h, r, l)
      PROVE  HostInv'
  BY <1>1, <1>3, ReleasesForKeeps
<1> QED  BY <1>2, <1>3 DEF FinalizeRelease, ReleasesFor

LEMMA PublishFinalKeeps ==
  ASSUME HostInv, NEW h \in Hosts, NEW r \in Requests, PublishFinal(h, r)
  PROVE  HostInv'
<1>1. /\ session[r].stage \in {"FINAL", "NOT_PROVEN"}
      /\ UNCHANGED leaseVars
      /\ UNCHANGED <<up, call, session, tree, spawns, unpublished, releases>>
      /\ finals' = [finals EXCEPT ![r] = [finality |-> session[r].stage, at |-> session[r].at]]
  BY DEF PublishFinal, InStage
<1>2. LeasesMove /\ NoBinding /\ \A q \in Requests : Guarded(q) => Guarded(q)'
  BY <1>1, QuietLeases
<1>3. /\ finals'[r] = [finality |-> session[r].stage, at |-> session[r].at]
      /\ finals'[r] \in Receipts
      /\ \A q \in Requests \ {r} : finals'[q] = finals[q]
  BY <1>1 DEF HostInv, HostTypeOK, Sessions, Receipts
<1>4. HostTypeOK'
  BY <1>1, <1>2, <1>3 DEF HostInv, HostTypeOK, LeasesMove
<1>5. ASSUME NEW q \in Requests \ {r} PROVE LeavesAlone(q)
  BY <1>1, <1>2, <1>3, HostAssumption DEF LeavesAlone, ReceiptsStay, NoBinding
<1>6. RequestInv(r)'
  <2>1. BoundOnce(r)' /\ GuardedWhileAtWork(r)'
    BY <1>1, <1>2, HostAssumption
       DEF HostInv, BoundOnce, Starting, Untouched, GuardedWhileAtWork, AtWork, NoBinding
  <2>2. SessionSound(r)'
    BY <1>1, <1>2, LeasesInRange DEF HostInv, SessionSound, LeasesMove, Gone
  <2>3. FinalSound(r)'
    BY <1>1, <1>2, <1>3, LeasesInRange DEF HostInv, SessionSound, FinalSound, LeasesMove, Gone
  <2> QED  BY <2>1, <2>2, <2>3 DEF RequestInv
<1> QED  BY <1>1, <1>2, <1>4, <1>5, <1>6, ConcernsOnly

\* A dying host takes its calls, its sessions and its unpublished receipts
\* with it; a driver.start() it was waiting for may have made a tree.
LEMMA HostCrashKeeps ==
  ASSUME HostInv, NEW h \in Hosts, HostCrash(h)
  PROVE  HostInv'
<1>1. /\ UNCHANGED <<lease, ops, now, finals, releases>>
      /\ call' = [call EXCEPT ![h] = [r \in Requests |-> "NONE"]]
      /\ session' = [r \in Requests |-> IF session[r].host = h THEN NoSession ELSE session[r]]
      /\ unpublished' = [unpublished EXCEPT ![h] = {}]
  BY DEF HostCrash, CrashMidCommit, leaseVars
<1>2. PICK lost \in SUBSET {r \in Requests : call[h][r] = "SPAWN"} :
        /\ tree' = [r \in Requests |-> IF r \in lost THEN "LIVE" ELSE tree[r]]
        /\ spawns' = [r \in Requests |-> IF r \in lost THEN spawns[r] + 1 ELSE spawns[r]]
  BY DEF HostCrash
<1>3. LeasesMove
  BY <1>1, ClockEffect DEF HostInv, HostTypeOK
<1>4. HostTypeOK'
  <2>1. session' \in [Requests -> Sessions]
    BY <1>1 DEF HostInv, HostTypeOK, NoSession, Sessions
  <2>2. /\ tree' \in [Requests -> {"NONE", "LIVE", "LEFT", "EMPTY"}]
        /\ spawns' \in [Requests -> Nat]
    BY <1>2 DEF HostInv, HostTypeOK
  <2>3. /\ call' \in [Hosts -> [Requests -> {"NONE", "INSPECT", "SPAWN"}]]
        /\ unpublished' \in [Hosts -> SUBSET Leases]
    BY <1>1 DEF HostInv, HostTypeOK
  <2> QED  BY <1>1, <1>3, <2>1, <2>2, <2>3 DEF HostInv, HostTypeOK, LeasesMove
<1>5. \A g \in Hosts : /\ unpublished'[g] \subseteq unpublished[g]
                       /\ g # h => unpublished'[g] = unpublished[g]
  BY <1>1 DEF HostInv, HostTypeOK
<1>6. ASSUME NEW r \in Requests PROVE RequestInv(r)'
  <2>1. /\ \A g \in Hosts \ {h} : call'[g][r] = call[g][r]
        /\ call'[h][r] = "NONE"
    BY <1>1 DEF HostInv, HostTypeOK
  <2>2. /\ tree'[r] = IF r \in lost THEN "LIVE" ELSE tree[r]
        /\ spawns'[r] = IF r \in lost THEN spawns[r] + 1 ELSE spawns[r]
        /\ session'[r] = IF session[r].host = h THEN NoSession ELSE session[r]
    BY <1>1, <1>2
  <2>3. r \in lost => /\ Untouched(r) /\ Guarded(r) /\ BindOp(r) \in DOMAIN ops
                      /\ \A g \in Hosts : call'[g][r] = "NONE"
    BY <2>1 DEF HostInv, BoundOnce, Starting, GuardedWhileAtWork, AtWork
  <2>4. BoundOnce(r)'
    <3>1. CASE r \in lost
      BY <1>1, <2>2, <2>3, <3>1 DEF BoundOnce, Starting, Untouched
    <3>2. CASE r \notin lost
      BY <1>1, <2>1, <2>2, <3>2 DEF HostInv, BoundOnce, Starting, Untouched, NoSession
    <3> QED  BY <3>1, <3>2
  <2>5. GuardedWhileAtWork(r)'
    BY <1>1, <2>1, <2>2, <2>3 DEF HostInv, GuardedWhileAtWork, AtWork, Guarded
  <2>6. SessionSound(r)'
    <3>1. CASE session[r].host = h
      BY <2>2, <3>1 DEF SessionSound, NoSession
    <3>2. CASE session[r].host # h
      BY <1>1, <1>5, <2>2, <2>3, <3>2 DEF HostInv, SessionSound, Untouched, Gone
    <3> QED  BY <3>1, <3>2
  <2>7. FinalSound(r)'
    BY <1>1, <2>2, <2>3 DEF HostInv, FinalSound, Untouched, Gone
  <2> QED  BY <2>4, <2>5, <2>6, <2>7 DEF RequestInv
<1>7. \A l \in Leases : ReleaseSound(l)'
  BY <1>1, <1>3, <1>5, ReleaseStaysSound DEF HostInv
<1> QED  BY <1>3, <1>4, <1>6, <1>7 DEF HostInv, RequestInv, LeasesMove

\* A restart and the clock touch neither leases nor requests.
LEMMA IdleKeeps ==
  ASSUME HostInv, UNCHANGED <<lease, ops>>, now' = now \/ now' \in Times,
         UNCHANGED <<call, session, tree, spawns, unpublished, finals, releases>>
  PROVE  HostInv'
<1>1. LeasesMove /\ NoBinding
  BY ClockEffect DEF HostInv, HostTypeOK
<1>2. HostTypeOK'
  BY <1>1 DEF HostInv, HostTypeOK, LeasesMove
<1>3. ASSUME NEW r \in Requests PROVE LeavesAlone(r)
  BY <1>1, HostAssumption DEF LeavesAlone, ReceiptsStay, NoBinding, Guarded
<1> QED
  BY <1>1, <1>2, <1>3, AloneStaysSound, ReleaseStaysSound DEF HostInv, RequestInv, LeasesMove

LEMMA HostNextKeeps == HostInv /\ [HostNext]_hostVars => HostInv'
<1> SUFFICES ASSUME HostInv, [HostNext]_hostVars PROVE HostInv'
  OBVIOUS
<1>1. ASSUME NEW h \in Hosts, HostStep(h) PROVE HostInv'
  <2>1. CASE \E l \in Leases : \/ AcquireLease(h, l) \/ ReleaseLease(h, l) \/ PublishRelease(h, l)
    BY <2>1, AcquireLeaseKeeps, ReleaseLeaseKeeps, PublishReleaseKeeps
  <2>2. CASE \E r \in Requests : \/ BindLeases(h, r) \/ InspectLeases(h, r)
                                 \/ DriverStarts(h, r) \/ DriverRejects(h, r)
    BY <2>2, BindLeasesKeeps, InspectLeasesKeeps, DriverAnswersKeeps
  <2>3. CASE \E r \in Requests : \/ UndoRelease(h, r) \/ Settle(h, r)
                                 \/ FinalizeRelease(h, r) \/ PublishFinal(h, r)
    BY <2>3, UndoReleaseKeeps, SettleKeeps, FinalizeReleaseKeeps, PublishFinalKeeps
  <2>4. CASE HostCrash(h)
    BY <2>4, HostCrashKeeps
  <2>5. CASE HostRestart(h)
    BY <2>5, IdleKeeps DEF HostRestart, Initialize
  <2> QED  BY <1>1, <2>1, <2>2, <2>3, <2>4, <2>5 DEF HostStep
<1>2. ASSUME NEW r \in Requests, TreeEnds(r) PROVE HostInv'
  BY <1>2, TreeEndsKeeps
<1>3. CASE Tick
  BY <1>3, IdleKeeps DEF Tick, ClockMoves, hostOnly
<1>4. CASE UNCHANGED hostVars
  BY <1>4, IdleKeeps DEF hostVars, leaseVars, hostOnly
<1> QED  BY <1>1, <1>2, <1>3, <1>4 DEF HostNext

LEMMA HostInitInv == HostInit => HostInv
<1> SUFFICES ASSUME HostInit PROVE HostInv
  OBVIOUS
<1> USE DEF HostInit, LeaseInit
<1>1. HostTypeOK
  BY DEF HostTypeOK, LeaseTypeOK, NoLease, LeaseRecords, NoSession, Sessions, NoReceipt, Receipts
<1>2. OneWriterPerWorkspace
  BY DEF OneWriterPerWorkspace, NoLease
<1>3. \A r \in Requests : RequestInv(r)
  BY DEF RequestInv, BoundOnce, Starting, Untouched, GuardedWhileAtWork, AtWork, SessionSound,
         FinalSound, NoSession, NoReceipt
<1>4. \A l \in Leases : ReleaseSound(l)
  BY DEF ReleaseSound
<1> QED  BY <1>1, <1>2, <1>3, <1>4 DEF HostInv, RequestInv

-----------------------------------------------------------------------------
(* The Evidence.                                                           *)

\* The stores keep the first receipt: none is ever replaced.
LEMMA ReceiptsAreKept ==
  ASSUME HostInv, [HostNext]_hostVars
  PROVE  /\ \A r \in Requests : finals[r] # NoReceipt => finals'[r] = finals[r]
         /\ \A l \in Leases : releases[l] # NoReceipt => releases'[l] = releases[l]
<1>1. ASSUME NEW h \in Hosts, NEW r \in Requests, PublishFinal(h, r)
      PROVE  UNCHANGED releases /\ \A q \in Requests : finals[q] # NoReceipt => finals'[q] = finals[q]
  BY <1>1 DEF PublishFinal, HostInv, HostTypeOK
<1>2. ASSUME NEW h \in Hosts, NEW l \in Leases, PublishRelease(h, l)
      PROVE  UNCHANGED finals /\ \A k \in Leases : releases[k] # NoReceipt => releases'[k] = releases[k]
  <2>1. /\ UNCHANGED finals
        /\ releases' = [releases EXCEPT ![l] = [finality |-> "RELEASED", at |-> lease[l].observed]]
    BY <1>2 DEF PublishRelease
  <2> QED  BY <2>1 DEF HostInv, HostTypeOK, ReleaseSound
<1>3. ASSUME NEW h \in Hosts, HostStep(h),
             ~ \E r \in Requests : PublishFinal(h, r), ~ \E l \in Leases : PublishRelease(h, l)
      PROVE  UNCHANGED <<finals, releases>>
  BY <1>3 DEF HostStep, AcquireLease, ReleaseLease, BindLeases, InspectLeases, DriverStarts,
              DriverRejects, UndoRelease, Settle, FinalizeRelease, HostCrash, HostRestart, hostOnly
<1>4. ASSUME NEW r \in Requests, TreeEnds(r) PROVE UNCHANGED <<finals, releases>>
  BY <1>4 DEF TreeEnds
<1>5. Tick \/ UNCHANGED hostVars => UNCHANGED <<finals, releases>>
  BY DEF Tick, hostVars, hostOnly
<1> QED  BY <1>1, <1>2, <1>3, <1>4, <1>5 DEF HostNext

\* A Checkpoint whose receipts are all in has the payload it will always have.
LEMMA PayloadIsFixed ==
  ASSUME HostInv, [HostNext]_hostVars, UNCHANGED <<checkpoint, evidence, finality>>, EvidenceSound
  PROVE  EvidenceSound'
<1>1. CASE evidence = {}
  BY <1>1 DEF EvidenceSound
<1>2. CASE evidence # {}
  <2>1. /\ \A r \in checkpoint.processes : finals'[r] = finals[r]
        /\ \A l \in checkpoint.leases : releases'[l] = releases[l]
    BY <1>2, ReceiptsAreKept DEF EvidenceSound, NoReceipt
  <2>2. Payload' = Payload
    BY <2>1 DEF Payload
  <2> QED  BY <1>2, <2>1, <2>2 DEF EvidenceSound
<1> QED  BY <1>1, <1>2

LEMMA AttemptNextKeeps == FinalityInv /\ [AttemptNext]_attemptVars => FinalityInv'
<1> SUFFICES ASSUME FinalityInv, [AttemptNext]_attemptVars PROVE FinalityInv'
  OBVIOUS
<1> USE DEF FinalityInv
<1>1. CASE [HostNext]_hostVars /\ UNCHANGED <<checkpoint, evidence, finality>>
  BY <1>1, HostNextKeeps, PayloadIsFixed
<1>2. CASE TakeCheckpoint
  <2>1. HostInv'
    BY <1>2, HostNextKeeps DEF TakeCheckpoint
  <2>2. /\ checkpoint' = [taken |-> TRUE, at |-> now,
                          processes |-> {r \in Requests : session[r].stage = "OPEN"},
                          leases |-> {l \in Held : lease[l].state = "ACTIVE"}]
        /\ ~checkpoint.taken /\ UNCHANGED <<evidence, finality>>
    BY <1>2 DEF TakeCheckpoint
  <2>3. Held \subseteq Leases
    BY LeasesInRange DEF Held
  <2> QED  BY <2>1, <2>2, <2>3 DEF EvidenceSound
<1>3. CASE ReconcileAttemptFinality
  <2>1. UNCHANGED hostVars /\ UNCHANGED checkpoint
    BY <1>3 DEF ReconcileAttemptFinality
  <2>2. HostInv'
    BY <2>1, HostNextKeeps
  <2>3. UNCHANGED <<finals, releases>>
    BY <2>1 DEF hostVars, hostOnly
  <2>4. Payload' = Payload
    BY <2>1, <2>3 DEF Payload
  <2>5. /\ checkpoint.taken
        /\ \A r \in checkpoint.processes : finals[r].finality = "FINAL"
        /\ \A l \in checkpoint.leases : releases[l] # NoReceipt
        /\ evidence' = evidence \cup {Payload}
        /\ finality' = finality \cup {Payload} \/ UNCHANGED finality
    BY <1>3 DEF ReconcileAttemptFinality, FreshProcess, FreshLease
  <2> QED  BY <2>1, <2>2, <2>3, <2>4, <2>5 DEF EvidenceSound
<1>4. CASE UNCHANGED attemptVars
  BY <1>1, <1>4 DEF attemptVars
<1> QED  BY <1>1, <1>2, <1>3, <1>4 DEF AttemptNext

LEMMA AttemptInitInv == AttemptInit => FinalityInv
  BY HostInitInv DEF AttemptInit, FinalityInv, EvidenceSound, NoCheckpoint

LEMMA FinalityInvHolds == AttemptSpec => []FinalityInv
  BY AttemptInitInv, AttemptNextKeeps, PTL DEF AttemptSpec

(* Two active leases never share a workspace or a resource; while the tree   *)
(* of a start request runs, the leases it was started under are active and   *)
(* bound to it; and no start operation ever runs two trees: for every set of *)
(* hosts, requests and leases, whatever crashes, restarts and clock moves    *)
(* come between the awaits of start() and #finalize.                         *)
THEOREM TreesAreGuarded == AttemptSpec => []TreeIsGuarded
<1>1. FinalityInv => TreeIsGuarded
  <2> SUFFICES ASSUME FinalityInv PROVE TreeIsGuarded
    OBVIOUS
  <2>1. LeaseOutlivesTree
    BY DEF FinalityInv, HostInv, GuardedWhileAtWork, AtWork, Guarded, LeaseOutlivesTree
  <2>2. OneTreePerStart
    BY DEF FinalityInv, HostInv, BoundOnce, OneTreePerStart
  <2> QED  BY <2>1, <2>2 DEF TreeIsGuarded, FinalityInv, HostInv
<1> QED  BY <1>1, FinalityInvHolds, PTL

(* A durable FINAL receipt is true for good: the tree has ended and every    *)
(* lease is released with its receipt in the store.  An Attempt has one      *)
(* piece of finality Evidence however often it is reconciled, and when a     *)
(* receipt is returned nothing the Checkpoint names runs or is held.         *)
THEOREM FinalityIsProof == AttemptSpec => []AttemptFinalityIsSound
<1>1. FinalityInv => AttemptFinalityIsSound
  <2> SUFFICES ASSUME FinalityInv PROVE AttemptFinalityIsSound
    OBVIOUS
  <2>1. FinalReceiptIsProof
    BY DEF FinalityInv, HostInv, FinalSound, Gone, FinalReceiptIsProof
  <2>2. evidence = {} \/ evidence = {Payload}
    BY DEF FinalityInv, EvidenceSound
  <2>3. Cardinality(evidence) <= 1
    <3>1. CASE evidence = {}
      <4>1. Cardinality(evidence) = 0
        BY <3>1, FS_EmptySet
      <4> QED  BY <4>1
    <3>2. CASE evidence = {Payload}
      <4>1. Cardinality(evidence) = 1
        BY <3>2, FS_Singleton
      <4> QED  BY <4>1
    <3> QED  BY <2>2, <3>1, <3>2
  <2>4. finality # {} =>
          /\ \A r \in checkpoint.processes : ~Running(r)
          /\ \A l \in checkpoint.leases : lease[l].state # "ACTIVE"
    BY DEF FinalityInv, EvidenceSound, HostInv, FinalSound, ReleaseSound, Gone, Running
  <2> QED  BY <2>1, <2>3, <2>4 DEF AttemptFinalityIsSound, FinalityInv, EvidenceSound
<1> QED  BY <1>1, FinalityInvHolds, PTL
=============================================================================
