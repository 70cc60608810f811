-------------------------- MODULE AttemptFinality --------------------------
(***************************************************************************)
(* The Attempt-finality adapter (packages/managed-change/src/              *)
(* attempt-finality-adapter.ts): from an interrupted Attempt's Checkpoint  *)
(* and the durable receipts of its processes and leases it derives the     *)
(* finality Evidence and receipt that recovery is built on.                *)
(***************************************************************************)
EXTENDS ProcessHost

VARIABLES checkpoint,  \* the Attempt's Checkpoint, or not taken yet
          evidence,    \* captured finality Evidence: one per distinct payload
          finality     \* finality receipts returned to recovery

attemptVars == <<hostVars, checkpoint, evidence, finality>>

NoCheckpoint == [taken |-> FALSE, at |-> 0, processes |-> {}, leases |-> {}]

AttemptInit ==
    /\ HostInit
    /\ checkpoint = NoCheckpoint
    /\ evidence = {}
    /\ finality = {}

Held == UNION {LeasesOf[r] : r \in {q \in Requests : session[q].stage = "OPEN"}}

(* The Checkpoint names the sessions and the leases the Attempt holds.       *)
TakeCheckpoint ==
    /\ ~checkpoint.taken
    /\ \E r \in Requests : session[r].stage = "OPEN"
    /\ checkpoint' = [taken |-> TRUE, at |-> now,
                      processes |-> {r \in Requests : session[r].stage = "OPEN"},
                      leases |-> {l \in Held : lease[l].state = "ACTIVE"}]
    /\ UNCHANGED <<hostVars, evidence, finality>>

FreshProcess(r) == finals[r].finality = "FINAL" /\ finals[r].at >= checkpoint.at
FreshLease(l) == releases[l] # NoReceipt /\ releases[l].at >= checkpoint.at

Payload_ObservedNow == [processes |-> [r \in checkpoint.processes |-> finals[r]],
                        leases |-> [l \in checkpoint.leases |-> releases[l]],
                        observed |-> now]
(* The payload: its identity is the digest of the receipts it holds.         *)
Payload == [processes |-> [r \in checkpoint.processes |-> finals[r]],
            leases |-> [l \in checkpoint.leases |-> releases[l]]]

ReconcileAttemptFinality ==
    /\ checkpoint.taken
    /\ \A r \in checkpoint.processes : FreshProcess(r)
    /\ \A l \in checkpoint.leases : FreshLease(l)
    /\ evidence' = evidence \cup {Payload}
    /\ finality' = finality \cup {Payload} \/ UNCHANGED finality  \* died before returning
    /\ UNCHANGED <<hostVars, checkpoint>>

AttemptNext ==
    \/ HostNext /\ UNCHANGED <<checkpoint, evidence, finality>>
    \/ TakeCheckpoint
    \/ ReconcileAttemptFinality

(* An awaited call of a live host makes progress; a tree whose helper sees   *)
(* its pipe closed or its deadline pass is killed.  Nothing is assumed of    *)
(* crashes, restarts, the clock, or of calls nobody makes.                   *)
Progress(h, r) ==
    /\ \/ Settle(h, r) \/ FinalizeRelease(h, r) \/ PublishFinal(h, r)
       \/ \E l \in Leases : PublishRelease(h, l)
    /\ UNCHANGED <<checkpoint, evidence, finality>>
AttemptSpec ==
    /\ AttemptInit /\ [][AttemptNext]_attemptVars
    /\ \A h \in Hosts, r \in Requests : WF_attemptVars(Progress(h, r))

-----------------------------------------------------------------------------
(* While the tree of a started request runs, or its host is unaware of its   *)
(* end, the leases it was started under stay with it: no release, no         *)
(* revocation, no second binding (start, #finalize, and acquire's revocation *)
(* of expired leases).                                                       *)
LeaseOutlivesTree ==
    \A r \in Requests : tree[r] = "LIVE" =>
        \A l \in LeasesOf[r] : lease[l].state = "ACTIVE" /\ lease[l].binding = r

(* One start operation never runs two trees, whichever hosts are asked, and  *)
(* however often they crash and are asked again.                             *)
OneTreePerStart == \A r \in Requests : spawns[r] <= 1

(* One tree writes to a workspace, under leases nobody else gets while it    *)
(* runs (LocalFileWriterLeaseManager, ManagedProcessHost).                   *)
TreeIsGuarded == OneWriterPerWorkspace /\ LeaseOutlivesTree /\ OneTreePerStart

(* A durable FINAL receipt proves what it says of the world: the tree is     *)
(* gone, each lease is released and its own receipt is in the store.         *)
FinalReceiptIsProof ==
    \A r \in Requests : finals[r].finality = "FINAL" =>
        /\ tree[r] = "EMPTY"
        /\ \A l \in LeasesOf[r] : /\ lease[l].state = "RELEASED"
                                  /\ releases[l] # NoReceipt

(* An Attempt is final only when nothing it held is left, and reconciling it *)
(* again, after a crash in between, yields the same Evidence.                *)
AttemptFinalityIsSound ==
    /\ FinalReceiptIsProof
    /\ Cardinality(evidence) <= 1 /\ finality \subseteq evidence
    /\ finality # {} =>
          /\ \A r \in checkpoint.processes : ~Running(r)
          /\ \A l \in checkpoint.leases : lease[l].state # "ACTIVE"

(* A session a live host holds is finalised: its receipt becomes durable,    *)
(* or the host dies first.                                                   *)
SessionsAreFinalised ==
    \A h \in Hosts, r \in Requests :
        InStage(h, r, "OPEN") ~> (finals[r] # NoReceipt \/ ~up[h])
=============================================================================
