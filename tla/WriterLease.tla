---------------------------- MODULE WriterLease ----------------------------
(***************************************************************************)
(* The file lease manager (packages/execution/src/file-lease-manager.ts).  *)
(* Every operation runs inside the durable mutation lock and publishes one *)
(* immutable transaction file by rename, so an operation is one step here  *)
(* (module MutationLock models the lock).  What is not atomic is a crash   *)
(* before the rename: it leaves a pending file, and until some manager is  *)
(* created again every operation of every process refuses the store.       *)
(*                                                                         *)
(* A lease's history is represented by its latest record; a transaction by *)
(* its operation, the request it is bound to and its receipt.  Of a        *)
(* record's observedAt only the release's is kept: nothing reads another.  *)
(***************************************************************************)
EXTENDS Integers, FiniteSets

CONSTANTS Leases,           \* lease identities
          Owners,           \* owner fingerprints
          Workspace,        \* [Leases -> workspace], what a request for it names
          Resources,        \* [Leases -> SUBSET resource]
          Bindings,         \* process reservations a lease can be bound to
          Unbound,          \* bindingFingerprint null
          Ttl,              \* the ttlMs of an acquisition, in clock units
          RenewTtl,         \* the ttlMs of a renewal
          MaxTime           \* bound: the clock takes the values 0..MaxTime

ASSUME LeaseAssumption ==
    /\ Ttl \in Nat \ {0} /\ RenewTtl \in Nat \ {0}
    /\ MaxTime \in Nat
    /\ Unbound \notin Bindings

Times == 0 .. MaxTime
Answers == {"ALIVE", "DEAD", "NOT_PROVEN"}

(* An operation identity: what the caller derives it from. *)
LeaseOperations ==
    [action : {"ACQUIRE"}, lease : Leases, by : Owners]
        \cup [action : {"RENEW", "RELEASE"}, lease : Leases]
        \cup [action : {"BIND"}, binding : Bindings]

NoLease == [state |-> "NONE", owner |-> Unbound, binding |-> Unbound, expires |-> 0,
            observed |-> 0]

VARIABLES lease,      \* [Leases -> latest record of the lease's history]
          ops,        \* committed transactions: operation -> [request, outcome]
          latest,     \* the latest observedAt among them
          now,        \* the clock the managers read; it can be set back
          pending     \* a crash left a pending transaction file behind

leaseVars == <<lease, ops, latest, now, pending>>

LeaseInit ==
    /\ lease = [l \in Leases |-> NoLease]
    /\ ops = [o \in {} |-> NoLease]
    /\ latest = 0
    /\ now = 0
    /\ pending = FALSE

Committed(op) == op \in DOMAIN ops

(* #readState succeeds; the clock has not moved behind committed state. *)
ReadState == ~pending
AssertClock == now >= latest

(* The operation is already committed with the same request. *)
Replays(op, request) == Committed(op) /\ ops[op].request = request

Commit(op, request, outcome, records) ==
    /\ ops' = [o \in DOMAIN ops \cup {op} |->
                 IF o = op THEN [request |-> request, outcome |-> outcome] ELSE ops[o]]
    /\ latest' = now
    /\ lease' = [l \in Leases |->
                   IF l \in DOMAIN records THEN records[l] ELSE lease[l]]
    /\ UNCHANGED <<now, pending>>

-----------------------------------------------------------------------------
(* acquire *)

Expired(l) == lease[l].expires <= now
Conflicts_UnexpiredOnly(l) ==
    {k \in Leases : /\ lease[k].state = "ACTIVE" /\ ~Expired(k)
                    /\ \/ Workspace[k] = Workspace[l]
                       \/ Resources[k] \cap Resources[l] # {}}
Conflicts(l) ==
    {k \in Leases : /\ lease[k].state = "ACTIVE"
                    /\ \/ Workspace[k] = Workspace[l]
                       \/ Resources[k] \cap Resources[l] # {}}

BlockReason(l, answer) ==
    IF lease[l].state # "NONE" THEN "LEASE_ID_CONFLICT"
    ELSE IF \E k \in Conflicts(l) : ~Expired(k) THEN "CONFLICT"
    ELSE IF \E k \in Conflicts(l) : answer[lease[k].owner] # "DEAD" THEN "OWNER_NOT_DEAD"
    ELSE "NONE"

Fresh(l, o) == [state |-> "ACTIVE", owner |-> o, binding |-> Unbound, expires |-> now + Ttl,
                observed |-> 0]

(* One owner asks for a lease; answer is what reconcileOwner says of the   *)
(* owners of expired conflicting leases.  All dead owners' leases are      *)
(* revoked and the new lease created by the one transaction.               *)
Acquire(l, o, answer) ==
    LET op == [action |-> "ACQUIRE", lease |-> l, by |-> o]
        why == BlockReason(l, answer)
    IN  /\ ReadState /\ ~Committed(op) /\ AssertClock
        /\ IF why = "NONE"
           THEN Commit(op, o, "ACQUIRED",
                  [k \in Conflicts(l) \cup {l} |->
                     IF k = l THEN Fresh(l, o)
                     ELSE [lease[k] EXCEPT !.state = "REVOKED", !.binding = Unbound]])
           ELSE Commit(op, o, why, [k \in {} |-> NoLease])

-----------------------------------------------------------------------------
(* renew, bind, release *)

RequireOwnedActive(l, o) == lease[l].state = "ACTIVE" /\ lease[l].owner = o

CanRenew(l, o) ==
    /\ ReadState /\ AssertClock
    /\ ~Committed([action |-> "RENEW", lease |-> l])
    /\ RequireOwnedActive(l, o)
    /\ ~Expired(l)
    /\ now + RenewTtl > lease[l].expires
Renew(l, o) ==
    /\ CanRenew(l, o)
    /\ Commit([action |-> "RENEW", lease |-> l], o, "RENEWED",
              [k \in {l} |-> [lease[l] EXCEPT !.expires = now + RenewTtl]])

BindOp(b) == [action |-> "BIND", binding |-> b]
CanBind(b, o, set) ==
    /\ ReadState /\ AssertClock
    /\ ~Committed(BindOp(b))
    /\ \A l \in set : /\ RequireOwnedActive(l, o)
                      /\ ~Expired(l)
                      /\ lease[l].binding = Unbound
Bind(b, o, set) ==
    /\ CanBind(b, o, set)
    /\ Commit(BindOp(b), <<o, set>>, "BOUND", [l \in set |-> [lease[l] EXCEPT !.binding = b]])

ReleaseOp(l) == [action |-> "RELEASE", lease |-> l]
CanRelease_AnyBinding(l, o, b) ==
    /\ ReadState /\ AssertClock
    /\ ~Committed(ReleaseOp(l))
    /\ RequireOwnedActive(l, o)
CanRelease(l, o, b) ==
    /\ ReadState /\ AssertClock
    /\ ~Committed(ReleaseOp(l))
    /\ RequireOwnedActive(l, o)
    /\ lease[l].binding = b
Release(l, o, b) ==
    /\ CanRelease(l, o, b)
    /\ Commit(ReleaseOp(l), <<o, b>>, "RELEASED",
              [k \in {l} |-> [lease[l] EXCEPT !.state = "RELEASED", !.binding = Unbound, !.observed = now]])
(* The operation is committed already: the stored receipt is the answer. *)
ReleaseReplays(l, o, b) == ReadState /\ Replays(ReleaseOp(l), <<o, b>>)

(* inspect *)
Status(l) == IF lease[l].state = "ACTIVE" /\ Expired(l) THEN "EXPIRED" ELSE lease[l].state

-----------------------------------------------------------------------------
(* A process dies between opening the pending file and renaming it; the    *)
(* next manager that is created discards the file.                         *)
CrashMidCommit ==
    /\ pending' = TRUE
    /\ UNCHANGED <<lease, ops, latest, now>>
Initialize ==
    /\ pending' = FALSE
    /\ UNCHANGED <<lease, ops, latest, now>>

(* The system clock moves, in either direction. *)
ClockMoves ==
    /\ now' \in {now - 1, now + 1} \cap Times
    /\ UNCHANGED <<lease, ops, latest, pending>>

LeaseNext ==
    \/ \E l \in Leases, o \in Owners :
          \/ \E answer \in [Owners -> Answers] : Acquire(l, o, answer)
          \/ Renew(l, o)
          \/ \E b \in Bindings \cup {Unbound} : Release(l, o, b)
    \/ \E b \in Bindings, o \in Owners, set \in SUBSET Leases : Bind(b, o, set)
    \/ CrashMidCommit \/ Initialize \/ ClockMoves

LeaseSpec == LeaseInit /\ [][LeaseNext]_leaseVars

-----------------------------------------------------------------------------
(* No two leases that are active, expired or not, claim the same workspace *)
(* or a common resource: an expired writer is overwritten only by revoking *)
(* it in the transaction that creates the new one (acquire, lines 289-370).*)
OneWriterPerWorkspace ==
    \A k, l \in Leases :
        k # l /\ lease[k].state = "ACTIVE" /\ lease[l].state = "ACTIVE"
            => Workspace[k] # Workspace[l] /\ Resources[k] \cap Resources[l] = {}
=============================================================================
