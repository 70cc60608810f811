---------------------------- MODULE ProcessHost ----------------------------
(***************************************************************************)
(* The managed process host (packages/execution/src/                       *)
(* managed-process-host.ts) over the lease manager and a process driver,   *)
(* with the receipt-persisting wrappers of packages/managed-change/src/    *)
(* attempt-finality-store.ts.                                              *)
(*                                                                         *)
(* A start request is bound durably before the driver is called; the       *)
(* sessions are kept in memory and die with the host.  Every await of      *)
(* start and of #finalize is a step, so calls of two hosts, crashes and    *)
(* lease operations interleave.  The driver is abstract here: what it      *)
(* reports is what module DriverContract lets the real ones report;        *)
(* cancellation and timeouts, which only change the cause of the end, are  *)
(* modelled there.                                                         *)
(***************************************************************************)
EXTENDS WriterLease

CONSTANTS Hosts,       \* host processes
          OwnerOf,     \* [Leases -> Owners]: on whose behalf a lease is asked for
          Requests,    \* start requests, one session and operation identity each
          LeasesOf,    \* [Requests -> SUBSET Leases]
          MaxCrashes   \* bound on host crashes

ASSUME HostAssumption ==
    /\ Requests = Bindings /\ MaxCrashes \in Nat
    /\ OwnerOf \in [Leases -> Owners]
    /\ LeasesOf \in [Requests -> SUBSET Leases]

VARIABLES up,           \* [Hosts -> BOOLEAN]
          call,         \* [Hosts -> [Requests -> stage of start()]]
          session,      \* [Requests -> the session, in the memory of its host]
          tree,         \* [Requests -> the process tree the operating system runs]
          spawns,       \* [Requests -> how often a tree was created for it]
          unpublished,  \* [Hosts -> leases released, receipt not yet in the store]
          finals,       \* durable final receipts of sessions
          releases,     \* durable release receipts of leases
          crashes

hostOnly == <<up, call, session, tree, spawns, unpublished, finals, releases, crashes>>
hostVars == <<leaseVars, hostOnly>>

NoSession == [host |-> Unbound, stage |-> "NONE", left |-> {}, at |-> 0]
NoReceipt == [finality |-> "NONE", at |-> 0]

HostInit ==
    /\ LeaseInit
    /\ up = [h \in Hosts |-> TRUE]
    /\ call = [h \in Hosts |-> [r \in Requests |-> "NONE"]]
    /\ session = [r \in Requests |-> NoSession]
    /\ tree = [r \in Requests |-> "NONE"]
    /\ spawns = [r \in Requests |-> 0]
    /\ unpublished = [h \in Hosts |-> {}]
    /\ finals = [r \in Requests |-> NoReceipt]
    /\ releases = [l \in Leases |-> NoReceipt]
    /\ crashes = 0

At(h, r, stage) == up[h] /\ call[h][r] = stage
Goto(h, r, stage) == call' = [call EXCEPT ![h][r] = stage]
InStage(h, r, stage) == up[h] /\ session[r].host = h /\ session[r].stage = stage
OwnerFor(r) == CHOOSE o \in Owners : \A l \in LeasesOf[r] : OwnerOf[l] = o
Running(r) == tree[r] \in {"LIVE", "LEFT"}

-----------------------------------------------------------------------------
(* The client side of the lease manager.                                    *)

(* What a correct owner adapter may answer: DEAD only of an owner for whom   *)
(* no host is at work and no tree runs; NOT_PROVEN is the production default.*)
AtWorkFor(o) ==
    \E r \in Requests : /\ \E l \in LeasesOf[r] : OwnerOf[l] = o
                        /\ \/ Running(r)
                           \/ session[r].stage # "NONE"
                           \/ \E h \in Hosts : call[h][r] # "NONE"
OwnerAnswer(o) == {"NOT_PROVEN", IF AtWorkFor(o) THEN "ALIVE" ELSE "DEAD"}

AcquireLease(h, l) ==
    /\ up[h]
    /\ \E answer \in [Owners -> Answers] :
          /\ \A o \in Owners : answer[o] \in OwnerAnswer(o)
          /\ Acquire(l, OwnerOf[l], answer)
    /\ UNCHANGED hostOnly

(* release() by the owner, outside a session.  The wrapped manager publishes *)
(* the receipt in a second step; a repeated call replays it.                 *)
ReleaseLease(h, l) ==
    /\ up[h]
    /\ \/ Release(l, OwnerOf[l], Unbound)
       \/ ReleaseReplays(l, OwnerOf[l], Unbound) /\ releases[l] = NoReceipt /\ UNCHANGED leaseVars
    /\ unpublished' = [unpublished EXCEPT ![h] = @ \cup {l}]
    /\ UNCHANGED <<up, call, session, tree, spawns, finals, releases, crashes>>

(* The store keeps the first receipt; the replayed one is equal to it.       *)
PublishRelease(h, l) ==
    /\ up[h] /\ l \in unpublished[h]
    /\ unpublished' = [unpublished EXCEPT ![h] = @ \ {l}]
    /\ releases' = [releases EXCEPT ![l] = [finality |-> "RELEASED", at |-> lease[l].observed]]
    /\ UNCHANGED <<leaseVars, up, call, session, tree, spawns, finals, crashes>>

-----------------------------------------------------------------------------
(* start()                                                                   *)

BindLeases_AcceptsReplay(h, r) ==
    /\ At(h, r, "NONE")
    /\ \/ Bind(r, OwnerFor(r), LeasesOf[r])
       \/ ReadState /\ Replays(BindOp(r), <<OwnerFor(r), LeasesOf[r]>>) /\ UNCHANGED leaseVars
    /\ Goto(h, r, "INSPECT")
    /\ UNCHANGED <<up, session, tree, spawns, unpublished, finals, releases, crashes>>
(* The session map is consulted first, but what decides is the durable       *)
(* reservation: a start whose operation is bound already, by this host or    *)
(* another, goes no further.                                                 *)
BindLeases(h, r) ==
    /\ At(h, r, "NONE")
    /\ Bind(r, OwnerFor(r), LeasesOf[r])
    /\ Goto(h, r, "INSPECT")
    /\ UNCHANGED <<up, session, tree, spawns, unpublished, finals, releases, crashes>>

(* An expired or unreadable lease fails the call and leaves the binding.     *)
InspectLeases(h, r) ==
    /\ At(h, r, "INSPECT")
    /\ Goto(h, r, IF /\ ReadState /\ AssertClock
                     /\ \A l \in LeasesOf[r] : /\ Status(l) = "ACTIVE"
                                               /\ lease[l].owner = OwnerOf[l]
                                               /\ lease[l].binding = r
                  THEN "SPAWN" ELSE "NONE")
    /\ UNCHANGED <<leaseVars, up, session, tree, spawns, unpublished, finals, releases, crashes>>

Spawned(r, how) ==
    /\ tree' = [tree EXCEPT ![r] = how]
    /\ spawns' = [spawns EXCEPT ![r] = @ + 1]
Opened(h, r, stage) ==
    session' = [session EXCEPT ![r] =
                  [NoSession EXCEPT !.host = h, !.stage = stage, !.left = LeasesOf[r]]]

DriverStarts(h, r) ==
    /\ At(h, r, "SPAWN")
    /\ Goto(h, r, "NONE")
    /\ Spawned(r, "LIVE")
    /\ Opened(h, r, "OPEN")
    /\ UNCHANGED <<leaseVars, up, unpublished, finals, releases, crashes>>

(* driver.start() rejects.  The target may have been spawned all the same:   *)
(* the Linux driver rejects when the helper dies after its ready line, and   *)
(* a target whose subreaper is gone runs on (LEFT).                          *)
DriverRejects(h, r) ==
    /\ At(h, r, "SPAWN")
    /\ Goto(h, r, "NONE")
    /\ Spawned(r, "LEFT") \/ UNCHANGED <<tree, spawns>>
    /\ Opened(h, r, "UNDO")
    /\ UNCHANGED <<leaseVars, up, unpublished, finals, releases, crashes>>

(* The leases of a failed start are released concurrently, errors ignored.   *)
UndoRelease(h, r) ==
    /\ InStage(h, r, "UNDO")
    /\ \/ session[r].left = {} /\ session' = [session EXCEPT ![r] = NoSession]
                               /\ UNCHANGED <<leaseVars, unpublished>>
       \/ \E l \in session[r].left :
            /\ session' = [session EXCEPT ![r].left = @ \ {l}]
            /\ \/ Release(l, OwnerOf[l], r) /\ unpublished' = [unpublished EXCEPT ![h] = @ \cup {l}]
               \/ ~CanRelease(l, OwnerOf[l], r) /\ UNCHANGED <<leaseVars, unpublished>>
    /\ UNCHANGED <<up, call, tree, spawns, finals, releases, crashes>>

-----------------------------------------------------------------------------
(* The end of the process tree                                              *)

(* The tree ends by itself, by a termination, or because its helper saw the  *)
(* host's pipe close.                                                        *)
TreeEnds(r) ==
    /\ Running(r)
    /\ tree' = [tree EXCEPT ![r] = "EMPTY"]
    /\ UNCHANGED <<leaseVars, up, call, session, spawns, unpublished, finals, releases, crashes>>

-----------------------------------------------------------------------------
(* awaitFinal(): #finalize, then the wrapper publishes the receipt.          *)

Conclude(r, verdict) ==
    session' = [session EXCEPT ![r].stage = verdict, ![r].at = now]

(* waitForSettlement() resolves: TERMINAL with the tree proven empty and the *)
(* streams closed, or UNRECONCILED, which may come at any time.              *)
Settle(h, r) ==
    /\ InStage(h, r, "OPEN")
    /\ \/ tree[r] = "EMPTY" /\ session' = [session EXCEPT ![r].stage = "RELEASING"]
       \/ Conclude(r, "NOT_PROVEN")
    /\ UNCHANGED <<leaseVars, up, call, tree, spawns, unpublished, finals, releases, crashes>>

FinalizeRelease_IgnoresFailure(h, r) ==
    /\ InStage(h, r, "RELEASING")
    /\ \/ session[r].left = {} /\ Conclude(r, "FINAL") /\ UNCHANGED <<leaseVars, unpublished>>
       \/ \E l \in session[r].left :
            /\ session' = [session EXCEPT ![r].left = @ \ {l}]
            /\ \/ Release(l, OwnerOf[l], r) /\ unpublished' = [unpublished EXCEPT ![h] = @ \cup {l}]
               \/ ~CanRelease(l, OwnerOf[l], r) /\ UNCHANGED <<leaseVars, unpublished>>
    /\ UNCHANGED <<up, call, tree, spawns, finals, releases, crashes>>
(* The leases are released one after the other, each with its receipt; the   *)
(* first that cannot be makes the receipt NOT_PROVEN, and the others stay.   *)
FinalizeRelease(h, r) ==
    /\ InStage(h, r, "RELEASING") /\ unpublished[h] \cap LeasesOf[r] = {}
    /\ \/ session[r].left = {} /\ Conclude(r, "FINAL") /\ UNCHANGED <<leaseVars, unpublished>>
       \/ \E l \in session[r].left :
            \/ /\ Release(l, OwnerOf[l], r)
               /\ unpublished' = [unpublished EXCEPT ![h] = @ \cup {l}]
               /\ session' = [session EXCEPT ![r].left = @ \ {l}]
            \/ ~CanRelease(l, OwnerOf[l], r) /\ Conclude(r, "NOT_PROVEN") /\ UNCHANGED <<leaseVars, unpublished>>
    /\ UNCHANGED <<up, call, tree, spawns, finals, releases, crashes>>

PublishFinal_OnlyFinal(h, r) ==
    /\ InStage(h, r, "FINAL") /\ finals[r] = NoReceipt
    /\ finals' = [finals EXCEPT ![r] = [finality |-> "FINAL", at |-> session[r].at]]
    /\ UNCHANGED <<leaseVars, up, call, session, tree, spawns, unpublished, releases, crashes>>
(* finalPromise is memoised, so every later awaitFinal() publishes the same  *)
(* receipt, and the store keeps the first.                                   *)
PublishFinal(h, r) ==
    /\ \E verdict \in {"FINAL", "NOT_PROVEN"} : InStage(h, r, verdict)
    /\ finals[r] = NoReceipt
    /\ finals' = [finals EXCEPT ![r] = [finality |-> session[r].stage, at |-> session[r].at]]
    /\ UNCHANGED <<leaseVars, up, call, session, tree, spawns, unpublished, releases, crashes>>

-----------------------------------------------------------------------------
(* A host dies: its calls and sessions are lost, a driver.start() under way  *)
(* may have spawned its target.                                              *)
HostCrash(h) ==
    /\ up[h] /\ crashes < MaxCrashes
    /\ crashes' = crashes + 1
    /\ up' = [up EXCEPT ![h] = FALSE]
    /\ call' = [call EXCEPT ![h] = [r \in Requests |-> "NONE"]]
    /\ session' = [r \in Requests |-> IF session[r].host = h THEN NoSession ELSE session[r]]
    /\ unpublished' = [unpublished EXCEPT ![h] = {}]
    /\ \E lost \in SUBSET {r \in Requests : call[h][r] = "SPAWN"} :
          /\ tree' = [r \in Requests |-> IF r \in lost THEN "LIVE" ELSE tree[r]]
          /\ spawns' = [r \in Requests |-> IF r \in lost THEN spawns[r] + 1 ELSE spawns[r]]
    /\ CrashMidCommit \/ UNCHANGED leaseVars
    /\ UNCHANGED <<finals, releases>>

HostRestart(h) ==
    /\ ~up[h]
    /\ up' = [up EXCEPT ![h] = TRUE]
    /\ Initialize
    /\ UNCHANGED <<call, session, tree, spawns, unpublished, finals, releases, crashes>>

Tick == ClockMoves /\ UNCHANGED hostOnly

HostStep(h) ==
    \/ \E l \in Leases : \/ AcquireLease(h, l) \/ ReleaseLease(h, l) \/ PublishRelease(h, l)
    \/ \E r \in Requests :
          \/ BindLeases(h, r) \/ InspectLeases(h, r)
          \/ DriverStarts(h, r) \/ DriverRejects(h, r) \/ UndoRelease(h, r)
          \/ Settle(h, r) \/ FinalizeRelease(h, r) \/ PublishFinal(h, r)
    \/ HostCrash(h) \/ HostRestart(h)
HostNext == (\E h \in Hosts : HostStep(h)) \/ (\E r \in Requests : TreeEnds(r)) \/ Tick
HostSpec == HostInit /\ [][HostNext]_hostVars
=============================================================================
