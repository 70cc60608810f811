--------------------------- MODULE PackageInstall ---------------------------
(***************************************************************************)
(* Inspection of a Pi package and what a session later activates of it     *)
(* (packages/pi-host pi-package-resolver.ts, plugin-activation.ts).  The   *)
(* tree of a LOCAL source is the user's directory; that of a GIT or NPM    *)
(* source is a private generation an install worker fills.  The inspection *)
(* reads the tree file by file and several times, and anybody may write a  *)
(* file between two reads, to an earlier content too.  LOCAL and GIT name  *)
(* the fingerprint of the tree, NPM only that of the downloaded archive.   *)
(* Inspections of a source run one at a time under its mutation lock.      *)
(* Contents stand for their digests.                                       *)
(***************************************************************************)
EXTENDS Naturals

CONSTANTS SourceKinds,       \* of {"LOCAL", "GIT", "NPM"}
          MaxPackageEdits,   \* bound: files written by others, snapshots damaged
          MaxInstallFaults   \* bound: failures, killed processes

VARIABLES sourceKind,    \* the kind of the source
          origin,        \* [TreeFiles -> content]: the tree that is inspected
          worker,        \* the install worker: "NONE", "RUNNING" or "EXITED"
          install,       \* the inspection that holds the lock
          snapshots,     \* published: set of [name, content, damaged]
          qualified,     \* manifests with runtime bindings: set of [name, resource]
          activated,     \* given to a session: set of [name, resource, content]
          packageEdits, installFaults

packageVars == <<sourceKind, origin, worker, install, snapshots, qualified, activated, packageEdits, installFaults>>

TreeFiles == {"code", "json"}       \* "code" is a resource of the manifest
Versions == {"absent", "good", "other"}
Trees == [TreeFiles -> Versions]
GoodTree == [f \in TreeFiles |-> "good"]
EmptyTree == [f \in TreeFiles |-> "absent"]

NoInstall == [pc |-> "IDLE", name |-> EmptyTree, resource |-> "absent",
              collected |-> EmptyTree, copy |-> EmptyTree]
PackageInit ==
    /\ sourceKind \in SourceKinds
    /\ origin = IF sourceKind = "LOCAL" THEN GoodTree ELSE EmptyTree
    /\ worker = "NONE" /\ install = NoInstall
    /\ snapshots = {} /\ qualified = {} /\ activated = {}
    /\ packageEdits = 0 /\ installFaults = 0

InstallAt(pc) == install.pc = pc
InstallTo(pc) == install' = [install EXCEPT !.pc = pc]
(* finally: the generation goes, and what is left of its worker with it.     *)
Leave ==
    /\ install' = NoInstall /\ worker' = "NONE"
    /\ origin' = IF sourceKind = "LOCAL" THEN origin ELSE EmptyTree
InstallFaulty == installFaults < MaxInstallFaults /\ installFaults' = installFaults + 1

-----------------------------------------------------------------------------
(* The tree of the source                                                    *)

BeginInspect ==
    /\ InstallAt("IDLE")
    /\ IF sourceKind = "LOCAL" THEN InstallTo("WALK code") /\ UNCHANGED worker
                         ELSE InstallTo("POLL") /\ worker' = "RUNNING"
    /\ UNCHANGED <<sourceKind, origin, snapshots, qualified, activated, packageEdits, installFaults>>
WorkerWrites(f) ==
    /\ worker = "RUNNING" /\ origin[f] # "good"
    /\ origin' = [origin EXCEPT ![f] = "good"]
    /\ UNCHANGED <<sourceKind, worker, install, snapshots, qualified, activated, packageEdits, installFaults>>
WorkerExits ==
    /\ worker = "RUNNING" /\ worker' = "EXITED"
    /\ UNCHANGED <<sourceKind, origin, install, snapshots, qualified, activated, packageEdits, installFaults>>
\* Mutant: the poll loop goes on while the worker is still at work.
InstallEnded_AnyPoll == worker # "NONE"
InstallEnded == worker = "EXITED"
(* The worker exited with success within the deadline and the budgets.       *)
InstallReturns ==
    /\ InstallAt("POLL") /\ InstallEnded /\ origin # EmptyTree
    /\ InstallTo("WALK code")
    /\ UNCHANGED <<sourceKind, origin, worker, snapshots, qualified, activated, packageEdits, installFaults>>
(* assertInstallFilesystemBudget and the deadline, looked at in every poll,  *)
(* and an exit with failure.                                                 *)
OverLimit ==
    /\ InstallAt("POLL") /\ InstallTo("TERMINATE")
    /\ UNCHANGED <<sourceKind, origin, worker, snapshots, qualified, activated, packageEdits, installFaults>>
(* Confirmed or not, the inspection ends; what is left of the worker is in a *)
(* generation no later inspection reads.                                     *)
TerminateWorker ==
    /\ InstallAt("TERMINATE") /\ Leave
    /\ UNCHANGED <<sourceKind, snapshots, qualified, activated, packageEdits, installFaults>>

(* fingerprintPiPackageDirectory: file by file, in the order of their names. *)
WalkCode ==
    /\ InstallAt("WALK code")
    /\ install' = [install EXCEPT !.pc = "WALK json", !.name["code"] = origin["code"]]
    /\ UNCHANGED <<sourceKind, origin, worker, snapshots, qualified, activated, packageEdits, installFaults>>
Pinned == sourceKind \in {"LOCAL", "GIT"}
WalkJson ==
    /\ InstallAt("WALK json")
    /\ LET name == [install.name EXCEPT !["json"] = origin["json"]] IN
       IF name = EmptyTree \/ (Pinned /\ name # GoodTree)
         THEN Leave
         ELSE install' = [install EXCEPT !.pc = "RESOURCE", !.name = name] /\ UNCHANGED <<origin, worker>>
    /\ UNCHANGED <<sourceKind, snapshots, qualified, activated, packageEdits, installFaults>>
(* The manifest: package.json must be there and the resource is read again.  *)
ReadResource ==
    /\ InstallAt("RESOURCE")
    /\ IF "absent" \in {origin["json"], origin["code"]}
         THEN Leave
         ELSE /\ install' = [install EXCEPT !.pc = "SNAPSHOT", !.resource = origin["code"]]
              /\ UNCHANGED <<origin, worker>>
    /\ UNCHANGED <<sourceKind, snapshots, qualified, activated, packageEdits, installFaults>>

-----------------------------------------------------------------------------
(* publishManagedPackageSnapshot                                             *)

Result == [name |-> install.name, resource |-> install.resource]
(* A snapshot of that name is kept if it is whole; the tree is not read.     *)
FindSnapshot ==
    /\ InstallAt("SNAPSHOT")
    /\ \/ /\ \E s \in snapshots : s.name = install.name /\ s.content = s.name
          /\ qualified' = qualified \cup {Result} /\ Leave
       \/ /\ \E s \in snapshots : s.name = install.name /\ s.content # s.name
          /\ Leave /\ UNCHANGED qualified
       \/ /\ \A s \in snapshots : s.name # install.name
          /\ InstallTo("COLLECT code") /\ UNCHANGED <<qualified, origin, worker>>
    /\ UNCHANGED <<sourceKind, snapshots, activated, packageEdits, installFaults>>
CollectEntry(f, pc) ==
    /\ InstallAt(pc)
    /\ install' = [install EXCEPT !.pc = IF f = "code" THEN "COLLECT json" ELSE "COPY code",
                                  !.collected[f] = origin[f]]
    /\ UNCHANGED <<sourceKind, origin, worker, snapshots, qualified, activated, packageEdits, installFaults>>
CopyEntry(f, pc) ==
    /\ InstallAt(pc)
    /\ IF origin[f] # install.collected[f]
         THEN Leave
         ELSE /\ install' = [install EXCEPT !.pc = IF f = "code" THEN "COPY json" ELSE "PUBLISH",
                                            !.copy[f] = origin[f]]
              /\ UNCHANGED <<origin, worker>>
    /\ UNCHANGED <<sourceKind, snapshots, qualified, activated, packageEdits, installFaults>>
\* Mutant: the files were compared while they were copied.
Preserved_ByEntry == install.copy = install.collected
(* The fingerprint of the copy is the one the manifest was made for.         *)
Preserved == install.copy = install.name
PublishSnapshot ==
    /\ InstallAt("PUBLISH")
    /\ IF Preserved
         THEN /\ snapshots' = snapshots \cup
                    {[name |-> install.name, content |-> install.copy, damaged |-> FALSE]}
              /\ qualified' = qualified \cup {Result}
         ELSE UNCHANGED <<snapshots, qualified>>
    /\ Leave
    /\ UNCHANGED <<sourceKind, activated, packageEdits, installFaults>>

InspectFails ==
    /\ install.pc # "IDLE" /\ InstallFaulty /\ Leave
    /\ UNCHANGED <<sourceKind, snapshots, qualified, activated, packageEdits>>

-----------------------------------------------------------------------------
(* A session activates a qualified package                                   *)

Verified(q, s) == s.name = q.name /\ s.content = q.name /\ s.content["code"] = q.resource
ActivatePackage(q) ==
    /\ \E s \in snapshots :
          /\ Verified(q, s)
          /\ activated' = activated \cup
                {[name |-> q.name, resource |-> q.resource, content |-> s.content]}
    /\ UNCHANGED <<sourceKind, origin, worker, install, snapshots, qualified, packageEdits, installFaults>>

(* The user at his directory, a process the worker left behind.              *)
EditOrigin(f, version) ==
    /\ packageEdits < MaxPackageEdits /\ packageEdits' = packageEdits + 1
    /\ sourceKind = "LOCAL" \/ install.pc # "IDLE"
    /\ origin[f] # version /\ origin' = [origin EXCEPT ![f] = version]
    /\ UNCHANGED <<sourceKind, worker, install, snapshots, qualified, activated, installFaults>>
DamageSnapshot(s) ==
    /\ packageEdits < MaxPackageEdits /\ packageEdits' = packageEdits + 1
    /\ snapshots' = (snapshots \ {s}) \cup {[s EXCEPT !.damaged = TRUE, !.content["code"] = "absent"]}
    /\ UNCHANGED <<sourceKind, origin, worker, install, qualified, activated, installFaults>>

PackageNext ==
    \/ BeginInspect \/ WorkerExits \/ InstallReturns \/ OverLimit \/ TerminateWorker \/ WalkCode \/ WalkJson \/ ReadResource
    \/ FindSnapshot \/ PublishSnapshot \/ InspectFails
    \/ CollectEntry("code", "COLLECT code") \/ CollectEntry("json", "COLLECT json")
    \/ CopyEntry("code", "COPY code") \/ CopyEntry("json", "COPY json")
    \/ \E f \in TreeFiles : WorkerWrites(f) \/ \E v \in Versions : EditOrigin(f, v)
    \/ \E q \in qualified : ActivatePackage(q)
    \/ \E s \in snapshots : DamageSnapshot(s)
PackageSpec == PackageInit /\ [][PackageNext]_packageVars

-----------------------------------------------------------------------------
(* What a session gets is one tree, although the tree was read four times    *)
(* while others wrote it: a published snapshot holds what its name says      *)
(* unless it was damaged later, the source's own fingerprint where it has    *)
(* one, the files of an install that had ended, and a resource is only       *)
(* activated as the file of that tree (inspect,                              *)
(* publishManagedPackageSnapshot, prepareQualifiedPiPluginActivation).       *)
OneTreeIsActivated ==
    /\ \A s \in snapshots : ~s.damaged => s.content = s.name
    /\ Pinned => \A s \in snapshots : s.name = GoodTree
    /\ \A s, other \in snapshots : s.name = other.name => s = other
    /\ \A a \in activated : a.content = a.name /\ a.resource = a.name["code"]
    /\ worker = "RUNNING" => install.pc \in {"POLL", "TERMINATE"}
=============================================================================
