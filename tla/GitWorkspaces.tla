---------------------------- MODULE GitWorkspaces ---------------------------
(***************************************************************************)
(* LocalGitWorkspaceManager (packages/workspace): worktrees of its own on  *)
(* branches of their own.  prepare and dispose are asynchronous and share  *)
(* one directory and one branch per workspace: every await lets another    *)
(* operation, or the Agent in the worktree, go on.  git itself refuses to  *)
(* remove a worktree with changed or untracked files and to delete an      *)
(* unmerged branch; it does not protect ignored files.                     *)
(*                                                                         *)
(* The module is about one workspace identity, which may be prepared       *)
(* again after it was disposed of.                                         *)
(***************************************************************************)
EXTENDS Naturals

CONSTANTS Prepares,    \* prepare operations
          Disposals    \* dispose operations

VARIABLES tree,        \* the worktree and its branch, as git has them
          owned,       \* #workspaces: the prepare operation, or "NONE"
          preparing,   \* [Prepares -> local state of prepare]
          disposing,   \* [Disposals -> local state of dispose]
          removals,    \* what removals of the worktree took with them
          alone        \* preparations with a commit that only their own branch reaches

workspaceVars == <<tree, owned, preparing, disposing, removals, alone>>

NoTree == [dir |-> FALSE, branch |-> FALSE, by |-> "NONE", dirty |-> FALSE,
           ignored |-> FALSE, commits |-> FALSE, upstream |-> FALSE]

WorkspaceInit ==
    /\ tree = NoTree /\ owned = "NONE"
    /\ preparing = [p \in Prepares |-> [pc |-> "START", created |-> FALSE]]
    /\ disposing = [d \in Disposals |-> [pc |-> "START", of |-> "NONE", removesBranch |-> FALSE,
                                         ignored |-> FALSE]]
    /\ removals = {} /\ alone = {}

Clean == ~tree.dirty /\ ~tree.ignored /\ ~tree.commits
(* git worktree remove, and the directory and registration go together.      *)
GitRemoves == tree.dir /\ ~tree.dirty
BranchOnly == [NoTree EXCEPT !.branch = TRUE, !.by = tree.by,
                             !.commits = tree.commits, !.upstream = tree.upstream]
(* git branch --delete: a branch that is checked out or not merged stays.    *)
Merged == ~tree.commits \/ tree.upstream
\* Mutant: the branch is deleted with -D.
BranchDeletes_Forced == tree.branch /\ ~tree.dir
BranchDeletes == tree.branch /\ ~tree.dir /\ Merged
Took(kind, who, seen) ==
    removals' = removals \cup {[kind |-> kind, who |-> who, from |-> tree.by, seenIgnored |-> seen]}

-----------------------------------------------------------------------------
(* prepare                                                                   *)

PrepareTo(p, pc) == preparing' = [preparing EXCEPT ![p].pc = pc]

DestinationFree(p) ==
    /\ preparing[p].pc = "START"
    /\ PrepareTo(p, IF tree.dir THEN "FAILED" ELSE "FREE")
    /\ UNCHANGED <<tree, owned, disposing, removals, alone>>
CreateWorktree(p) ==
    /\ preparing[p].pc = "FREE"
    /\ \/ /\ ~tree.branch /\ ~tree.dir
          /\ tree' = [NoTree EXCEPT !.dir = TRUE, !.branch = TRUE, !.by = p]
          /\ owned' = p
          /\ preparing' = [preparing EXCEPT ![p] = [pc |-> "CREATED", created |-> TRUE]]
       \/ /\ ~tree.branch /\ ~tree.dir      \* git worktree add fails
          /\ tree' = [NoTree EXCEPT !.branch = TRUE, !.by = p]
          /\ preparing' = [preparing EXCEPT ![p] = [pc |-> "BROKEN", created |-> TRUE]]
          /\ UNCHANGED owned
       \/ tree.branch /\ PrepareTo(p, "BROKEN") /\ UNCHANGED <<tree, owned>>
    /\ UNCHANGED <<disposing, removals, alone>>
(* The checks of the new worktree and of the source checkout.                *)
CheckCreated(p) ==
    /\ preparing[p].pc = "CREATED"
    /\ \/ tree.dir /\ Clean /\ owned' = p /\ PrepareTo(p, "DONE")
       \/ PrepareTo(p, "BROKEN") /\ UNCHANGED owned
    /\ UNCHANGED <<tree, disposing, removals, alone>>

\* Mutant: whatever is at the destination is taken back.
MayCompensate_Always(p) == TRUE
MayCompensate(p) == preparing[p].created
(* No registration left, or a worktree that is as it was made.               *)
CompensateFailedPrepare(p) ==
    /\ preparing[p].pc = "BROKEN"
    /\ PrepareTo(p, IF ~MayCompensate(p) \/ (tree.dir /\ ~Clean) THEN "FAILED"
                    ELSE IF tree.dir THEN "CLEAN" ELSE "BARE")
    /\ UNCHANGED <<tree, owned, disposing, removals, alone>>
RemoveFailedTree(p) ==
    /\ preparing[p].pc = "CLEAN"
    /\ IF GitRemoves
         THEN tree' = BranchOnly /\ Took("PREPARE", p, FALSE) /\ PrepareTo(p, "CLEARED")
         ELSE PrepareTo(p, "FAILED") /\ UNCHANGED <<tree, removals>>
    /\ UNCHANGED <<owned, disposing, alone>>
(* A branch that left its base, or that git keeps, stays with its record.    *)
DropFailedBranch(p) ==
    /\ preparing[p].pc \in {"CLEARED", "BARE"}
    /\ \/ BranchDeletes /\ ~tree.commits /\ tree' = NoTree /\ PrepareTo(p, "DROPPED")
       \/ ~tree.branch /\ preparing[p].pc = "BARE" /\ PrepareTo(p, "DROPPED") /\ UNCHANGED tree
       \/ PrepareTo(p, "FAILED") /\ UNCHANGED tree
    /\ UNCHANGED <<owned, disposing, removals, alone>>
(* The record goes if nothing is at the destination by then.                 *)
ForgetFailed(p) ==
    /\ preparing[p].pc = "DROPPED"
    /\ PrepareTo(p, "FAILED")
    /\ \/ owned' = "NONE"
       \/ tree.dir /\ UNCHANGED owned
    /\ UNCHANGED <<tree, disposing, removals, alone>>

-----------------------------------------------------------------------------
(* inspect and dispose                                                       *)

DisposeTo(d, pc) == disposing' = [disposing EXCEPT ![d].pc = pc]

(* The request names the preparation by its fingerprint.                     *)
DisposeBegins(d, p) ==
    /\ disposing[d].pc = "START" /\ preparing[p].pc = "DONE"
    /\ disposing' = [disposing EXCEPT
          ![d].pc = IF owned = p /\ tree.dir THEN "CHECKED" ELSE "BLOCKED", ![d].of = p]
    /\ UNCHANGED <<tree, owned, preparing, removals, alone>>

(* inspect: no reason code.                                                  *)
Removable == ~tree.dirty /\ ~tree.ignored /\ (tree.commits => tree.upstream)
(* The branch goes with the worktree only if it has no commit of its own.    *)
InspectForDisposal(d) ==
    /\ disposing[d].pc = "CHECKED"
    /\ disposing' = [disposing EXCEPT
          ![d] = [@ EXCEPT !.pc = IF owned # "NONE" /\ tree.dir /\ Removable THEN "REMOVABLE" ELSE "BLOCKED",
                           !.removesBranch = ~tree.commits, !.ignored = tree.ignored]]
    /\ UNCHANGED <<tree, owned, preparing, removals, alone>>
RemoveWorktree(d) ==
    /\ disposing[d].pc = "REMOVABLE"
    /\ IF GitRemoves
         THEN /\ tree' = BranchOnly
              /\ Took("DISPOSE", d, disposing[d].ignored)
              /\ DisposeTo(d, "REMOVED")
         ELSE DisposeTo(d, "AMBIGUOUS") /\ UNCHANGED <<tree, removals>>
    /\ UNCHANGED <<owned, preparing, alone>>
(* The directory is looked for once more; a branch that had no commit of its *)
(* own when it was inspected goes, if git lets it, and any other must be     *)
(* there.                                                                    *)
RemoveBranch(d) ==
    /\ disposing[d].pc = "REMOVED"
    /\ \/ tree.dir /\ DisposeTo(d, "AMBIGUOUS") /\ UNCHANGED tree
       \/ /\ disposing[d].removesBranch
          /\ \/ BranchDeletes /\ tree' = NoTree /\ DisposeTo(d, "SETTLED")
             \/ DisposeTo(d, "FAILED") /\ UNCHANGED tree
       \/ /\ ~disposing[d].removesBranch
          /\ DisposeTo(d, IF tree.branch THEN "SETTLED" ELSE "FAILED") /\ UNCHANGED tree
    /\ UNCHANGED <<owned, preparing, removals, alone>>
(* After the second snapshot of the source checkout: whatever record the     *)
(* identity has by then is deleted, unless the checkout changed.             *)
Forget(d) ==
    /\ disposing[d].pc = "SETTLED"
    /\ \/ owned' = "NONE" /\ DisposeTo(d, "APPLIED")
       \/ DisposeTo(d, "FAILED") /\ UNCHANGED owned
    /\ UNCHANGED <<tree, preparing, removals, alone>>

-----------------------------------------------------------------------------
(* The Agent in a worktree that was handed out                               *)

AgentWorks ==
    /\ tree.dir /\ \E p \in Prepares : preparing[p].pc = "DONE" /\ tree.by = p
    /\ \/ /\ \/ tree' = [tree EXCEPT !.dirty = TRUE]
             \/ tree' = [tree EXCEPT !.ignored = TRUE]
          /\ UNCHANGED alone
       \/ /\ tree.dirty
          /\ tree' = [tree EXCEPT !.dirty = FALSE, !.commits = TRUE, !.upstream = FALSE]
          /\ alone' = alone \cup {tree.by}
       \/ /\ tree.commits
          /\ tree' = [tree EXCEPT !.upstream = TRUE]
          /\ alone' = alone \ {tree.by}
    /\ UNCHANGED <<owned, preparing, disposing, removals>>

WorkspaceNext ==
    \/ \E p \in Prepares : \/ DestinationFree(p) \/ CreateWorktree(p)
                           \/ CheckCreated(p) \/ CompensateFailedPrepare(p)
                           \/ RemoveFailedTree(p) \/ DropFailedBranch(p) \/ ForgetFailed(p)
    \/ \E d \in Disposals : \/ \E p \in Prepares : DisposeBegins(d, p)
                            \/ InspectForDisposal(d) \/ RemoveWorktree(d) \/ RemoveBranch(d) \/ Forget(d)
    \/ AgentWorks
WorkspaceSpec == WorkspaceInit /\ [][WorkspaceNext]_workspaceVars

-----------------------------------------------------------------------------
(* A disposal that began for one preparation and removed the worktree of a   *)
(* later one: it compares the fingerprint of the preparation before it       *)
(* awaits, and inspects whatever the identity names afterwards.              *)
TookAnother(r) == r.kind = "DISPOSE" /\ r.from # disposing[r.who].of
Strayed == \E r \in removals : TookAnother(r)

(* A delayed cleanup does not delete a newer generation of its workspace     *)
(* (test git-workspace-manager.test.ts:783).  Of two disposals that run at   *)
(* the same time it does.                                                    *)
CleanupKeepsNewGeneration == ~Strayed

(* No work is lost to the manager, whatever runs at the same time: unless a  *)
(* disposal has strayed, a prepare that fails takes back its own worktree    *)
(* only; a disposal takes no ignored file that was there when it inspected;  *)
(* and a commit that nothing else reaches keeps its branch, even one made    *)
(* between the inspection that found none and the removal (prepare,          *)
(* #compensateFailedPrepare, inspect, dispose).                              *)
WorkIsKept ==
    /\ \A r \in removals : /\ r.kind = "PREPARE" => r.from = r.who \/ Strayed
                           /\ ~r.seenIgnored
    /\ \A p \in alone : tree.branch /\ tree.by = p
=============================================================================
