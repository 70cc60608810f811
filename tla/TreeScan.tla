----------------------------- MODULE TreeScan -----------------------------
(***************************************************************************)
(* The Linux helper's scan of the process tree it owns                     *)
(* (packages/execution/src/posix-process-group-helper-source.ts).  /proc   *)
(* cannot be read atomically: a list of children is read, then the state   *)
(* of each of them, while the processes fork and exit, and a process whose *)
(* parent exits becomes a child of the helper, the subreaper.  A complete  *)
(* scan is a list of the helper's children, a walk of all descendants and  *)
(* a second list; two complete empty scans in a row are the verdict EMPTY. *)
(***************************************************************************)
EXTENDS Integers, FiniteSets

CONSTANT MaxLive      \* bound: processes that live at a time (identities are reused)

ASSUME ScanAssumption == MaxLive \in Nat \ {0}

Procs == 1 .. MaxLive
Helper == 0            \* the parent of the target and of every orphan

VARIABLES life,     \* [Procs -> "LIVE", "ZOMBIE" (exited, seen as such) or "GONE"]
          parent,   \* [Procs -> Procs \cup {Helper}]
          pass,     \* "BEFORE", "WALK" or "AFTER": the part of the scan under way
          listed,   \* children read from a list, their states not read yet
          reading,  \* the process whose list they come from
          walk,     \* processes found by the walk, their lists not read yet
          found,   \* this scan has found something
          empties,  \* consecutiveCompleteEmptyScans
          dodges    \* processes that exited between their list and their stat,
                    \* since the candidate for EMPTY began (at most Lists are counted)

scanVars == <<life, parent, pass, listed, reading, walk, found, empties, dodges>>
treeVars == <<life, parent, dodges>>

Lists == 6           \* lists two complete scans of a single process read

Nobody == -1

ScanInit ==
    /\ life = [q \in Procs |-> IF q = 1 THEN "LIVE" ELSE "GONE"]
    /\ parent = [q \in Procs |-> Helper]
    /\ pass = "BEFORE" /\ reading = Nobody
    /\ listed = {} /\ walk = {}
    /\ found = FALSE /\ empties = 0 /\ dodges = 0

Alive == {q \in Procs : life[q] = "LIVE"}
ChildrenOf(q) == {c \in Alive : parent[c] = q}

-----------------------------------------------------------------------------
(* The processes                                                             *)

(* The scan holds q's identity and has yet to read its stat or its list.     *)
Held(q) == q \in listed \cup walk \cup {reading}

Fork(q) ==
    /\ life[q] = "LIVE"
    /\ \E c \in Procs : /\ life[c] # "LIVE" /\ ~Held(c)
                        /\ life' = [life EXCEPT ![c] = "LIVE"]
                        /\ parent' = [parent EXCEPT ![c] = q]
    /\ UNCHANGED <<dodges, pass, listed, reading, walk, found, empties>>

(* Its children become the helper's.  Whether it is reaped at once matters   *)
(* to the scan only while its stat is still to be read.                      *)
Exit(q, how) ==
    /\ life[q] = "LIVE" /\ (how = "ZOMBIE" => q \in listed)
    /\ life' = [life EXCEPT ![q] = how]
    /\ parent' = [c \in Procs |-> IF c = q \/ parent[c] = q THEN Helper ELSE parent[c]]
    /\ dodges' = IF q \in listed /\ dodges < Lists THEN dodges + 1 ELSE dodges
    /\ UNCHANGED <<pass, listed, reading, walk, found, empties>>

-----------------------------------------------------------------------------
(* readDirectLiveChildPids and readLiveChildIdentities: read one list, then  *)
(* the stat of every process on it.                                          *)

ListDirect ==
    /\ pass \in {"BEFORE", "AFTER"} /\ reading = Nobody
    /\ reading' = Helper /\ listed' = ChildrenOf(Helper)
    /\ dodges' = IF pass = "BEFORE" /\ empties = 0 THEN 0 ELSE dodges
    /\ UNCHANGED <<life, parent, pass, walk, found, empties>>

(* A child that vanished while it was looked at counts as found.             *)
SeenDirect(q) == life[q] # "ZOMBIE"
CheckDirect(q) ==
    /\ pass \in {"BEFORE", "AFTER"} /\ q \in listed
    /\ listed' = listed \ {q}
    /\ found' = (found \/ SeenDirect(q))
    /\ UNCHANGED <<treeVars, pass, reading, walk, empties>>

ListWalk ==
    /\ pass = "WALK" /\ reading = Nobody
    /\ \E q \in walk : /\ reading' = q /\ walk' = walk \ {q}
                       /\ listed' = ChildrenOf(q)
    /\ UNCHANGED <<treeVars, pass, found, empties>>

SeenWalking(q) == life[q] = "LIVE" /\ parent[q] = reading
CheckWalk(q) ==
    /\ pass = "WALK" /\ q \in listed
    /\ listed' = listed \ {q}
    /\ found' = (found \/ SeenWalking(q))
    /\ walk' = IF SeenWalking(q) THEN walk \cup {q} ELSE walk
    /\ UNCHANGED <<treeVars, pass, reading, empties>>

ListDone ==
    /\ reading # Nobody /\ listed = {}
    /\ reading' = Nobody
    /\ \/ pass = "BEFORE" /\ pass' = "WALK" /\ walk' = {Helper}
       \/ pass = "WALK" /\ pass' = (IF walk = {} THEN "AFTER" ELSE "WALK") /\ UNCHANGED walk
       \/ pass = "AFTER" /\ pass' = "DONE" /\ UNCHANGED walk
    /\ UNCHANGED <<treeVars, listed, found, empties>>

\* Mutant: one empty scan is the verdict.
NextEmptyScanCount_OneIsEnough(current, event) == IF event = "EMPTY" THEN 2 ELSE 0
NextEmptyScanCount(current, event) ==
    IF event # "EMPTY" THEN 0 ELSE IF current < 2 THEN current + 1 ELSE 2

(* The scan is complete; the next one begins after the verdict is used.      *)
ScanDone ==
    /\ pass = "DONE" /\ empties < 2
    /\ empties' = NextEmptyScanCount(empties, IF found THEN "ACTIVE" ELSE "EMPTY")
    /\ pass' = "BEFORE" /\ found' = FALSE
    /\ UNCHANGED <<treeVars, listed, reading, walk>>

ScanNext ==
    \/ \E q \in Procs :
          \/ Fork(q) \/ \E how \in {"ZOMBIE", "GONE"} : Exit(q, how)
          \/ CheckDirect(q) \/ CheckWalk(q)
    \/ ListDirect \/ ListWalk \/ ListDone \/ ScanDone
ScanSpec == ScanInit /\ [][ScanNext]_scanVars

-----------------------------------------------------------------------------
(* The verdict EMPTY over a tree that lives takes an exit between a list and *)
(* the stats in every one of the lists the two scans read (scanOwnedTree,    *)
(* nextLinuxCompleteEmptyScanCount): no reparenting that a list catches at   *)
(* rest, and no fewer exits, deceive it.                                     *)
WrongVerdictDodgesEveryList == empties = 2 /\ Alive # {} => dodges = Lists
=============================================================================
