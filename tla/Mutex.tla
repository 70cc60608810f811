------------------------------- MODULE Mutex -------------------------------
(***************************************************************************)
(* What withDurableMutationLock promises its callers                       *)
(* (packages/evidence/src/atomic-write.ts): operations on one store run    *)
(* one at a time, and an owner that dies does not keep the others out.     *)
(***************************************************************************)
EXTENDS FiniteSets

CONSTANT Processes

VARIABLES
    holders,   \* processes inside their operation
    crashed    \* processes that died

mutexVars == <<holders, crashed>>

MutexInit == holders = {} /\ crashed = {}

Acquire(p) ==
    /\ holders = {} /\ p \notin crashed
    /\ holders' = {p}
    /\ UNCHANGED crashed

Release(p) ==
    /\ p \in holders
    /\ holders' = holders \ {p}
    /\ UNCHANGED crashed

Crash(p) ==
    /\ p \notin crashed
    /\ crashed' = crashed \cup {p}
    /\ holders' = holders \ {p}

MutexNext == \E p \in Processes : Acquire(p) \/ Release(p) \/ Crash(p)

MutexSpec == MutexInit /\ [][MutexNext]_mutexVars
=============================================================================
