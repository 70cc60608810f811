--------------------------- MODULE MCDurableStore ---------------------------
(***************************************************************************)
(* The two halves of the durable store side by side: the mutation lock,    *)
(* and the event store that relies on the lock's promise.  A behaviour is  *)
(* one of the half in focus, the other stays as it starts.                 *)
(*                                                                         *)
(* Only the event store's values are permuted.  In a behaviour of the lock *)
(* every client is where it started, so that no two of its states are      *)
(* taken for one, and the liveness property is about the lock alone.       *)
(***************************************************************************)
EXTENDS MutationLock, EventStore, TLC

VARIABLE focus

durableVars == <<vars, storeVars, focus>>

DurableInit == focus \in {"lock", "store"} /\ Init /\ StoreInit
DurableNext ==
    /\ UNCHANGED focus
    /\ \/ focus = "lock" /\ Next /\ UNCHANGED storeVars
       \/ focus = "store" /\ StoreNext /\ UNCHANGED vars
DurableSpec ==
    /\ DurableInit /\ [][DurableNext]_durableVars
    /\ \A q \in Processes : WF_vars(focus = "lock" /\ Step(q)) /\ WF_vars(focus = "lock" /\ AttemptsRunOut(q))

Symmetry == Permutations(Clients) \cup Permutations(Exclusive)
=============================================================================
