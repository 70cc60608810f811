----------------------------- MODULE EngineHost -----------------------------
(***************************************************************************)
(* The in-memory engine host (packages/pi-host task6-engine-host.ts).  A   *)
(* call names an operation and its request; a replayed operation gets the  *)
(* stored receipt or shares the pending one, and is refused if the request *)
(* differs.  A send crosses the boundary to the Provider once its caller   *)
(* has authorized it; before that a failure leaves nothing behind, after it*)
(* the operation keeps the outcome UNKNOWN.  One send of the host may carry*)
(* a forced interruption.                                                  *)
(*                                                                         *)
(* JavaScript runs a call to its next await without interleaving, and that *)
(* is one action here.  What a handle lets its caller observe is left out. *)
(***************************************************************************)
EXTENDS Naturals, FiniteSets

CONSTANTS EngineCallers,   \* concurrent callers
          EngineRequests,  \* set of [op, kind, payload]: kind is "START", "SEND" or "RECORD"
          MaxEngineCalls   \* bound: calls made

(* A caller derives an operation's identity from what the operation does.    *)
ASSUME EngineAssumption ==
    /\ \A r \in EngineRequests : r.op # "NONE" /\ r.kind \in {"START", "SEND", "RECORD"}
    /\ \A r, s \in EngineRequests : r.op = s.op => r.kind = s.kind

VARIABLES stored,     \* operation -> [request, outcome, refined, reconciled], or NoRecord
          flight,     \* operation -> the pending send: [pc, request, forced, handle]
          caller,     \* [EngineCallers -> [pc, request]]
          claimed,    \* the send that holds the forced interruption, or "NONE"
          consumed,   \* the forced interruption was used
          issued,     \* the handle of the attempt was made
          crossed,    \* [operation -> times its send reached the Provider]
          forcedRuns, \* sends that reached the Provider with the interruption
          answered,   \* receipts callers got: set of [request, outcome]
          refinements,\* reconciliation answers: set of [op, outcome]
          engineCalls

engineVars == <<stored, flight, caller, claimed, consumed, issued, crossed, forcedRuns,
                answered, refinements, engineCalls>>

EngineOps == {r.op : r \in EngineRequests}
NoRequest == [op |-> "NONE", kind |-> "NONE", payload |-> "NONE"]
NoRecord == [request |-> NoRequest, outcome |-> "NONE", refined |-> "UNKNOWN", reconciled |-> "NONE"]
NoFlight == [pc |-> "NONE", request |-> NoRequest, forced |-> FALSE, result |-> "NONE"]
Free == [pc |-> "FREE", request |-> NoRequest]

EngineInit ==
    /\ stored = [o \in EngineOps |-> NoRecord] /\ flight = [o \in EngineOps |-> NoFlight]
    /\ caller = [c \in EngineCallers |-> Free]
    /\ claimed = "NONE" /\ consumed = FALSE
    /\ issued = FALSE
    /\ crossed = [o \in EngineOps |-> 0] /\ forcedRuns = 0
    /\ answered = {} /\ refinements = {} /\ engineCalls = 0

Known(op) == stored[op].outcome # "NONE"
PendingSend(op) == flight[op].pc # "NONE"
(* #existingReceipt and #existingPendingReceipt: the same request.           *)
SameRequest(r) == stored[r.op].request = r
SamePending(r) == flight[r.op].request = r

Answers(c, outcome) ==
    /\ answered' = answered \cup {[request |-> caller[c].request, outcome |-> outcome]}
    /\ caller' = [caller EXCEPT ![c] = Free]
Refused(c) == caller' = [caller EXCEPT ![c] = Free] /\ UNCHANGED answered
StoreReceipt(r, outcome, refined) ==
    stored' = [stored EXCEPT ![r.op] =
                 [request |-> r, outcome |-> outcome, refined |-> refined, reconciled |-> "NONE"]]

EngineCall(c) ==
    /\ caller[c].pc = "FREE" /\ engineCalls < MaxEngineCalls
    /\ engineCalls' = engineCalls + 1
    /\ \E r \in EngineRequests : caller' = [caller EXCEPT ![c] = [pc |-> r.kind, request |-> r]]
    /\ UNCHANGED <<stored, flight, claimed, consumed, issued, crossed, forcedRuns, answered, refinements>>

-----------------------------------------------------------------------------
(* start awaits the workspace and the launch plan between its look at the    *)
(* stored receipt and its own.                                               *)

StartFinds(c) ==
    LET r == caller[c].request IN
    /\ caller[c].pc = "START"
    /\ \/ /\ Known(r.op) /\ SameRequest(r)
          /\ IF issued THEN Answers(c, stored[r.op].outcome) ELSE Refused(c)
       \/ Known(r.op) /\ ~SameRequest(r) /\ Refused(c)
       \/ ~Known(r.op) /\ caller' = [caller EXCEPT ![c].pc = "START_STORES"] /\ UNCHANGED answered
       \/ Refused(c)                       \* deadline expired, another target
    /\ UNCHANGED <<stored, flight, claimed, consumed, issued, crossed, forcedRuns, refinements, engineCalls>>
StartStores(c) ==
    LET r == caller[c].request IN
    /\ caller[c].pc = "START_STORES"
    /\ \/ /\ StoreReceipt(r, "APPLIED", "UNKNOWN")
          /\ issued' = TRUE
          /\ Answers(c, "APPLIED")
       \/ Refused(c) /\ UNCHANGED <<stored, issued>>
    /\ UNCHANGED <<flight, claimed, consumed, crossed, forcedRuns, refinements, engineCalls>>
(* interrupt and checkpoint are recorded as REJECTED, close as APPLIED.      *)
RecordOnly(c) ==
    LET r == caller[c].request
        outcome == IF r.payload = "close" THEN "APPLIED" ELSE "REJECTED" IN
    /\ caller[c].pc = "RECORD"
    /\ \/ /\ issued /\ Known(r.op) /\ SameRequest(r)
          /\ Answers(c, stored[r.op].outcome) /\ UNCHANGED stored
       \/ /\ issued /\ ~Known(r.op)
          /\ StoreReceipt(r, outcome, "UNKNOWN") /\ Answers(c, outcome)
       \/ Refused(c) /\ UNCHANGED stored   \* no handle, another request, deadline expired
    /\ UNCHANGED <<flight, claimed, consumed, issued, crossed, forcedRuns, refinements, engineCalls>>

-----------------------------------------------------------------------------
(* send                                                                      *)

ClaimsInterruption(op) == ~consumed /\ claimed \in {"NONE", op}
SendBegins(c) ==
    LET r == caller[c].request IN
    /\ caller[c].pc = "SEND"
    /\ \/ /\ Known(r.op)
          /\ IF SameRequest(r) THEN Answers(c, stored[r.op].outcome) ELSE Refused(c)
          /\ UNCHANGED <<flight, claimed>>
       \/ /\ ~Known(r.op) /\ PendingSend(r.op)
          /\ IF SamePending(r) THEN caller' = [caller EXCEPT ![c].pc = "SHARES"] /\ UNCHANGED answered
                               ELSE Refused(c)
          /\ UNCHANGED <<flight, claimed>>
       \/ /\ ~Known(r.op) /\ ~PendingSend(r.op) /\ issued
          /\ flight' = [flight EXCEPT ![r.op] = [pc |-> "AUTHORIZE", request |-> r,
                          forced |-> ClaimsInterruption(r.op),
                          result |-> "NONE"]]
          /\ claimed' = IF ClaimsInterruption(r.op) THEN r.op ELSE claimed
          /\ caller' = [caller EXCEPT ![c].pc = "SHARES"] /\ UNCHANGED answered
       \/ Refused(c) /\ UNCHANGED <<flight, claimed>>   \* no handle, deadline expired
    /\ UNCHANGED <<stored, consumed, issued, crossed, forcedRuns, refinements, engineCalls>>

Consume(op) ==
    IF flight[op].forced /\ claimed = op
      THEN consumed' = TRUE /\ claimed' = "NONE"
      ELSE UNCHANGED <<consumed, claimed>>
(* The caller's beforeExternalOperation resolved: the send is on its way.    *)
CrossBoundary(op) ==
    /\ flight[op].pc = "AUTHORIZE"
    /\ crossed' = [crossed EXCEPT ![op] = @ + 1]
    /\ forcedRuns' = IF flight[op].forced THEN forcedRuns + 1 ELSE forcedRuns
    /\ Consume(op)
    /\ flight' = [flight EXCEPT ![op].pc = "RUN"]
    /\ UNCHANGED <<stored, caller, issued, answered, refinements, engineCalls>>
SendSettles(op, result) == flight' = [flight EXCEPT ![op].pc = "SETTLED", ![op].result = result]
FailBefore(op) ==
    /\ flight[op].pc = "AUTHORIZE"
    /\ SendSettles(op, "ERROR")
    /\ claimed' = IF claimed = op THEN "NONE" ELSE claimed
    /\ UNCHANGED <<stored, caller, consumed, issued, crossed, forcedRuns, answered, refinements, engineCalls>>

(* The process returned: whole, or interrupted with the interruption proven, *)
(* or anything else (timeout, truncated, framing, containment not proven).   *)
ResultsOf(op) == IF flight[op].forced THEN {"INTERRUPTED", "PARTIAL"} ELSE {"WHOLE", "PARTIAL"}
ProcessReturns(op) ==
    /\ flight[op].pc = "RUN"
    /\ \E result \in ResultsOf(op) :
          LET outcome == IF result = "WHOLE" THEN "APPLIED" ELSE "UNKNOWN" IN
          /\ StoreReceipt(flight[op].request, outcome,
                          IF result = "INTERRUPTED" THEN "APPLIED" ELSE "UNKNOWN")
          /\ SendSettles(op, outcome)
    /\ UNCHANGED <<caller, claimed, consumed, issued, crossed, forcedRuns, answered, refinements, engineCalls>>
\* Mutant: a failed send leaves no record, wherever it failed.
Tombstone_None(op) == stored' = stored
Tombstone(op) ==
    IF Known(op) THEN UNCHANGED stored ELSE StoreReceipt(flight[op].request, "UNKNOWN", "UNKNOWN")
FailAfter(op) ==
    /\ flight[op].pc = "RUN"
    /\ Tombstone(op)
    /\ SendSettles(op, "ERROR")
    /\ UNCHANGED <<caller, claimed, consumed, issued, crossed, forcedRuns, answered, refinements, engineCalls>>
(* Every caller that awaits the pending promise gets its result; the first   *)
(* of them also deletes the promise from the map.                            *)
PendingResolves(op) ==
    LET waiting == {c \in EngineCallers : caller[c].pc = "SHARES" /\ caller[c].request.op = op} IN
    /\ flight[op].pc = "SETTLED"
    /\ caller' = [c \in EngineCallers |-> IF c \in waiting THEN Free ELSE caller[c]]
    /\ answered' = answered \cup {[request |-> flight[op].request, outcome |-> flight[op].result] :
                                    c \in {x \in waiting : flight[op].result # "ERROR"}}
    /\ flight' = [flight EXCEPT ![op] = NoFlight]
    /\ UNCHANGED <<stored, claimed, consumed, issued, crossed, forcedRuns, refinements, engineCalls>>

(* reconcile: only an UNKNOWN outcome, and always the first answer.          *)
Reconcile(op) ==
    /\ stored[op].outcome = "UNKNOWN"
    /\ LET outcome == IF stored[op].reconciled = "NONE" THEN stored[op].refined ELSE stored[op].reconciled
       IN /\ stored' = [stored EXCEPT ![op].reconciled = outcome]
          /\ refinements' = refinements \cup {[op |-> op, outcome |-> outcome]}
    /\ UNCHANGED <<flight, caller, claimed, consumed, issued, crossed, forcedRuns, answered, engineCalls>>

EngineNext ==
    \/ \E c \in EngineCallers : EngineCall(c) \/ StartFinds(c) \/ StartStores(c) \/ RecordOnly(c) \/ SendBegins(c)
    \/ \E op \in EngineOps : \/ CrossBoundary(op) \/ FailBefore(op) \/ ProcessReturns(op)
                             \/ FailAfter(op) \/ PendingResolves(op) \/ Reconcile(op)
EngineSpec == EngineInit /\ [][EngineNext]_engineVars

-----------------------------------------------------------------------------
(* An operation reaches the Provider at most once however it is replayed or  *)
(* fails; all its receipts agree and answer one request; what is called      *)
(* applied, at once or when reconciled, did reach it; and one send at most   *)
(* is forcibly interrupted (send, reconcile).                                *)
SendsOnce ==
    /\ \A op \in EngineOps : crossed[op] <= 1
    /\ forcedRuns <= 1
    /\ \A a, b \in answered : (a.request.op = b.request.op /\ a.request.kind = "SEND") => a = b
    /\ \A a \in answered : a.request.kind = "SEND" => crossed[a.request.op] = 1
    /\ \A x, y \in refinements : x.op = y.op => x = y
    /\ \A x \in refinements, a \in answered :
          (x.op = a.request.op /\ x.outcome = "APPLIED") => a.outcome = "UNKNOWN" /\ forcedRuns = 1
=============================================================================
