---------------------------- MODULE PilotProofs -----------------------------
(***************************************************************************)
(* What the pilot stands on, for any number of callers, tasks, changes and *)
(* writers: the engine host sends once, a passed task is a checked and     *)
(* unchanged tree, a managed change that is GO is the tree that was        *)
(* verified, the archive is one, an evidence file has one envelope, what a *)
(* capture spends is accounted for, what it recorded can be sealed as      *)
(* evidence, and the verdict on that evidence is exact.                    *)
(*                                                                         *)
(* The first section's invariant follows a send from its claim to its      *)
(* record; those of the flows say of every program point what the actor at *)
(* it holds; those of the evidence count what is listed against what was   *)
(* planned, by the lemmas of the section on counting.                      *)
(***************************************************************************)
EXTENDS EngineHost, PilotTask, ManagedChange, PilotArchive, EvidenceStore, PilotCapture, PilotDraft,
        PilotEvaluation, FiniteSetTheorems, SequenceTheorems, TLAPS

-----------------------------------------------------------------------------
(* Engine host. SendsOnce speaks of what happened; what makes it so is      *)
(* where the next call looks. Before the boundary the operation is unknown  *)
(* and has not crossed, beyond it it has crossed once and is running or     *)
(* recorded, and a receipt that was given out is the record, which is never *)
(* replaced.                                                                *)

EngineOutcomes == {"APPLIED", "UNKNOWN", "REJECTED"}
AnyRequest == EngineRequests \cup {NoRequest}
Records == [request : AnyRequest, outcome : EngineOutcomes \cup {"NONE"},
            refined : {"UNKNOWN", "APPLIED"}, reconciled : {"NONE", "UNKNOWN", "APPLIED"}]
Flights == [pc : {"NONE", "AUTHORIZE", "RUN", "SETTLED"}, request : AnyRequest,
            forced : BOOLEAN, result : EngineOutcomes \cup {"NONE", "ERROR"}]
CallerStates == [pc : {"FREE", "START", "START_STORES", "SEND", "RECORD", "SHARES"}, request : AnyRequest]

EngineTypes ==
    /\ stored \in [EngineOps -> Records] /\ flight \in [EngineOps -> Flights]
    /\ caller \in [EngineCallers -> CallerStates]
    /\ claimed \in EngineOps \cup {"NONE"} /\ consumed \in BOOLEAN
    /\ crossed \in [EngineOps -> {0, 1}] /\ forcedRuns \in {0, 1}
    /\ answered \subseteq [request : EngineRequests, outcome : EngineOutcomes]
    /\ refinements \subseteq [op : EngineOps, outcome : {"UNKNOWN", "APPLIED"}]

OneForced ==
    /\ consumed <=> forcedRuns = 1
    /\ claimed # "NONE" => ~consumed
CallersAsk ==
    \A c \in EngineCallers :
       /\ caller[c].pc \in {"START", "START_STORES"} => caller[c].request \in EngineRequests /\ caller[c].request.kind = "START"
       /\ caller[c].pc \in {"SEND", "RECORD"} => caller[c].request \in EngineRequests /\ caller[c].request.kind = caller[c].pc
RecordsAreTrue ==
    \A op \in EngineOps :
       /\ Known(op) => /\ stored[op].request \in EngineRequests /\ stored[op].request.op = op
                       /\ IF stored[op].request.kind = "SEND" THEN crossed[op] = 1 /\ stored[op].outcome # "REJECTED"
                                                              ELSE stored[op].outcome # "UNKNOWN"
       /\ stored[op].reconciled # "NONE" => stored[op].outcome = "UNKNOWN"
       /\ stored[op].refined = "APPLIED" \/ stored[op].reconciled = "APPLIED" => forcedRuns = 1
SendsAreWhere ==
    \A op \in EngineOps :
       /\ PendingSend(op) => /\ flight[op].request \in EngineRequests
                             /\ flight[op].request.op = op /\ flight[op].request.kind = "SEND"
       /\ flight[op].pc = "AUTHORIZE" => ~Known(op) /\ crossed[op] = 0 /\ (flight[op].forced => claimed = op)
       /\ flight[op].pc = "RUN" => ~Known(op) /\ crossed[op] = 1 /\ (flight[op].forced => forcedRuns = 1)
       /\ flight[op].pc = "SETTLED" /\ flight[op].result # "ERROR" =>
             Known(op) /\ stored[op].request = flight[op].request /\ stored[op].outcome = flight[op].result
       /\ crossed[op] = 1 => flight[op].pc = "RUN" \/ Known(op)
AnswersAreRecords ==
    \A a \in answered : a.request.kind = "SEND" =>
       LET op == a.request.op IN Known(op) /\ stored[op].request = a.request /\ stored[op].outcome = a.outcome
RefinementsAreRecords ==
    \A x \in refinements : stored[x.op].outcome = "UNKNOWN" /\ stored[x.op].reconciled = x.outcome
EngineInv ==
    EngineTypes /\ OneForced /\ CallersAsk /\ RecordsAreTrue /\ SendsAreWhere /\ AnswersAreRecords /\ RefinementsAreRecords

LEMMA OpsOfRequests == \A r \in EngineRequests : r.op \in EngineOps
  BY DEF EngineOps
LEMMA OneKind == ASSUME NEW r \in EngineRequests, NEW s \in EngineRequests, r.op = s.op PROVE r.kind = s.kind
  BY EngineAssumption DEF EngineAssumption

LEMMA EngineInvInit == EngineInit => EngineInv
<1> SUFFICES ASSUME EngineInit PROVE EngineInv
  OBVIOUS
<1>1. EngineTypes
  BY DEF EngineInit, EngineTypes, Records, Flights, CallerStates, AnyRequest, NoRecord, NoFlight, Free, EngineOutcomes
<1>2. OneForced /\ CallersAsk /\ AnswersAreRecords /\ RefinementsAreRecords
  BY DEF EngineInit, OneForced, CallersAsk, AnswersAreRecords, RefinementsAreRecords, Free
<1>3. RecordsAreTrue /\ SendsAreWhere
  BY DEF EngineInit, RecordsAreTrue, SendsAreWhere, Known, PendingSend, NoRecord, NoFlight
<1> QED  BY <1>1, <1>2, <1>3 DEF EngineInv

LEMMA EngineInvImplies == EngineInv => SendsOnce
<1> SUFFICES ASSUME EngineInv PROVE SendsOnce
  OBVIOUS
<1>1. /\ \A op \in EngineOps : crossed[op] <= 1
      /\ forcedRuns <= 1
  BY DEF EngineInv, EngineTypes
<1>2. ASSUME NEW a \in answered, NEW b \in answered, a.request.op = b.request.op, a.request.kind = "SEND"
      PROVE  a = b
  <2>1. a \in [request : EngineRequests, outcome : EngineOutcomes] /\ b \in [request : EngineRequests, outcome : EngineOutcomes]
    BY DEF EngineInv, EngineTypes
  <2>2. b.request.kind = "SEND"
    BY <1>2, <2>1, OneKind
  <2>3. a.request = b.request /\ a.outcome = b.outcome
    BY <1>2, <2>2 DEF EngineInv, AnswersAreRecords
  <2> QED  BY <2>1, <2>3
<1>3. ASSUME NEW a \in answered, a.request.kind = "SEND" PROVE crossed[a.request.op] = 1
  <2>1. a.request \in EngineRequests /\ a.request.op \in EngineOps
    BY OpsOfRequests DEF EngineInv, EngineTypes
  <2> QED  BY <1>3, <2>1 DEF EngineInv, AnswersAreRecords, RecordsAreTrue
<1>4. ASSUME NEW x \in refinements, NEW y \in refinements, x.op = y.op PROVE x = y
  <2>1. x \in [op : EngineOps, outcome : {"UNKNOWN", "APPLIED"}] /\ y \in [op : EngineOps, outcome : {"UNKNOWN", "APPLIED"}]
    BY DEF EngineInv, EngineTypes
  <2>2. x.outcome = y.outcome
    BY <1>4 DEF EngineInv, RefinementsAreRecords
  <2> QED  BY <1>4, <2>1, <2>2
<1>5. ASSUME NEW x \in refinements, NEW a \in answered, x.op = a.request.op, x.outcome = "APPLIED"
      PROVE  a.outcome = "UNKNOWN" /\ forcedRuns = 1
  <2>1. x.op \in EngineOps /\ a.request \in EngineRequests
    BY DEF EngineInv, EngineTypes
  <2>2. stored[x.op].outcome = "UNKNOWN" /\ stored[x.op].reconciled = "APPLIED"
    BY <1>5 DEF EngineInv, RefinementsAreRecords
  <2>3. forcedRuns = 1 /\ stored[x.op].request \in EngineRequests /\ stored[x.op].request.op = x.op
        /\ stored[x.op].request.kind = "SEND"
    BY <2>1, <2>2 DEF EngineInv, RecordsAreTrue, Known
  <2>4. a.request.kind = "SEND"
    BY <1>5, <2>1, <2>3, OneKind
  <2> QED  BY <1>5, <2>2, <2>3, <2>4 DEF EngineInv, AnswersAreRecords
<1> QED  BY <1>1, <1>2, <1>3, <1>4, <1>5 DEF SendsOnce

-----------------------------------------------------------------------------
(* A caller's step that stores nothing keeps all but the caller and answers. *)
LEMMA CallerStep ==
    ASSUME EngineInv, NEW c \in EngineCallers, NEW s \in CallerStates,
           caller' = [caller EXCEPT ![c] = s],
           s.pc \in {"START", "START_STORES"} => s.request \in EngineRequests /\ s.request.kind = "START",
           s.pc \in {"SEND", "RECORD"} => s.request \in EngineRequests /\ s.request.kind = s.pc
    PROVE  caller' \in [EngineCallers -> CallerStates] /\ CallersAsk'
<1>1. caller \in [EngineCallers -> CallerStates] /\ CallersAsk
  BY DEF EngineInv, EngineTypes
<1> QED  BY <1>1 DEF CallersAsk

LEMMA FreeStates == Free \in CallerStates /\ Free.pc = "FREE"
  BY DEF Free, CallerStates, AnyRequest

LEMMA StepsTo ==
    ASSUME EngineInv, NEW c \in EngineCallers, NEW p \in {"SHARES", "START_STORES"},
           caller' = [caller EXCEPT ![c].pc = p]
    PROVE  /\ caller' = [caller EXCEPT ![c] = [pc |-> p, request |-> caller[c].request]]
           /\ [pc |-> p, request |-> caller[c].request] \in CallerStates
<1>1. caller[c] \in CallerStates
  BY DEF EngineInv, EngineTypes
<1>2. [caller[c] EXCEPT !.pc = p] = [pc |-> p, request |-> caller[c].request]
  BY <1>1 DEF CallerStates
<1> QED  BY <1>1, <1>2 DEF CallerStates

LEMMA CallKeeps == ASSUME EngineInv, NEW c \in EngineCallers, EngineCall(c) PROVE EngineInv'
<1>1. PICK r \in EngineRequests : caller' = [caller EXCEPT ![c] = [pc |-> r.kind, request |-> r]]
  BY DEF EngineCall
<1>2. [pc |-> r.kind, request |-> r] \in CallerStates
  BY EngineAssumption DEF EngineAssumption, CallerStates, AnyRequest
<1> DEFINE s == [pc |-> r.kind, request |-> r]
<1>5. /\ s.pc \in {"START", "START_STORES"} => s.request \in EngineRequests /\ s.request.kind = "START"
      /\ s.pc \in {"SEND", "RECORD"} => s.request \in EngineRequests /\ s.request.kind = s.pc
  BY EngineAssumption DEF EngineAssumption
<1>6. s \in CallerStates /\ caller' = [caller EXCEPT ![c] = s]
  BY <1>1, <1>2
<1> HIDE DEF s
<1>3. caller' \in [EngineCallers -> CallerStates] /\ CallersAsk'
  BY <1>5, <1>6, CallerStep
<1>4. UNCHANGED <<stored, flight, claimed, consumed, crossed, forcedRuns, answered, refinements>>
  BY DEF EngineCall
<1> QED  BY <1>3, <1>4 DEF EngineInv, EngineTypes, OneForced, RecordsAreTrue, SendsAreWhere, AnswersAreRecords,
                           RefinementsAreRecords, Known, PendingSend

(* What a caller is answered from a record, the record keeps saying.         *)
LEMMA AnswerFromRecord ==
    ASSUME EngineInv, NEW c \in EngineCallers, NEW outcome \in EngineOutcomes,
           caller[c].request \in EngineRequests, Answers(c, outcome), UNCHANGED stored,
           caller[c].request.kind = "SEND" => /\ Known(caller[c].request.op) /\ SameRequest(caller[c].request)
                                              /\ outcome = stored[caller[c].request.op].outcome
    PROVE  /\ caller' \in [EngineCallers -> CallerStates] /\ CallersAsk'
           /\ answered' \subseteq [request : EngineRequests, outcome : EngineOutcomes] /\ AnswersAreRecords'
<1>1. caller' \in [EngineCallers -> CallerStates] /\ CallersAsk'
  BY CallerStep, FreeStates DEF Answers
<1>2. answered' \subseteq [request : EngineRequests, outcome : EngineOutcomes]
  BY DEF Answers, EngineInv, EngineTypes
<1>3. AnswersAreRecords'
  BY DEF Answers, EngineInv, AnswersAreRecords, Known, SameRequest
<1> QED  BY <1>1, <1>2, <1>3

LEMMA RefusalKeeps ==
    ASSUME EngineInv, NEW c \in EngineCallers, Refused(c), UNCHANGED stored
    PROVE  /\ caller' \in [EngineCallers -> CallerStates] /\ CallersAsk'
           /\ answered' \subseteq [request : EngineRequests, outcome : EngineOutcomes] /\ AnswersAreRecords'
<1>1. caller' \in [EngineCallers -> CallerStates] /\ CallersAsk'
  BY CallerStep, FreeStates DEF Refused
<1> QED  BY <1>1 DEF Refused, EngineInv, EngineTypes, AnswersAreRecords, Known

LEMMA OutcomeOfKnown == ASSUME EngineInv, NEW op \in EngineOps, Known(op) PROVE stored[op].outcome \in EngineOutcomes
  BY DEF EngineInv, EngineTypes, Records, Known

LEMMA StartFindsKeeps == ASSUME EngineInv, NEW c \in EngineCallers, StartFinds(c) PROVE EngineInv'
<1> DEFINE r == caller[c].request
<1>1. r \in EngineRequests /\ r.kind = "START" /\ r.op \in EngineOps /\ caller[c].pc = "START"
  BY OpsOfRequests DEF StartFinds, EngineInv, CallersAsk
<1>2. UNCHANGED <<stored, flight, claimed, consumed, crossed, forcedRuns, refinements>>
  BY DEF StartFinds
<1>3. /\ caller' \in [EngineCallers -> CallerStates] /\ CallersAsk'
      /\ answered' \subseteq [request : EngineRequests, outcome : EngineOutcomes] /\ AnswersAreRecords'
  <2>1. CASE Known(r.op) /\ Answers(c, stored[r.op].outcome)
    BY <1>1, <1>2, <2>1, OutcomeOfKnown, AnswerFromRecord
  <2>2. CASE Refused(c)
    BY <1>2, <2>2, RefusalKeeps
  <2>3. CASE caller' = [caller EXCEPT ![c].pc = "START_STORES"] /\ UNCHANGED answered
    <3>2. caller' = [caller EXCEPT ![c] = [pc |-> "START_STORES", request |-> r]]
          /\ [pc |-> "START_STORES", request |-> r] \in CallerStates
      BY <2>3, StepsTo
    <3>3. caller' \in [EngineCallers -> CallerStates] /\ CallersAsk'
      BY <1>1, <3>2, CallerStep
    <3> QED  BY <1>2, <2>3, <3>3 DEF EngineInv, EngineTypes, AnswersAreRecords, Known
  <2> QED  BY <2>1, <2>2, <2>3 DEF StartFinds
<1> QED  BY <1>2, <1>3 DEF EngineInv, EngineTypes, OneForced, RecordsAreTrue, SendsAreWhere, RefinementsAreRecords,
                           Known, PendingSend

(* A receipt that is no send's is stored without touching a send.            *)
LEMMA StoringKeeps ==
    ASSUME EngineInv, NEW r \in EngineRequests, r.kind # "SEND", NEW outcome \in {"APPLIED", "REJECTED"},
           StoreReceipt(r, outcome, "UNKNOWN"),
           UNCHANGED <<flight, claimed, consumed, crossed, forcedRuns, refinements>>
    PROVE  /\ stored' \in [EngineOps -> Records] /\ RecordsAreTrue' /\ SendsAreWhere' /\ RefinementsAreRecords'
           /\ \A op \in EngineOps : op # r.op => stored'[op] = stored[op]
<1> DEFINE rec == [request |-> r, outcome |-> outcome, refined |-> "UNKNOWN", reconciled |-> "NONE"]
<1>1. stored' = [stored EXCEPT ![r.op] = rec] /\ r.op \in EngineOps /\ stored \in [EngineOps -> Records]
  BY OpsOfRequests DEF StoreReceipt, EngineInv, EngineTypes
<1>2. rec \in Records
  BY DEF Records, EngineOutcomes, AnyRequest
<1>3. stored' \in [EngineOps -> Records] /\ stored'[r.op] = rec
      /\ \A op \in EngineOps : op # r.op => stored'[op] = stored[op]
  BY <1>1, <1>2
<1>4. RecordsAreTrue'
  BY <1>3 DEF EngineInv, RecordsAreTrue, Known
<1>5. ~PendingSend(r.op)
  <2> SUFFICES ASSUME PendingSend(r.op) PROVE FALSE
    OBVIOUS
  <2>1. flight[r.op].request \in EngineRequests /\ flight[r.op].request.op = r.op /\ flight[r.op].request.kind = "SEND"
    BY <1>1 DEF EngineInv, SendsAreWhere
  <2> QED  BY <2>1, OneKind
<1>6. SendsAreWhere'
  BY <1>3, <1>5 DEF EngineInv, SendsAreWhere, Known, PendingSend
<1>7. RefinementsAreRecords'
  <2> SUFFICES ASSUME NEW x \in refinements
               PROVE  stored'[x.op].outcome = "UNKNOWN" /\ stored'[x.op].reconciled = x.outcome
    BY DEF RefinementsAreRecords
  <2>1. x.op \in EngineOps /\ stored[x.op].outcome = "UNKNOWN" /\ stored[x.op].reconciled = x.outcome
    BY DEF EngineInv, EngineTypes, RefinementsAreRecords
  <2>2. stored[x.op].request \in EngineRequests /\ stored[x.op].request.op = x.op /\ stored[x.op].request.kind = "SEND"
    BY <2>1 DEF EngineInv, RecordsAreTrue, Known
  <2>3. x.op # r.op
    BY <2>2, OneKind
  <2> QED  BY <1>3, <2>1, <2>3
<1> QED  BY <1>3, <1>4, <1>6, <1>7

LEMMA AnswerStored ==
    ASSUME EngineInv, NEW c \in EngineCallers, NEW outcome \in {"APPLIED", "REJECTED"},
           caller[c].request \in EngineRequests, caller[c].request.kind # "SEND",
           StoreReceipt(caller[c].request, outcome, "UNKNOWN"), Answers(c, outcome),
           UNCHANGED <<flight, claimed, consumed, crossed, forcedRuns, refinements>>
    PROVE  EngineInv'
<1> DEFINE r == caller[c].request
<1>1. /\ stored' \in [EngineOps -> Records] /\ RecordsAreTrue' /\ SendsAreWhere' /\ RefinementsAreRecords'
      /\ \A op \in EngineOps : op # r.op => stored'[op] = stored[op]
  BY StoringKeeps
<1>2. caller' \in [EngineCallers -> CallerStates] /\ CallersAsk'
  BY CallerStep, FreeStates DEF Answers
<1>3. answered' \subseteq [request : EngineRequests, outcome : EngineOutcomes]
  BY DEF Answers, EngineInv, EngineTypes, EngineOutcomes
<1>4. AnswersAreRecords'
  <2> SUFFICES ASSUME NEW a \in answered', a.request.kind = "SEND"
               PROVE  LET op == a.request.op IN
                      stored'[op].outcome # "NONE" /\ stored'[op].request = a.request /\ stored'[op].outcome = a.outcome
    BY DEF AnswersAreRecords, Known
  <2>1. a \in answered
    BY DEF Answers
  <2>2. a.request \in EngineRequests /\ a.request.op \in EngineOps
    BY <1>3, OpsOfRequests
  <2>3. a.request.op # r.op
    BY <2>2, OneKind
  <2> QED  BY <1>1, <2>1, <2>2, <2>3 DEF EngineInv, AnswersAreRecords, Known
<1> QED  BY <1>1, <1>2, <1>3, <1>4 DEF EngineInv, EngineTypes, OneForced

LEMMA StartStoresKeeps == ASSUME EngineInv, NEW c \in EngineCallers, StartStores(c) PROVE EngineInv'
<1> DEFINE r == caller[c].request
<1>1. r \in EngineRequests /\ r.kind = "START"
  BY DEF StartStores, EngineInv, CallersAsk
<1>2. UNCHANGED <<flight, claimed, consumed, crossed, forcedRuns, refinements>>
  BY DEF StartStores
<1>3. CASE StoreReceipt(r, "APPLIED", "UNKNOWN") /\ Answers(c, "APPLIED")
  BY <1>1, <1>2, <1>3, AnswerStored
<1>4. CASE Refused(c) /\ UNCHANGED stored
  BY <1>2, <1>4, RefusalKeeps DEF EngineInv, EngineTypes, OneForced, RecordsAreTrue, SendsAreWhere,
                                  RefinementsAreRecords, Known, PendingSend
<1> QED  BY <1>3, <1>4 DEF StartStores

LEMMA RecordOnlyKeeps == ASSUME EngineInv, NEW c \in EngineCallers, RecordOnly(c) PROVE EngineInv'
<1> DEFINE r == caller[c].request
<1> DEFINE outcome == IF r.payload = "close" THEN "APPLIED" ELSE "REJECTED"
<1>1. r \in EngineRequests /\ r.kind = "RECORD" /\ r.op \in EngineOps /\ outcome \in {"APPLIED", "REJECTED"}
  BY OpsOfRequests DEF RecordOnly, EngineInv, CallersAsk
<1>2. UNCHANGED <<flight, claimed, consumed, crossed, forcedRuns, refinements>>
  BY DEF RecordOnly
<1>3. CASE Known(r.op) /\ Answers(c, stored[r.op].outcome) /\ UNCHANGED stored
  BY <1>1, <1>2, <1>3, OutcomeOfKnown, AnswerFromRecord
     DEF EngineInv, EngineTypes, OneForced, RecordsAreTrue, SendsAreWhere, RefinementsAreRecords, Known, PendingSend
<1>4. CASE StoreReceipt(r, outcome, "UNKNOWN") /\ Answers(c, outcome)
  BY <1>1, <1>2, <1>4, AnswerStored
<1>5. CASE Refused(c) /\ UNCHANGED stored
  BY <1>2, <1>5, RefusalKeeps DEF EngineInv, EngineTypes, OneForced, RecordsAreTrue, SendsAreWhere,
                                  RefinementsAreRecords, Known, PendingSend
<1> QED  BY <1>3, <1>4, <1>5 DEF RecordOnly

LEMMA SharesKeeps ==
    ASSUME EngineInv, NEW c \in EngineCallers, caller' = [caller EXCEPT ![c].pc = "SHARES"],
           UNCHANGED <<stored, answered>>
    PROVE  /\ caller' \in [EngineCallers -> CallerStates] /\ CallersAsk'
           /\ answered' \subseteq [request : EngineRequests, outcome : EngineOutcomes] /\ AnswersAreRecords'
<1> DEFINE s == [pc |-> "SHARES", request |-> caller[c].request]
<1>2. caller' = [caller EXCEPT ![c] = s] /\ s \in CallerStates
  BY StepsTo
<1>3. caller' \in [EngineCallers -> CallerStates] /\ CallersAsk'
  BY <1>2, CallerStep
<1> QED  BY <1>3 DEF EngineInv, EngineTypes, AnswersAreRecords, Known

LEMMA SendBeginsKeeps == ASSUME EngineInv, NEW c \in EngineCallers, SendBegins(c) PROVE EngineInv'
<1> DEFINE r == caller[c].request
<1>1. r \in EngineRequests /\ r.kind = "SEND" /\ r.op \in EngineOps
  BY OpsOfRequests DEF SendBegins, EngineInv, CallersAsk
<1>2. UNCHANGED <<stored, consumed, crossed, forcedRuns, refinements>>
  BY DEF SendBegins
<1>3. /\ caller' \in [EngineCallers -> CallerStates] /\ CallersAsk'
      /\ answered' \subseteq [request : EngineRequests, outcome : EngineOutcomes] /\ AnswersAreRecords'
  <2>1. CASE Known(r.op) /\ SameRequest(r) /\ Answers(c, stored[r.op].outcome)
    BY <1>1, <1>2, <2>1, OutcomeOfKnown, AnswerFromRecord
  <2>2. CASE Refused(c)
    BY <1>2, <2>2, RefusalKeeps
  <2>3. CASE caller' = [caller EXCEPT ![c].pc = "SHARES"] /\ UNCHANGED answered
    BY <1>2, <2>3, SharesKeeps
  <2> QED  BY <2>1, <2>2, <2>3 DEF SendBegins
<1>4. CASE UNCHANGED <<flight, claimed>>
  BY <1>2, <1>3, <1>4 DEF EngineInv, EngineTypes, OneForced, RecordsAreTrue, SendsAreWhere, RefinementsAreRecords,
                          Known, PendingSend
<1>5. CASE /\ ~Known(r.op) /\ ~PendingSend(r.op)
           /\ flight' = [flight EXCEPT ![r.op] = [pc |-> "AUTHORIZE", request |-> r,
                           forced |-> ClaimsInterruption(r.op), result |-> "NONE"]]
           /\ claimed' = IF ClaimsInterruption(r.op) THEN r.op ELSE claimed
  <2> DEFINE f == [pc |-> "AUTHORIZE", request |-> r, forced |-> ClaimsInterruption(r.op), result |-> "NONE"]
  <2>1. flight \in [EngineOps -> Flights] /\ f \in Flights
    BY <1>1 DEF EngineInv, EngineTypes, Flights, AnyRequest, ClaimsInterruption
  <2>2. flight' \in [EngineOps -> Flights] /\ flight'[r.op] = f /\ \A op \in EngineOps : op # r.op => flight'[op] = flight[op]
    BY <1>1, <1>5, <2>1
  <2>3. EngineTypes'
    BY <1>1, <1>2, <1>3, <1>5, <2>2 DEF EngineInv, EngineTypes
  <2>4. OneForced'
    BY <1>2, <1>5 DEF EngineInv, OneForced, ClaimsInterruption
  <2>5. crossed[r.op] = 0
    BY <1>1, <1>5 DEF EngineInv, EngineTypes, SendsAreWhere, PendingSend, Flights
  <2>6. \A op \in EngineOps : op # r.op /\ claimed = op => claimed' = claimed
    BY <1>1, <1>5, EngineAssumption DEF EngineAssumption, EngineOps, ClaimsInterruption
  <2>7. ASSUME NEW op \in EngineOps
        PROVE  /\ flight'[op].pc # "NONE" => /\ flight'[op].request \in EngineRequests
                                             /\ flight'[op].request.op = op /\ flight'[op].request.kind = "SEND"
               /\ flight'[op].pc = "AUTHORIZE" =>
                     stored[op].outcome = "NONE" /\ crossed[op] = 0 /\ (flight'[op].forced => claimed' = op)
               /\ flight'[op].pc = "RUN" =>
                     stored[op].outcome = "NONE" /\ crossed[op] = 1 /\ (flight'[op].forced => forcedRuns = 1)
               /\ flight'[op].pc = "SETTLED" /\ flight'[op].result # "ERROR" =>
                     stored[op].outcome # "NONE" /\ stored[op].request = flight'[op].request
                     /\ stored[op].outcome = flight'[op].result
               /\ crossed[op] = 1 => flight'[op].pc = "RUN" \/ stored[op].outcome # "NONE"
    <3>1. CASE op = r.op
      BY <1>1, <1>5, <2>2, <2>5, <3>1 DEF Known
    <3>2. CASE op # r.op
      BY <2>2, <2>6, <3>2 DEF EngineInv, SendsAreWhere, PendingSend, Known
    <3> QED  BY <3>1, <3>2
  <2>8. SendsAreWhere'
    BY <1>2, <2>7 DEF SendsAreWhere, PendingSend, Known
  <2> QED  BY <1>2, <1>3, <2>3, <2>4, <2>8 DEF EngineInv, RecordsAreTrue, RefinementsAreRecords, Known
<1> QED  BY <1>4, <1>5 DEF SendBegins

-----------------------------------------------------------------------------
(* The steps of a pending send.                                              *)

LEMMA OnTheWay ==
    ASSUME EngineInv, NEW op \in EngineOps, flight[op].pc \in {"AUTHORIZE", "RUN"}
    PROVE  /\ flight[op].request \in EngineRequests /\ flight[op].request.op = op /\ flight[op].request.kind = "SEND"
           /\ stored[op].outcome = "NONE"
  BY DEF EngineInv, SendsAreWhere, PendingSend, Known

LEMMA CrossKeeps == ASSUME EngineInv, NEW op \in EngineOps, CrossBoundary(op) PROVE EngineInv'
<1> DEFINE f == [flight[op] EXCEPT !.pc = "RUN"]
<1>1. flight[op].pc = "AUTHORIZE" /\ flight' = [flight EXCEPT ![op] = f]
      /\ crossed' = [crossed EXCEPT ![op] = crossed[op] + 1]
      /\ UNCHANGED <<stored, caller, answered, refinements>>
  BY DEF CrossBoundary, EngineInv, EngineTypes
<1>2. flight \in [EngineOps -> Flights] /\ f \in Flights /\ f.pc = "RUN"
      /\ f.request = flight[op].request /\ f.forced = flight[op].forced
  BY DEF EngineInv, EngineTypes, Flights
<1>3. /\ flight' \in [EngineOps -> Flights] /\ flight'[op] = f
      /\ \A o \in EngineOps : o # op => flight'[o] = flight[o]
  BY <1>1, <1>2
<1>4. crossed[op] = 0 /\ (flight[op].forced => claimed = op) /\ op # "NONE"
  BY <1>1, EngineAssumption DEF EngineInv, SendsAreWhere, EngineAssumption, EngineOps
<1>5. /\ crossed' \in [EngineOps -> {0, 1}] /\ crossed'[op] = 1
      /\ \A o \in EngineOps : o # op => crossed'[o] = crossed[o]
  BY <1>1, <1>4 DEF EngineInv, EngineTypes
<1>6. IF flight[op].forced
        THEN consumed' = TRUE /\ claimed' = "NONE" /\ forcedRuns' = 1
        ELSE UNCHANGED <<consumed, claimed, forcedRuns>>
  BY <1>4 DEF CrossBoundary, Consume, EngineInv, EngineTypes, OneForced
<1>7. EngineTypes' /\ OneForced' /\ (forcedRuns = 1 => forcedRuns' = 1)
  BY <1>1, <1>3, <1>5, <1>6 DEF EngineInv, EngineTypes, OneForced
<1>8. CallersAsk' /\ AnswersAreRecords' /\ RefinementsAreRecords'
  BY <1>1 DEF EngineInv, CallersAsk, AnswersAreRecords, RefinementsAreRecords, Known
<1>9. RecordsAreTrue'
  BY <1>1, <1>5, <1>7, OnTheWay DEF EngineInv, RecordsAreTrue, Known
<1>10. ASSUME NEW o \in EngineOps, o # op, flight[o].pc = "AUTHORIZE", flight[o].forced PROVE claimed' = o
  BY <1>4, <1>6, <1>10 DEF EngineInv, SendsAreWhere
<1>11. SendsAreWhere'
  <2> SUFFICES ASSUME NEW o \in EngineOps
               PROVE  /\ flight'[o].pc # "NONE" => /\ flight'[o].request \in EngineRequests
                                                   /\ flight'[o].request.op = o /\ flight'[o].request.kind = "SEND"
                      /\ flight'[o].pc = "AUTHORIZE" =>
                            stored[o].outcome = "NONE" /\ crossed'[o] = 0 /\ (flight'[o].forced => claimed' = o)
                      /\ flight'[o].pc = "RUN" =>
                            stored[o].outcome = "NONE" /\ crossed'[o] = 1 /\ (flight'[o].forced => forcedRuns' = 1)
                      /\ flight'[o].pc = "SETTLED" /\ flight'[o].result # "ERROR" =>
                            stored[o].outcome # "NONE" /\ stored[o].request = flight'[o].request
                            /\ stored[o].outcome = flight'[o].result
                      /\ crossed'[o] = 1 => flight'[o].pc = "RUN" \/ stored[o].outcome # "NONE"
    BY <1>1 DEF SendsAreWhere, PendingSend, Known
  <2>1. CASE o = op
    BY <1>1, <1>2, <1>3, <1>5, <1>6, <2>1, OnTheWay
  <2>2. CASE o # op
    BY <1>3, <1>5, <1>7, <1>10, <2>2 DEF EngineInv, SendsAreWhere, PendingSend, Known
  <2> QED  BY <2>1, <2>2
<1> QED  BY <1>7, <1>8, <1>9, <1>11 DEF EngineInv

LEMMA Settles ==
    ASSUME EngineInv, NEW op \in EngineOps, NEW result \in EngineOutcomes \cup {"ERROR"}, SendSettles(op, result)
    PROVE  /\ flight' \in [EngineOps -> Flights] /\ flight'[op].pc = "SETTLED" /\ flight'[op].result = result
           /\ flight'[op].request = flight[op].request
           /\ \A o \in EngineOps : o # op => flight'[o] = flight[o]
<1> DEFINE f == [flight[op] EXCEPT !.pc = "SETTLED", !.result = result]
<1>1. flight \in [EngineOps -> Flights] /\ flight[op] \in Flights
  BY DEF EngineInv, EngineTypes
<1>2. flight' = [flight EXCEPT ![op] = f]
  BY <1>1 DEF SendSettles
<1>3. f \in Flights /\ f.pc = "SETTLED" /\ f.result = result /\ f.request = flight[op].request
  BY <1>1 DEF Flights
<1> QED  BY <1>1, <1>2, <1>3

LEMMA FailBeforeKeeps == ASSUME EngineInv, NEW op \in EngineOps, FailBefore(op) PROVE EngineInv'
<1>1. /\ flight[op].pc = "AUTHORIZE" /\ SendSettles(op, "ERROR")
      /\ claimed' = IF claimed = op THEN "NONE" ELSE claimed
      /\ UNCHANGED <<stored, caller, consumed, crossed, forcedRuns, answered, refinements>>
  BY DEF FailBefore
<1>2. /\ flight' \in [EngineOps -> Flights] /\ flight'[op].pc = "SETTLED" /\ flight'[op].result = "ERROR"
      /\ flight'[op].request = flight[op].request
      /\ \A o \in EngineOps : o # op => flight'[o] = flight[o]
  BY <1>1, Settles
<1>3. EngineTypes' /\ OneForced'
  BY <1>1, <1>2 DEF EngineInv, EngineTypes, OneForced
<1>4. CallersAsk' /\ RecordsAreTrue' /\ AnswersAreRecords' /\ RefinementsAreRecords'
  BY <1>1 DEF EngineInv, CallersAsk, RecordsAreTrue, AnswersAreRecords, RefinementsAreRecords, Known
<1>5. crossed[op] = 0
  BY <1>1 DEF EngineInv, SendsAreWhere
<1>6. SendsAreWhere'
  <2> SUFFICES ASSUME NEW o \in EngineOps
               PROVE  /\ flight'[o].pc # "NONE" => /\ flight'[o].request \in EngineRequests
                                                   /\ flight'[o].request.op = o /\ flight'[o].request.kind = "SEND"
                      /\ flight'[o].pc = "AUTHORIZE" =>
                            stored[o].outcome = "NONE" /\ crossed[o] = 0 /\ (flight'[o].forced => claimed' = o)
                      /\ flight'[o].pc = "RUN" =>
                            stored[o].outcome = "NONE" /\ crossed[o] = 1 /\ (flight'[o].forced => forcedRuns = 1)
                      /\ flight'[o].pc = "SETTLED" /\ flight'[o].result # "ERROR" =>
                            stored[o].outcome # "NONE" /\ stored[o].request = flight'[o].request
                            /\ stored[o].outcome = flight'[o].result
                      /\ crossed[o] = 1 => flight'[o].pc = "RUN" \/ stored[o].outcome # "NONE"
    BY <1>1 DEF SendsAreWhere, PendingSend, Known
  <2>1. CASE o = op
    BY <1>1, <1>2, <1>5, <2>1, OnTheWay
  <2>2. CASE o # op
    BY <1>1, <1>2, <2>2 DEF EngineInv, SendsAreWhere, PendingSend, Known
  <2> QED  BY <2>1, <2>2
<1> QED  BY <1>3, <1>4, <1>6 DEF EngineInv

(* The send's outcome is recorded, and what its callers will be given is the *)
(* record or an error.                                                       *)
LEMMA RecordedSend ==
    ASSUME EngineInv, NEW op \in EngineOps, flight[op].pc = "RUN",
           NEW outcome \in {"APPLIED", "UNKNOWN"}, NEW refined \in {"UNKNOWN", "APPLIED"},
           refined = "APPLIED" => outcome = "UNKNOWN" /\ flight[op].forced,
           StoreReceipt(flight[op].request, outcome, refined),
           NEW result \in {outcome, "ERROR"}, SendSettles(op, result),
           UNCHANGED <<caller, claimed, consumed, crossed, forcedRuns, answered, refinements>>
    PROVE  EngineInv'
<1> DEFINE r == flight[op].request
<1> DEFINE rec == [request |-> r, outcome |-> outcome, refined |-> refined, reconciled |-> "NONE"]
<1>1. r \in EngineRequests /\ r.op = op /\ r.kind = "SEND" /\ stored[op].outcome = "NONE"
  BY OnTheWay
<1>2. stored' = [stored EXCEPT ![op] = rec] /\ stored \in [EngineOps -> Records] /\ rec \in Records
  BY <1>1 DEF StoreReceipt, EngineInv, EngineTypes, Records, EngineOutcomes, AnyRequest
<1>3. stored' \in [EngineOps -> Records] /\ stored'[op] = rec /\ \A o \in EngineOps : o # op => stored'[o] = stored[o]
  BY <1>2
<1>4. /\ flight' \in [EngineOps -> Flights] /\ flight'[op].pc = "SETTLED" /\ flight'[op].result = result
      /\ flight'[op].request = r
      /\ \A o \in EngineOps : o # op => flight'[o] = flight[o]
  BY Settles DEF EngineOutcomes
<1>5. crossed[op] = 1 /\ (flight[op].forced => forcedRuns = 1)
  BY DEF EngineInv, SendsAreWhere
<1>6. EngineTypes' /\ OneForced' /\ CallersAsk'
  BY <1>3, <1>4 DEF EngineInv, EngineTypes, OneForced, CallersAsk
<1>7. RecordsAreTrue'
  BY <1>1, <1>3, <1>5 DEF EngineInv, RecordsAreTrue, Known
<1>8. SendsAreWhere'
  <2> SUFFICES ASSUME NEW o \in EngineOps
               PROVE  /\ flight'[o].pc # "NONE" => /\ flight'[o].request \in EngineRequests
                                                   /\ flight'[o].request.op = o /\ flight'[o].request.kind = "SEND"
                      /\ flight'[o].pc = "AUTHORIZE" =>
                            stored'[o].outcome = "NONE" /\ crossed[o] = 0 /\ (flight'[o].forced => claimed = o)
                      /\ flight'[o].pc = "RUN" =>
                            stored'[o].outcome = "NONE" /\ crossed[o] = 1 /\ (flight'[o].forced => forcedRuns = 1)
                      /\ flight'[o].pc = "SETTLED" /\ flight'[o].result # "ERROR" =>
                            stored'[o].outcome # "NONE" /\ stored'[o].request = flight'[o].request
                            /\ stored'[o].outcome = flight'[o].result
                      /\ crossed[o] = 1 => flight'[o].pc = "RUN" \/ stored'[o].outcome # "NONE"
    BY DEF SendsAreWhere, PendingSend, Known
  <2>1. CASE o = op
    BY <1>1, <1>3, <1>4, <2>1
  <2>2. CASE o # op
    BY <1>3, <1>4, <2>2 DEF EngineInv, SendsAreWhere, PendingSend, Known
  <2> QED  BY <2>1, <2>2
<1>9. AnswersAreRecords'
  <2> SUFFICES ASSUME NEW a \in answered, a.request.kind = "SEND"
               PROVE  /\ stored'[a.request.op].outcome # "NONE" /\ stored'[a.request.op].request = a.request
                      /\ stored'[a.request.op].outcome = a.outcome
    BY DEF AnswersAreRecords, Known
  <2>1. a.request.op \in EngineOps
    BY OpsOfRequests DEF EngineInv, EngineTypes
  <2> QED  BY <1>1, <1>3, <2>1 DEF EngineInv, AnswersAreRecords, Known
<1>10. RefinementsAreRecords'
  <2> SUFFICES ASSUME NEW x \in refinements
               PROVE  stored'[x.op].outcome = "UNKNOWN" /\ stored'[x.op].reconciled = x.outcome
    BY DEF RefinementsAreRecords
  <2>1. x.op \in EngineOps
    BY DEF EngineInv, EngineTypes
  <2> QED  BY <1>1, <1>3, <2>1 DEF EngineInv, RefinementsAreRecords
<1> QED  BY <1>6, <1>7, <1>8, <1>9, <1>10 DEF EngineInv

LEMMA EngineReturnKeeps == ASSUME EngineInv, NEW op \in EngineOps, ProcessReturns(op) PROVE EngineInv'
<1>1. PICK result \in ResultsOf(op) :
         LET outcome == IF result = "WHOLE" THEN "APPLIED" ELSE "UNKNOWN" IN
         /\ StoreReceipt(flight[op].request, outcome, IF result = "INTERRUPTED" THEN "APPLIED" ELSE "UNKNOWN")
         /\ SendSettles(op, outcome)
  BY DEF ProcessReturns
<1> DEFINE outcome == IF result = "WHOLE" THEN "APPLIED" ELSE "UNKNOWN"
<1> DEFINE refined == IF result = "INTERRUPTED" THEN "APPLIED" ELSE "UNKNOWN"
<1>2. outcome \in {"APPLIED", "UNKNOWN"} /\ refined \in {"UNKNOWN", "APPLIED"}
      /\ (refined = "APPLIED" => outcome = "UNKNOWN" /\ flight[op].forced)
  BY DEF ResultsOf
<1>3. StoreReceipt(flight[op].request, outcome, refined) /\ SendSettles(op, outcome)
  BY <1>1
<1>4. flight[op].pc = "RUN" /\ UNCHANGED <<caller, claimed, consumed, crossed, forcedRuns, answered, refinements>>
  BY DEF ProcessReturns
<1>5. outcome \in {outcome, "ERROR"}
  OBVIOUS
<1> HIDE DEF outcome, refined
<1> QED  BY <1>2, <1>3, <1>4, <1>5, RecordedSend

LEMMA FailAfterKeeps == ASSUME EngineInv, NEW op \in EngineOps, FailAfter(op) PROVE EngineInv'
<1>1. flight[op].pc = "RUN" /\ SendSettles(op, "ERROR")
      /\ UNCHANGED <<caller, claimed, consumed, crossed, forcedRuns, answered, refinements>>
  BY DEF FailAfter
<1>2. StoreReceipt(flight[op].request, "UNKNOWN", "UNKNOWN")
  BY <1>1, OnTheWay DEF FailAfter, Tombstone, Known
<1> QED  BY <1>1, <1>2, RecordedSend

LEMMA ResolveKeeps == ASSUME EngineInv, NEW op \in EngineOps, PendingResolves(op) PROVE EngineInv'
<1> DEFINE given == [request |-> flight[op].request, outcome |-> flight[op].result]
<1>1. /\ flight[op].pc = "SETTLED" /\ flight' = [flight EXCEPT ![op] = NoFlight]
      /\ UNCHANGED <<stored, claimed, consumed, crossed, forcedRuns, refinements>>
  BY DEF PendingResolves
<1>2. \A a \in answered' : a \in answered \/ (a = given /\ flight[op].result # "ERROR")
  BY DEF PendingResolves
<1>3. /\ flight[op].request \in EngineRequests /\ flight[op].request.op = op
      /\ flight[op].result # "ERROR" => /\ stored[op].outcome # "NONE" /\ stored[op].request = flight[op].request
                                        /\ stored[op].outcome = flight[op].result /\ flight[op].result \in EngineOutcomes
  BY <1>1 DEF EngineInv, EngineTypes, SendsAreWhere, PendingSend, Known, Records, Flights
<1>4. NoFlight \in Flights /\ NoFlight.pc = "NONE"
  BY DEF NoFlight, Flights, AnyRequest
<1>5. /\ flight' \in [EngineOps -> Flights] /\ flight'[op].pc = "NONE"
      /\ \A o \in EngineOps : o # op => flight'[o] = flight[o]
  BY <1>1, <1>4 DEF EngineInv, EngineTypes
<1>6. caller' \in [EngineCallers -> CallerStates] /\ CallersAsk'
  <2>1. caller' = [c \in EngineCallers |-> IF caller[c].pc = "SHARES" /\ caller[c].request.op = op THEN Free ELSE caller[c]]
    BY DEF PendingResolves
  <2> QED  BY <2>1, FreeStates DEF EngineInv, EngineTypes, CallersAsk
<1>7. answered' \subseteq [request : EngineRequests, outcome : EngineOutcomes]
  BY <1>2, <1>3 DEF EngineInv, EngineTypes
<1>8. EngineTypes' /\ OneForced'
  BY <1>1, <1>5, <1>6, <1>7 DEF EngineInv, EngineTypes, OneForced
<1>9. AnswersAreRecords'
  BY <1>1, <1>2, <1>3 DEF EngineInv, AnswersAreRecords, Known
<1>10. RecordsAreTrue' /\ RefinementsAreRecords'
  BY <1>1 DEF EngineInv, RecordsAreTrue, RefinementsAreRecords, Known
<1>11. SendsAreWhere'
  <2> SUFFICES ASSUME NEW o \in EngineOps
               PROVE  /\ flight'[o].pc # "NONE" => /\ flight'[o].request \in EngineRequests
                                                   /\ flight'[o].request.op = o /\ flight'[o].request.kind = "SEND"
                      /\ flight'[o].pc = "AUTHORIZE" =>
                            stored[o].outcome = "NONE" /\ crossed[o] = 0 /\ (flight'[o].forced => claimed = o)
                      /\ flight'[o].pc = "RUN" =>
                            stored[o].outcome = "NONE" /\ crossed[o] = 1 /\ (flight'[o].forced => forcedRuns = 1)
                      /\ flight'[o].pc = "SETTLED" /\ flight'[o].result # "ERROR" =>
                            stored[o].outcome # "NONE" /\ stored[o].request = flight'[o].request
                            /\ stored[o].outcome = flight'[o].result
                      /\ crossed[o] = 1 => flight'[o].pc = "RUN" \/ stored[o].outcome # "NONE"
    BY <1>1 DEF SendsAreWhere, PendingSend, Known
  <2>1. CASE o = op
    BY <1>1, <1>5, <2>1 DEF EngineInv, SendsAreWhere, PendingSend, Known
  <2>2. CASE o # op
    BY <1>5, <2>2 DEF EngineInv, SendsAreWhere, PendingSend, Known
  <2> QED  BY <2>1, <2>2
<1> QED  BY <1>6, <1>8, <1>9, <1>10, <1>11 DEF EngineInv

(* The first answer to a reconciliation is kept, so the next is the same.    *)
LEMMA ReconcileKeeps == ASSUME EngineInv, NEW op \in EngineOps, Reconcile(op) PROVE EngineInv'
<1> DEFINE outcome == IF stored[op].reconciled = "NONE" THEN stored[op].refined ELSE stored[op].reconciled
<1> DEFINE rec == [stored[op] EXCEPT !.reconciled = outcome]
<1>1. /\ stored[op].outcome = "UNKNOWN" /\ stored' = [stored EXCEPT ![op] = rec]
      /\ refinements' = refinements \cup {[op |-> op, outcome |-> outcome]}
      /\ UNCHANGED <<flight, caller, claimed, consumed, crossed, forcedRuns, answered>>
  BY DEF Reconcile, EngineInv, EngineTypes
<1>2. stored \in [EngineOps -> Records] /\ stored[op] \in Records /\ outcome \in {"UNKNOWN", "APPLIED"}
  BY DEF EngineInv, EngineTypes, Records
<1>3. /\ rec \in Records /\ rec.request = stored[op].request /\ rec.outcome = stored[op].outcome
      /\ rec.refined = stored[op].refined /\ rec.reconciled = outcome
  BY <1>2 DEF Records
<1>4. outcome = "APPLIED" => forcedRuns = 1
  BY DEF EngineInv, RecordsAreTrue
<1> HIDE DEF rec, outcome
<1>5. /\ stored' \in [EngineOps -> Records] /\ stored'[op] = rec
      /\ \A o \in EngineOps : stored'[o].outcome = stored[o].outcome /\ stored'[o].request = stored[o].request
      /\ \A o \in EngineOps : o # op => stored'[o] = stored[o]
  BY <1>1, <1>2, <1>3
<1>6. refinements' \subseteq [op : EngineOps, outcome : {"UNKNOWN", "APPLIED"}]
  BY <1>1, <1>2 DEF EngineInv, EngineTypes
<1>7. EngineTypes' /\ OneForced' /\ CallersAsk'
  BY <1>1, <1>5, <1>6 DEF EngineInv, EngineTypes, OneForced, CallersAsk
<1>8. RecordsAreTrue'
  <2> SUFFICES ASSUME NEW o \in EngineOps
               PROVE  /\ stored'[o].outcome # "NONE" =>
                            /\ stored'[o].request \in EngineRequests /\ stored'[o].request.op = o
                            /\ IF stored'[o].request.kind = "SEND" THEN crossed[o] = 1 /\ stored'[o].outcome # "REJECTED"
                                                                  ELSE stored'[o].outcome # "UNKNOWN"
                      /\ stored'[o].reconciled # "NONE" => stored'[o].outcome = "UNKNOWN"
                      /\ stored'[o].refined = "APPLIED" \/ stored'[o].reconciled = "APPLIED" => forcedRuns = 1
    BY <1>1 DEF RecordsAreTrue, Known
  <2>1. CASE o = op
    BY <1>1, <1>3, <1>4, <1>5, <2>1 DEF EngineInv, RecordsAreTrue, Known
  <2>2. CASE o # op
    BY <1>5, <2>2 DEF EngineInv, RecordsAreTrue, Known
  <2> QED  BY <2>1, <2>2
<1>9. SendsAreWhere'
  BY <1>1, <1>5 DEF EngineInv, SendsAreWhere, PendingSend, Known
<1>10. AnswersAreRecords'
  <2> SUFFICES ASSUME NEW a \in answered, a.request.kind = "SEND"
               PROVE  /\ stored'[a.request.op].outcome # "NONE" /\ stored'[a.request.op].request = a.request
                      /\ stored'[a.request.op].outcome = a.outcome
    BY <1>1 DEF AnswersAreRecords, Known
  <2>1. a.request.op \in EngineOps
    BY OpsOfRequests DEF EngineInv, EngineTypes
  <2> QED  BY <1>5, <2>1 DEF EngineInv, AnswersAreRecords, Known
<1>11. RefinementsAreRecords'
  <2> SUFFICES ASSUME NEW x \in refinements'
               PROVE  stored'[x.op].outcome = "UNKNOWN" /\ stored'[x.op].reconciled = x.outcome
    BY DEF RefinementsAreRecords
  <2>1. CASE x = [op |-> op, outcome |-> outcome]
    BY <1>1, <1>3, <1>5, <2>1
  <2>2. CASE x \in refinements /\ x.op = op
    <3>1. stored[op].reconciled = x.outcome /\ x.outcome \in {"UNKNOWN", "APPLIED"}
      BY <2>2 DEF EngineInv, EngineTypes, RefinementsAreRecords
    <3>2. outcome = x.outcome
      BY <3>1 DEF outcome
    <3> QED  BY <1>1, <1>3, <1>5, <2>2, <3>2
  <2>3. CASE x \in refinements /\ x.op # op
    <3>1. x.op \in EngineOps
      BY <2>3 DEF EngineInv, EngineTypes
    <3> QED  BY <1>5, <2>3, <3>1 DEF EngineInv, RefinementsAreRecords
  <2> QED  BY <1>1, <2>1, <2>2, <2>3
<1> QED  BY <1>7, <1>8, <1>9, <1>10, <1>11 DEF EngineInv

LEMMA EngineInvNext == EngineInv /\ [EngineNext]_engineVars => EngineInv'
<1> SUFFICES ASSUME EngineInv, [EngineNext]_engineVars PROVE EngineInv'
  OBVIOUS
<1>1. CASE UNCHANGED engineVars
  BY <1>1 DEF engineVars, EngineInv, EngineTypes, OneForced, CallersAsk, RecordsAreTrue, SendsAreWhere,
              AnswersAreRecords, RefinementsAreRecords, Known, PendingSend
<1>2. ASSUME NEW c \in EngineCallers,
             EngineCall(c) \/ StartFinds(c) \/ StartStores(c) \/ RecordOnly(c) \/ SendBegins(c)
      PROVE  EngineInv'
  BY <1>2, CallKeeps, StartFindsKeeps, StartStoresKeeps, RecordOnlyKeeps, SendBeginsKeeps
<1>3. ASSUME NEW op \in EngineOps,
             \/ CrossBoundary(op) \/ FailBefore(op) \/ ProcessReturns(op)
             \/ FailAfter(op) \/ PendingResolves(op) \/ Reconcile(op)
      PROVE  EngineInv'
  BY <1>3, CrossKeeps, FailBeforeKeeps, EngineReturnKeeps, FailAfterKeeps, ResolveKeeps, ReconcileKeeps
<1> QED  BY <1>1, <1>2, <1>3 DEF EngineNext

(* However its calls are repeated, shared or failed, an operation reaches the*)
(* Provider at most once, its receipts agree, and what is called applied did *)
(* happen (send, reconcile).                                                 *)
THEOREM EngineSendsOnce == EngineSpec => []SendsOnce
<1>1. EngineInit => EngineInv
  BY EngineInvInit
<1>2. EngineInv /\ [EngineNext]_engineVars => EngineInv'
  BY EngineInvNext
<1>3. EngineInv => SendsOnce
  BY EngineInvImplies
<1> QED  BY <1>1, <1>2, <1>3, PTL DEF EngineSpec

-----------------------------------------------------------------------------
(* Pilot task: a lease of the directory outlives everything but a proof     *)
(* that Pi is gone; contents only move on, so that two inspections that     *)
(* agree bound every tree between them, the checked one too.                *)

ErrandParts == {"pc", "status", "accept", "after", "started", "final", "config", "exit", "verdict", "returns"}
ReadingPoints == {"BEFORE", "LOCKED", "ACCEPT", "AFTER"}
EarlyPoints == {"BEFORE", "WRITER", "LOCKED", "LEASE", "CONFIG", "SEND", "SPAWN"}
HoldingPoints == {"CONFIG", "SEND", "SPAWN", "MARKER", "CLEANUP", "AWAIT", "FREE_LEASE", "CLEAN_LEASE"}
CheckedPoints == {"CHECKING", "AFTER", "FREE_WRITER", "RECEIPT"}
UncheckedPoints ==
    EarlyPoints \cup HoldingPoints \cup {"CLEAN_CONFIG", "ACCEPT", "CHECK", "CHECKING"}

(* A lease of the directory outlives everything but a proof that Pi is gone. *)
PiIsHeld(t) ==
    /\ errand[t].pc \in HoldingPoints => slot = t
    /\ errand[t].pc \in EarlyPoints => errand[t].started = "NO" /\ ~errand[t].final /\ ~errand[t].returns
    /\ errand[t].started \in {"NO", "YES", "REJECTED"} /\ (errand[t].started = "NO" => t \notin piTree)
    /\ errand[t].final => t \notin piTree
    /\ t \in piTree /\ errand[t].started = "YES" => slot = t /\ errand[t].config
    /\ errand[t].pc \in {"SEND", "SPAWN"} => errand[t].config
    /\ errand[t].returns => errand[t].final
    /\ errand[t].pc = "CLEAN_CONFIG" => SafeToRelease(t)
    /\ errand[t].pc \in {"FREE_LEASE", "ACCEPT", "CHECK", "DONE"} \cup CheckedPoints => errand[t].final

(* An inspection is a lower bound of every later tree and an upper bound of  *)
(* every earlier one, because no edit restores a content.                    *)
Below(x, tree) ==
    x.status \subseteq Paths /\ \A p \in x.status : x.digest[p] \in Nat /\ x.digest[p] > 0 /\ x.digest[p] <= tree[p]
Above(x, tree) ==
    /\ tree["head"] <= x.head
    /\ \A p \in Paths : IF p \in x.status THEN tree[p] <= x.digest[p] ELSE tree[p] = 0
RanBetween(t) ==
    /\ checked[t] # {}
    /\ \A ran \in checked[t] : Below(errand[t].accept, ran) /\ \A p \in Parts : ran[p] <= folder[p]
ProofIsGathered(t) ==
    /\ errand[t].pc \notin ReadingPoints \cup {"DEAD"} => errand[t].status = Unread
    /\ errand[t].status # Unread =>
          errand[t].status \subseteq Paths /\ \A p \in errand[t].status : folder[p] > 0
    /\ errand[t].pc \in UncheckedPoints => errand[t].verdict = "NONE"
    /\ errand[t].verdict = "PASS" => t \notin checkTree
    /\ errand[t].pc \in {"CHECK", "CHECKING"} => Below(errand[t].accept, folder)
    /\ errand[t].pc \in CheckedPoints => RanBetween(t)
    /\ errand[t].pc = "AFTER" /\ errand[t].status # Unread =>
          \A ran \in checked[t], p \in Paths \ errand[t].status : ran[p] = 0
    /\ errand[t].pc \in {"FREE_WRITER", "RECEIPT"} => \A ran \in checked[t] : Above(errand[t].after, ran)
    /\ Accepted(t) => /\ checked[t] # {}
                      /\ \A ran \in checked[t] : Below(errand[t].accept, ran) /\ Above(errand[t].after, ran)
                      /\ SourcePreserved(t) /\ WithinScope(t) /\ WorkspacePreserved(t)

TaskShapes ==
    /\ folder \in [Parts -> Nat]
    /\ DOMAIN errand = Tasks /\ \A t \in Tasks : DOMAIN errand[t] = ErrandParts
    /\ checked \in [Tasks -> SUBSET [Parts -> Nat]]
    /\ piTree \subseteq Tasks /\ checkTree \subseteq Tasks
TaskInv == TaskShapes /\ \A t \in Tasks : PiIsHeld(t) /\ ProofIsGathered(t)

LEMMA TaskInvInit == TaskInit => TaskInv
<1> SUFFICES ASSUME TaskInit PROVE TaskInv
  OBVIOUS
<1>1. TaskShapes
  BY DEF TaskInit, TaskShapes, ErrandParts
<1>2. ASSUME NEW t \in Tasks PROVE PiIsHeld(t) /\ ProofIsGathered(t)
  <2>1. /\ errand[t].pc \in {"LEASE", "BEFORE"} /\ errand[t].status = Unread /\ errand[t].verdict = "NONE"
        /\ errand[t].started = "NO" /\ errand[t].final = FALSE /\ errand[t].returns = FALSE
    BY DEF TaskInit, Enters
  <2>2. t \notin piTree /\ t \notin checkTree
    BY DEF TaskInit
  <2>3. PiIsHeld(t)
    BY <2>1, <2>2 DEF PiIsHeld, HoldingPoints, EarlyPoints, CheckedPoints
  <2>4. ProofIsGathered(t)
    BY <2>1, <2>2 DEF ProofIsGathered, ReadingPoints, CheckedPoints, Accepted, TaskAt
  <2> QED  BY <2>3, <2>4
<1> QED  BY <1>1, <1>2 DEF TaskInv

\* A step of one task: what the others rely on.
OneTaskMoves(t) ==
    /\ UNCHANGED folder
    /\ DOMAIN errand' = Tasks /\ \A s \in Tasks : DOMAIN errand'[s] = ErrandParts
    /\ \A s \in Tasks \ {t} : errand'[s] = errand[s] /\ checked'[s] = checked[s]
    /\ checked' \in [Tasks -> SUBSET [Parts -> Nat]]
    /\ piTree' \subseteq piTree \cup {t} /\ checkTree' \subseteq checkTree \cup {t}
    /\ slot' # slot => slot \in {t, "NONE"}

LEMMA OneTaskKeeps ==
  ASSUME TaskInv, NEW t \in Tasks, OneTaskMoves(t), PiIsHeld(t)', ProofIsGathered(t)'
  PROVE  TaskInv'
<1>1. TaskShapes'
  BY DEF OneTaskMoves, TaskInv, TaskShapes
<1>2. ASSUME NEW s \in Tasks, s # t PROVE PiIsHeld(s)' /\ ProofIsGathered(s)'
  <2>1. errand'[s] = errand[s] /\ checked'[s] = checked[s] /\ UNCHANGED folder
    BY <1>2 DEF OneTaskMoves
  <2>2. (s \in piTree' => s \in piTree) /\ (s \in checkTree' => s \in checkTree) /\ (slot = s => slot' = s)
    BY <1>2, TaskAssumption DEF OneTaskMoves
  <2>3. PiIsHeld(s) /\ ProofIsGathered(s)
    BY DEF TaskInv
  <2>4. PiIsHeld(s)'
    BY <2>1, <2>2, <2>3 DEF PiIsHeld, SafeToRelease
  <2>5. ProofIsGathered(s)'
    BY <2>1, <2>2, <2>3 DEF ProofIsGathered, RanBetween, Accepted, TaskAt, SourcePreserved, WithinScope, WorkspacePreserved
  <2> QED  BY <2>4, <2>5
<1> QED  BY <1>1, <1>2 DEF TaskInv

LEMMA ErrandIsRecord == ASSUME TaskInv, NEW t \in Tasks
  PROVE /\ t \in DOMAIN errand /\ DOMAIN errand[t] = ErrandParts
        /\ PiIsHeld(t) /\ ProofIsGathered(t)
BY DEF TaskInv, TaskShapes

\* A step of one task that changes nothing but its own errand, and leases.
ErrandSteps(t) ==
    /\ DOMAIN errand' = Tasks /\ \A s \in Tasks \ {t} : errand'[s] = errand[s]
    /\ DOMAIN errand'[t] = ErrandParts
    /\ UNCHANGED <<folder, checked, checkTree>>
    /\ piTree' \subseteq piTree \cup {t}
    /\ slot' # slot => slot \in {t, "NONE"}

LEMMA ErrandStepMoves ==
  ASSUME TaskInv, NEW t \in Tasks, ErrandSteps(t)
  PROVE  OneTaskMoves(t)
BY DEF TaskInv, TaskShapes, ErrandSteps, OneTaskMoves

\* What the proof is about does not change while a Pi process is at work.
LEMMA ProcessKeepsProof ==
  ASSUME TaskInv, NEW t \in Tasks, ErrandSteps(t),
         errand'[t].status = errand[t].status, errand'[t].verdict = errand[t].verdict,
         errand[t].pc \in UncheckedPoints \ ReadingPoints,
         errand'[t].pc \notin {"CHECK"} \cup CheckedPoints
  PROVE  ProofIsGathered(t)'
<1>1. UNCHANGED <<folder, checked, checkTree>>
  BY DEF ErrandSteps
<1>2. errand[t].pc # "DEAD"
  BY DEF UncheckedPoints, EarlyPoints, HoldingPoints
<1>3. errand[t].verdict = "NONE" /\ errand[t].status = Unread
  BY <1>2, ErrandIsRecord DEF ProofIsGathered
<1> QED
  BY <1>1, <1>3 DEF ProofIsGathered, Accepted, TaskAt, CheckedPoints

\* A step of a process that only moves on.
LEMMA TaskToFields ==
  ASSUME TaskInv, NEW t \in Tasks, NEW pc, TaskTo(t, pc)
  PROVE  /\ DOMAIN errand' = Tasks /\ \A s \in Tasks \ {t} : errand'[s] = errand[s]
         /\ DOMAIN errand'[t] = ErrandParts /\ errand'[t].pc = pc
         /\ errand'[t].status = errand[t].status /\ errand'[t].accept = errand[t].accept
         /\ errand'[t].after = errand[t].after /\ errand'[t].started = errand[t].started
         /\ errand'[t].final = errand[t].final /\ errand'[t].config = errand[t].config
         /\ errand'[t].verdict = errand[t].verdict /\ errand'[t].returns = errand[t].returns
BY DEF TaskInv, TaskShapes, TaskTo, ErrandParts

LEMMA AcquireSlotKeeps == ASSUME TaskInv, NEW t \in Tasks, AcquireSlot(t) PROVE TaskInv'
<1>1. PICK pc \in {"CONFIG", "FAILED", "UNWIND"} :
         TaskTo(t, pc) /\ (IF pc = "CONFIG" THEN slot = "NONE" /\ slot' = t ELSE UNCHANGED slot)
  BY DEF AcquireSlot, Throws, AfterThrow
<1>2. errand[t].pc = "LEASE" /\ UNCHANGED <<folder, piTree, checkTree, checked>>
  BY DEF AcquireSlot, TaskAt
<1>3. ErrandSteps(t)
  BY <1>1, <1>2, TaskToFields DEF ErrandSteps
<1>4. ProofIsGathered(t)'
  BY <1>1, <1>2, <1>3, TaskToFields, ProcessKeepsProof DEF UncheckedPoints, EarlyPoints, CheckedPoints, ReadingPoints
<1>5. PiIsHeld(t)'
  BY <1>1, <1>2, TaskToFields, ErrandIsRecord DEF PiIsHeld, EarlyPoints, HoldingPoints, CheckedPoints
<1> QED  BY <1>3, <1>4, <1>5, ErrandStepMoves, OneTaskKeeps

LEMMA StartStepsKeep ==
  ASSUME TaskInv, NEW t \in Tasks, SnapshotConfiguration(t) \/ AuthorizeTask(t) \/ StartPi(t)
  PROVE  TaskInv'
<1>1. errand[t].pc \in {"CONFIG", "SEND", "SPAWN"} /\ UNCHANGED <<folder, slot, checkTree, checked>>
  BY DEF SnapshotConfiguration, AuthorizeTask, StartPi, TaskAt
<1>2. /\ DOMAIN errand' = Tasks /\ \A s \in Tasks \ {t} : errand'[s] = errand[s]
      /\ DOMAIN errand'[t] = ErrandParts
      /\ errand'[t].status = errand[t].status /\ errand'[t].final = errand[t].final
      /\ errand'[t].verdict = errand[t].verdict /\ errand'[t].returns = errand[t].returns
      /\ errand[t].config => errand'[t].config
      /\ errand'[t].pc \in {"SEND", "SPAWN", "CLEAN_LEASE", "MARKER", "AWAIT"}
      /\ errand'[t].pc \in {"SEND", "SPAWN"} =>
            errand'[t].config /\ errand'[t].started = errand[t].started /\ UNCHANGED piTree
      /\ \/ UNCHANGED piTree /\ errand'[t].started = errand[t].started
         \/ /\ piTree' \in {piTree, piTree \cup {t}} /\ errand[t].config
            /\ errand'[t].started \in {"YES", "REJECTED"} /\ errand'[t].pc \in {"CLEAN_LEASE", "MARKER", "AWAIT"}
  <2>1. CASE SnapshotConfiguration(t)
    BY <2>1, TaskToFields DEF TaskInv, TaskShapes, SnapshotConfiguration, ErrandParts
  <2>2. CASE AuthorizeTask(t)
    <3>1. PICK pc \in {"SPAWN", "CLEAN_LEASE"} : TaskTo(t, pc) /\ UNCHANGED piTree
      BY <2>2 DEF AuthorizeTask
    <3>2. errand[t].config
      BY <2>2, ErrandIsRecord DEF PiIsHeld, AuthorizeTask, TaskAt
    <3> QED  BY <3>1, <3>2, TaskToFields
  <2>3. CASE StartPi(t)
    <3>1. errand[t].config
      BY <2>3, ErrandIsRecord DEF PiIsHeld, StartPi, TaskAt
    <3> QED  BY <2>3, <3>1 DEF TaskInv, TaskShapes, StartPi, ErrandParts
  <2> QED  BY <2>1, <2>2, <2>3
<1>3. ErrandSteps(t)
  BY <1>1, <1>2 DEF ErrandSteps
<1>4. ProofIsGathered(t)'
  BY <1>1, <1>2, <1>3, ProcessKeepsProof DEF UncheckedPoints, EarlyPoints, CheckedPoints, ReadingPoints
<1>5. PiIsHeld(t)'
  BY <1>1, <1>2, ErrandIsRecord DEF PiIsHeld, EarlyPoints, HoldingPoints, CheckedPoints
<1> QED  BY <1>3, <1>4, <1>5, ErrandStepMoves, OneTaskKeeps

LEMMA WaitStepsKeep ==
  ASSUME TaskInv, NEW t \in Tasks, ObserveMarker(t) \/ FinalizeAfterFailure(t) \/ AwaitPi(t)
  PROVE  TaskInv'
<1>1. errand[t].pc \in {"MARKER", "CLEANUP", "AWAIT"} /\ UNCHANGED <<folder, slot, piTree, checkTree, checked>>
  BY DEF ObserveMarker, FinalizeAfterFailure, AwaitPi, TaskAt
<1>2. /\ DOMAIN errand' = Tasks /\ \A s \in Tasks \ {t} : errand'[s] = errand[s]
      /\ DOMAIN errand'[t] = ErrandParts
      /\ errand'[t].status = errand[t].status /\ errand'[t].started = errand[t].started
      /\ errand'[t].verdict = errand[t].verdict /\ errand'[t].config = errand[t].config
      /\ errand'[t].pc \in {"CLEANUP", "AWAIT", "CLEAN_LEASE", "FREE_LEASE"}
      /\ \/ /\ errand'[t].final = errand[t].final /\ errand'[t].returns = errand[t].returns
            /\ errand'[t].pc # "FREE_LEASE"
         \/ ExactFinality(t) /\ errand'[t].final
  <2>1. CASE ObserveMarker(t)
    <3>1. PICK pc \in {"CLEANUP", "AWAIT"} : TaskTo(t, pc)
      BY <2>1 DEF ObserveMarker
    <3> QED  BY <3>1, TaskToFields
  <2>2. CASE FinalizeAfterFailure(t)
    BY <2>2, TaskToFields DEF TaskInv, TaskShapes, FinalizeAfterFailure, ErrandParts
  <2>3. CASE AwaitPi(t)
    <3>1. \/ TaskTo(t, "CLEAN_LEASE")
          \/ ExactFinality(t) /\ errand' = [errand EXCEPT ![t].final = TRUE, ![t].pc = "CLEAN_LEASE"]
          \/ /\ ExactFinality(t)
             /\ \E e \in Exits : errand' = [errand EXCEPT ![t].final = TRUE, ![t].exit = e,
                                            ![t].returns = TRUE, ![t].pc = "FREE_LEASE"]
      BY <2>3 DEF AwaitPi
    <3>2. CASE TaskTo(t, "CLEAN_LEASE")
      BY <3>2, TaskToFields
    <3>3. CASE ExactFinality(t) /\ errand' = [errand EXCEPT ![t].final = TRUE, ![t].pc = "CLEAN_LEASE"]
      BY <3>3 DEF TaskInv, TaskShapes, ErrandParts
    <3>4. ASSUME ExactFinality(t),
                 NEW e \in Exits, errand' = [errand EXCEPT ![t].final = TRUE, ![t].exit = e,
                                            ![t].returns = TRUE, ![t].pc = "FREE_LEASE"]
          PROVE  /\ DOMAIN errand' = Tasks /\ \A s \in Tasks \ {t} : errand'[s] = errand[s]
                 /\ DOMAIN errand'[t] = ErrandParts
                 /\ errand'[t].status = errand[t].status /\ errand'[t].started = errand[t].started
                 /\ errand'[t].verdict = errand[t].verdict /\ errand'[t].config = errand[t].config
                 /\ errand'[t].pc = "FREE_LEASE" /\ errand'[t].final
      BY <3>4 DEF TaskInv, TaskShapes, ErrandParts
    <3> QED  BY <3>1, <3>2, <3>3, <3>4
  <2> QED  BY <2>1, <2>2, <2>3
<1>3. ErrandSteps(t)
  BY <1>1, <1>2 DEF ErrandSteps
<1>4. ProofIsGathered(t)'
  BY <1>1, <1>2, <1>3, ProcessKeepsProof DEF UncheckedPoints, HoldingPoints, CheckedPoints, ReadingPoints
<1>5. PiIsHeld(t)'
  BY <1>1, <1>2, ErrandIsRecord DEF PiIsHeld, EarlyPoints, HoldingPoints, CheckedPoints, ExactFinality
<1> QED  BY <1>3, <1>4, <1>5, ErrandStepMoves, OneTaskKeeps

LEMMA CleanStepsKeep ==
  ASSUME TaskInv, NEW t \in Tasks, FreeSlot(t) \/ CleanSlot(t) \/ CleanConfiguration(t)
  PROVE  TaskInv'
<1>1. errand[t].pc \in {"FREE_LEASE", "CLEAN_LEASE", "CLEAN_CONFIG"} /\ UNCHANGED <<folder, piTree, checkTree, checked>>
  BY DEF FreeSlot, CleanSlot, CleanConfiguration, TaskAt
<1>2. /\ DOMAIN errand' = Tasks /\ \A s \in Tasks \ {t} : errand'[s] = errand[s]
      /\ DOMAIN errand'[t] = ErrandParts
      /\ errand'[t].status = errand[t].status /\ errand'[t].started = errand[t].started
      /\ errand'[t].verdict = errand[t].verdict /\ errand'[t].final = errand[t].final
      /\ errand'[t].returns => errand[t].returns
      /\ errand'[t].pc \in {"CLEAN_CONFIG", "CLEAN_LEASE", "FAILED", "UNWIND", "ACCEPT", "DONE"}
      /\ errand'[t].pc = "CLEAN_LEASE" => slot = t /\ UNCHANGED slot /\ errand'[t].config = errand[t].config
      /\ errand'[t].pc \in {"ACCEPT", "DONE"} => errand[t].final
      /\ errand'[t].pc = "CLEAN_CONFIG" => SafeToRelease(t)
      /\ \/ UNCHANGED slot /\ errand'[t].config = errand[t].config
         \/ slot = t /\ errand'[t].config = errand[t].config /\ SafeToRelease(t)
         \/ UNCHANGED slot /\ SafeToRelease(t)
  <2>0. PiIsHeld(t)
    BY ErrandIsRecord
  <2>1. CASE FreeSlot(t)
    BY <2>0, <2>1, TaskToFields DEF TaskInv, TaskShapes, FreeSlot, ErrandParts, PiIsHeld, TaskAt, HoldingPoints, SafeToRelease
  <2>2. CASE CleanSlot(t)
    <3>1. PICK pc \in {"CLEAN_CONFIG", "FAILED", "UNWIND"} :
             TaskTo(t, pc) /\ (pc = "CLEAN_CONFIG" => SafeToRelease(t)) /\ (~SafeToRelease(t) => UNCHANGED slot)
      BY <2>2 DEF CleanSlot, Throws, AfterThrow
    <3>2. slot = t
      BY <2>0, <2>2 DEF PiIsHeld, HoldingPoints, CleanSlot, TaskAt
    <3> QED  BY <3>1, <3>2, TaskToFields
  <2>3. CASE CleanConfiguration(t)
    <3>1. SafeToRelease(t) /\ UNCHANGED slot /\ (errand[t].returns => errand[t].final)
      BY <2>0, <2>3 DEF PiIsHeld, CleanConfiguration, TaskAt
    <3>2. \/ Throws(t)
          \/ \E pc \in {"DONE", "ACCEPT", "FAILED", "UNWIND"} :
                /\ errand' = [errand EXCEPT ![t].pc = pc, ![t].config = FALSE]
                /\ pc \in {"DONE", "ACCEPT"} => errand[t].returns
      BY <2>3 DEF CleanConfiguration, AfterThrow
    <3>3. /\ DOMAIN errand' = Tasks /\ \A s \in Tasks \ {t} : errand'[s] = errand[s]
          /\ DOMAIN errand'[t] = ErrandParts
          /\ errand'[t].status = errand[t].status /\ errand'[t].started = errand[t].started
          /\ errand'[t].verdict = errand[t].verdict /\ errand'[t].final = errand[t].final
          /\ errand'[t].returns = errand[t].returns
          /\ errand'[t].pc \in {"FAILED", "UNWIND", "ACCEPT", "DONE"}
          /\ errand'[t].pc \in {"ACCEPT", "DONE"} => errand[t].returns
      <4>1. CASE Throws(t)
        BY <4>1, TaskToFields DEF Throws, AfterThrow
      <4>2. ASSUME NEW pc \in {"DONE", "ACCEPT", "FAILED", "UNWIND"}, pc \in {"DONE", "ACCEPT"} => errand[t].returns,
                   errand' = [errand EXCEPT ![t].pc = pc, ![t].config = FALSE]
            PROVE  /\ DOMAIN errand' = Tasks /\ \A s \in Tasks \ {t} : errand'[s] = errand[s]
                   /\ DOMAIN errand'[t] = ErrandParts
                   /\ errand'[t].status = errand[t].status /\ errand'[t].started = errand[t].started
                   /\ errand'[t].verdict = errand[t].verdict /\ errand'[t].final = errand[t].final
                   /\ errand'[t].returns = errand[t].returns /\ errand'[t].pc = pc
        BY <4>2 DEF TaskInv, TaskShapes, ErrandParts
      <4> QED  BY <3>2, <4>1, <4>2
    <3> QED  BY <3>1, <3>3
  <2> QED  BY <2>1, <2>2, <2>3
<1>3. ErrandSteps(t)
  BY <1>1, <1>2 DEF ErrandSteps
<1>4. ProofIsGathered(t)'
  BY <1>1, <1>2, <1>3, ProcessKeepsProof DEF UncheckedPoints, HoldingPoints, CheckedPoints, ReadingPoints
<1>5. PiIsHeld(t) /\ (SafeToRelease(t) => SafeToRelease(t)')
  BY <1>2, ErrandIsRecord DEF SafeToRelease
<1>6. t \in piTree' /\ errand'[t].started = "YES" => slot' = t /\ errand'[t].config
  BY <1>1, <1>2, <1>5 DEF PiIsHeld, SafeToRelease
<1>7. errand'[t].pc \in HoldingPoints => slot' = t
  BY <1>1, <1>2, <1>5 DEF PiIsHeld, HoldingPoints
<1>8. PiIsHeld(t)'
  BY <1>1, <1>2, <1>5, <1>6, <1>7 DEF PiIsHeld, EarlyPoints, CheckedPoints
<1> QED  BY <1>3, <1>4, <1>8, ErrandStepMoves, OneTaskKeeps

\* A binding and its inspection: nothing of the process, nothing of the proof.
LEMMA BindStepsKeep ==
  ASSUME TaskInv, NEW t \in Tasks,
         ReadStatus(t) \/ BindTask(t) \/ AcquireWriter(t) \/ BindAgain(t) \/ ReleaseWriter(t) \/ UnwindWriter(t)
  PROVE  TaskInv'
<1>1. UNCHANGED <<folder, slot, piTree, checkTree, checked>>
  BY DEF ReadStatus, BindTask, AcquireWriter, BindAgain, ReleaseWriter, UnwindWriter
<1>2. PiIsHeld(t) /\ ProofIsGathered(t)
  BY ErrandIsRecord
<1>3. CASE ReadStatus(t)
  <2>1. /\ DOMAIN errand' = Tasks /\ \A s \in Tasks \ {t} : errand'[s] = errand[s]
        /\ DOMAIN errand'[t] = ErrandParts /\ errand'[t].pc = errand[t].pc
        /\ errand'[t].status = ChangedPaths /\ errand'[t].accept = errand[t].accept
        /\ errand'[t].after = errand[t].after /\ errand'[t].started = errand[t].started
        /\ errand'[t].final = errand[t].final /\ errand'[t].config = errand[t].config
        /\ errand'[t].verdict = errand[t].verdict /\ errand'[t].returns = errand[t].returns
    BY <1>3 DEF TaskInv, TaskShapes, ReadStatus, ErrandParts
  <2>2. errand[t].pc \in ReadingPoints
    BY <1>3 DEF ReadStatus, ReadingPoints
  <2>3. PiIsHeld(t)'
    BY <1>1, <1>2, <2>1 DEF PiIsHeld, SafeToRelease
  <2>4. errand[t].pc = "AFTER" => \A ran \in checked[t], p \in Paths \ ChangedPaths : ran[p] = 0
    <3> SUFFICES ASSUME errand[t].pc = "AFTER", NEW ran \in checked[t], NEW p \in Paths \ ChangedPaths PROVE ran[p] = 0
      OBVIOUS
    <3>1. ran[p] <= folder[p] /\ ran[p] \in Nat /\ folder[p] \in Nat /\ ~(folder[p] > 0)
      BY <1>2 DEF ProofIsGathered, CheckedPoints, RanBetween, TaskInv, TaskShapes, Parts, ChangedPaths
    <3> QED  BY <3>1
  <2>5. ChangedPaths \subseteq Paths /\ \A p \in ChangedPaths : folder[p] > 0
    BY DEF ChangedPaths
  <2>6. ProofIsGathered(t)'
    BY <1>1, <1>2, <2>1, <2>2, <2>4, <2>5 DEF ProofIsGathered, Accepted, TaskAt, CheckedPoints, UncheckedPoints,
       RanBetween, ReadingPoints, SourcePreserved, WithinScope, WorkspacePreserved
  <2>7. ErrandSteps(t)
    BY <1>1, <2>1 DEF ErrandSteps
  <2> QED  BY <2>3, <2>6, <2>7, ErrandStepMoves, OneTaskKeeps
<1>4. CASE BindTask(t) \/ BindAgain(t)
  <2>1. PICK pc \in {"WRITER", "FAILED", "LEASE", "UNWIND"} : GoesOn(t, pc)
    BY <1>4 DEF BindTask, BindAgain
  <2>2. errand[t].pc \in {"BEFORE", "LOCKED"}
    BY <1>4 DEF BindTask, BindAgain, InspectedAt, TaskAt
  <2>3. /\ DOMAIN errand' = Tasks /\ \A s \in Tasks \ {t} : errand'[s] = errand[s]
        /\ DOMAIN errand'[t] = ErrandParts /\ errand'[t].pc = pc /\ errand'[t].status = Unread
        /\ errand'[t].started = errand[t].started
        /\ errand'[t].final = errand[t].final /\ errand'[t].config = errand[t].config
        /\ errand'[t].verdict = errand[t].verdict /\ errand'[t].returns = errand[t].returns
    BY <2>1 DEF TaskInv, TaskShapes, GoesOn, ErrandParts
  <2>4. PiIsHeld(t)'
    BY <1>1, <1>2, <2>2, <2>3 DEF PiIsHeld, SafeToRelease, EarlyPoints, HoldingPoints, CheckedPoints
  <2>5. ProofIsGathered(t)'
    BY <1>1, <1>2, <2>2, <2>3 DEF ProofIsGathered, Accepted, TaskAt, CheckedPoints, UncheckedPoints, EarlyPoints
  <2>6. ErrandSteps(t)
    BY <1>1, <2>3 DEF ErrandSteps
  <2> QED  BY <2>4, <2>5, <2>6, ErrandStepMoves, OneTaskKeeps
<1>5. CASE AcquireWriter(t) \/ ReleaseWriter(t) \/ UnwindWriter(t)
  <2>1. PICK pc \in {"LOCKED", "FAILED", "RECEIPT", "UNWIND"} :
           /\ TaskTo(t, pc) /\ errand[t].pc \in {"WRITER", "FREE_WRITER", "UNWIND"}
           /\ pc = "LOCKED" => errand[t].pc = "WRITER"
           /\ pc = "RECEIPT" => errand[t].pc = "FREE_WRITER"
    BY <1>5 DEF AcquireWriter, ReleaseWriter, UnwindWriter, Throws, AfterThrow, TaskAt
  <2>2. errand[t].status = Unread
    BY <1>2, <2>1 DEF ProofIsGathered, ReadingPoints
  <2>3. PiIsHeld(t)'
    BY <1>1, <1>2, <2>1, TaskToFields DEF PiIsHeld, SafeToRelease, EarlyPoints, HoldingPoints, CheckedPoints
  <2>4. ProofIsGathered(t)'
    BY <1>1, <1>2, <2>1, <2>2, TaskToFields
       DEF ProofIsGathered, Accepted, TaskAt, CheckedPoints, UncheckedPoints, EarlyPoints, HoldingPoints, RanBetween
  <2>5. ErrandSteps(t)
    BY <1>1, <2>1, TaskToFields DEF ErrandSteps
  <2> QED  BY <2>3, <2>4, <2>5, ErrandStepMoves, OneTaskKeeps
<1> QED  BY <1>3, <1>4, <1>5

LEMMA InspectedIsBelow ==
  ASSUME TaskInv, NEW t \in Tasks, errand[t].status # Unread
  PROVE  /\ Inspected(t).head = folder["head"] /\ Inspected(t).status = errand[t].status
         /\ Inspected(t).digest = Fingerprinted(errand[t].status)
         /\ errand[t].status \subseteq Paths
         /\ \A p \in errand[t].status : /\ Inspected(t).digest[p] = folder[p]
                                        /\ folder[p] \in Nat /\ folder[p] > 0
BY ErrandIsRecord DEF Inspected, Fingerprinted, ProofIsGathered, TaskInv, TaskShapes, Parts

LEMMA BeforeKeeps == ASSUME TaskInv, NEW t \in Tasks, BeforeAcceptance(t) PROVE TaskInv'
<1>1. UNCHANGED <<folder, slot, piTree, checkTree, checked>> /\ errand[t].pc = "ACCEPT" /\ errand[t].status # Unread
  BY DEF BeforeAcceptance, InspectedAt, TaskAt
<1>2. PiIsHeld(t) /\ ProofIsGathered(t)
  BY ErrandIsRecord
<1>3. /\ DOMAIN errand' = Tasks /\ \A s \in Tasks \ {t} : errand'[s] = errand[s]
      /\ DOMAIN errand'[t] = ErrandParts /\ errand'[t].pc = "CHECK" /\ errand'[t].status = Unread
      /\ errand'[t].started = errand[t].started /\ errand'[t].accept = Inspected(t)
      /\ errand'[t].final = errand[t].final /\ errand'[t].config = errand[t].config
      /\ errand'[t].verdict = errand[t].verdict /\ errand'[t].returns = errand[t].returns
  BY DEF TaskInv, TaskShapes, BeforeAcceptance, ErrandParts
<1>4. PiIsHeld(t)'
  BY <1>1, <1>2, <1>3 DEF PiIsHeld, SafeToRelease, EarlyPoints, HoldingPoints, CheckedPoints
<1>5. Below(errand[t].accept, folder)'
  BY <1>1, <1>3, InspectedIsBelow DEF Below
<1>6. ProofIsGathered(t)'
  BY <1>1, <1>2, <1>3, <1>5 DEF ProofIsGathered, Accepted, TaskAt, CheckedPoints, UncheckedPoints
<1>7. ErrandSteps(t)
  BY <1>1, <1>3 DEF ErrandSteps
<1> QED  BY <1>4, <1>6, <1>7, ErrandStepMoves, OneTaskKeeps

LEMMA StartCheckKeeps == ASSUME TaskInv, NEW t \in Tasks, StartCheck(t) PROVE TaskInv'
<1>1. UNCHANGED <<folder, slot, piTree>> /\ errand[t].pc = "CHECK" /\ checked' = [checked EXCEPT ![t] = {folder}]
  BY DEF StartCheck, TaskAt
<1>2. PiIsHeld(t) /\ ProofIsGathered(t)
  BY ErrandIsRecord
<1>3. /\ DOMAIN errand' = Tasks /\ \A s \in Tasks \ {t} : errand'[s] = errand[s]
      /\ DOMAIN errand'[t] = ErrandParts /\ errand'[t].status = errand[t].status
      /\ errand'[t].started = errand[t].started /\ errand'[t].accept = errand[t].accept
      /\ errand'[t].final = errand[t].final /\ errand'[t].config = errand[t].config
      /\ errand'[t].returns = errand[t].returns /\ checkTree' \subseteq checkTree \cup {t}
      /\ \/ errand'[t].pc = "CHECKING" /\ errand'[t].verdict = errand[t].verdict
         \/ errand'[t].pc = "AFTER" /\ errand'[t].verdict = "NOT_PROVEN"
  <2>1. CASE TaskTo(t, "CHECKING") /\ checkTree' = checkTree \cup {t}
    BY <2>1, TaskToFields
  <2>2. CASE /\ errand' = [errand EXCEPT ![t].verdict = "NOT_PROVEN", ![t].pc = "AFTER"]
             /\ checkTree' \in {checkTree, checkTree \cup {t}}
    BY <2>2 DEF TaskInv, TaskShapes, ErrandParts
  <2> QED  BY <2>1, <2>2 DEF StartCheck
<1>4. PiIsHeld(t)'
  BY <1>1, <1>2, <1>3 DEF PiIsHeld, SafeToRelease, EarlyPoints, HoldingPoints, CheckedPoints
<1>5. checked'[t] = {folder} /\ folder \in [Parts -> Nat] /\ errand[t].status = Unread /\ errand[t].verdict = "NONE"
  BY <1>1, <1>2 DEF TaskInv, TaskShapes, ProofIsGathered, UncheckedPoints, ReadingPoints
<1>6. RanBetween(t)' /\ Below(errand[t].accept, folder)'
  <2>1. Below(errand[t].accept, folder)
    BY <1>1, <1>2 DEF ProofIsGathered
  <2>2. \A p \in Parts : folder[p] <= folder[p]
    BY <1>5
  <2> QED  BY <1>1, <1>3, <1>5, <2>1, <2>2 DEF RanBetween, Below
<1>7. ProofIsGathered(t)'
  BY <1>3, <1>5, <1>6 DEF ProofIsGathered, Accepted, TaskAt, CheckedPoints, UncheckedPoints, EarlyPoints, HoldingPoints, ReadingPoints
<1>8. OneTaskMoves(t)
  BY <1>1, <1>3, <1>5 DEF OneTaskMoves, TaskInv, TaskShapes
<1> QED  BY <1>4, <1>7, <1>8, OneTaskKeeps

LEMMA EndCheckKeeps == ASSUME TaskInv, NEW t \in Tasks, EndCheck(t) PROVE TaskInv'
<1>1. UNCHANGED <<folder, slot, piTree, checkTree, checked>> /\ errand[t].pc = "CHECKING"
  BY DEF EndCheck, TaskAt
<1>2. PiIsHeld(t) /\ ProofIsGathered(t)
  BY ErrandIsRecord
<1>3. PICK v \in {"PASS", "FAIL", "NOT_PROVEN"} :
         /\ v # "NOT_PROVEN" => t \notin checkTree
         /\ errand' = [errand EXCEPT ![t].verdict = v, ![t].pc = "AFTER"]
  BY DEF EndCheck
<1>4. /\ DOMAIN errand' = Tasks /\ \A s \in Tasks \ {t} : errand'[s] = errand[s]
      /\ DOMAIN errand'[t] = ErrandParts /\ errand'[t].status = errand[t].status
      /\ errand'[t].started = errand[t].started /\ errand'[t].accept = errand[t].accept
      /\ errand'[t].final = errand[t].final /\ errand'[t].config = errand[t].config
      /\ errand'[t].returns = errand[t].returns /\ errand'[t].pc = "AFTER" /\ errand'[t].verdict = v
  BY <1>3 DEF TaskInv, TaskShapes, ErrandParts
<1>5. PiIsHeld(t)'
  BY <1>1, <1>2, <1>4 DEF PiIsHeld, SafeToRelease, EarlyPoints, HoldingPoints, CheckedPoints
<1>6. ProofIsGathered(t)'
  BY <1>1, <1>2, <1>3, <1>4
     DEF ProofIsGathered, Accepted, TaskAt, CheckedPoints, UncheckedPoints, EarlyPoints, HoldingPoints, ReadingPoints, RanBetween
<1>7. ErrandSteps(t)
  BY <1>1, <1>4 DEF ErrandSteps
<1> QED  BY <1>5, <1>6, <1>7, ErrandStepMoves, OneTaskKeeps

LEMMA AfterKeeps == ASSUME TaskInv, NEW t \in Tasks, AfterAcceptance(t) PROVE TaskInv'
<1>1. UNCHANGED <<folder, slot, piTree, checkTree, checked>> /\ errand[t].pc = "AFTER" /\ errand[t].status # Unread
  BY DEF AfterAcceptance, InspectedAt, TaskAt
<1>2. PiIsHeld(t) /\ ProofIsGathered(t)
  BY ErrandIsRecord
<1>3. /\ DOMAIN errand' = Tasks /\ \A s \in Tasks \ {t} : errand'[s] = errand[s]
      /\ DOMAIN errand'[t] = ErrandParts /\ errand'[t].pc = "FREE_WRITER" /\ errand'[t].status = Unread
      /\ errand'[t].started = errand[t].started /\ errand'[t].accept = errand[t].accept
      /\ errand'[t].after = Inspected(t)
      /\ errand'[t].final = errand[t].final /\ errand'[t].config = errand[t].config
      /\ errand'[t].verdict = errand[t].verdict /\ errand'[t].returns = errand[t].returns
  BY DEF TaskInv, TaskShapes, AfterAcceptance, ErrandParts
<1>4. PiIsHeld(t)'
  BY <1>1, <1>2, <1>3 DEF PiIsHeld, SafeToRelease, EarlyPoints, HoldingPoints, CheckedPoints
<1>5. \A ran \in checked[t] : Above(Inspected(t), ran)
  <2> TAKE ran \in checked[t]
  <2>1. RanBetween(t) /\ \A p \in Paths \ errand[t].status : ran[p] = 0
    BY <1>1, <1>2 DEF ProofIsGathered, CheckedPoints
  <2>2. \A p \in Parts : ran[p] <= folder[p]
    BY <2>1 DEF RanBetween
  <2> QED  BY <1>1, <2>1, <2>2, InspectedIsBelow DEF Above, Parts
<1>6. ProofIsGathered(t)'
  BY <1>1, <1>2, <1>3, <1>5 DEF ProofIsGathered, Accepted, TaskAt, CheckedPoints, UncheckedPoints, EarlyPoints, HoldingPoints, RanBetween
<1>7. ErrandSteps(t)
  BY <1>1, <1>3 DEF ErrandSteps
<1> QED  BY <1>4, <1>6, <1>7, ErrandStepMoves, OneTaskKeeps

LEMMA ReceiptKeeps == ASSUME TaskInv, NEW t \in Tasks, IssueReceipt(t) PROVE TaskInv'
<1>1. UNCHANGED <<folder, slot, piTree, checkTree, checked>> /\ errand[t].pc = "RECEIPT"
  BY DEF IssueReceipt, TaskAt
<1>2. PiIsHeld(t) /\ ProofIsGathered(t)
  BY ErrandIsRecord
<1>3. /\ DOMAIN errand' = Tasks /\ \A s \in Tasks \ {t} : errand'[s] = errand[s]
      /\ DOMAIN errand'[t] = ErrandParts /\ errand'[t].pc \in {"FAILED", "DONE"}
      /\ errand'[t].status = errand[t].status
      /\ errand'[t].started = errand[t].started /\ errand'[t].accept = errand[t].accept
      /\ errand'[t].after = errand[t].after
      /\ errand'[t].final = errand[t].final /\ errand'[t].config = errand[t].config
      /\ errand'[t].verdict = Acceptance(t) /\ errand'[t].returns = errand[t].returns
  BY DEF TaskInv, TaskShapes, IssueReceipt, ErrandParts
<1>4. PiIsHeld(t)'
  BY <1>1, <1>2, <1>3 DEF PiIsHeld, SafeToRelease, EarlyPoints, HoldingPoints, CheckedPoints
<1>5. ProofIsGathered(t)'
  <2>1. Acceptance(t) = "PASS" =>
           /\ errand[t].verdict = "PASS"
           /\ SourcePreserved(t) /\ WithinScope(t) /\ WorkspacePreserved(t)
    BY DEF Acceptance
  <2>2. SourcePreserved(t) /\ WithinScope(t) /\ WorkspacePreserved(t)
           => (SourcePreserved(t) /\ WithinScope(t) /\ WorkspacePreserved(t))'
    BY <1>3 DEF SourcePreserved, WithinScope, WorkspacePreserved
  <2> QED  BY <1>1, <1>2, <1>3, <2>1, <2>2
           DEF ProofIsGathered, Accepted, TaskAt, CheckedPoints, UncheckedPoints, EarlyPoints, HoldingPoints, ReadingPoints, RanBetween
<1>6. ErrandSteps(t)
  BY <1>1, <1>3 DEF ErrandSteps
<1> QED  BY <1>4, <1>5, <1>6, ErrandStepMoves, OneTaskKeeps

LEMMA TaskEndsKeep == ASSUME TaskInv, NEW t \in Tasks, ProcessesEnd(t) \/ CallerDies(t) PROVE TaskInv'
<1>1. CASE ProcessesEnd(t)
  <2>1. UNCHANGED <<folder, slot, errand, checked>> /\ piTree' \subseteq piTree /\ checkTree' \subseteq checkTree
    BY <1>1 DEF ProcessesEnd
  <2>2. ASSUME NEW s \in Tasks PROVE PiIsHeld(s)' /\ ProofIsGathered(s)'
    <3>1. PiIsHeld(s) /\ ProofIsGathered(s)
      BY ErrandIsRecord
    <3>2. PiIsHeld(s)'
      BY <2>1, <3>1 DEF PiIsHeld, SafeToRelease
    <3>3. ProofIsGathered(s)'
      BY <2>1, <3>1 DEF ProofIsGathered, RanBetween, Accepted, TaskAt, SourcePreserved, WithinScope, WorkspacePreserved
    <3> QED  BY <3>2, <3>3
  <2>3. TaskShapes'
    BY <2>1 DEF TaskInv, TaskShapes
  <2> QED  BY <2>2, <2>3 DEF TaskInv
<1>2. CASE CallerDies(t)
  <2>1. TaskTo(t, "DEAD") /\ UNCHANGED <<folder, slot, piTree, checkTree, checked>>
    BY <1>2 DEF CallerDies
  <2>2. PiIsHeld(t) /\ ProofIsGathered(t)
    BY ErrandIsRecord
  <2>3. PiIsHeld(t)'
    BY <2>1, <2>2, TaskToFields DEF PiIsHeld, HoldingPoints, EarlyPoints, CheckedPoints
  <2>4. ProofIsGathered(t)'
    BY <2>1, <2>2, TaskToFields DEF ProofIsGathered, UncheckedPoints, HoldingPoints, EarlyPoints, CheckedPoints, Accepted, TaskAt
  <2>5. ErrandSteps(t)
    BY <2>1, TaskToFields DEF ErrandSteps
  <2> QED  BY <2>3, <2>4, <2>5, ErrandStepMoves, OneTaskKeeps
<1> QED  BY <1>1, <1>2

LEMMA TaskEditKeeps == ASSUME TaskInv, NEW p \in Parts, EditTree(p) PROVE TaskInv'
<1>1. /\ UNCHANGED <<slot, errand, piTree, checkTree>> /\ folder' = [folder EXCEPT ![p] = @ + 1]
      /\ checked' = [t \in Tasks |-> IF TaskAt(t, "CHECKING") THEN checked[t] \cup {folder'} ELSE checked[t]]
  BY DEF EditTree
<1>2. folder' \in [Parts -> Nat] /\ folder \in [Parts -> Nat] /\ \A q \in Parts : folder[q] <= folder'[q]
  BY <1>1 DEF TaskInv, TaskShapes
<1>3. TaskShapes'
  BY <1>1, <1>2 DEF TaskInv, TaskShapes
<1>4. ASSUME NEW t \in Tasks PROVE PiIsHeld(t)' /\ ProofIsGathered(t)'
  <2>1. PiIsHeld(t) /\ ProofIsGathered(t) /\ checked[t] \in SUBSET [Parts -> Nat]
    BY ErrandIsRecord DEF TaskInv, TaskShapes
  <2>2. checked'[t] = IF errand[t].pc = "CHECKING" THEN checked[t] \cup {folder'} ELSE checked[t]
    BY <1>1 DEF TaskAt
  <2>3. PiIsHeld(t)'
    BY <1>1, <2>1 DEF PiIsHeld, SafeToRelease
  <2>4. ASSUME NEW x, Below(x, folder) PROVE Below(x, folder')
    BY <1>2, <2>4 DEF Below, Parts
  <2>5. errand[t].pc \in {"CHECK", "CHECKING"} => Below(errand[t].accept, folder')
    BY <2>1, <2>4 DEF ProofIsGathered
  <2>6. errand[t].pc \in CheckedPoints => RanBetween(t)'
    <3> SUFFICES ASSUME errand[t].pc \in CheckedPoints PROVE RanBetween(t)'
      OBVIOUS
    <3>1. RanBetween(t)
      BY <2>1 DEF ProofIsGathered
    <3>2. ASSUME NEW ran \in checked[t], NEW q \in Parts PROVE ran[q] <= folder'[q]
      <4>1. ran[q] <= folder[q] /\ ran[q] \in Nat /\ folder[q] \in Nat /\ folder'[q] \in Nat /\ folder[q] <= folder'[q]
        BY <1>2, <2>1, <3>1 DEF RanBetween
      <4> QED  BY <4>1
    <3>3. \A q \in Parts : folder'[q] <= folder'[q]
      BY <1>2
    <3> QED  BY <1>1, <2>2, <2>5, <3>1, <3>2, <3>3 DEF RanBetween
  <2>7. errand[t].status # Unread => \A q \in errand[t].status : folder'[q] > 0
    <3> SUFFICES ASSUME errand[t].status # Unread, NEW q \in errand[t].status PROVE folder'[q] > 0
      OBVIOUS
    <3>1. q \in Parts /\ folder[q] > 0
      BY <2>1 DEF ProofIsGathered, Parts
    <3> QED  BY <1>2, <3>1
  <2>8. ProofIsGathered(t)'
    BY <1>1, <2>1, <2>2, <2>5, <2>6, <2>7
       DEF ProofIsGathered, Accepted, TaskAt, SourcePreserved, WithinScope, WorkspacePreserved
  <2> QED  BY <2>3, <2>8
<1> QED  BY <1>1, <1>3, <1>4 DEF TaskInv

LEMMA InspectionThrowsKeeps == ASSUME TaskInv, NEW t \in Tasks, InspectionThrows(t) PROVE TaskInv'
<1>1. UNCHANGED <<folder, slot, piTree, checkTree, checked>>
  BY DEF InspectionThrows
<1>2. PiIsHeld(t) /\ ProofIsGathered(t)
  BY ErrandIsRecord
<1>3. PICK pc \in {"FAILED", "UNWIND"} : GoesOn(t, pc)
  BY DEF InspectionThrows
<1>4. errand[t].pc \in {"BEFORE", "LOCKED", "ACCEPT", "CHECK", "AFTER"}
  BY DEF InspectionThrows
<1>5. /\ DOMAIN errand' = Tasks /\ \A s \in Tasks \ {t} : errand'[s] = errand[s]
      /\ DOMAIN errand'[t] = ErrandParts /\ errand'[t].pc = pc /\ errand'[t].status = Unread
      /\ errand'[t].started = errand[t].started
      /\ errand'[t].final = errand[t].final /\ errand'[t].config = errand[t].config
      /\ errand'[t].verdict = errand[t].verdict /\ errand'[t].returns = errand[t].returns
  BY <1>3 DEF TaskInv, TaskShapes, GoesOn, ErrandParts
<1>6. PiIsHeld(t)'
  BY <1>1, <1>2, <1>4, <1>5 DEF PiIsHeld, SafeToRelease, EarlyPoints, HoldingPoints, CheckedPoints
<1>7. ProofIsGathered(t)'
  BY <1>1, <1>2, <1>4, <1>5 DEF ProofIsGathered, Accepted, TaskAt, CheckedPoints, UncheckedPoints, EarlyPoints,
     HoldingPoints
<1>8. ErrandSteps(t)
  BY <1>1, <1>5 DEF ErrandSteps
<1> QED  BY <1>6, <1>7, <1>8, ErrandStepMoves, OneTaskKeeps

LEMMA TaskInvNext == TaskInv /\ [TaskNext]_taskVars => TaskInv'
<1> SUFFICES ASSUME TaskInv, [TaskNext]_taskVars PROVE TaskInv'
  OBVIOUS
<1>1. CASE UNCHANGED taskVars
  <2>1. UNCHANGED <<folder, slot, errand, piTree, checkTree, checked>>
    BY <1>1 DEF taskVars
  <2> QED  BY <2>1 DEF TaskInv, TaskShapes, PiIsHeld, ProofIsGathered, RanBetween, SafeToRelease,
                       Accepted, TaskAt, SourcePreserved, WithinScope, WorkspacePreserved
<1>2. ASSUME NEW p \in Parts, EditTree(p) PROVE TaskInv'
  BY <1>2, TaskEditKeeps
<1>3. ASSUME NEW t \in Tasks, ReadStatus(t) \/ BindTask(t) \/ AcquireWriter(t) \/ BindAgain(t)
                              \/ ReleaseWriter(t) \/ UnwindWriter(t)
      PROVE TaskInv'
  BY <1>3, BindStepsKeep
<1>4. ASSUME NEW t \in Tasks, AcquireSlot(t) \/ SnapshotConfiguration(t) \/ AuthorizeTask(t) \/ StartPi(t)
      PROVE TaskInv'
  BY <1>4, AcquireSlotKeeps, StartStepsKeep
<1>5. ASSUME NEW t \in Tasks, ObserveMarker(t) \/ FinalizeAfterFailure(t) \/ AwaitPi(t)
                              \/ FreeSlot(t) \/ CleanSlot(t) \/ CleanConfiguration(t)
      PROVE TaskInv'
  BY <1>5, WaitStepsKeep, CleanStepsKeep
<1>6. ASSUME NEW t \in Tasks, BeforeAcceptance(t) \/ StartCheck(t) \/ EndCheck(t) \/ AfterAcceptance(t) \/ IssueReceipt(t)
      PROVE TaskInv'
  BY <1>6, BeforeKeeps, StartCheckKeeps, EndCheckKeeps, AfterKeeps, ReceiptKeeps
<1>7. ASSUME NEW t \in Tasks, ProcessesEnd(t) \/ CallerDies(t) \/ InspectionThrows(t) PROVE TaskInv'
  BY <1>7, TaskEndsKeep, InspectionThrowsKeeps
<1> QED  BY <1>1, <1>2, <1>3, <1>4, <1>5, <1>6, <1>7 DEF TaskNext

(* An accepted task is proof about one tree, although the tree is inspected  *)
(* path by path before and after the command and anybody may edit it         *)
(* meanwhile (runPilotQuickTask, runPilotRawComparator,                      *)
(* observeControlledCommand).                                                *)
THEOREM AcceptedTasksAreProof == TaskSpec => []PassIsProof
<1>1. TaskInv => PassIsProof
  <2> SUFFICES ASSUME TaskInv, NEW t \in Tasks, Accepted(t)
               PROVE  /\ t \notin piTree /\ t \notin checkTree
                      /\ \E ran \in checked[t] :
                            /\ checked[t] = {ran}
                            /\ ran["head"] = 0 /\ ran["other"] = 0 /\ ran["allowed"] > 0
                            /\ errand[t].after.digest["allowed"] = ran["allowed"]
    BY DEF PassIsProof
  <2>1. PiIsHeld(t) /\ ProofIsGathered(t) /\ checked[t] \in SUBSET [Parts -> Nat]
    BY ErrandIsRecord DEF TaskInv, TaskShapes
  <2>2. t \notin piTree /\ t \notin checkTree
    BY <2>1 DEF PiIsHeld, ProofIsGathered, Accepted, TaskAt
  <2>3. /\ checked[t] # {}
        /\ \A ran \in checked[t] : Below(errand[t].accept, ran) /\ Above(errand[t].after, ran)
        /\ errand[t].after.head = 0 /\ errand[t].after.status = {"allowed"}
        /\ errand[t].accept.status = {"allowed"} /\ errand[t].after.digest = errand[t].accept.digest
    BY <2>1 DEF ProofIsGathered, SourcePreserved, WithinScope, WorkspacePreserved
  <2>4. ASSUME NEW ran \in checked[t]
        PROVE  /\ ran \in [Parts -> Nat] /\ ran["head"] = 0 /\ ran["other"] = 0 /\ ran["allowed"] > 0
               /\ errand[t].after.digest["allowed"] = ran["allowed"]
    <3>1. ran \in [Parts -> Nat] /\ ran["head"] \in Nat /\ ran["allowed"] \in Nat
      BY <2>1 DEF Parts, Paths
    <3>2. /\ ran["head"] <= 0 /\ ran["other"] = 0 /\ ran["allowed"] <= errand[t].after.digest["allowed"]
      BY <2>3 DEF Above, Paths
    <3>3. /\ errand[t].after.digest["allowed"] \in Nat /\ errand[t].after.digest["allowed"] > 0
          /\ errand[t].after.digest["allowed"] <= ran["allowed"]
      BY <2>3 DEF Below
    <3> QED  BY <3>1, <3>2, <3>3
  <2>5. PICK ran \in checked[t] : TRUE
    BY <2>3
  <2>6. ASSUME NEW other \in checked[t] PROVE other = ran
    <3>1. other \in [Parts -> Nat] /\ ran \in [Parts -> Nat] /\ \A p \in Parts : other[p] = ran[p]
      BY <2>4, <2>5 DEF Parts, Paths
    <3> QED  BY <3>1
  <2> QED  BY <2>2, <2>4, <2>5, <2>6
<1> QED  BY <1>1, TaskInvInit, TaskInvNext, PTL DEF TaskSpec

(* Two Pi process trees share a directory only if the start of one was       *)
(* reported as failed, and a started Pi keeps the configuration it runs on,  *)
(* whoever failed or died (createQualifiedPiJsonProcess,                     *)
(* hasExactManagedProcessFinality).                                          *)
THEOREM DirectoriesAreNotShared == TaskSpec => []OnePiPerDirectory
<1>1. TaskInv => OnePiPerDirectory
  <2> SUFFICES ASSUME TaskInv PROVE OnePiPerDirectory
    OBVIOUS
  <2>1. ASSUME NEW t \in piTree
        PROVE  /\ t \in Tasks /\ errand[t].started \in {"YES", "REJECTED"}
               /\ errand[t].started = "YES" => slot = t /\ errand[t].config
    BY ErrandIsRecord DEF TaskInv, TaskShapes, PiIsHeld
  <2> QED  BY <2>1 DEF OnePiPerDirectory
<1> QED  BY <1>1, TaskInvInit, TaskInvNext, PTL DEF TaskSpec

-----------------------------------------------------------------------------
(* Managed change: the lease makes the tree the change's own, the durable   *)
(* Run and the reservation remember what a restarted flow forgot.           *)

FlowParts == {"pc", "attempt", "expected", "kept", "verified", "result"}
TreeParts == {"version", "by", "good", "scoped"}
LeasedPoints == {"LOCKED", "READY_TO_SEND", "SENT", "RETURNED", "INTERRUPTED", "VERIFIED", "DEAD"}
OwnTreePoints == {"SENT", "RETURNED", "INTERRUPTED", "VERIFIED"}
ResumePoints == {"READY_TO_SEND", "CHECKPOINTED", "UNLOCKED"}
RunningPoints == OwnTreePoints \cup ResumePoints

ChangeShapes ==
    /\ edits \in Nat
    /\ DOMAIN workspace = TreeParts /\ workspace.version \in Nat /\ workspace.version <= edits
    /\ workspace.version = 0 <=> workspace.by = {}
    /\ DOMAIN flow = Changes /\ \A c \in Changes : DOMAIN flow[c] = FlowParts
    /\ DOMAIN durableRun = Changes
    /\ sends \in [Changes -> [{1, 2} -> Nat]]

(* A state of the tree is made once: a change that finds the one it left has *)
(* it to itself, with or without the lease in between.                       *)
TreeIsOwn(c) ==
    /\ flow[c].pc \in LeasedPoints => writer = c
    /\ flow[c].pc \in OwnTreePoints => workspace.by \subseteq {c}
    /\ flow[c].expected \in Nat /\ flow[c].expected <= edits
    /\ flow[c].pc \in ResumePoints /\ workspace.version = flow[c].expected => workspace.by \subseteq {c}
    /\ flow[c].pc \in {"PREFLIGHT", "PLANNED", "LOCKED"} => flow[c].expected = 0
    /\ flow[c].pc = "VERIFIED" /\ flow[c].kept /\ flow[c].verified.pass =>
          workspace.version = flow[c].verified.version /\ workspace.good
(* The durable Run, and the reservation of a pilot, remember a send that the *)
(* flow forgot.                                                              *)
SendsAreRemembered(c) ==
    /\ \A a \in {1, 2} : sends[c][a] # 0 => durableRun[c] # "NONE" /\ (c \in PilotTasks => c \in reserved)
    /\ flow[c].pc \in RunningPoints =>
          /\ durableRun[c] # "NONE" /\ flow[c].attempt \in {1, 2}
          /\ flow[c].attempt = 1 => sends[c][2] = 0
    /\ flow[c].pc \in {"INTERRUPTED", "CHECKPOINTED"} => flow[c].attempt = 1
    /\ flow[c].pc = "UNLOCKED" => flow[c].attempt = 2
    /\ flow[c].pc \in {"UNLOCKED", "READY_TO_SEND"} => sends[c][flow[c].attempt] = 0
    /\ \A a \in {1, 2} : sends[c][a] <= 1
ChangeInv == ChangeShapes /\ \A c \in Changes : TreeIsOwn(c) /\ SendsAreRemembered(c)

LEMMA ChangeInvInit == ChangeInit => ChangeInv
<1> SUFFICES ASSUME ChangeInit PROVE ChangeInv
  OBVIOUS
<1>1. ChangeShapes
  BY DEF ChangeInit, ChangeShapes, CleanTree, NewFlow, TreeParts, FlowParts
<1>2. ASSUME NEW c \in Changes PROVE TreeIsOwn(c) /\ SendsAreRemembered(c)
  <2>1. flow[c].pc = "PREFLIGHT" /\ flow[c].expected = 0 /\ edits = 0
    BY DEF ChangeInit, NewFlow
  <2>2. TreeIsOwn(c)
    BY <2>1 DEF TreeIsOwn, LeasedPoints, OwnTreePoints, ResumePoints
  <2>3. SendsAreRemembered(c)
    BY <2>1 DEF SendsAreRemembered, ChangeInit, RunningPoints, OwnTreePoints, ResumePoints
  <2> QED  BY <2>2, <2>3
<1> QED  BY <1>1, <1>2 DEF ChangeInv

LEMMA FlowIsSound == ASSUME ChangeInv, NEW c \in Changes
  PROVE  /\ TreeIsOwn(c) /\ SendsAreRemembered(c) /\ ChangeShapes
         /\ c \in DOMAIN flow /\ DOMAIN flow[c] = FlowParts /\ c \in DOMAIN durableRun
         /\ sends[c][1] \in Nat /\ sends[c][2] \in Nat
BY DEF ChangeInv, ChangeShapes

\* The others, when one change moves.
LEMMA OneChangeKeeps ==
  ASSUME ChangeInv, NEW c \in Changes, ChangeShapes', TreeIsOwn(c)', SendsAreRemembered(c)',
         \A d \in Changes \ {c} : /\ flow'[d] = flow[d] /\ durableRun'[d] = durableRun[d] /\ sends'[d] = sends[d]
                                  /\ d \in reserved => d \in reserved',
         writer' # writer => writer \in {c, "NONE"},
         \/ workspace' = workspace /\ edits' = edits
         \/ /\ writer = c /\ edits' = edits + 1 /\ workspace'.version = edits + 1
  PROVE  ChangeInv'
<1>1. ASSUME NEW d \in Changes, d # c PROVE TreeIsOwn(d)' /\ SendsAreRemembered(d)'
  <2>1. TreeIsOwn(d) /\ SendsAreRemembered(d) /\ flow'[d] = flow[d]
    BY <1>1, FlowIsSound
  <2>2. writer = d => writer' = d
    BY <1>1, ChangeAssumption
  <2>3. CASE workspace' = workspace /\ edits' = edits
    BY <1>1, <2>1, <2>2, <2>3 DEF TreeIsOwn, SendsAreRemembered
  <2>4. CASE writer = c /\ edits' = edits + 1 /\ workspace'.version = edits + 1
    <3>1. flow[d].pc \notin LeasedPoints
      BY <1>1, <2>1, <2>4 DEF TreeIsOwn
    <3>2. edits \in Nat /\ flow[d].expected \in Nat /\ flow[d].expected <= edits
      BY <2>1, FlowIsSound DEF TreeIsOwn, ChangeShapes
    <3>3. TreeIsOwn(d)'
      BY <1>1, <2>1, <2>2, <2>4, <3>1, <3>2 DEF TreeIsOwn, LeasedPoints, OwnTreePoints
    <3> QED  BY <1>1, <2>1, <3>3 DEF SendsAreRemembered
  <2> QED  BY <2>3, <2>4
<1> QED  BY <1>1 DEF ChangeInv

\* A step of the flow that leaves the tree and the sends alone.
FlowSteps(c) ==
    /\ DOMAIN flow' = Changes /\ DOMAIN durableRun' = Changes /\ DOMAIN flow'[c] = FlowParts
    /\ \A d \in Changes \ {c} : flow'[d] = flow[d] /\ durableRun'[d] = durableRun[d]
    /\ durableRun[c] # "NONE" => durableRun'[c] # "NONE"
    /\ writer' # writer => writer \in {c, "NONE"}
    /\ UNCHANGED <<workspace, reserved, sends, edits>>
LEMMA FlowStepKeeps ==
  ASSUME ChangeInv, NEW c \in Changes, FlowSteps(c), TreeIsOwn(c)', SendsAreRemembered(c)'
  PROVE  ChangeInv'
<1>1. ChangeShapes'
  <2>1. \A d \in Changes : DOMAIN flow'[d] = FlowParts
    BY DEF FlowSteps, ChangeInv, ChangeShapes
  <2> QED  BY <2>1 DEF FlowSteps, ChangeInv, ChangeShapes
<1> QED  BY <1>1, OneChangeKeeps DEF FlowSteps

LEMMA MoveFields ==
  ASSUME ChangeInv, NEW c \in Changes, NEW pc, Move(c, pc)
  PROVE  /\ DOMAIN flow' = Changes /\ DOMAIN flow'[c] = FlowParts
         /\ \A d \in Changes \ {c} : flow'[d] = flow[d]
         /\ flow'[c].pc = pc /\ flow'[c].attempt = flow[c].attempt /\ flow'[c].expected = flow[c].expected
         /\ flow'[c].kept = flow[c].kept /\ flow'[c].verified = flow[c].verified
BY FlowIsSound DEF Move, ChangeInv, ChangeShapes, FlowParts

LEMMA PlanKeeps ==
  ASSUME ChangeInv, NEW c \in Changes,
         Preflight(c) \/ AcquireRealWriterLease(c, "PLANNED", "LOCKED")
           \/ AcquireRealWriterLease(c, "UNLOCKED", "READY_TO_SEND")
  PROVE  ChangeInv'
<1>1. PICK pc \in {"PLANNED", "LOCKED", "READY_TO_SEND"} :
        /\ Move(c, pc) /\ UNCHANGED <<workspace, durableRun, reserved, sends, edits>>
        /\ pc = "PLANNED" => flow[c].pc = "PREFLIGHT" /\ UNCHANGED writer
        /\ pc = "LOCKED" => flow[c].pc = "PLANNED"
        /\ pc = "READY_TO_SEND" => flow[c].pc = "UNLOCKED"
        /\ pc # "PLANNED" => writer = "NONE" /\ writer' = c
  BY DEF Preflight, AcquireRealWriterLease, Keep, In
<1>2. FlowSteps(c)
  BY <1>1, MoveFields, FlowIsSound DEF FlowSteps, ChangeShapes
<1>3. TreeIsOwn(c)'
  BY <1>1, MoveFields, FlowIsSound DEF TreeIsOwn, LeasedPoints, OwnTreePoints, ResumePoints
<1>4. SendsAreRemembered(c)'
  BY <1>1, MoveFields, FlowIsSound DEF SendsAreRemembered, RunningPoints, OwnTreePoints, ResumePoints
<1> QED  BY <1>2, <1>3, <1>4, FlowStepKeeps

LEMMA StartRunKeeps == ASSUME ChangeInv, NEW c \in Changes, StartRun(c) PROVE ChangeInv'
<1>1. /\ flow[c].pc = "LOCKED" /\ workspace.version = 0 /\ UNCHANGED <<workspace, writer, reserved, sends, edits>>
      /\ durableRun[c] = "NONE" \/ (c \in PilotTasks /\ c \notin reserved)
  BY DEF StartRun, ExactDurablePreSend, Keep, In
<1>2. /\ DOMAIN flow' = Changes /\ DOMAIN flow'[c] = FlowParts /\ \A d \in Changes \ {c} : flow'[d] = flow[d]
      /\ flow'[c].pc = "READY_TO_SEND" /\ flow'[c].attempt = 1 /\ flow'[c].expected = flow[c].expected
      /\ DOMAIN durableRun' = Changes /\ durableRun'[c] = "PRE_SEND"
      /\ \A d \in Changes \ {c} : durableRun'[d] = durableRun[d]
  BY FlowIsSound DEF StartRun, ChangeInv, ChangeShapes, FlowParts
<1>3. FlowSteps(c)
  BY <1>1, <1>2 DEF FlowSteps
<1>4. sends[c][1] = 0 /\ sends[c][2] = 0
  BY <1>1, FlowIsSound DEF SendsAreRemembered
<1>5. TreeIsOwn(c)'
  BY <1>1, <1>2, FlowIsSound DEF TreeIsOwn, ChangeShapes, LeasedPoints, OwnTreePoints, ResumePoints
<1>6. SendsAreRemembered(c)'
  BY <1>1, <1>2, <1>4, FlowIsSound DEF SendsAreRemembered, RunningPoints, OwnTreePoints, ResumePoints
<1> QED  BY <1>3, <1>5, <1>6, FlowStepKeeps

LEMMA TouchedTree ==
  ASSUME ChangeInv, NEW c \in Changes, Touched(c), workspace.by \subseteq {c}
  PROVE  /\ edits' \in Nat /\ edits <= edits' /\ DOMAIN workspace' = TreeParts
         /\ workspace'.version \in Nat /\ workspace'.version <= edits'
         /\ workspace'.version = 0 <=> workspace'.by = {}
         /\ workspace'.by \subseteq {c}
         /\ \/ workspace' = workspace /\ edits' = edits
            \/ edits' = edits + 1 /\ workspace'.version = edits + 1 /\ workspace'.version # workspace.version
<1>1. ChangeShapes
  BY DEF ChangeInv
<1>2. CASE workspace' = workspace /\ edits' = edits
  BY <1>1, <1>2 DEF ChangeShapes
<1>3. CASE edits' = edits + 1 /\ \E good, scoped \in BOOLEAN :
             workspace' = [version |-> edits + 1, by |-> workspace.by \cup {c},
                           good |-> good, scoped |-> workspace.scoped /\ scoped]
  <2>1. /\ workspace'.version = edits + 1 /\ workspace'.by = workspace.by \cup {c}
        /\ DOMAIN workspace' = TreeParts
    BY <1>3 DEF TreeParts
  <2> QED  BY <1>1, <1>3, <2>1 DEF ChangeShapes
<1> QED  BY <1>2, <1>3 DEF Touched

LEMMA RunAgentKeeps == ASSUME ChangeInv, NEW c \in Changes, RunAgent(c) PROVE ChangeInv'
<1> DEFINE a == flow[c].attempt
<1>1. /\ flow[c].pc = "READY_TO_SEND" /\ workspace.version = flow[c].expected
      /\ reserved' = reserved \cup ({c} \cap PilotTasks)
      /\ sends' = [sends EXCEPT ![c][a] = @ + 1]
      /\ Touched(c) /\ Move(c, "SENT") /\ UNCHANGED <<writer, durableRun>>
  BY DEF RunAgent, In, WorkspaceAsExpected, Keep
<1>2. writer = c /\ workspace.by \subseteq {c}
  BY <1>1, FlowIsSound DEF TreeIsOwn, LeasedPoints, ResumePoints
<1>3. a \in {1, 2} /\ sends[c][a] = 0 /\ durableRun[c] # "NONE" /\ (a = 1 => sends[c][2] = 0)
  BY <1>1, FlowIsSound DEF SendsAreRemembered, RunningPoints, ResumePoints
<1>4. /\ sends' \in [Changes -> [{1, 2} -> Nat]] /\ sends'[c][a] = 1
      /\ \A b \in {1, 2} \ {a} : sends'[c][b] = sends[c][b]
      /\ \A d \in Changes \ {c} : sends'[d] = sends[d]
  <2> HIDE DEF a
  <2> QED  BY <1>1, <1>3 DEF ChangeInv, ChangeShapes
<1>5. ChangeShapes'
  <2>1. \A d \in Changes : DOMAIN flow'[d] = FlowParts
    BY <1>1, MoveFields DEF ChangeInv, ChangeShapes
  <2> QED  BY <1>1, <1>2, <1>4, <2>1, MoveFields, TouchedTree DEF ChangeInv, ChangeShapes
<1>6. TreeIsOwn(c)'
  <2>1. flow'[c].expected \in Nat /\ flow'[c].expected <= edits'
    BY <1>1, <1>2, MoveFields, TouchedTree, FlowIsSound DEF TreeIsOwn, ChangeShapes
  <2> QED  BY <1>1, <1>2, <2>1, MoveFields, TouchedTree DEF TreeIsOwn, LeasedPoints, OwnTreePoints, ResumePoints
<1>7. SendsAreRemembered(c)'
  BY <1>1, <1>3, <1>4, MoveFields, FlowIsSound DEF SendsAreRemembered, RunningPoints, OwnTreePoints, ResumePoints
<1>8. \/ workspace' = workspace /\ edits' = edits
      \/ writer = c /\ edits' = edits + 1 /\ workspace'.version = edits + 1
  BY <1>1, <1>2, TouchedTree
<1> QED  BY <1>1, <1>4, <1>5, <1>6, <1>7, <1>8, MoveFields, OneChangeKeeps

LEMMA VerifyKeeps == ASSUME ChangeInv, NEW c \in Changes, Verify(c) PROVE ChangeInv'
<1>1. PICK pass \in {workspace.good, FALSE} :
      /\ Touched(c)
      /\ durableRun' = [durableRun EXCEPT ![c] = IF pass THEN "REVIEWING" ELSE "VERIFY_FAILED"]
      /\ flow' = [flow EXCEPT ![c] = [@ EXCEPT !.pc = "VERIFIED",
                          !.verified = [version |-> workspace.version, pass |-> pass],
                          !.kept = @ /\ workspace'.version = workspace.version]]
  BY DEF Verify
<1>2. flow[c].pc = "RETURNED" /\ UNCHANGED <<writer, reserved, sends>>
  BY DEF Verify, In, Keep
<1>3. writer = c /\ workspace.by \subseteq {c}
  BY <1>2, FlowIsSound DEF TreeIsOwn, LeasedPoints, OwnTreePoints
<1>4. /\ DOMAIN flow' = Changes /\ DOMAIN flow'[c] = FlowParts /\ \A d \in Changes \ {c} : flow'[d] = flow[d]
      /\ flow'[c].pc = "VERIFIED" /\ flow'[c].attempt = flow[c].attempt /\ flow'[c].expected = flow[c].expected
      /\ flow'[c].verified.version = workspace.version /\ flow'[c].verified.pass = pass
      /\ flow'[c].kept => workspace'.version = workspace.version
  BY <1>1, FlowIsSound DEF ChangeInv, ChangeShapes, FlowParts
<1>5. /\ DOMAIN durableRun' = Changes /\ durableRun'[c] # "NONE"
      /\ \A d \in Changes \ {c} : durableRun'[d] = durableRun[d]
  BY <1>1, FlowIsSound DEF ChangeInv, ChangeShapes
<1>6. ChangeShapes'
  <2>1. \A d \in Changes : DOMAIN flow'[d] = FlowParts
    BY <1>4 DEF ChangeInv, ChangeShapes
  <2> QED  BY <1>1, <1>2, <1>3, <1>4, <1>5, <2>1, TouchedTree DEF ChangeInv, ChangeShapes
<1>7. flow'[c].kept /\ flow'[c].verified.pass => workspace' = workspace /\ workspace.good
  BY <1>1, <1>3, <1>4, TouchedTree
<1>8. TreeIsOwn(c)'
  <2>1. flow'[c].expected \in Nat /\ flow'[c].expected <= edits'
    BY <1>1, <1>3, <1>4, TouchedTree, FlowIsSound DEF TreeIsOwn, ChangeShapes
  <2>2. workspace'.by \subseteq {c}
    BY <1>1, <1>3, TouchedTree
  <2> QED  BY <1>2, <1>3, <1>4, <1>7, <2>1, <2>2 DEF TreeIsOwn, LeasedPoints, OwnTreePoints, ResumePoints
<1>9. SendsAreRemembered(c)'
  BY <1>2, <1>4, <1>5, FlowIsSound DEF SendsAreRemembered, RunningPoints, OwnTreePoints, ResumePoints
<1>10. \/ workspace' = workspace /\ edits' = edits
       \/ writer = c /\ edits' = edits + 1 /\ workspace'.version = edits + 1
  BY <1>1, <1>3, TouchedTree
<1> QED  BY <1>2, <1>4, <1>5, <1>6, <1>8, <1>9, <1>10, OneChangeKeeps

LEMMA ChangeReturnKeeps ==
  ASSUME ChangeInv, NEW c \in Changes,
         AgentEnds(c) \/ CheckpointInterrupted(c) \/ RecoverInterrupted(c) \/ RetryAttempt(c)
  PROVE  ChangeInv'
<1>1. /\ UNCHANGED <<workspace, reserved, sends, edits>>
      /\ writer' = writer \/ (writer' = "NONE" /\ writer = c /\ flow[c].pc = "INTERRUPTED")
      /\ DOMAIN durableRun' = Changes /\ \A d \in Changes \ {c} : durableRun'[d] = durableRun[d]
      /\ durableRun'[c] # "NONE" \/ durableRun'[c] = durableRun[c]
      /\ DOMAIN flow' = Changes /\ DOMAIN flow'[c] = FlowParts /\ \A d \in Changes \ {c} : flow'[d] = flow[d]
      /\ \/ /\ flow[c].pc = "SENT" /\ flow'[c].pc \in {"RETURNED", "INTERRUPTED"} /\ writer' = writer
            /\ flow'[c].attempt = flow[c].attempt /\ flow'[c].expected = flow[c].expected
            /\ flow'[c].pc = "INTERRUPTED" => flow[c].attempt = 1
         \/ /\ flow[c].pc = "INTERRUPTED" /\ flow'[c].pc = "CHECKPOINTED"
            /\ flow'[c].attempt = flow[c].attempt /\ flow'[c].expected = workspace.version
         \/ /\ flow[c].pc = "CHECKPOINTED" /\ flow'[c].pc = "UNLOCKED" /\ flow'[c].attempt = 2
            /\ flow'[c].expected = flow[c].expected
         \/ /\ flow[c].pc = "VERIFIED" /\ flow'[c].pc = "READY_TO_SEND" /\ writer' = writer /\ flow[c].attempt = 1
            /\ flow'[c].attempt = 2 /\ flow'[c].expected = workspace.version
  <2>0. DOMAIN flow = Changes /\ DOMAIN flow[c] = FlowParts /\ DOMAIN durableRun = Changes
    BY FlowIsSound DEF ChangeShapes
  <2>1. CASE AgentEnds(c)
    <3>1. PICK pc \in {"RETURNED", "INTERRUPTED"} : Move(c, pc) /\ (pc = "INTERRUPTED" => flow[c].attempt = 1)
      BY <2>1 DEF AgentEnds
    <3> QED  BY <2>0, <2>1, <3>1, MoveFields DEF AgentEnds, In, Keep
  <2>2. CASE CheckpointInterrupted(c)
    BY <2>0, <2>2 DEF CheckpointInterrupted, In, Keep, FlowParts
  <2>3. CASE RecoverInterrupted(c)
    BY <2>0, <2>3 DEF RecoverInterrupted, In, Keep, FlowParts
  <2>4. CASE RetryAttempt(c)
    BY <2>0, <2>4 DEF RetryAttempt, MayRetry, In, Keep, FlowParts
  <2> QED  BY <2>1, <2>2, <2>3, <2>4
<1>2. FlowSteps(c)
  BY <1>1 DEF FlowSteps
<1>3. TreeIsOwn(c) /\ SendsAreRemembered(c) /\ ChangeShapes
  BY FlowIsSound
<1>4. TreeIsOwn(c)'
  BY <1>1, <1>3 DEF TreeIsOwn, ChangeShapes, LeasedPoints, OwnTreePoints, ResumePoints
<1>5. SendsAreRemembered(c)'
  BY <1>1, <1>3 DEF SendsAreRemembered, RunningPoints, OwnTreePoints, ResumePoints
<1> QED  BY <1>2, <1>4, <1>5, FlowStepKeeps

\* The flow ends, or starts again from nothing.
FlowEnds(c) ==
    /\ UNCHANGED <<workspace, reserved, sends, edits>>
    /\ writer' # writer => writer = c
    /\ DOMAIN durableRun' = Changes /\ \A d \in Changes \ {c} : durableRun'[d] = durableRun[d]
    /\ durableRun'[c] # "NONE" \/ durableRun'[c] = durableRun[c]
    /\ DOMAIN flow' = Changes /\ DOMAIN flow'[c] = FlowParts /\ \A d \in Changes \ {c} : flow'[d] = flow[d]
    /\ \/ flow'[c].pc \in {"DONE", "REFUSED"} /\ flow'[c].expected = flow[c].expected
       \/ flow'[c].pc = "PREFLIGHT" /\ flow'[c].expected = 0
       \/ flow'[c].pc = "DEAD" /\ flow'[c].expected = flow[c].expected /\ writer = c /\ writer' = writer

LEMMA FlowEndsKeep ==
  ASSUME ChangeInv, NEW c \in Changes,
         (\E accounted \in Accountings : Review(c, accounted)) \/ ChangeRefused(c) \/ FlowFails(c)
  PROVE  ChangeInv'
<1>1. DOMAIN flow = Changes /\ DOMAIN flow[c] = FlowParts /\ DOMAIN durableRun = Changes
  BY FlowIsSound DEF ChangeShapes
<1>2. TreeIsOwn(c) /\ SendsAreRemembered(c) /\ ChangeShapes
  BY FlowIsSound
<1>3. FlowEnds(c)
  <2>1. ASSUME NEW accounted, Review(c, accounted) PROVE FlowEnds(c)
    <3>1. writer = c
      BY <1>2, <2>1 DEF TreeIsOwn, LeasedPoints, Review, In
    <3> QED  BY <1>1, <2>1, <3>1 DEF FlowEnds, Review, Keep, FlowParts
  <2>2. CASE ChangeRefused(c)
    BY <1>1, <2>2, MoveFields DEF FlowEnds, ChangeRefused, Keep
  <2>3. CASE FlowFails(c)
    BY <1>1, <2>3, MoveFields DEF FlowEnds, FlowFails, Keep, NewFlow, FlowParts
  <2> QED  BY <2>1, <2>2, <2>3
<1>4. FlowSteps(c)
  BY <1>3 DEF FlowEnds, FlowSteps
<1>5. TreeIsOwn(c)'
  BY <1>2, <1>3 DEF FlowEnds, TreeIsOwn, ChangeShapes, LeasedPoints, OwnTreePoints, ResumePoints
<1>6. SendsAreRemembered(c)'
  BY <1>2, <1>3 DEF FlowEnds, SendsAreRemembered, RunningPoints, OwnTreePoints, ResumePoints
<1> QED  BY <1>4, <1>5, <1>6, FlowStepKeeps

LEMMA ClearKeeps == ASSUME ChangeInv, OperatorClears PROVE ChangeInv'
<1>1. /\ workspace' = CleanTree /\ UNCHANGED <<writer, flow, durableRun, reserved, sends, edits>>
      /\ \A c \in Changes : flow[c].pc \in {"PREFLIGHT", "DONE", "REFUSED"}
  BY DEF OperatorClears, Keep
<1>2. ChangeShapes'
  BY <1>1 DEF ChangeInv, ChangeShapes, CleanTree, TreeParts
<1>3. ASSUME NEW c \in Changes PROVE TreeIsOwn(c)' /\ SendsAreRemembered(c)'
  BY <1>1, FlowIsSound DEF TreeIsOwn, SendsAreRemembered, LeasedPoints, OwnTreePoints, ResumePoints
<1> QED  BY <1>2, <1>3 DEF ChangeInv

LEMMA ChangeInvNext == ChangeInv /\ [ChangeNext]_changeVars => ChangeInv'
<1> SUFFICES ASSUME ChangeInv, [ChangeNext]_changeVars PROVE ChangeInv'
  OBVIOUS
<1>1. CASE UNCHANGED changeVars
  <2>1. UNCHANGED <<workspace, writer, flow, durableRun, reserved, sends, edits>>
    BY <1>1 DEF changeVars
  <2> QED  BY <2>1 DEF ChangeInv, ChangeShapes, TreeIsOwn, SendsAreRemembered
<1>2. CASE OperatorClears
  BY <1>2, ClearKeeps
<1>3. ASSUME NEW c \in Changes, ChangeStep(c) PROVE ChangeInv'
  BY <1>3, PlanKeeps, StartRunKeeps, RunAgentKeeps, VerifyKeeps, ChangeReturnKeeps, FlowEndsKeep DEF ChangeStep
<1> QED  BY <1>1, <1>2, <1>3 DEF ChangeNext

(* GO is about the tree the operator finds, which this change alone wrote,   *)
(* and no Attempt is sent twice, whatever fails, dies or competes            *)
(* (runRealManagedChange, assertExactWorkspaceState, runAgent).              *)
THEOREM ChangesAreSound == ChangeSpec => []ChangeIsSound
<1>1. ChangeInv => ChangeIsSound
  <2> SUFFICES ASSUME ChangeInv PROVE GoMeansVerified /\ NoSecondSend
    BY DEF ChangeIsSound
  <2>1. ASSUME NEW c \in Changes, NEW accounted \in Accountings, In(c, "VERIFIED"), CorrectnessPassed(c, accounted)
        PROVE  /\ workspace.version = flow[c].verified.version
               /\ workspace.good /\ workspace.scoped /\ workspace.by = {c}
    <3>1. workspace.version # 0 /\ workspace.scoped /\ flow[c].kept /\ flow[c].verified.pass
      BY <2>1 DEF CorrectnessPassed, NoFindings
    <3>2. workspace.by \subseteq {c} /\ workspace.by # {}
      BY <2>1, <3>1, FlowIsSound DEF TreeIsOwn, ChangeShapes, In, OwnTreePoints
    <3> QED  BY <2>1, <3>1, <3>2, FlowIsSound DEF TreeIsOwn, In
  <2>2. GoMeansVerified
    BY <2>1 DEF GoMeansVerified
  <2>3. NoSecondSend
    BY FlowIsSound DEF SendsAreRemembered, NoSecondSend
  <2> QED  BY <2>2, <2>3
<1> QED  BY <1>1, ChangeInvInit, ChangeInvNext, PTL DEF ChangeSpec

-----------------------------------------------------------------------------
(* Pilot archive. OneTrustedArchive is not inductive: a handle is given out *)
(* on the strength of three files read now, and stays good because the      *)
(* identity receipt, once bound, is never written again, and because a      *)
(* package or commit receipt is written only by a writer that has read the  *)
(* identity receipt as its own.                                             *)

SealShapes ==
    /\ DOMAIN published = ArchiveFiles /\ DOMAIN pending = ArchiveFiles
    /\ DOMAIN sealer = Writers /\ \A w \in Writers : DOMAIN sealer[w] = {"pc", "committed"}
    /\ losses \in Nat

\* Program points after the writer has found its own facts in the identity.
Behind == {"PUT package", "DROP package", "CHECK package", "PUT commit", "DROP commit", "CHECK commit"}
WritersAreBound == \A w \in Writers : sealer[w].pc \in Behind => Binds("identity", WriterFacts[w])
FilesFollowIdentity ==
    \A f \in {"package", "commit"} :
       published[f] # "ABSENT" => Single("identity") /\ published[f] = published["identity"]
HandlesAreBacked ==
    \A a \in handles :
       /\ Binds("identity", a) /\ Binds("commit", a)
       /\ \/ published["package"] = a /\ (~pending["package"] \/ losses > 0)
          \/ published["package"] = "ABSENT" /\ losses > 0
ArchiveInv == SealShapes /\ WritersAreBound /\ FilesFollowIdentity /\ HandlesAreBacked

LEMMA ArchiveInvInit == PilotArchiveInit => ArchiveInv
<1> SUFFICES ASSUME PilotArchiveInit PROVE ArchiveInv
  OBVIOUS
<1>1. SealShapes
  <2>1. DOMAIN published = ArchiveFiles /\ DOMAIN pending = ArchiveFiles /\ losses \in Nat
    BY DEF PilotArchiveInit
  <2>2. DOMAIN sealer = Writers /\ \A w \in Writers : sealer[w] = [pc |-> "START", committed |-> FALSE]
    BY DEF PilotArchiveInit
  <2> QED  BY <2>1, <2>2 DEF SealShapes
<1>2. WritersAreBound
  BY DEF PilotArchiveInit, WritersAreBound, Behind
<1>3. FilesFollowIdentity /\ HandlesAreBacked
  BY DEF PilotArchiveInit, FilesFollowIdentity, HandlesAreBacked, ArchiveFiles
<1> QED  BY <1>1, <1>2, <1>3 DEF ArchiveInv

LEMMA ArchiveInvImplies == ArchiveInv => OneTrustedArchive
<1> SUFFICES ASSUME ArchiveInv PROVE OneTrustedArchive
  OBVIOUS
<1>1. \A a, b \in handles : a = b
  BY DEF ArchiveInv, HandlesAreBacked, Binds
<1>2. ASSUME NEW a \in handles, NEW f \in ArchiveFiles
      PROVE  \/ published[f] = a /\ (~pending[f] \/ losses > 0)
             \/ f = "package" /\ losses > 0 /\ published[f] = "ABSENT"
  BY <1>2 DEF ArchiveInv, HandlesAreBacked, Binds, Single, ArchiveFiles
<1> QED  BY <1>1, <1>2 DEF OneTrustedArchive

\* A step of one writer that touches no file and hands nothing out.
LEMMA SealerMoveKeeps ==
  ASSUME ArchiveInv, NEW w \in Writers, NEW pc, WriterTo(w, pc),
         pc \in Behind => Binds("identity", WriterFacts[w]),
         UNCHANGED <<published, pending, handles, losses>>
  PROVE  ArchiveInv'
<1>1. SealShapes'
  BY DEF ArchiveInv, SealShapes, WriterTo
<1>2. WritersAreBound'
  BY DEF ArchiveInv, SealShapes, WritersAreBound, WriterTo, Binds, Single
<1>3. FilesFollowIdentity' /\ HandlesAreBacked'
  BY DEF ArchiveInv, FilesFollowIdentity, HandlesAreBacked, Binds, Single
<1> QED  BY <1>1, <1>2, <1>3 DEF ArchiveInv

\* Where a writer stands tells whether it is past the identity receipt.
LEMMA PastIdentity ==
  ASSUME NEW f \in ArchiveFiles
  PROVE  /\ f = "identity" => Putting[f] \notin Behind /\ Dropping[f] \notin Behind /\ Checking[f] \notin Behind
         /\ f # "identity" => Putting[f] \in Behind /\ Dropping[f] \in Behind /\ Checking[f] \in Behind
<1>1. CASE f = "identity"
  BY <1>1 DEF Putting, Dropping, Checking, Behind
<1>2. CASE f = "package"
  BY <1>2 DEF Putting, Dropping, Checking, Behind
<1>3. CASE f = "commit"
  BY <1>3 DEF Putting, Dropping, Checking, Behind
<1> QED  BY <1>1, <1>2, <1>3 DEF ArchiveFiles

LEMMA PutKeeps ==
  ASSUME ArchiveInv, NEW w \in Writers, NEW f \in ArchiveFiles, Put(w, f)
  PROVE  ArchiveInv'
<1>1. CASE published[f] # "ABSENT"
  <2>1. WriterTo(w, Checking[f]) /\ UNCHANGED <<published, pending, handles, losses>>
    BY <1>1 DEF Put
  <2>2. Checking[f] \in Behind => Binds("identity", WriterFacts[w])
    BY PastIdentity DEF Put, WriterAt, ArchiveInv, WritersAreBound
  <2> QED  BY <2>1, <2>2, SealerMoveKeeps
<1>2. CASE published[f] = "ABSENT"
  <2> USE WriterAssumption DEF Writers
  <2>1. /\ published' = [published EXCEPT ![f] = WriterFacts[w]]
        /\ pending' = [pending EXCEPT ![f] = TRUE]
        /\ WriterTo(w, Dropping[f]) /\ UNCHANGED <<handles, losses>>
    BY <1>2 DEF Put
  <2>2. SealShapes'
    BY <2>1 DEF ArchiveInv, SealShapes, WriterTo
  <2>3. \A a : Binds("identity", a) /\ a # "ABSENT" => Binds("identity", a)' /\ f # "identity"
    BY <1>2, <2>1 DEF Binds, Single, ArchiveInv, SealShapes, ArchiveFiles
  <2>4. f # "identity" => Binds("identity", WriterFacts[w])
    BY PastIdentity DEF Put, WriterAt, ArchiveInv, WritersAreBound
  <2>5. WritersAreBound'
    <3> SUFFICES ASSUME NEW v \in Writers, sealer'[v].pc \in Behind
                 PROVE  Binds("identity", WriterFacts[v])'
      BY DEF WritersAreBound, Binds, Single
    <3>1. CASE v = w
      <4>1. f # "identity"
        BY <2>1, <3>1, PastIdentity DEF WriterTo, ArchiveInv, SealShapes
      <4> QED  BY <2>3, <2>4, <3>1, <4>1
    <3>2. CASE v # w
      BY <2>1, <2>3, <3>2 DEF WriterTo, ArchiveInv, SealShapes, WritersAreBound
    <3> QED  BY <3>1, <3>2
  <2>6. FilesFollowIdentity'
    BY <1>2, <2>1, <2>4 DEF ArchiveInv, SealShapes, FilesFollowIdentity, Binds, Single, ArchiveFiles
  <2>7. HandlesAreBacked'
    BY <1>2, <2>1, <2>4 DEF ArchiveInv, SealShapes, HandlesAreBacked, Binds, Single, ArchiveFiles
  <2> QED  BY <2>2, <2>5, <2>6, <2>7 DEF ArchiveInv
<1> QED  BY <1>1, <1>2

LEMMA DropKeeps ==
  ASSUME ArchiveInv, NEW w \in Writers, NEW f \in ArchiveFiles, DropPending(w, f)
  PROVE  ArchiveInv'
<1>1. /\ WriterTo(w, Checking[f]) /\ UNCHANGED <<published, handles, losses>>
      /\ \/ pending' = [pending EXCEPT ![f] = FALSE]
         \/ UNCHANGED pending
  BY DEF DropPending
<1>2. SealShapes'
  BY <1>1 DEF ArchiveInv, SealShapes, WriterTo
<1>3. \A g \in ArchiveFiles : \A a : Binds(g, a) => Binds(g, a)'
  BY <1>1 DEF ArchiveInv, SealShapes, Binds, Single
<1>4. WritersAreBound'
  <2> SUFFICES ASSUME NEW v \in Writers, sealer'[v].pc \in Behind
               PROVE  Binds("identity", WriterFacts[v])'
    BY DEF WritersAreBound, Binds, Single
  <2>1. Binds("identity", WriterFacts[v])
    BY <1>1, PastIdentity DEF DropPending, WriterTo, WriterAt, ArchiveInv, SealShapes, WritersAreBound
  <2> QED  BY <1>3, <2>1 DEF ArchiveFiles
<1>5. FilesFollowIdentity'
  BY <1>1 DEF ArchiveInv, SealShapes, FilesFollowIdentity, Single, ArchiveFiles
<1>6. HandlesAreBacked'
  BY <1>1 DEF ArchiveInv, SealShapes, HandlesAreBacked, Binds, Single, ArchiveFiles
<1> QED  BY <1>2, <1>4, <1>5, <1>6 DEF ArchiveInv

LEMMA LossKeeps == ArchiveInv /\ PackageLost => ArchiveInv'
<1> SUFFICES ASSUME ArchiveInv, PackageLost PROVE ArchiveInv'
  OBVIOUS
<1>1. /\ published' = [published EXCEPT !["package"] = "ABSENT"] /\ losses' = losses + 1
      /\ UNCHANGED <<pending, sealer, handles>>
  BY DEF PackageLost
<1>2. SealShapes' /\ WritersAreBound'
  BY <1>1 DEF ArchiveInv, SealShapes, WritersAreBound, Binds, Single, ArchiveFiles
<1>3. FilesFollowIdentity' /\ HandlesAreBacked'
  BY <1>1 DEF ArchiveInv, SealShapes, FilesFollowIdentity, HandlesAreBacked, Binds, Single, ArchiveFiles
<1> QED  BY <1>2, <1>3 DEF ArchiveInv

\* A handle is given out over three files that agree.
LEMMA HandleKeeps ==
  ASSUME ArchiveInv, NEW a, Sealed(a), handles' = handles \cup {a},
         UNCHANGED <<published, pending, losses>>
  PROVE  HandlesAreBacked'
  BY DEF ArchiveInv, HandlesAreBacked, Sealed, PackageBound, Binds, Single

LEMMA WriterStepKeeps ==
  ASSUME ArchiveInv, NEW w \in Writers, WriterStep(w)
  PROVE  ArchiveInv'
<1>1. CASE CreateKey(w)
  <2>1. WriterTo(w, "FILL") \/ WriterTo(w, "KEY")
    BY <1>1 DEF CreateKey
  <2> QED  BY <1>1, <2>1, SealerMoveKeeps DEF CreateKey, Behind
<1>2. CASE FillKey(w)
  BY <1>2, SealerMoveKeeps DEF FillKey, Behind
<1>3. CASE ReadKey(w)
  <2>1. WriterTo(w, "LOOK") \/ WriterTo(w, "FAILED")
    BY <1>3 DEF ReadKey, Refuses
  <2> QED  BY <1>3, <2>1, SealerMoveKeeps DEF ReadKey, Behind
<1>4. CASE Look(w)
  <2>1. CASE Refuses(w)
    BY <1>4, <2>1, SealerMoveKeeps DEF Look, Refuses, Behind
  <2>2. CASE sealer' = [sealer EXCEPT ![w] = [pc |-> "PUT identity", committed |-> published["commit"] # "ABSENT"]]
    <3>1. SealShapes' /\ WritersAreBound'
      BY <1>4, <2>2 DEF Look, ArchiveInv, SealShapes, WritersAreBound, Behind, Binds, Single
    <3>2. FilesFollowIdentity' /\ HandlesAreBacked'
      BY <1>4 DEF Look, ArchiveInv, FilesFollowIdentity, HandlesAreBacked, Binds, Single
    <3> QED  BY <3>1, <3>2 DEF ArchiveInv
  <2> QED  BY <1>4, <2>1, <2>2 DEF Look
<1>5. CASE \E f \in ArchiveFiles : Put(w, f) \/ DropPending(w, f)
  BY <1>5, PutKeeps, DropKeeps
<1>6. CASE CheckIdentity(w)
  <2>1. \/ WriterTo(w, "PUT package") /\ Binds("identity", WriterFacts[w])
        \/ WriterTo(w, "FAILED")
    BY <1>6 DEF CheckIdentity, Refuses, Putting
  <2> QED  BY <1>6, <2>1, SealerMoveKeeps DEF CheckIdentity, Behind
<1>7. CASE CheckPackage(w)
  <2>1. \/ WriterTo(w, "PUT commit") /\ Binds("identity", WriterFacts[w])
        \/ WriterTo(w, "FAILED")
    BY <1>7 DEF CheckPackage, PackageBound, Refuses, Putting
  <2> QED  BY <1>7, <2>1, SealerMoveKeeps DEF CheckPackage, Behind
<1>8. CASE CheckCommit(w)
  <2>1. CASE Refuses(w) /\ UNCHANGED handles
    BY <1>8, <2>1, SealerMoveKeeps DEF CheckCommit, Refuses, Behind
  <2>2. CASE Sealed(WriterFacts[w]) /\ WriterTo(w, "DONE") /\ handles' = handles \cup {WriterFacts[w]}
    <3>1. HandlesAreBacked'
      BY <1>8, <2>2, HandleKeeps DEF CheckCommit
    <3>2. SealShapes' /\ WritersAreBound' /\ FilesFollowIdentity'
      BY <1>8, <2>2 DEF CheckCommit, ArchiveInv, SealShapes, WritersAreBound, FilesFollowIdentity, WriterTo, Behind, Binds, Single
    <3> QED  BY <3>1, <3>2 DEF ArchiveInv
  <2> QED  BY <1>8, <2>1, <2>2 DEF CheckCommit
<1>9. CASE WriterDies(w)
  BY <1>9, SealerMoveKeeps DEF WriterDies, Refuses, Behind
<1> QED  BY <1>1, <1>2, <1>3, <1>4, <1>5, <1>6, <1>7, <1>8, <1>9 DEF WriterStep

(* All trusted handles ever given out hold the same facts, and once there is *)
(* one, all three files name them, unless the package was deleted: for any   *)
(* number of writers, deaths and deletions (archive.ts write,                *)
(* parseBoundArchive).                                                       *)
THEOREM ArchiveIsOne == PilotArchiveSpec => []OneTrustedArchive
<1>1. ASSUME ArchiveInv, [PilotArchiveNext]_pilotArchiveVars PROVE ArchiveInv'
  <2>1. CASE \E w \in Writers : WriterStep(w)
    BY <1>1, <2>1, WriterStepKeeps
  <2>2. CASE ReadArchive
    <3>1. HandlesAreBacked'
      BY <1>1, <2>2, HandleKeeps DEF ReadArchive
    <3>2. SealShapes' /\ WritersAreBound' /\ FilesFollowIdentity'
      BY <1>1, <2>2 DEF ReadArchive, ArchiveInv, SealShapes, WritersAreBound, FilesFollowIdentity, Binds, Single
    <3> QED  BY <3>1, <3>2 DEF ArchiveInv
  <2>3. CASE PackageLost
    BY <1>1, <2>3, LossKeeps
  <2>4. CASE UNCHANGED pilotArchiveVars
    BY <1>1, <2>4 DEF pilotArchiveVars, ArchiveInv, SealShapes, WritersAreBound, FilesFollowIdentity,
                      HandlesAreBacked, Binds, Single
  <2> QED  BY <1>1, <2>1, <2>2, <2>3, <2>4 DEF PilotArchiveNext
<1> QED  BY <1>1, ArchiveInvInit, ArchiveInvImplies, PTL DEF PilotArchiveSpec

-----------------------------------------------------------------------------
(* Counting, as the next sections do it: what is counted is a set, of pairs *)
(* of a holder and a number when the holders count more than one.           *)

LEMMA IntervalCount ==
  ASSUME NEW n \in Nat
  PROVE  IsFiniteSet(1..n) /\ Cardinality(1..n) = n
<1>1. IsFiniteSet(1..n) /\ Cardinality(1..n) = IF 1 > n THEN 0 ELSE n - 1 + 1
  BY FS_Interval
<1> QED
  BY <1>1
LEMMA PairCount ==
  ASSUME NEW e, NEW S, IsFiniteSet(S)
  PROVE  IsFiniteSet({e} \X S) /\ Cardinality({e} \X S) = Cardinality(S)
<1>1. IsFiniteSet({e}) /\ Cardinality({e}) = 1
  BY FS_Singleton
<1>2. IsFiniteSet({e} \X S) /\ Cardinality({e} \X S) = Cardinality({e}) * Cardinality(S)
  BY <1>1, FS_Product
<1> QED
  BY <1>1, <1>2, FS_CardinalityType
LEMMA UnionCount ==
  ASSUME NEW S, NEW T, IsFiniteSet(S), IsFiniteSet(T)
  PROVE  IsFiniteSet(S \cup T) /\ Cardinality(S \cup T) <= Cardinality(S) + Cardinality(T)
<1>1. /\ IsFiniteSet(S \cup T)
      /\ Cardinality(S \cup T) = Cardinality(S) + Cardinality(T) - Cardinality(S \cap T)
  BY FS_Union
<1>2. Cardinality(S) \in Nat /\ Cardinality(T) \in Nat /\ Cardinality(S \cap T) \in Nat
  BY FS_CardinalityType, FS_Intersection
<1> QED
  BY <1>1, <1>2
(* What has different keys in a finite set is no more than the keys, and     *)
(* exactly as many when every key is taken.                                  *)
LEMMA KeyedCount ==
  ASSUME NEW S, NEW T, IsFiniteSet(T), NEW key \in [S -> T], \A x, y \in S : key[x] = key[y] => x = y
  PROVE  /\ IsFiniteSet(S) /\ Cardinality(S) \in Nat /\ Cardinality(T) \in Nat /\ Cardinality(S) <= Cardinality(T)
         /\ Cardinality(S) = Cardinality(T) <=> \A t \in T : \E x \in S : key[x] = t
<1>1. key \in Injection(S, T)
  BY DEF Injection, IsInjective
<1>2. /\ IsFiniteSet(S) /\ Cardinality(S) <= Cardinality(T)
      /\ Cardinality(S) = Cardinality(T) <=> key \in Surjection(S, T)
  BY <1>1, FS_Injection
<1>3. Cardinality(S) \in Nat /\ Cardinality(T) \in Nat
  BY <1>2, FS_CardinalityType
<1>4. key \in Surjection(S, T) <=> \A t \in T : \E x \in S : key[x] = t
  BY DEF Surjection
<1> QED
  BY <1>2, <1>3, <1>4
(* As many arguments as values: every value is taken when none is twice.     *)
LEMMA OneEach ==
  ASSUME NEW T, IsFiniteSet(T), NEW n, n = Cardinality(T), NEW key \in [1..n -> T]
  PROVE  key \in Injection(1..n, T) <=> key \in Surjection(1..n, T)
<1>1. n \in Nat
  BY FS_CardinalityType
<1>2. IsFiniteSet(1..n) /\ Cardinality(1..n) = n
  BY <1>1, IntervalCount
<1>3. key \in Injection(1..n, T) => key \in Surjection(1..n, T)
  BY <1>2, FS_Injection
<1>4. key \in Surjection(1..n, T) => key \in Injection(1..n, T)
  BY <1>2, FS_SurjSameCardinalityImpliesInj
<1> QED
  BY <1>3, <1>4

LEMMA Matches ==
  ASSUME NEW T, IsFiniteSet(T), NEW n, n = Cardinality(T), NEW key \in [1..n -> T],
         \A i, j \in 1..n : key[i] = key[j] => i = j
  PROVE  \A t \in T : \E i \in 1..n : key[i] = t
<1>1. key \in Injection(1..n, T)
  BY DEF Injection, IsInjective
<1>2. key \in Surjection(1..n, T)
  BY <1>1, OneEach
<1> QED
  BY <1>2 DEF Surjection

LEMMA SplitCount ==
  ASSUME NEW S, IsFiniteSet(S), NEW A, NEW B, S = A \cup B, A \cap B = {}
  PROVE  /\ IsFiniteSet(A) /\ IsFiniteSet(B) /\ Cardinality(A) \in Nat /\ Cardinality(B) \in Nat
         /\ Cardinality(S) = Cardinality(A) + Cardinality(B)
<1>1. IsFiniteSet(A) /\ IsFiniteSet(B)
  BY FS_Subset
<1>2. Cardinality(A \cup B) = Cardinality(A) + Cardinality(B) - Cardinality({})
  BY <1>1, FS_Union
<1> QED
  BY <1>1, <1>2, FS_EmptySet, FS_CardinalityType

LEMMA TwoOf ==
  ASSUME NEW S, IsFiniteSet(S)
  PROVE  Cardinality(S) < 2 <=> \A x, y \in S : x = y
<1>1. Cardinality(S) \in Nat
  BY FS_CardinalityType
<1>2. ASSUME Cardinality(S) < 2, NEW x \in S, NEW y \in S
      PROVE  x = y
  <2>1. CASE Cardinality(S) = 0
    BY <2>1, <1>2, FS_EmptySet
  <2>2. CASE Cardinality(S) = 1
    <3>1. PICK z : S = {z}
      BY <2>2, FS_Singleton
    <3> QED
      BY <3>1, <1>2
  <2> QED
    BY <2>1, <2>2, <1>1, <1>2
<1>3. ASSUME \A x, y \in S : x = y
      PROVE  Cardinality(S) < 2
  <2>1. CASE S = {}
    BY <2>1, FS_EmptySet
  <2>2. CASE S # {}
    <3>1. PICK x : x \in S
      BY <2>2
    <3>2. S = {x}
      BY <3>1, <1>3
    <3>3. Cardinality({x}) = 1
      BY FS_Singleton
    <3> QED
      BY <3>2, <3>3
  <2> QED
    BY <2>1, <2>2
<1> QED
  BY <1>2, <1>3
(* The values of a function are no more than its arguments.                  *)
LEMMA ValueCount ==
  ASSUME NEW S, IsFiniteSet(S), NEW f, f = [x \in S |-> f[x]]
  PROVE  LET T == {f[x] : x \in S} IN IsFiniteSet(T) /\ Cardinality(T) <= Cardinality(S)
<1> DEFINE T == {f[x] : x \in S}
<1>1. f \in Surjection(S, T)
  BY DEF Surjection
<1>2. IsFiniteSet(T) /\ Cardinality(T) <= Cardinality(S)
  BY <1>1, FS_Surjection
<1> QED
  BY <1>2
LEMMA OnlyMember ==
  ASSUME NEW S, NEW x \in S, \A y \in S : y = x
  PROVE  (CHOOSE y \in S : TRUE) = x
<1>1. \E y \in S : TRUE
  OBVIOUS
<1>2. (CHOOSE y \in S : TRUE) \in S
  BY <1>1
<1> QED
  BY <1>2

-----------------------------------------------------------------------------
(* Evidence store. An evidence file has one envelope because each writer    *)
(* publishes exactly what its own evidence says.                            *)

Envelopes == [form : Forms, content : Contents]
CapturesUnderWay ==
    [id : EvidenceIds, content : Contents, form : Forms,
     phase : {"ADMIT", "WRITE", "LINK", "PUBLISHED", "FALLBACK"}]
NoncriticalStored == UNION {{i} \X StoredBytes(i) : i \in EvidenceIds \ CriticalIds}
EvidenceTypes ==
    /\ directory \subseteq EvidenceIds
    /\ record \in [EvidenceIds -> SUBSET Envelopes]
    /\ capture = NoCapture \/ capture \in CapturesUnderWay
(* Before the link the identity of the capture has no envelope, and what is  *)
(* admitted as growth still fits.                                            *)
CaptureFits ==
    /\ capture.phase = "LINK" => capture.id \in directory
    /\ capture.phase \in {"ADMIT", "WRITE", "LINK"} => record[capture.id] = {}
    /\ capture.phase \in {"WRITE", "LINK"} /\ capture.id \notin CriticalIds =>
          Cardinality(NoncriticalStored) + EnvelopeBytes(capture) < RunStop
EnvelopesAreOne ==
    /\ \A i \in EvidenceIds : record[i] # {} => i \in directory /\ \E e \in Envelopes : record[i] = {e}
    /\ IsFiniteSet(NoncriticalStored) /\ Cardinality(NoncriticalStored) < RunStop
EvidenceInv == EvidenceTypes /\ CaptureFits /\ EnvelopesAreOne

LEMMA CaptureGoes ==
  ASSUME NEW p \in {"ADMIT", "WRITE", "LINK", "PUBLISHED", "FALLBACK"}, NEW f \in Forms, CaptureTo(p, f),
         capture \in CapturesUnderWay
  PROVE  capture' \in CapturesUnderWay /\ capture'.phase = p /\ capture'.form = f /\ capture'.id = capture.id
  BY DEF CaptureTo, CapturesUnderWay

LEMMA BytesAreSmall == \A e : EnvelopeBytes(e) \in {1, 2}
  BY DEF EnvelopeBytes

(* What is counted before growth is all the noncritical Evidence there is.   *)
LEMMA ListedIsStored ==
  ASSUME EvidenceInv
  PROVE  NoncriticalBytes = Cardinality(NoncriticalStored)
<1>1. \A i \in EvidenceIds : record[i] = {} => StoredBytes(i) = {}
  BY DEF StoredBytes
<1>2. \A i \in EvidenceIds : i \notin directory => {i} \X StoredBytes(i) = {}
  BY <1>1 DEF EvidenceInv, EnvelopesAreOne
<1>3. UNION {{i} \X StoredBytes(i) : i \in directory \ CriticalIds} = NoncriticalStored
  BY <1>2 DEF NoncriticalStored, EvidenceInv, EvidenceTypes
<1> QED
  BY <1>3 DEF NoncriticalBytes, BytesStored

LEMMA InitEvidence == EvidenceInit => EvidenceInv
<1> SUFFICES ASSUME EvidenceInit PROVE EvidenceInv
  OBVIOUS
<1>1. NoncriticalStored = {}
  BY DEF NoncriticalStored, StoredBytes, EvidenceInit
<1>2. EvidenceTypes /\ CaptureFits
  BY DEF EvidenceInit, EvidenceTypes, CaptureFits, NoCapture
<1>3. EnvelopesAreOne
  BY <1>1, FS_EmptySet, EvidenceAssumption DEF EvidenceInit, EnvelopesAreOne, EvidenceAssumption
<1> QED
  BY <1>2, <1>3 DEF EvidenceInv

(* A step that publishes nothing.                                            *)
LEMMA NothingPublished ==
  ASSUME EvidenceInv, record' = record
  PROVE  NoncriticalStored' = NoncriticalStored
  BY DEF NoncriticalStored, StoredBytes

LEMMA EvidenceStays ==
  ASSUME EvidenceInv, record' = record, directory \subseteq directory'
  PROVE  EnvelopesAreOne'
  BY NothingPublished DEF EvidenceInv, EnvelopesAreOne

LEMMA LinkEnvelopeKeeps == ASSUME EvidenceInv, LinkEnvelope PROVE EvidenceInv'
<1>0. capture \in CapturesUnderWay /\ capture.phase = "LINK" /\ record[capture.id] = {}
  BY DEF EvidenceInv, EvidenceTypes, CaptureFits, LinkEnvelope, CaptureAt, NoCapture
<1>1. PICK i \in EvidenceIds, e \in Envelopes, n \in {1, 2} :
         /\ i = capture.id /\ e = [form |-> capture.form, content |-> capture.content]
         /\ EnvelopeBytes(capture) = n /\ EnvelopeBytes(e) = n
  BY <1>0, BytesAreSmall DEF CapturesUnderWay, Envelopes, EnvelopeBytes
<1>2. record' = [record EXCEPT ![i] = {e}] /\ directory' = directory /\ record[i] = {}
  BY <1>0, <1>1 DEF LinkEnvelope
<1>3. /\ StoredBytes(i)' = {e} \X (1..n) /\ StoredBytes(i) = {}
      /\ \A j \in EvidenceIds \ {i} : StoredBytes(j)' = StoredBytes(j)
  BY <1>1, <1>2 DEF StoredBytes, EvidenceInv, EvidenceTypes
<1>4. EnvelopesAreOne'
  <2>1. \A j \in EvidenceIds : record'[j] # {} => j \in directory' /\ \E f \in Envelopes : record'[j] = {f}
    BY <1>0, <1>1, <1>2 DEF EvidenceInv, EvidenceTypes, EnvelopesAreOne, CaptureFits
  <2>2. CASE i \in CriticalIds
    <3>1. NoncriticalStored' = NoncriticalStored
      BY <1>3, <2>2 DEF NoncriticalStored
    <3> QED
      BY <2>1, <3>1 DEF EvidenceInv, EnvelopesAreOne
  <2>3. CASE i \notin CriticalIds
    <3> DEFINE new == {i} \X ({e} \X (1..n))
    <3>1. NoncriticalStored' = NoncriticalStored \cup new
      <4>1. {i} \X StoredBytes(i)' = new /\ {i} \X StoredBytes(i) = {}
        BY <1>3
      <4>2. \A j \in EvidenceIds \ CriticalIds : j # i => {j} \X StoredBytes(j)' = {j} \X StoredBytes(j)
        BY <1>3
      <4>3. NoncriticalStored' = UNION {{j} \X StoredBytes(j)' : j \in EvidenceIds \ CriticalIds}
        BY DEF NoncriticalStored
      <4> HIDE DEF new
      <4> QED
        BY <1>1, <2>3, <4>1, <4>2, <4>3 DEF NoncriticalStored
    <3>2. IsFiniteSet(new) /\ Cardinality(new) = n
      <4>1. IsFiniteSet(1..n) /\ Cardinality(1..n) = n
        BY <1>1, IntervalCount
      <4>2. IsFiniteSet({e} \X (1..n)) /\ Cardinality({e} \X (1..n)) = n
        BY <4>1, PairCount
      <4> QED
        BY <4>2, PairCount
    <3> HIDE DEF new
    <3>3. IsFiniteSet(NoncriticalStored) /\ Cardinality(NoncriticalStored) + n < RunStop
      BY <1>0, <1>1, <2>3 DEF EvidenceInv, EnvelopesAreOne, CaptureFits
    <3>4. /\ IsFiniteSet(NoncriticalStored \cup new)
          /\ Cardinality(NoncriticalStored \cup new) <= Cardinality(NoncriticalStored) + n
      BY <3>2, <3>3, UnionCount
    <3>5. Cardinality(NoncriticalStored) \in Nat /\ Cardinality(NoncriticalStored \cup new) \in Nat /\ RunStop \in Nat
      BY <3>3, <3>4, FS_CardinalityType, EvidenceAssumption DEF EvidenceAssumption
    <3>6. Cardinality(NoncriticalStored \cup new) < RunStop
      BY <1>1, <3>3, <3>4, <3>5
    <3> QED
      BY <2>1, <3>1, <3>4, <3>6 DEF EnvelopesAreOne
  <2> QED
    BY <2>2, <2>3
<1>5. EvidenceTypes' /\ CaptureFits'
  <2>1. capture' \in CapturesUnderWay /\ capture'.phase = "PUBLISHED" /\ capture'.id = capture.id
    BY <1>0, CaptureGoes DEF LinkEnvelope, CapturesUnderWay
  <2> QED
    BY <1>1, <1>2, <2>1 DEF EvidenceInv, EvidenceTypes, CaptureFits
<1> QED
  BY <1>4, <1>5 DEF EvidenceInv

LEMMA CaptureBeginsKeeps ==
  ASSUME EvidenceInv, NEW i \in EvidenceIds, NEW c \in Contents, NEW form \in Forms, CaptureBegins(i, c, form)
  PROVE  EvidenceInv'
<1>1. /\ UNCHANGED <<directory, record>> /\ record[i] = {}
      /\ capture' = [id |-> i, content |-> c, form |-> form,
                      phase |-> IF form = "DIGEST_ONLY" /\ i \in CriticalIds THEN "WRITE" ELSE "ADMIT"]
  BY DEF CaptureBegins
<1>2. EvidenceTypes' /\ CaptureFits'
  BY <1>1 DEF EvidenceInv, EvidenceTypes, CaptureFits, CapturesUnderWay
<1> QED
  BY <1>1, <1>2, EvidenceStays DEF EvidenceInv

(* A capture that ends or falls back: these steps publish nothing and make nothing fit that did not.        *)
LEMMA CaptureEndsKeeps ==
  ASSUME EvidenceInv, UNCHANGED <<directory, record>>, capture' = NoCapture \/ CaptureTo("FALLBACK", "RETAINED"),
         ~CaptureAt("NONE")
  PROVE  EvidenceInv'
<1>1. capture' = NoCapture \/ (capture' \in CapturesUnderWay /\ capture'.phase = "FALLBACK")
  BY CaptureGoes DEF EvidenceInv, EvidenceTypes, NoCapture, CaptureAt, Forms
<1>2. EvidenceTypes' /\ CaptureFits'
  BY <1>1 DEF EvidenceInv, EvidenceTypes, CaptureFits, NoCapture
<1> QED
  BY <1>2, EvidenceStays DEF EvidenceInv

LEMMA AdmitGrowthKeeps == ASSUME EvidenceInv, AdmitGrowth PROVE EvidenceInv'
<1>1. /\ UNCHANGED <<directory, record>> /\ capture \in CapturesUnderWay /\ record[capture.id] = {}
      /\ NoncriticalStored' = NoncriticalStored
  BY NothingPublished DEF AdmitGrowth, EvidenceInv, EvidenceTypes, CaptureFits, CaptureAt, NoCapture
<1>2. CASE BelowStop /\ CaptureTo("WRITE", capture.form)
  <2>1. /\ capture' = [capture EXCEPT !.phase = "WRITE", !.form = capture.form]
        /\ Cardinality(NoncriticalStored) + EnvelopeBytes(capture) < RunStop
    BY <1>2, ListedIsStored DEF BelowStop, CaptureTo
  <2>2. capture' \in CapturesUnderWay /\ capture'.id = capture.id /\ EnvelopeBytes(capture)' = EnvelopeBytes(capture)
    BY <1>1, <2>1 DEF CapturesUnderWay, EnvelopeBytes
  <2>3. EvidenceTypes' /\ CaptureFits'
    BY <1>1, <2>1, <2>2 DEF EvidenceInv, EvidenceTypes, CaptureFits
  <2> QED
    BY <1>1, <2>3, EvidenceStays DEF EvidenceInv
<1>3. CASE CaptureTo("FALLBACK", "RETAINED") \/ capture' = NoCapture
  BY <1>1, <1>3, CaptureEndsKeeps DEF AdmitGrowth, CaptureAt
<1> QED
  BY <1>2, <1>3 DEF AdmitGrowth

LEMMA MakeDirectoryKeeps == ASSUME EvidenceInv, MakeDirectory PROVE EvidenceInv'
<1>1. /\ record' = record /\ directory' = directory \cup {capture.id}
      /\ capture' = [capture EXCEPT !.phase = "LINK", !.form = capture.form]
      /\ capture \in CapturesUnderWay /\ capture.phase = "WRITE" /\ NoncriticalStored' = NoncriticalStored
  BY NothingPublished DEF MakeDirectory, CaptureTo, CaptureAt, EvidenceInv, EvidenceTypes, NoCapture
<1>2. capture' \in CapturesUnderWay /\ capture'.id = capture.id /\ EnvelopeBytes(capture)' = EnvelopeBytes(capture)
  BY <1>1 DEF CapturesUnderWay, EnvelopeBytes
<1>3. EvidenceTypes' /\ CaptureFits'
  BY <1>1, <1>2 DEF EvidenceInv, EvidenceTypes, CaptureFits, CapturesUnderWay
<1> QED
  BY <1>1, <1>3, EvidenceStays DEF EvidenceInv

LEMMA DiskFullKeeps == ASSUME EvidenceInv, DiskFull PROVE EvidenceInv'
<1>1. UNCHANGED <<directory, record>> /\ ~CaptureAt("NONE")
  BY DEF DiskFull, CaptureAt
<1>2. CASE capture' = NoCapture \/ CaptureTo("FALLBACK", "RETAINED")
  BY <1>1, <1>2, CaptureEndsKeeps
<1>3. CASE capture.id \in CriticalIds /\ CaptureAt("LINK") /\ CaptureTo("LINK", "DIGEST_ONLY")
  <2>1. capture \in CapturesUnderWay /\ capture' \in CapturesUnderWay /\ capture'.phase = "LINK" /\ capture'.id = capture.id
    BY <1>3, CaptureGoes DEF EvidenceInv, EvidenceTypes, NoCapture, CaptureAt, Forms
  <2>2. EvidenceTypes' /\ CaptureFits'
    BY <1>1, <1>3, <2>1 DEF EvidenceInv, EvidenceTypes, CaptureFits, CaptureAt
  <2> QED
    BY <1>1, <2>2, EvidenceStays DEF EvidenceInv
<1> QED
  BY <1>2, <1>3 DEF DiskFull

LEMMA FallBackKeeps == ASSUME EvidenceInv, FallBack PROVE EvidenceInv'
<1>1. UNCHANGED <<directory, record>> /\ CaptureAt("FALLBACK")
  BY DEF FallBack
<1>2. CASE capture' = NoCapture
  BY <1>1, <1>2, CaptureEndsKeeps DEF CaptureAt
<1>3. CASE AfterFallback # "NONE" /\ CaptureTo(AfterFallback, "DIGEST_ONLY")
  <2>1. /\ record[capture.id] = {} /\ AfterFallback \in {"WRITE", "ADMIT"}
        /\ AfterFallback = "WRITE" => capture.id \in CriticalIds
    BY <1>3 DEF AfterFallback
  <2>2. capture \in CapturesUnderWay
    BY <1>1 DEF EvidenceInv, EvidenceTypes, NoCapture, CaptureAt
  <2>3. capture' \in CapturesUnderWay /\ capture'.phase = AfterFallback /\ capture'.id = capture.id
    BY <1>3, <2>1, <2>2, CaptureGoes DEF Forms
  <2>4. EvidenceTypes' /\ CaptureFits'
    BY <1>1, <2>1, <2>3 DEF EvidenceInv, EvidenceTypes, CaptureFits
  <2> QED
    BY <1>1, <2>4, EvidenceStays DEF EvidenceInv
<1> QED
  BY <1>2, <1>3 DEF FallBack

LEMMA EvidenceNextKeeps == EvidenceInv /\ [EvidenceNext]_evidenceVars => EvidenceInv'
<1> SUFFICES ASSUME EvidenceInv, [EvidenceNext]_evidenceVars PROVE EvidenceInv'
  OBVIOUS
<1>1. CASE UNCHANGED evidenceVars
  BY <1>1 DEF evidenceVars, EvidenceInv, EvidenceTypes, CaptureFits, EnvelopesAreOne, NoncriticalStored,
     StoredBytes, EnvelopeBytes
<1>2. CASE CaptureReturns \/ CaptureDies
  BY <1>2, CaptureEndsKeeps DEF CaptureReturns, CaptureDies, CaptureAt
<1> QED
  BY <1>1, <1>2, CaptureBeginsKeeps, AdmitGrowthKeeps, MakeDirectoryKeeps, LinkEnvelopeKeeps, DiskFullKeeps,
     FallBackKeeps DEF EvidenceNext

(* One envelope per Evidence identity, and noncritical Evidence below the    *)
(* Run's stop, whatever writes fail and wherever a capture dies.             *)
THEOREM EnvelopesStayOne == EvidenceSpec => []OneEnvelopePerEvidence
<1>1. EvidenceInv => OneEnvelopePerEvidence
  <2> SUFFICES ASSUME EvidenceInv PROVE OneEnvelopePerEvidence
    OBVIOUS
  <2>1. \A i \in EvidenceIds : Cardinality(record[i]) =< 1
    <3> SUFFICES ASSUME NEW i \in EvidenceIds PROVE Cardinality(record[i]) =< 1
      OBVIOUS
    <3>1. record[i] = {} \/ \E e : record[i] = {e}
      BY DEF EvidenceInv, EnvelopesAreOne
    <3>2. CASE record[i] = {}
      BY <3>2, FS_EmptySet
    <3>3. CASE \E e : record[i] = {e}
      BY <3>3, FS_Singleton
    <3> QED
      BY <3>1, <3>2, <3>3
  <2> QED
    BY <2>1 DEF OneEnvelopePerEvidence, EvidenceInv, EnvelopesAreOne, BytesStored, NoncriticalStored
<1> QED
  BY <1>1, InitEvidence, EvidenceNextKeeps, PTL DEF EvidenceSpec

-----------------------------------------------------------------------------
(* Capture session. The journal and the intents are one book: every intent  *)
(* but the pending one is completed by the event at its own place, a send   *)
(* has its intent, and who is about to send is alone with the pending one.  *)

JournalEvents == [op : {o.op : o \in Operations}, fact : {o.fact : o \in Operations}, usage : Nat]
ProviderIntents == [op : {o.op : o \in Operations}, fact : {o.fact : o \in Operations}, before : Nat]
ProviderSends == [op : {o.op : o \in Operations}, fact : {o.fact : o \in Operations}, usage : Nat, by : Runners]
CapturePcs == {"IDLE", "RESERVE", "COLLECT", "PREPARE", "AUTHORIZE", "SEND", "RECORD"}
CaptureTypes ==
    /\ chain \in Seq(JournalEvents)
    /\ intents \subseteq ProviderIntents
    /\ sealed \in Nat
    /\ twoLinks \in BOOLEAN
    /\ runner \in [Runners -> [pc : CapturePcs, o : Operations \cup {NoOperation}, usage : Nat]]
    /\ spent \subseteq ProviderSends
    /\ \A r \in Runners : runner[r].pc # "IDLE" => runner[r].o \in Operations
(* Every intent but the last is completed by the event of its own operation, *)
(* and the last one waits at the end of the journal.                         *)
IntentsInOrder ==
    /\ \A i, j \in intents : i.op = j.op => i = j
    /\ \A i, j \in Unresolved : i = j
    /\ \A i \in Unresolved : i.before = Len(chain) /\ ~InChain(i.op) /\ ~HasFact(i.fact)
    /\ \A i \in intents \ Unresolved :
          i.before < Len(chain) /\ chain[i.before + 1].op = i.op /\ chain[i.before + 1].fact = i.fact
(* Nothing is sent without its intent, which is pending until it is recorded.*)
SendsHaveIntents ==
    /\ \A s \in spent : \E i \in intents : i.op = s.op /\ i.fact = s.fact
    /\ \A r \in Runners : RunnerAt(r, "SEND") =>
          /\ \E i \in Unresolved : i.op = Operation(r).op /\ i.fact = Operation(r).fact
          /\ \A s \in spent : s.op # Operation(r).op
          /\ \A q \in Runners : RunnerAt(q, "SEND") => q = r
    /\ \A r \in Runners : RunnerAt(r, "RECORD") /\ Operation(r).kind # "FACT" =>
          \E s \in spent : s.op = Operation(r).op /\ s.fact = Operation(r).fact
SpendsOnce == \A s, t \in spent : s.op = t.op \/ s.fact = t.fact => s = t
UsageFits == IsFiniteSet(RecordedRequests) /\ Usage <= Budget
SealedIsSettled == sealed > 0 => Unresolved = {}
CaptureInv == CaptureTypes /\ IntentsInOrder /\ SendsHaveIntents /\ SpendsOnce /\ UsageFits /\ SealedIsSettled

LEMMA InitCapture == CaptureInit => CaptureInv
<1> SUFFICES ASSUME CaptureInit PROVE CaptureInv
  OBVIOUS
<1>1. chain = <<>> /\ Len(chain) = 0 /\ 1..Len(chain) = {}
  BY DEF CaptureInit
<1>2. RecordedRequests = {} /\ Unresolved = {}
  BY <1>1 DEF RecordedRequests, Unresolved, CaptureInit
<1>3. CaptureTypes
  <2>1. chain \in Seq(JournalEvents)
    BY <1>1, EmptySeq
  <2>2. NoOperation \in Operations \cup {NoOperation}
    OBVIOUS
  <2> QED
    BY <2>1, <2>2 DEF CaptureInit, CaptureTypes, IdleRunner, CapturePcs
<1>4. IntentsInOrder /\ SendsHaveIntents /\ SpendsOnce /\ SealedIsSettled
  BY <1>2 DEF CaptureInit, IntentsInOrder, SendsHaveIntents, SpendsOnce, SealedIsSettled, RunnerAt, IdleRunner
<1>5. UsageFits
  BY <1>2, FS_EmptySet, CaptureAssumption DEF UsageFits, Usage, CaptureAssumption
<1> QED
  BY <1>3, <1>4, <1>5 DEF CaptureInv

(* The journal alone decides what is in it, what is used and what is pending.*)
LEMMA JournalStays ==
  ASSUME chain' = chain
  PROVE  /\ Usage' = Usage /\ RecordedRequests' = RecordedRequests
         /\ \A op : InChain(op)' = InChain(op)
         /\ \A f : HasFact(f)' = HasFact(f)
         /\ \A i : Completes(i)' = Completes(i)
         /\ intents' = intents => Unresolved' = Unresolved
<1>1. RecordedRequests' = RecordedRequests
  BY DEF RecordedRequests
<1>2. \A op : InChain(op)' = InChain(op)
  BY DEF InChain
<1>3. \A f : HasFact(f)' = HasFact(f)
  BY DEF HasFact
<1>4. \A i : Completes(i)' = Completes(i)
  BY DEF Completes
<1>5. intents' = intents => Unresolved' = Unresolved
  BY <1>4 DEF Unresolved
<1> QED
  BY <1>1, <1>2, <1>3, <1>4, <1>5 DEF Usage

LEMMA BooksStay ==
  ASSUME CaptureInv, UNCHANGED <<chain, intents, sealed>>
  PROVE  IntentsInOrder' /\ UsageFits' /\ SealedIsSettled'
  BY JournalStays DEF CaptureInv, IntentsInOrder, UsageFits, SealedIsSettled

(* A recorded event takes the place that was kept for it.                    *)
LEMMA JournalGrows ==
  ASSUME CaptureInv, NEW r \in Runners, RunnerAt(r, "RECORD"), RecordAccepts(r), UNCHANGED <<intents, sealed>>,
         chain' = Append(chain, [op |-> Operation(r).op, fact |-> Operation(r).fact, usage |-> runner[r].usage])
  PROVE  /\ chain' \in Seq(JournalEvents) /\ Unresolved' = {}
         /\ IntentsInOrder' /\ UsageFits' /\ SealedIsSettled'
<1> DEFINE e == [op |-> Operation(r).op, fact |-> Operation(r).fact, usage |-> runner[r].usage]
<1>1. e \in JournalEvents /\ e.op = Operation(r).op /\ e.fact = Operation(r).fact /\ e.usage = runner[r].usage
  BY DEF CaptureInv, CaptureTypes, RunnerAt, Operation, JournalEvents
<1>2. chain \in Seq(JournalEvents) /\ chain' = Append(chain, e)
  BY DEF CaptureInv, CaptureTypes
<1> HIDE DEF e
<1>3. /\ chain' \in Seq(JournalEvents) /\ Len(chain') = Len(chain) + 1 /\ chain'[Len(chain) + 1] = e
      /\ \A k \in 1..Len(chain) : chain'[k] = chain[k]
  BY <1>1, <1>2, AppendProperties
<1>4. Len(chain) \in Nat
  BY <1>2, LenProperties
<1>5. \A i \in intents \ Unresolved :
         i.before < Len(chain) /\ i.before + 1 \in 1..Len(chain) /\ chain'[i.before + 1] = chain[i.before + 1]
  <2> SUFFICES ASSUME NEW i \in intents \ Unresolved
               PROVE  i.before < Len(chain) /\ i.before + 1 \in 1..Len(chain)
                      /\ chain'[i.before + 1] = chain[i.before + 1]
    OBVIOUS
  <2>1. i.before \in Nat /\ i.before < Len(chain)
    BY DEF CaptureInv, CaptureTypes, IntentsInOrder, ProviderIntents
  <2> QED
    BY <1>3, <1>4, <2>1
<1>6. \A i \in Unresolved : i.before = Len(chain) /\ i.op = e.op /\ i.fact = e.fact
  BY <1>1 DEF CaptureInv, IntentsInOrder, RecordAccepts
<1>7. \A i \in intents : /\ i.before < Len(chain')
                         /\ chain'[i.before + 1].op = i.op /\ chain'[i.before + 1].fact = i.fact
  BY <1>3, <1>4, <1>5, <1>6 DEF CaptureInv, IntentsInOrder, CaptureTypes, ProviderIntents
<1>8. Unresolved' = {}
  BY <1>7 DEF Unresolved, Completes
<1>9. IntentsInOrder' /\ SealedIsSettled'
  BY <1>7, <1>8 DEF IntentsInOrder, CaptureInv, SealedIsSettled
<1>10. UsageFits'
  <2> DEFINE new == {Len(chain) + 1} \X (1..e.usage)
  <2>1. RecordedRequests' = RecordedRequests \cup new
    <3>1. 1..Len(chain') = 1..Len(chain) \cup {Len(chain) + 1}
      BY <1>3, <1>4
    <3>2. RecordedRequests' = UNION {{k} \X (1..chain'[k].usage) : k \in 1..Len(chain')}
      BY DEF RecordedRequests
    <3> QED
      BY <1>3, <3>1, <3>2 DEF RecordedRequests
  <2>2. e.usage \in Nat
    BY <1>1 DEF JournalEvents
  <2>3. IsFiniteSet(1..e.usage) /\ Cardinality(1..e.usage) = e.usage
    BY <2>2, IntervalCount
  <2>4. IsFiniteSet(new) /\ Cardinality(new) = e.usage
    BY <2>3, PairCount
  <2> HIDE DEF new
  <2>5. IsFiniteSet(RecordedRequests) /\ Cardinality(RecordedRequests) + e.usage <= Budget
    BY <1>1 DEF CaptureInv, UsageFits, RecordAccepts, Usage
  <2>6. /\ IsFiniteSet(RecordedRequests \cup new)
        /\ Cardinality(RecordedRequests \cup new) <= Cardinality(RecordedRequests) + e.usage
    BY <2>4, <2>5, UnionCount
  <2>7. Cardinality(RecordedRequests) \in Nat /\ Cardinality(RecordedRequests \cup new) \in Nat /\ Budget \in Nat
    BY <2>5, <2>6, FS_CardinalityType, CaptureAssumption DEF CaptureAssumption
  <2>8. Cardinality(RecordedRequests \cup new) <= Budget
    BY <2>2, <2>5, <2>6, <2>7
  <2> QED
    BY <2>1, <2>6, <2>8 DEF UsageFits, Usage
<1> QED
  BY <1>3, <1>8, <1>9, <1>10

(* Who records has sent, and who is about to send has not: no send waits     *)
(* behind the intent that a record completes.                                *)
LEMMA NoSendBehindRecord ==
  ASSUME CaptureInv, NEW r \in Runners, RunnerAt(r, "RECORD"), RecordAccepts(r), NEW q \in Runners, RunnerAt(q, "SEND")
  PROVE  FALSE
<1>1. PICK i \in Unresolved : i.op = Operation(q).op
  BY DEF CaptureInv, SendsHaveIntents
<1>2. Operation(r).kind # "FACT" /\ i.op = Operation(r).op
  BY <1>1 DEF RecordAccepts
<1>3. \E s \in spent : s.op = Operation(r).op
  BY <1>2 DEF CaptureInv, SendsHaveIntents
<1> QED
  BY <1>1, <1>2, <1>3 DEF CaptureInv, SendsHaveIntents

(* A runner that leaves off owes nothing.                                    *)
LEMMA CaptureEnds ==
  ASSUME CaptureInv, NEW r \in Runners, Ends(r)
  PROVE  /\ runner' = [runner EXCEPT ![r] = IdleRunner]
         /\ runner' \in [Runners -> [pc : CapturePcs, o : Operations \cup {NoOperation}, usage : Nat]]
         /\ \A q \in Runners : /\ q # r => runner'[q] = runner[q]
                               /\ q = r => runner'[q].pc = "IDLE"
         /\ \A q \in Runners : runner'[q].pc # "IDLE" => runner'[q].o \in Operations
  BY DEF CaptureInv, CaptureTypes, Ends, IdleRunner, CapturePcs, NoOperation

LEMMA RecordEventKeeps == ASSUME CaptureInv, NEW r \in Runners, RecordEvent(r) PROVE CaptureInv'
<1>1. /\ UNCHANGED <<intents, sealed, twoLinks, spent>> /\ Ends(r) /\ RunnerAt(r, "RECORD")
  BY DEF RecordEvent
<1>2. CASE ~RecordAccepts(r)
  <2>1. chain' = chain
    BY <1>2 DEF RecordEvent
  <2>2. CaptureTypes'
    BY <1>1, <2>1, CaptureEnds DEF CaptureInv, CaptureTypes
  <2>3. SendsHaveIntents' /\ SpendsOnce'
    BY <1>1, <2>1, CaptureEnds, JournalStays DEF CaptureInv, SendsHaveIntents, SpendsOnce, RunnerAt, Operation
  <2> QED
    BY <1>1, <2>1, <2>2, <2>3, BooksStay DEF CaptureInv
<1>3. CASE RecordAccepts(r)
  <2>1. chain' = Append(chain, [op |-> Operation(r).op, fact |-> Operation(r).fact, usage |-> runner[r].usage])
    BY <1>3 DEF RecordEvent
  <2>2. chain' \in Seq(JournalEvents) /\ IntentsInOrder' /\ UsageFits' /\ SealedIsSettled'
    BY <1>1, <1>3, <2>1, JournalGrows
  <2>3. CaptureTypes'
    BY <1>1, <2>2, CaptureEnds DEF CaptureInv, CaptureTypes
  <2>4. \A q \in Runners : runner[q].pc # "SEND"
    BY <1>1, <1>3, NoSendBehindRecord DEF RunnerAt
  <2>5. SendsHaveIntents' /\ SpendsOnce'
    BY <1>1, <2>4, CaptureEnds DEF CaptureInv, SendsHaveIntents, SpendsOnce, RunnerAt, Operation
  <2> QED
    BY <2>2, <2>3, <2>5 DEF CaptureInv
<1> QED
  BY <1>2, <1>3

(* A published intent is the only one pending, at the end of the journal.    *)
LEMMA IntentPublished ==
  ASSUME CaptureInv, NEW o \in Operations, Startable(o), MayPublish(o), Publishes(o), UNCHANGED <<chain, sealed>>
  PROVE  /\ intents' \subseteq ProviderIntents /\ intents \subseteq intents'
         /\ IntentsInOrder' /\ UsageFits' /\ SealedIsSettled'
         /\ \E i \in Unresolved' : i.op = o.op /\ i.fact = o.fact
         /\ \A s \in spent : s.op # o.op
         /\ \A q \in Runners : ~RunnerAt(q, "SEND")
<1> DEFINE new == [op |-> o.op, fact |-> o.fact, before |-> Len(chain)]
<1>1. Len(chain) \in Nat
  BY LenProperties DEF CaptureInv, CaptureTypes
<1>2. new \in ProviderIntents /\ new.op = o.op /\ new.fact = o.fact /\ new.before = Len(chain)
  BY <1>1 DEF ProviderIntents
<1>3. intents' = intents \cup {new}
  BY DEF Publishes
<1> HIDE DEF new
<1>4. Unresolved = {} /\ (\A i \in intents : i.op # o.op) /\ ~InChain(o.op) /\ ~HasFact(o.fact) /\ sealed = 0
  BY DEF MayPublish, Startable, Open
<1>5. ~Completes(new) /\ \A i \in intents : Completes(i)
  BY <1>1, <1>2, <1>4 DEF Completes, Unresolved
<1>6. Unresolved' = {new}
  BY <1>3, <1>5, JournalStays DEF Unresolved
<1>7. IntentsInOrder'
  <2>1. \A i \in intents' \ Unresolved' : i \in intents \ Unresolved
    BY <1>3, <1>4, <1>6
  <2>2. \A i, j \in intents' : i.op = j.op => i = j
    BY <1>2, <1>3, <1>4 DEF CaptureInv, IntentsInOrder
  <2>3. \A i \in Unresolved' : i.before = Len(chain') /\ ~InChain(i.op)' /\ ~HasFact(i.fact)'
    BY <1>2, <1>4, <1>6, JournalStays
  <2> QED
    BY <1>6, <2>1, <2>2, <2>3 DEF CaptureInv, IntentsInOrder
<1>8. UsageFits' /\ SealedIsSettled'
  BY <1>4, JournalStays DEF CaptureInv, UsageFits, SealedIsSettled
<1>9. \A s \in spent : s.op # o.op
  BY <1>4 DEF CaptureInv, SendsHaveIntents
<1>10. \A q \in Runners : ~RunnerAt(q, "SEND")
  BY <1>4 DEF CaptureInv, SendsHaveIntents
<1> QED
  BY <1>2, <1>3, <1>6, <1>7, <1>8, <1>9, <1>10 DEF CaptureInv, CaptureTypes

(* Giving up leaves the books as they are.                                   *)
LEMMA GivesUpKeeps ==
  ASSUME CaptureInv, NEW r \in Runners, Ends(r), UNCHANGED <<chain, intents, sealed, twoLinks, spent>>
  PROVE  CaptureInv'
<1>1. CaptureTypes'
  BY CaptureEnds DEF CaptureInv, CaptureTypes
<1>2. SendsHaveIntents' /\ SpendsOnce'
  BY CaptureEnds, JournalStays DEF CaptureInv, SendsHaveIntents, SpendsOnce, RunnerAt, Operation
<1> QED
  BY <1>1, <1>2, BooksStay DEF CaptureInv

(* EXCEPT on two fields of a runner.                                         *)
LEMMA RunnerExcept ==
  ASSUME NEW x \in [pc : CapturePcs, o : Operations \cup {NoOperation}, usage : Nat], NEW p, NEW u
  PROVE  [x EXCEPT !.pc = p, !.usage = u] = [pc |-> p, o |-> x.o, usage |-> u]
<1>1. x = [pc |-> x.pc, o |-> x.o, usage |-> x.usage]
  OBVIOUS
<1>2. PICK y : y = [x EXCEPT !.pc = p]
  OBVIOUS
<1>3. y = [pc |-> p, o |-> x.o, usage |-> x.usage]
  BY <1>1, <1>2
<1>4. [y EXCEPT !.usage = u] = [pc |-> p, o |-> x.o, usage |-> u]
  BY <1>3
<1>5. [x EXCEPT !.pc = p, !.usage = u] = [y EXCEPT !.usage = u]
  BY <1>2, Zenon
<1> QED
  BY <1>4, <1>5
(* A call that begins or goes on, and has neither sent nor asked to.         *)
LEMMA RunnerMoves ==
  ASSUME CaptureInv, NEW r \in Runners, NEW pc \in CapturePcs, NEW o \in Operations, NEW u \in Nat,
         runner' = [runner EXCEPT ![r] = [pc |-> pc, o |-> o, usage |-> u]]
  PROVE  /\ runner' \in [Runners -> [pc : CapturePcs, o : Operations \cup {NoOperation}, usage : Nat]]
         /\ runner'[r] = [pc |-> pc, o |-> o, usage |-> u]
         /\ \A q \in Runners : q # r => runner'[q] = runner[q]
         /\ \A q \in Runners : runner'[q].pc # "IDLE" => runner'[q].o \in Operations
<1>1. [pc |-> pc, o |-> o, usage |-> u] \in [pc : CapturePcs, o : Operations \cup {NoOperation}, usage : Nat]
  OBVIOUS
<1>2. /\ runner \in [Runners -> [pc : CapturePcs, o : Operations \cup {NoOperation}, usage : Nat]]
      /\ \A q \in Runners : runner[q].pc # "IDLE" => runner[q].o \in Operations
  BY DEF CaptureInv, CaptureTypes
<1> QED
  BY <1>1, <1>2
(* RunnerTo keeps the operation and what it used.                            *)
LEMMA RunnerToMoves ==
  ASSUME CaptureInv, NEW r \in Runners, runner[r].pc # "IDLE", NEW pc \in CapturePcs, RunnerTo(r, pc)
  PROVE  /\ Operation(r) \in Operations /\ runner[r].usage \in Nat
         /\ runner' = [runner EXCEPT ![r] = [pc |-> pc, o |-> Operation(r), usage |-> runner[r].usage]]
<1>1. /\ runner[r] \in [pc : CapturePcs, o : Operations \cup {NoOperation}, usage : Nat]
      /\ Operation(r) \in Operations
  BY DEF CaptureInv, CaptureTypes, Operation
<1>2. [runner[r] EXCEPT !.pc = pc] = [pc |-> pc, o |-> Operation(r), usage |-> runner[r].usage]
  BY <1>1 DEF Operation
<1>3. runner' = [runner EXCEPT ![r] = [runner[r] EXCEPT !.pc = pc]]
  BY DEF RunnerTo
<1> QED
  BY <1>1, <1>2, <1>3
LEMMA MovesKeeps ==
  ASSUME CaptureInv, NEW r \in Runners, NEW pc \in CapturePcs, NEW o \in Operations, NEW u \in Nat,
         runner' = [runner EXCEPT ![r] = [pc |-> pc, o |-> o, usage |-> u]],
         pc # "SEND", pc = "RECORD" /\ o.kind # "FACT" => \E s \in spent : s.op = o.op /\ s.fact = o.fact,
         UNCHANGED <<chain, intents, sealed, twoLinks, spent>>
  PROVE  CaptureInv'
<1>1. CaptureTypes'
  BY RunnerMoves DEF CaptureInv, CaptureTypes
<1>2. SpendsOnce'
  BY DEF CaptureInv, SpendsOnce
<1>3. runner'[r].pc = pc /\ runner'[r].o = o
  BY RunnerMoves
<1>4. SendsHaveIntents'
  <2>1. \A q \in Runners : runner'[q].pc = "SEND" => q # r /\ runner'[q] = runner[q]
    BY <1>3, RunnerMoves
  <2>2. Unresolved' = Unresolved
    BY JournalStays
  <2>3. \A q \in Runners : q # r => runner'[q] = runner[q]
    BY RunnerMoves
  <2> QED
    BY <1>3, <2>1, <2>2, <2>3 DEF CaptureInv, SendsHaveIntents, RunnerAt, Operation
<1> QED
  BY <1>1, <1>2, <1>4, BooksStay DEF CaptureInv

LEMMA OperationBeginsKeeps == ASSUME CaptureInv, NEW r \in Runners, OperationBegins(r) PROVE CaptureInv'
<1>1. PICK o \in Operations : \E pc \in (CASE o.kind = "MANAGED" -> {"RESERVE", "COLLECT"}
                          [] o.kind = "QUICK" -> {"PREPARE"}
                          [] OTHER -> {"RECORD"}) :
                runner' = [runner EXCEPT ![r] = [pc |-> pc, o |-> o, usage |-> 0]]
  BY DEF OperationBegins
<1>2. o.kind \in {"MANAGED", "QUICK", "FACT"}
  BY CaptureAssumption DEF CaptureAssumption
<1>3. PICK pc \in {"RESERVE", "COLLECT", "PREPARE", "RECORD"} :
         /\ pc = "RECORD" => o.kind = "FACT"
         /\ runner' = [runner EXCEPT ![r] = [pc |-> pc, o |-> o, usage |-> 0]]
  BY <1>1, <1>2
<1>4. pc \in CapturePcs /\ pc # "SEND" /\ 0 \in Nat
  BY DEF CapturePcs
<1> QED
  BY <1>3, <1>4, MovesKeeps DEF OperationBegins

LEMMA CollectManagedKeeps == ASSUME CaptureInv, NEW r \in Runners, CollectManaged(r) PROVE CaptureInv'
<1>1. CASE Ends(r)
  BY <1>1, GivesUpKeeps DEF CollectManaged
<1>2. CASE \E s \in spent :
             /\ s.op = Operation(r).op
             /\ Open /\ \A i \in Unresolved : i.op = s.op
             /\ \E i \in intents : i.op = s.op /\ i.fact = Operation(r).fact
             /\ runner' = [runner EXCEPT ![r].pc = "RECORD", ![r].usage = s.usage]
  <2>1. PICK s \in spent :
             /\ s.op = Operation(r).op
             /\ \E i \in intents : i.op = s.op /\ i.fact = Operation(r).fact
             /\ runner' = [runner EXCEPT ![r].pc = "RECORD", ![r].usage = s.usage]
    BY <1>2
  <2>2. s.fact = Operation(r).fact
    BY <2>1 DEF CaptureInv, SendsHaveIntents, IntentsInOrder
  <2>3. runner[r] \in [pc : CapturePcs, o : Operations \cup {NoOperation}, usage : Nat] /\ Operation(r) \in Operations
    BY DEF CaptureInv, CaptureTypes, CollectManaged, RunnerAt, Operation
  <2>4. s.usage \in Nat
    BY DEF CaptureInv, CaptureTypes, ProviderSends
  <2>5. runner' = [runner EXCEPT ![r] = [pc |-> "RECORD", o |-> Operation(r), usage |-> s.usage]]
    <3>1. runner \in [Runners -> [pc : CapturePcs, o : Operations \cup {NoOperation}, usage : Nat]]
      BY DEF CaptureInv, CaptureTypes
    <3>2. runner' = [runner EXCEPT ![r] = [runner[r] EXCEPT !.pc = "RECORD", !.usage = s.usage]]
      BY <2>1, <3>1
    <3>3. [runner[r] EXCEPT !.pc = "RECORD", !.usage = s.usage]
            = [pc |-> "RECORD", o |-> runner[r].o, usage |-> s.usage]
      <4>1. PICK x \in [pc : CapturePcs, o : Operations \cup {NoOperation}, usage : Nat] : x = runner[r]
        BY <2>3
      <4>2. [x EXCEPT !.pc = "RECORD", !.usage = s.usage] = [pc |-> "RECORD", o |-> x.o, usage |-> s.usage]
        BY RunnerExcept
      <4> QED
        BY <4>1, <4>2
    <3> QED
      BY <3>2, <3>3 DEF Operation
  <2>6. /\ "RECORD" \in CapturePcs /\ "RECORD" # "SEND"
        /\ \E t \in spent : t.op = Operation(r).op /\ t.fact = Operation(r).fact
        /\ UNCHANGED <<chain, intents, sealed, twoLinks, spent>>
    BY <2>1, <2>2 DEF CapturePcs, CollectManaged
  <2>7. PICK o \in Operations : o = Operation(r)
    BY <2>3
  <2>8. PICK u \in Nat : u = s.usage
    BY <2>4
  <2>9. runner' = [runner EXCEPT ![r] = [pc |-> "RECORD", o |-> o, usage |-> u]]
    BY <2>5, <2>7, <2>8
  <2>10. \E t \in spent : t.op = o.op /\ t.fact = o.fact
    BY <2>6, <2>7
  <2> QED
    BY <2>6, <2>9, <2>10, MovesKeeps
<1> QED
  BY <1>1, <1>2 DEF CollectManaged

LEMMA PrepareSendKeeps == ASSUME CaptureInv, NEW r \in Runners, PrepareSend(r) PROVE CaptureInv'
<1>1. CASE Ends(r)
  BY <1>1, GivesUpKeeps DEF PrepareSend
<1>2. CASE RunnerTo(r, "AUTHORIZE")
  <2>1. "AUTHORIZE" \in CapturePcs /\ "AUTHORIZE" # "SEND" /\ "AUTHORIZE" # "RECORD"
    BY DEF CapturePcs
  <2>2. runner[r].pc # "IDLE" /\ UNCHANGED <<chain, intents, sealed, twoLinks, spent>>
    BY DEF PrepareSend, RunnerAt
  <2> QED
    BY <1>2, <2>1, <2>2, RunnerToMoves, MovesKeeps
<1> QED
  BY <1>1, <1>2 DEF PrepareSend

(* The intent is published, and its runner goes on to send.                  *)
LEMMA GoesToSend ==
  ASSUME CaptureInv, NEW r \in Runners, runner[r].pc # "IDLE", Startable(Operation(r)), MayPublish(Operation(r)),
         Publishes(Operation(r)), RunnerTo(r, "SEND"), UNCHANGED <<chain, sealed, twoLinks, spent>>
  PROVE  CaptureInv'
<1>1. "SEND" \in CapturePcs
  BY DEF CapturePcs
<1>2. /\ Operation(r) \in Operations /\ runner[r].usage \in Nat
      /\ runner' = [runner EXCEPT ![r] = [pc |-> "SEND", o |-> Operation(r), usage |-> runner[r].usage]]
  BY <1>1, RunnerToMoves
<1>3. PICK o \in Operations : o = Operation(r)
  BY <1>2
<1>4. Startable(o) /\ MayPublish(o) /\ Publishes(o)
  BY <1>3
<1>5. /\ intents' \subseteq ProviderIntents /\ intents \subseteq intents'
      /\ IntentsInOrder' /\ UsageFits' /\ SealedIsSettled'
      /\ \E i \in Unresolved' : i.op = o.op /\ i.fact = o.fact
      /\ \A s \in spent : s.op # o.op
      /\ \A q \in Runners : ~RunnerAt(q, "SEND")
  BY <1>4, IntentPublished
<1>6. /\ runner' \in [Runners -> [pc : CapturePcs, o : Operations \cup {NoOperation}, usage : Nat]]
      /\ runner'[r].pc = "SEND" /\ runner'[r].o = o
      /\ \A q \in Runners : q # r => runner'[q] = runner[q]
      /\ \A q \in Runners : runner'[q].pc # "IDLE" => runner'[q].o \in Operations
  BY <1>1, <1>2, <1>3, RunnerMoves
<1>7. CaptureTypes'
  BY <1>5, <1>6 DEF CaptureInv, CaptureTypes
<1>8. SpendsOnce'
  BY DEF CaptureInv, SpendsOnce
<1>9. SendsHaveIntents'
  <2>1. \A s \in spent : \E i \in intents' : i.op = s.op /\ i.fact = s.fact
    BY <1>5 DEF CaptureInv, SendsHaveIntents
  <2>2. \A q \in Runners : runner'[q].pc = "SEND" => q = r
    BY <1>5, <1>6 DEF RunnerAt
  <2>3. \A q \in Runners : runner'[q].pc = "RECORD" => q # r /\ runner'[q] = runner[q]
    BY <1>6
  <2> QED
    BY <1>5, <1>6, <2>1, <2>2, <2>3 DEF CaptureInv, SendsHaveIntents, RunnerAt, Operation
<1> QED
  BY <1>5, <1>7, <1>8, <1>9 DEF CaptureInv

LEMMA ReserveManagedKeeps == ASSUME CaptureInv, NEW r \in Runners, ReserveManaged(r) PROVE CaptureInv'
<1>1. runner[r].pc # "IDLE" /\ UNCHANGED <<chain, sealed, twoLinks, spent>>
  BY DEF ReserveManaged, RunnerAt
<1>2. CASE Startable(Operation(r)) /\ MayPublish(Operation(r))
  BY <1>1, <1>2, GoesToSend DEF ReserveManaged
<1>3. CASE ~(Startable(Operation(r)) /\ MayPublish(Operation(r)))
  BY <1>1, <1>3, GivesUpKeeps DEF ReserveManaged
<1> QED
  BY <1>2, <1>3
LEMMA AuthorizeSendKeeps == ASSUME CaptureInv, NEW r \in Runners, AuthorizeSend(r) PROVE CaptureInv'
<1>1. runner[r].pc # "IDLE" /\ UNCHANGED <<chain, sealed, twoLinks, spent>>
  BY DEF AuthorizeSend, RunnerAt
<1>2. CASE Startable(Operation(r)) /\ MayPublish(Operation(r))
  BY <1>1, <1>2, GoesToSend DEF AuthorizeSend
<1>3. CASE ~(Startable(Operation(r)) /\ MayPublish(Operation(r)))
  BY <1>1, <1>3, GivesUpKeeps DEF AuthorizeSend
<1> QED
  BY <1>2, <1>3

(* Who sends is the first and the only one to send for its fact.             *)
LEMMA SendKeeps == ASSUME CaptureInv, NEW r \in Runners, Send(r) PROVE CaptureInv'
<1>1. RunnerAt(r, "SEND") /\ UNCHANGED <<chain, intents, sealed, twoLinks>>
  BY DEF Send
<1>2. PICK u \in 1..MaxUsage :
         /\ spent' = spent \cup {[op |-> Operation(r).op, fact |-> Operation(r).fact, usage |-> u, by |-> r]}
         /\ runner' = [runner EXCEPT ![r] = IF @.o.kind = "MANAGED" THEN IdleRunner
                                            ELSE [@ EXCEPT !.pc = "RECORD", !.usage = u]]
  BY DEF Send
<1>3. u \in Nat
  BY CaptureAssumption DEF CaptureAssumption
<1>4. Operation(r) \in Operations /\ runner[r] \in [pc : CapturePcs, o : Operations \cup {NoOperation}, usage : Nat]
  BY <1>1 DEF CaptureInv, CaptureTypes, RunnerAt, Operation
<1>5. PICK s \in ProviderSends : s = [op |-> Operation(r).op, fact |-> Operation(r).fact, usage |-> u, by |-> r]
  BY <1>3, <1>4 DEF ProviderSends
<1>6. spent' = spent \cup {s} /\ s.op = Operation(r).op /\ s.fact = Operation(r).fact
  BY <1>2, <1>5
<1>7. PICK i \in Unresolved : i.op = s.op /\ i.fact = s.fact
  BY <1>1, <1>6 DEF CaptureInv, SendsHaveIntents
<1>8. \A t \in spent : t.op # s.op /\ t.fact # s.fact
  <2>1. SUFFICES ASSUME NEW t \in spent, t.fact = s.fact PROVE FALSE
    BY <1>1, <1>6 DEF CaptureInv, SendsHaveIntents
  <2>2. PICK j \in intents : j.op = t.op /\ j.fact = t.fact
    BY DEF CaptureInv, SendsHaveIntents
  <2>3. t.op # s.op
    BY <1>1, <1>6 DEF CaptureInv, SendsHaveIntents
  <2>4. j \notin Unresolved
    BY <1>7, <2>2, <2>3 DEF CaptureInv, IntentsInOrder
  <2>5. j.before \in Nat /\ Len(chain) \in Nat
    BY LenProperties DEF CaptureInv, CaptureTypes, ProviderIntents
  <2>6. j.before < Len(chain) /\ chain[j.before + 1].fact = j.fact
    BY <2>4 DEF CaptureInv, IntentsInOrder
  <2>7. HasFact(j.fact)
    BY <2>5, <2>6 DEF HasFact
  <2>8. j.fact = i.fact
    BY <1>7, <2>1, <2>2
  <2> QED
    BY <2>7, <2>8 DEF CaptureInv, IntentsInOrder
<1>9. SpendsOnce'
  BY <1>6, <1>8 DEF CaptureInv, SpendsOnce
<1>10. /\ runner' \in [Runners -> [pc : CapturePcs, o : Operations \cup {NoOperation}, usage : Nat]]
       /\ \A q \in Runners : q # r => runner'[q] = runner[q]
       /\ runner'[r].pc # "SEND"
       /\ runner'[r].pc # "IDLE" => runner'[r].o = Operation(r)
  <2>1. runner \in [Runners -> [pc : CapturePcs, o : Operations \cup {NoOperation}, usage : Nat]]
    BY DEF CaptureInv, CaptureTypes
  <2>2. CASE runner[r].o.kind = "MANAGED"
    <3>1. runner' = [runner EXCEPT ![r] = IdleRunner]
      BY <1>2, <2>1, <2>2
    <3>2. IdleRunner \in [pc : CapturePcs, o : Operations \cup {NoOperation}, usage : Nat] /\ IdleRunner.pc = "IDLE"
      BY DEF IdleRunner, CapturePcs
    <3> QED
      BY <2>1, <3>1, <3>2
  <2>3. CASE runner[r].o.kind # "MANAGED"
    <3>1. runner' = [runner EXCEPT ![r] = [runner[r] EXCEPT !.pc = "RECORD", !.usage = u]]
      BY <1>2, <2>1, <2>3
    <3>2. [runner[r] EXCEPT !.pc = "RECORD", !.usage = u] = [pc |-> "RECORD", o |-> runner[r].o, usage |-> u]
      <4>1. PICK x \in [pc : CapturePcs, o : Operations \cup {NoOperation}, usage : Nat] : x = runner[r]
        BY <1>4
      <4>2. [x EXCEPT !.pc = "RECORD", !.usage = u] = [pc |-> "RECORD", o |-> x.o, usage |-> u]
        BY RunnerExcept
      <4> QED
        BY <4>1, <4>2
    <3>3. [pc |-> "RECORD", o |-> runner[r].o, usage |-> u] \in [pc : CapturePcs, o : Operations \cup {NoOperation}, usage : Nat]
      BY <1>3, <1>4 DEF CapturePcs
    <3> QED
      BY <2>1, <3>1, <3>2, <3>3 DEF Operation
  <2> QED
    BY <2>2, <2>3
<1>11. CaptureTypes'
  BY <1>1, <1>4, <1>6, <1>10 DEF CaptureInv, CaptureTypes
<1>12. SendsHaveIntents'
  <2>1. Unresolved \subseteq intents
    BY DEF Unresolved
  <2>2. \A t \in spent' : \E j \in intents' : j.op = t.op /\ j.fact = t.fact
    BY <1>1, <1>6, <1>7, <2>1 DEF CaptureInv, SendsHaveIntents
  <2>3. \A q \in Runners : ~RunnerAt(q, "SEND")'
    BY <1>1, <1>10 DEF CaptureInv, SendsHaveIntents, RunnerAt
  <2>4. ASSUME NEW q \in Runners, RunnerAt(q, "RECORD")', Operation(q)'.kind # "FACT"
        PROVE  \E t \in spent' : t.op = Operation(q)'.op /\ t.fact = Operation(q)'.fact
    <3>1. CASE q = r
      BY <1>6, <1>10, <2>4, <3>1 DEF RunnerAt, Operation
    <3>2. CASE q # r
      BY <1>6, <1>10, <2>4, <3>2 DEF CaptureInv, SendsHaveIntents, RunnerAt, Operation
    <3> QED
      BY <3>1, <3>2
  <2> QED
    BY <2>2, <2>3, <2>4 DEF SendsHaveIntents
<1> QED
  BY <1>1, <1>9, <1>11, <1>12, BooksStay DEF CaptureInv

LEMMA KilledPublishingKeeps == ASSUME CaptureInv, NEW r \in Runners, KilledPublishing(r) PROVE CaptureInv'
<1>1. Ends(r) /\ UNCHANGED <<sealed, spent>> /\ twoLinks' \in BOOLEAN
  BY DEF KilledPublishing
<1>2. SpendsOnce'
  BY <1>1 DEF CaptureInv, SpendsOnce
<1>3. CASE /\ RunnerAt(r, "RESERVE") \/ RunnerAt(r, "AUTHORIZE")
           /\ Startable(Operation(r)) /\ MayPublish(Operation(r))
           /\ Publishes(Operation(r)) /\ UNCHANGED chain
  <2>1. PICK o \in Operations : o = Operation(r)
    BY <1>3 DEF CaptureInv, CaptureTypes, RunnerAt, Operation
  <2>2. Startable(o) /\ MayPublish(o) /\ Publishes(o)
    BY <1>3, <2>1
  <2>3. /\ intents' \subseteq ProviderIntents /\ intents \subseteq intents'
        /\ IntentsInOrder' /\ UsageFits' /\ SealedIsSettled'
        /\ \A q \in Runners : ~RunnerAt(q, "SEND")
    BY <1>1, <1>3, <2>2, IntentPublished
  <2>4. CaptureTypes'
    BY <1>1, <1>3, <2>3, CaptureEnds DEF CaptureInv, CaptureTypes
  <2>5. SendsHaveIntents'
    <3>1. \A q \in Runners : ~RunnerAt(q, "SEND")'
      BY <1>1, <2>3, CaptureEnds DEF RunnerAt
    <3>2. \A q \in Runners : RunnerAt(q, "RECORD")' => RunnerAt(q, "RECORD") /\ Operation(q)' = Operation(q)
      BY <1>1, CaptureEnds DEF RunnerAt, Operation
    <3> QED
      BY <1>1, <2>3, <3>1, <3>2 DEF CaptureInv, SendsHaveIntents
  <2> QED
    BY <1>2, <2>3, <2>4, <2>5 DEF CaptureInv
<1>4. CASE /\ RunnerAt(r, "RECORD") /\ RecordAccepts(r)
           /\ chain' = Append(chain, [op |-> Operation(r).op, fact |-> Operation(r).fact,
                                       usage |-> runner[r].usage])
           /\ UNCHANGED intents
  <2>1. chain' \in Seq(JournalEvents) /\ IntentsInOrder' /\ UsageFits' /\ SealedIsSettled'
    BY <1>1, <1>4, JournalGrows
  <2>2. CaptureTypes'
    BY <1>1, <1>4, <2>1, CaptureEnds DEF CaptureInv, CaptureTypes
  <2>3. \A q \in Runners : runner[q].pc # "SEND"
    BY <1>4, NoSendBehindRecord DEF RunnerAt
  <2>4. SendsHaveIntents'
    <3>1. \A q \in Runners : ~RunnerAt(q, "SEND")'
      BY <1>1, <2>3, CaptureEnds DEF RunnerAt
    <3>2. \A q \in Runners : RunnerAt(q, "RECORD")' => RunnerAt(q, "RECORD") /\ Operation(q)' = Operation(q)
      BY <1>1, CaptureEnds DEF RunnerAt, Operation
    <3> QED
      BY <1>1, <1>4, <3>1, <3>2 DEF CaptureInv, SendsHaveIntents
  <2> QED
    BY <1>2, <2>1, <2>2, <2>4 DEF CaptureInv
<1> QED
  BY <1>3, <1>4 DEF KilledPublishing

LEMMA FinalizeKeeps == ASSUME CaptureInv, FinalizeStep PROVE CaptureInv'
<1>1. /\ UNCHANGED <<chain, intents, twoLinks, runner, spending, spent>>
      /\ Unresolved = {} /\ sealed' = sealed + 1
  BY DEF FinalizeStep
<1>2. Unresolved' = {}
  BY <1>1, JournalStays
<1>3. CaptureTypes' /\ SpendsOnce' /\ SealedIsSettled'
  BY <1>1, <1>2 DEF CaptureInv, CaptureTypes, SpendsOnce, SealedIsSettled
<1>4. IntentsInOrder' /\ SendsHaveIntents' /\ UsageFits'
  BY <1>1, JournalStays DEF CaptureInv, IntentsInOrder, SendsHaveIntents, UsageFits, RunnerAt, Operation
<1> QED
  BY <1>3, <1>4 DEF CaptureInv

LEMMA CaptureStep == CaptureInv /\ [CaptureNext]_captureVars => CaptureInv'
<1> SUFFICES ASSUME CaptureInv, [CaptureNext]_captureVars PROVE CaptureInv'
  OBVIOUS
<1>1. CASE UNCHANGED captureVars
  <2>1. UNCHANGED <<chain, intents, sealed, twoLinks, runner, spent>>
    BY <1>1 DEF captureVars
  <2>2. IntentsInOrder' /\ UsageFits' /\ SealedIsSettled'
    BY <2>1, BooksStay
  <2> QED
    BY <2>1, <2>2, JournalStays DEF CaptureInv, CaptureTypes, SendsHaveIntents, SpendsOnce, RunnerAt, Operation
<1>2. CASE FinalizeStep
  BY <1>2, FinalizeKeeps
<1>3. ASSUME NEW r \in Runners, RunnerKilled(r) PROVE CaptureInv'
  BY <1>3, GivesUpKeeps DEF RunnerKilled
<1>4. CASE CaptureNext
  BY <1>2, <1>3, <1>4, OperationBeginsKeeps, ReserveManagedKeeps, PrepareSendKeeps, AuthorizeSendKeeps,
     SendKeeps, CollectManagedKeeps, RecordEventKeeps, KilledPublishingKeeps DEF CaptureNext
<1> QED
  BY <1>1, <1>4

(* A send that is not in the journal belongs to the pending intent.          *)
LEMMA PendingIntent ==
  ASSUME CaptureInv, NEW s \in spent, ~InChain(s.op)
  PROVE  \E i \in Unresolved : i.op = s.op
<1>1. PICK i \in intents : i.op = s.op
  BY DEF CaptureInv, SendsHaveIntents
<1>2. SUFFICES ASSUME i \notin Unresolved PROVE FALSE
  BY <1>1
<1>3. i.before \in Nat /\ Len(chain) \in Nat
  BY LenProperties DEF CaptureInv, CaptureTypes, ProviderIntents
<1>4. i.before < Len(chain) /\ chain[i.before + 1].op = i.op
  BY <1>2 DEF CaptureInv, IntentsInOrder
<1> QED
  BY <1>1, <1>3, <1>4 DEF InChain
LEMMA InvAccounts == CaptureInv => SpendingIsAccounted
<1> SUFFICES ASSUME CaptureInv PROVE SpendingIsAccounted
  OBVIOUS
<1>1. \A s, t \in spent : s.fact = t.fact => s = t
  BY DEF CaptureInv, SpendsOnce
<1>2. Cardinality({s \in spent : ~InChain(s.op)}) <= 1
  <2> DEFINE unrecorded == {s \in spent : ~InChain(s.op)}
  <2>1. \A s, t \in unrecorded : s = t
    BY PendingIntent DEF CaptureInv, IntentsInOrder, SpendsOnce
  <2>2. CASE unrecorded = {}
    BY <2>2, FS_EmptySet
  <2>3. CASE unrecorded # {}
    <3>1. PICK s \in unrecorded : TRUE
      BY <2>3
    <3>2. unrecorded = {s}
      BY <2>1, <3>1
    <3>3. Cardinality({s}) = 1
      BY FS_Singleton
    <3> QED
      BY <3>2, <3>3
  <2> QED
    BY <2>2, <2>3
<1>3. Usage <= Budget
  BY DEF CaptureInv, UsageFits
<1>4. sealed > 0 => \A s \in spent : InChain(s.op)
  BY PendingIntent DEF CaptureInv, SealedIsSettled
<1> QED
  BY <1>1, <1>2, <1>3, <1>4 DEF SpendingIsAccounted

(* Provider usage is never spent behind the journal's back: a task is sent   *)
(* for once, at most one send is not recorded yet, what is recorded stays    *)
(* within the frozen budget, and a sealed session has every send in its      *)
(* evidence (publishProviderOperationIntent, #recordParsed, finalize).       *)
THEOREM SpendingStaysAccounted == CaptureSpec => []SpendingIsAccounted
<1>1. CaptureSpec => []CaptureInv
  BY InitCapture, CaptureStep, PTL DEF CaptureSpec
<1> QED
  BY <1>1, InvAccounts, PTL

-----------------------------------------------------------------------------
(* Evidence draft. The accepted facts fit one another in a way that any     *)
(* missing fact can still join; counted by their identities, they are       *)
(* complete exactly when each fact of the plan is there.                    *)

RequestsOf(all) == UNION {{FactKey(o)} \X (1..o.requests) : o \in all}
(* What the accepted facts have in common.                                   *)
OwnPlaces(all) == \A x, y \in all : FactKey(x) = FactKey(y) => x = y
ManagedFit(all) ==
    \A x \in OfKind(all, "MANAGED_TASK") :
       /\ x.links = {i \in DOMAIN PlannedInterrupts : PlannedInterrupts[i] = x.id}
       /\ \A y \in OfKind(all, "MANAGED_TASK") : x.run = y.run => x = y
ComparatorsFit(all) ==
    \A c \in OfKind(all, "RAW_PI_COMPARATOR") :
       /\ c.id \in ComparedTasks /\ TaskOf(all, c.id) # {}
       /\ \A x \in TaskOf(all, c.id) : c.hunter = x.captured
NamesFit(all) == \A kind \in {"UPDATE_ROLLBACK", "CI"} : DistinctNames(all, kind)
RequestsFit(all) == IsFiniteSet(RequestsOf(all)) /\ UsageFor(all) <= Authorized
FactsFit(all) ==
    /\ all \subseteq Observations /\ OwnPlaces(all) /\ ManagedFit(all)
    /\ ComparatorsFit(all) /\ NamesFit(all) /\ RequestsFit(all)
DraftInv == FactsFit(recorded) /\ (sealedDraft = NoDraft \/ sealedDraft = DraftOf(recorded))

(* The kind of an observation says what it holds.                            *)
LEMMA ObservationKinds ==
  ASSUME NEW o \in Observations
  PROVE  /\ o.kind \in {"MANAGED_TASK", "QUICK_TASK", "RAW_PI_COMPARATOR", "UPDATE_ROLLBACK", "CI", "GATES"}
         /\ o.kind = "MANAGED_TASK" => o \in Managed
         /\ o.kind = "QUICK_TASK" => o \in Quick
         /\ o.kind = "RAW_PI_COMPARATOR" => o \in Compared
         /\ o.kind = "UPDATE_ROLLBACK" => o \in Cycle
         /\ o.kind = "CI" => o \in Ci
         /\ o.kind = "GATES" => o \in OtherFact
         /\ o.requests \in Nat
  BY DEF Observations, Managed, Quick, Compared, Cycle, Ci, OtherFact
LEMMA KeysEqual ==
  ASSUME NEW x \in Observations, NEW y \in Observations
  PROVE  FactKey(x) = FactKey(y) <=> x.id = y.id /\ (x.kind = y.kind \/ (IsTask(x) /\ IsTask(y)))
<1>1. FactKey(x) = <<IF IsTask(x) THEN "task" ELSE x.kind, x.id>> /\ FactKey(y) = <<IF IsTask(y) THEN "task" ELSE y.kind, y.id>>
  BY DEF FactKey
<1>2. \A a, b, c, d : <<a, b>> = <<c, d>> <=> a = c /\ b = d
  OBVIOUS
<1>3. FactKey(x) = FactKey(y) <=> (IF IsTask(x) THEN "task" ELSE x.kind) = (IF IsTask(y) THEN "task" ELSE y.kind) /\ x.id = y.id
  BY <1>1, <1>2
<1>4. x.kind # "task" /\ y.kind # "task"
  BY ObservationKinds
<1>5. (IF IsTask(x) THEN "task" ELSE x.kind) = (IF IsTask(y) THEN "task" ELSE y.kind)
        <=> x.kind = y.kind \/ (IsTask(x) /\ IsTask(y))
  <2>1. x.kind = y.kind => (IsTask(x) <=> IsTask(y))
    BY DEF IsTask
  <2> QED
    BY <1>4, <2>1
<1> QED
  BY <1>3, <1>5

(* A fact is the only one of its kind and identity, and a task has one.      *)
LEMMA OwnFact ==
  ASSUME NEW all, all \subseteq Observations, OwnPlaces(all), NEW x \in all
  PROVE  /\ RecordedFact(all, x.kind, x.id) = x
         /\ \A y \in all : y.kind = x.kind /\ y.id = x.id => y = x
         /\ IsTask(x) => /\ TaskOf(all, x.id) = {x}
                         /\ (CHOOSE o \in TaskOf(all, x.id) : TRUE) = x
<1>1. \A y \in all : y.kind = x.kind /\ y.id = x.id => y = x
  BY KeysEqual DEF OwnPlaces
<1>2. RecordedFact(all, x.kind, x.id) = x
  BY <1>1 DEF RecordedFact
<1>3. ASSUME IsTask(x) PROVE TaskOf(all, x.id) = {x}
  BY <1>3, KeysEqual DEF OwnPlaces, TaskOf
<1>4. ASSUME IsTask(x) PROVE (CHOOSE o \in TaskOf(all, x.id) : TRUE) = x
  BY <1>3, <1>4, OnlyMember
<1> QED
  BY <1>1, <1>2, <1>3, <1>4
LEMMA TasksOfPlan ==
  /\ IsFiniteSet(DOMAIN PlannedTasks) /\ IsFiniteSet(TasksIn("MANAGED")) /\ IsFiniteSet(ComparedTasks)
  /\ IsFiniteSet(DOMAIN PlannedInterrupts) /\ IsFiniteSet(Candidates) /\ IsFiniteSet(Platforms)
  /\ DOMAIN PlannedTasks = TasksIn("MANAGED") \cup TasksIn("QUICK")
  /\ TasksIn("MANAGED") \cap TasksIn("QUICK") = {}
<1>1. /\ IsFiniteSet(DOMAIN PlannedTasks) /\ IsFiniteSet(DOMAIN PlannedInterrupts) /\ IsFiniteSet(Candidates)
      /\ ComparedTasks \subseteq DOMAIN PlannedTasks
      /\ \A t \in DOMAIN PlannedTasks : PlannedTasks[t] \in {"QUICK", "MANAGED"}
  BY DraftAssumption DEF DraftAssumption, FrozenPlan
<1>2. IsFiniteSet(ComparedTasks)
  BY <1>1, FS_Subset
<1>3. TasksIn("MANAGED") \subseteq DOMAIN PlannedTasks
  BY DEF TasksIn
<1>4. IsFiniteSet(TasksIn("MANAGED"))
  BY <1>1, <1>3, FS_Subset
<1>5. IsFiniteSet(Platforms)
  <2>1. IsFiniteSet({"WINDOWS"} \cup {"UBUNTU"})
    BY FS_Singleton, FS_Union
  <2> QED
    BY <2>1 DEF Platforms
<1>6. DOMAIN PlannedTasks = TasksIn("MANAGED") \cup TasksIn("QUICK") /\ TasksIn("MANAGED") \cap TasksIn("QUICK") = {}
  BY <1>1 DEF TasksIn
<1> QED
  BY <1>1, <1>2, <1>4, <1>5, <1>6

(* The facts of one kind, counted by their identities.                       *)
LEMMA CountById ==
  ASSUME NEW all, all \subseteq Observations, OwnPlaces(all), NEW S \in SUBSET all, NEW T, IsFiniteSet(T),
         \A x \in S : x.id \in T, \A x, y \in S : x.kind = y.kind \/ (IsTask(x) /\ IsTask(y))
  PROVE  /\ IsFiniteSet(S) /\ Cardinality(S) \in Nat /\ Cardinality(T) \in Nat /\ Cardinality(S) <= Cardinality(T)
         /\ Cardinality(S) = Cardinality(T) <=> \A t \in T : \E x \in S : x.id = t
<1> DEFINE key == [x \in S |-> x.id]
<1>1. key \in [S -> T] /\ \A x \in S : key[x] = x.id
  OBVIOUS
<1>2. \A x, y \in S : key[x] = key[y] => x = y
  BY <1>1, KeysEqual DEF OwnPlaces
<1> HIDE DEF key
<1>3. /\ IsFiniteSet(S) /\ Cardinality(S) \in Nat /\ Cardinality(T) \in Nat /\ Cardinality(S) <= Cardinality(T)
      /\ Cardinality(S) = Cardinality(T) <=> \A t \in T : \E x \in S : key[x] = t
  BY <1>1, <1>2, KeyedCount
<1> QED
  BY <1>1, <1>3

TaskFacts(all) == {o \in all : IsTask(o)}
(* Each kind of facts is counted against what the plan wants of it.          *)
LEMMA TaskCount ==
  ASSUME NEW all, FactsFit(all)
  PROVE  /\ Counts(all).tasks \in Nat /\ Wanted.tasks \in Nat /\ Counts(all).tasks <= Wanted.tasks
         /\ Counts(all).tasks = Wanted.tasks <=> \A t \in DOMAIN PlannedTasks : TaskOf(all, t) # {}
<1>1. TaskFacts(all) \in SUBSET all /\ all \subseteq Observations /\ OwnPlaces(all)
  BY DEF TaskFacts, FactsFit
<1>2. \A x \in TaskFacts(all) : IsTask(x) /\ x.id \in DOMAIN PlannedTasks
  BY <1>1, ObservationKinds, TasksOfPlan DEF TaskFacts, IsTask, Managed, Quick
<1>3. /\ Cardinality(TaskFacts(all)) \in Nat /\ Cardinality(DOMAIN PlannedTasks) \in Nat
      /\ Cardinality(TaskFacts(all)) <= Cardinality(DOMAIN PlannedTasks)
      /\ Cardinality(TaskFacts(all)) = Cardinality(DOMAIN PlannedTasks)
           <=> \A t \in DOMAIN PlannedTasks : \E x \in TaskFacts(all) : x.id = t
  BY <1>1, <1>2, CountById, TasksOfPlan
<1>4. (\A t \in DOMAIN PlannedTasks : \E x \in TaskFacts(all) : x.id = t)
        <=> (\A t \in DOMAIN PlannedTasks : TaskOf(all, t) # {})
  BY DEF TaskFacts, TaskOf
<1>5. Counts(all).tasks = Cardinality(TaskFacts(all)) /\ Wanted.tasks = Cardinality(DOMAIN PlannedTasks)
  BY DEF Counts, Wanted, TaskFacts
<1> QED
  BY <1>3, <1>4, <1>5
LEMMA KindCount ==
  ASSUME NEW all, FactsFit(all), NEW kind, NEW T, IsFiniteSet(T), \A x \in OfKind(all, kind) : x.id \in T
  PROVE  /\ IsFiniteSet(OfKind(all, kind))
         /\ Cardinality(OfKind(all, kind)) \in Nat /\ Cardinality(T) \in Nat
         /\ Cardinality(OfKind(all, kind)) <= Cardinality(T)
         /\ Cardinality(OfKind(all, kind)) = Cardinality(T) <=> \A t \in T : \E x \in all : x.kind = kind /\ x.id = t
<1>1. OfKind(all, kind) \in SUBSET all /\ all \subseteq Observations /\ OwnPlaces(all)
  BY DEF OfKind, FactsFit
<1>2. \A x, y \in OfKind(all, kind) : x.kind = y.kind
  BY DEF OfKind
<1>3. /\ IsFiniteSet(OfKind(all, kind))
      /\ Cardinality(OfKind(all, kind)) \in Nat /\ Cardinality(T) \in Nat
      /\ Cardinality(OfKind(all, kind)) <= Cardinality(T)
      /\ Cardinality(OfKind(all, kind)) = Cardinality(T) <=> \A t \in T : \E x \in OfKind(all, kind) : x.id = t
  BY <1>1, <1>2, CountById
<1>4. \A t \in T : (\E x \in OfKind(all, kind) : x.id = t) <=> (\E x \in all : x.kind = kind /\ x.id = t)
  BY DEF OfKind
<1> QED
  BY <1>3, <1>4
LEMMA KindIds ==
  ASSUME NEW all, FactsFit(all)
  PROVE  /\ \A x \in OfKind(all, "MANAGED_TASK") : x.id \in TasksIn("MANAGED") /\ x.run \in RunNames
         /\ \A x \in OfKind(all, "RAW_PI_COMPARATOR") : x.id \in ComparedTasks
         /\ \A x \in OfKind(all, "UPDATE_ROLLBACK") : x.id \in Candidates /\ x.name \in CycleNames
         /\ \A x \in OfKind(all, "CI") : x.id \in Platforms /\ x.name \in CiRuns
         /\ \A x \in OfKind(all, "GATES") : x.id \in {"gates"}
  BY ObservationKinds DEF FactsFit, ComparatorsFit, OfKind, Managed, Cycle, Ci, OtherFact
LEMMA PlatformsCount == Cardinality(Platforms) = 2
<1>1. IsFiniteSet({"WINDOWS"}) /\ Cardinality({"WINDOWS"}) = 1
  BY FS_Singleton
<1>2. Cardinality({"WINDOWS"} \cup {"UBUNTU"}) = Cardinality({"WINDOWS"}) + 1
  BY <1>1, FS_AddElement
<1>3. Platforms = {"WINDOWS"} \cup {"UBUNTU"}
  BY DEF Platforms
<1> QED
  BY <1>1, <1>2, <1>3

HasAll(all, kind, T) == \A t \in T : \E x \in all : x.kind = kind /\ x.id = t
LEMMA OtherCounts ==
  ASSUME NEW all, FactsFit(all)
  PROVE  /\ /\ Counts(all).archives \in Nat /\ Wanted.archives \in Nat
            /\ Counts(all).archives = Wanted.archives <=> HasAll(all, "MANAGED_TASK", TasksIn("MANAGED"))
         /\ /\ Counts(all).comparators \in Nat /\ Wanted.comparators \in Nat
            /\ Counts(all).comparators <= Wanted.comparators
            /\ Counts(all).comparators = Wanted.comparators <=> HasAll(all, "RAW_PI_COMPARATOR", ComparedTasks)
         /\ /\ Counts(all).cycles \in Nat /\ Wanted.cycles \in Nat /\ Counts(all).cycles <= Wanted.cycles
            /\ Counts(all).cycles = Wanted.cycles <=> HasAll(all, "UPDATE_ROLLBACK", Candidates)
         /\ /\ Counts(all).ci \in Nat /\ Wanted.ci \in Nat /\ Counts(all).ci <= Wanted.ci
            /\ Counts(all).ci = Wanted.ci <=> HasAll(all, "CI", Platforms)
         /\ /\ Counts(all).gates \in Nat /\ Wanted.gates \in Nat /\ Counts(all).gates <= Wanted.gates
            /\ Counts(all).gates = Wanted.gates <=> HasAll(all, "GATES", {"gates"})
<1>1. /\ Counts(all).archives = Cardinality(OfKind(all, "MANAGED_TASK"))
      /\ Counts(all).comparators = Cardinality(OfKind(all, "RAW_PI_COMPARATOR"))
      /\ Counts(all).cycles = Cardinality(OfKind(all, "UPDATE_ROLLBACK"))
      /\ Counts(all).ci = Cardinality(OfKind(all, "CI")) /\ Counts(all).gates = Cardinality(OfKind(all, "GATES"))
  BY DEF Counts
<1>2. /\ Wanted.archives = Cardinality(TasksIn("MANAGED")) /\ Wanted.comparators = Cardinality(ComparedTasks)
      /\ Wanted.cycles = Cardinality(Candidates) /\ Wanted.ci = Cardinality(Platforms) /\ Wanted.gates = 1
  BY DEF Wanted
<1>3. IsFiniteSet({"gates"}) /\ Cardinality({"gates"}) = 1
  BY FS_Singleton
<1>4. /\ Cardinality(OfKind(all, "MANAGED_TASK")) \in Nat /\ Cardinality(TasksIn("MANAGED")) \in Nat
      /\ Cardinality(OfKind(all, "MANAGED_TASK")) = Cardinality(TasksIn("MANAGED"))
           <=> HasAll(all, "MANAGED_TASK", TasksIn("MANAGED"))
  BY KindIds, KindCount, TasksOfPlan DEF HasAll
<1>5. /\ Cardinality(OfKind(all, "RAW_PI_COMPARATOR")) \in Nat /\ Cardinality(ComparedTasks) \in Nat
      /\ Cardinality(OfKind(all, "RAW_PI_COMPARATOR")) <= Cardinality(ComparedTasks)
      /\ Cardinality(OfKind(all, "RAW_PI_COMPARATOR")) = Cardinality(ComparedTasks)
           <=> HasAll(all, "RAW_PI_COMPARATOR", ComparedTasks)
  BY KindIds, KindCount, TasksOfPlan DEF HasAll
<1>6. /\ Cardinality(OfKind(all, "UPDATE_ROLLBACK")) \in Nat /\ Cardinality(Candidates) \in Nat
      /\ Cardinality(OfKind(all, "UPDATE_ROLLBACK")) <= Cardinality(Candidates)
      /\ Cardinality(OfKind(all, "UPDATE_ROLLBACK")) = Cardinality(Candidates)
           <=> HasAll(all, "UPDATE_ROLLBACK", Candidates)
  BY KindIds, KindCount, TasksOfPlan DEF HasAll
<1>7. /\ Cardinality(OfKind(all, "CI")) \in Nat /\ Cardinality(Platforms) \in Nat
      /\ Cardinality(OfKind(all, "CI")) <= Cardinality(Platforms)
      /\ Cardinality(OfKind(all, "CI")) = Cardinality(Platforms) <=> HasAll(all, "CI", Platforms)
  BY KindIds, KindCount, TasksOfPlan DEF HasAll
<1>8. /\ Cardinality(OfKind(all, "GATES")) \in Nat /\ Cardinality({"gates"}) \in Nat
      /\ Cardinality(OfKind(all, "GATES")) <= Cardinality({"gates"})
      /\ Cardinality(OfKind(all, "GATES")) = Cardinality({"gates"}) <=> HasAll(all, "GATES", {"gates"})
  BY <1>3, KindIds, KindCount DEF HasAll
<1>9. /\ Counts(all).archives \in Nat /\ Wanted.archives \in Nat
      /\ Counts(all).archives = Wanted.archives <=> HasAll(all, "MANAGED_TASK", TasksIn("MANAGED"))
  BY <1>1, <1>2, <1>4
<1>10. /\ Counts(all).comparators \in Nat /\ Wanted.comparators \in Nat
       /\ Counts(all).comparators <= Wanted.comparators
       /\ Counts(all).comparators = Wanted.comparators <=> HasAll(all, "RAW_PI_COMPARATOR", ComparedTasks)
  BY <1>1, <1>2, <1>5
<1>11. /\ Counts(all).cycles \in Nat /\ Wanted.cycles \in Nat /\ Counts(all).cycles <= Wanted.cycles
       /\ Counts(all).cycles = Wanted.cycles <=> HasAll(all, "UPDATE_ROLLBACK", Candidates)
  BY <1>1, <1>2, <1>6
<1>12. /\ Counts(all).ci \in Nat /\ Wanted.ci \in Nat /\ Counts(all).ci <= Wanted.ci
       /\ Counts(all).ci = Wanted.ci <=> HasAll(all, "CI", Platforms)
  BY <1>1, <1>2, <1>7
<1>13. /\ Counts(all).gates \in Nat /\ Wanted.gates \in Nat /\ Counts(all).gates <= Wanted.gates
       /\ Counts(all).gates = Wanted.gates <=> HasAll(all, "GATES", {"gates"})
  BY <1>1, <1>2, <1>3, <1>8
<1> QED
  BY <1>9, <1>10, <1>11, <1>12, <1>13

(* The interruptions that are linked are those of the managed tasks present. *)
AllTasks(all) == \A t \in DOMAIN PlannedTasks : TaskOf(all, t) # {}
LEMMA AllTasksManaged ==
  ASSUME NEW all, FactsFit(all)
  PROVE  AllTasks(all) => HasAll(all, "MANAGED_TASK", TasksIn("MANAGED"))
<1> SUFFICES ASSUME AllTasks(all), NEW t \in TasksIn("MANAGED")
             PROVE  \E x \in all : x.kind = "MANAGED_TASK" /\ x.id = t
  BY DEF HasAll
<1>1. PICK x \in all : IsTask(x) /\ x.id = t
  BY TasksOfPlan DEF AllTasks, TaskOf
<1>2. x \in Observations
  BY DEF FactsFit
<1>3. x.kind # "QUICK_TASK"
  BY <1>1, <1>2, ObservationKinds, TasksOfPlan DEF Quick
<1> QED
  BY <1>1, <1>3 DEF IsTask
Linked(all) == UNION {{o.id} \X o.links : o \in OfKind(all, "MANAGED_TASK")}
LEMMA LinkCount ==
  ASSUME NEW all, FactsFit(all)
  PROVE  /\ Counts(all).interruptions \in Nat /\ Wanted.interruptions \in Nat
         /\ AllTasks(all) => Counts(all).interruptions = Wanted.interruptions
<1> DEFINE I == DOMAIN PlannedInterrupts
           f == [p \in Linked(all) |-> p[2]]
<1>1. Counts(all).interruptions = Cardinality(Linked(all)) /\ Wanted.interruptions = Cardinality(I)
  BY DEF Counts, Wanted, Linked
<1>2. \A p \in Linked(all) : p[2] \in I /\ p = <<PlannedInterrupts[p[2]], p[2]>>
  <2> SUFFICES ASSUME NEW p \in Linked(all) PROVE p[2] \in I /\ p = <<PlannedInterrupts[p[2]], p[2]>>
    OBVIOUS
  <2>1. PICK o \in OfKind(all, "MANAGED_TASK") : p \in {o.id} \X o.links
    BY DEF Linked
  <2>2. o.links = {i \in I : PlannedInterrupts[i] = o.id}
    BY DEF FactsFit, ManagedFit
  <2> QED
    BY <2>1, <2>2
<1>3. f \in [Linked(all) -> I] /\ \A p \in Linked(all) : f[p] = p[2]
  BY <1>2
<1>4. \A p, q \in Linked(all) : f[p] = f[q] => p = q
  BY <1>2, <1>3
<1> HIDE DEF f
<1>5. /\ Cardinality(Linked(all)) \in Nat /\ Cardinality(I) \in Nat
      /\ Cardinality(Linked(all)) = Cardinality(I) <=> \A i \in I : \E p \in Linked(all) : f[p] = i
  BY <1>3, <1>4, KeyedCount, TasksOfPlan
<1>6. ASSUME AllTasks(all), NEW i \in I PROVE \E p \in Linked(all) : f[p] = i
  <2>1. PlannedInterrupts[i] \in TasksIn("MANAGED")
    BY DraftAssumption DEF DraftAssumption, FrozenPlan
  <2>2. PICK x \in all : x.kind = "MANAGED_TASK" /\ x.id = PlannedInterrupts[i]
    BY <1>6, <2>1, AllTasksManaged DEF HasAll
  <2>3. x \in OfKind(all, "MANAGED_TASK") /\ i \in x.links
    BY <2>2 DEF OfKind, FactsFit, ManagedFit
  <2>4. <<x.id, i>> \in Linked(all)
    BY <2>3 DEF Linked
  <2> QED
    BY <1>3, <2>4
<1> QED
  BY <1>1, <1>5, <1>6

AllFacts(all) ==
    /\ AllTasks(all) /\ HasAll(all, "RAW_PI_COMPARATOR", ComparedTasks)
    /\ HasAll(all, "UPDATE_ROLLBACK", Candidates) /\ HasAll(all, "CI", Platforms) /\ HasAll(all, "GATES", {"gates"})
(* The counts are complete, and no next action is named, exactly when every  *)
(* fact of the plan is there.                                                *)
LEMMA CompleteFacts ==
  ASSUME NEW all, FactsFit(all)
  PROVE  /\ CountsComplete(all) <=> AllFacts(all)
         /\ NextActions(all) = {} <=> AllFacts(all)
<1>1. /\ Counts(all).tasks \in Nat /\ Wanted.tasks \in Nat /\ Counts(all).tasks <= Wanted.tasks
      /\ Counts(all).tasks = Wanted.tasks <=> AllTasks(all)
  BY TaskCount DEF AllTasks
<1>2. Counts(all) = Wanted <=>
        /\ Counts(all).tasks = Wanted.tasks /\ Counts(all).archives = Wanted.archives
        /\ Counts(all).interruptions = Wanted.interruptions /\ Counts(all).comparators = Wanted.comparators
        /\ Counts(all).cycles = Wanted.cycles /\ Counts(all).ci = Wanted.ci /\ Counts(all).gates = Wanted.gates
  BY DEF Counts, Wanted
<1>3. CountsComplete(all) <=> AllFacts(all)
  BY <1>1, <1>2, OtherCounts, LinkCount, AllTasksManaged DEF CountsComplete, AllFacts
<1>4. /\ NextActions(all) = {c \in DOMAIN Wanted \ {"archives"} : Counts(all)[c] < Wanted[c]}
      /\ DOMAIN Wanted = {"tasks", "archives", "interruptions", "comparators", "cycles", "ci", "gates"}
  BY DEF NextActions, Wanted
<1>5. NextActions(all) = {} <=>
        /\ ~(Counts(all).tasks < Wanted.tasks) /\ ~(Counts(all).interruptions < Wanted.interruptions)
        /\ ~(Counts(all).comparators < Wanted.comparators) /\ ~(Counts(all).cycles < Wanted.cycles)
        /\ ~(Counts(all).ci < Wanted.ci) /\ ~(Counts(all).gates < Wanted.gates)
  BY <1>4
<1>6. /\ Counts(all).interruptions \in Nat /\ Wanted.interruptions \in Nat
      /\ AllTasks(all) => Counts(all).interruptions = Wanted.interruptions
  BY LinkCount
<1>7. ASSUME NEW a \in Nat, NEW b \in Nat, a <= b PROVE ~(a < b) <=> a = b
  BY <1>7
<1>8. /\ ~(Counts(all).tasks < Wanted.tasks) <=> AllTasks(all)
      /\ ~(Counts(all).comparators < Wanted.comparators) <=> HasAll(all, "RAW_PI_COMPARATOR", ComparedTasks)
      /\ ~(Counts(all).cycles < Wanted.cycles) <=> HasAll(all, "UPDATE_ROLLBACK", Candidates)
      /\ ~(Counts(all).ci < Wanted.ci) <=> HasAll(all, "CI", Platforms)
      /\ ~(Counts(all).gates < Wanted.gates) <=> HasAll(all, "GATES", {"gates"})
  BY <1>1, <1>7, OtherCounts
<1>9. AllTasks(all) => ~(Counts(all).interruptions < Wanted.interruptions)
  BY <1>6
<1>10. NextActions(all) = {} <=> AllFacts(all)
  BY <1>5, <1>8, <1>9 DEF AllFacts
<1> QED
  BY <1>3, <1>10

(* A task's result, and its comparator's measurement of raw Pi in it.        *)
LEMMA ResultIs ==
  ASSUME NEW all, FactsFit(all), NEW x \in all, IsTask(x)
  PROVE  /\ TaskResult(all, x.id).captured = x.captured /\ TaskResult(all, x.id).requests = x.requests
         /\ \A c \in all : c.kind = "RAW_PI_COMPARATOR" /\ c.id = x.id => TaskResult(all, x.id).raw = c.raw
<1>1. all \subseteq Observations /\ OwnPlaces(all)
  BY DEF FactsFit
<1>2. (CHOOSE o \in TaskOf(all, x.id) : TRUE) = x
  BY <1>1, OwnFact
<1>3. TaskResult(all, x.id).captured = x.captured /\ TaskResult(all, x.id).requests = x.requests
  BY <1>2 DEF TaskResult
<1>4. ASSUME NEW c \in all, c.kind = "RAW_PI_COMPARATOR", c.id = x.id PROVE TaskResult(all, x.id).raw = c.raw
  <2> DEFINE C == {d \in OfKind(all, "RAW_PI_COMPARATOR") : d.id = x.id}
  <2>1. c \in C /\ \A d \in C : d = c
    BY <1>1, <1>4, OwnFact DEF OfKind
  <2>2. (CHOOSE d \in C : TRUE) = c
    BY <2>1, OnlyMember
  <2>3. TaskResult(all, x.id).raw
          = IF C = {} THEN (CHOOSE o \in TaskOf(all, x.id) : TRUE).raw ELSE (CHOOSE d \in C : TRUE).raw
    BY DEF TaskResult
  <2>4. C # {}
    BY <2>1
  <2> QED
    BY <2>2, <2>3, <2>4
<1> QED
  BY <1>3, <1>4

(* The evidence of a complete session parses.                                *)
LEMMA CompleteParses ==
  ASSUME NEW all, FactsFit(all), AllFacts(all)
  PROVE  EvidenceParses(DraftOf(all))
<1>1. PICK d : d = DraftOf(all)
  OBVIOUS
<1>2. /\ d.archives = {RunReceipt(o) : o \in OfKind(all, "MANAGED_TASK")}
      /\ DOMAIN d.results = DOMAIN PlannedTasks /\ \A t \in DOMAIN PlannedTasks : d.results[t] = TaskResult(all, t)
      /\ DOMAIN d.interruptions = DOMAIN PlannedInterrupts
      /\ \A i \in DOMAIN PlannedInterrupts : d.interruptions[i] = InterruptionOf(all, i)
      /\ \A t \in ComparedTasks : d.comparators[t] = RecordedFact(all, "RAW_PI_COMPARATOR", t)
      /\ \A p \in Platforms : d.ci[p] = CiReceipt(all, p)
  BY <1>1 DEF DraftOf
<1>3. all \subseteq Observations /\ OwnPlaces(all) /\ ManagedFit(all)
  BY DEF FactsFit
<1>4. \A o \in OfKind(all, "MANAGED_TASK") : o \in all /\ o.kind = "MANAGED_TASK" /\ IsTask(o) /\ o \in Managed
  BY <1>3, ObservationKinds DEF OfKind, IsTask
<1>5. \A x, y \in d.archives : x.run = y.run => x = y
  <2> SUFFICES ASSUME NEW x \in d.archives, NEW y \in d.archives, x.run = y.run PROVE x = y
    OBVIOUS
  <2>1. PICK a \in OfKind(all, "MANAGED_TASK") : x = RunReceipt(a)
    BY <1>2
  <2>2. PICK b \in OfKind(all, "MANAGED_TASK") : y = RunReceipt(b)
    BY <1>2
  <2>3. a.run = b.run
    BY <2>1, <2>2 DEF RunReceipt
  <2> QED
    BY <1>3, <2>1, <2>2, <2>3 DEF ManagedFit
<1>6. \A x \in d.archives : d.results[x.task].requests = x.requests
  <2> SUFFICES ASSUME NEW x \in d.archives PROVE d.results[x.task].requests = x.requests
    OBVIOUS
  <2>1. PICK a \in OfKind(all, "MANAGED_TASK") : x = RunReceipt(a)
    BY <1>2
  <2>2. x.task = a.id /\ x.requests = a.requests
    BY <2>1 DEF RunReceipt
  <2>3. a.id \in DOMAIN PlannedTasks
    BY KindIds, TasksOfPlan
  <2> QED
    BY <1>2, <1>4, <2>2, <2>3, ResultIs
<1>7. \A t \in DOMAIN d.results : d.results[t].captured <= FactCount
  <2> SUFFICES ASSUME NEW t \in DOMAIN PlannedTasks PROVE TaskResult(all, t).captured <= FactCount
    BY <1>2
  <2>1. PICK x \in all : IsTask(x) /\ x.id = t
    BY DEF AllFacts, AllTasks, TaskOf
  <2>2. x.captured \in 1..FactCount
    BY <1>3, <2>1, ObservationKinds DEF IsTask, Managed, Quick
  <2>3. x.captured <= FactCount
    BY <2>2, DraftAssumption DEF DraftAssumption
  <2> QED
    BY <2>1, <2>3, ResultIs
<1>8. \A i \in DOMAIN d.interruptions :
          \E x \in d.archives : /\ x.run = d.interruptions[i].run /\ x.task = d.interruptions[i].task
                                /\ i \in x.links
  <2> SUFFICES ASSUME NEW i \in DOMAIN PlannedInterrupts
               PROVE  \E x \in d.archives : /\ x.run = InterruptionOf(all, i).run /\ x.task = InterruptionOf(all, i).task
                                            /\ i \in x.links
    BY <1>2
  <2>1. PlannedInterrupts[i] \in TasksIn("MANAGED")
    BY DraftAssumption DEF DraftAssumption, FrozenPlan
  <2>2. PICK a \in all : a.kind = "MANAGED_TASK" /\ a.id = PlannedInterrupts[i]
    BY <2>1, AllTasksManaged DEF AllFacts, HasAll
  <2>3. RecordedFact(all, "MANAGED_TASK", PlannedInterrupts[i]) = a
    <3>1. RecordedFact(all, a.kind, a.id) = a
      BY <1>3, OwnFact
    <3> QED
      BY <2>2, <3>1
  <2>4. InterruptionOf(all, i).run = a.run /\ InterruptionOf(all, i).task = a.id
    BY <2>2, <2>3 DEF InterruptionOf
  <2>5. a \in OfKind(all, "MANAGED_TASK") /\ i \in a.links
    BY <1>3, <2>2 DEF OfKind, ManagedFit
  <2>6. RunReceipt(a) \in d.archives
    BY <1>2, <2>5
  <2>7. RunReceipt(a).run = a.run /\ RunReceipt(a).task = a.id /\ RunReceipt(a).links = a.links
    BY DEF RunReceipt
  <2> QED
    BY <2>4, <2>5, <2>6, <2>7
<1>9. \A t \in ComparedTasks : /\ d.comparators[t].hunter = d.results[t].captured
                               /\ d.comparators[t].raw = d.results[t].raw
  <2> SUFFICES ASSUME NEW t \in ComparedTasks
               PROVE  /\ RecordedFact(all, "RAW_PI_COMPARATOR", t).hunter = TaskResult(all, t).captured
                      /\ RecordedFact(all, "RAW_PI_COMPARATOR", t).raw = TaskResult(all, t).raw
    <3>1. ComparedTasks \subseteq DOMAIN PlannedTasks
      BY DraftAssumption DEF DraftAssumption, FrozenPlan
    <3> QED
      BY <1>2, <3>1
  <2>1. PICK c \in all : c.kind = "RAW_PI_COMPARATOR" /\ c.id = t
    BY DEF AllFacts, HasAll
  <2>2. RecordedFact(all, "RAW_PI_COMPARATOR", t) = c
    <3>1. RecordedFact(all, c.kind, c.id) = c
      BY <1>3, OwnFact
    <3> QED
      BY <2>1, <3>1
  <2>3. c \in OfKind(all, "RAW_PI_COMPARATOR")
    BY <2>1 DEF OfKind
  <2>4. TaskOf(all, t) # {} /\ \A x \in TaskOf(all, t) : c.hunter = x.captured
    BY <2>1, <2>3 DEF FactsFit, ComparatorsFit
  <2>5. PICK x \in all : IsTask(x) /\ x.id = t /\ c.hunter = x.captured
    BY <2>4 DEF TaskOf
  <2>6. TaskResult(all, t).captured = x.captured /\ TaskResult(all, t).raw = c.raw
    BY <2>1, <2>5, ResultIs
  <2> QED
    BY <2>2, <2>5, <2>6
<1>10. d.ci["WINDOWS"] # d.ci["UBUNTU"]
  <2>1. PICK w \in all : w.kind = "CI" /\ w.id = "WINDOWS"
    BY DEF AllFacts, HasAll, Platforms
  <2>2. PICK u \in all : u.kind = "CI" /\ u.id = "UBUNTU"
    BY DEF AllFacts, HasAll, Platforms
  <2>3. RecordedFact(all, w.kind, w.id) = w /\ RecordedFact(all, u.kind, u.id) = u
    BY <1>3, OwnFact
  <2>4. d.ci["WINDOWS"] = w.name /\ d.ci["UBUNTU"] = u.name
    BY <1>2, <2>1, <2>2, <2>3 DEF Platforms, CiReceipt
  <2>5. w \in OfKind(all, "CI") /\ u \in OfKind(all, "CI") /\ w # u
    BY <2>1, <2>2 DEF OfKind
  <2> QED
    BY <2>4, <2>5 DEF FactsFit, NamesFit, DistinctNames
<1> QED
  BY <1>1, <1>5, <1>6, <1>7, <1>8, <1>9, <1>10 DEF EvidenceParses

(* A recorded fact adds its own requests, and no more.                       *)
LEMMA RequestsGrow ==
  ASSUME NEW all, IsFiniteSet(RequestsOf(all)), NEW o \in Observations
  PROVE  /\ IsFiniteSet(RequestsOf(all \cup {o})) /\ UsageFor(all) \in Nat /\ UsageFor(all \cup {o}) \in Nat
         /\ UsageFor(all \cup {o}) <= UsageFor(all) + o.requests
<1> DEFINE new == {FactKey(o)} \X (1..o.requests)
<1>1. RequestsOf(all \cup {o}) = RequestsOf(all) \cup new
  BY DEF RequestsOf
<1>2. o.requests \in Nat
  BY ObservationKinds
<1>3. IsFiniteSet(1..o.requests) /\ Cardinality(1..o.requests) = o.requests
  BY <1>2, IntervalCount
<1>4. IsFiniteSet(new) /\ Cardinality(new) = o.requests
  BY <1>3, PairCount
<1> HIDE DEF new
<1>5. /\ IsFiniteSet(RequestsOf(all) \cup new)
      /\ Cardinality(RequestsOf(all) \cup new) <= Cardinality(RequestsOf(all)) + o.requests
  BY <1>4, UnionCount
<1>6. Cardinality(RequestsOf(all)) \in Nat /\ Cardinality(RequestsOf(all) \cup new) \in Nat
  BY <1>5, FS_CardinalityType
<1>7. UsageFor(all) = Cardinality(RequestsOf(all)) /\ UsageFor(all \cup {o}) = Cardinality(RequestsOf(all \cup {o}))
  BY DEF UsageFor, RequestsOf
<1> QED
  BY <1>1, <1>5, <1>6, <1>7

(* What assertObservationValid asks of the fact itself.                      *)
KindFits(all, o) ==
    CASE o.kind = "MANAGED_TASK" -> AcceptsManaged(all, o)
      [] o.kind = "RAW_PI_COMPARATOR" -> AcceptsComparator(all, o)
      [] o.kind \in {"UPDATE_ROLLBACK", "CI"} -> DistinctNames(all, o.kind)
      [] OTHER -> TRUE
IsNew(all, o) == o \in Observations /\ FactKey(o) \notin {FactKey(x) : x \in all}
LEMMA OfKindGrows ==
  ASSUME NEW all, NEW o, NEW kind
  PROVE  OfKind(all \cup {o}, kind) = IF o.kind = kind THEN OfKind(all, kind) \cup {o} ELSE OfKind(all, kind)
  BY DEF OfKind
LEMMA TaskOfGrows ==
  ASSUME NEW all, FactsFit(all), NEW o, IsNew(all, o), NEW t, TaskOf(all, t) # {}
  PROVE  TaskOf(all \cup {o}, t) = TaskOf(all, t)
<1>1. PICK x \in all : IsTask(x) /\ x.id = t
  BY DEF TaskOf
<1>2. x \in Observations /\ o \in Observations /\ FactKey(o) # FactKey(x)
  BY DEF FactsFit, IsNew
<1>3. ~(IsTask(o) /\ o.id = t)
  BY <1>1, <1>2, KeysEqual
<1> QED
  BY <1>3 DEF TaskOf
(* The comparator's Hunter facts are its task's.                             *)
LEMMA ComparatorsTask ==
  ASSUME NEW all, FactsFit(all), NEW o, IsNew(all, o), o.kind = "RAW_PI_COMPARATOR", NEW x \in all, IsTask(x), x.id = o.id
  PROVE  /\ TaskOf(all \cup {o}, o.id) = {x}
         /\ TaskResult({y \in all \cup {o} : IsTask(y)}, o.id).captured = x.captured
<1>1. all \subseteq Observations /\ OwnPlaces(all) /\ TaskOf(all, x.id) = {x} /\ ~IsTask(o)
  BY OwnFact DEF FactsFit, IsTask
<1>2. TaskOf(all \cup {o}, o.id) = {x}
  BY <1>1, TaskOfGrows
<1>3. PICK tasks : tasks = {y \in all \cup {o} : IsTask(y)}
  OBVIOUS
<1>4. TaskOf(tasks, o.id) = {x}
  BY <1>2, <1>3 DEF TaskOf
<1>5. (CHOOSE y \in TaskOf(tasks, o.id) : TRUE) = x
  BY <1>4, OnlyMember
<1>6. TaskResult(tasks, o.id).captured = (CHOOSE y \in TaskOf(tasks, o.id) : TRUE).captured
  BY DEF TaskResult
<1> QED
  BY <1>2, <1>3, <1>5, <1>6

LEMMA DraftGrows ==
  ASSUME NEW all, FactsFit(all), NEW o, IsNew(all, o), KindFits(all \cup {o}, o), UsageFor(all \cup {o}) <= Authorized
  PROVE  FactsFit(all \cup {o})
<1>1. o \in Observations /\ all \subseteq Observations /\ \A x \in all : FactKey(x) # FactKey(o)
  BY DEF IsNew, FactsFit
<1>2. OwnPlaces(all \cup {o})
  BY <1>1 DEF FactsFit, OwnPlaces
<1>3. ManagedFit(all \cup {o})
  <2>1. CASE o.kind = "MANAGED_TASK"
    <3>1. AcceptsManaged(all \cup {o}, o)
      BY <2>1 DEF KindFits
    <3>2. OfKind(all \cup {o}, "MANAGED_TASK") = OfKind(all, "MANAGED_TASK") \cup {o}
      BY <2>1 DEF OfKind
    <3> QED
      BY <3>1, <3>2 DEF FactsFit, ManagedFit, AcceptsManaged
  <2>2. CASE o.kind # "MANAGED_TASK"
    <3>1. OfKind(all \cup {o}, "MANAGED_TASK") = OfKind(all, "MANAGED_TASK")
      BY <2>2, OfKindGrows
    <3> QED
      BY <3>1 DEF FactsFit, ManagedFit
  <2> QED
    BY <2>1, <2>2
<1>4. ComparatorsFit(all \cup {o})
  <2> SUFFICES ASSUME NEW c \in OfKind(all \cup {o}, "RAW_PI_COMPARATOR")
               PROVE  /\ c.id \in ComparedTasks /\ TaskOf(all \cup {o}, c.id) # {}
                      /\ \A x \in TaskOf(all \cup {o}, c.id) : c.hunter = x.captured
    BY DEF ComparatorsFit
  <2>1. CASE c \in all
    <3>1. c \in OfKind(all, "RAW_PI_COMPARATOR")
      BY <2>1 DEF OfKind
    <3>2. /\ c.id \in ComparedTasks /\ TaskOf(all, c.id) # {}
          /\ \A x \in TaskOf(all, c.id) : c.hunter = x.captured
      BY <3>1 DEF FactsFit, ComparatorsFit
    <3> QED
      BY <3>2, TaskOfGrows
  <2>2. CASE c \notin all
    <3>1. c = o /\ o.kind = "RAW_PI_COMPARATOR"
      BY <2>2 DEF OfKind
    <3>2. AcceptsComparator(all \cup {o}, o)
      BY <3>1 DEF KindFits
    <3>3. PICK x \in all \cup {o} : IsTask(x) /\ x.id = o.id
      BY <3>2 DEF AcceptsComparator, TaskOf
    <3>4. x \in all
      BY <3>1, <3>3 DEF IsTask
    <3>5. /\ TaskOf(all \cup {o}, o.id) = {x}
          /\ TaskResult({y \in all \cup {o} : IsTask(y)}, o.id).captured = x.captured
      BY <3>1, <3>3, <3>4, ComparatorsTask
    <3> QED
      BY <3>1, <3>2, <3>5 DEF AcceptsComparator
  <2> QED
    BY <2>1, <2>2
<1>5. NamesFit(all \cup {o})
  <2> SUFFICES ASSUME NEW kind \in {"UPDATE_ROLLBACK", "CI"} PROVE DistinctNames(all \cup {o}, kind)
    BY DEF NamesFit
  <2>1. CASE o.kind = kind
    BY <2>1 DEF KindFits
  <2>2. CASE o.kind # kind
    <3>1. OfKind(all \cup {o}, kind) = OfKind(all, kind)
      BY <2>2, OfKindGrows
    <3> QED
      BY <3>1 DEF FactsFit, NamesFit, DistinctNames
  <2> QED
    BY <2>1, <2>2
<1>6. RequestsFit(all \cup {o})
  BY <1>1, RequestsGrow DEF FactsFit, RequestsFit
<1> QED
  BY <1>1, <1>2, <1>3, <1>4, <1>5, <1>6 DEF FactsFit

(* An identity that no fact of the kind has used.                            *)
LEMMA Unused ==
  ASSUME NEW names, NEW S, LastsFor(names, S), NEW F, IsFiniteSet(F), Cardinality(F) < Cardinality(S), Cardinality(S) \in Nat,
         NEW name, name = [x \in F |-> name[x]], \A x \in F : name[x] \in names
  PROVE  \E n \in names : \A x \in F : name[x] # n
<1> DEFINE used == {name[x] : x \in F}
<1>1. IsFiniteSet(used) /\ Cardinality(used) <= Cardinality(F)
  BY ValueCount
<1>2. used \in SUBSET names
  OBVIOUS
<1> HIDE DEF used
<1>3. Cardinality(used) < Cardinality(S)
  BY <1>1, FS_CardinalityType
<1>4. used # names
  BY <1>1, <1>2, <1>3 DEF LastsFor
<1>5. PICK n \in names : n \notin used
  BY <1>2, <1>4
<1> QED
  BY <1>5 DEF used

(* Each missing fact can be recorded with some content.                      *)
Recordable(all, tag, id) ==
    \E o \in Observations :
       /\ FactKey(o) = <<tag, id>> /\ KindFits(all \cup {o}, o) /\ o.requests <= 1
       /\ tag \notin {"task", "RAW_PI_COMPARATOR"} => o.requests = 0
IsMissing(all, tag, id) == <<tag, id>> \notin {FactKey(x) : x \in all}
LEMMA OneFact == 1 \in 1..FactCount /\ 0 \in 0..FactCount
  BY DraftAssumption DEF DraftAssumption
LEMMA RecordableBy ==
  ASSUME NEW all, NEW tag, NEW id, NEW o \in Observations, FactKey(o) = <<tag, id>>, KindFits(all \cup {o}, o),
         o.requests = 0 \/ (o.requests = 1 /\ tag \in {"task", "RAW_PI_COMPARATOR"})
  PROVE  Recordable(all, tag, id)
<1>1. o.requests <= 1
  OBVIOUS
<1> QED
  BY <1>1 DEF Recordable
LEMMA QuickRecordable ==
  ASSUME NEW all, NEW t \in TasksIn("QUICK")
  PROVE  Recordable(all, "task", t)
<1> DEFINE o == [kind |-> "QUICK_TASK", id |-> t, captured |-> 1, raw |-> 0, requests |-> 1]
<1>1. o \in Quick
  BY OneFact DEF Quick
<1>2. o \in Observations /\ FactKey(o) = <<"task", t>> /\ o.requests = 1
  BY <1>1 DEF Observations, FactKey, IsTask
<1>3. KindFits(all \cup {o}, o)
  BY DEF KindFits
<1> HIDE DEF o
<1> QED
  BY <1>2, <1>3, RecordableBy
LEMMA ManagedRecordable ==
  ASSUME NEW all, FactsFit(all), NEW t \in TasksIn("MANAGED"), IsMissing(all, "task", t)
  PROVE  Recordable(all, "task", t)
<1> DEFINE F == OfKind(all, "MANAGED_TASK")
           name == [x \in F |-> x.run]
<1>1. /\ IsFiniteSet(F) /\ Cardinality(F) \in Nat /\ Cardinality(TasksIn("MANAGED")) \in Nat
      /\ Cardinality(F) <= Cardinality(TasksIn("MANAGED"))
      /\ Cardinality(F) = Cardinality(TasksIn("MANAGED"))
           <=> \A u \in TasksIn("MANAGED") : \E x \in all : x.kind = "MANAGED_TASK" /\ x.id = u
  BY KindIds, KindCount, TasksOfPlan
<1>2. ~\E x \in all : x.kind = "MANAGED_TASK" /\ x.id = t
  BY DEF IsMissing, FactKey, IsTask
<1>3. Cardinality(F) < Cardinality(TasksIn("MANAGED"))
  BY <1>1, <1>2
<1>4. name = [x \in F |-> name[x]] /\ \A x \in F : name[x] = x.run /\ name[x] \in RunNames
  BY KindIds
<1>5. LastsFor(RunNames, TasksIn("MANAGED"))
  BY DraftAssumption DEF DraftAssumption
<1>6. \E n \in RunNames : \A x \in F : name[x] # n
  <2> HIDE DEF name, F
  <2> QED
    BY <1>1, <1>3, <1>4, <1>5, Unused
<1>7. PICK n \in RunNames : \A x \in F : x.run # n
  BY <1>4, <1>6
<1>8. PICK links : links = {i \in DOMAIN PlannedInterrupts : PlannedInterrupts[i] = t}
  OBVIOUS
<1> DEFINE o == [kind |-> "MANAGED_TASK", id |-> t, captured |-> 1, raw |-> 0, run |-> n, links |-> links, requests |-> 1]
<1>9. o \in Managed
  BY <1>8, OneFact DEF Managed
<1>10. o \in Observations /\ FactKey(o) = <<"task", t>> /\ o.requests = 1
  BY <1>9 DEF Observations, FactKey, IsTask
<1>11. AcceptsManaged(all \cup {o}, o)
  <2>1. o.links = {i \in DOMAIN PlannedInterrupts : PlannedInterrupts[i] = o.id}
    BY <1>8
  <2>2. OfKind(all \cup {o}, "MANAGED_TASK") = F \cup {o}
    BY OfKindGrows
  <2>3. \A x, y \in F : x.run = y.run => x = y
    BY DEF FactsFit, ManagedFit
  <2>4. o.run = n
    OBVIOUS
  <2> HIDE DEF o, F
  <2>5. \A x, y \in F \cup {o} : x.run = y.run => x = y
    BY <1>7, <2>3, <2>4
  <2> QED
    BY <2>1, <2>2, <2>5 DEF AcceptsManaged
<1>12. KindFits(all \cup {o}, o)
  BY <1>11 DEF KindFits
<1> HIDE DEF o
<1> QED
  BY <1>10, <1>12, RecordableBy
LEMMA ComparatorRecordable ==
  ASSUME NEW all, FactsFit(all), NEW t \in ComparedTasks, IsMissing(all, "RAW_PI_COMPARATOR", t), TaskOf(all, t) # {}
  PROVE  Recordable(all, "RAW_PI_COMPARATOR", t)
<1>1. PICK x \in all : IsTask(x) /\ x.id = t
  BY DEF TaskOf
<1>2. x.captured \in 1..FactCount
  BY <1>1, ObservationKinds DEF FactsFit, IsTask, Managed, Quick
<1>3. t \in DOMAIN PlannedTasks
  BY DraftAssumption DEF DraftAssumption, FrozenPlan
<1> DEFINE o == [kind |-> "RAW_PI_COMPARATOR", id |-> t, hunter |-> x.captured, raw |-> 0, requests |-> 1]
<1>4. o \in Compared
  BY <1>2, <1>3, OneFact DEF Compared
<1>5. o \in Observations /\ FactKey(o) = <<"RAW_PI_COMPARATOR", t>> /\ o.requests = 1
  BY <1>4 DEF Observations, FactKey, IsTask
<1>6. IsNew(all, o) /\ o.kind = "RAW_PI_COMPARATOR" /\ x.id = o.id /\ o.hunter = x.captured /\ o.id = t
  BY <1>1, <1>5 DEF IsMissing, IsNew
<1> HIDE DEF o
<1>7. AcceptsComparator(all \cup {o}, o)
  <2>1. PICK c : c = o
    OBVIOUS
  <2>2. IsNew(all, c) /\ c.kind = "RAW_PI_COMPARATOR" /\ x.id = c.id /\ IsTask(x)
    BY <1>1, <1>6, <2>1
  <2>3. /\ TaskOf(all \cup {c}, c.id) = {x}
        /\ TaskResult({y \in all \cup {c} : IsTask(y)}, c.id).captured = x.captured
    BY <2>2, ComparatorsTask
  <2> QED
    BY <1>6, <2>1, <2>3 DEF AcceptsComparator
<1>8. KindFits(all \cup {o}, o)
  BY <1>6, <1>7 DEF KindFits
<1> QED
  BY <1>5, <1>8, RecordableBy
LEMMA NamedRecordable ==
  ASSUME NEW all, FactsFit(all),
         NEW kind \in {"UPDATE_ROLLBACK", "CI"}, NEW T, T = IF kind = "CI" THEN Platforms ELSE Candidates,
         NEW t \in T, IsMissing(all, kind, t)
  PROVE  Recordable(all, kind, t)
<1> DEFINE F == OfKind(all, kind)
           name == [x \in F |-> x.name]
<1>1. PICK names : names = IF kind = "CI" THEN CiRuns ELSE CycleNames
  OBVIOUS
<1>2. IsFiniteSet(T) /\ LastsFor(names, T) /\ \A x \in F : x.id \in T /\ x.name \in names
  BY <1>1, KindIds, TasksOfPlan, DraftAssumption DEF DraftAssumption
<1>3. /\ IsFiniteSet(F) /\ Cardinality(F) \in Nat /\ Cardinality(T) \in Nat /\ Cardinality(F) <= Cardinality(T)
      /\ Cardinality(F) = Cardinality(T) <=> \A u \in T : \E x \in all : x.kind = kind /\ x.id = u
  BY <1>2, KindCount
<1>4. ~\E x \in all : x.kind = kind /\ x.id = t
  BY DEF IsMissing, FactKey, IsTask
<1>5. Cardinality(F) < Cardinality(T)
  BY <1>3, <1>4
<1>6. name = [x \in F |-> name[x]] /\ \A x \in F : name[x] = x.name /\ name[x] \in names
  BY <1>2
<1>7. \E n \in names : \A x \in F : name[x] # n
  <2> HIDE DEF name, F
  <2> QED
    BY <1>2, <1>3, <1>5, <1>6, Unused
<1>8. PICK n \in names : \A x \in F : x.name # n
  BY <1>6, <1>7
<1> DEFINE o == [kind |-> kind, id |-> t, name |-> n, requests |-> 0]
<1>9. o \in Cycle \cup Ci
  BY <1>1 DEF Cycle, Ci
<1>10. o \in Observations /\ FactKey(o) = <<kind, t>> /\ o.requests = 0
  BY <1>9 DEF Observations, FactKey, IsTask
<1>11. DistinctNames(all \cup {o}, kind)
  <2>1. OfKind(all \cup {o}, kind) = F \cup {o} /\ o.name = n
    BY OfKindGrows
  <2>2. \A x, y \in F : x.name = y.name => x = y
    BY DEF FactsFit, NamesFit, DistinctNames
  <2> HIDE DEF o, F
  <2>3. \A x, y \in F \cup {o} : x.name = y.name => x = y
    BY <1>8, <2>1, <2>2
  <2> QED
    BY <2>1, <2>3 DEF DistinctNames
<1>12. KindFits(all \cup {o}, o)
  BY <1>11 DEF KindFits
<1> HIDE DEF o
<1> QED
  BY <1>10, <1>12, RecordableBy
LEMMA GatesRecordable == ASSUME NEW all PROVE Recordable(all, "GATES", "gates")
<1> DEFINE o == [kind |-> "GATES", id |-> "gates", requests |-> 0]
<1>1. o \in Observations /\ FactKey(o) = <<"GATES", "gates">> /\ o.requests = 0
  BY DEF Observations, OtherFact, FactKey, IsTask
<1>2. KindFits(all \cup {o}, o)
  BY DEF KindFits
<1> HIDE DEF o
<1> QED
  BY <1>1, <1>2, RecordableBy

(* The keys of the plan, and whose fact is there.                            *)
LEMMA NoFacts == FactsFit({})
<1>1. RequestsOf({}) = {} /\ UsageFor({}) = Cardinality({})
  BY DEF RequestsOf, UsageFor
<1>2. RequestsFit({})
  BY <1>1, FS_EmptySet, DraftAssumption DEF RequestsFit, DraftAssumption
<1> QED
  BY <1>2 DEF FactsFit, OwnPlaces, ManagedFit, ComparatorsFit, NamesFit, DistinctNames, OfKind
LEMMA PlanKeys ==
  ASSUME NEW f
  PROVE  f \in FactKeys <=>
           \/ \E t \in DOMAIN PlannedTasks : f = <<"task", t>>
           \/ \E t \in ComparedTasks : f = <<"RAW_PI_COMPARATOR", t>>
           \/ \E c \in Candidates : f = <<"UPDATE_ROLLBACK", c>>
           \/ \E p \in Platforms : f = <<"CI", p>>
           \/ f = <<"GATES", "gates">>
<1>1. ASSUME NEW o \in Observations, f = FactKey(o),
             f \notin {<<"RAW_PI_COMPARATOR", t>> : t \in DOMAIN PlannedTasks \ ComparedTasks}
      PROVE  \/ \E t \in DOMAIN PlannedTasks : f = <<"task", t>>
             \/ \E t \in ComparedTasks : f = <<"RAW_PI_COMPARATOR", t>>
             \/ \E c \in Candidates : f = <<"UPDATE_ROLLBACK", c>>
             \/ \E p \in Platforms : f = <<"CI", p>>
             \/ f = <<"GATES", "gates">>
  <2>1. CASE IsTask(o)
    <3>1. f = <<"task", o.id>> /\ o.id \in DOMAIN PlannedTasks
      BY <1>1, <2>1, ObservationKinds, TasksOfPlan DEF IsTask, FactKey, Managed, Quick
    <3> QED
      BY <3>1
  <2>2. CASE o.kind = "RAW_PI_COMPARATOR"
    <3>1. f = <<"RAW_PI_COMPARATOR", o.id>> /\ o.id \in DOMAIN PlannedTasks
      BY <1>1, <2>2, ObservationKinds DEF IsTask, FactKey, Compared
    <3> QED
      BY <1>1, <3>1
  <2>3. CASE o.kind = "UPDATE_ROLLBACK"
    <3>1. f = <<"UPDATE_ROLLBACK", o.id>> /\ o.id \in Candidates
      BY <1>1, <2>3, ObservationKinds DEF IsTask, FactKey, Cycle
    <3> QED
      BY <3>1
  <2>4. CASE o.kind = "CI"
    <3>1. f = <<"CI", o.id>> /\ o.id \in Platforms
      BY <1>1, <2>4, ObservationKinds DEF IsTask, FactKey, Ci
    <3> QED
      BY <3>1
  <2>5. CASE o.kind = "GATES"
    BY <1>1, <2>5, ObservationKinds DEF IsTask, FactKey, OtherFact
  <2> QED
    BY <2>1, <2>2, <2>3, <2>4, <2>5, ObservationKinds DEF IsTask
<1>2. ASSUME NEW tag, NEW id, Recordable({}, tag, id), tag # "RAW_PI_COMPARATOR" PROVE <<tag, id>> \in FactKeys
  <2>1. PICK o \in Observations : FactKey(o) = <<tag, id>>
    BY <1>2 DEF Recordable
  <2> QED
    BY <1>2, <2>1 DEF FactKeys
<1>3. \A tag, id : IsMissing({}, tag, id)
  BY DEF IsMissing
<1>4. ASSUME NEW t \in DOMAIN PlannedTasks PROVE <<"task", t>> \in FactKeys
  <2>1. Recordable({}, "task", t)
    BY <1>3, NoFacts, QuickRecordable, ManagedRecordable, TasksOfPlan
  <2> QED
    BY <1>2, <2>1
<1>5. ASSUME NEW t \in ComparedTasks PROVE <<"RAW_PI_COMPARATOR", t>> \in FactKeys
  <2> DEFINE o == [kind |-> "RAW_PI_COMPARATOR", id |-> t, hunter |-> 1, raw |-> 0, requests |-> 1]
  <2>1. t \in DOMAIN PlannedTasks
    BY DraftAssumption DEF DraftAssumption, FrozenPlan
  <2>2. o \in Compared
    BY <2>1, OneFact DEF Compared
  <2>3. o \in Observations /\ FactKey(o) = <<"RAW_PI_COMPARATOR", t>>
    BY <2>2 DEF Observations, FactKey, IsTask
  <2> HIDE DEF o
  <2> QED
    BY <2>3 DEF FactKeys
<1>6. ASSUME NEW c \in Candidates PROVE <<"UPDATE_ROLLBACK", c>> \in FactKeys
  <2>1. Recordable({}, "UPDATE_ROLLBACK", c)
    BY <1>3, NoFacts, NamedRecordable
  <2> QED
    BY <1>2, <2>1
<1>7. ASSUME NEW p \in Platforms PROVE <<"CI", p>> \in FactKeys
  <2>1. Recordable({}, "CI", p)
    BY <1>3, NoFacts, NamedRecordable
  <2> QED
    BY <1>2, <2>1
<1>8. <<"GATES", "gates">> \in FactKeys
  BY <1>2, GatesRecordable
<1>9. f \in FactKeys => \E o \in Observations :
             f = FactKey(o) /\ f \notin {<<"RAW_PI_COMPARATOR", t>> : t \in DOMAIN PlannedTasks \ ComparedTasks}
  BY DEF FactKeys
<1> QED
  BY <1>1, <1>4, <1>5, <1>6, <1>7, <1>8, <1>9

KeysOf(all) == {FactKey(x) : x \in all}
LEMMA TaskKeyThere ==
  ASSUME NEW all, FactsFit(all), NEW t
  PROVE  <<"task", t>> \in KeysOf(all) <=> TaskOf(all, t) # {}
<1>1. \A a, b, c, d : <<a, b>> = <<c, d>> <=> a = c /\ b = d
  OBVIOUS
<1>2. \A x \in all : x.kind # "task" /\ FactKey(x) = <<IF IsTask(x) THEN "task" ELSE x.kind, x.id>>
  BY ObservationKinds DEF FactsFit, FactKey
<1>3. \A x \in all : FactKey(x) = <<"task", t>> <=> IsTask(x) /\ x.id = t
  BY <1>1, <1>2
<1> QED
  BY <1>3 DEF KeysOf, TaskOf
LEMMA KindKeyThere ==
  ASSUME NEW all, FactsFit(all), NEW kind, kind \notin {"task", "MANAGED_TASK", "QUICK_TASK"}, NEW id
  PROVE  <<kind, id>> \in KeysOf(all) <=> \E x \in all : x.kind = kind /\ x.id = id
<1>1. \A a, b, c, d : <<a, b>> = <<c, d>> <=> a = c /\ b = d
  OBVIOUS
<1>2. \A x \in all : FactKey(x) = <<IF IsTask(x) THEN "task" ELSE x.kind, x.id>>
  BY DEF FactKey
<1>3. \A x \in all : FactKey(x) = <<kind, id>> <=> x.kind = kind /\ x.id = id
  BY <1>1, <1>2 DEF IsTask
<1> QED
  BY <1>3 DEF KeysOf
LEMMA NothingMissing ==
  ASSUME NEW all, FactsFit(all)
  PROVE  FactKeys \ KeysOf(all) = {} <=> AllFacts(all)
<1>1. FactKeys \ KeysOf(all) = {} <=>
        /\ \A t \in DOMAIN PlannedTasks : <<"task", t>> \in KeysOf(all)
        /\ \A t \in ComparedTasks : <<"RAW_PI_COMPARATOR", t>> \in KeysOf(all)
        /\ \A c \in Candidates : <<"UPDATE_ROLLBACK", c>> \in KeysOf(all)
        /\ \A p \in Platforms : <<"CI", p>> \in KeysOf(all)
        /\ <<"GATES", "gates">> \in KeysOf(all)
  BY PlanKeys
<1>2. AllFacts(all) <=>
        /\ \A t \in DOMAIN PlannedTasks : TaskOf(all, t) # {}
        /\ \A t \in ComparedTasks : \E x \in all : x.kind = "RAW_PI_COMPARATOR" /\ x.id = t
        /\ \A c \in Candidates : \E x \in all : x.kind = "UPDATE_ROLLBACK" /\ x.id = c
        /\ \A p \in Platforms : \E x \in all : x.kind = "CI" /\ x.id = p
        /\ \E x \in all : x.kind = "GATES" /\ x.id = "gates"
  BY DEF AllFacts, AllTasks, HasAll
<1>3. AllFacts(all) <=>
        /\ \A t \in DOMAIN PlannedTasks : <<"task", t>> \in KeysOf(all)
        /\ \A t \in ComparedTasks : <<"RAW_PI_COMPARATOR", t>> \in KeysOf(all)
        /\ \A c \in Candidates : <<"UPDATE_ROLLBACK", c>> \in KeysOf(all)
        /\ \A p \in Platforms : <<"CI", p>> \in KeysOf(all)
        /\ <<"GATES", "gates">> \in KeysOf(all)
  <2>1. \A t : <<"task", t>> \in KeysOf(all) <=> TaskOf(all, t) # {}
    BY TaskKeyThere
  <2>2. \A t : <<"RAW_PI_COMPARATOR", t>> \in KeysOf(all) <=> \E x \in all : x.kind = "RAW_PI_COMPARATOR" /\ x.id = t
    BY KindKeyThere
  <2>3. \A c : <<"UPDATE_ROLLBACK", c>> \in KeysOf(all) <=> \E x \in all : x.kind = "UPDATE_ROLLBACK" /\ x.id = c
    BY KindKeyThere
  <2>4. \A p : <<"CI", p>> \in KeysOf(all) <=> \E x \in all : x.kind = "CI" /\ x.id = p
    BY KindKeyThere
  <2>5. <<"GATES", "gates">> \in KeysOf(all) <=> \E x \in all : x.kind = "GATES" /\ x.id = "gates"
    BY KindKeyThere
  <2> QED
    BY <1>2, <2>1, <2>2, <2>3, <2>4, <2>5
<1> QED
  BY <1>1, <1>3

(* What is missing is accepted with the content just found.                  *)
LEMMA MissingRecordable ==
  ASSUME NEW all, FactsFit(all), NEW f \in FactKeys, f \notin KeysOf(all),
         f[1] = "RAW_PI_COMPARATOR" => TaskOf(all, f[2]) # {}
  PROVE  f = <<f[1], f[2]>> /\ Recordable(all, f[1], f[2])
<1>1. \A tag, id : f = <<tag, id>> => IsMissing(all, tag, id) /\ f[1] = tag /\ f[2] = id
  BY DEF IsMissing, KeysOf
<1>2. ASSUME NEW t \in DOMAIN PlannedTasks, f = <<"task", t>> PROVE Recordable(all, "task", t)
  <2>1. IsMissing(all, "task", t)
    BY <1>1, <1>2
  <2> QED
    BY <2>1, QuickRecordable, ManagedRecordable, TasksOfPlan
<1>3. ASSUME NEW t \in ComparedTasks, f = <<"RAW_PI_COMPARATOR", t>> PROVE Recordable(all, "RAW_PI_COMPARATOR", t)
  BY <1>1, <1>3, ComparatorRecordable
<1>4. ASSUME NEW c \in Candidates, f = <<"UPDATE_ROLLBACK", c>> PROVE Recordable(all, "UPDATE_ROLLBACK", c)
  BY <1>1, <1>4, NamedRecordable
<1>5. ASSUME NEW p \in Platforms, f = <<"CI", p>> PROVE Recordable(all, "CI", p)
  BY <1>1, <1>5, NamedRecordable
<1> QED
  BY <1>1, <1>2, <1>3, <1>4, <1>5, PlanKeys, GatesRecordable
LEMMA MissingAccepted ==
  ASSUME DraftInv, NEW o, IsNew(recorded, o), KindFits(recorded \cup {o}, o), o.requests <= 1,
         o.requests = 0 \/ UsageFor(recorded) < Authorized
  PROVE  AcceptsFact(o)
<1>1. FactsFit(recorded) /\ o \in Observations
  BY DEF DraftInv, IsNew
<1>2. /\ UsageFor(recorded) \in Nat /\ UsageFor(recorded \cup {o}) \in Nat
      /\ UsageFor(recorded \cup {o}) <= UsageFor(recorded) + o.requests
  BY <1>1, RequestsGrow DEF FactsFit, RequestsFit
<1>3. o.requests \in Nat /\ Authorized \in Nat /\ UsageFor(recorded) <= Authorized
  BY <1>1, ObservationKinds, DraftAssumption DEF DraftAssumption, FactsFit, RequestsFit
<1>4. UsageFor(recorded \cup {o}) <= Authorized
  BY <1>2, <1>3
<1>5. FactsFit(recorded \cup {o})
  BY <1>1, <1>4, DraftGrows
<1>6. CountsComplete(recorded \cup {o}) => EvidenceParses(DraftOf(recorded \cup {o}))
  BY <1>5, CompleteFacts, CompleteParses
<1> QED
  BY <1>4, <1>6 DEF AcceptsFact, KindFits

LEMMA InvSealable == DraftInv => CaptureIsSealable
<1> SUFFICES ASSUME DraftInv PROVE CaptureIsSealable
  OBVIOUS
<1>1. FactsFit(recorded) /\ Missing = FactKeys \ KeysOf(recorded)
  BY DEF DraftInv, Missing, KeysOf
<1>2. Missing = {} <=> AllFacts(recorded)
  BY <1>1, NothingMissing
<1>3. /\ NextActions(recorded) = {} <=> Missing = {}
      /\ Missing = {} => CountsComplete(recorded) /\ EvidenceParses(DraftOf(recorded))
  BY <1>1, <1>2, CompleteFacts, CompleteParses
<1>4. ASSUME NEW f \in Missing, f[1] \in {"task", "RAW_PI_COMPARATOR"} => UsageFor(recorded) < Authorized,
             f[1] = "RAW_PI_COMPARATOR" => TaskOf(recorded, f[2]) # {}
      PROVE  \E o \in ObservationsOf[f] : AcceptsFact(o)
  <2>1. f \in FactKeys /\ f \notin KeysOf(recorded)
    BY <1>1
  <2>2. f = <<f[1], f[2]>> /\ Recordable(recorded, f[1], f[2])
    BY <1>1, <1>4, <2>1, MissingRecordable
  <2>3. PICK o \in Observations :
           /\ FactKey(o) = f /\ KindFits(recorded \cup {o}, o) /\ o.requests <= 1
           /\ f[1] \notin {"task", "RAW_PI_COMPARATOR"} => o.requests = 0
    BY <2>2 DEF Recordable
  <2>4. IsNew(recorded, o)
    BY <2>1, <2>3 DEF IsNew, KeysOf
  <2>5. AcceptsFact(o)
    BY <1>4, <2>3, <2>4, MissingAccepted
  <2>6. o \in ObservationsOf[f]
    BY <2>1, <2>3 DEF ObservationsOf
  <2> QED
    BY <2>5, <2>6
<1>5. ASSUME sealedDraft # NoDraft, NEW o \in recorded, o.kind = "RAW_PI_COMPARATOR"
      PROVE  sealedDraft.results[o.id].raw = o.raw /\ sealedDraft.results[o.id].captured = o.hunter
  <2>1. sealedDraft = DraftOf(recorded)
    BY <1>5 DEF DraftInv
  <2>2. o \in OfKind(recorded, "RAW_PI_COMPARATOR")
    BY <1>5 DEF OfKind
  <2>3. o.id \in ComparedTasks /\ TaskOf(recorded, o.id) # {} /\ \A x \in TaskOf(recorded, o.id) : o.hunter = x.captured
    BY <1>1, <2>2 DEF FactsFit, ComparatorsFit
  <2>4. PICK x \in recorded : IsTask(x) /\ x.id = o.id /\ o.hunter = x.captured
    BY <2>3 DEF TaskOf
  <2>5. o.id \in DOMAIN PlannedTasks
    BY <2>3, DraftAssumption DEF DraftAssumption, FrozenPlan
  <2>6. sealedDraft.results[o.id] = TaskResult(recorded, o.id)
    BY <2>1, <2>5 DEF DraftOf
  <2>7. TaskResult(recorded, o.id).captured = x.captured /\ TaskResult(recorded, o.id).raw = o.raw
    BY <1>1, <1>5, <2>4, ResultIs
  <2> QED
    BY <2>4, <2>6, <2>7
<1> QED
  BY <1>3, <1>4, <1>5 DEF CaptureIsSealable

LEMMA DraftStep == DraftInv /\ [DraftNext]_draftVars => DraftInv'
<1> SUFFICES ASSUME DraftInv, [DraftNext]_draftVars PROVE DraftInv'
  OBVIOUS
<1>1. CASE RecordFact
  <2>1. PICK o \in Observations :
           /\ FactKey(o) \notin {FactKey(x) : x \in recorded} /\ AcceptsFact(o) /\ recorded' = recorded \cup {o}
    BY <1>1 DEF RecordFact
  <2>2. IsNew(recorded, o) /\ KindFits(recorded \cup {o}, o) /\ UsageFor(recorded \cup {o}) <= Authorized
    BY <2>1 DEF IsNew, KindFits, AcceptsFact
  <2>3. FactsFit(recorded \cup {o})
    BY <2>2, DraftGrows DEF DraftInv
  <2>4. FactsFit(recorded')
    BY <2>1, <2>3
  <2> QED
    BY <1>1, <2>4 DEF RecordFact, DraftInv
<1>2. CASE SealEvidence
  <2>1. recorded' = recorded /\ sealedDraft' = DraftOf(recorded)
    BY <1>2 DEF SealEvidence
  <2>2. FactsFit(recorded') /\ sealedDraft' = DraftOf(recorded')
    BY <2>1 DEF DraftInv
  <2> QED
    BY <2>2 DEF DraftInv
<1>3. CASE UNCHANGED draftVars
  <2>1. recorded' = recorded /\ sealedDraft' = sealedDraft
    BY <1>3 DEF draftVars
  <2>2. FactsFit(recorded') /\ (sealedDraft' = NoDraft \/ sealedDraft' = DraftOf(recorded'))
    BY <2>1 DEF DraftInv
  <2> QED
    BY <2>2 DEF DraftInv
<1> QED
  BY <1>1, <1>2, <1>3 DEF DraftNext

(* A capture session never traps its operator: each missing fact can still be*)
(* recorded while the Provider scope lasts, the status names something to    *)
(* record exactly while something is missing, complete facts make evidence   *)
(* that parses, and what it says of raw Pi is what the comparators measured  *)
(* (assertObservationValid, buildEvidenceDraft, statusFor).                  *)
THEOREM CaptureStaysSealable == DraftSpec => []CaptureIsSealable
<1>1. DraftInit => DraftInv
  <2> SUFFICES ASSUME DraftInit PROVE DraftInv
    OBVIOUS
  <2>1. recorded = {} /\ sealedDraft = NoDraft
    BY DEF DraftInit
  <2> QED
    BY <2>1, NoFacts DEF DraftInv
<1>2. DraftSpec => []DraftInv
  BY <1>1, DraftStep, PTL DEF DraftSpec
<1> QED
  BY <1>2, InvSealable, PTL
-----------------------------------------------------------------------------
(* Evaluation. The evidence keeps its shape however it is changed, and the  *)
(* verdict once given stays that of the evidence. What is accepted has one  *)
(* result and one proof for every task, in whatever order, so that what is  *)
(* counted over the lists is what holds of the tasks.                       *)

(* A total is a number, and the same for items in another order.             *)
LEMMA TotalIsNumber ==
  ASSUME NEW seq, NEW field, NEW n \in Nat, DOMAIN seq = 1..n, \A i \in 1..n : seq[i][field] \in Nat
  PROVE  /\ IsFiniteSet(Units(seq, field))
         /\ Total(seq, field) \in Nat
<1> DEFINE Pieces == {{i} \X (1..seq[i][field]) : i \in 1..n}
<1>1. \A i \in 1..n : IsFiniteSet({i} \X (1..seq[i][field]))
  <2>1. TAKE i \in 1..n
  <2>2. PICK v \in Nat : v = seq[i][field]
    OBVIOUS
  <2>3. IsFiniteSet(1..v)
    BY IntervalCount
  <2> QED
    BY <2>2, <2>3, PairCount
<1>2. IsFiniteSet(1..n)
  BY IntervalCount
<1>3. IsFiniteSet(Pieces)
  <2> DEFINE f == [i \in 1..n |-> {i} \X (1..seq[i][field])]
  <2>1. f \in Surjection(1..n, Pieces)
    BY DEF Surjection
  <2> QED
    BY <2>1, <1>2, FS_Surjection
<1>4. IsFiniteSet(UNION Pieces)
  BY <1>1, <1>3, FS_UNION
<1>5. Units(seq, field) = UNION Pieces
  BY DEF Units
<1> QED
  BY <1>4, <1>5, FS_CardinalityType DEF Total

Numbers(seq, field, n) == DOMAIN seq = 1..n /\ \A i \in 1..n : seq[i][field] \in Nat
Reorders(g, a, b, field, n) ==
    /\ g \in [1..n -> 1..n] /\ \A i, j \in 1..n : g[i] = g[j] => i = j
    /\ \A i \in 1..n : b[g[i]][field] = a[i][field]

LEMMA TotalsAgree ==
  ASSUME NEW a, NEW b, NEW field, NEW n \in Nat, NEW g,
         Numbers(a, field, n), Numbers(b, field, n), Reorders(g, a, b, field, n)
  PROVE  Total(a, field) = Total(b, field)
<1> USE DEF Numbers, Reorders
<1> DEFINE A == UNION {{i} \X (1..a[i][field]) : i \in 1..n}
           B == UNION {{i} \X (1..b[i][field]) : i \in 1..n}
           f == [x \in A |-> <<g[x[1]], x[2]>>]
<1>1. \A j \in 1..n : \E i \in 1..n : g[i] = j
  <2>1. PICK D : D = 1..n
    OBVIOUS
  <2>2. n = Cardinality(D) /\ IsFiniteSet(D) /\ g \in [1..n -> D]
    BY <2>1, IntervalCount
  <2>3. \A t \in D : \E i \in 1..n : g[i] = t
    BY <2>2, Matches
  <2> QED
    BY <2>1, <2>3
<1>2. \A x \in A : \E i \in 1..n : \E v \in 1..a[i][field] : x = <<i, v>>
  OBVIOUS
<1>3. ASSUME NEW i \in 1..n, NEW v \in 1..a[i][field] PROVE <<i, v>> \in A
  <2>1. <<i, v>> \in {i} \X (1..a[i][field])
    OBVIOUS
  <2> QED
    BY <2>1
<1>4. \A x \in B : \E i \in 1..n : \E v \in 1..b[i][field] : x = <<i, v>>
  OBVIOUS
<1>5. ASSUME NEW i \in 1..n, NEW v \in 1..b[i][field] PROVE <<i, v>> \in B
  <2>1. <<i, v>> \in {i} \X (1..b[i][field])
    OBVIOUS
  <2> QED
    BY <2>1
<1> HIDE DEF A, B
<1>6. f \in [A -> B]
  <2>1. \A x \in A : <<g[x[1]], x[2]>> \in B
    <3>1. TAKE x \in A
    <3>2. PICK i \in 1..n : \E v \in 1..a[i][field] : x = <<i, v>>
      BY <1>2
    <3>3. PICK v \in 1..a[i][field] : x = <<i, v>>
      BY <3>2
    <3>4. PICK j \in 1..n : j = g[i] /\ b[j][field] = a[i][field]
      OBVIOUS
    <3>5. <<j, v>> \in B
      BY <3>3, <3>4, <1>5
    <3> QED
      BY <3>3, <3>4, <3>5
  <2> QED
    BY <2>1
<1>7. \A x, y \in A : f[x] = f[y] => x = y
  <2>1. TAKE x, y \in A
  <2>2. PICK i \in 1..n : \E v \in 1..a[i][field] : x = <<i, v>>
    BY <1>2
  <2>3. PICK v \in 1..a[i][field] : x = <<i, v>>
    BY <2>2
  <2>4. PICK j \in 1..n : \E w \in 1..a[j][field] : y = <<j, w>>
    BY <1>2
  <2>5. PICK w \in 1..a[j][field] : y = <<j, w>>
    BY <2>4
  <2>6. f[x] = <<g[i], v>> /\ f[y] = <<g[j], w>>
    BY <2>3, <2>5
  <2> QED
    BY <2>3, <2>5, <2>6
<1>8. \A y \in B : \E x \in A : f[x] = y
  <2>1. TAKE y \in B
  <2>2. PICK j \in 1..n : \E v \in 1..b[j][field] : y = <<j, v>>
    BY <1>4
  <2>3. PICK v \in 1..b[j][field] : y = <<j, v>>
    BY <2>2
  <2>4. PICK i \in 1..n : g[i] = j
    BY <1>1
  <2>5. <<i, v>> \in A
    BY <2>3, <2>4, <1>3
  <2>6. f[<<i, v>>] = y
    BY <2>3, <2>4, <2>5
  <2> QED
    BY <2>5, <2>6
<1>9. IsFiniteSet(A)
  <2>1. IsFiniteSet(Units(a, field))
    BY TotalIsNumber
  <2> QED
    BY <2>1 DEF A, Units
<1>10. f \in Bijection(A, B)
  BY <1>6, <1>7, <1>8 DEF Bijection, Injection, IsInjective, Surjection
<1>11. Cardinality(A) = Cardinality(B)
  BY <1>9, <1>10, FS_Bijection DEF ExistsBijection
<1> QED
  BY <1>11 DEF Total, Units, A, B

(* Of samples within or over a limit the one at a rank is over it when the   *)
(* samples within are fewer than the rank.                                   *)
LEMMA RankIsOver ==
  ASSUME NEW n \in Nat, NEW s \in [1..n -> {1, 2}], NEW rank \in 1..n
  PROVE  LET high == Cardinality({i \in 1..n : s[i] > 1})
         IN /\ high \in 0..n
            /\ NearestRank(s, rank) > 1 <=> n - high < rank
<1> DEFINE L == {i \in 1..n : s[i] <= 1}
           H == {i \in 1..n : s[i] > 1}
           Fits(x) == /\ Cardinality({i \in 1..n : s[i] < x}) < rank
                      /\ rank <= Cardinality({i \in 1..n : s[i] <= x})
           values == {s[i] : i \in 1..n}
<1>1. IsFiniteSet(1..n) /\ Cardinality(1..n) = n
  BY IntervalCount
<1>2. 1..n = L \cup H /\ L \cap H = {}
  OBVIOUS
<1>3. /\ Cardinality(L) \in Nat /\ Cardinality(H) \in Nat /\ n = Cardinality(L) + Cardinality(H)
      /\ IsFiniteSet(L) /\ IsFiniteSet(H)
  <2>1. PICK S, A, B : S = 1..n /\ A = L /\ B = H
    OBVIOUS
  <2>2. IsFiniteSet(S) /\ S = A \cup B /\ A \cap B = {}
    BY <1>1, <1>2, <2>1
  <2>3. /\ IsFiniteSet(A) /\ IsFiniteSet(B) /\ Cardinality(A) \in Nat /\ Cardinality(B) \in Nat
        /\ Cardinality(S) = Cardinality(A) + Cardinality(B)
    BY <2>2, SplitCount
  <2> QED
    BY <1>1, <2>1, <2>3
<1>4. Fits(1) <=> rank <= Cardinality(L)
  <2>1. {i \in 1..n : s[i] < 1} = {}
    OBVIOUS
  <2>2. Cardinality({i \in 1..n : s[i] < 1}) = 0
    BY <2>1, FS_EmptySet
  <2> QED
    BY <2>2
<1>5. Fits(2) <=> Cardinality(L) < rank
  <2>1. {i \in 1..n : s[i] < 2} = L /\ {i \in 1..n : s[i] <= 2} = 1..n
    OBVIOUS
  <2>2. Cardinality({i \in 1..n : s[i] < 2}) = Cardinality(L) /\ Cardinality({i \in 1..n : s[i] <= 2}) = n
    BY <2>1, <1>1
  <2> QED
    BY <2>2
<1>6. rank <= Cardinality(L) => 1 \in values
  <2>1. SUFFICES ASSUME rank <= Cardinality(L) PROVE 1 \in values
    OBVIOUS
  <2>2. L # {}
    BY <2>1, <1>3, FS_EmptySet
  <2> QED
    BY <2>2
<1>7. Cardinality(L) < rank => 2 \in values
  <2>1. SUFFICES ASSUME Cardinality(L) < rank PROVE 2 \in values
    OBVIOUS
  <2>2. Cardinality(H) # 0
    BY <2>1, <1>3
  <2>3. H # {}
    BY <2>2, FS_EmptySet
  <2> QED
    BY <2>3
<1>8. values \subseteq {1, 2}
  OBVIOUS
<1>9. NearestRank(s, rank) = CHOOSE x \in values : Fits(x)
  BY DEF NearestRank
<1>10. \E x \in values : Fits(x)
  <2>1. rank <= Cardinality(L) \/ Cardinality(L) < rank
    BY <1>3
  <2>2. CASE rank <= Cardinality(L)
    <3>1. Fits(1) /\ 1 \in values
      BY <1>4, <1>6, <2>2
    <3> HIDE DEF Fits, values
    <3> QED
      BY <3>1
  <2>3. CASE Cardinality(L) < rank
    <3>1. Fits(2) /\ 2 \in values
      BY <1>5, <1>7, <2>3
    <3> HIDE DEF Fits, values
    <3> QED
      BY <3>1
  <2> QED
    BY <2>1, <2>2, <2>3
<1> HIDE DEF L, H, Fits, values
<1>11. NearestRank(s, rank) \in values /\ Fits(NearestRank(s, rank))
  BY <1>9, <1>10
<1>12. NearestRank(s, rank) = 1 => rank <= Cardinality(L)
  BY <1>11, <1>4
<1>13. NearestRank(s, rank) = 2 => Cardinality(L) < rank
  BY <1>11, <1>5
<1>14. NearestRank(s, rank) > 1 <=> n - Cardinality(H) < rank
  <2>1. PICK x \in {1, 2} : x = NearestRank(s, rank)
    BY <1>8, <1>11
  <2>2. PICK l \in Nat, h \in Nat : l = Cardinality(L) /\ h = Cardinality(H) /\ n = l + h
    BY <1>3
  <2>3. (x = 1 => rank <= l) /\ (x = 2 => l < rank)
    BY <2>1, <2>2, <1>12, <1>13
  <2>4. n - h = l /\ rank \in Nat
    BY <2>2
  <2>5. x = 1 \/ x = 2
    OBVIOUS
  <2>6. x > 1 <=> l < rank
    BY <2>3, <2>4, <2>5
  <2> QED
    BY <2>1, <2>2, <2>4, <2>6
<1> QED
  BY <1>3, <1>14 DEF H

AnyOutcome == Outcomes("QUICK") \cup Outcomes("MANAGED")
ResultItems == [task : Frozen, outcome : AnyOutcome, expected : AnyOutcome, preserved : BOOLEAN, requests : Nat]
RecoveryLinks == UNION {[K -> DOMAIN Interrupts] : K \in SUBSET DOMAIN Interrupts}
ProofItems == [task : Frozen, mode : {"QUICK", "MANAGED"}, outcome : AnyOutcome, requests : Nat, recovery : RecoveryLinks]
InterruptionItems == [id : DOMAIN Interrupts, task : Frozen, linked : BOOLEAN, outcome : AnyOutcome,
                      preserved : BOOLEAN, actionable : BOOLEAN]
ComparatorItems == [task : Frozen, bound : BOOLEAN, facts : {20}, captured : {17, 19, 20}, raw : {16, 20}, rawSteps : {10},
                    steps : {7, 8}, overhead : {1, 2}, contained : BOOLEAN, requests : Nat]
EvidenceShapes == [results : Seq(ResultItems), proofs : Seq(ProofItems), interruptions : Seq(InterruptionItems),
                   comparators : Seq(ComparatorItems), over : [{"warm", "acknowledgement", "memory"} -> Nat],
                   limit : Nat, planned : BOOLEAN, consistent : BOOLEAN, broken : SUBSET {"gate"}, missing : SUBSET {"ci"}]
(* However the evidence is changed, the lists of fixed length keep it, the   *)
(* first proofs hold the links of the tasks they were of, and a proof says   *)
(* what its mode can.                                                        *)
ListsKeepLength ==
    /\ Len(evidence.results) = Cardinality(Frozen) /\ Len(evidence.proofs) >= Cardinality(Frozen)
    /\ Len(evidence.interruptions) = Cardinality(DOMAIN Interrupts)
    /\ Len(evidence.comparators) = Cardinality(PairedTasks)
LinksStay ==
    \A i \in 1..Cardinality(Frozen) :
       DOMAIN evidence.proofs[i].recovery = {k \in DOMAIN Interrupts : Interrupts[k] = Order(Frozen)[i]}
ProofsFitModes == \A i \in DOMAIN evidence.proofs : evidence.proofs[i].outcome \in Outcomes(evidence.proofs[i].mode)
EvidenceFits == evidence \in EvidenceShapes /\ ListsKeepLength /\ LinksStay /\ ProofsFitModes
EvaluationInv ==
    /\ plan \in {"NONE", "INVALID", "FROZEN"} /\ handle \in {"NONE", "UNTRUSTED", "OTHER", "EXACT"}
    /\ verdict # "NONE" => EvidenceFits
    /\ verdict \notin {"NONE", "ASKED"} => verdict = Evaluated

LEMMA FrozenCounts ==
  /\ IsFiniteSet(Frozen) /\ IsFiniteSet(DOMAIN Interrupts) /\ IsFiniteSet(PairedTasks)
  /\ Cardinality(Frozen) \in Nat /\ Cardinality(DOMAIN Interrupts) \in Nat /\ Cardinality(PairedTasks) \in Nat \ {0}
<1>1. IsFiniteSet(Frozen) /\ IsFiniteSet(DOMAIN Interrupts) /\ PairedTasks \subseteq Frozen /\ PairedTasks # {}
  BY EvaluationAssumption, FS_EmptySet DEF EvaluationAssumption
<1>2. PICK F, P : F = Frozen /\ P = PairedTasks
  OBVIOUS
<1>3. IsFiniteSet(P) /\ P # {}
  BY <1>1, <1>2, FS_Subset
<1>4. Cardinality(P) \in Nat /\ Cardinality(P) # 0
  BY <1>3, FS_CardinalityType, FS_EmptySet
<1> QED
  BY <1>1, <1>2, <1>3, <1>4, FS_CardinalityType

(* The order of a finite set has each member once.                           *)
LEMMA OrderHasAll ==
  ASSUME NEW S, IsFiniteSet(S)
  PROVE  /\ Cardinality(S) \in Nat /\ Order(S) \in [1..Cardinality(S) -> S]
         /\ \A i, j \in 1..Cardinality(S) : Order(S)[i] = Order(S)[j] => i = j
         /\ \A x \in S : \E i \in 1..Cardinality(S) : Order(S)[i] = x
<1>1. PICK n \in Nat : n = Cardinality(S)
  BY FS_CardinalityType
<1>2. PICK f : f \in Bijection(1..n, S)
  BY <1>1, FS_CardinalityType DEF ExistsBijection
<1>3. f \in [1..n -> S] /\ \A i, j \in 1..n : f[i] = f[j] => i = j
  BY <1>2 DEF Bijection, Injection, IsInjective
<1>4. PICK o : o = Order(S)
  OBVIOUS
<1>5. o = CHOOSE s \in [1..n -> S] : \A i, j \in DOMAIN s : s[i] = s[j] => i = j
  BY <1>1, <1>4 DEF Order
<1>6. o \in [1..n -> S] /\ \A i, j \in 1..n : o[i] = o[j] => i = j
  BY <1>3, <1>5
<1>7. \A x \in S : \E i \in 1..n : o[i] = x
  BY <1>1, <1>6, Matches
<1> QED
  BY <1>1, <1>4, <1>6, <1>7

(* The evidence of a pilot that went as planned fits.                        *)
LEMMA ListingIsSeq ==
  ASSUME NEW S, IsFiniteSet(S), NEW Items, NEW s, s = [i \in 1..Cardinality(S) |-> s[i]],
         \A i \in 1..Cardinality(S) : s[i] \in Items
  PROVE  s \in Seq(Items) /\ Len(s) = Cardinality(S) /\ DOMAIN s = 1..Cardinality(S)
<1>1. PICK n \in Nat : n = Cardinality(S)
  BY FS_CardinalityType
<1>2. s \in [1..n -> Items]
  BY <1>1
<1> QED
  BY <1>1, <1>2

LEMMA ProofIsItem ==
  ASSUME NEW t \in Frozen
  PROVE  /\ Proof(t) \in ProofItems /\ Proof(t).outcome \in Outcomes(Proof(t).mode)
         /\ Proof(t).recovery = [k \in {k \in DOMAIN Interrupts : Interrupts[k] = t} |-> k]
<1>1. /\ FrozenTasks[t].mode \in {"QUICK", "MANAGED"} /\ FrozenTasks[t].expects \in AnyOutcome
      /\ FrozenTasks[t].expects \in Outcomes(FrozenTasks[t].mode)
  BY EvaluationAssumption DEF EvaluationAssumption, AnyOutcome
<1> DEFINE K == {k \in DOMAIN Interrupts : Interrupts[k] = t}
<1>2. K \in SUBSET DOMAIN Interrupts /\ [k \in K |-> k] \in [K -> DOMAIN Interrupts]
  OBVIOUS
<1>3. [k \in K |-> k] \in RecoveryLinks
  BY <1>2 DEF RecoveryLinks
<1> QED
  BY <1>1, <1>3 DEF Proof, ProofItems

LEMMA InitEvaluation == EvaluationInit => EvaluationInv
  BY DEF EvaluationInit, EvaluationInv

LEMMA SupplyKeeps == ASSUME EvaluationInv, Supply PROVE EvaluationInv'
<1> DEFINE rs == Listing(Frozen, FrozenResult)
           ps == Listing(Frozen, Proof)
           is == Listing(DOMAIN Interrupts, Interrupted)
           cs == Listing(PairedTasks, Comparator)
<1>1. /\ Order(Frozen) \in [1..Cardinality(Frozen) -> Frozen]
      /\ Order(DOMAIN Interrupts) \in [1..Cardinality(DOMAIN Interrupts) -> DOMAIN Interrupts]
      /\ Order(PairedTasks) \in [1..Cardinality(PairedTasks) -> PairedTasks]
  BY FrozenCounts, OrderHasAll
<1>2. /\ \A t \in Frozen : /\ FrozenTasks[t].mode \in {"QUICK", "MANAGED"} /\ FrozenTasks[t].expects \in AnyOutcome
                           /\ FrozenTasks[t].expects \in Outcomes(FrozenTasks[t].mode)
      /\ \A k \in DOMAIN Interrupts : Interrupts[k] \in Frozen
      /\ PairedTasks \subseteq Frozen
  BY EvaluationAssumption DEF EvaluationAssumption, AnyOutcome, OfMode
<1>3. \A t \in Frozen : FrozenResult(t) \in ResultItems
  BY <1>2 DEF FrozenResult, ResultItems
<1>4. \A t \in Frozen : Proof(t) \in ProofItems /\ Proof(t).recovery = [k \in {k \in DOMAIN Interrupts : Interrupts[k] = t} |-> k]
                        /\ Proof(t).outcome \in Outcomes(Proof(t).mode)
  BY ProofIsItem
<1>5. \A k \in DOMAIN Interrupts : Interrupted(k) \in InterruptionItems
  BY <1>2, EvaluationAssumption DEF Interrupted, InterruptionItems, AnyOutcome, EvaluationAssumption, OfMode
<1>6. \A t \in PairedTasks : Comparator(t) \in ComparatorItems
  BY <1>2 DEF Comparator, ComparatorItems
<1>7. /\ rs = [i \in 1..Cardinality(Frozen) |-> FrozenResult(Order(Frozen)[i])]
      /\ ps = [i \in 1..Cardinality(Frozen) |-> Proof(Order(Frozen)[i])]
      /\ is = [i \in 1..Cardinality(DOMAIN Interrupts) |-> Interrupted(Order(DOMAIN Interrupts)[i])]
      /\ cs = [i \in 1..Cardinality(PairedTasks) |-> Comparator(Order(PairedTasks)[i])]
  BY DEF Listing
<1>8. rs \in Seq(ResultItems) /\ Len(rs) = Cardinality(Frozen)
  <2>1. \A i \in 1..Cardinality(Frozen) : rs[i] \in ResultItems
    BY <1>1, <1>3, <1>7
  <2>2. rs = [i \in 1..Cardinality(Frozen) |-> rs[i]]
    BY <1>7
  <2> HIDE DEF rs
  <2> QED
    BY <2>1, <2>2, FrozenCounts, ListingIsSeq
<1>9. ps \in Seq(ProofItems) /\ Len(ps) = Cardinality(Frozen) /\ DOMAIN ps = 1..Cardinality(Frozen)
  <2>1. \A i \in 1..Cardinality(Frozen) : ps[i] \in ProofItems
    <3>1. TAKE i \in 1..Cardinality(Frozen)
    <3>2. PICK t \in Frozen : t = Order(Frozen)[i]
      BY <1>1
    <3>3. ps[i] = Proof(t)
      BY <1>7, <3>2
    <3> QED
      BY <1>4, <3>3
  <2>2. ps = [i \in 1..Cardinality(Frozen) |-> ps[i]]
    BY <1>7
  <2> HIDE DEF ps
  <2> QED
    BY <2>1, <2>2, FrozenCounts, ListingIsSeq
<1>10. is \in Seq(InterruptionItems) /\ Len(is) = Cardinality(DOMAIN Interrupts)
  <2>1. \A i \in 1..Cardinality(DOMAIN Interrupts) : is[i] \in InterruptionItems
    <3>1. TAKE i \in 1..Cardinality(DOMAIN Interrupts)
    <3>2. PICK k \in DOMAIN Interrupts : k = Order(DOMAIN Interrupts)[i]
      BY <1>1
    <3>3. is[i] = Interrupted(k)
      BY <1>7, <3>2
    <3> QED
      BY <1>5, <3>3
  <2>2. is = [i \in 1..Cardinality(DOMAIN Interrupts) |-> is[i]]
    BY <1>7
  <2> HIDE DEF is
  <2> QED
    BY <2>1, <2>2, FrozenCounts, ListingIsSeq
<1>11. cs \in Seq(ComparatorItems) /\ Len(cs) = Cardinality(PairedTasks)
  <2>1. \A i \in 1..Cardinality(PairedTasks) : cs[i] \in ComparatorItems
    BY <1>1, <1>6, <1>7
  <2>2. cs = [i \in 1..Cardinality(PairedTasks) |-> cs[i]]
    BY <1>7
  <2> HIDE DEF cs
  <2> QED
    BY <2>1, <2>2, FrozenCounts, ListingIsSeq
<1>12. \A i \in 1..Cardinality(Frozen) :
          /\ DOMAIN ps[i].recovery = {k \in DOMAIN Interrupts : Interrupts[k] = Order(Frozen)[i]}
          /\ ps[i].outcome \in Outcomes(ps[i].mode)
  <2>1. TAKE i \in 1..Cardinality(Frozen)
  <2>2. PICK t \in Frozen : t = Order(Frozen)[i] /\ ps[i] = Proof(t)
    BY <1>1, <1>7
  <2> QED
    BY <1>4, <2>2
<1>13. evidence' = [results |-> rs, proofs |-> ps, interruptions |-> is, comparators |-> cs,
                    over |-> [m \in {"warm", "acknowledgement", "memory"} |-> 0],
                    limit |-> MaxRequests, planned |-> TRUE, consistent |-> TRUE, broken |-> {}, missing |-> {}]
  BY DEF Supply
<1>14. MaxRequests \in Nat
  BY EvaluationAssumption DEF EvaluationAssumption
<1> HIDE DEF rs, ps, is, cs
<1>15. /\ evidence'.results = rs /\ evidence'.proofs = ps /\ evidence'.interruptions = is /\ evidence'.comparators = cs
       /\ evidence' \in EvidenceShapes
  BY <1>8, <1>9, <1>10, <1>11, <1>13, <1>14 DEF EvidenceShapes
<1>16. ListsKeepLength' /\ LinksStay' /\ ProofsFitModes'
  BY <1>8, <1>9, <1>10, <1>11, <1>12, <1>15, FrozenCounts DEF ListsKeepLength, LinksStay, ProofsFitModes
<1> QED
  BY <1>15, <1>16 DEF Supply, EvaluationInv, EvidenceFits

(* Changing one item of a list, or one field.                                *)
LEMMA ItemIsSet ==
  ASSUME NEW Items, NEW s \in Seq(Items), NEW i \in DOMAIN s, NEW item \in Items, NEW t, t = [s EXCEPT ![i] = item]
  PROVE  /\ t \in Seq(Items) /\ Len(t) = Len(s) /\ DOMAIN t = DOMAIN s /\ DOMAIN s = 1..Len(s) /\ t[i] = item
         /\ \A j \in DOMAIN s : j # i => t[j] = s[j]
  OBVIOUS

LEMMA OthersAreItems ==
  /\ \A r \in ResultItems : OtherResults(r) \subseteq ResultItems
  /\ \A p \in ProofItems : OtherProofs(p) \subseteq ProofItems
  /\ \A k \in InterruptionItems : OtherInterruptions(k) \subseteq InterruptionItems
  /\ \A c \in ComparatorItems : OtherComparators(c) \subseteq ComparatorItems
<1>1. \A r \in ResultItems : OtherResults(r) \subseteq ResultItems
  <2>1. TAKE r \in ResultItems
  <2>2. \A t \in Frozen : [r EXCEPT !.task = t] \in ResultItems
    BY DEF ResultItems
  <2>3. \A o \in AnyOutcome : [r EXCEPT !.outcome = o] \in ResultItems
    BY DEF ResultItems
  <2>4. [r EXCEPT !.requests = 0] \in ResultItems /\ [r EXCEPT !.preserved = FALSE] \in ResultItems
    BY DEF ResultItems
  <2> QED
    BY <2>2, <2>3, <2>4 DEF OtherResults, AnyOutcome
<1>2. \A p \in ProofItems : OtherProofs(p) \subseteq ProofItems
  <2>1. TAKE p \in ProofItems
  <2>2. ASSUME NEW k \in DOMAIN p.recovery, NEW a \in DOMAIN Interrupts
        PROVE  [p EXCEPT !.recovery[k] = a] \in ProofItems
    <3>1. PICK K \in SUBSET DOMAIN Interrupts : p.recovery \in [K -> DOMAIN Interrupts]
      BY DEF ProofItems, RecoveryLinks
    <3>2. [p.recovery EXCEPT ![k] = a] \in [K -> DOMAIN Interrupts]
      BY <3>1
    <3>3. [p.recovery EXCEPT ![k] = a] \in RecoveryLinks
      BY <3>2 DEF RecoveryLinks
    <3> QED
      BY <3>3 DEF ProofItems
  <2>3. \A t \in Frozen : [p EXCEPT !.task = t] \in ProofItems
    BY DEF ProofItems
  <2>4. [p EXCEPT !.requests = 0] \in ProofItems
    BY DEF ProofItems
  <2> QED
    BY <2>2, <2>3, <2>4 DEF OtherProofs
<1>3. \A k \in InterruptionItems : OtherInterruptions(k) \subseteq InterruptionItems
  <2>1. TAKE k \in InterruptionItems
  <2>2. \A d \in DOMAIN Interrupts : [k EXCEPT !.id = d] \in InterruptionItems
    BY DEF InterruptionItems
  <2>3. [k EXCEPT !.linked = FALSE] \in InterruptionItems /\ [k EXCEPT !.preserved = FALSE] \in InterruptionItems
    BY DEF InterruptionItems
  <2>4. [k EXCEPT !.actionable = FALSE] \in InterruptionItems
    BY DEF InterruptionItems
  <2>5. \A o \in Outcomes("MANAGED") : [k EXCEPT !.outcome = o] \in InterruptionItems
    BY DEF InterruptionItems, AnyOutcome, Outcomes
  <2> QED
    BY <2>2, <2>3, <2>4, <2>5 DEF OtherInterruptions
<1>4. \A c \in ComparatorItems : OtherComparators(c) \subseteq ComparatorItems
  <2>1. TAKE c \in ComparatorItems
  <2>2. \A t \in Frozen : [c EXCEPT !.task = t] \in ComparatorItems
    BY DEF ComparatorItems
  <2>3. \A n \in {17, 19} : [c EXCEPT !.captured = n] \in ComparatorItems
    BY DEF ComparatorItems
  <2>4. [c EXCEPT !.bound = FALSE] \in ComparatorItems /\ [c EXCEPT !.raw = 20] \in ComparatorItems /\ [c EXCEPT !.steps = 8] \in ComparatorItems
    BY DEF ComparatorItems
  <2>5. [c EXCEPT !.overhead = 2] \in ComparatorItems /\ [c EXCEPT !.contained = TRUE] \in ComparatorItems
    BY DEF ComparatorItems
  <2>6. [c EXCEPT !.requests = @ + 1] \in ComparatorItems
    BY DEF ComparatorItems
  <2> QED
    BY <2>2, <2>3, <2>4, <2>5, <2>6 DEF OtherComparators
<1> QED
  BY <1>1, <1>2, <1>3, <1>4

With(e, field, v) == [e EXCEPT ![field] = v]

LEMMA ResultsSet ==
  ASSUME NEW e \in EvidenceShapes, NEW v \in Seq(ResultItems), NEW n, n = With(e, "results", v)
  PROVE  /\ n \in EvidenceShapes /\ n.results = v /\ n.proofs = e.proofs
         /\ n.interruptions = e.interruptions /\ n.comparators = e.comparators
  BY DEF EvidenceShapes, With
LEMMA ProofsSet ==
  ASSUME NEW e \in EvidenceShapes, NEW v \in Seq(ProofItems), NEW n, n = With(e, "proofs", v)
  PROVE  /\ n \in EvidenceShapes /\ n.results = e.results /\ n.proofs = v
         /\ n.interruptions = e.interruptions /\ n.comparators = e.comparators
  BY DEF EvidenceShapes, With
LEMMA InterruptionsSet ==
  ASSUME NEW e \in EvidenceShapes, NEW v \in Seq(InterruptionItems), NEW n, n = With(e, "interruptions", v)
  PROVE  /\ n \in EvidenceShapes /\ n.results = e.results /\ n.proofs = e.proofs
         /\ n.interruptions = v /\ n.comparators = e.comparators
  BY DEF EvidenceShapes, With
LEMMA ComparatorsSet ==
  ASSUME NEW e \in EvidenceShapes, NEW v \in Seq(ComparatorItems), NEW n, n = With(e, "comparators", v)
  PROVE  /\ n \in EvidenceShapes /\ n.results = e.results /\ n.proofs = e.proofs
         /\ n.interruptions = e.interruptions /\ n.comparators = v
  BY DEF EvidenceShapes, With

(* A proof changed in its place keeps the links and fits when it does itself.*)
LEMMA ProofIsSet ==
  ASSUME EvidenceFits, NEW j \in DOMAIN evidence.proofs, NEW p \in ProofItems,
         DOMAIN p.recovery = DOMAIN evidence.proofs[j].recovery, p.outcome \in Outcomes(p.mode),
         evidence'.proofs = [evidence.proofs EXCEPT ![j] = p]
  PROVE  LinksStay' /\ ProofsFitModes' /\ evidence'.proofs \in Seq(ProofItems) /\ Len(evidence'.proofs) = Len(evidence.proofs)
<1>1. PICK a, b : a \in Seq(ProofItems) /\ a = evidence.proofs /\ b = evidence'.proofs /\ b = [a EXCEPT ![j] = p]
  BY DEF EvidenceFits, EvidenceShapes
<1>2. /\ b \in Seq(ProofItems) /\ Len(b) = Len(a) /\ DOMAIN b = DOMAIN a /\ b[j] = p /\ DOMAIN a = 1..Len(a)
      /\ \A i \in DOMAIN a : i # j => b[i] = a[i]
  BY <1>1, ItemIsSet
<1>3. \A i \in DOMAIN a : DOMAIN b[i].recovery = DOMAIN a[i].recovery
  BY <1>1, <1>2
<1>4. 1..Cardinality(Frozen) \subseteq DOMAIN a
  BY <1>1, <1>2, FrozenCounts DEF EvidenceFits, ListsKeepLength
<1>5. LinksStay'
  BY <1>1, <1>3, <1>4 DEF EvidenceFits, LinksStay
<1>6. ProofsFitModes'
  BY <1>1, <1>2 DEF EvidenceFits, ProofsFitModes
<1> QED
  BY <1>1, <1>2, <1>5, <1>6

LEMMA ProofsAreSame ==
  ASSUME EvidenceFits, evidence'.proofs = evidence.proofs
  PROVE  LinksStay' /\ ProofsFitModes'
  BY DEF EvidenceFits, LinksStay, ProofsFitModes

LEMMA ItemsFit ==
  ASSUME EvidenceFits
  PROVE  /\ evidence \in EvidenceShapes
         /\ evidence.results \in Seq(ResultItems) /\ evidence.proofs \in Seq(ProofItems)
         /\ evidence.interruptions \in Seq(InterruptionItems) /\ evidence.comparators \in Seq(ComparatorItems)
  BY DEF EvidenceFits, EvidenceShapes

LEMMA ResultChanges ==
  ASSUME EvidenceFits, NEW i \in DOMAIN evidence.results, NEW r \in OtherResults(evidence.results[i]), SetsItem("results", i, r)
  PROVE  EvidenceFits'
<1>1. PICK e \in EvidenceShapes, a \in Seq(ResultItems) : e = evidence /\ a = e.results
  BY ItemsFit
<1>2. a[i] \in ResultItems
  BY <1>1
<1>3. r \in ResultItems
  BY <1>1, <1>2, OthersAreItems
<1>4. PICK b : b = [a EXCEPT ![i] = r]
  OBVIOUS
<1>5. b \in Seq(ResultItems) /\ Len(b) = Len(a)
  BY <1>1, <1>3, <1>4, ItemIsSet
<1>6. PICK n : n = evidence' /\ n = With(e, "results", b)
  BY <1>1, <1>4 DEF SetsItem, Sets, With
<1>7. /\ n \in EvidenceShapes /\ n.results = b /\ n.proofs = e.proofs
      /\ n.interruptions = e.interruptions /\ n.comparators = e.comparators
  BY <1>5, <1>6, ResultsSet
<1>8. LinksStay' /\ ProofsFitModes'
  BY <1>1, <1>6, <1>7, ProofsAreSame
<1> QED
  BY <1>1, <1>5, <1>6, <1>7, <1>8 DEF EvidenceFits, ListsKeepLength

LEMMA ProofChanges ==
  ASSUME EvidenceFits, NEW i \in DOMAIN evidence.proofs, NEW p \in OtherProofs(evidence.proofs[i]), SetsItem("proofs", i, p)
  PROVE  EvidenceFits'
<1>1. PICK e \in EvidenceShapes, a \in Seq(ProofItems) : e = evidence /\ a = e.proofs
  BY ItemsFit
<1>2. PICK q \in ProofItems : q = a[i] /\ p \in OtherProofs(q)
  BY <1>1
<1>3. p \in ProofItems
  BY <1>2, OthersAreItems
<1>4. PICK b : b = [a EXCEPT ![i] = p]
  OBVIOUS
<1>5. b \in Seq(ProofItems) /\ Len(b) = Len(a)
  BY <1>1, <1>3, <1>4, ItemIsSet
<1>6. PICK n : n = evidence' /\ n = With(e, "proofs", b)
  BY <1>1, <1>4 DEF SetsItem, Sets, With
<1>7. /\ n \in EvidenceShapes /\ n.results = e.results /\ n.proofs = b
      /\ n.interruptions = e.interruptions /\ n.comparators = e.comparators
  BY <1>5, <1>6, ProofsSet
<1>8. DOMAIN p.recovery = DOMAIN q.recovery /\ p.outcome = q.outcome /\ p.mode = q.mode
  BY <1>2 DEF OtherProofs, ProofItems
<1>9. q.outcome \in Outcomes(q.mode)
  BY <1>1, <1>2 DEF EvidenceFits, ProofsFitModes
<1>10. LinksStay' /\ ProofsFitModes'
  BY <1>1, <1>2, <1>3, <1>4, <1>6, <1>7, <1>8, <1>9, ProofIsSet
<1> QED
  BY <1>1, <1>5, <1>6, <1>7, <1>10 DEF EvidenceFits, ListsKeepLength

LEMMA ProofIsAppended ==
  ASSUME EvidenceFits, NEW t \in Frozen, Sets("proofs", Append(evidence.proofs, Proof(t)))
  PROVE  EvidenceFits'
<1>1. PICK e \in EvidenceShapes, a \in Seq(ProofItems) : e = evidence /\ a = e.proofs
  BY ItemsFit
<1>2. PICK p : p = Proof(t)
  OBVIOUS
<1>3. p \in ProofItems /\ p.outcome \in Outcomes(p.mode)
  BY <1>2, ProofIsItem
<1>4. PICK b : b = Append(a, p)
  OBVIOUS
<1>5. /\ b \in Seq(ProofItems) /\ Len(b) = Len(a) + 1 /\ Len(a) \in Nat
      /\ \A i \in 1..Len(a) : b[i] = a[i]
      /\ b[Len(a) + 1] = p /\ DOMAIN b = 1..Len(a) + 1 /\ DOMAIN a = 1..Len(a)
  BY <1>1, <1>3, <1>4
<1>6. PICK n : n = evidence' /\ n = With(e, "proofs", b)
  BY <1>1, <1>2, <1>4 DEF Sets, With
<1>7. /\ n \in EvidenceShapes /\ n.results = e.results /\ n.proofs = b
      /\ n.interruptions = e.interruptions /\ n.comparators = e.comparators
  BY <1>5, <1>6, ProofsSet
<1>8. Cardinality(Frozen) \in Nat /\ Cardinality(Frozen) <= Len(a)
  BY <1>1, FrozenCounts DEF EvidenceFits, ListsKeepLength
<1>9. LinksStay'
  BY <1>1, <1>5, <1>6, <1>7, <1>8 DEF EvidenceFits, LinksStay
<1>10. ProofsFitModes'
  BY <1>1, <1>3, <1>5, <1>6, <1>7 DEF EvidenceFits, ProofsFitModes
<1>11. ListsKeepLength'
  BY <1>1, <1>5, <1>6, <1>7, <1>8 DEF EvidenceFits, ListsKeepLength
<1> QED
  BY <1>6, <1>7, <1>9, <1>10, <1>11 DEF EvidenceFits

LEMMA InterruptionChanges ==
  ASSUME EvidenceFits, NEW i \in DOMAIN evidence.interruptions, NEW k \in OtherInterruptions(evidence.interruptions[i]),
         SetsItem("interruptions", i, k)
  PROVE  EvidenceFits'
<1>1. PICK e \in EvidenceShapes, a \in Seq(InterruptionItems) : e = evidence /\ a = e.interruptions
  BY ItemsFit
<1>2. k \in InterruptionItems
  BY <1>1, OthersAreItems
<1>3. PICK b : b = [a EXCEPT ![i] = k]
  OBVIOUS
<1>4. b \in Seq(InterruptionItems) /\ Len(b) = Len(a)
  BY <1>1, <1>2, <1>3, ItemIsSet
<1>5. PICK n : n = evidence' /\ n = With(e, "interruptions", b)
  BY <1>1, <1>3 DEF SetsItem, Sets, With
<1>6. /\ n \in EvidenceShapes /\ n.results = e.results /\ n.proofs = e.proofs
      /\ n.interruptions = b /\ n.comparators = e.comparators
  BY <1>4, <1>5, InterruptionsSet
<1>7. LinksStay' /\ ProofsFitModes'
  BY <1>1, <1>5, <1>6, ProofsAreSame
<1> QED
  BY <1>1, <1>4, <1>5, <1>6, <1>7 DEF EvidenceFits, ListsKeepLength

LEMMA ComparatorChanges ==
  ASSUME EvidenceFits, NEW i \in DOMAIN evidence.comparators, NEW c \in OtherComparators(evidence.comparators[i]),
         SetsItem("comparators", i, c)
  PROVE  EvidenceFits'
<1>1. PICK e \in EvidenceShapes, a \in Seq(ComparatorItems) : e = evidence /\ a = e.comparators
  BY ItemsFit
<1>2. c \in ComparatorItems
  BY <1>1, OthersAreItems
<1>3. PICK b : b = [a EXCEPT ![i] = c]
  OBVIOUS
<1>4. b \in Seq(ComparatorItems) /\ Len(b) = Len(a)
  BY <1>1, <1>2, <1>3, ItemIsSet
<1>5. PICK n : n = evidence' /\ n = With(e, "comparators", b)
  BY <1>1, <1>3 DEF SetsItem, Sets, With
<1>6. /\ n \in EvidenceShapes /\ n.results = e.results /\ n.proofs = e.proofs
      /\ n.interruptions = e.interruptions /\ n.comparators = b
  BY <1>4, <1>5, ComparatorsSet
<1>7. LinksStay' /\ ProofsFitModes'
  BY <1>1, <1>5, <1>6, ProofsAreSame
<1> QED
  BY <1>1, <1>4, <1>5, <1>6, <1>7 DEF EvidenceFits, ListsKeepLength

(* A result and its proof change together.                                   *)
LEMMA BothChange ==
  ASSUME EvidenceFits, NEW i \in DOMAIN evidence.results, NEW j \in DOMAIN evidence.proofs,
         NEW r \in ResultItems, NEW p \in ProofItems,
         DOMAIN p.recovery = DOMAIN evidence.proofs[j].recovery, p.outcome \in Outcomes(p.mode),
         evidence' = [[evidence EXCEPT !["results"] = [evidence.results EXCEPT ![i] = r]]
                         EXCEPT !["proofs"] = [evidence.proofs EXCEPT ![j] = p]]
  PROVE  EvidenceFits'
<1>1. PICK e \in EvidenceShapes, a \in Seq(ResultItems), b \in Seq(ProofItems) :
         e = evidence /\ a = e.results /\ b = e.proofs
  BY ItemsFit
<1>2. PICK c, d : c = [a EXCEPT ![i] = r] /\ d = [b EXCEPT ![j] = p]
  OBVIOUS
<1>3. c \in Seq(ResultItems) /\ Len(c) = Len(a)
  BY <1>1, <1>2, ItemIsSet
<1>4. d \in Seq(ProofItems) /\ Len(d) = Len(b)
  BY <1>1, <1>2, ItemIsSet
<1>5. PICK m : m = With(e, "results", c)
  OBVIOUS
<1>6. /\ m \in EvidenceShapes /\ m.results = c /\ m.proofs = e.proofs
      /\ m.interruptions = e.interruptions /\ m.comparators = e.comparators
  BY <1>3, <1>5, ResultsSet
<1>7. PICK n : n = evidence' /\ n = With(m, "proofs", d)
  BY <1>1, <1>2, <1>5 DEF With
<1>8. /\ n \in EvidenceShapes /\ n.results = m.results /\ n.proofs = d
      /\ n.interruptions = m.interruptions /\ n.comparators = m.comparators
  <2>1. m \in EvidenceShapes /\ d \in Seq(ProofItems) /\ n = With(m, "proofs", d)
    BY <1>4, <1>6, <1>7
  <2> QED
    BY <2>1, ProofsSet
<1>9. LinksStay' /\ ProofsFitModes'
  BY <1>1, <1>2, <1>7, <1>8, ProofIsSet
<1> QED
  BY <1>1, <1>3, <1>4, <1>6, <1>7, <1>8, <1>9 DEF EvidenceFits, ListsKeepLength

LEMMA DiffResultFits == ASSUME EvidenceFits, DiffResult PROVE EvidenceFits'
<1>1. CASE \E i \in DOMAIN evidence.results : \E r \in OtherResults(evidence.results[i]) : SetsItem("results", i, r)
  BY <1>1, ResultChanges
<1>2. ASSUME NEW i \in DOMAIN evidence.results, NEW j \in DOMAIN evidence.proofs, NEW o \in Outcomes(evidence.proofs[j].mode),
             evidence' = [evidence EXCEPT !.results[i].outcome = o, !.proofs[j].outcome = o]
      PROVE  EvidenceFits'
  <2>1. PICK q \in ProofItems : q = evidence.proofs[j]
    BY ItemsFit
  <2>2. PICK s \in ResultItems : s = evidence.results[i]
    BY ItemsFit
  <2>3. o \in AnyOutcome
    BY DEF AnyOutcome, Outcomes
  <2>4. PICK r : r = [s EXCEPT !.outcome = o]
    OBVIOUS
  <2>5. PICK p : p = [q EXCEPT !.outcome = o]
    OBVIOUS
  <2>6. r \in ResultItems
    BY <2>3, <2>4 DEF ResultItems
  <2>7. p \in ProofItems /\ p.recovery = q.recovery /\ p.mode = q.mode /\ p.outcome = o
    BY <2>3, <2>5 DEF ProofItems
  <2>8. evidence' = [[evidence EXCEPT !["results"] = [evidence.results EXCEPT ![i] = r]]
                         EXCEPT !["proofs"] = [evidence.proofs EXCEPT ![j] = p]]
    BY <1>2, <2>1, <2>2, <2>4, <2>5, ItemsFit DEF EvidenceShapes
  <2> QED
    BY <2>1, <2>6, <2>7, <2>8, BothChange
<1>3. ASSUME NEW i \in DOMAIN evidence.results, NEW j \in DOMAIN evidence.proofs,
             evidence' = [evidence EXCEPT !.results[i].requests = @ + 1, !.proofs[j].requests = @ + 1]
      PROVE  EvidenceFits'
  <2>1. PICK q \in ProofItems : q = evidence.proofs[j]
    BY ItemsFit
  <2>2. PICK s \in ResultItems : s = evidence.results[i]
    BY ItemsFit
  <2>4. PICK r : r = [s EXCEPT !.requests = @ + 1]
    OBVIOUS
  <2>5. PICK p : p = [q EXCEPT !.requests = @ + 1]
    OBVIOUS
  <2>6. r \in ResultItems
    BY <2>4 DEF ResultItems
  <2>7. p \in ProofItems /\ p.recovery = q.recovery /\ p.mode = q.mode /\ p.outcome = q.outcome
    BY <2>5 DEF ProofItems
  <2>8. evidence' = [[evidence EXCEPT !["results"] = [evidence.results EXCEPT ![i] = r]]
                         EXCEPT !["proofs"] = [evidence.proofs EXCEPT ![j] = p]]
    BY <1>3, <2>1, <2>2, <2>4, <2>5, ItemsFit DEF EvidenceShapes
  <2>9. q.outcome \in Outcomes(q.mode)
    BY <2>1 DEF EvidenceFits, ProofsFitModes
  <2> QED
    BY <2>1, <2>6, <2>7, <2>8, <2>9, BothChange
<1> QED
  BY <1>1, <1>2, <1>3 DEF DiffResult

LEMMA DiffRestFits == ASSUME EvidenceFits, DiffRest PROVE EvidenceFits'
<1>1. PICK e \in EvidenceShapes : e = evidence
  BY ItemsFit
<1>2. PICK n : n = evidence'
  OBVIOUS
<1> DEFINE ListsStay == /\ n \in EvidenceShapes /\ n.results = e.results /\ n.proofs = e.proofs
                        /\ n.interruptions = e.interruptions /\ n.comparators = e.comparators
<1>3. ListsStay
  <2>1. ASSUME NEW m \in DOMAIN evidence.over, Sets("over", [evidence.over EXCEPT ![m] = @ + 1]) PROVE ListsStay
    <3>1. PICK o \in [{"warm", "acknowledgement", "memory"} -> Nat] : o = e.over
      BY DEF EvidenceShapes
    <3>2. PICK v : v = [o EXCEPT ![m] = @ + 1]
      OBVIOUS
    <3>3. v \in [{"warm", "acknowledgement", "memory"} -> Nat]
      BY <1>1, <3>1, <3>2
    <3>4. n = [e EXCEPT !["over"] = v]
      BY <1>1, <1>2, <2>1, <3>1, <3>2 DEF Sets
    <3> QED
      BY <3>3, <3>4 DEF EvidenceShapes
  <2>2. CASE Sets("broken", {"gate"})
    BY <1>1, <1>2, <2>2 DEF Sets, EvidenceShapes
  <2>3. CASE Sets("missing", {"ci"})
    BY <1>1, <1>2, <2>3 DEF Sets, EvidenceShapes
  <2>4. CASE Sets("planned", FALSE)
    BY <1>1, <1>2, <2>4 DEF Sets, EvidenceShapes
  <2>5. CASE Sets("consistent", FALSE)
    BY <1>1, <1>2, <2>5 DEF Sets, EvidenceShapes
  <2>6. ASSUME NEW m \in {0, MaxRequests + 1}, Sets("limit", m) PROVE ListsStay
    <3>1. m \in Nat
      BY EvaluationAssumption DEF EvaluationAssumption
    <3> QED
      BY <1>1, <1>2, <2>6, <3>1 DEF Sets, EvidenceShapes
  <2> QED
    BY <2>1, <2>2, <2>3, <2>4, <2>5, <2>6 DEF DiffRest
<1>4. LinksStay' /\ ProofsFitModes'
  BY <1>1, <1>2, <1>3, ProofsAreSame
<1> QED
  BY <1>1, <1>2, <1>3, <1>4 DEF EvidenceFits, ListsKeepLength

LEMMA DiffKeeps == ASSUME EvaluationInv, Diff PROVE EvaluationInv'
<1>1. EvidenceFits /\ verdict = "ASKED" /\ verdict' = verdict
  BY DEF EvaluationInv, Diff
<1>2. EvidenceFits'
  <2>1. CASE DiffResult
    BY <1>1, <2>1, DiffResultFits
  <2>2. CASE DiffProof
    BY <1>1, <2>2, ProofChanges, ProofIsAppended DEF DiffProof
  <2>3. CASE DiffInterruption
    BY <1>1, <2>3, InterruptionChanges DEF DiffInterruption
  <2>4. CASE DiffComparator
    BY <1>1, <2>4, ComparatorChanges DEF DiffComparator
  <2>5. CASE DiffRest
    BY <1>1, <2>5, DiffRestFits
  <2>6. CASE UNCHANGED evidence
    BY <1>1, <2>6 DEF EvidenceFits, ListsKeepLength, LinksStay, ProofsFitModes
  <2> QED
    BY <2>1, <2>2, <2>3, <2>4, <2>5, <2>6 DEF Diff
<1> QED
  BY <1>1, <1>2 DEF EvaluationInv, Diff

(* The verdict on evidence that stays is the same.                           *)
LEMMA VerdictStays ==
  ASSUME UNCHANGED <<evidence, plan, handle>>
  PROVE  Evaluated' = Evaluated
<1>1. Parses' = Parses
  BY DEF Parses, ResultsDerive, InterruptionsBind, ComparatorsBind, ProofsOf, ProofFor, ResultFor
<1>2. Resumed' = Resumed
  BY DEF Resumed, ReadyInterruptions, RecoveryOf, ProofFor
<1>3. FewFacts' = FewFacts /\ LittleSaved' = LittleSaved /\ Requests' = Requests
  BY DEF FewFacts, LittleSaved, Requests
<1>4. ZeroToleranceFailure' = ZeroToleranceFailure
  BY <1>3 DEF ZeroToleranceFailure, FalseReady, Authorised
<1>5. QuantitativeMiss' = QuantitativeMiss
  BY <1>2 DEF QuantitativeMiss, Correct, Overheads, SamplesOf
<1>6. IdentityProblem' = IdentityProblem /\ ArchiveProblem' = ArchiveProblem /\ MissingEvidence' = MissingEvidence
  BY DEF IdentityProblem, ArchiveProblem, MissingEvidence
<1> QED
  BY <1>1, <1>4, <1>5, <1>6 DEF Evaluated
LEMMA EvaluateKeeps == ASSUME EvaluationInv, Evaluate PROVE EvaluationInv'
<1>1. Evaluated' = Evaluated
  BY VerdictStays DEF Evaluate
<1>2. EvidenceFits'
  BY DEF Evaluate, EvaluationInv, EvidenceFits, ListsKeepLength, LinksStay, ProofsFitModes
<1> QED
  BY <1>1, <1>2 DEF Evaluate, EvaluationInv
LEMMA EvaluationStutters == ASSUME EvaluationInv, UNCHANGED evaluationVars PROVE EvaluationInv'
<1>1. Evaluated' = Evaluated
  BY VerdictStays DEF evaluationVars
<1>2. verdict # "NONE" => EvidenceFits'
  BY DEF evaluationVars, EvaluationInv, EvidenceFits, ListsKeepLength, LinksStay, ProofsFitModes
<1> QED
  BY <1>1, <1>2 DEF evaluationVars, EvaluationInv

(* Every task has one result, one proof of its mode, and no more.            *)
Matched ==
    /\ Len(evidence.proofs) = Cardinality(Frozen)
    /\ Distinct(evidence.results, DOMAIN evidence.results) /\ Distinct(evidence.proofs, DOMAIN evidence.proofs)
    /\ \A t \in Frozen : /\ \E i \in DOMAIN evidence.results : evidence.results[i].task = t
                         /\ \E j \in DOMAIN evidence.proofs : evidence.proofs[j].task = t
    /\ \A j \in DOMAIN evidence.proofs : evidence.proofs[j].mode = FrozenTasks[evidence.proofs[j].task].mode

LEMMA Domains ==
  ASSUME EvidenceFits
  PROVE  /\ DOMAIN evidence.results = 1..Cardinality(Frozen)
         /\ DOMAIN evidence.proofs = 1..Len(evidence.proofs) /\ Len(evidence.proofs) \in Nat
         /\ DOMAIN evidence.interruptions = 1..Cardinality(DOMAIN Interrupts)
         /\ DOMAIN evidence.comparators = 1..Cardinality(PairedTasks)
         /\ \A i \in DOMAIN evidence.results : evidence.results[i] \in ResultItems
         /\ \A i \in DOMAIN evidence.proofs : evidence.proofs[i] \in ProofItems
         /\ \A i \in DOMAIN evidence.interruptions : evidence.interruptions[i] \in InterruptionItems
         /\ \A i \in DOMAIN evidence.comparators : evidence.comparators[i] \in ComparatorItems
<1>1. PICK a \in Seq(ResultItems), b \in Seq(ProofItems), c \in Seq(InterruptionItems), d \in Seq(ComparatorItems) :
         a = evidence.results /\ b = evidence.proofs /\ c = evidence.interruptions /\ d = evidence.comparators
  BY ItemsFit
<1>2. /\ DOMAIN a = 1..Len(a) /\ DOMAIN b = 1..Len(b) /\ DOMAIN c = 1..Len(c) /\ DOMAIN d = 1..Len(d) /\ Len(b) \in Nat
      /\ \A i \in DOMAIN a : a[i] \in ResultItems
      /\ \A i \in DOMAIN b : b[i] \in ProofItems
      /\ \A i \in DOMAIN c : c[i] \in InterruptionItems
      /\ \A i \in DOMAIN d : d[i] \in ComparatorItems
  OBVIOUS
<1> QED
  BY <1>1, <1>2 DEF EvidenceFits, ListsKeepLength

(* As many items as tasks: all of different tasks, or none of some task.     *)
AllOf(s, I, T) == \A i \in I : s[i].task \in T
EachIn(T, s, I) == \A t \in T : \E i \in I : s[i].task = t

LEMMA TasksMatch ==
  ASSUME NEW T, IsFiniteSet(T), NEW n, n = Cardinality(T), NEW s, NEW D, D = 1..n, AllOf(s, D, T)
  PROVE  /\ Distinct(s, D) => EachIn(T, s, D)
         /\ EachIn(T, s, D) => Distinct(s, D)
<1>1. PICK key : key = [i \in 1..n |-> s[i].task]
  OBVIOUS
<1>2. key \in [1..n -> T]
  BY <1>1 DEF AllOf
<1>3. key \in Injection(1..n, T) <=> key \in Surjection(1..n, T)
  BY <1>2, OneEach
<1>4. \A i \in 1..n : key[i] = s[i].task
  BY <1>1
<1>5. Distinct(s, D) <=> key \in Injection(1..n, T)
  BY <1>2, <1>4 DEF Distinct, Injection, IsInjective
<1>6. EachIn(T, s, D) <=> key \in Surjection(1..n, T)
  BY <1>2, <1>4 DEF EachIn, Surjection
<1> QED
  BY <1>3, <1>5, <1>6

LEMMA ModeCounts ==
  /\ Cardinality(OfMode("QUICK")) \in Nat /\ Cardinality(OfMode("MANAGED")) \in Nat
  /\ IsFiniteSet(OfMode("QUICK")) /\ IsFiniteSet(OfMode("MANAGED"))
  /\ Cardinality(Frozen) = Cardinality(OfMode("QUICK")) + Cardinality(OfMode("MANAGED"))
<1>1. PICK F, A, B : F = Frozen /\ A = OfMode("QUICK") /\ B = OfMode("MANAGED")
  OBVIOUS
<1>2. F = A \cup B /\ A \cap B = {} /\ IsFiniteSet(F)
  BY <1>1, EvaluationAssumption DEF EvaluationAssumption, OfMode
<1>3. /\ IsFiniteSet(A) /\ IsFiniteSet(B) /\ Cardinality(A) \in Nat /\ Cardinality(B) \in Nat
      /\ Cardinality(F) = Cardinality(A) + Cardinality(B)
  BY <1>2, SplitCount
<1> QED
  BY <1>1, <1>3

LEMMA ProofCounts ==
  ASSUME EvidenceFits
  PROVE  /\ Cardinality(ProofsOf("QUICK")) \in Nat /\ Cardinality(ProofsOf("MANAGED")) \in Nat
         /\ IsFiniteSet(ProofsOf("QUICK")) /\ IsFiniteSet(ProofsOf("MANAGED"))
         /\ Len(evidence.proofs) = Cardinality(ProofsOf("QUICK")) + Cardinality(ProofsOf("MANAGED"))
<1>1. PICK n \in Nat : n = Len(evidence.proofs) /\ DOMAIN evidence.proofs = 1..n
  BY Domains
<1>2. PICK F, A, B : F = DOMAIN evidence.proofs /\ A = ProofsOf("QUICK") /\ B = ProofsOf("MANAGED")
  OBVIOUS
<1>3. \A i \in F : evidence.proofs[i].mode \in {"QUICK", "MANAGED"}
  BY <1>2, Domains DEF ProofItems
<1>4. F = A \cup B /\ A \cap B = {}
  BY <1>2, <1>3 DEF ProofsOf
<1>5. IsFiniteSet(F) /\ Cardinality(F) = n
  BY <1>1, <1>2, IntervalCount
<1>6. /\ IsFiniteSet(A) /\ IsFiniteSet(B) /\ Cardinality(A) \in Nat /\ Cardinality(B) \in Nat
      /\ Cardinality(F) = Cardinality(A) + Cardinality(B)
  <2>1. PICK S : S = F
    OBVIOUS
  <2>2. IsFiniteSet(S) /\ S = A \cup B /\ A \cap B = {}
    BY <1>4, <1>5, <2>1
  <2>3. /\ IsFiniteSet(A) /\ IsFiniteSet(B) /\ Cardinality(A) \in Nat /\ Cardinality(B) \in Nat
        /\ Cardinality(S) = Cardinality(A) + Cardinality(B)
    BY <2>2, SplitCount
  <2> QED
    BY <2>1, <2>3
<1> QED
  BY <1>1, <1>2, <1>5, <1>6

(* The results and the proofs of a schema-valid evidence match the tasks.    *)
LEMMA ParsedIsMatched == ASSUME EvidenceFits, Parses PROVE Matched
<1>0. ResultsDerive
  BY DEF Parses
<1>1. Len(evidence.proofs) = Cardinality(Frozen)
  BY <1>0, ModeCounts, ProofCounts DEF ResultsDerive
<1>2. \A t \in Frozen : /\ \E i \in DOMAIN evidence.results : evidence.results[i].task = t
                        /\ \E j \in DOMAIN evidence.proofs : evidence.proofs[j].task = t
  <2>1. TAKE t \in Frozen
  <2>2. FrozenTasks[t].mode \in {"QUICK", "MANAGED"}
    BY EvaluationAssumption DEF EvaluationAssumption
  <2>3. t \in TaskIds(evidence.results, DOMAIN evidence.results) /\ t \in TaskIds(evidence.proofs, ProofsOf(FrozenTasks[t].mode))
    BY <1>0, <2>2 DEF ResultsDerive
  <2> QED
    BY <2>3 DEF TaskIds, ProofsOf
<1>3. Distinct(evidence.proofs, DOMAIN evidence.proofs)
  <2>1. PICK s, T : s = evidence.proofs /\ T = Frozen
    OBVIOUS
  <2>2. PICK n, D : n = Cardinality(T) /\ D = 1..n /\ D = DOMAIN s
    BY <1>1, <2>1, Domains
  <2>3. IsFiniteSet(T) /\ AllOf(s, D, T)
    BY <2>1, <2>2, Domains, FrozenCounts DEF ProofItems, AllOf
  <2>4. EachIn(T, s, D)
    BY <1>2, <2>1, <2>2 DEF EachIn
  <2>5. Distinct(s, D)
    BY <2>2, <2>3, <2>4, TasksMatch
  <2> QED
    BY <2>1, <2>2, <2>5
<1>4. \A j \in DOMAIN evidence.proofs : evidence.proofs[j].mode = FrozenTasks[evidence.proofs[j].task].mode
  <2>1. TAKE j \in DOMAIN evidence.proofs
  <2>2. PICK p \in ProofItems : p = evidence.proofs[j]
    BY Domains
  <2>3. p.task \in Frozen /\ p.mode \in {"QUICK", "MANAGED"} /\ p.task \in TaskIds(evidence.proofs, ProofsOf(p.mode))
    BY <2>2 DEF ProofItems, TaskIds, ProofsOf
  <2> QED
    BY <1>0, <2>2, <2>3 DEF ResultsDerive
<1> QED
  BY <1>0, <1>1, <1>2, <1>3, <1>4 DEF Matched, ResultsDerive

LEMMA ProvenIsMatched == ASSUME EvidenceFits, Proven PROVE Matched
<1>1. Len(evidence.proofs) = Cardinality(Frozen)
  BY DEF Proven
<1>2. \A t \in Frozen : /\ \E i \in DOMAIN evidence.results : evidence.results[i].task = t
                        /\ \E j \in DOMAIN evidence.proofs : /\ evidence.proofs[j].task = t
                                                             /\ evidence.proofs[j].mode = FrozenTasks[t].mode
  BY DEF Proven, Backed
<1>3. PICK r, s, T, n, D : /\ r = evidence.results /\ s = evidence.proofs /\ T = Frozen
                           /\ n = Cardinality(T) /\ D = 1..n
  OBVIOUS
<1>4. IsFiniteSet(T) /\ DOMAIN r = D /\ DOMAIN s = D /\ AllOf(r, D, T) /\ AllOf(s, D, T)
  BY <1>1, <1>3, Domains, FrozenCounts DEF ProofItems, ResultItems, AllOf
<1>5. EachIn(T, r, D) /\ EachIn(T, s, D)
  BY <1>2, <1>3, <1>4 DEF EachIn
<1>6. Distinct(r, D) /\ Distinct(s, D)
  BY <1>3, <1>4, <1>5, TasksMatch
<1>7. \A j \in DOMAIN s : s[j].mode = FrozenTasks[s[j].task].mode
  <2>1. TAKE j \in DOMAIN s
  <2>2. PICK t \in T : t = s[j].task
    BY <1>4 DEF AllOf
  <2>3. PICK i \in DOMAIN s : s[i].task = t /\ s[i].mode = FrozenTasks[t].mode
    BY <1>2, <1>3
  <2> QED
    BY <1>4, <1>6, <2>2, <2>3 DEF Distinct
<1> QED
  BY <1>1, <1>2, <1>3, <1>4, <1>6, <1>7 DEF Matched

(* What is looked up by task is the only one of it.                          *)
LEMMA FoundByTask ==
  ASSUME EvidenceFits, Matched
  PROVE  /\ \A i \in DOMAIN evidence.results : ResultFor(evidence.results[i].task) = evidence.results[i]
         /\ \A j \in DOMAIN evidence.proofs : ProofFor(evidence.proofs[j].task) = evidence.proofs[j]
<1>1. ASSUME NEW i \in DOMAIN evidence.results PROVE ResultFor(evidence.results[i].task) = evidence.results[i]
  <2>1. PICK t : t = evidence.results[i].task
    OBVIOUS
  <2>2. (CHOOSE n \in DOMAIN evidence.results : evidence.results[n].task = t) = i
    BY <2>1 DEF Matched, Distinct
  <2> QED
    BY <2>1, <2>2 DEF ResultFor
<1>2. ASSUME NEW j \in DOMAIN evidence.proofs PROVE ProofFor(evidence.proofs[j].task) = evidence.proofs[j]
  <2>1. PICK t : t = evidence.proofs[j].task
    OBVIOUS
  <2>2. evidence.proofs[j].mode = FrozenTasks[t].mode
    BY <2>1 DEF Matched
  <2>3. \A n \in DOMAIN evidence.proofs : evidence.proofs[n].task = t => n = j
    BY <2>1 DEF Matched, Distinct
  <2>4. (CHOOSE n \in DOMAIN evidence.proofs : evidence.proofs[n].task = t /\ evidence.proofs[n].mode = FrozenTasks[t].mode) = j
    BY <2>1, <2>2, <2>3
  <2> QED
    BY <2>1, <2>4 DEF ProofFor
<1> QED
  BY <1>1, <1>2

LEMMA SpentAlike ==
  ASSUME EvidenceFits, Matched,
         \A i \in DOMAIN evidence.results, j \in DOMAIN evidence.proofs :
            evidence.results[i].task = evidence.proofs[j].task => evidence.results[i].requests = evidence.proofs[j].requests
  PROVE  Total(evidence.results, "requests") = Total(evidence.proofs, "requests")
<1>1. PICK a, b : a = evidence.results /\ b = evidence.proofs
  OBVIOUS
<1>2. PICK n \in Nat : n = Cardinality(Frozen)
  BY FrozenCounts
<1>3. /\ DOMAIN a = 1..n /\ DOMAIN b = 1..n /\ Distinct(a, 1..n)
      /\ \A i \in 1..n : a[i].task \in Frozen /\ a[i].requests \in Nat /\ b[i].requests \in Nat
      /\ \A t \in Frozen : \E j \in 1..n : b[j].task = t
  BY <1>1, <1>2, Domains DEF Matched, ResultItems, ProofItems
<1>4. PICK g : g = [i \in 1..n |-> CHOOSE j \in 1..n : b[j].task = a[i].task]
  OBVIOUS
<1>5. \A i \in 1..n : g[i] \in 1..n /\ b[g[i]].task = a[i].task
  BY <1>3, <1>4
<1>6. g \in [1..n -> 1..n]
  BY <1>4, <1>5
<1>7. \A i, j \in 1..n : g[i] = g[j] => i = j
  BY <1>3, <1>5 DEF Distinct
<1>8. \A i \in 1..n : b[g[i]]["requests"] = a[i]["requests"]
  <2>1. TAKE i \in 1..n
  <2>2. PICK j \in 1..n : j = g[i] /\ a[i].task = b[j].task
    BY <1>5
  <2>3. i \in DOMAIN evidence.results /\ j \in DOMAIN evidence.proofs /\ evidence.results[i].task = evidence.proofs[j].task
    BY <1>1, <1>3, <2>2
  <2>4. evidence.results[i].requests = evidence.proofs[j].requests
    BY <2>3
  <2>5. a[i].requests = b[j].requests
    BY <1>1, <2>4
  <2> QED
    BY <2>2, <2>5
<1>9. Numbers(a, "requests", n) /\ Numbers(b, "requests", n) /\ Reorders(g, a, b, "requests", n)
  BY <1>1, <1>3, <1>6, <1>7, <1>8 DEF Numbers, Reorders
<1>10. Total(a, "requests") = Total(b, "requests")
  BY <1>9, TotalsAgree
<1> QED
  BY <1>1, <1>10

(* Every planned interruption is reported once, of its task, by the proof    *)
(* that has its link.                                                        *)
Reported(n) ==
    LET e == evidence.interruptions[n] IN
    /\ e.task = Interrupts[e.id] /\ e.linked
    /\ \E j \in DOMAIN evidence.proofs :
          LET p == evidence.proofs[j] IN p.task = e.task /\ e.id \in DOMAIN p.recovery /\ e.outcome = p.outcome
AllReported ==
    /\ \A k \in DOMAIN Interrupts : \E n \in DOMAIN evidence.interruptions : evidence.interruptions[n].id = k
    /\ \A n \in DOMAIN evidence.interruptions : Reported(n)

LEMMA IdsMatch ==
  ASSUME EvidenceFits
  PROVE  (\A m, n \in DOMAIN evidence.interruptions : evidence.interruptions[m].id = evidence.interruptions[n].id => m = n)
         <=> \A k \in DOMAIN Interrupts : \E n \in DOMAIN evidence.interruptions : evidence.interruptions[n].id = k
<1>1. PICK T, n : T = DOMAIN Interrupts /\ n = Cardinality(T)
  OBVIOUS
<1>2. IsFiniteSet(T) /\ DOMAIN evidence.interruptions = 1..n
  BY <1>1, FrozenCounts, Domains
<1>3. PICK key : key = [i \in 1..n |-> evidence.interruptions[i].id]
  OBVIOUS
<1>4. key \in [1..n -> T] /\ \A i \in 1..n : key[i] = evidence.interruptions[i].id
  BY <1>1, <1>2, <1>3, Domains DEF InterruptionItems
<1>5. key \in Injection(1..n, T) <=> key \in Surjection(1..n, T)
  BY <1>1, <1>2, <1>4, OneEach
<1>6. key \in Injection(1..n, T) <=>
         \A i, j \in 1..n : evidence.interruptions[i].id = evidence.interruptions[j].id => i = j
  BY <1>4 DEF Injection, IsInjective
<1>7. key \in Surjection(1..n, T) <=> \A k \in T : \E i \in 1..n : evidence.interruptions[i].id = k
  BY <1>4 DEF Surjection
<1> QED
  BY <1>1, <1>2, <1>5, <1>6, <1>7

(* A link belongs to the task the proof was of.                              *)
LEMMA LinkOfOwnProof ==
  ASSUME EvidenceFits, Matched, NEW i \in DOMAIN evidence.proofs, NEW j \in DOMAIN evidence.proofs,
         NEW k \in DOMAIN evidence.proofs[i].recovery, k \in DOMAIN evidence.proofs[j].recovery
  PROVE  k \in DOMAIN Interrupts /\ i = j
<1>1. PICK n \in Nat : n = Cardinality(Frozen) /\ DOMAIN evidence.proofs = 1..n
  BY FrozenCounts, Domains DEF Matched
<1>2. /\ k \in DOMAIN Interrupts /\ Interrupts[k] = Order(Frozen)[i] /\ Interrupts[k] = Order(Frozen)[j]
  BY <1>1 DEF EvidenceFits, LinksStay
<1>3. \A a, b \in 1..n : Order(Frozen)[a] = Order(Frozen)[b] => a = b
  BY <1>1, FrozenCounts, OrderHasAll
<1> QED
  BY <1>1, <1>2, <1>3

LEMMA EveryLinkIsHeld ==
  ASSUME EvidenceFits, Matched, NEW k \in DOMAIN Interrupts
  PROVE  \E j \in DOMAIN evidence.proofs : k \in DOMAIN evidence.proofs[j].recovery
<1>1. PICK n \in Nat : n = Cardinality(Frozen) /\ DOMAIN evidence.proofs = 1..n
  BY FrozenCounts, Domains DEF Matched
<1>2. Interrupts[k] \in Frozen
  BY EvaluationAssumption DEF EvaluationAssumption, OfMode
<1>3. PICK j \in 1..n : Order(Frozen)[j] = Interrupts[k]
  BY <1>1, <1>2, FrozenCounts, OrderHasAll
<1> QED
  BY <1>1, <1>3 DEF EvidenceFits, LinksStay

LEMMA ParsedIsReported ==
  ASSUME EvidenceFits, Parses, plan = "FROZEN", ~IdentityProblem
  PROVE  AllReported
<1>0. Matched
  BY ParsedIsMatched
<1>1. \A k \in DOMAIN Interrupts : \E n \in DOMAIN evidence.interruptions : evidence.interruptions[n].id = k
  BY IdsMatch DEF Parses, InterruptionsBind
<1>2. \A n \in DOMAIN evidence.interruptions : Reported(n)
  <2>1. TAKE n \in DOMAIN evidence.interruptions
  <2>2. PICK e \in InterruptionItems : e = evidence.interruptions[n]
    BY Domains
  <2>3. e.task = Interrupts[e.id]
    BY <2>2 DEF IdentityProblem
  <2>4. e.linked /\ e.id \in DOMAIN ProofFor(e.task).recovery /\ e.outcome = ProofFor(e.task).outcome
    BY <2>2 DEF Parses, InterruptionsBind
  <2>5. PICK j \in DOMAIN evidence.proofs : evidence.proofs[j].task = e.task
    BY <1>0, <2>2 DEF Matched, InterruptionItems
  <2>6. ProofFor(e.task) = evidence.proofs[j]
    BY <1>0, <2>5, FoundByTask
  <2> QED
    BY <2>2, <2>3, <2>4, <2>5, <2>6 DEF Reported
<1> QED
  BY <1>1, <1>2 DEF AllReported

(* The proof of a task has the links of the task's interruptions.            *)
LEMMA ReportedIsBacked ==
  ASSUME EvidenceFits, Matched, AllReported, NEW j \in DOMAIN evidence.proofs, NEW k \in DOMAIN evidence.proofs[j].recovery
  PROVE  /\ Interrupts[k] = evidence.proofs[j].task
         /\ \E n \in DOMAIN evidence.interruptions :
               LET e == evidence.interruptions[n] IN
               e.id = k /\ e.task = evidence.proofs[j].task /\ e.linked /\ e.outcome = evidence.proofs[j].outcome
<1>1. k \in DOMAIN Interrupts
  BY LinkOfOwnProof
<1>2. PICK n \in DOMAIN evidence.interruptions : evidence.interruptions[n].id = k
  BY <1>1 DEF AllReported
<1>3. PICK e : e = evidence.interruptions[n]
  OBVIOUS
<1>4. Reported(n)
  BY DEF AllReported
<1>5. PICK i \in DOMAIN evidence.proofs :
         /\ evidence.proofs[i].task = e.task /\ k \in DOMAIN evidence.proofs[i].recovery
         /\ e.outcome = evidence.proofs[i].outcome
  BY <1>2, <1>3, <1>4 DEF Reported
<1>6. i = j
  BY <1>5, LinkOfOwnProof
<1> QED
  BY <1>2, <1>3, <1>4, <1>5, <1>6 DEF Reported

LEMMA ProvenIsReported ==
  ASSUME EvidenceFits, Proven
  PROVE  AllReported /\ \A n \in DOMAIN evidence.interruptions : evidence.interruptions[n].preserved
<1>0. Matched
  BY ProvenIsMatched
<1>1. ASSUME NEW k \in DOMAIN Interrupts
      PROVE  \E n \in DOMAIN evidence.interruptions :
                evidence.interruptions[n].id = k /\ Reported(n) /\ evidence.interruptions[n].preserved
  <2>1. PICK i \in DOMAIN evidence.proofs : k \in DOMAIN evidence.proofs[i].recovery
    BY <1>0, EveryLinkIsHeld
  <2>2. PICK t \in Frozen : t = evidence.proofs[i].task
    BY Domains DEF ProofItems
  <2>3. Backed(t)
    BY DEF Proven
  <2>4. PICK j \in DOMAIN evidence.proofs :
           /\ evidence.proofs[j].task = t
           /\ \A l \in DOMAIN evidence.proofs[j].recovery :
                 /\ Interrupts[l] = t
                 /\ \E n \in DOMAIN evidence.interruptions :
                       LET e == evidence.interruptions[n] IN
                       e.id = l /\ e.task = t /\ e.linked /\ e.preserved /\ e.outcome = evidence.proofs[j].outcome
    BY <2>3 DEF Backed
  <2>5. i = j
    BY <1>0, <2>2, <2>4 DEF Matched, Distinct
  <2>6. PICK n \in DOMAIN evidence.interruptions :
           LET e == evidence.interruptions[n] IN
           e.id = k /\ e.task = t /\ e.linked /\ e.preserved /\ e.outcome = evidence.proofs[i].outcome
    BY <2>1, <2>4, <2>5
  <2>7. Interrupts[k] = t
    BY <2>1, <2>4, <2>5
  <2> QED
    BY <2>1, <2>2, <2>6, <2>7 DEF Reported
<1>2. \A m, n \in DOMAIN evidence.interruptions : evidence.interruptions[m].id = evidence.interruptions[n].id => m = n
  BY <1>1, IdsMatch
<1>3. ASSUME NEW m \in DOMAIN evidence.interruptions
      PROVE  Reported(m) /\ evidence.interruptions[m].preserved
  <2>1. PICK k \in DOMAIN Interrupts : k = evidence.interruptions[m].id
    BY Domains DEF InterruptionItems
  <2>2. PICK n \in DOMAIN evidence.interruptions :
           evidence.interruptions[n].id = k /\ Reported(n) /\ evidence.interruptions[n].preserved
    BY <1>1
  <2>3. m = n
    BY <1>2, <2>1, <2>2
  <2> QED
    BY <2>2, <2>3
<1> QED
  BY <1>1, <1>3 DEF AllReported

LEMMA ComparatorTotals ==
  ASSUME EvidenceFits
  PROVE  /\ Total(evidence.comparators, "facts") \in Nat /\ Total(evidence.comparators, "captured") \in Nat
         /\ Total(evidence.comparators, "rawSteps") \in Nat /\ Total(evidence.comparators, "steps") \in Nat
         /\ Total(evidence.comparators, "requests") \in Nat
<1>1. PICK c, n : c = evidence.comparators /\ n = Cardinality(PairedTasks)
  OBVIOUS
<1>2. n \in Nat /\ DOMAIN c = 1..n /\ \A i \in 1..n : c[i] \in ComparatorItems
  BY <1>1, FrozenCounts, Domains
<1>3. \A f \in {"facts", "captured", "rawSteps", "steps", "requests"} : \A i \in 1..n : c[i][f] \in Nat
  <2>1. TAKE f \in {"facts", "captured", "rawSteps", "steps", "requests"}
  <2>2. TAKE i \in 1..n
  <2>3. PICK x \in ComparatorItems : x = c[i]
    BY <1>2
  <2>4. x.facts \in Nat /\ x.captured \in Nat /\ x.rawSteps \in Nat /\ x.steps \in Nat /\ x.requests \in Nat
    BY DEF ComparatorItems
  <2> QED
    BY <2>3, <2>4
<1>4. \A f \in {"facts", "captured", "rawSteps", "steps", "requests"} : Total(c, f) \in Nat
  BY <1>2, <1>3, TotalIsNumber
<1> QED
  BY <1>1, <1>4

LEMMA EnoughFacts ==
  ASSUME EvidenceFits
  PROVE  LET C == evidence.comparators IN
         /\ FewFacts <=> ~(20 * (Total(C, "facts") - Total(C, "captured")) <= Total(C, "facts"))
         /\ LittleSaved <=> ~(Total(C, "rawSteps") > 0 /\ 10 * Total(C, "steps") <= 7 * Total(C, "rawSteps"))
<1>1. PICK f \in Nat, c \in Nat, r \in Nat, s \in Nat :
         /\ f = Total(evidence.comparators, "facts") /\ c = Total(evidence.comparators, "captured")
         /\ r = Total(evidence.comparators, "rawSteps") /\ s = Total(evidence.comparators, "steps")
  BY ComparatorTotals
<1>2. FewFacts <=> 100 * c < 95 * f
  BY <1>1 DEF FewFacts
<1>3. LittleSaved <=> (r = 0 \/ 10 * r < 3 * r + 10 * s)
  BY <1>1 DEF LittleSaved
<1>4. 100 * c < 95 * f <=> ~(20 * (f - c) <= f)
  OBVIOUS
<1>5. (r = 0 \/ 10 * r < 3 * r + 10 * s) <=> ~(r > 0 /\ 10 * s <= 7 * r)
  OBVIOUS
<1> QED
  BY <1>1, <1>2, <1>3, <1>4, <1>5

LEMMA ResultsSpend ==
  ASSUME EvidenceFits, Matched
  PROVE  Total(evidence.results, "requests") \in Nat /\ Total(evidence.proofs, "requests") \in Nat
<1>1. PICK r, p, n : r = evidence.results /\ p = evidence.proofs /\ n = Cardinality(Frozen)
  OBVIOUS
<1>2. n \in Nat /\ DOMAIN r = 1..n /\ DOMAIN p = 1..n
  BY <1>1, FrozenCounts, Domains DEF Matched
<1>3. \A i \in 1..n : r[i]["requests"] \in Nat
  BY <1>1, <1>2, Domains DEF ResultItems
<1>4. \A i \in 1..n : p[i]["requests"] \in Nat
  BY <1>1, <1>2, Domains DEF ProofItems
<1>5. Total(r, "requests") \in Nat
  BY <1>2, <1>3, TotalIsNumber
<1>6. Total(p, "requests") \in Nat
  BY <1>2, <1>4, TotalIsNumber
<1> QED
  BY <1>1, <1>5, <1>6

(* What is not refused is proven ...                                         *)
LEMMA AcceptedIsProven ==
  ASSUME EvaluationInv, verdict # "NONE", Parses, plan # "INVALID", ~ZeroToleranceFailure,
         ~IdentityProblem, ~ArchiveProblem, ~MissingEvidence
  PROVE  Proven
<1>0. EvidenceFits /\ plan = "FROZEN" /\ handle = "EXACT" /\ evidence.missing = {} /\ evidence.broken = {}
  BY DEF EvaluationInv, MissingEvidence, ArchiveProblem, ZeroToleranceFailure
<1>1. Matched
  BY <1>0, ParsedIsMatched
<1>2. AllReported
  BY <1>0, ParsedIsReported
<1>3. ASSUME NEW i \in DOMAIN evidence.results, NEW j \in DOMAIN evidence.proofs,
             evidence.results[i].task = evidence.proofs[j].task
      PROVE  LET r == evidence.results[i]
                 p == evidence.proofs[j]
             IN /\ r.outcome = p.outcome /\ r.requests = p.requests /\ r.expected = FrozenTasks[r.task].expects
                /\ p.mode = FrozenTasks[r.task].mode
  <2>1. PICK t \in Frozen : t = evidence.results[i].task /\ t = evidence.proofs[j].task
    BY <1>0, <1>3, Domains DEF ResultItems
  <2>2. ResultFor(t) = evidence.results[i] /\ ProofFor(t) = evidence.proofs[j]
    BY <1>0, <1>1, <2>1, FoundByTask
  <2>3. /\ ResultFor(t).expected = FrozenTasks[t].expects
        /\ ResultFor(t).outcome = ProofFor(t).outcome /\ ResultFor(t).requests = ProofFor(t).requests
    BY DEF Parses, ResultsDerive
  <2>4. evidence.proofs[j].mode = FrozenTasks[t].mode
    BY <1>1, <2>1 DEF Matched
  <2> QED
    BY <2>1, <2>2, <2>3, <2>4
<1>4. ASSUME NEW t \in Frozen PROVE Backed(t)
  <2>1. PICK i \in DOMAIN evidence.results : evidence.results[i].task = t
    BY <1>1 DEF Matched
  <2>2. PICK j \in DOMAIN evidence.proofs : evidence.proofs[j].task = t
    BY <1>1 DEF Matched
  <2>3. PICK r \in ResultItems, p \in ProofItems : r = evidence.results[i] /\ p = evidence.proofs[j]
    BY <1>0, Domains
  <2>4. /\ r.task = t /\ p.task = t /\ p.mode = FrozenTasks[t].mode
        /\ r.outcome = p.outcome /\ r.requests = p.requests /\ r.expected = FrozenTasks[t].expects
    BY <1>3, <2>1, <2>2, <2>3
  <2>5. r.preserved /\ r.requests > 0
    BY <2>3 DEF ZeroToleranceFailure, ResultItems
  <2>6. r.outcome = "READY" => FrozenTasks[t].expects = "READY"
    <3>1. SUFFICES ASSUME r.outcome = "READY" PROVE FrozenTasks[t].expects = "READY"
      OBVIOUS
    <3>2. p.outcome \in Outcomes(p.mode) /\ p.mode \in {"QUICK", "MANAGED"}
      BY <1>0, <2>3 DEF EvidenceFits, ProofsFitModes, ProofItems
    <3>3. p.mode = "MANAGED"
      BY <2>4, <3>1, <3>2 DEF Outcomes
    <3>4. t \in OfMode("MANAGED")
      BY <2>4, <3>3 DEF OfMode
    <3> QED
      BY <2>3, <2>4, <3>1, <3>4 DEF ZeroToleranceFailure, FalseReady
  <2>7. ASSUME NEW k \in DOMAIN p.recovery
        PROVE  /\ Interrupts[k] = t
               /\ \E n \in DOMAIN evidence.interruptions :
                     LET e == evidence.interruptions[n] IN
                     e.id = k /\ e.task = t /\ e.linked /\ e.preserved /\ e.outcome = p.outcome
    <3>1. /\ Interrupts[k] = evidence.proofs[j].task
          /\ \E n \in DOMAIN evidence.interruptions :
                LET e == evidence.interruptions[n] IN
                e.id = k /\ e.task = evidence.proofs[j].task /\ e.linked /\ e.outcome = evidence.proofs[j].outcome
      BY <1>0, <1>1, <1>2, <2>3, ReportedIsBacked
    <3>2. PICK n \in DOMAIN evidence.interruptions :
             LET e == evidence.interruptions[n] IN e.id = k /\ e.task = t /\ e.linked /\ e.outcome = p.outcome
      BY <2>2, <2>3, <3>1
    <3>3. evidence.interruptions[n].preserved
      BY DEF ZeroToleranceFailure
    <3> QED
      BY <2>2, <3>1, <3>2, <3>3
  <2> HIDE DEF OfMode
  <2>8. /\ r.task = t /\ p.task = t /\ p.mode = FrozenTasks[t].mode
        /\ r.outcome = p.outcome /\ r.requests = p.requests
        /\ r.preserved /\ r.requests > 0 /\ r.expected = FrozenTasks[t].expects
        /\ r.outcome = "READY" => FrozenTasks[t].expects = "READY"
    BY <2>4, <2>5, <2>6
  <2> QED
    BY <2>3, <2>7, <2>8 DEF Backed
<1>5. Worth
  <2>1. {evidence.comparators[i].task : i \in DOMAIN evidence.comparators} = PairedTasks
    BY <1>0 DEF IdentityProblem, TaskIds
  <2>2. ASSUME NEW i \in DOMAIN evidence.comparators
        PROVE  evidence.comparators[i].bound /\ evidence.comparators[i].raw <= evidence.comparators[i].captured
    <3>1. PICK c \in ComparatorItems : c = evidence.comparators[i]
      BY <1>0, Domains
    <3>2. ~(c.captured < c.raw) /\ c.bound
      BY <3>1 DEF IdentityProblem, Parses, ComparatorsBind
    <3>3. c.captured \in Nat /\ c.raw \in Nat
      BY DEF ComparatorItems
    <3> QED
      BY <3>1, <3>2, <3>3
  <2>3. ~FewFacts /\ (~LittleSaved \/ \E i \in DOMAIN evidence.comparators : evidence.comparators[i].contained)
    BY DEF ZeroToleranceFailure
  <2> QED
    BY <1>0, <2>1, <2>2, <2>3, EnoughFacts DEF Worth
<1>6. Total(evidence.proofs, "requests") + Total(evidence.comparators, "requests") <= MaxRequests
  <2>1. Total(evidence.results, "requests") = Total(evidence.proofs, "requests")
    BY <1>0, <1>1, <1>3, SpentAlike
  <2>2. ~(Requests > MaxRequests)
    BY <1>0 DEF ZeroToleranceFailure, Authorised
  <2>3. MaxRequests \in Nat
    BY EvaluationAssumption DEF EvaluationAssumption
  <2> QED
    BY <1>0, <1>1, <2>1, <2>2, <2>3, ResultsSpend, ComparatorTotals DEF Requests
<1>7. evidence.planned /\ evidence.limit = MaxRequests /\ evidence.consistent
  BY <1>0 DEF IdentityProblem, Parses
<1>8. Len(evidence.proofs) = Cardinality(Frozen)
  BY <1>1 DEF Matched
<1> QED
  BY <1>0, <1>4, <1>5, <1>6, <1>7, <1>8 DEF Proven

(* ... and what is proven is not refused: it is valid by the schema, ...     *)
LEMMA BackedByOwn ==
  ASSUME EvidenceFits, Proven, NEW i \in DOMAIN evidence.results, NEW j \in DOMAIN evidence.proofs,
         evidence.results[i].task = evidence.proofs[j].task
  PROVE  LET r == evidence.results[i]
             p == evidence.proofs[j]
         IN /\ r.outcome = p.outcome /\ r.requests = p.requests /\ r.expected = FrozenTasks[r.task].expects
            /\ r.preserved /\ r.requests > 0
            /\ r.outcome = "READY" => r.expected = "READY"
<1>1. Matched
  BY ProvenIsMatched
<1>2. PICK t \in Frozen : t = evidence.results[i].task
  BY Domains DEF ResultItems
<1>3. Backed(t)
  BY DEF Proven
<1>4. PICK m \in DOMAIN evidence.results : \E n \in DOMAIN evidence.proofs :
         LET r == evidence.results[m]
             p == evidence.proofs[n]
         IN /\ r.task = t /\ p.task = t
            /\ r.outcome = p.outcome /\ r.requests = p.requests
            /\ r.preserved /\ r.requests > 0 /\ r.expected = FrozenTasks[t].expects
            /\ r.outcome = "READY" => FrozenTasks[t].expects = "READY"
  BY <1>3 DEF Backed
<1>5. PICK n \in DOMAIN evidence.proofs :
         LET r == evidence.results[m]
             p == evidence.proofs[n]
         IN /\ r.task = t /\ p.task = t
            /\ r.outcome = p.outcome /\ r.requests = p.requests
            /\ r.preserved /\ r.requests > 0 /\ r.expected = FrozenTasks[t].expects
            /\ r.outcome = "READY" => FrozenTasks[t].expects = "READY"
  BY <1>4
<1>6. m = i
  BY <1>1, <1>2, <1>5 DEF Matched, Distinct
<1>7. n = j
  BY <1>1, <1>2, <1>5 DEF Matched, Distinct
<1> QED
  BY <1>2, <1>5, <1>6, <1>7

LEMMA ProvenParses ==
  ASSUME EvidenceFits, Proven
  PROVE  Parses
<1>1. Matched
  BY ProvenIsMatched
<1>2. AllReported
  BY ProvenIsReported
<1>3. ASSUME NEW mode \in {"QUICK", "MANAGED"}
      PROVE  Distinct(evidence.proofs, ProofsOf(mode)) /\ Cardinality(ProofsOf(mode)) = Cardinality(OfMode(mode))
  <2>1. PICK S, T : S = ProofsOf(mode) /\ T = OfMode(mode)
    OBVIOUS
  <2>2. PICK key : key = [j \in S |-> evidence.proofs[j].task]
    OBVIOUS
  <2>3. \A j \in S : j \in DOMAIN evidence.proofs /\ evidence.proofs[j].mode = mode
    BY <2>1 DEF ProofsOf
  <2>4. key \in [S -> T]
    BY <1>1, <2>1, <2>2, <2>3, Domains DEF Matched, OfMode, ProofItems
  <2>5. \A i, j \in S : key[i] = key[j] => i = j
    BY <1>1, <2>2, <2>3 DEF Matched, Distinct
  <2>6. \A t \in T : \E j \in S : key[j] = t
    <3>1. TAKE t \in T
    <3>2. t \in Frozen /\ FrozenTasks[t].mode = mode
      BY <2>1 DEF OfMode
    <3>3. PICK j \in DOMAIN evidence.proofs : evidence.proofs[j].task = t
      BY <1>1, <3>2 DEF Matched
    <3>4. j \in S
      BY <1>1, <2>1, <3>2, <3>3 DEF Matched, ProofsOf
    <3> QED
      BY <2>2, <3>3, <3>4
  <2>7. IsFiniteSet(T)
    BY <2>1, ModeCounts
  <2>8. Cardinality(S) = Cardinality(T)
    BY <2>4, <2>5, <2>6, <2>7, KeyedCount
  <2>9. Distinct(evidence.proofs, S)
    BY <1>1, <2>3 DEF Matched, Distinct
  <2> QED
    BY <2>1, <2>8, <2>9
<1>4. ASSUME NEW t \in Frozen
      PROVE  /\ t \in TaskIds(evidence.results, DOMAIN evidence.results)
             /\ \A m \in {"QUICK", "MANAGED"} : t \in TaskIds(evidence.proofs, ProofsOf(m)) <=> m = FrozenTasks[t].mode
             /\ ResultFor(t).expected = FrozenTasks[t].expects
             /\ ResultFor(t).outcome = ProofFor(t).outcome /\ ResultFor(t).requests = ProofFor(t).requests
  <2>1. PICK i \in DOMAIN evidence.results : evidence.results[i].task = t
    BY <1>1 DEF Matched
  <2>2. PICK j \in DOMAIN evidence.proofs : evidence.proofs[j].task = t
    BY <1>1 DEF Matched
  <2>3. t \in TaskIds(evidence.results, DOMAIN evidence.results)
    BY <2>1 DEF TaskIds
  <2>4. ASSUME NEW m \in {"QUICK", "MANAGED"}
        PROVE  t \in TaskIds(evidence.proofs, ProofsOf(m)) <=> m = FrozenTasks[t].mode
    <3>1. ASSUME t \in TaskIds(evidence.proofs, ProofsOf(m)) PROVE m = FrozenTasks[t].mode
      <4>1. PICK n \in ProofsOf(m) : evidence.proofs[n].task = t
        BY <3>1 DEF TaskIds
      <4> QED
        BY <1>1, <4>1 DEF Matched, ProofsOf
    <3>2. ASSUME m = FrozenTasks[t].mode PROVE t \in TaskIds(evidence.proofs, ProofsOf(m))
      <4>1. j \in ProofsOf(m)
        BY <1>1, <2>2, <3>2 DEF Matched, ProofsOf
      <4> QED
        BY <2>2, <4>1 DEF TaskIds
    <3> QED
      BY <3>1, <3>2
  <2>5. ResultFor(t) = evidence.results[i] /\ ProofFor(t) = evidence.proofs[j]
    BY <1>1, <2>1, <2>2, FoundByTask
  <2>6. /\ evidence.results[i].outcome = evidence.proofs[j].outcome
        /\ evidence.results[i].requests = evidence.proofs[j].requests
        /\ evidence.results[i].expected = FrozenTasks[t].expects
    BY <2>1, <2>2, BackedByOwn
  <2> QED
    BY <2>3, <2>4, <2>5, <2>6
<1>5. ResultsDerive
  BY <1>1, <1>3, <1>4 DEF ResultsDerive, Matched
<1>6. InterruptionsBind
  <2>1. \A m, n \in DOMAIN evidence.interruptions : evidence.interruptions[m].id = evidence.interruptions[n].id => m = n
    BY <1>2, IdsMatch DEF AllReported
  <2>2. ASSUME NEW n \in DOMAIN evidence.interruptions
        PROVE  LET e == evidence.interruptions[n] IN
               /\ e.task \in OfMode("MANAGED") /\ e.linked /\ e.id \in DOMAIN ProofFor(e.task).recovery
               /\ e.outcome = ProofFor(e.task).outcome
    <3>1. PICK e \in InterruptionItems : e = evidence.interruptions[n]
      BY Domains
    <3>2. Reported(n)
      BY <1>2 DEF AllReported
    <3>3. e.task = Interrupts[e.id] /\ e.linked
      BY <3>1, <3>2 DEF Reported
    <3>4. PICK j \in DOMAIN evidence.proofs :
             /\ evidence.proofs[j].task = e.task /\ e.id \in DOMAIN evidence.proofs[j].recovery
             /\ e.outcome = evidence.proofs[j].outcome
      BY <3>1, <3>2 DEF Reported
    <3>5. ProofFor(e.task) = evidence.proofs[j]
      BY <1>1, <3>4, FoundByTask
    <3>6. e.task \in OfMode("MANAGED")
      BY <3>3, EvaluationAssumption DEF EvaluationAssumption, InterruptionItems
    <3> QED
      BY <3>1, <3>3, <3>4, <3>5, <3>6
  <2> QED
    BY <2>1, <2>2 DEF InterruptionsBind
<1>7. ComparatorsBind
  <2>1. PICK T, n, D, s : T = PairedTasks /\ n = Cardinality(T) /\ D = 1..n /\ s = evidence.comparators
    OBVIOUS
  <2>2. IsFiniteSet(T) /\ DOMAIN s = D
    BY <2>1, FrozenCounts, Domains
  <2>3. {s[i].task : i \in D} = T
    BY <2>1, <2>2 DEF Proven, Worth
  <2>4. AllOf(s, D, T) /\ EachIn(T, s, D)
    BY <2>3 DEF AllOf, EachIn
  <2>5. Distinct(s, D)
    BY <2>1, <2>2, <2>4, TasksMatch
  <2>6. ASSUME NEW i \in DOMAIN s PROVE s[i].bound /\ s[i].captured <= s[i].facts /\ s[i].raw <= s[i].facts
    <3>1. PICK c \in ComparatorItems : c = s[i]
      BY <2>1, <2>2, Domains
    <3>2. c.captured <= c.facts /\ c.raw <= c.facts
      BY DEF ComparatorItems
    <3>3. s[i].bound
      BY <2>1, <2>2 DEF Proven, Worth
    <3> QED
      BY <3>1, <3>2, <3>3
  <2> QED
    BY <2>1, <2>2, <2>5, <2>6 DEF ComparatorsBind
<1> QED
  BY <1>5, <1>6, <1>7 DEF Parses, Proven

(* ... and has no failure that is not tolerated, nor a wrong identity.       *)
LEMMA ProvenIsAccepted ==
  ASSUME EvidenceFits, Proven
  PROVE  ~ZeroToleranceFailure /\ ~IdentityProblem /\ ~ArchiveProblem /\ ~MissingEvidence
<1>1. Matched
  BY ProvenIsMatched
<1>2. AllReported /\ \A n \in DOMAIN evidence.interruptions : evidence.interruptions[n].preserved
  BY ProvenIsReported
<1>3. ASSUME NEW i \in DOMAIN evidence.results
      PROVE  /\ evidence.results[i].preserved /\ evidence.results[i].requests # 0
             /\ ~(evidence.results[i].outcome = "READY" /\ evidence.results[i].expected # "READY")
  <2>1. evidence.results[i].task \in Frozen /\ evidence.results[i].requests \in Nat
    BY Domains DEF ResultItems
  <2>2. PICK j \in DOMAIN evidence.proofs : evidence.proofs[j].task = evidence.results[i].task
    BY <1>1, <2>1 DEF Matched
  <2>3. /\ evidence.results[i].preserved /\ evidence.results[i].requests > 0
        /\ evidence.results[i].outcome = "READY" => evidence.results[i].expected = "READY"
    BY <2>2, BackedByOwn
  <2> QED
    BY <2>1, <2>3
<1>4. Requests <= MaxRequests /\ Authorised = MaxRequests
  <2>1. ASSUME NEW i \in DOMAIN evidence.results, NEW j \in DOMAIN evidence.proofs,
               evidence.results[i].task = evidence.proofs[j].task
        PROVE  evidence.results[i].requests = evidence.proofs[j].requests
    BY <2>1, BackedByOwn
  <2>2. Total(evidence.results, "requests") = Total(evidence.proofs, "requests")
    BY <1>1, <2>1, SpentAlike
  <2> QED
    BY <2>2 DEF Requests, Proven, Authorised
<1>5. ~FalseReady
  BY <1>3 DEF FalseReady
<1>6. ~FewFacts /\ (~LittleSaved \/ \E i \in DOMAIN evidence.comparators : evidence.comparators[i].contained)
  BY EnoughFacts DEF Proven, Worth
<1>7. ~(Requests > Authorised)
  <2>1. Requests \in Nat /\ MaxRequests \in Nat
    BY <1>1, ResultsSpend, ComparatorTotals, EvaluationAssumption DEF Requests, EvaluationAssumption
  <2> QED
    BY <1>4, <2>1
<1>8. ~ZeroToleranceFailure
  BY <1>2, <1>3, <1>5, <1>6, <1>7 DEF ZeroToleranceFailure, Proven
<1>9. ~IdentityProblem
  <2>1. ASSUME NEW i \in DOMAIN evidence.comparators
        PROVE  ~(evidence.comparators[i].captured < evidence.comparators[i].raw)
    <3>1. PICK c \in ComparatorItems : c = evidence.comparators[i]
      BY Domains
    <3>2. c.captured \in Nat /\ c.raw \in Nat /\ c.raw <= c.captured
      BY <3>1 DEF ComparatorItems, Proven, Worth
    <3> QED
      BY <3>1, <3>2
  <2>2. \A n \in DOMAIN evidence.interruptions : Interrupts[evidence.interruptions[n].id] = evidence.interruptions[n].task
    BY <1>2 DEF AllReported, Reported
  <2>3. TaskIds(evidence.comparators, DOMAIN evidence.comparators) = PairedTasks
    BY DEF Proven, Worth, TaskIds
  <2> QED
    BY <2>1, <2>2, <2>3 DEF IdentityProblem, Proven
<1> QED
  BY <1>8, <1>9 DEF ArchiveProblem, MissingEvidence, Proven

(* The targets are met exactly when none is missed.                          *)
LEMMA CorrectCount ==
  ASSUME EvidenceFits
  PROVE  LET wrong == Cardinality({i \in DOMAIN evidence.results : evidence.results[i].outcome # evidence.results[i].expected})
         IN Correct < Cardinality(Frozen) - 1 <=> ~(wrong <= 1)
<1>1. PICK n \in Nat : n = Cardinality(Frozen) /\ DOMAIN evidence.results = 1..n
  BY FrozenCounts, Domains
<1>2. PICK S, A, B : /\ S = 1..n
                     /\ A = {i \in DOMAIN evidence.results : evidence.results[i].outcome = evidence.results[i].expected}
                     /\ B = {i \in DOMAIN evidence.results : evidence.results[i].outcome # evidence.results[i].expected}
  OBVIOUS
<1>3. S = A \cup B /\ A \cap B = {} /\ IsFiniteSet(S) /\ Cardinality(S) = n
  BY <1>1, <1>2, IntervalCount
<1>4. PICK a \in Nat, b \in Nat : a = Cardinality(A) /\ b = Cardinality(B) /\ n = a + b
  BY <1>3, SplitCount
<1>5. a < n - 1 <=> ~(b <= 1)
  BY <1>4
<1> QED
  BY <1>1, <1>2, <1>4, <1>5 DEF Correct

LEMMA ResumedCount ==
  ASSUME EvidenceFits, \A n \in DOMAIN evidence.interruptions : evidence.interruptions[n].preserved
  PROVE  Resumed < 2 <=>
         ~\E i, j \in DOMAIN evidence.interruptions :
             /\ RecoveryOf(evidence.interruptions[i]) # RecoveryOf(evidence.interruptions[j])
             /\ \A n \in {i, j} : evidence.interruptions[n].outcome = "READY"
<1>1. PICK n \in Nat : n = Cardinality(DOMAIN Interrupts) /\ DOMAIN evidence.interruptions = 1..n
  BY FrozenCounts, Domains
<1>2. PICK R : R = ReadyInterruptions
  OBVIOUS
<1>3. R = {i \in 1..n : evidence.interruptions[i].outcome = "READY"}
  BY <1>1, <1>2 DEF ReadyInterruptions
<1>4. IsFiniteSet(R)
  <2>1. PICK D : D = 1..n
    OBVIOUS
  <2>2. IsFiniteSet(D) /\ R \in SUBSET D
    BY <1>3, <2>1, IntervalCount
  <2> QED
    BY <2>2, FS_Subset
<1>5. PICK f : f = [i \in R |-> RecoveryOf(evidence.interruptions[i])]
  OBVIOUS
<1>6. PICK S : S = {f[i] : i \in R}
  OBVIOUS
<1>7. IsFiniteSet(S)
  <2>1. f \in Surjection(R, S)
    BY <1>5, <1>6 DEF Surjection
  <2> QED
    BY <2>1, <1>4, FS_Surjection
<1>8. Cardinality(S) < 2 <=> \A x, y \in S : x = y
  BY <1>7, TwoOf
<1>9. S = {RecoveryOf(evidence.interruptions[i]) : i \in R}
  BY <1>5, <1>6
<1>10. Resumed = Cardinality(S)
  BY <1>2, <1>9 DEF Resumed
<1>11. (\A x, y \in S : x = y) <=>
         \A i, j \in R : RecoveryOf(evidence.interruptions[i]) = RecoveryOf(evidence.interruptions[j])
  BY <1>9
<1> QED
  BY <1>1, <1>3, <1>8, <1>10, <1>11

LEMMA SamplesRank ==
  ASSUME EvidenceFits, NEW m \in DOMAIN evidence.over
  PROVE  P95(SamplesOf(m)) > 1 <=> ~(20 * evidence.over[m] <= Samples)
<1>1. PICK n \in Nat \ {0} : n = Samples
  BY EvaluationAssumption DEF EvaluationAssumption
<1>2. PICK over \in Nat : over = evidence.over[m]
  BY ItemsFit DEF EvidenceShapes
<1>3. PICK s : s = SamplesOf(m)
  OBVIOUS
<1>4. s = [i \in 1..n |-> IF i <= over THEN 2 ELSE 1]
  BY <1>1, <1>2, <1>3 DEF SamplesOf
<1>5. s \in [1..n -> {1, 2}] /\ Len(s) = n
  BY <1>4
<1>6. PICK rank : rank = (19 * n + 19) \div 20
  OBVIOUS
<1>7. rank \in 1..n /\ 19 * n <= 20 * rank /\ 20 * rank <= 19 * n + 19
  BY <1>6
<1>8. PICK high : high = Cardinality({i \in 1..n : s[i] > 1})
  OBVIOUS
<1>9. high = IF over <= n THEN over ELSE n
  <2>1. PICK k \in Nat : k = IF over <= n THEN over ELSE n
    OBVIOUS
  <2>2. {i \in 1..n : s[i] > 1} = 1..k
    BY <1>4, <2>1
  <2> QED
    BY <1>8, <2>1, <2>2, IntervalCount
<1>10. NearestRank(s, rank) > 1 <=> n - high < rank
  BY <1>5, <1>7, <1>8, RankIsOver
<1>11. n - high < rank <=> ~(20 * over <= n)
  BY <1>7, <1>9
<1> QED
  BY <1>1, <1>2, <1>3, <1>5, <1>6, <1>10, <1>11 DEF P95

LEMMA OverheadRank ==
  ASSUME EvidenceFits
  PROVE  LET high == Cardinality({i \in DOMAIN evidence.comparators : evidence.comparators[i].overhead > 1})
         IN Median(Overheads) > 1 <=> ~(2 * high < Len(evidence.comparators))
<1>1. PICK n \in Nat \ {0} : n = Cardinality(PairedTasks) /\ DOMAIN evidence.comparators = 1..n
                             /\ n = Len(evidence.comparators)
  BY FrozenCounts, Domains DEF EvidenceFits, ListsKeepLength
<1>2. PICK s : s = Overheads
  OBVIOUS
<1>3. s = [i \in 1..n |-> evidence.comparators[i].overhead]
  BY <1>1, <1>2 DEF Overheads
<1>4. \A i \in 1..n : evidence.comparators[i].overhead \in {1, 2}
  BY <1>1, Domains DEF ComparatorItems
<1>5. s \in [1..n -> {1, 2}] /\ Len(s) = n
  BY <1>3, <1>4
<1>6. PICK rank : rank = n \div 2 + 1
  OBVIOUS
<1>7. rank \in 1..n /\ n < 2 * rank /\ 2 * rank <= n + 2
  BY <1>6
<1>8. PICK high : high = Cardinality({i \in 1..n : s[i] > 1})
  OBVIOUS
<1>9. high \in 0..n /\ (NearestRank(s, rank) > 1 <=> n - high < rank)
  BY <1>5, <1>7, <1>8, RankIsOver
<1>10. n - high < rank <=> ~(2 * high < n)
  BY <1>7, <1>9
<1>11. {i \in 1..n : s[i] > 1} = {i \in DOMAIN evidence.comparators : evidence.comparators[i].overhead > 1}
  BY <1>1, <1>3
<1> QED
  BY <1>1, <1>2, <1>5, <1>6, <1>8, <1>9, <1>10, <1>11 DEF Median

LEMMA TargetsAreExact ==
  ASSUME EvidenceFits, Proven
  PROVE  TargetsMet <=> ~QuantitativeMiss
<1>1. \A n \in DOMAIN evidence.interruptions : evidence.interruptions[n].preserved
  BY ProvenIsReported
<1>2. \A m \in DOMAIN evidence.over : P95(SamplesOf(m)) > 1 <=> ~(20 * evidence.over[m] <= Samples)
  BY SamplesRank
<1> QED
  BY <1>1, <1>2, CorrectCount, ResumedCount, OverheadRank DEF TargetsMet, QuantitativeMiss

LEMMA EvaluationHolds == EvaluationSpec => []EvaluationInv
<1>1. ASSUME EvaluationInv, [EvaluationNext]_evaluationVars PROVE EvaluationInv'
  BY <1>1, SupplyKeeps, DiffKeeps, EvaluateKeeps, EvaluationStutters DEF EvaluationNext
<1> QED
  BY <1>1, InitEvaluation, PTL DEF EvaluationSpec

LEMMA VerdictIsExact == EvaluationInv => EvaluationIsExact
<1> SUFFICES ASSUME EvaluationInv PROVE EvaluationIsExact
  OBVIOUS
<1>1. CASE verdict \in {"NONE", "ASKED"}
  BY <1>1 DEF EvaluationIsExact
<1>2. CASE verdict \notin {"NONE", "ASKED"}
  <2>1. EvidenceFits /\ verdict = Evaluated
    BY <1>2 DEF EvaluationInv
  <2>2. ASSUME Proven PROVE verdict \in {"GO", "REVISE"} /\ (verdict = "GO" <=> TargetsMet)
    <3>1. Parses /\ plan # "INVALID" /\ ~ZeroToleranceFailure /\ ~IdentityProblem /\ ~ArchiveProblem /\ ~MissingEvidence
      BY <2>1, <2>2, ProvenParses, ProvenIsAccepted DEF Proven
    <3>2. TargetsMet <=> ~QuantitativeMiss
      BY <2>1, <2>2, TargetsAreExact
    <3> QED
      BY <2>1, <3>1, <3>2 DEF Evaluated
  <2>3. ASSUME verdict \in {"GO", "REVISE"} PROVE Proven
    <3>1. Parses /\ plan # "INVALID" /\ ~ZeroToleranceFailure /\ ~IdentityProblem /\ ~ArchiveProblem /\ ~MissingEvidence
      BY <2>1, <2>3 DEF Evaluated
    <3> QED
      BY <1>2, <3>1, AcceptedIsProven
  <2> QED
    BY <2>2, <2>3 DEF EvaluationIsExact
<1> QED
  BY <1>1, <1>2

(* A verdict of the evaluator is GO or REVISE exactly when the pilot is      *)
(* proven, and GO exactly when its targets are met too, however the evidence *)
(* was changed before (evaluator.ts evaluate, contracts.ts                   *)
(* pilotEvidenceSchema).                                                     *)
THEOREM EvaluationStaysExact == EvaluationSpec => []EvaluationIsExact
  BY EvaluationHolds, VerdictIsExact, PTL
=============================================================================
