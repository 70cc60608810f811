---------------------------- MODULE PilotCapture ----------------------------
(***************************************************************************)
(* FilePilotCaptureCoordinator (packages/pilot): a capture session collects*)
(* facts into an immutable, chained journal and seals them in an archive.  *)
(* A fact about a task costs Provider usage outside the journal, so the    *)
(* operation that spends it first publishes an intent with its reservation *)
(* of the frozen budget.  Every call loads the whole session under the     *)
(* mutation lock; a quick task or comparator also holds the Provider       *)
(* operation lock from its preparation to its record, a managed task only  *)
(* while it reserves.  Any process may end at any step, also between the   *)
(* link and the unlink of a file it publishes.                             *)
(***************************************************************************)
EXTENDS Naturals, Sequences, FiniteSets

CONSTANTS Runners,      \* processes that capture facts
          Operations,   \* set of [op, kind, fact, needs]: kind is "MANAGED", "QUICK" or "FACT"
          Budget,       \* frozen Provider budget
          MaxUsage      \* bound: what one operation spends

ASSUME CaptureAssumption ==
    /\ Budget \in Nat /\ MaxUsage \in Nat
    /\ \A o \in Operations : o.kind \in {"MANAGED", "QUICK", "FACT"}

VARIABLES chain,       \* journal: sequence of [op, fact, usage]
          intents,      \* published Provider intents: set of [op, fact, before]
          sealed,       \* steps of finalize that are durable: 0 is an open session
          twoLinks,     \* a process ended between link and unlink of a session file
          runner,       \* [Runners -> [pc, o, usage]]
          spending,     \* the runner holding the Provider operation lock, or "NONE"
          spent         \* set of [op, fact, usage, by]: the sends that took place

captureVars == <<chain, intents, sealed, twoLinks, runner, spending, spent>>

NoOperation == [op |-> "NONE", kind |-> "FACT", fact |-> "NONE", needs |-> "NONE"]
IdleRunner == [pc |-> "IDLE", o |-> NoOperation, usage |-> 0]

CaptureInit ==
    /\ chain = <<>> /\ intents = {} /\ sealed = 0 /\ twoLinks = FALSE
    /\ runner = [r \in Runners |-> IdleRunner] /\ spending = "NONE" /\ spent = {}

Facts == {o.fact : o \in Operations}
InChain(op) == \E i \in 1..Len(chain) : chain[i].op = op
HasFact(fact) == \E i \in 1..Len(chain) : chain[i].fact = fact
(* The recorded Provider requests, each named by its event and its number.   *)
RecordedRequests == UNION {{i} \X (1..chain[i].usage) : i \in 1..Len(chain)}
Usage == Cardinality(RecordedRequests)

(* loadCaptureSession: every session file must be an exact, single link.     *)
Loads == ~twoLinks
Open == Loads /\ sealed = 0
Completes(i) == i.before < Len(chain) /\ chain[i.before + 1].op = i.op
Unresolved == {i \in intents : ~Completes(i)}

RunnerTo(r, pc) == runner' = [runner EXCEPT ![r].pc = pc]
RunnerAt(r, pc) == runner[r].pc = pc
Operation(r) == runner[r].o
(* The call returns or throws; its Provider operation lock goes with it.     *)
Ends(r) ==
    /\ runner' = [runner EXCEPT ![r] = IdleRunner]
    /\ spending' = IF spending = r THEN "NONE" ELSE spending

-----------------------------------------------------------------------------
(* Provider operations                                                       *)

\* Mutant: only intents of the same operation stand in the way.
MayPublish_AnyIntent(o) == {i \in intents : i.op = o.op} = {} /\ Usage < Budget
(* publishProviderOperationIntent: nothing unresolved, something left.       *)
MayPublish(o) ==
    /\ Unresolved = {} /\ {i \in intents : i.op = o.op} = {}
    /\ Usage < Budget
Startable(o) ==
    /\ Open /\ ~InChain(o.op) /\ ~HasFact(o.fact)
    /\ o.needs # "NONE" => HasFact(o.needs)
Publishes(o) == intents' = intents \cup {[op |-> o.op, fact |-> o.fact, before |-> Len(chain)]}

OperationBegins(r) ==
    /\ RunnerAt(r, "IDLE")
    /\ \E o \in Operations :
          /\ o.kind = "QUICK" => spending = "NONE"
          /\ spending' = IF o.kind = "QUICK" THEN r ELSE spending
          /\ \E pc \in (CASE o.kind = "MANAGED" -> {"RESERVE", "COLLECT"}
                          [] o.kind = "QUICK" -> {"PREPARE"}
                          [] OTHER -> {"RECORD"}) :
                runner' = [runner EXCEPT ![r] = [pc |-> pc, o |-> o, usage |-> 0]]
    /\ UNCHANGED <<chain, intents, sealed, twoLinks, spent>>

(* reserveManagedProviderOperation, just before the managed run sends.       *)
ReserveManaged(r) ==
    /\ RunnerAt(r, "RESERVE") /\ spending = "NONE"
    /\ IF Startable(Operation(r)) /\ MayPublish(Operation(r))
         THEN Publishes(Operation(r)) /\ RunnerTo(r, "SEND") /\ UNCHANGED spending
         ELSE Ends(r) /\ UNCHANGED intents
    /\ UNCHANGED <<chain, sealed, twoLinks, spent>>
(* recordQuickTask and recordRawComparator: the checks before the process is *)
(* started; a recorded operation is replayed.                                *)
PrepareSend(r) ==
    /\ RunnerAt(r, "PREPARE")
    /\ IF Unresolved = {} /\ Startable(Operation(r)) /\ Usage < Budget
         THEN RunnerTo(r, "AUTHORIZE") /\ UNCHANGED spending
         ELSE Ends(r)
    /\ UNCHANGED <<chain, intents, sealed, twoLinks, spent>>
(* authorizeProviderSend: the session may have moved since.                  *)
AuthorizeSend(r) ==
    /\ RunnerAt(r, "AUTHORIZE")
    /\ IF Startable(Operation(r)) /\ MayPublish(Operation(r))
         THEN Publishes(Operation(r)) /\ RunnerTo(r, "SEND") /\ UNCHANGED spending
         ELSE Ends(r) /\ UNCHANGED intents
    /\ UNCHANGED <<chain, sealed, twoLinks, spent>>
(* The run itself: a managed task ends in its own Archive, which a later     *)
(* command records.                                                          *)
Send(r) ==
    /\ RunnerAt(r, "SEND")
    /\ \E u \in 1..MaxUsage :
          /\ spent' = spent \cup {[op |-> Operation(r).op, fact |-> Operation(r).fact, usage |-> u, by |-> r]}
          /\ runner' = [runner EXCEPT ![r] = IF @.o.kind = "MANAGED" THEN IdleRunner
                                             ELSE [@ EXCEPT !.pc = "RECORD", !.usage = u]]
    /\ UNCHANGED <<chain, intents, sealed, twoLinks, spending>>
(* recordManagedTask: the exact usage from the Run Archive, and the intent.  *)
CollectManaged(r) ==
    /\ RunnerAt(r, "COLLECT")
    /\ \/ \E s \in spent :
             /\ s.op = Operation(r).op
             /\ Open /\ \A i \in Unresolved : i.op = s.op
             /\ \E i \in intents : i.op = s.op /\ i.fact = Operation(r).fact
             /\ runner' = [runner EXCEPT ![r].pc = "RECORD", ![r].usage = s.usage]
             /\ UNCHANGED spending
       \/ Ends(r)
    /\ UNCHANGED <<chain, intents, sealed, twoLinks, spent>>

(* #recordParsed.  A Provider operation completes its own pending intent, by *)
(* the event at the intent's position and within the frozen budget; another  *)
(* fact is recorded only when no intent is pending.                          *)
RecordAccepts(r) ==
    /\ Open
    /\ IF Operation(r).kind = "FACT" THEN Unresolved = {}
       ELSE /\ \A i \in Unresolved : i.op = Operation(r).op
            /\ \E i \in Unresolved : i.fact = Operation(r).fact
    /\ ~InChain(Operation(r).op) /\ ~HasFact(Operation(r).fact)
    /\ Usage + runner[r].usage <= Budget
RecordEvent(r) ==
    /\ RunnerAt(r, "RECORD")
    /\ chain' = IF RecordAccepts(r)
                   THEN Append(chain, [op |-> Operation(r).op, fact |-> Operation(r).fact,
                                        usage |-> runner[r].usage])
                   ELSE chain
    /\ Ends(r)
    /\ UNCHANGED <<intents, sealed, twoLinks, spent>>

-----------------------------------------------------------------------------
(* finalize: intent, the archive's identity receipt, package and commit      *)
(* receipt, the session's commit; each is published once and a later call    *)
(* goes on where an earlier one stopped                                      *)

FinalizeSteps == 5
FinalizeStep ==
    /\ Loads /\ Unresolved = {} /\ sealed < FinalizeSteps
    /\ \A f \in Facts : HasFact(f)
    /\ sealed' = sealed + 1
    /\ UNCHANGED <<chain, intents, twoLinks, runner, spending, spent>>

-----------------------------------------------------------------------------
RunnerKilled(r) ==
    /\ ~RunnerAt(r, "IDLE")
    /\ Ends(r)
    /\ UNCHANGED <<chain, intents, sealed, twoLinks, spent>>
(* A publication whose process ends before it removes its temporary name.    *)
KilledPublishing(r) ==
    /\ ~twoLinks /\ twoLinks' = TRUE
    /\ \/ /\ RunnerAt(r, "RESERVE") \/ RunnerAt(r, "AUTHORIZE")
          /\ RunnerAt(r, "RESERVE") => spending = "NONE"
          /\ Startable(Operation(r)) /\ MayPublish(Operation(r))
          /\ Publishes(Operation(r)) /\ UNCHANGED chain
       \/ /\ RunnerAt(r, "RECORD") /\ RecordAccepts(r)
          /\ chain' = Append(chain, [op |-> Operation(r).op, fact |-> Operation(r).fact,
                                       usage |-> runner[r].usage])
          /\ UNCHANGED intents
    /\ Ends(r)
    /\ UNCHANGED <<sealed, spent>>

CaptureNext ==
    \/ \E r \in Runners : \/ OperationBegins(r) \/ ReserveManaged(r) \/ PrepareSend(r)
                          \/ AuthorizeSend(r) \/ Send(r) \/ CollectManaged(r) \/ RecordEvent(r)
                          \/ RunnerKilled(r) \/ KilledPublishing(r)
    \/ FinalizeStep
CaptureSpec == CaptureInit /\ [][CaptureNext]_captureVars

-----------------------------------------------------------------------------
(* Provider usage is never spent behind the journal's back: a task is sent   *)
(* for once, whoever dies or tries again; at most one send is not recorded   *)
(* yet, and all but that one are within the budget; a sealed session has     *)
(* every send in its evidence (publishProviderOperationIntent,               *)
(* assertNoUnresolvedProviderIntent, #recordParsed, finalize).               *)
SpendingIsAccounted ==
    /\ \A s, t \in spent : s.fact = t.fact => s = t
    /\ Cardinality({s \in spent : ~InChain(s.op)}) <= 1
    /\ Usage <= Budget
    /\ sealed > 0 => \A s \in spent : InChain(s.op)
=============================================================================
