------------------------------ MODULE Adequacy ------------------------------
(***************************************************************************)
(* Whether the verification of an Attempt is adequate                      *)
(* (packages/verification adequacy.ts validateVerificationAdequacy): the   *)
(* nodes of the verification graph and the locks they take, the receipts of*)
(* checks, human gates and reviews, and a fixback batch, each against the  *)
(* Plan Revision.  The behaviour starts from an adequate request, changes  *)
(* it and has it validated, which leaves the decision of the receipt.      *)
(* "current" says that all identities and fingerprints of a receipt match. *)
(***************************************************************************)
EXTENDS Naturals, Sequences, FiniteSets
LOCAL INSTANCE SequencesExt

CONSTANTS PlanChecks,    \* [check -> whether the plan requires it]
          PlanSteps,     \* [step -> [kind, required]], kind "human_gate" or "review"
          LockNames,
          MaxChanges     \* bound: changes of the request

VARIABLES request, changes,
          decision       \* "NONE", "ASKED", then that of the receipt
adequacyVars == <<request, changes, decision>>

Checks == DOMAIN PlanChecks
Steps == DOMAIN PlanSteps
RequiredOf(kind) == {s \in Steps : PlanSteps[s].kind = kind /\ PlanSteps[s].required}
NodeKind(id) ==
    IF id \in Checks THEN "CHECK" ELSE IF PlanSteps[id].kind = "human_gate" THEN "HUMAN_GATE" ELSE "REVIEW"
PlanRequires(id) == IF id \in Checks THEN PlanChecks[id] ELSE PlanSteps[id].required
Node(id) == [id |-> id, kind |-> NodeKind(id), required |-> PlanRequires(id),
             deps |-> IF id \in Checks THEN {} ELSE Checks]

CheckReceipt(c) == [check |-> c, current |-> TRUE, whole |-> TRUE, outcome |-> "PASS"]
GateReceipt(s) == [step |-> s, current |-> TRUE, decision |-> "APPROVED"]
ReviewReceipt(s) == [step |-> s, current |-> TRUE, outcome |-> "PASS", findings |-> {}]
NoBatch == [previous |-> "NONE", new |-> "NONE", focused |-> {}, invalidated |-> {}]
Listed(S) == SetToSeq(S)

AdequacyInit == request = <<>> /\ changes = 0 /\ decision = "NONE"
(* The request of an Attempt that did what its plan asks.                    *)
Submit ==
    /\ decision = "NONE" /\ decision' = "ASKED" /\ UNCHANGED changes
    /\ request' = [nodes |-> [i \in 1..Cardinality(Checks \cup Steps) |->
                                Node(Listed(Checks \cup Steps)[i])],
                  locks |-> <<[node |-> Listed(Checks)[1], lock |-> CHOOSE l \in LockNames : TRUE]>>,
                  selected |-> Listed(Checks), skipped |-> {},
                  receipts |-> [i \in 1..Cardinality(Checks) |-> CheckReceipt(Listed(Checks)[i])],
                  expected |-> Listed(RequiredOf("human_gate")),
                  humans |-> [i \in 1..Cardinality(RequiredOf("human_gate")) |->
                                GateReceipt(Listed(RequiredOf("human_gate"))[i])],
                  reviews |-> [i \in 1..Cardinality(RequiredOf("review")) |->
                                ReviewReceipt(Listed(RequiredOf("review"))[i])],
                  batch |-> NoBatch]

-----------------------------------------------------------------------------
(* validateDAGAndLocks                                                       *)

Finding(severity, code) == [severity |-> severity, code |-> code]
If(condition, severity, code) == IF condition THEN {Finding(severity, code)} ELSE {}
Nodes == ToSet(request.nodes)
Declared == {n.id : n \in Nodes}
NodeOf(id) == request.nodes[CHOOSE i \in DOMAIN request.nodes :
                 request.nodes[i].id = id /\ \A j \in 1..(i - 1) : request.nodes[j].id # id]
DependsOn(id) == IF id \in Declared THEN NodeOf(id).deps ELSE {}

(* Depth first, never twice through a node.                                  *)
RECURSIVE HasPath(_, _, _)
HasPath(start, target, visiting) ==
    \/ start = target
    \/ start \notin visiting /\ \E d \in DependsOn(start) : HasPath(d, target, visiting \cup {start})
RECURSIVE VisitsAgain(_, _)
VisitsAgain(id, visiting) ==
    \/ id \in visiting
    \/ \E d \in DependsOn(id) : VisitsAgain(d, visiting \cup {id})
HasCycle == \E id \in Declared : VisitsAgain(id, {})

Matches(n) ==
    /\ n.id \in Checks \cup Steps
    /\ n.kind = NodeKind(n.id) /\ n.required = PlanRequires(n.id)
NodeFaults ==
    If(Len(request.nodes) # Cardinality(Declared), "P0", "DAG_DUPLICATE_NODE")
    \cup If(\E n \in Nodes : ~Matches(n), "P0", "DAG_MISMATCH")
    \cup If(\E n \in Nodes : ~(n.deps \subseteq Declared), "P0", "DAG_DEPENDENCY_UNKNOWN")
    \cup If(HasCycle, "P0", "DAG_CYCLE")
    \cup If(\E id \in Checks \cup Steps : PlanRequires(id) /\ id \notin Declared, "P0", "DAG_NODE_UNKNOWN")

\* Mutant: a conflict only when each waits for the other.
Unordered_BothWays(left, right) == HasPath(left, right, {}) /\ HasPath(right, left, {})
Unordered(left, right) == HasPath(left, right, {}) = HasPath(right, left, {})
HoldersConflict ==
    \E i, j \in DOMAIN request.locks :
       /\ i < j /\ request.locks[i].lock = request.locks[j].lock
       /\ Unordered(request.locks[i].node, request.locks[j].node)
LockFaults ==
    If(\E i \in DOMAIN request.locks : request.locks[i].node \notin Declared, "P0", "DAG_NODE_UNKNOWN")
    \cup If(HoldersConflict, "P1", "RESOURCE_LOCK_CONFLICT")

-----------------------------------------------------------------------------
(* validateChecks, validateHumanGates, validateReviews, validateFixback      *)

Selected == ToSet(request.selected)
ReceiptsOf(c) == SelectSeq(request.receipts, LAMBDA r : r.check = c)
CurrentOf(c) == SelectSeq(ReceiptsOf(c), LAMBDA r : r.current)
SelectionFaults ==
    If(Len(request.selected) # Cardinality(Selected), "P0", "CHECK_DUPLICATE")
    \cup If(\E c \in Checks : PlanChecks[c] /\ c \notin Selected, "P0", "CHECK_FILTERED")
    \cup If(request.skipped # {}, "P0", "CHECK_SKIPPED")
ReceiptFaults ==
    LET R == ToSet(request.receipts) IN
    If(\E r \in R : r.check \notin Selected, "P1", "CHECK_FILTERED")
    \cup If(\E r \in R : ~r.current, "P0", "CHECK_STALE_REUSE")
    \cup If(\E r \in R : ~r.whole, "P0", "CHECK_TRUNCATED")
    \cup If(\E r \in R : r.outcome # "PASS", "P1", "CHECK_OUTCOME_NOT_PASS")
RunFaults ==
    If(\E c \in Selected : Len(ReceiptsOf(c)) > 1, "P0", "CHECK_DUPLICATE")
    \cup If(\E c \in Selected : CurrentOf(c) = <<>>, "P0", "CHECK_NOT_RUN")
(* Selected, executed and passed counts must agree.                          *)
AccountingFaults ==
    LET executed == {c \in Selected : CurrentOf(c) # <<>>}
        passed == {c \in executed : CurrentOf(c)[1].outcome = "PASS"}
    IN If(passed # Selected, "P0", "ACCOUNTING_MISMATCH")

OfStep(receipts, s) == SelectSeq(receipts, LAMBDA r : r.step = s)
GateFaults ==
    UNION {LET expected == SelectSeq(request.expected, LAMBDA e : e = s)
               humans == OfStep(request.humans, s)
           IN If(expected = <<>>, "P0", "HUMAN_EXPECTATION_MISSING")
              \cup If(Len(expected) > 1, "P0", "HUMAN_EXPECTATION_DUPLICATE")
              \cup If(expected # <<>> /\ humans = <<>>, "P0", "HUMAN_RECEIPT_MISSING")
              \cup (IF expected = <<>> \/ humans = <<>> THEN {} ELSE
                    If(Len(humans) > 1, "P0", "HUMAN_RECEIPT_DUPLICATE")
                    \cup If(~humans[1].current, "P0", "HUMAN_RECEIPT_MISMATCH")
                    \cup If(humans[1].decision # "APPROVED", "P0", "HUMAN_RECEIPT_NOT_APPROVED"))
           : s \in RequiredOf("human_gate")}
    \cup If(\E i \in DOMAIN request.humans : request.humans[i].step \notin RequiredOf("human_gate"),
            "P1", "HUMAN_RECEIPT_UNBOUND")
ReviewFaults ==
    UNION {LET reviews == OfStep(request.reviews, s) IN
           IF reviews = <<>> THEN {Finding("P0", "REVIEW_RECEIPT_MISSING")} ELSE
           If(Len(reviews) > 1, "P0", "REVIEW_RECEIPT_DUPLICATE")
           \cup If(~reviews[1].current, "P0", "REVIEW_RECEIPT_STALE")
           \cup If(reviews[1].outcome # "PASS", "P1", "REVIEW_NOT_PASS")
           \cup If(reviews[1].findings \cap {"P0", "P1"} # {}, "P1", "REVIEW_BLOCKING_FINDING")
           \cup If(reviews[1].findings \cap {"P2", "P3"} # {}, "P2", "REVIEW_FINDING")
           : s \in RequiredOf("review")}
    \cup If(\E i \in DOMAIN request.reviews : request.reviews[i].step \notin RequiredOf("review"),
            "P1", "REVIEW_UNBOUND")
FixbackFaults ==
    LET b == request.batch IN
    If(/\ b # NoBatch
       /\ \/ b.previous = b.new \/ b.new # "active"
          \/ ~(b.focused \subseteq Checks) \/ ~(b.invalidated \subseteq Selected \cap b.focused),
       "P0", "FIXBACK_INVALID")

Findings == NodeFaults \cup LockFaults \cup SelectionFaults \cup ReceiptFaults \cup RunFaults
            \cup AccountingFaults \cup GateFaults \cup ReviewFaults \cup FixbackFaults
Decision ==
    IF Findings = {} THEN "READY"
    ELSE IF \E f \in Findings : f.severity = "P0" THEN "BLOCKED" ELSE "NOT_PROVEN"

-----------------------------------------------------------------------------
(* The request, changed one item at a time                                   *)

Ids == Checks \cup Steps \cup {"unknown"}
Change(field, value) == request' = [request EXCEPT ![field] = value]
Replaced(seq, choices) == {[seq EXCEPT ![i] = x] : i \in DOMAIN seq, x \in choices}
Fewer(seq) == {RemoveAt(seq, i) : i \in DOMAIN seq}
More(seq, choices) == {Append(seq, x) : x \in choices}

ChangeNodes ==
    \/ \E i \in DOMAIN request.nodes, d \in Ids :
          Change("nodes", [request.nodes EXCEPT ![i].deps = @ \cup {d}])
    \/ \E i \in DOMAIN request.nodes : Change("nodes", [request.nodes EXCEPT ![i].required = ~@])
    \/ \E nodes \in Fewer(request.nodes) \cup More(request.nodes, {Node(id) : id \in Checks}) :
          Change("nodes", nodes)
ChangeLocks ==
    \E locks \in More(request.locks, [node : Ids, lock : LockNames]) : Change("locks", locks)
ChangeSelection ==
    \/ \E s \in Fewer(request.selected) \cup More(request.selected, Checks) : Change("selected", s)
    \/ \E c \in Checks : Change("skipped", request.skipped \cup {c})
ChangeReceipts ==
    LET all == [check : Checks, current : BOOLEAN, whole : BOOLEAN, outcome : {"PASS", "FAIL"}] IN
    \E receipts \in Fewer(request.receipts) \cup More(request.receipts, all) \cup Replaced(request.receipts, all) :
       Change("receipts", receipts)
ChangeGates ==
    LET all == [step : Steps, current : BOOLEAN, decision : {"APPROVED", "REJECTED"}] IN
    \/ \E e \in Fewer(request.expected) \cup More(request.expected, Steps) : Change("expected", e)
    \/ \E humans \in Fewer(request.humans) \cup More(request.humans, all) : Change("humans", humans)
ChangeReviews ==
    LET all == [step : Steps, current : BOOLEAN, outcome : {"PASS", "FAIL"}, findings : {{}, {"P1"}, {"P3"}}] IN
    \E reviews \in Fewer(request.reviews) \cup More(request.reviews, all) : Change("reviews", reviews)
ChangeBatch ==
    \E b \in [previous : {"earlier"}, new : {"earlier", "active"},
              focused : SUBSET Checks \ {{}}, invalidated : SUBSET Checks \ {{}}] : Change("batch", b)

ChangeRequest ==
    /\ decision = "ASKED" /\ UNCHANGED decision
    /\ changes < MaxChanges /\ changes' = changes + 1
    /\ \/ ChangeNodes \/ ChangeLocks \/ ChangeSelection \/ ChangeReceipts
       \/ ChangeGates \/ ChangeReviews \/ ChangeBatch
Validate ==
    /\ decision = "ASKED" /\ decision' = Decision
    /\ UNCHANGED <<request, changes>>
AdequacyNext == Submit \/ ChangeRequest \/ Validate
AdequacySpec == AdequacyInit /\ [][AdequacyNext]_adequacyVars

-----------------------------------------------------------------------------
(* READY is exactly this, said without paths and findings: every node can    *)
(* run (no set of nodes waits for itself) and no two that can run at once    *)
(* want one lock, whatever has run before; and every selected or required    *)
(* check, gate and review has its one receipt, current and passing, and      *)
(* nothing else is there (validateVerificationAdequacy, hasPath, hasCycle).  *)
CanAllRun == \A S \in SUBSET Declared : S # {} => \E id \in S : DependsOn(id) \cap S = {}
LocksOf(id) == {request.locks[i].lock : i \in {j \in DOMAIN request.locks : request.locks[j].node = id}}
NoLockTwice ==
    \A done \in SUBSET Declared :
       (\A id \in done : DependsOn(id) \subseteq done) =>
          LET ready == {id \in Declared \ done : DependsOn(id) \subseteq done} IN
          \A a, b \in ready : a # b => LocksOf(a) \cap LocksOf(b) = {}
OneGoodReceipt(receipts, wanted) ==
    /\ Len(receipts) = Cardinality(wanted) /\ ToSet(receipts) = wanted
Adequate ==
    /\ OneGoodReceipt(request.nodes, {NodeOf(id) : id \in Declared})
    /\ {id \in Checks \cup Steps : PlanRequires(id)} \subseteq Declared
    /\ \A n \in Nodes : Matches(n) /\ n.deps \subseteq Declared
    /\ CanAllRun /\ NoLockTwice
    /\ \A id \in Ids : LocksOf(id) # {} => id \in Declared
    /\ Len(request.locks) = Cardinality(ToSet(request.locks))
    /\ Len(request.selected) = Cardinality(Selected) /\ request.skipped = {}
    /\ {c \in Checks : PlanChecks[c]} \subseteq Selected
    /\ OneGoodReceipt(request.receipts, {CheckReceipt(c) : c \in Selected})
    /\ \A s \in RequiredOf("human_gate") : Cardinality({i \in DOMAIN request.expected : request.expected[i] = s}) = 1
    /\ OneGoodReceipt(request.humans, {GateReceipt(s) : s \in RequiredOf("human_gate")})
    /\ OneGoodReceipt(request.reviews, {ReviewReceipt(s) : s \in RequiredOf("review")})
    /\ request.batch = NoBatch \/ /\ request.batch.new = "active"
                                  /\ request.batch.invalidated \subseteq request.batch.focused \cap Selected
AdequacyIsExact == decision \notin {"NONE", "ASKED"} => (decision = "READY" <=> Adequate)
=============================================================================
