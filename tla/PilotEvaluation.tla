-------------------------- MODULE PilotEvaluation --------------------------
(***************************************************************************)
(* The decision on the pilot (packages/pilot evaluator.ts and the evidence *)
(* schema of contracts.ts).  The behaviour starts from evidence that earns *)
(* a GO, changes it and has it evaluated.  "bound" and "linked" say that   *)
(* all identities and fingerprints of an item equal those it refers to.    *)
(* Numbers are relative to their limit: a sample or an overhead is 1 within*)
(* the limit and 2 over it; "over" counts the samples over it.             *)
(***************************************************************************)
EXTENDS Naturals, Sequences, FiniteSets

CONSTANTS FrozenTasks,    \* [task -> [mode, expects]] of the frozen plan
          Interrupts,     \* [forced interruption -> its MANAGED task]
          PairedTasks,    \* tasks also run by raw Pi
          MaxRequests,    \* Provider requests the plan authorises
          Samples,        \* number of samples of each kind
          MaxDiffs        \* bound: changes of the evidence

VARIABLES evidence,
          plan,      \* supplied: "NONE", "INVALID" or "FROZEN"
          handle,    \* the Archive supplied: "NONE", "UNTRUSTED", "OTHER" or "EXACT"
          verdict, diffs
evaluationVars == <<evidence, plan, handle, verdict, diffs>>

Frozen == DOMAIN FrozenTasks
OfMode(mode) == {t \in Frozen : FrozenTasks[t].mode = mode}
Outcomes(mode) == IF mode = "QUICK" THEN {"PASS", "FAIL"} ELSE {"READY", "BLOCKED"}
(* What the schema of a frozen plan asks; its ten tasks are any number here. *)
(* The paired task that is not interrupted is the one with the forced fixback.*)
ASSUME EvaluationAssumption ==
    /\ IsFiniteSet(Frozen) /\ IsFiniteSet(DOMAIN Interrupts)
    /\ \A t \in Frozen : /\ FrozenTasks[t].mode \in {"QUICK", "MANAGED"}
                         /\ FrozenTasks[t].expects \in Outcomes(FrozenTasks[t].mode)
    /\ Cardinality(DOMAIN Interrupts) = 3
    /\ \A k \in DOMAIN Interrupts : Interrupts[k] \in OfMode("MANAGED")
    /\ \A k, l \in DOMAIN Interrupts : Interrupts[k] = Interrupts[l] => k = l
    /\ PairedTasks \subseteq Frozen /\ Cardinality(PairedTasks) = 3
    /\ OfMode("QUICK") # {}
    /\ \E t \in PairedTasks : t \in OfMode("MANAGED") /\ \A k \in DOMAIN Interrupts : Interrupts[k] # t
    /\ MaxRequests \in Nat /\ Samples \in Nat \ {0}
FrozenResult(t) == [task |-> t, outcome |-> FrozenTasks[t].expects, expected |-> FrozenTasks[t].expects,
              preserved |-> TRUE, requests |-> 1]
(* A quick receipt or a Run Archive; its links are the recoveries of the Run.*)
Proof(t) == [task |-> t, mode |-> FrozenTasks[t].mode, outcome |-> FrozenTasks[t].expects, requests |-> 1,
             recovery |-> [k \in {k \in DOMAIN Interrupts : Interrupts[k] = t} |-> k]]
Interrupted(k) == [id |-> k, task |-> Interrupts[k], linked |-> TRUE,
                   outcome |-> FrozenTasks[Interrupts[k]].expects, preserved |-> TRUE, actionable |-> TRUE]
Comparator(t) == [task |-> t, bound |-> TRUE, facts |-> 20, captured |-> 20, raw |-> 16, rawSteps |-> 10,
                  steps |-> 7, overhead |-> 1, contained |-> FALSE, requests |-> 1]
Order(S) == CHOOSE s \in [1..Cardinality(S) -> S] : \A i, j \in DOMAIN s : s[i] = s[j] => i = j
Listing(S, Item(_)) == [i \in 1..Cardinality(S) |-> Item(Order(S)[i])]
EvaluationInit ==
    /\ evidence = <<>> /\ plan = "NONE" /\ handle = "NONE"
    /\ verdict = "NONE" /\ diffs = 0
(* The evidence of a pilot that went as planned.                             *)
Supply ==
    /\ verdict = "NONE" /\ verdict' = "ASKED" /\ UNCHANGED diffs
    /\ evidence' = [results |-> Listing(Frozen, FrozenResult), proofs |-> Listing(Frozen, Proof),
                    interruptions |-> Listing(DOMAIN Interrupts, Interrupted),
                    comparators |-> Listing(PairedTasks, Comparator),
                    over |-> [m \in {"warm", "acknowledgement", "memory"} |-> 0],
                    limit |-> MaxRequests, planned |-> TRUE, consistent |-> TRUE, broken |-> {}, missing |-> {}]
    /\ plan' = "FROZEN" /\ handle' = "EXACT"

-----------------------------------------------------------------------------
(* pilotEvidenceSchema                                                       *)

TaskIds(seq, I) == {seq[i].task : i \in I}
Distinct(seq, I) == \A i, j \in I : seq[i].task = seq[j].task => i = j
ResultFor(t) == evidence.results[CHOOSE i \in DOMAIN evidence.results : evidence.results[i].task = t]
ProofsOf(mode) == {i \in DOMAIN evidence.proofs : evidence.proofs[i].mode = mode}
ProofFor(t) == evidence.proofs[CHOOSE i \in DOMAIN evidence.proofs :
                  evidence.proofs[i].task = t /\ evidence.proofs[i].mode = FrozenTasks[t].mode]
ResultsDerive ==
    /\ Distinct(evidence.results, DOMAIN evidence.results)
    /\ \A m \in {"QUICK", "MANAGED"} : /\ Distinct(evidence.proofs, ProofsOf(m))
                                      /\ Cardinality(ProofsOf(m)) = Cardinality(OfMode(m))
    /\ \A t \in Frozen :
          /\ t \in TaskIds(evidence.results, DOMAIN evidence.results)
          /\ \A m \in {"QUICK", "MANAGED"} :
                t \in TaskIds(evidence.proofs, ProofsOf(m)) <=> m = FrozenTasks[t].mode
          /\ ResultFor(t).expected = FrozenTasks[t].expects
          /\ ResultFor(t).outcome = ProofFor(t).outcome /\ ResultFor(t).requests = ProofFor(t).requests
InterruptionsBind ==
    LET I == evidence.interruptions IN
    /\ \A i, j \in DOMAIN I : I[i].id = I[j].id => i = j
    /\ \A i \in DOMAIN I : /\ I[i].task \in OfMode("MANAGED") /\ I[i].linked
                           /\ I[i].id \in DOMAIN ProofFor(I[i].task).recovery
                           /\ I[i].outcome = ProofFor(I[i].task).outcome
ComparatorsBind ==
    LET C == evidence.comparators IN
    Distinct(C, DOMAIN C) /\ \A i \in DOMAIN C : C[i].bound /\ C[i].captured <= C[i].facts /\ C[i].raw <= C[i].facts
Parses == ResultsDerive /\ InterruptionsBind /\ ComparatorsBind /\ evidence.consistent

-----------------------------------------------------------------------------
(* metricsFor                                                                *)

Units(seq, field) == UNION {{i} \X (1..seq[i][field]) : i \in DOMAIN seq}
Total(seq, field) == Cardinality(Units(seq, field))
\* The rank-th of the samples in ascending order.
NearestRank(samples, rank) ==
    CHOOSE x \in {samples[i] : i \in DOMAIN samples} :
       /\ Cardinality({i \in DOMAIN samples : samples[i] < x}) < rank
       /\ rank <= Cardinality({i \in DOMAIN samples : samples[i] <= x})
SamplesOf(m) == [i \in 1..Samples |-> IF i <= evidence.over[m] THEN 2 ELSE 1]
Overheads == [i \in DOMAIN evidence.comparators |-> evidence.comparators[i].overhead]
P95(samples) == NearestRank(samples, (19 * Len(samples) + 19) \div 20)
Median(samples) == NearestRank(samples, Len(samples) \div 2 + 1)
Correct == Cardinality({i \in DOMAIN evidence.results : evidence.results[i].outcome = evidence.results[i].expected})
RecoveryOf(k) == [task |-> k.task, attempt |-> ProofFor(k.task).recovery[k.id]]
\* Mutant: an interruption whose Run went on but ended BLOCKED counts as well.
ReadyInterruptions_AnyOutcome == {i \in DOMAIN evidence.interruptions : evidence.interruptions[i].preserved}
ReadyInterruptions ==
    {i \in DOMAIN evidence.interruptions :
       LET k == evidence.interruptions[i] IN k.outcome = "READY" /\ k.preserved}
Resumed == Cardinality({RecoveryOf(evidence.interruptions[i]) : i \in ReadyInterruptions})
FewFacts == 100 * Total(evidence.comparators, "captured") < 95 * Total(evidence.comparators, "facts")
LittleSaved ==
    LET raw == Total(evidence.comparators, "rawSteps")
        steps == Total(evidence.comparators, "steps")
    IN raw = 0 \/ 10 * raw < 3 * raw + 10 * steps
Requests == Total(evidence.results, "requests") + Total(evidence.comparators, "requests")

-----------------------------------------------------------------------------
(* PilotEvaluator.evaluate                                                   *)

(* The scope of the plan, or that of the evidence when no plan is supplied.  *)
Authorised == IF plan = "FROZEN" THEN MaxRequests ELSE evidence.limit
FalseReady ==
    \E i \in DOMAIN evidence.results :
       LET r == evidence.results[i] IN
       r.task \in OfMode("MANAGED") /\ r.outcome = "READY" /\ r.expected # "READY"
ZeroToleranceFailure ==
    \/ \E i \in DOMAIN evidence.results : ~evidence.results[i].preserved \/ evidence.results[i].requests = 0
    \/ Requests > Authorised \/ FalseReady
    \/ \E i \in DOMAIN evidence.interruptions : ~evidence.interruptions[i].preserved
    \/ evidence.broken # {} \/ FewFacts
    \/ LittleSaved /\ \A i \in DOMAIN evidence.comparators : ~evidence.comparators[i].contained
(* identityProblems                                                          *)
IdentityProblem ==
    \/ \E i \in DOMAIN evidence.comparators : evidence.comparators[i].captured < evidence.comparators[i].raw
    \/ plan = "FROZEN" /\ \/ ~evidence.planned \/ evidence.limit # MaxRequests
                          \/ TaskIds(evidence.comparators, DOMAIN evidence.comparators) # PairedTasks
                          \/ \E i \in DOMAIN evidence.interruptions :
                                Interrupts[evidence.interruptions[i].id] # evidence.interruptions[i].task
ArchiveProblem == handle \in {"UNTRUSTED", "OTHER"}
MissingEvidence == plan = "NONE" \/ handle = "NONE" \/ evidence.missing # {}
QuantitativeMiss ==
    \/ Correct < Cardinality(Frozen) - 1 \/ Resumed < 2
    \/ \E i \in DOMAIN evidence.interruptions : ~evidence.interruptions[i].actionable
    \/ \E m \in DOMAIN evidence.over : P95(SamplesOf(m)) > 1
    \/ Median(Overheads) > 1
Evaluated ==
    IF ~Parses \/ plan = "INVALID" \/ ZeroToleranceFailure THEN "STOP"
    ELSE IF IdentityProblem \/ ArchiveProblem \/ MissingEvidence THEN "NOT_PROVEN"
    ELSE IF QuantitativeMiss THEN "REVISE" ELSE "GO"
Evaluate ==
    /\ verdict = "ASKED" /\ verdict' = Evaluated
    /\ UNCHANGED <<evidence, plan, handle, diffs>>

-----------------------------------------------------------------------------
(* The evidence, changed one item at a time                                  *)

Sets(field, value) == evidence' = [evidence EXCEPT ![field] = value]
SetsItem(field, i, item) == Sets(field, [evidence[field] EXCEPT ![i] = item])
OtherResults(r) == {[r EXCEPT !.task = t] : t \in Frozen}
                   \cup {[r EXCEPT !.outcome = o] : o \in Outcomes("QUICK") \cup Outcomes("MANAGED")}
                   \cup {[r EXCEPT !.requests = 0], [r EXCEPT !.preserved = FALSE]}
OtherProofs(p) == {[p EXCEPT !.task = t] : t \in Frozen} \cup {[p EXCEPT !.requests = 0]}
                  \cup {[p EXCEPT !.recovery[k] = a] : k \in DOMAIN p.recovery, a \in DOMAIN Interrupts}
OtherInterruptions(k) == {[k EXCEPT !.id = d] : d \in DOMAIN Interrupts}
                         \cup {[k EXCEPT !.linked = FALSE], [k EXCEPT !.preserved = FALSE],
                               [k EXCEPT !.actionable = FALSE]}
                         \cup {[k EXCEPT !.outcome = o] : o \in Outcomes("MANAGED")}
OtherComparators(c) == {[c EXCEPT !.task = t] : t \in Frozen} \cup {[c EXCEPT !.captured = n] : n \in {17, 19}}
                       \cup {[c EXCEPT !.bound = FALSE], [c EXCEPT !.raw = 20], [c EXCEPT !.steps = 8], [c EXCEPT !.overhead = 2],
                             [c EXCEPT !.contained = TRUE], [c EXCEPT !.requests = @ + 1]}
DiffResult ==
    \/ \E i \in DOMAIN evidence.results :
          \E r \in OtherResults(evidence.results[i]) : SetsItem("results", i, r)
    \* a task that ended otherwise or spent more, as its proof says too
    \/ \E i \in DOMAIN evidence.results, j \in DOMAIN evidence.proofs :
          /\ evidence.results[i].task = evidence.proofs[j].task
          /\ \/ \E o \in Outcomes(evidence.proofs[j].mode) :
                   evidence' = [evidence EXCEPT !.results[i].outcome = o, !.proofs[j].outcome = o]
             \/ evidence' = [evidence EXCEPT !.results[i].requests = @ + 1, !.proofs[j].requests = @ + 1]
DiffProof ==
    \/ \E i \in DOMAIN evidence.proofs :
          \E p \in OtherProofs(evidence.proofs[i]) : SetsItem("proofs", i, p)
    \/ \E t \in Frozen : Sets("proofs", Append(evidence.proofs, Proof(t)))
DiffInterruption ==
    \E i \in DOMAIN evidence.interruptions :
       \E k \in OtherInterruptions(evidence.interruptions[i]) : SetsItem("interruptions", i, k)
DiffComparator ==
    \E i \in DOMAIN evidence.comparators :
       \E c \in OtherComparators(evidence.comparators[i]) : SetsItem("comparators", i, c)
DiffRest ==
    \/ \E m \in DOMAIN evidence.over : Sets("over", [evidence.over EXCEPT ![m] = @ + 1])
    \/ Sets("broken", {"gate"}) \/ Sets("missing", {"ci"}) \/ Sets("planned", FALSE) \/ Sets("consistent", FALSE)
    \/ \E n \in {0, MaxRequests + 1} : Sets("limit", n)
Diff ==
    /\ verdict = "ASKED" /\ UNCHANGED verdict
    /\ diffs < MaxDiffs /\ diffs' = diffs + 1
    /\ \/ (DiffResult \/ DiffProof \/ DiffInterruption \/ DiffComparator \/ DiffRest) /\ UNCHANGED <<plan, handle>>
       \/ plan' \in {"NONE", "INVALID"} /\ UNCHANGED <<evidence, handle>>
       \/ handle' \in {"NONE", "UNTRUSTED", "OTHER"} /\ UNCHANGED <<evidence, plan>>

EvaluationNext == Supply \/ Diff \/ Evaluate
EvaluationSpec == EvaluationInit /\ [][EvaluationNext]_evaluationVars

-----------------------------------------------------------------------------
(* A verdict is GO or REVISE exactly when the pilot is proven: the supplied  *)
(* plan and Archive are those of the evidence, every frozen task has its own *)
(* result and one proof of its mode that say the same, no Run was READY that *)
(* should not be, nothing was lost, the plan's spending holds for the whole  *)
(* pilot, and raw Pi was run on each paired task and knew no more.  It is GO *)
(* when moreover at most one task ended wrong, two of the three forced        *)
(* interruptions went on to a READY Run, at most one sample in twenty is over *)
(* its limit and most tasks had little overhead (evaluator.ts evaluate,       *)
(* successfullyResumedInterruptionCount, nearestRank, median).                *)
Backed(t) ==
    \E i \in DOMAIN evidence.results, j \in DOMAIN evidence.proofs :
       LET r == evidence.results[i]
           p == evidence.proofs[j]
       IN /\ r.task = t /\ p.task = t /\ p.mode = FrozenTasks[t].mode
          /\ r.outcome = p.outcome /\ r.requests = p.requests
          /\ r.preserved /\ r.requests > 0 /\ r.expected = FrozenTasks[t].expects
          /\ r.outcome = "READY" => FrozenTasks[t].expects = "READY"
          /\ \A k \in DOMAIN p.recovery :
                /\ Interrupts[k] = t
                /\ \E n \in DOMAIN evidence.interruptions :
                      LET e == evidence.interruptions[n] IN
                      e.id = k /\ e.task = t /\ e.linked /\ e.preserved /\ e.outcome = p.outcome
Worth ==
    LET C == evidence.comparators IN
       /\ {C[i].task : i \in DOMAIN C} = PairedTasks
       /\ \A i \in DOMAIN C : C[i].bound /\ C[i].raw <= C[i].captured
       /\ 20 * (Total(C, "facts") - Total(C, "captured")) <= Total(C, "facts")
       /\ \/ Total(C, "rawSteps") > 0 /\ 10 * Total(C, "steps") <= 7 * Total(C, "rawSteps")
          \/ \E i \in DOMAIN C : C[i].contained
Proven ==
    /\ plan = "FROZEN" /\ handle = "EXACT" /\ evidence.planned /\ evidence.limit = MaxRequests
    /\ evidence.consistent /\ evidence.broken = {} /\ evidence.missing = {}
    /\ Len(evidence.proofs) = Cardinality(Frozen) /\ \A t \in Frozen : Backed(t)
    /\ Worth
    /\ Total(evidence.proofs, "requests") + Total(evidence.comparators, "requests") <= MaxRequests
TargetsMet ==
    /\ Cardinality({i \in DOMAIN evidence.results : evidence.results[i].outcome # evidence.results[i].expected}) <= 1
    /\ \E i, j \in DOMAIN evidence.interruptions :
          /\ RecoveryOf(evidence.interruptions[i]) # RecoveryOf(evidence.interruptions[j])
          /\ \A n \in {i, j} : evidence.interruptions[n].outcome = "READY"
    /\ \A i \in DOMAIN evidence.interruptions : evidence.interruptions[i].actionable
    /\ \A m \in DOMAIN evidence.over : 20 * evidence.over[m] <= Samples
    /\ 2 * Cardinality({i \in DOMAIN evidence.comparators : evidence.comparators[i].overhead > 1})
         < Len(evidence.comparators)
EvaluationIsExact ==
    /\ verdict = "GO" => Proven /\ TargetsMet
    /\ verdict = "REVISE" => Proven /\ ~TargetsMet
    /\ verdict \in {"STOP", "NOT_PROVEN"} => ~Proven
=============================================================================
