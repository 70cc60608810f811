----------------------------- MODULE PilotDraft -----------------------------
(***************************************************************************)
(* The facts a pilot capture session accepts and the evidence it draws up  *)
(* from them (packages/pilot capture-session.ts, capture.ts, contracts.ts).*)
(* A fact is recorded once and never corrected, and acceptance looks at    *)
(* few other facts, while the evidence is one document with a schema over  *)
(* all of them: it is built when the last fact arrives, at every later     *)
(* load of the session and when it is finalised.  The journal, its crashes *)
(* and its Provider operations are PilotCapture's.                         *)
(***************************************************************************)
EXTENDS Naturals, FiniteSets

CONSTANTS PlannedTasks,         \* [task -> "QUICK" or "MANAGED"]
          PlannedInterrupts,    \* [interruption -> its task]
          ComparedTasks,        \* tasks that raw Pi runs as well
          FixbackTask,          \* task that has to fail once
          Candidates,           \* releases to update to
          RunNames, CycleNames, CiRuns,   \* identities the operator supplies
          FactCount,            \* facts of the workflow checklist
          Authorized            \* Provider requests of the operator's scope

VARIABLES recorded,      \* set of observations
          sealedDraft      \* the evidence that went into the Archive, or NoDraft
draftVars == <<recorded, sealedDraft>>

TasksIn(mode) == {t \in DOMAIN PlannedTasks : PlannedTasks[t] = mode}
(* validatePilotPlanBody and validateCurrentPilotPlanBody.                   *)
FrozenPlan ==
    /\ \A t \in DOMAIN PlannedTasks : PlannedTasks[t] \in {"QUICK", "MANAGED"}
    /\ \A mode \in {"QUICK", "MANAGED"} : TasksIn(mode) # {}
    /\ \A i \in DOMAIN PlannedInterrupts : PlannedInterrupts[i] \in TasksIn("MANAGED") \ {FixbackTask}
    /\ \A i, j \in DOMAIN PlannedInterrupts : PlannedInterrupts[i] = PlannedInterrupts[j] => i = j
    /\ ComparedTasks \subseteq DOMAIN PlannedTasks
    /\ FixbackTask \in TasksIn("MANAGED") \cap ComparedTasks
Platforms == {"WINDOWS", "UBUNTU"}
(* The plan is finite, a checklist has a fact, and an identity that was not  *)
(* used yet is never wanting.                                                *)
LastsFor(names, S) ==
    \A used \in SUBSET names : IsFiniteSet(used) /\ Cardinality(used) < Cardinality(S) => used # names
ASSUME DraftAssumption ==
    /\ FrozenPlan /\ FactCount \in Nat \ {0} /\ Authorized \in Nat
    /\ \A S \in {DOMAIN PlannedTasks, DOMAIN PlannedInterrupts, Candidates} : IsFiniteSet(S)
    /\ LastsFor(RunNames, TasksIn("MANAGED")) /\ LastsFor(CycleNames, Candidates) /\ LastsFor(CiRuns, Platforms)

-----------------------------------------------------------------------------
(* Observations.  "raw" is what raw Pi knew of the checklist; a task's own   *)
(* observation says nothing of it.                                           *)

Managed == [kind : {"MANAGED_TASK"}, id : TasksIn("MANAGED"), captured : 1..FactCount, raw : {0},
            run : RunNames, links : SUBSET DOMAIN PlannedInterrupts, requests : {1}]
Quick == [kind : {"QUICK_TASK"}, id : TasksIn("QUICK"), captured : 1..FactCount, raw : {0}, requests : {1}]
Compared == [kind : {"RAW_PI_COMPARATOR"}, id : DOMAIN PlannedTasks, hunter : 1..FactCount, raw : 0..FactCount,
             requests : 1..2]
Cycle == [kind : {"UPDATE_ROLLBACK"}, id : Candidates, name : CycleNames, requests : {0}]
Ci == [kind : {"CI"}, id : Platforms, name : CiRuns, requests : {0}]
(* Installation, samples, gates and plugin fixtures have no other fact to    *)
(* agree with; one stands for all.                                           *)
OtherFact == [kind : {"GATES"}, id : {"gates"}, requests : {0}]
Observations == Managed \cup Quick \cup Compared \cup Cycle \cup Ci \cup OtherFact

IsTask(o) == o.kind \in {"MANAGED_TASK", "QUICK_TASK"}
(* factKeyFor: both kinds of task share their keys.                          *)
FactKey(o) == <<IF IsTask(o) THEN "task" ELSE o.kind, o.id>>
OfKind(all, kind) == {o \in all : o.kind = kind}
TaskOf(all, t) == {o \in all : IsTask(o) /\ o.id = t}
RecordedFact(all, kind, id) == CHOOSE o \in all : o.kind = kind /\ o.id = id

-----------------------------------------------------------------------------
(* The evidence                                                              *)

\* Mutant: the draft keeps what the task's own observation says of raw Pi.
TaskResult_OwnRaw(all, t) ==
    LET o == CHOOSE o \in TaskOf(all, t) : TRUE
    IN [captured |-> o.captured, raw |-> o.raw, requests |-> o.requests]
(* taskResultFor: the comparator's measurement of raw Pi replaces the task's.*)
TaskResult(all, t) ==
    LET o == CHOOSE o \in TaskOf(all, t) : TRUE
        C == {c \in OfKind(all, "RAW_PI_COMPARATOR") : c.id = t}
    IN [captured |-> o.captured, requests |-> o.requests,
        raw |-> IF C = {} THEN o.raw ELSE (CHOOSE c \in C : TRUE).raw]
RunReceipt(o) == [task |-> o.id, run |-> o.run, links |-> o.links, requests |-> o.requests]
InterruptionOf(all, i) ==
    [task |-> PlannedInterrupts[i], run |-> RecordedFact(all, "MANAGED_TASK", PlannedInterrupts[i]).run]
CycleOf(all, c) == RecordedFact(all, "UPDATE_ROLLBACK", c).name
CiReceipt(all, p) == RecordedFact(all, "CI", p).name
(* buildEvidenceDraft                                                        *)
DraftOf(all) ==
    [results |-> [t \in DOMAIN PlannedTasks |-> TaskResult(all, t)],
     archives |-> {RunReceipt(o) : o \in OfKind(all, "MANAGED_TASK")},
     interruptions |-> [i \in DOMAIN PlannedInterrupts |-> InterruptionOf(all, i)],
     comparators |-> [t \in ComparedTasks |-> RecordedFact(all, "RAW_PI_COMPARATOR", t)],
     cycles |-> [c \in Candidates |-> CycleOf(all, c)],
     ci |-> [p \in Platforms |-> CiReceipt(all, p)]]
(* finalizePilotEvidenceDraft with pilotEvidenceSchema, as far as the facts  *)
(* of one session can disagree.                                              *)
EvidenceParses(d) ==
    /\ \A x, y \in d.archives : x.run = y.run => x = y
    /\ \A x \in d.archives : d.results[x.task].requests = x.requests
    /\ \A t \in DOMAIN d.results : d.results[t].captured <= FactCount
    /\ \A i \in DOMAIN d.interruptions :
          \E x \in d.archives : /\ x.run = d.interruptions[i].run /\ x.task = d.interruptions[i].task
                                /\ i \in x.links
    /\ \A t \in ComparedTasks : /\ d.comparators[t].hunter = d.results[t].captured
                                /\ d.comparators[t].raw = d.results[t].raw
    /\ d.ci["WINDOWS"] # d.ci["UBUNTU"]

-----------------------------------------------------------------------------
(* What is accepted                                                          *)

(* countsFor, countsAreComplete, nextActionsFor                              *)
Counts(all) ==
    [tasks |-> Cardinality({o \in all : IsTask(o)}), archives |-> Cardinality(OfKind(all, "MANAGED_TASK")),
     interruptions |-> Cardinality(UNION {{o.id} \X o.links : o \in OfKind(all, "MANAGED_TASK")}),
     comparators |-> Cardinality(OfKind(all, "RAW_PI_COMPARATOR")),
     cycles |-> Cardinality(OfKind(all, "UPDATE_ROLLBACK")), ci |-> Cardinality(OfKind(all, "CI")),
     gates |-> Cardinality(OfKind(all, "GATES"))]
Wanted ==
    [tasks |-> Cardinality(DOMAIN PlannedTasks), archives |-> Cardinality(TasksIn("MANAGED")),
     interruptions |-> Cardinality(DOMAIN PlannedInterrupts), comparators |-> Cardinality(ComparedTasks),
     cycles |-> Cardinality(Candidates), ci |-> Cardinality(Platforms), gates |-> 1]
CountsComplete(all) == Counts(all) = Wanted
NextActions(all) ==
    LET have == Counts(all) IN {c \in DOMAIN Wanted \ {"archives"} : have[c] < Wanted[c]}
UsageFor(all) == Cardinality(UNION {{FactKey(o)} \X (1..o.requests) : o \in all})
AcceptsManaged(all, o) ==
    /\ o.links = {i \in DOMAIN PlannedInterrupts : PlannedInterrupts[i] = o.id}
    /\ \A x, y \in OfKind(all, "MANAGED_TASK") : x.run = y.run => x = y
(* comparatorFor: its Hunter facts are those of the task it is paired with.  *)
AcceptsComparator(all, o) ==
    /\ o.id \in ComparedTasks /\ TaskOf(all, o.id) # {}
    /\ o.hunter = TaskResult({x \in all : IsTask(x)}, o.id).captured
DistinctNames(all, kind) == \A x, y \in OfKind(all, kind) : x.name = y.name => x = y
(* assertObservationValid                                                    *)
AcceptsFact(o) ==
    LET all == recorded \cup {o} IN
    /\ CASE o.kind = "MANAGED_TASK" -> AcceptsManaged(all, o)
         [] o.kind = "RAW_PI_COMPARATOR" -> AcceptsComparator(all, o)
         [] o.kind \in {"UPDATE_ROLLBACK", "CI"} -> DistinctNames(all, o.kind)
         [] OTHER -> TRUE
    /\ UsageFor(all) <= Authorized
    /\ CountsComplete(all) => EvidenceParses(DraftOf(all))

-----------------------------------------------------------------------------
NoDraft == [results |-> <<>>]
DraftInit == recorded = {} /\ sealedDraft = NoDraft
(* #recordParsed: a fact is bound to one operation.                          *)
RecordFact ==
    /\ sealedDraft = NoDraft
    /\ \E o \in Observations :
          /\ FactKey(o) \notin {FactKey(x) : x \in recorded} /\ AcceptsFact(o)
          /\ recorded' = recorded \cup {o}
    /\ UNCHANGED sealedDraft
SealEvidence ==
    /\ sealedDraft = NoDraft /\ CountsComplete(recorded) /\ EvidenceParses(DraftOf(recorded))
    /\ sealedDraft' = DraftOf(recorded) /\ UNCHANGED recorded
DraftNext == RecordFact \/ SealEvidence
DraftSpec == DraftInit /\ [][DraftNext]_draftVars

-----------------------------------------------------------------------------
FactKeys == {FactKey(o) : o \in Observations} \ {<<"RAW_PI_COMPARATOR", t>> : t \in DOMAIN PlannedTasks \ ComparedTasks}
ObservationsOf == [f \in FactKeys |-> {o \in Observations : FactKey(o) = f}]
Missing == FactKeys \ {FactKey(o) : o \in recorded}
(* A session never traps its operator: whatever has been accepted, from the  *)
(* first fact on and in any order, each missing fact can still be recorded   *)
(* with some content as long as the Provider scope lasts and a comparator's  *)
(* task is there; the status names something to record exactly while         *)
(* something is missing; and when nothing is, the evidence of the accepted   *)
(* facts parses, so that the session can be loaded and sealed, and what it   *)
(* says of raw Pi is what the comparators measured (assertObservationValid,  *)
(* buildEvidenceDraft, statusFor, finalizePilotEvidenceDraft).               *)
CaptureIsSealable == recorded # {} =>
    /\ \A f \in Missing :
          /\ f[1] \in {"task", "RAW_PI_COMPARATOR"} => UsageFor(recorded) < Authorized
          /\ f[1] = "RAW_PI_COMPARATOR" => TaskOf(recorded, f[2]) # {}
          => \E o \in ObservationsOf[f] : AcceptsFact(o)
    /\ NextActions(recorded) = {} <=> Missing = {}
    /\ Missing = {} => CountsComplete(recorded) /\ EvidenceParses(DraftOf(recorded))
    /\ sealedDraft # NoDraft =>
          \A o \in recorded : o.kind = "RAW_PI_COMPARATOR" =>
             sealedDraft.results[o.id].raw = o.raw /\ sealedDraft.results[o.id].captured = o.hunter
=============================================================================
