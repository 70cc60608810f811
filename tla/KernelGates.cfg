SPECIFICATION Spec
CONSTANTS
    RequiredChecks = {unit}
    OptionalChecks = {}
    RequiredGates = {gate}
    OptionalGates = {}
    RequiredReviews = {review}
    OptionalReviews = {}
    AllowedDecisions = {"APPROVED", "REJECTED", "BLOCKED"}
    MaxIterations = 2
    MaxElapsedMs = 1
    RepeatedFailureLimit = 2
    ResourceBudget = 1
    StopOnUserInput = FALSE
    StopOnWorkspaceDrift = FALSE
    Fingerprints = {red}
    EvidenceIds = {log}
    ObservationIds = {o1, o2}
    Holdings = {leaseA}
    Times = {0}
    MaxCheckpoints = 0
    MaxEvents = 9
    RunStartedAt = 0
    NoFailure = NoFailure
SYMMETRY Symmetry
INVARIANTS ReadyIsEarned ExhaustedRunEnds
PROPERTIES OutcomeIsFinal LateFactsAreInert
CHECK_DEADLOCK FALSE
