SPECIFICATION Spec
CONSTANTS
    RequiredChecks = {unit}
    OptionalChecks = {}
    RequiredGates = {}
    OptionalGates = {}
    RequiredReviews = {}
    OptionalReviews = {}
    AllowedDecisions = {"APPROVED"}
    MaxIterations = 3
    MaxElapsedMs = 2
    RepeatedFailureLimit = 2
    ResourceBudget = 2
    StopOnUserInput = TRUE
    StopOnWorkspaceDrift = TRUE
    Fingerprints = {red}
    EvidenceIds = {log}
    ObservationIds = {o1, o2}
    Holdings = {leaseA, leaseB}
    Times = {0}
    MaxCheckpoints = 2
    MaxEvents = 7
    RunStartedAt = 0
    NoFailure = NoFailure
SYMMETRY Symmetry
INVARIANT NoRetryCrossedInput
CHECK_DEADLOCK FALSE
