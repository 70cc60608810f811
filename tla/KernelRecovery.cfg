SPECIFICATION Spec
CONSTANTS
    RequiredChecks = {unit}
    OptionalChecks = {}
    RequiredGates = {}
    OptionalGates = {}
    RequiredReviews = {}
    OptionalReviews = {}
    AllowedDecisions = {"APPROVED"}
    MaxIterations = 3
    MaxElapsedMs = 2
    RepeatedFailureLimit = 2
    ResourceBudget = 2
    StopOnUserInput = TRUE
    StopOnWorkspaceDrift = TRUE
    Fingerprints = {red, blue}
    EvidenceIds = {log}
    ObservationIds = {o1, o2}
    Holdings = {leaseA, leaseB}
    Times = {0}
    MaxCheckpoints = 2
    MaxEvents = 9
    RunStartedAt = 0
    NoFailure = NoFailure
SYMMETRY Symmetry
INVARIANTS TypeOK ProjectionIntegrity ContinuationIsGrounded LoopPolicyHolds
PROPERTIES ReplayAccepts FinalityFreezes
CHECK_DEADLOCK FALSE
