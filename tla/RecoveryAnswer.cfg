SPECIFICATION RecoverySpec
CONSTANTS
    RequiredChecks = {unit}
    OptionalChecks = {}
    RequiredGates = {}
    OptionalGates = {}
    RequiredReviews = {}
    OptionalReviews = {}
    AllowedDecisions = {"APPROVED"}
    MaxIterations = 3
    MaxElapsedMs = 1
    RepeatedFailureLimit = 3
    ResourceBudget = 1
    StopOnUserInput = TRUE
    StopOnWorkspaceDrift = TRUE
    Fingerprints = {red}
    EvidenceIds = {proof, log}
    ObservationIds = {1, 2, 3, 4, 5}
    Holdings = {lease}
    Times = {0}
    MaxCheckpoints = 2
    MaxEvents = 0
    RunStartedAt = 0
    NoFailure = NoFailure
    Coordinators = {p, q}
    Names = {a, b}
    Proof = proof
    MaxAborts = 1
    Nobody = Nobody
SYMMETRY Symmetry
INVARIANT AnswersOwnAttempt
CHECK_DEADLOCK FALSE
