SPECIFICATION FairSpec
CONSTANTS
    RequiredChecks = {unit}
    OptionalChecks = {}
    RequiredGates = {}
    OptionalGates = {}
    RequiredReviews = {}
    OptionalReviews = {}
    AllowedDecisions = {"APPROVED"}
    MaxIterations = 2
    MaxElapsedMs = 1
    RepeatedFailureLimit = 3
    ResourceBudget = 1
    StopOnUserInput = TRUE
    StopOnWorkspaceDrift = TRUE
    Fingerprints = {red}
    EvidenceIds = {proof, log}
    ObservationIds = {1, 2, 3, 4}
    Holdings = {lease}
    Times = {0}
    MaxCheckpoints = 2
    MaxEvents = 0
    RunStartedAt = 0
    NoFailure = NoFailure
    Coordinators = {p, q}
    Names = {a}
    Proof = proof
    MaxAborts = 1
    Nobody = Nobody
INVARIANTS SafeHandover RecoveryIsExact
PROPERTY RecoveryResumes
CHECK_DEADLOCK FALSE
