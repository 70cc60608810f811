SPECIFICATION MCSpec
INVARIANTS
  WrongVerdictDodgesEveryList
  ArchiveFactsHold
  DeviceImportIsExact
  OneEnvelopePerEvidence
  ChangeIsSound
  UpdateIsSound
  WorkIsKept
  RegisteredIsBacked
  SpendingIsAccounted
  PassIsProof
  OnePiPerDirectory
  SendsOnce
  OneTreeIsActivated
  AdequacyIsExact
  EvaluationIsExact
  OneTrustedArchive
  VerdictIsTheCommand
  CaptureIsSealable
PROPERTIES
  DriversKeepContract
CHECK_DEADLOCK FALSE
CONSTANTS
  MaxLive = 3
  Calls = {"timer", "user"}
  Timer = "timer"
  CauseOf <- MCCauses
  JobCalls = {"user", "policy"}
  JobCauseOf <- MCJobCauses
  Archives = {"a1"}
  Targets = {"t1"}
  ArchiveOps = {"x1"}
  Profiles = {"p1"}
  Imports <- MCImports
  MaxStops = 2
  DeviceRequests <- MCDeviceRequests
  EvidenceIds = {"e1", "e2", "e3"}
  CriticalIds = {"e1"}
  Contents = {"c1", "c2"}
  RunStop = 4
  MaxFaults = 2
  Changes = {"c1", "c2"}
  PilotTasks = {"c1"}
  MaxEdits = 2
  MaxFails = 1
  Releases = {"A", "B"}
  Bundled = "A"
  UpdateRequests <- MCUpdates
  MaxMishaps = 2
  Prepares = {"w1", "w2"}
  Disposals = {"d1", "d2"}
  Plugins = {"g1", "g2"}
  MaxEntries = 2
  MaxUpsets = 2
  Runners = {"r1", "r2"}
  Operations <- MCOperations
  Budget = 2
  MaxUsage = 2
  Tasks = {"t1", "t2"}
  Duties <- MCDuties
  MaxTaskMishaps = 2
  EngineCallers = {"k1", "k2"}
  EngineRequests <- MCEngineRequests
  MaxEngineCalls = 4
  SourceKinds = {"LOCAL", "GIT", "NPM"}
  MaxPackageEdits = 2
  MaxInstallFaults = 1
  PlanChecks <- MCPlanChecks
  PlanSteps <- MCPlanSteps
  LockNames = {"db"}
  MaxChanges = 2
  FrozenTasks <- MCFrozenTasks
  Interrupts <- MCInterrupts
  PairedTasks = {"q1", "m1", "m4"}
  MaxRequests = 9
  Samples = 20
  MaxDiffs = 2
  WriterFacts <- MCWriterFacts
  MaxDeaths = 1
  MaxLosses = 1
  OutputLimit = 2
  MaxOutput = 2
  PlannedTasks <- MCPlannedTasks
  PlannedInterrupts <- MCPlannedInterrupts
  ComparedTasks = {"m1"}
  FixbackTask = "m1"
  Candidates = {"B", "C"}
  RunNames = {"r1", "r2"}
  CycleNames = {"y1", "y2"}
  CiRuns = {"i1", "i2"}
  FactCount = 2
  Authorized = 4
