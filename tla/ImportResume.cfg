SPECIFICATION RetrySpec
PROPERTY InterruptedImportResumes
CHECK_DEADLOCK FALSE
CONSTANTS
  Archives = {"a1"}
  Targets = {}
  Profiles = {"p1"}
  ArchiveOps = {}
  MaxStops = 1
  Imports <- MCImports
  DeviceRequests <- MCDeviceRequests
