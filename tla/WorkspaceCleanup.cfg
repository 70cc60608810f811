SPECIFICATION WorkspaceSpec
INVARIANT CleanupKeepsNewGeneration
CHECK_DEADLOCK FALSE
CONSTANTS
  Prepares = {"w1", "w2"}
  Disposals = {"d1", "d2"}
