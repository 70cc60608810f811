SPECIFICATION UpdaterSpec
INVARIANT TornStateIsMendable
CHECK_DEADLOCK FALSE
CONSTANTS
  Releases = {"A", "B"}
  Bundled = "A"
  UpdateRequests <- MCUpdates
  MaxMishaps = 3
