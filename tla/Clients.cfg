SPECIFICATION Spec
CONSTANTS
  Retries = 1
  MaxDepth = 2
  MaxCerts = 3
  Users = {"dig", "update", "app"}
  DigArgs <- DigOpts
  UpdArgs <- UpdOpts
  MaxApps = 2
  MaxRuns = 2
INVARIANTS TypeOK HeldWhileRunning TagReleased AllTries OneVerdict ZeroMeansDone AppTagReleased
PROPERTIES Exits
CHECK_DEADLOCK FALSE
