SPECIFICATION InUseSpec
CONSTANTS
  NS <- Cns
  DOE <- Cdoe
  Tools = {t1, t2}
  CertKeys <- Certs
  AddReqs <- ContentionAdds
  FileReqs <- None
  RmKeys <- None
  UpdReqs <- ContentionUpdates
  Queries <- None
  AuthVersions <- TwoVersions
  MaxOps = 3
  Overlap = TRUE
  Kills = FALSE
  Busy = TRUE
INVARIANTS DoeSound AuthClosed
SYMMETRY ToolSymmetry
CHECK_DEADLOCK FALSE
