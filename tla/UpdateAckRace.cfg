SPECIFICATION Spec
CONSTANTS
  NS <- Cns
  DOE <- Cdoe
  Tools = {t1}
  CertKeys <- Certs
  AddReqs <- AddA1
  FileReqs <- None
  RmKeys <- RemoveA
  UpdReqs <- UpdateA3
  Queries <- QueryA
  AuthVersions <- OneVersion
  MaxOps = 3
  Overlap = TRUE
  Kills = FALSE
  Busy = FALSE
INVARIANTS UpdateAckStored
