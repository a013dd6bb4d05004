SPECIFICATION InUseSpec
CONSTANTS
  NS <- Cns
  DOE <- Cdoe
  Tools = {t1}
  CertKeys <- Certs
  AddReqs <- AddA12
  FileReqs <- None
  RmKeys <- None
  UpdReqs <- UpdateA3
  Queries <- QueryA
  AuthVersions <- OneVersion
  MaxOps = 3
  Overlap = TRUE
  Kills = FALSE
  Busy = FALSE
PROPERTIES NewerKept
