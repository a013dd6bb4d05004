SPECIFICATION InUseSpec
CONSTANTS
  NS <- Cns
  DOE <- Cdoe
  Tools = {t1}
  CertKeys <- Certs
  AddReqs <- AddA1
  FileReqs <- None
  RmKeys <- None
  UpdReqs <- None
  Queries <- QueryNet
  AuthVersions <- OneVersion
  MaxOps = 2
  Overlap = TRUE
  Kills = FALSE
  Busy = FALSE
PROPERTIES NeverExits
