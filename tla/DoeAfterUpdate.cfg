SPECIFICATION Spec
CONSTANTS
  NS <- Cns
  DOE <- Cdoe
  Tools = {t1}
  CertKeys <- Certs
  AddReqs <- None
  FileReqs <- None
  RmKeys <- None
  UpdReqs <- UpdateA1
  Queries <- QueryA
  AuthVersions <- OneVersion
  MaxOps = 2
  Overlap = FALSE
  Kills = FALSE
  Busy = FALSE
INVARIANTS QuiescentDoeSound
