SPECIFICATION Spec
CONSTANTS
  NS <- Cns
  DOE <- Cdoe
  Tools = {t1}
  CertKeys <- Certs
  AddReqs <- AddNetA
  FileReqs <- None
  RmKeys <- None
  UpdReqs <- None
  Queries <- QueryA
  AuthVersions <- OneVersion
  MaxOps = 2
  Overlap = FALSE
  Kills = FALSE
  Busy = FALSE
INVARIANTS DoeSound
