SPECIFICATION Spec
CONSTANTS
  NS <- Cns
  DOE <- Cdoe
  Tools = {t1}
  CertKeys <- Certs
  AddReqs <- ReaderAdds
  FileReqs <- None
  RmKeys <- ReaderRemovals
  UpdReqs <- None
  Queries <- ReaderQueries
  AuthVersions <- OneVersion
  MaxOps = 3
  Overlap = TRUE
  Kills = TRUE
  Busy = FALSE
INVARIANTS UniqueRecord DoeSound AuthClosed
