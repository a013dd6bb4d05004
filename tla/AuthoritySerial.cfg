SPECIFICATION FairSpec
CONSTANTS
  NS <- Cns
  DOE <- Cdoe
  Tools = {t1}
  CertKeys <- Certs
  AddReqs <- SerialAdds
  FileReqs <- SerialFiles
  RmKeys <- SerialRemovals
  UpdReqs <- SerialUpdates
  Queries <- SerialQueries
  AuthVersions <- OneVersion
  MaxOps = 3
  Overlap = FALSE
  Kills = FALSE
  Busy = FALSE
INVARIANTS TypeOK DoeSound DenialAccepted AuthClosed
PROPERTIES NeverExits ChainRegenerated ImplementsStore
