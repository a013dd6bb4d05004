SPECIFICATION DaemonSpec
CONSTANTS
  Tools = {t1, t2}
  Names <- ZoneNames
  CreateReqs <- Requests
  GivenCerts <- Given
  NoCert = NoCert
  MaxOps = 3
  DeleteAlone = TRUE
  Kills = TRUE
  Configs <- Configurations
SYMMETRY ToolSymmetry
INVARIANTS TypeOK RowsOwn InfoOwn SignerPublished ServesOwn
PROPERTIES RemovesOwn
CHECK_DEADLOCK FALSE
