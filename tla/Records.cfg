SPECIFICATION Spec
CONSTANTS
  NDNS <- Cndns
  UPDATE <- Cupdate
  NS <- Cns
  TXT <- Ctxt
  CERT <- Ccert
  APPCERT <- Cappcert
  DOE <- Cdoe
  VersionBase = 20
  Zone <- Net
  ZoneCerts <- Certificates
  AddReqs <- Adds
  AppCerts <- AppCertReqs
  UpdReqs <- Updates
  Files <- Packets
  Interests <- Questions
  MaxOps = 3
INVARIANTS TypeOK ContentsKept FiledByName Lossless AnswersName DenialNotMistaken
