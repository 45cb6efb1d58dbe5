SPECIFICATION ControlSpec
CONSTANTS
  Servers = {s1, s2, s3}
  NoServer = NoServer
INVARIANTS
  ControlTypeOK
  OneReloadable
  LeftOnlyByKill
PROPERTY
  FailsOnlyForOthers
