SPECIFICATION Spec
CONSTANTS
  Configs <- MCConfigs
  Sockets <- MCSockets
  Database <- MCDatabase
  HasMmdb <- MCHasMmdb
  Signs <- MCSigns
  Outside = {"api"}
  Clients = {c1, c2}
  None = None
INVARIANTS
  TypeOK
  SocketsMatch
  RejectedKeepsPrevious
PROPERTIES
  DiesOnlyProvoked
  Answered
