SPECIFICATION Spec
CONSTANTS
  Configs = {"plain", "signed"}
  Sockets <- MCSockets
  Database <- MCDatabase
  HasMmdb <- MCHasMmdb
  Signs <- MCSigns
  Outside = {"api"}
  Clients = {c1}
  None = None
INVARIANT
  GeoOrdered
