SPECIFICATION BatchSpec
CONSTANTS
  Owners <- MCOwners
  Patterns <- MCPatterns
  Spellings <- MCSpellings
  Canonical <- MCCanonical
  Captures <- MCCaptures
  Kinds <- MCKinds
  Pseudo <- MCPseudo
  TTLs <- MCTTLs
  Texts <- MCTexts
  RData <- MCRData
  Parse <- MCParse
  Placeholders <- MCPlaceholders
  Family <- MCFamily
  Legacy <- MCLegacy
  Jobs <- MCItems
  Invalid = Invalid
  NoTemplate = NoTemplate
  NullData = NullData
  NoMode = NoMode
  Absent = Absent
  AnyKind = AnyKind
  NoData = NoData
  Idle = Idle
  NoWriter = NoWriter
  Writers = {w1, w2}
  MaxRevision = 3
  Clients = {c1}
  Batches <- MCBatches
  Get = Get
  LocalJobs <- MCLocalJobs
  Nobody = Nobody
INVARIANTS
  ClientsOK
  RunsInOrder
PROPERTIES
  KeepsPromise
  TransactionEnds
  BatchesEnd
