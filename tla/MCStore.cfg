SPECIFICATION Spec
CONSTANTS
  Owners <- MCOwners
  Patterns <- MCPatterns
  Spellings <- MCSpellings
  Canonical <- MCCanonical
  Captures <- MCCaptures
  Kinds <- MCKinds
  Pseudo <- MCPseudo
  TTLs <- MCTTLs
  Texts <- MCTexts
  RData <- MCRData
  Parse <- MCParse
  Placeholders <- MCPlaceholders
  Family <- MCFamily
  Legacy <- MCLegacy
  Jobs <- MCJobs
  Invalid = Invalid
  NoTemplate = NoTemplate
  NullData = NullData
  NoMode = NoMode
  Absent = Absent
  AnyKind = AnyKind
  NoData = NoData
  Idle = Idle
  NoWriter = NoWriter
  Writers = {w1}
  MaxRevision = 6
INVARIANTS
  TypeOK
  NamesConsistent
  PoliciesOwned
  TransactionSound
PROPERTIES
  RevisionNamesContent
  AcknowledgedStored
  KeepsPromise
