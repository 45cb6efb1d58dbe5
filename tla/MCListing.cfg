SPECIFICATION Spec
CONSTANTS
  Owners <- MCOwners
  Patterns <- MCPatterns
  Spellings <- MCSpellings
  Canonical <- MCCanonical
  Captures <- MCCaptures
  Kinds <- MCKinds
  Pseudo <- MCPseudo
  TTLs <- MCTTLs
  Texts <- MCTexts
  RData <- MCRData
  Parse <- MCParse
  Placeholders <- MCPlaceholders
  Family <- MCFamily
  Legacy <- MCLegacy
  Jobs <- MCJobs
  Invalid = Invalid
  NoTemplate = NoTemplate
  NullData = NullData
  NoMode = NoMode
  Absent = Absent
  AnyKind = AnyKind
  NoData = NoData
  Idle = Idle
  Writers = {w1}
  MaxRevision = 3
  Clients = {c1}
  Rank <- MCRank
  Prefixes <- MCPrefixes
  HasPrefix <- MCHasPrefix
  ListedKinds <- MCListedKinds
  Limits = {0, 1, 2, 3}
  MaxLimit = 2
  None = None
INVARIANTS
  TypeOK
  PagesOrdered
  PagesComplete
  ListedFresh
