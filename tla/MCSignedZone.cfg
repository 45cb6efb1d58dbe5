SPECIFICATION Spec
CONSTANTS
  Owners <- MCOwners
  Patterns <- MCPatterns
  Spellings <- MCSpellings
  Canonical <- MCCanonical
  Captures <- MCCaptures
  Kinds <- MCKinds
  Pseudo <- MCPseudo
  TTLs <- MCTTLs
  Texts <- MCTexts
  RData <- MCRData
  Parse <- MCParse
  Placeholders <- MCPlaceholders
  Family <- MCFamily
  Starts <- MCStarts
  Jobs <- MCJobs
  Matches <- MCMatches
  Fixed <- MCRank
  Alphabetic <- MCRank
  Expand <- MCExpand
  Target <- MCTarget
  Asked <- MCAsked
  Invalid = Invalid
  NoTemplate = NoTemplate
  NullData = NullData
  NoMode = NoMode
  Absent = Absent
  AnyKind = AnyKind
  NoData = NoData
  Idle = Idle
  Legacy = {}
  Root = Root
  NoName = NoName
  None = None
  Writers = {w1}
  Origin = "z."
  InZone = {"z.", "a.z."}
  Askers = {r1, r2}
  MaxRevision = 2
  MaxHops = 3
  StoredSerial <- MCStoredSerial
  SerialLimit = 8
  RefreshAge = 2
  SignatureLife = 3
  MaxTime = 3
SYMMETRY Symmetry
INVARIANTS
  TypeOK
  CatalogCoherent
  AnswersFresh
  SignaturesCurrent
  ApexKept
  SerialsAdvance
