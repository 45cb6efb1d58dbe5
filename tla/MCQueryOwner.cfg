SPECIFICATION Spec
CONSTANTS
  Owners <- MCOwners
  Patterns <- MCPatterns
  Spellings <- MCSpellings
  Canonical <- MCCanonical
  Captures <- MCCaptures
  Kinds <- MCKinds
  Pseudo <- MCPseudo
  TTLs <- MCTTLs
  Texts <- MCTexts
  RData <- MCRData
  Parse <- MCParse
  Placeholders <- MCPlaceholders
  Family <- MCFamily
  Legacy <- MCLegacy
  Jobs <- MCJobs
  Matches <- MCMatches
  Fixed <- MCFixed
  Alphabetic <- MCAlphabetic
  Expand <- MCExpand
  Target <- MCTarget
  Asked <- MCAskedLiteral
  Invalid = Invalid
  NoTemplate = NoTemplate
  NullData = NullData
  NoMode = NoMode
  Absent = Absent
  AnyKind = AnyKind
  NoData = NoData
  Idle = Idle
  Root = Root
  NoName = NoName
  None = None
  Writers = {w1}
  Readers = {r1}
  MaxRevision = 2
  MaxHops = 3
INVARIANT
  OwnersReplaced
