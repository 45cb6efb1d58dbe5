SPECIFICATION Spec
CONSTANTS
  Owners <- MCOwners
  Patterns <- MCPatterns
  Spellings <- MCSpellings
  Canonical <- MCCanonical
  Captures <- MCCaptures
  Kinds <- MCKinds
  Pseudo <- MCPseudo
  TTLs <- MCTTLs
  Texts <- MCTexts
  RData <- MCRData
  Parse <- MCParse
  Placeholders <- MCPlaceholders
  Family <- MCFamily
  Jobs <- MCJobs
  Matches <- MCMatches
  Fixed <- MCRank
  Alphabetic <- MCRank
  Expand <- MCExpand
  Target <- MCTarget
  Asked <- MCAsked
  Invalid = Invalid
  NoTemplate = NoTemplate
  NullData = NullData
  NoMode = NoMode
  Absent = Absent
  AnyKind = AnyKind
  NoData = NoData
  Idle = Idle
  Root = Root
  NoName = NoName
  Writers = {w1}
  MaxRevision = 2
  MaxHops = 3
  Legacy <- MCLegacy
  Country <- MCCountry
  Unknown = Unknown
  Peers = {"XX"}
  Responders = {r1, r2}
  MaxTurns = 2
SYMMETRY Symmetry
INVARIANTS
  TypeOK
  MembershipKept
  TurnsTaken
