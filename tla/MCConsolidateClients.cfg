\* Two consolidating clients whose memories get one key.
CONSTANTS
  Clients = {c1, c2}
  Docs = {1, 2}
  Terms = {1, 2}
  Uses <- MCAlike
  Session <- MCAlikeSession
  Text <- MCAlikeText
  ModelTexts <- MCModelTexts
  Ids = {1, 2, 3, 4, 5, 6}
  MaxLen = 6
  Norm <- MCNorm
  Kind <- MCKind
  Redacted <- MCRedacted
  KeyBlock <- MCKeyBlock
  FenceTruncated <- MCFenceTruncated
  MaxFenceLines = 0
  TopTermsPerDoc = 2
  MaxTermDf = 2
  MinSharedTerms = 3
  MinMembers = 1
  MinSessions = 1
  StaleMargin = 0
  MaxCandidates = 2
  MaxMemberChars = 7
  DigestMaxChars = 5
  MaxVersion = 2
  NoDigest = NoDigest
SPECIFICATION Spec
PROPERTIES LineageKept VersionsGrow
