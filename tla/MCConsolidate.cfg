\* One consolidating client among clients that remember and forget.
CONSTANTS
  Clients = {c1}
  Docs = {1, 2, 3, 4}
  Terms = {1, 2}
  Uses <- MCUses
  Session <- MCSession
  Text <- MCText
  ModelTexts <- MCModelTexts
  Ids = {1, 2, 3, 4, 5, 6}
  MaxLen = 6
  Norm <- MCNorm
  Kind <- MCKind
  Redacted <- MCRedacted
  KeyBlock <- MCKeyBlock
  FenceTruncated <- MCFenceTruncated
  MaxFenceLines = 0
  TopTermsPerDoc = 2
  MaxTermDf = 2
  MinSharedTerms = 1
  MinMembers = 2
  MinSessions = 2
  StaleMargin = 0
  MaxCandidates = 2
  MaxMemberChars = 7
  DigestMaxChars = 5
  MaxVersion = 2
  NoDigest = NoDigest
SPECIFICATION Spec
INVARIANTS GroupsAreComponents DigestedNotSelected DigestFits
