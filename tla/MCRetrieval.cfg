\* Searches against writers, drops and restarts with other encoders.
CONSTANTS
  Threads = {t1}
  Docs = {"d1", "d2", "d3"}
  Texts <- MCTexts
  Encoders <- MCEncoders
  Setups <- MCSetups
  Requests <- MCRequests
  Cut <- MCCut
  Meta <- MCMeta
  Raw <- MCRaw
  ById <- MCById
  Cosine <- MCCosine
  Unit = 4
  PostprocessOverfetch = 2
  MaxOverfetch = 3
  NoEncoder = NoEncoder
  NoDoc = NoDoc
  NoFilter = NoFilter
  NoAlpha = NoAlpha
  Blank = Blank
  Unparsable = Unparsable
  Questions <- MCQuestions
  Letters = {"a", "b", "c"}
  Words <- MCWords
  Members <- MCMembers
  SessionOf <- MCSessionOf
  Pool = 4
  TopKs = {1, 2}
  GateConfigs <- MCGateConfigs
  NoAnswer = NoAnswer
  Alphas = {0, 3, 4}
  TopNs = {1, 3}
  TopKReport = 3
  Near = 2
  Far = 3
  Discount <- MCDiscount
  DateOf <- MCDateOf
  Slack = 1
  Lives = 2
  DenseTop = 3
  TextCosine <- MCTextCosine
  NoDate = NoDate
  NoReport = NoReport
  Blanks = Blanks
SPECIFICATION BenchSpec
INVARIANTS HintIsTrue CellsHonest ConditionsHonest GateHonest EvidenceCovers
PROPERTY BestHits
