\* A conversation of at most three rounds over two documents and a digest.
CONSTANTS
  d1 = d1
  d2 = d2
  d3 = d3
  Docs <- MCDocs
  Texts <- MCTexts
  Absent = Absent
  Knobs <- MCKnobs
  MaxTopK = 2
  MaxTopN = 2
  MaxPerDoc = 4
  MaxTotal = 5
  MaxRounds = 3
SPECIFICATION Spec
SYMMETRY Symmetry
INVARIANTS NothingShownTwice StateIsTrue BudgetKept DigestStandsAlone RoundsEnd
PROPERTY StopIsFinal
