\* Texts of any number of lines; those that grow too long are not read further.
CONSTANTS
  Lines <- MCLines
  MaxFenceLines = 2
  MaxDetail = 4
  Configs <- MCConfigs
  MaxWords = 6
SPECIFICATION TextSpec
INVARIANTS  NothingLeaks TruncationIsMarked WindowsCover
