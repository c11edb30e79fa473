SPECIFICATION FairSpec
CONSTANTS
  Lengths = {0, 1, 6}
  Number = {0, 1, 3, 6}
  MaxSpecs = 4
  RxBuffer = 2
  MaxVersions = 1
  Limits <- SomeLimits
INVARIANTS TypeOK MergeKeepsBytes RangesInObject SentInPlace ServedAsAsked NoMoreThanThere
PROPERTY DownloadEnds
