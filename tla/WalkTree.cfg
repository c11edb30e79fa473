SPECIFICATION FairSpec
CONSTANTS
  Letter <- Letters
  Root <- RootPath
  Base <- BasePath
  MaxLength = 5
  Infinity = 9
  Trees <- SomeTrees
  Locks <- SomeLocks
  PropfindUri <- PropfindUris
  SourceUri <- SourceUris
  TargetUri <- TargetUris
  OtherPaths <- Disturbed
  MaxOthers = 2
INVARIANTS TypeOK ReportsResolve FlagsTrue NoTwice ListsAll CopyFaithful NeverCopiesItsCopy SourceSurvives
PROPERTIES CopyConfined WalkEnds
