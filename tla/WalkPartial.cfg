SPECIFICATION Spec
CONSTANTS
  Letter <- Letters
  Root <- RootPath
  Base <- BasePath
  MaxLength = 5
  Infinity = 9
  Trees <- SomeTrees
  Locks <- SomeLocks
  PropfindUri <- PropfindUris
  SourceUri <- SourceUris
  TargetUri <- TargetUris
  OtherPaths <- Disturbed
  MaxOthers = 0
INVARIANT CopyToldWhole

