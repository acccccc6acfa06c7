\* One server, one client that removes a file, and every kind of location.
CONSTANTS
  Threads = {1}
  Names <- SomeNames
  Dir <- MCDir
  None <- MCNone
  Dotted <- MCDotted
  Known <- KnownName
  Chop <- MCChop
  Number <- MCNumber
  Requests <- Remover
  MaxServed <- FourTimes
  MaxFiles = 6
  Locations <- SomeLocations
  FirstFiles <- OneFile
SPECIFICATION Spec
INVARIANTS RefusedChangesNothing
CHECK_DEADLOCK FALSE
