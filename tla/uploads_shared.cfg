\* Two servers share a directory and serve two requests each.
CONSTANTS
  Threads = {1, 2}
  Names <- SomeNames
  Dir <- MCDir
  None <- MCNone
  Dotted <- MCDotted
  Known <- KnownName
  Chop <- MCChop
  Number <- MCNumber
  Requests <- Busy
  MaxServed <- Twice
  MaxFiles = 6
  Locations <- SomeLocations
  FirstFiles <- OneFile
SPECIFICATION Spec
INVARIANTS TypeOK RefusedUploadChangesNothing
PROPERTIES NamedFilesKept ImplementsPrivateFiles
CHECK_DEADLOCK FALSE
