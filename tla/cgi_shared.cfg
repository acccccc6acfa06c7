\* Two servers with one connection and one call each, and the descriptors these need.
CONSTANTS
  Threads = {t1, t2}
  Fds = {4, 5, 6, 7, 8, 9}
  None = None
  Endings <- SomeEndings
  MaxConns = 1
  MaxCalls = 1
SPECIFICATION FairSpec
INVARIANTS TypeOK NothingLeft OwnUntilStruck OutputComplete OkMeansOk DiesWithCause
PROPERTIES StruckByRepeatedClose Returns
CHECK_DEADLOCK FALSE
