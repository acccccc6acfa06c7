\* Two clients side by side: neither starves the other.
CONSTANTS
  Fds = {f1, f2}
  Listener = listener
  NULL = null
  Kinds <- PairKinds
  Shapes <- OneAndMany
  BufferUnits = 2
  Window = 2
  MaxReqs = 1
  MaxConns = 2
  Pipelining = FALSE
  PartialSends = FALSE
  SlowReaders = FALSE
  Hangups = FALSE
  HangupIsReadable = TRUE
  FatalBuilds = FALSE
SPECIFICATION FairSpec
INVARIANTS TypeOK Books
PROPERTIES EveryRequestAnswered DoomedAreClosed
CHECK_DEADLOCK FALSE
