\* A browser that keeps its connection open: an upload, then a page.
CONSTANTS
  Fds = {f1}
  Listener = listener
  NULL = null
  Kinds <- BrowserKinds
  Shapes <- OnlyPage
  BufferUnits = 2
  Window = 2
  MaxReqs = 2
  MaxConns = 1
  Pipelining = FALSE
  PartialSends = FALSE
  SlowReaders = FALSE
  Hangups = FALSE
  HangupIsReadable = TRUE
  FatalBuilds = FALSE
SPECIFICATION FairSpec

PROPERTIES EveryRequestAnswered
CHECK_DEADLOCK FALSE
