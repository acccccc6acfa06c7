\* A page of two bytes of which send() takes one.
CONSTANTS
  Fds = {f1}
  Listener = listener
  NULL = null
  Kinds <- PageKinds
  Shapes <- TwoBytes
  BufferUnits = 2
  Window = 2
  MaxReqs = 2
  MaxConns = 1
  Pipelining = FALSE
  PartialSends = TRUE
  SlowReaders = FALSE
  Hangups = FALSE
  HangupIsReadable = TRUE
  FatalBuilds = FALSE
SPECIFICATION FairSpec
PROPERTIES EveryRequestAnswered
CHECK_DEADLOCK FALSE
