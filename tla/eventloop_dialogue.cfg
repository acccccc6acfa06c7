\* Clients that wait for each answer, sends cut short, hang-ups: requests taken whole, no answer early or forgotten.
CONSTANTS
  Fds = {f1}
  Listener = listener
  NULL = null
  Kinds <- SessionKinds
  Shapes <- AnyShape
  BufferUnits = 2
  Window = 2
  MaxReqs = 3
  MaxConns = 2
  Pipelining = FALSE
  PartialSends = TRUE
  SlowReaders = TRUE
  Hangups = TRUE
  HangupIsReadable = TRUE
  FatalBuilds = TRUE
SPECIFICATION FairSpec
INVARIANTS NoneForgotten ReadyMeansWhole ClosedWithCause
PROPERTIES KeepsSessions 
CHECK_DEADLOCK FALSE
