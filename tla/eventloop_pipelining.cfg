\* One client that pipelines, sends cut short, hang-ups: Responses, write interest, bytes.
CONSTANTS
  Fds = {f1}
  Listener = listener
  NULL = null
  Kinds <- AnyKind
  Shapes <- AnyShape
  BufferUnits = 2
  Window = 2
  MaxReqs = 2
  MaxConns = 2
  Pipelining = TRUE
  PartialSends = TRUE
  SlowReaders = FALSE
  Hangups = TRUE
  HangupIsReadable = FALSE
  FatalBuilds = TRUE
SPECIFICATION Spec
INVARIANTS ResponsesOwned WriteInterest StreamSound GoesOnOnceBuilt
 
CHECK_DEADLOCK FALSE
