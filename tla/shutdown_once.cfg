\* Two servers; SIGINT once, on the main thread.
CONSTANTS
  N = 2
  None = none
  HandlerThreads = {0}
  MaxSignals = 1
SPECIFICATION FairSpec
INVARIANTS TypeOK OneWriter HandlerCanGoOn
PROPERTIES Terminates FailureEndsAll
CHECK_DEADLOCK FALSE
