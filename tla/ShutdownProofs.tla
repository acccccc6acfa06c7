--------------------------- MODULE ShutdownProofs ---------------------------
(* Proofs about Shutdown, for any number of servers and any choice of the   *)
(* threads that take SIGINT.                                                *)
EXTENDS Shutdown, TLAPS

\* Until the mutex is destroyed, a frame that writes belongs to the owner of the
\* mutex, and of a thread's two frames one writes at most.
WriterOwns ==
  intact => \A t \in Threads :
              /\ own[t] = "in" => owner = t
              /\ handler[t] = "in" => owner = t
              /\ ~(own[t] = "in" /\ handler[t] = "in")

Inv == TypeOK /\ WriterOwns

LEMMA ThreadsFacts == Main \in Threads /\ Servers \subseteq Threads
  BY NAssumption DEF Main, Threads, Servers

LEMMA InitInv == Init => Inv
<1> SUFFICES ASSUME Init PROVE Inv
  OBVIOUS
<1>1. WriterOwns
  BY DEF Init, WriterOwns
<1>2. next \in 0..N + 1 /\ signals \in 0..MaxSignals
  BY NAssumption, SignalsAssumption DEF Init
<1>3. doing \in [Threads -> {"none", "hello", "install", "configure", "start", "while", "if", "closing",
                             "destroy", "destruct", "initiate", "serve", "exit"}]
  BY DEF Init
<1>4. /\ own \in [Threads -> {"out", "wait", "in"}]
      /\ handler \in [Threads -> {"out", "wait", "in"}]
      /\ closed \subseteq Servers
  BY DEF Init
<1> QED BY <1>1, <1>2, <1>3, <1>4 DEF Init, Inv, TypeOK

\* What the three frames of the logger do to the invariant.
LEMMA LoggerStep ==
  ASSUME Inv, NEW t \in Threads,
         Lock(t) \/ Unlock(t) \/ HandlerLock(t) \/ HandlerUnlock(t)
  PROVE  Inv'
<1>1. CASE Lock(t)
  <2>1. TypeOK'
    BY <1>1 DEF Lock, Taken, Inv, TypeOK
  <2>2. WriterOwns'
    BY <1>1, NoneAssumption DEF Lock, Taken, Inv, TypeOK, WriterOwns
  <2> QED BY <2>1, <2>2 DEF Inv
<1>2. CASE Unlock(t)
  <2>1. TypeOK'
    BY <1>2 DEF Unlock, Released, Inv, TypeOK
  <2>2. WriterOwns'
    BY <1>2 DEF Unlock, Released, Inv, TypeOK, WriterOwns
  <2> QED BY <2>1, <2>2 DEF Inv
<1>3. CASE HandlerLock(t)
  <2>1. TypeOK'
    BY <1>3 DEF HandlerLock, Taken, Inv, TypeOK
  <2>2. WriterOwns'
    BY <1>3, NoneAssumption DEF HandlerLock, Taken, Inv, TypeOK, WriterOwns
  <2> QED BY <2>1, <2>2 DEF Inv
<1>4. CASE HandlerUnlock(t)
  <2>1. TypeOK'
    BY <1>4 DEF HandlerUnlock, Released, Inv, TypeOK
  <2>2. WriterOwns'
    BY <1>4 DEF HandlerUnlock, Released, Inv, TypeOK, WriterOwns
  <2> QED BY <2>1, <2>2 DEF Inv
<1> QED BY <1>1, <1>2, <1>3, <1>4

LEMMA SignalStep ==
  ASSUME Inv, KilledEarly \/ \E t \in Threads : Interrupt(t)
  PROVE  Inv'
<1>1. CASE KilledEarly
  BY <1>1, SignalsAssumption DEF KilledEarly, Inv, TypeOK, WriterOwns
<1>2. ASSUME NEW t \in Threads, Interrupt(t) PROVE Inv'
  <2>1. TypeOK'
    BY <1>2, SignalsAssumption DEF Interrupt, Inv, TypeOK
  <2>2. WriterOwns'
    BY <1>2 DEF Interrupt, Inv, TypeOK, WriterOwns
  <2> QED BY <2>1, <2>2 DEF Inv
<1> QED BY <1>1, <1>2

\* A frame that calls the logger waits first, and a frame that does not stays out of
\* it: both keep the invariant.
LEMMA Outside ==
  ASSUME Inv, NEW t \in Threads, own[t] = "out",
         own' = own \/ own' = [own EXCEPT ![t] = "wait"],
         intact' => intact, UNCHANGED <<owner, handler>>
  PROVE  WriterOwns'
  BY DEF Inv, TypeOK, WriterOwns

LEMMA MainInv == Inv /\ MainStep => Inv'
<1> SUFFICES ASSUME Inv, MainStep PROVE Inv'
  OBVIOUS
<1> USE ThreadsFacts
<1>1. WriterOwns'
  <2>1. /\ own[Main] = "out"
        /\ own' = own \/ own' = [own EXCEPT ![Main] = "wait"]
        /\ intact' => intact
        /\ UNCHANGED <<owner, handler>>
    <3>1. CASE DestroyMutex
      BY <3>1 DEF DestroyMutex, Runs
    <3>2. CASE If
      BY <3>2 DEF If, Runs, Logs
    <3>3. CASE Destruct
      BY <3>3 DEF Destruct, Runs, Logs
    <3>4. CASE Hello \/ Closing
      BY <3>4 DEF Hello, Closing, Runs, Logs
    <3>5. CASE InstallHandler \/ ReadConfig \/ StartThread \/ StartFails \/ AllStarted \/ While \/ Return
      BY <3>5 DEF InstallHandler, ReadConfig, StartThread, StartFails, AllStarted, While, Return, Runs
    <3> QED BY <3>1, <3>2, <3>3, <3>4, <3>5 DEF MainStep
  <2> QED BY <2>1, Outside
<1>2. CASE Hello \/ InstallHandler \/ ReadConfig \/ StartFails \/ AllStarted \/ While \/ If \/ Closing \/ Return
  BY <1>1, <1>2 DEF Hello, InstallHandler, ReadConfig, StartFails, AllStarted, While, If, Closing, Return,
                    Logs, Goes, Inv, TypeOK
<1>3. CASE StartThread
  <2>1. next' \in 0..N + 1
    BY <1>3, NAssumption DEF StartThread, Servers, Inv, TypeOK
  <2> QED BY <1>1, <1>3, <2>1 DEF StartThread, Goes, Inv, TypeOK
<1>4. CASE DestroyMutex
  <2>1. next' \in 0..N + 1
    BY <1>4, NAssumption DEF DestroyMutex
  <2> QED BY <1>1, <1>4, <2>1 DEF DestroyMutex, Goes, Inv, TypeOK
<1>5. CASE Destruct
  <2>1. next' \in 0..N + 1 /\ closed' \subseteq Servers
    BY <1>5, NAssumption DEF Destruct, Destructed, Servers, Inv, TypeOK
  <2> QED BY <1>1, <1>5, <2>1 DEF Destruct, Logs, Goes, Inv, TypeOK
<1> QED BY <1>2, <1>3, <1>4, <1>5 DEF MainStep

LEMMA ServerInv ==
  ASSUME Inv, NEW s \in Servers,
         \/ Initiate(s) \/ InitiateFails(s) \/ ExitFailure(s)
         \/ Serve(s) \/ UsesDestroyed(s)
  PROVE  Inv'
<1> USE ThreadsFacts
<1>1. WriterOwns'
  <2>1. /\ own[s] = "out"
        /\ own' = own \/ own' = [own EXCEPT ![s] = "wait"]
        /\ intact' => intact
        /\ UNCHANGED <<owner, handler>>
    BY DEF Initiate, InitiateFails, ExitFailure, Serve, UsesDestroyed, Runs, Logs
  <2> QED BY <2>1, Outside
<1>2. TypeOK'
  BY DEF Initiate, InitiateFails, ExitFailure, Exit, Serve, UsesDestroyed, Logs, Goes, Inv, TypeOK
<1> QED BY <1>1, <1>2 DEF Inv

LEMMA StepInv == Inv /\ [Next]_vars => Inv'
<1> SUFFICES ASSUME Inv, [Next]_vars PROVE Inv'
  OBVIOUS
<1>1. CASE UNCHANGED vars
  BY <1>1 DEF vars, Inv, TypeOK, WriterOwns
<1> QED BY <1>1, LoggerStep, SignalStep, MainInv, ServerInv DEF Next

\* Until main destroys g_write, the messages of all threads, main and the signal
\* handler never mix, for any number of servers and whatever thread takes SIGINT.
THEOREM LoggerExclusion == Spec => [](TypeOK /\ OneWriter)
<1>1. Inv => TypeOK /\ OneWriter
  BY DEF Inv, WriterOwns, OneWriter
<1> QED BY <1>1, InitInv, StepInv, PTL DEF Spec

\* Every thread is in a place of the code that exists, and only main counts signals
\* and servers: for any number of servers and whatever thread takes SIGINT.
THEOREM ShutdownTypes == Spec => []TypeOK
<1>1. Inv => TypeOK
  BY DEF Inv
<1> QED BY <1>1, InitInv, StepInv, PTL DEF Spec

-----------------------------------------------------------------------------
\* If only main takes SIGINT, and once: main is outside the logger when it comes, and
\* stays there while the handler runs.
MainIsOut ==
  /\ \A t \in Servers : handler[t] = "out"
  /\ signals = 0 => ~status /\ handler[Main] = "out"
  /\ handler[Main] # "out" => own[Main] = "out"
  /\ signals = 0 /\ Installed => own[Main] = "out"
  /\ doing[Main] \in {"destroy", "destruct", "closing"} => status

LEMMA MainIsNoServer == Main \notin Servers /\ \A t \in Threads : t = Main \/ t \in Servers
  BY NAssumption DEF Main, Servers, Threads

LEMMA InitOut == Init => MainIsOut
  BY ThreadsFacts, MainIsNoServer DEF Init, MainIsOut, Installed

LEMMA StepOut ==
  ASSUME HandlerThreads \subseteq {Main}, MaxSignals <= 1, Inv, MainIsOut, [Next]_vars
  PROVE  MainIsOut'
<1> USE ThreadsFacts, MainIsNoServer
<1>1. CASE UNCHANGED vars
  BY <1>1 DEF vars, MainIsOut, Installed
<1>2. ASSUME NEW t \in Threads, Lock(t) \/ Unlock(t) PROVE MainIsOut'
  BY <1>2 DEF Lock, Unlock, MainIsOut, Installed, Inv, TypeOK
<1>3. ASSUME NEW t \in Threads, HandlerLock(t) \/ HandlerUnlock(t) PROVE MainIsOut'
  BY <1>3 DEF HandlerLock, HandlerUnlock, MainIsOut, Installed, Inv, TypeOK
<1>4. ASSUME NEW t \in Threads, Interrupt(t) PROVE MainIsOut'
  <2>1. t = Main /\ signals = 0 /\ signals' = 1
    BY <1>4, SignalsAssumption DEF Interrupt, Inv, TypeOK
  <2> QED BY <1>4, <2>1 DEF Interrupt, MainIsOut, Installed, Inv, TypeOK
<1>5. CASE KilledEarly
  BY <1>5 DEF KilledEarly, MainIsOut, Installed, Inv, TypeOK
<1>6. CASE Hello \/ InstallHandler \/ ReadConfig \/ StartFails \/ AllStarted \/ Return \/ DestroyMutex
  BY <1>6 DEF Hello, InstallHandler, ReadConfig, StartFails, AllStarted, Return, DestroyMutex,
              Runs, Logs, Goes, MainIsOut, Installed, Inv, TypeOK
<1>7. CASE StartThread
  BY <1>7 DEF StartThread, Runs, Goes, MainIsOut, Installed, Inv, TypeOK
<1>8. CASE While
  BY <1>8 DEF While, Seen, Runs, Goes, MainIsOut, Installed, Inv, TypeOK
<1>9. CASE If \/ Closing \/ Destruct
  BY <1>9 DEF If, Closing, Destruct, Seen, Runs, Logs, Goes, MainIsOut, Installed, Inv, TypeOK
<1>10. ASSUME NEW s \in Servers, \/ Initiate(s) \/ InitiateFails(s) \/ ExitFailure(s)
                                \/ Serve(s) \/ UsesDestroyed(s)
       PROVE  MainIsOut'
  BY <1>10 DEF Initiate, InitiateFails, ExitFailure, Exit, Serve, UsesDestroyed,
               Logs, Goes, MainIsOut, Installed, Inv, TypeOK
<1> QED
  BY <1>1, <1>2, <1>3, <1>4, <1>5, <1>6, <1>7, <1>8, <1>9, <1>10 DEF Next, MainStep

\* The handler of a single SIGINT never waits for a lock of the frame below it, if
\* main takes the signal: main logs before the handler is there and after the signal.
THEOREM HandlerGoesOn ==
  ASSUME HandlerThreads \subseteq {Main}, MaxSignals <= 1
  PROVE  Spec => []HandlerCanGoOn
<1>1. Inv /\ MainIsOut => HandlerCanGoOn
  BY MainIsNoServer DEF MainIsOut, HandlerCanGoOn
<1>2. Inv /\ MainIsOut /\ [Next]_vars => MainIsOut'
  BY StepOut
<1> QED BY <1>1, <1>2, InitInv, StepInv, InitOut, PTL DEF Spec
=============================================================================
