------------------------------ MODULE Shutdown ------------------------------
(***************************************************************************)
(* The life of the process: main, its SIGINT handler, the detached threads *)
(* of the servers, and the mutex of the logger that all of them take       *)
(* (src/src/main.cpp, src/src/logger/Logger.cpp, Server::initiate and      *)
(* Server::~Server).  What a server does between two messages is EventLoop.*)
(*                                                                         *)
(* A thread has its own frame and, while it runs the handler, the frame of *)
(* the handler on top.  One step is what a frame does between two points   *)
(* at which another thread or a signal can matter.                         *)
(***************************************************************************)
EXTENDS Integers

CONSTANTS
  N,              \* number of servers
  None,           \* no owner
  HandlerThreads, \* the threads on which the kernel may run the handler
  MaxSignals      \* how many times SIGINT is sent, at most

Main    == 0
Servers == 1..N
Threads == 0..N

ASSUME NAssumption       == N \in Nat
ASSUME NoneAssumption    == None \notin Threads
ASSUME HandlerAssumption == HandlerThreads \subseteq Threads
ASSUME SignalsAssumption == MaxSignals \in Nat

VARIABLES
  status,   \* g_status
  owner,    \* the thread that has locked g_write
  intact,   \* g_write has not been destroyed
  doing,    \* what each thread does when it is not logging
  own,      \* its frame in Logger: "out", "wait" (lock) or "in" (until unlock)
  handler,  \* the handler's frame in Logger, "out" when there is none
  next,     \* main: the server whose turn it is
  closed,   \* servers that ~Server has been called for
  signals,  \* how many times SIGINT has been sent
  ended     \* the process has ended

vars == <<status, owner, intact, doing, own, handler, next, closed, signals, ended>>

Init ==
  /\ status = FALSE /\ owner = None /\ intact = TRUE
  /\ doing = [t \in Threads |-> IF t = Main THEN "hello" ELSE "none"]
  /\ own = [t \in Threads |-> "out"] /\ handler = [t \in Threads |-> "out"]
  /\ next = 1 /\ closed = {} /\ signals = 0 /\ ended = FALSE

\* A frame of t runs: its own, unless the handler has interrupted it.
Runs(t, what) == ~ended /\ doing[t] = what /\ own[t] = "out" /\ handler[t] = "out"

Goes(t, what) == doing' = [doing EXCEPT ![t] = what]

\* A call of Logger::print...Message, after which t does `what'.
Logs(t, what) == Goes(t, what) /\ own' = [own EXCEPT ![t] = "wait"]

-----------------------------------------------------------------------------
(* Logger: pthread_mutex_lock, output, pthread_mutex_unlock. *)

\* Faulty variant: the lock is not waited for.
TakenWithoutWaiting(t) == owner' = t

\* A lock of a destroyed mutex fails at once, and nobody looks at its result.
Taken(t) ==
  \/ intact /\ owner = None /\ owner' = t
  \/ ~intact /\ UNCHANGED owner

Released(t) == owner' = IF owner = t THEN None ELSE owner

Lock(t) ==
  /\ ~ended /\ own[t] = "wait" /\ handler[t] = "out"
  /\ Taken(t)
  /\ own' = [own EXCEPT ![t] = "in"]
  /\ UNCHANGED <<status, intact, doing, handler, next, closed, signals, ended>>

Unlock(t) ==
  /\ ~ended /\ own[t] = "in" /\ handler[t] = "out"
  /\ Released(t)
  /\ own' = [own EXCEPT ![t] = "out"]
  /\ UNCHANGED <<status, intact, doing, handler, next, closed, signals, ended>>

HandlerLock(t) ==
  /\ ~ended /\ handler[t] = "wait"
  /\ Taken(t)
  /\ handler' = [handler EXCEPT ![t] = "in"]
  /\ UNCHANGED <<status, intact, doing, own, next, closed, signals, ended>>

HandlerUnlock(t) ==
  /\ ~ended /\ handler[t] = "in"
  /\ Released(t)
  /\ handler' = [handler EXCEPT ![t] = "out"]
  /\ UNCHANGED <<status, intact, doing, own, next, closed, signals, ended>>

-----------------------------------------------------------------------------
(* SIGINT: the handler is there from line 26 of main.cpp on, and blocks the   *)
(* signal while it runs; before that the signal ends the process.             *)

\* Faulty variant: the handler is there before the first message is written.
InstalledEarly == TRUE

Installed == doing[Main] \notin {"hello", "install"}

Interrupt(t) ==
  /\ ~ended /\ signals < MaxSignals /\ Installed
  /\ t \in HandlerThreads /\ doing[t] # "none" /\ handler[t] = "out"
  /\ status' = TRUE
  /\ handler' = [handler EXCEPT ![t] = "wait"]
  /\ signals' = signals + 1
  /\ UNCHANGED <<owner, intact, doing, own, next, closed, ended>>

KilledEarly ==
  /\ ~ended /\ signals < MaxSignals /\ ~Installed
  /\ ended' = TRUE /\ signals' = signals + 1
  /\ UNCHANGED <<status, owner, intact, doing, own, handler, next, closed>>

-----------------------------------------------------------------------------
(* main *)

Hello ==
  /\ Runs(Main, "hello")
  /\ Logs(Main, "install")
  /\ UNCHANGED <<status, owner, intact, handler, next, closed, signals, ended>>

InstallHandler ==
  /\ Runs(Main, "install")
  /\ Goes(Main, "configure")
  /\ UNCHANGED <<status, owner, intact, own, handler, next, closed, signals, ended>>

\* The constructor of Config, which ends the process if it does not like the file.
ReadConfig ==
  /\ Runs(Main, "configure")
  /\ \/ Goes(Main, "start") /\ UNCHANGED ended
     \/ ended' = TRUE /\ UNCHANGED doing
  /\ UNCHANGED <<status, owner, intact, own, handler, next, closed, signals>>

\* pthread_create and pthread_detach of the next server.
StartThread ==
  /\ Runs(Main, "start") /\ next \in Servers
  /\ Goes(next, "initiate")
  /\ next' = next + 1
  /\ UNCHANGED <<status, owner, intact, own, handler, closed, signals, ended>>

StartFails ==
  /\ Runs(Main, "start") /\ next \in Servers
  /\ ended' = TRUE
  /\ UNCHANGED <<status, owner, intact, doing, own, handler, next, closed, signals>>

AllStarted ==
  /\ Runs(Main, "start") /\ next \notin Servers
  /\ Goes(Main, "while")
  /\ UNCHANGED <<status, owner, intact, own, handler, next, closed, signals, ended>>

\* Faulty variant: the compiler keeps the flag in a register.
SeenCached == FALSE

\* g_status is read again in each round, as the build does not optimise.
Seen == status

While ==
  /\ Runs(Main, "while")
  /\ Goes(Main, IF Seen THEN "destroy" ELSE "if")
  /\ UNCHANGED <<status, owner, intact, own, handler, next, closed, signals, ended>>

\* The flag has been set between the two reads: the mutex is taken once for the
\* text and once for the output.
If ==
  /\ Runs(Main, "if")
  /\ IF Seen THEN Logs(Main, "closing") ELSE Goes(Main, "while") /\ UNCHANGED own
  /\ UNCHANGED <<status, owner, intact, handler, next, closed, signals, ended>>

Closing ==
  /\ Runs(Main, "closing")
  /\ Logs(Main, "while")
  /\ UNCHANGED <<status, owner, intact, handler, next, closed, signals, ended>>

\* A mutex that is locked is not destroyed (EBUSY).
DestroyMutex ==
  /\ Runs(Main, "destroy")
  /\ intact' = (intact /\ owner # None)
  /\ next' = N
  /\ Goes(Main, "destruct")
  /\ UNCHANGED <<status, owner, own, handler, closed, signals, ended>>

\* Faulty variant: the index is moved first.
DestructedAfterMove == closed' = closed \cup {next - 1}

\* The elements of the array are destroyed from its end.
Destructed == closed' = closed \cup {next}

\* ~Server, last server first: there is a message for the listening socket, if the
\* thread has come to serve; those for the connections are left out.
Destruct ==
  /\ Runs(Main, "destruct") /\ next \in Servers
  /\ Destructed
  /\ next' = next - 1
  /\ IF doing[next] = "serve" THEN Logs(Main, "destruct") ELSE UNCHANGED <<doing, own>>
  /\ UNCHANGED <<status, owner, intact, handler, signals, ended>>

Return ==
  /\ Runs(Main, "destruct") /\ next \notin Servers
  /\ ended' = TRUE
  /\ UNCHANGED <<status, owner, intact, doing, own, handler, next, closed, signals>>

-----------------------------------------------------------------------------
(* The thread of server s. *)

Initiate(s) ==
  /\ Runs(s, "initiate")
  /\ Goes(s, "serve")
  /\ UNCHANGED <<status, owner, intact, own, handler, next, closed, signals, ended>>

\* socket(), setsockopt(), fcntl(), bind() or listen() fails.
InitiateFails(s) ==
  /\ Runs(s, "initiate")
  /\ Logs(s, "exit")
  /\ UNCHANGED <<status, owner, intact, handler, next, closed, signals, ended>>

\* Faulty variant: the thread ends and not the process.
ExitThread == UNCHANGED ended

\* exit(-1)
Exit == ended' = TRUE

ExitFailure(s) ==
  /\ Runs(s, "exit")
  /\ Exit
  /\ Goes(s, "none")
  /\ UNCHANGED <<status, owner, intact, own, handler, next, closed, signals>>

\* runServer goes from one message to the next.
Serve(s) ==
  /\ Runs(s, "serve")
  /\ Logs(s, "serve")
  /\ UNCHANGED <<status, owner, intact, handler, next, closed, signals, ended>>

\* A thread that goes on with a server that has been destroyed may do anything.
UsesDestroyed(s) ==
  /\ Runs(s, "serve") /\ s \in closed
  /\ ended' = TRUE
  /\ UNCHANGED <<status, owner, intact, doing, own, handler, next, closed, signals>>

MainStep == \/ Hello \/ InstallHandler \/ ReadConfig \/ StartThread \/ StartFails \/ AllStarted
            \/ While \/ If \/ Closing \/ DestroyMutex \/ Destruct \/ Return

Next ==
  \/ MainStep
  \/ KilledEarly
  \/ \E t \in Threads : Lock(t) \/ Unlock(t) \/ HandlerLock(t) \/ HandlerUnlock(t) \/ Interrupt(t)
  \/ \E s \in Servers : \/ Initiate(s) \/ InitiateFails(s) \/ ExitFailure(s)
                        \/ Serve(s) \/ UsesDestroyed(s)

Spec == Init /\ [][Next]_vars

(***************************************************************************)
(* Every thread is scheduled; a thread that waits for the mutex gets it if *)
(* it is free again and again, unless it is destroyed meanwhile: then only *)
(* main is sure to go on, which asks for it afterwards.  Nobody has to     *)
(* send SIGINT.                                                            *)
(***************************************************************************)
Fairness ==
  /\ WF_vars(MainStep) /\ WF_vars(Lock(Main)) /\ WF_vars(HandlerLock(Main))
  /\ \A t \in Threads : /\ SF_vars(intact /\ Lock(t)) /\ WF_vars(Unlock(t))
                        /\ SF_vars(intact /\ HandlerLock(t)) /\ WF_vars(HandlerUnlock(t))
  /\ \A s \in Servers : WF_vars(Initiate(s) \/ InitiateFails(s)) /\ WF_vars(ExitFailure(s))

FairSpec == Spec /\ Fairness
-----------------------------------------------------------------------------
(* Properties *)

TypeOK ==
  /\ status \in BOOLEAN /\ intact \in BOOLEAN /\ ended \in BOOLEAN
  /\ owner \in Threads \cup {None}
  /\ doing \in [Threads -> {"none", "hello", "install", "configure", "start", "while", "if", "closing",
                            "destroy", "destruct", "initiate", "serve", "exit"}]
  /\ own \in [Threads -> {"out", "wait", "in"}]
  /\ handler \in [Threads -> {"out", "wait", "in"}]
  /\ next \in 0..N + 1
  /\ closed \subseteq Servers
  /\ signals \in 0..MaxSignals

\* Until the mutex is destroyed, one frame at most writes to std::cerr: no other
\* thread's, and not the handler's above a frame that is writing.
OneWriter ==
  intact => \A t, u \in Threads :
              /\ own[t] = "in" /\ own[u] = "in" => t = u
              /\ handler[t] = "in" /\ handler[u] = "in" => t = u
              /\ ~(own[t] = "in" /\ handler[u] = "in")

\* The handler never waits for a lock that the frame it has interrupted holds.
HandlerCanGoOn == \A t \in Threads : ~(own[t] = "in" /\ handler[t] = "wait" /\ intact)

\* After SIGINT the process ends, however the servers go on logging.
Terminates == status ~> ended

\* A server that cannot bind its port ends the process, and all servers with it.
FailureEndsAll == \A s \in Servers : doing[s] = "exit" ~> ended
=============================================================================
