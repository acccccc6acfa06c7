------------------------------- MODULE CgiRun -------------------------------
(***************************************************************************)
(* The run of a CGI script: Cgi::execute (src/src/cgi/Cgi.cpp) and what    *)
(* checkPathForLocation makes of its result (fillCgiAnswer_ and            *)
(* setCgiCode_, src/src/response/Response.cpp).                            *)
(*                                                                         *)
(* The servers of a process are threads.  They share one table of          *)
(* descriptors, from which every call takes the lowest free number, the    *)
(* children of the process and the logger's mutex g_write.  One step is    *)
(* one system call, or what a thread does while it holds the mutex.        *)
(***************************************************************************)
EXTENDS Integers, Sequences, FiniteSets

CONSTANTS
  Threads,  \* the servers
  Fds,      \* descriptors the process may have besides its listening sockets
  None,     \* no thread
  Endings,  \* how scripts end, and what they have printed
  MaxConns, \* how many connections a server has at a time
  MaxCalls  \* how many scripts a server runs

NPos   == -1                             \* std::string::npos
Silent == [at |-> NPos, code |-> 0]      \* nothing, or no Status line

(***************************************************************************)
(* Of what a script prints only the Status line counts: where it is, and   *)
(* the number it gives; without a Status line there is no number.          *)
(***************************************************************************)
Output == [at: Nat, code: Nat] \cup {Silent}
Ending == [how: {"well", "failed", "killed"}, out: Output]

ASSUME NoneAssumption    == None \notin Threads
ASSUME FdsAssumption     == Fds \subseteq Nat
ASSUME EndingsAssumption == Endings \subseteq Ending
ASSUME BoundsAssumption  == MaxConns \in Nat /\ MaxCalls \in Nat

VARIABLES
  table,   \* what is open under each number, and who opened it
  lock,    \* who holds g_write
  dead,    \* the thread that has ended the process, or None
  pc,      \* where each thread is
  conns,   \* the numbers of the connections in each server's _fds
  fd,      \* fdInput and fdOutput
  forked,  \* whether fork() has succeeded
  child,   \* the child of each call
  result,  \* simple_sgi: the code and the output that execute returns
  todo,    \* the numbers that execute has still to close
  calls,   \* how many scripts each server has run
  code,    \* the status that the client gets
  struck,  \* a close has hit what another thread had opened (history)
  stolen   \* another thread has waited for this thread's child (history)

call == <<fd, forked, child, result, todo>>
vars == <<table, lock, dead, pc, conns, call, calls, code, struck, stolen>>

Free     == [kind |-> "free", owner |-> None]
Entry    == [kind: {"input", "output", "conn"}, owner: Threads] \cup {Free}
NoEnding == [how |-> "well", out |-> Silent]
NoChild  == [state |-> "none", ending |-> NoEnding]
NoFiles  == [input |-> NPos, output |-> NPos]

\* Faulty variant: the code starts with nothing.
NoResultUnset == [code |-> 0, out |-> Silent]

\* What execute returns if nothing else is set.
NoResult == [code |-> 500, out |-> Silent]

Init ==
  /\ table = [n \in Fds |-> Free]
  /\ lock = None /\ dead = None
  /\ pc = [t \in Threads |-> "idle"]
  /\ conns = [t \in Threads |-> {}]
  /\ fd = [t \in Threads |-> NoFiles]
  /\ forked = [t \in Threads |-> FALSE]
  /\ child = [t \in Threads |-> NoChild]
  /\ result = [t \in Threads |-> NoResult]
  /\ todo = [t \in Threads |-> <<>>]
  /\ calls = [t \in Threads |-> 0]
  /\ code = [t \in Threads |-> 0]
  /\ struck = FALSE
  /\ stolen = [t \in Threads |-> FALSE]

Alive        == dead = None
At(t, where) == Alive /\ pc[t] = where
Go(t, where) == pc' = [pc EXCEPT ![t] = where] /\ UNCHANGED dead
Die(t)       == dead' = t /\ UNCHANGED pc

-----------------------------------------------------------------------------
(* The table of descriptors *)

FreeFds == {n \in Fds : table[n] = Free}

\* The kernel gives the lowest number that is free.
Lowest(n) == n \in FreeFds /\ \A m \in FreeFds : n <= m

Opens(t, n, kind) == table' = [table EXCEPT ![n] = [kind |-> kind, owner |-> t]]

\* close() by thread t closes whatever has the number now, if anything.
Closes(t, n) ==
  /\ table' = [table EXCEPT ![n] = Free]
  /\ struck' = (struck \/ table[n].owner \notin {None, t})

-----------------------------------------------------------------------------
(* The server around the call *)

\* acceptConnection.
Accept(t) ==
  /\ At(t, "idle") /\ Cardinality(conns[t]) < MaxConns
  /\ \E n \in Fds : /\ Lowest(n) /\ Opens(t, n, "conn")
                    /\ conns' = [conns EXCEPT ![t] = @ \cup {n}]
  /\ UNCHANGED <<lock, dead, pc, call, calls, code, struck, stolen>>

\* Faulty variant: the entry of _fds is not erased.
CloseConnKept(t) ==
  /\ At(t, "idle")
  /\ \E n \in conns[t] : Closes(t, n)
  /\ UNCHANGED <<lock, dead, pc, conns, call, calls, code, stolen>>

\* clearConnections.
CloseConn(t) ==
  /\ At(t, "idle")
  /\ \E n \in conns[t] : Closes(t, n) /\ conns' = [conns EXCEPT ![t] = @ \ {n}]
  /\ UNCHANGED <<lock, dead, pc, call, calls, code, stolen>>

\* A message is logged, at any time outside the call, and by fillCgiAnswer_.
Lock(t) ==
  /\ lock = None
  /\ \/ At(t, "idle") /\ Go(t, "logging")
     \/ At(t, "fill") /\ Go(t, "filling")
  /\ lock' = t
  /\ UNCHANGED <<table, conns, call, calls, code, struck, stolen>>

\* A client asks for a script.
StartCall(t) ==
  /\ conns[t] # {} /\ calls[t] < MaxCalls
  /\ Go(t, "input")
  /\ calls' = [calls EXCEPT ![t] = @ + 1]

\* Faulty variant: the mutex is not released before the call.
UnlockForgotten(t) ==
  /\ At(t, "logging")
  /\ \/ Go(t, "idle") /\ lock' = None /\ UNCHANGED calls
     \/ StartCall(t) /\ UNCHANGED lock
  /\ UNCHANGED <<table, conns, call, code, struck, stolen>>

\* After the message the server goes on with something else, or with a script.
Unlock(t) ==
  /\ At(t, "logging")
  /\ \/ Go(t, "idle") /\ UNCHANGED calls
     \/ StartCall(t)
  /\ lock' = None
  /\ UNCHANGED <<table, conns, call, code, struck, stolen>>

-----------------------------------------------------------------------------
(* Cgi::execute *)

\* tmpfile(), twice.  It fails without a free descriptor, or for the directory's sake,
\* and fileno() of the null pointer ends the process.
TmpFile(t, kind, next) ==
  /\ At(t, kind)
  /\ \/ Die(t) /\ UNCHANGED <<table, fd>>
     \/ \E n \in Fds :
          /\ Lowest(n) /\ Opens(t, n, kind)
          /\ fd' = [fd EXCEPT ![t][kind] = n]
          /\ Go(t, next)
  /\ UNCHANGED <<lock, conns, forked, child, result, todo, calls, code, struck, stolen>>

\* Faulty variants: the output is forgotten; each file is closed twice in a row.
ClosesInput(t)  == <<fd[t].input, fd[t].input>>
ClosesInTurn(t) == <<fd[t].input, fd[t].input, fd[t].output, fd[t].output>>

\* What execute and error500_ close, the one as two descriptors and two streams,
\* the other as two streams and two descriptors: each number twice.
ClosesAll(t) == <<fd[t].input, fd[t].output, fd[t].input, fd[t].output>>

\* Faulty variant: the text of the error is no Status line.
ErrorTextPlain == Silent

\* The text that error500_ returns.
ErrorText == [at |-> 0, code |-> 500]

Return(t, c, out) ==
  /\ result' = [result EXCEPT ![t] = [code |-> c, out |-> out]]
  /\ todo' = [todo EXCEPT ![t] = ClosesAll(t)]
  /\ Go(t, "close")

\* write() of the body, if there is one.
WriteBody(t) ==
  /\ At(t, "write")
  /\ \/ Go(t, "fork") /\ UNCHANGED <<result, todo>>
     \/ Return(t, 500, ErrorText)
  /\ UNCHANGED <<table, lock, conns, fd, forked, child, calls, code, struck, stolen>>

\* fork(): the child has a copy of g_write, locked if it is locked now, and no
\* thread that would unlock it.
Fork(t) ==
  /\ At(t, "fork")
  /\ \/ /\ forked' = [forked EXCEPT ![t] = TRUE]
        /\ child' = [child EXCEPT ![t].state = IF lock = None THEN "runs" ELSE "stuck"]
     \/ forked' = [forked EXCEPT ![t] = FALSE] /\ UNCHANGED child
  /\ Go(t, "wait")
  /\ UNCHANGED <<table, lock, conns, fd, result, todo, calls, code, struck, stolen>>

\* The child logs its line, and is the script until it ends; an execve() that fails
\* is a failure without output.
ChildEnds(t) ==
  /\ Alive /\ child[t].state = "runs"
  /\ \E ending \in Endings : child' = [child EXCEPT ![t] = [state |-> "ended", ending |-> ending]]
  /\ UNCHANGED <<table, lock, dead, pc, conns, fd, forked, result, todo, calls, code, struck, stolen>>

\* Faulty variant: the exit status is not looked at.
ExitStatusIgnored(how) == 0

\* WEXITSTATUS: a child that was killed by a signal has none, and counts as zero.
ExitStatus(how) == IF how = "failed" THEN 1 ELSE 0

\* Whom waitpid(pid) of thread t may return: its child; any child if fork() failed,
\* as pid is -1 then.
MayBeReaped(t, u) == child[u].state = "ended" /\ (forked[t] => u = t)

\* Faulty variant: waitpid does not wait.
NobodyYet(t) == ~\E u \in Threads : MayBeReaped(t, u)

\* No child is left that waitpid could wait for.
NobodyToWaitFor(t) ==
  \A u \in Threads : (forked[t] => u = t) => child[u].state \in {"none", "reaped"}

AfterWait(t, status) ==
  IF status = 0 THEN Go(t, "read") /\ UNCHANGED <<result, todo>> ELSE Return(t, 500, ErrorText)

\* waitpid() blocks until it has a child to return, and fails at once, leaving
\* closeCode zero, when there is none.
Wait(t) ==
  /\ At(t, "wait")
  /\ \/ \E u \in Threads :
          /\ MayBeReaped(t, u)
          /\ child' = [child EXCEPT ![u].state = "reaped"]
          /\ stolen' = [stolen EXCEPT ![u] = u # t]
          /\ AfterWait(t, ExitStatus(child[u].ending.how))
     \/ NobodyToWaitFor(t) /\ AfterWait(t, 0) /\ UNCHANGED <<child, stolen>>
  /\ UNCHANGED <<table, lock, conns, fd, forked, calls, code, struck>>

\* read() from what now has the number fdOutput: what the script has printed, or,
\* once a close has struck, an error or whatever is there.
ReadOutput(t) ==
  /\ At(t, "read")
  /\ LET n == fd[t].output IN
     \/ table[n] = Free /\ Return(t, 500, ErrorText)
     \/ table[n] = [kind |-> "output", owner |-> t] /\ Return(t, 200, child[t].ending.out)
     \/ table[n] # Free /\ struck /\ \E e \in Endings : Return(t, 200, e.out)
  /\ UNCHANGED <<table, lock, conns, fd, forked, child, calls, code, struck, stolen>>

CloseNext(t) ==
  /\ At(t, "close")
  /\ Closes(t, Head(todo[t]))
  /\ todo' = [todo EXCEPT ![t] = Tail(@)]
  /\ IF Len(todo[t]) = 1 THEN Go(t, "fill") ELSE Go(t, "close")
  /\ UNCHANGED <<lock, conns, fd, forked, child, result, calls, code, stolen>>

-----------------------------------------------------------------------------
(* setCgiCode_ *)

\* The number is looked for in the fifteen characters from the Status line on, but
\* from the line's own position in the output; it is the ninth of them.
Says200(out) == out.code = 200 /\ out.at <= 8

\* The status line; substr(npos) throws, and nobody catches it.
FillAnswer(t) ==
  /\ At(t, "filling")
  /\ lock' = None
  /\ LET r == result[t] IN
     IF r.out.at = NPos THEN Die(t) /\ UNCHANGED code
     ELSE /\ code' = [code EXCEPT ![t] = IF r.code = 200 /\ Says200(r.out) THEN 200 ELSE 500]
          /\ Go(t, "answer")
  /\ UNCHANGED <<table, conns, call, calls, struck, stolen>>

\* The locals of the call are gone.
Answer(t) ==
  /\ At(t, "answer")
  /\ Go(t, "idle")
  /\ fd' = [fd EXCEPT ![t] = NoFiles]
  /\ forked' = [forked EXCEPT ![t] = FALSE]
  /\ child' = [child EXCEPT ![t] = NoChild]
  /\ result' = [result EXCEPT ![t] = NoResult]
  /\ code' = [code EXCEPT ![t] = 0]
  /\ stolen' = [stolen EXCEPT ![t] = FALSE]
  /\ UNCHANGED <<table, lock, conns, todo, calls, struck>>

Execute(t) == \/ TmpFile(t, "input", "output") \/ TmpFile(t, "output", "write")
              \/ WriteBody(t) \/ Fork(t) \/ Wait(t) \/ ReadOutput(t) \/ CloseNext(t)

ThreadStep(t) == Unlock(t) \/ Execute(t) \/ FillAnswer(t) \/ Answer(t)

Next == \E t \in Threads : Accept(t) \/ CloseConn(t) \/ Lock(t) \/ ThreadStep(t) \/ ChildEnds(t)

Spec == Init /\ [][Next]_vars

\* Threads are scheduled and scripts end; a thread that has an answer to report gets
\* g_write in the end, however often the others take it.
Fairness ==
  \A t \in Threads : /\ WF_vars(ThreadStep(t) \/ ChildEnds(t))
                    /\ SF_vars(pc[t] = "fill" /\ Lock(t))
FairSpec == Spec /\ Fairness
-----------------------------------------------------------------------------
(* Properties *)

Places == {"idle", "logging", "input", "output", "write", "fork", "wait", "read", "close",
           "fill", "filling", "answer"}

TypeOK ==
  /\ table \in [Fds -> Entry]
  /\ lock \in Threads \cup {None} /\ dead \in Threads \cup {None}
  /\ pc \in [Threads -> Places]
  /\ conns \in [Threads -> SUBSET Fds]
  /\ fd \in [Threads -> [input: Fds \cup {NPos}, output: Fds \cup {NPos}]]
  /\ \A t \in Threads : pc[t] \in {"write", "fork", "wait", "read"}
                        => {fd[t].input, fd[t].output} \subseteq Fds
  /\ forked \in [Threads -> BOOLEAN]
  /\ child \in [Threads -> [state: {"none", "runs", "stuck", "ended", "reaped"},
                           ending: Ending]]
  /\ result \in [Threads -> [code: {200, 500}, out: Output]]
  /\ todo \in [Threads -> Seq(Fds)]
  /\ calls \in [Threads -> 0..MaxCalls]
  /\ code \in [Threads -> {0, 200, 500}]
  /\ struck \in BOOLEAN
  /\ stolen \in [Threads -> BOOLEAN]

InCall(t) == pc[t] \in {"input", "output", "write", "fork", "wait", "read", "close"}

\* What execute has opened and started is gone when it returns, on every way out of
\* it and whatever the others close: no temporary file stays open, no child stays
\* unreaped, and what is open as a connection is in its server's _fds.
NothingLeft ==
  /\ \A t \in Threads : ~InCall(t) => child[t].state \in {"none", "reaped"}
  /\ \A n \in Fds : LET e == table[n] IN
       /\ e.kind \in {"input", "output"} => InCall(e.owner)
       /\ e.kind = "conn" => n \in conns[e.owner]

\* A number means to a thread what the thread has opened under it, until some close
\* has struck: its connections are its own, and so are the files of a call.
OwnUntilStruck ==
  ~struck => \A t \in Threads :
    /\ \A n \in conns[t] : table[n] = [kind |-> "conn", owner |-> t]
    /\ pc[t] \in {"write", "fork", "wait", "read"} =>
         \A kind \in {"input", "output"} : table[fd[t][kind]] = [kind |-> kind, owner |-> t]

\* The first close that strikes another thread is one of the two that execute makes
\* of numbers it has closed before.
StruckByRepeatedClose ==
  [][~struck /\ struck' => \E t \in Threads : pc[t] = "close" /\ Len(todo[t]) \in 1..2]_vars

\* The output is read when nobody writes to it any more.
OutputComplete ==
  \A t \in Threads : pc[t] = "read" => child[t].state \in {"none", "reaped"}

\* A client is told 200 OK if its own script has not failed and has said so, first of
\* all: unless another thread has closed its files or waited for its child.
OkMeansOk ==
  \A t \in Threads :
    pc[t] = "answer" /\ code[t] = 200 /\ ~struck /\ ~stolen[t] =>
      forked[t] /\ child[t].ending.how # "failed" /\ child[t].ending.out.code = 200

\* A thread ends the process only for want of a temporary file, when its script has
\* printed no Status line, when fork() had failed, or after a strike.
DiesWithCause ==
  ~Alive /\ ~struck =>
    pc[dead] \in {"input", "output"} \/ ~forked[dead] \/ child[dead].ending.out = Silent

\* A call returns, or the process ends: unless a child was forked while another thread
\* was logging, which waits for ever for the mutex that it has a locked copy of.
Returns ==
  \A t \in Threads :
    pc[t] = "input" ~> pc[t] = "idle" \/ ~Alive \/ \E u \in Threads : child[u].state = "stuck"
=============================================================================
