---------------------------- MODULE CgiRunProofs ----------------------------
(* Proofs about CgiRun, for any threads, descriptors, scripts and bounds. *)
EXTENDS CgiRun, TLAPS

Kinds == {"input", "output"}

\* The types that the proofs need.
Typed ==
  /\ table \in [Fds -> Entry]
  /\ pc \in [Threads -> Places]
  /\ conns \in [Threads -> SUBSET Fds]
  /\ fd \in [Threads -> [input: Fds \cup {NPos}, output: Fds \cup {NPos}]]
  /\ forked \in [Threads -> BOOLEAN]
  /\ child \in [Threads -> [state: {"none", "runs", "stuck", "ended", "reaped"},
                           ending: Ending]]
  /\ todo \in [Threads -> Seq(Fds)]

\* What a thread knows of its files at each place of the call.
FilesOf(t) ==
  /\ pc[t] = "output" => fd[t].input \in Fds
  /\ pc[t] \in {"write", "fork", "wait", "read"} => fd[t].input \in Fds /\ fd[t].output \in Fds
  /\ pc[t] = "close" => todo[t] # <<>>

\* A child is there in `wait' only, and only if fork() has made one.
ChildOf(t) == child[t].state \in {"none", "reaped"} \/ (pc[t] = "wait" /\ forked[t])

\* Thread t will still close the file it has under n.
Closable(t, n) ==
  \/ pc[t] = "output" /\ n = fd[t].input
  \/ pc[t] \in {"write", "fork", "wait", "read"} /\ n \in {fd[t].input, fd[t].output}
  \/ pc[t] = "close" /\ \E i \in 1..Len(todo[t]) : todo[t][i] = n

Accounted(n) ==
  /\ table[n].kind \in Kinds => Closable(table[n].owner, n)
  /\ table[n].kind = "conn" => n \in conns[table[n].owner]

Inv ==
  /\ Typed
  /\ \A t \in Threads : FilesOf(t) /\ ChildOf(t)
  /\ \A n \in Fds : Accounted(n)

LEMMA InitInv == Init => Inv
  BY NoneAssumption DEF Init, Inv, Typed, FilesOf, ChildOf, Accounted, Entry, Free, Places, Kinds, NoFiles,
     NoChild, NoEnding, Ending, Output, Silent

\* A step that leaves the table alone, and what every thread has still to close.
LEMMA AccountedKept ==
  ASSUME Inv, UNCHANGED <<table, conns>>, \A u \in Threads : \A n \in Fds : Closable(u, n) => Closable(u, n)'
  PROVE  \A n \in Fds : Accounted(n)'
<1> SUFFICES ASSUME NEW n \in Fds PROVE Accounted(n)'
  OBVIOUS
<1>1. table[n].kind \in Kinds => table[n].owner \in Threads
  BY DEF Inv, Typed, Entry, Free, Kinds
<1>2. Accounted(n)
  BY DEF Inv
<1> QED BY <1>1, <1>2 DEF Accounted

LEMMA AcceptInv == ASSUME Inv, NEW t \in Threads, Accept(t) PROVE Inv'
<1>1. PICK m \in Fds : /\ table[m] = Free
                       /\ table' = [table EXCEPT ![m] = [kind |-> "conn", owner |-> t]]
                       /\ conns' = [conns EXCEPT ![t] = @ \cup {m}]
  BY DEF Accept, Lowest, FreeFds, Opens
<1>2. UNCHANGED <<pc, call>>
  BY DEF Accept
<1>3. Typed'
  BY <1>1, <1>2 DEF Inv, Typed, Entry, call
<1>4. \A u \in Threads : FilesOf(u)' /\ ChildOf(u)'
  BY <1>2 DEF Inv, FilesOf, ChildOf, call
<1>5. ASSUME NEW n \in Fds PROVE Accounted(n)'
  <2>1. CASE n = m
    <3>1. table'[n].kind = "conn" /\ table'[n].owner = t /\ n \in conns'[t]
      BY <1>1, <2>1 DEF Inv, Typed
    <3> QED BY <3>1 DEF Accounted, Kinds
  <2>2. CASE n # m
    <3>1. table'[n] = table[n] /\ \A u \in Threads : conns[u] \subseteq conns'[u]
      BY <1>1, <2>2 DEF Inv, Typed
    <3>2. Accounted(n)
      BY DEF Inv
    <3>3. table[n].kind # "free" => table[n].owner \in Threads
      BY DEF Inv, Typed, Entry, Free
    <3> QED BY <1>2, <3>1, <3>2, <3>3 DEF Accounted, Closable, Kinds, call
  <2> QED BY <2>1, <2>2
<1> QED BY <1>3, <1>4, <1>5 DEF Inv

LEMMA CloseConnInv == ASSUME Inv, NEW t \in Threads, CloseConn(t) PROVE Inv'
<1>1. PICK m \in conns[t] : /\ table' = [table EXCEPT ![m] = Free]
                            /\ conns' = [conns EXCEPT ![t] = @ \ {m}]
  BY DEF CloseConn, Closes
<1>2. UNCHANGED <<pc, call>>
  BY DEF CloseConn
<1>3. Typed'
  BY <1>1, <1>2 DEF Inv, Typed, Entry, call
<1>4. \A u \in Threads : FilesOf(u)' /\ ChildOf(u)'
  BY <1>2 DEF Inv, FilesOf, ChildOf, call
<1>5. ASSUME NEW n \in Fds PROVE Accounted(n)'
  <2>1. CASE n = m
    <3>1. table'[n] = Free
      BY <1>1, <2>1 DEF Inv, Typed
    <3> QED BY <3>1 DEF Accounted, Kinds, Free
  <2>2. CASE n # m
    <3>1. table'[n] = table[n] /\ \A u \in Threads : n \in conns[u] => n \in conns'[u]
      BY <1>1, <2>2 DEF Inv, Typed
    <3>2. Accounted(n)
      BY DEF Inv
    <3>3. table[n].kind # "free" => table[n].owner \in Threads
      BY DEF Inv, Typed, Entry, Free
    <3> QED BY <1>2, <3>1, <3>2, <3>3 DEF Accounted, Closable, Kinds, call
  <2> QED BY <2>1, <2>2
<1> QED BY <1>3, <1>4, <1>5 DEF Inv

\* Taking and giving back the mutex.
LEMMA LockInv == ASSUME Inv, NEW t \in Threads, Lock(t) \/ Unlock(t) PROVE Inv'
<1>1. PICK where \in {"logging", "filling", "idle", "input"} : pc' = [pc EXCEPT ![t] = where]
  BY DEF Lock, Unlock, StartCall, Go
<1>2. pc[t] \in {"idle", "fill", "logging"} /\ UNCHANGED <<table, conns, call>>
  BY DEF Lock, Unlock, StartCall, Go, At
<1>3. Typed'
  BY <1>1, <1>2 DEF Inv, Typed, call, Places
<1>4. \A u \in Threads : FilesOf(u)' /\ ChildOf(u)'
  BY <1>1, <1>2 DEF Inv, Typed, FilesOf, ChildOf, call
<1>5. \A n \in Fds : Accounted(n)'
  BY <1>1, <1>2, AccountedKept DEF Inv, Typed, Closable, call
<1> QED BY <1>3, <1>4, <1>5 DEF Inv

\* tmpfile() opens one more, which the call has still to close.
LEMMA TmpFileInv ==
  ASSUME Inv, NEW t \in Threads, TmpFile(t, "input", "output") \/ TmpFile(t, "output", "write")
  PROVE  Inv'
<1>1. CASE UNCHANGED <<table, fd, pc>>
  BY <1>1, AccountedKept DEF TmpFile, Inv, Typed, FilesOf, ChildOf, Closable
<1>2. CASE ~UNCHANGED <<table, fd, pc>>
  <2>1. PICK kind \in Kinds, where \in {"output", "write"}, m \in Fds :
          /\ pc[t] = kind /\ (kind = "input" <=> where = "output")
          /\ table[m] = Free
          /\ table' = [table EXCEPT ![m] = [kind |-> kind, owner |-> t]]
          /\ fd' = [fd EXCEPT ![t][kind] = m]
          /\ pc' = [pc EXCEPT ![t] = where]
    BY <1>2 DEF TmpFile, Die, Go, At, Lowest, FreeFds, Opens, Kinds
  <2>2. UNCHANGED <<conns, forked, child, todo>>
    BY DEF TmpFile
  <2>3. Typed'
    BY <2>1, <2>2 DEF Inv, Typed, Entry, Places, Kinds
  <2>4. ASSUME NEW u \in Threads PROVE FilesOf(u)' /\ ChildOf(u)'
    BY <2>1, <2>2 DEF Inv, Typed, FilesOf, ChildOf, Kinds
  <2>5. ASSUME NEW n \in Fds PROVE Accounted(n)'
    <3>1. CASE n = m
      <4>1. table'[n].kind = kind /\ table'[n].owner = t /\ fd'[t][kind] = m /\ pc'[t] = where
        BY <2>1, <3>1 DEF Inv, Typed, Kinds
      <4> QED BY <2>1, <3>1, <4>1 DEF Accounted, Closable, Kinds
    <3>2. CASE n # m
      <4>1. table'[n] = table[n] /\ Accounted(n)
        BY <2>1, <3>2 DEF Inv, Typed
      <4>2. table[n].kind # "free" => table[n].owner \in Threads
        BY DEF Inv, Typed, Entry, Free
      <4>3. ASSUME NEW u \in Threads, Closable(u, n) PROVE Closable(u, n)'
        BY <2>1, <2>2, <4>3 DEF Inv, Typed, Closable, Kinds
      <4> QED BY <2>2, <4>1, <4>2, <4>3 DEF Accounted, Kinds
    <3> QED BY <3>1, <3>2
  <2> QED BY <2>3, <2>4, <2>5 DEF Inv
<1> QED BY <1>1, <1>2

\* From within the call to the closes: of the same numbers, and of no fewer.
LEMMA ReturnInv ==
  ASSUME Inv, NEW t \in Threads, NEW c, NEW out, Return(t, c, out),
         pc[t] \in {"write", "wait", "read"},
         UNCHANGED <<table, conns, fd, forked>>,
         child' \in [Threads -> [state: {"none", "runs", "stuck", "ended", "reaped"}, ending: Ending]],
         child'[t].state \in {"none", "reaped"},
         \A u \in Threads : child'[u].state \in {child[u].state, "reaped"}
  PROVE  Inv'
<1>1. /\ pc' = [pc EXCEPT ![t] = "close"]
      /\ todo' = [todo EXCEPT ![t] = ClosesAll(t)]
  BY DEF Return, Go
<1>2. fd[t].input \in Fds /\ fd[t].output \in Fds
  BY DEF Inv, FilesOf
<1>3. ClosesAll(t) \in Seq(Fds) /\ ClosesAll(t) # <<>> /\ Len(ClosesAll(t)) = 4
      /\ ClosesAll(t)[1] = fd[t].input /\ ClosesAll(t)[2] = fd[t].output
  BY <1>2 DEF ClosesAll
<1>4. Typed'
  BY <1>1, <1>3 DEF Inv, Typed, Places
<1>5. ASSUME NEW u \in Threads PROVE FilesOf(u)' /\ ChildOf(u)'
  BY <1>1, <1>3 DEF Inv, Typed, FilesOf, ChildOf
<1>6. ASSUME NEW u \in Threads, NEW n \in Fds, Closable(u, n) PROVE Closable(u, n)'
  <2>1. CASE u = t
    <3>1. n \in {fd[t].input, fd[t].output}
      BY <1>6, <2>1 DEF Closable
    <3>2. pc'[t] = "close" /\ todo'[t] = ClosesAll(t)
      BY <1>1 DEF Inv, Typed
    <3> QED BY <1>3, <2>1, <3>1, <3>2 DEF Closable
  <2>2. CASE u # t
    BY <1>1, <1>6, <2>2 DEF Closable, Inv, Typed
  <2> QED BY <2>1, <2>2
<1> QED BY <1>4, <1>5, <1>6, AccountedKept DEF Inv

\* A step within the call that moves on, and leaves every file to close.
LEMMA OnwardInv ==
  ASSUME Inv, NEW t \in Threads, NEW where \in {"fork", "wait", "read"}, Go(t, where),
         pc[t] \in {"write", "fork", "wait"},
         UNCHANGED <<table, conns, fd, todo>>,
         forked' \in [Threads -> BOOLEAN],
         child' \in [Threads -> [state: {"none", "runs", "stuck", "ended", "reaped"}, ending: Ending]],
         \A u \in Threads : u # t => forked'[u] = forked[u] /\ child'[u].state \in {child[u].state, "reaped"},
         child'[t].state \in {"none", "reaped"} \/ (where = "wait" /\ forked'[t])
  PROVE  Inv'
<1>1. pc' = [pc EXCEPT ![t] = where]
  BY DEF Go
<1>2. Typed'
  BY <1>1 DEF Inv, Typed, Places
<1>3. ASSUME NEW u \in Threads PROVE FilesOf(u)' /\ ChildOf(u)'
  <2>1. FilesOf(u)'
    BY <1>1 DEF Inv, Typed, FilesOf
  <2>2. ChildOf(u)'
    BY <1>1 DEF Inv, Typed, ChildOf
  <2> QED BY <2>1, <2>2
<1>4. \A u \in Threads : \A n \in Fds : Closable(u, n) => Closable(u, n)'
  BY <1>1 DEF Closable, Inv, Typed
<1> QED BY <1>2, <1>3, <1>4, AccountedKept DEF Inv

LEMMA WriteBodyInv == ASSUME Inv, NEW t \in Threads, WriteBody(t) PROVE Inv'
<1>1. child[t].state \in {"none", "reaped"} /\ pc[t] = "write"
  BY DEF WriteBody, At, Inv, ChildOf
<1>2. UNCHANGED <<table, conns, fd, forked, child>>
  BY DEF WriteBody
<1>3. CASE Return(t, 500, ErrorText)
  BY <1>1, <1>2, <1>3, ReturnInv DEF Inv, Typed
<1>4. CASE Go(t, "fork") /\ UNCHANGED todo
  BY <1>1, <1>2, <1>4, OnwardInv DEF Inv, Typed
<1> QED BY <1>3, <1>4 DEF WriteBody

LEMMA ForkInv == ASSUME Inv, NEW t \in Threads, Fork(t) PROVE Inv'
<1>1. child[t].state \in {"none", "reaped"} /\ pc[t] = "fork" /\ Go(t, "wait")
  BY DEF Fork, At, Inv, ChildOf
<1>2. UNCHANGED <<table, conns, fd, todo>>
  BY DEF Fork
<1>3. CASE forked' = [forked EXCEPT ![t] = FALSE] /\ UNCHANGED child
  BY <1>1, <1>2, <1>3, OnwardInv DEF Inv, Typed
<1>4. CASE /\ forked' = [forked EXCEPT ![t] = TRUE]
           /\ child' = [child EXCEPT ![t].state = IF lock = None THEN "runs" ELSE "stuck"]
  <2>1. forked' \in [Threads -> BOOLEAN] /\ forked'[t]
    BY <1>4 DEF Inv, Typed
  <2>2. child' \in [Threads -> [state: {"none", "runs", "stuck", "ended", "reaped"}, ending: Ending]]
    BY <1>4 DEF Inv, Typed
  <2>3. \A u \in Threads : u # t => forked'[u] = forked[u] /\ child'[u] = child[u]
    BY <1>4 DEF Inv, Typed
  <2> QED BY <1>1, <1>2, <2>1, <2>2, <2>3, OnwardInv
<1> QED BY <1>3, <1>4 DEF Fork

\* A script that ends is still a child of the call that waits for it.
LEMMA ChildEndsInv == ASSUME Inv, NEW t \in Threads, ChildEnds(t) PROVE Inv'
<1>1. PICK e \in Endings : child' = [child EXCEPT ![t] = [state |-> "ended", ending |-> e]]
  BY DEF ChildEnds
<1>2. child[t].state = "runs" /\ UNCHANGED <<table, pc, conns, fd, forked, todo>>
  BY DEF ChildEnds
<1>3. Typed'
  BY <1>1, <1>2, EndingsAssumption DEF Inv, Typed
<1>4. \A u \in Threads : FilesOf(u)' /\ ChildOf(u)'
  BY <1>1, <1>2 DEF Inv, Typed, FilesOf, ChildOf
<1>5. \A n \in Fds : Accounted(n)'
  BY <1>2, AccountedKept DEF Closable
<1> QED BY <1>3, <1>4, <1>5 DEF Inv

\* Thread t has waited, and its own child is no more.
LEMMA WaitInv == ASSUME Inv, NEW t \in Threads, Wait(t) PROVE Inv'
<1>1. pc[t] = "wait" /\ UNCHANGED <<table, conns, fd, forked>>
  BY DEF Wait, At
<1>2. /\ child' \in [Threads -> [state: {"none", "runs", "stuck", "ended", "reaped"}, ending: Ending]]
      /\ \A u \in Threads : child'[u].state \in {child[u].state, "reaped"}
      /\ child'[t].state \in {"none", "reaped"}
  <2>1. CASE NobodyToWaitFor(t) /\ UNCHANGED child
    BY <1>1, <2>1 DEF Inv, Typed, ChildOf, NobodyToWaitFor
  <2>2. ASSUME NEW v \in Threads, MayBeReaped(t, v), child' = [child EXCEPT ![v].state = "reaped"]
        PROVE  /\ child' \in [Threads -> [state: {"none", "runs", "stuck", "ended", "reaped"}, ending: Ending]]
               /\ \A u \in Threads : child'[u].state \in {child[u].state, "reaped"}
               /\ child'[t].state \in {"none", "reaped"}
    <3>1. /\ child' \in [Threads -> [state: {"none", "runs", "stuck", "ended", "reaped"}, ending: Ending]]
          /\ \A u \in Threads : child'[u].state = IF u = v THEN "reaped" ELSE child[u].state
      BY <2>2 DEF Inv, Typed
    <3>2. child'[t].state \in {"none", "reaped"}
      BY <1>1, <2>2, <3>1 DEF MayBeReaped, Inv, ChildOf
    <3> QED BY <3>1, <3>2
  <2> QED BY <2>1, <2>2 DEF Wait
<1>3. CASE Return(t, 500, ErrorText)
  BY <1>1, <1>2, <1>3, ReturnInv
<1>4. CASE Go(t, "read") /\ UNCHANGED todo
  BY <1>1, <1>2, <1>4, OnwardInv DEF Inv, Typed
<1> QED BY <1>3, <1>4 DEF Wait, AfterWait

LEMMA ReadOutputInv == ASSUME Inv, NEW t \in Threads, ReadOutput(t) PROVE Inv'
<1>1. child[t].state \in {"none", "reaped"} /\ pc[t] = "read"
  BY DEF ReadOutput, At, Inv, ChildOf
<1>2. UNCHANGED <<table, conns, fd, forked, child>>
  BY DEF ReadOutput
<1>3. \E c, out : Return(t, c, out)
  BY DEF ReadOutput
<1> QED BY <1>1, <1>2, <1>3, ReturnInv DEF Inv, Typed

LEMMA NotEmpty == ASSUME NEW S, NEW s \in Seq(S), Len(s) # 0 PROVE s # <<>>
  OBVIOUS

\* A close frees the number at the head of the list; the files of every call that
\* has others to close are others.
LEMMA CloseNextInv == ASSUME Inv, NEW t \in Threads, CloseNext(t) PROVE Inv'
<1> DEFINE m == Head(todo[t])
<1>1. pc[t] = "close" /\ todo[t] \in Seq(Fds) /\ todo[t] # <<>>
  BY DEF CloseNext, At, Inv, Typed, FilesOf
<1>2. m \in Fds /\ Tail(todo[t]) \in Seq(Fds) /\ m = todo[t][1]
      /\ Len(Tail(todo[t])) = Len(todo[t]) - 1 /\ Len(todo[t]) \in Nat \ {0}
      /\ \A i \in 2..Len(todo[t]) : Tail(todo[t])[i - 1] = todo[t][i]
  BY <1>1
<1>3. PICK where \in {"fill", "close"} :
        /\ pc' = [pc EXCEPT ![t] = where]
        /\ where = "fill" <=> Len(todo[t]) = 1
  BY DEF CloseNext, Go
<1>4. /\ table' = [table EXCEPT ![m] = Free]
      /\ todo' = [todo EXCEPT ![t] = Tail(todo[t])]
      /\ UNCHANGED <<conns, fd, forked, child>>
  BY DEF CloseNext, Closes
<1>5. Typed'
  BY <1>2, <1>3, <1>4 DEF Inv, Typed, Entry, Places
<1>6. ASSUME NEW u \in Threads PROVE FilesOf(u)' /\ ChildOf(u)'
  <2>1. ASSUME where = "close" PROVE Tail(todo[t]) # <<>>
    <3>1. Len(Tail(todo[t])) # 0
      BY <1>2, <1>3, <2>1
    <3> QED BY <1>2, <3>1, NotEmpty
  <2> QED BY <1>1, <1>3, <1>4, <2>1 DEF Inv, Typed, FilesOf, ChildOf
<1>7. ASSUME NEW n \in Fds, n # m, NEW u \in Threads, Closable(u, n) PROVE Closable(u, n)'
  <2>1. CASE u = t
    <3>1. PICK i \in 1..Len(todo[t]) : todo[t][i] = n
      BY <1>1, <1>7, <2>1 DEF Closable
    <3>2. i \in 2..Len(todo[t]) /\ i - 1 \in 1..Len(Tail(todo[t])) /\ Tail(todo[t])[i - 1] = n
      BY <1>2, <1>7, <3>1
    <3>3. where = "close"
      <4>1. Len(todo[t]) # 1
        BY <1>2, <3>2
      <4> QED BY <1>3, <4>1
    <3>4. pc'[t] = "close" /\ todo'[t] = Tail(todo[t])
      BY <1>3, <1>4, <3>3 DEF Inv, Typed
    <3> QED BY <2>1, <3>2, <3>4 DEF Closable
  <2>2. CASE u # t
    BY <1>3, <1>4, <1>7, <2>2 DEF Closable, Inv, Typed
  <2> QED BY <2>1, <2>2
<1>8. ASSUME NEW n \in Fds PROVE Accounted(n)'
  <2>1. CASE n = m
    <3>1. table'[n] = Free
      BY <1>2, <1>4, <2>1 DEF Inv, Typed
    <3> QED BY <3>1 DEF Accounted, Kinds, Free
  <2>2. CASE n # m
    <3>1. table'[n] = table[n] /\ Accounted(n)
      BY <1>4, <2>2 DEF Inv, Typed
    <3>2. table[n].kind # "free" => table[n].owner \in Threads
      BY DEF Inv, Typed, Entry, Free
    <3> QED BY <1>4, <1>7, <2>2, <3>1, <3>2 DEF Accounted, Kinds
  <2> QED BY <2>1, <2>2
<1> QED BY <1>5, <1>6, <1>8 DEF Inv

\* The answer is made of what execute has returned; the call has nothing to close.
LEMMA AnswerInv == ASSUME Inv, NEW t \in Threads, FillAnswer(t) \/ Answer(t) PROVE Inv'
<1>1. CASE FillAnswer(t)
  <2>1. UNCHANGED <<table, conns, call>> /\ pc[t] = "filling"
    BY <1>1 DEF FillAnswer, At
  <2>2. UNCHANGED pc \/ pc' = [pc EXCEPT ![t] = "answer"]
    BY <1>1 DEF FillAnswer, Go, Die
  <2>3. Typed' /\ \A u \in Threads : FilesOf(u)' /\ ChildOf(u)'
    BY <2>1, <2>2 DEF Inv, Typed, FilesOf, ChildOf, Places, call
  <2>4. \A n \in Fds : Accounted(n)'
    BY <2>1, <2>2, AccountedKept DEF Inv, Typed, Closable, call
  <2> QED BY <2>3, <2>4 DEF Inv
<1>2. CASE Answer(t)
  <2>1. /\ pc[t] = "answer" /\ pc' = [pc EXCEPT ![t] = "idle"]
        /\ fd' = [fd EXCEPT ![t] = NoFiles]
        /\ forked' = [forked EXCEPT ![t] = FALSE]
        /\ child' = [child EXCEPT ![t] = NoChild]
        /\ UNCHANGED <<table, conns, todo>>
    BY <1>2 DEF Answer, At, Go
  <2>2. NoFiles \in [input: Fds \cup {NPos}, output: Fds \cup {NPos}]
        /\ NoChild.state = "none" /\ NoChild.ending \in Ending
        /\ NoChild \in [state: {"none", "runs", "stuck", "ended", "reaped"}, ending: Ending]
    BY DEF NoFiles, NoChild, NoEnding, Ending, Output, Silent
  <2>3. Typed'
    BY <2>1, <2>2 DEF Inv, Typed, Places
  <2>4. ASSUME NEW u \in Threads PROVE FilesOf(u)' /\ ChildOf(u)'
    BY <2>1, <2>2 DEF Inv, Typed, FilesOf, ChildOf
  <2>5. \A n \in Fds : Accounted(n)'
    BY <2>1, AccountedKept DEF Inv, Typed, Closable
  <2> QED BY <2>3, <2>4, <2>5 DEF Inv
<1> QED BY <1>1, <1>2

LEMMA StepInv == Inv /\ [Next]_vars => Inv'
<1>1. ASSUME Inv, NEW t \in Threads,
             Accept(t) \/ CloseConn(t) \/ Lock(t) \/ ThreadStep(t) \/ ChildEnds(t)
      PROVE  Inv'
  BY <1>1, AcceptInv, CloseConnInv, LockInv, TmpFileInv, WriteBodyInv, ForkInv, WaitInv, ReadOutputInv,
     CloseNextInv, AnswerInv, ChildEndsInv DEF ThreadStep, Execute
<1>2. ASSUME Inv, UNCHANGED vars PROVE Inv'
  BY <1>2 DEF vars, call, Inv, Typed, FilesOf, ChildOf, Accounted, Closable
<1> QED BY <1>1, <1>2 DEF Next

LEMMA Invariant == Spec => []Inv
  BY InitInv, StepInv, PTL DEF Spec

\* Whatever the other threads close, and on every way out of execute: no temporary
\* file is open and no child unreaped outside the call, and every descriptor that is
\* open as a connection is in its server's _fds (Cgi.cpp:41-116).
THEOREM ExecuteLeavesNothing == Spec => []NothingLeft
<1>1. Inv => NothingLeft
  <2> SUFFICES ASSUME Inv PROVE NothingLeft
    OBVIOUS
  <2>1. \A t \in Threads : ~InCall(t) => child[t].state \in {"none", "reaped"}
    BY DEF Inv, ChildOf, InCall
  <2>2. ASSUME NEW n \in Fds, table[n].kind \in Kinds PROVE InCall(table[n].owner)
    BY <2>2 DEF Inv, Accounted, Closable, InCall, Kinds
  <2>3. \A n \in Fds : table[n].kind = "conn" => n \in conns[table[n].owner]
    BY DEF Inv, Accounted
  <2> QED BY <2>1, <2>2, <2>3 DEF NothingLeft, Kinds
<1> QED BY <1>1, Invariant, PTL

\* A script's output is read only when the script has ended, or was never there,
\* although waitpid may have been told to wait for any child (Cgi.cpp:79-88).
THEOREM ReadsWhenComplete == Spec => []OutputComplete
<1>1. Inv => OutputComplete
  BY DEF Inv, ChildOf, OutputComplete
<1> QED BY <1>1, Invariant, PTL

-----------------------------------------------------------------------------
(* What a thread owns as long as no close has struck. *)

InMiddle(t) == pc[t] \in {"write", "fork", "wait", "read"}

\* The first two of the four closes find the files open.
Closing(t) ==
  /\ Len(todo[t]) \in 1..4
  /\ Len(todo[t]) = 4 => /\ table[todo[t][1]] = [kind |-> "input", owner |-> t]
                         /\ table[todo[t][2]] = [kind |-> "output", owner |-> t]
  /\ Len(todo[t]) = 3 => table[todo[t][1]] = [kind |-> "output", owner |-> t]
  /\ \A i \in 1..Len(todo[t]) : todo[t][i] \notin conns[t]

Own(t) ==
  /\ \A n \in conns[t] : table[n] = [kind |-> "conn", owner |-> t]
  /\ pc[t] = "output" \/ InMiddle(t) => table[fd[t].input] = [kind |-> "input", owner |-> t]
  /\ InMiddle(t) => table[fd[t].output] = [kind |-> "output", owner |-> t]
  /\ pc[t] = "close" => Closing(t)

Owned == ~struck => \A t \in Threads : Own(t)

Step(t) == Accept(t) \/ CloseConn(t) \/ Lock(t) \/ ThreadStep(t) \/ ChildEnds(t)

LEMMA InitOwned == Init => Owned
  BY DEF Init, Owned, Own, InMiddle

\* A step of one thread touches neither what the others are doing nor, unless it
\* strikes, what they have opened.
LEMMA OthersKept ==
  ASSUME Inv, NEW t \in Threads, Step(t), NEW u \in Threads, u # t
  PROVE  /\ pc'[u] = pc[u] /\ conns'[u] = conns[u] /\ fd'[u] = fd[u] /\ todo'[u] = todo[u]
         /\ struck' \/ \A n \in Fds : table[n].owner = u => table'[n] = table[n]
<1> USE DEF Inv, Typed
<1>1. pc'[u] = pc[u]
  BY DEF Step, ThreadStep, Execute, Accept, CloseConn, Lock, Unlock, StartCall, TmpFile, WriteBody, Fork, Wait,
         AfterWait, Return, ReadOutput, CloseNext, FillAnswer, Answer, ChildEnds, Go, Die
<1>2. conns'[u] = conns[u]
  BY DEF Step, ThreadStep, Execute, Accept, CloseConn, Lock, Unlock, StartCall, TmpFile, WriteBody, Fork, Wait,
         ReadOutput, CloseNext, FillAnswer, Answer, ChildEnds
<1>3. fd'[u] = fd[u]
  BY DEF Step, ThreadStep, Execute, Accept, CloseConn, Lock, Unlock, TmpFile, WriteBody, Fork, Wait,
         ReadOutput, CloseNext, FillAnswer, Answer, ChildEnds, call
<1>4. todo'[u] = todo[u]
  BY DEF Step, ThreadStep, Execute, Accept, CloseConn, Lock, Unlock, TmpFile, WriteBody, Fork, Wait,
         AfterWait, Return, ReadOutput, CloseNext, FillAnswer, Answer, ChildEnds, call
<1>5. struck' \/ \A n \in Fds : table[n].owner = u => table'[n] = table[n]
  <2>1. CASE \E m \in Fds : table[m] = Free /\ \E kind : Opens(t, m, kind)
    BY <2>1, NoneAssumption DEF Opens, Free
  <2>2. CASE \E m : Closes(t, m)
    BY <2>2, NoneAssumption DEF Closes
  <2>3. \/ UNCHANGED table
        \/ \E m : Closes(t, m)
        \/ \E m \in Fds : table[m] = Free /\ \E kind : Opens(t, m, kind)
    BY DEF Step, ThreadStep, Execute, Accept, CloseConn, Lock, Unlock, TmpFile, WriteBody, Fork, Wait,
           ReadOutput, CloseNext, FillAnswer, Answer, ChildEnds, Lowest, FreeFds
  <2> QED BY <2>1, <2>2, <2>3
<1> QED BY <1>1, <1>2, <1>3, <1>4, <1>5

\* What is a thread's own stays so when nothing of it changes.
LEMMA OwnKept ==
  ASSUME Inv, NEW u \in Threads, Own(u),
         pc'[u] = pc[u], conns'[u] = conns[u], fd'[u] = fd[u], todo'[u] = todo[u],
         \A n \in Fds : table[n].owner = u => table'[n] = table[n]
  PROVE  Own(u)'
<1>1. conns[u] \subseteq Fds /\ todo[u] \in Seq(Fds) /\ FilesOf(u)
  BY DEF Inv, Typed
<1>2. \A n \in conns'[u] : table'[n] = [kind |-> "conn", owner |-> u]
  BY <1>1 DEF Own
<1>3. /\ (pc[u] = "output" \/ InMiddle(u))' => table'[fd'[u].input] = [kind |-> "input", owner |-> u]
      /\ InMiddle(u)' => table'[fd'[u].output] = [kind |-> "output", owner |-> u]
  BY <1>1 DEF Own, FilesOf, InMiddle
<1>4. ASSUME pc'[u] = "close" PROVE Closing(u)'
  <2>1. Closing(u) /\ (Len(todo[u]) = 4 => todo[u][1] \in Fds /\ todo[u][2] \in Fds)
                   /\ (Len(todo[u]) = 3 => todo[u][1] \in Fds)
    BY <1>1, <1>4 DEF Own
  <2> QED BY <2>1 DEF Closing
<1> QED BY <1>2, <1>3, <1>4 DEF Own

\* The files of a call are none of its server's connections when the closes begin.
LEMMA ReturnOwn ==
  ASSUME Inv, NEW t \in Threads, NEW c, NEW out, Own(t), InMiddle(t), Return(t, c, out),
         UNCHANGED <<table, conns, fd>>
  PROVE  Own(t)'
<1>1. pc'[t] = "close" /\ todo'[t] = ClosesAll(t)
  BY DEF Return, Go, Inv, Typed
<1>2. /\ Len(ClosesAll(t)) = 4
      /\ ClosesAll(t)[1] = fd[t].input /\ ClosesAll(t)[2] = fd[t].output
      /\ \A i \in 1..4 : ClosesAll(t)[i] \in {fd[t].input, fd[t].output}
  BY DEF ClosesAll
<1>3. fd[t].input \notin conns[t] /\ fd[t].output \notin conns[t]
  <2>1. table[fd[t].input].kind # "conn" /\ table[fd[t].output].kind # "conn"
    BY DEF Own
  <2> QED BY <2>1 DEF Own
<1>4. /\ table'[ClosesAll(t)[1]] = [kind |-> "input", owner |-> t]
      /\ table'[ClosesAll(t)[2]] = [kind |-> "output", owner |-> t]
  BY <1>2 DEF Own
<1>5. Closing(t)'
  BY <1>1, <1>2, <1>3, <1>4 DEF Closing
<1> QED BY <1>1, <1>5 DEF Own, InMiddle

\* A step of the thread itself, within the call, that opens and closes nothing.
LEMMA CallOwn ==
  ASSUME Inv, NEW t \in Threads, Own(t), WriteBody(t) \/ Fork(t) \/ Wait(t) \/ ReadOutput(t)
  PROVE  Own(t)'
<1>1. InMiddle(t) /\ UNCHANGED <<table, conns, fd>>
  BY DEF WriteBody, Fork, Wait, ReadOutput, At, InMiddle
<1>2. CASE \E c, out : Return(t, c, out)
  BY <1>1, <1>2, ReturnOwn
<1>3. CASE \E where \in {"fork", "wait", "read"} : Go(t, where)
  <2>1. pc'[t] \in {"fork", "wait", "read"}
    BY <1>3 DEF Go, Inv, Typed
  <2> QED BY <1>1, <2>1 DEF Own, InMiddle
<1> QED BY <1>2, <1>3 DEF WriteBody, Fork, Wait, AfterWait, ReadOutput

LEMMA TmpFileOwn ==
  ASSUME Inv, NEW t \in Threads, Own(t), TmpFile(t, "input", "output") \/ TmpFile(t, "output", "write")
  PROVE  Own(t)'
<1>1. CASE UNCHANGED <<table, fd, pc>>
  BY <1>1, OwnKept DEF TmpFile
<1>2. CASE ~UNCHANGED <<table, fd, pc>>
  <2>1. PICK kind \in Kinds, where \in {"output", "write"}, m \in Fds :
          /\ pc[t] = kind /\ (kind = "input" <=> where = "output")
          /\ table[m] = Free
          /\ table' = [table EXCEPT ![m] = [kind |-> kind, owner |-> t]]
          /\ fd' = [fd EXCEPT ![t][kind] = m]
          /\ pc' = [pc EXCEPT ![t] = where]
    BY <1>2 DEF TmpFile, Die, Go, At, Lowest, FreeFds, Opens, Kinds
  <2>2. UNCHANGED conns
    BY DEF TmpFile
  <2>3. /\ table'[m] = [kind |-> kind, owner |-> t] /\ fd'[t][kind] = m /\ pc'[t] = where
        /\ kind = "output" => fd'[t].input = fd[t].input
        /\ \A n \in Fds : table[n] # Free => table'[n] = table[n]
    BY <2>1 DEF Inv, Typed, Kinds
  <2>4. \A n \in conns'[t] : table'[n] = [kind |-> "conn", owner |-> t]
    BY <2>2, <2>3 DEF Own, Inv, Typed, Free
  <2>5. ASSUME kind = "output" PROVE table'[fd[t].input] = [kind |-> "input", owner |-> t]
    BY <2>1, <2>3, <2>5 DEF Own, Inv, FilesOf, Free
  <2> QED BY <2>1, <2>3, <2>4, <2>5 DEF Own, InMiddle, Kinds
<1> QED BY <1>1, <1>2

LEMMA CloseNextOwn == ASSUME Inv, NEW t \in Threads, Own(t), CloseNext(t) PROVE Own(t)'
<1> DEFINE m == Head(todo[t])
           rest == Tail(todo[t])
<1>1. pc[t] = "close" /\ todo[t] \in Seq(Fds) /\ todo[t] # <<>> /\ Closing(t)
  BY DEF CloseNext, At, Inv, Typed, FilesOf, Own
<1>2. m \in Fds /\ m = todo[t][1]
      /\ Len(rest) = Len(todo[t]) - 1 /\ Len(todo[t]) \in 1..4
      /\ \A i \in 1..Len(rest) : rest[i] = todo[t][i + 1] /\ rest[i] \notin conns[t]
  BY <1>1 DEF Closing
<1>3. /\ table' = [table EXCEPT ![m] = Free] /\ todo'[t] = rest /\ UNCHANGED <<conns, fd>>
      /\ pc'[t] = IF Len(todo[t]) = 1 THEN "fill" ELSE "close"
  BY DEF CloseNext, Closes, Go, Inv, Typed
<1>4. m \notin conns[t] /\ conns[t] \subseteq Fds
  BY <1>1, <1>2 DEF Closing, Inv, Typed
<1>5. \A n \in conns'[t] : table'[n] = [kind |-> "conn", owner |-> t]
  BY <1>3, <1>4 DEF Own, Inv, Typed
<1>6. ASSUME pc'[t] = "close" PROVE Closing(t)'
  <2>1. Len(rest) \in 1..3
    <3>1. Len(todo[t]) # 1
      BY <1>3, <1>6
    <3> QED BY <1>2, <3>1
  <2>2. ASSUME Len(rest) = 3 PROVE table'[rest[1]] = [kind |-> "output", owner |-> t]
    <3>1. Len(todo[t]) = 4 /\ rest[1] = todo[t][2] /\ todo[t][2] \in Fds
      BY <1>1, <1>2, <2>2
    <3>2. table[m].kind = "input" /\ table[rest[1]] = [kind |-> "output", owner |-> t]
      BY <1>1, <1>2, <3>1 DEF Closing
    <3>3. table[rest[1]].kind = "output"
      BY <3>2
    <3>4. rest[1] # m
      BY <3>2, <3>3
    <3> QED BY <1>3, <3>1, <3>2, <3>4 DEF Inv, Typed
  <2>3. \A l \in 1..3 : l # 4
    OBVIOUS
  <2>4. \A i \in 1..Len(rest) : rest[i] \notin conns'[t]
    BY <1>2, <1>3
  <2>5. todo'[t] = rest
    BY <1>3
  <2> HIDE DEF rest
  <2> QED BY <2>1, <2>2, <2>3, <2>4, <2>5 DEF Closing
<1> QED BY <1>3, <1>5, <1>6 DEF Own, InMiddle

\* Outside the call a thread has its connections, and they change one at a time.
LEMMA IdleOwn ==
  ASSUME Inv, NEW t \in Threads, Own(t),
         Accept(t) \/ CloseConn(t) \/ Lock(t) \/ Unlock(t) \/ FillAnswer(t) \/ Answer(t)
  PROVE  Own(t)'
<1>1. pc'[t] \in {"idle", "logging", "filling", "input", "answer"}
  BY DEF Accept, CloseConn, Lock, Unlock, StartCall, FillAnswer, Answer, Go, Die, At, Inv, Typed
<1>2. CASE Accept(t)
  <2>1. PICK m \in Fds : /\ table[m] = Free
                         /\ table' = [table EXCEPT ![m] = [kind |-> "conn", owner |-> t]]
                         /\ conns' = [conns EXCEPT ![t] = @ \cup {m}]
    BY <1>2 DEF Accept, Lowest, FreeFds, Opens
  <2> QED BY <1>1, <2>1 DEF Own, InMiddle, Inv, Typed
<1>3. CASE CloseConn(t)
  <2>1. PICK m \in conns[t] : /\ table' = [table EXCEPT ![m] = Free]
                              /\ conns' = [conns EXCEPT ![t] = @ \ {m}]
    BY <1>3 DEF CloseConn, Closes
  <2> QED BY <1>1, <2>1 DEF Own, InMiddle, Inv, Typed
<1>4. CASE UNCHANGED <<table, conns>>
  BY <1>1, <1>4 DEF Own, InMiddle
<1> QED BY <1>2, <1>3, <1>4 DEF Lock, Unlock, FillAnswer, Answer

LEMMA StepOwned == Inv /\ Owned /\ [Next]_vars => Owned'
<1>1. ASSUME Inv, Owned, NEW t \in Threads, Step(t), ~struck', NEW u \in Threads PROVE Own(u)'
  <2>1. Own(u) /\ Own(t)
    <3>1. ~struck
      BY <1>1 DEF Step, ThreadStep, Execute, Accept, CloseConn, Lock, Unlock, TmpFile, WriteBody, Fork, Wait,
                  ReadOutput, CloseNext, FillAnswer, Answer, ChildEnds, Closes
    <3> QED BY <1>1, <3>1 DEF Owned
  <2>2. CASE u # t
    BY <1>1, <2>1, <2>2, OthersKept, OwnKept
  <2>3. CASE u = t /\ ChildEnds(t)
    BY <1>1, <2>1, <2>3, OwnKept DEF ChildEnds
  <2>4. CASE u = t /\ ~ChildEnds(t)
    BY <1>1, <2>1, <2>4, IdleOwn, TmpFileOwn, CallOwn, CloseNextOwn DEF Step, ThreadStep, Execute
  <2> QED BY <2>2, <2>3, <2>4
<1>2. ASSUME Inv, Owned, UNCHANGED vars PROVE Owned'
  BY <1>2 DEF vars, call, Owned, Own, InMiddle, Closing
<1> QED BY <1>1, <1>2 DEF Next, Step, Owned

\* Until a first close has struck, the numbers that a thread keeps are those of its
\* own connections and files, however the threads interleave (Cgi.cpp:98-101).
THEOREM NumbersAreOnesOwn == Spec => []OwnUntilStruck
<1>1. Inv /\ Owned => OwnUntilStruck
  <2> SUFFICES ASSUME Inv, Owned, ~struck, NEW t \in Threads
               PROVE  /\ \A n \in conns[t] : table[n] = [kind |-> "conn", owner |-> t]
                      /\ InMiddle(t) => \A kind \in {"input", "output"} :
                                          table[fd[t][kind]] = [kind |-> kind, owner |-> t]
    BY DEF OwnUntilStruck, InMiddle
  <2>1. Own(t)
    BY DEF Owned
  <2>2. fd[t]["input"] = fd[t].input /\ fd[t]["output"] = fd[t].output
    OBVIOUS
  <2> QED BY <2>1, <2>2 DEF Own
<1>2. Init => Inv /\ Owned
  BY InitInv, InitOwned
<1>3. Inv /\ Owned /\ [Next]_vars => (Inv /\ Owned)'
  BY StepInv, StepOwned
<1> QED BY <1>1, <1>2, <1>3, PTL DEF Spec

\* The first close that strikes is one of the two that execute makes of numbers it
\* has closed before: never the first two, nor that of a connection (Cgi.cpp:98-101, 111-114).
THEOREM OnlyRepeatedClosesStrike == Spec => StruckByRepeatedClose
<1> DEFINE Strike == ~struck /\ struck' => \E t \in Threads : pc[t] = "close" /\ Len(todo[t]) \in 1..2
<1>1. Inv /\ Owned /\ [Next]_vars => [Strike]_vars
  <2> SUFFICES ASSUME Inv, Owned, ~struck, struck', NEW t \in Threads, Step(t)
               PROVE  pc[t] = "close" /\ Len(todo[t]) \in 1..2
    BY DEF Next, Step
  <2>1. Own(t)
    BY DEF Owned
  <2>2. CASE CloseConn(t)
    <3>1. PICK n \in conns[t] : Closes(t, n)
      BY <2>2 DEF CloseConn
    <3>2. table[n].owner = t
      BY <2>1 DEF Own
    <3> QED BY <3>1, <3>2 DEF Closes
  <2>3. CASE CloseNext(t)
    <3>1. pc[t] = "close" /\ todo[t] \in Seq(Fds) /\ todo[t] # <<>> /\ Closing(t)
      BY <2>1, <2>3 DEF CloseNext, At, Inv, Typed, FilesOf, Own
    <3>2. table[Head(todo[t])].owner # t
      BY <2>3 DEF CloseNext, Closes
    <3>3. Head(todo[t]) = todo[t][1]
      BY <3>1
    <3>4. Len(todo[t]) # 4 /\ Len(todo[t]) # 3
      BY <3>1, <3>2, <3>3 DEF Closing
    <3> QED BY <3>1, <3>4 DEF Closing
  <2>4. CASE ~CloseConn(t) /\ ~CloseNext(t)
    BY <2>4 DEF Step, ThreadStep, Execute, Accept, Lock, Unlock, TmpFile, WriteBody, Fork, Wait,
                ReadOutput, FillAnswer, Answer, ChildEnds
  <2> QED BY <2>2, <2>3, <2>4
<1>2. Init => Inv /\ Owned
  BY InitInv, InitOwned
<1>3. Inv /\ Owned /\ [Next]_vars => (Inv /\ Owned)'
  BY StepInv, StepOwned
<1> QED BY <1>1, <1>2, <1>3, PTL DEF Spec, StruckByRepeatedClose

-----------------------------------------------------------------------------
(* The types of all the variables. *)

LEMMA StepAlive == ASSUME NEW t \in Threads, Step(t) PROVE Alive
  BY DEF Step, ThreadStep, Execute, Accept, CloseConn, Lock, Unlock, StartCall, TmpFile, WriteBody, Fork, Wait,
         ReadOutput, CloseNext, FillAnswer, Answer, ChildEnds, At

\* What Typed does not say.
TypedRest ==
  /\ lock \in Threads \cup {None} /\ dead \in Threads \cup {None}
  /\ result \in [Threads -> [code: {200, 500}, out: Output]]
  /\ calls \in [Threads -> 0..MaxCalls]
  /\ code \in [Threads -> {0, 200, 500}]
  /\ struck \in BOOLEAN
  /\ stolen \in [Threads -> BOOLEAN]

\* What a step does to the result, the code and the counter of calls.
LEMMA ResultType ==
  ASSUME Inv, TypedRest, NEW t \in Threads, Step(t)
  PROVE  /\ result' \in [Threads -> [code: {200, 500}, out: Output]]
         /\ code' \in [Threads -> {0, 200, 500}]
         /\ calls' \in [Threads -> 0..MaxCalls]
<1> USE DEF TypedRest
<1>1. \/ UNCHANGED result
      \/ \E c \in {200, 500} : \E out \in Output : result' = [result EXCEPT ![t] = [code |-> c, out |-> out]]
  <2>1. ErrorText \in Output /\ Silent \in Output
    BY DEF ErrorText, Output
  <2>2. child[t].ending.out \in Output /\ \A e \in Endings : e.out \in Output
    BY EndingsAssumption DEF Inv, Typed, Ending
  <2>3. CASE ReadOutput(t)
    BY <2>1, <2>2, <2>3 DEF ReadOutput, Return
  <2>4. CASE WriteBody(t) \/ Wait(t) \/ Answer(t)
    BY <2>1, <2>4 DEF WriteBody, Wait, AfterWait, Return, Answer, NoResult
  <2>5. CASE ~ReadOutput(t) /\ ~WriteBody(t) /\ ~Wait(t) /\ ~Answer(t)
    BY <2>5 DEF Step, ThreadStep, Execute, Accept, CloseConn, Lock, Unlock, TmpFile, Fork, CloseNext,
                FillAnswer, ChildEnds, call
  <2> QED BY <2>3, <2>4, <2>5
<1>2. UNCHANGED code \/ \E c \in {0, 200, 500} : code' = [code EXCEPT ![t] = c]
  BY DEF Step, ThreadStep, Execute, Accept, CloseConn, Lock, Unlock, TmpFile, WriteBody, Fork, Wait, ReadOutput,
         CloseNext, FillAnswer, Answer, ChildEnds
<1>3. UNCHANGED calls \/ (calls[t] < MaxCalls /\ calls' = [calls EXCEPT ![t] = @ + 1])
  BY DEF Step, ThreadStep, Execute, Accept, CloseConn, Lock, Unlock, StartCall, TmpFile, WriteBody, Fork, Wait,
         ReadOutput, CloseNext, FillAnswer, Answer, ChildEnds
<1>4. calls' \in [Threads -> 0..MaxCalls]
  BY <1>3, BoundsAssumption
<1> QED BY <1>1, <1>2, <1>4, SMTT(30)

LEMMA RestType == Inv /\ TypedRest /\ [Next]_vars => TypedRest'
<1>1. ASSUME Inv, TypedRest, NEW t \in Threads, Step(t) PROVE TypedRest'
  <2> USE <1>1 DEF TypedRest
  <2>1. lock' \in Threads \cup {None} /\ dead' \in Threads \cup {None}
    BY DEF Step, ThreadStep, Execute, Accept, CloseConn, Lock, Unlock, StartCall, TmpFile, WriteBody, Fork, Wait,
           AfterWait, Return, ReadOutput, CloseNext, FillAnswer, Answer, ChildEnds, Go, Die
  <2>2. struck' \in BOOLEAN
    BY Zenon DEF Step, ThreadStep, Execute, Accept, CloseConn, Lock, Unlock, TmpFile, WriteBody, Fork, Wait,
           ReadOutput, CloseNext, FillAnswer, Answer, ChildEnds, Closes
  <2>3. stolen' \in [Threads -> BOOLEAN]
    <3>1. UNCHANGED stolen \/ \E u \in Threads : \E b \in BOOLEAN : stolen' = [stolen EXCEPT ![u] = b]
      BY Zenon DEF Step, ThreadStep, Execute, Accept, CloseConn, Lock, Unlock, TmpFile, WriteBody, Fork, Wait,
           ReadOutput, CloseNext, FillAnswer, Answer, ChildEnds
    <3> QED BY <3>1
  <2> QED BY <1>1, <2>1, <2>2, <2>3, ResultType
<1>2. ASSUME TypedRest, UNCHANGED vars PROVE TypedRest'
  BY <1>2 DEF TypedRest, vars, call
<1> QED BY <1>1, <1>2 DEF Next, Step

LEMMA InitRest == Init => TypedRest
<1>1. NoResult \in [code: {200, 500}, out: Output]
  BY DEF NoResult, Output
<1>2. calls = [t \in Threads |-> 0] => calls \in [Threads -> 0..MaxCalls]
  BY BoundsAssumption
<1>3. struck = FALSE => struck \in BOOLEAN
  BY Zenon
<1>4. result = [t \in Threads |-> NoResult] => result \in [Threads -> [code: {200, 500}, out: Output]]
  BY <1>1
<1>5. /\ code = [t \in Threads |-> 0] => code \in [Threads -> {0, 200, 500}]
      /\ stolen = [t \in Threads |-> FALSE] => stolen \in [Threads -> BOOLEAN]
  OBVIOUS
<1> QED BY <1>2, <1>3, <1>4, <1>5, Zenon DEF Init, TypedRest

\* Every variable keeps its type, and a call has two files when it gets to its body,
\* whatever scripts print and however the threads interleave (Cgi.cpp:41-116).
THEOREM CgiTypes == Spec => []TypeOK
<1>1. Init => TypedRest
  BY InitRest
<1>2. Inv /\ TypedRest => TypeOK
  BY DEF Inv, Typed, TypedRest, FilesOf, TypeOK
<1> QED BY <1>1, <1>2, InitInv, StepInv, RestType, PTL DEF Spec

-----------------------------------------------------------------------------
(* Whose result a call returns. *)

\* The script whose child has been waited for by its own thread has not failed.
Passed(t) == forked[t] /\ ~stolen[t] => child[t].ending.how # "failed"

\* The result is the text of an error, or what the call's own script has printed.
Faithful(t) ==
  \/ result[t] = [code |-> 500, out |-> ErrorText]
  \/ result[t] = [code |-> 200, out |-> child[t].ending.out] /\ Passed(t)

\* From place to place, what is known of the child of a call and of its result.
Meant(t) ==
  /\ ~forked[t] => child[t] = NoChild
  /\ forked[t] => child[t].state # "none"
  /\ pc[t] \in {"idle", "logging", "input", "output", "write", "fork"} => ~forked[t]
  /\ pc[t] = "wait" /\ child[t].state = "reaped" => stolen[t]
  /\ pc[t] = "read" => Passed(t)
  /\ ~struck /\ pc[t] \in {"close", "fill", "filling"} => Faithful(t)
  /\ ~struck /\ pc[t] = "answer" /\ code[t] = 200 =>
       forked[t] /\ child[t].ending.out.code = 200 /\ Passed(t)

\* Why the process has ended.
Caused ==
  ~Alive /\ ~struck =>
    pc[dead] \in {"input", "output"} \/ ~forked[dead] \/ child[dead].ending.out = Silent

\* A step of another thread leaves the call alone, and may wait for its child once
\* this has ended.
LEMMA OthersCall ==
  ASSUME Inv, TypedRest, NEW t \in Threads, Step(t), NEW u \in Threads, u # t
  PROVE  /\ forked'[u] = forked[u] /\ result'[u] = result[u] /\ code'[u] = code[u]
         /\ \/ child'[u] = child[u] /\ stolen'[u] = stolen[u]
            \/ /\ child[u].state = "ended" /\ child'[u] = [child[u] EXCEPT !.state = "reaped"]
               /\ stolen'[u]
<1> USE DEF Inv, Typed, TypedRest
<1>1. forked'[u] = forked[u] /\ code'[u] = code[u]
  BY DEF Step, ThreadStep, Execute, Accept, CloseConn, Lock, Unlock, TmpFile, WriteBody, Fork, Wait,
         ReadOutput, CloseNext, FillAnswer, Answer, ChildEnds, call
<1>2. result'[u] = result[u]
  BY DEF Step, ThreadStep, Execute, Accept, CloseConn, Lock, Unlock, TmpFile, WriteBody, Fork, Wait,
         AfterWait, Return, ReadOutput, CloseNext, FillAnswer, Answer, ChildEnds, call
<1>3. CASE Wait(t)
  <2>1. CASE UNCHANGED <<child, stolen>>
    BY <1>1, <1>2, <2>1
  <2>2. ASSUME NEW v \in Threads, MayBeReaped(t, v), child' = [child EXCEPT ![v].state = "reaped"],
               stolen' = [stolen EXCEPT ![v] = v # t]
        PROVE  \/ child'[u] = child[u] /\ stolen'[u] = stolen[u]
               \/ /\ child[u].state = "ended" /\ child'[u] = [child[u] EXCEPT !.state = "reaped"]
                  /\ stolen'[u]
    <3>1. CASE v = u
      <4>1. stolen'[u]
        BY <2>2, <3>1
      <4>2. child[u].state = "ended" /\ child'[u] = [child[u] EXCEPT !.state = "reaped"]
        BY <2>2, <3>1 DEF MayBeReaped
      <4> QED BY <4>1, <4>2
    <3>2. CASE v # u
      BY <2>2, <3>2
    <3> QED BY <3>1, <3>2
  <2> QED BY <1>1, <1>2, <1>3, <2>1, <2>2 DEF Wait
<1>4. CASE ~Wait(t)
  <2>1. child'[u] = child[u] /\ stolen'[u] = stolen[u]
    BY <1>4 DEF Step, ThreadStep, Execute, Accept, CloseConn, Lock, Unlock, TmpFile, WriteBody, Fork,
           ReadOutput, CloseNext, FillAnswer, Answer, ChildEnds, call
  <2> QED BY <1>1, <1>2, <2>1
<1> QED BY <1>3, <1>4

LEMMA MeantByOthers ==
  ASSUME Inv, TypedRest, NEW t \in Threads, Step(t), NEW u \in Threads, u # t, Meant(u), struck => struck'
  PROVE  Meant(u)'
<1>1. pc'[u] = pc[u]
  BY OthersKept
<1>2. /\ forked'[u] = forked[u] /\ result'[u] = result[u] /\ code'[u] = code[u]
      /\ \/ child'[u] = child[u] /\ stolen'[u] = stolen[u]
         \/ /\ child[u].state = "ended" /\ child'[u] = [child[u] EXCEPT !.state = "reaped"]
            /\ stolen'[u]
  BY OthersCall
<1>3. ChildOf(u)
  BY DEF Inv
<1>4. CASE child'[u] = child[u] /\ stolen'[u] = stolen[u]
  BY <1>1, <1>2, <1>4 DEF Meant, Faithful, Passed
<1>5. CASE child[u].state = "ended" /\ child'[u] = [child[u] EXCEPT !.state = "reaped"] /\ stolen'[u]
  <2>1. pc[u] = "wait" /\ forked[u]
    BY <1>3, <1>5 DEF ChildOf
  <2>2. child'[u].state = "reaped"
    BY <1>5 DEF Inv, Typed
  <2> QED BY <1>1, <1>2, <1>5, <2>1, <2>2 DEF Meant
<1> QED BY <1>2, <1>4, <1>5

LEMMA StruckStays == ASSUME NEW t \in Threads, Step(t), struck PROVE struck'
  BY DEF Step, ThreadStep, Execute, Accept, CloseConn, Lock, Unlock, TmpFile, WriteBody, Fork, Wait,
         ReadOutput, CloseNext, FillAnswer, Answer, ChildEnds, Closes

\* The steps before the fork and after the result is known.
LEMMA MeantQuiet ==
  ASSUME Inv, NEW t \in Threads, Step(t), Meant(t),
         UNCHANGED <<forked, child, result, code, stolen>>,
         \/ pc'[t] = pc[t]
         \/ pc'[t] \in {"idle", "logging", "input", "output", "write", "fork"} /\ ~forked[t]
         \/ pc[t] \in {"close", "fill", "filling"} /\ pc'[t] \in {"close", "fill", "filling"}
  PROVE  Meant(t)'
<1>1. struck => struck'
  BY StruckStays
<1> QED BY <1>1 DEF Meant, Faithful, Passed

LEMMA MeantOutside ==
  ASSUME Inv, NEW t \in Threads, Meant(t), Accept(t) \/ CloseConn(t) \/ Lock(t) \/ Unlock(t)
                                           \/ TmpFile(t, "input", "output") \/ TmpFile(t, "output", "write")
                                           \/ CloseNext(t)
  PROVE  Meant(t)'
<1>1. UNCHANGED <<forked, child, result, code, stolen>>
  BY DEF Accept, CloseConn, Lock, Unlock, TmpFile, CloseNext, call
<1>2. \/ pc'[t] = pc[t]
      \/ pc'[t] \in {"idle", "logging", "input", "output", "write"}
         /\ pc[t] \in {"idle", "logging", "input", "output"}
      \/ pc[t] \in {"close", "fill"} /\ pc'[t] \in {"close", "fill", "filling"}
  BY DEF Accept, CloseConn, Lock, Unlock, StartCall, TmpFile, CloseNext, At, Go, Die, Inv, Typed
<1>3. Step(t)
  BY DEF Step, ThreadStep, Execute
<1>4. pc[t] \in {"idle", "logging", "input", "output"} => ~forked[t]
  BY DEF Meant
<1> QED BY <1>1, <1>2, <1>3, <1>4, MeantQuiet

\* A call that returns: with the text of the error, or what its script has printed.
LEMMA MeantReturn ==
  ASSUME Inv, TypedRest, NEW t \in Threads, Meant(t), NEW c, NEW out, Return(t, c, out),
         \/ c = 500 /\ out = ErrorText
         \/ c = 200 /\ out = child'[t].ending.out /\ Passed(t)'
         \/ struck',
         ~forked'[t] => child'[t] = NoChild,
         forked'[t] => child'[t].state # "none"
  PROVE  Meant(t)'
<1>1. pc'[t] = "close" /\ result'[t] = [code |-> c, out |-> out]
  BY DEF Return, Go, Inv, Typed, TypedRest
<1>2. ~struck' => Faithful(t)'
  BY <1>1 DEF Faithful, ErrorText
<1> QED BY <1>1, <1>2 DEF Meant

LEMMA MeantWriteBody ==
  ASSUME Inv, TypedRest, NEW t \in Threads, Meant(t), WriteBody(t) PROVE Meant(t)'
<1>1. UNCHANGED <<forked, child, code, stolen>> /\ pc[t] = "write" /\ ~forked[t] /\ Step(t)
  BY DEF WriteBody, At, Meant, Step, ThreadStep, Execute
<1>2. CASE Return(t, 500, ErrorText)
  BY <1>1, <1>2, MeantReturn DEF Meant
<1>3. CASE Go(t, "fork") /\ UNCHANGED result
  BY <1>1, <1>3, MeantQuiet DEF Go, Inv, Typed
<1> QED BY <1>2, <1>3 DEF WriteBody

LEMMA MeantFork == ASSUME Inv, TypedRest, NEW t \in Threads, Meant(t), Fork(t) PROVE Meant(t)'
<1>1. pc[t] = "fork" /\ pc'[t] = "wait" /\ ~forked[t] /\ child[t] = NoChild
  BY DEF Fork, At, Go, Meant, Inv, Typed
<1>2. CASE forked' = [forked EXCEPT ![t] = FALSE] /\ UNCHANGED child
  <2>1. ~forked'[t] /\ child'[t] = NoChild
    BY <1>1, <1>2
  <2> QED BY <1>1, <2>1 DEF Meant, NoChild
<1>3. CASE /\ forked' = [forked EXCEPT ![t] = TRUE]
           /\ child' = [child EXCEPT ![t].state = IF lock = None THEN "runs" ELSE "stuck"]
  <2>1. forked'[t] /\ child'[t].state \in {"runs", "stuck"}
    BY <1>3 DEF Inv, Typed
  <2> QED BY <1>1, <2>1 DEF Meant
<1> QED BY <1>2, <1>3 DEF Fork

\* waitpid returns the call's own child, or that of another call after a fork that
\* failed, or none.
LEMMA MeantWait == ASSUME Inv, TypedRest, NEW t \in Threads, Meant(t), Wait(t) PROVE Meant(t)'
<1> USE DEF Inv, Typed, TypedRest
<1>1. pc[t] = "wait" /\ UNCHANGED <<forked, code, struck>> /\ ChildOf(t)
  BY DEF Wait, At
<1>2. ASSUME NEW v \in Threads, MayBeReaped(t, v), child' = [child EXCEPT ![v].state = "reaped"],
             stolen' = [stolen EXCEPT ![v] = v # t], AfterWait(t, ExitStatus(child[v].ending.how))
      PROVE  Meant(t)'
  <2>1. CASE v = t
    <3>1. child[t].state = "ended" /\ forked[t]
      BY <1>1, <1>2, <2>1 DEF MayBeReaped, Meant, NoChild
    <3>2. child'[t].state = "reaped" /\ child'[t].ending = child[t].ending /\ forked'[t]
      BY <1>1, <1>2, <2>1, <3>1
    <3>3. CASE Return(t, 500, ErrorText)
      BY <3>2, <3>3, MeantReturn
    <3>4. CASE Go(t, "read") /\ ExitStatus(child[t].ending.how) = 0
      <4>1. pc'[t] = "read" /\ Passed(t)'
        BY <3>2, <3>4 DEF Go, ExitStatus, Passed
      <4> QED BY <3>2, <4>1 DEF Meant
    <3> QED BY <1>2, <2>1, <3>3, <3>4 DEF AfterWait
  <2>2. CASE v # t
    <3>1. ~forked'[t] /\ child'[t] = NoChild
      BY <1>1, <1>2, <2>2 DEF MayBeReaped, Meant
    <3>2. CASE Return(t, 500, ErrorText)
      BY <3>1, <3>2, MeantReturn
    <3>3. CASE Go(t, "read")
      <4>1. pc'[t] = "read" /\ Passed(t)'
        BY <3>1, <3>3 DEF Go, Passed
      <4> QED BY <3>1, <4>1 DEF Meant, NoChild
    <3> QED BY <1>2, <3>2, <3>3 DEF AfterWait
  <2> QED BY <2>1, <2>2
<1>3. ASSUME NobodyToWaitFor(t), AfterWait(t, 0), UNCHANGED <<child, stolen>> PROVE Meant(t)'
  <2>1. child[t].state \in {"none", "reaped"}
    BY <1>3 DEF NobodyToWaitFor
  <2>2. pc'[t] = "read" /\ (forked[t] => stolen[t])
    BY <1>1, <1>3, <2>1 DEF AfterWait, Go, Meant
  <2> QED BY <1>1, <1>3, <2>2 DEF Meant, Passed
<1> QED BY <1>2, <1>3 DEF Wait

LEMMA MeantReadOutput ==
  ASSUME Inv, TypedRest, NEW t \in Threads, Meant(t), ReadOutput(t) PROVE Meant(t)'
<1>1. UNCHANGED <<forked, child, code, stolen, struck>> /\ pc[t] = "read"
  BY DEF ReadOutput, At
<1>2. Passed(t)'
  BY <1>1 DEF Meant, Passed
<1>3. \/ Return(t, 500, ErrorText)
      \/ Return(t, 200, child[t].ending.out)
      \/ struck /\ \E e \in Endings : Return(t, 200, e.out)
  BY DEF ReadOutput
<1> QED BY <1>1, <1>2, <1>3, MeantReturn DEF Meant

LEMMA MeantFillAnswer ==
  ASSUME Inv, TypedRest, NEW t \in Threads, Meant(t), FillAnswer(t) PROVE Meant(t)'
<1>1. UNCHANGED <<forked, child, result, stolen, struck>> /\ pc[t] = "filling" /\ Step(t)
  BY DEF FillAnswer, At, call, Step, ThreadStep
<1>2. CASE UNCHANGED <<pc, code>>
  BY <1>1, <1>2, MeantQuiet
<1>3. CASE /\ code' = [code EXCEPT ![t] = IF result[t].code = 200 /\ Says200(result[t].out) THEN 200 ELSE 500]
           /\ pc' = [pc EXCEPT ![t] = "answer"]
  <2>1. pc'[t] = "answer" /\ (code'[t] = 200 => result[t].code = 200 /\ result[t].out.code = 200)
    BY <1>3 DEF Inv, Typed, TypedRest, Says200
  <2>2. ASSUME ~struck, code'[t] = 200
        PROVE  forked[t] /\ child[t].ending.out.code = 200 /\ Passed(t)
    <3>1. result[t] = [code |-> 200, out |-> child[t].ending.out] /\ Passed(t)
      BY <1>1, <2>1, <2>2 DEF Meant, Faithful
    <3>2. child[t].ending.out.code = 200
      BY <2>1, <2>2, <3>1
    <3>3. forked[t]
      BY <3>2 DEF Meant, NoChild, NoEnding, Silent
    <3> QED BY <3>1, <3>2, <3>3
  <2>3. forked'[t] = forked[t] /\ child'[t] = child[t] /\ (Passed(t) => Passed(t)')
    BY <1>1 DEF Passed
  <2> QED BY <1>1, <2>1, <2>2, <2>3 DEF Meant
<1> QED BY <1>2, <1>3 DEF FillAnswer, Die, Go

LEMMA MeantAnswer == ASSUME Inv, TypedRest, NEW t \in Threads, Answer(t) PROVE Meant(t)'
<1>1. pc'[t] = "idle" /\ ~forked'[t] /\ child'[t] = NoChild
  BY DEF Answer, Go, Inv, Typed
<1> QED BY <1>1 DEF Meant, NoChild

LEMMA MeantChildEnds ==
  ASSUME Inv, TypedRest, NEW t \in Threads, Meant(t), ChildEnds(t) PROVE Meant(t)'
<1>1. child[t].state = "runs" /\ pc[t] = "wait" /\ forked[t]
  BY DEF ChildEnds, Inv, ChildOf
<1>2. child'[t].state = "ended" /\ pc'[t] = "wait" /\ forked'[t]
  BY <1>1 DEF ChildEnds, Inv, Typed
<1> QED BY <1>2 DEF Meant

LEMMA StepMeant ==
  ASSUME Inv, TypedRest, \A u \in Threads : Meant(u), NEW t \in Threads, Step(t)
  PROVE  \A u \in Threads : Meant(u)'
<1>1. Meant(t)'
  BY MeantOutside, MeantWriteBody, MeantFork, MeantWait, MeantReadOutput, MeantFillAnswer, MeantAnswer,
     MeantChildEnds DEF Step, ThreadStep, Execute
<1>2. \A u \in Threads : u # t => Meant(u)'
  BY MeantByOthers, StruckStays
<1> QED BY <1>1, <1>2

\* Whoever ends the process was about to report what its own script had not said.
LEMMA StepCaused ==
  ASSUME Inv, TypedRest, Caused, \A u \in Threads : Meant(u), NEW t \in Threads, Step(t)
  PROVE  Caused'
<1> SUFFICES ASSUME ~Alive', ~struck'
             PROVE  (pc[dead] \in {"input", "output"} \/ ~forked[dead] \/ child[dead].ending.out = Silent)'
  BY DEF Caused
<1>1. Alive /\ ~struck
  BY StepAlive, StruckStays
<1>2. Die(t) /\ (TmpFile(t, "input", "output") \/ TmpFile(t, "output", "write") \/ FillAnswer(t))
  BY <1>1 DEF Step, ThreadStep, Execute, Accept, CloseConn, Lock, Unlock, StartCall, TmpFile, WriteBody, Fork,
              Wait, AfterWait, Return, ReadOutput, CloseNext, FillAnswer, Answer, ChildEnds, Go, Alive
<1>3. dead' = t /\ pc'[t] = pc[t] /\ UNCHANGED <<forked, child>>
  BY <1>2 DEF Die, TmpFile, FillAnswer, call
<1>4. CASE TmpFile(t, "input", "output") \/ TmpFile(t, "output", "write")
  BY <1>3, <1>4 DEF TmpFile, At
<1>5. CASE FillAnswer(t)
  <2>1. pc[t] = "filling" /\ result[t].out.at = NPos
    BY <1>1, <1>2, <1>5 DEF FillAnswer, At, Die, Go, Alive
  <2>2. result[t] = [code |-> 200, out |-> child[t].ending.out]
    BY <1>1, <2>1 DEF Meant, Faithful, ErrorText, NPos
  <2>3. child[t].ending.out \in Output /\ child[t].ending.out.at = NPos
    BY <2>1, <2>2 DEF Inv, Typed, Ending
  <2>4. child[t].ending.out = Silent
    BY <2>3 DEF Output, NPos
  <2> QED BY <1>3, <2>4
<1> QED BY <1>2, <1>4, <1>5

\* All that is known of a call.
AllMeant == Inv /\ TypedRest /\ Caused /\ \A u \in Threads : Meant(u)

LEMMA AllMeantAlways == Spec => []AllMeant
<1>1. Init => Caused /\ \A u \in Threads : Meant(u)
  BY DEF Init, Caused, Alive, Meant, NoChild
<1>2. Init => TypedRest
  BY InitRest
<1>3. ASSUME AllMeant, [Next]_vars PROVE AllMeant'
  <2>1. Inv' /\ TypedRest'
    BY <1>3, StepInv, RestType DEF AllMeant
  <2>2. ASSUME NEW t \in Threads, Step(t) PROVE Caused' /\ \A u \in Threads : Meant(u)'
    BY <1>3, <2>2, StepCaused, StepMeant DEF AllMeant
  <2>3. ASSUME UNCHANGED vars PROVE Caused' /\ \A u \in Threads : Meant(u)'
    BY <1>3, <2>3 DEF AllMeant, vars, call, Caused, Alive, Meant, Faithful, Passed
  <2> QED BY <1>3, <2>1, <2>2, <2>3 DEF AllMeant, Next, Step
<1> QED BY <1>1, <1>2, <1>3, InitInv, PTL DEF AllMeant, Spec

\* Whatever scripts print and however threads, children and closes interleave: the
\* client is told 200 OK only if the thread's own script has not failed and has said
\* so, unless a close has struck or another call has waited for the child
\* (Cgi.cpp:79-105, Response.cpp:454-461).
THEOREM OkIsTheScriptsOwn == Spec => []OkMeansOk
<1>1. AllMeant => OkMeansOk
  BY DEF AllMeant, Meant, Passed, OkMeansOk
<1> QED BY <1>1, AllMeantAlways, PTL

\* The process ends in a call only for want of a temporary file, after a fork() that
\* failed, or when the script of the call has printed no Status line, as long as no
\* close has struck (Cgi.cpp:45-49, Response.cpp:454-456).
THEOREM DeathHasCause == Spec => []DiesWithCause
<1>1. AllMeant => DiesWithCause
  BY DEF AllMeant, Caused, DiesWithCause
<1> QED BY <1>1, AllMeantAlways, PTL

=============================================================================
