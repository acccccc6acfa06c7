---------------------------- MODULE UploadsProofs ----------------------------
(* Proofs about Uploads, for any servers, requests, locations and first files. *)
EXTENDS Uploads, FiniteSetTheorems, TLAPS

Saves == {"count", "create", "write"}
Looks == {"open", "read", "index"}

Functional ==
  /\ pc \in [Threads -> {"idle", "delete", "answer"} \cup Saves \cup Looks]
  /\ DOMAIN req = Threads /\ DOMAIN code = Threads
  /\ DOMAIN changed = Threads

\* Only a thread whose request was granted with 201 saves, only one whose request is
\* a DELETE removes, and whoever has changed a file did one of the two.
GrantedOrDelete(t) ==
  /\ pc[t] \in Saves => code[t] = 201
  /\ pc[t] = "delete" => req[t].method = "DELETE"
  /\ pc[t] \in Looks => ~changed[t]
  /\ changed[t] => code[t] = 201 \/ req[t].method = "DELETE"

Inv == Functional /\ \A t \in Threads : GrantedOrDelete(t)

LEMMA InitInv == Init => Inv
  BY DEF Init, Inv, Functional, GrantedOrDelete, Saves, Looks

\* What every action but the beginning of a request leaves of another thread.
LEMMA Others ==
  ASSUME NEW t \in Threads, NEW u \in Threads, GrantedOrDelete(u), req'[u] = req[u],
         pc'[u] = pc[u], code'[u] = code[u], changed'[u] = changed[u]
  PROVE  GrantedOrDelete(u)'
  BY DEF GrantedOrDelete

\* Decide sends a thread to save with 201 only, and to remove for a DELETE only.
LEMMA Decided ==
  ASSUME Inv, NEW t \in Threads, NEW right \in BOOLEAN, pc[t] \in Looks, Decide(t, right),
         UNCHANGED <<req, changed>>
  PROVE  Inv'
<1> DEFINE s == Status(req[t], right)
           e == Effect(req[t], s)
<1>1. code' = [code EXCEPT ![t] = s] /\ pc' = [pc EXCEPT ![t] = e]
  BY DEF Decide
<1>2. /\ e \in {"count", "delete", "answer"}
      /\ e = "count" => s = 201
      /\ e = "delete" => req[t].method = "DELETE"
  BY DEF Effect
<1> HIDE DEF s, e
<1>3. Functional'
  BY <1>1, <1>2 DEF Inv, Functional, Saves
<1>4. GrantedOrDelete(t)'
  BY <1>1, <1>2 DEF Inv, Functional, GrantedOrDelete, Saves, Looks
<1>5. ASSUME NEW u \in Threads \ {t} PROVE GrantedOrDelete(u)'
  BY <1>1, Others DEF Inv, Functional
<1> QED
  BY <1>3, <1>4, <1>5 DEF Inv

LEMMA StepInv == Inv /\ [Next]_vars => Inv'
<1> SUFFICES ASSUME Inv, [Next]_vars PROVE Inv'
  OBVIOUS
<1>1. CASE UNCHANGED vars
  BY <1>1 DEF vars, Inv, Functional, GrantedOrDelete
<1>2. ASSUME NEW t \in Threads, Begin(t) PROVE Inv'
  <2>1. /\ pc' = [pc EXCEPT ![t] = "open"]
        /\ changed' = [changed EXCEPT ![t] = FALSE]
        /\ code' = [code EXCEPT ![t] = 0]
        /\ \E r \in Requests[t] : req' = [req EXCEPT ![t] = r]
    BY <1>2 DEF Begin
  <2>2. Functional'
    BY <2>1 DEF Inv, Functional, Looks
  <2>3. GrantedOrDelete(t)'
    BY <2>1 DEF Inv, Functional, GrantedOrDelete, Saves, Looks
  <2>4. ASSUME NEW u \in Threads \ {t} PROVE GrantedOrDelete(u)'
    BY <2>1, Others DEF Inv, Functional
  <2> QED
    BY <2>2, <2>3, <2>4 DEF Inv
<1>3. ASSUME NEW t \in Threads, OpenTarget(t) PROVE Inv'
  <2>1. pc[t] = "open" /\ UNCHANGED <<req, changed>>
    BY <1>3 DEF OpenTarget
  <2>2. CASE Decide(t, FALSE) \/ Decide(t, TRUE)
    BY <2>1, <2>2, Decided DEF Looks
  <2>3. CASE pc' = [pc EXCEPT ![t] = "read"] /\ UNCHANGED code
    BY <2>1, <2>3 DEF Inv, Functional, GrantedOrDelete, Saves, Looks
  <2> QED
    BY <1>3, <2>2, <2>3 DEF OpenTarget
<1>4. ASSUME NEW t \in Threads, ReadTarget(t) PROVE Inv'
  <2>1. pc[t] = "read" /\ UNCHANGED <<req, changed>>
    BY <1>4 DEF ReadTarget
  <2>2. CASE Decide(t, TRUE)
    BY <2>1, <2>2, Decided DEF Looks
  <2>3. CASE pc' = [pc EXCEPT ![t] = "index"] /\ UNCHANGED code
    BY <2>1, <2>3 DEF Inv, Functional, GrantedOrDelete, Saves, Looks
  <2> QED
    BY <1>4, <2>2, <2>3 DEF ReadTarget
<1>5. ASSUME NEW t \in Threads, ReadIndex(t) PROVE Inv'
  <2>1. pc[t] = "index" /\ UNCHANGED <<req, changed>>
    BY <1>5 DEF ReadIndex
  <2>2. PICK right \in BOOLEAN : Decide(t, right)
    BY <1>5 DEF ReadIndex
  <2> QED
    BY <2>1, <2>2, Decided DEF Looks
<1>6. ASSUME NEW t \in Threads, CountFiles(t) PROVE Inv'
  BY <1>6 DEF CountFiles, Inv, Functional, GrantedOrDelete, Saves, Looks
<1>7. ASSUME NEW t \in Threads, CreateFile(t) PROVE Inv'
  BY <1>7 DEF CreateFile, Opened, NotOpened, Inv, Functional, GrantedOrDelete, Saves, Looks
<1>8. ASSUME NEW t \in Threads, WriteFile(t) PROVE Inv'
  BY <1>8 DEF WriteFile, Inv, Functional, GrantedOrDelete, Saves, Looks
<1>9. ASSUME NEW t \in Threads, DeleteFile(t) PROVE Inv'
  <2>1. /\ pc[t] = "delete" /\ pc' = [pc EXCEPT ![t] = "answer"]
        /\ UNCHANGED <<req, code>>
    BY <1>9 DEF DeleteFile
  <2> DEFINE b == req[t].name \in DOMAIN files
  <2>2. changed' = [changed EXCEPT ![t] = b]
    BY <1>9, Zenon DEF DeleteFile
  <2> HIDE DEF b
  <2> QED
    BY <2>1, <2>2 DEF Inv, Functional, GrantedOrDelete, Saves, Looks
<1>10. ASSUME NEW t \in Threads, Answer(t) PROVE Inv'
  BY <1>10 DEF Answer, Inv, Functional, GrantedOrDelete, Saves, Looks
<1> QED
  BY <1>1, <1>2, <1>3, <1>4, <1>5, <1>6, <1>7, <1>8, <1>9, <1>10 DEF Next

\* Whatever the servers do to the directory together, an upload that is answered with
\* an error or a redirection has changed no file: savePostBody runs for 201 only.
THEOREM RefusedUploads == Spec => []RefusedUploadChangesNothing
<1>1. Inv => RefusedUploadChangesNothing
  BY DEF Inv, GrantedOrDelete, RefusedUploadChangesNothing, Saving
<1> QED
  BY <1>1, InitInv, StepInv, PTL DEF Spec

-----------------------------------------------------------------------------
(* The types, and the files that a thread may change. *)

Step(t) == \/ Begin(t) \/ OpenTarget(t) \/ ReadTarget(t) \/ ReadIndex(t) \/ CountFiles(t)
           \/ CreateFile(t) \/ WriteFile(t) \/ DeleteFile(t) \/ Answer(t)

Typed ==
  /\ location \in Locations
  /\ DOMAIN files \subseteq Names /\ IsFiniteSet(DOMAIN files)
  /\ files \in [DOMAIN files -> Nat \cup {Mixed}]
  /\ pc \in [Threads -> {"idle", "delete", "answer"} \cup Saves \cup Looks]
  /\ req \in [Threads -> Request]
  /\ code \in [Threads -> Codes \cup {0}]
  /\ target \in [Threads -> Names \cup {None}]
  /\ served \in [Threads -> Nat]
  /\ changed \in [Threads -> BOOLEAN]

\* A thread writes under a number, or for a name of its request, or nowhere, and has no
\* file before it has counted them; what it is about to write is there; and its status is
\* set when its request is decided.
Writes(t) ==
  /\ pc[t] # "idle" => req[t] \in Requests[t]
  /\ pc[t] \in {"create", "write"} => target[t] \in Numbered \cup {None} \cup Named(req[t])
  /\ pc[t] = "write" /\ target[t] # None => target[t] \in DOMAIN files
  /\ pc[t] \in Looks \cup {"count"} => target[t] = None
  /\ pc[t] \in Looks => code[t] = 0
  /\ pc[t] \notin Looks \cup {"idle"} => code[t] # 0
  /\ pc[t] = "delete" => code[t] # 201

TInv == Typed /\ \A t \in Threads : Writes(t)

LEMMA InitTyped == Init => TInv
<1> SUFFICES ASSUME Init PROVE TInv
  OBVIOUS
<1>1. NoRequest \in Request
  BY DEF NoRequest, Request
<1>2. /\ files \in [DOMAIN files -> Nat \cup {Mixed}] /\ DOMAIN files \subseteq Names
      /\ IsFiniteSet(DOMAIN files)
  BY FilesAssumption DEF Init
<1>3. Typed
  BY <1>1, <1>2 DEF Init, Typed
<1>4. \A t \in Threads : Writes(t)
  BY DEF Init, Writes, Looks
<1> QED BY <1>3, <1>4 DEF TInv

\* The file of an upload that is granted: a number, or a name of the request.
LEMMA TargetOf ==
  ASSUME TInv, NEW t \in Threads, Cardinality(DOMAIN files) <= MaxFiles
  PROVE  /\ Target(req[t]) \in Names \cup {None}
         /\ Target(req[t]) \in Numbered \cup {None} \cup Named(req[t])
<1> DEFINE r == req[t]
<1>1. r.name \in Names \cup {Dir} /\ r.part \in Names \cup {None}
  BY DEF TInv, Typed, Request
<1>2. Unnamed \in (Names \cap Numbered) \cup {None}
  <2>1. Cardinality(DOMAIN files) \in Nat
    BY FS_CardinalityType DEF TInv, Typed
  <2>2. Cardinality(DOMAIN files) + 1 \in 1..MaxFiles + 1
    BY <2>1, BoundsAssumption
  <2> QED BY <2>2, NamingAssumption DEF Unnamed, Numbered
<1>3. CASE r.part # None
  BY <1>1, <1>3 DEF Target, Named
<1>4. CASE r.part = None /\ r.name = Dir
  BY <1>2, <1>4 DEF Target
<1>5. CASE r.part = None /\ r.name # Dir /\ r.name \in Known
  <2>1. Target(r) = Chop(r.name)
    BY <1>5, NamesAssumption DEF Target, RequestedFile
  <2> QED BY <1>5, <2>1, NamingAssumption DEF Named
<1>6. CASE r.part = None /\ r.name # Dir /\ r.name \notin Known
  <2>1. Target(r) = r.name
    BY <1>6 DEF Target, RequestedFile
  <2> QED BY <1>1, <1>6, <2>1 DEF Named
<1> QED BY <1>3, <1>4, <1>5, <1>6

\* Which files a step changes.
LEMMA ChangedFiles ==
  ASSUME TInv, NEW t \in Threads, Step(t), NEW n \in DOMAIN files
  PROVE  \/ Kept(n)
         \/ pc[t] \in {"create", "write"} /\ n = target[t]
         \/ pc[t] = "delete" /\ n = req[t].name
<1>1. CASE UNCHANGED files
  BY <1>1 DEF Kept
<1>2. CASE CreateFile(t)
  BY <1>2 DEF CreateFile, Opened, NotOpened, Kept
<1>3. CASE WriteFile(t)
  <2>1. files \in [DOMAIN files -> Nat \cup {Mixed}]
    BY DEF TInv, Typed
  <2> QED BY <1>3, <2>1 DEF WriteFile, Kept
<1>4. CASE DeleteFile(t)
  BY <1>4 DEF DeleteFile, Kept, Restrict
<1> QED BY <1>1, <1>2, <1>3, <1>4 DEF Step, Begin, OpenTarget, ReadTarget, ReadIndex, CountFiles, Answer

\* The files keep their types.
LEMMA FilesTyped ==
  ASSUME TInv, NEW t \in Threads, Step(t)
  PROVE  /\ DOMAIN files' \subseteq Names /\ IsFiniteSet(DOMAIN files')
         /\ files' \in [DOMAIN files' -> Nat \cup {Mixed}]
<1>1. files \in [DOMAIN files -> Nat \cup {Mixed}] /\ DOMAIN files \subseteq Names /\ IsFiniteSet(DOMAIN files)
  BY DEF TInv, Typed
<1>2. target[t] \in Names \cup {None}
  BY DEF TInv, Typed
<1>3. CASE UNCHANGED files
  BY <1>1, <1>3
<1>4. CASE Opened(t)
  <2> DEFINE n == target[t]
  <2>1. files' = [m \in DOMAIN files \cup {n} |-> IF m = n THEN Empty ELSE files[m]]
    BY <1>4 DEF Opened
  <2>2. IsFiniteSet(DOMAIN files \cup {n})
    BY <1>1, FS_AddElement
  <2>3. n \in Names
    BY <1>2, <1>4 DEF Opened
  <2> HIDE DEF n
  <2>4. DOMAIN files' = DOMAIN files \cup {n}
    BY <2>1
  <2>5. \A m \in DOMAIN files' : files'[m] \in Nat \cup {Mixed}
    BY <1>1, <2>1 DEF Empty
  <2>6. files' = [m \in DOMAIN files' |-> files'[m]]
    BY <2>1, <2>4
  <2> QED BY <1>1, <2>2, <2>3, <2>4, <2>5, <2>6
<1>5. CASE WriteFile(t)
  <2>1. req[t].body \in Nat
    BY DEF TInv, Typed, Request
  <2>2. \A old \in Nat \cup {Mixed} : Over(old, req[t].body) \in Nat \cup {Mixed}
    BY <2>1 DEF Over
  <2> QED BY <1>1, <1>5, <2>2 DEF WriteFile
<1>6. CASE DeleteFile(t)
  <2> DEFINE left == DOMAIN files \ {req[t].name}
  <2>1. files' = [n \in left |-> files[n]]
    BY <1>6 DEF DeleteFile, Restrict
  <2>2. IsFiniteSet(left) /\ left \subseteq Names /\ left \subseteq DOMAIN files
    BY <1>1, FS_RemoveElement
  <2> HIDE DEF left
  <2> QED BY <1>1, <2>1, <2>2
<1> QED BY <1>3, <1>4, <1>5, <1>6 DEF Step, Begin, OpenTarget, ReadTarget, ReadIndex, CountFiles, CreateFile,
                                       NotOpened, Answer

\* What a decision makes of a request.
LEMMA StatusOf ==
  ASSUME TInv, NEW t \in Threads, NEW right \in BOOLEAN
  PROVE  /\ Status(req[t], right) \in Codes
         /\ Effect(req[t], Status(req[t], right)) \in {"count", "delete", "answer"}
         /\ Effect(req[t], Status(req[t], right)) # "count" => Status(req[t], right) # 201
<1>1. Status(req[t], right) \in Codes
  BY DEF Status, Codes
<1> QED BY <1>1 DEF Effect

\* The other threads are left where they are, and only the names of files removed are
\* taken from those who have them open.
LEMMA OthersKept ==
  ASSUME TInv, NEW t \in Threads, Step(t), NEW u \in Threads, u # t
  PROVE  /\ pc'[u] = pc[u] /\ req'[u] = req[u] /\ code'[u] = code[u]
         /\ \/ target'[u] = target[u]
            \/ pc[t] = "delete" /\ pc[u] = "write" /\ target[u] = req[t].name /\ target'[u] = None
<1> USE DEF TInv, Typed
<1>1. pc'[u] = pc[u] /\ req'[u] = req[u] /\ code'[u] = code[u]
  BY DEF Step, Begin, OpenTarget, ReadTarget, ReadIndex, Decide, CountFiles, CreateFile, Opened, NotOpened, WriteFile, DeleteFile, Answer
<1>2. \/ target'[u] = target[u]
      \/ pc[t] = "delete" /\ pc[u] = "write" /\ target[u] = req[t].name /\ target'[u] = None
  BY DEF Step, Begin, OpenTarget, ReadTarget, ReadIndex, CountFiles, CreateFile, Opened, NotOpened, WriteFile, DeleteFile, Answer
<1> QED BY <1>1, <1>2

LEMMA StepTyped == ASSUME TInv, NEW t \in Threads, Step(t) PROVE Typed'
<1> USE DEF TInv, Typed
<1>1. UNCHANGED location
  BY DEF Step, Begin, OpenTarget, ReadTarget, ReadIndex, CountFiles, CreateFile, Opened, NotOpened, WriteFile, DeleteFile, Answer
<1>2. \/ UNCHANGED <<pc, code>> \/ \E right \in BOOLEAN : Decide(t, right)
      \/ UNCHANGED code /\ \E where \in {"idle", "answer"} \cup Saves \cup Looks : pc' = [pc EXCEPT ![t] = where]
      \/ code' = [code EXCEPT ![t] = 0] /\ pc' = [pc EXCEPT ![t] = "open"]
  BY DEF Step, Begin, OpenTarget, ReadTarget, ReadIndex, CountFiles, CreateFile, Opened, NotOpened, WriteFile, DeleteFile, Answer,
         Saves, Looks
<1>3. pc' \in [Threads -> {"idle", "delete", "answer"} \cup Saves \cup Looks]
  BY <1>2, StatusOf DEF Decide, Saves, Looks
<1>4. code' \in [Threads -> Codes \cup {0}]
  BY <1>2, StatusOf DEF Decide
<1>5. req' \in [Threads -> Request]
  BY RequestsAssumption
     DEF Step, Begin, OpenTarget, ReadTarget, ReadIndex, CountFiles, CreateFile, Opened, NotOpened, WriteFile, DeleteFile, Answer
<1>6. target' \in [Threads -> Names \cup {None}]
  <2>1. CASE CountFiles(t)
    BY <2>1, TargetOf DEF CountFiles
  <2>2. CASE DeleteFile(t)
    BY <2>2 DEF DeleteFile
  <2>3. CASE Begin(t)
    BY <2>3 DEF Begin
  <2>4. CASE UNCHANGED target
    BY <2>4
  <2>5. CASE NotOpened(t)
    BY <2>5 DEF NotOpened
  <2> QED BY <2>1, <2>2, <2>3, <2>4, <2>5 DEF Step, OpenTarget, ReadTarget, ReadIndex, CreateFile, Opened, WriteFile, Answer
<1>7. served' \in [Threads -> Nat]
  <2>1. UNCHANGED served \/ served' = [served EXCEPT ![t] = @ + 1]
    BY DEF Step, Begin, OpenTarget, ReadTarget, ReadIndex, CountFiles, CreateFile, Opened, NotOpened, WriteFile, DeleteFile, Answer
  <2> QED BY <2>1
<1>8. changed' \in [Threads -> BOOLEAN]
  <2> DEFINE there == req[t].name \in DOMAIN files
  <2>1. there \in BOOLEAN
    OBVIOUS
  <2>2. DeleteFile(t) => changed' = [changed EXCEPT ![t] = there]
    BY Zenon DEF DeleteFile
  <2>3. ~DeleteFile(t) => \/ UNCHANGED changed
                          \/ changed' = [changed EXCEPT ![t] = FALSE]
                          \/ changed' = [changed EXCEPT ![t] = TRUE]
    BY DEF Step, Begin, OpenTarget, ReadTarget, ReadIndex, CountFiles, CreateFile, Opened, NotOpened, WriteFile, Answer
  <2> HIDE DEF there
  <2> QED BY <2>1, <2>2, <2>3
<1> QED BY <1>1, <1>3, <1>4, <1>5, <1>6, <1>7, <1>8, FilesTyped

\* A decision, or the next look at the files.
LEMMA WritesDecided ==
  ASSUME TInv, NEW t \in Threads, pc[t] \in Looks, UNCHANGED <<req, target>>,
         \/ \E right \in BOOLEAN : Decide(t, right)
         \/ UNCHANGED code /\ \E where \in Looks : pc' = [pc EXCEPT ![t] = where]
  PROVE  Writes(t)'
<1> USE DEF TInv, Typed
<1>1. req'[t] \in Requests[t] /\ code[t] = 0 /\ target'[t] = None
  BY DEF Writes, Looks
<1>2. CASE \E right \in BOOLEAN : Decide(t, right)
  <2>1. PICK right \in BOOLEAN : /\ code' = [code EXCEPT ![t] = Status(req[t], right)]
                                 /\ pc' = [pc EXCEPT ![t] = Effect(req[t], Status(req[t], right))]
    BY <1>2 DEF Decide
  <2>2. /\ code'[t] = Status(req[t], right) /\ code'[t] \in Codes
        /\ pc'[t] \in {"count", "delete", "answer"} /\ (pc'[t] # "count" => code'[t] # 201)
    BY <2>1, StatusOf
  <2> QED BY <1>1, <2>2 DEF Writes, Looks, Codes
<1>3. CASE UNCHANGED code /\ \E where \in Looks : pc' = [pc EXCEPT ![t] = where]
  BY <1>1, <1>3 DEF Writes, Looks
<1> QED BY <1>2, <1>3

LEMMA OwnWrites == ASSUME TInv, NEW t \in Threads, Step(t) PROVE Writes(t)'
<1> USE DEF TInv, Typed
<1>1. Writes(t)
  OBVIOUS
<1>2. CASE Begin(t)
  BY <1>2 DEF Begin, Writes, Looks
<1>3. CASE OpenTarget(t) \/ ReadTarget(t) \/ ReadIndex(t)
  <2>1. pc[t] \in Looks /\ UNCHANGED <<req, target>>
    BY <1>3 DEF OpenTarget, ReadTarget, ReadIndex, Looks
  <2>2. \/ \E right \in BOOLEAN : Decide(t, right)
        \/ UNCHANGED code /\ \E where \in Looks : pc' = [pc EXCEPT ![t] = where]
    BY <1>3 DEF OpenTarget, ReadTarget, ReadIndex, Looks
  <2> QED BY <2>1, <2>2, WritesDecided
<1>4. CASE CountFiles(t)
  <2>1. /\ pc[t] = "count" /\ UNCHANGED <<req, code>> /\ pc'[t] \in {"create", "answer"}
        /\ pc'[t] = "create" => target'[t] = Target(req[t])
    BY <1>4 DEF CountFiles
  <2>2. Target(req[t]) \in Numbered \cup {None} \cup Named(req[t])
    BY <1>4, TargetOf DEF CountFiles
  <2> QED BY <1>1, <2>1, <2>2 DEF Writes, Looks
<1>5. CASE CreateFile(t)
  <2>1. pc[t] = "create" /\ pc'[t] = "write" /\ UNCHANGED <<req, code>>
    BY <1>5 DEF CreateFile
  <2>2. target'[t] = None \/ (target'[t] = target[t] /\ target[t] \in DOMAIN files')
    BY <1>5 DEF CreateFile, Opened, NotOpened
  <2> QED BY <1>1, <2>1, <2>2 DEF Writes, Looks
<1>6. CASE WriteFile(t) \/ DeleteFile(t) \/ Answer(t)
  <2>1. pc[t] \notin Looks \cup {"idle"} /\ pc'[t] \in {"answer", "idle"} /\ UNCHANGED <<req, code>>
    BY <1>6 DEF WriteFile, DeleteFile, Answer, Looks
  <2> QED BY <1>1, <2>1 DEF Writes, Looks
<1> QED BY <1>2, <1>3, <1>4, <1>5, <1>6 DEF Step

\* A file that a thread is writing is removed under its hands only with its name.
LEMMA OthersWrites ==
  ASSUME TInv, NEW t \in Threads, Step(t), NEW u \in Threads, u # t PROVE Writes(u)'
<1>1. /\ pc'[u] = pc[u] /\ req'[u] = req[u] /\ code'[u] = code[u]
      /\ target'[u] = target[u] \/ target'[u] = None
  BY OthersKept
<1>2. Writes(u)
  BY DEF TInv
<1>3. ASSUME pc[u] = "write", target'[u] # None PROVE target'[u] \in DOMAIN files'
  <2>1. target'[u] = target[u] /\ target[u] \in DOMAIN files
    BY <1>1, <1>2, <1>3 DEF Writes
  <2>2. CASE DeleteFile(t)
    <3>1. target[u] # req[t].name
      BY <1>3, <2>1, <2>2 DEF DeleteFile, TInv, Typed
    <3> QED BY <2>1, <2>2, <3>1 DEF DeleteFile, Restrict
  <2>3. CASE ~DeleteFile(t)
    BY <2>1, <2>3 DEF Step, Begin, OpenTarget, ReadTarget, ReadIndex, CountFiles, CreateFile, Opened, NotOpened, WriteFile, Answer
  <2> QED BY <2>1, <2>2, <2>3
<1> QED BY <1>1, <1>2, <1>3 DEF Writes

LEMMA StepTInv == TInv /\ [Next]_vars => TInv'
<1>1. ASSUME TInv, NEW t \in Threads, Step(t) PROVE TInv'
  BY <1>1, StepTyped, OwnWrites, OthersWrites DEF TInv
<1>2. ASSUME TInv, UNCHANGED vars PROVE TInv'
  BY <1>2 DEF vars, TInv, Typed, Writes
<1> QED BY <1>1, <1>2 DEF Next, Step

\* Every variable keeps its type; a request has its status exactly when it is decided
\* (Response.cpp:205-229).
THEOREM UploadsTypes == Spec => []TypeOK
<1>1. TInv => TypeOK
  <2> SUFFICES ASSUME TInv PROVE TypeOK
    OBVIOUS
  <2>1. ASSUME NEW t \in Threads
        PROVE  /\ pc[t] \in {"open", "read", "index"} => code[t] = 0
               /\ pc[t] = "idle" => code[t] \in Codes \cup {0}
               /\ pc[t] \notin {"open", "read", "index", "idle"} => code[t] \in Codes
    BY DEF TInv, Typed, Writes, Looks
  <2>2. pc \in [Threads -> {"idle", "open", "read", "index", "count", "create", "write", "delete", "answer"}]
    BY DEF TInv, Typed, Saves, Looks
  <2>3. \A t \in Threads : code[t] \in IF pc[t] \in {"open", "read", "index"} THEN {0}
                                     ELSE IF pc[t] = "idle" THEN Codes \cup {0} ELSE Codes
    BY <2>1
  <2> QED BY <2>2, <2>3 DEF TInv, Typed, TypeOK
<1> QED BY <1>1, InitTyped, StepTInv, PTL DEF Spec

\* Whoever else uses the directory, a file that is not called like a number changes
\* only for a request that names it, or names it with a letter and a known extension
\* more (Response.cpp:293-322).
THEOREM OnlyNamedFilesChange == Spec => NamedFilesKept
<1> DEFINE Named1 == \A n \in DOMAIN files \ Numbered :
                       Kept(n) \/ \E t \in Threads : pc[t] # "idle" /\ n \in Named(req[t])
<1>1. TInv /\ [Next]_vars => [Named1]_vars
  <2> SUFFICES ASSUME TInv, NEW t \in Threads, Step(t), NEW n \in DOMAIN files \ Numbered, ~Kept(n)
               PROVE  pc[t] # "idle" /\ n \in Named(req[t])
    BY DEF Next, Step
  <2>1. n # None
    BY NamesAssumption DEF TInv, Typed
  <2>2. CASE pc[t] \in {"create", "write"} /\ n = target[t]
    BY <2>1, <2>2 DEF TInv, Writes
  <2>3. CASE pc[t] = "delete" /\ n = req[t].name
    BY <2>3 DEF Named
  <2> QED BY <2>2, <2>3, ChangedFiles
<1> QED BY <1>1, InitTyped, StepTInv, PTL DEF Spec, NamedFilesKept

-----------------------------------------------------------------------------
(* What 201 Created promises. *)

\* From its count of files on, an upload under a name of its own has that name, and
\* once opened, the file is empty, and then the body.
Stored(t) ==
  Goal(req[t]) \in Own(t) \ Known =>
    /\ pc[t] = "create" => target[t] = Goal(req[t])
    /\ pc[t] = "write" /\ target[t] # None =>
         target[t] = Goal(req[t]) /\ Goal(req[t]) \in DOMAIN files /\ files[Goal(req[t])] = Empty
    /\ pc[t] = "answer" /\ code[t] = 201 /\ target[t] # None =>
         Goal(req[t]) \in DOMAIN files /\ files[Goal(req[t])] = req[t].body

\* A name of one's own is no number, no directory, and in no other thread's request.
LEMMA OwnName ==
  ASSUME TInv, NEW u \in Threads, NEW n \in Own(u), NEW t \in Threads, t # u, pc[t] # "idle"
  PROVE  n # None /\ n # Dir /\ n \notin Numbered /\ n \notin Named(req[t])
  BY NamesAssumption DEF Own, TInv, Writes

\* No step of another thread touches a file of such a name.
LEMMA OwnFileKept ==
  ASSUME TInv, NEW t \in Threads, Step(t), NEW u \in Threads, u # t, NEW n \in Own(u), n \in DOMAIN files
  PROVE  Kept(n)
<1>1. CASE pc[t] \in {"create", "write"} /\ n = target[t]
  BY <1>1, OwnName DEF TInv, Writes
<1>2. CASE pc[t] = "delete" /\ n = req[t].name
  BY <1>2, OwnName DEF Named
<1> QED BY <1>1, <1>2, ChangedFiles

LEMMA OthersStored ==
  ASSUME TInv, NEW t \in Threads, Step(t), NEW u \in Threads, u # t, Stored(u) PROVE Stored(u)'
<1> DEFINE n == Goal(req[u])
<1>1. /\ pc'[u] = pc[u] /\ req'[u] = req[u] /\ code'[u] = code[u]
      /\ \/ target'[u] = target[u]
         \/ pc[t] = "delete" /\ pc[u] = "write" /\ target[u] = req[t].name /\ target'[u] = None
  BY OthersKept
<1> SUFFICES ASSUME n \in Own(u) \ Known PROVE Stored(u)'
  BY <1>1 DEF Stored, Own, Goal, Numbered, Named
<1>2. n \in DOMAIN files => n \in DOMAIN files' /\ files'[n] = files[n]
  BY OwnFileKept DEF Kept
<1>3. Goal(req[u])' = n
  BY <1>1 DEF Goal
<1> HIDE DEF n
<1>4. /\ pc[u] = "create" => target[u] = n
      /\ pc[u] = "write" /\ target[u] # None => target[u] = n /\ n \in DOMAIN files /\ files[n] = Empty
      /\ pc[u] = "answer" /\ code[u] = 201 /\ target[u] # None => n \in DOMAIN files /\ files[n] = req[u].body
  BY DEF Stored, n
<1>5. /\ pc'[u] = "create" => target'[u] = n
      /\ pc'[u] = "write" /\ target'[u] # None => target'[u] = n /\ n \in DOMAIN files' /\ files'[n] = Empty
      /\ pc'[u] = "answer" /\ code'[u] = 201 /\ target'[u] # None =>
           n \in DOMAIN files' /\ files'[n] = req'[u].body
  BY <1>1, <1>2, <1>4
<1> QED BY <1>3, <1>5 DEF Stored

\* The upload gets the name that it asks for.
LEMMA GoalIsTarget ==
  ASSUME TInv, NEW t \in Threads, Goal(req[t]) \in Own(t) \ Known PROVE Target(req[t]) = Goal(req[t])
<1>1. Goal(req[t]) \in Names
  BY DEF Own
<1> QED BY <1>1, NamesAssumption DEF Goal, Target, RequestedFile

LEMMA OwnStored == ASSUME TInv, NEW t \in Threads, Step(t), Stored(t) PROVE Stored(t)'
<1> DEFINE n == Goal(req[t])
<1> USE DEF TInv, Typed
<1>1. Writes(t)
  OBVIOUS
<1>2. CASE Begin(t)
  BY <1>2 DEF Begin, Stored
<1>3. CASE OpenTarget(t) \/ ReadTarget(t) \/ ReadIndex(t)
  <2>1. CASE \E right \in BOOLEAN : Decide(t, right)
    <3>1. PICK right \in BOOLEAN : /\ code' = [code EXCEPT ![t] = Status(req[t], right)]
                                   /\ pc' = [pc EXCEPT ![t] = Effect(req[t], Status(req[t], right))]
      BY <2>1 DEF Decide
    <3>2. pc'[t] \in {"count", "delete", "answer"} /\ (pc'[t] # "count" => code'[t] # 201)
      BY <3>1, StatusOf
    <3> QED BY <3>2 DEF Stored
  <2>2. CASE \E where \in Looks : pc' = [pc EXCEPT ![t] = where]
    BY <2>2 DEF Stored, Looks
  <2> QED BY <1>3, <2>1, <2>2 DEF OpenTarget, ReadTarget, ReadIndex, Looks
<1>4. CASE CountFiles(t)
  <2>1. /\ UNCHANGED req /\ pc[t] = "count"
        /\ \/ pc'[t] = "create" /\ target'[t] = Target(req[t])
           \/ pc'[t] = "answer" /\ target'[t] = target[t]
    BY <1>4 DEF CountFiles
  <2>2. target[t] = None
    BY <1>1, <2>1 DEF Writes
  <2> QED BY <2>1, <2>2, GoalIsTarget DEF Stored, Own, Goal, Numbered, Named
<1>5. CASE CreateFile(t)
  <2>1. UNCHANGED req /\ pc[t] = "create" /\ pc'[t] = "write"
    BY <1>5 DEF CreateFile
  <2>2. target'[t] = None \/ (target'[t] = target[t] /\ target[t] \in DOMAIN files' /\ files'[target[t]] = Empty)
    BY <1>5 DEF CreateFile, Opened, NotOpened
  <2>3. n \in Own(t) \ Known => target[t] = n
    BY <2>1 DEF Stored
  <2> QED BY <2>1, <2>2, <2>3 DEF Stored
<1>6. CASE WriteFile(t)
  <2>1. UNCHANGED <<req, target>> /\ pc[t] = "write" /\ pc'[t] = "answer"
    BY <1>6 DEF WriteFile
  <2>2. ASSUME n \in Own(t) \ Known, target[t] # None PROVE n \in DOMAIN files' /\ files'[n] = req[t].body
    <3>1. target[t] = n /\ n \in DOMAIN files /\ files[n] = Empty
      BY <2>1, <2>2 DEF Stored
    <3>2. files' = [files EXCEPT ![n] = Over(files[n], req[t].body)]
      BY <1>6, <2>2, <3>1 DEF WriteFile
    <3>3. req[t].body \in Nat
      BY DEF Request
    <3>4. Over(files[n], req[t].body) = req[t].body
      BY <3>1, <3>3 DEF Over, Empty, Mixed
    <3> QED BY <3>1, <3>2, <3>4
  <2> QED BY <2>1, <2>2 DEF Stored
<1>7. CASE DeleteFile(t)
  <2>1. pc'[t] = "answer" /\ code'[t] # 201
    BY <1>7 DEF DeleteFile, Writes
  <2> QED BY <2>1 DEF Stored
<1>8. CASE Answer(t)
  BY <1>8 DEF Answer, Stored
<1> QED BY <1>2, <1>3, <1>4, <1>5, <1>6, <1>7, <1>8 DEF Step

AllStored == TInv /\ \A t \in Threads : Stored(t)

LEMMA InitStored == Init => AllStored
  BY InitTyped DEF Init, Stored, AllStored

LEMMA StepStored == AllStored /\ [Next]_vars => AllStored'
<1> SUFFICES ASSUME AllStored, [Next]_vars PROVE AllStored'
  OBVIOUS
<1>1. TInv'
  BY StepTInv DEF AllStored
<1>2. ASSUME NEW t \in Threads, Step(t) PROVE \A u \in Threads : Stored(u)'
  BY <1>2, OwnStored, OthersStored DEF AllStored
<1>3. ASSUME UNCHANGED vars PROVE \A u \in Threads : Stored(u)'
  BY <1>3 DEF vars, Stored, Own, Goal, Numbered, Named, AllStored
<1> QED BY <1>1, <1>2, <1>3 DEF Next, Step, AllStored

\* However the threads interleave: when 201 Created goes out for a name that no other
\* client's requests name and that has no known extension, and the file could be opened,
\* it is there with the body of the request (Response.cpp:205-229, 293-310).
THEOREM CreatedMeansStored == Spec => []CreatedIsStored
<1>1. AllStored => CreatedIsStored
  BY DEF AllStored, Stored, Goal, CreatedIsStored
<1> QED BY <1>1, InitStored, StepStored, PTL DEF Spec

-----------------------------------------------------------------------------
(* The files of a client's own: Uploads implements PrivateFiles. *)

\* A name of one's own is the name of a file, and no number; no other thread's request
\* has to do with it, and it is not what remains of a known name.
LEMMA MineIs ==
  ASSUME NEW t \in Threads, NEW n \in Mine[t]
  PROVE  /\ n \in Own(t) \ Known /\ n \in Names \ Numbered /\ n # None /\ n # Dir
         /\ \A r \in Requests[t] : r.name \in Known => Chop(r.name) # n
  BY NamesAssumption DEF Mine, Own

\* What a thread has seen of a file of its own, or decided about it, is still so when it
\* acts on it; and it saves under no name of its own but the one that is asked for.
Seen(t) ==
  LET n == req[t].name IN
  /\ pc[t] \in Saves => req[t].method \in Saving
  /\ pc[t] = "create" => location.exists
  /\ pc[t] \in {"create", "write"} /\ Goal(req[t]) \notin Mine[t] => target[t] \notin Mine[t]
  /\ n \in Mine[t] /\ req[t].method \notin Saving =>
       /\ pc[t] \in {"read", "index"} => n \in DOMAIN files
       /\ pc[t] = "index" => files[n] = Empty
       /\ pc[t] = "delete" /\ code[t] = 200 => n \in DOMAIN files
       /\ pc[t] = "delete" /\ code[t] = 404 /\ n \in DOMAIN files => files[n] = Empty

PInv == AllStored /\ Inv /\ \A t \in Threads : Seen(t)

LEMMA InitPInv == Init => PInv
  BY InitStored, InitInv DEF Init, PInv, Seen, Saves

\* No step of another thread creates, removes or changes a file of one's own.
LEMMA OwnFileSame ==
  ASSUME TInv, NEW t \in Threads, Step(t), NEW u \in Threads, u # t, NEW n \in Own(u)
  PROVE  /\ n \in DOMAIN files' <=> n \in DOMAIN files
         /\ n \in DOMAIN files => files'[n] = files[n]
<1>1. n \in DOMAIN files => n \in DOMAIN files' /\ files'[n] = files[n]
  BY OwnFileKept DEF Kept
<1>2. ASSUME n \in DOMAIN files', n \notin DOMAIN files PROVE FALSE
  <2>1. CASE CreateFile(t)
    <3>1. pc[t] = "create" /\ n = target[t] /\ n # None
      BY <1>2, <2>1 DEF CreateFile, Opened, NotOpened
    <3>2. n \in Numbered \cup {None} \cup Named(req[t])
      BY <3>1 DEF TInv, Writes
    <3> QED BY <3>1, <3>2, OwnName
  <2>2. CASE ~CreateFile(t)
    BY <1>2, <2>2 DEF Step, Begin, OpenTarget, ReadTarget, ReadIndex, CountFiles, WriteFile, DeleteFile,
                      Answer, Restrict
  <2> QED BY <2>1, <2>2
<1> QED BY <1>1, <1>2

\* A file of one's own that one has open keeps its name when another thread removes one.
LEMMA OwnTargetSame ==
  ASSUME TInv, NEW t \in Threads, Step(t), NEW u \in Threads, u # t, NEW n \in Own(u)
  PROVE  target'[u] = n <=> target[u] = n
<1>1. n # None
  BY NamesAssumption DEF Own
<1>2. pc[t] = "delete" => req[t].name # n
  BY OwnName DEF Named
<1> QED BY <1>1, <1>2, OthersKept

LEMMA OthersSeen ==
  ASSUME PInv, NEW t \in Threads, Step(t), NEW u \in Threads, u # t PROVE Seen(u)'
<1>1. TInv /\ Seen(u)
  BY DEF PInv, AllStored
<1>2. pc'[u] = pc[u] /\ req'[u] = req[u] /\ code'[u] = code[u]
  BY <1>1, OthersKept
<1>3. location' = location
  BY DEF Step, Begin, OpenTarget, ReadTarget, ReadIndex, CountFiles, CreateFile, Opened, NotOpened, WriteFile, DeleteFile, Answer
<1>4. \A n \in Mine[u] : /\ n \in DOMAIN files' <=> n \in DOMAIN files
                         /\ n \in DOMAIN files => files'[n] = files[n]
                         /\ target'[u] = n <=> target[u] = n
  BY <1>1, MineIs, OwnFileSame, OwnTargetSame
<1>5. Mine' = Mine
  BY DEF Mine, Own, Numbered, Named
<1>6. Goal(req[u])' = Goal(req[u])
  BY <1>2 DEF Goal
<1>7. target'[u] \in Mine[u] => target[u] \in Mine[u]
  BY <1>4
<1> DEFINE n == req[u].name
<1>8. Seen(u)' <=>
       /\ pc[u] \in Saves => req[u].method \in Saving
       /\ pc[u] = "create" => location.exists
       /\ pc[u] \in {"create", "write"} /\ Goal(req[u]) \notin Mine[u] => target'[u] \notin Mine[u]
       /\ n \in Mine[u] /\ req[u].method \notin Saving =>
            /\ pc[u] \in {"read", "index"} => n \in DOMAIN files'
            /\ pc[u] = "index" => files'[n] = Empty
            /\ pc[u] = "delete" /\ code[u] = 200 => n \in DOMAIN files'
            /\ pc[u] = "delete" /\ code[u] = 404 /\ n \in DOMAIN files' => files'[n] = Empty
  BY <1>2, <1>3, <1>5, <1>6 DEF Seen, Saves, Saving
<1> QED BY <1>1, <1>4, <1>7, <1>8 DEF Seen

\* What decides about a request for a file of one's own that saves nothing: the file is
\* found to be there, or to be missing or empty.
LEMMA Found ==
  ASSUME PInv, NEW t \in Threads, OpenTarget(t) \/ ReadTarget(t) \/ ReadIndex(t),
         req[t].name \in Mine[t], req[t].method \notin Saving
  PROVE  LET n == req[t].name
             there == n \in DOMAIN files
             empty == there => files[n] = Empty
         IN  \/ there /\ Decide(t, TRUE)
             \/ empty /\ Decide(t, FALSE)
             \/ there /\ pc' = [pc EXCEPT ![t] = "read"] /\ UNCHANGED code
             \/ there /\ files[n] = Empty /\ pc' = [pc EXCEPT ![t] = "index"] /\ UNCHANGED code
<1>1. req[t].name \in Names /\ req[t].name # Dir
  BY MineIs
<1>2. Seen(t)
  BY DEF PInv
<1>3. CASE OpenTarget(t)
  BY <1>1, <1>3 DEF OpenTarget, Exists
<1>4. CASE ReadTarget(t)
  <2>1. req[t].name \in DOMAIN files
    BY <1>2, <1>4 DEF ReadTarget, Seen
  <2> QED BY <1>4, <2>1 DEF ReadTarget
<1>5. CASE ReadIndex(t)
  <2>1. req[t].name \in DOMAIN files /\ files[req[t].name] = Empty
    BY <1>2, <1>5 DEF ReadIndex, Seen
  <2>2. PICK right \in BOOLEAN : Decide(t, right)
    BY <1>5 DEF ReadIndex
  <2> QED BY <2>1, <2>2
<1> QED BY <1>3, <1>4, <1>5

\* What the else-ifs make of it (Response.cpp:205-229).
LEMMA DecidedAs ==
  ASSUME NEW r, NEW right \in BOOLEAN
  PROVE  LET s == Status(r, right)
             e == Effect(r, s)
         IN  /\ s \in Codes /\ e \in {"count", "delete", "answer"}
             /\ s = 201 <=> e = "count"
             /\ s = 201 => r.method \in Saving
             /\ s = 200 => r.method \notin Saving /\ right
             /\ s = 404 => ~right
             /\ e = "delete" <=> s # 201 /\ r.method = "DELETE"
<1>1. Status(r, right) \in Codes
  BY DEF Status, Codes
<1>2. Status(r, right) = 201 => r.method \in Saving
  BY DEF Status
<1>3. Status(r, right) = 200 => r.method \notin Saving /\ right
  BY DEF Status
<1>4. Status(r, right) = 404 => ~right
  BY DEF Status
<1> QED BY <1>1, <1>2, <1>3, <1>4 DEF Effect

\* The name that is not asked for is not one's own.
LEMMA OtherTarget ==
  ASSUME TInv, NEW t \in Threads, pc[t] # "idle", Cardinality(DOMAIN files) <= MaxFiles,
         Goal(req[t]) \notin Mine[t]
  PROVE  Target(req[t]) \notin Mine[t]
<1> DEFINE r == req[t]
<1>1. SUFFICES ASSUME Target(r) \in Mine[t] PROVE FALSE
  OBVIOUS
<1>2. r \in Requests[t]
  BY DEF TInv, Writes
<1>3. CASE r.part # None
  BY <1>1, <1>3 DEF Target, Goal
<1>4. CASE r.part = None /\ r.name = Dir
  <2>1. Cardinality(DOMAIN files) \in Nat
    BY FS_CardinalityType DEF TInv, Typed
  <2>2. Unnamed \in Numbered \cup {None}
    BY <2>1, BoundsAssumption DEF Unnamed, Numbered
  <2> QED BY <1>1, <1>4, <2>2, MineIs DEF Target
<1>5. CASE r.part = None /\ r.name # Dir /\ r.name \in Known
  <2>1. Target(r) = Chop(r.name)
    BY <1>5, NamesAssumption DEF Target, RequestedFile
  <2> QED BY <1>1, <1>2, <1>5, <2>1, MineIs
<1>6. CASE r.part = None /\ r.name # Dir /\ r.name \notin Known
  BY <1>1, <1>6 DEF Target, RequestedFile, Goal
<1> QED BY <1>3, <1>4, <1>5, <1>6

LEMMA OwnSeen == ASSUME PInv, NEW t \in Threads, Step(t) PROVE Seen(t)'
<1>1. TInv /\ Typed /\ Inv /\ Writes(t) /\ Seen(t) /\ Mine' = Mine
  BY DEF PInv, AllStored, TInv, Mine, Own, Numbered, Named
<1>2. location' = location
  BY DEF Step, Begin, OpenTarget, ReadTarget, ReadIndex, CountFiles, CreateFile, Opened, NotOpened, WriteFile, DeleteFile, Answer
<1>3. CASE Begin(t) \/ WriteFile(t) \/ DeleteFile(t) \/ Answer(t)
  <2>1. pc'[t] \in {"open", "answer", "idle"}
    BY <1>1, <1>3 DEF Typed, Begin, WriteFile, DeleteFile, Answer
  <2> QED BY <2>1 DEF Seen, Saves
<1>4. CASE OpenTarget(t) \/ ReadTarget(t) \/ ReadIndex(t)
  <2>1. UNCHANGED <<req, files>>
    BY <1>4 DEF OpenTarget, ReadTarget, ReadIndex
  <2>2. pc'[t] \notin {"create", "write"} /\ (pc'[t] = "count" => req'[t].method \in Saving)
    <3>1. CASE \E right \in BOOLEAN : Decide(t, right)
      <4>1. PICK right \in BOOLEAN : Decide(t, right)
        BY <3>1
      <4>2. pc'[t] = Effect(req[t], Status(req[t], right))
        BY <1>1, <4>1 DEF Decide, Typed
      <4> QED BY <2>1, <4>2, DecidedAs
    <3>2. CASE \E where \in Looks : pc' = [pc EXCEPT ![t] = where]
      BY <1>1, <3>2 DEF Typed, Looks
    <3> QED BY <1>4, <3>1, <3>2 DEF OpenTarget, ReadTarget, ReadIndex, Looks
  <2> DEFINE n == req[t].name
  <2>3. ASSUME n \in Mine[t], req[t].method \notin Saving
        PROVE  /\ pc'[t] \in {"read", "index"} => n \in DOMAIN files
               /\ pc'[t] = "index" => files[n] = Empty
               /\ pc'[t] = "delete" /\ code'[t] = 200 => n \in DOMAIN files
               /\ pc'[t] = "delete" /\ code'[t] = 404 /\ n \in DOMAIN files => files[n] = Empty
    <3>1. CASE n \in DOMAIN files /\ Decide(t, TRUE)
      <4>1. code'[t] = Status(req[t], TRUE) /\ pc'[t] = Effect(req[t], Status(req[t], TRUE))
        BY <1>1, <3>1 DEF Decide, Typed
      <4>2. code'[t] # 404
        BY <4>1 DEF Status
      <4>3. pc'[t] \in {"count", "delete", "answer"}
        BY <4>1 DEF Effect
      <4> QED BY <3>1, <4>2, <4>3
    <3>2. CASE (n \in DOMAIN files => files[n] = Empty) /\ Decide(t, FALSE)
      <4>1. code'[t] = Status(req[t], FALSE) /\ pc'[t] = Effect(req[t], Status(req[t], FALSE))
        BY <1>1, <3>2 DEF Decide, Typed
      <4>2. code'[t] # 200
        BY <4>1 DEF Status
      <4>3. pc'[t] \in {"count", "delete", "answer"}
        BY <4>1 DEF Effect
      <4> QED BY <3>2, <4>2, <4>3
    <3>3. CASE n \in DOMAIN files /\ pc' = [pc EXCEPT ![t] = "read"]
      BY <1>1, <3>3 DEF Typed
    <3>4. CASE n \in DOMAIN files /\ files[n] = Empty /\ pc' = [pc EXCEPT ![t] = "index"]
      BY <1>1, <3>4 DEF Typed
    <3> QED BY <1>4, <2>3, <3>1, <3>2, <3>3, <3>4, Found
  <2> QED BY <1>1, <2>1, <2>2, <2>3 DEF Seen, Saves, Saving
<1>5. CASE CountFiles(t)
  <2>1. /\ pc[t] = "count" /\ req' = req /\ pc'[t] \in {"create", "answer"}
        /\ pc'[t] = "create" => location.exists /\ target'[t] = Target(req[t])
        /\ Cardinality(DOMAIN files) <= MaxFiles
    BY <1>1, <1>5 DEF CountFiles, Typed
  <2>2. req[t].method \in Saving
    BY <1>1, <2>1 DEF Seen, Saves
  <2>3. Goal(req[t]) \notin Mine[t] => Target(req[t]) \notin Mine[t]
    BY <1>1, <2>1, OtherTarget
  <2> QED BY <1>1, <1>2, <2>1, <2>2, <2>3 DEF Seen, Saves, Saving, Goal
<1>6. CASE CreateFile(t)
  <2>1. pc[t] = "create" /\ pc'[t] = "write" /\ UNCHANGED req
    BY <1>1, <1>6 DEF CreateFile, Typed
  <2>2. target'[t] \in {target[t], None}
    BY <1>1, <1>6 DEF CreateFile, Opened, NotOpened, Typed
  <2> QED BY <1>1, <2>1, <2>2, MineIs DEF Seen, Saves, Saving, Goal
<1> QED BY <1>3, <1>4, <1>5, <1>6 DEF Step

LEMMA StepPInv == PInv /\ [Next]_vars => PInv'
<1>1. ASSUME PInv, NEW t \in Threads, Step(t) PROVE \A u \in Threads : Seen(u)'
  BY <1>1, OwnSeen, OthersSeen
<1>2. ASSUME PInv, UNCHANGED vars PROVE \A u \in Threads : Seen(u)'
  BY <1>2 DEF PInv, vars, Seen, Mine, Own, Numbered, Named, Saves, Saving, Goal
<1> QED BY <1>1, <1>2, StepStored, StepInv DEF PInv, Next, Step

\* The call that a thread's request is, and its answer, as PrivateFiles sees them.
AskedBy(t)  == IF pc[t] = "idle" THEN [op |-> "none"] ELSE Meaning(t, req[t])
AnswerTo(t) == IF pc[t] \notin {"write", "answer"} THEN 0 ELSE IF Lost(t) THEN Unsaved ELSE code[t]

\* An upload under a name of one's own is not lost to another thread's removal.
LEMMA OthersLost ==
  ASSUME PInv, NEW t \in Threads, Step(t), NEW u \in Threads, u # t, pc[u] \in {"write", "answer"}
  PROVE  Lost(u)' <=> Lost(u)
<1>1. TInv /\ Stored(u)
  BY DEF PInv, AllStored
<1>2. /\ req'[u] = req[u] /\ code'[u] = code[u]
      /\ \/ target'[u] = target[u]
         \/ pc[t] = "delete" /\ pc[u] = "write" /\ target[u] = req[t].name /\ target'[u] = None
  BY <1>1, OthersKept
<1>3. Goal(req[u])' = Goal(req[u]) /\ Mine' = Mine
  BY <1>2 DEF Goal, Mine, Own, Numbered, Named
<1>4. ASSUME Goal(req[u]) \in Mine[u], target'[u] # target[u] PROVE FALSE
  <2>1. Goal(req[u]) \in Own(u) \ Known /\ Goal(req[u]) # None
    BY <1>4, MineIs
  <2>2. pc[t] = "delete" /\ pc[u] = "write" /\ target[u] = req[t].name /\ target'[u] = None
    BY <1>2, <1>4
  <2>3. target[u] = Goal(req[u])
    BY <1>1, <1>4, <2>1, <2>2 DEF Stored
  <2> QED BY <1>1, <2>1, <2>2, <2>3, OwnName DEF Named
<1> QED BY <1>2, <1>3, <1>4 DEF Lost

\* A step of one thread is a step of its own client, or of none.
LEMMA StepSeenByOne ==
  ASSUME PInv, NEW t \in Threads, Step(t)
  PROVE  /\ HeldNow' = [HeldNow EXCEPT ![t] = Held(t)']
         /\ AskedNow' = [AskedNow EXCEPT ![t] = AskedBy(t)']
         /\ AnswerNow' = [AnswerNow EXCEPT ![t] = AnswerTo(t)']
         /\ HeldNow[t] = Held(t) /\ AskedNow[t] = AskedBy(t) /\ AnswerNow[t] = AnswerTo(t)
         /\ location' = location
<1>1. TInv
  BY DEF PInv, AllStored
<1>2. Mine' = Mine
  BY DEF Mine, Own, Numbered, Named
<1>3. ASSUME NEW u \in Threads, u # t
      PROVE  Held(u)' = Held(u) /\ AskedBy(u)' = AskedBy(u) /\ AnswerTo(u)' = AnswerTo(u)
  <2>1. pc'[u] = pc[u] /\ req'[u] = req[u] /\ code'[u] = code[u]
    BY <1>1, <1>3, OthersKept
  <2>2. \A n \in Mine[u] : /\ n \in DOMAIN files' <=> n \in DOMAIN files
                           /\ n \in DOMAIN files => files'[n] = files[n]
                           /\ target'[u] = n <=> target[u] = n
    BY <1>1, <1>3, MineIs, OwnFileSame, OwnTargetSame
  <2>3. Mine[u] \cap DOMAIN files' = Mine[u] \cap DOMAIN files
    BY <2>2
  <2>4. Held(u)' = Held(u)
    BY <1>2, <2>1, <2>2, <2>3 DEF Held
  <2>5. AskedBy(u)' = AskedBy(u)
    BY <1>2, <2>1 DEF AskedBy, Meaning, Saving, Goal
  <2>6. AnswerTo(u)' = AnswerTo(u)
    BY <1>3, <2>1, OthersLost DEF AnswerTo, Unsaved
  <2> QED BY <2>4, <2>5, <2>6
<1>4. HeldNow = [u \in Threads |-> Held(u)] /\ HeldNow' = [u \in Threads |-> Held(u)']
  BY DEF HeldNow
<1>5. AskedNow = [u \in Threads |-> AskedBy(u)] /\ AskedNow' = [u \in Threads |-> AskedBy(u)']
  BY DEF AskedNow, AskedBy
<1>6. AnswerNow = [u \in Threads |-> AnswerTo(u)] /\ AnswerNow' = [u \in Threads |-> AnswerTo(u)']
  BY DEF AnswerNow, AnswerTo, Lost
<1>7. location' = location
  BY DEF Step, Begin, OpenTarget, ReadTarget, ReadIndex, CountFiles, CreateFile, Opened, NotOpened, WriteFile, DeleteFile, Answer
<1>8. HeldNow' = [HeldNow EXCEPT ![t] = Held(t)'] /\ HeldNow[t] = Held(t)
  BY <1>3, <1>4
<1>9. AskedNow' = [AskedNow EXCEPT ![t] = AskedBy(t)'] /\ AskedNow[t] = AskedBy(t)
  BY <1>3, <1>5
<1>10. AnswerNow' = [AnswerNow EXCEPT ![t] = AnswerTo(t)'] /\ AnswerNow[t] = AnswerTo(t)
  BY <1>3, <1>6
<1> QED BY <1>7, <1>8, <1>9, <1>10

\* A step that leaves the client's files, call and answer as they are is none of its.
LEMMA Unseen ==
  ASSUME PInv, NEW t \in Threads, Step(t), Held(t)' = Held(t), AskedBy(t)' = AskedBy(t), AnswerTo(t)' = AnswerTo(t)
  PROVE  UNCHANGED Private!vars
<1>1. HeldNow' = HeldNow
  BY StepSeenByOne DEF HeldNow
<1>2. AskedNow' = AskedNow
  BY StepSeenByOne DEF AskedNow
<1>3. AnswerNow' = AnswerNow
  BY StepSeenByOne DEF AnswerNow
<1> QED BY <1>1, <1>2, <1>3, StepSeenByOne DEF Private!vars

\* A step that gives an answer, and what it has done to the client's files by then.
LEMMA Answered ==
  ASSUME PInv, NEW t \in Threads, Step(t), pc[t] # "idle", AskedBy(t)' = AskedBy(t), AnswerTo(t) = 0,
         NEW s, AnswerTo(t)' = s
  PROVE  /\ Private!Responds(t, s)
         /\ Held(t)' = Held(t) => HeldNow' = HeldNow
<1>1. AskedBy(t) # [op |-> "none"]
  BY DEF AskedBy, Meaning
<1>2. AskedNow' = AskedNow
  BY StepSeenByOne DEF AskedNow
<1>3. Held(t)' = Held(t) => HeldNow' = HeldNow
  BY StepSeenByOne DEF HeldNow
<1> QED BY <1>1, <1>2, <1>3, StepSeenByOne DEF Private!Responds, Private!NoCall

\* What a request means that is not a matter of names of one's own.
LEMMA MeaningIs ==
  ASSUME NEW t \in Threads, NEW r
  PROVE  /\ Meaning(t, r).op \in {"save", "look", "remove", "elsewhere"}
         /\ Meaning(t, r).op = "save" =>
              r.method \in Saving /\ Goal(r) \in Mine[t] /\ Meaning(t, r).name = Goal(r)
              /\ Meaning(t, r).body = r.body
         /\ Meaning(t, r).op \in {"look", "remove"} =>
              r.method \notin Saving /\ r.name \in Mine[t] /\ Meaning(t, r).name = r.name
         /\ Meaning(t, r).op \in {"look", "remove"} => (Meaning(t, r).op = "remove" <=> r.method = "DELETE")
         /\ Meaning(t, r).op = "elsewhere" =>
              (r.method \in Saving => Goal(r) \notin Mine[t]) /\ (r.method \notin Saving => r.name \notin Mine[t])
  BY DEF Meaning

LEMMA BeginIsAsk == ASSUME PInv, NEW t \in Threads, Begin(t) PROVE Private!Ask(t)
<1>1. Step(t) /\ Typed
  BY DEF Step, PInv, AllStored, TInv
<1>2. PICK r \in Requests[t] : req' = [req EXCEPT ![t] = r]
  BY DEF Begin
<1>3. pc[t] = "idle" /\ pc'[t] = "open" /\ req'[t] = r /\ files' = files
  BY <1>1, <1>2 DEF Begin, Typed
<1>4. Mine' = Mine
  BY DEF Mine, Own, Numbered, Named
<1>5. AskedBy(t) = [op |-> "none"] /\ AskedBy(t)' = Meaning(t, r)
  BY <1>3, <1>4 DEF AskedBy, Meaning, Saving, Goal
<1>6. Held(t)' = Held(t)
  BY <1>3, <1>4 DEF Held
<1>7. AnswerTo(t) = 0 /\ AnswerTo(t)' = AnswerTo(t)
  BY <1>3 DEF AnswerTo
<1>8. HeldNow' = HeldNow
  BY <1>1, <1>6, StepSeenByOne DEF HeldNow
<1>9. AnswerNow' = AnswerNow
  BY <1>1, <1>7, StepSeenByOne DEF AnswerNow
<1> QED BY <1>1, <1>5, <1>8, <1>9, StepSeenByOne DEF Private!Ask, Private!NoCall

LEMMA DoneOnAnswer == ASSUME PInv, NEW t \in Threads, Answer(t) PROVE Private!Done(t)
<1>1. Step(t) /\ Typed /\ Writes(t)
  BY DEF Step, PInv, AllStored, TInv
<1>2. pc[t] = "answer" /\ pc'[t] = "idle" /\ UNCHANGED <<req, files>>
  BY <1>1 DEF Answer, Typed
<1>3. AnswerTo(t) # 0 /\ AnswerTo(t)' = 0
  BY <1>1, <1>2 DEF AnswerTo, Unsaved, Writes, Looks
<1>4. AskedBy(t)' = [op |-> "none"]
  BY <1>2 DEF AskedBy
<1>5. Held(t)' = Held(t)
  BY <1>2 DEF Held, Mine, Own, Numbered, Named
<1>6. HeldNow' = HeldNow
  BY <1>1, <1>5, StepSeenByOne DEF HeldNow
<1> QED BY <1>1, <1>3, <1>4, <1>6, StepSeenByOne DEF Private!Done, Private!NoCall

\* Between the beginning and the answer the call stays the same.
LEMMA SameCall ==
  ASSUME NEW t \in Threads, pc[t] # "idle", pc'[t] # "idle", req'[t] = req[t]
  PROVE  AskedBy(t)' = AskedBy(t) /\ AskedBy(t) = Meaning(t, req[t])
<1>1. Mine' = Mine
  BY DEF Mine, Own, Numbered, Named
<1> QED BY <1>1 DEF AskedBy, Meaning, Saving, Goal

\* A decision that ends a request without touching the files.
LEMMA DecidedAnswer ==
  ASSUME PInv, NEW t \in Threads, OpenTarget(t) \/ ReadTarget(t) \/ ReadIndex(t), pc'[t] = "answer"
  PROVE  Private!Refuse(t) \/ Private!Look(t) \/ Private!Elsewhere(t)
<1> DEFINE r == req[t]
<1>0. PICK s : s = code'[t]
  OBVIOUS
<1>1. Step(t) /\ Typed /\ Writes(t)
  BY DEF Step, PInv, AllStored, TInv
<1>2. pc[t] \in Looks /\ UNCHANGED <<location, files, req, target>>
  BY DEF OpenTarget, ReadTarget, ReadIndex, Looks
<1>3. PICK right \in BOOLEAN : Decide(t, right)
  BY <1>1, <1>2 DEF OpenTarget, ReadTarget, ReadIndex, Typed
<1>4. s = Status(r, right) /\ Effect(r, Status(r, right)) = "answer"
  BY <1>0, <1>1, <1>3 DEF Decide, Typed
<1>5. /\ s \in {200} \cup Private!Refusals /\ r.method # "DELETE"
      /\ s = 200 => r.method \notin Saving
  BY <1>4, DecidedAs DEF Private!Refusals, Codes
<1>6. AskedBy(t)' = AskedBy(t) /\ AskedBy(t) = Meaning(t, r) /\ AnswerTo(t) = 0 /\ AnswerTo(t)' = s
  BY <1>0, <1>2, <1>5, SameCall DEF AnswerTo, Lost, Looks, Private!Refusals
<1>7. Held(t)' = Held(t)
  BY <1>2 DEF Held, Looks, Mine, Own, Numbered, Named
<1>8. Private!Responds(t, s) /\ HeldNow' = HeldNow
  BY <1>1, <1>2, <1>6, <1>7, Answered DEF Looks
<1>9. AskedNow[t] = Meaning(t, r) /\ HeldNow[t] = Held(t)
  BY <1>1, <1>6, StepSeenByOne
<1>10. CASE Meaning(t, r).op = "save"
  <2>1. s \in Private!Refusals
    BY <1>5, <1>10, MeaningIs
  <2> QED BY <1>8, <1>9, <1>10, <2>1 DEF Private!Refuse
<1>11. CASE Meaning(t, r).op = "elsewhere"
  BY <1>8, <1>9, <1>5, <1>11 DEF Private!Elsewhere
<1>12. CASE Meaning(t, r).op \in {"look", "remove"}
  <2>1. Meaning(t, r).op = "look" /\ Meaning(t, r).name = r.name /\ r.name \in Mine[t] /\ r.method \notin Saving
    BY <1>5, <1>12, MeaningIs
  <2>2. /\ s = 200 => r.name \in DOMAIN files
        /\ s = 404 /\ r.name \in DOMAIN files => files[r.name] = Empty
    <3>1. CASE r.name \in DOMAIN files /\ Decide(t, TRUE)
      <4>1. s = Status(r, TRUE)
        BY <1>0, <1>1, <3>1 DEF Decide, Typed
      <4> QED BY <3>1, <4>1 DEF Status
    <3>2. CASE (r.name \in DOMAIN files => files[r.name] = Empty) /\ Decide(t, FALSE)
      <4>1. s = Status(r, FALSE)
        BY <1>0, <1>1, <3>2 DEF Decide, Typed
      <4> QED BY <3>2, <4>1 DEF Status
    <3>3. CASE pc' = [pc EXCEPT ![t] = "read"] \/ pc' = [pc EXCEPT ![t] = "index"]
      BY <1>1, <3>3 DEF Typed
    <3> QED BY <2>1, <3>1, <3>2, <3>3, Found
  <2>3. /\ DOMAIN Held(t) = Mine[t] \cap DOMAIN files
        /\ \A n \in DOMAIN Held(t) : Held(t)[n] = files[n]
    BY <1>2 DEF Held, Looks
  <2>4. Private!Tells(t, s)
    BY <1>9, <2>1, <2>2, <2>3 DEF Private!Tells, Private!Named, Private!Empty, Empty
  <2> QED BY <1>8, <1>9, <1>5, <2>1, <2>4 DEF Private!Look
<1> QED BY <1>10, <1>11, <1>12, MeaningIs

LEMMA DecidesUnseen ==
  ASSUME PInv, NEW t \in Threads, OpenTarget(t) \/ ReadTarget(t) \/ ReadIndex(t), pc'[t] # "answer"
  PROVE  UNCHANGED Private!vars
<1>1. Step(t) /\ Typed
  BY DEF Step, PInv, AllStored, TInv
<1>2. pc[t] \in Looks /\ UNCHANGED <<location, files, req, target>>
  BY DEF OpenTarget, ReadTarget, ReadIndex, Looks
<1>3. pc'[t] \in {"count", "delete", "read", "index"}
  <2>1. CASE \E right \in BOOLEAN : Decide(t, right)
    <3>1. PICK right \in BOOLEAN : Decide(t, right)
      BY <2>1
    <3>2. pc'[t] = Effect(req[t], Status(req[t], right))
      BY <1>1, <3>1 DEF Decide, Typed
    <3> QED BY <3>2 DEF Effect
  <2>2. CASE \E where \in {"read", "index"} : pc' = [pc EXCEPT ![t] = where]
    BY <1>1, <2>2 DEF Typed
  <2> QED BY <2>1, <2>2 DEF OpenTarget, ReadTarget, ReadIndex
<1>4. AskedBy(t)' = AskedBy(t)
  BY <1>2, <1>3, SameCall DEF Looks
<1>5. Held(t)' = Held(t) /\ AnswerTo(t)' = AnswerTo(t)
  BY <1>2, <1>3 DEF Held, AnswerTo, Looks, Mine, Own, Numbered, Named
<1> QED BY <1>1, <1>4, <1>5, Unseen

\* The count is not seen; without a directory the upload is answered, and lost.
LEMMA CountSeen ==
  ASSUME PInv, NEW t \in Threads, CountFiles(t)
  PROVE  UNCHANGED Private!vars \/ Private!Lose(t) \/ Private!Elsewhere(t)
<1>1. Step(t) /\ Typed /\ Inv /\ Seen(t) /\ Writes(t)
  BY DEF Step, PInv, AllStored, TInv
<1>2. pc[t] = "count" /\ UNCHANGED <<location, files, req, code>>
  BY DEF CountFiles
<1>3. \/ pc'[t] = "create"
      \/ pc'[t] = "answer" /\ target'[t] = None
  BY <1>1, <1>2 DEF CountFiles, Typed, Writes
<1>4. AskedBy(t)' = AskedBy(t) /\ AskedBy(t) = Meaning(t, req[t])
  BY <1>2, <1>3, SameCall
<1>5. Held(t)' = Held(t)
  BY <1>2, <1>3 DEF Held, Mine, Own, Numbered, Named
<1>6. CASE pc'[t] = "create"
  <2>1. AnswerTo(t)' = AnswerTo(t)
    BY <1>2, <1>6 DEF AnswerTo
  <2> QED BY <1>1, <1>4, <1>5, <2>1, Unseen
<1>7. CASE pc'[t] = "answer" /\ target'[t] = None
  <2> DEFINE r == req[t]
             s == IF Goal(r) \in Mine[t] THEN Unsaved ELSE 201
  <2>1. code[t] = 201 /\ r.method \in Saving
    BY <1>1, <1>2 DEF Inv, GrantedOrDelete, Seen, Saves
  <2>2. AnswerTo(t) = 0 /\ AnswerTo(t)' = s
    BY <1>2, <1>7, <2>1 DEF AnswerTo, Lost, Mine, Own, Numbered, Named, Goal
  <2> HIDE DEF s
  <2>3. Private!Responds(t, s) /\ HeldNow' = HeldNow
    BY <1>1, <1>2, <1>4, <1>5, <2>2, Answered
  <2>4. AskedNow[t] = Meaning(t, r)
    BY <1>1, <1>4, StepSeenByOne
  <2>5. CASE Goal(r) \in Mine[t]
    <3>1. s = Private!Unsaved /\ Meaning(t, r).op = "save"
      BY <2>1, <2>5 DEF s, Unsaved, Private!Unsaved, Meaning
    <3> QED BY <2>3, <2>4, <3>1 DEF Private!Lose
  <2>6. CASE Goal(r) \notin Mine[t]
    <3>1. s = 201 /\ Meaning(t, r).op = "elsewhere"
      BY <2>1, <2>6 DEF s, Meaning
    <3> QED BY <2>3, <2>4, <3>1 DEF Private!Elsewhere
  <2> QED BY <2>5, <2>6
<1> QED BY <1>3, <1>6, <1>7

\* An upload happens when its file is opened.
LEMMA CreateIsSave ==
  ASSUME PInv, NEW t \in Threads, CreateFile(t), Opened(t) PROVE Private!Save(t) \/ Private!Elsewhere(t)
<1> DEFINE r == req[t]
<1>1. Step(t) /\ Typed /\ Inv /\ Seen(t) /\ Stored(t)
  BY DEF Step, PInv, AllStored, TInv
<1>2. pc[t] = "create" /\ pc'[t] = "write" /\ UNCHANGED <<location, req, code, target>>
  BY <1>1 DEF CreateFile, Opened, Typed
<1>3. code[t] = 201 /\ r.method \in Saving /\ location.exists
  BY <1>1, <1>2 DEF Inv, GrantedOrDelete, Seen, Saves
<1>4. AskedBy(t)' = AskedBy(t) /\ AskedBy(t) = Meaning(t, r)
  BY <1>2, SameCall
<1>5. AnswerTo(t) = 0 /\ AnswerTo(t)' = 201
  BY <1>2, <1>3 DEF AnswerTo, Lost, Opened
<1>6. Private!Responds(t, 201) /\ (Held(t)' = Held(t) => HeldNow' = HeldNow)
  BY <1>1, <1>2, <1>4, <1>5, Answered
<1>7. AskedNow[t] = Meaning(t, r) /\ HeldNow[t] = Held(t) /\ HeldNow' = [HeldNow EXCEPT ![t] = Held(t)']
  BY <1>1, <1>4, StepSeenByOne
<1>8. /\ Held(t) = [n \in Mine[t] \cap DOMAIN files |-> files[n]]
      /\ Held(t)' = [n \in Mine[t] \cap DOMAIN files' |-> IF target[t] = n THEN r.body ELSE files'[n]]
  BY <1>2 DEF Held, Mine, Own, Numbered, Named
<1>9. /\ DOMAIN files' = DOMAIN files \cup {target[t]}
      /\ \A n \in DOMAIN files : n # target[t] => files'[n] = files[n]
  BY DEF Opened
<1>10. CASE Goal(r) \in Mine[t]
  <2>1. target[t] = Goal(r)
    BY <1>1, <1>2, <1>10, MineIs DEF Stored
  <2>2. Meaning(t, r).op = "save" /\ Meaning(t, r).name = Goal(r) /\ Meaning(t, r).body = r.body
    BY <1>3, <1>10 DEF Meaning
  <2>3. Mine[t] \cap DOMAIN files' = (Mine[t] \cap DOMAIN files) \cup {Goal(r)}
    BY <1>9, <1>10, <2>1
  <2>4. Held(t)' = [n \in (Mine[t] \cap DOMAIN files) \cup {Goal(r)} |->
                      IF n = Goal(r) THEN r.body ELSE Held(t)[n]]
    BY <1>8, <1>9, <2>1, <2>3
  <2>5. Held(t)' = Private!With(t)
    BY <1>7, <1>8, <2>2, <2>4 DEF Private!With, Private!Named
  <2> QED BY <1>3, <1>6, <1>7, <2>2, <2>5 DEF Private!Save
<1>11. CASE Goal(r) \notin Mine[t]
  <2>1. target[t] \notin Mine[t]
    BY <1>1, <1>2, <1>11 DEF Seen
  <2>2. Mine[t] \cap DOMAIN files' = Mine[t] \cap DOMAIN files
    BY <1>9, <2>1
  <2>3. Held(t)' = Held(t)
    BY <1>8, <1>9, <2>1, <2>2
  <2>4. Meaning(t, r).op = "elsewhere"
    BY <1>3, <1>11 DEF Meaning
  <2> QED BY <1>6, <1>7, <2>3, <2>4 DEF Private!Elsewhere
<1> QED BY <1>10, <1>11

\* And is lost when it is not.
LEMMA NotOpenedIsLose ==
  ASSUME PInv, NEW t \in Threads, CreateFile(t), NotOpened(t) PROVE Private!Lose(t) \/ Private!Elsewhere(t)
<1> DEFINE r == req[t]
           s == IF Goal(r) \in Mine[t] THEN Unsaved ELSE 201
<1>1. Step(t) /\ Typed /\ Inv /\ Seen(t)
  BY DEF Step, PInv, AllStored, TInv
<1>2. pc[t] = "create" /\ pc'[t] = "write" /\ target'[t] = None /\ UNCHANGED <<files, req, code>>
  BY <1>1 DEF CreateFile, NotOpened, Typed
<1>3. code[t] = 201 /\ r.method \in Saving
  BY <1>1, <1>2 DEF Inv, GrantedOrDelete, Seen, Saves
<1>4. AskedBy(t)' = AskedBy(t) /\ AskedBy(t) = Meaning(t, r)
  BY <1>2, SameCall
<1>5. AnswerTo(t) = 0 /\ AnswerTo(t)' = s
  BY <1>2, <1>3 DEF AnswerTo, Lost, Mine, Own, Numbered, Named, Goal
<1>6. Held(t)' = Held(t)
  <2>1. None \notin Mine[t]
    BY MineIs
  <2> QED BY <1>2, <2>1 DEF Held, Mine, Own, Numbered, Named
<1> HIDE DEF s
<1>7. Private!Responds(t, s) /\ HeldNow' = HeldNow
  BY <1>1, <1>2, <1>4, <1>5, <1>6, Answered
<1>8. AskedNow[t] = Meaning(t, r)
  BY <1>1, <1>4, StepSeenByOne
<1>9. CASE Goal(r) \in Mine[t]
  <2>1. s = Private!Unsaved /\ Meaning(t, r).op = "save"
    BY <1>3, <1>9 DEF s, Unsaved, Private!Unsaved, Meaning
  <2> QED BY <1>7, <1>8, <2>1 DEF Private!Lose
<1>10. CASE Goal(r) \notin Mine[t]
  <2>1. s = 201 /\ Meaning(t, r).op = "elsewhere"
    BY <1>3, <1>10 DEF s, Meaning
  <2> QED BY <1>7, <1>8, <2>1 DEF Private!Elsewhere
<1> QED BY <1>9, <1>10

\* The writing is not seen: the file already counts as written.
LEMMA WriteUnseen == ASSUME PInv, NEW t \in Threads, WriteFile(t) PROVE UNCHANGED Private!vars
<1> DEFINE r == req[t]
<1>1. Step(t) /\ Typed /\ Writes(t) /\ Seen(t) /\ Stored(t)
  BY DEF Step, PInv, AllStored, TInv
<1>2. pc[t] = "write" /\ pc'[t] = "answer" /\ UNCHANGED <<location, req, code, target>>
  BY <1>1 DEF WriteFile, Typed
<1>3. AskedBy(t)' = AskedBy(t) /\ AnswerTo(t)' = AnswerTo(t)
  BY <1>2, SameCall DEF AnswerTo, Lost, Mine, Own, Numbered, Named, Goal
<1>4. /\ Held(t) = [n \in Mine[t] \cap DOMAIN files |-> IF target[t] = n THEN r.body ELSE files[n]]
      /\ Held(t)' = [n \in Mine[t] \cap DOMAIN files' |-> files'[n]]
  BY <1>2 DEF Held, Mine, Own, Numbered, Named
<1>5. /\ DOMAIN files' = DOMAIN files
      /\ \A n \in DOMAIN files : n # target[t] => files'[n] = files[n]
  BY <1>1 DEF WriteFile, Typed
<1>6. ASSUME target[t] \in Mine[t] PROVE files'[target[t]] = r.body
  <2>1. Goal(r) \in Mine[t]
    BY <1>1, <1>2, <1>6 DEF Seen
  <2>2. target[t] = Goal(r) /\ Goal(r) \in DOMAIN files /\ files[Goal(r)] = Empty /\ Goal(r) # None
    BY <1>1, <1>2, <1>6, <2>1, MineIs DEF Stored
  <2>3. r.body \in Nat
    BY <1>1 DEF Typed, Request
  <2>4. Over(files[Goal(r)], r.body) = r.body
    BY <2>2, <2>3 DEF Over, Empty, Mixed
  <2>5. files' = [files EXCEPT ![Goal(r)] = Over(files[Goal(r)], r.body)]
    BY <2>2 DEF WriteFile
  <2> QED BY <2>2, <2>4, <2>5
<1>7. Held(t)' = Held(t)
  BY <1>4, <1>5, <1>6
<1> QED BY <1>1, <1>3, <1>7, Unseen

\* What was found when the request was decided is still so when the file is removed.
LEMMA DeleteIsRemove ==
  ASSUME PInv, NEW t \in Threads, DeleteFile(t) PROVE Private!Remove(t) \/ Private!Elsewhere(t)
<1> DEFINE r == req[t]
<1>0. PICK s : s = code[t]
  OBVIOUS
<1>1. Step(t) /\ Typed /\ Writes(t) /\ Inv /\ Seen(t)
  BY DEF Step, PInv, AllStored, TInv
<1>2. pc[t] = "delete" /\ pc'[t] = "answer" /\ UNCHANGED <<location, req, code>>
  BY <1>1 DEF DeleteFile, Typed
<1>3. r.method = "DELETE" /\ s \in {200} \cup Private!Refusals
  BY <1>0, <1>1, <1>2 DEF Inv, GrantedOrDelete, Writes, Typed, Looks, Codes, Private!Refusals
<1>4. AskedBy(t)' = AskedBy(t) /\ AskedBy(t) = Meaning(t, r)
  BY <1>2, SameCall
<1>5. AnswerTo(t) = 0 /\ AnswerTo(t)' = s
  BY <1>0, <1>2, <1>3 DEF AnswerTo, Lost, Private!Refusals
<1>6. Private!Responds(t, s) /\ (Held(t)' = Held(t) => HeldNow' = HeldNow)
  BY <1>1, <1>2, <1>4, <1>5, Answered
<1>7. AskedNow[t] = Meaning(t, r) /\ HeldNow[t] = Held(t) /\ HeldNow' = [HeldNow EXCEPT ![t] = Held(t)']
  BY <1>1, <1>4, StepSeenByOne
<1>8. /\ Held(t) = [n \in Mine[t] \cap DOMAIN files |-> files[n]]
      /\ Held(t)' = [n \in Mine[t] \cap DOMAIN files' |-> files'[n]]
  BY <1>2 DEF Held, Mine, Own, Numbered, Named
<1>9. files' = [n \in DOMAIN files \ {r.name} |-> files[n]]
  BY DEF DeleteFile, Restrict
<1>10. CASE r.name \in Mine[t]
  <2>1. Meaning(t, r).op = "remove" /\ Meaning(t, r).name = r.name
    BY <1>3, <1>10 DEF Meaning, Saving
  <2>2. /\ s = 200 => r.name \in DOMAIN files
        /\ s = 404 /\ r.name \in DOMAIN files => files[r.name] = Empty
    BY <1>0, <1>1, <1>2, <1>3, <1>10 DEF Seen, Saving
  <2>3. Private!Tells(t, s)
    BY <1>7, <1>8, <1>10, <2>1, <2>2 DEF Private!Tells, Private!Named, Private!Empty, Empty
  <2>4. Held(t)' = [n \in (Mine[t] \cap DOMAIN files) \ {r.name} |-> files[n]]
    BY <1>8, <1>9
  <2>5. Held(t)' = Private!Without(t)
    BY <1>7, <1>8, <2>1, <2>4 DEF Private!Without, Private!Named
  <2> QED BY <1>3, <1>6, <1>7, <2>1, <2>3, <2>5 DEF Private!Remove
<1>11. CASE r.name \notin Mine[t]
  <2>1. Held(t)' = Held(t)
    BY <1>8, <1>9, <1>11
  <2>2. Meaning(t, r).op = "elsewhere"
    BY <1>3, <1>11 DEF Meaning, Saving
  <2> QED BY <1>3, <1>6, <1>7, <2>1, <2>2 DEF Private!Elsewhere
<1> QED BY <1>10, <1>11

LEMMA InitIsInit == Init => Private!Init
<1> SUFFICES ASSUME Init PROVE Private!Init
  OBVIOUS
<1>1. ASSUME NEW t \in Threads
      PROVE  /\ Held(t) = Restrict(FirstFiles, Mine[t] \cap DOMAIN FirstFiles)
             /\ AskedBy(t) = [op |-> "none"] /\ AnswerTo(t) = 0
  BY DEF Init, Held, Restrict, AskedBy, AnswerTo
<1>2. HeldNow = [t \in Threads |-> Restrict(FirstFiles, Mine[t] \cap DOMAIN FirstFiles)]
  BY <1>1 DEF HeldNow
<1>3. AskedNow = [t \in Threads |-> [op |-> "none"]]
  BY <1>1 DEF AskedNow, AskedBy
<1>4. AnswerNow = [t \in Threads |-> 0]
  BY <1>1 DEF AnswerNow, AnswerTo, Lost
<1> QED BY <1>2, <1>3, <1>4 DEF Private!Init, Private!NoCall

\* In every interleaving of any number of servers, what a client does with the names that
\* it alone uses is as if each of its requests took effect at once and one after the other:
\* an upload when its file is opened, or never if the system does not open it, a removal
\* when the file is removed, everything else when the status is decided.  Names with a
\* known extension are not such names (Response.cpp:205-229, 293-322).
THEOREM PrivateFilesImplemented == Spec => ImplementsPrivateFiles
<1>1. PInv /\ [Next]_vars => [Private!Next]_Private!vars
  <2> SUFFICES ASSUME PInv, [Next]_vars PROVE [Private!Next]_Private!vars
    OBVIOUS
  <2>1. ASSUME NEW t \in Threads, Begin(t) PROVE Private!Next
    BY <2>1, BeginIsAsk DEF Private!Next
  <2>2. ASSUME NEW t \in Threads, OpenTarget(t) \/ ReadTarget(t) \/ ReadIndex(t)
        PROVE  Private!Next \/ UNCHANGED Private!vars
    BY <2>2, DecidedAnswer, DecidesUnseen DEF Private!Next
  <2>3. ASSUME NEW t \in Threads, CountFiles(t) PROVE Private!Next \/ UNCHANGED Private!vars
    BY <2>3, CountSeen DEF Private!Next
  <2>4. ASSUME NEW t \in Threads, CreateFile(t) PROVE Private!Next
    BY <2>4, CreateIsSave, NotOpenedIsLose DEF CreateFile, Private!Next
  <2>5. ASSUME NEW t \in Threads, WriteFile(t) PROVE UNCHANGED Private!vars
    BY <2>5, WriteUnseen
  <2>6. ASSUME NEW t \in Threads, DeleteFile(t) PROVE Private!Next
    BY <2>6, DeleteIsRemove DEF Private!Next
  <2>7. ASSUME NEW t \in Threads, Answer(t) PROVE Private!Next
    BY <2>7, DoneOnAnswer DEF Private!Next
  <2>8. ASSUME UNCHANGED vars PROVE UNCHANGED Private!vars
    BY <2>8 DEF vars, Private!vars, HeldNow, AskedNow, AnswerNow, Lost, Held, Meaning, Mine, Own, Numbered, Named,
                Saving, Goal
  <2> QED BY <2>1, <2>2, <2>3, <2>4, <2>5, <2>6, <2>7, <2>8 DEF Next
<1> QED BY <1>1, InitPInv, InitIsInit, StepPInv, PTL DEF Spec, ImplementsPrivateFiles, Private!Spec

=============================================================================
