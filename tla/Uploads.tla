------------------------------- MODULE Uploads -------------------------------
(***************************************************************************)
(* What a request does to the files of a location: the constructor of a    *)
(* Response, from checkPathForLocation to savePostBody and handleDelete    *)
(* (src/src/response/Response.cpp).                                        *)
(*                                                                         *)
(* The servers of one process are threads that share the file system and   *)
(* may serve the same directory.  One step is what a thread does between   *)
(* two system calls on which the files' state depends.                     *)
(***************************************************************************)
EXTENDS Integers, FiniteSets, Functions

CONSTANTS
  Threads,    \* the servers whose location has this directory as its root
  Names,      \* names of files
  Dir,        \* the directory itself: the route "/"
  None,       \* no name
  Dotted,     \* an index that begins with a dot: any file with that extension
  Known,      \* names with an extension that setContentType knows
  Chop(_),    \* a name without its last character
  Number(_),  \* the name that is written like a number
  Requests,   \* what each thread is asked
  MaxServed,  \* how many requests each thread serves
  MaxFiles,   \* how many files there may be when they are counted
  Locations,  \* how the location may be configured
  FirstFiles  \* the files that are there at the start

(***************************************************************************)
(* `part' is the file name inside a multipart body; a body is known by its *)
(* length; `wrong' says that a Content-Length is there and is another one. *)
(* GET, HEAD and DELETE requests have no _body, whatever the client sends. *)
(* `top': the location is "/", whose directory is asked for as "/", which  *)
(* setRoute makes "./".                                                    *)
(***************************************************************************)
Request  == [method: {"GET", "HEAD", "POST", "PUT", "DELETE"}, name: Names \cup {Dir},
             part: Names \cup {None}, body: Nat, wrong: BOOLEAN]
Location == [methods: SUBSET {"GET", "HEAD", "POST", "PUT", "DELETE"}, redirect: BOOLEAN,
             autoindex: BOOLEAN, index: Names \cup {Dotted}, maxBody: Nat, exists: BOOLEAN, top: BOOLEAN]

ASSUME NamesAssumption     == Dir \notin Names /\ None \notin Names \cup {Dir} /\ Known \subseteq Names
ASSUME BoundsAssumption    == MaxFiles \in Nat /\ \A t \in Threads : MaxServed[t] \in Nat
ASSUME NamingAssumption    == /\ \A n \in Known : Chop(n) \in Names
                              /\ \A k \in 1..MaxFiles + 1 : Number(k) \in Names
ASSUME RequestsAssumption  == \A t \in Threads : Requests[t] \subseteq Request
ASSUME LocationsAssumption == Locations \subseteq Location
ASSUME FilesAssumption     == /\ IsFiniteSet(DOMAIN FirstFiles) /\ DOMAIN FirstFiles \subseteq Names
                              /\ FirstFiles \in [DOMAIN FirstFiles -> Nat]

Empty == 0    \* a file without content
Mixed == -1   \* a file with bytes of two bodies

VARIABLES
  location, \* _location
  files,    \* from the names of the files that exist to what they hold
  pc,       \* where each thread is
  req,      \* its request
  code,     \* _responseCode
  target,   \* the file it has opened for writing, or is about to open
  served,   \* how many requests it has served
  changed   \* whether its request has changed a file (history)

vars == <<location, files, pc, req, code, target, served, changed>>

Saving == {"POST", "PUT"}
NoRequest == [method |-> "GET", name |-> Dir, part |-> None, body |-> 0, wrong |-> FALSE]

Init ==
  /\ location \in Locations
  /\ files = FirstFiles
  /\ pc = [t \in Threads |-> "idle"]
  /\ req = [t \in Threads |-> NoRequest]
  /\ code = [t \in Threads |-> 0]
  /\ target = [t \in Threads |-> None]
  /\ served = [t \in Threads |-> 0]
  /\ changed = [t \in Threads |-> FALSE]

Begin(t) ==
  /\ pc[t] = "idle" /\ served[t] < MaxServed[t]
  /\ \E r \in Requests[t] : req' = [req EXCEPT ![t] = r]
  /\ pc' = [pc EXCEPT ![t] = "open"]
  /\ served' = [served EXCEPT ![t] = @ + 1]
  /\ code' = [code EXCEPT ![t] = 0]
  /\ target' = [target EXCEPT ![t] = None]
  /\ changed' = [changed EXCEPT ![t] = FALSE]
  /\ UNCHANGED <<location, files>>

-----------------------------------------------------------------------------
(* createResponse: the status and what follows from it. *)

\* Faulty variant: a PUT gets no status.
StatusWithoutPut(r, right) ==
  CASE location.redirect               -> 301
    [] r.method \notin location.methods -> 405
    [] ~right                          -> 404
    [] r.body > location.maxBody       -> 413
    [] r.wrong                         -> 400
    [] r.method \in {"GET", "HEAD", "DELETE"} -> 200
    [] r.method = "POST"               -> 201
    [] OTHER                           -> 0

\* The else-ifs, in the order of the code; `right' is isRightPath # -1.
Status(r, right) ==
  IF location.redirect THEN 301
  ELSE IF r.method \notin location.methods THEN 405
  ELSE IF ~right THEN 404
  ELSE IF r.body > location.maxBody THEN 413
  ELSE IF r.wrong THEN 400
  ELSE IF r.method \notin Saving THEN 200
  ELSE 201

\* Faulty variant: the body of every POST and PUT is saved.
EffectOfMethod(r, status) ==
  IF r.method \in Saving THEN "count" ELSE IF r.method = "DELETE" THEN "delete" ELSE "answer"

\* savePostBody if the status is 201, and handleDelete if the method is DELETE.
Effect(r, status) ==
  IF status = 201 THEN "count" ELSE IF r.method = "DELETE" THEN "delete" ELSE "answer"

Decide(t, right) ==
  /\ code' = [code EXCEPT ![t] = Status(req[t], right)]
  /\ pc' = [pc EXCEPT ![t] = Effect(req[t], Status(req[t], right))]

-----------------------------------------------------------------------------
(* checkPathForLocation *)

Exists(n) == n \in DOMAIN files \/ (n = Dir /\ location.exists)

\* setContentType: the file that the path names, if it knows the extension.
RequestedFile(r) == IF r.name \in Known THEN r.name ELSE None

\* Faulty variant: a file that is missing is right for a DELETE too.
OpenTargetForDelete(t) ==
  /\ pc[t] = "open"
  /\ LET r == req[t] IN
     \/ /\ ~Exists(r.name) /\ r.method \notin Saving
        /\ Decide(t, r.method = "DELETE")
     \/ /\ r.method \in Saving /\ RequestedFile(r) = None
        /\ Decide(t, TRUE)
     \/ /\ Exists(r.name) \/ r.method \in Saving
        /\ r.method \in Saving => RequestedFile(r) # None
        /\ pc' = [pc EXCEPT ![t] = "read"]
        /\ UNCHANGED code
  /\ UNCHANGED <<location, files, req, target, served, changed>>

\* open(): missing files are an error except for uploads, and an upload under a
\* name without a known extension is right whatever is there.
OpenTarget(t) ==
  /\ pc[t] = "open"
  /\ LET r == req[t] IN
     \/ /\ ~Exists(r.name) /\ r.method \notin Saving
        /\ Decide(t, FALSE)
     \/ /\ r.method \in Saving /\ RequestedFile(r) = None
        /\ Decide(t, TRUE)
     \/ /\ Exists(r.name) \/ r.method \in Saving
        /\ r.method \in Saving => RequestedFile(r) # None
        /\ pc' = [pc EXCEPT ![t] = "read"]
        /\ UNCHANGED code
  /\ UNCHANGED <<location, files, req, target, served, changed>>

\* readContent returns nothing for a directory, for a file that is missing or empty.
ReadTarget(t) ==
  /\ pc[t] = "read"
  /\ IF (req[t].name \in DOMAIN files /\ files[req[t].name] # Empty) \/ location.autoindex
     THEN Decide(t, TRUE)
     ELSE pc' = [pc EXCEPT ![t] = "index"] /\ UNCHANGED code
  /\ UNCHANGED <<location, files, req, target, served, changed>>

\* The index file is looked for under the route with the index's name appended,
\* which is a file only when the route is the directory.  What is found by its extension,
\* or not, is right in any case.
ReadIndex(t) ==
  /\ pc[t] = "index"
  /\ Decide(t, \/ location.index = Dotted
               \/ req[t].name = Dir /\ location.index \in DOMAIN files
               \/ req[t].method = "PUT")
  /\ UNCHANGED <<location, files, req, target, served, changed>>

-----------------------------------------------------------------------------
(* savePostBody *)

\* The name of a file without one: a number, as the directory's entries, "." and ".."
\* among them, are counted; but none at all for the route "./".
Unnamed == IF location.top THEN None ELSE Number(Cardinality(DOMAIN files) + 1)

\* Faulty variant: the route has not been given its slash.
TargetChopped(r) ==
  IF r.part # None THEN r.part
  ELSE IF r.name = Dir THEN Unnamed
  ELSE Chop(r.name)

\* The name of the file: that of the part; else _requestedFile without its last
\* character, which is the slash of the route, or part of a known name.
Target(r) ==
  IF r.part # None THEN r.part
  ELSE IF r.name = Dir THEN Unnamed
  ELSE IF RequestedFile(r) # None THEN Chop(r.name) ELSE r.name

\* opendir() and readdir(); nothing is saved if the directory is not there.
CountFiles(t) ==
  /\ pc[t] = "count" /\ Cardinality(DOMAIN files) <= MaxFiles
  /\ IF location.exists
     THEN /\ pc' = [pc EXCEPT ![t] = "create"]
          /\ target' = [target EXCEPT ![t] = Target(req[t])]
     ELSE pc' = [pc EXCEPT ![t] = "answer"] /\ UNCHANGED target
  /\ UNCHANGED <<location, files, req, code, served, changed>>

\* The ofstream is opened, which empties the file if it was there.
Opened(t) ==
  /\ target[t] # None
  /\ files' = [n \in DOMAIN files \cup {target[t]} |-> IF n = target[t] THEN Empty ELSE files[n]]
  /\ changed' = [changed EXCEPT ![t] = TRUE]
  /\ UNCHANGED target

\* It is not, for no name or because the system refuses (there is a directory of that
\* name, or none that the name is in, or no descriptor is left); the code does not look.
NotOpened(t) ==
  /\ target' = [target EXCEPT ![t] = None]
  /\ UNCHANGED <<files, changed>>

CreateFile(t) ==
  /\ pc[t] = "create"
  /\ Opened(t) \/ NotOpened(t)
  /\ pc' = [pc EXCEPT ![t] = "write"]
  /\ UNCHANGED <<location, req, code, served>>

\* A body written from the start of a file over what another thread wrote there.
Over(old, new) == IF old > new \/ old = Mixed THEN Mixed ELSE new

\* The body is written, unless the file was not opened or has been removed since.
WriteFile(t) ==
  /\ pc[t] = "write"
  /\ files' = IF target[t] = None THEN files
              ELSE [files EXCEPT ![target[t]] = Over(@, req[t].body)]
  /\ pc' = [pc EXCEPT ![t] = "answer"]
  /\ UNCHANGED <<location, req, code, target, served, changed>>

-----------------------------------------------------------------------------
(* handleDelete, and the end *)

\* stat() and remove(); a thread that has the file open writes to no name then.
DeleteFile(t) ==
  /\ pc[t] = "delete"
  /\ LET n == req[t].name IN
     /\ files' = Restrict(files, DOMAIN files \ {n})
     /\ changed' = [changed EXCEPT ![t] = n \in DOMAIN files]
     /\ target' = [u \in Threads |-> IF pc[u] = "write" /\ target[u] = n THEN None ELSE target[u]]
  /\ pc' = [pc EXCEPT ![t] = "answer"]
  /\ UNCHANGED <<location, req, code, served>>

Answer(t) ==
  /\ pc[t] = "answer"
  /\ pc' = [pc EXCEPT ![t] = "idle"]
  /\ UNCHANGED <<location, files, req, code, target, served, changed>>

Next == \E t \in Threads :
          \/ Begin(t) \/ OpenTarget(t) \/ ReadTarget(t) \/ ReadIndex(t) \/ CountFiles(t)
          \/ CreateFile(t) \/ WriteFile(t) \/ DeleteFile(t) \/ Answer(t)

Spec == Init /\ [][Next]_vars
-----------------------------------------------------------------------------
(* Properties *)

Codes == {200, 201, 301, 400, 404, 405, 413}

TypeOK ==
  /\ location \in Locations
  /\ DOMAIN files \subseteq Names
  /\ \A n \in DOMAIN files : files[n] \in Nat \cup {Mixed}
  /\ pc \in [Threads -> {"idle", "open", "read", "index", "count", "create", "write",
                         "delete", "answer"}]
  /\ \A t \in Threads : /\ req[t] \in Request
                        /\ code[t] \in IF pc[t] \in {"open", "read", "index"} THEN {0}
                                       ELSE IF pc[t] = "idle" THEN Codes \cup {0} ELSE Codes
  /\ target \in [Threads -> Names \cup {None}]
  /\ served \in [Threads -> Nat]
  /\ changed \in [Threads -> BOOLEAN]

\* The names in a request, and the one that a known name is short of its last letter.
Named(r) == {r.name, r.part} \cup {Chop(n) : n \in Known \cap {r.name}}
Numbered == {Number(k) : k \in 1..MaxFiles + 1}
Kept(n)  == n \in DOMAIN files' /\ files'[n] = files[n]

\* A file that is not called like a number is emptied, removed or replaced only for a
\* request that names it, except that one for a name with a known extension may also
\* change the file whose name is one letter shorter.
NamedFilesKept ==
  [][\A n \in DOMAIN files \ Numbered :
       Kept(n) \/ \E t \in Threads : pc[t] # "idle" /\ n \in Named(req[t])]_vars

\* The names that only the client of thread t uses.
Own(t) == {n \in Names \ Numbered :
             \A u \in Threads \ {t} : \A r \in Requests[u] : n \notin Named(r)}

\* The name under which an upload asks for its body to be kept.
Goal(r) == IF r.part = None THEN r.name ELSE r.part

\* When 201 Created goes out for a name that no other client uses, the file of that
\* name holds the body, whatever the other threads have created, deleted and counted
\* meanwhile: provided that a file could be opened, and except for a name with a known
\* extension, which loses a letter.
CreatedIsStored ==
  \A t \in Threads :
    /\ pc[t] = "answer" /\ code[t] = 201 /\ target[t] # None
    /\ Goal(req[t]) \in Own(t) \ Known
    => Goal(req[t]) \in DOMAIN files /\ files[Goal(req[t])] = req[t].body

\* The names of Own(t) under which nothing is ever saved by way of a name that has one
\* letter and a known extension more.
Mine == [t \in Threads |->
           {n \in Own(t) \ Known : \A r \in Requests[t] : r.name \in Known => Chop(r.name) # n}]

\* What a request of thread t is about, as far as names of its own go.
Meaning(t, r) ==
  IF r.method \in Saving
  THEN IF Goal(r) \in Mine[t] THEN [op |-> "save", name |-> Goal(r), body |-> r.body]
       ELSE [op |-> "elsewhere"]
  ELSE IF r.name \notin Mine[t] THEN [op |-> "elsewhere"]
  ELSE [op |-> IF r.method = "DELETE" THEN "remove" ELSE "look", name |-> r.name]

\* An upload counts when its file is opened: until it is written the file is taken to
\* hold the body.
Held(t) == [n \in Mine[t] \cap DOMAIN files |->
              IF pc[t] = "write" /\ target[t] = n THEN req[t].body ELSE files[n]]

\* A 201 for a name of the client's own, whose file has not been opened.
Lost(t) == code[t] = 201 /\ target[t] = None /\ Goal(req[t]) \in Mine[t]
Unsaved == -201

HeldNow   == [t \in Threads |-> Held(t)]
AskedNow  == [t \in Threads |-> IF pc[t] = "idle" THEN [op |-> "none"] ELSE Meaning(t, req[t])]
AnswerNow == [t \in Threads |-> IF pc[t] \notin {"write", "answer"} THEN 0
                                ELSE IF Lost(t) THEN Unsaved ELSE code[t]]

Private == INSTANCE PrivateFiles WITH
  Clients <- Threads,
  Calls   <- [t \in Threads |-> {Meaning(t, r) : r \in Requests[t]}],
  First   <- [t \in Threads |-> Restrict(FirstFiles, Mine[t] \cap DOMAIN FirstFiles)],
  held <- HeldNow, asked <- AskedNow, answer <- AnswerNow

\* However the threads interleave, and although saving, reading and removing take several
\* system calls each: for the names that it alone uses, a client sees its requests take
\* effect one after the other.  What 201 was sent for is what a later GET or DELETE finds,
\* if a file could be opened for it, and else nothing has changed; 404 means that nothing
\* was there, or nothing in it, and no error saves anything.
ImplementsPrivateFiles == Private!Spec

\* A request that is answered with an error or a redirection has changed no file.
RefusedChangesNothing ==
  \A t \in Threads : pc[t] = "answer" /\ code[t] > 300 => ~changed[t]

\* The same of uploads.
RefusedUploadChangesNothing ==
  \A t \in Threads :
    pc[t] = "answer" /\ code[t] > 300 /\ req[t].method \in Saving => ~changed[t]
=============================================================================
