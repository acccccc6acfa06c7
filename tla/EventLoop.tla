------------------------------ MODULE EventLoop ------------------------------
(***************************************************************************)
(* One server thread: Server::runServer and the handlers it dispatches to  *)
(* (src/src/server/Server.cpp), together with the sockets and the clients  *)
(* behind them.                                                            *)
(*                                                                         *)
(* The thread takes one step at a time: a call of poll(), the visit of one *)
(* entry of _fds (with the whole handler it runs), the visit of one entry  *)
(* by clearConnections.  Clients act between any two of these steps, so    *)
(* the revents that a handler acts on may be out of date.                  *)
(***************************************************************************)
EXTENDS Integers, FiniteSets, Framing

CONSTANTS
  Fds,          \* descriptors accept() can return to this thread
  Listener,     \* _listenSocket
  NULL,         \* the null Response pointer
  Kinds,        \* what the clients may ask
  Shapes,       \* the forms a built response may take
  BufferUnits,  \* BUFFER_SIZE: units that one recv() can return
  MaxConns,     \* how many connections the clients open in all
  Pipelining,   \* clients may send a request before the previous answer
  PartialSends, \* send() may accept only a part of the bytes
  SlowReaders,  \* a send() may fill the socket's buffer
  Hangups,      \* clients may close or reset their connections
  HangupIsReadable, \* poll() reports POLLIN on a reset socket (Linux does)
  FatalBuilds   \* building a Response may end the process

(***************************************************************************)
(* A Response holds either one string or (getChunked()) a sequence of      *)
(* chunks; `ends' are the byte offsets at which its pieces end.  `base'    *)
(* numbers its first byte in the stream of all the bytes that this         *)
(* connection owes its client.                                             *)
(***************************************************************************)
Shape    == [chunked: BOOLEAN, ends: Seq(Nat)]
Response == [base: Nat, chunked: BOOLEAN, ends: Seq(Nat)]

ASSUME FdsAssumption      == Listener \notin Fds
ASSUME NullAssumption     == NULL \notin Response
ASSUME KindsAssumption    == Kinds \subseteq Kind
ASSUME BufferAssumption   == BufferUnits \in Nat \ {0}
ASSUME MaxConnsAssumption == MaxConns \in Nat
ASSUME ShapesAssumption   ==
  /\ Shapes \subseteq Shape
  /\ \A s \in Shapes : /\ s.ends # <<>> /\ s.ends[1] > 0
                       /\ ~s.chunked => Len(s.ends) = 1
                       /\ \A i, j \in 1..Len(s.ends) : i < j => s.ends[i] < s.ends[j]
ASSUME FlagsAssumption    ==
  {Pipelining, PartialSends, SlowReaders, Hangups, HangupIsReadable, FatalBuilds} \subseteq BOOLEAN

VARIABLES
  pc,       \* where runServer is: in poll(), in the scan, in clearConnections,
            \* returned ("stopped"), or killed with the whole process ("dead")
  idx,      \* the loop index i of the scan or of clearConnections, from 1
  fds,      \* _fds: a sequence of pollfd
  clients,  \* _clients: from the open descriptors to their t_reqData
  fdToDel,  \* _fdToDel
  heap,     \* descriptors for which a Response is allocated and not yet deleted
  backlog,  \* connections established and not yet accepted
  conns,    \* connections made so far
  link,     \* the socket of each open descriptor and the client behind it
  stream    \* what each open connection was owed and was sent (history)

server == <<pc, idx, fds, clients, fdToDel, heap>>
vars   == <<server, backlog, conns, link, stream>>

(***************************************************************************)
(* The socket: `inbox' holds what has arrived, `todo' what the client will *)
(* still send of its latest request, `asked' counts its requests.          *)
(***************************************************************************)
Link    == [inbox: Seq(Unit), todo: Seq(Unit), asked: 0..MaxReqs,
            peer: {"up", "fin", "rst"}, full: BOOLEAN]
NewLink == [inbox |-> <<>>, todo |-> <<>>, asked |-> 0, peer |-> "up", full |-> FALSE]

\* Responses built, the first byte of the latest, bytes owed, bytes sent, whether a
\* send() has been cut short, and whether the bytes sent are the bytes owed, in
\* order and read from a live Response.
Stream    == [built: Nat, base: Nat, due: Nat, sent: Nat, cut: BOOLEAN, intact: BOOLEAN]
NewStream == [built |-> 0, base |-> 0, due |-> 0, sent |-> 0, cut |-> FALSE, intact |-> TRUE]

ReqData == [reqString: Seq(Unit), foundHeaders: BOOLEAN, isTransfer: BOOLEAN,
            isMultipart: BOOLEAN, method: Methods, finalBound: 0..MaxReqs,
            response: Response \cup {NULL}, responseStr: Int, responseSize: Nat,
            chunkInd: Nat]

\* Faulty variant: responseSize is left unset.
InitReqDataStructUnset ==
  [reqString |-> <<>>, foundHeaders |-> FALSE, isTransfer |-> FALSE,
   isMultipart |-> FALSE, method |-> "OTHER", finalBound |-> 0,
   response |-> NULL, responseStr |-> 0, responseSize |-> -1, chunkInd |-> 0]

\* initReqDataStruct
InitReqDataStruct ==
  [reqString |-> <<>>, foundHeaders |-> FALSE, isTransfer |-> FALSE,
   isMultipart |-> FALSE, method |-> "OTHER", finalBound |-> 0,
   response |-> NULL, responseStr |-> 0, responseSize |-> 0, chunkInd |-> 0]

PollFd    == [fd: Fds \cup {Listener}, events: SUBSET {"IN", "OUT"},
              revents: SUBSET {"IN", "OUT", "ERR"}]
NewPollFd(fd) == [fd |-> fd, events |-> {"IN"}, revents |-> {}]

Open == DOMAIN clients

\* The function f with key k added or replaced, and without key k.
With(f, k, v)  == [x \in DOMAIN f \cup {k} |-> IF x = k THEN v ELSE f[x]]
Without(f, k)  == [x \in DOMAIN f \ {k} |-> f[x]]
Erase(s, i)    == SubSeq(s, 1, i - 1) \o SubSeq(s, i + 1, Len(s))
Minimum(a, b)  == IF a < b THEN a ELSE b

Init ==
  /\ pc = "poll" /\ idx = 1
  /\ fds = <<NewPollFd(Listener)>>
  /\ clients = [f \in {} |-> InitReqDataStruct]
  /\ fdToDel = {} /\ heap = {}
  /\ backlog = 0 /\ conns = 0
  /\ link = [f \in {} |-> NewLink]
  /\ stream = [f \in {} |-> NewStream]

-----------------------------------------------------------------------------
(* poll() *)

\* What poll() reports for an entry.  A reset socket reports POLLERR/POLLHUP,
\* together with POLLIN and POLLOUT on some systems and alone on others.
Revents(e) ==
  IF e.fd = Listener THEN (IF backlog > 0 THEN {"IN"} ELSE {})
  ELSE LET l == link[e.fd]
           reset == l.peer = "rst"
       IN  IF reset /\ ~HangupIsReadable THEN {"ERR"}
           ELSE (IF l.inbox # <<>> \/ l.peer # "up" THEN {"IN"} ELSE {})
                \cup (IF "OUT" \in e.events /\ (reset \/ ~l.full) THEN {"OUT"} ELSE {})
                \cup (IF reset THEN {"ERR"} ELSE {})

\* The timeout is -1: poll() returns when some descriptor has something to report.
Poll ==
  /\ pc = "poll"
  /\ \E i \in 1..Len(fds) : Revents(fds[i]) # {}
  /\ fds' = [i \in 1..Len(fds) |-> [fds[i] EXCEPT !.revents = Revents(fds[i])]]
  /\ pc' = "scan" /\ idx' = 1
  /\ UNCHANGED <<clients, fdToDel, heap, backlog, conns, link, stream>>

\* poll() < 0, on a signal: the loop breaks and runServer returns.
PollFails ==
  /\ pc = "poll"
  /\ pc' = "stopped"
  /\ UNCHANGED <<idx, fds, clients, fdToDel, heap, backlog, conns, link, stream>>

-----------------------------------------------------------------------------
(* The scan: for (i = 0; i < _fds.size(); i++) *)

Scanning == pc = "scan" /\ idx <= Len(fds)
Here     == fds[idx]

\* What the visit of the entry at idx is about, in the order of the else-ifs.
VisitsListener == Scanning /\ Here.fd = Listener /\ "IN" \in Here.revents
VisitsReadable == Scanning /\ Here.fd # Listener /\ "IN" \in Here.revents
VisitsWritable == Scanning /\ Here.fd # Listener /\ "IN" \notin Here.revents
                           /\ "OUT" \in Here.revents

NextEntry == pc' = pc /\ idx' = idx + 1

Skip ==
  /\ Scanning
  /\ Here.revents = {}
  /\ NextEntry
  /\ UNCHANGED <<fds, clients, fdToDel, heap, backlog, conns, link, stream>>

\* acceptConnection: the new descriptor is any that the process has free.
AcceptConnection ==
  /\ VisitsListener
  /\ backlog > 0
  /\ \E f \in Fds \ Open :
       /\ fds' = Append(fds, NewPollFd(f))
       /\ clients' = With(clients, f, InitReqDataStruct)
       /\ link' = With(link, f, NewLink)
       /\ stream' = With(stream, f, NewStream)
  /\ backlog' = backlog - 1
  /\ NextEntry
  /\ UNCHANGED <<fdToDel, heap, conns>>

\* accept() < 0 when no descriptor is free: the connection stays in the backlog.
AcceptFails ==
  /\ VisitsListener
  /\ backlog = 0 \/ Fds \subseteq Open
  /\ NextEntry
  /\ UNCHANGED <<fds, clients, fdToDel, heap, backlog, conns, link, stream>>

\* What receiveRequest makes of the units in `tail': append, then findReqEnd.
Received(req, tail) == Scanned([req EXCEPT !.reqString = @ \o tail])

\* receiveRequest, recv() > 0.
ReceiveRequest ==
  /\ VisitsReadable
  /\ LET f    == Here.fd
         l    == link[f]
         size == Minimum(Len(l.inbox), BufferUnits)
         req  == Received(clients[f], SubSeq(l.inbox, 1, size))
     IN  /\ l.inbox # <<>> /\ l.peer # "rst"
         /\ clients' = [clients EXCEPT ![f] = req]
         /\ fds' = IF ReqEnd(req) THEN [fds EXCEPT ![idx].events = @ \cup {"OUT"}] ELSE fds
         /\ link' = [link EXCEPT ![f].inbox = SubSeq(@, size + 1, Len(@))]
  /\ NextEntry
  /\ UNCHANGED <<fdToDel, heap, backlog, conns, stream>>

\* receiveRequest, recv() = 0 (the client closed) or -1 (it reset, or nothing is there).
ReceiveFails ==
  /\ VisitsReadable
  /\ link[Here.fd].peer = "rst" \/ link[Here.fd].inbox = <<>>
  /\ fdToDel' = fdToDel \cup {Here.fd}
  /\ NextEntry
  /\ UNCHANGED <<fds, clients, heap, backlog, conns, link, stream>>

\* pollError: neither readable nor writable; or anything but POLLIN on the listener.
PollError ==
  /\ Scanning
  /\ Here.revents # {} /\ Here.revents \cap {"IN", "OUT"} = {}
  /\ fdToDel' = fdToDel \cup {Here.fd}
  /\ NextEntry
  /\ UNCHANGED <<fds, clients, heap, backlog, conns, link, stream>>

-----------------------------------------------------------------------------
(* sendResponse *)

\* Faulty variant: the Response is not deleted.
DeleteForgotten(f) == heap

\* `delete response': the descriptor no longer holds one.
Delete(f) == heap \ {f}

\* Faulty variant: foundHeaders is not reset.
ParsedKeepingHeaders(req) == [req EXCEPT !.reqString = <<>>, !.chunkInd = 0]

\* What remains of the request's record once it has been parsed.
Parsed(req) == [req EXCEPT !.reqString = <<>>, !.foundHeaders = FALSE, !.chunkInd = 0]

\* The records sendResponse may go on with: the client's own while its Response
\* is there, else one with a new Response, whose form the request does not fix.
Prepared(f) ==
  IF clients[f].response # NULL THEN {clients[f]}
  ELSE {[Parsed(clients[f]) EXCEPT !.response =
           [base |-> stream[f].due, chunked |-> s.chunked, ends |-> s.ends]] : s \in Shapes}

\* Offset at which the piece after the first i pieces begins.
PieceStart(r, i) == IF i = 0 THEN 0 ELSE r.ends[i]

\* A send() of an earlier call took only a part: its rest goes first, whatever
\* Response there is now.  Otherwise chunkInd may lie past the last chunk.
Leftover(req) == req.responseSize # 0
PastEnd(req)  == ~Leftover(req) /\ req.response.chunked
                                /\ req.chunkInd >= Len(req.response.ends)

\* What this call hands to send(), and the chunkInd it stores.
Piece(req) ==
  LET r == req.response
      i == IF r.chunked THEN req.chunkInd ELSE 0
  IN  IF Leftover(req)
      THEN [from |-> req.responseStr, size |-> req.responseSize, chunkInd |-> req.chunkInd]
      ELSE [from |-> r.base + PieceStart(r, i), size |-> r.ends[i + 1] - PieceStart(r, i),
            chunkInd |-> IF r.chunked THEN i + 1 ELSE req.chunkInd]

\* Faulty variants: chunkInd is compared before it is advanced; the chunk that
\* ends the coding is left out.
FinishedOffByOne(req) ==
  IF ~req.response.chunked THEN {TRUE}
  ELSE IF Leftover(req) THEN BOOLEAN
  ELSE {req.chunkInd = Len(req.response.ends)}
FinishedEarly(req) ==
  IF ~req.response.chunked THEN {TRUE}
  ELSE IF Leftover(req) THEN BOOLEAN
  ELSE {req.chunkInd + 2 = Len(req.response.ends)}

\* What the test after send() may find: the end of a response that is not
\* chunked, always; the last chunk; after a leftover, a local that was never
\* assigned is compared with the number of chunks.
Finished(req) ==
  IF ~req.response.chunked THEN {TRUE}
  ELSE IF Leftover(req) THEN BOOLEAN
  ELSE {req.chunkInd + 1 = Len(req.response.ends)}

\* Faulty variants: POLLOUT is never taken back; it is taken back after each piece.
EventsAfterKept(finished)   == Here.events
EventsAfterAlways(finished) == {"IN"}

\* The events the entry is left with: `pfd.events = POLLIN' at the end.
EventsAfter(finished) == IF finished THEN {"IN"} ELSE Here.events

\* How many of the bytes send() may accept.
Accepted(size) == IF PartialSends THEN 1..size ELSE {size}

\* The history: a new response is owed as a whole; n bytes of p are sent.
Owed(st, isNew, r) ==
  IF isNew THEN [st EXCEPT !.built = @ + 1, !.base = st.due, !.due = @ + r.ends[Len(r.ends)]]
  ELSE st
Sent(st, r, p, n) ==
  [st EXCEPT !.sent = @ + n, !.cut = @ \/ n < p.size,
             !.intact = @ /\ p.from = st.sent /\ p.from >= r.base]

\* Faulty variant: POST is missing among the supported methods.
ServableNoPost(f) ==
  clients[f].response # NULL \/ MethodOf(clients[f].reqString) \in Supported \ {"POST"}

\* sendResponse has, or can build, a Response to send from.
Servable(f) == clients[f].response # NULL \/ MethodOf(clients[f].reqString) \in Supported

\* sendResponse, send() >= 0.  The Response is deleted when the last test finds
\* its end, however much of it send() has accepted.
SendResponse ==
  /\ VisitsWritable
  /\ LET f == Here.fd IN
     /\ Servable(f) /\ link[f].peer # "rst"
     /\ \E req \in Prepared(f) :
          LET p == Piece(req) IN
          /\ ~PastEnd(req)
          /\ \E n \in Accepted(p.size), finished \in Finished(req) :
               /\ clients' = [clients EXCEPT ![f] =
                    [req EXCEPT !.responseStr = p.from + n, !.responseSize = p.size - n,
                                !.chunkInd = p.chunkInd,
                                !.response = IF finished THEN NULL ELSE @]]
               /\ fds' = [fds EXCEPT ![idx].events = EventsAfter(finished)]
               /\ heap' = IF finished THEN Delete(f) ELSE heap \cup {f}
               /\ stream' = [stream EXCEPT ![f] =
                    Sent(Owed(@, clients[f].response = NULL, req.response), req.response, p, n)]
     /\ \E full \in {FALSE, SlowReaders} : link' = [link EXCEPT ![f].full = full]
  /\ NextEntry
  /\ UNCHANGED <<fdToDel, backlog, conns>>

\* sendResponse, send() < 0: the client has reset the connection since poll().
SendFails ==
  /\ VisitsWritable
  /\ LET f == Here.fd IN
     /\ Servable(f) /\ link[f].peer = "rst"
     /\ \E req \in Prepared(f) :
          LET p == Piece(req) IN
          /\ ~PastEnd(req)
          /\ clients' = [clients EXCEPT ![f] =
               [req EXCEPT !.responseStr = p.from - 1, !.responseSize = p.size + 1,
                           !.chunkInd = p.chunkInd]]
          /\ stream' = [stream EXCEPT ![f] =
               Owed(@, clients[f].response = NULL, req.response)]
     /\ heap' = heap \cup {f}
     /\ fdToDel' = fdToDel \cup {f}
  /\ NextEntry
  /\ UNCHANGED <<fds, backlog, conns, link>>

\* sendResponse, UnsupportedMethodException: a 400 goes out and the connection
\* is to be closed; what send() returns is not looked at.
RefuseRequest ==
  /\ VisitsWritable
  /\ ~Servable(Here.fd)
  /\ fdToDel' = fdToDel \cup {Here.fd}
  /\ NextEntry
  /\ UNCHANGED <<fds, clients, heap, backlog, conns, link, stream>>

\* send() without MSG_NOSIGNAL to a client that is gone raises SIGPIPE, and
\* getChunks()[chunkInd] past the last chunk is undefined: the process dies.
SendKills ==
  /\ VisitsWritable
  /\ \/ link[Here.fd].peer = "rst"
     \/ clients[Here.fd].response # NULL /\ PastEnd(clients[Here.fd])
  /\ pc' = "dead"
  /\ UNCHANGED <<idx, fds, clients, fdToDel, heap, backlog, conns, link, stream>>

\* `new Response(...)' lets every exception but UnsupportedMethodException escape
\* (out_of_range for a script without a Status line), and may end the process by
\* itself (fileno() of a failed tmpfile()): CgiRun tells when.
BuildKills ==
  /\ VisitsWritable /\ FatalBuilds
  /\ clients[Here.fd].response = NULL /\ Servable(Here.fd)
  /\ pc' = "dead"
  /\ UNCHANGED <<idx, fds, clients, fdToDel, heap, backlog, conns, link, stream>>

\* Faulty variant: clearConnections is not called.
EndScanUncleared ==
  /\ pc = "scan" /\ idx > Len(fds)
  /\ pc' = "poll" /\ idx' = 1
  /\ UNCHANGED <<fds, clients, fdToDel, heap, backlog, conns, link, stream>>

EndScan ==
  /\ pc = "scan" /\ idx > Len(fds)
  /\ pc' = "clear" /\ idx' = 1
  /\ UNCHANGED <<fds, clients, fdToDel, heap, backlog, conns, link, stream>>

-----------------------------------------------------------------------------
(* clearConnections *)

\* Faulty variant: no `--i' after the erase.
AfterEraseSkipping == idx + 1

\* Where the loop goes on after _fds.erase: `--i', then `i++'.
AfterErase == idx

\* One entry to close: close, delete, erase from the three containers; `--i'.
CloseConnection ==
  /\ pc = "clear" /\ idx <= Len(fds)
  /\ Here.fd \in fdToDel
  /\ heap' = IF clients[Here.fd].response # NULL THEN Delete(Here.fd) ELSE heap
  /\ fdToDel' = fdToDel \ {Here.fd}
  /\ clients' = Without(clients, Here.fd)
  /\ link' = Without(link, Here.fd)
  /\ stream' = Without(stream, Here.fd)
  /\ fds' = Erase(fds, idx)
  /\ idx' = AfterErase
  /\ UNCHANGED <<pc, backlog, conns>>

KeepConnection ==
  /\ pc = "clear" /\ idx <= Len(fds)
  /\ Here.fd \notin fdToDel
  /\ NextEntry
  /\ UNCHANGED <<fds, clients, fdToDel, heap, backlog, conns, link, stream>>

EndClear ==
  /\ pc = "clear" /\ idx > Len(fds)
  /\ pc' = "poll" /\ idx' = 1
  /\ UNCHANGED <<fds, clients, fdToDel, heap, backlog, conns, link, stream>>

Scan == \/ Skip \/ AcceptConnection \/ AcceptFails \/ ReceiveRequest \/ ReceiveFails
        \/ SendResponse \/ SendFails \/ RefuseRequest \/ SendKills \/ BuildKills
        \/ PollError \/ EndScan
Clear == CloseConnection \/ KeepConnection \/ EndClear

-----------------------------------------------------------------------------
(* The clients.  They act while the server runs, on accepted connections. *)

Running == pc \notin {"stopped", "dead"}

Connect ==
  /\ Running /\ conns < MaxConns
  /\ conns' = conns + 1 /\ backlog' = backlog + 1
  /\ UNCHANGED <<server, link, stream>>

\* The client has the whole answer to everything it asked.
Answered(f) == stream[f].built = link[f].asked /\ stream[f].sent = stream[f].due

StartRequest(f) ==
  /\ Running
  /\ link[f].peer = "up" /\ link[f].todo = <<>> /\ link[f].asked < MaxReqs
  /\ Pipelining \/ Answered(f)
  /\ \E k \in Kinds :
       link' = [link EXCEPT ![f].asked = @ + 1, ![f].todo = Wire(k, link[f].asked + 1)]
  /\ UNCHANGED <<server, backlog, conns, stream>>

\* The next unit of the request arrives at the server's socket.
ClientSend(f) ==
  /\ Running
  /\ link[f].peer = "up" /\ link[f].todo # <<>>
  /\ link' = [link EXCEPT ![f].inbox = Append(@, Head(link[f].todo)), ![f].todo = Tail(@)]
  /\ UNCHANGED <<server, backlog, conns, stream>>

ClientRead(f) ==
  /\ Running
  /\ link[f].full /\ link[f].peer # "rst"
  /\ link' = [link EXCEPT ![f].full = FALSE]
  /\ UNCHANGED <<server, backlog, conns, stream>>

ClientClose(f) ==
  /\ Running /\ Hangups
  /\ \/ link[f].peer = "up" /\ link' = [link EXCEPT ![f].peer = "fin"]
     \/ link[f].peer # "rst" /\ link' = [link EXCEPT ![f].peer = "rst"]
  /\ UNCHANGED <<server, backlog, conns, stream>>

ServerStep == Poll \/ Scan \/ Clear
ClientStep == \/ Connect
              \/ \E f \in Open : \/ StartRequest(f) \/ ClientSend(f)
                                 \/ ClientRead(f)   \/ ClientClose(f)

Next == ServerStep \/ PollFails \/ ClientStep

Spec == Init /\ [][Next]_vars

\* The thread is scheduled; a client that has begun a request goes on sending
\* it, and one whose socket is full reads in the end.  Nobody has to ask.
Fairness == /\ WF_vars(ServerStep)
            /\ \A f \in Fds : /\ WF_vars(f \in Open /\ ClientSend(f))
                              /\ WF_vars(f \in Open /\ ClientRead(f))
FairSpec == Spec /\ Fairness
-----------------------------------------------------------------------------
(* Properties *)

TypeOK ==
  /\ pc \in {"poll", "scan", "clear", "stopped", "dead"}
  /\ idx \in Nat \ {0}
  /\ fds \in Seq(PollFd)
  /\ Open \subseteq Fds
  /\ clients \in [Open -> ReqData]
  /\ \A f \in Open : LET r == clients[f].response
                   IN  r # NULL => [chunked |-> r.chunked, ends |-> r.ends] \in Shapes
  /\ fdToDel \subseteq Fds
  /\ heap \subseteq Fds
  /\ backlog \in Nat /\ conns \in Nat
  /\ link \in [Open -> Link]
  /\ stream \in [Open -> Stream]

\* The three containers agree: every entry of _fds is the listener or a client
\* with a record, none appears twice, only clients are doomed, and only those the
\* scan has visited; after clearConnections nobody is, although it erases from the
\* vector it runs over.
Books ==
  /\ \A i, j \in 1..Len(fds) : fds[i].fd = fds[j].fd => i = j
  /\ {fds[i].fd : i \in 1..Len(fds)} = {Listener} \cup Open
  /\ fdToDel \subseteq Open
  /\ \A i \in 1..Len(fds) : fds[i].fd = Listener => fds[i].revents \subseteq {"IN"}
  /\ pc = "poll" => fdToDel = {}
  /\ pc = "scan" => \A i \in 1..Len(fds) : i >= idx => fds[i].fd \notin fdToDel
  /\ pc = "clear" => \A i \in 1..Len(fds) : i < idx => fds[i].fd \notin fdToDel

\* No Response is leaked or deleted twice: the allocated ones are those that the
\* record of an open connection points to.
ResponsesOwned == heap = {f \in Open : clients[f].response # NULL}

\* The loop asks poll() for POLLOUT while there is a Response, and otherwise
\* only for a request whose headers are there to be parsed; an entry still to be
\* visited is reported writable only if it asked.
WriteInterest ==
  \A i \in 1..Len(fds) : fds[i].fd # Listener =>
    LET req == clients[fds[i].fd]
    IN  /\ req.response # NULL => "OUT" \in fds[i].events
        /\ "OUT" \in fds[i].events => req.response # NULL \/ req.foundHeaders
        /\ pc = "scan" /\ i >= idx /\ "OUT" \in fds[i].revents => "OUT" \in fds[i].events

\* The bytes a client receives.  None is sent twice and none is invented: what is
\* sent, what a cut send() has left over and what the Response still holds never
\* exceed what is owed, so an answer that is all sent has been deleted; and chunkInd
\* is within the chunks.  As long as no send() to this client has been cut short the
\* bytes are those of its responses, in order, from live memory, and none is missing.
StreamSound ==
  \A f \in Open :
    LET req == clients[f]
        r   == req.response
        st  == stream[f]
    IN  /\ ~st.cut => st.intact
        /\ r = NULL => /\ st.sent + req.responseSize <= st.due
                       /\ ~st.cut => ~Leftover(req) /\ st.sent = st.due
        /\ r # NULL /\ f \notin fdToDel =>
             LET last == r.ends[Len(r.ends)]
                 done == PieceStart(r, req.chunkInd)
             IN  /\ r.chunked /\ req.chunkInd < Len(r.ends)
                 /\ st.sent + req.responseSize + (last - done) <= st.due
                 /\ ~st.cut => ~Leftover(req) /\ st.sent = r.base + done /\ st.due = r.base + last

\* The process dies only of a client that has reset its connection, or in building a
\* Response: never in going on with one, even after sends that were cut short.
GoesOnOnceBuilt ==
  pc = "dead" => \/ link[Here.fd].peer = "rst"
                 \/ FatalBuilds /\ clients[Here.fd].response = NULL

\* A client that does not pipeline is never forgotten: the loop waits to write to it
\* exactly while a response is under way or findReqEnd has seen the end of a request.
NoneForgotten ==
  \A i \in 1..Len(fds) : fds[i].fd \in Open \ fdToDel =>
    LET req == clients[fds[i].fd]
    IN  "OUT" \in fds[i].events <=> req.response # NULL \/ ReqEnd(req)

\* What sendResponse is about to parse is one request, from its first unit to its
\* last, if all requests are Framed: whatever the segments, what the flags of earlier
\* requests were, and blank lines in the data.
ReadyMeansWhole ==
  \A i \in 1..Len(fds) : fds[i].fd # Listener =>
    LET req == clients[fds[i].fd]
    IN  "OUT" \in fds[i].events /\ req.response = NULL => IsWhole(req.reqString)

\* The server closes a connection whose client is still there only after a complete
\* request with a method it does not support (the 400 it has sent), if all requests
\* are Framed; a body that is announced by its length only is refused with what follows.
ClosedWithCause ==
  \A f \in fdToDel :
    link[f].peer = "up" => /\ IsWhole(clients[f].reqString)
                           /\ clients[f].reqString[1].kind.method = "OTHER"

\* A Response whose client has been sent whole pieces only is deleted when its last
\* byte has been sent, or along with its connection; after a send() that was cut short
\* sendResponse may delete one with bytes left (eventloop_shortsend).
DeletedWhenSent ==
  [][\A f \in heap :
        f \notin heap' /\ f \in DOMAIN stream' /\ ~stream'[f].cut => stream'[f].sent = stream'[f].due]_vars

\* Who has sent a complete request gets the complete answer, or is closed.  So it is
\* in eventloop_pair, with one Framed request each and whole sends; not after an upload
\* (eventloop_keepalive), with a boundary that is cut wrong, or when send() takes only
\* a part (eventloop_shortsend).
EveryRequestAnswered ==
  \A f \in Fds :
    (f \in Open /\ link[f].todo = <<>> /\ ~Answered(f))
      ~> (f \notin Open \/ Answered(f) \/ ~Running)

\* A connection once marked for deletion is closed.
DoomedAreClosed == \A f \in Fds : f \in fdToDel ~> f \notin Open \/ ~Running

(***************************************************************************)
(* The session seen from outside.  A connection that is about to be closed *)
(* still counts as what it was.                                            *)
(***************************************************************************)
Session ==
  [f \in Fds |->
     IF f \notin Open \/ ~Running THEN "closed"
     ELSE IF Answered(f) THEN "idle"
     ELSE IF stream[f].built = link[f].asked
             /\ stream[f].sent > stream[f].base
          THEN "answering"
     ELSE IF link[f].todo = <<>> THEN "asked" ELSE "asking"]

Sessions == INSTANCE HttpSession WITH session <- Session

\* Requests and answers alternate, and no answer begins before its request has been
\* sent completely: for clients that wait and Framed requests, cut sends included.
KeepsSessions == Sessions!Safety

\* The Response for f has been deleted with bytes unsent, and a send() was cut short.
Abandoned(f) == /\ f \in Open /\ clients[f].response = NULL
                /\ stream[f].cut /\ stream[f].sent < stream[f].due

\* Such a client is answered in full or disconnected, as the fairness of HttpSession
\* asks, unless its Response is deleted too early after a send() that was cut short.
ServesSessions == \A f \in Fds : Sessions!Served(f) \/ <>[]Abandoned(f)
=============================================================================
