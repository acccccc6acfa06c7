--------------------------- MODULE EventLoopProofs ---------------------------
(***************************************************************************)
(* Proofs about EventLoop, for every set of descriptors, clients, requests *)
(* and responses.                                                          *)
(***************************************************************************)
EXTENDS EventLoop, SequenceTheorems, Orders, TLAPS

-----------------------------------------------------------------------------
(* The operators of Framing and EventLoop. *)

\* The first header block of a string that has one is found.
LEMMA HeadersEndFound ==
  ASSUME NEW s \in Seq(Unit), NEW i \in 1..Len(s), HasEndh(s[i])
  PROVE  HeadersEnd(s) \in 1..Len(s)
<1> DEFINE S == {j \in 1..Len(s) : HasEndh(s[j])}
<1>1. PICK m \in S : \A j \in S : m <= j
  <2>1. S \subseteq Nat /\ S # {}
    OBVIOUS
  <2> HIDE DEF S
  <2> QED BY <2>1, LeastNatural
<1>2. m \in 1..Len(s) /\ HasEndh(s[m]) /\ \A j \in 1..(m - 1) : ~HasEndh(s[j])
  BY <1>1
<1> QED BY <1>2 DEF HeadersEnd

\* The method that findReqEnd reads is one of Methods.
LEMMA MethodOfType ==
  ASSUME NEW s \in Seq(Unit)
  PROVE  MethodOf(s) \in Methods
<1>1. CASE s # <<>> /\ s[1].part = "line"
  <2>1. s[1] \in Unit
    BY <1>1, EmptySeq, ElementOfSeq
  <2> QED BY <1>1, <2>1 DEF MethodOf, Unit, Kind
<1>2. CASE ~(s # <<>> /\ s[1].part = "line")
  BY <1>2 DEF MethodOf, Methods
<1> QED BY <1>1, <1>2

\* isChunked assigns only the three fields of the framing.
LEMMA IsChunkedType ==
  ASSUME NEW u, u.n \in 1..MaxReqs, NEW req \in ReqData
  PROVE  /\ IsChunked(u, req) \in ReqData
         /\ IsChunked(u, req).response = req.response
         /\ IsChunked(u, req).foundHeaders = req.foundHeaders
         /\ IsChunked(u, req).responseSize = req.responseSize
         /\ IsChunked(u, req).chunkInd = req.chunkInd
<1> DEFINE c == AnnouncedBy(u)
           t == IF c \in {"chunked", "identity"} THEN c = "chunked" ELSE req.isTransfer
           m == req.isMultipart \/ c = "multipart"
           b == IF c = "multipart" THEN BoundOf(u) ELSE req.finalBound
<1>1. t \in BOOLEAN
  BY DEF ReqData
<1>2. m \in BOOLEAN
  OBVIOUS
<1>3. b \in 0..MaxReqs
  BY MaxReqsAssumption DEF ReqData, BoundOf
<1>4. IsChunked(u, req) = [req EXCEPT !.isTransfer = t, !.isMultipart = m, !.finalBound = b]
  BY DEF IsChunked
<1> HIDE DEF c, t, m, b
<1> QED BY <1>1, <1>2, <1>3, <1>4 DEF ReqData

\* findReqEnd's first half keeps a record a record, and touches no response.
LEMMA ScannedType ==
  ASSUME NEW req \in ReqData
  PROVE  /\ Scanned(req) \in ReqData
         /\ Scanned(req).response = req.response
         /\ Scanned(req).responseSize = req.responseSize
         /\ Scanned(req).chunkInd = req.chunkInd
         /\ req.foundHeaders => Scanned(req).foundHeaders
<1>1. CASE req.foundHeaders \/ \A i \in 1..Len(req.reqString) : ~HasEndh(req.reqString[i])
  BY <1>1 DEF Scanned
<1>2. CASE ~req.foundHeaders /\ \E i \in 1..Len(req.reqString) : HasEndh(req.reqString[i])
  <2> DEFINE s == req.reqString
             u == s[HeadersEnd(s)]
             r == [req EXCEPT !.foundHeaders = TRUE, !.method = MethodOf(s)]
  <2>1. s \in Seq(Unit)
    BY DEF ReqData
  <2>2. u \in Unit
    BY <1>2, <2>1, HeadersEndFound
  <2>3. MethodOf(s) \in Methods
    BY <2>1, MethodOfType
  <2>4. /\ r \in ReqData /\ r.response = req.response /\ r.foundHeaders
        /\ r.responseSize = req.responseSize /\ r.chunkInd = req.chunkInd
    BY <2>3 DEF ReqData
  <2>5. u.n \in 1..MaxReqs
    BY <2>2 DEF Unit
  <2>6. /\ IsChunked(u, r) \in ReqData
        /\ IsChunked(u, r).response = r.response /\ IsChunked(u, r).foundHeaders
        /\ IsChunked(u, r).responseSize = r.responseSize
        /\ IsChunked(u, r).chunkInd = r.chunkInd
    <3> HIDE DEF u, r
    <3> QED BY <2>4, <2>5, IsChunkedType
  <2>7. Scanned(req) = IsChunked(u, r)
    BY <1>2 DEF Scanned
  <2> HIDE DEF u, r
  <2> QED BY <2>4, <2>6, <2>7
<1> QED BY <1>1, <1>2 DEF ReqData

\* Erasing the i-th entry shifts the later ones down by one.
LEMMA EraseProperties ==
  ASSUME NEW S, NEW s \in Seq(S), NEW i \in 1..Len(s)
  PROVE  /\ Erase(s, i) \in Seq(S)
         /\ Len(Erase(s, i)) = Len(s) - 1
         /\ \A j \in 1..(Len(s) - 1) : Erase(s, i)[j] = IF j < i THEN s[j] ELSE s[j + 1]
<1> DEFINE a == SubSeq(s, 1, i - 1)
           b == SubSeq(s, i + 1, Len(s))
<1>1. \A j \in 1..Len(s) : s[j] \in S
  BY ElementOfSeq
<1>2. /\ a \in Seq(S) /\ Len(a) = i - 1
      /\ \A j \in 1..(i - 1) : a[j] = s[j]
  BY <1>1, SubSeqProperties
<1>3. /\ b \in Seq(S) /\ Len(b) = Len(s) - i
      /\ \A j \in 1..(Len(s) - i) : b[j] = s[i + j]
  BY <1>1, SubSeqProperties
<1> HIDE DEF a, b
<1>4. /\ a \o b \in Seq(S)
      /\ Len(a \o b) = Len(a) + Len(b)
      /\ \A j \in 1..(Len(a) + Len(b)) : (a \o b)[j] = IF j <= Len(a) THEN a[j] ELSE b[j - Len(a)]
  BY <1>2, <1>3, ConcatProperties
<1>5. Erase(s, i) = a \o b
  BY DEF Erase, a, b
<1>6. Len(s) \in Nat /\ i \in 1..Len(s)
  BY LenProperties
<1>7. Len(a \o b) = Len(s) - 1
  BY <1>2, <1>3, <1>4, <1>6
<1>8. ASSUME NEW j \in 1..(Len(s) - 1)
      PROVE  (a \o b)[j] = IF j < i THEN s[j] ELSE s[j + 1]
  <2>1. (a \o b)[j] = IF j <= i - 1 THEN a[j] ELSE b[j - (i - 1)]
    BY <1>2, <1>3, <1>4, <1>6
  <2>2. CASE j < i
    BY <1>2, <1>6, <2>1, <2>2
  <2>3. CASE ~(j < i)
    <3>1. j - (i - 1) \in 1..(Len(s) - i)
      BY <1>6, <2>3
    <3>2. b[j - (i - 1)] = s[i + (j - (i - 1))]
      BY <1>3, <3>1
    <3>3. i + (j - (i - 1)) = j + 1
      BY <1>6
    <3> QED BY <1>6, <2>1, <2>3, <3>2, <3>3
  <2> QED BY <2>2, <2>3
<1> QED BY <1>4, <1>5, <1>7, <1>8

\* A request on the wire is a sequence of units.
LEMMA WireType ==
  ASSUME NEW k \in Kind, NEW n \in 1..MaxReqs
  PROVE  Wire(k, n) \in Seq(Unit)
<1> DEFINE unit(p) == [kind |-> k, n |-> n, part |-> p]
           head == <<unit("line"), unit("endh")>>
           body == [i \in 1..k.body |-> unit("data")]
           last == IF k.coding \in {"chunked", "multipart"} THEN <<unit("last")>> ELSE <<>>
<1>1. \A p \in {"line", "endh", "data", "last"} : unit(p) \in Unit
  BY DEF Unit
<1> HIDE DEF unit
<1>2. head \in Seq(Unit) /\ last \in Seq(Unit)
  BY <1>1
<1>3. body \in Seq(Unit)
  BY <1>1 DEF Kind
<1> HIDE DEF head, body, last
<1>4. head \o body \o last \in Seq(Unit)
  BY <1>2, <1>3, ConcatProperties
<1> QED BY <1>4 DEF Wire, head, body, last, unit

\* Writing the events of one entry of _fds.
LEMMA EventsWritten ==
  ASSUME NEW s \in Seq(PollFd), NEW i \in 1..Len(s), NEW E \in SUBSET {"IN", "OUT"},
         NEW t, t = [s EXCEPT ![i].events = E]
  PROVE  /\ t \in Seq(PollFd)
         /\ Len(t) = Len(s)
         /\ \A j \in 1..Len(s) : /\ t[j].fd = s[j].fd /\ t[j].revents = s[j].revents
                                 /\ t[j].events = IF j = i THEN E ELSE s[j].events
<1> DEFINE e == [s[i] EXCEPT !.events = E]
<1>1. s[i] \in PollFd
  BY ElementOfSeq
<1>2. e \in PollFd /\ e.fd = s[i].fd /\ e.revents = s[i].revents /\ e.events = E
  BY <1>1 DEF PollFd
<1>3. t = [s EXCEPT ![i] = e]
  OBVIOUS
<1> HIDE DEF e
<1> QED BY <1>2, <1>3, ExceptSeq

\* Every Response has bytes, and its chunks are not empty.
LEMMA ShapeFacts ==
  ASSUME NEW r, [chunked |-> r.chunked, ends |-> r.ends] \in Shapes
  PROVE  /\ r.chunked \in BOOLEAN
         /\ r.ends \in Seq(Nat)
         /\ Len(r.ends) \in Nat \ {0}
         /\ \A i \in 1..Len(r.ends) : r.ends[i] \in Nat
         /\ \A i \in 0..(Len(r.ends) - 1) :
               /\ PieceStart(r, i) \in Nat
               /\ PieceStart(r, i) < r.ends[i + 1]
               /\ r.ends[i + 1] <= r.ends[Len(r.ends)]
<1> DEFINE s == [chunked |-> r.chunked, ends |-> r.ends]
<1>1. /\ s \in Shape /\ s.ends # <<>> /\ s.ends[1] > 0
      /\ \A i, j \in 1..Len(s.ends) : i < j => s.ends[i] < s.ends[j]
  BY ShapesAssumption
<1>2. r.ends \in Seq(Nat) /\ r.chunked \in BOOLEAN /\ r.ends # <<>> /\ r.ends[1] > 0
  BY <1>1 DEF Shape
<1>3. \A i, j \in 1..Len(r.ends) : i < j => r.ends[i] < r.ends[j]
  BY <1>1
<1>4. Len(r.ends) \in Nat \ {0}
  BY <1>2, EmptySeq
<1>5. \A i \in 1..Len(r.ends) : r.ends[i] \in Nat
  BY <1>2, ElementOfSeq
<1>6. ASSUME NEW i \in 0..(Len(r.ends) - 1)
      PROVE  PieceStart(r, i) \in Nat /\ PieceStart(r, i) < r.ends[i + 1]
  <2>1. CASE i = 0
    BY <1>2, <1>4, <2>1 DEF PieceStart
  <2>2. CASE i # 0
    <3>1. i \in 1..Len(r.ends) /\ i + 1 \in 1..Len(r.ends) /\ i < i + 1
      BY <1>4, <2>2
    <3>2. r.ends[i] < r.ends[i + 1]
      BY <1>3, <3>1
    <3> QED BY <1>5, <2>2, <3>1, <3>2 DEF PieceStart
  <2> QED BY <2>1, <2>2
<1>7. ASSUME NEW i \in 0..(Len(r.ends) - 1)
      PROVE  r.ends[i + 1] <= r.ends[Len(r.ends)]
  <2>1. i + 1 \in 1..Len(r.ends) /\ Len(r.ends) \in 1..Len(r.ends)
        /\ (i + 1 = Len(r.ends) \/ i + 1 < Len(r.ends))
    BY <1>4
  <2>2. r.ends[i + 1] \in Nat /\ r.ends[Len(r.ends)] \in Nat
    BY <1>5, <2>1
  <2> QED BY <1>3, <2>1, <2>2
<1> QED BY <1>2, <1>4, <1>5, <1>6, <1>7

LEMMA ParsedType ==
  ASSUME NEW req \in ReqData
  PROVE  Parsed(req) \in ReqData
<1>1. <<>> \in Seq(Unit) /\ FALSE \in BOOLEAN /\ 0 \in Nat
  BY EmptySeq
<1> QED BY <1>1 DEF Parsed, ReqData

\* What sendResponse goes on with is a well-formed record with a Response.
LEMMA PreparedType ==
  ASSUME TypeOK, NEW f \in Open, NEW req \in Prepared(f)
  PROVE  /\ req \in ReqData
         /\ req.response # NULL
         /\ req.response \in Response
         /\ [chunked |-> req.response.chunked, ends |-> req.response.ends] \in Shapes
<1>1. clients[f] \in ReqData
  BY DEF TypeOK
<1>2. CASE clients[f].response # NULL
  BY <1>1, <1>2 DEF TypeOK, Prepared, ReqData
<1>3. CASE clients[f].response = NULL
  <2>1. PICK s \in Shapes :
          req = [Parsed(clients[f]) EXCEPT !.response =
                   [base |-> stream[f].due, chunked |-> s.chunked, ends |-> s.ends]]
    BY <1>3 DEF Prepared
  <2> DEFINE r == [base |-> stream[f].due, chunked |-> s.chunked, ends |-> s.ends]
  <2>2. s \in Shape
    BY ShapesAssumption
  <2>3. stream[f].due \in Nat
    BY DEF TypeOK, Stream
  <2>4. r \in Response /\ [chunked |-> r.chunked, ends |-> r.ends] = s
    BY <2>2, <2>3 DEF Response, Shape
  <2>5. r # NULL
    BY <2>4, NullAssumption
  <2>6. Parsed(clients[f]) \in ReqData
    BY <1>1, ParsedType
  <2> HIDE DEF r
  <2>7. req = [Parsed(clients[f]) EXCEPT !.response = r]
    BY <2>1 DEF r
  <2> QED BY <2>4, <2>5, <2>6, <2>7 DEF ReqData
<1> QED BY <1>2, <1>3

\* What is handed to send() is a stretch of at least one byte.
LEMMA PieceType ==
  ASSUME TypeOK, NEW f \in Open, NEW req \in Prepared(f), ~PastEnd(req)
  PROVE  /\ Piece(req).from \in Int
         /\ Piece(req).size \in Nat \ {0}
         /\ Piece(req).chunkInd \in Nat
<1> DEFINE r == req.response
           i == IF r.chunked THEN req.chunkInd ELSE 0
<1>1. /\ req \in ReqData /\ r \in Response
      /\ [chunked |-> r.chunked, ends |-> r.ends] \in Shapes
  BY PreparedType
<1>2. req.chunkInd \in Nat /\ req.responseSize \in Nat /\ req.responseStr \in Int
      /\ r.base \in Nat
  BY <1>1 DEF ReqData, Response
<1>3. CASE Leftover(req)
  BY <1>2, <1>3 DEF Piece, Leftover
<1>4. CASE ~Leftover(req)
  <2>1. /\ Len(r.ends) \in Nat \ {0}
        /\ \A j \in 1..Len(r.ends) : r.ends[j] \in Nat
        /\ \A j \in 0..(Len(r.ends) - 1) :
              PieceStart(r, j) \in Nat /\ PieceStart(r, j) < r.ends[j + 1]
    BY <1>1, ShapeFacts
  <2>2. i \in 0..(Len(r.ends) - 1)
    BY <1>2, <1>4, <2>1 DEF PastEnd
  <2>3. PieceStart(r, i) \in Nat /\ PieceStart(r, i) < r.ends[i + 1] /\ r.ends[i + 1] \in Nat
    BY <2>1, <2>2
  <2>4. Piece(req) = [from |-> r.base + PieceStart(r, i), size |-> r.ends[i + 1] - PieceStart(r, i),
                      chunkInd |-> IF r.chunked THEN i + 1 ELSE req.chunkInd]
    BY <1>4 DEF Piece
  <2> HIDE DEF r
  <2> QED BY <1>2, <2>2, <2>3, <2>4
<1> QED BY <1>3, <1>4

-----------------------------------------------------------------------------
(* Type correctness. *)

\* The entry that the loop index points to.
LEMMA HereType ==
  ASSUME TypeOK, idx <= Len(fds)
  PROVE  /\ idx \in 1..Len(fds)
         /\ Here \in PollFd
<1>1. fds \in Seq(PollFd) /\ idx \in Nat \ {0}
  BY DEF TypeOK
<1>2. Len(fds) \in Nat
  BY <1>1, LenProperties
<1> QED BY <1>1, <1>2, ElementOfSeq DEF Here

\* A client's entry belongs to an open connection, the listener's does not.
LEMMA HereOpen ==
  ASSUME TypeOK, Books, idx <= Len(fds)
  PROVE  /\ Here.fd \in {Listener} \cup Open
         /\ Here.fd # Listener => Here.fd \in Open
  BY HereType DEF Books, Here

\* Adding and removing a key.
LEMMA WithType ==
  ASSUME NEW S, NEW D, NEW f \in [D -> S], NEW k, NEW v \in S
  PROVE  /\ With(f, k, v) \in [D \cup {k} -> S]
         /\ With(f, k, v)[k] = v
         /\ \A x \in D \ {k} : With(f, k, v)[x] = f[x]
  BY DEF With

LEMMA WithoutType ==
  ASSUME NEW S, NEW D, NEW f \in [D -> S], NEW k
  PROVE  /\ Without(f, k) \in [D \ {k} -> S]
         /\ \A x \in D \ {k} : Without(f, k)[x] = f[x]
  BY DEF Without

\* The initial records.
LEMMA NewRecords ==
  /\ InitReqDataStruct \in ReqData /\ NewLink \in Link /\ NewStream \in Stream
  /\ InitReqDataStruct.response = NULL
  /\ \A f \in Fds \cup {Listener} :
       NewPollFd(f) \in PollFd /\ NewPollFd(f).fd = f /\ NewPollFd(f).events = {"IN"}
<1>1. <<>> \in Seq(Unit) /\ 0 \in 0..MaxReqs /\ "OTHER" \in Methods
  BY EmptySeq, MaxReqsAssumption DEF Methods
<1> QED BY <1>1 DEF InitReqDataStruct, ReqData, NewLink, Link, NewStream, Stream,
               NewPollFd, PollFd

LEMMA InitTypeOK == Init => TypeOK
<1> SUFFICES ASSUME Init PROVE TypeOK
  OBVIOUS
<1>1. NewPollFd(Listener) \in PollFd
  BY NewRecords
<1>2. fds \in Seq(PollFd)
  BY <1>1 DEF Init
<1>3. Open = {}
  BY DEF Init, Open
<1> QED BY <1>2, <1>3 DEF Init, TypeOK, Open

\* The history record and the request record after a send() of n bytes.
LEMMA OwedType ==
  ASSUME NEW st \in Stream, NEW isNew, NEW r, r.ends[Len(r.ends)] \in Nat
  PROVE  Owed(st, isNew, r) \in Stream
<1>1. st.built + 1 \in Nat /\ st.due + r.ends[Len(r.ends)] \in Nat
  BY DEF Stream
<1> QED BY <1>1 DEF Owed, Stream

LEMMA SentType ==
  ASSUME NEW st \in Stream, NEW r, NEW p, NEW n \in Nat
  PROVE  Sent(st, r, p, n) \in Stream
<1> DEFINE i == st.intact /\ p.from = st.sent /\ p.from >= r.base
           c == st.cut \/ n < p.size
<1>1. i \in BOOLEAN /\ c \in BOOLEAN
  OBVIOUS
<1>2. Sent(st, r, p, n) = [st EXCEPT !.sent = st.sent + n, !.cut = c, !.intact = i]
  BY DEF Sent
<1>3. st.sent + n \in Nat
  BY DEF Stream
<1> HIDE DEF i, c
<1> QED BY <1>1, <1>2, <1>3 DEF Stream

\* sendResponse, taken apart: the request, the bytes accepted, the last test.
Sends(f, req, n, finished) ==
  /\ clients' = [clients EXCEPT ![f] =
       [req EXCEPT !.responseStr = Piece(req).from + n,
                   !.responseSize = Piece(req).size - n,
                   !.chunkInd = Piece(req).chunkInd,
                   !.response = IF finished THEN NULL ELSE @]]
  /\ fds' = [fds EXCEPT ![idx].events = EventsAfter(finished)]
  /\ heap' = IF finished THEN Delete(f) ELSE heap \cup {f}
  /\ stream' = [stream EXCEPT ![f] =
       Sent(Owed(@, clients[f].response = NULL, req.response), req.response, Piece(req), n)]

LEMMA SendEffect ==
  ASSUME SendResponse
  PROVE  \E req \in Prepared(Here.fd) :
           /\ ~PastEnd(req)
           /\ \E n \in Accepted(Piece(req).size), finished \in Finished(req) :
                Sends(Here.fd, req, n, finished)
  BY DEF SendResponse, Sends

LEMMA SendTypeOK ==
  ASSUME TypeOK, Books, SendResponse
  PROVE  TypeOK'
<1> DEFINE f == Here.fd
<1>1. f \in Open /\ idx \in 1..Len(fds) /\ Here \in PollFd
  BY HereType, HereOpen DEF SendResponse, VisitsWritable, Scanning
<1>2. PICK req \in Prepared(f) :
        /\ ~PastEnd(req)
        /\ \E n \in Accepted(Piece(req).size), finished \in Finished(req) :
             Sends(f, req, n, finished)
  BY SendEffect
<1>3. PICK n \in Accepted(Piece(req).size), finished \in Finished(req) :
        Sends(f, req, n, finished)
  BY <1>2
<1> DEFINE p == Piece(req)
           q == [req EXCEPT !.responseStr = p.from + n, !.responseSize = p.size - n,
                            !.chunkInd = p.chunkInd,
                            !.response = IF finished THEN NULL ELSE @]
           st == Sent(Owed(stream[f], clients[f].response = NULL, req.response),
                      req.response, p, n)
<1>4. req \in ReqData /\ req.response \in Response
      /\ [chunked |-> req.response.chunked, ends |-> req.response.ends] \in Shapes
  BY <1>1, PreparedType
<1>5. p.from \in Int /\ p.size \in Nat \ {0} /\ p.chunkInd \in Nat
  BY <1>1, <1>2, PieceType
<1>6. n \in Nat /\ p.size - n \in Nat
  BY <1>5 DEF Accepted
<1>7. q \in ReqData /\ q.response \in {req.response, NULL}
  <2> DEFINE r == IF finished THEN NULL ELSE req.response
             a == p.from + n
             b == p.size - n
             c == p.chunkInd
  <2>1. r \in Response \cup {NULL} /\ r \in {req.response, NULL}
    BY <1>4
  <2>2. a \in Int /\ b \in Nat /\ c \in Nat
    BY <1>5, <1>6
  <2>3. q = [req EXCEPT !.responseStr = a, !.responseSize = b, !.chunkInd = c, !.response = r]
    OBVIOUS
  <2> DEFINE q2 == [req EXCEPT !.responseStr = a, !.responseSize = b, !.chunkInd = c,
                               !.response = r]
  <2>4. q2 \in ReqData /\ q2.response = r
    <3> HIDE DEF r, a, b, c
    <3> QED BY <1>4, <2>1, <2>2 DEF ReqData
  <2> HIDE DEF r
  <2> QED BY <2>1, <2>3, <2>4
<1>8. st \in Stream
  <2>1. stream[f] \in Stream
    BY <1>1 DEF TypeOK
  <2>2. req.response.ends[Len(req.response.ends)] \in Nat
    BY <1>4, ShapeFacts
  <2>3. Owed(stream[f], clients[f].response = NULL, req.response) \in Stream
    BY <2>1, <2>2, OwedType
  <2> QED BY <1>6, <2>3, SentType
<1>9. PICK full \in BOOLEAN : link' = [link EXCEPT ![f].full = full]
  BY FlagsAssumption DEF SendResponse
<1>10. clients' = [clients EXCEPT ![f] = q] /\ stream' = [stream EXCEPT ![f] = st]
  BY <1>3 DEF Sends
<1> HIDE DEF f, p, q, st
<1>11. Open' = Open /\ clients' \in [Open' -> ReqData] /\ stream' \in [Open' -> Stream]
  BY <1>1, <1>7, <1>8, <1>10 DEF TypeOK, Open
<1>12. link' \in [Open' -> Link]
  <2>1. link[f] \in Link
    BY <1>1 DEF TypeOK
  <2>2. [link[f] EXCEPT !.full = full] \in Link
    BY <2>1 DEF Link
  <2> QED BY <1>1, <1>9, <1>11, <2>2 DEF TypeOK
<1>13. fds' \in Seq(PollFd)
  <2>1. EventsAfter(finished) \in SUBSET {"IN", "OUT"}
    BY <1>1 DEF EventsAfter, PollFd
  <2> QED BY <1>1, <1>3, <2>1, EventsWritten DEF TypeOK, Sends
<1>14. heap' \subseteq Fds
  BY <1>1, <1>3 DEF TypeOK, Delete, Sends, f
<1>15. \A g \in Open' : LET r == clients'[g].response
                        IN  r # NULL => [chunked |-> r.chunked, ends |-> r.ends] \in Shapes
  BY <1>1, <1>4, <1>7, <1>10, <1>11 DEF TypeOK
<1>16. pc' \in {"poll", "scan", "clear", "stopped", "dead"} /\ idx' \in Nat \ {0}
       /\ fdToDel' \subseteq Fds /\ backlog' \in Nat /\ conns' \in Nat
  BY DEF SendResponse, NextEntry, TypeOK
<1> QED BY <1>11, <1>12, <1>13, <1>14, <1>15, <1>16 DEF TypeOK

LEMMA SendFailsTypeOK ==
  ASSUME TypeOK, Books, SendFails
  PROVE  TypeOK'
<1> DEFINE f == Here.fd
<1>1. f \in Open /\ idx \in 1..Len(fds) /\ Here \in PollFd
  BY HereType, HereOpen DEF SendFails, VisitsWritable, Scanning
<1>2. PICK req \in Prepared(f) :
        /\ ~PastEnd(req)
        /\ clients' = [clients EXCEPT ![f] =
             [req EXCEPT !.responseStr = Piece(req).from - 1,
                         !.responseSize = Piece(req).size + 1,
                         !.chunkInd = Piece(req).chunkInd]]
        /\ stream' = [stream EXCEPT ![f] =
             Owed(@, clients[f].response = NULL, req.response)]
  BY DEF SendFails
<1> DEFINE a == Piece(req).from - 1
           b == Piece(req).size + 1
           c == Piece(req).chunkInd
           q == [req EXCEPT !.responseStr = a, !.responseSize = b, !.chunkInd = c]
           st == Owed(stream[f], clients[f].response = NULL, req.response)
<1>3. req \in ReqData /\ req.response \in Response
      /\ [chunked |-> req.response.chunked, ends |-> req.response.ends] \in Shapes
  BY <1>1, PreparedType
<1>4. a \in Int /\ b \in Nat /\ c \in Nat
  BY <1>1, <1>2, PieceType
<1>5. q \in ReqData /\ q.response = req.response
  <2> HIDE DEF a, b, c
  <2> QED BY <1>3, <1>4 DEF ReqData
<1>6. st \in Stream
  <2>1. stream[f] \in Stream
    BY <1>1 DEF TypeOK
  <2>2. req.response.ends[Len(req.response.ends)] \in Nat
    BY <1>3, ShapeFacts
  <2> QED BY <2>1, <2>2, OwedType
<1>7. clients' = [clients EXCEPT ![f] = q] /\ stream' = [stream EXCEPT ![f] = st]
  BY <1>2
<1>8. heap' \subseteq Fds /\ fdToDel' \subseteq Fds
  BY <1>1 DEF TypeOK, SendFails
<1>9. idx' \in Nat \ {0}
  BY DEF SendFails, NextEntry, TypeOK
<1> HIDE DEF f, q, st
<1>10. Open' = Open /\ clients' \in [Open' -> ReqData] /\ stream' \in [Open' -> Stream]
  BY <1>1, <1>5, <1>6, <1>7 DEF TypeOK, Open
<1>11. \A g \in Open' : LET r == clients'[g].response
                        IN  r # NULL => [chunked |-> r.chunked, ends |-> r.ends] \in Shapes
  BY <1>1, <1>3, <1>5, <1>7, <1>10 DEF TypeOK
<1> QED BY <1>8, <1>9, <1>10, <1>11 DEF SendFails, NextEntry, TypeOK

LEMMA AcceptTypeOK ==
  ASSUME TypeOK, AcceptConnection
  PROVE  TypeOK'
<1>1. PICK f \in Fds \ Open :
        /\ fds' = Append(fds, NewPollFd(f))
        /\ clients' = With(clients, f, InitReqDataStruct)
        /\ link' = With(link, f, NewLink)
        /\ stream' = With(stream, f, NewStream)
  BY DEF AcceptConnection
<1>2. fds' \in Seq(PollFd)
  <2>1. NewPollFd(f) \in PollFd
    BY NewRecords
  <2> QED BY <1>1, <2>1 DEF TypeOK
<1>3. /\ clients' \in [Open \cup {f} -> ReqData] /\ link' \in [Open \cup {f} -> Link]
      /\ stream' \in [Open \cup {f} -> Stream]
      /\ clients'[f] = InitReqDataStruct
      /\ \A g \in Open : clients'[g] = clients[g]
  <2>1. /\ clients \in [Open -> ReqData] /\ link \in [Open -> Link]
        /\ stream \in [Open -> Stream]
    BY DEF TypeOK
  <2>2. /\ InitReqDataStruct \in ReqData /\ NewLink \in Link /\ NewStream \in Stream
    BY NewRecords
  <2>3. /\ clients' \in [Open \cup {f} -> ReqData]
        /\ clients'[f] = InitReqDataStruct
        /\ \A g \in Open \ {f} : clients'[g] = clients[g]
    BY <1>1, <2>1, <2>2 DEF With
  <2>4. link' \in [Open \cup {f} -> Link]
    BY <1>1, <2>1, <2>2, WithType
  <2>5. stream' \in [Open \cup {f} -> Stream]
    BY <1>1, <2>1, <2>2, WithType
  <2> QED BY <1>1, <2>3, <2>4, <2>5
<1>4. Open' = Open \cup {f}
  BY <1>3 DEF Open
<1>5. \A g \in Open' : LET r == clients'[g].response
                       IN  r # NULL => [chunked |-> r.chunked, ends |-> r.ends] \in Shapes
  BY <1>3, <1>4, NewRecords DEF TypeOK
<1>6. backlog' \in Nat /\ idx' \in Nat \ {0}
  BY DEF AcceptConnection, NextEntry, TypeOK
<1> QED BY <1>1, <1>2, <1>3, <1>4, <1>5, <1>6 DEF AcceptConnection, NextEntry, TypeOK

LEMMA ReceiveTypeOK ==
  ASSUME TypeOK, Books, ReceiveRequest
  PROVE  TypeOK'
<1> DEFINE f    == Here.fd
           l    == link[f]
           size == Minimum(Len(l.inbox), BufferUnits)
           tail == SubSeq(l.inbox, 1, size)
           rest == SubSeq(l.inbox, size + 1, Len(l.inbox))
           app  == [clients[f] EXCEPT !.reqString = @ \o tail]
           req  == Scanned(app)
<1>1. f \in Open /\ idx \in 1..Len(fds) /\ Here \in PollFd
  BY HereType, HereOpen DEF ReceiveRequest, VisitsReadable, Scanning
<1>2. l \in Link /\ l.inbox \in Seq(Unit) /\ clients[f] \in ReqData
      /\ clients[f].reqString \in Seq(Unit)
  BY <1>1 DEF TypeOK, Link, ReqData
<1>3. Len(l.inbox) \in Nat /\ size \in 0..Len(l.inbox)
      /\ \A i \in 1..Len(l.inbox) : l.inbox[i] \in Unit
  BY <1>2, LenProperties, ElementOfSeq, BufferAssumption DEF Minimum
<1>4. tail \in Seq(Unit) /\ rest \in Seq(Unit)
  <2> HIDE DEF l, size
  <2> QED BY <1>3, SubSeqProperties
<1>5. app \in ReqData /\ app.response = clients[f].response
  <2>1. clients[f].reqString \o tail \in Seq(Unit)
    BY <1>2, <1>4, ConcatProperties
  <2> HIDE DEF tail
  <2> QED BY <1>2, <2>1 DEF ReqData
<1>6. req \in ReqData /\ req.response = clients[f].response
  <2> HIDE DEF app
  <2> QED BY <1>5, ScannedType
<1>7. /\ clients' = [clients EXCEPT ![f] = req]
      /\ fds' = IF ReqEnd(req) THEN [fds EXCEPT ![idx].events = @ \cup {"OUT"}] ELSE fds
      /\ link' = [link EXCEPT ![f].inbox = rest]
  BY DEF ReceiveRequest, Received
<1> HIDE DEF f, l, size, tail, rest, app, req
<1>8. Open' = Open /\ clients' \in [Open' -> ReqData]
  BY <1>1, <1>6, <1>7 DEF TypeOK, Open
<1>9. link' \in [Open' -> Link]
  <2>1. [link[f] EXCEPT !.inbox = rest] \in Link
    BY <1>2, <1>4 DEF Link, l
  <2> QED BY <1>1, <1>7, <1>8, <2>1 DEF TypeOK
<1>10. fds' \in Seq(PollFd)
  <2>1. fds[idx].events \cup {"OUT"} \in SUBSET {"IN", "OUT"}
    BY <1>1 DEF Here, PollFd
  <2>2. [fds EXCEPT ![idx].events = @ \cup {"OUT"}]
          = [fds EXCEPT ![idx].events = fds[idx].events \cup {"OUT"}]
    OBVIOUS
  <2> QED BY <1>1, <1>7, <2>1, <2>2, EventsWritten DEF TypeOK
<1>11. \A g \in Open' : LET r == clients'[g].response
                        IN  r # NULL => [chunked |-> r.chunked, ends |-> r.ends] \in Shapes
  BY <1>1, <1>6, <1>7, <1>8 DEF TypeOK
<1> QED BY <1>8, <1>9, <1>10, <1>11 DEF ReceiveRequest, NextEntry, TypeOK

LEMMA CloseTypeOK ==
  ASSUME TypeOK, Books, CloseConnection
  PROVE  TypeOK'
<1> DEFINE f == Here.fd
<1>1. f \in Open /\ idx \in 1..Len(fds)
  BY HereType, HereOpen DEF CloseConnection, Books
<1>2. fds' \in Seq(PollFd)
  BY <1>1, EraseProperties DEF CloseConnection, TypeOK
<1>3. clients' = Without(clients, f) /\ link' = Without(link, f) /\ stream' = Without(stream, f)
  BY DEF CloseConnection
<1> HIDE DEF f
<1>4. /\ clients' \in [Open \ {f} -> ReqData]
      /\ \A g \in Open \ {f} : clients'[g] = clients[g]
  <2>1. clients \in [Open -> ReqData]
    BY DEF TypeOK
  <2> QED BY <1>3, <2>1 DEF Without
<1>5. link' \in [Open \ {f} -> Link] /\ stream' \in [Open \ {f} -> Stream]
  <2>1. link \in [Open -> Link] /\ stream \in [Open -> Stream]
    BY DEF TypeOK
  <2>2. link' \in [Open \ {f} -> Link]
    BY <1>3, <2>1, WithoutType
  <2>3. stream' \in [Open \ {f} -> Stream]
    BY <1>3, <2>1, WithoutType
  <2> QED BY <2>2, <2>3
<1>6. Open' = Open \ {f}
  BY <1>4 DEF Open
<1>7. \A g \in Open' : LET r == clients'[g].response
                       IN  r # NULL => [chunked |-> r.chunked, ends |-> r.ends] \in Shapes
  BY <1>4, <1>6 DEF TypeOK
<1> QED BY <1>2, <1>4, <1>5, <1>6, <1>7 DEF CloseConnection, AfterErase, Delete, TypeOK

\* The clients' steps change only their sockets.
LEMMA ClientTypeOK ==
  ASSUME TypeOK, ClientStep
  PROVE  TypeOK'
<1>1. CASE Connect
  BY <1>1 DEF Connect, server, TypeOK, Open
<1>2. ASSUME NEW f \in Open, NEW l \in Link, link' = [link EXCEPT ![f] = l],
             UNCHANGED <<server, backlog, conns, stream>>
      PROVE  TypeOK'
  <2>1. link' \in [Open -> Link]
    BY <1>2 DEF TypeOK
  <2> QED BY <1>2, <2>1 DEF server, TypeOK, Open
<1>3. ASSUME NEW f \in Open, StartRequest(f)
      PROVE  TypeOK'
  <2>1. link[f] \in Link
    BY DEF TypeOK
  <2>2. PICK k \in Kinds :
          link' = [link EXCEPT ![f].asked = @ + 1, ![f].todo = Wire(k, link[f].asked + 1)]
    BY <1>3 DEF StartRequest
  <2>3. link[f].asked + 1 \in 1..MaxReqs
    BY <1>3, <2>1, MaxReqsAssumption DEF StartRequest, Link
  <2>4. Wire(k, link[f].asked + 1) \in Seq(Unit)
    BY <2>3, KindsAssumption, WireType
  <2> DEFINE n == link[f].asked + 1
             w == Wire(k, n)
             l == [link[f] EXCEPT !.asked = n, !.todo = w]
  <2>5. l \in Link
    <3>1. n \in 0..MaxReqs /\ w \in Seq(Unit)
      BY <2>3, <2>4
    <3> HIDE DEF n, w
    <3> QED BY <2>1, <3>1 DEF Link
  <2>6. link' = [link EXCEPT ![f] = l]
    BY <2>2
  <2> HIDE DEF l
  <2> QED BY <1>2, <1>3, <2>5, <2>6 DEF StartRequest
<1>4. ASSUME NEW f \in Open, ClientSend(f)
      PROVE  TypeOK'
  <2>1. link[f] \in Link /\ link[f].todo \in Seq(Unit) /\ link[f].todo # <<>>
        /\ link[f].inbox \in Seq(Unit)
    BY <1>4 DEF TypeOK, ClientSend, Link
  <2>2. Head(link[f].todo) \in Unit /\ Tail(link[f].todo) \in Seq(Unit)
    BY <2>1, HeadTailProperties
  <2>3. Append(link[f].inbox, Head(link[f].todo)) \in Seq(Unit)
    BY <2>1, <2>2
  <2>4. [link[f] EXCEPT !.inbox = Append(@, Head(link[f].todo)), !.todo = Tail(@)] \in Link
    BY <2>1, <2>2, <2>3 DEF Link
  <2> QED BY <1>2, <1>4, <2>4 DEF ClientSend
<1>5. ASSUME NEW f \in Open, ClientRead(f) \/ ClientClose(f)
      PROVE  TypeOK'
  <2>1. PICK l \in {[link[f] EXCEPT !.full = FALSE], [link[f] EXCEPT !.peer = "fin"],
                    [link[f] EXCEPT !.peer = "rst"]} : link' = [link EXCEPT ![f] = l]
    BY <1>5 DEF ClientRead, ClientClose
  <2>2. link[f] \in Link
    BY DEF TypeOK
  <2>3. l \in Link
    BY <2>1, <2>2 DEF Link
  <2> QED BY <1>2, <1>5, <2>1, <2>3 DEF ClientRead, ClientClose
<1> QED BY <1>1, <1>3, <1>4, <1>5 DEF ClientStep

\* The steps of the server that only move its loop index or doom a connection.
LEMMA PlainTypeOK ==
  ASSUME TypeOK, Books,
         \/ Skip \/ AcceptFails \/ ReceiveFails \/ PollError \/ RefuseRequest \/ SendKills \/ BuildKills
         \/ EndScan \/ KeepConnection \/ EndClear \/ PollFails
  PROVE  TypeOK'
<1>1. fdToDel' \subseteq Fds
  <2>1. CASE fdToDel' = fdToDel
    BY <2>1 DEF TypeOK
  <2>2. CASE ReceiveFails \/ RefuseRequest
    BY <2>2, HereOpen DEF ReceiveFails, RefuseRequest, VisitsReadable, VisitsWritable, Scanning, TypeOK
  <2>3. CASE PollError
    <3>1. Here \in PollFd /\ idx \in 1..Len(fds) /\ Here.revents # {}
          /\ Here.revents \cap {"IN", "OUT"} = {}
      BY <2>3, HereType DEF PollError, Scanning
    <3>2. Here.fd # Listener
      BY <3>1 DEF Books, Here
    <3>3. Here.fd \in Open
      BY <2>3, <3>2, HereOpen DEF PollError, Scanning
    <3> QED BY <2>3, <3>3 DEF PollError, TypeOK
  <2> QED BY <2>1, <2>2, <2>3 DEF Skip, AcceptFails, SendKills, BuildKills, EndScan, KeepConnection, EndClear,
                                 PollFails
<1> QED BY <1>1 DEF Skip, AcceptFails, ReceiveFails, PollError, RefuseRequest, SendKills, BuildKills, EndScan,
                   KeepConnection, EndClear, PollFails, NextEntry, TypeOK, Open

\* poll() writes the revents and nothing else.
LEMMA PollEffect ==
  ASSUME TypeOK, Poll
  PROVE  /\ fds' \in Seq(PollFd)
         /\ Len(fds') = Len(fds)
         /\ \A i \in 1..Len(fds) : /\ fds'[i].fd = fds[i].fd
                                   /\ fds'[i].events = fds[i].events
                                   /\ fds'[i].fd = Listener => fds'[i].revents \subseteq {"IN"}
<1> DEFINE e(i) == [fds[i] EXCEPT !.revents = Revents(fds[i])]
<1>1. Len(fds) \in Nat /\ \A i \in 1..Len(fds) : fds[i] \in PollFd
  BY LenProperties, ElementOfSeq DEF TypeOK
<1>2. fds' = [i \in 1..Len(fds) |-> e(i)]
  BY DEF Poll
<1>3. ASSUME NEW i \in 1..Len(fds)
      PROVE  /\ e(i) \in PollFd /\ e(i).fd = fds[i].fd /\ e(i).events = fds[i].events
             /\ e(i).fd = Listener => e(i).revents \subseteq {"IN"}
  <2>1. Revents(fds[i]) \subseteq {"IN", "OUT", "ERR"}
    BY DEF Revents
  <2>2. fds[i].fd = Listener => Revents(fds[i]) \subseteq {"IN"}
    BY DEF Revents
  <2> DEFINE w == Revents(fds[i])
  <2> HIDE DEF w
  <2>3. e(i) = [fds[i] EXCEPT !.revents = w]
    BY DEF w
  <2>4. w \subseteq {"IN", "OUT", "ERR"} /\ (fds[i].fd = Listener => w \subseteq {"IN"})
    BY <2>1, <2>2 DEF w
  <2> HIDE DEF e
  <2> QED BY <1>1, <2>3, <2>4 DEF PollFd
<1> HIDE DEF e
<1>4. fds' \in Seq(PollFd) /\ Len(fds') = Len(fds)
  BY <1>1, <1>2, <1>3
<1> QED BY <1>2, <1>3, <1>4

LEMMA PollTypeOK ==
  ASSUME TypeOK, Poll
  PROVE  TypeOK'
<1>1. fds' \in Seq(PollFd)
  BY PollEffect
<1> QED BY <1>1 DEF Poll, TypeOK, Open

\* Every step keeps the types.
LEMMA NextTypeOK ==
  ASSUME TypeOK, Books, [Next]_vars
  PROVE  TypeOK'
<1>1. CASE UNCHANGED vars
  BY <1>1 DEF vars, server, TypeOK, Open
<1>2. CASE Next
  BY <1>2, PollTypeOK, AcceptTypeOK, ReceiveTypeOK, SendTypeOK, SendFailsTypeOK, CloseTypeOK,
     PlainTypeOK, ClientTypeOK
     DEF Next, ServerStep, Scan, Clear
<1> QED BY <1>1, <1>2

-----------------------------------------------------------------------------
(* The books: _fds, _clients and _fdToDel agree. *)

LEMMA InitBooks == Init => Books
<1> SUFFICES ASSUME Init PROVE Books
  OBVIOUS
<1>1. Len(fds) = 1 /\ fds[1].fd = Listener /\ fds[1].revents = {} /\ Open = {} /\ fdToDel = {}
      /\ pc = "poll"
  BY DEF Init, NewPollFd, Open
<1> QED BY <1>1 DEF Books

\* A visit dooms at most the connection it visits, so none that is still to come.
LEMMA LaterEntries ==
  ASSUME TypeOK, Books, Scanning, fdToDel' \subseteq fdToDel \cup {Here.fd}
  PROVE  \A i \in 1..Len(fds) : i >= idx + 1 => fds[i].fd \notin fdToDel'
<1>1. idx \in 1..Len(fds) /\ idx \in Nat /\ Len(fds) \in Nat
  BY HereType, LenProperties DEF Scanning, TypeOK
<1>2. /\ \A i \in 1..Len(fds) : i >= idx => fds[i].fd \notin fdToDel
      /\ \A i \in 1..Len(fds) : fds[i].fd = fds[idx].fd => i = idx
  BY <1>1 DEF Scanning, Books
<1> QED BY <1>1, <1>2 DEF Here

\* Steps that leave every entry on its descriptor.
LEMMA EntriesKept ==
  ASSUME TypeOK, Books, Len(fds') = Len(fds), Open' = Open,
         \A i \in 1..Len(fds) : /\ fds'[i].fd = fds[i].fd
                                /\ fds'[i].fd = Listener => fds'[i].revents \subseteq {"IN"},
         fdToDel' \subseteq Open',
         pc' = "poll" => fdToDel' = {},
         pc' = "scan" => \A i \in 1..Len(fds) : i >= idx' => fds[i].fd \notin fdToDel',
         pc' = "clear" => \A i \in 1..Len(fds) : i < idx' => fds[i].fd \notin fdToDel'
  PROVE  Books'
<1> DEFINE n == Len(fds)
           t == fds'
<1>1. /\ Len(t) = n
      /\ \A i \in 1..n : t[i].fd = fds[i].fd
      /\ \A i \in 1..n : t[i].fd = Listener => t[i].revents \subseteq {"IN"}
  OBVIOUS
<1>2. /\ \A i, j \in 1..n : fds[i].fd = fds[j].fd => i = j
      /\ {fds[i].fd : i \in 1..n} = {Listener} \cup Open
  BY DEF Books
<1> HIDE DEF n, t
<1>3. \A i, j \in 1..n : t[i].fd = t[j].fd => i = j
  BY <1>1, <1>2
<1>4. {t[i].fd : i \in 1..n} = {Listener} \cup Open
  <2>1. \A i \in 1..n : t[i].fd \in {fds[j].fd : j \in 1..n}
    BY <1>1
  <2>2. \A i \in 1..n : fds[i].fd \in {t[j].fd : j \in 1..n}
    BY <1>1
  <2>3. {t[i].fd : i \in 1..n} = {fds[i].fd : i \in 1..n}
    BY <2>1, <2>2
  <2> QED BY <1>2, <2>3
<1>5. /\ pc' = "scan" => \A i \in 1..n : i >= idx' => t[i].fd \notin fdToDel'
      /\ pc' = "clear" => \A i \in 1..n : i < idx' => t[i].fd \notin fdToDel'
  BY <1>1 DEF n
<1> USE DEF t
<1> QED BY <1>1, <1>3, <1>4, <1>5 DEF Books

LEMMA AcceptBooks ==
  ASSUME TypeOK, Books, AcceptConnection
  PROVE  Books'
<1>1. PICK f \in Fds \ Open :
        /\ fds' = Append(fds, NewPollFd(f))
        /\ clients' = With(clients, f, InitReqDataStruct)
  BY DEF AcceptConnection
<1>2. fds \in Seq(PollFd) /\ Len(fds) \in Nat
  BY LenProperties DEF TypeOK
<1>3. /\ Len(fds') = Len(fds) + 1
      /\ \A i \in 1..Len(fds) : fds'[i] = fds[i]
      /\ fds'[Len(fds) + 1].fd = f
  BY <1>1, <1>2 DEF NewPollFd
<1>4. Open' = Open \cup {f} /\ f # Listener /\ f \notin {fds[i].fd : i \in 1..Len(fds)}
  BY <1>1, FdsAssumption DEF With, Open, Books
<1>5. \A i, j \in 1..Len(fds') : fds'[i].fd = fds'[j].fd => i = j
  BY <1>2, <1>3, <1>4 DEF Books
<1>6. {fds'[i].fd : i \in 1..Len(fds')} = {Listener} \cup Open'
  <2>1. {fds'[i].fd : i \in 1..Len(fds')} = {fds[i].fd : i \in 1..Len(fds)} \cup {f}
    <3>1. 1..Len(fds') = (1..Len(fds)) \cup {Len(fds) + 1}
      BY <1>2, <1>3
    <3> QED BY <1>3, <3>1
  <2> QED BY <1>4, <2>1 DEF Books
<1>7. \A i \in 1..Len(fds') : fds'[i].fd = Listener => fds'[i].revents \subseteq {"IN"}
  BY <1>2, <1>3, <1>4 DEF Books
<1>8. pc' = "scan" /\ fdToDel' \subseteq Open'
  BY <1>4 DEF AcceptConnection, VisitsListener, Scanning, NextEntry, Books
<1>9. \A i \in 1..Len(fds') : i >= idx' => fds'[i].fd \notin fdToDel'
  <2>1. idx' = idx + 1 /\ fdToDel' = fdToDel /\ f \notin fdToDel
    BY <1>1 DEF AcceptConnection, NextEntry, Books
  <2>2. \A i \in 1..Len(fds) : i >= idx + 1 => fds[i].fd \notin fdToDel
    BY <2>1, LaterEntries DEF AcceptConnection, VisitsListener
  <2> QED BY <1>2, <1>3, <2>1, <2>2
<1> QED BY <1>5, <1>6, <1>7, <1>8, <1>9 DEF Books

LEMMA CloseBooks ==
  ASSUME TypeOK, Books, CloseConnection
  PROVE  Books'
<1> DEFINE f == Here.fd
<1>1. f \in Open /\ f \in fdToDel /\ idx \in 1..Len(fds) /\ f = fds[idx].fd
  BY HereType, HereOpen DEF CloseConnection, Books, Here
<1>2. fds \in Seq(PollFd) /\ Len(fds) \in Nat /\ idx \in Nat
  BY LenProperties DEF TypeOK
<1>3. /\ Len(fds') = Len(fds) - 1
      /\ \A j \in 1..(Len(fds) - 1) : fds'[j] = IF j < idx THEN fds[j] ELSE fds[j + 1]
  BY <1>1, <1>2, EraseProperties DEF CloseConnection
<1>4. Open' = Open \ {f} /\ fdToDel' = fdToDel \ {f} /\ pc' = "clear" /\ idx' = idx
  BY DEF CloseConnection, Without, Open, AfterErase
<1> HIDE DEF f
<1> DEFINE old(j) == IF j < idx THEN j ELSE j + 1
<1>5. \A j \in 1..Len(fds') : /\ old(j) \in 1..Len(fds) /\ old(j) # idx
                              /\ fds'[j] = fds[old(j)]
  BY <1>1, <1>2, <1>3
<1>6. \A i \in 1..Len(fds) : i # idx => \E j \in 1..Len(fds') : old(j) = i
  <2> SUFFICES ASSUME NEW i \in 1..Len(fds), i # idx
               PROVE  \E j \in 1..Len(fds') : old(j) = i
    OBVIOUS
  <2>1. CASE i < idx
    <3>1. i \in 1..Len(fds') /\ old(i) = i
      BY <1>1, <1>2, <1>3, <2>1
    <3> QED BY <3>1
  <2>2. CASE i > idx
    <3>1. i - 1 \in 1..Len(fds') /\ old(i - 1) = i
      BY <1>1, <1>2, <1>3, <2>2
    <3> QED BY <3>1
  <2> QED BY <1>2, <2>1, <2>2
<1>7. \A i, j \in 1..Len(fds') : fds'[i].fd = fds'[j].fd => i = j
  <2> SUFFICES ASSUME NEW i \in 1..Len(fds'), NEW j \in 1..Len(fds'), fds'[i].fd = fds'[j].fd
               PROVE  i = j
    OBVIOUS
  <2>1. old(i) = old(j)
    <3> HIDE DEF old
    <3> QED BY <1>5 DEF Books
  <2> QED BY <1>1, <1>2, <1>3, <2>1
<1>8. {fds'[i].fd : i \in 1..Len(fds')} = {Listener} \cup Open'
  <2> HIDE DEF old
  <2>1. f # Listener
    BY <1>1, FdsAssumption DEF TypeOK
  <2>2. \A i \in 1..Len(fds') : fds'[i].fd \in ({Listener} \cup Open) \ {f}
    BY <1>1, <1>5 DEF Books
  <2>3. \A g \in ({Listener} \cup Open) \ {f} : \E i \in 1..Len(fds') : fds'[i].fd = g
    <3> SUFFICES ASSUME NEW g \in ({Listener} \cup Open) \ {f}
                 PROVE  \E i \in 1..Len(fds') : fds'[i].fd = g
      OBVIOUS
    <3>1. PICK i \in 1..Len(fds) : fds[i].fd = g
      BY DEF Books
    <3>2. i # idx
      BY <1>1, <3>1
    <3> QED BY <1>5, <1>6, <3>1, <3>2
  <2> QED BY <1>4, <2>1, <2>2, <2>3
<1>9. \A i \in 1..Len(fds') : fds'[i].fd = Listener => fds'[i].revents \subseteq {"IN"}
  <2> HIDE DEF old
  <2> QED BY <1>5 DEF Books
<1>10. fdToDel' \subseteq Open'
  BY <1>4 DEF Books
<1>11. \A i \in 1..Len(fds') : i < idx' => fds'[i].fd \notin fdToDel'
  <2> SUFFICES ASSUME NEW i \in 1..Len(fds'), i < idx
               PROVE  fds'[i].fd \notin fdToDel'
    BY <1>4
  <2>1. i \in 1..Len(fds) /\ fds'[i] = fds[i]
    BY <1>1, <1>2, <1>3
  <2>2. pc = "clear"
    BY DEF CloseConnection
  <2> QED BY <1>4, <2>1, <2>2 DEF Books
<1> QED BY <1>4, <1>7, <1>8, <1>9, <1>10, <1>11 DEF Books

\* Every step keeps the books.
LEMMA NextBooks ==
  ASSUME TypeOK, Books, [Next]_vars
  PROVE  Books'
<1> USE DEF Open
<1>1. Len(fds) \in Nat /\ fds \in Seq(PollFd) /\ idx \in Nat \ {0}
  BY LenProperties DEF TypeOK
<1>2. CASE UNCHANGED vars
  BY <1>2 DEF vars, server, Books
<1>3. CASE Poll
  <2>1. /\ Len(fds') = Len(fds) /\ Open' = Open /\ fdToDel' = fdToDel /\ pc' = "scan"
    BY <1>3, PollEffect DEF Poll
  <2>2. \A i \in 1..Len(fds) : fds'[i].fd = fds[i].fd
    BY <1>3, PollEffect
  <2>3. \A i \in 1..Len(fds) : fds'[i].fd = Listener => fds'[i].revents \subseteq {"IN"}
    BY <1>3, PollEffect
  <2>4. fdToDel' = {}
    BY <1>3, <2>1 DEF Poll, Books
  <2> QED BY <2>1, <2>2, <2>3, <2>4, EntriesKept
<1>4. CASE AcceptConnection
  BY <1>4, AcceptBooks
<1>5. CASE CloseConnection
  BY <1>5, CloseBooks
<1>6. CASE ReceiveRequest \/ SendResponse \/ SendFails
  <2> DEFINE E == {"IN", "OUT"}
  <2>1. idx \in 1..Len(fds) /\ Here \in PollFd /\ Here.fd \in Open /\ Here = fds[idx]
    BY <1>6, HereType, HereOpen, Zenon DEF ReceiveRequest, SendResponse, SendFails, VisitsReadable,
       VisitsWritable, Scanning, Here
  <2>2. \/ fds' = fds
        \/ \E e \in SUBSET E : fds' = [fds EXCEPT ![idx].events = e]
    <3>1. Here.events \cup {"OUT"} \in SUBSET E /\ Here.events \in SUBSET E
      BY <2>1 DEF PollFd
    <3>2. CASE ReceiveRequest
      <4>1. \/ fds' = fds
            \/ fds' = [fds EXCEPT ![idx].events = Here.events \cup {"OUT"}]
        BY <3>2, <2>1 DEF ReceiveRequest
      <4> QED BY <3>1, <4>1
    <3>3. CASE SendResponse
      <4>1. \E finished \in BOOLEAN : fds' = [fds EXCEPT ![idx].events = EventsAfter(finished)]
        BY <3>3 DEF SendResponse, Finished
      <4>2. \A finished \in BOOLEAN : EventsAfter(finished) \in SUBSET E
        BY <3>1 DEF EventsAfter
      <4> QED BY <4>1, <4>2
    <3>4. CASE SendFails
      BY <3>4 DEF SendFails
    <3> QED BY <1>6, <3>2, <3>3, <3>4
  <2>3. /\ Len(fds') = Len(fds)
        /\ \A i \in 1..Len(fds) : fds'[i].fd = fds[i].fd /\ fds'[i].revents = fds[i].revents
    <3>1. CASE fds' = fds
      BY <3>1
    <3>2. CASE \E e \in SUBSET E : fds' = [fds EXCEPT ![idx].events = e]
      <4>1. PICK e \in SUBSET E : fds' = [fds EXCEPT ![idx].events = e]
        BY <3>2, Zenon
      <4>2. fds' = [fds EXCEPT ![idx] = [fds[idx] EXCEPT !.events = e]]
        BY <4>1
      <4>3. [fds[idx] EXCEPT !.events = e] \in PollFd
            /\ [fds[idx] EXCEPT !.events = e].fd = fds[idx].fd
            /\ [fds[idx] EXCEPT !.events = e].revents = fds[idx].revents
        BY <2>1 DEF PollFd
      <4> QED BY <1>1, <2>1, <4>2, <4>3, ExceptSeq
    <3> QED BY <2>2, <3>1, <3>2
  <2>4. Open' = Open /\ pc' = "scan" /\ fdToDel' \subseteq fdToDel \cup {Here.fd}
    BY <1>6, Zenon DEF ReceiveRequest, SendResponse, SendFails, VisitsReadable, VisitsWritable,
       Scanning, NextEntry
  <2>5. fdToDel' \subseteq Open'
    BY <2>1, <2>4 DEF Books
  <2>6. \A i \in 1..Len(fds) : fds'[i].fd = Listener => fds'[i].revents \subseteq {"IN"}
    BY <2>3, SMTT(30) DEF Books
  <2>7. \A i \in 1..Len(fds) : i >= idx' => fds[i].fd \notin fdToDel'
    BY <1>6, <2>4, LaterEntries, Zenon DEF ReceiveRequest, SendResponse, SendFails, VisitsReadable,
       VisitsWritable, NextEntry
  <2> QED BY <2>3, <2>4, <2>5, <2>6, <2>7, EntriesKept, SMTT(30)
<1>7. CASE UNCHANGED <<fds, clients>> /\ (\/ ReceiveFails \/ PollError \/ RefuseRequest)
  <2>1. Here.fd \in Open
    <3>1. CASE PollError
      <4>1. Here \in PollFd /\ idx \in 1..Len(fds) /\ Here.revents # {}
            /\ Here.revents \cap {"IN", "OUT"} = {}
        BY <3>1, HereType DEF PollError, Scanning
      <4>2. Here.fd # Listener
        BY <4>1 DEF Books, Here
      <4> QED BY <3>1, <4>2, HereOpen DEF PollError, Scanning
    <3>2. CASE ReceiveFails \/ RefuseRequest
      BY <3>2, HereOpen DEF ReceiveFails, RefuseRequest, VisitsReadable, VisitsWritable, Scanning
    <3> QED BY <1>7, <3>1, <3>2
  <2>2. pc' = "scan" /\ fdToDel' = fdToDel \cup {Here.fd}
    BY <1>7 DEF ReceiveFails, PollError, RefuseRequest, VisitsReadable, VisitsWritable,
       Scanning, NextEntry
  <2>3. \A i \in 1..Len(fds) : i >= idx' => fds[i].fd \notin fdToDel'
    BY <1>7, <2>2, LaterEntries DEF ReceiveFails, PollError, RefuseRequest, VisitsReadable,
       VisitsWritable, NextEntry
  <2>4. fdToDel' \subseteq Open'
    BY <1>7, <2>1, <2>2 DEF Books
  <2> QED BY <1>7, <2>2, <2>3, <2>4 DEF Books
<1>8. CASE Skip \/ AcceptFails
  <2>1. \A i \in 1..Len(fds) : i >= idx' => fds[i].fd \notin fdToDel'
    BY <1>8, LaterEntries DEF Skip, AcceptFails, VisitsListener, NextEntry
  <2> QED BY <1>8, <2>1 DEF Skip, AcceptFails, VisitsListener, Scanning, NextEntry, Books
<1>9. CASE SendKills \/ BuildKills \/ PollFails
  BY <1>9 DEF SendKills, BuildKills, PollFails, Books
<1>10. CASE EndScan
  BY <1>10, <1>1 DEF EndScan, Books
<1>11. CASE KeepConnection
  BY <1>11, <1>1 DEF KeepConnection, NextEntry, Here, Books
<1>12. CASE EndClear
  <2>1. \A i \in 1..Len(fds) : fds[i].fd \notin fdToDel
    BY <1>12, <1>1 DEF EndClear, Books
  <2>2. fdToDel = {}
    <3>1. \A g \in fdToDel : \E i \in 1..Len(fds) : fds[i].fd = g
      BY DEF Books
    <3> QED BY <2>1, <3>1
  <2> QED BY <1>12, <2>2 DEF EndClear, Books
<1>13. CASE ClientStep
  <2>1. UNCHANGED server
    BY <1>13 DEF ClientStep, Connect, StartRequest, ClientSend, ClientRead, ClientClose
  <2> QED BY <2>1 DEF server, Books
<1> QED BY <1>2, <1>3, <1>4, <1>5, <1>6, <1>7, <1>8, <1>9, <1>10, <1>11, <1>12, <1>13
        DEF Next, ServerStep, Scan, Clear, ReceiveFails, PollError, RefuseRequest

\* The containers of the event loop agree in every reachable state, and nothing
\* that clearConnections should have closed survives it: Server::clearConnections
\* erases from the vector it is running over without missing an entry.
THEOREM TypeAndBooks == Spec => [](TypeOK /\ Books)
<1>1. Init => TypeOK /\ Books
  BY InitTypeOK, InitBooks
<1>2. TypeOK /\ Books /\ [Next]_vars => (TypeOK /\ Books)'
  BY NextTypeOK, NextBooks
<1> QED BY <1>1, <1>2, PTL DEF Spec

\* The records of Server and of its clients are well-typed in every reachable state.
THEOREM EventLoopTypes == Spec => []TypeOK
<1> QED BY TypeAndBooks, PTL

-----------------------------------------------------------------------------
(* Who owns a Response, and when the loop waits to write. *)

\* The steps that touch no Response and no entry's interest.
LEMMA OwnersKept ==
  ASSUME ResponsesOwned, heap' = heap, Open' = Open,
         \A f \in Open : (clients'[f].response # NULL) <=> (clients[f].response # NULL)
  PROVE  ResponsesOwned'
  BY DEF ResponsesOwned

LEMMA InitOwned == Init => ResponsesOwned
  BY DEF Init, ResponsesOwned, Open

\* sendResponse allocates the Response it stores, and deletes the one it drops.
LEMMA SendOwned ==
  ASSUME TypeOK, Books, ResponsesOwned, SendResponse \/ SendFails
  PROVE  ResponsesOwned'
<1> DEFINE f == Here.fd
<1>1. f \in Open
  BY HereOpen DEF SendResponse, SendFails, VisitsWritable, Scanning
<1>2. CASE SendResponse
  <2>1. PICK req \in Prepared(f) : \E n, finished : Sends(f, req, n, finished)
    BY <1>2, SendEffect
  <2>2. req \in ReqData /\ req.response # NULL
    BY <1>1, PreparedType
  <2>3. PICK n, finished : Sends(f, req, n, finished)
    BY <2>1
  <2> HIDE DEF f
  <2>4. Open' = Open /\ \A g \in Open \ {f} : clients'[g] = clients[g]
    BY <1>1, <2>3 DEF Open, Sends
  <2>5. clients'[f].response = IF finished THEN NULL ELSE req.response
    BY <1>1, <2>2, <2>3 DEF Open, ReqData, Sends
  <2> QED BY <1>1, <2>2, <2>3, <2>4, <2>5 DEF ResponsesOwned, Delete, Sends
<1>3. CASE SendFails
  <2>1. PICK req \in Prepared(f) :
          clients' = [clients EXCEPT ![f] =
             [req EXCEPT !.responseStr = Piece(req).from - 1,
                         !.responseSize = Piece(req).size + 1,
                         !.chunkInd = Piece(req).chunkInd]]
    BY <1>3 DEF SendFails
  <2>2. req \in ReqData /\ req.response # NULL
    BY <1>1, PreparedType
  <2>3. heap' = heap \cup {f}
    BY <1>3 DEF SendFails
  <2> HIDE DEF f
  <2>4. Open' = Open /\ \A g \in Open \ {f} : clients'[g] = clients[g]
    BY <1>1, <2>1 DEF Open
  <2>5. clients'[f].response = req.response
    BY <1>1, <2>1, <2>2 DEF Open, ReqData
  <2> QED BY <1>1, <2>2, <2>3, <2>4, <2>5 DEF ResponsesOwned
<1> QED BY <1>2, <1>3

\* receiveRequest leaves the Response of its client alone.
LEMMA ReceiveKeepsResponse ==
  ASSUME TypeOK, Books, ReceiveRequest
  PROVE  /\ Open' = Open
         /\ \A f \in Open : clients'[f].response = clients[f].response
         /\ \A f \in Open : /\ clients'[f].responseSize = clients[f].responseSize
                           /\ clients'[f].chunkInd = clients[f].chunkInd
         /\ \A f \in Open : clients[f].foundHeaders => clients'[f].foundHeaders
         /\ \A f \in Open \ {Here.fd} : clients'[f] = clients[f]
         /\ clients'[Here.fd] = Received(clients[Here.fd],
              SubSeq(link[Here.fd].inbox, 1, Minimum(Len(link[Here.fd].inbox), BufferUnits)))
<1> DEFINE f    == Here.fd
           size == Minimum(Len(link[f].inbox), BufferUnits)
           tail == SubSeq(link[f].inbox, 1, size)
           app  == [clients[f] EXCEPT !.reqString = @ \o tail]
<1>1. f \in Open
  BY HereOpen DEF ReceiveRequest, VisitsReadable, Scanning
<1>2. clients[f] \in ReqData /\ link[f].inbox \in Seq(Unit)
  BY <1>1 DEF TypeOK, Link
<1>3. Len(link[f].inbox) \in Nat /\ size \in 0..Len(link[f].inbox)
      /\ \A i \in 1..Len(link[f].inbox) : link[f].inbox[i] \in Unit
  BY <1>2, LenProperties, ElementOfSeq, BufferAssumption DEF Minimum
<1>4. tail \in Seq(Unit)
  <2> HIDE DEF size
  <2> QED BY <1>3, SubSeqProperties
<1>5. /\ app \in ReqData /\ app.response = clients[f].response
      /\ app.foundHeaders = clients[f].foundHeaders
      /\ app.responseSize = clients[f].responseSize /\ app.chunkInd = clients[f].chunkInd
  <2>1. clients[f].reqString \o tail \in Seq(Unit)
    BY <1>2, <1>4, ConcatProperties DEF ReqData
  <2> HIDE DEF tail
  <2> QED BY <1>2, <2>1 DEF ReqData
<1>6. /\ Scanned(app).response = clients[f].response
      /\ Scanned(app).responseSize = clients[f].responseSize
      /\ Scanned(app).chunkInd = clients[f].chunkInd
      /\ clients[f].foundHeaders => Scanned(app).foundHeaders
  <2> HIDE DEF app
  <2> QED BY <1>5, ScannedType
<1>7. clients' = [clients EXCEPT ![f] = Scanned(app)]
  BY DEF ReceiveRequest, Received
<1>8. Scanned(app) = Received(clients[f], tail)
  BY DEF Received
<1> HIDE DEF f, app
<1> QED BY <1>1, <1>6, <1>7, <1>8 DEF Open, f

LEMMA NextOwned ==
  ASSUME TypeOK, Books, ResponsesOwned, [Next]_vars
  PROVE  ResponsesOwned'
<1>1. CASE UNCHANGED <<clients, heap>>
  BY <1>1 DEF ResponsesOwned, Open
<1>2. CASE AcceptConnection
  <2>1. PICK f \in Fds \ Open : clients' = With(clients, f, InitReqDataStruct)
    BY <1>2 DEF AcceptConnection
  <2>2. Open' = Open \cup {f} /\ clients'[f].response = NULL
        /\ \A g \in Open : clients'[g] = clients[g]
    BY <2>1, NewRecords DEF With, Open
  <2> QED BY <1>2, <2>1, <2>2 DEF AcceptConnection, ResponsesOwned
<1>3. CASE ReceiveRequest
  <2>1. heap' = heap
    BY <1>3 DEF ReceiveRequest
  <2> QED BY <1>3, <2>1, ReceiveKeepsResponse, OwnersKept
<1>4. CASE SendResponse \/ SendFails
  BY <1>4, SendOwned
<1>5. CASE CloseConnection
  <2>1. Open' = Open \ {Here.fd} /\ \A g \in Open' : clients'[g] = clients[g]
    BY <1>5 DEF CloseConnection, Without, Open
  <2> QED BY <1>5, <2>1 DEF CloseConnection, ResponsesOwned, Delete
<1> QED BY <1>1, <1>2, <1>3, <1>4, <1>5
        DEF Next, ServerStep, Scan, Clear, Poll, PollFails, Skip, AcceptFails, ReceiveFails,
            PollError, RefuseRequest, SendKills, BuildKills, EndScan, KeepConnection, EndClear, ClientStep,
            Connect, StartRequest, ClientSend, ClientRead, ClientClose, vars, server

\* No Response object is ever leaked, deleted twice or used after its deletion by
\* the event loop: the allocated ones are those that open connections point to.
THEOREM OwnershipOfResponses == Spec => []ResponsesOwned
<1>1. Init => ResponsesOwned
  BY InitOwned
<1>2. TypeOK /\ Books /\ ResponsesOwned /\ [Next]_vars => ResponsesOwned'
  BY NextOwned
<1> QED BY <1>1, <1>2, TypeAndBooks, PTL DEF Spec

\* What WriteInterest says of one entry and the record behind it.
Interest(e, req, visited) ==
  /\ req.response # NULL => "OUT" \in e.events
  /\ "OUT" \in e.events => req.response # NULL \/ req.foundHeaders
  /\ ~visited /\ "OUT" \in e.revents => "OUT" \in e.events

Visited(i) == ~(pc = "scan" /\ i >= idx)

LEMMA WriteInterestByEntry ==
  WriteInterest <=> \A i \in 1..Len(fds) :
                      fds[i].fd # Listener => Interest(fds[i], clients[fds[i].fd], Visited(i))
  BY DEF WriteInterest, Interest, Visited

LEMMA SendInterest ==
  ASSUME TypeOK, Books, WriteInterest, SendResponse
  PROVE  WriteInterest'
<1> DEFINE f == Here.fd
<1>1. f \in Open /\ idx \in 1..Len(fds) /\ Here \in PollFd /\ Here = fds[idx] /\ f # Listener
      /\ "OUT" \in Here.revents /\ pc = "scan"
  BY HereType, HereOpen DEF SendResponse, VisitsWritable, Scanning, Here
<1>2. PICK req \in Prepared(f) : \E n, finished : Sends(f, req, n, finished)
  BY SendEffect
<1>3. PICK n, finished : Sends(f, req, n, finished)
  BY <1>2
<1>4. req \in ReqData /\ req.response # NULL
  BY <1>1, PreparedType
<1>5. "OUT" \in Here.events
  BY <1>1 DEF WriteInterest, TypeOK
<1>6. fds \in Seq(PollFd) /\ Len(fds) \in Nat /\ idx' = idx + 1 /\ pc' = "scan" /\ idx \in Nat
  BY <1>1, LenProperties DEF TypeOK, SendResponse, NextEntry
<1> HIDE DEF f
<1>7. /\ Len(fds') = Len(fds)
      /\ \A i \in 1..Len(fds) : i # idx => fds'[i] = fds[i]
      /\ fds'[idx].fd = f
      /\ fds'[idx].events = EventsAfter(finished)
  <2> DEFINE e == [fds[idx] EXCEPT !.events = EventsAfter(finished)]
  <2>1. EventsAfter(finished) \in SUBSET {"IN", "OUT"}
    BY <1>1 DEF EventsAfter, PollFd
  <2>2. e \in PollFd /\ e.fd = f /\ e.events = EventsAfter(finished)
    BY <1>1, <2>1 DEF PollFd, f
  <2>3. fds' = [fds EXCEPT ![idx] = e]
    BY <1>3 DEF Sends
  <2> HIDE DEF e
  <2> QED BY <1>1, <1>6, <2>2, <2>3, ExceptSeq
<1>8. /\ \A g \in Open \ {f} : clients'[g] = clients[g]
      /\ clients'[f].response = IF finished THEN NULL ELSE req.response
  BY <1>1, <1>3, <1>4 DEF Open, ReqData, Sends
<1>9. Interest(fds'[idx], clients'[f], TRUE)
  <2>1. CASE finished
    BY <1>7, <1>8, <2>1 DEF EventsAfter, Interest
  <2>2. CASE ~finished
    BY <1>4, <1>5, <1>7, <1>8, <2>2 DEF EventsAfter, Interest
  <2> QED BY <2>1, <2>2
<1>10. ASSUME NEW i \in 1..Len(fds), i # idx, fds[i].fd # Listener
       PROVE  Interest(fds'[i], clients'[fds'[i].fd], Visited(i)')
  <2>1. fds[i].fd \in Open \ {f}
    BY <1>1, <1>10 DEF Books, f, Here
  <2>2. Interest(fds[i], clients[fds[i].fd], Visited(i))
    BY <1>10, WriteInterestByEntry
  <2>3. Visited(i) => Visited(i)'
    BY <1>1, <1>6, <1>10 DEF Visited
  <2> QED BY <1>7, <1>8, <1>10, <2>1, <2>2, <2>3 DEF Interest
<1>11. ~(idx >= idx')
  BY <1>6
<1> QED BY <1>6, <1>7, <1>9, <1>10, <1>11 DEF WriteInterest, Interest, Visited

LEMMA AcceptInterest ==
  ASSUME TypeOK, Books, WriteInterest, AcceptConnection
  PROVE  WriteInterest'
<1>1. PICK f \in Fds \ Open :
        /\ fds' = Append(fds, NewPollFd(f))
        /\ clients' = With(clients, f, InitReqDataStruct)
  BY DEF AcceptConnection
<1>2. fds \in Seq(PollFd) /\ Len(fds) \in Nat /\ pc = "scan" /\ pc' = "scan" /\ idx' = idx + 1
      /\ idx \in Nat
  BY LenProperties DEF TypeOK, AcceptConnection, VisitsListener, Scanning, NextEntry
<1>3. /\ Len(fds') = Len(fds) + 1
      /\ \A i \in 1..Len(fds) : fds'[i] = fds[i]
      /\ fds'[Len(fds) + 1] = NewPollFd(f)
  BY <1>1, <1>2
<1>4. clients'[f].response = NULL /\ \A g \in Open : clients'[g] = clients[g]
  BY <1>1, NewRecords DEF With, Open
<1>5. \A i \in 1..Len(fds) : fds[i].fd # Listener => fds[i].fd \in Open
  BY DEF Books
<1>6. ASSUME NEW i \in 1..Len(fds'), fds'[i].fd # Listener
      PROVE  Interest(fds'[i], clients'[fds'[i].fd], ~(i >= idx'))
  <2>1. CASE i \in 1..Len(fds)
    BY <1>2, <1>3, <1>4, <1>5, <1>6, <2>1 DEF WriteInterest, Interest
  <2>2. CASE i = Len(fds) + 1
    BY <1>3, <1>4, <2>2 DEF NewPollFd, Interest
  <2> QED BY <1>2, <1>3, <2>1, <2>2
<1> QED BY <1>6 DEF WriteInterest, Interest

LEMMA ReceiveInterest ==
  ASSUME TypeOK, Books, WriteInterest, ReceiveRequest
  PROVE  WriteInterest'
<1> DEFINE f == Here.fd
           req == clients'[f]
<1>1. f \in Open /\ idx \in 1..Len(fds) /\ Here \in PollFd /\ Here = fds[idx]
  BY HereType, HereOpen DEF ReceiveRequest, VisitsReadable, Scanning, Here
<1>2. fds \in Seq(PollFd) /\ Len(fds) \in Nat /\ pc = "scan" /\ pc' = "scan" /\ idx' = idx + 1
      /\ idx \in Nat
  BY LenProperties DEF TypeOK, ReceiveRequest, VisitsReadable, Scanning, NextEntry
<1>3. /\ \A g \in Open : clients'[g].response = clients[g].response
      /\ \A g \in Open : clients[g].foundHeaders => clients'[g].foundHeaders
  BY ReceiveKeepsResponse
<1>4. \/ fds' = fds
      \/ ReqEnd(req) /\ fds' = [fds EXCEPT ![idx].events = @ \cup {"OUT"}]
  <2>1. req = Received(clients[f],
                SubSeq(link[f].inbox, 1, Minimum(Len(link[f].inbox), BufferUnits)))
    BY ReceiveKeepsResponse
  <2> QED BY <2>1 DEF ReceiveRequest
<1>5. ReqEnd(req) => req.foundHeaders
  BY DEF ReqEnd
<1> HIDE DEF req
<1>6. CASE fds' = fds
  BY <1>2, <1>3, <1>6 DEF WriteInterest, Books
<1>7. CASE ReqEnd(req) /\ fds' = [fds EXCEPT ![idx].events = @ \cup {"OUT"}]
  <2> DEFINE e == [fds[idx] EXCEPT !.events = @ \cup {"OUT"}]
  <2>1. e \in PollFd /\ e.fd = f /\ e.events = Here.events \cup {"OUT"}
    BY <1>1 DEF PollFd
  <2>2. fds' = [fds EXCEPT ![idx] = e]
    BY <1>7
  <2> HIDE DEF e
  <2>3. /\ Len(fds') = Len(fds)
        /\ \A i \in 1..Len(fds) : i # idx => fds'[i] = fds[i]
        /\ fds'[idx] = e
    BY <1>1, <1>2, <2>1, <2>2, ExceptSeq
  <2>4. Interest(fds'[idx], clients'[f], TRUE)
    BY <1>5, <1>7, <2>1, <2>3 DEF Interest, req
  <2>5. ASSUME NEW i \in 1..Len(fds), i # idx, fds[i].fd # Listener
        PROVE  Interest(fds'[i], clients'[fds'[i].fd], ~(i >= idx'))
    <3>1. fds[i].fd \in Open
      BY <2>5 DEF Books
    <3> QED BY <1>2, <1>3, <2>3, <2>5, <3>1 DEF WriteInterest, Interest
  <2>6. ~(idx >= idx') /\ fds'[idx].fd = f
    BY <1>2, <2>1, <2>3
  <2> HIDE DEF f
  <2> QED BY <2>3, <2>4, <2>5, <2>6 DEF WriteInterest, Interest
<1> QED BY <1>4, <1>6, <1>7

LEMMA CloseInterest ==
  ASSUME TypeOK, Books, WriteInterest, CloseConnection
  PROVE  WriteInterest'
<1>1. idx \in 1..Len(fds) /\ fds \in Seq(PollFd) /\ Len(fds) \in Nat /\ idx \in Nat
  BY HereType, LenProperties DEF CloseConnection, TypeOK
<1>2. /\ Len(fds') = Len(fds) - 1
      /\ \A j \in 1..(Len(fds) - 1) : fds'[j] = IF j < idx THEN fds[j] ELSE fds[j + 1]
  BY <1>1, EraseProperties DEF CloseConnection
<1>3. pc' = "clear" /\ \A g \in Open \ {Here.fd} : clients'[g] = clients[g]
  BY DEF CloseConnection, Without, Open
<1>4. ASSUME NEW i \in 1..Len(fds'), fds'[i].fd # Listener
      PROVE  Interest(fds'[i], clients'[fds'[i].fd], TRUE)
  <2>1. PICK j \in 1..Len(fds) : j # idx /\ fds'[i] = fds[j]
    <3>1. CASE i < idx
      BY <1>1, <1>2, <3>1
    <3>2. CASE ~(i < idx)
      <4>1. i + 1 \in 1..Len(fds) /\ i + 1 # idx /\ fds'[i] = fds[i + 1]
        BY <1>1, <1>2, <3>2
      <4> QED BY <4>1
    <3> QED BY <3>1, <3>2
  <2>2. fds[j].fd \in Open \ {Here.fd}
    BY <1>1, <1>4, <2>1 DEF Books, Here
  <2> QED BY <1>3, <1>4, <2>1, <2>2 DEF WriteInterest, Interest
<1> QED BY <1>3, <1>4 DEF WriteInterest, Interest

LEMMA NextInterest ==
  ASSUME TypeOK, Books, WriteInterest, [Next]_vars
  PROVE  WriteInterest'
<1>1. idx \in Nat /\ Len(fds) \in Nat /\ fds \in Seq(PollFd)
  BY LenProperties DEF TypeOK
<1>2. CASE /\ UNCHANGED <<fds, clients>>
           /\ pc' = "scan" => pc = "scan" /\ idx' >= idx /\ idx' \in Nat
  BY <1>1, <1>2 DEF WriteInterest
<1>3. CASE Poll
  <2> DEFINE e(i) == [fds[i] EXCEPT !.revents = Revents(fds[i])]
  <2>1. /\ Len(fds') = Len(fds)
        /\ \A i \in 1..Len(fds) : fds'[i].fd = fds[i].fd /\ fds'[i].events = fds[i].events
    BY <1>3, PollEffect
  <2>2. \A i \in 1..Len(fds) : fds'[i].revents = Revents(fds[i])
    <3>1. \A i \in 1..Len(fds) : fds[i] \in PollFd
      BY <1>1, ElementOfSeq
    <3>2. \A i \in 1..Len(fds) : e(i).revents = Revents(fds[i])
      BY <3>1 DEF PollFd
    <3>3. fds' = [i \in 1..Len(fds) |-> e(i)]
      BY <1>3 DEF Poll
    <3> HIDE DEF e
    <3> QED BY <3>2, <3>3
  <2>3. \A i \in 1..Len(fds) :
          fds[i].fd # Listener /\ "OUT" \in Revents(fds[i]) => "OUT" \in fds[i].events
    BY DEF Revents
  <2> QED BY <1>3, <2>1, <2>2, <2>3 DEF Poll, WriteInterest
<1>4. CASE AcceptConnection
  BY <1>4, AcceptInterest
<1>5. CASE ReceiveRequest
  BY <1>5, ReceiveInterest
<1>6. CASE SendResponse
  BY <1>6, SendInterest
<1>7. CASE SendFails
  <2> DEFINE f == Here.fd
  <2>1. f \in Open /\ idx \in 1..Len(fds) /\ pc = "scan" /\ "OUT" \in Here.events
        /\ Here = fds[idx]
    BY <1>1, <1>7, HereType, HereOpen
       DEF SendFails, VisitsWritable, Scanning, Here, WriteInterest
  <2>2. PICK req \in Prepared(f) :
          clients' = [clients EXCEPT ![f] =
             [req EXCEPT !.responseStr = Piece(req).from - 1,
                         !.responseSize = Piece(req).size + 1,
                         !.chunkInd = Piece(req).chunkInd]]
    BY <1>7 DEF SendFails
  <2>3. req \in ReqData /\ req.response # NULL
    BY <2>1, PreparedType
  <2>4. fds' = fds /\ pc' = "scan" /\ idx' = idx + 1
    BY <1>7, <2>1 DEF SendFails, NextEntry
  <2> HIDE DEF f
  <2>5. clients'[f].response # NULL /\ \A g \in Open \ {f} : clients'[g] = clients[g]
    BY <2>1, <2>2, <2>3 DEF Open, ReqData
  <2>6. ASSUME NEW i \in 1..Len(fds), fds[i].fd # Listener
        PROVE  Interest(fds[i], clients'[fds[i].fd], ~(i >= idx'))
    <3>1. CASE i = idx
      BY <1>1, <2>1, <2>4, <2>5, <3>1 DEF Interest, f
    <3>2. CASE i # idx
      <4>1. fds[i].fd \in Open \ {f}
        BY <2>1, <2>6, <3>2 DEF Books, f
      <4> QED BY <1>1, <2>1, <2>4, <2>5, <2>6, <4>1 DEF WriteInterest, Interest
    <3> QED BY <3>1, <3>2
  <2> QED BY <2>4, <2>6 DEF WriteInterest, Interest
<1>8. CASE CloseConnection
  BY <1>8, CloseInterest
<1>9. CASE Skip \/ AcceptFails \/ ReceiveFails \/ PollError \/ RefuseRequest \/ SendKills \/ BuildKills
           \/ EndScan \/ KeepConnection \/ EndClear \/ PollFails
  BY <1>1, <1>2, <1>9 DEF Skip, AcceptFails, ReceiveFails, PollError, RefuseRequest, SendKills, BuildKills,
     EndScan, KeepConnection, EndClear, PollFails, NextEntry
<1>10. CASE ClientStep
  <2>1. UNCHANGED server
    BY <1>10 DEF ClientStep, Connect, StartRequest, ClientSend, ClientRead, ClientClose
  <2> QED BY <1>1, <1>2, <2>1 DEF server
<1>11. CASE UNCHANGED vars
  BY <1>1, <1>2, <1>11 DEF vars, server
<1> QED BY <1>3, <1>4, <1>5, <1>6, <1>7, <1>8, <1>9, <1>10, <1>11 DEF Next, ServerStep, Scan, Clear

\* POLLOUT is asked for exactly where there is something to write, or a header
\* block to parse: no Response waits for an event the loop does not ask for.
THEOREM NoResponseStuck == Spec => []WriteInterest
<1>1. Init => WriteInterest
  BY DEF Init, WriteInterest, NewPollFd
<1>2. TypeOK /\ Books /\ WriteInterest /\ [Next]_vars => WriteInterest'
  BY NextInterest
<1> QED BY <1>1, <1>2, TypeAndBooks, PTL DEF Spec

-----------------------------------------------------------------------------
(* The bytes a client receives, whole sends or not. *)

\* What StreamSound says of one connection.
Sound(req, st, doomed) ==
  LET r == req.response IN
  /\ ~st.cut => st.intact
  /\ r = NULL => /\ st.sent + req.responseSize <= st.due
                 /\ ~st.cut => ~Leftover(req) /\ st.sent = st.due
  /\ r # NULL /\ ~doomed =>
       LET last == r.ends[Len(r.ends)]
           done == PieceStart(r, req.chunkInd)
       IN  /\ r.chunked /\ req.chunkInd < Len(r.ends)
           /\ st.sent + req.responseSize + (last - done) <= st.due
           /\ ~st.cut => ~Leftover(req) /\ st.sent = r.base + done /\ st.due = r.base + last

LEMMA StreamSoundByConnection ==
  StreamSound <=> \A f \in Open : Sound(clients[f], stream[f], f \in fdToDel)
  BY DEF StreamSound, Sound

\* The request sendResponse goes on with, and what is owed then: it is as if the
\* new Response had been there before, with none of its pieces sent.
LEMMA PreparedSound ==
  ASSUME TypeOK, StreamSound, NEW f \in Open, f \notin fdToDel, NEW req \in Prepared(f),
         NEW st, st = Owed(stream[f], clients[f].response = NULL, req.response)
  PROVE  LET r == req.response
             i == IF r.chunked THEN req.chunkInd ELSE 0
             last == r.ends[Len(r.ends)]
         IN  /\ i \in 0..(Len(r.ends) - 1)
             /\ ~r.chunked => Len(r.ends) = 1
             /\ st.sent + req.responseSize + (last - PieceStart(r, i)) <= st.due
             /\ ~st.cut => /\ st.intact /\ ~Leftover(req)
                           /\ st.sent = r.base + PieceStart(r, i)
                           /\ st.due = r.base + last
<1> DEFINE r == req.response
           i == IF r.chunked THEN req.chunkInd ELSE 0
           last == r.ends[Len(r.ends)]
<1>1. Sound(clients[f], stream[f], FALSE)
  <2>1. Sound(clients[f], stream[f], f \in fdToDel)
    BY StreamSoundByConnection
  <2> QED BY <2>1 DEF Sound
<1>2. /\ req \in ReqData /\ r # NULL /\ r \in Response
      /\ [chunked |-> r.chunked, ends |-> r.ends] \in Shapes
  BY PreparedType
<1>3. /\ Len(r.ends) \in Nat \ {0} /\ r.base \in Nat /\ req.chunkInd \in Nat
      /\ last \in Nat /\ req.responseSize \in Nat
  BY <1>2, ShapeFacts DEF ReqData, Response
<1>4. ~r.chunked => Len(r.ends) = 1
  <2> DEFINE s == [chunked |-> r.chunked, ends |-> r.ends]
  <2>1. ~s.chunked => Len(s.ends) = 1
    BY <1>2, ShapesAssumption
  <2> QED BY <2>1
<1>5. stream[f] \in Stream /\ clients[f] \in ReqData
  BY DEF TypeOK
<1>6. CASE clients[f].response # NULL
  <2>1. req = clients[f] /\ st = stream[f]
    BY <1>6 DEF Prepared, Owed
  <2>2. r.chunked /\ req.chunkInd < Len(r.ends)
    BY <1>1, <1>6, <2>1 DEF Sound
  <2>3. i = req.chunkInd /\ i \in 0..(Len(r.ends) - 1)
    BY <1>3, <2>2
  <2> QED BY <1>1, <1>4, <1>6, <2>1, <2>3 DEF Sound
<1>7. CASE clients[f].response = NULL
  <2>1. PICK s \in Shapes :
          req = [Parsed(clients[f]) EXCEPT !.response =
                   [base |-> stream[f].due, chunked |-> s.chunked, ends |-> s.ends]]
    BY <1>7 DEF Prepared
  <2> DEFINE q == [base |-> stream[f].due, chunked |-> s.chunked, ends |-> s.ends]
  <2>2. Parsed(clients[f]) \in ReqData
    BY <1>5, ParsedType
  <2>3. Parsed(clients[f]).chunkInd = 0
        /\ Parsed(clients[f]).responseSize = clients[f].responseSize
    BY <1>5 DEF Parsed, ReqData
  <2>4. r = q /\ req.chunkInd = 0 /\ req.responseSize = clients[f].responseSize
    <3> HIDE DEF q
    <3>1. req = [Parsed(clients[f]) EXCEPT !.response = q]
      BY <2>1 DEF q
    <3> QED BY <2>2, <2>3, <3>1 DEF ReqData
  <2>5. r.base = stream[f].due /\ PieceStart(r, i) = 0 /\ i = 0
    BY <2>4 DEF PieceStart
  <2>6. /\ stream[f].sent + req.responseSize <= stream[f].due
        /\ ~stream[f].cut => ~Leftover(req) /\ stream[f].sent = stream[f].due /\ stream[f].intact
    BY <1>1, <1>7, <2>4 DEF Sound, Leftover
  <2> HIDE DEF q, r, i, last
  <2>7. /\ st.sent = stream[f].sent /\ st.intact = stream[f].intact /\ st.cut = stream[f].cut
        /\ st.due = stream[f].due + last
    BY <1>5, <1>7 DEF Owed, Stream, r, last
  <2>8. stream[f].due \in Nat /\ stream[f].sent \in Nat
    BY <1>5 DEF Stream
  <2>9. st.sent + req.responseSize + (last - PieceStart(r, i)) <= st.due
    BY <1>3, <2>5, <2>6, <2>7, <2>8
  <2>10. ~st.cut => /\ st.intact /\ ~Leftover(req)
                    /\ st.sent = r.base + PieceStart(r, i) /\ st.due = r.base + last
    BY <1>3, <2>5, <2>6, <2>7, <2>8
  <2>11. i \in 0..(Len(r.ends) - 1)
    BY <1>3, <2>5
  <2> QED BY <1>4, <2>9, <2>10, <2>11 DEF r, i, last
<1> QED BY <1>6, <1>7

\* The bytes handed to send(), before and after it has accepted some of them.
LEMMA SendSound ==
  ASSUME TypeOK, Books, StreamSound, SendResponse
  PROVE  StreamSound'
<1> DEFINE f == Here.fd
<1>1. f \in Open /\ f \notin fdToDel /\ fdToDel' = fdToDel
  <2>1. f \in Open /\ idx \in 1..Len(fds) /\ pc = "scan" /\ idx >= idx
    BY HereType, HereOpen DEF SendResponse, VisitsWritable, Scanning
  <2> QED BY <2>1 DEF SendResponse, Books, Here
<1>2. PICK req \in Prepared(f) :
        /\ ~PastEnd(req)
        /\ \E n \in Accepted(Piece(req).size), finished \in Finished(req) :
             Sends(f, req, n, finished)
  BY SendEffect
<1>3. PICK n \in Accepted(Piece(req).size), finished \in Finished(req) :
        Sends(f, req, n, finished)
  BY <1>2
<1> DEFINE r    == req.response
           i    == IF r.chunked THEN req.chunkInd ELSE 0
           last == r.ends[Len(r.ends)]
           st   == Owed(stream[f], clients[f].response = NULL, r)
           p    == Piece(req)
           next == IF Leftover(req) THEN i ELSE i + 1
<1>4. /\ i \in 0..(Len(r.ends) - 1)
      /\ ~r.chunked => Len(r.ends) = 1
      /\ st.sent + req.responseSize + (last - PieceStart(r, i)) <= st.due
      /\ ~st.cut => /\ st.intact /\ ~Leftover(req)
                    /\ st.sent = r.base + PieceStart(r, i)
                    /\ st.due = r.base + last
  BY <1>1, PreparedSound
<1>5. /\ req \in ReqData /\ r # NULL /\ r \in Response
      /\ [chunked |-> r.chunked, ends |-> r.ends] \in Shapes
  BY <1>1, PreparedType
<1>6. /\ Len(r.ends) \in Nat \ {0} /\ r.base \in Nat /\ req.responseSize \in Nat
      /\ req.chunkInd \in Nat
      /\ \A j \in 1..Len(r.ends) : r.ends[j] \in Nat
      /\ last \in Nat
      /\ PieceStart(r, i) \in Nat /\ PieceStart(r, i) < r.ends[i + 1]
      /\ r.ends[i + 1] \in Nat /\ r.ends[i + 1] <= last
  BY <1>4, <1>5, ShapeFacts, SMTT(30) DEF Response, ReqData
<1>7. p.size \in Nat \ {0} /\ n \in 1..p.size
  <2>1. p.size \in Nat \ {0}
    BY <1>1, <1>2, PieceType
  <2> HIDE DEF p
  <2>2. p.size \in 1..p.size
    BY <2>1
  <2> QED BY <2>1, <2>2 DEF Accepted, p
<1>8. PieceStart(r, i + 1) = r.ends[i + 1]
  BY <1>4 DEF PieceStart
<1>9. PieceStart(r, next) \in Nat /\ PieceStart(r, next) <= last
  BY <1>6, <1>8
<1>10. /\ p.chunkInd = IF r.chunked THEN next ELSE req.chunkInd
       /\ Leftover(req) => p.size = req.responseSize
       /\ ~Leftover(req) => /\ req.responseSize = 0
                            /\ p.size = r.ends[i + 1] - PieceStart(r, i)
                            /\ p.from = r.base + PieceStart(r, i)
  BY <1>4 DEF Piece, Leftover
<1>11. st \in Stream
  <2>1. stream[f] \in Stream
    BY <1>1 DEF TypeOK
  <2> QED BY <1>6, <2>1, OwedType
<1>12. /\ stream'[f].sent = st.sent + n /\ stream'[f].due = st.due
       /\ stream'[f].cut <=> st.cut \/ n < p.size
       /\ stream'[f].intact <=> st.intact /\ p.from = st.sent /\ p.from >= r.base
       /\ st.sent \in Nat /\ st.due \in Nat
       /\ \A g \in Open \ {f} : stream'[g] = stream[g]
  <2>1. stream'[f] = Sent(st, r, p, n) /\ \A g \in Open \ {f} : stream'[g] = stream[g]
    BY <1>1, <1>3 DEF Sends, TypeOK
  <2> HIDE DEF st, p, r, i, f
  <2> QED BY <1>11, <2>1 DEF Sent, Stream
<1>13. /\ Open' = Open
       /\ \A g \in Open \ {f} : clients'[g] = clients[g]
       /\ clients'[f].responseSize = p.size - n
       /\ clients'[f].chunkInd = p.chunkInd
       /\ clients'[f].response = IF finished THEN NULL ELSE r
  <2> HIDE DEF p
  <2>1. clients' = [clients EXCEPT ![f] =
          [req EXCEPT !.responseStr = p.from + n, !.responseSize = p.size - n,
                      !.chunkInd = p.chunkInd, !.response = IF finished THEN NULL ELSE @]]
    BY <1>3 DEF Sends, p
  <2> HIDE DEF f
  <2> QED BY <1>1, <1>5, <2>1 DEF Open, ReqData
<1>14. /\ ~r.chunked => finished
       /\ ~Leftover(req) => (finished <=> i + 1 = Len(r.ends))
  <2>1. CASE r.chunked
    BY <1>4, <2>1 DEF Finished
  <2>2. CASE ~r.chunked
    BY <1>4, <2>2 DEF Finished
  <2> QED BY <2>1, <2>2
<1>15. ~finished => r.chunked /\ p.chunkInd = next /\ next < Len(r.ends)
  <2>1. CASE Leftover(req)
    BY <1>4, <1>6, <1>10, <1>14, <2>1
  <2>2. CASE ~Leftover(req)
    BY <1>4, <1>6, <1>10, <1>14, <2>2
  <2> QED BY <2>1, <2>2
<1> HIDE DEF f, st, p, r, i, last, next
<1>16. req.responseSize + (last - PieceStart(r, i)) = p.size + (last - PieceStart(r, next))
  <2>1. CASE Leftover(req)
    <3>1. next = i
      BY <2>1 DEF next
    <3> QED BY <1>6, <1>10, <2>1, <3>1
  <2>2. CASE ~Leftover(req)
    <3>1. PieceStart(r, next) = r.ends[i + 1]
      BY <1>8, <2>2 DEF next
    <3> QED BY <1>6, <1>10, <2>2, <3>1
  <2> QED BY <2>1, <2>2
<1>17. stream'[f].sent + clients'[f].responseSize + (last - PieceStart(r, next)) <= stream'[f].due
  <2> DEFINE L == last - PieceStart(r, i)
             M == last - PieceStart(r, next)
  <2>1. L \in Int /\ M \in Int /\ n \in Nat /\ p.size \in Nat
    BY <1>6, <1>7, <1>9
  <2>2. st.sent + req.responseSize + L <= st.due /\ req.responseSize + L = p.size + M
    BY <1>4, <1>16
  <2>3. stream'[f].sent = st.sent + n /\ stream'[f].due = st.due /\ st.sent \in Nat /\ st.due \in Nat
    BY <1>12
  <2>4. clients'[f].responseSize = p.size - n /\ req.responseSize \in Nat
    BY <1>6, <1>13
  <2> HIDE DEF L, M
  <2>5. st.sent + n + (p.size - n) + M <= st.due
    BY <2>1, <2>2, <2>3, <2>4
  <2> QED BY <2>3, <2>4, <2>5 DEF M
<1>18. stream'[f].sent \in Nat /\ clients'[f].responseSize \in Nat
  BY <1>7, <1>12, <1>13
<1>19. ASSUME ~stream'[f].cut
       PROVE  /\ stream'[f].intact /\ clients'[f].responseSize = 0
              /\ stream'[f].sent = r.base + r.ends[i + 1] /\ stream'[f].due = r.base + last
              /\ PieceStart(r, next) = r.ends[i + 1] /\ ~Leftover(req)
  <2>1. ~st.cut /\ n = p.size
    BY <1>7, <1>12, <1>19
  <2>2. ~Leftover(req) /\ st.intact /\ st.sent = r.base + PieceStart(r, i) /\ st.due = r.base + last
    BY <1>4, <2>1
  <2>3. PieceStart(r, next) = r.ends[i + 1]
    BY <1>8, <2>2 DEF next
  <2>4. p.from = st.sent /\ p.from >= r.base
    BY <1>6, <1>10, <2>2
  <2>5. st.sent + p.size = r.base + r.ends[i + 1] /\ p.size - p.size = 0
    <3>1. p.size = r.ends[i + 1] - PieceStart(r, i)
      BY <1>10, <2>2
    <3>2. r.base \in Nat /\ PieceStart(r, i) \in Nat /\ r.ends[i + 1] \in Nat
      BY <1>6
    <3> QED BY <1>7, <2>2, <3>1, <3>2
  <2> QED BY <1>12, <1>13, <2>1, <2>2, <2>3, <2>4, <2>5
<1>20. Sound(clients'[f], stream'[f], FALSE)
  <2> SUFFICES ASSUME NEW rq, rq = clients'[f], NEW sm, sm = stream'[f]
               PROVE  Sound(rq, sm, FALSE)
    OBVIOUS
  <2>1. ~sm.cut => sm.intact
    BY <1>19
  <2>2. CASE finished
    <3>1. rq.response = NULL
      BY <1>13, <2>2
    <3>2. sm.sent + rq.responseSize <= sm.due
      BY <1>6, <1>9, <1>12, <1>17, <1>18
    <3>3. ASSUME ~sm.cut PROVE ~Leftover(rq) /\ sm.sent = sm.due
      <4>1. i + 1 = Len(r.ends)
        BY <1>14, <1>19, <2>2, <3>3 DEF r
      <4>2. r.ends[i + 1] = last
        BY <4>1 DEF last
      <4> QED BY <1>19, <3>3, <4>2 DEF Leftover
    <3> QED BY <2>1, <3>1, <3>2, <3>3 DEF Sound
  <2>3. CASE ~finished
    <3>1. rq.response = r /\ r # NULL /\ rq.chunkInd = next
      BY <1>5, <1>13, <1>15, <2>3 DEF r
    <3>2. r.chunked /\ next < Len(r.ends)
      BY <1>15, <2>3
    <3>3. sm.sent + rq.responseSize + (last - PieceStart(r, next)) <= sm.due
      BY <1>17
    <3>4. ~sm.cut => ~Leftover(rq) /\ sm.sent = r.base + PieceStart(r, next) /\ sm.due = r.base + last
      BY <1>19 DEF Leftover
    <3> QED BY <2>1, <3>1, <3>2, <3>3, <3>4 DEF Sound, last
  <2> QED BY <2>2, <2>3
<1>21. \A g \in Open \ {f} : Sound(clients'[g], stream'[g], (g \in fdToDel)')
  BY <1>1, <1>12, <1>13, StreamSoundByConnection
<1>22. \A g \in Open' : Sound(clients'[g], stream'[g], g \in fdToDel')
  BY <1>1, <1>13, <1>20, <1>21 DEF Sound
<1> QED BY <1>22 DEF StreamSound, Sound

\* StreamSound reads three fields of a record.
LEMMA SoundKept ==
  ASSUME NEW req, NEW st, NEW doomed, NEW req2, Sound(req, st, doomed),
         req2.response = req.response, req2.responseSize = req.responseSize,
         req2.chunkInd = req.chunkInd
  PROVE  Sound(req2, st, doomed)
<1>1. Leftover(req2) <=> Leftover(req)
  BY DEF Leftover
<1> QED BY <1>1 DEF Sound

LEMMA SendFailsSound ==
  ASSUME TypeOK, Books, StreamSound, SendFails
  PROVE  StreamSound'
<1> DEFINE f == Here.fd
<1>1. f \in Open /\ fdToDel' = fdToDel \cup {f}
  BY HereOpen DEF SendFails, VisitsWritable, Scanning
<1>2. PICK req \in Prepared(f) :
        /\ clients' = [clients EXCEPT ![f] =
             [req EXCEPT !.responseStr = Piece(req).from - 1,
                         !.responseSize = Piece(req).size + 1,
                         !.chunkInd = Piece(req).chunkInd]]
        /\ stream' = [stream EXCEPT ![f] =
             Owed(stream[f], clients[f].response = NULL, req.response)]
  BY DEF SendFails
<1>3. req \in ReqData /\ req.response # NULL /\ stream[f] \in Stream
  BY <1>1, PreparedType DEF TypeOK
<1>4. LET st == Owed(stream[f], clients[f].response = NULL, req.response)
      IN  ~st.cut => st.intact
  BY <1>1, <1>3 DEF Owed, Stream, StreamSound
<1> HIDE DEF f
<1>5. /\ Open' = Open
      /\ \A g \in Open \ {f} : clients'[g] = clients[g] /\ stream'[g] = stream[g]
      /\ clients'[f].response # NULL
      /\ ~stream'[f].cut => stream'[f].intact
  BY <1>1, <1>2, <1>3, <1>4 DEF Open, ReqData, TypeOK
<1>6. Sound(clients'[f], stream'[f], TRUE)
  BY <1>5 DEF Sound
<1>7. \A g \in Open : Sound(clients[g], stream[g], g \in fdToDel)
  BY StreamSoundByConnection
<1>8. \A g \in Open' : Sound(clients'[g], stream'[g], g \in fdToDel')
  BY <1>1, <1>5, <1>6, <1>7 DEF Sound
<1> QED BY <1>8 DEF StreamSound, Sound

LEMMA NextSound ==
  ASSUME TypeOK, Books, StreamSound, [Next]_vars
  PROVE  StreamSound'
<1>1. \A g \in Open : Sound(clients[g], stream[g], g \in fdToDel)
  BY StreamSoundByConnection
<1>2. SUFFICES ASSUME NEW g \in Open', ~SendResponse, ~SendFails
               PROVE  Sound(clients'[g], stream'[g], g \in fdToDel')
  BY SendSound, SendFailsSound DEF StreamSound, Sound
<1>3. CASE AcceptConnection
  <2>1. PICK f \in Fds \ Open : /\ clients' = With(clients, f, InitReqDataStruct)
                                /\ stream' = With(stream, f, NewStream)
    BY <1>3 DEF AcceptConnection
  <2>2. fdToDel' = fdToDel
    BY <1>3 DEF AcceptConnection
  <2>3. CASE g = f
    <3>1. clients'[g] = InitReqDataStruct /\ stream'[g] = NewStream
      BY <2>1, <2>3 DEF With
    <3> QED BY <3>1 DEF Sound, Leftover, InitReqDataStruct, NewStream
  <2>4. CASE g # f
    <3>1. g \in Open /\ clients'[g] = clients[g] /\ stream'[g] = stream[g]
      BY <1>2, <2>1, <2>4 DEF With, Open, TypeOK
    <3> QED BY <1>1, <2>2, <3>1
  <2> QED BY <2>3, <2>4
<1>4. CASE ReceiveRequest
  <2>1. g \in Open /\ fdToDel' = fdToDel /\ stream' = stream
    BY <1>2, <1>4, ReceiveKeepsResponse DEF ReceiveRequest
  <2>2. /\ clients'[g].response = clients[g].response
        /\ clients'[g].responseSize = clients[g].responseSize
        /\ clients'[g].chunkInd = clients[g].chunkInd
    BY <1>4, <2>1, ReceiveKeepsResponse
  <2>3. Sound(clients[g], stream[g], g \in fdToDel)
    BY <1>1, <2>1
  <2>4. Sound(clients'[g], stream[g], g \in fdToDel)
    BY <2>2, <2>3, SoundKept
  <2> QED BY <2>1, <2>4
<1>5. CASE CloseConnection
  <2>1. g \in Open \ {Here.fd} /\ clients'[g] = clients[g] /\ stream'[g] = stream[g]
    BY <1>2, <1>5 DEF CloseConnection, Without, Open, TypeOK
  <2>2. (g \in fdToDel') <=> (g \in fdToDel)
    BY <1>5, <2>1 DEF CloseConnection
  <2>3. Sound(clients[g], stream[g], g \in fdToDel)
    BY <1>1, <2>1
  <2> QED BY <2>1, <2>2, <2>3 DEF Sound
<1>6. CASE UNCHANGED <<clients, stream>> /\ fdToDel \subseteq fdToDel'
  BY <1>1, <1>2, <1>6 DEF Sound, Open
<1> QED BY <1>2, <1>3, <1>4, <1>5, <1>6
        DEF Next, ServerStep, Scan, Clear, Poll, PollFails, Skip, AcceptFails, ReceiveFails,
            PollError, RefuseRequest, SendKills, BuildKills, EndScan, KeepConnection, EndClear, ClientStep,
            Connect, StartRequest, ClientSend, ClientRead, ClientClose, vars, server

\* Whatever send() takes, pipelining or not: no byte goes out twice and none that is
\* not owed, an answer all of which is sent has been deleted, and no chunk past the last
\* is asked for; and a client none of whose sends has been cut short receives its
\* responses in order and byte for byte, from a Response that is alive.
THEOREM StreamsSound == Spec => []StreamSound
<1>1. Init => StreamSound
  BY DEF Init, StreamSound, Open
<1>2. TypeOK /\ Books /\ StreamSound /\ [Next]_vars => StreamSound'
  BY NextSound
<1> QED BY <1>1, <1>2, TypeAndBooks, PTL DEF Spec

\* No step deletes a Response of an open connection before its last byte is sent,
\* unless a send() to that client has been cut short.
THEOREM DeletionAfterLastByte == Spec => DeletedWhenSent
<1> DEFINE Whole == \A f \in heap :
                      f \notin heap' /\ f \in DOMAIN stream' /\ ~stream'[f].cut
                        => stream'[f].sent = stream'[f].due
<1>1. TypeOK' /\ ResponsesOwned' /\ StreamSound' => Whole
  <2> SUFFICES ASSUME TypeOK', ResponsesOwned', StreamSound',
                      NEW f \in heap, f \notin heap', f \in DOMAIN stream', ~stream'[f].cut
               PROVE  stream'[f].sent = stream'[f].due
    OBVIOUS
  <2>1. f \in Open' /\ clients'[f].response = NULL
    BY DEF TypeOK, ResponsesOwned
  <2> QED BY <2>1 DEF StreamSound
<1>2. Spec => [](TypeOK /\ Books) /\ []ResponsesOwned /\ []StreamSound
  BY TypeAndBooks, OwnershipOfResponses, StreamsSound
<1> QED BY <1>1, <1>2, PTL DEF DeletedWhenSent

\* Whoever is written to has not been marked for deletion.
LEMMA WritableIsOpen ==
  ASSUME TypeOK, Books, VisitsWritable
  PROVE  Here.fd \in Open \ fdToDel
<1>1. idx \in 1..Len(fds) /\ pc = "scan" /\ Here = fds[idx] /\ Here.fd # Listener
  BY DEF VisitsWritable, Scanning, Here, TypeOK
<1>2. Here.fd \in {Listener} \cup Open
  BY <1>1 DEF Books
<1>3. Here.fd \notin fdToDel
  BY <1>1 DEF Books
<1> QED BY <1>1, <1>2, <1>3

\* A step that kills the process is SendKills or BuildKills; after it nothing happens.
LEMMA NextDies ==
  ASSUME TypeOK, Books, StreamSound, GoesOnOnceBuilt, [Next]_vars
  PROVE  GoesOnOnceBuilt'
<1> SUFFICES ASSUME pc' = "dead"
             PROVE  \/ link'[Here.fd'].peer = "rst"
                    \/ FatalBuilds /\ clients'[Here.fd'].response = NULL
  BY DEF GoesOnOnceBuilt
<1>1. CASE SendKills
  <2>1. clients' = clients /\ link' = link /\ Here.fd' = Here.fd
    BY <1>1 DEF SendKills, Here
  <2>2. Here.fd \in Open \ fdToDel
    BY <1>1, WritableIsOpen DEF SendKills
  <2>3. clients[Here.fd].response = NULL \/ ~PastEnd(clients[Here.fd])
    <3> DEFINE req == clients[Here.fd]
    <3>1. SUFFICES ASSUME req.response # NULL PROVE ~PastEnd(req)
      OBVIOUS
    <3>2. req.chunkInd < Len(req.response.ends)
      BY <2>2, <3>1 DEF StreamSound
    <3>3. req.chunkInd \in Nat /\ req.response.ends \in Seq(Nat)
      BY <2>2, <3>1 DEF TypeOK, ReqData, Response
    <3>4. Len(req.response.ends) \in Nat
      BY <3>3, LenProperties
    <3> HIDE DEF req
    <3> QED BY <3>2, <3>3, <3>4 DEF PastEnd
  <2> QED BY <1>1, <2>1, <2>3 DEF SendKills
<1>2. CASE BuildKills
  BY <1>2 DEF BuildKills, Here
<1>3. CASE ~SendKills /\ ~BuildKills
  <2>1. CASE UNCHANGED vars
    BY <2>1 DEF vars, server, GoesOnOnceBuilt, Here
  <2>2. pc # "dead" => ~Next
    BY <1>3, Zenon DEF Next, ServerStep, Poll, PollFails, Scan, Clear, Skip, AcceptConnection, AcceptFails,
                ReceiveRequest, ReceiveFails, SendResponse, SendFails, RefuseRequest, PollError,
                EndScan, CloseConnection, KeepConnection, EndClear, ClientStep, Connect,
                StartRequest, ClientSend, ClientRead, ClientClose, NextEntry, server, Running
  <2>3. pc = "dead" => ~Next
    BY <1>3 DEF Next, ServerStep, Poll, PollFails, Scan, Clear, Skip, AcceptConnection, AcceptFails,
                ReceiveRequest, ReceiveFails, SendResponse, SendFails, RefuseRequest, PollError,
                EndScan, CloseConnection, KeepConnection, EndClear, ClientStep, Connect,
                StartRequest, ClientSend, ClientRead, ClientClose, VisitsListener, VisitsReadable,
                VisitsWritable, Scanning, Running
  <2> QED BY <2>1, <2>2, <2>3
<1> QED BY <1>1, <1>2, <1>3

\* The process dies only of a client that has reset its connection, or in building a
\* Response: sendResponse never asks for a chunk that is not there, cut sends included.
THEOREM DeathByBuildOrReset == Spec => []GoesOnOnceBuilt
<1>1. Init => GoesOnOnceBuilt
  BY DEF Init, GoesOnOnceBuilt
<1>2. TypeOK /\ Books /\ StreamSound /\ GoesOnOnceBuilt /\ [Next]_vars => GoesOnOnceBuilt'
  BY NextDies
<1>3. Spec => [](TypeOK /\ Books) /\ []StreamSound
  BY TypeAndBooks, StreamsSound
<1> QED BY <1>1, <1>2, <1>3, PTL DEF Spec
=============================================================================
