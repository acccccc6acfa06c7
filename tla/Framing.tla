------------------------------- MODULE Framing -------------------------------
(***************************************************************************)
(* How the server decides that a request has arrived completely:           *)
(* Server::isChunked and Server::findReqEnd (src/src/server/Server.cpp).   *)
(*                                                                         *)
(* The code searches the accumulated bytes for four patterns: the end of   *)
(* the headers (ENDH, "\r\n\r\n"), "0\r\n\r\n", and the final boundary of  *)
(* a multipart body.  A byte stream is abstracted to the sequence of its   *)
(* units, the pieces that can hold such a pattern; whether a pattern occurs*)
(* in a unit follows from the unit's part and the kind of its request.     *)
(***************************************************************************)
EXTENDS Naturals, Sequences

CONSTANTS
  Window,   \* how many trailing units lie in the last 100 bytes of a request
  MaxReqs   \* how many requests a connection carries, numbered 1..MaxReqs

ASSUME WindowAssumption  == Window \in Nat \ {0}
ASSUME MaxReqsAssumption == MaxReqs \in Nat

(***************************************************************************)
(* What a client may ask.  "OTHER" is every method that                    *)
(* RequestParser::setSupportedMethods does not list; `coding' says how the *)
(* header block announces the body: no Transfer-Encoding header, one that  *)
(* does not contain "chunked", one that does, or a multipart Content-Type; *)
(* `body' counts the body's data units, `data' says what the bytes of one   *)
(* hold: nothing to be searched for, a blank line (ENDH), or the five bytes*)
(* of "0\r\n\r\n" (in what a chunk carries, or in a size line "10" and a    *)
(* chunk that begins with a line end).  `zero': the header block ends in   *)
(* the digit 0 (a last header "Host: localhost:8080").  `exact': the text  *)
(* that isChunked cuts out of the Content-Type line is the boundary that   *)
(* the body uses; it is not if Content-Type is the last header (the cut    *)
(* drops one character, for a line end that is not there), if the boundary *)
(* is quoted, or if another parameter follows it.                          *)
(***************************************************************************)
Supported == {"GET", "POST", "DELETE", "HEAD", "PUT"}
Methods   == Supported \cup {"OTHER"}
Codings   == {"none", "identity", "chunked", "multipart"}
Kind      == [method: Methods, coding: Codings, body: Nat,
              data: {"plain", "blank", "end"}, zero: BOOLEAN, exact: BOOLEAN]

Unit == [kind: Kind, n: 1..MaxReqs, part: {"line", "endh", "data", "last"}]

\* The units of the n-th request of a connection, in the order they are sent.
Wire(k, n) ==
  LET unit(p) == [kind |-> k, n |-> n, part |-> p]
  IN  <<unit("line"), unit("endh")>>
        \o [i \in 1..k.body |-> unit("data")]
        \o IF k.coding \in {"chunked", "multipart"} THEN <<unit("last")>> ELSE <<>>

(***************************************************************************)
(* The patterns, searched for in the raw bytes.  A last chunk ends like a  *)
(* header block; every part of a multipart body begins with a header block *)
(* of its own; data may hold either pattern.  A boundary is chosen afresh  *)
(* by the client for each request, so `last' units of different requests   *)
(* end in different boundaries.                                            *)
(***************************************************************************)
HasEndh(u)     == \/ u.part = "endh"
                  \/ u.part = "last" /\ u.kind.coding = "chunked"
                  \/ u.part = "data" /\ (u.kind.coding = "multipart" \/ u.kind.data # "plain")
HasZero(u)     == \/ u.part = "last" /\ u.kind.coding = "chunked"
                  \/ u.part = "endh" /\ u.kind.zero
                  \/ u.part = "data" /\ u.kind.data = "end"
HasBound(u, b) == u.part = "last" /\ u.kind.coding = "multipart" /\ u.n = b

\* The text before the first blank: a method only if a request line comes first.
MethodOf(s) == IF s # <<>> /\ s[1].part = "line" THEN s[1].kind.method ELSE "OTHER"

\* The coding the header block announces: that of the first unit with an ENDH;
\* a blank line that is not the end of a header block has no header above it.
AnnouncedBy(u) == IF u.part = "endh" THEN u.kind.coding ELSE "none"

\* The fields of t_reqData that findReqEnd reads and writes; finalBound is the
\* number of the request whose boundary it holds, 0 if it holds none's.
FramingFields == [reqString: Seq(Unit), foundHeaders: BOOLEAN, isTransfer: BOOLEAN,
                  isMultipart: BOOLEAN, method: Methods, finalBound: 0..MaxReqs]

\* The boundary that the Content-Type line above u yields.
BoundOf(u) == IF u.kind.exact THEN u.n ELSE 0

(***************************************************************************)
(* isChunked: isTransfer is assigned only when the header is there, and    *)
(* isMultipart is only ever set.                                           *)
(***************************************************************************)
\* Faulty variant: isTransfer is never set.
IsChunkedNever(u, req) ==
  LET c == AnnouncedBy(u)
  IN [req EXCEPT !.isMultipart = @ \/ c = "multipart",
                 !.finalBound  = IF c = "multipart" THEN BoundOf(u) ELSE @]

IsChunked(u, req) ==
  LET c == AnnouncedBy(u)
  IN [req EXCEPT !.isTransfer  = IF c \in {"chunked", "identity"} THEN c = "chunked" ELSE @,
                 !.isMultipart = @ \/ c = "multipart",
                 !.finalBound  = IF c = "multipart" THEN BoundOf(u) ELSE @]

HeadersEnd(s) == CHOOSE i \in 1..Len(s) :
                   HasEndh(s[i]) /\ \A j \in 1..(i - 1) : ~HasEndh(s[j])

\* The first half of findReqEnd: look for the headers once per request.
Scanned(req) ==
  IF req.foundHeaders \/ \A i \in 1..Len(req.reqString) : ~HasEndh(req.reqString[i])
  THEN req
  ELSE IsChunked(req.reqString[HeadersEnd(req.reqString)],
                 [req EXCEPT !.foundHeaders = TRUE, !.method = MethodOf(req.reqString)])

\* The units in the last 100 bytes.
InWindow(s) == {s[i] : i \in {j \in 1..Len(s) : j + Window > Len(s)}}

\* Faulty variant: the end of the headers ends a chunked request of any method.
ReqEndAnyMethod(req) ==
  /\ req.foundHeaders
  /\ \/ ~req.isTransfer /\ ~req.isMultipart
     \/ req.isTransfer /\ \E u \in InWindow(req.reqString) : HasZero(u) \/ HasEndh(u)
     \/ req.isMultipart /\ \E u \in InWindow(req.reqString) : HasBound(u, req.finalBound)

\* The second half of findReqEnd, on a record that Scanned returned.
ReqEnd(req) ==
  /\ req.foundHeaders
  /\ \/ ~req.isTransfer /\ ~req.isMultipart
     \/ req.isTransfer /\ \E u \in InWindow(req.reqString) : HasZero(u)
     \/ /\ req.isTransfer
        /\ req.method \notin {"POST", "PUT"}
        /\ \E u \in InWindow(req.reqString) : HasEndh(u)
     \/ req.isMultipart /\ \E u \in InWindow(req.reqString) : HasBound(u, req.finalBound)

\* A string that is exactly one request, first unit to last.
IsWhole(s) == s # <<>> /\ s = Wire(s[1].kind, s[1].n)

(***************************************************************************)
(* The requests whose end these searches can tell: one without a body, or  *)
(* a POST or PUT whose body is chunked or multipart, whose headers do not  *)
(* end in 0, whose data does not hold the five bytes of the last chunk, and*)
(* whose boundary is found as it is used.                                  *)
(***************************************************************************)
Framed(k) == IF k.coding \in {"chunked", "multipart"}
             THEN /\ k.method \in {"POST", "PUT"} /\ ~k.zero /\ k.data # "end"
                  /\ k.coding = "multipart" => k.exact
             ELSE k.body = 0
=============================================================================
